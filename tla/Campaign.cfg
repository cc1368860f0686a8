CONSTANTS
    Sources = {hc}
    ScopedSources = {hc}
    CanarySources = {hc}
    Schedulers = {timer}
    Overrides <- MCOverrides
    MaxCreate = 1
    MaxJobs = 2
    MaxOthers = 1
    MaxPatches = 1
    MaxDeploys = 1
    MaxFaults = 1
SPECIFICATION LiveSpec
INVARIANTS TypeOK ScheduledOnce ReadyIsHonest ToolsAgree
PROPERTY ScopeIsRepaired
