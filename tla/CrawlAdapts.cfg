CONSTANTS
    InitialWorkers = 2
    MinWorkers = 1
    MaxStages = 2
    MaxReductions = 1
    MaxRestarts = 1
    MaxRotations = 1
    Absent = Absent
    Torn = Torn
    Options <- MCOptions
    MaxQueue = 2
    MaxRuns = 1
    Faults = {}
    MaxFaults = 0
SPECIFICATION LiveSpec
INVARIANTS LaunchesAreBudgeted SuccessWasCrawled
PROPERTY RunEnds
