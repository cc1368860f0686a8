CONSTANTS
    InitialWorkers = 2
    MinWorkers = 1
    MaxStages = 2
    MaxReductions = 1
    MaxRestarts = 0
    MaxRotations = 0
    Absent = Absent
    Torn = Torn
    Options <- MCOptions
    MaxQueue = 1
    MaxRuns = 2
    Faults = {"signal", "crash", "detach", "stopfails", "mount"}
    MaxFaults = 1
SPECIFICATION Spec
INVARIANTS TypeOK NoUnaccountedContainer BuildSeesAll SpentIsSaved
