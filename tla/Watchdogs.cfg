CONSTANTS
    Jobs = {1}
    Source <- OneSource
    MaxRecoveries = 1
    EnsureMin = 1
    MaxFaults = 2
SPECIFICATION LiveSpec
INVARIANTS TypeOK RecoveriesBounded
PROPERTIES DriftIsRepaired WorkerReturns
