CONSTANTS
    Jobs = {1, 2}
    Units = {2}
    ConfirmRuns = 2
    MaxRecoveries = 1
    MaxBreaks = 1
    MaxFaults = 1
SPECIFICATION LiveSpec
INVARIANTS TypeOK WorkerCrawlsMounted
PROPERTIES StaleIsRepaired WorkerReturns
