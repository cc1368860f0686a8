CONSTANTS
    Jobs = {1, 2}
    Source <- OneSource
    MaxRecoveries = 1
    EnsureMin = 0
    MaxFaults = 0
SPECIFICATION Spec
PROPERTIES NeverFlipsCrawling
