CONSTANTS
    Jobs = {1, 2}
    Workers = {w1}
    Operators = {o1}
    NoProc = NoProc
    Commands = {"index"}
    MaxCrawlRetries = 1
    MaxInfraRetries = 2
    NewCounts = {0, 2}
    Annual = {1}
    MaxFaults = 0
SPECIFICATION LiveSpec
PROPERTIES KeepsContract QueuedIsTried JobsSettle
