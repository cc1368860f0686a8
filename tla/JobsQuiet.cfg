CONSTANTS
    Jobs = {1}
    Workers = {w1}
    Operators = {o1, o2}
    NoProc = NoProc
    Commands = {"index", "reset"}
    MaxCrawlRetries = 1
    MaxInfraRetries = 2
    NewCounts = {0, 2}
    Annual = {}
    MaxFaults = 1
SPECIFICATION Spec
INVARIANTS CrawlIsMarked FailuresBounded
