CONSTANTS
    Jobs = {1}
    Workers = {w1}
    Operators = {o1}
    NoProc = NoProc
    Commands = {"run", "index", "retry", "reset", "recover", "quarantine"}
    MaxCrawlRetries = 1
    MaxInfraRetries = 2
    NewCounts = {0, 2}
    Annual = {}
    MaxFaults = 1
SPECIFICATION Spec
INVARIANTS TypeOK CrawlExclusion IndexedWasCrawled
