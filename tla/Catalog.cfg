CONSTANTS
    Jobs = {1, 2}
    Groups = {1, 2}
    Captures = {1, 2, 3, 4}
    Capture <- MCCapture
    FirstSince = 1
    LastSince = 2
    MaxEvents = 1
    MaxId = 3
    MaxTroubles = 1
    Words = {1, 2}
    Match <- MCMatch
    Rank <- MCRank
    Queries <- MCQueries
    PageSize = 1
    HasTrgm = TRUE
    EntryScan = 500
    ResolveScan = 250
    ExportLimit = 1
SPECIFICATION LiveSpec
INVARIANTS TypeOK EveryContentIsShown PagesMatch InlinksMatch ReadsAgree ComparesBackwards
PROPERTY FeedCatchesUp
