CONSTANTS
    Warcs = {1, 2}
    NoWarc = NoWarc
    MaxNames = 2
    MaxFaults = 1
    MaxBreaks = 1
SPECIFICATION ReplaySpec
INVARIANTS ReplayTypeOK ManifestIsSound SnapshotsResolve VerifiedIsServed
PROPERTY IndexedIsReplayed
