CONSTANTS
    Warcs = {a, b}
    NoWarc = NoWarc
    MaxNames = 3
    MaxFaults = 0
SPECIFICATION Spec
PROPERTY CleanupPreservesWarcs
