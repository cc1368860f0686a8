--------------------------- MODULE MCStorageMounts ---------------------------
EXTENDS StorageMounts
=============================================================================
