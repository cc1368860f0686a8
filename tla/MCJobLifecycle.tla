--------------------------- MODULE MCJobLifecycle ---------------------------
EXTENDS JobLifecycle
=============================================================================
