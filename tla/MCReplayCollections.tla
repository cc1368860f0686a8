-------------------------- MODULE MCReplayCollections --------------------------
EXTENDS ReplayCollections
================================================================================
