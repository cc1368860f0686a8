------------------------------ MODULE MCWarcStorage ------------------------------
EXTENDS WarcStorage, TLC
Symmetry == Permutations(Warcs)
================================================================================
