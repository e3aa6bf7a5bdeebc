------------------------------ MODULE MCStock ------------------------------
EXTENDS Stock, TLC

CallSymmetry == Permutations(Calls)
=============================================================================
