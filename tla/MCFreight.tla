----------------------------- MODULE MCFreight -----------------------------
EXTENDS Freight, TLC

CallSymmetry == Permutations(Calls)
=============================================================================
