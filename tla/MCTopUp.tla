------------------------------ MODULE MCTopUp ------------------------------
EXTENDS TopUp, TLC

CONSTANTS c1, c2

MCAmounts == 0..2
CallSymmetry == Permutations({c1, c2})
=============================================================================
