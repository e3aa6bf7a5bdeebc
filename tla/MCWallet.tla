------------------------------ MODULE MCWallet ------------------------------
EXTENDS WalletAudit, TLC

CONSTANTS u1, p1, p2, f1, f2, r1, r2

MCOwner == [p \in Packages |-> u1]

\* A behaviour begins on the day before midnight, when packages are billed and accounts
\* topped up, or on a day by itself, when packages are billed and cancelled.
MCDays == {1, 2, 4}
Mornings == {1, 4}
MCDeposits == [d \in Days |-> IF d = 4 THEN {} ELSE {2}]
MCCancellable == [d \in Days |-> IF d = 4 THEN Packages ELSE {}]
MCPrices == {1}
MCAmounts == {0, 1}
RowSymmetry == Permutations(FeeIds) \cup Permutations(Requests) \cup Permutations(Packages)
=============================================================================
