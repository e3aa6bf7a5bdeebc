------------------------------- MODULE Ledger -------------------------------
(***************************************************************************)
(* What the accounts promise: a balance moves only together with one new   *)
(* row of transaction_logs, of the same user, by the signed amount of that *)
(* row; a row is never changed or removed; an unsuccessful row moves       *)
(* nothing.                                                                *)
(***************************************************************************)
EXTENDS Integers, Sequences

CONSTANTS Users, Entries, Amounts

VARIABLES balance, log

\* The effect of a row on the balance of its user.
Signed(e) == IF e.status # "Success" THEN 0
             ELSE IF e.type = "Pay" THEN 0 - e.amount ELSE e.amount

Init ==
  /\ balance = [u \in Users |-> 0]
  /\ log = <<>>

Post(e) ==
  /\ log' = Append(log, e)
  /\ balance[e.user] + Signed(e) \in Amounts
  /\ balance' = [balance EXCEPT ![e.user] = @ + Signed(e)]

Next == \E e \in Entries : Post(e)

Spec == Init /\ [][Next]_<<balance, log>>
=============================================================================
