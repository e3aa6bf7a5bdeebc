----------------------------- MODULE WalletAudit -----------------------------
(***************************************************************************)
(* The wallet with two history variables that record when a request used a *)
(* value that had changed since it read it, and the properties of the      *)
(* money tables.                                                           *)
(*   crossed: users whose balance changed sign in a VAT change, the one    *)
(*            movement of money that leaves debt_time alone;               *)
(*   adrift:  bills touched by a request that posted a stale price or a    *)
(*            stale VAT amount, moved a package billed before, wrote back  *)
(*            a stale package, or posted a VAT change to another bill than *)
(*            the one its fee is on.                                       *)
(***************************************************************************)
EXTENDS Wallet, SequencesExt

VARIABLES crossed, adrift

auditVars == <<vars, crossed, adrift>>

Negative(b, u) == b[u] < 0

\* The requests of a kind that the step completes.
Done(kind) == {r \in Requests : req[r] # Idle /\ req[r].kind = kind /\ req'[r] = Idle}

Crossing == {u \in Users : Done("vat") # {} /\ Negative(balance, u) # Negative(balance', u)}

\* The bills a package or one of its fees is on.
BillsOf(p) == ({pkgs[p].bill} \cup {fees[f].bill : f \in {g \in Rows : fees[g].package = p}})
                \ {NoBill}

\* Set by a billing with a price read before a change, or of a package that
\* another request billed in the meantime.
StaleQuotes ==
  UNION {LET S == req[r].packages
             old == UNION {BillsOf(p) : p \in S}
         IN IF old = {} /\ req[r].price = MapThenSumSet(PriceOf, S) THEN {}
            ELSE old \cup {pkgs'[p].bill : p \in S} : r \in Done("quote")}

\* Set by a VAT change from an amount that is no longer the amount of the row,
\* or posted to today's bill when the row is on an earlier one.
StaleVats ==
  UNION {LET v == req[r] IN
         IF v.old = fees[v.fee].amount /\ v.bill = fees[v.fee].bill THEN {}
         ELSE {v.bill, fees[v.fee].bill} : r \in Done("vat")}

\* Set by a cancellation that takes a package off its bill, or puts it back on an
\* earlier one, because the package was billed after it was read.
StaleCancels ==
  UNION {LET seen == req[r].seen IN
         UNION {{seen[p].bill, pkgs[p].bill} :
                  p \in {q \in DOMAIN seen : \/ seen[q].bill # pkgs[q].bill
                                           \/ seen[q].shippingFee # pkgs[q].shippingFee}} :
           r \in Done("cancel")}

AuditInit == Init /\ crossed = {} /\ adrift = {}

AuditNext ==
  /\ Next
  /\ crossed' = crossed \cup Crossing
  /\ adrift' = adrift \cup StaleQuotes \cup StaleCancels \cup StaleVats

AuditSpec == AuditInit /\ [][AuditNext]_auditVars

-----------------------------------------------------------------------------
(* Properties. *)

Promise == INSTANCE Ledger WITH Entries <- LogRow, Amounts <- Money

\* The balance and the log implement the ledger: no transaction of the bill and
\* transaction managers moves a balance without logging the same amount for the
\* same user, and none rewrites the log.
ImplementsLedger == Promise!Spec

\* debt_time is set exactly while the balance is negative, as long as no VAT
\* change carried the balance across zero: the statements that set and clear it
\* are conditional and each runs for one direction only.
DebtTimeTracksDebt ==
  \A u \in Users : u \notin crossed => (debtTime[u] <=> balance[u] < 0)

\* What a customer paid on a bill, less what was returned on it, is what the
\* bill says, unless a stale read was posted to it: the sums of rows that
\* CreateBillWithLabelPromotion takes agree with the increments of the others.
BillMatchesPayments ==
  \A b \in Bills : (bills[b] # NoRow /\ b \notin adrift) =>
    bills[b].shipping + bills[b].extra =
      FoldSeq(LAMBDA e, s : IF e.bill = b THEN s - Promise!Signed(e) ELSE s, 0, log)

\* Each total of a bill is the sum of its rows: shipping fees of the packages
\* on it, amounts of the fees on it, whatever the order in which packages and
\* late fees arrive.
BillMatchesRows ==
  \A b \in Bills : (bills[b] # NoRow /\ b \notin adrift) =>
    /\ bills[b].shipping =
         MapThenSumSet(LAMBDA p : pkgs[p].shippingFee, {p \in Packages : pkgs[p].bill = b})
    /\ bills[b].extra = SumOfFees(FeesOn(b))
=============================================================================
