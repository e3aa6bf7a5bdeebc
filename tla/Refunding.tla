----------------------------- MODULE Refunding -----------------------------
(***************************************************************************)
(* How money goes back when packages are cancelled.  A cancellation (by    *)
(* the customer or the partner API, by staff) reads the packages and what  *)
(* is left to refund, saves the rows it read with the new status, and then *)
(* refunds each package at once or leaves a row of package_refunds for the *)
(* refund scheduler.  The status scheduler expires packages nobody brought *)
(* to the warehouse.  All of them run side by side, without locks.         *)
(*                                                                         *)
(* A price, with the fees a package is created with, is 1; so is the fee    *)
(* for an early scan, which no cancellation gives back.  What a customer   *)
(* paid for a package, less what came back, is Net.  The types of fees are *)
(* a table no code writes.  The daily limit of cancellations and the stock *)
(* of products are not modelled here.                                      *)
(***************************************************************************)
EXTENDS Integers, SequencesExt, FiniteSetsExt

CONSTANTS Packages, Calls,
          Worlds,         \* the situations that are checked: which packages there are,
                          \*   with which traits, which calls may run, and which fees
                          \*   may be charged
          MaxFees,        \* bound on the fees of each type, per package
          MaxRows,        \* bound on the table package_refunds
          MaxFaults,      \* bound on crashes and errors of the database
          Idle

Traits == {"tiktok",    \* billed without a tracking row
           "barcode",   \* with a TikTok label of the customer
           "early",     \* with a fee for an early scan
           "kept",      \* of a service the cancellations leave out
           "never"}     \* of a service PackageRefund.Handle leaves out
FeeTypes == {"refundable",   \* charged by staff, and refunded with the package
             "final",        \* charged by staff, and not refunded
             "refund",       \* given back by staff
             "label"}        \* for a label bought in place of another

ASSUME RefundingConstants ==
  /\ Packages \subseteq Nat /\ IsFiniteSet(Packages)   \* ids of a list
  /\ Worlds \subseteq [list : UNION {[S -> SUBSET Traits] : S \in SUBSET Packages},
                        calls : SUBSET Calls, types : SUBSET FeeTypes]
  /\ \A w \in Worlds : \A p \in DOMAIN w.list :
       /\ "barcode" \in w.list[p] => "tiktok" \in w.list[p]
       /\ "never" \in w.list[p] => "kept" \in w.list[p]
  /\ MaxFees \in Nat /\ MaxRows \in Nat /\ MaxFaults \in Nat

VARIABLES
  pkg,        \* packages: status, label_promotion, whether a tracking row is in use,
              \*   and the traits of service and label
  extra,      \* extra_fees: the sum of the rows that are refunded with a package
  final,      \* extra_fees: the sum of the rows that are not (early scans, types switched off)
  rows,       \* package_refunds
  calls,      \* what the running cancellations hold
  todo,       \* rows the refund scheduler has read and not paid yet
  faults,     \* crashes and errors so far
  billed,     \* history: packages the customer was charged for
  from,       \* history: the status a package was cancelled in
  fees,       \* history: how many fees of each type a package was charged
  disturbed,  \* history: packages changed by another while a call held them, charged
              \*   after their cancellation, or given back more by hand than was left
  lost        \* history: packages whose refund failed or was cut off by a crash

money == <<extra, final, rows, billed, fees>>
vars == <<pkg, money, calls, todo, faults, from, disturbed, lost>>

-----------------------------------------------------------------------------
Status == {"Created", "PendingPickup", "InWarehouse", "InTransit", "Delivered",
           "Cancelled", "Archived", "Expired"}
Kinds == {"customer", "staff", "expiry"}
Steps == {"pending", "save", "fees", "handlePending", "pay"}
Sorts == UNION {{w.list[p] : p \in DOMAIN w.list} : w \in Worlds}
Row == [status : Status, promoted : BOOLEAN, tracked : BOOLEAN, traits : Sorts]
Call == [kind : Kinds, pc : Steps,
         seen : UNION {[S -> Row] : S \in SUBSET Packages},
         due : [Packages -> Int],      \* amounts to refund, as far as known
         now : SUBSET Packages]        \* packages to refund at once
Refund == [package : Packages, amount : Nat, paid : BOOLEAN]

ASSUME IdleIsNoCall == Idle \notin Calls /\ Idle \notin Call

TypeOK ==
  /\ \E S \in SUBSET Packages : pkg \in [S -> Row]
  /\ extra \in [Packages -> Int] /\ final \in [Packages -> Nat]
  /\ rows \in Seq(Refund)
  /\ \E C \in SUBSET Calls : calls \in [C -> Call \cup {Idle}]
  /\ todo \subseteq DOMAIN rows
  /\ faults \in 0..MaxFaults
  /\ billed \subseteq Packages /\ disturbed \subseteq Packages /\ lost \subseteq Packages
  /\ from \in [Packages -> Status]
  /\ \E T \in SUBSET FeeTypes : fees \in [T -> [Packages -> 0..MaxFees]]

-----------------------------------------------------------------------------
Price == 1

Listed == DOMAIN pkg
Running == DOMAIN calls

With(trait) == {p \in Listed : trait \in pkg[p].traits}
Tiktok == With("tiktok")
Barcoded == With("barcode")
NotRefunded == With("kept")
NeverRefunded == With("never")

Unpaid(p) == {i \in DOMAIN rows : rows[i].package = p /\ ~rows[i].paid}
PendingSum(p) == MapThenSumSet(LAMBDA i : rows[i].amount, Unpaid(p))
Refundable(p) == Price + extra[p]      \* shipping_fee and GetTotalExtrafeeToRefund
Net(p) == (IF p \in billed THEN Price ELSE 0) + extra[p] + final[p]

\* What staff gave back by hand.
Given(p) == IF "refund" \in DOMAIN fees THEN fees["refund"][p] ELSE 0

At(c, pc) == calls[c] # Idle /\ calls[c].pc = pc
Held(c) == IF calls[c] = Idle THEN {} ELSE DOMAIN calls[c].seen

\* Some other call holds a package that is changed.
Touch(S, c) == disturbed' = disturbed \cup UNION {S \cap Held(d) : d \in Running \ {c}}

\* The call goes on with its next immediate refund, or ends.
Continue(c, now) ==
  calls' = [calls EXCEPT ![c] =
              IF now = {} THEN Idle ELSE [calls[c] EXCEPT !.pc = "fees", !.now = now]]

NextDue(c) == CHOOSE p \in calls[c].now : \A q \in calls[c].now : p >= q

-----------------------------------------------------------------------------
Init ==
  /\ \E w \in Worlds :
       /\ pkg = [p \in DOMAIN w.list |-> [status |-> "Created", promoted |-> FALSE,
                                           tracked |-> FALSE, traits |-> w.list[p]]]
       /\ calls = [c \in w.calls |-> Idle]
       /\ fees = [t \in w.types |-> [p \in Packages |-> 0]]
  /\ extra = [p \in Packages |-> 0] /\ final = [p \in Packages |-> 0] /\ rows = <<>>
  /\ todo = {} /\ faults = 0
  /\ billed = {} /\ from = [p \in Packages |-> "Created"]
  /\ disturbed = {} /\ lost = {}

(* What happens to a package besides: billing, the way through the warehouse, *)
(* fees.                                                                      *)

Bill(p) ==
  /\ pkg[p].status = "Created"
  /\ pkg' = [pkg EXCEPT ![p].status = "PendingPickup", ![p].promoted = TRUE,
                        ![p].tracked = p \notin Tiktok]
  /\ billed' = billed \cup {p}
  /\ final' = IF p \in With("early") THEN [final EXCEPT ![p] = @ + 1] ELSE final
  /\ Touch({p}, Idle)
  /\ UNCHANGED <<extra, rows, fees, calls, todo, faults, from, lost>>

\* The OCR consumer creates the tracking row of a barcoded package, whatever
\* the status it finds.
Ocr(p) ==
  /\ p \in Barcoded \cap billed /\ ~pkg[p].tracked
  /\ pkg' = [pkg EXCEPT ![p].tracked = TRUE]
  /\ UNCHANGED <<money, calls, todo, faults, from, disturbed, lost>>

Move(p, status) ==
  /\ <<pkg[p].status, status>> \in {<<"PendingPickup", "InWarehouse">>,
                                    <<"InWarehouse", "InTransit">>, <<"InTransit", "Delivered">>}
  /\ pkg' = [pkg EXCEPT ![p].status = status]
  /\ Touch({p}, Idle)
  /\ UNCHANGED <<money, calls, todo, faults, from, lost>>

Count(p, type) ==
  /\ type \in DOMAIN fees /\ fees[type][p] < MaxFees
  /\ fees' = [fees EXCEPT ![type][p] = @ + 1]

\* What a fee by staff adds to the fees that are refunded.
Amount(type) == IF type = "refundable" THEN 1 ELSE IF type = "refund" THEN -1 ELSE 0

Closed == {"Cancelled", "Archived", "Expired"}

\* Staff charge a fee, of a type that is refunded with the package or of another, or
\* give an amount back; only a new package is refused.
Fee(p, type) ==
  /\ pkg[p].status # "Created" /\ Count(p, type)
  /\ extra' = [extra EXCEPT ![p] = @ + Amount(type)]
  /\ final' = IF type = "final" THEN [final EXCEPT ![p] = @ + 1] ELSE final
  /\ LET spoilt == \/ pkg[p].status \in Closed
                   \/ \E d \in Running : p \in Held(d)
                   \/ Price + extra'[p] < PendingSum(p)
     IN disturbed' = IF spoilt THEN disturbed \cup {p} ELSE disturbed
  /\ UNCHANGED <<pkg, rows, billed, calls, todo, faults, from, lost>>

\* UpdateTracking: a label bought in place of another is charged, and the same
\* amount is put down to be refunded.
Hold(p) ==
  /\ pkg[p].status = "InWarehouse" /\ Len(rows) < MaxRows /\ Count(p, "label")
  /\ extra' = [extra EXCEPT ![p] = @ + 1]
  /\ rows' = Append(rows, [package |-> p, amount |-> 1, paid |-> FALSE])
  /\ pkg' = [pkg EXCEPT ![p].tracked = TRUE]
  /\ Touch({p}, Idle)
  /\ UNCHANGED <<final, billed, calls, todo, faults, from, lost>>

-----------------------------------------------------------------------------
(* Cancellations. *)

\* The packages and their fees are read.  A customer cancels what is not in the
\* warehouse yet; staff cancel anything but delivered and expired packages, and
\* nothing happens when all are cancelled.
Begin(c, kind, S) ==
  /\ calls[c] = Idle
  /\ \/ kind = "customer" /\ \A p \in S : pkg[p].status \in {"Created", "PendingPickup"}
     \/ /\ kind = "staff"
        /\ \A p \in S : pkg[p].status \notin {"Delivered", "Expired"}
        /\ \E p \in S : pkg[p].status \notin {"Cancelled", "Archived"}
  /\ calls' = [calls EXCEPT ![c] =
       [kind |-> kind, pc |-> "pending",
        seen |-> [p \in S |-> pkg[p]],
        due |-> [p \in Packages |-> IF p \in S THEN Refundable(p) ELSE 0], now |-> {}]]
  /\ UNCHANGED <<pkg, money, todo, faults, from, disturbed, lost>>

\* Mutant: what waits to be paid is forgotten.
AllStillDue(c) ==
  /\ At(c, "pending")
  /\ calls' = [calls EXCEPT ![c].pc = "save"]
  /\ UNCHANGED <<pkg, money, todo, faults, from, disturbed, lost>>

\* The refunds that wait to be paid are read and taken off.
ReadPending(c) ==
  /\ At(c, "pending")
  /\ calls' = [calls EXCEPT ![c].pc = "save",
       ![c].due = [p \in Packages |-> IF p \in Held(c) THEN @[p] - PendingSum(p) ELSE 0]]
  /\ UNCHANGED <<pkg, money, todo, faults, from, disturbed, lost>>

Live(c) == {p \in Held(c) : calls[c].seen[p].status \notin {"Cancelled", "Archived"}}
SeenAs(c, status) == {p \in Live(c) : calls[c].seen[p].status = status}
Tracked(c) == {p \in Live(c) : calls[c].seen[p].tracked}

\* Packages to be refunded at once.
AtOnce(c) ==
  IF calls[c].kind = "customer"
  THEN SeenAs(c, "PendingPickup") \cap (Barcoded \cup (Packages \ (Tracked(c) \cup NotRefunded)))
  ELSE (Live(c) \cap Barcoded) \cup
       (SeenAs(c, "PendingPickup") \cap (NotRefunded \cup (Packages \ Tracked(c))))

\* Mutants: packages in the warehouse are left out; an amount is not looked at.
PickedUpOnly(c) ==
  {p \in SeenAs(c, "PendingPickup") \cap Tracked(c) :
     p \notin Barcoded \cup NotRefunded /\ calls[c].due[p] > 0}
AnyAmount(c) ==
  (SeenAs(c, "InWarehouse") \cup (SeenAs(c, "PendingPickup") \cap Tracked(c)))
    \ (Barcoded \cup NotRefunded)

\* Packages to be refunded by the scheduler.
Deferred(c) ==
  {p \in (SeenAs(c, "PendingPickup") \cap Tracked(c)) \cup
         (IF calls[c].kind = "staff" THEN SeenAs(c, "InWarehouse") ELSE {}) :
     p \notin Barcoded \cup NotRefunded /\ calls[c].due[p] > 0}

\* CancelPackages writes the rows back as they were read, with the new status,
\* cancels their trackings and creates the refunds.
NewStatus(c, p) ==
  IF p \notin Live(c) THEN calls[c].seen[p].status
  ELSE IF p \in SeenAs(c, "Created") /\ ~(calls[c].kind = "staff" /\ p \in Barcoded)
       THEN "Archived" ELSE "Cancelled"

CancelPackages(c) ==
  /\ At(c, "save")
  /\ Len(rows) + Cardinality(Deferred(c)) <= MaxRows
  /\ pkg' = [p \in Listed |->
               IF p \in Held(c)
               THEN [calls[c].seen[p] EXCEPT !.status = NewStatus(c, p), !.tracked = FALSE]
               ELSE pkg[p]]
  /\ from' = [p \in Packages |-> IF p \in Live(c) THEN calls[c].seen[p].status ELSE from[p]]
  /\ rows' = rows \o SetToSeq({[package |-> p, amount |-> calls[c].due[p], paid |-> FALSE] :
                                 p \in Deferred(c)})
  /\ Continue(c, AtOnce(c))
  /\ Touch(Held(c), c)
  /\ UNCHANGED <<extra, final, billed, fees, todo, faults, lost>>

\* Mutant: the service is not looked at.
FeesOfAny(c) ==
  /\ At(c, "fees")
  /\ calls' = [calls EXCEPT ![c].pc = "handlePending",
                            ![c].due[NextDue(c)] = Refundable(NextDue(c))]
  /\ UNCHANGED <<pkg, money, todo, faults, from, disturbed, lost>>

\* PackageRefund.Handle, for the next package: fees are read ...
HandleFees(c) ==
  /\ At(c, "fees")
  /\ LET p == NextDue(c) IN
     IF p \in NeverRefunded THEN Continue(c, calls[c].now \ {p})
     ELSE calls' = [calls EXCEPT ![c].pc = "handlePending", ![c].due[p] = Refundable(p)]
  /\ UNCHANGED <<pkg, money, todo, faults, from, disturbed, lost>>

\* ... then waiting refunds, and nothing is done unless an amount is left ...
HandlePending(c) ==
  /\ At(c, "handlePending")
  /\ LET p == NextDue(c)
         amount == calls[c].due[p] - PendingSum(p)
     IN IF amount <= 0 THEN Continue(c, calls[c].now \ {p})
        ELSE calls' = [calls EXCEPT ![c].pc = "pay", ![c].due[p] = amount]
  /\ UNCHANGED <<pkg, money, todo, faults, from, disturbed, lost>>

\* ... which CreateExtraFee posts as a negative fee.
HandlePay(c) ==
  /\ At(c, "pay")
  /\ LET p == NextDue(c) IN
     /\ extra' = [extra EXCEPT ![p] = @ - calls[c].due[p]]
     /\ Continue(c, calls[c].now \ {p})
     /\ Touch({p}, c)
  /\ UNCHANGED <<pkg, final, rows, billed, fees, todo, faults, from, lost>>

-----------------------------------------------------------------------------
(* Schedulers. *)

\* The refund scheduler reads the rows that have waited long enough ...
Tick(I) ==
  /\ todo = {} /\ I # {} /\ \A i \in I : ~rows[i].paid
  /\ todo' = I
  /\ UNCHANGED <<pkg, money, calls, faults, from, disturbed, lost>>

\* Mutant: the transaction is rolled back and the round goes on as if it were not.
PaidUnmarked(i) ==
  /\ i \in todo /\ todo' = todo \ {i}
  /\ UNCHANGED <<pkg, money, calls, faults, from, disturbed, lost>>

\* ... and pays one after the other.
PackageRefund(i) ==
  /\ i \in todo /\ todo' = todo \ {i}
  /\ rows' = [rows EXCEPT ![i].paid = TRUE]
  /\ extra' = [extra EXCEPT ![rows[i].package] = @ - rows[i].amount]
  /\ Touch({rows[i].package}, Idle)
  /\ UNCHANGED <<pkg, final, billed, fees, calls, faults, from, lost>>

\* The status scheduler expires packages, and refunds those that were not
\* billed with their label.
DeactivatePackageCodes(c, S) ==
  /\ calls[c] = Idle
  /\ S # {} /\ \A p \in S : pkg[p].status = "PendingPickup"
  /\ pkg' = [p \in Listed |-> IF p \in S THEN [pkg[p] EXCEPT !.status = "Expired"] ELSE pkg[p]]
  /\ LET now == {p \in S : ~pkg[p].promoted} IN
     calls' = [calls EXCEPT ![c] =
       IF now = {} THEN Idle
       ELSE [kind |-> "expiry", pc |-> "fees", now |-> now, due |-> [p \in Packages |-> 0],
             seen |-> [p \in now |-> pkg[p]]]]
  /\ Touch(S, Idle)
  /\ UNCHANGED <<money, todo, faults, from, lost>>

-----------------------------------------------------------------------------
(* Faults. *)

\* An error before the save ends the call; one of an immediate refund is logged
\* and the call goes on with the next.
Fail(c) ==
  /\ calls[c] # Idle
  /\ faults < MaxFaults /\ faults' = faults + 1
  /\ \/ calls[c].pc \in {"pending", "save"}
        /\ calls' = [calls EXCEPT ![c] = Idle] /\ UNCHANGED lost
     \/ calls[c].pc \in {"fees", "handlePending", "pay"}
        /\ Continue(c, calls[c].now \ {NextDue(c)})
        /\ lost' = lost \cup {NextDue(c)}
  /\ UNCHANGED <<pkg, money, todo, from, disturbed>>

\* An error about the user of a row is logged, and the round goes on without the row.
SkipRow(i) ==
  /\ i \in todo /\ todo' = todo \ {i}
  /\ faults < MaxFaults /\ faults' = faults + 1
  /\ UNCHANGED <<pkg, money, calls, from, disturbed, lost>>

\* Any other error ends the scheduler's round.
SchedulerFails ==
  /\ todo # {} /\ todo' = {}
  /\ faults < MaxFaults /\ faults' = faults + 1
  /\ UNCHANGED <<pkg, money, calls, from, disturbed, lost>>

\* The server restarts: immediate refunds that were still to be made are gone.
Crash ==
  /\ faults < MaxFaults /\ faults' = faults + 1
  /\ \E c \in Running : calls[c] # Idle
  /\ lost' = lost \cup UNION {calls[c].now : c \in {d \in Running : calls[d] # Idle}}
  /\ calls' = [c \in Running |-> Idle]
  /\ UNCHANGED <<pkg, money, todo, from, disturbed>>

Step(c) ==
  \/ ReadPending(c) \/ CancelPackages(c)
  \/ HandleFees(c) \/ HandlePending(c) \/ HandlePay(c)

Next ==
  \/ \E p \in Listed :
       \/ Bill(p) \/ Ocr(p) \/ Hold(p) \/ \E status \in Status : Move(p, status)
       \/ \E type \in FeeTypes \ {"label"} : Fee(p, type)
  \/ \E c \in Running, kind \in {"customer", "staff"}, S \in (SUBSET Listed) \ {{}} :
       Begin(c, kind, S)
  \/ \E c \in Running : Step(c) \/ Fail(c)
  \/ \E c \in Running, S \in SUBSET Listed : DeactivatePackageCodes(c, S)
  \/ \E I \in SUBSET DOMAIN rows : Tick(I)
  \/ \E i \in DOMAIN rows : PackageRefund(i) \/ SkipRow(i)
  \/ SchedulerFails \/ Crash

Spec == Init /\ [][Next]_vars

\* The scheduler's ticker fires again and again, every row becomes old enough,
\* and a round goes through its list.
FairSpec ==
  /\ Spec
  /\ WF_vars(\E I \in SUBSET DOMAIN rows :
               I = {i \in DOMAIN rows : ~rows[i].paid} /\ Tick(I))
  /\ WF_vars(\E i \in DOMAIN rows : PackageRefund(i))

-----------------------------------------------------------------------------
(* Properties. *)

\* Staff cancel a package with a label of the customer whatever its status, and
\* PackageRefund.Handle does not ask whether it was billed.
RefundedUnbilled(p) == p \in Barcoded \ billed /\ pkg[p].status = "Cancelled"

\* For no package, billed or not, does a customer get back more than was paid,
\* counting what is still to be paid and leaving out the fees that are final, as
\* long as calls for the package do not overlap: fees, refunds made and refunds
\* that wait add up in whatever order they come.  The one package that costs the
\* shop money is the one staff cancelled before it was billed, and it costs one
\* price.
NotOverRefunded ==
  \A p \in Listed \ disturbed :
    Net(p) - PendingSum(p) >= final[p] - (IF RefundedUnbilled(p) THEN Price ELSE 0)

\* A billed package cancelled before it left the warehouse is refunded, at once or
\* by a waiting row, once no call for it runs: all that was paid but the fee for
\* the early scan and fees of types switched off, unless its service is not
\* refunded, calls overlapped or an immediate refund failed.
CancelledSettled ==
  \A p \in billed \ (disturbed \cup lost \cup NotRefunded) :
    (/\ pkg[p].status = "Cancelled"
     /\ from[p] \in {"PendingPickup", "InWarehouse"}
     /\ \A c \in Running : p \notin Held(c)) => Net(p) = PendingSum(p) + final[p]

\* PackageRefund.Handle's comment, "inus, us48, au and eu are not refunded": no
\* cancellation, by whomever and however calls overlap, fail or are retried,
\* gives back the price of such a package; only staff by hand may.
PriceKept ==
  \A p \in NeverRefunded \cap billed :
    Net(p) - PendingSum(p) + Given(p) >= Price + final[p]

\* Every refund that waits is paid in the end, errors and restarts included.
RefundsPaid ==
  \A i \in 1..MaxRows :
    (i \in DOMAIN rows /\ ~rows[i].paid) ~> (i \in DOMAIN rows /\ rows[i].paid)

\* "hoàn lại tiền ngay cho khách khi đơn chưa dc tạo mã label bên carrier": an
\* expired package without a label of the carrier is refunded at once.
ExpiredRefunded ==
  \A p \in billed :
    (/\ pkg[p].status = "Expired" /\ ~pkg[p].tracked
     /\ \A c \in Running : p \notin Held(c)) => Net(p) = final[p]
=============================================================================
