------------------------------- MODULE Parcel -------------------------------
(***************************************************************************)
(* The row of one package, with its fees and trackings, as the API, the    *)
(* queue consumers and the schedulers share it.  Each of them reads the    *)
(* row, decides, and writes later, some only the columns they mean to      *)
(* change, some the whole row as they read it.                             *)
(*                                                                         *)
(* Here are the state, what a call keeps of it, and the two ends of a      *)
(* package's life before the warehouse: it is billed, or cancelled.        *)
(* Labels and Weighing have the other writers, Intake composes them.       *)
(* Prices grow with the weight: the price of weight w is w, up to the      *)
(* limit of the service.                                                   *)
(***************************************************************************)
EXTENDS Integers, FiniteSets

CONSTANTS Worlds,       \* initial situations: the sort of package, the weights it can
                        \*   show, the last weight its service has a price for, whether
                        \*   it is longer than PackageMaxLength, the actors
          Costs,        \* what a label over the limit can come to
          Handlers,     \* requests to the API
          Uploads,      \* the consumer of tiktok_upload_queue and its scheduler
          Readers,      \* the consumer of tiktok_ocr_queue and its scheduler
          Consumers,    \* those of Uploads and Readers that are consumers
          MaxFaults,    \* bound on errors, lost messages and crashes
          MaxHarm,      \* bound on the harm done (the last history) when a request begins
          MaxPaid,      \* bound on what is charged
          Idle

Kind == {"plain", "AU", "tiktok"}

ASSUME ParcelConstants ==
  /\ Consumers \subseteq Uploads \cup Readers
  /\ \A w \in Worlds : /\ w.kind \in Kind
                       /\ w.weights \subseteq Nat \ {0}
                       /\ w.limit \in Nat /\ w.long \in BOOLEAN
                       /\ w.actors \subseteq Handlers \cup Uploads \cup Readers
  /\ Costs \subseteq Nat
  /\ MaxFaults \in Nat /\ MaxHarm \in Nat /\ MaxPaid \in Nat

VARIABLES
  world,
  row,        \* packages
  fees,       \* extra_fees: sums of FixWeight, FixVolume, CancelLabel, and of the fees of
              \*   the size (oversize, service, discount, battery)
  tracked,    \* trackings: number of rows that are not cancelled
  paid,       \* what was taken from the balance for this package
  queued,     \* RabbitMQ: the queues that hold a message of this package
  marks,      \* Redis sets that hold this package
  calls,      \* what the running calls hold
  faults,
  heaviest,   \* history: the largest price that was asked for since billing, of a weight
              \*   or of a label over the limit
  harm        \* history: what a call wrote although it had changed since it was read,
              \*   and "price" if a scan went on without one

table == <<row, fees, tracked, paid>>
vars == <<world, table, queued, marks, calls, faults, heaviest, harm>>

-----------------------------------------------------------------------------
Ended == {"Cancelled", "Archived"}
Status == {"Created", "PendingPickup", "Picked", "Labeled"} \cup Ended

Weight == UNION {w.weights : w \in Worlds}
Row == [status : Status, alert : BOOLEAN, label : {"none", "url", "stored"},
        recipient : {"given", "read", "N/A"},
        weight : Weight, actual : Weight \cup {0}, fee : Weight, exceed : BOOLEAN]
Fees == [fix : Int, volume : Nat, hold : Int, size : {0, 1}]

\* What a call read, and what it has found out since: whether the carrier made a new
\* label, what is held back for the old one, what the label costs over the limit.
Seen == [row : Row, fees : Fees, tracked : Nat, paid : Int]
Call == [pc : {"bill", "cancel", "scan", "save", "checkin", "mark", "call", "update",
               "price", "finish", "accept", "claim", "carrier", "exceed", "checked", "return",
               "store", "ocr", "replace", "create"},
         seen : Seen, weight : Weight \cup {0}, new : BOOLEAN, held : Int, cost : Nat]

Harms == {"status", "money", "tracking", "volume", "price"}

ASSUME IdleIsNoCall == Idle \notin Call

TypeOK ==
  /\ world \in Worlds
  /\ row \in Row /\ fees \in Fees /\ tracked \in Nat /\ paid \in Int
  /\ queued \subseteq {"upload", "ocr"}
  /\ marks \subseteq {"package_call_label", "package_call_label_1"}
  /\ calls \in [world.actors -> Call \cup {Idle}]
  /\ faults \in 0..MaxFaults /\ heaviest \in Nat \ {0} /\ harm \subseteq Harms

-----------------------------------------------------------------------------
Tiktok == world.kind = "tiktok"
At(c, pc) == calls[c] # Idle /\ calls[c].pc = pc
Goto(c, pc) == calls' = [calls EXCEPT ![c].pc = pc]
End(c) == calls' = [calls EXCEPT ![c] = Idle]

SeenBy(c) == calls[c].seen
Now == [row |-> row, fees |-> fees, tracked |-> tracked, paid |-> paid]

\* A request can begin.  A price that could not be asked for is bounded as a fault.
Begins(c) == calls[c] = Idle /\ Cardinality(harm \ {"price"}) <= MaxHarm

\* The row is read, and the call goes on with it.
Read(c, pc, weight) ==
  calls' = [calls EXCEPT ![c] = [pc |-> pc, seen |-> Now, weight |-> weight,
                                   new |-> FALSE, held |-> 0, cost |-> 0]]

Larger(a, b) == IF a > b THEN a ELSE b
Weighed(s) == s.row.fee + s.fees.fix + s.fees.volume
Total(s) == Weighed(s) + s.fees.hold + s.fees.size

\* The parts of the tables that have changed since c read them.
Stale(c) ==
  LET seen == SeenBy(c) IN
  (IF <<row.status, row.alert>> # <<seen.row.status, seen.row.alert>> THEN {"status"} ELSE {})
  \cup (IF <<row.fee, fees, paid>> # <<seen.row.fee, seen.fees, seen.paid>>
        THEN {"money"} ELSE {})
  \cup (IF tracked # seen.tracked THEN {"tracking"} ELSE {})

\* History: c writes these parts.
Wrote(c, parts) == harm' = harm \cup (parts \cap Stale(c))

\* UpdatePackage: every column that is set in the row given is written; the alert and
\* the mark of the limit are not among them.
UpdatePackage(r) ==
  row' = [r EXCEPT !.alert = row.alert, !.exceed = row.exceed,
                   !.actual = IF r.actual > 0 THEN r.actual ELSE row.actual]

\* A fault, as far as the bound allows.
Faulty == faults < MaxFaults /\ faults' = faults + 1

-----------------------------------------------------------------------------
\* A package that its service has a price for is created, and its message is published,
\* or not.
Init ==
  /\ world \in Worlds
  /\ \E w \in world.weights :
       /\ w <= world.limit
       /\ row = [status |-> "Created", alert |-> FALSE, recipient |-> "given",
                 label |-> IF Tiktok THEN "url" ELSE "none",
                 weight |-> w, actual |-> 0, fee |-> w, exceed |-> FALSE]
       /\ heaviest = w
  /\ fees = [fix |-> 0, volume |-> 0, hold |-> 0, size |-> 1]
  /\ tracked = 0 /\ paid = 0
  /\ queued \in (IF Tiktok THEN {{}, {"upload"}} ELSE {{}})
  /\ marks = {} /\ faults = 0 /\ harm = {}
  /\ calls = [c \in world.actors |-> Idle]

\* Process and Delivery read the package and its price ...
Process(c) ==
  /\ Begins(c) /\ row.status = "Created"
  /\ "package_call_label" \notin marks
  /\ Read(c, "bill", 0)
  /\ UNCHANGED <<world, table, queued, marks, faults, heaviest, harm>>

\* ... and bill it: only the status is written, the price is the one that was read.
\* A package without a TikTok label has been labelled before; for one with a TikTok
\* label a message is published after the commit.
CreateBill(c) ==
  /\ At(c, "bill")
  /\ paid + Total(SeenBy(c)) <= MaxPaid
  /\ row' = [row EXCEPT !.status = "PendingPickup"]
  /\ paid' = paid + Total(SeenBy(c))
  /\ IF Tiktok
     THEN /\ UNCHANGED tracked
          /\ \/ queued' = queued \cup {"ocr"} /\ UNCHANGED faults
             \/ Faulty /\ UNCHANGED queued
          /\ Wrote(c, {"status", "money"})
     ELSE /\ tracked' = tracked + 1 /\ UNCHANGED <<queued, faults>>
          /\ Wrote(c, {"status", "money", "tracking"})
  /\ End(c)
  /\ UNCHANGED <<world, fees, marks, heaviest>>

\* Cancel, of the customer, the partner API and staff: the packages are read ...
Cancel(c) ==
  /\ Begins(c) /\ row.status \in {"Created", "PendingPickup"}
  /\ Read(c, "cancel", 0)
  /\ UNCHANGED <<world, table, queued, marks, faults, heaviest, harm>>

\* ... and saved as they were read, with the new status.  Their trackings are
\* cancelled.  One of the handlers takes the alert off.
CancelPackages(c) ==
  /\ At(c, "cancel")
  /\ \E alert \in {FALSE, SeenBy(c).row.alert} :
       row' = [SeenBy(c).row EXCEPT
                 !.status = IF @ = "Created" THEN "Archived" ELSE "Cancelled",
                 !.alert = alert]
  /\ tracked' = 0
  /\ Wrote(c, {"status", "money"})
  /\ End(c)
  /\ UNCHANGED <<world, fees, paid, queued, marks, faults, heaviest>>
=============================================================================
