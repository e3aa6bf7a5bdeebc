------------------------------- MODULE Stock -------------------------------
(***************************************************************************)
(* The goods of a customer: products with a stock and a log of its         *)
(* changes, packages that take goods when they are created and give them   *)
(* back when the customer cancels, and the amount a customer may cancel in *)
(* a day, a counter in Redis.  Stock and counter are changed by the        *)
(* handlers, statement by statement, outside the transactions that create  *)
(* and cancel packages.                                                    *)
(*                                                                         *)
(* All products here have one SKU.  Of the log, only what it adds up to is *)
(* kept.  A package takes one product; what a package costs is 1.          *)
(***************************************************************************)
EXTENDS Integers, FiniteSets

CONSTANTS Products, Packages, Calls,
          Deliveries,     \* quantities products are created or filled up with
          Counts,         \* quantities an owner sets a stock to
          Quantities,     \* quantities packages take
          Limit,          \* user_infos.cancel_max_amount
          MaxStock,       \* bound on what is delivered
          MaxFaults,      \* bound on errors and crashes
          MaxHarm,        \* bound on the harm done (the last three histories) when
                          \*   something begins
          Barcodes,       \* packages with a TikTok label of the customer
          NoRow, Idle

ASSUME StockConstants ==
  /\ Deliveries \subseteq Int /\ Counts \subseteq Nat /\ Quantities \subseteq Nat
  /\ Limit \in Nat /\ MaxStock \in Nat /\ MaxFaults \in Nat /\ MaxHarm \in Nat
  /\ Barcodes \subseteq Packages
  /\ Products \subseteq Nat

VARIABLES
  product,    \* products
  logged,     \* product_stock_logs: what the rows of a product add up to
  pkg,        \* packages, with their line of package_products
  quota,      \* the Redis key cancel_amount of the customer
  calls,      \* what the running handlers hold
  faults,
  out,        \* history: goods taken for a package and not given back
  cancelled,  \* history: the amount cancelled today
  mixed,      \* history: products a call set or saved while another was at it, or
              \*   whose change was not logged
  spoilt,     \* history: packages whose goods were moved without them, or not at all
  miscounted  \* history: something cancelled was not counted on its day

goods == <<product, logged, out, mixed>>
vars == <<goods, pkg, quota, calls, faults, cancelled, spoilt, miscounted>>

-----------------------------------------------------------------------------
Status == {"Created", "CNPurchased", "PendingPickup", "Left", "Cancelled", "Archived"}
Product == [stock : Int, active : BOOLEAN]
Package == [status : Status, product : Products, quantity : Quantities]

AddCall == [pc : {"logAdd", "save"}, product : Products, row : Product, quantity : Deliveries]
InsertCall == [pc : {"insert"}, quantity : Deliveries]
NewCall == [pc : {"logNew"}, product : Products, quantity : Deliveries]
SetCall == [pc : {"logSet"}, product : Products, quantity : Counts]
OrderCall == [pc : {"create", "take", "logTake"}, package : Packages,
              product : Products, quantity : Quantities]
CancelCall ==
  [pc : {"check", "logBack", "cancel", "count"},
   seen : UNION {[S -> Package] : S \in SUBSET Packages},
   todo : SUBSET Packages,       \* packages of the list still to be looked at
   given : SUBSET Packages,      \* packages whose goods were given back
   at : Packages,                \* the package looked at last
   amount : Nat,                 \* what is cancelled with the list
   quota : Nat]                  \* what was cancelled before, as read

Call == AddCall \cup InsertCall \cup NewCall \cup SetCall \cup OrderCall \cup CancelCall

TypeOK ==
  /\ product \in [Products -> Product \cup {NoRow}]
  /\ logged \in [Products -> Int]
  /\ pkg \in [Packages -> Package \cup {NoRow}]
  /\ quota \in [amount : Nat, expires : BOOLEAN]
  /\ quota.expires => quota.amount > 0      \* the key is there only with an amount
  /\ calls \in [Calls -> Call \cup {Idle}]
  /\ faults \in 0..MaxFaults
  /\ out \in [Packages -> Int]
  /\ cancelled \in Nat
  /\ mixed \subseteq Products /\ spoilt \subseteq Packages /\ miscounted \in BOOLEAN

ASSUME NoneIsNoRow == NoRow \notin Product \cup Package /\ Idle \notin Call

-----------------------------------------------------------------------------
At(c, pc) == calls[c] # Idle /\ calls[c].pc = pc
Goto(c, pc) == calls' = [calls EXCEPT ![c].pc = pc]
End(c) == calls' = [calls EXCEPT ![c] = Idle]

Bounded == Cardinality(mixed) + Cardinality(spoilt) + (IF miscounted THEN 1 ELSE 0) <= MaxHarm
Begins(c) == calls[c] = Idle /\ Bounded

Active == {i \in Products : product[i] # NoRow /\ product[i].active}
Free == {i \in Products : product[i] = NoRow}

\* The product whose stock and log a call is between changing, if there is one.
Between(c) ==
  IF At(c, "save") \/ At(c, "logNew") \/ At(c, "logSet") \/ At(c, "logTake")
    THEN {calls[c].product}
  ELSE IF At(c, "logBack") THEN {calls[c].seen[calls[c].at].product} ELSE {}

\* A call that writes a value, not a difference.
Absolute(c) == At(c, "save") \/ At(c, "logNew") \/ At(c, "logSet")

Others(c) == {d \in Calls \ {c} : calls[d] # Idle}

\* History: i is set or saved while another call is between its two statements,
\* or an adjustment meets a call that sets or saves i.
Wrote(c, i, absolute) ==
  mixed' = IF \E d \in Others(c) : i \in Between(d) /\ (absolute \/ Absolute(d))
           THEN mixed \cup {i} ELSE mixed

-----------------------------------------------------------------------------
Init ==
  /\ product = [i \in Products |-> NoRow]
  /\ logged = [i \in Products |-> 0]
  /\ pkg = [p \in Packages |-> NoRow]
  /\ quota = [amount |-> 0, expires |-> FALSE]
  /\ calls = [c \in Calls |-> Idle] /\ faults = 0
  /\ out = [p \in Packages |-> 0] /\ cancelled = 0
  /\ mixed = {} /\ spoilt = {} /\ miscounted = FALSE

-----------------------------------------------------------------------------
(* Products. *)

\* CreateProductOrAddStock looks for an active product of the SKU, and reads it ...
Find(c, n) ==
  /\ Begins(c)
  /\ \/ /\ Active = {}
        /\ calls' = [calls EXCEPT ![c] = [pc |-> "insert", quantity |-> n]]
     \/ \E i \in Active :
          /\ \A j \in Active : i <= j
          /\ calls' = [calls EXCEPT ![c] =
               [pc |-> "logAdd", product |-> i, row |-> product[i], quantity |-> n]]
  /\ UNCHANGED <<goods, pkg, quota, faults, cancelled, spoilt, miscounted>>

\* ... logs what is added ...
LogAdd(c) ==
  /\ At(c, "logAdd")
  /\ logged' = [logged EXCEPT ![calls[c].product] = @ + calls[c].quantity]
  /\ Wrote(c, calls[c].product, TRUE)
  /\ Goto(c, "save")
  /\ UNCHANGED <<product, out, pkg, quota, faults, cancelled, spoilt, miscounted>>

\* ... and saves the whole row it read, with the new stock.
SaveProduct(c) ==
  /\ At(c, "save")
  /\ LET i == calls[c].product IN
     /\ calls[c].row.stock + calls[c].quantity <= MaxStock
     /\ product' = [product EXCEPT ![i] =
                      [calls[c].row EXCEPT !.stock = @ + calls[c].quantity]]
     /\ mixed' = IF product[i] = calls[c].row THEN mixed ELSE mixed \cup {i}
  /\ End(c)
  /\ UNCHANGED <<logged, out, pkg, quota, faults, cancelled, spoilt, miscounted>>

\* A product of a SKU that was not found is created, and logged.
Insert(c, i) ==
  /\ At(c, "insert") /\ i \in Free
  /\ product' = [product EXCEPT ![i] = [stock |-> calls[c].quantity, active |-> TRUE]]
  /\ calls' = [calls EXCEPT ![c] =
                 [pc |-> "logNew", product |-> i, quantity |-> calls[c].quantity]]
  /\ UNCHANGED <<logged, out, mixed, pkg, quota, faults, cancelled, spoilt, miscounted>>

LogNew(c) ==
  /\ At(c, "logNew")
  /\ logged' = [logged EXCEPT ![calls[c].product] = @ + calls[c].quantity]
  /\ End(c)
  /\ UNCHANGED <<product, out, mixed, pkg, quota, faults, cancelled, spoilt, miscounted>>

\* UpdateProduct: the owner sets the stock ...
SetStock(c, i, n) ==
  /\ Begins(c)
  /\ product[i] # NoRow /\ product[i].stock # n
  /\ product' = [product EXCEPT ![i].stock = n]
  /\ Wrote(c, i, TRUE)
  /\ calls' = [calls EXCEPT ![c] = [pc |-> "logSet", product |-> i, quantity |-> n]]
  /\ UNCHANGED <<logged, out, pkg, quota, faults, cancelled, spoilt, miscounted>>

\* Mutant: the new value is logged as if it had been added.
LogSetAsAdded(c) ==
  /\ At(c, "logSet")
  /\ logged' = [logged EXCEPT ![calls[c].product] = @ + calls[c].quantity]
  /\ Wrote(c, calls[c].product, TRUE)
  /\ End(c)
  /\ UNCHANGED <<product, out, pkg, quota, faults, cancelled, spoilt, miscounted>>

\* ... which is logged as a new value.
LogSet(c) ==
  /\ At(c, "logSet")
  /\ logged' = [logged EXCEPT ![calls[c].product] = calls[c].quantity]
  /\ Wrote(c, calls[c].product, TRUE)
  /\ End(c)
  /\ UNCHANGED <<product, out, pkg, quota, faults, cancelled, spoilt, miscounted>>

\* Delete: only the status is written.
Delete(i) ==
  /\ i \in Active /\ Bounded
  /\ product' = [product EXCEPT ![i].active = FALSE]
  /\ UNCHANGED <<logged, out, mixed, pkg, quota, calls, faults, cancelled, spoilt, miscounted>>

-----------------------------------------------------------------------------
(* Packages take goods. *)

\* Create: the product is read, and there must be enough of it ...
Order(c, p, i, n) ==
  /\ Begins(c)
  /\ pkg[p] = NoRow /\ \A d \in Calls : calls[d] \in OrderCall => calls[d].package # p
  /\ product[i] # NoRow /\ n <= product[i].stock
  /\ calls' = [calls EXCEPT ![c] =
                 [pc |-> "create", package |-> p, product |-> i, quantity |-> n]]
  /\ UNCHANGED <<goods, pkg, quota, faults, cancelled, spoilt, miscounted>>

\* ... then the package is created, in a transaction of its own ...
CreatePackages(c) ==
  /\ At(c, "create")
  /\ pkg' = [pkg EXCEPT ![calls[c].package] =
       [status |-> "Created", product |-> calls[c].product, quantity |-> calls[c].quantity]]
  /\ Goto(c, "take")
  /\ UNCHANGED <<goods, quota, faults, cancelled, spoilt, miscounted>>

\* Mutant: the condition on the stock is dropped.
TakeAnyway(c) ==
  /\ At(c, "take")
  /\ LET i == calls[c].product IN
     /\ product' = [product EXCEPT ![i].stock = @ - calls[c].quantity]
     /\ out' = [out EXCEPT ![calls[c].package] = @ + calls[c].quantity]
     /\ Wrote(c, i, FALSE)
  /\ Goto(c, "logTake")
  /\ UNCHANGED <<logged, pkg, quota, faults, cancelled, spoilt, miscounted>>

\* ... and AdjustStock takes the goods, if there still are enough.  If not, the
\* package stands without them.
Take(c) ==
  /\ At(c, "take")
  /\ LET i == calls[c].product
         n == calls[c].quantity
         p == calls[c].package
     IN IF product[i].stock - n >= 0
        THEN /\ product' = [product EXCEPT ![i].stock = @ - n]
             /\ out' = [out EXCEPT ![p] = @ + n]
             /\ Wrote(c, i, FALSE)
             /\ Goto(c, "logTake") /\ UNCHANGED spoilt
        ELSE /\ End(c) /\ spoilt' = spoilt \cup {p}
             /\ UNCHANGED <<product, out, mixed>>
  /\ UNCHANGED <<logged, pkg, quota, faults, cancelled, miscounted>>

LogTake(c) ==
  /\ At(c, "logTake")
  /\ logged' = [logged EXCEPT ![calls[c].product] = @ - calls[c].quantity]
  /\ Wrote(c, calls[c].product, FALSE)
  /\ End(c)
  /\ UNCHANGED <<product, out, pkg, quota, faults, cancelled, spoilt, miscounted>>

\* Packages are purchased, billed and brought away, and cancelled by staff.  The
\* handlers that bill ask for the limit; staff's handler gives no goods back.
Move(p, status) ==
  /\ pkg[p] # NoRow /\ Bounded
  /\ <<pkg[p].status, status>> \in
       {<<"Created", "CNPurchased">>, <<"Created", "PendingPickup">>, <<"PendingPickup", "Left">>,
        <<"Created", "Archived">>, <<"PendingPickup", "Cancelled">>, <<"Left", "Cancelled">>}
  /\ status = "PendingPickup" => quota.amount <= Limit
  /\ pkg' = [pkg EXCEPT ![p].status = status]
  /\ spoilt' = IF status \in {"Archived", "Cancelled"} THEN spoilt \cup {p} ELSE spoilt
  /\ UNCHANGED <<goods, quota, calls, faults, cancelled, miscounted>>

-----------------------------------------------------------------------------
(* Cancel, of the customer and of the partner API. *)

\* What was cancelled today and the packages are read.
Begin(c, S) ==
  /\ Begins(c) /\ S # {} /\ \A p \in S : pkg[p] # NoRow
  /\ calls' = [calls EXCEPT ![c] =
       [pc |-> "check", seen |-> [p \in S |-> pkg[p]], todo |-> S, given |-> {},
        at |-> CHOOSE p \in S : TRUE, amount |-> 0, quota |-> quota.amount]]
  /\ UNCHANGED <<goods, pkg, quota, faults, cancelled, spoilt, miscounted>>

Cancellable == {"Created", "CNPurchased", "PendingPickup"}

\* A TikTok package that was billed is passed over before its goods are looked at.
PassedOver(c, p) == p \in Barcodes /\ calls[c].seen[p].status = "PendingPickup"

\* Of the others, the amount is added up, unless the limit is passed already.
Counted(c, p) == p \notin Barcodes /\ calls[c].seen[p].status = "PendingPickup"
Refused(c, p) ==
  \/ calls[c].seen[p].status \notin Cancellable
  \/ Counted(c, p) /\ calls[c].quota > Limit

\* The call ends without cancelling: what it gave back stays given back.
Abandon(c) == End(c) /\ spoilt' = spoilt \cup calls[c].given

Refuse(c, p) ==
  /\ At(c, "check") /\ p \in calls[c].todo /\ Refused(c, p)
  /\ Abandon(c)
  /\ UNCHANGED <<goods, pkg, quota, faults, cancelled, miscounted>>

PassOver(c, p) ==
  /\ At(c, "check") /\ p \in calls[c].todo /\ PassedOver(c, p)
  /\ calls' = [calls EXCEPT ![c].todo = @ \ {p}]
  /\ UNCHANGED <<goods, pkg, quota, faults, cancelled, spoilt, miscounted>>

\* Mutant: only packages that were paid give their goods back.
GiveBackPaid(c, p) ==
  /\ At(c, "check") /\ p \in calls[c].todo /\ ~Refused(c, p) /\ ~PassedOver(c, p)
  /\ LET line == calls[c].seen[p]
         n == IF Counted(c, p) THEN line.quantity ELSE 0
     IN /\ product' = [product EXCEPT ![line.product].stock = @ + n]
        /\ out' = [out EXCEPT ![p] = @ - n]
        /\ Wrote(c, line.product, FALSE)
  /\ calls' = [calls EXCEPT ![c].pc = "logBack", ![c].at = p, ![c].todo = @ \ {p},
                            ![c].given = @ \cup {p},
                            ![c].amount = IF Counted(c, p) THEN @ + 1 ELSE @]
  /\ UNCHANGED <<logged, pkg, quota, faults, cancelled, spoilt, miscounted>>

\* AdjustStock gives the goods back, while the rest of the list is unchecked.
GiveBack(c, p) ==
  /\ At(c, "check") /\ p \in calls[c].todo /\ ~Refused(c, p) /\ ~PassedOver(c, p)
  /\ LET line == calls[c].seen[p] IN
     /\ product[line.product].stock + line.quantity >= 0
     /\ product' = [product EXCEPT ![line.product].stock = @ + line.quantity]
     /\ out' = [out EXCEPT ![p] = @ - line.quantity]
     /\ Wrote(c, line.product, FALSE)
  /\ calls' = [calls EXCEPT ![c].pc = "logBack", ![c].at = p, ![c].todo = @ \ {p},
                            ![c].given = @ \cup {p},
                            ![c].amount = IF Counted(c, p) THEN @ + 1 ELSE @]
  /\ UNCHANGED <<logged, pkg, quota, faults, cancelled, spoilt, miscounted>>

LogBack(c) ==
  /\ At(c, "logBack")
  /\ LET line == calls[c].seen[calls[c].at] IN
     /\ logged' = [logged EXCEPT ![line.product] = @ + line.quantity]
     /\ Wrote(c, line.product, FALSE)
  /\ Goto(c, "check")
  /\ UNCHANGED <<product, out, pkg, quota, faults, cancelled, spoilt, miscounted>>

\* CancelPackages saves the whole list.
Cancelled(status) == IF status = "Created" THEN "Archived" ELSE "Cancelled"
CancelPackages(c) ==
  /\ At(c, "check") /\ calls[c].todo = {}
  /\ LET seen == calls[c].seen IN
     /\ pkg' = [p \in Packages |-> IF p \in DOMAIN seen
                                   THEN [seen[p] EXCEPT !.status = Cancelled(@)] ELSE pkg[p]]
     /\ spoilt' = spoilt \cup {p \in DOMAIN seen : pkg[p] # seen[p]}
  /\ cancelled' = cancelled + calls[c].amount
  /\ Goto(c, "count")
  /\ UNCHANGED <<goods, quota, faults, miscounted>>

\* Mutants: the counter is set although nothing was cancelled; what was cancelled
\* before is forgotten.
CountNothing(c, late) ==
  /\ At(c, "count")
  /\ quota' = [amount |-> calls[c].quota + calls[c].amount, expires |-> ~late]
  /\ miscounted' = (miscounted \/ quota.amount # calls[c].quota
                      \/ (late /\ calls[c].quota + calls[c].amount > 0))
  /\ End(c)
  /\ UNCHANGED <<goods, pkg, faults, cancelled, spoilt>>

CountAlone(c, late) ==
  /\ At(c, "count")
  /\ IF calls[c].quota + calls[c].amount > 0
     THEN quota' = [amount |-> calls[c].amount, expires |-> ~late]
     ELSE UNCHANGED quota
  /\ miscounted' = (miscounted \/ quota.amount # calls[c].quota
                      \/ (late /\ calls[c].quota + calls[c].amount > 0))
  /\ End(c)
  /\ UNCHANGED <<goods, pkg, faults, cancelled, spoilt>>

\* The counter is set from what was read at the beginning, to expire at the last
\* second of the day.  Within that second the time left is not positive, and
\* Redis is told to keep the key.
Count(c, late) ==
  /\ At(c, "count")
  /\ IF calls[c].quota + calls[c].amount > 0
     THEN quota' = [amount |-> calls[c].quota + calls[c].amount, expires |-> ~late]
     ELSE UNCHANGED quota
  /\ miscounted' = (miscounted \/ quota.amount # calls[c].quota
                      \/ (late /\ calls[c].quota + calls[c].amount > 0))
  /\ End(c)
  /\ UNCHANGED <<goods, pkg, faults, cancelled, spoilt>>

\* A day ends.
Midnight ==
  /\ (cancelled > 0 \/ quota.amount > 0) /\ Bounded
  /\ quota' = IF quota.expires THEN [amount |-> 0, expires |-> FALSE] ELSE quota
  /\ cancelled' = 0
  /\ miscounted' = (miscounted \/ \E c \in Calls : At(c, "count") /\ calls[c].amount > 0)
  /\ UNCHANGED <<goods, pkg, calls, faults, spoilt>>

-----------------------------------------------------------------------------
(* Faults. *)

\* An error.  The handlers that create, and the loop that gives back, answer with
\* it and go on.
Fail(c) ==
  /\ calls[c] # Idle /\ faults < MaxFaults /\ faults' = faults + 1
  /\ mixed' = mixed \cup Between(c)
  /\ IF At(c, "logBack") THEN Goto(c, "check") /\ UNCHANGED <<spoilt, miscounted>>
     ELSE /\ End(c)
          /\ spoilt' = spoilt \cup (IF At(c, "take") THEN {calls[c].package}
                                    ELSE IF At(c, "check") THEN calls[c].given ELSE {})
          /\ miscounted' = (miscounted \/ At(c, "count"))
  /\ UNCHANGED <<product, logged, out, pkg, quota, cancelled>>

\* The goods of a package cannot be given back, for an error or for a stock that
\* was created too far below zero, and it is cancelled without.
FailBack(c, p) ==
  /\ At(c, "check") /\ p \in calls[c].todo /\ ~Refused(c, p) /\ ~PassedOver(c, p)
  /\ LET line == calls[c].seen[p] IN
     \/ faults < MaxFaults /\ faults' = faults + 1
     \/ product[line.product].stock + line.quantity < 0 /\ UNCHANGED faults
  /\ calls' = [calls EXCEPT ![c].todo = @ \ {p},
                            ![c].amount = IF Counted(c, p) THEN @ + 1 ELSE @]
  /\ spoilt' = spoilt \cup {p}
  /\ UNCHANGED <<goods, pkg, quota, cancelled, miscounted>>

\* The server restarts.
Crash ==
  /\ faults < MaxFaults /\ faults' = faults + 1
  /\ \E c \in Calls : calls[c] # Idle
  /\ mixed' = mixed \cup UNION {Between(c) : c \in Calls}
  /\ spoilt' = spoilt \cup UNION {IF At(c, "take") THEN {calls[c].package}
                                  ELSE IF At(c, "check") \/ At(c, "logBack")
                                  THEN calls[c].given ELSE {} : c \in Calls}
  /\ miscounted' = (miscounted \/ \E c \in Calls : At(c, "count"))
  /\ calls' = [c \in Calls |-> Idle]
  /\ UNCHANGED <<product, logged, out, pkg, quota, cancelled>>

Next ==
  \/ \E c \in Calls, n \in Deliveries : Find(c, n)
  \/ \E c \in Calls : LogAdd(c) \/ SaveProduct(c) \/ LogNew(c) \/ LogSet(c)
  \/ \E c \in Calls, i \in Products :
       Insert(c, i) \/ \E n \in Counts : SetStock(c, i, n)
  \/ \E i \in Products : Delete(i)
  \/ \E c \in Calls, p \in Packages, i \in Products, n \in Quantities : Order(c, p, i, n)
  \/ \E c \in Calls : CreatePackages(c) \/ Take(c) \/ LogTake(c)
  \/ \E p \in Packages, status \in Status : Move(p, status)
  \/ \E c \in Calls, S \in SUBSET Packages : Begin(c, S)
  \/ \E c \in Calls, p \in Packages :
       Refuse(c, p) \/ PassOver(c, p) \/ GiveBack(c, p) \/ FailBack(c, p)
  \/ \E c \in Calls : LogBack(c) \/ CancelPackages(c) \/ \E late \in BOOLEAN : Count(c, late)
  \/ \E c \in Calls : Fail(c)
  \/ Midnight \/ Crash

Spec == Init /\ [][Next]_vars

-----------------------------------------------------------------------------
(* Properties. *)

\* Orders that overlap never take more than a stock holds, although each looks at it
\* first and takes later: with deliveries, corrections and cancellations in between, no
\* stock falls below zero as long as nobody delivers a negative quantity, which no
\* handler refuses.
NeverOversold ==
  (\A n \in Deliveries : n >= 0) =>
    \A i \in Products : product[i] # NoRow => product[i].stock >= 0

\* The log of a product accounts for its stock whenever no call is between the
\* two, however orders and cancellations overlap: only a stock that is set or
\* saved while another change is under way, and a change that fails half-way,
\* part them.
LogAccounts ==
  \A i \in Products \ mixed :
    (product[i] # NoRow /\ \A c \in Calls : i \notin Between(c))
       => logged[i] = product[i].stock

\* The goods of a package are out of the stock exactly once as long as it lives,
\* and back once when its customer has cancelled it, except that a billed TikTok
\* package keeps them, and unless the stock ran out between check and order, a
\* list was refused half-way, staff cancelled, or the package changed meanwhile.
GoodsFollowPackages ==
  \A p \in Packages \ spoilt :
    (/\ pkg[p] # NoRow
     /\ \A c \in Calls : /\ calls[c] \in CancelCall => p \notin DOMAIN calls[c].seen
                         /\ calls[c] \in OrderCall => p # calls[c].package)
       => out[p] \in CASE pkg[p].status = "Archived" -> {0}
                       [] pkg[p].status = "Cancelled" ->
                            {0} \cup (IF p \in Barcodes THEN {pkg[p].quantity} ELSE {})
                       [] OTHER -> {pkg[p].quantity}

\* The counter says what the customer cancelled today, unless two cancellations
\* overlapped, one ran over midnight or in the last second of the day, or failed
\* before it counted.
QuotaCounts ==
  (~miscounted /\ \A c \in Calls : ~At(c, "count")) => quota.amount = cancelled
=============================================================================
