------------------------------- MODULE Freight -------------------------------
(***************************************************************************)
(* The way of packages through containers and shipments.  Packages are     *)
(* scanned into containers, a closed container is loaded into a shipment,  *)
(* a shipment is closed (labels of its containers are bought) and sent.    *)
(* Where a package is is written in four tables: its status, the items of  *)
(* the containers, the shipment_id of a container and the quantity of a    *)
(* shipment.  Each handler reads rows, decides, and writes later in one    *)
(* transaction, often the whole row that it read.                          *)
(***************************************************************************)
EXTENDS Integers, FiniteSets, Functions

CONSTANTS Packages, Containers, Shipments, Calls,
          Carried,       \* containers of type UPS or FedEx: their labels are bought
                         \* (not for UPS to Australia, which is left out)
          NoShipment,    \* shipment_id is null
          MaxQuantity,   \* bound on what lost updates can make of a quantity
          MaxLabels,     \* bound on the purchases for one shipment
          MaxFaults,     \* bound on crashes
          MaxAdrift      \* bound on rows adrift when another call begins

VARIABLES
  pkg,      \* packages.status
  item,     \* container_items: active, failed and inactive rows of a container and a package
  con,      \* containers: status, shipment_id
  shp,      \* shipments: status, quantity
  told,     \* packages whose tracking_time is that of the delivery
  closing,  \* Redis set list_closing_shipment
  bought,   \* purchases of labels at the carrier, by shipment, without those of
            \* closings that failed afterwards
  call,     \* what each running handler is about to do and the rows it has read
  faults,   \* history: number of crashes
  adrift    \* history: rows whose change rests on reads that were out of date

db == <<pkg, item, con, shp, told>>
vars == <<db, closing, bought, call, faults, adrift>>

\* What Append takes; packages of users on the white list, taken in one status
\* earlier, are Picked here.
Scanned == {"Picked", "Labeled"}
\* What the scheduler asks carriers about.
Tracked == {"Labeled", "InContainer", "InShipment", "Export", "InTransit"}
PackageStatus == Scanned \cup Tracked \cup {"Delivered"}
ItemRows == [active : 0..Cardinality(Calls), failed : BOOLEAN, past : BOOLEAN]
ContainerRow == [status : {"WaitingClose", "Closed", "Cancelled", "Intransit"},
                 ship : Shipments \cup {NoShipment}]
ShipmentRow == [status : {"WaitingClose", "Closed", "Canceled", "Intransit"},
                quantity : -MaxQuantity..MaxQuantity]
Sent == {"Closed", "Intransit"}

ASSUME FreightConstants ==
  /\ IsFiniteSet(Calls) /\ IsFiniteSet(Containers)
  /\ Carried \subseteq Containers
  /\ NoShipment \notin Shipments
  /\ MaxQuantity \in Nat /\ MaxLabels \in Nat /\ MaxFaults \in Nat
  /\ MaxAdrift \in Nat

-----------------------------------------------------------------------------
\* What a handler reads before its transaction begins.
View(ps, ks, is, ss) ==
  [pkg |-> Restrict(pkg, ps), con |-> Restrict(con, ks),
   item |-> Restrict(item, is), shp |-> Restrict(shp, ss)]

IsView(v) ==
  /\ DOMAIN v = {"pkg", "con", "item", "shp"}
  /\ DOMAIN v.pkg \subseteq Packages /\ v.pkg \in [DOMAIN v.pkg -> PackageStatus]
  /\ DOMAIN v.con \subseteq Containers /\ v.con \in [DOMAIN v.con -> ContainerRow]
  /\ DOMAIN v.item \subseteq Containers \X Packages /\ v.item \in [DOMAIN v.item -> ItemRows]
  /\ DOMAIN v.shp \subseteq Shipments /\ v.shp \in [DOMAIN v.shp -> ShipmentRow]

Ops == {"none", "append", "misfit", "remove", "close", "cancel", "open", "update",
        "load", "unload", "cancelShipment", "intransit", "track",
        "test", "add", "buy", "save", "unmark"}

Idle == [op |-> "none", seen |-> View({}, {}, {}, {})]

Read(c, op, ps, ks, is, ss) ==
  /\ call[c] = Idle
  /\ Cardinality(adrift) <= MaxAdrift
  /\ call' = [call EXCEPT ![c] = [op |-> op, seen |-> View(ps, ks, is, ss)]]
  /\ UNCHANGED <<db, closing, bought, faults>>

Return(c) == call' = [call EXCEPT ![c] = Idle]
Goto(c, op) == call' = [call EXCEPT ![c].op = op]

Stale(c) ==
  LET v == call[c].seen
  IN v # View(DOMAIN v.pkg, DOMAIN v.con, DOMAIN v.item, DOMAIN v.shp)

\* The rows xs are written from what was read.
Wrote(c, xs) == adrift' = IF Stale(c) THEN adrift \cup xs ELSE adrift

Homes(p) == {k \in Containers : item[<<k, p>>].active > 0}
Loaded(s) == {k \in Containers : con[k].ship = s}
Active(is) == {kp[2] : kp \in {x \in DOMAIN is : is[x].active > 0}}
Ships(rows) == {rows[k].ship : k \in DOMAIN rows} \cap Shipments

Inactive(r) == [active |-> 0, failed |-> FALSE,
                past |-> r.past \/ r.failed \/ r.active > 0]
FailInactive(r) == [r EXCEPT !.failed = FALSE, !.past = @ \/ r.failed]

\* The status of the packages ps is set among the rows xs; one that was delivered is
\* not any more.
Moved(c, ps, xs) ==
  adrift' = adrift \cup (ps \cap told) \cup IF Stale(c) THEN xs \cup ps ELSE {}

SetStatus(ps, status) == pkg' = [p \in Packages |-> IF p \in ps THEN status ELSE pkg[p]]

-----------------------------------------------------------------------------
\* New containers and shipments wait to be closed; the packages are picked up.
Init ==
  /\ pkg = [p \in Packages |-> "Picked"]
  /\ item = [kp \in Containers \X Packages |-> [active |-> 0, failed |-> FALSE, past |-> FALSE]]
  /\ con = [k \in Containers |-> [status |-> "WaitingClose", ship |-> NoShipment]]
  /\ shp = [s \in Shipments |-> [status |-> "WaitingClose", quantity |-> 0]]
  /\ closing = {}
  /\ bought = [s \in Shipments |-> 0]
  /\ told = {}
  /\ call = [c \in Calls |-> Idle]
  /\ faults = 0
  /\ adrift = {}

-----------------------------------------------------------------------------
(* Containers *)

\* Mutant: neither the status of the package nor its items are looked at.
AppendUnchecked(c, p, k, fits) ==
  /\ Homes(p) # {k}
  /\ LET good == fits /\ con[k].status = "WaitingClose"
     IN Read(c, IF good THEN "append" ELSE "misfit", {p}, {k}, Containers \X {p}, {})
  /\ UNCHANGED adrift

\* fits stands for the checks of warehouse, service, type and tracking.  A
\* package that is already in this container is answered at once.
Append(c, p, k, fits) ==
  /\ Homes(p) # {k}
  /\ LET good == fits /\ con[k].status = "WaitingClose" /\ pkg[p] \in Scanned /\ Homes(p) = {}
     IN Read(c, IF good THEN "append" ELSE "misfit", {p}, {k}, Containers \X {p}, {})
  /\ UNCHANGED adrift

SaveContainerAndPackage(c) ==
  /\ call[c].op = "append"
  /\ \E k \in DOMAIN call[c].seen.con, p \in DOMAIN call[c].seen.pkg :
       /\ SetStatus({p}, "InContainer")
       /\ item' = [kp \in Containers \X Packages |->
                     IF kp[2] # p THEN item[kp]
                     ELSE IF kp[1] # k THEN FailInactive(item[kp])
                     ELSE [FailInactive(item[kp]) EXCEPT !.active = @ + 1]]
       /\ Wrote(c, {p})
  /\ Return(c)
  /\ UNCHANGED <<told, con, shp, closing, bought, faults>>

\* The row of a failed scan replaces the one before it.
SaveFailPackageContainer(c) ==
  /\ call[c].op = "misfit"
  /\ \E kp \in (DOMAIN call[c].seen.con) \X (DOMAIN call[c].seen.pkg) :
       item' = [item EXCEPT ![kp].failed = TRUE, ![kp].past = @ \/ item[kp].failed]
  /\ Return(c)
  /\ UNCHANGED <<told, pkg, con, shp, closing, bought, faults, adrift>>

Remove(c, ps, k) ==
  /\ ps # {}
  /\ con[k].status # "Closed"
  /\ \A p \in ps : item[<<k, p>>].active > 0 \/ item[<<k, p>>].failed
  /\ Read(c, "remove", {}, {k}, {k} \X ps, {})
  /\ UNCHANGED adrift

CancelPackagesInContainer(c) ==
  /\ call[c].op = "remove"
  /\ LET rows == call[c].seen.item IN
     /\ SetStatus(Active(rows), "Labeled")
     /\ item' = [kp \in Containers \X Packages |->
                   IF kp \in DOMAIN rows THEN Inactive(item[kp]) ELSE item[kp]]
     /\ Moved(c, Active(rows), {kp[2] : kp \in DOMAIN rows})
  /\ Return(c)
  /\ UNCHANGED <<told, con, shp, closing, bought, faults>>

\* Only cancelled and closed containers are refused.
Close(c, k) ==
  /\ con[k].status \notin {"Cancelled", "Closed"}
  /\ \A p \in Packages : ~item[<<k, p>>].failed
  /\ \E p \in Packages : item[<<k, p>>].active > 0
  /\ Read(c, "close", {}, {k}, {k} \X Packages, {})
  /\ UNCHANGED adrift

\* Columns are updated, not the row that was read; no package has the
\* container_id by which the transaction looks for packages.
CloseContainer(c) ==
  /\ call[c].op = "close"
  /\ \E k \in DOMAIN call[c].seen.con :
       /\ con' = [con EXCEPT ![k].status = "Closed"]
       /\ Wrote(c, {k})
  /\ Return(c)
  /\ UNCHANGED <<told, pkg, item, shp, closing, bought, faults>>

Cancel(c, k) ==
  /\ con[k].status # "Cancelled"
  /\ \A p \in Packages : item[<<k, p>>].active = 0
  /\ Read(c, "cancel", {}, {k}, {k} \X Packages, {})
  /\ UNCHANGED adrift

\* Mutant: a container is opened although it is in a shipment.
OpenLoaded(c, k) ==
  /\ con[k].status = "Closed"
  /\ Read(c, "open", {}, {k}, {}, {})
  /\ UNCHANGED adrift

Open(c, k) ==
  /\ con[k].status = "Closed" /\ con[k].ship = NoShipment
  /\ Read(c, "open", {}, {k}, {}, {})
  /\ UNCHANGED adrift

\* The tracking number of a manual container.
Update(c, k) ==
  /\ k \notin Carried
  /\ con[k].status = "Closed"
  /\ Read(c, "update", {}, {k}, {}, {})
  /\ UNCHANGED adrift

\* Mutant: the status of a cancelled shipment.
ShipmentsStatus(op, row) ==
  CASE op = "cancel" -> [row EXCEPT !.status = "Canceled"]
    [] op = "open" -> [row EXCEPT !.status = "WaitingClose"]
    [] op = "update" -> row

NewStatus(op, row) ==
  CASE op = "cancel" -> [row EXCEPT !.status = "Cancelled"]
    [] op = "open" -> [row EXCEPT !.status = "WaitingClose"]
    [] op = "update" -> row

\* The whole row is written as it was read, shipment_id included.
SaveContainer(c) ==
  /\ call[c].op \in {"cancel", "open", "update"}
  /\ LET rows == call[c].seen.con IN \E k \in DOMAIN rows :
       /\ con' = [con EXCEPT ![k] = NewStatus(call[c].op, rows[k])]
       /\ Wrote(c, {k} \cup Ships(rows) \cup ({con[k].ship} \cap Shipments))
  /\ Return(c)
  /\ UNCHANGED <<told, pkg, item, shp, closing, bought, faults>>

-----------------------------------------------------------------------------
(* Shipments *)

CancelShipment(c, s) ==
  /\ shp[s].status # "Canceled"
  /\ Loaded(s) = {}
  /\ Read(c, "cancelShipment", {}, {}, {}, {s})
  /\ UNCHANGED adrift

SaveShipment(c) ==
  /\ call[c].op = "cancelShipment"
  /\ LET rows == call[c].seen.shp IN \E s \in DOMAIN rows :
       /\ shp' = [shp EXCEPT ![s] = [rows[s] EXCEPT !.status = "Canceled"]]
       /\ Wrote(c, {s})
  /\ Return(c)
  /\ UNCHANGED <<told, pkg, item, con, closing, bought, faults>>

\* ShipmentHandler.Append
Load(c, k, s) ==
  /\ con[k].status = "Closed" /\ con[k].ship = NoShipment
  /\ shp[s].status = "WaitingClose"
  /\ Read(c, "load", {}, {k}, {}, {s})
  /\ UNCHANGED adrift

\* Both rows are written as they were read, the packages by a query of now.
AppendContainerShipment(c) ==
  /\ call[c].op = "load"
  /\ LET v == call[c].seen IN \E k \in DOMAIN v.con, s \in DOMAIN v.shp :
       LET ps == {p \in Packages : item[<<k, p>>].active > 0} IN
       /\ v.shp[s].quantity < MaxQuantity
       /\ con' = [con EXCEPT ![k] = [v.con[k] EXCEPT !.ship = s]]
       /\ shp' = [shp EXCEPT ![s] = [v.shp[s] EXCEPT !.quantity = @ + 1]]
       /\ SetStatus(ps, "InShipment")
       /\ Moved(c, ps, {k, s} \cup ({con[k].ship} \cap Shipments))
  /\ Return(c)
  /\ UNCHANGED <<told, item, closing, bought, faults>>

\* ShipmentHandler.RemoveContainerShipment
Unload(c, k, s) ==
  /\ shp[s].status = "WaitingClose"
  /\ con[k].ship = s
  /\ Read(c, "unload", {}, {k}, {}, {s})
  /\ UNCHANGED adrift

\* Mutant: the quantity is not counted down.
QuantityKept(c) ==
  /\ call[c].op = "unload"
  /\ LET v == call[c].seen IN \E k \in DOMAIN v.con, s \in DOMAIN v.shp :
       /\ con' = [con EXCEPT ![k] = [v.con[k] EXCEPT !.ship = NoShipment]]
       /\ SetStatus({p \in Packages : item[<<k, p>>].active > 0}, "InContainer")
       /\ Wrote(c, {k, s})
  /\ Return(c)
  /\ UNCHANGED <<told, item, shp, closing, bought, faults>>

\* Every package that was ever scanned into the container, inactive items too,
\* gets the status; those that are elsewhere go adrift.
RemoveContainerShipment(c) ==
  /\ call[c].op = "unload"
  /\ LET v == call[c].seen IN \E k \in DOMAIN v.con, s \in DOMAIN v.shp :
       LET ps == {p \in Packages : LET r == item[<<k, p>>] IN r.active > 0 \/ r.failed \/ r.past}
           elsewhere == {p \in ps : item[<<k, p>>].active = 0}
       IN
       /\ v.shp[s].quantity > -MaxQuantity
       /\ con' = [con EXCEPT ![k] = [v.con[k] EXCEPT !.ship = NoShipment]]
       /\ shp' = [shp EXCEPT ![s] = [v.shp[s] EXCEPT !.quantity = @ - 1]]
       /\ SetStatus(ps, "InContainer")
       /\ adrift' = adrift \cup elsewhere \cup (ps \cap told) \cup
            IF Stale(c) THEN {k, s} \cup ({con[k].ship} \cap Shipments) \cup ps ELSE {}
  /\ Return(c)
  /\ UNCHANGED <<told, item, closing, bought, faults>>

Closers(s) == {c \in Calls : call[c].op \in {"test", "add", "buy", "save", "unmark"}
                             /\ s \in DOMAIN call[c].seen.shp}

\* Mutant: a closed shipment is closed again.
CloseAgain(c, s) ==
  /\ Loaded(s) # {}
  /\ Read(c, "test", {}, Loaded(s), Loaded(s) \X Packages, {s})
  /\ adrift' = IF Closers(s) = {} THEN adrift ELSE adrift \cup {s}

\* ShipmentHandler.Close: two calls for one shipment put it adrift.
CloseRequest(c, s) ==
  /\ shp[s].status = "WaitingClose"
  /\ Loaded(s) # {}
  /\ Read(c, "test", {}, Loaded(s), Loaded(s) \X Packages, {s})
  /\ adrift' = IF Closers(s) = {} THEN adrift ELSE adrift \cup {s}

SIsMember(c) ==
  /\ call[c].op = "test"
  /\ IF \E s \in DOMAIN call[c].seen.shp : s \in closing THEN Return(c) ELSE Goto(c, "add")
  /\ UNCHANGED <<db, closing, bought, faults, adrift>>

SAdd(c) ==
  /\ call[c].op = "add"
  /\ closing' = closing \cup DOMAIN call[c].seen.shp
  /\ Goto(c, "buy")
  /\ UNCHANGED <<db, bought, faults, adrift>>

Buys(c) == DOMAIN call[c].seen.con \cap Carried # {}

\* The carrier sells the labels of all its containers, if there are any.
BuyLabels(c) ==
  /\ call[c].op = "buy"
  /\ \E s \in DOMAIN call[c].seen.shp :
       /\ Buys(c) => bought[s] < MaxLabels
       /\ bought' = IF Buys(c) THEN [bought EXCEPT ![s] = @ + 1] ELSE bought
  /\ Goto(c, "save")
  /\ UNCHANGED <<db, closing, faults, adrift>>

\* Nothing is bought: the form or the carrier refuses.
Refused(c) ==
  /\ call[c].op = "buy"
  /\ Goto(c, "unmark")
  /\ UNCHANGED <<db, closing, bought, faults, adrift>>

\* The purchases of calls that have their labels and save no log of them are lost.
Lose(cs) == bought' = [s \in Shipments |-> bought[s] -
  Cardinality({c \in cs : call[c].op = "save" /\ Buys(c) /\ s \in DOMAIN call[c].seen.shp})]

\* Mutant: the error returns without the deferred call.
FailMarked(c) ==
  /\ call[c].op = "save"
  /\ Lose({c})
  /\ Return(c)
  /\ UNCHANGED <<db, closing, faults, adrift>>

\* After the purchase an upload or the transaction fails; a transaction that
\* has no log row to save fails too.
CloseFails(c) ==
  /\ call[c].op = "save"
  /\ Lose({c})
  /\ Goto(c, "unmark")
  /\ UNCHANGED <<db, closing, faults, adrift>>

\* Rows of containers are written only if a label was bought for them.
CloseShipment(c) ==
  /\ call[c].op = "save"
  /\ LET v == call[c].seen IN \E s \in DOMAIN v.shp :
       /\ Active(v.item) # {}
       /\ shp' = [shp EXCEPT ![s] = [v.shp[s] EXCEPT !.status = "Closed"]]
       /\ con' = [k \in Containers |-> IF k \in DOMAIN v.con \cap Carried THEN v.con[k] ELSE con[k]]
       /\ SetStatus(Active(v.item), "Export")
       /\ Moved(c, Active(v.item), {s} \cup DOMAIN v.con \cup Ships(Restrict(con, DOMAIN v.con)))
  /\ Goto(c, "unmark")
  /\ UNCHANGED <<told, item, closing, bought, faults>>

SRem(c) ==
  /\ call[c].op = "unmark"
  /\ closing' = closing \ DOMAIN call[c].seen.shp
  /\ Return(c)
  /\ UNCHANGED <<db, bought, faults, adrift>>

Intransit(c, s) ==
  /\ shp[s].status = "Closed"
  /\ \A k \in Loaded(s) : con[k].status = "Closed"
  /\ Read(c, "intransit", {}, Loaded(s), Loaded(s) \X Packages, {s})
  /\ UNCHANGED adrift

\* Saving an empty list of containers is an error.
IntransitShipment(c) ==
  /\ call[c].op = "intransit"
  /\ LET v == call[c].seen IN \E s \in DOMAIN v.shp :
       /\ DOMAIN v.con # {}
       /\ shp' = [shp EXCEPT ![s] = [v.shp[s] EXCEPT !.status = "Intransit"]]
       /\ con' = [k \in Containers |-> IF k \in DOMAIN v.con
                                       THEN [v.con[k] EXCEPT !.status = "Intransit"] ELSE con[k]]
       /\ SetStatus(Active(v.item), "InTransit")
       /\ Moved(c, Active(v.item), {s} \cup DOMAIN v.con \cup Ships(Restrict(con, DOMAIN v.con)))
  /\ Return(c)
  /\ UNCHANGED <<told, item, closing, bought, faults>>

-----------------------------------------------------------------------------
(* The tracking scheduler *)

\* checkTrackingInfo reads a page of packages, their trackings with them; the pages of a
\* round are worked off one after the other.
Track(c, ps) ==
  /\ ps # {} /\ \A p \in ps : pkg[p] \in Tracked
  /\ \A d \in Calls : call[d].op # "track"
  /\ Read(c, "track", ps, {}, {}, {})
  /\ UNCHANGED adrift

\* The package is done, and the last one ends the page.
NextOnPage(c, p) ==
  LET left == DOMAIN call[c].seen.pkg \ {p} IN
  IF left = {} THEN Return(c)
  ELSE call' = [call EXCEPT ![c].seen.pkg = Restrict(@, left)]

\* The carrier knows nothing new, or does not answer.
NoNews(c) ==
  /\ call[c].op = "track"
  /\ \E p \in DOMAIN call[c].seen.pkg : NextOnPage(c, p)
  /\ UNCHANGED <<db, closing, bought, faults, adrift>>

\* Mutant: the time of the delivery is saved without the status.
TimeOnly(c, delivered) ==
  /\ call[c].op = "track"
  /\ \E p \in DOMAIN call[c].seen.pkg :
       /\ SetStatus({p}, call[c].seen.pkg[p])
       /\ told' = IF delivered THEN told \cup {p} ELSE told
       /\ adrift' = IF call[c].seen.pkg[p] # pkg[p] THEN adrift \cup {p} ELSE adrift
       /\ NextOnPage(c, p)
  /\ UNCHANGED <<item, con, shp, closing, bought, faults>>

\* Events newer than tracking_time are logged, and the whole row is saved as it was read,
\* with the time of the last event, and as delivered if one of them says so.
SaveDeliverLogPackage(c, delivered) ==
  /\ call[c].op = "track"
  /\ \E p \in DOMAIN call[c].seen.pkg :
       /\ SetStatus({p}, IF delivered THEN "Delivered" ELSE call[c].seen.pkg[p])
       /\ told' = IF delivered THEN told \cup {p} ELSE told
       /\ adrift' = IF call[c].seen.pkg[p] # pkg[p] THEN adrift \cup {p} ELSE adrift
       /\ NextOnPage(c, p)
  /\ UNCHANGED <<item, con, shp, closing, bought, faults>>

-----------------------------------------------------------------------------
\* The server restarts: every call but the scheduler's is gone, the set in Redis stays.
\* A restart while no shipment is marked only takes back what was read.
Crash ==
  /\ faults < MaxFaults
  /\ closing # {}
  /\ faults' = faults + 1
  /\ call' = [c \in Calls |-> IF call[c].op = "track" THEN call[c] ELSE Idle]
  /\ Lose(Calls)
  /\ UNCHANGED <<db, closing, adrift>>

-----------------------------------------------------------------------------
ContainerStep(c) ==
  \/ \E k \in Containers :
       \/ \E p \in Packages, fits \in BOOLEAN : Append(c, p, k, fits)
       \/ \E ps \in SUBSET Packages : Remove(c, ps, k)
       \/ Close(c, k)
       \/ Cancel(c, k)
       \/ Open(c, k)
       \/ Update(c, k)
  \/ SaveContainerAndPackage(c)
  \/ SaveFailPackageContainer(c)
  \/ CancelPackagesInContainer(c)
  \/ CloseContainer(c)
  \/ SaveContainer(c)

ShipmentStep(c) ==
  \/ \E s \in Shipments :
       \/ CancelShipment(c, s)
       \/ \E k \in Containers : Load(c, k, s) \/ Unload(c, k, s)
       \/ CloseRequest(c, s)
       \/ Intransit(c, s)
  \/ SaveShipment(c)
  \/ AppendContainerShipment(c)
  \/ RemoveContainerShipment(c)
  \/ SIsMember(c)
  \/ SAdd(c)
  \/ BuyLabels(c)
  \/ Refused(c)
  \/ CloseFails(c)
  \/ CloseShipment(c)
  \/ SRem(c)
  \/ IntransitShipment(c)

TrackingStep(c) ==
  \/ \E ps \in SUBSET Packages : Track(c, ps)
  \/ NoNews(c)
  \/ \E delivered \in BOOLEAN : SaveDeliverLogPackage(c, delivered)

Next == Crash \/ \E c \in Calls : ContainerStep(c) \/ ShipmentStep(c) \/ TrackingStep(c)

Spec == Init /\ [][Next]_vars

-----------------------------------------------------------------------------
TypeOK ==
  /\ pkg \in [Packages -> PackageStatus]
  /\ item \in [Containers \X Packages -> ItemRows]
  /\ con \in [Containers -> ContainerRow]
  /\ shp \in [Shipments -> ShipmentRow]
  /\ told \subseteq Packages
  /\ closing \subseteq Shipments
  /\ bought \in [Shipments -> 0..MaxLabels]
  /\ \A c \in Calls : call[c].op \in Ops /\ IsView(call[c].seen)
  /\ DOMAIN call = Calls
  /\ faults \in 0..MaxFaults
  /\ adrift \subseteq Packages \cup Containers \cup Shipments

Place(k) ==
  IF con[k].ship = NoShipment THEN "InContainer"
  ELSE CASE shp[con[k].ship].status = "WaitingClose" -> "InShipment"
         [] shp[con[k].ship].status = "Closed" -> "Export"
         [] shp[con[k].ship].status = "Intransit" -> "InTransit"
         [] shp[con[k].ship].status = "Canceled" -> "nowhere"

\* The status of a package says where its container and its shipment are, in
\* every interleaving in which no row was written from an outdated read and no
\* package was moved that had left its container or had been delivered, until the
\* carrier delivers it.
StatusFollowsFreight ==
  \A p \in Packages \ (adrift \cup told) :
    /\ Homes(p) = {} => pkg[p] \in Scanned
    /\ \A k \in Homes(p) \ adrift : con[k].ship \notin adrift => pkg[p] = Place(k)

\* A package lies in one container, once: only a scan whose reads were outdated
\* adds a second item.
OneContainer ==
  \A p \in Packages \ adrift :
    /\ Cardinality(Homes(p)) <= 1
    /\ \A k \in Containers : item[<<k, p>>].active <= 1

\* The quantity of a shipment is the number of its containers, although it is
\* counted up and down on a row read before.
QuantityCounts ==
  \A s \in Shipments \ adrift : shp[s].quantity = Cardinality(Loaded(s))

\* Labels of a shipment are bought for one closing: a second purchase must have followed
\* a failure that lost the first.
LabelsAccounted ==
  \A s \in Shipments \ adrift :
    LET saving == \E c \in Closers(s) : call[c].op = "save" IN
    bought[s] <= IF saving \/ shp[s].status \in Sent THEN 1 ELSE 0

\* Once the scheduler has read of a delivery it never reads of it again, so the status
\* must stay what it saved then; staff must not have moved the container on since, nor
\* the page been read before they did.
DeliveryKept ==
  \A p \in Packages \ adrift : p \in told <=> pkg[p] = "Delivered"

\* As long as the server does not stop, a shipment marked as closing has a call
\* that closes it: every error path removes the mark.
MarksOwned ==
  faults = 0 => \A s \in closing : Closers(s) # {}

\* "in-container", the text of the status, and "Đơn hàng %v không tồn tại trong
\* kiện", the answer for a package that is not in a container: a package with
\* the status has an item in some container.
InContainerHasItem ==
  \A p \in Packages : pkg[p] = "InContainer" => Homes(p) # {}
=============================================================================
