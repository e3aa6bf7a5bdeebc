---------------------------- MODULE FreightProofs ----------------------------
(***************************************************************************)
(* Proofs about containers and shipments, in the order in which one rests  *)
(* on the other:                                                           *)
(*   MarksOwned: a call that has set a mark removes it;                    *)
(*   DeliveryKept: no handler holds a package it read as delivered;        *)
(*   TypeOK: counts stay in range because of what calls are under way;     *)
(*   QuantityCounts, OneContainer: what a handler checked is true of the   *)
(*     rows it holds, and of the rows there are unless it is out of date;  *)
(*   StatusFollowsFreight: rests on both of these;                         *)
(*   LabelsAccounted: a shipment has one call that closes it.              *)
(* None of the invariants is inductive as it stands, except the last but   *)
(* one beside those before it; each part names what has to be added.       *)
(***************************************************************************)
EXTENDS Freight, FiniteSetTheorems, TLAPS

-----------------------------------------------------------------------------
(* A mark always has an owner: MarksOwned.  It is not inductive: a call that still has *)
(* to test the mark of another one is a closer too, and it goes away without removing  *)
(* the mark.  An owner is a call that has set the mark itself, and the only step in    *)
(* which it stops to be one removes the mark.                                          *)

OwnerOps == {"buy", "save", "unmark"}
Owners(s) == {c \in Calls : call[c].op \in OwnerOps /\ s \in DOMAIN call[c].seen.shp}

\* A running handler: what it does next and what it has read.
IsCall(x) == x = [op |-> x.op, seen |-> x.seen]
CallsTyped == call = [c \in Calls |-> call[c]] /\ \A c \in Calls : IsCall(call[c])
Owned == faults = 0 => \A s \in closing : Owners(s) # {}
MInv == CallsTyped /\ faults \in Nat /\ Owned

-----------------------------------------------------------------------------
\* A step of a call that is no owner, of whatever kind, leaves every mark its
\* owner.
LEMMA OthersKeep ==
  ASSUME MInv, NEW c \in Calls, NEW x, IsCall(x),
         call[c].op \notin OwnerOps,
         call' = [call EXCEPT ![c] = x],
         closing' = closing, faults' = faults
  PROVE  MInv'
<1>1. CallsTyped'
  BY DEF MInv, CallsTyped
<1>2. \A d \in Calls : d # c => call'[d] = call[d]
  BY DEF MInv, CallsTyped
<1>3. Owned'
  <2>1. SUFFICES ASSUME faults' = 0, NEW s \in closing'
                 PROVE  Owners(s)' # {}
    BY DEF Owned
  <2>2. PICK d \in Owners(s) : TRUE
    BY <2>1 DEF MInv, Owned
  <2>3. d # c /\ d \in Calls
    BY <2>2 DEF Owners
  <2>4. call'[d] = call[d]
    BY <1>2, <2>3
  <2>5. QED
    BY <2>2, <2>3, <2>4 DEF Owners
<1>4. QED
  BY <1>1, <1>3 DEF MInv

\* An owner that goes on and stays an owner keeps its marks.
LEMMA OwnersStay ==
  ASSUME MInv, NEW c \in Calls, NEW op \in OwnerOps,
         Goto(c, op),
         closing' = closing, faults' = faults
  PROVE  MInv'
<1>1. CallsTyped'
  BY DEF MInv, CallsTyped, Goto, IsCall
<1>2. \A d \in Calls : call'[d].seen = call[d].seen
  BY DEF MInv, CallsTyped, Goto
<1>3. \A d \in Calls : call[d].op \in OwnerOps => call'[d].op \in OwnerOps
  BY DEF MInv, CallsTyped, Goto
<1>4. Owned'
  <2>1. SUFFICES ASSUME faults' = 0, NEW s \in closing'
                 PROVE  Owners(s)' # {}
    BY DEF Owned
  <2>2. PICK d \in Owners(s) : TRUE
    BY <2>1 DEF MInv, Owned
  <2>3. QED
    BY <1>2, <1>3, <2>2 DEF Owners
<1>5. QED
  BY <1>1, <1>4 DEF MInv

-----------------------------------------------------------------------------
\* No shipment is marked at first, and no call runs.
LEMMA InitOwned == Init => MInv
BY DEF Init, MInv, CallsTyped, Owned, IsCall, Idle

\* A handler that begins was idle before.
LEMMA ReadOwned ==
  ASSUME MInv, NEW c \in Calls, NEW op, NEW ps, NEW ks, NEW is, NEW ss,
         Read(c, op, ps, ks, is, ss)
  PROVE  MInv'
<1>1. call[c].op \notin OwnerOps
  BY DEF Read, Idle, OwnerOps
<1>2. QED
  BY <1>1, OthersKeep DEF Read, IsCall

\* The handlers of containers and of packages know nothing of the marks.
LEMMA ContainerStepOwned ==
  ASSUME MInv, NEW c \in Calls, ContainerStep(c)
  PROVE  MInv'
<1>1. ASSUME NEW k \in Containers, NEW p \in Packages, NEW fits \in BOOLEAN,
             Append(c, p, k, fits)
      PROVE  MInv'
  BY <1>1, ReadOwned DEF Append
<1>2. ASSUME NEW k \in Containers, NEW ps \in SUBSET Packages, Remove(c, ps, k)
      PROVE  MInv'
  BY <1>2, ReadOwned DEF Remove
<1>3. ASSUME NEW k \in Containers, Close(c, k) \/ Cancel(c, k) \/ Open(c, k) \/ Update(c, k)
      PROVE  MInv'
  BY <1>3, ReadOwned DEF Close, Cancel, Open, Update
<1>4. CASE SaveContainerAndPackage(c)
  BY <1>4, OthersKeep DEF SaveContainerAndPackage, Return, OwnerOps, IsCall, Idle
<1>5. CASE SaveFailPackageContainer(c)
  BY <1>5, OthersKeep DEF SaveFailPackageContainer, Return, OwnerOps, IsCall, Idle
<1>6. CASE CancelPackagesInContainer(c)
  BY <1>6, OthersKeep DEF CancelPackagesInContainer, Return, OwnerOps, IsCall, Idle
<1>7. CASE CloseContainer(c)
  BY <1>7, OthersKeep DEF CloseContainer, Return, OwnerOps, IsCall, Idle
<1>8. CASE SaveContainer(c)
  BY <1>8, OthersKeep DEF SaveContainer, Return, OwnerOps, IsCall, Idle
<1>9. QED
  BY <1>1, <1>2, <1>3, <1>4, <1>5, <1>6, <1>7, <1>8 DEF ContainerStep

\* The call that closes sets the mark, or finds it set and goes away: then it
\* was never an owner.
LEMMA MarkOwned ==
  ASSUME MInv, NEW c \in Calls, SIsMember(c) \/ SAdd(c) \/ SRem(c)
  PROVE  MInv'
<1>1. CASE SIsMember(c)
  <2>1. PICK x : IsCall(x) /\ call' = [call EXCEPT ![c] = x]
    BY <1>1 DEF SIsMember, Return, Goto, MInv, CallsTyped, IsCall, Idle
  <2>2. QED
    BY <1>1, <2>1, OthersKeep DEF SIsMember, OwnerOps
<1>2. CASE SAdd(c)
  <2>1. CallsTyped'
    BY <1>2 DEF SAdd, Goto, MInv, CallsTyped, IsCall
  <2>2. \A d \in Calls : call'[d].seen = call[d].seen
    BY <1>2 DEF SAdd, Goto, MInv, CallsTyped
  <2>3. call'[c].op = "buy"
    BY <1>2 DEF SAdd, Goto, MInv, CallsTyped, IsCall
  <2>4. \A d \in Calls : d # c => call'[d] = call[d]
    BY <1>2 DEF SAdd, Goto, MInv, CallsTyped
  <2>5. Owned'
    <3>1. SUFFICES ASSUME faults' = 0, NEW s \in closing'
                   PROVE  Owners(s)' # {}
      BY DEF Owned
    <3>2. CASE s \in DOMAIN call[c].seen.shp
      BY <3>2, <2>2, <2>3 DEF Owners, OwnerOps
    <3>3. CASE s \in closing
      <4>1. PICK d \in Owners(s) : TRUE
        BY <1>2, <3>1, <3>3 DEF MInv, Owned, SAdd
      <4>2. d # c /\ d \in Calls
        BY <1>2, <4>1 DEF Owners, OwnerOps, SAdd
      <4>3. QED
        BY <2>4, <4>1, <4>2 DEF Owners
    <3>4. QED
      BY <1>2, <3>1, <3>2, <3>3 DEF SAdd
  <2>6. QED
    BY <1>2, <2>1, <2>5 DEF MInv, SAdd
<1>3. CASE SRem(c)
  <2>1. CallsTyped'
    BY <1>3 DEF SRem, Return, MInv, CallsTyped, IsCall, Idle
  <2>2. \A d \in Calls : d # c => call'[d] = call[d]
    BY <1>3 DEF SRem, Return, MInv, CallsTyped
  <2>3. Owned'
    <3>1. SUFFICES ASSUME faults' = 0, NEW s \in closing'
                   PROVE  Owners(s)' # {}
      BY DEF Owned
    <3>2. s \in closing /\ s \notin DOMAIN call[c].seen.shp
      BY <1>3 DEF SRem
    <3>3. PICK d \in Owners(s) : TRUE
      BY <1>3, <3>1, <3>2 DEF MInv, Owned, SRem
    <3>4. d # c /\ d \in Calls
      BY <3>2, <3>3 DEF Owners
    <3>5. QED
      BY <2>2, <3>3, <3>4 DEF Owners
  <2>4. QED
    BY <1>3, <2>1, <2>3 DEF MInv, SRem
<1>4. QED
  BY <1>1, <1>2, <1>3

\* Of the handlers of shipments, only Close owns a mark.
LEMMA ShipmentStepOwned ==
  ASSUME MInv, NEW c \in Calls, ShipmentStep(c)
  PROVE  MInv'
<1>1. ASSUME NEW s \in Shipments,
             CancelShipment(c, s) \/ CloseRequest(c, s) \/ Intransit(c, s)
      PROVE  MInv'
  BY <1>1, ReadOwned DEF CancelShipment, CloseRequest, Intransit
<1>2. ASSUME NEW s \in Shipments, NEW k \in Containers, Load(c, k, s) \/ Unload(c, k, s)
      PROVE  MInv'
  BY <1>2, ReadOwned DEF Load, Unload
<1>3. CASE SaveShipment(c)
  BY <1>3, OthersKeep DEF SaveShipment, Return, OwnerOps, IsCall, Idle
<1>4. CASE AppendContainerShipment(c)
  BY <1>4, OthersKeep DEF AppendContainerShipment, Return, OwnerOps, IsCall, Idle
<1>5. CASE RemoveContainerShipment(c)
  BY <1>5, OthersKeep DEF RemoveContainerShipment, Return, OwnerOps, IsCall, Idle
<1>6. CASE IntransitShipment(c)
  BY <1>6, OthersKeep DEF IntransitShipment, Return, OwnerOps, IsCall, Idle
<1>7. CASE SIsMember(c) \/ SAdd(c) \/ SRem(c)
  BY <1>7, MarkOwned
<1>8. CASE BuyLabels(c)
  BY <1>8, OwnersStay DEF BuyLabels, OwnerOps
<1>9. CASE Refused(c)
  BY <1>9, OwnersStay DEF Refused, OwnerOps
<1>10. CASE CloseFails(c)
  BY <1>10, OwnersStay DEF CloseFails, OwnerOps
<1>11. CASE CloseShipment(c)
  BY <1>11, OwnersStay DEF CloseShipment, OwnerOps
<1>12. QED
  BY <1>1, <1>2, <1>3, <1>4, <1>5, <1>6, <1>7, <1>8, <1>9, <1>10, <1>11
  DEF ShipmentStep

\* The tracking scheduler knows nothing of the marks either.
LEMMA TrackingStepOwned ==
  ASSUME MInv, NEW c \in Calls, TrackingStep(c)
  PROVE  MInv'
<1>1. ASSUME NEW ps \in SUBSET Packages, Track(c, ps)
      PROVE  MInv'
  BY <1>1, ReadOwned DEF Track
<1>2. ASSUME NEW p, call[c].op = "track", NextOnPage(c, p), closing' = closing, faults' = faults
      PROVE  MInv'
  <2>1. PICK x : IsCall(x) /\ call' = [call EXCEPT ![c] = x]
    BY <1>2 DEF NextOnPage, Return, MInv, CallsTyped, IsCall, Idle
  <2>2. QED
    BY <1>2, <2>1, OthersKeep DEF OwnerOps
<1>3. CASE NoNews(c)
  BY <1>3, <1>2 DEF NoNews
<1>4. ASSUME NEW delivered \in BOOLEAN, SaveDeliverLogPackage(c, delivered)
      PROVE  MInv'
  BY <1>4, <1>2 DEF SaveDeliverLogPackage
<1>5. QED
  BY <1>1, <1>3, <1>4 DEF TrackingStep

\* After a restart the claim is void.
LEMMA CrashOwned == MInv /\ Crash => MInv'
BY DEF MInv, CallsTyped, Owned, Crash, IsCall, Idle

\* Every step keeps every mark owned.
LEMMA NextOwned == MInv /\ [Next]_vars => MInv'
<1>1. CASE UNCHANGED vars
  BY <1>1 DEF vars, MInv, CallsTyped, Owned, Owners
<1>2. CASE Next
  BY <1>2, CrashOwned, ContainerStepOwned, ShipmentStepOwned, TrackingStepOwned DEF Next
<1>3. QED
  BY <1>1, <1>2

\* As long as the server does not stop, whatever fails while a shipment is
\* closed, a shipment in list_closing_shipment has a call that will take it out.
THEOREM MarksAlwaysOwned == Spec => []MarksOwned
<1>1. MInv => MarksOwned
  BY DEF MInv, Owned, Owners, OwnerOps, MarksOwned, Closers
<1>2. QED
  BY <1>1, InitOwned, NextOwned, PTL DEF Spec

-----------------------------------------------------------------------------
(* A delivery that was read stays: DeliveryKept.  The scheduler writes whole rows  *)
(* and a scan writes the status; neither may hold a package that was read as       *)
(* delivered, nor one whose delivery was read since.                               *)

\* What running calls know of the packages they will write.
Undelivered ==
  \A c \in Calls : call[c].op \in {"append", "track"} =>
    /\ "pkg" \in DOMAIN call[c].seen
    /\ \A p \in DOMAIN call[c].seen.pkg : p \in Packages /\ call[c].seen.pkg[p] # "Delivered"
NotTold ==
  \A c \in Calls : call[c].op = "track" =>
    \A p \in DOMAIN call[c].seen.pkg : p \in told => p \in adrift
OneTracker == \A c, d \in Calls : call[c].op = "track" /\ call[d].op = "track" => c = d
Known == CallsTyped /\ Undelivered /\ NotTold /\ OneTracker

DInv == Known /\ told \subseteq Packages /\ DeliveryKept

\* A call that goes on without writing packages knows nothing new.
LEMMA KnownStays ==
  ASSUME Known, NEW c \in Calls, NEW x, IsCall(x),
         x.op \notin {"append", "track"},
         call' = [call EXCEPT ![c] = x],
         told' = told, adrift \subseteq adrift'
  PROVE  Known'
<1>1. CallsTyped' /\ call'[c] = x /\ \A d \in Calls : d # c => call'[d] = call[d]
  BY DEF Known, CallsTyped
<1>2. Undelivered'
  BY <1>1 DEF Known, Undelivered
<1>3. NotTold'
  BY <1>1 DEF Known, NotTold
<1>4. OneTracker'
  BY <1>1 DEF Known, OneTracker
<1>5. QED
  BY <1>1, <1>2, <1>3, <1>4 DEF Known

\* Statuses that are set, other than by a delivery, keep deliveries or put them adrift.
LEMMA StatusSet ==
  ASSUME DeliveryKept, NEW ps, NEW status, status # "Delivered",
         SetStatus(ps, status),
         told' = told, adrift \subseteq adrift',
         \A p \in ps : p \in told => p \in adrift'
  PROVE  DeliveryKept'
BY DEF DeliveryKept, SetStatus

\* Nothing that is kept in mind moves.
LEMMA StatusStays ==
  ASSUME DeliveryKept, pkg' = pkg, told' = told, adrift \subseteq adrift'
  PROVE  DeliveryKept'
BY DEF DeliveryKept

\* A handler begins: what it read is what there is.
LEMMA ReadKnown ==
  ASSUME DInv, NEW c \in Calls, NEW op, NEW ps, NEW ks, NEW is, NEW ss,
         Read(c, op, ps, ks, is, ss), adrift \subseteq adrift',
         op \in {"append", "track"} =>
           ps \subseteq Packages /\ \A p \in ps : pkg[p] # "Delivered",
         op = "track" => \A d \in Calls : call[d].op # "track"
  PROVE  DInv'
<1>1. told' = told /\ pkg' = pkg
  BY DEF Read, db
<1>2. DEFINE x == [op |-> op, seen |-> View(ps, ks, is, ss)]
<1>3. IsCall(x) /\ call' = [call EXCEPT ![c] = x] /\ x.op = op
  BY DEF Read, IsCall
<1>4. /\ DOMAIN x.seen.pkg = ps /\ \A p \in ps : x.seen.pkg[p] = pkg[p]
      /\ "pkg" \in DOMAIN x.seen
  BY DEF View, Restrict
<1>5. CallsTyped' /\ call'[c] = x /\ \A d \in Calls : d # c => call'[d] = call[d]
  BY <1>3 DEF DInv, Known, CallsTyped
<1>6. Undelivered'
  BY <1>3, <1>4, <1>5 DEF DInv, Known, Undelivered
<1>7. NotTold'
  <2>1. ASSUME op = "track", NEW p \in ps, p \in told
        PROVE  p \in adrift'
    BY <2>1 DEF DInv, DeliveryKept
  <2>2. QED
    BY <1>1, <1>3, <1>4, <1>5, <2>1 DEF DInv, Known, NotTold
<1>8. OneTracker'
  BY <1>3, <1>5 DEF DInv, Known, OneTracker
<1>9. DeliveryKept'
  BY <1>1, StatusStays DEF DInv
<1>10. QED
  BY <1>1, <1>5, <1>6, <1>7, <1>8, <1>9 DEF DInv, Known

\* A scan writes a package that was not delivered when it was read; if it is now, the
\* read is out of date.
LEMMA ScanKept ==
  ASSUME DInv, NEW c \in Calls, SaveContainerAndPackage(c)
  PROVE  DInv'
<1>1. PICK p \in DOMAIN call[c].seen.pkg : SetStatus({p}, "InContainer") /\ Wrote(c, {p})
  BY DEF SaveContainerAndPackage
<1>2. told' = told /\ adrift \subseteq adrift'
  BY <1>1 DEF SaveContainerAndPackage, Wrote
<1>3. p \in Packages /\ call[c].seen.pkg[p] # "Delivered"
  BY DEF SaveContainerAndPackage, DInv, Known, Undelivered
<1>4. p \in told => p \in adrift'
  <2>1. SUFFICES ASSUME p \in told, p \notin adrift
                 PROVE  p \in adrift'
    BY <1>2
  <2>2. pkg[p] # call[c].seen.pkg[p]
    BY <1>3, <2>1 DEF DInv, DeliveryKept
  <2>3. Stale(c)
    BY <2>2, <1>3 DEF Stale, View, Restrict
  <2>4. QED
    BY <1>1, <2>3 DEF Wrote
<1>5. DeliveryKept'
  BY <1>1, <1>2, <1>4, StatusSet DEF DInv
<1>6. Known'
  BY <1>2, KnownStays DEF SaveContainerAndPackage, Return, Idle, IsCall, DInv
<1>7. QED
  BY <1>2, <1>5, <1>6 DEF DInv

\* The other handlers of containers.
LEMMA ContainerStepKept ==
  ASSUME DInv, NEW c \in Calls, ContainerStep(c)
  PROVE  DInv'
<1>1. ASSUME NEW k \in Containers, NEW p \in Packages, NEW fits \in BOOLEAN,
             Append(c, p, k, fits)
      PROVE  DInv'
  <2>1. PICK op \in {"append", "misfit"} :
          /\ Read(c, op, {p}, {k}, Containers \X {p}, {})
          /\ op = "append" => pkg[p] \in Scanned
    BY <1>1 DEF Append
  <2>2. QED
    BY <1>1, <2>1, ReadKnown DEF Append, Scanned
<1>2. ASSUME NEW k \in Containers, NEW ps \in SUBSET Packages, Remove(c, ps, k)
      PROVE  DInv'
  BY <1>2, ReadKnown DEF Remove
<1>3. ASSUME NEW k \in Containers, Close(c, k) \/ Cancel(c, k) \/ Open(c, k) \/ Update(c, k)
      PROVE  DInv'
  BY <1>3, ReadKnown DEF Close, Cancel, Open, Update
<1>4. CASE SaveContainerAndPackage(c)
  BY <1>4, ScanKept
<1>5. CASE SaveFailPackageContainer(c)
  BY <1>5, KnownStays, StatusStays DEF SaveFailPackageContainer, Return, Idle, IsCall, DInv
<1>6. CASE CancelPackagesInContainer(c)
  BY <1>6, KnownStays, StatusSet
  DEF CancelPackagesInContainer, Moved, Return, Idle, IsCall, DInv
<1>7. CASE CloseContainer(c)
  BY <1>7, KnownStays, StatusStays DEF CloseContainer, Wrote, Return, Idle, IsCall, DInv
<1>8. CASE SaveContainer(c)
  BY <1>8, KnownStays, StatusStays DEF SaveContainer, Wrote, Return, Idle, IsCall, DInv
<1>9. QED
  BY <1>1, <1>2, <1>3, <1>4, <1>5, <1>6, <1>7, <1>8 DEF ContainerStep

\* The closing call goes from one step to the next.
LEMMA GotoKnown ==
  ASSUME Known, NEW c \in Calls, NEW op, op \notin {"append", "track"},
         Goto(c, op), told' = told, adrift \subseteq adrift'
  PROVE  Known'
<1>1. DEFINE x == [op |-> op, seen |-> call[c].seen]
<1>2. call[c] = [op |-> call[c].op, seen |-> call[c].seen]
  BY DEF Known, CallsTyped, IsCall
<1>3. call' = [call EXCEPT ![c] = x]
  <2>1. [call[c] EXCEPT !.op = op] = x
    BY <1>2
  <2>2. call' = [call EXCEPT ![c] = [call[c] EXCEPT !.op = op]]
    BY DEF Goto
  <2>3. QED
    BY <2>1, <2>2
<1>4. IsCall(x) /\ x.op = op
  BY DEF IsCall
<1>5. QED
  BY <1>3, <1>4, KnownStays

\* The handlers of shipments.
LEMMA ShipmentStepKept ==
  ASSUME DInv, NEW c \in Calls, ShipmentStep(c)
  PROVE  DInv'
<1>1. ASSUME NEW s \in Shipments,
             CancelShipment(c, s) \/ CloseRequest(c, s) \/ Intransit(c, s)
      PROVE  DInv'
  BY <1>1, ReadKnown DEF CancelShipment, CloseRequest, Intransit
<1>2. ASSUME NEW s \in Shipments, NEW k \in Containers, Load(c, k, s) \/ Unload(c, k, s)
      PROVE  DInv'
  BY <1>2, ReadKnown DEF Load, Unload
<1>3. CASE SaveShipment(c)
  BY <1>3, KnownStays, StatusStays DEF SaveShipment, Wrote, Return, Idle, IsCall, DInv
<1>4. CASE AppendContainerShipment(c)
  BY <1>4, KnownStays, StatusSet
  DEF AppendContainerShipment, Moved, Return, Idle, IsCall, DInv
<1>5. CASE RemoveContainerShipment(c)
  BY <1>5, KnownStays, StatusSet
  DEF RemoveContainerShipment, Return, Idle, IsCall, DInv
<1>6. CASE IntransitShipment(c)
  BY <1>6, KnownStays, StatusSet DEF IntransitShipment, Moved, Return, Idle, IsCall, DInv
<1>7. CASE SIsMember(c)
  <2>1. told' = told /\ pkg' = pkg /\ adrift' = adrift
    BY <1>7 DEF SIsMember, db
  <2>2. CASE Return(c)
    BY <2>1, <2>2, KnownStays, StatusStays DEF Return, Idle, IsCall, DInv
  <2>3. CASE Goto(c, "add")
    BY <2>1, <2>3, GotoKnown, StatusStays DEF DInv
  <2>4. QED
    BY <1>7, <2>2, <2>3 DEF SIsMember
<1>8. CASE SAdd(c) \/ BuyLabels(c) \/ Refused(c) \/ CloseFails(c)
  <2>1. told' = told /\ pkg' = pkg /\ adrift' = adrift
    BY <1>8 DEF SAdd, BuyLabels, Refused, CloseFails, db
  <2>2. PICK op \in {"buy", "save", "unmark"} : Goto(c, op)
    BY <1>8 DEF SAdd, BuyLabels, Refused, CloseFails
  <2>3. QED
    BY <2>1, <2>2, GotoKnown, StatusStays DEF DInv
<1>9. CASE CloseShipment(c)
  BY <1>9, GotoKnown, StatusSet DEF CloseShipment, Moved, DInv
<1>10. CASE SRem(c)
  BY <1>10, KnownStays, StatusStays DEF SRem, db, Return, Idle, IsCall, DInv
<1>11. QED
  BY <1>1, <1>2, <1>3, <1>4, <1>5, <1>6, <1>7, <1>8, <1>9, <1>10 DEF ShipmentStep

\* What is left of a page is what was read of it.
LEMMA PageKnown ==
  ASSUME Known, NEW c \in Calls, call[c].op = "track",
         NEW p \in DOMAIN call[c].seen.pkg, NextOnPage(c, p),
         told' \subseteq told \cup {p}, adrift \subseteq adrift'
  PROVE  Known'
<1>1. DEFINE left == DOMAIN call[c].seen.pkg \ {p}
<1>2. CallsTyped' /\ \A d \in Calls : d # c => call'[d] = call[d]
  BY DEF NextOnPage, Return, Known, CallsTyped, IsCall, Idle
<1>3. CASE left = {}
  <2>1. call'[c].op = "none"
    BY <1>3 DEF NextOnPage, Return, Idle, Known, CallsTyped
  <2>2. \A d \in Calls : d # c => call[d].op # "track"
    BY DEF Known, OneTracker
  <2>3. QED
    BY <1>2, <2>1, <2>2 DEF Known, Undelivered, NotTold, OneTracker
<1>4. CASE left # {}
  <2>1. /\ call'[c].op = "track"
        /\ call'[c].seen.pkg = [q \in left |-> call[c].seen.pkg[q]]
        /\ "pkg" \in DOMAIN call'[c].seen
    <3>1. call[c] = [op |-> "track", seen |-> call[c].seen] /\ "pkg" \in DOMAIN call[c].seen
      BY DEF Known, CallsTyped, Undelivered, IsCall
    <3>2. DEFINE seen == [call[c].seen EXCEPT !.pkg = Restrict(@, left)]
    <3>3. call' = [call EXCEPT ![c] = [call[c] EXCEPT !.seen = seen]]
      BY <1>4 DEF NextOnPage
    <3>4. call'[c] = [op |-> "track", seen |-> seen]
      BY <3>1, <3>3 DEF Known, CallsTyped
    <3>5. seen.pkg = [q \in left |-> call[c].seen.pkg[q]] /\ "pkg" \in DOMAIN seen
      BY <3>1 DEF Restrict
    <3>6. QED
      BY <3>4, <3>5
  <2>2. \A d \in Calls : d # c => call[d].op # "track"
    BY DEF Known, OneTracker
  <2>3. Undelivered'
    BY <1>2, <2>1 DEF Known, Undelivered
  <2>4. NotTold'
    BY <1>2, <2>1, <2>2 DEF Known, NotTold
  <2>5. OneTracker'
    BY <1>2, <2>2 DEF OneTracker
  <2>6. QED
    BY <1>2, <2>3, <2>4, <2>5 DEF Known
<1>5. QED
  BY <1>3, <1>4

\* The scheduler saves a delivery with its status, and otherwise a package that was not
\* delivered.
LEMMA TrackingStepKept ==
  ASSUME DInv, NEW c \in Calls, TrackingStep(c)
  PROVE  DInv'
<1>1. ASSUME NEW ps \in SUBSET Packages, Track(c, ps)
      PROVE  DInv'
  BY <1>1, ReadKnown DEF Track, Tracked
<1>2. CASE NoNews(c)
  <2>1. PICK p \in DOMAIN call[c].seen.pkg : NextOnPage(c, p)
    BY <1>2 DEF NoNews
  <2>2. told' = told /\ pkg' = pkg /\ adrift' = adrift /\ call[c].op = "track"
    BY <1>2 DEF NoNews, db
  <2>3. QED
    BY <2>1, <2>2, PageKnown, StatusStays DEF DInv
<1>3. ASSUME NEW delivered \in BOOLEAN, SaveDeliverLogPackage(c, delivered)
      PROVE  DInv'
  <2>1. PICK p \in DOMAIN call[c].seen.pkg :
          /\ SetStatus({p}, IF delivered THEN "Delivered" ELSE call[c].seen.pkg[p])
          /\ told' = IF delivered THEN told \cup {p} ELSE told
          /\ adrift' = IF call[c].seen.pkg[p] # pkg[p] THEN adrift \cup {p} ELSE adrift
          /\ NextOnPage(c, p)
    BY <1>3 DEF SaveDeliverLogPackage
  <2>2. /\ call[c].op = "track" /\ p \in Packages
        /\ call[c].seen.pkg[p] # "Delivered" /\ (p \in told => p \in adrift)
    BY <1>3 DEF SaveDeliverLogPackage, DInv, Known, Undelivered, NotTold
  <2>3. adrift \subseteq adrift' /\ told' \subseteq told \cup {p} /\ told' \subseteq Packages
    BY <2>1, <2>2 DEF DInv
  <2>4. Known'
    BY <2>1, <2>2, <2>3, PageKnown DEF DInv
  <2>5. DeliveryKept'
    <3>1. CASE delivered
      BY <2>1, <2>3, <3>1 DEF DInv, DeliveryKept, SetStatus
    <3>2. CASE ~delivered
      BY <2>1, <2>2, <2>3, <3>2, StatusSet DEF DInv
    <3>3. QED
      BY <3>1, <3>2
  <2>6. QED
    BY <2>3, <2>4, <2>5 DEF DInv
<1>4. QED
  BY <1>1, <1>2, <1>3 DEF TrackingStep

\* A restart leaves the scheduler with its page.
LEMMA CrashKept == DInv /\ Crash => DInv'
<1>1. SUFFICES ASSUME DInv, Crash
               PROVE  DInv'
  OBVIOUS
<1>2. told' = told /\ pkg' = pkg /\ adrift' = adrift
  BY <1>1 DEF Crash, db
<1>3. /\ CallsTyped'
      /\ \A c \in Calls : call'[c] = call[c] \/ call'[c].op = "none"
  BY <1>1 DEF Crash, DInv, Known, CallsTyped, Idle, IsCall
<1>4. Known'
  BY <1>1, <1>2, <1>3 DEF DInv, Known, Undelivered, NotTold, OneTracker
<1>5. QED
  BY <1>1, <1>2, <1>4, StatusStays DEF DInv

\* Every step keeps what deliveries were read, and what calls know of them.
LEMMA NextKept == DInv /\ [Next]_vars => DInv'
<1>1. CASE UNCHANGED vars
  BY <1>1 DEF vars, db, DInv, Known, CallsTyped, Undelivered, NotTold, OneTracker, DeliveryKept
<1>2. CASE Next
  BY <1>2, CrashKept, ContainerStepKept, ShipmentStepKept, TrackingStepKept DEF Next
<1>3. QED
  BY <1>1, <1>2

\* Whatever calls and pages of the scheduler overlap, a package whose delivery was read
\* is delivered, and no other is, unless staff moved it on or a row was written from an
\* outdated read.
THEOREM DeliveriesKept == Spec => []DeliveryKept
<1>1. Init => DInv
  BY DEF Init, DInv, Known, CallsTyped, Undelivered, NotTold, OneTracker, DeliveryKept, IsCall, Idle
<1>2. DInv => DeliveryKept
  BY DEF DInv
<1>3. QED
  BY <1>1, <1>2, NextKept, PTL DEF Spec

-----------------------------------------------------------------------------
(* The types.  A scan adds an item to what is there now, and the labels of a       *)
(* closing that fails are counted back: that neither number leaves its range       *)
(* depends on how many calls are under way.                                        *)

Appending(k, p) == {c \in Calls : /\ call[c].op = "append"
                                  /\ k \in DOMAIN call[c].seen.con
                                  /\ p \in DOMAIN call[c].seen.pkg}
Scans == \A k \in Containers, p \in Packages :
           item[<<k, p>>].active + Cardinality(Appending(k, p)) <= Cardinality(Calls)
Savers(s) == {c \in Calls : call[c].op = "save" /\ Buys(c) /\ s \in DOMAIN call[c].seen.shp}
Saved == \A s \in Shipments : Cardinality(Savers(s)) <= bought[s]

Tables == /\ pkg \in [Packages -> PackageStatus]
          /\ item \in [Containers \X Packages -> ItemRows]
          /\ con \in [Containers -> ContainerRow]
          /\ shp \in [Shipments -> ShipmentRow]
Names == Packages \cup Containers \cup Shipments
\* Every handler reads one shipment, or none.
Narrow(v) == \A s, t \in DOMAIN v.shp : s = t
TInv == CallsTyped /\ TypeOK /\ Scans /\ Saved /\ \A c \in Calls : Narrow(call[c].seen)

\* What is read has the types of the tables, and a row for every name asked for.
LEMMA ViewTyped ==
  ASSUME Tables, NEW ps \in SUBSET Packages, NEW ks \in SUBSET Containers,
         NEW is \in SUBSET (Containers \X Packages), NEW ss \in SUBSET Shipments
  PROVE  IsView(View(ps, ks, is, ss))
<1>1. Restrict(pkg, ps) \in [ps -> PackageStatus]
  BY DEF Restrict, Tables
<1>2. Restrict(con, ks) \in [ks -> ContainerRow]
  BY DEF Restrict, Tables
<1>3. Restrict(item, is) \in [is -> ItemRows]
  BY DEF Restrict, Tables
<1>4. Restrict(shp, ss) \in [ss -> ShipmentRow]
  BY DEF Restrict, Tables
<1>5. QED
  BY <1>1, <1>2, <1>3, <1>4 DEF View, IsView

\* The running handlers after one of them went on to x.
LEMMA CallGoesOn ==
  ASSUME CallsTyped, NEW c \in Calls, NEW x, IsCall(x), call' = [call EXCEPT ![c] = x]
  PROVE  /\ CallsTyped' /\ call'[c] = x
         /\ \A d \in Calls : d # c => call'[d] = call[d]
BY DEF CallsTyped

\* Sets of running handlers are finite.
LEMMA CallsFinite ==
  ASSUME NEW S \in SUBSET Calls
  PROVE  /\ IsFiniteSet(S) /\ Cardinality(S) \in Nat /\ Cardinality(Calls) \in Nat
         /\ Cardinality(S) <= Cardinality(Calls)
         /\ \A T \in SUBSET S : Cardinality(T) \in Nat /\ Cardinality(T) <= Cardinality(S)
<1>1. IsFiniteSet(Calls)
  BY FreightConstants
<1>2. IsFiniteSet(S) /\ Cardinality(S) <= Cardinality(Calls)
  BY <1>1, FS_Subset
<1>3. \A T \in SUBSET S : IsFiniteSet(T) /\ Cardinality(T) <= Cardinality(S)
  BY <1>2, FS_Subset
<1>4. QED
  BY <1>1, <1>2, <1>3, FS_CardinalityType

\* The items of a package in a container are a number.
LEMMA ItemCounted ==
  ASSUME TypeOK, NEW k \in Containers, NEW p \in Packages
  PROVE  item[<<k, p>>].active \in Nat
<1>1. item[<<k, p>>].active \in 0..Cardinality(Calls)
  BY DEF TypeOK, ItemRows
<1>2. QED
  BY <1>1

\* A handler that does not begin a scan, or a purchase that is not saved, leaves those
\* that do; where nothing is added, the numbers stay in range.
LEMMA CountsStay ==
  ASSUME TInv, NEW c \in Calls, NEW x, IsCall(x), call' = [call EXCEPT ![c] = x]
  PROVE  /\ x.op # "append" /\ (\A k \in Containers, p \in Packages :
                /\ item'[<<k, p>>].active \in Nat
                /\ item'[<<k, p>>].active <= item[<<k, p>>].active) => Scans'
         /\ x.op # "save" /\ bought' = bought => Saved'
<1>1. call'[c] = x /\ \A d \in Calls : d # c => call'[d] = call[d]
  BY CallGoesOn DEF TInv
<1>2. ASSUME x.op # "append",
             \A k \in Containers, p \in Packages :
                item'[<<k, p>>].active \in Nat /\ item'[<<k, p>>].active <= item[<<k, p>>].active,
             NEW k \in Containers, NEW p \in Packages
      PROVE  item'[<<k, p>>].active + Cardinality(Appending(k, p)') <= Cardinality(Calls)
  <2>1. Appending(k, p)' \in SUBSET Appending(k, p) /\ Appending(k, p) \in SUBSET Calls
    BY <1>1, <1>2 DEF Appending
  <2>2. /\ Cardinality(Appending(k, p)') <= Cardinality(Appending(k, p))
        /\ Cardinality(Appending(k, p)') \in Nat /\ Cardinality(Appending(k, p)) \in Nat
        /\ Cardinality(Calls) \in Nat
    BY <2>1, CallsFinite
  <2>3. item[<<k, p>>].active + Cardinality(Appending(k, p)) <= Cardinality(Calls)
    BY DEF TInv, Scans
  <2>4. item[<<k, p>>].active \in Nat
    BY ItemCounted DEF TInv
  <2>5. QED
    BY <1>2, <2>2, <2>3, <2>4
<1>3. ASSUME x.op # "save", bought' = bought, NEW s \in Shipments
      PROVE  Cardinality(Savers(s)') <= bought'[s]
  <2>1. Savers(s)' \in SUBSET Savers(s) /\ Savers(s) \in SUBSET Calls
    BY <1>1, <1>3 DEF Savers, Buys
  <2>2. Cardinality(Savers(s)') <= Cardinality(Savers(s))
        /\ Cardinality(Savers(s)') \in Nat /\ Cardinality(Savers(s)) \in Nat
    BY <2>1, CallsFinite
  <2>3. Cardinality(Savers(s)) <= bought[s] /\ bought[s] \in 0..MaxLabels
    BY DEF TInv, Saved, TypeOK
  <2>4. QED
    BY <1>3, <2>2, <2>3, FreightConstants
<1>4. QED
  BY <1>2, <1>3 DEF Scans, Saved

\* A handler goes on, and each thing it may have written keeps its type.
LEMMA StepTyped ==
  ASSUME TInv, NEW c \in Calls, NEW x, IsCall(x), x.op \in Ops, IsView(x.seen), Narrow(x.seen),
         call' = [call EXCEPT ![c] = x],
         Tables', told' \subseteq Packages, closing' \subseteq Shipments,
         bought' \in [Shipments -> 0..MaxLabels], faults' \in 0..MaxFaults,
         adrift' \subseteq Names, Scans', Saved'
  PROVE  TInv'
<1>1. CallsTyped' /\ call'[c] = x /\ \A d \in Calls : d # c => call'[d] = call[d]
  BY CallGoesOn DEF TInv
<1>2. \A d \in Calls : call'[d].op \in Ops /\ IsView(call'[d].seen)
  BY <1>1 DEF TInv, TypeOK
<1>3. DOMAIN call' = Calls
  BY <1>1 DEF CallsTyped
<1>4. TypeOK'
  BY <1>2, <1>3 DEF TypeOK, Tables, Names
<1>5. \A d \in Calls : Narrow(call'[d].seen)
  BY <1>1 DEF TInv
<1>6. QED
  BY <1>1, <1>4, <1>5 DEF TInv, Narrow

\* A handler begins that is no scan: nothing is written.
LEMMA ReadTyped ==
  ASSUME TInv, NEW c \in Calls, NEW op \in Ops, op # "append", op # "save",
         NEW ps \in SUBSET Packages, NEW ks \in SUBSET Containers,
         NEW is \in SUBSET (Containers \X Packages), NEW ss \in SUBSET Shipments,
         \A s, t \in ss : s = t,
         Read(c, op, ps, ks, is, ss), adrift' \subseteq Names
  PROVE  TInv'
<1>1. DEFINE x == [op |-> op, seen |-> View(ps, ks, is, ss)]
<1>2. IsCall(x) /\ x.op = op /\ call' = [call EXCEPT ![c] = x]
  BY DEF Read, IsCall
<1>3. Tables
  BY DEF TInv, TypeOK, Tables
<1>4. IsView(x.seen) /\ Narrow(x.seen)
  <2>1. IsView(x.seen)
    BY <1>3, ViewTyped
  <2>2. DOMAIN x.seen.shp = ss
    BY DEF View, Restrict
  <2>3. QED
    BY <2>1, <2>2 DEF Narrow
<1>5. /\ pkg' = pkg /\ item' = item /\ con' = con /\ shp' = shp /\ told' = told
      /\ closing' = closing /\ bought' = bought /\ faults' = faults
  BY DEF Read, db
<1>6. Tables'
  BY <1>3, <1>5 DEF Tables
<1>7. ASSUME NEW k \in Containers, NEW p \in Packages
      PROVE  item'[<<k, p>>].active \in Nat /\ item'[<<k, p>>].active <= item[<<k, p>>].active
  <2>1. item[<<k, p>>].active \in Nat
    BY ItemCounted DEF TInv
  <2>2. QED
    BY <1>5, <2>1
<1>8. Scans' /\ Saved'
  <2>1. HIDE DEF x
  <2>2. QED
    BY <1>2, <1>5, <1>7, CountsStay
<1>9. told' \subseteq Packages /\ closing' \subseteq Shipments
      /\ bought' \in [Shipments -> 0..MaxLabels] /\ faults' \in 0..MaxFaults
  BY <1>5 DEF TInv, TypeOK
<1>10. QED
  <2>1. HIDE DEF x
  <2>2. QED
    BY <1>2, <1>4, <1>6, <1>8, <1>9, StepTyped

\* A scan begins where the package has no item yet.
LEMMA AppendTyped ==
  ASSUME TInv, NEW c \in Calls, NEW p \in Packages, NEW k \in Containers,
         Read(c, "append", {p}, {k}, Containers \X {p}, {}),
         Homes(p) = {}, adrift' = adrift
  PROVE  TInv'
<1>1. DEFINE x == [op |-> "append", seen |-> View({p}, {k}, Containers \X {p}, {})]
<1>2. IsCall(x) /\ x.op = "append" /\ call' = [call EXCEPT ![c] = x]
  BY DEF Read, IsCall
<1>3. Tables
  BY DEF TInv, TypeOK, Tables
<1>4. IsView(x.seen) /\ Narrow(x.seen) /\ DOMAIN x.seen.pkg = {p} /\ x.op \in Ops
  <2>1. IsView(x.seen)
    BY <1>3, ViewTyped
  <2>2. DOMAIN x.seen.pkg = {p} /\ DOMAIN x.seen.shp = {}
    BY DEF View, Restrict
  <2>3. QED
    BY <2>1, <2>2 DEF Ops, Narrow
<1>5. /\ pkg' = pkg /\ item' = item /\ con' = con /\ shp' = shp /\ told' = told
      /\ closing' = closing /\ bought' = bought /\ faults' = faults
  BY DEF Read, db
<1> HIDE DEF x
<1>6. Tables'
  BY <1>3, <1>5 DEF Tables
<1>7. Saved'
  BY <1>2, <1>5, CountsStay
<1>8. Scans'
  <2>1. SUFFICES ASSUME NEW l \in Containers, NEW q \in Packages
                 PROVE  item[<<l, q>>].active + Cardinality(Appending(l, q)') <= Cardinality(Calls)
    BY <1>5 DEF Scans
  <2>2. call'[c] = x /\ \A d \in Calls : d # c => call'[d] = call[d]
    BY <1>2, CallGoesOn DEF TInv
  <2>3. CASE q = p
    <3>1. item[<<l, q>>].active \in 0..Cardinality(Calls)
      BY DEF TInv, TypeOK, ItemRows
    <3>2. ~ (item[<<l, q>>].active > 0)
      BY <2>3 DEF Homes
    <3>3. Appending(l, q)' \in SUBSET Calls
      BY DEF Appending
    <3>4. Cardinality(Appending(l, q)') <= Cardinality(Calls)
          /\ Cardinality(Appending(l, q)') \in Nat /\ Cardinality(Calls) \in Nat
      BY <3>3, CallsFinite
    <3>5. QED
      BY <3>1, <3>2, <3>4
  <2>4. CASE q # p
    <3>1. c \notin Appending(l, q)' /\ c \notin Appending(l, q)
      BY <1>4, <2>2, <2>4 DEF Appending, Read, Idle
    <3>2. Appending(l, q)' = Appending(l, q)
      BY <2>2, <3>1 DEF Appending
    <3>3. QED
      BY <3>2 DEF TInv, Scans
  <2>5. QED
    BY <2>3, <2>4
<1>9. told' \subseteq Packages /\ closing' \subseteq Shipments /\ adrift' \subseteq Names
      /\ bought' \in [Shipments -> 0..MaxLabels] /\ faults' \in 0..MaxFaults
  BY <1>5 DEF TInv, TypeOK, Names
<1>10. QED
  BY <1>2, <1>4, <1>6, <1>7, <1>8, <1>9, StepTyped

\* A handler that writes and goes on, neither to a scan nor to a saving.
LEMMA WriteTyped ==
  ASSUME TInv, NEW c \in Calls, NEW x, IsCall(x), x.op \in Ops \ {"append", "save"},
         IsView(x.seen), Narrow(x.seen), call' = [call EXCEPT ![c] = x],
         Tables', told' \subseteq Packages, closing' \subseteq Shipments,
         bought' = bought, faults' = faults, adrift' \subseteq Names,
         \A k \in Containers, p \in Packages :
           item'[<<k, p>>].active \in Nat /\ item'[<<k, p>>].active <= item[<<k, p>>].active
  PROVE  TInv'
<1>1. Scans' /\ Saved'
  BY CountsStay
<1>2. bought' \in [Shipments -> 0..MaxLabels] /\ faults' \in 0..MaxFaults
  BY DEF TInv, TypeOK
<1>3. x.op \in Ops
  OBVIOUS
<1>4. QED
  BY <1>1, <1>2, <1>3, StepTyped

\* Where the items stay as they are, their numbers do.
LEMMA ItemsStay ==
  ASSUME TypeOK, item' = item
  PROVE  \A k \in Containers, p \in Packages :
           item'[<<k, p>>].active \in Nat /\ item'[<<k, p>>].active <= item[<<k, p>>].active
<1>1. SUFFICES ASSUME NEW k \in Containers, NEW p \in Packages
               PROVE  item[<<k, p>>].active \in Nat /\ item[<<k, p>>].active <= item[<<k, p>>].active
  OBVIOUS
<1>2. item[<<k, p>>].active \in Nat
  BY ItemCounted
<1>3. QED
  BY <1>2

\* The rows that a running handler has read.
LEMMA SeenTyped ==
  ASSUME TypeOK, NEW c \in Calls
  PROVE  /\ \A p \in DOMAIN call[c].seen.pkg :
              p \in Packages /\ call[c].seen.pkg[p] \in PackageStatus
         /\ \A k \in DOMAIN call[c].seen.con :
              k \in Containers /\ call[c].seen.con[k] \in ContainerRow
         /\ \A s \in DOMAIN call[c].seen.shp :
              s \in Shipments /\ call[c].seen.shp[s] \in ShipmentRow
         /\ DOMAIN call[c].seen.item \subseteq Containers \X Packages
         /\ \A kp \in DOMAIN call[c].seen.item : call[c].seen.item[kp] \in ItemRows
         /\ Active(call[c].seen.item) \subseteq Packages
<1>1. IsView(call[c].seen)
  BY DEF TypeOK
<1>2. Active(call[c].seen.item) \subseteq Packages
  BY <1>1 DEF IsView, Active
<1>3. QED
  BY <1>1, <1>2 DEF IsView

\* A handler that ended.
LEMMA IdleTyped ==
  ASSUME TInv
  PROVE  IsCall(Idle) /\ Idle.op \in Ops \ {"append", "save"} /\ IsView(Idle.seen)
         /\ Narrow(Idle.seen)
<1>1. Tables
  BY DEF TInv, TypeOK, Tables
<1>2. IsView(View({}, {}, {}, {}))
  BY <1>1, ViewTyped
<1>3. DOMAIN View({}, {}, {}, {}).shp = {}
  BY DEF View, Restrict
<1>4. QED
  BY <1>2, <1>3 DEF Idle, IsCall, Ops, Narrow

\* A call that ends and that wrote.
LEMMA ReturnTyped ==
  ASSUME TInv, NEW c \in Calls, Return(c),
         Tables', told' \subseteq Packages, closing' \subseteq Shipments,
         bought' = bought, faults' = faults, adrift' \subseteq Names,
         \A k \in Containers, p \in Packages :
           item'[<<k, p>>].active \in Nat /\ item'[<<k, p>>].active <= item[<<k, p>>].active
  PROVE  TInv'
BY IdleTyped, WriteTyped DEF Return

\* Names go adrift, and nothing else does.
LEMMA AdriftTyped ==
  ASSUME TypeOK, NEW c, NEW ps \in SUBSET Packages, NEW xs \in SUBSET Names
  PROVE  /\ Wrote(c, xs) => adrift' \subseteq Names
         /\ Moved(c, ps, xs) => adrift' \subseteq Names
BY DEF TypeOK, Wrote, Moved, Names

\* Statuses that are set are statuses.
LEMMA StatusTyped ==
  ASSUME TypeOK, NEW ps, NEW status \in PackageStatus, SetStatus(ps, status)
  PROVE  pkg' \in [Packages -> PackageStatus]
BY DEF TypeOK, SetStatus

\* Items that are taken out, failed or active.
LEMMA ItemRowsTyped ==
  ASSUME NEW r \in ItemRows
  PROVE  /\ Inactive(r) \in ItemRows /\ Inactive(r).active = 0
         /\ FailInactive(r) \in ItemRows /\ FailInactive(r).active = r.active
<1>1. Cardinality(Calls) \in Nat
  BY FreightConstants, FS_CardinalityType
<1>2. 0 \in 0..Cardinality(Calls)
  BY <1>1
<1>3. r = [active |-> r.active, failed |-> r.failed, past |-> r.past]
      /\ r.active \in 0..Cardinality(Calls) /\ r.failed \in BOOLEAN /\ r.past \in BOOLEAN
  BY DEF ItemRows
<1>4. DEFINE gone == r.past \/ r.failed
             ever == r.past \/ r.failed \/ r.active > 0
<1>5. gone \in BOOLEAN /\ ever \in BOOLEAN
  OBVIOUS
<1>6. FailInactive(r) = [r EXCEPT !.failed = FALSE, !.past = gone]
  BY DEF FailInactive
<1>7. Inactive(r) = [active |-> 0, failed |-> FALSE, past |-> ever]
  BY DEF Inactive
<1> HIDE DEF gone, ever
<1>8. FailInactive(r) = [active |-> r.active, failed |-> FALSE, past |-> gone]
  BY <1>3, <1>6
<1>9. QED
  BY <1>2, <1>3, <1>5, <1>7, <1>8 DEF ItemRows

\* A scan adds one item, and is one scan less under way.
LEMMA ScanTyped ==
  ASSUME TInv, NEW c \in Calls, SaveContainerAndPackage(c)
  PROVE  TInv'
<1>1. PICK k \in DOMAIN call[c].seen.con, p \in DOMAIN call[c].seen.pkg :
       /\ SetStatus({p}, "InContainer")
       /\ item' = [kp \in Containers \X Packages |->
                     IF kp[2] # p THEN item[kp]
                     ELSE IF kp[1] # k THEN FailInactive(item[kp])
                     ELSE [FailInactive(item[kp]) EXCEPT !.active = @ + 1]]
       /\ Wrote(c, {p})
  BY DEF SaveContainerAndPackage
<1>2. k \in Containers /\ p \in Packages
  BY SeenTyped DEF TInv
<1>3. /\ con' = con /\ shp' = shp /\ told' = told /\ closing' = closing /\ bought' = bought
      /\ faults' = faults /\ call' = [call EXCEPT ![c] = Idle] /\ call[c].op = "append"
  BY DEF SaveContainerAndPackage, Return
<1>4. /\ CallsTyped' /\ call'[c] = Idle
      /\ \A d \in Calls : d # c => call'[d] = call[d]
  BY <1>3, IdleTyped, CallGoesOn DEF TInv
<1>5. Cardinality(Calls) \in Nat
  BY FreightConstants, FS_CardinalityType
<1>6. item[<<k, p>>].active + 1 <= Cardinality(Calls)
  <2>1. c \in Appending(k, p) /\ Appending(k, p) \in SUBSET Calls
    BY <1>3 DEF Appending
  <2>2. IsFiniteSet(Appending(k, p)) /\ Cardinality(Appending(k, p)) \in Nat
    BY <2>1, CallsFinite
  <2>3. Cardinality(Appending(k, p)) # 0
    BY <2>1, <2>2, FS_EmptySet
  <2>4. item[<<k, p>>].active + Cardinality(Appending(k, p)) <= Cardinality(Calls)
    BY <1>2 DEF TInv, Scans
  <2>5. item[<<k, p>>].active \in Nat
    BY <1>2, ItemCounted DEF TInv
  <2>6. QED
    BY <1>5, <2>2, <2>3, <2>4, <2>5
<1>7. \A l \in Containers, q \in Packages :
        /\ q # p => item'[<<l, q>>] = item[<<l, q>>]
        /\ q = p /\ l # k => item'[<<l, q>>] = FailInactive(item[<<l, q>>])
        /\ q = p /\ l = k => item'[<<l, q>>] = [FailInactive(item[<<l, q>>]) EXCEPT !.active = @ + 1]
  BY <1>1
<1>8. ASSUME NEW l \in Containers, NEW q \in Packages
      PROVE  /\ item'[<<l, q>>] \in ItemRows
             /\ item'[<<l, q>>].active =
                  IF l = k /\ q = p THEN item[<<l, q>>].active + 1 ELSE item[<<l, q>>].active
  <2>1. item[<<l, q>>] \in ItemRows /\ item[<<l, q>>].active \in Nat
    BY ItemCounted DEF TInv, TypeOK
  <2>2. /\ FailInactive(item[<<l, q>>]) \in ItemRows
        /\ FailInactive(item[<<l, q>>]).active = item[<<l, q>>].active
    BY <2>1, ItemRowsTyped
  <2>3. CASE l = k /\ q = p
    <3>1. DEFINE r == FailInactive(item[<<l, q>>])
    <3>2. r \in ItemRows /\ r.active = item[<<k, p>>].active
      BY <2>2, <2>3
    <3>3. item'[<<l, q>>] = [r EXCEPT !.active = r.active + 1]
      BY <1>7, <2>3
    <3> HIDE DEF r
    <3>4. r = [active |-> r.active, failed |-> r.failed, past |-> r.past]
          /\ r.failed \in BOOLEAN /\ r.past \in BOOLEAN
      BY <3>2 DEF ItemRows
    <3>5. r.active + 1 \in 0..Cardinality(Calls)
      BY <1>5, <1>6, <2>1, <2>3, <3>2
    <3>6. item'[<<l, q>>] = [active |-> r.active + 1, failed |-> r.failed, past |-> r.past]
      BY <3>3, <3>4
    <3>7. QED
      BY <2>3, <3>2, <3>4, <3>5, <3>6 DEF ItemRows
  <2>4. CASE q = p /\ l # k
    BY <1>7, <2>2, <2>4
  <2>5. CASE q # p
    BY <1>7, <2>1, <2>5
  <2>6. QED
    BY <2>3, <2>4, <2>5
<1>9. item' \in [Containers \X Packages -> ItemRows]
  <2>1. item' = [kp \in Containers \X Packages |-> item'[kp]]
    BY <1>1
  <2>2. \A kp \in Containers \X Packages : item'[kp] \in ItemRows
    BY <1>8
  <2>3. QED
    BY <2>1, <2>2
<1>10. Tables'
  <2>1. pkg' \in [Packages -> PackageStatus]
    BY <1>1, StatusTyped DEF TInv, PackageStatus, Scanned, Tracked
  <2>2. QED
    BY <1>3, <1>9, <2>1 DEF TInv, TypeOK, Tables
<1>11. Scans'
  <2>1. SUFFICES ASSUME NEW l \in Containers, NEW q \in Packages
                 PROVE  item'[<<l, q>>].active + Cardinality(Appending(l, q)') <= Cardinality(Calls)
    BY DEF Scans
  <2>2. Appending(l, q)' = Appending(l, q) \ {c}
    BY <1>4 DEF Appending, Idle
  <2>3. /\ IsFiniteSet(Appending(l, q)) /\ Cardinality(Appending(l, q)) \in Nat
        /\ item[<<l, q>>].active \in Nat
        /\ item[<<l, q>>].active + Cardinality(Appending(l, q)) <= Cardinality(Calls)
    <3>1. Appending(l, q) \in SUBSET Calls
      BY DEF Appending
    <3>2. QED
      BY <3>1, CallsFinite, ItemCounted DEF TInv, Scans
  <2>4. Cardinality(Appending(l, q)') =
          IF c \in Appending(l, q) THEN Cardinality(Appending(l, q)) - 1
          ELSE Cardinality(Appending(l, q))
    BY <2>2, <2>3, FS_RemoveElement
  <2>5. l = k /\ q = p => c \in Appending(l, q)
    BY <1>3 DEF Appending
  <2>6. item'[<<l, q>>].active =
          IF l = k /\ q = p THEN item[<<l, q>>].active + 1 ELSE item[<<l, q>>].active
    BY <1>8
  <2>7. QED
    BY <1>5, <2>3, <2>4, <2>5, <2>6
<1>12. Saved'
  BY <1>3, IdleTyped, CountsStay
<1>13. adrift' \subseteq Names
  BY <1>1, <1>2, AdriftTyped DEF TInv, Names
<1>14. told' \subseteq Packages /\ closing' \subseteq Shipments
       /\ bought' \in [Shipments -> 0..MaxLabels] /\ faults' \in 0..MaxFaults
  BY <1>3 DEF TInv, TypeOK
<1>15. QED
  BY <1>3, <1>10, <1>11, <1>12, <1>13, <1>14, IdleTyped, StepTyped

\* A failed scan leaves its row.
LEMMA MisfitTyped ==
  ASSUME TInv, NEW c \in Calls, SaveFailPackageContainer(c)
  PROVE  TInv'
<1>1. PICK kp \in (DOMAIN call[c].seen.con) \X (DOMAIN call[c].seen.pkg) :
        item' = [item EXCEPT ![kp].failed = TRUE, ![kp].past = @ \/ item[kp].failed]
  BY DEF SaveFailPackageContainer
<1>2. kp \in Containers \X Packages
  BY SeenTyped DEF TInv
<1>3. DEFINE gone == item[kp].past \/ item[kp].failed
             r == [active |-> item[kp].active, failed |-> TRUE, past |-> gone]
<1>4. gone \in BOOLEAN
  OBVIOUS
<1>5. item \in [Containers \X Packages -> ItemRows]
  BY DEF TInv, TypeOK
<1>6. item[kp] \in ItemRows
        /\ item[kp] = [active |-> item[kp].active, failed |-> item[kp].failed, past |-> item[kp].past]
  BY <1>2, <1>5 DEF ItemRows
<1>7. item' = [item EXCEPT ![kp] = r]
  <2>1. item' = [item EXCEPT ![kp].failed = TRUE, ![kp].past = gone]
    BY <1>1, <1>2, <1>5, <1>6
  <2> HIDE DEF gone
  <2>2. /\ item' = [x \in Containers \X Packages |-> item'[x]]
        /\ \A x \in Containers \X Packages : x # kp => item'[x] = item[x]
    BY <1>2, <1>5, <2>1
  <2>3. item'[kp] = [[item[kp] EXCEPT !.failed = TRUE] EXCEPT !.past = gone]
    BY <1>2, <1>5, <2>1
  <2>4. item'[kp] = r
    BY <1>6, <2>3
  <2> HIDE DEF r
  <2>5. QED
    BY <1>2, <1>5, <2>2, <2>4
<1>8. r \in ItemRows /\ r.active = item[kp].active
  <2>1. HIDE DEF gone
  <2>2. QED
    BY <1>4, <1>6 DEF ItemRows
<1> HIDE DEF r
<1>9. item' \in [Containers \X Packages -> ItemRows]
  BY <1>5, <1>7, <1>8
<1>10. ASSUME NEW l \in Containers, NEW q \in Packages
       PROVE  item'[<<l, q>>].active \in Nat /\ item'[<<l, q>>].active <= item[<<l, q>>].active
  <2>1. item'[<<l, q>>].active = item[<<l, q>>].active
    BY <1>5, <1>7, <1>8
  <2>2. item[<<l, q>>].active \in Nat
    BY ItemCounted DEF TInv
  <2>3. QED
    BY <2>1, <2>2
<1>11. Tables'
  BY <1>9 DEF SaveFailPackageContainer, TInv, TypeOK, Tables
<1>12. /\ told' \subseteq Packages /\ closing' \subseteq Shipments /\ adrift' \subseteq Names
       /\ bought' = bought /\ faults' = faults /\ Return(c)
  BY DEF SaveFailPackageContainer, TInv, TypeOK, Names
<1>13. QED
  BY <1>10, <1>11, <1>12, ReturnTyped

\* The items of a removal are taken out.
LEMMA RemovalTyped ==
  ASSUME TInv, NEW c \in Calls, CancelPackagesInContainer(c)
  PROVE  TInv'
<1>1. DEFINE rows == call[c].seen.item
             taken == {kp[2] : kp \in DOMAIN rows}
<1>2. /\ SetStatus(Active(rows), "Labeled")
      /\ item' = [kp \in Containers \X Packages |->
                   IF kp \in DOMAIN rows THEN Inactive(item[kp]) ELSE item[kp]]
      /\ Moved(c, Active(rows), taken)
      /\ Return(c) /\ con' = con /\ shp' = shp /\ told' = told /\ closing' = closing
      /\ bought' = bought /\ faults' = faults
  BY DEF CancelPackagesInContainer
<1>3. Active(rows) \in SUBSET Packages /\ taken \in SUBSET Names
  <2>1. DOMAIN rows \subseteq Containers \X Packages /\ Active(rows) \subseteq Packages
    BY SeenTyped DEF TInv
  <2>2. taken \subseteq Packages
    BY <2>1
  <2>3. QED
    BY <2>1, <2>2 DEF Names
<1> HIDE DEF rows, taken
<1>4. adrift' \subseteq Names
  BY <1>2, <1>3, AdriftTyped DEF TInv
<1>5. ASSUME NEW kp \in Containers \X Packages
      PROVE  item'[kp] \in ItemRows /\ (item'[kp].active = 0 \/ item'[kp] = item[kp])
  <2>1. item[kp] \in ItemRows
    BY DEF TInv, TypeOK
  <2>2. item'[kp] = Inactive(item[kp]) \/ item'[kp] = item[kp]
    BY <1>2
  <2>3. QED
    BY <2>1, <2>2, ItemRowsTyped
<1>6. item' \in [Containers \X Packages -> ItemRows]
  BY <1>2, <1>5
<1>7. ASSUME NEW l \in Containers, NEW q \in Packages
      PROVE  item'[<<l, q>>].active \in Nat /\ item'[<<l, q>>].active <= item[<<l, q>>].active
  <2>1. item[<<l, q>>].active \in Nat
    BY ItemCounted DEF TInv
  <2>2. item'[<<l, q>>].active = 0 \/ item'[<<l, q>>] = item[<<l, q>>]
    BY <1>5
  <2>3. QED
    BY <2>1, <2>2
<1>8. Tables'
  <2>1. pkg' \in [Packages -> PackageStatus]
    BY <1>2, StatusTyped DEF TInv, PackageStatus, Scanned
  <2>2. QED
    BY <1>2, <1>6, <2>1 DEF TInv, TypeOK, Tables
<1>9. told' \subseteq Packages /\ closing' \subseteq Shipments
  BY <1>2 DEF TInv, TypeOK
<1>10. QED
  BY <1>2, <1>4, <1>7, <1>8, <1>9, ReturnTyped

\* A row of a container that gets another status or another shipment.
LEMMA ContainerRowTyped ==
  ASSUME NEW r \in ContainerRow
  PROVE  /\ \A status \in {"WaitingClose", "Closed", "Cancelled", "Intransit"} :
              /\ [r EXCEPT !.status = status] \in ContainerRow
              /\ [r EXCEPT !.status = status].ship = r.ship
              /\ [r EXCEPT !.status = status].status = status
         /\ \A s \in Shipments \cup {NoShipment} :
              /\ [r EXCEPT !.ship = s] \in ContainerRow
              /\ [r EXCEPT !.ship = s].ship = s
              /\ [r EXCEPT !.ship = s].status = r.status
<1>1. r = [status |-> r.status, ship |-> r.ship]
      /\ r.status \in {"WaitingClose", "Closed", "Cancelled", "Intransit"}
      /\ r.ship \in Shipments \cup {NoShipment}
  BY DEF ContainerRow
<1>2. \A status : [r EXCEPT !.status = status] = [status |-> status, ship |-> r.ship]
  BY <1>1
<1>3. \A s : [r EXCEPT !.ship = s] = [status |-> r.status, ship |-> s]
  BY <1>1
<1>4. QED
  BY <1>1, <1>2, <1>3 DEF ContainerRow

\* What SaveContainer makes of a row.
LEMMA NewStatusTyped ==
  ASSUME NEW op \in {"cancel", "open", "update"}, NEW r \in ContainerRow
  PROVE  NewStatus(op, r) \in ContainerRow /\ NewStatus(op, r).ship = r.ship
<1>1. CASE op = "cancel"
  BY <1>1, ContainerRowTyped DEF NewStatus
<1>2. CASE op = "open"
  BY <1>2, ContainerRowTyped DEF NewStatus
<1>3. CASE op = "update"
  BY <1>3 DEF NewStatus
<1>4. QED
  BY <1>1, <1>2, <1>3

\* The other handlers of containers that write.
LEMMA ContainerSaved ==
  ASSUME TInv, NEW c \in Calls, CloseContainer(c) \/ SaveContainer(c)
  PROVE  TInv'
<1>1. PICK k \in DOMAIN call[c].seen.con, r \in ContainerRow, xs \in SUBSET Names :
        con' = [con EXCEPT ![k] = r] /\ Wrote(c, xs)
  <2>1. CASE CloseContainer(c)
    <3>1. PICK k \in DOMAIN call[c].seen.con :
            con' = [con EXCEPT ![k].status = "Closed"] /\ Wrote(c, {k})
      BY <2>1 DEF CloseContainer
    <3>2. k \in Containers /\ con[k] \in ContainerRow
      BY SeenTyped DEF TInv, TypeOK
    <3>3. con' = [con EXCEPT ![k] = [con[k] EXCEPT !.status = "Closed"]]
      BY <3>1
    <3>4. [con[k] EXCEPT !.status = "Closed"] \in ContainerRow
      BY <3>2, ContainerRowTyped
    <3>5. {k} \in SUBSET Names
      BY <3>2 DEF Names
    <3>6. QED
      BY <3>1, <3>3, <3>4, <3>5
  <2>2. CASE SaveContainer(c)
    <3>1. DEFINE rows == call[c].seen.con
    <3>2. PICK k \in DOMAIN rows :
            /\ con' = [con EXCEPT ![k] = NewStatus(call[c].op, rows[k])]
            /\ Wrote(c, {k} \cup Ships(rows) \cup ({con[k].ship} \cap Shipments))
      BY <2>2 DEF SaveContainer
    <3>3. k \in Containers /\ rows[k] \in ContainerRow
      BY SeenTyped DEF TInv
    <3>4. NewStatus(call[c].op, rows[k]) \in ContainerRow
      BY <2>2, <3>3, NewStatusTyped DEF SaveContainer
    <3>5. {k} \cup Ships(rows) \cup ({con[k].ship} \cap Shipments) \in SUBSET Names
      BY <3>3 DEF Ships, Names
    <3>6. QED
      BY <3>2, <3>4, <3>5
  <2>3. QED
    BY <2>1, <2>2
<1>2. adrift' \subseteq Names
  BY <1>1, AdriftTyped DEF TInv
<1>3. /\ pkg' = pkg /\ item' = item /\ shp' = shp /\ told' = told /\ closing' = closing
      /\ bought' = bought /\ faults' = faults /\ Return(c)
  BY DEF CloseContainer, SaveContainer
<1>4. Tables'
  <2>1. con' \in [Containers -> ContainerRow]
    BY <1>1 DEF TInv, TypeOK
  <2>2. QED
    BY <1>3, <2>1 DEF TInv, TypeOK, Tables
<1>5. QED
  BY <1>2, <1>3, <1>4, ItemsStay, ReturnTyped DEF TInv, TypeOK

\* The handlers of containers.
LEMMA ContainerStepTyped ==
  ASSUME TInv, NEW c \in Calls, ContainerStep(c)
  PROVE  TInv'
<1> USE DEF Ops
<1>1. adrift \subseteq Names
  BY DEF TInv, TypeOK, Names
<1>2. ASSUME NEW k \in Containers, NEW p \in Packages, NEW fits \in BOOLEAN,
             Append(c, p, k, fits)
      PROVE  TInv'
  <2>1. PICK op \in {"append", "misfit"} :
          /\ Read(c, op, {p}, {k}, Containers \X {p}, {}) /\ adrift' = adrift
          /\ op = "append" => Homes(p) = {}
    BY <1>2 DEF Append
  <2>2. CASE op = "append"
    BY <2>1, <2>2, AppendTyped
  <2>3. CASE op = "misfit"
    <3>1. Containers \X {p} \in SUBSET (Containers \X Packages) /\ {p} \in SUBSET Packages
          /\ {k} \in SUBSET Containers /\ {} \in SUBSET Shipments
      OBVIOUS
    <3>2. QED
      BY <1>1, <2>1, <2>3, <3>1, ReadTyped
  <2>4. QED
    BY <2>1, <2>2, <2>3
<1>3. ASSUME NEW k \in Containers, NEW ps \in SUBSET Packages,
             NEW op \in {"remove", "close", "cancel", "open", "update"}, NEW is \in SUBSET ({k} \X Packages),
             Read(c, op, {}, {k}, is, {}), adrift' = adrift
      PROVE  TInv'
  <2>1. is \in SUBSET (Containers \X Packages) /\ {} \in SUBSET Packages
        /\ {k} \in SUBSET Containers /\ {} \in SUBSET Shipments
    OBVIOUS
  <2>2. QED
    BY <1>1, <1>3, <2>1, ReadTyped
<1>4. ASSUME NEW k \in Containers, NEW ps \in SUBSET Packages, Remove(c, ps, k)
      PROVE  TInv'
  <2>1. {k} \X ps \in SUBSET ({k} \X Packages)
    OBVIOUS
  <2>2. QED
    BY <1>3, <1>4, <2>1 DEF Remove
<1>5. ASSUME NEW k \in Containers, Close(c, k) \/ Cancel(c, k) \/ Open(c, k) \/ Update(c, k)
      PROVE  TInv'
  <2>1. {k} \X Packages \in SUBSET ({k} \X Packages) /\ {} \in SUBSET ({k} \X Packages)
    OBVIOUS
  <2>2. CASE Close(c, k) \/ Cancel(c, k)
    BY <1>3, <2>1, <2>2 DEF Close, Cancel
  <2>3. CASE Open(c, k) \/ Update(c, k)
    BY <1>3, <2>1, <2>3 DEF Open, Update
  <2>4. QED
    BY <1>5, <2>2, <2>3
<1>6. CASE SaveContainerAndPackage(c)
  BY <1>6, ScanTyped
<1>7. CASE SaveFailPackageContainer(c)
  BY <1>7, MisfitTyped
<1>8. CASE CancelPackagesInContainer(c)
  BY <1>8, RemovalTyped
<1>9. CASE CloseContainer(c) \/ SaveContainer(c)
  BY <1>9, ContainerSaved
<1>10. QED
  BY <1>2, <1>4, <1>5, <1>6, <1>7, <1>8, <1>9 DEF ContainerStep

\* A row of a shipment that gets another status or quantity.
LEMMA ShipmentRowTyped ==
  ASSUME NEW r \in ShipmentRow
  PROVE  /\ \A status \in {"WaitingClose", "Closed", "Canceled", "Intransit"} :
              /\ [r EXCEPT !.status = status] \in ShipmentRow
              /\ [r EXCEPT !.status = status].status = status
              /\ [r EXCEPT !.status = status].quantity = r.quantity
         /\ \A n \in -MaxQuantity..MaxQuantity :
              /\ [r EXCEPT !.quantity = n] \in ShipmentRow
              /\ [r EXCEPT !.quantity = n].status = r.status
              /\ [r EXCEPT !.quantity = n].quantity = n
<1>1. r = [status |-> r.status, quantity |-> r.quantity]
      /\ r.status \in {"WaitingClose", "Closed", "Canceled", "Intransit"}
      /\ r.quantity \in -MaxQuantity..MaxQuantity
  BY DEF ShipmentRow
<1>2. \A status : [r EXCEPT !.status = status] = [status |-> status, quantity |-> r.quantity]
  BY <1>1
<1>3. \A n : [r EXCEPT !.quantity = n] = [status |-> r.status, quantity |-> n]
  BY <1>1
<1>4. QED
  BY <1>1, <1>2, <1>3 DEF ShipmentRow

\* A cancelled shipment.
LEMMA ShipmentSaved ==
  ASSUME TInv, NEW c \in Calls, SaveShipment(c)
  PROVE  TInv'
<1>1. DEFINE rows == call[c].seen.shp
<1>2. PICK s \in DOMAIN rows :
        /\ shp' = [shp EXCEPT ![s] = [rows[s] EXCEPT !.status = "Canceled"]]
        /\ Wrote(c, {s})
  BY DEF SaveShipment
<1>3. s \in Shipments /\ [rows[s] EXCEPT !.status = "Canceled"] \in ShipmentRow
  BY SeenTyped, ShipmentRowTyped DEF TInv
<1>4. {s} \in SUBSET Names
  BY <1>3 DEF Names
<1>5. adrift' \subseteq Names
  BY <1>2, <1>4, AdriftTyped DEF TInv
<1>6. /\ pkg' = pkg /\ item' = item /\ con' = con /\ told' = told /\ closing' = closing
      /\ bought' = bought /\ faults' = faults /\ Return(c)
  BY DEF SaveShipment
<1>7. Tables'
  <2>1. shp' \in [Shipments -> ShipmentRow]
    BY <1>2, <1>3 DEF TInv, TypeOK
  <2>2. QED
    BY <1>6, <2>1 DEF TInv, TypeOK, Tables
<1>8. QED
  BY <1>5, <1>6, <1>7, ItemsStay, ReturnTyped DEF TInv, TypeOK

\* A container goes into a shipment, or out of it.
LEMMA LoadedTyped ==
  ASSUME TInv, NEW c \in Calls, AppendContainerShipment(c) \/ RemoveContainerShipment(c)
  PROVE  TInv'
<1>1. DEFINE v == call[c].seen
<1>2. PICK k \in DOMAIN v.con, s \in DOMAIN v.shp, l \in Shipments \cup {NoShipment},
           n \in -MaxQuantity..MaxQuantity, ps \in SUBSET Packages,
           status \in {"InShipment", "InContainer"} :
        /\ con' = [con EXCEPT ![k] = [v.con[k] EXCEPT !.ship = l]]
        /\ shp' = [shp EXCEPT ![s] = [v.shp[s] EXCEPT !.quantity = n]]
        /\ SetStatus(ps, status)
        /\ adrift' \subseteq Names
  <2>1. \A k \in DOMAIN v.con, s \in DOMAIN v.shp :
          /\ k \in Containers /\ s \in Shipments
          /\ v.shp[s].quantity \in -MaxQuantity..MaxQuantity
          /\ v.shp[s].quantity < MaxQuantity => v.shp[s].quantity + 1 \in -MaxQuantity..MaxQuantity
          /\ v.shp[s].quantity > -MaxQuantity => v.shp[s].quantity - 1 \in -MaxQuantity..MaxQuantity
    <3>1. SUFFICES ASSUME NEW k \in DOMAIN v.con, NEW s \in DOMAIN v.shp
                   PROVE  /\ k \in Containers /\ s \in Shipments
                          /\ v.shp[s].quantity \in -MaxQuantity..MaxQuantity
      BY FreightConstants
    <3>2. QED
      BY SeenTyped DEF TInv, ShipmentRow
  <2>2. CASE AppendContainerShipment(c)
    <3>1. PICK k \in DOMAIN v.con, s \in DOMAIN v.shp :
           LET ps == {p \in Packages : item[<<k, p>>].active > 0} IN
           /\ v.shp[s].quantity < MaxQuantity
           /\ con' = [con EXCEPT ![k] = [v.con[k] EXCEPT !.ship = s]]
           /\ shp' = [shp EXCEPT ![s] = [v.shp[s] EXCEPT !.quantity = v.shp[s].quantity + 1]]
           /\ SetStatus(ps, "InShipment")
           /\ Moved(c, ps, {k, s} \cup ({con[k].ship} \cap Shipments))
      BY <2>2 DEF AppendContainerShipment
    <3>2. DEFINE ps == {p \in Packages : item[<<k, p>>].active > 0}
    <3>3. ps \in SUBSET Packages /\ {k, s} \cup ({con[k].ship} \cap Shipments) \in SUBSET Names
      BY <2>1, <3>1 DEF Names
    <3>4. /\ Moved(c, ps, {k, s} \cup ({con[k].ship} \cap Shipments)) /\ SetStatus(ps, "InShipment")
          /\ v.shp[s].quantity + 1 \in -MaxQuantity..MaxQuantity /\ s \in Shipments
      BY <2>1, <3>1
    <3> HIDE DEF ps
    <3>5. adrift' \subseteq Names
      BY <3>3, <3>4, AdriftTyped DEF TInv
    <3>6. QED
      BY <3>1, <3>3, <3>4, <3>5
  <2>3. CASE RemoveContainerShipment(c)
    <3>1. PICK k \in DOMAIN v.con, s \in DOMAIN v.shp :
           LET ps == {p \in Packages : LET r == item[<<k, p>>] IN r.active > 0 \/ r.failed \/ r.past}
               elsewhere == {p \in ps : item[<<k, p>>].active = 0}
           IN
           /\ v.shp[s].quantity > -MaxQuantity
           /\ con' = [con EXCEPT ![k] = [v.con[k] EXCEPT !.ship = NoShipment]]
           /\ shp' = [shp EXCEPT ![s] = [v.shp[s] EXCEPT !.quantity = v.shp[s].quantity - 1]]
           /\ SetStatus(ps, "InContainer")
           /\ adrift' = adrift \cup elsewhere \cup (ps \cap told) \cup
                IF Stale(c) THEN {k, s} \cup ({con[k].ship} \cap Shipments) \cup ps ELSE {}
      BY <2>3 DEF RemoveContainerShipment
    <3>2. DEFINE ps == {p \in Packages : LET r == item[<<k, p>>] IN r.active > 0 \/ r.failed \/ r.past}
                 elsewhere == {p \in ps : item[<<k, p>>].active = 0}
    <3>3. ps \in SUBSET Packages /\ elsewhere \in SUBSET Packages
      OBVIOUS
    <3>4. /\ adrift' = adrift \cup elsewhere \cup (ps \cap told) \cup
                IF Stale(c) THEN {k, s} \cup ({con[k].ship} \cap Shipments) \cup ps ELSE {}
          /\ SetStatus(ps, "InContainer")
      BY <3>1
    <3> HIDE DEF ps, elsewhere
    <3>5. adrift' \subseteq Names
      BY <2>1, <3>3, <3>4 DEF TInv, TypeOK, Names
    <3>6. v.shp[s].quantity - 1 \in -MaxQuantity..MaxQuantity
      BY <2>1, <3>1
    <3>7. QED
      BY <3>1, <3>3, <3>4, <3>5, <3>6
  <2>4. QED
    BY <2>2, <2>3
<1>3. /\ k \in Containers /\ [v.con[k] EXCEPT !.ship = l] \in ContainerRow
      /\ s \in Shipments /\ [v.shp[s] EXCEPT !.quantity = n] \in ShipmentRow
  <2>1. k \in Containers /\ v.con[k] \in ContainerRow /\ s \in Shipments /\ v.shp[s] \in ShipmentRow
    BY SeenTyped DEF TInv
  <2>2. QED
    BY <2>1, ContainerRowTyped, ShipmentRowTyped
<1>4. /\ item' = item /\ told' = told /\ closing' = closing
      /\ bought' = bought /\ faults' = faults /\ Return(c)
  BY DEF AppendContainerShipment, RemoveContainerShipment
<1>5. Tables'
  <2>1. shp' \in [Shipments -> ShipmentRow]
    BY <1>2, <1>3 DEF TInv, TypeOK
  <2>2. con' \in [Containers -> ContainerRow]
    BY <1>2, <1>3 DEF TInv, TypeOK
  <2>3. pkg' \in [Packages -> PackageStatus]
    BY <1>2, StatusTyped DEF TInv, PackageStatus, Tracked
  <2>4. QED
    BY <1>4, <2>1, <2>2, <2>3 DEF TInv, TypeOK, Tables
<1>6. QED
  BY <1>2, <1>4, <1>5, ItemsStay, ReturnTyped DEF TInv, TypeOK

\* A call that goes on keeps what it has read.
LEMMA GotoIs ==
  ASSUME CallsTyped, NEW c \in Calls, NEW op, Goto(c, op)
  PROVE  /\ call' = [call EXCEPT ![c] = [op |-> op, seen |-> call[c].seen]]
         /\ IsCall([op |-> op, seen |-> call[c].seen])
<1>1. call[c] = [op |-> call[c].op, seen |-> call[c].seen]
  BY DEF CallsTyped, IsCall
<1>2. [call[c] EXCEPT !.op = op] = [op |-> op, seen |-> call[c].seen]
  BY <1>1
<1>3. call' = [call EXCEPT ![c] = [call[c] EXCEPT !.op = op]]
  BY DEF Goto
<1>4. QED
  BY <1>2, <1>3 DEF IsCall

\* A call that goes on and that wrote.
LEMMA GotoTyped ==
  ASSUME TInv, NEW c \in Calls, NEW op \in Ops \ {"append", "save"}, Goto(c, op),
         Tables', told' \subseteq Packages, closing' \subseteq Shipments,
         bought' = bought, faults' = faults, adrift' \subseteq Names, item' = item
  PROVE  TInv'
<1>1. DEFINE x == [op |-> op, seen |-> call[c].seen]
<1>2. call' = [call EXCEPT ![c] = x] /\ IsCall(x)
  BY GotoIs DEF TInv
<1>3. x.op \in Ops \ {"append", "save"} /\ IsView(x.seen) /\ Narrow(x.seen)
  BY DEF TInv, TypeOK
<1> HIDE DEF x
<1>4. QED
  BY <1>2, <1>3, ItemsStay, WriteTyped DEF TInv

\* The purchases for a shipment are at least the closings that have not saved theirs.
LEMMA SaversCounted ==
  ASSUME TInv, NEW s \in Shipments
  PROVE  /\ IsFiniteSet(Savers(s)) /\ Cardinality(Savers(s)) \in Nat
         /\ bought[s] \in Int /\ bought[s] <= MaxLabels /\ Cardinality(Savers(s)) <= bought[s]
<1>1. Savers(s) \in SUBSET Calls
  BY DEF Savers
<1>2. bought[s] \in 0..MaxLabels
  BY DEF TInv, TypeOK
<1>3. QED
  BY <1>1, <1>2, CallsFinite, FreightConstants DEF TInv, Saved

\* The labels are bought.
LEMMA PurchaseTyped ==
  ASSUME TInv, NEW c \in Calls, BuyLabels(c)
  PROVE  TInv'
<1>1. PICK s \in DOMAIN call[c].seen.shp :
        /\ Buys(c) => bought[s] < MaxLabels
        /\ bought' = IF Buys(c) THEN [bought EXCEPT ![s] = @ + 1] ELSE bought
  BY DEF BuyLabels
<1>2. DEFINE x == [op |-> "save", seen |-> call[c].seen]
<1>3. /\ call' = [call EXCEPT ![c] = x] /\ IsCall(x) /\ call[c].op = "buy"
      /\ x.op = "save" /\ x.seen = call[c].seen
  BY GotoIs DEF TInv, BuyLabels
<1>4. x.op \in Ops /\ IsView(x.seen) /\ Narrow(x.seen)
  BY DEF TInv, TypeOK, Ops
<1> HIDE DEF x
<1>5. call'[c] = x /\ \A d \in Calls : d # c => call'[d] = call[d]
  BY <1>3, CallGoesOn DEF TInv
<1>6. /\ pkg' = pkg /\ item' = item /\ con' = con /\ shp' = shp /\ told' = told
      /\ closing' = closing /\ faults' = faults /\ adrift' = adrift
  BY DEF BuyLabels, db
<1>7. Tables' /\ told' \subseteq Packages /\ closing' \subseteq Shipments
      /\ faults' \in 0..MaxFaults /\ adrift' \subseteq Names
  BY <1>6 DEF TInv, TypeOK, Tables, Names
<1>8. Scans'
  BY <1>3, <1>6, ItemsStay, CountsStay DEF TInv
<1>9. bought' \in [Shipments -> 0..MaxLabels]
  <2>1. s \in Shipments /\ bought[s] \in 0..MaxLabels
    BY SeenTyped DEF TInv, TypeOK
  <2>2. Buys(c) => bought[s] + 1 \in 0..MaxLabels
    BY <1>1, <2>1, FreightConstants
  <2>3. QED
    BY <1>1, <2>1, <2>2 DEF TInv, TypeOK
<1>10. ASSUME NEW t \in Shipments
       PROVE  Cardinality(Savers(t)') <= bought'[t]
  <2>1. /\ IsFiniteSet(Savers(t)) /\ Cardinality(Savers(t)) \in Nat
        /\ bought[t] \in Int /\ Cardinality(Savers(t)) <= bought[t]
    BY SaversCounted
  <2>2. Savers(t)' = IF Buys(c) /\ t \in DOMAIN call[c].seen.shp THEN Savers(t) \cup {c} ELSE Savers(t)
    BY <1>3, <1>5 DEF Savers, Buys
  <2>3. c \notin Savers(t)
    BY <1>3 DEF Savers
  <2>4. Cardinality(Savers(t) \cup {c}) = Cardinality(Savers(t)) + 1
    BY <2>1, <2>3, FS_AddElement
  <2>5. CASE Buys(c) /\ t = s
    <3>1. bought'[t] = bought[t] + 1
      BY <1>1, <2>5 DEF TInv, TypeOK
    <3>2. QED
      BY <2>1, <2>2, <2>4, <2>5, <3>1
  <2>6. CASE Buys(c) /\ t # s
    <3>1. t \notin DOMAIN call[c].seen.shp
      BY <2>6 DEF TInv, Narrow
    <3>2. bought'[t] = bought[t]
      BY <1>1, <2>6 DEF TInv, TypeOK
    <3>3. QED
      BY <2>1, <2>2, <3>1, <3>2
  <2>7. CASE ~Buys(c)
    BY <1>1, <2>1, <2>2, <2>7
  <2>8. QED
    BY <2>5, <2>6, <2>7
<1>11. QED
  BY <1>3, <1>4, <1>7, <1>8, <1>9, <1>10, StepTyped DEF Saved

\* What is lost of a purchase is what was counted of it.
LEMMA LossTyped ==
  ASSUME TInv, NEW cs \in SUBSET Calls, Lose(cs)
  PROVE  /\ bought' \in [Shipments -> 0..MaxLabels]
         /\ \A s \in Shipments : bought'[s] = bought[s] - Cardinality(Savers(s) \cap cs)
<1>1. \A s \in Shipments :
        Savers(s) \cap cs
          = {c \in cs : call[c].op = "save" /\ Buys(c) /\ s \in DOMAIN call[c].seen.shp}
  BY DEF Savers
<1>2. bought' = [s \in Shipments |-> bought[s] - Cardinality(Savers(s) \cap cs)]
  BY <1>1 DEF Lose
<1>3. ASSUME NEW s \in Shipments
      PROVE  bought[s] - Cardinality(Savers(s) \cap cs) \in 0..MaxLabels
  <2>1. Savers(s) \cap cs \in SUBSET Savers(s) /\ Savers(s) \in SUBSET Calls
    BY DEF Savers
  <2>2. Cardinality(Savers(s) \cap cs) <= Cardinality(Savers(s))
        /\ Cardinality(Savers(s) \cap cs) \in Nat
    BY <2>1, CallsFinite
  <2>3. QED
    BY <2>2, SaversCounted, FreightConstants
<1>4. QED
  BY <1>2, <1>3

\* A closing fails after the purchase.
LEMMA FailureTyped ==
  ASSUME TInv, NEW c \in Calls, CloseFails(c)
  PROVE  TInv'
<1>1. DEFINE x == [op |-> "unmark", seen |-> call[c].seen]
<1>2. /\ call' = [call EXCEPT ![c] = x] /\ IsCall(x) /\ x.op = "unmark" /\ x.seen = call[c].seen
  BY GotoIs DEF TInv, CloseFails
<1>3. x.op \in Ops /\ IsView(x.seen) /\ Narrow(x.seen)
  BY DEF TInv, TypeOK, Ops
<1> HIDE DEF x
<1>4. call'[c] = x /\ \A d \in Calls : d # c => call'[d] = call[d]
  BY <1>2, CallGoesOn DEF TInv
<1>5. /\ pkg' = pkg /\ item' = item /\ con' = con /\ shp' = shp /\ told' = told
      /\ closing' = closing /\ faults' = faults /\ adrift' = adrift
  BY DEF CloseFails, db
<1>6. Tables' /\ told' \subseteq Packages /\ closing' \subseteq Shipments
      /\ faults' \in 0..MaxFaults /\ adrift' \subseteq Names
  BY <1>5 DEF TInv, TypeOK, Tables, Names
<1>7. Scans'
  BY <1>2, <1>5, ItemsStay, CountsStay DEF TInv
<1>8. /\ bought' \in [Shipments -> 0..MaxLabels]
      /\ \A s \in Shipments : bought'[s] = bought[s] - Cardinality(Savers(s) \cap {c})
  BY LossTyped DEF CloseFails
<1>9. ASSUME NEW s \in Shipments
      PROVE  Cardinality(Savers(s)') <= bought'[s]
  <2>1. Savers(s)' = Savers(s) \ (Savers(s) \cap {c})
    BY <1>2, <1>4 DEF Savers, Buys
  <2>2. Cardinality(Savers(s)') = Cardinality(Savers(s)) - Cardinality(Savers(s) \cap {c})
        /\ Cardinality(Savers(s) \cap {c}) \in Nat
    <3>1. IsFiniteSet(Savers(s))
      BY SaversCounted
    <3>2. Savers(s)' = Savers(s) \ {c}
      BY <2>1
    <3>3. CASE c \in Savers(s)
      <4>1. Savers(s) \cap {c} = {c}
        BY <3>3
      <4>2. Cardinality(Savers(s) \ {c}) = Cardinality(Savers(s)) - 1
        BY <3>1, <3>3, FS_RemoveElement
      <4>3. Cardinality(Savers(s) \cap {c}) = 1
        BY <4>1, FS_Singleton
      <4>4. Cardinality(Savers(s)') = Cardinality(Savers(s)) - 1
        BY <3>2, <4>2
      <4>5. QED
        BY <4>3, <4>4
    <3>4. CASE c \notin Savers(s)
      <4>1. Savers(s) \cap {c} = {} /\ Savers(s)' = Savers(s)
        BY <2>1, <3>4
      <4>2. QED
        BY <3>1, <4>1, FS_EmptySet, SaversCounted
    <3>5. QED
      BY <3>3, <3>4
  <2>3. QED
    BY <1>8, <2>2, SaversCounted
<1>10. QED
  BY <1>2, <1>3, <1>6, <1>7, <1>8, <1>9, StepTyped DEF Saved

\* The closing sets and removes its mark.
LEMMA MarkTyped ==
  ASSUME TInv, NEW c \in Calls, SIsMember(c) \/ SAdd(c) \/ Refused(c) \/ SRem(c)
  PROVE  TInv'
<1>1. /\ pkg' = pkg /\ item' = item /\ con' = con /\ shp' = shp /\ told' = told
      /\ bought' = bought /\ faults' = faults /\ adrift' = adrift
  BY DEF SIsMember, SAdd, Refused, SRem, db
<1>2. Tables' /\ told' \subseteq Packages /\ adrift' \subseteq Names
  BY <1>1 DEF TInv, TypeOK, Tables, Names
<1>3. closing' \subseteq Shipments
  <2>1. DOMAIN call[c].seen.shp \subseteq Shipments
    BY SeenTyped DEF TInv
  <2>2. QED
    BY <2>1 DEF SIsMember, SAdd, Refused, SRem, TInv, TypeOK
<1>4. Return(c) \/ \E op \in {"add", "buy", "unmark"} : Goto(c, op)
  BY DEF SIsMember, SAdd, Refused, SRem
<1>5. CASE Return(c)
  BY <1>1, <1>2, <1>3, <1>5, ItemsStay, ReturnTyped DEF TInv
<1>6. ASSUME NEW op \in {"add", "buy", "unmark"}, Goto(c, op)
      PROVE  TInv'
  <2>1. op \in Ops \ {"append", "save"}
    BY DEF Ops
  <2>2. QED
    BY <1>1, <1>2, <1>3, <1>6, <2>1, GotoTyped
<1>7. QED
  BY <1>4, <1>5, <1>6

\* A shipment is closed or sent, with its containers and their packages.
LEMMA SendingTyped ==
  ASSUME TInv, NEW c \in Calls, CloseShipment(c) \/ IntransitShipment(c)
  PROVE  TInv'
<1>1. DEFINE v == call[c].seen
             xs(s) == {s} \cup DOMAIN v.con \cup Ships(Restrict(con, DOMAIN v.con))
<1>2. PICK s \in DOMAIN v.shp, sent \in {"Closed", "Intransit"}, status \in {"Export", "InTransit"} :
        /\ shp' = [shp EXCEPT ![s] = [v.shp[s] EXCEPT !.status = sent]]
        /\ \/ con' = [k \in Containers |-> IF k \in DOMAIN v.con \cap Carried THEN v.con[k] ELSE con[k]]
           \/ con' = [k \in Containers |-> IF k \in DOMAIN v.con
                                           THEN [v.con[k] EXCEPT !.status = "Intransit"] ELSE con[k]]
        /\ SetStatus(Active(v.item), status)
        /\ Moved(c, Active(v.item), xs(s))
  BY DEF CloseShipment, IntransitShipment
<1>3. /\ Active(v.item) \in SUBSET Packages /\ xs(s) \in SUBSET Names
      /\ s \in Shipments /\ v.shp[s] \in ShipmentRow
      /\ \A k \in DOMAIN v.con : v.con[k] \in ContainerRow
  <2>1. DOMAIN v.con \subseteq Containers /\ s \in Shipments
    BY SeenTyped DEF TInv
  <2>2. xs(s) \in SUBSET Names
    BY <2>1 DEF Names, Ships
  <2>3. QED
    BY <2>2, SeenTyped DEF TInv
<1>4. [v.shp[s] EXCEPT !.status = sent] \in ShipmentRow
  BY <1>3, ShipmentRowTyped
<1>5. \A k \in DOMAIN v.con : [v.con[k] EXCEPT !.status = "Intransit"] \in ContainerRow
  BY <1>3, ContainerRowTyped
<1>6. adrift' \subseteq Names
  <2>1. HIDE DEF v, xs
  <2>2. QED
    BY <1>2, <1>3, AdriftTyped DEF TInv
<1>7. /\ item' = item /\ told' = told /\ closing' = closing
      /\ bought' = bought /\ faults' = faults
      /\ Return(c) \/ Goto(c, "unmark")
  BY DEF CloseShipment, IntransitShipment
<1>8. Tables'
  <2>1. shp' \in [Shipments -> ShipmentRow]
    BY <1>2, <1>4 DEF TInv, TypeOK
  <2>2. con' \in [Containers -> ContainerRow]
    <3>1. ASSUME NEW k \in Containers
          PROVE  con'[k] \in ContainerRow
      <4>1. con[k] \in ContainerRow
        BY DEF TInv, TypeOK
      <4>2. \/ con'[k] = con[k]
            \/ k \in DOMAIN v.con /\ con'[k] = v.con[k]
            \/ k \in DOMAIN v.con /\ con'[k] = [v.con[k] EXCEPT !.status = "Intransit"]
        BY <1>2
      <4>3. QED
        BY <1>3, <1>5, <4>1, <4>2
    <3>2. con' = [k \in Containers |-> con'[k]]
      BY <1>2
    <3>3. QED
      BY <3>1, <3>2
  <2>3. pkg' \in [Packages -> PackageStatus]
    BY <1>2, StatusTyped DEF TInv, PackageStatus, Tracked
  <2>4. QED
    BY <1>7, <2>1, <2>2, <2>3 DEF TInv, TypeOK, Tables
<1>9. told' \subseteq Packages /\ closing' \subseteq Shipments
  BY <1>7 DEF TInv, TypeOK
<1>10. CASE Return(c)
  BY <1>6, <1>7, <1>8, <1>9, <1>10, ItemsStay, ReturnTyped DEF TInv
<1>11. CASE Goto(c, "unmark")
  <2>1. "unmark" \in Ops \ {"append", "save"}
    BY DEF Ops
  <2>2. QED
    BY <1>6, <1>7, <1>8, <1>9, <1>11, <2>1, GotoTyped
<1>12. QED
  BY <1>7, <1>10, <1>11

\* The handlers of shipments.
LEMMA ShipmentStepTyped ==
  ASSUME TInv, NEW c \in Calls, ShipmentStep(c)
  PROVE  TInv'
<1>1. adrift \subseteq Names /\ \A s \in Shipments : Loaded(s) \in SUBSET Containers
  BY DEF TInv, TypeOK, Names, Loaded
<1>2. ASSUME NEW op \in {"cancelShipment", "load", "unload", "test", "intransit"},
             NEW ks \in SUBSET Containers, NEW s \in Shipments,
             NEW is \in SUBSET (Containers \X Packages),
             Read(c, op, {}, ks, is, {s}), adrift' \subseteq Names
      PROVE  TInv'
  <2>1. op \in Ops /\ op # "append" /\ op # "save" /\ {} \in SUBSET Packages
        /\ {s} \in SUBSET Shipments /\ \A x, y \in {s} : x = y
    BY DEF Ops
  <2>2. QED
    BY <1>2, <2>1, ReadTyped
<1>3. ASSUME NEW s \in Shipments, CancelShipment(c, s)
      PROVE  TInv'
  BY <1>1, <1>2, <1>3 DEF CancelShipment
<1>4. ASSUME NEW s \in Shipments, NEW k \in Containers, Load(c, k, s) \/ Unload(c, k, s)
      PROVE  TInv'
  <2>1. {k} \in SUBSET Containers /\ {} \in SUBSET (Containers \X Packages)
    OBVIOUS
  <2>2. QED
    BY <1>1, <1>2, <1>4, <2>1 DEF Load, Unload
<1>5. ASSUME NEW s \in Shipments, CloseRequest(c, s) \/ Intransit(c, s)
      PROVE  TInv'
  <2>1. Loaded(s) \X Packages \in SUBSET (Containers \X Packages)
    BY <1>1
  <2>2. adrift' \subseteq Names
    BY <1>1, <1>5 DEF CloseRequest, Intransit, Names
  <2>3. QED
    BY <1>1, <1>2, <1>5, <2>1, <2>2 DEF CloseRequest, Intransit
<1>6. CASE SaveShipment(c)
  BY <1>6, ShipmentSaved
<1>7. CASE AppendContainerShipment(c) \/ RemoveContainerShipment(c)
  BY <1>7, LoadedTyped
<1>8. CASE SIsMember(c) \/ SAdd(c) \/ Refused(c) \/ SRem(c)
  BY <1>8, MarkTyped
<1>9. CASE BuyLabels(c)
  BY <1>9, PurchaseTyped
<1>10. CASE CloseFails(c)
  BY <1>10, FailureTyped
<1>11. CASE CloseShipment(c) \/ IntransitShipment(c)
  BY <1>11, SendingTyped
<1>12. QED
  BY <1>3, <1>4, <1>5, <1>6, <1>7, <1>8, <1>9, <1>10, <1>11 DEF ShipmentStep

\* The page of the scheduler, without a package that is done.
LEMMA PageTyped ==
  ASSUME TInv, NEW c \in Calls, call[c].op = "track", NEW p \in DOMAIN call[c].seen.pkg,
         NextOnPage(c, p), Tables', told' \subseteq Packages, closing' = closing,
         bought' = bought, faults' = faults, adrift' \subseteq Names, item' = item
  PROVE  TInv'
<1>1. closing' \subseteq Shipments
  BY DEF TInv, TypeOK
<1>2. DEFINE left == DOMAIN call[c].seen.pkg \ {p}
             seen == [call[c].seen EXCEPT !.pkg = Restrict(call[c].seen.pkg, left)]
             x == [op |-> "track", seen |-> seen]
<1>3. CASE Return(c)
  BY <1>1, <1>3, ItemsStay, ReturnTyped DEF TInv
<1>4. CASE call' = [call EXCEPT ![c].seen.pkg = Restrict(@, left)]
  <2>1. call[c] = [op |-> "track", seen |-> call[c].seen] /\ IsView(call[c].seen)
    BY DEF TInv, TypeOK, CallsTyped, IsCall
  <2>2. call' = [call EXCEPT ![c] = x]
    <3>1. call' = [call EXCEPT ![c] = [call[c] EXCEPT !.seen = seen]]
      BY <1>4
    <3>2. [call[c] EXCEPT !.seen = seen] = x
      BY <2>1
    <3>3. QED
      BY <3>1, <3>2
  <2>3. Restrict(call[c].seen.pkg, left) \in [left -> PackageStatus] /\ left \subseteq Packages
    BY <2>1 DEF Restrict, IsView
  <2>4. /\ seen.pkg = Restrict(call[c].seen.pkg, left) /\ seen.con = call[c].seen.con
        /\ seen.item = call[c].seen.item /\ seen.shp = call[c].seen.shp
        /\ DOMAIN seen = {"pkg", "con", "item", "shp"}
    BY <2>1 DEF IsView
  <2> HIDE DEF seen, left
  <2>5. IsView(seen) /\ Narrow(seen)
    BY <2>1, <2>3, <2>4 DEF IsView, TInv, Narrow
  <2>6. x.op \in Ops \ {"append", "save"} /\ IsCall(x) /\ x.seen = seen
    BY DEF Ops, IsCall
  <2> HIDE DEF x
  <2>7. QED
    BY <1>1, <2>2, <2>5, <2>6, ItemsStay, WriteTyped DEF TInv
<1>5. QED
  BY <1>3, <1>4 DEF NextOnPage

\* The tracking scheduler.
LEMMA TrackingStepTyped ==
  ASSUME TInv, NEW c \in Calls, TrackingStep(c)
  PROVE  TInv'
<1>1. ASSUME NEW ps \in SUBSET Packages, Track(c, ps)
      PROVE  TInv'
  <2>1. /\ "track" \in Ops /\ {} \in SUBSET Containers /\ {} \in SUBSET Shipments
        /\ {} \in SUBSET (Containers \X Packages) /\ adrift' \subseteq Names
    BY <1>1 DEF Ops, Track, TInv, TypeOK, Names
  <2>2. QED
    BY <1>1, <2>1, ReadTyped DEF Track
<1>2. CASE NoNews(c)
  <2>1. PICK p \in DOMAIN call[c].seen.pkg : NextOnPage(c, p)
    BY <1>2 DEF NoNews
  <2>2. /\ item' = item /\ told' = told /\ closing' = closing /\ bought' = bought
        /\ faults' = faults /\ adrift' = adrift /\ call[c].op = "track" /\ Tables'
        /\ told' \subseteq Packages /\ adrift' \subseteq Names
    BY <1>2 DEF NoNews, db, TInv, TypeOK, Tables, Names
  <2>3. QED
    BY <2>1, <2>2, PageTyped
<1>3. ASSUME NEW delivered \in BOOLEAN, SaveDeliverLogPackage(c, delivered)
      PROVE  TInv'
  <2>1. PICK p \in DOMAIN call[c].seen.pkg :
          /\ SetStatus({p}, IF delivered THEN "Delivered" ELSE call[c].seen.pkg[p])
          /\ told' = IF delivered THEN told \cup {p} ELSE told
          /\ adrift' = IF call[c].seen.pkg[p] # pkg[p] THEN adrift \cup {p} ELSE adrift
          /\ NextOnPage(c, p)
    BY <1>3 DEF SaveDeliverLogPackage
  <2>2. p \in Packages /\ call[c].seen.pkg[p] \in PackageStatus
    BY SeenTyped DEF TInv
  <2>3. (IF delivered THEN "Delivered" ELSE call[c].seen.pkg[p]) \in PackageStatus
    BY <2>2 DEF PackageStatus
  <2>4. pkg' \in [Packages -> PackageStatus]
    BY <2>1, <2>3, StatusTyped DEF TInv
  <2>5. /\ item' = item /\ con' = con /\ shp' = shp /\ closing' = closing /\ bought' = bought
        /\ faults' = faults /\ call[c].op = "track"
    BY <1>3 DEF SaveDeliverLogPackage
  <2>6. Tables' /\ told' \subseteq Packages /\ adrift' \subseteq Names
    BY <2>1, <2>2, <2>4, <2>5 DEF TInv, TypeOK, Tables, Names
  <2>7. QED
    BY <2>1, <2>5, <2>6, PageTyped
<1>4. QED
  BY <1>1, <1>2, <1>3 DEF TrackingStep

\* A restart loses the purchases of all calls, and the calls.
LEMMA CrashTyped ==
  ASSUME TInv, Crash
  PROVE  TInv'
<1>1. /\ pkg' = pkg /\ item' = item /\ con' = con /\ shp' = shp /\ told' = told
      /\ closing' = closing /\ adrift' = adrift
  BY DEF Crash, db
<1>2. /\ CallsTyped'
      /\ \A c \in Calls : call'[c] = call[c] \/ call'[c] = Idle
      /\ \A c \in Calls : call'[c].op \in {"none", "track"}
  <2>1. call' = [c \in Calls |-> IF call[c].op = "track" THEN call[c] ELSE Idle]
    BY DEF Crash
  <2>2. \A c \in Calls : IsCall(call[c]) /\ IsCall(Idle)
    BY IdleTyped DEF TInv, CallsTyped
  <2>3. QED
    BY <2>1, <2>2 DEF CallsTyped, Idle
<1>3. \A c \in Calls : call'[c].op \in Ops /\ IsView(call'[c].seen) /\ Narrow(call'[c].seen)
  BY <1>2, IdleTyped DEF TInv, TypeOK
<1>4. faults' \in 0..MaxFaults
  BY FreightConstants DEF Crash, TInv, TypeOK
<1>5. /\ bought' \in [Shipments -> 0..MaxLabels]
  BY LossTyped DEF Crash
<1>6. TypeOK'
  <2>1. \A c \in Calls : call'[c].op \in Ops /\ IsView(call'[c].seen)
    BY <1>3
  <2>2. DOMAIN call' = Calls
    BY <1>2 DEF CallsTyped
  <2>3. QED
    BY <1>1, <1>4, <1>5, <2>1, <2>2 DEF TInv, TypeOK
<1>7. Scans'
  <2>1. SUFFICES ASSUME NEW k \in Containers, NEW p \in Packages
                 PROVE  item[<<k, p>>].active + Cardinality(Appending(k, p)') <= Cardinality(Calls)
    BY <1>1 DEF Scans
  <2>2. Appending(k, p)' = {}
    BY <1>2 DEF Appending
  <2>3. item[<<k, p>>].active \in 0..Cardinality(Calls)
    BY DEF TInv, TypeOK, ItemRows
  <2>4. Cardinality(Appending(k, p)') = 0 /\ Cardinality(Calls) \in Nat
    BY <2>2, FS_EmptySet, FreightConstants, FS_CardinalityType
  <2>5. QED
    BY <2>3, <2>4
<1>8. Saved'
  <2>1. SUFFICES ASSUME NEW s \in Shipments
                 PROVE  Cardinality(Savers(s)') <= bought'[s]
    BY DEF Saved
  <2>2. Savers(s)' = {}
    BY <1>2 DEF Savers
  <2>3. Cardinality(Savers(s)') = 0
    BY <2>2, FS_EmptySet
  <2>4. bought'[s] \in 0..MaxLabels
    BY <1>5
  <2>5. QED
    BY <2>3, <2>4
<1>9. \A c \in Calls : Narrow(call[c].seen)'
  BY <1>3 DEF Narrow
<1>10. QED
  BY <1>2, <1>6, <1>7, <1>8, <1>9 DEF TInv

\* At first there is nothing.
LEMMA InitTyped == Init => TInv
<1>1. SUFFICES ASSUME Init
               PROVE  TInv
  OBVIOUS
<1>2. Cardinality(Calls) \in Nat
  BY FreightConstants, FS_CardinalityType
<1>3. pkg \in [Packages -> PackageStatus] /\ told \subseteq Packages
      /\ adrift \subseteq Packages \cup Containers \cup Shipments
  BY <1>1 DEF Init, PackageStatus, Scanned
<1>4. item \in [Containers \X Packages -> ItemRows]
  <2>1. 0 \in 0..Cardinality(Calls)
    BY <1>2
  <2>2. [active |-> 0, failed |-> FALSE, past |-> FALSE] \in ItemRows
    BY <2>1 DEF ItemRows
  <2>3. QED
    BY <1>1, <2>2 DEF Init
<1>5. con \in [Containers -> ContainerRow]
  BY <1>1 DEF Init, ContainerRow
<1>6. shp \in [Shipments -> ShipmentRow]
  <2>1. 0 \in -MaxQuantity..MaxQuantity
    BY FreightConstants
  <2>2. QED
    BY <1>1, <2>1 DEF Init, ShipmentRow
<1>7. Tables
  BY <1>3, <1>4, <1>5, <1>6 DEF Tables
<1>8. /\ IsView(Idle.seen) /\ Narrow(Idle.seen) /\ Idle.op = "none" /\ IsCall(Idle)
  <2>1. IsView(View({}, {}, {}, {}))
    BY <1>7, ViewTyped
  <2>2. DOMAIN View({}, {}, {}, {}).shp = {}
    BY DEF View, Restrict
  <2>3. QED
    BY <2>1, <2>2 DEF Idle, Narrow, IsCall
<1>9. CallsTyped /\ \A c \in Calls : call[c] = Idle
  BY <1>1, <1>8 DEF Init, CallsTyped
<1>10. TypeOK
  <2>1. \A c \in Calls : call[c].op \in Ops /\ IsView(call[c].seen)
    BY <1>8, <1>9 DEF Ops
  <2>2. DOMAIN call = Calls
    BY <1>9 DEF CallsTyped
  <2>3. closing \subseteq Shipments /\ bought \in [Shipments -> 0..MaxLabels] /\ faults \in 0..MaxFaults
    BY <1>1, FreightConstants DEF Init
  <2>4. QED
    BY <1>3, <1>4, <1>5, <1>6, <2>1, <2>2, <2>3 DEF TypeOK
<1>11. Scans
  <2>1. SUFFICES ASSUME NEW k \in Containers, NEW p \in Packages
                 PROVE  item[<<k, p>>].active + Cardinality(Appending(k, p)) <= Cardinality(Calls)
    BY DEF Scans
  <2>2. Appending(k, p) = {}
    BY <1>8, <1>9 DEF Appending
  <2>3. Cardinality(Appending(k, p)) = 0
    BY <2>2, FS_EmptySet
  <2>4. item[<<k, p>>].active = 0
    BY <1>1 DEF Init
  <2>5. QED
    BY <1>2, <2>3, <2>4
<1>12. Saved
  <2>1. SUFFICES ASSUME NEW s \in Shipments
                 PROVE  Cardinality(Savers(s)) <= bought[s]
    BY DEF Saved
  <2>2. Savers(s) = {}
    BY <1>8, <1>9 DEF Savers
  <2>3. Cardinality(Savers(s)) = 0 /\ bought[s] = 0
    BY <1>1, <2>2, FS_EmptySet DEF Init
  <2>4. QED
    BY <2>3
<1>13. QED
  BY <1>8, <1>9, <1>10, <1>11, <1>12 DEF TInv

\* Every step keeps the types.
LEMMA NextTyped == TInv /\ [Next]_vars => TInv'
<1>1. CASE UNCHANGED vars
  <2>1. SUFFICES ASSUME TInv
                 PROVE  TInv'
    OBVIOUS
  <2>2. /\ pkg' = pkg /\ item' = item /\ con' = con /\ shp' = shp /\ told' = told
        /\ closing' = closing /\ bought' = bought /\ call' = call /\ faults' = faults
        /\ adrift' = adrift
    BY <1>1 DEF vars, db
  <2>3. TypeOK'
    BY <2>1, <2>2 DEF TInv, TypeOK
  <2>4. CallsTyped'
    BY <2>1, <2>2 DEF TInv, CallsTyped
  <2>5. Scans'
    BY <2>1, <2>2 DEF TInv, Scans, Appending
  <2>6. Saved'
    BY <2>1, <2>2 DEF TInv, Saved, Savers, Buys
  <2>7. (\A c \in Calls : Narrow(call[c].seen))'
    BY <2>1, <2>2 DEF TInv, Narrow
  <2>8. QED
    BY <2>3, <2>4, <2>5, <2>6, <2>7 DEF TInv
<1>2. CASE Next
  BY <1>2, CrashTyped, ContainerStepTyped, ShipmentStepTyped, TrackingStepTyped DEF Next
<1>3. QED
  BY <1>1, <1>2

\* The tables, the marks and what running handlers know keep their types; the items of a
\* package never outnumber the calls, and the purchases of labels are never negative.
THEOREM TypeCorrect == Spec => []TypeOK
<1>1. TInv => TypeOK
  BY DEF TInv
<1>2. QED
  BY <1>1, InitTyped, NextTyped, PTL DEF Spec

-----------------------------------------------------------------------------
(* Where the packages are: OneContainer and QuantityCounts.  What a handler checked *)
(* when it read is still true of the rows it read; if these are the rows there are  *)
(* when it writes, it is true of them, and if not, what it writes goes adrift.       *)

WaitsAlone(r) == r.status = "WaitingClose" => r.ship = NoShipment
ClosingOps == {"test", "add", "buy", "save", "unmark"}

\* What the handler x knows of the rows it has read, the rows a being adrift.
Fact(x, a) ==
  LET v == x.seen IN
  /\ \A k \in DOMAIN v.con : WaitsAlone(v.con[k])
  /\ x.op = "append" =>
       /\ \A p \in DOMAIN v.pkg, k \in Containers :
            <<k, p>> \in DOMAIN v.item /\ v.item[<<k, p>>].active = 0
       /\ \A k \in DOMAIN v.con : v.con[k].status = "WaitingClose"
  /\ x.op \in {"open", "load"} => \A k \in DOMAIN v.con : v.con[k].ship = NoShipment
  /\ x.op = "load" => \A k \in DOMAIN v.con : v.con[k].status = "Closed"
  /\ x.op \in {"load", "unload"} => \A s \in DOMAIN v.shp : v.shp[s].status = "WaitingClose"
  /\ x.op = "unload" => \A k \in DOMAIN v.con, s \in DOMAIN v.shp : v.con[k].ship = s
  /\ x.op = "cancelShipment" => \A s \in DOMAIN v.shp : s \notin a => v.shp[s].quantity = 0
  /\ x.op \in ClosingOps \cup {"intransit"} =>
       /\ DOMAIN v.item = (DOMAIN v.con) \X Packages
       /\ \A s \in DOMAIN v.shp :
            /\ v.shp[s].status = IF x.op = "intransit" THEN "Closed" ELSE "WaitingClose"
            /\ \A k \in DOMAIN v.con : v.con[k].ship = s
            /\ s \notin a => v.shp[s].quantity = Cardinality(DOMAIN v.con)

Held == \A c \in Calls : Fact(call[c], adrift)
Waits == \A k \in Containers : WaitsAlone(con[k])
One == \A p \in Packages : p \notin adrift =>
         \A k \in Containers :
           /\ item[<<k, p>>].active <= 1
           /\ \A l \in Containers : item[<<k, p>>].active > 0 /\ item[<<l, p>>].active > 0 => k = l
HInv == TInv /\ Held /\ Waits /\ One /\ QuantityCounts

\* What is known stays known when more rows go adrift.
LEMMA FactGrows ==
  ASSUME NEW x, NEW a, NEW b, Fact(x, a), a \subseteq b
  PROVE  Fact(x, b)
BY DEF Fact

\* A call that ended knows nothing.
LEMMA IdleFact ==
  ASSUME NEW a
  PROVE  Fact(Idle, a)
<1>1. DOMAIN Idle.seen.con = {} /\ Idle.op = "none"
  BY DEF Idle, View, Restrict
<1>2. QED
  BY <1>1 DEF Fact, ClosingOps

\* What all handlers know after one of them went on to x.
LEMMA HeldStays ==
  ASSUME CallsTyped, Held, NEW c \in Calls, NEW x, IsCall(x), call' = [call EXCEPT ![c] = x],
         Fact(x, adrift'), adrift \subseteq adrift'
  PROVE  Held'
<1>1. call'[c] = x /\ \A d \in Calls : d # c => call'[d] = call[d]
  BY CallGoesOn
<1>2. \A d \in Calls : Fact(call[d], adrift')
  BY FactGrows DEF Held
<1>3. ASSUME NEW d \in Calls
      PROVE  Fact(call[d], adrift)'
  <2>1. CASE d = c
    BY <1>1, <2>1 DEF Fact
  <2>2. CASE d # c
    BY <1>1, <1>2, <2>2 DEF Fact
  <2>3. QED
    BY <2>1, <2>2
<1>4. QED
  BY <1>3 DEF Held

\* The rows that were read are those that there are, or the handler is out of date.
LEMMA Fresh ==
  ASSUME NEW c \in Calls, ~Stale(c)
  PROVE  /\ \A p \in DOMAIN call[c].seen.pkg : call[c].seen.pkg[p] = pkg[p]
         /\ \A k \in DOMAIN call[c].seen.con : call[c].seen.con[k] = con[k]
         /\ \A s \in DOMAIN call[c].seen.shp : call[c].seen.shp[s] = shp[s]
         /\ \A kp \in DOMAIN call[c].seen.item : call[c].seen.item[kp] = item[kp]
<1>1. DEFINE v == call[c].seen
<1>2. v = View(DOMAIN v.pkg, DOMAIN v.con, DOMAIN v.item, DOMAIN v.shp)
  BY DEF Stale
<1> HIDE DEF v
<1>3. /\ v.pkg = Restrict(pkg, DOMAIN v.pkg) /\ v.con = Restrict(con, DOMAIN v.con)
      /\ v.shp = Restrict(shp, DOMAIN v.shp) /\ v.item = Restrict(item, DOMAIN v.item)
  BY <1>2 DEF View
<1>4. QED
  BY <1>3 DEF v, Restrict

\* Nothing adrift comes back.
LEMMA AdriftGrows ==
  ASSUME NEW c, NEW ps, NEW xs
  PROVE  /\ Wrote(c, xs) => adrift \subseteq adrift'
         /\ Moved(c, ps, xs) => adrift \subseteq adrift'
BY DEF Wrote, Moved

\* Where no item is added, a package stays in one container.
LEMMA OneStays ==
  ASSUME TInv, One, adrift \subseteq adrift',
         \A k \in Containers, p \in Packages :
           item'[<<k, p>>].active \in Nat /\ item'[<<k, p>>].active <= item[<<k, p>>].active
  PROVE  One'
<1>1. SUFFICES ASSUME NEW p \in Packages, p \notin adrift', NEW k \in Containers
               PROVE  /\ item'[<<k, p>>].active <= 1
                      /\ \A l \in Containers :
                           item'[<<k, p>>].active > 0 /\ item'[<<l, p>>].active > 0 => k = l
  BY DEF One
<1>2. item[<<k, p>>].active <= 1 /\ item[<<k, p>>].active \in Nat
  BY <1>1, ItemCounted DEF One, TInv
<1>3. ASSUME NEW l \in Containers, item'[<<k, p>>].active > 0, item'[<<l, p>>].active > 0
      PROVE  k = l
  <2>1. item[<<k, p>>].active \in Nat /\ item[<<l, p>>].active \in Nat
    BY ItemCounted DEF TInv
  <2>2. item[<<k, p>>].active > 0 /\ item[<<l, p>>].active > 0
    BY <1>3, <2>1
  <2>3. QED
    BY <1>1, <2>2 DEF One
<1>4. item'[<<k, p>>].active <= 1
  BY <1>2
<1>5. QED
  BY <1>3, <1>4

\* Where quantities and loads stay, the ones still count the others.
LEMMA QuantitiesStay ==
  ASSUME QuantityCounts, adrift \subseteq adrift',
         \A s \in Shipments : s \notin adrift' =>
           shp'[s].quantity = shp[s].quantity /\ Loaded(s)' = Loaded(s)
  PROVE  QuantityCounts'
<1>1. SUFFICES ASSUME NEW s \in Shipments, s \notin adrift'
               PROVE  shp'[s].quantity = Cardinality(Loaded(s)')
  BY DEF QuantityCounts
<1>2. shp[s].quantity = Cardinality(Loaded(s))
  BY <1>1 DEF QuantityCounts
<1>3. QED
  BY <1>1, <1>2

\* Sets of containers are finite.
LEMMA ContainersFinite ==
  ASSUME NEW S \in SUBSET Containers
  PROVE  IsFiniteSet(S) /\ Cardinality(S) \in Nat
<1>1. IsFiniteSet(Containers)
  BY FreightConstants
<1>2. QED
  BY <1>1, FS_Subset, FS_CardinalityType

\* A call that goes on without writing rows.
LEMMA RowsStay ==
  ASSUME HInv, TInv', NEW c \in Calls, NEW x, IsCall(x), call' = [call EXCEPT ![c] = x],
         Fact(x, adrift'), adrift \subseteq adrift', item' = item, con' = con, shp' = shp
  PROVE  HInv'
<1>1. Held'
  BY HeldStays DEF HInv, TInv
<1>2. Waits'
  BY DEF HInv, Waits
<1>3. One'
  BY ItemsStay, OneStays DEF HInv, TInv
<1>4. QuantityCounts'
  BY QuantitiesStay DEF HInv, Loaded
<1>5. QED
  BY <1>1, <1>2, <1>3, <1>4 DEF HInv

\* What a view shows.
LEMMA ViewRows ==
  ASSUME NEW ps, NEW ks, NEW is, NEW ss
  PROVE  LET v == View(ps, ks, is, ss) IN
         /\ DOMAIN v.pkg = ps /\ \A p \in ps : v.pkg[p] = pkg[p]
         /\ DOMAIN v.con = ks /\ \A k \in ks : v.con[k] = con[k]
         /\ DOMAIN v.item = is /\ \A kp \in is : v.item[kp] = item[kp]
         /\ DOMAIN v.shp = ss /\ \A s \in ss : v.shp[s] = shp[s]
BY DEF View, Restrict

\* A handler begins, and knows what it checked.
LEMMA ReadHeld ==
  ASSUME HInv, TInv', NEW c \in Calls, NEW op, NEW ps, NEW ks, NEW is, NEW ss,
         Read(c, op, ps, ks, is, ss), adrift \subseteq adrift',
         Fact([op |-> op, seen |-> View(ps, ks, is, ss)], adrift')
  PROVE  HInv'
<1>1. DEFINE x == [op |-> op, seen |-> View(ps, ks, is, ss)]
<1>2. IsCall(x) /\ call' = [call EXCEPT ![c] = x]
  BY DEF Read, IsCall
<1>3. item' = item /\ con' = con /\ shp' = shp
  BY DEF Read, db
<1>4. Fact(x, adrift')
  OBVIOUS
<1> HIDE DEF x
<1>5. QED
  BY <1>2, <1>3, <1>4, RowsStay

\* Handlers that take nothing over from what they checked.
LEMMA ReadUnheld ==
  ASSUME HInv, TInv', NEW c \in Calls,
         NEW op \in {"misfit", "remove", "close", "cancel", "update", "track"},
         NEW ps, NEW ks \in SUBSET Containers, NEW is, NEW ss,
         Read(c, op, ps, ks, is, ss), adrift' = adrift
  PROVE  HInv'
<1>1. DEFINE x == [op |-> op, seen |-> View(ps, ks, is, ss)]
<1>2. \A k \in DOMAIN x.seen.con : WaitsAlone(x.seen.con[k])
  BY ViewRows DEF HInv, Waits
<1>3. x.op = op
  OBVIOUS
<1> HIDE DEF x
<1>4. Fact(x, adrift')
  BY <1>2, <1>3 DEF Fact, ClosingOps
<1>5. QED
  BY <1>4, ReadHeld DEF x

\* The handlers of containers and the scheduler begin.
LEMMA ContainerReadHeld ==
  ASSUME HInv, TInv', NEW c \in Calls, NEW k \in Containers
  PROVE  /\ \A p \in Packages, fits \in BOOLEAN : Append(c, p, k, fits) => HInv'
         /\ \A ps \in SUBSET Packages : Remove(c, ps, k) => HInv'
         /\ Close(c, k) \/ Cancel(c, k) \/ Open(c, k) \/ Update(c, k) => HInv'
<1>1. {k} \in SUBSET Containers /\ WaitsAlone(con[k])
  BY DEF HInv, Waits
<1>2. ASSUME NEW p \in Packages, NEW fits \in BOOLEAN, Append(c, p, k, fits)
      PROVE  HInv'
  <2>1. PICK op \in {"append", "misfit"} :
          /\ Read(c, op, {p}, {k}, Containers \X {p}, {}) /\ adrift' = adrift
          /\ op = "append" => Homes(p) = {} /\ con[k].status = "WaitingClose"
    BY <1>2 DEF Append
  <2>2. CASE op = "misfit"
    BY <1>1, <2>1, <2>2, ReadUnheld
  <2>3. CASE op = "append"
    <3>1. DEFINE x == [op |-> "append", seen |-> View({p}, {k}, Containers \X {p}, {})]
    <3>2. \A l \in Containers : item[<<l, p>>].active = 0
      <4>1. \A l \in Containers : item[<<l, p>>].active \in Nat /\ ~(item[<<l, p>>].active > 0)
        BY <2>1, <2>3, ItemCounted DEF Homes, HInv, TInv
      <4>2. QED
        BY <4>1
    <3>3. /\ DOMAIN x.seen.pkg = {p} /\ DOMAIN x.seen.con = {k} /\ x.seen.con[k] = con[k]
          /\ \A l \in Containers :
               <<l, p>> \in DOMAIN x.seen.item /\ x.seen.item[<<l, p>>].active = 0
      BY <3>2, ViewRows
    <3>4. x.op = "append"
      OBVIOUS
    <3> HIDE DEF x
    <3>5. Fact(x, adrift')
      BY <1>1, <2>1, <2>3, <3>3, <3>4 DEF Fact, ClosingOps
    <3>6. QED
      BY <2>1, <2>3, <3>5, ReadHeld DEF x
  <2>4. QED
    BY <2>1, <2>2, <2>3
<1>3. ASSUME NEW ps \in SUBSET Packages, Remove(c, ps, k)
      PROVE  HInv'
  BY <1>1, <1>3, ReadUnheld DEF Remove
<1>4. CASE Close(c, k) \/ Cancel(c, k) \/ Update(c, k)
  BY <1>1, <1>4, ReadUnheld DEF Close, Cancel, Update
<1>5. CASE Open(c, k)
  <2>1. DEFINE x == [op |-> "open", seen |-> View({}, {k}, {}, {})]
  <2>2. DOMAIN x.seen.con = {k} /\ x.seen.con[k] = con[k] /\ x.op = "open"
    BY ViewRows
  <2> HIDE DEF x
  <2>3. con[k].ship = NoShipment
    BY <1>5 DEF Open
  <2>4. Fact(x, adrift')
    BY <1>1, <2>2, <2>3 DEF Fact, ClosingOps
  <2>5. QED
    BY <1>5, <2>4, ReadHeld DEF Open, x
<1>6. QED
  BY <1>2, <1>3, <1>4, <1>5

\* The handlers of shipments begin.
LEMMA ShipmentReadHeld ==
  ASSUME HInv, TInv', NEW c \in Calls, NEW s \in Shipments
  PROVE  /\ CancelShipment(c, s) => HInv'
         /\ \A k \in Containers : Load(c, k, s) \/ Unload(c, k, s) => HInv'
         /\ CloseRequest(c, s) \/ Intransit(c, s) => HInv'
<1>1. \A k \in Containers : WaitsAlone(con[k])
  BY DEF HInv, Waits
<1>2. s \notin adrift => shp[s].quantity = Cardinality(Loaded(s))
  BY DEF HInv, QuantityCounts
<1>3. CASE CancelShipment(c, s)
  <2>1. DEFINE x == [op |-> "cancelShipment", seen |-> View({}, {}, {}, {s})]
  <2>2. DOMAIN x.seen.con = {} /\ DOMAIN x.seen.shp = {s} /\ x.seen.shp[s] = shp[s]
        /\ x.op = "cancelShipment"
    BY ViewRows
  <2> HIDE DEF x
  <2>3. s \notin adrift => shp[s].quantity = 0
    BY <1>2, <1>3, FS_EmptySet DEF CancelShipment
  <2>4. adrift' = adrift
    BY <1>3 DEF CancelShipment
  <2>5. Fact(x, adrift')
    BY <2>2, <2>3, <2>4 DEF Fact, ClosingOps
  <2>6. QED
    BY <1>3, <2>5, ReadHeld DEF CancelShipment, x
<1>4. ASSUME NEW k \in Containers, Load(c, k, s) \/ Unload(c, k, s)
      PROVE  HInv'
  <2>1. PICK op \in {"load", "unload"} :
          /\ Read(c, op, {}, {k}, {}, {s}) /\ adrift' = adrift
          /\ op = "load" => con[k].status = "Closed" /\ con[k].ship = NoShipment
          /\ op = "unload" => con[k].ship = s
          /\ shp[s].status = "WaitingClose"
    BY <1>4 DEF Load, Unload
  <2>2. DEFINE x == [op |-> op, seen |-> View({}, {k}, {}, {s})]
  <2>3. /\ DOMAIN x.seen.con = {k} /\ x.seen.con[k] = con[k]
        /\ DOMAIN x.seen.shp = {s} /\ x.seen.shp[s] = shp[s] /\ x.op = op
    BY ViewRows
  <2> HIDE DEF x
  <2>4. Fact(x, adrift')
    BY <1>1, <2>1, <2>3 DEF Fact, ClosingOps
  <2>5. QED
    BY <2>1, <2>4, ReadHeld DEF x
<1>5. CASE CloseRequest(c, s) \/ Intransit(c, s)
  <2>1. PICK op \in {"test", "intransit"} :
          /\ Read(c, op, {}, Loaded(s), Loaded(s) \X Packages, {s}) /\ adrift \subseteq adrift'
          /\ shp[s].status = IF op = "intransit" THEN "Closed" ELSE "WaitingClose"
    BY <1>5 DEF CloseRequest, Intransit
  <2>2. DEFINE x == [op |-> op, seen |-> View({}, Loaded(s), Loaded(s) \X Packages, {s})]
  <2>3. /\ DOMAIN x.seen.con = Loaded(s) /\ \A k \in Loaded(s) : x.seen.con[k] = con[k]
        /\ DOMAIN x.seen.item = Loaded(s) \X Packages
        /\ DOMAIN x.seen.shp = {s} /\ x.seen.shp[s] = shp[s] /\ x.op = op
    BY ViewRows
  <2> HIDE DEF x
  <2>4. \A k \in Loaded(s) : con[k].ship = s /\ WaitsAlone(con[k])
    BY <1>1 DEF Loaded
  <2>5. Fact(x, adrift')
    BY <1>2, <2>1, <2>3, <2>4 DEF Fact, ClosingOps
  <2>6. QED
    BY <2>1, <2>5, ReadHeld DEF x
<1>6. QED
  BY <1>3, <1>4, <1>5

\* A call ends: what it knows ends with it.
LEMMA EndHeld ==
  ASSUME HInv, NEW c \in Calls, Return(c), adrift \subseteq adrift'
  PROVE  Held'
<1>1. IsCall(Idle) /\ call' = [call EXCEPT ![c] = Idle]
  BY IdleTyped DEF HInv, Return
<1>2. Fact(Idle, adrift')
  BY IdleFact
<1>3. QED
  BY <1>1, <1>2, HeldStays DEF HInv, TInv

\* A scan puts a package that lay nowhere into one container.
LEMMA ScanHeld ==
  ASSUME HInv, TInv', NEW c \in Calls, SaveContainerAndPackage(c)
  PROVE  HInv'
<1>1. PICK k \in DOMAIN call[c].seen.con, p \in DOMAIN call[c].seen.pkg :
       /\ item' = [kp \in Containers \X Packages |->
                     IF kp[2] # p THEN item[kp]
                     ELSE IF kp[1] # k THEN FailInactive(item[kp])
                     ELSE [FailInactive(item[kp]) EXCEPT !.active = @ + 1]]
       /\ Wrote(c, {p})
  BY DEF SaveContainerAndPackage
<1>2. k \in Containers /\ p \in Packages
  BY SeenTyped DEF HInv, TInv
<1>3. /\ con' = con /\ shp' = shp /\ Return(c) /\ call[c].op = "append" /\ adrift \subseteq adrift'
  BY <1>1, AdriftGrows DEF SaveContainerAndPackage
<1>4. \A l \in Containers, q \in Packages :
        item'[<<l, q>>] = IF q # p THEN item[<<l, q>>]
                          ELSE IF l # k THEN FailInactive(item[<<l, q>>])
                          ELSE [FailInactive(item[<<l, q>>]) EXCEPT !.active = @ + 1]
  BY <1>1
<1>5. ASSUME NEW l \in Containers, NEW q \in Packages
      PROVE  item'[<<l, q>>].active =
               IF q = p /\ l = k THEN item[<<l, q>>].active + 1 ELSE item[<<l, q>>].active
  <2>1. item[<<l, q>>] \in ItemRows
    BY DEF HInv, TInv, TypeOK
  <2>2. DEFINE r == FailInactive(item[<<l, q>>])
  <2>3. r \in ItemRows /\ r.active = item[<<l, q>>].active
    BY <2>1, ItemRowsTyped
  <2>4. item'[<<l, q>>] = IF q # p THEN item[<<l, q>>] ELSE IF l # k THEN r
                          ELSE [r EXCEPT !.active = r.active + 1]
    BY <1>4
  <2> HIDE DEF r
  <2>5. [r EXCEPT !.active = r.active + 1].active = r.active + 1
    BY <2>3 DEF ItemRows
  <2>6. QED
    BY <2>3, <2>4, <2>5
<1>6. One'
  <2>1. SUFFICES ASSUME NEW q \in Packages, q \notin adrift', NEW l \in Containers
                 PROVE  /\ item'[<<l, q>>].active <= 1
                        /\ \A m \in Containers :
                             item'[<<l, q>>].active > 0 /\ item'[<<m, q>>].active > 0 => l = m
    BY DEF One
  <2>2. CASE q # p
    <3>1. \A m \in Containers : item'[<<m, q>>].active = item[<<m, q>>].active
      BY <1>5, <2>2
    <3>2. q \notin adrift
      BY <1>3, <2>1
    <3>3. QED
      BY <2>1, <3>1, <3>2 DEF HInv, One
  <2>3. CASE q = p
    <3>1. ~Stale(c)
      BY <1>1, <2>1, <2>3 DEF Wrote
    <3>2. \A m \in Containers :
            <<m, p>> \in DOMAIN call[c].seen.item /\ call[c].seen.item[<<m, p>>].active = 0
      BY <1>3 DEF HInv, Held, Fact
    <3>3. \A m \in Containers : item[<<m, p>>].active = 0
      BY <3>1, <3>2, Fresh
    <3>4. \A m \in Containers : item'[<<m, p>>].active = IF m = k THEN 1 ELSE 0
      BY <1>2, <1>5, <3>3
    <3>5. QED
      BY <2>1, <2>3, <3>4
  <2>4. QED
    BY <2>2, <2>3
<1>7. Waits'
  BY <1>3 DEF HInv, Waits
<1>8. QuantityCounts'
  BY <1>3, QuantitiesStay DEF HInv, Loaded
<1>9. QED
  BY <1>3, <1>6, <1>7, <1>8, EndHeld DEF HInv

\* Where only items are taken out, or marked as failed.
LEMMA ItemsTaken ==
  ASSUME HInv, TInv', NEW c \in Calls, CancelPackagesInContainer(c) \/ SaveFailPackageContainer(c)
  PROVE  HInv'
<1>1. /\ con' = con /\ shp' = shp /\ Return(c)
  BY DEF CancelPackagesInContainer, SaveFailPackageContainer
<1>2. adrift \subseteq adrift'
  BY AdriftGrows DEF CancelPackagesInContainer, SaveFailPackageContainer
<1>3. ASSUME NEW l \in Containers, NEW q \in Packages
      PROVE  item'[<<l, q>>].active = 0 \/ item'[<<l, q>>].active = item[<<l, q>>].active
  <2>1. item[<<l, q>>] \in ItemRows
    BY DEF HInv, TInv, TypeOK
  <2>2. CASE CancelPackagesInContainer(c)
    <3>1. item'[<<l, q>>] = Inactive(item[<<l, q>>]) \/ item'[<<l, q>>] = item[<<l, q>>]
      BY <2>2 DEF CancelPackagesInContainer
    <3>2. QED
      BY <2>1, <3>1, ItemRowsTyped
  <2>3. CASE SaveFailPackageContainer(c)
    <3>1. PICK kp \in (DOMAIN call[c].seen.con) \X (DOMAIN call[c].seen.pkg) :
            item' = [item EXCEPT ![kp].failed = TRUE, ![kp].past = @ \/ item[kp].failed]
      BY <2>3 DEF SaveFailPackageContainer
    <3>2. item \in [Containers \X Packages -> ItemRows]
      BY DEF HInv, TInv, TypeOK
    <3>3. CASE kp # <<l, q>>
      BY <3>1, <3>2, <3>3
    <3>4. CASE kp = <<l, q>>
      <4>1. DEFINE gone == item[kp].past \/ item[kp].failed
      <4>2. item' = [item EXCEPT ![kp].failed = TRUE, ![kp].past = gone]
        BY <3>1, <3>2, <3>4, <2>1 DEF ItemRows
      <4> HIDE DEF gone
      <4>3. item'[kp] = [[item[kp] EXCEPT !.failed = TRUE] EXCEPT !.past = gone]
        BY <3>2, <3>4, <4>2
      <4>4. item'[kp].active = item[kp].active
        BY <2>1, <3>4, <4>3 DEF ItemRows
      <4>5. QED
        BY <3>4, <4>4
    <3>5. QED
      BY <3>3, <3>4
  <2>4. QED
    BY <2>2, <2>3
<1>4. ASSUME NEW l \in Containers, NEW q \in Packages
      PROVE  item'[<<l, q>>].active \in Nat /\ item'[<<l, q>>].active <= item[<<l, q>>].active
  <2>1. item[<<l, q>>].active \in Nat
    BY ItemCounted DEF HInv, TInv
  <2>2. QED
    BY <1>3, <2>1
<1>5. One'
  BY <1>2, <1>4, OneStays DEF HInv
<1>6. Waits' /\ QuantityCounts'
  BY <1>1, <1>2, QuantitiesStay DEF HInv, Waits, Loaded
<1>7. QED
  BY <1>1, <1>2, <1>5, <1>6, EndHeld DEF HInv

\* Writing the row of a container loads it into no shipment that it does not name.
LEMMA LoadStays ==
  ASSUME TypeOK, NEW k \in Containers, NEW r, con' = [con EXCEPT ![k] = r], NEW s,
         con[k].ship = r.ship \/ (con[k].ship # s /\ r.ship # s)
  PROVE  Loaded(s)' = Loaded(s)
<1>1. con'[k] = r /\ \A l \in Containers : l # k => con'[l] = con[l]
  BY DEF TypeOK
<1>2. \A l \in Containers : con'[l].ship = s <=> con[l].ship = s
  BY <1>1
<1>3. QED
  BY <1>2 DEF Loaded

\* A container is closed, and stays where it is.
LEMMA CloseHeld ==
  ASSUME HInv, TInv', NEW c \in Calls, CloseContainer(c)
  PROVE  HInv'
<1>1. PICK k \in DOMAIN call[c].seen.con :
        con' = [con EXCEPT ![k].status = "Closed"] /\ Wrote(c, {k})
  BY DEF CloseContainer
<1>2. k \in Containers /\ con[k] \in ContainerRow /\ TypeOK
  BY SeenTyped DEF HInv, TInv, TypeOK
<1>3. DEFINE r == [con[k] EXCEPT !.status = "Closed"]
<1>4. r.status = "Closed" /\ r.ship = con[k].ship
  BY <1>2, ContainerRowTyped
<1>5. con' = [con EXCEPT ![k] = r]
  BY <1>1
<1> HIDE DEF r
<1>6. shp' = shp /\ item' = item /\ Return(c) /\ adrift \subseteq adrift'
  BY <1>1, AdriftGrows DEF CloseContainer
<1>7. \A s \in Shipments : Loaded(s)' = Loaded(s)
  BY <1>2, <1>4, <1>5, LoadStays
<1>8. QuantityCounts'
  BY <1>6, <1>7, QuantitiesStay DEF HInv
<1>9. Waits'
  BY <1>2, <1>4, <1>5 DEF HInv, Waits, WaitsAlone, TypeOK
<1>10. One'
  BY <1>2, <1>6, ItemsStay, OneStays DEF HInv
<1>11. QED
  BY <1>6, <1>8, <1>9, <1>10, EndHeld DEF HInv

\* The row of a container is written whole: if it is not the one that was read, the
\* shipments it names go adrift.
LEMMA SaveHeld ==
  ASSUME HInv, TInv', NEW c \in Calls, SaveContainer(c)
  PROVE  HInv'
<1>1. DEFINE rows == call[c].seen.con
<1>2. PICK k \in DOMAIN rows :
        /\ con' = [con EXCEPT ![k] = NewStatus(call[c].op, rows[k])]
        /\ Wrote(c, {k} \cup Ships(rows) \cup ({con[k].ship} \cap Shipments))
  BY DEF SaveContainer
<1>3. k \in Containers /\ rows[k] \in ContainerRow /\ TypeOK
      /\ call[c].op \in {"cancel", "open", "update"}
  BY SeenTyped DEF HInv, TInv, SaveContainer
<1>4. DEFINE r == NewStatus(call[c].op, rows[k])
<1>5. r.ship = rows[k].ship
  BY <1>3, NewStatusTyped
<1>6. WaitsAlone(r)
  <2>1. Fact(call[c], adrift)
    BY DEF HInv, Held
  <2>2. CASE call[c].op = "cancel"
    <3>1. r.status = "Cancelled"
      BY <1>3, <2>2, ContainerRowTyped DEF NewStatus
    <3>2. QED
      BY <3>1 DEF WaitsAlone
  <2>3. CASE call[c].op = "open"
    BY <1>5, <2>1, <2>3 DEF Fact, WaitsAlone
  <2>4. CASE call[c].op = "update"
    BY <2>1, <2>4 DEF Fact, NewStatus
  <2>5. QED
    BY <1>3, <2>2, <2>3, <2>4
<1>7. con' = [con EXCEPT ![k] = r]
  BY <1>2
<1> HIDE DEF r
<1>8. shp' = shp /\ item' = item /\ Return(c) /\ adrift \subseteq adrift'
  BY <1>2, AdriftGrows DEF SaveContainer
<1>9. \A s \in Shipments : s \notin adrift' => Loaded(s)' = Loaded(s)
  <2>1. SUFFICES ASSUME NEW s \in Shipments, s \notin adrift'
                 PROVE  Loaded(s)' = Loaded(s)
    OBVIOUS
  <2>2. CASE Stale(c)
    <3>1. adrift' = adrift \cup ({k} \cup Ships(rows) \cup ({con[k].ship} \cap Shipments))
      BY <1>2, <2>2 DEF Wrote
    <3>2. con[k].ship # s /\ rows[k].ship # s
      BY <2>1, <3>1 DEF Ships
    <3>3. QED
      BY <1>3, <1>5, <1>7, <3>2, LoadStays
  <2>3. CASE ~Stale(c)
    <3>1. rows[k] = con[k]
      BY <2>3, Fresh
    <3>2. QED
      BY <1>3, <1>5, <1>7, <3>1, LoadStays
  <2>4. QED
    BY <2>2, <2>3
<1>10. QuantityCounts'
  BY <1>8, <1>9, QuantitiesStay DEF HInv
<1>11. Waits'
  BY <1>3, <1>6, <1>7 DEF HInv, Waits, TypeOK
<1>12. One'
  BY <1>3, <1>8, ItemsStay, OneStays DEF HInv
<1>13. QED
  BY <1>8, <1>10, <1>11, <1>12, EndHeld DEF HInv

\* A cancelled shipment keeps its quantity, or goes adrift.
LEMMA CancelHeld ==
  ASSUME HInv, TInv', NEW c \in Calls, SaveShipment(c)
  PROVE  HInv'
<1>1. DEFINE rows == call[c].seen.shp
<1>2. PICK s \in DOMAIN rows :
        /\ shp' = [shp EXCEPT ![s] = [rows[s] EXCEPT !.status = "Canceled"]]
        /\ Wrote(c, {s})
  BY DEF SaveShipment
<1>3. s \in Shipments /\ rows[s] \in ShipmentRow /\ TypeOK
  BY SeenTyped DEF HInv, TInv
<1>4. DEFINE r == [rows[s] EXCEPT !.status = "Canceled"]
<1>5. r.quantity = rows[s].quantity
  BY <1>3, ShipmentRowTyped
<1>6. shp' = [shp EXCEPT ![s] = r]
  BY <1>2
<1> HIDE DEF r
<1>7. con' = con /\ item' = item /\ Return(c) /\ adrift \subseteq adrift'
  BY <1>2, AdriftGrows DEF SaveShipment
<1>8. ASSUME NEW t \in Shipments, t \notin adrift'
      PROVE  shp'[t].quantity = shp[t].quantity /\ Loaded(t)' = Loaded(t)
  <2>1. Loaded(t)' = Loaded(t)
    BY <1>7 DEF Loaded
  <2>2. CASE t = s
    <3>1. ~Stale(c)
      BY <1>2, <1>8, <2>2 DEF Wrote
    <3>2. rows[s] = shp[s]
      BY <3>1, Fresh
    <3>3. QED
      BY <1>3, <1>5, <1>6, <2>1, <2>2, <3>2 DEF TypeOK
  <2>3. CASE t # s
    BY <1>3, <1>6, <2>1, <2>3 DEF TypeOK
  <2>4. QED
    BY <2>2, <2>3
<1>9. QuantityCounts'
  BY <1>7, <1>8, QuantitiesStay DEF HInv
<1>10. Waits'
  BY <1>7 DEF HInv, Waits
<1>11. One'
  BY <1>3, <1>7, ItemsStay, OneStays DEF HInv
<1>12. QED
  BY <1>7, <1>9, <1>10, <1>11, EndHeld DEF HInv

\* A container goes into a shipment: both rows are those that were read, or adrift.
LEMMA LoadHeld ==
  ASSUME HInv, TInv', NEW c \in Calls, AppendContainerShipment(c)
  PROVE  HInv'
<1>1. DEFINE v == call[c].seen
<1>2. PICK k \in DOMAIN v.con, s \in DOMAIN v.shp, ps \in SUBSET Packages :
        /\ con' = [con EXCEPT ![k] = [v.con[k] EXCEPT !.ship = s]]
        /\ shp' = [shp EXCEPT ![s] = [v.shp[s] EXCEPT !.quantity = v.shp[s].quantity + 1]]
        /\ v.shp[s].quantity < MaxQuantity
        /\ Moved(c, ps, {k, s} \cup ({con[k].ship} \cap Shipments))
  <2>1. PICK k \in DOMAIN v.con, s \in DOMAIN v.shp :
          LET ps == {p \in Packages : item[<<k, p>>].active > 0} IN
           /\ v.shp[s].quantity < MaxQuantity
           /\ con' = [con EXCEPT ![k] = [v.con[k] EXCEPT !.ship = s]]
           /\ shp' = [shp EXCEPT ![s] = [v.shp[s] EXCEPT !.quantity = v.shp[s].quantity + 1]]
           /\ Moved(c, ps, {k, s} \cup ({con[k].ship} \cap Shipments))
    BY DEF AppendContainerShipment
  <2>2. DEFINE ps == {p \in Packages : item[<<k, p>>].active > 0}
  <2>3. ps \in SUBSET Packages /\ Moved(c, ps, {k, s} \cup ({con[k].ship} \cap Shipments))
    BY <2>1
  <2> HIDE DEF ps
  <2>4. QED
    BY <2>1, <2>3
<1>3. /\ k \in Containers /\ v.con[k] \in ContainerRow
      /\ s \in Shipments /\ v.shp[s] \in ShipmentRow /\ TypeOK
  BY SeenTyped DEF HInv, TInv
<1>4. v.con[k].ship = NoShipment /\ v.con[k].status = "Closed"
  BY DEF AppendContainerShipment, HInv, Held, Fact
<1>5. v.shp[s].quantity + 1 \in -MaxQuantity..MaxQuantity /\ v.shp[s].quantity \in Int
  <2>1. v.shp[s].quantity \in -MaxQuantity..MaxQuantity
    BY <1>3 DEF ShipmentRow
  <2>2. QED
    BY <1>2, <2>1, FreightConstants
<1>6. DEFINE kr == [v.con[k] EXCEPT !.ship = s]
             sr == [v.shp[s] EXCEPT !.quantity = v.shp[s].quantity + 1]
<1>7. kr.ship = s /\ kr.status = "Closed" /\ sr.quantity = v.shp[s].quantity + 1
  BY <1>3, <1>4, <1>5, ContainerRowTyped, ShipmentRowTyped
<1>8. con' = [con EXCEPT ![k] = kr] /\ shp' = [shp EXCEPT ![s] = sr]
  BY <1>2
<1> HIDE DEF kr, sr, v
<1>9. item' = item /\ Return(c) /\ adrift \subseteq adrift'
  BY <1>2, AdriftGrows DEF AppendContainerShipment
<1>10. shp'[s] = sr /\ \A t \in Shipments : t # s => shp'[t] = shp[t]
  BY <1>3, <1>8 DEF TypeOK
<1>11. ASSUME NEW t \in Shipments, t \notin adrift'
       PROVE  shp'[t].quantity = Cardinality(Loaded(t)')
  <2>1. shp[t].quantity = Cardinality(Loaded(t))
    BY <1>9, <1>11 DEF HInv, QuantityCounts
  <2>2. CASE Stale(c)
    <3>1. t # s /\ t # con[k].ship
      BY <1>2, <1>11, <2>2 DEF Moved
    <3>2. Loaded(t)' = Loaded(t)
      BY <1>3, <1>7, <1>8, <3>1, LoadStays
    <3>3. QED
      BY <1>10, <2>1, <3>1, <3>2
  <2>3. CASE ~Stale(c)
    <3>1. con[k].ship = NoShipment /\ v.shp[s] = shp[s]
      BY <1>4, <2>3, Fresh DEF v
    <3>2. CASE t # s
      <4>1. Loaded(t)' = Loaded(t)
        BY <1>3, <1>7, <1>8, <3>1, <3>2, FreightConstants, LoadStays
      <4>2. QED
        BY <1>10, <2>1, <3>2, <4>1
    <3>3. CASE t = s
      <4>1. con'[k] = kr /\ \A l \in Containers : l # k => con'[l] = con[l]
        BY <1>3, <1>8 DEF TypeOK
      <4>2. Loaded(t)' = Loaded(t) \cup {k} /\ k \notin Loaded(t)
        BY <1>3, <1>7, <3>1, <3>3, <4>1, FreightConstants DEF Loaded
      <4>3. IsFiniteSet(Loaded(t)) /\ Cardinality(Loaded(t)) \in Nat
        BY ContainersFinite DEF Loaded
      <4>4. Cardinality(Loaded(t) \cup {k}) = Cardinality(Loaded(t)) + 1
        BY <4>2, <4>3, FS_AddElement
      <4>5. QED
        BY <1>7, <1>10, <2>1, <3>1, <3>3, <4>2, <4>4
    <3>4. QED
      BY <3>2, <3>3
  <2>4. QED
    BY <2>2, <2>3
<1>12. QuantityCounts'
  BY <1>11 DEF QuantityCounts
<1>13. Waits'
  BY <1>3, <1>7, <1>8 DEF HInv, Waits, WaitsAlone, TypeOK
<1>14. One'
  BY <1>3, <1>9, ItemsStay, OneStays DEF HInv
<1>15. QED
  BY <1>9, <1>12, <1>13, <1>14, EndHeld DEF HInv

\* A container goes out of its shipment: both rows are those that were read, or adrift.
LEMMA UnloadHeld ==
  ASSUME HInv, TInv', NEW c \in Calls, RemoveContainerShipment(c)
  PROVE  HInv'
<1>1. DEFINE v == call[c].seen
<1>2. PICK k \in DOMAIN v.con, s \in DOMAIN v.shp :
        /\ con' = [con EXCEPT ![k] = [v.con[k] EXCEPT !.ship = NoShipment]]
        /\ shp' = [shp EXCEPT ![s] = [v.shp[s] EXCEPT !.quantity = v.shp[s].quantity - 1]]
        /\ v.shp[s].quantity > -MaxQuantity
        /\ adrift \subseteq adrift'
        /\ Stale(c) => {k, s} \cup ({con[k].ship} \cap Shipments) \subseteq adrift'
  BY DEF RemoveContainerShipment
<1>3. /\ k \in Containers /\ v.con[k] \in ContainerRow
      /\ s \in Shipments /\ v.shp[s] \in ShipmentRow /\ TypeOK
  BY SeenTyped DEF HInv, TInv
<1>4. v.con[k].ship = s
  BY DEF RemoveContainerShipment, HInv, Held, Fact
<1>5. v.shp[s].quantity - 1 \in -MaxQuantity..MaxQuantity /\ v.shp[s].quantity \in Int
  <2>1. v.shp[s].quantity \in -MaxQuantity..MaxQuantity
    BY <1>3 DEF ShipmentRow
  <2>2. QED
    BY <1>2, <2>1, FreightConstants
<1>6. DEFINE kr == [v.con[k] EXCEPT !.ship = NoShipment]
             sr == [v.shp[s] EXCEPT !.quantity = v.shp[s].quantity - 1]
<1>7. kr.ship = NoShipment /\ sr.quantity = v.shp[s].quantity - 1
  BY <1>3, <1>5, ContainerRowTyped, ShipmentRowTyped
<1>8. con' = [con EXCEPT ![k] = kr] /\ shp' = [shp EXCEPT ![s] = sr]
  BY <1>2
<1> HIDE DEF kr, sr, v
<1>9. item' = item /\ Return(c)
  BY DEF RemoveContainerShipment
<1>10. shp'[s] = sr /\ \A t \in Shipments : t # s => shp'[t] = shp[t]
  BY <1>3, <1>8 DEF TypeOK
<1>11. ASSUME NEW t \in Shipments, t \notin adrift'
       PROVE  shp'[t].quantity = Cardinality(Loaded(t)')
  <2>1. shp[t].quantity = Cardinality(Loaded(t))
    BY <1>2, <1>11 DEF HInv, QuantityCounts
  <2>2. kr.ship # t
    BY <1>7, FreightConstants
  <2>3. CASE Stale(c)
    <3>1. t # s /\ t # con[k].ship
      BY <1>2, <1>11, <2>3
    <3>2. Loaded(t)' = Loaded(t)
      BY <1>3, <1>8, <2>2, <3>1, LoadStays
    <3>3. QED
      BY <1>10, <2>1, <3>1, <3>2
  <2>4. CASE ~Stale(c)
    <3>1. con[k].ship = s /\ v.shp[s] = shp[s]
      BY <1>4, <2>4, Fresh DEF v
    <3>2. CASE t # s
      <4>1. Loaded(t)' = Loaded(t)
        BY <1>3, <1>8, <2>2, <3>1, <3>2, LoadStays
      <4>2. QED
        BY <1>10, <2>1, <3>2, <4>1
    <3>3. CASE t = s
      <4>1. con'[k] = kr /\ \A l \in Containers : l # k => con'[l] = con[l]
        BY <1>3, <1>8 DEF TypeOK
      <4>2. Loaded(t)' = Loaded(t) \ {k} /\ k \in Loaded(t)
        BY <1>3, <2>2, <3>1, <3>3, <4>1 DEF Loaded
      <4>3. IsFiniteSet(Loaded(t)) /\ Cardinality(Loaded(t)) \in Nat
        BY ContainersFinite DEF Loaded
      <4>4. Cardinality(Loaded(t) \ {k}) = Cardinality(Loaded(t)) - 1
        BY <4>2, <4>3, FS_RemoveElement
      <4>5. QED
        BY <1>7, <1>10, <2>1, <3>1, <3>3, <4>2, <4>4
    <3>4. QED
      BY <3>2, <3>3
  <2>5. QED
    BY <2>3, <2>4
<1>12. QuantityCounts'
  BY <1>11 DEF QuantityCounts
<1>13. Waits'
  BY <1>3, <1>7, <1>8 DEF HInv, Waits, WaitsAlone, TypeOK
<1>14. One'
  BY <1>2, <1>3, <1>9, ItemsStay, OneStays DEF HInv
<1>15. QED
  BY <1>2, <1>9, <1>12, <1>13, <1>14, EndHeld DEF HInv

\* The calls that close go on, knowing what they knew.
LEMMA GotoHeld ==
  ASSUME HInv, NEW c \in Calls, call[c].op \in ClosingOps, NEW op \in ClosingOps, Goto(c, op),
         adrift \subseteq adrift'
  PROVE  Held'
<1>1. DEFINE x == [op |-> op, seen |-> call[c].seen]
<1>2. /\ call' = [call EXCEPT ![c] = x] /\ IsCall(x) /\ x.op = op /\ x.seen = call[c].seen
  BY GotoIs DEF HInv, TInv
<1> HIDE DEF x
<1>3. Fact(call[c], adrift)
  BY DEF HInv, Held
<1>4. Fact(x, adrift)
  BY <1>2, <1>3 DEF Fact, ClosingOps
<1>5. Fact(x, adrift')
  BY <1>4, FactGrows
<1>6. QED
  BY <1>2, <1>5, HeldStays DEF HInv, TInv

\* A shipment is closed or sent with its containers: they stay in it, or are adrift.
LEMMA SendHeld ==
  ASSUME HInv, TInv', NEW c \in Calls, CloseShipment(c) \/ IntransitShipment(c)
  PROVE  HInv'
<1>1. DEFINE v == call[c].seen
             xs(s) == {s} \cup DOMAIN v.con \cup Ships(Restrict(con, DOMAIN v.con))
<1>2. PICK s \in DOMAIN v.shp, sent \in {"Closed", "Intransit"} :
        /\ shp' = [shp EXCEPT ![s] = [v.shp[s] EXCEPT !.status = sent]]
        /\ \/ con' = [k \in Containers |-> IF k \in DOMAIN v.con \cap Carried THEN v.con[k] ELSE con[k]]
           \/ con' = [k \in Containers |-> IF k \in DOMAIN v.con
                                           THEN [v.con[k] EXCEPT !.status = "Intransit"] ELSE con[k]]
        /\ Moved(c, Active(v.item), xs(s))
  BY DEF CloseShipment, IntransitShipment
<1>3. /\ s \in Shipments /\ v.shp[s] \in ShipmentRow /\ TypeOK
      /\ \A k \in DOMAIN v.con : k \in Containers /\ v.con[k] \in ContainerRow
  BY SeenTyped DEF HInv, TInv
<1>4. \A k \in DOMAIN v.con : v.con[k].ship = s /\ WaitsAlone(v.con[k])
  <2>1. call[c].op \in ClosingOps \cup {"intransit"}
    BY DEF CloseShipment, IntransitShipment, ClosingOps
  <2>2. Fact(call[c], adrift)
    BY DEF HInv, Held
  <2>3. QED
    BY <2>1, <2>2 DEF Fact
<1>5. \A k \in DOMAIN v.con : [v.con[k] EXCEPT !.status = "Intransit"].ship = s
                              /\ WaitsAlone([v.con[k] EXCEPT !.status = "Intransit"])
  BY <1>3, <1>4, ContainerRowTyped DEF WaitsAlone
<1>6. DEFINE sr == [v.shp[s] EXCEPT !.status = sent]
<1>7. sr.quantity = v.shp[s].quantity
  BY <1>3, ShipmentRowTyped
<1>8. shp'[s] = sr /\ \A t \in Shipments : t # s => shp'[t] = shp[t]
  BY <1>2, <1>3 DEF TypeOK
<1>9. \A k \in Containers : \/ con'[k] = con[k]
                            \/ k \in DOMAIN v.con /\ con'[k].ship = s /\ WaitsAlone(con'[k])
  <2>1. SUFFICES ASSUME NEW k \in Containers
                 PROVE  \/ con'[k] = con[k]
                        \/ k \in DOMAIN v.con /\ con'[k].ship = s /\ WaitsAlone(con'[k])
    OBVIOUS
  <2>2. \/ con'[k] = con[k]
        \/ k \in DOMAIN v.con /\ con'[k] = v.con[k]
        \/ k \in DOMAIN v.con /\ con'[k] = [v.con[k] EXCEPT !.status = "Intransit"]
    BY <1>2
  <2>3. QED
    BY <1>4, <1>5, <2>2
<1>10. DEFINE now == Ships(Restrict(con, DOMAIN v.con))
<1>11. \A k \in DOMAIN v.con : con[k].ship \in Shipments => con[k].ship \in now
  BY DEF Ships, Restrict
<1>12. /\ adrift \subseteq adrift'
       /\ Stale(c) => s \in adrift' /\ now \subseteq adrift'
  <2>1. Moved(c, Active(v.item), {s} \cup DOMAIN v.con \cup now)
    BY <1>2
  <2> HIDE DEF now
  <2>2. QED
    BY <2>1 DEF Moved
<1> HIDE DEF sr, v, xs, now
<1>13. item' = item
  BY DEF CloseShipment, IntransitShipment
<1>14. ASSUME NEW t \in Shipments, t \notin adrift'
       PROVE  shp'[t].quantity = shp[t].quantity /\ Loaded(t)' = Loaded(t)
  <2>1. CASE Stale(c)
    <3>1. t # s /\ \A k \in DOMAIN v.con : con[k].ship # t
      BY <1>11, <1>12, <1>14, <2>1
    <3>2. \A k \in Containers : con'[k].ship = t <=> con[k].ship = t
      BY <1>9, <3>1
    <3>3. Loaded(t)' = Loaded(t)
      BY <3>2 DEF Loaded
    <3>4. QED
      BY <1>8, <3>1, <3>3
  <2>2. CASE ~Stale(c)
    <3>1. shp[s] = v.shp[s] /\ \A k \in DOMAIN v.con : con[k] = v.con[k]
      BY <2>2, Fresh DEF v
    <3>2. \A k \in Containers : con'[k].ship = con[k].ship
      BY <1>4, <1>9, <3>1
    <3>3. Loaded(t)' = Loaded(t)
      BY <3>2 DEF Loaded
    <3>4. QED
      BY <1>7, <1>8, <3>1, <3>3
  <2>3. QED
    BY <2>1, <2>2
<1>15. QuantityCounts'
  BY <1>12, <1>14, QuantitiesStay DEF HInv
<1>16. Waits'
  BY <1>9 DEF HInv, Waits, WaitsAlone
<1>17. One'
  BY <1>3, <1>12, <1>13, ItemsStay, OneStays DEF HInv
<1>18. Held'
  <2>1. CASE Return(c)
    BY <1>12, <2>1, EndHeld
  <2>2. CASE Goto(c, "unmark") /\ call[c].op = "save"
    BY <1>12, <2>2, GotoHeld DEF ClosingOps
  <2>3. QED
    BY <2>1, <2>2 DEF CloseShipment, IntransitShipment
<1>19. QED
  BY <1>15, <1>16, <1>17, <1>18 DEF HInv

\* The rows stay as they are.
LEMMA TablesStay ==
  ASSUME HInv, item' = item, con' = con, shp' = shp, adrift \subseteq adrift'
  PROVE  Waits' /\ One' /\ QuantityCounts'
<1>1. Waits'
  BY DEF HInv, Waits
<1>2. One'
  BY ItemsStay, OneStays DEF HInv, TInv
<1>3. QuantityCounts'
  BY QuantitiesStay DEF HInv, Loaded
<1>4. QED
  BY <1>1, <1>2, <1>3

\* The steps of a closing that write no row.
LEMMA ClosingHeld ==
  ASSUME HInv, TInv', NEW c \in Calls,
         SIsMember(c) \/ SAdd(c) \/ BuyLabels(c) \/ Refused(c) \/ CloseFails(c) \/ SRem(c)
  PROVE  HInv'
<1>1. item' = item /\ con' = con /\ shp' = shp /\ adrift' = adrift
  BY DEF SIsMember, SAdd, BuyLabels, Refused, CloseFails, SRem, db
<1>2. \/ Return(c)
      \/ call[c].op \in ClosingOps /\ \E op \in ClosingOps : Goto(c, op)
  BY DEF SIsMember, SAdd, BuyLabels, Refused, CloseFails, SRem, ClosingOps
<1>3. Held'
  BY <1>1, <1>2, EndHeld, GotoHeld
<1>4. QED
  BY <1>1, <1>3, TablesStay DEF HInv

\* The scheduler knows nothing of containers.
LEMMA TrackingHeld ==
  ASSUME HInv, TInv', NEW c \in Calls, TrackingStep(c)
  PROVE  HInv'
<1>1. ASSUME NEW ps \in SUBSET Packages, Track(c, ps)
      PROVE  HInv'
  BY <1>1, ReadUnheld DEF Track
<1>2. ASSUME call[c].op = "track", NEW p, NextOnPage(c, p), adrift \subseteq adrift'
      PROVE  Held'
  <2>1. CASE Return(c)
    BY <1>2, <2>1, EndHeld
  <2>2. ASSUME NEW left, call' = [call EXCEPT ![c].seen.pkg = Restrict(@, left)]
        PROVE  Held'
    <3>1. DEFINE seen == [call[c].seen EXCEPT !.pkg = Restrict(call[c].seen.pkg, left)]
                 x == [op |-> "track", seen |-> seen]
    <3>2. call[c] = [op |-> "track", seen |-> call[c].seen] /\ IsView(call[c].seen)
      BY <1>2 DEF HInv, TInv, TypeOK, CallsTyped, IsCall
    <3>3. call' = [call EXCEPT ![c] = x]
      <4>1. call' = [call EXCEPT ![c] = [call[c] EXCEPT !.seen = seen]]
        BY <2>2
      <4>2. [call[c] EXCEPT !.seen = seen] = x
        BY <3>2
      <4>3. QED
        BY <4>1, <4>2
    <3>4. x.seen.con = call[c].seen.con /\ x.op = "track" /\ IsCall(x)
      BY <3>2 DEF IsView, IsCall
    <3> HIDE DEF x
    <3>5. \A k \in DOMAIN call[c].seen.con : WaitsAlone(call[c].seen.con[k])
      BY DEF HInv, Held, Fact
    <3>6. Fact(x, adrift')
      BY <3>4, <3>5 DEF Fact, ClosingOps
    <3>7. QED
      BY <1>2, <3>3, <3>4, <3>6, HeldStays DEF HInv, TInv
  <2>3. QED
    BY <1>2, <2>1, <2>2 DEF NextOnPage
<1>3. CASE NoNews(c)
  <2>1. item' = item /\ con' = con /\ shp' = shp /\ adrift' = adrift
    BY <1>3 DEF NoNews, db
  <2>2. Held'
    BY <1>2, <1>3, <2>1 DEF NoNews
  <2>3. QED
    BY <2>1, <2>2, TablesStay DEF HInv
<1>4. ASSUME NEW delivered \in BOOLEAN, SaveDeliverLogPackage(c, delivered)
      PROVE  HInv'
  <2>1. item' = item /\ con' = con /\ shp' = shp /\ adrift \subseteq adrift'
    BY <1>4 DEF SaveDeliverLogPackage
  <2>2. Held'
    BY <1>2, <1>4, <2>1 DEF SaveDeliverLogPackage
  <2>3. QED
    BY <2>1, <2>2, TablesStay DEF HInv
<1>5. QED
  BY <1>1, <1>3, <1>4 DEF TrackingStep

\* A restart ends what handlers know, and writes nothing.
LEMMA CrashHeld ==
  ASSUME HInv, TInv', Crash
  PROVE  HInv'
<1>1. item' = item /\ con' = con /\ shp' = shp /\ adrift' = adrift
  BY DEF Crash, db
<1>2. \A c \in Calls : call'[c] = call[c] \/ call'[c] = Idle
  BY DEF Crash
<1>3. ASSUME NEW c \in Calls
      PROVE  Fact(call[c], adrift)'
  <2>1. Fact(call[c], adrift) /\ Fact(Idle, adrift)
    BY IdleFact DEF HInv, Held
  <2>2. Fact(call'[c], adrift)
    BY <1>2, <2>1
  <2>3. QED
    BY <1>1, <2>2 DEF Fact
<1>4. QED
  BY <1>1, <1>3, TablesStay DEF HInv, Held

\* Every step keeps what handlers know, and the packages in one container.
LEMMA NextHeld == HInv /\ [Next]_vars => HInv'
<1>1. SUFFICES ASSUME HInv, [Next]_vars
               PROVE  HInv'
  OBVIOUS
<1>2. TInv'
  BY <1>1, NextTyped DEF HInv
<1>3. CASE UNCHANGED vars
  <2>1. item' = item /\ con' = con /\ shp' = shp /\ adrift' = adrift /\ call' = call
    BY <1>3 DEF vars, db
  <2>2. Held'
    BY <1>1, <2>1 DEF HInv, Held, Fact
  <2>3. QED
    BY <1>1, <1>2, <2>1, <2>2, TablesStay DEF HInv
<1>4. CASE Crash
  BY <1>1, <1>2, <1>4, CrashHeld
<1>5. ASSUME NEW c \in Calls, ContainerStep(c)
      PROVE  HInv'
  <2>1. CASE \E k \in Containers :
               \/ \E p \in Packages, fits \in BOOLEAN : Append(c, p, k, fits)
               \/ \E ps \in SUBSET Packages : Remove(c, ps, k)
               \/ Close(c, k) \/ Cancel(c, k) \/ Open(c, k) \/ Update(c, k)
    BY <1>1, <1>2, <2>1, ContainerReadHeld
  <2>2. CASE SaveContainerAndPackage(c)
    BY <1>1, <1>2, <2>2, ScanHeld
  <2>3. CASE SaveFailPackageContainer(c) \/ CancelPackagesInContainer(c)
    BY <1>1, <1>2, <2>3, ItemsTaken
  <2>4. CASE CloseContainer(c)
    BY <1>1, <1>2, <2>4, CloseHeld
  <2>5. CASE SaveContainer(c)
    BY <1>1, <1>2, <2>5, SaveHeld
  <2>6. QED
    BY <1>5, <2>1, <2>2, <2>3, <2>4, <2>5 DEF ContainerStep
<1>6. ASSUME NEW c \in Calls, ShipmentStep(c)
      PROVE  HInv'
  <2>1. CASE \E s \in Shipments :
               \/ CancelShipment(c, s)
               \/ \E k \in Containers : Load(c, k, s) \/ Unload(c, k, s)
               \/ CloseRequest(c, s) \/ Intransit(c, s)
    BY <1>1, <1>2, <2>1, ShipmentReadHeld
  <2>2. CASE SaveShipment(c)
    BY <1>1, <1>2, <2>2, CancelHeld
  <2>3. CASE AppendContainerShipment(c)
    BY <1>1, <1>2, <2>3, LoadHeld
  <2>4. CASE RemoveContainerShipment(c)
    BY <1>1, <1>2, <2>4, UnloadHeld
  <2>5. CASE CloseShipment(c) \/ IntransitShipment(c)
    BY <1>1, <1>2, <2>5, SendHeld
  <2>6. CASE SIsMember(c) \/ SAdd(c) \/ BuyLabels(c) \/ Refused(c) \/ CloseFails(c) \/ SRem(c)
    BY <1>1, <1>2, <2>6, ClosingHeld
  <2>7. QED
    BY <1>6, <2>1, <2>2, <2>3, <2>4, <2>5, <2>6 DEF ShipmentStep
<1>7. ASSUME NEW c \in Calls, TrackingStep(c)
      PROVE  HInv'
  BY <1>1, <1>2, <1>7, TrackingHeld
<1>8. QED
  BY <1>1, <1>3, <1>4, <1>5, <1>6, <1>7 DEF Next

\* Nothing lies anywhere at first.
LEMMA InitHeld == Init => HInv
<1>1. SUFFICES ASSUME Init
               PROVE  HInv
  OBVIOUS
<1>2. TInv
  BY <1>1, InitTyped
<1>3. Held
  BY <1>1, IdleFact DEF Init, Held
<1>4. Waits
  BY <1>1 DEF Init, Waits, WaitsAlone
<1>5. One
  <2>1. \A k \in Containers, p \in Packages : item[<<k, p>>].active = 0
    BY <1>1 DEF Init
  <2>2. QED
    BY <2>1 DEF One
<1>6. QuantityCounts
  <2>1. \A s \in Shipments : Loaded(s) = {} /\ shp[s].quantity = 0
    BY <1>1, FreightConstants DEF Init, Loaded
  <2>2. QED
    BY <2>1, FS_EmptySet DEF QuantityCounts
<1>7. QED
  BY <1>2, <1>3, <1>4, <1>5, <1>6 DEF HInv

\* The quantity of a shipment is the number of its containers, whatever calls overlap,
\* unless a row was written from an outdated read.
THEOREM QuantitiesCount == Spec => []QuantityCounts
<1>1. HInv => QuantityCounts
  BY DEF HInv
<1>2. QED
  BY <1>1, InitHeld, NextHeld, PTL DEF Spec

\* A package lies in one container, once, whatever scans overlap, unless a scan was saved
\* from an outdated read.
THEOREM InOneContainer == Spec => []OneContainer
<1>1. HInv => OneContainer
  <2>1. SUFFICES ASSUME HInv, NEW p \in Packages, p \notin adrift
                 PROVE  /\ Cardinality(Homes(p)) <= 1
                        /\ \A k \in Containers : item[<<k, p>>].active <= 1
    BY DEF OneContainer
  <2>2. \A k \in Containers : item[<<k, p>>].active <= 1
    BY <2>1 DEF HInv, One
  <2>3. \A k, l \in Homes(p) : k = l
    BY <2>1 DEF HInv, One, Homes
  <2>4. Cardinality(Homes(p)) <= 1
    <3>1. CASE Homes(p) = {}
      BY <3>1, FS_EmptySet
    <3>2. ASSUME NEW k \in Homes(p)
          PROVE  Cardinality(Homes(p)) <= 1
      <4>1. Homes(p) = {k}
        BY <2>3
      <4>2. Cardinality({k}) = 1
        BY FS_Singleton
      <4>3. QED
        BY <4>1, <4>2
    <3>3. QED
      BY <3>1, <3>2
  <2>5. QED
    BY <2>2, <2>4
<1>2. QED
  BY <1>1, InitHeld, NextHeld, PTL DEF Spec

-----------------------------------------------------------------------------
(* What the status of a package says: StatusFollowsFreight.                          *)

FollowsAt(p) ==
  /\ Homes(p) = {} => pkg[p] \in Scanned
  /\ \A k \in Homes(p) : k \notin adrift /\ con[k].ship \notin adrift => pkg[p] = Place(k)
Follows == \A p \in Packages : p \notin adrift /\ p \notin told => FollowsAt(p)

\* A package whose row and whose place stay.
LEMMA FollowsStill ==
  ASSUME NEW p \in Packages, FollowsAt(p), adrift \subseteq adrift',
         pkg'[p] = pkg[p], Homes(p)' = Homes(p),
         \A k \in Homes(p) : k \notin adrift' /\ con'[k].ship \notin adrift' =>
           con'[k].ship = con[k].ship /\ Place(k)' = Place(k)
  PROVE  FollowsAt(p)'
BY DEF FollowsAt

\* The place of a container is that of its shipment.
LEMMA PlaceStays ==
  ASSUME TypeOK, NEW k \in Containers, con'[k].ship = con[k].ship,
         con[k].ship # NoShipment => shp'[con[k].ship].status = shp[con[k].ship].status
  PROVE  Place(k)' = Place(k)
<1>1. CASE con[k].ship = NoShipment
  BY <1>1 DEF Place
<1>2. CASE con[k].ship # NoShipment
  <2>1. shp'[con'[k].ship].status = shp[con[k].ship].status
    BY <1>2
  <2>2. shp[con[k].ship].status \in {"WaitingClose", "Closed", "Canceled", "Intransit"}
    BY <1>2 DEF TypeOK, ContainerRow, ShipmentRow
  <2>3. QED
    BY <1>2, <2>1, <2>2 DEF Place
<1>3. QED
  BY <1>1, <1>2

\* Where neither packages nor containers nor shipments are written.
LEMMA NothingMoves ==
  ASSUME TypeOK, Follows, adrift \subseteq adrift', told \subseteq told',
         item' = item, con' = con, shp' = shp,
         \A p \in Packages : p \notin adrift' /\ p \notin told' => pkg'[p] = pkg[p]
  PROVE  Follows'
<1>1. SUFFICES ASSUME NEW p \in Packages, p \notin adrift', p \notin told'
               PROVE  FollowsAt(p)'
  BY DEF Follows
<1>2. FollowsAt(p)
  BY <1>1 DEF Follows
<1>3. Homes(p)' = Homes(p)
  BY DEF Homes
<1>4. \A k \in Homes(p) : con'[k].ship = con[k].ship /\ Place(k)' = Place(k)
  BY PlaceStays DEF Homes
<1>5. QED
  BY <1>1, <1>2, <1>3, <1>4, FollowsStill

\* A package that is active in a container lies nowhere else.
LEMMA OneHome ==
  ASSUME HInv, NEW p \in Packages, p \notin adrift, NEW k \in Homes(p)
  PROVE  Homes(p) = {k}
BY DEF HInv, One, Homes

\* A scanned package is where its container waits.
LEMMA ScanFollows ==
  ASSUME HInv, Follows, NEW c \in Calls, SaveContainerAndPackage(c)
  PROVE  Follows'
<1>1. PICK k \in DOMAIN call[c].seen.con, p \in DOMAIN call[c].seen.pkg :
       /\ SetStatus({p}, "InContainer")
       /\ item' = [kp \in Containers \X Packages |->
                     IF kp[2] # p THEN item[kp]
                     ELSE IF kp[1] # k THEN FailInactive(item[kp])
                     ELSE [FailInactive(item[kp]) EXCEPT !.active = @ + 1]]
       /\ Wrote(c, {p})
  BY DEF SaveContainerAndPackage
<1>2. k \in Containers /\ p \in Packages
  BY SeenTyped DEF HInv, TInv
<1>3. /\ con' = con /\ shp' = shp /\ told' = told /\ call[c].op = "append" /\ adrift \subseteq adrift'
  BY <1>1, AdriftGrows DEF SaveContainerAndPackage
<1>4. \A l \in Containers, q \in Packages :
        item'[<<l, q>>] = IF q # p THEN item[<<l, q>>]
                          ELSE IF l # k THEN FailInactive(item[<<l, q>>])
                          ELSE [FailInactive(item[<<l, q>>]) EXCEPT !.active = @ + 1]
  BY <1>1
<1>5. ASSUME NEW q \in Packages, q \notin adrift', q \notin told'
      PROVE  FollowsAt(q)'
  <2>1. CASE q # p
    <3>1. FollowsAt(q)
      BY <1>3, <1>5 DEF Follows
    <3>2. pkg'[q] = pkg[q] /\ Homes(q)' = Homes(q)
      BY <1>1, <1>4, <2>1 DEF SetStatus, Homes
    <3>3. \A l \in Homes(q) : con'[l].ship = con[l].ship /\ Place(l)' = Place(l)
      BY <1>3, PlaceStays DEF Homes, HInv, TInv
    <3>4. QED
      BY <1>3, <3>1, <3>2, <3>3, FollowsStill
  <2>2. CASE q = p
    <3>1. ~Stale(c)
      BY <1>1, <1>5, <2>2 DEF Wrote
    <3>2. Fact(call[c], adrift)
      BY DEF HInv, Held
    <3>3. /\ call[c].seen.con[k].status = "WaitingClose"
          /\ \A l \in Containers :
               <<l, p>> \in DOMAIN call[c].seen.item /\ call[c].seen.item[<<l, p>>].active = 0
      BY <1>3, <3>2 DEF Fact
    <3>4. con[k].status = "WaitingClose" /\ \A l \in Containers : item[<<l, p>>].active = 0
      BY <3>1, <3>3, Fresh
    <3>5. con'[k].ship = NoShipment
      BY <1>2, <1>3, <3>4 DEF HInv, Waits, WaitsAlone
    <3>6. \A l \in Containers : item'[<<l, p>>].active = IF l = k THEN 1 ELSE 0
      <4>1. SUFFICES ASSUME NEW l \in Containers
                     PROVE  item'[<<l, p>>].active = IF l = k THEN 1 ELSE 0
        OBVIOUS
      <4>2. DEFINE r == FailInactive(item[<<l, p>>])
      <4>3. item[<<l, p>>] \in ItemRows
        BY <1>2 DEF HInv, TInv, TypeOK
      <4>4. r \in ItemRows /\ r.active = 0
        BY <3>4, <4>3, ItemRowsTyped
      <4>5. item'[<<l, p>>] = IF l # k THEN r ELSE [r EXCEPT !.active = r.active + 1]
        BY <1>2, <1>4
      <4> HIDE DEF r
      <4>6. [r EXCEPT !.active = r.active + 1].active = r.active + 1
        BY <4>4 DEF ItemRows
      <4>7. QED
        BY <4>4, <4>5, <4>6
    <3>7. Homes(p)' = {k}
      BY <1>2, <3>6 DEF Homes
    <3>8. pkg'[p] = "InContainer"
      BY <1>1, <1>2 DEF SetStatus
    <3>9. Place(k)' = "InContainer"
      BY <3>5 DEF Place
    <3>10. QED
      BY <2>2, <3>7, <3>8, <3>9 DEF FollowsAt
  <2>3. QED
    BY <2>1, <2>2
<1>6. QED
  BY <1>5 DEF Follows

\* A failed scan leaves the package where it is.
LEMMA MisfitFollows ==
  ASSUME HInv, Follows, NEW c \in Calls, SaveFailPackageContainer(c)
  PROVE  Follows'
<1>1. pkg' = pkg /\ con' = con /\ shp' = shp /\ told' = told /\ adrift' = adrift
  BY DEF SaveFailPackageContainer
<1>2. PICK kp \in (DOMAIN call[c].seen.con) \X (DOMAIN call[c].seen.pkg) :
        item' = [item EXCEPT ![kp].failed = TRUE, ![kp].past = @ \/ item[kp].failed]
  BY DEF SaveFailPackageContainer
<1>3. kp \in Containers \X Packages
  BY SeenTyped DEF HInv, TInv
<1>4. item \in [Containers \X Packages -> ItemRows]
  BY DEF HInv, TInv, TypeOK
<1>5. item[kp] \in ItemRows
  BY <1>3, <1>4
<1>6. DEFINE gone == item[kp].past \/ item[kp].failed
<1>7. item' = [item EXCEPT ![kp].failed = TRUE, ![kp].past = gone]
  BY <1>2, <1>3, <1>4, <1>5 DEF ItemRows
<1> HIDE DEF gone
<1>8. /\ item'[kp] = [[item[kp] EXCEPT !.failed = TRUE] EXCEPT !.past = gone]
      /\ \A x \in Containers \X Packages : x # kp => item'[x] = item[x]
  BY <1>3, <1>4, <1>7
<1>9. item'[kp].active = item[kp].active
  BY <1>5, <1>8 DEF ItemRows
<1>10. \A l \in Containers, q \in Packages : item'[<<l, q>>].active = item[<<l, q>>].active
  BY <1>8, <1>9
<1>11. ASSUME NEW q \in Packages, q \notin adrift', q \notin told'
       PROVE  FollowsAt(q)'
  <2>1. FollowsAt(q) /\ Homes(q)' = Homes(q)
    BY <1>1, <1>10, <1>11 DEF Follows, Homes
  <2>2. \A l \in Homes(q) : con'[l].ship = con[l].ship /\ Place(l)' = Place(l)
    BY <1>1, PlaceStays DEF Homes, HInv, TInv
  <2>3. QED
    BY <1>1, <2>1, <2>2, FollowsStill
<1>12. QED
  BY <1>11 DEF Follows

\* A package that is taken out lies nowhere then.
LEMMA RemovalFollows ==
  ASSUME HInv, Follows, NEW c \in Calls, CancelPackagesInContainer(c)
  PROVE  Follows'
<1>1. DEFINE rows == call[c].seen.item
             taken == {kp[2] : kp \in DOMAIN rows}
<1>2. /\ SetStatus(Active(rows), "Labeled")
      /\ item' = [kp \in Containers \X Packages |->
                   IF kp \in DOMAIN rows THEN Inactive(item[kp]) ELSE item[kp]]
      /\ Moved(c, Active(rows), taken)
      /\ con' = con /\ shp' = shp /\ told' = told
  BY DEF CancelPackagesInContainer
<1>3. adrift \subseteq adrift' /\ (Stale(c) => taken \subseteq adrift' /\ Active(rows) \subseteq adrift')
  BY <1>2 DEF Moved
<1>4. DOMAIN rows \subseteq Containers \X Packages
  BY SeenTyped DEF HInv, TInv
<1>5. \A p : p \in Active(rows) <=> \E kp \in DOMAIN rows : rows[kp].active > 0 /\ p = kp[2]
  BY DEF Active
<1>6. ASSUME NEW l \in Containers, NEW q \in Packages
      PROVE  item'[<<l, q>>].active = IF <<l, q>> \in DOMAIN rows THEN 0 ELSE item[<<l, q>>].active
  <2>1. item[<<l, q>>] \in ItemRows
    BY DEF HInv, TInv, TypeOK
  <2>2. item'[<<l, q>>] = IF <<l, q>> \in DOMAIN rows THEN Inactive(item[<<l, q>>]) ELSE item[<<l, q>>]
    BY <1>2
  <2>3. QED
    BY <2>1, <2>2, ItemRowsTyped
<1>7. \A l, q : <<l, q>> \in DOMAIN rows => q \in taken
  BY DEF taken
<1>8. ~Stale(c) => \A kp \in DOMAIN rows : rows[kp] = item[kp]
  BY Fresh
<1> HIDE DEF rows, taken
<1>9. ASSUME NEW q \in Packages, q \notin adrift', q \notin told'
      PROVE  FollowsAt(q)'
  <2>1. FollowsAt(q) /\ q \notin adrift
    BY <1>2, <1>3, <1>9 DEF Follows
  <2>2. CASE q \in Active(rows)
    <3>1. ~Stale(c)
      BY <1>3, <1>9, <2>2
    <3>2. PICK kp \in DOMAIN rows : rows[kp].active > 0 /\ q = kp[2]
      BY <1>5, <2>2
    <3>3. PICK k \in Containers : kp = <<k, q>>
      BY <1>4, <3>2
    <3>4. k \in Homes(q)
      BY <1>8, <3>1, <3>2, <3>3 DEF Homes
    <3>5. Homes(q) = {k}
      BY <2>1, <3>4, OneHome
    <3>6. Homes(q)' = {}
      <4>1. \A l \in Containers : ~(item'[<<l, q>>].active > 0)
        <5>1. SUFFICES ASSUME NEW l \in Containers
                       PROVE  ~(item'[<<l, q>>].active > 0)
          OBVIOUS
        <5>2. CASE l = k
          BY <1>6, <3>2, <3>3, <5>2
        <5>3. CASE l # k
          <6>1. ~(item[<<l, q>>].active > 0)
            BY <3>5, <5>3 DEF Homes
          <6>2. QED
            BY <1>6, <6>1
        <5>4. QED
          BY <5>2, <5>3
      <4>2. QED
        BY <4>1 DEF Homes
    <3>7. pkg'[q] = "Labeled"
      BY <1>2, <2>2 DEF SetStatus
    <3>8. QED
      BY <3>6, <3>7 DEF FollowsAt, Scanned
  <2>3. CASE q \notin Active(rows)
    <3>1. pkg'[q] = pkg[q]
      BY <1>2, <2>3 DEF SetStatus
    <3>2. \A l \in Containers : item'[<<l, q>>].active > 0 <=> item[<<l, q>>].active > 0
      <4>1. SUFFICES ASSUME NEW l \in Containers, <<l, q>> \in DOMAIN rows
                     PROVE  ~(item[<<l, q>>].active > 0)
        BY <1>6
      <4>2. ~Stale(c)
        BY <1>3, <1>7, <1>9, <4>1
      <4>3. rows[<<l, q>>] = item[<<l, q>>]
        BY <1>8, <4>1, <4>2
      <4>4. QED
        BY <1>5, <2>3, <4>1, <4>3
    <3>3. Homes(q)' = Homes(q)
      BY <3>2 DEF Homes
    <3>4. \A l \in Homes(q) : con'[l].ship = con[l].ship /\ Place(l)' = Place(l)
      BY <1>2, PlaceStays DEF Homes, HInv, TInv
    <3>5. QED
      BY <1>3, <2>1, <3>1, <3>3, <3>4, FollowsStill
  <2>4. QED
    BY <2>2, <2>3
<1>10. QED
  BY <1>9 DEF Follows

\* Where only rows of containers and shipments are written: what lies in a container
\* that is not adrift keeps its place.
LEMMA PlacesStay ==
  ASSUME TypeOK, Follows, adrift \subseteq adrift', told' = told, pkg' = pkg, item' = item,
         \A p \in Packages : \A k \in Homes(p) :
           p \notin adrift' /\ k \notin adrift' /\ con'[k].ship \notin adrift' =>
             con'[k].ship = con[k].ship /\ Place(k)' = Place(k)
  PROVE  Follows'
<1>1. SUFFICES ASSUME NEW p \in Packages, p \notin adrift', p \notin told'
               PROVE  FollowsAt(p)'
  BY DEF Follows
<1>2. FollowsAt(p)
  BY <1>1 DEF Follows
<1>3. Homes(p)' = Homes(p) /\ pkg'[p] = pkg[p]
  BY DEF Homes
<1>4. \A k \in Homes(p) : k \notin adrift' /\ con'[k].ship \notin adrift' =>
        con'[k].ship = con[k].ship /\ Place(k)' = Place(k)
  BY <1>1
<1>5. QED
  BY <1>1, <1>2, <1>3, <1>4, FollowsStill

\* A container is closed, or written as it was read.
LEMMA SaveFollows ==
  ASSUME HInv, Follows, NEW c \in Calls, CloseContainer(c) \/ SaveContainer(c)
  PROVE  Follows'
<1>1. /\ pkg' = pkg /\ item' = item /\ shp' = shp /\ told' = told
  BY DEF CloseContainer, SaveContainer
<1>2. PICK k \in DOMAIN call[c].seen.con, r \in ContainerRow :
        /\ con' = [con EXCEPT ![k] = r] /\ adrift \subseteq adrift'
        /\ k \notin adrift' => r.ship = con[k].ship
  <2>1. CASE CloseContainer(c)
    <3>1. PICK k \in DOMAIN call[c].seen.con :
            con' = [con EXCEPT ![k].status = "Closed"] /\ Wrote(c, {k})
      BY <2>1 DEF CloseContainer
    <3>2. con[k] \in ContainerRow
      BY SeenTyped DEF HInv, TInv, TypeOK
    <3>3. con' = [con EXCEPT ![k] = [con[k] EXCEPT !.status = "Closed"]]
      BY <3>1
    <3>4. /\ [con[k] EXCEPT !.status = "Closed"].ship = con[k].ship
          /\ [con[k] EXCEPT !.status = "Closed"] \in ContainerRow
      BY <3>2, ContainerRowTyped
    <3>5. QED
      BY <3>1, <3>3, <3>4, AdriftGrows
  <2>2. CASE SaveContainer(c)
    <3>1. DEFINE rows == call[c].seen.con
    <3>2. PICK k \in DOMAIN rows :
            /\ con' = [con EXCEPT ![k] = NewStatus(call[c].op, rows[k])]
            /\ Wrote(c, {k} \cup Ships(rows) \cup ({con[k].ship} \cap Shipments))
      BY <2>2 DEF SaveContainer
    <3>3. rows[k] \in ContainerRow /\ call[c].op \in {"cancel", "open", "update"}
      BY <2>2, SeenTyped DEF HInv, TInv, SaveContainer
    <3>4. /\ NewStatus(call[c].op, rows[k]).ship = rows[k].ship
          /\ NewStatus(call[c].op, rows[k]) \in ContainerRow
      BY <3>3, NewStatusTyped
    <3>5. k \notin adrift' => rows[k] = con[k]
      <4>1. k \notin adrift' => ~Stale(c)
        BY <3>2 DEF Wrote
      <4>2. QED
        BY <4>1, Fresh
    <3>6. adrift \subseteq adrift'
      BY <3>2, AdriftGrows
    <3>7. QED
      BY <3>2, <3>4, <3>5, <3>6
  <2>3. QED
    BY <2>1, <2>2
<1>3. k \in Containers /\ TypeOK
  BY SeenTyped DEF HInv, TInv
<1>4. con'[k] = r /\ \A l \in Containers : l # k => con'[l] = con[l]
  BY <1>2, <1>3 DEF TypeOK
<1>5. ASSUME NEW p \in Packages, NEW l \in Homes(p), l \notin adrift'
      PROVE  con'[l].ship = con[l].ship /\ Place(l)' = Place(l)
  <2>1. l \in Containers
    BY DEF Homes
  <2>2. con'[l].ship = con[l].ship
    BY <1>2, <1>4, <1>5, <2>1
  <2>3. QED
    BY <1>1, <1>3, <2>1, <2>2, PlaceStays
<1>6. QED
  BY <1>1, <1>2, <1>3, <1>5, PlacesStay

\* A shipment is cancelled when nothing is in it.
LEMMA CancelFollows ==
  ASSUME HInv, Follows, NEW c \in Calls, SaveShipment(c)
  PROVE  Follows'
<1>1. DEFINE rows == call[c].seen.shp
<1>2. PICK s \in DOMAIN rows :
        /\ shp' = [shp EXCEPT ![s] = [rows[s] EXCEPT !.status = "Canceled"]]
        /\ Wrote(c, {s})
  BY DEF SaveShipment
<1>3. pkg' = pkg /\ item' = item /\ con' = con /\ told' = told /\ adrift \subseteq adrift'
  BY <1>2, AdriftGrows DEF SaveShipment
<1>4. s \in Shipments /\ TypeOK
  BY SeenTyped DEF HInv, TInv
<1>5. s \notin adrift' => Loaded(s) = {}
  <2>1. SUFFICES ASSUME s \notin adrift'
                 PROVE  Loaded(s) = {}
    OBVIOUS
  <2>2. ~Stale(c) /\ s \notin adrift
    BY <1>2, <1>3, <2>1 DEF Wrote
  <2>3. Fact(call[c], adrift)
    BY DEF HInv, Held
  <2>4. rows[s].quantity = 0
    BY <2>2, <2>3 DEF SaveShipment, Fact
  <2>5. shp[s].quantity = 0
    BY <2>2, <2>4, Fresh
  <2>6. Cardinality(Loaded(s)) = 0
    BY <1>4, <2>2, <2>5 DEF HInv, QuantityCounts
  <2>7. IsFiniteSet(Loaded(s))
    BY ContainersFinite DEF Loaded
  <2>8. QED
    BY <2>6, <2>7, FS_EmptySet
<1>6. \A t \in Shipments : t # s => shp'[t] = shp[t]
  BY <1>2, <1>4 DEF TypeOK
<1>7. ASSUME NEW p \in Packages, NEW l \in Homes(p), con'[l].ship \notin adrift'
      PROVE  con'[l].ship = con[l].ship /\ Place(l)' = Place(l)
  <2>1. l \in Containers /\ con'[l].ship = con[l].ship
    BY <1>3 DEF Homes
  <2>2. con[l].ship \in Shipments \cup {NoShipment}
    BY <1>4, <2>1 DEF TypeOK, ContainerRow
  <2>3. con[l].ship # s
    BY <1>5, <1>7, <2>1 DEF Loaded
  <2>4. QED
    BY <1>4, <1>6, <2>1, <2>2, <2>3, PlaceStays
<1>8. QED
  BY <1>3, <1>4, <1>7, PlacesStay

\* A container goes into a shipment or out of it, with what lies in it.
LEMMA LoadFollows ==
  ASSUME HInv, Follows, NEW c \in Calls, AppendContainerShipment(c) \/ RemoveContainerShipment(c)
  PROVE  Follows'
<1>1. DEFINE v == call[c].seen
<1>2. PICK k \in DOMAIN v.con, s \in DOMAIN v.shp, ps \in SUBSET Packages,
           to \in Shipments \cup {NoShipment}, n \in -MaxQuantity..MaxQuantity,
           status \in {"InShipment", "InContainer"} :
        /\ con' = [con EXCEPT ![k] = [v.con[k] EXCEPT !.ship = to]]
        /\ shp' = [shp EXCEPT ![s] = [v.shp[s] EXCEPT !.quantity = n]]
        /\ \/ status = "InShipment" /\ to = s /\ v.shp[s].status = "WaitingClose"
           \/ status = "InContainer" /\ to = NoShipment
        /\ SetStatus(ps, status) /\ adrift \subseteq adrift'
        /\ Stale(c) => k \in adrift' /\ s \in adrift' /\ ps \subseteq adrift'
        /\ \A p \in Packages : item[<<k, p>>].active > 0 => p \in ps
        /\ \A p \in ps : p \in adrift' \/ item[<<k, p>>].active > 0
  <2>1. \A k \in DOMAIN v.con, s \in DOMAIN v.shp :
          /\ k \in Containers /\ v.con[k] \in ContainerRow
          /\ s \in Shipments /\ v.shp[s] \in ShipmentRow
          /\ v.shp[s].quantity < MaxQuantity => v.shp[s].quantity + 1 \in -MaxQuantity..MaxQuantity
          /\ v.shp[s].quantity > -MaxQuantity => v.shp[s].quantity - 1 \in -MaxQuantity..MaxQuantity
    <3>1. SUFFICES ASSUME NEW k \in DOMAIN v.con, NEW s \in DOMAIN v.shp
                   PROVE  /\ k \in Containers /\ v.con[k] \in ContainerRow
                          /\ s \in Shipments /\ v.shp[s] \in ShipmentRow
                          /\ v.shp[s].quantity \in -MaxQuantity..MaxQuantity
      BY FreightConstants
    <3>2. QED
      BY SeenTyped DEF HInv, TInv, ShipmentRow
  <2>2. CASE AppendContainerShipment(c)
    <3>1. PICK k \in DOMAIN v.con, s \in DOMAIN v.shp :
           LET ps == {p \in Packages : item[<<k, p>>].active > 0} IN
           /\ v.shp[s].quantity < MaxQuantity
           /\ con' = [con EXCEPT ![k] = [v.con[k] EXCEPT !.ship = s]]
           /\ shp' = [shp EXCEPT ![s] = [v.shp[s] EXCEPT !.quantity = v.shp[s].quantity + 1]]
           /\ SetStatus(ps, "InShipment")
           /\ Moved(c, ps, {k, s} \cup ({con[k].ship} \cap Shipments))
      BY <2>2 DEF AppendContainerShipment
    <3>2. DEFINE ps == {p \in Packages : item[<<k, p>>].active > 0}
    <3>3. v.shp[s].status = "WaitingClose"
      BY <2>2 DEF AppendContainerShipment, HInv, Held, Fact
    <3>4. /\ ps \in SUBSET Packages /\ \A p \in Packages : p \in ps <=> item[<<k, p>>].active > 0
          /\ Moved(c, ps, {k, s} \cup ({con[k].ship} \cap Shipments)) /\ SetStatus(ps, "InShipment")
      BY <3>1
    <3> HIDE DEF ps
    <3>5. /\ adrift \subseteq adrift'
          /\ Stale(c) => k \in adrift' /\ s \in adrift' /\ ps \subseteq adrift'
      BY <3>4 DEF Moved
    <3>6. s \in Shipments \cup {NoShipment} /\ v.shp[s].quantity + 1 \in -MaxQuantity..MaxQuantity
      BY <2>1, <3>1
    <3>7. con' = [con EXCEPT ![k] = [v.con[k] EXCEPT !.ship = s]]
          /\ shp' = [shp EXCEPT ![s] = [v.shp[s] EXCEPT !.quantity = v.shp[s].quantity + 1]]
      BY <3>1
    <3> HIDE DEF v
    <3>8. /\ SetStatus(ps, "InShipment") /\ adrift \subseteq adrift'
          /\ Stale(c) => k \in adrift' /\ s \in adrift' /\ ps \subseteq adrift'
          /\ \A p \in Packages : item[<<k, p>>].active > 0 => p \in ps
          /\ \A p \in ps : p \in adrift' \/ item[<<k, p>>].active > 0
      BY <3>4, <3>5
    <3>9. QED
      BY <3>3, <3>4, <3>6, <3>7, <3>8
  <2>3. CASE RemoveContainerShipment(c)
    <3>1. PICK k \in DOMAIN v.con, s \in DOMAIN v.shp :
           LET ps == {p \in Packages : LET r == item[<<k, p>>] IN r.active > 0 \/ r.failed \/ r.past}
               elsewhere == {p \in ps : item[<<k, p>>].active = 0}
           IN
           /\ v.shp[s].quantity > -MaxQuantity
           /\ con' = [con EXCEPT ![k] = [v.con[k] EXCEPT !.ship = NoShipment]]
           /\ shp' = [shp EXCEPT ![s] = [v.shp[s] EXCEPT !.quantity = v.shp[s].quantity - 1]]
           /\ SetStatus(ps, "InContainer")
           /\ adrift' = adrift \cup elsewhere \cup (ps \cap told) \cup
                IF Stale(c) THEN {k, s} \cup ({con[k].ship} \cap Shipments) \cup ps ELSE {}
      BY <2>3 DEF RemoveContainerShipment
    <3>2. DEFINE ps == {p \in Packages : LET r == item[<<k, p>>] IN r.active > 0 \/ r.failed \/ r.past}
                 elsewhere == {p \in ps : item[<<k, p>>].active = 0}
    <3>3. /\ adrift' = adrift \cup elsewhere \cup (ps \cap told) \cup
                IF Stale(c) THEN {k, s} \cup ({con[k].ship} \cap Shipments) \cup ps ELSE {}
          /\ SetStatus(ps, "InContainer")
          /\ con' = [con EXCEPT ![k] = [v.con[k] EXCEPT !.ship = NoShipment]]
          /\ shp' = [shp EXCEPT ![s] = [v.shp[s] EXCEPT !.quantity = v.shp[s].quantity - 1]]
      BY <3>1
    <3>4. NoShipment \in Shipments \cup {NoShipment} /\ v.shp[s].quantity - 1 \in -MaxQuantity..MaxQuantity
      BY <2>1, <3>1
    <3>5. /\ ps \in SUBSET Packages
          /\ \A p \in Packages : item[<<k, p>>].active > 0 => p \in ps
          /\ \A p \in ps : p \in elsewhere \/ item[<<k, p>>].active # 0
      OBVIOUS
    <3>6. k \in Containers
      BY <2>1
    <3> HIDE DEF ps, elsewhere, v
    <3>7. \A p \in ps : item[<<k, p>>].active # 0 => item[<<k, p>>].active > 0
      <4>1. SUFFICES ASSUME NEW p \in ps, item[<<k, p>>].active # 0
                     PROVE  item[<<k, p>>].active > 0
        OBVIOUS
      <4>2. item[<<k, p>>].active \in Nat
        BY <3>5, <3>6, ItemCounted DEF HInv, TInv
      <4>3. QED
        BY <4>1, <4>2
    <3>8. /\ SetStatus(ps, "InContainer") /\ adrift \subseteq adrift'
          /\ Stale(c) => k \in adrift' /\ s \in adrift' /\ ps \subseteq adrift'
          /\ \A p \in Packages : item[<<k, p>>].active > 0 => p \in ps
          /\ \A p \in ps : p \in adrift' \/ item[<<k, p>>].active > 0
      BY <3>3, <3>5, <3>7
    <3>9. QED
      BY <3>3, <3>4, <3>5, <3>8
  <2>4. QED
    BY <2>2, <2>3
<1>3. /\ k \in Containers /\ v.con[k] \in ContainerRow
      /\ s \in Shipments /\ v.shp[s] \in ShipmentRow /\ TypeOK
  BY SeenTyped DEF HInv, TInv
<1>4. item' = item /\ told' = told
  BY DEF AppendContainerShipment, RemoveContainerShipment
<1> DEFINE kr == [v.con[k] EXCEPT !.ship = to]
           sr == [v.shp[s] EXCEPT !.quantity = n]
<1>5. kr.ship = to /\ sr.status = v.shp[s].status
  BY <1>3, ContainerRowTyped, ShipmentRowTyped
<1>6. con' = [con EXCEPT ![k] = kr] /\ shp' = [shp EXCEPT ![s] = sr]
  BY <1>2
<1> HIDE DEF kr, sr
<1>7. /\ con'[k] = kr /\ \A l \in Containers : l # k => con'[l] = con[l]
      /\ shp'[s] = sr /\ \A t \in Shipments : t # s => shp'[t] = shp[t]
  BY <1>3, <1>6 DEF TypeOK
<1>8. s \notin adrift' => shp'[s].status = shp[s].status
  BY <1>2, <1>7, <1>5, Fresh
<1> HIDE DEF v
<1>9. ASSUME NEW p \in Packages, p \notin adrift', p \notin told'
      PROVE  FollowsAt(p)'
  <2>1. FollowsAt(p) /\ p \notin adrift /\ Homes(p)' = Homes(p)
    BY <1>2, <1>4, <1>9 DEF Follows, Homes
  <2>2. CASE p \in ps
    <3>1. k \in Homes(p)
      BY <1>2, <1>3, <1>9, <2>2 DEF Homes
    <3>2. Homes(p)' = {k}
      BY <2>1, <3>1, OneHome
    <3>3. pkg'[p] = status
      BY <1>2, <2>2 DEF SetStatus
    <3>4. Place(k)' = status
      <4>1. CASE status = "InContainer" /\ to = NoShipment
        BY <1>7, <1>5, <4>1 DEF Place
      <4>2. CASE status = "InShipment" /\ to = s /\ v.shp[s].status = "WaitingClose"
        BY <1>3, <1>7, <1>5, <4>2, FreightConstants DEF Place
      <4>3. QED
        BY <1>2, <4>1, <4>2
    <3>5. QED
      BY <3>2, <3>3, <3>4 DEF FollowsAt
  <2>3. CASE p \notin ps
    <3>1. pkg'[p] = pkg[p]
      BY <1>2, <2>3 DEF SetStatus
    <3>2. ASSUME NEW l \in Homes(p), con'[l].ship \notin adrift'
          PROVE  con'[l].ship = con[l].ship /\ Place(l)' = Place(l)
      <4>1. l \in Containers /\ l # k
        BY <1>2, <2>3 DEF Homes
      <4>2. con'[l] = con[l]
        BY <1>7, <4>1
      <4>3. con[l].ship \in Shipments \cup {NoShipment}
        BY <1>3, <4>1 DEF TypeOK, ContainerRow
      <4>4. con[l].ship # NoShipment => shp'[con[l].ship].status = shp[con[l].ship].status
        BY <1>7, <1>8, <3>2, <4>2, <4>3
      <4>5. QED
        BY <1>3, <4>1, <4>2, <4>4, PlaceStays
    <3>3. QED
      BY <1>2, <2>1, <3>1, <3>2, FollowsStill
  <2>4. QED
    BY <2>2, <2>3
<1>10. QED
  BY <1>9 DEF Follows

\* A shipment is closed or sent: the packages that were read in it go on with it, and
\* unless the call is out of date nothing else is in it.
LEMMA SendFollows ==
  ASSUME HInv, Follows, NEW c \in Calls, CloseShipment(c) \/ IntransitShipment(c)
  PROVE  Follows'
<1>1. DEFINE v == call[c].seen
             xs(s) == {s} \cup DOMAIN v.con \cup Ships(Restrict(con, DOMAIN v.con))
<1>2. PICK s \in DOMAIN v.shp, sent \in {"Closed", "Intransit"} :
        /\ shp' = [shp EXCEPT ![s] = [v.shp[s] EXCEPT !.status = sent]]
        /\ \/ con' = [k \in Containers |-> IF k \in DOMAIN v.con \cap Carried THEN v.con[k] ELSE con[k]]
           \/ con' = [k \in Containers |-> IF k \in DOMAIN v.con
                                           THEN [v.con[k] EXCEPT !.status = "Intransit"] ELSE con[k]]
        /\ SetStatus(Active(v.item), IF sent = "Closed" THEN "Export" ELSE "InTransit")
        /\ Moved(c, Active(v.item), xs(s))
  BY DEF CloseShipment, IntransitShipment
<1>3. /\ s \in Shipments /\ v.shp[s] \in ShipmentRow /\ TypeOK
      /\ DOMAIN v.con \in SUBSET Containers /\ \A k \in DOMAIN v.con : v.con[k] \in ContainerRow
      /\ item' = item /\ told' = told
  BY SeenTyped DEF HInv, TInv, CloseShipment, IntransitShipment
<1>4. /\ DOMAIN v.item = (DOMAIN v.con) \X Packages
      /\ \A k \in DOMAIN v.con : v.con[k].ship = s
      /\ s \notin adrift => v.shp[s].quantity = Cardinality(DOMAIN v.con)
  <2>1. call[c].op \in ClosingOps \cup {"intransit"}
    BY DEF CloseShipment, IntransitShipment, ClosingOps
  <2>2. Fact(call[c], adrift)
    BY DEF HInv, Held
  <2>3. QED
    BY <2>1, <2>2 DEF Fact
<1>5. \A k \in DOMAIN v.con : [v.con[k] EXCEPT !.status = "Intransit"].ship = s
  BY <1>3, <1>4, ContainerRowTyped
<1>6. \A k \in Containers :
        IF k \in DOMAIN v.con THEN con'[k].ship \in {s, con[k].ship} ELSE con'[k] = con[k]
  <2>1. SUFFICES ASSUME NEW k \in Containers
                 PROVE  IF k \in DOMAIN v.con THEN con'[k].ship \in {s, con[k].ship} ELSE con'[k] = con[k]
    OBVIOUS
  <2>2. CASE k \in DOMAIN v.con
    <3>1. \/ con'[k] = con[k] \/ con'[k] = v.con[k]
          \/ con'[k] = [v.con[k] EXCEPT !.status = "Intransit"]
      BY <1>2, <2>2
    <3>2. QED
      BY <1>4, <1>5, <2>2, <3>1
  <2>3. CASE k \notin DOMAIN v.con
    BY <1>2, <2>3
  <2>4. QED
    BY <2>2, <2>3
<1>7. [v.shp[s] EXCEPT !.status = sent].status = sent
  BY <1>3, ShipmentRowTyped
<1>8. shp'[s].status = sent /\ \A t \in Shipments : t # s => shp'[t] = shp[t]
  BY <1>2, <1>3, <1>7 DEF TypeOK
<1>9. /\ adrift \subseteq adrift'
      /\ Stale(c) => s \in adrift' /\ DOMAIN v.con \subseteq adrift' /\ Active(v.item) \subseteq adrift'
  <2>1. DEFINE now == Ships(Restrict(con, DOMAIN v.con))
               act == Active(v.item)
  <2>2. Moved(c, act, {s} \cup DOMAIN v.con \cup now)
    BY <1>2
  <2> HIDE DEF now, act
  <2>3. /\ adrift \subseteq adrift'
        /\ Stale(c) => s \in adrift' /\ DOMAIN v.con \subseteq adrift' /\ act \subseteq adrift'
    BY <2>2 DEF Moved
  <2>4. QED
    BY <2>3 DEF act
<1>10. \A p : p \in Active(v.item) <=> \E kp \in DOMAIN v.item : v.item[kp].active > 0 /\ p = kp[2]
  BY DEF Active
<1>11. \A p \in Packages :
         pkg'[p] = IF p \notin Active(v.item) THEN pkg[p]
                   ELSE IF sent = "Closed" THEN "Export" ELSE "InTransit"
  BY <1>2 DEF SetStatus
<1>12. ~Stale(c) => /\ \A kp \in DOMAIN v.item : v.item[kp] = item[kp]
                    /\ \A k \in DOMAIN v.con : v.con[k] = con[k]
                    /\ v.shp[s] = shp[s]
  BY Fresh
<1> HIDE DEF v
<1>13. s \notin adrift' => Loaded(s) = DOMAIN v.con
  <2>1. SUFFICES ASSUME s \notin adrift'
                 PROVE  Loaded(s) = DOMAIN v.con
    OBVIOUS
  <2>2. ~Stale(c) /\ s \notin adrift
    BY <1>9, <2>1
  <2>3. Cardinality(Loaded(s)) = Cardinality(DOMAIN v.con)
    BY <1>3, <1>4, <1>12, <2>2 DEF HInv, QuantityCounts
  <2>4. DOMAIN v.con \subseteq Loaded(s)
    BY <1>3, <1>4, <1>12, <2>2 DEF Loaded
  <2>5. IsFiniteSet(Loaded(s))
    BY ContainersFinite DEF Loaded
  <2>6. QED
    BY <2>3, <2>4, <2>5, FS_Subset
<1>14. ASSUME NEW p \in Packages, p \notin adrift', p \notin told'
       PROVE  FollowsAt(p)'
  <2>1. FollowsAt(p) /\ p \notin adrift /\ Homes(p)' = Homes(p)
    BY <1>3, <1>9, <1>14 DEF Follows, Homes
  <2>2. CASE p \in Active(v.item)
    <3>1. PICK k \in DOMAIN v.con : v.item[<<k, p>>].active > 0 /\ <<k, p>> \in DOMAIN v.item
      BY <1>4, <1>10, <2>2
    <3>2. ~Stale(c)
      BY <1>9, <1>14, <2>2
    <3>3. k \in Homes(p)
      BY <1>3, <1>12, <3>1, <3>2 DEF Homes
    <3>4. Homes(p)' = {k}
      BY <2>1, <3>3, OneHome
    <3>5. con'[k].ship = s
      BY <1>3, <1>4, <1>6, <1>12, <3>1, <3>2
    <3>6. Place(k)' = IF sent = "Closed" THEN "Export" ELSE "InTransit"
      BY <1>2, <1>3, <1>8, <3>5, FreightConstants DEF Place
    <3>7. QED
      BY <1>11, <2>2, <3>4, <3>6 DEF FollowsAt
  <2>3. CASE p \notin Active(v.item)
    <3>1. ASSUME NEW l \in Homes(p), l \notin adrift', con'[l].ship \notin adrift'
          PROVE  con'[l].ship = con[l].ship /\ Place(l)' = Place(l)
      <4>1. l \in Containers
        BY DEF Homes
      <4>2. l \notin DOMAIN v.con
        <5>1. SUFFICES ASSUME l \in DOMAIN v.con
                       PROVE  FALSE
          OBVIOUS
        <5>2. ~Stale(c) /\ <<l, p>> \in DOMAIN v.item
          BY <1>4, <1>9, <3>1, <5>1
        <5>3. v.item[<<l, p>>].active > 0
          BY <1>12, <5>2 DEF Homes
        <5>4. QED
          BY <1>10, <2>3, <5>2, <5>3
      <4>3. con'[l] = con[l]
        BY <1>6, <4>1, <4>2
      <4>4. con[l].ship # s
        BY <1>13, <3>1, <4>1, <4>2, <4>3 DEF Loaded
      <4>5. con[l].ship \in Shipments \cup {NoShipment}
        BY <1>3, <4>1 DEF TypeOK, ContainerRow
      <4>6. con[l].ship # NoShipment => shp'[con[l].ship].status = shp[con[l].ship].status
        BY <1>8, <4>4, <4>5
      <4>7. QED
        BY <1>3, <4>1, <4>3, <4>6, PlaceStays
    <3>2. pkg'[p] = pkg[p]
      BY <1>11, <2>3
    <3>3. QED
      BY <1>9, <2>1, <3>1, <3>2, FollowsStill
  <2>4. QED
    BY <2>2, <2>3
<1>15. QED
  BY <1>14 DEF Follows

\* What is read, and what is written elsewhere, moves no package.
LEMMA StillFollows ==
  ASSUME HInv, Follows, NEW c \in Calls,
         \/ \E k \in Containers :
              \/ \E p \in Packages, fits \in BOOLEAN : Append(c, p, k, fits)
              \/ \E ps \in SUBSET Packages : Remove(c, ps, k)
              \/ Close(c, k) \/ Cancel(c, k) \/ Open(c, k) \/ Update(c, k)
         \/ \E s \in Shipments :
              \/ CancelShipment(c, s)
              \/ \E k \in Containers : Load(c, k, s) \/ Unload(c, k, s)
              \/ CloseRequest(c, s) \/ Intransit(c, s)
         \/ SIsMember(c) \/ SAdd(c) \/ BuyLabels(c) \/ Refused(c) \/ CloseFails(c) \/ SRem(c)
         \/ TrackingStep(c)
  PROVE  Follows'
<1>1. TypeOK
  BY DEF HInv, TInv
<1>2. CASE \E delivered \in BOOLEAN : SaveDeliverLogPackage(c, delivered)
  <2>1. PICK delivered \in BOOLEAN : SaveDeliverLogPackage(c, delivered)
    BY <1>2
  <2>2. PICK p \in DOMAIN call[c].seen.pkg :
          /\ SetStatus({p}, IF delivered THEN "Delivered" ELSE call[c].seen.pkg[p])
          /\ told' = IF delivered THEN told \cup {p} ELSE told
          /\ adrift' = IF call[c].seen.pkg[p] # pkg[p] THEN adrift \cup {p} ELSE adrift
    BY <2>1 DEF SaveDeliverLogPackage
  <2>3. item' = item /\ con' = con /\ shp' = shp
    BY <2>1 DEF SaveDeliverLogPackage
  <2>4. \A q \in Packages : q \notin adrift' /\ q \notin told' => pkg'[q] = pkg[q]
    BY <2>2 DEF SetStatus
  <2>5. adrift \subseteq adrift' /\ told \subseteq told'
    BY <2>2
  <2>6. QED
    BY <1>1, <2>3, <2>4, <2>5, NothingMoves
<1>3. CASE ~\E delivered \in BOOLEAN : SaveDeliverLogPackage(c, delivered)
  <2>1. UNCHANGED db /\ adrift \subseteq adrift'
    BY <1>3 DEF Append, Remove, Close, Cancel, Open, Update, CancelShipment, Load, Unload,
                CloseRequest, Intransit, Read, SIsMember, SAdd, BuyLabels, Refused, CloseFails,
                SRem, TrackingStep, Track, NoNews
  <2>2. QED
    BY <1>1, <2>1, NothingMoves DEF db
<1>4. QED
  BY <1>2, <1>3

\* Every step leaves the status of a package where its container and its shipment are.
LEMMA NextFollows == HInv /\ Follows /\ [Next]_vars => Follows'
<1>1. SUFFICES ASSUME HInv, Follows, [Next]_vars
               PROVE  Follows'
  OBVIOUS
<1>2. CASE UNCHANGED vars \/ Crash
  <2>1. UNCHANGED db /\ adrift' = adrift
    BY <1>2 DEF vars, Crash
  <2>2. QED
    BY <1>1, <2>1, NothingMoves DEF db, HInv, TInv
<1>3. ASSUME NEW c \in Calls, ContainerStep(c) \/ ShipmentStep(c) \/ TrackingStep(c)
      PROVE  Follows'
  BY <1>1, <1>3, ScanFollows, MisfitFollows, RemovalFollows, SaveFollows, CancelFollows,
     LoadFollows, SendFollows, StillFollows DEF ContainerStep, ShipmentStep
<1>4. QED
  BY <1>1, <1>2, <1>3 DEF Next

\* The status of a package says where it is, whatever handlers and rounds of the scheduler
\* overlap, unless a row was written from an outdated read, or the package was moved that
\* had left its container or had been delivered.
THEOREM StatusesFollow == Spec => []StatusFollowsFreight
<1>1. Init => Follows
  BY DEF Init, Follows, FollowsAt, Homes, Scanned
<1>2. Follows => StatusFollowsFreight
  BY DEF Follows, FollowsAt, StatusFollowsFreight
<1>3. QED
  BY <1>1, <1>2, InitHeld, NextHeld, NextFollows, PTL DEF Spec

-----------------------------------------------------------------------------
(* The labels: LabelsAccounted.  A shipment has one call that closes it, which finds  *)
(* it unsent until it has saved; a sent one has containers, so it is not cancelled.    *)

LabelAt(s) ==
  /\ \A c, d \in Closers(s) : c = d
  /\ \A c \in Closers(s) : call[c].op # "unmark" => shp[s].status \notin Sent
  /\ shp[s].status \in Sent => shp[s].quantity # 0
  /\ bought[s] <= IF Savers(s) # {} \/ shp[s].status \in Sent THEN 1 ELSE 0
Labels == \A s \in Shipments : s \notin adrift => LabelAt(s)

\* Where no call begins to close, and none comes to save its labels or leaves that.
LEMMA ClosersStay ==
  ASSUME NEW c \in Calls, \A d \in Calls : d # c => call'[d] = call[d],
         call[c].op # "save", call'[c].op # "save",
         \/ call'[c].op \notin ClosingOps
         \/ call[c].op \in ClosingOps \ {"unmark"} /\ call'[c].seen = call[c].seen,
         NEW s \in Shipments
  PROVE  /\ Closers(s)' \subseteq Closers(s)
         /\ \A d \in Closers(s)' : call'[d].op # "unmark" => call[d].op # "unmark"
         /\ Savers(s)' = Savers(s)
<1>1. \A d \in Closers(s)' : d \in Closers(s) /\ (call'[d].op # "unmark" => call[d].op # "unmark")
  <2>1. SUFFICES ASSUME NEW d \in Closers(s)'
                 PROVE  d \in Closers(s) /\ (call'[d].op # "unmark" => call[d].op # "unmark")
    OBVIOUS
  <2>2. d \in Calls /\ call'[d].op \in ClosingOps /\ s \in DOMAIN call'[d].seen.shp
    BY DEF Closers, ClosingOps
  <2>3. CASE d = c
    BY <2>2, <2>3 DEF Closers, ClosingOps
  <2>4. CASE d # c
    BY <2>2, <2>4 DEF Closers, ClosingOps
  <2>5. QED
    BY <2>3, <2>4
<1>2. Savers(s)' = Savers(s)
  <2>1. \A d \in Calls : /\ call'[d].op = "save" <=> call[d].op = "save"
                         /\ call[d].op = "save" => call'[d] = call[d]
    OBVIOUS
  <2>2. QED
    BY <2>1 DEF Savers, Buys
<1>3. QED
  BY <1>1, <1>2

\* A shipment whose purchases and whose row stay.
LEMMA LabelStays ==
  ASSUME NEW s \in Shipments, LabelAt(s),
         Closers(s)' \subseteq Closers(s), Savers(s)' = Savers(s), bought'[s] = bought[s],
         \A d \in Closers(s)' : call'[d].op # "unmark" => call[d].op # "unmark",
         shp'[s].status \in Sent <=> shp[s].status \in Sent,
         shp[s].status \in Sent => shp'[s].quantity = shp[s].quantity
  PROVE  LabelAt(s)'
<1>1. \A c, d \in Closers(s)' : c = d
  BY DEF LabelAt
<1>2. \A d \in Closers(s)' : call'[d].op # "unmark" => shp'[s].status \notin Sent
  BY DEF LabelAt
<1>3. QED
  BY <1>1, <1>2 DEF LabelAt

\* All shipments, where no call begins to close or comes to save.
LEMMA LabelsStay ==
  ASSUME Labels, bought' = bought, adrift \subseteq adrift',
         NEW c \in Calls, \A d \in Calls : d # c => call'[d] = call[d],
         call[c].op # "save", call'[c].op # "save",
         \/ call'[c].op \notin ClosingOps
         \/ call[c].op \in ClosingOps \ {"unmark"} /\ call'[c].seen = call[c].seen,
         \A s \in Shipments : s \notin adrift' =>
           /\ shp'[s].status \in Sent <=> shp[s].status \in Sent
           /\ shp[s].status \in Sent => shp'[s].quantity = shp[s].quantity
  PROVE  Labels'
<1>1. SUFFICES ASSUME NEW s \in Shipments, s \notin adrift'
               PROVE  LabelAt(s)'
  BY DEF Labels
<1>2. LabelAt(s)
  BY <1>1 DEF Labels
<1>3. /\ Closers(s)' \subseteq Closers(s) /\ Savers(s)' = Savers(s)
      /\ \A d \in Closers(s)' : call'[d].op # "unmark" => call[d].op # "unmark"
  BY ClosersStay
<1>4. QED
  BY <1>1, <1>2, <1>3, LabelStays

\* How a call goes on that reads, ends or works off its page.
LEMMA CallLeaves ==
  ASSUME HInv, NEW c \in Calls
  PROVE  /\ Return(c) => call'[c].op = "none" /\ \A d \in Calls : d # c => call'[d] = call[d]
         /\ \A op : Goto(c, op) => /\ call'[c].op = op /\ call'[c].seen = call[c].seen
                                   /\ \A d \in Calls : d # c => call'[d] = call[d]
         /\ \A op, ps, ks, is, ss : Read(c, op, ps, ks, is, ss) =>
              /\ call[c].op = "none" /\ call'[c].op = op /\ call'[c].seen = View(ps, ks, is, ss)
              /\ \A d \in Calls : d # c => call'[d] = call[d]
         /\ \A p : NextOnPage(c, p) /\ call[c].op = "track" =>
              /\ call'[c].op \in {"none", "track"}
              /\ \A d \in Calls : d # c => call'[d] = call[d]
<1>1. CallsTyped /\ DOMAIN call = Calls
  BY DEF HInv, TInv, TypeOK
<1>2. ASSUME NEW x, call' = [call EXCEPT ![c] = x]
      PROVE  call'[c] = x /\ \A d \in Calls : d # c => call'[d] = call[d]
  BY <1>1, <1>2
<1> Idle.op = "none"
  BY DEF Idle
<1>3. Return(c) => call'[c].op = "none" /\ \A d \in Calls : d # c => call'[d] = call[d]
  BY <1>2 DEF Return
<1>4. ASSUME NEW op, Goto(c, op)
      PROVE  /\ call'[c].op = op /\ call'[c].seen = call[c].seen
             /\ \A d \in Calls : d # c => call'[d] = call[d]
  <2>1. call' = [call EXCEPT ![c] = [op |-> op, seen |-> call[c].seen]]
    BY <1>1, <1>4, GotoIs
  <2>2. QED
    BY <1>2, <2>1
<1>5. ASSUME NEW op, NEW ps, NEW ks, NEW is, NEW ss, Read(c, op, ps, ks, is, ss)
      PROVE  /\ call[c].op = "none" /\ call'[c].op = op /\ call'[c].seen = View(ps, ks, is, ss)
             /\ \A d \in Calls : d # c => call'[d] = call[d]
  <2>1. call' = [call EXCEPT ![c] = [op |-> op, seen |-> View(ps, ks, is, ss)]] /\ call[c] = Idle
    BY <1>5 DEF Read
  <2>2. QED
    BY <1>2, <2>1
<1>6. ASSUME NEW p, NextOnPage(c, p), call[c].op = "track"
      PROVE  /\ call'[c].op \in {"none", "track"}
             /\ \A d \in Calls : d # c => call'[d] = call[d]
  <2>1. CASE Return(c)
    BY <1>3, <2>1
  <2>2. ASSUME NEW left, call' = [call EXCEPT ![c].seen.pkg = Restrict(@, left)]
        PROVE  /\ call'[c].op = "track" /\ \A d \in Calls : d # c => call'[d] = call[d]
    <3>1. DEFINE seen == [call[c].seen EXCEPT !.pkg = Restrict(call[c].seen.pkg, left)]
    <3>2. call' = [call EXCEPT ![c] = [call[c] EXCEPT !.seen = seen]]
      BY <2>2
    <3> HIDE DEF seen
    <3>3. call'[c] = [call[c] EXCEPT !.seen = seen] /\ \A d \in Calls : d # c => call'[d] = call[d]
      BY <1>2, <3>2
    <3>4. call[c] = [op |-> "track", seen |-> call[c].seen]
      BY <1>1, <1>6 DEF CallsTyped, IsCall
    <3>5. QED
      BY <3>3, <3>4
  <2>3. QED
    BY <1>6, <2>1, <2>2 DEF NextOnPage
<1>7. QED
  BY <1>3, <1>4, <1>5, <1>6

\* The steps of containers and of the scheduler, and what other handlers of shipments
\* read: no label is bought, and no shipment written.
LEMMA OthersLabels ==
  ASSUME HInv, Labels, NEW c \in Calls,
         \/ ContainerStep(c) \/ TrackingStep(c)
         \/ \E s \in Shipments :
              \/ CancelShipment(c, s) \/ Intransit(c, s)
              \/ \E k \in Containers : Load(c, k, s) \/ Unload(c, k, s)
         \/ SIsMember(c) \/ SAdd(c) \/ Refused(c) \/ SRem(c)
  PROVE  Labels'
<1>1. bought' = bought /\ shp' = shp /\ adrift \subseteq adrift'
  <2>1. CASE ContainerStep(c)
    BY <2>1, AdriftGrows DEF ContainerStep, Append, Remove, Close, Cancel, Open, Update, Read, db,
       SaveContainerAndPackage, SaveFailPackageContainer, CancelPackagesInContainer, CloseContainer,
       SaveContainer
  <2>2. CASE TrackingStep(c)
    BY <2>2 DEF TrackingStep, Track, NoNews, SaveDeliverLogPackage, Read, db
  <2>3. CASE ~(ContainerStep(c) \/ TrackingStep(c))
    BY <2>3 DEF CancelShipment, Load, Unload, Intransit, SIsMember, SAdd, Refused, SRem, Read, db
  <2>4. QED
    BY <2>1, <2>2, <2>3
<1>2. \/ Return(c) /\ call[c].op # "save"
      \/ \E op \in Ops \ ClosingOps, ps \in SUBSET Packages, ks \in SUBSET Containers,
            is \in SUBSET (Containers \X Packages), ss \in SUBSET Shipments : Read(c, op, ps, ks, is, ss)
      \/ call[c].op = "track" /\ \E p \in DOMAIN call[c].seen.pkg : NextOnPage(c, p)
      \/ /\ call[c].op \in ClosingOps \ {"unmark", "save"}
         /\ \E op \in ClosingOps \ {"save"} : Goto(c, op)
  <2>1. CASE \E k \in Containers :
               \/ \E p \in Packages, fits \in BOOLEAN : Append(c, p, k, fits)
               \/ \E ps \in SUBSET Packages : Remove(c, ps, k)
               \/ Close(c, k) \/ Cancel(c, k) \/ Open(c, k) \/ Update(c, k)
    BY <2>1 DEF Append, Remove, Close, Cancel, Open, Update, Ops, ClosingOps
  <2>2. CASE \/ SaveContainerAndPackage(c) \/ SaveFailPackageContainer(c)
             \/ CancelPackagesInContainer(c) \/ CloseContainer(c) \/ SaveContainer(c)
    BY <2>2 DEF SaveContainerAndPackage, SaveFailPackageContainer, CancelPackagesInContainer,
                CloseContainer, SaveContainer
  <2>3. CASE TrackingStep(c)
    BY <2>3 DEF TrackingStep, Track, NoNews, SaveDeliverLogPackage, Ops, ClosingOps
  <2>4. CASE \E s \in Shipments :
               \/ CancelShipment(c, s) \/ Intransit(c, s)
               \/ \E k \in Containers : Load(c, k, s) \/ Unload(c, k, s)
    BY <2>4 DEF CancelShipment, Load, Unload, Intransit, Loaded, Ops, ClosingOps
  <2>5. CASE SIsMember(c) \/ SAdd(c) \/ Refused(c) \/ SRem(c)
    BY <2>5 DEF SIsMember, SAdd, Refused, SRem, ClosingOps
  <2>6. QED
    BY <2>1, <2>2, <2>3, <2>4, <2>5 DEF ContainerStep
<1>3. /\ \A d \in Calls : d # c => call'[d] = call[d]
      /\ call[c].op # "save" /\ call'[c].op # "save"
      /\ \/ call'[c].op \notin ClosingOps
         \/ call[c].op \in ClosingOps \ {"unmark"} /\ call'[c].seen = call[c].seen
  <2>1. CASE Return(c) /\ call[c].op # "save"
    BY <2>1, CallLeaves DEF ClosingOps
  <2>2. ASSUME NEW op \in Ops \ ClosingOps, NEW ps, NEW ks, NEW is, NEW ss,
               Read(c, op, ps, ks, is, ss)
        PROVE  call[c].op = "none" /\ call'[c].op = op /\ \A d \in Calls : d # c => call'[d] = call[d]
    BY <2>2, CallLeaves
  <2>3. ASSUME call[c].op = "track", NEW p, NextOnPage(c, p)
        PROVE  /\ call'[c].op \in {"none", "track"}
               /\ \A d \in Calls : d # c => call'[d] = call[d]
    BY <2>3, CallLeaves
  <2>4. ASSUME NEW op \in ClosingOps \ {"save"}, Goto(c, op)
        PROVE  /\ call'[c].op = op /\ call'[c].seen = call[c].seen
               /\ \A d \in Calls : d # c => call'[d] = call[d]
    BY <2>4, CallLeaves
  <2>5. QED
    BY <1>2, <2>1, <2>2, <2>3, <2>4 DEF ClosingOps
<1>4. QED
  BY <1>1, <1>3, LabelsStay

\* A shipment that is loaded, unloaded, cancelled or in transit: it is written as it was
\* read, when it was not sent, or sent already.
LEMMA RowsLabels ==
  ASSUME HInv, Labels, NEW c \in Calls,
         \/ SaveShipment(c) \/ AppendContainerShipment(c) \/ RemoveContainerShipment(c)
         \/ IntransitShipment(c)
  PROVE  Labels'
<1>1. DEFINE v == call[c].seen
<1>2. bought' = bought /\ Return(c) /\ call[c].op # "save"
  BY DEF SaveShipment, AppendContainerShipment, RemoveContainerShipment, IntransitShipment
<1>3. PICK s \in DOMAIN v.shp :
        /\ \/ shp' = [shp EXCEPT ![s] = [v.shp[s] EXCEPT !.quantity = v.shp[s].quantity + 1]]
              /\ v.shp[s].quantity < MaxQuantity /\ call[c].op = "load"
           \/ shp' = [shp EXCEPT ![s] = [v.shp[s] EXCEPT !.quantity = v.shp[s].quantity - 1]]
              /\ v.shp[s].quantity > -MaxQuantity /\ call[c].op = "unload"
           \/ shp' = [shp EXCEPT ![s] = [v.shp[s] EXCEPT !.status = "Canceled"]]
              /\ call[c].op = "cancelShipment"
           \/ shp' = [shp EXCEPT ![s] = [v.shp[s] EXCEPT !.status = "Intransit"]]
              /\ call[c].op = "intransit"
        /\ adrift \subseteq adrift' /\ (Stale(c) => s \in adrift')
  <2>1. CASE AppendContainerShipment(c)
    BY <2>1 DEF AppendContainerShipment, Moved
  <2>2. CASE RemoveContainerShipment(c)
    BY <2>2 DEF RemoveContainerShipment
  <2>3. CASE SaveShipment(c)
    BY <2>3 DEF SaveShipment, Wrote
  <2>4. CASE IntransitShipment(c)
    BY <2>4 DEF IntransitShipment, Moved
  <2>5. QED
    BY <2>1, <2>2, <2>3, <2>4
<1>4. s \in Shipments /\ v.shp[s] \in ShipmentRow /\ TypeOK
  BY SeenTyped DEF HInv, TInv
<1>5. Fact(call[c], adrift)
  BY DEF HInv, Held
<1>6. \A t \in Shipments : t # s => shp'[t] = shp[t]
  BY <1>3, <1>4 DEF TypeOK
<1>7. ASSUME s \notin adrift'
      PROVE  /\ shp'[s].status \in Sent <=> shp[s].status \in Sent
             /\ shp[s].status \in Sent => shp'[s].quantity = shp[s].quantity
  <2>1. v.shp[s] = shp[s] /\ s \notin adrift
    BY <1>3, <1>7, Fresh
  <2>2. CASE call[c].op \in {"load", "unload"}
    <3>1. v.shp[s].status = "WaitingClose"
      BY <1>5, <2>2 DEF Fact
    <3>2. PICK n \in -MaxQuantity..MaxQuantity : shp' = [shp EXCEPT ![s] = [v.shp[s] EXCEPT !.quantity = n]]
      <4>1. v.shp[s].quantity \in -MaxQuantity..MaxQuantity
        BY <1>4 DEF ShipmentRow
      <4>2. /\ v.shp[s].quantity < MaxQuantity => v.shp[s].quantity + 1 \in -MaxQuantity..MaxQuantity
            /\ v.shp[s].quantity > -MaxQuantity => v.shp[s].quantity - 1 \in -MaxQuantity..MaxQuantity
        BY <4>1, FreightConstants
      <4>3. QED
        BY <1>3, <2>2, <4>2
    <3>3. [v.shp[s] EXCEPT !.quantity = n].status = v.shp[s].status
      BY <1>4, ShipmentRowTyped
    <3>4. shp'[s].status = "WaitingClose"
      BY <1>4, <3>1, <3>2, <3>3 DEF TypeOK
    <3>5. QED
      BY <2>1, <3>1, <3>4 DEF Sent
  <2>3. CASE call[c].op = "cancelShipment"
    <3>1. v.shp[s].quantity = 0
      BY <1>5, <2>1, <2>3 DEF Fact
    <3>2. shp[s].status \notin Sent
      BY <1>4, <2>1, <3>1 DEF Labels, LabelAt
    <3>3. [v.shp[s] EXCEPT !.status = "Canceled"].status = "Canceled"
      BY <1>4, ShipmentRowTyped
    <3>4. shp'[s].status = "Canceled"
      BY <1>3, <1>4, <2>3, <3>3 DEF TypeOK
    <3>5. QED
      BY <3>2, <3>4 DEF Sent
  <2>4. CASE call[c].op = "intransit"
    <3>1. v.shp[s].status = "Closed"
      BY <1>5, <2>4 DEF Fact
    <3>2. DEFINE sr == [v.shp[s] EXCEPT !.status = "Intransit"]
    <3>3. sr.status = "Intransit" /\ sr.quantity = v.shp[s].quantity
      BY <1>4, ShipmentRowTyped
    <3>4. shp'[s] = sr
      BY <1>3, <1>4, <2>4 DEF TypeOK
    <3> HIDE DEF sr
    <3>5. QED
      BY <2>1, <3>1, <3>3, <3>4 DEF Sent
  <2>5. QED
    BY <1>3, <2>2, <2>3, <2>4
<1>8. \A t \in Shipments : t \notin adrift' =>
        /\ shp'[t].status \in Sent <=> shp[t].status \in Sent
        /\ shp[t].status \in Sent => shp'[t].quantity = shp[t].quantity
  BY <1>6, <1>7
<1>9. call'[c].op = "none" /\ \A d \in Calls : d # c => call'[d] = call[d]
  BY <1>2, CallLeaves
<1>10. QED
  BY <1>2, <1>3, <1>8, <1>9, LabelsStay DEF ClosingOps

\* A call that begins to close is the only one, or the shipment is adrift.
LEMMA RequestLabels ==
  ASSUME HInv, Labels, NEW c \in Calls, NEW s \in Shipments, CloseRequest(c, s)
  PROVE  Labels'
<1>1. /\ bought' = bought /\ shp' = shp /\ shp[s].status = "WaitingClose"
      /\ adrift' = IF Closers(s) = {} THEN adrift ELSE adrift \cup {s}
      /\ Read(c, "test", {}, Loaded(s), Loaded(s) \X Packages, {s})
  BY DEF CloseRequest, Read, db
<1>2. /\ call[c].op = "none" /\ call'[c].op = "test"
      /\ call'[c].seen = View({}, Loaded(s), Loaded(s) \X Packages, {s})
      /\ \A d \in Calls : d # c => call'[d] = call[d]
  BY <1>1, CallLeaves
<1>3. DOMAIN call'[c].seen.shp = {s}
  BY <1>2, ViewRows
<1>4. \A t \in Shipments : Savers(t)' = Savers(t)
  <2>1. \A d \in Calls : /\ call'[d].op = "save" <=> call[d].op = "save"
                         /\ call[d].op = "save" => call'[d] = call[d]
    BY <1>2
  <2>2. QED
    BY <2>1 DEF Savers, Buys
<1>5. \A t \in Shipments : Closers(t)' = IF t = s THEN Closers(t) \cup {c} ELSE Closers(t)
  BY <1>2, <1>3 DEF Closers
<1>6. ASSUME NEW t \in Shipments, t \notin adrift'
      PROVE  LabelAt(t)'
  <2>1. LabelAt(t)
    BY <1>1, <1>6 DEF Labels
  <2>2. CASE t # s
    <3>1. Closers(t)' = Closers(t) /\ c \notin Closers(t)
      BY <1>2, <1>5, <2>2 DEF Closers
    <3>2. \A d \in Closers(t)' : call'[d].op # "unmark" => call[d].op # "unmark"
      BY <1>2, <3>1 DEF Closers
    <3>3. QED
      BY <1>1, <1>4, <2>1, <3>1, <3>2, LabelStays
  <2>3. CASE t = s
    <3>1. Closers(t)' = {c}
      BY <1>1, <1>5, <1>6, <2>3
    <3>2. shp'[t].status \notin Sent
      BY <1>1, <2>3 DEF Sent
    <3>3. bought'[t] <= IF Savers(t)' # {} \/ shp'[t].status \in Sent THEN 1 ELSE 0
      BY <1>1, <1>4, <2>1 DEF LabelAt
    <3>4. QED
      BY <3>1, <3>2, <3>3 DEF LabelAt
  <2>4. QED
    BY <2>2, <2>3
<1>7. QED
  BY <1>6 DEF Labels

\* Who saves closes.
LEMMA SaversClose ==
  ASSUME NEW s
  PROVE  Savers(s) \subseteq Closers(s)
BY DEF Savers, Closers

\* A call that closes goes on and keeps what it has read.
LEMMA ClosersGoOn ==
  ASSUME HInv, NEW c \in Calls, call[c].op \in ClosingOps, NEW op \in ClosingOps, Goto(c, op)
  PROVE  /\ call'[c].op = op /\ call'[c].seen = call[c].seen
         /\ \A d \in Calls : d # c => call'[d] = call[d]
         /\ \A s : Closers(s)' = Closers(s)
         /\ \A s : Savers(s)' = IF op = "save" /\ Buys(c) /\ s \in DOMAIN call[c].seen.shp
                                THEN Savers(s) \cup {c} ELSE Savers(s) \ {c}
<1>1. /\ call'[c].op = op /\ call'[c].seen = call[c].seen
      /\ \A d \in Calls : d # c => call'[d] = call[d]
  BY CallLeaves
<1>2. \A s : Closers(s)' = Closers(s)
  BY <1>1 DEF Closers, ClosingOps
<1>3. \A s : Savers(s)' = IF op = "save" /\ Buys(c) /\ s \in DOMAIN call[c].seen.shp
                          THEN Savers(s) \cup {c} ELSE Savers(s) \ {c}
  BY <1>1 DEF Savers, Buys
<1>4. QED
  BY <1>1, <1>2, <1>3

\* The labels of a shipment that was not sent and has none are bought.
LEMMA PurchaseLabels ==
  ASSUME HInv, Labels, NEW c \in Calls, BuyLabels(c)
  PROVE  Labels'
<1>1. PICK s \in DOMAIN call[c].seen.shp :
        bought' = IF Buys(c) THEN [bought EXCEPT ![s] = @ + 1] ELSE bought
  BY DEF BuyLabels
<1>2. call[c].op = "buy" /\ shp' = shp /\ adrift' = adrift
  BY DEF BuyLabels, db
<1>3. /\ call'[c].op = "save" /\ \A d \in Calls : d # c => call'[d] = call[d]
      /\ \A t : Closers(t)' = Closers(t)
      /\ \A t : Savers(t)' = IF Buys(c) /\ t \in DOMAIN call[c].seen.shp
                             THEN Savers(t) \cup {c} ELSE Savers(t) \ {c}
  BY <1>2, ClosersGoOn DEF BuyLabels, ClosingOps
<1>4. s \in Shipments /\ bought \in [Shipments -> 0..MaxLabels]
  BY SeenTyped DEF HInv, TInv, TypeOK
<1>5. \A t \in DOMAIN call[c].seen.shp : t = s
  BY DEF HInv, TInv, Narrow
<1>6. ASSUME NEW t \in Shipments, t \notin adrift'
      PROVE  LabelAt(t)'
  <2>1. LabelAt(t) /\ bought[t] \in Int
    BY <1>2, <1>4, <1>6 DEF Labels
  <2>2. \A d \in Closers(t)' : call'[d].op # "unmark" => call[d].op # "unmark"
    BY <1>2, <1>3 DEF Closers
  <2>3. CASE Buys(c) /\ t = s
    <3>1. c \in Closers(t)
      BY <1>2, <2>3 DEF Closers
    <3>2. shp[t].status \notin Sent /\ Closers(t) = {c}
      BY <1>2, <2>1, <3>1 DEF LabelAt
    <3>3. Savers(t) = {}
      BY <1>2, <3>2, SaversClose DEF Savers
    <3>4. bought[t] <= 0
      BY <2>1, <3>2, <3>3 DEF LabelAt
    <3>5. bought'[t] <= 1 /\ Savers(t)' # {}
      BY <1>1, <1>3, <1>4, <2>1, <2>3, <3>4
    <3>6. bought'[t] <= IF Savers(t)' # {} \/ shp'[t].status \in Sent THEN 1 ELSE 0
      BY <3>5
    <3>7. QED
      BY <1>2, <1>3, <2>1, <2>2, <3>2, <3>6 DEF LabelAt
  <2>4. CASE ~(Buys(c) /\ t = s)
    <3>1. Savers(t)' = Savers(t)
      <4>1. c \notin Savers(t)
        BY <1>2 DEF Savers
      <4>2. QED
        BY <1>3, <1>5, <2>4, <4>1
    <3>2. bought'[t] = bought[t]
      BY <1>1, <1>4, <2>4
    <3>3. QED
      BY <1>2, <1>3, <2>1, <2>2, <3>1, <3>2, LabelStays
  <2>5. QED
    BY <2>3, <2>4
<1>7. QED
  BY <1>6 DEF Labels

\* What is left when purchases are lost: none of the shipment's, if a call would have
\* saved them.
LEMMA LossLeaves ==
  ASSUME HInv, NEW s \in Shipments, LabelAt(s), NEW cs \in SUBSET Calls, Lose(cs)
  PROVE  /\ bought'[s] <= IF Savers(s) \ cs # {} \/ shp[s].status \in Sent THEN 1 ELSE 0
         /\ Savers(s) \cap cs = {} => bought'[s] = bought[s]
<1>1. bought'[s] = bought[s] - Cardinality(Savers(s) \cap cs) /\ bought[s] \in Int
  BY LossTyped DEF HInv, TInv, TypeOK
<1>2. CASE Savers(s) \cap cs = {}
  <2>1. Cardinality(Savers(s) \cap cs) = 0
    BY <1>2, FS_EmptySet
  <2>2. Savers(s) \ cs = Savers(s)
    BY <1>2
  <2>3. QED
    BY <1>1, <2>1, <2>2 DEF LabelAt
<1>3. ASSUME NEW c \in Savers(s) \cap cs
      PROVE  bought'[s] <= 0
  <2>1. c \in Closers(s) /\ call[c].op = "save"
    BY SaversClose DEF Savers
  <2>2. Savers(s) \cap cs = {c}
    BY <2>1, SaversClose DEF LabelAt
  <2>3. Cardinality({c}) = 1
    BY FS_Singleton
  <2>4. bought[s] <= 1
    BY <1>1 DEF LabelAt
  <2>5. QED
    BY <1>1, <2>2, <2>3, <2>4
<1>4. bought'[s] \in Int
  BY LossTyped DEF HInv
<1>5. QED
  BY <1>2, <1>3, <1>4

\* A closing that fails loses what it has bought.
LEMMA FailureLabels ==
  ASSUME HInv, Labels, NEW c \in Calls, CloseFails(c)
  PROVE  Labels'
<1>1. call[c].op = "save" /\ shp' = shp /\ adrift' = adrift /\ Lose({c})
  BY DEF CloseFails, db
<1>2. /\ call'[c].op = "unmark" /\ \A d \in Calls : d # c => call'[d] = call[d]
      /\ \A t : Closers(t)' = Closers(t) /\ Savers(t)' = Savers(t) \ {c}
  BY <1>1, ClosersGoOn DEF CloseFails, ClosingOps
<1>3. ASSUME NEW t \in Shipments, t \notin adrift'
      PROVE  LabelAt(t)'
  <2>1. LabelAt(t)
    BY <1>1, <1>3 DEF Labels
  <2>2. bought'[t] <= IF Savers(t)' # {} \/ shp'[t].status \in Sent THEN 1 ELSE 0
    BY <1>1, <1>2, <2>1, LossLeaves
  <2>3. \A d \in Closers(t)' : call'[d].op # "unmark" => shp'[t].status \notin Sent
    BY <1>1, <1>2, <2>1 DEF LabelAt, Closers
  <2>4. QED
    BY <1>1, <1>2, <2>1, <2>2, <2>3 DEF LabelAt
<1>4. QED
  BY <1>3 DEF Labels

\* A restart ends every closing, and what was bought for it is lost.
LEMMA CrashLabels ==
  ASSUME HInv, Labels, Crash
  PROVE  Labels'
<1>1. shp' = shp /\ adrift' = adrift /\ Lose(Calls)
  BY DEF Crash, db
<1>2. \A c \in Calls : call'[c].op \notin ClosingOps
  <2>1. Idle.op = "none"
    BY DEF Idle
  <2>2. QED
    BY <2>1 DEF Crash, ClosingOps
<1>3. \A t : Closers(t)' = {} /\ Savers(t)' = {}
  BY <1>2 DEF Closers, Savers, ClosingOps
<1>4. ASSUME NEW t \in Shipments, t \notin adrift'
      PROVE  LabelAt(t)'
  <2>1. LabelAt(t)
    BY <1>1, <1>4 DEF Labels
  <2>2. Savers(t) \ Calls = {}
    BY DEF Savers
  <2>3. bought'[t] <= IF shp[t].status \in Sent THEN 1 ELSE 0
    BY <1>1, <2>1, <2>2, LossLeaves
  <2>4. QED
    BY <1>1, <1>3, <2>1, <2>3 DEF LabelAt
<1>5. QED
  BY <1>4 DEF Labels

\* A closing is saved: it was the only one, its purchase is that of the shipment, and
\* the shipment has containers.
LEMMA ClosingLabels ==
  ASSUME HInv, Labels, NEW c \in Calls, CloseShipment(c)
  PROVE  Labels'
<1>1. DEFINE v == call[c].seen
<1>2. PICK s \in DOMAIN v.shp :
        /\ Active(v.item) # {} /\ shp' = [shp EXCEPT ![s] = [v.shp[s] EXCEPT !.status = "Closed"]]
        /\ adrift \subseteq adrift' /\ (Stale(c) => s \in adrift')
  BY DEF CloseShipment, Moved
<1>3. call[c].op = "save" /\ Goto(c, "unmark") /\ bought' = bought
  BY DEF CloseShipment
<1>4. /\ call'[c].op = "unmark" /\ \A d \in Calls : d # c => call'[d] = call[d]
      /\ \A t : Closers(t)' = Closers(t) /\ Savers(t)' = Savers(t) \ {c}
  BY <1>3, ClosersGoOn DEF ClosingOps
<1>5. /\ s \in Shipments /\ v.shp[s] \in ShipmentRow /\ TypeOK
      /\ DOMAIN v.con \in SUBSET Containers
  BY SeenTyped DEF HInv, TInv
<1>6. Fact(call[c], adrift)
  BY DEF HInv, Held
<1>7. DEFINE sr == [v.shp[s] EXCEPT !.status = "Closed"]
<1>8. sr.status = "Closed" /\ sr.quantity = v.shp[s].quantity
  BY <1>5, ShipmentRowTyped
<1>9. shp'[s] = sr /\ \A t \in Shipments : t # s => shp'[t] = shp[t]
  BY <1>2, <1>5 DEF TypeOK
<1>10. \A t \in DOMAIN v.shp : t = s
  BY DEF HInv, TInv, Narrow
<1>11. DOMAIN v.con # {}
  <2>1. PICK kp \in DOMAIN v.item : TRUE
    BY <1>2 DEF Active
  <2>2. DOMAIN v.item = (DOMAIN v.con) \X Packages
    BY <1>3, <1>6 DEF Fact, ClosingOps
  <2>3. QED
    BY <2>1, <2>2
<1>12. s \notin adrift' => v.shp[s].quantity # 0
  <2>1. SUFFICES ASSUME s \notin adrift'
                 PROVE  v.shp[s].quantity # 0
    OBVIOUS
  <2>2. v.shp[s].quantity = Cardinality(DOMAIN v.con)
    BY <1>2, <1>3, <1>6, <2>1 DEF Fact, ClosingOps
  <2>3. IsFiniteSet(DOMAIN v.con)
    BY <1>5, ContainersFinite
  <2>4. Cardinality(DOMAIN v.con) # 0
    BY <1>11, <2>3, FS_EmptySet
  <2>5. QED
    BY <2>2, <2>4
<1>13. c \in Closers(s)
  BY <1>3 DEF Closers
<1> HIDE DEF v, sr
<1>14. ASSUME NEW t \in Shipments, t \notin adrift'
       PROVE  LabelAt(t)'
  <2>1. LabelAt(t)
    BY <1>2, <1>14 DEF Labels
  <2>2. CASE t = s
    <3>1. Closers(t)' = {c}
      BY <1>4, <1>13, <2>1, <2>2 DEF LabelAt
    <3>2. shp'[t].status \in Sent /\ shp'[t].quantity # 0
      BY <1>8, <1>9, <1>12, <1>14, <2>2 DEF Sent
    <3>3. bought'[t] <= 1
      <4>1. bought[t] \in Int
        BY <1>5 DEF TypeOK
      <4>2. QED
        BY <1>3, <2>1, <4>1 DEF LabelAt
    <3>4. QED
      BY <1>4, <3>1, <3>2, <3>3 DEF LabelAt
  <2>3. CASE t # s
    <3>1. Savers(t)' = Savers(t)
      <4>1. c \notin Savers(t)
        BY <1>10, <2>3 DEF Savers, v
      <4>2. QED
        BY <1>4, <4>1
    <3>2. \A d \in Closers(t)' : call'[d].op # "unmark" => call[d].op # "unmark"
      BY <1>4 DEF Closers
    <3>3. QED
      BY <1>3, <1>4, <1>9, <2>1, <2>3, <3>1, <3>2, LabelStays
  <2>4. QED
    BY <2>2, <2>3
<1>15. QED
  BY <1>14 DEF Labels

\* Every step accounts for the labels of the shipments that are not adrift.
LEMMA NextLabels == HInv /\ Labels /\ [Next]_vars => Labels'
<1>1. SUFFICES ASSUME HInv, Labels, [Next]_vars
               PROVE  Labels'
  OBVIOUS
<1>2. CASE UNCHANGED vars
  <2>1. call' = call /\ shp' = shp /\ bought' = bought /\ adrift' = adrift
    BY <1>2 DEF vars, db
  <2>2. QED
    BY <1>1, <2>1 DEF Labels, LabelAt, Closers, Savers, Buys
<1>3. CASE Crash
  BY <1>1, <1>3, CrashLabels
<1>4. ASSUME NEW c \in Calls, ContainerStep(c) \/ TrackingStep(c)
      PROVE  Labels'
  BY <1>1, <1>4, OthersLabels
<1>5. ASSUME NEW c \in Calls, ShipmentStep(c)
      PROVE  Labels'
  <2>1. CASE \E s \in Shipments :
               \/ CancelShipment(c, s) \/ Intransit(c, s)
               \/ \E k \in Containers : Load(c, k, s) \/ Unload(c, k, s)
    BY <1>1, <2>1, OthersLabels
  <2>2. CASE SIsMember(c) \/ SAdd(c) \/ Refused(c) \/ SRem(c)
    BY <1>1, <2>2, OthersLabels
  <2>3. CASE \/ SaveShipment(c) \/ AppendContainerShipment(c) \/ RemoveContainerShipment(c)
             \/ IntransitShipment(c)
    BY <1>1, <2>3, RowsLabels
  <2>4. CASE \E s \in Shipments : CloseRequest(c, s)
    BY <1>1, <2>4, RequestLabels
  <2>5. CASE BuyLabels(c) \/ CloseFails(c) \/ CloseShipment(c)
    BY <1>1, <2>5, PurchaseLabels, FailureLabels, ClosingLabels
  <2>6. QED
    BY <1>5, <2>1, <2>2, <2>3, <2>4, <2>5 DEF ShipmentStep
<1>6. QED
  BY <1>1, <1>2, <1>3, <1>4, <1>5 DEF Next

\* At most one purchase of labels stands for a shipment, and only while a call saves it or
\* once it was sent, whatever closings, cancellations and restarts overlap, unless a row
\* was written from an outdated read or two calls closed at once.
THEOREM LabelsAreAccounted == Spec => []LabelsAccounted
<1>1. Init => Labels
  <2>1. SUFFICES ASSUME Init
                 PROVE  Labels
    OBVIOUS
  <2>2. Idle.op = "none"
    BY DEF Idle
  <2>3. \A s : Closers(s) = {}
    BY <2>1, <2>2 DEF Init, Closers
  <2>4. \A s \in Shipments : shp[s].status \notin Sent /\ bought[s] = 0
    BY <2>1 DEF Init, Sent
  <2>5. QED
    BY <2>3, <2>4 DEF Labels, LabelAt
<1>2. HInv /\ Labels => LabelsAccounted
  <2>1. SUFFICES ASSUME HInv, NEW s \in Shipments, LabelAt(s)
                 PROVE  LET saving == \E c \in Closers(s) : call[c].op = "save" IN
                        bought[s] <= IF saving \/ shp[s].status \in Sent THEN 1 ELSE 0
    BY DEF Labels, LabelsAccounted
  <2>2. bought[s] \in Int
    BY <2>1, SaversCounted DEF HInv
  <2>3. Savers(s) # {} => \E c \in Closers(s) : call[c].op = "save"
    BY SaversClose DEF Savers
  <2>4. QED
    BY <2>1, <2>2, <2>3 DEF LabelAt
<1>3. QED
  BY <1>1, <1>2, InitHeld, NextHeld, NextLabels, PTL DEF Spec
==============================================================================
