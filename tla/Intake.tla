------------------------------- MODULE Intake -------------------------------
(***************************************************************************)
(* A package from its creation to its label: billing and cancellation      *)
(* (Parcel), the labels of TikTok (Labels) and the scales (Weighing), all  *)
(* working on one row.                                                     *)
(***************************************************************************)
EXTENDS Labels, Weighing

\* An error that a call does not go on after.  The call ends and takes its mark away, if
\* Redis lets it.
Fail(c) ==
  /\ calls[c] # Idle /\ Faulty
  /\ marks' \in {marks, marks \ (IF At(c, "call") THEN {"package_call_label"}
                                 ELSE IF At(c, "carrier") THEN {"package_call_label_1"} ELSE {})}
  /\ harm' = harm \cup (IF At(c, "create") THEN {"tracking"} ELSE {})
                  \cup (IF At(c, "save") THEN {"money"} ELSE {})
  /\ End(c)
  /\ UNCHANGED <<world, table, queued, heaviest>>

\* The processes restart: consumers lose the messages delivered to them, Redis keeps the
\* marks.
Crash ==
  /\ \E c \in world.actors : calls[c] # Idle
  /\ Faulty
  /\ harm' = harm \cup UNION {(IF At(c, "create") THEN {"tracking"} ELSE {})
                              \cup (IF At(c, "save") THEN {"money"} ELSE {}) : c \in world.actors}
  /\ calls' = [c \in world.actors |-> Idle]
  /\ queued' = {}
  /\ UNCHANGED <<world, table, marks, heaviest>>

Handle(c) ==
  \/ Process(c) \/ CreateBill(c) \/ Cancel(c) \/ CancelPackages(c)
  \/ \E w \in world.weights : Scan(c, w) \/ CheckIn(c, w) \/ Accept(c, w)
  \/ ScanFee(c) \/ ScanSave(c)
  \/ WarehousInCheck(c) \/ Mark(c) \/ CallLabel(c) \/ ExceedPrice(c) \/ UpdateTracking(c) \/ Finish(c)
  \/ Claim(c) \/ Carrier(c) \/ WarehousChecked(c)
  \/ Return(c) \/ ReturnPackage(c)

Work(c) ==
  \/ StoreLabel(c) \/ Ocr(c) \/ ReplaceTracking(c) \/ CreateTrackingTiktok(c)

Next ==
  \/ \E c \in world.actors \cap Handlers : Handle(c)
  \/ \E c \in world.actors \ Handlers :
       ConsumeUpload(c) \/ ConsumeOcr(c) \/ TickUpload(c) \/ TickOcr(c) \/ Work(c)
  \/ \E c \in world.actors : Fail(c)
  \/ Crash

Spec == Init /\ [][Next]_vars

\* The schedulers come round again and again, and what a consumer or a scheduler has
\* begun goes on.
Automatic(c) ==
  c \in world.actors \ Handlers
    /\ (Work(c) \/ (c \notin Consumers /\ (TickUpload(c) \/ TickOcr(c))))
FairSpec == Spec /\ \A c \in Uploads \cup Readers : WF_vars(Automatic(c))

-----------------------------------------------------------------------------
(* Properties. *)

Alive == row.status \in {"PendingPickup", "Picked", "Labeled"}

\* What was taken for a package that is on its way is what its price and its fees say,
\* whatever scales, billing and the readers of labels did in between, unless one of
\* them priced, charged or gave up fees of a package that had changed.
PaidAsRecorded ==
  (Alive /\ "money" \notin harm) => paid = Total(Now)

\* Weighed here and there, a package is charged once for the largest price that was asked
\* for, of a weight or of a label over the limit: with a label of the house exactly, with a
\* label of TikTok at most.  At most, too, once a scan has gone on without a price.  Except
\* when somebody charged what had changed, a scan could not be saved, or the scales charge
\* again what had been charged for the volume of a package that was returned since.
PaidForWeight ==
  (Alive /\ harm \cap {"money", "volume"} = {}) =>
    IF Tiktok \/ "price" \in harm THEN Weighed(Now) <= heaviest ELSE Weighed(Now) = heaviest

\* A package never has two trackings; when its label is done it has one, except to
\* Australia or while a reader puts another in its place, and when it is cancelled it
\* has none.  Unless a call wrote status or tracking of a package that had changed, or a
\* message was read after the cancellation.
TrackingFits ==
  harm \cap {"status", "tracking"} = {} =>
    /\ tracked <= 1
    /\ row.status \in Ended => tracked = 0
    /\ row.status = "Labeled" /\ world.kind # "AU" =>
         tracked = 1 \/ \E c \in world.actors : At(c, "create")

\* A package that was returned waits for its customer: no scale, check-in or label
\* moves it on or takes the alert off, unless the call had read it before it was returned.
ReturnedWaits ==
  [][(row.alert /\ "status" \notin harm') =>
       (row'.status = "PendingPickup" /\ row'.alert) \/ row'.status = "Cancelled"]_vars

\* A link is replaced by the stored file in the end, although messages are lost,
\* uploads fail and stale rows bring the link back, as long as there is the scheduler.
LabelStored ==
  (row.label = "url" /\ \E c \in world.actors : c \in Uploads \ Consumers)
    ~> row.label = "stored"

\* The label of a package is read in the end and its tracking made, or it is found
\* unreadable or not needed any more, wherever an error or a lost message cut a reader off.
LabelRead ==
  (Tiktok /\ \E c \in world.actors : c \in Readers \ Consumers)
    ~> (tracked > 0 \/ row.recipient = "N/A" \/ row.status \in Ended)

\* Both: whatever a consumer loses, the schedulers make up for.
LabelsDone == LabelStored /\ LabelRead
=============================================================================
