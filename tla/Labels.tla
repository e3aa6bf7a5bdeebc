------------------------------- MODULE Labels -------------------------------
(***************************************************************************)
(* The labels customers bring from TikTok.  A label is a link at first;    *)
(* an upload stores its file, and a reader (OCR) takes recipient and       *)
(* tracking number from it.  For both there is a consumer of a queue,      *)
(* whose messages are acknowledged when they are delivered, so that an     *)
(* error loses them, and a scheduler that looks for what was left over.    *)
(***************************************************************************)
EXTENDS Parcel

\* A consumer takes the message of its queue and reads the package, whatever its
\* status.
Consume(c, queue, pc) ==
  /\ c \in Consumers /\ calls[c] = Idle /\ queue \in queued
  /\ queued' = queued \ {queue}
  /\ Read(c, pc, 0)
  /\ UNCHANGED <<world, table, marks, faults, heaviest, harm>>

\* A scheduler reads the packages that have been forgotten.
Tick(c, forgotten, pc) ==
  /\ c \notin Consumers /\ calls[c] = Idle /\ forgotten
  /\ Read(c, pc, 0)
  /\ UNCHANGED <<world, table, queued, marks, faults, heaviest, harm>>

\* uploadTiktokLabel asks for labels that are links, of any status.
NeedToUploadLabel == Tiktok /\ row.label = "url"

\* Mutant: OCR counts as done once the recipient is read.
NeedToOcrOnce ==
  Tiktok /\ tracked = 0 /\ row.recipient = "given" /\ row.status \notin Ended

\* The OCR scheduler asks for packages without a tracking, unless OCR has failed.
NeedToOcr ==
  Tiktok /\ tracked = 0 /\ row.recipient # "N/A" /\ row.status \notin Ended

ConsumeUpload(c) == c \in Uploads /\ Consume(c, "upload", "store")
ConsumeOcr(c) == c \in Readers /\ Consume(c, "ocr", "ocr")
TickUpload(c) == c \in Uploads /\ Tick(c, NeedToUploadLabel, "store")
TickOcr(c) == c \in Readers /\ Tick(c, NeedToOcr, "ocr")

-----------------------------------------------------------------------------
\* The label is stored, and the whole row written as it was read.  If the label cannot
\* be stored, the link of the customer is written instead.
StoreLabel(c) ==
  /\ At(c, "store")
  /\ IF SeenBy(c).row.label # "url" THEN UNCHANGED <<row, faults, harm>>
     ELSE /\ \/ UpdatePackage([SeenBy(c).row EXCEPT !.label = "stored"]) /\ UNCHANGED faults
             \/ UpdatePackage(SeenBy(c).row) /\ Faulty
          /\ Wrote(c, {"status", "money"})
  /\ End(c)
  /\ UNCHANGED <<world, fees, tracked, paid, queued, marks, heaviest>>

\* Mutant: the fees of the size are given up whatever the status.
OcrDropsFees(c) ==
  /\ At(c, "ocr")
  /\ fees' = [fees EXCEPT !.size = 0]
  /\ Wrote(c, {"money"})
  /\ row' = [row EXCEPT !.recipient = "read"] /\ Goto(c, "replace")
  /\ UNCHANGED <<world, tracked, paid, queued, marks, faults, heaviest>>

\* The label is read.  SaveUpdatePackage2 writes the recipient, and gives up the fees of
\* the size if the package was Created when it was read.
Ocr(c) ==
  /\ At(c, "ocr")
  /\ IF SeenBy(c).row.status = "Created"
     THEN fees' = [fees EXCEPT !.size = 0] /\ Wrote(c, {"money"})
     ELSE UNCHANGED <<fees, harm>>
  /\ \/ row' = [row EXCEPT !.recipient = "read"] /\ Goto(c, "replace")
     \/ row' = [row EXCEPT !.recipient = "N/A"] /\ End(c)
  /\ UNCHANGED <<world, tracked, paid, queued, marks, faults, heaviest>>

\* Mutants: a tracking is cancelled even if there is none; the tracking there is stays.
CancelNoTracking(c) ==
  /\ At(c, "replace")
  /\ tracked' = tracked - 1
  /\ calls' = [calls EXCEPT ![c].pc = "create", ![c].seen.tracked = tracked']
  /\ UNCHANGED <<world, row, fees, paid, queued, marks, faults, heaviest, harm>>

KeepTracking(c) ==
  /\ At(c, "replace")
  /\ calls' = [calls EXCEPT ![c].pc = "create", ![c].seen.tracked = tracked]
  /\ UNCHANGED <<world, table, queued, marks, faults, heaviest, harm>>

\* The tracking there is, is read and cancelled ...
ReplaceTracking(c) ==
  /\ At(c, "replace")
  /\ tracked' = IF tracked > 0 THEN tracked - 1 ELSE 0
  /\ calls' = [calls EXCEPT ![c].pc = "create", ![c].seen.tracked = tracked']
  /\ UNCHANGED <<world, row, fees, paid, queued, marks, faults, heaviest, harm>>

\* ... and the new one created, whatever became of the package.
CreateTrackingTiktok(c) ==
  /\ At(c, "create")
  /\ tracked' = tracked + 1
  /\ harm' = harm \cup ({"tracking"} \cap Stale(c))
                  \cup (IF row.status \in Ended THEN {"tracking"} ELSE {})
  /\ End(c)
  /\ UNCHANGED <<world, row, fees, paid, queued, marks, faults, heaviest>>
=============================================================================
