------------------------------ MODULE Weighing ------------------------------
(***************************************************************************)
(* A package is weighed: by the machine that sorts (ScanWeight), when it   *)
(* comes into the warehouse (CreateTracking, the check-in), and when staff *)
(* accept one that has no label yet (Accept).  Each time the price is      *)
(* asked for again and a difference charged, and the label replaced when   *)
(* the weight was wrong.  A package over the limit of its service has no   *)
(* price of its own: it is charged what its new label costs.  Staff can    *)
(* also return a package (Return).                                         *)
(*                                                                         *)
(* The rows of checkin_packages, which only report what happened, and the  *)
(* packages of the service FBA are left out.                               *)
(***************************************************************************)
EXTENDS Parcel

\* A difference of the price is charged: a fee row, the bill and the balance in one
\* transaction.  By weight or by volume, whichever is more.
PostFix(plus, byWeight) ==
  /\ paid + plus <= MaxPaid
  /\ fees' = IF byWeight THEN [fees EXCEPT !.fix = @ + plus]
             ELSE [fees EXCEPT !.volume = @ + plus]
  /\ paid' = paid + plus

-----------------------------------------------------------------------------
(* ScanWeight. *)

Scan(c, w) ==
  /\ Begins(c) /\ row.status \in {"Created", "PendingPickup"}
  /\ w <= world.limit
  /\ Read(c, IF row.status = "Created" THEN "save" ELSE "scan", w)
  /\ UNCHANGED <<world, table, queued, marks, faults, heaviest, harm>>

\* The difference to the price and to the fees of weight is charged, and given back only
\* if the label is the customer's.  Fees of volume are not looked at.  If the price
\* cannot be asked for, the scan goes on with a price of 0.
ScanFee(c) ==
  /\ At(c, "scan")
  /\ \E price \in {0, calls[c].weight} :
       LET diff == price - SeenBy(c).row.fee - SeenBy(c).fees.fix
           charged == Tiktok \/ diff > 0
       IN /\ IF price = 0 THEN Faulty ELSE UNCHANGED faults
          /\ IF charged THEN PostFix(diff, TRUE) ELSE UNCHANGED <<fees, paid>>
          /\ harm' = harm
               \cup (IF price = 0 THEN {"price"} ELSE {})
               \cup (IF charged THEN {"money"} \cap Stale(c) ELSE {})
               \cup (IF charged /\ SeenBy(c).fees.volume > 0 THEN {"volume"} ELSE {})
  /\ heaviest' = Larger(heaviest, calls[c].weight)
  /\ calls' = [calls EXCEPT ![c].pc = "save", ![c].seen.fees = fees', ![c].seen.paid = paid']
  /\ UNCHANGED <<world, row, tracked, queued, marks>>

\* The row that was read is written, with the weight, and as long as the package was not
\* billed with the new price.  The price that is there stays if none could be asked for.
ScanSave(c) ==
  /\ At(c, "save")
  /\ LET r == SeenBy(c).row
         w == calls[c].weight
         noted == harm \cup ({"status", "money"} \cap Stale(c))
     IN \/ /\ r.status # "Created"
           /\ UpdatePackage([r EXCEPT !.weight = w])
           /\ harm' = noted /\ UNCHANGED <<faults, heaviest>>
        \/ /\ r.status = "Created"
           /\ UpdatePackage([r EXCEPT !.weight = w, !.fee = w])
           /\ heaviest' = w /\ harm' = noted /\ UNCHANGED faults
        \/ /\ r.status = "Created" /\ Faulty
           /\ UpdatePackage([r EXCEPT !.weight = w, !.fee = row.fee])
           /\ heaviest' = Larger(heaviest, w) /\ harm' = noted \cup {"price"}
  /\ End(c)
  /\ UNCHANGED <<world, fees, tracked, paid, queued, marks>>

-----------------------------------------------------------------------------
(* CreateTracking: the package comes into the warehouse. *)

\* The weight it is held against.
Known(seen) == IF seen.row.actual = 0 THEN seen.row.weight ELSE seen.row.actual

\* To Australia no package goes that is heavier than known and over the limit.
Admitted(w) ==
  world.kind = "AU" /\ w > Known(Now) => w <= world.limit

\* Mutant: a package that was returned is checked in again.
CheckInReturned(c, w) ==
  /\ Begins(c) /\ row.status = "PendingPickup"
  /\ "package_call_label" \notin marks /\ Admitted(w)
  /\ Read(c, "checkin", w)
  /\ UNCHANGED <<world, table, queued, marks, faults, heaviest, harm>>

CheckIn(c, w) ==
  /\ Begins(c) /\ row.status = "PendingPickup" /\ ~row.alert
  /\ "package_call_label" \notin marks /\ Admitted(w)
  /\ Read(c, "checkin", w)
  /\ UNCHANGED <<world, table, queued, marks, faults, heaviest, harm>>

\* The package is over the limit: as it weighs now, or as was noted when it weighed as much
\* before.
Over(seen, w) == IF w > Known(seen) THEN w > world.limit ELSE seen.row.exceed

\* It is heavier than known and its price is asked for, unless it is or was over the limit.
Priced(seen, w, known) == w > known /\ w <= world.limit /\ ~seen.row.exceed

\* Mutant: what was charged before is charged again.
PlusAgain(seen, w, known) ==
  IF Priced(seen, w, known) /\ w > seen.row.fee THEN w - seen.row.fee ELSE 0

\* What has to be charged for more.
Plus(seen, w, known) ==
  IF Priced(seen, w, known) /\ w > seen.row.fee THEN Larger(0, w - Weighed(seen)) ELSE 0

\* What has to be charged for a label over the limit.
PlusExceed(seen, cost) == Larger(0, cost - Weighed(seen))

\* WarehousInCheck: one transaction.
WarehousInCheck(c) ==
  /\ At(c, "checkin")
  /\ LET seen == SeenBy(c)
         w == calls[c].weight
         plus == Plus(seen, w, Known(seen))
     IN /\ row' = [row EXCEPT !.status = "Picked", !.alert = FALSE, !.actual = w,
                              !.exceed = @ \/ Over(seen, w)]
        /\ \E byWeight \in BOOLEAN : PostFix(plus, byWeight)
        /\ heaviest' = IF Priced(seen, w, Known(seen)) THEN Larger(heaviest, w) ELSE heaviest
        /\ Wrote(c, {"status"} \cup (IF plus > 0 THEN {"money"} ELSE {}))
        /\ calls' = [calls EXCEPT
             ![c].pc = IF world.kind = "AU" THEN "finish"
                       ELSE IF seen.tracked > 0 /\ w = Known(seen) THEN "finish" ELSE "mark",
             ![c].seen.row = [seen.row EXCEPT !.status = "Picked", !.alert = FALSE]]
  /\ UNCHANGED <<world, tracked, queued, marks, faults>>

\* The package is marked, and read again.  If it had no tracking nothing more is done,
\* and nothing takes the mark away; neither if the tracking has gone meanwhile.
Mark(c) ==
  /\ At(c, "mark")
  /\ marks' = marks \cup {"package_call_label"}
  /\ IF SeenBy(c).tracked = 0 \/ tracked = 0 THEN End(c)
     ELSE Goto(c, "call")
  /\ UNCHANGED <<world, table, queued, faults, heaviest, harm>>

\* The carrier changes the label, or cancels it and makes a new one, always when the
\* package is over the limit for the first time; some carriers are not asked.  With some
\* the limit is looked at once more, and what cannot be priced is not over it.  A new
\* label holds back what the package cost when it came in.
CallLabel(c) ==
  /\ At(c, "call")
  /\ marks' = marks \ {"package_call_label"}
  /\ \/ Goto(c, "finish") /\ UNCHANGED faults
     \/ LET seen == SeenBy(c)
            w == calls[c].weight
            over == Over(seen, w)
        IN \E new \in BOOLEAN, exceed \in BOOLEAN :
             /\ over /\ ~seen.row.exceed => new
             /\ \/ exceed \in {over, (seen.row.exceed \/ over) /\ w > world.limit}
                   /\ UNCHANGED faults
                \/ seen.row.exceed /\ ~exceed /\ Faulty
             /\ calls' = [calls EXCEPT ![c].pc = IF exceed THEN "price" ELSE "update",
                                       ![c].new = new,
                                       ![c].held = IF new THEN Total(seen) ELSE 0]
  /\ UNCHANGED <<world, table, queued, heaviest, harm>>

\* CalculateExceedPackagePrice, from what the label costs; price and fees of the package
\* are read again to see what was charged before.  Accept reads only the fees.
ExceedPrice(c) ==
  /\ At(c, "price") \/ At(c, "exceed")
  /\ LET seen == [SeenBy(c) EXCEPT !.fees = fees, !.paid = paid]
     IN \E cost \in Costs :
          calls' = [calls EXCEPT
            ![c].pc = IF At(c, "price") THEN "update" ELSE "checked",
            ![c].seen = IF At(c, "price") THEN [seen EXCEPT !.row.fee = row.fee] ELSE seen,
            ![c].cost = cost]
  /\ UNCHANGED <<world, table, queued, marks, faults, heaviest, harm>>

\* UpdateTracking: a new label takes the place of all others, and what the package cost
\* is held back once more until the carrier pays for the old one.  Over the limit, the
\* price of the label is charged with it.
UpdateTracking(c) ==
  /\ At(c, "update")
  /\ LET held == calls[c].held
         plus == PlusExceed(SeenBy(c), calls[c].cost)
     IN /\ paid + held + plus <= MaxPaid
        /\ paid' = paid + held + plus
        /\ fees' \in {[fees EXCEPT !.hold = @ + held, !.fix = @ + plus],
                      [fees EXCEPT !.hold = @ + held, !.volume = @ + plus]}
        /\ Wrote(c, {"status"} \cup (IF plus > 0 THEN {"money"} ELSE {}))
  /\ tracked' = IF calls[c].new THEN 1 ELSE tracked
  /\ row' = [row EXCEPT !.status = "Labeled"]
  /\ heaviest' = Larger(heaviest, calls[c].cost)
  /\ End(c)
  /\ UNCHANGED <<world, queued, marks, faults>>

\* A package whose label stays gets its status by a statement of its own.
Finish(c) ==
  /\ At(c, "finish")
  /\ row' = [row EXCEPT !.status = "Labeled"]
  /\ Wrote(c, {"status"})
  /\ End(c)
  /\ UNCHANGED <<world, fees, tracked, paid, queued, marks, faults, heaviest>>

-----------------------------------------------------------------------------
(* Accept: a package in the warehouse gets its label. *)

\* One that is heavier than its customer said is not accepted over the limit.
Accept(c, w) ==
  /\ Begins(c) /\ row.status = "Picked" /\ tracked = 0
  /\ w > row.weight => w <= world.limit
  /\ Read(c, "accept", w)
  /\ UNCHANGED <<world, table, queued, marks, faults, heaviest, harm>>

\* CheckIsExceed is asked for the others, and looks at the length as well.
Exceeds(c) ==
  calls[c].weight <= SeenBy(c).row.weight /\ (world.long \/ calls[c].weight > world.limit)

\* The mark is looked for, and set.
Claim(c) ==
  /\ \/ At(c, "accept") /\ UNCHANGED marks
        /\ IF "package_call_label_1" \in marks THEN End(c) ELSE Goto(c, "claim")
     \/ At(c, "claim") /\ Goto(c, "carrier") /\ marks' = marks \cup {"package_call_label_1"}
  /\ UNCHANGED <<world, table, queued, faults, heaviest, harm>>

Carrier(c) ==
  /\ At(c, "carrier")
  /\ marks' = marks \ {"package_call_label_1"}
  /\ Goto(c, IF Exceeds(c) THEN "exceed" ELSE "checked")
  /\ UNCHANGED <<world, table, queued, faults, heaviest, harm>>

\* WarehousChecked: one transaction.  The weight is held against the weight the customer
\* gave, not the one of the check-in.
WarehousChecked(c) ==
  /\ At(c, "checked")
  /\ LET seen == SeenBy(c)
         w == calls[c].weight
         plus == IF Exceeds(c) THEN PlusExceed(seen, calls[c].cost)
                 ELSE Plus(seen, w, seen.row.weight)
     IN /\ row' = [row EXCEPT !.status = "Labeled", !.actual = w, !.exceed = @ \/ Exceeds(c)]
        /\ tracked' = tracked + 1
        /\ \E byWeight \in BOOLEAN : PostFix(plus, byWeight)
        /\ heaviest' = IF Exceeds(c) THEN Larger(heaviest, calls[c].cost)
                       ELSE IF Priced(seen, w, seen.row.weight) THEN Larger(heaviest, w)
                       ELSE heaviest
        /\ Wrote(c, {"status", "tracking"} \cup (IF plus > 0 THEN {"money"} ELSE {}))
  /\ End(c)
  /\ UNCHANGED <<world, queued, marks, faults>>

-----------------------------------------------------------------------------
(* Return. *)

Return(c) ==
  /\ Begins(c)
  /\ row.status = "Picked" \/ (row.status = "PendingPickup" /\ ~row.alert)
  /\ Read(c, "return", 0)
  /\ UNCHANGED <<world, table, queued, marks, faults, heaviest, harm>>

ReturnPackage(c) ==
  /\ At(c, "return")
  /\ row' = [row EXCEPT !.status = "PendingPickup", !.alert = TRUE]
  /\ Wrote(c, {"status"})
  /\ End(c)
  /\ UNCHANGED <<world, fees, tracked, paid, queued, marks, faults, heaviest>>
=============================================================================
