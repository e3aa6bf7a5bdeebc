---------------------------- MODULE IntakeProofs ----------------------------
(***************************************************************************)
(* Proofs that the money, the fees, the trackings and the status of a      *)
(* package fit together, whatever calls work on its row.                   *)
(***************************************************************************)
EXTENDS Intake, TLAPS

\* What the step a call is at says of what it read.
Held(x) ==
  LET s == x.seen.row.status IN
  /\ x.pc = "bill" => s = "Created"
  /\ x.pc \in {"cancel", "save"} => s \in {"Created", "PendingPickup"}
  /\ x.pc \in {"scan", "checkin"} => s = "PendingPickup"
  /\ x.pc \in {"mark", "call", "price", "update", "finish", "accept", "claim", "carrier",
               "exceed", "checked"} =>
       s = "Picked"
  /\ x.pc = "return" => s \in {"Picked", "PendingPickup"}
  /\ x.pc \in {"checkin", "mark", "call", "price", "update", "finish"} => ~x.seen.row.alert
  /\ x.pc \in {"scan", "save", "checkin", "mark", "call", "accept", "claim", "carrier",
               "exceed", "checked"} =>
       x.weight \in Weight
  /\ x.pc \in {"accept", "claim", "carrier", "exceed", "checked"} => x.seen.tracked = 0
  /\ x.pc \in {"call", "price", "update"} => x.seen.tracked > 0
  /\ x.pc = "finish" /\ world.kind # "AU" => x.seen.tracked > 0
  /\ x.pc \in {"store", "ocr", "replace", "create"} => Tiktok

Busy == {c \in world.actors : calls[c] # Idle}

Inv ==
  /\ TypeOK
  /\ queued # {} => Tiktok
  /\ \A c \in Busy : Held(calls[c])

\* Money.  Before it is billed, and when it is cancelled unbilled, nothing was taken for a
\* package; after that, what its price and its fees say.
Unbilled == {"Created", "Archived"}
Unpaid(s) == s.paid = 0 /\ s.fees.fix = 0 /\ s.fees.volume = 0 /\ s.fees.hold = 0
Settled(s) ==
  IF s.row.status \in Unbilled THEN Unpaid(s)
  ELSE s.paid = Total(s)

\* A package that was billed when it was read still is, and its price stays.
StillBilled(s) ==
  s.row.status \notin Unbilled => row.status \notin Unbilled /\ row.fee = s.row.fee

MoneyInv ==
  "money" \notin harm =>
    /\ Settled(Now)
    /\ \A c \in Busy : Settled(SeenBy(c)) /\ StillBilled(SeenBy(c))

\* Weight.  Fees of a package of the house only grow, so that what a call read of them is
\* at most what there is.
WeightInv ==
  harm \cap {"money", "volume"} = {} =>
    /\ Weighed(Now) <= heaviest
    /\ ~Tiktok /\ "price" \notin harm => Weighed(Now) = heaviest
    /\ ~Tiktok => fees.fix >= 0 /\ \A c \in Busy :
         LET s == SeenBy(c) IN
         /\ s.fees.fix >= 0
         /\ s.row.status \notin Unbilled =>
              s.fees.fix <= fees.fix /\ s.fees.volume <= fees.volume

\* Trackings.
HasTracking == tracked = 1 \/ \E c \in Busy : calls[c].pc = "create"
Fits(s) ==
  /\ s.tracked <= 1
  /\ s.row.status \in Ended => s.tracked = 0
  /\ s.row.status = "Created" /\ ~Tiktok => s.tracked = 0

TrackInv ==
  harm \cap {"status", "tracking"} = {} =>
    /\ Fits(Now)
    /\ row.status = "Labeled" /\ world.kind # "AU" => HasTracking
    /\ \A c \in Busy :
         /\ Fits(SeenBy(c))
         /\ SeenBy(c).tracked > 0 /\ row.status \notin Ended => HasTracking
         /\ calls[c].pc = "create" => SeenBy(c).tracked = 0

\* Returns.
AlertInv == "status" \notin harm /\ row.alert => row.status \in {"PendingPickup", "Cancelled"}

\* A call that writes money or the whole row, and is not noted, has read what is there.
Current(c) ==
  row.fee = SeenBy(c).row.fee /\ fees = SeenBy(c).fees /\ paid = SeenBy(c).paid

-----------------------------------------------------------------------------
(* Types. *)

LEMMA Weights ==
  /\ \A n \in Weight : n \in Nat /\ n > 0
  /\ \A w \in Worlds : w.weights \subseteq Weight
BY ParcelConstants DEF Weight

LEMMA NowIsSeen == TypeOK => Now \in Seen
BY DEF TypeOK, Now, Seen

\* A step of one call.
Stays(c) == \A d \in world.actors : d # c => calls'[d] = calls[d]
Sound(x) == x = Idle \/ (x \in Call /\ Held(x))

LEMMA OneCall ==
  ASSUME Inv, NEW c \in world.actors, world' = world,
         NEW x, Sound(x), calls' = [calls EXCEPT ![c] = x]
  PROVE  /\ calls' \in [world'.actors -> Call \cup {Idle}]
         /\ \A d \in Busy' : Held(calls[d])'
         /\ Stays(c) /\ calls'[c] = x
<1>1. /\ Stays(c) /\ calls'[c] = x
      /\ calls' \in [world.actors -> Call \cup {Idle}]
  BY DEF Inv, TypeOK, Stays, Sound
<1>2. ASSUME NEW d \in Busy'
      PROVE  Held(calls[d])'
  <2>1. d \in world.actors /\ calls'[d] # Idle
    BY DEF Busy
  <2>2. CASE d = c
    BY <1>1, <2>1, <2>2 DEF Sound, Held, Tiktok
  <2>3. CASE d # c
    BY <1>1, <2>1, <2>3 DEF Inv, Busy, Stays, Held, Tiktok
  <2> QED BY <2>2, <2>3
<1> QED BY <1>1, <1>2

LEMMA EndIsSound == Sound(Idle)
BY DEF Sound

\* What a running call holds.
LEMMA Holds ==
  ASSUME Inv, NEW c \in world.actors, calls[c] # Idle
  PROVE  calls[c] \in Call /\ Held(calls[c]) /\ SeenBy(c) = calls[c].seen /\ SeenBy(c) \in Seen
BY DEF Inv, TypeOK, Busy, SeenBy, Call

Pcs == {"bill", "cancel", "scan", "save", "checkin", "mark", "call", "update",
        "price", "finish", "accept", "claim", "carrier", "exceed", "checked", "return",
        "store", "ocr", "replace", "create"}

\* A call reads the package, or goes on to another step.
LEMMA Reads ==
  ASSUME TypeOK, NEW pc \in Pcs, NEW w \in Weight \cup {0}
  PROVE  LET x == [pc |-> pc, seen |-> Now, weight |-> w, new |-> FALSE, held |-> 0, cost |-> 0] IN
         x \in Call /\ x.pc = pc /\ x.seen = Now /\ x.weight = w
BY NowIsSeen DEF Pcs, Call

LEMMA GoesOn ==
  ASSUME Inv, NEW c \in world.actors, calls[c] # Idle, NEW pc \in Pcs
  PROVE  LET x == [calls[c] EXCEPT !.pc = pc] IN
         /\ x \in Call /\ x.pc = pc /\ x.seen = calls[c].seen /\ x.weight = calls[c].weight
         /\ [calls EXCEPT ![c].pc = pc] = [calls EXCEPT ![c] = x]
BY Holds DEF Pcs, Call, Inv, TypeOK

\* The steps that only read.
LEMMA ReadKeeps ==
  ASSUME Inv, NEW c \in world.actors, NEW pc \in Pcs, NEW w \in Weight \cup {0},
         Read(c, pc, w), Held([pc |-> pc, seen |-> Now, weight |-> w, new |-> FALSE, held |-> 0, cost |-> 0]),
         UNCHANGED <<world, table, marks, faults, heaviest, harm>>, queued' \subseteq queued
  PROVE  Inv'
<1> DEFINE x == [pc |-> pc, seen |-> Now, weight |-> w, new |-> FALSE, held |-> 0, cost |-> 0]
<1>1. Sound(x)
  BY Reads DEF Inv, Sound
<1>2. calls' = [calls EXCEPT ![c] = x]
  BY DEF Read
<1> HIDE DEF x
<1> QED BY <1>1, <1>2, OneCall DEF Inv, TypeOK, table, Tiktok

LEMMA ReadersKeep ==
  ASSUME Inv, NEW c \in world.actors,
         \/ Process(c) \/ Cancel(c) \/ Return(c)
         \/ \E w \in world.weights : Scan(c, w) \/ CheckIn(c, w) \/ Accept(c, w)
         \/ ConsumeUpload(c) \/ ConsumeOcr(c) \/ TickUpload(c) \/ TickOcr(c)
  PROVE  Inv'
<1> DEFINE x(pc, w) == [pc |-> pc, seen |-> Now, weight |-> w, new |-> FALSE, held |-> 0, cost |-> 0]
<1>1. \A pc \in Pcs, w \in Weight \cup {0} :
        /\ x(pc, w).pc = pc /\ x(pc, w).seen.row = row /\ x(pc, w).seen.tracked = tracked
        /\ x(pc, w).weight = w
  BY DEF Now
<1>2. \A w \in world.weights : w \in Weight
  BY Weights DEF Inv, TypeOK
<1> HIDE DEF x
<1>3. CASE Process(c)
  <2>1. Held(x("bill", 0))
    BY <1>1, <1>3 DEF Process, Held, Pcs
  <2> QED BY <1>3, <2>1, ReadKeeps DEF Process, Pcs, x
<1>4. CASE Cancel(c)
  <2>1. Held(x("cancel", 0))
    BY <1>1, <1>4 DEF Cancel, Held, Pcs
  <2> QED BY <1>4, <2>1, ReadKeeps DEF Cancel, Pcs, x
<1>5. CASE Return(c)
  <2>1. Held(x("return", 0))
    BY <1>1, <1>5 DEF Return, Held, Pcs
  <2> QED BY <1>5, <2>1, ReadKeeps DEF Return, Pcs, x
<1>6. ASSUME NEW w \in world.weights, Scan(c, w)
      PROVE  Inv'
  <2>1. Held(x(IF row.status = "Created" THEN "save" ELSE "scan", w))
    BY <1>1, <1>2, <1>6 DEF Scan, Held, Pcs
  <2> QED BY <1>2, <1>6, <2>1, ReadKeeps DEF Scan, Pcs, x
<1>7. ASSUME NEW w \in world.weights, CheckIn(c, w)
      PROVE  Inv'
  <2>1. Held(x("checkin", w))
    BY <1>1, <1>2, <1>7 DEF CheckIn, Held, Pcs
  <2> QED BY <1>2, <1>7, <2>1, ReadKeeps DEF CheckIn, Pcs, x
<1>8. ASSUME NEW w \in world.weights, Accept(c, w)
      PROVE  Inv'
  <2>1. Held(x("accept", w))
    BY <1>1, <1>2, <1>8 DEF Accept, Held, Pcs
  <2> QED BY <1>2, <1>8, <2>1, ReadKeeps DEF Accept, Pcs, x
<1>9. ASSUME NEW pc \in {"store", "ocr"}, Tiktok, Read(c, pc, 0), queued' \subseteq queued,
             UNCHANGED <<world, table, marks, faults, heaviest, harm>>
      PROVE  Inv'
  <2>1. Held(x(pc, 0))
    BY <1>1, <1>9 DEF Held, Pcs
  <2> QED BY <1>9, <2>1, ReadKeeps DEF Pcs, x
<1>10. CASE ConsumeUpload(c) \/ ConsumeOcr(c)
  BY <1>9, <1>10 DEF ConsumeUpload, ConsumeOcr, Consume, Inv
<1>11. CASE TickUpload(c) \/ TickOcr(c)
  BY <1>9, <1>11 DEF TickUpload, TickOcr, Tick, NeedToUploadLabel, NeedToOcr
<1> QED BY <1>3, <1>4, <1>5, <1>6, <1>7, <1>8, <1>10, <1>11

\* The steps that write.
LEMMA TotalIsInt ==
  ASSUME NEW s \in Seen
  PROVE  /\ s.row \in Row /\ s.fees \in Fees /\ s.tracked \in Nat /\ s.paid \in Int
         /\ Total(s) \in Int
<1>1. /\ s.row \in Row /\ s.fees \in Fees /\ s.tracked \in Nat /\ s.paid \in Int
  BY DEF Seen
<1>2. s.row.fee \in Int
  <2>1. s.row.fee \in Weight
    BY <1>1 DEF Row
  <2> QED BY <2>1, Weights
<1>3. s.fees.fix \in Int /\ s.fees.volume \in Int /\ s.fees.hold \in Int /\ s.fees.size \in Int
  BY <1>1 DEF Fees
<1> QED BY <1>1, <1>2, <1>3 DEF Total, Weighed

LEMMA WroteHarms ==
  ASSUME harm \subseteq Harms, NEW c, NEW parts \in SUBSET Harms, Wrote(c, parts)
  PROVE  harm' \subseteq Harms
BY DEF Wrote

LEMMA Writes ==
  ASSUME Inv, NEW c \in world.actors, world' = world, NEW x, Sound(x),
         calls' = [calls EXCEPT ![c] = x],
         row' \in Row, fees' \in Fees, tracked' \in Nat, paid' \in Int,
         queued' \subseteq queued \cup (IF Tiktok THEN {"ocr"} ELSE {}),
         marks' \subseteq {"package_call_label", "package_call_label_1"},
         faults' = faults \/ Faulty, heaviest' \in Nat \ {0}, harm' \subseteq Harms
  PROVE  Inv'
<1>1. TypeOK'
  <2>1. faults' \in 0..MaxFaults
    BY ParcelConstants DEF Inv, TypeOK, Faulty
  <2>2. queued' \subseteq {"upload", "ocr"}
    BY DEF Inv, TypeOK
  <2> QED BY <2>1, <2>2, OneCall DEF Inv, TypeOK
<1>2. (queued # {} => Tiktok)'
  BY DEF Inv, Tiktok
<1> QED BY <1>1, <1>2, OneCall DEF Inv

LEMMA Unpacked ==
  ASSUME Inv
  PROVE  /\ row \in Row /\ fees \in Fees /\ tracked \in Nat /\ paid \in Int
         /\ marks \subseteq {"package_call_label", "package_call_label_1"}
         /\ heaviest \in Nat \ {0} /\ harm \subseteq Harms
BY DEF Inv, TypeOK

LEMMA CreateBillKeeps ==
  ASSUME Inv, NEW c \in world.actors, CreateBill(c)
  PROVE  Inv'
<1>1. calls[c] # Idle /\ SeenBy(c) \in Seen /\ Total(SeenBy(c)) \in Int
  BY Holds, TotalIsInt DEF CreateBill, At
<1>2. harm' \subseteq Harms
  BY Unpacked, WroteHarms DEF CreateBill, Harms
<1>3. row' \in Row
  BY Unpacked DEF CreateBill, Row, Status
<1>4. tracked' \in Nat /\ paid' \in Int /\ (faults' = faults \/ Faulty)
      /\ queued' \subseteq queued \cup (IF Tiktok THEN {"ocr"} ELSE {})
  BY <1>1, Unpacked DEF CreateBill
<1> QED BY <1>1, <1>2, <1>3, <1>4, Unpacked, Writes, EndIsSound DEF CreateBill, End

LEMMA CancelPackagesKeeps ==
  ASSUME Inv, NEW c \in world.actors, CancelPackages(c)
  PROVE  Inv'
<1>1. calls[c] # Idle /\ SeenBy(c) \in Seen /\ SeenBy(c).row \in Row
  BY Holds, TotalIsInt DEF CancelPackages, At
<1>2. harm' \subseteq Harms
  BY Unpacked, WroteHarms DEF CancelPackages, Harms
<1>3. row' \in Row
  BY <1>1 DEF CancelPackages, Row, Status, Ended
<1> QED BY <1>1, <1>2, <1>3, Unpacked, Writes, EndIsSound DEF CancelPackages, End

LEMMA MarksKeep ==
  ASSUME Inv, NEW c \in world.actors, Mark(c) \/ CallLabel(c) \/ Claim(c) \/ Carrier(c)
  PROVE  Inv'
<1>1. calls[c] # Idle
  BY DEF Mark, CallLabel, Claim, Carrier, At
<1>2. /\ UNCHANGED <<world, row, fees, tracked, paid, queued, heaviest, harm>>
      /\ marks' \subseteq {"package_call_label", "package_call_label_1"}
      /\ faults' = faults \/ Faulty
  BY Unpacked DEF Mark, CallLabel, Claim, Carrier, table
<1>3. \E x : Sound(x) /\ calls' = [calls EXCEPT ![c] = x]
  <2> DEFINE x(pc) == [calls[c] EXCEPT !.pc = pc]
  <2>1. \A pc \in Pcs : /\ x(pc) \in Call /\ x(pc).pc = pc /\ x(pc).seen = calls[c].seen
                        /\ x(pc).weight = calls[c].weight
                        /\ [calls EXCEPT ![c].pc = pc] = [calls EXCEPT ![c] = x(pc)]
    BY <1>1, GoesOn
  <2>2. calls[c].seen.tracked \in Nat /\ Total(SeenBy(c)) \in Int
    BY <1>1, Holds, TotalIsInt
  <2> HIDE DEF x
  <2>3. CASE Mark(c)
    <3>1. SeenBy(c).tracked # 0 => Sound(x("call"))
      BY <1>1, <2>1, <2>2, <2>3, Holds DEF Mark, At, Pcs, Held, Sound, SeenBy
    <3> QED BY <2>1, <2>3, <3>1, EndIsSound DEF Mark, End, Goto, Pcs
  <2>4. CASE CallLabel(c)
    <3>5. calls[c].pc = "call"
      BY <2>4 DEF CallLabel, At
    <3>1. Sound(x("finish"))
      BY <1>1, <2>1, <2>2, <3>5, Holds DEF Pcs, Held, Sound, SeenBy
    <3>2. ASSUME NEW pc \in {"price", "update"}, NEW new \in BOOLEAN, NEW held \in Int,
                 calls' = [calls EXCEPT ![c].pc = pc, ![c].new = new, ![c].held = held]
          PROVE  \E y : Sound(y) /\ calls' = [calls EXCEPT ![c] = y]
      <4> DEFINE y == [calls[c] EXCEPT !.pc = pc, !.new = new, !.held = held]
      <4>1. /\ y \in Call /\ y.pc = pc /\ y.seen = calls[c].seen /\ y.weight = calls[c].weight
            /\ calls' = [calls EXCEPT ![c] = y]
        BY <1>1, <3>2, Holds DEF Call, Inv, TypeOK
      <4> HIDE DEF y
      <4>2. Sound(y)
        BY <1>1, <4>1, <2>2, <3>5, Holds DEF Pcs, Held, Sound, SeenBy
      <4> QED BY <4>1, <4>2
    <3>3. CASE Goto(c, "finish")
      BY <2>1, <3>1, <3>3 DEF Goto, Pcs
    <3>4. CASE ~Goto(c, "finish")
      <4>1. PICK new \in BOOLEAN, exceed \in BOOLEAN :
              calls' = [calls EXCEPT ![c].pc = IF exceed THEN "price" ELSE "update",
                                     ![c].new = new,
                                     ![c].held = IF new THEN Total(SeenBy(c)) ELSE 0]
        BY <2>4, <3>4 DEF CallLabel
      <4>2. /\ (IF exceed THEN "price" ELSE "update") \in {"price", "update"}
            /\ (IF new THEN Total(SeenBy(c)) ELSE 0) \in Int
        BY <2>2
      <4> QED BY <3>2, <4>1, <4>2
    <3> QED BY <3>3, <3>4
  <2>5. CASE Claim(c)
    <3>1. (At(c, "accept") => Sound(x("claim"))) /\ (At(c, "claim") => Sound(x("carrier")))
      BY <1>1, <2>1, <2>2, <2>5, Holds DEF At, Pcs, Held, Sound, SeenBy
    <3> QED BY <2>1, <2>5, <3>1, EndIsSound DEF Claim, End, Goto, Pcs
  <2>6. CASE Carrier(c)
    <3>1. Sound(x("checked")) /\ Sound(x("exceed"))
      BY <1>1, <2>1, <2>2, <2>6, Holds DEF Carrier, At, Pcs, Held, Sound, SeenBy
    <3> QED BY <2>1, <2>6, <3>1, EndIsSound DEF Carrier, Goto, Pcs
  <2> QED BY <2>3, <2>4, <2>5, <2>6
<1> QED BY <1>2, <1>3, Unpacked, Writes

\* The price over the limit: price and fees of the package are read again.
LEMMA Rereads ==
  ASSUME Inv, NEW c \in world.actors, ExceedPrice(c)
  PROVE  /\ UNCHANGED <<world, row, fees, tracked, paid, queued, marks, faults, heaviest, harm>>
         /\ c \in Busy /\ calls[c].pc \in {"price", "exceed"}
         /\ \E x : /\ x \in Call /\ calls' = [calls EXCEPT ![c] = x]
                   /\ x.pc = IF calls[c].pc = "price" THEN "update" ELSE "checked"
                   /\ x.weight = calls[c].weight /\ x.cost \in Nat
                   /\ x.seen \in Seen /\ x.seen.fees = fees /\ x.seen.paid = paid
                   /\ x.seen.tracked = SeenBy(c).tracked
                   /\ x.seen.row.status = SeenBy(c).row.status
                   /\ x.seen.row.alert = SeenBy(c).row.alert
                   /\ x.seen.row.fee \in {SeenBy(c).row.fee, row.fee}
<1> DEFINE s == SeenBy(c)
<1>1. /\ UNCHANGED <<world, row, fees, tracked, paid, queued, marks, faults, heaviest, harm>>
      /\ calls[c] # Idle /\ calls[c].pc \in {"price", "exceed"} /\ c \in Busy
  BY DEF ExceedPrice, At, table, Busy
<1>2. calls[c] \in Call /\ s = calls[c].seen /\ s \in Seen /\ s.row \in Row
  BY <1>1, Holds, TotalIsInt
<1> DEFINE fee == IF At(c, "price") THEN row.fee ELSE s.row.fee
           r == [s.row EXCEPT !.fee = fee]
           seen == [s EXCEPT !.fees = fees, !.paid = paid, !.row = r]
           pc == IF calls[c].pc = "price" THEN "update" ELSE "checked"
<1>3. fee \in Weight
  BY <1>2, Unpacked DEF Row
<1> HIDE DEF fee
<1>4. r \in Row /\ r.fee = fee /\ r.status = s.row.status /\ r.alert = s.row.alert
  BY <1>2, <1>3 DEF Row
<1> HIDE DEF r
<1>5. /\ seen \in Seen /\ seen.fees = fees /\ seen.paid = paid /\ seen.tracked = s.tracked
      /\ seen.row = r
  BY <1>2, <1>4, Unpacked DEF Seen
<1>6. PICK cost \in Costs :
        LET t == [SeenBy(c) EXCEPT !.fees = fees, !.paid = paid] IN
        calls' = [calls EXCEPT
            ![c].pc = IF At(c, "price") THEN "update" ELSE "checked",
            ![c].seen = IF At(c, "price") THEN [t EXCEPT !.row.fee = row.fee] ELSE t,
            ![c].cost = cost]
  BY DEF ExceedPrice
<1>7. cost \in Nat
  BY ParcelConstants
<1> DEFINE x == [calls[c] EXCEPT !.pc = pc, !.seen = seen, !.cost = cost]
<1>8. calls' = [calls EXCEPT ![c] = x]
  <2>1. LET t == [s EXCEPT !.fees = fees, !.paid = paid] IN
        (IF At(c, "price") THEN [t EXCEPT !.row.fee = row.fee] ELSE t) = seen
    BY <1>2 DEF Seen, Row, fee, r
  <2> HIDE DEF seen
  <2>2. calls' = [calls EXCEPT ![c].pc = pc, ![c].seen = seen, ![c].cost = cost]
    BY <1>1, <1>6, <2>1 DEF At
  <2> QED BY <1>1, <1>2, <2>2 DEF Inv, TypeOK, Call
<1> HIDE DEF seen
<1>9. x \in Call /\ x.pc = pc /\ x.weight = calls[c].weight /\ x.seen = seen /\ x.cost = cost
  BY <1>2, <1>5, <1>7 DEF Call
<1> QED BY <1>1, <1>4, <1>5, <1>7, <1>8, <1>9 DEF fee

LEMMA ExceedPriceKeeps ==
  ASSUME Inv, NEW c \in world.actors, ExceedPrice(c)
  PROVE  Inv'
<1>1. PICK x : /\ x \in Call /\ calls' = [calls EXCEPT ![c] = x]
               /\ x.pc = IF calls[c].pc = "price" THEN "update" ELSE "checked"
               /\ x.weight = calls[c].weight
               /\ x.seen.tracked = SeenBy(c).tracked
               /\ x.seen.row.status = SeenBy(c).row.status
               /\ x.seen.row.alert = SeenBy(c).row.alert
  BY Rereads
<1>2. calls[c] # Idle /\ calls[c].pc \in {"price", "exceed"}
  BY Rereads DEF Busy
<1>3. Sound(x)
  BY <1>1, <1>2, Holds DEF Sound, Held
<1>4. UNCHANGED <<world, row, fees, tracked, paid, queued, marks, faults, heaviest, harm>>
  BY Rereads
<1> QED BY <1>1, <1>3, <1>4, Unpacked, Writes

LEMMA Amounts ==
  /\ \A a, b \in Int : Larger(a, b) \in Int /\ Larger(a, b) >= a /\ Larger(a, b) >= b
  /\ \A a \in Nat \ {0}, b \in Nat : Larger(a, b) \in Nat \ {0}
  /\ \A s \in Seen : Known(s) \in Weight
<1>1. \A a, b \in Int : Larger(a, b) \in Int /\ Larger(a, b) >= a /\ Larger(a, b) >= b
  BY DEF Larger
<1>2. \A a \in Nat \ {0}, b \in Nat : Larger(a, b) \in Nat \ {0}
  BY DEF Larger
<1>3. ASSUME NEW s \in Seen
      PROVE  Known(s) \in Weight
  BY TotalIsInt DEF Row, Known
<1> QED BY <1>1, <1>2, <1>3

LEMMA Charges ==
  ASSUME NEW s \in Seen, NEW w \in Int, NEW known \in Int, NEW cost \in Int
  PROVE  Plus(s, w, known) \in Nat /\ PlusExceed(s, cost) \in Nat
<1>1. s.row.fee \in Int /\ s.fees.fix \in Int /\ s.fees.volume \in Int
  BY Weights, TotalIsInt DEF Row, Fees
<1>2. Plus(s, w, known) \in Nat
  BY <1>1 DEF Plus, Weighed, Larger
<1>3. PlusExceed(s, cost) \in Nat
  BY <1>1 DEF PlusExceed, Weighed, Larger
<1> QED BY <1>2, <1>3

LEMMA PostFixTypes ==
  ASSUME fees \in Fees, paid \in Int, NEW plus \in Int, NEW byWeight \in BOOLEAN,
         PostFix(plus, byWeight), byWeight \/ plus >= 0
  PROVE  fees' \in Fees /\ paid' \in Int
BY DEF PostFix, Fees

LEMMA UpdatePackageTypes ==
  ASSUME row \in Row, NEW r \in Row, UpdatePackage(r)
  PROVE  row' \in Row /\ row'.alert = row.alert /\ row'.status = r.status /\ row'.fee = r.fee
BY DEF UpdatePackage, Row

\* The difference a scan charges or gives back, for the price it got.
Charged(c, price) ==
  LET diff == price - SeenBy(c).row.fee - SeenBy(c).fees.fix IN
  IF Tiktok \/ diff > 0
  THEN /\ PostFix(diff, TRUE)
       /\ "money" \notin harm' => Current(c)
       /\ "volume" \notin harm' => ~(SeenBy(c).fees.volume > 0)
  ELSE UNCHANGED <<fees, paid>>

LEMMA ScanCharges ==
  ASSUME Inv, NEW c \in world.actors, ScanFee(c)
  PROVE  /\ c \in Busy /\ calls[c] \in Call /\ SeenBy(c) = calls[c].seen /\ SeenBy(c) \in Seen
         /\ SeenBy(c).row.status = "PendingPickup"
         /\ calls[c].weight \in Weight
         /\ harm \subseteq harm' /\ harm' \subseteq Harms
         /\ UNCHANGED <<world, row, tracked, queued, marks>> /\ (faults' = faults \/ Faulty)
         /\ heaviest' = Larger(heaviest, calls[c].weight)
         /\ \E price \in {0, calls[c].weight} :
              /\ price \in Nat /\ Charged(c, price)
              /\ price - SeenBy(c).row.fee - SeenBy(c).fees.fix \in Int
              /\ price # calls[c].weight => "price" \in harm'
<1>1. /\ c \in Busy /\ calls[c] \in Call /\ SeenBy(c) = calls[c].seen /\ SeenBy(c) \in Seen
      /\ SeenBy(c).row.status = "PendingPickup" /\ calls[c].weight \in Weight
  BY Holds DEF ScanFee, At, Held, Busy
<1>2. /\ harm \subseteq harm' /\ harm' \subseteq Harms
      /\ UNCHANGED <<world, row, tracked, queued, marks>> /\ (faults' = faults \/ Faulty)
      /\ heaviest' = Larger(heaviest, calls[c].weight)
  BY Unpacked DEF ScanFee, Harms
<1>3. PICK price \in {0, calls[c].weight} :
        LET diff == price - SeenBy(c).row.fee - SeenBy(c).fees.fix
            charged == Tiktok \/ diff > 0
        IN /\ IF charged THEN PostFix(diff, TRUE) ELSE UNCHANGED <<fees, paid>>
           /\ harm' = harm
                \cup (IF price = 0 THEN {"price"} ELSE {})
                \cup (IF charged THEN {"money"} \cap Stale(c) ELSE {})
                \cup (IF charged /\ SeenBy(c).fees.volume > 0 THEN {"volume"} ELSE {})
  BY DEF ScanFee
<1>4. price \in Nat /\ SeenBy(c).row.fee \in Int /\ SeenBy(c).fees.fix \in Int
  <2>1. SeenBy(c).row.fee \in Weight /\ SeenBy(c).fees.fix \in Int
    BY <1>1, TotalIsInt DEF Row, Fees
  <2> QED BY <1>1, <2>1, Weights
<1>5. Charged(c, price)
  BY <1>3 DEF Charged, Stale, Current
<1>6. price # calls[c].weight => "price" \in harm'
  BY <1>3
<1> QED BY <1>1, <1>2, <1>4, <1>5, <1>6

LEMMA ScanFeeKeeps ==
  ASSUME Inv, NEW c \in world.actors, ScanFee(c)
  PROVE  Inv'
<1> DEFINE s == SeenBy(c)
           w == calls[c].weight
<1>1. /\ s \in Seen /\ w \in Weight /\ calls[c] \in Call /\ s = calls[c].seen
      /\ s.row.status = "PendingPickup"
  BY ScanCharges
<1>2. w \in Nat
  BY <1>1, Weights
<1>3. fees' \in Fees /\ paid' \in Int
  <2>1. PICK price \in {0, w} :
          Charged(c, price) /\ price - s.row.fee - s.fees.fix \in Int
    BY ScanCharges
  <2> QED BY <2>1, PostFixTypes, Unpacked DEF Charged
<1>4. harm' \subseteq Harms /\ heaviest' \in Nat \ {0}
  BY <1>2, ScanCharges, Amounts, Unpacked
<1>5. PICK x : /\ x \in Call /\ x.pc = "save" /\ x.weight = w /\ x.seen.row = s.row
               /\ calls' = [calls EXCEPT ![c] = x]
  <2> DEFINE seen == [s EXCEPT !.fees = fees', !.paid = paid']
             x == [calls[c] EXCEPT !.pc = "save", !.seen = seen]
  <2>1. seen \in Seen /\ seen.row = s.row
    BY <1>1, <1>3 DEF Seen
  <2>2. calls' = [calls EXCEPT ![c] = x]
    BY <1>1 DEF ScanFee, Inv, TypeOK, Call, Seen
  <2> HIDE DEF seen
  <2>3. x \in Call /\ x.pc = "save" /\ x.weight = w /\ x.seen = seen
    BY <1>1, <2>1 DEF Call
  <2> QED BY <2>1, <2>2, <2>3
<1>6. Sound(x)
  BY <1>1, <1>5 DEF Sound, Held
<1> QED BY <1>3, <1>4, <1>5, <1>6, ScanCharges, Unpacked, Writes

\* What a scan saves: the row it read, with the price it read unless the package was not
\* billed.
LEMMA ScanSaves ==
  ASSUME Inv, NEW c \in world.actors, ScanSave(c)
  PROVE  LET s == SeenBy(c)
             w == calls[c].weight
         IN /\ c \in Busy /\ s \in Seen /\ s.row \in Row /\ w \in Weight /\ w \in Nat
            /\ harm \subseteq harm' /\ harm' \subseteq Harms /\ {"status", "money"} \cap Stale(c) \subseteq harm'
            /\ UNCHANGED <<world, fees, tracked, paid, queued, marks>>
            /\ Stays(c) /\ calls'[c] = Idle /\ (faults' = faults \/ Faulty)
            /\ row' \in Row /\ row'.status = s.row.status /\ row'.alert = row.alert
            /\ \/ s.row.status # "Created" /\ row'.fee = s.row.fee /\ heaviest' = heaviest
               \/ s.row.status = "Created" /\ row'.fee = w /\ heaviest' = w
               \/ /\ s.row.status = "Created" /\ row'.fee = row.fee
                  /\ heaviest' = Larger(heaviest, w) /\ "price" \in harm'
<1> DEFINE s == SeenBy(c)
           w == calls[c].weight
<1>1. /\ c \in Busy /\ s \in Seen /\ s.row \in Row /\ w \in Weight /\ w \in Nat
  BY Holds, TotalIsInt, Weights DEF ScanSave, At, Held, Busy
<1>2. /\ harm \subseteq harm' /\ harm' \subseteq Harms /\ {"status", "money"} \cap Stale(c) \subseteq harm'
      /\ UNCHANGED <<world, fees, tracked, paid, queued, marks>> /\ (faults' = faults \/ Faulty)
  BY Unpacked DEF ScanSave, Harms
<1>3. Stays(c) /\ calls'[c] = Idle
  BY OneCall, EndIsSound DEF ScanSave, End
<1>4. row.fee \in Weight
  BY Unpacked DEF Row
<1>5. ASSUME NEW fee \in Weight
      PROVE  LET r == [s.row EXCEPT !.weight = w, !.fee = fee] IN
             r \in Row /\ r.status = s.row.status /\ r.fee = fee
  BY <1>1 DEF Row
<1>6. LET r == [s.row EXCEPT !.weight = w] IN
      r \in Row /\ r.status = s.row.status /\ r.fee = s.row.fee
  BY <1>1 DEF Row
<1>7. CASE s.row.status # "Created"
  <2>1. UpdatePackage([s.row EXCEPT !.weight = w]) /\ heaviest' = heaviest
    BY <1>7 DEF ScanSave
  <2> QED BY <1>1, <1>2, <1>3, <1>6, <1>7, <2>1, UpdatePackageTypes, Unpacked
<1>8. CASE UpdatePackage([s.row EXCEPT !.weight = w, !.fee = w]) /\ heaviest' = w
           /\ s.row.status = "Created"
  BY <1>1, <1>2, <1>3, <1>5, <1>8, UpdatePackageTypes, Unpacked
<1>9. CASE UpdatePackage([s.row EXCEPT !.weight = w, !.fee = row.fee])
           /\ heaviest' = Larger(heaviest, w) /\ "price" \in harm' /\ s.row.status = "Created"
  BY <1>1, <1>2, <1>3, <1>4, <1>5, <1>9, UpdatePackageTypes, Unpacked
<1> QED BY <1>7, <1>8, <1>9 DEF ScanSave

LEMMA ScanSaveKeeps ==
  ASSUME Inv, NEW c \in world.actors, ScanSave(c)
  PROVE  Inv'
<1>1. heaviest' \in Nat \ {0}
  <2>1. /\ calls[c].weight \in Nat \ {0}
        /\ heaviest' \in {heaviest, calls[c].weight, Larger(heaviest, calls[c].weight)}
    BY ScanSaves, Weights
  <2> QED BY <2>1, Amounts, Unpacked
<1>2. calls' = [calls EXCEPT ![c] = Idle]
  BY DEF ScanSave, End
<1> QED BY <1>1, <1>2, ScanSaves, Unpacked, Writes, EndIsSound

LEMMA WarehousInCheckKeeps ==
  ASSUME Inv, NEW c \in world.actors, WarehousInCheck(c)
  PROVE  Inv'
<1> DEFINE s == SeenBy(c)
           w == calls[c].weight
           pc == IF world.kind = "AU" THEN "finish"
                 ELSE IF s.tracked > 0 /\ w = Known(s) THEN "finish" ELSE "mark"
<1>1. /\ calls[c] # Idle /\ calls[c].pc = "checkin" /\ s \in Seen /\ w \in Weight /\ w \in Int
      /\ calls[c] \in Call /\ s = calls[c].seen /\ s.row \in Row
  BY Holds, Weights, TotalIsInt DEF WarehousInCheck, At, Held
<1>2. Known(s) \in Int /\ Plus(s, w, Known(s)) \in Nat
  <2>1. Known(s) \in Int
    BY <1>1, Amounts, Weights
  <2> QED BY <1>1, <2>1, Charges
<1>3. fees' \in Fees /\ paid' \in Int
  BY <1>2, PostFixTypes, Unpacked DEF WarehousInCheck
<1>4. harm' \subseteq Harms /\ heaviest' \in Nat \ {0}
  BY <1>1, Amounts, Weights, Unpacked, WroteHarms DEF WarehousInCheck, Harms
<1>5. row' \in Row
  <2> DEFINE exceed == row.exceed \/ Over(s, w)
  <2>1. exceed \in BOOLEAN
    OBVIOUS
  <2>2. row' = [row EXCEPT !.status = "Picked", !.alert = FALSE, !.actual = w, !.exceed = exceed]
    BY Unpacked DEF WarehousInCheck, Row
  <2> HIDE DEF exceed
  <2> QED BY <1>1, <2>1, <2>2, Unpacked DEF Row, Status
<1>6. PICK x : /\ x \in Call /\ x.pc = pc /\ x.weight = w /\ x.seen.tracked = s.tracked
               /\ x.seen.row.status = "Picked" /\ ~x.seen.row.alert
               /\ calls' = [calls EXCEPT ![c] = x]
  <2> DEFINE r == [s.row EXCEPT !.status = "Picked", !.alert = FALSE]
             seen == [s EXCEPT !.row = r]
             x == [calls[c] EXCEPT !.pc = pc, !.seen = seen]
  <2> HIDE DEF pc
  <2>1. r \in Row /\ r.status = "Picked" /\ ~r.alert
    BY <1>1 DEF Row, Status
  <2> HIDE DEF r
  <2>3. seen \in Seen /\ seen.row = r /\ seen.tracked = s.tracked
    BY <1>1, <2>1 DEF Seen
  <2>4. pc \in Pcs
    BY DEF pc, Pcs
  <2>2. calls' = [calls EXCEPT ![c] = x]
    BY <1>1 DEF WarehousInCheck, Inv, TypeOK, Call, Seen, pc, r
  <2> HIDE DEF seen
  <2>5. x \in Call /\ x.pc = pc /\ x.weight = w /\ x.seen = seen
    BY <1>1, <2>3, <2>4 DEF Call, Pcs
  <2> QED BY <2>1, <2>2, <2>3, <2>5
<1>7. Sound(x)
  BY <1>1, <1>6 DEF Sound, Held
<1> QED BY <1>3, <1>4, <1>5, <1>6, <1>7, Unpacked, Writes DEF WarehousInCheck

\* A new label: what is held back, and the price of the label.
LEMMA Relabels ==
  ASSUME Inv, NEW c \in world.actors, UpdateTracking(c)
  PROVE  LET held == calls[c].held
             plus == PlusExceed(SeenBy(c), calls[c].cost)
         IN /\ c \in Busy /\ SeenBy(c) \in Seen /\ SeenBy(c).row.status = "Picked"
            /\ held \in Int /\ plus \in Nat /\ calls[c].cost \in Nat
            /\ harm \subseteq harm' /\ harm' \subseteq Harms /\ ("money" \notin harm' /\ plus > 0 => Current(c))
            /\ UNCHANGED <<world, queued, marks, faults>> /\ Stays(c) /\ calls'[c] = Idle
            /\ row' \in Row /\ row'.status = "Labeled" /\ row'.fee = row.fee
            /\ paid' = paid + held + plus /\ heaviest' = Larger(heaviest, calls[c].cost)
            /\ fees' \in Fees /\ fees'.hold = fees.hold + held /\ fees'.size = fees.size
            /\ \/ fees'.fix = fees.fix + plus /\ fees'.volume = fees.volume
               \/ fees'.fix = fees.fix /\ fees'.volume = fees.volume + plus
<1> DEFINE held == calls[c].held
           plus == PlusExceed(SeenBy(c), calls[c].cost)
<1>1. /\ c \in Busy /\ SeenBy(c) \in Seen /\ SeenBy(c).row.status = "Picked"
      /\ held \in Int /\ calls[c].cost \in Nat
  BY Holds DEF UpdateTracking, At, Busy, Held, Call
<1>2. plus \in Nat
  BY <1>1, Charges
<1>3. /\ harm \subseteq harm' /\ harm' \subseteq Harms
      /\ UNCHANGED <<world, queued, marks, faults>>
      /\ paid' = paid + held + plus /\ heaviest' = Larger(heaviest, calls[c].cost)
  BY Unpacked, WroteHarms DEF UpdateTracking, Harms, Wrote
<1>4. "money" \notin harm' /\ plus > 0 => Current(c)
  BY DEF UpdateTracking, Wrote, Stale, Current
<1>5. Stays(c) /\ calls'[c] = Idle
  BY OneCall, EndIsSound DEF UpdateTracking, End
<1>6. row' \in Row /\ row'.status = "Labeled" /\ row'.fee = row.fee
  BY Unpacked DEF UpdateTracking, Row, Status
<1>7. fees' \in {[fees EXCEPT !.hold = @ + held, !.fix = @ + plus],
                 [fees EXCEPT !.hold = @ + held, !.volume = @ + plus]}
  BY DEF UpdateTracking
<1> HIDE DEF held, plus
<1>8. /\ fees' \in Fees /\ fees'.hold = fees.hold + held /\ fees'.size = fees.size
      /\ \/ fees'.fix = fees.fix + plus /\ fees'.volume = fees.volume
         \/ fees'.fix = fees.fix /\ fees'.volume = fees.volume + plus
  <2>1. /\ fees = [fix |-> fees.fix, volume |-> fees.volume, hold |-> fees.hold, size |-> fees.size]
        /\ fees.fix \in Int /\ fees.volume \in Nat /\ fees.hold \in Int /\ fees.size \in {0, 1}
    BY Unpacked DEF Fees
  <2> DEFINE hold == fees.hold + held
             fix == fees.fix + plus
             volume == fees.volume + plus
  <2>2. hold \in Int /\ fix \in Int /\ volume \in Nat
    BY <1>1, <1>2, <2>1
  <2>3. fees' \in {[fees EXCEPT !.hold = hold, !.fix = fix],
                  [fees EXCEPT !.hold = hold, !.volume = volume]}
    BY <1>7
  <2> HIDE DEF hold, fix, volume
  <2>4. CASE fees' = [fees EXCEPT !.hold = hold, !.fix = fix]
    <3>1. /\ fees' \in Fees /\ fees'.hold = hold /\ fees'.size = fees.size
          /\ fees'.fix = fix /\ fees'.volume = fees.volume
      BY <2>1, <2>2, <2>4 DEF Fees
    <3> QED BY <3>1 DEF hold, fix
  <2>5. CASE fees' = [fees EXCEPT !.hold = hold, !.volume = volume]
    <3>1. /\ fees' \in Fees /\ fees'.hold = hold /\ fees'.size = fees.size
          /\ fees'.fix = fees.fix /\ fees'.volume = volume
      BY <2>1, <2>2, <2>5 DEF Fees
    <3> QED BY <3>1 DEF hold, volume
  <2> QED BY <2>3, <2>4, <2>5
<1> QED BY <1>1, <1>2, <1>3, <1>4, <1>5, <1>6, <1>8 DEF held, plus

LEMMA UpdateTrackingKeeps ==
  ASSUME Inv, NEW c \in world.actors, UpdateTracking(c)
  PROVE  Inv'
<1>1. paid' \in Int /\ heaviest' \in Nat \ {0}
  <2>1. /\ calls[c].held \in Int /\ PlusExceed(SeenBy(c), calls[c].cost) \in Nat
        /\ calls[c].cost \in Nat
        /\ paid' = paid + calls[c].held + PlusExceed(SeenBy(c), calls[c].cost)
        /\ heaviest' = Larger(heaviest, calls[c].cost)
    BY Relabels
  <2>2. heaviest' \in Nat \ {0}
    BY <2>1, Amounts, Unpacked
  <2>3. paid' \in Int
    BY <2>1, Unpacked
  <2> QED BY <2>2, <2>3
<1>2. tracked' \in Nat /\ calls' = [calls EXCEPT ![c] = Idle]
  BY Unpacked DEF UpdateTracking, End
<1> QED BY <1>1, <1>2, Relabels, Unpacked, Writes, EndIsSound

LEMMA StatusKeeps ==
  ASSUME Inv, NEW c \in world.actors, Finish(c) \/ ReturnPackage(c)
  PROVE  Inv'
<1>1. harm' \subseteq Harms
  BY Unpacked, WroteHarms DEF Finish, ReturnPackage, Harms
<1>2. row' \in Row
  BY Unpacked DEF Finish, ReturnPackage, Row, Status
<1> QED BY <1>1, <1>2, Unpacked, Writes, EndIsSound DEF Finish, ReturnPackage, End

\* What staff charge who accept a package: for the weight, or for the label over the limit.
Accepted(c) ==
  IF Exceeds(c) THEN PlusExceed(SeenBy(c), calls[c].cost)
  ELSE Plus(SeenBy(c), calls[c].weight, SeenBy(c).row.weight)

LEMMA Accepts ==
  ASSUME Inv, NEW c \in world.actors, WarehousChecked(c)
  PROVE  LET s == SeenBy(c)
             w == calls[c].weight
         IN /\ c \in Busy /\ s \in Seen /\ s.row.status = "Picked"
            /\ w \in Weight /\ w \in Nat /\ s.row.weight \in Int /\ calls[c].cost \in Nat
            /\ Accepted(c) \in Nat /\ \E byWeight \in BOOLEAN : PostFix(Accepted(c), byWeight)
            /\ harm \subseteq harm' /\ harm' \subseteq Harms
            /\ "money" \notin harm' /\ Accepted(c) > 0 => Current(c)
            /\ UNCHANGED <<world, queued, marks, faults>> /\ Stays(c) /\ calls'[c] = Idle
            /\ row' \in Row /\ row'.status = "Labeled" /\ row'.alert = row.alert /\ row'.fee = row.fee
            /\ heaviest' = IF Exceeds(c) THEN Larger(heaviest, calls[c].cost)
                           ELSE IF Priced(s, w, s.row.weight) THEN Larger(heaviest, w)
                           ELSE heaviest
<1> DEFINE s == SeenBy(c)
           w == calls[c].weight
<1>1. /\ c \in Busy /\ s \in Seen /\ s.row.status = "Picked" /\ s.row \in Row
      /\ w \in Weight /\ w \in Nat /\ s.row.weight \in Int /\ calls[c].cost \in Nat
  BY Holds, Weights, TotalIsInt DEF WarehousChecked, At, Held, Row, Busy, Call
<1>2. Accepted(c) \in Nat
  BY <1>1, Charges DEF Accepted
<1>3. /\ \E byWeight \in BOOLEAN : PostFix(Accepted(c), byWeight)
      /\ heaviest' = IF Exceeds(c) THEN Larger(heaviest, calls[c].cost)
                     ELSE IF Priced(s, w, s.row.weight) THEN Larger(heaviest, w)
                     ELSE heaviest
      /\ UNCHANGED <<world, queued, marks, faults>>
  BY DEF WarehousChecked, Accepted
<1>4. /\ harm \subseteq harm' /\ harm' \subseteq Harms
      /\ "money" \notin harm' /\ Accepted(c) > 0 => Current(c)
  BY Unpacked, WroteHarms DEF WarehousChecked, Accepted, Harms, Wrote, Stale, Current
<1>5. Stays(c) /\ calls'[c] = Idle
  BY OneCall, EndIsSound DEF WarehousChecked, End
<1>6. row' \in Row /\ row'.status = "Labeled" /\ row'.alert = row.alert /\ row'.fee = row.fee
  <2> DEFINE exceed == row.exceed \/ Exceeds(c)
  <2>1. exceed \in BOOLEAN
    OBVIOUS
  <2>2. row' = [row EXCEPT !.status = "Labeled", !.actual = w, !.exceed = exceed]
    BY Unpacked DEF WarehousChecked, Row
  <2> HIDE DEF exceed
  <2> QED BY <1>1, <2>1, <2>2, Unpacked DEF Row, Status
<1> QED BY <1>1, <1>2, <1>3, <1>4, <1>5, <1>6

LEMMA WarehousCheckedKeeps ==
  ASSUME Inv, NEW c \in world.actors, WarehousChecked(c)
  PROVE  Inv'
<1>1. fees' \in Fees /\ paid' \in Int
  BY Accepts, PostFixTypes, Unpacked
<1>2. heaviest' \in Nat \ {0}
  BY Accepts, Amounts, Unpacked
<1>3. tracked' \in Nat /\ calls' = [calls EXCEPT ![c] = Idle]
  BY Unpacked DEF WarehousChecked, End
<1> QED BY <1>1, <1>2, <1>3, Accepts, Unpacked, Writes, EndIsSound

LEMMA StoreLabelKeeps ==
  ASSUME Inv, NEW c \in world.actors, StoreLabel(c)
  PROVE  Inv'
<1>1. calls[c] # Idle /\ SeenBy(c).row \in Row
  BY Holds, TotalIsInt DEF StoreLabel, At
<1>2. harm' \subseteq Harms
  BY Unpacked, WroteHarms DEF StoreLabel, Harms
<1>3. row' \in Row
  <2>1. [SeenBy(c).row EXCEPT !.label = "stored"] \in Row
    BY <1>1 DEF Row
  <2> QED BY <1>1, <2>1, UpdatePackageTypes, Unpacked DEF StoreLabel
<1> QED BY <1>2, <1>3, Unpacked, Writes, EndIsSound DEF StoreLabel, End

LEMMA OcrKeeps ==
  ASSUME Inv, NEW c \in world.actors, Ocr(c)
  PROVE  Inv'
<1>1. calls[c] # Idle
  BY DEF Ocr, At
<1>2. harm' \subseteq Harms
  BY Unpacked, WroteHarms DEF Ocr, Harms
<1>3. row' \in Row /\ fees' \in Fees
  BY Unpacked DEF Ocr, Row, Fees
<1>4. \E x : Sound(x) /\ calls' = [calls EXCEPT ![c] = x]
  <2> DEFINE x == [calls[c] EXCEPT !.pc = "replace"]
  <2>1. x \in Call /\ x.pc = "replace" /\ [calls EXCEPT ![c].pc = "replace"] = [calls EXCEPT ![c] = x]
    BY <1>1, GoesOn DEF Pcs
  <2> HIDE DEF x
  <2>2. Tiktok
    BY <1>1, Holds DEF Ocr, At, Held
  <2>3. Sound(x)
    BY <2>1, <2>2 DEF Sound, Held
  <2> QED BY <2>1, <2>3, EndIsSound DEF Ocr, Goto, End
<1> QED BY <1>2, <1>3, <1>4, Unpacked, Writes DEF Ocr

LEMMA ReplaceTrackingKeeps ==
  ASSUME Inv, NEW c \in world.actors, ReplaceTracking(c)
  PROVE  Inv'
<1> DEFINE s == SeenBy(c)
<1>1. /\ calls[c] # Idle /\ calls[c] \in Call /\ s = calls[c].seen /\ s \in Seen /\ Tiktok
  BY Holds DEF ReplaceTracking, At, Held
<1>2. tracked' \in Nat
  BY Unpacked DEF ReplaceTracking
<1>3. PICK x : x \in Call /\ x.pc = "create" /\ calls' = [calls EXCEPT ![c] = x]
  <2> DEFINE seen == [s EXCEPT !.tracked = tracked']
             x == [calls[c] EXCEPT !.pc = "create", !.seen = seen]
  <2>1. seen \in Seen
    BY <1>1, <1>2 DEF Seen
  <2>2. calls' = [calls EXCEPT ![c] = x]
    BY <1>1 DEF ReplaceTracking, Inv, TypeOK, Call, Seen
  <2> HIDE DEF seen
  <2>3. x \in Call /\ x.pc = "create"
    BY <1>1, <2>1 DEF Call
  <2> QED BY <2>2, <2>3
<1>4. Sound(x)
  BY <1>1, <1>3 DEF Sound, Held
<1> QED BY <1>2, <1>3, <1>4, Unpacked, Writes DEF ReplaceTracking

LEMMA CreateTrackingKeeps ==
  ASSUME Inv, NEW c \in world.actors, CreateTrackingTiktok(c)
  PROVE  Inv'
<1>1. harm' \subseteq Harms /\ tracked' \in Nat
  BY Unpacked DEF CreateTrackingTiktok, Harms
<1> QED BY <1>1, Unpacked, Writes, EndIsSound DEF CreateTrackingTiktok, End

LEMMA FaultsKeep ==
  ASSUME Inv, (\E c \in world.actors : Fail(c)) \/ Crash
  PROVE  Inv'
<1>1. ASSUME NEW c \in world.actors, Fail(c)
      PROVE  Inv'
  <2>1. harm' \subseteq Harms /\ marks' \subseteq {"package_call_label", "package_call_label_1"}
    BY <1>1, Unpacked DEF Fail, Harms
  <2> QED BY <1>1, <2>1, Unpacked, Writes, EndIsSound DEF Fail, End, table
<1>2. CASE Crash
  <2>1. harm' \subseteq Harms
    BY <1>2, Unpacked DEF Crash, Harms
  <2>2. faults' \in 0..MaxFaults
    BY <1>2, ParcelConstants DEF Crash, Faulty, Inv, TypeOK
  <2> QED BY <1>2, <2>1, <2>2 DEF Crash, Inv, TypeOK, table, Busy
<1> QED BY <1>1, <1>2

LEMMA InitInv == Init => Inv
<1> SUFFICES ASSUME Init PROVE Inv
  OBVIOUS
<1>1. PICK w \in world.weights :
        /\ row = [status |-> "Created", alert |-> FALSE, recipient |-> "given",
                  label |-> IF Tiktok THEN "url" ELSE "none", weight |-> w, actual |-> 0, fee |-> w, exceed |-> FALSE]
        /\ heaviest = w
  BY DEF Init
<1>2. w \in Weight
  BY Weights DEF Init
<1>3. row \in Row
  BY <1>1, <1>2 DEF Row, Status
<1>4. fees \in Fees
  BY DEF Init, Fees
<1>5. Busy = {}
  BY DEF Init, Busy
<1> QED BY <1>1, <1>2, <1>3, <1>4, <1>5, ParcelConstants DEF Init, Inv, TypeOK, Harms

LEMMA Steps ==
  ASSUME Inv, Next
  PROVE  \/ \E c \in world.actors :
              \/ Process(c) \/ Cancel(c) \/ Return(c)
              \/ \E w \in world.weights : Scan(c, w) \/ CheckIn(c, w) \/ Accept(c, w)
              \/ ConsumeUpload(c) \/ ConsumeOcr(c) \/ TickUpload(c) \/ TickOcr(c)
         \/ \E c \in world.actors : Mark(c) \/ CallLabel(c) \/ Claim(c) \/ Carrier(c)
         \/ \E c \in world.actors :
              \/ CreateBill(c) \/ CancelPackages(c) \/ ScanFee(c) \/ ScanSave(c)
              \/ ExceedPrice(c) \/ WarehousInCheck(c) \/ UpdateTracking(c) \/ Finish(c) \/ WarehousChecked(c)
              \/ ReturnPackage(c)
         \/ \E c \in world.actors :
              StoreLabel(c) \/ Ocr(c) \/ ReplaceTracking(c) \/ CreateTrackingTiktok(c)
         \/ (\E c \in world.actors : Fail(c)) \/ Crash
BY DEF Next, Handle, Work

LEMMA NextInv == Inv /\ [Next]_vars => Inv'
<1> SUFFICES ASSUME Inv, [Next]_vars PROVE Inv'
  OBVIOUS
<1>1. CASE Next
  BY <1>1, Steps, ReadersKeep, MarksKeep, CreateBillKeeps, CancelPackagesKeeps, ScanFeeKeeps,
     ScanSaveKeeps, ExceedPriceKeeps, WarehousInCheckKeeps, UpdateTrackingKeeps, StatusKeeps,
     WarehousCheckedKeeps, StoreLabelKeeps, OcrKeeps, ReplaceTrackingKeeps,
     CreateTrackingKeeps, FaultsKeep
<1>2. CASE UNCHANGED vars
  BY <1>2 DEF vars, table, Inv, TypeOK, Busy, Held, Tiktok
<1> QED BY <1>1, <1>2

LEMMA InvHolds == Spec => []Inv
BY InitInv, NextInv, PTL DEF Spec

\* TypeOK for every number of actors, sort of package and set of weights: whatever rows
\* written back late bring back, prices, fees and trackings stay what they are.
THEOREM TypeCorrect == Spec => []TypeOK
<1>1. Inv => TypeOK
  BY DEF Inv
<1> QED BY <1>1, InvHolds, PTL

-----------------------------------------------------------------------------
(* Money. *)

\* What all steps have in common that leave the tables alone.
OnlyReads(c) ==
  /\ UNCHANGED <<world, table, heaviest, harm>> /\ Stays(c)
  /\ calls[c] # Idle => calls[c].pc # "create"
  /\ calls'[c] # Idle =>
       /\ calls'[c].pc # "create"
       /\ calls'[c].seen = Now \/ (calls[c] # Idle /\ calls'[c].seen = SeenBy(c))

LEMMA ReadersOnlyRead ==
  ASSUME Inv, NEW c \in world.actors,
         \/ Process(c) \/ Cancel(c) \/ Return(c)
         \/ \E w \in world.weights : Scan(c, w) \/ CheckIn(c, w) \/ Accept(c, w)
         \/ ConsumeUpload(c) \/ ConsumeOcr(c) \/ TickUpload(c) \/ TickOcr(c)
  PROVE  OnlyReads(c)
<1>1. /\ UNCHANGED <<world, table, heaviest, harm>> /\ calls[c] = Idle
      /\ \E pc \in Pcs \ {"create"} : \E w : Read(c, pc, w)
  BY DEF Process, Cancel, Return, Scan, CheckIn, Accept, ConsumeUpload, ConsumeOcr, TickUpload,
         TickOcr, Consume, Tick, Begins, Pcs
<1>2. PICK pc \in Pcs \ {"create"} : \E w : Read(c, pc, w)
  BY <1>1
<1>3. PICK w : calls' = [calls EXCEPT ![c] = [pc |-> pc, seen |-> Now, weight |-> w, new |-> FALSE, held |-> 0, cost |-> 0]]
  BY <1>2 DEF Read
<1> QED BY <1>1, <1>3 DEF OnlyReads, Stays, Inv, TypeOK

LEMMA MarksOnlyRead ==
  ASSUME Inv, NEW c \in world.actors, Mark(c) \/ CallLabel(c) \/ Claim(c) \/ Carrier(c)
  PROVE  OnlyReads(c)
<1>1. /\ UNCHANGED <<world, table, heaviest, harm>>
      /\ calls[c] # Idle /\ calls[c].pc # "create" /\ calls[c] \in Call
  BY Holds DEF Mark, CallLabel, Claim, Carrier, At
<1>2. \/ calls' = [calls EXCEPT ![c] = Idle]
      \/ \E pc \in Pcs \ {"create"} : calls' = [calls EXCEPT ![c].pc = pc]
      \/ \E pc \in Pcs \ {"create"} : \E new, held :
           calls' = [calls EXCEPT ![c].pc = pc, ![c].new = new, ![c].held = held]
  <2>1. CASE Mark(c) \/ Claim(c) \/ Carrier(c)
    BY <2>1 DEF Mark, Claim, Carrier, Goto, End, Pcs
  <2>2. CASE CallLabel(c)
    BY <2>2 DEF CallLabel, Goto, Pcs
  <2> QED BY <2>1, <2>2
<1>3. /\ Stays(c)
      /\ calls'[c] # Idle => calls'[c].pc # "create" /\ calls'[c].seen = calls[c].seen
  <2>1. CASE calls' = [calls EXCEPT ![c] = Idle]
    BY <2>1 DEF Stays, Inv, TypeOK
  <2>2. ASSUME NEW pc \in Pcs \ {"create"}, calls' = [calls EXCEPT ![c].pc = pc]
        PROVE  Stays(c) /\ calls'[c].pc # "create" /\ calls'[c].seen = calls[c].seen
    BY <1>1, <2>2 DEF Stays, Inv, TypeOK, Call
  <2>3. ASSUME NEW pc \in Pcs \ {"create"}, NEW new, NEW held,
               calls' = [calls EXCEPT ![c].pc = pc, ![c].new = new, ![c].held = held]
        PROVE  Stays(c) /\ calls'[c].pc # "create" /\ calls'[c].seen = calls[c].seen
    BY <1>1, <2>3 DEF Stays, Inv, TypeOK, Call
  <2> QED BY <1>2, <2>1, <2>2, <2>3
<1> QED BY <1>1, <1>3 DEF OnlyReads, SeenBy

\* A billed package was paid for.
LEMMA SeenAmounts ==
  ASSUME NEW s \in Seen
  PROVE  /\ s.row.fee \in Nat /\ s.row.fee > 0
         /\ s.fees.fix \in Int /\ s.fees.volume \in Nat /\ s.fees.hold \in Int
         /\ s.fees.size \in {0, 1} /\ s.paid \in Int /\ s.tracked \in Nat
BY TotalIsInt, Weights DEF Row, Fees

LEMMA Fields ==
  ASSUME Inv
  PROVE  /\ Now \in Seen /\ Now.row = row /\ Now.fees = fees /\ Now.paid = paid
         /\ Now.tracked = tracked
BY NowIsSeen DEF Inv, Now

\* Nothing that was billed is unbilled again, and its price stays.
KeepsPrice ==
  row.status \notin Unbilled => row'.status \notin Unbilled /\ row'.fee = row.fee

LEMMA MoneyStep ==
  ASSUME Inv, MoneyInv, NEW c \in world.actors, world' = world, Stays(c), harm \subseteq harm',
         "money" \notin harm' =>
           /\ Settled(Now)' /\ KeepsPrice
           /\ calls'[c] # Idle => Settled(SeenBy(c)') /\ StillBilled(SeenBy(c))'
  PROVE  MoneyInv'
<1> SUFFICES ASSUME "money" \notin harm', NEW d \in Busy'
             PROVE  Settled(SeenBy(d)') /\ StillBilled(SeenBy(d))'
  BY DEF MoneyInv, Settled, Total, Weighed, Unpaid
<1>1. d \in world.actors /\ calls'[d] # Idle
  BY DEF Busy
<1>2. CASE d # c
  <2>1. SeenBy(d)' = SeenBy(d) /\ d \in Busy
    BY <1>1, <1>2 DEF Stays, SeenBy, Busy
  <2> QED BY <2>1 DEF MoneyInv, StillBilled, KeepsPrice
<1>3. CASE d = c
  BY <1>1, <1>3
<1> QED BY <1>2, <1>3

LEMMA MoneyReads ==
  ASSUME Inv, MoneyInv, NEW c \in world.actors, OnlyReads(c)
  PROVE  MoneyInv'
<1>1. ASSUME "money" \notin harm
      PROVE  /\ Settled(Now)' /\ KeepsPrice
             /\ calls'[c] # Idle => Settled(SeenBy(c)') /\ StillBilled(SeenBy(c))'
  <2>1. Settled(Now)' /\ KeepsPrice
    BY <1>1 DEF MoneyInv, OnlyReads, table, Now, KeepsPrice, Settled, Total, Weighed, Unpaid
  <2>2. ASSUME calls'[c] # Idle
        PROVE  Settled(SeenBy(c)') /\ StillBilled(SeenBy(c))'
    <3>1. CASE SeenBy(c)' = Now
      BY <1>1, <3>1, Fields DEF MoneyInv, StillBilled, OnlyReads, table
    <3>2. CASE calls[c] # Idle /\ SeenBy(c)' = SeenBy(c)
      BY <1>1, <3>2 DEF MoneyInv, StillBilled, OnlyReads, table, Busy
    <3> QED BY <2>2, <3>1, <3>2 DEF OnlyReads, SeenBy
  <2> QED BY <2>1, <2>2
<1> QED BY <1>1, MoneyStep DEF OnlyReads

LEMMA WroteMoney ==
  ASSUME NEW c, NEW parts, "money" \in parts, Wrote(c, parts), "money" \notin harm'
  PROVE  Current(c)
BY DEF Wrote, Stale, Current

LEMMA CurrentAgrees ==
  ASSUME Inv, MoneyInv, "money" \notin harm, NEW c \in Busy, Current(c)
  PROVE  row.status \in Unbilled <=> SeenBy(c).row.status \in Unbilled
<1> DEFINE s == SeenBy(c)
<1>1. s \in Seen /\ Settled(s) /\ StillBilled(s) /\ Settled(Now)
  BY Holds DEF MoneyInv, Busy
<1>2. Now \in Seen /\ Now.row = row /\ Now.fees = fees /\ Now.paid = paid
  BY Fields
<1>3. CASE s.row.status \notin Unbilled
  BY <1>1, <1>3 DEF StillBilled
<1>4. CASE s.row.status \in Unbilled /\ row.status \notin Unbilled
  <2>1. paid = 0 /\ fees.fix = 0 /\ fees.volume = 0 /\ fees.hold = 0
    BY <1>1, <1>4 DEF Settled, Unpaid, Current
  <2>2. paid = row.fee + fees.fix + fees.volume + fees.hold + fees.size
    BY <1>1, <1>2, <1>4 DEF Settled, Total, Weighed
  <2>3. row.fee \in Nat /\ row.fee > 0 /\ fees.size \in {0, 1}
    BY <1>2, SeenAmounts
  <2> QED BY <2>1, <2>2, <2>3
<1> QED BY <1>3, <1>4

\* What the tables hold after a step, as Settled sees it.
Holding(status, fee) ==
  IF status \in Unbilled
  THEN paid' = 0 /\ fees'.fix = 0 /\ fees'.volume = 0 /\ fees'.hold = 0
  ELSE paid' = fee + fees'.fix + fees'.volume + fees'.hold + fees'.size

LEMMA NowSettled == Settled(Now)' <=> Holding(row'.status, row'.fee)
BY DEF Settled, Unpaid, Total, Weighed, Now, Holding

\* The row is written whole, with a status that is as billed as the one that was read.
LEMMA MoneyWholeRow ==
  ASSUME Inv, MoneyInv, "money" \notin harm, NEW c \in Busy, Current(c),
         row'.fee = SeenBy(c).row.fee,
         row'.status \in Unbilled <=> SeenBy(c).row.status \in Unbilled,
         UNCHANGED <<fees, paid>>
  PROVE  Settled(Now)' /\ KeepsPrice
<1>1. row.status \in Unbilled <=> row'.status \in Unbilled
  BY CurrentAgrees
<1>2. Settled(Now) /\ row'.fee = row.fee
  BY DEF MoneyInv, Current
<1> QED BY <1>1, <1>2, Fields, NowSettled DEF Settled, Unpaid, Total, Weighed, Holding, KeepsPrice

LEMMA MoneyExceedPrice ==
  ASSUME Inv, MoneyInv, NEW c \in world.actors, ExceedPrice(c)
  PROVE  MoneyInv'
<1> DEFINE s == SeenBy(c)
<1>1. /\ UNCHANGED <<world, row, fees, tracked, paid, harm>> /\ c \in Busy
      /\ calls[c] # Idle /\ calls[c].pc \in {"price", "exceed"}
  BY Rereads DEF Busy
<1>2. s.row.status = "Picked" /\ s \in Seen
  BY <1>1, Holds DEF Held
<1>3. PICK x : /\ calls' = [calls EXCEPT ![c] = x]
               /\ x.seen.fees = fees /\ x.seen.paid = paid
               /\ x.seen.row.status = s.row.status /\ x.seen.row.fee \in {s.row.fee, row.fee}
  BY Rereads
<1>4. Stays(c) /\ calls'[c] = x
  BY <1>3 DEF Stays, Inv, TypeOK
<1>5. ASSUME "money" \notin harm
      PROVE  Settled(Now)' /\ KeepsPrice
  BY <1>1, <1>5 DEF MoneyInv, Now, KeepsPrice, Settled, Total, Weighed, Unpaid
<1>6. ASSUME "money" \notin harm
      PROVE  Settled(SeenBy(c)') /\ StillBilled(SeenBy(c))'
  <2>1. SeenBy(c)' = x.seen
    BY <1>4 DEF SeenBy
  <2>2. row.status \notin Unbilled /\ row.fee = s.row.fee /\ Settled(Now)
    BY <1>1, <1>2, <1>6 DEF MoneyInv, StillBilled, Unbilled
  <2>3. x.seen.paid = Total(x.seen)
    BY <1>3, <2>2, Fields DEF Settled, Total, Weighed
  <2> QED BY <1>1, <1>2, <1>3, <2>1, <2>2, <2>3 DEF Settled, StillBilled, Unbilled
<1> QED BY <1>1, <1>4, <1>5, <1>6, MoneyStep

LEMMA MoneyCreateBill ==
  ASSUME Inv, MoneyInv, NEW c \in world.actors, CreateBill(c)
  PROVE  MoneyInv'
<1> DEFINE s == SeenBy(c)
<1>1. c \in Busy /\ s \in Seen /\ s.row.status = "Created"
  BY Holds DEF CreateBill, At, Busy, Held
<1>2. harm \subseteq harm' /\ world' = world /\ Stays(c) /\ calls'[c] = Idle
  BY OneCall, EndIsSound DEF CreateBill, Wrote, End
<1>3. ASSUME "money" \notin harm'
      PROVE  Settled(Now)' /\ KeepsPrice
  <2>1. Current(c)
    BY <1>3, WroteMoney DEF CreateBill
  <2>2. Settled(s)
    BY <1>1, <1>2, <1>3 DEF MoneyInv
  <2>3. paid = 0 /\ fees.fix = 0 /\ fees.volume = 0 /\ fees.hold = 0
    BY <1>1, <2>1, <2>2 DEF Settled, Unbilled, Unpaid, Current
  <2>4. /\ row'.status = "PendingPickup" /\ row'.fee = row.fee
        /\ fees' = fees /\ paid' = paid + Total(s)
    BY Unpacked DEF CreateBill, Row
  <2>5. row.fee \in Nat /\ row.fee > 0 /\ fees.size \in {0, 1}
    BY Fields, SeenAmounts
  <2>6. Total(s) = row.fee + fees.size
    BY <2>1, <2>3, <2>5 DEF Total, Weighed, Current
  <2> QED BY <2>3, <2>4, <2>5, <2>6, NowSettled DEF Holding, Unbilled, KeepsPrice
<1> QED BY <1>2, <1>3, MoneyStep

LEMMA MoneyCancelPackages ==
  ASSUME Inv, MoneyInv, NEW c \in world.actors, CancelPackages(c)
  PROVE  MoneyInv'
<1> DEFINE s == SeenBy(c)
<1>1. c \in Busy /\ s \in Seen /\ s.row \in Row /\ s.row.status \in {"Created", "PendingPickup"}
  BY Holds, TotalIsInt DEF CancelPackages, At, Busy, Held
<1>2. harm \subseteq harm' /\ world' = world /\ Stays(c) /\ calls'[c] = Idle
  BY OneCall, EndIsSound DEF CancelPackages, Wrote, End
<1>3. ASSUME "money" \notin harm'
      PROVE  Settled(Now)' /\ KeepsPrice
  <2>1. Current(c)
    BY <1>3, WroteMoney DEF CancelPackages
  <2>2. /\ row'.fee = s.row.fee /\ UNCHANGED <<fees, paid>>
        /\ row'.status \in Unbilled <=> s.row.status \in Unbilled
    BY <1>1 DEF CancelPackages, Row, Unbilled
  <2> QED BY <1>1, <1>2, <1>3, <2>1, <2>2, MoneyWholeRow
<1> QED BY <1>2, <1>3, MoneyStep

LEMMA MoneyStoreLabel ==
  ASSUME Inv, MoneyInv, NEW c \in world.actors, StoreLabel(c)
  PROVE  MoneyInv'
<1> DEFINE s == SeenBy(c)
<1>1. c \in Busy /\ s \in Seen /\ s.row \in Row
  BY Holds, TotalIsInt DEF StoreLabel, At, Busy
<1>2. harm \subseteq harm' /\ world' = world /\ Stays(c) /\ calls'[c] = Idle
  BY OneCall, EndIsSound DEF StoreLabel, Wrote, End
<1>3. ASSUME "money" \notin harm'
      PROVE  Settled(Now)' /\ KeepsPrice
  <2>1. CASE UNCHANGED row
    <3>1. UNCHANGED <<row, fees, paid>>
      BY <2>1 DEF StoreLabel
    <3> QED BY <1>2, <1>3, <3>1, Fields, NowSettled
            DEF MoneyInv, Settled, Unpaid, Total, Weighed, Holding, KeepsPrice
  <2>2. CASE ~UNCHANGED row
    <3>1. Current(c) /\ UNCHANGED <<fees, paid>>
      BY <1>3, <2>2, WroteMoney DEF StoreLabel
    <3>2. row'.status = s.row.status /\ row'.fee = s.row.fee
      <4>1. /\ [s.row EXCEPT !.label = "stored"] \in Row
            /\ [s.row EXCEPT !.label = "stored"].status = s.row.status
            /\ [s.row EXCEPT !.label = "stored"].fee = s.row.fee
        BY <1>1 DEF Row
      <4> QED BY <1>1, <2>2, <4>1, UpdatePackageTypes, Unpacked DEF StoreLabel
    <3> QED BY <1>1, <1>2, <1>3, <3>1, <3>2, MoneyWholeRow
  <2> QED BY <2>1, <2>2
<1> QED BY <1>2, <1>3, MoneyStep

LEMMA MoneyOcr ==
  ASSUME Inv, MoneyInv, NEW c \in world.actors, Ocr(c)
  PROVE  MoneyInv'
<1> DEFINE s == SeenBy(c)
<1>1. c \in Busy /\ s \in Seen /\ calls[c] \in Call /\ s = calls[c].seen
  BY Holds DEF Ocr, At, Busy
<1>2. harm \subseteq harm' /\ world' = world
  BY DEF Ocr, Wrote
<1>3. Stays(c) /\ (calls'[c] # Idle => calls'[c].seen = s)
  BY <1>1 DEF Ocr, Goto, End, Stays, Inv, TypeOK, Call
<1>4. ASSUME "money" \notin harm'
      PROVE  Settled(Now)' /\ KeepsPrice
  <2>1. row'.status = row.status /\ row'.fee = row.fee /\ paid' = paid
    BY Unpacked DEF Ocr, Row
  <2>2. CASE s.row.status # "Created"
    <3>1. fees' = fees
      BY <2>2 DEF Ocr
    <3> QED BY <1>2, <1>4, <2>1, <3>1, Fields, NowSettled
            DEF MoneyInv, Settled, Unpaid, Total, Weighed, Holding, KeepsPrice
  <2>3. CASE s.row.status = "Created"
    <3>1. Current(c)
      BY <1>4, <2>3, WroteMoney DEF Ocr
    <3>2. row.status \in Unbilled
      BY <1>1, <1>2, <1>4, <2>3, <3>1, CurrentAgrees DEF Unbilled
    <3>3. fees'.fix = fees.fix /\ fees'.volume = fees.volume /\ fees'.hold = fees.hold
      BY <2>3, Unpacked DEF Ocr, Fees
    <3> QED BY <1>2, <1>4, <2>1, <3>2, <3>3, Fields, NowSettled
            DEF MoneyInv, Settled, Unpaid, Holding, KeepsPrice
  <2> QED BY <2>2, <2>3
<1>5. ASSUME "money" \notin harm', calls'[c] # Idle
      PROVE  Settled(SeenBy(c)') /\ StillBilled(SeenBy(c))'
  <2>1. row'.status = row.status /\ row'.fee = row.fee
    BY Unpacked DEF Ocr, Row
  <2>2. SeenBy(c)' = s
    BY <1>3, <1>5 DEF SeenBy
  <2> QED BY <1>1, <1>2, <1>5, <2>1, <2>2 DEF MoneyInv, StillBilled
<1> QED BY <1>2, <1>3, <1>4, <1>5, MoneyStep

\* The amounts stay, and the package stays as billed as it was.
LEMMA MoneyStatus ==
  ASSUME Inv, MoneyInv, "money" \notin harm, UNCHANGED <<fees, paid>>,
         row'.fee = row.fee, row'.status \in Unbilled <=> row.status \in Unbilled
  PROVE  Settled(Now)' /\ KeepsPrice
BY Fields, NowSettled DEF MoneyInv, Settled, Unpaid, Total, Weighed, Holding, KeepsPrice

\* A call that read a billed package.
LEMMA ReadBilled ==
  ASSUME Inv, MoneyInv, "money" \notin harm, NEW c \in Busy,
         SeenBy(c).row.status \notin Unbilled
  PROVE  /\ row.status \notin Unbilled /\ row.fee = SeenBy(c).row.fee
         /\ paid = row.fee + fees.fix + fees.volume + fees.hold + fees.size
<1> DEFINE s == SeenBy(c)
<1>1. s \in Seen /\ Settled(s) /\ StillBilled(s) /\ Settled(Now)
  BY Holds DEF MoneyInv, Busy
<1>2. row.status \notin Unbilled /\ row.fee = s.row.fee
  BY <1>1 DEF StillBilled
<1>3. paid = row.fee + fees.fix + fees.volume + fees.hold + fees.size
  BY <1>1, <1>2, Fields DEF Settled, Total, Weighed
<1> QED BY <1>2, <1>3

\* A difference is charged for a billed package.
LEMMA MoneyPostFix ==
  ASSUME Inv, MoneyInv, "money" \notin harm, NEW c \in Busy,
         SeenBy(c).row.status \notin Unbilled,
         NEW plus \in Int, NEW byWeight \in BOOLEAN, PostFix(plus, byWeight),
         row'.fee = row.fee, row'.status \notin Unbilled
  PROVE  Settled(Now)' /\ KeepsPrice
<1>1. paid = row.fee + fees.fix + fees.volume + fees.hold + fees.size
  BY ReadBilled
<1>2. /\ row.fee \in Int /\ fees.fix \in Int /\ fees.volume \in Int /\ fees.hold \in Int
      /\ fees.size \in Int
  BY Fields, SeenAmounts
<1>3. /\ paid' = paid + plus
      /\ fees'.fix = IF byWeight THEN fees.fix + plus ELSE fees.fix
      /\ fees'.volume = IF byWeight THEN fees.volume ELSE fees.volume + plus
      /\ fees'.hold = fees.hold /\ fees'.size = fees.size
  BY Unpacked DEF PostFix, Fees
<1>4. Holding(row'.status, row'.fee)
  BY <1>1, <1>2, <1>3 DEF Holding
<1> QED BY <1>4, NowSettled DEF KeepsPrice

LEMMA MoneyScanFee ==
  ASSUME Inv, MoneyInv, NEW c \in world.actors, ScanFee(c)
  PROVE  MoneyInv'
<1> DEFINE s == SeenBy(c)
<1>1. /\ c \in Busy /\ s \in Seen /\ s.row.status = "PendingPickup"
      /\ calls[c] \in Call /\ s = calls[c].seen
      /\ harm \subseteq harm' /\ UNCHANGED <<world, row>>
  BY ScanCharges
<1>2. PICK price \in {0, calls[c].weight} :
        Charged(c, price) /\ price - s.row.fee - s.fees.fix \in Int
  BY ScanCharges
<1> DEFINE diff == price - s.row.fee - s.fees.fix
<1>3. fees' \in Fees /\ paid' \in Int
  BY ScanFeeKeeps DEF Inv, TypeOK
<1>4. /\ Stays(c) /\ calls'[c].seen.row = s.row
      /\ calls'[c].seen.fees = fees' /\ calls'[c].seen.paid = paid'
  BY <1>1, <1>3 DEF ScanFee, Stays, Inv, TypeOK, Call, Seen
<1>6. ASSUME "money" \notin harm'
      PROVE  Settled(Now)' /\ KeepsPrice
  <2>1. CASE Tiktok \/ diff > 0
    <3>1. PostFix(diff, TRUE) /\ diff \in Int
      BY <1>2, <2>1 DEF Charged
    <3>2. row.status \notin Unbilled
      BY <1>1, <1>6, ReadBilled DEF Unbilled
    <3> QED BY <1>1, <1>6, <3>1, <3>2, MoneyPostFix DEF Unbilled
  <2>2. CASE ~(Tiktok \/ diff > 0)
    <3>1. UNCHANGED <<fees, paid>>
      BY <1>2, <2>2 DEF Charged
    <3> QED BY <1>1, <1>6, <3>1, MoneyStatus
  <2> QED BY <2>1, <2>2
<1>7. ASSUME "money" \notin harm'
      PROVE  Settled(SeenBy(c)') /\ StillBilled(SeenBy(c))'
  <2>1. /\ SeenBy(c)'.row = s.row /\ SeenBy(c)'.fees = fees' /\ SeenBy(c)'.paid = paid'
    BY <1>4 DEF SeenBy
  <2>2. row.status \notin Unbilled /\ row.fee = s.row.fee
    BY <1>1, <1>7, ReadBilled DEF Unbilled
  <2>3. Holding(row'.status, row'.fee)
    BY <1>6, <1>7, NowSettled
  <2> QED BY <1>1, <2>1, <2>2, <2>3 DEF Holding, Settled, Total, Weighed, StillBilled, Unbilled
<1> QED BY <1>1, <1>4, <1>6, <1>7, MoneyStep

LEMMA MoneyScanSave ==
  ASSUME Inv, MoneyInv, NEW c \in world.actors, ScanSave(c)
  PROVE  MoneyInv'
<1> DEFINE s == SeenBy(c)
<1>1. /\ c \in Busy /\ s \in Seen
      /\ harm \subseteq harm' /\ {"status", "money"} \cap Stale(c) \subseteq harm'
      /\ UNCHANGED <<world, fees, paid>> /\ Stays(c) /\ calls'[c] = Idle
      /\ row'.status = s.row.status
      /\ s.row.status # "Created" => row'.fee = s.row.fee
  BY ScanSaves
<1>3. ASSUME "money" \notin harm'
      PROVE  Settled(Now)' /\ KeepsPrice
  <2>1. Current(c) /\ "money" \notin harm
    BY <1>1, <1>3 DEF Stale, Current
  <2>3. CASE s.row.status = "Created"
    <3>1. row.status \in Unbilled
      BY <1>1, <2>1, <2>3, CurrentAgrees DEF Unbilled
    <3> QED BY <1>1, <2>1, <2>3, <3>1, Fields, NowSettled
            DEF MoneyInv, Settled, Unpaid, Holding, KeepsPrice, Unbilled
  <2>4. CASE s.row.status # "Created"
    BY <1>1, <2>1, <2>4, MoneyWholeRow
  <2> QED BY <2>3, <2>4
<1> QED BY <1>1, <1>3, MoneyStep

\* A call that checked a package in keeps what it read, with the new status.
LEMMA CheckedIn ==
  ASSUME Inv, NEW c \in world.actors, WarehousInCheck(c)
  PROVE  /\ Stays(c) /\ calls'[c].seen.row.status = "Picked"
         /\ calls'[c].seen.row.fee = SeenBy(c).row.fee
         /\ calls'[c].seen.fees = SeenBy(c).fees /\ calls'[c].seen.paid = SeenBy(c).paid
<1> DEFINE s == SeenBy(c)
<1>1. /\ c \in Busy /\ s \in Seen /\ s.row \in Row /\ calls[c] \in Call /\ s = calls[c].seen
  BY Holds, TotalIsInt DEF WarehousInCheck, At, Busy
<1> QED BY <1>1 DEF WarehousInCheck, Stays, Inv, TypeOK, Call, Seen, Row

LEMMA MoneyWarehousInCheck ==
  ASSUME Inv, MoneyInv, NEW c \in world.actors, WarehousInCheck(c)
  PROVE  MoneyInv'
<1> DEFINE s == SeenBy(c)
           w == calls[c].weight
           plus == Plus(s, w, Known(s))
<1>1. /\ c \in Busy /\ s \in Seen /\ s.row.status = "PendingPickup" /\ w \in Weight /\ s.row \in Row
      /\ calls[c] \in Call /\ s = calls[c].seen
  BY Holds, TotalIsInt DEF WarehousInCheck, At, Busy, Held
<1>2. harm \subseteq harm' /\ world' = world
  BY DEF WarehousInCheck, Wrote
<1>3. /\ Stays(c) /\ calls'[c].seen.row.status = "Picked" /\ calls'[c].seen.row.fee = s.row.fee
      /\ calls'[c].seen.fees = s.fees /\ calls'[c].seen.paid = s.paid
  BY CheckedIn
<1>4. plus \in Nat
  <2>1. w \in Int
    BY <1>1, Weights
  <2>2. Known(s) \in Int
    BY <1>1, Amounts, Weights
  <2> QED BY <1>1, <2>1, <2>2, Charges
<1>5. row'.status = "Picked" /\ row'.fee = row.fee
  BY Unpacked DEF WarehousInCheck, Row
<1>6. PICK byWeight \in BOOLEAN : PostFix(plus, byWeight)
  BY DEF WarehousInCheck
<1>7. ASSUME "money" \notin harm'
      PROVE  /\ Settled(Now)' /\ KeepsPrice
             /\ Settled(SeenBy(c)') /\ StillBilled(SeenBy(c))'
  <2>1. s.row.status \notin Unbilled
    BY <1>1 DEF Unbilled
  <2>2. row.status \notin Unbilled /\ row.fee = s.row.fee
    BY <1>1, <1>2, <1>7, <2>1, ReadBilled
  <2>4. Settled(Now)' /\ KeepsPrice
    BY <1>1, <1>2, <1>4, <1>5, <1>6, <1>7, <2>1, MoneyPostFix DEF Unbilled
  <2>5. Settled(s)
    BY <1>1, <1>2, <1>7 DEF MoneyInv
  <2>6. Settled(SeenBy(c)') /\ StillBilled(SeenBy(c))'
    <3> DEFINE t == calls'[c].seen
    <3>1. /\ t.row.status = "Picked" /\ t.row.fee = s.row.fee /\ t.fees = s.fees /\ t.paid = s.paid
      BY <1>3
    <3>2. SeenBy(c)' = t
      BY DEF SeenBy
    <3> HIDE DEF t
    <3>3. Settled(t)
      BY <2>1, <2>5, <3>1 DEF Settled, Total, Weighed, Unbilled
    <3> QED BY <1>5, <2>2, <3>1, <3>2, <3>3 DEF StillBilled, Unbilled
  <2> QED BY <2>4, <2>6
<1> QED BY <1>2, <1>3, <1>7, MoneyStep

LEMMA MoneyUpdateTracking ==
  ASSUME Inv, MoneyInv, NEW c \in world.actors, UpdateTracking(c)
  PROVE  MoneyInv'
<1> DEFINE s == SeenBy(c)
           held == calls[c].held
           plus == PlusExceed(s, calls[c].cost)
<1>1. /\ c \in Busy /\ s \in Seen /\ s.row.status = "Picked" /\ held \in Int /\ plus \in Nat
      /\ harm \subseteq harm' /\ world' = world /\ Stays(c) /\ calls'[c] = Idle
      /\ row'.status = "Labeled" /\ row'.fee = row.fee /\ paid' = paid + held + plus
      /\ fees'.hold = fees.hold + held /\ fees'.size = fees.size
      /\ \/ fees'.fix = fees.fix + plus /\ fees'.volume = fees.volume
         \/ fees'.fix = fees.fix /\ fees'.volume = fees.volume + plus
  BY Relabels
<1> HIDE DEF held, plus
<1>3. ASSUME "money" \notin harm'
      PROVE  Settled(Now)' /\ KeepsPrice
  <2>1. paid = row.fee + fees.fix + fees.volume + fees.hold + fees.size
    BY <1>1, <1>3, ReadBilled DEF Unbilled
  <2>2. /\ row.fee \in Int /\ fees.fix \in Int /\ fees.volume \in Int /\ fees.hold \in Int
        /\ fees.size \in Int
    BY Fields, SeenAmounts
  <2>3. Holding(row'.status, row'.fee)
    BY <1>1, <2>1, <2>2 DEF Holding, Unbilled
  <2> QED BY <1>1, <2>3, NowSettled DEF KeepsPrice, Unbilled
<1> QED BY <1>1, <1>3, MoneyStep

LEMMA MoneyStatuses ==
  ASSUME Inv, MoneyInv, NEW c \in world.actors, Finish(c) \/ ReturnPackage(c)
  PROVE  MoneyInv'
<1>1. c \in Busy /\ SeenBy(c).row.status \notin Unbilled
  BY Holds DEF Finish, ReturnPackage, At, Busy, Held, Unbilled
<1>2. harm \subseteq harm' /\ world' = world /\ Stays(c) /\ calls'[c] = Idle
  BY OneCall, EndIsSound DEF Finish, ReturnPackage, Wrote, End
<1>3. ASSUME "money" \notin harm'
      PROVE  Settled(Now)' /\ KeepsPrice
  <2>1. row.status \notin Unbilled
    BY <1>1, <1>2, <1>3, ReadBilled
  <2>2. row'.status \notin Unbilled /\ row'.fee = row.fee /\ UNCHANGED <<fees, paid>>
    BY Unpacked DEF Finish, ReturnPackage, Row, Unbilled
  <2> QED BY <1>2, <1>3, <2>1, <2>2, MoneyStatus
<1> QED BY <1>2, <1>3, MoneyStep

LEMMA MoneyWarehousChecked ==
  ASSUME Inv, MoneyInv, NEW c \in world.actors, WarehousChecked(c)
  PROVE  MoneyInv'
<1>1. /\ c \in Busy /\ SeenBy(c).row.status = "Picked" /\ Accepted(c) \in Nat
      /\ harm \subseteq harm' /\ world' = world /\ Stays(c) /\ calls'[c] = Idle
      /\ row'.status = "Labeled" /\ row'.fee = row.fee
  BY Accepts
<1>2. PICK byWeight \in BOOLEAN : PostFix(Accepted(c), byWeight)
  BY Accepts
<1>3. ASSUME "money" \notin harm'
      PROVE  Settled(Now)' /\ KeepsPrice
  BY <1>1, <1>2, <1>3, MoneyPostFix DEF Unbilled
<1> QED BY <1>1, <1>3, MoneyStep

LEMMA MoneyTrackings ==
  ASSUME Inv, MoneyInv, NEW c \in world.actors, ReplaceTracking(c) \/ CreateTrackingTiktok(c)
  PROVE  MoneyInv'
<1> DEFINE s == SeenBy(c)
<1>1. c \in Busy /\ s \in Seen /\ calls[c] \in Call /\ s = calls[c].seen
  BY Holds DEF ReplaceTracking, CreateTrackingTiktok, At, Busy
<1>2. harm \subseteq harm' /\ UNCHANGED <<world, row, fees, paid>>
  BY DEF ReplaceTracking, CreateTrackingTiktok
<1>3. /\ Stays(c)
      /\ calls'[c] # Idle => calls'[c].seen.row = s.row /\ calls'[c].seen.fees = s.fees
                             /\ calls'[c].seen.paid = s.paid
  BY <1>1 DEF ReplaceTracking, CreateTrackingTiktok, End, Stays, Inv, TypeOK, Call, Seen
<1>4. ASSUME "money" \notin harm'
      PROVE  Settled(Now)' /\ KeepsPrice
  BY <1>2, <1>4, MoneyStatus
<1>5. ASSUME "money" \notin harm', calls'[c] # Idle
      PROVE  Settled(SeenBy(c)') /\ StillBilled(SeenBy(c))'
  <2> DEFINE t == calls'[c].seen
  <2>1. t.row = s.row /\ t.fees = s.fees /\ t.paid = s.paid
    BY <1>3, <1>5
  <2>2. SeenBy(c)' = t
    BY DEF SeenBy
  <2> HIDE DEF t
  <2>3. Settled(s) /\ StillBilled(s)
    BY <1>1, <1>2, <1>5 DEF MoneyInv
  <2> QED BY <1>2, <2>1, <2>2, <2>3 DEF Settled, Unpaid, Total, Weighed, StillBilled
<1> QED BY <1>2, <1>3, <1>4, <1>5, MoneyStep

LEMMA MoneyFaults ==
  ASSUME Inv, MoneyInv, (\E c \in world.actors : Fail(c)) \/ Crash
  PROVE  MoneyInv'
<1>1. ASSUME NEW c \in world.actors, Fail(c)
      PROVE  MoneyInv'
  <2>1. /\ harm \subseteq harm' /\ UNCHANGED <<world, row, fees, paid>> /\ Stays(c)
        /\ calls'[c] = Idle
    BY <1>1, OneCall, EndIsSound DEF Fail, table, End
  <2> QED BY <2>1, MoneyStatus, MoneyStep
<1>2. CASE Crash
  <2>1. /\ harm \subseteq harm' /\ UNCHANGED <<world, row, fees, paid>>
        /\ Busy' = {}
    BY <1>2 DEF Crash, table, Busy
  <2> QED BY <2>1, MoneyStatus DEF MoneyInv
<1> QED BY <1>1, <1>2

LEMMA NextMoney == Inv /\ MoneyInv /\ [Next]_vars => MoneyInv'
<1> SUFFICES ASSUME Inv, MoneyInv, [Next]_vars PROVE MoneyInv'
  OBVIOUS
<1>1. CASE Next
  BY <1>1, Steps, ReadersOnlyRead, MarksOnlyRead, MoneyReads, MoneyExceedPrice, MoneyCreateBill,
     MoneyCancelPackages, MoneyScanFee, MoneyScanSave, MoneyWarehousInCheck,
     MoneyUpdateTracking, MoneyStatuses, MoneyWarehousChecked, MoneyStoreLabel, MoneyOcr,
     MoneyTrackings, MoneyFaults
<1>2. CASE UNCHANGED vars
  <2>1. UNCHANGED <<world, row, fees, tracked, paid, calls, harm>>
    BY <1>2 DEF vars, table
  <2> QED BY <2>1 DEF MoneyInv, Now, Busy, SeenBy, StillBilled, Settled, Unpaid, Total, Weighed
<1> QED BY <1>1, <1>2

\* What was taken for a package that is on its way is what its price and its fees say:
\* billing, both scales, the warehouse, the carrier's label and the readers of labels,
\* any number of them at once, keep bill and row together unless one of them wrote money
\* over something that had changed since it read it.
THEOREM PaidAsRecordedHolds == Spec => []PaidAsRecorded
<1>1. Init => MoneyInv
  <2> SUFFICES ASSUME Init PROVE MoneyInv
    OBVIOUS
  <2>1. Busy = {} /\ row.status = "Created" /\ paid = 0 /\ fees.fix = 0 /\ fees.volume = 0
        /\ fees.hold = 0
    BY DEF Init, Busy
  <2> QED BY <2>1 DEF MoneyInv, Settled, Unbilled, Unpaid, Now
<1>2. MoneyInv => PaidAsRecorded
  BY DEF MoneyInv, PaidAsRecorded, Alive, Settled, Unbilled, Now
<1> QED BY InvHolds, NextMoney, <1>1, <1>2, PTL DEF Spec

-----------------------------------------------------------------------------
(* Status. *)

\* The moves of the status a call makes when the package is still as it was read.
Moves ==
  \/ row'.status = row.status /\ row'.alert = row.alert
  \/ row.status = "Created" /\ row'.status = "PendingPickup" /\ row'.alert = row.alert
  \/ /\ row.status \in {"Created", "PendingPickup"}
     /\ row'.status = IF row.status = "Created" THEN "Archived" ELSE "Cancelled"
     /\ row'.alert => row.alert
  \/ /\ row.status \in {"PendingPickup", "Picked"} /\ ~row.alert
     /\ row'.status \in {"Picked", "Labeled"} /\ ~row'.alert
  \/ row.status = "Picked" /\ row'.status = "Labeled" /\ row'.alert = row.alert
  \/ row.status \in {"PendingPickup", "Picked"} /\ row'.status = "PendingPickup" /\ row'.alert

\* A call that writes the status, and is not noted, has read the one there is.
LEMMA WroteStatus ==
  ASSUME NEW c, NEW parts, "status" \in parts, Wrote(c, parts), "status" \notin harm'
  PROVE  row.status = SeenBy(c).row.status /\ row.alert = SeenBy(c).row.alert
BY DEF Wrote, Stale

LEMMA MovesWholeRow ==
  ASSUME Inv, NEW c \in world.actors, ScanSave(c) \/ StoreLabel(c), "status" \notin harm'
  PROVE  row'.status = row.status /\ row'.alert = row.alert
<1> DEFINE s == SeenBy(c)
<1>1. calls[c] # Idle /\ s.row \in Row
  BY Holds, TotalIsInt DEF ScanSave, StoreLabel, At
<1>2. CASE ScanSave(c)
  <2>1. /\ row'.status = s.row.status /\ row'.alert = row.alert
        /\ {"status", "money"} \cap Stale(c) \subseteq harm'
    BY <1>2, ScanSaves
  <2> QED BY <2>1 DEF Stale
<1>3. CASE StoreLabel(c) /\ s.row.label = "url"
  <2>1. [s.row EXCEPT !.label = "stored"] \in Row /\ [s.row EXCEPT !.label = "stored"].status = s.row.status
    BY <1>1 DEF Row
  <2>2. row'.status = s.row.status /\ row'.alert = row.alert
    BY <1>1, <1>3, <2>1, UpdatePackageTypes, Unpacked DEF StoreLabel
  <2> QED BY <1>3, <2>2, WroteStatus DEF StoreLabel
<1>4. CASE StoreLabel(c) /\ s.row.label # "url"
  BY <1>4 DEF StoreLabel
<1> QED BY <1>2, <1>3, <1>4

\* What a handler does to the status it has read.
LEMMA MovesOn ==
  ASSUME Inv, NEW c \in world.actors, "status" \notin harm',
         \/ CreateBill(c) \/ CancelPackages(c) \/ WarehousInCheck(c) \/ UpdateTracking(c)
         \/ Finish(c) \/ WarehousChecked(c) \/ ReturnPackage(c)
  PROVE  /\ row.status = SeenBy(c).row.status /\ row.status \notin Ended
         /\ Moves
         /\ At(c, "bill") => row.status = "Created" /\ row'.status = "PendingPickup"
         /\ At(c, "cancel") => row'.status \in Ended
         /\ At(c, "checkin") => row'.status = "Picked"
         /\ At(c, "update") \/ At(c, "finish") \/ At(c, "checked") =>
              row.status = "Picked" /\ row'.status = "Labeled"
         /\ At(c, "return") => row'.status = "PendingPickup"
<1> DEFINE s == SeenBy(c)
<1>1. /\ calls[c] # Idle /\ s.row \in Row /\ row \in Row /\ Held(calls[c]) /\ s = calls[c].seen
  BY Holds, TotalIsInt, Unpacked
     DEF CreateBill, CancelPackages, WarehousInCheck, UpdateTracking, Finish, WarehousChecked,
         ReturnPackage, At
<1>2. row.status = s.row.status /\ row.alert = s.row.alert
  BY WroteStatus
     DEF CreateBill, CancelPackages, WarehousInCheck, UpdateTracking, Finish, WarehousChecked,
         ReturnPackage
<1>3. CASE CreateBill(c)
  BY <1>1, <1>2, <1>3 DEF CreateBill, At, Held, Moves, Row, Ended
<1>4. CASE CancelPackages(c)
  BY <1>1, <1>2, <1>4 DEF CancelPackages, At, Held, Moves, Row, Ended
<1>5. CASE WarehousInCheck(c)
  BY <1>1, <1>2, <1>5 DEF WarehousInCheck, At, Held, Moves, Row, Ended
<1>6. CASE UpdateTracking(c) \/ Finish(c)
  BY <1>1, <1>2, <1>6 DEF UpdateTracking, Finish, At, Held, Moves, Row, Ended
<1>7. CASE WarehousChecked(c)
  <2>1. s.row.status = "Picked" /\ row'.status = "Labeled" /\ row'.alert = row.alert
    BY <1>7, Accepts
  <2> QED BY <1>1, <1>2, <1>7, <2>1 DEF Moves, Ended, WarehousChecked, At
<1>8. CASE ReturnPackage(c)
  BY <1>1, <1>2, <1>8 DEF ReturnPackage, At, Held, Moves, Row, Ended
<1> QED BY <1>3, <1>4, <1>5, <1>6, <1>7, <1>8

\* The status of the other steps stays.
LEMMA StatusStays ==
  ASSUME Inv, NEW c \in world.actors,
         \/ OnlyReads(c) \/ ExceedPrice(c) \/ ScanFee(c) \/ Ocr(c) \/ ReplaceTracking(c)
         \/ CreateTrackingTiktok(c) \/ Fail(c) \/ Crash
  PROVE  row'.status = row.status /\ row'.alert = row.alert /\ row'.fee = row.fee
BY Unpacked
   DEF OnlyReads, ExceedPrice, ScanFee, Ocr, ReplaceTracking, CreateTrackingTiktok, Fail, Crash, table, Row

LEMMA HarmGrows ==
  ASSUME Inv, Next
  PROVE  harm \subseteq harm' /\ world' = world
<1>1. ASSUME NEW c \in world.actors, OnlyReads(c)
      PROVE  harm \subseteq harm' /\ world' = world
  BY <1>1 DEF OnlyReads
<1>2. ASSUME NEW c \in world.actors,
             \/ CreateBill(c) \/ CancelPackages(c) \/ ScanFee(c) \/ ScanSave(c)
             \/ ExceedPrice(c) \/ WarehousInCheck(c) \/ UpdateTracking(c) \/ Finish(c)
             \/ WarehousChecked(c) \/ ReturnPackage(c)
      PROVE  harm \subseteq harm' /\ world' = world
  BY <1>2 DEF CreateBill, CancelPackages, ScanFee, ScanSave, ExceedPrice, WarehousInCheck, UpdateTracking,
              Finish, WarehousChecked, ReturnPackage, Wrote
<1>3. ASSUME NEW c \in world.actors,
             StoreLabel(c) \/ Ocr(c) \/ ReplaceTracking(c) \/ CreateTrackingTiktok(c)
      PROVE  harm \subseteq harm' /\ world' = world
  BY <1>3 DEF StoreLabel, Ocr, ReplaceTracking, CreateTrackingTiktok, Wrote
<1>4. CASE (\E c \in world.actors : Fail(c)) \/ Crash
  BY <1>4 DEF Fail, Crash
<1> QED BY <1>1, <1>2, <1>3, <1>4, Steps, ReadersOnlyRead, MarksOnlyRead

LEMMA NextMoves ==
  ASSUME Inv, Next, "status" \notin harm'
  PROVE  Moves
<1>1. ASSUME NEW c \in world.actors,
             \/ OnlyReads(c) \/ ExceedPrice(c) \/ ScanFee(c) \/ Ocr(c) \/ ReplaceTracking(c)
             \/ CreateTrackingTiktok(c) \/ Fail(c) \/ Crash
      PROVE  Moves
  BY <1>1, StatusStays DEF Moves
<1>2. ASSUME NEW c \in world.actors, ScanSave(c) \/ StoreLabel(c)
      PROVE  Moves
  BY <1>2, MovesWholeRow DEF Moves
<1>3. CASE Crash
  BY <1>1, <1>3 DEF Crash
<1> QED BY <1>1, <1>2, <1>3, Steps, ReadersOnlyRead, MarksOnlyRead, MovesOn

\* From a package with the alert nothing moves on, and nothing takes the alert off but
\* the cancellation.
LEMMA AlertMoves ==
  ASSUME Moves, row.alert => row.status \in {"PendingPickup", "Cancelled"}
  PROVE  /\ row'.alert => row'.status \in {"PendingPickup", "Cancelled"}
         /\ row.alert => (row'.status = "PendingPickup" /\ row'.alert) \/ row'.status = "Cancelled"
BY DEF Moves

LEMMA NextAlert == Inv /\ AlertInv /\ [Next]_vars => AlertInv'
<1>1. ASSUME Inv, AlertInv, Next
      PROVE  AlertInv'
  BY <1>1, HarmGrows, NextMoves, AlertMoves DEF AlertInv
<1>2. ASSUME AlertInv, UNCHANGED vars
      PROVE  AlertInv'
  BY <1>2 DEF AlertInv, vars, table
<1> QED BY <1>1, <1>2

\* A package that was returned waits for its customer: in every step that some call
\* makes, unless the call had read another status than there was, the package stays with
\* its alert, or is cancelled.
THEOREM ReturnedWaitsHolds == Spec => ReturnedWaits
<1>1. Init => AlertInv
  BY DEF Init, AlertInv
<1>2. Inv /\ AlertInv /\ [Next]_vars =>
        [(row.alert /\ "status" \notin harm') =>
           (row'.status = "PendingPickup" /\ row'.alert) \/ row'.status = "Cancelled"]_vars
  <2>1. ASSUME Inv, AlertInv, Next, row.alert, "status" \notin harm'
        PROVE  (row'.status = "PendingPickup" /\ row'.alert) \/ row'.status = "Cancelled"
    BY <2>1, HarmGrows, NextMoves, AlertMoves DEF AlertInv
  <2> QED BY <2>1
<1> QED BY InvHolds, NextAlert, <1>1, <1>2, PTL DEF Spec, ReturnedWaits

-----------------------------------------------------------------------------
(* Trackings. *)

LEMMA TrackStep ==
  ASSUME Inv, TrackInv, NEW c \in world.actors, world' = world, Stays(c), harm \subseteq harm',
         harm' \cap {"status", "tracking"} = {} =>
           /\ Fits(Now)' /\ (row.status \in Ended => row'.status \in Ended)
           /\ HasTracking /\ row'.status \notin Ended => HasTracking'
           /\ row'.status = "Labeled" /\ world.kind # "AU" => HasTracking'
           /\ calls'[c] # Idle =>
                /\ Fits(SeenBy(c)')
                /\ SeenBy(c)'.tracked > 0 /\ row'.status \notin Ended => HasTracking'
                /\ calls'[c].pc = "create" => SeenBy(c)'.tracked = 0
  PROVE  TrackInv'
<1> SUFFICES ASSUME harm' \cap {"status", "tracking"} = {}, NEW d \in Busy'
             PROVE  /\ Fits(SeenBy(d)')
                    /\ SeenBy(d)'.tracked > 0 /\ row'.status \notin Ended => HasTracking'
                    /\ calls'[d].pc = "create" => SeenBy(d)'.tracked = 0
  BY DEF TrackInv, Fits, Tiktok
<1>1. d \in world.actors /\ calls'[d] # Idle
  BY DEF Busy
<1>2. CASE d # c
  <2>1. calls'[d] = calls[d] /\ SeenBy(d)' = SeenBy(d) /\ d \in Busy
    BY <1>1, <1>2 DEF Stays, SeenBy, Busy
  <2> QED BY <2>1 DEF TrackInv
<1>3. CASE d = c
  BY <1>1, <1>3
<1> QED BY <1>2, <1>3

\* A tracking stays as long as its number does and no reader ends.
LEMMA HasStays ==
  ASSUME Inv, NEW c \in world.actors, world' = world, Stays(c), tracked' = tracked,
         calls[c] # Idle => calls[c].pc # "create"
  PROVE  HasTracking => HasTracking'
BY DEF HasTracking, Busy, Stays

LEMMA TrackReads ==
  ASSUME Inv, TrackInv, NEW c \in world.actors, OnlyReads(c)
  PROVE  TrackInv'
<1>1. /\ UNCHANGED <<world, row, tracked, fees, paid>> /\ Stays(c) /\ harm' = harm /\ (HasTracking => HasTracking')
  BY HasStays DEF OnlyReads, table
<1>2. ASSUME harm \cap {"status", "tracking"} = {}, calls'[c] # Idle
      PROVE  /\ Fits(SeenBy(c)')
             /\ SeenBy(c)'.tracked > 0 /\ row'.status \notin Ended => HasTracking'
             /\ calls'[c].pc # "create"
  <2>1. CASE calls'[c].seen = Now
    BY <1>1, <1>2, <2>1, Fields, Unpacked DEF TrackInv, Fits, HasTracking, OnlyReads, SeenBy
  <2>2. CASE calls[c] # Idle /\ calls'[c].seen = SeenBy(c)
    BY <1>1, <1>2, <2>2 DEF TrackInv, OnlyReads, SeenBy, Busy
  <2> QED BY <1>2, <2>1, <2>2 DEF OnlyReads
<1>3. Now' = Now
  BY <1>1 DEF Now
<1> QED BY <1>1, <1>2, <1>3, TrackStep DEF TrackInv, Fits, Tiktok

LEMMA NowFits ==
  ASSUME tracked' \in Nat, tracked' <= 1, row'.status \in Ended => tracked' = 0,
         (row'.status = "Created" /\ ~Tiktok => tracked' = 0), world' = world
  PROVE  Fits(Now)'
BY DEF Fits, Now, Tiktok

LEMMA FitsNow ==
  ASSUME Inv, TrackInv, harm \cap {"status", "tracking"} = {}
  PROVE  /\ tracked \in Nat /\ tracked <= 1
         /\ row.status \in Ended => tracked = 0
         /\ row.status = "Created" /\ ~Tiktok => tracked = 0
         /\ row.status = "Labeled" /\ world.kind # "AU" => HasTracking
BY Unpacked, Fields DEF TrackInv, Fits

LEMMA TrackCreateBill ==
  ASSUME Inv, TrackInv, NEW c \in world.actors, CreateBill(c)
  PROVE  TrackInv'
<1>1. harm \subseteq harm' /\ world' = world /\ Stays(c) /\ calls'[c] = Idle
  BY OneCall, EndIsSound DEF CreateBill, Wrote, End
<1>2. calls[c] # Idle /\ calls[c].pc = "bill"
  BY DEF CreateBill, At
<1>3. ASSUME harm' \cap {"status", "tracking"} = {}
      PROVE  /\ Fits(Now)' /\ row.status \notin Ended
             /\ HasTracking => HasTracking'
             /\ row'.status # "Labeled"
  <2>1. row.status = "Created" /\ row'.status = "PendingPickup"
    BY <1>2, <1>3, MovesOn DEF At
  <2>2. tracked <= 1 /\ tracked \in Nat /\ (~Tiktok => tracked = 0)
    BY <1>1, <1>3, <2>1, FitsNow
  <2>3. CASE Tiktok
    <3>1. tracked' = tracked
      BY <2>3 DEF CreateBill
    <3> QED BY <1>1, <1>2, <2>1, <2>2, <2>3, <3>1, NowFits, HasStays DEF Ended
  <2>4. CASE ~Tiktok
    <3>1. tracked' = 1
      BY <2>2, <2>4 DEF CreateBill
    <3> QED BY <1>1, <2>1, <3>1, NowFits DEF HasTracking, Ended
  <2> QED BY <2>3, <2>4
<1> QED BY <1>1, <1>3, TrackStep

LEMMA TrackCancelPackages ==
  ASSUME Inv, TrackInv, NEW c \in world.actors, CancelPackages(c)
  PROVE  TrackInv'
<1>1. /\ harm \subseteq harm' /\ world' = world /\ Stays(c) /\ calls'[c] = Idle /\ tracked' = 0
      /\ At(c, "cancel")
  BY OneCall, EndIsSound DEF CancelPackages, Wrote, End
<1>2. ASSUME harm' \cap {"status", "tracking"} = {}
      PROVE  Fits(Now)' /\ row'.status \in Ended
  BY <1>1, <1>2, MovesOn, NowFits
<1> QED BY <1>1, <1>2, TrackStep DEF Ended

\* A call that writes the row and leaves the trackings.
LEMMA TrackRow ==
  ASSUME Inv, TrackInv, NEW c \in world.actors,
         \/ ExceedPrice(c) \/ ScanFee(c) \/ ScanSave(c) \/ Ocr(c) \/ StoreLabel(c)
         \/ WarehousInCheck(c) \/ Finish(c) \/ ReturnPackage(c)
  PROVE  TrackInv'
<1>1. /\ harm \subseteq harm' /\ world' = world /\ tracked' = tracked
      /\ calls[c] # Idle /\ calls[c].pc # "create" /\ calls[c] \in Call /\ Held(calls[c])
      /\ SeenBy(c) \in Seen /\ SeenBy(c) = calls[c].seen
  <2>1. CASE ExceedPrice(c)
    BY <2>1, Rereads, Holds DEF Busy
  <2>2. CASE ~ExceedPrice(c)
    BY <2>2, Holds
       DEF ScanFee, ScanSave, Ocr, StoreLabel, WarehousInCheck, Finish, ReturnPackage, At, Wrote
  <2> QED BY <2>1, <2>2
<1>2. /\ Stays(c)
      /\ calls'[c] # Idle =>
           /\ calls'[c].pc # "create" /\ calls'[c].seen.tracked = SeenBy(c).tracked
           /\ calls'[c].seen.row.status \in {SeenBy(c).row.status, "Picked"}
  <2>1. CASE ScanFee(c)
    <3>1. fees' \in Fees /\ paid' \in Int
      BY <2>1, ScanFeeKeeps DEF Inv, TypeOK
    <3> QED BY <1>1, <2>1, <3>1 DEF ScanFee, Stays, Inv, TypeOK, Call, Seen
  <2>2. CASE WarehousInCheck(c)
    BY <1>1, <2>2 DEF WarehousInCheck, Stays, Inv, TypeOK, Call, Seen, Row
  <2>3. CASE Ocr(c)
    BY <1>1, <2>3 DEF Ocr, End, Goto, Stays, Inv, TypeOK, Call
  <2>4. CASE ScanSave(c) \/ StoreLabel(c) \/ Finish(c) \/ ReturnPackage(c)
    BY <2>4, OneCall, EndIsSound DEF ScanSave, StoreLabel, Finish, ReturnPackage, End
  <2>5. CASE ExceedPrice(c)
    <3>1. PICK x : /\ calls' = [calls EXCEPT ![c] = x]
                   /\ x.pc = IF calls[c].pc = "price" THEN "update" ELSE "checked"
                   /\ x.seen.tracked = SeenBy(c).tracked
                   /\ x.seen.row.status = SeenBy(c).row.status
      BY <2>5, Rereads
    <3>2. Stays(c) /\ calls'[c] = x
      BY <3>1 DEF Stays, Inv, TypeOK
    <3> QED BY <3>1, <3>2
  <2> QED BY <1>1, <2>1, <2>2, <2>3, <2>4, <2>5
<1>3. ASSUME harm' \cap {"status", "tracking"} = {}
      PROVE  /\ (row.status \in Ended) <=> (row'.status \in Ended)
             /\ row'.status = "Created" => row.status = "Created"
             /\ row'.status = "Labeled" => row.status = "Labeled" \/ Finish(c)
  <2>1. CASE ExceedPrice(c) \/ ScanFee(c) \/ Ocr(c)
    BY <2>1, StatusStays
  <2>2. CASE ScanSave(c) \/ StoreLabel(c)
    BY <1>3, <2>2, MovesWholeRow
  <2>3. CASE WarehousInCheck(c) \/ ReturnPackage(c)
    BY <1>3, <2>3, MovesOn DEF WarehousInCheck, ReturnPackage, Ended
  <2>4. CASE Finish(c)
    BY <1>3, <2>4, MovesOn DEF Finish, Ended
  <2> QED BY <2>1, <2>2, <2>3, <2>4
<1>4. HasTracking => HasTracking'
  BY <1>1, <1>2, HasStays
<1>5. ASSUME harm' \cap {"status", "tracking"} = {}
      PROVE  /\ Fits(Now)'
             /\ row'.status = "Labeled" /\ world.kind # "AU" => HasTracking'
  <2>1. harm \cap {"status", "tracking"} = {} /\ tracked' \in Nat
    BY <1>1, <1>5, Unpacked
  <2>2. Fits(Now)'
    BY <1>1, <1>3, <1>5, <2>1, FitsNow, NowFits
  <2>3. ASSUME Finish(c), world.kind # "AU"
        PROVE  HasTracking
    <3>1. At(c, "finish") /\ SeenBy(c).tracked > 0
      BY <1>1, <2>3 DEF Finish, At, Held
    <3> QED BY <1>1, <1>5, <2>1, <3>1, MovesOn, <2>3 DEF TrackInv, Busy
  <2> QED BY <1>3, <1>4, <1>5, <2>1, <2>2, <2>3, FitsNow
<1>6. ASSUME harm' \cap {"status", "tracking"} = {}, calls'[c] # Idle
      PROVE  /\ Fits(SeenBy(c)')
             /\ SeenBy(c)'.tracked > 0 /\ row'.status \notin Ended => HasTracking'
             /\ calls'[c].pc # "create"
  <2> DEFINE t == calls'[c].seen
  <2>1. /\ t.tracked = SeenBy(c).tracked /\ t.row.status \in {SeenBy(c).row.status, "Picked"}
        /\ SeenBy(c)' = t /\ calls'[c].pc # "create"
    BY <1>2, <1>6 DEF SeenBy
  <2> HIDE DEF t
  <2>2. /\ Fits(SeenBy(c))
        /\ SeenBy(c).tracked > 0 /\ row.status \notin Ended => HasTracking
    BY <1>1, <1>6 DEF TrackInv, Busy
  <2>3. Fits(t)
    BY <2>1, <2>2 DEF Fits, Ended
  <2> QED BY <1>3, <1>4, <1>6, <2>1, <2>2, <2>3
<1> QED BY <1>1, <1>2, <1>3, <1>4, <1>5, <1>6, TrackStep

LEMMA TrackUpdateTracking ==
  ASSUME Inv, TrackInv, NEW c \in world.actors, UpdateTracking(c)
  PROVE  TrackInv'
<1>1. /\ harm \subseteq harm' /\ world' = world /\ Stays(c) /\ calls'[c] = Idle
      /\ tracked' = IF calls[c].new THEN 1 ELSE tracked
      /\ At(c, "update") /\ c \in Busy /\ calls[c].pc = "update" /\ SeenBy(c).tracked > 0
  BY OneCall, EndIsSound, Holds DEF UpdateTracking, Wrote, End, At, Busy, Held
<1>2. ASSUME harm' \cap {"status", "tracking"} = {}
      PROVE  /\ Fits(Now)' /\ row.status \notin Ended /\ HasTracking'
  <2>1. row.status = "Picked" /\ row'.status = "Labeled"
    BY <1>1, <1>2, MovesOn
  <2>2. tracked <= 1 /\ tracked \in Nat /\ HasTracking
    BY <1>1, <1>2, <2>1, FitsNow DEF TrackInv, Ended
  <2>3. HasTracking'
    BY <1>1, <2>2, HasStays DEF HasTracking
  <2> QED BY <1>1, <2>1, <2>2, <2>3, NowFits DEF Ended
<1> QED BY <1>1, <1>2, TrackStep

LEMMA TrackWarehousChecked ==
  ASSUME Inv, TrackInv, NEW c \in world.actors, WarehousChecked(c)
  PROVE  TrackInv'
<1>1. /\ harm \subseteq harm' /\ world' = world /\ Stays(c) /\ calls'[c] = Idle
      /\ tracked' = tracked + 1
      /\ At(c, "checked") /\ SeenBy(c).tracked = 0
  BY OneCall, EndIsSound, Holds DEF WarehousChecked, Wrote, End, At, Held
<1>2. ASSUME harm' \cap {"status", "tracking"} = {}
      PROVE  /\ Fits(Now)' /\ row.status \notin Ended /\ HasTracking'
  <2>1. row.status = "Picked" /\ row'.status = "Labeled"
    BY <1>1, <1>2, MovesOn
  <2>2. tracked = 0
    BY <1>1, <1>2 DEF WarehousChecked, Wrote, Stale
  <2> QED BY <1>1, <2>1, <2>2, NowFits DEF Ended, HasTracking
<1> QED BY <1>1, <1>2, TrackStep

LEMMA TrackReplaceTracking ==
  ASSUME Inv, TrackInv, NEW c \in world.actors, ReplaceTracking(c)
  PROVE  TrackInv'
<1>1. /\ harm' = harm /\ world' = world /\ row' = row
      /\ calls[c] # Idle /\ calls[c] \in Call
      /\ SeenBy(c) = calls[c].seen /\ SeenBy(c) \in Seen
      /\ tracked' = IF tracked > 0 THEN tracked - 1 ELSE 0
  BY Holds DEF ReplaceTracking, At
<1>2. tracked' \in Nat
  BY ReplaceTrackingKeeps DEF Inv, TypeOK
<1>3. /\ Stays(c) /\ calls'[c] # Idle /\ calls'[c].pc = "create"
      /\ calls'[c].seen.tracked = tracked' /\ calls'[c].seen.row = SeenBy(c).row
  <2> DEFINE seen == [SeenBy(c) EXCEPT !.tracked = tracked']
             x == [calls[c] EXCEPT !.pc = "create", !.seen = seen]
  <2>1. seen \in Seen /\ seen.tracked = tracked' /\ seen.row = SeenBy(c).row
    BY <1>1, <1>2 DEF Seen
  <2>2. calls' = [calls EXCEPT ![c] = x]
    BY <1>1 DEF ReplaceTracking, Inv, TypeOK, Call, Seen
  <2> HIDE DEF seen
  <2>3. x \in Call /\ x.pc = "create" /\ x.seen = seen
    BY <1>1, <2>1 DEF Call
  <2> HIDE DEF x
  <2>4. Stays(c) /\ calls'[c] = x
    BY <2>2 DEF Stays, Inv, TypeOK
  <2> QED BY <2>1, <2>3, <2>4, IdleIsNoCall
<1>4. HasTracking'
  BY <1>1, <1>3 DEF HasTracking, Busy
<1>5. ASSUME harm \cap {"status", "tracking"} = {}
      PROVE  Fits(Now)' /\ tracked' = 0
  <2>1. tracked' = 0
    BY <1>1, <1>5, FitsNow
  <2> QED BY <1>1, <2>1, NowFits
<1>6. ASSUME harm \cap {"status", "tracking"} = {}
      PROVE  Fits(SeenBy(c)') /\ SeenBy(c)'.tracked = 0
  <2> DEFINE t == calls'[c].seen
  <2>1. t.tracked = 0 /\ SeenBy(c)' = t
    BY <1>3, <1>5, <1>6 DEF SeenBy
  <2> HIDE DEF t
  <2> QED BY <2>1 DEF Fits
<1> QED BY <1>1, <1>3, <1>4, <1>5, <1>6, TrackStep

LEMMA TrackCreateTracking ==
  ASSUME Inv, TrackInv, NEW c \in world.actors, CreateTrackingTiktok(c)
  PROVE  TrackInv'
<1>1. /\ harm \subseteq harm' /\ world' = world /\ Stays(c) /\ calls'[c] = Idle /\ row' = row
      /\ tracked' = tracked + 1 /\ c \in Busy /\ calls[c].pc = "create" /\ Tiktok
  BY OneCall, EndIsSound, Holds DEF CreateTrackingTiktok, End, At, Busy, Held
<1>2. ASSUME harm' \cap {"status", "tracking"} = {}
      PROVE  /\ Fits(Now)' /\ row.status \notin Ended /\ HasTracking'
  <2>1. SeenBy(c).tracked = 0
    BY <1>1, <1>2 DEF TrackInv
  <2>2. tracked = 0 /\ row.status \notin Ended
    BY <1>2, <2>1 DEF CreateTrackingTiktok, Stale
  <2> QED BY <1>1, <2>2, NowFits DEF HasTracking
<1> QED BY <1>1, <1>2, TrackStep

LEMMA TrackFaults ==
  ASSUME Inv, TrackInv, (\E c \in world.actors : Fail(c)) \/ Crash
  PROVE  TrackInv'
<1>1. ASSUME NEW c \in world.actors, Fail(c)
      PROVE  TrackInv'
  <2>1. /\ harm \subseteq harm' /\ UNCHANGED <<world, row, fees, tracked, paid>> /\ Stays(c)
        /\ calls'[c] = Idle
    BY <1>1, OneCall, EndIsSound DEF Fail, table, End
  <2>2. ASSUME harm' \cap {"status", "tracking"} = {}
        PROVE  HasTracking => HasTracking'
    BY <1>1, <2>1, <2>2, HasStays DEF Fail, At
  <2>3. Now' = Now
    BY <2>1 DEF Now
  <2> QED BY <2>1, <2>2, <2>3, TrackStep DEF TrackInv, Fits, Tiktok
<1>2. CASE Crash
  <2>1. /\ harm \subseteq harm' /\ UNCHANGED <<world, row, fees, tracked, paid>> /\ Busy' = {}
    BY <1>2 DEF Crash, table, Busy
  <2>2. ASSUME harm' \cap {"status", "tracking"} = {}
        PROVE  HasTracking => HasTracking'
    <3>1. \A c \in world.actors : ~At(c, "create")
      BY <1>2, <2>2 DEF Crash
    <3> QED BY <2>1, <3>1 DEF HasTracking, Busy, At
  <2>3. Now' = Now
    BY <2>1 DEF Now
  <2> QED BY <2>1, <2>2, <2>3 DEF TrackInv, Fits, Tiktok
<1> QED BY <1>1, <1>2

LEMMA NextTrack == Inv /\ TrackInv /\ [Next]_vars => TrackInv'
<1> SUFFICES ASSUME Inv, TrackInv, [Next]_vars PROVE TrackInv'
  OBVIOUS
<1>1. CASE Next
  BY <1>1, Steps, ReadersOnlyRead, MarksOnlyRead, TrackReads, TrackCreateBill,
     TrackCancelPackages, TrackRow, TrackUpdateTracking, TrackWarehousChecked,
     TrackReplaceTracking, TrackCreateTracking, TrackFaults
<1>2. CASE UNCHANGED vars
  <2>1. UNCHANGED <<world, row, fees, tracked, paid, calls, harm>>
    BY <1>2 DEF vars, table
  <2> QED BY <2>1 DEF TrackInv, Now, Busy, SeenBy, Fits, Tiktok, HasTracking
<1> QED BY <1>1, <1>2

\* A package never has two trackings, none once it is cancelled, and one when its label is
\* done, however check-in, label, OCR and cancellation come between each other's reads and
\* writes: unless a call wrote status or tracking of a package that had changed, or a
\* reader of labels put a tracking to one that had ended or stopped before it did.
THEOREM TrackingFitsHolds == Spec => []TrackingFits
<1>1. Init => TrackInv
  <2> SUFFICES ASSUME Init PROVE TrackInv
    OBVIOUS
  <2>1. Busy = {} /\ row.status = "Created" /\ tracked = 0
    BY DEF Init, Busy
  <2> QED BY <2>1 DEF TrackInv, Fits, Now
<1>2. Inv /\ TrackInv => TrackingFits
  BY Unpacked DEF TrackInv, TrackingFits, Fits, Now, HasTracking, Busy, At
<1> QED BY InvHolds, NextTrack, <1>1, <1>2, PTL DEF Spec

-----------------------------------------------------------------------------
(* Weight. *)

\* What the price and the fees say of the weight after a step.
WeighedThen == row'.fee + fees'.fix + fees'.volume
Weighs ==
  /\ WeighedThen <= heaviest'
  /\ ~Tiktok /\ "price" \notin harm' => WeighedThen = heaviest'
  /\ ~Tiktok => fees'.fix >= 0 /\ fees.fix <= fees'.fix /\ fees.volume <= fees'.volume

LEMMA NowWeighed ==
  /\ Weighed(Now)' = WeighedThen
  /\ Weighed(Now) = row.fee + fees.fix + fees.volume
BY DEF Weighed, Now, WeighedThen

LEMMA WeightStep ==
  ASSUME Inv, Inv', WeightInv, NEW c \in world.actors, world' = world, Stays(c),
         harm \subseteq harm',
         harm' \cap {"money", "volume"} = {} =>
           /\ Weighs
           /\ ~Tiktok /\ calls'[c] # Idle =>
                /\ SeenBy(c)'.fees.fix >= 0
                /\ SeenBy(c)'.row.status \notin Unbilled =>
                     SeenBy(c)'.fees.fix <= fees'.fix /\ SeenBy(c)'.fees.volume <= fees'.volume
  PROVE  WeightInv'
<1> SUFFICES ASSUME harm' \cap {"money", "volume"} = {}, ~Tiktok, NEW d \in Busy'
             PROVE  /\ SeenBy(d)'.fees.fix >= 0
                    /\ SeenBy(d)'.row.status \notin Unbilled =>
                         SeenBy(d)'.fees.fix <= fees'.fix /\ SeenBy(d)'.fees.volume <= fees'.volume
  BY NowWeighed DEF WeightInv, Weighs, Tiktok
<1>1. d \in world.actors /\ calls'[d] # Idle
  BY DEF Busy
<1>2. CASE d # c
  <2>1. SeenBy(d)' = SeenBy(d) /\ d \in Busy /\ SeenBy(d) \in Seen
    BY <1>1, <1>2, Holds DEF Stays, SeenBy, Busy
  <2>2. /\ SeenBy(d).fees.fix \in Int /\ SeenBy(d).fees.volume \in Int
        /\ fees.fix \in Int /\ fees.volume \in Int
    BY <2>1, SeenAmounts, Fields
  <2>3. fees'.fix \in Int /\ fees'.volume \in Int
    BY DEF Inv, TypeOK, Fees
  <2>4. fees.fix <= fees'.fix /\ fees.volume <= fees'.volume
    BY DEF Weighs
  <2>5. /\ SeenBy(d).fees.fix >= 0
        /\ SeenBy(d).row.status \notin Unbilled =>
             SeenBy(d).fees.fix <= fees.fix /\ SeenBy(d).fees.volume <= fees.volume
    BY <2>1 DEF WeightInv
  <2> QED BY <2>1, <2>2, <2>3, <2>4, <2>5
<1>3. CASE d = c
  BY <1>1, <1>3
<1> QED BY <1>2, <1>3

\* Price and fees of weight and volume stay, and what is there was asked for.
LEMMA WeightStays ==
  ASSUME Inv, WeightInv, harm \cap {"money", "volume"} = {},
         row'.fee = row.fee, fees'.fix = fees.fix, fees'.volume = fees.volume,
         heaviest' = heaviest, harm \subseteq harm'
  PROVE  Weighs
<1>1. fees.fix \in Int /\ fees.volume \in Int
  BY Fields, SeenAmounts
<1> QED BY <1>1, NowWeighed DEF WeightInv, Weighs, WeighedThen

\* What a call read stays below what there is.
LEMMA SeenStays ==
  ASSUME Inv, WeightInv, harm \cap {"money", "volume"} = {}, ~Tiktok, NEW c \in Busy,
         fees'.fix = fees.fix, fees'.volume = fees.volume,
         NEW t, t.fees = SeenBy(c).fees,
         t.row.status \notin Unbilled => SeenBy(c).row.status \notin Unbilled
  PROVE  /\ t.fees.fix >= 0
         /\ t.row.status \notin Unbilled => t.fees.fix <= fees'.fix /\ t.fees.volume <= fees'.volume
BY DEF WeightInv

LEMMA WeightReads ==
  ASSUME Inv, Inv', WeightInv, NEW c \in world.actors, OnlyReads(c)
  PROVE  WeightInv'
<1>1. /\ UNCHANGED <<world, row, tracked, fees, paid, heaviest, harm>> /\ Stays(c)
  BY DEF OnlyReads, table
<1>2. ASSUME harm \cap {"money", "volume"} = {}, ~Tiktok, calls'[c] # Idle
      PROVE  /\ SeenBy(c)'.fees.fix >= 0
             /\ SeenBy(c)'.row.status \notin Unbilled =>
                  SeenBy(c)'.fees.fix <= fees'.fix /\ SeenBy(c)'.fees.volume <= fees'.volume
  <2>1. SeenBy(c)' = Now \/ (c \in Busy /\ SeenBy(c)' = SeenBy(c))
    BY <1>2 DEF OnlyReads, SeenBy, Busy
  <2>2. fees.fix \in Int /\ fees.volume \in Int /\ Now.fees = fees
    BY Fields, SeenAmounts
  <2>3. fees.fix >= 0
    BY <1>2 DEF WeightInv
  <2> QED BY <1>1, <1>2, <2>1, <2>2, <2>3 DEF WeightInv
<1> QED BY <1>1, <1>2, WeightStep, WeightStays

\* A call writes the whole row as it was read, and what it read is there.
LEMMA SameFee ==
  ASSUME Inv, NEW c \in world.actors, "money" \notin harm',
         \/ CancelPackages(c) \/ StoreLabel(c)
         \/ ScanSave(c) /\ SeenBy(c).row.status # "Created"
  PROVE  row'.fee = row.fee /\ UNCHANGED <<fees, heaviest>>
<1> DEFINE s == SeenBy(c)
           w == calls[c].weight
<1>1. calls[c] # Idle /\ s.row \in Row
  BY Holds, TotalIsInt DEF ScanSave, StoreLabel, CancelPackages, At
<1>2. CASE CancelPackages(c)
  <2>1. row'.fee = s.row.fee
    BY <1>1, <1>2 DEF CancelPackages, Row
  <2> QED BY <1>2, <2>1, WroteMoney DEF CancelPackages, Current
<1>3. CASE ScanSave(c) /\ s.row.status # "Created"
  <2>1. /\ row'.fee = s.row.fee /\ UNCHANGED <<fees, heaviest>>
        /\ {"status", "money"} \cap Stale(c) \subseteq harm'
    BY <1>3, ScanSaves
  <2> QED BY <2>1 DEF Stale
<1>4. CASE StoreLabel(c) /\ s.row.label = "url"
  <2>1. [s.row EXCEPT !.label = "stored"] \in Row /\ [s.row EXCEPT !.label = "stored"].fee = s.row.fee
    BY <1>1 DEF Row
  <2>2. row'.fee = s.row.fee /\ UNCHANGED <<fees, heaviest>>
    BY <1>1, <1>4, <2>1, UpdatePackageTypes, Unpacked DEF StoreLabel
  <2> QED BY <1>4, <2>2, WroteMoney DEF StoreLabel, Current
<1>5. CASE StoreLabel(c) /\ s.row.label # "url"
  BY <1>5 DEF StoreLabel
<1> QED BY <1>2, <1>3, <1>4, <1>5

\* The steps that leave price and fees of the weight alone.
LEMMA WeightRest ==
  ASSUME Inv, Inv', WeightInv, NEW c \in world.actors,
         \/ CreateBill(c) \/ CancelPackages(c) \/ Finish(c)
         \/ ReturnPackage(c) \/ StoreLabel(c) \/ Ocr(c) \/ ReplaceTracking(c)
         \/ CreateTrackingTiktok(c) \/ Fail(c)
  PROVE  WeightInv'
<1> DEFINE s == SeenBy(c)
<1>1. /\ harm \subseteq harm' /\ world' = world
      /\ calls[c] # Idle /\ calls[c] \in Call /\ s = calls[c].seen /\ s \in Seen
      /\ c \in Busy
  BY Holds DEF CreateBill, CancelPackages, Finish, ReturnPackage, StoreLabel, Ocr,
               ReplaceTracking, CreateTrackingTiktok, Fail, Wrote, At, Busy
<1>2. /\ Stays(c)
      /\ calls'[c] # Idle => calls'[c].seen.fees = s.fees /\ calls'[c].seen.row = s.row
  <2>1. CASE ReplaceTracking(c)
    BY <1>1, <2>1 DEF ReplaceTracking, Stays, Inv, TypeOK, Call, Seen
  <2>2. CASE Ocr(c)
    BY <1>1, <2>2 DEF Ocr, End, Goto, Stays, Inv, TypeOK, Call
  <2>3. CASE End(c)
    BY <2>3, OneCall, EndIsSound, <1>1 DEF End
  <2> QED BY <1>1, <2>1, <2>2, <2>3
          DEF CreateBill, CancelPackages, Finish, ReturnPackage, StoreLabel,
              CreateTrackingTiktok, Fail
<1>3. ASSUME "money" \notin harm'
      PROVE  row'.fee = row.fee /\ fees'.fix = fees.fix /\ fees'.volume = fees.volume
             /\ heaviest' = heaviest
  <2>1. CASE CancelPackages(c) \/ StoreLabel(c)
    BY <1>3, <2>1, SameFee
  <2>2. CASE CreateBill(c) \/ Finish(c) \/ ReturnPackage(c)
    BY <2>2, Unpacked DEF CreateBill, Finish, ReturnPackage, Row
  <2>4. CASE Ocr(c)
    BY <2>4, Unpacked DEF Ocr, Row, Fees
  <2>5. CASE ReplaceTracking(c) \/ CreateTrackingTiktok(c) \/ Fail(c)
    BY <2>5 DEF ReplaceTracking, CreateTrackingTiktok, Fail, table
  <2> QED BY <2>1, <2>2, <2>4, <2>5
<1>4. ASSUME harm' \cap {"money", "volume"} = {}
      PROVE  /\ Weighs
             /\ ~Tiktok /\ calls'[c] # Idle =>
                  /\ SeenBy(c)'.fees.fix >= 0
                  /\ SeenBy(c)'.row.status \notin Unbilled =>
                       SeenBy(c)'.fees.fix <= fees'.fix /\ SeenBy(c)'.fees.volume <= fees'.volume
  <2>1. harm \cap {"money", "volume"} = {} /\ "money" \notin harm'
    BY <1>1, <1>4
  <2> DEFINE t == calls'[c].seen
  <2>2. SeenBy(c)' = t /\ (calls'[c] # Idle => t.fees = s.fees /\ t.row = s.row)
    BY <1>2 DEF SeenBy
  <2> HIDE DEF t
  <2>3. Weighs
    BY <1>1, <1>3, <2>1, WeightStays
  <2> QED BY <1>1, <1>3, <2>1, <2>2, <2>3, SeenStays
<1> QED BY <1>1, <1>2, <1>4, WeightStep

\* Price and fees are read again: a call knows what there is.
LEMMA WeightExceedPrice ==
  ASSUME Inv, Inv', WeightInv, NEW c \in world.actors, ExceedPrice(c)
  PROVE  WeightInv'
<1>1. UNCHANGED <<world, row, fees, heaviest, harm>>
  BY Rereads
<1>2. PICK x : calls' = [calls EXCEPT ![c] = x] /\ x.seen.fees = fees
  BY Rereads
<1>3. Stays(c) /\ SeenBy(c)'.fees = fees
  BY <1>2 DEF Stays, SeenBy, Inv, TypeOK
<1>4. fees.fix \in Int /\ fees.volume \in Int
  BY Fields, SeenAmounts
<1>5. ASSUME harm \cap {"money", "volume"} = {}
      PROVE  Weighs /\ (~Tiktok => fees.fix >= 0)
  BY <1>1, <1>5, WeightStays DEF WeightInv
<1> QED BY <1>1, <1>3, <1>4, <1>5, WeightStep

\* What was charged already is at most what the row says now.
LEMMA ReadLess ==
  ASSUME Inv, MoneyInv, WeightInv, harm \cap {"money", "volume"} = {}, NEW c \in Busy,
         SeenBy(c).row.status \notin Unbilled
  PROVE  LET s == SeenBy(c) IN
         /\ row.fee = s.row.fee /\ row.fee \in Int /\ row.fee > 0
         /\ s.fees.fix \in Int /\ s.fees.volume \in Nat
         /\ fees.fix \in Int /\ fees.volume \in Nat /\ heaviest \in Int
         /\ row.fee + fees.fix + fees.volume <= heaviest
         /\ ~Tiktok /\ "price" \notin harm => row.fee + fees.fix + fees.volume = heaviest
         /\ ~Tiktok => /\ 0 <= s.fees.fix /\ s.fees.fix <= fees.fix
                       /\ s.fees.volume <= fees.volume
<1>1. SeenBy(c) \in Seen
  BY Holds DEF Busy
<1>2. heaviest \in Int
  BY Unpacked
<1>3. row.fee = SeenBy(c).row.fee
  BY ReadBilled
<1> QED BY <1>1, <1>2, <1>3, SeenAmounts, Fields, NowWeighed DEF WeightInv

\* A price was asked for, and what is missing to it charged, or nothing if it is not more
\* than what was charged when the call read it.
Tops(c, price, asked, plus) ==
  /\ plus > 0 => asked /\ plus = price - Weighed(SeenBy(c)) /\ Current(c)
  /\ ~Tiktok /\ asked /\ plus = 0 => price <= Weighed(SeenBy(c))
  /\ row'.fee = row.fee /\ heaviest' = IF asked THEN Larger(heaviest, price) ELSE heaviest
  /\ \/ fees'.fix = fees.fix + plus /\ fees'.volume = fees.volume
     \/ fees'.fix = fees.fix /\ fees'.volume = fees.volume + plus

LEMMA WeightCharged ==
  ASSUME Inv, MoneyInv, WeightInv, harm \cap {"money", "volume"} = {}, harm \subseteq harm',
         NEW c \in Busy, SeenBy(c).row.status \notin Unbilled,
         NEW price \in Nat, NEW asked \in BOOLEAN, NEW plus \in Nat,
         Tops(c, price, asked, plus)
  PROVE  Weighs
<1> DEFINE s == SeenBy(c)
           before == row.fee + fees.fix + fees.volume
<1>1. /\ row.fee = s.row.fee /\ row.fee \in Int /\ row.fee > 0
      /\ s.fees.fix \in Int /\ s.fees.volume \in Nat
      /\ fees.fix \in Int /\ fees.volume \in Nat /\ heaviest \in Int
      /\ before <= heaviest
      /\ ~Tiktok /\ "price" \notin harm => before = heaviest
      /\ ~Tiktok => /\ 0 <= s.fees.fix /\ s.fees.fix <= fees.fix
                    /\ s.fees.volume <= fees.volume
  BY ReadLess
<1>2. Weighed(s) = row.fee + s.fees.fix + s.fees.volume
  BY <1>1 DEF Weighed
<1>3. /\ fees'.fix + fees'.volume = fees.fix + fees.volume + plus
      /\ fees'.fix \in Int /\ fees'.volume \in Int
      /\ fees.fix <= fees'.fix /\ fees.volume <= fees'.volume
  BY <1>1 DEF Tops
<1>4. WeighedThen = before + plus
  BY <1>1, <1>3 DEF WeighedThen, Tops
<1>5. ~Tiktok => fees'.fix >= 0 /\ fees.fix <= fees'.fix /\ fees.volume <= fees'.volume
  BY <1>1, <1>3
<1>6. CASE plus > 0
  <2>1. asked /\ plus = price - before
    BY <1>1, <1>2, <1>6 DEF Tops, Current
  <2>2. heaviest' = Larger(heaviest, price) /\ WeighedThen = price
    BY <1>1, <1>4, <2>1 DEF Tops
  <2>3. price <= heaviest' /\ (before = heaviest => price = heaviest')
    BY <1>1, <1>6, <2>1, <2>2 DEF Larger
  <2> QED BY <1>1, <1>5, <2>2, <2>3 DEF Weighs
<1>7. CASE plus = 0
  <2>1. WeighedThen = before
    BY <1>1, <1>4, <1>7
  <2>2. heaviest <= heaviest' /\ heaviest' \in Int
    BY <1>1 DEF Tops, Larger
  <2>3. ~Tiktok => heaviest' = heaviest
    BY <1>1, <1>2, <1>7 DEF Tops, Larger
  <2> QED BY <1>1, <1>5, <2>1, <2>2, <2>3 DEF Weighs
<1> QED BY <1>6, <1>7

\* The warehouse charges what is missing to the weight it finds, if it is more than was
\* known and the price is asked for.
LEMMA PlusTops ==
  ASSUME Inv, MoneyInv, WeightInv, harm \cap {"money", "volume"} = {},
         NEW c \in Busy, SeenBy(c).row.status \notin Unbilled,
         NEW w \in Nat, NEW known \in Int, NEW byWeight \in BOOLEAN,
         PostFix(Plus(SeenBy(c), w, known), byWeight),
         Plus(SeenBy(c), w, known) > 0 => Current(c),
         row'.fee = row.fee,
         heaviest' = IF Priced(SeenBy(c), w, known) THEN Larger(heaviest, w) ELSE heaviest
  PROVE  Tops(c, w, Priced(SeenBy(c), w, known), Plus(SeenBy(c), w, known))
<1> DEFINE s == SeenBy(c)
           plus == Plus(s, w, known)
<1>1. /\ s.row.fee \in Int /\ s.fees.fix \in Int /\ s.fees.volume \in Nat
      /\ ~Tiktok => 0 <= s.fees.fix
  BY ReadLess
<1>2. plus \in Nat
  <2>1. s \in Seen
    BY Holds DEF Busy
  <2> QED BY <2>1, Charges
<1>3. Weighed(s) = s.row.fee + s.fees.fix + s.fees.volume
  BY DEF Weighed
<1>4. plus > 0 => Priced(s, w, known) /\ plus = w - Weighed(s)
  BY <1>1, <1>3 DEF Plus, Larger
<1>5. ~Tiktok /\ Priced(s, w, known) /\ plus = 0 => w <= Weighed(s)
  BY <1>1, <1>3 DEF Plus, Larger
<1> HIDE DEF plus
<1>6. \/ fees'.fix = fees.fix + plus /\ fees'.volume = fees.volume
      \/ fees'.fix = fees.fix /\ fees'.volume = fees.volume + plus
  BY <1>2, Unpacked DEF PostFix, Fees, plus
<1> QED BY <1>4, <1>5, <1>6 DEF Tops, plus

\* A label over the limit is charged with what is missing to its price.
LEMMA PlusExceedTops ==
  ASSUME Inv, NEW c \in Busy, NEW cost \in Nat, NEW plus, plus = PlusExceed(SeenBy(c), cost),
         plus > 0 => Current(c), row'.fee = row.fee, heaviest' = Larger(heaviest, cost),
         \/ fees'.fix = fees.fix + plus /\ fees'.volume = fees.volume
         \/ fees'.fix = fees.fix /\ fees'.volume = fees.volume + plus
  PROVE  Tops(c, cost, TRUE, plus)
<1>1. SeenBy(c) \in Seen
  BY Holds DEF Busy
<1>2. Weighed(SeenBy(c)) \in Int
  BY <1>1, SeenAmounts DEF Weighed
<1>3. /\ plus > 0 => plus = cost - Weighed(SeenBy(c))
      /\ plus = 0 => cost <= Weighed(SeenBy(c))
  BY <1>2 DEF PlusExceed, Larger
<1> QED BY <1>3 DEF Tops

LEMMA WeightWarehousInCheck ==
  ASSUME Inv, Inv', MoneyInv, WeightInv, NEW c \in world.actors, WarehousInCheck(c)
  PROVE  WeightInv'
<1> DEFINE s == SeenBy(c)
           w == calls[c].weight
           plus == Plus(s, w, Known(s))
<1>1. /\ c \in Busy /\ s \in Seen /\ s.row.status = "PendingPickup" /\ w \in Weight /\ w \in Nat
      /\ calls[c] \in Call /\ s = calls[c].seen
  BY Holds, Weights DEF WarehousInCheck, At, Busy, Held
<1>2. harm \subseteq harm' /\ world' = world
  BY DEF WarehousInCheck, Wrote
<1>3. /\ Stays(c) /\ calls'[c].seen.row.status = "Picked"
      /\ calls'[c].seen.fees = s.fees
  BY CheckedIn
<1>4. Known(s) \in Int /\ plus \in Nat /\ Priced(s, w, Known(s)) \in BOOLEAN
  <2>1. Known(s) \in Int
    BY <1>1, Amounts, Weights
  <2> QED BY <1>1, <2>1, Charges DEF Priced
<1>5. row'.fee = row.fee
  BY Unpacked DEF WarehousInCheck, Row
<1>6. PICK byWeight \in BOOLEAN : PostFix(plus, byWeight)
  BY DEF WarehousInCheck
<1>7. heaviest' = IF Priced(s, w, Known(s)) THEN Larger(heaviest, w) ELSE heaviest
  BY DEF WarehousInCheck
<1>8. ASSUME harm' \cap {"money", "volume"} = {}
      PROVE  /\ Weighs
             /\ ~Tiktok =>
                  /\ SeenBy(c)'.fees.fix >= 0
                  /\ SeenBy(c)'.fees.fix <= fees'.fix /\ SeenBy(c)'.fees.volume <= fees'.volume
  <2>1. harm \cap {"money", "volume"} = {} /\ s.row.status \notin Unbilled
    BY <1>1, <1>2, <1>8 DEF Unbilled
  <2>2. plus > 0 => Current(c)
    BY <1>8, WroteMoney DEF WarehousInCheck
  <2>3. Tops(c, w, Priced(s, w, Known(s)), plus)
    BY <1>1, <1>4, <1>5, <1>6, <1>7, <2>1, <2>2, PlusTops
  <2>7. Weighs
    BY <1>1, <1>2, <1>4, <2>1, <2>3, WeightCharged
  <2> DEFINE t == calls'[c].seen
  <2>4. SeenBy(c)' = t /\ t.fees = s.fees
    BY <1>3 DEF SeenBy
  <2> HIDE DEF t
  <2>5. fees'.fix \in Int /\ fees'.volume \in Int
    BY DEF Inv, TypeOK, Fees
  <2>6. /\ s.fees.fix \in Int /\ s.fees.volume \in Int /\ fees.fix \in Int /\ fees.volume \in Int
        /\ ~Tiktok => /\ 0 <= s.fees.fix /\ s.fees.fix <= fees.fix
                      /\ s.fees.volume <= fees.volume
    BY <1>1, <2>1, ReadLess
  <2> QED BY <2>4, <2>5, <2>6, <2>7 DEF Weighs
<1> QED BY <1>2, <1>3, <1>8, WeightStep

LEMMA WeightUpdateTracking ==
  ASSUME Inv, Inv', MoneyInv, WeightInv, NEW c \in world.actors, UpdateTracking(c)
  PROVE  WeightInv'
<1> DEFINE cost == calls[c].cost
           plus == PlusExceed(SeenBy(c), cost)
<1>1. /\ c \in Busy /\ SeenBy(c).row.status = "Picked" /\ plus \in Nat /\ cost \in Nat
      /\ harm \subseteq harm' /\ ("money" \notin harm' /\ plus > 0 => Current(c))
      /\ world' = world /\ Stays(c) /\ calls'[c] = Idle
      /\ row'.fee = row.fee /\ heaviest' = Larger(heaviest, cost)
      /\ \/ fees'.fix = fees.fix + plus /\ fees'.volume = fees.volume
         \/ fees'.fix = fees.fix /\ fees'.volume = fees.volume + plus
  BY Relabels
<1>2. ASSUME harm' \cap {"money", "volume"} = {}
      PROVE  Weighs
  <2>1. Tops(c, cost, TRUE, plus)
    BY <1>1, <1>2, PlusExceedTops
  <2> QED BY <1>1, <1>2, <2>1, WeightCharged DEF Unbilled
<1> QED BY <1>1, <1>2, WeightStep

LEMMA WeightWarehousChecked ==
  ASSUME Inv, Inv', MoneyInv, WeightInv, NEW c \in world.actors, WarehousChecked(c)
  PROVE  WeightInv'
<1> DEFINE s == SeenBy(c)
           w == calls[c].weight
           plus == Accepted(c)
<1>1. /\ c \in Busy /\ s.row.status = "Picked" /\ w \in Nat /\ s.row.weight \in Int
      /\ calls[c].cost \in Nat /\ plus \in Nat
      /\ harm \subseteq harm' /\ ("money" \notin harm' /\ plus > 0 => Current(c))
      /\ world' = world /\ Stays(c) /\ calls'[c] = Idle /\ row'.fee = row.fee
      /\ heaviest' = IF Exceeds(c) THEN Larger(heaviest, calls[c].cost)
                     ELSE IF Priced(s, w, s.row.weight) THEN Larger(heaviest, w)
                     ELSE heaviest
  BY Accepts
<1>2. PICK byWeight \in BOOLEAN : PostFix(plus, byWeight)
  BY Accepts
<1>3. \/ fees'.fix = fees.fix + plus /\ fees'.volume = fees.volume
      \/ fees'.fix = fees.fix /\ fees'.volume = fees.volume + plus
  <2> HIDE DEF plus
  <2> QED BY <1>1, <1>2, Unpacked DEF PostFix, Fees
<1>4. ASSUME harm' \cap {"money", "volume"} = {}
      PROVE  Weighs
  <2>1. harm \cap {"money", "volume"} = {} /\ s.row.status \notin Unbilled
    BY <1>1, <1>4 DEF Unbilled
  <2>2. CASE Exceeds(c)
    <3>1. Tops(c, calls[c].cost, TRUE, plus)
      BY <1>1, <1>3, <1>4, <2>2, PlusExceedTops DEF Accepted
    <3> QED BY <1>1, <2>1, <3>1, WeightCharged
  <2>3. CASE ~Exceeds(c)
    <3>1. plus = Plus(s, w, s.row.weight) /\ Priced(s, w, s.row.weight) \in BOOLEAN
      BY <2>3 DEF Accepted, Priced
    <3>2. Tops(c, w, Priced(s, w, s.row.weight), plus)
      BY <1>1, <1>2, <1>4, <2>1, <2>3, <3>1, PlusTops
    <3> QED BY <1>1, <2>1, <3>1, <3>2, WeightCharged
  <2> QED BY <2>2, <2>3
<1> QED BY <1>1, <1>4, WeightStep

LEMMA WeightScanFee ==
  ASSUME Inv, Inv', MoneyInv, WeightInv, NEW c \in world.actors, ScanFee(c)
  PROVE  WeightInv'
<1> DEFINE s == SeenBy(c)
           w == calls[c].weight
<1>1. /\ c \in Busy /\ s.row.status = "PendingPickup" /\ w \in Weight
      /\ calls[c] \in Call /\ s = calls[c].seen /\ s \in Seen
      /\ harm \subseteq harm' /\ UNCHANGED <<world, row>> /\ heaviest' = Larger(heaviest, w)
  BY ScanCharges
<1>8. w \in Nat /\ w > 0
  BY <1>1, Weights
<1>2. PICK price \in {0, w} : Charged(c, price) /\ (price # w => "price" \in harm')
  BY ScanCharges
<1> DEFINE diff == price - s.row.fee - s.fees.fix
<1>3. fees' \in Fees /\ paid' \in Int
  BY DEF Inv, TypeOK
<1>4. /\ Stays(c) /\ calls'[c].seen.fees = fees'
  BY <1>1, <1>3 DEF ScanFee, Stays, Inv, TypeOK, Call, Seen
<1>5. ASSUME harm' \cap {"money", "volume"} = {}
      PROVE  Weighs
  <2>1. harm \cap {"money", "volume"} = {} /\ s.row.status \notin Unbilled
    BY <1>1, <1>5 DEF Unbilled
  <2>2. /\ row.fee = s.row.fee /\ row.fee \in Int /\ row.fee > 0
        /\ s.fees.fix \in Int /\ s.fees.volume \in Nat
        /\ fees.fix \in Int /\ fees.volume \in Nat /\ heaviest \in Int
        /\ row.fee + fees.fix + fees.volume <= heaviest
        /\ ~Tiktok /\ "price" \notin harm => row.fee + fees.fix + fees.volume = heaviest
        /\ ~Tiktok => /\ 0 <= s.fees.fix /\ s.fees.fix <= fees.fix
                      /\ s.fees.volume <= fees.volume
    BY <1>1, <2>1, ReadLess
  <2>3. CASE Tiktok \/ diff > 0
    <3>1. fees' = [fees EXCEPT !.fix = @ + diff]
      BY <1>2, <2>3 DEF Charged, PostFix
    <3>2. s.fees = fees /\ ~(s.fees.volume > 0)
      BY <1>2, <1>5, <2>3 DEF Charged, Current
    <3>3. diff \in Int /\ diff = price - row.fee - fees.fix
      BY <1>8, <2>2, <3>2
    <3>9. price \in {0, w}
      OBVIOUS
    <3> HIDE DEF diff
    <3>4. fees'.fix = fees.fix + diff /\ fees'.volume = fees.volume
      BY <3>1, Unpacked DEF Fees
    <3>5. fees.volume = 0
      BY <2>2, <3>2
    <3>6. WeighedThen = price
      BY <1>1, <1>8, <2>2, <3>3, <3>4, <3>5, <3>9 DEF WeighedThen
    <3>7. ~Tiktok => diff > 0
      BY <2>3
    <3>8. /\ price <= heaviest' /\ heaviest <= heaviest'
          /\ ~Tiktok /\ "price" \notin harm' => price = heaviest'
      BY <1>1, <1>2, <1>8, <2>2, <3>3, <3>5, <3>7, <3>9 DEF Larger
    <3> QED BY <1>1, <2>2, <3>3, <3>4, <3>6, <3>7, <3>8 DEF Weighs
  <2>4. CASE ~(Tiktok \/ diff > 0)
    <3>1. fees' = fees
      BY <1>2, <2>4 DEF Charged
    <3>2. price <= heaviest
      BY <1>8, <2>2, <2>4
    <3>3. heaviest <= heaviest' /\ heaviest' \in Int /\ (price = w => heaviest' = heaviest)
      BY <1>1, <1>8, <2>2, <3>2 DEF Larger
    <3>4. WeighedThen = row.fee + fees.fix + fees.volume
      BY <1>1, <3>1 DEF WeighedThen
    <3> QED BY <1>1, <1>2, <2>2, <2>4, <3>1, <3>3, <3>4 DEF Weighs
  <2> QED BY <2>3, <2>4
<1>6. SeenBy(c)'.fees = fees'
  BY <1>4 DEF SeenBy
<1>7. fees'.fix \in Int /\ fees'.volume \in Int
  BY <1>3 DEF Fees
<1> QED BY <1>1, <1>4, <1>5, <1>6, <1>7, WeightStep DEF Weighs

LEMMA WeightScanSave ==
  ASSUME Inv, Inv', MoneyInv, WeightInv, NEW c \in world.actors, ScanSave(c)
  PROVE  WeightInv'
<1> DEFINE s == SeenBy(c)
           w == calls[c].weight
<1>1. /\ c \in Busy /\ s \in Seen /\ w \in Nat
      /\ harm \subseteq harm' /\ {"status", "money"} \cap Stale(c) \subseteq harm'
      /\ UNCHANGED <<world, fees>> /\ Stays(c) /\ calls'[c] = Idle
      /\ \/ s.row.status # "Created" /\ row'.fee = s.row.fee /\ heaviest' = heaviest
         \/ s.row.status = "Created" /\ row'.fee = w /\ heaviest' = w
         \/ /\ s.row.status = "Created" /\ row'.fee = row.fee
            /\ heaviest' = Larger(heaviest, w) /\ "price" \in harm'
  BY ScanSaves
<1>3. ASSUME harm' \cap {"money", "volume"} = {}
      PROVE  Weighs
  <2>1. CASE s.row.status = "Created"
    <3>1. Current(c)
      BY <1>1, <1>3 DEF Stale, Current
    <3>2. s.fees.fix = 0 /\ s.fees.volume = 0
      BY <1>1, <1>3, <2>1 DEF MoneyInv, Settled, Unpaid, Unbilled
    <3>3. fees'.fix = 0 /\ fees'.volume = 0 /\ fees.fix = 0 /\ fees.volume = 0
      BY <1>1, <3>1, <3>2 DEF Current
    <3>4. CASE row'.fee = w /\ heaviest' = w
      BY <1>1, <3>3, <3>4 DEF Weighs, WeighedThen
    <3>5. CASE row'.fee = row.fee /\ heaviest' = Larger(heaviest, w) /\ "price" \in harm'
      <4>1. row.fee \in Int /\ heaviest \in Int
        BY Fields, SeenAmounts, Unpacked
      <4>2. row.fee <= heaviest
        BY <1>1, <1>3, <3>3, <4>1, NowWeighed DEF WeightInv
      <4>3. row.fee <= heaviest'
        BY <1>1, <3>5, <4>1, <4>2 DEF Larger
      <4> QED BY <1>1, <3>3, <3>5, <4>1, <4>3 DEF Weighs, WeighedThen
    <3> QED BY <1>1, <2>1, <3>4, <3>5
  <2>2. CASE s.row.status # "Created"
    BY <1>1, <1>3, <2>2, SameFee, WeightStays
  <2> QED BY <2>1, <2>2
<1> QED BY <1>1, <1>3, WeightStep

LEMMA WeightCrash ==
  ASSUME Inv, WeightInv, Crash
  PROVE  WeightInv'
<1>1. /\ harm \subseteq harm' /\ UNCHANGED <<world, row, fees, heaviest>>
      /\ Busy' = {}
  BY DEF Crash, table, Busy
<1>2. Weighed(Now)' = Weighed(Now)
  BY <1>1, NowWeighed DEF WeighedThen
<1> QED BY <1>1, <1>2 DEF WeightInv, Tiktok

LEMMA NextWeight == Inv /\ Inv' /\ MoneyInv /\ WeightInv /\ [Next]_vars => WeightInv'
<1> SUFFICES ASSUME Inv, Inv', MoneyInv, WeightInv, [Next]_vars PROVE WeightInv'
  OBVIOUS
<1>1. CASE Next
  BY <1>1, Steps, ReadersOnlyRead, MarksOnlyRead, WeightReads, WeightExceedPrice, WeightRest,
     WeightWarehousInCheck, WeightUpdateTracking, WeightWarehousChecked, WeightScanFee, WeightScanSave, WeightCrash
<1>2. CASE UNCHANGED vars
  <2>1. UNCHANGED <<world, row, fees, tracked, paid, calls, heaviest, harm>>
    BY <1>2 DEF vars, table
  <2> QED BY <2>1 DEF WeightInv, Now, Busy, SeenBy, Weighed, Tiktok
<1> QED BY <1>1, <1>2

\* Scanned by the machine, checked in, labelled and accepted in any order, a package is
\* charged once for the largest price that was asked for, of a weight or of a label over
\* the limit: exactly if its label is of the house, at most if it is of TikTok or a scan
\* went on without a price.  Unless somebody charged what had changed, a scan could not be
\* saved, or a scan met fees for the volume, which it does not look at.
THEOREM PaidForWeightHolds == Spec => []PaidForWeight
<1>1. Init => WeightInv
  <2> SUFFICES ASSUME Init PROVE WeightInv
    OBVIOUS
  <2>1. PICK w \in world.weights :
          /\ row = [status |-> "Created", alert |-> FALSE, recipient |-> "given",
                    label |-> IF Tiktok THEN "url" ELSE "none", weight |-> w, actual |-> 0, fee |-> w, exceed |-> FALSE]
          /\ heaviest = w
    BY DEF Init
  <2>2. w \in Int
    BY Weights DEF Init
  <2>3. Busy = {} /\ fees.fix = 0 /\ fees.volume = 0 /\ row.fee = w
    BY <2>1 DEF Init, Busy
  <2> QED BY <2>1, <2>2, <2>3, NowWeighed DEF WeightInv
<1>2. Init => MoneyInv
  BY DEF Init, Busy, MoneyInv, Settled, Unbilled, Unpaid, Now
<1>3. WeightInv => PaidForWeight
  BY NowWeighed DEF WeightInv, PaidForWeight
<1> QED BY InvHolds, NextMoney, NextWeight, <1>1, <1>2, <1>3, PTL DEF Spec
=============================================================================
