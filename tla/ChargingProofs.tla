---------------------------- MODULE ChargingProofs ----------------------------
(***************************************************************************)
(* Proofs that packages are charged and labelled once, that one request at *)
(* a time overdraws nobody and leaves nothing locked, for every list of    *)
(* packages and any number of requests, errors and crashes.                *)
(***************************************************************************)
EXTENDS Charging, FiniteSetTheorems, TLAPS

Busy == {r \in Requests : req[r] # Idle}

Buying == {"codes", "insert", "carrier", "bill"}

\* What a request read can be relied on: Delivery's check is behind it.
Certain(x) == x.kind # "deliver" \/ x.pc \notin {"guard", "lock"}

\* The shape of a running request.
Fit(x) ==
  /\ x.left \subseteq x.asked /\ x.left \subseteq DOMAIN x.seen /\ x.now \subseteq x.left
  /\ x.kind = "deliver" => \E p \in Packages : x.asked = {p}
  /\ x.pc \in {"guard", "lock"} => x.left # {}
  /\ x.pc \in Buying => x.now # {}
  /\ x.pc = "lock" => x.kind = "deliver"
  /\ x.phase = "tiktok" => x.left \subseteq Tiktok /\ x.pc \in {"codes", "insert", "bill"}
  /\ x.phase = "plain" /\ x.pc \in Buying =>
       x.now \subseteq {p \in x.left \ Tiktok : x.seen[p].status = "Created"}
  /\ x.phase = "plain" /\ x.pc \in {"codes", "insert"} =>
       x.now = {p \in x.left \ Tiktok : x.seen[p].status = "Created"}
  /\ \A p \in x.left :
       /\ x.kind = "cn" => x.seen[p].status # "Created"
       /\ x.kind # "cn" /\ Certain(x) => x.seen[p].status # "CNPurchased"

\* A status that was read is the one there is, or the package was billed since.
Later(x) == \A p \in x.left : pkg[p].status \in {x.seen[p].status, "PendingPickup"}

Inv ==
  /\ TypeOK
  /\ \A r \in Busy : Fit(req[r]) /\ Later(req[r])

\* The histories say who was in whose way.
HoldInv ==
  /\ \A r, s \in Busy : r # s => Holding(req[r]) \cap Holding(req[s]) \subseteq overlapped
  /\ ~crowded => overlapped = {} /\ \A r, s \in Busy : r = s

\* Billing.  What a request is about to bill and nobody else was, is not billed; and what
\* is known of its tracking is what there is.
Unbilled(x) ==
  \A p \in Packages \ overlapped :
    /\ p \in Holding(x) => pkg[p].status # "PendingPickup"
    /\ Certain(x) /\ p \in x.left \cap Tiktok => x.seen[p].status # "PendingPickup"
    /\ x.phase = "plain" /\ x.pc \in {"codes", "insert", "carrier"} /\ p \in x.now =>
         x.seen[p].tracked = pkg[p].tracked

BillInv ==
  /\ \A p \in Packages \ overlapped : paid[p] = IF pkg[p].status = "PendingPickup" THEN 1 ELSE 0
  /\ \A r \in Busy : Unbilled(req[r])

\* Codes.  Until its code is made, what is known of a package's code is what there is.
CodeKnown(x, p) == x.seen[p].code = pkg[p].code /\ (x.seen[p].temp <=> pkg[p].code # NoCode)

Made(r, x, p) == pkg[p].code # NoCode /\ pkg[p].code = IF x.seen[p].temp THEN x.seen[p].code ELSE r

CodesKnown(r, x) ==
  /\ \A p \in Holding(x) :
       IF p \in x.now /\ x.pc \in {"carrier", "bill"} THEN Made(r, x, p) ELSE CodeKnown(x, p)
  /\ \A p \in x.left : x.seen[p].status = "PendingPickup" => ~x.seen[p].temp
  /\ x.phase = "plain" /\ x.pc \in {"insert", "carrier", "bill"} =>
       \A p \in x.left \ Tiktok : x.seen[p].status = "Created"

CodeInv ==
  overlapped = {} =>
    /\ \A p \in Packages :
         IF pkg[p].status = "PendingPickup"
         THEN pkg[p].code # NoCode /\ codes[<<p, pkg[p].code>>] = "enable"
         ELSE \A s \in Requests : codes[<<p, s>>] = IF s = pkg[p].code THEN "temp" ELSE "none"
    /\ \A r \in Busy : CodesKnown(r, req[r])

\* One request at a time finds what it read, and can pay for what it has left.
Affords(x) ==
  /\ \A p \in x.left : /\ pkg[p].status = x.seen[p].status
                       /\ Certain(x) => pkg[p].status # "PendingPickup"
  /\ x.kind = "deliver" /\ x.solvent /\ x.pc \in {"guard", "lock"} =>
       Enough(balance, Cardinality(x.left))
  /\ x.pc \in {"mark", "label"} \cup Buying => Enough(balance, Cardinality(x.left))

LoneInv ==
  ~crowded =>
    /\ locked = {} /\ balance >= 0 - DebtMax
    /\ \A r \in Busy : Affords(req[r])

-----------------------------------------------------------------------------
(* Requests. *)

\* A request read the rows of all it has left.
LEMMA Fields ==
  ASSUME NEW x \in Request
  PROVE  /\ x.kind \in Kinds /\ x.pc \in Steps /\ x.phase \in {"plain", "tiktok"}
         /\ x.asked \in SUBSET Packages /\ x.left \in SUBSET Packages /\ x.now \in SUBSET Packages
         /\ x.failed \in BOOLEAN /\ x.solvent \in BOOLEAN
         /\ x.seen \in UNION {[S -> SeenRow] : S \in SUBSET Packages}
         /\ \A p \in DOMAIN x.seen : x.seen[p] \in SeenRow
BY DEF Request

LEMMA SeenIsRead ==
  ASSUME TypeOK, NEW S \in SUBSET Packages
  PROVE  /\ Seen(S) \in UNION {[T -> SeenRow] : T \in SUBSET Packages}
         /\ DOMAIN Seen(S) = S
         /\ \A p \in S : /\ Seen(S)[p].status = pkg[p].status /\ Seen(S)[p].code = pkg[p].code
                         /\ Seen(S)[p].tracked = pkg[p].tracked
                         /\ Seen(S)[p].temp <=> pkg[p].code # NoCode /\ codes[<<p, pkg[p].code>>] = "temp"
<1>1. \A p \in S : [status |-> pkg[p].status, code |-> pkg[p].code, tracked |-> pkg[p].tracked,
                    temp |-> pkg[p].code # NoCode /\ codes[<<p, pkg[p].code>>] = "temp"] \in SeenRow
  BY DEF TypeOK, PackageRow, SeenRow
<1>2. Seen(S) \in [S -> SeenRow]
  BY <1>1 DEF Seen
<1>3. Seen(S) \in UNION {[T -> SeenRow] : T \in SUBSET Packages}
  BY <1>2
<1> QED BY <1>2, <1>3 DEF Seen

LEMMA HoldingIsOfPackages ==
  ASSUME NEW x \in Request \cup {Idle}
  PROVE  Holding(x) \subseteq Packages
BY Fields, IdleIsNoRequest DEF Holding

LEMMA Running ==
  ASSUME Inv, NEW r \in Requests, req[r] # Idle
  PROVE  /\ req[r] \in Request /\ r \in Busy /\ Fit(req[r]) /\ Later(req[r])
         /\ req[r].left \in SUBSET Packages /\ req[r].asked \in SUBSET Packages
         /\ req[r].now \in SUBSET Packages
BY Fields DEF Inv, TypeOK, Busy

\* The step of one request.
LEMMA OneRequest ==
  ASSUME TypeOK, NEW r \in Requests, NEW x \in Request \cup {Idle}, Becomes(r, x)
  PROVE  /\ req' \in [Requests -> Request \cup {Idle}] /\ req'[r] = x
         /\ \A s \in Requests : s # r => req'[s] = req[s]
         /\ overlapped \subseteq overlapped' /\ overlapped' \subseteq Packages
         /\ crowded' \in BOOLEAN /\ (crowded => crowded')
<1>1. /\ req' \in [Requests -> Request \cup {Idle}] /\ req'[r] = x
      /\ \A s \in Requests : s # r => req'[s] = req[s]
  BY DEF Becomes, TypeOK
<1>2. Holding(x) \subseteq Packages
  BY HoldingIsOfPackages
<1> QED BY <1>1, <1>2 DEF Becomes, TypeOK

\* What a request becomes.
Keeps(x, y) ==
  /\ x.kind = y.kind /\ x.asked = y.asked /\ x.left = y.left /\ x.seen = y.seen
  /\ x.solvent = y.solvent

\* It starts,
Starts(r, x) ==
  /\ req[r] = Idle /\ x \in Request
  /\ x.pc = "guard" /\ x.phase = "plain" /\ x.now = {} /\ x.left # {} /\ x.left \subseteq x.asked
  /\ x.seen = Seen(x.left)
  /\ x.kind = "process" => \A p \in x.left : pkg[p].status = "Created"
  /\ x.kind = "cn" => \A p \in x.left : pkg[p].status = "CNPurchased"
  /\ x.kind = "deliver" => (\E p \in Packages : x.asked = {p})
                           /\ (x.solvent => Enough(balance, 1))

\* goes to the next step with what it has,
Goes(r, x) ==
  LET y == req[r] IN
  /\ y # Idle /\ x \in Request /\ Keeps(x, y) /\ x.phase = y.phase /\ x.now = y.now
  /\ \/ y.pc = "guard" /\ x.pc = IF y.kind = "deliver" THEN "lock" ELSE "funds"
     \/ y.pc = "funds" /\ x.pc \in {"mark", "label"} /\ Enough(balance, Cardinality(y.asked))
     \/ y.pc = "mark" /\ x.pc = "label"
     \/ /\ y.pc = "codes" /\ x.pc = "insert"
        /\ \A p \in New(r) : \A s \in Requests : codes[<<p, s>>] = "none"

\* has the package of a delivery,
Locks(r, x) ==
  LET y == req[r] IN
  /\ y # Idle /\ x \in Request /\ Keeps(x, y) /\ y.pc = "lock"
  /\ y.solvent /\ \A p \in y.left : y.seen[p].status = "Created"
  /\ IF y.left \subseteq Tiktok THEN x.pc = "codes" /\ x.phase = "tiktok" /\ x.now = y.left
     ELSE x.pc = "label" /\ x.phase = y.phase /\ x.now = {}

\* reads again what it can label,
Looks(r, x) ==
  LET y == req[r] IN
  /\ y # Idle /\ x \in Request /\ y.pc = "label" /\ x.pc = "codes" /\ x.phase = y.phase
  /\ x.kind = y.kind /\ x.asked = y.asked /\ x.left = y.left /\ x.solvent = y.solvent
  /\ x.seen = Seen(y.left)
  /\ x.now = {p \in Plain(r) : pkg[p].status = "Created"} /\ x.now # {}

\* has its labels,
Picks(r, x) ==
  LET y == req[r] IN
  /\ y # Idle /\ x \in Request /\ Keeps(x, y) /\ x.phase = y.phase /\ y.pc = "carrier" /\ x.pc = "bill"
  /\ x.now \subseteq y.now /\ x.now # {}

\* or is done with the plain packages, or with one package, and goes on to those of
\* TikTok, among M, or ends.
Follows(r, M, x) ==
  LET y == req[r] IN
  \/ x = Idle
  \/ /\ y # Idle /\ x \in Request /\ x.pc = "codes" /\ x.phase = "tiktok"
     /\ x.kind = y.kind /\ x.asked = y.asked /\ x.seen = y.seen /\ x.solvent = y.solvent
     /\ x.left \subseteq M /\ \E p \in x.left : x.now = {p}

LEMMA Ending ==
  ASSUME Inv, NEW r \in Requests, req[r] # Idle, End(r)
  PROVE  Becomes(r, Idle) /\ delivering' \subseteq Packages
BY DEF End, Inv, TypeOK

LEMMA Following ==
  ASSUME Inv, NEW r \in Requests, req[r] # Idle, NEW M \in SUBSET req[r].left, NextTiktok(r, M)
  PROVE  /\ \E x \in Request \cup {Idle} : Becomes(r, x) /\ Follows(r, M, x)
         /\ delivering' \subseteq Packages
<1>1. CASE End(r)
  BY <1>1, Ending DEF Follows
<1>2. CASE ~End(r)
  <2>1. PICK p \in M :
          /\ Becomes(r, [req[r] EXCEPT !.pc = "codes", !.phase = "tiktok", !.left = M, !.now = {p}])
          /\ UNCHANGED delivering
    BY <1>2 DEF NextTiktok
  <2> DEFINE x == [req[r] EXCEPT !.pc = "codes", !.phase = "tiktok", !.left = M, !.now = {p}]
  <2>2. req[r] \in Request /\ M \in SUBSET Packages /\ {p} \in SUBSET Packages
    BY Running
  <2>3. /\ x \in Request /\ x.pc = "codes" /\ x.phase = "tiktok"
        /\ x.kind = req[r].kind /\ x.asked = req[r].asked /\ x.seen = req[r].seen
        /\ x.solvent = req[r].solvent /\ x.left = M /\ x.now = {p}
    BY <2>2 DEF Request, Steps
  <2> HIDE DEF x
  <2>4. Follows(r, M, x)
    BY <2>3 DEF Follows
  <2> QED BY <2>1, <2>3, <2>4 DEF Inv, TypeOK, x
<1> QED BY <1>1, <1>2

LEMMA Labelled ==
  ASSUME Inv, NEW r \in Requests, req[r] # Idle, NEW e, LabelDone(r, e)
  PROVE  /\ \E x \in Request \cup {Idle} : Becomes(r, x) /\ Follows(r, req[r].left \cap Tiktok, x)
         /\ delivering' \subseteq Packages /\ callLabel' \subseteq Packages
<1>1. callLabel' \subseteq Packages
  BY DEF LabelDone, Inv, TypeOK
<1>2. CASE End(r)
  BY <1>1, <1>2, Ending DEF Follows
<1>3. CASE NextTiktok(r, req[r].left \cap Tiktok)
  BY <1>1, <1>3, Following
<1> QED BY <1>2, <1>3 DEF LabelDone

\* The steps that leave the rows of packages and codes as they are.
Quiet == UNCHANGED <<pkg, codes, paid>>

LEMMA StartTurns ==
  ASSUME Inv, NEW r \in Requests, NEW kind \in Kinds, NEW S \in SUBSET Packages, Start(r, kind, S)
  PROVE  /\ \E x \in Request \cup {Idle} : Becomes(r, x) /\ Starts(r, x)
         /\ Quiet /\ UNCHANGED <<tables, redis, faults, labels>>
<1> DEFINE left == IF kind = "process" THEN {p \in S : pkg[p].status = "Created"} ELSE S
           x == [kind |-> kind, pc |-> "guard", phase |-> "plain", asked |-> S,
                 left |-> left, now |-> {}, failed |-> FALSE,
                 seen |-> Seen(left), solvent |-> kind = "deliver" => Enough(balance, 1)]
<1>1. Becomes(r, x) /\ left # {} /\ req[r] = Idle
  BY DEF Start
<1>2. left \in SUBSET Packages /\ left \subseteq S
  OBVIOUS
<1>3. Seen(left) \in UNION {[T -> SeenRow] : T \in SUBSET Packages}
  BY <1>2, SeenIsRead DEF Inv
<1>4. (kind = "deliver" => Enough(balance, 1)) \in BOOLEAN
  OBVIOUS
<1>5. /\ x \in Request /\ x.pc = "guard" /\ x.phase = "plain" /\ x.now = {} /\ x.left = left
      /\ x.asked = S /\ x.seen = Seen(left) /\ x.kind = kind
      /\ (kind = "deliver" /\ x.solvent => Enough(balance, 1))
  BY <1>2, <1>3, <1>4 DEF Request, Steps
<1>6. /\ kind = "process" => \A p \in left : pkg[p].status = "Created"
      /\ kind = "cn" => \A p \in left : pkg[p].status = "CNPurchased"
      /\ kind = "deliver" => Cardinality(S) = 1
  BY DEF Start
<1>7. kind = "deliver" => \E p \in Packages : S = {p}
  <2>1. IsFiniteSet(S)
    BY ChargingConstants, FS_Subset
  <2> QED BY <1>6, <2>1, FS_Singleton
<1> HIDE DEF x, left
<1>8. Starts(r, x)
  BY <1>1, <1>2, <1>5, <1>6, <1>7 DEF Starts
<1> QED BY <1>1, <1>5, <1>8 DEF Start, Quiet, tables, history

LEMMA GoesOn ==
  ASSUME NEW y \in Request, NEW pc \in Steps
  PROVE  LET x == [y EXCEPT !.pc = pc] IN
         /\ x \in Request /\ x.pc = pc /\ Keeps(x, y) /\ x.phase = y.phase /\ x.now = y.now
BY DEF Request, Keeps

Turn(r, x) ==
  \/ Starts(r, x) \/ Goes(r, x) \/ Locks(r, x) \/ Looks(r, x) \/ Picks(r, x)
  \/ /\ req[r].pc \notin {"guard", "lock"}
     /\ req[r] # Idle /\ Follows(r, req[r].left \cap Tiktok, x)
  \/ req[r] # Idle /\ x = Idle

LEMMA GuardTurns ==
  ASSUME Inv, NEW r \in Requests, Guard(r)
  PROVE  /\ \E x \in Request \cup {Idle} : Becomes(r, x) /\ Turn(r, x)
         /\ Quiet /\ UNCHANGED <<tables, callLabel, faults, labels>> /\ delivering' \subseteq Packages
<1>1. /\ req[r] # Idle /\ req[r].pc = "guard" /\ Quiet /\ UNCHANGED <<tables, callLabel, faults, labels>>
  BY DEF Guard, At, Quiet, tables, history
<1>2. CASE End(r)
  BY <1>1, <1>2, Ending DEF Turn
<1>3. CASE ~End(r)
  <2> DEFINE pc == IF req[r].kind = "deliver" THEN "lock" ELSE "funds"
             x == [req[r] EXCEPT !.pc = pc]
  <2>1. Becomes(r, x) /\ UNCHANGED delivering
    BY <1>3 DEF Guard, Goto
  <2>2. pc \in Steps
    BY DEF Steps
  <2>3. /\ x \in Request /\ x.pc = pc /\ Keeps(x, req[r]) /\ x.phase = req[r].phase
        /\ x.now = req[r].now
    BY <1>1, <2>2, Running, GoesOn
  <2> HIDE DEF x
  <2>4. Goes(r, x)
    BY <1>1, <2>3 DEF Goes
  <2> QED BY <1>1, <2>1, <2>3, <2>4 DEF Turn, Inv, TypeOK
<1> QED BY <1>2, <1>3

LEMMA LockTurns ==
  ASSUME Inv, NEW r \in Requests, Lock(r)
  PROVE  /\ \E x \in Request \cup {Idle} : Becomes(r, x) /\ Turn(r, x)
         /\ Quiet /\ UNCHANGED <<tables, callLabel, faults, labels>> /\ delivering' \subseteq Packages
<1> DEFINE y == req[r]
           p == CHOOSE q \in y.left : TRUE
<1>1. /\ y # Idle /\ y.pc = "lock" /\ Quiet /\ UNCHANGED <<tables, callLabel, faults, labels>>
  BY DEF Lock, At, Quiet, tables, history
<1>2. y \in Request /\ Fit(y)
  BY <1>1, Running
<1>3. p \in Packages /\ y.left = {p}
  <2>1. y.left # {} /\ y.kind = "deliver" /\ y.left \subseteq y.asked
    BY <1>1, <1>2 DEF Fit
  <2>2. p \in y.left
    BY <2>1
  <2>3. PICK q \in Packages : y.asked = {q}
    BY <1>2, <2>1 DEF Fit
  <2> HIDE DEF p
  <2> QED BY <2>1, <2>2, <2>3
<1>4. CASE End(r)
  BY <1>1, <1>4, Ending DEF Turn
<1>5. CASE ~End(r)
  <2> DEFINE x == [y EXCEPT !.pc = IF p \in Tiktok THEN "codes" ELSE "label",
                            !.phase = IF p \in Tiktok THEN "tiktok" ELSE "plain",
                            !.now = IF p \in Tiktok THEN {p} ELSE {}]
  <2>1. /\ y.seen[p].status = "Created" /\ y.solvent
        /\ delivering' = delivering \cup {p} /\ Becomes(r, x)
    BY <1>5 DEF Lock
  <2>2. (IF p \in Tiktok THEN {p} ELSE {}) \in SUBSET Packages
    BY <1>3
  <2>3. /\ x \in Request /\ Keeps(x, y)
        /\ x.pc = IF p \in Tiktok THEN "codes" ELSE "label"
        /\ x.phase = IF p \in Tiktok THEN "tiktok" ELSE "plain"
        /\ x.now = IF p \in Tiktok THEN {p} ELSE {}
    BY <1>2, <2>2 DEF Request, Keeps, Steps
  <2>4. y.phase = "plain"
    BY <1>1, <1>2, Fields DEF Fit
  <2> HIDE DEF x, p
  <2>5. Locks(r, x)
    BY <1>1, <1>3, <2>1, <2>3, <2>4 DEF Locks
  <2> QED BY <1>1, <1>3, <2>1, <2>3, <2>5 DEF Turn, Inv, TypeOK
<1> QED BY <1>4, <1>5

LEMMA FundsTurns ==
  ASSUME Inv, NEW r \in Requests, Funds(r)
  PROVE  /\ \E x \in Request \cup {Idle} :
              Becomes(r, x) /\ Turn(r, x)
              /\ (x # Idle => Enough(balance, Cardinality(req[r].asked)))
         /\ Quiet /\ UNCHANGED <<tables, callLabel, faults, labels>> /\ delivering' \subseteq Packages
<1> DEFINE y == req[r]
<1>1. /\ y # Idle /\ y.pc = "funds" /\ Quiet /\ UNCHANGED <<tables, callLabel, faults, labels>>
  BY DEF Funds, At, Quiet, tables
<1>2. CASE End(r)
  BY <1>1, <1>2, Ending DEF Turn
<1>3. CASE ~End(r) /\ Plain(r) # {}
  <2> DEFINE pc == IF y.kind = "process" THEN "mark" ELSE "label"
             x == [y EXCEPT !.pc = pc]
  <2>1. Becomes(r, x) /\ UNCHANGED delivering /\ Enough(balance, Cardinality(y.asked))
    BY <1>3 DEF Funds, Goto
  <2>2. pc \in Steps /\ pc \in {"mark", "label"}
    BY DEF Steps
  <2>3. x \in Request /\ x.pc = pc /\ Keeps(x, y) /\ x.phase = y.phase /\ x.now = y.now
    BY <1>1, <2>2, Running, GoesOn
  <2> HIDE DEF x, pc
  <2>4. Goes(r, x)
    BY <1>1, <2>1, <2>2, <2>3 DEF Goes
  <2> QED BY <1>1, <2>1, <2>3, <2>4 DEF Turn, Inv, TypeOK
<1>4. CASE ~End(r) /\ Plain(r) = {}
  <2>1. NextTiktok(r, y.left) /\ Enough(balance, Cardinality(y.asked))
    BY <1>4 DEF Funds
  <2>2. y.left \cap Tiktok = y.left
    BY <1>4 DEF Plain
  <2>3. /\ \E x \in Request \cup {Idle} : Becomes(r, x) /\ Follows(r, y.left, x)
        /\ delivering' \subseteq Packages
    BY <1>1, <2>1, Following
  <2> QED BY <1>1, <2>1, <2>2, <2>3 DEF Turn
<1> QED BY <1>2, <1>3, <1>4

LEMMA MarkTurns ==
  ASSUME Inv, NEW r \in Requests, Mark(r)
  PROVE  /\ \E x \in Request \cup {Idle} : Becomes(r, x) /\ Turn(r, x)
         /\ Quiet /\ UNCHANGED <<tables, delivering, faults, labels>> /\ callLabel' \subseteq Packages
<1>1. /\ req[r] # Idle /\ req[r].pc = "mark" /\ Quiet /\ UNCHANGED <<tables, delivering, faults, labels>>
  BY DEF Mark, At, Quiet, tables, history
<1>2. callLabel' \subseteq Packages
  BY <1>1, Running DEF Mark, Plain, Inv, TypeOK
<1> DEFINE x == [req[r] EXCEPT !.pc = "label"]
<1>3. Becomes(r, x)
  BY DEF Mark, Goto
<1>4. x \in Request /\ x.pc = "label" /\ Keeps(x, req[r]) /\ x.phase = req[r].phase /\ x.now = req[r].now
  BY <1>1, Running, GoesOn DEF Steps
<1> HIDE DEF x
<1>5. Goes(r, x)
  BY <1>1, <1>4 DEF Goes
<1> QED BY <1>1, <1>2, <1>3, <1>4, <1>5 DEF Turn

LEMMA LabelTurns ==
  ASSUME Inv, NEW r \in Requests, Label(r)
  PROVE  /\ \E x \in Request \cup {Idle} : Becomes(r, x) /\ Turn(r, x)
         /\ Quiet /\ UNCHANGED <<tables, faults, labels>>
         /\ callLabel' \subseteq Packages /\ delivering' \subseteq Packages
<1> DEFINE y == req[r]
           valid == {p \in Plain(r) : pkg[p].status = "Created"}
<1>1. /\ y # Idle /\ y.pc = "label" /\ Quiet /\ UNCHANGED <<tables, faults, labels>>
  BY DEF Label, At, Quiet, tables
<1>2. ASSUME NEW e, LabelDone(r, e)
      PROVE  /\ \E x \in Request \cup {Idle} : Becomes(r, x) /\ Turn(r, x)
             /\ callLabel' \subseteq Packages /\ delivering' \subseteq Packages
  BY <1>1, <1>2, Labelled DEF Turn
<1> DEFINE x == [y EXCEPT !.pc = "codes", !.now = valid, !.seen = Seen(y.left)]
<1>3. CASE valid # {} /\ Becomes(r, x) /\ UNCHANGED redis
  <2>1. y \in Request /\ y.left \in SUBSET Packages
    BY <1>1, Running
  <2>2. valid \in SUBSET Packages
    BY <2>1 DEF Plain
  <2>3. Seen(y.left) \in UNION {[T -> SeenRow] : T \in SUBSET Packages}
    BY <2>1, SeenIsRead DEF Inv
  <2> HIDE DEF valid
  <2>4. /\ x \in Request /\ x.pc = "codes" /\ x.now = valid /\ x.seen = Seen(y.left)
        /\ x.kind = y.kind /\ x.asked = y.asked /\ x.left = y.left /\ x.solvent = y.solvent
        /\ x.phase = y.phase
    BY <2>1, <2>2, <2>3 DEF Request, Steps
  <2> HIDE DEF x
  <2>5. Looks(r, x)
    BY <1>1, <1>3, <2>4 DEF Looks, valid
  <2> QED BY <1>1, <1>3, <2>4, <2>5 DEF Turn, Inv, TypeOK, redis
<1> QED BY <1>1, <1>2, <1>3 DEF Label

LEMMA CheckCodesTurns ==
  ASSUME Inv, NEW r \in Requests, CheckCodes(r)
  PROVE  /\ \E x \in Request \cup {Idle} :
              Becomes(r, x) /\ Turn(r, x)
              /\ (locked' = locked \/ \E p \in New(r) : \E s \in Requests : codes[<<p, s>>] # "none")
         /\ Quiet /\ UNCHANGED <<balance, faults, labels>> /\ locked' \subseteq Packages
         /\ callLabel' \subseteq Packages /\ delivering' \subseteq Packages
<1> DEFINE y == req[r]
           dup == {p \in New(r) : \E s \in Requests : codes[<<p, s>>] # "none"}
<1>1. /\ y # Idle /\ y.pc = "codes" /\ Quiet /\ UNCHANGED <<balance, faults, labels>>
  BY DEF CheckCodes, At, Quiet
<1>2. New(r) \subseteq Packages
  BY <1>1, Running DEF New, Listed, Plain
<1>3. CASE dup = {}
  <2> DEFINE x == [y EXCEPT !.pc = "insert"]
  <2>1. Becomes(r, x) /\ UNCHANGED <<locked, redis>>
    BY <1>3 DEF CheckCodes, Goto
  <2>2. x \in Request /\ x.pc = "insert" /\ Keeps(x, y) /\ x.phase = y.phase /\ x.now = y.now
    BY <1>1, Running, GoesOn DEF Steps
  <2> HIDE DEF x
  <2>3. Goes(r, x)
    BY <1>1, <1>3, <2>2 DEF Goes
  <2> QED BY <1>1, <2>1, <2>2, <2>3 DEF Turn, Inv, TypeOK, redis
<1>4. CASE dup # {}
  <2>1. \E p \in New(r) : \E s \in Requests : codes[<<p, s>>] # "none"
    BY <1>4
  <2>2. locked' \subseteq Packages
    <3>1. locked' = locked \cup {p \in New(r) : \A q \in dup : p > q}
      BY <1>4 DEF CheckCodes
    <3> QED BY <1>2, <3>1 DEF Inv, TypeOK
  <2>3. /\ \E x \in Request \cup {Idle} : Becomes(r, x) /\ Turn(r, x)
        /\ callLabel' \subseteq Packages /\ delivering' \subseteq Packages
    <3>1. CASE y.phase = "plain"
      <4>1. LabelDone(r, TRUE)
        BY <1>4, <3>1 DEF CheckCodes
      <4> QED BY <1>1, <4>1, Labelled DEF Turn
    <3>2. CASE y.phase # "plain"
      <4>1. End(r) /\ UNCHANGED callLabel
        BY <1>4, <3>2 DEF CheckCodes
      <4> QED BY <1>1, <4>1, Ending DEF Turn, Inv, TypeOK
    <3> QED BY <3>1, <3>2
  <2> QED BY <1>1, <2>1, <2>2, <2>3
<1> QED BY <1>3, <1>4

LEMMA CarrierTurns ==
  ASSUME Inv, NEW r \in Requests, Carrier(r)
  PROVE  /\ \E x \in Request \cup {Idle} : Becomes(r, x) /\ Turn(r, x)
         /\ Quiet /\ UNCHANGED <<tables, faults>> /\ labels' \in [Packages -> Nat]
         /\ callLabel' \subseteq Packages /\ delivering' \subseteq Packages
         /\ \A p \in Packages : labels'[p] # labels[p] =>
              p \in req[r].now /\ ~req[r].seen[p].tracked
<1> DEFINE y == req[r]
<1>1. /\ y # Idle /\ y.pc = "carrier" /\ Quiet /\ UNCHANGED <<tables, faults>>
  BY DEF Carrier, At, Quiet, tables
<1>2. PICK ok \in SUBSET y.now :
        /\ labels' = [p \in Packages |-> IF p \in ok /\ ~y.seen[p].tracked
                                         THEN labels[p] + 1 ELSE labels[p]]
        /\ \/ /\ ok # {}
              /\ Becomes(r, [y EXCEPT !.pc = "bill", !.now = ok, !.failed = (ok # y.now)])
              /\ UNCHANGED redis
           \/ ok = {} /\ \E error \in BOOLEAN : LabelDone(r, error)
  BY DEF Carrier
<1>3. /\ labels' \in [Packages -> Nat]
      /\ \A p \in Packages : labels'[p] # labels[p] => p \in y.now /\ ~y.seen[p].tracked
  BY <1>2 DEF Inv, TypeOK
<1>4. CASE \E error \in BOOLEAN : LabelDone(r, error)
  <2>1. PICK error \in BOOLEAN : LabelDone(r, error)
    BY <1>4
  <2> QED BY <1>1, <1>3, <2>1, Labelled DEF Turn
<1> DEFINE x == [y EXCEPT !.pc = "bill", !.now = ok, !.failed = (ok # y.now)]
<1>5. CASE ok # {} /\ Becomes(r, x) /\ UNCHANGED redis
  <2>1. y \in Request /\ ok \in SUBSET Packages
    BY <1>1, Running
  <2>2. x \in Request /\ x.pc = "bill" /\ x.now = ok /\ Keeps(x, y) /\ x.phase = y.phase
    BY <2>1 DEF Request, Steps, Keeps
  <2> HIDE DEF x
  <2>3. Picks(r, x)
    BY <1>1, <1>5, <2>2 DEF Picks
  <2> QED BY <1>1, <1>3, <1>5, <2>2, <2>3 DEF Turn, Inv, TypeOK, redis
<1> QED BY <1>2, <1>4, <1>5

\* Whatever a request becomes has the shape of one.
LEMMA TurnFits ==
  ASSUME Inv, NEW r \in Requests, NEW x \in Request \cup {Idle}, Turn(r, x), x # Idle
  PROVE  Fit(x) /\ Later(x)
<1> DEFINE y == req[r]
<1>1. x \in Request
  OBVIOUS
<1>2. CASE Starts(r, x)
  <2>1. /\ DOMAIN x.seen = x.left
        /\ \A p \in x.left : x.seen[p].status = pkg[p].status
    <3>1. x.left \in SUBSET Packages /\ TypeOK /\ x.seen = Seen(x.left)
      BY <1>1, <1>2, Fields DEF Inv, Starts
    <3> QED BY <3>1, SeenIsRead
  <2>2. \A p \in x.left : /\ x.kind = "cn" => x.seen[p].status # "Created"
                          /\ x.kind # "cn" /\ Certain(x) => x.seen[p].status # "CNPurchased"
    <3>1. x.kind \in {"process", "deliver", "cn"}
      BY <1>1, Fields, ChargingConstants
    <3> QED BY <1>2, <2>1, <3>1 DEF Starts, Certain
  <2> QED BY <1>2, <2>1, <2>2 DEF Starts, Fit, Later, Buying
<1>3. CASE y # Idle /\ ~Starts(r, x)
  <2>1. /\ y \in Request /\ Fit(y) /\ Later(y) /\ y.left \in SUBSET Packages
        /\ y.phase \in {"plain", "tiktok"}
    BY <1>3, Running, Fields
  <2>2. CASE Goes(r, x)
    <3>1. Certain(x) => Certain(y)
      BY <2>2 DEF Goes, Keeps, Certain
    <3> QED BY <2>1, <2>2, <3>1 DEF Goes, Keeps, Fit, Later, Buying
  <2>3. CASE Locks(r, x)
    <3>1. Later(x)
      BY <2>1, <2>3 DEF Locks, Keeps, Later
    <3>2. y.left # {} /\ y.kind = "deliver" /\ y.phase = "plain"
      BY <2>1, <2>3 DEF Locks, Fit
    <3> QED BY <2>1, <2>3, <3>1, <3>2 DEF Locks, Keeps, Fit, Buying, Certain
  <2>4. CASE Looks(r, x)
    <3>1. /\ DOMAIN x.seen = x.left
          /\ \A p \in x.left : x.seen[p].status = pkg[p].status
      <4>1. x.left \in SUBSET Packages /\ TypeOK /\ x.seen = Seen(x.left)
        BY <2>1, <2>4 DEF Inv, Looks
      <4> QED BY <4>1, SeenIsRead
    <3>2. Later(x)
      BY <3>1 DEF Later
    <3>3. y.phase = "plain" /\ Certain(y)
      BY <2>1, <2>4 DEF Looks, Fit, Certain
    <3>4. \A p \in x.left : /\ x.kind = "cn" => x.seen[p].status # "Created"
                            /\ x.kind # "cn" /\ Certain(x) => x.seen[p].status # "CNPurchased"
      BY <2>1, <2>4, <3>1, <3>3 DEF Looks, Fit, Later
    <3>5. x.now = {p \in x.left \ Tiktok : x.seen[p].status = "Created"} /\ x.now # {}
      BY <2>4, <3>1 DEF Looks, Plain
    <3> QED BY <2>1, <2>4, <3>1, <3>2, <3>3, <3>4, <3>5 DEF Looks, Fit
  <2>5. CASE Picks(r, x)
    <3>1. y.phase = "plain" /\ Certain(y)
      BY <2>1, <2>5 DEF Picks, Fit, Certain
    <3> QED BY <2>1, <2>5, <3>1 DEF Picks, Keeps, Fit, Later, Buying
  <2>6. CASE y.pc \notin {"guard", "lock"} /\ Follows(r, y.left \cap Tiktok, x)
    <3>1. Certain(y)
      BY <2>6 DEF Certain
    <3>2. /\ x.pc = "codes" /\ x.phase = "tiktok" /\ x.kind = y.kind /\ x.asked = y.asked
          /\ x.seen = y.seen /\ x.left \subseteq y.left \cap Tiktok /\ \E p \in x.left : x.now = {p}
      BY <2>6 DEF Follows
    <3>3. Later(x)
      BY <2>1, <3>2 DEF Later
    <3>5. \A p \in x.left : /\ x.kind = "cn" => x.seen[p].status # "Created"
                            /\ x.kind # "cn" => x.seen[p].status # "CNPurchased"
      BY <2>1, <3>1, <3>2 DEF Fit
    <3> HIDE DEF y
    <3> QED BY <2>1, <3>2, <3>3, <3>5 DEF Fit, Buying
  <2> QED BY <1>3, <2>2, <2>3, <2>4, <2>5, <2>6 DEF Turn
<1> QED BY <1>2, <1>3 DEF Turn, Goes, Locks, Looks, Picks

LEMMA InvStep ==
  ASSUME Inv, NEW r \in Requests, NEW x \in Request \cup {Idle}, Becomes(r, x),
         pkg' \in [Packages -> PackageRow],
         \A p \in Packages : /\ pkg'[p].tiktok = pkg[p].tiktok
                             /\ pkg'[p].status \in {pkg[p].status, "PendingPickup"},
         codes' \in [Packages \X Requests -> {"none", "temp", "enable"}], balance' \in Int,
         locked' \subseteq Packages, callLabel' \subseteq Packages, delivering' \subseteq Packages,
         faults' \in Nat, paid' \in [Packages -> Nat], labels' \in [Packages -> Nat],
         x # Idle => Fit(x) /\ Later(x)
  PROVE  Inv'
<1>1. TypeOK'
  BY OneRequest DEF Inv, TypeOK
<1>2. Tiktok' = Tiktok
  BY DEF Tiktok
<1>3. ASSUME NEW s \in Requests, req'[s] # Idle
      PROVE  Fit(req[s])' /\ Later(req[s])'
  <2>1. PICK z \in Request : z = req'[s] /\ Fit(z) /\ Later(z)
    <3>1. CASE s = r
      BY <1>3, <3>1, OneRequest DEF Inv
    <3>2. CASE s # r
      BY <1>3, <3>2, OneRequest, Running DEF Inv
    <3> QED BY <3>1, <3>2
  <2>2. z.left \in SUBSET Packages
    BY Fields
  <2>3. Fit(z)'
    BY <1>2, <2>1 DEF Fit, Certain
  <2>4. Later(z)'
    BY <2>1, <2>2 DEF Later
  <2> QED BY <2>1, <2>3, <2>4 DEF Fit, Later, Certain
<1> QED BY <1>1, <1>3 DEF Inv, Busy

\* The steps that write the rows: a new code,
Inserts(r, x) ==
  LET y == req[r] IN
  /\ y # Idle /\ x \in Request /\ Keeps(x, y) /\ x.phase = y.phase /\ x.now = y.now
  /\ y.pc = "insert" /\ x.pc = IF y.phase = "plain" THEN "carrier" ELSE "bill"

LEMMA CreateTurns ==
  ASSUME Inv, NEW r \in Requests, CreatePackageCodes(r)
  PROVE  /\ \E x \in Request \cup {Idle} : Becomes(r, x) /\ Inserts(r, x) /\ Fit(x) /\ Later(x)
         /\ UNCHANGED <<balance, locked, redis, faults, history>>
         /\ pkg' \in [Packages -> PackageRow]
         /\ codes' \in [Packages \X Requests -> {"none", "temp", "enable"}]
         /\ \A p \in Packages :
              IF p \in New(r)
              THEN /\ pkg'[p].code = r /\ pkg'[p].status = pkg[p].status
                   /\ pkg'[p].tracked = pkg[p].tracked /\ pkg'[p].tiktok = pkg[p].tiktok
                   /\ \A s \in Requests : codes'[<<p, s>>] = IF s = r THEN "temp" ELSE codes[<<p, s>>]
              ELSE /\ pkg'[p] = pkg[p]
                   /\ \A s \in Requests : codes'[<<p, s>>] = codes[<<p, s>>]
<1> DEFINE y == req[r]
           pc == IF y.phase = "plain" THEN "carrier" ELSE "bill"
           x == [y EXCEPT !.pc = pc]
<1>1. /\ y # Idle /\ y.pc = "insert" /\ UNCHANGED <<balance, locked, redis, faults, history>>
      /\ Becomes(r, x)
  BY DEF CreatePackageCodes, At, Goto
<1>2. y \in Request /\ Fit(y) /\ Later(y) /\ y.phase \in {"plain", "tiktok"}
  BY <1>1, Running, Fields
<1>3. x \in Request /\ x.pc = pc /\ Keeps(x, y) /\ x.phase = y.phase /\ x.now = y.now
  <2>1. pc \in Steps
    BY DEF Steps
  <2> HIDE DEF pc
  <2> QED BY <1>2, <2>1, GoesOn
<1>4. \A p \in Packages :
        IF p \in New(r)
        THEN /\ pkg'[p].code = r /\ pkg'[p].status = pkg[p].status
             /\ pkg'[p].tracked = pkg[p].tracked /\ pkg'[p].tiktok = pkg[p].tiktok
             /\ pkg'[p] \in PackageRow
        ELSE pkg'[p] = pkg[p]
  BY DEF CreatePackageCodes, Inv, TypeOK, PackageRow
<1>5. pkg' \in [Packages -> PackageRow]
  BY <1>4 DEF CreatePackageCodes, Inv, TypeOK
<1>6. codes' \in [Packages \X Requests -> {"none", "temp", "enable"}]
  BY DEF CreatePackageCodes, Inv, TypeOK
<1>7. \A p \in Packages : \A s \in Requests :
        codes'[<<p, s>>] = IF p \in New(r) /\ s = r THEN "temp" ELSE codes[<<p, s>>]
  BY DEF CreatePackageCodes
<1> HIDE DEF x
<1>8. Inserts(r, x)
  BY <1>1, <1>3 DEF Inserts
<1>9. Fit(x) /\ Later(x)
  BY <1>1, <1>2, <1>3 DEF Fit, Later, Keeps, Buying, Certain
<1> QED BY <1>1, <1>3, <1>4, <1>5, <1>6, <1>7, <1>8, <1>9

\* and the bill.
LEMMA BillTurns ==
  ASSUME Inv, NEW r \in Requests, Bill(r)
  PROVE  /\ \E x \in Request \cup {Idle} :
              Becomes(r, x) /\ Follows(r, (req[r].left \cap Tiktok) \ req[r].now, x)
              /\ (x # Idle => Fit(x) /\ Later(x))
         /\ UNCHANGED <<locked, faults, labels>>
         /\ req[r] # Idle /\ req[r].pc = "bill" /\ balance' = balance - Cardinality(req[r].now)
         /\ callLabel' \subseteq Packages /\ delivering' \subseteq Packages
         /\ pkg' \in [Packages -> PackageRow]
         /\ codes' \in [Packages \X Requests -> {"none", "temp", "enable"}]
         /\ paid' \in [Packages -> Nat]
         /\ \A p \in Packages :
              IF p \in req[r].now
              THEN /\ pkg'[p].status = "PendingPickup" /\ pkg'[p].code = pkg[p].code
                   /\ pkg'[p].tiktok = pkg[p].tiktok /\ paid'[p] = paid[p] + 1
              ELSE pkg'[p] = pkg[p] /\ paid'[p] = paid[p]
         /\ \A p \in Packages : \A s \in Requests :
              codes'[<<p, s>>] = IF <<p, s>> \in Enabled(r) THEN "enable" ELSE codes[<<p, s>>]
<1> DEFINE y == req[r]
           B == y.now
<1>1. /\ y # Idle /\ y.pc = "bill" /\ UNCHANGED <<locked, faults, labels>>
      /\ balance' = balance - Cardinality(B)
  BY DEF Bill, At
<1>2. /\ y \in Request /\ Fit(y) /\ Later(y) /\ y.phase \in {"plain", "tiktok"}
      /\ B \in SUBSET Packages /\ y.left \in SUBSET Packages
  BY <1>1, Running, Fields
<1>3. \A p \in Packages :
        IF p \in B
        THEN /\ pkg'[p].status = "PendingPickup" /\ pkg'[p].code = pkg[p].code
             /\ pkg'[p].tiktok = pkg[p].tiktok /\ paid'[p] = paid[p] + 1
             /\ pkg'[p] \in PackageRow
        ELSE pkg'[p] = pkg[p] /\ paid'[p] = paid[p]
  <2>1. \A p \in Packages : /\ pkg[p] \in PackageRow /\ (y.phase = "plain") \in BOOLEAN
                            /\ paid'[p] = IF p \in B THEN paid[p] + 1 ELSE paid[p]
    BY DEF Bill, Inv, TypeOK
  <2>2. \A p \in Packages :
          pkg'[p] = IF p \in B
                    THEN [pkg[p] EXCEPT !.status = "PendingPickup",
                                        !.tracked = pkg[p].tracked \/ y.phase = "plain"]
                    ELSE pkg[p]
    BY DEF Bill
  <2> HIDE DEF B, y
  <2> QED BY <2>1, <2>2 DEF PackageRow, Status
<1>4. pkg' \in [Packages -> PackageRow]
  BY <1>3 DEF Bill, Inv, TypeOK
<1>5. /\ codes' \in [Packages \X Requests -> {"none", "temp", "enable"}]
      /\ paid' \in [Packages -> Nat]
  <2>1. codes' = [row \in Packages \X Requests |-> IF row \in Enabled(r) THEN "enable" ELSE codes[row]]
    BY DEF Bill
  <2>2. paid' = [p \in Packages |-> IF p \in B THEN paid[p] + 1 ELSE paid[p]]
    BY DEF Bill
  <2> HIDE DEF B
  <2> QED BY <2>1, <2>2 DEF Inv, TypeOK
<1>6. \A p \in Packages : \A s \in Requests :
        codes'[<<p, s>>] = IF <<p, s>> \in Enabled(r) THEN "enable" ELSE codes[<<p, s>>]
  BY DEF Bill
<1>7. /\ \E x \in Request \cup {Idle} :
           Becomes(r, x) /\ Follows(r, (y.left \cap Tiktok) \ B, x)
      /\ callLabel' \subseteq Packages /\ delivering' \subseteq Packages
  <2>1. CASE y.phase = "plain"
    <3>1. PICK error \in BOOLEAN : LabelDone(r, error)
      BY <1>2, <2>1, Fields DEF Bill
    <3>2. (y.left \cap Tiktok) \ B = y.left \cap Tiktok
      BY <1>1, <1>2, <2>1 DEF Fit, Buying
    <3> QED BY <1>1, <3>1, <3>2, Labelled
  <2>2. CASE y.phase = "tiktok"
    <3>1. NextTiktok(r, y.left \ B) /\ UNCHANGED callLabel
      BY <2>2 DEF Bill
    <3>2. (y.left \cap Tiktok) \ B = y.left \ B
      BY <1>2, <2>2 DEF Fit
    <3> QED BY <1>1, <3>1, <3>2, Following DEF Inv, TypeOK
  <2> QED BY <1>2, <2>1, <2>2
<1>8. PICK x \in Request \cup {Idle} : Becomes(r, x) /\ Follows(r, (y.left \cap Tiktok) \ B, x)
  BY <1>7
<1>9. x # Idle => Fit(x) /\ Later(x)
  <2>1. Follows(r, y.left \cap Tiktok, x)
    BY <1>8 DEF Follows
  <2> QED BY <1>1, <2>1, TurnFits DEF Turn
<1> QED BY <1>1, <1>3, <1>4, <1>5, <1>6, <1>7, <1>8, <1>9

LEMMA FailTurns ==
  ASSUME Inv, NEW r \in Requests, Fail(r)
  PROVE  /\ Becomes(r, Idle) /\ req[r] # Idle
         /\ UNCHANGED <<codes, balance, locked, history>> /\ faults' \in Nat
         /\ callLabel' \subseteq Packages /\ delivering' \subseteq Packages
         /\ pkg' \in [Packages -> PackageRow]
         /\ \A p \in Packages :
              /\ pkg'[p].status = pkg[p].status /\ pkg'[p].code = pkg[p].code
              /\ pkg'[p].tiktok = pkg[p].tiktok
              /\ pkg'[p].tracked # pkg[p].tracked =>
                   p \in req[r].now /\ req[r].pc = "bill" /\ req[r].phase = "plain"
<1>1. /\ req[r] # Idle /\ End(r) /\ UNCHANGED <<codes, balance, locked, history>>
  BY DEF Fail
<1>2. faults' \in Nat /\ callLabel' \subseteq Packages
  BY DEF Fail, Inv, TypeOK
<1>3. PICK saved \in {{}, req[r].now} :
        /\ saved # {} => req[r].pc = "bill" /\ req[r].phase = "plain"
        /\ pkg' = [p \in Packages |-> IF p \in saved THEN [pkg[p] EXCEPT !.tracked = TRUE] ELSE pkg[p]]
  BY DEF Fail
<1>4. \A p \in Packages :
        /\ pkg'[p] \in PackageRow
        /\ pkg'[p].status = pkg[p].status /\ pkg'[p].code = pkg[p].code
        /\ pkg'[p].tiktok = pkg[p].tiktok
        /\ pkg'[p].tracked # pkg[p].tracked =>
             p \in req[r].now /\ req[r].pc = "bill" /\ req[r].phase = "plain"
  BY <1>3 DEF Inv, TypeOK, PackageRow
<1>5. pkg' \in [Packages -> PackageRow]
  BY <1>3, <1>4
<1> QED BY <1>1, <1>2, <1>4, <1>5, Ending

\* All the other steps of a request leave the rows and the balance as they are.
Quietly(r, x) ==
  /\ Turn(r, x) /\ UNCHANGED <<pkg, codes, balance, faults, paid>>
  /\ locked' \subseteq Packages /\ callLabel' \subseteq Packages /\ delivering' \subseteq Packages
  /\ labels' \in [Packages -> Nat]
  /\ req[r] # Idle => req[r].pc \notin {"insert", "bill"}
  /\ req[r] # Idle /\ req[r].pc = "funds" /\ x # Idle => Enough(balance, Cardinality(req[r].asked))
  /\ locked' # locked =>
       /\ req[r] # Idle /\ req[r].pc = "codes"
       /\ \E p \in New(r) : \E s \in Requests : codes[<<p, s>>] # "none"
  /\ \A p \in Packages : labels'[p] # labels[p] =>
       /\ req[r] # Idle /\ req[r].pc = "carrier"
       /\ p \in req[r].now /\ ~req[r].seen[p].tracked

LEMMA QuietTurns ==
  ASSUME Inv, NEW r \in Requests,
         \/ \E kind \in Kinds, S \in (SUBSET Packages) \ {{}} : Start(r, kind, S)
         \/ Guard(r) \/ Lock(r) \/ Funds(r) \/ Mark(r) \/ Label(r) \/ CheckCodes(r) \/ Carrier(r)
  PROVE  \E x \in Request \cup {Idle} : Becomes(r, x) /\ Quietly(r, x)
<1> USE DEF Quiet, tables, redis
<1>1. TypeOK
  BY DEF Inv
<1>2. /\ locked \subseteq Packages /\ callLabel \subseteq Packages /\ delivering \subseteq Packages
      /\ labels \in [Packages -> Nat]
  BY <1>1 DEF TypeOK
<1>3. CASE \E kind \in Kinds, S \in (SUBSET Packages) \ {{}} : Start(r, kind, S)
  <2>1. PICK kind \in Kinds, S \in (SUBSET Packages) \ {{}} : Start(r, kind, S)
    BY <1>3
  <2>2. req[r] = Idle
    BY <2>1 DEF Start
  <2>3. UNCHANGED <<pkg, codes, balance, locked, faults, paid, labels, callLabel, delivering>>
    BY <2>1, StartTurns
  <2>4. PICK x \in Request \cup {Idle} : Becomes(r, x) /\ Starts(r, x)
    BY <2>1, StartTurns
  <2>5. Turn(r, x)
    BY <2>4 DEF Turn
  <2> QED BY <1>2, <2>2, <2>3, <2>4, <2>5 DEF Quietly
<1>4. CASE Guard(r)
  BY <1>2, <1>4, GuardTurns DEF Quietly, Guard, At
<1>5. CASE Lock(r)
  BY <1>2, <1>5, LockTurns DEF Quietly, Lock, At
<1>6. CASE Funds(r)
  BY <1>2, <1>6, FundsTurns DEF Quietly, Funds, At
<1>7. CASE Mark(r)
  BY <1>2, <1>7, MarkTurns DEF Quietly, Mark, At
<1>8. CASE Label(r)
  BY <1>2, <1>8, LabelTurns DEF Quietly, Label, At
<1>9. CASE CheckCodes(r)
  BY <1>2, <1>9, CheckCodesTurns DEF Quietly, CheckCodes, At
<1>10. CASE Carrier(r)
  BY <1>2, <1>10, CarrierTurns DEF Quietly, Carrier, At
<1> QED BY <1>3, <1>4, <1>5, <1>6, <1>7, <1>8, <1>9, <1>10

LEMMA Cases ==
  ASSUME Next
  PROVE  \/ \E r \in Requests :
              \/ \E kind \in Kinds, S \in (SUBSET Packages) \ {{}} : Start(r, kind, S)
              \/ Guard(r) \/ Lock(r) \/ Funds(r) \/ Mark(r) \/ Label(r) \/ CheckCodes(r)
              \/ Carrier(r)
         \/ \E r \in Requests : CreatePackageCodes(r)
         \/ \E r \in Requests : Bill(r)
         \/ \E r \in Requests : Fail(r)
         \/ Crash
         \/ \E p \in Packages : Expire(p)
BY DEF Next, Step

-----------------------------------------------------------------------------
(* Types, and the shape of the requests. *)

LEMMA InitInv == Init => Inv
<1> SUFFICES ASSUME Init PROVE Inv
  OBVIOUS
<1>1. Busy = {}
  BY DEF Init, Busy
<1>2. TypeOK
  <2>1. PICK w \in Worlds, status \in [Packages -> {"Created", "CNPurchased"}] :
          /\ pkg = [p \in Packages |-> [status |-> status[p], code |-> NoCode, tracked |-> FALSE,
                                        cn |-> p \in w.china, tiktok |-> p \in w.tiktok]]
          /\ balance = w.deposit /\ faults = w.faults
    BY DEF Init
  <2>2. w.deposit \in Nat /\ w.faults \in Nat
    BY ChargingConstants
  <2>3. pkg \in [Packages -> PackageRow]
    BY <2>1 DEF PackageRow, Status
  <2>4. /\ codes = [row \in Packages \X Requests |-> "none"]
        /\ req = [r \in Requests |-> Idle]
        /\ paid = [p \in Packages |-> 0] /\ labels = [p \in Packages |-> 0]
        /\ locked = {} /\ callLabel = {} /\ delivering = {} /\ overlapped = {} /\ crowded = FALSE
    BY DEF Init
  <2>5. codes \in [Packages \X Requests -> {"none", "temp", "enable"}]
    BY <2>4
  <2>6. req \in [Requests -> Request \cup {Idle}]
    BY <2>4
  <2>7. paid \in [Packages -> Nat] /\ labels \in [Packages -> Nat]
    BY <2>4
  <2>8. balance \in Int /\ faults \in Nat
    BY <2>1, <2>2
  <2>9. /\ locked \subseteq Packages /\ callLabel \subseteq Packages /\ delivering \subseteq Packages
        /\ overlapped \subseteq Packages /\ crowded \in BOOLEAN
    BY <2>4
  <2> QED BY <2>3, <2>5, <2>6, <2>7, <2>8, <2>9 DEF TypeOK
<1> QED BY <1>1, <1>2 DEF Inv

LEMMA NextInv == Inv /\ [Next]_vars => Inv'
<1> SUFFICES ASSUME Inv, [Next]_vars PROVE Inv'
  OBVIOUS
<1>1. /\ TypeOK
      /\ \A p \in Packages : pkg[p].status \in Status
  BY DEF Inv, TypeOK, PackageRow
<1>2. CASE \E r \in Requests :
             \/ \E kind \in Kinds, S \in (SUBSET Packages) \ {{}} : Start(r, kind, S)
             \/ Guard(r) \/ Lock(r) \/ Funds(r) \/ Mark(r) \/ Label(r) \/ CheckCodes(r)
             \/ Carrier(r)
  <2>1. PICK r \in Requests, x \in Request \cup {Idle} : Becomes(r, x) /\ Quietly(r, x)
    BY <1>2, QuietTurns
  <2>2. x # Idle => Fit(x) /\ Later(x)
    BY <2>1, TurnFits DEF Quietly
  <2> QED BY <1>1, <2>1, <2>2, InvStep DEF Quietly, TypeOK
<1>3. CASE \E r \in Requests : CreatePackageCodes(r)
  <2>1. PICK r \in Requests : CreatePackageCodes(r)
    BY <1>3
  <2>2. PICK x \in Request \cup {Idle} : Becomes(r, x) /\ Fit(x) /\ Later(x)
    BY <2>1, CreateTurns
  <2>3. UNCHANGED <<balance, locked, redis, faults, history>>
    BY <2>1, CreateTurns
  <2>4. /\ \A p \in Packages : pkg'[p].tiktok = pkg[p].tiktok /\ pkg'[p].status = pkg[p].status
        /\ pkg' \in [Packages -> PackageRow]
        /\ codes' \in [Packages \X Requests -> {"none", "temp", "enable"}]
    BY <2>1, CreateTurns
  <2> QED BY <1>1, <2>2, <2>3, <2>4, InvStep DEF TypeOK, redis, history
<1>4. CASE \E r \in Requests : Bill(r)
  <2>1. PICK r \in Requests : Bill(r)
    BY <1>4
  <2>2. PICK x \in Request \cup {Idle} : Becomes(r, x) /\ (x # Idle => Fit(x) /\ Later(x))
    BY <2>1, BillTurns
  <2>3. /\ UNCHANGED <<locked, faults, labels>> /\ balance' = balance - Cardinality(req[r].now)
        /\ req[r] # Idle /\ callLabel' \subseteq Packages /\ delivering' \subseteq Packages
        /\ paid' \in [Packages -> Nat]
    BY <2>1, BillTurns
  <2>4. /\ \A p \in Packages : pkg'[p].tiktok = pkg[p].tiktok
                               /\ pkg'[p].status \in {pkg[p].status, "PendingPickup"}
        /\ pkg' \in [Packages -> PackageRow]
        /\ codes' \in [Packages \X Requests -> {"none", "temp", "enable"}]
    BY <2>1, BillTurns
  <2>5. balance' \in Int
    <3>1. req[r].now \in SUBSET Packages
      BY <2>3, Running
    <3>2. Cardinality(req[r].now) \in Nat
      BY <3>1, ChargingConstants, FS_Subset, FS_CardinalityType
    <3> QED BY <1>1, <2>3, <3>2 DEF TypeOK
  <2> QED BY <1>1, <2>2, <2>3, <2>4, <2>5, InvStep DEF TypeOK
<1>5. CASE \E r \in Requests : Fail(r)
  <2>1. PICK r \in Requests : Fail(r)
    BY <1>5
  <2>2. /\ Becomes(r, Idle) /\ req[r] # Idle /\ UNCHANGED <<codes, balance, locked, history>>
        /\ faults' \in Nat /\ callLabel' \subseteq Packages /\ delivering' \subseteq Packages
        /\ pkg' \in [Packages -> PackageRow]
        /\ \A p \in Packages : pkg'[p].tiktok = pkg[p].tiktok /\ pkg'[p].status = pkg[p].status
    BY <2>1, FailTurns
  <2> QED BY <1>1, <2>2, InvStep DEF TypeOK, history
<1>6. CASE Crash
  <2>1. Busy' = {}
    BY <1>6 DEF Crash, Busy
  <2>2. TypeOK'
    BY <1>1, <1>6 DEF TypeOK, Crash, redis, history, overlaps
  <2> QED BY <2>1, <2>2 DEF Inv
<1>7. CASE \/ \E p \in Packages : Expire(p)
           \/ UNCHANGED vars
  <2>1. /\ UNCHANGED <<pkg, codes, balance, locked, req, faults, paid, labels, overlapped, crowded>>
        /\ callLabel' = callLabel /\ delivering' \subseteq delivering
    BY <1>7 DEF Expire, vars, tables, redis, history, overlaps
  <2>2. TypeOK'
    BY <1>1, <2>1 DEF TypeOK
  <2>3. Tiktok' = Tiktok /\ Busy' = Busy
    BY <2>1 DEF Tiktok, Busy
  <2>4. ASSUME NEW r \in Busy PROVE Fit(req[r])' /\ Later(req[r])'
    <3>1. Fit(req[r]) /\ Later(req[r]) /\ UNCHANGED <<req, pkg>>
      BY <2>1, <2>4 DEF Inv
    <3> QED BY <2>3, <3>1 DEF Fit, Later, Certain
  <2> QED BY <2>2, <2>3, <2>4 DEF Inv
<1> QED BY <1>2, <1>3, <1>4, <1>5, <1>6, <1>7, Cases DEF vars

\* Every variable has its type in every reachable state.
THEOREM TypeCorrect == Spec => []TypeOK
<1>1. Spec => []Inv
  BY InitInv, NextInv, PTL DEF Spec
<1>2. Inv => TypeOK
  BY DEF Inv
<1> QED BY <1>1, <1>2, PTL

-----------------------------------------------------------------------------
(* Who was in whose way. *)

LEMMA HoldStep ==
  ASSUME Inv, HoldInv, NEW r \in Requests, NEW x \in Request \cup {Idle}, Becomes(r, x),
         Tiktok' = Tiktok
  PROVE  HoldInv'
<1>1. /\ req' \in [Requests -> Request \cup {Idle}] /\ req'[r] = x
      /\ \A s \in Requests : s # r => req'[s] = req[s]
      /\ overlapped \subseteq overlapped' /\ (crowded => crowded')
  BY OneRequest DEF Inv
<1>2. ASSUME NEW s \in Requests PROVE Holding(req[s])' = Holding(req'[s])
  BY DEF Holding
<1>3. ASSUME NEW s \in Requests, s # r, x # Idle, req[s] # Idle
      PROVE  Holding(x) \cap Holding(req[s]) \subseteq overlapped' /\ crowded'
  BY <1>3 DEF Becomes
<1>4. ASSUME NEW s \in Requests, NEW t \in Requests, s # t, req'[s] # Idle, req'[t] # Idle
      PROVE  Holding(req'[s]) \cap Holding(req'[t]) \subseteq overlapped' /\ crowded'
  <2>1. CASE s = r
    BY <1>1, <1>3, <1>4, <2>1
  <2>2. CASE t = r
    BY <1>1, <1>3, <1>4, <2>2
  <2>3. CASE s # r /\ t # r
    BY <1>1, <1>4, <2>3 DEF HoldInv, Busy
  <2> QED BY <2>1, <2>2, <2>3
<1>5. ~crowded' => overlapped' = {}
  <2> SUFFICES ASSUME ~crowded' PROVE overlapped' = {}
    OBVIOUS
  <2>1. overlapped = {}
    BY <1>1 DEF HoldInv
  <2>2. \A s \in Requests \ {r} : x = Idle \/ req[s] = Idle
    BY DEF Becomes
  <2>3. \A s \in Requests \ {r} : Holding(x) \cap Holding(req[s]) = {}
    BY <2>2 DEF Holding
  <2> QED BY <2>1, <2>3 DEF Becomes
<1> QED BY <1>2, <1>4, <1>5 DEF HoldInv, Busy

LEMMA InitHold == Init => HoldInv
BY DEF Init, HoldInv, Busy

\* No step changes whether a package brings its own label.
LEMMA SameTiktok == Inv /\ [Next]_vars => Tiktok' = Tiktok
<1> SUFFICES ASSUME Inv, [Next]_vars PROVE Tiktok' = Tiktok
  OBVIOUS
<1>1. \A p \in Packages : pkg'[p].tiktok = pkg[p].tiktok
  <2>1. CASE \/ \E r \in Requests :
                \/ \E kind \in Kinds, S \in (SUBSET Packages) \ {{}} : Start(r, kind, S)
                \/ Guard(r) \/ Lock(r) \/ Funds(r) \/ Mark(r) \/ Label(r) \/ CheckCodes(r)
                \/ Carrier(r)
    BY <2>1, QuietTurns DEF Quietly
  <2>2. CASE \E r \in Requests : CreatePackageCodes(r)
    BY <2>2, CreateTurns
  <2>3. CASE \E r \in Requests : Bill(r)
    BY <2>3, BillTurns
  <2>4. CASE \E r \in Requests : Fail(r)
    BY <2>4, FailTurns
  <2>5. CASE Crash \/ (\E p \in Packages : Expire(p)) \/ UNCHANGED vars
    BY <2>5 DEF Crash, Expire, vars, tables
  <2> QED BY <2>1, <2>2, <2>3, <2>4, <2>5, Cases
<1> QED BY <1>1 DEF Tiktok

\* Every step is one request's, or leaves those that run as they are, or stops them all.
LEMMA OneTurn ==
  ASSUME Inv, [Next]_vars
  PROVE  \/ \E r \in Requests, x \in Request \cup {Idle} : Becomes(r, x)
         \/ UNCHANGED <<req, overlapped, crowded, pkg, codes, balance, locked, paid, labels>>
         \/ Crash
<1>1. CASE \E r \in Requests :
             \/ \E kind \in Kinds, S \in (SUBSET Packages) \ {{}} : Start(r, kind, S)
             \/ Guard(r) \/ Lock(r) \/ Funds(r) \/ Mark(r) \/ Label(r) \/ CheckCodes(r)
             \/ Carrier(r)
  BY <1>1, QuietTurns
<1>2. CASE \E r \in Requests : CreatePackageCodes(r)
  BY <1>2, CreateTurns
<1>3. CASE \E r \in Requests : Bill(r)
  BY <1>3, BillTurns
<1>4. CASE \E r \in Requests : Fail(r)
  BY <1>4, FailTurns
<1>5. CASE (\E p \in Packages : Expire(p)) \/ UNCHANGED vars
  BY <1>5 DEF Expire, vars, tables, history, overlaps
<1> QED BY <1>1, <1>2, <1>3, <1>4, <1>5, Cases

LEMMA NextHold == Inv /\ HoldInv /\ [Next]_vars => HoldInv'
<1> SUFFICES ASSUME Inv, HoldInv, [Next]_vars PROVE HoldInv'
  OBVIOUS
<1>1. Tiktok' = Tiktok
  BY SameTiktok
<1>2. CASE \E r \in Requests, x \in Request \cup {Idle} : Becomes(r, x)
  BY <1>1, <1>2, HoldStep
<1>3. CASE UNCHANGED <<req, overlapped, crowded, pkg>>
  BY <1>1, <1>3 DEF HoldInv, Holding, Busy
<1>4. CASE Crash
  BY <1>4 DEF HoldInv, Busy, Crash, overlaps
<1> QED BY <1>2, <1>3, <1>4, OneTurn

-----------------------------------------------------------------------------
(* Charged and labelled once. *)

\* What a request is about to bill, it holds.
LEMMA NowIsHeld ==
  ASSUME Inv, NEW r \in Requests, req[r] # Idle, req[r].pc \in Buying
  PROVE  req[r].now \subseteq Holding(req[r])
<1>1. /\ Fit(req[r]) /\ req[r].phase \in {"plain", "tiktok"}
  BY Running, Fields
<1> QED BY <1>1 DEF Holding, Fit, Buying

LEMMA TurnUnbilled ==
  ASSUME Inv, BillInv, NEW r \in Requests, NEW x \in Request, Turn(r, x) \/ Inserts(r, x)
  PROVE  Unbilled(x)
<1> DEFINE y == req[r]
<1>0. x # Idle
  BY IdleIsNoRequest
<1>1. CASE Starts(r, x)
  <2>1. \A p \in x.left : x.seen[p].status = pkg[p].status
    <3>1. x.left \in SUBSET Packages /\ TypeOK /\ x.seen = Seen(x.left)
      BY <1>1, Fields DEF Inv, Starts
    <3> QED BY <3>1, SeenIsRead
  <2>2. x.kind \in {"process", "deliver", "cn"} /\ x.pc = "guard" /\ x.phase = "plain"
    BY <1>1, Fields, ChargingConstants DEF Starts
  <2>3. Certain(x) => \A p \in x.left : pkg[p].status # "PendingPickup"
    BY <1>1, <2>2 DEF Starts, Certain
  <2> QED BY <1>0, <2>1, <2>2, <2>3 DEF Unbilled, Holding
<1>2. CASE y # Idle /\ ~Starts(r, x)
  <2>1. /\ y \in Request /\ Fit(y) /\ Later(y) /\ y.left \in SUBSET Packages
        /\ y.phase \in {"plain", "tiktok"} /\ x.phase \in {"plain", "tiktok"}
    BY <1>2, Running, Fields
  <2>2. Unbilled(y)
    BY <1>2 DEF BillInv, Busy
  <2> HIDE DEF y
  <2>3. CASE Goes(r, x) \/ Inserts(r, x)
    <3>1. Holding(x) = Holding(y)
      BY <1>0, <1>2, <2>3 DEF Goes, Inserts, Keeps, Holding, y
    <3>2. Certain(x) => Certain(y)
      BY <2>3 DEF Goes, Inserts, Keeps, Certain, y
    <3>3. x.pc \in {"codes", "insert", "carrier"} => y.pc \in {"codes", "insert", "carrier"}
      BY <2>3 DEF Goes, Inserts, y
    <3>4. x.left = y.left /\ x.seen = y.seen /\ x.phase = y.phase /\ x.now = y.now
      BY <2>3 DEF Goes, Inserts, Keeps, y
    <3> QED BY <2>2, <3>1, <3>2, <3>3, <3>4 DEF Unbilled
  <2>4. CASE Locks(r, x)
    <3>1. /\ x.left = y.left /\ x.seen = y.seen /\ y.pc = "lock" /\ y.phase = "plain"
          /\ \A p \in y.left : y.seen[p].status = "Created"
          /\ x.phase = "tiktok" \/ (x.phase = "plain" /\ x.pc = "label")
          /\ x.phase = "tiktok" => x.left \subseteq Tiktok
      BY <2>1, <2>4 DEF Locks, Keeps, Fit, y
    <3>2. x.left \cap Tiktok \subseteq Holding(y) /\ Holding(x) \subseteq x.left \cap Tiktok
      BY <1>0, <1>2, <3>1 DEF Holding
    <3> QED BY <2>2, <3>1, <3>2 DEF Unbilled
  <2>5. CASE Looks(r, x)
    <3>1. \A p \in x.left : /\ x.seen[p].status = pkg[p].status
                            /\ x.seen[p].tracked = pkg[p].tracked
      <4>1. x.left \in SUBSET Packages /\ TypeOK /\ x.seen = Seen(x.left)
        BY <2>1, <2>5 DEF Inv, Looks, y
      <4>2. \A p \in x.left : /\ Seen(x.left)[p].status = pkg[p].status
                              /\ Seen(x.left)[p].tracked = pkg[p].tracked
        BY <4>1, SeenIsRead
      <4> QED BY <4>1, <4>2
    <3>2. /\ y.phase = "plain" /\ x.phase = "plain" /\ y.pc = "label" /\ x.pc = "codes"
          /\ x.left = y.left
          /\ x.now \subseteq x.left /\ \A p \in x.now : pkg[p].status = "Created"
      BY <2>1, <2>5 DEF Looks, Fit, Plain, y
    <3>3. \A p \in Packages \ overlapped : p \in y.left \cap Tiktok => pkg[p].status # "PendingPickup"
      BY <1>2, <2>2, <3>2 DEF Unbilled, Holding, Certain
    <3>4. \A p \in Packages : p \in Holding(x) => pkg[p].status # "PendingPickup"
      BY <1>0, <3>1, <3>2 DEF Holding
    <3> QED BY <3>1, <3>2, <3>3, <3>4 DEF Unbilled
  <2>6. CASE Picks(r, x)
    <3>1. Holding(x) \subseteq Holding(y)
      BY <1>0, <1>2, <2>6 DEF Picks, Keeps, Holding, y
    <3>2. Certain(y)
      BY <2>6 DEF Picks, Certain, y
    <3>3. x.left = y.left /\ x.seen = y.seen /\ x.pc = "bill"
      BY <2>6 DEF Picks, Keeps, y
    <3> QED BY <2>2, <3>1, <3>2, <3>3 DEF Unbilled
  <2>7. CASE y.pc \notin {"guard", "lock"} /\ Follows(r, y.left \cap Tiktok, x)
    <3>1. /\ x.phase = "tiktok" /\ x.seen = y.seen /\ x.left \subseteq y.left \cap Tiktok
      BY <1>0, <2>7 DEF Follows, y
    <3>2. \A p \in Packages \ overlapped :
            p \in x.left => y.seen[p].status # "PendingPickup"
      BY <2>2, <2>7, <3>1 DEF Unbilled, Certain
    <3>3. \A p \in Packages \ overlapped : p \in x.left => p \in Holding(y)
      BY <1>2, <2>1, <3>1, <3>2 DEF Holding
    <3>4. Holding(x) = x.left
      BY <1>0, <3>1 DEF Holding
    <3> QED BY <2>2, <3>1, <3>2, <3>3, <3>4 DEF Unbilled
  <2> QED BY <1>0, <1>2, <2>3, <2>4, <2>5, <2>6, <2>7 DEF Turn, y
<1> QED BY <1>0, <1>1, <1>2 DEF Turn, Goes, Locks, Looks, Picks, Inserts

\* A step that writes only what its request holds disturbs no other.
LEMMA BillStep ==
  ASSUME Inv, HoldInv, BillInv, NEW r \in Requests, NEW x \in Request \cup {Idle}, Becomes(r, x),
         Tiktok' = Tiktok, x # Idle => Unbilled(x),
         \A p \in Packages :
           pkg'[p].status # pkg[p].status \/ pkg'[p].tracked # pkg[p].tracked =>
             req[r] # Idle /\ p \in Holding(req[r]) /\ (x # Idle => p \notin Holding(x)),
         \A p \in Packages \ overlapped : paid'[p] = IF pkg'[p].status = "PendingPickup" THEN 1 ELSE 0
  PROVE  BillInv'
<1>1. /\ req' \in [Requests -> Request \cup {Idle}] /\ req'[r] = x
      /\ \A s \in Requests : s # r => req'[s] = req[s]
      /\ overlapped \subseteq overlapped'
  BY OneRequest DEF Inv
<1>2. ASSUME NEW s \in Requests, req'[s] # Idle
      PROVE  Unbilled(req[s])'
  <2>1. PICK z \in Request : z = req'[s]
    BY <1>1, <1>2
  <2>2. z # Idle /\ Unbilled(z)
    BY <1>1, <1>2, <2>1 DEF BillInv, Busy
  <2>3. \A p \in Packages \ overlapped' : p \in Holding(z) =>
          pkg'[p].status = pkg[p].status /\ pkg'[p].tracked = pkg[p].tracked
    <3>1. CASE s = r
      BY <1>1, <2>1, <2>2, <3>1
    <3>2. CASE s # r
      BY <1>1, <1>2, <2>1, <2>2, <3>2 DEF HoldInv, Busy
    <3> QED BY <3>1, <3>2
  <2>4. x.phase = x.phase /\ z.phase \in {"plain", "tiktok"} /\ Holding(z)' = Holding(z)
    BY Fields DEF Holding
  <2>5. \A p \in Packages :
          z.phase = "plain" /\ z.pc \in {"codes", "insert", "carrier"} /\ p \in z.now => p \in Holding(z)
    BY <2>2 DEF Holding
  <2>6. Unbilled(z)'
    BY <1>1, <2>2, <2>3, <2>4, <2>5 DEF Unbilled, Certain
  <2> QED BY <2>1, <2>6 DEF Unbilled, Certain, Holding
<1>3. \A p \in Packages \ overlapped' :
        paid'[p] = IF pkg'[p].status = "PendingPickup" THEN 1 ELSE 0
  BY <1>1
<1> QED BY <1>2, <1>3 DEF BillInv, Busy

LEMMA InitBill == Init => BillInv
BY DEF Init, BillInv, Busy

LEMMA NextBill == Inv /\ HoldInv /\ BillInv /\ [Next]_vars => BillInv'
<1> SUFFICES ASSUME Inv, HoldInv, BillInv, [Next]_vars PROVE BillInv'
  OBVIOUS
<1>1. Tiktok' = Tiktok
  BY SameTiktok
<1>2. \A p \in Packages \ overlapped : paid[p] = IF pkg[p].status = "PendingPickup" THEN 1 ELSE 0
  BY DEF BillInv
<1>3. CASE \E r \in Requests :
             \/ \E kind \in Kinds, S \in (SUBSET Packages) \ {{}} : Start(r, kind, S)
             \/ Guard(r) \/ Lock(r) \/ Funds(r) \/ Mark(r) \/ Label(r) \/ CheckCodes(r)
             \/ Carrier(r)
  <2>1. PICK r \in Requests, x \in Request \cup {Idle} : Becomes(r, x) /\ Quietly(r, x)
    BY <1>3, QuietTurns
  <2>2. x # Idle => Unbilled(x)
    BY <2>1, TurnUnbilled DEF Quietly
  <2> QED BY <1>1, <1>2, <2>1, <2>2, BillStep DEF Quietly
<1>4. CASE \E r \in Requests : CreatePackageCodes(r)
  <2>1. PICK r \in Requests : CreatePackageCodes(r)
    BY <1>4
  <2>2. PICK x \in Request \cup {Idle} : Becomes(r, x) /\ Inserts(r, x)
    BY <2>1, CreateTurns
  <2>3. x # Idle => Unbilled(x)
    BY <2>2, TurnUnbilled
  <2>4. /\ paid' = paid
        /\ \A p \in Packages : pkg'[p].status = pkg[p].status /\ pkg'[p].tracked = pkg[p].tracked
    BY <2>1, CreateTurns DEF history
  <2> QED BY <1>1, <1>2, <2>2, <2>3, <2>4, BillStep
<1>5. CASE \E r \in Requests : Bill(r)
  <2>1. PICK r \in Requests : Bill(r)
    BY <1>5
  <2>2. PICK x \in Request \cup {Idle} :
          Becomes(r, x) /\ Follows(r, (req[r].left \cap Tiktok) \ req[r].now, x)
    BY <2>1, BillTurns
  <2>3. /\ req[r] # Idle /\ req[r].pc = "bill"
        /\ \A p \in Packages :
             IF p \in req[r].now THEN pkg'[p].status = "PendingPickup" /\ paid'[p] = paid[p] + 1
             ELSE pkg'[p] = pkg[p] /\ paid'[p] = paid[p]
    BY <2>1, BillTurns
  <2>4. Follows(r, req[r].left \cap Tiktok, x)
    BY <2>2 DEF Follows
  <2>5. x # Idle => Unbilled(x)
    BY <2>3, <2>4, TurnUnbilled DEF Turn
  <2>6. req[r].now \subseteq Holding(req[r])
    BY <2>3, NowIsHeld DEF Buying
  <2>7. x # Idle => Holding(x) \cap req[r].now = {}
    BY <2>2 DEF Follows, Holding
  <2>8. \A p \in Packages \ overlapped : p \in req[r].now => paid[p] = 0
    BY <1>2, <2>3, <2>6 DEF BillInv, Unbilled, Busy
  <2>9. \A p \in Packages \ overlapped : paid'[p] = IF pkg'[p].status = "PendingPickup" THEN 1 ELSE 0
    BY <1>2, <2>3, <2>8
  <2> QED BY <1>1, <2>2, <2>3, <2>5, <2>6, <2>7, <2>9, BillStep
<1>6. CASE \E r \in Requests : Fail(r)
  <2>1. PICK r \in Requests : Fail(r)
    BY <1>6
  <2>2. /\ Becomes(r, Idle) /\ req[r] # Idle /\ paid' = paid
        /\ \A p \in Packages :
              /\ pkg'[p].status = pkg[p].status
              /\ pkg'[p].tracked # pkg[p].tracked => p \in req[r].now /\ req[r].pc = "bill"
    BY <2>1, FailTurns DEF history
  <2>3. req[r].pc = "bill" => req[r].now \subseteq Holding(req[r])
    BY <2>2, NowIsHeld DEF Buying
  <2> QED BY <1>1, <1>2, <2>2, <2>3, BillStep
<1>7. CASE Crash
  BY <1>7, <1>2 DEF BillInv, Busy, Crash, overlaps, history
<1>8. CASE (\E p \in Packages : Expire(p)) \/ UNCHANGED vars
  BY <1>1, <1>8 DEF Expire, vars, tables, history, overlaps, BillInv, Busy, Unbilled, Holding, Certain
<1> QED BY <1>3, <1>4, <1>5, <1>6, <1>7, <1>8, Cases

\* A package that has a tracking row buys no second label, however often billing it
\* failed and was tried again: what CreateLabelHandler read of it before it called the
\* carrier is what there is.
THEOREM LabelledOnceHolds == Spec => LabelledOnce
<1>1. Init => Inv /\ HoldInv /\ BillInv
  BY InitInv, InitHold, InitBill
<1>2. Inv /\ HoldInv /\ BillInv /\ [Next]_vars => (Inv /\ HoldInv /\ BillInv)'
  BY NextInv, NextHold, NextBill
<1>3. Inv /\ BillInv /\ [Next]_vars =>
        [\A p \in Packages \ overlapped' : pkg[p].tracked => labels'[p] = labels[p]]_vars
  <2> SUFFICES ASSUME Inv, BillInv, [Next]_vars, NEW p \in Packages \ overlapped', pkg[p].tracked
               PROVE  labels'[p] = labels[p]
    OBVIOUS
  <2>1. CASE \E r \in Requests :
               \/ \E kind \in Kinds, S \in (SUBSET Packages) \ {{}} : Start(r, kind, S)
               \/ Guard(r) \/ Lock(r) \/ Funds(r) \/ Mark(r) \/ Label(r) \/ CheckCodes(r)
               \/ Carrier(r)
    <3>1. PICK r \in Requests, x \in Request \cup {Idle} : Becomes(r, x) /\ Quietly(r, x)
      BY <2>1, QuietTurns
    <3> SUFFICES ASSUME labels'[p] # labels[p] PROVE FALSE
      OBVIOUS
    <3>2. req[r] # Idle /\ req[r].pc = "carrier" /\ p \in req[r].now /\ ~req[r].seen[p].tracked
      BY <3>1 DEF Quietly
    <3>3. req[r].phase = "plain"
      BY <3>2, Running, Fields DEF Fit
    <3>4. p \notin overlapped
      BY <3>1 DEF Becomes
    <3> QED BY <3>2, <3>3, <3>4 DEF BillInv, Unbilled, Busy
  <2>2. CASE \E r \in Requests : CreatePackageCodes(r)
    BY <2>2, CreateTurns DEF history
  <2>3. CASE \E r \in Requests : Bill(r)
    BY <2>3, BillTurns
  <2>4. CASE \E r \in Requests : Fail(r)
    BY <2>4, FailTurns DEF history
  <2>5. CASE Crash \/ (\E q \in Packages : Expire(q)) \/ UNCHANGED vars
    BY <2>5 DEF Crash, Expire, vars, history
  <2> QED BY <2>1, <2>2, <2>3, <2>4, <2>5, Cases
<1> QED BY <1>1, <1>2, <1>3, PTL DEF Spec, LabelledOnce

-----------------------------------------------------------------------------
(* The code of a package that is charged is enabled. *)

\* No two packages of a list have the same place in it.
LEMMA Places ==
  ASSUME NEW S \in SUBSET Packages, NEW p \in S, NEW q \in S, Before(S, p) = Before(S, q)
  PROVE  p = q
<1>1. IsFiniteSet(S) /\ S \subseteq Nat
  BY ChargingConstants, FS_Subset
<1>2. ASSUME NEW a \in S, NEW b \in S, a > b, Before(S, a) = Before(S, b) PROVE FALSE
  <2> DEFINE A == {c \in S : c > a}
             B == {c \in S : c > b}
  <2>1. A \subseteq B
    <3>1. \A c \in S : c \in Nat /\ a \in Nat /\ b \in Nat
      BY <1>1
    <3>2. \A c \in S : c > a => c > b
      BY <1>2, <3>1
    <3> QED BY <3>2
  <2>2. IsFiniteSet(B)
    BY <1>1, FS_Subset
  <2>3. a \in B /\ a \notin A
    <3>1. a \in Nat /\ ~(a > a)
      BY <1>1
    <3> QED BY <1>2, <3>1
  <2>4. Cardinality(A) = Cardinality(B)
    BY <1>2 DEF Before
  <2> HIDE DEF A, B
  <2>5. B = A
    BY <2>1, <2>2, <2>4, FS_Subset
  <2> QED BY <2>3, <2>5
<1>3. p > q \/ q > p \/ p = q
  BY <1>1
<1> QED BY <1>2, <1>3

\* What a request reads while nobody was in anybody's way.
LEMMA ReadsCodes ==
  ASSUME Inv, CodeInv, overlapped = {}, NEW x \in Request, x.seen = Seen(x.left)
  PROVE  \A p \in x.left :
           /\ x.seen[p].status = pkg[p].status
           /\ pkg[p].status # "PendingPickup" => CodeKnown(x, p)
           /\ x.seen[p].status = "PendingPickup" => ~x.seen[p].temp
<1>1. x.left \in SUBSET Packages /\ TypeOK /\ x.seen = Seen(x.left)
  BY Fields DEF Inv
<1>2. \A p \in x.left :
        /\ Seen(x.left)[p].status = pkg[p].status /\ Seen(x.left)[p].code = pkg[p].code
        /\ Seen(x.left)[p].temp <=> pkg[p].code # NoCode /\ codes[<<p, pkg[p].code>>] = "temp"
  BY <1>1, SeenIsRead
<1>3. \A p \in Packages : pkg[p].code \in Requests \cup {NoCode}
  BY <1>1 DEF TypeOK, PackageRow
<1>4. ASSUME NEW p \in x.left, pkg[p].status = "PendingPickup" PROVE ~x.seen[p].temp
  <2>1. codes[<<p, pkg[p].code>>] = "enable"
    BY <1>1, <1>4 DEF CodeInv
  <2> QED BY <1>1, <1>2, <2>1
<1>5. ASSUME NEW p \in x.left, pkg[p].status # "PendingPickup" PROVE CodeKnown(x, p)
  <2>1. \A s \in Requests : codes[<<p, s>>] = IF s = pkg[p].code THEN "temp" ELSE "none"
    BY <1>1, <1>5 DEF CodeInv
  <2>2. pkg[p].code # NoCode => codes[<<p, pkg[p].code>>] = "temp"
    BY <1>1, <1>3, <2>1
  <2> QED BY <1>1, <1>2, <2>2 DEF CodeKnown
<1> QED BY <1>1, <1>2, <1>4, <1>5

LEMMA TurnKnown ==
  ASSUME Inv, BillInv, CodeInv, overlapped = {}, NEW r \in Requests, NEW x \in Request,
         \/ Turn(r, x) /\ (req[r] # Idle => req[r].pc # "bill")
         \/ req[r] # Idle /\ req[r].pc = "bill" /\ Follows(r, (req[r].left \cap Tiktok) \ req[r].now, x)
  PROVE  CodesKnown(r, x)
<1> DEFINE y == req[r]
<1>0. x # Idle /\ x.left \in SUBSET Packages
  BY IdleIsNoRequest, Fields
<1>1. CASE Starts(r, x)
  <2>1. x.phase = "plain" /\ x.pc = "guard" /\ x.seen = Seen(x.left)
    BY <1>1 DEF Starts
  <2>2. \A p \in Holding(x) : p \in x.left /\ x.seen[p].status # "PendingPickup"
    BY <1>0, <2>1 DEF Holding
  <2> QED BY <2>1, <2>2, ReadsCodes DEF CodesKnown
<1>2. CASE y # Idle /\ ~Starts(r, x)
  <2>1. /\ y \in Request /\ Fit(y) /\ Later(y) /\ y.left \in SUBSET Packages
        /\ y.phase \in {"plain", "tiktok"} /\ x.phase \in {"plain", "tiktok"}
    BY <1>2, Running, Fields
  <2>2. Unbilled(y) /\ CodesKnown(r, y)
    BY <1>2 DEF BillInv, CodeInv, Busy
  <2>3. CASE Goes(r, x)
    <3>1. Holding(x) = Holding(y)
      BY <1>0, <1>2, <2>3 DEF Goes, Keeps, Holding
    <3>2. x.left = y.left /\ x.seen = y.seen /\ x.phase = y.phase /\ x.now = y.now
      BY <2>3 DEF Goes, Keeps
    <3>3. x.pc \notin {"carrier", "bill"} /\ y.pc \notin {"carrier", "bill"}
      BY <2>3 DEF Goes
    <3>4. ASSUME x.phase = "plain", x.pc = "insert", NEW p \in x.left \ Tiktok
          PROVE  x.seen[p].status = "Created"
      <4>1. y.pc = "codes" /\ \A q \in New(r) : \A s \in Requests : codes[<<q, s>>] = "none"
        BY <2>3, <3>4 DEF Goes
      <4>2. y.seen[p].status # "PendingPickup"
        <5> SUFFICES ASSUME y.seen[p].status = "PendingPickup" PROVE FALSE
          OBVIOUS
        <5>1. p \in New(r)
          BY <2>2, <3>2, <3>4 DEF CodesKnown, New, Listed, Plain
        <5>2. pkg[p].status = "PendingPickup"
          BY <2>1, <3>2, <3>4 DEF Later
        <5>3. /\ codes[<<p, pkg[p].code>>] = "enable" /\ pkg[p].code # NoCode
              /\ pkg[p].code \in Requests \cup {NoCode}
          BY <1>0, <3>4, <5>2 DEF CodeInv, Inv, TypeOK, PackageRow
        <5> QED BY <4>1, <5>1, <5>3
      <4>3. y.seen[p].status # "CNPurchased"
        <5>1. y.kind # "cn"
          <6>1. PICK q \in y.now : TRUE
            BY <2>1, <4>1 DEF Fit, Buying
          <6>2. q \in y.left /\ y.seen[q].status = "Created"
            BY <2>1, <3>2, <3>4, <4>1 DEF Fit
          <6> QED BY <2>1, <6>2 DEF Fit
        <5> QED BY <2>1, <3>2, <3>4, <4>1, <5>1 DEF Fit, Certain
      <4>4. y.seen[p] \in SeenRow
        BY <2>1, <3>2, <3>4, Fields DEF Fit
      <4> QED BY <3>2, <4>2, <4>3, <4>4 DEF SeenRow, Status
    <3> HIDE DEF y
    <3> QED BY <2>2, <3>1, <3>2, <3>3, <3>4 DEF CodesKnown, CodeKnown, Made
  <2>4. CASE Locks(r, x)
    <3>1. /\ x.left = y.left /\ x.seen = y.seen /\ y.pc = "lock" /\ y.phase = "plain"
          /\ \A p \in y.left : y.seen[p].status = "Created"
          /\ (x.phase = "tiktok" /\ x.pc = "codes") \/ (x.phase = "plain" /\ x.pc = "label")
          /\ x.phase = "tiktok" => x.left \subseteq Tiktok
      BY <2>1, <2>4 DEF Locks, Keeps, Fit
    <3>2. Holding(x) \subseteq Holding(y)
      BY <1>0, <1>2, <3>1 DEF Holding
    <3> HIDE DEF y
    <3> QED BY <2>2, <3>1, <3>2 DEF CodesKnown, CodeKnown
  <2>5. CASE Looks(r, x)
    <3>1. x.seen = Seen(x.left) /\ x.pc = "codes" /\ x.now \subseteq x.left /\ x.phase = "plain"
      BY <2>1, <2>5 DEF Looks, Plain, Fit
    <3>2. \A p \in x.left : x.seen[p].status = pkg[p].status
      BY <3>1, ReadsCodes
    <3>3. \A p \in x.now : pkg[p].status = "Created"
      BY <2>5 DEF Looks
    <3>4. \A p \in Holding(x) : p \in x.left /\ pkg[p].status # "PendingPickup"
      BY <1>0, <3>1, <3>2, <3>3 DEF Holding
    <3> QED BY <3>1, <3>4, ReadsCodes DEF CodesKnown
  <2>6. CASE Picks(r, x)
    <3>1. Holding(x) \subseteq Holding(y)
      BY <1>0, <1>2, <2>6 DEF Picks, Keeps, Holding
    <3>2. /\ x.left = y.left /\ x.seen = y.seen /\ x.pc = "bill" /\ x.phase = y.phase
          /\ y.pc = "carrier" /\ x.now \subseteq y.now /\ y.phase = "plain"
      BY <2>1, <2>6 DEF Picks, Keeps, Fit
    <3>3. y.now \cap Tiktok = {}
      BY <2>1, <3>2 DEF Fit, Buying
    <3>4. \A p \in Holding(x) : p \in Tiktok \/ p \in x.now
      BY <1>0, <3>2 DEF Holding
    <3> HIDE DEF y
    <3> QED BY <2>2, <3>1, <3>2, <3>3, <3>4 DEF CodesKnown, CodeKnown, Made
  <2>7. CASE /\ y.pc \notin {"guard", "lock"} /\ Follows(r, y.left \cap Tiktok, x)
             /\ y.pc = "bill" => Follows(r, (y.left \cap Tiktok) \ y.now, x)
    <3>1. /\ x.phase = "tiktok" /\ x.pc = "codes" /\ x.seen = y.seen
          /\ x.left \subseteq y.left \cap Tiktok
          /\ y.pc = "bill" => x.left \cap y.now = {}
      BY <1>0, <2>7 DEF Follows
    <3>2. \A p \in x.left : y.seen[p].status # "PendingPickup"
      BY <1>0, <2>2, <2>7, <3>1 DEF Unbilled, Certain
    <3>3. x.left \subseteq Holding(y) /\ Holding(x) = x.left
      BY <1>0, <1>2, <2>1, <3>1, <3>2 DEF Holding
    <3>4. y.pc = "carrier" => x.left \cap y.now = {}
      BY <2>1, <3>1 DEF Fit, Buying
    <3> HIDE DEF y
    <3>5. \A p \in x.left : CodeKnown(y, p)
      BY <2>2, <3>1, <3>3, <3>4 DEF CodesKnown
    <3> QED BY <2>2, <3>1, <3>2, <3>3, <3>5 DEF CodesKnown, CodeKnown
  <2>8. y.pc = "bill" => y.pc \notin {"guard", "lock"}
    OBVIOUS
  <2>9. Follows(r, (y.left \cap Tiktok) \ y.now, x) => Follows(r, y.left \cap Tiktok, x)
    BY DEF Follows
  <2> QED BY <1>0, <1>2, <2>3, <2>4, <2>5, <2>6, <2>7, <2>8, <2>9 DEF Turn
<1> QED BY <1>0, <1>1, <1>2 DEF Turn, Goes, Locks, Looks, Picks

\* The rows, while nobody was in anybody's way.
CodeRows ==
  \A p \in Packages :
    IF pkg[p].status = "PendingPickup"
    THEN pkg[p].code # NoCode /\ codes[<<p, pkg[p].code>>] = "enable"
    ELSE \A s \in Requests : codes[<<p, s>>] = IF s = pkg[p].code THEN "temp" ELSE "none"

LEMMA CodeStep ==
  ASSUME Inv, HoldInv, CodeInv, NEW r \in Requests, NEW x \in Request \cup {Idle}, Becomes(r, x),
         Tiktok' = Tiktok,
         overlapped' = {} =>
           /\ CodeRows' /\ (x # Idle => CodesKnown(r, x)')
           /\ \A p \in Packages :
                pkg'[p].code # pkg[p].code => req[r] # Idle /\ p \in Holding(req[r])
  PROVE  CodeInv'
<1> SUFFICES ASSUME overlapped' = {} PROVE CodeRows' /\ \A s \in Busy' : CodesKnown(s, req[s])'
  BY DEF CodeInv, CodeRows
<1>1. /\ req' \in [Requests -> Request \cup {Idle}] /\ req'[r] = x
      /\ \A s \in Requests : s # r => req'[s] = req[s]
      /\ overlapped = {}
  BY OneRequest DEF Inv
<1>2. ASSUME NEW s \in Requests, req'[s] # Idle
      PROVE  CodesKnown(s, req[s])'
  <2>1. PICK z \in Request : z = req'[s]
    BY <1>1, <1>2
  <2>2. CodesKnown(s, z)'
    <3>1. CASE s = r
      BY <1>1, <1>2, <2>1, <3>1
    <3>2. CASE s # r
      <4>1. z = req[s] /\ CodesKnown(s, z) /\ Holding(z)' = Holding(z)
        BY <1>1, <1>2, <2>1, <3>2 DEF CodeInv, Busy, Holding
      <4>2. \A p \in Holding(z) : p \in Packages /\ pkg'[p].code = pkg[p].code
        <5>1. Holding(z) \subseteq Packages
          BY HoldingIsOfPackages
        <5> QED BY <1>1, <1>2, <2>1, <3>2, <4>1, <5>1 DEF HoldInv, Busy
      <4> QED BY <4>1, <4>2 DEF CodesKnown, CodeKnown, Made
    <3> QED BY <3>1, <3>2
  <2> QED BY <2>1, <2>2 DEF CodesKnown, CodeKnown, Made, Holding
<1> QED BY <1>2 DEF Busy

LEMMA InitCode == Init => CodeInv
<1> SUFFICES ASSUME Init PROVE CodeInv
  OBVIOUS
<1>1. Busy = {}
  BY DEF Init, Busy
<1>2. \A p \in Packages : pkg[p].code = NoCode /\ pkg[p].status # "PendingPickup"
  <2>1. PICK w \in Worlds, status \in [Packages -> {"Created", "CNPurchased"}] :
          pkg = [p \in Packages |-> [status |-> status[p], code |-> NoCode, tracked |-> FALSE,
                                     cn |-> p \in w.china, tiktok |-> p \in w.tiktok]]
    BY DEF Init
  <2> QED BY <2>1
<1>3. \A p \in Packages : \A s \in Requests : codes[<<p, s>>] = "none"
  BY DEF Init
<1> QED BY <1>1, <1>2, <1>3, ChargingConstants DEF CodeInv

\* The list CreatePackageCodes is called with is what is about to be billed.
LEMMA ListedIsNow ==
  ASSUME Inv, CodeInv, overlapped = {}, NEW r \in Requests, req[r] # Idle,
         req[r].pc \in {"insert", "bill"}
  PROVE  /\ req[r].pc = "insert" => Listed(r) = req[r].now
         /\ Valid(r) = Listed(r) /\ req[r].now \subseteq Listed(r) /\ Listed(r) \in SUBSET Packages
<1> DEFINE y == req[r]
<1>1. /\ y \in Request /\ Fit(y) /\ y.left \in SUBSET Packages /\ y.phase \in {"plain", "tiktok"}
      /\ CodesKnown(r, y)
  BY Running, Fields DEF CodeInv
<1>2. CASE y.phase = "tiktok"
  BY <1>1, <1>2 DEF Listed, Valid, Fit
<1>3. CASE y.phase = "plain"
  <2>1. Listed(r) = y.left \ Tiktok /\ \A p \in y.left \ Tiktok : y.seen[p].status = "Created"
    BY <1>1, <1>3 DEF Listed, Plain, CodesKnown
  <2>2. y.now \subseteq {p \in y.left \ Tiktok : y.seen[p].status = "Created"}
    BY <1>1, <1>3 DEF Fit, Buying
  <2>3. y.pc = "insert" => y.now = {p \in y.left \ Tiktok : y.seen[p].status = "Created"}
    BY <1>1, <1>3 DEF Fit
  <2> QED BY <1>1, <1>3, <2>1, <2>2, <2>3 DEF Valid
<1> QED BY <1>1, <1>2, <1>3

\* The codes that are made belong to packages that had none;
LEMMA CreateKeepsCodes ==
  ASSUME Inv, HoldInv, BillInv, CodeInv, NEW r \in Requests, CreatePackageCodes(r), Tiktok' = Tiktok
  PROVE  CodeInv'
<1> DEFINE y == req[r]
<1>1. PICK x \in Request \cup {Idle} : Becomes(r, x) /\ Inserts(r, x)
  BY CreateTurns
<1>2. \A p \in Packages :
        IF p \in New(r)
        THEN /\ pkg'[p].code = r /\ pkg'[p].status = pkg[p].status
             /\ \A s \in Requests : codes'[<<p, s>>] = IF s = r THEN "temp" ELSE codes[<<p, s>>]
        ELSE /\ pkg'[p] = pkg[p]
             /\ \A s \in Requests : codes'[<<p, s>>] = codes[<<p, s>>]
  BY CreateTurns
<1>3. /\ y # Idle /\ y.pc = "insert" /\ x \in Request /\ x # Idle /\ Keeps(x, y)
      /\ x.phase = y.phase /\ x.now = y.now /\ x.pc \in {"carrier", "bill"}
  BY <1>1, IdleIsNoRequest DEF Inserts
<1>4. y \in Request /\ Fit(y) /\ y.phase \in {"plain", "tiktok"} /\ y.now \in SUBSET Packages
  BY <1>3, Running, Fields
<1>5. y.now \subseteq Holding(y)
  BY <1>3, NowIsHeld DEF Buying
<1> HIDE DEF y
<1>6. ASSUME overlapped = {}
      PROVE  /\ New(r) = {p \in y.now : ~y.seen[p].temp}
             /\ CodesKnown(r, y) /\ Unbilled(y)
             /\ \A p \in y.now : CodeKnown(y, p)
  <2>1. Listed(r) = y.now
    BY <1>3, <1>6, ListedIsNow DEF y
  <2>2. CodesKnown(r, y) /\ Unbilled(y)
    BY <1>3, <1>6 DEF CodeInv, BillInv, Busy, y
  <2> QED BY <1>3, <1>5, <2>1, <2>2 DEF New, CodesKnown, y
<1>7. ASSUME overlapped' = {}
      PROVE  \A p \in Packages : pkg'[p].code # pkg[p].code => req[r] # Idle /\ p \in Holding(req[r])
  <2>1. overlapped = {}
    BY <1>1, <1>7, OneRequest DEF Inv
  <2>2. New(r) \subseteq Holding(y)
    BY <1>5, <1>6, <2>1
  <2> QED BY <1>2, <1>3, <2>2 DEF y
<1>8. ASSUME overlapped' = {} PROVE CodeRows'
  <2>1. overlapped = {}
    BY <1>1, <1>8, OneRequest DEF Inv
  <2>2. ASSUME NEW p \in New(r)
        PROVE  /\ p \in Packages /\ pkg[p].status # "PendingPickup"
               /\ \A s \in Requests : codes[<<p, s>>] = "none"
    <3>1. p \in Packages /\ pkg[p].status # "PendingPickup" /\ pkg[p].code = NoCode
      BY <1>4, <1>5, <1>6, <2>1 DEF Unbilled, CodeKnown
    <3> QED BY <2>1, <3>1, ChargingConstants DEF CodeInv
  <2>3. ASSUME NEW p \in Packages
        PROVE  IF pkg'[p].status = "PendingPickup"
               THEN pkg'[p].code # NoCode /\ codes'[<<p, pkg'[p].code>>] = "enable"
               ELSE \A s \in Requests : codes'[<<p, s>>] = IF s = pkg'[p].code THEN "temp" ELSE "none"
    <3>1. CASE p \in New(r)
      BY <1>2, <2>2, <3>1
    <3>2. CASE p \notin New(r)
      <4>1. pkg[p].code \in Requests \cup {NoCode}
        BY DEF Inv, TypeOK, PackageRow
      <4>2. pkg'[p] = pkg[p] /\ \A s \in Requests : codes'[<<p, s>>] = codes[<<p, s>>]
        BY <1>2, <3>2
      <4>3. IF pkg[p].status = "PendingPickup"
            THEN pkg[p].code # NoCode /\ codes[<<p, pkg[p].code>>] = "enable"
            ELSE \A s \in Requests : codes[<<p, s>>] = IF s = pkg[p].code THEN "temp" ELSE "none"
        BY <2>1 DEF CodeInv
      <4> QED BY <4>1, <4>2, <4>3
    <3> QED BY <3>1, <3>2
  <2> QED BY <2>3 DEF CodeRows
<1>9. ASSUME overlapped' = {} PROVE CodesKnown(r, x)'
  <2>1. overlapped = {}
    BY <1>1, <1>9, OneRequest DEF Inv
  <2>2. /\ Holding(x)' = Holding(x) /\ Holding(x) = Holding(y) /\ Holding(x) \subseteq Packages
    BY <1>3, <1>4, HoldingIsOfPackages DEF Holding, Keeps
  <2>3. x.left = y.left /\ x.seen = y.seen
    BY <1>3 DEF Keeps
  <2>4. ASSUME NEW p \in Holding(x), p \in x.now PROVE Made(r, x, p)'
    <3>1. CodeKnown(y, p) /\ p \in Packages
      BY <1>3, <1>4, <1>6, <2>1, <2>4
    <3>2. CASE y.seen[p].temp
      BY <1>2, <1>6, <2>1, <2>3, <3>1, <3>2 DEF Made, CodeKnown
    <3>3. CASE ~y.seen[p].temp
      <4>1. pkg'[p].code = r
        BY <1>2, <1>3, <1>6, <2>1, <2>4, <3>1, <3>3
      <4> QED BY <2>3, <3>3, <4>1, ChargingConstants DEF Made
    <3> QED BY <3>2, <3>3
  <2>5. ASSUME NEW p \in Holding(x), p \notin x.now PROVE CodeKnown(x, p)'
    <3>1. CodeKnown(y, p) /\ p \in Packages /\ p \notin New(r)
      BY <1>3, <1>6, <2>1, <2>2, <2>5 DEF CodesKnown
    <3> QED BY <1>2, <2>3, <3>1 DEF CodeKnown
  <2>6. /\ \A p \in x.left : x.seen[p].status = "PendingPickup" => ~x.seen[p].temp
        /\ x.phase = "plain" => \A p \in x.left \ Tiktok : x.seen[p].status = "Created"
    BY <1>3, <1>6, <2>1, <2>3 DEF CodesKnown
  <2> QED BY <1>3, <2>2, <2>4, <2>5, <2>6 DEF CodesKnown
<1> QED BY <1>1, <1>3, <1>7, <1>8, <1>9, CodeStep

\* and those that are enabled to the packages that are billed.
LEMMA BillKeepsCodes ==
  ASSUME Inv, HoldInv, BillInv, CodeInv, NEW r \in Requests, Bill(r), Tiktok' = Tiktok
  PROVE  CodeInv'
<1> DEFINE y == req[r]
<1>1. PICK x \in Request \cup {Idle} : Becomes(r, x) /\ Follows(r, (y.left \cap Tiktok) \ y.now, x)
  BY BillTurns
<1>2. /\ y # Idle /\ y.pc = "bill"
      /\ \A p \in Packages :
           IF p \in y.now THEN pkg'[p].status = "PendingPickup" /\ pkg'[p].code = pkg[p].code
           ELSE pkg'[p] = pkg[p]
      /\ \A p \in Packages : \A s \in Requests :
           codes'[<<p, s>>] = IF <<p, s>> \in Enabled(r) THEN "enable" ELSE codes[<<p, s>>]
  BY BillTurns
<1>3. y \in Request /\ y.now \in SUBSET Packages
  BY <1>2, Running
<1>4. y.now \subseteq Holding(y)
  BY <1>2, NowIsHeld DEF Buying
<1>5. ASSUME overlapped' = {} PROVE CodeRows'
  <2>1. overlapped = {}
    BY <1>1, <1>5, OneRequest DEF Inv
  <2>2. /\ Valid(r) = Listed(r) /\ y.now \subseteq Listed(r) /\ Listed(r) \in SUBSET Packages
    BY <1>2, <2>1, ListedIsNow
  <2>3. Enabled(r) = {<<q, CodeOf(r, q)>> : q \in y.now}
    <3>1. \A q \in Listed(r) :
            (\E p \in y.now : Before(Listed(r), q) = Before(Listed(r), p)) <=> q \in y.now
      BY <2>2, Places
    <3>2. {q \in Listed(r) : \E p \in y.now : Before(Listed(r), q) = Before(Valid(r), p)} = y.now
      BY <2>2, <3>1
    <3> QED BY <3>2 DEF Enabled
  <2>4. \A p \in y.now : pkg[p].code # NoCode /\ CodeOf(r, p) = pkg[p].code
    <3>1. CodesKnown(r, y)
      BY <1>2, <2>1 DEF CodeInv, Busy
    <3>2. \A p \in y.now : Made(r, y, p)
      BY <1>2, <1>4, <3>1 DEF CodesKnown
    <3> QED BY <2>2, <3>2 DEF Made, CodeOf, New
  <2>5. \A p \in Packages : pkg[p].code \in Requests \cup {NoCode}
    BY DEF Inv, TypeOK, PackageRow
  <2> HIDE DEF y
  <2>6. ASSUME NEW p \in y.now
        PROVE  /\ pkg'[p].status = "PendingPickup" /\ pkg'[p].code # NoCode
               /\ codes'[<<p, pkg'[p].code>>] = "enable"
    <3>1. <<p, pkg[p].code>> \in Enabled(r)
      BY <2>3, <2>4
    <3>2. p \in Packages /\ pkg[p].code \in Requests
      BY <1>3, <2>4, <2>5
    <3> QED BY <1>2, <2>4, <3>1, <3>2
  <2>7. ASSUME NEW p \in Packages \ y.now
        PROVE  pkg'[p] = pkg[p] /\ \A s \in Requests : codes'[<<p, s>>] = codes[<<p, s>>]
    <3>1. \A s \in Requests : <<p, s>> \notin Enabled(r)
      BY <2>3
    <3> QED BY <1>2, <3>1
  <2>8. ASSUME NEW p \in Packages \ y.now
        PROVE  IF pkg'[p].status = "PendingPickup"
               THEN pkg'[p].code # NoCode /\ codes'[<<p, pkg'[p].code>>] = "enable"
               ELSE \A s \in Requests : codes'[<<p, s>>] = IF s = pkg'[p].code THEN "temp" ELSE "none"
    <3>1. IF pkg[p].status = "PendingPickup"
          THEN pkg[p].code # NoCode /\ codes[<<p, pkg[p].code>>] = "enable"
          ELSE \A s \in Requests : codes[<<p, s>>] = IF s = pkg[p].code THEN "temp" ELSE "none"
      BY <2>1 DEF CodeInv
    <3> QED BY <2>5, <2>7, <3>1
  <2> QED BY <2>6, <2>8 DEF CodeRows
<1>6. \A p \in Packages : pkg'[p].code = pkg[p].code
  BY <1>2
<1>7. ASSUME overlapped' = {}, x # Idle PROVE CodesKnown(r, x)'
  <2>1. overlapped = {} /\ x \in Request
    BY <1>1, <1>7, OneRequest DEF Inv
  <2>2. CodesKnown(r, x)
    BY <1>1, <1>2, <2>1, TurnKnown
  <2>3. Holding(x)' = Holding(x) /\ Holding(x) \subseteq Packages
    BY HoldingIsOfPackages DEF Holding
  <2> QED BY <1>6, <2>2, <2>3 DEF CodesKnown, CodeKnown, Made
<1> QED BY <1>1, <1>5, <1>6, <1>7, CodeStep

LEMMA NextCode == Inv /\ HoldInv /\ BillInv /\ CodeInv /\ [Next]_vars => CodeInv'
<1> SUFFICES ASSUME Inv, HoldInv, BillInv, CodeInv, [Next]_vars PROVE CodeInv'
  OBVIOUS
<1>1. Tiktok' = Tiktok
  BY SameTiktok
<1>2. CASE \E r \in Requests :
             \/ \E kind \in Kinds, S \in (SUBSET Packages) \ {{}} : Start(r, kind, S)
             \/ Guard(r) \/ Lock(r) \/ Funds(r) \/ Mark(r) \/ Label(r) \/ CheckCodes(r)
             \/ Carrier(r)
  <2>1. PICK r \in Requests, x \in Request \cup {Idle} : Becomes(r, x) /\ Quietly(r, x)
    BY <1>2, QuietTurns
  <2>2. UNCHANGED <<pkg, codes>>
    BY <2>1 DEF Quietly
  <2>3. ASSUME overlapped' = {} PROVE CodeRows' /\ (x # Idle => CodesKnown(r, x)')
    <3>1. overlapped = {}
      BY <2>1, <2>3, OneRequest DEF Inv
    <3>2. CodeRows'
      BY <2>2, <3>1 DEF CodeInv, CodeRows
    <3>3. ASSUME x # Idle PROVE CodesKnown(r, x)'
      <4>1. CodesKnown(r, x)
        BY <2>1, <3>1, <3>3, TurnKnown DEF Quietly
      <4> QED BY <1>1, <2>2, <4>1 DEF CodesKnown, CodeKnown, Made, Holding
    <3> QED BY <3>2, <3>3
  <2> QED BY <1>1, <2>1, <2>2, <2>3, CodeStep
<1>3. CASE \E r \in Requests : CreatePackageCodes(r)
  BY <1>1, <1>3, CreateKeepsCodes
<1>4. CASE \E r \in Requests : Bill(r)
  BY <1>1, <1>4, BillKeepsCodes
<1>5. CASE \E r \in Requests : Fail(r)
  <2>1. PICK r \in Requests : Fail(r)
    BY <1>5
  <2>2. /\ Becomes(r, Idle) /\ codes' = codes
        /\ \A p \in Packages : pkg'[p].status = pkg[p].status /\ pkg'[p].code = pkg[p].code
    BY <2>1, FailTurns
  <2>3. overlapped' = {} => CodeRows'
    <3> SUFFICES ASSUME overlapped' = {} PROVE CodeRows'
      OBVIOUS
    <3>1. overlapped = {}
      BY <2>2, OneRequest DEF Inv
    <3> QED BY <2>2, <3>1 DEF CodeInv, CodeRows
  <2> QED BY <1>1, <2>2, <2>3, CodeStep
<1>6. CASE Crash
  BY <1>6 DEF CodeInv, Busy, Crash, overlaps
<1>7. CASE (\E p \in Packages : Expire(p)) \/ UNCHANGED vars
  BY <1>1, <1>7 DEF Expire, vars, tables, overlaps, CodeInv, CodesKnown, CodeKnown, Made, Busy, Holding
<1> QED BY <1>2, <1>3, <1>4, <1>5, <1>6, <1>7, Cases

\* A package no two requests were about to bill at once is charged once, when it becomes
\* ready for pickup, through every error and crash; and the code it then has is enabled.
THEOREM ChargedOnceHolds == Spec => []ChargedOnce
<1> DEFINE Known == Inv /\ HoldInv /\ BillInv /\ CodeInv
<1>1. Init => Known
  BY InitInv, InitHold, InitBill, InitCode
<1>2. Known /\ [Next]_vars => Known'
  BY NextInv, NextHold, NextBill, NextCode
<1>3. Known => ChargedOnce
  <2> SUFFICES ASSUME Known, NEW p \in Packages \ overlapped
               PROVE  /\ paid[p] = IF pkg[p].status = "PendingPickup" THEN 1 ELSE 0
                      /\ paid[p] = 1 /\ overlapped = {} =>
                           pkg[p].code # NoCode /\ codes[<<p, pkg[p].code>>] = "enable"
    BY DEF ChargedOnce
  <2>1. paid[p] = IF pkg[p].status = "PendingPickup" THEN 1 ELSE 0
    BY DEF BillInv
  <2> QED BY <2>1 DEF CodeInv
<1> HIDE DEF Known
<1> QED BY <1>1, <1>2, <1>3, PTL DEF Spec

-----------------------------------------------------------------------------
(* One request at a time. *)

LEMMA Fewer ==
  ASSUME NEW S \in SUBSET Packages, NEW T \in SUBSET S
  PROVE  Cardinality(T) \in Nat /\ Cardinality(S) \in Nat /\ Cardinality(T) <= Cardinality(S)
<1>1. IsFiniteSet(S)
  BY ChargingConstants, FS_Subset
<1> QED BY <1>1, FS_Subset, FS_CardinalityType

LEMMA FewerAreCheaper ==
  ASSUME TypeOK, NEW S \in SUBSET Packages, NEW T \in SUBSET S, Enough(balance, Cardinality(S))
  PROVE  Enough(balance, Cardinality(T))
<1>1. Cardinality(T) \in Nat /\ Cardinality(S) \in Nat /\ Cardinality(T) <= Cardinality(S)
  BY Fewer
<1> QED BY <1>1, ChargingConstants DEF Enough, TypeOK

\* The plain packages whose codes are made were all created, but for those billed before.
LEMMA OnlyCreated ==
  ASSUME NEW y \in Request, Fit(y), y.phase = "plain", y.pc = "codes", NEW p \in y.left \ Tiktok,
         y.seen[p].status # "PendingPickup"
  PROVE  y.seen[p].status = "Created"
<1>1. y.kind # "cn"
  <2>1. PICK q \in y.now : TRUE
    BY DEF Fit, Buying
  <2>2. q \in y.left /\ y.seen[q].status = "Created"
    BY <2>1 DEF Fit
  <2> QED BY <2>2 DEF Fit
<1>2. y.seen[p].status # "CNPurchased"
  BY <1>1 DEF Fit, Certain
<1>3. y.seen[p] \in SeenRow
  BY Fields DEF Fit
<1> QED BY <1>2, <1>3 DEF SeenRow, Status

\* A request that is alone makes the codes it asks for.
LEMMA AloneMakesCodes ==
  ASSUME Inv, CodeInv, overlapped = {}, NEW r \in Requests, req[r] # Idle, req[r].pc = "codes",
         Affords(req[r])
  PROVE  \A p \in New(r) : \A s \in Requests : codes[<<p, s>>] = "none"
<1> DEFINE y == req[r]
<1>1. /\ y \in Request /\ Fit(y) /\ y.left \in SUBSET Packages /\ y.phase \in {"plain", "tiktok"}
      /\ CodesKnown(r, y)
  BY Running, Fields DEF CodeInv
<1>2. \A p \in y.left : pkg[p].status = y.seen[p].status /\ pkg[p].status # "PendingPickup"
  BY DEF Affords, Certain
<1> SUFFICES ASSUME NEW p \in New(r), NEW s \in Requests PROVE codes[<<p, s>>] = "none"
  OBVIOUS
<1>3. ~y.seen[p].temp /\ p \in Listed(r)
  BY DEF New
<1> HIDE DEF y
<1>4. p \in y.left /\ p \in y.now
  <2>1. CASE y.phase = "plain"
    <3>1. p \in y.left \ Tiktok
      BY <1>3, <2>1 DEF Listed, Plain, y
    <3>2. y.seen[p].status = "Created"
      BY <1>1, <1>2, <2>1, <3>1, OnlyCreated DEF y
    <3>3. y.now = {q \in y.left \ Tiktok : y.seen[q].status = "Created"}
      BY <1>1, <2>1 DEF Fit, y
    <3> QED BY <3>1, <3>2, <3>3
  <2>2. CASE y.phase = "tiktok"
    BY <1>1, <1>3, <2>2 DEF Listed, Fit, y
  <2> QED BY <1>1, <2>1, <2>2
<1>5. p \in Holding(y)
  BY <1>4, NowIsHeld DEF Buying, y
<1>6. pkg[p].code = NoCode
  BY <1>1, <1>3, <1>5 DEF CodesKnown, CodeKnown, y
<1>7. p \in Packages /\ pkg[p].status # "PendingPickup"
  BY <1>1, <1>2, <1>4
<1> QED BY <1>6, <1>7, ChargingConstants DEF CodeInv

\* A request that becomes x is alone, if requests come one at a time.
LEMMA LoneStep ==
  ASSUME Inv, HoldInv, LoneInv, NEW r \in Requests, NEW x \in Request \cup {Idle}, Becomes(r, x),
         x = Idle => req[r] # Idle,
         ~crowded' => locked' = {} /\ balance' >= 0 - DebtMax /\ (x # Idle => Affords(x)')
  PROVE  LoneInv'
<1> SUFFICES ASSUME ~crowded', NEW s \in Requests, req'[s] # Idle PROVE Affords(req[s])'
  BY DEF LoneInv, Busy
<1>1. /\ req' \in [Requests -> Request \cup {Idle}] /\ req'[r] = x
      /\ \A t \in Requests : t # r => req'[t] = req[t]
      /\ ~crowded
  BY OneRequest DEF Inv
<1>2. s = r
  <2> SUFFICES ASSUME s # r PROVE FALSE
    OBVIOUS
  <2>1. req[s] # Idle
    BY <1>1
  <2>2. x = Idle
    BY <2>1 DEF Becomes
  <2> QED BY <1>1, <2>1, <2>2 DEF HoldInv, Busy
<1>3. PICK z \in Request : z = x
  BY <1>1, <1>2
<1>4. Affords(z)' /\ req'[s] = z
  BY <1>1, <1>2, <1>3
<1> QED BY <1>4 DEF Affords, Certain

LEMMA TurnAffords ==
  ASSUME Inv, LoneInv, ~crowded, NEW r \in Requests, NEW x \in Request,
         Turn(r, x) \/ Inserts(r, x),
         req[r] # Idle /\ req[r].pc = "funds" => Enough(balance, Cardinality(req[r].asked))
  PROVE  Affords(x)
<1> DEFINE y == req[r]
<1>0. x # Idle /\ x.left \in SUBSET Packages /\ TypeOK
  BY IdleIsNoRequest, Fields DEF Inv
<1>1. CASE Starts(r, x)
  <2>1. \A p \in x.left : x.seen[p].status = pkg[p].status
    <3>1. x.left \in SUBSET Packages /\ TypeOK /\ x.seen = Seen(x.left)
      BY <1>0, <1>1 DEF Starts
    <3> QED BY <3>1, SeenIsRead
  <2>2. x.kind \in {"process", "deliver", "cn"} /\ x.pc = "guard"
    BY <1>1, Fields, ChargingConstants DEF Starts
  <2>3. Certain(x) => \A p \in x.left : pkg[p].status # "PendingPickup"
    BY <1>1, <2>2 DEF Starts, Certain
  <2>4. x.kind = "deliver" /\ x.solvent => Enough(balance, Cardinality(x.left))
    <3> SUFFICES ASSUME x.kind = "deliver", x.solvent PROVE Enough(balance, Cardinality(x.left))
      OBVIOUS
    <3>1. PICK p \in Packages : x.asked = {p}
      BY <1>1 DEF Starts
    <3>2. x.left = {p} /\ Enough(balance, 1)
      BY <1>1, <3>1 DEF Starts
    <3>3. Cardinality(x.left) = 1
      BY <3>2, FS_Singleton
    <3> QED BY <3>2, <3>3
  <2> QED BY <2>1, <2>2, <2>3, <2>4 DEF Affords, Buying
<1>2. CASE y # Idle /\ ~Starts(r, x)
  <2>1. /\ y \in Request /\ Fit(y) /\ y.left \in SUBSET Packages /\ y.asked \in SUBSET Packages
        /\ y.left \subseteq y.asked
    BY <1>2, Running DEF Fit
  <2>2. Affords(y)
    BY <1>2 DEF LoneInv, Busy
  <2>3. y.pc = "funds" => Enough(balance, Cardinality(y.left))
    BY <1>0, <1>2, <2>1, FewerAreCheaper
  <2> HIDE DEF y
  <2>4. CASE Goes(r, x) \/ Inserts(r, x)
    <3>1. x.left = y.left /\ x.seen = y.seen /\ x.kind = y.kind /\ x.solvent = y.solvent
      BY <2>4 DEF Goes, Inserts, Keeps, y
    <3>2. Certain(x) => Certain(y)
      BY <2>4 DEF Goes, Inserts, Keeps, Certain, y
    <3>3. /\ x.pc \in {"guard", "lock"} => y.pc \in {"guard", "lock"}
          /\ x.pc \in {"mark", "label"} \cup Buying => y.pc = "funds" \/ y.pc \in {"mark", "label"} \cup Buying
      BY <2>4 DEF Goes, Inserts, Buying, y
    <3> QED BY <2>2, <2>3, <3>1, <3>2, <3>3 DEF Affords
  <2>5. CASE Locks(r, x)
    <3>1. /\ x.left = y.left /\ x.seen = y.seen /\ y.pc = "lock" /\ y.solvent
          /\ \A p \in y.left : y.seen[p].status = "Created"
          /\ x.pc \in {"codes", "label"}
      BY <2>5 DEF Locks, Keeps, y
    <3>2. y.kind = "deliver"
      BY <2>1, <3>1 DEF Fit
    <3> QED BY <2>2, <3>1, <3>2 DEF Affords
  <2>6. CASE Looks(r, x)
    <3>1. \A p \in x.left : x.seen[p].status = pkg[p].status
      <4>1. x.left \in SUBSET Packages /\ TypeOK /\ x.seen = Seen(x.left)
        BY <1>0, <2>6 DEF Looks, y
      <4> QED BY <4>1, SeenIsRead
    <3>2. x.left = y.left /\ y.pc = "label" /\ x.pc = "codes"
      BY <2>6 DEF Looks, y
    <3> QED BY <2>2, <3>1, <3>2 DEF Affords, Certain
  <2>7. CASE Picks(r, x)
    <3>1. x.left = y.left /\ x.seen = y.seen /\ y.pc = "carrier" /\ x.pc = "bill"
      BY <2>7 DEF Picks, Keeps, y
    <3> QED BY <2>2, <3>1 DEF Affords, Certain, Buying
  <2>8. CASE y.pc \notin {"guard", "lock"} /\ Follows(r, y.left \cap Tiktok, x)
    <3>1. x.left \subseteq y.left /\ x.seen = y.seen /\ x.pc = "codes"
      BY <1>0, <2>8 DEF Follows, y
    <3>2. y.pc = "funds" \/ y.pc \in {"mark", "label"} \cup Buying
      BY <2>1, <2>8, Fields DEF Steps, Buying
    <3>3. Enough(balance, Cardinality(y.left))
      BY <2>2, <2>3, <3>2 DEF Affords
    <3>4. Enough(balance, Cardinality(x.left))
      BY <1>0, <2>1, <3>1, <3>3, FewerAreCheaper
    <3> QED BY <2>2, <2>8, <3>1, <3>4 DEF Affords, Certain
  <2> QED BY <1>0, <1>2, <2>4, <2>5, <2>6, <2>7, <2>8 DEF Turn, y
<1> QED BY <1>0, <1>1, <1>2 DEF Turn, Goes, Locks, Looks, Picks, Inserts

LEMMA InitLone == Init => LoneInv
<1> SUFFICES ASSUME Init PROVE LoneInv
  OBVIOUS
<1>1. Busy = {} /\ locked = {}
  BY DEF Init, Busy
<1>2. balance \in Nat
  BY ChargingConstants DEF Init
<1> QED BY <1>1, <1>2, ChargingConstants DEF LoneInv

LEMMA NextLone == Inv /\ HoldInv /\ CodeInv /\ LoneInv /\ [Next]_vars => LoneInv'
<1> SUFFICES ASSUME Inv, HoldInv, CodeInv, LoneInv, [Next]_vars PROVE LoneInv'
  OBVIOUS
<1>0. /\ TypeOK
      /\ ~crowded => overlapped = {} /\ locked = {} /\ balance >= 0 - DebtMax
  BY DEF Inv, HoldInv, LoneInv
<1>1. CASE \E r \in Requests :
             \/ \E kind \in Kinds, S \in (SUBSET Packages) \ {{}} : Start(r, kind, S)
             \/ Guard(r) \/ Lock(r) \/ Funds(r) \/ Mark(r) \/ Label(r) \/ CheckCodes(r)
             \/ Carrier(r)
  <2>1. PICK r \in Requests, x \in Request \cup {Idle} : Becomes(r, x) /\ Quietly(r, x)
    BY <1>1, QuietTurns
  <2>2. x = Idle => req[r] # Idle
    BY <2>1, IdleIsNoRequest DEF Quietly, Turn, Starts, Goes, Locks, Looks, Picks
  <2>3. ASSUME ~crowded' PROVE locked' = {} /\ balance' >= 0 - DebtMax /\ (x # Idle => Affords(x)')
    <3>1. ~crowded
      BY <2>1, <2>3 DEF Becomes
    <3>2. locked' = locked
      <4> SUFFICES ASSUME locked' # locked PROVE FALSE
        OBVIOUS
      <4>1. /\ req[r] # Idle /\ req[r].pc = "codes"
            /\ \E p \in New(r) : \E s \in Requests : codes[<<p, s>>] # "none"
        BY <2>1 DEF Quietly
      <4>2. Affords(req[r])
        BY <3>1, <4>1 DEF LoneInv, Busy
      <4> QED BY <1>0, <3>1, <4>1, <4>2, AloneMakesCodes
    <3>3. x # Idle => Affords(x)
      BY <2>1, <3>1, TurnAffords DEF Quietly
    <3>4. UNCHANGED <<pkg, balance>>
      BY <2>1 DEF Quietly
    <3> QED BY <1>0, <3>1, <3>2, <3>3, <3>4 DEF Affords, Certain, Enough
  <2> QED BY <2>1, <2>2, <2>3, LoneStep
<1>2. CASE \E r \in Requests : CreatePackageCodes(r)
  <2>1. PICK r \in Requests : CreatePackageCodes(r)
    BY <1>2
  <2>2. PICK x \in Request \cup {Idle} : Becomes(r, x) /\ Inserts(r, x)
    BY <2>1, CreateTurns
  <2>3. /\ UNCHANGED <<balance, locked>> /\ \A p \in Packages : pkg'[p].status = pkg[p].status
    BY <2>1, CreateTurns
  <2>4. /\ x \in Request /\ x # Idle /\ x.left \in SUBSET Packages
        /\ req[r] # Idle /\ req[r].pc = "insert"
    BY <2>2, IdleIsNoRequest, Fields DEF Inserts
  <2>5. ASSUME ~crowded' PROVE locked' = {} /\ balance' >= 0 - DebtMax /\ (x # Idle => Affords(x)')
    <3>1. ~crowded
      BY <2>2, <2>5 DEF Becomes
    <3>2. Affords(x)
      BY <2>2, <2>4, <3>1, TurnAffords
    <3> QED BY <1>0, <2>3, <2>4, <3>1, <3>2 DEF Affords, Certain, Enough
  <2> QED BY <2>2, <2>4, <2>5, LoneStep
<1>3. CASE \E r \in Requests : Bill(r)
  <2>1. PICK r \in Requests : Bill(r)
    BY <1>3
  <2> DEFINE y == req[r]
  <2>2. PICK x \in Request \cup {Idle} : Becomes(r, x) /\ Follows(r, (y.left \cap Tiktok) \ y.now, x)
    BY <2>1, BillTurns
  <2>3. /\ y # Idle /\ y.pc = "bill" /\ locked' = locked /\ balance' = balance - Cardinality(y.now)
        /\ \A p \in Packages : p \notin y.now => pkg'[p] = pkg[p]
    BY <2>1, BillTurns
  <2>4. /\ y.left \in SUBSET Packages /\ y.now \in SUBSET y.left
    BY <2>3, Running DEF Fit
  <2>5. ASSUME ~crowded' PROVE locked' = {} /\ balance' >= 0 - DebtMax /\ (x # Idle => Affords(x)')
    <3>1. ~crowded
      BY <2>2, <2>5 DEF Becomes
    <3>2. Affords(y)
      BY <2>3, <3>1 DEF LoneInv, Busy
    <3>3. Enough(balance, Cardinality(y.left))
      BY <2>3, <3>2 DEF Affords, Buying
    <3>4. balance' >= 0 - DebtMax
      <4>1. Cardinality(y.now) \in Nat /\ Cardinality(y.left) \in Nat /\ Cardinality(y.now) <= Cardinality(y.left)
        BY <2>4, Fewer
      <4> QED BY <1>0, <2>3, <3>3, <4>1, ChargingConstants DEF Enough, TypeOK
    <3>5. ASSUME x # Idle PROVE Affords(x)'
      <4>1. /\ x \in Request /\ x.left \subseteq y.left \ y.now /\ x.seen = y.seen /\ x.pc = "codes"
        BY <2>2, <3>5 DEF Follows
      <4>2. \A p \in x.left : /\ pkg'[p].status = x.seen[p].status
                              /\ pkg'[p].status # "PendingPickup"
        BY <2>3, <2>4, <3>2, <4>1 DEF Affords, Certain
      <4>3. Enough(balance', Cardinality(x.left))
        <5>1. x.left \in SUBSET (y.left \ y.now) /\ y.left \ y.now \in SUBSET Packages
          BY <2>4, <4>1
        <5>2. Cardinality(x.left) \in Nat /\ Cardinality(x.left) <= Cardinality(y.left \ y.now)
          BY <5>1, Fewer
        <5>3. Cardinality(y.left \ y.now) = Cardinality(y.left) - Cardinality(y.now)
          <6>1. IsFiniteSet(y.left) /\ y.left \cap y.now = y.now
            BY <2>4, ChargingConstants, FS_Subset
          <6> QED BY <6>1, FS_Difference
        <5>4. Cardinality(y.now) \in Nat /\ Cardinality(y.left) \in Nat
          BY <2>4, Fewer
        <5> HIDE DEF y
        <5> QED BY <1>0, <2>3, <3>3, <5>2, <5>3, <5>4, ChargingConstants DEF Enough, TypeOK
      <4> QED BY <4>1, <4>2, <4>3 DEF Affords, Enough
    <3> QED BY <1>0, <2>3, <3>1, <3>4, <3>5
  <2> QED BY <2>2, <2>3, <2>5, LoneStep
<1>4. CASE \E r \in Requests : Fail(r)
  <2>1. PICK r \in Requests : Fail(r)
    BY <1>4
  <2>2. Becomes(r, Idle) /\ req[r] # Idle /\ UNCHANGED <<balance, locked>>
    BY <2>1, FailTurns
  <2>3. ~crowded' => ~crowded
    BY <2>2 DEF Becomes
  <2> QED BY <1>0, <2>2, <2>3, LoneStep
<1>5. CASE Crash
  BY <1>0, <1>5 DEF LoneInv, Busy, Crash, overlaps
<1>6. CASE (\E p \in Packages : Expire(p)) \/ UNCHANGED vars
  BY <1>6 DEF Expire, vars, tables, overlaps, LoneInv, Busy, Affords, Certain, Enough
<1> QED BY <1>1, <1>2, <1>3, <1>4, <1>5, <1>6, Cases

LEMMA Alone == Spec => [](HoldInv /\ LoneInv)
<1> DEFINE Known == Inv /\ HoldInv /\ BillInv /\ CodeInv /\ LoneInv
<1>1. Init => Known
  BY InitInv, InitHold, InitBill, InitCode, InitLone
<1>2. Known /\ [Next]_vars => Known'
  BY NextInv, NextHold, NextBill, NextCode, NextLone
<1>3. Known => HoldInv /\ LoneInv
  OBVIOUS
<1> HIDE DEF Known
<1> QED BY <1>1, <1>2, <1>3, PTL DEF Spec

\* Requests that come one at a time charge no customer further than the debt allowed: the
\* check Process makes for its whole list, and the one CreateLabelHandler makes for the
\* plain packages, cover what is billed after them.
THEOREM NoOverdraftHolds == Spec => []NoOverdraft
<1>1. HoldInv /\ LoneInv => NoOverdraft
  BY DEF LoneInv, NoOverdraft
<1> QED BY <1>1, Alone, PTL

\* Requests that come one at a time find no code of theirs made already, so that none of
\* them leaves its transaction open.
THEOREM NoneLockedHolds == Spec => []NoneLocked
<1>1. HoldInv /\ LoneInv => NoneLocked
  BY DEF LoneInv, NoneLocked
<1> QED BY <1>1, Alone, PTL
=============================================================================
