----------------------------- MODULE StockProofs -----------------------------
(***************************************************************************)
(* Proofs that no stock falls below zero, that the goods of packages are   *)
(* out of the stock while they live and back when they are cancelled, that *)
(* the log adds up to the stock, and that the counter of the limit says    *)
(* what was cancelled today, whatever calls overlap, fail or crash.        *)
(*                                                                         *)
(* Neither TypeOK nor NeverOversold is inductive: a handler writes to the  *)
(* product its package names, so the rows that packages and running calls  *)
(* name must exist (Sound), and a delivery saves a stock it read earlier,  *)
(* so the rows that calls hold may not be below zero either.               *)
(*                                                                         *)
(* GoodsFollowPackages says nothing of a package while a list that names   *)
(* it runs, yet two lists may both give its goods back before one is       *)
(* saved.  The invariant follows what is owed through that: nothing is out *)
(* as long as one list gave the goods back, and when a second did, or the  *)
(* package went on, one of them finds it changed and spoils it (Account).  *)
(*                                                                         *)
(* LogAccounts and QuotaCounts speak of the moments when no call is        *)
(* between two statements.  In between, the two sides differ by what the   *)
(* calls there have done to one of them: a sum over calls (IsSum), which a *)
(* call that enters or leaves changes by its own share (Balanced, QInv).   *)
(***************************************************************************)
EXTENDS Stock, TLAPS

\* What a call or a package names exists in the table rows.
SoundCall(x, rows) ==
  /\ x \in OrderCall => rows[x.product] # NoRow
  /\ x \in CancelCall =>
       /\ x.at \in DOMAIN x.seen /\ x.todo \subseteq DOMAIN x.seen
       /\ \A p \in DOMAIN x.seen : rows[x.seen[p].product] # NoRow
SoundPackages(packages, rows) ==
  \A p \in Packages : packages[p] # NoRow => rows[packages[p].product] # NoRow
Sound ==
  /\ SoundPackages(pkg, product)
  /\ \A c \in Calls : calls[c] # Idle => SoundCall(calls[c], product)

Inv == TypeOK /\ Sound

\* No stock is below zero, nor one that a delivery will write.
NonNegative ==
  (\A n \in Deliveries : n >= 0) =>
    /\ \A i \in Products : product[i] # NoRow => product[i].stock >= 0
    /\ \A c \in Calls : calls[c] # Idle /\ calls[c] \in AddCall => calls[c].row.stock >= 0

-----------------------------------------------------------------------------
(* The kinds of calls.  *)

LEMMA Amounts == Deliveries \subseteq Int /\ Counts \subseteq Int /\ Quantities \subseteq Int
BY StockConstants

\* What a call does next tells what kind of call it is.
LEMMA Kinds ==
  ASSUME TypeOK, NEW c \in Calls, calls[c] # Idle
  PROVE  /\ calls[c] \in Call
         /\ calls[c].pc \in {"logAdd", "save"} => calls[c] \in AddCall
         /\ calls[c].pc = "insert" => calls[c] \in InsertCall
         /\ calls[c].pc = "logNew" => calls[c] \in NewCall
         /\ calls[c].pc = "logSet" => calls[c] \in SetCall
         /\ calls[c].pc \in {"create", "take", "logTake"} => calls[c] \in OrderCall
         /\ calls[c].pc \in {"check", "logBack", "cancel", "count"} => calls[c] \in CancelCall
<1>1. calls[c] \in Call
  BY DEF TypeOK
<1>2. QED
  BY <1>1 DEF Call, AddCall, InsertCall, NewCall, SetCall, OrderCall, CancelCall

\* A call of one kind is of no other.
LEMMA Apart ==
  ASSUME NEW x
  PROVE  /\ x \in AddCall \cup InsertCall \cup NewCall \cup SetCall
              => x \notin OrderCall \cup CancelCall
         /\ x \in OrderCall => x \notin CancelCall
         /\ x \in InsertCall \cup NewCall \cup SetCall \cup OrderCall \cup CancelCall
              => x \notin AddCall
BY DEF AddCall, InsertCall, NewCall, SetCall, OrderCall, CancelCall

\* The packages a cancelling call has read.
LEMMA SeenTyped ==
  ASSUME NEW x \in CancelCall
  PROVE  /\ DOMAIN x.seen \subseteq Packages
         /\ \A p \in DOMAIN x.seen : x.seen[p] \in Package
BY DEF CancelCall

-----------------------------------------------------------------------------
(* Steps in general.  The type of the table of calls and what is sound about *)
(* it are kept when one call changes into another sound call, or ends.       *)

\* Rows are never removed.
RowsStay == \A i \in Products : product[i] # NoRow => product'[i] # NoRow

LEMMA StillSound ==
  ASSUME NEW x, SoundCall(x, product), RowsStay
  PROVE  SoundCall(x, product')
BY SeenTyped DEF SoundCall, RowsStay, OrderCall, Package

LEMMA PackagesStillSound ==
  ASSUME TypeOK, SoundPackages(pkg, product), RowsStay
  PROVE  SoundPackages(pkg, product')
BY DEF SoundPackages, RowsStay, TypeOK, Package

LEMMA CallGoes ==
  ASSUME Inv, NEW c \in Calls, NEW x \in Call, SoundCall(x, product'), RowsStay,
         calls' = [calls EXCEPT ![c] = x]
  PROVE  /\ calls' \in [Calls -> Call \cup {Idle}]
         /\ \A d \in Calls : calls'[d] # Idle => SoundCall(calls'[d], product')
<1>1. calls \in [Calls -> Call \cup {Idle}]
  BY DEF Inv, TypeOK
<1>2. \A d \in Calls : calls[d] # Idle => SoundCall(calls[d], product')
  BY StillSound DEF Inv, Sound
<1>3. QED
  BY <1>1, <1>2

LEMMA CallEnds ==
  ASSUME Inv, NEW c \in Calls, End(c), RowsStay
  PROVE  /\ calls' \in [Calls -> Call \cup {Idle}]
         /\ \A d \in Calls : calls'[d] # Idle => SoundCall(calls'[d], product')
<1>1. calls \in [Calls -> Call \cup {Idle}]
  BY DEF Inv, TypeOK
<1>2. \A d \in Calls : calls[d] # Idle => SoundCall(calls[d], product')
  BY StillSound DEF Inv, Sound
<1>3. QED
  BY <1>1, <1>2 DEF End

\* A call that only goes on to its next step stays what it was.
LEMMA CallGoesOn ==
  ASSUME Inv, NEW c \in Calls, calls[c] # Idle, NEW pc, Goto(c, pc), RowsStay,
         [calls[c] EXCEPT !.pc = pc] \in Call,
         \/ calls[c] \in AddCall
         \/ calls[c] \in OrderCall
         \/ calls[c] \in CancelCall
  PROVE  /\ calls' \in [Calls -> Call \cup {Idle}]
         /\ \A d \in Calls : calls'[d] # Idle => SoundCall(calls'[d], product')
<1> DEFINE x == [calls[c] EXCEPT !.pc = pc]
<1>1. calls' = [calls EXCEPT ![c] = x]
  BY DEF Goto
<1>2. SoundCall(calls[c], product')
  BY StillSound DEF Inv, Sound
<1>3. SoundCall(x, product')
  <2>1. CASE calls[c] \in AddCall
    BY <2>1 DEF SoundCall, AddCall, OrderCall, CancelCall
  <2>2. CASE calls[c] \in OrderCall
    BY <2>2, <1>2 DEF SoundCall, OrderCall, CancelCall
  <2>3. CASE calls[c] \in CancelCall
    BY <2>3, <1>2 DEF SoundCall, OrderCall, CancelCall
  <2>4. QED
    BY <2>1, <2>2, <2>3
<1>4. QED
  BY <1>1, <1>3, CallGoes

\* Only rows of products are mixed.
LEMMA WroteTyped ==
  ASSUME TypeOK, NEW c \in Calls, NEW i \in Products, NEW absolute, Wrote(c, i, absolute)
  PROVE  mixed' \subseteq Products
BY DEF TypeOK, Wrote

LEMMA BetweenTyped ==
  ASSUME Inv, NEW c \in Calls
  PROVE  Between(c) \subseteq Products
<1>1. CASE At(c, "save") \/ At(c, "logNew") \/ At(c, "logSet") \/ At(c, "logTake")
  BY <1>1, Kinds DEF Inv, At, Between, AddCall, NewCall, SetCall, OrderCall
<1>2. CASE At(c, "logBack")
  <2>1. calls[c] # Idle /\ calls[c] \in CancelCall
    BY <1>2, Kinds DEF Inv, At
  <2>2. calls[c].at \in DOMAIN calls[c].seen
    BY <2>1 DEF Inv, Sound, SoundCall
  <2>3. calls[c].seen[calls[c].at] \in Package
    BY <2>1, <2>2, SeenTyped
  <2>4. QED
    BY <2>3, <1>2 DEF Between, At, Package
<1>3. QED
  BY <1>1, <1>2 DEF Between

-----------------------------------------------------------------------------
(* Every step keeps types and rows. *)

LEMMA InitInv == Init => Inv
<1>1. SUFFICES ASSUME Init PROVE Inv
  OBVIOUS
<1>2. quota \in [amount : Nat, expires : BOOLEAN] /\ ~quota.expires
  BY <1>1 DEF Init
<1>3. faults \in 0..MaxFaults
  BY <1>1, StockConstants DEF Init
<1>4. TypeOK
  <2>1. /\ product \in [Products -> Product \cup {NoRow}]
        /\ pkg \in [Packages -> Package \cup {NoRow}]
        /\ calls \in [Calls -> Call \cup {Idle}]
    BY <1>1 DEF Init
  <2>2. logged \in [Products -> Int] /\ out \in [Packages -> Int] /\ cancelled \in Nat
    BY <1>1 DEF Init
  <2>3. mixed \subseteq Products /\ spoilt \subseteq Packages /\ miscounted \in BOOLEAN
    BY <1>1 DEF Init
  <2>4. QED
    BY <1>2, <1>3, <2>1, <2>2, <2>3 DEF TypeOK
<1>5. Sound
  BY <1>1 DEF Init, Sound, SoundPackages
<1>6. QED
  BY <1>4, <1>5 DEF Inv

LEMMA FindInv ==
  ASSUME Inv, NEW c \in Calls, NEW n \in Deliveries, Find(c, n)
  PROVE  Inv'
<1>1. TypeOK /\ RowsStay
  BY DEF Inv, Find, goods, RowsStay
<1>2. PICK x \in AddCall \cup InsertCall : calls' = [calls EXCEPT ![c] = x]
  <2>1. CASE calls' = [calls EXCEPT ![c] = [pc |-> "insert", quantity |-> n]]
    BY <2>1 DEF InsertCall
  <2>2. ASSUME NEW i \in Active,
               calls' = [calls EXCEPT ![c] =
                 [pc |-> "logAdd", product |-> i, row |-> product[i], quantity |-> n]]
        PROVE  \E x \in AddCall : calls' = [calls EXCEPT ![c] = x]
    BY <2>2, <1>1 DEF Active, TypeOK, AddCall
  <2>3. QED
    BY <2>1, <2>2 DEF Find
<1>3. x \in Call /\ SoundCall(x, product')
  BY <1>2, Apart DEF Call, SoundCall
<1>4. QED
  BY <1>1, <1>2, <1>3, CallGoes DEF Find, goods, Inv, TypeOK, Sound

LEMMA LogAddInv ==
  ASSUME Inv, NEW c \in Calls, LogAdd(c)
  PROVE  Inv'
<1>1. TypeOK /\ RowsStay /\ calls[c] # Idle /\ calls[c] \in AddCall
  BY Kinds DEF Inv, LogAdd, At, RowsStay
<1>2. [calls[c] EXCEPT !.pc = "save"] \in Call
  BY <1>1 DEF Call, AddCall
<1>3. calls[c].product \in Products /\ calls[c].quantity \in Int
  BY <1>1, StockConstants DEF AddCall
<1>4. mixed' \subseteq Products
  BY <1>1, <1>3, WroteTyped DEF LogAdd
<1>5. QED
  BY <1>1, <1>2, <1>3, <1>4, CallGoesOn DEF LogAdd, Inv, TypeOK, Sound

LEMMA SaveProductInv ==
  ASSUME Inv, NEW c \in Calls, SaveProduct(c)
  PROVE  Inv'
<1>1. TypeOK /\ calls[c] # Idle /\ calls[c] \in AddCall
  BY Kinds DEF Inv, SaveProduct, At
<1> DEFINE i == calls[c].product
           row == [calls[c].row EXCEPT !.stock = @ + calls[c].quantity]
<1>2. i \in Products /\ row \in Product
  BY <1>1, StockConstants DEF AddCall, Product
<1>3. product' \in [Products -> Product \cup {NoRow}] /\ RowsStay
  BY <1>1, <1>2, NoneIsNoRow DEF SaveProduct, TypeOK, RowsStay
<1>4. mixed' \subseteq Products
  BY <1>1, <1>2 DEF SaveProduct, TypeOK
<1>5. QED
  BY <1>1, <1>3, <1>4, CallEnds, PackagesStillSound DEF SaveProduct, Inv, TypeOK, Sound

LEMMA InsertInv ==
  ASSUME Inv, NEW c \in Calls, NEW i \in Products, Insert(c, i)
  PROVE  Inv'
<1>1. TypeOK /\ calls[c] # Idle /\ calls[c] \in InsertCall
  BY Kinds DEF Inv, Insert, At
<1> DEFINE x == [pc |-> "logNew", product |-> i, quantity |-> calls[c].quantity]
<1>2. [stock |-> calls[c].quantity, active |-> TRUE] \in Product /\ x \in NewCall
  BY <1>1, StockConstants DEF InsertCall, NewCall, Product
<1>3. product' \in [Products -> Product \cup {NoRow}] /\ RowsStay
  BY <1>1, <1>2, NoneIsNoRow DEF Insert, TypeOK, RowsStay
<1>4. x \in Call /\ SoundCall(x, product')
  BY <1>2, Apart DEF Call, SoundCall
<1>5. QED
  BY <1>1, <1>3, <1>4, CallGoes, PackagesStillSound DEF Insert, Inv, TypeOK, Sound

LEMMA LogNewInv ==
  ASSUME Inv, NEW c \in Calls, LogNew(c) \/ LogSet(c)
  PROVE  Inv'
<1>1. TypeOK /\ RowsStay /\ calls[c] # Idle
  BY DEF Inv, LogNew, LogSet, At, RowsStay
<1>2. calls[c].product \in Products /\ calls[c].quantity \in Int
  <2>1. CASE LogNew(c)
    BY <1>1, <2>1, Kinds, StockConstants DEF LogNew, At, NewCall
  <2>2. CASE LogSet(c)
    <3>1. calls[c] \in SetCall
      BY <1>1, <2>2, Kinds DEF LogSet, At
    <3>2. QED
      BY <3>1, Amounts DEF SetCall
  <2>3. QED
    BY <2>1, <2>2
<1>3. mixed' \subseteq Products
  BY <1>1, <1>2, WroteTyped DEF LogNew, LogSet, TypeOK
<1>4. logged' \in [Products -> Int] /\ End(c)
  <2>1. CASE LogNew(c)
    BY <1>1, <1>2, <2>1 DEF LogNew, TypeOK
  <2>2. CASE LogSet(c)
    BY <1>1, <1>2, <2>2 DEF LogSet, TypeOK
  <2>3. QED
    BY <2>1, <2>2
<1>5. UNCHANGED <<product, out, pkg, quota, faults, cancelled, spoilt, miscounted>>
  BY DEF LogNew, LogSet
<1>6. QED
  BY <1>1, <1>3, <1>4, <1>5, CallEnds DEF Inv, TypeOK, Sound

LEMMA SetStockInv ==
  ASSUME Inv, NEW c \in Calls, NEW i \in Products, NEW n \in Counts, SetStock(c, i, n)
  PROVE  Inv'
<1> DEFINE x == [pc |-> "logSet", product |-> i, quantity |-> n]
<1>1. TypeOK /\ x \in SetCall /\ n \in Int
  BY StockConstants DEF Inv, SetCall
<1>2. product' \in [Products -> Product \cup {NoRow}] /\ RowsStay
  BY <1>1, NoneIsNoRow DEF SetStock, TypeOK, RowsStay, Product
<1>3. x \in Call /\ SoundCall(x, product')
  BY <1>1, Apart DEF Call, SoundCall
<1>4. mixed' \subseteq Products
  BY <1>1, WroteTyped DEF SetStock
<1>5. QED
  BY <1>1, <1>2, <1>3, <1>4, CallGoes, PackagesStillSound DEF SetStock, Inv, TypeOK, Sound

LEMMA DeleteInv ==
  ASSUME Inv, NEW i \in Products, Delete(i)
  PROVE  Inv'
<1>1. TypeOK
  BY DEF Inv
<1>2. product' \in [Products -> Product \cup {NoRow}] /\ RowsStay
  BY <1>1, NoneIsNoRow DEF Delete, Active, TypeOK, RowsStay, Product
<1>3. \A c \in Calls : calls[c] # Idle => SoundCall(calls[c], product')
  BY <1>2, StillSound DEF Inv, Sound
<1>4. QED
  BY <1>1, <1>2, <1>3, PackagesStillSound DEF Delete, Inv, TypeOK, Sound

LEMMA OrderInv ==
  ASSUME Inv, NEW c \in Calls, NEW p \in Packages, NEW i \in Products,
         NEW n \in Quantities, Order(c, p, i, n)
  PROVE  Inv'
<1> DEFINE x == [pc |-> "create", package |-> p, product |-> i, quantity |-> n]
<1>1. TypeOK /\ x \in OrderCall /\ RowsStay
  BY DEF Inv, OrderCall, Order, goods, RowsStay
<1>2. x \in Call /\ SoundCall(x, product')
  BY <1>1, Apart DEF Call, SoundCall, Order, goods
<1>3. QED
  BY <1>1, <1>2, CallGoes DEF Order, goods, Inv, TypeOK, Sound

LEMMA CreatePackagesInv ==
  ASSUME Inv, NEW c \in Calls, CreatePackages(c)
  PROVE  Inv'
<1> DEFINE x == [status |-> "Created", product |-> calls[c].product,
                 quantity |-> calls[c].quantity]
<1>1. TypeOK /\ RowsStay /\ calls[c] # Idle /\ calls[c] \in OrderCall
  BY Kinds DEF Inv, CreatePackages, At, RowsStay, goods
<1>2. [calls[c] EXCEPT !.pc = "take"] \in Call
  BY <1>1 DEF Call, OrderCall
<1>3. x \in Package /\ product[x.product] # NoRow
  BY <1>1 DEF OrderCall, Package, Status, Inv, Sound, SoundCall
<1>4. pkg' \in [Packages -> Package \cup {NoRow}] /\ SoundPackages(pkg', product')
  BY <1>1, <1>3 DEF CreatePackages, goods, TypeOK, Inv, Sound, SoundPackages
<1>5. QED
  BY <1>1, <1>2, <1>4, CallGoesOn DEF CreatePackages, goods, Inv, TypeOK, Sound

LEMMA TakeInv ==
  ASSUME Inv, NEW c \in Calls, Take(c)
  PROVE  Inv'
<1> DEFINE i == calls[c].product
           n == calls[c].quantity
           p == calls[c].package
<1>1. TypeOK /\ calls[c] # Idle /\ calls[c] \in OrderCall
  BY Kinds DEF Inv, Take, At
<1>2. i \in Products /\ n \in Int /\ p \in Packages /\ product[i] # NoRow
  BY <1>1, Amounts DEF OrderCall, Inv, Sound, SoundCall
<1>3. CASE product[i].stock - n >= 0
  <2>1. product' \in [Products -> Product \cup {NoRow}] /\ RowsStay
    BY <1>1, <1>2, <1>3, NoneIsNoRow DEF Take, TypeOK, RowsStay, Product
  <2>2. out' \in [Packages -> Int]
    BY <1>1, <1>2, <1>3 DEF Take, TypeOK
  <2>3. mixed' \subseteq Products
    BY <1>1, <1>2, <1>3, WroteTyped DEF Take
  <2>4. [calls[c] EXCEPT !.pc = "logTake"] \in Call
    BY <1>1 DEF Call, OrderCall
  <2>5. QED
    BY <1>1, <1>3, <2>1, <2>2, <2>3, <2>4, CallGoesOn, PackagesStillSound
    DEF Take, Inv, TypeOK, Sound
<1>4. CASE ~(product[i].stock - n >= 0)
  <2>1. RowsStay /\ End(c) /\ spoilt' \subseteq Packages
    BY <1>1, <1>2, <1>4 DEF Take, RowsStay, TypeOK
  <2>2. QED
    BY <1>1, <1>4, <2>1, CallEnds DEF Take, Inv, TypeOK, Sound
<1>5. QED
  BY <1>3, <1>4

LEMMA LogTakeInv ==
  ASSUME Inv, NEW c \in Calls, LogTake(c)
  PROVE  Inv'
<1>1. TypeOK /\ RowsStay /\ calls[c] # Idle /\ calls[c] \in OrderCall
  BY Kinds DEF Inv, LogTake, At, RowsStay
<1>2. calls[c].product \in Products /\ calls[c].quantity \in Int
  BY <1>1, Amounts DEF OrderCall
<1>3. mixed' \subseteq Products
  BY <1>1, <1>2, WroteTyped DEF LogTake
<1>4. logged' \in [Products -> Int]
  BY <1>1, <1>2 DEF LogTake, TypeOK
<1>5. QED
  BY <1>1, <1>3, <1>4, CallEnds DEF LogTake, Inv, TypeOK, Sound

LEMMA MoveInv ==
  ASSUME Inv, NEW p \in Packages, NEW status \in Status, Move(p, status)
  PROVE  Inv'
<1>1. TypeOK /\ RowsStay /\ pkg[p] # NoRow /\ pkg[p] \in Package
  BY DEF Inv, Move, RowsStay, goods, TypeOK
<1>2. [pkg[p] EXCEPT !.status = status] \in Package
  BY <1>1 DEF Package
<1>3. pkg' \in [Packages -> Package \cup {NoRow}] /\ SoundPackages(pkg', product')
  BY <1>1, <1>2 DEF Move, goods, TypeOK, Inv, Sound, SoundPackages, Package
<1>4. spoilt' \subseteq Packages
  BY <1>1 DEF Move, TypeOK
<1>5. QED
  BY <1>1, <1>3, <1>4 DEF Move, goods, Inv, TypeOK, Sound

LEMMA BeginInv ==
  ASSUME Inv, NEW c \in Calls, NEW S \in SUBSET Packages, Begin(c, S)
  PROVE  Inv'
<1> DEFINE seen == [p \in S |-> pkg[p]]
           x == [pc |-> "check", seen |-> seen, todo |-> S, given |-> {},
                 at |-> CHOOSE p \in S : TRUE, amount |-> 0, quota |-> quota.amount]
<1>1. TypeOK /\ RowsStay /\ S # {} /\ \A p \in S : pkg[p] # NoRow
  BY DEF Inv, Begin, goods, RowsStay
<1>2. seen \in [S -> Package]
  BY <1>1 DEF TypeOK
<1>3. seen \in UNION {[T -> Package] : T \in SUBSET Packages}
  BY <1>2
<1>4. x.at \in S
  BY <1>1
<1>5. quota.amount \in Nat
  BY <1>1 DEF TypeOK
<1>6. x \in CancelCall
  BY <1>3, <1>4, <1>5 DEF CancelCall
<1>7. \A p \in S : product'[seen[p].product] # NoRow
  BY <1>1 DEF Begin, goods, Inv, Sound, SoundPackages
<1>8. x \in Call /\ SoundCall(x, product')
  BY <1>4, <1>6, <1>7, Apart DEF Call, SoundCall
<1>9. QED
  BY <1>1, <1>8, CallGoes DEF Begin, goods, Inv, TypeOK, Sound

\* A cancelling call that goes on with less of its list keeps what it has read.
LEMMA CancelGoes ==
  ASSUME Inv, NEW c \in Calls, calls[c] # Idle, calls[c] \in CancelCall, RowsStay,
         NEW x, x \in CancelCall, x.seen = calls[c].seen, x.at \in DOMAIN x.seen,
         x.todo \subseteq calls[c].todo,
         calls' = [calls EXCEPT ![c] = x]
  PROVE  /\ calls' \in [Calls -> Call \cup {Idle}]
         /\ \A d \in Calls : calls'[d] # Idle => SoundCall(calls'[d], product')
<1>1. SoundCall(calls[c], product')
  BY StillSound DEF Inv, Sound
<1>2. x \in Call /\ SoundCall(x, product')
  BY <1>1, Apart DEF Call, SoundCall
<1>3. QED
  BY <1>2, CallGoes

LEMMA RefuseInv ==
  ASSUME Inv, NEW c \in Calls, NEW p \in Packages, Refuse(c, p)
  PROVE  Inv'
<1>1. TypeOK /\ RowsStay /\ calls[c] # Idle /\ calls[c] \in CancelCall
  BY Kinds DEF Inv, Refuse, At, RowsStay, goods
<1>2. spoilt' \subseteq Packages
  BY <1>1 DEF Refuse, Abandon, TypeOK, CancelCall
<1>3. QED
  BY <1>1, <1>2, CallEnds DEF Refuse, Abandon, goods, Inv, TypeOK, Sound

LEMMA PassOverInv ==
  ASSUME Inv, NEW c \in Calls, NEW p \in Packages, PassOver(c, p)
  PROVE  Inv'
<1> DEFINE x == [calls[c] EXCEPT !.todo = @ \ {p}]
<1>1. TypeOK /\ RowsStay /\ calls[c] # Idle /\ calls[c] \in CancelCall
  BY Kinds DEF Inv, PassOver, At, RowsStay, goods
<1>2. x \in CancelCall /\ x.seen = calls[c].seen /\ x.todo \subseteq calls[c].todo
  BY <1>1 DEF CancelCall
<1>3. x.at \in DOMAIN x.seen
  BY <1>1 DEF Inv, Sound, SoundCall, CancelCall
<1>4. calls' = [calls EXCEPT ![c] = x]
  BY DEF PassOver
<1>5. QED
  BY <1>1, <1>2, <1>3, <1>4, CancelGoes DEF PassOver, goods, Inv, TypeOK, Sound

\* What a package adds to the amount is a number.
LEMMA AmountTyped ==
  ASSUME NEW c \in Calls, NEW p, calls[c] \in CancelCall
  PROVE  (IF Counted(c, p) THEN calls[c].amount + 1 ELSE calls[c].amount) \in Nat
<1>1. calls[c].amount \in Nat
  BY DEF CancelCall
<1>2. QED
  BY <1>1

\* The package that is looked at is one that was read, and its product exists.
LEMMA LookedAt ==
  ASSUME Inv, NEW c \in Calls, At(c, "check"), NEW p \in calls[c].todo
  PROVE  /\ calls[c] # Idle /\ calls[c] \in CancelCall
         /\ p \in DOMAIN calls[c].seen
         /\ calls[c].seen[p].product \in Products /\ calls[c].seen[p].quantity \in Int
         /\ product[calls[c].seen[p].product] # NoRow
<1>1. calls[c] # Idle /\ calls[c] \in CancelCall
  BY Kinds DEF Inv, At
<1>2. p \in DOMAIN calls[c].seen
  BY <1>1 DEF Inv, Sound, SoundCall
<1>3. product[calls[c].seen[p].product] # NoRow
  BY <1>1, <1>2 DEF Inv, Sound, SoundCall
<1>4. calls[c].seen[p] \in Package
  BY <1>1, <1>2, SeenTyped
<1>5. QED
  BY <1>1, <1>2, <1>3, <1>4, Amounts DEF Package

LEMMA GiveBackInv ==
  ASSUME Inv, NEW c \in Calls, NEW p \in Packages, GiveBack(c, p)
  PROVE  Inv'
<1> DEFINE line == calls[c].seen[p]
           x == [calls[c] EXCEPT !.pc = "logBack", !.at = p, !.todo = @ \ {p},
                                 !.given = @ \cup {p},
                                 !.amount = IF Counted(c, p) THEN @ + 1 ELSE @]
<1>1. TypeOK /\ calls[c] # Idle /\ calls[c] \in CancelCall /\ p \in DOMAIN calls[c].seen
  BY LookedAt DEF Inv, GiveBack
<1>2. line.product \in Products /\ line.quantity \in Int /\ product[line.product] # NoRow
  BY LookedAt DEF GiveBack
<1>3. product' \in [Products -> Product \cup {NoRow}] /\ RowsStay
  <2>1. product[line.product] \in Product
    BY <1>1, <1>2 DEF TypeOK
  <2>2. [product[line.product] EXCEPT !.stock = @ + line.quantity] \in Product
    BY <2>1, <1>2 DEF Product
  <2>3. product' = [product EXCEPT ![line.product] =
                      [product[line.product] EXCEPT !.stock = @ + line.quantity]]
    BY DEF GiveBack
  <2>4. QED
    BY <2>2, <2>3, <1>1, NoneIsNoRow DEF TypeOK, RowsStay
<1>4. x \in CancelCall /\ x.seen = calls[c].seen /\ x.todo \subseteq calls[c].todo /\ x.at = p
  <2> DEFINE amount == IF Counted(c, p) THEN calls[c].amount + 1 ELSE calls[c].amount
  <2>1. amount \in Nat
    BY <1>1, AmountTyped
  <2> HIDE DEF amount
  <2>2. [calls[c] EXCEPT !.pc = "logBack", !.at = p, !.todo = @ \ {p},
                         !.given = @ \cup {p}, !.amount = amount] \in CancelCall
    BY <1>1, <2>1 DEF CancelCall
  <2>3. x = [calls[c] EXCEPT !.pc = "logBack", !.at = p, !.todo = @ \ {p},
                             !.given = @ \cup {p}, !.amount = amount]
    BY DEF amount
  <2>4. QED
    BY <1>1, <2>2, <2>3 DEF CancelCall
<1>5. calls' = [calls EXCEPT ![c] = x]
  BY DEF GiveBack
<1>6. out' \in [Packages -> Int]
  BY <1>1, <1>2 DEF GiveBack, TypeOK
<1>7. mixed' \subseteq Products
  BY <1>1, <1>2, WroteTyped DEF GiveBack
<1>8. /\ calls' \in [Calls -> Call \cup {Idle}]
      /\ \A d \in Calls : calls'[d] # Idle => SoundCall(calls'[d], product')
  BY <1>1, <1>3, <1>4, <1>5, CancelGoes
<1>9. QED
  BY <1>1, <1>3, <1>6, <1>7, <1>8, PackagesStillSound DEF GiveBack, Inv, TypeOK, Sound

LEMMA FailBackInv ==
  ASSUME Inv, NEW c \in Calls, NEW p \in Packages, FailBack(c, p)
  PROVE  Inv'
<1> DEFINE x == [calls[c] EXCEPT !.todo = @ \ {p},
                                 !.amount = IF Counted(c, p) THEN @ + 1 ELSE @]
<1>1. TypeOK /\ RowsStay /\ calls[c] # Idle /\ calls[c] \in CancelCall
  BY LookedAt DEF Inv, FailBack, RowsStay, goods
<1>2. x \in CancelCall /\ x.seen = calls[c].seen /\ x.todo \subseteq calls[c].todo
  <2> DEFINE amount == IF Counted(c, p) THEN calls[c].amount + 1 ELSE calls[c].amount
  <2>1. amount \in Nat
    BY <1>1, AmountTyped
  <2> HIDE DEF amount
  <2>2. [calls[c] EXCEPT !.todo = @ \ {p}, !.amount = amount] \in CancelCall
    BY <1>1, <2>1 DEF CancelCall
  <2>3. x = [calls[c] EXCEPT !.todo = @ \ {p}, !.amount = amount]
    BY DEF amount
  <2>4. QED
    BY <1>1, <2>2, <2>3 DEF CancelCall
<1>3. x.at \in DOMAIN x.seen
  BY <1>1 DEF Inv, Sound, SoundCall, CancelCall
<1>4. calls' = [calls EXCEPT ![c] = x]
  BY DEF FailBack
<1>5. /\ calls' \in [Calls -> Call \cup {Idle}]
      /\ \A d \in Calls : calls'[d] # Idle => SoundCall(calls'[d], product')
  BY <1>1, <1>2, <1>3, <1>4, CancelGoes
<1>6. faults' \in 0..MaxFaults /\ spoilt' \subseteq Packages
  BY <1>1, StockConstants DEF FailBack, TypeOK
<1>7. QED
  BY <1>1, <1>5, <1>6 DEF FailBack, goods, Inv, TypeOK, Sound

LEMMA LogBackInv ==
  ASSUME Inv, NEW c \in Calls, LogBack(c)
  PROVE  Inv'
<1> DEFINE line == calls[c].seen[calls[c].at]
<1>1. TypeOK /\ RowsStay /\ calls[c] # Idle /\ calls[c] \in CancelCall
  BY Kinds DEF Inv, LogBack, At, RowsStay
<1>2. [calls[c] EXCEPT !.pc = "check"] \in Call
  BY <1>1 DEF Call, CancelCall
<1>3. line \in Package
  BY <1>1, SeenTyped DEF Inv, Sound, SoundCall
<1>4. line.product \in Products /\ line.quantity \in Int
  BY <1>3, Amounts DEF Package
<1>5. mixed' \subseteq Products
  BY <1>1, <1>4, WroteTyped DEF LogBack
<1>6. logged' \in [Products -> Int]
  BY <1>1, <1>4 DEF LogBack, TypeOK
<1>7. QED
  BY <1>1, <1>2, <1>5, <1>6, CallGoesOn DEF LogBack, Inv, TypeOK, Sound

LEMMA CancelPackagesInv ==
  ASSUME Inv, NEW c \in Calls, CancelPackages(c)
  PROVE  Inv'
<1> DEFINE seen == calls[c].seen
<1>1. TypeOK /\ RowsStay /\ calls[c] # Idle /\ calls[c] \in CancelCall
  BY Kinds DEF Inv, CancelPackages, At, RowsStay, goods
<1>2. [calls[c] EXCEPT !.pc = "count"] \in Call /\ calls[c].amount \in Nat
  BY <1>1 DEF Call, CancelCall
<1>3. \A p \in DOMAIN seen : /\ [seen[p] EXCEPT !.status = Cancelled(@)] \in Package
                             /\ product[seen[p].product] # NoRow
  <2>1. TAKE p \in DOMAIN seen
  <2>2. seen[p] \in Package /\ Cancelled(seen[p].status) \in Status
    BY <1>1, SeenTyped DEF Cancelled, Status
  <2>3. [seen[p] EXCEPT !.status = Cancelled(@)] \in Package
    BY <2>2 DEF Package
  <2>4. product[seen[p].product] # NoRow
    BY <1>1 DEF Inv, Sound, SoundCall
  <2>5. QED
    BY <2>3, <2>4
<1>4. pkg' \in [Packages -> Package \cup {NoRow}]
  BY <1>1, <1>3 DEF CancelPackages, TypeOK
<1>5. SoundPackages(pkg', product')
  <2>1. ASSUME NEW p \in Packages, pkg'[p] # NoRow
        PROVE  product[pkg'[p].product] # NoRow
    <3>1. CASE p \in DOMAIN seen
      <4>1. pkg'[p] = [seen[p] EXCEPT !.status = Cancelled(@)]
        BY <3>1 DEF CancelPackages
      <4>2. seen[p] \in Package
        BY <1>1, <3>1, SeenTyped
      <4>3. pkg'[p].product = seen[p].product
        BY <4>1, <4>2 DEF Package
      <4>4. QED
        BY <4>3, <3>1, <1>3
    <3>2. CASE p \notin DOMAIN seen
      BY <2>1, <3>2 DEF CancelPackages, Inv, Sound, SoundPackages
    <3>3. QED
      BY <3>1, <3>2
  <2>2. QED
    BY <2>1 DEF SoundPackages, CancelPackages, goods
<1>6. cancelled' \in Nat /\ spoilt' \subseteq Packages
  <2>1. DOMAIN seen \subseteq Packages
    BY <1>1, SeenTyped
  <2>2. QED
    BY <1>1, <1>2, <2>1 DEF CancelPackages, TypeOK
<1>7. QED
  BY <1>1, <1>2, <1>4, <1>5, <1>6, CallGoesOn DEF CancelPackages, goods, Inv, TypeOK, Sound

LEMMA CountInv ==
  ASSUME Inv, NEW c \in Calls, NEW late \in BOOLEAN, Count(c, late)
  PROVE  Inv'
<1>1. TypeOK /\ RowsStay /\ calls[c] # Idle /\ calls[c] \in CancelCall
  BY Kinds DEF Inv, Count, At, RowsStay, goods
<1>2. calls[c].quota \in Nat /\ calls[c].amount \in Nat
  BY <1>1 DEF CancelCall
<1>3. quota' \in [amount : Nat, expires : BOOLEAN] /\ (quota'.expires => quota'.amount > 0)
  <2>1. CASE calls[c].quota + calls[c].amount > 0
    <3>1. quota' = [amount |-> calls[c].quota + calls[c].amount, expires |-> ~late]
      BY <2>1 DEF Count
    <3>2. calls[c].quota + calls[c].amount \in Nat
      BY <1>2
    <3>3. quota' \in [amount : Nat, expires : BOOLEAN]
      BY <3>1, <3>2, ZenonT(30)
    <3>4. QED
      BY <2>1, <3>1, <3>3
  <2>2. CASE ~(calls[c].quota + calls[c].amount > 0)
    BY <1>1, <2>2 DEF Count, TypeOK
  <2>3. QED
    BY <2>1, <2>2
<1>4. miscounted' \in BOOLEAN
  BY <1>1 DEF Count, TypeOK
<1>5. QED
  BY <1>1, <1>3, <1>4, CallEnds DEF Count, goods, Inv, TypeOK, Sound

LEMMA MidnightInv ==
  ASSUME Inv, Midnight
  PROVE  Inv'
<1>1. TypeOK
  BY DEF Inv
<1>2. quota' \in [amount : Nat, expires : BOOLEAN] /\ (quota'.expires => quota'.amount > 0)
  <2>1. CASE quota.expires
    BY <2>1 DEF Midnight
  <2>2. CASE ~quota.expires
    BY <1>1, <2>2 DEF Midnight, TypeOK
  <2>3. QED
    BY <2>1, <2>2
<1>3. miscounted' \in BOOLEAN /\ cancelled' \in Nat
  BY <1>1 DEF Midnight, TypeOK
<1>4. QED
  BY <1>1, <1>2, <1>3 DEF Midnight, goods, Inv, TypeOK, Sound

LEMMA FailInv ==
  ASSUME Inv, NEW c \in Calls, Fail(c)
  PROVE  Inv'
<1>1. TypeOK /\ RowsStay /\ calls[c] # Idle /\ calls[c] \in Call
  BY Kinds DEF Inv, Fail, RowsStay
<1>2. mixed' \subseteq Products
  BY <1>1, BetweenTyped DEF Fail, TypeOK
<1>3. faults' \in 0..MaxFaults
  BY <1>1, StockConstants DEF Fail, TypeOK
<1>4. CASE At(c, "logBack")
  <2>1. calls[c] \in CancelCall
    BY <1>1, <1>4, Kinds DEF At
  <2>2. [calls[c] EXCEPT !.pc = "check"] \in Call
    BY <2>1 DEF Call, CancelCall
  <2>3. Goto(c, "check") /\ UNCHANGED <<spoilt, miscounted>>
    BY <1>4 DEF Fail
  <2>4. /\ calls' \in [Calls -> Call \cup {Idle}]
        /\ \A d \in Calls : calls'[d] # Idle => SoundCall(calls'[d], product')
    BY <1>1, <2>1, <2>2, <2>3, CallGoesOn
  <2>5. QED
    BY <1>1, <1>2, <1>3, <2>3, <2>4 DEF Fail, Inv, TypeOK, Sound
<1>5. CASE ~At(c, "logBack")
  <2>1. End(c)
    BY <1>5 DEF Fail
  <2>2. spoilt' \subseteq Packages
    <3>1. At(c, "take") => calls[c].package \in Packages
      BY <1>1, Kinds DEF At, OrderCall
    <3>2. At(c, "check") => calls[c].given \subseteq Packages
      BY <1>1, Kinds DEF At, CancelCall
    <3>3. QED
      BY <1>1, <1>5, <3>1, <3>2 DEF Fail, TypeOK
  <2>3. miscounted' \in BOOLEAN
    BY <1>1, <1>5 DEF Fail, TypeOK
  <2>4. QED
    BY <1>1, <1>2, <1>3, <2>1, <2>2, <2>3, CallEnds DEF Fail, Inv, TypeOK, Sound
<1>6. QED
  BY <1>4, <1>5

LEMMA CrashInv ==
  ASSUME Inv, Crash
  PROVE  Inv'
<1>1. TypeOK
  BY DEF Inv
<1>2. mixed' \subseteq Products
  <2>1. UNION {Between(c) : c \in Calls} \subseteq Products
    BY BetweenTyped
  <2>2. QED
    BY <1>1, <2>1 DEF Crash, TypeOK
<1>3. spoilt' \subseteq Packages
  <2>1. ASSUME NEW c \in Calls
        PROVE  (IF At(c, "take") THEN {calls[c].package}
                ELSE IF At(c, "check") \/ At(c, "logBack") THEN calls[c].given ELSE {})
                 \subseteq Packages
    <3>1. At(c, "take") => calls[c].package \in Packages
      BY <1>1, Kinds DEF At, OrderCall
    <3>2. At(c, "check") \/ At(c, "logBack") => calls[c].given \subseteq Packages
      BY <1>1, Kinds DEF At, CancelCall
    <3>3. QED
      BY <3>1, <3>2
  <2>2. QED
    BY <1>1, <2>1 DEF Crash, TypeOK
<1>4. faults' \in 0..MaxFaults /\ miscounted' \in BOOLEAN
  BY <1>1, StockConstants DEF Crash, TypeOK
<1>5. calls' \in [Calls -> Call \cup {Idle}] /\ \A c \in Calls : calls'[c] = Idle
  BY DEF Crash
<1>6. QED
  BY <1>1, <1>2, <1>3, <1>4, <1>5 DEF Crash, Inv, TypeOK, Sound

LEMMA NextInv == Inv /\ [Next]_vars => Inv'
<1>1. SUFFICES ASSUME Inv, [Next]_vars PROVE Inv'
  OBVIOUS
<1>2. ASSUME NEW c \in Calls, NEW n \in Deliveries, Find(c, n) PROVE Inv'
  BY <1>1, <1>2, FindInv
<1>3. ASSUME NEW c \in Calls, LogAdd(c) \/ SaveProduct(c) \/ LogNew(c) \/ LogSet(c) PROVE Inv'
  BY <1>1, <1>3, LogAddInv, SaveProductInv, LogNewInv
<1>4. ASSUME NEW c \in Calls, NEW i \in Products,
             Insert(c, i) \/ \E n \in Counts : SetStock(c, i, n)
      PROVE  Inv'
  BY <1>1, <1>4, InsertInv, SetStockInv
<1>5. ASSUME NEW i \in Products, Delete(i) PROVE Inv'
  BY <1>1, <1>5, DeleteInv
<1>6. ASSUME NEW c \in Calls, NEW p \in Packages, NEW i \in Products, NEW n \in Quantities,
             Order(c, p, i, n)
      PROVE  Inv'
  BY <1>1, <1>6, OrderInv
<1>7. ASSUME NEW c \in Calls, CreatePackages(c) \/ Take(c) \/ LogTake(c) PROVE Inv'
  BY <1>1, <1>7, CreatePackagesInv, TakeInv, LogTakeInv
<1>8. ASSUME NEW p \in Packages, NEW status \in Status, Move(p, status) PROVE Inv'
  BY <1>1, <1>8, MoveInv
<1>9. ASSUME NEW c \in Calls, NEW S \in SUBSET Packages, Begin(c, S) PROVE Inv'
  BY <1>1, <1>9, BeginInv
<1>10. ASSUME NEW c \in Calls, NEW p \in Packages,
              Refuse(c, p) \/ PassOver(c, p) \/ GiveBack(c, p) \/ FailBack(c, p)
       PROVE  Inv'
  BY <1>1, <1>10, RefuseInv, PassOverInv, GiveBackInv, FailBackInv
<1>11. ASSUME NEW c \in Calls,
              LogBack(c) \/ CancelPackages(c) \/ \E late \in BOOLEAN : Count(c, late)
       PROVE  Inv'
  BY <1>1, <1>11, LogBackInv, CancelPackagesInv, CountInv
<1>12. ASSUME NEW c \in Calls, Fail(c) PROVE Inv'
  BY <1>1, <1>12, FailInv
<1>13. CASE Midnight \/ Crash
  BY <1>1, <1>13, MidnightInv, CrashInv
<1>14. CASE UNCHANGED vars
  BY <1>1, <1>14 DEF vars, goods, Inv, TypeOK, Sound
<1>15. QED
  BY <1>1, <1>2, <1>3, <1>4, <1>5, <1>6, <1>7, <1>8, <1>9, <1>10, <1>11, <1>12, <1>13, <1>14
  DEF Next

LEMMA AlwaysInv == Spec => []Inv
BY InitInv, NextInv, PTL DEF Spec

\* The tables, the counter and what the handlers hold have their types in every
\* reachable state, and every call acts on rows that exist.
THEOREM TypeCorrect == Spec => []TypeOK
<1>1. Inv => TypeOK
  BY DEF Inv
<1>2. QED
  BY AlwaysInv, <1>1, PTL

-----------------------------------------------------------------------------
(* No stock falls below zero. *)

\* Steps that write no stock and begin no delivery.
LEMMA StockKept ==
  ASSUME Inv, NonNegative, UNCHANGED product,
         \A c \in Calls :
           \/ calls'[c] = calls[c]
           \/ calls'[c] = Idle
           \/ calls'[c] \notin AddCall
           \/ calls[c] # Idle /\ calls[c] \in AddCall /\ calls'[c].row = calls[c].row
  PROVE  NonNegative'
BY DEF NonNegative

\* A call that changes its step only becomes no delivery.
LEMMA GoesOnKept ==
  ASSUME Inv, NonNegative, UNCHANGED product, NEW c \in Calls, calls[c] # Idle,
         NEW pc, Goto(c, pc), pc \notin {"logAdd", "save"} \/ calls[c] \in AddCall
  PROVE  NonNegative'
<1>1. calls \in [Calls -> Call \cup {Idle}]
  BY DEF Inv, TypeOK
<1>2. \A d \in Calls : d # c => calls'[d] = calls[d]
  BY <1>1 DEF Goto
<1>3. calls'[c] = [calls[c] EXCEPT !.pc = pc]
  BY <1>1 DEF Goto
<1>4. CASE calls[c] \in AddCall
  <2>1. calls'[c].row = calls[c].row
    BY <1>3, <1>4 DEF AddCall
  <2>2. QED
    BY <1>2, <1>4, <2>1, StockKept
<1>5. CASE pc \notin {"logAdd", "save"}
  <2>1. calls'[c].pc = pc
    BY <1>1, <1>3, <1>5 DEF Call, AddCall, InsertCall, NewCall, SetCall, OrderCall, CancelCall
  <2>2. calls'[c] \notin AddCall
    BY <1>5, <2>1 DEF AddCall
  <2>3. QED
    BY <1>2, <2>2, StockKept
<1>6. QED
  BY <1>4, <1>5

LEMMA EndKept ==
  ASSUME Inv, NonNegative, UNCHANGED product, NEW c \in Calls, End(c)
  PROVE  NonNegative'
BY StockKept DEF End, Inv, TypeOK

LEMMA OtherKept ==
  ASSUME Inv, NonNegative, UNCHANGED product, NEW c \in Calls,
         NEW x, x \notin AddCall, calls' = [calls EXCEPT ![c] = x]
  PROVE  NonNegative'
BY StockKept DEF Inv, TypeOK

\* Steps that write one stock, not below zero.
LEMMA StockWritten ==
  ASSUME Inv, NonNegative, NEW i \in Products, NEW row \in Product,
         (\A n \in Deliveries : n >= 0) => row.stock >= 0,
         product' = [product EXCEPT ![i] = row],
         \A c \in Calls : \/ calls'[c] = calls[c] \/ calls'[c] = Idle
                          \/ calls'[c] \notin AddCall
  PROVE  NonNegative'
<1>1. product \in [Products -> Product \cup {NoRow}]
  BY DEF Inv, TypeOK
<1>2. SUFFICES ASSUME \A n \in Deliveries : n >= 0
               PROVE  /\ \A j \in Products : product'[j] # NoRow => product'[j].stock >= 0
                      /\ \A c \in Calls : calls'[c] # Idle /\ calls'[c] \in AddCall
                                            => calls'[c].row.stock >= 0
  BY DEF NonNegative
<1>3. \A j \in Products : product'[j] # NoRow => product'[j].stock >= 0
  BY <1>1, <1>2 DEF NonNegative
<1>4. QED
  BY <1>2, <1>3 DEF NonNegative

\* A delivery reads a stock, logs it and saves the row it read.
LEMMA DeliveryNonNegative ==
  ASSUME Inv, NonNegative, NEW c \in Calls,
         \/ \E n \in Deliveries : Find(c, n)
         \/ LogAdd(c) \/ SaveProduct(c) \/ LogNew(c)
         \/ \E i \in Products : Insert(c, i)
  PROVE  NonNegative'
<1>1. TypeOK /\ calls \in [Calls -> Call \cup {Idle}]
  BY DEF Inv, TypeOK
<1>2. ASSUME NEW n \in Deliveries, Find(c, n) PROVE NonNegative'
  <2>1. UNCHANGED product
    BY <1>2 DEF Find, goods
  <2>2. CASE calls' = [calls EXCEPT ![c] = [pc |-> "insert", quantity |-> n]]
    <3>1. [pc |-> "insert", quantity |-> n] \notin AddCall
      BY DEF AddCall
    <3>2. QED
      BY <2>1, <2>2, <3>1, OtherKept
  <2>3. ASSUME NEW i \in Active,
               calls' = [calls EXCEPT ![c] =
                 [pc |-> "logAdd", product |-> i, row |-> product[i], quantity |-> n]]
        PROVE  NonNegative'
    <3>1. calls'[c].row = product[i] /\ \A d \in Calls : d # c => calls'[d] = calls[d]
      BY <1>1, <2>3
    <3>2. QED
      BY <2>1, <2>3, <3>1 DEF NonNegative, Active
  <2>4. QED
    BY <1>2, <2>2, <2>3 DEF Find
<1>3. CASE LogAdd(c)
  <2>1. calls[c] # Idle /\ calls[c] \in AddCall
    BY <1>1, <1>3, Kinds DEF LogAdd, At
  <2>2. QED
    BY <1>3, <2>1, GoesOnKept DEF LogAdd
<1>4. CASE SaveProduct(c)
  <2> DEFINE row == [calls[c].row EXCEPT !.stock = @ + calls[c].quantity]
  <2>1. calls[c] # Idle /\ calls[c] \in AddCall
    BY <1>1, <1>4, Kinds DEF SaveProduct, At
  <2>2. row \in Product /\ calls[c].product \in Products
    BY <2>1, StockConstants DEF AddCall, Product
  <2>3. (\A n \in Deliveries : n >= 0) => row.stock >= 0
    <3>1. SUFFICES ASSUME \A n \in Deliveries : n >= 0 PROVE row.stock >= 0
      OBVIOUS
    <3>2. calls[c].row.stock >= 0 /\ calls[c].quantity >= 0
      BY <2>1, <3>1 DEF NonNegative, AddCall
    <3>3. calls[c].row.stock \in Int /\ calls[c].quantity \in Int
      BY <2>1, StockConstants DEF AddCall, Product
    <3>4. row.stock = calls[c].row.stock + calls[c].quantity
      BY <2>1 DEF AddCall, Product
    <3>5. QED
      BY <3>2, <3>3, <3>4
  <2>4. \A d \in Calls : calls'[d] = calls[d] \/ calls'[d] = Idle
    BY <1>1, <1>4 DEF SaveProduct, End
  <2>5. QED
    BY <1>4, <2>2, <2>3, <2>4, StockWritten DEF SaveProduct
<1>5. CASE LogNew(c)
  BY <1>5, EndKept DEF LogNew
<1>6. ASSUME NEW i \in Products, Insert(c, i) PROVE NonNegative'
  <2> DEFINE row == [stock |-> calls[c].quantity, active |-> TRUE]
             x == [pc |-> "logNew", product |-> i, quantity |-> calls[c].quantity]
  <2>1. calls[c] \in InsertCall
    BY <1>1, <1>6, Kinds DEF Insert, At
  <2>2. row \in Product /\ ((\A n \in Deliveries : n >= 0) => row.stock >= 0)
    BY <2>1, StockConstants DEF InsertCall, Product
  <2>3. x \notin AddCall
    BY DEF AddCall
  <2>4. calls' = [calls EXCEPT ![c] = x] /\ product' = [product EXCEPT ![i] = row]
    BY <1>6 DEF Insert
  <2>5. \A d \in Calls : calls'[d] = calls[d] \/ calls'[d] \notin AddCall
    BY <1>1, <2>3, <2>4
  <2>6. QED
    BY <2>2, <2>4, <2>5, StockWritten
<1>7. QED
  BY <1>2, <1>3, <1>4, <1>5, <1>6

\* What the owner sets is not below zero; a deletion leaves the stock.
LEMMA OwnerNonNegative ==
  ASSUME Inv, NonNegative,
         \/ \E c \in Calls, i \in Products, n \in Counts : SetStock(c, i, n)
         \/ \E c \in Calls : LogSet(c)
         \/ \E i \in Products : Delete(i)
  PROVE  NonNegative'
<1>1. product \in [Products -> Product \cup {NoRow}] /\ calls \in [Calls -> Call \cup {Idle}]
  BY DEF Inv, TypeOK
<1>2. ASSUME NEW c \in Calls, NEW i \in Products, NEW n \in Counts, SetStock(c, i, n)
      PROVE  NonNegative'
  <2> DEFINE row == [product[i] EXCEPT !.stock = n]
             x == [pc |-> "logSet", product |-> i, quantity |-> n]
  <2>1. product[i] \in Product
    BY <1>1, <1>2 DEF SetStock
  <2>2. row \in Product /\ row.stock >= 0
    BY <2>1, StockConstants DEF Product
  <2>3. x \notin AddCall
    BY DEF AddCall
  <2>4. calls' = [calls EXCEPT ![c] = x] /\ product' = [product EXCEPT ![i] = row]
    BY <1>2 DEF SetStock
  <2>5. \A d \in Calls : calls'[d] = calls[d] \/ calls'[d] \notin AddCall
    BY <1>1, <2>3, <2>4
  <2>6. QED
    BY <2>2, <2>4, <2>5, StockWritten
<1>3. ASSUME NEW c \in Calls, LogSet(c) PROVE NonNegative'
  BY <1>3, EndKept DEF LogSet
<1>4. ASSUME NEW i \in Products, Delete(i) PROVE NonNegative'
  <2> DEFINE row == [product[i] EXCEPT !.active = FALSE]
  <2>1. product[i] \in Product
    BY <1>1, <1>4 DEF Delete, Active
  <2>2. row \in Product /\ row.stock = product[i].stock
    BY <2>1 DEF Product
  <2>3. (\A n \in Deliveries : n >= 0) => row.stock >= 0
    BY <1>4, <2>2 DEF NonNegative, Delete, Active
  <2>4. product' = [product EXCEPT ![i] = row] /\ UNCHANGED calls
    BY <1>4 DEF Delete
  <2>5. QED
    BY <2>2, <2>3, <2>4, StockWritten
<1>5. QED
  BY <1>2, <1>3, <1>4

\* An order takes goods only if there are enough.
LEMMA OrderNonNegative ==
  ASSUME Inv, NonNegative, NEW c \in Calls,
         \/ \E p \in Packages, i \in Products, n \in Quantities : Order(c, p, i, n)
         \/ CreatePackages(c) \/ Take(c) \/ LogTake(c)
  PROVE  NonNegative'
<1>1. TypeOK /\ calls \in [Calls -> Call \cup {Idle}]
  BY DEF Inv, TypeOK
<1>2. ASSUME NEW p \in Packages, NEW i \in Products, NEW n \in Quantities, Order(c, p, i, n)
      PROVE  NonNegative'
  <2>1. [pc |-> "create", package |-> p, product |-> i, quantity |-> n] \notin AddCall
    BY DEF AddCall
  <2>2. QED
    BY <1>2, <2>1, OtherKept DEF Order, goods
<1>3. CASE CreatePackages(c)
  BY <1>3, GoesOnKept DEF CreatePackages, At, goods
<1>4. CASE Take(c)
  <2> DEFINE i == calls[c].product
             n == calls[c].quantity
             row == [product[i] EXCEPT !.stock = @ - n]
  <2>1. calls[c] # Idle /\ calls[c] \in OrderCall
    BY <1>1, <1>4, Kinds DEF Take, At
  <2>2. i \in Products /\ n \in Int /\ product[i] \in Product
    BY <1>1, <2>1, Amounts DEF OrderCall, Inv, Sound, SoundCall, TypeOK
  <2>3. CASE product[i].stock - n >= 0
    <3>1. row \in Product /\ row.stock >= 0
      BY <2>2, <2>3 DEF Product
    <3>2. product' = [product EXCEPT ![i] = row] /\ Goto(c, "logTake")
      BY <1>4, <2>3 DEF Take
    <3>3. calls'[c].pc = "logTake" /\ \A d \in Calls : d # c => calls'[d] = calls[d]
      BY <1>1, <2>1, <3>2 DEF Goto, OrderCall
    <3>4. calls'[c] \notin AddCall
      BY <3>3 DEF AddCall
    <3>5. QED
      BY <2>2, <3>1, <3>2, <3>3, <3>4, StockWritten
  <2>4. CASE ~(product[i].stock - n >= 0)
    BY <1>4, <2>4, EndKept DEF Take
  <2>5. QED
    BY <2>3, <2>4
<1>5. CASE LogTake(c)
  BY <1>5, EndKept DEF LogTake
<1>6. QED
  BY <1>2, <1>3, <1>4, <1>5

\* A cancellation adds to a stock.
LEMMA CancelNonNegative ==
  ASSUME Inv, NonNegative, NEW c \in Calls,
         \/ \E S \in SUBSET Packages : Begin(c, S)
         \/ \E p \in Packages : Refuse(c, p) \/ PassOver(c, p) \/ GiveBack(c, p) \/ FailBack(c, p)
         \/ LogBack(c) \/ CancelPackages(c)
         \/ \E late \in BOOLEAN : Count(c, late)
  PROVE  NonNegative'
<1>1. TypeOK /\ calls \in [Calls -> Call \cup {Idle}]
  BY DEF Inv, TypeOK
<1>2. ASSUME NEW S \in SUBSET Packages, Begin(c, S) PROVE NonNegative'
  <2> DEFINE x == [pc |-> "check", seen |-> [p \in S |-> pkg[p]], todo |-> S, given |-> {},
                   at |-> CHOOSE p \in S : TRUE, amount |-> 0, quota |-> quota.amount]
  <2>1. x.pc = "check"
    OBVIOUS
  <2>2. x \notin AddCall
    BY <2>1 DEF AddCall
  <2>3. QED
    BY <1>2, <2>2, OtherKept DEF Begin, goods
<1>3. ASSUME NEW p \in Packages, Refuse(c, p) PROVE NonNegative'
  BY <1>3, EndKept DEF Refuse, Abandon, goods
<1>4. ASSUME NEW p \in Packages, PassOver(c, p) \/ FailBack(c, p) PROVE NonNegative'
  <2>1. calls[c] # Idle /\ calls[c] \in CancelCall /\ calls[c].pc = "check"
    BY <1>1, <1>4, Kinds DEF PassOver, FailBack, At
  <2>2. calls'[c].pc = "check" /\ \A d \in Calls : d # c => calls'[d] = calls[d]
    BY <1>1, <1>4, <2>1 DEF PassOver, FailBack, CancelCall
  <2>3. calls'[c] \notin AddCall
    BY <2>2 DEF AddCall
  <2>4. QED
    BY <1>4, <2>2, <2>3, StockKept DEF PassOver, FailBack, goods
<1>5. ASSUME NEW p \in Packages, GiveBack(c, p) PROVE NonNegative'
  <2> DEFINE line == calls[c].seen[p]
             row == [product[line.product] EXCEPT !.stock = @ + line.quantity]
  <2>1. /\ calls[c] # Idle /\ calls[c] \in CancelCall
        /\ line.product \in Products /\ line.quantity \in Int
        /\ product[line.product] \in Product
    BY <1>1, <1>5, LookedAt DEF GiveBack, TypeOK
  <2>2. row \in Product /\ row.stock >= 0
    <3>1. product[line.product].stock + line.quantity >= 0
      BY <1>5 DEF GiveBack
    <3>2. QED
      BY <2>1, <3>1 DEF Product
  <2>3. product' = [product EXCEPT ![line.product] = row]
    BY <1>5 DEF GiveBack
  <2>4. calls'[c].pc = "logBack" /\ \A d \in Calls : d # c => calls'[d] = calls[d]
    BY <1>1, <1>5, <2>1 DEF GiveBack, CancelCall
  <2>5. calls'[c] \notin AddCall
    BY <2>4 DEF AddCall
  <2>6. QED
    BY <2>1, <2>2, <2>3, <2>4, <2>5, StockWritten
<1>6. CASE LogBack(c)
  BY <1>6, GoesOnKept DEF LogBack, At
<1>7. CASE CancelPackages(c)
  BY <1>7, GoesOnKept DEF CancelPackages, At, goods
<1>8. ASSUME NEW late \in BOOLEAN, Count(c, late) PROVE NonNegative'
  BY <1>8, EndKept DEF Count, goods
<1>9. QED
  BY <1>2, <1>3, <1>4, <1>5, <1>6, <1>7, <1>8

\* A failure ends a call, or lets it go on with its list; a crash ends all.
LEMMA FaultNonNegative ==
  ASSUME Inv, NonNegative, (\E c \in Calls : Fail(c)) \/ Crash
  PROVE  NonNegative'
<1>1. ASSUME NEW c \in Calls, Fail(c) PROVE NonNegative'
  BY <1>1, EndKept, GoesOnKept DEF Fail
<1>2. CASE Crash
  BY <1>2, StockKept DEF Crash
<1>3. QED
  BY <1>1, <1>2

LEMMA NextNonNegative == Inv /\ NonNegative /\ [Next]_vars => NonNegative'
<1>1. SUFFICES ASSUME Inv, NonNegative, [Next]_vars PROVE NonNegative'
  OBVIOUS
<1>2. CASE Next
  <2>1. ASSUME NEW p \in Packages, NEW status \in Status, Move(p, status) PROVE NonNegative'
    BY <1>1, <2>1 DEF Move, goods, NonNegative
  <2>2. CASE Midnight
    BY <1>1, <2>2 DEF Midnight, goods, NonNegative
  <2>3. QED
    BY <1>1, <1>2, <2>1, <2>2, DeliveryNonNegative, OwnerNonNegative, OrderNonNegative,
       CancelNonNegative, FaultNonNegative
    DEF Next
<1>3. CASE UNCHANGED vars
  BY <1>1, <1>3 DEF vars, goods, NonNegative
<1>4. QED
  BY <1>1, <1>2, <1>3

\* Whatever orders, deliveries, corrections and cancellations overlap, fail or are
\* cut off, and however many there are, what lies in the warehouse is not sold
\* twice.
THEOREM NoOverselling == Spec => []NeverOversold
<1>1. Init => NonNegative
  BY DEF Init, NonNegative
<1>2. NonNegative => NeverOversold
  BY DEF NonNegative, NeverOversold
<1>3. QED
  BY AlwaysInv, NextNonNegative, <1>1, <1>2, PTL DEF Spec

-----------------------------------------------------------------------------
(* The goods of packages. *)

\* A status is never taken back, except by a cancellation that overwrites another change.
Rank(status) ==
  IF status = "Created" THEN 0
  ELSE IF status \in {"CNPurchased", "PendingPickup"} THEN 1
  ELSE IF status = "Left" THEN 2 ELSE 3

\* A cancelling call gave the goods of p back, and its list is not saved yet; it read p
\* before p went on; an order has created p, and not yet taken its goods.
Gave(x, p) == x \in CancelCall /\ x.pc \in {"check", "logBack"} /\ p \in x.given
Late(x, p, rows) == Rank(x.seen[p].status) < Rank(rows[p].status)
Takes(x, p) == x \in OrderCall /\ x.pc = "take" /\ x.package = p

\* What a cancelling call has read is what there is, or an earlier status of it; the
\* packages it has looked at gave their goods back, or were passed over.
CancelSound(x, rows, harm) ==
  x \in CancelCall /\ x.pc \in {"check", "logBack"} =>
    /\ x.given \subseteq DOMAIN x.seen /\ x.given \cap x.todo = {}
    /\ \A p \in DOMAIN x.seen :
         /\ rows[p] # NoRow
         /\ p \in x.given => x.seen[p].status \in Cancellable
         /\ \/ p \in x.todo \cup x.given \cup harm
            \/ p \in Barcodes /\ x.seen[p].status = "PendingPickup"
         /\ p \in harm \/ x.seen[p] = rows[p] \/ Late(x, p, rows)
OrderSound(x, rows, harm) ==
  x \in OrderCall =>
    /\ x.pc = "create" => rows[x.package] = NoRow
    /\ x.pc = "take" =>
         /\ rows[x.package] # NoRow
         /\ x.package \in harm \/ rows[x.package].quantity = x.quantity

CallsSound ==
  \A c \in Calls : CancelSound(calls[c], pkg, spoilt) /\ OrderSound(calls[c], pkg, spoilt)
OneOrder ==
  \A c, d \in Calls :
    calls[c] \in OrderCall /\ calls[d] \in OrderCall /\ calls[c].package = calls[d].package
      => c = d
Untouched == \A p \in Packages : pkg[p] = NoRow => out[p] = 0

\* The goods that are out for p, or will be.
Owed(p) == out[p] + (IF \E c \in Calls : Takes(calls[c], p) THEN pkg[p].quantity ELSE 0)
Proper(p, row) ==
  CASE row.status = "Archived" -> {0}
    [] row.status = "Cancelled" -> {0} \cup (IF p \in Barcodes THEN {row.quantity} ELSE {})
    [] OTHER -> {row.quantity}

\* The goods are where they belong, or a list that gave them back will be saved and
\* nothing is out; or a list will find the package changed, as another list or staff
\* came first.
Account(p) ==
  \/ (\A c \in Calls : ~Gave(calls[c], p)) /\ Owed(p) \in Proper(p, pkg[p])
  \/ (\E c \in Calls : Gave(calls[c], p)) /\ Owed(p) = 0
  \/ \E c \in Calls : Gave(calls[c], p) /\ Late(calls[c], p, pkg)
  \/ \E c, d \in Calls : c # d /\ Gave(calls[c], p) /\ Gave(calls[d], p)
Accounts == \A p \in Packages \ spoilt : pkg[p] # NoRow => Account(p)

GInv == CallsSound /\ OneOrder /\ Untouched /\ Accounts

LEMMA Ranks ==
  /\ \A s \in Status : Rank(s) \in 0..3
  /\ \A s : Rank(Cancelled(s)) = 3
  /\ \A s \in Cancellable : Rank(s) < 3
  /\ \A s \in Status, t \in Status :
       <<s, t>> \in {<<"Created", "CNPurchased">>, <<"Created", "PendingPickup">>,
                     <<"PendingPickup", "Left">>, <<"Created", "Archived">>,
                     <<"PendingPickup", "Cancelled">>, <<"Left", "Cancelled">>}
         => Rank(s) < Rank(t)
BY DEF Rank, Cancelled, Cancellable, Status

\* Packages stay, and go on or are spoilt.
RowsAge ==
  /\ spoilt \subseteq spoilt'
  /\ \A p \in Packages : pkg[p] # NoRow =>
       /\ pkg'[p] # NoRow
       /\ \/ p \in spoilt'
          \/ pkg'[p] = pkg[p]
          \/ /\ Rank(pkg[p].status) < Rank(pkg'[p].status)
             /\ pkg'[p].quantity = pkg[p].quantity

\* A call that goes on with an older reading is sound.
LEMMA SoundStays ==
  ASSUME TypeOK, TypeOK', NEW x, RowsAge, CancelSound(x, pkg, spoilt), OrderSound(x, pkg, spoilt),
         x \in OrderCall /\ x.pc = "create" => pkg'[x.package] = NoRow
  PROVE  CancelSound(x, pkg', spoilt') /\ OrderSound(x, pkg', spoilt')
<1>1. OrderSound(x, pkg', spoilt')
  <2> SUFFICES ASSUME x \in OrderCall, x.pc = "take"
               PROVE  /\ pkg'[x.package] # NoRow
                      /\ x.package \in spoilt' \/ pkg'[x.package].quantity = x.quantity
    BY DEF OrderSound
  <2>1. x.package \in Packages
    BY DEF OrderCall
  <2>2. pkg[x.package] # NoRow /\ (x.package \in spoilt \/ pkg[x.package].quantity = x.quantity)
    BY DEF OrderSound
  <2> QED BY <2>1, <2>2 DEF RowsAge
<1>2. CancelSound(x, pkg', spoilt')
  <2> SUFFICES ASSUME x \in CancelCall, x.pc \in {"check", "logBack"}
               PROVE  CancelSound(x, pkg', spoilt')
    BY DEF CancelSound
  <2>1. /\ x.given \subseteq DOMAIN x.seen /\ x.given \cap x.todo = {}
        /\ \A p \in DOMAIN x.seen :
             /\ pkg[p] # NoRow
             /\ p \in x.given => x.seen[p].status \in Cancellable
             /\ \/ p \in x.todo \cup x.given \cup spoilt
                \/ p \in Barcodes /\ x.seen[p].status = "PendingPickup"
             /\ p \in spoilt \/ x.seen[p] = pkg[p] \/ Late(x, p, pkg)
    BY DEF CancelSound
  <2>2. ASSUME NEW p \in DOMAIN x.seen
        PROVE  /\ pkg'[p] # NoRow
               /\ p \in x.given => x.seen[p].status \in Cancellable
               /\ \/ p \in x.todo \cup x.given \cup spoilt'
                  \/ p \in Barcodes /\ x.seen[p].status = "PendingPickup"
               /\ p \in spoilt' \/ x.seen[p] = pkg'[p] \/ Late(x, p, pkg')
    <3>1. p \in Packages /\ pkg[p] # NoRow /\ x.seen[p] \in Package
      BY <2>1, <2>2, SeenTyped
    <3>2. spoilt \subseteq spoilt' /\ pkg'[p] # NoRow
      BY <3>1 DEF RowsAge
    <3>3. pkg[p] \in Package /\ pkg'[p] \in Package
      BY <3>1, <3>2 DEF TypeOK
    <3>4. p \in spoilt' \/ x.seen[p] = pkg'[p] \/ Late(x, p, pkg')
      <4> DEFINE s == Rank(x.seen[p].status)
                 r == Rank(pkg[p].status)
                 t == Rank(pkg'[p].status)
      <4>1. s \in 0..3 /\ r \in 0..3 /\ t \in 0..3
        BY <3>1, <3>3, Ranks DEF Package
      <4>2. p \in spoilt' \/ pkg'[p] = pkg[p] \/ r < t
        BY <3>1 DEF RowsAge
      <4>3. p \in spoilt \/ x.seen[p] = pkg[p] \/ s < r
        BY <2>1, <2>2 DEF Late
      <4>4. p \in spoilt' \/ x.seen[p] = pkg'[p] \/ s < t
        <5>1. x.seen[p] = pkg[p] => s = r
          OBVIOUS
        <5>2. pkg'[p] = pkg[p] => r = t
          OBVIOUS
        <5> HIDE DEF s, r, t
        <5> QED BY <3>2, <4>1, <4>2, <4>3, <5>1, <5>2
      <4> QED BY <4>4 DEF Late
    <3> QED BY <2>1, <2>2, <3>2, <3>4
  <2> QED BY <2>1, <2>2 DEF CancelSound
<1> QED BY <1>1, <1>2

\* What is out for a package is accounted for as before.
LEMMA AccountStays ==
  ASSUME NEW p, Account(p), out'[p] = out[p], pkg'[p] = pkg[p],
         \A c \in Calls : /\ Gave(calls'[c], p) <=> Gave(calls[c], p)
                          /\ Gave(calls[c], p) => calls'[c].seen = calls[c].seen
                          /\ Takes(calls'[c], p) <=> Takes(calls[c], p)
  PROVE  Account(p)'
<1>1. Owed(p)' = Owed(p)
  BY DEF Owed
<1>2. Proper(p, pkg[p])' = Proper(p, pkg[p])
  BY DEF Proper
<1>3. \A c \in Calls : Gave(calls[c], p) => (Late(calls'[c], p, pkg') <=> Late(calls[c], p, pkg))
  BY DEF Late
<1>4. \A c \in Calls : Gave(calls[c], p)' <=> Gave(calls[c], p)
  BY DEF Gave
<1>5. \A c \in Calls : Late(calls[c], p, pkg)' <=> Late(calls'[c], p, pkg')
  BY DEF Late
<1> QED BY <1>1, <1>2, <1>3, <1>4, <1>5 DEF Account

\* What the account of a package asks of a call that changes.
SameGoods(x, y) ==
  \A p \in Packages : p \notin spoilt' =>
    /\ Gave(y, p) <=> Gave(x, p)
    /\ Gave(x, p) => y.seen = x.seen
    /\ Takes(y, p) <=> Takes(x, p)

\* One call goes on, and nothing is created, cancelled, taken or given back.
LEMMA OneGoes ==
  ASSUME Inv, TypeOK', GInv, NEW c \in Calls, NEW y, calls' = [calls EXCEPT ![c] = y],
         UNCHANGED <<pkg, out>>, spoilt \subseteq spoilt',
         CancelSound(y, pkg, spoilt'), OrderSound(y, pkg, spoilt'),
         y \in OrderCall => \A d \in Calls \ {c} : calls[d] \in OrderCall => calls[d].package # y.package,
         SameGoods(calls[c], y)
  PROVE  GInv'
<1>1. \A e \in Calls : calls'[e] = IF e = c THEN y ELSE calls[e]
  BY DEF Inv, TypeOK
<1>2. RowsAge /\ TypeOK
  BY DEF RowsAge, Inv
<1>3. ASSUME NEW e \in Calls
      PROVE  CancelSound(calls'[e], pkg', spoilt') /\ OrderSound(calls'[e], pkg', spoilt')
  <2>1. CASE e = c
    BY <1>1, <2>1
  <2>2. CASE e # c
    <3>1. CancelSound(calls[e], pkg, spoilt) /\ OrderSound(calls[e], pkg, spoilt)
      BY DEF GInv, CallsSound
    <3>2. calls[e] \in OrderCall /\ calls[e].pc = "create" => pkg'[calls[e].package] = NoRow
      BY <3>1 DEF OrderSound
    <3>3. calls'[e] = calls[e]
      BY <1>1, <2>2
    <3> QED BY <1>2, <3>1, <3>2, <3>3, SoundStays
  <2> QED BY <2>1, <2>2
<1>4. CallsSound'
  BY <1>3 DEF CallsSound, CancelSound, OrderSound, Late
<1>5. OneOrder'
  BY <1>1 DEF GInv, OneOrder
<1>6. Untouched'
  BY DEF GInv, Untouched
<1>7. ASSUME NEW p \in Packages, p \notin spoilt', pkg'[p] # NoRow
      PROVE  Account(p)'
  <2>1. Account(p)
    BY <1>7 DEF GInv, Accounts
  <2>2. ASSUME NEW e \in Calls
        PROVE  /\ Gave(calls'[e], p) <=> Gave(calls[e], p)
               /\ Gave(calls[e], p) => calls'[e].seen = calls[e].seen
               /\ Takes(calls'[e], p) <=> Takes(calls[e], p)
    BY <1>1, <1>7 DEF SameGoods
  <2> QED BY <2>1, <2>2, AccountStays
<1>8. Accounts'
  BY <1>7 DEF Accounts
<1> QED BY <1>4, <1>5, <1>6, <1>8 DEF GInv

LEMMA NoGoods ==
  ASSUME NEW y, y \notin CancelCall, y \notin OrderCall
  PROVE  /\ \A rows, harm : CancelSound(y, rows, harm) /\ OrderSound(y, rows, harm)
         /\ \A p : ~Gave(y, p) /\ ~Takes(y, p)
BY DEF CancelSound, OrderSound, Gave, Takes

LEMMA IdleNoGoods == Idle \notin CancelCall /\ Idle \notin OrderCall
BY NoneIsNoRow DEF Call

\* A call that is neither of an order nor of a cancellation.
LEMMA OtherGoes ==
  ASSUME Inv, TypeOK', GInv, NEW c \in Calls, NEW y, calls' = [calls EXCEPT ![c] = y],
         UNCHANGED <<pkg, out, spoilt>>,
         calls[c] \notin CancelCall, calls[c] \notin OrderCall,
         y \notin CancelCall, y \notin OrderCall
  PROVE  GInv'
<1>1. SameGoods(calls[c], y)
  BY NoGoods DEF SameGoods
<1>2. CancelSound(y, pkg, spoilt') /\ OrderSound(y, pkg, spoilt')
  BY NoGoods
<1> QED BY <1>1, <1>2, OneGoes

\* A call ends, and spoils what it has not settled.
LEMMA Over ==
  ASSUME Inv, TypeOK', GInv, NEW c \in Calls, End(c), UNCHANGED <<pkg, out>>,
         spoilt \subseteq spoilt',
         \A p : Gave(calls[c], p) \/ Takes(calls[c], p) => p \in spoilt'
  PROVE  GInv'
<1>1. SameGoods(calls[c], Idle)
  BY NoGoods, IdleNoGoods DEF SameGoods
<1>2. CancelSound(Idle, pkg, spoilt') /\ OrderSound(Idle, pkg, spoilt')
  BY NoGoods, IdleNoGoods
<1> QED BY <1>1, <1>2, IdleNoGoods, OneGoes DEF End

LEMMA ProductGoods ==
  ASSUME Inv, TypeOK', GInv, NEW c \in Calls,
         \/ \E n \in Deliveries : Find(c, n)
         \/ LogAdd(c) \/ SaveProduct(c) \/ LogNew(c) \/ LogSet(c)
         \/ \E i \in Products : Insert(c, i) \/ \E n \in Counts : SetStock(c, i, n)
  PROVE  GInv'
<1> DEFINE x == calls[c]
<1>t. TypeOK
  BY DEF Inv
<1>0. UNCHANGED <<pkg, out, spoilt>>
  BY DEF Find, LogAdd, SaveProduct, LogNew, LogSet, Insert, SetStock, goods
<1>i. ASSUME x \in AddCall \cup InsertCall \cup NewCall \cup SetCall
      PROVE  x \notin CancelCall /\ x \notin OrderCall
  BY <1>i, Apart
<1>e. ASSUME End(c), x \notin CancelCall, x \notin OrderCall PROVE GInv'
  BY <1>0, <1>e, Over, NoGoods
<1>1. ASSUME NEW n \in Deliveries, Find(c, n) PROVE GInv'
  <2>1. x \notin CancelCall /\ x \notin OrderCall
    BY <1>1, IdleNoGoods DEF Find, Begins
  <2>2. ASSUME NEW y, calls' = [calls EXCEPT ![c] = y], y.pc \in {"insert", "logAdd"} PROVE GInv'
    <3>1. y \notin CancelCall /\ y \notin OrderCall
      BY <2>2 DEF CancelCall, OrderCall
    <3> QED BY <1>0, <2>1, <2>2, <3>1, OtherGoes
  <2>3. CASE calls' = [calls EXCEPT ![c] = [pc |-> "insert", quantity |-> n]]
    <3> DEFINE y == [pc |-> "insert", quantity |-> n]
    <3>1. calls' = [calls EXCEPT ![c] = y] /\ y.pc = "insert"
      BY <2>3
    <3> HIDE DEF y
    <3> QED BY <2>2, <3>1
  <2>4. ASSUME NEW i \in Active, calls' = [calls EXCEPT ![c] =
                 [pc |-> "logAdd", product |-> i, row |-> product[i], quantity |-> n]]
        PROVE  GInv'
    <3> DEFINE y == [pc |-> "logAdd", product |-> i, row |-> product[i], quantity |-> n]
    <3>1. calls' = [calls EXCEPT ![c] = y] /\ y.pc = "logAdd"
      BY <2>4
    <3> HIDE DEF y
    <3> QED BY <2>2, <3>1
  <2> QED BY <1>1, <2>3, <2>4 DEF Find
<1>2. CASE LogAdd(c)
  <2> DEFINE y == [x EXCEPT !.pc = "save"]
  <2>1. x \in AddCall
    BY <1>2, <1>t, Kinds DEF LogAdd, At
  <2>2. y.pc = "save" /\ calls' = [calls EXCEPT ![c] = y]
    BY <1>2, <2>1 DEF LogAdd, Goto, AddCall
  <2> HIDE DEF y
  <2>3. y \notin CancelCall /\ y \notin OrderCall
    BY <2>2 DEF CancelCall, OrderCall
  <2> QED BY <1>0, <1>i, <2>1, <2>2, <2>3, OtherGoes
<1>3. CASE SaveProduct(c)
  BY <1>3, <1>t, <1>i, <1>e, Kinds DEF SaveProduct, At
<1>4. CASE LogNew(c)
  BY <1>4, <1>t, <1>i, <1>e, Kinds DEF LogNew, At
<1>5. CASE LogSet(c)
  BY <1>5, <1>t, <1>i, <1>e, Kinds DEF LogSet, At
<1>6. ASSUME NEW i \in Products, Insert(c, i) PROVE GInv'
  <2> DEFINE y == [pc |-> "logNew", product |-> i, quantity |-> x.quantity]
  <2>1. x \in InsertCall
    BY <1>6, <1>t, Kinds DEF Insert, At
  <2>2. y.pc = "logNew" /\ calls' = [calls EXCEPT ![c] = y]
    BY <1>6 DEF Insert
  <2> HIDE DEF y
  <2>3. y \notin CancelCall /\ y \notin OrderCall
    BY <2>2 DEF CancelCall, OrderCall
  <2> QED BY <1>0, <1>i, <2>1, <2>2, <2>3, OtherGoes
<1>7. ASSUME NEW i \in Products, NEW n \in Counts, SetStock(c, i, n) PROVE GInv'
  <2> DEFINE y == [pc |-> "logSet", product |-> i, quantity |-> n]
  <2>1. x \notin CancelCall /\ x \notin OrderCall
    BY <1>7, IdleNoGoods DEF SetStock, Begins
  <2>2. y.pc = "logSet" /\ calls' = [calls EXCEPT ![c] = y]
    BY <1>7 DEF SetStock
  <2> HIDE DEF y
  <2>3. y \notin CancelCall /\ y \notin OrderCall
    BY <2>2 DEF CancelCall, OrderCall
  <2> QED BY <1>0, <2>1, <2>2, <2>3, OtherGoes
<1> QED BY <1>1, <1>2, <1>3, <1>4, <1>5, <1>6, <1>7

\* A package takes its goods after it was created.
LEMMA OrderGoods ==
  ASSUME Inv, TypeOK', GInv, NEW c \in Calls,
         \/ \E p \in Packages, i \in Products, n \in Quantities : Order(c, p, i, n)
         \/ CreatePackages(c) \/ Take(c) \/ LogTake(c)
  PROVE  GInv'
<1> DEFINE x == calls[c]
<1>t. TypeOK
  BY DEF Inv
<1>o. ASSUME x # Idle, x.pc \in {"create", "take", "logTake"}
      PROVE  /\ x \in OrderCall /\ x \notin CancelCall /\ x.package \in Packages
             /\ OrderSound(x, pkg, spoilt)
  <2>1. x \in OrderCall
    BY <1>o, <1>t, Kinds
  <2> QED BY <2>1, Apart DEF OrderCall, GInv, CallsSound
<1>1. ASSUME NEW p \in Packages, NEW i \in Products, NEW n \in Quantities, Order(c, p, i, n)
      PROVE  GInv'
  <2> DEFINE y == [pc |-> "create", package |-> p, product |-> i, quantity |-> n]
  <2>1. /\ calls' = [calls EXCEPT ![c] = y] /\ UNCHANGED <<pkg, out, spoilt>> /\ pkg[p] = NoRow
        /\ \A d \in Calls : calls[d] \in OrderCall => calls[d].package # p
        /\ x = Idle
    BY <1>1 DEF Order, Begins, goods
  <2>2. y \in OrderCall /\ y.pc = "create" /\ y.package = p
    BY DEF OrderCall
  <2> HIDE DEF y
  <2>3. y \notin CancelCall
    BY <2>2, Apart
  <2>4. SameGoods(x, y)
    BY <2>1, <2>2, <2>3, NoGoods, IdleNoGoods DEF SameGoods, Gave, Takes
  <2>5. CancelSound(y, pkg, spoilt') /\ OrderSound(y, pkg, spoilt')
    BY <2>1, <2>2, <2>3 DEF CancelSound, OrderSound
  <2> QED BY <2>1, <2>2, <2>4, <2>5, OneGoes
<1>2. CASE CreatePackages(c)
  <2> DEFINE p == x.package
             row == [status |-> "Created", product |-> x.product, quantity |-> x.quantity]
             y == [x EXCEPT !.pc = "take"]
  <2>0. x # Idle /\ x.pc = "create"
    BY <1>2 DEF CreatePackages, At
  <2>1. x \in OrderCall /\ p \in Packages /\ pkg[p] = NoRow
    BY <1>o, <2>0 DEF OrderSound
  <2>2. /\ pkg' = [pkg EXCEPT ![p] = row] /\ calls' = [calls EXCEPT ![c] = y]
        /\ out' = out /\ spoilt' = spoilt
    BY <1>2 DEF CreatePackages, Goto, goods
  <2>3. y \in OrderCall /\ y.pc = "take" /\ y.package = p /\ y.quantity = x.quantity
    BY <2>1 DEF OrderCall
  <2>4. row \in Package /\ row.status = "Created" /\ row.quantity = x.quantity
    BY <2>1 DEF OrderCall, Package, Status
  <2> HIDE DEF y, row
  <2>5. pkg'[p] = row /\ row # NoRow /\ \A q \in Packages : q # p => pkg'[q] = pkg[q]
    BY <1>t, <2>1, <2>2, <2>4, NoneIsNoRow DEF TypeOK
  <2>6. calls'[c] = y /\ \A e \in Calls : e # c => calls'[e] = calls[e]
    BY <1>t, <2>2 DEF TypeOK
  <2>7. RowsAge
    BY <2>1, <2>2, <2>5 DEF RowsAge
  <2>8. \A e \in Calls : e # c /\ calls[e] \in OrderCall => calls[e].package # p
    BY <2>1 DEF GInv, OneOrder
  <2>9. ASSUME NEW e \in Calls
        PROVE  CancelSound(calls'[e], pkg', spoilt') /\ OrderSound(calls'[e], pkg', spoilt')
    <3>1. CASE e = c
      <4>1. y \notin CancelCall
        BY <2>3, Apart
      <4> QED BY <2>3, <2>4, <2>5, <2>6, <3>1, <4>1 DEF CancelSound, OrderSound
    <3>2. CASE e # c
      <4>1. CancelSound(calls[e], pkg, spoilt) /\ OrderSound(calls[e], pkg, spoilt)
        BY DEF GInv, CallsSound
      <4>2. ASSUME calls[e] \in OrderCall, calls[e].pc = "create"
            PROVE  pkg'[calls[e].package] = NoRow
        <5>1. calls[e].package # p /\ calls[e].package \in Packages
          BY <2>8, <3>2, <4>2 DEF OrderCall
        <5>2. pkg[calls[e].package] = NoRow
          BY <4>1, <4>2 DEF OrderSound
        <5> QED BY <2>5, <5>1, <5>2
      <4> QED BY <1>t, <2>6, <2>7, <3>2, <4>1, <4>2, SoundStays
    <3> QED BY <3>1, <3>2
  <2>10. CallsSound'
    BY <2>9 DEF CallsSound, CancelSound, OrderSound, Late
  <2>11. OneOrder'
    BY <2>3, <2>6, <2>8 DEF GInv, OneOrder
  <2>12. Untouched'
    BY <2>2, <2>5 DEF GInv, Untouched
  <2>13. ASSUME NEW q \in Packages, q \notin spoilt', pkg'[q] # NoRow
         PROVE  Account(q)'
    <3>1. CASE q = p
      <4>1. ASSUME NEW e \in Calls PROVE ~Gave(calls'[e], p)
        <5>1. CASE e = c
          BY <2>3, <2>6, <5>1, Apart DEF Gave
        <5>2. CASE e # c
          BY <2>1, <2>6, <5>2 DEF Gave, GInv, CallsSound, CancelSound
        <5> QED BY <5>1, <5>2
      <4>2. Takes(calls'[c], p)
        BY <2>3, <2>6 DEF Takes
      <4>3. out'[p] = 0 /\ row.quantity \in Int
        BY <2>1, <2>2, <2>4, Amounts DEF GInv, Untouched, Package
      <4>4. Owed(q)' = pkg'[q].quantity
        <5>1. Owed(q)' = out'[q] + pkg'[q].quantity
          BY <3>1, <4>2 DEF Owed, Takes
        <5>2. pkg'[q].quantity \in Int
          BY <2>5, <3>1, <4>3
        <5> QED BY <3>1, <4>3, <5>1, <5>2
      <4>5. (Owed(q) \in Proper(q, pkg[q]))'
        BY <2>4, <2>5, <3>1, <4>4 DEF Proper
      <4> QED BY <3>1, <4>1, <4>5 DEF Account, Gave
    <3>2. CASE q # p
      <4>1. pkg'[q] = pkg[q] /\ Account(q)
        BY <1>t, <2>2, <2>5, <2>13, <3>2 DEF GInv, Accounts
      <4>2. ASSUME NEW e \in Calls
            PROVE  /\ Gave(calls'[e], q) <=> Gave(calls[e], q)
                   /\ Gave(calls[e], q) => calls'[e].seen = calls[e].seen
                   /\ Takes(calls'[e], q) <=> Takes(calls[e], q)
        <5>1. CASE e = c
          BY <2>0, <2>1, <2>3, <2>6, <3>2, <5>1, Apart DEF Gave, Takes
        <5>2. CASE e # c
          BY <2>6, <5>2
        <5> QED BY <5>1, <5>2
      <4> QED BY <2>2, <4>1, <4>2, AccountStays
    <3> QED BY <3>1, <3>2
  <2> QED BY <2>10, <2>11, <2>12, <2>13 DEF GInv, Accounts
<1>3. CASE Take(c)
  <2> DEFINE p == x.package
             n == x.quantity
             y == [x EXCEPT !.pc = "logTake"]
  <2>0. x # Idle /\ x.pc = "take"
    BY <1>3 DEF Take, At
  <2>1. /\ x \in OrderCall /\ p \in Packages /\ pkg[p] # NoRow
        /\ p \in spoilt \/ pkg[p].quantity = n
    BY <1>o, <2>0 DEF OrderSound
  <2>2. CASE ~(product[x.product].stock - n >= 0)
    <3>1. End(c) /\ spoilt' = spoilt \cup {p} /\ pkg' = pkg /\ out' = out
      BY <1>3, <2>2 DEF Take
    <3>2. \A q : Gave(x, q) \/ Takes(x, q) => q = p
      BY <2>1, Apart DEF Gave, Takes
    <3> QED BY <3>1, <3>2, Over
  <2>3. CASE product[x.product].stock - n >= 0
    <3>1. /\ out' = [out EXCEPT ![p] = @ + n] /\ calls' = [calls EXCEPT ![c] = y]
          /\ spoilt' = spoilt /\ pkg' = pkg
      BY <1>3, <2>3 DEF Take, Goto
    <3>2. y \in OrderCall /\ y.pc = "logTake" /\ y.package = p
      BY <2>1 DEF OrderCall
    <3> HIDE DEF y
    <3>3. /\ calls'[c] = y /\ \A e \in Calls : e # c => calls'[e] = calls[e]
          /\ out'[p] = out[p] + n /\ \A q \in Packages : q # p => out'[q] = out[q]
      BY <1>t, <2>1, <3>1 DEF TypeOK
    <3>4. ASSUME NEW e \in Calls
          PROVE  CancelSound(calls'[e], pkg', spoilt') /\ OrderSound(calls'[e], pkg', spoilt')
      <4>1. CASE e = c
        BY <3>2, <3>3, <4>1, Apart DEF CancelSound, OrderSound
      <4>2. CASE e # c
        BY <3>1, <3>3, <4>2 DEF GInv, CallsSound
      <4> QED BY <4>1, <4>2
    <3>5. CallsSound'
      BY <3>4 DEF CallsSound, CancelSound, OrderSound, Late
    <3>6. OneOrder'
      BY <2>1, <3>2, <3>3 DEF GInv, OneOrder
    <3>7. Untouched'
      BY <2>1, <3>1, <3>3 DEF GInv, Untouched
    <3>8. ASSUME NEW q \in Packages, NEW e \in Calls
          PROVE  /\ Gave(calls'[e], q) <=> Gave(calls[e], q)
                 /\ Gave(calls[e], q) => calls'[e].seen = calls[e].seen
                 /\ q # p => (Takes(calls'[e], q) <=> Takes(calls[e], q))
                 /\ ~Takes(calls'[e], p)
      <4>1. CASE e = c
        BY <2>1, <3>2, <3>3, <4>1, Apart DEF Gave, Takes
      <4>2. CASE e # c
        BY <2>1, <3>3, <4>2 DEF Takes, GInv, OneOrder
      <4> QED BY <4>1, <4>2
    <3>9. ASSUME NEW q \in Packages, q \notin spoilt', pkg'[q] # NoRow
          PROVE  Account(q)'
      <4>1. Account(q)
        BY <3>1, <3>9 DEF GInv, Accounts
      <4>2. CASE q # p
        BY <3>1, <3>3, <3>8, <4>1, <4>2, AccountStays
      <4>3. CASE q = p
        <5>1. Owed(q) = out[q] + n
          BY <2>0, <2>1, <3>1, <3>9, <4>3 DEF Owed, Takes
        <5>2. Owed(q)' = out'[q]
          <6>1. \A e \in Calls : ~Takes(calls[e], q)'
            BY <3>8, <4>3 DEF Takes
          <6>2. out'[q] \in Int
            BY DEF TypeOK
          <6> QED BY <6>1, <6>2 DEF Owed
        <5>3. Owed(q)' = Owed(q)
          BY <3>3, <4>3, <5>1, <5>2
        <5>4. Proper(q, pkg[q])' = Proper(q, pkg[q])
          BY <3>1 DEF Proper
        <5>5. \A e \in Calls : Gave(calls[e], q)' <=> Gave(calls[e], q)
          BY <3>8 DEF Gave
        <5>6. \A e \in Calls : Gave(calls[e], q) => (Late(calls[e], q, pkg)' <=> Late(calls[e], q, pkg))
          BY <3>1, <3>8 DEF Late
        <5> QED BY <4>1, <5>3, <5>4, <5>5, <5>6 DEF Account
      <4> QED BY <4>2, <4>3
    <3> QED BY <3>5, <3>6, <3>7, <3>9 DEF GInv, Accounts
  <2> QED BY <2>2, <2>3
<1>4. CASE LogTake(c)
  <2>0. x # Idle /\ x.pc = "logTake"
    BY <1>4 DEF LogTake, At
  <2>1. \A p : ~Gave(x, p) /\ ~Takes(x, p)
    BY <1>o, <2>0 DEF Gave, Takes
  <2> QED BY <1>4, <2>1, Over DEF LogTake
<1> QED BY <1>1, <1>2, <1>3, <1>4

\* A cancelling call that has read p read what there is, or is late.
LEMMA GaveLate ==
  ASSUME Inv, GInv, NEW c \in Calls, NEW p \in Packages, Gave(calls[c], p)
  PROVE  /\ p \in DOMAIN calls[c].seen /\ calls[c].seen[p] \in Package
         /\ calls[c].seen[p].status \in Cancellable
         /\ pkg[p] # NoRow /\ pkg[p] \in Package
         /\ p \in spoilt \/ calls[c].seen[p] = pkg[p] \/ Late(calls[c], p, pkg)
<1>1. CancelSound(calls[c], pkg, spoilt)
  BY DEF GInv, CallsSound
<1>2. calls[c] \in CancelCall /\ calls[c].pc \in {"check", "logBack"} /\ p \in calls[c].given
  BY DEF Gave
<1>3. /\ p \in DOMAIN calls[c].seen /\ calls[c].seen[p].status \in Cancellable /\ pkg[p] # NoRow
      /\ p \in spoilt \/ calls[c].seen[p] = pkg[p] \/ Late(calls[c], p, pkg)
  BY <1>1, <1>2 DEF CancelSound
<1> QED BY <1>2, <1>3, SeenTyped DEF Inv, TypeOK

\* Staff and carriers move a package on.
LEMMA MoveGoods ==
  ASSUME Inv, TypeOK', GInv, NEW p \in Packages, NEW status \in Status, Move(p, status)
  PROVE  GInv'
<1>1. /\ pkg' = [pkg EXCEPT ![p].status = status] /\ UNCHANGED <<out, calls>>
      /\ pkg[p] # NoRow /\ spoilt \subseteq spoilt'
      /\ status \in {"Archived", "Cancelled"} => p \in spoilt'
  BY DEF Move, goods
<1>2. pkg[p] \in Package
  BY <1>1 DEF Inv, TypeOK
<1>3. Rank(pkg[p].status) < Rank(status)
  BY <1>2, Ranks DEF Move, Package
<1>4. /\ pkg'[p] = [pkg[p] EXCEPT !.status = status]
      /\ \A q \in Packages : q # p => pkg'[q] = pkg[q]
  BY <1>1 DEF Inv, TypeOK
<1>5. pkg'[p] \in Package /\ pkg'[p].status = status /\ pkg'[p].quantity = pkg[p].quantity
  BY <1>2, <1>4 DEF Package
<1>6. RowsAge
  BY <1>1, <1>3, <1>4, <1>5, NoneIsNoRow DEF RowsAge
<1>7. ASSUME NEW e \in Calls
      PROVE  CancelSound(calls'[e], pkg', spoilt') /\ OrderSound(calls'[e], pkg', spoilt')
  <2>1. CancelSound(calls[e], pkg, spoilt) /\ OrderSound(calls[e], pkg, spoilt)
    BY DEF GInv, CallsSound
  <2>2. ASSUME calls[e] \in OrderCall, calls[e].pc = "create"
        PROVE  pkg'[calls[e].package] = NoRow
    BY <1>1, <1>4, <2>1, <2>2 DEF OrderSound, OrderCall
  <2> QED BY <1>1, <1>6, <2>1, <2>2, SoundStays DEF Inv
<1>8. CallsSound'
  BY <1>7 DEF CallsSound, CancelSound, OrderSound, Late
<1>9. OneOrder' /\ Untouched'
  <2>1. OneOrder'
    BY <1>1 DEF GInv, OneOrder
  <2>2. \A q \in Packages : pkg'[q] = NoRow => pkg[q] = NoRow
    BY <1>4, <1>5, NoneIsNoRow
  <2> QED BY <1>1, <2>1, <2>2 DEF GInv, Untouched
<1>10. ASSUME NEW q \in Packages, q \notin spoilt', pkg'[q] # NoRow
       PROVE  Account(q)'
  <2>1. Account(q)
    BY <1>1, <1>4, <1>10 DEF GInv, Accounts
  <2>2. CASE q # p
    BY <1>1, <1>4, <2>1, <2>2, AccountStays
  <2>3. CASE q = p /\ \E c \in Calls : Gave(calls[c], q)
    <3> PICK c \in Calls : Gave(calls[c], q)
      BY <2>3
    <3> DEFINE s == Rank(calls[c].seen[q].status)
               r == Rank(pkg[q].status)
    <3>1. /\ calls[c].seen[q] \in Package /\ pkg[q] \in Package
          /\ calls[c].seen[q] = pkg[q] \/ Late(calls[c], q, pkg)
      BY <1>1, <1>10, GaveLate
    <3>2. s \in 0..3 /\ r \in 0..3 /\ Rank(status) \in 0..3
      BY <3>1, Ranks DEF Package
    <3>3. s = r \/ s < r
      BY <3>1 DEF Late
    <3>4. s < Rank(status)
      <4> HIDE DEF s
      <4> QED BY <1>3, <2>3, <3>2, <3>3
    <3>5. (Gave(calls[c], q) /\ Late(calls[c], q, pkg))'
      BY <1>1, <1>5, <2>3, <3>4 DEF Gave, Late
    <3> QED BY <3>5 DEF Account
  <2>4. CASE q = p /\ \A c \in Calls : ~Gave(calls[c], q)
    <3>1. Owed(q) \in Proper(q, pkg[q])
      BY <2>1, <2>4 DEF Account
    <3>2. Proper(q, pkg[q]) = {pkg[q].quantity}
      BY <2>4 DEF Move, Proper
    <3>3. status \notin {"Archived", "Cancelled"}
      BY <1>1, <1>10, <2>4
    <3>4. Proper(q, pkg[q])' = {pkg[q].quantity}
      BY <1>5, <2>4, <3>3 DEF Proper
    <3>5. Owed(q)' = Owed(q)
      BY <1>1, <1>5, <2>4 DEF Owed
    <3>6. \A c \in Calls : ~Gave(calls[c], q)'
      BY <1>1, <2>4 DEF Gave
    <3> QED BY <3>1, <3>2, <3>4, <3>5, <3>6 DEF Account
  <2> QED BY <2>2, <2>3, <2>4
<1> QED BY <1>8, <1>9, <1>10 DEF GInv, Accounts

\* A cancelling call reads its list, passes packages over, and gives goods back.
LEMMA ListGoods ==
  ASSUME Inv, TypeOK', GInv, NEW c \in Calls,
         \/ \E S \in SUBSET Packages : Begin(c, S)
         \/ \E p \in Packages : Refuse(c, p) \/ PassOver(c, p) \/ FailBack(c, p)
         \/ LogBack(c) \/ \E late \in BOOLEAN : Count(c, late)
  PROVE  GInv'
<1> DEFINE x == calls[c]
<1>t. TypeOK
  BY DEF Inv
<1>l. ASSUME x # Idle, x.pc \in {"check", "logBack", "count"}
      PROVE  x \in CancelCall /\ x \notin OrderCall /\ CancelSound(x, pkg, spoilt)
  <2>1. x \in CancelCall
    BY <1>l, <1>t, Kinds
  <2> QED BY <2>1, Apart DEF GInv, CallsSound
<1>1. ASSUME NEW S \in SUBSET Packages, Begin(c, S) PROVE GInv'
  <2> DEFINE y == [pc |-> "check", seen |-> [p \in S |-> pkg[p]], todo |-> S, given |-> {},
                   at |-> CHOOSE p \in S : TRUE, amount |-> 0, quota |-> quota.amount]
  <2>1. /\ calls' = [calls EXCEPT ![c] = y] /\ UNCHANGED <<pkg, out, spoilt>> /\ x = Idle
        /\ \A p \in S : pkg[p] # NoRow
    BY <1>1 DEF Begin, Begins, goods
  <2>2. /\ y.pc = "check" /\ DOMAIN y.seen = S /\ y.todo = S /\ y.given = {}
        /\ \A p \in S : y.seen[p] = pkg[p]
    OBVIOUS
  <2> HIDE DEF y
  <2>3. y \notin OrderCall
    BY <2>2 DEF OrderCall
  <2>4. SameGoods(x, y)
    BY <2>1, <2>2, <2>3, NoGoods, IdleNoGoods DEF SameGoods, Gave, Takes
  <2>5. CancelSound(y, pkg, spoilt') /\ OrderSound(y, pkg, spoilt')
    BY <2>1, <2>2, <2>3 DEF CancelSound, OrderSound
  <2> QED BY <2>1, <2>3, <2>4, <2>5, OneGoes
<1>2. ASSUME NEW p \in Packages, Refuse(c, p) PROVE GInv'
  <2>1. x # Idle /\ x.pc = "check" /\ x \notin OrderCall
    BY <1>2, <1>l DEF Refuse, At
  <2>2. \A q : Gave(x, q) \/ Takes(x, q) => q \in spoilt'
    BY <1>2, <2>1 DEF Refuse, Abandon, Gave, Takes
  <2> QED BY <1>2, <2>2, Over DEF Refuse, Abandon, goods
<1>3. ASSUME NEW p \in Packages, PassOver(c, p) PROVE GInv'
  <2> DEFINE y == [x EXCEPT !.todo = @ \ {p}]
  <2>0. x # Idle /\ x.pc = "check" /\ p \in x.todo
    BY <1>3 DEF PassOver, At
  <2>1. x \in CancelCall /\ x \notin OrderCall /\ CancelSound(x, pkg, spoilt)
    BY <1>l, <2>0
  <2>2. calls' = [calls EXCEPT ![c] = y] /\ UNCHANGED <<pkg, out, spoilt>>
        /\ p \in Barcodes /\ x.seen[p].status = "PendingPickup"
    BY <1>3 DEF PassOver, PassedOver, goods
  <2>3. /\ y \in CancelCall /\ y.pc = "check" /\ y.seen = x.seen /\ y.given = x.given
        /\ y.todo = x.todo \ {p}
    BY <2>0, <2>1 DEF CancelCall
  <2> HIDE DEF y
  <2>4. y \notin OrderCall
    BY <2>3, Apart
  <2>5. SameGoods(x, y)
    BY <2>0, <2>1, <2>3, <2>4 DEF SameGoods, Gave, Takes
  <2>6. CancelSound(y, pkg, spoilt')
    BY <2>0, <2>1, <2>2, <2>3 DEF CancelSound, Late
  <2>7. OrderSound(y, pkg, spoilt')
    BY <2>4 DEF OrderSound
  <2> QED BY <2>2, <2>4, <2>5, <2>6, <2>7, OneGoes
<1>4. ASSUME NEW p \in Packages, FailBack(c, p) PROVE GInv'
  <2>0. x # Idle /\ x.pc = "check" /\ p \in x.todo
    BY <1>4 DEF FailBack, At
  <2>1. x \in CancelCall /\ x \notin OrderCall /\ CancelSound(x, pkg, spoilt)
    BY <1>l, <2>0
  <2> DEFINE more == IF Counted(c, p) THEN x.amount + 1 ELSE x.amount
             y == [x EXCEPT !.todo = @ \ {p}, !.amount = more]
  <2>2. calls' = [calls EXCEPT ![c] = y] /\ UNCHANGED <<pkg, out>> /\ spoilt' = spoilt \cup {p}
    BY <1>4, <1>t, <2>1 DEF FailBack, goods, TypeOK
  <2>n. more \in Nat
    BY <2>1 DEF CancelCall
  <2> HIDE DEF more
  <2>3. /\ y \in CancelCall /\ y.pc = "check" /\ y.seen = x.seen /\ y.given = x.given
        /\ y.todo = x.todo \ {p}
    BY <2>0, <2>1, <2>n DEF CancelCall
  <2> HIDE DEF y
  <2>4. y \notin OrderCall
    BY <2>3, Apart
  <2>5. SameGoods(x, y)
    BY <2>0, <2>1, <2>3, <2>4 DEF SameGoods, Gave, Takes
  <2>6. CancelSound(y, pkg, spoilt')
    BY <2>0, <2>1, <2>2, <2>3 DEF CancelSound, Late
  <2>7. OrderSound(y, pkg, spoilt')
    BY <2>4 DEF OrderSound
  <2> QED BY <2>2, <2>4, <2>5, <2>6, <2>7, OneGoes
<1>5. CASE LogBack(c)
  <2> DEFINE y == [x EXCEPT !.pc = "check"]
  <2>0. x # Idle /\ x.pc = "logBack"
    BY <1>5 DEF LogBack, At
  <2>1. x \in CancelCall /\ x \notin OrderCall /\ CancelSound(x, pkg, spoilt)
    BY <1>l, <2>0
  <2>2. calls' = [calls EXCEPT ![c] = y] /\ UNCHANGED <<pkg, out, spoilt>>
    BY <1>5 DEF LogBack, Goto
  <2>3. /\ y \in CancelCall /\ y.pc = "check" /\ y.seen = x.seen /\ y.given = x.given
        /\ y.todo = x.todo
    BY <2>0, <2>1 DEF CancelCall
  <2> HIDE DEF y
  <2>4. y \notin OrderCall
    BY <2>3, Apart
  <2>5. SameGoods(x, y)
    BY <2>0, <2>1, <2>3, <2>4 DEF SameGoods, Gave, Takes
  <2>6. CancelSound(y, pkg, spoilt')
    BY <2>0, <2>1, <2>2, <2>3 DEF CancelSound, Late
  <2>7. OrderSound(y, pkg, spoilt')
    BY <2>4 DEF OrderSound
  <2> QED BY <2>2, <2>4, <2>5, <2>6, <2>7, OneGoes
<1>6. ASSUME NEW late \in BOOLEAN, Count(c, late) PROVE GInv'
  <2>1. x # Idle /\ x.pc = "count" /\ x \notin OrderCall
    BY <1>6, <1>l DEF Count, At
  <2>2. \A q : Gave(x, q) \/ Takes(x, q) => q \in spoilt'
    BY <2>1 DEF Gave, Takes
  <2> QED BY <1>6, <2>2, Over DEF Count, goods
<1> QED BY <1>1, <1>2, <1>3, <1>4, <1>5, <1>6

\* Goods are given back for a package nobody else gave them back for, or the lists of two
\* will find that they met.
LEMMA GiveBackGoods ==
  ASSUME Inv, TypeOK', GInv, NEW c \in Calls, NEW p \in Packages, GiveBack(c, p)
  PROVE  GInv'
<1> DEFINE x == calls[c]
           line == x.seen[p]
           more == IF Counted(c, p) THEN x.amount + 1 ELSE x.amount
           y == [x EXCEPT !.pc = "logBack", !.at = p, !.todo = @ \ {p}, !.given = @ \cup {p},
                          !.amount = more]
<1>t. TypeOK
  BY DEF Inv
<1>0. x # Idle /\ x.pc = "check" /\ p \in x.todo
  BY DEF GiveBack, At
<1>1. x \in CancelCall /\ CancelSound(x, pkg, spoilt)
  BY <1>t, <1>0, Kinds DEF GInv, CallsSound
<1>2. /\ calls' = [calls EXCEPT ![c] = y] /\ out' = [out EXCEPT ![p] = @ - line.quantity]
      /\ UNCHANGED <<pkg, spoilt>>
      /\ line.status \in Cancellable
  BY <1>t, <1>1 DEF GiveBack, Refused, TypeOK
<1>3. p \in DOMAIN x.seen /\ line \in Package /\ pkg[p] # NoRow /\ p \notin x.given
  BY <1>0, <1>1, SeenTyped DEF CancelSound, Inv, Sound, SoundCall
<1>n. more \in Nat
  BY <1>1 DEF CancelCall
<1> HIDE DEF more
<1>4. /\ y \in CancelCall /\ y.pc = "logBack" /\ y.seen = x.seen /\ y.given = x.given \cup {p}
      /\ y.todo = x.todo \ {p}
  BY <1>0, <1>1, <1>n DEF CancelCall
<1> HIDE DEF y
<1>5. y \notin OrderCall
  BY <1>4, Apart
<1>6. /\ calls'[c] = y /\ \A e \in Calls : e # c => calls'[e] = calls[e]
      /\ out'[p] = out[p] - line.quantity /\ \A q \in Packages : q # p => out'[q] = out[q]
  BY <1>t, <1>2 DEF TypeOK
<1>7. CancelSound(y, pkg, spoilt)
  <2> SUFFICES /\ y.given \subseteq DOMAIN y.seen /\ y.given \cap y.todo = {}
               /\ \A q \in DOMAIN y.seen :
                    /\ pkg[q] # NoRow
                    /\ q \in y.given => y.seen[q].status \in Cancellable
                    /\ \/ q \in y.todo \cup y.given \cup spoilt
                       \/ q \in Barcodes /\ y.seen[q].status = "PendingPickup"
                    /\ q \in spoilt \/ y.seen[q] = pkg[q] \/ Late(y, q, pkg)
    BY DEF CancelSound
  <2>1. /\ x.given \subseteq DOMAIN x.seen /\ x.given \cap x.todo = {}
        /\ \A q \in DOMAIN x.seen :
             /\ pkg[q] # NoRow
             /\ q \in x.given => x.seen[q].status \in Cancellable
             /\ \/ q \in x.todo \cup x.given \cup spoilt
                \/ q \in Barcodes /\ x.seen[q].status = "PendingPickup"
             /\ q \in spoilt \/ x.seen[q] = pkg[q] \/ Late(x, q, pkg)
    BY <1>0, <1>1 DEF CancelSound
  <2>2. \A q : Late(y, q, pkg) <=> Late(x, q, pkg)
    BY <1>4 DEF Late
  <2> QED BY <1>2, <1>3, <1>4, <2>1, <2>2
<1>8. ASSUME NEW e \in Calls
      PROVE  CancelSound(calls'[e], pkg', spoilt') /\ OrderSound(calls'[e], pkg', spoilt')
  <2>1. CASE e = c
    BY <1>2, <1>5, <1>6, <1>7, <2>1 DEF OrderSound
  <2>2. CASE e # c
    BY <1>2, <1>6, <2>2 DEF GInv, CallsSound
  <2> QED BY <2>1, <2>2
<1>9. CallsSound'
  BY <1>8 DEF CallsSound, CancelSound, OrderSound, Late
<1>10. OneOrder'
  BY <1>5, <1>6 DEF GInv, OneOrder
<1>11. Untouched'
  BY <1>2, <1>3, <1>6 DEF GInv, Untouched
<1>12. ASSUME NEW e \in Calls, NEW q \in Packages
       PROVE  /\ q # p \/ e # c => (Gave(calls'[e], q) <=> Gave(calls[e], q))
              /\ Gave(calls[e], q) => calls'[e].seen = calls[e].seen
              /\ Takes(calls'[e], q) <=> Takes(calls[e], q)
  <2>1. CASE e = c
    BY <1>0, <1>1, <1>4, <1>5, <1>6, <2>1, Apart DEF Gave, Takes
  <2>2. CASE e # c
    BY <1>6, <2>2
  <2> QED BY <2>1, <2>2
<1>13. Gave(calls'[c], p) /\ calls'[c].seen[p] = line /\ ~Gave(calls[c], p)
  BY <1>3, <1>4, <1>6 DEF Gave
<1>14. ASSUME NEW q \in Packages, q \notin spoilt', pkg'[q] # NoRow
       PROVE  Account(q)'
  <2>1. Account(q) /\ q \notin spoilt /\ pkg'[q] = pkg[q]
    BY <1>2, <1>14 DEF GInv, Accounts
  <2>2. CASE q # p
    BY <1>6, <1>12, <2>1, <2>2, AccountStays
  <2>3. CASE q = p /\ \E d \in Calls : Gave(calls[d], q)
    <3> PICK d \in Calls : Gave(calls[d], q)
      BY <2>3
    <3>1. d # c
      BY <1>13, <2>3
    <3>2. Gave(calls'[d], q) /\ Gave(calls'[c], q)
      BY <1>12, <1>13, <2>3, <3>1
    <3>3. (Gave(calls[d], q) /\ Gave(calls[c], q))'
      BY <3>2 DEF Gave
    <3> QED BY <3>1, <3>3 DEF Account
  <2>4. CASE q = p /\ \A d \in Calls : ~Gave(calls[d], q)
    <3>1. Gave(calls[c], q)'
      BY <1>13, <2>4 DEF Gave
    <3>2. CASE Late(x, p, pkg)
      <4>1. Late(calls[c], q, pkg)'
        BY <1>13, <2>1, <2>4, <3>2 DEF Late
      <4> QED BY <3>1, <4>1 DEF Account
    <3>3. CASE ~Late(x, p, pkg)
      <4>1. line = pkg[p]
        BY <1>0, <1>1, <1>3, <2>1, <2>4, <3>3 DEF CancelSound
      <4>2. Owed(q) \in Proper(q, pkg[q])
        BY <2>1, <2>4 DEF Account
      <4>3. Proper(q, pkg[q]) = {line.quantity}
        BY <1>2, <2>4, <4>1 DEF Proper, Cancellable
      <4>4. Owed(q)' = Owed(q) - line.quantity
        <5> DEFINE pend == IF \E e \in Calls : Takes(calls[e], q) THEN pkg[q].quantity ELSE 0
        <5>1. line.quantity \in Int /\ out[q] \in Int /\ out'[q] \in Int
          BY <1>3, <1>t, Amounts DEF Package, TypeOK
        <5>2. pend \in Int
          BY <2>4, <4>1, <5>1
        <5>3. Owed(q) = out[q] + pend
          BY DEF Owed
        <5>4. \A e \in Calls : Takes(calls[e], q)' <=> Takes(calls[e], q)
          BY <1>12 DEF Takes
        <5>5. Owed(q)' = out'[q] + pend
          BY <2>1, <5>4 DEF Owed
        <5> HIDE DEF pend, line
        <5> QED BY <1>6, <2>4, <5>1, <5>2, <5>3, <5>5
      <4>5. line.quantity \in Int
        BY <1>3, Amounts DEF Package
      <4>6. Owed(q)' = 0
        <5> HIDE DEF line
        <5> QED BY <4>2, <4>3, <4>4, <4>5
      <4> QED BY <3>1, <4>6 DEF Account
    <3> QED BY <3>2, <3>3
  <2> QED BY <2>2, <2>3, <2>4
<1> QED BY <1>9, <1>10, <1>11, <1>14 DEF GInv, Accounts

\* The whole list is saved: packages that changed meanwhile are spoilt, the others were
\* given back or passed over, and every other list that read them comes late.
LEMMA CancelGoods ==
  ASSUME Inv, TypeOK', GInv, NEW c \in Calls, CancelPackages(c)
  PROVE  GInv'
<1> DEFINE x == calls[c]
           seen == x.seen
           y == [x EXCEPT !.pc = "count"]
<1>t. TypeOK
  BY DEF Inv
<1>0. x # Idle /\ x.pc = "check" /\ x.todo = {}
  BY DEF CancelPackages, At
<1>1. x \in CancelCall /\ CancelSound(x, pkg, spoilt)
  BY <1>t, <1>0, Kinds DEF GInv, CallsSound
<1>2. /\ pkg' = [p \in Packages |-> IF p \in DOMAIN seen
                                    THEN [seen[p] EXCEPT !.status = Cancelled(@)] ELSE pkg[p]]
      /\ spoilt' = spoilt \cup {p \in DOMAIN seen : pkg[p] # seen[p]}
      /\ calls' = [calls EXCEPT ![c] = y] /\ out' = out
  BY DEF CancelPackages, Goto, goods
<1>3. DOMAIN seen \subseteq Packages /\ \A p \in DOMAIN seen : seen[p] \in Package
  BY <1>1, SeenTyped
<1>4. y \in CancelCall /\ y.pc = "count"
  BY <1>1 DEF CancelCall
<1> HIDE DEF y
<1>5. y \notin OrderCall
  BY <1>4, Apart
<1>6. calls'[c] = y /\ \A e \in Calls : e # c => calls'[e] = calls[e]
  BY <1>t, <1>2 DEF TypeOK
<1>7. /\ x.given \subseteq DOMAIN seen
      /\ \A p \in DOMAIN seen :
           /\ pkg[p] # NoRow
           /\ \/ p \in x.given /\ seen[p].status \in Cancellable
              \/ p \in spoilt
              \/ p \in Barcodes /\ seen[p].status = "PendingPickup"
  BY <1>0, <1>1 DEF CancelSound
<1>8. ASSUME NEW p \in DOMAIN seen
      PROVE  /\ pkg'[p] \in Package /\ pkg'[p].status = Cancelled(seen[p].status)
             /\ pkg'[p].quantity = seen[p].quantity /\ Rank(pkg'[p].status) = 3
             /\ p \notin spoilt' => /\ pkg[p] = seen[p] /\ p \notin spoilt
                                    /\ seen[p].status \in Cancellable
  <2>1. p \in Packages /\ seen[p] \in Package
    BY <1>3
  <2>2. pkg'[p] = [seen[p] EXCEPT !.status = Cancelled(@)]
    BY <1>2, <2>1
  <2>3. /\ pkg'[p].status = Cancelled(seen[p].status) /\ pkg'[p].quantity = seen[p].quantity
        /\ pkg'[p] # NoRow
    <3>1. Cancelled(seen[p].status) \in Status
      BY DEF Cancelled, Status
    <3>2. pkg'[p] \in Package
      <4> HIDE DEF seen
      <4> QED BY <2>1, <2>2, <3>1 DEF Package
    <3> QED BY <2>1, <2>2, <3>2, NoneIsNoRow DEF Package
  <2>4. p \notin spoilt' => pkg[p] = seen[p] /\ p \notin spoilt
    BY <1>2
  <2>5. p \notin spoilt' => seen[p].status \in Cancellable
    BY <1>7, <2>4 DEF Cancellable
  <2>6. pkg'[p] \in Package
    BY <2>1, <2>3 DEF TypeOK
  <2>7. Rank(pkg'[p].status) = 3
    BY <2>3, Ranks
  <2> QED BY <2>3, <2>4, <2>5, <2>6, <2>7
<1>9. \A p \in Packages : p \notin DOMAIN seen => pkg'[p] = pkg[p]
  BY <1>2
<1>10. RowsAge
  <2>1. spoilt \subseteq spoilt'
    BY <1>2
  <2>2. ASSUME NEW p \in Packages, pkg[p] # NoRow
        PROVE  /\ pkg'[p] # NoRow
               /\ \/ p \in spoilt'
                  \/ pkg'[p] = pkg[p]
                  \/ /\ Rank(pkg[p].status) < Rank(pkg'[p].status)
                     /\ pkg'[p].quantity = pkg[p].quantity
    <3>1. CASE p \notin DOMAIN seen
      BY <1>9, <2>2, <3>1
    <3>2. CASE p \in DOMAIN seen
      <4> HIDE DEF seen
      <4>1. p \notin spoilt' => Rank(pkg[p].status) < 3
        BY <1>8, <3>2, Ranks
      <4> QED BY <1>8, <3>2, <4>1, NoneIsNoRow
    <3> QED BY <3>1, <3>2
  <2> QED BY <2>1, <2>2 DEF RowsAge
<1>11. ASSUME NEW e \in Calls
       PROVE  CancelSound(calls'[e], pkg', spoilt') /\ OrderSound(calls'[e], pkg', spoilt')
  <2>1. CASE e = c
    BY <1>4, <1>5, <1>6, <2>1 DEF CancelSound, OrderSound
  <2>2. CASE e # c
    <3>1. CancelSound(calls[e], pkg, spoilt) /\ OrderSound(calls[e], pkg, spoilt)
      BY DEF GInv, CallsSound
    <3>2. ASSUME calls[e] \in OrderCall, calls[e].pc = "create"
          PROVE  pkg'[calls[e].package] = NoRow
      <4>1. calls[e].package \in Packages /\ pkg[calls[e].package] = NoRow
        BY <3>1, <3>2 DEF OrderSound, OrderCall
      <4> QED BY <1>7, <1>9, <4>1
    <3> QED BY <1>t, <1>6, <1>10, <2>2, <3>1, <3>2, SoundStays
  <2> QED BY <2>1, <2>2
<1>12. CallsSound'
  BY <1>11 DEF CallsSound, CancelSound, OrderSound, Late
<1>13. OneOrder'
  BY <1>5, <1>6 DEF GInv, OneOrder
<1>14. Untouched'
  <2>1. \A q \in Packages : pkg'[q] = NoRow => pkg[q] = NoRow
    BY <1>8, <1>9, NoneIsNoRow
  <2> QED BY <1>2, <2>1 DEF GInv, Untouched
<1>15. ASSUME NEW e \in Calls, NEW q \in Packages
       PROVE  /\ e # c => (Gave(calls'[e], q) <=> Gave(calls[e], q))
              /\ ~Gave(calls'[c], q)
              /\ e # c => calls'[e].seen = calls[e].seen
              /\ Takes(calls'[e], q) <=> Takes(calls[e], q)
              /\ Gave(calls[c], q) <=> q \in x.given
  <2>1. Gave(calls[c], q) <=> q \in x.given
    BY <1>0, <1>1 DEF Gave
  <2>2. ~Gave(calls'[c], q) /\ ~Takes(calls'[c], q) /\ ~Takes(calls[c], q)
    BY <1>1, <1>4, <1>5, <1>6, Apart DEF Gave, Takes
  <2> QED BY <1>6, <2>1, <2>2
<1>16. ASSUME NEW q \in Packages, q \notin spoilt', pkg'[q] # NoRow
       PROVE  Account(q)'
  <2>0. q \notin spoilt /\ out'[q] = out[q]
    BY <1>2, <1>16
  <2>1. CASE q \notin DOMAIN seen
    <3>1. pkg'[q] = pkg[q] /\ Account(q)
      BY <1>9, <1>16, <2>0, <2>1 DEF GInv, Accounts
    <3>2. ~Gave(calls[c], q)
      BY <1>7, <1>15, <2>1
    <3>3. \A e \in Calls : /\ Gave(calls'[e], q) <=> Gave(calls[e], q)
                           /\ Gave(calls[e], q) => calls'[e].seen = calls[e].seen
                           /\ Takes(calls'[e], q) <=> Takes(calls[e], q)
      BY <1>15, <3>2
    <3> QED BY <2>0, <3>1, <3>3, AccountStays
  <2>2. CASE q \in DOMAIN seen /\ \E d \in Calls \ {c} : Gave(calls[d], q)
    <3> PICK d \in Calls \ {c} : Gave(calls[d], q)
      BY <2>2
    <3>1. Gave(calls'[d], q) /\ calls'[d].seen = calls[d].seen
      BY <1>15
    <3>2. calls[d].seen[q].status \in Cancellable
      BY GaveLate
    <3>3. Rank(calls[d].seen[q].status) < 3
      BY <3>2, Ranks
    <3>4. Rank(pkg'[q].status) = 3
      BY <1>8, <2>2
    <3>5. (Gave(calls[d], q) /\ Late(calls[d], q, pkg))'
      <4>1. Gave(calls[d], q)'
        BY <3>1 DEF Gave
      <4>2. Late(calls[d], q, pkg)'
        BY <3>1, <3>3, <3>4 DEF Late
      <4> QED BY <4>1, <4>2
    <3> QED BY <3>5 DEF Account
  <2>3. CASE q \in DOMAIN seen /\ \A d \in Calls \ {c} : ~Gave(calls[d], q)
    <3>1. /\ pkg[q] = seen[q] /\ seen[q].status \in Cancellable /\ pkg[q] # NoRow
          /\ pkg'[q].quantity = pkg[q].quantity /\ pkg'[q].status = Cancelled(seen[q].status)
      BY <1>7, <1>8, <1>16, <2>3
    <3>2. Account(q)
      BY <2>0, <3>1 DEF GInv, Accounts
    <3>3. \A e \in Calls : ~Gave(calls'[e], q)
      BY <1>15, <2>3
    <3>4. Owed(q)' = Owed(q)
      <4>1. \A e \in Calls : Takes(calls[e], q)' <=> Takes(calls[e], q)
        BY <1>15 DEF Takes
      <4> QED BY <2>0, <3>1, <4>1 DEF Owed
    <3>5. Owed(q) = 0 \/ (Owed(q) = pkg[q].quantity /\ q \in Barcodes /\ seen[q].status = "PendingPickup")
      <4>1. CASE q \in x.given
        <5>1. Gave(calls[c], q) /\ \A e \in Calls : Gave(calls[e], q) => e = c
          BY <1>15, <2>3, <4>1
        <5>2. ~Late(calls[c], q, pkg)
          <6>1. Rank(pkg[q].status) \in 0..3
            BY <1>3, <2>3, <3>1, Ranks DEF Package
          <6> QED BY <3>1, <6>1 DEF Late
        <5> QED BY <3>2, <5>1, <5>2 DEF Account
      <4>2. CASE q \notin x.given
        <5>1. q \in Barcodes /\ seen[q].status = "PendingPickup"
          BY <1>7, <2>0, <2>3, <4>2
        <5>2. \A e \in Calls : ~Gave(calls[e], q)
          BY <1>15, <2>3, <4>2
        <5>3. Owed(q) \in Proper(q, pkg[q])
          BY <3>2, <5>2 DEF Account
        <5>4. Proper(q, pkg[q]) = {pkg[q].quantity}
          BY <3>1, <5>1 DEF Proper
        <5> QED BY <5>1, <5>3, <5>4
      <4> QED BY <4>1, <4>2
    <3>6. 0 \in Proper(q, pkg'[q]) /\ (q \in Barcodes /\ seen[q].status = "PendingPickup"
                                         => pkg[q].quantity \in Proper(q, pkg'[q]))
      BY <3>1 DEF Proper, Cancelled
    <3>7. (Owed(q) \in Proper(q, pkg[q]))'
      BY <3>4, <3>5, <3>6 DEF Proper
    <3>8. \A e \in Calls : ~Gave(calls[e], q)'
      BY <3>3 DEF Gave
    <3> QED BY <3>7, <3>8 DEF Account
  <2> QED BY <2>1, <2>2, <2>3
<1> QED BY <1>12, <1>13, <1>14, <1>16 DEF GInv, Accounts

\* A failure or a crash spoils the packages whose goods were on their way.
LEMMA FaultGoods ==
  ASSUME Inv, TypeOK', GInv, (\E c \in Calls : Fail(c)) \/ Crash
  PROVE  GInv'
<1>t. TypeOK
  BY DEF Inv
<1>1. ASSUME NEW c \in Calls, Fail(c) PROVE GInv'
  <2> DEFINE x == calls[c]
  <2>0. x # Idle /\ UNCHANGED <<pkg, out>>
    BY <1>1 DEF Fail
  <2>1. CASE At(c, "logBack")
    <3> DEFINE y == [x EXCEPT !.pc = "check"]
    <3>1. x \in CancelCall /\ x \notin OrderCall /\ x.pc = "logBack" /\ CancelSound(x, pkg, spoilt)
      BY <1>t, <2>1, Kinds, Apart DEF At, GInv, CallsSound
    <3>2. calls' = [calls EXCEPT ![c] = y] /\ spoilt' = spoilt
      BY <1>1, <2>1 DEF Fail, Goto
    <3>3. /\ y \in CancelCall /\ y.pc = "check" /\ y.seen = x.seen /\ y.given = x.given
          /\ y.todo = x.todo
      BY <3>1 DEF CancelCall
    <3> HIDE DEF y
    <3>4. y \notin OrderCall
      BY <3>3, Apart
    <3>5. SameGoods(x, y)
      BY <3>1, <3>3, <3>4 DEF SameGoods, Gave, Takes
    <3>6. CancelSound(y, pkg, spoilt') /\ OrderSound(y, pkg, spoilt')
      BY <3>1, <3>2, <3>3, <3>4 DEF CancelSound, OrderSound, Late
    <3> QED BY <2>0, <3>2, <3>4, <3>5, <3>6, OneGoes
  <2>2. CASE ~At(c, "logBack")
    <3>1. /\ End(c)
          /\ spoilt' = spoilt \cup (IF At(c, "take") THEN {calls[c].package}
                                    ELSE IF At(c, "check") THEN calls[c].given ELSE {})
      BY <1>1, <2>2 DEF Fail
    <3>2. ASSUME NEW p, Gave(x, p) PROVE p \in spoilt'
      <4>1. At(c, "check") /\ ~At(c, "take")
        BY <2>0, <2>2, <3>2 DEF Gave, At
      <4> QED BY <3>1, <3>2, <4>1 DEF Gave
    <3>3. ASSUME NEW p, Takes(x, p) PROVE p \in spoilt'
      <4>1. At(c, "take")
        BY <2>0, <3>3 DEF Takes, At
      <4> QED BY <3>1, <3>3, <4>1 DEF Takes
    <3>4. spoilt \subseteq spoilt'
      BY <3>1
    <3> QED BY <2>0, <3>1, <3>2, <3>3, <3>4, Over
  <2> QED BY <2>1, <2>2
<1>2. CASE Crash
  <2> DEFINE Lost(c) == IF At(c, "take") THEN {calls[c].package}
                        ELSE IF At(c, "check") \/ At(c, "logBack") THEN calls[c].given ELSE {}
  <2>1. /\ UNCHANGED <<pkg, out>> /\ \A c \in Calls : calls'[c] = Idle
        /\ spoilt' = spoilt \cup UNION {Lost(c) : c \in Calls}
    BY <1>2 DEF Crash
  <2>2. \A c \in Calls, p \in Packages : Gave(calls[c], p) \/ Takes(calls[c], p) => p \in Lost(c)
    BY IdleNoGoods DEF Gave, Takes, At
  <2> HIDE DEF Lost
  <2>3. /\ spoilt \subseteq spoilt'
        /\ \A c \in Calls, p \in Packages :
             Gave(calls[c], p) \/ Takes(calls[c], p) => p \in spoilt'
    BY <2>1, <2>2
  <2>4. \A c \in Calls : \A p : ~Gave(calls'[c], p) /\ ~Takes(calls'[c], p)
    BY <2>1, NoGoods, IdleNoGoods
  <2>5. CallsSound' /\ OneOrder' /\ Untouched'
    <3>1. CallsSound'
      BY <2>1, IdleNoGoods DEF CallsSound, CancelSound, OrderSound
    <3>2. OneOrder'
      BY <2>1, IdleNoGoods DEF OneOrder
    <3>3. Untouched'
      BY <2>1 DEF GInv, Untouched
    <3> QED BY <3>1, <3>2, <3>3
  <2>6. ASSUME NEW p \in Packages, p \notin spoilt', pkg'[p] # NoRow
        PROVE  Account(p)'
    <3>1. Account(p)
      BY <2>1, <2>3, <2>6 DEF GInv, Accounts
    <3>2. \A c \in Calls : ~Gave(calls[c], p) /\ ~Takes(calls[c], p)
      BY <2>3, <2>6
    <3> QED BY <2>1, <2>4, <3>1, <3>2, AccountStays
  <2> QED BY <2>5, <2>6 DEF GInv, Accounts
<1> QED BY <1>1, <1>2

LEMMA GoodsInit == Init => GInv
<1> SUFFICES ASSUME Init PROVE GInv
  OBVIOUS
<1>1. \A c \in Calls : calls[c] = Idle
  BY DEF Init
<1>2. CallsSound
  BY <1>1, IdleNoGoods DEF CallsSound, CancelSound, OrderSound
<1>3. OneOrder
  BY <1>1, IdleNoGoods DEF OneOrder
<1>4. Untouched /\ Accounts
  BY DEF Init, Untouched, Accounts
<1> QED BY <1>2, <1>3, <1>4 DEF GInv

LEMMA GoodsNext == Inv /\ Inv' /\ GInv /\ [Next]_vars => GInv'
<1> SUFFICES ASSUME Inv, Inv', GInv, [Next]_vars PROVE GInv'
  OBVIOUS
<1>0. TypeOK'
  BY DEF Inv
<1>1. CASE UNCHANGED <<pkg, out, spoilt, calls>>
  <2>1. CallsSound' /\ OneOrder' /\ Untouched'
    <3>1. CallsSound'
      BY <1>1 DEF GInv, CallsSound, CancelSound, OrderSound, Late
    <3>2. OneOrder' /\ Untouched'
      BY <1>1 DEF GInv, OneOrder, Untouched
    <3> QED BY <3>1, <3>2
  <2>2. ASSUME NEW p \in Packages, p \notin spoilt', pkg'[p] # NoRow
        PROVE  Account(p)'
    <3>1. Account(p)
      BY <1>1, <2>2 DEF GInv, Accounts
    <3> QED BY <1>1, <3>1, AccountStays
  <2> QED BY <2>1, <2>2 DEF GInv, Accounts
<1>2. ASSUME NEW i \in Products, Delete(i) PROVE GInv'
  BY <1>1, <1>2 DEF Delete
<1>3. CASE Midnight
  BY <1>1, <1>3 DEF Midnight, goods
<1>4. CASE UNCHANGED vars
  BY <1>1, <1>4 DEF vars, goods
<1>5. ASSUME NEW c \in Calls, NEW p \in Packages, GiveBack(c, p) PROVE GInv'
  BY <1>0, <1>5, GiveBackGoods
<1>6. ASSUME NEW c \in Calls, CancelPackages(c) PROVE GInv'
  BY <1>0, <1>6, CancelGoods
<1>7. ASSUME NEW p \in Packages, NEW status \in Status, Move(p, status) PROVE GInv'
  BY <1>0, <1>7, MoveGoods
<1>8. ASSUME NEW c \in Calls,
             \/ \E S \in SUBSET Packages : Begin(c, S)
             \/ \E p \in Packages : Refuse(c, p) \/ PassOver(c, p) \/ FailBack(c, p)
             \/ LogBack(c) \/ \E late \in BOOLEAN : Count(c, late)
      PROVE  GInv'
  BY <1>0, <1>8, ListGoods
<1>9. CASE Next
  BY <1>0, <1>2, <1>3, <1>5, <1>6, <1>7, <1>8, <1>9, ProductGoods, OrderGoods, FaultGoods
  DEF Next
<1> QED BY <1>4, <1>9

\* The goods of a package are out of the stock once while it lives, and back once when its
\* customer has cancelled it, for any number of orders, lists, products, packages and
\* faults: two lists that gave the same goods back never both settle.
THEOREM GoodsFollow == Spec => []GoodsFollowPackages
<1>1. Inv /\ GInv => GoodsFollowPackages
  <2> SUFFICES ASSUME Inv, GInv, NEW p \in Packages \ spoilt, pkg[p] # NoRow,
                      \A c \in Calls : /\ calls[c] \in CancelCall => p \notin DOMAIN calls[c].seen
                                       /\ calls[c] \in OrderCall => p # calls[c].package
               PROVE  out[p] \in Proper(p, pkg[p])
    BY DEF GoodsFollowPackages, Proper
  <2>1. ASSUME NEW c \in Calls PROVE ~Gave(calls[c], p) /\ ~Takes(calls[c], p)
    BY DEF Gave, Takes, GInv, CallsSound, CancelSound
  <2>2. Account(p)
    BY DEF GInv, Accounts
  <2>3. Owed(p) = out[p]
    <3>1. out[p] \in Int
      BY DEF Inv, TypeOK
    <3> QED BY <2>1, <3>1 DEF Owed
  <2> QED BY <2>1, <2>2, <2>3 DEF Account
<1> QED BY AlwaysInv, GoodsInit, GoodsNext, <1>1, PTL DEF Spec

-----------------------------------------------------------------------------
(* Sums.  s is what the weights w of D add up to: whatever relates no weight *)
(* to 0 and follows each weight that is added relates D to s.                *)

Adds(D, w, R) ==
  /\ <<{}, 0>> \in R
  /\ \A S \in SUBSET D, n \in Int, d \in D :
       <<S, n>> \in R /\ d \notin S => <<S \cup {d}, n + w[d]>> \in R
IsSum(D, w, s) == s \in Int /\ \A R : Adds(D, w, R) => <<D, s>> \in R

LEMMA SumOfNone ==
  ASSUME NEW w
  PROVE  /\ IsSum({}, w, 0)
         /\ \A s : IsSum({}, w, s) => s = 0
<1>1. IsSum({}, w, 0)
  BY DEF IsSum, Adds
<1>2. ASSUME NEW s, IsSum({}, w, s)
      PROVE  s = 0
  <2>1. Adds({}, w, {<<{}, 0>>})
    BY DEF Adds
  <2>2. <<{}, s>> \in {<<{}, 0>>}
    BY <1>2, <2>1 DEF IsSum
  <2> QED BY <2>2
<1> QED BY <1>1, <1>2

LEMMA SumAdds ==
  ASSUME NEW D, NEW w, NEW s, NEW c, c \notin D, w[c] \in Int, IsSum(D, w, s)
  PROVE  IsSum(D \cup {c}, w, s + w[c])
<1>1. s + w[c] \in Int
  BY DEF IsSum
<1>2. ASSUME NEW R, Adds(D \cup {c}, w, R)
      PROVE  <<D \cup {c}, s + w[c]>> \in R
  <2>1. Adds(D, w, R)
    BY <1>2 DEF Adds
  <2>2. <<D, s>> \in R /\ s \in Int
    BY <2>1 DEF IsSum
  <2>3. D \in SUBSET (D \cup {c}) /\ c \in D \cup {c}
    OBVIOUS
  <2> QED BY <1>2, <2>2, <2>3 DEF Adds
<1> QED BY <1>1, <1>2 DEF IsSum

LEMMA SumDrops ==
  ASSUME NEW D, NEW w, NEW s, NEW c \in D, \A d \in D : w[d] \in Int, IsSum(D, w, s)
  PROVE  IsSum(D \ {c}, w, s - w[c])
<1>1. s - w[c] \in Int
  BY DEF IsSum
<1>2. ASSUME NEW R, Adds(D \ {c}, w, R)
      PROVE  <<D \ {c}, s - w[c]>> \in R
  <2> DEFINE Q == {z \in (SUBSET D) \X Int :
                     <<z[1] \ {c}, IF c \in z[1] THEN z[2] - w[c] ELSE z[2]>> \in R}
  <2>1. ASSUME NEW S \in SUBSET D, NEW n \in Int, <<S, n>> \in Q
        PROVE  <<S \ {c}, IF c \in S THEN n - w[c] ELSE n>> \in R
    BY <2>1
  <2>2. ASSUME NEW S \in SUBSET D, NEW n \in Int,
               <<S \ {c}, IF c \in S THEN n - w[c] ELSE n>> \in R
        PROVE  <<S, n>> \in Q
    BY <2>2
  <2> HIDE DEF Q
  <2>3. <<{}, 0>> \in Q
    <3>1. <<{} \ {c}, IF c \in {} THEN 0 - w[c] ELSE 0>> \in R
      <4>1. {} \ {c} = {} /\ <<{}, 0>> \in R
        BY <1>2 DEF Adds
      <4> QED BY <4>1
    <3> QED BY <2>2, <3>1
  <2>4. ASSUME NEW S \in SUBSET D, NEW n \in Int, NEW d \in D, <<S, n>> \in Q, d \notin S
        PROVE  <<S \cup {d}, n + w[d]>> \in Q
    <3>1. S \cup {d} \in SUBSET D /\ n + w[d] \in Int
      BY <2>4
    <3>2. <<S \ {c}, IF c \in S THEN n - w[c] ELSE n>> \in R
      BY <2>1, <2>4
    <3>3. CASE d = c
      <4>1. (S \cup {d}) \ {c} = S \ {c} /\ c \in S \cup {d} /\ c \notin S
        BY <2>4, <3>3
      <4>2. (n + w[d]) - w[c] = n
        BY <2>4, <3>3
      <4> QED BY <2>2, <3>1, <3>2, <4>1, <4>2
    <3>4. CASE d # c
      <4> DEFINE m == IF c \in S THEN n - w[c] ELSE n
      <4>1. /\ (S \cup {d}) \ {c} = (S \ {c}) \cup {d}
            /\ S \ {c} \in SUBSET (D \ {c}) /\ d \in D \ {c} /\ d \notin S \ {c}
        BY <2>4, <3>4
      <4>2. m \in Int
        OBVIOUS
      <4>3. <<(S \ {c}) \cup {d}, m + w[d]>> \in R
        <5> HIDE DEF m
        <5> QED BY <1>2, <3>2, <4>1, <4>2 DEF Adds, m
      <4>4. m + w[d] = IF c \in S \cup {d} THEN (n + w[d]) - w[c] ELSE n + w[d]
        BY <2>4, <3>4
      <4> QED BY <2>2, <3>1, <4>1, <4>3, <4>4
    <3> QED BY <3>3, <3>4
  <2>5. Adds(D, w, Q)
    BY <2>3, <2>4 DEF Adds
  <2>6. <<D, s>> \in Q /\ s \in Int
    BY <2>5 DEF IsSum
  <2>7. <<D \ {c}, IF c \in D THEN s - w[c] ELSE s>> \in R
    <3>1. D \in SUBSET D
      OBVIOUS
    <3> QED BY <2>1, <2>6, <3>1
  <2> QED BY <2>7
<1> QED BY <1>1, <1>2 DEF IsSum

\* The weights of others do not matter.
LEMMA SumStays ==
  ASSUME NEW D, NEW v, NEW w, NEW s, IsSum(D, w, s), \A d \in D : v[d] = w[d]
  PROVE  IsSum(D, v, s)
<1>1. ASSUME NEW R, Adds(D, v, R) PROVE Adds(D, w, R)
  BY <1>1 DEF Adds
<1> QED BY <1>1 DEF IsSum

LEMMA SumOfZeros ==
  ASSUME NEW D, NEW v, NEW w, NEW s, IsSum(D, w, s), \A d \in D : w[d] \in Int /\ v[d] = 0
  PROVE  IsSum(D, v, 0)
<1>1. ASSUME NEW R, Adds(D, v, R)
      PROVE  <<D, 0>> \in R
  <2> DEFINE Q == {z \in (SUBSET D) \X Int : <<z[1], 0>> \in R}
  <2>1. \A S \in SUBSET D, n \in Int : <<S, n>> \in Q <=> <<S, 0>> \in R
    OBVIOUS
  <2> HIDE DEF Q
  <2>2. ASSUME NEW S \in SUBSET D, NEW n \in Int, NEW d \in D, <<S, n>> \in Q, d \notin S
        PROVE  <<S \cup {d}, n + w[d]>> \in Q
    <3>1. <<S, 0>> \in R /\ 0 \in Int
      BY <2>1, <2>2
    <3>2. <<S \cup {d}, 0 + v[d]>> \in R
      BY <1>1, <2>2, <3>1 DEF Adds
    <3>3. S \cup {d} \in SUBSET D /\ n + w[d] \in Int /\ 0 + v[d] = 0
      OBVIOUS
    <3> QED BY <2>1, <3>2, <3>3
  <2>3. <<{}, 0>> \in Q
    BY <1>1, <2>1 DEF Adds
  <2>4. Adds(D, w, Q)
    BY <2>2, <2>3 DEF Adds
  <2> QED BY <2>1, <2>4 DEF IsSum
<1> QED BY <1>1 DEF IsSum

-----------------------------------------------------------------------------
(* The amount cancelled today. *)

\* What the lists that are saved and not counted yet will add to the counter.
Counting == {c \in Calls : At(c, "count")}
ListAmounts == [c \in Calls |-> calls[c].amount]

QInv ==
  ~miscounted => /\ IsSum(Counting, ListAmounts, cancelled - quota.amount)
                 /\ quota.amount > 0 => quota.expires

LEMMA CountingTyped ==
  ASSUME TypeOK, NEW c \in Counting
  PROVE  /\ c \in Calls /\ calls[c] \in CancelCall /\ calls[c].pc = "count"
         /\ calls[c].amount \in Nat /\ calls[c].quota \in Nat
         /\ ListAmounts[c] = calls[c].amount
<1>1. calls[c] \in CancelCall /\ c \in Calls /\ calls[c].pc = "count"
  BY Kinds DEF Counting, At
<1>2. calls[c].amount \in Nat /\ calls[c].quota \in Nat
  BY <1>1 DEF CancelCall
<1> QED BY <1>1, <1>2 DEF ListAmounts

\* The lists that count stay what they are, and so do the counter and what was cancelled.
LEMMA QuotaStays ==
  ASSUME TypeOK, QInv, Counting' = Counting, \A c \in Counting : calls'[c] = calls[c],
         cancelled' = cancelled, quota' = quota, miscounted => miscounted'
  PROVE  QInv'
<1> SUFFICES ASSUME ~miscounted' PROVE (IsSum(Counting, ListAmounts, cancelled - quota.amount)
                                        /\ (quota.amount > 0 => quota.expires))'
  BY DEF QInv
<1>1. IsSum(Counting, ListAmounts, cancelled - quota.amount)
  BY DEF QInv
<1>2. \A c \in Counting : ListAmounts'[c] = ListAmounts[c]
  <2>1. \A c \in Counting : c \in Calls
    BY DEF Counting
  <2> QED BY <2>1 DEF ListAmounts
<1>3. IsSum(Counting, ListAmounts', cancelled - quota.amount)
  BY <1>1, <1>2, SumStays
<1>4. IsSum(Counting', ListAmounts', cancelled' - quota'.amount)
  BY <1>3
<1>5. (IsSum(Counting, ListAmounts, cancelled - quota.amount))'
  BY <1>4 DEF IsSum, Adds
<1> QED BY <1>5 DEF QInv

\* A call that neither was about to count nor becomes so.
LEMMA QuotaTurns ==
  ASSUME TypeOK, QInv, NEW c \in Calls, ~At(c, "count"), ~At(c, "count")',
         \A d \in Calls : d # c => calls'[d] = calls[d],
         cancelled' = cancelled, quota' = quota, miscounted => miscounted'
  PROVE  QInv'
<1>1. Counting' = Counting
  BY DEF Counting, At
<1>2. \A d \in Counting : calls'[d] = calls[d]
  BY DEF Counting
<1> QED BY <1>1, <1>2, QuotaStays

LEMMA QuotaOther ==
  ASSUME TypeOK, QInv, NEW c \in Calls,
         \/ \E n \in Deliveries : Find(c, n)
         \/ LogAdd(c) \/ SaveProduct(c) \/ LogNew(c) \/ LogSet(c)
         \/ \E i \in Products : Insert(c, i) \/ \E n \in Counts : SetStock(c, i, n)
         \/ \E p \in Packages, i \in Products, n \in Quantities : Order(c, p, i, n)
         \/ CreatePackages(c) \/ Take(c) \/ LogTake(c)
         \/ \E S \in SUBSET Packages : Begin(c, S)
         \/ \E p \in Packages : Refuse(c, p) \/ PassOver(c, p) \/ GiveBack(c, p) \/ FailBack(c, p)
         \/ LogBack(c)
  PROVE  QInv'
<1> DEFINE Turned ==
      /\ ~At(c, "count") /\ (calls'[c] = Idle \/ calls'[c].pc # "count")
      /\ \A d \in Calls : d # c => calls'[d] = calls[d]
      /\ cancelled' = cancelled /\ quota' = quota /\ miscounted' = miscounted
<1>t. calls \in [Calls -> Call \cup {Idle}]
  BY DEF TypeOK
<1>1. ASSUME NEW n \in Deliveries, Find(c, n) PROVE Turned
  BY <1>t, <1>1 DEF Find, Begins, At
<1>2. ASSUME LogAdd(c) PROVE Turned
  BY <1>t, <1>2, Kinds DEF LogAdd, Goto, At, AddCall
<1>3. ASSUME SaveProduct(c) \/ LogNew(c) \/ LogSet(c) \/ LogTake(c) PROVE Turned
  BY <1>t, <1>3 DEF SaveProduct, LogNew, LogSet, LogTake, End, At
<1>4. ASSUME NEW i \in Products, Insert(c, i) PROVE Turned
  BY <1>t, <1>4 DEF Insert, At
<1>5. ASSUME NEW i \in Products, NEW n \in Counts, SetStock(c, i, n) PROVE Turned
  BY <1>t, <1>5 DEF SetStock, Begins, At
<1>6. ASSUME NEW p \in Packages, NEW i \in Products, NEW n \in Quantities, Order(c, p, i, n)
      PROVE Turned
  BY <1>t, <1>6 DEF Order, Begins, At
<1>7. ASSUME CreatePackages(c) PROVE Turned
  BY <1>t, <1>7, Kinds DEF CreatePackages, Goto, At, OrderCall
<1>8. ASSUME Take(c) PROVE Turned
  <2>1. calls[c] \in OrderCall /\ calls[c].pc = "take"
    BY <1>8, Kinds DEF Take, At
  <2>2. calls' = [calls EXCEPT ![c].pc = "logTake"] \/ calls' = [calls EXCEPT ![c] = Idle]
    BY <1>8 DEF Take, Goto, End
  <2>3. calls'[c] = Idle \/ calls'[c].pc # "count"
    BY <1>t, <2>1, <2>2 DEF OrderCall
  <2>4. \A d \in Calls : d # c => calls'[d] = calls[d]
    BY <1>t, <2>2
  <2>5. cancelled' = cancelled /\ quota' = quota /\ miscounted' = miscounted
    BY <1>8 DEF Take
  <2> QED BY <2>1, <2>3, <2>4, <2>5 DEF At
<1>9. ASSUME NEW S \in SUBSET Packages, Begin(c, S) PROVE Turned
  BY <1>t, <1>9 DEF Begin, Begins, At
<1>10. ASSUME NEW p \in Packages, Refuse(c, p) PROVE Turned
  BY <1>t, <1>10 DEF Refuse, Abandon, End, At
<1>11. ASSUME NEW p \in Packages, PassOver(c, p) PROVE Turned
  BY <1>t, <1>11, Kinds DEF PassOver, At, CancelCall
<1>12. ASSUME NEW p \in Packages, GiveBack(c, p) \/ FailBack(c, p) PROVE Turned
  <2>1. calls[c] \in CancelCall /\ calls[c].pc = "check"
    BY <1>12, Kinds DEF GiveBack, FailBack, At
  <2>2. \/ calls' = [calls EXCEPT ![c].pc = "logBack", ![c].at = p, ![c].todo = @ \ {p},
                            ![c].given = @ \cup {p},
                            ![c].amount = IF Counted(c, p) THEN @ + 1 ELSE @]
        \/ calls' = [calls EXCEPT ![c].todo = @ \ {p},
                            ![c].amount = IF Counted(c, p) THEN @ + 1 ELSE @]
    BY <1>12 DEF GiveBack, FailBack
  <2>3. calls'[c].pc # "count"
    BY <1>t, <2>1, <2>2 DEF CancelCall
  <2>4. \A d \in Calls : d # c => calls'[d] = calls[d]
    BY <1>t, <2>2
  <2>5. cancelled' = cancelled /\ quota' = quota /\ miscounted' = miscounted
    BY <1>12 DEF GiveBack, FailBack
  <2> QED BY <2>1, <2>3, <2>4, <2>5 DEF At
<1>13. ASSUME LogBack(c) PROVE Turned
  BY <1>t, <1>13, Kinds DEF LogBack, Goto, At, CancelCall
<1>14. Turned
  BY <1>1, <1>2, <1>3, <1>4, <1>5, <1>6, <1>7, <1>8, <1>9, <1>10, <1>11, <1>12, <1>13
<1>15. ~At(c, "count")'
  BY <1>14 DEF At
<1> QED BY <1>14, <1>15, QuotaTurns

\* A saved list is one more to count.
LEMMA QuotaCancels ==
  ASSUME Inv, QInv, NEW c \in Calls, CancelPackages(c)
  PROVE  QInv'
<1>t. TypeOK
  BY DEF Inv
<1>1. /\ calls[c] \in CancelCall /\ calls[c].pc = "check" /\ c \notin Counting
      /\ calls' = [calls EXCEPT ![c].pc = "count"]
      /\ cancelled' = cancelled + calls[c].amount /\ quota' = quota /\ miscounted' = miscounted
  BY <1>t, Kinds DEF CancelPackages, Goto, At, Counting
<1>2. /\ calls'[c].pc = "count" /\ calls'[c].amount = calls[c].amount /\ calls[c].amount \in Nat
      /\ calls'[c] # Idle
  <2>1. calls'[c] = [calls[c] EXCEPT !.pc = "count"]
    BY <1>t, <1>1 DEF TypeOK
  <2>2. [calls[c] EXCEPT !.pc = "count"] \in CancelCall
    BY <1>1 DEF CancelCall
  <2>3. [calls[c] EXCEPT !.pc = "count"] # Idle
    BY <2>2, NoneIsNoRow DEF Call
  <2> QED BY <1>1, <2>1, <2>3 DEF CancelCall
<1>3. \A d \in Calls : d # c => calls'[d] = calls[d]
  BY <1>t, <1>1 DEF TypeOK
<1>4. Counting' = Counting \cup {c}
  BY <1>2, <1>3 DEF Counting, At
<1>5. SUFFICES ASSUME ~miscounted'
               PROVE  (IsSum(Counting, ListAmounts, cancelled - quota.amount)
                        /\ (quota.amount > 0 => quota.expires))'
  BY DEF QInv
<1>6. IsSum(Counting, ListAmounts, cancelled - quota.amount) /\ (quota.amount > 0 => quota.expires)
  BY <1>1, <1>5 DEF QInv
<1>7. \A d \in Counting : ListAmounts'[d] = ListAmounts[d]
  BY <1>1, <1>3, <1>t, CountingTyped DEF ListAmounts
<1>8. IsSum(Counting, ListAmounts', cancelled - quota.amount)
  BY <1>6, <1>7, SumStays
<1>9. ListAmounts'[c] = calls[c].amount
  BY <1>2 DEF ListAmounts
<1>10. IsSum(Counting \cup {c}, ListAmounts', (cancelled - quota.amount) + calls[c].amount)
  BY <1>1, <1>2, <1>8, <1>9, SumAdds
<1>11. (cancelled - quota.amount) + calls[c].amount = cancelled' - quota'.amount
  BY <1>t, <1>1, <1>2 DEF TypeOK
<1>12. IsSum(Counting', ListAmounts', cancelled' - quota'.amount)
  BY <1>4, <1>10, <1>11
<1>13. (IsSum(Counting, ListAmounts, cancelled - quota.amount))'
  BY <1>12 DEF IsSum, Adds
<1> QED BY <1>1, <1>6, <1>13

\* A list is counted.
LEMMA QuotaCounted ==
  ASSUME Inv, QInv, NEW c \in Calls, NEW late \in BOOLEAN, Count(c, late)
  PROVE  QInv'
<1>t. TypeOK
  BY DEF Inv
<1> DEFINE n == calls[c].quota
           a == calls[c].amount
<1>1. /\ c \in Counting /\ n \in Nat /\ a \in Nat /\ ListAmounts[c] = a
      /\ calls' = [calls EXCEPT ![c] = Idle] /\ cancelled' = cancelled
      /\ quota' = IF n + a > 0 THEN [amount |-> n + a, expires |-> ~late] ELSE quota
      /\ miscounted' = (miscounted \/ quota.amount # n \/ (late /\ n + a > 0))
  <2>1. c \in Counting
    BY DEF Count, Counting
  <2> QED BY <1>t, <2>1, CountingTyped DEF Count, End
<1>2. \A d \in Calls : calls'[d] = IF d = c THEN Idle ELSE calls[d]
  BY <1>t, <1>1 DEF TypeOK
<1>3. Counting' = Counting \ {c}
  BY <1>2 DEF Counting, At
<1> HIDE DEF n, a
<1>4. SUFFICES ASSUME ~miscounted'
               PROVE  (IsSum(Counting, ListAmounts, cancelled - quota.amount)
                        /\ (quota.amount > 0 => quota.expires))'
  BY DEF QInv
<1>5. ~miscounted /\ quota.amount = n /\ (late => ~(n + a > 0))
  BY <1>1, <1>4, <1>t DEF TypeOK
<1>6. IsSum(Counting, ListAmounts, cancelled - quota.amount)
  BY <1>5 DEF QInv
<1>7. \A d \in Counting : ListAmounts[d] \in Int
  BY <1>t, CountingTyped
<1>8. IsSum(Counting \ {c}, ListAmounts, (cancelled - quota.amount) - a)
  BY <1>1, <1>6, <1>7, SumDrops
<1>9. \A d \in Counting \ {c} : ListAmounts'[d] = ListAmounts[d]
  BY <1>2 DEF ListAmounts, Counting
<1>10. IsSum(Counting \ {c}, ListAmounts', (cancelled - quota.amount) - a)
  BY <1>8, <1>9, SumStays
<1>11. quota'.amount = n + a
  BY <1>1, <1>5
<1>12. (cancelled - quota.amount) - a = cancelled' - quota'.amount
  <2>1. cancelled \in Int /\ cancelled' = cancelled
    BY <1>t, <1>1 DEF TypeOK
  <2> QED BY <1>1, <1>5, <1>11, <2>1
<1>13. IsSum(Counting', ListAmounts', cancelled' - quota'.amount)
  BY <1>3, <1>10, <1>12
<1>14. (IsSum(Counting, ListAmounts, cancelled - quota.amount))'
  BY <1>13 DEF IsSum, Adds
<1>15. quota'.amount > 0 => quota'.expires
  BY <1>1, <1>5, <1>11
<1> QED BY <1>14, <1>15

\* A day ends: the lists still to be counted amount to nothing, and the key expires.
LEMMA QuotaMidnight ==
  ASSUME Inv, QInv, Midnight
  PROVE  QInv'
<1>t. TypeOK
  BY DEF Inv
<1>1. /\ calls' = calls /\ cancelled' = 0
      /\ quota' = IF quota.expires THEN [amount |-> 0, expires |-> FALSE] ELSE quota
      /\ miscounted' = (miscounted \/ \E c \in Calls : At(c, "count") /\ calls[c].amount > 0)
  BY DEF Midnight
<1>2. SUFFICES ASSUME ~miscounted'
               PROVE  (IsSum(Counting, ListAmounts, cancelled - quota.amount)
                        /\ (quota.amount > 0 => quota.expires))'
  BY DEF QInv
<1>3. ~miscounted /\ \A c \in Calls : ~(At(c, "count") /\ calls[c].amount > 0)
  BY <1>1, <1>2
<1>4. IsSum(Counting, ListAmounts, cancelled - quota.amount) /\ (quota.amount > 0 => quota.expires)
  BY <1>3 DEF QInv
<1>5. \A c \in Counting : ListAmounts[c] = 0
  <2>1. ASSUME NEW c \in Counting PROVE ListAmounts[c] = 0
    <3>1. At(c, "count") /\ c \in Calls
      BY DEF Counting
    <3>2. calls[c].amount \in Nat /\ ListAmounts[c] = calls[c].amount
      BY <1>t, CountingTyped
    <3> QED BY <1>3, <3>1, <3>2
  <2> QED BY <2>1
<1>6. IsSum(Counting, ListAmounts, 0)
  BY <1>4, <1>5, SumOfZeros
<1>7. quota'.amount = 0
  BY <1>t, <1>1, <1>4 DEF TypeOK
<1>8. Counting' = Counting /\ ListAmounts' = ListAmounts /\ cancelled' - quota'.amount = 0
  BY <1>1, <1>7 DEF Counting, At, ListAmounts
<1>9. (IsSum(Counting, ListAmounts, cancelled - quota.amount))'
  <2>1. IsSum(Counting', ListAmounts', cancelled' - quota'.amount)
    BY <1>6, <1>8
  <2> QED BY <2>1 DEF IsSum, Adds
<1> QED BY <1>7, <1>9

\* A list that fails before it is counted is not counted; without lists nothing is open.
LEMMA QuotaFaults ==
  ASSUME Inv, QInv, (\E c \in Calls : Fail(c)) \/ Crash
  PROVE  QInv'
<1>t. TypeOK
  BY DEF Inv
<1>1. ASSUME NEW c \in Calls, Fail(c) PROVE QInv'
  <2>1. CASE At(c, "count")
    <3>1. ~At(c, "logBack")
      BY <2>1 DEF At
    <3>2. miscounted' = TRUE
      BY <1>t, <1>1, <2>1, <3>1 DEF Fail, TypeOK
    <3> QED BY <3>2 DEF QInv
  <2>2. CASE ~At(c, "count")
    <3>1. CASE At(c, "logBack")
      <4>1. calls[c] \in CancelCall /\ calls' = [calls EXCEPT ![c].pc = "check"]
        BY <1>t, <1>1, <3>1, Kinds DEF Fail, Goto, At
      <4>2. calls'[c].pc = "check" /\ \A d \in Calls : d # c => calls'[d] = calls[d]
        BY <1>t, <4>1 DEF TypeOK, CancelCall
      <4>3. ~At(c, "count")'
        BY <4>2 DEF At
      <4>4. cancelled' = cancelled /\ quota' = quota /\ miscounted' = miscounted
        BY <1>1, <3>1 DEF Fail
      <4> QED BY <1>t, <2>2, <4>2, <4>3, <4>4, QuotaTurns
    <3>2. CASE ~At(c, "logBack")
      <4>1. calls' = [calls EXCEPT ![c] = Idle]
        BY <1>1, <3>2 DEF Fail, End
      <4>2. calls'[c] = Idle /\ \A d \in Calls : d # c => calls'[d] = calls[d]
        BY <1>t, <4>1 DEF TypeOK
      <4>3. ~At(c, "count")'
        BY <4>2 DEF At
      <4>4. cancelled' = cancelled /\ quota' = quota /\ (miscounted => miscounted')
        BY <1>1, <3>2 DEF Fail
      <4> QED BY <1>t, <2>2, <4>2, <4>3, <4>4, QuotaTurns
    <3> QED BY <3>1, <3>2
  <2> QED BY <2>1, <2>2
<1>2. CASE Crash
  <2>1. /\ calls' = [c \in Calls |-> Idle] /\ quota' = quota /\ cancelled' = cancelled
        /\ miscounted' = (miscounted \/ \E c \in Calls : At(c, "count"))
    BY <1>2 DEF Crash
  <2>2. SUFFICES ASSUME ~miscounted'
                 PROVE  (IsSum(Counting, ListAmounts, cancelled - quota.amount)
                          /\ (quota.amount > 0 => quota.expires))'
    BY DEF QInv
  <2>3. ~miscounted /\ Counting = {}
    BY <2>1, <2>2 DEF Counting
  <2>4. IsSum({}, ListAmounts, cancelled - quota.amount) /\ (quota.amount > 0 => quota.expires)
    BY <2>3 DEF QInv
  <2>5. cancelled - quota.amount = 0
    BY <2>4, SumOfNone
  <2>6. Counting' = {}
    BY <2>1 DEF Counting, At
  <2>7. IsSum(Counting', ListAmounts', cancelled' - quota'.amount)
    BY <2>1, <2>5, <2>6, SumOfNone
  <2>8. (IsSum(Counting, ListAmounts, cancelled - quota.amount))'
    BY <2>7 DEF IsSum, Adds
  <2> QED BY <2>1, <2>4, <2>8
<1> QED BY <1>1, <1>2

LEMMA QuotaInit == Init => QInv
<1> SUFFICES ASSUME Init PROVE QInv
  OBVIOUS
<1>1. Counting = {}
  BY DEF Init, Counting, At
<1>2. quota.amount = 0 /\ cancelled - quota.amount = 0
  BY DEF Init
<1>3. IsSum(Counting, ListAmounts, cancelled - quota.amount)
  BY <1>1, <1>2, SumOfNone
<1> QED BY <1>2, <1>3 DEF QInv

LEMMA QuotaNext == Inv /\ QInv /\ [Next]_vars => QInv'
<1> SUFFICES ASSUME Inv, QInv, [Next]_vars PROVE QInv'
  OBVIOUS
<1>t. TypeOK
  BY DEF Inv
<1>1. CASE UNCHANGED <<calls, cancelled, quota, miscounted>>
  <2>1. Counting' = Counting
    BY <1>1 DEF Counting, At
  <2> QED BY <1>t, <1>1, <2>1, QuotaStays
<1>2. ASSUME NEW i \in Products, Delete(i) PROVE QInv'
  BY <1>1, <1>2 DEF Delete
<1>3. ASSUME NEW p \in Packages, NEW status \in Status, Move(p, status) PROVE QInv'
  BY <1>1, <1>3 DEF Move
<1>4. CASE UNCHANGED vars
  BY <1>1, <1>4 DEF vars
<1>5. ASSUME Next PROVE QInv'
  BY <1>t, <1>2, <1>3, <1>5, QuotaOther, QuotaCancels, QuotaCounted, QuotaMidnight, QuotaFaults
  DEF Next
<1> QED BY <1>4, <1>5

\* The counter says what the customer cancelled today whenever no list is about to be
\* counted, for any number of lists, days and faults, unless two lists overlapped, one ran
\* over midnight or in the last second of the day, or failed before it was counted.
THEOREM QuotaCountsHolds == Spec => []QuotaCounts
<1>1. Inv /\ QInv => QuotaCounts
  <2> SUFFICES ASSUME Inv, QInv, ~miscounted, \A c \in Calls : ~At(c, "count")
               PROVE  quota.amount = cancelled
    BY DEF QuotaCounts
  <2>1. Counting = {}
    BY DEF Counting
  <2>2. IsSum({}, ListAmounts, cancelled - quota.amount)
    BY <2>1 DEF QInv
  <2>3. cancelled - quota.amount = 0
    BY <2>2, SumOfNone
  <2>4. cancelled \in Int /\ quota.amount \in Int
    BY DEF Inv, TypeOK
  <2> QED BY <2>3, <2>4
<1> QED BY AlwaysInv, QuotaInit, QuotaNext, <1>1, PTL DEF Spec

-----------------------------------------------------------------------------
(* The log. *)

\* A call is between its two statements on stock and log of i; it has set the stock; by how
\* much stock and log differ meanwhile.
Works(x, i) ==
  /\ x # Idle
  /\ \/ x.pc \in {"save", "logNew", "logSet", "logTake"} /\ x.product = i
     \/ x.pc = "logBack" /\ x.seen[x.at].product = i
Sets(x, i) == Works(x, i) /\ x.pc = "logSet"
Change(x) ==
  IF x.pc \in {"save", "logTake"} THEN -x.quantity
  ELSE IF x.pc = "logBack" THEN x.seen[x.at].quantity ELSE x.quantity

Working(i) == {c \in Calls : Works(calls[c], i)}
Changes == [c \in Calls |-> Change(calls[c])]

\* The rows that deliveries and corrections write exist, and what does not is not logged.
Existing ==
  \A c \in Calls : calls[c] \in AddCall \cup NewCall \cup SetCall
                     => product[calls[c].product] # NoRow
Unlogged == \A i \in Products : product[i] = NoRow => logged[i] = 0

\* A call that has set the stock is alone with it; else stock and log differ by what the
\* calls between their statements have changed.
Balanced(i) ==
  /\ \A c \in Calls : Sets(calls[c], i) =>
       /\ product[i].stock = calls[c].quantity
       /\ \A d \in Calls \ {c} : ~Works(calls[d], i)
  /\ (\A c \in Calls : ~Sets(calls[c], i))
       => IsSum(Working(i), Changes, product[i].stock - logged[i])

LInv ==
  /\ Existing /\ Unlogged
  /\ \A i \in Products \ mixed : product[i] # NoRow => Balanced(i)

LEMMA WorksTyped ==
  ASSUME Inv, NEW c \in Calls, NEW i, Works(calls[c], i)
  PROVE  /\ i \in Products
         /\ Change(calls[c]) \in Int
         /\ calls[c] \in AddCall \cup NewCall \cup SetCall \/ product[i] # NoRow
<1> DEFINE x == calls[c]
<1>t. TypeOK /\ x # Idle
  BY DEF Inv, Works
<1>1. CASE x.pc \in {"save", "logNew", "logSet"}
  <2>1. x \in AddCall \cup NewCall \cup SetCall /\ x.product = i
    BY <1>t, <1>1, Kinds DEF Works
  <2>2. i \in Products
    BY <2>1 DEF AddCall, NewCall, SetCall
  <2>3. x.quantity \in Deliveries \cup Counts
    BY <2>1 DEF AddCall, NewCall, SetCall
  <2>4. x.quantity \in Int
    BY <2>3, Amounts
  <2> QED BY <1>1, <2>1, <2>2, <2>4 DEF Change
<1>2. CASE x.pc = "logTake"
  <2>1. x \in OrderCall /\ x.product = i
    BY <1>t, <1>2, Kinds DEF Works
  <2>2. i \in Products /\ x.quantity \in Quantities
    BY <2>1 DEF OrderCall
  <2>3. product[i] # NoRow
    BY <1>t, <2>1 DEF Inv, Sound, SoundCall
  <2>4. x.quantity \in Int
    BY <2>2, Amounts
  <2> QED BY <1>2, <2>1, <2>2, <2>3, <2>4 DEF Change
<1>3. CASE x.pc = "logBack"
  <2>1. x \in CancelCall /\ x.seen[x.at].product = i
    BY <1>t, <1>3, Kinds DEF Works
  <2>2. x.at \in DOMAIN x.seen /\ product[i] # NoRow
    BY <1>t, <2>1 DEF Inv, Sound, SoundCall
  <2>3. x.seen[x.at] \in Package
    BY <2>1, <2>2, SeenTyped
  <2>4. i \in Products /\ x.seen[x.at].quantity \in Quantities
    BY <2>1, <2>3 DEF Package
  <2>5. x.seen[x.at].quantity \in Int
    BY <2>4, Amounts
  <2> QED BY <1>3, <2>2, <2>4, <2>5 DEF Change
<1> QED BY <1>1, <1>2, <1>3 DEF Works

LEMMA ChangesTyped ==
  ASSUME Inv, NEW i
  PROVE  \A d \in Working(i) : Changes[d] \in Int
BY WorksTyped DEF Working, Changes

\* Nobody works on a product that is not there.
LEMMA NobodyWorks ==
  ASSUME Inv, LInv, NEW i \in Products, product[i] = NoRow, NEW c \in Calls
  PROVE  ~Works(calls[c], i)
<1> SUFFICES ASSUME Works(calls[c], i) PROVE FALSE
  OBVIOUS
<1>1. calls[c] \in AddCall \cup NewCall \cup SetCall
  BY WorksTyped
<1>2. calls[c].product = i
  <2>1. calls[c].pc # "logBack"
    BY <1>1 DEF AddCall, NewCall, SetCall
  <2> QED BY <2>1 DEF Works
<1> QED BY <1>1, <1>2 DEF LInv, Existing

\* One call turns from calls[c] into y.  A product it is not between before and after
\* stays balanced if its stock and log do.
LEMMA BalanceStays ==
  ASSUME Inv, NEW i \in Products, Balanced(i), NEW c \in Calls,
         \A d \in Calls : d # c => calls'[d] = calls[d],
         ~Works(calls[c], i), ~Works(calls'[c], i),
         product'[i].stock = product[i].stock, logged'[i] = logged[i]
  PROVE  Balanced(i)'
<1>1. \A d \in Calls : /\ Works(calls'[d], i) <=> Works(calls[d], i)
                       /\ Works(calls[d], i) => calls'[d] = calls[d]
  OBVIOUS
<1>2. ASSUME NEW e \in Calls, Sets(calls'[e], i)
      PROVE  /\ product'[i].stock = calls'[e].quantity
             /\ \A d \in Calls \ {e} : ~Works(calls'[d], i)
  <2>1. Sets(calls[e], i) /\ calls'[e] = calls[e]
    BY <1>1, <1>2 DEF Sets
  <2> QED BY <1>1, <2>1 DEF Balanced
<1>3. ASSUME \A e \in Calls : ~Sets(calls'[e], i)
      PROVE  IsSum(Working(i)', Changes', product'[i].stock - logged'[i])
  <2>1. \A e \in Calls : ~Sets(calls[e], i)
    BY <1>1, <1>3 DEF Sets
  <2>2. IsSum(Working(i), Changes, product[i].stock - logged[i])
    BY <2>1 DEF Balanced
  <2>3. \A d \in Working(i) : Changes'[d] = Changes[d]
    BY <1>1 DEF Working, Changes
  <2>4. IsSum(Working(i), Changes', product[i].stock - logged[i])
    BY <2>2, <2>3, SumStays
  <2>5. Working(i)' = Working(i)
    BY <1>1 DEF Working
  <2> QED BY <2>4, <2>5
<1>4. \A e \in Calls : (Sets(calls[e], i))' <=> Sets(calls'[e], i)
  BY DEF Sets, Works
<1>5. (\A e \in Calls : Sets(calls[e], i) =>
         /\ product[i].stock = calls[e].quantity
         /\ \A d \in Calls \ {e} : ~Works(calls[d], i))'
  BY <1>2 DEF Sets, Works
<1>6. ((\A e \in Calls : ~Sets(calls[e], i))
         => IsSum(Working(i), Changes, product[i].stock - logged[i]))'
  BY <1>3 DEF Sets, Works, IsSum, Adds
<1> QED BY <1>5, <1>6 DEF Balanced

\* Nobody has set the stock: what is balanced afterwards is a sum.
LEMMA BalanceSums ==
  ASSUME NEW i \in Products, \A e \in Calls : ~Sets(calls'[e], i),
         IsSum(Working(i)', Changes', product'[i].stock - logged'[i])
  PROVE  Balanced(i)'
<1>1. (\A e \in Calls : ~Sets(calls[e], i))'
  BY DEF Sets, Works
<1>2. (IsSum(Working(i), Changes, product[i].stock - logged[i]))'
  BY DEF IsSum, Adds
<1> QED BY <1>1, <1>2 DEF Balanced

\* It begins to work on i.
LEMMA BalanceEnters ==
  ASSUME Inv, NEW i \in Products, Balanced(i), NEW c \in Calls,
         \A d \in Calls : d # c => calls'[d] = calls[d] /\ ~Sets(calls[d], i),
         ~Works(calls[c], i), Works(calls'[c], i), ~Sets(calls'[c], i),
         NEW n \in Int, Change(calls'[c]) = n,
         product'[i].stock - logged'[i] = (product[i].stock - logged[i]) + n
  PROVE  Balanced(i)'
<1>1. \A d \in Calls : ~Sets(calls[d], i) /\ ~Sets(calls'[d], i)
  BY DEF Sets
<1>2. IsSum(Working(i), Changes, product[i].stock - logged[i])
  BY <1>1 DEF Balanced
<1>3. \A d \in Working(i) : Changes'[d] = Changes[d]
  BY DEF Working, Changes
<1>4. IsSum(Working(i), Changes', product[i].stock - logged[i])
  BY <1>2, <1>3, SumStays
<1>5. c \notin Working(i) /\ Changes'[c] = n
  BY DEF Working, Changes
<1>6. IsSum(Working(i) \cup {c}, Changes', (product[i].stock - logged[i]) + n)
  BY <1>4, <1>5, SumAdds
<1>7. Working(i)' = Working(i) \cup {c}
  BY DEF Working, Works
<1> QED BY <1>1, <1>6, <1>7, BalanceSums

\* It begins to work on i alone, and what stock and log differ by is its own.
LEMMA BalanceFirst ==
  ASSUME NEW i \in Products, NEW c \in Calls,
         \A d \in Calls : d # c => ~Works(calls'[d], i),
         Works(calls'[c], i), ~Sets(calls'[c], i),
         NEW n \in Int, Change(calls'[c]) = n,
         product'[i].stock - logged'[i] = n
  PROVE  Balanced(i)'
<1>1. \A d \in Calls : ~Sets(calls'[d], i)
  BY DEF Sets
<1>2. Working(i)' = {c}
  BY DEF Working, Works
<1>3. Changes'[c] = n
  BY DEF Changes
<1>4. IsSum({}, Changes', 0)
  BY SumOfNone
<1>5. IsSum({} \cup {c}, Changes', 0 + n)
  BY <1>3, <1>4, SumAdds
<1>6. {} \cup {c} = {c} /\ 0 + n = n
  OBVIOUS
<1>7. IsSum(Working(i)', Changes', product'[i].stock - logged'[i])
  BY <1>2, <1>5, <1>6
<1> QED BY <1>1, <1>7, BalanceSums

\* Its second statement is done.
LEMMA BalanceLeaves ==
  ASSUME Inv, NEW i \in Products, Balanced(i), NEW c \in Calls,
         \A d \in Calls : d # c => calls'[d] = calls[d],
         Works(calls[c], i), ~Sets(calls[c], i), ~Works(calls'[c], i),
         product'[i].stock - logged'[i] = (product[i].stock - logged[i]) - Change(calls[c])
  PROVE  Balanced(i)'
<1>1. \A d \in Calls : ~Sets(calls[d], i)
  <2>1. ASSUME NEW d \in Calls, Sets(calls[d], i) PROVE FALSE
    <3>1. c # d
      BY <2>1
    <3> QED BY <2>1, <3>1 DEF Balanced
  <2> QED BY <2>1
<1>2. \A d \in Calls : ~Sets(calls'[d], i)
  BY <1>1 DEF Sets
<1>3. IsSum(Working(i), Changes, product[i].stock - logged[i])
  BY <1>1 DEF Balanced
<1>4. c \in Working(i) /\ Changes[c] = Change(calls[c])
  BY DEF Working, Changes
<1>5. \A d \in Working(i) : Changes[d] \in Int
  BY ChangesTyped
<1>6. IsSum(Working(i) \ {c}, Changes, (product[i].stock - logged[i]) - Change(calls[c]))
  BY <1>3, <1>4, <1>5, SumDrops
<1>7. \A d \in Working(i) \ {c} : Changes'[d] = Changes[d]
  BY DEF Working, Changes
<1>8. IsSum(Working(i) \ {c}, Changes', (product[i].stock - logged[i]) - Change(calls[c]))
  BY <1>6, <1>7, SumStays
<1>9. Working(i)' = Working(i) \ {c}
  BY DEF Working, Works
<1> QED BY <1>2, <1>8, <1>9, BalanceSums

\* It sets the stock, alone.
LEMMA BalanceSet ==
  ASSUME NEW i \in Products, NEW c \in Calls,
         \A d \in Calls : d # c => ~Works(calls'[d], i),
         Sets(calls'[c], i), product'[i].stock = calls'[c].quantity
  PROVE  Balanced(i)'
<1>1. \A e \in Calls : Sets(calls'[e], i) => e = c
  BY DEF Sets
<1>2. ~\A e \in Calls : (~Sets(calls[e], i))'
  BY DEF Sets, Works
<1>3. (\A e \in Calls : Sets(calls[e], i) =>
         /\ product[i].stock = calls[e].quantity
         /\ \A d \in Calls \ {e} : ~Works(calls[d], i))'
  BY <1>1 DEF Sets, Works
<1> QED BY <1>2, <1>3 DEF Balanced

\* Nobody works on i any more.
LEMMA BalanceRests ==
  ASSUME NEW i \in Products, \A d \in Calls : ~Works(calls'[d], i),
         product'[i].stock \in Int, product'[i].stock = logged'[i]
  PROVE  Balanced(i)'
<1>1. \A d \in Calls : ~Sets(calls'[d], i)
  BY DEF Sets
<1>2. Working(i)' = {} /\ product'[i].stock - logged'[i] = 0
  BY DEF Working, Works
<1> QED BY <1>1, <1>2, SumOfNone, BalanceSums

LEMMA Rested ==
  ASSUME Inv, NEW i \in Products, Balanced(i), product[i] # NoRow,
         \A d \in Calls : ~Works(calls[d], i)
  PROVE  product[i].stock \in Int /\ logged[i] = product[i].stock
<1>1. Working(i) = {} /\ \A d \in Calls : ~Sets(calls[d], i)
  BY DEF Working, Sets
<1>2. product[i].stock - logged[i] = 0
  BY <1>1, SumOfNone DEF Balanced
<1>3. product[i].stock \in Int /\ logged[i] \in Int
  BY DEF Inv, TypeOK, Product
<1> QED BY <1>2, <1>3

\* Between, in terms of what the calls hold.
LEMMA BetweenWorks ==
  ASSUME NEW c \in Calls, NEW i
  PROVE  /\ i \in Between(c) <=> Works(calls[c], i)
         /\ Sets(calls[c], i) => Absolute(c)
BY DEF Between, Works, Sets, Absolute, At

\* What the history says of a step that changed i unnoticed.
LEMMA WroteUnmixed ==
  ASSUME NEW c \in Calls, NEW i, NEW absolute \in BOOLEAN, Wrote(c, i, absolute), i \notin mixed'
  PROVE  /\ absolute => \A d \in Calls : d # c => ~Works(calls[d], i)
         /\ \A d \in Calls : d # c => ~Sets(calls[d], i)
         /\ mixed \subseteq mixed'
<1>1. ~(\E d \in Others(c) : i \in Between(d) /\ (absolute \/ Absolute(d)))
  BY DEF Wrote
<1>2. ASSUME NEW d \in Calls, d # c, Works(calls[d], i)
      PROVE  ~absolute /\ ~Absolute(d)
  <2>1. d \in Others(c)
    BY <1>2 DEF Others, Works
  <2> QED BY <1>1, <1>2, <2>1, BetweenWorks
<1>3. \A d \in Calls : d # c => ~Sets(calls[d], i)
  BY <1>2, BetweenWorks DEF Sets
<1> QED BY <1>2, <1>3 DEF Wrote

\* A step of one call, with what it does to the products T it changes or works on.
LEMMA LogTurns ==
  ASSUME Inv, LInv, NEW c \in Calls, NEW T,
         \A d \in Calls : d # c => calls'[d] = calls[d],
         RowsStay, mixed \subseteq mixed',
         calls'[c] \in AddCall \cup NewCall \cup SetCall => product'[calls'[c].product] # NoRow,
         \A j \in Products : j \notin T =>
           /\ Works(calls[c], j) => j \in mixed'
           /\ ~Works(calls'[c], j)
           /\ product'[j] # NoRow => product[j] # NoRow /\ product'[j].stock = product[j].stock
           /\ logged'[j] = logged[j],
         \A j \in Products : j \in T =>
           /\ product'[j] # NoRow
           /\ j \notin mixed' => Balanced(j)'
  PROVE  LInv'
<1>1. ASSUME NEW d \in Calls, calls'[d] \in AddCall \cup NewCall \cup SetCall
      PROVE  product'[calls'[d].product] # NoRow
  <2>1. CASE d = c
    BY <1>1, <2>1
  <2>2. CASE d # c
    <3>1. calls'[d] = calls[d]
      BY <2>2
    <3>2. calls[d].product \in Products
      BY <1>1, <3>1 DEF AddCall, NewCall, SetCall
    <3>3. product[calls[d].product] # NoRow
      BY <1>1, <3>1 DEF LInv, Existing
    <3> QED BY <3>1, <3>2, <3>3 DEF RowsStay
  <2> QED BY <2>1, <2>2
<1>2. ASSUME NEW j \in Products, product'[j] = NoRow
      PROVE  logged'[j] = 0
  <2>1. product[j] = NoRow /\ j \notin T
    BY <1>2 DEF RowsStay
  <2> QED BY <2>1 DEF LInv, Unlogged
<1>3. ASSUME NEW j \in Products, j \notin mixed', product'[j] # NoRow
      PROVE  Balanced(j)'
  <2>1. CASE j \in T
    BY <1>3, <2>1
  <2>2. CASE j \notin T
    <3>1. /\ ~Works(calls[c], j) /\ ~Works(calls'[c], j)
          /\ product[j] # NoRow /\ product'[j].stock = product[j].stock
          /\ logged'[j] = logged[j]
      BY <1>3, <2>2
    <3>2. Balanced(j)
      BY <1>3, <3>1 DEF LInv
    <3> QED BY <3>1, <3>2, BalanceStays
  <2> QED BY <2>1, <2>2
<1>4. Existing' /\ Unlogged'
  BY <1>1, <1>2 DEF Existing, Unlogged
<1> QED BY <1>3, <1>4 DEF LInv

\* Nothing is said of calls that are between no two statements of the log.
Rests(x) == x = Idle \/ x.pc \in {"logAdd", "insert", "create", "take", "check", "cancel", "count"}

LEMMA RestsNotWorks ==
  ASSUME NEW x, Rests(x), NEW i
  PROVE  ~Works(x, i)
BY DEF Rests, Works

LEMMA NoneExists ==
  ASSUME NEW x,
         x = Idle \/ x.pc \in {"insert", "create", "take", "logTake", "check", "logBack", "cancel", "count"}
  PROVE  x \notin AddCall \cup NewCall \cup SetCall
<1>1. AddCall \cup NewCall \cup SetCall \subseteq Call
  BY DEF Call
<1>2. Idle \notin AddCall \cup NewCall \cup SetCall
  BY <1>1, NoneIsNoRow
<1> QED BY <1>2 DEF AddCall, NewCall, SetCall

LEMMA LogQuiet ==
  ASSUME Inv, LInv, NEW c \in Calls,
         \A d \in Calls : d # c => calls'[d] = calls[d],
         Rests(calls[c]), Rests(calls'[c]), product' = product, logged' = logged, mixed' = mixed,
         calls'[c] \in AddCall => product[calls'[c].product] # NoRow
  PROVE  LInv'
<1> DEFINE T == {}
<1>1. RowsStay
  BY DEF RowsStay
<1>2. \A j \in Products : ~Works(calls[c], j) /\ ~Works(calls'[c], j)
  BY RestsNotWorks
<1>3. calls'[c] \notin NewCall \cup SetCall
  <2>1. NewCall \cup SetCall \subseteq Call
    BY DEF Call
  <2>2. Idle \notin NewCall \cup SetCall
    BY <2>1, NoneIsNoRow
  <2> QED BY <2>2 DEF Rests, NewCall, SetCall
<1>4. \A j \in Products : j \in T =>
        /\ product'[j] # NoRow
        /\ j \notin mixed' => Balanced(j)'
  OBVIOUS
<1>5. calls'[c] \in AddCall \cup NewCall \cup SetCall => product'[calls'[c].product] # NoRow
  BY <1>3
<1>6. \A j \in Products : j \notin T =>
        /\ Works(calls[c], j) => j \in mixed'
        /\ ~Works(calls'[c], j)
        /\ product'[j] # NoRow => product[j] # NoRow /\ product'[j].stock = product[j].stock
        /\ logged'[j] = logged[j]
  BY <1>2
<1>7. mixed \subseteq mixed'
  OBVIOUS
<1> HIDE DEF T
<1> QED BY <1>1, <1>4, <1>5, <1>6, <1>7, LogTurns

LEMMA LogStill ==
  ASSUME Inv, LInv, calls' = calls, logged' = logged, mixed' = mixed,
         \A j \in Products :
           /\ product'[j] = NoRow <=> product[j] = NoRow
           /\ product[j] # NoRow => product'[j].stock = product[j].stock
  PROVE  LInv'
<1>1. Existing'
  <2>1. ASSUME NEW d \in Calls, calls[d] \in AddCall \cup NewCall \cup SetCall
        PROVE  product'[calls[d].product] # NoRow
    <3>1. calls[d].product \in Products
      BY <2>1 DEF AddCall, NewCall, SetCall
    <3> QED BY <2>1, <3>1 DEF LInv, Existing
  <2> QED BY <2>1 DEF Existing
<1>2. Unlogged'
  BY DEF LInv, Unlogged
<1>3. ASSUME NEW j \in Products, j \notin mixed', product'[j] # NoRow
      PROVE  Balanced(j)'
  <2>1. Balanced(j) /\ product'[j].stock = product[j].stock
    BY <1>3 DEF LInv
  <2>2. CASE \E e \in Calls : Sets(calls[e], j)
    <3> PICK e \in Calls : Sets(calls[e], j)
      BY <2>2
    <3>1. product[j].stock = calls[e].quantity /\ \A d \in Calls \ {e} : ~Works(calls[d], j)
      BY <2>1 DEF Balanced
    <3>2. Sets(calls'[e], j) /\ product'[j].stock = calls'[e].quantity
      BY <2>1, <3>1
    <3>3. \A d \in Calls : d # e => ~Works(calls'[d], j)
      BY <3>1
    <3> QED BY <3>2, <3>3, BalanceSet
  <2>3. CASE \A e \in Calls : ~Sets(calls[e], j)
    <3>1. IsSum(Working(j), Changes, product[j].stock - logged[j])
      BY <2>1, <2>3 DEF Balanced
    <3>2. Working(j)' = Working(j) /\ Changes' = Changes
      BY DEF Working, Changes
    <3>3. IsSum(Working(j)', Changes', product'[j].stock - logged'[j])
      BY <2>1, <3>1, <3>2
    <3>4. \A e \in Calls : ~Sets(calls'[e], j)
      BY <2>3
    <3> QED BY <3>3, <3>4, BalanceSums
  <2> QED BY <2>2, <2>3
<1> QED BY <1>1, <1>2, <1>3 DEF LInv

\* A step of one call on one product.
LEMMA WorksOne ==
  ASSUME NEW x, NEW i, NEW j, Works(x, i), Works(x, j)
  PROVE  i = j
BY DEF Works

LEMMA LogAt ==
  ASSUME Inv, LInv, NEW c \in Calls, NEW i \in Products,
         \A d \in Calls : d # c => calls'[d] = calls[d],
         \A j \in Products : j # i => product'[j] = product[j] /\ logged'[j] = logged[j],
         Rests(calls[c]) \/ Works(calls[c], i), Rests(calls'[c]) \/ Works(calls'[c], i),
         product'[i] # NoRow, mixed \subseteq mixed', i \notin mixed' => Balanced(i)',
         calls'[c] \in AddCall \cup NewCall \cup SetCall => calls'[c].product = i
  PROVE  LInv'
<1> DEFINE T == {i}
<1>1. RowsStay
  BY DEF RowsStay
<1>2. \A j \in Products : j # i => ~Works(calls[c], j) /\ ~Works(calls'[c], j)
  BY WorksOne, RestsNotWorks
<1>3. \A j \in Products : j \notin T =>
        /\ Works(calls[c], j) => j \in mixed'
        /\ ~Works(calls'[c], j)
        /\ product'[j] # NoRow => product[j] # NoRow /\ product'[j].stock = product[j].stock
        /\ logged'[j] = logged[j]
  BY <1>2
<1>4. \A j \in Products : j \in T =>
        /\ product'[j] # NoRow
        /\ j \notin mixed' => Balanced(j)'
  <2>1. \A j : j \in T => j = i
    OBVIOUS
  <2>2. ASSUME NEW j \in Products, j = i PROVE product'[j] # NoRow /\ (j \notin mixed' => Balanced(j)')
    BY <2>2
  <2> QED BY <2>1, <2>2
<1>5. calls'[c] \in AddCall \cup NewCall \cup SetCall => product'[calls'[c].product] # NoRow
  OBVIOUS
<1> HIDE DEF T
<1> QED BY <1>1, <1>3, <1>4, <1>5, LogTurns

\* Deliveries.
LEMMA LogDelivers ==
  ASSUME Inv, LInv, NEW c \in Calls,
         \/ \E n \in Deliveries : Find(c, n)
         \/ LogAdd(c) \/ SaveProduct(c) \/ LogNew(c)
         \/ \E i \in Products : Insert(c, i)
  PROVE  LInv'
<1>t. /\ TypeOK /\ calls \in [Calls -> Call \cup {Idle}] /\ product \in [Products -> Product \cup {NoRow}]
      /\ logged \in [Products -> Int]
  BY DEF Inv, TypeOK
<1>1. ASSUME NEW n \in Deliveries, Find(c, n) PROVE LInv'
  <2>1. /\ calls[c] = Idle /\ UNCHANGED <<product, logged, mixed>>
        /\ \A d \in Calls : d # c => calls'[d] = calls[d]
    BY <1>t, <1>1 DEF Find, Begins, goods
  <2>2. CASE calls' = [calls EXCEPT ![c] = [pc |-> "insert", quantity |-> n]]
    <3>1. calls'[c] = [pc |-> "insert", quantity |-> n]
      BY <1>t, <2>2
    <3>2. calls'[c] \notin AddCall /\ Rests(calls'[c]) /\ Rests(calls[c])
      BY <2>1, <3>1 DEF AddCall, Rests
    <3> QED BY <2>1, <3>2, LogQuiet
  <2>3. ASSUME NEW i \in Active,
               calls' = [calls EXCEPT ![c] =
                 [pc |-> "logAdd", product |-> i, row |-> product[i], quantity |-> n]]
        PROVE  LInv'
    <3>1. calls'[c] = [pc |-> "logAdd", product |-> i, row |-> product[i], quantity |-> n]
      BY <1>t, <2>3
    <3>2. Rests(calls'[c]) /\ Rests(calls[c])
      BY <2>1, <3>1 DEF Rests
    <3>3. calls'[c].product = i /\ product[i] # NoRow
      BY <3>1 DEF Active
    <3> QED BY <2>1, <3>2, <3>3, LogQuiet
  <2> QED BY <1>1, <2>2, <2>3 DEF Find
<1>2. ASSUME LogAdd(c) PROVE LInv'
  <2> DEFINE x == calls[c]
             y == [x EXCEPT !.pc = "save"]
  <2>0. x \in AddCall /\ x.pc = "logAdd" /\ x.product \in Products /\ x.quantity \in Int
    <3>1. x \in AddCall /\ x.pc = "logAdd"
      BY <1>t, <1>2, Kinds DEF LogAdd, At
    <3>2. x.product \in Products /\ x.quantity \in Deliveries
      BY <3>1 DEF AddCall
    <3> QED BY <3>1, <3>2, Amounts
  <2> PICK i \in Products : i = x.product
    BY <2>0
  <2>1. x \in AddCall /\ x.pc = "logAdd" /\ i = x.product /\ x.quantity \in Int
    BY <2>0
  <2>2. /\ calls'[c] = y /\ \A d \in Calls : d # c => calls'[d] = calls[d]
        /\ logged'[i] = logged[i] + x.quantity /\ product' = product
        /\ \A j \in Products : j # i => logged'[j] = logged[j]
        /\ Wrote(c, i, TRUE)
    BY <1>t, <1>2, <2>1 DEF LogAdd, Goto
  <2>3. y.pc = "save" /\ y.product = i /\ y.quantity = x.quantity /\ y # Idle
    <3>1. y \in AddCall
      BY <2>1 DEF AddCall
    <3>2. y # Idle
      BY <3>1, NoneIsNoRow DEF Call
    <3> QED BY <2>1, <3>2 DEF AddCall
  <2>4. product[i] # NoRow /\ product[i].stock \in Int /\ logged[i] \in Int
    <3>1. product[i] # NoRow
      BY <2>1 DEF LInv, Existing
    <3>2. product[i] \in Product /\ logged[i] \in Int
      BY <1>t, <2>1, <3>1
    <3> QED BY <3>1, <3>2 DEF Product
  <2> HIDE DEF y
  <2>5. Works(calls'[c], i) /\ ~Sets(calls'[c], i) /\ Change(calls'[c]) = -x.quantity
    BY <2>2, <2>3 DEF Works, Sets, Change
  <2>6. Rests(calls[c])
    BY <2>1 DEF Rests
  <2>7. mixed \subseteq mixed'
    BY <2>2 DEF Wrote
  <2>8. ASSUME i \notin mixed' PROVE Balanced(i)'
    <3>1. \A d \in Calls : d # c => ~Sets(calls[d], i)
      BY <2>2, <2>8, WroteUnmixed
    <3>2. Balanced(i)
      BY <2>1, <2>4, <2>7, <2>8 DEF LInv
    <3>3. ~Works(calls[c], i)
      BY <2>6, RestsNotWorks
    <3>4. -x.quantity \in Int
          /\ product'[i].stock - logged'[i] = (product[i].stock - logged[i]) + (-x.quantity)
      BY <2>1, <2>2, <2>4
    <3> HIDE DEF x
    <3> QED BY <2>1, <2>2, <2>5, <3>1, <3>2, <3>3, <3>4, BalanceEnters
  <2>9. calls'[c].product = i /\ product'[i] # NoRow
    BY <2>2, <2>3, <2>4
  <2> HIDE DEF x
  <2> QED BY <2>1, <2>2, <2>5, <2>6, <2>7, <2>8, <2>9, LogAt
<1>3. ASSUME SaveProduct(c) PROVE LInv'
  <2> DEFINE x == calls[c]
  <2>0. /\ x \in AddCall /\ x.pc = "save" /\ x.product \in Products /\ x.quantity \in Int
        /\ x.row \in Product /\ x # Idle
    <3>1. x \in AddCall /\ x.pc = "save" /\ x # Idle
      BY <1>t, <1>3, Kinds DEF SaveProduct, At
    <3>2. x.product \in Products /\ x.quantity \in Deliveries /\ x.row \in Product
      BY <3>1 DEF AddCall
    <3> QED BY <3>1, <3>2, Amounts
  <2> PICK i \in Products : i = x.product
    BY <2>0
  <2>1. /\ x \in AddCall /\ x.pc = "save" /\ i = x.product /\ x.quantity \in Int
        /\ x.row \in Product /\ x # Idle
    BY <2>0
  <2>2. /\ calls'[c] = Idle /\ \A d \in Calls : d # c => calls'[d] = calls[d]
        /\ product'[i] = [x.row EXCEPT !.stock = @ + x.quantity]
        /\ \A j \in Products : j # i => product'[j] = product[j]
        /\ logged' = logged
        /\ mixed' = IF product[i] = x.row THEN mixed ELSE mixed \cup {i}
    BY <1>t, <1>3, <2>1 DEF SaveProduct, End
  <2>3. product'[i] # NoRow /\ product'[i].stock = x.row.stock + x.quantity /\ x.row.stock \in Int
    <3>1. x.row.stock + x.quantity \in Int
      BY <2>1 DEF Product
    <3>2. product'[i] \in Product
      BY <2>1, <2>2, <3>1 DEF Product
    <3> QED BY <2>1, <2>2, <3>2, NoneIsNoRow DEF Product
  <2>4. Works(calls[c], i) /\ ~Sets(calls[c], i) /\ Change(calls[c]) = -x.quantity
    BY <2>1 DEF Works, Sets, Change
  <2>5. Rests(calls'[c]) /\ ~Works(calls'[c], i)
    BY <2>2 DEF Rests, Works
  <2>6. mixed \subseteq mixed' /\ logged[i] \in Int
    BY <1>t, <2>1, <2>2
  <2>7. ASSUME i \notin mixed' PROVE Balanced(i)'
    <3>1. product[i] = x.row /\ i \notin mixed
      BY <2>2, <2>7
    <3>2. product[i] # NoRow
      BY <2>1, <3>1, NoneIsNoRow
    <3>3. Balanced(i)
      BY <2>1, <3>1, <3>2 DEF LInv
    <3>4. product'[i].stock - logged'[i] = (product[i].stock - logged[i]) - Change(calls[c])
      <4>1. /\ product'[i].stock = product[i].stock + x.quantity /\ logged'[i] = logged[i]
            /\ product[i].stock \in Int
        BY <2>2, <2>3, <3>1
      <4> QED BY <2>1, <2>4, <2>6, <4>1
    <3> HIDE DEF x
    <3> QED BY <2>1, <2>2, <2>4, <2>5, <3>3, <3>4, BalanceLeaves
  <2>8. calls'[c] \notin AddCall \cup NewCall \cup SetCall
    BY <2>2, NoneExists
  <2> HIDE DEF x
  <2> QED BY <2>1, <2>2, <2>3, <2>4, <2>5, <2>6, <2>7, <2>8, LogAt
<1>4. ASSUME LogNew(c) PROVE LInv'
  <2> DEFINE x == calls[c]
  <2>0. x \in NewCall /\ x.pc = "logNew" /\ x.product \in Products /\ x.quantity \in Int /\ x # Idle
    <3>1. x \in NewCall /\ x.pc = "logNew" /\ x # Idle
      BY <1>t, <1>4, Kinds DEF LogNew, At
    <3>2. x.product \in Products /\ x.quantity \in Deliveries
      BY <3>1 DEF NewCall
    <3> QED BY <3>1, <3>2, Amounts
  <2> PICK i \in Products : i = x.product
    BY <2>0
  <2>1. x \in NewCall /\ x.pc = "logNew" /\ i = x.product /\ x.quantity \in Int /\ x # Idle
    BY <2>0
  <2>2. /\ calls'[c] = Idle /\ \A d \in Calls : d # c => calls'[d] = calls[d]
        /\ product' = product /\ mixed' = mixed
        /\ logged'[i] = logged[i] + x.quantity
        /\ \A j \in Products : j # i => logged'[j] = logged[j]
    BY <1>t, <1>4, <2>1 DEF LogNew, End
  <2>3. product[i] # NoRow /\ product[i].stock \in Int /\ logged[i] \in Int
    <3>1. product[i] # NoRow
      BY <2>1 DEF LInv, Existing
    <3>2. product[i] \in Product /\ logged[i] \in Int
      BY <1>t, <2>1, <3>1
    <3> QED BY <3>1, <3>2 DEF Product
  <2>4. Works(calls[c], i) /\ ~Sets(calls[c], i) /\ Change(calls[c]) = x.quantity
    BY <2>1 DEF Works, Sets, Change
  <2>5. Rests(calls'[c]) /\ ~Works(calls'[c], i)
    BY <2>2 DEF Rests, Works
  <2>6. ASSUME i \notin mixed' PROVE Balanced(i)'
    <3>1. Balanced(i)
      BY <2>1, <2>2, <2>3, <2>6 DEF LInv
    <3>2. product'[i].stock - logged'[i] = (product[i].stock - logged[i]) - Change(calls[c])
      BY <2>1, <2>2, <2>3, <2>4
    <3> HIDE DEF x
    <3> QED BY <2>1, <2>2, <2>4, <2>5, <3>1, <3>2, BalanceLeaves
  <2>7. calls'[c] \notin AddCall \cup NewCall \cup SetCall
    BY <2>2, NoneExists
  <2> HIDE DEF x
  <2> QED BY <2>1, <2>2, <2>3, <2>4, <2>5, <2>6, <2>7, LogAt
<1>5. ASSUME NEW i \in Products, Insert(c, i) PROVE LInv'
  <2> DEFINE n == calls[c].quantity
             y == [pc |-> "logNew", product |-> i, quantity |-> n]
  <2>1. calls[c] \in InsertCall /\ calls[c].pc = "insert" /\ n \in Int /\ product[i] = NoRow
    <3>1. calls[c] \in InsertCall /\ calls[c].pc = "insert" /\ product[i] = NoRow
      BY <1>t, <1>5, Kinds DEF Insert, At, Free
    <3>2. n \in Deliveries
      BY <3>1 DEF InsertCall
    <3> QED BY <3>1, <3>2, Amounts
  <2>2. /\ calls'[c] = y /\ \A d \in Calls : d # c => calls'[d] = calls[d]
        /\ product'[i] = [stock |-> n, active |-> TRUE] /\ logged' = logged /\ mixed' = mixed
        /\ \A j \in Products : j # i => product'[j] = product[j]
    BY <1>t, <1>5 DEF Insert
  <2>3. product'[i] # NoRow /\ product'[i].stock = n
    <3>1. product'[i] \in Product
      BY <2>1, <2>2 DEF Product
    <3>2. product'[i] # NoRow
      BY <3>1, NoneIsNoRow
    <3>3. product'[i].stock = n
      <4> HIDE DEF n, y
      <4> QED BY <2>2
    <3> QED BY <3>2, <3>3
  <2>4. y # Idle /\ y.pc = "logNew" /\ y.product = i /\ y.quantity = n
    <3>1. n \in Deliveries
      BY <2>1 DEF InsertCall
    <3>2. y \in NewCall
      BY <3>1 DEF NewCall
    <3>3. y # Idle
      BY <3>2, NoneIsNoRow DEF Call
    <3> QED BY <3>3
  <2> HIDE DEF y, n
  <2>5. Works(calls'[c], i) /\ ~Sets(calls'[c], i) /\ Change(calls'[c]) = n
    BY <2>2, <2>4 DEF Works, Sets, Change
  <2>6. \A d \in Calls : d # c => ~Works(calls'[d], i)
    BY <2>1, <2>2, NobodyWorks
  <2>7. logged'[i] = 0 /\ product'[i].stock - logged'[i] = n
    BY <2>1, <2>2, <2>3 DEF LInv, Unlogged
  <2>8. Balanced(i)'
    BY <2>1, <2>5, <2>6, <2>7, BalanceFirst
  <2>9. Rests(calls[c]) /\ calls'[c].product = i
    BY <2>1, <2>2, <2>4 DEF Rests
  <2> QED BY <2>2, <2>3, <2>5, <2>8, <2>9, LogAt
<1> QED BY <1>1, <1>2, <1>3, <1>4, <1>5

\* The owner's corrections.
LEMMA LogCorrects ==
  ASSUME Inv, LInv, NEW c \in Calls,
         LogSet(c) \/ \E i \in Products, n \in Counts : SetStock(c, i, n)
  PROVE  LInv'
<1>t. /\ TypeOK /\ calls \in [Calls -> Call \cup {Idle}] /\ product \in [Products -> Product \cup {NoRow}]
      /\ logged \in [Products -> Int]
  BY DEF Inv, TypeOK
<1>1. ASSUME LogSet(c) PROVE LInv'
  <2> DEFINE x == calls[c]
  <2>0. x \in SetCall /\ x.pc = "logSet" /\ x.product \in Products /\ x # Idle
    <3>1. x \in SetCall /\ x.pc = "logSet" /\ x # Idle
      BY <1>t, <1>1, Kinds DEF LogSet, At
    <3> QED BY <3>1 DEF SetCall
  <2> PICK i \in Products : i = x.product
    BY <2>0
  <2>1. /\ calls'[c] = Idle /\ \A d \in Calls : d # c => calls'[d] = calls[d]
        /\ product' = product /\ Wrote(c, i, TRUE)
        /\ logged'[i] = x.quantity
        /\ \A j \in Products : j # i => logged'[j] = logged[j]
    BY <1>t, <1>1 DEF LogSet, End
  <2>2. Works(calls[c], i) /\ Sets(calls[c], i)
    BY <2>0 DEF Works, Sets
  <2>3. Rests(calls'[c]) /\ ~Works(calls'[c], i)
    BY <2>1 DEF Rests, Works
  <2>4. product[i] # NoRow /\ product[i].stock \in Int
    <3>1. product[i] # NoRow
      BY <2>0 DEF LInv, Existing
    <3>2. product[i] \in Product
      BY <1>t, <3>1
    <3> QED BY <3>1, <3>2 DEF Product
  <2>5. mixed \subseteq mixed'
    BY <2>1 DEF Wrote
  <2>6. ASSUME i \notin mixed' PROVE Balanced(i)'
    <3>1. \A d \in Calls : d # c => ~Works(calls[d], i)
      BY <2>1, <2>6, WroteUnmixed
    <3>2. \A d \in Calls : ~Works(calls'[d], i)
      BY <2>1, <2>3, <3>1
    <3>3. Balanced(i)
      BY <2>4, <2>5, <2>6 DEF LInv
    <3>4. product[i].stock = x.quantity
      BY <2>2, <3>3 DEF Balanced
    <3>5. product'[i].stock \in Int /\ product'[i].stock = logged'[i]
      BY <2>1, <2>4, <3>4
    <3> HIDE DEF x
    <3> QED BY <3>2, <3>5, BalanceRests
  <2>7. calls'[c] \notin AddCall \cup NewCall \cup SetCall
    BY <2>1, NoneExists
  <2> HIDE DEF x
  <2> QED BY <2>1, <2>2, <2>3, <2>4, <2>5, <2>6, <2>7, LogAt
<1>2. ASSUME NEW i \in Products, NEW n \in Counts, SetStock(c, i, n) PROVE LInv'
  <2> DEFINE y == [pc |-> "logSet", product |-> i, quantity |-> n]
  <2>1. /\ calls'[c] = y /\ \A d \in Calls : d # c => calls'[d] = calls[d]
        /\ product'[i] = [product[i] EXCEPT !.stock = n] /\ product[i] \in Product
        /\ \A j \in Products : j # i => product'[j] = product[j]
        /\ logged' = logged /\ Wrote(c, i, TRUE)
        /\ calls[c] = Idle
    BY <1>t, <1>2 DEF SetStock, Begins
  <2>2. product'[i] # NoRow /\ product'[i].stock = n
    <3>1. n \in Int
      BY Amounts
    <3>2. product'[i] \in Product
      BY <2>1, <3>1 DEF Product
    <3>3. product'[i] # NoRow
      BY <3>2, NoneIsNoRow
    <3> HIDE DEF y
    <3>4. product'[i].stock = n
      BY <2>1 DEF Product
    <3> QED BY <3>3, <3>4
  <2>3. y # Idle /\ y.pc = "logSet" /\ y.product = i /\ y.quantity = n
    <3>1. y \in SetCall
      BY DEF SetCall
    <3>2. y # Idle
      BY <3>1, NoneIsNoRow DEF Call
    <3> QED BY <3>2
  <2> HIDE DEF y
  <2>4. Works(calls'[c], i) /\ Sets(calls'[c], i) /\ calls'[c].product = i
    BY <2>1, <2>3 DEF Works, Sets
  <2>5. mixed \subseteq mixed'
    BY <2>1 DEF Wrote
  <2>6. ASSUME i \notin mixed' PROVE Balanced(i)'
    <3>1. \A d \in Calls : d # c => ~Works(calls[d], i)
      BY <2>1, <2>6, WroteUnmixed
    <3>2. \A d \in Calls : d # c => ~Works(calls'[d], i)
      BY <2>1, <3>1
    <3>3. product'[i].stock = calls'[c].quantity
      BY <2>1, <2>2, <2>3
    <3> QED BY <2>4, <3>2, <3>3, BalanceSet
  <2>7. Rests(calls[c])
    BY <2>1 DEF Rests
  <2> QED BY <2>1, <2>2, <2>4, <2>5, <2>6, <2>7, LogAt
<1> QED BY <1>1, <1>2

\* Orders.
LEMMA LogOrders ==
  ASSUME Inv, LInv, NEW c \in Calls,
         \/ \E p \in Packages, i \in Products, n \in Quantities : Order(c, p, i, n)
         \/ CreatePackages(c) \/ Take(c) \/ LogTake(c)
  PROVE  LInv'
<1>t. /\ TypeOK /\ calls \in [Calls -> Call \cup {Idle}] /\ product \in [Products -> Product \cup {NoRow}]
      /\ logged \in [Products -> Int]
  BY DEF Inv, TypeOK
<1> DEFINE x == calls[c]
<1>1. ASSUME NEW p \in Packages, NEW i \in Products, NEW n \in Quantities, Order(c, p, i, n)
      PROVE LInv'
  <2>1. /\ calls[c] = Idle /\ UNCHANGED <<product, logged, mixed>>
        /\ \A d \in Calls : d # c => calls'[d] = calls[d]
        /\ calls'[c] = [pc |-> "create", package |-> p, product |-> i, quantity |-> n]
    BY <1>t, <1>1 DEF Order, Begins, goods
  <2>2. calls'[c].pc = "create"
    BY <2>1
  <2>3. Rests(calls[c]) /\ Rests(calls'[c]) /\ calls'[c] \notin AddCall
    BY <2>1, <2>2, NoneExists DEF Rests
  <2> QED BY <2>1, <2>3, LogQuiet
<1>2. ASSUME CreatePackages(c) PROVE LInv'
  <2>1. x \in OrderCall /\ x.pc = "create"
    BY <1>t, <1>2, Kinds DEF CreatePackages, At
  <2>2. /\ UNCHANGED <<product, logged, mixed>>
        /\ \A d \in Calls : d # c => calls'[d] = calls[d]
        /\ calls'[c].pc = "take"
    BY <1>t, <1>2, <2>1 DEF CreatePackages, Goto, goods, OrderCall
  <2>3. Rests(calls[c]) /\ Rests(calls'[c]) /\ calls'[c] \notin AddCall
    BY <2>1, <2>2, NoneExists DEF Rests
  <2> QED BY <2>2, <2>3, LogQuiet
<1>3. ASSUME Take(c) PROVE LInv'
  <2>0. x \in OrderCall /\ x.pc = "take" /\ x.product \in Products /\ x.quantity \in Int
        /\ product[x.product] # NoRow
    <3>1. x \in OrderCall /\ x.pc = "take" /\ x # Idle
      BY <1>t, <1>3, Kinds DEF Take, At
    <3>2. x.product \in Products /\ x.quantity \in Quantities
      BY <3>1 DEF OrderCall
    <3>3. product[x.product] # NoRow
      BY <3>1 DEF Inv, Sound, SoundCall
    <3> QED BY <3>1, <3>2, <3>3, Amounts
  <2> PICK i \in Products : i = x.product
    BY <2>0
  <2>1. Rests(calls[c])
    BY <2>0 DEF Rests
  <2>2. CASE product[i].stock - x.quantity >= 0
    <3> DEFINE y == [x EXCEPT !.pc = "logTake"]
    <3>1. /\ calls'[c] = y /\ \A d \in Calls : d # c => calls'[d] = calls[d]
          /\ product'[i] = [product[i] EXCEPT !.stock = @ - x.quantity] /\ product[i] \in Product
          /\ \A j \in Products : j # i => product'[j] = product[j]
          /\ logged' = logged /\ Wrote(c, i, FALSE)
      BY <1>t, <1>3, <2>0, <2>2 DEF Take, Goto
    <3>2. y # Idle /\ y.pc = "logTake" /\ y.product = i /\ y.quantity = x.quantity
      <4>1. y \in OrderCall
        BY <2>0 DEF OrderCall
      <4>2. y # Idle
        BY <4>1, NoneIsNoRow DEF Call
      <4> QED BY <2>0, <4>2 DEF OrderCall
    <3> HIDE DEF y
    <3>3. /\ product'[i] # NoRow /\ product'[i].stock = product[i].stock - x.quantity
          /\ product[i].stock \in Int /\ logged[i] \in Int
      <4>1. product[i].stock \in Int /\ logged[i] \in Int
        BY <1>t, <3>1 DEF Product
      <4>2. product'[i] \in Product
        BY <2>0, <3>1, <4>1 DEF Product
      <4>3. product'[i] # NoRow
        BY <4>2, NoneIsNoRow
      <4>4. product'[i].stock = product[i].stock - x.quantity
        <5> HIDE DEF x
        <5> QED BY <3>1 DEF Product
      <4> QED BY <4>1, <4>3, <4>4
    <3>4. Works(calls'[c], i) /\ ~Sets(calls'[c], i) /\ Change(calls'[c]) = -x.quantity
      BY <3>1, <3>2 DEF Works, Sets, Change
    <3>5. mixed \subseteq mixed'
      BY <3>1 DEF Wrote
    <3>6. ASSUME i \notin mixed' PROVE Balanced(i)'
      <4>1. \A d \in Calls : d # c => ~Sets(calls[d], i)
        BY <3>1, <3>6, WroteUnmixed
      <4>2. Balanced(i)
        BY <2>0, <3>5, <3>6 DEF LInv
      <4>3. ~Works(calls[c], i)
        BY <2>1, RestsNotWorks
      <4>4. /\ -x.quantity \in Int
            /\ product'[i].stock - logged'[i] = (product[i].stock - logged[i]) + (-x.quantity)
        BY <2>0, <3>1, <3>3
      <4>5. \A d \in Calls : d # c => calls'[d] = calls[d] /\ ~Sets(calls[d], i)
        BY <3>1, <4>1
      <4> PICK n \in Int : n = -x.quantity
        BY <4>4
      <4>6. Change(calls'[c]) = n
            /\ product'[i].stock - logged'[i] = (product[i].stock - logged[i]) + n
        BY <3>4, <4>4
      <4> HIDE DEF x
      <4> QED BY <3>4, <4>2, <4>3, <4>5, <4>6, BalanceEnters
    <3>7. calls'[c] \notin AddCall \cup NewCall \cup SetCall
      BY <3>1, <3>2, NoneExists
    <3> HIDE DEF x
    <3> QED BY <2>1, <3>1, <3>3, <3>4, <3>5, <3>6, <3>7, LogAt
  <2>3. CASE ~(product[i].stock - x.quantity >= 0)
    <3>1. /\ UNCHANGED <<product, logged, mixed>> /\ calls'[c] = Idle
          /\ \A d \in Calls : d # c => calls'[d] = calls[d]
      BY <1>t, <1>3, <2>3 DEF Take, End
    <3>2. Rests(calls'[c]) /\ calls'[c] \notin AddCall
      BY <3>1, NoneExists DEF Rests
    <3> QED BY <2>1, <3>1, <3>2, LogQuiet
  <2> QED BY <2>2, <2>3
<1>4. ASSUME LogTake(c) PROVE LInv'
  <2>0. x \in OrderCall /\ x.pc = "logTake" /\ x.product \in Products /\ x.quantity \in Int
        /\ product[x.product] # NoRow /\ x # Idle
    <3>1. x \in OrderCall /\ x.pc = "logTake" /\ x # Idle
      BY <1>t, <1>4, Kinds DEF LogTake, At
    <3>2. x.product \in Products /\ x.quantity \in Quantities
      BY <3>1 DEF OrderCall
    <3>3. product[x.product] # NoRow
      BY <3>1 DEF Inv, Sound, SoundCall
    <3> QED BY <3>1, <3>2, <3>3, Amounts
  <2> PICK i \in Products : i = x.product
    BY <2>0
  <2>1. /\ calls'[c] = Idle /\ \A d \in Calls : d # c => calls'[d] = calls[d]
        /\ product' = product /\ Wrote(c, i, FALSE)
        /\ logged'[i] = logged[i] - x.quantity
        /\ \A j \in Products : j # i => logged'[j] = logged[j]
    BY <1>t, <1>4 DEF LogTake, End
  <2>2. Works(calls[c], i) /\ ~Sets(calls[c], i) /\ Change(calls[c]) = -x.quantity
    BY <2>0 DEF Works, Sets, Change
  <2>3. Rests(calls'[c]) /\ ~Works(calls'[c], i)
    BY <2>1 DEF Rests, Works
  <2>4. product[i].stock \in Int /\ logged[i] \in Int
    <3>1. product[i] \in Product /\ logged[i] \in Int
      BY <1>t, <2>0
    <3> QED BY <3>1 DEF Product
  <2>5. mixed \subseteq mixed'
    BY <2>1 DEF Wrote
  <2>6. ASSUME i \notin mixed' PROVE Balanced(i)'
    <3>1. Balanced(i)
      BY <2>0, <2>5, <2>6 DEF LInv
    <3>2. product'[i].stock - logged'[i] = (product[i].stock - logged[i]) - Change(calls[c])
      BY <2>0, <2>1, <2>2, <2>4
    <3> HIDE DEF x
    <3> QED BY <2>1, <2>2, <2>3, <3>1, <3>2, BalanceLeaves
  <2>7. calls'[c] \notin AddCall \cup NewCall \cup SetCall
    BY <2>1, NoneExists
  <2>8. product'[i] # NoRow
    BY <2>0, <2>1
  <2> HIDE DEF x
  <2> QED BY <2>1, <2>2, <2>3, <2>5, <2>6, <2>7, <2>8, LogAt
<1> QED BY <1>1, <1>2, <1>3, <1>4

\* Lists.
LEMMA LogLists ==
  ASSUME Inv, LInv, NEW c \in Calls,
         \/ \E S \in SUBSET Packages : Begin(c, S)
         \/ \E p \in Packages : Refuse(c, p) \/ PassOver(c, p) \/ GiveBack(c, p) \/ FailBack(c, p)
         \/ LogBack(c) \/ CancelPackages(c) \/ \E late \in BOOLEAN : Count(c, late)
  PROVE  LInv'
<1>t. /\ TypeOK /\ calls \in [Calls -> Call \cup {Idle}] /\ product \in [Products -> Product \cup {NoRow}]
      /\ logged \in [Products -> Int]
  BY DEF Inv, TypeOK
<1> DEFINE x == calls[c]
           Quiet == /\ Rests(calls[c]) /\ (calls'[c] = Idle \/ calls'[c].pc \in {"check", "count"})
                    /\ UNCHANGED <<product, logged, mixed>>
                    /\ \A d \in Calls : d # c => calls'[d] = calls[d]
<1>0. ASSUME Quiet PROVE LInv'
  <2>1. Rests(calls'[c]) /\ calls'[c] \notin AddCall
    BY <1>0, NoneExists DEF Rests
  <2> QED BY <1>0, <2>1, LogQuiet
<1>1. ASSUME NEW S \in SUBSET Packages, Begin(c, S) PROVE Quiet
  BY <1>t, <1>1 DEF Begin, Begins, goods, Rests
<1>2. ASSUME NEW p \in Packages, Refuse(c, p) PROVE Quiet
  BY <1>t, <1>2 DEF Refuse, Abandon, End, At, goods, Rests
<1>3. ASSUME NEW p \in Packages, PassOver(c, p) \/ FailBack(c, p) PROVE Quiet
  <2>1. x \in CancelCall /\ x.pc = "check"
    BY <1>t, <1>3, Kinds DEF PassOver, FailBack, At
  <2>2. UNCHANGED <<product, logged, mixed>>
    BY <1>3 DEF PassOver, FailBack, goods
  <2>3. \/ calls' = [calls EXCEPT ![c].todo = @ \ {p}]
        \/ calls' = [calls EXCEPT ![c].todo = @ \ {p},
                            ![c].amount = IF Counted(c, p) THEN @ + 1 ELSE @]
    BY <1>3 DEF PassOver, FailBack
  <2>4. calls'[c].pc = "check" /\ \A d \in Calls : d # c => calls'[d] = calls[d]
    BY <1>t, <2>1, <2>3 DEF CancelCall
  <2> QED BY <2>1, <2>2, <2>4 DEF Rests
<1>4. ASSUME CancelPackages(c) PROVE Quiet
  <2>1. x \in CancelCall /\ x.pc = "check"
    BY <1>t, <1>4, Kinds DEF CancelPackages, At
  <2>2. UNCHANGED <<product, logged, mixed>> /\ calls' = [calls EXCEPT ![c].pc = "count"]
    BY <1>4 DEF CancelPackages, Goto, goods
  <2>3. calls'[c].pc = "count" /\ \A d \in Calls : d # c => calls'[d] = calls[d]
    BY <1>t, <2>1, <2>2 DEF CancelCall
  <2> QED BY <2>1, <2>2, <2>3 DEF Rests
<1>5. ASSUME NEW late \in BOOLEAN, Count(c, late) PROVE Quiet
  BY <1>t, <1>5 DEF Count, End, At, goods, Rests
<1>6. ASSUME NEW p \in Packages, GiveBack(c, p) PROVE LInv'
  <2> DEFINE line == x.seen[p]
             y == [x EXCEPT !.pc = "logBack", !.at = p, !.todo = @ \ {p},
                            !.given = @ \cup {p},
                            !.amount = IF Counted(c, p) THEN @ + 1 ELSE @]
  <2>0. /\ x \in CancelCall /\ x.pc = "check" /\ line.product \in Products
        /\ line.quantity \in Int /\ product[line.product] # NoRow
    <3>1. x \in CancelCall /\ x.pc = "check" /\ x # Idle
      BY <1>t, <1>6, Kinds DEF GiveBack, At
    <3>2. p \in DOMAIN x.seen /\ product[line.product] # NoRow
      BY <1>6, <3>1 DEF GiveBack, Inv, Sound, SoundCall
    <3>3. line \in Package
      BY <3>1, <3>2, SeenTyped
    <3>4. line.product \in Products /\ line.quantity \in Quantities
      BY <3>3 DEF Package
    <3> QED BY <3>1, <3>2, <3>4, Amounts
  <2> PICK i \in Products : i = line.product
    BY <2>0
  <2>1. Rests(calls[c])
    BY <2>0 DEF Rests
  <2>2. /\ calls' = [calls EXCEPT ![c].pc = "logBack", ![c].at = p, ![c].todo = @ \ {p},
                            ![c].given = @ \cup {p},
                            ![c].amount = IF Counted(c, p) THEN @ + 1 ELSE @]
        /\ product' = [product EXCEPT ![i].stock = @ + line.quantity]
        /\ logged' = logged /\ Wrote(c, i, FALSE)
    BY <1>6 DEF GiveBack
  <2>3. /\ calls'[c] = y /\ \A d \in Calls : d # c => calls'[d] = calls[d]
    BY <1>t, <2>2
  <2>4. /\ product'[i] = [product[i] EXCEPT !.stock = @ + line.quantity] /\ product[i] \in Product
        /\ \A j \in Products : j # i => product'[j] = product[j]
    BY <1>t, <2>0, <2>2
  <2>5. y # Idle /\ y.pc = "logBack" /\ y.at = p /\ y.seen = x.seen
    <3>1. y.pc = "logBack" /\ y.at = p /\ y.seen = x.seen
      BY <2>0 DEF CancelCall
    <3>2. Idle \notin CancelCall
      BY NoneIsNoRow DEF Call
    <3>3. y # Idle
      <4> DEFINE m == IF Counted(c, p) THEN x.amount + 1 ELSE x.amount
      <4>1. x.amount \in Nat
        BY <2>0 DEF CancelCall
      <4>2. m \in Nat
        BY <4>1
      <4>3. y = [x EXCEPT !.pc = "logBack", !.at = p, !.todo = @ \ {p},
                            !.given = @ \cup {p}, !.amount = m]
        BY <2>0 DEF CancelCall
      <4> HIDE DEF m
      <4>4. [x EXCEPT !.pc = "logBack", !.at = p, !.todo = @ \ {p},
                            !.given = @ \cup {p}, !.amount = m] \in CancelCall
        BY <2>0, <4>2 DEF CancelCall
      <4> QED BY <3>2, <4>3, <4>4
    <3> QED BY <3>1, <3>3
  <2> HIDE DEF y
  <2>6. /\ product'[i] # NoRow /\ product'[i].stock = product[i].stock + line.quantity
        /\ product[i].stock \in Int /\ logged[i] \in Int
    <3>1. product[i].stock \in Int /\ logged[i] \in Int
      BY <1>t, <2>4 DEF Product
    <3> HIDE DEF line
    <3>2. product'[i] \in Product
      BY <2>0, <2>4, <3>1 DEF Product
    <3>3. product'[i] # NoRow
      BY <3>2, NoneIsNoRow
    <3>4. product'[i].stock = product[i].stock + line.quantity
      BY <2>4 DEF Product
    <3> QED BY <3>1, <3>3, <3>4
  <2>7. Works(calls'[c], i) /\ ~Sets(calls'[c], i) /\ Change(calls'[c]) = line.quantity
    BY <2>3, <2>5 DEF Works, Sets, Change
  <2>8. mixed \subseteq mixed'
    BY <2>2 DEF Wrote
  <2>9. ASSUME i \notin mixed' PROVE Balanced(i)'
    <3>1. \A d \in Calls : d # c => ~Sets(calls[d], i)
      BY <2>2, <2>9, WroteUnmixed
    <3>2. Balanced(i)
      BY <2>0, <2>8, <2>9 DEF LInv
    <3>3. ~Works(calls[c], i)
      BY <2>1, RestsNotWorks
    <3>4. /\ line.quantity \in Int
          /\ product'[i].stock - logged'[i] = (product[i].stock - logged[i]) + line.quantity
      <4>1. line.quantity \in Int /\ logged' = logged
        BY <2>0, <2>2
      <4> HIDE DEF line
      <4> QED BY <2>6, <4>1
    <3>5. \A d \in Calls : d # c => calls'[d] = calls[d] /\ ~Sets(calls[d], i)
      BY <2>3, <3>1
    <3> PICK n \in Int : n = line.quantity
      BY <3>4
    <3>6. Change(calls'[c]) = n
          /\ product'[i].stock - logged'[i] = (product[i].stock - logged[i]) + n
      BY <2>7, <3>4
    <3> HIDE DEF line, x
    <3> QED BY <2>7, <3>2, <3>3, <3>5, <3>6, BalanceEnters
  <2>10. calls'[c] \notin AddCall \cup NewCall \cup SetCall
    BY <2>3, <2>5, NoneExists
  <2>11. \A j \in Products : j # i => product'[j] = product[j] /\ logged'[j] = logged[j]
    BY <2>2, <2>4
  <2> HIDE DEF line, x
  <2> QED BY <2>1, <2>3, <2>6, <2>7, <2>8, <2>9, <2>10, <2>11, LogAt
<1>7. ASSUME LogBack(c) PROVE LInv'
  <2> DEFINE line == x.seen[x.at]
  <2>0. /\ x \in CancelCall /\ x.pc = "logBack" /\ line.product \in Products /\ x # Idle
        /\ line.quantity \in Int /\ product[line.product] # NoRow
    <3>1. x \in CancelCall /\ x.pc = "logBack" /\ x # Idle
      BY <1>t, <1>7, Kinds DEF LogBack, At
    <3>2. x.at \in DOMAIN x.seen /\ product[line.product] # NoRow
      BY <3>1 DEF Inv, Sound, SoundCall
    <3>3. line \in Package
      BY <3>1, <3>2, SeenTyped
    <3>4. line.product \in Products /\ line.quantity \in Quantities
      BY <3>3 DEF Package
    <3> QED BY <3>1, <3>2, <3>4, Amounts
  <2> PICK i \in Products : i = line.product
    BY <2>0
  <2>1. /\ calls' = [calls EXCEPT ![c].pc = "check"]
        /\ product' = product /\ Wrote(c, i, FALSE)
        /\ logged' = [logged EXCEPT ![i] = @ + line.quantity]
    BY <1>7 DEF LogBack, Goto
  <2>2. calls'[c].pc = "check" /\ \A d \in Calls : d # c => calls'[d] = calls[d]
    BY <1>t, <2>0, <2>1 DEF CancelCall
  <2>3. /\ logged'[i] = logged[i] + line.quantity
        /\ \A j \in Products : j # i => logged'[j] = logged[j]
    BY <1>t, <2>1
  <2>4. Works(calls[c], i) /\ ~Sets(calls[c], i) /\ Change(calls[c]) = line.quantity
    BY <2>0 DEF Works, Sets, Change
  <2>5. Rests(calls'[c]) /\ ~Works(calls'[c], i)
    BY <2>2 DEF Rests, Works
  <2>6. product[i].stock \in Int /\ logged[i] \in Int
    <3>1. product[i] \in Product /\ logged[i] \in Int
      BY <1>t, <2>0
    <3> QED BY <3>1 DEF Product
  <2>7. mixed \subseteq mixed'
    BY <2>1 DEF Wrote
  <2>8. ASSUME i \notin mixed' PROVE Balanced(i)'
    <3>1. Balanced(i)
      BY <2>0, <2>7, <2>8 DEF LInv
    <3>2. product'[i].stock - logged'[i] = (product[i].stock - logged[i]) - Change(calls[c])
      <4>1. line.quantity \in Int /\ product' = product
        BY <2>0, <2>1
      <4> HIDE DEF line
      <4> QED BY <2>3, <2>4, <2>6, <4>1
    <3> HIDE DEF line, x
    <3> QED BY <2>2, <2>4, <2>5, <3>1, <3>2, BalanceLeaves
  <2>9. calls'[c] \notin AddCall \cup NewCall \cup SetCall
    BY <2>2, NoneExists
  <2>10. product'[i] # NoRow
    BY <2>0, <2>1
  <2>11. \A j \in Products : j # i => product'[j] = product[j] /\ logged'[j] = logged[j]
    BY <2>1, <2>3
  <2> HIDE DEF line, x
  <2> QED BY <2>2, <2>4, <2>5, <2>7, <2>8, <2>9, <2>10, <2>11, LogAt
<1> HIDE DEF Quiet
<1> QED BY <1>0, <1>1, <1>2, <1>3, <1>4, <1>5, <1>6, <1>7

\* A call that fails or is cut off between its two statements leaves the product unlogged.
LEMMA LogFaults ==
  ASSUME Inv, Inv', LInv, (\E c \in Calls : Fail(c)) \/ Crash
  PROVE  LInv'
<1>t. /\ TypeOK /\ calls \in [Calls -> Call \cup {Idle}]
  BY DEF Inv, TypeOK
<1>1. ASSUME NEW c \in Calls, Fail(c) PROVE LInv'
  <2> DEFINE T == {}
  <2>1. mixed' = mixed \cup Between(c) /\ UNCHANGED <<product, logged>>
    BY <1>1 DEF Fail
  <2>2. calls'[c] = Idle \/ calls'[c].pc = "check"
    <3>1. CASE At(c, "logBack")
      <4>1. calls[c] \in CancelCall
        BY <1>t, <1>1, <3>1, Kinds DEF At
      <4> QED BY <1>t, <1>1, <3>1, <4>1 DEF Fail, Goto, CancelCall
    <3>2. CASE ~At(c, "logBack")
      BY <1>t, <1>1, <3>2 DEF Fail, End
    <3> QED BY <3>1, <3>2
  <2>3. \A d \in Calls : d # c => calls'[d] = calls[d]
    BY <1>t, <1>1 DEF Fail, Goto, End
  <2>4. \A j \in Products : ~Works(calls'[c], j)
    BY <2>2, RestsNotWorks DEF Rests
  <2>5. calls'[c] \notin AddCall \cup NewCall \cup SetCall
    BY <2>2, NoneExists
  <2>6. \A j \in Products : j \notin T =>
          /\ Works(calls[c], j) => j \in mixed'
          /\ ~Works(calls'[c], j)
          /\ product'[j] # NoRow => product[j] # NoRow /\ product'[j].stock = product[j].stock
          /\ logged'[j] = logged[j]
    BY <2>1, <2>4, BetweenWorks
  <2>7. \A j \in Products : j \in T =>
          /\ product'[j] # NoRow
          /\ j \notin mixed' => Balanced(j)'
    OBVIOUS
  <2>8. RowsStay /\ mixed \subseteq mixed'
    BY <2>1 DEF RowsStay
  <2>9. calls'[c] \in AddCall \cup NewCall \cup SetCall => product'[calls'[c].product] # NoRow
    BY <2>5
  <2> HIDE DEF T
  <2> QED BY <2>3, <2>6, <2>7, <2>8, <2>9, LogTurns
<1>2. CASE Crash
  <2>1. /\ \A d \in Calls : calls'[d] = Idle
        /\ UNCHANGED <<product, logged>> /\ mixed' = mixed \cup UNION {Between(c) : c \in Calls}
    BY <1>2 DEF Crash
  <2>2. Existing' /\ Unlogged'
    <3>1. Existing'
      BY <2>1, NoneExists DEF Existing
    <3>2. Unlogged'
      BY <2>1 DEF LInv, Unlogged
    <3> QED BY <3>1, <3>2
  <2>3. ASSUME NEW j \in Products, j \notin mixed', product'[j] # NoRow
        PROVE  Balanced(j)'
    <3>1. \A d \in Calls : ~Works(calls[d], j)
      BY <2>1, <2>3, BetweenWorks
    <3>2. Balanced(j) /\ product[j] # NoRow
      BY <2>1, <2>3 DEF LInv
    <3>3. product[j].stock \in Int /\ logged[j] = product[j].stock
      BY <3>1, <3>2, Rested
    <3>4. \A d \in Calls : ~Works(calls'[d], j)
      BY <2>1 DEF Works
    <3>5. product'[j].stock \in Int /\ product'[j].stock = logged'[j]
      BY <2>1, <3>3
    <3> QED BY <3>4, <3>5, BalanceRests
  <2> QED BY <2>2, <2>3 DEF LInv
<1> QED BY <1>1, <1>2

LEMMA LogInit == Init => LInv
<1> SUFFICES ASSUME Init PROVE LInv
  OBVIOUS
<1>1. Existing
  BY NoneExists DEF Init, Existing
<1>2. Unlogged
  BY DEF Init, Unlogged
<1>3. \A i \in Products : product[i] = NoRow
  BY DEF Init
<1> QED BY <1>1, <1>2, <1>3 DEF LInv

LEMMA LogNext == Inv /\ Inv' /\ LInv /\ [Next]_vars => LInv'
<1> SUFFICES ASSUME Inv, Inv', LInv, [Next]_vars PROVE LInv'
  OBVIOUS
<1>1. CASE UNCHANGED <<calls, product, logged, mixed>>
  BY <1>1, LogStill
<1>2. ASSUME NEW i \in Products, Delete(i) PROVE LInv'
  <2>1. /\ calls' = calls /\ logged' = logged /\ mixed' = mixed /\ product[i] # NoRow
        /\ product' = [product EXCEPT ![i].active = FALSE]
        /\ product \in [Products -> Product \cup {NoRow}]
    BY <1>2 DEF Delete, Active, Inv, TypeOK
  <2>2. product[i] \in Product /\ product'[i] = [product[i] EXCEPT !.active = FALSE]
    BY <2>1
  <2>3. product'[i] # NoRow /\ product'[i].stock = product[i].stock
    <3>1. product'[i] \in Product
      BY <2>2 DEF Product
    <3>2. product'[i] # NoRow
      BY <3>1, NoneIsNoRow
    <3>3. product'[i].stock = product[i].stock
      BY <2>2 DEF Product
    <3> QED BY <3>2, <3>3
  <2>4. \A j \in Products : j # i => product'[j] = product[j]
    BY <2>1
  <2>5. \A j \in Products :
          /\ product'[j] = NoRow <=> product[j] = NoRow
          /\ product[j] # NoRow => product'[j].stock = product[j].stock
    BY <2>1, <2>3, <2>4
  <2> QED BY <2>1, <2>5, LogStill
<1>3. ASSUME NEW p \in Packages, NEW status \in Status, Move(p, status) PROVE LInv'
  BY <1>1, <1>3 DEF Move, goods
<1>4. CASE Midnight
  BY <1>1, <1>4 DEF Midnight, goods
<1>5. CASE UNCHANGED vars
  BY <1>1, <1>5 DEF vars, goods
<1>6. ASSUME Next PROVE LInv'
  BY <1>2, <1>3, <1>4, <1>6, LogDelivers, LogCorrects, LogOrders, LogLists, LogFaults DEF Next
<1> QED BY <1>5, <1>6

\* The log of a product adds up to its stock whenever no call is between the two statements,
\* for any number of deliveries, orders and cancellations that overlap, unless one set or
\* saved the stock while another was at it, or failed half-way.
THEOREM LogAccountsHolds == Spec => []LogAccounts
<1>1. Inv /\ LInv => LogAccounts
  <2> SUFFICES ASSUME Inv, LInv, NEW i \in Products \ mixed, product[i] # NoRow,
                      \A c \in Calls : i \notin Between(c)
               PROVE  logged[i] = product[i].stock
    BY DEF LogAccounts
  <2>1. \A c \in Calls : ~Works(calls[c], i)
    BY BetweenWorks
  <2>2. Balanced(i)
    BY DEF LInv
  <2> QED BY <2>1, <2>2, Rested
<1> QED BY AlwaysInv, LogInit, LogNext, <1>1, PTL DEF Spec
=============================================================================
