---------------------------- MODULE PricingProofs ----------------------------
(***************************************************************************)
(* Proofs that a customer is in one active promotion, and that the prices  *)
(* quoted are the right ones.  Neither property is inductive.              *)
(*                                                                         *)
(* OnePromotion: what a call will write was decided from rows it read      *)
(* before.  The invariant says what that read is still worth while nobody  *)
(* wrote those rows: the customers to be added, or those of a promotion to *)
(* be activated, have no other active promotion (Decided).                 *)
(*                                                                         *)
(* QuotedRight: prices wait in Redis without an expiry.  The invariant     *)
(* says why they may: they are those of an active promotion, whose prices  *)
(* nobody replaces (CacheRight), as whoever will save another status or    *)
(* prices knows the status there is; and what every call holds on its way  *)
(* from there to the answer (Justified).                                   *)
(***************************************************************************)
EXTENDS Pricing, TLAPS

\* What the pc of a call says of the rest of it.
Held(x) ==
  /\ x \in QuoteCall =>
       /\ x.pc \in {"get", "find", "set"} => x.promotion \in Promotions
       /\ x.pc = "set" => x.table \in [promotion : Promotions, version : Versions \ {0}]
       /\ x.pc = "store" => x.table \in Tables
  /\ x \in AppendCall => x.add \subseteq x.asked
Sound == \A c \in Calls : Held(calls[c])
Inv == TypeOK /\ Sound

\* A decision whose rows nobody wrote since is still right.
Only(p, u) == PromotionsOf(u) \subseteq {p}
DecidedCall(x) ==
  /\ x \in AppendCall /\ ~x.outdated => \A u \in x.add : Only(x.promotion, u)
  /\ x \in UpdateCall /\ x.pc = "save" /\ ~x.outdated /\ x.to = "Active" =>
       \/ status[x.promotion] = "Active"
       \/ \A u \in Members(x.promotion) : Only(x.promotion, u)
Decided == \A c \in Calls : DecidedCall(calls[c])
OInv == Inv /\ Decided /\ OnePromotion

-----------------------------------------------------------------------------
(* Types. *)

LEMMA VersionFacts ==
  /\ Versions \subseteq Nat
  /\ \A p \in Promotions : \A n \in Nat : n <= MaxVersion[p] => n \in Versions
<1>1. Versions \subseteq Nat
  BY PricingConstants DEF Versions
<1>2. ASSUME NEW p \in Promotions, NEW n \in Nat, n <= MaxVersion[p]
      PROVE  n \in Versions
  <2>1. n \in 0..MaxVersion[p]
    BY <1>2, PricingConstants
  <2> QED BY <2>1 DEF Versions
<1> QED BY <1>1, <1>2

\* What a call does next tells what kind of call it is.
LEMMA Kinds ==
  ASSUME TypeOK, NEW c \in Calls, calls[c] # Idle
  PROVE  /\ calls[c].pc \in {"get", "find", "set", "store", "price", "quoted"}
              <=> calls[c] \in QuoteCall
         /\ calls[c].pc = "append" <=> calls[c] \in AppendCall
         /\ calls[c].pc \in {"save", "clear"} <=> calls[c] \in UpdateCall
BY DEF TypeOK, QuoteCall, AppendCall, UpdateCall

LEMMA FoundIsOne ==
  ASSUME TypeOK, NEW u \in Users, NEW p \in Found(u)
  PROVE  p \in Promotions \/ p = 0
BY DEF TypeOK, Found, PromotionsOf, Running

\* The calls after rows were written: quotes note prices, staff that rows changed.
LEMMA NotedKeeps ==
  ASSUME NEW d \in [Calls -> QuoteCall \cup AppendCall \cup UpdateCall \cup {Idle}],
         \A c \in Calls : Held(d[c]),
         prices' \in [Promotions -> Versions], Noted(d)
  PROVE  /\ calls' \in [Calls -> QuoteCall \cup AppendCall \cup UpdateCall \cup {Idle}]
         /\ \A c \in Calls : Held(calls'[c])
<1> DEFINE changed == {r \in Promotions \X SUBSET Users : Rows(r[1], r[2])' # Rows(r[1], r[2])}
           After(x) == IF x = Idle THEN Idle
             ELSE IF x \in QuoteCall
               THEN [x EXCEPT !.right = @ \cup {prices'[p] : p \in {x.promotion} \ {0}}]
             ELSE IF x.pc = "clear" THEN x
             ELSE [x EXCEPT !.outdated = @ \/ <<x.promotion, Asked(x)>> \in changed]
<1>1. calls' = [c \in Calls |-> After(d[c])]
  BY DEF Noted
<1>2. ASSUME NEW c \in Calls
      PROVE  /\ After(d[c]) \in QuoteCall \cup AppendCall \cup UpdateCall \cup {Idle}
             /\ Held(After(d[c]))
  <2> HIDE DEF changed
  <2>1. CASE d[c] = Idle
    BY <2>1, IdleIsNoCall DEF Held
  <2>2. CASE d[c] \in QuoteCall
    <3> DEFINE x == d[c]
               more == {prices'[p] : p \in {x.promotion} \ {0}}
    <3>1. more \subseteq Versions
      BY <2>2 DEF QuoteCall
    <3>2. After(x) = [x EXCEPT !.right = @ \cup more]
      BY <2>2, IdleIsNoCall
    <3> HIDE DEF After, more
    <3>3. After(x) \in QuoteCall
      BY <2>2, <3>1, <3>2 DEF QuoteCall
    <3>4. Held(x)
      OBVIOUS
    <3> QED BY <2>2, <3>2, <3>3, <3>4 DEF Held, QuoteCall, AppendCall
  <2>3. CASE d[c] \in AppendCall
    <3> DEFINE x == d[c]
    <3>1. After(x) = [x EXCEPT !.outdated = @ \/ <<x.promotion, Asked(x)>> \in changed]
      BY <2>3, IdleIsNoCall DEF QuoteCall, AppendCall
    <3> HIDE DEF After
    <3>2. After(x) \in AppendCall
      BY <2>3, <3>1 DEF AppendCall
    <3> QED BY <2>3, <3>1, <3>2 DEF Held, QuoteCall, AppendCall
  <2>4. CASE d[c] \in UpdateCall
    <3> DEFINE x == d[c]
    <3>1. After(x) = IF x.pc = "clear" THEN x
            ELSE [x EXCEPT !.outdated = @ \/ <<x.promotion, Asked(x)>> \in changed]
      BY <2>4, IdleIsNoCall DEF QuoteCall, UpdateCall
    <3> HIDE DEF After
    <3>2. After(x) \in UpdateCall
      BY <2>4, <3>1 DEF UpdateCall
    <3> QED BY <3>2 DEF Held, QuoteCall, AppendCall, UpdateCall
  <2> QED BY <2>1, <2>2, <2>3, <2>4
<1> QED BY <1>1, <1>2

Typed == [Calls -> QuoteCall \cup AppendCall \cup UpdateCall \cup {Idle}]

LEMMA OneCall ==
  ASSUME Inv, NEW c \in Calls, NEW x, calls' = [calls EXCEPT ![c] = x],
         x \in QuoteCall \cup AppendCall \cup UpdateCall \cup {Idle}, Held(x)
  PROVE  calls' \in Typed /\ Sound'
BY DEF Inv, TypeOK, Sound, Typed, Held

LEMMA IdleHeld == Held(Idle)
BY IdleIsNoCall DEF Held

LEMMA HarmedStays ==
  ASSUME Inv, NEW c \in Calls, calls[c] \in AppendCall \cup UpdateCall, Wrote(c)
  PROVE  harmed' \subseteq Promotions
BY DEF Inv, TypeOK, Wrote, AppendCall, UpdateCall

LEMMA TypeInit == Init => Inv
<1> SUFFICES ASSUME Init PROVE Inv
  OBVIOUS
<1>1. 0 \in Nat /\ \A p \in Promotions : 0 \in Versions
  BY VersionFacts, PricingConstants
<1>2. TypeOK
  BY <1>1, PricingConstants DEF Init, TypeOK, Status, Tables
<1>3. Sound
  BY IdleHeld DEF Init, Sound
<1> QED BY <1>2, <1>3 DEF Inv

LEMMA StaffTyped ==
  ASSUME Inv, NEW c \in Calls, StaffStep(c)
  PROVE  Inv'
<1>1. CASE \E p \in Promotions, U \in Forms, tester \in BOOLEAN : Append(c, p, U, tester)
  <2> PICK p \in Promotions, U \in Forms, tester \in BOOLEAN : Append(c, p, U, tester)
    BY <1>1
  <2> DEFINE found == Members(p) \ (IF tester THEN {} ELSE Hidden)
             x == [pc |-> "append", promotion |-> p, asked |-> U,
                   drop |-> found \ U, add |-> U \ found, outdated |-> FALSE]
  <2>1. calls' = [calls EXCEPT ![c] = x]
    BY DEF Append
  <2>2. found \subseteq Users /\ U \subseteq Users
    BY PricingConstants DEF Members
  <2>3. x \in AppendCall
    <3> HIDE DEF found
    <3> QED BY <2>2 DEF AppendCall
  <2>4. Held(x)
    BY DEF Held, QuoteCall
  <2>5. calls' \in Typed /\ Sound'
    <3> HIDE DEF x
    <3> QED BY <2>1, <2>3, <2>4, OneCall
  <2> QED BY <2>5 DEF Append, Inv, TypeOK, Typed, base
<1>2. CASE \E p \in Promotions, upload \in BOOLEAN :
             \E to \in Choices \cup {status[p]} : Update(c, p, to, upload)
  <2> PICK p \in Promotions, upload \in BOOLEAN :
             \E to \in Choices \cup {status[p]} : Update(c, p, to, upload)
    BY <1>2
  <2> PICK to \in Choices \cup {status[p]} : Update(c, p, to, upload)
    OBVIOUS
  <2> DEFINE x == [pc |-> "save", promotion |-> p, to |-> to, turned |-> to # status[p],
                   upload |-> upload, outdated |-> FALSE]
  <2>1. calls' = [calls EXCEPT ![c] = x]
    BY DEF Update
  <2>2. to \in Status
    BY PricingConstants DEF Inv, TypeOK
  <2>3. x \in UpdateCall
    BY <2>2 DEF UpdateCall
  <2>4. Held(x)
    BY DEF Held, QuoteCall, AppendCall
  <2>5. calls' \in Typed /\ Sound'
    <3> HIDE DEF x
    <3> QED BY <2>1, <2>3, <2>4, OneCall
  <2> QED BY <2>5 DEF Update, Inv, TypeOK, Typed, base
<1>3. CASE AppendUserToPromotion(c)
  <2> DEFINE d == [calls EXCEPT ![c] = Idle]
  <2>1. calls[c] \in AppendCall /\ calls[c] # Idle
    BY <1>3, Kinds DEF AppendUserToPromotion, At, Inv
  <2>2. d \in Typed /\ \A e \in Calls : Held(d[e])
    BY IdleHeld DEF Inv, TypeOK, Sound, Typed
  <2>3. prices' \in [Promotions -> Versions]
    BY <1>3 DEF AppendUserToPromotion, Inv, TypeOK
  <2>4. calls' \in Typed /\ Sound'
    <3> HIDE DEF d
    <3>1. Noted(d)
      BY <1>3 DEF AppendUserToPromotion, d
    <3> QED BY <2>2, <2>3, <3>1, NotedKeeps DEF Typed, Sound
  <2>5. members' \subseteq Promotions \X Users
    BY <1>3, <2>1 DEF AppendUserToPromotion, Inv, TypeOK, AppendCall
  <2>6. harmed' \subseteq Promotions
    BY <1>3, <2>1, HarmedStays DEF AppendUserToPromotion
  <2> QED BY <1>3, <2>4, <2>5, <2>6 DEF AppendUserToPromotion, Inv, TypeOK, Typed
<1>4. CASE SavePromotion(c)
  <2> DEFINE d == IF calls[c].turned
                  THEN [calls EXCEPT ![c].pc = "clear", ![c].outdated = FALSE]
                  ELSE [calls EXCEPT ![c] = Idle]
             p == calls[c].promotion
  <2>1. calls[c] \in UpdateCall /\ calls[c] # Idle
    BY <1>4, Kinds DEF SavePromotion, At, Inv
  <2>2. d \in Typed /\ \A e \in Calls : Held(d[e])
    <3> DEFINE x == [calls[c] EXCEPT !.pc = "clear", !.outdated = FALSE]
    <3>1. x \in UpdateCall
      BY <2>1 DEF UpdateCall
    <3>2. Held(x)
      BY <3>1 DEF Held, QuoteCall, AppendCall, UpdateCall
    <3>3. d = IF calls[c].turned THEN [calls EXCEPT ![c] = x] ELSE [calls EXCEPT ![c] = Idle]
      BY <2>1 DEF Inv, TypeOK
    <3> HIDE DEF x, d
    <3> QED BY <3>1, <3>2, <3>3, IdleHeld DEF Inv, TypeOK, Sound, Typed
  <2>3. prices' \in [Promotions -> Versions]
    <3>1. CASE calls[c].upload
      <4>1. prices[p] \in Nat /\ prices[p] < MaxVersion[p] /\ p \in Promotions
        BY <1>4, <2>1, <3>1, VersionFacts DEF SavePromotion, Inv, TypeOK, UpdateCall
      <4>2. prices[p] + 1 \in Versions
        <5> HIDE DEF p
        <5>1. MaxVersion[p] \in Nat
          BY <4>1, PricingConstants
        <5>2. prices[p] + 1 \in Nat /\ prices[p] + 1 <= MaxVersion[p]
          BY <4>1, <5>1
        <5> QED BY <4>1, <5>2, VersionFacts
      <4>3. prices' = [prices EXCEPT ![p] = @ + 1]
        BY <1>4, <3>1 DEF SavePromotion
      <4> QED BY <4>1, <4>2, <4>3 DEF Inv, TypeOK
    <3>2. CASE ~calls[c].upload
      BY <1>4, <3>2 DEF SavePromotion, Inv, TypeOK
    <3> QED BY <3>1, <3>2
  <2>4. calls' \in Typed /\ Sound'
    <3>1. Noted(d)
      BY <1>4 DEF SavePromotion
    <3> HIDE DEF d
    <3> QED BY <2>2, <2>3, <3>1, NotedKeeps DEF Typed, Sound
  <2>5. status' \in [Promotions -> Status]
    BY <1>4, <2>1 DEF SavePromotion, Inv, TypeOK, UpdateCall
  <2>6. harmed' \subseteq Promotions
    BY <1>4, <2>1, HarmedStays DEF SavePromotion
  <2> QED BY <1>4, <2>3, <2>4, <2>5, <2>6 DEF SavePromotion, Inv, TypeOK, Typed
<1>5. CASE ClearPrices(c)
  <2>1. calls' \in Typed /\ Sound'
    BY <1>5, OneCall, IdleHeld DEF ClearPrices, End
  <2>2. \A p \in Promotions : 0 \in Versions
    BY VersionFacts, PricingConstants
  <2>3. calls[c] \in UpdateCall
    BY <1>5, Kinds DEF ClearPrices, At, Inv
  <2>4. cache' \in [Promotions -> Versions]
    BY <1>5, <2>2, <2>3 DEF ClearPrices, Inv, TypeOK, UpdateCall
  <2> QED BY <1>5, <2>1, <2>4 DEF ClearPrices, Inv, TypeOK, Typed, base
<1> QED BY <1>1, <1>2, <1>3, <1>4, <1>5 DEF StaffStep

LEMMA TableFacts ==
  ASSUME NEW p \in Promotions, NEW n \in Versions
  PROVE  /\ Table(p, n) \in Tables
         /\ n # 0 => Table(p, n) \in [promotion : Promotions, version : Versions \ {0}]
BY DEF Table, Tables

\* A step of a quote that changes only its call and keeps the promotion it found.
LEMMA QuoteMoves ==
  ASSUME Inv, NEW c \in Calls, calls[c] \in QuoteCall, NEW x \in QuoteCall,
         calls' = [calls EXCEPT ![c] = x], x.promotion = calls[c].promotion,
         x.pc \in {"find", "set"} => calls[c].promotion \in Promotions,
         x.pc = "set" => x.table \in [promotion : Promotions, version : Versions \ {0}],
         x.pc = "store" => x.table \in Tables,
         x.pc # "get"
  PROVE  calls' \in Typed /\ Sound'
<1>1. Held(x)
  BY DEF Held, QuoteCall, AppendCall
<1> QED BY <1>1, OneCall

LEMMA QuoteTyped ==
  ASSUME Inv, NEW c \in Calls, QuoteStep(c)
  PROVE  Inv'
<1> USE DEF Inv
<1> DEFINE x == calls[c]
<1>q. ASSUME calls[c] # Idle, x.pc \in {"get", "find", "set", "store", "price", "quoted"}
      PROVE  x \in QuoteCall
  BY <1>q, Kinds
<1>p. ASSUME calls[c] # Idle, x.pc \in {"get", "find", "set"}
      PROVE  x.promotion \in Promotions
  BY <1>p, <1>q DEF Sound, Held
<1>1. CASE \E u \in Users : Quote(c, u)
  <2> PICK u \in Users : Quote(c, u)
    BY <1>1
  <2> PICK p \in Found(u) :
        calls' = [calls EXCEPT ![c] =
          [pc |-> IF p = 0 THEN "store" ELSE "get", promotion |-> p, table |-> List,
           right |-> {prices[q] : q \in {p} \ {0}}, crossed |-> FALSE]]
    BY DEF Quote
  <2> DEFINE right == {prices[q] : q \in {p} \ {0}}
             y == [pc |-> IF p = 0 THEN "store" ELSE "get", promotion |-> p, table |-> List,
                   right |-> right, crossed |-> FALSE]
  <2>1. p \in Promotions \/ p = 0
    BY FoundIsOne
  <2>2. right \subseteq Versions
    BY <2>1 DEF TypeOK
  <2>3. y \in QuoteCall /\ Held(y)
    <3> HIDE DEF right
    <3> QED BY <2>1, <2>2 DEF QuoteCall, AppendCall, Tables, Held
  <2>4. calls' \in Typed /\ Sound'
    <3>1. calls' = [calls EXCEPT ![c] = y]
      OBVIOUS
    <3> HIDE DEF y
    <3> QED BY <2>3, <3>1, OneCall
  <2> QED BY <2>4 DEF Quote, TypeOK, Typed, base
<1>2. CASE GetPrices(c)
  <2> DEFINE p == x.promotion
             y == [x EXCEPT !.pc = IF cache[p] = 0 THEN "find" ELSE "store",
                            !.table = Table(p, cache[p]),
                            !.crossed = cache[p] # 0 /\ Clearing(p)]
  <2>1. x \in QuoteCall /\ p \in Promotions /\ cache[p] \in Versions
    BY <1>2, <1>q, <1>p DEF GetPrices, At, TypeOK
  <2>2. calls' = [calls EXCEPT ![c] = y]
    BY <1>2, <2>1 DEF GetPrices, TypeOK
  <2>3. Table(p, cache[p]) \in Tables /\ (cache[p] # 0 /\ Clearing(p)) \in BOOLEAN
    BY <2>1, TableFacts
  <2>4. y \in QuoteCall /\ y.promotion = p /\ y.pc \in {"find", "store"} /\ y.table \in Tables
    BY <2>1, <2>3 DEF QuoteCall
  <2>5. calls' \in Typed /\ Sound'
    <3> HIDE DEF y
    <3> QED BY <2>1, <2>2, <2>4, QuoteMoves
  <2> QED BY <1>2, <2>5 DEF GetPrices, TypeOK, Typed, base
<1>3. CASE FindPrices(c)
  <2> DEFINE p == x.promotion
             y == [x EXCEPT !.pc = IF prices[p] = 0 THEN "store" ELSE "set",
                            !.table = Table(p, prices[p])]
  <2>1. x \in QuoteCall /\ p \in Promotions /\ prices[p] \in Versions
    BY <1>3, <1>q, <1>p DEF FindPrices, At, TypeOK
  <2>2. calls' = [calls EXCEPT ![c] = y]
    BY <1>3, <2>1 DEF FindPrices, TypeOK
  <2>3. /\ Table(p, prices[p]) \in Tables
        /\ prices[p] # 0 =>
             Table(p, prices[p]) \in [promotion : Promotions, version : Versions \ {0}]
    BY <2>1, TableFacts
  <2>4. /\ y \in QuoteCall /\ y.promotion = p /\ y.pc \in {"set", "store"} /\ y.table \in Tables
        /\ y.pc = "set" => y.table \in [promotion : Promotions, version : Versions \ {0}]
    BY <2>1, <2>3 DEF QuoteCall
  <2>5. calls' \in Typed /\ Sound'
    <3> HIDE DEF y
    <3> QED BY <2>1, <2>2, <2>4, QuoteMoves
  <2> QED BY <1>3, <2>5 DEF FindPrices, TypeOK, Typed, base
<1>4. CASE SetPrices(c)
  <2> DEFINE p == x.promotion
             y == [x EXCEPT !.pc = "store"]
  <2>1. /\ x \in QuoteCall /\ p \in Promotions
        /\ x.table \in [promotion : Promotions, version : Versions \ {0}]
    BY <1>4, <1>q, <1>p DEF SetPrices, At, Sound, Held
  <2>2. calls' = [calls EXCEPT ![c] = y]
    BY <1>4, <2>1 DEF SetPrices, Goto, TypeOK
  <2>3. y \in QuoteCall /\ y.promotion = p /\ y.pc = "store" /\ y.table \in Tables
    BY <2>1 DEF QuoteCall, Tables
  <2>4. calls' \in Typed /\ Sound'
    <3> HIDE DEF y
    <3> QED BY <2>1, <2>2, <2>3, QuoteMoves
  <2>5. cache' \in [Promotions -> Versions] /\ harmed' \subseteq Promotions
    BY <1>4, <2>1 DEF SetPrices, TypeOK
  <2> QED BY <1>4, <2>4, <2>5 DEF SetPrices, TypeOK, Typed, base
<1>5. CASE StorePrices(c)
  <2>1. x \in QuoteCall /\ x.table \in Tables
    BY <1>5, <1>q DEF StorePrices, At, Sound, Held
  <2>2. ASSUME NEW d \in Calls
        PROVE  /\ calls'[d] \in QuoteCall \cup AppendCall \cup UpdateCall \cup {Idle}
               /\ Held(calls'[d])
    <3>1. CASE d = c
      <4>1. calls'[d] = [x EXCEPT !.pc = "price"]
        BY <1>5, <3>1 DEF StorePrices
      <4> QED BY <2>1, <4>1 DEF QuoteCall, AppendCall, Held
    <3>2. CASE d # c /\ At(d, "price") /\ loaded' # loaded
      <4>1. calls'[d] = [calls[d] EXCEPT !.crossed = TRUE]
        BY <1>5, <3>2 DEF StorePrices
      <4>2. calls[d] \in QuoteCall /\ calls[d].pc = "price"
        BY <3>2, Kinds DEF At
      <4> QED BY <4>1, <4>2 DEF QuoteCall, AppendCall, Held
    <3>3. CASE d # c /\ ~(At(d, "price") /\ loaded' # loaded)
      <4>1. calls'[d] = calls[d]
        BY <1>5, <3>3 DEF StorePrices
      <4> QED BY <4>1 DEF TypeOK, Sound
    <3> QED BY <3>1, <3>2, <3>3
  <2>3. calls' \in Typed
    <3>1. calls' = [d \in Calls |-> calls'[d]]
      BY <1>5 DEF StorePrices
    <3> QED BY <2>2, <3>1 DEF Typed
  <2>4. Sound'
    BY <2>2 DEF Sound
  <2> QED BY <1>5, <2>1, <2>3, <2>4 DEF StorePrices, TypeOK, Typed, base
<1>6. CASE BasePrice(c)
  <2>1. x \in QuoteCall
    BY <1>6, <1>q DEF BasePrice, At
  <2>2. CASE calls' = [calls EXCEPT ![c].pc = "quoted", ![c].table = loaded]
    <3> DEFINE y == [x EXCEPT !.pc = "quoted", !.table = loaded]
    <3>1. calls' = [calls EXCEPT ![c] = y]
      BY <2>1, <2>2 DEF TypeOK
    <3>2. y \in QuoteCall /\ y.promotion = x.promotion /\ y.pc = "quoted"
      BY <2>1 DEF QuoteCall, TypeOK
    <3>3. calls' \in Typed /\ Sound'
      <4> HIDE DEF y
      <4> QED BY <2>1, <3>1, <3>2, QuoteMoves
    <3> QED BY <1>6, <3>3 DEF BasePrice, TypeOK, Typed, base
  <2>3. CASE calls' = [calls EXCEPT ![c].pc = "quoted", ![c].table = Torn, ![c].crossed = TRUE]
    <3> DEFINE y == [x EXCEPT !.pc = "quoted", !.table = Torn, !.crossed = TRUE]
    <3>1. calls' = [calls EXCEPT ![c] = y]
      BY <2>1, <2>3 DEF TypeOK
    <3>2. y \in QuoteCall /\ y.promotion = x.promotion /\ y.pc = "quoted"
      BY <2>1 DEF QuoteCall
    <3>3. calls' \in Typed /\ Sound'
      <4> HIDE DEF y
      <4> QED BY <2>1, <3>1, <3>2, QuoteMoves
    <3> QED BY <1>6, <3>3 DEF BasePrice, TypeOK, Typed, base
  <2> QED BY <1>6, <2>2, <2>3 DEF BasePrice
<1>7. CASE Answer(c)
  <2>1. calls' \in Typed /\ Sound'
    BY <1>7, OneCall, IdleHeld DEF Answer, End
  <2> QED BY <1>7, <2>1 DEF Answer, TypeOK, Typed, base
<1> QED BY <1>1, <1>2, <1>3, <1>4, <1>5, <1>6, <1>7 DEF QuoteStep

LEMMA FailTyped ==
  ASSUME Inv, NEW c \in Calls, Fail(c)
  PROVE  Inv'
<1>1. calls' \in Typed /\ Sound'
  BY OneCall, IdleHeld DEF Fail, End
<1>2. At(c, "clear") => calls[c].promotion \in Promotions
  BY Kinds DEF At, Inv, UpdateCall
<1>3. faults' \in 0..MaxFaults
  BY PricingConstants DEF Fail, Inv, TypeOK
<1> QED BY <1>1, <1>2, <1>3 DEF Fail, Inv, TypeOK, Typed, base

LEMMA RestartTyped ==
  ASSUME Inv, Restart
  PROVE  Inv'
<1>1. faults' \in 0..MaxFaults
  BY PricingConstants DEF Restart, Inv, TypeOK
<1>2. Sound'
  BY IdleHeld DEF Restart, Sound
<1> QED BY <1>1, <1>2 DEF Restart, Inv, TypeOK, Tables, base

\* Everything keeps its type; rows a call names exist.
LEMMA InvHolds == Spec => []Inv
<1>1. Inv /\ [Next]_vars => Inv'
  <2> SUFFICES ASSUME Inv, [Next]_vars PROVE Inv'
    OBVIOUS
  <2>1. CASE Restart
    BY <2>1, RestartTyped
  <2>2. CASE \E c \in Calls : StaffStep(c) \/ QuoteStep(c) \/ Fail(c)
    BY <2>2, StaffTyped, QuoteTyped, FailTyped
  <2>3. CASE UNCHANGED vars
    BY <2>3 DEF vars, base, Inv, TypeOK, Sound
  <2> QED BY <2>1, <2>2, <2>3 DEF Next
<1> QED BY TypeInit, <1>1, PTL DEF Spec

\* TypeOK for every number of promotions, customers, calls, versions and faults: no
\* overlap of calls puts anything but a table into Redis or the shared field.
THEOREM TypeCorrect == Spec => []TypeOK
<1>1. Inv => TypeOK
  BY DEF Inv
<1> QED BY InvHolds, <1>1, PTL

-----------------------------------------------------------------------------
(* One promotion. *)

LEMMA PromotionsOfIs ==
  ASSUME members \subseteq Promotions \X Users, NEW u \in Users, NEW p
  PROVE  p \in PromotionsOf(u) <=> <<p, u>> \in members /\ status[p] = "Active"
<1>1. ASSUME NEW m \in Running({u})
      PROVE  m = <<m[1], u>> /\ m \in members /\ status[m[1]] = "Active"
  BY DEF Running
<1>2. ASSUME <<p, u>> \in members, status[p] = "Active"
      PROVE  <<p, u>> \in Running({u})
  BY <1>2 DEF Running
<1>3. ASSUME <<p, u>> \in Running({u})
      PROVE  p \in PromotionsOf(u)
  BY <1>3 DEF PromotionsOf
<1> QED BY <1>1, <1>2, <1>3 DEF PromotionsOf

LEMMA TakenIs ==
  ASSUME members \subseteq Promotions \X Users, NEW p, NEW U, Taken(p, U) = {},
         NEW u \in Users, u \in U
  PROVE  Only(p, u)
<1>1. ASSUME NEW q \in PromotionsOf(u), q # p
      PROVE  u \in Taken(p, U)
  <2>1. <<q, u>> \in members /\ status[q] = "Active"
    BY PromotionsOfIs
  <2>2. <<q, u>> \in {n \in Running(U) : n[1] # p}
    BY <1>1, <2>1 DEF Running
  <2> QED BY <2>2 DEF Taken
<1> QED BY <1>1 DEF Only

\* If the rows a decision rests on are as they were, so are the promotions.
LEMMA RowsTell ==
  ASSUME TypeOK, TypeOK', NEW p \in Promotions, NEW U \in SUBSET Users,
         Rows(p, U)' = Rows(p, U)
  PROVE  /\ status'[p] = status[p] /\ Members(p)' = Members(p)
         /\ \A u \in U \cup Members(p) : PromotionsOf(u)' = PromotionsOf(u)
<1>1. /\ status'[p] = status[p] /\ Members(p)' = Members(p)
      /\ Running(U \cup Members(p))' = Running(U \cup Members(p))
  BY DEF Rows
<1>2. ASSUME NEW u \in U \cup Members(p)
      PROVE  Running({u})' = Running({u})
  <2> DEFINE V == U \cup Members(p)
  <2>1. Running({u}) = {m \in Running(V) : m[2] = u}
    BY <1>2 DEF Running
  <2>2. Running({u})' = {m \in Running(V)' : m[2] = u}
    BY <1>1, <1>2 DEF Running
  <2> QED BY <1>1, <2>1, <2>2
<1>3. ASSUME NEW u \in U \cup Members(p)
      PROVE  PromotionsOf(u)' = PromotionsOf(u)
  BY <1>2, <1>3 DEF PromotionsOf
<1> QED BY <1>1, <1>3

\* A step that writes no rows of promotions and customers leaves decisions as they are.
LEMMA NoRowsWritten ==
  ASSUME OInv, UNCHANGED <<status, members>>, harmed \subseteq harmed',
         \A e \in Calls : \/ calls'[e] = calls[e]
                          \/ calls'[e] \notin AppendCall /\ calls'[e] \notin UpdateCall
                          \/ DecidedCall(calls[e])'
  PROVE  Decided' /\ OnePromotion'
<1>1. \A u : PromotionsOf(u)' = PromotionsOf(u)
  BY DEF PromotionsOf, Running
<1>2. \A p : Members(p)' = Members(p)
  BY DEF Members
<1>3. OnePromotion'
  BY <1>1 DEF OnePromotion, OInv
<1>4. ASSUME NEW e \in Calls
      PROVE  DecidedCall(calls[e])'
  <2>1. CASE calls'[e] = calls[e]
    BY <1>1, <1>2, <2>1 DEF DecidedCall, Decided, OInv, Only
  <2>2. CASE calls'[e] \notin AppendCall /\ calls'[e] \notin UpdateCall
    BY <2>2 DEF DecidedCall
  <2> QED BY <2>1, <2>2
<1> QED BY <1>3, <1>4 DEF Decided

\* A step that writes them marks the calls it makes outdated.
LEMMA OthersDecided ==
  ASSUME OInv, Inv', NEW d \in Typed, Noted(d),
         \A e \in Calls : d[e] = calls[e] \/ d[e] = Idle \/ (d[e] \in UpdateCall /\ d[e].pc = "clear")
  PROVE  Decided'
<1> DEFINE changed == {r \in Promotions \X SUBSET Users : Rows(r[1], r[2])' # Rows(r[1], r[2])}
           After(x) == IF x = Idle THEN Idle
             ELSE IF x \in QuoteCall
               THEN [x EXCEPT !.right = @ \cup {prices'[p] : p \in {x.promotion} \ {0}}]
             ELSE IF x.pc = "clear" THEN x
             ELSE [x EXCEPT !.outdated = @ \/ <<x.promotion, Asked(x)>> \in changed]
<1>1. \A e \in Calls : calls'[e] = After(d[e])
  BY DEF Noted
<1>c. ASSUME NEW p \in Promotions, NEW U \in SUBSET Users, <<p, U>> \notin changed
      PROVE  Rows(p, U)' = Rows(p, U)
  BY <1>c
<1> SUFFICES ASSUME NEW e \in Calls PROVE DecidedCall(calls[e])'
  BY DEF Decided
<1> HIDE DEF changed
<1>2. CASE d[e] = Idle
  BY <1>1, <1>2, IdleIsNoCall DEF DecidedCall
<1>3. CASE d[e] \in QuoteCall
  <2> DEFINE more == {prices'[p] : p \in {d[e].promotion} \ {0}}
  <2>1. calls'[e] = [d[e] EXCEPT !.right = @ \cup more]
    BY <1>1, <1>3, IdleIsNoCall
  <2> HIDE DEF more, After
  <2>2. calls'[e].pc \in {"get", "find", "set", "store", "price", "quoted"}
    BY <1>3, <2>1 DEF QuoteCall
  <2> QED BY <2>2 DEF DecidedCall, AppendCall, UpdateCall
<1>4. CASE d[e] \in UpdateCall /\ d[e].pc = "clear"
  <2>1. calls'[e] = d[e]
    BY <1>1, <1>4, IdleIsNoCall DEF QuoteCall, UpdateCall
  <2> QED BY <1>4, <2>1 DEF DecidedCall, AppendCall, UpdateCall
<1>5. CASE d[e] = calls[e] /\ d[e] \in AppendCall
  <2> DEFINE x == calls[e]
  <2>1. calls'[e] = [x EXCEPT !.outdated = @ \/ <<x.promotion, Asked(x)>> \in changed]
    BY <1>1, <1>5, IdleIsNoCall DEF QuoteCall, AppendCall
  <2>2. Asked(x) = x.asked /\ x.promotion \in Promotions /\ x.asked \in SUBSET Users
    BY <1>5 DEF Asked, AppendCall
  <2>3. x.add \subseteq x.asked
    BY <1>5 DEF OInv, Inv, Sound, Held
  <2> HIDE DEF After
  <2>4. /\ calls'[e] \in AppendCall /\ calls'[e].promotion = x.promotion
        /\ calls'[e].add = x.add
        /\ calls'[e].outdated = (x.outdated \/ <<x.promotion, x.asked>> \in changed)
    <3> DEFINE b == x.outdated \/ <<x.promotion, Asked(x)>> \in changed
    <3>1. calls'[e] = [x EXCEPT !.outdated = b] /\ b \in BOOLEAN
      BY <2>1
    <3>2. b = (x.outdated \/ <<x.promotion, x.asked>> \in changed)
      BY <2>2
    <3> HIDE DEF b
    <3> QED BY <1>5, <3>1, <3>2 DEF AppendCall
  <2>5. ASSUME ~calls'[e].outdated, NEW u \in calls'[e].add
        PROVE  Only(calls[e].promotion, u)'
    <3>1. ~x.outdated /\ Only(x.promotion, u)
      BY <1>5, <2>4, <2>5 DEF OInv, Decided, DecidedCall
    <3>2. PICK p \in Promotions, U \in SUBSET Users : p = x.promotion /\ U = x.asked
      BY <2>2
    <3>3. Rows(p, U)' = Rows(p, U)
      BY <1>c, <2>4, <2>5, <3>2
    <3>4. \A v \in U \cup Members(p) : PromotionsOf(v)' = PromotionsOf(v)
      BY <3>3, RowsTell DEF OInv, Inv
    <3>5. PromotionsOf(u)' = PromotionsOf(u)
      BY <2>3, <2>4, <2>5, <3>2, <3>4
    <3> QED BY <2>4, <3>1, <3>5 DEF Only
  <2> QED BY <2>4, <2>5 DEF DecidedCall, AppendCall, UpdateCall
<1>6. CASE d[e] = calls[e] /\ d[e] \in UpdateCall /\ d[e].pc # "clear"
  <2> DEFINE x == calls[e]
  <2>1. calls'[e] = [x EXCEPT !.outdated = @ \/ <<x.promotion, Asked(x)>> \in changed]
    BY <1>1, <1>6, IdleIsNoCall DEF QuoteCall, UpdateCall
  <2>2. Asked(x) = {} /\ x.promotion \in Promotions /\ x.pc = "save"
    BY <1>6 DEF Asked, AppendCall, UpdateCall
  <2> HIDE DEF After
  <2>3. /\ calls'[e] \in UpdateCall /\ calls'[e].promotion = x.promotion
        /\ calls'[e].to = x.to
        /\ calls'[e].outdated = (x.outdated \/ <<x.promotion, {}>> \in changed)
    <3> DEFINE b == x.outdated \/ <<x.promotion, Asked(x)>> \in changed
    <3>1. calls'[e] = [x EXCEPT !.outdated = b] /\ b \in BOOLEAN
      BY <2>1
    <3>2. b = (x.outdated \/ <<x.promotion, {}>> \in changed)
      BY <2>2
    <3>3. x \in UpdateCall
      BY <1>6
    <3> HIDE DEF b, x
    <3> QED BY <3>1, <3>2, <3>3 DEF UpdateCall
  <2>4. ASSUME ~calls'[e].outdated, calls'[e].to = "Active"
        PROVE  \E p \in Promotions :
                 /\ p = x.promotion
                 /\ \/ status'[p] = "Active"
                    \/ \A u \in Members(p)' : PromotionsOf(u)' \subseteq {p}
    <3>1. \/ status[x.promotion] = "Active"
          \/ \A u \in Members(x.promotion) : Only(x.promotion, u)
      BY <1>6, <2>2, <2>3, <2>4 DEF OInv, Decided, DecidedCall
    <3>2. PICK p \in Promotions, U \in SUBSET Users : p = x.promotion /\ U = {}
      BY <2>2
    <3>3. Rows(p, U)' = Rows(p, U)
      BY <1>c, <2>3, <2>4, <3>2
    <3>4. /\ status'[p] = status[p] /\ Members(p)' = Members(p)
          /\ \A u \in U \cup Members(p) : PromotionsOf(u)' = PromotionsOf(u)
      BY <3>3, RowsTell DEF OInv, Inv
    <3>5. (status[p] = "Active") \/ \A u \in Members(p) : PromotionsOf(u) \subseteq {p}
      BY <3>1, <3>2 DEF Only
    <3>6. (status'[p] = "Active") \/ \A u \in Members(p)' : PromotionsOf(u)' \subseteq {p}
      BY <3>4, <3>5
    <3> QED BY <3>2, <3>6
  <2>5. calls'[e] \notin AppendCall
    BY <2>3 DEF AppendCall, UpdateCall
  <2>6. ASSUME NEW p, p = calls'[e].promotion,
               \A u \in Members(p)' : PromotionsOf(u)' \subseteq {p}
        PROVE  (\A u \in Members(calls[e].promotion) : Only(calls[e].promotion, u))'
    BY <2>6 DEF Only, Members
  <2>7. ASSUME ~calls'[e].outdated, calls'[e].to = "Active"
        PROVE  (\/ status[calls[e].promotion] = "Active"
                \/ \A u \in Members(calls[e].promotion) : Only(calls[e].promotion, u))'
    BY <2>3, <2>4, <2>6, <2>7
  <2> QED BY <2>5, <2>7 DEF DecidedCall
<1> QED BY <1>2, <1>3, <1>4, <1>5, <1>6 DEF Typed

\* The two steps that write rows: what they add is one promotion of a customer who has
\* no other, or of a promotion written from an outdated read.
LEMMA Added ==
  ASSUME OnePromotion, NEW p, NEW out \in BOOLEAN,
         harmed' = IF out THEN harmed \cup {p} ELSE harmed,
         \A u \in Users : \/ PromotionsOf(u)' \subseteq PromotionsOf(u)
                         \/ (PromotionsOf(u)' \subseteq PromotionsOf(u) \cup {p} /\ (out \/ Only(p, u)))
  PROVE  OnePromotion'
<1> SUFFICES ASSUME NEW u \in Users, NEW q \in PromotionsOf(u)', NEW r \in PromotionsOf(u)',
                    q \notin harmed', r \notin harmed'
             PROVE  q = r
  BY DEF OnePromotion
<1>1. q \notin harmed /\ r \notin harmed /\ (out => q # p /\ r # p)
  OBVIOUS
<1>2. CASE q \in PromotionsOf(u) /\ r \in PromotionsOf(u)
  BY <1>1, <1>2 DEF OnePromotion
<1>3. CASE ~(q \in PromotionsOf(u) /\ r \in PromotionsOf(u))
  BY <1>1, <1>3 DEF Only
<1> QED BY <1>2, <1>3

LEMMA AppendOne ==
  ASSUME OInv, Inv', NEW c \in Calls, AppendUserToPromotion(c)
  PROVE  OnePromotion'
<1> DEFINE x == calls[c]
<1>1. x \in AppendCall
  BY Kinds DEF AppendUserToPromotion, At, OInv, Inv
<1>2. /\ members' = (members \ ({x.promotion} \X x.drop)) \cup ({x.promotion} \X x.add)
      /\ status' = status
  BY DEF AppendUserToPromotion
<1>3. members \subseteq Promotions \X Users /\ members' \subseteq Promotions \X Users
  BY DEF OInv, Inv, TypeOK
<1>4. ASSUME NEW u \in Users
      PROVE  \/ PromotionsOf(u)' \subseteq PromotionsOf(u)
             \/ /\ PromotionsOf(u)' \subseteq PromotionsOf(u) \cup {x.promotion}
                /\ x.outdated \/ Only(x.promotion, u)
  <2>1. \A p : p \in PromotionsOf(u) <=> <<p, u>> \in members /\ status[p] = "Active"
    BY <1>3, PromotionsOfIs
  <2>2. \A p : p \in PromotionsOf(u)' <=> <<p, u>> \in members' /\ status'[p] = "Active"
    BY <1>2, <1>3 DEF PromotionsOf, Running
  <2>3. CASE u \in x.add
    <3>1. x.outdated \/ Only(x.promotion, u)
      BY <1>1, <2>3 DEF OInv, Decided, DecidedCall
    <3> QED BY <1>2, <2>1, <2>2, <3>1
  <2>4. CASE u \notin x.add
    BY <1>2, <2>1, <2>2, <2>4
  <2> QED BY <2>3, <2>4
<1>5. x.outdated \in BOOLEAN /\ harmed' = IF x.outdated THEN harmed \cup {x.promotion} ELSE harmed
  BY <1>1 DEF AppendUserToPromotion, Wrote, AppendCall
<1> PICK p \in Promotions, out \in BOOLEAN : p = x.promotion /\ out = x.outdated
  BY <1>1 DEF AppendCall, UpdateCall
<1> HIDE DEF x
<1>6. \A u \in Users : \/ PromotionsOf(u)' \subseteq PromotionsOf(u)
                      \/ (PromotionsOf(u)' \subseteq PromotionsOf(u) \cup {p} /\ (out \/ Only(p, u)))
  BY <1>4 DEF Only
<1>7. harmed' = IF out THEN harmed \cup {p} ELSE harmed
  BY <1>5
<1> QED BY <1>6, <1>7, Added DEF OInv

LEMMA SaveOne ==
  ASSUME OInv, Inv', NEW c \in Calls, SavePromotion(c)
  PROVE  OnePromotion'
<1> DEFINE x == calls[c]
<1>1. x \in UpdateCall /\ x.pc = "save"
  BY Kinds DEF SavePromotion, At, OInv, Inv
<1>2. status' = [status EXCEPT ![x.promotion] = x.to] /\ members' = members
  BY DEF SavePromotion
<1>3. members \subseteq Promotions \X Users /\ status \in [Promotions -> Status]
  BY DEF OInv, Inv, TypeOK
<1>4. ASSUME NEW u \in Users
      PROVE  \/ PromotionsOf(u)' \subseteq PromotionsOf(u)
             \/ /\ PromotionsOf(u)' \subseteq PromotionsOf(u) \cup {x.promotion}
                /\ x.outdated \/ Only(x.promotion, u)
  <2>1. \A p : p \in PromotionsOf(u) <=> <<p, u>> \in members /\ status[p] = "Active"
    BY <1>3, PromotionsOfIs
  <2>2. \A p : p \in PromotionsOf(u)' <=> <<p, u>> \in members /\ status'[p] = "Active"
    BY <1>2, <1>3 DEF PromotionsOf, Running
  <2>3. \A p \in PromotionsOf(u)' : p \in PromotionsOf(u) \/ p = x.promotion
    BY <1>2, <1>3, <2>1, <2>2
  <2>4. CASE x.promotion \notin PromotionsOf(u)'
    BY <2>3, <2>4
  <2>5. CASE x.promotion \in PromotionsOf(u)' /\ ~x.outdated
    <3>1. u \in Members(x.promotion) /\ x.to = "Active"
      BY <1>1, <1>2, <1>3, <2>2, <2>5 DEF Members, UpdateCall
    <3>2. status[x.promotion] = "Active" \/ Only(x.promotion, u)
      BY <1>1, <2>5, <3>1 DEF OInv, Decided, DecidedCall
    <3>3. status[x.promotion] = "Active" => x.promotion \in PromotionsOf(u)
      BY <2>1, <3>1 DEF Members
    <3> QED BY <2>3, <3>2, <3>3
  <2> QED BY <2>3, <2>4, <2>5
<1>5. x.outdated \in BOOLEAN /\ harmed' = IF x.outdated THEN harmed \cup {x.promotion} ELSE harmed
  BY <1>1 DEF SavePromotion, Wrote, UpdateCall
<1> PICK p \in Promotions, out \in BOOLEAN : p = x.promotion /\ out = x.outdated
  BY <1>1 DEF AppendCall, UpdateCall
<1> HIDE DEF x
<1>6. \A u \in Users : \/ PromotionsOf(u)' \subseteq PromotionsOf(u)
                      \/ (PromotionsOf(u)' \subseteq PromotionsOf(u) \cup {p} /\ (out \/ Only(p, u)))
  BY <1>4 DEF Only
<1>7. harmed' = IF out THEN harmed \cup {p} ELSE harmed
  BY <1>5
<1> QED BY <1>6, <1>7, Added DEF OInv

\* What staff read, they have checked; nothing was written since.
LEMMA StaffDecides ==
  ASSUME OInv, Inv', NEW c \in Calls, StaffStep(c)
  PROVE  Decided' /\ OnePromotion'
<1> USE DEF OInv, Inv
<1>r. members \subseteq Promotions \X Users
  BY DEF TypeOK
<1>1. CASE \E p \in Promotions, U \in Forms, tester \in BOOLEAN : Append(c, p, U, tester)
  <2> PICK p \in Promotions, U \in Forms, tester \in BOOLEAN : Append(c, p, U, tester)
    BY <1>1
  <2> DEFINE found == Members(p) \ (IF tester THEN {} ELSE Hidden)
  <2>1. /\ status' = status /\ members' = members /\ harmed' = harmed
        /\ Taken(p, U \ found) = {}
        /\ calls' = [calls EXCEPT ![c] =
             [pc |-> "append", promotion |-> p, asked |-> U,
              drop |-> found \ U, add |-> U \ found, outdated |-> FALSE]]
    BY DEF Append, base
  <2>2. /\ calls'[c].pc = "append" /\ calls'[c].promotion = p /\ calls'[c].add = U \ found
        /\ \A e \in Calls : e # c => calls'[e] = calls[e]
    BY <2>1 DEF TypeOK
  <2>3. \A u \in U \ found : Only(p, u)
    <3> HIDE DEF found
    <3>1. U \subseteq Users
      BY PricingConstants
    <3> QED BY <1>r, <2>1, <3>1, TakenIs
  <2>4. \A u : PromotionsOf(u)' = PromotionsOf(u)
    BY <2>1 DEF PromotionsOf, Running
  <2>5. (\A u \in calls[c].add : Only(calls[c].promotion, u))'
    <3> HIDE DEF found
    <3> QED BY <2>2, <2>3, <2>4 DEF Only
  <2>6. DecidedCall(calls[c])'
    <3>1. calls'[c] \notin UpdateCall
      BY <2>2 DEF UpdateCall
    <3> QED BY <2>5, <3>1 DEF DecidedCall
  <2> HIDE DEF found
  <2> QED BY <2>1, <2>2, <2>6, NoRowsWritten
<1>2. CASE \E p \in Promotions, upload \in BOOLEAN :
             \E to \in Choices \cup {status[p]} : Update(c, p, to, upload)
  <2> PICK p \in Promotions, upload \in BOOLEAN :
             \E to \in Choices \cup {status[p]} : Update(c, p, to, upload)
    BY <1>2
  <2> PICK to \in Choices \cup {status[p]} : Update(c, p, to, upload)
    OBVIOUS
  <2>1. /\ status' = status /\ members' = members /\ harmed' = harmed
        /\ to = "Active" /\ status[p] # "Active" => Taken(p, Members(p)) = {}
        /\ calls' = [calls EXCEPT ![c] =
             [pc |-> "save", promotion |-> p, to |-> to, turned |-> to # status[p],
              upload |-> upload, outdated |-> FALSE]]
    BY DEF Update, base
  <2>2. /\ calls'[c].pc = "save" /\ calls'[c].promotion = p /\ calls'[c].to = to
        /\ \A e \in Calls : e # c => calls'[e] = calls[e]
    BY <2>1 DEF TypeOK
  <2>3. to = "Active" => (status[p] = "Active" \/ \A u \in Members(p) : Only(p, u))
    <3>1. \A u \in Members(p) : u \in Users
      BY DEF Members
    <3> QED BY <1>r, <2>1, <3>1, TakenIs
  <2>4. \A u : PromotionsOf(u)' = PromotionsOf(u)
    BY <2>1 DEF PromotionsOf, Running
  <2>5. calls'[c].to = "Active" =>
          (\/ status[calls[c].promotion] = "Active"
           \/ \A u \in Members(calls[c].promotion) : Only(calls[c].promotion, u))'
    BY <2>1, <2>2, <2>3, <2>4 DEF Only, Members
  <2>6. DecidedCall(calls[c])'
    <3>1. calls'[c] \notin AppendCall
      BY <2>2 DEF AppendCall
    <3> QED BY <2>5, <3>1 DEF DecidedCall
  <2> QED BY <2>1, <2>2, <2>6, NoRowsWritten
<1>3. CASE AppendUserToPromotion(c)
  <2> DEFINE d == [calls EXCEPT ![c] = Idle]
  <2>1. d \in Typed /\ \A e \in Calls : d[e] = calls[e] \/ d[e] = Idle
    BY DEF TypeOK, Typed
  <2>2. Noted(d)
    BY <1>3 DEF AppendUserToPromotion
  <2>3. Decided'
    <3> PICK e \in Typed : e = d
      BY <2>1
    <3>1. Noted(e)
      BY <2>2 DEF Noted
    <3>2. \A b \in Calls : e[b] = calls[b] \/ e[b] = Idle
      BY <2>1
    <3> HIDE DEF d
    <3> QED BY <3>1, <3>2, OthersDecided
  <2> QED BY <1>3, <2>3, AppendOne
<1>4. CASE SavePromotion(c)
  <2> DEFINE x == [calls[c] EXCEPT !.pc = "clear", !.outdated = FALSE]
             d == IF calls[c].turned
                  THEN [calls EXCEPT ![c].pc = "clear", ![c].outdated = FALSE]
                  ELSE [calls EXCEPT ![c] = Idle]
  <2>1. calls[c] \in UpdateCall
    BY <1>4, Kinds DEF SavePromotion, At
  <2>2. x \in UpdateCall /\ x.pc = "clear"
    BY <2>1 DEF UpdateCall
  <2>3. d = IF calls[c].turned THEN [calls EXCEPT ![c] = x] ELSE [calls EXCEPT ![c] = Idle]
    BY <2>1 DEF TypeOK
  <2>4. Noted(d)
    BY <1>4 DEF SavePromotion
  <2>5. Decided'
    <3> HIDE DEF d, x
    <3>1. /\ d \in Typed
          /\ \A e \in Calls : d[e] = calls[e] \/ d[e] = Idle \/ (d[e] \in UpdateCall /\ d[e].pc = "clear")
      BY <2>2, <2>3 DEF TypeOK, Typed
    <3> PICK b \in Typed : b = d
      BY <3>1
    <3>2. Noted(b)
      BY <2>4 DEF Noted
    <3>3. \A e \in Calls : b[e] = calls[e] \/ b[e] = Idle \/ (b[e] \in UpdateCall /\ b[e].pc = "clear")
      BY <3>1
    <3> QED BY <3>2, <3>3, OthersDecided
  <2> QED BY <1>4, <2>5, SaveOne
<1>5. CASE ClearPrices(c)
  <2>1. /\ \A e \in Calls : calls'[e] = calls[e] \/ calls'[e] = Idle
        /\ status' = status /\ members' = members /\ harmed' = harmed
    BY <1>5 DEF ClearPrices, End, base, TypeOK
  <2> QED BY <2>1, IdleIsNoCall, NoRowsWritten
<1> QED BY <1>1, <1>2, <1>3, <1>4, <1>5 DEF StaffStep

QuotePc == {"get", "find", "set", "store", "price", "quoted"}

LEMMA QuotesWriteNoRows ==
  ASSUME OInv, NEW c \in Calls, QuoteStep(c)
  PROVE  Decided' /\ OnePromotion'
<1> USE DEF OInv, Inv
<1>1. ASSUME NEW e \in Calls
      PROVE  calls'[e] = calls[e] \/ calls'[e] = Idle \/ calls'[e].pc \in QuotePc
  <2>1. ASSUME calls[e] # Idle, calls[e].pc \in QuotePc
        PROVE  calls[e] \in QuoteCall
    BY <2>1, Kinds DEF QuotePc
  <2>2. CASE \E u \in Users : Quote(c, u)
    BY <2>2 DEF Quote, TypeOK, QuotePc
  <2>3. CASE GetPrices(c)
    BY <2>1, <2>3 DEF GetPrices, At, TypeOK, QuotePc, QuoteCall
  <2>4. CASE FindPrices(c)
    BY <2>1, <2>4 DEF FindPrices, At, TypeOK, QuotePc, QuoteCall
  <2>5. CASE SetPrices(c)
    BY <2>1, <2>5 DEF SetPrices, Goto, At, TypeOK, QuotePc, QuoteCall
  <2>6. CASE StorePrices(c)
    <3>1. CASE e = c
      <4>1. calls'[e] = [calls[e] EXCEPT !.pc = "price"] /\ calls[e] \in QuoteCall
        BY <2>1, <2>6, <3>1 DEF StorePrices, At, QuotePc
      <4> QED BY <4>1 DEF QuoteCall, QuotePc
    <3>2. CASE e # c /\ At(e, "price") /\ loaded' # loaded
      <4>1. calls'[e] = [calls[e] EXCEPT !.crossed = TRUE] /\ calls[e] \in QuoteCall
        BY <2>1, <2>6, <3>2 DEF StorePrices, At, QuotePc
      <4> QED BY <4>1 DEF QuoteCall, QuotePc
    <3>3. CASE e # c /\ ~(At(e, "price") /\ loaded' # loaded)
      BY <2>6, <3>3 DEF StorePrices
    <3> QED BY <3>1, <3>2, <3>3
  <2>7. CASE BasePrice(c)
    BY <2>1, <2>7 DEF BasePrice, At, TypeOK, QuotePc, QuoteCall
  <2>8. CASE Answer(c)
    BY <2>8 DEF Answer, End, TypeOK
  <2> QED BY <2>2, <2>3, <2>4, <2>5, <2>6, <2>7, <2>8 DEF QuoteStep
<1>2. \A x : x \in AppendCall \/ x \in UpdateCall => x.pc \notin QuotePc
  BY DEF AppendCall, UpdateCall, QuotePc
<1>3. status' = status /\ members' = members
  BY DEF QuoteStep, Quote, GetPrices, FindPrices, SetPrices, StorePrices, BasePrice, Answer, base
<1>4. harmed \subseteq harmed'
  BY DEF QuoteStep, Quote, GetPrices, FindPrices, SetPrices, StorePrices, BasePrice, Answer
<1> QED BY <1>1, <1>2, <1>3, <1>4, IdleIsNoCall, NoRowsWritten

\* No customer is in two active promotions, whatever order any number of staff fill,
\* activate and end any number of them in, except through a write that rests on an
\* outdated read.
THEOREM OnePromotionHolds == Spec => []OnePromotion
<1>1. Init => Decided /\ OnePromotion
  <2> SUFFICES ASSUME Init PROVE Decided /\ OnePromotion
    OBVIOUS
  <2>1. \A c \in Calls : calls[c] = Idle
    BY DEF Init
  <2>2. \A u : PromotionsOf(u) = {}
    BY DEF Init, PromotionsOf, Running
  <2> QED BY <2>1, <2>2, IdleIsNoCall DEF Decided, DecidedCall, OnePromotion
<1>2. Inv /\ Inv' /\ Decided /\ OnePromotion /\ [Next]_vars => Decided' /\ OnePromotion'
  <2> SUFFICES ASSUME OInv, Inv', [Next]_vars PROVE Decided' /\ OnePromotion'
    BY DEF OInv
  <2>1. CASE Restart
    <3>1. /\ status' = status /\ members' = members /\ harmed \subseteq harmed'
          /\ \A e \in Calls : calls'[e] = Idle
      BY <2>1 DEF Restart, base
    <3> QED BY <3>1, IdleIsNoCall, NoRowsWritten
  <2>2. CASE \E c \in Calls : StaffStep(c) \/ QuoteStep(c)
    BY <2>2, StaffDecides, QuotesWriteNoRows
  <2>3. CASE \E c \in Calls : Fail(c)
    <3>1. /\ status' = status /\ members' = members /\ harmed \subseteq harmed'
          /\ \A e \in Calls : calls'[e] = calls[e] \/ calls'[e] = Idle
      BY <2>3 DEF Fail, End, base, OInv, Inv, TypeOK
    <3> QED BY <3>1, IdleIsNoCall, NoRowsWritten
  <2>4. CASE UNCHANGED vars
    BY <2>4, NoRowsWritten DEF vars, base
  <2> QED BY <2>1, <2>2, <2>3, <2>4 DEF Next
<1> QED BY InvHolds, <1>1, <1>2, PTL DEF Spec

-----------------------------------------------------------------------------
(* Prices that are quoted. *)

\* What a call knows of the prices it may quote, and staff of the promotion they save.
Right(x) ==
  \/ x.promotion = 0 /\ x.table = List
  \/ \E version \in x.right : x.table = Table(x.promotion, version)
QuotedCall(x) ==
  x \in QuoteCall =>
    /\ x.promotion # 0 => prices[x.promotion] \in x.right
    /\ x.pc = "set" => Right(x)
    /\ x.pc \in {"store", "price", "quoted"} /\ ~x.crossed /\ harmed = {} => Right(x)
    /\ x.pc = "price" /\ ~x.crossed => x.table = loaded
SavedCall(x) ==
  x \in UpdateCall /\ x.pc = "save" /\ ~x.outdated =>
    /\ x.turned <=> x.to # status[x.promotion]
    /\ x.upload => status[x.promotion] # "Active"
Justified == \A c \in Calls : QuotedCall(calls[c]) /\ SavedCall(calls[c])

\* Prices stay in Redis while they are those of an active promotion.
CacheRight ==
  harmed = {} => \A p \in Promotions :
    cache[p] # 0 /\ ~Clearing(p) => status[p] = "Active" /\ cache[p] = prices[p]
QInv == Inv /\ CacheRight /\ Justified

\* Every table that was right stays right, and prices that were not harmed were not before.
LEMMA CallKept ==
  ASSUME Justified, status' = status, prices' = prices, harmed \subseteq harmed',
         NEW e \in Calls, calls'[e] = calls[e], loaded' = loaded \/ ~At(e, "price")
  PROVE  QuotedCall(calls[e])' /\ SavedCall(calls[e])'
<1> DEFINE x == calls[e]
<1>1. QuotedCall(x) /\ SavedCall(x)
  BY DEF Justified
<1>2. harmed' = {} => harmed = {}
  OBVIOUS
<1>3. SavedCall(x)'
  BY <1>1 DEF SavedCall
<1>4. Right(x)' <=> Right(x)
  BY DEF Right, Table
<1>5. x \in QuoteCall => x # Idle
  BY IdleIsNoCall
<1>6. x' = x
  OBVIOUS
<1>7. x \in QuoteCall /\ x.pc = "price" => loaded' = loaded
  BY <1>5 DEF At
<1>8. QuotedCall(x)'
  <2> HIDE DEF x
  <2> SUFFICES ASSUME x \in QuoteCall
               PROVE  /\ x.promotion # 0 => prices[x.promotion] \in x.right
                      /\ x.pc = "set" => Right(x)'
                      /\ x.pc \in {"store", "price", "quoted"} /\ ~x.crossed /\ harmed' = {} => Right(x)'
                      /\ x.pc = "price" /\ ~x.crossed => x.table = loaded'
    BY <1>6 DEF QuotedCall
  <2> QED BY <1>1, <1>2, <1>4, <1>7 DEF QuotedCall
<1> QED BY <1>3, <1>8

LEMMA CacheKept ==
  ASSUME CacheRight, UNCHANGED <<status, prices, cache>>, harmed \subseteq harmed',
         \A e \in Calls : At(e, "clear") => calls'[e] = calls[e]
  PROVE  CacheRight'
<1>1. ASSUME NEW p, Clearing(p) PROVE Clearing(p)'
  BY <1>1 DEF Clearing, At
<1> QED BY <1>1 DEF CacheRight, base

\* A step that writes nothing but one call.
LEMMA OneMoved ==
  ASSUME QInv, NEW c \in Calls, NEW x, calls' = [calls EXCEPT ![c] = x],
         UNCHANGED <<base, cache, loaded>>, harmed \subseteq harmed', ~At(c, "clear"),
         (QuotedCall(x) /\ SavedCall(x))'
  PROVE  CacheRight' /\ Justified'
<1>0. UNCHANGED base /\ status' = status /\ prices' = prices /\ loaded' = loaded
  BY DEF base
<1>1. \A e \in Calls : calls'[e] = IF e = c THEN x ELSE calls[e]
  BY DEF QInv, Inv, TypeOK
<1>2. CacheRight'
  BY <1>0, <1>1, CacheKept DEF QInv
<1>3. ASSUME NEW e \in Calls
      PROVE  QuotedCall(calls[e])' /\ SavedCall(calls[e])'
  <2>1. CASE e = c
    BY <1>1, <2>1 DEF QuotedCall, SavedCall, Right
  <2>2. CASE e # c
    BY <1>0, <1>1, <2>2, CallKept DEF QInv
  <2> QED BY <2>1, <2>2
<1> QED BY <1>2, <1>3 DEF Justified

LEMMA IdleJustified == (QuotedCall(Idle) /\ SavedCall(Idle))'
BY IdleIsNoCall DEF QuotedCall, SavedCall

\* What a call is after rows were written.
LEMMA Notes ==
  ASSUME NEW d \in Typed, Noted(d), NEW e \in Calls
  PROVE  /\ d[e] = Idle => calls'[e] = Idle
         /\ d[e] \in QuoteCall => \E more :
              /\ calls'[e] = [d[e] EXCEPT !.right = d[e].right \cup more]
              /\ d[e].promotion # 0 => prices'[d[e].promotion] \in more
         /\ d[e] \in UpdateCall /\ d[e].pc = "clear" => calls'[e] = d[e]
         /\ d[e] \in AppendCall => calls'[e] \in AppendCall
         /\ d[e] \in UpdateCall /\ d[e].pc = "save" => \E b \in BOOLEAN :
              /\ calls'[e] = [d[e] EXCEPT !.outdated = b]
              /\ ~b => ~d[e].outdated /\ status'[d[e].promotion] = status[d[e].promotion]
<1> DEFINE changed == {r \in Promotions \X SUBSET Users : Rows(r[1], r[2])' # Rows(r[1], r[2])}
           After(x) == IF x = Idle THEN Idle
             ELSE IF x \in QuoteCall
               THEN [x EXCEPT !.right = @ \cup {prices'[p] : p \in {x.promotion} \ {0}}]
             ELSE IF x.pc = "clear" THEN x
             ELSE [x EXCEPT !.outdated = @ \/ <<x.promotion, Asked(x)>> \in changed]
<1>1. calls'[e] = After(d[e])
  BY DEF Noted
<1>2. ASSUME NEW p \in Promotions
      PROVE  <<p, {}>> \in changed <=> Rows(p, {})' # Rows(p, {})
  OBVIOUS
<1> HIDE DEF changed
<1>3. CASE d[e] = Idle
  BY <1>1, <1>3, IdleIsNoCall
<1>4. CASE d[e] \in QuoteCall
  <2> DEFINE more == {prices'[p] : p \in {d[e].promotion} \ {0}}
  <2>1. calls'[e] = [d[e] EXCEPT !.right = d[e].right \cup more]
    BY <1>1, <1>4, IdleIsNoCall
  <2>2. d[e].promotion # 0 => prices'[d[e].promotion] \in more
    OBVIOUS
  <2>3. d[e] \notin AppendCall /\ d[e] \notin UpdateCall /\ d[e] # Idle
    BY <1>4, IdleIsNoCall DEF QuoteCall, AppendCall, UpdateCall
  <2> HIDE DEF more, After
  <2> QED BY <1>4, <2>1, <2>2, <2>3
<1>5. CASE d[e] \in AppendCall
  <2>1. calls'[e] = [d[e] EXCEPT !.outdated = @ \/ <<d[e].promotion, Asked(d[e])>> \in changed]
    BY <1>1, <1>5, IdleIsNoCall DEF QuoteCall, AppendCall
  <2>2. d[e] \notin QuoteCall /\ d[e] \notin UpdateCall /\ d[e] # Idle
    BY <1>5, IdleIsNoCall DEF QuoteCall, AppendCall, UpdateCall
  <2>3. calls'[e] \in AppendCall
    <3> HIDE DEF After
    <3> QED BY <1>5, <2>1 DEF AppendCall
  <2> QED BY <1>5, <2>2, <2>3
<1>6. CASE d[e] \in UpdateCall /\ d[e].pc = "clear"
  <2>1. d[e] \notin QuoteCall /\ d[e] \notin AppendCall /\ d[e] # Idle
    BY <1>6, IdleIsNoCall DEF QuoteCall, AppendCall, UpdateCall
  <2> QED BY <1>1, <1>6, <2>1
<1>7. CASE d[e] \in UpdateCall /\ d[e].pc = "save"
  <2>1. d[e] \notin QuoteCall /\ d[e] \notin AppendCall /\ d[e] # Idle
    BY <1>7, IdleIsNoCall DEF QuoteCall, AppendCall, UpdateCall
  <2>2. calls'[e] = [d[e] EXCEPT !.outdated = @ \/ <<d[e].promotion, {}>> \in changed]
    BY <1>1, <1>7, <2>1 DEF Asked
  <2>3. d[e].promotion \in Promotions
    BY <1>7 DEF UpdateCall
  <2> DEFINE b == d[e].outdated \/ <<d[e].promotion, {}>> \in changed
  <2>4. calls'[e] = [d[e] EXCEPT !.outdated = b] /\ b \in BOOLEAN
    BY <2>2
  <2>5. ASSUME ~b
        PROVE  ~d[e].outdated /\ status'[d[e].promotion] = status[d[e].promotion]
    <3>1. PICK p \in Promotions : p = d[e].promotion
      BY <2>3
    <3>2. Rows(p, {})' = Rows(p, {})
      BY <1>2, <2>5, <3>1
    <3> QED BY <2>5, <3>1, <3>2 DEF Rows
  <2> HIDE DEF After, b
  <2> QED BY <1>7, <2>1, <2>4, <2>5
<1> QED BY <1>3, <1>4, <1>5, <1>6, <1>7 DEF Typed, UpdateCall

\* Who writes rows keeps every call justified: quotes note the prices, staff that wait to
\* save a promotion note that its status is another.
LEMMA NotedJustified ==
  ASSUME QInv, Inv', NEW d \in Typed, Noted(d), harmed \subseteq harmed', loaded' = loaded,
         \A e \in Calls : d[e] = calls[e] \/ d[e] = Idle \/ (d[e] \in UpdateCall /\ d[e].pc = "clear")
  PROVE  Justified'
<1> SUFFICES ASSUME NEW e \in Calls PROVE (QuotedCall(calls[e]) /\ SavedCall(calls[e]))'
  BY DEF Justified
<1> DEFINE x == calls[e]
<1>1. CASE d[e] = Idle
  <2>1. calls'[e] = Idle
    BY <1>1, Notes
  <2> QED BY <2>1, IdleIsNoCall DEF QuotedCall, SavedCall
<1>2. CASE d[e] \in UpdateCall /\ d[e].pc = "clear"
  <2>1. calls'[e] = d[e]
    BY <1>2, Notes
  <2> QED BY <1>2, <2>1 DEF QuotedCall, SavedCall, QuoteCall, UpdateCall
<1>3. CASE d[e] = x /\ x \in AppendCall
  <2>1. calls'[e] \in AppendCall
    BY <1>3, Notes
  <2> QED BY <2>1 DEF QuotedCall, SavedCall, AppendCall, QuoteCall, UpdateCall
<1>4. CASE d[e] = x /\ x \in QuoteCall
  <2> DEFINE y == calls'[e]
  <2>0. d[e] \in QuoteCall
    BY <1>4
  <2>1. PICK more : /\ y = [d[e] EXCEPT !.right = d[e].right \cup more]
                    /\ d[e].promotion # 0 => prices'[d[e].promotion] \in more
    <3> HIDE DEF x
    <3> QED BY <2>0, Notes
  <2>2. x.promotion # 0 => prices'[x.promotion] \in more
    BY <1>4, <2>1
  <2>3. QuotedCall(x)
    BY DEF QInv, Justified
  <2>4. /\ y.pc = x.pc /\ y.promotion = x.promotion /\ y.table = x.table
        /\ y.crossed = x.crossed /\ y.right = x.right \cup more
    BY <1>4, <2>1 DEF QuoteCall
  <2>5. Right(x) => Right(y)
    BY <2>4 DEF Right
  <2> HIDE DEF x
  <2>6. /\ y.promotion # 0 => prices'[y.promotion] \in y.right
        /\ y.pc = "set" => Right(y)
        /\ y.pc \in {"store", "price", "quoted"} /\ ~y.crossed /\ harmed' = {} => Right(y)
        /\ y.pc = "price" /\ ~y.crossed => y.table = loaded'
    BY <1>4, <2>2, <2>3, <2>4, <2>5 DEF QuotedCall
  <2>7. Right(y) => Right(calls[e])'
    BY DEF Right, Table
  <2>8. QuotedCall(calls[e])'
    <3> HIDE DEF Right
    <3> QED BY <2>6, <2>7 DEF QuotedCall
  <2>9. y.pc # "save"
    BY <1>4, <2>4 DEF QuoteCall
  <2> QED BY <2>8, <2>9 DEF SavedCall
<1>5. CASE d[e] = x /\ x \in UpdateCall /\ x.pc = "save"
  <2> DEFINE y == calls'[e]
  <2>0. d[e] \in UpdateCall /\ d[e].pc = "save"
    BY <1>5
  <2>1. PICK b \in BOOLEAN :
          /\ y = [d[e] EXCEPT !.outdated = b]
          /\ ~b => ~d[e].outdated /\ status'[d[e].promotion] = status[d[e].promotion]
    <3> HIDE DEF x
    <3> QED BY <2>0, Notes
  <2>4. /\ y.pc = "save" /\ y.promotion = x.promotion /\ y.to = x.to /\ y.turned = x.turned
        /\ y.upload = x.upload /\ y.outdated = b
    BY <1>5, <2>1 DEF UpdateCall
  <2>6. SavedCall(x)
    BY DEF QInv, Justified
  <2> HIDE DEF x
  <2>7. ~y.outdated => /\ y.turned <=> y.to # status'[y.promotion]
                       /\ y.upload => status'[y.promotion] # "Active"
    BY <1>5, <2>1, <2>4, <2>6 DEF SavedCall
  <2>8. y \notin QuoteCall
    BY <2>4 DEF QuoteCall
  <2> QED BY <2>7, <2>8 DEF SavedCall, QuotedCall
<1> QED BY <1>1, <1>2, <1>3, <1>4, <1>5 DEF QInv, Inv, TypeOK, UpdateCall

LEMMA StaffKeepsPrices ==
  ASSUME QInv, Inv', NEW c \in Calls, StaffStep(c)
  PROVE  CacheRight' /\ Justified'
<1> USE DEF QInv
<1> DEFINE x == calls[c]
<1>t. TypeOK /\ calls \in Typed
  BY DEF Inv, TypeOK, Typed
<1>i. x = Idle => ~At(c, "clear")
  BY DEF At
<1>1. CASE \E p \in Promotions, U \in Forms, tester \in BOOLEAN : Append(c, p, U, tester)
  <2> PICK p \in Promotions, U \in Forms, tester \in BOOLEAN : Append(c, p, U, tester)
    BY <1>1
  <2> DEFINE found == Members(p) \ (IF tester THEN {} ELSE Hidden)
             y == [pc |-> "append", promotion |-> p, asked |-> U,
                   drop |-> found \ U, add |-> U \ found, outdated |-> FALSE]
  <2>1. /\ calls' = [calls EXCEPT ![c] = y] /\ ~At(c, "clear")
        /\ UNCHANGED <<base, cache, loaded>> /\ harmed \subseteq harmed'
    BY <1>i DEF Append, Begins
  <2>2. y \notin QuoteCall /\ y \notin UpdateCall
    <3>1. y.pc = "append"
      OBVIOUS
    <3> QED BY <3>1 DEF QuoteCall, UpdateCall
  <2> PICK z : z = y
    OBVIOUS
  <2> HIDE DEF y
  <2>3. (QuotedCall(z) /\ SavedCall(z))'
    BY <2>2 DEF QuotedCall, SavedCall
  <2> QED BY <2>1, <2>3, OneMoved
<1>2. CASE \E p \in Promotions, upload \in BOOLEAN :
             \E to \in Choices \cup {status[p]} : Update(c, p, to, upload)
  <2> PICK p \in Promotions, upload \in BOOLEAN :
             \E to \in Choices \cup {status[p]} : Update(c, p, to, upload)
    BY <1>2
  <2> PICK to \in Choices \cup {status[p]} : Update(c, p, to, upload)
    OBVIOUS
  <2> DEFINE y == [pc |-> "save", promotion |-> p, to |-> to, turned |-> to # status[p],
                   upload |-> upload, outdated |-> FALSE]
  <2>1. /\ calls' = [calls EXCEPT ![c] = y] /\ ~At(c, "clear")
        /\ UNCHANGED <<base, cache, loaded>> /\ harmed \subseteq harmed'
        /\ upload => status[p] # "Active"
    BY <1>i DEF Update, Begins
  <2>2. /\ y.pc = "save" /\ y.promotion = p /\ y.turned = (to # status[p]) /\ y.to = to
        /\ y.upload = upload
    OBVIOUS
  <2>3. y \notin QuoteCall /\ status' = status
    BY <2>1, <2>2 DEF QuoteCall, base
  <2> PICK z : z = y
    OBVIOUS
  <2> HIDE DEF y
  <2>4. (QuotedCall(z) /\ SavedCall(z))'
    BY <2>1, <2>2, <2>3 DEF QuotedCall, SavedCall
  <2> QED BY <2>1, <2>4, OneMoved
<1>3. CASE AppendUserToPromotion(c)
  <2> DEFINE d == [calls EXCEPT ![c] = Idle]
  <2>1. /\ d \in Typed /\ Noted(d) /\ harmed \subseteq harmed' /\ loaded' = loaded
        /\ \A e \in Calls : d[e] = calls[e] \/ d[e] = Idle
        /\ \A e \in Calls : e # c => d[e] = calls[e]
    BY <1>3, <1>t DEF AppendUserToPromotion, Wrote, Typed
  <2>2. UNCHANGED <<status, prices, cache>> /\ At(c, "append")
    BY <1>3 DEF AppendUserToPromotion
  <2> PICK b \in Typed : b = d
    BY <2>1
  <2> HIDE DEF d
  <2>3. Noted(b)
    BY <2>1 DEF Noted
  <2>4. Justified'
    BY <2>1, <2>3, NotedJustified
  <2>5. ASSUME NEW e \in Calls, At(e, "clear") PROVE calls'[e] = calls[e]
    <3>1. b[e] = calls[e] /\ b[e] \in UpdateCall /\ b[e].pc = "clear"
      BY <1>t, <2>1, <2>2, <2>5, Kinds DEF At
    <3> QED BY <2>3, <3>1, Notes
  <2> QED BY <2>1, <2>2, <2>4, <2>5, CacheKept
<1>4. CASE SavePromotion(c)
  <2> DEFINE y == [x EXCEPT !.pc = "clear", !.outdated = FALSE]
             d == IF calls[c].turned
                  THEN [calls EXCEPT ![c].pc = "clear", ![c].outdated = FALSE]
                  ELSE [calls EXCEPT ![c] = Idle]
  <2>1. x \in UpdateCall /\ x.pc = "save" /\ x.promotion \in Promotions
    BY <1>4, <1>t, Kinds DEF SavePromotion, At, UpdateCall
  <2>2. y \in UpdateCall /\ y.pc = "clear" /\ y.promotion = x.promotion
    BY <2>1 DEF UpdateCall
  <2>3. d = IF x.turned THEN [calls EXCEPT ![c] = y] ELSE [calls EXCEPT ![c] = Idle]
    BY <2>1 DEF Inv, TypeOK
  <2>4. Noted(d) /\ harmed \subseteq harmed' /\ loaded' = loaded /\ cache' = cache
    BY <1>4 DEF SavePromotion, Wrote
  <2>w. Wrote(c) /\ status' = [status EXCEPT ![x.promotion] = x.to]
        /\ prices' = IF x.upload THEN [prices EXCEPT ![x.promotion] = @ + 1] ELSE prices
    BY <1>4 DEF SavePromotion
  <2> HIDE DEF y, d
  <2>5. /\ d \in Typed
        /\ \A e \in Calls : d[e] = calls[e] \/ d[e] = Idle \/ (d[e] \in UpdateCall /\ d[e].pc = "clear")
        /\ \A e \in Calls : e # c => d[e] = calls[e]
        /\ x.turned => d[c] = y
    BY <1>t, <2>2, <2>3 DEF Typed
  <2> PICK b \in Typed : b = d
    BY <2>5
  <2>6. Noted(b)
    BY <2>4 DEF Noted
  <2>7. Justified'
    BY <2>4, <2>5, <2>6, NotedJustified
  <2>8. ASSUME NEW q, Clearing(q) PROVE Clearing(q)'
    <3> PICK e \in Calls : At(e, "clear") /\ calls[e].promotion = q
      BY <2>8 DEF Clearing
    <3>1. e # c
      BY <2>1 DEF At
    <3>2. b[e] = calls[e] /\ b[e] \in UpdateCall /\ b[e].pc = "clear"
      BY <1>t, <2>5, <3>1, Kinds DEF At
    <3>3. calls'[e] = calls[e]
      BY <2>6, <3>2, Notes
    <3> QED BY <3>3 DEF Clearing, At
  <2> PICK p \in Promotions : p = x.promotion
    BY <2>1
  <2>9. ASSUME x.turned PROVE Clearing(p)'
    <3>1. b[c] = y
      BY <2>5, <2>9
    <3>2. calls'[c] = y
      BY <2>2, <2>6, <3>1, Notes
    <3>3. y # Idle
      BY <2>2, IdleIsNoCall
    <3>4. calls'[c] # Idle /\ calls'[c].pc = "clear" /\ calls'[c].promotion = p
      BY <2>2, <3>2, <3>3
    <3> QED BY <3>4 DEF Clearing, At
  <2>10. ASSUME harmed' = {}, NEW q \in Promotions, cache'[q] # 0, ~Clearing(q)'
         PROVE  status'[q] = "Active" /\ cache'[q] = prices'[q]
    <3>1. harmed = {} /\ ~x.outdated
      BY <2>4, <2>10, <2>w DEF Wrote
    <3>2. status[q] = "Active" /\ cache[q] = prices[q]
      BY <2>4, <2>8, <2>10, <3>1 DEF CacheRight
    <3>3. CASE q # x.promotion
      BY <1>t, <2>4, <2>w, <3>2, <3>3 DEF TypeOK
    <3>4. CASE q = x.promotion
      <4>1. ~x.turned
        BY <2>9, <2>10, <3>4
      <4>2. SavedCall(x)
        BY DEF Justified
      <4>3. x.to = status[q] /\ ~x.upload
        BY <2>1, <3>1, <3>2, <3>4, <4>1, <4>2 DEF SavedCall
      <4> QED BY <1>t, <2>4, <2>w, <3>2, <3>4, <4>3 DEF TypeOK
    <3> QED BY <3>3, <3>4
  <2> QED BY <2>7, <2>10 DEF CacheRight
<1>5. CASE ClearPrices(c)
  <2>1. /\ cache' = [cache EXCEPT ![x.promotion] = 0] /\ UNCHANGED <<status, prices, loaded, harmed>>
        /\ \A e \in Calls : calls'[e] = IF e = c THEN Idle ELSE calls[e]
    BY <1>5, <1>t DEF ClearPrices, End, base, TypeOK
  <2>2. Justified'
    <3> SUFFICES ASSUME NEW e \in Calls PROVE QuotedCall(calls[e])' /\ SavedCall(calls[e])'
      BY DEF Justified
    <3>1. CASE e = c
      BY <2>1, <3>1, IdleIsNoCall DEF QuotedCall, SavedCall
    <3>2. CASE e # c
      BY <2>1, <3>2, CallKept
    <3> QED BY <3>1, <3>2
  <2>3. ASSUME NEW q, Clearing(q), q # x.promotion PROVE Clearing(q)'
    BY <2>1, <2>3 DEF Clearing, At
  <2>4. CacheRight'
    BY <1>t, <2>1, <2>3 DEF CacheRight, TypeOK
  <2> QED BY <2>2, <2>4
<1> QED BY <1>1, <1>2, <1>3, <1>4, <1>5 DEF StaffStep

\* A quote that goes on with a table that is right, if anything is.
LEMMA QuoteMoved ==
  ASSUME QInv, NEW c \in Calls, NEW z, calls' = [calls EXCEPT ![c] = z],
         UNCHANGED <<base, cache, loaded>>, harmed \subseteq harmed', ~At(c, "clear"),
         z \in QuoteCall, z.promotion # 0 => prices[z.promotion] \in z.right,
         z.pc = "set" => Right(z),
         z.pc \in {"store", "quoted"} /\ ~z.crossed /\ harmed = {} => Right(z),
         z.pc # "price"
  PROVE  CacheRight' /\ Justified'
<1>1. prices' = prices /\ (harmed' = {} => harmed = {})
  BY DEF base
<1>2. Right(z) => Right(z)'
  BY DEF Right, Table
<1>3. QuotedCall(z)'
  <2> SUFFICES /\ z.promotion # 0 => prices'[z.promotion] \in z.right
               /\ z.pc = "set" => Right(z)'
               /\ z.pc \in {"store", "price", "quoted"} /\ ~z.crossed /\ harmed' = {} => Right(z)'
               /\ z.pc = "price" /\ ~z.crossed => z.table = loaded'
    BY DEF QuotedCall
  <2> QED BY <1>1, <1>2
<1>4. SavedCall(z)'
  BY DEF SavedCall, QuoteCall, UpdateCall
<1> QED BY <1>3, <1>4, OneMoved

LEMMA QuoteKeepsPrices ==
  ASSUME QInv, Inv', NEW c \in Calls, QuoteStep(c)
  PROVE  CacheRight' /\ Justified'
<1> USE DEF QInv
<1> DEFINE x == calls[c]
<1>t. TypeOK /\ calls \in Typed
  BY DEF Inv, TypeOK, Typed
<1>i. x = Idle => ~At(c, "clear")
  BY DEF At
<1>q. ASSUME x # Idle, x.pc \in {"get", "find", "set", "store", "price", "quoted"}
      PROVE  /\ x \in QuoteCall /\ ~At(c, "clear")
             /\ x.promotion # 0 => prices[x.promotion] \in x.right
             /\ x.pc = "set" => Right(x)
             /\ x.pc \in {"store", "price", "quoted"} /\ ~x.crossed /\ harmed = {} => Right(x)
             /\ x.pc = "price" /\ ~x.crossed => x.table = loaded
  <2>1. x \in QuoteCall
    BY <1>q, <1>t, Kinds
  <2>2. QuotedCall(x)
    BY DEF Justified
  <2> QED BY <1>q, <2>1, <2>2 DEF QuotedCall, At
<1>p. ASSUME x # Idle, x.pc \in {"get", "find", "set"}
      PROVE  x.promotion \in Promotions /\ x.promotion # 0
  BY <1>p, <1>q, PricingConstants DEF Inv, Sound, Held
<1>1. CASE \E u \in Users : Quote(c, u)
  <2> PICK u \in Users : Quote(c, u)
    BY <1>1
  <2> PICK p \in Found(u) :
        calls' = [calls EXCEPT ![c] =
          [pc |-> IF p = 0 THEN "store" ELSE "get", promotion |-> p, table |-> List,
           right |-> {prices[q] : q \in {p} \ {0}}, crossed |-> FALSE]]
    BY DEF Quote
  <2> DEFINE right == {prices[q] : q \in {p} \ {0}}
             y == [pc |-> IF p = 0 THEN "store" ELSE "get", promotion |-> p, table |-> List,
                   right |-> right, crossed |-> FALSE]
  <2>1. p \in Promotions \/ p = 0
    BY <1>t, FoundIsOne
  <2>2. right \subseteq Versions /\ (p # 0 => prices[p] \in right)
    BY <1>t, <2>1 DEF TypeOK
  <2>3. calls' = [calls EXCEPT ![c] = y]
    OBVIOUS
  <2> HIDE DEF right
  <2>4. y \in QuoteCall
    BY <2>1, <2>2 DEF QuoteCall, Tables
  <2>5. /\ y.promotion = p /\ y.pc \in {"store", "get"} /\ y.right = right /\ y.table = List
        /\ y.pc = "store" => p = 0
    OBVIOUS
  <2>6. /\ UNCHANGED <<base, cache, loaded>> /\ harmed \subseteq harmed' /\ ~At(c, "clear")
    BY <1>i DEF Quote, Begins
  <2>7. y.pc = "store" => Right(y)
    BY <2>5 DEF Right
  <2> HIDE DEF y
  <2>8. /\ y.promotion # 0 => prices[y.promotion] \in y.right
        /\ y.pc = "set" => Right(y)
        /\ y.pc \in {"store", "quoted"} /\ ~y.crossed /\ harmed = {} => Right(y)
        /\ y.pc # "price"
    BY <2>2, <2>5, <2>7
  <2> QED BY <2>3, <2>4, <2>6, <2>8, QuoteMoved
<1>2. CASE GetPrices(c)
  <2> DEFINE p == x.promotion
             y == [x EXCEPT !.pc = IF cache[p] = 0 THEN "find" ELSE "store",
                            !.table = Table(p, cache[p]),
                            !.crossed = cache[p] # 0 /\ Clearing(p)]
  <2>0. x # Idle /\ x.pc = "get"
    BY <1>2 DEF GetPrices, At
  <2>1. /\ x \in QuoteCall /\ p \in Promotions /\ cache[p] \in Versions
        /\ prices[p] \in x.right /\ ~At(c, "clear")
    BY <1>t, <1>q, <1>p, <2>0 DEF TypeOK
  <2>2. calls' = [calls EXCEPT ![c] = y]
    BY <1>2, <1>t, <2>1 DEF GetPrices, TypeOK
  <2>3. Table(p, cache[p]) \in Tables /\ (cache[p] # 0 /\ Clearing(p)) \in BOOLEAN
    BY <2>1, TableFacts
  <2>4. /\ y \in QuoteCall /\ y.promotion = p /\ y.right = x.right
        /\ y.pc = IF cache[p] = 0 THEN "find" ELSE "store"
        /\ y.crossed = (cache[p] # 0 /\ Clearing(p)) /\ y.table = Table(p, cache[p])
    BY <2>1, <2>3 DEF QuoteCall
  <2> HIDE DEF y
  <2>5. /\ UNCHANGED <<base, cache, loaded>> /\ harmed \subseteq harmed'
    BY <1>2 DEF GetPrices
  <2>6. ASSUME y.pc \in {"store", "quoted"}, ~y.crossed, harmed = {} PROVE Right(y)
    <3>1. cache[p] = prices[p]
      BY <2>1, <2>4, <2>6 DEF CacheRight
    <3> QED BY <2>1, <2>4, <3>1 DEF Right
  <2>7. y.pc \notin {"set", "price"} /\ prices[y.promotion] \in y.right
    BY <2>1, <2>4
  <2> QED BY <2>1, <2>2, <2>4, <2>5, <2>6, <2>7, QuoteMoved
<1>3. CASE FindPrices(c)
  <2> DEFINE p == x.promotion
             y == [x EXCEPT !.pc = IF prices[p] = 0 THEN "store" ELSE "set",
                            !.table = Table(p, prices[p])]
  <2>0. x # Idle /\ x.pc = "find"
    BY <1>3 DEF FindPrices, At
  <2>1. /\ x \in QuoteCall /\ p \in Promotions /\ prices[p] \in Versions
        /\ prices[p] \in x.right /\ ~At(c, "clear")
    BY <1>t, <1>q, <1>p, <2>0 DEF TypeOK
  <2>2. calls' = [calls EXCEPT ![c] = y]
    BY <1>3, <1>t, <2>1 DEF FindPrices, TypeOK
  <2>3. Table(p, prices[p]) \in Tables
    BY <2>1, TableFacts
  <2>4. /\ y \in QuoteCall /\ y.promotion = p /\ y.right = x.right
        /\ y.pc \in {"store", "set"} /\ y.table = Table(p, prices[p])
    BY <2>1, <2>3 DEF QuoteCall
  <2> HIDE DEF y
  <2>5. /\ UNCHANGED <<base, cache, loaded>> /\ harmed \subseteq harmed'
    BY <1>3 DEF FindPrices
  <2>6. Right(y)
    BY <2>1, <2>4 DEF Right
  <2>7. y.pc # "price" /\ prices[y.promotion] \in y.right
    BY <2>1, <2>4
  <2> QED BY <2>1, <2>2, <2>4, <2>5, <2>6, <2>7, QuoteMoved
<1>4. CASE SetPrices(c)
  <2> DEFINE p == x.promotion
             y == [x EXCEPT !.pc = "store"]
  <2>0. x # Idle /\ x.pc = "set"
    BY <1>4 DEF SetPrices, At
  <2>1. /\ x \in QuoteCall /\ p \in Promotions /\ ~At(c, "clear")
        /\ prices[p] \in x.right /\ Right(x)
    BY <1>q, <1>p, <2>0
  <2>2. calls' = [calls EXCEPT ![c] = y]
    BY <1>4, <1>t, <2>1 DEF SetPrices, Goto, TypeOK
  <2>3. /\ y \in QuoteCall /\ y.promotion = p /\ y.right = x.right
        /\ y.pc = "store" /\ y.table = x.table
    BY <2>1 DEF QuoteCall
  <2> HIDE DEF y
  <2> PICK z : z = y
    OBVIOUS
  <2>4. UNCHANGED <<base, loaded>> /\ status' = status /\ prices' = prices /\ harmed \subseteq harmed'
    BY <1>4 DEF SetPrices, base
  <2>5. \A e \in Calls : calls'[e] = IF e = c THEN z ELSE calls[e]
    BY <1>t, <2>2 DEF Typed
  <2>6. Right(z)'
    BY <2>1, <2>3 DEF Right, Table
  <2>7. QuotedCall(z)' /\ SavedCall(z)'
    <3>1. z.promotion # 0 => prices'[z.promotion] \in z.right
      BY <2>1, <2>3, <2>4
    <3>2. QuotedCall(z)'
      BY <2>3, <2>6, <3>1 DEF QuotedCall
    <3> QED BY <2>3, <3>2 DEF SavedCall, QuoteCall, UpdateCall
  <2>8. Justified'
    <3> SUFFICES ASSUME NEW e \in Calls PROVE QuotedCall(calls[e])' /\ SavedCall(calls[e])'
      BY DEF Justified
    <3>1. CASE e = c
      BY <2>5, <2>7, <3>1 DEF QuotedCall, SavedCall, Right
    <3>2. CASE e # c
      BY <2>4, <2>5, <3>2, CallKept
    <3> QED BY <3>1, <3>2
  <2>9. ASSUME NEW q, Clearing(q) PROVE Clearing(q)'
    BY <2>1, <2>5, <2>9 DEF Clearing, At
  <2>10. /\ cache' = [cache EXCEPT ![p] = x.table.version]
         /\ harmed' = IF status[p] = "Active" /\ x.table.version = prices[p] THEN harmed
                      ELSE harmed \cup {p}
    BY <1>4 DEF SetPrices
  <2>11. CacheRight'
    BY <1>t, <2>4, <2>9, <2>10 DEF CacheRight, TypeOK
  <2> QED BY <2>8, <2>11
<1>5. CASE StorePrices(c)
  <2>0. x # Idle /\ x.pc = "store"
    BY <1>5 DEF StorePrices, At
  <2>1. /\ x \in QuoteCall /\ ~At(c, "clear") /\ (x.promotion # 0 => prices[x.promotion] \in x.right)
        /\ ~x.crossed /\ harmed = {} => Right(x)
    BY <1>q, <2>0
  <2>2. UNCHANGED <<base, cache, harmed>> /\ status' = status /\ prices' = prices /\ loaded' = x.table
    BY <1>5 DEF StorePrices, base
  <2>3. /\ calls'[c] = [x EXCEPT !.pc = "price"]
        /\ \A e \in Calls \ {c} : calls'[e] =
             IF At(e, "price") /\ loaded' # loaded THEN [calls[e] EXCEPT !.crossed = TRUE]
             ELSE calls[e]
    BY <1>5 DEF StorePrices
  <2>4. ASSUME NEW e \in Calls, At(e, "clear") PROVE calls'[e] = calls[e]
    BY <2>1, <2>3, <2>4 DEF At
  <2>5. CacheRight'
    BY <2>2, <2>4, CacheKept DEF base
  <2>6. Justified'
    <3> SUFFICES ASSUME NEW e \in Calls PROVE QuotedCall(calls[e])' /\ SavedCall(calls[e])'
      BY DEF Justified
    <3>1. CASE e = c
      <4> DEFINE y == calls'[e]
      <4>1. /\ y.pc = "price" /\ y.promotion = x.promotion /\ y.right = x.right
            /\ y.table = x.table /\ y.crossed = x.crossed
        BY <2>1, <2>3, <3>1 DEF QuoteCall
      <4>3. QuotedCall(calls[e])'
        <5> HIDE DEF x
        <5>1. Right(x) => Right(calls[e])'
          BY <4>1 DEF Right, Table
        <5> QED BY <2>1, <2>2, <4>1, <5>1 DEF QuotedCall
      <4> QED BY <4>1, <4>3 DEF SavedCall
    <3>2. CASE e # c /\ At(e, "price") /\ loaded' # loaded
      <4> DEFINE w == calls[e]
                 y == calls'[e]
      <4>1. w \in QuoteCall /\ w.pc = "price"
        BY <1>t, <3>2, Kinds DEF At
      <4>2. y = [w EXCEPT !.crossed = TRUE]
        BY <2>3, <3>2
      <4>3. y.pc = "price" /\ y.promotion = w.promotion /\ y.right = w.right /\ y.crossed
        BY <4>1, <4>2 DEF QuoteCall
      <4>4. w.promotion # 0 => prices[w.promotion] \in w.right
        BY <4>1 DEF Justified, QuotedCall
      <4> HIDE DEF w
      <4>5. QuotedCall(calls[e])'
        BY <2>2, <4>3, <4>4 DEF QuotedCall
      <4> QED BY <4>3, <4>5 DEF SavedCall
    <3>3. CASE e # c /\ ~(At(e, "price") /\ loaded' # loaded)
      <4>1. calls'[e] = calls[e]
        BY <2>3, <3>3
      <4> QED BY <2>2, <3>3, <4>1, CallKept
    <3> QED BY <3>1, <3>2, <3>3
  <2> QED BY <2>5, <2>6
<1>6. CASE BasePrice(c)
  <2>0. x # Idle /\ x.pc = "price"
    BY <1>6 DEF BasePrice, At
  <2>1. /\ x \in QuoteCall /\ ~At(c, "clear") /\ (x.promotion # 0 => prices[x.promotion] \in x.right)
        /\ ~x.crossed /\ harmed = {} => Right(x)
        /\ ~x.crossed => x.table = loaded
    BY <1>q, <2>0
  <2>2. UNCHANGED <<base, cache, loaded>> /\ harmed \subseteq harmed'
    BY <1>6 DEF BasePrice
  <2>3. CASE calls' = [calls EXCEPT ![c].pc = "quoted", ![c].table = loaded]
    <3> DEFINE y == [x EXCEPT !.pc = "quoted", !.table = loaded]
    <3>1. calls' = [calls EXCEPT ![c] = y]
      BY <1>t, <2>1, <2>3 DEF TypeOK
    <3>2. /\ y \in QuoteCall /\ y.promotion = x.promotion /\ y.pc = "quoted"
          /\ y.right = x.right /\ y.table = loaded /\ y.crossed = x.crossed
      BY <1>t, <2>1 DEF QuoteCall, TypeOK
    <3> HIDE DEF y
    <3>3. ~y.crossed /\ harmed = {} => Right(y)
      BY <2>1, <3>2 DEF Right
    <3> QED BY <2>1, <2>2, <3>1, <3>2, <3>3, QuoteMoved
  <2>4. CASE calls' = [calls EXCEPT ![c].pc = "quoted", ![c].table = Torn, ![c].crossed = TRUE]
    <3> DEFINE y == [x EXCEPT !.pc = "quoted", !.table = Torn, !.crossed = TRUE]
    <3>1. calls' = [calls EXCEPT ![c] = y]
      BY <1>t, <2>1, <2>4 DEF TypeOK
    <3>2. /\ y \in QuoteCall /\ y.promotion = x.promotion /\ y.pc = "quoted"
          /\ y.right = x.right /\ y.crossed
      BY <2>1 DEF QuoteCall
    <3> HIDE DEF y
    <3> QED BY <2>1, <2>2, <3>1, <3>2, QuoteMoved
  <2> QED BY <1>6, <2>3, <2>4 DEF BasePrice
<1>7. CASE Answer(c)
  <2>1. calls' = [calls EXCEPT ![c] = Idle] /\ UNCHANGED <<base, cache, loaded>>
        /\ harmed \subseteq harmed' /\ ~At(c, "clear")
    BY <1>7 DEF Answer, End, At
  <2> QED BY <2>1, IdleJustified, OneMoved
<1> QED BY <1>1, <1>2, <1>3, <1>4, <1>5, <1>6, <1>7 DEF QuoteStep

\* A price that is quoted was the price of the promotion that was found at some moment of
\* the call, for every number of promotions, customers, calls and faults, unless requests
\* crossed in the shared field or Redis was harmed.
THEOREM QuotedRightHolds == Spec => []QuotedRight
<1>1. Init => CacheRight /\ Justified
  <2> SUFFICES ASSUME Init PROVE CacheRight /\ Justified
    OBVIOUS
  <2>1. CacheRight
    BY DEF Init, CacheRight
  <2>2. Justified
    BY IdleIsNoCall DEF Init, Justified, QuotedCall, SavedCall
  <2> QED BY <2>1, <2>2
<1>2. Inv /\ Inv' /\ CacheRight /\ Justified /\ [Next]_vars => CacheRight' /\ Justified'
  <2> SUFFICES ASSUME QInv, Inv', [Next]_vars PROVE CacheRight' /\ Justified'
    BY DEF QInv
  <2>1. CASE Restart
    <3>1. harmed' # {} /\ \A e \in Calls : calls'[e] = Idle
      <4>1. PICK c \in Calls : At(c, "clear")
        BY <2>1 DEF Restart
      <4>2. calls[c].promotion \in Promotions /\ Clearing(calls[c].promotion)
        BY <4>1, Kinds DEF At, Clearing, QInv, Inv, UpdateCall
      <4> QED BY <2>1, <4>2 DEF Restart
    <3> QED BY <3>1, IdleIsNoCall DEF CacheRight, Justified, QuotedCall, SavedCall
  <2>2. CASE \E c \in Calls : StaffStep(c) \/ QuoteStep(c)
    BY <2>2, StaffKeepsPrices, QuoteKeepsPrices
  <2>3. ASSUME NEW c \in Calls, Fail(c)
        PROVE  CacheRight' /\ Justified'
    <3>1. /\ UNCHANGED <<base, cache, loaded>> /\ harmed \subseteq harmed'
          /\ calls' = [calls EXCEPT ![c] = Idle]
      BY <2>3 DEF Fail, End
    <3>2. CASE ~At(c, "clear")
      BY <3>1, <3>2, IdleJustified, OneMoved
    <3>3. CASE At(c, "clear")
      <4>1. harmed' # {}
        BY <2>3, <3>3 DEF Fail
      <4>2. ASSUME NEW e \in Calls PROVE QuotedCall(calls[e])' /\ SavedCall(calls[e])'
        <5>1. calls'[e] = IF e = c THEN Idle ELSE calls[e]
          BY <3>1 DEF QInv, Inv, TypeOK
        <5>2. status' = status /\ prices' = prices /\ loaded' = loaded
          BY <3>1 DEF base
        <5>3. CASE e = c
          BY <5>1, <5>3, IdleIsNoCall DEF QuotedCall, SavedCall
        <5>4. CASE e # c
          BY <3>1, <5>1, <5>2, <5>4, CallKept DEF QInv
        <5> QED BY <5>3, <5>4
      <4> QED BY <4>1, <4>2 DEF CacheRight, Justified
    <3> QED BY <3>2, <3>3
  <2>4. CASE UNCHANGED vars
    <3>1. /\ UNCHANGED <<status, prices, cache, loaded>> /\ harmed' = harmed
          /\ \A e \in Calls : calls'[e] = calls[e]
      BY <2>4 DEF vars, base
    <3>2. CacheRight'
      BY <3>1, CacheKept DEF QInv
    <3>3. ASSUME NEW e \in Calls PROVE QuotedCall(calls[e])' /\ SavedCall(calls[e])'
      BY <3>1, CallKept DEF QInv
    <3> QED BY <3>2, <3>3 DEF Justified
  <2> QED BY <2>1, <2>2, <2>3, <2>4 DEF Next
<1>3. Inv /\ CacheRight /\ Justified => QuotedRight
  <2> SUFFICES ASSUME Inv, Justified, NEW c \in Calls, At(c, "quoted"), ~calls[c].crossed,
                      harmed = {}
               PROVE  Right(calls[c])
    BY DEF QuotedRight, Right
  <2>1. calls[c] \in QuoteCall /\ calls[c].pc = "quoted"
    BY Kinds DEF At, Inv
  <2> QED BY <2>1 DEF Justified, QuotedCall
<1> QED BY InvHolds, <1>1, <1>2, <1>3, PTL DEF Spec
=============================================================================
