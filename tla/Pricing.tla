------------------------------- MODULE Pricing -------------------------------
(***************************************************************************)
(* What a customer is asked to pay.  Staff write promotions, price tables  *)
(* of their own, and put customers into them.  A price is calculated by    *)
(* one object that all requests of the server share: it looks for the      *)
(* promotion of the customer, takes its prices from Redis or fills Redis   *)
(* from the database, keeps them in a field of its own, and then reads     *)
(* that field.  There are no locks.                                        *)
(*                                                                         *)
(* A price table is a promotion with the version of its prices; every      *)
(* table has a price for what is asked.  Version 0 has no rows.  Tables of *)
(* weights are kept and cached by the same statements.                     *)
(***************************************************************************)
EXTENDS Integers, FiniteSets

CONSTANTS Promotions, Users, Calls,
          Forms,          \* sets of customers staff choose
          Choices,        \* statuses staff choose
          Hidden,         \* blacklist.users
          MaxVersion,     \* bound on the versions of each table
          MaxFaults,      \* bound on errors of Redis and restarts
          MaxHarm,        \* bound on promotions harmed when a call begins
          List, Torn,     \* the general prices; no table at all
          Idle

Status == {"Active", "Deactivate", "Draft"}

ASSUME PricingConstants ==
  /\ Promotions \subseteq Nat \ {0}
  /\ Forms \subseteq SUBSET Users /\ Choices \subseteq Status /\ Hidden \subseteq Users
  /\ MaxVersion \in [Promotions -> Nat] /\ MaxFaults \in Nat /\ MaxHarm \in Nat

VARIABLES
  status,     \* promotions.status
  members,    \* user_promotions: the rows that are active
  prices,     \* promotion_prices: the version of the rows of a promotion
  cache,      \* Redis keys promotion_price_<id>; 0 when there is none
  loaded,     \* CalculatePrice.promotionPrices
  calls,      \* what the running handlers hold
  faults,
  harmed      \* history: promotions written from an outdated read, filled into Redis
              \*   too late, or not deleted from it

base == <<status, members, prices>>
vars == <<base, cache, loaded, calls, faults, harmed>>

-----------------------------------------------------------------------------
Versions == UNION {0..MaxVersion[p] : p \in Promotions}
Tables == [promotion : Promotions, version : Versions \ {0}] \cup {List}

QuoteCall ==
  [pc : {"get", "find", "set", "store", "price", "quoted"}, promotion : Promotions \cup {0},
   table : Tables \cup {Torn},
   right : SUBSET Versions,    \* history: the prices of the promotion during the call
   crossed : BOOLEAN]          \* history: another call set the field, or the cache was
                               \*   about to be deleted
\* outdated: history: what the call read was written by another before it wrote
AppendCall == [pc : {"append"}, promotion : Promotions, asked : SUBSET Users,
               drop : SUBSET Users, add : SUBSET Users, outdated : BOOLEAN]
UpdateCall == [pc : {"save", "clear"}, promotion : Promotions, to : Status,
               turned : BOOLEAN, upload : BOOLEAN, outdated : BOOLEAN]

ASSUME IdleIsNoCall == Idle \notin QuoteCall \cup AppendCall \cup UpdateCall

TypeOK ==
  /\ status \in [Promotions -> Status]
  /\ members \subseteq Promotions \X Users
  /\ prices \in [Promotions -> Versions]
  /\ cache \in [Promotions -> Versions]
  /\ loaded \in Tables
  /\ calls \in [Calls -> QuoteCall \cup AppendCall \cup UpdateCall \cup {Idle}]
  /\ faults \in 0..MaxFaults
  /\ harmed \subseteq Promotions

-----------------------------------------------------------------------------
At(c, pc) == calls[c] # Idle /\ calls[c].pc = pc
Goto(c, pc) == calls' = [calls EXCEPT ![c].pc = pc]
End(c) == calls' = [calls EXCEPT ![c] = Idle]
Begins(c) == calls[c] = Idle /\ Cardinality(harmed) <= MaxHarm

Members(p) == {u \in Users : <<p, u>> \in members}
Running(U) == {m \in members : m[2] \in U /\ status[m[1]] = "Active"}
Taken(p, U) == {m[2] : m \in {n \in Running(U) : n[1] # p}}

\* The rows a decision about promotion p and the users U rests on.
Rows(p, U) == <<status[p], Members(p), Running(U \cup Members(p))>>
Wrote(c) == harmed' = IF calls[c].outdated THEN harmed \cup {calls[c].promotion} ELSE harmed

\* Mutant: a promotion without rows is taken for a table.
TableAsFound(p, version) == [promotion |-> p, version |-> version]

\* A promotion without rows gives the general prices.
Table(p, version) == IF version = 0 THEN List ELSE [promotion |-> p, version |-> version]

\* LoadPromotionPrices finds the first active promotion of a customer, or none (0).
PromotionsOf(u) == {m[1] : m \in Running({u})}
Found(u) == IF PromotionsOf(u) = {} THEN {0}
            ELSE {p \in PromotionsOf(u) : \A q \in PromotionsOf(u) : p <= q}

Asked(call) == IF call \in AppendCall THEN call.asked ELSE {}

\* The other calls see the rows change: cs are the calls as they are now.
Noted(cs) ==
  LET changed == {r \in Promotions \X SUBSET Users : Rows(r[1], r[2])' # Rows(r[1], r[2])} IN
  calls' = [c \in Calls |->
    IF cs[c] = Idle THEN Idle
    ELSE IF cs[c] \in QuoteCall
      THEN [cs[c] EXCEPT !.right = @ \cup {prices'[p] : p \in {cs[c].promotion} \ {0}}]
    ELSE IF cs[c].pc = "clear" THEN cs[c]
    ELSE [cs[c] EXCEPT !.outdated = @ \/ <<cs[c].promotion, Asked(cs[c])>> \in changed]]

-----------------------------------------------------------------------------
Init ==
  /\ status = [p \in Promotions |-> "Draft"]
  /\ members = {}
  /\ prices \in [Promotions -> Versions \cap {0, 1}]
  /\ cache = [p \in Promotions |-> 0]
  /\ loaded = List
  /\ calls = [c \in Calls |-> Idle]
  /\ faults = 0 /\ harmed = {}

-----------------------------------------------------------------------------
(* Staff. *)

\* Mutant: customers of other promotions are not looked for.
AppendAnyway(c, p, U, tester) ==
  /\ Begins(c) /\ U # {} /\ status[p] = "Active"
  /\ LET found == Members(p) \ (IF tester THEN {} ELSE Hidden) IN
     calls' = [calls EXCEPT ![c] =
       [pc |-> "append", promotion |-> p, asked |-> U,
        drop |-> found \ U, add |-> U \ found, outdated |-> FALSE]]
  /\ UNCHANGED <<base, cache, loaded, faults, harmed>>

\* AppendUserToPromotion: the form holds all customers the promotion shall have.  Those
\* to be added must have no other active promotion; hidden ones are not found, unless a
\* tester asks.
Append(c, p, U, tester) ==
  /\ Begins(c) /\ U # {} /\ status[p] = "Active"
  /\ LET found == Members(p) \ (IF tester THEN {} ELSE Hidden) IN
     /\ Taken(p, U \ found) = {}
     /\ calls' = [calls EXCEPT ![c] =
          [pc |-> "append", promotion |-> p, asked |-> U,
           drop |-> found \ U, add |-> U \ found, outdated |-> FALSE]]
  /\ UNCHANGED <<base, cache, loaded, faults, harmed>>

AppendUserToPromotion(c) ==
  /\ At(c, "append")
  /\ LET p == calls[c].promotion IN
     members' = (members \ ({p} \X calls[c].drop)) \cup ({p} \X calls[c].add)
  /\ UNCHANGED <<status, prices>>
  /\ Noted([calls EXCEPT ![c] = Idle])
  /\ Wrote(c)
  /\ UNCHANGED <<cache, loaded, faults>>

\* UpdatePromotion reads the promotion; prices are only taken while it is not active.
\* Its customers must have no other active promotion when it becomes active.
Update(c, p, to, upload) ==
  /\ Begins(c)
  /\ upload => status[p] # "Active" /\ prices[p] < MaxVersion[p]
  /\ to = "Active" /\ status[p] # "Active" => Taken(p, Members(p)) = {}
  /\ calls' = [calls EXCEPT ![c] =
       [pc |-> "save", promotion |-> p, to |-> to, turned |-> to # status[p],
        upload |-> upload, outdated |-> FALSE]]
  /\ UNCHANGED <<base, cache, loaded, faults, harmed>>

\* The whole row is saved as it was read, with the status of the form or its old one, and
\* the rows of the prices are replaced.
SavePromotion(c) ==
  /\ At(c, "save")
  /\ LET p == calls[c].promotion IN
     /\ calls[c].upload => prices[p] < MaxVersion[p]
     /\ status' = [status EXCEPT ![p] = calls[c].to]
     /\ prices' = IF calls[c].upload THEN [prices EXCEPT ![p] = @ + 1] ELSE prices
  /\ UNCHANGED members
  /\ Noted(IF calls[c].turned THEN [calls EXCEPT ![c].pc = "clear", ![c].outdated = FALSE]
           ELSE [calls EXCEPT ![c] = Idle])
  /\ Wrote(c)
  /\ UNCHANGED <<cache, loaded, faults>>

\* If the status changed, the prices in Redis are deleted.
ClearPrices(c) ==
  /\ At(c, "clear")
  /\ cache' = [cache EXCEPT ![calls[c].promotion] = 0]
  /\ End(c)
  /\ UNCHANGED <<base, loaded, faults, harmed>>

-----------------------------------------------------------------------------
(* LoadPromotionPrices, and Price3. *)

\* The promotion of the customer is looked up ...
Quote(c, u) ==
  /\ Begins(c)
  /\ \E p \in Found(u) :
       calls' = [calls EXCEPT ![c] =
         [pc |-> IF p = 0 THEN "store" ELSE "get", promotion |-> p, table |-> List,
          right |-> {prices[q] : q \in {p} \ {0}}, crossed |-> FALSE]]
  /\ UNCHANGED <<base, cache, loaded, faults, harmed>>

Clearing(p) == \E c \in Calls : At(c, "clear") /\ calls[c].promotion = p

\* ... its prices are taken from Redis ...
GetPrices(c) ==
  /\ At(c, "get")
  /\ LET p == calls[c].promotion IN
     calls' = [calls EXCEPT ![c].pc = IF cache[p] = 0 THEN "find" ELSE "store",
                            ![c].table = Table(p, cache[p]),
                            ![c].crossed = cache[p] # 0 /\ Clearing(p)]
  /\ UNCHANGED <<base, cache, loaded, faults, harmed>>

\* ... or from the database ...
FindPrices(c) ==
  /\ At(c, "find")
  /\ LET p == calls[c].promotion IN
     calls' = [calls EXCEPT ![c].pc = IF prices[p] = 0 THEN "store" ELSE "set",
                            ![c].table = Table(p, prices[p])]
  /\ UNCHANGED <<base, cache, loaded, faults, harmed>>

\* ... and then put into Redis, for ever ...
SetPrices(c) ==
  /\ At(c, "set")
  /\ LET p == calls[c].promotion
         version == calls[c].table.version
     IN /\ cache' = [cache EXCEPT ![p] = version]
        /\ harmed' = IF status[p] = "Active" /\ version = prices[p] THEN harmed
                     ELSE harmed \cup {p}
  /\ Goto(c, "store")
  /\ UNCHANGED <<base, loaded, faults>>

\* Mutant: without a promotion the field is left as it is.
StoreFound(c) ==
  /\ At(c, "store")
  /\ loaded' = IF calls[c].promotion = 0 THEN loaded ELSE calls[c].table
  /\ calls' = [d \in Calls |->
       IF d = c THEN [calls[c] EXCEPT !.pc = "price"]
       ELSE IF At(d, "price") /\ loaded' # loaded THEN [calls[d] EXCEPT !.crossed = TRUE]
       ELSE calls[d]]
  /\ UNCHANGED <<base, cache, faults, harmed>>

\* ... and into the field that all requests share.
StorePrices(c) ==
  /\ At(c, "store")
  /\ loaded' = calls[c].table
  /\ calls' = [d \in Calls |->
       IF d = c THEN [calls[c] EXCEPT !.pc = "price"]
       ELSE IF At(d, "price") /\ loaded' # loaded THEN [calls[d] EXCEPT !.crossed = TRUE]
       ELSE calls[d]]
  /\ UNCHANGED <<base, cache, faults, harmed>>

\* basePrice reads the field.  While another request writes it, without a lock, what is
\* read may be neither table.
BasePrice(c) ==
  /\ At(c, "price")
  /\ \/ calls' = [calls EXCEPT ![c].pc = "quoted", ![c].table = loaded]
     \/ /\ \E d \in Calls \ {c} : At(d, "store")
        /\ calls' = [calls EXCEPT ![c].pc = "quoted", ![c].table = Torn, ![c].crossed = TRUE]
  /\ UNCHANGED <<base, cache, loaded, faults, harmed>>

Answer(c) ==
  /\ At(c, "quoted")
  /\ End(c)
  /\ UNCHANGED <<base, cache, loaded, faults, harmed>>

-----------------------------------------------------------------------------
(* Faults. *)

\* Redis answers with an error: a quote ends, a promotion stays in Redis.
Fail(c) ==
  /\ At(c, "get") \/ At(c, "set") \/ At(c, "clear")
  /\ faults < MaxFaults /\ faults' = faults + 1
  /\ harmed' = IF At(c, "clear") THEN harmed \cup {calls[c].promotion} ELSE harmed
  /\ End(c)
  /\ UNCHANGED <<base, cache, loaded>>

\* The server restarts, with an empty field; Redis stays.
Restart ==
  /\ faults < MaxFaults /\ faults' = faults + 1
  /\ \E c \in Calls : At(c, "clear")
  /\ harmed' = harmed \cup {p \in Promotions : Clearing(p)}
  /\ calls' = [c \in Calls |-> Idle]
  /\ loaded' = List
  /\ UNCHANGED <<base, cache>>

StaffStep(c) ==
  \/ \E p \in Promotions, U \in Forms, tester \in BOOLEAN : Append(c, p, U, tester)
  \/ \E p \in Promotions, upload \in BOOLEAN :
       \E to \in Choices \cup {status[p]} : Update(c, p, to, upload)
  \/ AppendUserToPromotion(c) \/ SavePromotion(c) \/ ClearPrices(c)

QuoteStep(c) ==
  \/ \E u \in Users : Quote(c, u)
  \/ GetPrices(c) \/ FindPrices(c) \/ SetPrices(c) \/ StorePrices(c)
  \/ BasePrice(c) \/ Answer(c)

Next == Restart \/ \E c \in Calls : StaffStep(c) \/ QuoteStep(c) \/ Fail(c)

Spec == Init /\ [][Next]_vars

-----------------------------------------------------------------------------
(* Properties. *)

\* "Khách hàng %s đã được thêm vào promotion #%d": a customer is in one active promotion
\* at a time, whatever order promotions are filled, activated and ended in, unless staff
\* wrote from a read that was outdated.
OnePromotion ==
  \A u \in Users : \A p, q \in PromotionsOf(u) \ harmed : p = q

\* A price that is quoted is from the table of the promotion that was found, with prices
\* it had while the call ran, never of another customer or from prices replaced before,
\* unless requests crossed in
\* the shared field, or staff were about to delete the prices that were read.  Prices are
\* only replaced while a promotion is not active, and deleted from Redis when it becomes
\* active or ends: together that keeps the cache right without an expiry.
QuotedRight ==
  \A c \in Calls :
    At(c, "quoted") /\ ~calls[c].crossed /\ harmed = {}
      => \/ calls[c].promotion = 0 /\ calls[c].table = List
         \/ \E version \in calls[c].right : calls[c].table = Table(calls[c].promotion, version)
=============================================================================
