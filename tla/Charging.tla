------------------------------ MODULE Charging ------------------------------
(***************************************************************************)
(* How one customer's packages are labelled and charged.  Three handlers   *)
(* lead to the same transaction, CreateBillWithLabelPromotion:             *)
(*   process   the customer's Process, for a list of packages;             *)
(*   deliver   the partner API's Delivery, for one package;                *)
(*   cn        the staff's ProcessCNPackage, for one purchased package.    *)
(* A TikTok package (it brings its own label) is billed in the handler; a  *)
(* plain one goes through CreateLabelHandler, which reads it again and     *)
(* buys its label from a carrier.  The handlers keep each other out with   *)
(* two Redis keys and with the code of the package, all of them tested     *)
(* first and set later.  A price is 1; prices are the matter of Wallet.    *)
(***************************************************************************)
EXTENDS Integers, FiniteSets

CONSTANTS Packages,     \* numbers: lists of packages are ordered by id
          Worlds,       \* what the customer has: deposit, packages with a TikTok service
                        \* or label, packages of the China service; and the number of
                        \* crashes and errors of the stores that may happen (a bound)
          Requests,
          Kinds,        \* the handlers that are called
          DebtMax,      \* user_infos.debt_max_amount
          NoCode, Idle

ASSUME ChargingConstants ==
  /\ Packages \subseteq Nat /\ IsFiniteSet(Packages)
  /\ Worlds \subseteq [deposit : Nat, tiktok : SUBSET Packages, china : SUBSET Packages,
                        faults : Nat]
  /\ DebtMax \in Nat
  /\ Kinds \subseteq {"process", "deliver", "cn"}
  /\ NoCode \notin Requests

VARIABLES
  pkg,          \* packages: status, the row of package_codes, a tracking row
  codes,        \* package_codes.status, of the row a request made for a package
  balance,
  locked,       \* packages in a transaction that was never closed
  callLabel,    \* the Redis set package_call_label
  delivering,   \* the Redis keys package_deliver_processing_<id>
  req,          \* what the running requests hold
  faults,       \* crashes and errors that may still happen
  paid,         \* history: charges per package
  labels,       \* history: labels bought per package
  overlapped,   \* history: packages two requests were about to bill at once
  crowded       \* history: two requests ran at once

tables == <<pkg, codes, balance, locked>>
redis == <<callLabel, delivering>>
overlaps == <<overlapped, crowded>>
history == <<paid, labels>>
vars == <<tables, redis, req, faults, history, overlaps>>

-----------------------------------------------------------------------------
Status == {"Created", "CNPurchased", "PendingPickup"}
PackageRow == [status : Status, code : Requests \cup {NoCode}, tracked : BOOLEAN,
               cn : BOOLEAN, tiktok : BOOLEAN]
SeenRow == [status : Status, code : Requests \cup {NoCode}, tracked : BOOLEAN, temp : BOOLEAN]
Steps == {"guard", "lock", "funds", "mark", "label", "codes", "insert", "carrier", "bill"}
Request == [kind : Kinds, pc : Steps, phase : {"plain", "tiktok"},
            asked : SUBSET Packages,  \* the packages of the form
            left : SUBSET Packages,   \* those still to be handled
            now : SUBSET Packages,    \* those about to be billed
            failed : BOOLEAN,         \* the carrier refused one
            seen : UNION {[S -> SeenRow] : S \in SUBSET Packages},
            solvent : BOOLEAN]        \* what Delivery found when it read the balance

ASSUME IdleIsNoRequest == Idle \notin Request

TypeOK ==
  /\ pkg \in [Packages -> PackageRow]
  /\ codes \in [Packages \X Requests -> {"none", "temp", "enable"}]
  /\ balance \in Int
  /\ locked \subseteq Packages /\ callLabel \subseteq Packages /\ delivering \subseteq Packages
  /\ req \in [Requests -> Request \cup {Idle}]
  /\ faults \in Nat
  /\ paid \in [Packages -> Nat] /\ labels \in [Packages -> Nat]
  /\ overlapped \subseteq Packages
  /\ crowded \in BOOLEAN

-----------------------------------------------------------------------------
At(r, pc) == req[r] # Idle /\ req[r].pc = pc
AnyFunds(funds, n) == funds >= 0 - DebtMax   \* mutant: the price is not taken off
Enough(funds, n) == funds - n >= 0 - DebtMax
CN == {p \in Packages : pkg[p].cn}
Tiktok == {p \in Packages : pkg[p].tiktok}
Plain(r) == req[r].left \ Tiktok

\* Mutant: the status of the code where its id is meant.
SeenRaw(S) == [p \in S |->
                 [status |-> pkg[p].status, tracked |-> pkg[p].tracked, temp |-> FALSE,
                  code |-> IF pkg[p].code = NoCode THEN NoCode ELSE codes[<<p, pkg[p].code>>]]]

\* The rows as a request reads them, with the package code preloaded.
Seen(S) == [p \in S |->
              [status |-> pkg[p].status, code |-> pkg[p].code, tracked |-> pkg[p].tracked,
               temp |-> pkg[p].code # NoCode /\ codes[<<p, pkg[p].code>>] = "temp"]]

\* The packages a request has read as fit for billing and has not billed yet.
Holding(x) ==
  IF x = Idle THEN {}
  ELSE IF x.phase = "tiktok" THEN x.left
  ELSE {p \in x.left \cap Tiktok : x.seen[p].status # "PendingPickup"} \cup
       IF x.pc \in {"codes", "insert", "carrier", "bill"} THEN x.now ELSE {}

Becomes(r, x) ==
  /\ req' = [req EXCEPT ![r] = x]
  /\ overlapped' = overlapped \cup UNION {Holding(x) \cap Holding(req[s]) : s \in Requests \ {r}}
  /\ crowded' = (crowded \/ (x # Idle /\ \E s \in Requests \ {r} : req[s] # Idle))

Goto(r, pc) == Becomes(r, [req[r] EXCEPT !.pc = pc])

\* The request ends; Delivery's deferred call deletes its key, if it was set.
End(r) ==
  /\ Becomes(r, Idle)
  /\ delivering' = IF req[r].kind = "deliver" /\ req[r].pc # "guard"
                   THEN delivering \ req[r].asked ELSE delivering

NextTiktok(r, left) ==
  \/ left = {} /\ End(r)
  \/ \E p \in left :
       /\ \A q \in left : p >= q
       /\ Becomes(r, [req[r] EXCEPT !.pc = "codes", !.phase = "tiktok", !.left = left,
                                    !.now = {p}])
       /\ UNCHANGED delivering

\* Mutant: the deferred call is made on success only.
LabelDoneMarked(r, error) ==
  /\ callLabel' = IF error THEN callLabel ELSE callLabel \ Plain(r)
  /\ IF error THEN End(r)
     ELSE NextTiktok(r, req[r].left \cap Tiktok)

\* CreateLabelHandler returns, and its deferred call unmarks the packages.  An
\* error ends the request; otherwise the TikTok packages of the list follow.
LabelDone(r, error) ==
  /\ callLabel' = callLabel \ Plain(r)
  /\ IF error THEN End(r)
     ELSE NextTiktok(r, req[r].left \cap Tiktok)

-----------------------------------------------------------------------------
Init ==
  /\ \E w \in Worlds, status \in [Packages -> {"Created", "CNPurchased"}] :
       /\ \A p \in Packages \ w.china : status[p] = "Created"
       /\ pkg = [p \in Packages |-> [status |-> status[p], code |-> NoCode, tracked |-> FALSE,
                                     cn |-> p \in w.china, tiktok |-> p \in w.tiktok]]
       /\ balance = w.deposit /\ faults = w.faults
  /\ codes = [row \in Packages \X Requests |-> "none"]
  /\ locked = {}
  /\ callLabel = {} /\ delivering = {}
  /\ req = [r \in Requests |-> Idle]
  /\ paid = [p \in Packages |-> 0] /\ labels = [p \in Packages |-> 0]
  /\ overlapped = {} /\ crowded = FALSE

\* Mutant: Process takes packages of any status.
StartAll(r, kind, S) ==
  /\ req[r] = Idle
  /\ \/ kind = "process" /\ \A p \in S \cap CN : pkg[p].status = "PendingPickup"
     \/ kind = "deliver" /\ Cardinality(S) = 1
     \/ kind = "cn" /\ Cardinality(S) = 1 /\ S \subseteq CN
        /\ \A p \in S : pkg[p].status = "CNPurchased"
  /\ Becomes(r, [kind |-> kind, pc |-> "guard", phase |-> "plain", asked |-> S,
                 left |-> S, now |-> {}, failed |-> FALSE,
                 seen |-> Seen(S), solvent |-> kind = "deliver" => Enough(balance, 1)])
  /\ UNCHANGED <<tables, redis, faults, history>>

\* A handler reads the packages it is asked for.  Process passes over those it
\* cannot bill and refuses China packages; ProcessCNPackage wants a purchased
\* one; Delivery reads its package, and the balance, before anything else.
Start(r, kind, S) ==
  /\ req[r] = Idle
  /\ LET left == IF kind = "process" THEN {p \in S : pkg[p].status = "Created"} ELSE S
     IN /\ left # {}
        /\ \/ kind = "process" /\ \A p \in S \cap CN : pkg[p].status = "PendingPickup"
           \/ kind = "deliver" /\ Cardinality(S) = 1
           \/ kind = "cn" /\ Cardinality(S) = 1 /\ S \subseteq CN
              /\ \A p \in S : pkg[p].status = "CNPurchased"
        /\ Becomes(r, [kind |-> kind, pc |-> "guard", phase |-> "plain", asked |-> S,
                       left |-> left, now |-> {}, failed |-> FALSE,
                       seen |-> Seen(left), solvent |-> kind = "deliver" => Enough(balance, 1)])
  /\ UNCHANGED <<tables, redis, faults, history>>

\* The Redis key of the handler is tested ...
Guard(r) ==
  /\ At(r, "guard")
  /\ LET taken == IF req[r].kind = "deliver" THEN delivering ELSE callLabel IN
     \/ req[r].left \cap taken # {} /\ End(r)
     \/ /\ req[r].left \cap taken = {}
        /\ Goto(r, IF req[r].kind = "deliver" THEN "lock" ELSE "funds")
        /\ UNCHANGED delivering
  /\ UNCHANGED <<tables, callLabel, faults, history>>

\* ... and set.  Delivery ignores whether SetNX set the key or found it, and
\* checks the status it read before the key was tested.
Lock(r) ==
  /\ At(r, "lock")
  /\ LET p == CHOOSE q \in req[r].left : TRUE IN
     IF req[r].seen[p].status = "Created" /\ req[r].solvent
     THEN /\ delivering' = delivering \cup {p}
          /\ Becomes(r, [req[r] EXCEPT !.pc = IF p \in Tiktok THEN "codes" ELSE "label",
                                       !.phase = IF p \in Tiktok THEN "tiktok" ELSE "plain",
                                       !.now = IF p \in Tiktok THEN {p} ELSE {}])
     ELSE End(r)
  /\ UNCHANGED <<tables, callLabel, faults, history>>

\* A customer with too little money is refused.
Funds(r) ==
  /\ At(r, "funds")
  /\ \/ ~Enough(balance, Cardinality(req[r].asked)) /\ End(r)
     \/ /\ Enough(balance, Cardinality(req[r].asked))
        /\ \/ Plain(r) # {} /\ Goto(r, IF req[r].kind = "process" THEN "mark" ELSE "label")
              /\ UNCHANGED delivering
           \/ Plain(r) = {} /\ NextTiktok(r, req[r].left)
  /\ UNCHANGED <<tables, callLabel, faults, paid, labels>>

Mark(r) ==
  /\ At(r, "mark")
  /\ callLabel' = callLabel \cup Plain(r)
  /\ Goto(r, "label")
  /\ UNCHANGED <<tables, delivering, faults, history>>

\* CreateLabelHandler reads packages and balance again and goes on with those
\* it still finds created; with none, or with too little money and no debt
\* allowed, it returns without an error.
Label(r) ==
  /\ At(r, "label")
  /\ LET valid == {p \in Plain(r) : pkg[p].status = "Created"} IN
     \/ valid = {} /\ LabelDone(r, FALSE)
     \/ valid # {} /\ ~Enough(balance, Cardinality(valid)) /\ LabelDone(r, DebtMax > 0)
     \/ /\ valid # {} /\ Enough(balance, Cardinality(valid))
        /\ Becomes(r, [req[r] EXCEPT !.pc = "codes", !.now = valid, !.seen = Seen(req[r].left)])
        /\ UNCHANGED redis
  /\ UNCHANGED <<tables, faults, paid, labels>>

\* The list CreatePackageCodes is called with, and the codes it returns: the
\* one that was read if it is temporary, else a new one.
Listed(r) == IF req[r].phase = "plain" THEN Plain(r) ELSE req[r].now
New(r) == {p \in Listed(r) : ~req[r].seen[p].temp}
CodeOf(r, p) == IF p \in New(r) THEN r ELSE req[r].seen[p].code

\* A code that exists already is an error.  It is returned without closing the
\* transaction, whose updates of the packages before it in the list stay locked.
CheckCodes(r) ==
  /\ At(r, "codes")
  /\ LET dup == {p \in New(r) : \E s \in Requests : codes[<<p, s>>] # "none"} IN
     \/ /\ dup = {}
        /\ Goto(r, "insert")
        /\ UNCHANGED <<locked, redis>>
     \/ /\ dup # {}
        /\ locked' = locked \cup {p \in New(r) : \A q \in dup : p > q}
        /\ IF req[r].phase = "plain" THEN LabelDone(r, TRUE)
           ELSE End(r) /\ UNCHANGED callLabel
  /\ UNCHANGED <<pkg, codes, balance, faults, paid, labels>>

CreatePackageCodes(r) ==
  /\ At(r, "insert")
  /\ New(r) \cap locked = {}
  /\ codes' = [row \in Packages \X Requests |->
                 IF row[1] \in New(r) /\ row[2] = r THEN "temp" ELSE codes[row]]
  /\ pkg' = [p \in Packages |-> IF p \in New(r) THEN [pkg[p] EXCEPT !.code = r] ELSE pkg[p]]
  /\ Goto(r, IF req[r].phase = "plain" THEN "carrier" ELSE "bill")
  /\ UNCHANGED <<balance, locked, redis, faults, history>>

\* Mutant: a label is bought although there is a tracking row.
CarrierAgain(r) ==
  /\ At(r, "carrier")
  /\ \E ok \in SUBSET req[r].now :
       /\ labels' = [p \in Packages |-> IF p \in ok THEN labels[p] + 1 ELSE labels[p]]
       /\ \/ /\ ok # {}
             /\ Becomes(r, [req[r] EXCEPT !.pc = "bill", !.now = ok,
                                          !.failed = (ok # req[r].now)])
             /\ UNCHANGED redis
          \/ ok = {} /\ \E error \in BOOLEAN : LabelDone(r, error)
  /\ UNCHANGED <<tables, faults, paid>>

\* A label is bought for every package without a tracking row; some may fail,
\* and then the handler reports an error, or none for bookmarked packages.
Carrier(r) ==
  /\ At(r, "carrier")
  /\ \E ok \in SUBSET req[r].now :
       /\ {p \in req[r].now : req[r].seen[p].tracked} \subseteq ok
       /\ labels' = [p \in Packages |-> IF p \in ok /\ ~req[r].seen[p].tracked
                                        THEN labels[p] + 1 ELSE labels[p]]
       /\ \/ /\ ok # {}
             /\ Becomes(r, [req[r] EXCEPT !.pc = "bill", !.now = ok,
                                          !.failed = (ok # req[r].now)])
             /\ UNCHANGED redis
          \/ ok = {} /\ \E error \in BOOLEAN : LabelDone(r, error)
  /\ UNCHANGED <<tables, faults, paid>>

\* Mutant: the codes the packages were read with are enabled.
EnabledOld(r) == {<<p, req[r].seen[p].code>> : p \in {q \in req[r].now : req[r].seen[q].temp}}

\* The i-th valid package gets the i-th code of the list that was read, though
\* packages may have been left out of that list.
Valid(r) == {p \in Listed(r) : req[r].phase = "tiktok" \/ req[r].seen[p].status = "Created"}
Before(S, p) == Cardinality({q \in S : q > p})
Enabled(r) ==
  {<<q, CodeOf(r, q)>> : q \in {x \in Listed(r) :
     \E p \in req[r].now : Before(Listed(r), x) = Before(Valid(r), p)}}

\* CreateBillWithLabelPromotion: packages, codes, tracking and balance in one
\* transaction, that does not look at the status of the packages.
Bill(r) ==
  /\ At(r, "bill")
  /\ req[r].now \cap locked = {}
  /\ LET B == req[r].now IN
     /\ pkg' = [p \in Packages |->
                  IF p \in B THEN [pkg[p] EXCEPT !.status = "PendingPickup",
                                     !.tracked = @ \/ req[r].phase = "plain"]
                  ELSE pkg[p]]
     /\ codes' = [row \in Packages \X Requests |->
                    IF row \in Enabled(r) THEN "enable" ELSE codes[row]]
     /\ balance' = balance - Cardinality(B)
     /\ paid' = [p \in Packages |-> IF p \in B THEN paid[p] + 1 ELSE paid[p]]
     /\ IF req[r].phase = "plain"
        THEN \E error \in {FALSE, req[r].failed} : LabelDone(r, error)
        ELSE NextTiktok(r, req[r].left \ B) /\ UNCHANGED callLabel
  /\ UNCHANGED <<locked, faults, labels>>

-----------------------------------------------------------------------------
(* Faults. *)

\* A store answers with an error, or a row stays locked for too long.  An error
\* of the first read of CreateLabelHandler leaves the packages marked, a later
\* one does not; the billing saves the tracking rows before its transaction.
Fail(r) ==
  /\ req[r] # Idle /\ req[r].pc \notin {"mark", "carrier"}
  /\ \/ faults > 0 /\ faults' = faults - 1
     \/ /\ \/ req[r].pc = "insert" /\ New(r) \cap locked # {}
           \/ req[r].pc = "bill" /\ req[r].now \cap locked # {}
        /\ UNCHANGED faults
  /\ End(r)
  /\ \E removed \in {{}, Plain(r)} :
       /\ req[r].pc \in {"codes", "insert", "bill"} => removed = Plain(r)
       /\ req[r].pc \in {"guard", "lock", "funds"} => removed = {}
       /\ callLabel' = callLabel \ removed
  /\ \E saved \in {{}, req[r].now} :
       /\ saved # {} => req[r].pc = "bill" /\ req[r].phase = "plain"
       /\ pkg' = [p \in Packages |->
                    IF p \in saved THEN [pkg[p] EXCEPT !.tracked = TRUE] ELSE pkg[p]]
  /\ UNCHANGED <<codes, balance, locked, history>>

\* The server restarts: no deferred call runs, Redis keeps its keys.
Crash ==
  /\ faults > 0 /\ faults' = faults - 1
  /\ \E r \in Requests : req[r] # Idle
  /\ req' = [r \in Requests |-> Idle]
  /\ locked' = {}
  /\ UNCHANGED <<pkg, codes, balance, redis, history, overlaps>>

\* The key of Delivery lives for two minutes, finished or not.
Expire(p) ==
  /\ p \in delivering
  /\ delivering' = delivering \ {p}
  /\ UNCHANGED <<tables, callLabel, req, faults, history, overlaps>>

Step(r) ==
  \/ Guard(r) \/ Lock(r) \/ Funds(r) \/ Mark(r) \/ Label(r)
  \/ CheckCodes(r) \/ CreatePackageCodes(r) \/ Carrier(r) \/ Bill(r)

Next ==
  \/ \E r \in Requests, kind \in Kinds, S \in (SUBSET Packages) \ {{}} :
       Start(r, kind, S)
  \/ \E r \in Requests : Step(r) \/ Fail(r)
  \/ Crash
  \/ \E p \in Packages : Expire(p)

Spec == Init /\ [][Next]_vars

\* A request that is running goes on; so does the wait for a lock.
FairSpec == Spec /\ \A r \in Requests : WF_vars(Step(r)) /\ WF_vars(Fail(r) /\ UNCHANGED faults)

-----------------------------------------------------------------------------
(* Properties. *)

\* A package no two requests were about to bill at once is charged once, when it
\* becomes ready for pickup, whatever fails or crashes between two steps.  Its
\* code is enabled then, unless two requests wanted another package: left out of
\* a list, that one shifts the codes of those behind it.
ChargedOnce ==
  \A p \in Packages \ overlapped :
    /\ paid[p] = IF pkg[p].status = "PendingPickup" THEN 1 ELSE 0
    /\ paid[p] = 1 /\ overlapped = {} =>
         pkg[p].code # NoCode /\ codes[<<p, pkg[p].code>>] = "enable"

\* One request at a time charges no customer further than the debt allowed: the
\* check Process makes for the whole list and the one CreateLabelHandler makes
\* for the plain packages cover what is billed after them, retries included.
NoOverdraft == crowded \/ balance >= 0 - DebtMax

\* A package with a tracking row buys no second label, however often billing
\* it failed and was tried again.
LabelledOnce ==
  [][\A p \in Packages \ overlapped' : pkg[p].tracked => labels'[p] = labels[p]]_vars

\* No transaction is left open, with the packages in it locked, while requests
\* come one at a time, whatever fails between them.
NoneLocked == crowded \/ locked = {}

\* Without faults every mark is removed, so that no package stays "being
\* labelled" for ever.
MarksGo == \A p \in Packages : p \in callLabel ~> p \notin callLabel

\* "Order %s is processing, please try again", "Can't update order when status
\* different pending": two calls of Delivery do not charge a package twice.
DeliveredOnce == \A p \in Packages : paid[p] <= 1
=============================================================================
