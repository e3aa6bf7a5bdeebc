------------------------------- MODULE Wallet -------------------------------
(***************************************************************************)
(* The money tables and the database transactions that write them:         *)
(* users.balance, user_infos.debt_time, bills, packages.bill_id and        *)
(* packages.shipping_fee, extra_fees and transaction_logs.  Each action is *)
(* one transaction of pkg/sqlmanager; what a caller reads before it calls  *)
(* one, the price of the packages it bills, the rows of the packages it    *)
(* cancels and the VAT row it replaces, are steps of their own, because    *)
(* other requests run between the read and the write.  "PendingPickup" is  *)
(* any status of a billed package, "Cancelled" any a cancellation sets.    *)
(***************************************************************************)
EXTENDS Integers, Sequences, FiniteSetsExt

CONSTANTS Users, Packages, Owner, Requests, FeeIds,
          Days,         \* billing days: a bill is unique per user and day
          FirstDays,    \* the days a behaviour can begin on
          Prices,       \* shipping fees a price calculation can return
          FeeAmounts,   \* extra fee amounts, without sign
          Deposits,     \* amounts of top-ups, by day
          Cancellable,  \* bound: the packages that are cancelled, by day
          MaxMoney,     \* range of the decimal(11,2) columns
          MaxLog,       \* bound on the transaction log
          NoBill, NoRow, Idle

VARIABLES today, balance, debtTime, bills, pkgs, fees, log, req

tables == <<balance, debtTime, bills, pkgs, fees, log>>
vars == <<today, tables, req>>

-----------------------------------------------------------------------------
(* Rows. *)

Bills == Users \X Days
Money == (0 - MaxMoney)..MaxMoney
BillRow == [shipping : Money, extra : Money]
PackageRow == [status : {"Created", "PendingPickup", "Cancelled"},
               bill : Bills \cup {NoBill}, shippingFee : Prices]
FeeRow == [package : Packages, bill : Bills \cup {NoBill}, amount : Money,
           type : {"vat", "oversize", "fix", "refund"},
           status : {"Enable", "Disable"}]
LogRow == [user : Users, bill : Bills \cup {NoBill},
           type : {"Topup", "Pay", "Refund"},
           status : {"Success", "Failure"}, amount : 0..MaxMoney]

ASSUME WalletConstants ==
  /\ Owner \in [Packages -> Users]
  /\ IsFiniteSet(Packages) /\ IsFiniteSet(FeeIds)
  /\ Days \subseteq Nat /\ FirstDays \subseteq Days
  /\ Cancellable \in [Days -> SUBSET Packages] /\ Deposits \in [Days -> SUBSET Nat]
  /\ Prices \subseteq Nat /\ FeeAmounts \subseteq 0..MaxMoney
  /\ MaxMoney \in Nat
  /\ NoBill \notin Bills /\ NoRow \notin FeeRow \cup BillRow

\* What a request holds between its read and its write.
Quote == [kind : {"quote"}, packages : SUBSET Packages, price : Money]
Cancellation == [kind : {"cancel"}, seen : UNION {[S -> PackageRow] : S \in SUBSET Packages}]
VatChange == [kind : {"vat"}, fee : FeeIds, bill : Bills, old : Money, new : Money]

TypeOK ==
  /\ today \in Days
  /\ balance \in [Users -> Money]
  /\ debtTime \in [Users -> BOOLEAN]
  /\ bills \in [Bills -> BillRow \cup {NoRow}]
  /\ pkgs \in [Packages -> PackageRow]
  /\ fees \in [FeeIds -> FeeRow \cup {NoRow}]
  /\ log \in Seq(LogRow)
  /\ req \in [Requests -> Quote \cup Cancellation \cup VatChange \cup {Idle}]

-----------------------------------------------------------------------------
(* Reads. *)

Rows == {f \in FeeIds : fees[f] # NoRow}
EnabledFees(p) == {f \in Rows : fees[f].package = p /\ fees[f].status = "Enable"}
FeesOn(b) == {f \in Rows : fees[f].bill = b /\ fees[f].status # "Disable"}
SumOfFees(F) == MapThenSumSet(LAMBDA f : fees[f].amount, F)
PriceOf(p) == pkgs[p].shippingFee + SumOfFees(EnabledFees(p))

\* A request that began before midnight still holds yesterday's bill.
RecentBills(u) == {b \in Bills : b[1] = u /\ b[2] \in {today - 1, today} /\ bills[b] # NoRow}

Entry(u, b, type, amount) ==
  [user |-> u, bill |-> b, type |-> type, status |-> "Success", amount |-> amount]

-----------------------------------------------------------------------------
(* Updates shared by the transactions. *)

Posted(entry) ==
  /\ Len(log) < MaxLog /\ entry.amount <= MaxMoney
  /\ log' = Append(log, entry)

\* Mutant: the range of the column is not enforced.
ChargeUnbounded(u, amount) == balance' = [balance EXCEPT ![u] = @ - amount]

Charge(u, amount) ==
  /\ balance[u] - amount \in Money
  /\ balance' = [balance EXCEPT ![u] = @ - amount]

\* UPDATE user_infos SET debt_time = now WHERE debt_time IS NULL AND balance < 0
MarkDebt(u) == debtTime' = [debtTime EXCEPT ![u] = @ \/ balance'[u] < 0]

\* Mutant: any refund ends the debt.
ClearAnyDebt(u) == debtTime' = [debtTime EXCEPT ![u] = FALSE]

\* UPDATE user_infos SET debt_time = NULL WHERE balance >= 0
ClearDebt(u) == debtTime' = [debtTime EXCEPT ![u] = @ /\ balance'[u] < 0]

\* Mutant: a refund does not lower the bill.
AddCharge(b, amount) ==
  /\ bills[b].extra + amount \in Money
  /\ bills' = [bills EXCEPT ![b].extra = IF amount > 0 THEN @ + amount ELSE @]

AddExtra(b, amount) ==
  /\ bills[b].extra + amount \in Money
  /\ bills' = [bills EXCEPT ![b].extra = @ + amount]

-----------------------------------------------------------------------------
Init ==
  /\ today \in FirstDays
  /\ balance = [u \in Users |-> 0]
  /\ debtTime = [u \in Users |-> FALSE]
  /\ bills = [b \in Bills |-> NoRow]
  /\ pkgs \in [Packages -> [status : {"Created"}, bill : {NoBill}, shippingFee : Prices]]
  /\ fees = [f \in FeeIds |-> NoRow]
  /\ log = <<>>
  /\ req = [r \in Requests |-> Idle]

NextDay ==
  /\ today + 1 \in Days
  /\ today' = today + 1
  /\ UNCHANGED <<tables, req>>

\* The bill of the day, created on first use; its code is unique, so a second
\* creation of the same bill fails and the row stays as it is.
GetOrCreateNowBill(u) ==
  /\ bills[<<u, today>>] = NoRow
  /\ bills' = [bills EXCEPT ![<<u, today>>] = [shipping |-> 0, extra |-> 0]]
  /\ UNCHANGED <<today, balance, debtTime, pkgs, fees, log, req>>

\* The fees a package is created with carry no bill and move no money.
AddFee(p, f, type, amount) ==
  /\ pkgs[p].status = "Created"
  /\ fees[f] = NoRow
  /\ fees' = [fees EXCEPT ![f] = [package |-> p, bill |-> NoBill, amount |-> amount,
                                  type |-> type, status |-> "Enable"]]
  /\ UNCHANGED <<today, balance, debtTime, bills, pkgs, log, req>>

\* An edit of an unbilled package reprices it and replaces its oversize fee.
SaveUpdatePackage(p, price, f, amount) ==
  /\ pkgs[p].status = "Created"
  /\ fees[f] = NoRow
  /\ pkgs' = [pkgs EXCEPT ![p].shippingFee = price]
  /\ fees' = [g \in FeeIds |->
       IF g = f THEN [package |-> p, bill |-> NoBill, amount |-> amount,
                      type |-> "oversize", status |-> "Enable"]
       ELSE IF g \in Rows /\ fees[g].package = p /\ fees[g].type = "oversize"
            THEN [fees[g] EXCEPT !.status = "Disable"] ELSE fees[g]]
  /\ UNCHANGED <<today, balance, debtTime, bills, log, req>>

\* A handler reads the packages it is going to bill and adds up their price.
ReadPrice(r, u, S) ==
  /\ req[r] = Idle
  /\ \A p \in S : Owner[p] = u /\ pkgs[p].status = "Created"
  /\ \E price \in Money :
       /\ price = MapThenSumSet(PriceOf, S)
       /\ req' = [req EXCEPT ![r] = [kind |-> "quote", packages |-> S, price |-> price]]
  /\ UNCHANGED <<today, tables>>

\* The packages and their fees move to the bill, the bill's totals are summed
\* again from the rows, and the customer pays the price that was read before.
CreateBillWithLabelPromotion(r, u, b) ==
  /\ req[r] # Idle /\ req[r].kind = "quote"
  /\ b \in RecentBills(u)
  /\ LET S == req[r].packages
         moved == [p \in Packages |->
                     IF p \in S THEN [pkgs[p] EXCEPT !.status = "PendingPickup", !.bill = b]
                                ELSE pkgs[p]]
         shipped == {p \in Packages : moved[p].bill = b}
         counted == {f \in Rows : /\ fees[f].status # "Disable"
                                  /\ fees[f].package \in S \/ fees[f].bill = b}
     IN /\ \A p \in S : Owner[p] = u
        /\ pkgs' = moved
        /\ fees' = [f \in FeeIds |-> IF f \in Rows /\ fees[f].package \in S
                                     THEN [fees[f] EXCEPT !.bill = b] ELSE fees[f]]
        /\ \E ship \in Money, extra \in Money :
             /\ ship = MapThenSumSet(LAMBDA p : pkgs[p].shippingFee, shipped)
             /\ extra = SumOfFees(counted)
             /\ bills' = [bills EXCEPT ![b] = [shipping |-> ship, extra |-> extra]]
  /\ req[r].price >= 0
  /\ Charge(u, req[r].price)
  /\ MarkDebt(u)
  /\ Posted(Entry(u, b, "Pay", req[r].price))
  /\ req' = [req EXCEPT ![r] = Idle]
  /\ UNCHANGED today

\* A cancellation reads its packages, billed or not, of which some are not cancelled ...
ReadPackages(r, S) ==
  /\ req[r] = Idle
  /\ \E p \in S : pkgs[p].status # "Cancelled"
  /\ req' = [req EXCEPT ![r] = [kind |-> "cancel", seen |-> [p \in S |-> pkgs[p]]]]
  /\ UNCHANGED <<today, tables>>

\* Mutant: a cancelled package leaves its bill.
CancelledUnbilled(row) == [row EXCEPT !.status = "Cancelled", !.bill = NoBill]

CancelledRow(row) == [row EXCEPT !.status = "Cancelled"]

\* ... and writes back the rows as it read them, with the new status.
CancelPackages(r) ==
  /\ req[r] # Idle /\ req[r].kind = "cancel"
  /\ LET seen == req[r].seen IN
     pkgs' = [p \in Packages |-> IF p \in DOMAIN seen THEN CancelledRow(seen[p]) ELSE pkgs[p]]
  /\ req' = [req EXCEPT ![r] = Idle]
  /\ UNCHANGED <<today, balance, debtTime, bills, fees, log>>

\* An extra fee (amount > 0) or a refund (amount <= 0).  Staff charge any package
\* that is not new; PackageRefund.Handle refunds a cancelled one, which nobody need
\* have billed: the fee is on a bill then, and the package is not.
CreateExtraFee(p, b, f, amount, type) ==
  LET u == Owner[p] IN
  /\ pkgs[p].status # "Created"
  /\ fees[f] = NoRow
  /\ b \in RecentBills(u)
  /\ fees' = [fees EXCEPT ![f] = [package |-> p, bill |-> b, amount |-> amount,
                                  type |-> type, status |-> "Enable"]]
  /\ AddExtra(b, amount)
  /\ Charge(u, amount)
  /\ \/ amount > 0 /\ MarkDebt(u) /\ Posted(Entry(u, b, "Pay", amount))
     \/ amount < 0 /\ ClearDebt(u) /\ Posted(Entry(u, b, "Refund", -amount))
     \/ amount = 0 /\ UNCHANGED debtTime /\ Posted(Entry(u, b, "Refund", 0))
  /\ UNCHANGED <<today, pkgs, req>>

\* The refund scheduler pays one package_refunds row.
PackageRefund(p, b, f, amount) ==
  LET u == Owner[p] IN
  /\ fees[f] = NoRow
  /\ b \in RecentBills(u)
  /\ pkgs[p].status # "Created"
  /\ fees' = [fees EXCEPT ![f] = [package |-> p, bill |-> b, amount |-> -amount,
                                  type |-> "refund", status |-> "Enable"]]
  /\ AddExtra(b, -amount)
  /\ Charge(u, -amount)
  /\ ClearDebt(u)
  /\ Posted(Entry(u, b, "Refund", amount))
  /\ UNCHANGED <<today, pkgs, req>>

\* UpdateVatAfterPretransit reads the VAT row without a lock ...
ReadVat(r, f, b, new) ==
  /\ req[r] = Idle
  /\ f \in Rows /\ fees[f].type = "vat" /\ fees[f].status = "Enable"
  /\ pkgs[fees[f].package].status # "Created"
  /\ b \in RecentBills(Owner[fees[f].package])
  /\ new # fees[f].amount
  /\ req' = [req EXCEPT ![r] = [kind |-> "vat", fee |-> f, bill |-> b,
                                old |-> fees[f].amount, new |-> new]]
  /\ UNCHANGED <<today, tables>>

\* ... and posts the difference to the bill and the balance; debt_time is not
\* touched.
UpdateVatAfterPretransit(r) ==
  /\ req[r] # Idle /\ req[r].kind = "vat"
  /\ LET v == req[r]
         u == Owner[fees[v.fee].package]
         diff == v.new - v.old
     IN /\ fees' = [fees EXCEPT ![v.fee].amount = v.new]
        /\ AddExtra(v.bill, diff)
        /\ Charge(u, diff)
        /\ \/ diff > 0 /\ Posted(Entry(u, v.bill, "Pay", diff))
           \/ diff < 0 /\ Posted(Entry(u, v.bill, "Refund", -diff))
  /\ req' = [req EXCEPT ![r] = Idle]
  /\ UNCHANGED <<today, debtTime, pkgs>>

\* Mutant: a refused top-up is credited too.
CreditAnyTransaction(u, amount, status) ==
  /\ Posted([user |-> u, bill |-> NoBill, type |-> "Topup", status |-> status,
             amount |-> amount])
  /\ Charge(u, -amount) /\ ClearDebt(u)
  /\ UNCHANGED <<today, bills, pkgs, fees, req>>

\* An administrator's decision on a top-up.
SaveTransaction(u, amount, status) ==
  /\ Posted([user |-> u, bill |-> NoBill, type |-> "Topup", status |-> status,
             amount |-> amount])
  /\ \/ status = "Success" /\ Charge(u, -amount) /\ ClearDebt(u)
     \/ status = "Failure" /\ UNCHANGED <<balance, debtTime>>
  /\ UNCHANGED <<today, bills, pkgs, fees, req>>

Next ==
  \/ NextDay
  \/ \E u \in Users : GetOrCreateNowBill(u)
  \/ \E p \in Packages, f \in FeeIds, type \in {"vat", "oversize"}, a \in FeeAmounts :
       AddFee(p, f, type, a)
  \/ \E p \in Packages, price \in Prices, f \in FeeIds, a \in FeeAmounts :
       SaveUpdatePackage(p, price, f, a)
  \/ \E r \in Requests, u \in Users, S \in (SUBSET Packages) \ {{}} : ReadPrice(r, u, S)
  \/ \E r \in Requests, u \in Users, b \in Bills : CreateBillWithLabelPromotion(r, u, b)
  \/ \E r \in Requests, S \in (SUBSET Cancellable[today]) \ {{}} : ReadPackages(r, S)
  \/ \E r \in Requests : CancelPackages(r)
  \/ \E p \in Packages, b \in Bills, f \in FeeIds, a \in FeeAmounts :
       \/ CreateExtraFee(p, b, f, a, "fix")
       \/ CreateExtraFee(p, b, f, -a, "refund")
       \/ PackageRefund(p, b, f, a)
  \/ \E r \in Requests, f \in FeeIds, b \in Bills, a \in FeeAmounts : ReadVat(r, f, b, a)
  \/ \E r \in Requests : UpdateVatAfterPretransit(r)
  \/ \E u \in Users, a \in Deposits[today], s \in {"Success", "Failure"} : SaveTransaction(u, a, s)

Spec == Init /\ [][Next]_vars
=============================================================================
