---------------------------- MODULE WalletProofs ----------------------------
(***************************************************************************)
(* Theorems about the wallet, for any number of users, packages, requests  *)
(* and days: the tables keep their types, every step is a step of the      *)
(* ledger, debt_time follows the sign of the balance, the totals of a bill *)
(* are the sums of the rows on it and of the payments in the log, and a    *)
(* balance is the sum of the rows of its user in the log.                  *)
(***************************************************************************)
EXTENDS WalletAudit, FiniteSetTheorems, TLAPS

\* The rows a waiting VAT change refers to are not removed while it waits.
HeldRows ==
  \A r \in Requests : (req[r] # Idle /\ req[r].kind = "vat") =>
    /\ fees[req[r].fee] # NoRow
    /\ bills[req[r].bill] # NoRow

TInv == TypeOK /\ HeldRows

\* What customers pay in and what is cancelled today is within its bounds.
LEMMA TodaysBounds ==
  ASSUME TypeOK
  PROVE  Deposits[today] \subseteq Nat /\ Cancellable[today] \subseteq Packages
BY WalletConstants DEF TypeOK

-----------------------------------------------------------------------------
(* The updates the transactions share. *)

\* A charge keeps every balance in the range of its column.
LEMMA ChargeType ==
  ASSUME TypeOK, NEW u \in Users, NEW a \in Int, Charge(u, a)
  PROVE  balance' \in [Users -> Money]
BY WalletConstants DEF Charge, TypeOK, Money

\* An amount added to a bill keeps the rows and their types.
LEMMA AddExtraType ==
  ASSUME TypeOK, NEW b \in Bills, bills[b] # NoRow, NEW a \in Int, AddExtra(b, a)
  PROVE  /\ bills' \in [Bills -> BillRow \cup {NoRow}]
         /\ \A c \in Bills : bills[c] # NoRow => bills'[c] # NoRow
<1>1. bills[b] \in BillRow
  BY DEF TypeOK
<1>2. [bills[b] EXCEPT !.extra = @ + a] \in BillRow
  BY <1>1 DEF AddExtra, BillRow
<1>3. bills' = [bills EXCEPT ![b] = [bills[b] EXCEPT !.extra = @ + a]]
  BY DEF AddExtra, TypeOK
<1>4. QED
  BY <1>2, <1>3, WalletConstants DEF TypeOK

\* A logged row keeps the type of the log.
LEMMA PostedType ==
  ASSUME TypeOK, NEW u \in Users, NEW b \in Bills \cup {NoBill},
         NEW type \in {"Topup", "Pay", "Refund"}, NEW a \in Nat,
         Posted(Entry(u, b, type, a))
  PROVE  /\ log' \in Seq(LogRow)
         /\ Entry(u, b, type, a) \in LogRow
<1>1. a <= MaxMoney
  BY DEF Posted, Entry
<1>2. Entry(u, b, type, a) \in LogRow
  BY <1>1, WalletConstants DEF Entry, LogRow
<1>3. QED
  BY <1>2 DEF Posted, TypeOK

\* The two conditional updates of debt_time leave a flag for every user.
LEMMA DebtType ==
  ASSUME TypeOK, NEW u \in Users, MarkDebt(u) \/ ClearDebt(u) \/ UNCHANGED debtTime
  PROVE  debtTime' \in [Users -> BOOLEAN]
<1>1. CASE MarkDebt(u)
  BY <1>1 DEF MarkDebt, TypeOK
<1>2. CASE ClearDebt(u)
  BY <1>2 DEF ClearDebt, TypeOK
<1>3. QED
  BY <1>1, <1>2 DEF TypeOK

\* A fee row added to the table keeps its type and every other row.
LEMMA NewFeeType ==
  ASSUME TypeOK, NEW f \in FeeIds, fees[f] = NoRow, NEW row \in FeeRow,
         fees' = [fees EXCEPT ![f] = row]
  PROVE  /\ fees' \in [FeeIds -> FeeRow \cup {NoRow}]
         /\ \A g \in FeeIds : fees[g] # NoRow => fees'[g] # NoRow
BY WalletConstants DEF TypeOK

\* A table that keeps its rows keeps the rows the waiting requests refer to.
LEMMA HeldRowsKept ==
  ASSUME TypeOK, HeldRows, UNCHANGED req,
         \A f \in FeeIds : fees[f] # NoRow => fees'[f] # NoRow,
         \A b \in Bills : bills[b] # NoRow => bills'[b] # NoRow
  PROVE  HeldRows'
<1> SUFFICES ASSUME NEW r \in Requests, req[r] # Idle, req[r].kind = "vat"
             PROVE  fees'[req[r].fee] # NoRow /\ bills'[req[r].bill] # NoRow
  BY DEF HeldRows
<1>1. req[r] \in VatChange
  BY DEF TypeOK, Quote, Cancellation
<1>2. req[r].fee \in FeeIds /\ req[r].bill \in Bills
  BY <1>1 DEF VatChange
<1>3. QED
  BY <1>2 DEF HeldRows

-----------------------------------------------------------------------------
(* The transactions keep the types. *)

\* The creation of a bill.
LEMMA GetOrCreateNowBillType ==
  ASSUME TInv, NEW u \in Users, GetOrCreateNowBill(u)
  PROVE  TInv'
<1>1. <<u, today>> \in Bills /\ [shipping |-> 0, extra |-> 0] \in BillRow
  BY WalletConstants DEF TInv, TypeOK, Bills, BillRow, Money
<1>2. bills' \in [Bills -> BillRow \cup {NoRow}]
  BY <1>1 DEF GetOrCreateNowBill, TInv, TypeOK
<1>3. \A b \in Bills : bills[b] # NoRow => bills'[b] # NoRow
  BY <1>1, WalletConstants DEF GetOrCreateNowBill, TInv, TypeOK
<1>4. HeldRows'
  BY <1>3, HeldRowsKept DEF GetOrCreateNowBill, TInv
<1>5. TypeOK'
  BY <1>2 DEF GetOrCreateNowBill, TInv, TypeOK
<1>6. QED
  BY <1>4, <1>5 DEF TInv

\* A fee of a package that is not billed yet.
LEMMA AddFeeType ==
  ASSUME TInv, NEW p \in Packages, NEW f \in FeeIds, NEW type \in {"vat", "oversize"},
         NEW a \in FeeAmounts, AddFee(p, f, type, a)
  PROVE  TInv'
<1> DEFINE row == [package |-> p, bill |-> NoBill, amount |-> a,
                   type |-> type, status |-> "Enable"]
<1>1. a \in Money
  BY WalletConstants DEF Money
<1>2. row \in FeeRow
  BY <1>1 DEF FeeRow
<1>3. /\ fees' \in [FeeIds -> FeeRow \cup {NoRow}]
      /\ \A g \in FeeIds : fees[g] # NoRow => fees'[g] # NoRow
  <2>1. fees[f] = NoRow /\ fees' = [fees EXCEPT ![f] = row] /\ TypeOK
    BY DEF AddFee, TInv
  <2>2. QED
    BY <1>2, <2>1, NewFeeType
<1>4. HeldRows'
  BY <1>3, HeldRowsKept DEF AddFee, TInv
<1>5. TypeOK'
  BY <1>3 DEF AddFee, TInv, TypeOK
<1>6. QED
  BY <1>4, <1>5 DEF TInv

\* The edit of a package that is not billed yet.
LEMMA SaveUpdatePackageType ==
  ASSUME TInv, NEW p \in Packages, NEW price \in Prices, NEW f \in FeeIds,
         NEW a \in FeeAmounts, SaveUpdatePackage(p, price, f, a)
  PROVE  TInv'
<1> USE DEF TInv
<1>1. pkgs' \in [Packages -> PackageRow]
  <2>1. [pkgs[p] EXCEPT !.shippingFee = price] \in PackageRow
    BY DEF TypeOK, PackageRow
  <2>2. QED
    BY <2>1 DEF SaveUpdatePackage, TypeOK
<1>2. \A g \in FeeIds : /\ fees'[g] \in FeeRow \cup {NoRow}
                        /\ fees[g] # NoRow => fees'[g] # NoRow
  <2> TAKE g \in FeeIds
  <2>1. CASE g = f
    <3>1. [package |-> p, bill |-> NoBill, amount |-> a,
           type |-> "oversize", status |-> "Enable"] \in FeeRow
      BY WalletConstants DEF FeeRow, Money
    <3>2. fees[g] = NoRow
      BY <2>1 DEF SaveUpdatePackage
    <3>3. QED
      BY <2>1, <3>1, <3>2 DEF SaveUpdatePackage
  <2>2. CASE g # f /\ g \in Rows /\ fees[g].package = p /\ fees[g].type = "oversize"
    <3>1. fees[g] \in FeeRow
      BY <2>2 DEF Rows, TypeOK
    <3>2. [fees[g] EXCEPT !.status = "Disable"] \in FeeRow
      BY <3>1 DEF FeeRow
    <3>3. fees'[g] = [fees[g] EXCEPT !.status = "Disable"]
      BY <2>2 DEF SaveUpdatePackage
    <3>4. QED
      BY <3>2, <3>3, WalletConstants
  <2>3. CASE g # f /\ ~(g \in Rows /\ fees[g].package = p /\ fees[g].type = "oversize")
    BY <2>3 DEF SaveUpdatePackage, TypeOK
  <2>4. QED
    BY <2>1, <2>2, <2>3
<1>3. fees' \in [FeeIds -> FeeRow \cup {NoRow}]
  BY <1>2 DEF SaveUpdatePackage
<1>4. HeldRows'
  BY <1>2, HeldRowsKept DEF SaveUpdatePackage
<1>5. QED
  BY <1>1, <1>3, <1>4 DEF SaveUpdatePackage, TypeOK

\* The read of a price.
LEMMA ReadPriceType ==
  ASSUME TInv, NEW r \in Requests, NEW u \in Users,
         NEW S \in SUBSET Packages, ReadPrice(r, u, S)
  PROVE  TInv'
<1> USE DEF TInv
<1>1. PICK price \in Money :
        req' = [req EXCEPT ![r] = [kind |-> "quote", packages |-> S, price |-> price]]
  BY DEF ReadPrice
<1>2. [kind |-> "quote", packages |-> S, price |-> price] \in Quote
  BY DEF Quote
<1>3. TypeOK'
  BY <1>1, <1>2 DEF ReadPrice, TypeOK, tables
<1>4. HeldRows'
  <2> SUFFICES ASSUME NEW s \in Requests, req'[s] # Idle, req'[s].kind = "vat"
               PROVE  fees'[req'[s].fee] # NoRow /\ bills'[req'[s].bill] # NoRow
    BY DEF HeldRows
  <2>1. s # r /\ req'[s] = req[s]
    BY <1>1 DEF TypeOK
  <2>2. QED
    BY <2>1 DEF HeldRows, ReadPrice, tables
<1>5. QED
  BY <1>3, <1>4

\* The billing of the packages of a request.
LEMMA CreateBillType ==
  ASSUME TInv, NEW r \in Requests, NEW u \in Users, NEW b \in Bills,
         CreateBillWithLabelPromotion(r, u, b)
  PROVE  TInv'
<1> USE DEF TInv
<1> DEFINE S == req[r].packages
           price == req[r].price
<1>0. /\ req[r] # Idle /\ req[r].kind = "quote" /\ price >= 0
      /\ Charge(u, price) /\ MarkDebt(u) /\ Posted(Entry(u, b, "Pay", price))
  BY DEF CreateBillWithLabelPromotion
<1>1. req[r] \in Quote /\ S \in SUBSET Packages /\ price \in Nat
  <2>1. req[r] \in Quote
    BY <1>0 DEF TypeOK, VatChange, Cancellation
  <2>2. QED
    BY <1>0, <2>1, WalletConstants DEF Quote, Money
<1>2. pkgs' \in [Packages -> PackageRow]
  <2>1. \A p \in Packages : pkgs'[p] \in PackageRow
    <3> TAKE p \in Packages
    <3>1. [pkgs[p] EXCEPT !.status = "PendingPickup", !.bill = b] \in PackageRow
      BY DEF TypeOK, PackageRow
    <3>2. pkgs'[p] = IF p \in S THEN [pkgs[p] EXCEPT !.status = "PendingPickup", !.bill = b]
                     ELSE pkgs[p]
      BY DEF CreateBillWithLabelPromotion
    <3>3. QED
      BY <3>1, <3>2 DEF TypeOK
  <2>2. pkgs' = [p \in Packages |-> pkgs'[p]]
    BY DEF CreateBillWithLabelPromotion
  <2>3. QED
    BY <2>1, <2>2
<1>3. \A f \in FeeIds : /\ fees'[f] \in FeeRow \cup {NoRow}
                        /\ fees[f] # NoRow => fees'[f] # NoRow
  <2> TAKE f \in FeeIds
  <2>1. fees'[f] = IF f \in Rows /\ fees[f].package \in S
                   THEN [fees[f] EXCEPT !.bill = b] ELSE fees[f]
    BY DEF CreateBillWithLabelPromotion
  <2>2. f \in Rows => [fees[f] EXCEPT !.bill = b] \in FeeRow
    BY DEF Rows, TypeOK, FeeRow
  <2>3. QED
    BY <2>1, <2>2, WalletConstants DEF TypeOK
<1>4. fees' \in [FeeIds -> FeeRow \cup {NoRow}]
  BY <1>3 DEF CreateBillWithLabelPromotion
<1>5. PICK ship \in Money, extra \in Money :
        bills' = [bills EXCEPT ![b] = [shipping |-> ship, extra |-> extra]]
  BY DEF CreateBillWithLabelPromotion
<1>6. [shipping |-> ship, extra |-> extra] \in BillRow
  BY DEF BillRow
<1>7. /\ bills' \in [Bills -> BillRow \cup {NoRow}]
      /\ \A c \in Bills : bills[c] # NoRow => bills'[c] # NoRow
  BY <1>5, <1>6, WalletConstants DEF TypeOK
<1>8. /\ balance' \in [Users -> Money]
      /\ debtTime' \in [Users -> BOOLEAN]
      /\ log' \in Seq(LogRow)
  <2>1. balance' \in [Users -> Money]
    BY <1>0, <1>1, ChargeType
  <2>2. debtTime' \in [Users -> BOOLEAN]
    BY <1>0, DebtType
  <2>3. log' \in Seq(LogRow)
    BY <1>0, <1>1, PostedType
  <2>4. QED
    BY <2>1, <2>2, <2>3
<1>9. req' = [req EXCEPT ![r] = Idle]
  BY DEF CreateBillWithLabelPromotion
<1>10. HeldRows'
  <2> SUFFICES ASSUME NEW s \in Requests, req'[s] # Idle, req'[s].kind = "vat"
               PROVE  fees'[req'[s].fee] # NoRow /\ bills'[req'[s].bill] # NoRow
    BY DEF HeldRows
  <2>1. req'[s] = req[s]
    BY <1>9 DEF TypeOK
  <2>2. req[s].fee \in FeeIds /\ req[s].bill \in Bills
    BY <2>1 DEF TypeOK, Quote, Cancellation, VatChange
  <2>3. QED
    BY <1>3, <1>7, <2>1, <2>2 DEF HeldRows
<1>11. TypeOK'
  BY <1>2, <1>4, <1>7, <1>8, <1>9 DEF CreateBillWithLabelPromotion, TypeOK
<1>12. QED
  BY <1>10, <1>11

\* The read of the packages to cancel.
LEMMA ReadPackagesType ==
  ASSUME TInv, NEW r \in Requests, NEW S \in SUBSET Packages, ReadPackages(r, S)
  PROVE  TInv'
<1> USE DEF TInv
<1> DEFINE seen == [p \in S |-> pkgs[p]]
           held == [kind |-> "cancel", seen |-> seen]
<1>1. req' = [req EXCEPT ![r] = held] /\ UNCHANGED <<today, tables>>
  BY DEF ReadPackages
<1>2. held \in Cancellation
  <2>1. seen \in [S -> PackageRow]
    BY DEF TypeOK
  <2> HIDE DEF seen
  <2> QED BY <2>1 DEF Cancellation
<1>3. held.kind # "vat"
  OBVIOUS
<1> HIDE DEF held
<1>4. TypeOK'
  BY <1>1, <1>2 DEF TypeOK, tables
<1>5. HeldRows'
  <2> SUFFICES ASSUME NEW s \in Requests, req'[s] # Idle, req'[s].kind = "vat"
               PROVE  fees[req'[s].fee] # NoRow /\ bills[req'[s].bill] # NoRow
    BY <1>1 DEF HeldRows, tables
  <2>1. s # r /\ req'[s] = req[s]
    BY <1>1, <1>3 DEF TypeOK
  <2> QED BY <2>1 DEF HeldRows
<1> QED BY <1>4, <1>5

\* What a cancellation holds: rows of packages, as they were when it read them.
LEMMA HeldCancel ==
  ASSUME TInv, NEW r \in Requests, req[r] # Idle, req[r].kind = "cancel"
  PROVE  /\ DOMAIN req[r].seen \subseteq Packages
         /\ \A p \in DOMAIN req[r].seen : req[r].seen[p] \in PackageRow
<1>1. req[r] \in Cancellation
  BY DEF TInv, TypeOK, Quote, VatChange
<1>2. PICK S \in SUBSET Packages : req[r].seen \in [S -> PackageRow]
  BY <1>1 DEF Cancellation
<1> QED BY <1>2

\* What a cancellation does to a package.
LEMMA Cancelled ==
  ASSUME TInv, NEW r \in Requests, CancelPackages(r), NEW p \in Packages
  PROVE  /\ pkgs'[p] \in PackageRow
         /\ p \in DOMAIN req[r].seen =>
              /\ pkgs'[p].status = "Cancelled" /\ pkgs'[p].bill = req[r].seen[p].bill
              /\ pkgs'[p].shippingFee = req[r].seen[p].shippingFee
         /\ p \notin DOMAIN req[r].seen => pkgs'[p] = pkgs[p]
<1> DEFINE seen == req[r].seen
<1>1. pkgs'[p] = IF p \in DOMAIN seen THEN [seen[p] EXCEPT !.status = "Cancelled"] ELSE pkgs[p]
  BY DEF CancelPackages, CancelledRow
<1>2. p \in DOMAIN seen => seen[p] \in PackageRow
  BY HeldCancel DEF CancelPackages
<1>3. pkgs[p] \in PackageRow
  BY DEF TInv, TypeOK
<1>4. \A x \in PackageRow : LET y == [x EXCEPT !.status = "Cancelled"] IN
        /\ y \in PackageRow /\ y.status = "Cancelled"
        /\ y.bill = x.bill /\ y.shippingFee = x.shippingFee
  BY DEF PackageRow
<1> HIDE DEF seen
<1>5. /\ pkgs'[p] \in PackageRow
      /\ p \in DOMAIN seen =>
           /\ pkgs'[p].status = "Cancelled" /\ pkgs'[p].bill = seen[p].bill
           /\ pkgs'[p].shippingFee = seen[p].shippingFee
      /\ p \notin DOMAIN seen => pkgs'[p] = pkgs[p]
  BY <1>1, <1>2, <1>3, <1>4
<1> QED BY <1>5 DEF seen

\* The write of a cancellation.
LEMMA CancelPackagesType ==
  ASSUME TInv, NEW r \in Requests, CancelPackages(r)
  PROVE  TInv'
<1> USE DEF TInv
<1>1. /\ req' = [req EXCEPT ![r] = Idle]
      /\ UNCHANGED <<today, balance, debtTime, bills, fees, log>>
  BY DEF CancelPackages
<1>2. pkgs' \in [Packages -> PackageRow]
  <2>1. \A p \in Packages : pkgs'[p] \in PackageRow
    BY Cancelled
  <2>2. pkgs' = [p \in Packages |-> pkgs'[p]]
    BY DEF CancelPackages
  <2> QED BY <2>1, <2>2
<1>3. TypeOK'
  BY <1>1, <1>2 DEF TypeOK
<1>4. HeldRows'
  <2> SUFFICES ASSUME NEW s \in Requests, req'[s] # Idle, req'[s].kind = "vat"
               PROVE  fees[req'[s].fee] # NoRow /\ bills[req'[s].bill] # NoRow
    BY <1>1 DEF HeldRows
  <2>1. req'[s] = req[s]
    BY <1>1 DEF TypeOK
  <2> QED BY <2>1 DEF HeldRows
<1> QED BY <1>3, <1>4

\* An extra fee or a refund on a package that is not new.
LEMMA CreateExtraFeeType ==
  ASSUME TInv, NEW p \in Packages, NEW b \in Bills, NEW f \in FeeIds,
         NEW a \in Money, NEW type \in {"fix", "refund"}, CreateExtraFee(p, b, f, a, type)
  PROVE  TInv'
<1> USE DEF TInv
<1> DEFINE u == Owner[p]
           row == [package |-> p, bill |-> b, amount |-> a,
                   type |-> type, status |-> "Enable"]
<1>0. u \in Users /\ a \in Int /\ bills[b] # NoRow
  BY WalletConstants DEF CreateExtraFee, RecentBills, Money
<1>1. /\ fees' \in [FeeIds -> FeeRow \cup {NoRow}]
      /\ \A g \in FeeIds : fees[g] # NoRow => fees'[g] # NoRow
  <2>1. row \in FeeRow /\ fees[f] = NoRow /\ fees' = [fees EXCEPT ![f] = row]
    BY DEF FeeRow, CreateExtraFee
  <2>2. QED
    BY <2>1, NewFeeType
<1>2. /\ bills' \in [Bills -> BillRow \cup {NoRow}]
      /\ \A c \in Bills : bills[c] # NoRow => bills'[c] # NoRow
  <2>1. AddExtra(b, a)
    BY DEF CreateExtraFee
  <2>2. QED
    BY <1>0, <2>1, AddExtraType
<1>3. balance' \in [Users -> Money]
  <2>1. Charge(u, a)
    BY DEF CreateExtraFee
  <2>2. QED
    BY <1>0, <2>1, ChargeType
<1>4. debtTime' \in [Users -> BOOLEAN]
  <2>1. MarkDebt(u) \/ ClearDebt(u) \/ UNCHANGED debtTime
    BY DEF CreateExtraFee
  <2>2. QED
    BY <1>0, <2>1, DebtType
<1>5. log' \in Seq(LogRow)
  <2>1. \/ a > 0 /\ Posted(Entry(u, b, "Pay", a))
        \/ a <= 0 /\ Posted(Entry(u, b, "Refund", -a))
    BY <1>0 DEF CreateExtraFee
  <2>2. QED
    BY <1>0, <2>1, PostedType
<1>6. HeldRows'
  BY <1>1, <1>2, HeldRowsKept DEF CreateExtraFee
<1>7. QED
  BY <1>1, <1>2, <1>3, <1>4, <1>5, <1>6 DEF CreateExtraFee, TypeOK

\* The refund the scheduler pays.
LEMMA PackageRefundType ==
  ASSUME TInv, NEW p \in Packages, NEW b \in Bills, NEW f \in FeeIds,
         NEW a \in FeeAmounts, PackageRefund(p, b, f, a)
  PROVE  TInv'
<1> USE DEF TInv
<1> DEFINE u == Owner[p]
           row == [package |-> p, bill |-> b, amount |-> -a,
                   type |-> "refund", status |-> "Enable"]
<1>0. u \in Users /\ a \in Nat /\ -a \in Money /\ -a \in Int /\ bills[b] # NoRow
  BY WalletConstants DEF PackageRefund, RecentBills, Money
<1>1. /\ fees' \in [FeeIds -> FeeRow \cup {NoRow}]
      /\ \A g \in FeeIds : fees[g] # NoRow => fees'[g] # NoRow
  <2>1. row \in FeeRow /\ fees[f] = NoRow /\ fees' = [fees EXCEPT ![f] = row]
    BY <1>0 DEF FeeRow, PackageRefund
  <2>2. QED
    BY <2>1, NewFeeType
<1>2. /\ bills' \in [Bills -> BillRow \cup {NoRow}]
      /\ \A c \in Bills : bills[c] # NoRow => bills'[c] # NoRow
  <2>1. AddExtra(b, -a)
    BY DEF PackageRefund
  <2>2. QED
    BY <1>0, <2>1, AddExtraType
<1>3. balance' \in [Users -> Money]
  <2>1. Charge(u, -a)
    BY DEF PackageRefund
  <2>2. QED
    BY <1>0, <2>1, ChargeType
<1>4. debtTime' \in [Users -> BOOLEAN]
  <2>1. ClearDebt(u)
    BY DEF PackageRefund
  <2>2. QED
    BY <1>0, <2>1, DebtType
<1>5. log' \in Seq(LogRow)
  <2>1. Posted(Entry(u, b, "Refund", a))
    BY DEF PackageRefund
  <2>2. QED
    BY <1>0, <2>1, PostedType
<1>6. HeldRows'
  BY <1>1, <1>2, HeldRowsKept DEF PackageRefund
<1>7. QED
  BY <1>1, <1>2, <1>3, <1>4, <1>5, <1>6 DEF PackageRefund, TypeOK

\* The read of a VAT row.
LEMMA ReadVatType ==
  ASSUME TInv, NEW r \in Requests, NEW f \in FeeIds, NEW b \in Bills,
         NEW new \in FeeAmounts, ReadVat(r, f, b, new)
  PROVE  TInv'
<1> USE DEF TInv
<1> DEFINE change == [kind |-> "vat", fee |-> f, bill |-> b,
                      old |-> fees[f].amount, new |-> new]
<1>1. fees[f] # NoRow /\ bills[b] # NoRow
  BY DEF ReadVat, Rows, RecentBills
<1>2. change \in VatChange
  BY <1>1, WalletConstants DEF VatChange, TypeOK, FeeRow, Money
<1>3. req' = [req EXCEPT ![r] = change] /\ UNCHANGED <<today, tables>>
  BY DEF ReadVat
<1>4. TypeOK'
  BY <1>2, <1>3 DEF TypeOK, tables
<1>5. HeldRows'
  <2> SUFFICES ASSUME NEW s \in Requests, req'[s] # Idle, req'[s].kind = "vat"
               PROVE  fees[req'[s].fee] # NoRow /\ bills[req'[s].bill] # NoRow
    BY <1>3 DEF HeldRows, tables
  <2>1. CASE s = r
    BY <1>1, <1>3, <2>1 DEF TypeOK
  <2>2. CASE s # r
    BY <1>3, <2>2 DEF TypeOK, HeldRows
  <2>3. QED
    BY <2>1, <2>2
<1>6. QED
  BY <1>4, <1>5

\* What a waiting VAT change holds: existing rows, and two different amounts.
LEMMA HeldVat ==
  ASSUME TInv, NEW r \in Requests, req[r] # Idle, req[r].kind = "vat"
  PROVE  /\ req[r] \in VatChange
         /\ fees[req[r].fee] \in FeeRow
         /\ bills[req[r].bill] # NoRow
         /\ Owner[fees[req[r].fee].package] \in Users
         /\ req[r].new - req[r].old \in Int
<1>1. req[r] \in VatChange
  BY DEF TInv, TypeOK, Quote, Cancellation
<1>2. fees[req[r].fee] \in FeeRow /\ bills[req[r].bill] # NoRow
  BY <1>1 DEF TInv, TypeOK, HeldRows, VatChange
<1>3. Owner[fees[req[r].fee].package] \in Users
  BY <1>2, WalletConstants DEF FeeRow
<1>4. QED
  BY <1>1, <1>2, <1>3, WalletConstants DEF VatChange, Money

\* The posting of a VAT change.
LEMMA UpdateVatType ==
  ASSUME TInv, NEW r \in Requests, UpdateVatAfterPretransit(r)
  PROVE  TInv'
<1> USE DEF TInv
<1> DEFINE v == req[r]
           u == Owner[fees[v.fee].package]
           diff == v.new - v.old
<1>1. /\ v \in VatChange /\ fees[v.fee] \in FeeRow /\ bills[v.bill] # NoRow
      /\ u \in Users /\ diff \in Int /\ v.fee \in FeeIds /\ v.bill \in Bills
  BY HeldVat DEF UpdateVatAfterPretransit, VatChange
<1>2. /\ fees' = [fees EXCEPT ![v.fee].amount = v.new]
      /\ AddExtra(v.bill, diff) /\ Charge(u, diff)
      /\ \/ diff > 0 /\ Posted(Entry(u, v.bill, "Pay", diff))
         \/ diff < 0 /\ Posted(Entry(u, v.bill, "Refund", -diff))
  BY DEF UpdateVatAfterPretransit
<1>3. req' = [req EXCEPT ![r] = Idle] /\ UNCHANGED <<today, debtTime, pkgs>>
  BY DEF UpdateVatAfterPretransit
<1>4. /\ fees' \in [FeeIds -> FeeRow \cup {NoRow}]
      /\ \A g \in FeeIds : fees[g] # NoRow => fees'[g] # NoRow
  <2>1. [fees[v.fee] EXCEPT !.amount = v.new] \in FeeRow
    BY <1>1 DEF FeeRow, VatChange
  <2>2. fees' = [fees EXCEPT ![v.fee] = [fees[v.fee] EXCEPT !.amount = v.new]]
    BY <1>2 DEF TypeOK
  <2>3. QED
    BY <2>1, <2>2, WalletConstants DEF TypeOK
<1>5. /\ bills' \in [Bills -> BillRow \cup {NoRow}]
      /\ \A c \in Bills : bills[c] # NoRow => bills'[c] # NoRow
  BY <1>1, <1>2, AddExtraType
<1>6. balance' \in [Users -> Money]
  BY <1>1, <1>2, ChargeType
<1>7. log' \in Seq(LogRow)
  <2>1. CASE diff > 0 /\ Posted(Entry(u, v.bill, "Pay", diff))
    BY <1>1, <2>1, PostedType
  <2>2. CASE diff < 0 /\ Posted(Entry(u, v.bill, "Refund", -diff))
    BY <1>1, <2>2, PostedType
  <2>3. QED
    BY <1>2, <2>1, <2>2
<1>8. HeldRows'
  <2> SUFFICES ASSUME NEW s \in Requests, req'[s] # Idle, req'[s].kind = "vat"
               PROVE  fees'[req'[s].fee] # NoRow /\ bills'[req'[s].bill] # NoRow
    BY DEF HeldRows
  <2>1. req'[s] = req[s]
    BY <1>3 DEF TypeOK
  <2>2. req[s].fee \in FeeIds /\ req[s].bill \in Bills
    BY <2>1, HeldVat DEF VatChange
  <2>3. QED
    BY <1>4, <1>5, <2>1, <2>2 DEF HeldRows
<1>9. TypeOK'
  BY <1>3, <1>4, <1>5, <1>6, <1>7 DEF TypeOK
<1>10. QED
  BY <1>8, <1>9

\* The decision on a top-up.
LEMMA SaveTransactionType ==
  ASSUME TInv, NEW u \in Users, NEW a \in Deposits[today],
         NEW status \in {"Success", "Failure"}, SaveTransaction(u, a, status)
  PROVE  TInv'
<1> USE DEF TInv
<1> DEFINE row == [user |-> u, bill |-> NoBill, type |-> "Topup", status |-> status,
                   amount |-> a]
<1>1. a \in Nat /\ -a \in Int
  BY TodaysBounds
<1>2. row \in LogRow
  <2>1. a <= MaxMoney
    BY DEF SaveTransaction, Posted
  <2>2. QED
    BY <1>1, <2>1, WalletConstants DEF LogRow
<1>3. log' \in Seq(LogRow)
  BY <1>2 DEF SaveTransaction, Posted, TypeOK
<1>4. balance' \in [Users -> Money] /\ debtTime' \in [Users -> BOOLEAN]
  <2>1. CASE status = "Success"
    <3>1. Charge(u, -a) /\ ClearDebt(u)
      BY <2>1 DEF SaveTransaction
    <3>2. QED
      BY <1>1, <3>1, ChargeType, DebtType
  <2>2. CASE status = "Failure"
    BY <2>2 DEF SaveTransaction, TypeOK
  <2>3. QED
    BY <2>1, <2>2
<1>5. HeldRows'
  BY HeldRowsKept DEF SaveTransaction
<1>6. QED
  BY <1>3, <1>4, <1>5 DEF SaveTransaction, TypeOK

-----------------------------------------------------------------------------
(* The types of the tables. *)

\* Every step of the wallet keeps the types of the tables and the rows that
\* waiting requests refer to.
LEMMA StepType ==
  ASSUME TInv, Next
  PROVE  TInv'
<1>1. CASE NextDay
  BY <1>1 DEF NextDay, TInv, TypeOK, HeldRows, tables
<1>2. CASE \E u \in Users : GetOrCreateNowBill(u)
  BY <1>2, GetOrCreateNowBillType
<1>3. CASE \E p \in Packages, f \in FeeIds, type \in {"vat", "oversize"}, a \in FeeAmounts :
             AddFee(p, f, type, a)
  BY <1>3, AddFeeType
<1>4. CASE \E p \in Packages, price \in Prices, f \in FeeIds, a \in FeeAmounts :
             SaveUpdatePackage(p, price, f, a)
  BY <1>4, SaveUpdatePackageType
<1>5. CASE \E r \in Requests, u \in Users, S \in (SUBSET Packages) \ {{}} : ReadPrice(r, u, S)
  BY <1>5, ReadPriceType
<1>6. CASE \E r \in Requests, u \in Users, b \in Bills : CreateBillWithLabelPromotion(r, u, b)
  BY <1>6, CreateBillType
<1>7. CASE \E p \in Packages, b \in Bills, f \in FeeIds, a \in FeeAmounts :
             \/ CreateExtraFee(p, b, f, a, "fix")
             \/ CreateExtraFee(p, b, f, -a, "refund")
             \/ PackageRefund(p, b, f, a)
  <2>1. \A a \in FeeAmounts : a \in Money /\ -a \in Money
    BY WalletConstants DEF Money
  <2>2. QED
    BY <1>7, <2>1, CreateExtraFeeType, PackageRefundType
<1>8. CASE \E r \in Requests, f \in FeeIds, b \in Bills, a \in FeeAmounts : ReadVat(r, f, b, a)
  BY <1>8, ReadVatType
<1>9. CASE \E r \in Requests : UpdateVatAfterPretransit(r)
  BY <1>9, UpdateVatType
<1>10. CASE \E u \in Users, a \in Deposits[today], s \in {"Success", "Failure"} : SaveTransaction(u, a, s)
  BY <1>10, SaveTransactionType
<1>11. CASE \E r \in Requests, S \in (SUBSET Cancellable[today]) \ {{}} : ReadPackages(r, S)
  BY <1>11, TodaysBounds, ReadPackagesType DEF TInv
<1>12. CASE \E r \in Requests : CancelPackages(r)
  BY <1>12, CancelPackagesType
<1>13. QED
  BY <1>1, <1>2, <1>3, <1>4, <1>5, <1>6, <1>7, <1>8, <1>9, <1>10, <1>11, <1>12 DEF Next

\* So does a step that stutters.
LEMMA StepInv ==
  ASSUME TInv, [Next]_vars
  PROVE  TInv'
<1>1. CASE Next
  BY <1>1, StepType
<1>2. CASE UNCHANGED vars
  BY <1>2 DEF vars, tables, TInv, TypeOK, HeldRows
<1>3. QED
  BY <1>1, <1>2

\* An empty database with packages to bill.
LEMMA InitType ==
  ASSUME Init
  PROVE  TInv
<1>1. pkgs \in [Packages -> PackageRow]
  BY DEF Init, PackageRow
<1>2. balance \in [Users -> Money]
  BY WalletConstants DEF Init, Money
<1>3. log \in Seq(LogRow)
  BY DEF Init
<1>4. TypeOK
  BY <1>1, <1>2, <1>3, WalletConstants DEF Init, TypeOK
<1>5. HeldRows
  BY DEF Init, HeldRows
<1>6. QED
  BY <1>4, <1>5 DEF TInv

\* The tables of bills, packages, fees, balances and the log keep their types
\* through every transaction: in particular no sum or increment that is written
\* leaves the range of its column.
THEOREM TypeCorrect == Spec => []TypeOK
<1>1. Init => TInv
  BY InitType
<1>2. TInv /\ [Next]_vars => TInv'
  BY StepInv
<1>3. TInv => TypeOK
  BY DEF TInv
<1>4. QED
  BY <1>1, <1>2, <1>3, PTL DEF Spec

-----------------------------------------------------------------------------
(* The wallet implements the ledger. *)

\* A logged row with the opposite charge is a step of the ledger.
LEMMA PostStep ==
  ASSUME TypeOK, NEW e \in LogRow, Posted(e), Charge(e.user, 0 - Promise!Signed(e))
  PROVE  Promise!Next
<1>1. e.user \in Users /\ Promise!Signed(e) \in Int /\ balance[e.user] \in Int
  BY WalletConstants DEF LogRow, Promise!Signed, TypeOK, Money
<1>2. balance' = [balance EXCEPT ![e.user] = @ + Promise!Signed(e)]
  <2>1. balance[e.user] - (0 - Promise!Signed(e)) = balance[e.user] + Promise!Signed(e)
    BY <1>1
  <2>2. balance' = [balance EXCEPT ![e.user] = balance[e.user] - (0 - Promise!Signed(e))]
    BY DEF Charge
  <2>3. QED
    BY <2>1, <2>2
<1>3. balance[e.user] + Promise!Signed(e) \in Money
  BY <1>1 DEF Charge
<1>4. log' = Append(log, e)
  BY DEF Posted
<1>5. Promise!Post(e)
  BY <1>2, <1>3, <1>4 DEF Promise!Post
<1>6. QED
  BY <1>5 DEF Promise!Next

\* A payment of a is posted with a charge of a, a refund with one of -a.
LEMMA EntryStep ==
  ASSUME TypeOK, NEW u \in Users, NEW b \in Bills \cup {NoBill}, NEW a \in Nat,
         \/ Posted(Entry(u, b, "Pay", a)) /\ Charge(u, a)
         \/ Posted(Entry(u, b, "Refund", a)) /\ Charge(u, 0 - a)
  PROVE  Promise!Next
<1>1. CASE Posted(Entry(u, b, "Pay", a)) /\ Charge(u, a)
  <2> DEFINE e == Entry(u, b, "Pay", a)
  <2>1. e \in LogRow
    BY <1>1, PostedType
  <2>2. e.user = u /\ 0 - Promise!Signed(e) = a
    BY DEF Entry, Promise!Signed
  <2> HIDE DEF e
  <2>3. QED
    BY <1>1, <2>1, <2>2, PostStep DEF e
<1>2. CASE Posted(Entry(u, b, "Refund", a)) /\ Charge(u, 0 - a)
  <2> DEFINE e == Entry(u, b, "Refund", a)
  <2>1. e \in LogRow
    BY <1>2, PostedType
  <2>2. e.user = u /\ 0 - Promise!Signed(e) = 0 - a
    BY DEF Entry, Promise!Signed
  <2> HIDE DEF e
  <2>3. QED
    BY <1>2, <2>1, <2>2, PostStep DEF e
<1>3. QED
  BY <1>1, <1>2

\* A billing is a payment of the price read before.
LEMMA BillStep ==
  ASSUME TInv, NEW r \in Requests, NEW u \in Users, NEW b \in Bills,
         CreateBillWithLabelPromotion(r, u, b)
  PROVE  Promise!Next
<1>1. /\ req[r] # Idle /\ req[r].kind = "quote" /\ req[r].price >= 0
      /\ Charge(u, req[r].price) /\ Posted(Entry(u, b, "Pay", req[r].price))
  BY DEF CreateBillWithLabelPromotion
<1>2. req[r].price \in Nat
  BY <1>1, WalletConstants DEF TInv, TypeOK, VatChange, Cancellation, Quote, Money
<1>3. QED
  BY <1>1, <1>2, EntryStep DEF TInv

\* A fee is a payment, a negative fee a refund, of its absolute amount.
LEMMA FeeStep ==
  ASSUME TInv, NEW p \in Packages, NEW b \in Bills, NEW f \in FeeIds, NEW a \in Money,
         NEW type \in {"fix", "refund"}, CreateExtraFee(p, b, f, a, type)
  PROVE  Promise!Next
<1> DEFINE u == Owner[p]
<1>1. u \in Users /\ a \in Int
  BY WalletConstants DEF Money
<1>2. /\ Charge(u, a)
      /\ \/ a > 0 /\ Posted(Entry(u, b, "Pay", a))
         \/ a <= 0 /\ Posted(Entry(u, b, "Refund", -a))
  BY <1>1 DEF CreateExtraFee
<1>3. a <= 0 => (-a \in Nat /\ a = 0 - (-a))
  BY <1>1
<1>4. QED
  BY <1>1, <1>2, <1>3, EntryStep DEF TInv

\* A refund of the scheduler is logged with its amount.
LEMMA RefundStep ==
  ASSUME TInv, NEW p \in Packages, NEW b \in Bills, NEW f \in FeeIds,
         NEW a \in FeeAmounts, PackageRefund(p, b, f, a)
  PROVE  Promise!Next
<1>1. a \in Nat /\ -a = 0 - a /\ Owner[p] \in Users
  BY WalletConstants
<1>2. Charge(Owner[p], -a) /\ Posted(Entry(Owner[p], b, "Refund", a))
  BY DEF PackageRefund
<1>3. QED
  BY <1>1, <1>2, EntryStep DEF TInv

\* A VAT change is a payment or a refund of the difference.
LEMMA VatStep ==
  ASSUME TInv, NEW r \in Requests, UpdateVatAfterPretransit(r)
  PROVE  Promise!Next
<1> DEFINE v == req[r]
           u == Owner[fees[v.fee].package]
           diff == v.new - v.old
<1>1. /\ Charge(u, diff)
      /\ \/ diff > 0 /\ Posted(Entry(u, v.bill, "Pay", diff))
         \/ diff < 0 /\ Posted(Entry(u, v.bill, "Refund", -diff))
  BY DEF UpdateVatAfterPretransit
<1>2. u \in Users /\ diff \in Int /\ v.bill \in Bills
  BY HeldVat DEF UpdateVatAfterPretransit, VatChange
<1>3. diff < 0 => (-diff \in Nat /\ diff = 0 - (-diff))
  BY <1>2
<1> HIDE DEF u, diff
<1>4. QED
  BY <1>1, <1>2, <1>3, EntryStep DEF TInv

\* A decision on a top-up credits its amount if it is successful, else nothing.
LEMMA TopupStep ==
  ASSUME TInv, NEW u \in Users, NEW a \in Deposits[today], NEW s \in {"Success", "Failure"},
         SaveTransaction(u, a, s)
  PROVE  Promise!Next
<1> DEFINE e == [user |-> u, bill |-> NoBill, type |-> "Topup", status |-> s, amount |-> a]
<1>1. Posted(e) /\ a \in Nat
  BY TodaysBounds DEF SaveTransaction, TInv
<1>2. e \in LogRow /\ e.user = u
  BY <1>1, WalletConstants DEF LogRow, Posted
<1>3. Promise!Signed(e) = IF s = "Success" THEN a ELSE 0
  BY DEF Promise!Signed
<1>4. Charge(u, 0 - Promise!Signed(e))
  <2>1. CASE s = "Success"
    BY <1>1, <1>3, <2>1 DEF SaveTransaction, Charge
  <2>2. CASE s = "Failure"
    BY <1>3, <2>2 DEF SaveTransaction, Charge, TInv, TypeOK, Money
  <2>3. QED
    BY <2>1, <2>2
<1> HIDE DEF e
<1>5. QED
  BY <1>1, <1>2, <1>4, PostStep DEF TInv

\* Every step of the wallet is a step of the ledger, or changes neither a balance
\* nor the log.
LEMMA LedgerStep ==
  ASSUME TInv, [Next]_vars
  PROVE  Promise!Next \/ UNCHANGED <<balance, log>>
<1>1. CASE NextDay
  BY <1>1 DEF NextDay, tables
<1>2. CASE \E u \in Users : GetOrCreateNowBill(u)
  BY <1>2 DEF GetOrCreateNowBill
<1>3. CASE \E p \in Packages, f \in FeeIds, type \in {"vat", "oversize"}, a \in FeeAmounts :
             AddFee(p, f, type, a)
  BY <1>3 DEF AddFee
<1>4. CASE \E p \in Packages, price \in Prices, f \in FeeIds, a \in FeeAmounts :
             SaveUpdatePackage(p, price, f, a)
  BY <1>4 DEF SaveUpdatePackage
<1>5. CASE \E r \in Requests, u \in Users, S \in (SUBSET Packages) \ {{}} : ReadPrice(r, u, S)
  BY <1>5 DEF ReadPrice, tables
<1>6. CASE \E r \in Requests, u \in Users, b \in Bills : CreateBillWithLabelPromotion(r, u, b)
  BY <1>6, BillStep
<1>7. CASE \E p \in Packages, b \in Bills, f \in FeeIds, a \in FeeAmounts :
             \/ CreateExtraFee(p, b, f, a, "fix")
             \/ CreateExtraFee(p, b, f, -a, "refund")
             \/ PackageRefund(p, b, f, a)
  <2>1. \A a \in FeeAmounts : a \in Money /\ -a \in Money
    BY WalletConstants DEF Money
  <2>2. QED
    BY <1>7, <2>1, FeeStep, RefundStep
<1>8. CASE \E r \in Requests, f \in FeeIds, b \in Bills, a \in FeeAmounts : ReadVat(r, f, b, a)
  BY <1>8 DEF ReadVat, tables
<1>9. CASE \E r \in Requests : UpdateVatAfterPretransit(r)
  BY <1>9, VatStep
<1>10. CASE \E u \in Users, a \in Deposits[today], s \in {"Success", "Failure"} : SaveTransaction(u, a, s)
  BY <1>10, TopupStep
<1>11. CASE UNCHANGED vars
  BY <1>11 DEF vars, tables
<1>12. CASE \E r \in Requests, S \in (SUBSET Cancellable[today]) \ {{}} : ReadPackages(r, S)
  BY <1>12 DEF ReadPackages, tables
<1>13. CASE \E r \in Requests : CancelPackages(r)
  BY <1>13 DEF CancelPackages
<1>14. QED
  BY <1>1, <1>2, <1>3, <1>4, <1>5, <1>6, <1>7, <1>8, <1>9, <1>10, <1>11, <1>12, <1>13 DEF Next

\* Every balance is moved by a logged row of the same user and amount, and the
\* log only grows, in every execution of the bill and transaction managers.
THEOREM LedgerImplemented == Spec => ImplementsLedger
<1>1. Init => Promise!Init
  BY DEF Init, Promise!Init
<1>2. TInv /\ [Next]_vars => [Promise!Next]_<<balance, log>>
  BY LedgerStep
<1>3. Init => TInv
  BY InitType
<1>4. TInv /\ [Next]_vars => TInv'
  BY StepInv
<1>5. QED
  BY <1>1, <1>2, <1>3, <1>4, PTL DEF Spec, ImplementsLedger, Promise!Spec

-----------------------------------------------------------------------------
(* debt_time follows the sign of the balance. *)

\* A payment that marks the debt keeps debt_time right for every user.
LEMMA PayKeepsDebt ==
  ASSUME TypeOK, DebtTimeTracksDebt, NEW u \in Users, NEW a \in Nat,
         Charge(u, a), MarkDebt(u), crossed \subseteq crossed'
  PROVE  DebtTimeTracksDebt'
<1> SUFFICES ASSUME NEW v \in Users, v \notin crossed'
             PROVE  debtTime'[v] <=> balance'[v] < 0
  BY DEF DebtTimeTracksDebt
<1>1. debtTime[v] <=> balance[v] < 0
  BY DEF DebtTimeTracksDebt
<1>2. CASE v = u
  <2>1. balance'[v] = balance[v] - a /\ balance[v] \in Int
    BY <1>2, WalletConstants DEF Charge, TypeOK, Money
  <2>2. balance[v] < 0 => balance'[v] < 0
    BY <2>1
  <2>3. debtTime'[v] = (debtTime[v] \/ balance'[v] < 0)
    BY <1>2 DEF MarkDebt, TypeOK
  <2>4. QED
    BY <1>1, <2>2, <2>3, Zenon
<1>3. CASE v # u
  <2>1. balance'[v] = balance[v]
    BY <1>3 DEF Charge, TypeOK
  <2>2. debtTime'[v] = debtTime[v]
    BY <1>3 DEF MarkDebt, TypeOK
  <2>3. QED
    BY <1>1, <2>1, <2>2
<1>4. QED
  BY <1>2, <1>3

\* A refund or a deposit that clears the debt does so too.
LEMMA RefundKeepsDebt ==
  ASSUME TypeOK, DebtTimeTracksDebt, NEW u \in Users, NEW a \in Nat,
         Charge(u, 0 - a), ClearDebt(u), crossed \subseteq crossed'
  PROVE  DebtTimeTracksDebt'
<1> SUFFICES ASSUME NEW v \in Users, v \notin crossed'
             PROVE  debtTime'[v] <=> balance'[v] < 0
  BY DEF DebtTimeTracksDebt
<1>1. debtTime[v] <=> balance[v] < 0
  BY DEF DebtTimeTracksDebt
<1>2. CASE v = u
  <2>1. balance'[v] = balance[v] - (0 - a) /\ balance[v] \in Int
    BY <1>2, WalletConstants DEF Charge, TypeOK, Money
  <2>2. balance'[v] < 0 => balance[v] < 0
    BY <2>1
  <2>3. debtTime'[v] = (debtTime[v] /\ balance'[v] < 0)
    BY <1>2 DEF ClearDebt, TypeOK
  <2>4. QED
    BY <1>1, <2>2, <2>3, Zenon
<1>3. CASE v # u
  <2>1. balance'[v] = balance[v]
    BY <1>3 DEF Charge, TypeOK
  <2>2. debtTime'[v] = debtTime[v]
    BY <1>3 DEF ClearDebt, TypeOK
  <2>3. QED
    BY <1>1, <2>1, <2>2
<1>4. QED
  BY <1>2, <1>3

\* Money and flags that stay as they are keep it as well.
LEMMA NoMoneyKeepsDebt ==
  ASSUME DebtTimeTracksDebt, UNCHANGED <<balance, debtTime>>, crossed \subseteq crossed'
  PROVE  DebtTimeTracksDebt'
BY DEF DebtTimeTracksDebt

\* A VAT change leaves debt_time alone, and every user whose balance it carries
\* across zero is recorded.
LEMMA VatKeepsDebt ==
  ASSUME TInv, DebtTimeTracksDebt, NEW r \in Requests, UpdateVatAfterPretransit(r),
         crossed' = crossed \cup Crossing
  PROVE  DebtTimeTracksDebt'
<1> SUFFICES ASSUME NEW v \in Users, v \notin crossed'
             PROVE  debtTime'[v] <=> balance'[v] < 0
  BY DEF DebtTimeTracksDebt
<1>1. r \in Done("vat")
  BY DEF UpdateVatAfterPretransit, Done, TInv, TypeOK
<1>2. Negative(balance, v) = Negative(balance', v)
  BY <1>1 DEF Crossing
<1>3. (balance[v] < 0) = (balance'[v] < 0)
  BY <1>2 DEF Negative
<1>4. debtTime[v] <=> balance[v] < 0
  BY DEF DebtTimeTracksDebt
<1>5. debtTime' = debtTime
  BY DEF UpdateVatAfterPretransit
<1>6. QED
  BY <1>3, <1>4, <1>5, Zenon

\* Every step keeps debt_time in agreement with the balances.
LEMMA DebtStep ==
  ASSUME TInv, DebtTimeTracksDebt, AuditNext
  PROVE  DebtTimeTracksDebt'
<1> USE DEF TInv
<1>0. Next /\ crossed' = crossed \cup Crossing /\ crossed \subseteq crossed'
  BY DEF AuditNext
<1>1. CASE NextDay
  BY <1>0, <1>1, NoMoneyKeepsDebt DEF NextDay, tables
<1>2. CASE \E u \in Users : GetOrCreateNowBill(u)
  BY <1>0, <1>2, NoMoneyKeepsDebt DEF GetOrCreateNowBill
<1>3. CASE \E p \in Packages, f \in FeeIds, type \in {"vat", "oversize"}, a \in FeeAmounts :
             AddFee(p, f, type, a)
  BY <1>0, <1>3, NoMoneyKeepsDebt DEF AddFee
<1>4. CASE \E p \in Packages, price \in Prices, f \in FeeIds, a \in FeeAmounts :
             SaveUpdatePackage(p, price, f, a)
  BY <1>0, <1>4, NoMoneyKeepsDebt DEF SaveUpdatePackage
<1>5. CASE \E r \in Requests, u \in Users, S \in (SUBSET Packages) \ {{}} : ReadPrice(r, u, S)
  BY <1>0, <1>5, NoMoneyKeepsDebt DEF ReadPrice, tables
<1>6. ASSUME NEW r \in Requests, NEW u \in Users, NEW b \in Bills,
             CreateBillWithLabelPromotion(r, u, b)
      PROVE  DebtTimeTracksDebt'
  <2>1. /\ req[r] # Idle /\ req[r].kind = "quote" /\ req[r].price >= 0
        /\ Charge(u, req[r].price) /\ MarkDebt(u)
    BY <1>6 DEF CreateBillWithLabelPromotion
  <2>2. req[r] \in Quote
    BY <2>1 DEF TInv, TypeOK, VatChange, Cancellation, Quote
  <2>3. req[r].price \in Nat
    BY <2>1, <2>2, WalletConstants DEF Quote, Money
  <2>4. QED
    BY <1>0, <2>1, <2>3, PayKeepsDebt
<1>7. ASSUME NEW p \in Packages, NEW b \in Bills, NEW f \in FeeIds, NEW a \in Money,
             NEW type \in {"fix", "refund"}, CreateExtraFee(p, b, f, a, type)
      PROVE  DebtTimeTracksDebt'
  <2> DEFINE u == Owner[p]
  <2>1. u \in Users /\ a \in Int
    BY WalletConstants DEF Money
  <2>2. Charge(u, a)
    BY <1>7 DEF CreateExtraFee
  <2>3. \/ a > 0 /\ MarkDebt(u)
        \/ a < 0 /\ ClearDebt(u)
        \/ a = 0 /\ UNCHANGED debtTime
    BY <1>7 DEF CreateExtraFee
  <2> HIDE DEF u
  <2>4. CASE a > 0 /\ MarkDebt(u)
    BY <1>0, <2>1, <2>2, <2>4, PayKeepsDebt
  <2>5. CASE a < 0 /\ ClearDebt(u)
    <3>1. -a \in Nat /\ a = 0 - (-a)
      BY <2>1, <2>5
    <3>2. QED
      BY <1>0, <2>1, <2>2, <2>5, <3>1, RefundKeepsDebt
  <2>6. CASE a = 0 /\ UNCHANGED debtTime
    <3>1. UNCHANGED balance
      BY <2>1, <2>2, <2>6, WalletConstants DEF Charge, TypeOK, Money
    <3>2. QED
      BY <1>0, <2>6, <3>1, NoMoneyKeepsDebt
  <2>7. QED
    BY <2>3, <2>4, <2>5, <2>6
<1>8. ASSUME NEW p \in Packages, NEW b \in Bills, NEW f \in FeeIds,
             NEW a \in FeeAmounts, PackageRefund(p, b, f, a)
      PROVE  DebtTimeTracksDebt'
  <2>1. a \in Nat /\ -a = 0 - a /\ Owner[p] \in Users
    BY WalletConstants
  <2>2. Charge(Owner[p], -a) /\ ClearDebt(Owner[p])
    BY <1>8 DEF PackageRefund
  <2>3. QED
    BY <1>0, <2>1, <2>2, RefundKeepsDebt
<1>9. CASE \E r \in Requests, f \in FeeIds, b \in Bills, a \in FeeAmounts : ReadVat(r, f, b, a)
  BY <1>0, <1>9, NoMoneyKeepsDebt DEF ReadVat, tables
<1>10. CASE \E r \in Requests : UpdateVatAfterPretransit(r)
  BY <1>0, <1>10, VatKeepsDebt
<1>11. ASSUME NEW u \in Users, NEW a \in Deposits[today], NEW s \in {"Success", "Failure"},
              SaveTransaction(u, a, s)
       PROVE  DebtTimeTracksDebt'
  <2>1. a \in Nat /\ -a = 0 - a
    BY <1>0, TodaysBounds
  <2>2. \/ Charge(u, -a) /\ ClearDebt(u)
        \/ UNCHANGED <<balance, debtTime>>
    BY <1>11 DEF SaveTransaction
  <2>3. QED
    BY <1>0, <2>1, <2>2, RefundKeepsDebt, NoMoneyKeepsDebt
<1>12. \A a \in FeeAmounts : a \in Money /\ -a \in Money
  BY WalletConstants DEF Money
<1>13. CASE \E r \in Requests, S \in (SUBSET Cancellable[today]) \ {{}} : ReadPackages(r, S)
  BY <1>0, <1>13, NoMoneyKeepsDebt DEF ReadPackages, tables
<1>14. CASE \E r \in Requests : CancelPackages(r)
  BY <1>0, <1>14, NoMoneyKeepsDebt DEF CancelPackages
<1>15. QED
  BY <1>0, <1>1, <1>2, <1>3, <1>4, <1>5, <1>6, <1>7, <1>8, <1>9, <1>10, <1>11, <1>12, <1>13, <1>14
     DEF Next

\* debt_time is set exactly while a balance is negative, for every user whose
\* balance no VAT change carried across zero.
THEOREM DebtTracked == AuditSpec => []DebtTimeTracksDebt
<1> DEFINE Inv == TInv /\ DebtTimeTracksDebt
<1>1. AuditInit => Inv
  BY InitType DEF AuditInit, Init, DebtTimeTracksDebt
<1>2. Inv /\ [AuditNext]_auditVars => Inv'
  <2> SUFFICES ASSUME Inv, [AuditNext]_auditVars PROVE Inv'
    OBVIOUS
  <2>1. CASE AuditNext
    BY <2>1, StepInv, DebtStep DEF AuditNext
  <2>2. CASE UNCHANGED auditVars
    <3>1. UNCHANGED vars /\ UNCHANGED <<balance, debtTime>> /\ crossed \subseteq crossed'
      BY <2>2 DEF auditVars, vars, tables
    <3>2. QED
      BY <3>1, StepInv, NoMoneyKeepsDebt
  <2>3. QED
    BY <2>1, <2>2
<1>3. Inv => DebtTimeTracksDebt
  OBVIOUS
<1>4. QED
  BY <1>1, <1>2, <1>3, PTL DEF AuditSpec

-----------------------------------------------------------------------------
(* Sums.  s is what the weights w of D add up to: whatever relates no weight *)
(* to 0 and follows each weight that is added relates D to s.                *)

Adds(D, w, R) ==
  /\ <<{}, 0>> \in R
  /\ \A S \in SUBSET D, n \in Int, d \in D :
       <<S, n>> \in R /\ d \notin S => <<S \cup {d}, n + w[d]>> \in R
IsSum(D, w, s) == s \in Int /\ \A R : Adds(D, w, R) => <<D, s>> \in R

\* Nothing adds up to 0, and to nothing else.
LEMMA SumOfNone ==
  ASSUME NEW w
  PROVE  /\ IsSum({}, w, 0)
         /\ \A s : IsSum({}, w, s) => s = 0
<1>1. IsSum({}, w, 0)
  BY DEF IsSum, Adds
<1>2. ASSUME NEW s, IsSum({}, w, s)
      PROVE  s = 0
  <2>1. Adds({}, w, {<<{}, 0>>})
    BY DEF Adds
  <2>2. <<{}, s>> \in {<<{}, 0>>}
    BY <1>2, <2>1 DEF IsSum
  <2> QED BY <2>2
<1> QED BY <1>1, <1>2

\* One more weight.
LEMMA SumAdds ==
  ASSUME NEW D, NEW w, NEW s, NEW c, c \notin D, w[c] \in Int, IsSum(D, w, s)
  PROVE  IsSum(D \cup {c}, w, s + w[c])
<1>1. s + w[c] \in Int
  BY DEF IsSum
<1>2. ASSUME NEW R, Adds(D \cup {c}, w, R)
      PROVE  <<D \cup {c}, s + w[c]>> \in R
  <2>1. Adds(D, w, R)
    BY <1>2 DEF Adds
  <2>2. <<D, s>> \in R /\ s \in Int
    BY <2>1 DEF IsSum
  <2>3. D \in SUBSET (D \cup {c}) /\ c \in D \cup {c}
    OBVIOUS
  <2> QED BY <1>2, <2>2, <2>3 DEF Adds
<1> QED BY <1>1, <1>2 DEF IsSum

\* One weight less.
LEMMA SumDrops ==
  ASSUME NEW D, NEW w, NEW s, NEW c \in D, \A d \in D : w[d] \in Int, IsSum(D, w, s)
  PROVE  IsSum(D \ {c}, w, s - w[c])
<1>1. s - w[c] \in Int
  BY DEF IsSum
<1>2. ASSUME NEW R, Adds(D \ {c}, w, R)
      PROVE  <<D \ {c}, s - w[c]>> \in R
  <2> DEFINE Q == {z \in (SUBSET D) \X Int :
                     <<z[1] \ {c}, IF c \in z[1] THEN z[2] - w[c] ELSE z[2]>> \in R}
  <2>1. ASSUME NEW S \in SUBSET D, NEW n \in Int, <<S, n>> \in Q
        PROVE  <<S \ {c}, IF c \in S THEN n - w[c] ELSE n>> \in R
    BY <2>1
  <2>2. ASSUME NEW S \in SUBSET D, NEW n \in Int,
               <<S \ {c}, IF c \in S THEN n - w[c] ELSE n>> \in R
        PROVE  <<S, n>> \in Q
    BY <2>2
  <2> HIDE DEF Q
  <2>3. <<{}, 0>> \in Q
    <3>1. <<{} \ {c}, IF c \in {} THEN 0 - w[c] ELSE 0>> \in R
      <4>1. {} \ {c} = {} /\ <<{}, 0>> \in R
        BY <1>2 DEF Adds
      <4> QED BY <4>1
    <3> QED BY <2>2, <3>1
  <2>4. ASSUME NEW S \in SUBSET D, NEW n \in Int, NEW d \in D, <<S, n>> \in Q, d \notin S
        PROVE  <<S \cup {d}, n + w[d]>> \in Q
    <3>1. S \cup {d} \in SUBSET D /\ n + w[d] \in Int
      BY <2>4
    <3>2. <<S \ {c}, IF c \in S THEN n - w[c] ELSE n>> \in R
      BY <2>1, <2>4
    <3>3. CASE d = c
      <4>1. (S \cup {d}) \ {c} = S \ {c} /\ c \in S \cup {d} /\ c \notin S
        BY <2>4, <3>3
      <4>2. (n + w[d]) - w[c] = n
        BY <2>4, <3>3
      <4> QED BY <2>2, <3>1, <3>2, <4>1, <4>2
    <3>4. CASE d # c
      <4> DEFINE m == IF c \in S THEN n - w[c] ELSE n
      <4>1. /\ (S \cup {d}) \ {c} = (S \ {c}) \cup {d}
            /\ S \ {c} \in SUBSET (D \ {c}) /\ d \in D \ {c} /\ d \notin S \ {c}
        BY <2>4, <3>4
      <4>2. m \in Int
        OBVIOUS
      <4>3. <<(S \ {c}) \cup {d}, m + w[d]>> \in R
        <5> HIDE DEF m
        <5> QED BY <1>2, <3>2, <4>1, <4>2 DEF Adds, m
      <4>4. m + w[d] = IF c \in S \cup {d} THEN (n + w[d]) - w[c] ELSE n + w[d]
        BY <2>4, <3>4
      <4> QED BY <2>2, <3>1, <4>1, <4>3, <4>4
    <3> QED BY <3>3, <3>4
  <2>5. Adds(D, w, Q)
    BY <2>3, <2>4 DEF Adds
  <2>6. <<D, s>> \in Q /\ s \in Int
    BY <2>5 DEF IsSum
  <2>7. <<D \ {c}, IF c \in D THEN s - w[c] ELSE s>> \in R
    <3>1. D \in SUBSET D
      OBVIOUS
    <3> QED BY <2>1, <2>6, <3>1
  <2> QED BY <2>7
<1> QED BY <1>1, <1>2 DEF IsSum

\* The weights of others do not matter.
LEMMA SumStays ==
  ASSUME NEW D, NEW v, NEW w, NEW s, IsSum(D, w, s), \A d \in D : v[d] = w[d]
  PROVE  IsSum(D, v, s)
<1>1. ASSUME NEW R, Adds(D, v, R) PROVE Adds(D, w, R)
  BY <1>1 DEF Adds
<1> QED BY <1>1 DEF IsSum

\* Weights add up to one number at most, whatever the order.
LEMMA SumIsUnique ==
  ASSUME NEW D, NEW w, \A d \in D : w[d] \in Int, NEW s, IsSum(D, w, s), NEW t, IsSum(D, w, t)
  PROVE  s = t
<1> DEFINE Q == {z \in (SUBSET D) \X Int : \A u : IsSum(z[1], w, u) => u = z[2]}
<1>1. \A S \in SUBSET D, n \in Int : <<S, n>> \in Q <=> \A u : IsSum(S, w, u) => u = n
  OBVIOUS
<1> HIDE DEF Q
<1>2. <<{}, 0>> \in Q
  <2>1. {} \in SUBSET D /\ 0 \in Int
    OBVIOUS
  <2>2. \A u : IsSum({}, w, u) => u = 0
    BY SumOfNone
  <2> QED BY <1>1, <2>1, <2>2
<1>3. ASSUME NEW S \in SUBSET D, NEW n \in Int, NEW d \in D, <<S, n>> \in Q, d \notin S
      PROVE  <<S \cup {d}, n + w[d]>> \in Q
  <2> DEFINE T == S \cup {d}
  <2>1. /\ T \in SUBSET D /\ n + w[d] \in Int /\ d \in T /\ T \ {d} = S
        /\ \A e \in T : w[e] \in Int
    BY <1>3
  <2>2. ASSUME NEW u, IsSum(T, w, u) PROVE u = n + w[d]
    <3>1. IsSum(T \ {d}, w, u - w[d])
      <4> HIDE DEF T
      <4> QED BY SumDrops, <2>1, <2>2
    <3>2. IsSum(S, w, u - w[d])
      BY <2>1, <3>1
    <3>3. u - w[d] = n
      BY <1>1, <1>3, <3>2
    <3>4. u \in Int /\ w[d] \in Int
      BY <2>2 DEF IsSum
    <3> QED BY <3>3, <3>4
  <2> QED BY <1>1, <2>1, <2>2
<1>4. <<D, s>> \in Q /\ D \in SUBSET D /\ s \in Int
  <2>1. Adds(D, w, Q)
    BY <1>2, <1>3 DEF Adds
  <2> QED BY <2>1 DEF IsSum
<1> QED BY <1>1, <1>4

\* A family of parts of a finite set has a member that contains no other.
LEMMA LeastPart ==
  ASSUME NEW D, IsFiniteSet(D), NEW F \in SUBSET SUBSET D, F # {}
  PROVE  \E M \in F : \A N \in F : N \subseteq M => N = M
<1> DEFINE T == {Cardinality(M) : M \in F}
<1>1. \A M \in F : IsFiniteSet(M) /\ Cardinality(M) \in Nat
  BY FS_Subset, FS_CardinalityType
<1>2. \E k \in T : \A j \in T : ~(j < k)
  <2>1. T \subseteq Nat /\ T # {}
    BY <1>1
  <2> HIDE DEF T
  <2> DEFINE R == OpToRel(<, Nat)
  <2>2. \A i, j \in Nat : i < j => <<i, j>> \in R
    BY DEF OpToRel
  <2>3. IsWellFoundedOn(R, Nat)
    BY NatLessThanWellFounded
  <2> HIDE DEF R
  <2>4. \E k \in T : \A j \in T : ~(<<j, k>> \in R)
    BY <2>1, <2>3, WFMin
  <2> QED BY <2>1, <2>2, <2>4
<1>3. PICK M \in F : \A N \in F : ~(Cardinality(N) < Cardinality(M))
  BY <1>2
<1>4. ASSUME NEW N \in F, N \subseteq M PROVE N = M
  <2>1. IsFiniteSet(M) /\ Cardinality(N) \in Nat /\ Cardinality(M) \in Nat /\ N \in SUBSET M
    BY <1>1, <1>4
  <2>2. Cardinality(N) <= Cardinality(M)
    BY <2>1, FS_Subset
  <2>3. Cardinality(M) = Cardinality(N)
    BY <1>3, <2>1, <2>2
  <2> QED BY <2>1, <2>3, FS_Subset
<1> QED BY <1>4

\* What the weights w of S add up to.
SumOf(w, S) == CHOOSE v \in Int : IsSum(S, w, v)

\* The weights of a finite set add up to a number, and to one only.
LEMMA SumIs ==
  ASSUME NEW D, IsFiniteSet(D), NEW w, \A d \in D : w[d] \in Int
  PROVE  /\ SumOf(w, D) \in Int /\ IsSum(D, w, SumOf(w, D))
         /\ \A s : IsSum(D, w, s) => s = SumOf(w, D)
<1> DEFINE Odd == {T \in SUBSET D : ~ \E v \in Int : IsSum(T, w, v)}
<1>1. Odd = {}
  <2> SUFFICES ASSUME Odd # {} PROVE FALSE
    OBVIOUS
  <2>1. Odd \in SUBSET SUBSET D
    OBVIOUS
  <2>2. PICK M \in Odd : \A N \in Odd : N \subseteq M => N = M
    <3> HIDE DEF Odd
    <3> QED BY <2>1, LeastPart
  <2>3. M # {}
    <3>1. IsSum({}, w, 0) /\ 0 \in Int
      BY SumOfNone
    <3> QED BY <3>1
  <2>4. PICK x \in M : x \in D
    BY <2>3
  <2> DEFINE N == M \ {x}
  <2>5. N \in SUBSET D /\ N \subseteq M /\ N # M /\ x \notin N /\ N \cup {x} = M
    OBVIOUS
  <2>6. N \notin Odd
    <3> HIDE DEF N, Odd
    <3> QED BY <2>2, <2>5
  <2>7. PICK v \in Int : IsSum(N, w, v)
    BY <2>5, <2>6
  <2>8. w[x] \in Int /\ v + w[x] \in Int
    <3>1. w[x] \in Int
      BY <2>4
    <3> QED BY <3>1
  <2>9. IsSum(M, w, v + w[x])
    <3> HIDE DEF N
    <3>1. IsSum(N \cup {x}, w, v + w[x])
      BY <2>5, <2>7, <2>8, SumAdds
    <3> QED BY <2>5, <3>1
  <2> QED BY <2>8, <2>9
<1>2. \E v \in Int : IsSum(D, w, v)
  BY <1>1
<1>3. SumOf(w, D) \in Int /\ IsSum(D, w, SumOf(w, D))
  BY <1>2 DEF SumOf
<1>4. ASSUME NEW s, IsSum(D, w, s) PROVE s = SumOf(w, D)
  BY <1>3, <1>4, SumIsUnique
<1> QED BY <1>3, <1>4

\* The empty sum.
LEMMA SumEmpty ==
  ASSUME NEW w
  PROVE  SumOf(w, {}) = 0
BY SumOfNone DEF SumOf

\* The sum with one more member.
LEMMA SumInsert ==
  ASSUME NEW D, IsFiniteSet(D), NEW w, \A d \in D : w[d] \in Int, NEW c, c \notin D, w[c] \in Int
  PROVE  SumOf(w, D \cup {c}) = SumOf(w, D) + w[c]
<1> DEFINE E == D \cup {c}
<1>1. IsFiniteSet(E) /\ \A d \in E : w[d] \in Int
  BY FS_AddElement
<1>2. IsSum(D, w, SumOf(w, D))
  BY SumIs
<1>3. IsSum(E, w, SumOf(w, D) + w[c])
  BY <1>2, SumAdds
<1> HIDE DEF E
<1>4. SumOf(w, D) + w[c] = SumOf(w, E)
  BY <1>1, <1>3, SumIs
<1> QED BY <1>4 DEF E

\* The same weights add up to the same.
LEMMA SumSame ==
  ASSUME NEW D, IsFiniteSet(D), NEW v, NEW w, \A d \in D : w[d] \in Int,
         \A d \in D : v[d] = w[d]
  PROVE  SumOf(v, D) = SumOf(w, D)
<1>1. \A d \in D : v[d] \in Int
  OBVIOUS
<1>2. IsSum(D, w, SumOf(w, D))
  BY SumIs
<1>3. IsSum(D, v, SumOf(w, D))
  BY <1>2, SumStays
<1> QED BY <1>1, <1>3, SumIs

\* Nothing adds up to nothing.
LEMMA SumOfZeros ==
  ASSUME NEW D, IsFiniteSet(D), NEW w, \A d \in D : w[d] = 0
  PROVE  SumOf(w, D) = 0
<1> DEFINE Odd == {T \in SUBSET D : SumOf(w, T) # 0}
<1>1. Odd = {}
  <2> SUFFICES ASSUME Odd # {} PROVE FALSE
    OBVIOUS
  <2>1. Odd \in SUBSET SUBSET D
    OBVIOUS
  <2>2. PICK M \in Odd : \A N \in Odd : N \subseteq M => N = M
    <3> HIDE DEF Odd
    <3> QED BY <2>1, LeastPart
  <2>3. M # {}
    BY SumEmpty
  <2>4. PICK x \in M : x \in D
    BY <2>3
  <2> DEFINE N == M \ {x}
  <2>5. N \in SUBSET D /\ N \subseteq M /\ N # M /\ x \notin N /\ N \cup {x} = M
    OBVIOUS
  <2>6. SumOf(w, N) = 0
    <3>1. N \notin Odd
      <4> HIDE DEF N, Odd
      <4> QED BY <2>2, <2>5
    <3> QED BY <2>5, <3>1
  <2>7. IsFiniteSet(N) /\ w[x] = 0 /\ 0 \in Int /\ \A d \in N : w[d] \in Int
    <3>1. IsFiniteSet(N)
      <4> HIDE DEF N
      <4> QED BY <2>5, FS_Subset
    <3> QED BY <2>4, <3>1
  <2>8. SumOf(w, M) = 0
    <3> HIDE DEF N
    <3>1. SumOf(w, N \cup {x}) = SumOf(w, N) + w[x]
      BY <2>5, <2>7, SumInsert
    <3>2. SumOf(w, N \cup {x}) = 0 + 0
      BY <2>6, <2>7, <3>1
    <3> QED BY <2>5, <3>2
  <2> QED BY <2>8
<1> QED BY <1>1

\* Two sets without a common member add up to the sum of both.
LEMMA SumUnion ==
  ASSUME NEW D, IsFiniteSet(D), NEW w, \A d \in D : w[d] \in Int,
         NEW A \in SUBSET D, NEW B \in SUBSET D, A \cap B = {}
  PROVE  SumOf(w, A \cup B) = SumOf(w, A) + SumOf(w, B)
<1> DEFINE Odd == {T \in SUBSET B : SumOf(w, A \cup T) # SumOf(w, A) + SumOf(w, T)}
<1>0. \A T \in SUBSET D : IsFiniteSet(T) /\ SumOf(w, T) \in Int /\ \A d \in T : w[d] \in Int
  <2> SUFFICES ASSUME NEW T \in SUBSET D
               PROVE  IsFiniteSet(T) /\ SumOf(w, T) \in Int /\ \A d \in T : w[d] \in Int
    OBVIOUS
  <2>1. IsFiniteSet(T) /\ \A d \in T : w[d] \in Int
    BY FS_Subset
  <2> QED BY <2>1, SumIs
<1>1. Odd = {}
  <2> SUFFICES ASSUME Odd # {} PROVE FALSE
    OBVIOUS
  <2>1. Odd \in SUBSET SUBSET B /\ IsFiniteSet(B)
    BY <1>0
  <2>2. PICK M \in Odd : \A N \in Odd : N \subseteq M => N = M
    <3> HIDE DEF Odd
    <3> QED BY <2>1, LeastPart
  <2>3. M # {}
    <3>1. A \cup {} = A /\ SumOf(w, A) \in Int
      BY <1>0
    <3>2. SumOf(w, A) = SumOf(w, A) + SumOf(w, {})
      BY <3>1, SumEmpty
    <3> QED BY <3>1, <3>2
  <2>4. PICK x \in M : x \in B
    BY <2>3
  <2> DEFINE N == M \ {x}
             C == A \cup N
  <2>5. /\ N \in SUBSET B /\ N \subseteq M /\ N # M /\ x \notin N /\ N \cup {x} = M
        /\ N \in SUBSET D /\ C \in SUBSET D /\ x \notin C /\ C \cup {x} = A \cup M
        /\ w[x] \in Int
    BY <2>4
  <2>6. SumOf(w, C) = SumOf(w, A) + SumOf(w, N)
    <3>1. N \notin Odd
      <4> HIDE DEF N, Odd
      <4> QED BY <2>2, <2>5
    <3> QED BY <2>5, <3>1
  <2> HIDE DEF N, C
  <2>7. SumOf(w, N \cup {x}) = SumOf(w, N) + w[x]
    BY <1>0, <2>5, SumInsert
  <2>8. SumOf(w, C \cup {x}) = SumOf(w, C) + w[x]
    BY <1>0, <2>5, SumInsert
  <2>9. SumOf(w, A) \in Int /\ SumOf(w, N) \in Int
    BY <1>0, <2>5
  <2>10. SumOf(w, A \cup M) = SumOf(w, A) + SumOf(w, M)
    <3>1. SumOf(w, M) = SumOf(w, N) + w[x]
      BY <2>5, <2>7
    <3>2. SumOf(w, A \cup M) = (SumOf(w, A) + SumOf(w, N)) + w[x]
      BY <2>5, <2>6, <2>8
    <3>3. PICK a \in Int, n \in Int, k \in Int :
            a = SumOf(w, A) /\ n = SumOf(w, N) /\ k = w[x]
      BY <2>5, <2>9
    <3>4. (a + n) + k = a + (n + k)
      OBVIOUS
    <3> QED BY <3>1, <3>2, <3>3, <3>4
  <2> QED BY <2>10
<1> QED BY <1>1

\* One weight is replaced.
LEMMA SumChange ==
  ASSUME NEW D, IsFiniteSet(D), NEW v, NEW w, NEW c \in D, \A d \in D : w[d] \in Int,
         v[c] \in Int, \A d \in D : d # c => v[d] = w[d]
  PROVE  SumOf(v, D) = SumOf(w, D) + (v[c] - w[c])
<1> DEFINE E == D \ {c}
<1>1. /\ IsFiniteSet(E) /\ c \notin E /\ E \cup {c} = D /\ w[c] \in Int
      /\ \A d \in E : w[d] \in Int /\ v[d] = w[d] /\ v[d] \in Int
  BY FS_RemoveElement
<1> HIDE DEF E
<1>2. SumOf(v, E) = SumOf(w, E) /\ SumOf(w, E) \in Int
  BY <1>1, SumSame, SumIs
<1>3. SumOf(v, E \cup {c}) = SumOf(v, E) + v[c]
  BY <1>1, SumInsert
<1>4. SumOf(w, E \cup {c}) = SumOf(w, E) + w[c]
  BY <1>1, SumInsert
<1>5. PICK e \in Int, i \in Int, j \in Int : e = SumOf(w, E) /\ i = v[c] /\ j = w[c]
  BY <1>1, <1>2
<1>6. SumOf(v, D) = e + i /\ SumOf(w, D) = e + j
  BY <1>1, <1>2, <1>3, <1>4, <1>5
<1>7. e + i = (e + j) + (i - j)
  OBVIOUS
<1> QED BY <1>5, <1>6, <1>7

\* A function that takes one element after another returns the sum, whatever
\* element it takes first.
LEMMA FoldIsSum ==
  ASSUME NEW U, IsFiniteSet(U), NEW w, \A d \in U : w[d] \in Int, NEW f, f[{}] = 0,
         \A S \in SUBSET U : S # {} =>
           \E x \in S : f[S \ {x}] \in Int => f[S] = f[S \ {x}] + w[x]
  PROVE  f[U] = SumOf(w, U)
<1> DEFINE Wrong == {S \in SUBSET U : f[S] # SumOf(w, S)}
<1>1. Wrong = {}
  <2> SUFFICES ASSUME Wrong # {} PROVE FALSE
    OBVIOUS
  <2>1. Wrong \in SUBSET SUBSET U
    OBVIOUS
  <2>2. PICK M \in Wrong : \A N \in Wrong : N \subseteq M => N = M
    <3> HIDE DEF Wrong
    <3> QED BY <2>1, LeastPart
  <2>3. M \in SUBSET U /\ f[M] # SumOf(w, M)
    OBVIOUS
  <2>4. M # {}
    BY <2>3, SumEmpty
  <2>5. PICK x \in M : f[M \ {x}] \in Int => f[M] = f[M \ {x}] + w[x]
    BY <2>3, <2>4
  <2> DEFINE N == M \ {x}
  <2>6. N \in SUBSET U /\ N \subseteq M /\ N # M /\ x \notin N /\ N \cup {x} = M /\ w[x] \in Int
    BY <2>3
  <2>7. f[N] = SumOf(w, N)
    <3>1. N \notin Wrong
      <4> HIDE DEF N, Wrong
      <4> QED BY <2>2, <2>6
    <3> QED BY <2>6, <3>1
  <2>8. IsFiniteSet(N) /\ \A d \in N : w[d] \in Int
    <3> HIDE DEF N
    <3> QED BY <2>6, FS_Subset
  <2>9. f[N] \in Int => f[M] = f[N] + w[x]
    BY <2>5
  <2> HIDE DEF N
  <2>10. SumOf(w, N) \in Int
    BY <2>8, SumIs
  <2>11. SumOf(w, N \cup {x}) = SumOf(w, N) + w[x]
    BY <2>6, <2>8, SumInsert
  <2> QED BY <2>3, <2>6, <2>7, <2>9, <2>10, <2>11
<1> QED BY <1>1

-----------------------------------------------------------------------------
(* The sums the tables are read with.  They are folds over sets, recursive    *)
(* functions; each is named here and shown to be SumOf of its weights.        *)

PickOf(S) == CHOOSE x \in S : TRUE

Shipping(t) == [p \in Packages |-> t[p].shippingFee]
ShippingFolds(t, D, f) ==
  f = [S \in SUBSET D |-> IF S = {} THEN 0
                          ELSE t[PickOf(S)].shippingFee + f[S \ {PickOf(S)}]]
ShippingFold(t, D) == (CHOOSE f : ShippingFolds(t, D, f))[D]

AmountsIn(t) == [g \in FeeIds |-> t[g].amount]
FeesFold(t, D, f) ==
  f = [S \in SUBSET D |-> IF S = {} THEN 0 ELSE t[PickOf(S)].amount + f[S \ {PickOf(S)}]]
FeeFold(t, D) == (CHOOSE f : FeesFold(t, D, f))[D]

PriceNow == [p \in Packages |-> PriceOf(p)]
PricesFold(D, f) ==
  f = [S \in SUBSET D |-> IF S = {} THEN 0 ELSE PriceOf(PickOf(S)) + f[S \ {PickOf(S)}]]
PriceFold(D) == (CHOOSE f : PricesFold(D, f))[D]

\* What an entry of the log adds to what was paid on the bill b.
Paid(e, b) == IF e.bill = b THEN 0 - Promise!Signed(e) ELSE 0
PaidIn(l, b) == [i \in DOMAIN l |-> Paid(l[i], b)]
LogFolds(l, b, f) ==
  f = [S \in SUBSET DOMAIN l |->
         IF S = {} THEN 0
         ELSE IF l[PickOf(S)].bill = b
              THEN f[S \ {PickOf(S)}] - Promise!Signed(l[PickOf(S)]) ELSE f[S \ {PickOf(S)}]]
LogFold(l, b) == (CHOOSE f : LogFolds(l, b, f))[DOMAIN l]

OnBill(t, b) == {p \in Packages : t[p].bill = b}
CountedOn(t, b) == {g \in FeeIds : t[g] # NoRow /\ t[g].bill = b /\ t[g].status # "Disable"}

\* The totals of the bill b are the sums of the rows on it.
RowsAgree(b) ==
  /\ bills[b].shipping = ShippingFold(pkgs, OnBill(pkgs, b))
  /\ bills[b].extra = FeeFold(fees, CountedOn(fees, b))

\* The sum of fees, with its fold named.
LEMMA SumOfFeesIs ==
  ASSUME NEW D
  PROVE  SumOfFees(D) = FeeFold(fees, D)
BY DEF SumOfFees, FeeFold, FeesFold, MapThenSumSet, MapThenFoldSet, PickOf

\* The sum of prices, with its fold named.
LEMMA SumOfPricesIs ==
  ASSUME NEW D
  PROVE  MapThenSumSet(PriceOf, D) = PriceFold(D)
BY DEF PriceFold, PricesFold, MapThenSumSet, MapThenFoldSet, PickOf

\* BillMatchesRows, with its folds named.
LEMMA RowsAgreeIs ==
  BillMatchesRows <=> \A b \in Bills : (bills[b] # NoRow /\ b \notin adrift) => RowsAgree(b)
<1>1. \A b : FeesOn(b) = CountedOn(fees, b)
  BY DEF FeesOn, Rows, CountedOn
<1>2. \A b : SumOfFees(FeesOn(b)) = FeeFold(fees, CountedOn(fees, b))
  BY <1>1, SumOfFeesIs
<1>3. \A b : MapThenSumSet(LAMBDA p : pkgs[p].shippingFee, {p \in Packages : pkgs[p].bill = b})
               = ShippingFold(pkgs, OnBill(pkgs, b))
  BY DEF ShippingFold, ShippingFolds, OnBill, MapThenSumSet, MapThenFoldSet, PickOf
<1> QED BY <1>2, <1>3 DEF BillMatchesRows, RowsAgree

\* BillMatchesPayments, with its fold named.
LEMMA PaymentsAgreeIs ==
  BillMatchesPayments <=>
    \A b \in Bills : (bills[b] # NoRow /\ b \notin adrift) =>
      bills[b].shipping + bills[b].extra = LogFold(log, b)
BY DEF BillMatchesPayments, LogFold, LogFolds, FoldSeq, FoldFunction, FoldFunctionOnSet,
       MapThenFoldSet, PickOf

\* An element taken out of a set takes its weight along.
LEMMA SumTakes ==
  ASSUME NEW U, IsFiniteSet(U), NEW w, \A d \in U : w[d] \in Int, NEW S \in SUBSET U,
         NEW x \in S
  PROVE  /\ SumOf(w, S) = SumOf(w, S \ {x}) + w[x]
         /\ SumOf(w, S \ {x}) \in Int /\ w[x] \in Int
<1> DEFINE N == S \ {x}
<1>1. N \in SUBSET U /\ x \notin N /\ N \cup {x} = S /\ w[x] \in Int
  OBVIOUS
<1> HIDE DEF N
<1>2. IsFiniteSet(N) /\ \A d \in N : w[d] \in Int
  BY <1>1, FS_Subset
<1>3. SumOf(w, N \cup {x}) = SumOf(w, N) + w[x]
  BY <1>1, <1>2, SumInsert
<1>4. SumOf(w, N) \in Int
  BY <1>2, SumIs
<1> QED BY <1>1, <1>3, <1>4 DEF N

\* The picked element is one of the set.
LEMMA PickIs ==
  ASSUME NEW S, S # {}
  PROVE  PickOf(S) \in S
BY DEF PickOf

\* A fold that adds the weight of the picked element.
WeightsFold(w, D, f) ==
  f = [S \in SUBSET D |-> IF S = {} THEN 0 ELSE w[PickOf(S)] + f[S \ {PickOf(S)}]]

\* The sum is such a fold.
LEMMA SumFolds ==
  ASSUME NEW D, IsFiniteSet(D), NEW w, \A d \in D : w[d] \in Int
  PROVE  WeightsFold(w, D, [S \in SUBSET D |-> SumOf(w, S)])
<1> DEFINE g == [S \in SUBSET D |-> SumOf(w, S)]
<1>1. ASSUME NEW S \in SUBSET D
      PROVE  g[S] = IF S = {} THEN 0 ELSE w[PickOf(S)] + g[S \ {PickOf(S)}]
  <2>1. CASE S = {}
    BY <2>1, SumEmpty
  <2>2. CASE S # {}
    <3> DEFINE x == PickOf(S)
               n == SumOf(w, S \ {x})
    <3>1. x \in S /\ S \ {x} \in SUBSET D
      BY <2>2, PickIs
    <3> HIDE DEF x
    <3>2. SumOf(w, S) = n + w[x] /\ n \in Int /\ w[x] \in Int
      BY <3>1, SumTakes
    <3>3. g[S] = SumOf(w, S) /\ g[S \ {x}] = n
      BY <3>1
    <3> HIDE DEF g, n
    <3>4. g[S] = w[x] + g[S \ {x}]
      BY <3>2, <3>3
    <3> QED BY <2>2, <3>4 DEF x
  <2> QED BY <2>1, <2>2
<1> QED BY <1>1 DEF WeightsFold

\* Every such fold returns the sum.
LEMMA FoldSums ==
  ASSUME NEW D, IsFiniteSet(D), NEW w, \A d \in D : w[d] \in Int, NEW f, WeightsFold(w, D, f)
  PROVE  f[D] = SumOf(w, D)
<1>1. \A S \in SUBSET D : f[S] = IF S = {} THEN 0 ELSE w[PickOf(S)] + f[S \ {PickOf(S)}]
  BY DEF WeightsFold
<1>2. f[{}] = 0
  BY <1>1
<1>3. ASSUME NEW S \in SUBSET D, S # {}
      PROVE  \E x \in S : f[S \ {x}] \in Int => f[S] = f[S \ {x}] + w[x]
  <2> DEFINE x == PickOf(S)
  <2>1. x \in S /\ w[x] \in Int
    BY <1>3, PickIs
  <2>2. f[S] = w[x] + f[S \ {x}]
    BY <1>1, <1>3
  <2> HIDE DEF x
  <2>3. ASSUME f[S \ {x}] \in Int PROVE f[S] = f[S \ {x}] + w[x]
    BY <2>1, <2>2, <2>3
  <2> QED BY <2>1, <2>3
<1> QED BY <1>2, <1>3, FoldIsSum

\* The fold of shipping fees.
LEMMA ShippingFoldIs ==
  ASSUME NEW t, NEW D, IsFiniteSet(D), D \subseteq Packages, \A p \in D : t[p].shippingFee \in Int
  PROVE  ShippingFold(t, D) = SumOf(Shipping(t), D)
<1> DEFINE w == Shipping(t)
           f == CHOOSE h : ShippingFolds(t, D, h)
<1>1. \A d \in D : w[d] = t[d].shippingFee /\ w[d] \in Int
  BY DEF Shipping
<1> HIDE DEF w
<1>2. \A h : ShippingFolds(t, D, h) <=> WeightsFold(w, D, h)
  <2>1. \A S \in SUBSET D : S # {} => w[PickOf(S)] = t[PickOf(S)].shippingFee
    BY <1>1, PickIs
  <2> QED BY <2>1 DEF ShippingFolds, WeightsFold
<1>3. \E h : ShippingFolds(t, D, h)
  BY <1>1, <1>2, SumFolds
<1>4. WeightsFold(w, D, f)
  BY <1>2, <1>3
<1> HIDE DEF f
<1>5. f[D] = SumOf(w, D)
  BY <1>1, <1>4, FoldSums
<1> QED BY <1>5 DEF ShippingFold, f, w

\* The fold of fees.
LEMMA FeeFoldIs ==
  ASSUME NEW t, NEW D, IsFiniteSet(D), D \subseteq FeeIds, \A p \in D : t[p].amount \in Int
  PROVE  FeeFold(t, D) = SumOf(AmountsIn(t), D)
<1> DEFINE w == AmountsIn(t)
           f == CHOOSE h : FeesFold(t, D, h)
<1>1. \A d \in D : w[d] = t[d].amount /\ w[d] \in Int
  BY DEF AmountsIn
<1> HIDE DEF w
<1>2. \A h : FeesFold(t, D, h) <=> WeightsFold(w, D, h)
  <2>1. \A S \in SUBSET D : S # {} => w[PickOf(S)] = t[PickOf(S)].amount
    BY <1>1, PickIs
  <2> QED BY <2>1 DEF FeesFold, WeightsFold
<1>3. \E h : FeesFold(t, D, h)
  BY <1>1, <1>2, SumFolds
<1>4. WeightsFold(w, D, f)
  BY <1>2, <1>3
<1> HIDE DEF f
<1>5. f[D] = SumOf(w, D)
  BY <1>1, <1>4, FoldSums
<1> QED BY <1>5 DEF FeeFold, f, w

\* The fold of prices.
LEMMA PriceFoldIs ==
  ASSUME NEW D, IsFiniteSet(D), D \subseteq Packages, \A p \in D : PriceOf(p) \in Int
  PROVE  PriceFold(D) = SumOf(PriceNow, D)
<1> DEFINE w == PriceNow
           f == CHOOSE h : PricesFold(D, h)
<1>1. \A d \in D : w[d] = PriceOf(d) /\ w[d] \in Int
  BY DEF PriceNow
<1> HIDE DEF w
<1>2. \A h : PricesFold(D, h) <=> WeightsFold(w, D, h)
  <2>1. \A S \in SUBSET D : S # {} => w[PickOf(S)] = PriceOf(PickOf(S))
    BY <1>1, PickIs
  <2> QED BY <2>1 DEF PricesFold, WeightsFold
<1>3. \E h : PricesFold(D, h)
  BY <1>1, <1>2, SumFolds
<1>4. WeightsFold(w, D, f)
  BY <1>2, <1>3
<1> HIDE DEF f
<1>5. f[D] = SumOf(w, D)
  BY <1>1, <1>4, FoldSums
<1> QED BY <1>5 DEF PriceFold, f, w

\* The fold of the log.
LEMMA LogFoldIs ==
  ASSUME NEW l, NEW b, IsFiniteSet(DOMAIN l), \A i \in DOMAIN l : Promise!Signed(l[i]) \in Int
  PROVE  LogFold(l, b) = SumOf(PaidIn(l, b), DOMAIN l)
<1> DEFINE D == DOMAIN l
           w == PaidIn(l, b)
           g == [S \in SUBSET D |-> SumOf(w, S)]
           f == CHOOSE h : LogFolds(l, b, h)
<1>1. \A i \in D : w[i] = Paid(l[i], b) /\ w[i] \in Int
  BY DEF PaidIn, Paid
<1> HIDE DEF w
<1>2. ASSUME NEW S \in SUBSET D
      PROVE  g[S] = IF S = {} THEN 0
                    ELSE IF l[PickOf(S)].bill = b
                         THEN g[S \ {PickOf(S)}] - Promise!Signed(l[PickOf(S)])
                         ELSE g[S \ {PickOf(S)}]
  <2>1. CASE S = {}
    BY <2>1, SumEmpty
  <2>2. CASE S # {}
    <3> DEFINE x == PickOf(S)
               n == SumOf(w, S \ {x})
    <3>1. x \in S /\ S \ {x} \in SUBSET D
      BY <2>2, PickIs
    <3> HIDE DEF x
    <3>2. SumOf(w, S) = n + w[x] /\ n \in Int /\ w[x] \in Int
      <4> HIDE DEF D
      <4> QED BY <1>1, <3>1, SumTakes DEF D
    <3>3. g[S] = SumOf(w, S) /\ g[S \ {x}] = n
      BY <3>1
    <3>4. Promise!Signed(l[x]) \in Int /\ w[x] = Paid(l[x], b)
      BY <1>1, <3>1
    <3> HIDE DEF g, n
    <3>5. g[S] = IF l[x].bill = b THEN g[S \ {x}] - Promise!Signed(l[x]) ELSE g[S \ {x}]
      <4>1. CASE l[x].bill = b
        <5>1. w[x] = 0 - Promise!Signed(l[x])
          BY <3>4, <4>1 DEF Paid
        <5>2. PICK k \in Int : k = Promise!Signed(l[x])
          BY <3>4
        <5>3. n + (0 - k) = n - k
          BY <3>2
        <5> QED BY <3>2, <3>3, <4>1, <5>1, <5>2, <5>3
      <4>2. CASE l[x].bill # b
        <5>1. w[x] = 0
          BY <3>4, <4>2 DEF Paid
        <5> QED BY <3>2, <3>3, <4>2, <5>1
      <4> QED BY <4>1, <4>2
    <3> QED BY <2>2, <3>5 DEF x
  <2> QED BY <2>1, <2>2
<1>3. LogFolds(l, b, g)
  BY <1>2 DEF LogFolds
<1> HIDE DEF g
<1>4. LogFolds(l, b, f)
  BY <1>3
<1> HIDE DEF f
<1>5. \A S \in SUBSET D :
        f[S] = IF S = {} THEN 0
               ELSE IF l[PickOf(S)].bill = b
                    THEN f[S \ {PickOf(S)}] - Promise!Signed(l[PickOf(S)])
                    ELSE f[S \ {PickOf(S)}]
  BY <1>4 DEF LogFolds
<1>6. f[{}] = 0
  BY <1>5
<1>7. ASSUME NEW S \in SUBSET D, S # {}
      PROVE  \E x \in S : f[S \ {x}] \in Int => f[S] = f[S \ {x}] + w[x]
  <2> DEFINE x == PickOf(S)
             m == f[S \ {x}]
  <2>1. x \in S /\ w[x] = Paid(l[x], b) /\ Promise!Signed(l[x]) \in Int
    BY <1>1, <1>7, PickIs
  <2>2. f[S] = IF l[x].bill = b THEN m - Promise!Signed(l[x]) ELSE m
    BY <1>5, <1>7
  <2> HIDE DEF x, m
  <2>3. ASSUME m \in Int PROVE f[S] = m + w[x]
    <3>1. PICK k \in Int : k = Promise!Signed(l[x])
      BY <2>1
    <3>2. m + (0 - k) = m - k /\ m + 0 = m
      BY <2>3
    <3>3. CASE l[x].bill = b
      BY <2>1, <2>2, <3>1, <3>2, <3>3 DEF Paid
    <3>4. CASE l[x].bill # b
      BY <2>1, <2>2, <3>2, <3>4 DEF Paid
    <3> QED BY <3>3, <3>4
  <2> QED BY <2>1, <2>3 DEF m
<1>8. f[D] = SumOf(w, D)
  <2> HIDE DEF D
  <2> QED BY <1>1, <1>6, <1>7, FoldIsSum DEF D
<1> QED BY <1>8 DEF LogFold, f, w

-----------------------------------------------------------------------------
(* Sums over the tables. *)

PackageTable == [Packages -> PackageRow]
FeeTable == [FeeIds -> FeeRow \cup {NoRow}]

ShippingOn(P, b) == SumOf(Shipping(P), OnBill(P, b))
FeesSum(F, b) == SumOf(AmountsIn(F), CountedOn(F, b))
PaidOn(l, b) == SumOf(PaidIn(l, b), DOMAIN l)

\* Packages have numbers for fees.
LEMMA PackagesOf ==
  ASSUME NEW P \in PackageTable
  PROVE  \A p \in Packages : /\ P[p] \in PackageRow /\ P[p].shippingFee \in Int
                             /\ Shipping(P)[p] = P[p].shippingFee
<1>1. \A x \in PackageRow : x.shippingFee \in Int
  <2>1. \A a \in Prices : a \in Int
    BY WalletConstants
  <2> QED BY <2>1 DEF PackageRow
<1> QED BY <1>1 DEF PackageTable, Shipping

\* Fees have numbers for amounts.
LEMMA FeesOf ==
  ASSUME NEW F \in FeeTable
  PROVE  \A g \in FeeIds : F[g] # NoRow =>
           /\ F[g] \in FeeRow /\ F[g].amount \in Int /\ F[g].package \in Packages
           /\ AmountsIn(F)[g] = F[g].amount
<1>1. \A x \in FeeRow : x.amount \in Int /\ x.package \in Packages
  BY WalletConstants DEF FeeRow, Money
<1> QED BY <1>1 DEF FeeTable, AmountsIn

\* So have the entries of the log.
LEMMA EntriesOf ==
  ASSUME NEW l \in Seq(LogRow), NEW b
  PROVE  /\ DOMAIN l = 1..Len(l) /\ Len(l) \in Nat /\ IsFiniteSet(DOMAIN l)
         /\ \A i \in DOMAIN l : /\ l[i] \in LogRow /\ Promise!Signed(l[i]) \in Int
                                /\ PaidIn(l, b)[i] = Paid(l[i], b) /\ Paid(l[i], b) \in Int
<1>1. DOMAIN l = 1..Len(l) /\ Len(l) \in Nat /\ \A i \in DOMAIN l : l[i] \in LogRow
  OBVIOUS
<1>2. IsFiniteSet(1..Len(l))
  BY <1>1, FS_Interval
<1>3. \A e \in LogRow : Promise!Signed(e) \in Int
  <2> SUFFICES ASSUME NEW e \in LogRow PROVE Promise!Signed(e) \in Int
    OBVIOUS
  <2>1. e.amount \in Int
    BY WalletConstants DEF LogRow
  <2> QED BY <2>1 DEF Promise!Signed
<1>4. \A e \in LogRow : Paid(e, b) \in Int
  BY <1>3 DEF Paid
<1> QED BY <1>1, <1>2, <1>3, <1>4 DEF PaidIn

\* The folds the model sums rows with are these sums.
LEMMA ShippingSum ==
  ASSUME NEW P \in PackageTable, NEW D \in SUBSET Packages
  PROVE  /\ IsFiniteSet(D) /\ SumOf(Shipping(P), D) \in Int
         /\ ShippingFold(P, D) = SumOf(Shipping(P), D)
<1>1. IsFiniteSet(D)
  BY WalletConstants, FS_Subset
<1>2. \A p \in D : P[p].shippingFee \in Int /\ Shipping(P)[p] \in Int
  BY PackagesOf
<1>3. ShippingFold(P, D) = SumOf(Shipping(P), D)
  BY <1>1, <1>2, ShippingFoldIs
<1>4. SumOf(Shipping(P), D) \in Int
  BY <1>1, <1>2, SumIs
<1> QED BY <1>1, <1>3, <1>4

\* The fold of the amounts of fees.
LEMMA FeeSum ==
  ASSUME NEW F \in FeeTable, NEW D \in SUBSET FeeIds, \A g \in D : F[g] # NoRow
  PROVE  /\ IsFiniteSet(D) /\ SumOf(AmountsIn(F), D) \in Int
         /\ FeeFold(F, D) = SumOf(AmountsIn(F), D)
<1>1. IsFiniteSet(D)
  BY WalletConstants, FS_Subset
<1>2. \A g \in D : F[g].amount \in Int /\ AmountsIn(F)[g] \in Int
  BY FeesOf
<1>3. FeeFold(F, D) = SumOf(AmountsIn(F), D)
  BY <1>1, <1>2, FeeFoldIs
<1>4. SumOf(AmountsIn(F), D) \in Int
  BY <1>1, <1>2, SumIs
<1> QED BY <1>1, <1>3, <1>4

\* The fold of what the log says was paid.
LEMMA LogSum ==
  ASSUME NEW l \in Seq(LogRow), NEW b
  PROVE  PaidOn(l, b) \in Int /\ LogFold(l, b) = PaidOn(l, b)
<1>1. IsFiniteSet(DOMAIN l) /\ \A i \in DOMAIN l : Promise!Signed(l[i]) \in Int
  BY EntriesOf
<1>2. \A i \in DOMAIN l : PaidIn(l, b)[i] \in Int
  BY EntriesOf
<1>3. LogFold(l, b) = PaidOn(l, b)
  BY <1>1, LogFoldIs DEF PaidOn
<1>4. PaidOn(l, b) \in Int
  BY <1>1, <1>2, SumIs DEF PaidOn
<1> QED BY <1>3, <1>4

\* The folds over the rows of a bill.
LEMMA SumsOn ==
  ASSUME NEW P \in PackageTable, NEW F \in FeeTable, NEW b
  PROVE  /\ ShippingOn(P, b) \in Int /\ ShippingFold(P, OnBill(P, b)) = ShippingOn(P, b)
         /\ FeesSum(F, b) \in Int /\ FeeFold(F, CountedOn(F, b)) = FeesSum(F, b)
<1>1. OnBill(P, b) \in SUBSET Packages
  BY DEF OnBill
<1>2. CountedOn(F, b) \in SUBSET FeeIds /\ \A g \in CountedOn(F, b) : F[g] # NoRow
  BY DEF CountedOn
<1>3. ShippingOn(P, b) \in Int /\ ShippingFold(P, OnBill(P, b)) = ShippingOn(P, b)
  BY <1>1, ShippingSum DEF ShippingOn
<1>4. FeesSum(F, b) \in Int /\ FeeFold(F, CountedOn(F, b)) = FeesSum(F, b)
  BY <1>2, FeeSum DEF FeesSum
<1> QED BY <1>3, <1>4

\* The same packages at the same price.
LEMMA SameShipping ==
  ASSUME NEW P \in PackageTable, NEW Q \in PackageTable, NEW b,
         OnBill(Q, b) = OnBill(P, b),
         \A p \in OnBill(P, b) : Q[p].shippingFee = P[p].shippingFee
  PROVE  ShippingOn(Q, b) = ShippingOn(P, b)
<1> DEFINE D == OnBill(P, b)
<1>1. D \in SUBSET Packages
  BY DEF OnBill
<1> HIDE DEF D
<1>2. IsFiniteSet(D)
  BY <1>1, ShippingSum
<1>3. \A p \in D : Shipping(P)[p] \in Int /\ Shipping(Q)[p] = Shipping(P)[p]
  BY <1>1, PackagesOf DEF D
<1>4. SumOf(Shipping(Q), D) = SumOf(Shipping(P), D)
  BY <1>2, <1>3, SumSame
<1> QED BY <1>4 DEF ShippingOn, D

\* The same fees with the same amounts.
LEMMA SameFees ==
  ASSUME NEW F \in FeeTable, NEW G \in FeeTable, NEW b,
         CountedOn(G, b) = CountedOn(F, b),
         \A g \in CountedOn(F, b) : G[g].amount = F[g].amount
  PROVE  FeesSum(G, b) = FeesSum(F, b)
<1> DEFINE D == CountedOn(F, b)
<1>1. D \in SUBSET FeeIds /\ \A g \in D : F[g] # NoRow /\ G[g] # NoRow
  BY DEF CountedOn
<1>0. \A g \in D : G[g].amount = F[g].amount
  OBVIOUS
<1> HIDE DEF D
<1>2. IsFiniteSet(D)
  BY <1>1, FeeSum
<1>3. \A g \in D : AmountsIn(F)[g] \in Int /\ AmountsIn(G)[g] = AmountsIn(F)[g]
  BY <1>0, <1>1, FeesOf
<1>4. SumOf(AmountsIn(G), D) = SumOf(AmountsIn(F), D)
  BY <1>2, <1>3, SumSame
<1> QED BY <1>4 DEF FeesSum, D

\* One more fee on a bill.
LEMMA OneFeeMore ==
  ASSUME NEW F \in FeeTable, NEW G \in FeeTable, NEW b, NEW f \in FeeIds,
         f \notin CountedOn(F, b), CountedOn(G, b) = CountedOn(F, b) \cup {f},
         \A g \in CountedOn(F, b) : G[g].amount = F[g].amount
  PROVE  FeesSum(G, b) = FeesSum(F, b) + G[f].amount
<1> DEFINE D == CountedOn(F, b)
           v == AmountsIn(F)
           w == AmountsIn(G)
<1>1. D \in SUBSET FeeIds /\ \A g \in D : F[g] # NoRow /\ G[g] # NoRow
  BY DEF CountedOn
<1>2. G[f] # NoRow
  BY DEF CountedOn
<1>0. f \notin D /\ \A g \in D : G[g].amount = F[g].amount
  OBVIOUS
<1> HIDE DEF D
<1>3. IsFiniteSet(D)
  BY <1>1, FeeSum
<1>4. \A g \in D : v[g] \in Int /\ w[g] = v[g] /\ w[g] \in Int
  BY <1>0, <1>1, FeesOf
<1>5. w[f] = G[f].amount /\ w[f] \in Int
  BY <1>2, FeesOf
<1> HIDE DEF v, w
<1>6. SumOf(w, D) = SumOf(v, D)
  BY <1>3, <1>4, SumSame
<1>7. SumOf(w, D \cup {f}) = SumOf(w, D) + w[f]
  BY <1>0, <1>3, <1>4, <1>5, SumInsert
<1>8. FeesSum(G, b) = SumOf(w, D \cup {f}) /\ FeesSum(F, b) = SumOf(v, D)
  BY DEF FeesSum, D, v, w
<1> QED BY <1>5, <1>6, <1>7, <1>8

\* One amount is replaced.
LEMMA OneFeeChanged ==
  ASSUME NEW F \in FeeTable, NEW G \in FeeTable, NEW b, NEW f \in CountedOn(F, b),
         CountedOn(G, b) = CountedOn(F, b),
         \A g \in CountedOn(F, b) : g # f => G[g].amount = F[g].amount
  PROVE  FeesSum(G, b) = FeesSum(F, b) + (G[f].amount - F[f].amount)
<1> DEFINE D == CountedOn(F, b)
           v == AmountsIn(F)
           w == AmountsIn(G)
<1>1. f \in D /\ D \in SUBSET FeeIds /\ \A g \in D : F[g] # NoRow /\ G[g] # NoRow
  BY DEF CountedOn
<1>0. \A g \in D : g # f => G[g].amount = F[g].amount
  OBVIOUS
<1> HIDE DEF D
<1>2. IsFiniteSet(D)
  BY <1>1, FeeSum
<1>3. \A g \in D : /\ v[g] = F[g].amount /\ w[g] = G[g].amount
                   /\ v[g] \in Int /\ w[g] \in Int
  BY <1>1, FeesOf
<1> HIDE DEF v, w
<1>4. SumOf(w, D) = SumOf(v, D) + (w[f] - v[f])
  BY <1>0, <1>1, <1>2, <1>3, SumChange
<1>5. FeesSum(G, b) = SumOf(w, D) /\ FeesSum(F, b) = SumOf(v, D)
  BY DEF FeesSum, D, v, w
<1> QED BY <1>1, <1>3, <1>4, <1>5

\* One more entry in the log.
LEMMA OneEntryMore ==
  ASSUME NEW l \in Seq(LogRow), NEW e \in LogRow, NEW b
  PROVE  PaidOn(Append(l, e), b) = PaidOn(l, b) + Paid(e, b)
<1> DEFINE m == Append(l, e)
           D == DOMAIN l
           n == Len(l) + 1
           v == PaidIn(l, b)
           w == PaidIn(m, b)
<1>1. /\ m \in Seq(LogRow) /\ D = 1..Len(l) /\ Len(l) \in Nat
      /\ DOMAIN m = D \cup {n} /\ n \notin D /\ m[n] = e
      /\ \A i \in D : m[i] = l[i]
  OBVIOUS
<1>2. IsFiniteSet(D) /\ \A i \in D : v[i] = Paid(l[i], b) /\ v[i] \in Int
  BY EntriesOf
<1>3. \A i \in D \cup {n} : w[i] = Paid(m[i], b) /\ w[i] \in Int
  <2>1. \A i \in DOMAIN m : w[i] = Paid(m[i], b) /\ w[i] \in Int
    <3>1. m \in Seq(LogRow)
      BY <1>1
    <3> HIDE DEF m
    <3> QED BY <3>1, EntriesOf
  <2> QED BY <1>1, <2>1
<1>4. PaidOn(m, b) = SumOf(w, D \cup {n}) /\ PaidOn(l, b) = SumOf(v, D)
  BY <1>1 DEF PaidOn
<1> HIDE DEF m, D, n, v, w
<1>5. SumOf(w, D) = SumOf(v, D)
  <2>1. \A i \in D : w[i] = v[i] /\ v[i] \in Int
    BY <1>1, <1>2, <1>3
  <2> QED BY <1>2, <2>1, SumSame
<1>6. SumOf(w, D \cup {n}) = SumOf(w, D) + w[n]
  BY <1>1, <1>2, <1>3, SumInsert
<1>7. w[n] = Paid(e, b) /\ w[n] \in Int
  BY <1>1, <1>3
<1>8. PaidOn(m, b) = PaidOn(l, b) + Paid(e, b)
  BY <1>4, <1>5, <1>6, <1>7
<1> QED BY <1>8 DEF m

-----------------------------------------------------------------------------
(* How the rows refer to one another. *)

\* A new package is on no bill and none of its fees is; a billed one is on a bill and
\* so are all its fees.  A cancelled one may be on none and have a fee on a bill.
PackagesApart ==
  \A p \in Packages : /\ pkgs[p].status = "Created" => pkgs[p].bill = NoBill
                      /\ pkgs[p].status = "PendingPickup" => pkgs[p].bill \in Bills
FeesApart ==
  \A f \in FeeIds : fees[f] # NoRow =>
    /\ pkgs[fees[f].package].status = "Created" => fees[f].bill = NoBill
    /\ pkgs[fees[f].package].status = "PendingPickup" => fees[f].bill \in Bills

\* The bills that rows are on exist.
PackagesOnBills == \A p \in Packages : pkgs[p].bill \in Bills => bills[pkgs[p].bill] # NoRow
FeesOnBills ==
  \A f \in FeeIds : (fees[f] # NoRow /\ fees[f].bill \in Bills) => bills[fees[f].bill] # NoRow
EntriesOnBills == \A i \in DOMAIN log : log[i].bill \in Bills => bills[log[i].bill] # NoRow

\* A request holds a VAT row that counts, at least one package, or the rows of
\* packages on bills that exist.
HeldVats ==
  \A r \in Requests : (req[r] # Idle /\ req[r].kind = "vat") =>
    fees[req[r].fee].type = "vat" /\ fees[req[r].fee].status # "Disable"
HeldQuotes ==
  \A r \in Requests : (req[r] # Idle /\ req[r].kind = "quote") => req[r].packages # {}
HeldCancels ==
  \A r \in Requests : (req[r] # Idle /\ req[r].kind = "cancel") =>
    \A p \in DOMAIN req[r].seen :
      req[r].seen[p].bill \in Bills => bills[req[r].seen[p].bill] # NoRow

Refs ==
  /\ PackagesApart /\ FeesApart
  /\ PackagesOnBills /\ FeesOnBills /\ EntriesOnBills
  /\ HeldVats /\ HeldQuotes /\ HeldCancels

\* What a fee or a refund on a package that is not new does to the tables.
FeePosted(p, b, f, a) ==
  /\ fees[f] = NoRow /\ bills[b] # NoRow /\ pkgs[p].status # "Created"
  /\ \E row \in FeeRow :
       /\ row.package = p /\ row.bill = b /\ row.amount = a /\ row.status = "Enable"
       /\ fees' = [fees EXCEPT ![f] = row]
  /\ AddExtra(b, a)
  /\ \E e \in LogRow : e.bill = b /\ Paid(e, b) = a /\ log' = Append(log, e)
  /\ UNCHANGED <<pkgs, req>>

\* An extra fee, or a refund by hand, is posted so.
LEMMA ExtraFeePosts ==
  ASSUME TInv, NEW p \in Packages, NEW b \in Bills, NEW f \in FeeIds,
         NEW a \in Money, NEW type \in {"fix", "refund"}, CreateExtraFee(p, b, f, a, type)
  PROVE  FeePosted(p, b, f, a)
<1> DEFINE u == Owner[p]
           row == [package |-> p, bill |-> b, amount |-> a,
                   type |-> type, status |-> "Enable"]
<1>1. u \in Users /\ a \in Int /\ bills[b] # NoRow
  BY WalletConstants DEF CreateExtraFee, RecentBills, Money
<1>2. /\ row \in FeeRow /\ row.package = p /\ row.bill = b /\ row.amount = a
      /\ row.status = "Enable" /\ fees' = [fees EXCEPT ![f] = row]
  BY DEF FeeRow, CreateExtraFee
<1>3. \/ a > 0 /\ Posted(Entry(u, b, "Pay", a))
      \/ a <= 0 /\ Posted(Entry(u, b, "Refund", -a))
  BY <1>1 DEF CreateExtraFee
<1>4. \E e \in LogRow : e.bill = b /\ Paid(e, b) = a /\ log' = Append(log, e)
  <2>1. CASE a > 0 /\ Posted(Entry(u, b, "Pay", a))
    <3> DEFINE e == Entry(u, b, "Pay", a)
    <3>1. e \in LogRow
      BY <1>1, <2>1, PostedType DEF TInv
    <3>2. e.bill = b /\ Promise!Signed(e) = 0 - a
      BY DEF Entry, Promise!Signed
    <3>3. log' = Append(log, e)
      BY <2>1 DEF Posted
    <3> HIDE DEF e
    <3>4. Paid(e, b) = a
      BY <1>1, <3>2 DEF Paid
    <3> QED BY <3>1, <3>2, <3>3, <3>4
  <2>2. CASE a <= 0 /\ Posted(Entry(u, b, "Refund", -a))
    <3> DEFINE e == Entry(u, b, "Refund", -a)
    <3>0. -a \in Nat
      BY <1>1, <2>2
    <3>1. e \in LogRow
      BY <1>1, <2>2, <3>0, PostedType DEF TInv
    <3>2. e.bill = b /\ Promise!Signed(e) = -a
      BY DEF Entry, Promise!Signed
    <3>3. log' = Append(log, e)
      BY <2>2 DEF Posted
    <3> HIDE DEF e
    <3>4. Paid(e, b) = a
      BY <1>1, <3>2 DEF Paid
    <3> QED BY <3>1, <3>2, <3>3, <3>4
  <2> QED BY <1>3, <2>1, <2>2
<1>5. fees[f] = NoRow /\ pkgs[p].status # "Created" /\ AddExtra(b, a) /\ UNCHANGED <<pkgs, req>>
  BY DEF CreateExtraFee
<1> HIDE DEF row
<1>6. QED
  BY <1>1, <1>2, <1>4, <1>5 DEF FeePosted

\* So is a refund of the scheduler.
LEMMA RefundPosts ==
  ASSUME TInv, NEW p \in Packages, NEW b \in Bills, NEW f \in FeeIds,
         NEW a \in FeeAmounts, PackageRefund(p, b, f, a)
  PROVE  FeePosted(p, b, f, -a)
<1> DEFINE u == Owner[p]
           row == [package |-> p, bill |-> b, amount |-> -a,
                   type |-> "refund", status |-> "Enable"]
           e == Entry(u, b, "Refund", a)
<1>1. u \in Users /\ a \in Nat /\ -a \in Money /\ -a \in Int /\ bills[b] # NoRow
  BY WalletConstants DEF PackageRefund, RecentBills, Money
<1>2. /\ row \in FeeRow /\ row.package = p /\ row.bill = b /\ row.amount = -a
      /\ row.status = "Enable" /\ fees' = [fees EXCEPT ![f] = row]
  BY <1>1 DEF FeeRow, PackageRefund
<1>3. Posted(e)
  BY DEF PackageRefund
<1>4. e \in LogRow
  BY <1>1, <1>3, PostedType DEF TInv
<1>5. e.bill = b /\ Promise!Signed(e) = a
  BY DEF Entry, Promise!Signed
<1>6. fees[f] = NoRow /\ pkgs[p].status # "Created" /\ AddExtra(b, -a) /\ UNCHANGED <<pkgs, req>>
  BY DEF PackageRefund
<1> HIDE DEF row, e
<1>7. Paid(e, b) = -a
  BY <1>1, <1>5 DEF Paid
<1>8. log' = Append(log, e)
  BY <1>3 DEF Posted
<1>9. QED
  BY <1>1, <1>2, <1>4, <1>5, <1>6, <1>7, <1>8 DEF FeePosted

\* What an amount added to a bill does to the bills.
LEMMA AddExtraDoes ==
  ASSUME TypeOK, NEW b \in Bills, bills[b] # NoRow, NEW a \in Int, AddExtra(b, a)
  PROVE  /\ bills'[b].shipping = bills[b].shipping /\ bills'[b].extra = bills[b].extra + a
         /\ bills[b].shipping \in Int /\ bills[b].extra \in Int
         /\ \A c \in Bills : c # b => bills'[c] = bills[c]
         /\ \A c \in Bills : bills[c] # NoRow => bills'[c] # NoRow
<1>1. bills[b] \in BillRow
  BY DEF TypeOK
<1>2. bills[b].shipping \in Int /\ bills[b].extra \in Int
  BY <1>1, WalletConstants DEF BillRow, Money
<1>3. bills'[b] = [bills[b] EXCEPT !.extra = @ + a] /\ \A c \in Bills : c # b => bills'[c] = bills[c]
  BY DEF AddExtra, TypeOK
<1>4. bills'[b].shipping = bills[b].shipping /\ bills'[b].extra = bills[b].extra + a
  BY <1>1, <1>3 DEF BillRow
<1>5. \A c \in Bills : bills[c] # NoRow => bills'[c] # NoRow
  BY AddExtraType
<1> QED BY <1>2, <1>3, <1>4, <1>5

\* A row added to the log, on no bill or on one that exists.
LEMMA EntriesKept ==
  ASSUME TypeOK, EntriesOnBills, \A c \in Bills : bills[c] # NoRow => bills'[c] # NoRow,
         \/ log' = log
         \/ \E e \in LogRow : /\ log' = Append(log, e)
                              /\ e.bill \in Bills => bills[e.bill] # NoRow
  PROVE  EntriesOnBills'
<1>1. CASE log' = log
  BY <1>1 DEF EntriesOnBills
<1>2. ASSUME NEW e \in LogRow, log' = Append(log, e), e.bill \in Bills => bills[e.bill] # NoRow
      PROVE  EntriesOnBills'
  <2>1. /\ DOMAIN log' = DOMAIN log \cup {Len(log) + 1}
        /\ \A i \in DOMAIN log : log'[i] = log[i]
        /\ log'[Len(log) + 1] = e
    BY <1>2 DEF TypeOK
  <2> QED BY <1>2, <2>1 DEF EntriesOnBills
<1> QED BY <1>1, <1>2

\* What requests hold, when they are served or wait.
LEMMA HeldKept ==
  ASSUME TInv, HeldVats, HeldQuotes, HeldCancels,
         \A s \in Requests : req'[s] \in {req[s], Idle},
         \A c \in Bills : bills[c] # NoRow => bills'[c] # NoRow,
         \A g \in FeeIds : (fees[g] # NoRow /\ fees[g].type = "vat" /\ fees[g].status # "Disable") =>
           fees'[g].type = "vat" /\ fees'[g].status # "Disable"
  PROVE  HeldVats' /\ HeldQuotes' /\ HeldCancels'
<1>1. HeldQuotes' /\ HeldCancels'
  BY DEF HeldQuotes, HeldCancels
<1>2. ASSUME NEW r \in Requests, req'[r] # Idle, req'[r].kind = "vat"
      PROVE  fees'[req'[r].fee].type = "vat" /\ fees'[req'[r].fee].status # "Disable"
  <2>1. req'[r] = req[r] /\ req[r] # Idle /\ req[r].kind = "vat"
    BY <1>2
  <2>2. req[r].fee \in FeeIds /\ fees[req[r].fee] # NoRow
    BY <2>1, HeldVat, WalletConstants DEF VatChange
  <2>3. fees[req[r].fee].type = "vat" /\ fees[req[r].fee].status # "Disable"
    BY <2>1 DEF HeldVats
  <2> QED BY <2>1, <2>2, <2>3
<1> QED BY <1>1, <1>2 DEF HeldVats

\* Tables that stay as they are, with requests that are served or wait.
LEMMA RefsStutter ==
  ASSUME TInv, Refs, UNCHANGED <<tables, req>>
  PROVE  Refs'
BY DEF Refs, tables, PackagesApart, FeesApart, PackagesOnBills, FeesOnBills, EntriesOnBills,
       HeldVats, HeldQuotes, HeldCancels

\* A new bill.
LEMMA NewBillRefs ==
  ASSUME TInv, Refs, NEW u \in Users, GetOrCreateNowBill(u)
  PROVE  Refs'
<1> DEFINE d == <<u, today>>
           new == [shipping |-> 0, extra |-> 0]
<1>1. /\ bills' = [bills EXCEPT ![d] = new]
      /\ UNCHANGED <<pkgs, fees, log, req>>
  BY DEF GetOrCreateNowBill
<1>2. new # NoRow
  <2>1. new \in BillRow
    BY WalletConstants DEF BillRow, Money
  <2> HIDE DEF new
  <2> QED BY <2>1, WalletConstants
<1> HIDE DEF d, new
<1>3. \A c \in Bills : bills[c] # NoRow => bills'[c] # NoRow
  BY <1>1, <1>2 DEF TInv, TypeOK
<1>4. EntriesOnBills'
  BY <1>1, <1>3, EntriesKept DEF Refs, TInv
<1>5. PackagesOnBills' /\ FeesOnBills'
  BY <1>1, <1>3 DEF Refs, PackagesOnBills, FeesOnBills
<1>6. PackagesApart' /\ FeesApart' /\ HeldVats' /\ HeldQuotes'
  BY <1>1 DEF Refs, PackagesApart, FeesApart, HeldVats, HeldQuotes
<1>7. HeldCancels'
  BY <1>1, <1>3 DEF Refs, HeldCancels
<1> QED BY <1>4, <1>5, <1>6, <1>7 DEF Refs

\* A fee of a package that is not billed.
LEMMA AddFeeRefs ==
  ASSUME TInv, Refs, NEW p \in Packages, NEW f \in FeeIds, NEW type \in {"vat", "oversize"},
         NEW a \in FeeAmounts, AddFee(p, f, type, a)
  PROVE  Refs'
<1> DEFINE row == [package |-> p, bill |-> NoBill, amount |-> a,
                   type |-> type, status |-> "Enable"]
<1>1. fees[f] = NoRow /\ fees' = [fees EXCEPT ![f] = row] /\ row.bill = NoBill
      /\ row.package = p /\ pkgs[p].status = "Created"
  BY DEF AddFee
<1>2. UNCHANGED <<bills, pkgs, log, req>>
  BY DEF AddFee
<1> HIDE DEF row
<1>3. fees'[f] = row /\ \A g \in FeeIds : g # f => fees'[g] = fees[g]
  BY <1>1 DEF TInv, TypeOK
<1>4. FeesApart' /\ FeesOnBills'
  BY <1>1, <1>2, <1>3, WalletConstants DEF Refs, FeesApart, FeesOnBills
<1>5. HeldVats' /\ HeldQuotes' /\ HeldCancels'
  <2>1. \A s \in Requests : req'[s] \in {req[s], Idle}
    BY <1>2
  <2>2. \A g \in FeeIds : (fees[g] # NoRow /\ fees[g].type = "vat" /\ fees[g].status # "Disable") =>
           fees'[g].type = "vat" /\ fees'[g].status # "Disable"
    BY <1>1, <1>3
  <2>3. \A c \in Bills : bills[c] # NoRow => bills'[c] # NoRow
    BY <1>2
  <2> QED BY <2>1, <2>2, <2>3, HeldKept DEF Refs
<1>6. PackagesApart' /\ PackagesOnBills' /\ EntriesOnBills'
  BY <1>2 DEF Refs, PackagesApart, PackagesOnBills, EntriesOnBills
<1> QED BY <1>4, <1>5, <1>6 DEF Refs

\* What the edit of a package does to a fee.
LEMMA EditedFee ==
  ASSUME TInv, NEW p \in Packages, NEW price \in Prices, NEW f \in FeeIds,
         NEW a \in FeeAmounts, SaveUpdatePackage(p, price, f, a), NEW g \in FeeIds
  PROVE  /\ g = f => /\ fees[g] = NoRow /\ fees'[g].bill = NoBill /\ fees'[g].package = p
         /\ (g # f /\ fees[g] # NoRow) =>
              /\ fees'[g] # NoRow /\ fees'[g].package = fees[g].package
              /\ fees'[g].bill = fees[g].bill /\ fees'[g].amount = fees[g].amount
              /\ fees'[g].type = fees[g].type
              /\ fees'[g].status # fees[g].status =>
                   fees[g].package = p /\ fees[g].type = "oversize"
         /\ (g # f /\ fees[g] = NoRow) => fees'[g] = NoRow
<1>1. CASE g = f
  BY <1>1 DEF SaveUpdatePackage
<1>2. CASE g # f /\ g \in Rows /\ fees[g].package = p /\ fees[g].type = "oversize"
  <2>1. fees[g] \in FeeRow
    BY <1>2 DEF Rows, TInv, TypeOK
  <2>2. fees'[g] = [fees[g] EXCEPT !.status = "Disable"]
    BY <1>2 DEF SaveUpdatePackage
  <2>3. fees'[g] \in FeeRow
    BY <2>1, <2>2 DEF FeeRow
  <2>4. /\ fees'[g].package = fees[g].package
        /\ fees'[g].bill = fees[g].bill /\ fees'[g].amount = fees[g].amount
        /\ fees'[g].type = fees[g].type
    BY <2>1, <2>2 DEF FeeRow
  <2>5. fees'[g] # NoRow /\ fees[g] # NoRow
    BY <2>1, <2>3, WalletConstants
  <2> QED BY <1>2, <2>4, <2>5
<1>3. CASE g # f /\ ~(g \in Rows /\ fees[g].package = p /\ fees[g].type = "oversize")
  BY <1>3 DEF SaveUpdatePackage
<1> QED BY <1>1, <1>2, <1>3

\* What it does to the packages.
LEMMA EditedPackage ==
  ASSUME TInv, NEW p \in Packages, NEW price \in Prices, NEW f \in FeeIds,
         NEW a \in FeeAmounts, SaveUpdatePackage(p, price, f, a), NEW q \in Packages
  PROVE  /\ pkgs'[q].status = pkgs[q].status /\ pkgs'[q].bill = pkgs[q].bill
         /\ q # p => pkgs'[q] = pkgs[q]
<1>1. pkgs[q] \in PackageRow /\ pkgs' = [pkgs EXCEPT ![p].shippingFee = price]
  BY DEF TInv, TypeOK, SaveUpdatePackage
<1>2. pkgs'[q] = IF q = p THEN [pkgs[q] EXCEPT !.shippingFee = price] ELSE pkgs[q]
  BY <1>1 DEF TInv, TypeOK
<1> QED BY <1>1, <1>2 DEF PackageRow

\* The edit of a package that is not billed.
LEMMA EditRefs ==
  ASSUME TInv, Refs, NEW p \in Packages, NEW price \in Prices, NEW f \in FeeIds,
         NEW a \in FeeAmounts, SaveUpdatePackage(p, price, f, a)
  PROVE  Refs'
<1>1. pkgs[p].status = "Created" /\ UNCHANGED <<bills, log, req>>
  BY DEF SaveUpdatePackage
<1>2. \A q \in Packages : pkgs'[q].status = pkgs[q].status /\ pkgs'[q].bill = pkgs[q].bill
  BY EditedPackage
<1>3. PackagesApart' /\ PackagesOnBills'
  BY <1>1, <1>2 DEF Refs, PackagesApart, PackagesOnBills
<1>4. \A g \in FeeIds : fees'[g] # NoRow =>
        \/ fees'[g].bill = NoBill /\ fees'[g].package = p
        \/ fees[g] # NoRow /\ fees'[g].package = fees[g].package /\ fees'[g].bill = fees[g].bill
  BY EditedFee
<1>5. \A g \in FeeIds : fees[g] # NoRow => fees[g].package \in Packages
  BY DEF TInv, TypeOK, FeeRow
<1>6. FeesApart' /\ FeesOnBills'
  BY <1>1, <1>2, <1>4, <1>5, WalletConstants DEF Refs, FeesApart, FeesOnBills
<1>7. HeldVats' /\ HeldQuotes' /\ HeldCancels'
  <2>1. \A s \in Requests : req'[s] \in {req[s], Idle}
    BY <1>1
  <2>2. \A g \in FeeIds : (fees[g] # NoRow /\ fees[g].type = "vat" /\ fees[g].status # "Disable") =>
           fees'[g].type = "vat" /\ fees'[g].status # "Disable"
    BY EditedFee
  <2>3. \A c \in Bills : bills[c] # NoRow => bills'[c] # NoRow
    BY <1>1
  <2> QED BY <2>1, <2>2, <2>3, HeldKept DEF Refs
<1>8. EntriesOnBills'
  BY <1>1 DEF Refs, EntriesOnBills
<1> QED BY <1>3, <1>6, <1>7, <1>8 DEF Refs

\* A request that reads: packages, their rows, or a VAT row that counts.
LEMMA ReadRefs ==
  ASSUME TInv, Refs, UNCHANGED tables, NEW r \in Requests, NEW x, req' = [req EXCEPT ![r] = x],
         x.kind = "vat" => fees[x.fee].type = "vat" /\ fees[x.fee].status # "Disable",
         x.kind = "quote" => x.packages # {},
         x.kind = "cancel" => \A p \in DOMAIN x.seen :
           x.seen[p].bill \in Bills => bills[x.seen[p].bill] # NoRow
  PROVE  Refs'
<1>1. UNCHANGED <<bills, pkgs, fees, log>>
  BY DEF tables
<1>2. \A s \in Requests : req'[s] = IF s = r THEN x ELSE req[s]
  BY DEF TInv, TypeOK
<1>3. HeldVats' /\ HeldQuotes' /\ HeldCancels'
  BY <1>1, <1>2 DEF Refs, HeldVats, HeldQuotes, HeldCancels
<1> QED BY <1>1, <1>3 DEF Refs, PackagesApart, FeesApart, PackagesOnBills, FeesOnBills, EntriesOnBills

\* What a billing does to a package, to a fee and to the bills.
LEMMA Billed ==
  ASSUME TInv, NEW r \in Requests, NEW u \in Users, NEW b \in Bills,
         CreateBillWithLabelPromotion(r, u, b), NEW S, S = req[r].packages
  PROVE  /\ req[r] # Idle /\ req[r].kind = "quote" /\ req[r] \in Quote /\ S \in SUBSET Packages
         /\ req' = [req EXCEPT ![r] = Idle] /\ bills[b] # NoRow /\ bills'[b] # NoRow
         /\ \A c \in Bills : c # b => bills'[c] = bills[c]
         /\ \A p \in Packages : /\ pkgs'[p].shippingFee = pkgs[p].shippingFee
                                /\ p \in S => /\ pkgs'[p].status = "PendingPickup"
                                              /\ pkgs'[p].bill = b
                                /\ p \notin S => pkgs'[p] = pkgs[p]
         /\ \A g \in FeeIds : fees[g] = NoRow => fees'[g] = NoRow
         /\ \A g \in FeeIds : fees[g] # NoRow =>
              /\ fees'[g] # NoRow /\ fees'[g].package = fees[g].package
              /\ fees'[g].amount = fees[g].amount /\ fees'[g].type = fees[g].type
              /\ fees'[g].status = fees[g].status
              /\ fees'[g].bill = IF fees[g].package \in S THEN b ELSE fees[g].bill
<1>1. req[r] # Idle /\ req[r].kind = "quote" /\ bills[b] # NoRow
  BY DEF CreateBillWithLabelPromotion, RecentBills
<1>2. req[r] \in Quote /\ S \in SUBSET Packages
  BY <1>1 DEF TInv, TypeOK, VatChange, Cancellation, Quote
<1>3. req' = [req EXCEPT ![r] = Idle]
  BY DEF CreateBillWithLabelPromotion
<1>4. PICK ship \in Money, extra \in Money :
        bills' = [bills EXCEPT ![b] = [shipping |-> ship, extra |-> extra]]
  BY DEF CreateBillWithLabelPromotion
<1>5. bills'[b] # NoRow /\ \A c \in Bills : c # b => bills'[c] = bills[c]
  <2> DEFINE row == [shipping |-> ship, extra |-> extra]
  <2>1. row \in BillRow
    BY DEF BillRow
  <2> HIDE DEF row
  <2> QED BY <1>4, <2>1, WalletConstants DEF TInv, TypeOK, row
<1>6. ASSUME NEW p \in Packages
      PROVE  /\ pkgs'[p].shippingFee = pkgs[p].shippingFee
             /\ p \in S => pkgs'[p].status = "PendingPickup" /\ pkgs'[p].bill = b
             /\ p \notin S => pkgs'[p] = pkgs[p]
  <2>1. pkgs[p] \in PackageRow
    BY DEF TInv, TypeOK
  <2>2. pkgs'[p] = IF p \in S THEN [pkgs[p] EXCEPT !.status = "PendingPickup", !.bill = b]
                   ELSE pkgs[p]
    BY DEF CreateBillWithLabelPromotion
  <2> QED BY <2>1, <2>2 DEF PackageRow
<1>7. ASSUME NEW g \in FeeIds
      PROVE  /\ fees[g] = NoRow => fees'[g] = NoRow
             /\ fees[g] # NoRow =>
                  /\ fees'[g] # NoRow /\ fees'[g].package = fees[g].package
                  /\ fees'[g].amount = fees[g].amount /\ fees'[g].type = fees[g].type
                  /\ fees'[g].status = fees[g].status
                  /\ fees'[g].bill = IF fees[g].package \in S THEN b ELSE fees[g].bill
  <2>1. fees'[g] = IF g \in Rows /\ fees[g].package \in S
                   THEN [fees[g] EXCEPT !.bill = b] ELSE fees[g]
    BY DEF CreateBillWithLabelPromotion
  <2>2. fees[g] # NoRow => fees[g] \in FeeRow /\ g \in Rows
    BY DEF Rows, TInv, TypeOK
  <2>3. CASE fees[g] # NoRow /\ fees[g].package \in S
    <3>1. fees[g] \in FeeRow /\ fees'[g] = [fees[g] EXCEPT !.bill = b]
      BY <2>1, <2>2, <2>3
    <3>2. fees'[g] \in FeeRow
      BY <3>1 DEF FeeRow
    <3>3. /\ fees'[g].package = fees[g].package
          /\ fees'[g].amount = fees[g].amount /\ fees'[g].type = fees[g].type
          /\ fees'[g].status = fees[g].status /\ fees'[g].bill = b
      BY <3>1 DEF FeeRow
    <3> QED BY <2>3, <3>2, <3>3, WalletConstants
  <2>4. CASE ~(fees[g] # NoRow /\ fees[g].package \in S)
    <3>1. fees'[g] = fees[g]
      BY <2>1, <2>4 DEF Rows
    <3> QED BY <2>4, <3>1
  <2> QED BY <2>3, <2>4
<1> QED BY <1>1, <1>2, <1>3, <1>5, <1>6, <1>7

\* A billing: its packages and their fees move to a bill that exists.
LEMMA BillRefs ==
  ASSUME TInv, Refs, NEW r \in Requests, NEW u \in Users, NEW b \in Bills,
         CreateBillWithLabelPromotion(r, u, b)
  PROVE  Refs'
<1> DEFINE S == req[r].packages
           price == req[r].price
<1>1. /\ req' = [req EXCEPT ![r] = Idle] /\ bills[b] # NoRow /\ bills'[b] # NoRow
      /\ req[r] \in Quote /\ \A c \in Bills : c # b => bills'[c] = bills[c]
  BY Billed
<1>2. \A p \in Packages : /\ p \in S => pkgs'[p].status = "PendingPickup" /\ pkgs'[p].bill = b
                          /\ p \notin S => pkgs'[p] = pkgs[p]
  BY Billed
<1>3. /\ \A g \in FeeIds : fees[g] = NoRow => fees'[g] = NoRow
      /\ \A g \in FeeIds : fees[g] # NoRow =>
           /\ fees'[g].package = fees[g].package /\ fees'[g].type = fees[g].type
           /\ fees'[g].status = fees[g].status /\ fees[g].package \in Packages
           /\ fees'[g].bill = IF fees[g].package \in S THEN b ELSE fees[g].bill
  <2>1. \A g \in FeeIds : fees[g] # NoRow => fees[g].package \in Packages
    BY DEF TInv, TypeOK, FeeRow
  <2> QED BY <2>1, Billed
<1>4. \E e \in LogRow : log' = Append(log, e) /\ e.bill = b
  <2>1. Posted(Entry(u, b, "Pay", price)) /\ price >= 0
    BY DEF CreateBillWithLabelPromotion
  <2>2. price \in Nat
    BY <1>1, <2>1, WalletConstants DEF Quote, Money
  <2>3. Entry(u, b, "Pay", price) \in LogRow
    BY <2>1, <2>2, PostedType DEF TInv
  <2> QED BY <2>1, <2>3 DEF Posted, Entry
<1> HIDE DEF S, price
<1>5. \A c \in Bills : bills[c] # NoRow => bills'[c] # NoRow
  BY <1>1
<1>6. EntriesOnBills'
  BY <1>1, <1>4, <1>5, EntriesKept DEF Refs, TInv
<1>7. PackagesApart' /\ PackagesOnBills'
  BY <1>1, <1>2, <1>5 DEF Refs, PackagesApart, PackagesOnBills
<1>8. FeesApart' /\ FeesOnBills'
  BY <1>1, <1>2, <1>3, <1>5 DEF Refs, FeesApart, FeesOnBills
<1>9. HeldVats' /\ HeldQuotes' /\ HeldCancels'
  <2>1. \A s \in Requests : req'[s] \in {req[s], Idle}
    BY <1>1 DEF TInv, TypeOK
  <2>2. \A g \in FeeIds : (fees[g] # NoRow /\ fees[g].type = "vat" /\ fees[g].status # "Disable") =>
           fees'[g].type = "vat" /\ fees'[g].status # "Disable"
    BY <1>3
  <2>3. \A c \in Bills : bills[c] # NoRow => bills'[c] # NoRow
    BY <1>5
  <2> QED BY <2>1, <2>2, <2>3, HeldKept DEF Refs
<1> QED BY <1>6, <1>7, <1>8, <1>9 DEF Refs

\* A fee on a bill that exists.
LEMMA FeeRefs ==
  ASSUME TInv, Refs, NEW p \in Packages, NEW b \in Bills, NEW f \in FeeIds, NEW a \in Int,
         FeePosted(p, b, f, a)
  PROVE  Refs'
<1>1. /\ fees[f] = NoRow /\ bills[b] # NoRow /\ pkgs[p].status # "Created"
      /\ UNCHANGED <<pkgs, req>> /\ AddExtra(b, a)
  BY DEF FeePosted
<1>2. PICK row \in FeeRow : row.package = p /\ row.bill = b /\ fees' = [fees EXCEPT ![f] = row]
  BY DEF FeePosted
<1>3. fees'[f] = row /\ \A g \in FeeIds : g # f => fees'[g] = fees[g]
  BY <1>2 DEF TInv, TypeOK
<1>4. \A c \in Bills : bills[c] # NoRow => bills'[c] # NoRow
  BY <1>1, AddExtraDoes DEF TInv
<1>5. EntriesOnBills'
  <2>1. \E e \in LogRow : log' = Append(log, e) /\ (e.bill \in Bills => bills[e.bill] # NoRow)
    BY <1>1 DEF FeePosted
  <2> QED BY <1>4, <2>1, EntriesKept DEF Refs, TInv
<1>6. PackagesApart' /\ PackagesOnBills'
  BY <1>1, <1>4 DEF Refs, PackagesApart, PackagesOnBills
<1>7. FeesApart' /\ FeesOnBills'
  BY <1>1, <1>2, <1>3, <1>4 DEF Refs, FeesApart, FeesOnBills
<1>8. HeldVats' /\ HeldQuotes' /\ HeldCancels'
  <2>1. \A s \in Requests : req'[s] \in {req[s], Idle}
    BY <1>1
  <2>2. \A g \in FeeIds : (fees[g] # NoRow /\ fees[g].type = "vat" /\ fees[g].status # "Disable") =>
           fees'[g].type = "vat" /\ fees'[g].status # "Disable"
    BY <1>1, <1>3
  <2>3. \A c \in Bills : bills[c] # NoRow => bills'[c] # NoRow
    BY <1>4
  <2> QED BY <2>1, <2>2, <2>3, HeldKept DEF Refs
<1> QED BY <1>5, <1>6, <1>7, <1>8 DEF Refs

\* What a VAT change does to the tables.
LEMMA VatPosted ==
  ASSUME TInv, NEW r \in Requests, UpdateVatAfterPretransit(r), NEW v, v = req[r]
  PROVE  /\ v # Idle /\ v.kind = "vat" /\ v \in VatChange /\ v.fee \in FeeIds /\ v.bill \in Bills
         /\ fees[v.fee] \in FeeRow /\ fees[v.fee] # NoRow /\ bills[v.bill] # NoRow
         /\ v.new \in Int /\ v.old \in Int /\ v.new - v.old \in Int
         /\ req' = [req EXCEPT ![r] = Idle] /\ UNCHANGED pkgs
         /\ AddExtra(v.bill, v.new - v.old)
         /\ \A g \in FeeIds : g # v.fee => fees'[g] = fees[g]
         /\ fees'[v.fee] # NoRow /\ fees'[v.fee].amount = v.new
         /\ fees'[v.fee].package = fees[v.fee].package /\ fees'[v.fee].bill = fees[v.fee].bill
         /\ fees'[v.fee].type = fees[v.fee].type /\ fees'[v.fee].status = fees[v.fee].status
         /\ \E e \in LogRow : /\ e.bill = v.bill /\ Paid(e, v.bill) = v.new - v.old
                              /\ log' = Append(log, e)
<1> DEFINE diff == v.new - v.old
           u == Owner[fees[v.fee].package]
<1>1. /\ v # Idle /\ v.kind = "vat" /\ v \in VatChange /\ fees[v.fee] \in FeeRow
      /\ bills[v.bill] # NoRow /\ u \in Users /\ diff \in Int
  BY HeldVat DEF UpdateVatAfterPretransit
<1>2. v.fee \in FeeIds /\ v.bill \in Bills /\ v.new \in Int /\ v.old \in Int /\ v.new \in Money
  BY <1>1, WalletConstants DEF VatChange, Money
<1>3. /\ fees' = [fees EXCEPT ![v.fee].amount = v.new]
      /\ AddExtra(v.bill, diff)
      /\ \/ diff > 0 /\ Posted(Entry(u, v.bill, "Pay", diff))
         \/ diff < 0 /\ Posted(Entry(u, v.bill, "Refund", -diff))
      /\ req' = [req EXCEPT ![r] = Idle] /\ UNCHANGED pkgs
  BY DEF UpdateVatAfterPretransit
<1>4. \A g \in FeeIds : g # v.fee => fees'[g] = fees[g]
  BY <1>3 DEF TInv, TypeOK
<1>5. fees'[v.fee] = [fees[v.fee] EXCEPT !.amount = v.new]
  BY <1>2, <1>3 DEF TInv, TypeOK
<1>6. fees'[v.fee] \in FeeRow
  BY <1>1, <1>2, <1>5 DEF FeeRow
<1>7. /\ fees'[v.fee].amount = v.new
      /\ fees'[v.fee].package = fees[v.fee].package /\ fees'[v.fee].bill = fees[v.fee].bill
      /\ fees'[v.fee].type = fees[v.fee].type /\ fees'[v.fee].status = fees[v.fee].status
  BY <1>1, <1>5 DEF FeeRow
<1>8. fees'[v.fee] # NoRow /\ fees[v.fee] # NoRow
  BY <1>1, <1>6, WalletConstants
<1>9. \E e \in LogRow : e.bill = v.bill /\ Paid(e, v.bill) = diff /\ log' = Append(log, e)
  <2> HIDE DEF diff, u
  <2>1. CASE diff > 0 /\ Posted(Entry(u, v.bill, "Pay", diff))
    <3> DEFINE e == Entry(u, v.bill, "Pay", diff)
    <3>0. diff \in Nat
      BY <1>1, <2>1
    <3>1. e \in LogRow
      BY <1>1, <1>2, <2>1, <3>0, PostedType DEF TInv
    <3>2. e.bill = v.bill /\ Promise!Signed(e) = 0 - diff
      BY DEF Entry, Promise!Signed
    <3>3. log' = Append(log, e)
      BY <2>1 DEF Posted
    <3> HIDE DEF e
    <3>4. Paid(e, v.bill) = diff
      BY <1>1, <3>2 DEF Paid
    <3> QED BY <3>1, <3>2, <3>3, <3>4
  <2>2. CASE diff < 0 /\ Posted(Entry(u, v.bill, "Refund", -diff))
    <3> DEFINE e == Entry(u, v.bill, "Refund", -diff)
    <3>0. -diff \in Nat
      BY <1>1, <2>2
    <3>1. e \in LogRow
      BY <1>1, <1>2, <2>2, <3>0, PostedType DEF TInv
    <3>2. e.bill = v.bill /\ Promise!Signed(e) = -diff
      BY DEF Entry, Promise!Signed
    <3>3. log' = Append(log, e)
      BY <2>2 DEF Posted
    <3> HIDE DEF e
    <3>4. Paid(e, v.bill) = diff
      BY <1>1, <3>2 DEF Paid
    <3> QED BY <3>1, <3>2, <3>3, <3>4
  <2> QED BY <1>3, <2>1, <2>2 DEF diff, u
<1> QED BY <1>1, <1>2, <1>3, <1>4, <1>7, <1>8, <1>9

\* A VAT change keeps the row on its bill.
LEMMA VatRefs ==
  ASSUME TInv, Refs, NEW r \in Requests, UpdateVatAfterPretransit(r)
  PROVE  Refs'
<1> DEFINE v == req[r]
<1>1. /\ v.fee \in FeeIds /\ v.bill \in Bills /\ fees[v.fee] # NoRow /\ bills[v.bill] # NoRow
      /\ v.new - v.old \in Int /\ req' = [req EXCEPT ![r] = Idle] /\ UNCHANGED pkgs
      /\ AddExtra(v.bill, v.new - v.old)
  BY VatPosted
<1>2. /\ \A g \in FeeIds : g # v.fee => fees'[g] = fees[g]
      /\ fees'[v.fee] # NoRow
      /\ fees'[v.fee].package = fees[v.fee].package /\ fees'[v.fee].bill = fees[v.fee].bill
      /\ fees'[v.fee].type = fees[v.fee].type /\ fees'[v.fee].status = fees[v.fee].status
  BY VatPosted
<1>3. \E e \in LogRow : e.bill = v.bill /\ log' = Append(log, e)
  BY VatPosted
<1> HIDE DEF v
<1>4. \A c \in Bills : bills[c] # NoRow => bills'[c] # NoRow
  BY <1>1, AddExtraDoes DEF TInv
<1>5. EntriesOnBills'
  BY <1>1, <1>3, <1>4, EntriesKept DEF Refs, TInv
<1>6. PackagesApart' /\ PackagesOnBills'
  BY <1>1, <1>4 DEF Refs, PackagesApart, PackagesOnBills
<1>7. FeesApart' /\ FeesOnBills'
  BY <1>1, <1>2, <1>4 DEF Refs, FeesApart, FeesOnBills
<1>8. HeldVats' /\ HeldQuotes' /\ HeldCancels'
  <2>1. \A s \in Requests : req'[s] \in {req[s], Idle}
    BY <1>1 DEF TInv, TypeOK
  <2>2. \A g \in FeeIds : (fees[g] # NoRow /\ fees[g].type = "vat" /\ fees[g].status # "Disable") =>
           fees'[g].type = "vat" /\ fees'[g].status # "Disable"
    BY <1>2
  <2>3. \A c \in Bills : bills[c] # NoRow => bills'[c] # NoRow
    BY <1>4
  <2> QED BY <2>1, <2>2, <2>3, HeldKept DEF Refs
<1> QED BY <1>5, <1>6, <1>7, <1>8 DEF Refs

\* A decision on a top-up is logged without a bill.
LEMMA DepositDoes ==
  ASSUME TInv, NEW u \in Users, NEW a \in Deposits[today], NEW s \in {"Success", "Failure"},
         SaveTransaction(u, a, s)
  PROVE  /\ \E e \in LogRow : e.bill = NoBill /\ log' = Append(log, e)
         /\ UNCHANGED <<bills, pkgs, fees, req>>
<1> DEFINE e == [user |-> u, bill |-> NoBill, type |-> "Topup", status |-> s, amount |-> a]
<1>1. Posted(e) /\ a \in Nat /\ UNCHANGED <<bills, pkgs, fees, req>>
  BY TodaysBounds DEF SaveTransaction, TInv
<1>2. e \in LogRow /\ e.bill = NoBill
  BY <1>1, WalletConstants DEF LogRow, Posted
<1> QED BY <1>1, <1>2 DEF Posted

\* A decision on a top-up is on no bill.
LEMMA DepositRefs ==
  ASSUME TInv, Refs, NEW u \in Users, NEW a \in Deposits[today], NEW s \in {"Success", "Failure"},
         SaveTransaction(u, a, s)
  PROVE  Refs'
<1>1. UNCHANGED <<bills, pkgs, fees, req>>
  BY DepositDoes
<1>2. \E e \in LogRow : log' = Append(log, e) /\ (e.bill \in Bills => bills[e.bill] # NoRow)
  BY DepositDoes, WalletConstants
<1>3. EntriesOnBills'
  BY <1>1, <1>2, EntriesKept DEF Refs, TInv
<1> QED BY <1>1, <1>3 DEF Refs, PackagesApart, FeesApart, PackagesOnBills, FeesOnBills,
           HeldVats, HeldQuotes, HeldCancels

\* A request that reads the price of its packages.
LEMMA ReadPriceRefs ==
  ASSUME TInv, Refs, NEW r \in Requests, NEW u \in Users, NEW S \in SUBSET Packages, S # {},
         ReadPrice(r, u, S)
  PROVE  Refs'
<1>1. PICK price \in Money :
        req' = [req EXCEPT ![r] = [kind |-> "quote", packages |-> S, price |-> price]]
  BY DEF ReadPrice
<1>2. UNCHANGED tables
  BY DEF ReadPrice
<1> DEFINE x == [kind |-> "quote", packages |-> S, price |-> price]
<1>3. x.kind # "vat" /\ x.kind # "cancel" /\ x.packages # {} /\ req' = [req EXCEPT ![r] = x]
  BY <1>1
<1> HIDE DEF x
<1> QED BY <1>2, <1>3, ReadRefs

\* A request that reads the packages it cancels.
LEMMA ReadPackagesRefs ==
  ASSUME TInv, Refs, NEW r \in Requests, NEW S \in SUBSET Packages, ReadPackages(r, S)
  PROVE  Refs'
<1> DEFINE seen == [p \in S |-> pkgs[p]]
           x == [kind |-> "cancel", seen |-> seen]
<1>1. req' = [req EXCEPT ![r] = x] /\ UNCHANGED tables
  BY DEF ReadPackages
<1>2. \A p \in DOMAIN seen : seen[p].bill \in Bills => bills[seen[p].bill] # NoRow
  BY DEF Refs, PackagesOnBills
<1> HIDE DEF seen
<1>3. x.kind # "vat" /\ x.kind # "quote" /\ x.seen = seen
  OBVIOUS
<1> HIDE DEF x
<1> QED BY <1>1, <1>2, <1>3, ReadRefs

\* A cancellation: the packages are on the bills they were on when it read them.
LEMMA CancelRefs ==
  ASSUME TInv, Refs, NEW r \in Requests, CancelPackages(r)
  PROVE  Refs'
<1>1. /\ req[r] # Idle /\ req[r].kind = "cancel" /\ req' = [req EXCEPT ![r] = Idle]
      /\ UNCHANGED <<bills, fees, log>>
  BY DEF CancelPackages
<1>2. \A p \in Packages :
        \/ pkgs'[p].status = "Cancelled" /\ p \in DOMAIN req[r].seen
                                        /\ pkgs'[p].bill = req[r].seen[p].bill
        \/ pkgs'[p] = pkgs[p]
  BY Cancelled
<1>3. PackagesApart' /\ PackagesOnBills'
  BY <1>1, <1>2 DEF Refs, PackagesApart, PackagesOnBills, HeldCancels
<1>4. \A g \in FeeIds : fees[g] # NoRow => fees[g].package \in Packages
  BY DEF TInv, TypeOK, FeeRow
<1>5. FeesApart' /\ FeesOnBills'
  BY <1>1, <1>2, <1>4 DEF Refs, FeesApart, FeesOnBills
<1>6. HeldVats' /\ HeldQuotes' /\ HeldCancels'
  <2>1. \A s \in Requests : req'[s] \in {req[s], Idle}
    BY <1>1 DEF TInv, TypeOK
  <2> QED BY <1>1, <2>1, HeldKept DEF Refs
<1>7. EntriesOnBills'
  BY <1>1 DEF Refs, EntriesOnBills
<1> QED BY <1>3, <1>5, <1>6, <1>7 DEF Refs

\* Every step leaves rows on bills that exist.
LEMMA StepRefs ==
  ASSUME TInv, Refs, [Next]_vars
  PROVE  Refs'
<1>1. CASE NextDay
  BY <1>1, RefsStutter DEF NextDay
<1>2. CASE \E u \in Users : GetOrCreateNowBill(u)
  BY <1>2, NewBillRefs
<1>3. CASE \E p \in Packages, f \in FeeIds, type \in {"vat", "oversize"}, a \in FeeAmounts :
             AddFee(p, f, type, a)
  BY <1>3, AddFeeRefs
<1>4. CASE \E p \in Packages, price \in Prices, f \in FeeIds, a \in FeeAmounts :
             SaveUpdatePackage(p, price, f, a)
  BY <1>4, EditRefs
<1>5. CASE \E r \in Requests, u \in Users, S \in (SUBSET Packages) \ {{}} : ReadPrice(r, u, S)
  <2>1. PICK r \in Requests, u \in Users, S \in (SUBSET Packages) \ {{}} : ReadPrice(r, u, S)
    BY <1>5
  <2>2. S \in SUBSET Packages /\ S # {}
    BY <2>1
  <2> QED BY <2>1, <2>2, ReadPriceRefs
<1>6. CASE \E r \in Requests, u \in Users, b \in Bills : CreateBillWithLabelPromotion(r, u, b)
  BY <1>6, BillRefs
<1>7. CASE \E p \in Packages, b \in Bills, f \in FeeIds, a \in FeeAmounts :
             \/ CreateExtraFee(p, b, f, a, "fix")
             \/ CreateExtraFee(p, b, f, -a, "refund")
             \/ PackageRefund(p, b, f, a)
  <2>1. \A a \in FeeAmounts : a \in Money /\ -a \in Money /\ a \in Int /\ -a \in Int
    BY WalletConstants DEF Money
  <2>2. \E p \in Packages, b \in Bills, f \in FeeIds, a \in Int : FeePosted(p, b, f, a)
    BY <1>7, <2>1, ExtraFeePosts, RefundPosts
  <2> QED BY <2>2, FeeRefs
<1>8. ASSUME NEW r \in Requests, NEW f \in FeeIds, NEW b \in Bills, NEW a \in FeeAmounts,
             ReadVat(r, f, b, a)
      PROVE  Refs'
  <2> DEFINE x == [kind |-> "vat", fee |-> f, bill |-> b, old |-> fees[f].amount, new |-> a]
  <2>1. /\ req' = [req EXCEPT ![r] = x] /\ UNCHANGED tables
        /\ fees[f].type = "vat" /\ fees[f].status # "Disable"
    BY <1>8 DEF ReadVat
  <2>2. x.kind = "vat" /\ x.fee = f
    OBVIOUS
  <2> HIDE DEF x
  <2>3. x.kind # "quote" /\ x.kind # "cancel"
    BY <2>2
  <2> QED BY <2>1, <2>2, <2>3, ReadRefs
<1>9. CASE \E r \in Requests : UpdateVatAfterPretransit(r)
  BY <1>9, VatRefs
<1>10. CASE \E u \in Users, a \in Deposits[today], s \in {"Success", "Failure"} : SaveTransaction(u, a, s)
  BY <1>10, DepositRefs
<1>11. CASE UNCHANGED vars
  BY <1>11, RefsStutter DEF vars
<1>12. CASE \E r \in Requests, S \in (SUBSET Cancellable[today]) \ {{}} : ReadPackages(r, S)
  BY <1>12, TodaysBounds, ReadPackagesRefs DEF TInv
<1>13. CASE \E r \in Requests : CancelPackages(r)
  BY <1>13, CancelRefs
<1>14. QED
  BY <1>1, <1>2, <1>3, <1>4, <1>5, <1>6, <1>7, <1>8, <1>9, <1>10, <1>11, <1>12, <1>13 DEF Next

\* The tables are empty at first.
LEMMA InitRefs ==
  ASSUME Init
  PROVE  Refs
<1>1. PackagesApart /\ PackagesOnBills
  BY WalletConstants DEF Init, PackagesApart, PackagesOnBills
<1>2. FeesApart /\ FeesOnBills /\ EntriesOnBills /\ HeldVats /\ HeldQuotes /\ HeldCancels
  BY DEF Init, FeesApart, FeesOnBills, EntriesOnBills, HeldVats, HeldQuotes, HeldCancels
<1> QED BY <1>1, <1>2 DEF Refs

\* A new package is on no bill, with all its fees, and a billed one is on a bill, with
\* all its fees, whatever cancellation, refund, fee or VAT change runs between; only a
\* cancelled package that was never billed can have a fee on a bill.  The bills that
\* packages, fees and entries of the log are on exist, and the VAT row of a change
\* that waits is not disabled meanwhile.
THEOREM RowsOnBills == Spec => []Refs
<1>1. Init => TInv /\ Refs
  BY InitType, InitRefs
<1>2. TInv /\ Refs /\ [Next]_vars => TInv' /\ Refs'
  BY StepInv, StepRefs
<1>3. QED
  BY <1>1, <1>2, PTL DEF Spec

-----------------------------------------------------------------------------
(* Bills agree with the rows on them. *)

RowsRight(b) ==
  /\ bills[b].shipping = ShippingOn(pkgs, b)
  /\ bills[b].extra = FeesSum(fees, b)
RowsInv == \A b \in Bills : (bills[b] # NoRow /\ b \notin adrift) => RowsRight(b)

\* The invariant says what BillMatchesRows says.
LEMMA RowsInvIs ==
  ASSUME TypeOK, RowsInv
  PROVE  BillMatchesRows
<1>1. pkgs \in PackageTable /\ fees \in FeeTable
  BY DEF TypeOK, PackageTable, FeeTable
<1>2. \A b \in Bills : RowsRight(b) => RowsAgree(b)
  BY <1>1, SumsOn DEF RowsRight, RowsAgree
<1> QED BY <1>2, RowsAgreeIs DEF RowsInv

\* A bill whose rows stay.
LEMMA RowsStay ==
  ASSUME TypeOK, TypeOK', NEW c, RowsRight(c), bills'[c] = bills[c],
         \A p \in Packages : (pkgs[p].bill = c \/ pkgs'[p].bill = c) =>
           pkgs'[p].bill = pkgs[p].bill /\ pkgs'[p].shippingFee = pkgs[p].shippingFee,
         \A g \in FeeIds : /\ g \in CountedOn(fees, c) <=> g \in CountedOn(fees', c)
                           /\ g \in CountedOn(fees, c) => fees'[g].amount = fees[g].amount
  PROVE  RowsRight(c)'
<1>1. pkgs \in PackageTable /\ fees \in FeeTable /\ pkgs' \in PackageTable /\ fees' \in FeeTable
  BY DEF TypeOK, PackageTable, FeeTable
<1>2. /\ OnBill(pkgs', c) = OnBill(pkgs, c)
      /\ \A p \in OnBill(pkgs, c) : pkgs'[p].shippingFee = pkgs[p].shippingFee
  BY DEF OnBill
<1>3. CountedOn(fees', c) = CountedOn(fees, c)
  <2>1. \A D : CountedOn(D, c) \subseteq FeeIds
    BY DEF CountedOn
  <2> QED BY <2>1
<1>4. \A g \in CountedOn(fees, c) : fees'[g].amount = fees[g].amount
  BY DEF CountedOn
<1>5. ShippingOn(pkgs', c) = ShippingOn(pkgs, c)
  BY <1>1, <1>2, SameShipping
<1>6. FeesSum(fees', c) = FeesSum(fees, c)
  BY <1>1, <1>3, <1>4, SameFees
<1> QED BY <1>5, <1>6 DEF RowsRight

\* A new bill is empty.
LEMMA NewBillRows ==
  ASSUME TInv, TInv', Refs, NEW u \in Users, GetOrCreateNowBill(u), NEW c \in Bills,
         bills'[c] # NoRow, bills[c] # NoRow => RowsRight(c)
  PROVE  RowsRight(c)'
<1> DEFINE d == <<u, today>>
           new == [shipping |-> 0, extra |-> 0]
<1>1. /\ bills[d] = NoRow /\ bills' = [bills EXCEPT ![d] = new]
      /\ UNCHANGED <<pkgs, fees>> /\ d \in Bills
  BY DEF GetOrCreateNowBill, TInv, TypeOK, Bills
<1>2. CASE c = d
  <2>1. bills'[c] = new
    BY <1>1, <1>2 DEF TInv, TypeOK
  <2>2. bills'[c].shipping = 0 /\ bills'[c].extra = 0
    BY <2>1
  <2>3. OnBill(pkgs, c) = {} /\ CountedOn(fees, c) = {}
    BY <1>1, <1>2 DEF Refs, PackagesOnBills, FeesOnBills, OnBill, CountedOn
  <2>4. ShippingOn(pkgs', c) = 0 /\ FeesSum(fees', c) = 0
    BY <1>1, <2>3, SumEmpty DEF ShippingOn, FeesSum
  <2> QED BY <2>2, <2>4 DEF RowsRight
<1>3. CASE c # d
  <2>1. bills'[c] = bills[c]
    BY <1>1, <1>3 DEF TInv, TypeOK
  <2> QED BY <1>1, <2>1 DEF RowsRight
<1> QED BY <1>2, <1>3

\* A fee without a bill.
LEMMA AddFeeRows ==
  ASSUME TInv, TInv', Refs, NEW p \in Packages, NEW f \in FeeIds, NEW type \in {"vat", "oversize"},
         NEW a \in FeeAmounts, AddFee(p, f, type, a), NEW c \in Bills, RowsRight(c)
  PROVE  RowsRight(c)'
<1> DEFINE row == [package |-> p, bill |-> NoBill, amount |-> a,
                   type |-> type, status |-> "Enable"]
<1>1. fees[f] = NoRow /\ fees' = [fees EXCEPT ![f] = row] /\ row.bill = NoBill
  BY DEF AddFee
<1>2. UNCHANGED <<bills, pkgs>>
  BY DEF AddFee
<1> HIDE DEF row
<1>3. fees'[f] = row /\ \A g \in FeeIds : g # f => fees'[g] = fees[g]
  BY <1>1 DEF TInv, TypeOK
<1>4. \A g \in FeeIds : /\ g \in CountedOn(fees, c) <=> g \in CountedOn(fees', c)
                        /\ g \in CountedOn(fees, c) => fees'[g].amount = fees[g].amount
  BY <1>1, <1>3, WalletConstants DEF CountedOn
<1> QED BY <1>2, <1>4, RowsStay DEF TInv

\* An edit touches no package on a bill and no fee on a bill.
LEMMA EditRows ==
  ASSUME TInv, TInv', Refs, NEW p \in Packages, NEW price \in Prices, NEW f \in FeeIds,
         NEW a \in FeeAmounts, SaveUpdatePackage(p, price, f, a), NEW c \in Bills, RowsRight(c)
  PROVE  RowsRight(c)'
<1>1. pkgs[p].status = "Created" /\ UNCHANGED bills
  BY DEF SaveUpdatePackage
<1>2. pkgs[p].bill = NoBill /\ NoBill \notin Bills
  BY <1>1, WalletConstants DEF Refs, PackagesApart
<1>3. \A q \in Packages : (pkgs[q].bill = c \/ pkgs'[q].bill = c) =>
        pkgs'[q].bill = pkgs[q].bill /\ pkgs'[q].shippingFee = pkgs[q].shippingFee
  <2>1. \A q \in Packages : pkgs'[q].bill = pkgs[q].bill /\ (q # p => pkgs'[q] = pkgs[q])
    BY EditedPackage
  <2> QED BY <1>2, <2>1
<1>4. \A g \in FeeIds : (g # f /\ fees[g] # NoRow /\ fees'[g].status # fees[g].status) =>
        fees[g].bill = NoBill
  <2>1. \A g \in FeeIds : (g # f /\ fees[g] # NoRow /\ fees'[g].status # fees[g].status) =>
          fees[g].package = p
    BY EditedFee
  <2> QED BY <1>1, <2>1 DEF Refs, FeesApart
<1>5. \A g \in FeeIds : /\ g \in CountedOn(fees, c) <=> g \in CountedOn(fees', c)
                        /\ g \in CountedOn(fees, c) => fees'[g].amount = fees[g].amount
  <2> SUFFICES ASSUME NEW g \in FeeIds
               PROVE  /\ g \in CountedOn(fees, c) <=> g \in CountedOn(fees', c)
                      /\ g \in CountedOn(fees, c) => fees'[g].amount = fees[g].amount
    OBVIOUS
  <2>1. CASE g = f
    <3>1. fees[g] = NoRow /\ fees'[g].bill = NoBill
      BY <2>1, EditedFee
    <3> QED BY <1>2, <3>1 DEF CountedOn
  <2>2. CASE g # f /\ fees[g] = NoRow
    <3>1. fees'[g] = NoRow
      BY <2>2, EditedFee
    <3> QED BY <2>2, <3>1 DEF CountedOn
  <2>3. CASE g # f /\ fees[g] # NoRow
    <3>1. /\ fees'[g] # NoRow /\ fees'[g].bill = fees[g].bill
          /\ fees'[g].amount = fees[g].amount
      BY <2>3, EditedFee
    <3> QED BY <1>2, <1>4, <2>3, <3>1 DEF CountedOn
  <2> QED BY <2>1, <2>2, <2>3
<1> QED BY <1>1, <1>3, <1>5, RowsStay DEF TInv

\* A fee on a bill raises it by its amount.
LEMMA FeeRows ==
  ASSUME TInv, TInv', Refs, NEW p \in Packages, NEW b \in Bills, NEW f \in FeeIds, NEW a \in Int,
         FeePosted(p, b, f, a), NEW c \in Bills, RowsRight(c)
  PROVE  RowsRight(c)'
<1>1. fees[f] = NoRow /\ bills[b] # NoRow /\ UNCHANGED pkgs /\ AddExtra(b, a)
  BY DEF FeePosted
<1>2. PICK row \in FeeRow : /\ row.package = p /\ row.bill = b /\ row.amount = a
                            /\ row.status = "Enable" /\ fees' = [fees EXCEPT ![f] = row]
  BY DEF FeePosted
<1>3. fees'[f] = row /\ row # NoRow /\ \A g \in FeeIds : g # f => fees'[g] = fees[g]
  BY <1>2, WalletConstants DEF TInv, TypeOK
<1>4. CASE c # b
  <2>1. bills'[c] = bills[c]
    BY <1>1, <1>4, AddExtraDoes DEF TInv
  <2>2. \A g \in FeeIds : /\ g \in CountedOn(fees, c) <=> g \in CountedOn(fees', c)
                          /\ g \in CountedOn(fees, c) => fees'[g].amount = fees[g].amount
    BY <1>1, <1>2, <1>3, <1>4 DEF CountedOn
  <2> QED BY <1>1, <2>1, <2>2, RowsStay DEF TInv
<1>5. CASE c = b
  <2>1. pkgs \in PackageTable /\ fees \in FeeTable /\ fees' \in FeeTable
    BY DEF TInv, TypeOK, PackageTable, FeeTable
  <2>2. f \notin CountedOn(fees, b) /\ CountedOn(fees', b) = CountedOn(fees, b) \cup {f}
    BY <1>1, <1>2, <1>3 DEF CountedOn
  <2>3. \A g \in CountedOn(fees, b) : fees'[g].amount = fees[g].amount
    BY <1>1, <1>3 DEF CountedOn
  <2>4. FeesSum(fees', b) = FeesSum(fees, b) + fees'[f].amount
    BY <2>1, <2>2, <2>3, OneFeeMore
  <2>5. bills'[b].shipping = bills[b].shipping /\ bills'[b].extra = bills[b].extra + a
    BY <1>1, AddExtraDoes DEF TInv
  <2>6. fees'[f].amount = a
    BY <1>2, <1>3
  <2> QED BY <1>1, <1>5, <2>4, <2>5, <2>6 DEF RowsRight
<1> QED BY <1>4, <1>5

\* A VAT change that is not stale moves the bill of the fee by the difference.
LEMMA VatStale ==
  ASSUME TInv, NEW r \in Requests, UpdateVatAfterPretransit(r), NEW v, v = req[r],
         adrift' = adrift \cup StaleQuotes \cup StaleCancels \cup StaleVats,
         NEW c \in Bills, c \notin adrift'
  PROVE  \/ v.old = fees[v.fee].amount /\ v.bill = fees[v.fee].bill
         \/ c # v.bill /\ c # fees[v.fee].bill
<1>1. r \in Done("vat")
  BY DEF UpdateVatAfterPretransit, Done, TInv, TypeOK
<1>2. c \notin StaleVats
  OBVIOUS
<1>3. c \notin (IF req[r].old = fees[req[r].fee].amount /\ req[r].bill = fees[req[r].fee].bill THEN {}
               ELSE {req[r].bill, fees[req[r].fee].bill})
  BY <1>1, <1>2 DEF StaleVats
<1> QED BY <1>3

\* A VAT change keeps a bill in step with its rows.
LEMMA VatRowsRight ==
  ASSUME TInv, TInv', Refs, NEW r \in Requests, UpdateVatAfterPretransit(r),
         adrift' = adrift \cup StaleQuotes \cup StaleCancels \cup StaleVats,
         NEW c \in Bills, c \notin adrift', RowsRight(c)
  PROVE  RowsRight(c)'
<1> DEFINE v == req[r]
           f == v.fee
           b == v.bill
           a == v.new - v.old
<1>1. /\ f \in FeeIds /\ b \in Bills /\ fees[f] # NoRow /\ bills[b] # NoRow
      /\ v.new \in Int /\ v.old \in Int /\ a \in Int /\ UNCHANGED pkgs /\ AddExtra(b, a)
      /\ v # Idle /\ v.kind = "vat"
  BY VatPosted
<1>2. /\ \A g \in FeeIds : g # f => fees'[g] = fees[g]
      /\ fees'[f] # NoRow /\ fees'[f].amount = v.new
      /\ fees'[f].bill = fees[f].bill /\ fees'[f].status = fees[f].status
  BY VatPosted
<1>3. \/ v.old = fees[f].amount /\ b = fees[f].bill
      \/ c # b /\ c # fees[f].bill
  BY VatStale
<1>4. fees[f].status # "Disable"
  BY <1>1 DEF Refs, HeldVats
<1> HIDE DEF v, f, b
<1>5. CountedOn(fees', c) = CountedOn(fees, c)
  BY <1>1, <1>2 DEF CountedOn
<1>6. CASE c # b
  <2>1. bills'[c] = bills[c]
    BY <1>1, <1>6, AddExtraDoes DEF TInv
  <2>2. f \notin CountedOn(fees, c)
    BY <1>3, <1>6 DEF CountedOn
  <2>3. \A g \in FeeIds : g \in CountedOn(fees, c) => fees'[g].amount = fees[g].amount
    BY <1>2, <2>2
  <2> QED BY <1>1, <1>5, <2>1, <2>3, RowsStay DEF TInv
<1>7. CASE c = b
  <2>0. v.old = fees[f].amount /\ b = fees[f].bill
    BY <1>3, <1>7
  <2>1. pkgs \in PackageTable /\ fees \in FeeTable /\ fees' \in FeeTable
    BY DEF TInv, TypeOK, PackageTable, FeeTable
  <2>2. f \in CountedOn(fees, b)
    BY <1>1, <1>4, <2>0 DEF CountedOn
  <2>3. \A g \in CountedOn(fees, b) : g # f => fees'[g].amount = fees[g].amount
    BY <1>2 DEF CountedOn
  <2>4. FeesSum(fees', b) = FeesSum(fees, b) + (fees'[f].amount - fees[f].amount)
    BY <1>5, <1>7, <2>1, <2>2, <2>3, OneFeeChanged
  <2>5. bills'[b].shipping = bills[b].shipping /\ bills'[b].extra = bills[b].extra + a
    <3> HIDE DEF a
    <3> QED BY <1>1, AddExtraDoes DEF TInv
  <2> QED BY <1>1, <1>2, <1>7, <2>0, <2>4, <2>5 DEF RowsRight
<1> QED BY <1>6, <1>7

\* A cancellation keeps the rows of a bill, unless a package it takes off the bill or
\* puts back on it was billed, or billed again, after it was read.
LEMMA CancelRows ==
  ASSUME TInv, TInv', NEW r \in Requests, CancelPackages(r),
         adrift' = adrift \cup StaleQuotes \cup StaleCancels \cup StaleVats,
         NEW c \in Bills, c \notin adrift', RowsRight(c)
  PROVE  RowsRight(c)'
<1> DEFINE seen == req[r].seen
           Stale(s) == {q \in DOMAIN s : \/ s[q].bill # pkgs[q].bill
                                        \/ s[q].shippingFee # pkgs[q].shippingFee}
<1>1. req[r] # Idle /\ req[r].kind = "cancel" /\ req' = [req EXCEPT ![r] = Idle]
      /\ UNCHANGED <<bills, fees>>
  BY DEF CancelPackages
<1>2. r \in Done("cancel")
  BY <1>1 DEF Done, TInv, TypeOK
<1>3. c \notin StaleCancels
  OBVIOUS
<1>4. c \notin UNION {{seen[p].bill, pkgs[p].bill} : p \in Stale(seen)}
  BY <1>2, <1>3 DEF StaleCancels
<1>5. \A p \in Stale(seen) : seen[p].bill # c /\ pkgs[p].bill # c
  BY <1>4
<1>6. ASSUME NEW p \in Packages, pkgs[p].bill = c \/ pkgs'[p].bill = c
      PROVE  pkgs'[p].bill = pkgs[p].bill /\ pkgs'[p].shippingFee = pkgs[p].shippingFee
  <2>1. CASE p \notin DOMAIN seen
    BY <2>1, Cancelled
  <2>2. CASE p \in DOMAIN seen
    <3>1. pkgs'[p].bill = seen[p].bill /\ pkgs'[p].shippingFee = seen[p].shippingFee
      BY <2>2, Cancelled
    <3>2. p \notin Stale(seen)
      BY <1>5, <1>6, <3>1
    <3> QED BY <2>2, <3>1, <3>2
  <2> QED BY <2>1, <2>2
<1>7. \A g \in FeeIds : /\ g \in CountedOn(fees, c) <=> g \in CountedOn(fees', c)
                        /\ g \in CountedOn(fees, c) => fees'[g].amount = fees[g].amount
  BY <1>1
<1> QED BY <1>1, <1>6, <1>7, RowsStay DEF TInv

-----------------------------------------------------------------------------
(* A billing, and the bills it leaves alone. *)

\* The bills that the billing of a request leaves adrift.
QuoteDrift(r) ==
  LET S == req[r].packages
      old == UNION {BillsOf(p) : p \in S}
  IN IF old = {} /\ req[r].price = PriceFold(S) THEN {}
     ELSE old \cup {pkgs'[p].bill : p \in S}

\* StaleQuotes, with its fold named.
LEMMA StaleQuotesIs ==
  StaleQuotes = UNION {QuoteDrift(r) : r \in Done("quote")}
BY DEF StaleQuotes, QuoteDrift, PriceFold, PricesFold, MapThenSumSet, MapThenFoldSet, PickOf

\* A bill that stays in step is no bill the packages were on, and when it is the
\* bill they move to, they were on none and their price is the price of now.
LEMMA BillStale ==
  ASSUME TInv, Refs, NEW r \in Requests, NEW u \in Users, NEW b \in Bills,
         CreateBillWithLabelPromotion(r, u, b), NEW S, S = req[r].packages,
         adrift' = adrift \cup StaleQuotes \cup StaleCancels \cup StaleVats,
         NEW c \in Bills, c \notin adrift'
  PROVE  /\ \A p \in S : pkgs[p].bill # c
         /\ \A g \in FeeIds : (fees[g] # NoRow /\ fees[g].package \in S) => fees[g].bill # c
         /\ c = b => /\ req[r].price = PriceFold(S)
                     /\ \A p \in S : pkgs[p].bill = NoBill
                     /\ \A g \in FeeIds : (fees[g] # NoRow /\ fees[g].package \in S) =>
                          fees[g].bill = NoBill
<1>1. /\ req[r] # Idle /\ req[r].kind = "quote" /\ req' = [req EXCEPT ![r] = Idle]
      /\ S \in SUBSET Packages /\ \A p \in S : pkgs'[p].bill = b
  BY Billed
<1>2. r \in Done("quote") /\ S # {}
  BY <1>1 DEF Done, TInv, TypeOK, Refs, HeldQuotes
<1>3. c \notin QuoteDrift(r)
  BY <1>2, StaleQuotesIs
<1> DEFINE old == UNION {BillsOf(p) : p \in S}
           onTime == old = {} /\ req[r].price = PriceFold(S)
<1>4. c \notin old
  BY <1>3 DEF QuoteDrift
<1>5. onTime \/ c \notin {pkgs'[p].bill : p \in S}
  BY <1>3 DEF QuoteDrift
<1>6. c = b => onTime
  BY <1>1, <1>2, <1>5
<1>7. ASSUME NEW p \in S
      PROVE  /\ pkgs[p].bill \in BillsOf(p) \cup {NoBill}
             /\ \A g \in FeeIds : (fees[g] # NoRow /\ fees[g].package = p) =>
                  fees[g].bill \in BillsOf(p) \cup {NoBill}
  BY DEF BillsOf, Rows
<1>8. \A p \in S : BillsOf(p) \subseteq old
  OBVIOUS
<1>9. NoBill # c
  BY WalletConstants
<1> HIDE DEF old
<1>10. \A p \in S : pkgs[p].bill # c /\ (old = {} => pkgs[p].bill = NoBill)
  BY <1>4, <1>7, <1>8, <1>9
<1>11. \A g \in FeeIds : (fees[g] # NoRow /\ fees[g].package \in S) =>
         fees[g].bill # c /\ (old = {} => fees[g].bill = NoBill)
  BY <1>4, <1>7, <1>8, <1>9
<1> QED BY <1>6, <1>10, <1>11

\* The packages and the fees whose rows the billing adds up.
Moved(S, b) ==
  [p \in Packages |-> IF p \in S THEN [pkgs[p] EXCEPT !.status = "PendingPickup", !.bill = b]
                                 ELSE pkgs[p]]
CountedBy(S, b) ==
  {f \in Rows : fees[f].status # "Disable" /\ (fees[f].package \in S \/ fees[f].bill = b)}

\* The two sums of a billing, with their folds named.
LEMMA BillSums ==
  ASSUME NEW r \in Requests, NEW u \in Users, NEW b \in Bills,
         CreateBillWithLabelPromotion(r, u, b)
  PROVE  \E ship \in Money, extra \in Money :
           /\ ship = ShippingFold(pkgs, OnBill(Moved(req[r].packages, b), b))
           /\ extra = FeeFold(fees, CountedBy(req[r].packages, b))
           /\ bills' = [bills EXCEPT ![b] = [shipping |-> ship, extra |-> extra]]
BY DEF CreateBillWithLabelPromotion, Moved, CountedBy, OnBill, ShippingFold, ShippingFolds,
       FeeFold, FeesFold, SumOfFees, MapThenSumSet, MapThenFoldSet, PickOf

\* The totals of the bill are those of the rows that the billing leaves on it.
LEMMA BillTotals ==
  ASSUME TInv, TInv', NEW r \in Requests, NEW u \in Users, NEW b \in Bills,
         CreateBillWithLabelPromotion(r, u, b)
  PROVE  RowsRight(b)'
<1> DEFINE S == req[r].packages
           D == OnBill(pkgs', b)
           C == CountedOn(fees', b)
<1>1. PICK ship \in Money, extra \in Money :
        /\ ship = ShippingFold(pkgs, OnBill(Moved(S, b), b))
        /\ extra = FeeFold(fees, CountedBy(S, b))
        /\ bills' = [bills EXCEPT ![b] = [shipping |-> ship, extra |-> extra]]
  BY BillSums
<1>2. pkgs \in PackageTable /\ fees \in FeeTable /\ pkgs' \in PackageTable /\ fees' \in FeeTable
  BY DEF TInv, TypeOK, PackageTable, FeeTable
<1>3. /\ \A p \in Packages : pkgs'[p].shippingFee = pkgs[p].shippingFee
      /\ \A g \in FeeIds : fees[g] = NoRow => fees'[g] = NoRow
      /\ \A g \in FeeIds : fees[g] # NoRow =>
           /\ fees'[g] # NoRow /\ fees'[g].amount = fees[g].amount
           /\ fees'[g].status = fees[g].status
           /\ fees'[g].bill = IF fees[g].package \in S THEN b ELSE fees[g].bill
  BY Billed
<1>4. Moved(S, b) = pkgs'
  BY DEF Moved, CreateBillWithLabelPromotion
<1>5. CountedBy(S, b) = C
  <2>1. ASSUME NEW g \in FeeIds PROVE g \in CountedBy(S, b) <=> g \in C
    <3> HIDE DEF S
    <3> QED BY <1>3 DEF CountedBy, CountedOn, Rows
  <2>2. CountedBy(S, b) \subseteq FeeIds /\ C \subseteq FeeIds
    BY DEF CountedBy, CountedOn, Rows
  <2> HIDE DEF S, C
  <2> QED BY <2>1, <2>2
<1>6. D \in SUBSET Packages /\ C \in SUBSET FeeIds
  BY DEF OnBill, CountedOn
<1>7. \A g \in C : fees[g] # NoRow /\ fees'[g] # NoRow
  BY <1>3 DEF CountedOn
<1> HIDE DEF S, D, C
<1>8. ship = ShippingOn(pkgs', b)
  <2>1. IsFiniteSet(D) /\ ShippingFold(pkgs, D) = SumOf(Shipping(pkgs), D)
    BY <1>2, <1>6, ShippingSum
  <2>2. \A p \in D : Shipping(pkgs)[p] \in Int /\ Shipping(pkgs')[p] = Shipping(pkgs)[p]
    BY <1>2, <1>3, <1>6, PackagesOf
  <2>3. SumOf(Shipping(pkgs'), D) = SumOf(Shipping(pkgs), D)
    BY <2>1, <2>2, SumSame
  <2> QED BY <1>1, <1>4, <2>1, <2>3 DEF ShippingOn, D
<1>9. extra = FeesSum(fees', b)
  <2>1. IsFiniteSet(C) /\ FeeFold(fees, C) = SumOf(AmountsIn(fees), C)
    BY <1>2, <1>6, <1>7, FeeSum
  <2>2. \A g \in C : AmountsIn(fees)[g] \in Int /\ AmountsIn(fees')[g] = AmountsIn(fees)[g]
    BY <1>2, <1>3, <1>6, <1>7, FeesOf
  <2>3. SumOf(AmountsIn(fees'), C) = SumOf(AmountsIn(fees), C)
    BY <2>1, <2>2, SumSame
  <2> QED BY <1>1, <1>5, <2>1, <2>3 DEF FeesSum, C
<1>10. bills'[b] = [shipping |-> ship, extra |-> extra]
  BY <1>1 DEF TInv, TypeOK
<1>11. bills'[b].shipping = ship /\ bills'[b].extra = extra
  BY <1>10
<1> QED BY <1>8, <1>9, <1>11 DEF RowsRight

\* A billing keeps the bills in step with their rows.
LEMMA BillRows ==
  ASSUME TInv, TInv', Refs, NEW r \in Requests, NEW u \in Users, NEW b \in Bills,
         CreateBillWithLabelPromotion(r, u, b),
         adrift' = adrift \cup StaleQuotes \cup StaleCancels \cup StaleVats,
         NEW c \in Bills, c \notin adrift', c # b => RowsRight(c)
  PROVE  RowsRight(c)'
<1> DEFINE S == req[r].packages
<1>1. CASE c = b
  BY <1>1, BillTotals
<1>2. CASE c # b
  <2>1. /\ \A d \in Bills : d # b => bills'[d] = bills[d]
        /\ \A p \in Packages : p \in S => pkgs'[p].bill = b
        /\ \A p \in Packages : p \notin S => pkgs'[p] = pkgs[p]
    BY Billed
  <2>2. /\ \A g \in FeeIds : fees[g] = NoRow => fees'[g] = NoRow
        /\ \A g \in FeeIds : fees[g] # NoRow =>
             /\ fees'[g] # NoRow /\ fees'[g].amount = fees[g].amount
             /\ fees'[g].status = fees[g].status
             /\ fees'[g].bill = IF fees[g].package \in S THEN b ELSE fees[g].bill
    BY Billed
  <2>3. /\ \A p \in S : pkgs[p].bill # c
        /\ \A g \in FeeIds : (fees[g] # NoRow /\ fees[g].package \in S) => fees[g].bill # c
    BY BillStale
  <2> HIDE DEF S
  <2>4. \A p \in Packages : (pkgs[p].bill = c \/ pkgs'[p].bill = c) =>
          pkgs'[p].bill = pkgs[p].bill /\ pkgs'[p].shippingFee = pkgs[p].shippingFee
    BY <1>2, <2>1, <2>3
  <2>5. \A g \in FeeIds : /\ g \in CountedOn(fees, c) <=> g \in CountedOn(fees', c)
                          /\ g \in CountedOn(fees, c) => fees'[g].amount = fees[g].amount
    <3> SUFFICES ASSUME NEW g \in FeeIds
                 PROVE  /\ g \in CountedOn(fees, c) <=> g \in CountedOn(fees', c)
                        /\ g \in CountedOn(fees, c) => fees'[g].amount = fees[g].amount
      OBVIOUS
    <3>1. CASE fees[g] = NoRow
      BY <2>2, <3>1 DEF CountedOn
    <3>2. CASE fees[g] # NoRow
      BY <1>2, <2>2, <2>3, <3>2 DEF CountedOn
    <3> QED BY <3>1, <3>2
  <2> QED BY <1>2, <2>1, <2>4, <2>5, RowsStay DEF TInv
<1> QED BY <1>1, <1>2

\* A read leaves the tables alone.
LEMMA ReadKeeps ==
  ASSUME NEW r, NEW u, NEW S, ReadPrice(r, u, S)
  PROVE  UNCHANGED <<bills, pkgs, fees, log>>
<1>1. UNCHANGED tables
  BY DEF ReadPrice
<1> QED BY <1>1 DEF tables

\* The three ways to post a fee to a bill.
LEMMA FeeSteps ==
  ASSUME TInv, NEW p \in Packages, NEW b \in Bills, NEW f \in FeeIds, NEW a \in FeeAmounts,
         \/ CreateExtraFee(p, b, f, a, "fix")
         \/ CreateExtraFee(p, b, f, -a, "refund")
         \/ PackageRefund(p, b, f, a)
  PROVE  \E d \in Int : FeePosted(p, b, f, d)
<1>1. a \in Money /\ -a \in Money /\ a \in Int /\ -a \in Int
  BY WalletConstants DEF Money
<1> QED BY <1>1, ExtraFeePosts, RefundPosts

\* Bills that appear in a step are the new ones.
LEMMA OldBills ==
  ASSUME TInv, Next, NEW c \in Bills, bills'[c] # NoRow, bills[c] = NoRow
  PROVE  \E u \in Users : GetOrCreateNowBill(u)
<1>1. CASE NextDay
  BY <1>1 DEF NextDay, tables
<1>2. CASE \E p \in Packages, f \in FeeIds, type \in {"vat", "oversize"}, a \in FeeAmounts :
             AddFee(p, f, type, a)
  BY <1>2 DEF AddFee
<1>3. CASE \E p \in Packages, price \in Prices, f \in FeeIds, a \in FeeAmounts :
             SaveUpdatePackage(p, price, f, a)
  BY <1>3 DEF SaveUpdatePackage
<1>4. CASE \E r \in Requests, u \in Users, S \in (SUBSET Packages) \ {{}} : ReadPrice(r, u, S)
  BY <1>4, ReadKeeps
<1>5. ASSUME NEW r \in Requests, NEW u \in Users, NEW b \in Bills,
             CreateBillWithLabelPromotion(r, u, b)
      PROVE  FALSE
  <2>1. bills[b] # NoRow /\ \A d \in Bills : d # b => bills'[d] = bills[d]
    BY <1>5, Billed
  <2> QED BY <2>1
<1>6. ASSUME NEW p \in Packages, NEW b \in Bills, NEW f \in FeeIds, NEW a \in Int,
             FeePosted(p, b, f, a)
      PROVE  FALSE
  <2>1. bills[b] # NoRow /\ AddExtra(b, a)
    BY <1>6 DEF FeePosted
  <2>2. \A d \in Bills : d # b => bills'[d] = bills[d]
    BY <2>1, AddExtraDoes DEF TInv
  <2> QED BY <2>1, <2>2
<1>7. CASE \E p \in Packages, b \in Bills, f \in FeeIds, a \in FeeAmounts :
             \/ CreateExtraFee(p, b, f, a, "fix")
             \/ CreateExtraFee(p, b, f, -a, "refund")
             \/ PackageRefund(p, b, f, a)
  BY <1>6, <1>7, FeeSteps
<1>8. CASE \E r \in Requests, f \in FeeIds, b \in Bills, a \in FeeAmounts : ReadVat(r, f, b, a)
  BY <1>8 DEF ReadVat, tables
<1>9. ASSUME NEW r \in Requests, UpdateVatAfterPretransit(r)
      PROVE  FALSE
  <2> DEFINE v == req[r]
  <2>1. /\ v.bill \in Bills /\ bills[v.bill] # NoRow /\ v.new - v.old \in Int
        /\ AddExtra(v.bill, v.new - v.old)
    BY <1>9, VatPosted
  <2> HIDE DEF v
  <2>2. \A d \in Bills : d # v.bill => bills'[d] = bills[d]
    BY <2>1, AddExtraDoes DEF TInv
  <2> QED BY <2>1, <2>2
<1>10. CASE \E u \in Users, a \in Deposits[today], s \in {"Success", "Failure"} : SaveTransaction(u, a, s)
  BY <1>10, DepositDoes
<1>11. CASE \E r \in Requests, S \in (SUBSET Cancellable[today]) \ {{}} : ReadPackages(r, S)
  BY <1>11 DEF ReadPackages, tables
<1>12. CASE \E r \in Requests : CancelPackages(r)
  BY <1>12 DEF CancelPackages
<1> QED BY <1>1, <1>2, <1>3, <1>4, <1>5, <1>7, <1>8, <1>9, <1>10, <1>11, <1>12 DEF Next

\* Every step does.
LEMMA StepRows ==
  ASSUME TInv, TInv', Refs, RowsInv, Next,
         adrift' = adrift \cup StaleQuotes \cup StaleCancels \cup StaleVats
  PROVE  RowsInv'
<1> SUFFICES ASSUME NEW c \in Bills, bills'[c] # NoRow, c \notin adrift'
             PROVE  RowsRight(c)'
  BY DEF RowsInv
<1>0. c \notin adrift /\ (bills[c] # NoRow => RowsRight(c))
  BY DEF RowsInv
<1>1. CASE \E u \in Users : GetOrCreateNowBill(u)
  BY <1>0, <1>1, NewBillRows
<1>2. CASE ~ \E u \in Users : GetOrCreateNowBill(u)
  <2>0. RowsRight(c)
    BY <1>0, <1>2, OldBills
  <2>1. CASE UNCHANGED <<bills, pkgs, fees>>
    BY <2>0, <2>1 DEF RowsRight
  <2>2. CASE NextDay
    BY <2>1, <2>2 DEF NextDay, tables
  <2>3. CASE \E p \in Packages, f \in FeeIds, type \in {"vat", "oversize"}, a \in FeeAmounts :
               AddFee(p, f, type, a)
    BY <2>0, <2>3, AddFeeRows
  <2>4. CASE \E p \in Packages, price \in Prices, f \in FeeIds, a \in FeeAmounts :
               SaveUpdatePackage(p, price, f, a)
    BY <2>0, <2>4, EditRows
  <2>5. CASE \E r \in Requests, u \in Users, S \in (SUBSET Packages) \ {{}} : ReadPrice(r, u, S)
    BY <2>1, <2>5, ReadKeeps
  <2>6. CASE \E r \in Requests, u \in Users, b \in Bills : CreateBillWithLabelPromotion(r, u, b)
    BY <2>0, <2>6, BillRows
  <2>7. CASE \E p \in Packages, b \in Bills, f \in FeeIds, a \in FeeAmounts :
               \/ CreateExtraFee(p, b, f, a, "fix")
               \/ CreateExtraFee(p, b, f, -a, "refund")
               \/ PackageRefund(p, b, f, a)
    BY <2>0, <2>7, FeeSteps, FeeRows
  <2>8. CASE \E r \in Requests, f \in FeeIds, b \in Bills, a \in FeeAmounts : ReadVat(r, f, b, a)
    BY <2>1, <2>8 DEF ReadVat, tables
  <2>9. CASE \E r \in Requests : UpdateVatAfterPretransit(r)
    BY <2>0, <2>9, VatRowsRight
  <2>10. CASE \E u \in Users, a \in Deposits[today], s \in {"Success", "Failure"} :
                SaveTransaction(u, a, s)
    BY <2>1, <2>10, DepositDoes
  <2>11. CASE \E r \in Requests, S \in (SUBSET Cancellable[today]) \ {{}} : ReadPackages(r, S)
    BY <2>1, <2>11 DEF ReadPackages, tables
  <2>12. CASE \E r \in Requests : CancelPackages(r)
    BY <2>0, <2>12, CancelRows
  <2> QED BY <1>2, <2>2, <2>3, <2>4, <2>5, <2>6, <2>7, <2>8, <2>9, <2>10, <2>11, <2>12 DEF Next
<1> QED BY <1>1, <1>2

\* The totals of every bill are the sums of the rows on it, as long as no stale price
\* and no stale VAT amount was posted to it and no cancellation wrote back a package
\* that was billed after it was read.
THEOREM BillMatchesRowsHolds == AuditSpec => []BillMatchesRows
<1> DEFINE Inv == TInv /\ Refs /\ RowsInv
<1>1. AuditInit => Inv
  <2> SUFFICES ASSUME AuditInit PROVE Inv
    OBVIOUS
  <2>1. TInv /\ Refs
    BY InitType, InitRefs DEF AuditInit
  <2>2. RowsInv
    BY DEF AuditInit, Init, RowsInv
  <2> QED BY <2>1, <2>2
<1>2. Inv /\ [AuditNext]_auditVars => Inv'
  <2> SUFFICES ASSUME Inv, [AuditNext]_auditVars PROVE Inv'
    OBVIOUS
  <2>1. [Next]_vars
    BY DEF AuditNext, auditVars
  <2>2. TInv' /\ Refs'
    BY <2>1, StepInv, StepRefs
  <2>3. CASE UNCHANGED auditVars
    BY <2>2, <2>3 DEF auditVars, vars, tables, RowsInv, RowsRight
  <2>4. CASE AuditNext
    BY <2>2, <2>4, StepRows DEF AuditNext
  <2> QED BY <2>2, <2>3, <2>4
<1>3. Inv => BillMatchesRows
  BY RowsInvIs DEF TInv
<1> QED BY <1>1, <1>2, <1>3, PTL DEF AuditSpec

-----------------------------------------------------------------------------
(* The price of packages is what their rows add up to. *)

Enabled(T) ==
  {g \in FeeIds : fees[g] # NoRow /\ fees[g].package \in T /\ fees[g].status # "Disable"}

\* The fees of packages have a sum.
LEMMA EnabledSum ==
  ASSUME TypeOK, NEW T
  PROVE  /\ Enabled(T) \in SUBSET FeeIds /\ IsFiniteSet(Enabled(T))
         /\ \A g \in Enabled(T) : fees[g] # NoRow /\ AmountsIn(fees)[g] \in Int
         /\ SumOf(AmountsIn(fees), Enabled(T)) \in Int
         /\ FeeFold(fees, Enabled(T)) = SumOf(AmountsIn(fees), Enabled(T))
<1>1. Enabled(T) \in SUBSET FeeIds /\ \A g \in Enabled(T) : fees[g] # NoRow
  BY DEF Enabled
<1>2. fees \in FeeTable
  BY DEF TypeOK, FeeTable
<1>3. \A g \in Enabled(T) : AmountsIn(fees)[g] \in Int
  BY <1>1, <1>2, FeesOf
<1> QED BY <1>1, <1>2, <1>3, FeeSum

\* The price of a package.
LEMMA PriceIs ==
  ASSUME TypeOK, NEW p \in Packages
  PROVE  /\ PriceOf(p) = Shipping(pkgs)[p] + SumOf(AmountsIn(fees), Enabled({p}))
         /\ PriceOf(p) \in Int /\ Shipping(pkgs)[p] \in Int
         /\ PriceNow[p] = PriceOf(p)
<1>1. Shipping(pkgs)[p] = pkgs[p].shippingFee /\ Shipping(pkgs)[p] \in Int
  <2>1. pkgs \in PackageTable
    BY DEF TypeOK, PackageTable
  <2> QED BY <2>1, PackagesOf
<1>2. EnabledFees(p) = Enabled({p})
  <2>1. \A g \in FeeIds : fees[g] # NoRow => fees[g].status \in {"Enable", "Disable"}
    BY DEF TypeOK, FeeRow
  <2> QED BY <2>1 DEF EnabledFees, Enabled, Rows
<1>3. SumOfFees(EnabledFees(p)) = SumOf(AmountsIn(fees), Enabled({p}))
  BY <1>2, SumOfFeesIs, EnabledSum
<1>4. SumOf(AmountsIn(fees), Enabled({p})) \in Int
  BY EnabledSum
<1>5. PriceOf(p) = Shipping(pkgs)[p] + SumOf(AmountsIn(fees), Enabled({p}))
  BY <1>1, <1>3 DEF PriceOf
<1>6. PriceOf(p) \in Int
  BY <1>1, <1>4, <1>5
<1>7. PriceNow[p] = PriceOf(p)
  BY DEF PriceNow
<1> QED BY <1>1, <1>5, <1>6, <1>7

\* The fees of a package and those of others.
LEMMA EnabledInsert ==
  ASSUME TypeOK, NEW N, NEW p, p \notin N
  PROVE  SumOf(AmountsIn(fees), Enabled(N \cup {p})) =
           SumOf(AmountsIn(fees), Enabled(N)) + SumOf(AmountsIn(fees), Enabled({p}))
<1> DEFINE D == Enabled(N \cup {p})
           A == Enabled(N)
           B == Enabled({p})
           w == AmountsIn(fees)
<1>1. D = A \cup B /\ A \cap B = {}
  BY DEF Enabled
<1>2. IsFiniteSet(D) /\ \A g \in D : w[g] \in Int
  BY EnabledSum
<1> HIDE DEF D, A, B, w
<1>3. A \in SUBSET D /\ B \in SUBSET D
  BY <1>1
<1>4. SumOf(w, A \cup B) = SumOf(w, A) + SumOf(w, B)
  BY <1>1, <1>2, <1>3, SumUnion
<1> QED BY <1>1, <1>4 DEF D, A, B, w

\* The prices of packages add up to their shipping fees and all their fees.
LEMMA PriceParts ==
  ASSUME TypeOK, NEW S \in SUBSET Packages
  PROVE  PriceFold(S) = SumOf(Shipping(pkgs), S) + SumOf(AmountsIn(fees), Enabled(S))
<1> DEFINE v == PriceNow
           w == Shipping(pkgs)
           E(T) == SumOf(AmountsIn(fees), Enabled(T))
           Odd == {T \in SUBSET S : SumOf(v, T) # SumOf(w, T) + E(T)}
<1>0. IsFiniteSet(S)
  BY WalletConstants, FS_Subset
<1>1. \A p \in S : /\ v[p] = w[p] + E({p}) /\ v[p] \in Int /\ w[p] \in Int
                   /\ PriceOf(p) \in Int
  BY PriceIs
<1>2. \A T : E(T) \in Int
  BY EnabledSum
<1>3. E({}) = 0
  <2>1. Enabled({}) = {}
    BY DEF Enabled
  <2> QED BY <2>1, SumEmpty
<1>4. ASSUME NEW N, NEW p, p \notin N PROVE E(N \cup {p}) = E(N) + E({p})
  BY <1>4, EnabledInsert
<1> HIDE DEF v, w, E
<1>5. \A T \in SUBSET S : IsFiniteSet(T) /\ SumOf(w, T) \in Int /\ SumOf(v, T) \in Int
  <2> SUFFICES ASSUME NEW T \in SUBSET S
               PROVE  IsFiniteSet(T) /\ SumOf(w, T) \in Int /\ SumOf(v, T) \in Int
    OBVIOUS
  <2>1. IsFiniteSet(T)
    BY <1>0, FS_Subset
  <2>2. \A p \in T : v[p] \in Int /\ w[p] \in Int
    BY <1>1
  <2> QED BY <2>1, <2>2, SumIs
<1>6. Odd = {}
  <2> SUFFICES ASSUME Odd # {} PROVE FALSE
    OBVIOUS
  <2>1. Odd \in SUBSET SUBSET S
    OBVIOUS
  <2>2. PICK M \in Odd : \A N \in Odd : N \subseteq M => N = M
    <3> HIDE DEF Odd
    <3> QED BY <1>0, <2>1, LeastPart
  <2>3. M # {}
    <3>1. SumOf(v, {}) = 0 /\ SumOf(w, {}) = 0
      BY SumEmpty
    <3>2. SumOf(v, {}) = SumOf(w, {}) + E({})
      BY <1>3, <3>1
    <3> QED BY <3>2
  <2>4. PICK x \in M : x \in S
    BY <2>3
  <2> DEFINE N == M \ {x}
  <2>5. N \in SUBSET S /\ N \subseteq M /\ N # M /\ x \notin N /\ N \cup {x} = M
    OBVIOUS
  <2>6. SumOf(v, N) = SumOf(w, N) + E(N)
    <3>1. N \notin Odd
      <4> HIDE DEF N, Odd
      <4> QED BY <2>2, <2>5
    <3> QED BY <2>5, <3>1
  <2> HIDE DEF N
  <2>7. IsFiniteSet(N) /\ \A p \in N : v[p] \in Int /\ w[p] \in Int
    BY <1>1, <1>5, <2>5
  <2>8. v[x] = w[x] + E({x}) /\ v[x] \in Int /\ w[x] \in Int
    BY <1>1, <2>4
  <2>9. SumOf(v, N \cup {x}) = SumOf(v, N) + v[x]
    BY <2>5, <2>7, <2>8, SumInsert
  <2>10. SumOf(w, N \cup {x}) = SumOf(w, N) + w[x]
    BY <2>5, <2>7, <2>8, SumInsert
  <2>11. E(N \cup {x}) = E(N) + E({x})
    BY <1>4, <2>5
  <2>12. SumOf(v, M) = SumOf(w, M) + E(M)
    <3>1. PICK a \in Int, e \in Int, k \in Int, j \in Int :
            a = SumOf(w, N) /\ e = E(N) /\ k = w[x] /\ j = E({x})
      BY <1>2, <1>5, <2>5, <2>8
    <3>2. SumOf(v, M) = (a + e) + (k + j)
      BY <2>5, <2>6, <2>8, <2>9, <3>1
    <3>3. SumOf(w, M) = a + k /\ E(M) = e + j
      BY <2>5, <2>10, <2>11, <3>1
    <3>4. (a + e) + (k + j) = (a + k) + (e + j)
      OBVIOUS
    <3> QED BY <3>2, <3>3, <3>4
  <2> QED BY <2>12
<1>7. SumOf(v, S) = SumOf(w, S) + E(S)
  BY <1>6
<1>8. PriceFold(S) = SumOf(v, S)
  BY <1>0, <1>1, PriceFoldIs DEF v
<1> QED BY <1>7, <1>8 DEF w, E

\* What a billing that is not stale adds to the sums of its bill.
LEMMA BillAdds ==
  ASSUME TInv, TInv', Refs, NEW r \in Requests, NEW u \in Users, NEW b \in Bills,
         CreateBillWithLabelPromotion(r, u, b), NEW S, S = req[r].packages,
         \A p \in S : pkgs[p].bill = NoBill,
         \A g \in FeeIds : (fees[g] # NoRow /\ fees[g].package \in S) => fees[g].bill = NoBill
  PROVE  /\ ShippingOn(pkgs', b) = ShippingOn(pkgs, b) + SumOf(Shipping(pkgs), S)
         /\ FeesSum(fees', b) = FeesSum(fees, b) + SumOf(AmountsIn(fees), Enabled(S))
         /\ SumOf(Shipping(pkgs), S) \in Int /\ SumOf(AmountsIn(fees), Enabled(S)) \in Int
<1>1. pkgs \in PackageTable /\ fees \in FeeTable /\ pkgs' \in PackageTable /\ fees' \in FeeTable
  BY DEF TInv, TypeOK, PackageTable, FeeTable
<1>2. /\ S \in SUBSET Packages
      /\ \A p \in Packages : /\ pkgs'[p].shippingFee = pkgs[p].shippingFee
                             /\ p \in S => pkgs'[p].bill = b
                             /\ p \notin S => pkgs'[p] = pkgs[p]
  BY Billed
<1>3. /\ \A g \in FeeIds : fees[g] = NoRow => fees'[g] = NoRow
      /\ \A g \in FeeIds : fees[g] # NoRow =>
           /\ fees'[g] # NoRow /\ fees'[g].amount = fees[g].amount
           /\ fees'[g].status = fees[g].status
           /\ fees'[g].bill = IF fees[g].package \in S THEN b ELSE fees[g].bill
  BY Billed
<1>4. b # NoBill
  BY WalletConstants
<1>5. ShippingOn(pkgs', b) = ShippingOn(pkgs, b) + SumOf(Shipping(pkgs), S)
  <2> DEFINE A == OnBill(pkgs, b)
             D == OnBill(pkgs', b)
             v == Shipping(pkgs)
             w == Shipping(pkgs')
  <2>1. D = A \cup S /\ A \cap S = {} /\ D \in SUBSET Packages
    BY <1>2, <1>4 DEF OnBill
  <2> HIDE DEF A, D
  <2>2. IsFiniteSet(D)
    BY <1>1, <2>1, ShippingSum
  <2>3. \A p \in D : v[p] \in Int /\ w[p] = v[p]
    BY <1>1, <1>2, <2>1, PackagesOf
  <2> HIDE DEF v, w
  <2>4. SumOf(w, D) = SumOf(v, D)
    BY <2>2, <2>3, SumSame
  <2>5. A \in SUBSET D /\ S \in SUBSET D
    BY <2>1
  <2>6. SumOf(v, A \cup S) = SumOf(v, A) + SumOf(v, S)
    BY <2>1, <2>2, <2>3, <2>5, SumUnion
  <2> QED BY <2>1, <2>4, <2>6 DEF ShippingOn, A, D, v, w
<1>6. FeesSum(fees', b) = FeesSum(fees, b) + SumOf(AmountsIn(fees), Enabled(S))
  <2> DEFINE A == CountedOn(fees, b)
             B == Enabled(S)
             D == CountedOn(fees', b)
             v == AmountsIn(fees)
             w == AmountsIn(fees')
  <2>1. \A g \in FeeIds : g \in D <=> g \in A \/ g \in B
    <3> SUFFICES ASSUME NEW g \in FeeIds PROVE g \in D <=> g \in A \/ g \in B
      OBVIOUS
    <3>1. CASE fees[g] = NoRow
      BY <1>3, <3>1 DEF CountedOn, Enabled
    <3>2. CASE fees[g] # NoRow
      BY <1>3, <3>2 DEF CountedOn, Enabled
    <3> QED BY <3>1, <3>2
  <2>2. A \cap B = {}
    BY <1>4 DEF CountedOn, Enabled
  <2>3. A \subseteq FeeIds /\ B \subseteq FeeIds /\ D \subseteq FeeIds
    BY DEF CountedOn, Enabled
  <2>4. \A g \in D : fees[g] # NoRow /\ fees'[g] # NoRow
    BY <1>3 DEF CountedOn
  <2>5. \A g \in D : v[g] \in Int /\ w[g] = v[g]
    <3> HIDE DEF D
    <3> QED BY <1>1, <1>3, <2>3, <2>4, FeesOf
  <2> HIDE DEF A, B, D
  <2>6. D = A \cup B /\ A \in SUBSET D /\ B \in SUBSET D
    BY <2>1, <2>3
  <2>7. IsFiniteSet(D)
    BY <1>1, <2>3, <2>4, FeeSum
  <2> HIDE DEF v, w
  <2>8. SumOf(w, D) = SumOf(v, D)
    BY <2>5, <2>7, SumSame
  <2>9. SumOf(v, A \cup B) = SumOf(v, A) + SumOf(v, B)
    BY <2>2, <2>5, <2>6, <2>7, SumUnion
  <2> QED BY <2>6, <2>8, <2>9 DEF FeesSum, A, B, D, v, w
<1>7. SumOf(Shipping(pkgs), S) \in Int
  BY <1>1, <1>2, ShippingSum
<1>8. SumOf(AmountsIn(fees), Enabled(S)) \in Int
  BY EnabledSum DEF TInv
<1> QED BY <1>5, <1>6, <1>7, <1>8

-----------------------------------------------------------------------------
(* Bills agree with the payments in the log. *)

PaysRight(b) == bills[b].shipping + bills[b].extra = PaidOn(log, b)
PaysInv == \A b \in Bills : (bills[b] # NoRow /\ b \notin adrift) => PaysRight(b)

\* The invariant says what BillMatchesPayments says.
LEMMA PaysInvIs ==
  ASSUME TypeOK, PaysInv
  PROVE  BillMatchesPayments
<1>1. \A b : LogFold(log, b) = PaidOn(log, b)
  BY LogSum DEF TypeOK
<1> QED BY <1>1, PaymentsAgreeIs DEF PaysInv, PaysRight

\* A step that logs nothing for a bill and leaves it alone.
LEMMA PaysStay ==
  ASSUME TypeOK, NEW c \in Bills, PaysRight(c), bills'[c] = bills[c],
         \/ log' = log
         \/ \E e \in LogRow : e.bill # c /\ log' = Append(log, e)
  PROVE  PaysRight(c)'
<1>1. CASE log' = log
  BY <1>1 DEF PaysRight
<1>2. ASSUME NEW e \in LogRow, e.bill # c, log' = Append(log, e)
      PROVE  PaysRight(c)'
  <2>1. log \in Seq(LogRow)
    BY DEF TypeOK
  <2>2. PaidOn(log', c) = PaidOn(log, c) + Paid(e, c)
    <3>1. PaidOn(Append(log, e), c) = PaidOn(log, c) + Paid(e, c)
      BY <1>2, <2>1, OneEntryMore
    <3> QED BY <1>2, <3>1
  <2>3. Paid(e, c) = 0
    BY <1>2 DEF Paid
  <2>4. PaidOn(log, c) \in Int
    BY <2>1, LogSum
  <2>5. PaidOn(log', c) = PaidOn(log, c)
    BY <2>2, <2>3, <2>4
  <2> QED BY <2>5 DEF PaysRight
<1> QED BY <1>1, <1>2

\* A step that adds to the extra fees of a bill what it logs for it.
LEMMA PaysMore ==
  ASSUME TypeOK, NEW b \in Bills, bills[b] # NoRow, NEW a \in Int, AddExtra(b, a),
         NEW e \in LogRow, e.bill = b, Paid(e, b) = a, log' = Append(log, e),
         NEW c \in Bills, PaysRight(c)
  PROVE  PaysRight(c)'
<1>1. /\ bills'[b].shipping = bills[b].shipping /\ bills'[b].extra = bills[b].extra + a
      /\ bills[b].shipping \in Int /\ bills[b].extra \in Int
      /\ \A d \in Bills : d # b => bills'[d] = bills[d]
  BY AddExtraDoes
<1>2. CASE c # b
  BY <1>1, <1>2, PaysStay
<1>3. CASE c = b
  <2>1. log \in Seq(LogRow)
    BY DEF TypeOK
  <2>2. PaidOn(log', b) = PaidOn(log, b) + a
    <3>1. PaidOn(Append(log, e), b) = PaidOn(log, b) + Paid(e, b)
      BY <2>1, OneEntryMore
    <3> QED BY <3>1
  <2>3. bills[b].shipping + bills[b].extra = PaidOn(log, b)
    BY <1>3 DEF PaysRight
  <2>4. PICK i \in Int, j \in Int : i = bills[b].shipping /\ j = bills[b].extra
    BY <1>1
  <2>5. bills'[b].shipping = i /\ bills'[b].extra = j + a /\ PaidOn(log', b) = (i + j) + a
    BY <1>1, <2>2, <2>3, <2>4
  <2>6. i + (j + a) = (i + j) + a
    OBVIOUS
  <2> QED BY <1>3, <2>5, <2>6 DEF PaysRight
<1> QED BY <1>2, <1>3

\* A new bill has no total and no entry.
LEMMA NewBillPays ==
  ASSUME TInv, Refs, NEW u \in Users, GetOrCreateNowBill(u), NEW c \in Bills,
         bills'[c] # NoRow, bills[c] # NoRow => PaysRight(c)
  PROVE  PaysRight(c)'
<1> DEFINE d == <<u, today>>
           new == [shipping |-> 0, extra |-> 0]
<1>1. /\ bills[d] = NoRow /\ bills' = [bills EXCEPT ![d] = new] /\ log' = log /\ d \in Bills
  BY DEF GetOrCreateNowBill, TInv, TypeOK, Bills
<1>2. CASE c = d
  <2>1. bills'[c] = new
    BY <1>1, <1>2 DEF TInv, TypeOK
  <2>2. bills'[c].shipping = 0 /\ bills'[c].extra = 0
    BY <2>1
  <2>3. \A i \in DOMAIN log : log[i].bill # c
    BY <1>1, <1>2 DEF Refs, EntriesOnBills
  <2>4. \A i \in DOMAIN log : PaidIn(log, c)[i] = 0
    BY <2>3 DEF PaidIn, Paid
  <2>5. IsFiniteSet(DOMAIN log)
    BY EntriesOf DEF TInv, TypeOK
  <2>6. PaidOn(log, c) = 0
    BY <2>4, <2>5, SumOfZeros DEF PaidOn
  <2> QED BY <1>1, <2>2, <2>6 DEF PaysRight
<1>3. CASE c # d
  <2>1. bills'[c] = bills[c]
    BY <1>1, <1>3 DEF TInv, TypeOK
  <2> QED BY <1>1, <2>1, PaysStay DEF TInv
<1> QED BY <1>2, <1>3

\* The entry of a billing: its price, paid on its bill.
LEMMA BillEntry ==
  ASSUME TInv, NEW r \in Requests, NEW u \in Users, NEW b \in Bills,
         CreateBillWithLabelPromotion(r, u, b)
  PROVE  \E e \in LogRow : /\ e.bill = b /\ Paid(e, b) = req[r].price
                           /\ log' = Append(log, e)
<1> DEFINE price == req[r].price
           e == Entry(u, b, "Pay", price)
<1>1. Posted(e) /\ price >= 0
  BY DEF CreateBillWithLabelPromotion
<1>2. price \in Nat
  <2>1. req[r] \in Quote
    BY Billed
  <2> QED BY <1>1, <2>1, WalletConstants DEF Quote, Money
<1>3. e \in LogRow
  BY <1>1, <1>2, PostedType DEF TInv
<1>4. e.bill = b /\ Promise!Signed(e) = 0 - price
  BY DEF Entry, Promise!Signed
<1>5. log' = Append(log, e)
  BY <1>1 DEF Posted
<1> HIDE DEF e, price
<1>6. Paid(e, b) = price
  BY <1>2, <1>4 DEF Paid
<1> QED BY <1>3, <1>4, <1>5, <1>6 DEF price

\* A billing that is not stale: what the customer pays is what the rows that move
\* add to the bill.
LEMMA BillPays ==
  ASSUME TInv, TInv', Refs, NEW r \in Requests, NEW u \in Users, NEW b \in Bills,
         CreateBillWithLabelPromotion(r, u, b),
         adrift' = adrift \cup StaleQuotes \cup StaleCancels \cup StaleVats,
         NEW c \in Bills, c \notin adrift', PaysRight(c), RowsRight(c)
  PROVE  PaysRight(c)'
<1>1. PICK e \in LogRow : e.bill = b /\ Paid(e, b) = req[r].price /\ log' = Append(log, e)
  BY BillEntry
<1>2. CASE c # b
  <2>1. bills'[c] = bills[c]
    BY <1>2, Billed
  <2> QED BY <1>1, <1>2, <2>1, PaysStay DEF TInv
<1>3. CASE c = b
  <2> DEFINE S == req[r].packages
             s == SumOf(Shipping(pkgs), S)
             x == SumOf(AmountsIn(fees), Enabled(S))
  <2>1. /\ req[r].price = PriceFold(S)
        /\ \A p \in S : pkgs[p].bill = NoBill
        /\ \A g \in FeeIds : (fees[g] # NoRow /\ fees[g].package \in S) => fees[g].bill = NoBill
    BY <1>3, BillStale
  <2>2. S \in SUBSET Packages
    BY Billed
  <2>3. req[r].price = s + x
    BY <2>1, <2>2, PriceParts DEF TInv
  <2>4. /\ ShippingOn(pkgs', b) = ShippingOn(pkgs, b) + s
        /\ FeesSum(fees', b) = FeesSum(fees, b) + x
        /\ s \in Int /\ x \in Int
    BY <2>1, BillAdds
  <2> HIDE DEF S, s, x
  <2>5. /\ bills'[b].shipping = ShippingOn(pkgs', b) /\ bills'[b].extra = FeesSum(fees', b)
    BY BillTotals DEF RowsRight
  <2>6. /\ bills[b].shipping = ShippingOn(pkgs, b) /\ bills[b].extra = FeesSum(fees, b)
    BY <1>3 DEF RowsRight
  <2>7. ShippingOn(pkgs, b) \in Int /\ FeesSum(fees, b) \in Int
    <3>1. pkgs \in PackageTable /\ fees \in FeeTable
      BY DEF TInv, TypeOK, PackageTable, FeeTable
    <3> QED BY <3>1, SumsOn
  <2>8. PaidOn(log', b) = PaidOn(log, b) + (s + x)
    <3>1. log \in Seq(LogRow)
      BY DEF TInv, TypeOK
    <3>2. PaidOn(Append(log, e), b) = PaidOn(log, b) + Paid(e, b)
      BY <1>1, <3>1, OneEntryMore
    <3> QED BY <1>1, <2>3, <3>2
  <2>9. PaidOn(log, b) = ShippingOn(pkgs, b) + FeesSum(fees, b)
    BY <1>3, <2>6 DEF PaysRight
  <2>10. PICK i \in Int, j \in Int : i = ShippingOn(pkgs, b) /\ j = FeesSum(fees, b)
    BY <2>7
  <2>11. /\ bills'[b].shipping = i + s /\ bills'[b].extra = j + x
         /\ PaidOn(log', b) = (i + j) + (s + x)
    BY <2>4, <2>5, <2>8, <2>9, <2>10
  <2>12. (i + s) + (j + x) = (i + j) + (s + x)
    BY <2>4
  <2> QED BY <1>3, <2>11, <2>12 DEF PaysRight
<1> QED BY <1>2, <1>3

\* Every step keeps the bills in step with the log.
LEMMA StepPays ==
  ASSUME TInv, TInv', Refs, RowsInv, PaysInv, Next,
         adrift' = adrift \cup StaleQuotes \cup StaleCancels \cup StaleVats
  PROVE  PaysInv'
<1> SUFFICES ASSUME NEW c \in Bills, bills'[c] # NoRow, c \notin adrift'
             PROVE  PaysRight(c)'
  BY DEF PaysInv
<1>0. c \notin adrift /\ (bills[c] # NoRow => PaysRight(c) /\ RowsRight(c))
  BY DEF PaysInv, RowsInv
<1>1. CASE \E u \in Users : GetOrCreateNowBill(u)
  BY <1>0, <1>1, NewBillPays
<1>2. CASE ~ \E u \in Users : GetOrCreateNowBill(u)
  <2>0. PaysRight(c) /\ RowsRight(c)
    BY <1>0, <1>2, OldBills
  <2>1. CASE UNCHANGED <<bills, log>>
    BY <2>0, <2>1 DEF PaysRight
  <2>2. CASE NextDay
    BY <2>1, <2>2 DEF NextDay, tables
  <2>3. CASE \E p \in Packages, f \in FeeIds, type \in {"vat", "oversize"}, a \in FeeAmounts :
               AddFee(p, f, type, a)
    BY <2>1, <2>3 DEF AddFee
  <2>4. CASE \E p \in Packages, price \in Prices, f \in FeeIds, a \in FeeAmounts :
               SaveUpdatePackage(p, price, f, a)
    BY <2>1, <2>4 DEF SaveUpdatePackage
  <2>5. CASE \E r \in Requests, u \in Users, S \in (SUBSET Packages) \ {{}} : ReadPrice(r, u, S)
    BY <2>1, <2>5, ReadKeeps
  <2>6. CASE \E r \in Requests, u \in Users, b \in Bills : CreateBillWithLabelPromotion(r, u, b)
    BY <2>0, <2>6, BillPays
  <2>7. ASSUME NEW p \in Packages, NEW b \in Bills, NEW f \in FeeIds, NEW a \in Int,
               FeePosted(p, b, f, a)
        PROVE  PaysRight(c)'
    <3>1. /\ bills[b] # NoRow /\ AddExtra(b, a)
          /\ \E e \in LogRow : e.bill = b /\ Paid(e, b) = a /\ log' = Append(log, e)
      BY <2>7 DEF FeePosted
    <3> QED BY <2>0, <3>1, PaysMore DEF TInv
  <2>8. CASE \E p \in Packages, b \in Bills, f \in FeeIds, a \in FeeAmounts :
               \/ CreateExtraFee(p, b, f, a, "fix")
               \/ CreateExtraFee(p, b, f, -a, "refund")
               \/ PackageRefund(p, b, f, a)
    BY <2>7, <2>8, FeeSteps
  <2>9. CASE \E r \in Requests, f \in FeeIds, b \in Bills, a \in FeeAmounts : ReadVat(r, f, b, a)
    BY <2>1, <2>9 DEF ReadVat, tables
  <2>10. ASSUME NEW r \in Requests, UpdateVatAfterPretransit(r)
         PROVE  PaysRight(c)'
    <3> DEFINE b == req[r].bill
               a == req[r].new - req[r].old
    <3>1. /\ b \in Bills /\ bills[b] # NoRow /\ a \in Int /\ AddExtra(b, a)
          /\ \E e \in LogRow : e.bill = b /\ Paid(e, b) = a /\ log' = Append(log, e)
      BY <2>10, VatPosted
    <3> HIDE DEF a, b
    <3> QED BY <2>0, <3>1, PaysMore DEF TInv
  <2>11. CASE \E u \in Users, a \in Deposits[today], s \in {"Success", "Failure"} :
                SaveTransaction(u, a, s)
    <3>1. /\ bills' = bills
          /\ \E e \in LogRow : e.bill = NoBill /\ log' = Append(log, e)
      BY <2>11, DepositDoes
    <3> QED BY <2>0, <3>1, PaysStay, WalletConstants DEF TInv
  <2>12. CASE \E r \in Requests, S \in (SUBSET Cancellable[today]) \ {{}} : ReadPackages(r, S)
    BY <2>1, <2>12 DEF ReadPackages, tables
  <2>13. CASE \E r \in Requests : CancelPackages(r)
    BY <2>1, <2>13 DEF CancelPackages
  <2> QED BY <1>2, <2>2, <2>3, <2>4, <2>5, <2>6, <2>8, <2>9, <2>10, <2>11, <2>12, <2>13 DEF Next
<1> QED BY <1>1, <1>2

\* What was paid on a bill, less what was returned on it, is what the bill says, as
\* long as no stale price and no stale VAT amount was posted to it and no cancellation
\* wrote back a package that was billed after it was read.
THEOREM BillMatchesPaymentsHolds == AuditSpec => []BillMatchesPayments
<1> DEFINE Inv == TInv /\ Refs /\ RowsInv /\ PaysInv
<1>1. AuditInit => Inv
  <2> SUFFICES ASSUME AuditInit PROVE Inv
    OBVIOUS
  <2>1. TInv /\ Refs
    BY InitType, InitRefs DEF AuditInit
  <2>2. RowsInv /\ PaysInv
    BY DEF AuditInit, Init, RowsInv, PaysInv
  <2> QED BY <2>1, <2>2
<1>2. Inv /\ [AuditNext]_auditVars => Inv'
  <2> SUFFICES ASSUME Inv, [AuditNext]_auditVars PROVE Inv'
    OBVIOUS
  <2>1. [Next]_vars
    BY DEF AuditNext, auditVars
  <2>2. TInv' /\ Refs'
    BY <2>1, StepInv, StepRefs
  <2>3. CASE UNCHANGED auditVars
    BY <2>2, <2>3 DEF auditVars, vars, tables, RowsInv, RowsRight, PaysInv, PaysRight
  <2>4. CASE AuditNext
    BY <2>2, <2>4, StepRows, StepPays DEF AuditNext
  <2> QED BY <2>2, <2>3, <2>4
<1>3. Inv => BillMatchesPayments
  BY PaysInvIs DEF TInv
<1> QED BY <1>1, <1>2, <1>3, PTL DEF AuditSpec

-----------------------------------------------------------------------------
(* Balances are what the log says. *)

\* What an entry adds to the balance of the user u.
Credited(e, u) == IF e.user = u THEN Promise!Signed(e) ELSE 0
CreditedIn(l, u) == [i \in DOMAIN l |-> Credited(l[i], u)]
CreditFolds(l, u, f) ==
  f = [S \in SUBSET DOMAIN l |->
         IF S = {} THEN 0 ELSE Credited(l[PickOf(S)], u) + f[S \ {PickOf(S)}]]
CreditFold(l, u) == (CHOOSE f : CreditFolds(l, u, f))[DOMAIN l]
CreditSum(l, u) == SumOf(CreditedIn(l, u), DOMAIN l)

\* The balance of every customer is the sum of his rows in the log.
BalanceIsLogged ==
  \A u \in Users : balance[u] = FoldSeq(LAMBDA e, s : Credited(e, u) + s, 0, log)

\* BalanceIsLogged, with its fold named.
LEMMA BalanceIs ==
  BalanceIsLogged <=> \A u \in Users : balance[u] = CreditFold(log, u)
BY DEF BalanceIsLogged, CreditFold, CreditFolds, FoldSeq, FoldFunction, FoldFunctionOnSet,
       MapThenFoldSet, PickOf

\* The entries of the log have numbers for weights.
LEMMA CreditsOf ==
  ASSUME NEW l \in Seq(LogRow), NEW u
  PROVE  /\ IsFiniteSet(DOMAIN l)
         /\ \A i \in DOMAIN l : /\ CreditedIn(l, u)[i] = Credited(l[i], u)
                                /\ CreditedIn(l, u)[i] \in Int
<1>1. IsFiniteSet(DOMAIN l) /\ \A i \in DOMAIN l : Promise!Signed(l[i]) \in Int
  BY EntriesOf
<1> QED BY <1>1 DEF CreditedIn, Credited

\* The fold of what the log credits a user with.
LEMMA CreditFoldIs ==
  ASSUME NEW l \in Seq(LogRow), NEW u
  PROVE  CreditFold(l, u) = CreditSum(l, u) /\ CreditSum(l, u) \in Int
<1> DEFINE D == DOMAIN l
           w == CreditedIn(l, u)
           f == CHOOSE h : CreditFolds(l, u, h)
<1>1. IsFiniteSet(D) /\ \A i \in D : w[i] = Credited(l[i], u) /\ w[i] \in Int
  BY CreditsOf
<1> HIDE DEF w
<1>2. \A h : CreditFolds(l, u, h) <=> WeightsFold(w, D, h)
  <2>1. \A S \in SUBSET D : S # {} => w[PickOf(S)] = Credited(l[PickOf(S)], u)
    BY <1>1, PickIs
  <2> QED BY <2>1 DEF CreditFolds, WeightsFold
<1> HIDE DEF D
<1>3. \E h : CreditFolds(l, u, h)
  BY <1>1, <1>2, SumFolds
<1>4. WeightsFold(w, D, f)
  BY <1>2, <1>3
<1> HIDE DEF f
<1>5. f[D] = SumOf(w, D) /\ SumOf(w, D) \in Int
  BY <1>1, <1>4, FoldSums, SumIs
<1> QED BY <1>5 DEF CreditFold, CreditSum, f, w, D

\* One more entry in the log.
LEMMA OneCreditMore ==
  ASSUME NEW l \in Seq(LogRow), NEW e \in LogRow, NEW u
  PROVE  CreditSum(Append(l, e), u) = CreditSum(l, u) + Credited(e, u)
<1> DEFINE m == Append(l, e)
           D == DOMAIN l
           n == Len(l) + 1
           v == CreditedIn(l, u)
           w == CreditedIn(m, u)
<1>1. /\ m \in Seq(LogRow) /\ D = 1..Len(l) /\ Len(l) \in Nat
      /\ DOMAIN m = D \cup {n} /\ n \notin D /\ m[n] = e
      /\ \A i \in D : m[i] = l[i]
  OBVIOUS
<1>2. IsFiniteSet(D) /\ \A i \in D : v[i] = Credited(l[i], u) /\ v[i] \in Int
  BY CreditsOf
<1>3. \A i \in D \cup {n} : w[i] = Credited(m[i], u) /\ w[i] \in Int
  <2>1. \A i \in DOMAIN m : w[i] = Credited(m[i], u) /\ w[i] \in Int
    <3>1. m \in Seq(LogRow)
      BY <1>1
    <3> HIDE DEF m
    <3> QED BY <3>1, CreditsOf
  <2> QED BY <1>1, <2>1
<1>4. CreditSum(m, u) = SumOf(w, D \cup {n}) /\ CreditSum(l, u) = SumOf(v, D)
  BY <1>1 DEF CreditSum
<1> HIDE DEF m, D, n, v, w
<1>5. SumOf(w, D) = SumOf(v, D)
  <2>1. \A i \in D : w[i] = v[i] /\ v[i] \in Int
    BY <1>1, <1>2, <1>3
  <2> QED BY <1>2, <2>1, SumSame
<1>6. SumOf(w, D \cup {n}) = SumOf(w, D) + w[n]
  BY <1>1, <1>2, <1>3, SumInsert
<1>7. w[n] = Credited(e, u) /\ w[n] \in Int
  BY <1>1, <1>3
<1>8. CreditSum(m, u) = CreditSum(l, u) + Credited(e, u)
  BY <1>4, <1>5, <1>6, <1>7
<1> QED BY <1>8 DEF m

BalanceInv == \A u \in Users : balance[u] = CreditSum(log, u)

\* A step of the ledger adds the entry to both.
LEMMA StepBalance ==
  ASSUME TypeOK, BalanceInv, Promise!Next \/ UNCHANGED <<balance, log>>
  PROVE  BalanceInv'
<1>1. CASE UNCHANGED <<balance, log>>
  BY <1>1 DEF BalanceInv
<1>2. ASSUME NEW e \in LogRow, Promise!Post(e) PROVE BalanceInv'
  <2> SUFFICES ASSUME NEW u \in Users PROVE balance'[u] = CreditSum(log', u)
    BY DEF BalanceInv
  <2>1. log \in Seq(LogRow) /\ log' = Append(log, e) /\ e.user \in Users
    BY <1>2 DEF TypeOK, LogRow, Promise!Post
  <2>2. CreditSum(log', u) = CreditSum(log, u) + Credited(e, u)
    <3>1. CreditSum(Append(log, e), u) = CreditSum(log, u) + Credited(e, u)
      BY <1>2, <2>1, OneCreditMore
    <3> QED BY <2>1, <3>1
  <2>3. balance[u] = CreditSum(log, u) /\ balance[u] \in Int
    BY WalletConstants DEF BalanceInv, TypeOK, Money
  <2>4. balance' = [balance EXCEPT ![e.user] = @ + Promise!Signed(e)]
    BY <1>2 DEF Promise!Post
  <2>5. CASE u = e.user
    BY <2>1, <2>2, <2>3, <2>4, <2>5 DEF Credited, TypeOK
  <2>6. CASE u # e.user
    <3>1. balance'[u] = balance[u] /\ Credited(e, u) = 0
      BY <2>4, <2>6 DEF Credited, TypeOK
    <3> QED BY <2>2, <2>3, <3>1
  <2> QED BY <2>5, <2>6
<1> QED BY <1>1, <1>2 DEF Promise!Next

\* In every execution of the bill and transaction managers, the balance of a customer is
\* what was topped up and refunded with success, less what was paid.
THEOREM BalanceIsLoggedHolds == Spec => []BalanceIsLogged
<1> DEFINE Inv == TInv /\ BalanceInv
<1>1. Init => Inv
  <2> SUFFICES ASSUME Init PROVE Inv
    OBVIOUS
  <2>1. TInv
    BY InitType
  <2>2. DOMAIN log = {} /\ \A u \in Users : balance[u] = 0
    BY DEF Init
  <2>3. BalanceInv
    BY <2>2, SumEmpty DEF BalanceInv, CreditSum
  <2> QED BY <2>1, <2>3
<1>2. Inv /\ [Next]_vars => Inv'
  BY StepInv, LedgerStep, StepBalance DEF TInv
<1>3. Inv => BalanceIsLogged
  <2> SUFFICES ASSUME Inv PROVE BalanceIsLogged
    OBVIOUS
  <2>1. \A u \in Users : balance[u] = CreditFold(log, u)
    BY CreditFoldIs DEF BalanceInv, TInv, TypeOK
  <2> QED BY <2>1, BalanceIs
<1> QED BY <1>1, <1>2, <1>3, PTL DEF Spec
=============================================================================
