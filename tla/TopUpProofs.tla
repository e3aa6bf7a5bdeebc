---------------------------- MODULE TopUpProofs ----------------------------
(***************************************************************************)
(* Theorems about top-ups, for any number of users, top-ups and calls: the *)
(* types, the ledger, and that a top-up without colliding calls is decided *)
(* at most once.                                                           *)
(***************************************************************************)
EXTENDS TopUp, TLAPS

\* The rows that calls hold are in the table: rows are never removed.
HeldRows == \A c \in Calls : calls[c] # Idle => rows[calls[c].id] # NoRow

TInv == TypeOK /\ HeldRows

-----------------------------------------------------------------------------
(* Types. *)

\* The row a call holds is a row of the table, for a top-up of the table.
LEMMA HeldCall ==
  ASSUME TypeOK, NEW c \in Calls, calls[c] # Idle
  PROVE  calls[c] \in Call /\ calls[c].id \in Ids /\ calls[c].row \in Row
BY DEF TypeOK, Call

\* What is logged about a row has the type of the log.
LEMMA EntryType ==
  ASSUME NEW id \in Ids, NEW row \in Row, row.status # "Draft"
  PROVE  Entry(id, row) \in LogRow
BY DEF Entry, Row, LogRow, Final

\* Every step keeps the types.
LEMMA StepType ==
  ASSUME TInv, [Next]_vars
  PROVE  TypeOK'
<1> USE DEF TInv
<1>1. ASSUME NEW id \in Ids, NEW u \in Users, CreateDraft(id, u)
      PROVE  TypeOK'
  <2>1. [user |-> u, status |-> "Draft", amount |-> 0] \in Row
    BY TopUpConstants DEF Row
  <2>2. QED
    BY <1>1, <2>1 DEF CreateDraft, TypeOK
<1>2. ASSUME NEW id \in Ids, NEW u \in Users, NEW a \in Amounts, Create(id, u, a)
      PROVE  TypeOK'
  <2>1. [user |-> u, status |-> "Process", amount |-> a] \in Row
    BY DEF Row
  <2>2. QED
    BY <1>2, <2>1 DEF Create, TypeOK
<1>3. ASSUME NEW c \in Calls, NEW id \in Ids, NEW s \in {"Draft", "Process"}, Read(c, id, s)
      PROVE  TypeOK'
  <2>1. [id |-> id, row |-> rows[id]] \in Call
    BY <1>3 DEF Read, TypeOK, Call
  <2>2. QED
    BY <1>3, <2>1 DEF Read, TypeOK
<1>4. ASSUME NEW c \in Calls, NEW a \in Amounts, UpdateTopup(c, a)
      PROVE  TypeOK'
  <2> DEFINE id == calls[c].id
             row == [calls[c].row EXCEPT !.status = "Process", !.amount = a]
  <2>1. id \in Ids /\ calls[c].row \in Row
    BY <1>4, HeldCall DEF UpdateTopup
  <2>2. row \in Row /\ row.status = "Process"
    BY <2>1 DEF Row
  <2>3. log' \in Seq(LogRow)
    <3>1. log' = Append(log, Entry(id, row))
      BY <1>4 DEF UpdateTopup
    <3>2. Entry(id, row) \in LogRow
      BY <2>1, <2>2, EntryType
    <3>3. QED
      BY <3>1, <3>2 DEF TypeOK
  <2>4. rows' \in [Ids -> Row \cup {NoRow}]
    <3>1. rows[id] \in Row
      BY <1>4, <2>1 DEF UpdateTopup, HeldRows, TypeOK
    <3>2. \A b \in Amounts : [rows[id] EXCEPT !.status = "Process", !.amount = b] \in Row
      BY <3>1 DEF Row
    <3>3. rows' = [rows EXCEPT ![id] = [rows[id] EXCEPT !.status = "Process",
                                 !.amount = IF a > 0 THEN a ELSE rows[id].amount]]
      BY <1>4, <2>1 DEF UpdateTopup, TypeOK
    <3>4. rows[id].amount \in Amounts
      BY <3>1 DEF Row
    <3>5. QED
      BY <3>2, <3>3, <3>4 DEF TypeOK
  <2>5. QED
    BY <1>4, <2>1, <2>3, <2>4 DEF UpdateTopup, Raced, TypeOK
<1>5. ASSUME NEW c \in Calls, NEW s \in Final, ChangeStatus(c, s)
      PROVE  TypeOK'
  <2> DEFINE id == calls[c].id
             row == [calls[c].row EXCEPT !.status = s]
  <2>1. id \in Ids /\ calls[c].row \in Row
    BY <1>5, HeldCall DEF ChangeStatus
  <2>2. row \in Row /\ row.status # "Draft"
    BY <2>1 DEF Row, Final
  <2>3. log' \in Seq(LogRow)
    <3>1. log' = Append(log, Entry(id, row))
      BY <1>5 DEF ChangeStatus
    <3>2. Entry(id, row) \in LogRow
      BY <2>1, <2>2, EntryType
    <3>3. QED
      BY <3>1, <3>2 DEF TypeOK
  <2>4. rows' \in [Ids -> Row \cup {NoRow}]
    BY <1>5, <2>1, <2>2 DEF ChangeStatus, TypeOK
  <2>5. balance' \in [Users -> Int]
    <3>1. row.amount \in Int
      BY <2>2, TopUpConstants DEF Row
    <3>2. QED
      BY <1>5, <3>1 DEF ChangeStatus, TypeOK
  <2>6. QED
    BY <1>5, <2>1, <2>3, <2>4, <2>5 DEF ChangeStatus, Raced, TypeOK
<1>6. CASE UNCHANGED vars
  BY <1>6 DEF vars, TypeOK
<1>7. QED
  BY <1>1, <1>2, <1>3, <1>4, <1>5, <1>6 DEF Next

\* No step removes a row.
LEMMA StepRows ==
  ASSUME TInv, [Next]_vars
  PROVE  HeldRows'
<1> USE DEF TInv
<1>1. \A id \in Ids : rows[id] # NoRow => rows'[id] # NoRow
  <2>1. TypeOK'
    BY StepType
  <2>2. ASSUME NEW c \in Calls, NEW a \in Amounts, UpdateTopup(c, a), NEW id \in Ids,
               rows[id] # NoRow
        PROVE  rows'[id] # NoRow
    <3>1. rows[id] \in Row /\ [rows[id] EXCEPT !.status = "Process",
                               !.amount = IF a > 0 THEN a ELSE rows[id].amount] \in Row
      BY <2>2 DEF TypeOK, Row
    <3>2. \/ rows'[id] = rows[id]
          \/ rows'[id] = [rows[id] EXCEPT !.status = "Process",
                                          !.amount = IF a > 0 THEN a ELSE rows[id].amount]
      BY <2>2 DEF UpdateTopup, TypeOK
    <3>3. QED
      BY <2>2, <3>1, <3>2, TopUpConstants
  <2>3. ASSUME NEW c \in Calls, NEW s \in Final, ChangeStatus(c, s), NEW id \in Ids,
               rows[id] # NoRow
        PROVE  rows'[id] # NoRow
    <3>1. [calls[c].row EXCEPT !.status = s] \in Row
      BY <2>3, HeldCall DEF ChangeStatus, Row, Final
    <3>2. QED
      BY <2>3, <3>1, TopUpConstants DEF ChangeStatus, TypeOK
  <2>4. CASE UNCHANGED rows
    BY <2>4
  <2>5. ASSUME NEW id \in Ids, NEW u \in Users, NEW a \in Amounts,
               CreateDraft(id, u) \/ Create(id, u, a)
        PROVE  \A other \in Ids : rows[other] # NoRow => rows'[other] # NoRow
    BY <2>5 DEF CreateDraft, Create, TypeOK
  <2>6. QED
    BY <2>2, <2>3, <2>4, <2>5, TopUpConstants DEF Next, Read, vars
<1>2. ASSUME NEW c \in Calls, calls'[c] # Idle
      PROVE  rows[calls'[c].id] # NoRow /\ calls'[c].id \in Ids
  <2>1. CASE calls'[c] = calls[c]
    BY <1>2, <2>1, HeldCall DEF HeldRows
  <2>2. CASE \E id \in Ids, s \in {"Draft", "Process"} : Read(c, id, s)
    BY <2>2 DEF Read, TypeOK
  <2>3. \/ calls'[c] = calls[c]
        \/ \E id \in Ids, s \in {"Draft", "Process"} : Read(c, id, s)
    BY <1>2 DEF Next, CreateDraft, Create, Read, UpdateTopup, ChangeStatus, TypeOK, vars
  <2>4. QED
    BY <2>1, <2>2, <2>3
<1>3. QED
  BY <1>1, <1>2 DEF HeldRows

\* Nothing is in the tables at first.
LEMMA InitType ==
  ASSUME Init
  PROVE  TInv
BY DEF Init, TInv, TypeOK, HeldRows

\* The table of top-ups, the balances and the log keep their types.
THEOREM TypeCorrect == Spec => []TypeOK
<1>1. Init => TInv
  BY InitType
<1>2. TInv /\ [Next]_vars => TInv'
  BY StepType, StepRows DEF TInv
<1>3. TInv => TypeOK
  BY DEF TInv
<1>4. QED
  BY <1>1, <1>2, <1>3, PTL DEF Spec

-----------------------------------------------------------------------------
(* A top-up without colliding calls is decided once. *)

\* The part of DecidedOnce about one top-up.
Settled(id) ==
  /\ Decisions(id) # {} => rows[id] # NoRow /\ rows[id].status \in Final
  /\ rows[id] # NoRow /\ rows[id].status \in Final => Decisions(id) # {}
  /\ \A i, j \in Decisions(id) : i = j
  /\ \A i \in Decisions(id) : log[i] = Entry(id, rows[id])

\* A row appended to the log leaves the others in place.
LEMMA AppendLog ==
  ASSUME TypeOK, NEW e \in LogRow, log' = Append(log, e)
  PROVE  /\ DOMAIN log' = DOMAIN log \cup {Len(log) + 1}
         /\ Len(log) + 1 \notin DOMAIN log
         /\ \A i \in DOMAIN log : log'[i] = log[i]
         /\ log'[Len(log) + 1] = e
BY DEF TypeOK

\* A top-up whose row does not change, and about which no decision is logged,
\* stays settled.
LEMMA UntouchedSettled ==
  ASSUME TypeOK, NEW id \in Ids, Settled(id), rows'[id] = rows[id],
         \/ log' = log
         \/ \E e \in LogRow : log' = Append(log, e) /\ (e.id # id \/ e.status \notin Final)
  PROVE  Settled(id)'
<1>1. CASE log' = log
  BY <1>1 DEF Settled, Decisions
<1>2. CASE \E e \in LogRow : log' = Append(log, e) /\ (e.id # id \/ e.status \notin Final)
  <2>1. PICK e \in LogRow : log' = Append(log, e) /\ (e.id # id \/ e.status \notin Final)
    BY <1>2
  <2>2. Decisions(id)' = Decisions(id)
    BY <2>1, AppendLog DEF Decisions
  <2>3. \A i \in Decisions(id) : log'[i] = log[i]
    BY <2>1, AppendLog DEF Decisions
  <2>4. QED
    BY <2>2, <2>3 DEF Settled, Entry
<1>3. QED
  BY <1>1, <1>2

\* Filling in a draft that nobody else has changed decides nothing.
LEMMA UpdateSettled ==
  ASSUME TInv, NEW c \in Calls, NEW a \in Amounts, UpdateTopup(c, a),
         NEW id \in Ids, id = calls[c].id, Settled(id), rows[id] = calls[c].row
  PROVE  Settled(id)'
<1> USE DEF TInv
<1> DEFINE row == [calls[c].row EXCEPT !.status = "Process", !.amount = a]
<1>1. calls[c].row \in Row /\ calls[c].row.status = "Draft"
  BY HeldCall DEF UpdateTopup
<1>2. Decisions(id) = {}
  BY <1>1 DEF Settled, Final
<1>3. row \in Row /\ row.status = "Process"
  BY <1>1 DEF Row
<1>4. Entry(id, row) \in LogRow /\ Entry(id, row).status \notin Final
  BY <1>1, <1>3, EntryType DEF Entry, Final
<1>5. log' = Append(log, Entry(id, row))
  BY DEF UpdateTopup
<1>6. Decisions(id)' = {}
  <2> HIDE DEF row
  <2>1. QED
    BY <1>2, <1>4, <1>5, AppendLog DEF Decisions
<1>7. rows'[id] = [calls[c].row EXCEPT !.status = "Process",
                     !.amount = IF a > 0 THEN a ELSE calls[c].row.amount]
  BY <1>1 DEF UpdateTopup, TypeOK
<1>8. rows'[id].status \notin Final
  BY <1>1, <1>7 DEF Final, Row
<1>9. QED
  BY <1>6, <1>8 DEF Settled

\* A decision on a row that nobody else has changed is the only one.
LEMMA ChangeSettled ==
  ASSUME TInv, NEW c \in Calls, NEW s \in Final, ChangeStatus(c, s),
         NEW id \in Ids, id = calls[c].id, Settled(id), rows[id] = calls[c].row
  PROVE  Settled(id)'
<1> USE DEF TInv
<1> DEFINE row == [calls[c].row EXCEPT !.status = s]
           n == Len(log) + 1
<1>1. calls[c].row \in Row /\ calls[c].row.status = "Process"
  BY HeldCall DEF ChangeStatus
<1>2. Decisions(id) = {}
  BY <1>1 DEF Settled, Final
<1>3. row \in Row /\ row.status = s /\ row.status # "Draft"
  BY <1>1 DEF Row, Final
<1>4. Entry(id, row) \in LogRow /\ Entry(id, row).id = id /\ Entry(id, row).status = s
  <2>1. Entry(id, row) \in LogRow
    BY <1>3, EntryType
  <2>2. QED
    BY <1>3, <2>1 DEF Entry
<1>5. log' = Append(log, Entry(id, row)) /\ rows'[id] = row
  BY DEF ChangeStatus, TypeOK
<1> HIDE DEF row
<1>6. Decisions(id)' = {n}
  BY <1>2, <1>4, <1>5, AppendLog DEF Decisions
<1>7. log'[n] = Entry(id, rows'[id])
  BY <1>4, <1>5, AppendLog
<1>8. rows'[id] # NoRow /\ rows'[id].status \in Final
  BY <1>3, <1>5, TopUpConstants
<1>9. QED
  BY <1>6, <1>7, <1>8 DEF Settled, Entry

\* Every step keeps a top-up settled, unless it is a write to it that collides.
LEMMA StepSettled ==
  ASSUME TInv, [Next]_vars, NEW id \in Ids, Settled(id), id \notin raced'
  PROVE  Settled(id)'
<1> USE DEF TInv
<1>1. ASSUME NEW other \in Ids, NEW u \in Users, NEW a \in Amounts,
             CreateDraft(other, u) \/ Create(other, u, a)
      PROVE  Settled(id)'
  <2>1. CASE other = id
    <3>1. Decisions(id)' = {}
      BY <1>1, <2>1 DEF CreateDraft, Create, Settled, Decisions
    <3>2. rows'[id].status \notin Final
      BY <1>1, <2>1 DEF CreateDraft, Create, TypeOK, Final
    <3>3. QED
      BY <3>1, <3>2 DEF Settled
  <2>2. CASE other # id
    <3>1. rows'[id] = rows[id] /\ log' = log
      BY <1>1, <2>2 DEF CreateDraft, Create, TypeOK
    <3>2. QED
      BY <3>1, UntouchedSettled
  <2>3. QED
    BY <2>1, <2>2
<1>2. CASE UNCHANGED <<rows, log>>
  BY <1>2, UntouchedSettled
<1>3. ASSUME NEW c \in Calls, NEW a \in Amounts, UpdateTopup(c, a)
      PROVE  Settled(id)'
  <2> DEFINE row == [calls[c].row EXCEPT !.status = "Process", !.amount = a]
             e == Entry(calls[c].id, row)
  <2>1. CASE id = calls[c].id
    <3>1. rows[id] = calls[c].row
      BY <1>3, <2>1 DEF UpdateTopup, Raced
    <3>2. QED
      BY <1>3, <2>1, <3>1, UpdateSettled
  <2>2. CASE id # calls[c].id
    <3>1. calls[c].id \in Ids /\ row \in Row /\ row.status = "Process"
      BY <1>3, HeldCall DEF UpdateTopup, Row
    <3>2. e \in LogRow /\ e.id # id
      BY <2>2, <3>1, EntryType DEF Entry
    <3>3. log' = Append(log, e) /\ rows'[id] = rows[id]
      BY <1>3, <2>2 DEF UpdateTopup, TypeOK
    <3> HIDE DEF e
    <3>4. QED
      BY <3>2, <3>3, UntouchedSettled
  <2>3. QED
    BY <2>1, <2>2
<1>4. ASSUME NEW c \in Calls, NEW s \in Final, ChangeStatus(c, s)
      PROVE  Settled(id)'
  <2> DEFINE row == [calls[c].row EXCEPT !.status = s]
             e == Entry(calls[c].id, row)
  <2>1. CASE id = calls[c].id
    <3>1. rows[id] = calls[c].row
      BY <1>4, <2>1 DEF ChangeStatus, Raced
    <3>2. QED
      BY <1>4, <2>1, <3>1, ChangeSettled
  <2>2. CASE id # calls[c].id
    <3>1. calls[c].id \in Ids /\ row \in Row /\ row.status # "Draft"
      BY <1>4, HeldCall DEF ChangeStatus, Row, Final
    <3>2. e \in LogRow /\ e.id # id
      BY <2>2, <3>1, EntryType DEF Entry
    <3>3. log' = Append(log, e) /\ rows'[id] = rows[id]
      BY <1>4, <2>2 DEF ChangeStatus, TypeOK
    <3> HIDE DEF e
    <3>4. QED
      BY <3>2, <3>3, UntouchedSettled
  <2>3. QED
    BY <2>1, <2>2
<1>5. QED
  BY <1>1, <1>2, <1>3, <1>4, TopUpConstants DEF Next, Read, vars

\* A top-up is decided at most once, and as the log says, as long as no two
\* calls on it overlap.
THEOREM OnceDecided == Spec => []DecidedOnce
<1> DEFINE Inv == TInv /\ DecidedOnce
<1>1. Init => Inv
  BY InitType DEF Init, DecidedOnce, Decisions
<1>2. Inv /\ [Next]_vars => Inv'
  <2> SUFFICES ASSUME Inv, [Next]_vars PROVE Inv'
    OBVIOUS
  <2>1. TInv'
    BY StepType, StepRows DEF TInv
  <2>2. raced \subseteq raced'
    BY DEF Next, CreateDraft, Create, Read, UpdateTopup, ChangeStatus, Raced, vars
  <2>3. \A id \in Ids \ raced' : Settled(id)'
    BY <2>2, StepSettled DEF DecidedOnce, Settled
  <2>4. DecidedOnce'
    BY <2>3 DEF DecidedOnce, Settled
  <2>5. QED
    BY <2>1, <2>4
<1>3. Inv => DecidedOnce
  OBVIOUS
<1>4. QED
  BY <1>1, <1>2, <1>3, PTL DEF Spec

-----------------------------------------------------------------------------
(* Top-ups implement the ledger. *)

\* A row that is logged with its effect on the balance is a step of the ledger.
LEMMA PostStep ==
  ASSUME TypeOK, NEW e \in LogRow, log' = Append(log, e),
         balance' = [balance EXCEPT ![e.user] = @ + Promise!Signed(e)]
  PROVE  Promise!Next
<1>1. e.user \in Users /\ Promise!Signed(e) \in Int /\ balance[e.user] \in Int
  <2>1. e.user \in Users /\ e.amount \in Nat
    BY TopUpConstants DEF LogRow
  <2> QED BY <2>1 DEF Promise!Signed, TypeOK
<1>2. balance[e.user] + Promise!Signed(e) \in Int
  BY <1>1
<1>3. Promise!Post(e)
  BY <1>2 DEF Promise!Post
<1>4. QED
  BY <1>3 DEF Promise!Next

\* A draft that is filled in is logged and moves nothing.
LEMMA UpdateStep ==
  ASSUME TypeOK, NEW c \in Calls, NEW a \in Amounts, UpdateTopup(c, a)
  PROVE  Promise!Next
<1> DEFINE row == [calls[c].row EXCEPT !.status = "Process", !.amount = a]
           e == Entry(calls[c].id, row)
<1>1. calls[c].id \in Ids /\ calls[c].row \in Row
  BY HeldCall DEF UpdateTopup
<1>2. row \in Row /\ row.status = "Process"
  BY <1>1 DEF Row
<1>3. e.user \in Users /\ e.status = "Process"
  BY <1>2 DEF Entry, Row
<1>4. e \in LogRow
  <2> HIDE DEF row
  <2> QED BY <1>1, <1>2, EntryType
<1>5. log' = Append(log, e) /\ UNCHANGED balance
  BY DEF UpdateTopup
<1> HIDE DEF e
<1>6. Promise!Signed(e) = 0
  BY <1>3 DEF Promise!Signed
<1>7. balance' = [balance EXCEPT ![e.user] = @ + Promise!Signed(e)]
  BY <1>3, <1>5, <1>6 DEF TypeOK
<1>8. QED
  BY <1>4, <1>5, <1>7, PostStep

\* A decision credits the amount that was read, if it is a success, else nothing.
LEMMA ChangeStep ==
  ASSUME TypeOK, NEW c \in Calls, NEW s \in Final, ChangeStatus(c, s)
  PROVE  Promise!Next
<1> DEFINE row == [calls[c].row EXCEPT !.status = s]
           e == Entry(calls[c].id, row)
<1>1. calls[c].id \in Ids /\ calls[c].row \in Row
  BY HeldCall DEF ChangeStatus
<1>2. row \in Row /\ row.status = s /\ s # "Draft" /\ row.amount \in Nat /\ row.user \in Users
  BY <1>1, TopUpConstants DEF Row, Final
<1>3. /\ log' = Append(log, e)
      /\ \/ s = "Success" /\ balance' = [balance EXCEPT ![row.user] = @ + row.amount]
         \/ s # "Success" /\ UNCHANGED balance
  BY DEF ChangeStatus
<1> HIDE DEF row
<1>4. /\ e.user = row.user /\ e.status = s /\ e.amount = row.amount
      /\ e.type = "Topup"
  BY <1>2 DEF Entry
<1>5. e \in LogRow
  BY <1>1, <1>2, EntryType
<1> HIDE DEF e
<1>6. Promise!Signed(e) = IF s = "Success" THEN row.amount ELSE 0
  BY <1>2, <1>4 DEF Promise!Signed, Final
<1>7. balance' = [balance EXCEPT ![e.user] = @ + Promise!Signed(e)]
  <2>1. balance[row.user] \in Int /\ balance = [u \in Users |-> balance[u]]
    BY <1>2 DEF TypeOK
  <2>2. CASE s = "Success"
    BY <1>3, <1>4, <1>6, <2>2
  <2>3. CASE s # "Success"
    BY <1>2, <1>3, <1>4, <1>6, <2>1, <2>3
  <2> QED BY <2>2, <2>3
<1>8. QED
  BY <1>3, <1>5, <1>7, PostStep

\* Every step of the top-ups is one row of the ledger or none: a balance moves
\* by the amount of a success that is logged in the same step, whatever calls
\* overlap on the row.
THEOREM LedgerImplemented == Spec => ImplementsLedger
<1>1. Init => Promise!Init
  BY DEF Init, Promise!Init
<1>2. TInv /\ [Next]_vars => [Promise!Next]_<<balance, log>>
  <2> SUFFICES ASSUME TInv, [Next]_vars
               PROVE  Promise!Next \/ UNCHANGED <<balance, log>>
    OBVIOUS
  <2>1. CASE \E id \in Ids, u \in Users : CreateDraft(id, u)
    BY <2>1 DEF CreateDraft
  <2>2. CASE \E id \in Ids, u \in Users, a \in Amounts : Create(id, u, a)
    BY <2>2 DEF Create
  <2>3. CASE \E c \in Calls, id \in Ids, s \in {"Draft", "Process"} : Read(c, id, s)
    BY <2>3 DEF Read
  <2>4. CASE \E c \in Calls, a \in Amounts : UpdateTopup(c, a)
    BY <2>4, UpdateStep DEF TInv
  <2>5. CASE \E c \in Calls, s \in Final : ChangeStatus(c, s)
    BY <2>5, ChangeStep DEF TInv
  <2>6. CASE UNCHANGED vars
    BY <2>6 DEF vars
  <2>7. QED
    BY <2>1, <2>2, <2>3, <2>4, <2>5, <2>6 DEF Next
<1>3. Init => TInv
  BY InitType
<1>4. TInv /\ [Next]_vars => TInv'
  BY StepType, StepRows DEF TInv
<1>5. QED
  BY <1>1, <1>2, <1>3, <1>4, PTL DEF Spec, ImplementsLedger, Promise!Spec
=============================================================================
