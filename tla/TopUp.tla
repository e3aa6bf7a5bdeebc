-------------------------------- MODULE TopUp --------------------------------
(***************************************************************************)
(* The life of a top-up in the transactions table: a customer opens a      *)
(* draft and fills in its amount, or announces a transfer at once, and an  *)
(* administrator decides it.  The two handlers that change a row read it,  *)
(* check its status and write it back in a later database transaction;     *)
(* neither takes a lock nor repeats the check, so calls on one row overlap.*)
(***************************************************************************)
EXTENDS Integers, Sequences, FiniteSets

CONSTANTS Users, Ids, Calls,
          Amounts,      \* amounts, in the cents UpdateTopup rounds down to
          MaxLog,       \* bound on the transaction log
          NoRow, Idle

VARIABLES rows, balance, log, calls, raced

vars == <<rows, balance, log, calls, raced>>

Final == {"Success", "Failure"}
Row == [user : Users, status : {"Draft", "Process"} \cup Final, amount : Amounts]
Call == [id : Ids, row : Row]
LogRow == [id : Ids, user : Users, type : {"Topup"}, status : {"Process"} \cup Final,
           amount : Amounts]

ASSUME TopUpConstants ==
  /\ Amounts \subseteq Nat /\ 0 \in Amounts
  /\ NoRow \notin Row /\ Idle \notin Call

TypeOK ==
  /\ rows \in [Ids -> Row \cup {NoRow}]
  /\ balance \in [Users -> Int]
  /\ log \in Seq(LogRow)
  /\ calls \in [Calls -> Call \cup {Idle}]
  /\ raced \in SUBSET Ids

Entry(id, row) ==
  [id |-> id, user |-> row.user, type |-> "Topup", status |-> row.status, amount |-> row.amount]

\* raced is a history variable: the rows a call wrote after they had changed
\* under it.
Raced(c) == raced' = IF rows[calls[c].id] = calls[c].row THEN raced
                     ELSE raced \cup {calls[c].id}

-----------------------------------------------------------------------------
Init ==
  /\ rows = [id \in Ids |-> NoRow]
  /\ balance = [u \in Users |-> 0]
  /\ log = <<>>
  /\ calls = [c \in Calls |-> Idle]
  /\ raced = {}

\* A draft without an amount.
CreateDraft(id, u) ==
  /\ rows[id] = NoRow
  /\ rows' = [rows EXCEPT ![id] = [user |-> u, status |-> "Draft", amount |-> 0]]
  /\ UNCHANGED <<balance, log, calls, raced>>

\* A transfer by Payoneer or PingPong, announced with its amount.
Create(id, u, amount) ==
  /\ rows[id] = NoRow
  /\ rows' = [rows EXCEPT ![id] = [user |-> u, status |-> "Process", amount |-> amount]]
  /\ UNCHANGED <<balance, log, calls, raced>>

\* A handler reads the row, and goes on only with the status it expects.
Read(c, id, status) ==
  /\ calls[c] = Idle
  /\ rows[id] # NoRow /\ rows[id].status = status
  /\ calls' = [calls EXCEPT ![c] = [id |-> id, row |-> rows[id]]]
  /\ UNCHANGED <<rows, balance, log, raced>>

\* Mutant: the log gets the row with the status that was read.
LogDraft(c, amount) ==
  /\ Len(log) < MaxLog
  /\ calls[c] # Idle /\ calls[c].row.status = "Draft"
  /\ LET id == calls[c].id IN
     /\ rows' = [rows EXCEPT ![id].status = "Process",
                             ![id].amount = IF amount > 0 THEN amount ELSE @]
     /\ log' = Append(log, Entry(id, [calls[c].row EXCEPT !.amount = amount]))
  /\ Raced(c)
  /\ calls' = [calls EXCEPT ![c] = Idle]
  /\ UNCHANGED balance

\* UpdateTopup: the status is written, the amount only when it is positive; the
\* logged amount is the new one.
UpdateTopup(c, amount) ==
  /\ Len(log) < MaxLog
  /\ calls[c] # Idle /\ calls[c].row.status = "Draft"
  /\ LET id == calls[c].id IN
     /\ rows' = [rows EXCEPT ![id].status = "Process",
                             ![id].amount = IF amount > 0 THEN amount ELSE @]
     /\ log' = Append(log, Entry(id, [calls[c].row EXCEPT !.status = "Process",
                                                          !.amount = amount]))
  /\ Raced(c)
  /\ calls' = [calls EXCEPT ![c] = Idle]
  /\ UNCHANGED balance

\* Mutants: the decision is logged and credited but not saved; a refusal is
\* credited as well.
DecisionNotSaved(c, status) ==
  /\ Len(log) < MaxLog
  /\ calls[c] # Idle /\ calls[c].row.status = "Process"
  /\ LET id == calls[c].id
         row == [calls[c].row EXCEPT !.status = status]
     IN /\ log' = Append(log, Entry(id, row))
        /\ balance' = [balance EXCEPT ![row.user] =
                         IF status = "Success" THEN @ + row.amount ELSE @]
  /\ Raced(c)
  /\ calls' = [calls EXCEPT ![c] = Idle]
  /\ UNCHANGED rows

RefusalCredited(c, status) ==
  /\ Len(log) < MaxLog
  /\ calls[c] # Idle /\ calls[c].row.status = "Process"
  /\ LET id == calls[c].id
         row == [calls[c].row EXCEPT !.status = status]
     IN /\ rows' = [rows EXCEPT ![id] = row]
        /\ log' = Append(log, Entry(id, row))
        /\ balance' = [balance EXCEPT ![row.user] = @ + row.amount]
  /\ Raced(c)
  /\ calls' = [calls EXCEPT ![c] = Idle]

\* ChangeStatus and SaveTransaction: the whole row is written as it was read,
\* with the decision, and a success is credited with the amount that was read.
ChangeStatus(c, status) ==
  /\ Len(log) < MaxLog
  /\ calls[c] # Idle /\ calls[c].row.status = "Process"
  /\ LET id == calls[c].id
         row == [calls[c].row EXCEPT !.status = status]
     IN /\ rows' = [rows EXCEPT ![id] = row]
        /\ log' = Append(log, Entry(id, row))
        /\ \/ status = "Success"
              /\ balance' = [balance EXCEPT ![row.user] = @ + row.amount]
           \/ status # "Success" /\ UNCHANGED balance
  /\ Raced(c)
  /\ calls' = [calls EXCEPT ![c] = Idle]

Next ==
  \/ \E id \in Ids, u \in Users : CreateDraft(id, u)
  \/ \E id \in Ids, u \in Users, a \in Amounts : Create(id, u, a)
  \/ \E c \in Calls, id \in Ids, s \in {"Draft", "Process"} : Read(c, id, s)
  \/ \E c \in Calls, a \in Amounts : UpdateTopup(c, a)
  \/ \E c \in Calls, s \in Final : ChangeStatus(c, s)

Spec == Init /\ [][Next]_vars

-----------------------------------------------------------------------------
(* Properties. *)

Promise == INSTANCE Ledger WITH Entries <- LogRow, Amounts <- Int

\* Top-ups move a balance by the logged amount of a success, and by nothing
\* when a draft is filled in or a top-up is refused.
ImplementsLedger == Promise!Spec

Decisions(id) == {i \in DOMAIN log : log[i].id = id /\ log[i].status \in Final}

\* A top-up no two calls collided on is decided at most once, and stays as it
\* was decided: the only decision in the log has its user, status and amount.
\* The status check of each handler is enough for that: calls that follow one
\* another never undo a decision.
DecidedOnce ==
  \A id \in Ids \ raced :
    /\ Decisions(id) # {} => rows[id] # NoRow /\ rows[id].status \in Final
    /\ rows[id] # NoRow /\ rows[id].status \in Final => Decisions(id) # {}
    /\ \A i, j \in Decisions(id) : i = j
    /\ \A i \in Decisions(id) : log[i] = Entry(id, rows[id])
=============================================================================
