------------------------- MODULE CreditLedgerProofs -------------------------
(***************************************************************************)
(* Machine-checked proofs about CreditLedger: type correctness, that a     *)
(* debit row keeps its consumption statement, that a statement without a   *)
(* row is unfinished work, that the latest balance row shows the account's *)
(* funds while the account is undisturbed, that the debits and their       *)
(* chargebacks implement Chargeback, that the ledger implements Account,   *)
(* that every cent of the funds is explained, and that overlapping debits  *)
(* overdraw an account by a bounded amount.                                *)
(***************************************************************************)
EXTENDS CreditLedger, SumLemmas, SequenceTheorems, TLAPS

ChargebackSteps == {"refund", "removeRow", "removeItem"}

\* Chargeback's program counters belong to chargebacks, which name a row of
\* their user; the later ones have deleted it.
ChargebackNamesARow(h) ==
    LET t == task[h] IN
    /\ t.pc \in ChargebackSteps => t.op = "chargeback"
    /\ t.op = "chargeback" => t.pc \in ChargebackSteps \cup {"done", "rejected"}
    /\ t.op = "chargeback" /\ t.pc # "rejected" =>
          /\ t.row \in DOMAIN rows
          /\ rows[t.row].user = t.user
          /\ t.pc \in {"removeItem", "done"} => ~rows[t.row].live

ChargebacksNameARow == \A h \in Handlers : ChargebackNamesARow(h)

\* A row's statement was made by a committed charge, which made no other row.
ItemsNameTheirCharge ==
    \A i \in DOMAIN rows : rows[i].item # NoItem =>
       /\ task[rows[i].item].op = "charge"
       /\ task[rows[i].item].pc = "done"
       /\ \A j \in DOMAIN rows : rows[j].item = rows[i].item => j = i

\* At most one transaction per account, and the balance it read is current.
TransactionsReadTheFunds ==
    \A u \in Users, h \in Handlers : task[h].pc = "inTx" /\ task[h].user = u =>
       /\ \A g \in Handlers : task[g].pc = "inTx" /\ task[g].user = u => g = h
       /\ ~Disturbed(u) => task[h].last = funds[u]

ItemInv ==
    TypeOK /\ ChargebacksNameARow /\ ItemsNameTheirCharge /\ DebitRowsKeepTheirItem

FundsInv ==
    TypeOK /\ ChargebacksNameARow /\ TransactionsReadTheFunds /\ LatestRowShowsFunds

-----------------------------------------------------------------------------
(* What the helpers of the actions do to the typed state.                  *)

LEMMA StartKeepsType ==
    ASSUME TypeOK, NEW h \in Handlers, NEW op \in OperationNames, NEW u \in Users,
           NEW v \in Int, NEW p \in Payments \cup {NoPayment}, NEW i \in Nat,
           NEW pc \in ProgramCounter, Start(h, op, u, v, p, i, pc)
    PROVE  task' \in [Handlers -> Task]
BY DEF TypeOK, Start, Task

LEMMA GotoKeepsType ==
    ASSUME TypeOK, NEW h \in Handlers, NEW pc \in ProgramCounter, Goto(h, pc)
    PROVE  task' \in [Handlers -> Task]
BY DEF TypeOK, Goto, Task

LEMMA RowType ==
    ASSUME TypeOK, NEW i \in DOMAIN rows
    PROVE  /\ i \in Nat
           /\ rows[i] \in Row
           /\ rows[i].user \in Users
           /\ rows[i].last \in Int /\ rows[i].current \in Int
           /\ rows[i].item \in Handlers \cup {NoItem}
           /\ rows[i].live \in BOOLEAN
<1>1. rows \in Seq(Row)
  BY DEF TypeOK
<1>2. i \in Nat /\ rows[i] \in Row
  BY <1>1
<1> QED BY <1>2 DEF Row

LEMMA OpeningRowType ==
    ASSUME NEW u \in Users
    PROVE  OpeningRow(u) \in Row
BY DEF OpeningRow, Row

LEMMA NewRowType ==
    ASSUME TypeOK, NEW h \in Handlers
    PROVE  NewRow(h) \in Row
BY DEF TypeOK, NewRow, ItemOf, Row, Task

LEMMA AddFundsType ==
    ASSUME TypeOK, NEW h \in Handlers, AddFunds(h)
    PROVE  funds' \in [Users -> Int]
BY DEF TypeOK, AddFunds, Task

LEMMA AddItemType ==
    ASSUME TypeOK, NEW h \in Handlers, AddItem(h)
    PROVE  items' \subseteq Handlers
BY DEF TypeOK, AddItem

LEMMA StepKeepsType ==
    ASSUME TypeOK, ChargebacksNameARow, [Next]_vars
    PROVE  TypeOK'
  <2>1. CASE UNCHANGED vars
    BY <2>1 DEF TypeOK, vars
  <2>2. ASSUME NEW h \in Handlers, FirstStep(h) PROVE TypeOK'
    <3>1. ASSUME NEW u \in Users, NEW v \in Amounts, NEW op \in {"charge", "deduct"},
                 Debit(h, op, u, v)
          PROVE  TypeOK'
      <4> v \in Int /\ -v \in Int
        BY LedgerAssumption
      <4>1. PICK pc \in {"ready", "rejected"} : Start(h, op, u, -v, NoPayment, 0, pc)
        BY <3>1 DEF Debit
      <4>2. task' \in [Handlers -> Task]
        BY <4>1, StartKeepsType DEF OperationNames, ProgramCounter
      <4> QED BY <3>1, <4>2 DEF Debit, TypeOK
    <3>2. ASSUME NEW u \in Users, NEW v \in Amounts, AddCredits(h, u, v)
          PROVE  TypeOK'
      <4> v \in Int
        BY LedgerAssumption
      <4>2. task' \in [Handlers -> Task]
        BY <3>2, StartKeepsType DEF AddCredits, OperationNames, ProgramCounter
      <4> QED BY <3>2, <4>2 DEF AddCredits, TypeOK
    <3>3. ASSUME NEW p \in Payments, ReadPayment(h, p) PROVE TypeOK'
      <4>1. PaymentOwner[p] \in Users /\ PaymentValue[p] \in Int
        BY LedgerAssumption
      <4>2. PICK pc \in {"lookup", "rejected"} :
               Start(h, "creditPayment", PaymentOwner[p], PaymentValue[p], p, 0, pc)
        BY <3>3 DEF ReadPayment
      <4>3. task' \in [Handlers -> Task]
        BY <4>1, <4>2, StartKeepsType DEF OperationNames, ProgramCounter
      <4> QED BY <3>3, <4>3 DEF ReadPayment, TypeOK
    <3>4. ASSUME NEW i \in DOMAIN rows, ReadRow(h, i) PROVE TypeOK'
      <4>1. i \in Nat /\ rows[i].user \in Users /\ rows[i].last - rows[i].current \in Int
        BY RowType
      <4>2. PICK pc \in {"refund", "rejected"} :
               Start(h, "chargeback", rows[i].user, rows[i].last - rows[i].current,
                     NoPayment, i, pc)
        BY <3>4 DEF ReadRow
      <4>3. task' \in [Handlers -> Task]
        BY <4>1, <4>2, StartKeepsType DEF OperationNames, ProgramCounter
      <4> QED BY <3>4, <4>3 DEF ReadRow, TypeOK
    <3>5. ASSUME NEW u \in Users, ViewBalance(h, u) PROVE TypeOK'
      <4>1. PICK pc \in {"opening", "done"} : Start(h, "view", u, 0, NoPayment, 0, pc)
        BY <3>5 DEF ViewBalance
      <4>2. task' \in [Handlers -> Task]
        BY <4>1, StartKeepsType DEF OperationNames, ProgramCounter
      <4> QED BY <3>5, <4>2 DEF ViewBalance, TypeOK
    <3> QED BY <2>2, <3>1, <3>2, <3>3, <3>4, <3>5 DEF FirstStep, Charge, Deduct
  <2>3. ASSUME NEW h \in Handlers, LaterStep(h) PROVE TypeOK'
    <3> USE DEF ProgramCounter
    <3>1. CASE LookupCredit(h)
      <4>1. PICK pc \in {"ready", "rejected"} : Goto(h, pc)
        BY <3>1 DEF LookupCredit
      <4> QED BY <3>1, <4>1, GotoKeepsType DEF LookupCredit, TypeOK
    <3>2. CASE InsertOpening(h)
      <4>1. OpeningRow(task[h].user) \in Row
        BY OpeningRowType DEF TypeOK, Task
      <4> QED BY <3>2, <4>1, GotoKeepsType DEF InsertOpening, TypeOK
    <3>3. CASE BeginTx(h)
      <4>1. OpeningRow(task[h].user) \in Row
        BY OpeningRowType DEF TypeOK, Task
      <4>2. rows \in Seq(Row) /\ \A i \in LatestRows(task[h].user) : rows[i].current \in Int
        BY RowType DEF TypeOK, LatestRows, RowsOf
      <4>3. /\ rows' \in Seq(Row)
            /\ \E l \in Int : task' = [task EXCEPT ![h].pc = "inTx", ![h].last = l]
        <5>1. CASE /\ rows' = Append(rows, OpeningRow(task[h].user))
                   /\ task' = [task EXCEPT ![h].pc = "inTx", ![h].last = 0]
          <6>1. rows' \in Seq(Row)
            BY <5>1, <4>1, <4>2
          <6>2. 0 \in Int
            OBVIOUS
          <6> QED BY <5>1, <6>1, <6>2
        <5>2. CASE \E i \in LatestRows(task[h].user) :
                      /\ task' = [task EXCEPT ![h].pc = "inTx",
                                              ![h].last = rows[i].current]
                      /\ UNCHANGED rows
          BY <5>2, <4>2
        <5> QED BY <3>3, <5>1, <5>2 DEF BeginTx
      <4> PICK l \in Int : task' = [task EXCEPT ![h].pc = "inTx", ![h].last = l]
        BY <4>3
      <4>4. task' \in [Handlers -> Task]
        <5>1. task \in [Handlers -> Task]
          BY DEF TypeOK
        <5>2. [task[h] EXCEPT !.pc = "inTx", !.last = l] \in Task
          BY <5>1 DEF Task
        <5>3. task' = [task EXCEPT ![h] = [task[h] EXCEPT !.pc = "inTx", !.last = l]]
          BY <5>1 DEF Task
        <5> QED BY <5>1, <5>2, <5>3
      <4> QED BY <3>3, <4>3, <4>4 DEF BeginTx, TypeOK
    <3>4. CASE Commit(h)
      BY <3>4, AddFundsType, AddItemType, NewRowType, GotoKeepsType DEF Commit, TypeOK
    <3>5. CASE CommitWithoutRow(h)
      BY <3>5, AddFundsType, AddItemType, GotoKeepsType DEF CommitWithoutRow, TypeOK
    <3>10. CASE CommitWithoutFunds(h)
      BY <3>10, AddItemType, GotoKeepsType DEF CommitWithoutFunds, TypeOK
    <3>6. CASE Abort(h)
      <4>1. PICK pc \in {"aborted", "ready"} : Goto(h, pc)
        BY <3>6 DEF Abort
      <4> QED BY <3>6, <4>1, GotoKeepsType DEF Abort, TypeOK
    <3>7. CASE Refund(h)
      BY <3>7, AddFundsType, GotoKeepsType DEF Refund, TypeOK
    <3>8. CASE RemoveRow(h)
      <4> DEFINE i == task[h].row
      <4>1. i \in DOMAIN rows /\ rows \in Seq(Row) /\ task \in [Handlers -> Task]
        BY <3>8 DEF RemoveRow, ChargebacksNameARow, ChargebackNamesARow, ChargebackSteps, TypeOK
      <4>2. rows[i] \in Row /\ rows[i].live \in BOOLEAN
        BY RowType, <4>1
      <4>3. [rows[i] EXCEPT !.live = FALSE] \in Row
        BY <4>2 DEF Row
      <4>4. rows' = [rows EXCEPT ![i] = [rows[i] EXCEPT !.live = FALSE]]
        BY <3>8, <4>1, <4>2 DEF RemoveRow, Row
      <4>5. rows' \in Seq(Row)
        BY <4>1, <4>3, <4>4
      <4>6. task' \in [Handlers -> Task]
        <5> DEFINE t == [task[h] EXCEPT !.pc = "removeItem", !.removed = rows[i].live]
        <5>1. t \in Task
          BY <4>1, <4>2 DEF Task
        <5>2. task' = [task EXCEPT ![h] = t]
          BY <3>8, <4>1 DEF RemoveRow, Task
        <5> QED BY <4>1, <5>1, <5>2
      <4> QED BY <3>8, <4>5, <4>6 DEF RemoveRow, TypeOK
    <3>9. CASE RemoveItem(h)
      BY <3>9, GotoKeepsType DEF RemoveItem, TypeOK
    <3> QED BY <2>3, <3>1, <3>2, <3>3, <3>4, <3>5, <3>6, <3>7, <3>8, <3>9, <3>10
       DEF LaterStep
  <2> QED BY <2>1, <2>2, <2>3 DEF Next, LedgerNext

-----------------------------------------------------------------------------
(* How a step changes the rows and the task of its handler.                *)

LEMMA AppendedRow ==
    ASSUME TypeOK, NEW r \in Row, rows' = Append(rows, r)
    PROVE  /\ Len(rows) + 1 \notin DOMAIN rows
           /\ DOMAIN rows' = DOMAIN rows \cup {Len(rows) + 1}
           /\ rows'[Len(rows) + 1] = r
           /\ \A i \in DOMAIN rows : rows'[i] = rows[i] /\ i < Len(rows) + 1
<1>1. rows \in Seq(Row)
  BY DEF TypeOK
<1> QED BY <1>1

LEMMA RemovedRow ==
    ASSUME TypeOK, ChargebacksNameARow, NEW h \in Handlers, RemoveRow(h)
    PROVE  LET i == task[h].row IN
           /\ i \in DOMAIN rows
           /\ DOMAIN rows' = DOMAIN rows
           /\ rows'[i] = [rows[i] EXCEPT !.live = FALSE]
           /\ ~rows'[i].live
           /\ rows'[i].user = rows[i].user /\ rows'[i].item = rows[i].item
           /\ \A j \in DOMAIN rows : j # i => rows'[j] = rows[j]
<1> DEFINE i == task[h].row
<1>1. i \in DOMAIN rows
  BY DEF RemoveRow, ChargebacksNameARow, ChargebackNamesARow, ChargebackSteps
<1>2. rows[i] \in Row
  BY <1>1, RowType
<1>3. rows' = [rows EXCEPT ![i] = [rows[i] EXCEPT !.live = FALSE]]
  BY <1>1, <1>2 DEF RemoveRow, Row
<1>4. rows'[i] = [rows[i] EXCEPT !.live = FALSE]
  BY <1>1, <1>3
<1> QED BY <1>1, <1>2, <1>3, <1>4 DEF Row

LEMMA RowsOnlyGrow ==
    ASSUME TypeOK, ChargebacksNameARow, [Next]_vars
    PROVE  \A i \in DOMAIN rows :
              /\ i \in DOMAIN rows'
              /\ rows'[i].user = rows[i].user
              /\ ~rows[i].live => ~rows'[i].live
<1>1. CASE UNCHANGED rows
  BY <1>1
<1>2. ASSUME NEW r \in Row, rows' = Append(rows, r)
      PROVE  \A i \in DOMAIN rows : i \in DOMAIN rows' /\ rows'[i] = rows[i]
  BY <1>2, AppendedRow
<1>3. ASSUME NEW h \in Handlers, FirstStep(h) PROVE UNCHANGED rows
  BY <1>3 DEF FirstStep, Charge, Deduct, Debit, AddCredits, ReadPayment, ReadRow, ViewBalance
<1>4. ASSUME NEW h \in Handlers, LaterStep(h)
      PROVE  UNCHANGED rows \/ RemoveRow(h) \/ \E r \in Row : rows' = Append(rows, r)
  <2>1. OpeningRow(task[h].user) \in Row /\ NewRow(h) \in Row
    BY OpeningRowType, NewRowType DEF TypeOK, Task
  <2> QED BY <1>4, <2>1 DEF LaterStep, LookupCredit, InsertOpening, BeginTx, Commit,
             CommitWithoutFunds, CommitWithoutRow, Abort, Refund, RemoveItem
<1>5. ASSUME NEW h \in Handlers, RemoveRow(h)
      PROVE  \A i \in DOMAIN rows :
                /\ i \in DOMAIN rows'
                /\ rows'[i].user = rows[i].user
                /\ ~rows[i].live => ~rows'[i].live
  BY <1>5, RemovedRow
<1> QED BY <1>1, <1>2, <1>3, <1>4, <1>5 DEF Next, LedgerNext, vars

LEMMA GotoTask ==
    ASSUME TypeOK, NEW h \in Handlers, NEW pc, Goto(h, pc)
    PROVE  /\ \A g \in Handlers : g # h => task'[g] = task[g]
           /\ task'[h] = [task[h] EXCEPT !.pc = pc]
           /\ task'[h].pc = pc
           /\ task'[h].op = task[h].op /\ task'[h].user = task[h].user
           /\ task'[h].row = task[h].row /\ task'[h].last = task[h].last
BY DEF TypeOK, Goto, Task

LEMMA StartTask ==
    ASSUME TypeOK, NEW h \in Handlers, NEW op, NEW u, NEW v, NEW p, NEW i, NEW pc,
           Start(h, op, u, v, p, i, pc)
    PROVE  /\ \A g \in Handlers : g # h => task'[g] = task[g]
           /\ task'[h].pc = pc /\ task'[h].op = op
           /\ task'[h].user = u /\ task'[h].row = i
BY DEF TypeOK, Start

LEMMA BeginTask ==
    ASSUME TypeOK, NEW h \in Handlers, BeginTx(h)
    PROVE  /\ \A g \in Handlers : g # h => task'[g] = task[g]
           /\ task'[h].pc = "inTx"
           /\ task'[h].op = task[h].op /\ task'[h].user = task[h].user
BY DEF TypeOK, BeginTx, Task

LEMMA RemoveRowTask ==
    ASSUME TypeOK, NEW h \in Handlers, RemoveRow(h)
    PROVE  /\ \A g \in Handlers : g # h => task'[g] = task[g]
           /\ task'[h].pc = "removeItem"
           /\ task'[h].op = task[h].op /\ task'[h].user = task[h].user
           /\ task'[h].row = task[h].row
BY DEF TypeOK, RemoveRow, Task

-----------------------------------------------------------------------------
(* The inductive invariants, one lemma each.                               *)

LEMMA StepKeepsChargebacks ==
    ASSUME TypeOK, ChargebacksNameARow, [Next]_vars
    PROVE  ChargebacksNameARow'
<1> USE DEF ChargebackSteps
<1>1. ASSUME NEW g \in Handlers, task'[g] = task[g]
      PROVE  ChargebackNamesARow(g)'
  BY <1>1, RowsOnlyGrow DEF ChargebacksNameARow, ChargebackNamesARow
<1>2. CASE UNCHANGED vars
  BY <1>1, <1>2 DEF vars, ChargebacksNameARow
<1>3. ASSUME NEW h \in Handlers, FirstStep(h) PROVE ChargebacksNameARow'
  <2>1. UNCHANGED rows
    BY <1>3 DEF FirstStep, Charge, Deduct, Debit, AddCredits, ReadPayment, ReadRow, ViewBalance
  <2>2. ASSUME NEW op \in {"charge", "deduct", "add", "creditPayment", "view"},
               NEW u, NEW v, NEW p,
               NEW pc \in {"ready", "rejected", "lookup", "opening", "done"},
               Start(h, op, u, v, p, 0, pc)
        PROVE  ChargebacksNameARow'
    <3>1. ChargebackNamesARow(h)'
      BY <2>2, StartTask DEF ChargebackNamesARow
    <3> QED BY <2>2, <3>1, <1>1, StartTask DEF ChargebacksNameARow
  <2>3. ASSUME NEW i \in DOMAIN rows, ReadRow(h, i) PROVE ChargebacksNameARow'
    <3>1. PICK pc \in {"refund", "rejected"} :
             Start(h, "chargeback", rows[i].user, rows[i].last - rows[i].current,
                   NoPayment, i, pc)
      BY <2>3 DEF ReadRow
    <3>2. ChargebackNamesARow(h)'
      BY <2>1, <3>1, StartTask DEF ChargebackNamesARow
    <3> QED BY <3>1, <3>2, <1>1, StartTask DEF ChargebacksNameARow
  <2>4. ASSUME NEW u, NEW v, NEW op \in {"charge", "deduct"}, Debit(h, op, u, v)
        PROVE  ChargebacksNameARow'
    BY <2>2, <2>4 DEF Debit
  <2>5. ASSUME NEW u, NEW v, AddCredits(h, u, v) PROVE ChargebacksNameARow'
    BY <2>2, <2>5 DEF AddCredits
  <2>6. ASSUME NEW p, ReadPayment(h, p) PROVE ChargebacksNameARow'
    BY <2>2, <2>6 DEF ReadPayment
  <2>7. ASSUME NEW u, ViewBalance(h, u) PROVE ChargebacksNameARow'
    BY <2>2, <2>7 DEF ViewBalance
  <2> QED BY <1>3, <2>3, <2>4, <2>5, <2>6, <2>7 DEF FirstStep, Charge, Deduct
<1>4. ASSUME NEW h \in Handlers, LaterStep(h) PROVE ChargebacksNameARow'
  <2>0. ChargebackNamesARow(h)
    BY DEF ChargebacksNameARow
  <2>1. ASSUME NEW pc \in {"ready", "rejected", "done", "aborted", "halfCommitted", "unmoved"},
               task[h].pc \in {"lookup", "opening", "ready", "inTx"}, Goto(h, pc)
        PROVE  ChargebacksNameARow'
    <3>1. ChargebackNamesARow(h)'
      BY <2>0, <2>1, GotoTask DEF ChargebackNamesARow
    <3> QED BY <2>1, <3>1, <1>1, GotoTask DEF ChargebacksNameARow
  <2>2. CASE BeginTx(h)
    <3>1. ChargebackNamesARow(h)'
      BY <2>0, <2>2, BeginTask DEF ChargebackNamesARow, BeginTx
    <3> QED BY <2>2, <3>1, <1>1, BeginTask DEF ChargebacksNameARow
  <2>3. CASE Refund(h)
    <3>1. ChargebackNamesARow(h)'
      BY <2>0, <2>3, GotoTask DEF ChargebackNamesARow, Refund
    <3> QED BY <2>3, <3>1, <1>1, GotoTask DEF ChargebacksNameARow, Refund
  <2>4. CASE RemoveRow(h)
    <3>1. ChargebackNamesARow(h)'
      BY <2>0, <2>4, RemoveRowTask, RemovedRow DEF ChargebackNamesARow, RemoveRow
    <3> QED BY <2>4, <3>1, <1>1, RemoveRowTask DEF ChargebacksNameARow
  <2>5. CASE RemoveItem(h)
    <3>1. ChargebackNamesARow(h)'
      BY <2>0, <2>5, GotoTask DEF ChargebackNamesARow, RemoveItem
    <3> QED BY <2>5, <3>1, <1>1, GotoTask DEF ChargebacksNameARow, RemoveItem
  <2>6. CASE \/ LookupCredit(h) \/ InsertOpening(h) \/ CommitWithoutFunds(h)
             \/ Commit(h) \/ CommitWithoutRow(h) \/ Abort(h)
    BY <2>6, <2>1 DEF LookupCredit, InsertOpening, CommitWithoutFunds, Commit, CommitWithoutRow,
       Abort
  <2> QED BY <1>4, <2>2, <2>3, <2>4, <2>5, <2>6 DEF LaterStep
<1> QED BY <1>2, <1>3, <1>4 DEF Next, LedgerNext

(***************************************************************************)
(* Type correctness of every reachable state of the ledger.  The flag a    *)
(* chargeback keeps is a Boolean only because the row it names exists, so  *)
(* ChargebacksNameARow is proved with it.                                  *)
(***************************************************************************)
THEOREM LedgerTypeOK == Spec => [](TypeOK /\ ChargebacksNameARow)
<1>1. Init => TypeOK /\ ChargebacksNameARow
  BY LedgerAssumption DEF Init, TypeOK, Task, ProgramCounter, ChargebacksNameARow,
     ChargebackNamesARow, ChargebackSteps
<1>2. TypeOK /\ ChargebacksNameARow /\ [Next]_vars => (TypeOK /\ ChargebacksNameARow)'
  BY StepKeepsType, StepKeepsChargebacks
<1> QED BY <1>1, <1>2, PTL DEF Spec

-----------------------------------------------------------------------------
(* A debit row keeps its consumption statement.                            *)

LEMMA FinishedStays ==
    ASSUME TypeOK, [Next]_vars
    PROVE  \A g \in Handlers : task[g].pc \in {"done", "halfCommitted", "unmoved"} => task'[g] = task[g]
<1>1. CASE UNCHANGED vars
  BY <1>1 DEF vars
<1>2. ASSUME NEW h \in Handlers, FirstStep(h)
      PROVE  \A g \in Handlers : task[g].pc \in {"done", "halfCommitted", "unmoved"} => task'[g] = task[g]
  BY <1>2 DEF FirstStep, Charge, Deduct, Debit, AddCredits, ReadPayment, ReadRow, ViewBalance,
     Idle, Start, TypeOK
<1>3. ASSUME NEW h \in Handlers, LaterStep(h)
      PROVE  \A g \in Handlers : task[g].pc \in {"done", "halfCommitted", "unmoved"} => task'[g] = task[g]
  BY <1>3, BeginTask, RemoveRowTask DEF LaterStep, LookupCredit, InsertOpening, Commit,
     CommitWithoutFunds, CommitWithoutRow, Abort, Refund, RemoveItem, Goto, TypeOK, BeginTx,
     RemoveRow
<1> QED BY <1>1, <1>2, <1>3 DEF Next, LedgerNext

LEMMA RowsStep ==
    ASSUME TypeOK, [Next]_vars
    PROVE  \/ UNCHANGED rows
           \/ \E u \in Users : rows' = Append(rows, OpeningRow(u))
           \/ \E h \in Handlers : RemoveRow(h) \/ Commit(h)
<1>1. CASE UNCHANGED vars
  BY <1>1 DEF vars
<1>2. ASSUME NEW h \in Handlers, FirstStep(h) PROVE UNCHANGED rows
  BY <1>2 DEF FirstStep, Charge, Deduct, Debit, AddCredits, ReadPayment, ReadRow, ViewBalance
<1>3. ASSUME NEW h \in Handlers, LaterStep(h), ~RemoveRow(h), ~Commit(h)
      PROVE  UNCHANGED rows \/ \E u \in Users : rows' = Append(rows, OpeningRow(u))
  <2>1. task[h].user \in Users
    BY DEF TypeOK, Task
  <2> QED BY <1>3, <2>1 DEF LaterStep, LookupCredit, InsertOpening, BeginTx,
             CommitWithoutFunds, CommitWithoutRow, Abort, Refund, RemoveItem
<1> QED BY <1>1, <1>2, <1>3 DEF Next, LedgerNext

LEMMA ItemsStep ==
    ASSUME [Next]_vars
    PROVE  items \subseteq items' \/ \E h \in Handlers : RemoveItem(h)
BY DEF Next, LedgerNext, vars, FirstStep, Charge, Deduct, Debit, AddCredits, ReadPayment,
   ReadRow, ViewBalance, LaterStep, LookupCredit, InsertOpening, BeginTx, Commit,
   CommitWithoutFunds, CommitWithoutRow, Abort, Refund, RemoveRow, AddItem

LEMMA StepKeepsItemsNamed ==
    ASSUME TypeOK, ChargebacksNameARow, ItemsNameTheirCharge, [Next]_vars
    PROVE  ItemsNameTheirCharge'
<1>1. CASE UNCHANGED rows
  BY <1>1, FinishedStays, RowType, LedgerAssumption DEF ItemsNameTheirCharge
<1>2. ASSUME NEW u \in Users, rows' = Append(rows, OpeningRow(u))
      PROVE  ItemsNameTheirCharge'
  <2>1. OpeningRow(u) \in Row /\ OpeningRow(u).item = NoItem
    BY OpeningRowType DEF OpeningRow
  <2> QED BY <1>2, <2>1, AppendedRow, FinishedStays, RowType, LedgerAssumption
          DEF ItemsNameTheirCharge
<1>3. ASSUME NEW h \in Handlers, RemoveRow(h)
      PROVE  ItemsNameTheirCharge'
  <2>1. /\ DOMAIN rows' = DOMAIN rows
        /\ \A i \in DOMAIN rows : rows'[i].item = rows[i].item
    BY <1>3, RemovedRow
  <2> QED BY <2>1, FinishedStays, RowType, LedgerAssumption DEF ItemsNameTheirCharge
<1>4. ASSUME NEW h \in Handlers, Commit(h)
      PROVE  ItemsNameTheirCharge'
  <2>1. NewRow(h) \in Row /\ NewRow(h).item = ItemOf(h) /\ rows' = Append(rows, NewRow(h))
    BY <1>4, NewRowType DEF Commit, NewRow
  <2>2. /\ DOMAIN rows' = DOMAIN rows \cup {Len(rows) + 1}
        /\ rows'[Len(rows) + 1].item = ItemOf(h)
        /\ Len(rows) + 1 \notin DOMAIN rows
        /\ \A i \in DOMAIN rows : rows'[i] = rows[i]
    BY <2>1, AppendedRow
  <2>3. /\ task[h].pc = "inTx"
        /\ task'[h].pc = "done" /\ task'[h].op = task[h].op
    BY <1>4, GotoTask DEF Commit
  <2>4. \A i \in DOMAIN rows : rows[i].item # h
    BY <2>3, LedgerAssumption DEF ItemsNameTheirCharge
  <2>5. ASSUME NEW i \in DOMAIN rows, rows[i].item # NoItem
        PROVE  /\ rows[i].item # ItemOf(h)
               /\ task'[rows[i].item] = task[rows[i].item]
    BY <2>4, <2>5, FinishedStays, RowType DEF ItemOf, ItemsNameTheirCharge
  <2>6. ItemOf(h) # NoItem => ItemOf(h) = h /\ task[h].op = "charge"
    BY DEF ItemOf
  <2> QED BY <2>2, <2>3, <2>5, <2>6 DEF ItemsNameTheirCharge
<1> QED BY <1>1, <1>2, <1>3, <1>4, RowsStep

LEMMA StepKeepsDebitItems ==
    ASSUME TypeOK, ChargebacksNameARow, ItemsNameTheirCharge, DebitRowsKeepTheirItem,
           [Next]_vars
    PROVE  DebitRowsKeepTheirItem'
<1>1. ASSUME NEW h \in Handlers, RemoveItem(h)
      PROVE  DebitRowsKeepTheirItem'
  <2>1. /\ task[h].row \in DOMAIN rows
        /\ ~rows[task[h].row].live
    BY <1>1 DEF RemoveItem, ChargebacksNameARow, ChargebackNamesARow, ChargebackSteps
  <2>2. items' = items \ {rows[task[h].row].item} /\ UNCHANGED rows
    BY <1>1 DEF RemoveItem
  <2>3. ASSUME NEW i \in DOMAIN rows, rows[i].live, rows[i].item # NoItem
        PROVE  rows[i].item # rows[task[h].row].item
    BY <2>1, <2>3 DEF ItemsNameTheirCharge
  <2> QED BY <2>2, <2>3 DEF DebitRowsKeepTheirItem
<1>2. CASE items \subseteq items'
  <2>1. CASE UNCHANGED rows
    BY <1>2, <2>1 DEF DebitRowsKeepTheirItem
  <2>2. ASSUME NEW u \in Users, rows' = Append(rows, OpeningRow(u))
        PROVE  DebitRowsKeepTheirItem'
    <3>1. OpeningRow(u) \in Row /\ OpeningRow(u).item = NoItem
      BY OpeningRowType DEF OpeningRow
    <3> QED BY <1>2, <2>2, <3>1, AppendedRow DEF DebitRowsKeepTheirItem
  <2>3. ASSUME NEW h \in Handlers, RemoveRow(h)
        PROVE  DebitRowsKeepTheirItem'
    BY <1>2, <2>3, RemovedRow DEF DebitRowsKeepTheirItem
  <2>4. ASSUME NEW h \in Handlers, Commit(h)
        PROVE  DebitRowsKeepTheirItem'
    <3>1. /\ NewRow(h) \in Row /\ NewRow(h).item = ItemOf(h)
          /\ rows' = Append(rows, NewRow(h))
      BY <2>4, NewRowType DEF Commit, NewRow
    <3>2. ItemOf(h) # NoItem => ItemOf(h) \in items'
      BY <2>4 DEF Commit, AddItem, ItemOf
    <3> QED BY <1>2, <3>1, <3>2, AppendedRow DEF DebitRowsKeepTheirItem
  <2> QED BY <2>1, <2>2, <2>3, <2>4, RowsStep
<1> QED BY <1>1, <1>2, ItemsStep

\* Statements, rows and chargebacks fit together.
LEMMA ItemsInvariant == Spec => []ItemInv
<1>1. Init => ItemInv
  <2>1. Init => TypeOK /\ ChargebacksNameARow
    BY LedgerAssumption DEF Init, TypeOK, Task, ProgramCounter, ChargebacksNameARow,
       ChargebackNamesARow, ChargebackSteps
  <2>2. Init => ItemsNameTheirCharge /\ DebitRowsKeepTheirItem
    BY DEF Init, ItemsNameTheirCharge, DebitRowsKeepTheirItem
  <2> QED BY <2>1, <2>2 DEF ItemInv
<1>2. ItemInv /\ [Next]_vars => ItemInv'
  BY StepKeepsType, StepKeepsChargebacks, StepKeepsItemsNamed, StepKeepsDebitItems DEF ItemInv
<1> QED BY <1>1, <1>2, PTL DEF Spec

(***************************************************************************)
(* A live debit row never names a consumption statement that is gone.  It  *)
(* follows because a chargeback deletes its row before the statement, and  *)
(* no other row names the same statement.                                  *)
(***************************************************************************)
THEOREM DebitRowsTheorem == Spec => []DebitRowsKeepTheirItem
<1>1. ItemInv => DebitRowsKeepTheirItem
  BY DEF ItemInv
<1> QED BY <1>1, ItemsInvariant, PTL

-----------------------------------------------------------------------------
(* A consumption statement without a live row is unfinished work.          *)

LEMMA RowsKeepItems ==
    ASSUME TypeOK, ChargebacksNameARow, [Next]_vars, NEW i \in DOMAIN rows
    PROVE  /\ i \in DOMAIN rows'
           /\ rows'[i].item = rows[i].item
           /\ \/ rows'[i].live = rows[i].live
              \/ \E h \in Handlers : RemoveRow(h) /\ task[h].row = i
<1>1. CASE UNCHANGED rows
  BY <1>1
<1>2. ASSUME NEW u \in Users, rows' = Append(rows, OpeningRow(u))
      PROVE  i \in DOMAIN rows' /\ rows'[i] = rows[i]
  BY <1>2, AppendedRow, OpeningRowType
<1>3. ASSUME NEW h \in Handlers, Commit(h) PROVE i \in DOMAIN rows' /\ rows'[i] = rows[i]
  BY <1>3, AppendedRow, NewRowType DEF Commit
<1>4. ASSUME NEW h \in Handlers, RemoveRow(h)
      PROVE  /\ i \in DOMAIN rows' /\ rows'[i].item = rows[i].item
             /\ rows'[i].live = rows[i].live \/ task[h].row = i
  BY <1>4, RemovedRow
<1> QED BY <1>1, <1>2, <1>3, <1>4, RowsStep

\* Only its chargeback itself leaves the last removal.
LEMMA RemovalStays ==
    ASSUME TypeOK, [Next]_vars, NEW h \in Handlers, task[h].pc = "removeItem"
    PROVE  task'[h] = task[h] \/ RemoveItem(h)
<1>1. CASE UNCHANGED vars
  BY <1>1 DEF vars
<1>2. ASSUME NEW g \in Handlers, FirstStep(g) PROVE task'[h] = task[h]
  BY <1>2 DEF FirstStep, Charge, Deduct, Debit, AddCredits, ReadPayment, ReadRow, ViewBalance,
     Idle, Start, TypeOK
<1>3. ASSUME NEW g \in Handlers, LaterStep(g) PROVE task'[h] = task[h] \/ RemoveItem(h)
  BY <1>3, BeginTask, RemoveRowTask DEF LaterStep, LookupCredit, InsertOpening, Commit,
     CommitWithoutFunds, CommitWithoutRow, Abort, Refund, RemoveItem, Goto, TypeOK, BeginTx,
     RemoveRow
<1> QED BY <1>1, <1>2, <1>3 DEF Next, LedgerNext

\* A statement is made by its charge.
LEMMA NewItems ==
    ASSUME TypeOK, [Next]_vars, NEW c \in items', c \notin items
    PROVE  /\ c \in Handlers /\ task[c].op = "charge"
           /\ Commit(c) \/ CommitWithoutRow(c) \/ CommitWithoutFunds(c)
<1>1. ~UNCHANGED vars
  BY DEF vars
<1>2. ASSUME NEW h \in Handlers, FirstStep(h) PROVE FALSE
  BY <1>2 DEF FirstStep, Charge, Deduct, Debit, AddCredits, ReadPayment, ReadRow, ViewBalance
<1>3. ASSUME NEW h \in Handlers, LaterStep(h)
      PROVE  (Commit(h) \/ CommitWithoutRow(h) \/ CommitWithoutFunds(h)) /\ AddItem(h)
  BY <1>3 DEF LaterStep, LookupCredit, InsertOpening, BeginTx, Commit, CommitWithoutFunds,
     CommitWithoutRow, Abort, Refund, RemoveRow, RemoveItem
<1>4. ASSUME NEW h \in Handlers, AddItem(h) PROVE c = h /\ task[h].op = "charge"
  BY <1>4 DEF AddItem
<1> QED BY <1>1, <1>2, <1>3, <1>4 DEF Next, LedgerNext

LEMMA StepKeepsBareItems ==
    ASSUME TypeOK, ChargebacksNameARow, BareItemsAreUnfinished, [Next]_vars
    PROVE  BareItemsAreUnfinished'
<1> DEFINE Explained(c) ==
              \/ \E i \in DOMAIN rows : rows[i].live /\ rows[i].item = c
              \/ task[c].pc \in {"halfCommitted", "unmoved"}
              \/ \E h \in Handlers : task[h].pc = "removeItem" /\ rows[task[h].row].item = c
<1> SUFFICES ASSUME NEW c \in items' PROVE Explained(c)'
  BY DEF BareItemsAreUnfinished
<1>1. CASE c \notin items
  <2>1. /\ c \in Handlers /\ task[c].op = "charge"
        /\ Commit(c) \/ CommitWithoutRow(c) \/ CommitWithoutFunds(c)
    BY <1>1, NewItems
  <2>2. CASE Commit(c)
    <3>1. NewRow(c) \in Row /\ NewRow(c).item = c /\ NewRow(c).live
      BY <2>1, NewRowType DEF NewRow, ItemOf
    <3>2. Len(rows) + 1 \in DOMAIN rows' /\ rows'[Len(rows) + 1] = NewRow(c)
      BY <2>2, <3>1, AppendedRow DEF Commit
    <3> QED BY <3>1, <3>2
  <2>3. CASE CommitWithoutRow(c) \/ CommitWithoutFunds(c)
    <3>1. task'[c].pc \in {"halfCommitted", "unmoved"}
      BY <2>1, <2>3, GotoTask DEF CommitWithoutRow, CommitWithoutFunds
    <3> QED BY <3>1
  <2> QED BY <2>1, <2>2, <2>3
<1>2. ASSUME c \in items, NEW i \in DOMAIN rows, rows[i].live, rows[i].item = c
      PROVE  Explained(c)'
  <2>1. CASE rows'[i].live = rows[i].live
    BY <1>2, <2>1, RowsKeepItems
  <2>2. ASSUME NEW h \in Handlers, RemoveRow(h), task[h].row = i PROVE Explained(c)'
    <3>1. task'[h].pc = "removeItem" /\ task'[h].row = i
      BY <2>2, RemoveRowTask
    <3>2. rows'[i].item = c
      BY <1>2, RowsKeepItems
    <3> QED BY <3>1, <3>2
  <2> QED BY <2>1, <2>2, RowsKeepItems
<1>3. ASSUME c \in items, task[c].pc \in {"halfCommitted", "unmoved"}
      PROVE  Explained(c)'
  <2>1. c \in Handlers
    BY <1>3 DEF TypeOK
  <2> QED BY <1>3, <2>1, FinishedStays
<1>4. ASSUME c \in items, NEW h \in Handlers, task[h].pc = "removeItem",
             rows[task[h].row].item = c
      PROVE  Explained(c)'
  <2>1. ~RemoveItem(h)
    BY <1>4 DEF RemoveItem
  <2>2. task'[h] = task[h] /\ task[h].row \in DOMAIN rows
    BY <1>4, <2>1, RemovalStays DEF ChargebacksNameARow, ChargebackNamesARow, ChargebackSteps
  <2>3. rows'[task[h].row].item = c
    BY <1>4, <2>2, RowsKeepItems
  <2> QED BY <1>4, <2>2, <2>3
<1> QED BY <1>1, <1>2, <1>3, <1>4 DEF BareItemsAreUnfinished

(***************************************************************************)
(* A consumption statement that no live row carries is a chargeback        *)
(* stopped between its removals, or a charge committed without its row or  *)
(* without even its debit, for any number of handlers.                     *)
(***************************************************************************)
THEOREM BareItemsTheorem == Spec => []BareItemsAreUnfinished
<1> DEFINE BareInv == TypeOK /\ ChargebacksNameARow /\ BareItemsAreUnfinished
<1>1. Init => BareInv
  BY LedgerAssumption DEF Init, TypeOK, Task, ProgramCounter, ChargebacksNameARow,
     ChargebackNamesARow, ChargebackSteps, BareItemsAreUnfinished
<1>2. BareInv /\ [Next]_vars => BareInv'
  BY StepKeepsType, StepKeepsChargebacks, StepKeepsBareItems
<1>3. BareInv => BareItemsAreUnfinished
  OBVIOUS
<1> QED BY <1>1, <1>2, <1>3, PTL DEF Spec

-----------------------------------------------------------------------------
(* The latest row shows the funds.                                         *)

LEMMA AccountStep ==
    ASSUME TypeOK, [Next]_vars
    PROVE  \/ UNCHANGED <<funds, rows>>
           \/ UNCHANGED funds /\ \E u \in Users : rows' = Append(rows, OpeningRow(u))
           \/ \E h \in Handlers : \/ RemoveRow(h)
                                  \/ Commit(h)
                                  \/ CommitWithoutRow(h)
                                  \/ Refund(h)
<1>1. CASE UNCHANGED vars
  BY <1>1 DEF vars
<1>2. ASSUME NEW h \in Handlers, FirstStep(h) PROVE UNCHANGED <<funds, rows>>
  BY <1>2 DEF FirstStep, Charge, Deduct, Debit, AddCredits, ReadPayment, ReadRow, ViewBalance
<1>3. ASSUME NEW h \in Handlers, LookupCredit(h) \/ CommitWithoutFunds(h) \/ Abort(h)
                                   \/ RemoveItem(h)
      PROVE  UNCHANGED <<funds, rows>>
  BY <1>3 DEF LookupCredit, CommitWithoutFunds, Abort, RemoveItem
<1>4. ASSUME NEW h \in Handlers, InsertOpening(h) \/ BeginTx(h)
      PROVE  /\ UNCHANGED funds
             /\ UNCHANGED rows \/ \E u \in Users : rows' = Append(rows, OpeningRow(u))
  <2>1. task[h].user \in Users
    BY DEF TypeOK, Task
  <2> QED BY <1>4, <2>1 DEF InsertOpening, BeginTx
<1> QED BY <1>1, <1>2, <1>3, <1>4 DEF Next, LedgerNext, LaterStep

LEMMA TransactionStep ==
    ASSUME TypeOK, [Next]_vars, NEW h \in Handlers, task'[h].pc = "inTx"
    PROVE  task'[h] = task[h] \/ BeginTx(h)
<1>1. CASE UNCHANGED vars
  BY <1>1 DEF vars
<1>2. ASSUME NEW g \in Handlers, FirstStep(g) PROVE task'[h] = task[h]
  BY <1>2 DEF FirstStep, Charge, Deduct, Debit, AddCredits, ReadPayment, ReadRow, ViewBalance,
     Start, TypeOK
<1>3. ASSUME NEW g \in Handlers, LaterStep(g) PROVE task'[h] = task[h] \/ BeginTx(h)
  <2>1. CASE BeginTx(g)
    BY <2>1, BeginTask
  <2>2. CASE RemoveRow(g)
    BY <2>2, RemoveRowTask
  <2>3. ASSUME NEW pc \in ProgramCounter \ {"inTx"}, Goto(g, pc)
        PROVE  task'[h] = task[h]
    BY <2>3, GotoTask
  <2> QED BY <1>3, <2>1, <2>2, <2>3 DEF LaterStep, LookupCredit, InsertOpening, Commit,
             CommitWithoutFunds, CommitWithoutRow, Abort, Refund, RemoveItem, ProgramCounter
<1> QED BY <1>1, <1>2, <1>3 DEF Next, LedgerNext

LEMMA ChargebackStep ==
    ASSUME TypeOK, ChargebacksNameARow, [Next]_vars, NEW h \in Handlers,
           task[h].pc \in {"removeRow", "removeItem"}
    PROVE  /\ task'[h].user = task[h].user
           /\ \/ task'[h].pc \in {"removeRow", "removeItem"}
              \/ task'[h].op = "chargeback" /\ task'[h].pc = "done"
<1>0. task[h].op = "chargeback"
  BY DEF ChargebacksNameARow, ChargebackNamesARow, ChargebackSteps
<1>1. CASE UNCHANGED vars
  BY <1>1 DEF vars
<1>2. ASSUME NEW g \in Handlers, FirstStep(g) PROVE task'[h] = task[h]
  BY <1>2 DEF FirstStep, Charge, Deduct, Debit, AddCredits, ReadPayment, ReadRow, ViewBalance,
     Idle, Start, TypeOK
<1>3. ASSUME NEW g \in Handlers, LaterStep(g)
      PROVE  task'[h] = task[h] \/ RemoveRow(h) \/ RemoveItem(h)
  BY <1>3, BeginTask, RemoveRowTask, GotoTask DEF LaterStep, LookupCredit, InsertOpening, Commit,
     CommitWithoutFunds, CommitWithoutRow, Abort, Refund, RemoveItem, BeginTx
<1>4. CASE RemoveRow(h)
  BY <1>4, RemoveRowTask
<1>5. CASE RemoveItem(h)
  BY <1>0, <1>5, GotoTask DEF RemoveItem
<1> QED BY <1>0, <1>1, <1>2, <1>3, <1>4, <1>5 DEF Next, LedgerNext

LEMMA DisturbedStays ==
    ASSUME TypeOK, ChargebacksNameARow, [Next]_vars, NEW u \in Users, Disturbed(u)
    PROVE  Disturbed(u)'
<1>1. ASSUME NEW h \in Handlers, task[h].user = u,
             \/ task[h].pc \in {"removeRow", "removeItem", "halfCommitted"}
             \/ task[h].op = "chargeback" /\ task[h].pc = "done"
      PROVE  Disturbed(u)'
  BY <1>1, ChargebackStep, FinishedStays DEF Disturbed
<1>2. ASSUME NEW i \in DOMAIN rows, NEW j \in DOMAIN rows, i < j, rows[i].user = u,
             rows[j] = OpeningRow(u)
      PROVE  Disturbed(u)'
  <2>1. CASE rows'[j] = rows[j]
    <3>1. /\ i \in DOMAIN rows' /\ j \in DOMAIN rows'
          /\ rows'[i].user = u /\ rows'[j] = OpeningRow(u)
      BY <1>2, <2>1, RowsOnlyGrow
    <3>2. OpeningRow(u)' = OpeningRow(u)
      BY DEF OpeningRow
    <3> QED BY <1>2, <3>1, <3>2 DEF Disturbed
  <2>2. ASSUME NEW h \in Handlers, RemoveRow(h), task[h].row = j
        PROVE  Disturbed(u)'
    <3>1. task[h].user = rows[j].user
      BY <2>2 DEF RemoveRow, ChargebacksNameARow, ChargebackNamesARow, ChargebackSteps
    <3>2. task[h].user = u
      BY <1>2, <3>1 DEF OpeningRow
    <3> QED BY <2>2, <3>2, RemoveRowTask DEF Disturbed
  <2>3. ASSUME NEW h \in Handlers, RemoveRow(h), task[h].row # j
        PROVE  rows'[j] = rows[j]
    BY <2>3, RemovedRow
  <2>4. ASSUME NEW r \in Row, rows' = Append(rows, r)
        PROVE  rows'[j] = rows[j]
    BY <2>4, AppendedRow
  <2> QED BY <2>1, <2>2, <2>3, <2>4, RowsStep, OpeningRowType, NewRowType DEF Commit
<1> QED BY <1>1, <1>2 DEF Disturbed

LEMMA StepKeepsTransactions ==
    ASSUME FundsInv, [Next]_vars
    PROVE  TransactionsReadTheFunds'
<1> USE DEF FundsInv
<1>1. ASSUME NEW h \in Handlers, task'[h].pc = "inTx", NEW g \in Handlers,
             task'[g].pc = "inTx", task'[g].user = task'[h].user
      PROVE  g = h
  <2>1. ASSUME NEW x \in Handlers, NEW y \in Handlers, BeginTx(x), task'[y].pc = "inTx",
               task'[y].user = task'[x].user
        PROVE  y = x
    BY <2>1, BeginTask DEF BeginTx, Locked
  <2>2. CASE task'[h] = task[h] /\ task'[g] = task[g]
    <3>1. task[h].user \in Users
      BY DEF TypeOK, Task
    <3> QED BY <1>1, <2>2, <3>1 DEF TransactionsReadTheFunds
  <2> QED BY <1>1, <2>1, <2>2, TransactionStep
<1>2. ASSUME NEW u \in Users, ~Disturbed(u)', NEW h \in Handlers, task[h].user = u,
             task[h].pc = "inTx", task'[h] = task[h]
      PROVE  task'[h].last = funds'[u]
  <2>1. task[h].last = funds[u]
    BY <1>2, DisturbedStays DEF TransactionsReadTheFunds
  <2>2. ASSUME NEW g \in Handlers, Commit(g) PROVE funds'[u] = funds[u]
    <3>0. Goto(g, "done")
      BY <2>2 DEF Commit
    <3>1. task'[g].pc = "done"
      BY <3>0, GotoTask
    <3>2. task[g].user # u
      BY <1>2, <2>2, <3>1 DEF Commit, TransactionsReadTheFunds
    <3> QED BY <2>2, <3>2 DEF Commit, AddFunds, TypeOK
  <2>3. ASSUME NEW g \in Handlers, CommitWithoutRow(g) \/ Refund(g)
        PROVE  funds'[u] = funds[u]
    <3>1. /\ task'[g].user = task[g].user
          /\ task'[g].pc \in {"halfCommitted", "removeRow"}
      BY <2>3, GotoTask DEF CommitWithoutRow, Refund
    <3>2. task[g].user # u
      BY <1>2, <3>1 DEF Disturbed
    <3> QED BY <2>3, <3>2 DEF CommitWithoutRow, Refund, AddFunds, TypeOK
  <2>4. funds'[u] = funds[u]
    BY <2>2, <2>3, AccountStep DEF RemoveRow
  <2> QED BY <1>2, <2>1, <2>4
<1>3. ASSUME NEW u \in Users, ~Disturbed(u)', NEW h \in Handlers, task[h].user = u,
             BeginTx(h)
      PROVE  task'[h].last = funds'[u]
  <2>0. task \in [Handlers -> Task]
    BY DEF TypeOK
  <2>1. ~Disturbed(u)
    BY <1>3, DisturbedStays
  <2>2. CASE RowsOf(u) = {} /\ task' = [task EXCEPT ![h].pc = "inTx", ![h].last = 0]
    <3>1. task'[h].last = 0
      BY <2>0, <2>2 DEF Task
    <3>2. UNCHANGED funds
      BY <1>3 DEF BeginTx
    <3> QED BY <2>1, <2>2, <3>1, <3>2 DEF LatestRowShowsFunds
  <2>3. ASSUME NEW i \in LatestRows(u),
               task' = [task EXCEPT ![h].pc = "inTx", ![h].last = rows[i].current]
        PROVE  task'[h].last = funds'[u]
    <3>1. task'[h].last = rows[i].current
      BY <2>0, <2>3 DEF Task
    <3>2. UNCHANGED funds
      BY <1>3 DEF BeginTx
    <3> QED BY <2>1, <2>3, <3>1, <3>2 DEF LatestRowShowsFunds
  <2> QED BY <1>3, <2>2, <2>3 DEF BeginTx
<1>4. ASSUME NEW u \in Users, ~Disturbed(u)', NEW h \in Handlers, task'[h].pc = "inTx",
             task'[h].user = u
      PROVE  task'[h].last = funds'[u]
  <2>1. task[h].user = u
    BY <1>4, TransactionStep, BeginTask
  <2> QED BY <1>2, <1>3, <1>4, <2>1, TransactionStep
<1> QED BY <1>1, <1>4 DEF TransactionsReadTheFunds

LEMMA StepKeepsLatestRow ==
    ASSUME FundsInv, [Next]_vars
    PROVE  LatestRowShowsFunds'
<1> USE DEF FundsInv
<1> DEFINE Shown(u) == /\ RowsOf(u) = {} => funds[u] = 0
                       /\ \A i \in LatestRows(u) : rows[i].current = funds[u]
<1> SUFFICES ASSUME NEW u \in Users, ~Disturbed(u)'
             PROVE  Shown(u)'
  BY DEF LatestRowShowsFunds
<1>0. ~Disturbed(u) /\ Shown(u)
  BY DisturbedStays DEF LatestRowShowsFunds
<1>1. ASSUME funds'[u] = funds[u], RowsOf(u)' = RowsOf(u),
             \A i \in RowsOf(u) : rows'[i].current = rows[i].current
      PROVE  Shown(u)'
  <2>1. LatestRows(u)' = LatestRows(u) /\ LatestRows(u) \subseteq RowsOf(u)
    BY <1>1 DEF LatestRows
  <2> QED BY <1>0, <1>1, <2>1
<1>2. CASE UNCHANGED <<funds, rows>>
  BY <1>1, <1>2 DEF RowsOf
<1>3. ASSUME NEW r \in Row, rows' = Append(rows, r), r.user # u, funds'[u] = funds[u]
      PROVE  Shown(u)'
  <2>1. RowsOf(u)' = RowsOf(u)
    BY <1>3, AppendedRow DEF RowsOf
  <2>2. \A i \in RowsOf(u) : rows'[i].current = rows[i].current
    BY <1>3, AppendedRow DEF RowsOf
  <2> QED BY <1>1, <1>3, <2>1, <2>2
<1>4. ASSUME NEW r \in Row, rows' = Append(rows, r), r.user = u, r.live,
             r.current = funds'[u]
      PROVE  Shown(u)'
  <2> DEFINE n == Len(rows) + 1
  <2>1. n \in RowsOf(u)'
    BY <1>4, AppendedRow DEF RowsOf
  <2>2. \A i \in RowsOf(u)' : i = n \/ (i \in DOMAIN rows /\ i < n)
    BY <1>4, AppendedRow DEF RowsOf
  <2>3. n \in Nat /\ DOMAIN rows \subseteq Nat
    BY DEF TypeOK
  <2>4. LatestRows(u)' \subseteq {n}
    BY <2>1, <2>2, <2>3 DEF LatestRows
  <2>5. rows'[n] = r
    BY <1>4, AppendedRow
  <2> QED BY <1>4, <2>1, <2>4, <2>5
<1>5. ASSUME UNCHANGED funds, NEW v \in Users, rows' = Append(rows, OpeningRow(v))
      PROVE  Shown(u)'
  <2>1. /\ OpeningRow(v) \in Row /\ OpeningRow(v).user = v
        /\ OpeningRow(v).live /\ OpeningRow(v).current = 0
    BY OpeningRowType DEF OpeningRow
  <2>2. CASE v # u
    BY <1>3, <1>5, <2>1, <2>2
  <2>3. CASE v = u
    <3>1. RowsOf(u) = {}
      <4> SUFFICES ASSUME NEW i \in RowsOf(u) PROVE Disturbed(u)'
        OBVIOUS
      <4>1. /\ i \in DOMAIN rows' /\ Len(rows) + 1 \in DOMAIN rows' /\ i < Len(rows) + 1
            /\ rows'[i].user = u /\ rows'[Len(rows) + 1] = OpeningRow(u)
        BY <1>5, <2>1, <2>3, AppendedRow DEF RowsOf
      <4>2. OpeningRow(u)' = OpeningRow(u)
        BY DEF OpeningRow
      <4> QED BY <4>1, <4>2 DEF Disturbed
    <3> QED BY <1>0, <1>4, <1>5, <2>1, <2>3, <3>1
  <2> QED BY <2>2, <2>3
<1>6. ASSUME NEW h \in Handlers, RemoveRow(h) PROVE Shown(u)'
  <2>1. task[h].user # u
    BY <1>6, RemoveRowTask DEF Disturbed
  <2>2. rows[task[h].row].user # u
    BY <1>6, <2>1 DEF RemoveRow, ChargebacksNameARow, ChargebackNamesARow, ChargebackSteps
  <2>3. RowsOf(u)' = RowsOf(u)
    <3>1. /\ DOMAIN rows' = DOMAIN rows
          /\ rows'[task[h].row].user = rows[task[h].row].user
          /\ \A j \in DOMAIN rows : j # task[h].row => rows'[j] = rows[j]
      BY <1>6, RemovedRow
    <3> QED BY <2>2, <3>1 DEF RowsOf
  <2>4. \A i \in RowsOf(u) : rows'[i].current = rows[i].current
    BY <1>6, <2>2, RemovedRow DEF RowsOf
  <2> QED BY <1>1, <1>6, <2>3, <2>4 DEF RemoveRow
<1>7. ASSUME NEW h \in Handlers, Commit(h) PROVE Shown(u)'
  <2>1. /\ NewRow(h) \in Row /\ NewRow(h).user = task[h].user /\ NewRow(h).live
        /\ NewRow(h).current = task[h].last + task[h].value
        /\ rows' = Append(rows, NewRow(h))
    BY <1>7, NewRowType DEF Commit, NewRow
  <2>2. CASE task[h].user # u
    <3>1. funds'[u] = funds[u]
      BY <1>7, <2>2 DEF Commit, AddFunds, TypeOK
    <3> QED BY <1>3, <2>1, <2>2, <3>1
  <2>3. CASE task[h].user = u
    <3>1. task[h].last = funds[u]
      BY <1>0, <1>7, <2>3 DEF Commit, TransactionsReadTheFunds
    <3>2. funds'[u] = funds[u] + task[h].value
      BY <1>7, <2>3 DEF Commit, AddFunds, TypeOK
    <3> QED BY <1>4, <2>1, <2>3, <3>1, <3>2
  <2> QED BY <2>2, <2>3
<1>8. ASSUME NEW h \in Handlers, CommitWithoutRow(h) \/ Refund(h) PROVE Shown(u)'
  <2>1. /\ task'[h].user = task[h].user
        /\ task'[h].pc \in {"halfCommitted", "removeRow"}
    BY <1>8, GotoTask DEF CommitWithoutRow, Refund
  <2>2. task[h].user # u
    BY <2>1 DEF Disturbed
  <2>3. UNCHANGED rows /\ funds'[u] = funds[u]
    BY <1>8, <2>2 DEF CommitWithoutRow, Refund, AddFunds, TypeOK
  <2> QED BY <1>1, <2>3 DEF RowsOf
<1> QED BY <1>2, <1>5, <1>6, <1>7, <1>8, AccountStep

(***************************************************************************)
(* As long as an account had no chargeback, no half committed transaction  *)
(* and no opening row behind another row, its latest row shows its funds.  *)
(* The argument: the transaction that holds the write lock of the account  *)
(* is alone, so the balance it read is still the funds when it commits.    *)
(***************************************************************************)
THEOREM LatestRowTheorem == Spec => []LatestRowShowsFunds
<1>1. Init => FundsInv
  <2>1. Init => TypeOK /\ ChargebacksNameARow
    BY LedgerAssumption DEF Init, TypeOK, Task, ProgramCounter, ChargebacksNameARow,
       ChargebackNamesARow, ChargebackSteps
  <2>2. Init => TransactionsReadTheFunds /\ LatestRowShowsFunds
    BY DEF Init, TransactionsReadTheFunds, LatestRowShowsFunds, RowsOf, LatestRows
  <2> QED BY <2>1, <2>2 DEF FundsInv
<1>2. FundsInv /\ [Next]_vars => FundsInv'
  BY StepKeepsType, StepKeepsChargebacks, StepKeepsTransactions, StepKeepsLatestRow DEF FundsInv
<1>3. FundsInv => LatestRowShowsFunds
  BY DEF FundsInv
<1> QED BY <1>1, <1>2, <1>3, PTL DEF Spec

-----------------------------------------------------------------------------
(* The ledger implements Chargeback.                                       *)

\* The refinement mapping.
StandingRows == {i \in DOMAIN rows : rows[i].live}
StruckRows == {i \in DOMAIN rows : ~rows[i].live}
RecordedRows == {i \in DOMAIN rows : Recorded(i)}
HeldRows == {<<h, task[h].row>> : h \in {g \in Handlers : Holds(g)}}
ReturnedRows == {<<h, task[h].row>> : h \in {g \in Handlers : GaveBack(g)}}

\* A handler's pairs are about the row it names.
LEMMA PairsOf ==
    ASSUME NEW h \in Handlers
    PROVE  /\ Holds(h) <=> <<h, task[h].row>> \in HeldRows
           /\ GaveBack(h) <=> <<h, task[h].row>> \in ReturnedRows
           /\ \A x \in HeldRows \cup ReturnedRows : x[1] = h => x = <<h, task[h].row>>
BY DEF HeldRows, ReturnedRows

\* A step of one handler changes its own pairs only.
LEMMA PairsChange ==
    ASSUME NEW h \in Handlers, \A g \in Handlers : g # h => task'[g] = task[g],
           Holds(h) \/ GaveBack(h) => task'[h].row = task[h].row
    PROVE  /\ Holds(h)' => HeldRows' = HeldRows \cup {<<h, task'[h].row>>}
           /\ ~Holds(h)' => HeldRows' = HeldRows \ {<<h, task[h].row>>}
           /\ GaveBack(h)' => ReturnedRows' = ReturnedRows \cup {<<h, task'[h].row>>}
           /\ ~GaveBack(h)' => ReturnedRows' = ReturnedRows \ {<<h, task[h].row>>}
<1>1. \A g \in Handlers : g # h => /\ task'[g].row = task[g].row
                                   /\ Holds(g)' <=> Holds(g)
                                   /\ GaveBack(g)' <=> GaveBack(g)
  BY DEF Holds, GaveBack
<1>2. /\ Holds(h)' => HeldRows' = HeldRows \cup {<<h, task'[h].row>>}
      /\ ~Holds(h)' => HeldRows' = HeldRows \ {<<h, task[h].row>>}
  BY <1>1 DEF HeldRows
<1>3. /\ GaveBack(h)' => ReturnedRows' = ReturnedRows \cup {<<h, task'[h].row>>}
      /\ ~GaveBack(h)' => ReturnedRows' = ReturnedRows \ {<<h, task[h].row>>}
  BY <1>1 DEF ReturnedRows
<1> QED BY <1>2, <1>3

\* A step outside the chargebacks changes no pair.
LEMMA PairsStay ==
    ASSUME NEW h \in Handlers, \A g \in Handlers : g # h => task'[g] = task[g],
           ~Holds(h), ~GaveBack(h), ~Holds(h)', ~GaveBack(h)'
    PROVE  HeldRows' = HeldRows /\ ReturnedRows' = ReturnedRows
<1> DEFINE x == <<h, task[h].row>>
<1>1. HeldRows' = HeldRows \ {x} /\ ReturnedRows' = ReturnedRows \ {x}
  BY PairsChange
<1>2. x \notin HeldRows /\ x \notin ReturnedRows
  BY PairsOf
<1> HIDE DEF x
<1> QED BY <1>1, <1>2

\* A row that is appended with its statement is a charge that is made.
LEMMA AppendMakes ==
    ASSUME TypeOK, NEW r \in Row, rows' = Append(rows, r), r.live,
           items \subseteq items', r.item = NoItem \/ r.item \in items',
           \A i \in DOMAIN rows : rows[i].item \in items' => rows[i].item \in items,
           HeldRows' = HeldRows, ReturnedRows' = ReturnedRows
    PROVE  Contract!Make
<1> DEFINE n == Len(rows) + 1
<1>1. /\ n \notin DOMAIN rows
      /\ DOMAIN rows' = DOMAIN rows \cup {n}
      /\ rows'[n] = r
      /\ \A i \in DOMAIN rows : rows'[i] = rows[i]
  BY AppendedRow
<1> HIDE DEF n
<1>2. StandingRows' = StandingRows \cup {n} /\ n \notin StandingRows \cup StruckRows
  BY <1>1 DEF StandingRows, StruckRows
<1>3. StruckRows' = StruckRows
  BY <1>1 DEF StruckRows
<1>4. RecordedRows' = RecordedRows \cup {n}
  BY <1>1 DEF RecordedRows, Recorded
<1>5. StandingRows \cap StruckRows = {}
  BY DEF StandingRows, StruckRows
<1> HIDE DEF StandingRows, StruckRows, RecordedRows, HeldRows, ReturnedRows
<1>6. /\ StandingRows \subseteq StandingRows'
      /\ StandingRows' \cap StruckRows = {}
      /\ RecordedRows' = RecordedRows \cup (StandingRows' \ StandingRows)
  BY <1>2, <1>4, <1>5
<1> QED BY <1>3, <1>6 DEF Contract!Make, StandingRows, StruckRows, RecordedRows, HeldRows,
           ReturnedRows

\* Reading a live row finds it; the other first steps concern no chargeback.
LEMMA FirstStepKeepsContract ==
    ASSUME ItemInv, NEW h \in Handlers, FirstStep(h)
    PROVE  Contract!Next \/ UNCHANGED Contract!vars
<1> USE DEF ItemInv
<1>1. UNCHANGED <<rows, items>> /\ task[h].pc = "idle"
  BY DEF FirstStep, Charge, Deduct, Debit, AddCredits, ReadPayment, ReadRow, ViewBalance, Idle
<1>2. ~Holds(h) /\ ~GaveBack(h)
  BY <1>1 DEF Holds, GaveBack
<1>3. /\ StandingRows' = StandingRows /\ StruckRows' = StruckRows
      /\ RecordedRows' = RecordedRows
  BY <1>1 DEF StandingRows, StruckRows, RecordedRows, Recorded
<1>4. ASSUME NEW op, NEW u, NEW v, NEW p, NEW i, NEW pc, Start(h, op, u, v, p, i, pc),
             pc \notin {"refund", "removeRow", "removeItem"}, op = "chargeback" => pc # "done"
      PROVE  UNCHANGED Contract!vars
  <2>1. ~Holds(h)' /\ ~GaveBack(h)' /\ \A g \in Handlers : g # h => task'[g] = task[g]
    BY <1>4, StartTask DEF Holds, GaveBack
  <2>2. HeldRows' = HeldRows /\ ReturnedRows' = ReturnedRows
    BY <1>2, <2>1, PairsStay
  <2> QED BY <1>3, <2>2 DEF Contract!vars, StandingRows, StruckRows, RecordedRows, HeldRows,
             ReturnedRows
<1>5. ASSUME NEW i \in DOMAIN rows, ReadRow(h, i), rows[i].live
      PROVE  Contract!Find(h)
  <2>1. Start(h, "chargeback", rows[i].user, rows[i].last - rows[i].current, NoPayment, i,
              "refund")
    BY <1>5 DEF ReadRow
  <2>2. /\ \A g \in Handlers : g # h => task'[g] = task[g]
        /\ Holds(h)' /\ ~GaveBack(h)' /\ task'[h].row = i
    BY <2>1, StartTask DEF Holds, GaveBack
  <2>3. HeldRows' = HeldRows \cup {<<h, i>>} /\ ReturnedRows' = ReturnedRows
    BY <1>2, <2>2, PairsChange, PairsOf
  <2>4. \A x \in HeldRows \cup ReturnedRows : x[1] # h
    BY <1>2, PairsOf
  <2>5. i \in StandingRows
    BY <1>5 DEF StandingRows
  <2> HIDE DEF StandingRows, StruckRows, RecordedRows, HeldRows, ReturnedRows
  <2> QED BY <1>3, <2>3, <2>4, <2>5 DEF Contract!Find, StandingRows, StruckRows, RecordedRows,
             HeldRows, ReturnedRows
<1>6. ASSUME NEW i \in DOMAIN rows, ReadRow(h, i), ~rows[i].live
      PROVE  UNCHANGED Contract!vars
  BY <1>4, <1>6 DEF ReadRow
<1>7. CASE \E u \in Users, v \in Amounts : Charge(h, u, v) \/ Deduct(h, u, v) \/ AddCredits(h, u, v)
  BY <1>4, <1>7 DEF Charge, Deduct, Debit, AddCredits
<1>8. CASE \E p \in Payments : ReadPayment(h, p)
  BY <1>4, <1>8 DEF ReadPayment
<1>9. CASE \E u \in Users : ViewBalance(h, u)
  BY <1>4, <1>9 DEF ViewBalance
<1> QED BY <1>5, <1>6, <1>7, <1>8, <1>9 DEF FirstStep, Contract!Next

\* Appended rows are made; the chargeback's writes are those of the contract.
LEMMA LaterStepKeepsContract ==
    ASSUME ItemInv, NEW h \in Handlers, LaterStep(h)
    PROVE  Contract!Next \/ UNCHANGED Contract!vars
<1> USE DEF ItemInv
<1>0. ChargebackNamesARow(h) /\ task[h].user \in Users
  BY DEF ChargebacksNameARow, TypeOK, Task
<1>1. ASSUME UNCHANGED rows, UNCHANGED items
      PROVE  /\ StandingRows' = StandingRows /\ StruckRows' = StruckRows
             /\ RecordedRows' = RecordedRows
  BY <1>1 DEF StandingRows, StruckRows, RecordedRows, Recorded
<1>2. ASSUME NEW pc \in {"ready", "rejected", "done", "aborted", "halfCommitted", "unmoved",
                        "inTx"},
             task[h].pc \in {"lookup", "opening", "ready", "inTx"}, task'[h].pc = pc,
             task'[h].op = task[h].op, \A g \in Handlers : g # h => task'[g] = task[g]
      PROVE  HeldRows' = HeldRows /\ ReturnedRows' = ReturnedRows
  <2>1. task[h].op # "chargeback"
    BY <1>0, <1>2 DEF ChargebackNamesARow, ChargebackSteps
  <2>2. ~Holds(h) /\ ~GaveBack(h) /\ ~Holds(h)' /\ ~GaveBack(h)'
    BY <1>2, <2>1 DEF Holds, GaveBack
  <2> QED BY <1>2, <2>2, PairsStay
<1>3. CASE LookupCredit(h) \/ Abort(h)
  <2>1. HeldRows' = HeldRows /\ ReturnedRows' = ReturnedRows
    BY <1>2, <1>3, GotoTask DEF LookupCredit, Abort
  <2>2. UNCHANGED <<rows, items>>
    BY <1>3 DEF LookupCredit, Abort
  <2> QED BY <1>1, <2>1, <2>2 DEF Contract!vars, StandingRows, StruckRows, RecordedRows, HeldRows,
             ReturnedRows
<1>4. ASSUME NEW u \in Users, rows' = Append(rows, OpeningRow(u)), UNCHANGED items,
             HeldRows' = HeldRows, ReturnedRows' = ReturnedRows
      PROVE  Contract!Make
  <2>1. OpeningRow(u) \in Row /\ OpeningRow(u).live /\ OpeningRow(u).item = NoItem
    BY OpeningRowType DEF OpeningRow
  <2> HIDE DEF StandingRows, StruckRows, RecordedRows, HeldRows, ReturnedRows
  <2> QED BY <1>4, <2>1, AppendMakes
<1>5. CASE InsertOpening(h)
  <2>1. HeldRows' = HeldRows /\ ReturnedRows' = ReturnedRows
    BY <1>2, <1>5, GotoTask DEF InsertOpening
  <2> QED BY <1>0, <1>4, <1>5, <2>1 DEF InsertOpening, Contract!Next
<1>6. CASE BeginTx(h)
  <2>1. HeldRows' = HeldRows /\ ReturnedRows' = ReturnedRows
    BY <1>2, <1>6, BeginTask DEF BeginTx
  <2>2. CASE UNCHANGED rows
    BY <1>1, <1>6, <2>1, <2>2 DEF BeginTx, Contract!vars, StandingRows, StruckRows, RecordedRows,
       HeldRows, ReturnedRows
  <2>3. CASE rows' = Append(rows, OpeningRow(task[h].user))
    BY <1>0, <1>4, <1>6, <2>1, <2>3 DEF BeginTx, Contract!Next
  <2> QED BY <1>6, <2>2, <2>3 DEF BeginTx
<1>7. ASSUME Commit(h) \/ CommitWithoutRow(h) \/ CommitWithoutFunds(h)
      PROVE  /\ HeldRows' = HeldRows /\ ReturnedRows' = ReturnedRows
             /\ items \subseteq items'
             /\ \A i \in DOMAIN rows : rows[i].item \in items' => rows[i].item \in items
  <2>1. HeldRows' = HeldRows /\ ReturnedRows' = ReturnedRows
    BY <1>2, <1>7, GotoTask DEF Commit, CommitWithoutRow, CommitWithoutFunds
  <2>2. items' \in {items, items \cup {h}}
    BY <1>7 DEF Commit, CommitWithoutRow, CommitWithoutFunds, AddItem
  <2>3. task[h].pc \in {"ready", "inTx"}
    BY <1>7 DEF Commit, CommitWithoutRow, CommitWithoutFunds
  <2>4. ASSUME NEW i \in DOMAIN rows PROVE rows[i].item # h
    BY <2>3, LedgerAssumption DEF ItemsNameTheirCharge
  <2> QED BY <2>1, <2>2, <2>4
<1>8. CASE Commit(h)
  <2>1. /\ NewRow(h) \in Row /\ NewRow(h).live
        /\ NewRow(h).item = NoItem \/ NewRow(h).item \in items'
    BY <1>8, NewRowType DEF Commit, NewRow, ItemOf, AddItem
  <2>2. rows' = Append(rows, NewRow(h))
    BY <1>8 DEF Commit
  <2>3. Contract!Make
    BY <1>7, <1>8, <2>1, <2>2, AppendMakes
  <2> QED BY <2>3 DEF Contract!Next
<1>9. CASE CommitWithoutRow(h) \/ CommitWithoutFunds(h)
  <2>1. UNCHANGED rows
    BY <1>9 DEF CommitWithoutRow, CommitWithoutFunds
  <2>2. RecordedRows' = RecordedRows /\ StandingRows' = StandingRows /\ StruckRows' = StruckRows
    BY <1>7, <1>9, <2>1 DEF RecordedRows, Recorded, StandingRows, StruckRows
  <2> QED BY <1>7, <1>9, <2>2 DEF Contract!vars, StandingRows, StruckRows, RecordedRows, HeldRows,
             ReturnedRows
<1> DEFINE i == task[h].row
           x == <<h, i>>
<1>10. ASSUME task[h].pc \in {"refund", "removeRow", "removeItem"}
       PROVE  /\ x \in HeldRows /\ i \in DOMAIN rows /\ task[h].op = "chargeback"
              /\ task[h].pc = "refund" <=> x \notin ReturnedRows
              /\ task[h].pc = "removeItem" => i \in StruckRows
  <2>1. Holds(h) /\ task[h].op = "chargeback" /\ (GaveBack(h) <=> task[h].pc # "refund")
    BY <1>0, <1>10 DEF Holds, GaveBack, ChargebackNamesARow, ChargebackSteps
  <2>2. i \in DOMAIN rows /\ (task[h].pc = "removeItem" => ~rows[i].live)
    BY <1>0, <1>10 DEF ChargebackNamesARow, ChargebackSteps
  <2> QED BY <1>10, <2>1, <2>2, PairsOf DEF StruckRows
<1>11. CASE Refund(h)
  <2>1. task[h].pc = "refund" /\ UNCHANGED <<rows, items>> /\ Goto(h, "removeRow")
    BY <1>11 DEF Refund
  <2>2. /\ Holds(h)' /\ GaveBack(h)' /\ task'[h].row = i
        /\ \A g \in Handlers : g # h => task'[g] = task[g]
    BY <1>10, <2>1, GotoTask DEF Holds, GaveBack
  <2>3. HeldRows' = HeldRows \cup {x} /\ ReturnedRows' = ReturnedRows \cup {x}
    BY <2>2, PairsChange
  <2>4. x[1] = h
    OBVIOUS
  <2> HIDE DEF x
  <2>5. x \in HeldRows \ ReturnedRows /\ HeldRows' = HeldRows
    BY <1>10, <2>1, <2>3
  <2>6. Contract!GiveBack(h)
    BY <1>1, <2>1, <2>3, <2>4, <2>5 DEF Contract!GiveBack, StandingRows, StruckRows, RecordedRows,
       HeldRows, ReturnedRows
  <2> QED BY <2>6 DEF Contract!Next
<1>12. CASE RemoveRow(h)
  <2>1. task[h].pc = "removeRow" /\ UNCHANGED items
    BY <1>12 DEF RemoveRow
  <2>2. /\ Holds(h)' /\ GaveBack(h)' /\ task'[h].row = i
        /\ \A g \in Handlers : g # h => task'[g] = task[g]
    BY <1>10, <1>12, <2>1, RemoveRowTask DEF Holds, GaveBack
  <2>3. HeldRows' = HeldRows \cup {x} /\ ReturnedRows' = ReturnedRows \cup {x}
    BY <2>2, PairsChange
  <2>4. /\ StandingRows' = StandingRows \ {x[2]} /\ StruckRows' = StruckRows \cup {x[2]}
        /\ RecordedRows' = RecordedRows
    BY <1>12, <2>1, RemovedRow DEF StandingRows, StruckRows, RecordedRows, Recorded
  <2>5. x[1] = h
    OBVIOUS
  <2> HIDE DEF x
  <2>6. x \in HeldRows \cap ReturnedRows /\ HeldRows' = HeldRows /\ ReturnedRows' = ReturnedRows
    BY <1>10, <2>1, <2>3
  <2>7. Contract!Strike(h)
    BY <2>3, <2>4, <2>5, <2>6 DEF Contract!Strike, StandingRows, StruckRows, RecordedRows, HeldRows,
       ReturnedRows
  <2> QED BY <2>7 DEF Contract!Next
<1>13. CASE RemoveItem(h)
  <2>1. /\ task[h].pc = "removeItem" /\ UNCHANGED rows /\ Goto(h, "done")
        /\ items' = items \ {rows[i].item}
    BY <1>13 DEF RemoveItem
  <2>2. /\ ~Holds(h)' /\ GaveBack(h)' /\ task'[h].row = i
        /\ \A g \in Handlers : g # h => task'[g] = task[g]
    <3>1. /\ task'[h].pc = "done" /\ task'[h].op = "chargeback" /\ task'[h].row = i
          /\ \A g \in Handlers : g # h => task'[g] = task[g]
      BY <1>10, <2>1, GotoTask
    <3> QED BY <3>1 DEF Holds, GaveBack
  <2>3. HeldRows' = HeldRows \ {x} /\ ReturnedRows' = ReturnedRows \cup {x}
    BY <2>2, PairsChange
  <2>4. StandingRows' = StandingRows /\ StruckRows' = StruckRows /\ x[2] \in StruckRows
    BY <1>10, <2>1 DEF StandingRows, StruckRows
  <2>5. RecordedRows' \in {RecordedRows, RecordedRows \ {x[2]}}
    <3>1. CASE rows[i].item = NoItem
      <4>1. NoItem \notin items
        BY LedgerAssumption DEF TypeOK
      <4> QED BY <2>1, <3>1, <4>1 DEF RecordedRows, Recorded
    <3>2. CASE rows[i].item # NoItem
      <4>1. \A j \in DOMAIN rows : rows[j].item = rows[i].item => j = i
        BY <1>10, <2>1, <3>2 DEF ItemsNameTheirCharge
      <4> QED BY <2>1, <3>2, <4>1 DEF RecordedRows, Recorded
    <3> QED BY <3>1, <3>2
  <2>6. x[1] = h
    OBVIOUS
  <2> HIDE DEF x
  <2>7. x \in HeldRows \cap ReturnedRows /\ ReturnedRows' = ReturnedRows
    BY <1>10, <2>1, <2>3
  <2>8. Contract!Erase(h)
    BY <2>3, <2>4, <2>5, <2>6, <2>7 DEF Contract!Erase, StandingRows, StruckRows, RecordedRows,
       HeldRows, ReturnedRows
  <2> QED BY <2>8 DEF Contract!Next
<1> QED BY <1>3, <1>5, <1>6, <1>8, <1>9, <1>11, <1>12, <1>13 DEF LaterStep

(***************************************************************************)
(* The ledger implements Chargeback for every set of users, handlers and   *)
(* amounts: an execution gives a row back at most once and only if it      *)
(* found it live, and the row and then its statement leave after that.     *)
(* The invariant is that of DebitRowsTheorem: no two rows share a          *)
(* statement, and a chargeback names a row that exists.                    *)
(***************************************************************************)
THEOREM ChargebackTheorem == Spec => ImplementsChargeback
<1>1. Init => Contract!Init
  BY DEF Init, Contract!Init, Holds, GaveBack
<1>2. ItemInv /\ [Next]_vars => [Contract!Next]_(Contract!vars)
  <2> SUFFICES ASSUME ItemInv, [Next]_vars PROVE Contract!Next \/ UNCHANGED Contract!vars
    OBVIOUS
  <2>1. CASE UNCHANGED vars
    BY <2>1 DEF vars, Contract!vars, Recorded, Holds, GaveBack
  <2> QED BY <2>1, FirstStepKeepsContract, LaterStepKeepsContract DEF Next, LedgerNext
<1> QED BY <1>1, <1>2, ItemsInvariant, PTL DEF Spec, ImplementsChargeback, Contract!Spec

-----------------------------------------------------------------------------
(* The ledger implements Account.                                         *)

Moves == [h \in Handlers |-> MovementOf(h)]

\* Only a view inserts an opening row on its own, and it does nothing else.
ViewsOnlyOpen ==
    \A h \in Handlers : /\ task[h].pc = "opening" => task[h].op = "view"
                        /\ task[h].op = "view" => task[h].pc \in {"opening", "done"}

AccountInv == TypeOK /\ ChargebacksNameARow /\ ViewsOnlyOpen

-----------------------------------------------------------------------------
(* What a step does to the movements.                                      *)

\* A handler's state maps to a movement of the abstract type.
LEMMA MovementType ==
    ASSUME TypeOK, NEW h \in Handlers
    PROVE  MovementOf(h) \in Abstract!Movement
BY DEF TypeOK, Task, MovementOf, Phase, Abstract!Movement

\* A step of one handler changes its movement only.
LEMMA OthersKeepTheirMovement ==
    ASSUME NEW h \in Handlers, \A g \in Handlers : g # h => task'[g] = task[g]
    PROVE  /\ Moves' = [Moves EXCEPT ![h] = MovementOf(h)']
           /\ Moves'[h] = MovementOf(h)'
           /\ Moves[h] = MovementOf(h)
<1>1. \A g \in Handlers : g # h => MovementOf(g)' = MovementOf(g)
  BY DEF MovementOf, Phase
<1> QED BY <1>1 DEF Moves

\* Without a change of any movement the step is a stutter.
LEMMA SameMovement ==
    ASSUME NEW h \in Handlers, \A g \in Handlers : g # h => task'[g] = task[g],
           MovementOf(h)' = MovementOf(h)
    PROVE  Moves' = Moves
BY OthersKeepTheirMovement DEF Moves

\* The mapping of Becomes.
LEMMA MovementBecomes ==
    ASSUME TypeOK', NEW h \in Handlers, \A g \in Handlers : g # h => task'[g] = task[g],
           NEW phase, MovementOf(h)'.phase = phase
    PROVE  Abstract!Becomes(h, phase)
<1>1. MovementOf(h)' \in Abstract!Movement
  BY DEF TypeOK, Task, MovementOf, Phase, Abstract!Movement
<1>2. Moves' = [Moves EXCEPT ![h] = MovementOf(h)'] /\ Moves'[h] = MovementOf(h)'
  BY OthersKeepTheirMovement
<1> QED BY <1>1, <1>2 DEF Abstract!Becomes, Moves

\* Start sets the movement and moves only its handler.
LEMMA StartMovement ==
    ASSUME TypeOK, NEW h \in Handlers, NEW op, NEW u, NEW v, NEW p, NEW i, NEW pc,
           Start(h, op, u, v, p, i, pc)
    PROVE  /\ \A g \in Handlers : g # h => task'[g] = task[g]
           /\ task'[h].pc = pc /\ task'[h].op = op
           /\ task'[h].user = u /\ task'[h].value = v
BY DEF TypeOK, Start

\* Goto keeps what the movement is of.
LEMMA GotoMovement ==
    ASSUME TypeOK, NEW h \in Handlers, NEW pc, Goto(h, pc)
    PROVE  /\ \A g \in Handlers : g # h => task'[g] = task[g]
           /\ task'[h].pc = pc /\ task'[h].op = task[h].op
           /\ task'[h].user = task[h].user /\ task'[h].value = task[h].value
BY DEF TypeOK, Goto, Task

\* So does the transaction's beginning, which only copies a balance ...
LEMMA BeginMovement ==
    ASSUME TypeOK, NEW h \in Handlers, BeginTx(h)
    PROVE  /\ \A g \in Handlers : g # h => task'[g] = task[g]
           /\ task'[h].pc = "inTx" /\ task'[h].op = task[h].op
           /\ task'[h].user = task[h].user /\ task'[h].value = task[h].value
           /\ task'[h].row = task[h].row
BY DEF TypeOK, BeginTx, Task

\* ... and the removal of the row, which only notes whether it was live.
LEMMA RemoveRowMovement ==
    ASSUME TypeOK, NEW h \in Handlers, RemoveRow(h)
    PROVE  /\ \A g \in Handlers : g # h => task'[g] = task[g]
           /\ task'[h].pc = "removeItem" /\ task'[h].op = task[h].op
           /\ task'[h].user = task[h].user /\ task'[h].value = task[h].value
BY DEF TypeOK, RemoveRow, Task

-----------------------------------------------------------------------------
\* Views open and do nothing else.
LEMMA StepKeepsViews ==
    ASSUME AccountInv, [Next]_vars
    PROVE  ViewsOnlyOpen'
<1> USE DEF AccountInv
<1>1. CASE UNCHANGED vars
  BY <1>1 DEF vars, ViewsOnlyOpen
<1>2. ASSUME NEW h \in Handlers, FirstStep(h) PROVE ViewsOnlyOpen'
  <2>1. ASSUME NEW op, NEW u, NEW v, NEW p, NEW i, NEW pc, Start(h, op, u, v, p, i, pc),
               IF op = "view" THEN pc \in {"opening", "done"} ELSE pc # "opening"
        PROVE  ViewsOnlyOpen'
    BY <2>1, StartMovement DEF ViewsOnlyOpen
  <2>2. CASE \E u \in Users, v \in Amounts : Charge(h, u, v) \/ Deduct(h, u, v) \/ AddCredits(h, u, v)
    BY <2>1, <2>2 DEF Charge, Deduct, Debit, AddCredits
  <2>3. CASE \E p \in Payments : ReadPayment(h, p)
    BY <2>1, <2>3 DEF ReadPayment
  <2>4. CASE \E i \in DOMAIN rows : ReadRow(h, i)
    BY <2>1, <2>4 DEF ReadRow
  <2>5. CASE \E u \in Users : ViewBalance(h, u)
    BY <2>1, <2>5 DEF ViewBalance
  <2> QED BY <1>2, <2>2, <2>3, <2>4, <2>5 DEF FirstStep
<1>3. ASSUME NEW h \in Handlers, LaterStep(h) PROVE ViewsOnlyOpen'
  <2>0. task[h].pc \in ChargebackSteps => task[h].op = "chargeback"
    BY DEF ChargebacksNameARow, ChargebackNamesARow
  <2>1. ASSUME NEW pc, Goto(h, pc), pc # "opening",
               task[h].op = "view" => pc = "done"
        PROVE  ViewsOnlyOpen'
    BY <2>1, GotoMovement DEF ViewsOnlyOpen
  <2>2. CASE BeginTx(h)
    BY <2>2, BeginMovement DEF BeginTx, ViewsOnlyOpen
  <2>3. CASE RemoveRow(h)
    BY <2>0, <2>3, RemoveRowMovement DEF RemoveRow, ViewsOnlyOpen, ChargebackSteps
  <2>4. CASE \/ LookupCredit(h) \/ InsertOpening(h) \/ CommitWithoutFunds(h)
             \/ Commit(h) \/ CommitWithoutRow(h) \/ Abort(h)
    BY <2>1, <2>4 DEF LookupCredit, InsertOpening, CommitWithoutFunds, Commit, CommitWithoutRow,
       Abort, ViewsOnlyOpen
  <2>5. CASE Refund(h) \/ RemoveItem(h)
    BY <2>0, <2>1, <2>5 DEF Refund, RemoveItem, ChargebackSteps
  <2> QED BY <1>3, <2>2, <2>3, <2>4, <2>5 DEF LaterStep
<1> QED BY <1>1, <1>2, <1>3 DEF Next, LedgerNext

-----------------------------------------------------------------------------
(* The simulation.                                                         *)

\* Every use case begins by asking for its movement or by being refused.
LEMMA FirstStepImplements ==
    ASSUME AccountInv, AccountInv', NEW h \in Handlers, FirstStep(h)
    PROVE  Abstract!Ask(h) \/ Abstract!Refuse(h)
<1> USE DEF AccountInv
<1>1. UNCHANGED funds
  BY DEF FirstStep, Charge, Deduct, Debit, AddCredits, ReadPayment, ReadRow, ViewBalance
<1>2. task[h].pc = "idle"
  BY DEF FirstStep, Charge, Deduct, Debit, AddCredits, ReadPayment, ReadRow, ViewBalance, Idle
<1>3. Moves[h] = MovementOf(h) /\ Moves[h].phase = "new"
  BY <1>2 DEF Moves, MovementOf, Phase
<1>4. ASSUME NEW op, NEW u, NEW v, NEW p, NEW i, NEW pc, Start(h, op, u, v, p, i, pc),
             op = "view" \/ pc = "rejected", pc # "idle"
      PROVE  Abstract!Refuse(h)
  <2>1. MovementOf(h)'.phase = "refused"
    BY <1>4, StartMovement DEF MovementOf, Phase
  <2>2. Abstract!Becomes(h, "refused")
    BY <1>4, <2>1, StartMovement, MovementBecomes
  <2> QED BY <1>1, <1>3, <2>2 DEF Abstract!Refuse, Moves
<1>5. ASSUME NEW op, NEW u, NEW v, NEW p, NEW i, NEW pc \in {"lookup", "ready", "refund"},
             Start(h, op, u, v, p, i, pc), op # "view",
             op \in {"charge", "deduct"} => funds[u] + v >= 0
      PROVE  Abstract!Ask(h)
  <2>0. /\ task'[h].pc = pc /\ task'[h].op = op
        /\ task'[h].user = u /\ task'[h].value = v
    BY <1>5, StartMovement
  <2>1. /\ MovementOf(h)'.phase = "asked"
        /\ MovementOf(h)'.user = u /\ MovementOf(h)'.value = v
    BY <1>5, <2>0 DEF MovementOf, Phase
  <2>2. MovementOf(h)'.covered => op \in {"charge", "deduct"}
    BY <2>0, Zenon DEF MovementOf
  <2>3. Abstract!Becomes(h, "asked")
    BY <1>5, <2>1, StartMovement, MovementBecomes
  <2>4. Moves'[h] = MovementOf(h)'
    BY <1>5, StartMovement, OthersKeepTheirMovement
  <2> QED BY <1>1, <1>3, <1>5, <2>1, <2>3, <2>4, <2>2 DEF Abstract!Ask, Moves
<1>6. ASSUME NEW op \in {"charge", "deduct"}, NEW u \in Users, NEW v \in Amounts, Debit(h, op, u, v)
      PROVE  Abstract!Ask(h) \/ Abstract!Refuse(h)
  <2> v \in Nat /\ funds[u] \in Int
    BY LedgerAssumption DEF TypeOK
  <2>1. CASE funds[u] >= v
    <3>1. Start(h, op, u, -v, NoPayment, 0, "ready") /\ funds[u] + (-v) >= 0
      BY <1>6, <2>1 DEF Debit
    <3> QED BY <1>5, <3>1
  <2>2. CASE ~(funds[u] >= v)
    <3>1. Start(h, op, u, -v, NoPayment, 0, "rejected")
      BY <1>6, <2>2 DEF Debit
    <3> QED BY <1>4, <3>1
  <2> QED BY <2>1, <2>2
<1>7. ASSUME NEW u \in Users, NEW v \in Amounts, AddCredits(h, u, v) PROVE Abstract!Ask(h)
  BY <1>5, <1>7 DEF AddCredits
<1>8. ASSUME NEW p \in Payments, ReadPayment(h, p) PROVE Abstract!Ask(h) \/ Abstract!Refuse(h)
  BY <1>4, <1>5, <1>8 DEF ReadPayment
<1>9. ASSUME NEW i \in DOMAIN rows, ReadRow(h, i) PROVE Abstract!Ask(h) \/ Abstract!Refuse(h)
  BY <1>4, <1>5, <1>9 DEF ReadRow
<1>10. ASSUME NEW u \in Users, ViewBalance(h, u) PROVE Abstract!Refuse(h)
  BY <1>4, <1>10 DEF ViewBalance
<1> QED BY <1>6, <1>7, <1>8, <1>9, <1>10 DEF FirstStep, Charge, Deduct

\* Committing and refunding apply the movement; every other step is a stutter or a
\* refusal.
LEMMA LaterStepImplements ==
    ASSUME AccountInv, AccountInv', NEW h \in Handlers, LaterStep(h)
    PROVE  Abstract!Apply(h) \/ Abstract!Refuse(h) \/ UNCHANGED <<funds, Moves>>
<1> USE DEF AccountInv
<1>0. /\ task[h].pc \in ChargebackSteps => task[h].op = "chargeback"
      /\ task[h].pc = "opening" => task[h].op = "view"
      /\ task[h].op = "view" => task[h].pc \in {"opening", "done"}
  BY DEF ChargebacksNameARow, ChargebackNamesARow, ViewsOnlyOpen
<1>1. Moves[h] = MovementOf(h)
  BY DEF Moves
<1>2. ASSUME NEW pc, Goto(h, pc), AddFunds(h), task[h].pc \in {"inTx", "refund"},
             pc \in {"done", "halfCommitted", "removeRow"}
      PROVE  Abstract!Apply(h)
  <2>1. task[h].op # "view"
    BY <1>0, <1>2
  <2>2. MovementOf(h).phase = "asked"
    BY <1>2, <2>1 DEF MovementOf, Phase
  <2>3. MovementOf(h)' = [MovementOf(h) EXCEPT !.phase = "applied"]
    BY <1>2, <2>1, GotoMovement DEF MovementOf, Phase
  <2>4. Moves' = [Moves EXCEPT ![h] = MovementOf(h)']
    BY <1>2, GotoMovement, OthersKeepTheirMovement
  <2>5. Moves' = [Moves EXCEPT ![h].phase = "applied"]
    BY <1>1, <2>3, <2>4
  <2>6. funds' = [funds EXCEPT ![Moves[h].user] = @ + Moves[h].value]
    BY <1>1, <1>2 DEF AddFunds, MovementOf
  <2> QED BY <1>1, <2>2, <2>5, <2>6 DEF Abstract!Apply, Moves
<1>3. ASSUME NEW pc \in {"rejected", "aborted", "unmoved"}, Goto(h, pc), UNCHANGED funds,
             task[h].pc \in {"lookup", "ready", "inTx"}
      PROVE  Abstract!Refuse(h)
  <2>1. task[h].op # "view"
    BY <1>0, <1>3
  <2>2. MovementOf(h).phase = "asked" /\ MovementOf(h)'.phase = "refused"
    BY <1>3, <2>1, GotoMovement DEF MovementOf, Phase
  <2>3. Abstract!Becomes(h, "refused")
    BY <1>3, <2>2, GotoMovement, MovementBecomes
  <2> QED BY <1>1, <1>3, <2>2, <2>3 DEF Abstract!Refuse, Moves
<1>4. CASE LookupCredit(h)
  <2>1. UNCHANGED funds /\ task[h].pc = "lookup"
    BY <1>4 DEF LookupCredit
  <2>2. CASE Goto(h, "rejected")
    BY <1>3, <2>1, <2>2
  <2>3. CASE Goto(h, "ready")
    <3>1. MovementOf(h)' = MovementOf(h)
      BY <1>0, <2>1, <2>3, GotoMovement DEF MovementOf, Phase
    <3> QED BY <2>1, <2>3, <3>1, GotoMovement, SameMovement
  <2> QED BY <1>4, <2>2, <2>3 DEF LookupCredit
<1>5. CASE InsertOpening(h)
  <2>1. MovementOf(h)' = MovementOf(h)
    BY <1>0, <1>5, GotoMovement DEF InsertOpening, MovementOf, Phase
  <2> QED BY <1>5, <2>1, GotoMovement, SameMovement DEF InsertOpening
<1>6. CASE BeginTx(h)
  <2>1. MovementOf(h)' = MovementOf(h)
    BY <1>0, <1>6, BeginMovement DEF BeginTx, MovementOf, Phase
  <2> QED BY <1>6, <2>1, BeginMovement, SameMovement DEF BeginTx
<1>7. CASE Commit(h) \/ CommitWithoutRow(h)
  BY <1>2, <1>7 DEF Commit, CommitWithoutRow
<1>8. CASE Abort(h)
  <2>1. UNCHANGED funds /\ task[h].pc = "inTx"
    BY <1>8 DEF Abort
  <2>2. CASE Goto(h, "aborted")
    BY <1>3, <2>1, <2>2
  <2>3. CASE Goto(h, "ready")
    <3>1. MovementOf(h)' = MovementOf(h)
      BY <1>0, <2>1, <2>3, GotoMovement DEF MovementOf, Phase
    <3> QED BY <2>1, <2>3, <3>1, GotoMovement, SameMovement
  <2> QED BY <1>8, <2>2, <2>3 DEF Abort
<1>9. CASE Refund(h)
  BY <1>2, <1>9 DEF Refund
<1>12. CASE CommitWithoutFunds(h)
  BY <1>3, <1>12 DEF CommitWithoutFunds
<1>10. CASE RemoveRow(h)
  <2>1. MovementOf(h)' = MovementOf(h)
    BY <1>0, <1>10, RemoveRowMovement DEF RemoveRow, ChargebackSteps, MovementOf, Phase
  <2> QED BY <1>10, <2>1, RemoveRowMovement, SameMovement DEF RemoveRow
<1>11. CASE RemoveItem(h)
  <2>1. MovementOf(h)' = MovementOf(h)
    BY <1>0, <1>11, GotoMovement DEF RemoveItem, ChargebackSteps, MovementOf, Phase
  <2> QED BY <1>11, <2>1, GotoMovement, SameMovement DEF RemoveItem
<1> QED BY <1>4, <1>5, <1>6, <1>7, <1>8, <1>9, <1>10, <1>11, <1>12
    DEF LaterStep

\* A step of the ledger is a step of the account or a stutter.
LEMMA StepImplements ==
    ASSUME AccountInv, AccountInv', [Next]_vars
    PROVE  [Abstract!Next]_(Abstract!vars)
<1>1. CASE UNCHANGED vars
  <2>1. Moves' = Moves
    BY <1>1 DEF vars, Moves, MovementOf, Phase
  <2> QED BY <1>1, <2>1 DEF vars, Abstract!vars, Moves
<1>2. ASSUME NEW h \in Handlers, FirstStep(h) PROVE Abstract!Next
  BY <1>2, FirstStepImplements DEF Abstract!Next
<1>3. ASSUME NEW h \in Handlers, LaterStep(h) PROVE Abstract!Next \/ UNCHANGED <<funds, Moves>>
  BY <1>3, LaterStepImplements DEF Abstract!Next
<1> QED BY <1>1, <1>2, <1>3 DEF Next, LedgerNext, Abstract!vars, Moves

\* The ledger begins as an account at which nothing was asked.
LEMMA InitImplements ==
    ASSUME Init
    PROVE  AccountInv /\ Abstract!Init
<1>1. TypeOK /\ ChargebacksNameARow
  BY LedgerAssumption DEF Init, TypeOK, Task, ProgramCounter, ChargebacksNameARow,
     ChargebackNamesARow, ChargebackSteps
<1>2. ViewsOnlyOpen
  BY DEF Init, ViewsOnlyOpen
<1>3. \A h \in Handlers : MovementOf(h) \in Abstract!Movement /\ MovementOf(h).phase = "new"
  BY <1>1, MovementType DEF Init, MovementOf, Phase
<1> QED BY <1>1, <1>2, <1>3 DEF Init, AccountInv, Abstract!Init

(***************************************************************************)
(* The ledger implements Account for every set of users, handlers and      *)
(* amounts: funds move only by a movement that was asked for, whole and at *)
(* most once, and a debit that saw too little never moves them.  The       *)
(* invariant says which use case is at which program counter, so that a    *)
(* step that applies a movement finds it asked and no other does.          *)
(***************************************************************************)
THEOREM AccountTheorem == Spec => ImplementsAccount
<1>1. Init => AccountInv /\ Abstract!Init
  BY InitImplements
<1>2. AccountInv /\ [Next]_vars => AccountInv'
  BY StepKeepsType, StepKeepsChargebacks, StepKeepsViews DEF AccountInv
<1>3. AccountInv /\ AccountInv' /\ [Next]_vars => [Abstract!Next]_(Abstract!vars)
  BY StepImplements
<1> QED BY <1>1, <1>2, <1>3, PTL DEF Spec, ImplementsAccount, Abstract!Spec

-----------------------------------------------------------------------------
(* The funds are explained.                                                *)

\* The chargeback of a row moves its movement back.
ChargebacksUndoTheirRow ==
    \A h \in Handlers :
       /\ task[h].op = "chargeback" /\ task[h].pc # "rejected" =>
             task[h].value = rows[task[h].row].last - rows[task[h].row].current
       /\ task[h].op = "none" => task[h].pc = "idle"

ExplainedInv ==
    TypeOK /\ ChargebacksNameARow /\ ChargebacksUndoTheirRow /\ FundsAreExplained

\* A row keeps its amounts.
LEMMA RowsKeepAmounts ==
    ASSUME TypeOK, ChargebacksNameARow, [Next]_vars
    PROVE  \A i \in DOMAIN rows :
              /\ i \in DOMAIN rows'
              /\ rows'[i].last = rows[i].last /\ rows'[i].current = rows[i].current
<1>1. CASE UNCHANGED rows
  BY <1>1
<1>2. ASSUME NEW u \in Users, rows' = Append(rows, OpeningRow(u))
      PROVE  \A i \in DOMAIN rows : i \in DOMAIN rows' /\ rows'[i] = rows[i]
  BY <1>2, AppendedRow, OpeningRowType
<1>3. ASSUME NEW h \in Handlers, Commit(h)
      PROVE  \A i \in DOMAIN rows : i \in DOMAIN rows' /\ rows'[i] = rows[i]
  BY <1>3, AppendedRow, NewRowType DEF Commit
<1>4. ASSUME NEW h \in Handlers, RemoveRow(h), NEW i \in DOMAIN rows
      PROVE  /\ i \in DOMAIN rows'
             /\ rows'[i].last = rows[i].last /\ rows'[i].current = rows[i].current
  <2>1. /\ task[h].row \in DOMAIN rows /\ DOMAIN rows' = DOMAIN rows
        /\ rows'[task[h].row] = [rows[task[h].row] EXCEPT !.live = FALSE]
        /\ i # task[h].row => rows'[i] = rows[i]
    BY <1>4, RemovedRow
  <2>2. rows[task[h].row] \in Row
    BY <2>1, RowType
  <2> QED BY <2>1, <2>2 DEF Row
<1> QED BY <1>1, <1>2, <1>3, <1>4, RowsStep

\* What no step changes of a handler that has begun.
LEMMA HandlersKeepTheirValue ==
    ASSUME TypeOK, [Next]_vars, NEW h \in Handlers, task[h].pc # "idle"
    PROVE  /\ task'[h].op = task[h].op /\ task'[h].user = task[h].user
           /\ task'[h].value = task[h].value /\ task'[h].row = task[h].row
<1>1. CASE UNCHANGED vars
  BY <1>1 DEF vars
<1>2. ASSUME NEW g \in Handlers, FirstStep(g) PROVE task'[h] = task[h]
  BY <1>2 DEF FirstStep, Charge, Deduct, Debit, AddCredits, ReadPayment, ReadRow, ViewBalance,
     Idle, Start, TypeOK
<1>3. ASSUME NEW g \in Handlers, LaterStep(g)
      PROVE  /\ task'[h].op = task[h].op /\ task'[h].user = task[h].user
             /\ task'[h].value = task[h].value /\ task'[h].row = task[h].row
  <2>1. ASSUME NEW pc, Goto(g, pc)
        PROVE  /\ task'[h].op = task[h].op /\ task'[h].user = task[h].user
               /\ task'[h].value = task[h].value /\ task'[h].row = task[h].row
    BY <2>1 DEF TypeOK, Goto, Task
  <2>2. CASE BeginTx(g)
    BY <2>2, BeginMovement
  <2>3. CASE RemoveRow(g)
    BY <2>3, RemoveRowMovement, RemoveRowTask
  <2> QED BY <1>3, <2>1, <2>2, <2>3 DEF LaterStep, LookupCredit, InsertOpening, Commit,
             CommitWithoutFunds, CommitWithoutRow, Abort, Refund, RemoveItem
<1> QED BY <1>1, <1>2, <1>3 DEF Next, LedgerNext

\* A chargeback and its row keep the amounts it began with.
LEMMA StepKeepsUndo ==
    ASSUME TypeOK, ChargebacksNameARow, ChargebacksNameARow', ChargebacksUndoTheirRow,
           [Next]_vars
    PROVE  ChargebacksUndoTheirRow'
<1> SUFFICES ASSUME NEW h \in Handlers
             PROVE  /\ task'[h].op = "chargeback" /\ task'[h].pc # "rejected" =>
                          task'[h].value = rows'[task'[h].row].last - rows'[task'[h].row].current
                    /\ task'[h].op = "none" => task'[h].pc = "idle"
  BY DEF ChargebacksUndoTheirRow
<1>1. CASE task'[h] = task[h]
  BY <1>1, RowsKeepAmounts DEF ChargebacksUndoTheirRow, ChargebacksNameARow, ChargebackNamesARow
<1>2. CASE task[h].pc # "idle" /\ task'[h] # task[h]
  <2>1. /\ task'[h].op = task[h].op
        /\ task'[h].value = task[h].value /\ task'[h].row = task[h].row
    BY <1>2, HandlersKeepTheirValue
  <2>2. task[h].op # "none"
    BY <1>2 DEF ChargebacksUndoTheirRow
  <2>3. ASSUME task[h].op = "chargeback"
        PROVE  task[h].pc # "rejected"
    <3> SUFFICES ASSUME task[h].pc = "rejected" PROVE FALSE
      OBVIOUS
    <3>1. ASSUME NEW g \in Handlers, FirstStep(g) PROVE task'[h] = task[h]
      BY <1>2, <3>1 DEF FirstStep, Charge, Deduct, Debit, AddCredits, ReadPayment, ReadRow,
         ViewBalance, Idle, Start, TypeOK
    <3>2. ASSUME NEW g \in Handlers, LaterStep(g) PROVE task'[h] = task[h]
      BY <3>2, BeginMovement, RemoveRowMovement DEF LaterStep, LookupCredit, InsertOpening,
         CommitWithoutFunds, Commit, CommitWithoutRow, Abort, Refund, RemoveItem, BeginTx,
         RemoveRow, Goto, TypeOK
    <3> QED BY <1>2, <3>1, <3>2 DEF Next, LedgerNext, vars
  <2> QED BY <2>1, <2>2, <2>3, RowsKeepAmounts
          DEF ChargebacksUndoTheirRow, ChargebacksNameARow, ChargebackNamesARow
<1>3. CASE task[h].pc = "idle" /\ task'[h] # task[h]
  <2>1. FirstStep(h)
    <3>1. ASSUME NEW g \in Handlers, FirstStep(g) PROVE g = h
      BY <1>3, <3>1 DEF FirstStep, Charge, Deduct, Debit, AddCredits, ReadPayment, ReadRow,
         ViewBalance, Start, TypeOK
    <3>2. ASSUME NEW g \in Handlers, LaterStep(g) PROVE FALSE
      BY <1>3, <3>2 DEF LaterStep, LookupCredit, InsertOpening, BeginTx, Commit,
         CommitWithoutFunds, CommitWithoutRow, Abort, Refund, RemoveRow, RemoveItem, Goto, TypeOK
    <3> QED BY <1>3, <3>1, <3>2 DEF Next, LedgerNext, vars
  <2>2. UNCHANGED rows
    BY <2>1 DEF FirstStep, Charge, Deduct, Debit, AddCredits, ReadPayment, ReadRow, ViewBalance
  <2>3. ASSUME NEW op, op # "chargeback", op # "none", NEW u, NEW v, NEW p, NEW pc,
               Start(h, op, u, v, p, 0, pc)
        PROVE  task'[h].op # "chargeback" /\ task'[h].op # "none"
    BY <2>3, StartMovement
  <2>4. ASSUME NEW i \in DOMAIN rows, ReadRow(h, i)
        PROVE  /\ task'[h].op = "chargeback"
               /\ task'[h].value = rows[task'[h].row].last - rows[task'[h].row].current
    BY <2>4, StartTask, StartMovement DEF ReadRow
  <2> QED BY <2>1, <2>2, <2>3, <2>4 DEF FirstStep, Charge, Deduct, Debit, AddCredits,
             ReadPayment, ViewBalance
<1> QED BY <1>1, <1>2, <1>3

\* The rows and the handlers are finitely many, and their movements amounts.
LEMMA SummandTypes ==
    ASSUME TypeOK, NEW u
    PROVE  /\ IsFiniteSet(DOMAIN rows) /\ IsFiniteSet(Handlers)
           /\ DOMAIN RowMovements(u) = DOMAIN rows
           /\ \A i \in DOMAIN rows : RowMovements(u)[i] \in Int
           /\ DOMAIN UnexplainedMovements(u) = Handlers
           /\ \A h \in Handlers : UnexplainedMovements(u)[h] \in Int
           /\ DOMAIN Taken(u) = Handlers
           /\ \A h \in Handlers : Taken(u)[h] \in Int
<1>1. rows \in Seq(Row) /\ DOMAIN rows = 1..Len(rows) /\ Len(rows) \in Nat
  BY DEF TypeOK
<1>2. IsFiniteSet(DOMAIN rows)
  BY <1>1, FS_Interval
<1>3. \A i \in DOMAIN rows : RowMovements(u)[i] \in Int
  BY RowType DEF RowMovements
<1>4. \A h \in Handlers : UnexplainedMovements(u)[h] \in Int /\ Taken(u)[h] \in Int
  BY DEF UnexplainedMovements, Unexplained, Taken, TypeOK, Task
<1> QED BY <1>2, <1>3, <1>4, LedgerAssumption DEF RowMovements, UnexplainedMovements, Taken

\* A row appended adds its movement to its user's rows.
LEMMA AppendedMovement ==
    ASSUME TypeOK, TypeOK', NEW r \in Row, r.live, rows' = Append(rows, r), NEW u \in Users
    PROVE  SumFunction(RowMovements(u))' =
              SumFunction(RowMovements(u)) + (IF r.user = u THEN r.current - r.last ELSE 0)
<1> DEFINE n == Len(rows) + 1
           f == RowMovements(u)
           g == RowMovements(u)'
<1>1. /\ n \notin DOMAIN rows /\ DOMAIN rows' = DOMAIN rows \cup {n}
      /\ rows'[n] = r
      /\ \A i \in DOMAIN rows : rows'[i] = rows[i]
  BY AppendedRow
<1>2. /\ IsFiniteSet(DOMAIN rows)
      /\ DOMAIN f = DOMAIN rows /\ DOMAIN g = DOMAIN rows \cup {n}
      /\ \A i \in DOMAIN rows : f[i] \in Int
  BY <1>1, SummandTypes DEF RowMovements
<1>3. \A i \in DOMAIN rows : f[i] = g[i]
  BY <1>1 DEF RowMovements, RowsOf
<1>4. g[n] = IF r.user = u THEN r.current - r.last ELSE 0
  BY <1>1 DEF RowMovements, RowsOf
<1>6. \A i \in DOMAIN rows \cup {n} : g[i] \in Int
  BY <1>2, <1>3, <1>4 DEF Row
<1>5. SumFunctionOnSet(g, DOMAIN rows \cup {n}) = SumFunctionOnSet(f, DOMAIN rows) + g[n]
  <2> HIDE DEF f, g, n
  <2> QED BY <1>1, <1>2, <1>3, <1>6, SumAppend
<1> QED BY <1>2, <1>4, <1>5 DEF SumFunction

\* A row removed takes its movement out of its user's rows, if it was live.
LEMMA RemovedMovement ==
    ASSUME TypeOK, TypeOK', ChargebacksNameARow, NEW h \in Handlers, RemoveRow(h), NEW u \in Users
    PROVE  LET r == rows[task[h].row] IN
           SumFunction(RowMovements(u))' =
              SumFunction(RowMovements(u))
                 - (IF r.live /\ r.user = u THEN r.current - r.last ELSE 0)
<1> DEFINE i == task[h].row
           f == RowMovements(u)
           g == RowMovements(u)'
<1>1. /\ i \in DOMAIN rows /\ DOMAIN rows' = DOMAIN rows
      /\ ~rows'[i].live
      /\ \A j \in DOMAIN rows : j # i => rows'[j] = rows[j]
  BY RemovedRow
<1>2. /\ IsFiniteSet(DOMAIN rows)
      /\ DOMAIN f = DOMAIN rows /\ DOMAIN g = DOMAIN rows
      /\ \A j \in DOMAIN rows : f[j] \in Int
  BY <1>1, SummandTypes DEF RowMovements
<1>3. \A j \in DOMAIN rows \ {i} : f[j] = g[j]
  BY <1>1 DEF RowMovements, RowsOf
<1>4. /\ g[i] = 0
      /\ f[i] = IF rows[i].live /\ rows[i].user = u THEN rows[i].current - rows[i].last ELSE 0
  BY <1>1 DEF RowMovements, RowsOf
<1>7. \A j \in DOMAIN rows : g[j] \in Int
  BY <1>2, <1>3, <1>4
<1>5. SumFunctionOnSet(g, DOMAIN rows) = SumFunctionOnSet(f, DOMAIN rows) + g[i] - f[i]
  <2> HIDE DEF f, g, i
  <2> QED BY <1>1, <1>2, <1>3, <1>7, SumChange
<1>6. SumFunctionOnSet(f, DOMAIN rows) \in Int /\ f[i] \in Int
  <2> HIDE DEF f, g, i
  <2> QED BY <1>1, <1>2, SumType
<1> QED BY <1>2, <1>4, <1>5, <1>6 DEF SumFunction

\* Rows that stay keep the sum of their movements.
LEMMA SameMovements ==
    ASSUME UNCHANGED rows, NEW u
    PROVE  SumFunction(RowMovements(u))' = SumFunction(RowMovements(u))
BY DEF RowMovements, RowsOf

\* A step of one handler changes the sum of the unexplained by what it changes there.
LEMMA ChangedUnexplained ==
    ASSUME TypeOK, TypeOK', NEW h \in Handlers, \A g \in Handlers : g # h => task'[g] = task[g],
           NEW u \in Users
    PROVE  SumFunction(UnexplainedMovements(u))' =
              SumFunction(UnexplainedMovements(u))
                 + UnexplainedMovements(u)'[h] - UnexplainedMovements(u)[h]
<1> DEFINE f == UnexplainedMovements(u)
           g == UnexplainedMovements(u)'
<1>1. /\ IsFiniteSet(Handlers) /\ DOMAIN f = Handlers /\ DOMAIN g = Handlers
      /\ \A x \in Handlers : f[x] \in Int
  BY SummandTypes DEF UnexplainedMovements
<1>2. \A x \in Handlers \ {h} : f[x] = g[x]
  BY DEF UnexplainedMovements, Unexplained
<1>4. \A x \in Handlers : g[x] \in Int
  <2>1. g[h] \in Int
    BY DEF UnexplainedMovements, Unexplained, TypeOK, Task
  <2> QED BY <1>1, <1>2, <2>1
<1>3. SumFunctionOnSet(g, Handlers) = SumFunctionOnSet(f, Handlers) + g[h] - f[h]
  <2> HIDE DEF f, g
  <2> QED BY <1>1, <1>2, <1>4, SumChange
<1> QED BY <1>1, <1>3 DEF SumFunction

\* The sums are amounts.
LEMMA SumTypes ==
    ASSUME TypeOK, NEW u
    PROVE  SumFunction(RowMovements(u)) \in Int /\ SumFunction(UnexplainedMovements(u)) \in Int
<1>1. /\ IsFiniteSet(DOMAIN rows) /\ IsFiniteSet(Handlers)
      /\ DOMAIN RowMovements(u) = DOMAIN rows
      /\ \A i \in DOMAIN rows : RowMovements(u)[i] \in Int
      /\ DOMAIN UnexplainedMovements(u) = Handlers
      /\ \A h \in Handlers : UnexplainedMovements(u)[h] \in Int
  BY SummandTypes
<1> QED BY <1>1, SumType DEF SumFunction

\* A step that moves neither funds nor rows and explains its handler as before.
LEMMA QuietStepExplained ==
    ASSUME TypeOK, TypeOK', FundsAreExplained, NEW h \in Handlers,
           \A g \in Handlers : g # h => task'[g] = task[g],
           UNCHANGED <<funds, rows>>,
           task'[h].user = task[h].user \/ Unexplained(h) = 0,
           Unexplained(h)' = Unexplained(h)
    PROVE  FundsAreExplained'
<1> SUFFICES ASSUME NEW u \in Users
             PROVE  funds'[u] = SumFunction(RowMovements(u))'
                               + SumFunction(UnexplainedMovements(u))'
  BY DEF FundsAreExplained
<1>1. UnexplainedMovements(u)'[h] = UnexplainedMovements(u)[h] /\ UnexplainedMovements(u)[h] \in Int
  BY SummandTypes DEF UnexplainedMovements
<1>2. SumFunction(UnexplainedMovements(u))' = SumFunction(UnexplainedMovements(u))
  BY <1>1, ChangedUnexplained, SumTypes
<1> QED BY <1>2, SameMovements DEF FundsAreExplained

\* A step that moves the funds by the value of its handler, and adds it either to the
\* rows or to the unexplained.
LEMMA MovingStepExplained ==
    ASSUME TypeOK, TypeOK', FundsAreExplained, NEW h \in Handlers, AddFunds(h),
           \A g \in Handlers : g # h => task'[g] = task[g],
           task'[h].user = task[h].user, Unexplained(h) = 0,
           \/ UNCHANGED rows /\ Unexplained(h)' = task[h].value
           \/ rows' = Append(rows, NewRow(h)) /\ Unexplained(h)' = 0
    PROVE  FundsAreExplained'
<1> SUFFICES ASSUME NEW u \in Users
             PROVE  funds'[u] = SumFunction(RowMovements(u))'
                               + SumFunction(UnexplainedMovements(u))'
  BY DEF FundsAreExplained
<1> DEFINE d == IF task[h].user = u THEN task[h].value ELSE 0
<1>1. task[h].value \in Int /\ task[h].last \in Int /\ d \in Int /\ funds[u] \in Int
  BY DEF TypeOK, Task
<1>2. funds'[u] = funds[u] + d
  BY <1>1 DEF AddFunds, TypeOK
<1>3. funds[u] = SumFunction(RowMovements(u)) + SumFunction(UnexplainedMovements(u))
  BY DEF FundsAreExplained
<1>4. SumFunction(RowMovements(u)) \in Int /\ SumFunction(UnexplainedMovements(u)) \in Int
  BY SumTypes
<1>5. UnexplainedMovements(u)[h] = 0
  BY DEF UnexplainedMovements
<1>6. CASE UNCHANGED rows /\ Unexplained(h)' = task[h].value
  <2>1. UnexplainedMovements(u)'[h] = d
    BY <1>6 DEF UnexplainedMovements
  <2>2. SumFunction(UnexplainedMovements(u))' = SumFunction(UnexplainedMovements(u)) + d
    BY <1>1, <1>4, <1>5, <2>1, ChangedUnexplained
  <2>3. SumFunction(RowMovements(u))' = SumFunction(RowMovements(u))
    BY <1>6, SameMovements
  <2> QED BY <1>1, <1>2, <1>3, <1>4, <2>2, <2>3
<1>7. CASE rows' = Append(rows, NewRow(h)) /\ Unexplained(h)' = 0
  <2>1. UnexplainedMovements(u)'[h] = 0
    BY <1>7 DEF UnexplainedMovements
  <2>2. SumFunction(UnexplainedMovements(u))' = SumFunction(UnexplainedMovements(u))
    BY <1>4, <1>5, <2>1, ChangedUnexplained
  <2>3. /\ NewRow(h) \in Row /\ NewRow(h).live
        /\ (IF NewRow(h).user = u THEN NewRow(h).current - NewRow(h).last ELSE 0) = d
    BY <1>1, NewRowType DEF NewRow
  <2>4. SumFunction(RowMovements(u))' = SumFunction(RowMovements(u)) + d
    BY <1>7, <2>3, AppendedMovement
  <2> QED BY <1>1, <1>2, <1>3, <1>4, <2>2, <2>4
<1> QED BY <1>6, <1>7

\* An opening row moves nothing.
LEMMA OpeningExplained ==
    ASSUME TypeOK, TypeOK', FundsAreExplained, NEW h \in Handlers,
           \A g \in Handlers : g # h => task'[g] = task[g],
           UNCHANGED funds, rows' = Append(rows, OpeningRow(task[h].user)),
           task'[h].user = task[h].user, Unexplained(h)' = Unexplained(h)
    PROVE  FundsAreExplained'
<1> SUFFICES ASSUME NEW u \in Users
             PROVE  funds'[u] = SumFunction(RowMovements(u))'
                               + SumFunction(UnexplainedMovements(u))'
  BY DEF FundsAreExplained
<1>1. UnexplainedMovements(u)'[h] = UnexplainedMovements(u)[h] /\ UnexplainedMovements(u)[h] \in Int
  BY SummandTypes DEF UnexplainedMovements
<1>2. SumFunction(UnexplainedMovements(u))' = SumFunction(UnexplainedMovements(u))
  BY <1>1, ChangedUnexplained, SumTypes
<1> DEFINE r == OpeningRow(task[h].user)
<1>3. r \in Row /\ r.live /\ r.current - r.last = 0
  <2>1. task[h].user \in Users
    BY DEF TypeOK, Task
  <2> QED BY <2>1, OpeningRowType DEF OpeningRow
<1>4. SumFunction(RowMovements(u))' =
         SumFunction(RowMovements(u)) + (IF r.user = u THEN r.current - r.last ELSE 0)
  <2> HIDE DEF r
  <2>1. rows' = Append(rows, r)
    BY DEF r
  <2> QED BY <1>3, <2>1, AppendedMovement
<1>5. SumFunction(RowMovements(u))' = SumFunction(RowMovements(u))
  <2> HIDE DEF r
  <2> QED BY <1>3, <1>4, SumTypes
<1> QED BY <1>2, <1>5 DEF FundsAreExplained

\* A row that is removed explains the refund from now on; one already removed does not.
LEMMA RemovalExplained ==
    ASSUME TypeOK, TypeOK', ChargebacksNameARow, ChargebacksUndoTheirRow, FundsAreExplained,
           NEW h \in Handlers, RemoveRow(h)
    PROVE  FundsAreExplained'
<1> SUFFICES ASSUME NEW u \in Users
             PROVE  funds'[u] = SumFunction(RowMovements(u))'
                               + SumFunction(UnexplainedMovements(u))'
  BY DEF FundsAreExplained
<1> DEFINE r == rows[task[h].row]
           d == IF r.live /\ task[h].user = u THEN task[h].value ELSE 0
<1>1. /\ task[h].pc = "removeRow" /\ task[h].op = "chargeback"
      /\ task[h].row \in DOMAIN rows /\ r.user = task[h].user
      /\ task[h].value = r.last - r.current
  BY DEF RemoveRow, ChargebacksNameARow, ChargebackNamesARow, ChargebackSteps,
         ChargebacksUndoTheirRow
<1>2. r.live \in BOOLEAN /\ r.last \in Int /\ r.current \in Int /\ d \in Int /\ task[h].value \in Int
  <2>1. r.live \in BOOLEAN /\ r.last \in Int /\ r.current \in Int
    BY <1>1, RowType
  <2>2. task[h].value \in Int
    BY DEF TypeOK, Task
  <2> QED BY <2>1, <2>2
<1>3. /\ \A g \in Handlers : g # h => task'[g] = task[g]
      /\ task'[h].pc = "removeItem" /\ task'[h].op = task[h].op
      /\ task'[h].user = task[h].user /\ task'[h].value = task[h].value
      /\ task'[h].removed = r.live
  <2>1. task'[h].removed = r.live
    BY DEF RemoveRow, TypeOK, Task
  <2> QED BY <2>1, RemoveRowMovement
<1>4. SumFunction(RowMovements(u))' = SumFunction(RowMovements(u)) + d
  <2>1. SumFunction(RowMovements(u))' =
           SumFunction(RowMovements(u)) - (IF r.live /\ r.user = u THEN r.current - r.last ELSE 0)
    BY RemovedMovement
  <2>2. SumFunction(RowMovements(u)) \in Int
    BY SumTypes
  <2> HIDE DEF r
  <2> QED BY <1>1, <1>2, <2>1, <2>2
<1>5. UnexplainedMovements(u)[h] = IF task[h].user = u THEN task[h].value ELSE 0
  BY <1>1 DEF UnexplainedMovements, Unexplained
<1>6. UnexplainedMovements(u)'[h] = IF task[h].user = u /\ ~r.live THEN task[h].value ELSE 0
  BY <1>1, <1>3 DEF UnexplainedMovements, Unexplained
<1>7. SumFunction(UnexplainedMovements(u))' = SumFunction(UnexplainedMovements(u)) - d
  <2>1. SumFunction(UnexplainedMovements(u))' =
           SumFunction(UnexplainedMovements(u))
              + UnexplainedMovements(u)'[h] - UnexplainedMovements(u)[h]
    BY <1>3, ChangedUnexplained
  <2>2. SumFunction(UnexplainedMovements(u)) \in Int
    BY SumTypes
  <2> HIDE DEF r
  <2> QED BY <1>2, <1>5, <1>6, <2>1, <2>2
<1>8. UNCHANGED funds
  BY DEF RemoveRow
<1> HIDE DEF d
<1> QED BY <1>2, <1>4, <1>7, <1>8, SumTypes DEF FundsAreExplained

\* Every step keeps the funds explained.
LEMMA StepKeepsExplained ==
    ASSUME TypeOK, TypeOK', ChargebacksNameARow, ChargebacksUndoTheirRow, FundsAreExplained,
           [Next]_vars
    PROVE  FundsAreExplained'
<1>1. CASE UNCHANGED vars
  BY <1>1 DEF vars, FundsAreExplained, RowMovements, RowsOf, UnexplainedMovements, Unexplained
<1>2. ASSUME NEW h \in Handlers, FirstStep(h) PROVE FundsAreExplained'
  <2>1. UNCHANGED <<funds, rows>> /\ task[h].pc = "idle"
    BY <1>2 DEF FirstStep, Charge, Deduct, Debit, AddCredits, ReadPayment, ReadRow, ViewBalance,
       Idle
  <2>2. Unexplained(h) = 0
    BY <2>1 DEF Unexplained
  <2>3. ASSUME NEW op, NEW u, NEW v, NEW p, NEW i, Start(h, op, u, v, p, i, "done"), op = "view"
        PROVE  FundsAreExplained'
    <3>1. /\ \A g \in Handlers : g # h => task'[g] = task[g]
          /\ task'[h].pc = "done" /\ task'[h].op = op
      BY <2>3, StartTask
    <3>2. Unexplained(h)' = 0
      BY <2>3, <3>1 DEF Unexplained
    <3> QED BY <2>1, <2>2, <3>1, <3>2, QuietStepExplained
  <2>4. ASSUME NEW op, NEW u, NEW v, NEW p, NEW i,
               NEW pc \in {"lookup", "ready", "rejected", "refund", "opening"},
               Start(h, op, u, v, p, i, pc)
        PROVE  FundsAreExplained'
    <3>1. (\A g \in Handlers : g # h => task'[g] = task[g]) /\ task'[h].pc = pc
      BY <2>4, StartTask
    <3>2. Unexplained(h)' = 0
      BY <3>1 DEF Unexplained
    <3> QED BY <2>1, <2>2, <3>1, <3>2, QuietStepExplained
  <2>5. ASSUME NEW op, NEW u \in Users, NEW v \in Amounts, Debit(h, op, u, v)
        PROVE  FundsAreExplained'
    BY <2>4, <2>5 DEF Debit
  <2>6. ASSUME NEW u, NEW v, AddCredits(h, u, v) PROVE FundsAreExplained'
    BY <2>4, <2>6 DEF AddCredits
  <2>7. ASSUME NEW p, ReadPayment(h, p) PROVE FundsAreExplained'
    BY <2>4, <2>7 DEF ReadPayment
  <2>8. ASSUME NEW i \in DOMAIN rows, ReadRow(h, i) PROVE FundsAreExplained'
    BY <2>4, <2>8 DEF ReadRow
  <2>9. ASSUME NEW u, ViewBalance(h, u) PROVE FundsAreExplained'
    BY <2>3, <2>4, <2>9 DEF ViewBalance
  <2> QED BY <1>2, <2>5, <2>6, <2>7, <2>8, <2>9 DEF FirstStep, Charge, Deduct
<1>3. ASSUME NEW h \in Handlers, LaterStep(h) PROVE FundsAreExplained'
  <2>0. /\ task[h].pc \in ChargebackSteps => task[h].op = "chargeback"
        /\ task[h].op = "chargeback" => task[h].pc \in ChargebackSteps \cup {"done", "rejected"}
    BY DEF ChargebacksNameARow, ChargebackNamesARow
  <2>1. ASSUME NEW pc \in {"ready", "rejected", "aborted", "unmoved"}, Goto(h, pc),
               task[h].pc \in {"lookup", "ready", "inTx"}, UNCHANGED <<funds, rows>>
        PROVE  FundsAreExplained'
    <3>1. Unexplained(h) = 0 /\ Unexplained(h)' = 0
      BY <2>1, GotoMovement DEF Unexplained
    <3> QED BY <2>1, <3>1, GotoMovement, QuietStepExplained
  <2>2. CASE LookupCredit(h) \/ CommitWithoutFunds(h) \/ Abort(h)
    BY <2>1, <2>2 DEF LookupCredit, CommitWithoutFunds, Abort
  <2>3. CASE InsertOpening(h)
    <3>1. task[h].pc = "opening" /\ Goto(h, "done") /\ task[h].op # "chargeback"
      BY <2>0, <2>3 DEF InsertOpening, ChargebackSteps
    <3>2. Unexplained(h) = 0 /\ Unexplained(h)' = 0
      BY <3>1, GotoMovement DEF Unexplained
    <3> QED BY <2>3, <3>1, <3>2, GotoMovement, OpeningExplained DEF InsertOpening
  <2>4. CASE BeginTx(h)
    <3>1. task[h].pc = "ready" /\ task'[h].pc = "inTx" /\ task'[h].user = task[h].user
      BY <2>4, BeginMovement DEF BeginTx
    <3>2. Unexplained(h) = 0 /\ Unexplained(h)' = 0
      BY <3>1 DEF Unexplained
    <3>3. \A g \in Handlers : g # h => task'[g] = task[g]
      BY <2>4, BeginMovement
    <3>4. UNCHANGED funds /\ (UNCHANGED rows \/ rows' = Append(rows, OpeningRow(task[h].user)))
      BY <2>4 DEF BeginTx
    <3> QED BY <3>1, <3>2, <3>3, <3>4, QuietStepExplained, OpeningExplained
  <2>5. CASE Commit(h)
    <3>1. task[h].pc = "inTx" /\ Goto(h, "done") /\ AddFunds(h) /\ task[h].op # "chargeback"
      BY <2>0, <2>5 DEF Commit, ChargebackSteps
    <3>2. Unexplained(h) = 0 /\ Unexplained(h)' = 0
      BY <3>1, GotoMovement DEF Unexplained
    <3> QED BY <2>5, <3>1, <3>2, GotoMovement, MovingStepExplained DEF Commit
  <2>6. CASE CommitWithoutRow(h)
    <3>1. task[h].pc = "inTx" /\ Goto(h, "halfCommitted") /\ AddFunds(h) /\ UNCHANGED rows
      BY <2>6 DEF CommitWithoutRow
    <3>2. task[h].op # "chargeback"
      BY <2>0, <3>1 DEF ChargebackSteps
    <3>3. Unexplained(h) = 0 /\ Unexplained(h)' = task[h].value
      BY <3>1, GotoMovement DEF Unexplained
    <3> QED BY <3>1, <3>3, GotoMovement, MovingStepExplained
  <2>7. CASE Refund(h)
    <3>1. task[h].pc = "refund" /\ Goto(h, "removeRow") /\ AddFunds(h) /\ UNCHANGED rows
      BY <2>7 DEF Refund
    <3>2. Unexplained(h) = 0 /\ Unexplained(h)' = task[h].value
      BY <3>1, GotoMovement DEF Unexplained
    <3> QED BY <3>1, <3>2, GotoMovement, MovingStepExplained
  <2>8. CASE RemoveRow(h)
    BY <2>8, RemovalExplained
  <2>9. CASE RemoveItem(h)
    <3>1. /\ task[h].pc = "removeItem" /\ Goto(h, "done") /\ UNCHANGED <<funds, rows>>
          /\ task[h].op = "chargeback"
      BY <2>0, <2>9 DEF RemoveItem, ChargebackSteps
    <3>2. task'[h].removed = task[h].removed
      BY <3>1 DEF Goto, TypeOK, Task
    <3>3. Unexplained(h)' = Unexplained(h)
      BY <3>1, <3>2, GotoMovement DEF Unexplained
    <3> QED BY <3>1, <3>3, GotoMovement, QuietStepExplained
  <2> QED BY <1>3, <2>2, <2>3, <2>4, <2>5, <2>6, <2>7, <2>8, <2>9 DEF LaterStep
<1> QED BY <1>1, <1>2, <1>3 DEF Next, LedgerNext

(***************************************************************************)
(* Every cent of a user's funds is explained by the live rows, the refunds *)
(* waiting for their row and the transactions committed without one, for   *)
(* any accounts, amounts and handlers.  The invariant adds that a          *)
(* chargeback moves its row's movement back, so that deleting the row and  *)
(* explaining the refund cancel out.                                       *)
(***************************************************************************)
THEOREM FundsTheorem == Spec => []FundsAreExplained
<1>1. Init => ExplainedInv
  <2> SUFFICES ASSUME Init PROVE ExplainedInv
    OBVIOUS
  <2>1. TypeOK /\ ChargebacksNameARow
    BY InitImplements DEF AccountInv
  <2>2. ChargebacksUndoTheirRow
    BY DEF Init, ChargebacksUndoTheirRow
  <2>3. ASSUME NEW u \in Users
        PROVE  funds[u] = SumFunction(RowMovements(u)) + SumFunction(UnexplainedMovements(u))
    <3>1. DOMAIN RowMovements(u) = {}
      BY DEF Init, RowMovements
    <3>2. SumFunction(RowMovements(u)) = 0
      BY <3>1, SumEmpty, Zenon DEF SumFunction
    <3>3. /\ DOMAIN UnexplainedMovements(u) = Handlers
          /\ \A h \in Handlers : UnexplainedMovements(u)[h] = 0
      BY DEF Init, UnexplainedMovements, Unexplained
    <3>4. SumFunction(UnexplainedMovements(u)) = 0
      BY <3>3, SumZero, LedgerAssumption DEF SumFunction
    <3> QED BY <3>2, <3>4 DEF Init
  <2> QED BY <2>1, <2>2, <2>3 DEF ExplainedInv, FundsAreExplained
<1>2. ExplainedInv /\ [Next]_vars => ExplainedInv'
  BY StepKeepsType, StepKeepsChargebacks, StepKeepsUndo, StepKeepsExplained DEF ExplainedInv
<1>3. ExplainedInv => FundsAreExplained
  BY DEF ExplainedInv
<1> QED BY <1>1, <1>2, <1>3, PTL DEF Spec

-----------------------------------------------------------------------------
(* The overdraft.                                                          *)

\* Which movements take and which give, and which use case is at which step.
MovementsHaveTheirSign ==
    \A h \in Handlers :
       /\ task[h].op \in {"charge", "deduct"} => task[h].value <= 0
       /\ task[h].op \in {"add", "creditPayment"} => task[h].value >= 0
       /\ task[h].pc = "lookup" => task[h].op = "creditPayment"
       /\ task[h].pc \in {"ready", "inTx"} =>
             task[h].op \in {"charge", "deduct", "add", "creditPayment"}

\* All that was ever given to u: what it has, and what was taken from it.
Given(u) == funds[u] + SumFunction(Taken(u))

\* The debits of u that passed the check of the funds and were not given up.
Passed(u) == {h \in Handlers : /\ task[h].user = u
                               /\ task[h].op \in {"charge", "deduct"}
                               /\ task[h].pc \in {"ready", "inTx", "done", "halfCommitted"}}

\* A debit that passed the check is covered by what was ever given.
PassedAreGiven ==
    \A u \in Users : /\ Given(u) >= 0
                     /\ \A h \in Passed(u) : Given(u) >= -task[h].value

OverdraftInv == AccountInv /\ MovementsHaveTheirSign /\ PassedAreGiven

\* What handler h took from u.
LEMMA TakenBy ==
    ASSUME NEW h \in Handlers, NEW u
    PROVE  Taken(u)[h] =
              IF /\ task[h].user = u
                 /\ \/ /\ task[h].op \in {"charge", "deduct"}
                       /\ task[h].pc \in {"done", "halfCommitted"}
                    \/ /\ task[h].op = "chargeback" /\ task[h].value < 0
                       /\ task[h].pc \in {"removeRow", "removeItem", "done"}
              THEN -task[h].value ELSE 0
BY DEF Taken, Debited, TakenBack

\* Nothing taken gives.
LEMMA TakenIsPositive ==
    ASSUME TypeOK, MovementsHaveTheirSign, NEW u
    PROVE  SumFunction(Taken(u)) \in Nat
<1>1. /\ IsFiniteSet(Handlers) /\ DOMAIN Taken(u) = Handlers
      /\ \A h \in Handlers : Taken(u)[h] \in Int
  BY SummandTypes
<1>2. ASSUME NEW h \in Handlers PROVE Taken(u)[h] \in Nat
  <2>1. task[h].value \in Int
    BY DEF TypeOK, Task
  <2> QED BY <2>1, TakenBy DEF MovementsHaveTheirSign
<1>3. SumFunctionOnSet(Taken(u), Handlers) \in Nat
  <2> DEFINE f == Taken(u)
  <2> HIDE DEF f
  <2>1. \A h \in Handlers : f[h] \in Nat
    BY <1>2 DEF f
  <2>2. SumFunctionOnSet(f, Handlers) \in Nat
    BY <1>1, <2>1, SumOfNaturals
  <2> QED BY <2>2 DEF f
<1> QED BY <1>1, <1>3 DEF SumFunction

\* A step of one handler changes what was taken by what it changes there.
LEMMA ChangedTaken ==
    ASSUME TypeOK, TypeOK', NEW h \in Handlers, \A g \in Handlers : g # h => task'[g] = task[g],
           NEW u \in Users
    PROVE  /\ Given(u) \in Int
           /\ Given(u)' = Given(u) + (funds'[u] + Taken(u)'[h]) - (funds[u] + Taken(u)[h])
<1> DEFINE f == Taken(u)
           g == Taken(u)'
<1>1. /\ IsFiniteSet(Handlers) /\ DOMAIN f = Handlers /\ DOMAIN g = Handlers
      /\ \A x \in Handlers : f[x] \in Int
  BY SummandTypes DEF Taken
<1>2. \A x \in Handlers \ {h} : f[x] = g[x]
  BY DEF Taken, Debited, TakenBack
<1>3. \A x \in Handlers : g[x] \in Int
  <2>1. g[h] \in Int
    BY DEF Taken, TypeOK, Task
  <2> QED BY <1>1, <1>2, <2>1
<1>4. /\ SumFunctionOnSet(g, Handlers) = SumFunctionOnSet(f, Handlers) + g[h] - f[h]
      /\ SumFunctionOnSet(f, Handlers) \in Int
      /\ f[h] \in Int /\ g[h] \in Int
  <2> HIDE DEF f, g
  <2> QED BY <1>1, <1>2, <1>3, SumChange, SumType
<1>5. funds[u] \in Int /\ funds'[u] \in Int
  BY DEF TypeOK
<1>6. /\ Given(u) = funds[u] + SumFunctionOnSet(f, Handlers)
      /\ Given(u)' = funds'[u] + SumFunctionOnSet(g, Handlers)
  BY <1>1 DEF Given, SumFunction
<1> HIDE DEF f, g
<1>7. /\ Given(u) \in Int
      /\ Given(u)' = Given(u) + (funds'[u] + g[h]) - (funds[u] + f[h])
  BY <1>4, <1>5, <1>6
<1> QED BY <1>7 DEF f, g

\* A step keeps the checks if it gives its handler's user no less than it takes, and
\* lets no debit pass that is not covered.
LEMMA GivingStep ==
    ASSUME TypeOK, TypeOK', PassedAreGiven, NEW h \in Handlers,
           \A g \in Handlers : g # h => task'[g] = task[g],
           \A u \in Users : funds'[u] + Taken(u)'[h] >= funds[u] + Taken(u)[h],
           \A u \in Users : h \in Passed(u)' =>
              \/ h \in Passed(u) /\ task'[h].value = task[h].value
              \/ Given(u) >= -task'[h].value
    PROVE  PassedAreGiven'
<1> SUFFICES ASSUME NEW u \in Users
             PROVE  /\ Given(u)' >= 0
                    /\ \A g \in Passed(u)' : Given(u)' >= -task'[g].value
  BY DEF PassedAreGiven
<1>1. /\ funds[u] \in Int /\ funds'[u] \in Int
      /\ Taken(u)[h] \in Int /\ Taken(u)'[h] \in Int
  BY SummandTypes DEF TypeOK, Taken, Task
<1>2. Given(u) \in Int /\ Given(u)' \in Int /\ Given(u)' >= Given(u)
  BY <1>1, ChangedTaken
<1>3. ASSUME NEW g \in Passed(u)' PROVE Given(u)' >= -task'[g].value
  <2>1. g \in Handlers /\ task'[g].value \in Int
    BY DEF Passed, TypeOK, Task
  <2>2. CASE g = h
    <3>1. Given(u) >= -task'[h].value
      BY <1>3, <2>2 DEF PassedAreGiven
    <3> QED BY <1>2, <2>1, <2>2, <3>1
  <2>3. CASE g # h
    <3>1. task'[g] = task[g] /\ g \in Passed(u)
      BY <1>3, <2>1, <2>3 DEF Passed
    <3> QED BY <1>2, <2>1, <3>1 DEF PassedAreGiven
  <2> QED BY <2>2, <2>3
<1>4. Given(u)' >= 0
  BY <1>2 DEF PassedAreGiven
<1> QED BY <1>3, <1>4

\* A step that changes no funds, and leaves what its handler took and whether it passed.
LEMMA IdleStepGives ==
    ASSUME TypeOK, TypeOK', PassedAreGiven, NEW h \in Handlers, UNCHANGED funds,
           \A g \in Handlers : g # h => task'[g] = task[g],
           task'[h].op = task[h].op, task'[h].user = task[h].user, task'[h].value = task[h].value,
           \A u \in Users : Taken(u)'[h] = Taken(u)[h],
           task'[h].pc \in {"ready", "inTx", "done", "halfCommitted"} =>
              \/ task[h].pc \in {"ready", "inTx", "done", "halfCommitted"}
              \/ task[h].op \notin {"charge", "deduct"}
    PROVE  PassedAreGiven'
<1>1. \A u \in Users : h \in Passed(u)' => h \in Passed(u)
  BY DEF Passed
<1>2. \A u \in Users : funds[u] \in Int /\ Taken(u)[h] \in Int
  BY SummandTypes DEF TypeOK
<1>3. \A u \in Users : funds'[u] + Taken(u)'[h] >= funds[u] + Taken(u)[h]
  BY <1>2
<1> QED BY <1>1, <1>3, GivingStep

\* A step that moves the funds takes what it says, or gives.
LEMMA MovingStepGives ==
    ASSUME TypeOK, TypeOK', MovementsHaveTheirSign, PassedAreGiven, NEW h \in Handlers,
           AddFunds(h), \A g \in Handlers : g # h => task'[g] = task[g],
           task'[h].op = task[h].op, task'[h].user = task[h].user, task'[h].value = task[h].value,
           \/ /\ task[h].op \in {"charge", "deduct", "add", "creditPayment"}
              /\ task[h].pc = "inTx" /\ task'[h].pc \in {"done", "halfCommitted"}
           \/ /\ task[h].op = "chargeback" /\ task[h].pc = "refund" /\ task'[h].pc = "removeRow"
    PROVE  PassedAreGiven'
<1>0. task[h].value \in Int /\ funds \in [Users -> Int]
  BY DEF TypeOK, Task
<1>1. ASSUME NEW u \in Users
      PROVE  funds'[u] + Taken(u)'[h] >= funds[u] + Taken(u)[h]
  <2>1. Taken(u)[h] = 0 /\ funds[u] \in Int
    BY <1>0, TakenBy
  <2>2. CASE task[h].user # u
    <3>1. Taken(u)'[h] = 0
      BY <2>2 DEF Taken, Debited, TakenBack
    <3>2. funds'[u] = funds[u]
      BY <1>0, <2>2 DEF AddFunds
    <3> QED BY <2>1, <3>1, <3>2
  <2>3. CASE task[h].user = u
    <3>1. funds'[u] = funds[u] + task[h].value
      BY <1>0, <2>3 DEF AddFunds
    <3>2. CASE task[h].value < 0
      <4>1. task[h].op \in {"charge", "deduct", "chargeback"}
        BY <1>0, <3>2 DEF MovementsHaveTheirSign
      <4>2. h \in Debited(u)' \cup TakenBack(u)'
        BY <2>3, <3>2, <4>1 DEF Debited, TakenBack
      <4>3. Taken(u)'[h] = -task[h].value
        BY <4>2 DEF Taken
      <4> QED BY <1>0, <2>1, <3>1, <4>3
    <3>3. CASE task[h].value >= 0
      <4>1. Taken(u)'[h] = 0
        <5>1. task[h].op \in {"charge", "deduct"} => task[h].value = 0
          BY <1>0, <3>3 DEF MovementsHaveTheirSign
        <5>2. h \notin TakenBack(u)'
          BY <1>0, <3>3 DEF TakenBack
        <5>3. h \in Debited(u)' => task'[h].value = 0
          BY <5>1 DEF Debited
        <5> QED BY <5>2, <5>3 DEF Taken
      <4> QED BY <1>0, <2>1, <3>1, <3>3, <4>1
    <3> QED BY <1>0, <3>2, <3>3
  <2> QED BY <2>2, <2>3
<1>2. \A u \in Users : h \in Passed(u)' => h \in Passed(u)
  BY DEF Passed
<1> QED BY <1>1, <1>2, GivingStep

\* Movements keep their sign.
LEMMA StepKeepsSigns ==
    ASSUME AccountInv, MovementsHaveTheirSign, [Next]_vars
    PROVE  MovementsHaveTheirSign'
<1> USE DEF AccountInv
<1>1. CASE UNCHANGED vars
  BY <1>1 DEF vars, MovementsHaveTheirSign
<1>2. ASSUME NEW h \in Handlers, FirstStep(h) PROVE MovementsHaveTheirSign'
  <2>1. ASSUME NEW op, NEW u, NEW v, NEW p, NEW i, NEW pc, Start(h, op, u, v, p, i, pc),
               op \in {"charge", "deduct"} => v <= 0,
               op \in {"add", "creditPayment"} => v >= 0,
               pc = "lookup" => op = "creditPayment",
               pc \in {"ready", "inTx"} => op \in {"charge", "deduct", "add", "creditPayment"}
        PROVE  MovementsHaveTheirSign'
    BY <2>1, StartMovement DEF MovementsHaveTheirSign
  <2>2. ASSUME NEW op \in {"charge", "deduct"}, NEW u \in Users, NEW v \in Amounts,
               Debit(h, op, u, v)
        PROVE  MovementsHaveTheirSign'
    <3>1. v \in Nat /\ -v <= 0
      BY LedgerAssumption
    <3>2. PICK pc \in {"ready", "rejected"} : Start(h, op, u, -v, NoPayment, 0, pc)
      BY <2>2 DEF Debit
    <3> QED BY <2>1, <3>1, <3>2
  <2>3. ASSUME NEW u \in Users, NEW v \in Amounts, AddCredits(h, u, v)
        PROVE  MovementsHaveTheirSign'
    <3>1. v >= 0
      BY LedgerAssumption
    <3> QED BY <2>1, <2>3, <3>1 DEF AddCredits
  <2>4. ASSUME NEW p \in Payments, ReadPayment(h, p) PROVE MovementsHaveTheirSign'
    <3>1. PaymentValue[p] >= 0
      BY LedgerAssumption
    <3> QED BY <2>1, <2>4, <3>1 DEF ReadPayment
  <2>5. ASSUME NEW i \in DOMAIN rows, ReadRow(h, i) PROVE MovementsHaveTheirSign'
    BY <2>1, <2>5 DEF ReadRow
  <2>6. ASSUME NEW u \in Users, ViewBalance(h, u) PROVE MovementsHaveTheirSign'
    BY <2>1, <2>6 DEF ViewBalance
  <2> QED BY <1>2, <2>2, <2>3, <2>4, <2>5, <2>6 DEF FirstStep, Charge, Deduct
<1>3. ASSUME NEW h \in Handlers, LaterStep(h) PROVE MovementsHaveTheirSign'
  <2>1. ASSUME NEW pc, pc # "lookup", Goto(h, pc),
               pc \in {"ready", "inTx"} => task[h].pc \in {"lookup", "inTx"}
        PROVE  MovementsHaveTheirSign'
    BY <2>1, GotoMovement DEF MovementsHaveTheirSign
  <2>2. CASE BeginTx(h)
    BY <2>2, BeginMovement DEF BeginTx, MovementsHaveTheirSign
  <2>3. CASE RemoveRow(h)
    BY <2>3, RemoveRowMovement DEF MovementsHaveTheirSign
  <2>4. CASE \/ LookupCredit(h) \/ InsertOpening(h) \/ CommitWithoutFunds(h)
             \/ Commit(h) \/ CommitWithoutRow(h) \/ Abort(h)
    BY <2>1, <2>4 DEF LookupCredit, InsertOpening, CommitWithoutFunds, Commit, CommitWithoutRow,
       Abort
  <2>5. CASE Refund(h) \/ RemoveItem(h)
    BY <2>1, <2>5 DEF Refund, RemoveItem
  <2> QED BY <1>3, <2>2, <2>3, <2>4, <2>5 DEF LaterStep
<1> QED BY <1>1, <1>2, <1>3 DEF Next, LedgerNext

\* A first step takes nothing, and a debit passes only if the funds cover it.
LEMMA FirstStepKeepsPassed ==
    ASSUME AccountInv, TypeOK', MovementsHaveTheirSign, PassedAreGiven,
           NEW h \in Handlers, FirstStep(h)
    PROVE  PassedAreGiven'
<1> USE DEF AccountInv
<1>1. UNCHANGED funds /\ task[h].pc = "idle"
  BY DEF FirstStep, Charge, Deduct, Debit, AddCredits, ReadPayment, ReadRow, ViewBalance, Idle
<1>2. ASSUME NEW u \in Users PROVE funds[u] \in Int /\ Taken(u)[h] = 0
  BY <1>1, TakenBy DEF TypeOK
<1>3. ASSUME NEW op, NEW v, NEW w, NEW p, NEW i, NEW pc, Start(h, op, w, v, p, i, pc),
             pc \in {"lookup", "ready", "rejected", "refund", "opening"} \/ op = "view",
             op \in {"charge", "deduct"} /\ pc = "ready" => w \in Users /\ v \in Int /\ funds[w] >= -v
      PROVE  PassedAreGiven'
  <2>1. /\ \A g \in Handlers : g # h => task'[g] = task[g]
        /\ task'[h].pc = pc /\ task'[h].op = op /\ task'[h].user = w /\ task'[h].value = v
    BY <1>3, StartMovement
  <2>2. ASSUME NEW u \in Users PROVE Taken(u)'[h] = 0
    BY <1>3, <2>1 DEF Taken, Debited, TakenBack
  <2>3. \A u \in Users : funds'[u] + Taken(u)'[h] >= funds[u] + Taken(u)[h]
    BY <1>1, <1>2, <2>2
  <2>4. ASSUME NEW u \in Users, h \in Passed(u)'
        PROVE  Given(u) >= -task'[h].value
    <3>1. u = w /\ op \in {"charge", "deduct"} /\ pc = "ready"
      BY <1>3, <2>1, <2>4 DEF Passed
    <3>2. funds[u] >= -v /\ v \in Int
      BY <1>3, <3>1
    <3>3. SumFunction(Taken(u)) \in Nat
      BY TakenIsPositive
    <3> QED BY <1>2, <2>1, <3>2, <3>3 DEF Given
  <2> QED BY <2>1, <2>3, <2>4, GivingStep
<1>4. ASSUME NEW op \in {"charge", "deduct"}, NEW u \in Users, NEW v \in Amounts, Debit(h, op, u, v)
      PROVE  PassedAreGiven'
  <2> v \in Nat /\ -v \in Int /\ -(-v) = v
    BY LedgerAssumption
  <2>1. CASE funds[u] >= v
    <3>1. Start(h, op, u, -v, NoPayment, 0, "ready") /\ funds[u] >= -(-v)
      BY <1>4, <2>1 DEF Debit
    <3> QED BY <1>3, <3>1
  <2>2. CASE ~(funds[u] >= v)
    <3>1. Start(h, op, u, -v, NoPayment, 0, "rejected")
      BY <1>4, <2>2 DEF Debit
    <3> QED BY <1>3, <3>1
  <2> QED BY <2>1, <2>2
<1>5. ASSUME NEW u, NEW v, AddCredits(h, u, v) PROVE PassedAreGiven'
  BY <1>3, <1>5 DEF AddCredits
<1>6. ASSUME NEW p, ReadPayment(h, p) PROVE PassedAreGiven'
  BY <1>3, <1>6 DEF ReadPayment
<1>7. ASSUME NEW i, ReadRow(h, i) PROVE PassedAreGiven'
  BY <1>3, <1>7 DEF ReadRow
<1>8. ASSUME NEW u, ViewBalance(h, u) PROVE PassedAreGiven'
  BY <1>3, <1>8 DEF ViewBalance
<1> QED BY <1>4, <1>5, <1>6, <1>7, <1>8 DEF FirstStep, Charge, Deduct

\* Every step keeps the debits that passed covered by what was given.
LEMMA StepKeepsPassed ==
    ASSUME AccountInv, TypeOK', MovementsHaveTheirSign, PassedAreGiven, [Next]_vars
    PROVE  PassedAreGiven'
<1> USE DEF AccountInv
<1>1. CASE UNCHANGED vars
  BY <1>1 DEF vars, PassedAreGiven, Given, Passed, Taken, Debited, TakenBack
<1>2. ASSUME NEW h \in Handlers, LaterStep(h) PROVE PassedAreGiven'
  <2>0. /\ task[h].pc \in ChargebackSteps => task[h].op = "chargeback"
        /\ task[h].pc = "opening" => task[h].op = "view"
    BY DEF ChargebacksNameARow, ChargebackNamesARow, ViewsOnlyOpen
  <2>1. CASE LookupCredit(h)
    <3>1. task[h].pc = "lookup" /\ task[h].op = "creditPayment" /\ UNCHANGED funds
      BY <2>1 DEF LookupCredit, MovementsHaveTheirSign
    <3>2. PICK pc \in {"ready", "rejected"} : Goto(h, pc)
      BY <2>1 DEF LookupCredit
    <3>3. \A u \in Users : Taken(u)'[h] = Taken(u)[h]
      BY <3>1, <3>2, GotoMovement DEF Taken, Debited, TakenBack
    <3> QED BY <3>1, <3>2, <3>3, GotoMovement, IdleStepGives
  <2>2. CASE InsertOpening(h)
    <3>1. task[h].op = "view" /\ UNCHANGED funds /\ Goto(h, "done")
      BY <2>0, <2>2 DEF InsertOpening
    <3>2. \A u \in Users : Taken(u)'[h] = Taken(u)[h]
      BY <3>1, GotoMovement DEF Taken, Debited, TakenBack
    <3> QED BY <3>1, <3>2, GotoMovement, IdleStepGives
  <2>3. CASE BeginTx(h)
    <3>1. task[h].pc = "ready" /\ UNCHANGED funds
      BY <2>3 DEF BeginTx
    <3>2. \A u \in Users : Taken(u)'[h] = Taken(u)[h]
      BY <2>3, <3>1, BeginMovement DEF Taken, Debited, TakenBack
    <3> QED BY <2>3, <3>1, <3>2, BeginMovement, IdleStepGives
  <2>4. CASE Commit(h) \/ CommitWithoutRow(h)
    <3>1. PICK pc \in {"done", "halfCommitted"} : Goto(h, pc)
      BY <2>4 DEF Commit, CommitWithoutRow
    <3>2. /\ task[h].pc = "inTx" /\ AddFunds(h)
          /\ task[h].op \in {"charge", "deduct", "add", "creditPayment"}
      BY <2>4 DEF Commit, CommitWithoutRow, MovementsHaveTheirSign
    <3> QED BY <3>1, <3>2, GotoMovement, MovingStepGives
  <2>5. CASE Abort(h)
    <3>1. task[h].pc = "inTx" /\ UNCHANGED funds
      BY <2>5 DEF Abort
    <3>2. PICK pc \in {"aborted", "ready"} : Goto(h, pc)
      BY <2>5 DEF Abort
    <3>3. \A u \in Users : Taken(u)'[h] = Taken(u)[h]
      BY <3>1, <3>2, GotoMovement DEF Taken, Debited, TakenBack
    <3> QED BY <3>1, <3>2, <3>3, GotoMovement, IdleStepGives
  <2>9. CASE CommitWithoutFunds(h)
    <3>1. PICK pc \in {"unmoved", "aborted"} : Goto(h, pc)
      BY <2>9 DEF CommitWithoutFunds
    <3>2. task[h].pc = "ready" /\ UNCHANGED funds
      BY <2>9 DEF CommitWithoutFunds
    <3>3. \A u \in Users : Taken(u)'[h] = Taken(u)[h]
      BY <3>1, <3>2, GotoMovement DEF Taken, Debited, TakenBack
    <3> QED BY <3>1, <3>2, <3>3, GotoMovement, IdleStepGives
  <2>6. CASE Refund(h)
    <3>1. task[h].pc = "refund" /\ task[h].op = "chargeback" /\ AddFunds(h) /\ Goto(h, "removeRow")
      BY <2>0, <2>6 DEF Refund, ChargebackSteps
    <3> QED BY <3>1, GotoMovement, MovingStepGives
  <2>7. CASE RemoveRow(h)
    <3>1. task[h].pc = "removeRow" /\ task[h].op = "chargeback" /\ UNCHANGED funds
      BY <2>0, <2>7 DEF RemoveRow, ChargebackSteps
    <3>2. \A u \in Users : Taken(u)'[h] = Taken(u)[h]
      BY <2>7, <3>1, RemoveRowMovement DEF Taken, Debited, TakenBack
    <3> QED BY <2>7, <3>1, <3>2, RemoveRowMovement, IdleStepGives
  <2>8. CASE RemoveItem(h)
    <3>1. task[h].pc = "removeItem" /\ task[h].op = "chargeback" /\ UNCHANGED funds /\ Goto(h, "done")
      BY <2>0, <2>8 DEF RemoveItem, ChargebackSteps
    <3>2. \A u \in Users : Taken(u)'[h] = Taken(u)[h]
      BY <3>1, GotoMovement DEF Taken, Debited, TakenBack
    <3> QED BY <3>1, <3>2, GotoMovement, IdleStepGives
  <2> QED BY <1>2, <2>1, <2>2, <2>3, <2>4, <2>5, <2>6, <2>7, <2>8, <2>9 DEF LaterStep
<1> QED BY <1>1, <1>2, FirstStepKeepsPassed DEF Next, LedgerNext

(***************************************************************************)
(* Overlapping debits overdraw an account by no more than what was taken   *)
(* beside any one of them, for any accounts, amounts and handlers.  The    *)
(* invariant is about what an account was ever given, its funds and all    *)
(* that was taken from it: that never shrinks, and covers every debit that *)
(* passed the check, whether the debit was taken yet or not.               *)
(***************************************************************************)
THEOREM OverdraftTheorem == Spec => []OverdraftIsBounded
<1>1. Init => OverdraftInv
  <2> SUFFICES ASSUME Init PROVE OverdraftInv
    OBVIOUS
  <2>1. AccountInv
    BY InitImplements
  <2>2. MovementsHaveTheirSign
    BY DEF Init, MovementsHaveTheirSign
  <2>3. ASSUME NEW u \in Users
        PROVE  Given(u) >= 0 /\ Passed(u) = {}
    <3>1. SumFunction(Taken(u)) \in Nat
      BY <2>1, <2>2, TakenIsPositive DEF AccountInv
    <3>2. funds[u] = 0
      BY DEF Init
    <3>3. Passed(u) = {}
      BY DEF Init, Passed
    <3> QED BY <3>1, <3>2, <3>3 DEF Given
  <2> QED BY <2>1, <2>2, <2>3 DEF OverdraftInv, PassedAreGiven
<1>2. OverdraftInv /\ [Next]_vars => OverdraftInv'
  <2>1. AccountInv /\ [Next]_vars => AccountInv'
    BY StepKeepsType, StepKeepsChargebacks, StepKeepsViews DEF AccountInv
  <2>2. AccountInv' => TypeOK'
    BY DEF AccountInv
  <2> QED BY <2>1, <2>2, StepKeepsSigns, StepKeepsPassed DEF OverdraftInv
<1>3. OverdraftInv => OverdraftIsBounded
  <2> SUFFICES ASSUME OverdraftInv, NEW u \in Users
               PROVE  /\ funds[u] >= -SumFunction(Taken(u))
                      /\ \A h \in Debited(u) :
                            funds[u] >= -(SumFunction(Taken(u)) + task[h].value)
    BY DEF OverdraftIsBounded
  <2>1. funds[u] \in Int /\ SumFunction(Taken(u)) \in Int
    BY TakenIsPositive DEF OverdraftInv, AccountInv, TypeOK
  <2>2. funds[u] + SumFunction(Taken(u)) >= 0
    BY DEF OverdraftInv, PassedAreGiven, Given
  <2>3. ASSUME NEW h \in Debited(u)
        PROVE  funds[u] >= -(SumFunction(Taken(u)) + task[h].value)
    <3>1. h \in Passed(u) /\ task[h].value \in Int
      BY DEF OverdraftInv, AccountInv, TypeOK, Task, Debited, Passed
    <3>2. funds[u] + SumFunction(Taken(u)) >= -task[h].value
      BY <3>1 DEF OverdraftInv, PassedAreGiven, Given
    <3> QED BY <2>1, <3>1, <3>2
  <2> QED BY <2>1, <2>2, <2>3
<1> QED BY <1>1, <1>2, <1>3, PTL DEF Spec

=============================================================================
