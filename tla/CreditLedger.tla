---------------------------- MODULE CreditLedger ----------------------------
(***************************************************************************)
(* The prepaid-credit ledger of the billing component (data/support/       *)
(* billing).  A user's credits are kept twice: the billing document has    *)
(* the running total accountFunds, changed with $inc, and the balance      *)
(* collection has one row per movement, each row copying the previous      *)
(* row's current balance.  Charging for a query also inserts a consumption *)
(* statement.                                                              *)
(*                                                                         *)
(* A handler is one execution of a use case by the API process.  It is a   *)
(* chain of awaits, so every handler has a program counter and the         *)
(* handlers interleave between any two of its steps.  A handler that never *)
(* moves again is a crashed one: nothing resumes it.                       *)
(***************************************************************************)
EXTENDS Integers, Sequences, FiniteSets, FiniteSetsExt

CONSTANTS
    Users,         \* accounts, each with its billing document
    Handlers,      \* executions of the use cases, each used once
    Payments,      \* payment documents a PaymentSucceeded event may name
    PaymentOwner,  \* [Payments -> Users]: the user of the payment's billing
    PaymentValue,  \* [Payments -> Nat]: realPriceInCents
    Amounts,       \* query prices and credit amounts, in cents
    Operations,    \* the use cases the handlers of a run execute
    NoPayment,     \* a row or a handler that names no payment
    NoItem         \* a row without a consumption statement

OperationNames ==
    {"charge", "deduct", "add", "creditPayment", "chargeback", "view"}

ASSUME LedgerAssumption ==
    /\ Users # {}
    /\ IsFiniteSet(Handlers)
    /\ PaymentOwner \in [Payments -> Users]
    /\ PaymentValue \in [Payments -> Nat]
    /\ Amounts \subseteq Nat
    /\ NoPayment \notin Payments
    /\ NoItem \notin Handlers
    /\ Operations \subseteq OperationNames

VARIABLES
    funds,         \* billing.accountFunds of each user, in cents
    rows,          \* the balance rows in _id order; a deleted one is not live
    items,         \* live consumption statements, named by their handler
    paid,          \* the payments whose document has status PAID
    task           \* what each handler executes and how far it is

ledgerVars == <<funds, rows, items, task>>
vars == <<funds, rows, items, paid, task>>

Row == [user : Users, last : Int, current : Int, item : Handlers \cup {NoItem},
        payment : Payments \cup {NoPayment}, live : BOOLEAN]

ProgramCounter ==
    {"idle", "lookup", "ready", "inTx", "opening", "refund", "removeRow",
     "removeItem", "done", "rejected", "aborted", "halfCommitted", "unmoved"}

Task == [op : OperationNames \cup {"none"}, user : Users, value : Int,
         payment : Payments \cup {NoPayment}, row : Nat, last : Int,
         removed : BOOLEAN, pc : ProgramCounter]

TypeOK ==
    /\ funds \in [Users -> Int]
    /\ rows \in Seq(Row)
    /\ items \subseteq Handlers
    /\ paid \subseteq Payments
    /\ task \in [Handlers -> Task]

-----------------------------------------------------------------------------
(* What the repositories read.                                             *)

Live(i) == i \in DOMAIN rows /\ rows[i].live

RowsOf(u) == {i \in DOMAIN rows : rows[i].live /\ rows[i].user = u}

LatestRows(u) == {i \in RowsOf(u) : \A j \in RowsOf(u) : j <= i}

\* BalanceMongoRepository.getByPaymentId
CreditedRows(p) == {i \in DOMAIN rows : rows[i].live /\ rows[i].payment = p}

OpeningRow(u) == [user |-> u, last |-> 0, current |-> 0, item |-> NoItem,
                  payment |-> NoPayment, live |-> TRUE]

\* Mutant: the transactions of one account do not exclude each other.
NeverLocked(u) == FALSE

\* The billing document of u is write-locked by a transaction that updated it.
Locked(u) == \E h \in Handlers : task[h].pc = "inTx" /\ task[h].user = u

Idle(h, op) == task[h].pc = "idle" /\ op \in Operations

Start(h, op, u, v, p, i, pc) ==
    task' = [task EXCEPT ![h] = [op |-> op, user |-> u, value |-> v,
                                 payment |-> p, row |-> i, last |-> 0,
                                 removed |-> FALSE, pc |-> pc]]

Goto(h, pc) == task' = [task EXCEPT ![h].pc = pc]

-----------------------------------------------------------------------------
(* First steps: what a use case reads before it opens a transaction.       *)

\* Mutant: the funds are not compared with the price.
DebitUnchecked(h, op, u, v) ==
    /\ Idle(h, op)
    /\ Start(h, op, u, -v, NoPayment, 0, "ready")
    /\ UNCHANGED <<funds, rows, items, paid>>

\* chargeUserForQuery and deductUserCredits compare the funds they read with
\* the price; the transaction that debits them is opened later.
Debit(h, op, u, v) ==
    /\ Idle(h, op)
    /\ Start(h, op, u, -v, NoPayment, 0,
             IF funds[u] >= v THEN "ready" ELSE "rejected")
    /\ UNCHANGED <<funds, rows, items, paid>>

Charge(h, u, v) == Debit(h, "charge", u, v)

Deduct(h, u, v) == Debit(h, "deduct", u, v)

\* addUserCredits: an administrator's gift or a TransactionCreditsCreated event.
AddCredits(h, u, v) ==
    /\ Idle(h, "add")
    /\ Start(h, "add", u, v, NoPayment, 0, "ready")
    /\ UNCHANGED <<funds, rows, items, paid>>

\* addUserCreditsFromPayment reads the payment and refuses one not PAID ...
ReadPayment(h, p) ==
    /\ Idle(h, "creditPayment")
    /\ Start(h, "creditPayment", PaymentOwner[p], PaymentValue[p], p, 0,
             IF p \in paid THEN "lookup" ELSE "rejected")
    /\ UNCHANGED <<funds, rows, items, paid>>

\* Mutant: any row of the payment's owner counts as the payment's credits.
LookupAnyCredit(h) ==
    /\ task[h].pc = "lookup"
    /\ Goto(h, IF RowsOf(task[h].user) = {} THEN "ready" ELSE "rejected")
    /\ UNCHANGED <<funds, rows, items, paid>>

\* ... then looks for a row of that payment, still outside the transaction.
LookupCredit(h) ==
    /\ task[h].pc = "lookup"
    /\ Goto(h, IF CreditedRows(task[h].payment) = {} THEN "ready" ELSE "rejected")
    /\ UNCHANGED <<funds, rows, items, paid>>

\* chargebackUser reads the row; a deleted one is NoBalanceFoundDomainError.
ReadRow(h, i) ==
    /\ Idle(h, "chargeback")
    /\ Start(h, "chargeback", rows[i].user, rows[i].last - rows[i].current,
             NoPayment, i, IF rows[i].live THEN "refund" ELSE "rejected")
    /\ UNCHANGED <<funds, rows, items, paid>>

\* getUserCurrentBalance finds no row and is about to insert an opening one.
ViewBalance(h, u) ==
    /\ Idle(h, "view")
    /\ Start(h, "view", u, 0, NoPayment, 0,
             IF RowsOf(u) = {} THEN "opening" ELSE "done")
    /\ UNCHANGED <<funds, rows, items, paid>>

InsertOpening(h) ==
    /\ task[h].pc = "opening"
    /\ rows' = Append(rows, OpeningRow(task[h].user))
    /\ Goto(h, "done")
    /\ UNCHANGED <<funds, items, paid>>

-----------------------------------------------------------------------------
(* updateUserCredits inside withTransaction.  The $inc of accountFunds      *)
(* write-locks the billing document until the transaction ends; the last    *)
(* row is then read, and an opening row inserted, outside the session.      *)

BeginTx(h) ==
    LET u == task[h].user IN
    /\ task[h].pc = "ready"
    /\ ~Locked(u)
    /\ \/ /\ RowsOf(u) = {}
          /\ rows' = Append(rows, OpeningRow(u))
          /\ task' = [task EXCEPT ![h].pc = "inTx", ![h].last = 0]
       \/ \E i \in LatestRows(u) :
             /\ task' = [task EXCEPT ![h].pc = "inTx",
                                     ![h].last = rows[i].current]
             /\ UNCHANGED rows
    /\ UNCHANGED <<funds, items, paid>>

\* Mutant: a movement without a consumption statement records one all the same.
AddAnyItem(h) == items' = items \cup {IF task[h].op = "charge" THEN h ELSE NoItem}

AddItem(h) ==
    items' = IF task[h].op = "charge" THEN items \cup {h} ELSE items

\* The $inc itself returns a Left (the write is refused, or finds no document):
\* a charge has inserted its consumption statement by then, and withTransaction
\* commits that alone.  The other use cases have written nothing.
CommitWithoutFunds(h) ==
    /\ task[h].pc = "ready"
    /\ AddItem(h)
    /\ Goto(h, IF task[h].op = "charge" THEN "unmoved" ELSE "aborted")
    /\ UNCHANGED <<funds, rows, paid>>

ItemOf(h) == IF task[h].op = "charge" THEN h ELSE NoItem

NewRow(h) == [user |-> task[h].user, last |-> task[h].last,
              current |-> task[h].last + task[h].value, item |-> ItemOf(h),
              payment |-> task[h].payment, live |-> TRUE]

\* Mutant: the total is overwritten with the balance read, instead of $inc.
OverwriteFunds(h) ==
    funds' = [funds EXCEPT ![task[h].user] = task[h].last + task[h].value]

AddFunds(h) == funds' = [funds EXCEPT ![task[h].user] = @ + task[h].value]

Commit(h) ==
    /\ task[h].pc = "inTx"
    /\ AddFunds(h)
    /\ AddItem(h)
    /\ rows' = Append(rows, NewRow(h))
    /\ Goto(h, "done")
    /\ UNCHANGED paid

\* Mutant: a commit that is reported as failed is tried again.
CommitTwice(h) ==
    /\ task[h].pc = "inTx"
    /\ AddFunds(h)
    /\ AddItem(h)
    /\ Goto(h, "ready")
    /\ UNCHANGED <<rows, paid>>

\* Inserting the row fails: updateUserCredits returns a Left, which is a value
\* and not an exception, so withTransaction commits what was written before it.
CommitWithoutRow(h) ==
    /\ task[h].pc = "inTx"
    /\ AddFunds(h)
    /\ AddItem(h)
    /\ Goto(h, "halfCommitted")
    /\ UNCHANGED <<rows, paid>>

\* Mutant: the consumption statement is inserted outside the session.
AbortKeepingItem(h) ==
    /\ task[h].pc = "inTx"
    /\ AddItem(h)
    /\ Goto(h, "aborted")
    /\ UNCHANGED <<funds, rows, paid>>

\* The transaction throws or its process dies, and the session writes nothing;
\* after a transient error the driver's withTransaction tries it again.
Abort(h) ==
    /\ task[h].pc = "inTx"
    /\ \E pc \in {"aborted", "ready"} : Goto(h, pc)
    /\ UNCHANGED <<funds, rows, items, paid>>

-----------------------------------------------------------------------------
(* _executeChargebackOperation: three writes and no transaction.           *)

Refund(h) ==
    /\ task[h].pc = "refund"
    /\ ~Locked(task[h].user)
    /\ AddFunds(h)
    /\ Goto(h, "removeRow")
    /\ UNCHANGED <<rows, items, paid>>

\* Mutant: the consumption statement is removed in the place of the row.
RemoveItemFirst(h) ==
    /\ task[h].pc = "removeRow"
    /\ items' = items \ {rows[task[h].row].item}
    /\ Goto(h, "removeItem")
    /\ UNCHANGED <<funds, rows, paid>>

RemoveRow(h) ==
    /\ task[h].pc = "removeRow"
    /\ rows' = [rows EXCEPT ![task[h].row].live = FALSE]
    /\ task' = [task EXCEPT ![h].pc = "removeItem",
                            ![h].removed = rows[task[h].row].live]
    /\ UNCHANGED <<funds, items, paid>>

RemoveItem(h) ==
    /\ task[h].pc = "removeItem"
    /\ items' = items \ {rows[task[h].row].item}
    /\ Goto(h, "done")
    /\ UNCHANGED <<funds, rows, paid>>

-----------------------------------------------------------------------------

Init ==
    /\ funds = [u \in Users |-> 0]
    /\ rows = <<>>
    /\ items = {}
    /\ paid \in SUBSET Payments
    /\ task = [h \in Handlers |->
                  [op |-> "none", user |-> CHOOSE u \in Users : TRUE,
                   value |-> 0, payment |-> NoPayment, row |-> 0, last |-> 0,
                   removed |-> FALSE, pc |-> "idle"]]

FirstStep(h) ==
    \/ \E u \in Users, v \in Amounts :
          Charge(h, u, v) \/ Deduct(h, u, v) \/ AddCredits(h, u, v)
    \/ \E p \in Payments : ReadPayment(h, p)
    \/ \E i \in DOMAIN rows : ReadRow(h, i)
    \/ \E u \in Users : ViewBalance(h, u)

LaterStep(h) ==
    \/ LookupCredit(h) \/ InsertOpening(h)
    \/ BeginTx(h) \/ CommitWithoutFunds(h)
    \/ Commit(h) \/ CommitWithoutRow(h) \/ Abort(h)
    \/ Refund(h) \/ RemoveRow(h) \/ RemoveItem(h)

LedgerNext == \E h \in Handlers : FirstStep(h) \/ LaterStep(h)

Next == LedgerNext

Spec == Init /\ [][Next]_vars

-----------------------------------------------------------------------------
(* Properties.                                                             *)

\* The movements of u's live rows, under the index of each.
RowMovements(u) ==
    [i \in DOMAIN rows |-> IF i \in RowsOf(u) THEN rows[i].current - rows[i].last ELSE 0]

\* What handler h moved into the funds of its user without a row to show for it:
\* a refund whose own removal has not (or will never have) deleted the row, and
\* a transaction committed without its row.
Unexplained(h) ==
    LET t == task[h] IN
    IF \/ t.pc = "removeRow"
       \/ t.op = "chargeback" /\ t.pc \in {"removeItem", "done"} /\ ~t.removed
       \/ t.pc = "halfCommitted"
    THEN t.value ELSE 0

UnexplainedMovements(u) ==
    [h \in Handlers |-> IF task[h].user = u THEN Unexplained(h) ELSE 0]

(***************************************************************************)
(* Every cent of a user's accountFunds is the movement of a live balance   *)
(* row, a refund still waiting for its row to be deleted, or a transaction *)
(* committed without its row: no interleaving of charges, credits and      *)
(* chargebacks loses or invents an amount (billing.helper updateUserCredits*)
(* and chargeback-user).                                                   *)
(***************************************************************************)
FundsAreExplained ==
    \A u \in Users :
       funds[u] = SumFunction(RowMovements(u)) + SumFunction(UnexplainedMovements(u))

\* The debits that were taken from u, and what the chargeback of a credit took
\* back, which no check of the funds covers.
Debited(u) == {h \in Handlers : /\ task[h].user = u
                                /\ task[h].op \in {"charge", "deduct"}
                                /\ task[h].pc \in {"done", "halfCommitted"}}

TakenBack(u) == {h \in Handlers : /\ task[h].user = u
                                  /\ task[h].op = "chargeback"
                                  /\ task[h].value < 0
                                  /\ task[h].pc \in {"removeRow", "removeItem", "done"}}

Taken(u) == [h \in Handlers |->
                IF h \in Debited(u) \cup TakenBack(u) THEN -task[h].value ELSE 0]

(***************************************************************************)
(* The funds check of charge and deduct runs before the transaction, so    *)
(* overlapping debits may overdraw the account, but never by more than     *)
(* what was taken beside any one of the debits; an account without a debit *)
(* is overdrawn by no more than the chargebacks of its credits.            *)
(***************************************************************************)
OverdraftIsBounded ==
    \A u \in Users :
       /\ funds[u] >= -SumFunction(Taken(u))
       /\ \A h \in Debited(u) : funds[u] >= -(SumFunction(Taken(u)) + task[h].value)

(***************************************************************************)
(* A live debit row never names a consumption statement that is gone:      *)
(* chargeback deletes the row before the statement, and overlapping        *)
(* chargebacks of one row keep that order.                                 *)
(***************************************************************************)
DebitRowsKeepTheirItem ==
    \A i \in DOMAIN rows :
       rows[i].live /\ rows[i].item # NoItem => rows[i].item \in items

(***************************************************************************)
(* A consumption statement without a live row (the user sees a consumption *)
(* that the ledger does not carry) is a chargeback stopped between its two *)
(* removals, or a charge whose transaction committed after a write of it   *)
(* failed (the statement without the row, or even without the debit), and  *)
(* nothing else.                                                           *)
(***************************************************************************)
BareItemsAreUnfinished ==
    \A c \in items :
       \/ \E i \in DOMAIN rows : rows[i].live /\ rows[i].item = c
       \/ task[c].pc \in {"halfCommitted", "unmoved"}
       \/ \E h \in Handlers : /\ task[h].pc = "removeItem"
                              /\ rows[task[h].row].item = c

\* The account had a chargeback, a transaction without its row, or an opening
\* row inserted behind another row.
Disturbed(u) ==
    \/ \E h \in Handlers : /\ task[h].user = u
                           /\ \/ task[h].pc \in {"removeRow", "removeItem", "halfCommitted"}
                              \/ task[h].op = "chargeback" /\ task[h].pc = "done"
    \/ \E i, j \in DOMAIN rows : /\ i < j
                                 /\ rows[i].user = u
                                 /\ rows[j] = OpeningRow(u)

(***************************************************************************)
(* As long as none of that happened, the balance the user is shown (the    *)
(* latest row) is the amount the user can spend (accountFunds), whatever   *)
(* charges, deductions and credits overlap: the billing document's write   *)
(* lock orders the transactions although the row is read outside them.     *)
(***************************************************************************)
LatestRowShowsFunds ==
    \A u \in Users : ~Disturbed(u) =>
       /\ RowsOf(u) = {} => funds[u] = 0
       /\ \A i \in LatestRows(u) : rows[i].current = funds[u]

\* How far the movement of handler h is; a view moves nothing.
Phase(h) ==
    IF task[h].pc = "idle" THEN "new"
    ELSE IF task[h].op = "view" \/ task[h].pc \in {"rejected", "aborted", "unmoved"}
    THEN "refused"
    ELSE IF task[h].pc \in {"lookup", "ready", "inTx", "refund"} THEN "asked"
    ELSE "applied"

MovementOf(h) == [phase |-> Phase(h), user |-> task[h].user, value |-> task[h].value,
                  covered |-> task[h].op \in {"charge", "deduct"}]

Abstract == INSTANCE Account
    WITH Movements <- Handlers, movement <- [h \in Handlers |-> MovementOf(h)]

(***************************************************************************)
(* The ledger implements Account: whatever overlaps, is tried again or     *)
(* dies, a use case moves accountFunds whole, by the value it began with,  *)
(* and at most once; a debit that saw too little never does.               *)
(***************************************************************************)
ImplementsAccount == Abstract!Spec

\* Where a chargeback is between the row it found and its end.
Holds(h) == task[h].pc \in {"refund", "removeRow", "removeItem"}

GaveBack(h) == task[h].op = "chargeback" /\ task[h].pc \in {"removeRow", "removeItem", "done"}

\* A row that was made without a statement, or still has its own.
Recorded(i) == rows[i].item = NoItem \/ rows[i].item \in items

Contract == INSTANCE Chargeback
    WITH Returners <- Handlers,
         standing <- {i \in DOMAIN rows : rows[i].live},
         struck <- {i \in DOMAIN rows : ~rows[i].live},
         recorded <- {i \in DOMAIN rows : Recorded(i)},
         holding <- {<<h, task[h].row>> : h \in {g \in Handlers : Holds(g)}},
         returned <- {<<h, task[h].row>> : h \in {g \in Handlers : GaveBack(g)}}

(***************************************************************************)
(* Each balance row is a charge in the sense of Chargeback: whatever       *)
(* overlaps, chargebackUser gives a row back at most once in an execution  *)
(* and only if it found the row live, deletes it only after that, and its  *)
(* statement only after the row; nothing else deletes either, and no row   *)
(* comes back.                                                             *)
(***************************************************************************)
ImplementsChargeback == Contract!Spec

(***************************************************************************)
(* What the test of addUserCreditsFromPayment expects: a payment is        *)
(* credited once.                                                          *)
(***************************************************************************)
CreditedOnce == \A p \in Payments : Cardinality(CreditedRows(p)) <= 1

=============================================================================
