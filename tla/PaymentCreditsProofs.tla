------------------------ MODULE PaymentCreditsProofs ------------------------
(***************************************************************************)
(* Machine-checked proofs about PaymentCredits, for any payments, users    *)
(* and webhooks: type correctness, that credits come from paid charges,    *)
(* that a paid payment is credited, and that an account has one first      *)
(* order.                                                                  *)
(*                                                                         *)
(* The proofs are made of the lemmas about its two parts, instantiated     *)
(* here as SyncP and LedgerP, and of what ties the parts together.         *)
(***************************************************************************)
EXTENDS PaymentCredits, Sequences, TLAPS

SyncP == INSTANCE PaymentSyncProofs

LedgerP == INSTANCE CreditLedgerProofs
             WITH Handlers <- Syncs, paid <- PaidPayments, Amounts <- {},
                  Operations <- {"creditPayment"}

-----------------------------------------------------------------------------
(* The parts and the parts as their proofs see them.                       *)

\* The assumptions of the parts.
LEMMA PartsAssumption ==
    SyncP!PaymentsAssumption /\ LedgerP!LedgerAssumption
BY CreditsAssumption DEF SyncP!ChargeStates, Sync!ChargeStates, LedgerP!OperationNames,
       IsFiniteSet, LedgerP!IsFiniteSet

\* The state of a synchronisation.
LEMMA SyncStates ==
    /\ Sync!TypeOK <=> SyncP!TypeOK
    /\ Sync!Init <=> SyncP!Init
    /\ \A p : Sync!HasBeenPaid(p) <=> SyncP!HasBeenPaid(p)
<1> USE DEF Sync!Doc, SyncP!Doc, Sync!Sync, SyncP!Sync, Sync!Statuses, SyncP!Statuses,
            Sync!References, SyncP!References, Sync!ChargeStates, SyncP!ChargeStates,
            Sync!NoDoc, SyncP!NoDoc, Sync!Invoice, SyncP!Invoice
<1>1. Sync!TypeOK <=> SyncP!TypeOK
  BY DEF Sync!TypeOK, SyncP!TypeOK
<1>2. Sync!Init <=> SyncP!Init
  BY DEF Sync!Init, SyncP!Init
<1>3. \A p : Sync!HasBeenPaid(p) <=> SyncP!HasBeenPaid(p)
  BY DEF Sync!HasBeenPaid, SyncP!HasBeenPaid
<1> QED BY <1>1, <1>2, <1>3

\* Its steps.
LEMMA SyncSteps == Sync!Next => SyncP!Next
BY DEF Sync!Next, SyncP!Next, Sync!BuyStep, SyncP!BuyStep, Sync!SyncStep, SyncP!SyncStep,
       Sync!Insert, SyncP!Insert, Sync!RequestCharge, SyncP!RequestCharge,
       Sync!ChargeRefused, SyncP!ChargeRefused, Sync!StoreReference, SyncP!StoreReference,
       Sync!ChargeMoves, SyncP!ChargeMoves, Sync!Receive, SyncP!Receive,
       Sync!FoundByReference, SyncP!FoundByReference, Sync!Claim, SyncP!Claim,
       Sync!Fetch, SyncP!Fetch, Sync!Write, SyncP!Write, Sync!Notify, SyncP!Notify,
       Sync!InternalStatus, SyncP!InternalStatus, Sync!Announces, SyncP!Announces,
       Sync!Updated, SyncP!Updated, Sync!Written, SyncP!Written,
       Sync!NextStatus, SyncP!NextStatus, Sync!Reference, SyncP!Reference,
       Sync!AllowedTransition, SyncP!AllowedTransition,
       Sync!InvoiceStep, SyncP!InvoiceStep, Sync!ReadForNfe, SyncP!ReadForNfe,
       Sync!WriteNfe, SyncP!WriteNfe, Sync!HasNfe, SyncP!HasNfe, Sync!NoDoc, SyncP!NoDoc

\* The state of the ledger.
LEMMA LedgerStates ==
    /\ Ledger!TypeOK <=> LedgerP!TypeOK
    /\ Ledger!Init <=> LedgerP!Init
    /\ \A p : Ledger!CreditedRows(p) = LedgerP!CreditedRows(p)
<1> USE DEF Ledger!Row, LedgerP!Row, Ledger!Task, LedgerP!Task, Ledger!OperationNames,
            LedgerP!OperationNames, Ledger!ProgramCounter, LedgerP!ProgramCounter
<1>1. Ledger!TypeOK <=> LedgerP!TypeOK
  BY DEF Ledger!TypeOK, LedgerP!TypeOK
<1>2. Ledger!Init <=> LedgerP!Init
  BY DEF Ledger!Init, LedgerP!Init
<1>3. \A p : Ledger!CreditedRows(p) = LedgerP!CreditedRows(p)
  BY DEF Ledger!CreditedRows, LedgerP!CreditedRows
<1> QED BY <1>1, <1>2, <1>3

\* Its steps.
LEMMA LedgerSteps ==
    ASSUME NEW h
    PROVE  /\ \A p : Ledger!ReadPayment(h, p) <=> LedgerP!ReadPayment(h, p)
           /\ Ledger!LookupCredit(h) <=> LedgerP!LookupCredit(h)
           /\ Ledger!BeginTx(h) <=> LedgerP!BeginTx(h)
           /\ Ledger!CommitWithoutFunds(h) <=> LedgerP!CommitWithoutFunds(h)
           /\ Ledger!Commit(h) <=> LedgerP!Commit(h)
           /\ Ledger!CommitWithoutRow(h) <=> LedgerP!CommitWithoutRow(h)
           /\ Ledger!Abort(h) <=> LedgerP!Abort(h)
<1> USE DEF Ledger!Goto, LedgerP!Goto, Ledger!AddFunds, LedgerP!AddFunds,
            Ledger!AddItem, LedgerP!AddItem
<1>1. \A p : Ledger!ReadPayment(h, p) <=> LedgerP!ReadPayment(h, p)
  BY DEF Ledger!ReadPayment, LedgerP!ReadPayment, Ledger!Idle, LedgerP!Idle,
         Ledger!Start, LedgerP!Start
<1>2. Ledger!LookupCredit(h) <=> LedgerP!LookupCredit(h)
  BY DEF Ledger!LookupCredit, LedgerP!LookupCredit, Ledger!CreditedRows, LedgerP!CreditedRows
<1>3. Ledger!BeginTx(h) <=> LedgerP!BeginTx(h)
  BY DEF Ledger!BeginTx, LedgerP!BeginTx, Ledger!Locked, LedgerP!Locked, Ledger!RowsOf,
         LedgerP!RowsOf, Ledger!LatestRows, LedgerP!LatestRows, Ledger!OpeningRow,
         LedgerP!OpeningRow
<1>4. Ledger!Commit(h) <=> LedgerP!Commit(h)
  BY DEF Ledger!Commit, LedgerP!Commit, Ledger!NewRow, LedgerP!NewRow,
         Ledger!ItemOf, LedgerP!ItemOf
<1>5. Ledger!CommitWithoutRow(h) <=> LedgerP!CommitWithoutRow(h)
  BY DEF Ledger!CommitWithoutRow, LedgerP!CommitWithoutRow
<1>6. Ledger!Abort(h) <=> LedgerP!Abort(h)
  BY DEF Ledger!Abort, LedgerP!Abort
<1>7. Ledger!CommitWithoutFunds(h) <=> LedgerP!CommitWithoutFunds(h)
  BY DEF Ledger!CommitWithoutFunds, LedgerP!CommitWithoutFunds
<1> QED BY <1>1, <1>2, <1>3, <1>4, <1>5, <1>6, <1>7

-----------------------------------------------------------------------------
(* The invariant: that of each part, and what ties them.                   *)

HasBeenPaid(p) == SyncP!HasBeenPaid(p)

Credited(p) == LedgerP!CreditedRows(p) # {}

SyncInv == SyncP!TypeOK /\ SyncP!StartInv /\ SyncP!BackedInv /\ SyncP!AnnouncedInv

LedgerInv == LedgerP!TypeOK /\ LedgerP!ChargebacksNameARow

\* Whoever carries a payment in the ledger, carries one that was paid.
Backing ==
    /\ \A h \in Syncs : task[h].payment # NoPayment => HasBeenPaid(task[h].payment)
    /\ \A i \in DOMAIN rows : rows[i].payment # NoPayment => HasBeenPaid(rows[i].payment)

\* A synchronisation that wrote PAID shows it until the payment is overtaken, and
\* its credit listener works for it, to rows of its payment.
Following(h) ==
    LET p == sync[h].payment IN
    /\ (sync[h].pc = "notify" /\ sync[h].wrote = "PAID") \/ sync[h].announced
          => doc[p].status = "PAID" \/ p \in overtaken
    /\ task[h].pc # "idle" => sync[h].announced /\ task[h].payment = p
    /\ task[h].pc = "done" => Credited(p)
    /\ task[h].pc = "rejected" => Credited(p) \/ p \in overtaken

CreditsInv ==
    /\ SyncInv
    /\ LedgerInv
    /\ partner \in [Syncs -> PartnerStep]
    /\ stamp \in [Users -> Payments \cup {NoPayment}]
    /\ overtaken \subseteq Payments
    /\ Backing
    /\ \A h \in Syncs : Following(h)

-----------------------------------------------------------------------------
(* Steps of the synchronisation.                                           *)

\* Its invariant is kept.
LEMMA SyncInvStep ==
    ASSUME SyncInv, Sync!Next \/ UNCHANGED paymentVars
    PROVE  SyncInv'
<1>1. SyncP!Next \/ UNCHANGED SyncP!vars
  BY SyncSteps DEF paymentVars, SyncP!vars
<1>2. SyncP!TypeOK' /\ SyncP!StartInv'
  <2>1. ASSUME NEW p \in Payments, SyncP!BuyStep(p) PROVE SyncP!TypeOK' /\ SyncP!StartInv'
    BY <2>1, SyncP!TypeBuy, PartsAssumption DEF SyncInv
  <2>2. ASSUME NEW h \in Syncs, SyncP!SyncStep(h) PROVE SyncP!TypeOK' /\ SyncP!StartInv'
    BY <2>2, SyncP!TypeSync, PartsAssumption DEF SyncInv
  <2>4. ASSUME NEW h \in Syncs, SyncP!InvoiceStep(h) PROVE SyncP!TypeOK' /\ SyncP!StartInv'
    BY <2>4, SyncP!TypeInvoice, PartsAssumption DEF SyncInv
  <2>3. CASE UNCHANGED SyncP!vars
    BY <2>3 DEF SyncInv, SyncP!vars, SyncP!TypeOK, SyncP!StartInv
  <2> QED BY <1>1, <2>1, <2>2, <2>3, <2>4 DEF SyncP!Next
<1>3. SyncP!BackedInv'
  BY <1>1, SyncP!BackedStep, PartsAssumption DEF SyncInv
<1>4. SyncP!AnnouncedInv'
  BY <1>1, SyncP!AnnouncedStep, PartsAssumption DEF SyncInv
<1> QED BY <1>2, <1>3, <1>4 DEF SyncInv

\* A payment that was paid, was.
LEMMA PaidStays ==
    ASSUME SyncInv, Sync!Next \/ UNCHANGED paymentVars, NEW p \in Payments, HasBeenPaid(p)
    PROVE  HasBeenPaid(p)'
<1>1. SyncP!Next \/ UNCHANGED SyncP!vars
  BY SyncSteps DEF paymentVars, SyncP!vars
<1> QED BY <1>1, SyncP!PaidForever, PartsAssumption DEF SyncInv, HasBeenPaid

\* The steps of a synchronisation, as the listeners see them.
LEMMA SyncFollows ==
    ASSUME CreditsInv, PaymentStep, NEW h \in Syncs
    PROVE  Following(h)'
<1> DEFINE p == sync[h].payment
<1>1. /\ Sync!Next /\ overtaken' = overtaken \cup {q \in PaidPayments : doc'[q].status # "PAID"}
      /\ UNCHANGED <<rows, task>>
  BY DEF PaymentStep, ledgerVars
<1>2. Following(h) /\ SyncInv /\ p \in Payments
  BY DEF CreditsInv, SyncInv, SyncP!TypeOK, SyncP!Sync
<1>3. \A q \in Payments : doc[q].status = "PAID" => doc'[q].status = "PAID" \/ q \in overtaken'
  BY <1>1 DEF PaidPayments
<1>4. ASSUME sync'[h] = sync[h] PROVE Following(h)'
  BY <1>1, <1>2, <1>3, <1>4 DEF Following, Credited, LedgerP!CreditedRows
<1>5. ASSUME SyncP!SyncStep(h) PROVE Following(h)'
  <2>1. /\ sync[h].announced = FALSE
        /\ sync'[h].pc = "notify" => doc'[sync'[h].payment].status = sync'[h].wrote
        /\ sync'[h].announced => /\ sync[h].pc = "notify" /\ sync[h].wrote = "PAID"
                                 /\ sync'[h].payment = sync[h].payment
    BY <1>2, <1>5, SyncP!NotifiedStep, PartsAssumption DEF SyncInv
  <2>2. task[h].pc = "idle"
    BY <1>2, <2>1 DEF Following
  <2>3. sync'[h].announced => doc'[p].status = "PAID" \/ p \in overtaken'
    BY <1>1, <1>2, <1>3, <2>1 DEF Following
  <2> QED BY <1>1, <2>1, <2>2, <2>3 DEF Following
<1>6. ASSUME NEW g \in Syncs, g # h, SyncP!SyncStep(g) PROVE sync'[h] = sync[h]
  BY <1>2, <1>6, SyncP!NotifiedStep, PartsAssumption DEF SyncInv
<1>7. ASSUME NEW q \in Payments, SyncP!BuyStep(q) PROVE sync'[h] = sync[h]
  BY <1>2, <1>7, SyncP!ReferenceBuy, PartsAssumption DEF SyncInv
<1>9. ASSUME NEW g \in Syncs, SyncP!InvoiceStep(g) PROVE sync'[h] = sync[h]
  BY <1>2, <1>9, SyncP!InvoiceEffect, PartsAssumption DEF SyncInv
<1>8. SyncP!Next
  BY <1>1, SyncSteps
<1> QED BY <1>4, <1>5, <1>6, <1>7, <1>8, <1>9 DEF SyncP!Next

\* A step of the payments.
LEMMA PaymentKeeps ==
    ASSUME CreditsInv, PaymentStep
    PROVE  CreditsInv'
<1>1. /\ Sync!Next /\ overtaken' = overtaken \cup {q \in PaidPayments : doc'[q].status # "PAID"}
      /\ UNCHANGED <<funds, rows, items, task, partner, stamp>>
  BY DEF PaymentStep, ledgerVars
<1>2. SyncInv'
  BY <1>1, SyncInvStep DEF CreditsInv
<1>3. LedgerInv'
  BY <1>1 DEF CreditsInv, LedgerInv, LedgerP!TypeOK, LedgerP!ChargebacksNameARow,
              LedgerP!ChargebackNamesARow, PaidPayments
<1>4. Backing'
  <2>1. ASSUME NEW p \in Payments \cup {NoPayment}, p # NoPayment, HasBeenPaid(p)
        PROVE  HasBeenPaid(p)'
    BY <1>1, <2>1, PaidStays DEF CreditsInv
  <2>2. ASSUME NEW h \in Syncs, task'[h].payment # NoPayment
        PROVE  HasBeenPaid(task[h].payment)'
    <3>1. task[h].payment \in Payments \cup {NoPayment} /\ HasBeenPaid(task[h].payment)
      BY <1>1, <2>2 DEF CreditsInv, LedgerInv, LedgerP!TypeOK, LedgerP!Task, Backing
    <3> QED BY <1>1, <2>1, <2>2, <3>1 DEF HasBeenPaid
  <2>3. ASSUME NEW i \in DOMAIN rows', rows'[i].payment # NoPayment
        PROVE  HasBeenPaid(rows[i].payment)'
    <3>1. rows \in Seq(LedgerP!Row) /\ i \in DOMAIN rows
      BY <1>1 DEF CreditsInv, LedgerInv, LedgerP!TypeOK
    <3>2. rows[i] \in LedgerP!Row
      BY <3>1
    <3>3. rows[i].payment \in Payments \cup {NoPayment} /\ HasBeenPaid(rows[i].payment)
      BY <1>1, <2>3, <3>1, <3>2 DEF CreditsInv, LedgerP!Row, Backing
    <3> QED BY <1>1, <2>1, <2>3, <3>3 DEF HasBeenPaid
  <2> QED BY <2>2, <2>3 DEF Backing
<1>5. overtaken' \subseteq Payments
  BY <1>1 DEF CreditsInv, PaidPayments
<1>6. \A h \in Syncs : Following(h)'
  BY SyncFollows
<1> QED BY <1>1, <1>2, <1>3, <1>4, <1>5, <1>6 DEF CreditsInv

-----------------------------------------------------------------------------
(* Steps of the listeners.                                                 *)

CreditStep(h) == CreditPayment(h) \/ ContinueCredit(h)

\* They are steps of the ledger, and keep its invariant.
LEMMA LedgerInvStep ==
    ASSUME CreditsInv, NEW h \in Syncs, CreditStep(h)
    PROVE  LedgerInv' /\ UNCHANGED <<paymentVars, partner, stamp, overtaken>>
<1>1. sync[h].payment \in Payments
  BY DEF CreditsInv, SyncInv, SyncP!TypeOK, SyncP!Sync
<1>2. LedgerP!Next
  <2>1. CASE CreditPayment(h)
    <3>1. LedgerP!ReadPayment(h, sync[h].payment)
      BY <2>1, LedgerSteps DEF CreditPayment
    <3> QED BY <1>1, <3>1 DEF LedgerP!Next, LedgerP!LedgerNext, LedgerP!FirstStep
  <2>2. CASE ContinueCredit(h)
    <3>1. LedgerP!LaterStep(h)
      BY <2>2, LedgerSteps DEF ContinueCredit, LedgerP!LaterStep
    <3> QED BY <3>1 DEF LedgerP!Next, LedgerP!LedgerNext
  <2> QED BY <2>1, <2>2 DEF CreditStep
<1>3. LedgerInv'
  BY <1>2, LedgerP!StepKeepsType, LedgerP!StepKeepsChargebacks, PartsAssumption
     DEF CreditsInv, LedgerInv
<1> QED BY <1>3 DEF CreditStep, CreditPayment, ContinueCredit

\* The rows only grow, by a row of no payment or of the listener's.
Grows(r) ==
    /\ r \in LedgerP!Row /\ r.live
    /\ rows' = Append(rows, r)

\* A row that is added leaves the others as they are.
LEMMA GrowsEffect ==
    ASSUME LedgerInv, NEW r, Grows(r)
    PROVE  /\ DOMAIN rows' = DOMAIN rows \cup {Len(rows) + 1}
           /\ \A i \in DOMAIN rows : rows'[i] = rows[i]
           /\ rows'[Len(rows) + 1] = r
           /\ \A p : Credited(p) => Credited(p)'
           /\ Credited(r.payment)'
<1>1. /\ DOMAIN rows' = DOMAIN rows \cup {Len(rows) + 1}
      /\ rows'[Len(rows) + 1] = r
      /\ \A i \in DOMAIN rows : rows'[i] = rows[i]
  BY LedgerP!AppendedRow, PartsAssumption DEF LedgerInv, Grows
<1>2. \A p : Credited(p) => Credited(p)'
  BY <1>1 DEF Credited, LedgerP!CreditedRows
<1>3. Credited(r.payment)'
  BY <1>1 DEF Credited, LedgerP!CreditedRows, Grows
<1> QED BY <1>1, <1>2, <1>3

\* What a step of listener h does: it reads the announced payment ...
Begins(h) ==
    /\ sync[h].announced
    /\ task'[h].payment = sync[h].payment
    /\ \/ task'[h].pc = "lookup"
       \/ task'[h].pc = "rejected" /\ sync[h].payment \notin PaidPayments
    /\ UNCHANGED rows

\* ... or goes on with it.
GoesOn(h) ==
    /\ task[h].pc # "idle"
    /\ task'[h].payment = task[h].payment
    /\ \/ task'[h].pc = "rejected" /\ Credited(task[h].payment) /\ UNCHANGED rows
       \/ task'[h].pc \in {"ready", "inTx", "unmoved", "halfCommitted", "aborted"}
          /\ UNCHANGED rows
       \/ task'[h].pc = "inTx" /\ \E r : Grows(r) /\ r.payment = NoPayment
       \/ task'[h].pc = "done" /\ \E r : Grows(r) /\ r.payment = task[h].payment

Effect(h) ==
    /\ \A g \in Syncs : g # h => task'[g] = task[g]
    /\ Begins(h) \/ GoesOn(h)

\* Each of its steps does that.
LEMMA CreditEffect ==
    ASSUME CreditsInv, NEW h \in Syncs, CreditStep(h)
    PROVE  Effect(h)
<1>1. LedgerP!TypeOK /\ task \in [Syncs -> LedgerP!Task] /\ task[h] \in LedgerP!Task
  BY DEF CreditsInv, LedgerInv, LedgerP!TypeOK
<1>2. ASSUME NEW pc, LedgerP!Goto(h, pc)
      PROVE  /\ \A g \in Syncs : g # h => task'[g] = task[g]
             /\ task'[h].pc = pc /\ task'[h].payment = task[h].payment
  BY <1>1, <1>2 DEF LedgerP!Goto, LedgerP!Task
<1>3. CASE LedgerP!ReadPayment(h, sync[h].payment) /\ sync[h].announced
  BY <1>1, <1>3 DEF LedgerP!ReadPayment, LedgerP!Start, Effect, Begins
<1>4. CASE LedgerP!LookupCredit(h)
  BY <1>2, <1>4 DEF LedgerP!LookupCredit, Effect, GoesOn, Credited
<1>5. CASE LedgerP!BeginTx(h)
  <2> DEFINE u == task[h].user
  <2>1. /\ \A g \in Syncs : g # h => task'[g] = task[g]
        /\ task'[h].pc = "inTx" /\ task'[h].payment = task[h].payment
        /\ task[h].pc = "ready"
    BY <1>1, <1>5 DEF LedgerP!BeginTx, LedgerP!Task
  <2>2. UNCHANGED rows \/ rows' = Append(rows, LedgerP!OpeningRow(u))
    BY <1>5 DEF LedgerP!BeginTx
  <2>3. /\ LedgerP!OpeningRow(u) \in LedgerP!Row /\ LedgerP!OpeningRow(u).live
        /\ LedgerP!OpeningRow(u).payment = NoPayment
    BY <1>1 DEF LedgerP!OpeningRow, LedgerP!Row, LedgerP!Task
  <2> QED BY <2>1, <2>2, <2>3 DEF Effect, GoesOn, Grows
<1>6. CASE LedgerP!Commit(h)
  <2>1. /\ LedgerP!NewRow(h) \in LedgerP!Row /\ LedgerP!NewRow(h).live
        /\ LedgerP!NewRow(h).payment = task[h].payment
    BY <1>1, LedgerP!NewRowType, PartsAssumption DEF LedgerP!NewRow
  <2> QED BY <1>2, <1>6, <2>1 DEF LedgerP!Commit, Effect, GoesOn, Grows
<1>7. CASE LedgerP!CommitWithoutRow(h)
  BY <1>2, <1>7 DEF LedgerP!CommitWithoutRow, Effect, GoesOn
<1>8. CASE LedgerP!Abort(h)
  BY <1>2, <1>8 DEF LedgerP!Abort, Effect, GoesOn
<1>9. CASE LedgerP!CommitWithoutFunds(h)
  <2>1. PICK pc \in {"unmoved", "aborted"} : LedgerP!Goto(h, pc)
    BY <1>9 DEF LedgerP!CommitWithoutFunds
  <2> QED BY <1>2, <1>9, <2>1 DEF LedgerP!CommitWithoutFunds, Effect, GoesOn
<1> QED BY <1>3, <1>4, <1>5, <1>6, <1>7, <1>8, <1>9, LedgerSteps
        DEF CreditStep, CreditPayment, ContinueCredit

\* It keeps the invariant.
LEMMA CreditKeeps ==
    ASSUME CreditsInv, NEW h \in Syncs, CreditStep(h)
    PROVE  CreditsInv'
<1>1. LedgerInv' /\ UNCHANGED <<doc, charge, buy, sync, invoice, partner, stamp, overtaken>>
  BY LedgerInvStep DEF paymentVars
<1>2. SyncInv'
  BY <1>1, SyncInvStep DEF CreditsInv, paymentVars
<1>3. (\A g \in Syncs : g # h => task'[g] = task[g]) /\ (Begins(h) \/ GoesOn(h))
  BY CreditEffect DEF Effect
<1>4. \A p : HasBeenPaid(p)' <=> HasBeenPaid(p)
  BY <1>1 DEF HasBeenPaid, SyncP!HasBeenPaid
<1> DEFINE p == sync[h].payment
<1>5. Following(h)
  BY DEF CreditsInv
<1>6. sync[h].announced /\ task'[h].payment = p
  <2>1. CASE Begins(h)
    BY <2>1 DEF Begins
  <2>2. CASE GoesOn(h)
    BY <1>5, <2>2 DEF GoesOn, Following
  <2> QED BY <1>3, <2>1, <2>2
<1>7. p \in Payments /\ HasBeenPaid(p)
  <2>1. p \in Payments /\ (sync[h].announced => SyncP!HasBeenPaid(p))
    BY DEF CreditsInv, SyncInv, SyncP!TypeOK, SyncP!Sync, SyncP!BackedInv, SyncP!PaidIsBacked
  <2> QED BY <1>6, <2>1 DEF HasBeenPaid
<1>8. \/ UNCHANGED rows
      \/ \E r : Grows(r) /\ r.payment \in {NoPayment, p}
  <2>1. CASE Begins(h)
    BY <2>1 DEF Begins
  <2>2. CASE GoesOn(h)
    BY <1>6, <2>2 DEF GoesOn
  <2> QED BY <1>3, <2>1, <2>2
<1>9. \A q : Credited(q) => Credited(q)'
  <2>1. CASE UNCHANGED rows
    BY <2>1 DEF Credited, LedgerP!CreditedRows
  <2>2. CASE \E r : Grows(r)
    BY <2>2, GrowsEffect DEF CreditsInv
  <2> QED BY <1>8, <2>1, <2>2
<1>10. Backing'
  <2>1. ASSUME NEW g \in Syncs, task'[g].payment # NoPayment
        PROVE  HasBeenPaid(task'[g].payment)
    BY <1>3, <1>6, <1>7, <2>1 DEF CreditsInv, Backing
  <2>2. ASSUME NEW i \in DOMAIN rows', rows'[i].payment # NoPayment
        PROVE  HasBeenPaid(rows'[i].payment)
    <3>1. CASE UNCHANGED rows
      BY <2>2, <3>1 DEF CreditsInv, Backing
    <3>2. ASSUME NEW r, Grows(r), r.payment \in {NoPayment, p}
          PROVE  HasBeenPaid(rows'[i].payment)
      <4>1. \/ i \in DOMAIN rows /\ rows'[i] = rows[i]
            \/ rows'[i] = r
        BY <2>2, <3>2, GrowsEffect DEF CreditsInv
      <4> QED BY <1>7, <2>2, <3>2, <4>1 DEF CreditsInv, Backing
    <3> QED BY <1>8, <3>1, <3>2
  <2> QED BY <1>4, <2>1, <2>2 DEF Backing
<1>11. task'[h].pc = "done" => Credited(p)'
  <2>1. CASE Begins(h)
    BY <2>1 DEF Begins
  <2>2. ASSUME GoesOn(h), task'[h].pc = "done"
        PROVE  \E r : Grows(r) /\ r.payment = p
    BY <1>6, <2>2 DEF GoesOn
  <2>3. ASSUME NEW r, Grows(r), r.payment = p PROVE Credited(p)'
    BY <1>1, <2>3, GrowsEffect DEF CreditsInv
  <2> QED BY <1>3, <2>1, <2>2, <2>3
<1>12. task'[h].pc = "rejected" => Credited(p)' \/ p \in overtaken
  <2>1. ASSUME Begins(h), task'[h].pc = "rejected" PROVE doc[p].status # "PAID"
    BY <1>7, <2>1 DEF Begins, PaidPayments
  <2>2. doc[p].status = "PAID" \/ p \in overtaken
    BY <1>5, <1>6 DEF Following
  <2>3. ASSUME GoesOn(h), task'[h].pc = "rejected" PROVE Credited(p)
    BY <1>6, <2>3 DEF GoesOn
  <2>4. Credited(p) => Credited(p)'
    BY <1>1, <1>9 DEF Credited, LedgerP!CreditedRows
  <2> QED BY <1>3, <2>1, <2>2, <2>3, <2>4
<1>13. ASSUME NEW g \in Syncs PROVE Following(g)'
  <2>1. CASE g # h
    <3>1. task'[g] = task[g] /\ Following(g)
      BY <1>3, <2>1 DEF CreditsInv
    <3> QED BY <1>1, <1>9, <3>1 DEF Following
  <2>2. CASE g = h
    <3>1. (sync[h].pc = "notify" /\ sync[h].wrote = "PAID") \/ sync[h].announced
             => doc[p].status = "PAID" \/ p \in overtaken
      BY <1>5 DEF Following
    <3> QED BY <1>1, <1>6, <1>11, <1>12, <2>2, <3>1 DEF Following
  <2> QED BY <2>1, <2>2
<1> QED BY <1>1, <1>2, <1>10, <1>13 DEF CreditsInv

\* The partner listener leaves everything that the invariant is about.
LEMMA PartnerKeeps ==
    ASSUME CreditsInv, NEW h \in Syncs, PartnerStepOf(h)
    PROVE  CreditsInv'
<1>1. /\ UNCHANGED <<doc, charge, buy, sync, invoice, rows, items, task, overtaken>>
      /\ partner' \in [Syncs -> PartnerStep]
      /\ stamp' \in [Users -> Payments \cup {NoPayment}]
  <2>1. sync[h].payment \in Payments
    BY DEF CreditsInv, SyncInv, SyncP!TypeOK, SyncP!Sync
  <2> QED BY <2>1 DEF PartnerStepOf, CountOrders, CountFails, StampFirstOrder, PartnerStep,
             CreditsInv, paymentVars, ledgerVars
<1>2. SyncInv'
  BY <1>1, SyncInvStep DEF CreditsInv, paymentVars
<1>3. LedgerInv'
  <2>1. funds' \in [Users -> Int]
    BY DEF PartnerStepOf, CountOrders, CountFails, StampFirstOrder, CreditsInv, LedgerInv,
           LedgerP!TypeOK, ledgerVars
  <2> QED BY <1>1, <2>1 DEF CreditsInv, LedgerInv, LedgerP!TypeOK, PaidPayments,
             LedgerP!ChargebacksNameARow, LedgerP!ChargebackNamesARow
<1> QED BY <1>1, <1>2, <1>3 DEF CreditsInv, Backing, HasBeenPaid, SyncP!HasBeenPaid,
           Following, Credited, LedgerP!CreditedRows

-----------------------------------------------------------------------------
(* The theorems.                                                           *)

\* The invariant holds at the start ...
LEMMA CreditsInit == Init => CreditsInv
<1> SUFFICES ASSUME Init PROVE CreditsInv
  OBVIOUS
<1>1. SyncP!TypeOK /\ SyncP!StartInv /\ SyncP!Init
  BY SyncStates, SyncP!TypeInit, PartsAssumption DEF Init
<1>2. SyncInv
  <2>1. /\ \A p \in Payments : doc[p].status = "absent"
        /\ \A h \in Syncs : /\ sync[h].pc = "idle" /\ sync[h].announced = FALSE
                            /\ sync[h].fetched = "PENDING" /\ sync[h].wrote = "PENDING"
    BY <1>1 DEF SyncP!Init, SyncP!NoDoc
  <2> QED BY <1>1, <2>1 DEF SyncInv, SyncP!BackedInv, SyncP!PaidIsBacked, SyncP!AnnouncedInv
<1>3. LedgerP!Init
  BY LedgerStates DEF Init
<1>4. LedgerInv
  BY <1>3, PartsAssumption
     DEF LedgerInv, LedgerP!LedgerAssumption, LedgerP!Init, LedgerP!TypeOK, LedgerP!Task,
         LedgerP!ProgramCounter, LedgerP!ChargebacksNameARow, LedgerP!ChargebackNamesARow,
         LedgerP!ChargebackSteps
<1>5. Backing
  BY <1>3 DEF LedgerP!Init, Backing
<1>6. ASSUME NEW h \in Syncs PROVE Following(h)
  <2>1. sync[h].pc = "idle" /\ sync[h].announced = FALSE /\ task[h].pc = "idle"
    BY <1>1, <1>3 DEF SyncP!Init, LedgerP!Init
  <2> QED BY <2>1 DEF Following
<1> QED BY <1>2, <1>4, <1>5, <1>6 DEF CreditsInv, Init, PartnerStep

\* ... and every step keeps it.
LEMMA CreditsNext == CreditsInv /\ [Next]_vars => CreditsInv'
<1> SUFFICES ASSUME CreditsInv, [Next]_vars PROVE CreditsInv'
  OBVIOUS
<1>1. CASE PaymentStep
  BY <1>1, PaymentKeeps
<1>2. ASSUME NEW h \in Syncs, CreditPayment(h) \/ ContinueCredit(h) PROVE CreditsInv'
  BY <1>2, CreditKeeps DEF CreditStep
<1>3. ASSUME NEW h \in Syncs, PartnerStepOf(h) PROVE CreditsInv'
  BY <1>3, PartnerKeeps
<1>4. CASE UNCHANGED vars
  <2>1. SyncInv'
    BY <1>4, SyncInvStep DEF CreditsInv, vars
  <2> QED BY <1>4, <2>1 DEF vars, paymentVars, ledgerVars, CreditsInv, LedgerInv, LedgerP!TypeOK,
             LedgerP!ChargebacksNameARow, LedgerP!ChargebackNamesARow, PaidPayments,
             Backing, HasBeenPaid, SyncP!HasBeenPaid, Following, Credited, LedgerP!CreditedRows
<1> QED BY <1>1, <1>2, <1>3, <1>4 DEF Next

LEMMA CreditsInvariant == Spec => []CreditsInv
BY CreditsInit, CreditsNext, PTL DEF Spec

(***************************************************************************)
(* The documents, charges, synchronisations, rows and listeners have the   *)
(* forms the two parts give them.                                          *)
(***************************************************************************)
THEOREM CreditsTypeOK == Spec => []TypeOK
<1>1. CreditsInv => TypeOK
  BY SyncStates, LedgerStates DEF CreditsInv, SyncInv, LedgerInv, TypeOK
<1> QED BY <1>1, CreditsInvariant, PTL

(***************************************************************************)
(* However many webhooks, purchases and listeners run, and in whatever     *)
(* order, a credit row has a charge behind it that was paid at the gateway. *)
(***************************************************************************)
THEOREM CreditsComeFromPaidTheorem == Spec => []CreditsComeFromPaidCharges
<1>1. CreditsInv => CreditsComeFromPaidCharges
  <2> SUFFICES ASSUME CreditsInv, NEW p \in Payments, NEW i \in DOMAIN rows,
                      rows[i].payment = p
               PROVE  SyncP!HasBeenPaid(p)
    BY SyncStates, LedgerStates DEF CreditsComeFromPaidCharges, LedgerP!CreditedRows
  <2> QED BY CreditsAssumption DEF CreditsInv, Backing, HasBeenPaid
<1> QED BY <1>1, CreditsInvariant, PTL

(***************************************************************************)
(* No paid payment is left without its credits by listeners that have all  *)
(* finished: some synchronisation announced it or is about to, and its     *)
(* listener adds the credits unless another one did.                       *)
(***************************************************************************)
THEOREM PaidIsCreditedTheorem == Spec => []PaidIsCredited
<1>1. CreditsInv => PaidIsCredited
  <2> SUFFICES ASSUME CreditsInv, NEW p \in Payments, doc[p].status = "PAID", p \notin overtaken
               PROVE  \/ Credited(p)
                      \/ \E h \in Syncs : sync[h].payment = p /\ sync[h].pc = "notify"
                      \/ \E h \in Syncs : /\ sync[h].payment = p /\ sync[h].announced
                                          /\ ~Finished(h)
    BY LedgerStates DEF PaidIsCredited, PaidPayments, Credited
  <2>1. PICK h \in Syncs : /\ sync[h].payment = p
                           /\ sync[h].announced \/ sync[h].pc = "notify"
    BY DEF CreditsInv, SyncInv, SyncP!AnnouncedInv, SyncP!AnnouncedFor
  <2>2. ASSUME Finished(h) PROVE Credited(p)
    BY <2>1, <2>2 DEF CreditsInv, Following, Finished
  <2> QED BY <2>1, <2>2
<1> QED BY <1>1, CreditsInvariant, PTL

-----------------------------------------------------------------------------
(* The first order.                                                        *)

Counted(h) == partner[h] \in {"first", "stamped"}

OwnerOf(h) == PaymentOwner[sync[h].payment]

\* Whoever counted an order as the first, counted the same one, and the stamp is of
\* a listener that counted or guessed.
FirstInv ==
    /\ \A h \in Syncs : partner[h] # "idle" => sync[h].announced = TRUE
    /\ \A h, g \in Syncs : Counted(h) /\ Counted(g) /\ OwnerOf(h) = OwnerOf(g) =>
          sync[h].payment = sync[g].payment
    /\ \A u \in Users : stamp[u] # NoPayment =>
          \E h \in Syncs : /\ OwnerOf(h) = u /\ sync[h].payment = stamp[u]
                           /\ partner[h] \in {"stamped", "guessed"}

\* An announced payment is one of its account's orders.
LEMMA AnnouncedIsOrder ==
    ASSUME CreditsInv, NEW h \in Syncs, sync[h].announced = TRUE
    PROVE  sync[h].payment \in OrdersOf(OwnerOf(h))
<1>1. /\ sync[h].payment \in Payments
      /\ doc[sync[h].payment].status # "absent"
  <2>1. sync[h].payment \in Payments /\ sync[h].pc = "done"
    BY DEF CreditsInv, SyncInv, SyncP!TypeOK, SyncP!Sync, SyncP!StartInv
  <2>2. charge[sync[h].payment] # "none"
    BY <2>1 DEF CreditsInv, SyncInv, SyncP!StartInv
  <2> QED BY <2>1, <2>2 DEF CreditsInv, SyncInv, SyncP!StartInv
<1> QED BY <1>1 DEF OrdersOf, OwnerOf

\* A synchronisation that has announced its payment is over.
LEMMA AnnouncedStays ==
    ASSUME CreditsInv, [Next]_vars, NEW h \in Syncs, sync[h].announced = TRUE
    PROVE  sync'[h] = sync[h]
<1>1. CASE PaymentStep
  <2>1. SyncP!Next
    BY <1>1, SyncSteps DEF PaymentStep
  <2>2. ~SyncP!SyncStep(h)
    BY SyncP!NotifiedStep, PartsAssumption DEF CreditsInv, SyncInv
  <2>3. ASSUME NEW g \in Syncs, g # h, SyncP!SyncStep(g) PROVE sync'[h] = sync[h]
    BY <2>3, SyncP!NotifiedStep, PartsAssumption DEF CreditsInv, SyncInv
  <2>4. ASSUME NEW q \in Payments, SyncP!BuyStep(q) PROVE sync'[h] = sync[h]
    BY <2>4, SyncP!ReferenceBuy, PartsAssumption DEF CreditsInv, SyncInv
  <2>5. ASSUME NEW g \in Syncs, SyncP!InvoiceStep(g) PROVE sync'[h] = sync[h]
    BY <2>5, SyncP!InvoiceEffect, PartsAssumption DEF CreditsInv, SyncInv
  <2> QED BY <2>1, <2>2, <2>3, <2>4, <2>5 DEF SyncP!Next
<1>2. CASE ~PaymentStep
  BY <1>2 DEF Next, vars, paymentVars, CreditPayment, ContinueCredit, PartnerStepOf, CountOrders,
              CountFails, StampFirstOrder
<1> QED BY <1>1, <1>2

\* What the partner listener does.
LEMMA PartnerEffect ==
    ASSUME CreditsInv, NEW h \in Syncs, PartnerStepOf(h)
    PROVE  /\ UNCHANGED sync
           /\ \A g \in Syncs : g # h => partner'[g] = partner[g]
           /\ \/ /\ partner[h] = "idle" /\ UNCHANGED stamp /\ sync[h].announced = TRUE
                 /\ \/ /\ partner'[h] = "first"
                       /\ OrdersOf(OwnerOf(h)) \subseteq {sync[h].payment}
                    \/ partner'[h] \in {"guess", "later"}
              \/ /\ stamp' = [stamp EXCEPT ![OwnerOf(h)] = sync[h].payment]
                 /\ \/ partner[h] = "first" /\ partner'[h] = "stamped"
                    \/ partner[h] = "guess" /\ partner'[h] = "guessed"
<1>1. partner \in [Syncs -> PartnerStep] /\ sync[h].announced \in BOOLEAN
  BY DEF CreditsInv, SyncInv, SyncP!TypeOK, SyncP!Sync
<1>2. CASE CountOrders(h)
  BY <1>1, <1>2 DEF CountOrders, paymentVars, OwnerOf
<1>3. CASE CountFails(h)
  BY <1>1, <1>3 DEF CountFails, paymentVars
<1>4. CASE StampFirstOrder(h)
  BY <1>1, <1>4 DEF StampFirstOrder, paymentVars, OwnerOf
<1> QED BY <1>2, <1>3, <1>4 DEF PartnerStepOf

\* A step that is not the partner listener's leaves its work.
LEMMA FirstStays ==
    ASSUME CreditsInv, FirstInv, [Next]_vars, UNCHANGED <<partner, stamp>>
    PROVE  FirstInv'
<1>1. \A h \in Syncs : partner[h] # "idle" => sync'[h] = sync[h]
  BY AnnouncedStays DEF FirstInv
<1>2. \A h \in Syncs : Counted(h) => partner[h] # "idle"
  BY DEF Counted
<1> QED BY <1>1, <1>2 DEF FirstInv, Counted, OwnerOf

LEMMA PartnerKeepsFirst ==
    ASSUME CreditsInv, FirstInv, NEW h \in Syncs, PartnerStepOf(h)
    PROVE  FirstInv'
<1> DEFINE u == OwnerOf(h)
<1>1. /\ UNCHANGED sync
      /\ \A g \in Syncs : g # h => partner'[g] = partner[g]
  BY PartnerEffect
<1>2. \A g \in Syncs : OwnerOf(g)' = OwnerOf(g) /\ sync'[g].payment = sync[g].payment
  BY <1>1 DEF OwnerOf
<1>3. u \in Users /\ sync[h].payment \in Payments
  BY CreditsAssumption DEF CreditsInv, SyncInv, SyncP!TypeOK, SyncP!Sync, OwnerOf
<1>4. \A g \in Syncs : partner'[g] # "idle" => sync'[g].announced = TRUE
  BY <1>1, PartnerEffect DEF FirstInv
<1>5. ASSUME NEW g \in Syncs, NEW k \in Syncs, Counted(g)', Counted(k)', OwnerOf(g) = OwnerOf(k)
      PROVE  sync[g].payment = sync[k].payment
  <2>1. CASE Counted(h) \/ ~Counted(h)'
    <3>1. Counted(g) /\ Counted(k)
      BY <1>1, <1>5, <2>1 DEF Counted
    <3> QED BY <1>5, <3>1 DEF FirstInv
  <2>2. CASE ~Counted(h) /\ Counted(h)'
    <3>1. OrdersOf(u) \subseteq {sync[h].payment} /\ sync[h].announced = TRUE
      BY <2>2, PartnerEffect DEF Counted
    <3>2. ASSUME NEW x \in Syncs, Counted(x)', OwnerOf(x) = u
          PROVE  sync[x].payment = sync[h].payment
      <4>1. sync[x].announced = TRUE
        BY <1>1, <3>1, <3>2 DEF FirstInv, Counted
      <4> QED BY <3>1, <3>2, <4>1, AnnouncedIsOrder
    <3>3. CASE g = h \/ k = h
      BY <1>5, <3>2, <3>3
    <3>4. CASE g # h /\ k # h
      <4>1. Counted(g) /\ Counted(k)
        BY <1>1, <1>5, <3>4 DEF Counted
      <4> QED BY <1>5, <4>1 DEF FirstInv
    <3> QED BY <3>3, <3>4
  <2> QED BY <2>1, <2>2
<1>6. ASSUME NEW v \in Users, stamp'[v] # NoPayment
      PROVE  \E g \in Syncs : /\ OwnerOf(g) = v /\ sync[g].payment = stamp'[v]
                              /\ partner'[g] \in {"stamped", "guessed"}
  <2>1. CASE stamp' = [stamp EXCEPT ![u] = sync[h].payment] /\ v = u
    <3>1. stamp'[v] = sync[h].payment
      BY <1>3, <2>1 DEF CreditsInv
    <3>2. partner'[h] \in {"stamped", "guessed"} \/ stamp'[v] = stamp[v]
      BY PartnerEffect
    <3>3. CASE partner'[h] \in {"stamped", "guessed"}
      BY <2>1, <3>1, <3>3
    <3>4. CASE stamp'[v] = stamp[v] /\ partner'[h] \notin {"stamped", "guessed"}
      <4>1. PICK g \in Syncs : /\ OwnerOf(g) = v /\ sync[g].payment = stamp[v]
                               /\ partner[g] \in {"stamped", "guessed"}
        BY <1>6, <3>4 DEF FirstInv
      <4>2. g # h
        BY <3>4, <4>1, PartnerEffect
      <4> QED BY <1>1, <3>4, <4>1, <4>2
    <3> QED BY <3>2, <3>3, <3>4
  <2>2. CASE stamp'[v] = stamp[v]
    <3>1. PICK g \in Syncs : /\ OwnerOf(g) = v /\ sync[g].payment = stamp[v]
                             /\ partner[g] \in {"stamped", "guessed"}
      BY <1>6, <2>2 DEF FirstInv
    <3>2. g # h
      BY <3>1, PartnerEffect
    <3> QED BY <1>1, <2>2, <3>1, <3>2
  <2> QED BY <1>3, <2>1, <2>2, PartnerEffect DEF CreditsInv
<1> QED BY <1>1, <1>2, <1>4, <1>5, <1>6 DEF FirstInv

(***************************************************************************)
(* However the listeners of an account's payments overlap, and whatever    *)
(* becomes of the payments, one of them is its first order and stays it,   *)
(* unless a listener could not count and guessed.                          *)
(***************************************************************************)
THEOREM OneFirstOrderTheorem == Spec => OneFirstOrder
<1> DEFINE Excused(u) == \E h \in Syncs : /\ PaymentOwner[sync[h].payment] = u
                                          /\ partner'[h] = "guessed"
           Step == \A u \in Users : stamp[u] # NoPayment /\ stamp'[u] # stamp[u] => Excused(u)
<1>1. Init => FirstInv
  BY DEF Init, FirstInv, Counted
<1>2. CreditsInv /\ FirstInv /\ [Next]_vars => FirstInv'
  <2> SUFFICES ASSUME CreditsInv, FirstInv, [Next]_vars PROVE FirstInv'
    OBVIOUS
  <2>1. ASSUME NEW h \in Syncs, PartnerStepOf(h) PROVE FirstInv'
    BY <2>1, PartnerKeepsFirst
  <2>2. ASSUME \A h \in Syncs : ~PartnerStepOf(h) PROVE UNCHANGED <<partner, stamp>>
    BY <2>2 DEF Next, vars, PaymentStep, CreditPayment, ContinueCredit
  <2> QED BY <2>1, <2>2, FirstStays
<1>3. CreditsInv /\ FirstInv /\ [Next]_vars => [Step]_vars
  <2> SUFFICES ASSUME CreditsInv, FirstInv, Next, NEW u \in Users, stamp[u] # NoPayment,
                      stamp'[u] # stamp[u]
               PROVE  Excused(u)
    OBVIOUS
  <2>1. PICK h \in Syncs : PartnerStepOf(h)
    BY DEF Next, PaymentStep, CreditPayment, ContinueCredit
  <2>2. /\ stamp' = [stamp EXCEPT ![OwnerOf(h)] = sync[h].payment]
        /\ \/ partner[h] = "first" /\ partner'[h] = "stamped"
           \/ partner[h] = "guess" /\ partner'[h] = "guessed"
    BY <2>1, PartnerEffect
  <2>3. u = OwnerOf(h) /\ sync[h].payment # stamp[u]
    BY <2>2 DEF CreditsInv
  <2>4. CASE partner'[h] = "guessed"
    BY <2>3, <2>4 DEF OwnerOf
  <2>5. CASE partner[h] = "first"
    <3>1. PICK g \in Syncs : /\ OwnerOf(g) = u /\ sync[g].payment = stamp[u]
                             /\ partner[g] \in {"stamped", "guessed"}
      BY DEF FirstInv
    <3>2. partner[g] = "guessed"
      BY <2>3, <2>5, <3>1 DEF FirstInv, Counted
    <3>3. partner'[g] = partner[g]
      BY <2>1, <2>5, <3>1, PartnerEffect
    <3> QED BY <3>1, <3>2, <3>3 DEF OwnerOf
  <2> QED BY <2>2, <2>4, <2>5
<1> QED BY <1>1, <1>2, <1>3, CreditsInvariant, PTL DEF Spec, OneFirstOrder
=============================================================================
