--------------------------- MODULE PaymentCredits ---------------------------
(***************************************************************************)
(* From a paid charge to the user's credits: PaymentSync announces         *)
(* PaymentSucceeded, and the event's listeners run side by side.  One,     *)
(* createNfe, writes the payment's document (PaymentSync).  Two write the  *)
(* buyer's billing account: addUserCreditsFromPayment, a handler of        *)
(* CreditLedger, and addPartnerIncoming, which stamps the account with the *)
(* coupon of the user's first order.                                       *)
(*                                                                         *)
(* The event lives in the memory of the process that announced it, and     *)
(* each listener runs once: the listeners of synchronisation h are named   *)
(* h.                                                                      *)
(***************************************************************************)
EXTENDS Integers, FiniteSets

CONSTANTS Users, Syncs, Payments, PaymentOwner, PaymentValue, Outcomes,
          Providers, NoPayment, NoItem

VARIABLES
    doc, charge, buy, sync, invoice,   \* PaymentSync
    funds, rows, items, task,    \* CreditLedger
    partner,                     \* how far each addPartnerIncoming is
    stamp,                       \* the payment that each account has as its first order
    overtaken                    \* payments whose document once stopped showing PAID

paymentVars == <<doc, charge, buy, sync, invoice>>
ledgerVars == <<funds, rows, items, task>>
vars == <<paymentVars, ledgerVars, partner, stamp, overtaken>>

PaidPayments == {p \in Payments : doc[p].status = "PAID"}

Sync == INSTANCE PaymentSync

Ledger == INSTANCE CreditLedger
             WITH Handlers <- Syncs, paid <- PaidPayments, Amounts <- {},
                  Operations <- {"creditPayment"}

\* The assumptions of the two modules.
ASSUME CreditsAssumption ==
    /\ Payments # {}
    /\ Outcomes \subseteq Sync!ChargeStates
    /\ Providers \subseteq BOOLEAN
    /\ Users # {}
    /\ IsFiniteSet(Syncs)
    /\ PaymentOwner \in [Payments -> Users]
    /\ PaymentValue \in [Payments -> Nat]
    /\ NoPayment \notin Payments
    /\ NoItem \notin Syncs

\* The order was counted as the first, is guessed to be it as nobody could count, or
\* is a later one; the first two then stamp the account.
PartnerStep == {"idle", "first", "guess", "later", "stamped", "guessed"}

TypeOK ==
    /\ Sync!TypeOK
    /\ Ledger!TypeOK
    /\ partner \in [Syncs -> PartnerStep]
    /\ stamp \in [Users -> Payments \cup {NoPayment}]
    /\ overtaken \subseteq Payments

-----------------------------------------------------------------------------

Init ==
    /\ Sync!Init
    /\ Ledger!Init
    /\ partner = [h \in Syncs |-> "idle"]
    /\ stamp = [u \in Users |-> NoPayment]
    /\ overtaken = {}

PaymentStep ==
    /\ Sync!Next
    /\ overtaken' = overtaken \cup {p \in PaidPayments : doc'[p].status # "PAID"}
    /\ UNCHANGED <<ledgerVars, partner, stamp>>

\* onPaymentSucceeded: the credits listener reads the announced payment ...
CreditPayment(h) ==
    /\ sync[h].announced
    /\ UNCHANGED <<paymentVars, partner, stamp, overtaken>>
    /\ Ledger!ReadPayment(h, sync[h].payment)

\* ... and runs to its end; it never looks at the payment again.
ContinueCredit(h) ==
    /\ UNCHANGED <<paymentVars, partner, stamp, overtaken>>
    /\ \/ Ledger!LookupCredit(h) \/ Ledger!BeginTx(h) \/ Ledger!CommitWithoutFunds(h)
       \/ Ledger!Commit(h) \/ Ledger!CommitWithoutRow(h) \/ Ledger!Abort(h)

OrdersOf(u) ==
    {p \in Payments : PaymentOwner[p] = u /\ doc[p].status # "absent"}

\* Mutant: only the payments that show PAID are counted.
CountPaidOrders(h) ==
    LET u == PaymentOwner[sync[h].payment] IN
    /\ sync[h].announced
    /\ partner[h] = "idle"
    /\ partner' = [partner EXCEPT ![h] =
                      IF {p \in OrdersOf(u) : doc[p].status = "PAID"} \subseteq {sync[h].payment}
                      THEN "first" ELSE "later"]
    /\ UNCHANGED <<paymentVars, ledgerVars, stamp, overtaken>>

\* The partner listener counts the account's payments, paid or not.
CountOrders(h) ==
    /\ sync[h].announced
    /\ partner[h] = "idle"
    /\ partner' = [partner EXCEPT ![h] =
                      IF OrdersOf(PaymentOwner[sync[h].payment]) \subseteq {sync[h].payment}
                      THEN "first" ELSE "later"]
    /\ UNCHANGED <<paymentVars, ledgerVars, stamp, overtaken>>

\* A count that fails is 1.
CountFails(h) ==
    /\ sync[h].announced
    /\ partner[h] = "idle"
    /\ partner' = [partner EXCEPT ![h] = "guess"]
    /\ UNCHANGED <<paymentVars, ledgerVars, stamp, overtaken>>

\* A first order: updateById with the order's roles.  fromDtoToSchema turns the
\* accountFunds the update does not have into 0, which is written too.
StampFirstOrder(h) ==
    LET u == PaymentOwner[sync[h].payment] IN
    /\ partner[h] \in {"first", "guess"}
    /\ ~Ledger!Locked(u)
    /\ funds' = [funds EXCEPT ![u] = 0]
    /\ stamp' = [stamp EXCEPT ![u] = sync[h].payment]
    /\ partner' = [partner EXCEPT ![h] = IF @ = "first" THEN "stamped" ELSE "guessed"]
    /\ UNCHANGED <<paymentVars, rows, items, task, overtaken>>

PartnerStepOf(h) == CountOrders(h) \/ CountFails(h) \/ StampFirstOrder(h)

Next ==
    \/ PaymentStep
    \/ \E h \in Syncs : \/ CreditPayment(h) \/ ContinueCredit(h)
                        \/ PartnerStepOf(h)

Spec == Init /\ [][Next]_vars

-----------------------------------------------------------------------------
(* Properties.                                                             *)

(***************************************************************************)
(* Every credit row of a payment has a charge that was paid behind it: no  *)
(* order of webhooks, purchases and listeners gives credits for nothing.   *)
(***************************************************************************)
CreditsComeFromPaidCharges ==
    \A p \in Payments : Ledger!CreditedRows(p) # {} => Sync!HasBeenPaid(p)

Finished(h) == task[h].pc \in {"done", "rejected"}

(***************************************************************************)
(* A payment that shows PAID, and always has since it first did, has its   *)
(* credits once the listeners of its announcements have finished (one that *)
(* is aborted, moves nothing or commits without a row never finishes): no  *)
(* listener drops it because another one, or another payment, was quicker. *)
(***************************************************************************)
PaidIsCredited ==
    \A p \in PaidPayments \ overtaken :
       \/ Ledger!CreditedRows(p) # {}
       \/ \E h \in Syncs : sync[h].payment = p /\ sync[h].pc = "notify"
       \/ \E h \in Syncs : sync[h].payment = p /\ sync[h].announced /\ ~Finished(h)

(***************************************************************************)
(* An account has one first order: the stamp of a payment is never that of *)
(* another one afterwards, however the listeners overlap and whatever      *)
(* becomes of the payments, unless a listener could not count and guessed. *)
(***************************************************************************)
OneFirstOrder ==
    [][\A u \in Users : stamp[u] # NoPayment /\ stamp'[u] # stamp[u] =>
          \E h \in Syncs : /\ PaymentOwner[sync[h].payment] = u
                           /\ partner'[h] = "guessed"]_vars

(***************************************************************************)
(* What the test 'Adding credits for paid payment owner' expects: the      *)
(* funds are the credits that were added.                                  *)
(***************************************************************************)
CreditsStayInFunds == Ledger!FundsAreExplained

=============================================================================
