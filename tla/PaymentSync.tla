----------------------------- MODULE PaymentSync -----------------------------
(***************************************************************************)
(* A payment document and its charge at the payment gateway (data/support/ *)
(* payment).  A purchase inserts the document, asks the gateway for a      *)
(* charge and stores the charge's reference in the document.  The gateway  *)
(* reports changes of the charge with payment_updated webhooks, each of    *)
(* which starts a synchronisation: find the document, fetch the charge,    *)
(* write the document, announce PaymentSucceeded.  A listener of that      *)
(* event, createNfe, has an invoice issued and stores its id in the        *)
(* document.                                                               *)
(*                                                                         *)
(* A webhook may be repeated, late or lost: a synchronisation may start    *)
(* whenever the charge exists.  Purchases, synchronisations and listeners  *)
(* are chains of awaits, interleave at every step, and one that never      *)
(* moves again is one that failed or whose process died.  All three write  *)
(* back the whole document they read.                                      *)
(***************************************************************************)
EXTENDS Naturals, FiniteSets

CONSTANTS
    Payments,      \* payment documents, each with one charge at the gateway
    Syncs,         \* synchronisations, one for each webhook received
    Outcomes,      \* the states charges move to once they are pending
    Providers      \* whether a charge that is fetched names the gateway's provider

Statuses == {"PENDING", "PAID", "UNPAID"}

ChargeStates == {"none", "pending", "cancelling", "cancelled", "unpaid", "paid",
                 "refunding", "refunded"}

ASSUME PaymentsAssumption ==
    /\ Payments # {}
    /\ Outcomes \subseteq ChargeStates
    /\ Providers \subseteq BOOLEAN

References == {"none", "charge", "gateway"}  \* "gateway": the id at the gateway's own provider

VARIABLES
    doc,           \* the document of each payment, "absent" before its insert
    charge,        \* what the gateway holds for the payment
    buy,           \* how far the purchase of each payment is
    sync,          \* the synchronisations
    invoice        \* the createNfe that each announcement starts

vars == <<doc, charge, buy, sync, invoice>>

Doc == [status : Statuses \cup {"absent"}, ref : References, chargeId : References,
        gateway : {"UNKNOWN", "ARC"}]

Sync == [payment : Payments, pc : {"idle", "claim", "fetch", "write", "notify", "done"},
         read : Doc, fetched : Statuses, provider : BOOLEAN,
         wrote : Statuses, announced : BOOLEAN]

Invoice == [pc : {"idle", "write", "written", "refused"}, read : Doc]

TypeOK ==
    /\ doc \in [Payments -> Doc]
    /\ charge \in [Payments -> ChargeStates]
    /\ buy \in [Payments -> {"new", "request", "store", "done", "failed"}]
    /\ sync \in [Syncs -> Sync]
    /\ invoice \in [Syncs -> Invoice]

NoDoc == [status |-> "absent", ref |-> "none", chargeId |-> "none", gateway |-> "UNKNOWN"]

\* Mutant: a refunded charge has a status of its own.
RefundedStatus(state) ==
    CASE state = "paid" -> "PAID"
      [] state \in {"cancelled", "unpaid"} -> "UNPAID"
      [] state = "refunded" -> "REFUNDED"
      [] OTHER -> "PENDING"

\* Mutant: a charge that did not fail counts as paid.
PaidUnlessFailed(state) ==
    IF state \in {"cancelled", "refunded", "unpaid"} THEN "UNPAID" ELSE "PAID"

\* _mapExternalStatusToInternalStatus
InternalStatus(state) ==
    CASE state = "paid" -> "PAID"
      [] state \in {"cancelled", "refunded", "unpaid"} -> "UNPAID"
      [] OTHER -> "PENDING"

\* paymentStatusTransitionRule, with self transitions
AllowedTransition(before, next) == before = next \/ before = "PENDING"

-----------------------------------------------------------------------------
(* A purchase with credit card, pix or bank slip.                          *)

\* CreateInternalPayment inserts the document with the schema's defaults.
Insert(p) ==
    /\ buy[p] = "new"
    /\ doc' = [doc EXCEPT ![p].status = "PENDING"]
    /\ buy' = [buy EXCEPT ![p] = "request"]
    /\ UNCHANGED <<charge, sync, invoice>>

\* The gateway creates the charge; its answer may get lost (a timeout is
\* ProviderUnavailableDomainError and ends the purchase).
RequestCharge(p) ==
    /\ buy[p] = "request"
    /\ charge' = [charge EXCEPT ![p] = "pending"]
    /\ buy' = [buy EXCEPT ![p] = "store"] \/ buy' = [buy EXCEPT ![p] = "failed"]
    /\ UNCHANGED <<doc, sync, invoice>>

\* The gateway is unavailable or refuses the charge; the document stays.
ChargeRefused(p) ==
    /\ buy[p] = "request"
    /\ buy' = [buy EXCEPT ![p] = "failed"]
    /\ UNCHANGED <<doc, charge, sync, invoice>>

\* Mutant: the reference is stored without the gateway that issued it.
StoreWithoutGateway(p) ==
    /\ buy[p] = "store"
    /\ doc' = [doc EXCEPT ![p].status = "PENDING", ![p].ref = "charge",
                          ![p].gateway = "UNKNOWN"]
    /\ buy' = [buy EXCEPT ![p] = "done"]
    /\ UNCHANGED <<charge, sync, invoice>>

\* insertExternalPaymentId writes the document as it was inserted, with the
\* reference: the status too.  A null charge id is dropped from the update.
StoreReference(p) ==
    /\ buy[p] = "store"
    /\ doc' = [doc EXCEPT ![p].status = "PENDING", ![p].ref = "charge",
                          ![p].gateway = "ARC"]
    /\ buy' = [buy EXCEPT ![p] = "done"]
    /\ UNCHANGED <<charge, sync, invoice>>

\* The gateway's own steps: the user pays, the charge expires or is cancelled,
\* the administrator refunds it.
ChargeMoves(p) ==
    /\ \E next \in Outcomes :
          /\ \/ charge[p] = "pending" /\ next \in {"paid", "unpaid", "cancelling"}
             \/ charge[p] = "cancelling" /\ next = "cancelled"
             \/ charge[p] = "paid" /\ next = "refunding"
             \/ charge[p] = "refunding" /\ next = "refunded"
          /\ charge' = [charge EXCEPT ![p] = next]
    /\ UNCHANGED <<doc, buy, sync, invoice>>

-----------------------------------------------------------------------------
(* syncWithExternalReference.                                              *)

\* getByExternalReferenceGateway finds the document by its reference, or by its
\* charge id while it has no reference.
FoundByReference(d) ==
    /\ d.gateway = "ARC"
    /\ \/ d.ref = "charge"
       \/ d.ref = "none" /\ d.chargeId = "charge"

\* Mutant: the charge id comes before the reference.
ChargeIdFirst(d) == IF d.chargeId # "none" THEN d.chargeId ELSE d.ref

\* What fetchPayment is asked for.
Reference(d) == IF d.ref # "none" THEN d.ref ELSE d.chargeId

Goto(h, pc) == sync' = [sync EXCEPT ![h].pc = pc]

Receive(h, p) ==
    /\ sync[h].pc = "idle"
    /\ charge[p] # "none"
    /\ sync' = [sync EXCEPT ![h].payment = p, ![h].read = doc[p],
                            ![h].pc = IF FoundByReference(doc[p]) THEN "fetch" ELSE "claim"]
    /\ UNCHANGED <<doc, charge, buy, invoice>>

\* No document has the reference: the webhook's idempotence is the document's
\* id, and updateById of the gateway and the charge id returns it as it is now.
Claim(h) ==
    LET p == sync[h].payment IN
    /\ sync[h].pc = "claim"
    /\ doc' = [doc EXCEPT ![p].gateway = "ARC", ![p].chargeId = "charge"]
    /\ sync' = [sync EXCEPT ![h].read = doc'[p], ![h].pc = "fetch"]
    /\ UNCHANGED <<charge, buy, invoice>>

\* The charge is read; current_gateway may be null.
Fetch(h) ==
    /\ sync[h].pc = "fetch"
    /\ \E known \in Providers :
          sync' = [sync EXCEPT ![h].fetched = InternalStatus(charge[sync[h].payment]),
                               ![h].provider = known, ![h].pc = "write"]
    /\ UNCHANGED <<doc, charge, buy, invoice>>

\* Mutant: the transition rule is not consulted.
FetchedStatus(h) == sync[h].fetched

NextStatus(h) == IF AllowedTransition(sync[h].read.status, sync[h].fetched)
                 THEN sync[h].fetched
                 ELSE sync[h].read.status

\* _modifyInternalPaymentWithExternal: the document as it was read, changed.
Written(h) ==
    LET read == sync[h].read IN
    [status |-> NextStatus(h), gateway |-> "ARC", ref |-> Reference(read),
     chargeId |-> IF sync[h].provider THEN "gateway" ELSE read.chargeId]

\* updateBy drops the fields that are null: they keep their value in the database.
Updated(old, dto) ==
    [dto EXCEPT !.ref = IF @ = "none" THEN old.ref ELSE @,
                !.chargeId = IF @ = "none" THEN old.chargeId ELSE @]

Write(h) ==
    /\ sync[h].pc = "write"
    /\ doc' = [doc EXCEPT ![sync[h].payment] = Updated(@, Written(h))]
    /\ sync' = [sync EXCEPT ![h].wrote = Written(h).status, ![h].pc = "notify"]
    /\ UNCHANGED <<charge, buy, invoice>>

\* Mutant: the announcement compares the status with the document's status now.
AnnouncesOnFresh(h) ==
    sync[h].wrote = "PAID" /\ doc[sync[h].payment].status # "PAID"

\* Mutant: every first change of the status is announced.
AnnouncesAnyChange(h) == sync[h].read.status # "PAID"

\* _notifyIfPaymentSucceeded compares with the status that was read.
Announces(h) == sync[h].wrote = "PAID" /\ sync[h].read.status # "PAID"

Notify(h) ==
    /\ sync[h].pc = "notify"
    /\ sync' = [sync EXCEPT ![h].announced = Announces(h), ![h].pc = "done"]
    /\ UNCHANGED <<doc, charge, buy, invoice>>

-----------------------------------------------------------------------------
(* createNfe, a listener of PaymentSucceeded.                              *)

\* The document has an nfeId: the only write of it, and no write clears it.
HasNfe(p) == \E h \in Syncs : sync[h].payment = p /\ invoice[h].pc = "written"

\* The announced payment is read; one not PAID, or with an invoice, is refused.
ReadForNfe(h) ==
    LET p == sync[h].payment IN
    /\ sync[h].announced
    /\ invoice[h].pc = "idle"
    /\ invoice' = [invoice EXCEPT ![h] =
                      IF doc[p].status = "PAID" /\ ~HasNfe(p)
                      THEN [pc |-> "write", read |-> doc[p]]
                      ELSE [pc |-> "refused", read |-> NoDoc]]
    /\ UNCHANGED <<doc, charge, buy, sync>>

\* The invoice is issued and stored, and updateById writes the document as it was
\* read, with the invoice's id.
WriteNfe(h) ==
    /\ invoice[h].pc = "write"
    /\ doc' = [doc EXCEPT ![sync[h].payment] = Updated(@, invoice[h].read)]
    /\ invoice' = [invoice EXCEPT ![h] = [pc |-> "written", read |-> NoDoc]]
    /\ UNCHANGED <<charge, buy, sync>>

-----------------------------------------------------------------------------

Init ==
    /\ doc = [p \in Payments |-> NoDoc]
    /\ charge = [p \in Payments |-> "none"]
    /\ buy = [p \in Payments |-> "new"]
    /\ sync = [h \in Syncs |->
                  [payment |-> CHOOSE p \in Payments : TRUE, pc |-> "idle",
                   read |-> NoDoc, fetched |-> "PENDING", provider |-> FALSE,
                   wrote |-> "PENDING", announced |-> FALSE]]
    /\ invoice = [h \in Syncs |-> [pc |-> "idle", read |-> NoDoc]]

SyncStep(h) ==
    \/ \E p \in Payments : Receive(h, p)
    \/ Claim(h) \/ Fetch(h) \/ Write(h) \/ Notify(h)

BuyStep(p) ==
    Insert(p) \/ RequestCharge(p) \/ ChargeRefused(p) \/ StoreReference(p) \/ ChargeMoves(p)

InvoiceStep(h) == ReadForNfe(h) \/ WriteNfe(h)

Next ==
    \/ \E p \in Payments : BuyStep(p)
    \/ \E h \in Syncs : SyncStep(h) \/ InvoiceStep(h)

Spec == Init /\ [][Next]_vars

-----------------------------------------------------------------------------
(* Properties.                                                             *)

HasBeenPaid(p) == charge[p] \in {"paid", "refunding", "refunded"}

(***************************************************************************)
(* A document shows PAID only if its charge was paid, and PaymentSucceeded *)
(* is announced only for such a payment, whatever webhooks are repeated,   *)
(* late or overtaken by the purchase's own write.                          *)
(***************************************************************************)
PaidIsBacked ==
    /\ \A p \in Payments : doc[p].status = "PAID" => HasBeenPaid(p)
    /\ \A h \in Syncs : sync[h].announced => HasBeenPaid(sync[h].payment)

(***************************************************************************)
(* A document that shows PAID was announced, or a synchronisation that     *)
(* read it before it was PAID is about to announce it: two overlapping     *)
(* synchronisations never each leave the announcement to the other.        *)
(***************************************************************************)
PaidIsAnnounced ==
    \A p \in Payments : doc[p].status = "PAID" =>
       \E h \in Syncs : /\ sync[h].payment = p
                        /\ \/ sync[h].announced
                           \/ sync[h].pc = "notify" /\ Announces(h)

(***************************************************************************)
(* fetchPayment is always asked for the charge, never for nothing or for   *)
(* the id of the gateway's provider, although the charge id changes its    *)
(* meaning when the document is first written.                             *)
(***************************************************************************)
AsksForTheCharge ==
    \A h \in Syncs : sync[h].pc \in {"fetch", "write"} => Reference(sync[h].read) = "charge"

(***************************************************************************)
(* Once a webhook finds the document by its reference, every later webhook *)
(* does, whichever of the purchase, the synchronisations and the invoices  *)
(* writes last.                                                            *)
(***************************************************************************)
StaysFound ==
    [][\A p \in Payments : FoundByReference(doc[p]) => FoundByReference(doc[p])']_vars

\* This step writes back a copy of p's document whose status another write has
\* overtaken: the purchase's, a synchronisation's or createNfe's.
StaleWrite(p) ==
    \/ buy[p] = "store" /\ buy'[p] = "done" /\ doc[p].status # "PENDING"
    \/ \E h \in Syncs : /\ sync[h].pc = "write" /\ sync'[h].pc = "notify"
                        /\ sync[h].payment = p
                        /\ sync[h].read.status # doc[p].status
    \/ \E h \in Syncs : /\ invoice[h].pc = "write" /\ invoice'[h].pc = "written"
                        /\ sync[h].payment = p
                        /\ invoice[h].read.status # doc[p].status

(***************************************************************************)
(* A document that was inserted changes its status as                      *)
(* paymentStatusTransitionRule allows (PAID and UNPAID are final), unless  *)
(* that very step writes back a copy that another write has overtaken.     *)
(***************************************************************************)
OnlyStaleWritesBreakTheRule ==
    [][\A p \in Payments :
          \/ doc[p].status = "absent"
          \/ AllowedTransition(doc[p].status, doc'[p].status)
          \/ StaleWrite(p)]_vars

(***************************************************************************)
(* What the test 'Sync payment status but paid payment is reset to         *)
(* pending' expects: a document that shows PAID goes on showing it.        *)
(***************************************************************************)
PaidStaysPaid ==
    [][\A p \in Payments : doc[p].status = "PAID" => doc'[p].status = "PAID"]_vars

=============================================================================
