-------------------------- MODULE PaymentSyncProofs --------------------------
(***************************************************************************)
(* The safety properties of PaymentSync, for any number of payments and of *)
(* synchronisations.                                                       *)
(*                                                                         *)
(* TypeOK and StartInv (what has not started holds its initial values) are *)
(* inductive together.  ReferenceInv adds what the two references of a     *)
(* document may be; BackedInv and AnnouncedInv add what the copies held by *)
(* the synchronisations imply.  Each is inductive given the ones before.   *)
(***************************************************************************)
EXTENDS PaymentSync, TLAPS

\* A purchase that has not asked for its charge has none, one that has not
\* started has no document, an idle synchronisation holds nothing and one that
\* started is of a charge, and so of a document, that exists.  An invoice is of an
\* announced payment, and is written beside a copy that shows PAID.
StartInv ==
    /\ \A p \in Payments : /\ buy[p] \in {"new", "request"} => charge[p] = "none"
                           /\ buy[p] = "new" <=> doc[p].status = "absent"
    /\ \A h \in Syncs :
          /\ sync[h].pc = "idle" => sync[h].fetched = "PENDING" /\ sync[h].wrote = "PENDING"
          /\ sync[h].pc # "idle" => /\ sync[h].read.status # "absent"
                                   /\ charge[sync[h].payment] # "none"
          /\ sync[h].announced => sync[h].pc = "done"
          /\ invoice[h].pc # "idle" => sync[h].announced
          /\ invoice[h].pc = "write" => invoice[h].read.status = "PAID"

ReferenceOf(d) ==
    /\ d.ref \in {"none", "charge"}
    /\ d.chargeId = "gateway" => d.ref = "charge"

ReferenceOfPaid(d) == d.status = "PAID" => d.ref = "charge" /\ d.gateway = "ARC"

\* The provider's id is in a document only beside the charge's own reference, which
\* is in every document that shows PAID, and in the copies createNfe writes back.
ReferenceInv ==
    /\ \A p \in Payments : ReferenceOf(doc[p]) /\ ReferenceOfPaid(doc[p])
    /\ \A h \in Syncs : invoice[h].pc = "write" => ReferenceOfPaid(invoice[h].read)
    /\ AsksForTheCharge

\* Whoever holds PAID, holds it of a charge that was paid.
BackedInv ==
    /\ PaidIsBacked
    /\ \A h \in Syncs : \/ sync[h].pc # "idle" /\ sync[h].read.status = "PAID"
                        \/ sync[h].fetched = "PAID"
                        \/ sync[h].wrote = "PAID"
                        => HasBeenPaid(sync[h].payment)

AnnouncedFor(p) ==
    \E h \in Syncs : /\ sync[h].payment = p
                     /\ \/ sync[h].announced
                        \/ sync[h].pc = "notify" /\ Announces(h)

\* Whoever read PAID, read it of a payment that was or will be announced.
AnnouncedInv ==
    /\ \A p \in Payments : doc[p].status = "PAID" => AnnouncedFor(p)
    /\ \A h \in Syncs : sync[h].pc # "idle" /\ sync[h].read.status = "PAID"
                        => AnnouncedFor(sync[h].payment)

\* The document that Write leaves.
Stored(h) == Updated(doc[sync[h].payment], Written(h))

-----------------------------------------------------------------------------
(* Types.                                                                  *)

(* An update of one synchronisation by a record of the right type.         *)
LEMMA SyncType ==
    ASSUME sync \in [Syncs -> Sync], NEW h \in Syncs, NEW t \in Sync
    PROVE  [sync EXCEPT ![h] = t] \in [Syncs -> Sync]
  OBVIOUS

(* The gateway's states map to the program's three statuses.               *)
LEMMA StatusType == \A state : InternalStatus(state) \in Statuses
  BY DEF InternalStatus, Statuses

(* TypeOK and StartInv hold at the start ...                               *)
LEMMA TypeInit == Init => TypeOK /\ StartInv
<1> SUFFICES ASSUME Init PROVE TypeOK /\ StartInv
  OBVIOUS
<1>1. (CHOOSE p \in Payments : TRUE) \in Payments
  BY PaymentsAssumption
<1>2. TypeOK
  BY <1>1 DEF Init, TypeOK, NoDoc, Doc, Sync, Invoice, Statuses, References, ChargeStates
<1>3. StartInv
  BY DEF Init, StartInv, NoDoc
<1> QED  BY <1>2, <1>3

(* An update of one document by a document.                                *)
LEMMA DocType ==
    ASSUME doc \in [Payments -> Doc], NEW p \in Payments, NEW d \in Doc
    PROVE  [doc EXCEPT ![p] = d] \in [Payments -> Doc]
  OBVIOUS

(* ... and every step of a purchase or of the gateway keeps them.          *)
LEMMA TypeBuy ==
    ASSUME TypeOK, StartInv, NEW p \in Payments, BuyStep(p)
    PROVE  TypeOK' /\ StartInv'
<1> USE DEF TypeOK, StartInv
<1>0. \A h \in Syncs : sync[h].payment \in Payments
  BY DEF Sync
<1>1. CASE Insert(p)
  <2>1. doc[p] \in Doc
    OBVIOUS
  <2>2. [doc[p] EXCEPT !.status = "PENDING"] \in Doc
    BY <2>1 DEF Doc, Statuses
  <2>3. /\ doc' = [doc EXCEPT ![p] = [doc[p] EXCEPT !.status = "PENDING"]]
        /\ doc'[p].status = "PENDING"
    BY <1>1, <2>1 DEF Insert, Doc
  <2>4. TypeOK'
    BY <1>1, <2>2, <2>3, DocType DEF Insert
  <2>5. StartInv'
    BY <1>1, <2>3 DEF Insert
  <2> QED  BY <2>4, <2>5
<1>2. CASE RequestCharge(p)
  BY <1>0, <1>2 DEF RequestCharge, ChargeStates
<1>3. CASE ChargeRefused(p)
  BY <1>3 DEF ChargeRefused
<1>4. CASE StoreReference(p)
  <2> DEFINE d == [doc[p] EXCEPT !.status = "PENDING", !.ref = "charge", !.gateway = "ARC"]
  <2>1. doc[p] \in Doc
    OBVIOUS
  <2>2. d \in Doc
    BY <2>1 DEF Doc, Statuses, References
  <2>3. /\ doc' = [doc EXCEPT ![p] = d]
        /\ doc'[p].status = "PENDING"
    BY <1>4, <2>1 DEF StoreReference, Doc
  <2>4. TypeOK'
    BY <1>4, <2>2, <2>3, DocType DEF StoreReference
  <2>5. StartInv'
    BY <1>4, <2>3 DEF StoreReference
  <2> QED  BY <2>4, <2>5
<1>5. CASE ChargeMoves(p)
  BY <1>0, <1>5, PaymentsAssumption DEF ChargeMoves, ChargeStates
<1> QED  BY <1>1, <1>2, <1>3, <1>4, <1>5 DEF BuyStep

(* What a synchronisation writes is a document that exists.                *)
LEMMA WrittenType ==
    ASSUME TypeOK, StartInv, NEW h \in Syncs, sync[h].pc # "idle"
    PROVE  Written(h) \in Doc /\ Written(h).status \in Statuses
<1>1. /\ sync[h].read \in Doc
      /\ sync[h].read.status # "absent"
      /\ sync[h].fetched \in Statuses
  BY DEF TypeOK, StartInv, Sync
<1>2. NextStatus(h) \in Statuses
  BY <1>1 DEF NextStatus, Doc
<1>3. Reference(sync[h].read) \in References
  BY <1>1 DEF Reference, Doc
<1> QED  BY <1>1, <1>2, <1>3 DEF Written, Doc, References

(* The document that Write leaves is a document.                           *)
LEMMA WriteEffect ==
    ASSUME TypeOK, StartInv, NEW h \in Syncs, Write(h)
    PROVE  /\ Stored(h) \in Doc
           /\ Stored(h).status = NextStatus(h)
           /\ NextStatus(h) \in Statuses
           /\ Stored(h).gateway = "ARC"
           /\ Stored(h).ref = IF Reference(sync[h].read) = "none"
                              THEN doc[sync[h].payment].ref ELSE Reference(sync[h].read)
           /\ doc' = [doc EXCEPT ![sync[h].payment] = Stored(h)]
           /\ sync' \in [Syncs -> Sync]
           /\ \A g \in Syncs \ {h} : sync'[g] = sync[g]
           /\ sync'[h] = [sync[h] EXCEPT !.wrote = NextStatus(h), !.pc = "notify"]
<1> DEFINE p == sync[h].payment
<1>1. sync[h].pc = "write" /\ p \in Payments /\ sync[h] \in Sync
  BY DEF Write, TypeOK, Sync
<1>2. Written(h) \in Doc /\ Written(h).status \in Statuses
  BY <1>1, WrittenType
<1>3. doc[p] \in Doc
  BY <1>1 DEF TypeOK
<1>4. Stored(h) \in Doc
  BY <1>2, <1>3 DEF Stored, Updated, Doc
<1>5. /\ Stored(h).status = NextStatus(h)
      /\ Stored(h).gateway = "ARC"
      /\ Stored(h).ref = IF Reference(sync[h].read) = "none"
                         THEN doc[p].ref ELSE Reference(sync[h].read)
  BY <1>2, <1>3 DEF Stored, Updated, Written, Doc
<1>6. Written(h).status = NextStatus(h)
  BY DEF Written
<1>7. doc' = [doc EXCEPT ![p] = Stored(h)]
  BY DEF Write, Stored
<1>8. sync' = [sync EXCEPT ![h] = [@ EXCEPT !.wrote = NextStatus(h), !.pc = "notify"]]
  BY <1>6 DEF Write
<1>9. [sync[h] EXCEPT !.wrote = NextStatus(h), !.pc = "notify"] \in Sync
  BY <1>1, <1>2, <1>6 DEF Sync
<1>10. sync' \in [Syncs -> Sync]
  BY <1>8, <1>9, SyncType DEF TypeOK
<1>11. /\ \A g \in Syncs \ {h} : sync'[g] = sync[g]
       /\ sync'[h] = [sync[h] EXCEPT !.wrote = NextStatus(h), !.pc = "notify"]
  BY <1>8 DEF TypeOK
<1> QED  BY <1>2, <1>4, <1>5, <1>6, <1>7, <1>10, <1>11

(* Receive copies the document of a charge that exists.                    *)
LEMMA ReceiveEffect ==
    ASSUME TypeOK, StartInv, NEW h \in Syncs, NEW p \in Payments, Receive(h, p)
    PROVE  /\ sync' \in [Syncs -> Sync]
           /\ \A g \in Syncs \ {h} : sync'[g] = sync[g]
           /\ sync'[h] = [sync[h] EXCEPT !.payment = p, !.read = doc[p],
                             !.pc = IF FoundByReference(doc[p]) THEN "fetch" ELSE "claim"]
           /\ sync'[h].payment = p
           /\ sync'[h].read = doc[p]
           /\ sync'[h].pc = IF FoundByReference(doc[p]) THEN "fetch" ELSE "claim"
           /\ sync'[h].fetched = sync[h].fetched
           /\ sync'[h].wrote = sync[h].wrote
           /\ sync'[h].announced = sync[h].announced
<1> DEFINE t == [sync[h] EXCEPT !.payment = p, !.read = doc[p],
                    !.pc = IF FoundByReference(doc[p]) THEN "fetch" ELSE "claim"]
<1>1. sync[h] \in Sync /\ doc[p] \in Doc
  BY DEF TypeOK
<1>2. t \in Sync
  BY <1>1 DEF Sync
<1>3. sync' = [sync EXCEPT ![h] = t]
  BY DEF Receive
<1>4. sync' \in [Syncs -> Sync]
  BY <1>2, <1>3, SyncType DEF TypeOK
<1>5. sync'[h] = t /\ \A g \in Syncs \ {h} : sync'[g] = sync[g]
  BY <1>3 DEF TypeOK
<1> QED  BY <1>1, <1>4, <1>5 DEF Sync

(* Claim gives the document its gateway and its charge id, and copies it.  *)
LEMMA ClaimEffect ==
    ASSUME TypeOK, StartInv, NEW h \in Syncs, Claim(h)
    PROVE  LET p == sync[h].payment
               d == [doc[p] EXCEPT !.gateway = "ARC", !.chargeId = "charge"]
           IN  /\ p \in Payments
               /\ d \in Doc
               /\ d.status = doc[p].status /\ d.ref = doc[p].ref
               /\ d.gateway = "ARC" /\ d.chargeId = "charge"
               /\ doc' = [doc EXCEPT ![p] = d]
               /\ sync' \in [Syncs -> Sync]
               /\ \A g \in Syncs \ {h} : sync'[g] = sync[g]
               /\ sync'[h] = [sync[h] EXCEPT !.read = d, !.pc = "fetch"]
<1> DEFINE p == sync[h].payment
           d == [doc[p] EXCEPT !.gateway = "ARC", !.chargeId = "charge"]
           t == [sync[h] EXCEPT !.read = d, !.pc = "fetch"]
<1>1. sync[h] \in Sync /\ p \in Payments
  BY DEF TypeOK, Sync
<1>2. doc[p] \in Doc
  BY <1>1 DEF TypeOK
<1>3. /\ d \in Doc
      /\ d.status = doc[p].status /\ d.ref = doc[p].ref
      /\ d.gateway = "ARC" /\ d.chargeId = "charge"
  BY <1>2 DEF Doc, References
<1>4. doc' = [doc EXCEPT ![p] = d]
  BY DEF Claim
<1>5. doc'[p] = d
  BY <1>1, <1>4 DEF TypeOK
<1>6. t \in Sync
  BY <1>1, <1>3 DEF Sync
<1>7. sync' = [sync EXCEPT ![h] = t]
  BY <1>5 DEF Claim
<1>8. sync' \in [Syncs -> Sync]
  BY <1>6, <1>7, SyncType DEF TypeOK
<1>9. sync'[h] = t /\ \A g \in Syncs \ {h} : sync'[g] = sync[g]
  BY <1>7 DEF TypeOK
<1> QED  BY <1>1, <1>3, <1>4, <1>8, <1>9

(* Every step of a synchronisation keeps the types and StartInv.           *)
LEMMA TypeSync ==
    ASSUME TypeOK, StartInv, NEW h \in Syncs, SyncStep(h)
    PROVE  TypeOK' /\ StartInv'
<1>0. sync[h] \in Sync /\ \A g \in Syncs : sync[g].payment \in Payments
  BY DEF TypeOK, Sync
<1>1. ASSUME NEW p \in Payments, Receive(h, p) PROVE TypeOK' /\ StartInv'
  <2>1. /\ doc' = doc /\ charge' = charge /\ buy' = buy /\ invoice' = invoice
        /\ charge[p] # "none" /\ doc[p].status # "absent"
        /\ sync[h].pc = "idle"
    BY <1>1 DEF Receive, StartInv
  <2>2. TypeOK'
    BY <1>1, <2>1, ReceiveEffect DEF TypeOK
  <2>3. /\ \A g \in Syncs \ {h} : sync'[g] = sync[g]
        /\ sync'[h].pc # "idle" /\ sync'[h].payment = p /\ sync'[h].read = doc[p]
        /\ sync'[h].announced = sync[h].announced
    BY <1>1, ReceiveEffect
  <2>4. ~sync[h].announced
    BY <2>1 DEF StartInv
  <2>5. StartInv'
    BY <2>1, <2>3, <2>4 DEF StartInv
  <2> QED  BY <2>2, <2>5
<1>2. CASE Claim(h)
  <2> DEFINE p == sync[h].payment
             d == [doc[p] EXCEPT !.gateway = "ARC", !.chargeId = "charge"]
  <2>1. /\ charge' = charge /\ buy' = buy /\ invoice' = invoice /\ sync[h].pc = "claim"
    BY <1>2 DEF Claim
  <2>a. /\ p \in Payments /\ d \in Doc /\ d.status = doc[p].status
        /\ doc' = [doc EXCEPT ![p] = d]
        /\ sync' \in [Syncs -> Sync]
        /\ \A g \in Syncs \ {h} : sync'[g] = sync[g]
        /\ sync'[h] = [sync[h] EXCEPT !.read = d, !.pc = "fetch"]
    BY <1>2, ClaimEffect
  <2>2. TypeOK'
    BY <2>a, <2>1, DocType DEF TypeOK
  <2>3. /\ charge[p] # "none" /\ doc[p].status # "absent"
        /\ ~sync[h].announced
    BY <1>0, <2>1 DEF StartInv
  <2>4. \A q \in Payments : doc'[q].status = doc[q].status
    BY <2>a DEF TypeOK
  <2>5. /\ \A g \in Syncs \ {h} : sync'[g] = sync[g]
        /\ sync'[h].read.status = doc[p].status
        /\ sync'[h].payment = p /\ sync'[h].pc = "fetch"
        /\ sync'[h].announced = sync[h].announced
    BY <1>0, <2>a DEF Sync
  <2>6. StartInv'
    BY <2>1, <2>3, <2>4, <2>5 DEF StartInv
  <2> QED  BY <2>2, <2>6
<1>3. CASE Fetch(h)
  <2>1. PICK known \in Providers :
           sync' = [sync EXCEPT ![h] = [@ EXCEPT !.fetched = InternalStatus(charge[sync[h].payment]),
                                                 !.provider = known, !.pc = "write"]]
    BY <1>3 DEF Fetch
  <2> DEFINE t == [sync[h] EXCEPT !.fetched = InternalStatus(charge[sync[h].payment]),
                                  !.provider = known, !.pc = "write"]
  <2>2. t \in Sync
    BY <1>0, StatusType, PaymentsAssumption DEF Sync
  <2>3. /\ doc' = doc /\ charge' = charge /\ buy' = buy /\ invoice' = invoice
        /\ sync[h].pc = "fetch"
    BY <1>3 DEF Fetch
  <2>4. TypeOK'
    BY <2>1, <2>2, <2>3, SyncType DEF TypeOK
  <2>5. /\ \A g \in Syncs \ {h} : sync'[g] = sync[g]
        /\ sync'[h].read = sync[h].read /\ sync'[h].payment = sync[h].payment
        /\ sync'[h].pc = "write" /\ sync'[h].announced = sync[h].announced
    BY <1>0, <2>1 DEF TypeOK, Sync
  <2>6. StartInv'
    BY <2>3, <2>5 DEF StartInv
  <2> QED  BY <2>4, <2>6
<1>4. CASE Write(h)
  <2> DEFINE p == sync[h].payment
  <2>1. /\ charge' = charge /\ buy' = buy /\ invoice' = invoice /\ sync[h].pc = "write"
    BY <1>4 DEF Write
  <2>2. /\ Stored(h) \in Doc /\ Stored(h).status \in Statuses
        /\ doc' = [doc EXCEPT ![p] = Stored(h)]
        /\ sync' \in [Syncs -> Sync]
        /\ \A g \in Syncs \ {h} : sync'[g] = sync[g]
        /\ sync'[h] = [sync[h] EXCEPT !.wrote = NextStatus(h), !.pc = "notify"]
    BY <1>4, WriteEffect
  <2>3. TypeOK'
    BY <1>0, <2>1, <2>2, DocType DEF TypeOK
  <2>4. /\ doc'[p].status # "absent"
        /\ \A q \in Payments \ {p} : doc'[q] = doc[q]
    BY <1>0, <2>2 DEF TypeOK, Statuses
  <2>5. /\ sync'[h].read = sync[h].read /\ sync'[h].payment = p
        /\ sync'[h].pc = "notify" /\ sync'[h].announced = sync[h].announced
    BY <1>0, <2>2 DEF Sync
  <2>6. charge[p] # "none" /\ buy[p] # "new"
    BY <1>0, <2>1 DEF StartInv
  <2>7. \A q \in Payments : /\ buy[q] \in {"new", "request"} => charge[q] = "none"
                            /\ buy[q] = "new" <=> doc'[q].status = "absent"
    <3> SUFFICES ASSUME NEW q \in Payments
                 PROVE  /\ buy[q] \in {"new", "request"} => charge[q] = "none"
                        /\ buy[q] = "new" <=> doc'[q].status = "absent"
      OBVIOUS
    <3>1. CASE q = p
      BY <2>4, <2>6, <3>1 DEF StartInv
    <3>2. CASE q # p
      BY <2>4, <3>2 DEF StartInv
    <3> QED  BY <3>1, <3>2
  <2>8. \A g \in Syncs :
          /\ sync'[g].pc = "idle" => sync'[g].fetched = "PENDING" /\ sync'[g].wrote = "PENDING"
          /\ sync'[g].pc # "idle" => /\ sync'[g].read.status # "absent"
                                    /\ charge[sync'[g].payment] # "none"
          /\ sync'[g].announced => sync'[g].pc = "done"
          /\ invoice'[g].pc # "idle" => sync'[g].announced
          /\ invoice'[g].pc = "write" => invoice'[g].read.status = "PAID"
    <3>1. /\ sync'[h].read.status # "absent" /\ ~sync'[h].announced
          /\ charge[sync'[h].payment] # "none" /\ sync'[h].pc # "idle"
      BY <2>1, <2>5, <2>6 DEF StartInv
    <3>2. \A g \in Syncs \ {h} : sync'[g] = sync[g]
      BY <2>2
    <3> QED  BY <2>1, <2>5, <3>1, <3>2 DEF StartInv
  <2>9. StartInv'
    BY <2>1, <2>7, <2>8 DEF StartInv
  <2> QED  BY <2>3, <2>9
<1>5. CASE Notify(h)
  <2>1. /\ doc' = doc /\ charge' = charge /\ buy' = buy /\ invoice' = invoice
        /\ sync[h].pc = "notify"
        /\ sync' = [sync EXCEPT ![h] = [@ EXCEPT !.announced = Announces(h), !.pc = "done"]]
    BY <1>5 DEF Notify
  <2>2. [sync[h] EXCEPT !.announced = Announces(h), !.pc = "done"] \in Sync
    BY <1>0 DEF Sync, Announces
  <2>3. TypeOK'
    BY <2>1, <2>2, SyncType DEF TypeOK
  <2>4. /\ \A g \in Syncs \ {h} : sync'[g] = sync[g]
        /\ sync'[h].read = sync[h].read /\ sync'[h].payment = sync[h].payment
        /\ sync'[h].pc = "done"
    BY <1>0, <2>1 DEF TypeOK, Sync
  <2>5. StartInv'
    BY <2>1, <2>4 DEF StartInv
  <2> QED  BY <2>3, <2>5
<1> QED  BY <1>1, <1>2, <1>3, <1>4, <1>5 DEF SyncStep

(* An invoice's step is of a synchronisation that announced, and either    *)
(* reads the document or writes back a copy of it that showed PAID.        *)
LEMMA InvoiceEffect ==
    ASSUME TypeOK, StartInv, NEW h \in Syncs, InvoiceStep(h)
    PROVE  /\ sync' = sync /\ charge' = charge /\ buy' = buy
           /\ sync[h].payment \in Payments /\ sync[h].announced
           /\ invoice' \in [Syncs -> Invoice] /\ invoice'[h].pc # "idle"
           /\ \A g \in Syncs \ {h} : invoice'[g] = invoice[g]
           /\ \/ /\ doc' = doc
                 /\ invoice'[h].pc = "write" =>
                       /\ invoice'[h].read = doc[sync[h].payment]
                       /\ invoice'[h].read.status = "PAID"
              \/ /\ invoice[h].pc = "write" /\ invoice'[h].pc = "written"
                 /\ Updated(doc[sync[h].payment], invoice[h].read) \in Doc
                 /\ Updated(doc[sync[h].payment], invoice[h].read).status = "PAID"
                 /\ doc' = [doc EXCEPT ![sync[h].payment] = Updated(@, invoice[h].read)]
<1> DEFINE p == sync[h].payment
<1>1. /\ sync[h] \in Sync /\ p \in Payments /\ doc[p] \in Doc
      /\ invoice[h] \in Invoice /\ invoice[h].read \in Doc
  BY DEF TypeOK, Sync, Invoice
<1>2. NoDoc \in Doc
  BY DEF NoDoc, Doc, Statuses, References
<1>3. CASE ReadForNfe(h)
  <2>1. PICK i \in Invoice : /\ invoice' = [invoice EXCEPT ![h] = i]
                             /\ i.pc # "idle"
                             /\ i.pc = "write" => i.read = doc[p] /\ doc[p].status = "PAID"
    <3> DEFINE free == doc[p].status = "PAID" /\ ~HasNfe(p)
    <3>1. CASE free
      <4>1. invoice' = [invoice EXCEPT ![h] = [pc |-> "write", read |-> doc[p]]]
        BY <1>3, <3>1 DEF ReadForNfe
      <4>2. [pc |-> "write", read |-> doc[p]] \in Invoice
        BY <1>1 DEF Invoice
      <4> QED  BY <3>1, <4>1, <4>2
    <3>2. CASE ~free
      <4>1. invoice' = [invoice EXCEPT ![h] = [pc |-> "refused", read |-> NoDoc]]
        BY <1>3, <3>2 DEF ReadForNfe
      <4>2. [pc |-> "refused", read |-> NoDoc] \in Invoice
        BY <1>2 DEF Invoice
      <4> QED  BY <4>1, <4>2
    <3> QED  BY <3>1, <3>2
  <2> QED  BY <1>1, <1>3, <2>1 DEF ReadForNfe, TypeOK
<1>4. CASE WriteNfe(h)
  <2>1. /\ Updated(doc[p], invoice[h].read) \in Doc
        /\ Updated(doc[p], invoice[h].read).status = invoice[h].read.status
    BY <1>1 DEF Updated, Doc
  <2>2. [pc |-> "written", read |-> NoDoc] \in Invoice
    BY <1>2 DEF Invoice
  <2>3. sync[h].announced /\ invoice[h].pc = "write" /\ invoice[h].read.status = "PAID"
    BY <1>4 DEF WriteNfe, StartInv
  <2> QED  BY <1>1, <1>4, <2>1, <2>2, <2>3 DEF WriteNfe, TypeOK
<1> QED  BY <1>3, <1>4 DEF InvoiceStep

(* The steps of the invoices keep the types and StartInv.                  *)
LEMMA TypeInvoice ==
    ASSUME TypeOK, StartInv, NEW h \in Syncs, InvoiceStep(h)
    PROVE  TypeOK' /\ StartInv'
<1> DEFINE p == sync[h].payment
           d == Updated(doc[p], invoice[h].read)
<1>1. doc' = doc \/ (doc' = [doc EXCEPT ![p] = d] /\ d \in Doc /\ d.status = "PAID")
  BY InvoiceEffect
<1>2. /\ sync' = sync /\ charge' = charge /\ buy' = buy /\ p \in Payments
      /\ sync[h].announced
  BY InvoiceEffect
<1> HIDE DEF d
<1>3. TypeOK'
  BY <1>1, <1>2, InvoiceEffect, DocType DEF TypeOK
<1>4. buy[p] # "new"
  BY <1>2 DEF StartInv
<1>5. \A q \in Payments : buy[q] = "new" <=> doc'[q].status = "absent"
  BY <1>1, <1>4 DEF StartInv, TypeOK
<1>6. \A g \in Syncs : /\ invoice'[g].pc # "idle" => sync[g].announced
                       /\ invoice'[g].pc = "write" => invoice'[g].read.status = "PAID"
  BY InvoiceEffect DEF StartInv
<1>7. StartInv'
  BY <1>2, <1>5, <1>6 DEF StartInv
<1> QED  BY <1>3, <1>7

(***************************************************************************)
(* The documents, charges, purchases, synchronisations and invoices keep   *)
(* their types, and a synchronisation is always of a document that exists. *)
(***************************************************************************)
THEOREM SyncTypeOK == Spec => [](TypeOK /\ StartInv)
<1>1. ASSUME TypeOK, StartInv, [Next]_vars PROVE TypeOK' /\ StartInv'
  <2>1. CASE UNCHANGED vars
    BY <1>1, <2>1 DEF vars, TypeOK, StartInv
  <2> QED  BY <1>1, <2>1, TypeBuy, TypeSync, TypeInvoice DEF Next
<1> QED  BY <1>1, TypeInit, PTL DEF Spec

-----------------------------------------------------------------------------
(* References.                                                             *)

(* No step of a purchase takes a document's references away.               *)
LEMMA ReferenceBuy ==
    ASSUME TypeOK, StartInv, NEW q \in Payments, BuyStep(q)
    PROVE  /\ sync' = sync /\ invoice' = invoice
           /\ \A p \in Payments :
                 \/ /\ doc'[p].ref = doc[p].ref
                    /\ doc'[p].chargeId = doc[p].chargeId
                    /\ doc'[p].gateway = doc[p].gateway
                 \/ /\ doc'[p].ref = "charge"
                    /\ doc'[p].gateway = "ARC"
           /\ \A p \in Payments : doc'[p].status = doc[p].status \/ doc'[p].status = "PENDING"
<1>0. doc \in [Payments -> Doc]
  BY DEF TypeOK
<1>1. CASE Insert(q)
  BY <1>0, <1>1 DEF Insert, Doc
<1>2. CASE RequestCharge(q)
  BY <1>2 DEF RequestCharge
<1>3. CASE ChargeRefused(q)
  BY <1>3 DEF ChargeRefused
<1>4. CASE StoreReference(q)
  BY <1>0, <1>4 DEF StoreReference, Doc
<1>5. CASE ChargeMoves(q)
  BY <1>5 DEF ChargeMoves
<1> QED  BY <1>1, <1>2, <1>3, <1>4, <1>5 DEF BuyStep

(* Write leaves the charge's own reference in the document.                *)
LEMMA WriteStoresCharge ==
    ASSUME TypeOK, StartInv, ReferenceInv, NEW h \in Syncs, Write(h)
    PROVE  /\ Stored(h).ref = "charge"
           /\ Stored(h).gateway = "ARC"
<1>1. Reference(sync[h].read) = "charge"
  BY DEF Write, ReferenceInv, AsksForTheCharge
<1> QED  BY <1>1, WriteEffect

(* An invoice that reads a paid document reads one with its reference.     *)
LEMMA ReadIsPaid ==
    ASSUME TypeOK, StartInv, ReferenceInv, NEW h \in Syncs, InvoiceStep(h), doc' = doc
    PROVE  invoice'[h].pc = "write" => ReferenceOfPaid(invoice'[h].read)
<1>1. ASSUME invoice'[h].pc = "write" PROVE invoice'[h].read = doc[sync[h].payment]
  BY <1>1, InvoiceEffect
<1>2. sync[h].payment \in Payments
  BY DEF TypeOK, Sync
<1> QED  BY <1>1, <1>2 DEF ReferenceInv

(* The copy createNfe writes back carries the charge's own reference.      *)
LEMMA NfeStoresCharge ==
    ASSUME TypeOK, StartInv, ReferenceInv, NEW h \in Syncs, invoice[h].pc = "write"
    PROVE  LET d == Updated(doc[sync[h].payment], invoice[h].read) IN
           d.ref = "charge" /\ d.gateway = "ARC"
<1>1. invoice[h].read \in Doc
  BY DEF TypeOK, Invoice
<1>2. invoice[h].read.ref = "charge" /\ invoice[h].read.gateway = "ARC"
  BY DEF StartInv, ReferenceInv, ReferenceOfPaid
<1> QED  BY <1>1, <1>2 DEF Updated, Doc

(* Every step keeps ReferenceInv.                                          *)
LEMMA ReferenceStep ==
    ASSUME TypeOK, StartInv, ReferenceInv, [Next]_vars
    PROVE  ReferenceInv'
<1> USE DEF ReferenceInv
<1>1. ASSUME NEW q \in Payments, BuyStep(q) PROVE ReferenceInv'
  BY <1>1, ReferenceBuy DEF ReferenceOf, ReferenceOfPaid, AsksForTheCharge
<1>2. ASSUME NEW h \in Syncs, SyncStep(h) PROVE ReferenceInv'
  <2>0. sync[h] \in Sync /\ sync[h].payment \in Payments /\ doc \in [Payments -> Doc]
    BY DEF TypeOK, Sync
  <2>6. invoice' = invoice
    BY <1>2 DEF SyncStep, Receive, Claim, Fetch, Write, Notify
  <2>1. ASSUME NEW p \in Payments, Receive(h, p) PROVE ReferenceInv'
    <3>1. doc' = doc
      BY <2>1 DEF Receive
    <3>2. \A g \in Syncs \ {h} : sync'[g] = sync[g]
      BY <2>1, ReceiveEffect
    <3>3. sync'[h].pc \in {"fetch", "write"} => Reference(sync'[h].read) = "charge"
      <4>1. /\ sync'[h].read = doc[p]
            /\ sync'[h].pc = IF FoundByReference(doc[p]) THEN "fetch" ELSE "claim"
        BY <2>1, ReceiveEffect
      <4> QED  BY <4>1 DEF FoundByReference, Reference
    <3>4. AsksForTheCharge'
      BY <3>2, <3>3 DEF AsksForTheCharge
    <3> QED  BY <2>6, <3>1, <3>4
  <2>2. CASE Claim(h)
    <3> DEFINE p == sync[h].payment
               d == [doc[p] EXCEPT !.gateway = "ARC", !.chargeId = "charge"]
    <3>1. /\ d.ref = doc[p].ref /\ d.chargeId = "charge"
          /\ d.status = doc[p].status /\ d.gateway = "ARC"
          /\ doc' = [doc EXCEPT ![p] = d]
          /\ \A g \in Syncs \ {h} : sync'[g] = sync[g]
          /\ sync'[h] = [sync[h] EXCEPT !.read = d, !.pc = "fetch"]
      BY <2>2, ClaimEffect
    <3>2. ReferenceOf(d) /\ ReferenceOfPaid(d)
      BY <2>0, <3>1 DEF ReferenceOf, ReferenceOfPaid
    <3>3. \A q \in Payments : ReferenceOf(doc'[q]) /\ ReferenceOfPaid(doc'[q])
      BY <2>0, <3>1, <3>2
    <3>4. Reference(sync'[h].read) = "charge"
      BY <2>0, <3>1, <3>2 DEF Reference, ReferenceOf, Sync
    <3>5. AsksForTheCharge'
      BY <3>1, <3>4 DEF AsksForTheCharge
    <3> QED  BY <2>6, <3>3, <3>5
  <2>3. CASE Fetch(h)
    <3>1. /\ doc' = doc /\ sync[h].pc = "fetch"
          /\ \A g \in Syncs \ {h} : sync'[g] = sync[g]
          /\ sync'[h].read = sync[h].read
      BY <2>0, <2>3 DEF Fetch, Sync, TypeOK
    <3> QED  BY <2>6, <3>1 DEF AsksForTheCharge
  <2>4. CASE Write(h)
    <3> DEFINE p == sync[h].payment
    <3>1. /\ doc' = [doc EXCEPT ![p] = Stored(h)]
          /\ \A g \in Syncs \ {h} : sync'[g] = sync[g]
          /\ sync'[h] = [sync[h] EXCEPT !.wrote = NextStatus(h), !.pc = "notify"]
      BY <2>4, WriteEffect
    <3>2. Stored(h).ref = "charge" /\ Stored(h).gateway = "ARC"
      BY <2>4, WriteStoresCharge
    <3>3. \A q \in Payments : ReferenceOf(doc'[q]) /\ ReferenceOfPaid(doc'[q])
      BY <2>0, <3>1, <3>2 DEF ReferenceOf, ReferenceOfPaid
    <3>4. sync'[h].pc = "notify"
      BY <2>0, <3>1 DEF Sync
    <3>5. AsksForTheCharge'
      BY <3>1, <3>4 DEF AsksForTheCharge
    <3> QED  BY <2>6, <3>3, <3>5
  <2>5. CASE Notify(h)
    <3>1. /\ doc' = doc /\ sync'[h].pc = "done"
          /\ \A g \in Syncs \ {h} : sync'[g] = sync[g]
      BY <2>0, <2>5 DEF Notify, Sync, TypeOK
    <3> QED  BY <2>6, <3>1 DEF AsksForTheCharge
  <2> QED  BY <1>2, <2>1, <2>2, <2>3, <2>4, <2>5 DEF SyncStep
<1>3. CASE UNCHANGED vars
  BY <1>3 DEF vars, AsksForTheCharge
<1>4. ASSUME NEW h \in Syncs, InvoiceStep(h) PROVE ReferenceInv'
  <2> DEFINE p == sync[h].payment
             d == Updated(doc[p], invoice[h].read)
  <2>1. CASE doc' = doc
    <3>1. \A g \in Syncs : invoice'[g].pc = "write" => ReferenceOfPaid(invoice'[g].read)
      BY <1>4, <2>1, InvoiceEffect, ReadIsPaid
    <3> QED  BY <1>4, <2>1, <3>1, InvoiceEffect DEF AsksForTheCharge
  <2>2. CASE doc' # doc
    <3>1. /\ invoice[h].pc = "write" /\ invoice'[h].pc = "written"
          /\ d \in Doc /\ d.status = "PAID" /\ doc' = [doc EXCEPT ![p] = d]
      BY <1>4, <2>2, InvoiceEffect
    <3>2. d.ref = "charge" /\ d.gateway = "ARC"
      BY <1>4, <3>1, NfeStoresCharge
    <3>3. \A q \in Payments : ReferenceOf(doc'[q]) /\ ReferenceOfPaid(doc'[q])
      BY <3>1, <3>2 DEF ReferenceOf, ReferenceOfPaid, TypeOK
    <3>4. \A g \in Syncs : invoice'[g].pc = "write" => ReferenceOfPaid(invoice'[g].read)
      BY <1>4, <3>1, InvoiceEffect
    <3> QED  BY <1>4, <3>3, <3>4, InvoiceEffect DEF AsksForTheCharge
  <2> QED  BY <2>1, <2>2
<1> QED  BY <1>1, <1>2, <1>3, <1>4 DEF Next

(* The references keep their meaning in every reachable state.             *)
LEMMA ReferencesHold == Spec => [](TypeOK /\ StartInv /\ ReferenceInv)
<1>1. Init => ReferenceInv
  BY DEF Init, ReferenceInv, ReferenceOf, ReferenceOfPaid, AsksForTheCharge, NoDoc
<1> QED  BY <1>1, SyncTypeOK, ReferenceStep, PTL DEF Spec

(***************************************************************************)
(* Every synchronisation asks the gateway for the charge and for nothing   *)
(* else, however the purchase and the webhooks interleave.                 *)
(***************************************************************************)
THEOREM AsksForTheChargeTheorem == Spec => []AsksForTheCharge
<1>1. ReferenceInv => AsksForTheCharge
  BY DEF ReferenceInv
<1> QED  BY <1>1, ReferencesHold, PTL

Kept == \A p \in Payments : FoundByReference(doc[p]) => FoundByReference(doc[p])'

(* What a step may not do to the documents that webhooks find.             *)
LEMMA KeptStep ==
    ASSUME TypeOK, StartInv, ReferenceInv, [Next]_vars
    PROVE  [Kept]_vars
<1>0. doc \in [Payments -> Doc]
  BY DEF TypeOK
<1>1. ASSUME NEW q \in Payments, BuyStep(q) PROVE Kept
  BY <1>1, ReferenceBuy DEF FoundByReference, Kept
<1>2. ASSUME NEW h \in Syncs, SyncStep(h) PROVE Kept
  <2>1. CASE Claim(h)
    BY <1>0, <2>1, ClaimEffect DEF FoundByReference, Kept
  <2>2. CASE Write(h)
    BY <1>0, <2>2, WriteEffect, WriteStoresCharge DEF FoundByReference, Kept
  <2>3. CASE doc' = doc
    BY <2>3 DEF Kept
  <2> QED  BY <1>2, <2>1, <2>2, <2>3 DEF SyncStep, Receive, Fetch, Notify
<1>3. ASSUME NEW h \in Syncs, InvoiceStep(h) PROVE Kept
  <2>1. CASE doc' = doc
    BY <2>1 DEF Kept
  <2>2. CASE doc' # doc
    BY <1>0, <1>3, <2>2, InvoiceEffect, NfeStoresCharge DEF FoundByReference, Kept
  <2> QED  BY <2>1, <2>2
<1> QED  BY <1>1, <1>2, <1>3 DEF Next

(***************************************************************************)
(* A document that webhooks find by its reference stays findable: neither  *)
(* the purchase nor a synchronisation nor an invoice takes the reference   *)
(* away.                                                                   *)
(***************************************************************************)
THEOREM StaysFoundTheorem == Spec => StaysFound
<1>1. ReferenceInv /\ TypeOK /\ StartInv /\ [Next]_vars => [Kept]_vars
  BY KeptStep
<1> QED  BY <1>1, ReferencesHold, PTL DEF Spec, StaysFound, Kept

-----------------------------------------------------------------------------
(* Payments and announcements.                                             *)

(* A charge that was paid has been paid ever after.                        *)
LEMMA PaidForever ==
    ASSUME TypeOK, StartInv, [Next]_vars, NEW p \in Payments, HasBeenPaid(p)
    PROVE  HasBeenPaid(p)'
<1> USE DEF HasBeenPaid
<1>0. charge \in [Payments -> ChargeStates]
  BY DEF TypeOK
<1>1. ASSUME NEW q \in Payments, BuyStep(q) PROVE HasBeenPaid(p)'
  <2>1. CASE RequestCharge(q)
    BY <2>1, <1>0 DEF RequestCharge, StartInv
  <2>2. CASE ChargeMoves(q)
    BY <2>2, <1>0 DEF ChargeMoves
  <2>3. CASE charge' = charge
    BY <2>3
  <2> QED  BY <1>1, <2>1, <2>2, <2>3 DEF BuyStep, Insert, ChargeRefused, StoreReference
<1>2. ASSUME NEW h \in Syncs, SyncStep(h) PROVE HasBeenPaid(p)'
  BY <1>2 DEF SyncStep, Receive, Claim, Fetch, Write, Notify
<1>3. CASE UNCHANGED vars
  BY <1>3 DEF vars
<1>4. ASSUME NEW h \in Syncs, InvoiceStep(h) PROVE HasBeenPaid(p)'
  BY <1>4, InvoiceEffect
<1> QED  BY <1>1, <1>2, <1>3, <1>4 DEF Next

\* What BackedInv says of one synchronisation.
Backed(h) ==
    \/ sync[h].pc # "idle" /\ sync[h].read.status = "PAID"
    \/ sync[h].fetched = "PAID"
    \/ sync[h].wrote = "PAID"
    \/ sync[h].announced
    => HasBeenPaid(sync[h].payment)

(* The acting synchronisation and the document it writes stay backed.      *)
LEMMA BackedSync ==
    ASSUME TypeOK, StartInv, BackedInv, NEW h \in Syncs, SyncStep(h)
    PROVE  /\ \A g \in Syncs \ {h} : sync'[g] = sync[g]
           /\ Backed(h)'
           /\ \A q \in Payments : doc'[q].status = "PAID" => HasBeenPaid(q)
<1>0. /\ sync[h] \in Sync /\ sync[h].payment \in Payments
      /\ doc \in [Payments -> Doc] /\ sync \in [Syncs -> Sync]
  BY DEF TypeOK, Sync
<1>a. charge' = charge
  BY DEF SyncStep, Receive, Claim, Fetch, Write, Notify
<1>b. Backed(h)
  BY DEF BackedInv, PaidIsBacked, Backed
<1>c. \A q \in Payments : doc[q].status = "PAID" => HasBeenPaid(q)
  BY DEF BackedInv, PaidIsBacked
<1> DEFINE Goal == /\ \A g \in Syncs \ {h} : sync'[g] = sync[g]
                   /\ Backed(h)'
                   /\ \A q \in Payments : doc'[q].status = "PAID" => HasBeenPaid(q)
<1>1. ASSUME NEW p \in Payments, Receive(h, p) PROVE Goal
  <2>1. /\ \A g \in Syncs \ {h} : sync'[g] = sync[g]
        /\ sync'[h].payment = p /\ sync'[h].read = doc[p]
        /\ sync'[h].fetched = sync[h].fetched /\ sync'[h].wrote = sync[h].wrote
        /\ sync'[h].announced = sync[h].announced
    BY <1>1, ReceiveEffect
  <2>2. sync[h].fetched = "PENDING" /\ sync[h].wrote = "PENDING" /\ ~sync[h].announced
    BY <1>1 DEF Receive, StartInv
  <2>3. doc' = doc
    BY <1>1 DEF Receive
  <2> QED  BY <1>a, <1>c, <2>1, <2>2, <2>3 DEF Backed, HasBeenPaid
<1>2. CASE Claim(h)
  <2> DEFINE p == sync[h].payment
             d == [doc[p] EXCEPT !.gateway = "ARC", !.chargeId = "charge"]
  <2>1. /\ d.status = doc[p].status
        /\ doc' = [doc EXCEPT ![p] = d]
        /\ \A g \in Syncs \ {h} : sync'[g] = sync[g]
        /\ sync'[h] = [sync[h] EXCEPT !.read = d, !.pc = "fetch"]
    BY <1>2, ClaimEffect
  <2>2. /\ sync'[h].payment = p /\ sync'[h].read.status = doc[p].status
        /\ sync'[h].fetched = sync[h].fetched /\ sync'[h].wrote = sync[h].wrote
        /\ sync'[h].announced = sync[h].announced
    BY <1>0, <2>1 DEF Sync
  <2>3. \A q \in Payments : doc'[q].status = doc[q].status
    BY <1>0, <2>1
  <2>4. Backed(h)'
    BY <1>0, <1>a, <1>b, <1>c, <2>2 DEF Backed, HasBeenPaid
  <2> QED  BY <1>c, <2>1, <2>3, <2>4
<1>3. CASE Fetch(h)
  <2>1. /\ doc' = doc /\ sync[h].pc # "idle"
        /\ \A g \in Syncs \ {h} : sync'[g] = sync[g]
        /\ sync'[h].payment = sync[h].payment /\ sync'[h].read = sync[h].read
        /\ sync'[h].fetched = InternalStatus(charge[sync[h].payment])
        /\ sync'[h].wrote = sync[h].wrote /\ sync'[h].announced = sync[h].announced
    BY <1>0, <1>3 DEF Fetch, Sync
  <2>2. sync'[h].fetched = "PAID" => HasBeenPaid(sync[h].payment)
    BY <1>0, <2>1 DEF InternalStatus, HasBeenPaid, TypeOK, ChargeStates
  <2> QED  BY <1>a, <1>b, <1>c, <2>1, <2>2 DEF Backed, HasBeenPaid
<1>4. CASE Write(h)
  <2> DEFINE p == sync[h].payment
  <2>1. /\ Stored(h).status = NextStatus(h)
        /\ doc' = [doc EXCEPT ![p] = Stored(h)]
        /\ \A g \in Syncs \ {h} : sync'[g] = sync[g]
        /\ sync'[h] = [sync[h] EXCEPT !.wrote = NextStatus(h), !.pc = "notify"]
    BY <1>4, WriteEffect
  <2>2. sync[h].pc = "write"
    BY <1>4 DEF Write
  <2>3. NextStatus(h) = "PAID" => HasBeenPaid(p)
    BY <1>b, <2>2 DEF NextStatus, Backed
  <2>4. /\ sync'[h].payment = p /\ sync'[h].read = sync[h].read
        /\ sync'[h].fetched = sync[h].fetched /\ sync'[h].wrote = NextStatus(h)
        /\ sync'[h].announced = sync[h].announced
    BY <1>0, <2>1 DEF Sync
  <2>5. Backed(h)'
    BY <1>a, <1>b, <2>2, <2>3, <2>4 DEF Backed, HasBeenPaid
  <2>6. \A q \in Payments : doc'[q].status = "PAID" => HasBeenPaid(q)
    BY <1>0, <1>c, <2>1, <2>3
  <2> QED  BY <2>1, <2>5, <2>6
<1>5. CASE Notify(h)
  <2>1. /\ doc' = doc /\ sync[h].pc # "idle"
        /\ \A g \in Syncs \ {h} : sync'[g] = sync[g]
        /\ sync'[h].payment = sync[h].payment /\ sync'[h].read = sync[h].read
        /\ sync'[h].fetched = sync[h].fetched /\ sync'[h].wrote = sync[h].wrote
        /\ sync'[h].announced = Announces(h)
    BY <1>0, <1>5 DEF Notify, Sync
  <2> QED  BY <1>a, <1>b, <1>c, <2>1 DEF Backed, HasBeenPaid, Announces
<1> QED  BY <1>1, <1>2, <1>3, <1>4, <1>5 DEF SyncStep

(* Every step keeps BackedInv.                                             *)
LEMMA BackedStep ==
    ASSUME TypeOK, StartInv, BackedInv, [Next]_vars
    PROVE  BackedInv'
<1>0. \A h \in Syncs : sync[h].payment \in Payments /\ Backed(h)
  BY DEF TypeOK, Sync, BackedInv, PaidIsBacked, Backed
<1>1. \A p \in Payments : doc[p].status = "PAID" => HasBeenPaid(p)
  BY DEF BackedInv, PaidIsBacked
<1>2. SUFFICES /\ \A h \in Syncs : Backed(h)'
               /\ \A p \in Payments : doc'[p].status = "PAID" => HasBeenPaid(p)'
  BY DEF BackedInv, PaidIsBacked, Backed
<1>3. ASSUME NEW g \in Syncs, sync'[g] = sync[g] PROVE Backed(g)'
  BY <1>0, <1>3, PaidForever DEF Backed
<1>4. ASSUME NEW q \in Payments, BuyStep(q)
      PROVE  \A p \in Payments : doc'[p].status = "PAID" => HasBeenPaid(p)'
  <2>1. \A p \in Payments : doc'[p].status = doc[p].status \/ doc'[p].status = "PENDING"
    BY <1>4, ReferenceBuy
  <2> QED  BY <1>1, <2>1, PaidForever
<1>5. ASSUME NEW q \in Payments, BuyStep(q) PROVE \A h \in Syncs : Backed(h)'
  BY <1>3, <1>5, ReferenceBuy
<1>6. ASSUME NEW h \in Syncs, SyncStep(h)
      PROVE  /\ \A g \in Syncs : Backed(g)'
             /\ \A p \in Payments : doc'[p].status = "PAID" => HasBeenPaid(p)'
  BY <1>3, <1>6, BackedSync, PaidForever
<1>7. CASE UNCHANGED vars
  <2>1. doc' = doc /\ sync' = sync
    BY <1>7 DEF vars
  <2> QED  BY <1>1, <1>3, <2>1, PaidForever
<1>8. ASSUME NEW h \in Syncs, InvoiceStep(h)
      PROVE  /\ \A g \in Syncs : Backed(g)'
             /\ \A p \in Payments : doc'[p].status = "PAID" => HasBeenPaid(p)'
  <2>1. \A p \in Payments : doc'[p].status # doc[p].status => p = sync[h].payment
    BY <1>8, InvoiceEffect DEF TypeOK
  <2>2. HasBeenPaid(sync[h].payment)
    BY <1>0, <1>8, InvoiceEffect DEF Backed
  <2>3. \A p \in Payments : doc'[p].status = "PAID" => HasBeenPaid(p)
    BY <1>1, <2>1, <2>2
  <2> QED  BY <1>3, <1>8, <2>3, InvoiceEffect, PaidForever
<1> QED  BY <1>4, <1>5, <1>6, <1>7, <1>8 DEF Next

(***************************************************************************)
(* No document shows PAID, and no payment is announced as paid, unless its *)
(* charge was paid.                                                        *)
(***************************************************************************)
THEOREM PaidIsBackedTheorem == Spec => []PaidIsBacked
<1>1. Init => BackedInv
  BY DEF Init, BackedInv, PaidIsBacked, NoDoc
<1>2. BackedInv => PaidIsBacked
  BY DEF BackedInv
<1> QED  BY <1>1, <1>2, SyncTypeOK, BackedStep, PTL DEF Spec

(* An announcement that was or will be made stays so.                      *)
LEMMA AnnouncedForever ==
    ASSUME TypeOK, StartInv, [Next]_vars, NEW p \in Payments, AnnouncedFor(p)
    PROVE  AnnouncedFor(p)'
<1>0. sync \in [Syncs -> Sync] /\ \A g \in Syncs : sync[g] \in Sync
  BY DEF TypeOK
<1>1. PICK h \in Syncs : /\ sync[h].payment = p
                         /\ \/ sync[h].announced
                            \/ sync[h].pc = "notify" /\ Announces(h)
  BY DEF AnnouncedFor
<1>2. CASE sync'[h] = sync[h]
  BY <1>1, <1>2 DEF AnnouncedFor, Announces
<1>3. sync[h].pc \in {"notify", "done"}
  BY <1>1 DEF StartInv
<1>4. CASE Notify(h)
  <2>1. sync[h].pc = "notify" /\ ~sync[h].announced
    BY <1>4 DEF Notify, StartInv
  <2>2. sync'[h].payment = p /\ sync'[h].announced = Announces(h)
    BY <1>0, <1>1, <1>4 DEF Notify, Sync
  <2> QED  BY <1>1, <2>1, <2>2 DEF AnnouncedFor
<1>5. ASSUME NEW q \in Payments, BuyStep(q) PROVE sync'[h] = sync[h]
  BY <1>5, ReferenceBuy
<1>6. ASSUME NEW g \in Syncs \ {h}, SyncStep(g) PROVE sync'[h] = sync[h]
  BY <1>0, <1>6 DEF SyncStep, Receive, Claim, Fetch, Write, Notify
<1>7. ASSUME SyncStep(h) PROVE Notify(h)
  BY <1>3, <1>7 DEF SyncStep, Receive, Claim, Fetch, Write
<1>8. ASSUME UNCHANGED vars PROVE sync'[h] = sync[h]
  BY <1>8 DEF vars
<1>9. ASSUME NEW g \in Syncs, InvoiceStep(g) PROVE sync'[h] = sync[h]
  BY <1>9, InvoiceEffect
<1> QED  BY <1>2, <1>4, <1>5, <1>6, <1>7, <1>8, <1>9 DEF Next

(* The acting synchronisation, and the document it writes.                 *)
LEMMA AnnouncedSync ==
    ASSUME TypeOK, StartInv, AnnouncedInv, NEW h \in Syncs, SyncStep(h)
    PROVE  /\ \A p \in Payments : doc'[p].status = "PAID" => AnnouncedFor(p)'
           /\ sync'[h].pc # "idle" /\ sync'[h].read.status = "PAID"
              => AnnouncedFor(sync[h].payment)'
<1> DEFINE Read == sync'[h].pc # "idle" /\ sync'[h].read.status = "PAID"
                   => AnnouncedFor(sync[h].payment)'
           Docs == \A p \in Payments : doc'[p].status = "PAID" => AnnouncedFor(p)'
<1>0. /\ sync[h] \in Sync /\ sync[h].payment \in Payments
      /\ doc \in [Payments -> Doc] /\ sync \in [Syncs -> Sync]
  BY DEF TypeOK, Sync
<1>1. \A p \in Payments : doc[p].status = "PAID" => AnnouncedFor(p)
  BY DEF AnnouncedInv
<1>2. sync[h].pc # "idle" /\ sync[h].read.status = "PAID" => AnnouncedFor(sync[h].payment)
  BY DEF AnnouncedInv
<1>3. \A p \in Payments : AnnouncedFor(p) => AnnouncedFor(p)'
  BY AnnouncedForever DEF Next
<1>4. ASSUME NEW p \in Payments, Receive(h, p) PROVE Docs /\ Read
  <2>1. sync'[h].payment = p /\ sync'[h].read = doc[p] /\ doc' = doc
    BY <1>4, ReceiveEffect DEF Receive
  <2>2. Docs
    BY <1>1, <1>3, <2>1
  <2>3. sync'[h].read.status = "PAID" => AnnouncedFor(p)'
    BY <2>1, <2>2
  <2>4. Read
    BY <2>1, <2>3 DEF AnnouncedFor, Announces
  <2> QED  BY <2>2, <2>4
<1>5. ASSUME sync'[h].payment = sync[h].payment, sync[h].pc # "idle",
             sync'[h].read.status = sync[h].read.status
      PROVE  Read
  <2>1. SUFFICES ASSUME sync'[h].read.status = "PAID"
                 PROVE  AnnouncedFor(sync[h].payment)'
    OBVIOUS
  <2>2. AnnouncedFor(sync[h].payment)
    BY <1>2, <1>5, <2>1
  <2>3. PICK p \in Payments : p = sync[h].payment
    BY <1>0
  <2> QED  BY <1>3, <1>5, <2>2, <2>3 DEF AnnouncedFor, Announces
<1>6. CASE Claim(h)
  <2> DEFINE p == sync[h].payment
             d == [doc[p] EXCEPT !.gateway = "ARC", !.chargeId = "charge"]
  <2>1. /\ d.status = doc[p].status
        /\ doc' = [doc EXCEPT ![p] = d]
        /\ sync'[h] = [sync[h] EXCEPT !.read = d, !.pc = "fetch"]
    BY <1>6, ClaimEffect
  <2>2. sync'[h].payment = p /\ sync'[h].read.status = doc[p].status
    BY <1>0, <2>1 DEF Sync
  <2>3. \A q \in Payments : doc'[q].status = doc[q].status
    BY <1>0, <2>1
  <2>4. Docs
    BY <1>1, <1>3, <2>3
  <2>5. PICK q \in Payments : q = p
    BY <1>0
  <2>6. sync'[h].read.status = "PAID" => AnnouncedFor(q)'
    BY <2>2, <2>3, <2>4, <2>5
  <2>7. Read
    BY <2>2, <2>5, <2>6 DEF AnnouncedFor, Announces
  <2> QED  BY <2>4, <2>7
<1>7. CASE Fetch(h)
  <2>1. /\ doc' = doc /\ sync[h].pc # "idle"
        /\ sync'[h].payment = sync[h].payment /\ sync'[h].read = sync[h].read
    BY <1>0, <1>7 DEF Fetch, Sync
  <2> QED  BY <1>1, <1>3, <1>5, <2>1
<1>8. CASE Write(h)
  <2> DEFINE p == sync[h].payment
  <2>1. /\ Stored(h).status = NextStatus(h)
        /\ doc' = [doc EXCEPT ![p] = Stored(h)]
        /\ sync'[h] = [sync[h] EXCEPT !.wrote = NextStatus(h), !.pc = "notify"]
    BY <1>8, WriteEffect
  <2>2. sync[h].pc = "write"
    BY <1>8 DEF Write
  <2>3. /\ sync'[h].payment = p /\ sync'[h].read = sync[h].read
        /\ sync'[h].wrote = NextStatus(h) /\ sync'[h].pc = "notify"
    BY <1>0, <2>1 DEF Sync
  <2>4. Read
    BY <1>5, <2>2, <2>3
  <2>5. PICK q \in Payments : q = p
    BY <1>0
  <2>6. ASSUME NextStatus(h) = "PAID" PROVE AnnouncedFor(q)'
    <3>1. CASE sync[h].read.status = "PAID"
      BY <1>2, <1>3, <2>2, <2>5, <3>1
    <3>2. CASE sync[h].read.status # "PAID"
      <4>1. Announces(h)'
        BY <2>3, <2>6, <3>2 DEF Announces
      <4> QED  BY <2>3, <2>5, <4>1 DEF AnnouncedFor
    <3> QED  BY <3>1, <3>2
  <2>7. Docs
    BY <1>0, <1>1, <1>3, <2>1, <2>5, <2>6
  <2> QED  BY <2>4, <2>7
<1>9. CASE Notify(h)
  <2>1. /\ doc' = doc /\ sync[h].pc # "idle"
        /\ sync'[h].payment = sync[h].payment /\ sync'[h].read = sync[h].read
    BY <1>0, <1>9 DEF Notify, Sync
  <2> QED  BY <1>1, <1>3, <1>5, <2>1
<1> QED  BY <1>4, <1>6, <1>7, <1>8, <1>9 DEF SyncStep

(* Every step keeps AnnouncedInv.                                          *)
LEMMA AnnouncedStep ==
    ASSUME TypeOK, StartInv, AnnouncedInv, [Next]_vars
    PROVE  AnnouncedInv'
<1> DEFINE Read(g) == sync[g].pc # "idle" /\ sync[g].read.status = "PAID"
                      => AnnouncedFor(sync[g].payment)
<1>0. /\ sync \in [Syncs -> Sync] /\ doc \in [Payments -> Doc]
      /\ \A g \in Syncs : sync[g] \in Sync /\ sync[g].payment \in Payments
  BY DEF TypeOK, Sync
<1>1. \A p \in Payments : doc[p].status = "PAID" => AnnouncedFor(p)
  BY DEF AnnouncedInv
<1>2. \A g \in Syncs : Read(g)
  BY DEF AnnouncedInv
<1>3. \A p \in Payments : AnnouncedFor(p) => AnnouncedFor(p)'
  BY AnnouncedForever
<1>4. SUFFICES /\ \A p \in Payments : doc'[p].status = "PAID" => AnnouncedFor(p)'
               /\ \A g \in Syncs : Read(g)'
  BY DEF AnnouncedInv
<1>5. ASSUME NEW g \in Syncs, sync'[g] = sync[g] PROVE Read(g)'
  <2>1. SUFFICES ASSUME sync'[g].pc # "idle", sync'[g].read.status = "PAID"
                 PROVE  AnnouncedFor(sync[g].payment)'
    BY <1>5 DEF AnnouncedFor, Announces
  <2>2. AnnouncedFor(sync[g].payment)
    BY <1>2, <1>5, <2>1
  <2>3. PICK p \in Payments : p = sync[g].payment
    BY <1>0
  <2> QED  BY <1>3, <1>5, <2>2, <2>3 DEF AnnouncedFor, Announces
<1>6. ASSUME NEW q \in Payments, BuyStep(q)
      PROVE  \A p \in Payments : doc'[p].status = "PAID" => AnnouncedFor(p)'
  <2>1. \A p \in Payments : doc'[p].status = doc[p].status \/ doc'[p].status = "PENDING"
    BY <1>6, ReferenceBuy
  <2> QED  BY <1>1, <1>3, <2>1
<1>7. ASSUME NEW q \in Payments, BuyStep(q) PROVE \A g \in Syncs : Read(g)'
  BY <1>5, <1>7, ReferenceBuy
<1>8. ASSUME NEW h \in Syncs, SyncStep(h)
      PROVE  /\ \A p \in Payments : doc'[p].status = "PAID" => AnnouncedFor(p)'
             /\ \A g \in Syncs : Read(g)'
  <2>1. \A g \in Syncs \ {h} : sync'[g] = sync[g]
    BY <1>0, <1>8 DEF SyncStep, Receive, Claim, Fetch, Write, Notify
  <2>2. /\ \A p \in Payments : doc'[p].status = "PAID" => AnnouncedFor(p)'
        /\ Read(h)'
    BY <1>8, AnnouncedSync
  <2>3. \A g \in Syncs \ {h} : Read(g)'
    BY <1>5, <2>1
  <2> QED  BY <2>2, <2>3
<1>9. CASE UNCHANGED vars
  <2>1. doc' = doc /\ sync' = sync
    BY <1>9 DEF vars
  <2> QED  BY <1>1, <1>3, <1>5, <2>1
<1>10. ASSUME NEW h \in Syncs, InvoiceStep(h)
       PROVE  /\ \A p \in Payments : doc'[p].status = "PAID" => AnnouncedFor(p)'
              /\ \A g \in Syncs : Read(g)'
  <2>1. \A p \in Payments : doc'[p].status # doc[p].status => p = sync[h].payment
    BY <1>0, <1>10, InvoiceEffect
  <2>2. \A p \in Payments : p = sync[h].payment => AnnouncedFor(p)
    BY <1>10, InvoiceEffect DEF AnnouncedFor
  <2>3. \A p \in Payments : doc'[p].status = "PAID" => AnnouncedFor(p)'
    BY <1>1, <1>3, <2>1, <2>2
  <2> QED  BY <1>5, <1>10, <2>3, InvoiceEffect
<1> QED  BY <1>6, <1>7, <1>8, <1>9, <1>10 DEF Next

(***************************************************************************)
(* A payment whose document shows PAID has been announced, or the          *)
(* announcement is the next step of a synchronisation.                     *)
(***************************************************************************)
THEOREM PaidIsAnnouncedTheorem == Spec => []PaidIsAnnounced
<1>1. Init => AnnouncedInv
  BY DEF Init, AnnouncedInv, NoDoc
<1>2. AnnouncedInv => PaidIsAnnounced
  BY DEF AnnouncedInv, AnnouncedFor, PaidIsAnnounced
<1> QED  BY <1>1, <1>2, SyncTypeOK, AnnouncedStep, PTL DEF Spec

(* A synchronisation is about to announce what it wrote, and only a        *)
(* synchronisation that wrote PAID announces.                              *)
LEMMA NotifiedStep ==
    ASSUME TypeOK, StartInv, NEW h \in Syncs, SyncStep(h)
    PROVE  /\ \A g \in Syncs \ {h} : sync'[g] = sync[g]
           /\ sync[h].announced = FALSE
           /\ sync'[h].pc = "notify" => doc'[sync'[h].payment].status = sync'[h].wrote
           /\ sync'[h].announced => /\ sync[h].pc = "notify" /\ sync[h].wrote = "PAID"
                                    /\ sync'[h].payment = sync[h].payment
<1> DEFINE Goal == /\ \A g \in Syncs \ {h} : sync'[g] = sync[g]
                   /\ sync[h].announced = FALSE
                   /\ sync'[h].pc = "notify" => doc'[sync'[h].payment].status = sync'[h].wrote
                   /\ sync'[h].announced => /\ sync[h].pc = "notify" /\ sync[h].wrote = "PAID"
                                            /\ sync'[h].payment = sync[h].payment
<1>0. /\ sync[h] \in Sync /\ sync[h].payment \in Payments
      /\ doc \in [Payments -> Doc] /\ sync \in [Syncs -> Sync]
  BY DEF TypeOK, Sync
<1>1. sync[h].announced = FALSE
  <2>1. sync[h].announced \in BOOLEAN /\ sync[h].pc # "done"
    BY <1>0 DEF Sync, SyncStep, Receive, Claim, Fetch, Write, Notify
  <2>2. sync[h].announced => sync[h].pc = "done"
    BY DEF StartInv
  <2> QED BY <2>1, <2>2
<1>2. ASSUME NEW p \in Payments, Receive(h, p) PROVE Goal
  BY <1>1, <1>2, ReceiveEffect
<1>3. CASE Claim(h)
  BY <1>0, <1>1, <1>3, ClaimEffect DEF Sync
<1>4. CASE Fetch(h)
  <2>1. PICK known \in Providers :
           sync' = [sync EXCEPT ![h].fetched = InternalStatus(charge[sync[h].payment]),
                                ![h].provider = known, ![h].pc = "write"]
    BY <1>4 DEF Fetch
  <2>2. /\ sync'[h].pc = "write" /\ sync'[h].announced = sync[h].announced
        /\ \A g \in Syncs \ {h} : sync'[g] = sync[g]
    BY <1>0, <2>1 DEF Sync
  <2> QED BY <1>1, <2>2
<1>5. CASE Write(h)
  <2>1. /\ doc' = [doc EXCEPT ![sync[h].payment] = Stored(h)]
        /\ Stored(h).status = NextStatus(h)
        /\ \A g \in Syncs \ {h} : sync'[g] = sync[g]
        /\ sync'[h] = [sync[h] EXCEPT !.wrote = NextStatus(h), !.pc = "notify"]
    BY <1>5, WriteEffect
  <2>2. doc'[sync[h].payment].status = NextStatus(h)
    BY <1>0, <2>1
  <2>3. /\ sync'[h].wrote = NextStatus(h) /\ sync'[h].payment = sync[h].payment
        /\ sync'[h].announced = sync[h].announced
    BY <1>0, <2>1 DEF Sync
  <2> QED BY <1>1, <2>1, <2>2, <2>3
<1>6. CASE Notify(h)
  <2>1. /\ sync[h].pc = "notify"
        /\ sync' = [sync EXCEPT ![h].announced = Announces(h), ![h].pc = "done"]
    BY <1>6 DEF Notify
  <2>2. /\ sync'[h].announced = Announces(h) /\ sync'[h].pc = "done"
        /\ sync'[h].payment = sync[h].payment
        /\ \A g \in Syncs \ {h} : sync'[g] = sync[g]
    BY <1>0, <2>1 DEF Sync
  <2>3. Announces(h) => sync[h].wrote = "PAID"
    BY DEF Announces
  <2> QED BY <1>1, <2>1, <2>2, <2>3
<1> QED BY <1>2, <1>3, <1>4, <1>5, <1>6 DEF SyncStep

RuleKept ==
    \A p \in Payments :
       \/ doc[p].status = "absent"
       \/ AllowedTransition(doc[p].status, doc'[p].status)
       \/ StaleWrite(p)

(* What a step may not do to the status of a document.                     *)
LEMMA RuleStep ==
    ASSUME TypeOK, StartInv, [Next]_vars
    PROVE  [RuleKept]_vars
<1>0. doc \in [Payments -> Doc] /\ \A h \in Syncs : sync[h].payment \in Payments
  BY DEF TypeOK, Sync
<1>1. ASSUME \A p \in Payments : doc'[p].status = doc[p].status PROVE RuleKept
  BY <1>1 DEF RuleKept, AllowedTransition
<1>2. ASSUME NEW q \in Payments, BuyStep(q) PROVE RuleKept
  <2>1. CASE Insert(q)
    <3>1. doc[q].status = "absent"
      BY <2>1 DEF Insert, StartInv
    <3>2. \A p \in Payments \ {q} : doc'[p] = doc[p]
      BY <1>0, <2>1 DEF Insert
    <3> QED  BY <3>1, <3>2 DEF RuleKept, AllowedTransition
  <2>2. CASE StoreReference(q)
    <3>1. buy[q] = "store" /\ buy'[q] = "done" /\ doc'[q].status = "PENDING"
      BY <1>0, <2>2 DEF StoreReference, Doc, TypeOK
    <3>2. \A p \in Payments \ {q} : doc'[p] = doc[p]
      BY <1>0, <2>2 DEF StoreReference
    <3> QED  BY <3>1, <3>2 DEF RuleKept, AllowedTransition, StaleWrite
  <2>3. CASE doc' = doc
    BY <1>1, <2>3
  <2> QED  BY <1>2, <2>1, <2>2, <2>3 DEF BuyStep, RequestCharge, ChargeRefused, ChargeMoves
<1>3. ASSUME NEW h \in Syncs, SyncStep(h) PROVE RuleKept
  <2>1. CASE Claim(h)
    BY <1>0, <1>1, <2>1, ClaimEffect
  <2>2. CASE Write(h)
    <3> DEFINE p == sync[h].payment
    <3>1. Stored(h).status = NextStatus(h) /\ doc' = [doc EXCEPT ![p] = Stored(h)]
      BY <2>2, WriteEffect
    <3>2. doc'[p].status = NextStatus(h) /\ \A q \in Payments \ {p} : doc'[q] = doc[q]
      BY <1>0, <3>1
    <3>3. sync[h].pc = "write" /\ sync[h] \in Sync
      BY <2>2 DEF Write, TypeOK
    <3>6. sync'[h].pc = "notify"
      BY <2>2, <3>3, WriteEffect DEF Sync
    <3>4. AllowedTransition(sync[h].read.status, NextStatus(h))
      BY DEF NextStatus, AllowedTransition
    <3>5. AllowedTransition(doc[p].status, doc'[p].status) \/ StaleWrite(p)
      BY <3>2, <3>3, <3>4, <3>6 DEF StaleWrite
    <3> QED  BY <3>2, <3>5 DEF RuleKept, AllowedTransition
  <2>3. CASE doc' = doc
    BY <1>1, <2>3
  <2> QED  BY <1>3, <2>1, <2>2, <2>3 DEF SyncStep, Receive, Fetch, Notify
<1>4. ASSUME NEW h \in Syncs, InvoiceStep(h) PROVE RuleKept
  <2> DEFINE p == sync[h].payment
  <2>1. CASE doc' = doc
    BY <1>1, <2>1
  <2>2. CASE doc' # doc
    <3>1. /\ invoice[h].pc = "write" /\ invoice'[h].pc = "written"
          /\ doc'[p].status = "PAID" /\ \A q \in Payments \ {p} : doc'[q] = doc[q]
      BY <1>0, <1>4, <2>2, InvoiceEffect
    <3>2. invoice[h].read.status = "PAID"
      BY <3>1 DEF StartInv
    <3>3. AllowedTransition(doc[p].status, doc'[p].status) \/ StaleWrite(p)
      BY <3>1, <3>2 DEF AllowedTransition, StaleWrite
    <3> QED  BY <3>1, <3>3 DEF RuleKept, AllowedTransition
  <2> QED  BY <2>1, <2>2
<1> QED  BY <1>2, <1>3, <1>4 DEF Next

(***************************************************************************)
(* A document that was inserted leaves PAID and UNPAID only by the very    *)
(* step in which the purchase, a synchronisation or createNfe writes back  *)
(* a copy whose status another write has overtaken.                        *)
(***************************************************************************)
THEOREM TransitionRuleTheorem == Spec => OnlyStaleWritesBreakTheRule
<1>1. TypeOK /\ StartInv /\ [Next]_vars => [RuleKept]_vars
  BY RuleStep
<1> QED  BY <1>1, SyncTypeOK, PTL DEF Spec, OnlyStaleWritesBreakTheRule, RuleKept
=============================================================================
