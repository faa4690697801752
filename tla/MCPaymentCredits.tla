-------------------------- MODULE MCPaymentCredits --------------------------
(* Small instances of PaymentCredits for TLC.                              *)
EXTENDS PaymentCredits, TLC

CONSTANTS u1

OneOwner == [p \in Payments |-> u1]
OneValue == [p \in Payments |-> 2]

\* Bound: one createNfe gets as far as the payment.
OneInvoice == \A g, h \in Syncs : invoice[g].pc # "idle" /\ invoice[h].pc # "idle" => g = h

Symmetric == Permutations(Syncs) \cup Permutations(Payments)

=============================================================================
