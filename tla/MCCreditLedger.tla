--------------------------- MODULE MCCreditLedger ---------------------------
(* Small instances of CreditLedger for TLC.                                *)
EXTENDS CreditLedger, TLC

CONSTANTS u1, u2, p1

OneOwner == [p \in Payments |-> u1]
OneValue == [p \in Payments |-> 2]

HandlerSymmetry == Permutations(Handlers)

=============================================================================
