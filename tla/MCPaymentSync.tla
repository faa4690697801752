---------------------------- MODULE MCPaymentSync ----------------------------
(* Small instances of PaymentSync for TLC.                                 *)
EXTENDS PaymentSync, TLC

SyncSymmetry == Permutations(Syncs)

=============================================================================
