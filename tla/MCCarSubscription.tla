-------------------------- MODULE MCCarSubscription -------------------------
(* Small instances of CarSubscription for TLC.                             *)
EXTENDS CarSubscription, TLC

Symmetric == Permutations(Calls)

=============================================================================
