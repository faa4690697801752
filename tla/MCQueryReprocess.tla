-------------------------- MODULE MCQueryReprocess --------------------------
(* Small instances of QueryReprocess for TLC.                              *)
EXTENDS QueryReprocess, TLC

Symmetric == Permutations(Services) \cup Permutations(Retries) \cup Permutations(Answers)

=============================================================================
