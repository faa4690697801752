--------------------------- MODULE MCQueryRequest ---------------------------
(* Small instances of QueryRequest for TLC.                                *)
EXTENDS QueryRequest, TLC

=============================================================================
