----------------------------- MODULE MC_ConnPool -----------------------------
(* TLC instance of ConnPool: two connections, three callers, a channel of  *)
(* two slots.                                                              *)
EXTENDS ConnPool, TLC

CONSTANTS x1, x2, x3

MCCallers == {x1, x2, x3}

=============================================================================
