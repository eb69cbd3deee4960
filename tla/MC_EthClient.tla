---------------------------- MODULE MC_EthClient ----------------------------
(* TLC instance of EthClient: three requests, a channel of two slots, two  *)
(* attempts before ExecuteFailed.                                          *)
EXTENDS EthClient, TLC

CONSTANTS r1, r2, r3

MCReq == {r1, r2, r3}

\* The requests are interchangeable.
MCSymmetry == Permutations(MCReq)

=============================================================================
