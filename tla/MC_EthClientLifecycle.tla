------------------------ MODULE MC_EthClientLifecycle ------------------------
(* TLC instance of EthClientLifecycle: requests r1..r3, a channel of two   *)
(* slots, two attempts before ExecuteFailed.                               *)
EXTENDS EthClientLifecycle, TLC

CONSTANTS r1, r2, r3

MCReq == {r1, r2, r3}

=============================================================================
