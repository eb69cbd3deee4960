------------------------------- MODULE MC_Ekiden -------------------------------
(* TLC instance of Ekiden: three concurrent calls for one wallet.         *)
EXTENDS Ekiden

CONSTANTS r1, r2, r3

MCReq == {r1, r2, r3}

=============================================================================
