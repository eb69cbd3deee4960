-------------------------------- MODULE MC_Auth --------------------------------
(* TLC instance of Auth: two users, two handler goroutines.                *)
EXTENDS Auth, TLC

CONSTANTS u1, u2, h1, h2

MCUsers == {u1, u2}

MCHandlers == {h1, h2}

\* Users and handlers are interchangeable.
MCSymmetry == Permutations(MCUsers) \cup Permutations(MCHandlers)

=============================================================================
