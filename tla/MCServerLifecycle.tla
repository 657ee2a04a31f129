------------------------- MODULE MCServerLifecycle -------------------------
(* Values for the constants of ServerLifecycle.                            *)
EXTENDS ServerLifecycle

CONSTANTS r1, r2, r3
=============================================================================
