-------------------------- MODULE MCTokenSessions --------------------------
(* Values for the constants of TokenSessions.                              *)
EXTENDS TokenSessions, FiniteSets, TLC

CONSTANTS l1, l2, r1, k1, k2, v1, u1, u2

\* A bound of the run: at most four of the six are made.
FourCalls ==
    Cardinality({c \in Logins \cup Refreshes \cup Revokes \cup Verifies :
                    pc[c] # "idle"}) <= 4

Symmetry ==
    Permutations(Logins) \cup Permutations(Revokes)
        \cup Permutations(Users)
=============================================================================
