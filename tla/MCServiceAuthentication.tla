---------------------- MODULE MCServiceAuthentication ----------------------
(* Values for the constants of ServiceAuthentication.                      *)
EXTENDS ServiceAuthentication, TLC

CONSTANTS p1, p2, r1, r2, r3, k1, k2

\* No keys, one, a rotation under way, and a list with an entry that does not
\* parse.
Configurations ==
    { << >>, << k1 >>, << k1, k2 >>, << BadKey, k1 >> }

AnySkew == { -1, 0, 1 }

Symmetry == Permutations(Payloads) \cup Permutations(Requests)
=============================================================================
