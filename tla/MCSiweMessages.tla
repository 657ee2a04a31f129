--------------------------- MODULE MCSiweMessages ---------------------------
(* Values for the constants of SiweMessages.                               *)
EXTENDS SiweMessages, TLC

CONSTANTS g1, g2, f1, f2, prefixed, bare, other, malformed, k1, k2

\* Two spellings of one wallet, another wallet, and an address that the
\* handlers accept and NormalizeHexString turns into a malformed one.
Normalised ==
    prefixed :> k1 @@ bare :> k1 @@ other :> k2 @@ malformed :> NoKey

Symmetry == Permutations(Generators) \cup Permutations(Fetchers)
=============================================================================
