--------------------------- MODULE MCAuthenticate ---------------------------
(* Values for the constants of Authenticate.                               *)
EXTENDS Authenticate, TLC

CONSTANTS
    c1, c2, g1, g2, u1, u2, first, second, malformed, k1, k2, w1, w2

\* The first of two wallets is registered, and has a spelling that the handler
\* takes and NormalizeHexString does not.
Spellings == first :> << k1, w1 >> @@ second :> << k2, w2 >>
             @@ malformed :> << NoKey, w1 >>
Normalised == [a \in Addresses |-> Spellings[a][1]]
Spells == [a \in Addresses |-> Spellings[a][2]]
OneCredential == { [by |-> Operator, user |-> u1, addr |-> first] }

\* A bound of the run: users ask for the wallet that is registered to them, or
\* that nobody has; who takes whose wallet is a question to CredentialStore.
OwnAddresses ==
    \A c \in Calls : request[c].user = u2 <=> request[c].addr = second

HandlerCallback == {"newSession"}
Symmetry == Permutations(Calls) \cup Permutations(Generators)
=============================================================================
