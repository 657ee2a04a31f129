-------------------------- MODULE MCCredentialStore --------------------------
(* Values for the constants of CredentialStore.                            *)
EXTENDS CredentialStore, TLC

CONSTANTS c1, c2, c3, u1, u2, a1, a2

Symmetry == Permutations(Calls)

\* One wallet that is registered before the service starts.
OneCredential == { Row(Operator, u1, a1) }
NoCredential == {}

BothCallbacks == {"newSession", "noop"}
HandlerCallback == {"newSession"}
=============================================================================
