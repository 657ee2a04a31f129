---------------------------- MODULE MCAuthService ----------------------------
(* Values for the constants of AuthService.                                *)
EXTENDS AuthService, TLC

CONSTANTS g1, h1, p1, p2, k1

Ones == [m \in Methods |-> 1]

\* The method that is for services, and both ways to one that is not, with the
\* other verb of its path and a path without a method.
AskedOnes == {<< "GRPC", "Authenticate" >>,
              << "GRPC", "GetSIWEPayload" >>, << "GET", "siwe-payload" >>,
              << "POST", "siwe-payload" >>, << "POST", "nowhere" >>}

FirstAlone == "client" :> "client" @@ "none" :> "none"
OneKey == { << k1 >> }
\* A signer whose clock is behind.
Behind == { -1 }

\* A bound of the run: one service or none calls, and answers of the store are
\* lost only when none does.
OneService ==
    LET signed == {p \in Payloads : key[p] # NoKey}
    IN  signed = {} \/ (Cardinality(signed) = 1 /\ lost = 0)
=============================================================================
