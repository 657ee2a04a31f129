--------------------------- MODULE MCRateLimiter ---------------------------
(* Values for the constants of RateLimiter.                                *)
EXTENDS RateLimiter, TLC

CONSTANTS p1, p2, g1, g2, h1

\* Two gRPC methods that share an identifier and an alias, an endpoint without
\* a rate, and the default.
SharedRates ==
    "Refresh" :> [identifier |-> "tokens", limit |-> 1, period |-> 2,
                  aliases |-> {"POST:refresh"}] @@
    "Revoke" :> [identifier |-> "tokens", limit |-> 1, period |-> 2,
                 aliases |-> {"POST:refresh"}]

SmallDefault == [identifier |-> "default", limit |-> 2, period |-> 2]

FirstAlone == "client" :> "client" @@ "none" :> "none"

Spread == g1 :> p1 @@ h1 :> p1 @@ g2 :> p2
=============================================================================
