----------------------------- MODULE AuthService -----------------------------
(***************************************************************************)
(* A request on its way through a process of the auth service, over gRPC   *)
(* or over the HTTP gateway: metadata, ServiceAuthentication, RateLimiter, *)
(* logger, and then the method.  It extends the module of the first of     *)
(* these with an instance of the second: a request that the first          *)
(* authenticates is not counted by the second.                             *)
(*                                                                         *)
(* gRPC decodes a request before its interceptors run, the gateway after   *)
(* its middlewares.  The gateway calls the methods in the process, without *)
(* the interceptors.  What the methods do is in modules of their own.      *)
(***************************************************************************)
EXTENDS ServiceAuthentication, FiniteSets

CONSTANTS
    GrpcRequests,
    Asked,         \* the endpoints that requests are sent to
    LimitOf,       \* LimitOf[m]: how often m may be called in a LimitPeriod
    LimitPeriod, DefaultLimit,
    Headers, NoHeader, FirstAddress, Peers, MaxLostCounts,
    OfAllowed      \* payloads that name one of allowedServices

VARIABLES
    count, closes, hits, lost, active, limiters, limitPc, limitKey, hit,
    stage,    \* stage[r]: where r is
    endpoint, \* endpoint[r]: verb and name that r is sent to
    served,   \* served[r]: the method that ran for r, "none" if none did
    answer,   \* answer[r]: the status r got
    logged    \* logged[r]: the status in the log

limiterRest == << count, closes, hits, lost, active, limiters, limitPc,
                  limitKey, hit >>
authRest == << entries, publicKeys, key, stamp, pc, payload, beganAt, readAt,
               storedAt, stored, precededBy >>
requestVars == << stage, endpoint, served, answer, logged >>
serviceVars == << now, limiterRest, authRest, requestVars >>

-----------------------------------------------------------------------------
(* What the generated code registers, and what the handler configures.     *)

Methods == {"GetSIWEPayload", "Authenticate", "VerifyAccessToken",
            "RefreshAccessToken", "RevokeRefreshTokens"}
GrpcEndpoint(m) == << "GRPC", m >>

\* The route of the gateway to each method.
Routes == [GetSIWEPayload      |-> << "GET", "siwe-payload" >>,
           Authenticate        |-> << "POST", "authenticate" >>,
           VerifyAccessToken   |-> << "POST", "verify-access-token" >>,
           RefreshAccessToken  |-> << "POST", "refresh-access-token" >>,
           RevokeRefreshTokens |-> << "POST", "revoke-refresh-tokens" >>]

\* The alias under which each method is limited; the variant has a wrong verb.
AliasesMistyped == [m \in Methods |-> << "POST", Routes[m][2] >>]
Aliases == [GetSIWEPayload      |-> << "GET", "siwe-payload" >>,
            Authenticate        |-> << "POST", "authenticate" >>,
            VerifyAccessToken   |-> << "POST", "verify-access-token" >>,
            RefreshAccessToken  |-> << "POST", "refresh-access-token" >>,
            RevokeRefreshTokens |-> << "POST", "revoke-refresh-tokens" >>]

RateLimits ==
    [e \in {GrpcEndpoint(m) : m \in Methods} |->
        [identifier |-> e[2], limit |-> LimitOf[e[2]], period |-> LimitPeriod,
         aliases |-> {Aliases[e[2]]}]]

Default == "default_rate_limit"
DefaultEndpoint == << "default", Default >>

Endpoints == Asked \cup {DefaultEndpoint}
                 \cup {GrpcEndpoint(m) : m \in Methods}
                 \cup {Aliases[m] : m \in Methods}

ASSUME LimiterAssumption ==
    /\ GrpcRequests \subseteq Requests
    /\ LimitOf \in [Methods -> Nat]
    /\ LimitPeriod \in Nat \ {0}
    /\ DefaultLimit \in Nat
    /\ MaxLostCounts \in Nat
    /\ NoHeader \notin Headers \cup Peers
    /\ FirstAddress \in [Headers \cup {NoHeader} -> Peers \cup {NoHeader}]
    /\ FirstAddress[NoHeader] = NoHeader
ASSUME AllowedAssumption == OfAllowed \subseteq Payloads

\* The limiter, by way of the module that extends it with theorems.
Limiter == INSTANCE RateLimiterProofs WITH
    pc <- limitPc,
    key <- limitKey,
    Processes <- {"auth"},
    ProcessOf <- [r \in Requests |-> "auth"],
    Names <- Endpoints,
    DefaultName <- DefaultEndpoint,
    Identifiers <- Methods \cup {Default},
    DefaultRate <- [identifier |-> Default, limit |-> DefaultLimit,
                    period |-> LimitPeriod],
    Rates <- RateLimits

-----------------------------------------------------------------------------
Stages == {"idle", "authenticate", "limit", "serve", "done"}
Answers == {"none", "OK", "Error", "InvalidArgument", "PermissionDenied",
            "ResourceExhausted", "Internal", "Unimplemented", "NotFound",
            "Unavailable"}

ServiceTypeOK ==
    /\ Limiter!TypeOK
    /\ TypeOK
    /\ stage \in [Requests -> Stages]
    /\ endpoint \in [Requests -> Asked \cup {DefaultEndpoint}]
    /\ served \in [Requests -> Methods \cup {"none"}]
    /\ answer \in [Requests -> Answers]
    /\ logged \in [Requests -> Answers]

ServiceInit ==
    /\ Limiter!Init
    /\ Init
    /\ stage = [r \in Requests |-> "idle"]
    /\ endpoint = [r \in Requests |-> DefaultEndpoint]
    /\ served = [r \in Requests |-> "none"]
    /\ answer = [r \in Requests |-> "none"]
    /\ logged = [r \in Requests |-> "none"]

Enter(r, s) == stage' = [stage EXCEPT ![r] = s]

\* Outside of the logger, which is the innermost middleware.
Refuse(r, a) ==
    /\ Enter(r, "done")
    /\ answer' = [answer EXCEPT ![r] = a]
    /\ UNCHANGED << served, logged >>

-----------------------------------------------------------------------------
(* The middlewares.                                                        *)

\* ExtractMetadata, and the beginning of authenticateService.
Receive(r, e, p) ==
    /\ stage[r] = "idle"
    /\ Limiter!Running("auth")
    /\ r \in GrpcRequests <=> e[1] = "GRPC"
    /\ endpoint' = [endpoint EXCEPT ![r] = e]
    /\ Begin(r, p)
    /\ Enter(r, IF pc'[r] = "read" THEN "authenticate" ELSE "limit")
    /\ UNCHANGED << limiterRest, served, answer, logged >>

\* gRPC knows no such method, or cannot decode the request.
RejectGrpc(r) ==
    /\ stage[r] = "idle"
    /\ Limiter!Running("auth")
    /\ r \in GrpcRequests
    /\ \E a \in {"Unimplemented", "Internal"} : Refuse(r, a)
    /\ UNCHANGED << now, limiterRest, authRest, endpoint >>

CheckService(r) ==
    /\ stage[r] = "authenticate"
    /\ \/ ReadCache(r)
       \/ StoreSignature(r)
       \/ StoreUnanswered(r)
       \/ CacheFails(r)
    /\ Enter(r, IF pc'[r] \in Ended THEN "limit" ELSE "authenticate")
    /\ UNCHANGED << limiterRest, endpoint, served, answer, logged >>

\* The context holds the name of a service; in one variant the request names
\* one, in the other the limiter comes first.
ShouldRateLimitByHeader(r) == payload[r] = NoPayload
ShouldRateLimitAll(r) == TRUE
ShouldRateLimit(r) == pc[r] # "authenticated"

\* The status of a refusal; the variant has none for a failing store.
RefusalOfMost(outcome) ==
    IF outcome = "invalid" THEN "InvalidArgument"
    ELSE IF outcome = "reached" THEN "ResourceExhausted" ELSE outcome
Refusal(outcome) ==
    CASE outcome = "invalid" -> "InvalidArgument"
      [] outcome = "reached" -> "ResourceExhausted"
      [] outcome = "failed" -> "Internal"

\* Nothing reads x-forwarded-for before the limiter, so it is chosen here.
RateLimit(r) ==
    /\ stage[r] = "limit"
    /\ \/ ~ShouldRateLimit(r) /\ Limiter!Exempt(r)
       \/ /\ ShouldRateLimit(r)
          /\ \E header \in Headers \cup {NoHeader}, peer \in Peers :
                Limiter!Enter(r, endpoint[r], header, peer)
       \/ Limiter!Count(r)
       \/ Limiter!SendHeaderFails(r)
       \/ Limiter!CountUnanswered(r)
       \/ Limiter!StoreFails(r)
    /\ \/ /\ limitPc'[r] = "count"
          /\ UNCHANGED << stage, served, answer, logged >>
       \/ /\ limitPc'[r] \in {"admitted", "exempt"}
          /\ Enter(r, "serve")
          /\ UNCHANGED << served, answer, logged >>
       \/ /\ limitPc'[r] \in {"invalid", "reached", "failed"}
          /\ Refuse(r, Refusal(limitPc'[r]))
    /\ UNCHANGED << authRest, endpoint >>

-----------------------------------------------------------------------------
(* The logger, and in it the methods.                                      *)

\* What the logger writes when the handler has returned.
Recorded(a) == a

Return(r, m, a) ==
    /\ stage[r] = "serve"
    /\ Enter(r, "done")
    /\ served' = [served EXCEPT ![r] = m]
    /\ answer' = [answer EXCEPT ![r] = a]
    /\ logged' = [logged EXCEPT ![r] = Recorded(a)]
    /\ UNCHANGED << now, limiterRest, authRest, endpoint >>

\* A form is served by a GET route although it is posted.
AsForm(m, e) == e = << "POST", Routes[m][2] >> /\ Routes[m][1] = "GET"

Serves(m, r) ==
    IF r \in GrpcRequests THEN endpoint[r] = GrpcEndpoint(m)
    ELSE endpoint[r] = Routes[m] \/ AsForm(m, endpoint[r])

NoRoute(r) ==
    /\ \/ \A m \in Methods : ~Serves(m, r)
       \/ \E m \in Methods : AsForm(m, endpoint[r])  \* it is not a form
    /\ Return(r, "none", "NotFound")

\* The gateway cannot read the headers or decode the request.
Undecodable(r) ==
    /\ r \notin GrpcRequests
    /\ \E m \in Methods : Serves(m, r)
    /\ Return(r, "none", "InvalidArgument")

\* AuthorizeService, for which the service must be one of allowedServices.
Authorized(r) == pc[r] = "authenticated" /\ payload[r] \in OfAllowed

Deny(r) ==
    /\ Serves("Authenticate", r)
    /\ \/ Return(r, "none", "InvalidArgument")
       \/ ~Authorized(r) /\ Return(r, "none", "PermissionDenied")

Serve(r) ==
    \E m \in Methods :
        /\ Serves(m, r)
        /\ m = "Authenticate" => Authorized(r)
        /\ \E a \in {"OK", "Error"} : Return(r, m, a)

-----------------------------------------------------------------------------
(* The rest of the system.                                                 *)

\* server.New, called for both servers, initialises the limiters once.
Start ==
    /\ Limiter!InitializeLimiters("auth")
    /\ UNCHANGED << authRest, requestVars >>

Stop ==
    /\ Limiter!Stop("auth")
    /\ StopAll
    /\ stage' = [r \in Requests |-> IF stage[r] = "idle" THEN "idle" ELSE "done"]
    /\ answer' = [r \in Requests |-> IF stage[r] \in {"idle", "done"}
                                     THEN answer[r] ELSE "Unavailable"]
    /\ UNCHANGED << endpoint, served, logged >>

GeneratePayload(p) ==
    /\ \E k \in Keys, skew \in Skews : Generate(p, k, skew)
    /\ UNCHANGED << limiterRest, requestVars >>

ServiceTick == Limiter!Tick /\ Tick /\ UNCHANGED requestVars

ServiceTerminated ==
    /\ \A r \in Requests : stage[r] = "done"
    /\ now = MaxTime
    /\ UNCHANGED serviceVars

Handle(r) ==
    \/ \E e \in Asked,
          p \in {q \in Payloads : key[q] # NoKey} \cup {NoPayload} :
        Receive(r, e, p)
    \/ RejectGrpc(r)
    \/ CheckService(r)
    \/ RateLimit(r)
    \/ NoRoute(r) \/ Undecodable(r) \/ Deny(r) \/ Serve(r)

ServiceNext ==
    \/ \E r \in Requests : Handle(r)
    \/ \E p \in Payloads : GeneratePayload(p)
    \/ Start \/ Stop
    \/ ServiceTick
    \/ ServiceTerminated

ServiceSpec == ServiceInit /\ [][ServiceNext]_serviceVars

-----------------------------------------------------------------------------
(* Properties.                                                             *)

Served(r) == served[r] # "none"
Uncounted(r) == hit[r] = Limiter!NoHit

\* For an address, the requests of unauthenticated callers that a method
\* serves in one window, over gRPC and by its route together, are not more than
\* its limit: the table of limits fits the table of routes.  (A form posted to
\* a GET route is counted under the default instead.)
MethodsKeepTheirLimits ==
    \A r \in Requests :
        Served(r) /\ ~Uncounted(r) =>
            Cardinality({s \in Requests :
                            /\ served[s] = served[r]
                            /\ ~Uncounted(s)
                            /\ ~AsForm(served[s], endpoint[s])
                            /\ hit[s].key[2] = hit[r].key[2]
                            /\ hit[s].closes = hit[r].closes})
                <= LimitOf[served[r]]

\* Whatever is let through on trust is vouched for: a method runs uncounted, and
\* Authenticate runs at all, only for a request whose payload was verified while
\* it was fresh, and whose signature this request has stored.  So the limit
\* configured for Authenticate counts none but requests that it denies.
TrustIsVouchedFor ==
    \A r \in Requests :
        /\ Served(r)
        /\ Uncounted(r) \/ served[r] = "Authenticate"
        => /\ r \in stored
           /\ Verified(payload[r])
           /\ beganAt[r] <= stamp[payload[r]] + Duration
           /\ Uncounted(r)
           /\ served[r] = "Authenticate" => payload[r] \in OfAllowed

\* A request with a good payload of an allowed service is neither denied nor
\* limited, whatever the traffic of others, unless the cache fails it or its
\* signature was stored by another request.
ServicesAreLetThrough ==
    \A r \in Requests :
        /\ answer[r] \in {"PermissionDenied", "ResourceExhausted"}
        /\ payload[r] \in OfAllowed
        /\ beganAt[r] <= stamp[payload[r]] + Duration
        /\ Verified(payload[r])
        => pc[r] = "failed" \/ \E q \in stored \ {r} : payload[q] = payload[r]

-----------------------------------------------------------------------------
(* The inductive invariant behind these properties.                        *)

\* A request is in one middleware at a time, from the first to the method.
StageInv ==
    \A r \in Requests :
        /\ stage[r] = "idle" => pc[r] = "idle" /\ limitPc[r] = "idle"
        /\ stage[r] = "authenticate" =>
            pc[r] \in InProgress /\ limitPc[r] = "idle"
        /\ stage[r] = "limit" => pc[r] \in Ended /\ limitPc[r] \in {"idle", "count"}
        /\ stage[r] = "serve" => limitPc[r] \in {"admitted", "exempt"}
        /\ stage[r] = "done" => pc[r] \notin InProgress /\ limitPc[r] # "count"

\* Authenticated requests are exempt, and no others.
TrustInv ==
    \A r \in Requests :
        /\ limitPc[r] # "idle" => pc[r] \in Ended
        /\ limitPc[r] = "exempt" => pc[r] = "authenticated"
        /\ limitPc[r] \in {"count", "admitted", "reached"} =>
            pc[r] # "authenticated"

\* A request is counted under the identifier of its own endpoint, if at all.
CountInv ==
    \A r \in Requests :
        /\ limitPc[r] \in {"idle", "count", "exempt"} => Uncounted(r)
        /\ limitPc[r] \in {"count", "admitted"} =>
            limitKey[r][1] = Limiter!RateFor(endpoint[r]).identifier

\* What an answer says of the way there.
AnswerInv ==
    \A r \in Requests :
        /\ Served(r) =>
            /\ stage[r] = "done"
            /\ limitPc[r] \in {"admitted", "exempt"}
            /\ Serves(served[r], r)
            /\ served[r] = "Authenticate" => Authorized(r)
        /\ answer[r] = "PermissionDenied" => pc[r] \in Ended /\ ~Authorized(r)
        /\ answer[r] = "ResourceExhausted" => limitPc[r] = "reached"

ServiceIndInv ==
    /\ ServiceTypeOK
    /\ IndInv
    /\ Limiter!IndInv
    /\ StageInv
    /\ TrustInv
    /\ CountInv
    /\ AnswerInv
=============================================================================
