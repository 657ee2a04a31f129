---------------------------- MODULE RateLimiter ----------------------------
(***************************************************************************)
(* The rate limiter of libs/common/middleware: the tables that             *)
(* InitializeLimiters builds when a process starts, and the two            *)
(* middlewares that count requests in fixed windows kept in Redis, which   *)
(* the processes of a service share.                                       *)
(*                                                                         *)
(* A counter belongs to an identifier and the address a request is counted *)
(* under; its window opens with the first request and closes one period    *)
(* later.  The script of the limiter's store increments and reads it in    *)
(* one step: a hit.  A request keeps the hit it drew.                      *)
(***************************************************************************)
EXTENDS Integers, FiniteSets

CONSTANTS
    Processes,
    Requests,
    GrpcRequests, \* those that come over gRPC; the others come over HTTP
    ProcessOf,    \* ProcessOf[r]: the process that serves r
    Names,        \* endpoints: gRPC methods, and "METHOD:path" of HTTP
    DefaultName,  \* DefaultRateLimitIdentifier as an endpoint
    Identifiers,
    DefaultRate,  \* the rate that activeRateLimits has at first
    Rates,        \* what a service configures: a function from endpoints to
                  \* rates, each with the set of its aliases
    Headers,      \* values of x-forwarded-for
    NoHeader,
    FirstAddress, \* the first address in a header, NoHeader if there is none
    Peers,        \* addresses of clients and of their connections
    MaxTime,      \* bound of the clock
    MaxLostCounts \* bound of increments whose answer is lost

RateOf(r) == [identifier |-> r.identifier, limit |-> r.limit,
              period |-> r.period]
Rate == [identifier : Identifiers, limit : Nat, period : Nat \ {0}]
AliasedRate == [identifier : Identifiers, limit : Nat, period : Nat \ {0},
                aliases : SUBSET Names]

ASSUME RequestAssumption ==
    GrpcRequests \subseteq Requests /\ ProcessOf \in [Requests -> Processes]
ASSUME NameAssumption == DefaultName \in Names
ASSUME RateAssumption ==
    /\ DOMAIN Rates \subseteq Names
    /\ \A n \in DOMAIN Rates : Rates[n] \in AliasedRate
    /\ DefaultRate \in Rate
ASSUME HeaderAssumption ==
    /\ NoHeader \notin Headers \cup Peers
    /\ FirstAddress \in [Headers \cup {NoHeader} -> Peers \cup {NoHeader}]
    /\ FirstAddress[NoHeader] = NoHeader
ASSUME BoundAssumption == MaxTime \in Nat /\ MaxLostCounts \in Nat

\* What the handlers configure: rates that share an identifier, or an endpoint,
\* agree.  The code does not check it.
ASSUME AgreementAssumption ==
    /\ \A m, n \in DOMAIN Rates :
          \/ Rates[m].identifier = Rates[n].identifier
          \/ ({m} \cup Rates[m].aliases) \cap ({n} \cup Rates[n].aliases) # {}
          => RateOf(Rates[m]) = RateOf(Rates[n])
    /\ \A n \in DOMAIN Rates :
          \/ Rates[n].identifier = DefaultRate.identifier
          \/ DefaultName \in {n} \cup Rates[n].aliases
          => RateOf(Rates[n]) = DefaultRate

Addresses == Headers \cup Peers
Counters == Identifiers \X Addresses
Hit == [key : Counters, n : Nat, at : Nat, closes : Nat]
NoHit == [key |-> << NoHeader, NoHeader >>, n |-> 0, at |-> 0, closes |-> 0]

VARIABLES
    now,
    count, closes, \* count[k], closes[k]: a counter and the end of its window
    hits,          \* every increment: its counter, number, time and window
    lost,          \* how many of them had no answer
    active,        \* active[p]: activeRateLimits of p, empty before it starts
    limiters,      \* limiters[p]: the limiters of p, each with its rate
    pc,            \* pc[r]: "idle", "count" or how r left the middleware
    key,           \* key[r]: the counter of r
    hit            \* hit[r]: what it drew

tableVars == << active, limiters >>
counterVars == << now, count, closes, hits, lost >>
requestVars == << key, hit >>
vars == << counterVars, tableVars, pc, requestVars >>

Outcomes == {"admitted", "exempt", "reached", "invalid", "failed"}
Configured == {DefaultName} \cup DOMAIN Rates
                  \cup UNION {Rates[n].aliases : n \in DOMAIN Rates}
Running(p) == active[p] # << >>

TypeOK ==
    /\ now \in Nat /\ lost \in Nat
    /\ count \in [Counters -> Nat]
    /\ closes \in [Counters -> Nat]
    /\ hits \subseteq Hit
    /\ active \in [Processes -> [Configured -> Rate] \cup {<< >>}]
    /\ limiters \in [Processes -> SUBSET Rate]
    /\ pc \in [Requests -> {"idle", "count"} \cup Outcomes]
    /\ key \in [Requests -> Counters \cup {NoHit.key}]
    /\ hit \in [Requests -> Hit \cup {NoHit}]

Init ==
    /\ now = 0 /\ lost = 0
    /\ count = [k \in Counters |-> 0]
    /\ closes = [k \in Counters |-> 0]
    /\ hits = {}
    /\ active = [p \in Processes |-> << >>]
    /\ limiters = [p \in Processes |-> {}]
    /\ pc = [r \in Requests |-> "idle"]
    /\ key = [r \in Requests |-> NoHit.key]
    /\ hit = [r \in Requests |-> NoHit]

-----------------------------------------------------------------------------
(* InitializeLimiters, when a process starts.  Both loops range over maps, *)
(* in any order.                                                           *)

\* The configured endpoints that write the rate of e.
Owners(e) == {n \in DOMAIN Rates : e = n \/ e \in Rates[n].aliases}

\* The rate an alias gets; in the variant, an identifier of its own.
ApartAliasRate(n) ==
    [RateOf(Rates[n]) EXCEPT !.identifier = DefaultRate.identifier]
AliasRate(n) == RateOf(Rates[n])

Written(e, n) == IF e = n THEN RateOf(Rates[n]) ELSE AliasRate(n)

\* The first loop: of the rates that are written to an endpoint the last stays.
Contested == {e \in Configured : \E m, n \in Owners(e) : m # n}
Orders == {last \in [Contested -> DOMAIN Rates] :
               \A e \in Contested : last[e] \in Owners(e)}
Remaining(e, last) ==
    CASE Owners(e) = {} -> DefaultRate
      [] e \in Contested -> Written(e, last[e])
      [] OTHER -> Written(e, CHOOSE n \in Owners(e) : TRUE)

ActiveRates == {[e \in Configured |-> Remaining(e, last)] : last \in Orders}

\* The second loop: the first rate with an identifier makes its limiter.
Limiters(f) ==
    LET rates == {f[e] : e \in DOMAIN f}
    IN  {made \in SUBSET rates :
            /\ \A x \in rates : \E y \in made : x.identifier = y.identifier
            /\ \A x, y \in made : x.identifier = y.identifier => x = y}

InitializeLimiters(p) ==
    /\ ~Running(p)
    /\ \E f \in ActiveRates : \E g \in Limiters(f) :
          /\ active' = [active EXCEPT ![p] = f]
          /\ limiters' = [limiters EXCEPT ![p] = g]
    /\ UNCHANGED << counterVars, pc, requestVars >>

-----------------------------------------------------------------------------
(* GrpcRateLimiter and HTTPRateLimiter.                                    *)

EndpointRate(p, name) == active[p][IF name \in Configured THEN name
                                                          ELSE DefaultName]

\* The address a request is counted under.  gRPC takes the header whole and
\* needs it; HTTP takes its first address, or else that of the connection.
ClientIP(r, header, peer) ==
    IF r \in GrpcRequests THEN header
    ELSE IF FirstAddress[header] # NoHeader THEN FirstAddress[header] ELSE peer

Reach(r, step) ==
    /\ pc[r] = "idle"
    /\ Running(ProcessOf[r])
    /\ pc' = [pc EXCEPT ![r] = step]

Enter(r, name, header, peer) ==
    LET ip == ClientIP(r, header, peer)
        id == EndpointRate(ProcessOf[r], name).identifier
    IN  /\ \/ /\ ip = NoHeader
              /\ Reach(r, "invalid")
              /\ UNCHANGED key
           \/ /\ ip # NoHeader
              /\ Reach(r, "count")
              /\ key' = [key EXCEPT ![r] = << id, ip >>]
        /\ UNCHANGED << counterVars, tableVars, hit >>

\* A request of an authenticated service is not counted.
Exempt(r) ==
    /\ Reach(r, "exempt")
    /\ UNCHANGED << counterVars, tableVars, requestVars >>

Open(k) == now < closes[k]

\* When the window of a counter ends.  In the variant every request puts it off.
SlidingClose(k, period) == now + period
WindowEnd(k, period) == IF Open(k) THEN closes[k] ELSE now + period

\* The script that increments a counter and sets its expiry with the first hit.
Increment(k, period) ==
    LET h == [key |-> k, n |-> IF Open(k) THEN count[k] + 1 ELSE 1,
              at |-> now, closes |-> WindowEnd(k, period)]
    IN  /\ count' = [count EXCEPT ![k] = h.n]
        /\ closes' = [closes EXCEPT ![k] = h.closes]
        /\ hits' = hits \cup {h}
        /\ UNCHANGED now

\* The request that draws the limit is let in; in the variant, one more.
ReachedLate(n, limit) == n > limit + 1
Reached(n, limit) == n > limit

\* The limiter of the request's identifier; ConfiguredRateIsEnforced says that
\* it is there.
LimiterOf(r) == CHOOSE x \in limiters[ProcessOf[r]] : x.identifier = key[r][1]

\* The hit is drawn; sending the headers may fail over gRPC.
Draw(r) ==
    /\ pc[r] = "count"
    /\ Increment(key[r], LimiterOf(r).period)
    /\ hit' = [hit EXCEPT ![r] =
                  [key |-> key[r], n |-> count'[key[r]], at |-> now,
                   closes |-> closes'[key[r]]]]
    /\ UNCHANGED << lost, tableVars, key >>

Count(r) ==
    /\ Draw(r)
    /\ pc' = [pc EXCEPT ![r] = IF Reached(count'[key[r]], LimiterOf(r).limit)
                               THEN "reached" ELSE "admitted"]

SendHeaderFails(r) ==
    /\ r \in GrpcRequests
    /\ Draw(r)
    /\ pc' = [pc EXCEPT ![r] = "failed"]

\* The script runs, its answer is lost and the client sends it again.
CountUnanswered(r) ==
    /\ pc[r] = "count"
    /\ lost < MaxLostCounts
    /\ Increment(key[r], LimiterOf(r).period)
    /\ lost' = lost + 1
    /\ UNCHANGED << tableVars, pc, requestVars >>

\* An error for gRPC, and for HTTP a panic that ends the connection.
StoreFails(r) ==
    /\ pc[r] = "count"
    /\ pc' = [pc EXCEPT ![r] = "failed"]
    /\ UNCHANGED << counterVars, tableVars, requestVars, hit >>

-----------------------------------------------------------------------------
Tick ==
    /\ now < MaxTime
    /\ now' = now + 1
    /\ UNCHANGED << count, closes, hits, lost, tableVars, pc, requestVars >>

\* A process stops with its requests and its tables; the counters stay.
Stop(p) ==
    /\ Running(p)
    /\ active' = [active EXCEPT ![p] = << >>]
    /\ limiters' = [limiters EXCEPT ![p] = {}]
    /\ pc' = [r \in Requests |-> IF ProcessOf[r] = p /\ pc[r] = "count"
                                 THEN "failed" ELSE pc[r]]
    /\ UNCHANGED << counterVars, requestVars >>

Terminated ==
    /\ now = MaxTime
    /\ \A r \in Requests : pc[r] \in Outcomes
    /\ UNCHANGED vars

Middleware(r) ==
    \/ \E name \in Names, header \in Headers \cup {NoHeader}, peer \in Peers :
          Enter(r, name, header, peer)
    \/ Exempt(r)
    \/ Count(r)
    \/ SendHeaderFails(r)
    \/ CountUnanswered(r)
    \/ StoreFails(r)

Next ==
    \/ \E r \in Requests : Middleware(r)
    \/ \E p \in Processes : InitializeLimiters(p) \/ Stop(p)
    \/ Tick
    \/ Terminated

Spec == Init /\ [][Next]_vars

-----------------------------------------------------------------------------
(* Properties.                                                             *)

\* What the configuration says of an endpoint: its own rate, that of the
\* endpoint it is an alias of, or the default.
RateFor(name) ==
    IF Owners(name) = {} THEN DefaultRate
                         ELSE RateOf(Rates[CHOOSE n \in Owners(name) : TRUE])

\* Whatever the order in which its maps were read, a process that has started
\* enforces for every endpoint the rate the configuration gives it; so two
\* processes enforce the same.
ConfiguredRateIsEnforced ==
    \A p \in Processes, name \in Names :
        Running(p) =>
            {x \in limiters[p] : x.identifier = EndpointRate(p, name).identifier}
                = {RateFor(name)}

Admitted == {r \in Requests : pc[r] = "admitted"}

\* The limit and the period that belong to an identifier.
Enforced(i) == RateFor(CHOOSE name \in Configured : RateFor(name).identifier = i)
Limit(k) == Enforced(k[1]).limit
Period(k) == Enforced(k[1]).period

\* All the processes and both transports together let in no more requests of an
\* identifier and address in one window than the limit.
WindowIsNeverOverrun ==
    \A r \in Admitted :
        Cardinality({s \in Admitted : /\ hit[s].key = hit[r].key
                                      /\ hit[s].closes = hit[r].closes})
            <= Limit(hit[r].key)

\* A window is counted from its first request, so around the end of one the
\* limit can be exceeded within a period, but never more than twofold.
BurstIsAtMostTwofold ==
    \A r \in Admitted :
        Cardinality({s \in Admitted :
                        /\ hit[s].key = hit[r].key
                        /\ hit[s].at \in hit[r].at .. hit[r].at
                                             + Period(hit[r].key) - 1})
            <= 2 * Limit(hit[r].key)

\* A request is turned away only if more than the limit were counted within the
\* period before it, itself and unanswered increments included: requests that
\* are turned away do not keep a client out.
RefusalIsEarned ==
    \A r \in Requests :
        pc[r] = "reached" =>
            Cardinality({h \in hits :
                            /\ h.key = key[r]
                            /\ h.at <= hit[r].at
                            /\ hit[r].at < h.at + Period(key[r])})
                > Limit(key[r])

-----------------------------------------------------------------------------
(* The inductive invariant behind these properties.                        *)

ConfiguredRates == {RateFor(e) : e \in Configured}

\* A process that runs has the tables that the configuration tells.
TableInv ==
    \A p \in Processes :
        Running(p) => /\ active[p] = [e \in Configured |-> RateFor(e)]
                      /\ limiters[p] = ConfiguredRates

Limited(k) == k \in Counters /\ \E x \in ConfiguredRates : x.identifier = k[1]

\* A counter that is waited for or was drawn from has a limiter.
KeyInv ==
    \A r \in Requests :
        /\ pc[r] = "count" => Running(ProcessOf[r])
        /\ pc[r] \in {"count", "admitted", "reached"} => Limited(key[r])

\* A hit lies in a window of its counter, which it found or opened.
HitInv ==
    /\ IsFiniteSet(hits)
    /\ \A h \in hits :
          /\ Limited(h.key)
          /\ h.at <= now /\ h.at < h.closes
          /\ h.closes <= h.at + Period(h.key)
          /\ h.closes <= closes[h.key]
          /\ h.n >= 1
          /\ h.closes = closes[h.key] => h.n <= count[h.key]

\* The windows of a counter do not overlap.
WindowInv ==
    \A g, h \in hits :
        g.key = h.key /\ g.closes < h.closes =>
            g.closes + Period(g.key) <= h.closes

\* The hits of a window are numbered without a gap.
NumberInv ==
    /\ \A k \in Counters : closes[k] > 0 => count[k] >= 1
    /\ \A k \in Counters : \A i \in 1 .. count[k] :
          \E g \in hits : g.key = k /\ g.n = i /\ g.closes = closes[k]
    /\ \A h \in hits : \A i \in 1 .. h.n :
          \E g \in hits : /\ g.key = h.key /\ g.n = i /\ g.closes = h.closes
                         /\ g.at <= h.at

\* A request has drawn a hit that no other request has.
DrawInv ==
    /\ \A r \in Requests :
          pc[r] \in {"admitted", "reached"} =>
              /\ hit[r] \in hits /\ hit[r].key = key[r]
              /\ pc[r] = "admitted" => hit[r].n <= Limit(key[r])
              /\ pc[r] = "reached" => hit[r].n > Limit(key[r])
    /\ \A r, s \in Admitted :
          /\ hit[r].key = hit[s].key
          /\ hit[r].closes = hit[s].closes
          /\ hit[r].n = hit[s].n
          => r = s

IndInv ==
    /\ TypeOK
    /\ TableInv
    /\ KeyInv
    /\ HitInv
    /\ WindowInv
    /\ NumberInv
    /\ DrawInv
=============================================================================
