--------------------------- MODULE AuthServiceProofs ---------------------------
(***************************************************************************)
(* Theorems about ServiceAuthentication, for every number of payloads and  *)
(* requests, every list of keys, clock difference and duration, and about  *)
(* AuthService, for every limit, period and set of endpoints asked for     *)
(* besides.                                                                *)
(***************************************************************************)
EXTENDS AuthService, FiniteSetTheorems, FunctionTheorems, TLAPS

USE PayloadAssumption, KeyAssumption, TimeAssumption

USE DEF GoTo, InProgress, Ended, cacheVars, signerVars, Authenticated, CacheKey

-----------------------------------------------------------------------------
\* The cache is empty, and no request has begun.
LEMMA InitInv == Init => IndInv
  <1> SUFFICES ASSUME Init PROVE IndInv
    OBVIOUS
  <1> USE DEF Init
  <1>1. TypeOK
    BY DEF TypeOK, Cache!Init, Cache!TypeOK, Cache!Entries, Cache!Absent
  <1>2. BeginInv /\ StoredInv /\ FreshInv /\ ReadInv /\ NoFalseReplay
    BY DEF BeginInv, StoredInv, FreshInv, ReadInv, NoFalseReplay
  <1>3. EntryInv
    BY DEF EntryInv, Cache!Init, Cache!Absent
  <1> QED
    BY <1>1, <1>2, <1>3 DEF IndInv

-----------------------------------------------------------------------------
(* One lemma for each action: it preserves the invariant.                  *)

\* No request has presented a payload that is only being made.
LEMMA GenerateStep ==
    ASSUME IndInv, NEW p \in Payloads, NEW k \in Keys, NEW skew \in Skews,
           Generate(p, k, skew)
    PROVE  IndInv'
  <1> USE DEF IndInv, TypeOK, Generate
  <1>1. TypeOK'
    BY DEF Cache!TypeOK
  <1>2. BeginInv'
    BY <1>1 DEF BeginInv
  <1>3. EntryInv'
    BY DEF EntryInv
  <1>4. StoredInv'
    BY DEF StoredInv
  <1>5. FreshInv'
    BY DEF FreshInv, Verified
  <1>6. ReadInv'
    BY DEF ReadInv
  <1>7. NoFalseReplay'
    <2>1. \A r \in Requests :
            payload[r] \in Payloads =>
                /\ stamp'[payload[r]] = stamp[payload[r]]
                /\ key'[payload[r]] = key[payload[r]]
      BY DEF BeginInv
    <2> QED
      BY <2>1 DEF NoFalseReplay, Verified
  <1> QED
    BY <1>1, <1>2, <1>3, <1>4, <1>5, <1>6, <1>7

\* A request begins with what was made, and after requests that have ended.
LEMMA BeginStep ==
    ASSUME IndInv, NEW r \in Requests, NEW p \in Payloads \cup {NoPayload},
           p \in Payloads => key[p] # NoKey, Begin(r, p)
    PROVE  IndInv'
  <1> USE DEF IndInv, TypeOK
  <1> now \in Nat
    BY DEF Cache!TypeOK
  <1>0. pc[r] = "idle" /\ pc' \in [Requests -> {"idle", "read", "store",
            "authenticated", "refused", "failed"}]
    BY DEF Begin
  <1>1. TypeOK'
    BY <1>0 DEF Begin, Cache!TypeOK
  <1>2. BeginInv'
    BY <1>1 DEF BeginInv, Begin
  <1>3. r \notin stored
    BY <1>0 DEF StoredInv
  <1>4. EntryInv'
    BY <1>3 DEF EntryInv, Begin
  <1>5. StoredInv'
    BY <1>3 DEF StoredInv, Begin
  <1>6. FreshInv'
    BY DEF FreshInv, Verified, Begin, Fresh
  <1>7. ReadInv'
    BY <1>0 DEF ReadInv, Begin
  <1>8. NoFalseReplay'
    BY <1>0, <1>3 DEF NoFalseReplay, Begin, Fresh, Verified
  <1> QED
    BY <1>1, <1>2, <1>4, <1>5, <1>6, <1>7, <1>8

\* A request that finds no entry comes after the end of those of its
\* predecessors; one that finds an entry meets a request that stored it.
LEMMA ReadStep ==
    ASSUME IndInv, NEW r \in Requests, ReadCache(r)
    PROVE  IndInv'
  <1> USE DEF IndInv, TypeOK
  <1> now \in Nat
    BY DEF Cache!TypeOK
  <1>0. /\ pc[r] = "read" /\ pc'[r] \in {"store", "refused"}
        /\ payload[r] \in Payloads
        /\ \A q \in Requests \ {r} : pc'[q] = pc[q]
    BY DEF ReadCache, FreshInv
  <1>1. TypeOK'
    BY DEF ReadCache, Cache!TypeOK
  <1>2. BeginInv'
    BY <1>0 DEF BeginInv, ReadCache
  <1>3. r \notin stored
    BY <1>0 DEF StoredInv
  <1>4. EntryInv'
    BY DEF EntryInv, ReadCache
  <1>5. StoredInv'
    BY <1>0, <1>3 DEF StoredInv, ReadCache
  <1>6. FreshInv'
    BY <1>0 DEF FreshInv, Verified, ReadCache
  <1>7. ReadInv'
    <2> SUFFICES ASSUME NEW s \in Requests, NEW q \in precededBy[s]
                 PROVE  /\ pc'[q] \in Ended
                        /\ /\ pc'[s] \in {"store", "authenticated"}
                           /\ pc'[q] = "authenticated"
                           /\ payload[q] = payload[s]
                           => storedAt[q] + Duration < readAt'[s]
      BY DEF ReadInv, ReadCache
    <2>1. q \in Requests /\ q # r /\ pc[q] \in Ended
      BY <1>0 DEF ReadInv
    <2>2. CASE s # r
      BY <1>0, <2>1, <2>2 DEF ReadInv, ReadCache
    <2>3. CASE s = r
      <3>1. SUFFICES ASSUME pc'[r] = "store", pc[q] = "authenticated",
                            payload[q] = payload[r]
                     PROVE  storedAt[q] + Duration < now
        BY <1>0, <2>1, <2>3 DEF ReadCache
      <3>2. entries[payload[r]].value = NoPayload
        BY <3>1 DEF ReadCache, Cache!Get
      <3> QED
        BY <2>1, <3>1, <3>2 DEF StoredInv
    <2> QED
      BY <2>2, <2>3
  <1>8. NoFalseReplay'
    <2>1. pc'[r] = "refused" => \E q \in stored \ {r} : payload[q] = payload[r]
      BY <1>0, <1>3 DEF ReadCache, Cache!Get, EntryInv
    <2> QED
      BY <1>0, <2>1 DEF NoFalseReplay, ReadCache, Verified
  <1> QED
    BY <1>1, <1>2, <1>4, <1>5, <1>6, <1>7, <1>8

\* What Set leaves in the cache, whoever else has an entry there.
LEMMA RememberStep ==
    ASSUME IndInv, NEW r \in Requests, pc[r] = "store", Remember(r)
    PROVE  /\ Cache!TypeOK'
           /\ now' = now
           /\ entries'[payload[r]].value = payload[r]
           /\ entries'[payload[r]].expiresAt = now + Duration
           /\ \A p \in Payloads \ {payload[r]} : entries'[p] = entries[p]
  BY DEF IndInv, TypeOK, FreshInv, Remember, Cache!Set, Cache!TypeOK,
         Cache!Entries

\* An entry that is written again lives longer than before.
LEMMA StoreStep ==
    ASSUME IndInv, NEW r \in Requests, StoreSignature(r) \/ StoreUnanswered(r)
    PROVE  IndInv'
  <1> USE DEF IndInv, TypeOK
  <1> now \in Nat
    BY DEF Cache!TypeOK
  <1>0. /\ pc[r] = "store" /\ Remember(r)
        /\ stored' = stored \cup {r}
        /\ payload' = payload /\ readAt' = readAt /\ beganAt' = beganAt
        /\ precededBy' = precededBy /\ key' = key /\ stamp' = stamp
        /\ publicKeys' = publicKeys
        /\ pc'[r] \in {"store", "authenticated"}
        /\ \A q \in Requests \ {r} :
              pc'[q] = pc[q] /\ storedAt'[q] = storedAt[q]
        /\ pc'[r] = "authenticated" => storedAt'[r] = now
        /\ payload[r] \in Payloads
    BY DEF StoreSignature, StoreUnanswered, FreshInv
  <1>r. /\ Cache!TypeOK' /\ now' = now
        /\ entries'[payload[r]].value = payload[r]
        /\ entries'[payload[r]].expiresAt = now + Duration
        /\ \A p \in Payloads \ {payload[r]} : entries'[p] = entries[p]
    BY <1>0, RememberStep
  <1>1. TypeOK'
    BY <1>0, <1>r DEF StoreSignature, StoreUnanswered
  <1>2. BeginInv'
    BY <1>0 DEF BeginInv
  <1>3. EntryInv'
    BY <1>0, <1>r DEF EntryInv
  <1>4. StoredInv'
    <2>1. \A q \in stored' : pc'[q] \in {"store", "authenticated", "failed"}
      BY <1>0 DEF StoredInv
    <2>2. ASSUME NEW q \in Requests, pc'[q] = "authenticated"
          PROVE  /\ storedAt'[q] <= now
                 /\ \/ storedAt'[q] + Duration < now
                    \/ /\ entries'[payload[q]].value # NoPayload
                       /\ storedAt'[q] + Duration <=
                             entries'[payload[q]].expiresAt
      <3>1. payload[q] \in Payloads /\ storedAt'[q] \in Nat
        BY <1>0, <1>1, <2>2 DEF FreshInv
      <3>2. storedAt'[q] <= now
        BY <1>0, <2>2 DEF StoredInv
      <3>3. CASE payload[q] = payload[r]
        BY <1>r, <1>0, <3>1, <3>2, <3>3
      <3>4. CASE payload[q] # payload[r]
        BY <1>r, <1>0, <2>2, <3>1, <3>2, <3>4 DEF StoredInv
      <3> QED
        BY <3>3, <3>4
    <2> QED
      BY <1>0, <1>r, <2>1, <2>2 DEF StoredInv
  <1>5. FreshInv'
    BY <1>0 DEF FreshInv, Verified
  <1>6. ReadInv'
    BY <1>0 DEF ReadInv
  <1>7. NoFalseReplay'
    BY <1>0 DEF NoFalseReplay, Verified
  <1> QED
    BY <1>1, <1>2, <1>3, <1>4, <1>5, <1>6, <1>7

\* A request that ends without an answer was not authenticated.
LEMMA EndStep ==
    ASSUME IndInv, (\E r \in Requests : CacheFails(r)) \/ Crash
    PROVE  IndInv'
  <1> USE DEF IndInv, TypeOK
  <1>1. /\ UNCHANGED << cacheVars, signerVars, payload, beganAt, readAt,
                        storedAt, stored, precededBy >>
        /\ \A q \in Requests :
              \/ pc'[q] = pc[q]
              \/ pc[q] \in InProgress /\ pc'[q] = "failed"
        /\ pc' \in [Requests -> {"idle"} \cup InProgress \cup Ended]
    BY DEF CacheFails, Crash, StopAll
  <1>2. TypeOK'
    BY <1>1 DEF Cache!TypeOK
  <1>3. BeginInv' /\ EntryInv' /\ FreshInv'
    BY <1>1 DEF BeginInv, EntryInv, FreshInv, Verified
  <1>4. StoredInv'
    BY <1>1 DEF StoredInv
  <1>5. ReadInv'
    BY <1>1 DEF ReadInv
  <1>6. NoFalseReplay'
    BY <1>1 DEF NoFalseReplay, Verified
  <1> QED
    BY <1>2, <1>3, <1>4, <1>5, <1>6

\* An entry is dropped only after its time.
LEMMA TickStep ==
    ASSUME IndInv, Tick
    PROVE  IndInv'
  <1> USE DEF IndInv, TypeOK
  <1>1. /\ now \in Nat /\ now' = now + 1
        /\ entries \in [Payloads -> Cache!Entries]
        /\ \A p \in Payloads :
              \/ entries'[p] = entries[p]
              \/ /\ entries[p].expiresAt < now'
                 /\ entries'[p] = Cache!Absent
    BY DEF Tick, Cache!Tick, Cache!TypeOK
  <1>2. Cache!TypeOK'
    BY DEF Tick, Cache!Tick, Cache!TypeOK, Cache!Entries, Cache!Absent
  <1>3. TypeOK'
    BY <1>2 DEF Tick
  <1>4. BeginInv' /\ FreshInv' /\ ReadInv' /\ NoFalseReplay'
    BY DEF BeginInv, FreshInv, ReadInv, NoFalseReplay, Verified, Tick
  <1>5. EntryInv'
    BY <1>1 DEF EntryInv, Tick, Cache!Absent
  <1>6. StoredInv'
    <2>1. ASSUME NEW q \in Requests, Authenticated(q)
          PROVE  /\ storedAt[q] <= now'
                 /\ \/ storedAt[q] + Duration < now'
                    \/ /\ entries'[payload[q]].value # NoPayload
                       /\ storedAt[q] + Duration <=
                             entries'[payload[q]].expiresAt
      <3>1. payload[q] \in Payloads /\ storedAt[q] \in Nat
        BY <2>1 DEF FreshInv
      <3>2. entries[payload[q]].expiresAt \in Nat
        BY <1>1, <3>1 DEF Cache!Entries
      <3> QED
        BY <1>1, <2>1, <3>1, <3>2 DEF StoredInv
    <2> QED
      BY <2>1 DEF StoredInv, Tick
  <1> QED
    BY <1>3, <1>4, <1>5, <1>6

\* Every step keeps the invariant.
LEMMA NextInv ==
    ASSUME IndInv, [Next]_vars
    PROVE  IndInv'
  <1>1. CASE \E p \in Payloads, k \in Keys, skew \in Skews :
                Generate(p, k, skew)
    BY <1>1, GenerateStep
  <1>2. ASSUME NEW r \in Requests, AuthenticateService(r)
        PROVE  IndInv'
    <2>1. CASE \E p \in {q \in Payloads : key[q] # NoKey} \cup {NoPayload} :
                  Begin(r, p)
      BY <2>1, BeginStep
    <2>2. CASE ReadCache(r)
      BY <2>2, ReadStep
    <2>3. CASE StoreSignature(r) \/ StoreUnanswered(r)
      BY <2>3, StoreStep
    <2>4. CASE CacheFails(r)
      BY <2>4, EndStep
    <2> QED
      BY <1>2, <2>1, <2>2, <2>3, <2>4 DEF AuthenticateService
  <1>3. CASE Tick
    BY <1>3, TickStep
  <1>4. CASE Crash
    BY <1>4, EndStep
  <1>5. CASE UNCHANGED vars
    BY <1>5 DEF vars, IndInv, TypeOK, Cache!TypeOK, BeginInv, EntryInv,
          StoredInv, FreshInv, ReadInv, NoFalseReplay, Verified
  <1> QED
    BY <1>1, <1>2, <1>3, <1>4, <1>5 DEF Next, Terminated

-----------------------------------------------------------------------------
(* The theorems about ServiceAuthentication.                               *)

\* The invariant that relates the cache, the clock and the requests is kept by
\* every step (GenerateServiceAuthenticationPayload, authenticateService).
THEOREM InductiveInvariant == Spec => []IndInv
  BY InitInv, NextInv, PTL DEF Spec

\* Outside a race a signature is used twice only as late as the text of
\* SecondUseIsLate says, whatever the clocks of the two services show.
THEOREM SingleUseOfSignatures == Spec => []SecondUseIsLate
  <1>1. IndInv => SecondUseIsLate
    <2> SUFFICES ASSUME IndInv, NEW q \in Requests, NEW r \in Requests,
                        Authenticated(q), Authenticated(r),
                        payload[q] = payload[r], q \in precededBy[r]
                 PROVE  readAt[r] - beganAt[r] > storedAt[q] - stamp[payload[r]]
      BY DEF SecondUseIsLate
    <2>1. storedAt[q] + Duration < readAt[r]
      BY DEF IndInv, ReadInv
    <2>2. beganAt[r] <= stamp[payload[r]] + Duration /\ payload[r] \in Payloads
      BY DEF IndInv, FreshInv
    <2> QED
      BY <2>1, <2>2 DEF IndInv, TypeOK
  <1> QED
    BY <1>1, InductiveInvariant, PTL

\* A fresh, well signed payload is turned down for the use of its signature
\* only when its signature has been used.
THEOREM HonestRequestsPass == Spec => []NoFalseReplay
  <1>1. IndInv => NoFalseReplay
    BY DEF IndInv
  <1> QED
    BY <1>1, InductiveInvariant, PTL
-----------------------------------------------------------------------------
HIDE DEF GoTo, InProgress, Ended, cacheVars, signerVars, Authenticated, CacheKey

(* The table of limits and the instance of the limiter.                    *)

LEMMA DistinctEndpoints ==
    ASSUME NEW m \in Methods, NEW n \in Methods
    PROVE  /\ GrpcEndpoint(m) # Aliases[n]
           /\ Aliases[m] = Aliases[n] => m = n
           /\ GrpcEndpoint(m) = GrpcEndpoint(n) => m = n
           /\ DefaultEndpoint # Aliases[m]
           /\ DefaultEndpoint # GrpcEndpoint(m)
           /\ Default # m
  BY DEF GrpcEndpoint, Aliases, Methods, Default, DefaultEndpoint

LEMMA ConfiguredRate ==
    ASSUME NEW m \in Methods
    PROVE  /\ GrpcEndpoint(m) \in DOMAIN RateLimits
           /\ RateLimits[GrpcEndpoint(m)] =
                 [identifier |-> m, limit |-> LimitOf[m],
                  period |-> LimitPeriod, aliases |-> {Aliases[m]}]
           /\ RateLimits[GrpcEndpoint(m)].identifier = m
           /\ RateLimits[GrpcEndpoint(m)].limit = LimitOf[m]
           /\ RateLimits[GrpcEndpoint(m)].period = LimitPeriod
           /\ RateLimits[GrpcEndpoint(m)].aliases = {Aliases[m]}
  BY DEF RateLimits, GrpcEndpoint

LEMMA ConfiguredEndpoint ==
    ASSUME NEW e \in DOMAIN RateLimits
    PROVE  \E m \in Methods : e = GrpcEndpoint(m)
  BY DEF RateLimits

LEMMA LimiterAssumptions ==
    /\ Limiter!RequestAssumption
    /\ Limiter!NameAssumption
    /\ Limiter!RateAssumption
    /\ Limiter!HeaderAssumption
    /\ Limiter!BoundAssumption
    /\ Limiter!AgreementAssumption
  <1>1. Limiter!RequestAssumption /\ Limiter!NameAssumption
    BY LimiterAssumption
       DEF Limiter!RequestAssumption, Limiter!NameAssumption, Endpoints
  <1>2. Limiter!HeaderAssumption /\ Limiter!BoundAssumption
    BY LimiterAssumption, TimeAssumption
       DEF Limiter!HeaderAssumption, Limiter!BoundAssumption
  <1>3. Limiter!RateAssumption
    <2>1. ASSUME NEW e \in DOMAIN RateLimits
          PROVE  e \in Endpoints /\ RateLimits[e] \in Limiter!AliasedRate
      <3>1. PICK m \in Methods : e = GrpcEndpoint(m)
        BY <2>1, ConfiguredEndpoint
      <3>2. /\ m \in Methods \cup {Default}
            /\ LimitOf[m] \in Nat
            /\ LimitPeriod \in Nat \ {0}
            /\ {Aliases[m]} \in SUBSET Endpoints
        BY LimiterAssumption DEF Endpoints
      <3>3. [identifier |-> m, limit |-> LimitOf[m], period |-> LimitPeriod,
             aliases |-> {Aliases[m]}] \in Limiter!AliasedRate
        BY <3>2 DEF Limiter!AliasedRate
      <3>4. RateLimits[e] = [identifier |-> m, limit |-> LimitOf[m],
                             period |-> LimitPeriod, aliases |-> {Aliases[m]}]
        BY <3>1, ConfiguredRate, Zenon
      <3>5. e \in Endpoints
        BY <3>1 DEF Endpoints
      <3> QED
        BY <3>3, <3>4, <3>5, Zenon
    <2> QED
      BY <2>1, LimiterAssumption DEF Limiter!RateAssumption, Limiter!Rate
  <1>4. Limiter!AgreementAssumption
    <2>1. ASSUME NEW d \in DOMAIN RateLimits, NEW e \in DOMAIN RateLimits,
                 \/ RateLimits[d].identifier = RateLimits[e].identifier
                 \/ ({d} \cup RateLimits[d].aliases)
                       \cap ({e} \cup RateLimits[e].aliases) # {}
          PROVE  d = e
      <3>1. PICK m \in Methods, n \in Methods :
                d = GrpcEndpoint(m) /\ e = GrpcEndpoint(n)
        BY ConfiguredEndpoint
      <3>2. /\ RateLimits[d].identifier = m /\ RateLimits[d].aliases = {Aliases[m]}
            /\ RateLimits[e].identifier = n /\ RateLimits[e].aliases = {Aliases[n]}
        BY <3>1, ConfiguredRate
      <3> QED
        BY <2>1, <3>1, <3>2, DistinctEndpoints
    <2>2. ASSUME NEW e \in DOMAIN RateLimits
          PROVE  /\ RateLimits[e].identifier # Default
                 /\ DefaultEndpoint \notin {e} \cup RateLimits[e].aliases
      <3>1. PICK m \in Methods : e = GrpcEndpoint(m)
        BY <2>2, ConfiguredEndpoint
      <3>2. RateLimits[e].identifier = m /\ RateLimits[e].aliases = {Aliases[m]}
        BY <3>1, ConfiguredRate, Zenon
      <3>3. /\ Default # m
            /\ DefaultEndpoint # Aliases[m]
            /\ DefaultEndpoint # GrpcEndpoint(m)
        BY DistinctEndpoints, Zenon
      <3> QED
        BY <3>1, <3>2, <3>3
    <2> QED
      BY <2>1, <2>2 DEF Limiter!AgreementAssumption
  <1> QED
    BY <1>1, <1>2, <1>3, <1>4

LEMMA LimiterInit == Limiter!Init => Limiter!IndInv
  BY LimiterAssumptions, Limiter!Initially
LEMMA LimiterNext == Limiter!IndInv /\ [Limiter!Next]_(Limiter!vars) => Limiter!IndInv'
  BY LimiterAssumptions, Limiter!Step

LEMMA EndpointRates ==
    ASSUME NEW m \in Methods
    PROVE  /\ Limiter!RateFor(GrpcEndpoint(m)).identifier = m
           /\ Limiter!RateFor(Aliases[m]).identifier = m
           /\ Limiter!Enforced(m).limit = LimitOf[m]
  <1> DEFINE g == GrpcEndpoint(m)
  <1>0. /\ g \in DOMAIN RateLimits
        /\ RateLimits[g].identifier = m
        /\ RateLimits[g].limit = LimitOf[m]
        /\ RateLimits[g].aliases = {Aliases[m]}
    BY ConfiguredRate
  <1>1. ASSUME NEW e \in DOMAIN RateLimits, NEW f \in {g, Aliases[m]}
        PROVE  f = e \/ f \in RateLimits[e].aliases <=> e = g
    <2>1. PICK n \in Methods : e = GrpcEndpoint(n)
      BY <1>1, ConfiguredEndpoint
    <2>2. RateLimits[e].aliases = {Aliases[n]}
      BY <2>1, ConfiguredRate, Zenon
    <2>3. /\ g # Aliases[n] /\ GrpcEndpoint(n) # Aliases[m]
          /\ Aliases[m] = Aliases[n] => m = n
          /\ GrpcEndpoint(m) = GrpcEndpoint(n) => m = n
      BY DistinctEndpoints, Zenon
    <2> HIDE DEF g
    <2>4. m = n => g = GrpcEndpoint(n)
      BY DEF g
    <2>5. g = GrpcEndpoint(n) => m = n
      BY <2>3 DEF g
    <2> QED
      BY <2>1, <2>2, <2>3, <2>4, <2>5
  <1>2. ASSUME NEW f \in {g, Aliases[m]}
        PROVE  Limiter!RateFor(f) = Limiter!RateOf(RateLimits[g])
    <2>1. \A e : e \in Limiter!Owners(f) <=> e = g
      BY <1>0, <1>1 DEF Limiter!Owners
    <2>2. /\ Limiter!Owners(f) # {}
          /\ (CHOOSE e \in Limiter!Owners(f) : TRUE) = g
      BY <2>1
    <2> QED
      BY <2>2 DEF Limiter!RateFor
  <1>3. /\ Limiter!RateOf(RateLimits[g]).identifier = m
        /\ Limiter!RateOf(RateLimits[g]).limit = LimitOf[m]
    BY <1>0 DEF Limiter!RateOf
  <1>4. g \in Limiter!Configured
    BY <1>0 DEF Limiter!Configured
  <1>5. Limiter!Enforced(Limiter!RateFor(g).identifier) = Limiter!RateFor(g)
    BY <1>4, LimiterAssumptions, Limiter!EnforcedRate
  <1>6. Limiter!RateFor(g).identifier = m /\ Limiter!RateFor(g).limit = LimitOf[m]
    BY <1>2, <1>3
  <1> QED
    BY <1>2, <1>3, <1>5, <1>6
-----------------------------------------------------------------------------
(* Every step of the service is one of each of its two middlewares, or they *)
(* stay as they are.                                                       *)

\* The methods and what is outside of the middlewares leave them alone.
LEMMA RestStays ==
    ASSUME UNCHANGED << now, limiterRest, authRest >>
    PROVE  UNCHANGED vars /\ UNCHANGED Limiter!vars
  BY DEF limiterRest, authRest, vars, Limiter!vars, Limiter!counterVars,
         Limiter!tableVars, Limiter!requestVars

\* A request runs through authenticateService while the limiter waits.
LEMMA AuthenticationMoves ==
    ASSUME NEW r \in Requests, AuthenticateService(r), UNCHANGED limiterRest
    PROVE  [Next]_vars /\ UNCHANGED Limiter!vars
  <1>1. now' = now
    BY DEF AuthenticateService, Begin, ReadCache, StoreSignature,
         StoreUnanswered, CacheFails, cacheVars, Remember, Cache!Set
  <1> QED
    BY <1>1 DEF Next, limiterRest, Limiter!vars, Limiter!counterVars,
         Limiter!tableVars, Limiter!requestVars

LEMMA LimiterMoves ==
    ASSUME ServiceTypeOK, NEW r \in Requests, RateLimit(r)
    PROVE  UNCHANGED vars /\ Limiter!Middleware(r)
  <1>1. endpoint[r] \in Endpoints
    BY DEF ServiceTypeOK, Endpoints
  <1>2. Limiter!Middleware(r)
    BY <1>1 DEF RateLimit, Limiter!Middleware
  <1>3. now' = now
    BY DEF RateLimit, Limiter!Exempt, Limiter!Enter, Limiter!Count,
         Limiter!SendHeaderFails, Limiter!Draw, Limiter!CountUnanswered,
         Limiter!StoreFails, Limiter!Increment, Limiter!counterVars
  <1> QED
    BY <1>2, <1>3 DEF RateLimit, authRest, vars

\* The steps that a request takes when it has been let in.
LEMMA MethodMoves ==
    ASSUME NEW r \in Requests,
           NoRoute(r) \/ Undecodable(r) \/ Deny(r) \/ Serve(r)
    PROVE  \E m \in Methods \cup {"none"},
              a \in {"OK", "Error", "NotFound", "InvalidArgument",
                     "PermissionDenied"} :
              /\ Return(r, m, a)
              /\ m # "none" => Serves(m, r)
              /\ m = "Authenticate" => Authorized(r)
              /\ a = "PermissionDenied" => ~Authorized(r)
  <1>1. CASE NoRoute(r) \/ Undecodable(r) \/ Deny(r)
    <2>1. "none" # "Authenticate"
      OBVIOUS
    <2> QED
      BY <1>1, <2>1 DEF NoRoute, Undecodable, Deny
  <1>2. CASE Serve(r)
    <2>1. PICK m \in Methods, a \in {"OK", "Error"} :
            /\ Serves(m, r)
            /\ m = "Authenticate" => Authorized(r)
            /\ Return(r, m, a)
      BY <1>2 DEF Serve
    <2> QED
      BY <2>1
  <1> QED
    BY <1>1, <1>2

LEMMA PartsMove ==
    ASSUME ServiceTypeOK, [ServiceNext]_serviceVars
    PROVE  [Next]_vars /\ [Limiter!Next]_(Limiter!vars)
  <1>1. ASSUME NEW r \in Requests, Handle(r)
        PROVE  [Next]_vars /\ [Limiter!Next]_(Limiter!vars)
    <2>1. CASE \E e \in Asked,
                  p \in {q \in Payloads : key[q] # NoKey} \cup {NoPayload} :
                 Receive(r, e, p)
      <3>1. AuthenticateService(r) /\ UNCHANGED limiterRest
        BY <2>1 DEF Receive, AuthenticateService
      <3> QED
        BY <3>1, AuthenticationMoves
    <2>2. CASE RejectGrpc(r)
      BY <2>2, RestStays DEF RejectGrpc
    <2>3. CASE CheckService(r)
      <3>1. AuthenticateService(r) /\ UNCHANGED limiterRest
        BY <2>3 DEF CheckService, AuthenticateService
      <3> QED
        BY <3>1, AuthenticationMoves
    <2>4. CASE RateLimit(r)
      BY <2>4, LimiterMoves DEF Limiter!Next
    <2>5. CASE NoRoute(r) \/ Undecodable(r) \/ Deny(r) \/ Serve(r)
      BY <2>5, MethodMoves, RestStays DEF Return
    <2> QED
      BY <1>1, <2>1, <2>2, <2>3, <2>4, <2>5 DEF Handle
  <1>2. ASSUME NEW p \in Payloads, GeneratePayload(p)
        PROVE  [Next]_vars /\ [Limiter!Next]_(Limiter!vars)
    <2>1. Next
      BY <1>2 DEF GeneratePayload, Next
    <2>2. now' = now
      BY <1>2 DEF GeneratePayload, Generate, cacheVars
    <2> QED
      BY <1>2, <2>1, <2>2 DEF GeneratePayload, limiterRest, Limiter!vars,
           Limiter!counterVars, Limiter!tableVars, Limiter!requestVars
  <1>3. CASE Start
    <2>1. Limiter!Next
      BY <1>3 DEF Start, Limiter!Next
    <2>2. now' = now
      BY <1>3 DEF Start, Limiter!InitializeLimiters, Limiter!counterVars
    <2> QED
      BY <1>3, <2>1, <2>2 DEF Start, authRest, vars
  <1>4. CASE Stop
    <2>1. Limiter!Next
      BY <1>4 DEF Stop, Limiter!Next
    <2>2. CASE \E r \in Requests : pc[r] \in InProgress
      BY <1>4, <2>1, <2>2 DEF Stop, Next, Crash
    <2>3. CASE \A r \in Requests : pc[r] \notin InProgress
      <3>1. pc' = pc
        BY <1>4, <2>3 DEF Stop, StopAll, ServiceTypeOK, TypeOK
      <3> QED
        BY <1>4, <2>1, <3>1 DEF Stop, StopAll, vars, cacheVars, signerVars
    <2> QED
      BY <2>1, <2>2, <2>3
  <1>5. CASE ServiceTick
    BY <1>5 DEF ServiceTick, Next, Limiter!Next
  <1>6. CASE UNCHANGED serviceVars
    BY <1>6, RestStays DEF serviceVars
  <1> QED
    BY <1>1, <1>2, <1>3, <1>4, <1>5, <1>6 DEF ServiceNext, ServiceTerminated

-----------------------------------------------------------------------------
(* The invariant of the requests, one request at a time.                   *)

RequestTypes ==
    /\ stage \in [Requests -> Stages]
    /\ endpoint \in [Requests -> Asked \cup {DefaultEndpoint}]
    /\ served \in [Requests -> Methods \cup {"none"}]
    /\ answer \in [Requests -> Answers]
    /\ logged \in [Requests -> Answers]

RequestInv(r) ==
    /\ stage[r] = "idle" => pc[r] = "idle" /\ limitPc[r] = "idle"
    /\ stage[r] = "authenticate" => pc[r] \in InProgress /\ limitPc[r] = "idle"
    /\ stage[r] = "limit" => pc[r] \in Ended /\ limitPc[r] \in {"idle", "count"}
    /\ stage[r] = "serve" => limitPc[r] \in {"admitted", "exempt"}
    /\ stage[r] = "done" => pc[r] \notin InProgress /\ limitPc[r] # "count"
    /\ limitPc[r] # "idle" => pc[r] \in Ended
    /\ limitPc[r] = "exempt" => pc[r] = "authenticated"
    /\ limitPc[r] \in {"count", "admitted", "reached"} => pc[r] # "authenticated"
    /\ limitPc[r] \in {"idle", "count", "exempt"} => Uncounted(r)
    /\ limitPc[r] \in {"count", "admitted"} =>
          limitKey[r][1] = Limiter!RateFor(endpoint[r]).identifier
    /\ Served(r) =>
          /\ stage[r] = "done"
          /\ limitPc[r] \in {"admitted", "exempt"}
          /\ Serves(served[r], r)
          /\ served[r] = "Authenticate" => Authorized(r)
    /\ answer[r] = "PermissionDenied" => pc[r] \in Ended /\ ~Authorized(r)
    /\ answer[r] = "ResourceExhausted" => limitPc[r] = "reached"

RequestsInv == RequestTypes /\ \A r \in Requests : RequestInv(r)

LEMMA InvOfRequests ==
    ServiceIndInv <=> /\ IndInv /\ Limiter!IndInv /\ RequestTypes
                      /\ \A r \in Requests : RequestInv(r)
  <1>1. ServiceTypeOK <=> Limiter!TypeOK /\ TypeOK /\ RequestTypes
    BY DEF ServiceTypeOK, RequestTypes
  <1>2. (IndInv => TypeOK) /\ (Limiter!IndInv => Limiter!TypeOK)
    BY DEF IndInv, Limiter!IndInv
  <1>3. (\A r \in Requests : RequestInv(r))
            <=> StageInv /\ TrustInv /\ CountInv /\ AnswerInv
    BY Zenon DEF RequestInv, StageInv, TrustInv, CountInv, AnswerInv
  <1> QED
    BY <1>1, <1>2, <1>3 DEF ServiceIndInv

LEMMA InvTogether == IndInv /\ Limiter!IndInv /\ RequestsInv => ServiceIndInv
  BY InvOfRequests DEF RequestsInv

\* What a request sees of itself.
OwnState(r) == << stage[r], endpoint[r], served[r], answer[r], pc[r], payload[r],
                  limitPc[r], limitKey[r], hit[r] >>

LEMMA Bystander ==
    ASSUME NEW r \in Requests, RequestInv(r), UNCHANGED OwnState(r)
    PROVE  RequestInv(r)'
  BY DEF RequestInv, OwnState, Uncounted, Served, Serves, Authorized,
         GrpcEndpoint, AsForm

\* A request arrives, with a payload or without.
LEMMA ReceiveStep ==
    ASSUME ServiceIndInv, NEW r \in Requests, NEW e \in Asked,
           NEW p \in Payloads \cup {NoPayload}, Receive(r, e, p)
    PROVE  RequestTypes' /\ \A s \in Requests : RequestInv(s)'
  <1> USE DEF IndInv, TypeOK, RequestTypes
  <1>0. /\ IndInv /\ RequestTypes
        /\ \A s \in Requests : RequestInv(s)
    BY InvOfRequests
  <1>1. /\ pc' = [pc EXCEPT ![r] = "read"] \/ pc' = [pc EXCEPT ![r] = "refused"]
        /\ payload' = [payload EXCEPT ![r] = p]
        /\ stage[r] = "idle"
        /\ UNCHANGED << limiterRest, served, answer, logged >>
        /\ endpoint' = [endpoint EXCEPT ![r] = e]
        /\ stage' = [stage EXCEPT ![r] = IF pc'[r] = "read" THEN "authenticate"
                                                            ELSE "limit"]
    BY DEF Receive, Begin, Enter, GoTo
  <1>2. RequestTypes'
    BY <1>0, <1>1 DEF Stages
  <1>3. ASSUME NEW s \in Requests \ {r}
        PROVE  RequestInv(s)'
    <2>1. UNCHANGED OwnState(s)
      BY <1>0, <1>1 DEF OwnState, limiterRest
    <2> QED
      BY <1>0, <2>1, Bystander
  <1>4. RequestInv(r)'
    <2>1. /\ \/ pc'[r] = "read" /\ stage'[r] = "authenticate"
             \/ pc'[r] = "refused" /\ stage'[r] = "limit"
          /\ limitPc'[r] = limitPc[r] /\ limitKey'[r] = limitKey[r]
          /\ hit'[r] = hit[r] /\ served'[r] = served[r] /\ answer'[r] = answer[r]
      BY <1>0, <1>1 DEF limiterRest
    <2>2. /\ limitPc[r] = "idle" /\ Uncounted(r) /\ ~Served(r)
          /\ answer[r] \notin {"PermissionDenied", "ResourceExhausted"}
      BY <1>0, <1>1 DEF RequestInv, Ended
    <2> QED
      BY <2>1, <2>2 DEF RequestInv, Ended, InProgress, Uncounted, Served
  <1> QED
    BY <1>2, <1>3, <1>4

\* A request is in the middle of its authentication, or at the end of it.
LEMMA CheckServiceStep ==
    ASSUME ServiceIndInv, NEW r \in Requests, CheckService(r)
    PROVE  RequestTypes' /\ \A s \in Requests : RequestInv(s)'
  <1> USE DEF IndInv, TypeOK, RequestTypes
  <1>0. /\ IndInv /\ RequestTypes
        /\ \A s \in Requests : RequestInv(s)
    BY InvOfRequests
  <1>1. /\ \/ pc' = pc /\ pc[r] = "store"
           \/ \E x \in InProgress \cup Ended : pc' = [pc EXCEPT ![r] = x]
        /\ payload' = payload
        /\ stage[r] = "authenticate"
        /\ UNCHANGED << limiterRest, endpoint, served, answer, logged >>
        /\ stage' = [stage EXCEPT ![r] = IF pc'[r] \in Ended THEN "limit"
                                                       ELSE "authenticate"]
    BY DEF CheckService, ReadCache, StoreSignature, StoreUnanswered, CacheFails,
         Enter, GoTo, InProgress, Ended
  <1>2. RequestTypes'
    BY <1>0, <1>1 DEF Stages
  <1>3. ASSUME NEW s \in Requests \ {r}
        PROVE  RequestInv(s)'
    <2>1. UNCHANGED OwnState(s)
      BY <1>0, <1>1 DEF OwnState, limiterRest
    <2> QED
      BY <1>0, <2>1, Bystander
  <1>4. RequestInv(r)'
    <2>1. /\ \/ pc'[r] \in InProgress /\ stage'[r] = "authenticate"
             \/ pc'[r] \in Ended /\ stage'[r] = "limit"
          /\ limitPc'[r] = limitPc[r] /\ limitKey'[r] = limitKey[r]
          /\ hit'[r] = hit[r] /\ served'[r] = served[r] /\ answer'[r] = answer[r]
      BY <1>0, <1>1 DEF limiterRest, InProgress, Ended
    <2>2. /\ limitPc[r] = "idle" /\ Uncounted(r) /\ ~Served(r)
          /\ answer[r] \notin {"PermissionDenied", "ResourceExhausted"}
      BY <1>0, <1>1 DEF RequestInv, Ended, InProgress
    <2> QED
      BY <2>1, <2>2 DEF RequestInv, Ended, InProgress, Uncounted, Served
  <1> QED
    BY <1>2, <1>3, <1>4

\* The request goes on without a counter, or reaches it, under the identifier
\* of its endpoint, or leaves it.
LEMMA LimiterOutcome ==
    ASSUME ServiceIndInv, NEW r \in Requests, RateLimit(r)
    PROVE  /\ \A s \in Requests \ {r} :
                 /\ limitPc'[s] = limitPc[s] /\ limitKey'[s] = limitKey[s]
                 /\ hit'[s] = hit[s]
           /\ \/ /\ limitPc'[r] = "exempt" /\ pc[r] = "authenticated"
                 /\ limitPc[r] = "idle" /\ hit'[r] = hit[r]
              \/ limitPc'[r] \in {"invalid", "failed"}
              \/ /\ limitPc'[r] = "count" /\ pc[r] # "authenticated"
                 /\ hit'[r] = hit[r]
                 /\ limitKey'[r][1] = Limiter!RateFor(endpoint[r]).identifier
              \/ /\ limitPc'[r] \in {"admitted", "reached"}
                 /\ limitPc[r] = "count" /\ limitKey'[r] = limitKey[r]
  <1>0. /\ Limiter!IndInv /\ RequestTypes /\ RequestInv(r)
        /\ limitPc \in [Requests -> {"idle", "count"} \cup Limiter!Outcomes]
        /\ limitKey \in [Requests -> Limiter!Counters \cup {Limiter!NoHit.key}]
        /\ hit \in [Requests -> Limiter!Hit \cup {Limiter!NoHit}]
    BY InvOfRequests DEF Limiter!IndInv, Limiter!TypeOK
  <1>1. CASE ~ShouldRateLimit(r) /\ Limiter!Exempt(r)
    BY <1>0, <1>1 DEF ShouldRateLimit, Limiter!Exempt, Limiter!Reach,
         Limiter!requestVars
  <1>2. ASSUME NEW header \in Headers \cup {NoHeader}, NEW peer \in Peers,
               ShouldRateLimit(r), Limiter!Enter(r, endpoint[r], header, peer)
        PROVE  /\ \A s \in Requests \ {r} :
                     /\ limitPc'[s] = limitPc[s] /\ limitKey'[s] = limitKey[s]
                     /\ hit'[s] = hit[s]
               /\ \/ limitPc'[r] = "invalid"
                  \/ /\ limitPc'[r] = "count" /\ pc[r] # "authenticated"
                     /\ hit'[r] = hit[r]
                     /\ limitKey'[r][1] =
                            Limiter!RateFor(endpoint[r]).identifier
    <2> DEFINE ip == Limiter!ClientIP(r, header, peer)
               id == Limiter!EndpointRate("auth", endpoint[r]).identifier
    <2>1. /\ Limiter!Running("auth")
          /\ \/ /\ limitPc' = [limitPc EXCEPT ![r] = "invalid"]
                /\ limitKey' = limitKey
             \/ /\ limitPc' = [limitPc EXCEPT ![r] = "count"]
                /\ limitKey' = [limitKey EXCEPT ![r] = << id, ip >>]
          /\ hit' = hit
      BY <1>2 DEF Limiter!Enter, Limiter!Reach
    <2>2. id = Limiter!RateFor(endpoint[r]).identifier
      BY <1>0, <2>1, LimiterAssumptions, Limiter!EndpointsRate
    <2> HIDE DEF ip, id
    <2> QED
      BY <1>0, <1>2, <2>1, <2>2 DEF ShouldRateLimit
  <1>3. CASE Limiter!Count(r)
    <2>1. /\ limitPc[r] = "count" /\ limitKey' = limitKey
          /\ \E h : hit' = [hit EXCEPT ![r] = h]
          /\ \E x \in {"admitted", "reached"} :
                limitPc' = [limitPc EXCEPT ![r] = x]
      BY <1>3 DEF Limiter!Count, Limiter!Draw
    <2> QED
      BY <1>0, <2>1
  <1>4. CASE Limiter!SendHeaderFails(r)
    <2>1. /\ limitPc[r] = "count" /\ limitKey' = limitKey
          /\ \E h : hit' = [hit EXCEPT ![r] = h]
          /\ limitPc' = [limitPc EXCEPT ![r] = "failed"]
      BY <1>4 DEF Limiter!SendHeaderFails, Limiter!Draw
    <2> QED
      BY <1>0, <2>1
  <1>5. CASE Limiter!CountUnanswered(r)
    <2>1. /\ limitPc[r] = "count" /\ limitPc' = limitPc
          /\ limitKey' = limitKey /\ hit' = hit
      BY <1>5 DEF Limiter!CountUnanswered, Limiter!requestVars
    <2> QED
      BY <1>0, <2>1 DEF RequestInv
  <1>6. CASE Limiter!StoreFails(r)
    BY <1>0, <1>6 DEF Limiter!StoreFails, Limiter!requestVars
  <1> QED
    BY <1>1, <1>2, <1>3, <1>4, <1>5, <1>6 DEF RateLimit

LEMMA RateLimitStep ==
    ASSUME ServiceIndInv, NEW r \in Requests, RateLimit(r)
    PROVE  RequestTypes' /\ \A s \in Requests : RequestInv(s)'
  <1> USE DEF RequestTypes
  <1>0. /\ RequestTypes
        /\ \A s \in Requests : RequestInv(s)
    BY InvOfRequests
  <1>1. /\ stage[r] = "limit"
        /\ UNCHANGED << authRest, endpoint, served, logged >>
        /\ \/ /\ limitPc'[r] = "count"
              /\ UNCHANGED << stage, answer >>
           \/ /\ limitPc'[r] \in {"admitted", "exempt"}
              /\ stage' = [stage EXCEPT ![r] = "serve"]
              /\ answer' = answer
           \/ /\ limitPc'[r] \in {"invalid", "reached", "failed"}
              /\ stage' = [stage EXCEPT ![r] = "done"]
              /\ answer' = [answer EXCEPT ![r] = Refusal(limitPc'[r])]
    BY DEF RateLimit, Refuse, Enter
  <1>2. limitPc'[r] \in {"invalid", "reached", "failed"} =>
            /\ Refusal(limitPc'[r]) \in
                   {"InvalidArgument", "ResourceExhausted", "Internal"}
            /\ Refusal(limitPc'[r]) = "ResourceExhausted" =>
                   limitPc'[r] = "reached"
    BY DEF Refusal
  <1>3. RequestTypes'
    BY <1>0, <1>1, <1>2 DEF Stages, Answers
  <1>4. ASSUME NEW s \in Requests \ {r}
        PROVE  RequestInv(s)'
    <2>1. UNCHANGED OwnState(s)
      BY <1>0, <1>1, LimiterOutcome DEF OwnState, authRest
    <2> QED
      BY <1>0, <2>1, Bystander
  <1>5. RequestInv(r)'
    <2>1. /\ pc'[r] = pc[r] /\ payload'[r] = payload[r]
          /\ endpoint'[r] = endpoint[r] /\ served'[r] = served[r]
          /\ \/ /\ limitPc'[r] = "count"
                /\ stage'[r] = "limit" /\ answer'[r] = answer[r]
             \/ /\ limitPc'[r] \in {"admitted", "exempt"}
                /\ stage'[r] = "serve" /\ answer'[r] = answer[r]
             \/ /\ limitPc'[r] \in {"invalid", "reached", "failed"}
                /\ stage'[r] = "done"
                /\ answer'[r] # "PermissionDenied"
                /\ answer'[r] = "ResourceExhausted" => limitPc'[r] = "reached"
      BY <1>0, <1>1, <1>2 DEF authRest
    <2>2. /\ pc[r] \in Ended /\ limitPc[r] \in {"idle", "count"}
          /\ Uncounted(r) /\ ~Served(r)
          /\ answer[r] # "ResourceExhausted"
          /\ answer[r] = "PermissionDenied" => ~Authorized(r)
          /\ limitPc[r] = "count" =>
                /\ pc[r] # "authenticated"
                /\ limitKey[r][1] = Limiter!RateFor(endpoint[r]).identifier
      BY <1>0, <1>1 DEF RequestInv
    <2> QED
      BY <2>1, <2>2, LimiterOutcome
         DEF RequestInv, Ended, InProgress, Uncounted, Served, Authorized
  <1> QED
    BY <1>3, <1>4, <1>5

\* The method returns, or the router finds none.
LEMMA ReturnStep ==
    ASSUME ServiceIndInv, NEW r \in Requests,
           NEW m \in Methods \cup {"none"},
           NEW a \in {"OK", "Error", "NotFound", "InvalidArgument",
                      "PermissionDenied"},
           Return(r, m, a), m # "none" => Serves(m, r),
           m = "Authenticate" => Authorized(r),
           a = "PermissionDenied" => ~Authorized(r)
    PROVE  RequestTypes' /\ \A s \in Requests : RequestInv(s)'
  <1> USE DEF RequestTypes
  <1>0. /\ RequestTypes
        /\ \A s \in Requests : RequestInv(s)
    BY InvOfRequests
  <1>1. /\ stage[r] = "serve"
        /\ stage' = [stage EXCEPT ![r] = "done"]
        /\ served' = [served EXCEPT ![r] = m]
        /\ answer' = [answer EXCEPT ![r] = a]
        /\ logged' = [logged EXCEPT ![r] = a]
        /\ UNCHANGED << limiterRest, authRest, endpoint >>
    BY DEF Return, Enter, Recorded
  <1>2. RequestTypes'
    BY <1>0, <1>1 DEF Stages, Answers
  <1>3. ASSUME NEW s \in Requests \ {r}
        PROVE  RequestInv(s)'
    <2>1. UNCHANGED OwnState(s)
      BY <1>0, <1>1 DEF OwnState, limiterRest, authRest
    <2> QED
      BY <1>0, <2>1, Bystander
  <1>4. RequestInv(r)'
    <2>1. /\ pc' = pc /\ payload' = payload /\ endpoint' = endpoint
          /\ limitPc' = limitPc /\ limitKey' = limitKey /\ hit' = hit
          /\ stage'[r] = "done" /\ served'[r] = m /\ answer'[r] = a
      BY <1>0, <1>1 DEF limiterRest, authRest
    <2>2. m # "none" => Serves(m, r)'
      BY <2>1 DEF Serves, AsForm, GrpcEndpoint
    <2>3. limitPc[r] \in {"admitted", "exempt"} /\ pc[r] \in Ended
      BY <1>0, <1>1 DEF RequestInv
    <2>4. Served(r)' => m # "none"
      BY <2>1 DEF Served
    <2> QED
      BY <1>0, <2>1, <2>2, <2>3, <2>4
         DEF RequestInv, Ended, InProgress, Uncounted, Authorized
  <1> QED
    BY <1>2, <1>3, <1>4

\* gRPC refuses the request before its interceptors run.
LEMMA RejectStep ==
    ASSUME ServiceIndInv, NEW r \in Requests, RejectGrpc(r)
    PROVE  RequestTypes' /\ \A s \in Requests : RequestInv(s)'
  <1> USE DEF RequestTypes
  <1>0. /\ RequestTypes
        /\ \A s \in Requests : RequestInv(s)
    BY InvOfRequests
  <1>1. PICK a \in {"Unimplemented", "Internal"} :
            /\ stage[r] = "idle"
            /\ stage' = [stage EXCEPT ![r] = "done"]
            /\ answer' = [answer EXCEPT ![r] = a]
            /\ UNCHANGED << limiterRest, authRest, endpoint, served, logged >>
    BY DEF RejectGrpc, Refuse, Enter
  <1>2. RequestTypes'
    BY <1>0, <1>1 DEF Stages, Answers
  <1>3. ASSUME NEW s \in Requests \ {r}
        PROVE  RequestInv(s)'
    <2>1. UNCHANGED OwnState(s)
      BY <1>0, <1>1 DEF OwnState, limiterRest, authRest
    <2> QED
      BY <1>0, <2>1, Bystander
  <1>4. RequestInv(r)'
    <2>1. /\ pc'[r] = pc[r] /\ limitPc'[r] = limitPc[r]
          /\ hit'[r] = hit[r] /\ served'[r] = served[r]
          /\ stage'[r] = "done"
          /\ answer'[r] \notin {"PermissionDenied", "ResourceExhausted"}
      BY <1>0, <1>1 DEF limiterRest, authRest
    <2>2. pc[r] = "idle" /\ limitPc[r] = "idle" /\ Uncounted(r) /\ ~Served(r)
      BY <1>0, <1>1 DEF RequestInv
    <2> QED
      BY <2>1, <2>2 DEF RequestInv, InProgress, Uncounted, Served
  <1> QED
    BY <1>2, <1>3, <1>4

\* The process stops, and what was on its way fails in the middleware it is in.
LEMMA ServiceStopStep ==
    ASSUME ServiceIndInv, Stop
    PROVE  RequestTypes' /\ \A s \in Requests : RequestInv(s)'
  <1>0. /\ RequestTypes
        /\ \A s \in Requests : RequestInv(s)
    BY InvOfRequests
  <1>1. /\ limitPc' = [r \in Requests |-> IF limitPc[r] = "count" THEN "failed"
                                                          ELSE limitPc[r]]
        /\ limitKey' = limitKey /\ hit' = hit
    BY DEF Stop, Limiter!Stop, Limiter!requestVars
  <1>2. /\ pc' = [r \in Requests |-> IF pc[r] \in InProgress THEN "failed"
                                                             ELSE pc[r]]
        /\ payload' = payload
        /\ stage' = [r \in Requests |-> IF stage[r] = "idle" THEN "idle"
                                                             ELSE "done"]
        /\ answer' = [r \in Requests |-> IF stage[r] \in {"idle", "done"}
                                         THEN answer[r] ELSE "Unavailable"]
        /\ endpoint' = endpoint /\ served' = served /\ logged' = logged
    BY DEF Stop, StopAll
  <1>3. RequestTypes'
    BY <1>0, <1>2 DEF RequestTypes, Stages, Answers
  <1>4. ASSUME NEW r \in Requests
        PROVE  RequestInv(r)'
    <2>1. /\ \/ limitPc[r] = "count" /\ limitPc'[r] = "failed"
             \/ limitPc[r] # "count" /\ limitPc'[r] = limitPc[r]
          /\ \/ pc[r] \in InProgress /\ pc'[r] = "failed"
             \/ pc[r] \notin InProgress /\ pc'[r] = pc[r]
          /\ \/ stage[r] = "idle" /\ stage'[r] = "idle"
             \/ stage[r] # "idle" /\ stage'[r] = "done"
          /\ \/ stage[r] \in {"idle", "done"} /\ answer'[r] = answer[r]
             \/ stage[r] \notin {"idle", "done"} /\ answer'[r] = "Unavailable"
          /\ limitKey'[r] = limitKey[r] /\ hit'[r] = hit[r]
          /\ payload'[r] = payload[r] /\ endpoint'[r] = endpoint[r]
          /\ served'[r] = served[r]
      BY <1>1, <1>2
    <2>2. /\ Serves(served[r], r)' <=> Serves(served[r], r)
          /\ Authorized(r)' <=> Authorized(r)
      BY <2>1 DEF Serves, AsForm, GrpcEndpoint, Authorized, InProgress
    <2> QED
      BY <1>0, <2>1, <2>2
         DEF RequestInv, InProgress, Ended, Uncounted, Served
  <1> QED
    BY <1>3, <1>4

\* What happens outside of the requests does not change them.
LEMMA QuietStep ==
    ASSUME ServiceIndInv,
           UNCHANGED << requestVars, pc, payload, limitPc, limitKey, hit >>
    PROVE  RequestTypes' /\ \A s \in Requests : RequestInv(s)'
  <1>0. /\ RequestTypes
        /\ \A s \in Requests : RequestInv(s)
    BY InvOfRequests
  <1>1. RequestTypes'
    BY <1>0 DEF RequestTypes, requestVars
  <1>2. ASSUME NEW s \in Requests
        PROVE  RequestInv(s)'
    <2>1. UNCHANGED OwnState(s)
      BY DEF OwnState, requestVars
    <2> QED
      BY <1>0, <2>1, Bystander
  <1> QED
    BY <1>1, <1>2

LEMMA ServiceInitInv == ServiceInit => ServiceIndInv
  <1> SUFFICES ASSUME ServiceInit PROVE ServiceIndInv
    OBVIOUS
  <1>1. IndInv /\ Limiter!IndInv
    BY InitInv, LimiterInit DEF ServiceInit
  <1>2. RequestTypes
    BY DEF ServiceInit, RequestTypes, Stages, Answers
  <1>3. ASSUME NEW r \in Requests
        PROVE  RequestInv(r)
    <2>1. /\ pc[r] = "idle" /\ limitPc[r] = "idle" /\ Uncounted(r)
          /\ stage[r] = "idle" /\ ~Served(r) /\ answer[r] = "none"
      BY DEF ServiceInit, Init, Limiter!Init, Uncounted, Served
    <2> QED
      BY <2>1 DEF RequestInv
  <1> QED
    BY <1>1, <1>2, <1>3, InvOfRequests

LEMMA ServiceNextInv ==
    ASSUME ServiceIndInv, [ServiceNext]_serviceVars
    PROVE  ServiceIndInv'
  <1>0. IndInv /\ Limiter!IndInv /\ ServiceTypeOK
    BY DEF ServiceIndInv
  <1>1. IndInv' /\ Limiter!IndInv'
    BY <1>0, PartsMove, NextInv, LimiterNext
  <1>2. ASSUME NEW r \in Requests, Handle(r)
        PROVE  RequestTypes' /\ \A s \in Requests : RequestInv(s)'
    <2>1. CASE \E e \in Asked,
                  p \in {q \in Payloads : key[q] # NoKey} \cup {NoPayload} :
                 Receive(r, e, p)
      BY <2>1, ReceiveStep
    <2>2. CASE RejectGrpc(r)
      BY <2>2, RejectStep
    <2>3. CASE CheckService(r)
      BY <2>3, CheckServiceStep
    <2>4. CASE RateLimit(r)
      BY <2>4, RateLimitStep
    <2>5. CASE NoRoute(r) \/ Undecodable(r) \/ Deny(r) \/ Serve(r)
      BY <2>5, MethodMoves, ReturnStep
    <2> QED
      BY <1>2, <2>1, <2>2, <2>3, <2>4, <2>5 DEF Handle
  <1>3. ASSUME NEW p \in Payloads, GeneratePayload(p)
        PROVE  RequestTypes' /\ \A s \in Requests : RequestInv(s)'
    <2>1. UNCHANGED << requestVars, pc, payload, limitPc, limitKey, hit >>
      BY <1>3 DEF GeneratePayload, Generate, limiterRest
    <2> QED
      BY <2>1, QuietStep
  <1>4. ASSUME Start
        PROVE  RequestTypes' /\ \A s \in Requests : RequestInv(s)'
    <2>1. UNCHANGED << requestVars, pc, payload, limitPc, limitKey, hit >>
      BY <1>4 DEF Start, Limiter!InitializeLimiters, Limiter!requestVars, authRest
    <2> QED
      BY <2>1, QuietStep
  <1>5. ASSUME Stop
        PROVE  RequestTypes' /\ \A s \in Requests : RequestInv(s)'
    BY <1>5, ServiceStopStep
  <1>6. ASSUME ServiceTick
        PROVE  RequestTypes' /\ \A s \in Requests : RequestInv(s)'
    <2>1. UNCHANGED << requestVars, pc, payload, limitPc, limitKey, hit >>
      BY <1>6 DEF ServiceTick, Tick, Limiter!Tick, Limiter!requestVars
    <2> QED
      BY <2>1, QuietStep
  <1>7. ASSUME UNCHANGED serviceVars
        PROVE  RequestTypes' /\ \A s \in Requests : RequestInv(s)'
    <2>1. UNCHANGED << requestVars, pc, payload, limitPc, limitKey, hit >>
      BY <1>7 DEF serviceVars, authRest, limiterRest
    <2> QED
      BY <2>1, QuietStep
  <1>8. RequestsInv' => ServiceIndInv'
    BY <1>1, InvTogether, PTL
  <1> QED
    BY <1>2, <1>3, <1>4, <1>5, <1>6, <1>7, <1>8
       DEF RequestsInv, ServiceNext, ServiceTerminated

-----------------------------------------------------------------------------
(* The theorems about AuthService.                                         *)

\* The invariant of a request on its way through the middlewares to its method.
THEOREM ServiceInductiveInvariant == ServiceSpec => []ServiceIndInv
  BY ServiceInitInv, ServiceNextInv, PTL DEF ServiceSpec

\* The variables keep their types.
THEOREM ServiceTypeCorrectness == ServiceSpec => []ServiceTypeOK
  <1>1. ServiceIndInv => ServiceTypeOK
    BY DEF ServiceIndInv
  <1> QED
    BY <1>1, ServiceInductiveInvariant, PTL

\* In the service each of the two middlewares behaves as it does on its own.
THEOREM MiddlewaresKeepTheirSpecs == ServiceSpec => Spec /\ Limiter!Spec
  <1>1. ServiceInit => Init /\ Limiter!Init
    BY DEF ServiceInit
  <1>2. ServiceTypeOK /\ [ServiceNext]_serviceVars =>
            [Next]_vars /\ [Limiter!Next]_(Limiter!vars)
    BY PartsMove
  <1> QED
    BY <1>1, <1>2, ServiceTypeCorrectness, PTL
       DEF ServiceSpec, Spec, Limiter!Spec

\* A request that was let in was counted: only an exempt one has no number.
LEMMA LetInWithoutNumber ==
    ASSUME ServiceIndInv, NEW r \in Requests, Served(r)
    PROVE  /\ limitPc[r] \in {"admitted", "exempt"}
           /\ limitPc[r] = "exempt" <=> Uncounted(r)
           /\ limitPc[r] = "exempt" <=> pc[r] = "authenticated"
  <1>1. RequestInv(r) /\ Limiter!IndInv
    BY InvOfRequests
  <1>2. ASSUME limitPc[r] = "admitted"
        PROVE  ~Uncounted(r)
    <2>1. hit[r] \in hits
      BY <1>1, <1>2 DEF Limiter!IndInv, Limiter!DrawInv
    <2>2. hit[r].n >= 1
      BY <1>1, <2>1 DEF Limiter!IndInv, Limiter!HitInv
    <2> QED
      BY <2>2 DEF Uncounted, Limiter!NoHit
  <1> QED
    BY <1>1, <1>2 DEF RequestInv

\* A method runs uncounted, and Authenticate runs, only for a request with the
\* fresh, verified payload of a service, whose signature the request has stored.
THEOREM TrustIsEarned == ServiceSpec => []TrustIsVouchedFor
  <1>1. ASSUME ServiceIndInv
        PROVE  TrustIsVouchedFor
    <2> SUFFICES ASSUME NEW r \in Requests, Served(r),
                        Uncounted(r) \/ served[r] = "Authenticate"
                 PROVE  /\ r \in stored
                        /\ Verified(payload[r])
                        /\ beganAt[r] <= stamp[payload[r]] + Duration
                        /\ Uncounted(r)
                        /\ served[r] = "Authenticate" => payload[r] \in OfAllowed
      BY DEF TrustIsVouchedFor
    <2>1. RequestInv(r) /\ IndInv
      BY <1>1, InvOfRequests
    <2>2. served[r] = "Authenticate" =>
              pc[r] = "authenticated" /\ payload[r] \in OfAllowed
      BY <2>1 DEF RequestInv, Authorized
    <2>3. pc[r] = "authenticated" /\ Uncounted(r)
      BY <1>1, <2>2, LetInWithoutNumber
    <2> QED
      BY <2>1, <2>2, <2>3 DEF IndInv, StoredInv, FreshInv, Authenticated
  <1> QED
    BY <1>1, ServiceInductiveInvariant, PTL

\* What a service that is allowed sends in time is neither denied nor limited
\* unless the cache fails or the signature was used.
THEOREM ServicesPass == ServiceSpec => []ServicesAreLetThrough
  <1>1. ASSUME ServiceIndInv
        PROVE  ServicesAreLetThrough
    <2> SUFFICES ASSUME NEW r \in Requests,
                        answer[r] \in {"PermissionDenied", "ResourceExhausted"},
                        payload[r] \in OfAllowed,
                        beganAt[r] <= stamp[payload[r]] + Duration,
                        Verified(payload[r])
                 PROVE  \/ pc[r] = "failed"
                        \/ \E q \in stored \ {r} : payload[q] = payload[r]
      BY DEF ServicesAreLetThrough
    <2>1. RequestInv(r) /\ IndInv
      BY <1>1, InvOfRequests
    <2>2. pc[r] \in Ended /\ pc[r] # "authenticated"
      BY <2>1 DEF RequestInv, Authorized
    <2>3. payload[r] \in Payloads
      BY AllowedAssumption
    <2> QED
      BY <2>1, <2>2, <2>3 DEF IndInv, NoFalseReplay, Ended
  <1> QED
    BY <1>1, ServiceInductiveInvariant, PTL

\* What a method serves by its route and over gRPC together, for an address in a
\* window, is numbered up to its limit.
THEOREM LimitsFitRoutes == ServiceSpec => []MethodsKeepTheirLimits
  <1>1. ASSUME ServiceIndInv
        PROVE  MethodsKeepTheirLimits
    <2>1. ASSUME NEW r \in Requests, Served(r)
          PROVE  Cardinality({s \in Requests :
                                 /\ served[s] = served[r]
                                 /\ ~Uncounted(s)
                                 /\ ~AsForm(served[s], endpoint[s])
                                 /\ hit[s].key[2] = hit[r].key[2]
                                 /\ hit[s].closes = hit[r].closes})
                     <= LimitOf[served[r]]
      <3> DEFINE m == served[r]
                 L == LimitOf[m]
                 T == {s \in Requests : /\ served[s] = m
                                        /\ ~Uncounted(s)
                                        /\ ~AsForm(served[s], endpoint[s])
                                        /\ hit[s].key[2] = hit[r].key[2]
                                        /\ hit[s].closes = hit[r].closes}
                 f == [s \in T |-> hit[s].n]
      <3>1. m \in Methods /\ L \in Nat
        BY <1>1, <2>1, LimiterAssumption, InvOfRequests DEF RequestTypes, Served
      <3>2. ASSUME NEW s \in T
            PROVE  /\ s \in Limiter!Admitted /\ hit[s] \in hits
                   /\ hit[s].key \in Limiter!Counters /\ hit[s].key[1] = m
                   /\ hit[s].n \in 1 .. L
        <4>1. /\ s \in Requests /\ Served(s) /\ RequestInv(s) /\ Limiter!IndInv
          BY <1>1, <2>1, InvOfRequests DEF Served
        <4>2. limitPc[s] = "admitted"
          BY <1>1, <4>1, LetInWithoutNumber
        <4>3. /\ hit[s] \in hits /\ hit[s].key = limitKey[s]
              /\ hit[s].n <= Limiter!Limit(limitKey[s])
          BY <4>1, <4>2 DEF Limiter!IndInv, Limiter!DrawInv
        <4>4. /\ hit[s].key \in Limiter!Counters /\ hit[s].n \in Nat
              /\ hit[s].n >= 1
          BY <4>1, <4>3 DEF Limiter!IndInv, Limiter!TypeOK, Limiter!HitInv,
               Limiter!Hit
        <4>5. endpoint[s] \in {GrpcEndpoint(m), Aliases[m]}
          <5>1. Routes[m] = Aliases[m]
            BY <3>1 DEF Routes, Aliases, Methods
          <5> QED
            BY <4>1, <5>1 DEF RequestInv, Serves
        <4>6. limitKey[s][1] = m
          BY <3>1, <4>1, <4>2, <4>5, EndpointRates DEF RequestInv
        <4>7. Limiter!Limit(limitKey[s]) = L
          BY <3>1, <4>6, EndpointRates DEF Limiter!Limit
        <4> QED
          BY <3>1, <4>1, <4>2, <4>3, <4>4, <4>6, <4>7 DEF Limiter!Admitted
      <3>3. \A s, t \in T : hit[s].n = hit[t].n => s = t
        <4>1. ASSUME NEW s \in T, NEW t \in T, hit[s].n = hit[t].n
              PROVE  s = t
          <5>1. hit[s].key = hit[t].key
            BY <3>2 DEF Limiter!Counters
          <5> QED
            BY <1>1, <3>2, <4>1, <5>1, InvOfRequests
               DEF Limiter!IndInv, Limiter!DrawInv
        <4> QED
          BY <4>1
      <3>4. f \in Injection(T, 1 .. L)
        <4>1. f \in [T -> 1 .. L]
          BY <3>2
        <4> QED
          BY <3>3, <4>1, Fun_IsInj
      <3>5. IsFiniteSet(1 .. L) /\ Cardinality(1 .. L) = L
        <4> HIDE DEF L
        <4> QED
          BY <3>1, FS_Interval
      <3> QED
        BY <3>4, <3>5, FS_Injection
    <2> QED
      BY <2>1 DEF MethodsKeepTheirLimits
  <1> QED
    BY <1>1, ServiceInductiveInvariant, PTL

\* So what the middlewares promise they promise in the service: a signature is
\* not used twice but late, and no limit is exceeded in a window.
THEOREM MiddlewaresKeepTheirPromises ==
    ServiceSpec => []SecondUseIsLate /\ []Limiter!WindowIsNeverOverrun
                                     /\ []Limiter!RefusalIsEarned
  BY MiddlewaresKeepTheirSpecs, SingleUseOfSignatures, LimiterAssumptions,
     Limiter!WindowLimit, Limiter!EarnedRefusals, PTL
=============================================================================
