-------------------------- MODULE RateLimiterProofs --------------------------
(* Theorems about RateLimiter, for any processes, requests and rates that  *)
(* agree where they share an identifier or an endpoint.                    *)
EXTENDS RateLimiter, FiniteSetTheorems, FunctionTheorems, TLAPS

-----------------------------------------------------------------------------
(* What the configuration gives to endpoints and identifiers.              *)

\* All that is written to an endpoint is the rate the configuration gives it.
LEMMA RemainingRate ==
    ASSUME NEW e \in Configured, NEW last \in Orders
    PROVE  Remaining(e, last) = RateFor(e)
  <1>1. ASSUME NEW n \in Owners(e)
        PROVE  Written(e, n) = RateFor(e)
    <2>1. PICK m \in Owners(e) : RateFor(e) = RateOf(Rates[m])
      BY <1>1 DEF RateFor
    <2>2. RateOf(Rates[m]) = RateOf(Rates[n])
      <3>1. /\ m \in DOMAIN Rates /\ n \in DOMAIN Rates
            /\ e \in {m} \cup Rates[m].aliases
            /\ e \in {n} \cup Rates[n].aliases
        BY <1>1, <2>1 DEF Owners
      <3>2. ({m} \cup Rates[m].aliases) \cap ({n} \cup Rates[n].aliases) # {}
        BY <3>1
      <3>3. \A x, y \in DOMAIN Rates :
               ({x} \cup Rates[x].aliases) \cap ({y} \cup Rates[y].aliases) # {}
                   => RateOf(Rates[x]) = RateOf(Rates[y])
        BY AgreementAssumption, Zenon
      <3> QED
        BY <3>1, <3>2, <3>3, Zenon
    <2> QED
      BY <2>1, <2>2 DEF Written, AliasRate
  <1>2. CASE Owners(e) = {}
    BY <1>2 DEF Remaining, RateFor, Contested
  <1>3. CASE Owners(e) # {} /\ e \in Contested
    BY <1>1, <1>3 DEF Remaining, Orders
  <1>4. CASE Owners(e) # {} /\ e \notin Contested
    BY <1>1, <1>4 DEF Remaining
  <1> QED
    BY <1>2, <1>3, <1>4

LEMMA RateType ==
    ASSUME NEW e
    PROVE  /\ RateFor(e) \in Rate
           /\ RateFor(e).identifier \in Identifiers
           /\ RateFor(e).limit \in Nat
           /\ RateFor(e).period \in Nat \ {0}
  BY RateAssumption DEF RateFor, RateOf, Rate, AliasedRate, Owners

\* An identifier has one rate.
LEMMA OneRateOfIdentifier ==
    ASSUME NEW e \in Configured, NEW f \in Configured,
           RateFor(e).identifier = RateFor(f).identifier
    PROVE  RateFor(e) = RateFor(f)
  <1>1. ASSUME NEW g \in Configured
        PROVE  \/ RateFor(g) = DefaultRate
               \/ \E n \in DOMAIN Rates : RateFor(g) = RateOf(Rates[n])
    BY DEF RateFor, Owners
  <1>2. \A n \in DOMAIN Rates : RateOf(Rates[n]).identifier = Rates[n].identifier
    BY DEF RateOf
  <1> QED
    BY <1>1, <1>2, AgreementAssumption

LEMMA EnforcedRate ==
    ASSUME NEW e \in Configured
    PROVE  Enforced(RateFor(e).identifier) = RateFor(e)
  <1> DEFINE f == CHOOSE name \in Configured :
                      RateFor(name).identifier = RateFor(e).identifier
  <1>1. f \in Configured /\ RateFor(f).identifier = RateFor(e).identifier
    OBVIOUS
  <1>2. RateFor(f) = RateFor(e)
    BY <1>1, OneRateOfIdentifier
  <1> QED
    BY <1>2 DEF Enforced

\* An endpoint without a rate has that of the default.
LEMMA DefaultOfOthers ==
    ASSUME NEW name, name \notin Configured
    PROVE  RateFor(name) = RateFor(DefaultName)
  <1>1. RateFor(name) = DefaultRate
    BY DEF RateFor, Owners, Configured
  <1>2. RateFor(DefaultName) = DefaultRate
    BY AgreementAssumption DEF RateFor, Owners
  <1> QED
    BY <1>1, <1>2

LEMMA LimitedRate ==
    ASSUME NEW k, Limited(k)
    PROVE  /\ Limit(k) \in Nat /\ Period(k) \in Nat \ {0}
           /\ \E e \in Configured : /\ RateFor(e).identifier = k[1]
                                    /\ Enforced(k[1]) = RateFor(e)
  <1>1. PICK e \in Configured : RateFor(e).identifier = k[1]
    BY DEF Limited, ConfiguredRates
  <1>2. Enforced(k[1]) = RateFor(e)
    BY <1>1, EnforcedRate
  <1> QED
    BY <1>1, <1>2, RateType DEF Limit, Period

-----------------------------------------------------------------------------
(* The steps.                                                              *)

LEMMA Initially == Init => IndInv
  <1> SUFFICES ASSUME Init PROVE IndInv
    OBVIOUS
  <1> USE DEF Init
  <1>1. TypeOK
    BY DEF TypeOK, Outcomes
  <1>2. \A p \in Processes : ~Running(p)
    BY DEF Running
  <1>3. TableInv /\ KeyInv
    BY <1>2 DEF TableInv, KeyInv
  <1>4. HitInv /\ WindowInv /\ NumberInv /\ DrawInv
    BY FS_EmptySet DEF HitInv, WindowInv, NumberInv, DrawInv, Admitted
  <1> QED
    BY <1>1, <1>3, <1>4 DEF IndInv

LEMMA StartStep ==
    ASSUME IndInv, NEW p \in Processes, InitializeLimiters(p)
    PROVE  IndInv'
  <1>1. PICK last \in Orders, made \in SUBSET Rate :
            /\ active' = [active EXCEPT ![p] =
                              [e \in Configured |-> RateFor(e)]]
            /\ made = ConfiguredRates
            /\ limiters' = [limiters EXCEPT ![p] = made]
    <2>f. PICK f \in ActiveRates : \E made \in Limiters(f) :
              /\ active' = [active EXCEPT ![p] = f]
              /\ limiters' = [limiters EXCEPT ![p] = made]
      BY DEF InitializeLimiters
    <2>1. PICK made \in Limiters(f) :
              /\ active' = [active EXCEPT ![p] = f]
              /\ limiters' = [limiters EXCEPT ![p] = made]
      BY <2>f
    <2>2. PICK last \in Orders : f = [e \in Configured |-> Remaining(e, last)]
      BY DEF ActiveRates
    <2>3. f = [e \in Configured |-> RateFor(e)]
      BY <2>2, RemainingRate
    <2>4. {f[e] : e \in DOMAIN f} = ConfiguredRates
      BY <2>3 DEF ConfiguredRates
    <2>5. /\ made \subseteq ConfiguredRates
          /\ \A x \in ConfiguredRates :
                \E y \in made : x.identifier = y.identifier
      BY <2>4 DEF Limiters
    <2>6. made = ConfiguredRates
      <3>1. \A x, y \in ConfiguredRates : x.identifier = y.identifier => x = y
        BY OneRateOfIdentifier DEF ConfiguredRates
      <3> QED
        BY <2>5, <3>1
    <2>7. made \subseteq Rate
      BY <2>6, RateType DEF ConfiguredRates
    <2> QED
      BY <2>1, <2>2, <2>3, <2>6, <2>7
  <1>2. UNCHANGED << counterVars, pc, requestVars >>
    BY DEF InitializeLimiters
  <1>3. [e \in Configured |-> RateFor(e)] \in [Configured -> Rate]
    BY RateType
  <1>4. TypeOK'
    BY <1>1, <1>2, <1>3 DEF IndInv, TypeOK, counterVars, requestVars
  <1>5. TableInv'
    BY <1>1 DEF IndInv, TypeOK, TableInv, Running
  <1>6. \A q \in Processes : Running(q) => Running(q)'
    BY DEF InitializeLimiters, IndInv, TypeOK, Running
  <1>7. KeyInv'
    BY <1>2, <1>6, RequestAssumption DEF IndInv, KeyInv, Limited, requestVars
  <1>8. HitInv' /\ WindowInv' /\ NumberInv' /\ DrawInv'
    BY <1>2 DEF IndInv, HitInv, WindowInv, NumberInv, DrawInv, Admitted,
         Limited, counterVars, requestVars
  <1> QED
    BY <1>4, <1>5, <1>7, <1>8 DEF IndInv

LEMMA StopStep ==
    ASSUME IndInv, NEW p \in Processes, Stop(p)
    PROVE  IndInv'
  <1>1. UNCHANGED << counterVars, requestVars >>
    BY DEF Stop
  <1>2. TypeOK'
    BY <1>1 DEF Stop, IndInv, TypeOK, Outcomes, counterVars, requestVars
  <1>3. TableInv'
    BY DEF Stop, IndInv, TypeOK, TableInv, Running
  <1>4. \A r \in Requests :
            /\ pc'[r] = "count" => pc[r] = "count" /\ ProcessOf[r] # p
            /\ pc'[r] \in {"admitted", "reached"} <=>
                  pc[r] \in {"admitted", "reached"}
            /\ pc'[r] \in {"admitted", "reached"} => pc'[r] = pc[r]
    BY DEF Stop, IndInv, TypeOK
  <1>5. KeyInv'
    BY <1>1, <1>4, RequestAssumption
       DEF Stop, IndInv, TypeOK, KeyInv, Limited, Running, requestVars
  <1>6. HitInv' /\ WindowInv' /\ NumberInv'
    BY <1>1 DEF IndInv, HitInv, WindowInv, NumberInv, Limited, counterVars
  <1>7. DrawInv'
    BY <1>1, <1>4 DEF IndInv, DrawInv, Admitted, counterVars, requestVars
  <1> QED
    BY <1>2, <1>3, <1>5, <1>6, <1>7 DEF IndInv

\* An endpoint's rate, on a process that runs, is the configured one.
LEMMA EndpointsRate ==
    ASSUME IndInv, NEW p \in Processes, Running(p), NEW name
    PROVE  /\ EndpointRate(p, name) = RateFor(name)
           /\ RateFor(name) \in ConfiguredRates
  <1>1. active[p] = [e \in Configured |-> RateFor(e)]
    BY DEF IndInv, TableInv
  <1>2. DefaultName \in Configured
    BY DEF Configured
  <1>3. CASE name \in Configured
    BY <1>1, <1>3 DEF EndpointRate, ConfiguredRates
  <1>4. CASE name \notin Configured
    <2>1. RateFor(name) = RateFor(DefaultName)
      BY <1>4, DefaultOfOthers
    <2> QED
      BY <1>1, <1>2, <1>4, <2>1 DEF EndpointRate, ConfiguredRates
  <1> QED
    BY <1>3, <1>4

\* A request that passes to a step without a hit: to the counter only if that
\* has a limiter.
Passes(r, step) ==
    /\ pc[r] \in {"idle", "count"}
    /\ step \in {"count", "exempt", "invalid", "failed"}
    /\ pc' = [pc EXCEPT ![r] = step]
    /\ \E k \in Counters \cup {NoHit.key} :
          /\ key' = [key EXCEPT ![r] = k]
          /\ step = "count" => Running(ProcessOf[r]) /\ Limited(k)
    /\ UNCHANGED << counterVars, tableVars, hit >>

LEMMA PassStep ==
    ASSUME IndInv, NEW r \in Requests, NEW step, Passes(r, step)
    PROVE  IndInv'
  <1> USE DEF Passes
  <1>1. PICK k \in Counters \cup {NoHit.key} :
            /\ key' = [key EXCEPT ![r] = k]
            /\ step = "count" => Running(ProcessOf[r]) /\ Limited(k)
    OBVIOUS
  <1>2. TypeOK'
    BY <1>1 DEF IndInv, TypeOK, Outcomes, counterVars, tableVars
  <1>3. TableInv'
    BY DEF IndInv, TableInv, Running, tableVars
  <1>4. \A s \in Requests : s # r => pc'[s] = pc[s] /\ key'[s] = key[s]
    BY <1>1 DEF IndInv, TypeOK
  <1>5. pc'[r] = step /\ key'[r] = k
    BY <1>1 DEF IndInv, TypeOK
  <1>6. KeyInv'
    BY <1>1, <1>4, <1>5 DEF IndInv, KeyInv, Limited, Running, tableVars
  <1>7. HitInv' /\ WindowInv' /\ NumberInv'
    BY DEF IndInv, HitInv, WindowInv, NumberInv, Limited, counterVars
  <1>8. \A s \in Requests :
            pc'[s] \in {"admitted", "reached"} =>
                s # r /\ pc'[s] = pc[s] /\ key'[s] = key[s]
    BY <1>4, <1>5
  <1>9. DrawInv'
    BY <1>8 DEF IndInv, DrawInv, Admitted, counterVars
  <1> QED
    BY <1>2, <1>3, <1>6, <1>7, <1>9 DEF IndInv

\* A request that leaves without a hit.
Leaves(r, step) ==
    /\ pc[r] \in {"idle", "count"}
    /\ step \in {"exempt", "invalid", "failed"}
    /\ pc' = [pc EXCEPT ![r] = step]
    /\ UNCHANGED << counterVars, tableVars, requestVars >>

LEMMA LeaveStep ==
    ASSUME IndInv, NEW r \in Requests, NEW step, Leaves(r, step)
    PROVE  IndInv'
  <1>1. key' = [key EXCEPT ![r] = key[r]] /\ step # "count"
    BY DEF Leaves, IndInv, TypeOK, requestVars
  <1>2. key[r] \in Counters \cup {NoHit.key}
    BY DEF IndInv, TypeOK
  <1>3. Passes(r, step)
    BY <1>1, <1>2 DEF Leaves, Passes, requestVars
  <1> QED
    BY <1>3, PassStep

LEMMA EnterStep ==
    ASSUME IndInv, NEW r \in Requests, NEW name,
           NEW header \in Headers \cup {NoHeader}, NEW peer \in Peers,
           Enter(r, name, header, peer)
    PROVE  IndInv'
  <1> DEFINE ip == ClientIP(r, header, peer)
             k == << EndpointRate(ProcessOf[r], name).identifier, ip >>
  <1>1. CASE ip = NoHeader
    <2>1. Leaves(r, "invalid")
      BY <1>1 DEF Enter, Reach, Leaves, requestVars
    <2> QED
      BY <2>1, LeaveStep
  <1>2. CASE ip # NoHeader
    <2>1. /\ pc[r] = "idle" /\ pc' = [pc EXCEPT ![r] = "count"]
          /\ Running(ProcessOf[r])
          /\ key' = [key EXCEPT ![r] = k]
          /\ UNCHANGED << counterVars, tableVars, hit >>
      BY <1>2 DEF Enter, Reach
    <2>2. ip \in Addresses
      BY <1>2, HeaderAssumption DEF ClientIP, Addresses
    <2>3. /\ EndpointRate(ProcessOf[r], name) \in ConfiguredRates
          /\ EndpointRate(ProcessOf[r], name).identifier \in Identifiers
      BY <2>1, EndpointsRate, RateType, RequestAssumption
    <2>4. Limited(k) /\ k \in Counters
      BY <2>2, <2>3 DEF Limited, Counters
    <2>5. Passes(r, "count")
      BY <2>1, <2>4 DEF Passes
    <2> QED
      BY <2>5, PassStep
  <1> QED
    BY <1>1, <1>2

\* The part of the invariant about the counters, when one is incremented.
LEMMA IncrementStep ==
    ASSUME IndInv, NEW k, Limited(k), Increment(k, Period(k)),
           NEW h, h = [key |-> k, n |-> count'[k], at |-> now,
                       closes |-> closes'[k]]
    PROVE  /\ h \in Hit /\ hits' = hits \cup {h}
           /\ count' \in [Counters -> Nat] /\ closes' \in [Counters -> Nat]
           /\ \A g \in hits : g.key = k /\ g.closes = h.closes => g.n < h.n
           /\ HitInv' /\ WindowInv' /\ NumberInv'
  <1> DEFINE P == Period(k)
  <1>1. /\ now \in Nat /\ now' = now
        /\ count \in [Counters -> Nat] /\ closes \in [Counters -> Nat]
        /\ hits \subseteq Hit
        /\ k \in Counters
        /\ P \in Nat /\ P > 0
    BY LimitedRate DEF IndInv, TypeOK, Increment, Limited
  <1>2. /\ count' = [count EXCEPT ![k] = h.n]
        /\ closes' = [closes EXCEPT ![k] = h.closes]
        /\ hits' = hits \cup {h}
        /\ h.key = k /\ h.at = now
        /\ h.n = IF now < closes[k] THEN count[k] + 1 ELSE 1
        /\ h.closes = IF now < closes[k] THEN closes[k] ELSE now + P
    BY <1>1 DEF Increment, WindowEnd, Open
  <1>3. h \in Hit /\ count'[k] = h.n /\ closes'[k] = h.closes
    BY <1>1, <1>2 DEF Hit
  <1>4. /\ count' \in [Counters -> Nat] /\ closes' \in [Counters -> Nat]
        /\ hits' \subseteq Hit
        /\ \A c \in Counters : c # k => /\ count'[c] = count[c]
                                       /\ closes'[c] = closes[c]
    BY <1>1, <1>2, <1>3 DEF Hit
  <1>5. \A g \in Hit : /\ g.key \in Counters /\ g.n \in Nat /\ g.at \in Nat
                       /\ g.closes \in Nat
    BY DEF Hit
  <1>6. \A g \in hits : /\ Limited(g.key)
                        /\ g.at <= now /\ g.at < g.closes
                        /\ g.closes <= g.at + Period(g.key)
                        /\ g.closes <= closes[g.key]
                        /\ g.n >= 1
                        /\ g.closes = closes[g.key] => g.n <= count[g.key]
    BY DEF IndInv, HitInv
  <1> HIDE DEF P
  <1>7. \A g \in hits : g.key = k /\ g.closes = h.closes => g.n < h.n
    BY <1>1, <1>2, <1>3, <1>5, <1>6
  <1>8. closes[k] <= h.closes
    BY <1>1, <1>2
  <1>9. HitInv'
    <2>1. IsFiniteSet(hits')
      BY <1>2, FS_AddElement DEF IndInv, HitInv
    <2>2. h.at < h.closes /\ h.closes <= h.at + P /\ h.n >= 1
      <3>1. CASE now < closes[k]
        <4>1. PICK g \in hits : g.key = k /\ g.closes = closes[k]
          BY <1>1, <3>1 DEF IndInv, NumberInv
        <4> QED
          BY <1>1, <1>2, <1>5, <1>6, <3>1, <4>1 DEF P
      <3>2. CASE ~(now < closes[k])
        BY <1>1, <1>2, <3>2
      <3> QED
        BY <3>1, <3>2
    <2>3. ASSUME NEW g \in hits'
          PROVE  /\ Limited(g.key)
                 /\ g.at <= now /\ g.at < g.closes
                 /\ g.closes <= g.at + Period(g.key)
                 /\ g.closes <= closes'[g.key]
                 /\ g.n >= 1
                 /\ g.closes = closes'[g.key] => g.n <= count'[g.key]
      <3>1. CASE g = h
        BY <1>1, <1>2, <1>3, <1>5, <2>2, <3>1 DEF P
      <3>2. CASE g \in hits /\ g.key = k
        BY <1>1, <1>2, <1>3, <1>4, <1>5, <1>6, <1>7, <1>8, <3>2
      <3>3. CASE g \in hits /\ g.key # k
        BY <1>1, <1>4, <1>5, <1>6, <3>3
      <3> QED
        BY <1>2, <3>1, <3>2, <3>3
    <2> QED
      BY <1>1, <2>1, <2>3 DEF HitInv, Limited
  <1>10. WindowInv'
    <2>1. ASSUME NEW f \in hits, NEW g \in hits, f.key = g.key,
                 f.closes < g.closes
          PROVE  f.closes + Period(f.key) <= g.closes
      BY <2>1 DEF IndInv, WindowInv
    <2>2. ASSUME NEW g \in hits, g.key = k
          PROVE  /\ g.closes <= h.closes
                 /\ g.closes < h.closes => g.closes + P <= h.closes
      <3>1. CASE now < closes[k]
        <4>1. PICK f \in hits : f.key = k /\ f.closes = closes[k]
          BY <1>1, <3>1 DEF IndInv, NumberInv
        <4> QED
          BY <1>1, <1>2, <1>5, <1>6, <2>1, <2>2, <3>1, <4>1 DEF P
      <3>2. CASE ~(now < closes[k])
        BY <1>1, <1>2, <1>5, <1>6, <2>2, <3>2
      <3> QED
        BY <3>1, <3>2
    <2>3. ASSUME NEW f \in hits', NEW g \in hits', f.key = g.key,
                 f.closes < g.closes
          PROVE  f.closes + Period(f.key) <= g.closes
      <3>1. \/ f \in hits /\ g \in hits
            \/ f \in hits /\ g = h
            \/ f = h /\ g \in hits
            \/ f = h /\ g = h
        BY <1>2
      <3>2. f.closes \in Nat /\ g.closes \in Nat
        BY <1>4, <1>5
      <3> QED
        BY <1>2, <2>1, <2>2, <2>3, <3>1, <3>2 DEF P
    <2> QED
      BY <2>3 DEF WindowInv
  <1>11. NumberInv'
    <2>1. ASSUME NEW c \in Counters, closes'[c] > 0
          PROVE  count'[c] >= 1
      BY <1>1, <1>2, <1>3, <1>4, <2>1 DEF IndInv, NumberInv
    <2>2. ASSUME NEW i \in 1 .. h.n
          PROVE  \E g \in hits' : /\ g.key = k /\ g.n = i
                                  /\ g.closes = h.closes /\ g.at <= now
      <3>1. CASE i = h.n
        BY <1>1, <1>2, <3>1
      <3>2. CASE i # h.n
        <4>1. now < closes[k] /\ i \in 1 .. count[k]
          BY <1>1, <1>2, <1>3, <2>2, <3>2 DEF Hit
        <4>2. PICK g \in hits : g.key = k /\ g.n = i /\ g.closes = closes[k]
          BY <1>1, <4>1 DEF IndInv, NumberInv
        <4> QED
          BY <1>2, <1>6, <4>1, <4>2
      <3> QED
        BY <3>1, <3>2
    <2>3. ASSUME NEW c \in Counters, NEW i \in 1 .. count'[c]
          PROVE  \E g \in hits' : /\ g.key = c /\ g.n = i
                                  /\ g.closes = closes'[c]
      <3>1. CASE c = k
        BY <1>3, <2>2, <3>1
      <3>2. CASE c # k
        <4>1. i \in 1 .. count[c] /\ closes'[c] = closes[c]
          BY <1>4, <3>2
        <4> QED
          BY <1>2, <4>1 DEF IndInv, NumberInv
      <3> QED
        BY <3>1, <3>2
    <2>4. ASSUME NEW f \in hits', NEW i \in 1 .. f.n
          PROVE  \E g \in hits' : /\ g.key = f.key /\ g.n = i
                                  /\ g.closes = f.closes /\ g.at <= f.at
      <3>1. CASE f = h
        BY <1>2, <2>2, <3>1
      <3>2. CASE f \in hits
        BY <1>2, <3>2 DEF IndInv, NumberInv
      <3> QED
        BY <1>2, <3>1, <3>2
    <2> QED
      BY <2>1, <2>3, <2>4 DEF NumberInv
  <1> QED
    BY <1>2, <1>3, <1>4, <1>7, <1>9, <1>10, <1>11

\* The limiter of a request that is to be counted has the configured rate.
LEMMA RequestsLimiter ==
    ASSUME IndInv, NEW r \in Requests, pc[r] = "count"
    PROVE  /\ Limited(key[r])
           /\ LimiterOf(r).period = Period(key[r])
           /\ LimiterOf(r).limit = Limit(key[r])
  <1>1. Running(ProcessOf[r]) /\ Limited(key[r])
    BY DEF IndInv, KeyInv
  <1>2. limiters[ProcessOf[r]] = ConfiguredRates
    BY <1>1, RequestAssumption DEF IndInv, TableInv
  <1>3. PICK e \in Configured : /\ RateFor(e).identifier = key[r][1]
                               /\ Enforced(key[r][1]) = RateFor(e)
    BY <1>1, LimitedRate
  <1>4. \A x \in ConfiguredRates : x.identifier = key[r][1] => x = RateFor(e)
    BY <1>3, OneRateOfIdentifier DEF ConfiguredRates
  <1>5. LimiterOf(r) = RateFor(e)
    BY <1>2, <1>3, <1>4 DEF LimiterOf, ConfiguredRates
  <1> QED
    BY <1>1, <1>3, <1>5 DEF Limit, Period

LEMMA DrawStep ==
    ASSUME IndInv, NEW r \in Requests, Draw(r), NEW step,
           pc' = [pc EXCEPT ![r] = step],
           \/ step = "failed"
           \/ step = IF Reached(count'[key[r]], LimiterOf(r).limit)
                     THEN "reached" ELSE "admitted"
    PROVE  IndInv'
  <1> DEFINE k == key[r]
             h == [key |-> k, n |-> count'[k], at |-> now,
                   closes |-> closes'[k]]
  <1>1. /\ pc[r] = "count" /\ Increment(k, Period(k)) /\ Limited(k)
        /\ hit' = [hit EXCEPT ![r] = h]
        /\ UNCHANGED << lost, tableVars, key >> /\ now' = now
    BY RequestsLimiter DEF Draw, Increment
  <1>2. /\ h \in Hit /\ hits' = hits \cup {h}
        /\ count' \in [Counters -> Nat] /\ closes' \in [Counters -> Nat]
        /\ \A g \in hits : g.key = k /\ g.closes = h.closes => g.n < h.n
        /\ HitInv' /\ WindowInv' /\ NumberInv'
    BY <1>1, IncrementStep
  <1>3. step \in {"failed", "reached", "admitted"}
    OBVIOUS
  <1>4. TypeOK'
    <2> HIDE DEF h
    <2> QED
      BY <1>1, <1>2, <1>3 DEF IndInv, TypeOK, Outcomes, tableVars
  <1>5. TableInv'
    BY <1>1 DEF IndInv, TableInv, Running, tableVars
  <1>6. /\ pc'[r] = step /\ hit'[r] = h
        /\ \A s \in Requests : s # r => pc'[s] = pc[s] /\ hit'[s] = hit[s]
    <2> HIDE DEF h
    <2> QED
      BY <1>1 DEF IndInv, TypeOK
  <1>7. KeyInv'
    BY <1>1, <1>3, <1>6 DEF IndInv, KeyInv, Limited, Running, tableVars
  <1>8. /\ step = "admitted" => h.n <= Limit(k)
        /\ step = "reached" => h.n > Limit(k)
    <2>1. count'[k] \in Nat /\ h.n = count'[k] /\ Limit(k) \in Nat
      BY <1>1, <1>2, LimitedRate DEF Limited
    <2> QED
      BY <1>1, <2>1, RequestsLimiter DEF Reached
  <1>9. DrawInv'
    <2> HIDE DEF h
    <2>1. h.key = k
      BY DEF h
    <2>2. ASSUME NEW s \in Requests, pc'[s] \in {"admitted", "reached"}
          PROVE  /\ hit'[s] \in hits' /\ hit'[s].key = key'[s]
                 /\ pc'[s] = "admitted" => hit'[s].n <= Limit(key'[s])
                 /\ pc'[s] = "reached" => hit'[s].n > Limit(key'[s])
      <3>1. CASE s = r
        BY <1>1, <1>2, <1>6, <1>8, <2>1, <3>1
      <3>2. CASE s # r
        BY <1>1, <1>2, <1>6, <2>2, <3>2 DEF IndInv, DrawInv
      <3> QED
        BY <3>1, <3>2
    <2>3. ASSUME NEW s \in Admitted', s # r
          PROVE  /\ s \in Admitted /\ hit'[s] = hit[s] /\ hit[s] \in hits
                 /\ hit[s].n \in Nat
      BY <1>6, <2>3 DEF Admitted, IndInv, DrawInv, TypeOK, Hit
    <2>4. h.n \in Nat
      BY <1>2 DEF Hit
    <2>5. ASSUME NEW s \in Admitted', NEW t \in Admitted',
                 hit'[s].key = hit'[t].key, hit'[s].closes = hit'[t].closes,
                 hit'[s].n = hit'[t].n
          PROVE  s = t
      <3>1. CASE s # r /\ t # r
        BY <2>3, <2>5, <3>1 DEF IndInv, DrawInv
      <3>2. CASE s = r /\ t # r
        BY <1>2, <1>6, <2>1, <2>3, <2>4, <2>5, <3>2
      <3>3. CASE s # r /\ t = r
        BY <1>2, <1>6, <2>1, <2>3, <2>4, <2>5, <3>3
      <3> QED
        BY <3>1, <3>2, <3>3
    <2> QED
      BY <2>2, <2>5 DEF DrawInv
  <1> QED
    BY <1>2, <1>4, <1>5, <1>7, <1>9 DEF IndInv

LEMMA CountUnansweredStep ==
    ASSUME IndInv, NEW r \in Requests, CountUnanswered(r)
    PROVE  IndInv'
  <1> DEFINE k == key[r]
  <1>1. /\ Increment(k, Period(k)) /\ Limited(k)
        /\ UNCHANGED << tableVars, pc, requestVars >> /\ now' = now
        /\ lost' = lost + 1
    BY RequestsLimiter DEF CountUnanswered, Increment
  <1>2. PICK h : /\ h \in Hit /\ hits' = hits \cup {h}
                 /\ count' \in [Counters -> Nat]
                 /\ closes' \in [Counters -> Nat]
                 /\ HitInv' /\ WindowInv' /\ NumberInv'
    BY <1>1, IncrementStep
  <1>3. TypeOK'
    BY <1>1, <1>2 DEF IndInv, TypeOK, tableVars, requestVars
  <1>4. TableInv' /\ KeyInv'
    BY <1>1 DEF IndInv, TableInv, KeyInv, Running, Limited, tableVars,
         requestVars
  <1>5. DrawInv'
    BY <1>1, <1>2 DEF IndInv, DrawInv, Admitted, requestVars
  <1> QED
    BY <1>2, <1>3, <1>4, <1>5 DEF IndInv

LEMMA TickStep ==
    ASSUME IndInv, Tick
    PROVE  IndInv'
  <1>1. /\ now \in Nat /\ now' = now + 1
        /\ UNCHANGED << count, closes, hits, lost, tableVars, pc, requestVars >>
        /\ \A h \in hits : h.at \in Nat
    BY DEF Tick, IndInv, TypeOK, Hit
  <1>2. TypeOK'
    BY <1>1 DEF IndInv, TypeOK, tableVars, requestVars
  <1>3. TableInv' /\ KeyInv'
    BY <1>1 DEF IndInv, TableInv, KeyInv, Running, Limited, tableVars,
         requestVars
  <1>4. HitInv'
    BY <1>1 DEF IndInv, HitInv, Limited
  <1>5. WindowInv' /\ NumberInv' /\ DrawInv'
    BY <1>1 DEF IndInv, WindowInv, NumberInv, DrawInv, Admitted, requestVars
  <1> QED
    BY <1>2, <1>3, <1>4, <1>5 DEF IndInv

LEMMA StutterStep ==
    ASSUME IndInv, UNCHANGED vars
    PROVE  IndInv'
  BY DEF IndInv, TypeOK, TableInv, KeyInv, HitInv, WindowInv, NumberInv,
     DrawInv, Admitted, Running, Limited, vars, counterVars, tableVars,
     requestVars

LEMMA Step == IndInv /\ [Next]_vars => IndInv'
  <1> SUFFICES ASSUME IndInv, [Next]_vars PROVE IndInv'
    OBVIOUS
  <1>1. ASSUME NEW r \in Requests, Middleware(r)
        PROVE  IndInv'
    <2>1. CASE \E name \in Names, header \in Headers \cup {NoHeader},
                  peer \in Peers : Enter(r, name, header, peer)
      BY <2>1, EnterStep
    <2>2. CASE Exempt(r)
      <3>1. Leaves(r, "exempt")
        BY <2>2 DEF Exempt, Reach, Leaves
      <3> QED
        BY <3>1, LeaveStep
    <2>3. CASE Count(r)
      BY <2>3, DrawStep DEF Count
    <2>4. CASE SendHeaderFails(r)
      BY <2>4, DrawStep DEF SendHeaderFails
    <2>5. CASE CountUnanswered(r)
      BY <2>5, CountUnansweredStep
    <2>6. CASE StoreFails(r)
      <3>1. Leaves(r, "failed")
        BY <2>6 DEF StoreFails, Leaves, requestVars
      <3> QED
        BY <3>1, LeaveStep
    <2> QED
      BY <1>1, <2>1, <2>2, <2>3, <2>4, <2>5, <2>6 DEF Middleware
  <1>2. ASSUME NEW p \in Processes, InitializeLimiters(p) \/ Stop(p)
        PROVE  IndInv'
    BY <1>2, StartStep, StopStep
  <1>3. CASE Tick
    BY <1>3, TickStep
  <1>4. CASE Terminated \/ UNCHANGED vars
    BY <1>4, StutterStep DEF Terminated
  <1> QED
    BY <1>1, <1>2, <1>3, <1>4 DEF Next

-----------------------------------------------------------------------------
(* The theorems.                                                           *)

\* The invariant of the tables, the counters and the requests.
THEOREM InductiveInvariant == Spec => []IndInv
  <1>1. Init => IndInv
    BY Initially
  <1>2. IndInv /\ [Next]_vars => IndInv'
    BY Step
  <1> QED
    BY <1>1, <1>2, PTL DEF Spec

\* The variables keep their types.
THEOREM TypeCorrectness == Spec => []TypeOK
  <1>1. IndInv => TypeOK
    BY DEF IndInv
  <1> QED
    BY <1>1, InductiveInvariant, PTL

\* Whatever order InitializeLimiters reads its maps in, every endpoint has one
\* limiter, with the rate that the configuration gives the endpoint.
THEOREM ConfigurationIsEnforced == Spec => []ConfiguredRateIsEnforced
  <1>1. ASSUME IndInv
        PROVE  ConfiguredRateIsEnforced
    <2>1. ASSUME NEW p \in Processes, NEW name \in Names, Running(p)
          PROVE  {x \in limiters[p] :
                     x.identifier = EndpointRate(p, name).identifier}
                     = {RateFor(name)}
      <3>1. /\ EndpointRate(p, name) = RateFor(name)
            /\ RateFor(name) \in ConfiguredRates
        BY <1>1, <2>1, EndpointsRate
      <3>2. limiters[p] = ConfiguredRates
        BY <1>1, <2>1 DEF IndInv, TableInv
      <3>3. \A x, y \in ConfiguredRates : x.identifier = y.identifier => x = y
        BY OneRateOfIdentifier DEF ConfiguredRates
      <3> QED
        BY <3>1, <3>2, <3>3
    <2> QED
      BY <2>1 DEF ConfiguredRateIsEnforced
  <1> QED
    BY <1>1, InductiveInvariant, PTL

\* The requests that are let in within a window are no more than the limit: they
\* drew different numbers up to it.
THEOREM WindowLimit == Spec => []WindowIsNeverOverrun
  <1>1. ASSUME IndInv
        PROVE  WindowIsNeverOverrun
    <2>1. ASSUME NEW r \in Admitted
          PROVE  Cardinality({s \in Admitted : /\ hit[s].key = hit[r].key
                                               /\ hit[s].closes = hit[r].closes})
                     <= Limit(hit[r].key)
      <3> DEFINE L == Limit(hit[r].key)
                 T == {s \in Admitted : /\ hit[s].key = hit[r].key
                                        /\ hit[s].closes = hit[r].closes}
                 f == [s \in T |-> hit[s].n]
      <3>1. \A s \in Admitted : /\ hit[s] \in hits /\ hit[s].key = key[s]
                                /\ hit[s].n <= Limit(hit[s].key)
                                /\ hit[s].n \in Nat /\ hit[s].n >= 1
        BY <1>1 DEF IndInv, DrawInv, HitInv, TypeOK, Hit, Admitted
      <3>2. L \in Nat
        BY <1>1, <2>1, <3>1, LimitedRate DEF IndInv, HitInv
      <3>3. f \in Injection(T, 1 .. L)
        <4>1. f \in [T -> 1 .. L]
          BY <3>1, <3>2
        <4>2. \A s, t \in T : f[s] = f[t] => s = t
          BY <1>1 DEF IndInv, DrawInv
        <4> QED
          BY <4>1, <4>2, Fun_IsInj
      <3>4. IsFiniteSet(1 .. L) /\ Cardinality(1 .. L) = L
        BY <3>2, FS_Interval
      <3> QED
        BY <3>3, <3>4, FS_Injection
    <2> QED
      BY <2>1 DEF WindowIsNeverOverrun
  <1> QED
    BY <1>1, InductiveInvariant, PTL

\* Around the end of a window at most twice the limit is let in: the requests of
\* one period fall into two windows.
THEOREM BurstLimit == Spec => []BurstIsAtMostTwofold
  <1>1. ASSUME IndInv
        PROVE  BurstIsAtMostTwofold
    <2>1. ASSUME NEW r \in Admitted
          PROVE  Cardinality({s \in Admitted :
                                 /\ hit[s].key = hit[r].key
                                 /\ hit[s].at \in hit[r].at .. hit[r].at
                                                  + Period(hit[r].key) - 1})
                     <= 2 * Limit(hit[r].key)
      <3> DEFINE k == hit[r].key
                 L == Limit(k)
                 P == Period(k)
                 c == hit[r].closes
                 T == {s \in Admitted : /\ hit[s].key = k
                                        /\ hit[s].at \in hit[r].at ..
                                                         hit[r].at + P - 1}
                 f == [s \in T |-> IF hit[s].closes = c THEN hit[s].n
                                                        ELSE L + hit[s].n]
      <3>1. \A s \in Admitted : /\ hit[s] \in hits /\ hit[s].key = key[s]
                                /\ hit[s].n <= Limit(hit[s].key)
                                /\ hit[s].n \in Nat /\ hit[s].n >= 1
                                /\ hit[s].at \in Nat /\ hit[s].closes \in Nat
        BY <1>1 DEF IndInv, DrawInv, HitInv, TypeOK, Hit, Admitted
      <3>2. L \in Nat /\ P \in Nat /\ P > 0
        BY <1>1, <2>1, <3>1, LimitedRate DEF IndInv, HitInv
      <3>3. \A s \in T : /\ hit[s].at < hit[s].closes
                         /\ hit[s].closes <= hit[s].at + P
        BY <1>1, <3>1 DEF IndInv, HitInv
      <3>4. /\ hit[r].at < c /\ c <= hit[r].at + P
        BY <1>1, <2>1, <3>1 DEF IndInv, HitInv
      <3>5. \A s, t \in T : hit[s].closes < hit[t].closes =>
                                hit[s].closes + P <= hit[t].closes
        BY <1>1, <3>1 DEF IndInv, WindowInv
      <3>6. \A s \in T : /\ hit[s].closes < c => hit[s].closes + P <= c
                         /\ c < hit[s].closes => c + P <= hit[s].closes
        BY <1>1, <2>1, <3>1 DEF IndInv, WindowInv
      <3>7. ASSUME NEW s \in T, NEW t \in T,
                   hit[s].closes # c, hit[t].closes # c
            PROVE  hit[s].closes = hit[t].closes
        <4> DEFINE a == hit[r].at
                   d == hit[s].closes
                   e == hit[t].closes
        <4>1. /\ a \in Nat /\ c \in Nat /\ d \in Nat /\ e \in Nat
              /\ a < c /\ a < d /\ d < a + 2 * P /\ a < e /\ e < a + 2 * P
          BY <2>1, <3>1, <3>2, <3>3, <3>4
        <4>2. /\ d < c => d + P <= c
              /\ c < d => c + P <= d
              /\ e < c => e + P <= c
              /\ c < e => c + P <= e
              /\ d < e => d + P <= e
              /\ e < d => e + P <= d
          BY <3>5, <3>6
        <4>3. c <= a + P /\ d # c /\ e # c
          BY <3>4, <3>7
        <4> HIDE DEF a, c, d, e, P
        <4>4. d = e
          BY <3>2, <4>1, <4>2, <4>3
        <4> QED
          BY <4>4 DEF d, e
      <3>8. f \in Injection(T, 1 .. 2 * L)
        <4>1. \A s \in T : /\ hit[s].n \in 1 .. L
                           /\ L + hit[s].n \in L + 1 .. 2 * L
          BY <3>1, <3>2
        <4>2. f \in [T -> 1 .. 2 * L]
          BY <3>2, <4>1
        <4>3. ASSUME NEW s \in T, NEW t \in T, f[s] = f[t]
              PROVE  hit[s].closes = hit[t].closes /\ hit[s].n = hit[t].n
          BY <3>1, <3>2, <3>7, <4>1, <4>3
        <4>4. \A s, t \in T : f[s] = f[t] => s = t
          BY <1>1, <4>3 DEF IndInv, DrawInv
        <4> QED
          BY <4>2, <4>4, Fun_IsInj
      <3>9. 2 * L \in Int /\ 1 \in Int
        BY <3>2
      <3>10. IsFiniteSet(1 .. 2 * L) /\ Cardinality(1 .. 2 * L) = 2 * L
        BY <3>2, <3>9, FS_Interval
      <3> QED
        BY <3>8, <3>10, FS_Injection
    <2> QED
      BY <2>1 DEF BurstIsAtMostTwofold
  <1> QED
    BY <1>1, InductiveInvariant, PTL

\* A request is turned away only after more than the limit were counted within
\* a period.
THEOREM EarnedRefusals == Spec => []RefusalIsEarned
  <1>1. ASSUME IndInv
        PROVE  RefusalIsEarned
    <2>1. ASSUME NEW r \in Requests, pc[r] = "reached"
          PROVE  Cardinality({h \in hits :
                                 /\ h.key = key[r]
                                 /\ h.at <= hit[r].at
                                 /\ hit[r].at < h.at + Period(key[r])})
                     > Limit(key[r])
      <3> DEFINE T == {h \in hits : /\ h.key = key[r]
                                    /\ h.at <= hit[r].at
                                    /\ hit[r].at < h.at + Period(key[r])}
                 n == hit[r].n
                 f == [i \in 1 .. n |->
                          CHOOSE g \in T : g.n = i]
      <3>1. /\ hit[r] \in hits /\ hit[r].key = key[r]
            /\ n > Limit(key[r]) /\ hits \subseteq Hit
            /\ IsFiniteSet(hits)
        BY <1>1, <2>1 DEF IndInv, DrawInv, HitInv, TypeOK
      <3>2. Limit(key[r]) \in Nat /\ Period(key[r]) \in Nat
        BY <1>1, <3>1, LimitedRate DEF IndInv, HitInv
      <3>3. n \in Nat
        BY <3>1 DEF Hit
      <3>4. ASSUME NEW i \in 1 .. n
            PROVE  \E g \in T : g.n = i
        <4>1. PICK g \in hits : /\ g.key = key[r] /\ g.n = i
                                /\ g.closes = hit[r].closes
                                /\ g.at <= hit[r].at
          BY <1>1, <3>1 DEF IndInv, NumberInv
        <4>2. /\ hit[r].at < hit[r].closes
              /\ g.closes <= g.at + Period(key[r])
          BY <1>1, <3>1, <4>1 DEF IndInv, HitInv
        <4>3. hit[r].at < g.at + Period(key[r])
          BY <3>1, <3>2, <4>1, <4>2 DEF Hit
        <4> QED
          BY <4>1, <4>3
      <3>5. \A i \in 1 .. n : f[i] \in T /\ f[i].n = i
        BY <3>4
      <3> HIDE DEF T, n
      <3>6. f \in Injection(1 .. n, T)
        BY <3>5, Fun_IsInj
      <3>7. IsFiniteSet(T) /\ Cardinality(T) \in Nat
        BY <3>1, FS_Subset, FS_CardinalityType DEF T
      <3>8. n <= Cardinality(T)
        BY <3>3, <3>6, <3>7, FS_Injection, FS_Interval
      <3> QED
        BY <3>1, <3>2, <3>3, <3>7, <3>8 DEF T
    <2> QED
      BY <2>1 DEF RefusalIsEarned
  <1> QED
    BY <1>1, InductiveInvariant, PTL
=============================================================================
