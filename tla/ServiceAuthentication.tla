----------------------- MODULE ServiceAuthentication -----------------------
(***************************************************************************)
(* How one service proves its name to another: the payload that            *)
(* GenerateServiceAuthenticationPayload signs and authenticateService,     *)
(* the middleware that checks it and remembers its signature in the cache. *)
(*                                                                         *)
(* A payload is the execution that made it: its nonce makes it unique.     *)
(* The two services read different clocks and hold different lists of      *)
(* keys.  A request advances one cache command at a time.  A request that  *)
(* is not authenticated goes on without the name of a service, whatever    *)
(* the reason: the statuses "refused" and "failed" are told apart here     *)
(* only to say which of them a cache error explains.                       *)
(***************************************************************************)
EXTENDS Integers, Sequences

CONSTANTS
    Payloads,  \* executions of GenerateServiceAuthenticationPayload
    Requests,  \* executions of authenticateService
    Keys,      \* key pairs
    BadKey,    \* a PEM that does not parse
    KeyLists,  \* the public key lists a verifier may be configured with
    NoKey,
    NoPayload, \* a header that is missing, malformed or forged
    Skews,     \* clock of the signer minus clock of the verifier
    Duration,  \* serviceAuthenticationPayloadDuration
    MaxTime    \* bound of the clock

ASSUME PayloadAssumption == NoPayload \notin Payloads
ASSUME KeyAssumption == NoKey \notin Keys /\ BadKey \notin Keys
ASSUME KeyListAssumption == KeyLists \subseteq Seq(Keys \cup {BadKey})
ASSUME TimeAssumption ==
    Skews \subseteq Int /\ Duration \in Nat /\ MaxTime \in Nat

VARIABLES
    entries, now, \* the cache and the clock of the verifier
    publicKeys,   \* SERVICE_<name>_PUBLIC_KEYS of the verifier
    key,          \* key[p]: the key p is signed with, NoKey before it is made
    stamp,        \* stamp[p]: the time in it
    pc,           \* pc[r]: the cache command r issues next, or its outcome
    payload,      \* payload[r]: what r presents
    beganAt,      \* beganAt[r]: when its timestamp was checked
    readAt,       \* readAt[r]: when the cache was asked for its signature
    storedAt,     \* storedAt[r]: when its signature was stored
    stored,       \* requests whose signature was stored, answered or not
    precededBy    \* precededBy[r]: requests that had ended when r began

cacheVars == << entries, now >>
signerVars == << publicKeys, key, stamp >>
vars == << entries, now, publicKeys, key, stamp, pc, payload, beganAt, readAt,
           storedAt, stored, precededBy >>

Cache == INSTANCE RedisCache
            WITH Keys <- Payloads, Values <- Payloads, NoValue <- NoPayload

InProgress == {"read", "store"}
Ended == {"authenticated", "refused", "failed"}

TypeOK ==
    /\ Cache!TypeOK
    /\ publicKeys \in KeyLists
    /\ key \in [Payloads -> Keys \cup {NoKey}]
    /\ stamp \in [Payloads -> Int]
    /\ pc \in [Requests -> {"idle"} \cup InProgress \cup Ended]
    /\ payload \in [Requests -> Payloads \cup {NoPayload}]
    /\ beganAt \in [Requests -> Nat]
    /\ readAt \in [Requests -> Nat]
    /\ storedAt \in [Requests -> Nat]
    /\ stored \subseteq Requests
    /\ precededBy \in [Requests -> SUBSET Requests]

Init ==
    /\ Cache!Init
    /\ publicKeys \in KeyLists
    /\ key = [p \in Payloads |-> NoKey]
    /\ stamp = [p \in Payloads |-> 0]
    /\ pc = [r \in Requests |-> "idle"]
    /\ payload = [r \in Requests |-> NoPayload]
    /\ beganAt = [r \in Requests |-> 0]
    /\ readAt = [r \in Requests |-> 0]
    /\ storedAt = [r \in Requests |-> 0]
    /\ stored = {}
    /\ precededBy = [r \in Requests |-> {}]

GoTo(r, step) == pc' = [pc EXCEPT ![r] = step]

-----------------------------------------------------------------------------
(* GenerateServiceAuthenticationPayload, at a service that signs with the  *)
(* last of its private keys.  Without a key that parses it makes nothing.  *)

Generate(p, k, skew) ==
    /\ key[p] = NoKey
    /\ key' = [key EXCEPT ![p] = k]
    /\ stamp' = [stamp EXCEPT ![p] = now + skew]
    /\ UNCHANGED << cacheVars, publicKeys, pc, payload, beganAt, readAt,
                    storedAt, stored, precededBy >>

-----------------------------------------------------------------------------
(* authenticateService.                                                    *)

\* The timestamp may lie in the future.
Fresh(p) == now <= stamp[p] + Duration

\* Every key of the list has to parse, and each overwrites the verdict of the
\* one before.
Verified(p) ==
    /\ publicKeys # << >>
    /\ \A i \in DOMAIN publicKeys : publicKeys[i] # BadKey
    /\ publicKeys[Len(publicKeys)] = key[p]

Begin(r, p) ==
    /\ pc[r] = "idle"
    /\ payload' = [payload EXCEPT ![r] = p]
    /\ beganAt' = [beganAt EXCEPT ![r] = now]
    /\ precededBy' =
           [precededBy EXCEPT ![r] = {q \in Requests : pc[q] \in Ended}]
    /\ \/ /\ p \in Payloads
          /\ Fresh(p)
          /\ Verified(p)
          /\ GoTo(r, "read")
       \/ /\ p \in Payloads => ~Fresh(p) \/ ~Verified(p)
          /\ GoTo(r, "refused")
    /\ UNCHANGED << cacheVars, signerVars, readAt, storedAt, stored >>

\* The key under which a signature is remembered.  The variant has one key for
\* all the signatures of a service.
KeyOfService(p) == CHOOSE q \in Payloads : TRUE
CacheKey(p) == p

ReadCache(r) ==
    /\ pc[r] = "read"
    /\ readAt' = [readAt EXCEPT ![r] = now]
    /\ GoTo(r, IF Cache!Get(CacheKey(payload[r])) = NoPayload
               THEN "store" ELSE "refused")
    /\ UNCHANGED << cacheVars, signerVars, payload, beganAt, storedAt, stored,
                    precededBy >>

\* The signature is remembered; in the variant for less than the payload is
\* valid.
RememberForLess(r) ==
    Cache!Set(CacheKey(payload[r]), payload[r], Duration - 1)
Remember(r) == Cache!Set(CacheKey(payload[r]), payload[r], Duration)

StoreSignature(r) ==
    /\ pc[r] = "store"
    /\ Remember(r)
    /\ storedAt' = [storedAt EXCEPT ![r] = now]
    /\ stored' = stored \cup {r}
    /\ GoTo(r, "authenticated")
    /\ UNCHANGED << signerVars, payload, beganAt, readAt, precededBy >>

\* The command is applied, its answer is lost and the client sends it again.
StoreUnanswered(r) ==
    /\ pc[r] = "store"
    /\ Remember(r)
    /\ stored' = stored \cup {r}
    /\ UNCHANGED << signerVars, pc, payload, beganAt, readAt, storedAt,
                    precededBy >>

CacheFails(r) ==
    /\ pc[r] \in InProgress
    /\ GoTo(r, "failed")
    /\ UNCHANGED << cacheVars, signerVars, payload, beganAt, readAt, storedAt,
                    stored, precededBy >>

AuthenticateService(r) ==
    \/ \E p \in {q \in Payloads : key[q] # NoKey} \cup {NoPayload} : Begin(r, p)
    \/ ReadCache(r)
    \/ StoreSignature(r)
    \/ StoreUnanswered(r)
    \/ CacheFails(r)

-----------------------------------------------------------------------------
Tick ==
    /\ now < MaxTime
    /\ Cache!Tick
    /\ UNCHANGED << signerVars, pc, payload, beganAt, readAt, storedAt, stored,
                    precededBy >>

\* The verifier stops with the requests in progress; the cache survives it.
StopAll ==
    /\ pc' = [r \in Requests |->
                 IF pc[r] \in InProgress THEN "failed" ELSE pc[r]]
    /\ UNCHANGED << cacheVars, signerVars, payload, beganAt, readAt, storedAt,
                    stored, precededBy >>

Crash == (\E r \in Requests : pc[r] \in InProgress) /\ StopAll

Terminated ==
    /\ \A p \in Payloads : key[p] # NoKey
    /\ \A r \in Requests : pc[r] \in Ended
    /\ now = MaxTime
    /\ UNCHANGED vars

Next ==
    \/ \E p \in Payloads, k \in Keys, skew \in Skews : Generate(p, k, skew)
    \/ \E r \in Requests : AuthenticateService(r)
    \/ Tick
    \/ Crash
    \/ Terminated

Spec == Init /\ [][Next]_vars

-----------------------------------------------------------------------------
(* Properties.                                                             *)

Authenticated(r) == pc[r] = "authenticated"

\* A signature is accepted a second time, by a request that began when the
\* first had ended, only if the cache was asked for it later after the check of
\* its timestamp than it had been stored after that timestamp: the entry lives
\* as long as the payload, from the store on.  So with clocks that agree and a
\* cache that answers at once it is accepted once.
SecondUseIsLate ==
    \A q, r \in Requests :
        /\ Authenticated(q) /\ Authenticated(r)
        /\ payload[q] = payload[r]
        /\ q \in precededBy[r]
        => readAt[r] - beganAt[r] > storedAt[q] - stamp[payload[r]]

\* A payload that is fresh and signed with the last key of the verifier's list
\* is turned down, when the cache answers, only because a request that carries
\* the same payload has stored its signature.
NoFalseReplay ==
    \A r \in Requests :
        /\ pc[r] = "refused"
        /\ payload[r] \in Payloads
        /\ beganAt[r] <= stamp[payload[r]] + Duration
        /\ Verified(payload[r])
        => \E q \in stored \ {r} : payload[q] = payload[r]

-----------------------------------------------------------------------------
(* The inductive invariant behind these properties.                        *)

\* An entry was stored by a request with that payload.
EntryInv ==
    \A p \in Payloads :
        entries[p].value # NoPayload => \E q \in stored : payload[q] = p

\* The signature of an authenticated request is in the cache until Duration
\* after it was stored.
StoredInv ==
    /\ \A q \in stored : pc[q] \in {"store", "authenticated", "failed"}
    /\ \A q \in Requests :
        Authenticated(q) =>
            /\ q \in stored
            /\ storedAt[q] <= now
            /\ \/ storedAt[q] + Duration < now
               \/ /\ entries[payload[q]].value # NoPayload
                  /\ storedAt[q] + Duration <= entries[payload[q]].expiresAt

\* A request past the check of its payload presents one that was fresh then,
\* with a signature that holds.
FreshInv ==
    \A r \in Requests :
        pc[r] \in {"read", "store", "authenticated"} =>
            /\ payload[r] \in Payloads
            /\ key[payload[r]] # NoKey
            /\ Verified(payload[r])
            /\ beganAt[r] <= stamp[payload[r]] + Duration

\* It asked the cache after the entries of earlier requests had expired.
ReadInv ==
    \A r, q \in Requests :
        q \in precededBy[r] =>
            /\ pc[q] \in Ended
            /\ /\ pc[r] \in {"store", "authenticated"}
               /\ Authenticated(q)
               /\ payload[q] = payload[r]
               => storedAt[q] + Duration < readAt[r]

\* What has not begun has no past, and what has presents something made.
BeginInv ==
    \A r \in Requests :
        /\ pc[r] = "idle" => payload[r] = NoPayload /\ precededBy[r] = {}
        /\ payload[r] \in Payloads => key[payload[r]] # NoKey

IndInv ==
    /\ TypeOK
    /\ BeginInv
    /\ EntryInv
    /\ StoredInv
    /\ FreshInv
    /\ ReadInv
    /\ NoFalseReplay
=============================================================================
