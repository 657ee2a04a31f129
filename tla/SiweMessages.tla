---------------------------- MODULE SiweMessages ----------------------------
(***************************************************************************)
(* The Sign-In-With-Ethereum messages of the auth service: generated for a *)
(* wallet by GenerateSIWEPayload, kept in the cache under the normalised   *)
(* wallet address, and taken out again by FetchSIWEMessage.                *)
(*                                                                         *)
(* A generator is one execution of GenerateSIWEPayload and a fetcher one   *)
(* execution of FetchSIWEMessage; each advances one cache command at a     *)
(* time.  A message is identified with its generator: the nonce and the    *)
(* time it carries are taken to make it unique.  The cache client resends  *)
(* a command that got no answer, so a command may take effect more than    *)
(* once before its caller moves on, and may fail after taking effect.      *)
(***************************************************************************)
EXTENDS Naturals

CONSTANTS
    Generators,  \* executions of GenerateSIWEPayload, and their messages
    Fetchers,    \* executions of FetchSIWEMessage
    Addresses,   \* wallet addresses as spelled in the requests
    Keys,        \* cache keys, one for each normalised address
    Normal,      \* Normal[a]: the key of a, NoKey when a is malformed
    NoKey,
    NoMessage,
    Expiration,  \* lifetime of a message
    StoreLag,    \* longest time between the build and the store of a message
    MaxTime      \* bound of the clock

ASSUME NormalAssumption == Normal \in [Addresses -> Keys \cup {NoKey}]
ASSUME MessageAssumption == NoMessage \notin Generators
ASSUME KeyAssumption == NoKey \notin Keys
ASSUME TimeAssumption ==
    Expiration \in Nat \ {0} /\ StoreLag \in Nat /\ MaxTime \in Nat

VARIABLES
    entries, now,  \* the cache and the clock
    genPc,         \* genPc[g]: where g is
    genKey,        \* genKey[g]: the key its message is stored under
    issuedAt,      \* issuedAt[g]: the time printed in its message
    before,        \* before[g]: messages handed out before g started
    fetchPc,       \* fetchPc[f]: where f is
    fetchKey,      \* fetchKey[f]: the key it reads and deletes
    fetchMsg,      \* fetchMsg[f]: the message it read
    fetchedAt,     \* fetchedAt[f]: when it read it
    known          \* known[f]: messages handed out before f started

genVars == << genPc, genKey, issuedAt, before >>
fetchVars == << fetchPc, fetchKey, fetchMsg, fetchedAt, known >>
cacheVars == << entries, now >>
vars == << entries, now, genPc, genKey, issuedAt, before,
           fetchPc, fetchKey, fetchMsg, fetchedAt, known >>

Cache == INSTANCE RedisCache WITH Values <- Generators, NoValue <- NoMessage

GenSteps == {"idle", "built", "replied", "failed"}
FetchSteps == {"idle", "get", "del", "done", "invalid", "failed"}

TypeOK ==
    /\ Cache!TypeOK
    /\ genPc \in [Generators -> GenSteps]
    /\ genKey \in [Generators -> Keys \cup {NoKey}]
    /\ issuedAt \in [Generators -> Nat]
    /\ before \in [Generators -> SUBSET Generators]
    /\ fetchPc \in [Fetchers -> FetchSteps]
    /\ fetchKey \in [Fetchers -> Keys \cup {NoKey}]
    /\ fetchMsg \in [Fetchers -> Generators \cup {NoMessage}]
    /\ fetchedAt \in [Fetchers -> Nat]
    /\ known \in [Fetchers -> SUBSET Generators]

Init ==
    /\ Cache!Init
    /\ genPc = [g \in Generators |-> "idle"]
    /\ genKey = [g \in Generators |-> NoKey]
    /\ issuedAt = [g \in Generators |-> 0]
    /\ before = [g \in Generators |-> {}]
    /\ fetchPc = [f \in Fetchers |-> "idle"]
    /\ fetchKey = [f \in Fetchers |-> NoKey]
    /\ fetchMsg = [f \in Fetchers |-> NoMessage]
    /\ fetchedAt = [f \in Fetchers |-> 0]
    /\ known = [f \in Fetchers |-> {}]

\* Messages whose generator has answered: a wallet may have signed them.
HandedOut == {g \in Generators : genPc[g] = "replied"}

GenGoTo(g, step) == genPc' = [genPc EXCEPT ![g] = step]
FetchGoTo(f, step) == fetchPc' = [fetchPc EXCEPT ![f] = step]

-----------------------------------------------------------------------------
(* GenerateSIWEPayload.                                                    *)

\* accepted stands for the checks of domain, chain and URI and for the nonce.
Build(g, a, accepted) ==
    /\ genPc[g] = "idle"
    /\ IF Normal[a] # NoKey /\ accepted
       THEN /\ GenGoTo(g, "built")
            /\ genKey' = [genKey EXCEPT ![g] = Normal[a]]
            /\ issuedAt' = [issuedAt EXCEPT ![g] = now]
            /\ before' = [before EXCEPT ![g] = HandedOut]
       ELSE /\ GenGoTo(g, "failed")
            /\ UNCHANGED << genKey, issuedAt, before >>
    /\ UNCHANGED << cacheVars, fetchVars >>

\* The variants keep an older message and give it a shorter or a longer life.
StoreIfAbsent(g) ==
    IF Cache!Get(genKey[g]) = NoMessage
    THEN Cache!Set(genKey[g], g, Expiration)
    ELSE UNCHANGED cacheVars
StoreForLess(g) == Cache!Set(genKey[g], g, Expiration - 1)
StoreForMore(g) == Cache!Set(genKey[g], g, 2 * Expiration)
StoreMessage(g) == Cache!Set(genKey[g], g, Expiration)

Store(g) ==
    /\ genPc[g] = "built"
    /\ StoreMessage(g)
    /\ GenGoTo(g, "replied")
    /\ UNCHANGED << genKey, issuedAt, before, fetchVars >>

\* The command is applied, its answer is lost and the client sends it again.
StoreUnanswered(g) ==
    /\ genPc[g] = "built"
    /\ StoreMessage(g)
    /\ UNCHANGED << genVars, fetchVars >>

StoreFails(g) ==
    /\ genPc[g] = "built"
    /\ GenGoTo(g, "failed")
    /\ UNCHANGED << cacheVars, genKey, issuedAt, before, fetchVars >>

-----------------------------------------------------------------------------
(* FetchSIWEMessage.                                                       *)

FetchBegin(f, a) ==
    /\ fetchPc[f] = "idle"
    /\ IF Normal[a] = NoKey THEN FetchGoTo(f, "invalid")
                            ELSE FetchGoTo(f, "get")
    /\ fetchKey' = [fetchKey EXCEPT ![f] = Normal[a]]
    /\ known' = [known EXCEPT ![f] = HandedOut]
    /\ UNCHANGED << cacheVars, genVars, fetchMsg, fetchedAt >>

FetchGet(f) ==
    /\ fetchPc[f] = "get"
    /\ IF Cache!Get(fetchKey[f]) = NoMessage
       THEN FetchGoTo(f, "failed") /\ UNCHANGED << fetchMsg, fetchedAt >>
       ELSE /\ FetchGoTo(f, "del")
            /\ fetchMsg' = [fetchMsg EXCEPT ![f] = Cache!Get(fetchKey[f])]
            /\ fetchedAt' = [fetchedAt EXCEPT ![f] = now]
    /\ UNCHANGED << cacheVars, genVars, fetchKey, known >>

\* The message is taken out of the cache; in the variant it stays.
LeaveMessage(f) == UNCHANGED cacheVars
DropMessage(f) == Cache!Del(fetchKey[f])

FetchDel(f) ==
    /\ fetchPc[f] = "del"
    /\ DropMessage(f)
    /\ FetchGoTo(f, "done")
    /\ UNCHANGED << genVars, fetchKey, fetchMsg, fetchedAt, known >>

FetchDelUnanswered(f) ==
    /\ fetchPc[f] = "del"
    /\ DropMessage(f)
    /\ UNCHANGED << genVars, fetchVars >>

FetchFails(f) ==
    /\ fetchPc[f] \in {"get", "del"}
    /\ FetchGoTo(f, "failed")
    /\ UNCHANGED << cacheVars, genVars, fetchKey, fetchMsg, fetchedAt, known >>

-----------------------------------------------------------------------------
(* Time, and a restart of the service, which the cache survives.           *)

Tick ==
    /\ now < MaxTime
    /\ \A g \in Generators : genPc[g] = "built" => now < issuedAt[g] + StoreLag
    /\ Cache!Tick
    /\ UNCHANGED << genVars, fetchVars >>

InProgress ==
    \/ \E g \in Generators : genPc[g] = "built"
    \/ \E f \in Fetchers : fetchPc[f] \in {"get", "del"}

StopAll ==
    /\ genPc' = [g \in Generators |->
                    IF genPc[g] = "built" THEN "failed" ELSE genPc[g]]
    /\ fetchPc' = [f \in Fetchers |->
                      IF fetchPc[f] \in {"get", "del"} THEN "failed"
                      ELSE fetchPc[f]]
    /\ UNCHANGED << cacheVars, genKey, issuedAt, before, fetchKey, fetchMsg,
                    fetchedAt, known >>

Generate(g) ==
    \/ \E a \in Addresses, accepted \in BOOLEAN : Build(g, a, accepted)
    \/ Store(g) \/ StoreUnanswered(g) \/ StoreFails(g)

FetchStep(f) ==
    FetchGet(f) \/ FetchDel(f) \/ FetchDelUnanswered(f) \/ FetchFails(f)

Fetch(f) == FetchStep(f) \/ \E a \in Addresses : FetchBegin(f, a)

Stop == InProgress /\ StopAll

Terminated ==
    /\ \A g \in Generators : genPc[g] \in {"replied", "failed"}
    /\ \A f \in Fetchers : fetchPc[f] \in {"done", "invalid", "failed"}
    /\ now = MaxTime
    /\ UNCHANGED vars

Next ==
    \/ \E g \in Generators : Generate(g)
    \/ \E f \in Fetchers : Fetch(f)
    \/ Tick
    \/ Stop
    \/ Terminated

Spec == Init /\ [][Next]_vars

-----------------------------------------------------------------------------
(* Properties.                                                             *)

\* Once a message that was handed out has been fetched, the cache never holds
\* it again: neither a late store of its generator nor a resent command brings
\* it back (GenerateSIWEPayload answers after its store, FetchSIWEMessage
\* returns after its deletion).
SpentStaysSpent ==
    \A f \in Fetchers :
        fetchPc[f] = "done" /\ fetchMsg[f] \in known[f] =>
            \A k \in Keys : entries[k].value # fetchMsg[f]

\* A wallet's newest message replaces the ones it was handed before: those can
\* no longer be fetched (both are stored under the same key).
OnlyNewestIsStored ==
    \A g, h \in Generators :
        /\ genPc[h] = "replied"
        /\ g \in before[h]
        /\ genKey[g] = genKey[h]
        => entries[genKey[h]].value # g

\* A message that was handed out can be fetched until the expiration time
\* printed in it, as long as no one asks for another message of that wallet or
\* starts to fetch one.
AvailableUntilExpiration ==
    \A g \in Generators :
        /\ genPc[g] = "replied"
        /\ now <= issuedAt[g] + Expiration
        /\ \A h \in Generators \ {g} : genKey[h] # genKey[g]
        /\ \A f \in Fetchers : fetchKey[f] # genKey[g]
        => entries[genKey[g]].value = g

\* No message is fetched later than its printed expiration time plus the time
\* it took to store: the cache entry is the only expiry there is, and its time
\* to live counts from the store, not from the time in the message.
FetchedWithinLifetime ==
    \A f \in Fetchers :
        fetchPc[f] \in {"del", "done"} =>
            fetchedAt[f] <= issuedAt[fetchMsg[f]] + Expiration + StoreLag

-----------------------------------------------------------------------------
(* The inductive invariant behind these properties.                        *)

\* What was handed out stays handed out, and a message about to be stored is
\* not older than StoreLag.
GenInv ==
    \A g \in Generators :
        /\ before[g] \subseteq HandedOut
        /\ genPc[g] = "idle" => genKey[g] = NoKey
        /\ genPc[g] \in {"built", "replied"} => genKey[g] \in Keys
        /\ genPc[g] = "built" =>
            issuedAt[g] <= now /\ now <= issuedAt[g] + StoreLag

\* A message is stored under its own key, for at least the lifetime printed in
\* it and at most StoreLag longer.
EntryInv ==
    \A k \in Keys, g \in Generators :
        entries[k].value = g =>
            /\ genPc[g] # "idle"
            /\ genKey[g] = k
            /\ now <= entries[k].expiresAt
            /\ issuedAt[g] + Expiration <= entries[k].expiresAt
            /\ entries[k].expiresAt <= issuedAt[g] + Expiration + StoreLag

\* A fetcher past its Get has a message of the key it asked for.
FetchInv ==
    \A f \in Fetchers :
        /\ known[f] \subseteq HandedOut
        /\ fetchPc[f] = "idle" => fetchKey[f] = NoKey
        /\ fetchPc[f] \in {"get", "del", "done"} => fetchKey[f] \in Keys
        /\ fetchPc[f] \in {"del", "done"} =>
            /\ fetchMsg[f] \in Generators
            /\ genPc[fetchMsg[f]] # "idle"
            /\ genKey[fetchMsg[f]] = fetchKey[f]

IndInv ==
    /\ TypeOK
    /\ GenInv
    /\ EntryInv
    /\ FetchInv
    /\ SpentStaysSpent
    /\ OnlyNewestIsStored
    /\ AvailableUntilExpiration
    /\ FetchedWithinLifetime
=============================================================================
