------------------------- MODULE SiweMessagesProofs -------------------------
(***************************************************************************)
(* Theorems about SiweMessages for every number of generators and          *)
(* fetchers, every normalisation of addresses, lifetime, lag and clock.    *)
(***************************************************************************)
EXTENDS SiweMessages, TLAPS

USE NormalAssumption, MessageAssumption, KeyAssumption, TimeAssumption

USE DEF GenGoTo, FetchGoTo, GenSteps, FetchSteps, HandedOut, genVars,
        fetchVars, cacheVars, Cache!TypeOK

-----------------------------------------------------------------------------
(* Type correctness.                                                       *)

LEMMA InitType == Init => TypeOK
  BY DEF Init, TypeOK, Cache!Init, Cache!Entries, Cache!Absent

LEMMA GenerateType ==
    ASSUME TypeOK, NEW g \in Generators, Generate(g),
           \A h \in Generators : genPc[h] = "built" => genKey[h] \in Keys
    PROVE  TypeOK'
  <1> USE DEF TypeOK
  <1>1. CASE \E a \in Addresses, accepted \in BOOLEAN : Build(g, a, accepted)
    <2>1. PICK a \in Addresses, accepted \in BOOLEAN : Build(g, a, accepted)
      BY <1>1
    <2>2. CASE Normal[a] # NoKey /\ accepted
      BY <2>1, <2>2 DEF Build
    <2>3. CASE ~(Normal[a] # NoKey /\ accepted)
      BY <2>1, <2>3 DEF Build
    <2> QED
      BY <2>2, <2>3
  <1>2. CASE Store(g) \/ StoreUnanswered(g)
    BY <1>2 DEF Store, StoreUnanswered, StoreMessage, Cache!Set, Cache!Entries
  <1>3. CASE StoreFails(g)
    BY <1>3 DEF StoreFails
  <1> QED
    BY <1>1, <1>2, <1>3 DEF Generate

LEMMA FetchType ==
    ASSUME TypeOK, NEW f \in Fetchers, Fetch(f),
           fetchPc[f] = "get" => fetchKey[f] \in Keys
    PROVE  TypeOK'
  <1> USE DEF TypeOK
  <1>1. CASE \E a \in Addresses : FetchBegin(f, a)
    BY <1>1 DEF FetchBegin
  <1>2. CASE FetchGet(f)
    <2>1. entries[fetchKey[f]].value \in Generators \cup {NoMessage}
      BY <1>2 DEF FetchGet, Cache!Entries
    <2>2. CASE entries[fetchKey[f]].value = NoMessage
      BY <1>2, <2>2 DEF FetchGet, Cache!Get
    <2>3. CASE entries[fetchKey[f]].value # NoMessage
      BY <1>2, <2>1, <2>3 DEF FetchGet, Cache!Get
    <2> QED
      BY <2>2, <2>3
  <1>3. CASE FetchDel(f) \/ FetchDelUnanswered(f)
    BY <1>3 DEF FetchDel, FetchDelUnanswered, DropMessage, Cache!Del,
                Cache!Entries, Cache!Absent
  <1>4. CASE FetchFails(f)
    BY <1>4 DEF FetchFails
  <1> QED
    BY <1>1, <1>2, <1>3, <1>4 DEF Fetch, FetchStep

-----------------------------------------------------------------------------
(* One lemma for each action: it preserves the invariant.  Each lists the  *)
(* conjuncts the action disturbs before those that it does not.            *)

\* A new message is in no cache entry, was fetched by no one and has handed-
\* out predecessors only.
LEMMA BuildStep ==
    ASSUME IndInv, NEW g \in Generators, NEW a \in Addresses,
           NEW accepted \in BOOLEAN, Build(g, a, accepted)
    PROVE  IndInv'
  <1> USE DEF IndInv, TypeOK
  <1>1. TypeOK'
    BY GenerateType DEF GenInv, Generate
  <1>2. GenInv'
    BY <1>1 DEF GenInv, Build
  <1>3. EntryInv'
    BY <1>1 DEF EntryInv, Build, Cache!Entries
  <1>4. FetchInv'
    BY <1>1 DEF FetchInv, Build, GenInv
  <1>5. SpentStaysSpent'
    BY <1>1 DEF SpentStaysSpent, Build
  <1>6. OnlyNewestIsStored'
    BY <1>1 DEF OnlyNewestIsStored, Build, GenInv
  <1>7. AvailableUntilExpiration'
    BY <1>1 DEF AvailableUntilExpiration, Build, GenInv
  <1>8. FetchedWithinLifetime'
    BY <1>1 DEF FetchedWithinLifetime, Build, FetchInv
  <1> QED
    BY <1>1, <1>2, <1>3, <1>4, <1>5, <1>6, <1>7, <1>8

\* A store puts the message of a generator that has not answered under its
\* own key.
LEMMA StoreStep ==
    ASSUME IndInv, NEW g \in Generators, Store(g) \/ StoreUnanswered(g)
    PROVE  IndInv'
  <1> USE DEF IndInv, TypeOK
  <1>1. TypeOK'
    BY GenerateType DEF GenInv, Generate
  <1>2. GenInv'
    BY <1>1 DEF GenInv, Store, StoreUnanswered, StoreMessage, Cache!Set,
                Cache!Entries
  <1>3. EntryInv'
    BY <1>1 DEF EntryInv, Store, StoreUnanswered, StoreMessage, Cache!Set,
                Cache!Entries, GenInv
  <1>4. FetchInv'
    BY <1>1 DEF FetchInv, Store, StoreUnanswered, StoreMessage, Cache!Set,
                Cache!Entries, GenInv
  <1>5. SpentStaysSpent'
    BY <1>1 DEF SpentStaysSpent, Store, StoreUnanswered, StoreMessage,
                Cache!Set, Cache!Entries, FetchInv, GenInv
  <1>6. OnlyNewestIsStored'
    BY <1>1 DEF OnlyNewestIsStored, Store, StoreUnanswered, StoreMessage,
                Cache!Set, Cache!Entries, GenInv, EntryInv
  <1>7. AvailableUntilExpiration'
    BY <1>1 DEF AvailableUntilExpiration, Store, StoreUnanswered,
                StoreMessage, Cache!Set, Cache!Entries, GenInv
  <1>8. FetchedWithinLifetime'
    BY <1>1 DEF FetchedWithinLifetime, Store, StoreUnanswered, StoreMessage,
                Cache!Set, Cache!Entries, FetchInv
  <1> QED
    BY <1>1, <1>2, <1>3, <1>4, <1>5, <1>6, <1>7, <1>8

\* A failed store leaves the cache as it is.
LEMMA StoreFailsStep ==
    ASSUME IndInv, NEW g \in Generators, StoreFails(g)
    PROVE  IndInv'
  <1> USE DEF IndInv, TypeOK
  <1>1. TypeOK'
    BY GenerateType DEF GenInv, Generate
  <1>2. GenInv'
    BY <1>1 DEF GenInv, StoreFails
  <1>3. EntryInv'
    BY <1>1 DEF EntryInv, StoreFails, Cache!Entries
  <1>4. FetchInv'
    BY <1>1 DEF FetchInv, StoreFails
  <1>5. /\ SpentStaysSpent'
        /\ OnlyNewestIsStored'
        /\ AvailableUntilExpiration'
        /\ FetchedWithinLifetime'
    BY <1>1 DEF SpentStaysSpent, OnlyNewestIsStored, AvailableUntilExpiration,
                FetchedWithinLifetime, StoreFails
  <1> QED
    BY <1>1, <1>2, <1>3, <1>4, <1>5

\* A fetch begins with the messages that have been handed out.
LEMMA FetchBeginStep ==
    ASSUME IndInv, NEW f \in Fetchers, NEW a \in Addresses,
           FetchBegin(f, a)
    PROVE  IndInv'
  <1> USE DEF IndInv, TypeOK
  <1>1. TypeOK'
    BY FetchType DEF FetchInv, Fetch
  <1>2. GenInv'
    BY <1>1 DEF GenInv, FetchBegin
  <1>3. EntryInv'
    BY <1>1 DEF EntryInv, FetchBegin, Cache!Entries
  <1>4. FetchInv'
    BY <1>1 DEF FetchInv, FetchBegin
  <1>5. AvailableUntilExpiration'
    BY <1>1 DEF AvailableUntilExpiration, FetchBegin, FetchInv, GenInv
  <1>6. /\ SpentStaysSpent'
        /\ OnlyNewestIsStored'
        /\ FetchedWithinLifetime'
    BY <1>1 DEF SpentStaysSpent, OnlyNewestIsStored, FetchedWithinLifetime,
                FetchBegin
  <1> QED
    BY <1>1, <1>2, <1>3, <1>4, <1>5, <1>6

\* What is read is a message of the key, within its lifetime.
LEMMA FetchGetStep ==
    ASSUME IndInv, NEW f \in Fetchers, FetchGet(f)
    PROVE  IndInv'
  <1> USE DEF IndInv, TypeOK
  <1>1. TypeOK'
    BY FetchType DEF FetchInv, Fetch, FetchStep
  <1>2. FetchInv'
    BY <1>1 DEF FetchInv, FetchGet, Cache!Get, EntryInv, Cache!Entries
  <1>3. FetchedWithinLifetime'
    BY <1>1 DEF FetchedWithinLifetime, FetchGet, Cache!Get, FetchInv,
                EntryInv, Cache!Entries
  <1>4. GenInv'
    BY <1>1 DEF GenInv, FetchGet, Cache!Get
  <1>5. EntryInv'
    BY <1>1 DEF EntryInv, FetchGet, Cache!Get
  <1>6. /\ SpentStaysSpent'
        /\ OnlyNewestIsStored'
        /\ AvailableUntilExpiration'
    BY <1>1 DEF SpentStaysSpent, OnlyNewestIsStored, AvailableUntilExpiration,
                FetchGet, Cache!Get
  <1> QED
    BY <1>1, <1>2, <1>3, <1>4, <1>5, <1>6

\* The deletion empties the only entry that could hold the message.
LEMMA FetchDelStep ==
    ASSUME IndInv, NEW f \in Fetchers, FetchDel(f) \/ FetchDelUnanswered(f)
    PROVE  IndInv'
  <1> USE DEF IndInv, TypeOK
  <1>1. TypeOK'
    BY FetchType DEF FetchInv, Fetch, FetchStep
  <1>2. GenInv'
    BY <1>1 DEF GenInv, FetchDel, FetchDelUnanswered, DropMessage, Cache!Del,
                Cache!Absent
  <1>3. EntryInv'
    BY <1>1 DEF EntryInv, FetchDel, FetchDelUnanswered, DropMessage,
                Cache!Del, Cache!Absent, Cache!Entries
  <1>4. FetchInv'
    BY <1>1 DEF FetchInv, FetchDel, FetchDelUnanswered, DropMessage,
                Cache!Del, Cache!Absent
  <1>5. SpentStaysSpent'
    BY <1>1 DEF SpentStaysSpent, FetchDel, FetchDelUnanswered, DropMessage,
                Cache!Del, Cache!Absent, FetchInv, EntryInv, Cache!Entries
  <1>6. OnlyNewestIsStored'
    BY <1>1 DEF OnlyNewestIsStored, FetchDel, FetchDelUnanswered, DropMessage,
                Cache!Del, Cache!Absent, GenInv, FetchInv, Cache!Entries
  <1>7. AvailableUntilExpiration'
    BY <1>1 DEF AvailableUntilExpiration, FetchDel, FetchDelUnanswered,
                DropMessage, Cache!Del, Cache!Absent, FetchInv, GenInv,
                Cache!Entries
  <1>8. FetchedWithinLifetime'
    BY <1>1 DEF FetchedWithinLifetime, FetchDel, FetchDelUnanswered,
                DropMessage, Cache!Del, Cache!Absent
  <1> QED
    BY <1>1, <1>2, <1>3, <1>4, <1>5, <1>6, <1>7, <1>8

\* A failed fetch leaves the cache as it is.
LEMMA FetchFailsStep ==
    ASSUME IndInv, NEW f \in Fetchers, FetchFails(f)
    PROVE  IndInv'
  <1> USE DEF IndInv, TypeOK
  <1>1. TypeOK'
    BY FetchType DEF FetchInv, Fetch, FetchStep
  <1>2. GenInv'
    BY <1>1 DEF GenInv, FetchFails
  <1>3. EntryInv'
    BY <1>1 DEF EntryInv, FetchFails, Cache!Entries
  <1>4. FetchInv'
    BY <1>1 DEF FetchInv, FetchFails
  <1>5. /\ SpentStaysSpent'
        /\ OnlyNewestIsStored'
        /\ AvailableUntilExpiration'
        /\ FetchedWithinLifetime'
    BY <1>1 DEF SpentStaysSpent, OnlyNewestIsStored, AvailableUntilExpiration,
                FetchedWithinLifetime, FetchFails
  <1> QED
    BY <1>1, <1>2, <1>3, <1>4, <1>5

\* The clock drops entries past their lifetime and waits for stores that are
\* due.
LEMMA TickStep ==
    ASSUME IndInv, Tick
    PROVE  IndInv'
  <1> USE DEF IndInv, TypeOK
  <1>1. TypeOK'
    BY DEF Tick, Cache!Tick, Cache!Entries, Cache!Absent
  <1>2. GenInv'
    BY <1>1 DEF GenInv, Tick, Cache!Tick, Cache!Absent
  <1>3. EntryInv'
    BY <1>1 DEF EntryInv, Tick, Cache!Tick, Cache!Absent, Cache!Entries
  <1>4. FetchInv'
    BY <1>1 DEF FetchInv, Tick, Cache!Tick, Cache!Absent
  <1>5. SpentStaysSpent'
    BY <1>1 DEF SpentStaysSpent, Tick, Cache!Tick, Cache!Absent, FetchInv,
                Cache!Entries
  <1>6. OnlyNewestIsStored'
    BY <1>1 DEF OnlyNewestIsStored, Tick, Cache!Tick, Cache!Absent, GenInv,
                Cache!Entries
  <1>7. AvailableUntilExpiration'
    BY <1>1 DEF AvailableUntilExpiration, Tick, Cache!Tick, Cache!Absent,
                EntryInv, GenInv, Cache!Entries
  <1>8. FetchedWithinLifetime'
    BY <1>1 DEF FetchedWithinLifetime, Tick, Cache!Tick, Cache!Absent
  <1> QED
    BY <1>1, <1>2, <1>3, <1>4, <1>5, <1>6, <1>7, <1>8

\* A restart ends generators and fetchers, and the cache stays.
LEMMA StopStep ==
    ASSUME IndInv, Stop
    PROVE  IndInv'
  <1> USE DEF IndInv, TypeOK
  <1>1. TypeOK'
    BY DEF Stop, StopAll
  <1>2. GenInv'
    BY <1>1 DEF GenInv, Stop, StopAll
  <1>3. EntryInv'
    BY <1>1 DEF EntryInv, Stop, StopAll, Cache!Entries
  <1>4. FetchInv'
    BY <1>1 DEF FetchInv, Stop, StopAll
  <1>5. /\ SpentStaysSpent'
        /\ OnlyNewestIsStored'
        /\ AvailableUntilExpiration'
        /\ FetchedWithinLifetime'
    BY <1>1 DEF SpentStaysSpent, OnlyNewestIsStored, AvailableUntilExpiration,
                FetchedWithinLifetime, Stop, StopAll
  <1> QED
    BY <1>1, <1>2, <1>3, <1>4, <1>5

-----------------------------------------------------------------------------
(* The theorems.                                                           *)

LEMMA InitInv == Init => IndInv
  <1> SUFFICES ASSUME Init PROVE IndInv
    OBVIOUS
  <1> USE DEF Init, Cache!Init, Cache!Absent
  <1>1. TypeOK
    BY InitType
  <1>2. GenInv /\ EntryInv /\ FetchInv
    BY DEF GenInv, EntryInv, FetchInv
  <1>3. SpentStaysSpent /\ OnlyNewestIsStored
    BY DEF SpentStaysSpent, OnlyNewestIsStored
  <1>4. AvailableUntilExpiration /\ FetchedWithinLifetime
    BY DEF AvailableUntilExpiration, FetchedWithinLifetime
  <1> QED
    BY <1>1, <1>2, <1>3, <1>4 DEF IndInv

LEMMA NextInv == IndInv /\ [Next]_vars => IndInv'
  <1> SUFFICES ASSUME IndInv, [Next]_vars PROVE IndInv'
    OBVIOUS
  <1>1. ASSUME NEW g \in Generators, Generate(g) PROVE IndInv'
    BY <1>1, BuildStep, StoreStep, StoreFailsStep DEF Generate
  <1>2. ASSUME NEW f \in Fetchers, Fetch(f) PROVE IndInv'
    BY <1>2, FetchBeginStep, FetchGetStep, FetchDelStep, FetchFailsStep
       DEF Fetch, FetchStep
  <1>3. CASE Tick
    BY <1>3, TickStep
  <1>4. CASE Stop
    BY <1>4, StopStep
  <1>5. CASE UNCHANGED vars
    BY <1>5
       DEF vars, IndInv, TypeOK, Cache!Entries, GenInv, EntryInv, FetchInv,
           SpentStaysSpent, OnlyNewestIsStored, AvailableUntilExpiration,
           FetchedWithinLifetime
  <1> QED
    BY <1>1, <1>2, <1>3, <1>4, <1>5 DEF Next, Terminated

\* The inductive invariant: where each message is at any time.
THEOREM InductiveInvariant == Spec => []IndInv
  BY InitInv, NextInv, PTL DEF Spec

\* Every variable keeps its type (cache, generators and fetchers).
THEOREM TypeCorrectness == Spec => []TypeOK
  <1>1. IndInv => TypeOK
    BY DEF IndInv
  <1> QED
    BY <1>1, InductiveInvariant, PTL

\* A message that was handed out and then fetched never returns to the cache,
\* with any number of generators, fetchers, resent commands and restarts.
THEOREM SingleUse == Spec => []SpentStaysSpent
  <1>1. IndInv => SpentStaysSpent
    BY DEF IndInv
  <1> QED
    BY <1>1, InductiveInvariant, PTL

\* A wallet's newest message ends the use of those it was handed before.
THEOREM NewestWins == Spec => []OnlyNewestIsStored
  <1>1. IndInv => OnlyNewestIsStored
    BY DEF IndInv
  <1> QED
    BY <1>1, InductiveInvariant, PTL

\* Undisturbed messages live as long as they say, and no message is fetched
\* later than that plus the time its store took.
THEOREM Lifetime ==
    Spec => [](AvailableUntilExpiration /\ FetchedWithinLifetime)
  <1>1. IndInv => AvailableUntilExpiration /\ FetchedWithinLifetime
    BY DEF IndInv
  <1> QED
    BY <1>1, InductiveInvariant, PTL

\* The upper bound alone: no message is fetched later than its lifetime and the
\* time its store took (FetchSIWEMessage).
THEOREM FetchLifetime == Spec => []FetchedWithinLifetime
  <1>1. IndInv => FetchedWithinLifetime
    BY DEF IndInv
  <1> QED
    BY <1>1, InductiveInvariant, PTL
=============================================================================
