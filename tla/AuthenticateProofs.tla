-------------------------- MODULE AuthenticateProofs --------------------------
(***************************************************************************)
(* Theorems about Authenticate, for any calls, messages, wallets and       *)
(* services.  Each component takes its own steps or none in every step of  *)
(* the handler, so its specification, its invariants and what it           *)
(* implements hold in the composition; the properties of the handler       *)
(* relate them by where a call is in each.                                 *)
(***************************************************************************)
EXTENDS Authenticate, TLAPS

-----------------------------------------------------------------------------
(* The components in the composition.                                      *)

LEMMA StoreInitInv == Store!Init => Store!IndInv
  BY StoreAssumption, Store!InitInv
     DEF Store!Overlap, Store!IsFiniteSet, IsFiniteSet

LEMMA StoreNextInv ==
    Store!IndInv /\ [Store!Next]_(Store!vars) => Store!IndInv'
  BY StoreAssumption, Store!NextInv
     DEF Store!Overlap, Store!IsFiniteSet, IsFiniteSet

LEMMA SiweInitInv == Siwe!Init => Siwe!IndInv
  BY SiweAssumption, Siwe!InitInv

LEMMA SiweNextInv == Siwe!IndInv /\ [Siwe!Next]_(Siwe!vars) => Siwe!IndInv'
  BY SiweAssumption, Siwe!NextInv

\* The end of the process is a crash of the store, or goes unnoticed there.
LEMMA StoreStopAll ==
    ASSUME Store!IndInv, Store!StopAll
    PROVE  Store!Crash \/ UNCHANGED storeVars
  <1>1. CASE \E c \in Calls : Store!Active(c)
    BY <1>1 DEF Store!Crash
  <1>2. CASE ~\E c \in Calls : Store!Active(c)
    <2>1. held' = held
      BY <1>2 DEF Store!StopAll, Store!IndInv, Store!PoolInv, Store!Active,
                  Store!InTransaction
    <2>2. pc' = pc /\ outcome' = outcome /\ fault' = fault
      BY <1>2 DEF Store!StopAll, Store!Interrupted, Store!IndInv, Store!TypeOK
    <2> QED
      BY <2>1, <2>2 DEF Store!StopAll, Store!inputs, Store!tables, storeVars
  <1> QED
    BY <1>1, <1>2

LEMMA SiweStopAll ==
    ASSUME Siwe!TypeOK, Siwe!StopAll
    PROVE  Siwe!Stop \/ UNCHANGED siweVars
  <1>1. CASE Siwe!InProgress
    BY <1>1 DEF Siwe!Stop
  <1>2. CASE ~Siwe!InProgress
    BY <1>2 DEF Siwe!StopAll, Siwe!InProgress, Siwe!TypeOK, siweVars,
                Siwe!cacheVars
  <1> QED
    BY <1>1, <1>2

\* Every step of the composition is a step of the store or leaves it alone.
LEMMA StoreStep ==
    ASSUME Store!IndInv, [Next]_vars
    PROVE  [Store!Next]_(Store!vars)
  <1> USE DEF vars, storeVars, Store!vars
  <1>1. ASSUME NEW c \in Calls, Handler(c)
        PROVE  Store!CallStep(c) \/ UNCHANGED storeVars
    BY <1>1 DEF Handler, Refuse, Accept, FetchMessage,
                HandleCredentialAndSession, Disturb, Store!CallStep
  <1>2. ASSUME Crash
        PROVE  Store!Crash \/ UNCHANGED storeVars
    BY <1>2, StoreStopAll DEF Crash
  <1>3. ASSUME NEW g \in Generators, GetSIWEPayload(g)
        PROVE  UNCHANGED storeVars
    BY <1>3 DEF GetSIWEPayload
  <1>4. ASSUME Tick \/ Terminated \/ UNCHANGED vars
        PROVE  UNCHANGED storeVars
    BY <1>4 DEF Tick, Terminated
  <1> QED
    BY <1>1, <1>2, <1>3, <1>4 DEF Next, Store!Next

\* The same of the messages, where a call fetches under its own address.
LEMMA SiweStep ==
    ASSUME Store!TypeOK, Siwe!TypeOK, [Next]_vars
    PROVE  [Siwe!Next]_(Siwe!vars)
  <1> USE DEF vars, siweVars, Siwe!vars
  <1>1. ASSUME NEW c \in Calls, Handler(c)
        PROVE  Siwe!Fetch(c) \/ UNCHANGED siweVars
    <2>1. request[c].addr \in Addresses
      BY DEF Store!TypeOK, Store!Requests
    <2> QED
      BY <1>1, <2>1 DEF Handler, Refuse, Accept, FetchMessage,
                        HandleCredentialAndSession, Disturb, Siwe!Fetch
  <1>2. ASSUME Crash
        PROVE  Siwe!Stop \/ UNCHANGED siweVars
    BY <1>2, SiweStopAll DEF Crash
  <1>3. ASSUME NEW g \in Generators, GetSIWEPayload(g)
        PROVE  Siwe!Generate(g)
    BY <1>3 DEF GetSIWEPayload
  <1>4. ASSUME Tick \/ Terminated \/ UNCHANGED vars
        PROVE  Siwe!Tick \/ UNCHANGED siweVars
    BY <1>4 DEF Tick, Terminated
  <1> QED
    BY <1>1, <1>2, <1>3, <1>4 DEF Next, Siwe!Next

LEMMA PartsNext ==
    ASSUME IndInv, [Next]_vars
    PROVE  Store!IndInv' /\ Siwe!IndInv'
  <1>1. Store!TypeOK /\ Siwe!TypeOK
    BY DEF IndInv, TypeOK
  <1> QED
    BY <1>1, StoreStep, SiweStep, StoreNextInv, SiweNextInv DEF IndInv

-----------------------------------------------------------------------------
(* What an operation of one call does to where the calls are.              *)

LEMMA StoreMoves ==
    ASSUME Store!TypeOK, NEW c \in Calls, Store!Progress(c) \/ Store!Failure(c)
    PROVE  /\ request' = request
           /\ \E p \in Store!Steps \ {"idle"} : pc' = [pc EXCEPT ![c] = p]
  <1> USE DEF Store!At, Store!GoTo, Store!Return, Store!CanRun, Store!CanQuery,
              Store!FailTx, Store!FailUnknown, Store!Steps, Store!inputs
  <1>1. CASE Store!LookupMissing(c) \/ Store!BeginTx(c)
             \/ Store!AfterCreateNoop(c) \/ Store!Rollback(c) \/ Store!Reply(c)
    BY <1>1 DEF Store!LookupMissing, Store!BeginTx, Store!AfterCreateNoop,
                Store!Rollback, Store!Reply
  <1>2. CASE Store!LookupFound(c) \/ Store!OpenSession(c)
    BY <1>2 DEF Store!LookupFound, Store!OpenSession
  <1>3. CASE Store!CreateCredential(c) \/ Store!AfterCreateNewSession(c)
    BY <1>3 DEF Store!CreateCredential, Store!AfterCreateNewSession
  <1>4. CASE Store!Commit(c)
    BY <1>4 DEF Store!Commit
  <1>5. CASE Store!QueryFails(c) \/ Store!TxStatementFails(c)
             \/ Store!EndTxFails(c)
    BY <1>5 DEF Store!QueryFails, Store!TxStatementFails, Store!EndTxFails
  <1> QED
    BY <1>1, <1>2, <1>3, <1>4, <1>5 DEF Store!Progress, Store!Failure

LEMMA FetchMoves ==
    ASSUME Siwe!TypeOK, NEW c \in Calls, Siwe!FetchStep(c)
    PROVE  /\ UNCHANGED << fetchKey, known, genPc, genKey >>
           /\ \E p \in {"get", "del", "done", "failed"} :
               fetchPc' = [fetchPc EXCEPT ![c] = p]
           /\ fetchPc'[c] \in {"del", "done"} =>
               \/ fetchPc[c] = "get" /\ fetchMsg'[c] = entries[fetchKey[c]].value
               \/ fetchPc[c] = "del" /\ fetchMsg'[c] = fetchMsg[c]
           /\ fetchPc'[c] = "done" => fetchPc[c] = "del"
           /\ \A d \in Calls \ {c} : fetchMsg'[d] = fetchMsg[d]
  <1> USE DEF Siwe!TypeOK, Siwe!FetchGoTo, Siwe!genVars, Siwe!fetchVars,
              Siwe!cacheVars
  <1>1. CASE Siwe!FetchGet(c)
    BY <1>1 DEF Siwe!FetchGet, Siwe!FetchSteps, Siwe!Cache!Get
  <1>2. CASE Siwe!FetchDel(c) \/ Siwe!FetchDelUnanswered(c)
    BY <1>2 DEF Siwe!FetchDel, Siwe!FetchDelUnanswered, Siwe!FetchSteps
  <1>3. CASE Siwe!FetchFails(c)
    BY <1>3 DEF Siwe!FetchFails, Siwe!FetchSteps
  <1> QED
    BY <1>1, <1>2, <1>3 DEF Siwe!FetchStep

-----------------------------------------------------------------------------
(* The handler's own invariant, action by action.  HandlerInv is what the  *)
(* components do not already keep.                                         *)

HandlerInv == TypeOK /\ PhaseInv /\ ProofInv /\ BurnInv

LEMMA RefuseStep ==
    ASSUME IndInv, Store!TypeOK', Siwe!TypeOK', NEW c \in Calls,
           NEW service \in Services, NEW wellFormed \in BOOLEAN,
           Refuse(c, service, wellFormed)
    PROVE  HandlerInv'
  <1> USE DEF IndInv, TypeOK, Refuse, Return, storeVars, siweVars, callVars
  <1>1. TypeOK'
    BY DEF Statuses, Store!Outcomes
  <1>2. PhaseInv'
    BY DEF PhaseInv
  <1>3. ProofInv'
    BY DEF ProofInv, SignatureValid
  <1>4. BurnInv'
    BY DEF BurnInv
  <1> QED
    BY <1>1, <1>2, <1>3, <1>4 DEF HandlerInv

LEMMA AcceptStep ==
    ASSUME IndInv, Store!TypeOK', Siwe!TypeOK', NEW c \in Calls,
           NEW w \in Wallets, NEW m \in Siwe!HandedOut \cup {NoMessage},
           Accept(c, w, m)
    PROVE  HandlerInv'
  <1> USE DEF IndInv, TypeOK, Siwe!TypeOK, Accept, Present, Return, Enter,
              Siwe!FetchBegin, Siwe!FetchGoTo, Siwe!genVars, storeVars
  <1>1. /\ fetchPc'[c] \in {"get", "invalid"}
        /\ fetchKey'[c] = Normal[request[c].addr]
        /\ known'[c] = Siwe!HandedOut
        /\ \A d \in Calls \ {c} : /\ fetchPc'[d] = fetchPc[d]
                                 /\ fetchKey'[d] = fetchKey[d]
                                 /\ known'[d] = known[d]
    OBVIOUS
  <1>2. TypeOK'
    <2>1. m \in Generators \cup {NoMessage} /\ Returned \in SUBSET Calls
      BY DEF Siwe!HandedOut, Returned
    <2> QED
      BY <2>1 DEF Statuses, Store!Outcomes
  <1>3. PhaseInv'
    BY <1>1 DEF PhaseInv
  <1>4. ProofInv'
    BY <1>1 DEF ProofInv, PhaseInv, SignatureValid
  <1>5. BurnInv'
    BY <1>1 DEF BurnInv, PhaseInv, Returned
  <1> QED
    BY <1>2, <1>3, <1>4, <1>5 DEF HandlerInv

LEMMA FetchMessageStep ==
    ASSUME IndInv, Store!TypeOK', Siwe!TypeOK', NEW c \in Calls, FetchMessage(c)
    PROVE  HandlerInv'
  <1> USE DEF IndInv, TypeOK, Siwe!TypeOK, Store!TypeOK, FetchMessage, Return,
              Enter, callVars
  <1>1. /\ phase[c] = "fetch"
        /\ UNCHANGED << fetchKey, known, request, signer, signed, precededBy >>
        /\ Siwe!FetchStep(c)
        /\ fetchPc'[c] \in {"get", "del", "done", "failed"}
        /\ \A d \in Calls \ {c} : /\ fetchPc'[d] = fetchPc[d]
                                 /\ fetchMsg'[d] = fetchMsg[d]
    BY FetchMoves DEF storeVars, Store!Begin, Store!inputs
  <1>2. \/ /\ fetchPc'[c] \in {"get", "del"}
           /\ UNCHANGED << phase, status, pc >>
        \/ /\ fetchPc'[c] \in {"done", "failed"}
           /\ phase' = [phase EXCEPT ![c] = "done"]
           /\ status' \in [Calls -> Statuses]
           /\ UNCHANGED pc
        \/ /\ fetchPc'[c] = "done"
           /\ phase' = [phase EXCEPT ![c] = "store"]
           /\ pc' = [pc EXCEPT ![c] = "lookup"]
           /\ UNCHANGED status
           /\ SignatureValid(c)
    BY DEF storeVars, Statuses, Store!Outcomes, Store!Begin, Store!GoTo
  <1> HIDE DEF FetchMessage
  <1>3. TypeOK'
    BY <1>1, <1>2
  <1>4. PhaseInv'
    BY <1>1, <1>2 DEF PhaseInv
  <1>5. ProofInv'
    <2>1. fetchPc'[c] = "done" => fetchMsg'[c] = fetchMsg[c]
      BY <1>1, FetchMoves
    <2>2. fetchPc[c] # "idle" /\ pc[c] = "idle"
      BY <1>1 DEF PhaseInv
    <2> QED
      BY <1>1, <1>2, <2>1, <2>2 DEF ProofInv, SignatureValid
  <1>6. BurnInv'
    <2> SUFFICES ASSUME NEW d \in Calls, NEW b \in precededBy[d],
                        fetchPc'[b] = "done", signed[b] = fetchMsg'[b],
                        fetchPc'[d] \in {"del", "done"}
                 PROVE  fetchMsg'[d] # fetchMsg'[b]
      BY <1>1, <1>2 DEF BurnInv, PhaseInv
    <2>1. /\ b \in Calls \ {c}
          /\ b # d
          /\ fetchPc[b] = "done"
          /\ signed[b] = fetchMsg[b]
          /\ fetchMsg'[b] = fetchMsg[b]
      BY <1>1 DEF BurnInv
    <2>2. CASE fetchPc[d] \in {"del", "done"} /\ fetchMsg'[d] = fetchMsg[d]
      BY <2>1, <2>2 DEF BurnInv
    <2>3. CASE /\ d = c
               /\ fetchPc[c] = "get"
               /\ fetchMsg'[c] = entries[fetchKey[c]].value
      \* What the cache holds has not been burned.
      <3>1. fetchMsg[b] \in known[b]
        <4>1. signed[b] \in known[b] \cup {NoMessage}
          BY <2>1 DEF ProofInv
        <4>2. fetchMsg[b] # NoMessage
          BY <2>1, SiweAssumption DEF Siwe!FetchInv, Siwe!IndInv
        <4> QED
          BY <2>1, <4>1, <4>2
      <3>2. fetchKey[c] \in Keys
        BY <2>3 DEF Siwe!FetchInv, Siwe!IndInv
      <3> QED
        BY <2>1, <2>3, <3>1, <3>2 DEF Siwe!SpentStaysSpent, Siwe!IndInv
    <2> QED
      BY <1>1, <2>2, <2>3, FetchMoves
  <1> QED
    BY <1>3, <1>4, <1>5, <1>6 DEF HandlerInv

LEMMA CredentialStep ==
    ASSUME IndInv, Store!TypeOK', Siwe!TypeOK', NEW c \in Calls,
           HandleCredentialAndSession(c)
    PROVE  HandlerInv'
  <1> USE DEF IndInv, TypeOK, Store!TypeOK, HandleCredentialAndSession, Return,
              siweVars, callVars
  <1>1. /\ request' = request
        /\ pc'[c] # "idle"
        /\ \A d \in Calls \ {c} : pc'[d] = pc[d]
    BY StoreMoves
  <1>2. TypeOK'
    BY DEF Statuses
  <1>3. PhaseInv'
    BY <1>1 DEF PhaseInv
  <1>4. ProofInv'
    BY <1>1 DEF ProofInv, PhaseInv, SignatureValid
  <1>5. BurnInv'
    BY DEF BurnInv
  <1> QED
    BY <1>2, <1>3, <1>4, <1>5 DEF HandlerInv

\* Contexts, the database server, other requests' messages and the clock move
\* no call.
LEMMA EnvironmentStep ==
    ASSUME IndInv, Store!TypeOK', Siwe!TypeOK',
           \/ \E c \in Calls : Disturb(c)
           \/ \E g \in Generators : GetSIWEPayload(g)
           \/ Tick
           \/ Terminated
           \/ UNCHANGED vars
    PROVE  HandlerInv'
  <1>1. UNCHANGED << request, pc, fetchPc, fetchKey, fetchMsg, known >>
    <2>1. ASSUME NEW c \in Calls, Disturb(c)
          PROVE  UNCHANGED << request, pc, fetchPc, fetchKey, fetchMsg, known >>
      BY <2>1 DEF Disturb, Store!Cancel, Store!OrphanEnds,
                  Store!AbortOrphan, Store!LateCommit, Store!LateSession,
                  Store!inputs, siweVars
    <2>2. ASSUME NEW g \in Generators, GetSIWEPayload(g)
          PROVE  UNCHANGED << request, pc, fetchPc, fetchKey, fetchMsg, known >>
      BY <2>2 DEF GetSIWEPayload, Siwe!Generate, Siwe!Build, Siwe!Store,
                  Siwe!StoreUnanswered, Siwe!StoreFails, Siwe!fetchVars,
                  storeVars
    <2> QED
      BY <2>1, <2>2 DEF Tick, Siwe!Tick, Siwe!fetchVars, Terminated, vars,
                        storeVars, siweVars
  <1>2. UNCHANGED << phase, status, signer, signed, precededBy >>
    BY DEF Disturb, GetSIWEPayload, Tick, Terminated, vars, callVars
  <1>3. TypeOK'
    BY <1>2 DEF IndInv, TypeOK
  <1>4. PhaseInv'
    BY <1>1, <1>2 DEF IndInv, PhaseInv
  <1>5. ProofInv'
    BY <1>1, <1>2 DEF IndInv, ProofInv, SignatureValid
  <1>6. BurnInv'
    BY <1>1, <1>2 DEF IndInv, BurnInv
  <1> QED
    BY <1>3, <1>4, <1>5, <1>6 DEF HandlerInv

LEMMA CrashStep ==
    ASSUME IndInv, Store!TypeOK', Siwe!TypeOK', Crash
    PROVE  HandlerInv'
  <1> USE DEF IndInv, TypeOK, Crash, InProgress, callVars
  <1>1. /\ UNCHANGED << request, fetchKey, fetchMsg, known >>
        /\ \A c \in Calls :
            /\ pc'[c] = IF pc[c] \in {"idle", "done"} THEN pc[c] ELSE "done"
            /\ fetchPc'[c] = IF fetchPc[c] \in {"get", "del"} THEN "failed"
                             ELSE fetchPc[c]
    BY DEF Store!StopAll, Store!Active, Store!inputs, Siwe!StopAll
  <1>2. TypeOK'
    BY DEF Statuses, Store!Outcomes
  <1>3. PhaseInv'
    BY <1>1 DEF PhaseInv
  <1>4. ProofInv'
    BY <1>1 DEF ProofInv, SignatureValid
  <1>5. BurnInv'
    BY <1>1 DEF BurnInv
  <1> QED
    BY <1>2, <1>3, <1>4, <1>5 DEF HandlerInv

-----------------------------------------------------------------------------
(* The inductive invariant.                                                *)

LEMMA InitInv == Init => IndInv
  <1> SUFFICES ASSUME Init PROVE IndInv
    OBVIOUS
  <1> USE DEF Init
  <1>1. Store!IndInv /\ Siwe!IndInv
    BY StoreInitInv, SiweInitInv
  <1>2. Store!TypeOK /\ Siwe!TypeOK
    BY <1>1 DEF Store!IndInv, Siwe!IndInv
  <1>3. TypeOK
    BY <1>2, WalletOfAssumption
       DEF TypeOK, Statuses, Store!Outcomes, Store!TypeOK, Store!Requests
  <1>4. PhaseInv /\ ProofInv /\ BurnInv
    BY DEF PhaseInv, ProofInv, BurnInv, Store!Init, Siwe!Init
  <1> QED
    BY <1>1, <1>3, <1>4 DEF IndInv

LEMMA NextInv == IndInv /\ [Next]_vars => IndInv'
  <1> SUFFICES ASSUME IndInv, [Next]_vars PROVE IndInv'
    OBVIOUS
  <1>1. Store!IndInv' /\ Siwe!IndInv'
    BY PartsNext
  <1>2. Store!TypeOK' /\ Siwe!TypeOK'
    BY <1>1 DEF Store!IndInv, Siwe!IndInv
  <1>3. ASSUME NEW c \in Calls, Handler(c) PROVE HandlerInv'
    BY <1>2, <1>3, RefuseStep, AcceptStep, FetchMessageStep, CredentialStep,
       EnvironmentStep DEF Handler
  <1>4. HandlerInv'
    BY <1>2, <1>3, CrashStep, EnvironmentStep DEF Next
  <1> QED
    BY <1>1, <1>4 DEF IndInv, HandlerInv

\* The invariant of each component and what the handler adds: where a call is
\* in both, and which message it has proved itself with.
THEOREM InductiveInvariant == Spec => []IndInv
  BY InitInv, NextInv, PTL DEF Spec

\* Every variable keeps its type, in both components and the handler.
THEOREM TypeCorrectness == Spec => []TypeOK
  <1>1. IndInv => TypeOK
    BY DEF IndInv
  <1> QED
    BY <1>1, InductiveInvariant, PTL

\* A call with a session, or with a row that may become a credential, has been
\* through the fetch and carries a valid signature over the message it fetched,
\* which was generated for the address of its request and handed out before
\* the call began.
LEMMA PastFetch ==
    ASSUME IndInv, NEW c \in Calls, pc[c] # "idle"
    PROVE  /\ fetchPc[c] = "done"
           /\ signer[c] = WalletOf[request[c].addr]
           /\ signed[c] = fetchMsg[c]
           /\ signed[c] \in Generators
           /\ signed[c] \in known[c]
           /\ genKey[signed[c]] = Normal[request[c].addr]
  BY SiweAssumption
     DEF IndInv, ProofInv, SignatureValid, Siwe!IndInv, Siwe!FetchInv

LEMMA SessionsArePastFetch ==
    ASSUME IndInv, NEW s \in sessions
    PROVE  s.by \in Calls /\ pc[s.by] # "idle"
  <1>1. s.by \in Calls
    BY DEF IndInv, TypeOK, Store!TypeOK, Store!SessionRows
  <1>2. pc[s.by] \in {"reply", "done"}
    BY <1>1 DEF IndInv, Store!IndInv, Store!EffectInv
  <1> QED
    BY <1>1, <1>2

\* A message authenticates no call that begins after one that got as far as
\* deleting it has returned.
THEOREM SingleUse == Spec => []MessageBurnsOnce
  <1>1. IndInv => MessageBurnsOnce
    <2> SUFFICES ASSUME IndInv,
                        NEW c \in Calls, NEW d \in Calls, c \in precededBy[d],
                        fetchPc[c] = "done", signed[c] = fetchMsg[c],
                        NEW s \in sessions, s.by = d
                 PROVE  signed[d] # signed[c]
      BY DEF MessageBurnsOnce
    <2>1. fetchPc[d] = "done" /\ signed[d] = fetchMsg[d]
      BY SessionsArePastFetch, PastFetch
    <2> QED
      BY <2>1 DEF IndInv, BurnInv
  <1> QED
    BY <1>1, InductiveInvariant, PTL

\* Every session was opened by a call that proved control of the wallet it
\* names, over a message generated for that wallet's address.
THEOREM WalletControl == Spec => []SessionsProveWalletControl
  <1>1. IndInv => SessionsProveWalletControl
    <2> SUFFICES ASSUME IndInv, NEW s \in sessions
                 PROVE  /\ signer[s.by] = WalletOf[s.addr]
                        /\ signed[s.by] \in Generators
                        /\ genKey[signed[s.by]] = Normal[s.addr]
                        /\ \E r \in credentials :
                            r.user = s.user /\ r.addr = s.addr
      BY DEF SessionsProveWalletControl
    <2>1. /\ s.addr = request[s.by].addr
          /\ \E r \in credentials : r.user = s.user /\ r.addr = s.addr
      BY DEF IndInv, Store!IndInv, Store!SessionsBelongToCredentials,
             Store!Registered
    <2> QED
      BY <2>1, SessionsArePastFetch, PastFetch
  <1> QED
    BY <1>1, InductiveInvariant, PTL

\* A call that may still commit a credential carries a proof that is used up.
THEOREM SpentRegistrations == Spec => []RegistrationsSpendTheirProof
  <1>1. IndInv => RegistrationsSpendTheirProof
    <2> SUFFICES ASSUME IndInv, NEW c \in held \cup inserted
                 PROVE  /\ signer[c] = WalletOf[request[c].addr]
                        /\ genKey[signed[c]] = Normal[request[c].addr]
                        /\ \A k \in Keys : entries[k].value # signed[c]
      BY DEF RegistrationsSpendTheirProof
    <2>1. c \in Calls /\ pc[c] # "idle"
      BY DEF IndInv, TypeOK, Store!TypeOK, Store!IndInv, Store!PoolInv,
             Store!InTransaction, Store!RowInv
    <2> QED
      BY <2>1, PastFetch DEF IndInv, Siwe!IndInv, Siwe!SpentStaysSpent
  <1> QED
    BY <1>1, InductiveInvariant, PTL

-----------------------------------------------------------------------------
(* What the components promise on their own, the handler keeps.            *)

\* Composed, each component behaves as it does on its own: the handler adds no
\* step of its own to the tables, to the pool or to the cache.
THEOREM ComponentsKeepTheirSpecs == Spec => Store!Spec /\ Siwe!Spec
  <1>1. Init => Store!Init /\ Siwe!Init
    BY DEF Init
  <1>2. IndInv /\ [Next]_vars =>
            [Store!Next]_(Store!vars) /\ [Siwe!Next]_(Siwe!vars)
    BY StoreStep, SiweStep DEF IndInv, TypeOK
  <1> QED
    BY <1>1, <1>2, InductiveInvariant, PTL DEF Spec, Store!Spec, Siwe!Spec

\* The handler as a whole implements the registry of credentials: what a call
\* of Authenticate does to the tables is one atomic step, which comes with its
\* OK or, if the call was told of an error or of nothing, at a later time.
THEOREM RegistryImplemented == Spec => Store!ImplementsRegistry
  BY StoreAssumption, ComponentsKeepTheirSpecs, Store!RegistryImplemented, PTL
     DEF Store!Overlap, Store!IsFiniteSet, IsFiniteSet
=============================================================================
