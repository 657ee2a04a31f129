---------------------------- MODULE Authenticate ----------------------------
(***************************************************************************)
(* The Authenticate handler from request to status: input validation and   *)
(* the check of the calling service, the fetch of the wallet's SIWE        *)
(* message, the check of the signature, then the credential and session.   *)
(* It composes SiweMessages, where a call is a fetcher, with               *)
(* CredentialStore, where it is a call; GetSIWEPayload runs beside it.     *)
(*                                                                         *)
(* A signature is the pair of the wallet that made it and the message it   *)
(* was made over; a caller has it before it calls.                         *)
(***************************************************************************)
EXTENDS FiniteSets, Integers

CONSTANTS
    Calls, Users, Addresses, MaxConns, AfterCreates, Impatient, Operator,
    Provisioned,
    Generators, Keys, Normal, NoKey, NoMessage, Expiration, StoreLag, MaxTime,
    Services,        \* services that may call, and "none"
    AllowedServices, \* those that AuthorizeService lets in
    Wallets,
    WalletOf         \* WalletOf[a]: the wallet that address a spells

ASSUME WalletOfAssumption == WalletOf \in [Addresses -> Wallets]

\* What CredentialStore and SiweMessages assume of their constants.
ASSUME StoreAssumption ==
    /\ MaxConns \in Nat \ {0}
    /\ IsFiniteSet(Calls)
    /\ Operator \notin Calls
    /\ Impatient \subseteq Calls
    /\ AfterCreates \subseteq {"newSession", "noop"}
    /\ Provisioned \subseteq [by : {Operator}, user : Users, addr : Addresses]
    /\ \A r, s \in Provisioned :
        r.user = s.user \/ r.addr = s.addr => r = s
ASSUME SiweAssumption ==
    /\ Normal \in [Addresses -> Keys \cup {NoKey}]
    /\ NoMessage \notin Generators
    /\ NoKey \notin Keys
    /\ Expiration \in Nat \ {0}
    /\ StoreLag \in Nat
    /\ MaxTime \in Nat

VARIABLES
    request, pc, cred, outcome, fault, cancelled, held, inserted,
    credentials, sessions,
    entries, now, genPc, genKey, issuedAt, before,
    fetchPc, fetchKey, fetchMsg, fetchedAt, known,
    phase,      \* phase[c]: which part of the handler c is in
    status,     \* status[c]: what c returned
    signer,     \* signer[c]: the wallet whose signature c carries
    signed,     \* signed[c]: the message that signature is over
    precededBy  \* precededBy[d]: calls that had returned when d began

storeVars == << request, pc, cred, outcome, fault, cancelled, held, inserted,
                credentials, sessions >>
siweVars == << entries, now, genPc, genKey, issuedAt, before,
               fetchPc, fetchKey, fetchMsg, fetchedAt, known >>
callVars == << signer, signed, precededBy >>
vars == << storeVars, siweVars, phase, status, callVars >>

\* The components, by way of the modules that extend them with theorems.
Store == INSTANCE CredentialStoreProofs
Siwe == INSTANCE SiweMessagesProofs WITH Fetchers <- Calls

Statuses == Store!Outcomes \cup {"InvalidArgument"}

TypeOK ==
    /\ Store!TypeOK
    /\ Siwe!TypeOK
    /\ phase \in [Calls -> {"idle", "fetch", "store", "done"}]
    /\ status \in [Calls -> Statuses]
    /\ signer \in [Calls -> Wallets]
    /\ signed \in [Calls -> Generators \cup {NoMessage}]
    /\ precededBy \in [Calls -> SUBSET Calls]

Init ==
    /\ Store!Init
    /\ Siwe!Init
    /\ phase = [c \in Calls |-> "idle"]
    /\ status = [c \in Calls |-> "none"]
    /\ signer = [c \in Calls |-> WalletOf[request[c].addr]]
    /\ signed = [c \in Calls |-> NoMessage]
    /\ precededBy = [c \in Calls |-> {}]

Returned == {c \in Calls : phase[c] = "done"}

Enter(c, p) == phase' = [phase EXCEPT ![c] = p] /\ UNCHANGED status
Return(c, s) ==
    /\ phase' = [phase EXCEPT ![c] = "done"]
    /\ status' = [status EXCEPT ![c] = s]

-----------------------------------------------------------------------------
\* A request refused before the cache is asked for its message.
Refuse(c, service, wellFormed) ==
    /\ phase[c] = "idle"
    /\ \/ ~wellFormed /\ Return(c, "InvalidArgument")
       \/ /\ wellFormed
          /\ service \notin AllowedServices
          /\ Return(c, "PermissionDenied")
    /\ UNCHANGED << storeVars, siweVars, callVars >>

\* The caller signed, with some wallet, a message it had been handed, if any.
Present(c, w, m) ==
    /\ signer' = [signer EXCEPT ![c] = w]
    /\ signed' = [signed EXCEPT ![c] = m]
    /\ precededBy' = [precededBy EXCEPT ![c] = Returned]

Accept(c, w, m) ==
    /\ phase[c] = "idle"
    /\ Present(c, w, m)
    /\ Siwe!FetchBegin(c, request[c].addr)
    /\ IF fetchPc'[c] = "invalid" THEN Return(c, "InvalidArgument")
                                  ELSE Enter(c, "fetch")
    /\ UNCHANGED storeVars

\* IsEthereumSignatureValid: the signer recovered for the message that was
\* fetched is the wallet of the request.  The variant accepts any signer.
SignedByAnyone(c) == signed[c] = fetchMsg[c]
SignatureValid(c) ==
    /\ signed[c] = fetchMsg[c]
    /\ signer[c] = WalletOf[request[c].addr]

\* FetchSIWEMessage, and what follows its return without another operation.
FetchMessage(c) ==
    /\ phase[c] = "fetch"
    /\ Siwe!FetchStep(c)
    /\ \/ /\ fetchPc'[c] \in {"get", "del"}
          /\ UNCHANGED << phase, status, storeVars >>
       \/ /\ fetchPc'[c] = "failed"
          /\ Return(c, "Internal")
          /\ UNCHANGED storeVars
       \/ /\ fetchPc'[c] = "done"
          /\ ~SignatureValid(c)
          /\ Return(c, "InvalidArgument")
          /\ UNCHANGED storeVars
       \/ /\ fetchPc'[c] = "done"
          /\ SignatureValid(c)
          /\ Enter(c, "store")
          /\ Store!Begin(c)
    /\ UNCHANGED callVars

HandleCredentialAndSession(c) ==
    /\ phase[c] = "store"
    /\ Store!Progress(c) \/ Store!Failure(c)
    /\ IF pc'[c] = "done" THEN Return(c, outcome'[c])
                          ELSE UNCHANGED << phase, status >>
    /\ UNCHANGED << siweVars, callVars >>

-----------------------------------------------------------------------------
(* The rest of the system: GetSIWEPayload, contexts, the database server,  *)
(* the clock, and the end of the process with every call in progress.      *)

GetSIWEPayload(g) ==
    /\ Siwe!Generate(g)
    /\ UNCHANGED << storeVars, phase, status, callVars >>

Disturb(c) ==
    /\ Store!Cancel(c) \/ Store!OrphanEnds(c) \/ Store!LateSession(c)
    /\ UNCHANGED << siweVars, phase, status, callVars >>

Tick ==
    /\ Siwe!Tick
    /\ UNCHANGED << storeVars, phase, status, callVars >>

InProgress(c) == phase[c] \in {"fetch", "store"}

Crash ==
    /\ Siwe!InProgress \/ \E c \in Calls : InProgress(c)
    /\ Siwe!StopAll
    /\ Store!StopAll
    /\ phase' = [c \in Calls |-> IF InProgress(c) THEN "done" ELSE phase[c]]
    /\ status' = [c \in Calls |->
                     IF InProgress(c) THEN "Unavailable" ELSE status[c]]
    /\ UNCHANGED callVars

Terminated ==
    /\ \A c \in Calls : phase[c] = "done"
    /\ \A g \in Generators : genPc[g] \in {"replied", "failed"}
    /\ inserted = {}
    /\ now = MaxTime
    /\ UNCHANGED vars

Handler(c) ==
    \/ \E service \in Services, wellFormed \in BOOLEAN :
        Refuse(c, service, wellFormed)
    \/ \E w \in Wallets, m \in Siwe!HandedOut \cup {NoMessage} : Accept(c, w, m)
    \/ FetchMessage(c)
    \/ HandleCredentialAndSession(c)
    \/ Disturb(c)

Next ==
    \/ \E c \in Calls : Handler(c)
    \/ \E g \in Generators : GetSIWEPayload(g)
    \/ Tick
    \/ Crash
    \/ Terminated

Spec == Init /\ [][Next]_vars

-----------------------------------------------------------------------------
(* Properties.                                                             *)

\* A message presented by a call that got as far as deleting it is burned,
\* whatever that call returned: no call that begins after it has returned is
\* authenticated by the same message.  (Calls that overlap may share one: Get
\* and Del are two commands.)
MessageBurnsOnce ==
    \A c, d \in Calls :
        /\ c \in precededBy[d]
        /\ fetchPc[c] = "done"
        /\ signed[c] = fetchMsg[c]
        /\ \E s \in sessions : s.by = d
        => signed[d] # signed[c]

\* Every session row was opened by a call that proved control of the wallet it
\* names: the signature came from that wallet, over a message generated for the
\* address under which the wallet's credential is registered.
SessionsProveWalletControl ==
    \A s \in sessions :
        /\ signer[s.by] = WalletOf[s.addr]
        /\ signed[s.by] \in Generators
        /\ genKey[signed[s.by]] = Normal[s.addr]
        /\ \E r \in credentials : r.user = s.user /\ r.addr = s.addr

\* The same holds before anything is committed, and the proof is used up: a call
\* that may still create a credential, or has one that is not committed, carries
\* the signature of the wallet it registers, over a message that the cache no
\* longer holds, so that rolling the transaction back does not revive it.
RegistrationsSpendTheirProof ==
    \A c \in held \cup inserted :
        /\ signer[c] = WalletOf[request[c].addr]
        /\ genKey[signed[c]] = Normal[request[c].addr]
        /\ \A k \in Keys : entries[k].value # signed[c]

-----------------------------------------------------------------------------
(* The inductive invariant behind these properties.                        *)

\* Where a call is in the handler, and in each of its two parts.
PhaseInv ==
    \A c \in Calls :
        /\ phase[c] = "idle" => fetchPc[c] = "idle" /\ pc[c] = "idle"
        /\ phase[c] = "fetch" => fetchPc[c] \in {"get", "del"} /\ pc[c] = "idle"
        /\ phase[c] = "store" => fetchPc[c] = "done" /\ pc[c] \notin {"idle", "done"}
        /\ phase[c] = "done" =>
            fetchPc[c] \notin {"get", "del"} /\ pc[c] \in {"idle", "done"}

\* A call fetches under the key of its own address, is signed over a message
\* that had been handed out if over any, and works in the store only with a
\* valid signature over the message it has fetched.
ProofInv ==
    \A c \in Calls :
        /\ fetchPc[c] # "idle" =>
            /\ fetchKey[c] = Normal[request[c].addr]
            /\ signed[c] \in known[c] \cup {NoMessage}
        /\ pc[c] # "idle" => fetchPc[c] = "done" /\ SignatureValid(c)

\* A call does not read a message that an earlier one has burned.
BurnInv ==
    \A d \in Calls : \A c \in precededBy[d] :
        /\ phase[c] = "done"
        /\ c # d
        /\ /\ fetchPc[c] = "done"
           /\ signed[c] = fetchMsg[c]
           /\ fetchPc[d] \in {"del", "done"}
           => fetchMsg[d] # fetchMsg[c]

IndInv ==
    /\ TypeOK
    /\ Store!IndInv
    /\ Siwe!IndInv
    /\ PhaseInv
    /\ ProofInv
    /\ BurnInv
=============================================================================
