--------------------------- MODULE CredentialStore ---------------------------
(***************************************************************************)
(* How an authenticated wallet becomes a credential and a session: the     *)
(* handler's handleCredentialAndSession, the store transaction it runs     *)
(* (CreateCredentialTx, execTx) and the two tables of the auth database,   *)
(* reached through one pgx connection pool.                                *)
(*                                                                         *)
(* A call is one execution of handleCredentialAndSession.  It advances one *)
(* database operation at a time; calls interleave between operations.      *)
(* Statements outside a transaction acquire a pooled connection, run and   *)
(* release it in one step, which is enabled only while a connection is     *)
(* free.  A transaction holds its connection from Begin to the end.        *)
(*                                                                         *)
(* AfterCreate is a parameter of CreateCredentialTx.  "newSession" is the  *)
(* callback of the handler, "noop" the one of the store's own tests.       *)
(*                                                                         *)
(* An operation that fails may be with the server already.  The last one   *)
(* of a call, the INSERT of a session or the COMMIT, may then be carried   *)
(* out at any later time, also after the call has returned its error.  The *)
(* callback's INSERT is assumed not to outlast the transaction it is       *)
(* nested in, whose row its foreign keys cannot see.                       *)
(***************************************************************************)
EXTENDS FiniteSets, Integers

CONSTANTS
    Calls,        \* executions of handleCredentialAndSession
    Users,        \* user ids
    Addresses,    \* wallet addresses, as spelled in the requests
    MaxConns,     \* size of the pgx pool
    AfterCreates, \* the callbacks the calls pass to CreateCredentialTx
    Impatient,    \* calls whose context has a deadline or may be cancelled
    Operator,     \* creator of the rows that were there before the service
    Provisioned   \* those rows

Row(by, u, a) == [by |-> by, user |-> u, addr |-> a]
NoRow == [by |-> Operator]

Overlap(r, s) == r.user = s.user \/ r.addr = s.addr

ASSUME MaxConnsAssumption == MaxConns \in Nat \ {0}
ASSUME CallsAssumption == IsFiniteSet(Calls) /\ Operator \notin Calls
ASSUME ImpatientAssumption == Impatient \subseteq Calls
ASSUME AfterCreatesAssumption == AfterCreates \subseteq {"newSession", "noop"}
ASSUME ProvisionedAssumption ==
    /\ Provisioned \subseteq [by : {Operator}, user : Users, addr : Addresses]
    /\ \A r, s \in Provisioned : Overlap(r, s) => r = s

VARIABLES
    request,     \* request[c]: the user, the address and the callback of c
    pc,          \* pc[c]: the operation c performs next
    cred,        \* cred[c]: the credential c has read or created
    outcome,     \* outcome[c]: the status c is to return, or has returned
    fault,       \* fault[c]: "error" after an infrastructure failure,
                 \* "unknown" while the last operation of c, reported as
                 \* failed, may still be carried out, "lost" when it was
    cancelled,   \* calls whose context is done
    held,        \* calls whose transaction holds a pooled connection
    inserted,    \* calls with an uncommitted row in credentials
    credentials, \* committed rows of credentials
    sessions     \* committed rows of sessions

vars == << request, pc, cred, outcome, fault, cancelled,
           held, inserted, credentials, sessions >>
inputs == << request, cancelled >>
tables == << inserted, credentials, sessions >>

Requests == [user : Users, addr : Addresses, afterCreate : AfterCreates]
Steps == {"idle", "lookup", "existing", "begin", "insert", "afterCreate",
          "commit", "rollback", "reply", "done"}
Outcomes == {"none", "OK", "PermissionDenied", "AlreadyExists", "Internal",
             "Unavailable"}

CredentialRows == [by : Calls \cup {Operator}, user : Users, addr : Addresses]
SessionRows == [by : Calls, user : Users, addr : Addresses]

\* The row that CreateCredential inserts for c.
NewRow(c) == Row(c, request[c].user, request[c].addr)

TypeOK ==
    /\ request \in [Calls -> Requests]
    /\ pc \in [Calls -> Steps]
    /\ cred \in [Calls -> CredentialRows \cup {NoRow}]
    /\ outcome \in [Calls -> Outcomes]
    /\ fault \in [Calls -> {"none", "error", "unknown", "lost"}]
    /\ cancelled \subseteq Impatient
    /\ held \subseteq Calls
    /\ inserted \subseteq Calls
    /\ credentials \subseteq CredentialRows
    /\ sessions \subseteq SessionRows

Init ==
    /\ request \in [Calls -> Requests]
    /\ pc = [c \in Calls |-> "idle"]
    /\ cred = [c \in Calls |-> NoRow]
    /\ outcome = [c \in Calls |-> "none"]
    /\ fault = [c \in Calls |-> "none"]
    /\ cancelled = {}
    /\ held = {}
    /\ inserted = {}
    /\ credentials = Provisioned
    /\ sessions = {}

-----------------------------------------------------------------------------
(* Vocabulary of the operations.                                           *)

Active(c) == pc[c] \notin {"idle", "done"}
InTransaction(c) == pc[c] \in {"insert", "afterCreate", "commit", "rollback"}

ConnectionFree == Cardinality(held) < MaxConns

At(c, step) == pc[c] = step
GoTo(c, step) == pc' = [pc EXCEPT ![c] = step]
Outcome(c, status) == outcome' = [outcome EXCEPT ![c] = status]
Return(c, status) == GoTo(c, "reply") /\ Outcome(c, status)
Fault(c, kind) == fault' = [fault EXCEPT ![c] = kind]

\* A context that is not done, at the step the database operation needs.
CanRun(c, step) == At(c, step) /\ c \notin cancelled
CanQuery(c, step) == CanRun(c, step) /\ ConnectionFree

Registered(u, a) == \E r \in credentials : r.user = u /\ r.addr = a

\* Both foreign keys of sessions: each column is checked on its own, against
\* committed rows, since CreateSession runs on a connection of the pool.
ForeignKeysHold(r) ==
    /\ \E s \in credentials : s.user = r.user
    /\ \E s \in credentials : s.addr = r.addr

\* The unique indexes of credentials, user_id before wallet_address.  An
\* insertion waits for the transaction that holds a conflicting uncommitted
\* row, and fails on a committed one.  The variants miss a row.
AddrUnseen(c) == FALSE
RowUnseen(c) == FALSE
UserTaken(c) == \E r \in credentials : r.user = request[c].user
AddrTaken(c) == \E r \in credentials : r.addr = request[c].addr
WaitsForRow(c) ==
    \E d \in inserted \ {c} :
        \/ request[d].user = request[c].user
        \/ request[d].addr = request[c].addr /\ ~UserTaken(c)

-----------------------------------------------------------------------------
(* handleCredentialAndSession and handleExistingCredential.                *)

Begin(c) ==
    /\ At(c, "idle")
    /\ GoTo(c, "lookup")
    /\ UNCHANGED << inputs, cred, outcome, fault, held, tables >>

LookupMissing(c) ==
    /\ CanQuery(c, "lookup")
    /\ ~AddrTaken(c)
    /\ GoTo(c, "begin")
    /\ UNCHANGED << inputs, cred, outcome, fault, held, tables >>

\* handleExistingCredential is entered with the row that was read; the variant
\* does not compare its user with the one of the request.
LookupFoundUnchecked(c) ==
    /\ CanQuery(c, "lookup")
    /\ \E r \in credentials :
        /\ r.addr = request[c].addr
        /\ cred' = [cred EXCEPT ![c] = r]
        /\ GoTo(c, "existing")
    /\ UNCHANGED << inputs, outcome, fault, held, tables >>

LookupFound(c) ==
    /\ CanQuery(c, "lookup")
    /\ \E r \in credentials :
        /\ r.addr = request[c].addr
        /\ cred' = [cred EXCEPT ![c] = r]
        /\ IF r.user = request[c].user
           THEN GoTo(c, "existing") /\ UNCHANGED outcome
           ELSE Return(c, "PermissionDenied")
    /\ UNCHANGED << inputs, fault, held, tables >>

AddSession(c) == sessions' = sessions \cup {Row(c, cred[c].user, cred[c].addr)}

OpenSession(c) ==
    /\ CanQuery(c, "existing")
    /\ IF ForeignKeysHold(cred[c])
       THEN AddSession(c) /\ Return(c, "OK")
       ELSE UNCHANGED sessions /\ Return(c, "Internal")
    /\ UNCHANGED << inputs, cred, fault, held, inserted, credentials >>

-----------------------------------------------------------------------------
(* createCredentialAndSession: CreateCredentialTx inside execTx.           *)

BeginTx(c) ==
    /\ CanQuery(c, "begin")
    /\ held' = held \cup {c}
    /\ GoTo(c, "insert")
    /\ UNCHANGED << inputs, cred, outcome, fault, tables >>

\* An error other than a violated unique index; in the variant it is taken for
\* one.
OtherErrorAsExists == "AlreadyExists"
OtherError == "Internal"

\* fn returned an error: execTx is to roll back.  The variant drops the error.
FailTxDropped(c, status) == GoTo(c, "commit") /\ UNCHANGED outcome
FailTx(c, status) == GoTo(c, "rollback") /\ Outcome(c, status)

\* The new row belongs to the transaction; in the variant, to no transaction.
InsertRowCommitted(c) ==
    credentials' = credentials \cup {NewRow(c)} /\ UNCHANGED inserted
InsertRow(c) == inserted' = inserted \cup {c} /\ UNCHANGED credentials

CreateCredential(c) ==
    /\ CanRun(c, "insert")
    /\ ~WaitsForRow(c)
    /\ IF UserTaken(c) \/ AddrTaken(c)
       THEN /\ FailTx(c, "AlreadyExists")
            /\ UNCHANGED << cred, inserted, credentials >>
       ELSE /\ InsertRow(c)
            /\ cred' = [cred EXCEPT ![c] = NewRow(c)]
            /\ GoTo(c, "afterCreate")
            /\ UNCHANGED outcome
    /\ UNCHANGED << inputs, fault, held, sessions >>

\* The handler's callback: NewSession through h.store, that is on a second
\* connection of the pool and outside the transaction of the new row.
AfterCreateNewSession(c) ==
    /\ CanQuery(c, "afterCreate")
    /\ request[c].afterCreate = "newSession"
    /\ IF ForeignKeysHold(cred[c])
       THEN AddSession(c) /\ GoTo(c, "commit") /\ UNCHANGED outcome
       ELSE FailTx(c, OtherError) /\ UNCHANGED sessions
    /\ UNCHANGED << inputs, cred, fault, held, inserted, credentials >>

AfterCreateNoop(c) ==
    /\ At(c, "afterCreate")
    /\ request[c].afterCreate = "noop"
    /\ GoTo(c, "commit")
    /\ UNCHANGED << inputs, cred, outcome, fault, held, tables >>

\* What the end of a transaction does to the pool and to the tables; in the
\* variant the connection is not released.
ConnectionLeaked(c) == UNCHANGED held
ReleaseConnection(c) == held' = held \ {c}

DropRow(c) == inserted' = inserted \ {c}

PublishRow(c) == DropRow(c) /\ credentials' = credentials \cup {NewRow(c)}

Commit(c) ==
    /\ CanRun(c, "commit")
    /\ PublishRow(c)
    /\ ReleaseConnection(c)
    /\ Return(c, "OK")
    /\ UNCHANGED << inputs, cred, fault, sessions >>

Rollback(c) ==
    /\ CanRun(c, "rollback")
    /\ DropRow(c)
    /\ ReleaseConnection(c)
    /\ GoTo(c, "reply")
    /\ UNCHANGED << inputs, cred, outcome, fault, credentials, sessions >>

\* The operation of c that makes its change visible may be with the server: a
\* COMMIT, or the INSERT of a session, which is its own transaction.
MayBeSent(c) == At(c, "commit") \/ (At(c, "existing") /\ ConnectionFree)

\* c is told of an error, which does not say what becomes of its operation.
FailUnknown(c) ==
    /\ Return(c, "Internal")
    /\ Fault(c, IF MayBeSent(c) THEN "unknown" ELSE "error")

\* Commit or Rollback fails: pgx closes the connection, which leaves the pool,
\* and the row stays until the server ends the transaction.  A failed rollback
\* also hides ErrCredentialAlreadyExists, which execTx formats with %v.
EndTxFails(c) ==
    /\ pc[c] \in {"commit", "rollback"}
    /\ ReleaseConnection(c)
    /\ FailUnknown(c)
    /\ UNCHANGED << inputs, cred, tables >>

-----------------------------------------------------------------------------
(* Failures, the end of a call, and the environment.                       *)

\* A statement fails: its connection broke or could not be made, or the context
\* of the call is done.  The variant is a statement that was not given the
\* context.
StatementFailsAlone(c) == At(c, "insert") \/ ConnectionFree
StatementFails(c) ==
    \/ c \in cancelled
    \/ At(c, "insert")
    \/ ConnectionFree

QueryFails(c) ==
    /\ pc[c] \in {"lookup", "existing", "begin"}
    /\ StatementFails(c)
    /\ FailUnknown(c)
    /\ UNCHANGED << inputs, cred, held, tables >>

TxStatementFails(c) ==
    /\ \/ At(c, "insert")
       \/ At(c, "afterCreate") /\ request[c].afterCreate = "newSession"
    /\ StatementFails(c)
    /\ FailTx(c, OtherError)
    /\ Fault(c, "error")
    /\ UNCHANGED << inputs, cred, held, tables >>

Reply(c) ==
    /\ At(c, "reply")
    /\ GoTo(c, "done")
    /\ UNCHANGED << inputs, cred, outcome, fault, held, tables >>

Cancel(c) ==
    /\ c \in Impatient \ cancelled
    /\ Active(c)
    /\ cancelled' = cancelled \cup {c}
    /\ UNCHANGED << request, pc, cred, outcome, fault, held, tables >>

\* The server aborts a transaction whose client is gone.
AbortOrphan(c) ==
    /\ c \in inserted
    /\ pc[c] \in {"reply", "done"}
    /\ DropRow(c)
    /\ Fault(c, "error")
    /\ UNCHANGED << inputs, pc, cred, outcome, held, credentials, sessions >>

\* The server carries out a COMMIT, or the INSERT of a session, whose call has
\* returned an error.
LateCommit(c) ==
    /\ fault[c] = "unknown"
    /\ c \in inserted
    /\ PublishRow(c)
    /\ Fault(c, "lost")
    /\ UNCHANGED << inputs, pc, cred, outcome, held, sessions >>

LateSession(c) ==
    /\ fault[c] = "unknown"
    /\ c \notin inserted
    /\ ForeignKeysHold(cred[c])
    /\ AddSession(c)
    /\ Fault(c, "lost")
    /\ UNCHANGED << inputs, pc, cred, outcome, held, inserted, credentials >>

\* A transaction without a client ends, one way or the other.
OrphanEnds(c) == AbortOrphan(c) \/ LateCommit(c)

\* What the end of the process leaves of c's last operation: an answer that is
\* not delivered, an operation that is with the server, or nothing.
Interrupted(c) ==
    IF ~Active(c) \/ fault[c] \in {"unknown", "lost"} THEN fault[c]
    ELSE IF outcome[c] = "OK" THEN "lost"
    ELSE IF MayBeSent(c) THEN "unknown" ELSE "error"

\* The process stops between two operations, or during one, and is started
\* again with a new pool: the calls in progress end without an answer.
StopAll ==
    /\ pc' = [c \in Calls |-> IF Active(c) THEN "done" ELSE pc[c]]
    /\ outcome' = [c \in Calls |->
                      IF Active(c) THEN "Unavailable" ELSE outcome[c]]
    /\ fault' = [c \in Calls |-> Interrupted(c)]
    /\ held' = {}
    /\ UNCHANGED << inputs, cred, tables >>

Crash == (\E c \in Calls : Active(c)) /\ StopAll

-----------------------------------------------------------------------------
Progress(c) ==
    \/ LookupMissing(c) \/ LookupFound(c) \/ OpenSession(c)
    \/ BeginTx(c) \/ CreateCredential(c)
    \/ AfterCreateNewSession(c) \/ AfterCreateNoop(c)
    \/ Commit(c) \/ Rollback(c) \/ Reply(c)

Failure(c) == QueryFails(c) \/ TxStatementFails(c) \/ EndTxFails(c)

CallStep(c) ==
    \/ Begin(c) \/ Progress(c) \/ Failure(c) \/ Cancel(c)
    \/ OrphanEnds(c) \/ LateSession(c)

Terminated ==
    /\ \A c \in Calls : pc[c] = "done"
    /\ inserted = {}
    /\ UNCHANGED vars

Next ==
    \/ \E c \in Calls : CallStep(c)
    \/ Crash
    \/ Terminated

Spec == Init /\ [][Next]_vars

\* A call that can run its next operation does, a call whose context is done
\* notices it, deadlines fire and the server ends abandoned transactions.
\* Nothing makes a statement fail or a process crash.
Fairness ==
    \A c \in Calls :
        /\ WF_vars(Progress(c))
        /\ WF_vars(c \in cancelled /\ Failure(c))
        /\ WF_vars(Cancel(c))
        /\ WF_vars(OrphanEnds(c))

FairSpec == Spec /\ Fairness

-----------------------------------------------------------------------------
(* Properties.                                                             *)

\* Every session row names a user and a wallet that are the two halves of one
\* committed credential, the pair its own call asked for.  The two foreign keys
\* alone would let a session combine the user of one credential with the
\* wallet of another (migration 000001, NewSession, handleExistingCredential).
SessionsBelongToCredentials ==
    \A s \in sessions :
        /\ Registered(s.user, s.addr)
        /\ s.user = request[s.by].user
        /\ s.addr = request[s.by].addr

\* Two registrations that race for a user id or a wallet never both commit
\* (CreateCredential under concurrent CreateCredentialTx).
OneCredentialPerUserAndWallet ==
    \A r, s \in credentials : Overlap(r, s) => r = s

\* A call that answered OK left what it promised: with the handler's callback
\* a session row, otherwise its credential (handleCredentialAndSession returns
\* the session that was inserted, execTx reports the result of Commit).
OKMeansDurable ==
    \A c \in Calls :
        outcome[c] = "OK" =>
            IF request[c].afterCreate = "newSession"
            THEN \E s \in sessions : s.by = c
            ELSE \/ \E s \in sessions : s.by = c
                 \/ \E r \in credentials : r.by = c

\* A call that reported failure left no row behind, in either table, except
\* when the database carried out its last operation all the same, before or
\* after the failure was reported (execTx rolls back on every error path; the
\* callback runs before Commit).
FailureLeavesNothing ==
    \A c \in Calls :
        /\ pc[c] = "done"
        /\ outcome[c] # "OK"
        /\ fault[c] # "lost"
        => /\ \A r \in credentials : r.by # c
           /\ \A s \in sessions : s.by # c

\* AlreadyExists is never a guess: a committed credential then holds the user
\* id or the wallet, whatever became of the transaction the call raced with
\* (CreateCredentialTx maps unique violations only).
AlreadyExistsIsTrue ==
    \A c \in Calls :
        outcome[c] = "AlreadyExists" => UserTaken(c) \/ AddrTaken(c)

\* No call is waiting for anything but a connection or a row, and no row will
\* be freed by the server.
Blocked(c) ==
    \/ /\ \/ pc[c] \in {"lookup", "existing", "begin"}
          \/ pc[c] = "afterCreate" /\ request[c].afterCreate = "newSession"
       /\ ~ConnectionFree
    \/ pc[c] = "insert" /\ WaitsForRow(c)

Wedged ==
    /\ \E c \in Calls : Active(c)
    /\ \A c \in Calls : Active(c) => Blocked(c)
    /\ \A c \in inserted : InTransaction(c)

\* The only way in which all calls in progress can be stuck is the callback of
\* a registration waiting for a second connection while transactions hold the
\* whole pool (createCredentialAndSession passes h.store to NewSession).
WedgeIsNestedAcquire ==
    Wedged =>
        /\ ~ConnectionFree
        /\ \E c \in held : pc[c] = "afterCreate"

\* A call whose user and wallet are registered together by the time it looks
\* them up, a retry after a lost answer for one, is never refused: it may fail,
\* but not with AlreadyExists or PermissionDenied.
RegisteredPairIsNotRefused ==
    \A c \in Calls :
        [](pc[c] = "lookup" /\ Registered(request[c].user, request[c].addr)
           => [](outcome[c] \notin {"AlreadyExists", "PermissionDenied"}))

\* A registration that goes through the handler's callback never adds a
\* credential: the session's foreign keys cannot see the row it depends on,
\* so every first login is rolled back.
OnlyNoopRegisters ==
    \A r \in credentials \ Provisioned :
        r.by \in Calls /\ request[r.by].afterCreate = "noop"

\* The registry that a caller sees: an answer is decided when the last
\* operation of its call is over, and a row is there once it is committed.
Registry == INSTANCE CredentialRegistry WITH
    answer <- [c \in Calls |->
                  IF pc[c] \in {"reply", "done"} THEN outcome[c] ELSE "none"],
    answered <- {c \in Calls : pc[c] = "done"},
    open <- {c \in Calls : fault[c] = "unknown"}

\* The transaction, the callback on another connection, rollbacks, orphans and
\* crashes together behave as one atomic step per call: rows appear with the
\* answer OK or, for a call that was told of an error in its last operation or
\* of nothing, at most once at a later time, and in both cases only for a pair
\* that may have them then; a refusal is true when it is decided and nothing
\* follows it (handleCredentialAndSession over execTx).
ImplementsRegistry == Registry!Spec

\* Every call returns (Authenticate has no loop and no retry of its own).
EveryCallReturns ==
    \A c \in Calls : pc[c] = "lookup" ~> pc[c] = "done"

\* The handler's test "success - new credential": without any failure of the
\* infrastructure a call does not end with an internal error.
NewCredentialSucceeds ==
    \A c \in Calls :
        /\ pc[c] = "done"
        /\ fault[c] = "none"
        /\ c \notin cancelled
        => outcome[c] # "Internal"

-----------------------------------------------------------------------------
(* The inductive invariant behind these properties.                        *)

\* The connections in use are those of the transactions in progress.
PoolInv == held = {c \in Calls : InTransaction(c)}

\* Uncommitted rows: a transaction past its insertion has one, which conflicts
\* with no other row, committed or not, and outlives the call only as an orphan.
RowInv ==
    /\ \A c \in Calls :
        pc[c] \in {"afterCreate", "commit"} => c \in inserted
    /\ \A c \in inserted :
        /\ pc[c] \in {"afterCreate", "commit", "rollback", "reply", "done"}
        /\ ~UserTaken(c)
        /\ ~AddrTaken(c)
        /\ \A d \in inserted : Overlap(NewRow(c), NewRow(d)) => c = d

\* What a call knows of its credential.
CredInv ==
    \A c \in Calls :
        /\ pc[c] = "existing" =>
            /\ cred[c] = Row(cred[c].by, request[c].user, request[c].addr)
            /\ cred[c] \in credentials
        /\ pc[c] \in {"afterCreate", "commit"} => cred[c] = NewRow(c)

\* What a call has left in the tables at each point: nothing before it is about
\* to answer, and then only if it succeeded or the server carried out its last
\* operation.  A commit is reached by the other callback only.
EffectInv ==
    \A c \in Calls :
        /\ \/ \E r \in credentials : r.by = c
           \/ \E s \in sessions : s.by = c
           => /\ pc[c] \in {"reply", "done"}
              /\ outcome[c] = "OK" \/ fault[c] = "lost"
        /\ pc[c] = "commit" => request[c].afterCreate = "noop"
        /\ outcome[c] = "OK" => pc[c] \in {"reply", "done"}
        /\ outcome[c] # "none" <=> pc[c] \in {"rollback", "reply", "done"}
        /\ pc[c] = "rollback" => outcome[c] \in {"AlreadyExists", "Internal"}

\* What the server may still do for a call that has returned: an orphan ends, by
\* a commit only if its COMMIT was sent, and a session may be inserted for the
\* credential that was read.
LateInv ==
    \A c \in Calls :
        /\ c \in inserted /\ pc[c] \in {"reply", "done"} =>
            outcome[c] # "OK" /\ fault[c] \in {"error", "unknown"}
        /\ fault[c] \in {"unknown", "lost"} => pc[c] \in {"reply", "done"}
        /\ fault[c] = "unknown" =>
            /\ outcome[c] \in {"Internal", "Unavailable"}
            /\ IF c \in inserted
               THEN request[c].afterCreate = "noop"
               ELSE /\ cred[c] = Row(cred[c].by, request[c].user,
                                     request[c].addr)
                    /\ cred[c] \in credentials

IndInv ==
    /\ TypeOK
    /\ PoolInv
    /\ RowInv
    /\ CredInv
    /\ EffectInv
    /\ LateInv
    /\ SessionsBelongToCredentials
    /\ OneCredentialPerUserAndWallet
    /\ OKMeansDurable
    /\ AlreadyExistsIsTrue
    /\ OnlyNoopRegisters
=============================================================================
