------------------------ MODULE CredentialStoreProofs ------------------------
(***************************************************************************)
(* Theorems about CredentialStore for every number of calls, users,        *)
(* addresses and connections, any rows that were there before the service  *)
(* and both callbacks.                                                     *)
(***************************************************************************)
EXTENDS CredentialStore, FiniteSetTheorems, TLAPS

-----------------------------------------------------------------------------
(* Type correctness.                                                       *)

LEMMA RowTypes ==
    ASSUME TypeOK, NEW c \in Calls
    PROVE  /\ NewRow(c) \in CredentialRows
           /\ NewRow(c).by = c
           /\ NewRow(c).user = request[c].user
           /\ NewRow(c).addr = request[c].addr
           /\ request[c].user \in Users
           /\ request[c].addr \in Addresses
           /\ request[c].afterCreate \in AfterCreates
  BY DEF TypeOK, NewRow, Row, CredentialRows, Requests

LEMMA InitType == Init => TypeOK
  BY ProvisionedAssumption, ImpatientAssumption
     DEF Init, TypeOK, Requests, Steps, Outcomes, CredentialRows, SessionRows,
         NoRow

LEMMA CallType ==
    ASSUME TypeOK, NEW c \in Calls, CallStep(c)
    PROVE  TypeOK'
  <1> USE DEF At, GoTo, Outcome, Return, Fault, Steps, Outcomes, CanRun,
              CanQuery, FailTx, FailUnknown, OtherError, inputs,
              tables
  <1>1. CASE Begin(c) \/ LookupMissing(c) \/ BeginTx(c) \/ AfterCreateNoop(c)
             \/ Rollback(c) \/ Reply(c) \/ Cancel(c) \/ AbortOrphan(c)
    BY <1>1 DEF TypeOK, Begin, LookupMissing, BeginTx, AfterCreateNoop,
                Rollback, Reply, DropRow, ReleaseConnection, Cancel, AbortOrphan
  <1>2. CASE LookupFound(c)
    BY <1>2 DEF TypeOK, LookupFound
  <1>3. CASE QueryFails(c) \/ TxStatementFails(c) \/ EndTxFails(c)
    BY <1>3 DEF TypeOK, QueryFails, TxStatementFails, EndTxFails,
                ReleaseConnection
  <1>4. CASE CreateCredential(c)
    BY <1>4, RowTypes DEF TypeOK, CreateCredential, InsertRow
  <1>5. CASE Commit(c) \/ LateCommit(c)
    BY <1>5, RowTypes DEF TypeOK, Commit, LateCommit, PublishRow, DropRow,
                          ReleaseConnection
  <1>6. CASE OpenSession(c) \/ LateSession(c) \/ AfterCreateNewSession(c)
    BY <1>6
       DEF TypeOK, OpenSession, LateSession, AfterCreateNewSession,
           AddSession, Row, CredentialRows, SessionRows, ForeignKeysHold, NoRow
  <1> QED
    BY <1>1, <1>2, <1>3, <1>4, <1>5, <1>6
       DEF CallStep, Progress, Failure, OrphanEnds

-----------------------------------------------------------------------------
(* The step of one call preserves each conjunct of the invariant.  Each    *)
(* lemma names the actions that disturb the conjunct; the last case is the *)
(* actions that do not.                                                    *)

\* A connection is taken when a transaction begins and given back when it
\* ends, also when its end fails.
LEMMA CallPool ==
    ASSUME IndInv, TypeOK', NEW c \in Calls, CallStep(c)
    PROVE  PoolInv'
  <1> USE DEF IndInv, TypeOK, At, GoTo, Outcome, Return, Fault, CanRun,
              CanQuery, FailTx, FailUnknown, OtherError, InTransaction,
              inputs, tables
  <1>1. CASE BeginTx(c)
    BY <1>1
       DEF BeginTx, PoolInv
  <1>2. CASE Commit(c) \/ LateCommit(c) \/ Rollback(c) \/ EndTxFails(c)
    BY <1>2
       DEF Commit, LateCommit, Rollback, EndTxFails, PublishRow, DropRow,
           ReleaseConnection, PoolInv
  <1>3. CASE CreateCredential(c) \/ AfterCreateNewSession(c)
             \/ AfterCreateNoop(c) \/ TxStatementFails(c)
    BY <1>3
       DEF CreateCredential, AfterCreateNewSession, AfterCreateNoop,
           TxStatementFails, InsertRow, AddSession, PoolInv
  <1>4. CASE Begin(c) \/ LookupMissing(c) \/ LookupFound(c) \/ OpenSession(c)
             \/ LateSession(c) \/ QueryFails(c) \/ Reply(c) \/ Cancel(c)
             \/ AbortOrphan(c)
    BY <1>4
       DEF Begin, LookupMissing, LookupFound, OpenSession, LateSession,
           QueryFails, Reply, Cancel, AbortOrphan, AddSession, DropRow,
           PoolInv
  <1> QED
    BY <1>1, <1>2, <1>3, <1>4 DEF CallStep, Progress, Failure, OrphanEnds

\* A new row is inserted only when no other row, committed or not, has its
\* user or address; a committed row had no rival among the uncommitted.
LEMMA CallRow ==
    ASSUME IndInv, TypeOK', NEW c \in Calls, CallStep(c)
    PROVE  RowInv'
  <1> USE DEF IndInv, TypeOK, At, GoTo, Outcome, Return, Fault, CanRun,
              CanQuery, FailTx, FailUnknown, OtherError, InTransaction,
              inputs, tables
  <1>1. CASE CreateCredential(c)
    BY <1>1, RowTypes
       DEF CreateCredential, InsertRow, RowInv, UserTaken, AddrTaken, Overlap,
           NewRow, Row, WaitsForRow
  <1>2. CASE Commit(c) \/ LateCommit(c)
    BY <1>2, RowTypes
       DEF Commit, LateCommit, LateInv, PublishRow, DropRow,
           ReleaseConnection, RowInv, UserTaken, AddrTaken, Overlap, NewRow,
           Row
  <1>3. CASE Begin(c) \/ LookupMissing(c) \/ LookupFound(c) \/ OpenSession(c)
             \/ LateSession(c) \/ BeginTx(c) \/ AfterCreateNewSession(c)
             \/ AfterCreateNoop(c) \/ Rollback(c) \/ EndTxFails(c)
             \/ QueryFails(c) \/ TxStatementFails(c) \/ Reply(c) \/ Cancel(c)
             \/ AbortOrphan(c)
    BY <1>3
       DEF Begin, LookupMissing, LookupFound, OpenSession, LateSession,
           BeginTx, AfterCreateNewSession, AfterCreateNoop, Rollback,
           EndTxFails, QueryFails, TxStatementFails, Reply, Cancel,
           AbortOrphan, AddSession, DropRow, ReleaseConnection, RowInv,
           UserTaken, AddrTaken, Overlap, NewRow, Row
  <1> QED
    BY <1>1, <1>2, <1>3 DEF CallStep, Progress, Failure, OrphanEnds

\* The credential of a call is the row that was read or inserted, for the
\* user and the address of the request.
LEMMA CallCred ==
    ASSUME IndInv, TypeOK', NEW c \in Calls, CallStep(c)
    PROVE  CredInv'
  <1> USE DEF IndInv, TypeOK, At, GoTo, Outcome, Return, Fault, CanRun,
              CanQuery, FailTx, FailUnknown, OtherError, InTransaction,
              inputs, tables
  <1>1. CASE LookupFound(c)
    BY <1>1, RowTypes
       DEF LookupFound, CredInv, NewRow, Row, CredentialRows
  <1>2. CASE CreateCredential(c)
    BY <1>2, RowTypes
       DEF CreateCredential, InsertRow, CredInv, NewRow, Row
  <1>3. CASE Commit(c) \/ LateCommit(c)
    BY <1>3, RowTypes
       DEF Commit, LateCommit, LateInv, PublishRow, DropRow, ReleaseConnection,
           CredInv, NewRow, Row
  <1>4. CASE Begin(c) \/ LookupMissing(c) \/ OpenSession(c)
             \/ LateSession(c) \/ BeginTx(c) \/ AfterCreateNewSession(c)
             \/ AfterCreateNoop(c) \/ Rollback(c) \/ EndTxFails(c)
             \/ QueryFails(c) \/ TxStatementFails(c) \/ Reply(c) \/ Cancel(c)
             \/ AbortOrphan(c)
    BY <1>4
       DEF Begin, LookupMissing, OpenSession, LateSession, BeginTx,
           AfterCreateNewSession, AfterCreateNoop, Rollback, EndTxFails,
           QueryFails, TxStatementFails, Reply, Cancel, AbortOrphan,
           AddSession, DropRow, ReleaseConnection, CredInv, NewRow, Row
  <1> QED
    BY <1>1, <1>2, <1>3, <1>4 DEF CallStep, Progress, Failure, OrphanEnds

\* Rows appear with the last operation of a call.  The handler's callback
\* cannot add one: its foreign keys do not see the uncommitted credential.
LEMMA CallEffect ==
    ASSUME IndInv, TypeOK', NEW c \in Calls, CallStep(c)
    PROVE  EffectInv'
  <1> USE DEF IndInv, TypeOK, At, GoTo, Outcome, Return, Fault, CanRun,
              CanQuery, FailTx, FailUnknown, OtherError, InTransaction,
              inputs, tables
  <1>1. CASE OpenSession(c) \/ LateSession(c)
    BY <1>1, RowTypes
       DEF OpenSession, LateSession, LateInv, AddSession, EffectInv, NewRow, Row
  <1>2. CASE AfterCreateNewSession(c)
    BY <1>2, RowTypes
       DEF AfterCreateNewSession, AddSession, EffectInv, NewRow, Row, CredInv,
           RowInv, UserTaken, ForeignKeysHold
  <1>3. CASE Commit(c) \/ LateCommit(c)
    BY <1>3, RowTypes
       DEF Commit, LateCommit, LateInv, PublishRow, DropRow, ReleaseConnection,
           EffectInv, NewRow, Row
  <1>4. CASE Begin(c) \/ LookupMissing(c) \/ LookupFound(c) \/ BeginTx(c)
             \/ CreateCredential(c) \/ AfterCreateNoop(c) \/ Rollback(c)
             \/ EndTxFails(c) \/ QueryFails(c) \/ TxStatementFails(c)
             \/ Reply(c) \/ Cancel(c) \/ AbortOrphan(c)
    BY <1>4
       DEF Begin, LookupMissing, LookupFound, BeginTx, CreateCredential,
           AfterCreateNoop, Rollback, EndTxFails, QueryFails,
           TxStatementFails, Reply, Cancel, AbortOrphan, InsertRow, DropRow,
           ReleaseConnection, EffectInv, LateInv, NewRow, Row
  <1> QED
    BY <1>1, <1>2, <1>3, <1>4 DEF CallStep, Progress, Failure, OrphanEnds

\* A session is opened for the credential that was read.
LEMMA CallSessions ==
    ASSUME IndInv, TypeOK', NEW c \in Calls, CallStep(c)
    PROVE  SessionsBelongToCredentials'
  <1> USE DEF IndInv, TypeOK, At, GoTo, Outcome, Return, Fault, CanRun,
              CanQuery, FailTx, FailUnknown, OtherError, InTransaction,
              inputs, tables
  <1>1. CASE OpenSession(c) \/ LateSession(c)
    BY <1>1, RowTypes
       DEF OpenSession, LateSession, LateInv, AddSession,
           SessionsBelongToCredentials, Registered, Row, CredInv
  <1>2. CASE AfterCreateNewSession(c)
    BY <1>2, RowTypes
       DEF AfterCreateNewSession, AddSession, SessionsBelongToCredentials,
           Registered, Row, CredInv, RowInv, UserTaken, NewRow,
           ForeignKeysHold
  <1>3. CASE Commit(c) \/ LateCommit(c)
    BY <1>3, RowTypes
       DEF Commit, LateCommit, LateInv, PublishRow, DropRow, ReleaseConnection,
           SessionsBelongToCredentials, Registered, Row
  <1>4. CASE Begin(c) \/ LookupMissing(c) \/ LookupFound(c) \/ BeginTx(c)
             \/ CreateCredential(c) \/ AfterCreateNoop(c) \/ Rollback(c)
             \/ EndTxFails(c) \/ QueryFails(c) \/ TxStatementFails(c)
             \/ Reply(c) \/ Cancel(c) \/ AbortOrphan(c)
    BY <1>4
       DEF Begin, LookupMissing, LookupFound, BeginTx, CreateCredential,
           AfterCreateNoop, Rollback, EndTxFails, QueryFails,
           TxStatementFails, Reply, Cancel, AbortOrphan, InsertRow, DropRow,
           ReleaseConnection, SessionsBelongToCredentials, Registered, Row
  <1> QED
    BY <1>1, <1>2, <1>3, <1>4 DEF CallStep, Progress, Failure, OrphanEnds

\* The row that is committed overlaps with no committed one.
LEMMA CallUnique ==
    ASSUME IndInv, TypeOK', NEW c \in Calls, CallStep(c)
    PROVE  OneCredentialPerUserAndWallet'
  <1> USE DEF IndInv, TypeOK, At, GoTo, Outcome, Return, Fault, CanRun,
              CanQuery, FailTx, FailUnknown, OtherError, InTransaction,
              inputs, tables
  <1>1. CASE Commit(c) \/ LateCommit(c)
    BY <1>1, RowTypes
       DEF Commit, LateCommit, LateInv, PublishRow, DropRow, ReleaseConnection,
           OneCredentialPerUserAndWallet, Overlap, RowInv, UserTaken,
           AddrTaken, NewRow, Row
  <1>2. CASE Begin(c) \/ LookupMissing(c) \/ LookupFound(c) \/ OpenSession(c)
             \/ LateSession(c) \/ BeginTx(c) \/ CreateCredential(c)
             \/ AfterCreateNewSession(c) \/ AfterCreateNoop(c) \/ Rollback(c)
             \/ EndTxFails(c) \/ QueryFails(c) \/ TxStatementFails(c)
             \/ Reply(c) \/ Cancel(c) \/ AbortOrphan(c)
    BY <1>2
       DEF Begin, LookupMissing, LookupFound, OpenSession, LateSession,
           BeginTx, CreateCredential, AfterCreateNewSession, AfterCreateNoop,
           Rollback, EndTxFails, QueryFails, TxStatementFails, Reply, Cancel,
           AbortOrphan, AddSession, InsertRow, DropRow, ReleaseConnection,
           OneCredentialPerUserAndWallet, Overlap
  <1> QED
    BY <1>1, <1>2 DEF CallStep, Progress, Failure, OrphanEnds

\* OK is answered by the step that adds the row.
LEMMA CallOK ==
    ASSUME IndInv, TypeOK', NEW c \in Calls, CallStep(c)
    PROVE  OKMeansDurable'
  <1> USE DEF IndInv, TypeOK, At, GoTo, Outcome, Return, Fault, CanRun,
              CanQuery, FailTx, FailUnknown, OtherError, InTransaction,
              inputs, tables
  <1>1. CASE OpenSession(c)
    <2>1. sessions \subseteq sessions' /\ UNCHANGED << request, credentials >>
      BY <1>1 DEF OpenSession, AddSession
    <2>2. outcome'[c] = "OK" => \E s \in sessions' : s.by = c
      <3>1. Row(c, cred[c].user, cred[c].addr).by = c
        BY DEF Row
      <3> QED
        BY <1>1, <3>1 DEF OpenSession, AddSession
    <2>3. \A d \in Calls : d # c => outcome'[d] = outcome[d]
      BY <1>1 DEF OpenSession
    <2> QED
      BY <2>1, <2>2, <2>3 DEF OKMeansDurable
  <1>2. CASE Commit(c)
    <2>1. credentials' = credentials \cup {NewRow(c)}
          /\ UNCHANGED << request, sessions >>
      BY <1>2 DEF Commit, PublishRow
    <2>2. request[c].afterCreate = "noop"
      BY <1>2 DEF Commit, EffectInv
    <2>3. \E r \in credentials' : r.by = c
      BY <2>1, RowTypes
    <2>4. \A d \in Calls : d # c => outcome'[d] = outcome[d]
      BY <1>2 DEF Commit
    <2> QED
      BY <2>1, <2>2, <2>3, <2>4 DEF OKMeansDurable
  <1>3. CASE Begin(c) \/ LookupMissing(c) \/ LookupFound(c)
             \/ LateSession(c) \/ BeginTx(c) \/ CreateCredential(c)
             \/ AfterCreateNewSession(c) \/ AfterCreateNoop(c)
             \/ LateCommit(c) \/ Rollback(c) \/ EndTxFails(c) \/ QueryFails(c)
             \/ TxStatementFails(c) \/ Reply(c) \/ Cancel(c) \/ AbortOrphan(c)
    BY <1>3
       DEF Begin, LookupMissing, LookupFound, LateSession, BeginTx,
           CreateCredential, AfterCreateNewSession, AfterCreateNoop,
           LateCommit, Rollback, EndTxFails, QueryFails, TxStatementFails,
           Reply, Cancel, AbortOrphan, AddSession, InsertRow, PublishRow,
           DropRow, ReleaseConnection, OKMeansDurable
  <1> QED
    BY <1>1, <1>2, <1>3 DEF CallStep, Progress, Failure, OrphanEnds

\* The unique index failed on a committed row, and rows stay.
LEMMA CallExists ==
    ASSUME IndInv, TypeOK', NEW c \in Calls, CallStep(c)
    PROVE  AlreadyExistsIsTrue'
  <1> USE DEF IndInv, TypeOK, At, GoTo, Outcome, Return, Fault, CanRun,
              CanQuery, FailTx, FailUnknown, OtherError, InTransaction,
              inputs, tables
  <1>1. CASE CreateCredential(c)
    BY <1>1, RowTypes
       DEF CreateCredential, InsertRow, AlreadyExistsIsTrue, UserTaken,
           AddrTaken
  <1>2. CASE Commit(c) \/ LateCommit(c)
    BY <1>2, RowTypes
       DEF Commit, LateCommit, LateInv, PublishRow, DropRow, ReleaseConnection,
           AlreadyExistsIsTrue, UserTaken, AddrTaken
  <1>3. CASE Begin(c) \/ LookupMissing(c) \/ LookupFound(c) \/ OpenSession(c)
             \/ LateSession(c) \/ BeginTx(c) \/ AfterCreateNewSession(c)
             \/ AfterCreateNoop(c) \/ Rollback(c) \/ EndTxFails(c)
             \/ QueryFails(c) \/ TxStatementFails(c) \/ Reply(c) \/ Cancel(c)
             \/ AbortOrphan(c)
    BY <1>3
       DEF Begin, LookupMissing, LookupFound, OpenSession, LateSession,
           BeginTx, AfterCreateNewSession, AfterCreateNoop, Rollback,
           EndTxFails, QueryFails, TxStatementFails, Reply, Cancel,
           AbortOrphan, AddSession, DropRow, ReleaseConnection,
           AlreadyExistsIsTrue, UserTaken, AddrTaken
  <1> QED
    BY <1>1, <1>2, <1>3 DEF CallStep, Progress, Failure, OrphanEnds

\* Only a call with the other callback reaches its commit.
LEMMA CallNoop ==
    ASSUME IndInv, TypeOK', NEW c \in Calls, CallStep(c)
    PROVE  OnlyNoopRegisters'
  <1> USE DEF IndInv, TypeOK, At, GoTo, Outcome, Return, Fault, CanRun,
              CanQuery, FailTx, FailUnknown, OtherError, InTransaction,
              inputs, tables
  <1>1. CASE Commit(c) \/ LateCommit(c)
    BY <1>1, RowTypes
       DEF Commit, LateCommit, LateInv, PublishRow, DropRow, ReleaseConnection,
           OnlyNoopRegisters, EffectInv
  <1>2. CASE Begin(c) \/ LookupMissing(c) \/ LookupFound(c) \/ OpenSession(c)
             \/ LateSession(c) \/ BeginTx(c) \/ CreateCredential(c)
             \/ AfterCreateNewSession(c) \/ AfterCreateNoop(c) \/ Rollback(c)
             \/ EndTxFails(c) \/ QueryFails(c) \/ TxStatementFails(c)
             \/ Reply(c) \/ Cancel(c) \/ AbortOrphan(c)
    BY <1>2
       DEF Begin, LookupMissing, LookupFound, OpenSession, LateSession,
           BeginTx, CreateCredential, AfterCreateNewSession, AfterCreateNoop,
           Rollback, EndTxFails, QueryFails, TxStatementFails, Reply, Cancel,
           AbortOrphan, AddSession, InsertRow, DropRow, ReleaseConnection,
           OnlyNoopRegisters
  <1> QED
    BY <1>1, <1>2 DEF CallStep, Progress, Failure, OrphanEnds

\* An operation becomes unknown when it fails where it could have been sent, at
\* a row or a credential that its call knows; an orphan is never a success.
LEMMA CallLate ==
    ASSUME IndInv, TypeOK', NEW c \in Calls, CallStep(c)
    PROVE  LateInv'
  <1> USE DEF IndInv, TypeOK, At, GoTo, Outcome, Return, Fault, CanRun,
              CanQuery, FailTx, FailUnknown, OtherError, InTransaction,
              inputs, tables
  <1>1. CASE EndTxFails(c) \/ QueryFails(c)
    <2>1. /\ pc' = [pc EXCEPT ![c] = "reply"]
          /\ outcome' = [outcome EXCEPT ![c] = "Internal"]
          /\ fault' = [fault EXCEPT ![c] =
                          IF MayBeSent(c) THEN "unknown" ELSE "error"]
          /\ UNCHANGED << request, cred, inserted, credentials >>
      BY <1>1 DEF EndTxFails, QueryFails
    <2>2. CASE MayBeSent(c)
      <3>1. IF c \in inserted
            THEN request[c].afterCreate = "noop"
            ELSE /\ cred[c] = Row(cred[c].by, request[c].user,
                                  request[c].addr)
                 /\ cred[c] \in credentials
        BY <2>2 DEF MayBeSent, RowInv, CredInv, EffectInv
      <3> QED
        BY <2>1, <2>2, <3>1 DEF LateInv
    <2>3. CASE ~MayBeSent(c)
      BY <2>1, <2>3 DEF LateInv
    <2> QED
      BY <2>2, <2>3
  <1>2. CASE Commit(c) \/ Rollback(c)
    BY <1>2
       DEF Commit, Rollback, PublishRow, DropRow, ReleaseConnection, LateInv,
           NewRow, Row
  <1>3. CASE LateCommit(c) \/ AbortOrphan(c) \/ LateSession(c)
    <2>1. /\ fault'[c] \in {"lost", "error"}
          /\ \A d \in Calls : d # c => fault'[d] = fault[d]
          /\ inserted' = inserted \ {c}
          /\ credentials \subseteq credentials'
          /\ UNCHANGED << request, pc, cred, outcome >>
      BY <1>3
         DEF LateCommit, AbortOrphan, LateSession, PublishRow, DropRow
    <2>2. pc[c] \in {"reply", "done"}
      BY <1>3 DEF LateCommit, AbortOrphan, LateSession, LateInv
    <2> QED
      BY <2>1, <2>2 DEF LateInv
  <1>4. CASE OpenSession(c) \/ LookupFound(c)
    <2>1. c \notin inserted /\ fault[c] # "unknown" /\ fault[c] # "lost"
      BY <1>4 DEF OpenSession, LookupFound, RowInv, LateInv
    <2>2. /\ \A d \in Calls :
               d # c => UNCHANGED << pc[d], cred[d], outcome[d] >>
          /\ UNCHANGED << request, fault, inserted, credentials >>
      BY <1>4 DEF OpenSession, LookupFound
    <2> QED
      BY <2>1, <2>2 DEF LateInv
  <1>5. CASE CreateCredential(c) \/ AfterCreateNewSession(c)
             \/ TxStatementFails(c)
    BY <1>5
       DEF CreateCredential, AfterCreateNewSession, TxStatementFails,
           InsertRow, AddSession, LateInv, NewRow, Row
  <1>6. CASE Begin(c) \/ LookupMissing(c) \/ BeginTx(c)
             \/ AfterCreateNoop(c) \/ Reply(c) \/ Cancel(c)
    BY <1>6
       DEF Begin, LookupMissing, BeginTx, AfterCreateNoop, Reply, Cancel,
           LateInv, NewRow, Row
  <1> QED
    BY <1>1, <1>2, <1>3, <1>4, <1>5, <1>6
       DEF CallStep, Progress, Failure, OrphanEnds

-----------------------------------------------------------------------------
(* The restart, and the theorems.                                          *)

\* A restart ends every transaction with its connection, and leaves the rows
\* that were not committed as orphans.
LEMMA CrashStep ==
    ASSUME IndInv, Crash
    PROVE  IndInv'
  <1> USE DEF IndInv, TypeOK, Crash, StopAll, Active, inputs, tables
  <1>1. TypeOK'
    BY DEF Steps, Outcomes, Interrupted
  <1>2. /\ pc' = [c \in Calls |-> IF Active(c) THEN "done" ELSE pc[c]]
        /\ UNCHANGED << request, cred, cancelled, inserted, credentials,
                        sessions >>
        /\ held' = {}
    OBVIOUS
  <1>3. PoolInv'
    BY DEF PoolInv, InTransaction, Steps
  <1>4. RowInv'
    BY DEF RowInv, UserTaken, AddrTaken, Overlap, NewRow, Row
  <1>5. CredInv'
    BY DEF CredInv
  <1>6. EffectInv'
    BY DEF EffectInv, LateInv, Interrupted
  <1>7. /\ SessionsBelongToCredentials'
        /\ OneCredentialPerUserAndWallet'
        /\ OnlyNoopRegisters'
    BY DEF SessionsBelongToCredentials, OneCredentialPerUserAndWallet,
           OnlyNoopRegisters, Registered
  <1>8. OKMeansDurable' /\ AlreadyExistsIsTrue'
    BY DEF OKMeansDurable, AlreadyExistsIsTrue, UserTaken, AddrTaken
  <1>9. LateInv'
    BY DEF LateInv, Interrupted, MayBeSent, At, RowInv, CredInv, EffectInv, Row
  <1> QED
    BY <1>1, <1>3, <1>4, <1>5, <1>6, <1>7, <1>8, <1>9

LEMMA InitInv == Init => IndInv
  <1> SUFFICES ASSUME Init PROVE IndInv
    OBVIOUS
  <1> USE DEF Init
  <1>1. TypeOK
    BY InitType
  <1>2. PoolInv /\ RowInv /\ CredInv
    BY DEF PoolInv, RowInv, CredInv, InTransaction
  <1>3. EffectInv /\ LateInv /\ OnlyNoopRegisters
    BY ProvisionedAssumption, CallsAssumption
       DEF EffectInv, LateInv, OnlyNoopRegisters
  <1>4. OneCredentialPerUserAndWallet
    BY ProvisionedAssumption DEF OneCredentialPerUserAndWallet
  <1>5. SessionsBelongToCredentials /\ OKMeansDurable /\ AlreadyExistsIsTrue
    BY DEF SessionsBelongToCredentials, OKMeansDurable, AlreadyExistsIsTrue
  <1> QED
    BY <1>1, <1>2, <1>3, <1>4, <1>5 DEF IndInv

LEMMA NextInv == IndInv /\ [Next]_vars => IndInv'
  <1> SUFFICES ASSUME IndInv, [Next]_vars PROVE IndInv'
    OBVIOUS
  <1>1. ASSUME NEW c \in Calls, CallStep(c) PROVE IndInv'
    <2>1. TypeOK'
      BY <1>1, CallType DEF IndInv
    <2> QED
      BY <1>1, <2>1, CallPool, CallRow, CallCred, CallEffect, CallSessions,
         CallUnique, CallOK, CallExists, CallNoop, CallLate DEF IndInv
  <1>2. CASE Crash
    BY <1>2, CrashStep
  <1>3. CASE UNCHANGED vars
    BY <1>3
       DEF vars, IndInv, TypeOK, PoolInv, RowInv, CredInv, EffectInv, LateInv,
           SessionsBelongToCredentials, OneCredentialPerUserAndWallet,
           OKMeansDurable, AlreadyExistsIsTrue, OnlyNoopRegisters,
           InTransaction, UserTaken, AddrTaken, Overlap, NewRow, Row, Registered
  <1> QED
    BY <1>1, <1>2, <1>3 DEF Next, Terminated

\* The inductive invariant: what each call, row and connection is at any time.
THEOREM InductiveInvariant == Spec => []IndInv
  BY InitInv, NextInv, PTL DEF Spec

\* Every variable keeps its type (the model of tables, pool and calls).
THEOREM TypeCorrectness == Spec => []TypeOK
  <1>1. IndInv => TypeOK
    BY DEF IndInv
  <1> QED
    BY <1>1, InductiveInvariant, PTL

\* Sessions name the two halves of one committed credential, and the user and
\* wallet their call asked for (NewSession in both of its uses).
THEOREM SessionSafety == Spec => []SessionsBelongToCredentials
  <1>1. IndInv => SessionsBelongToCredentials
    BY DEF IndInv
  <1> QED
    BY <1>1, InductiveInvariant, PTL

\* Racing registrations never commit two credentials for a user or a wallet.
THEOREM CredentialUniqueness == Spec => []OneCredentialPerUserAndWallet
  <1>1. IndInv => OneCredentialPerUserAndWallet
    BY DEF IndInv
  <1> QED
    BY <1>1, InductiveInvariant, PTL

\* OK is durable, and AlreadyExists is true, of every call that returns them.
THEOREM AnswersAreTrue == Spec => [](OKMeansDurable /\ AlreadyExistsIsTrue)
  <1>1. IndInv => OKMeansDurable /\ AlreadyExistsIsTrue
    BY DEF IndInv
  <1> QED
    BY <1>1, InductiveInvariant, PTL

\* AlreadyExists alone: a committed row of the call's user or wallet backs it
\* (CreateCredentialTx, handleExistingCredential).
THEOREM RefusalsAreTrue == Spec => []AlreadyExistsIsTrue
  <1>1. IndInv => AlreadyExistsIsTrue
    BY DEF IndInv
  <1> QED
    BY <1>1, InductiveInvariant, PTL

\* A failed call leaves no row unless the server carried out its last operation
\* all the same (execTx, createCredentialAndSession, and restarts between any
\* two operations).
THEOREM FailureAtomicity == Spec => []FailureLeavesNothing
  <1>1. IndInv => FailureLeavesNothing
    BY DEF IndInv, EffectInv, FailureLeavesNothing
  <1> QED
    BY <1>1, InductiveInvariant, PTL

\* The handler alone registers no wallet: with its callback for every call the
\* credentials are those that were there from the start.
THEOREM HandlerNeverRegisters ==
    ASSUME "noop" \notin AfterCreates
    PROVE  Spec => [](credentials \subseteq Provisioned)
  <1>1. IndInv => credentials \subseteq Provisioned
    <2> SUFFICES ASSUME IndInv, NEW r \in credentials PROVE r \in Provisioned
      OBVIOUS
    <2> QED
      BY DEF IndInv, OnlyNoopRegisters, TypeOK, Requests
  <1> QED
    BY <1>1, InductiveInvariant, PTL

\* All calls in progress are stuck only if some registration waits, inside its
\* transaction, for a second connection of an exhausted pool.
THEOREM WedgeCause == Spec => []WedgeIsNestedAcquire
  <1>1. IndInv => WedgeIsNestedAcquire
    <2> SUFFICES ASSUME IndInv, Wedged
                 PROVE  ~ConnectionFree /\ \E c \in held : pc[c] = "afterCreate"
      BY DEF WedgeIsNestedAcquire
    <2> USE DEF IndInv
    \* Whoever has inserted a row is stuck in its callback: a transaction waits
    \* in its insertion, where it has no row, or in its callback.
    <2>1. ASSUME NEW d \in inserted
          PROVE  d \in held /\ pc[d] = "afterCreate" /\ ~ConnectionFree
      <3>1. d \in Calls /\ InTransaction(d)
        BY DEF Wedged, TypeOK
      <3>2. Blocked(d)
        BY <3>1 DEF Wedged, Active, InTransaction
      <3>3. pc[d] # "insert"
        BY DEF RowInv
      <3> QED
        BY <3>1, <3>2, <3>3 DEF Blocked, InTransaction, PoolInv
    <2>2. ~ConnectionFree
      <3> SUFFICES ASSUME ConnectionFree PROVE FALSE
        OBVIOUS
      <3>1. PICK c \in Calls : Active(c) /\ Blocked(c)
        BY DEF Wedged
      <3>2. WaitsForRow(c)
        BY <3>1 DEF Blocked
      <3>3. inserted # {}
        BY <3>2 DEF WaitsForRow
      <3> QED
        BY <2>1, <3>3
    <2>3. PICK h \in Calls : h \in held
      <3>1. held # {}
        BY <2>2, FS_EmptySet, MaxConnsAssumption DEF ConnectionFree
      <3> QED
        BY <3>1 DEF TypeOK
    <2>4. Blocked(h)
      BY <2>3 DEF PoolInv, Wedged, Active, InTransaction
    <2>5. CASE pc[h] = "afterCreate"
      BY <2>2, <2>3, <2>5
    <2>6. CASE pc[h] = "insert" /\ WaitsForRow(h)
      <3>1. inserted # {}
        BY <2>6 DEF WaitsForRow
      <3> QED
        BY <2>1, <3>1
    <2> QED
      BY <2>3, <2>4, <2>5, <2>6 DEF Blocked, PoolInv, InTransaction
  <1> QED
    BY <1>1, InductiveInvariant, PTL

\* A call for a registered pair: it is looked up, given a session and answered,
\* and the answer is no refusal.
Admitted(c) ==
    /\ Registered(request[c].user, request[c].addr)
    /\ pc[c] \in {"lookup", "existing", "reply", "done"}
    /\ outcome[c] \notin {"AlreadyExists", "PermissionDenied"}

LEMMA AdmittedStep ==
    ASSUME IndInv, NEW c \in Calls, Admitted(c), NEW d \in Calls, CallStep(d)
    PROVE  Admitted(c)'
  <1> USE DEF IndInv, TypeOK, Admitted, Registered, At, GoTo, Outcome, Return,
              CanRun, CanQuery, FailTx, FailUnknown, OtherError, inputs,
              tables
  <1>1. Registered(request[c].user, request[c].addr)'
    BY RowTypes
       DEF CallStep, Progress, Failure, OrphanEnds, Begin, LookupMissing,
           LookupFound, OpenSession, LateSession, BeginTx, CreateCredential,
           InsertRow, AfterCreateNewSession, AfterCreateNoop, Commit,
           LateCommit, PublishRow, Rollback, EndTxFails, QueryFails,
           TxStatementFails, Reply, Cancel, AbortOrphan
  <1>2. CASE d = c
    <2>1. CASE LookupFound(c)
      <3>1. PICK r \in credentials :
                /\ r.addr = request[c].addr
                /\ IF r.user = request[c].user
                   THEN GoTo(c, "existing") /\ UNCHANGED outcome
                   ELSE Return(c, "PermissionDenied")
        BY <2>1 DEF LookupFound
      <3>2. r.user = request[c].user
        BY <3>1 DEF OneCredentialPerUserAndWallet, Overlap
      <3> QED
        BY <1>1, <3>1, <3>2
    <2>2. CASE OpenSession(c) \/ LateSession(c) \/ QueryFails(c)
               \/ Reply(c) \/ Cancel(c) \/ AbortOrphan(c) \/ LateCommit(c)
      BY <1>1, <2>2
         DEF OpenSession, LateSession, QueryFails, Reply, Cancel,
             AbortOrphan, LateCommit
    <2>3. ~LookupMissing(c)
      BY DEF LookupMissing, AddrTaken
    <2>4. \/ LookupFound(c) \/ OpenSession(c) \/ LateSession(c)
          \/ QueryFails(c) \/ Reply(c) \/ Cancel(c) \/ AbortOrphan(c)
          \/ LateCommit(c)
      BY <1>2, <2>3
         DEF CallStep, Progress, Failure, OrphanEnds, Begin, BeginTx,
             CreateCredential, AfterCreateNewSession, AfterCreateNoop, Commit,
             Rollback, EndTxFails, TxStatementFails
    <2> QED
      BY <2>1, <2>2, <2>4
  <1>3. CASE d # c
    <2>1. pc'[c] = pc[c] /\ outcome'[c] = outcome[c]
      BY <1>3
         DEF CallStep, Progress, Failure, OrphanEnds, Begin, LookupMissing,
             LookupFound,
             OpenSession, LateSession, BeginTx, CreateCredential,
             AfterCreateNewSession, AfterCreateNoop, Commit, LateCommit,
             Rollback, EndTxFails, QueryFails, TxStatementFails, Reply, Cancel,
             AbortOrphan
    <2> QED
      BY <1>1, <2>1
  <1> QED
    BY <1>2, <1>3

\* A call whose user and wallet are registered together when it looks them up
\* is never refused, whatever the other calls, the database and the process do.
THEOREM NoRefusalOfRegisteredPair == Spec => RegisteredPairIsNotRefused
  <1> SUFFICES ASSUME NEW c \in Calls
               PROVE  Spec =>
                   [](pc[c] = "lookup"
                         /\ Registered(request[c].user, request[c].addr)
                      => [](outcome[c] \notin
                                {"AlreadyExists", "PermissionDenied"}))
    BY DEF RegisteredPairIsNotRefused
  <1>1. IndInv /\ pc[c] = "lookup"
            /\ Registered(request[c].user, request[c].addr) => Admitted(c)
    BY DEF IndInv, EffectInv, Admitted
  <1>2. IndInv /\ Admitted(c) /\ [Next]_vars => Admitted(c)'
    <2> SUFFICES ASSUME IndInv, Admitted(c), [Next]_vars PROVE Admitted(c)'
      OBVIOUS
    <2>1. ASSUME NEW d \in Calls, CallStep(d) PROVE Admitted(c)'
      BY <2>1, AdmittedStep
    <2>2. CASE Crash
      BY <2>2
         DEF Crash, StopAll, Active, Admitted, Registered, IndInv, TypeOK,
             inputs, tables
    <2>3. CASE UNCHANGED vars
      BY <2>3 DEF vars, Admitted, Registered
    <2> QED
      BY <2>1, <2>2, <2>3 DEF Next, Terminated
  <1>3. Admitted(c) =>
            outcome[c] \notin {"AlreadyExists", "PermissionDenied"}
    BY DEF Admitted
  <1> QED
    BY <1>1, <1>2, <1>3, InductiveInvariant, PTL DEF Spec

-----------------------------------------------------------------------------
(* The store implements the registry.                                      *)

\* Operations that neither write a row that others can see nor decide an
\* answer.  The callback belongs to them: it cannot see the new credential.
LEMMA HiddenStep ==
    ASSUME IndInv, NEW c \in Calls,
           \/ Begin(c) \/ LookupMissing(c) \/ BeginTx(c) \/ CreateCredential(c)
           \/ AfterCreateNewSession(c) \/ AfterCreateNoop(c)
           \/ TxStatementFails(c) \/ Cancel(c)
           \/ LookupFound(c) /\ pc'[c] = "existing"
    PROVE  UNCHANGED Registry!vars
  <1> USE DEF IndInv, TypeOK, At, GoTo, Outcome, Return, Fault, CanRun,
              CanQuery, FailTx, FailUnknown, OtherError, inputs,
              tables
  <1>1. CASE AfterCreateNewSession(c)
    <2>1. ~ForeignKeysHold(cred[c])
      BY <1>1, RowTypes
         DEF AfterCreateNewSession, CredInv, RowInv, UserTaken, ForeignKeysHold
    <2> QED
      BY <1>1, <2>1 DEF AfterCreateNewSession, Registry!vars
  <1>2. CASE CreateCredential(c)
    BY <1>2 DEF CreateCredential, InsertRow, Registry!vars
  <1>3. CASE \/ Begin(c) \/ LookupMissing(c) \/ BeginTx(c)
             \/ AfterCreateNoop(c) \/ Cancel(c)
             \/ LookupFound(c) /\ pc'[c] = "existing"
    BY <1>3 DEF Begin, LookupMissing, BeginTx, AfterCreateNoop, Cancel,
                LookupFound, Registry!vars
  <1>4. CASE TxStatementFails(c)
    BY <1>4 DEF TxStatementFails, LateInv, Registry!vars
  <1> QED
    BY <1>1, <1>2, <1>3, <1>4

\* An operation that ends with Return decides the answer of its call.
LEMMA ReturnAnswers ==
    ASSUME TypeOK, NEW c \in Calls, NEW status \in Outcomes,
           Return(c, status), request' = request,
           pc[c] \notin {"reply", "done"}
    PROVE  Registry!Answer(c, status)
  BY DEF TypeOK, Return, GoTo, Outcome, Registry!Answer, Steps

\* A session opened for the credential of its call, and a row published by its
\* call, at any time, are what the registry adds.
LEMMA SessionOpened ==
    ASSUME IndInv, NEW c \in Calls, AddSession(c), credentials' = credentials,
           cred[c] = Row(cred[c].by, request[c].user, request[c].addr),
           cred[c] \in credentials
    PROVE  Registry!OpenSession(c)
  <1>1. cred[c].user = request[c].user /\ cred[c].addr = request[c].addr
    BY DEF Row
  <1> QED
    BY <1>1
       DEF AddSession, Row, Registry!OpenSession, Registry!PairKnown,
           Registry!Owned

LEMMA RowPublished ==
    ASSUME IndInv, NEW c \in inserted, PublishRow(c), sessions' = sessions,
           request[c].afterCreate = "noop"
    PROVE  Registry!Register(c)
  BY DEF IndInv, RowInv, PublishRow, NewRow, Row, UserTaken, AddrTaken,
         Registry!Register, Registry!UserKnown, Registry!AddrKnown,
         Registry!Owned

\* The operation that decides an answer changes the tables as the registry
\* does: it adds the one row of its call, or nothing.
LEMMA DecisiveStep ==
    ASSUME IndInv, NEW c \in Calls,
           \/ OpenSession(c) \/ Commit(c) \/ Rollback(c)
           \/ QueryFails(c) \/ EndTxFails(c)
           \/ LookupFound(c) /\ pc'[c] # "existing"
    PROVE  Registry!Succeed(c) \/ Registry!Refuse(c) \/ Registry!Fail(c)
  <1> USE DEF IndInv, At, CanRun, CanQuery, inputs, tables
  <1>1. CASE OpenSession(c)
    <2>1. /\ cred[c] = Row(cred[c].by, request[c].user, request[c].addr)
          /\ cred[c] \in credentials
      BY <1>1 DEF OpenSession, CredInv
    <2>2. ForeignKeysHold(cred[c])
      BY <2>1 DEF ForeignKeysHold
    <2>3. Registry!OpenSession(c)
      BY <1>1, <2>1, <2>2, SessionOpened DEF OpenSession
    <2>4. Registry!Answer(c, "OK")
      BY <1>1, <2>2, ReturnAnswers DEF OpenSession, Outcomes
    <2> QED
      BY <1>1, <2>3, <2>4 DEF OpenSession, Registry!Succeed, Registry!Change
  <1>2. CASE Commit(c)
    <2>1. request[c].afterCreate = "noop" /\ c \in inserted
      BY <1>2 DEF Commit, RowInv, EffectInv
    <2>2. Registry!Register(c)
      BY <1>2, <2>1, RowPublished DEF Commit
    <2>3. Registry!Answer(c, "OK")
      BY <1>2, ReturnAnswers DEF Commit, Outcomes
    <2> QED
      BY <1>2, <2>2, <2>3 DEF Commit, Registry!Succeed, Registry!Change
  <1>3. CASE Rollback(c)
    <2>1. outcome[c] \in {"AlreadyExists", "Internal"}
      BY <1>3 DEF Rollback, EffectInv
    <2>2. ASSUME NEW status, outcome[c] = status
          PROVE  Registry!Answer(c, status)
      BY <1>3, <2>2 DEF Rollback, GoTo, TypeOK, Registry!Answer
    <2>3. UNCHANGED << fault, credentials, sessions >>
      BY <1>3 DEF Rollback
    <2>4. CASE outcome[c] = "AlreadyExists"
      <3>1. Registry!UserKnown(c) \/ Registry!AddrKnown(c)
        BY <2>4 DEF AlreadyExistsIsTrue, UserTaken, AddrTaken,
                    Registry!UserKnown, Registry!AddrKnown
      <3> QED
        BY <2>2, <2>3, <2>4, <3>1 DEF Registry!Refuse
    <2>5. CASE outcome[c] = "Internal"
      BY <2>2, <2>3, <2>5 DEF Registry!Fail
    <2> QED
      BY <2>1, <2>4, <2>5
  <1>4. CASE QueryFails(c) \/ EndTxFails(c)
    <2>1. FailUnknown(c) /\ UNCHANGED << credentials, sessions >>
      BY <1>4 DEF QueryFails, EndTxFails
    <2>2. Registry!Answer(c, "Internal")
      BY <1>4, ReturnAnswers
         DEF QueryFails, EndTxFails, FailUnknown, Outcomes
    <2>3. \/ {d \in Calls : fault'[d] = "unknown"}
             = {d \in Calls : fault[d] = "unknown"}
          \/ {d \in Calls : fault'[d] = "unknown"}
             = {d \in Calls : fault[d] = "unknown"} \cup {c}
      <3>1. fault[c] # "unknown"
        BY <1>4 DEF QueryFails, EndTxFails, LateInv
      <3> QED
        BY <2>1, <3>1 DEF FailUnknown, Fault, TypeOK
    <2> QED
      BY <2>1, <2>2, <2>3 DEF Registry!Fail
  <1>5. CASE LookupFound(c) /\ pc'[c] # "existing"
    <2>1. PICK r \in credentials :
              /\ r.addr = request[c].addr
              /\ r.user # request[c].user
              /\ Return(c, "PermissionDenied")
      BY <1>5 DEF LookupFound, TypeOK, GoTo
    <2>2. Registry!Answer(c, "PermissionDenied")
      BY <1>5, <2>1, ReturnAnswers DEF LookupFound, Outcomes
    <2>3. Registry!AddrKnown(c) /\ ~Registry!PairKnown(c)
      BY <2>1
         DEF OneCredentialPerUserAndWallet, Overlap, Registry!AddrKnown,
             Registry!PairKnown
    <2> QED
      BY <1>5, <2>2, <2>3 DEF LookupFound, Registry!Refuse
  <1> QED
    BY <1>1, <1>2, <1>3, <1>4, <1>5

LEMMA ReplyDelivers ==
    ASSUME IndInv, NEW c \in Calls, Reply(c)
    PROVE  Registry!Deliver(c)
  BY DEF IndInv, TypeOK, EffectInv, Reply, At, GoTo, inputs, tables,
         Registry!Deliver

\* What the server still does for a call that has returned settles an open
\* change, or ends a transaction that never had one.
LEMMA LateStep ==
    ASSUME IndInv, NEW c \in Calls, OrphanEnds(c) \/ LateSession(c)
    PROVE  \/ Registry!Late(c) \/ Registry!Abandon(c)
           \/ UNCHANGED Registry!vars
  <1> USE DEF IndInv, Fault, inputs, tables
  <1>1. ASSUME fault' = [fault EXCEPT ![c] = "lost"]
               \/ fault' = [fault EXCEPT ![c] = "error"]
        PROVE  {d \in Calls : fault'[d] = "unknown"}
               = {d \in Calls : fault[d] = "unknown"} \ {c}
    BY <1>1 DEF TypeOK
  <1>2. CASE AbortOrphan(c)
    <2>1. {d \in Calls : fault'[d] = "unknown"}
          = {d \in Calls : fault[d] = "unknown"} \ {c}
      BY <1>1, <1>2 DEF AbortOrphan
    <2>2. CASE fault[c] = "unknown"
      BY <1>2, <2>1, <2>2 DEF AbortOrphan, Registry!Abandon
    <2>3. CASE fault[c] # "unknown"
      BY <1>2, <2>1, <2>3 DEF AbortOrphan, Registry!vars
    <2> QED
      BY <2>2, <2>3
  <1>3. CASE LateCommit(c)
    <2>1. Registry!Register(c)
      BY <1>3, RowPublished DEF LateCommit, LateInv
    <2> QED
      BY <1>1, <1>3, <2>1
         DEF LateCommit, PublishRow, Registry!Late, Registry!Change
  <1>4. CASE LateSession(c)
    <2>1. Registry!OpenSession(c)
      BY <1>4, SessionOpened DEF LateSession, LateInv
    <2> QED
      BY <1>1, <1>4, <2>1 DEF LateSession, Registry!Late, Registry!Change
  <1> QED
    BY <1>2, <1>3, <1>4 DEF OrphanEnds

LEMMA CrashInterrupts ==
    ASSUME IndInv, Crash
    PROVE  Registry!Interrupt
  <1> DEFINE S == {c \in Calls : Active(c)}
  <1>1. S \in SUBSET (Calls \ {c \in Calls : pc[c] = "done"})
    BY DEF Active
  <1>2. [c \in Calls |-> IF pc'[c] \in {"reply", "done"}
                         THEN outcome'[c] ELSE "none"]
        = [c \in Calls |->
              IF c \in S THEN "Unavailable"
              ELSE IF pc[c] \in {"reply", "done"} THEN outcome[c] ELSE "none"]
    BY DEF IndInv, TypeOK, Crash, StopAll, Active
  <1>3. {c \in Calls : pc'[c] = "done"}
        = {c \in Calls : pc[c] = "done"} \cup S
    BY DEF IndInv, TypeOK, Crash, StopAll, Active
  <1>4. UNCHANGED << request, credentials, sessions >>
    BY DEF Crash, StopAll, inputs, tables
  <1> DEFINE T == {c \in Calls : fault'[c] = "unknown" /\ fault[c] # "unknown"}
             answers == [c \in Calls |->
                            IF pc[c] \in {"reply", "done"}
                            THEN outcome[c] ELSE "none"]
  <1>5. T \in SUBSET {c \in S : answers[c] = "none"}
    <2> SUFFICES ASSUME NEW c \in T PROVE c \in S /\ answers[c] = "none"
      OBVIOUS
    <2>1. fault'[c] = Interrupted(c)
      BY DEF Crash, StopAll
    <2>2. Active(c) /\ MayBeSent(c)
      BY <2>1 DEF Interrupted
    <2> QED
      BY <2>2 DEF MayBeSent, At
  <1>6. {c \in Calls : fault'[c] = "unknown"}
        = {c \in Calls : fault[c] = "unknown"} \cup T
    BY DEF Crash, StopAll, Interrupted
  <1> HIDE DEF S, T
  <1>7. \E U \in SUBSET {c \in S : answers[c] = "none"} :
            {c \in Calls : fault'[c] = "unknown"}
            = {c \in Calls : fault[c] = "unknown"} \cup U
    BY <1>5, <1>6
  <1> QED
    BY <1>1, <1>2, <1>3, <1>4, <1>7 DEF Registry!Interrupt

LEMMA StepRefines ==
    ASSUME IndInv, [Next]_vars
    PROVE  [Registry!Next]_(Registry!vars)
  <1>1. ASSUME NEW c \in Calls, CallStep(c)
        PROVE  Registry!Next \/ UNCHANGED Registry!vars
    <2>1. LookupFound(c) => pc'[c] = "existing" \/ pc'[c] # "existing"
      OBVIOUS
    <2> QED
      BY <1>1, <2>1, HiddenStep, DecisiveStep, ReplyDelivers, LateStep
         DEF CallStep, Progress, Failure, Registry!Next
  <1>2. CASE Crash
    BY <1>2, CrashInterrupts DEF Registry!Next
  <1>3. CASE Terminated \/ UNCHANGED vars
    BY <1>3 DEF Terminated, vars, Registry!vars
  <1> QED
    BY <1>1, <1>2, <1>3 DEF Next

\* Whatever the number of calls, users and connections, every behaviour of the
\* store, with its transactions, callbacks, orphans, crashes and operations
\* that the server carries out after the call has returned its error, is one of
\* the registry: a call answers OK and writes in one step, and one that was told
\* of an error, or of nothing, may write once at a later time
\* (handleCredentialAndSession, CreateCredentialTx, execTx).
THEOREM RegistryImplemented == Spec => ImplementsRegistry
  <1>1. Init => Registry!Init
    BY DEF Init, Requests, Registry!Init
  <1>2. IndInv /\ [Next]_vars => [Registry!Next]_(Registry!vars)
    BY StepRefines
  <1> QED
    BY <1>1, <1>2, InductiveInvariant, PTL
       DEF Spec, Registry!Spec, ImplementsRegistry
=============================================================================
