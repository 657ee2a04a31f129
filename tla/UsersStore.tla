----------------------------- MODULE UsersStore -----------------------------
(***************************************************************************)
(* The store of the users service: CreateUserTx inside execTx, CreateUser, *)
(* UpdateUser, and a caller that reads ListUsers page after page.          *)
(*                                                                         *)
(* A statement is one step.  A row is identified by the call that inserted *)
(* it and dated, as now() dates it, by the start of its transaction: rows  *)
(* may be committed out of the order of their dates.  A transaction needs  *)
(* one connection and nothing else of the pool, which is left out.         *)
(*                                                                         *)
(* A statement that fails may be with the server already.  A COMMIT, or a  *)
(* statement outside of a transaction, may then be carried out at any      *)
(* later time, also after its call has returned an error.                  *)
(***************************************************************************)
EXTENDS Integers, FiniteSets

CONSTANTS
    Creators,   \* calls of CreateUserTx and CreateUser
    Direct,     \* those of CreateUser
    Updaters,   \* calls of UpdateUser
    Pagers,     \* callers of ListUsers
    Wallets,
    Names,      \* gamer tags and ENS names
    Null,
    Registered, \* the rows that are there at first
    Limit,      \* of a page
    Start,      \* the clock at first
    MaxTime     \* bound of the clock

Ids == Creators \cup {r.id : r \in Registered}
Row == [id : Ids, wallet : Wallets, tag : Names \cup {Null},
        ens : Names \cup {Null}, created : Nat]
NoRow == [id |-> Null, wallet |-> Null, tag |-> Null, ens |-> Null,
          created |-> 0]

\* Two rows that a unique index keeps apart.  NULLs are not equal.
SameName(m, n) == m = n /\ m # Null
Clash(r, s) == \/ r.wallet = s.wallet
               \/ SameName(r.tag, s.tag)
               \/ SameName(r.ens, s.ens)

ASSUME IdAssumption ==
    /\ Null \notin Ids \cup Wallets \cup Names
    /\ \A r \in Registered : r.id \notin Creators
    /\ Direct \subseteq Creators
ASSUME RegisteredAssumption ==
    /\ IsFiniteSet(Registered) /\ IsFiniteSet(Creators)
    /\ Registered \subseteq Row
    /\ \A r, s \in Registered : r = s \/ (~Clash(r, s) /\ r.id # s.id)
    /\ \A r \in Registered : r.created <= Start
ASSUME NumberAssumption ==
    Limit \in Nat \ {0} /\ Start \in Nat /\ MaxTime \in Nat

VARIABLES
    now,
    users,    \* the committed rows
    pc,       \* pc[c]: the next statement of a creation
    row,      \* row[c]: the row that c inserts
    pending,  \* calls whose row is inserted and not committed
    outcome,  \* outcome[c]: what c returned
    enqueued, \* calls whose AfterCreate took effect
    updated,  \* updated[u]: what u returned; "Unknown" is an error after which
              \* the server may still carry out the UPDATE
    offset,   \* offset[g]: where the next page of g starts, -1 at its end
    before,   \* before[g]: the rows that were there when g began
    seen,     \* seen[g]: the rows it has been shown
    twice     \* twice[g]: those it has been shown again

creatorVars == << pc, row, pending, outcome, enqueued >>
pagerVars == << offset, before, seen, twice >>
vars == << now, users, creatorVars, updated, pagerVars >>

\* "gone": the call has returned, and the server still has its transaction;
\* "sent": it may also have the COMMIT, or the INSERT of CreateUser.
Steps == {"idle", "insert", "afterCreate", "commit", "rollback", "gone", "sent",
          "done"}
Outcomes == {"none", "OK", "ErrUserAlreadyExists", "ErrGamerTagAlreadyInUse",
             "Error"}

TypeOK ==
    /\ now \in Nat
    /\ users \subseteq Row
    /\ pc \in [Creators -> Steps]
    /\ row \in [Creators -> Row \cup {NoRow}]
    /\ pending \subseteq Creators
    /\ outcome \in [Creators -> Outcomes]
    /\ enqueued \subseteq Creators
    /\ updated \in [Updaters -> {"none", "OK", "NotFound", "Error",
                              "Unknown"}]
    /\ offset \in [Pagers -> Nat \cup {-1}]
    /\ before \in [Pagers -> SUBSET Ids]
    /\ seen \in [Pagers -> SUBSET Ids]
    /\ twice \in [Pagers -> SUBSET Ids]

Init ==
    /\ now = Start
    /\ users = Registered
    /\ pc = [c \in Creators |-> "idle"]
    /\ row = [c \in Creators |-> NoRow]
    /\ pending = {}
    /\ outcome = [c \in Creators |-> "none"]
    /\ enqueued = {}
    /\ updated = [u \in Updaters |-> "none"]
    /\ offset = [g \in Pagers |-> 0]
    /\ before = [g \in Pagers |-> {}]
    /\ seen = [g \in Pagers |-> {}]
    /\ twice = [g \in Pagers |-> {}]

GoTo(c, step) == pc' = [pc EXCEPT ![c] = step]
Return(c, result) ==
    GoTo(c, "done") /\ outcome' = [outcome EXCEPT ![c] = result]

-----------------------------------------------------------------------------
(* CreateUserTx.                                                           *)

NewRow(c, wallet, tag) == [id |-> c, wallet |-> wallet, tag |-> tag,
                           ens |-> Null, created |-> now]

BeginTx(c, wallet, tag) ==
    /\ pc[c] = "idle"
    /\ c \notin Direct
    /\ row' = [row EXCEPT ![c] = NewRow(c, wallet, tag)]
    /\ GoTo(c, "insert")
    /\ UNCHANGED << now, users, pending, outcome, enqueued, updated, pagerVars >>

WalletTaken(r) == \E s \in users : s.wallet = r.wallet
TagTaken(r) == \E s \in users : SameName(s.tag, r.tag)

\* The indexes are tried in the order of their columns.  An insertion waits for
\* the transaction that holds a conflicting row; the variant does not see it.
WaitsForNone(r) == FALSE
WaitsForWallet(r) == \E d \in pending : row[d].wallet = r.wallet
WaitsForTag(r) == \E d \in pending : SameName(row[d].tag, r.tag)
Waits(r) == WaitsForWallet(r) \/ WaitsForTag(r)

\* The unique violation of r, by the name of its constraint.  In the first
\* variant the constraints are exchanged, in the second the tag is told first.
ViolationExchanged(r) == IF WalletTaken(r) THEN "ErrGamerTagAlreadyInUse"
                                           ELSE "ErrUserAlreadyExists"
ViolationTagFirst(r) == IF TagTaken(r) THEN "ErrGamerTagAlreadyInUse"
                                       ELSE "ErrUserAlreadyExists"
Violation(r) == IF WalletTaken(r) THEN "ErrUserAlreadyExists"
                                  ELSE "ErrGamerTagAlreadyInUse"

Violates(r) == \/ WalletTaken(r)
               \/ TagTaken(r) /\ ~WaitsForWallet(r)

Insert(c) ==
    /\ pc[c] = "insert"
    /\ ~Waits(row[c])
    /\ ~Violates(row[c])
    /\ pending' = pending \cup {c}
    /\ GoTo(c, "afterCreate")
    /\ UNCHANGED << now, users, row, outcome, enqueued, updated, pagerVars >>

\* fn returned an error; in the variant execTx returns it and nothing more.
RejectedOnly(c, result) ==
    /\ outcome' = [outcome EXCEPT ![c] = result]
    /\ GoTo(c, "done")
Rejected(c, result) ==
    /\ outcome' = [outcome EXCEPT ![c] = result]
    /\ GoTo(c, "rollback")

InsertViolates(c) ==
    /\ pc[c] = "insert"
    /\ Violates(row[c])
    /\ Rejected(c, Violation(row[c]))
    /\ UNCHANGED << now, users, row, pending, enqueued, updated, pagerVars >>

\* The caller's callback, which may enqueue a task; the variant runs it when
\* the insertion has failed.
AfterCreateOnFailure(c) ==
    /\ pc[c] \in {"afterCreate", "rollback"}
    /\ GoTo(c, IF pc[c] = "rollback" THEN "rollback" ELSE "commit")
    /\ enqueued' = enqueued \cup {c}
    /\ UNCHANGED << now, users, row, pending, outcome, updated, pagerVars >>
AfterCreate(c) ==
    /\ pc[c] = "afterCreate"
    /\ GoTo(c, "commit")
    /\ enqueued' = enqueued \cup {c}
    /\ UNCHANGED << now, users, row, pending, outcome, updated, pagerVars >>

\* The statement or the callback fails; the callback may have taken effect.
TxFails(c) ==
    /\ \/ pc[c] = "insert" /\ UNCHANGED enqueued
       \/ pc[c] = "afterCreate" /\ enqueued' \in {enqueued, enqueued \cup {c}}
    /\ Rejected(c, "Error")
    /\ UNCHANGED << now, users, row, pending, updated, pagerVars >>

\* What a commit makes visible.
Publish(c) == users' = users \cup {row[c]} /\ pending' = pending \ {c}

Commit(c) ==
    /\ pc[c] = "commit"
    /\ Publish(c)
    /\ Return(c, "OK")
    /\ UNCHANGED << now, row, enqueued, updated, pagerVars >>

Rollback(c) ==
    /\ pc[c] = "rollback"
    /\ pending' = pending \ {c}
    /\ GoTo(c, "done")
    /\ UNCHANGED << now, users, row, outcome, enqueued, updated, pagerVars >>

\* The end of the transaction fails, or its process dies; the row stays until
\* the server ends the transaction.  A failed rollback hides the violation (%v).
EndTxFails(c) ==
    /\ pc[c] \in {"insert", "afterCreate", "commit", "rollback"}
    /\ GoTo(c, IF pc[c] = "commit" THEN "sent" ELSE "gone")
    /\ outcome' = [outcome EXCEPT ![c] = "Error"]
    /\ UNCHANGED << now, users, row, pending, enqueued, updated, pagerVars >>

\* CreateUser outside of a transaction: its errors are not told apart.
CreateUser(c, wallet, tag) ==
    LET r == NewRow(c, wallet, tag)
    IN  /\ pc[c] = "idle"
        /\ c \in Direct
        /\ row' = [row EXCEPT ![c] = r]
        /\ \/ /\ ~Waits(r) /\ ~Violates(r)
              /\ users' = users \cup {r}
              /\ Return(c, "OK")
           \/ /\ Violates(r)
              /\ Return(c, "Error")
              /\ UNCHANGED users
           \/ /\ GoTo(c, "sent")
              /\ outcome' = [outcome EXCEPT ![c] = "Error"]
              /\ UNCHANGED users
        /\ UNCHANGED << now, pending, enqueued, updated, pagerVars >>

-----------------------------------------------------------------------------
(* What the server does for a creation that has returned.                  *)

\* The transaction is dropped, or the INSERT did not get there.
ServerAborts(c) ==
    /\ pc[c] \in {"gone", "sent"}
    /\ pending' = pending \ {c}
    /\ GoTo(c, "done")
    /\ UNCHANGED << now, users, row, outcome, enqueued, updated, pagerVars >>

CommitLate(c) ==
    /\ pc[c] = "sent"
    /\ c \notin Direct
    /\ Publish(c)
    /\ GoTo(c, "done")
    /\ UNCHANGED << now, row, outcome, enqueued, updated, pagerVars >>

\* The INSERT of CreateUser began at some time since the call.
Dated(r, date) == [r EXCEPT !.created = date]
InsertLate(c) ==
    /\ pc[c] = "sent"
    /\ c \in Direct
    /\ ~Waits(row[c])
    /\ ~Violates(row[c])
    /\ \E date \in row[c].created..now :
          /\ row' = [row EXCEPT ![c] = Dated(row[c], date)]
          /\ users' = users \cup {Dated(row[c], date)}
    /\ GoTo(c, "done")
    /\ UNCHANGED << now, pending, outcome, enqueued, updated, pagerVars >>

ServerEnds(c) == ServerAborts(c) \/ CommitLate(c) \/ InsertLate(c)

-----------------------------------------------------------------------------
(* UpdateUser, one statement outside of a transaction.                     *)

\* A value that is not given leaves the old one.
Coalesce(value, old) == IF value = Null THEN old ELSE value

Renamed(r, tag, ens) == [r EXCEPT !.tag = Coalesce(tag, @),
                                 !.ens = Coalesce(ens, @)]
Replace(r, new) ==
    /\ \A s \in users \ {r} : ~Clash(s, new)
    /\ users' = (users \ {r}) \cup {new}

Updates(u, result) == updated' = [updated EXCEPT ![u] = result]

UpdateUser(u, id, tag, ens) ==
    /\ updated[u] = "none"
    /\ UNCHANGED << now, creatorVars, pagerVars >>
    /\ \/ /\ \A r \in users : r.id # id
          /\ Updates(u, "NotFound")
          /\ UNCHANGED users
       \/ \E r \in users :
             LET new == Renamed(r, tag, ens)
             IN  /\ r.id = id
                 /\ ~WaitsForTag(new)
                 /\ \/ Replace(r, new) /\ Updates(u, "OK")
                    \/ /\ \E s \in users \ {r} : Clash(s, new)
                       /\ Updates(u, "Error")
                       /\ UNCHANGED users

\* Whatever it waits for or would find, the statement may fail, and may still be
\* carried out when its call has returned.
UpdateFails(u) ==
    /\ updated[u] = "none"
    /\ Updates(u, "Unknown")
    /\ UNCHANGED << now, users, creatorVars, pagerVars >>

UpdateLate(u, id, tag, ens) ==
    /\ updated[u] = "Unknown"
    /\ \E r \in users :
          /\ r.id = id
          /\ ~WaitsForTag(Renamed(r, tag, ens))
          /\ Replace(r, Renamed(r, tag, ens))
    /\ Updates(u, "Error")
    /\ UNCHANGED << now, creatorVars, pagerVars >>

-----------------------------------------------------------------------------
(* ListUsers, called with growing offsets until a page is not full.        *)

\* ORDER BY created_at DESC, which leaves rows of one date in any order; in the
\* variant there is no order.
NotAfterAny(r, s) == TRUE
NotAfter(r, s) == r.created >= s.created

Least(a, b) == IF a <= b THEN a ELSE b

\* The sets of rows that LIMIT and OFFSET may cut out.
PagesAt(n) ==
    {page \in SUBSET users :
        \E skipped \in SUBSET (users \ page) :
            /\ Cardinality(skipped) = Least(n, Cardinality(users))
            /\ Cardinality(page) =
                   Least(Limit, Cardinality(users) - Cardinality(skipped))
            /\ \A r \in skipped, s \in users \ skipped : NotAfter(r, s)
            /\ \A r \in page, s \in users \ (skipped \cup page) : NotAfter(r, s)}

ListUsers(g) ==
    /\ offset[g] >= 0
    /\ \E page \in PagesAt(offset[g]) :
          LET ids == {r.id : r \in page}
          IN  /\ seen' = [seen EXCEPT ![g] = @ \cup ids]
              /\ twice' = [twice EXCEPT ![g] = @ \cup (ids \cap seen[g])]
              /\ offset' = [offset EXCEPT ![g] =
                               IF Cardinality(page) < Limit THEN -1
                                                            ELSE @ + Limit]
    /\ before' = [before EXCEPT ![g] =
                     IF offset[g] = 0 THEN {r.id : r \in users} ELSE @]
    /\ UNCHANGED << now, users, creatorVars, updated >>

-----------------------------------------------------------------------------
Tick ==
    /\ now < MaxTime
    /\ now' = now + 1
    /\ UNCHANGED << users, creatorVars, updated, pagerVars >>

Terminated ==
    /\ \A c \in Creators : pc[c] = "done"
    /\ \A u \in Updaters : updated[u] # "none"
    /\ \A g \in Pagers : offset[g] = -1
    /\ UNCHANGED vars

Advance(c) ==
    \/ Insert(c) \/ InsertViolates(c) \/ AfterCreate(c)
    \/ Commit(c) \/ Rollback(c) \/ ServerEnds(c)

CreateStep(c) ==
    \/ \E wallet \in Wallets, tag \in Names \cup {Null} :
          BeginTx(c, wallet, tag) \/ CreateUser(c, wallet, tag)
    \/ Advance(c)
    \/ TxFails(c) \/ EndTxFails(c)

Next ==
    \/ \E c \in Creators : CreateStep(c)
    \/ \E u \in Updaters, id \in Ids, tag, ens \in Names \cup {Null} :
          UpdateUser(u, id, tag, ens) \/ UpdateLate(u, id, tag, ens)
    \/ \E u \in Updaters : UpdateFails(u)
    \/ \E g \in Pagers : ListUsers(g)
    \/ Tick
    \/ Terminated

Spec == Init /\ [][Next]_vars

\* Goroutines run, PostgreSQL answers, and it ends, one way or the other, what
\* came over a connection that is closed.
Fairness == \A c \in Creators : WF_vars(Advance(c))
FairSpec == Spec /\ Fairness

-----------------------------------------------------------------------------
(* Properties.                                                             *)

\* No two users share a wallet, a gamer tag or an ENS name, whatever creations
\* and updates race for them.
UsersAreUnique ==
    \A r, s \in users : r = s \/ (~Clash(r, s) /\ r.id # s.id)

Created(c) == \E r \in users : r.id = c

\* A call that returned without error has created its user, and one that was
\* told of a conflict has created none; that a wallet exists stays true.
AnswersAreTrue ==
    \A c \in Creators :
        /\ pc[c] = "done" /\ outcome[c] = "OK" =>
              \E r \in users : r.id = c /\ r.wallet = row[c].wallet
        /\ outcome[c] = "ErrUserAlreadyExists" =>
              ~Created(c) /\ WalletTaken(row[c])
        /\ outcome[c] = "ErrGamerTagAlreadyInUse" => ~Created(c)

\* What AfterCreate did is known for every user that a transaction created, and
\* can be seen before the user; it is left without one only by a call that
\* ended with an error that does not tell whether the user exists.
TaskAndUserAgree ==
    \A c \in Creators \ Direct :
        /\ Created(c) => c \in enqueued
        /\ c \in enqueued /\ ~Created(c) =>
              \/ pc[c] = "commit"
              \/ outcome[c] = "Error"

DateOf(id) == (CHOOSE r \in users : r.id = id).created
Tied(id) == \E r \in users : r.id # id /\ r.created = DateOf(id)

\* A listing that has come to its end has shown every user that was there when
\* it began, whatever was created meanwhile, except one that shares its date
\* with another: the order of these may change from page to page.
OnlyTiesAreSkipped ==
    \A g \in Pagers :
        offset[g] = -1 =>
            \A id \in before[g] : id \in seen[g] \/ Tied(id)

\* A user is shown twice only if another came in since the listing began, or if
\* it shares its date.
RepetitionIsExplained ==
    \A g \in Pagers : \A id \in twice[g] :
        \/ Tied(id)
        \/ \E r \in users : r.id \notin before[g] /\ r.created >= DateOf(id)

\* What can be relied on of a listing by pages.
ListingIsFaithful == OnlyTiesAreSkipped /\ RepetitionIsExplained

\* The registry that a caller sees: a creation has returned when its process is
\* through with it, though the server may still have its transaction, and is
\* open while that may have been sent its end.
Registry == INSTANCE UserRegistry WITH
    answer <- outcome,
    returned <- {c \in Creators : pc[c] \in {"gone", "sent", "done"}},
    open <- {c \in Creators : pc[c] = "sent"},
    tasks <- enqueued

\* Transactions, the rows they lock, rollbacks and orphans together behave as
\* one atomic step per creation: its user appears after its task and next to no
\* rival, as the creation returns OK, or once at a later time if its last
\* statement has failed; a refusal names a conflict that was there when it was
\* decided, and no user follows it.  An update, too, has its effect with its OK
\* or later than an error (CreateUserTx inside execTx, CreateUser, UpdateUser).
ImplementsRegistry == Registry!Spec

\* Every creation ends: a row that is waited for is committed or dropped.
CreationsEnd ==
    \A c \in Creators : pc[c] # "idle" ~> pc[c] = "done"

-----------------------------------------------------------------------------
(* The inductive invariant behind the properties of rows and answers.      *)

\* Where a creation is decides what it has, and what has been seen of it.
StepInv ==
    \A c \in Creators :
        /\ c \in Direct => pc[c] \in {"idle", "sent", "done"}
        /\ pc[c] # "idle" => row[c].id = c /\ row[c].ens = Null
        /\ pc[c] = "idle" => row[c] = NoRow
        /\ pc[c] = "commit" => c \in enqueued
        /\ pc[c] = "sent" => /\ outcome[c] = "Error"
                             /\ c \in Direct \/ c \in enqueued \cap pending
        /\ c \in enqueued => pc[c] \notin {"idle", "insert", "afterCreate"}
        /\ pc[c] \in {"afterCreate", "commit"} => c \in pending
        /\ c \in pending => pc[c] \notin {"idle", "insert", "done"}
        /\ c \in pending => c \notin Direct
        /\ Created(c) => pc[c] = "done"
        /\ outcome[c] # "none" <=>
              pc[c] \in {"rollback", "gone", "sent", "done"}
        /\ outcome[c] = "OK" => pc[c] = "done"
        /\ outcome[c] \in {"ErrUserAlreadyExists", "ErrGamerTagAlreadyInUse"}
              => c \notin enqueued

\* An inserted row clashes with no other, committed or not.
ClashInv ==
    \A c \in pending :
        /\ \A s \in users : ~Clash(row[c], s)
        /\ \A d \in pending : c = d \/ ~Clash(row[c], row[d])

\* A row keeps the wallet its creation gave it.
WalletInv ==
    \A r \in users : r.id \in Creators => r.wallet = row[r.id].wallet

IndInv ==
    /\ TypeOK
    /\ StepInv
    /\ ClashInv
    /\ WalletInv
    /\ UsersAreUnique
    /\ AnswersAreTrue
    /\ TaskAndUserAgree

-----------------------------------------------------------------------------
(* The inductive invariant behind the listings.                            *)

IdsOf(rows) == {r.id : r \in rows}

\* How many rows are listed before a row of that date which has it alone.
Place(date) == Cardinality({r \in users : r.created > date})

\* A user that came in since g began may have put off the one with this id.
PutOff(g, id) == \E r \in users : r.id \notin before[g] /\ r.created >= DateOf(id)

\* Between two pages of a listing, a row that has its date alone has been shown
\* or lies ahead, and has not been shown if it lies ahead and was not put off.
PagerInv(g) ==
    /\ before[g] \cup seen[g] \subseteq IdsOf(users)
    /\ twice[g] \subseteq seen[g]
    /\ offset[g] = 0 => before[g] = {} /\ seen[g] = {}
    /\ offset[g] > 0 =>
        /\ \A id \in before[g] :
              id \in seen[g] \/ Tied(id) \/ Place(DateOf(id)) >= offset[g]
        /\ \A id \in seen[g] :
              Tied(id) \/ PutOff(g, id) \/ Place(DateOf(id)) < offset[g]
    /\ offset[g] = -1 => \A id \in before[g] : id \in seen[g] \/ Tied(id)
    /\ \A id \in twice[g] : Tied(id) \/ PutOff(g, id)

ListingInv == IsFiniteSet(users) /\ \A g \in Pagers : PagerInv(g)
=============================================================================
