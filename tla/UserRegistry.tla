----------------------------- MODULE UserRegistry -----------------------------
(***************************************************************************)
(* What the store of the users service promises, without transactions,     *)
(* locks or partial steps: a creation writes its user at most once, after  *)
(* the task that announces it and when it returns, or later if it has      *)
(* returned an error that leaves the creation open; a refusal is true when *)
(* it is decided, and may still be lost on its way to the caller.          *)
(*                                                                         *)
(* UsersStore implements this specification.                               *)
(***************************************************************************)
EXTENDS Integers

CONSTANTS Creators, Direct, Updaters, Wallets, Names, Null, Registered, Start

VARIABLES
    now,
    users,    \* the users there are
    row,      \* row[c]: the user that c is to create
    answer,   \* answer[c]: what c has decided to answer
    returned, \* the creations that have ended
    open,     \* failed ones whose user may still be created
    tasks,    \* those that are announced by a task
    updated   \* updated[u]: what the update u returned; "Unknown" is an error
              \* after which it may still have its effect

vars == << now, users, row, answer, returned, open, tasks, updated >>

Ids == Creators \cup {r.id : r \in Registered}
NoRow == [id |-> Null, wallet |-> Null, tag |-> Null, ens |-> Null,
          created |-> 0]

SameName(m, n) == m = n /\ m # Null
SameWallet(r, s) == r.wallet = s.wallet
Clash(r, s) == \/ SameWallet(r, s)
               \/ SameName(r.tag, s.tag)
               \/ SameName(r.ens, s.ens)
Free(r, rows) == \A s \in rows : ~Clash(r, s)

Init ==
    /\ now = Start
    /\ users = Registered
    /\ row = [c \in Creators |-> NoRow]
    /\ answer = [c \in Creators |-> "none"]
    /\ returned = {}
    /\ open = {}
    /\ tasks = {}
    /\ updated = [u \in Updaters |-> "none"]

-----------------------------------------------------------------------------
Rows(c) == [id : {c}, wallet : Wallets, tag : Names \cup {Null}, ens : {Null},
            created : {now}]

Asks(c, r) ==
    /\ row[c] = NoRow
    /\ r \in Rows(c)
    /\ row' = [row EXCEPT ![c] = r]

\* The user that c is for: it was asked for before, or in this very step.
For(c, r) ==
    \/ c \in Direct /\ Asks(c, r)
    \/ c \notin Direct /\ row[c] # NoRow /\ r = row[c] /\ UNCHANGED row

Undecided(c) == answer[c] = "none" /\ c \notin returned
Answers(c, result) == answer' = [answer EXCEPT ![c] = result]
Returns(c) == returned' = returned \cup {c}

Ask(c) ==
    /\ c \notin Direct
    /\ \E r \in Rows(c) : Asks(c, r)
    /\ UNCHANGED << now, users, answer, returned, open, tasks, updated >>

\* A transaction announces its user before anybody can see it.
Announce(c) ==
    /\ Undecided(c)
    /\ c \notin tasks
    /\ row[c] # NoRow
    /\ tasks' = tasks \cup {c}
    /\ UNCHANGED << now, users, row, answer, returned, open, updated >>

\* The user appears with the return of its call, whole and unrivalled.
Create(c) ==
    /\ Undecided(c)
    /\ c \in tasks \cup Direct
    /\ \E r \in Rows(c) \cup {row[c]} :
          /\ For(c, r)
          /\ Free(r, users)
          /\ users' = users \cup {r}
    /\ Answers(c, "OK")
    /\ Returns(c)
    /\ UNCHANGED << now, open, tasks, updated >>

\* A taken wallet is told before a taken tag, and only what is not announced is
\* refused.
Refuse(c) ==
    /\ Undecided(c)
    /\ c \notin tasks
    /\ row[c] # NoRow
    /\ IF \E s \in users : SameWallet(s, row[c])
       THEN Answers(c, "ErrUserAlreadyExists")
       ELSE /\ \E s \in users : SameName(s.tag, row[c].tag)
            /\ Answers(c, "ErrGamerTagAlreadyInUse")
    /\ UNCHANGED << now, users, row, returned, open, tasks, updated >>

\* A failure changes nothing but that its task may be out, or that a creation
\* of one statement is left open.
Fail(c) ==
    /\ Undecided(c)
    /\ \/ row[c] # NoRow /\ UNCHANGED << row, returned, open >>
       \/ /\ c \in Direct
          /\ Returns(c)
          /\ \E r \in Rows(c) : Asks(c, r)
          /\ open' = open \/ open' = open \cup {c}
    /\ Answers(c, "Error")
    /\ tasks' \in {tasks, tasks \cup ({c} \ Direct)}
    /\ UNCHANGED << now, users, updated >>

Return(c) ==
    /\ answer[c] # "none"
    /\ c \notin returned
    /\ Returns(c)
    /\ UNCHANGED << now, users, row, answer, open, tasks, updated >>

\* The caller of c learns no more than that something went wrong, which leaves
\* a creation open that has been announced and not decided.
Interrupt(c) ==
    /\ row[c] # NoRow
    /\ c \notin returned
    /\ Answers(c, "Error")
    /\ Returns(c)
    /\ \/ UNCHANGED open
       \/ Undecided(c) /\ c \in tasks /\ open' = open \cup {c}
    /\ UNCHANGED << now, users, row, tasks, updated >>

\* An open creation writes its user, if that has no rival by then, or is given
\* up.  The user is dated as its transaction, or between its call and now.
Late(c) ==
    /\ c \in open
    /\ \E date \in IF c \in Direct THEN row[c].created..now
                                   ELSE {row[c].created} :
          LET r == [row[c] EXCEPT !.created = date]
          IN  /\ Free(r, users)
              /\ users' = users \cup {r}
              /\ row' = [row EXCEPT ![c] = r]
    /\ open' = open \ {c}
    /\ UNCHANGED << now, answer, returned, tasks, updated >>

Abandon(c) ==
    /\ c \in open
    /\ open' = open \ {c}
    /\ UNCHANGED << now, users, row, answer, returned, tasks, updated >>

\* The user with this id exchanges its names for free ones.
Rename(id) ==
    \E r \in users, tag, ens \in Names \cup {Null} :
        LET new == [r EXCEPT !.tag = tag, !.ens = ens]
        IN  /\ r.id = id
            /\ Free(new, users \ {r})
            /\ users' = (users \ {r}) \cup {new}

Updates(u, result) == updated' = [updated EXCEPT ![u] = result]

\* An update has its effect with its OK, or after an error that leaves it open,
\* or finds no such user.
Update(u, id) ==
    /\ \/ updated[u] = "none" /\ Rename(id) /\ Updates(u, "OK")
       \/ updated[u] = "Unknown" /\ Rename(id) /\ Updates(u, "Error")
       \/ /\ updated[u] = "none"
          /\ \A r \in users : r.id # id
          /\ Updates(u, "NotFound")
          /\ UNCHANGED users
    /\ UNCHANGED << now, row, answer, returned, open, tasks >>

UpdateFails(u) ==
    /\ updated[u] = "none"
    /\ Updates(u, "Error") \/ Updates(u, "Unknown")
    /\ UNCHANGED << now, users, row, answer, returned, open, tasks >>

Tick ==
    /\ now' = now + 1
    /\ UNCHANGED << users, row, answer, returned, open, tasks, updated >>

Next ==
    \/ \E c \in Creators :
        \/ Ask(c) \/ Announce(c) \/ Create(c) \/ Refuse(c) \/ Fail(c)
        \/ Return(c) \/ Interrupt(c) \/ Late(c) \/ Abandon(c)
    \/ \E u \in Updaters, id \in Ids : Update(u, id)
    \/ \E u \in Updaters : UpdateFails(u)
    \/ Tick

Spec == Init /\ [][Next]_vars
=============================================================================
