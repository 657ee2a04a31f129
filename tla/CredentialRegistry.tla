-------------------------- MODULE CredentialRegistry --------------------------
(***************************************************************************)
(* What handleCredentialAndSession promises, without connections,          *)
(* transactions or partial steps: a call decides its answer and changes    *)
(* the tables in one step, and an answer may fail to arrive.  Only a call  *)
(* that was told of an error, or of nothing, may have its change made at a *)
(* later time.  A call changes the tables at most once.  A first login     *)
(* adds the credential and the session together.                           *)
(*                                                                         *)
(* CredentialStore implements this specification.                          *)
(***************************************************************************)
CONSTANTS Calls, Users, Addresses, AfterCreates, Provisioned

VARIABLES
    request,     \* request[c]: the user, the address and the callback of c
    answer,      \* answer[c]: what c has decided to answer
    answered,    \* calls that have ended
    open,        \* failed calls whose change may still be made
    credentials, \* rows of credentials
    sessions     \* rows of sessions

vars == << request, answer, answered, open, credentials, sessions >>

Init ==
    /\ request \in [Calls -> [user : Users, addr : Addresses,
                              afterCreate : AfterCreates]]
    /\ answer = [c \in Calls |-> "none"]
    /\ answered = {}
    /\ open = {}
    /\ credentials = Provisioned
    /\ sessions = {}

-----------------------------------------------------------------------------
Owned(c) == [by |-> c, user |-> request[c].user, addr |-> request[c].addr]

UserKnown(c) == \E r \in credentials : r.user = request[c].user
AddrKnown(c) == \E r \in credentials : r.addr = request[c].addr
PairKnown(c) ==
    \E r \in credentials :
        r.user = request[c].user /\ r.addr = request[c].addr

Answer(c, status) ==
    /\ answer[c] = "none"
    /\ c \notin answered
    /\ answer' = [answer EXCEPT ![c] = status]
    /\ UNCHANGED << request, answered >>

\* A wallet that is registered for its user gets a session.
OpenSession(c) ==
    /\ PairKnown(c)
    /\ sessions' = sessions \cup {Owned(c)}
    /\ UNCHANGED credentials

\* A user and a wallet that are both unknown are registered, by the handler
\* together with a session.
Register(c) ==
    /\ ~UserKnown(c)
    /\ ~AddrKnown(c)
    /\ credentials' = credentials \cup {Owned(c)}
    /\ sessions' = IF request[c].afterCreate = "newSession"
                   THEN sessions \cup {Owned(c)}
                   ELSE sessions

Change(c) == OpenSession(c) \/ Register(c)

Succeed(c) == Change(c) /\ Answer(c, "OK") /\ UNCHANGED open

\* A refusal is true when it is decided, and changes nothing.
Refuse(c) ==
    /\ \/ UserKnown(c) /\ Answer(c, "AlreadyExists")
       \/ AddrKnown(c) /\ Answer(c, "AlreadyExists")
       \/ AddrKnown(c) /\ ~PairKnown(c) /\ Answer(c, "PermissionDenied")
    /\ UNCHANGED << open, credentials, sessions >>

\* An error leaves the tables as they are, and may leave the change open.
Fail(c) ==
    /\ Answer(c, "Internal")
    /\ open' = open \/ open' = open \cup {c}
    /\ UNCHANGED << credentials, sessions >>

\* An open change is made if the tables then allow it, or is given up.
Late(c) ==
    /\ c \in open
    /\ Change(c)
    /\ open' = open \ {c}
    /\ UNCHANGED << request, answer, answered >>

Abandon(c) ==
    /\ c \in open
    /\ open' = open \ {c}
    /\ UNCHANGED << request, answer, answered, credentials, sessions >>

Deliver(c) ==
    /\ answer[c] # "none"
    /\ c \notin answered
    /\ answered' = answered \cup {c}
    /\ UNCHANGED << request, answer, open, credentials, sessions >>

\* Some calls that have not ended never will: their callers learn nothing, and
\* the change of one that had no answer yet may be open.
Interrupt ==
    \E S \in SUBSET (Calls \ answered) :
        /\ answer' = [c \in Calls |->
                         IF c \in S THEN "Unavailable" ELSE answer[c]]
        /\ answered' = answered \cup S
        /\ \E T \in SUBSET {c \in S : answer[c] = "none"} :
            open' = open \cup T
        /\ UNCHANGED << request, credentials, sessions >>

Next ==
    \/ \E c \in Calls :
        \/ Succeed(c) \/ Refuse(c) \/ Fail(c) \/ Deliver(c)
        \/ Late(c) \/ Abandon(c)
    \/ Interrupt

Spec == Init /\ [][Next]_vars
=============================================================================
