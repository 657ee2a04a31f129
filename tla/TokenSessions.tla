---------------------------- MODULE TokenSessions ----------------------------
(***************************************************************************)
(* What becomes of a session after the login that opened it: the tokens    *)
(* that NewSession makes for it, RefreshAccessToken, RevokeRefreshTokens   *)
(* and VerifyAccessToken.                                                  *)
(*                                                                         *)
(* A token is the record its payload holds: whoever has one can present    *)
(* it, and it is valid until it expires whatever the tables say.  A        *)
(* session has the id of its refresh token, here the login that opened it. *)
(* Calls advance one database statement at a time, and time may pass at    *)
(* any point.  RevokeSessions is two steps: the rows are selected from a   *)
(* snapshot and each is tested again under its lock before it is changed.  *)
(* The role and the wallet address of a token decide nothing here and are  *)
(* left out.  A statement whose answer is lost is assumed to take effect   *)
(* while its call is under way, or not at all.                             *)
(***************************************************************************)
EXTENDS Naturals

CONSTANTS
    Logins,          \* executions of NewSession, and their sessions
    Refreshes,       \* executions of RefreshAccessToken
    Revokes,         \* executions of RevokeRefreshTokens
    Verifies,        \* executions of VerifyAccessToken
    Users,
    NoToken,         \* a missing, malformed or undecipherable bearer token
    AccessDuration,  \* AccessTokenDuration
    RefreshDuration, \* RefreshTokenDuration
    MaxTime          \* bound of the clock

\* The calls that use the payload of the token they were authorised with.
Holders == Refreshes \cup Verifies
Calls == Logins \cup Holders \cup Revokes

ASSUME KindsAssumption ==
    /\ Logins \cap (Holders \cup Revokes) = {}
    /\ Revokes \cap Holders = {}
    /\ Refreshes \cap Verifies = {}
ASSUME DurationAssumption ==
    AccessDuration \in Nat /\ RefreshDuration \in Nat /\ MaxTime \in Nat

VARIABLES
    now,
    user,           \* user[c]: the user c logs in, or names in its request
    pc,             \* pc[c]: the operation c performs next, or its outcome
    madeAt,         \* madeAt[l]: when the tokens of login l were made
    tokens,         \* tokens that were handed out
    session,        \* session[l]: the row of l in sessions
    revokedAt,      \* revokedAt[l]: when it was revoked
    token,          \* token[c]: the token that c, a holder, was authorised with
    authorizedAt,   \* authorizedAt[c]: when
    revokedBefore,  \* revokedBefore[r]: sessions revoked when r was authorised
    loggedInBefore, \* loggedInBefore[k]: logins done when k was authorised
    matched,        \* matched[k]: rows selected by the update of k
    counted         \* counted[k]: rows it changed

history == << authorizedAt, revokedBefore, loggedInBefore >>
rows == << session, revokedAt >>
vars == << now, user, pc, madeAt, tokens, session, revokedAt, token,
           authorizedAt, revokedBefore, loggedInBefore, matched, counted >>

InProgress == {"insert", "read", "issue", "select", "update"}
Steps == {"idle", "ok", "denied", "failed"} \cup InProgress

\* The payload of a token; session is the login it descends from.
Payload(by, type, l, u, at, duration) ==
    [by |-> by, type |-> type, session |-> l, user |-> u,
     issuedAt |-> at, expiresAt |-> at + duration]

\* A login yields a token of each type, a refresh an access token.
Tokens ==
    [by : Logins, type : {"access", "refresh"}, session : Logins,
     user : Users, issuedAt : Nat, expiresAt : Nat]
    \cup
    [by : Refreshes, type : {"access"}, session : Logins,
     user : Users, issuedAt : Nat, expiresAt : Nat]

TypeOK ==
    /\ now \in Nat
    /\ user \in [Calls -> Users]
    /\ pc \in [Calls -> Steps]
    /\ madeAt \in [Logins -> Nat]
    /\ tokens \subseteq Tokens
    /\ session \in [Logins -> {"none", "active", "revoked"}]
    /\ revokedAt \in [Logins -> Nat]
    /\ token \in [Holders -> Tokens \cup {NoToken}]
    /\ authorizedAt \in [Holders -> Nat]
    /\ revokedBefore \in [Refreshes -> SUBSET Logins]
    /\ loggedInBefore \in [Revokes -> SUBSET Logins]
    /\ matched \in [Revokes -> SUBSET Logins]
    /\ counted \in [Revokes -> SUBSET Logins]

Init ==
    /\ now = 0
    /\ user \in [Calls -> Users]
    /\ pc = [c \in Calls |-> "idle"]
    /\ madeAt = [l \in Logins |-> 0]
    /\ tokens = {}
    /\ session = [l \in Logins |-> "none"]
    /\ revokedAt = [l \in Logins |-> 0]
    /\ token = [c \in Holders |-> NoToken]
    /\ authorizedAt = [c \in Holders |-> 0]
    /\ revokedBefore = [r \in Refreshes |-> {}]
    /\ loggedInBefore = [k \in Revokes |-> {}]
    /\ matched = [k \in Revokes |-> {}]
    /\ counted = [k \in Revokes |-> {}]

GoTo(c, step) == pc' = [pc EXCEPT ![c] = step]

-----------------------------------------------------------------------------
(* AuthorizeToken.                                                         *)

\* The token was made by this service and has not expired, is of the type the
\* handler asks for, and belongs to the user of the request.  The variants
\* leave out one of the last two.
Fresh(t) == now <= t.expiresAt

TypeUnchecked(t, type) == TRUE
TypeMatches(t, type) == t.type = type

OwnerUnchecked(c, t) == TRUE
OwnerMatches(c, t) == t.user = user[c]

Authorized(c, t, type) ==
    /\ t # NoToken
    /\ Fresh(t)
    /\ TypeMatches(t, type)
    /\ OwnerMatches(c, t)

\* The caller presents a token it was handed, or none that can be read.
Authorize(c, t, type, next) ==
    /\ pc[c] = "idle"
    /\ GoTo(c, IF Authorized(c, t, type) THEN next ELSE "denied")

\* The handler goes on with the payload of the token.
KeepPayload(c, t, type) ==
    IF Authorized(c, t, type)
    THEN /\ token' = [token EXCEPT ![c] = t]
         /\ authorizedAt' = [authorizedAt EXCEPT ![c] = now]
    ELSE UNCHANGED << token, authorizedAt >>

-----------------------------------------------------------------------------
(* NewSession.                                                             *)

MakeTokens(l) ==
    /\ pc[l] = "idle"
    /\ madeAt' = [madeAt EXCEPT ![l] = now]
    /\ GoTo(l, "insert")
    /\ UNCHANGED << now, user, tokens, rows, token, history, matched, counted >>

NewTokens(l) ==
    { Payload(l, "access", l, user[l], madeAt[l], AccessDuration),
      Payload(l, "refresh", l, user[l], madeAt[l], RefreshDuration) }

CreateSession(l) ==
    /\ pc[l] = "insert"
    /\ session' = [session EXCEPT ![l] = "active"]
    /\ tokens' = tokens \cup NewTokens(l)
    /\ GoTo(l, "ok")
    /\ UNCHANGED << now, user, madeAt, revokedAt, token, history,
                    matched, counted >>

\* The row is inserted and the answer lost: nobody is handed the tokens.
CreateSessionLost(l) ==
    /\ pc[l] = "insert"
    /\ session' = [session EXCEPT ![l] = "active"]
    /\ GoTo(l, "failed")
    /\ UNCHANGED << now, user, madeAt, tokens, revokedAt, token, history,
                    matched, counted >>

Login(l) == MakeTokens(l) \/ CreateSession(l) \/ CreateSessionLost(l)

-----------------------------------------------------------------------------
(* RefreshAccessToken.                                                     *)

AuthorizeRefresh(r) ==
    /\ \E t \in tokens \cup {NoToken} :
        /\ Authorize(r, t, "refresh", "read")
        /\ KeepPayload(r, t, "refresh")
    /\ revokedBefore' = [revokedBefore EXCEPT ![r] =
                            {l \in Logins : session[l] = "revoked"}]
    /\ UNCHANGED << now, user, madeAt, tokens, rows, loggedInBefore,
                    matched, counted >>

\* GetSessionById with the id of the token: only a refresh token's is one.
SessionExists(t) == t.type = "refresh" /\ session[t.by] # "none"

\* The variant does not look at is_revoked.
RevocationUnseen(t) == FALSE
IsRevoked(t) == session[t.by] = "revoked"

ReadSession(r) ==
    /\ pc[r] = "read"
    /\ \/ ~SessionExists(token[r]) /\ GoTo(r, "failed")
       \/ SessionExists(token[r]) /\ IsRevoked(token[r]) /\ GoTo(r, "denied")
       \/ SessionExists(token[r]) /\ ~IsRevoked(token[r]) /\ GoTo(r, "issue")
    /\ UNCHANGED << now, user, madeAt, tokens, rows, token, history,
                    matched, counted >>

\* The token a refresh makes; in the variant it lives as long as a refresh
\* token.
LongAccessToken(r) ==
    Payload(r, "access", token[r].session, user[r], now, RefreshDuration)
NewAccessToken(r) ==
    Payload(r, "access", token[r].session, user[r], now, AccessDuration)

IssueAccessToken(r) ==
    /\ pc[r] = "issue"
    /\ tokens' = tokens \cup {NewAccessToken(r)}
    /\ GoTo(r, "ok")
    /\ UNCHANGED << now, user, madeAt, rows, token, history, matched, counted >>

Refresh(r) == AuthorizeRefresh(r) \/ ReadSession(r) \/ IssueAccessToken(r)

-----------------------------------------------------------------------------
(* RevokeRefreshTokens and VerifyAccessToken.                              *)

AuthorizeRevoke(k) ==
    /\ \E t \in tokens \cup {NoToken} : Authorize(k, t, "access", "select")
    /\ loggedInBefore' = [loggedInBefore EXCEPT ![k] =
                             {l \in Logins : pc[l] = "ok"}]
    /\ UNCHANGED << now, user, madeAt, tokens, rows, token, authorizedAt,
                    revokedBefore, matched, counted >>

\* The WHERE clause of RevokeSessions; the variant spares the sessions
\* that have expired.
SelectsUnexpired(k, l) ==
    /\ user[l] = user[k]
    /\ session[l] = "active"
    /\ now <= madeAt[l] + RefreshDuration
Selects(k, l) == user[l] = user[k] /\ session[l] = "active"

SelectSessions(k) ==
    /\ pc[k] = "select"
    /\ matched' = [matched EXCEPT ![k] = {l \in Logins : Selects(k, l)}]
    /\ GoTo(k, "update")
    /\ UNCHANGED << now, user, madeAt, tokens, rows, token, history, counted >>

\* Rows that another revocation has changed meanwhile are tested again and
\* skipped; the variant counts them again.
AllMatched(k) == matched[k]
StillActive(k) == {l \in matched[k] : session[l] = "active"}

RevokeRows(k) ==
    /\ pc[k] = "update"
    /\ session' = [l \in Logins |->
                      IF l \in StillActive(k) THEN "revoked" ELSE session[l]]
    /\ revokedAt' = [l \in Logins |->
                        IF l \in StillActive(k) THEN now ELSE revokedAt[l]]

RevokeSessions(k) ==
    /\ RevokeRows(k)
    /\ counted' = [counted EXCEPT ![k] = StillActive(k)]
    /\ GoTo(k, "ok")
    /\ UNCHANGED << now, user, madeAt, tokens, token, history, matched >>

RevokeSessionsLost(k) ==
    /\ RevokeRows(k)
    /\ GoTo(k, "failed")
    /\ UNCHANGED << now, user, madeAt, tokens, token, history,
                    matched, counted >>

Revoke(k) ==
    AuthorizeRevoke(k) \/ SelectSessions(k) \/ RevokeSessions(k)
        \/ RevokeSessionsLost(k)

Verify(v) ==
    /\ \E t \in tokens \cup {NoToken} :
        /\ Authorize(v, t, "access", "ok")
        /\ KeepPayload(v, t, "access")
    /\ UNCHANGED << now, user, madeAt, tokens, rows, revokedBefore,
                    loggedInBefore, matched, counted >>

-----------------------------------------------------------------------------
(* Errors, the clock, and the end of the process.                          *)

\* A statement fails without effect, or a token cannot be made.
CallFails(c) ==
    /\ pc[c] \in InProgress
    /\ GoTo(c, "failed")
    /\ UNCHANGED << now, user, madeAt, tokens, rows, token, history,
                    matched, counted >>

Tick ==
    /\ now < MaxTime
    /\ now' = now + 1
    /\ UNCHANGED << user, pc, madeAt, tokens, rows, token, history,
                    matched, counted >>

Crash ==
    /\ \E c \in Calls : pc[c] \in InProgress
    /\ pc' = [c \in Calls |-> IF pc[c] \in InProgress THEN "failed" ELSE pc[c]]
    /\ UNCHANGED << now, user, madeAt, tokens, rows, token, history,
                    matched, counted >>

\* No call is under way and the clock is at its bound.
Terminated ==
    /\ \A c \in Calls : pc[c] \in {"idle", "ok", "denied", "failed"}
    /\ now = MaxTime
    /\ UNCHANGED vars

Next ==
    \/ \E l \in Logins : Login(l)
    \/ \E r \in Refreshes : Refresh(r)
    \/ \E k \in Revokes : Revoke(k)
    \/ \E v \in Verifies : Verify(v)
    \/ \E c \in Calls : CallFails(c)
    \/ Tick
    \/ Crash
    \/ Terminated

Spec == Init /\ [][Next]_vars

-----------------------------------------------------------------------------
(* Properties.                                                             *)

\* However many refreshes lie between, a token that was handed out belongs to
\* the user whose login opened the session it descends from, and its row is
\* still there (AuthorizeToken in each handler, GetSessionById).
TokensDescendFromLogins ==
    \A t \in tokens :
        t.user = user[t.session] /\ session[t.session] # "none"

\* A refresh that was authorised after its session had been revoked, or after
\* the refresh token had expired, never yields a token, however late it reads
\* and answers.  (One that was authorised before may: is_revoked is read once.)
RefreshNeedsLiveSession ==
    \A r \in Refreshes :
        pc[r] = "ok" =>
            /\ token[r].session \notin revokedBefore[r]
            /\ authorizedAt[r] <= madeAt[token[r].session] + RefreshDuration

\* Once a session is revoked its access tokens run out: those that outlive the
\* revocation by more than AccessDuration were made by refreshes that were in
\* progress at that moment (is_revoked is read once, and no later handler reads
\* it for an access token).
AccessEndsAfterRevocation ==
    \A t \in tokens :
        /\ t.type = "access"
        /\ session[t.session] = "revoked"
        /\ t.expiresAt > revokedAt[t.session] + AccessDuration
        => /\ t.by \in Refreshes
           /\ authorizedAt[t.by] <= revokedAt[t.session]
           /\ revokedAt[t.session] <= t.issuedAt

\* A revocation that answered OK leaves no session open of those its user had
\* been handed before: all of them are revoked, whoever revoked them.
RevokeReachesEverySession ==
    \A k \in Revokes :
        pc[k] = "ok" =>
            \A l \in loggedInBefore[k] :
                user[l] = user[k] => session[l] = "revoked"

\* NumSessionsRevoked of racing revocations counts no session twice, and only
\* the caller's own sessions.
SessionCountedOnce ==
    \A k \in Revokes :
        \A l \in counted[k] :
            /\ session[l] = "revoked"
            /\ user[l] = user[k]
            /\ \A m \in Revokes \ {k} : l \notin counted[m]

\* VerifyAccessToken accepts nothing for longer than AccessDuration after it
\* was made, and so no refresh token either.
AcceptedBriefly ==
    \A v \in Verifies :
        pc[v] = "ok" =>
            authorizedAt[v] <= token[v].issuedAt + AccessDuration

-----------------------------------------------------------------------------
(* The inductive invariant behind these properties.                        *)

\* The row of a login appears with its insertion and is revoked later.
SessionInv ==
    \A l \in Logins :
        /\ madeAt[l] <= now
        /\ pc[l] \in {"idle", "insert"} => session[l] = "none"
        /\ pc[l] = "ok" => session[l] # "none"
        /\ session[l] = "revoked" =>
            madeAt[l] <= revokedAt[l] /\ revokedAt[l] <= now

\* Where a token came from and when it expires.
TokenInv ==
    \A t \in tokens :
        /\ t.type = "refresh" =>
            t.expiresAt = madeAt[t.session] + RefreshDuration
        /\ t.type = "access" => t.expiresAt = t.issuedAt + AccessDuration
        /\ t.by \in Logins =>
            t.by = t.session /\ t.issuedAt = madeAt[t.session]
        /\ t.by \in Refreshes =>
            pc[t.by] = "ok" /\ t.session = token[t.by].session

\* A call that was authorised has a token that was valid, of its type and of
\* its user.
HolderInv ==
    \A c \in Holders :
        pc[c] \in {"read", "issue", "ok"} =>
            /\ token[c] \in tokens
            /\ token[c].user = user[c]
            /\ token[c].type = IF c \in Refreshes THEN "refresh" ELSE "access"
            /\ authorizedAt[c] <= token[c].expiresAt
            /\ authorizedAt[c] <= now

\* A refresh past its read of the session, and one that a revocation overtook.
RefreshInv ==
    \A r \in Refreshes :
        /\ pc[r] \in {"issue", "ok"} => token[r].session \notin revokedBefore[r]
        /\ /\ pc[r] \in {"read", "issue", "ok"}
           /\ session[token[r].session] = "revoked"
           => \/ token[r].session \in revokedBefore[r]
              \/ authorizedAt[r] <= revokedAt[token[r].session]
        /\ \A l \in revokedBefore[r] : session[l] = "revoked"

\* What a revocation is about to change covers what it has promised.
RevokeInv ==
    \A k \in Revokes :
        /\ \A l \in loggedInBefore[k] : session[l] # "none"
        /\ \A l \in matched[k] : session[l] # "none" /\ user[l] = user[k]
        /\ pc[k] = "update" =>
            \A l \in loggedInBefore[k] :
                user[l] = user[k] => l \in matched[k] \/ session[l] = "revoked"
        /\ pc[k] # "ok" => counted[k] = {}

IndInv ==
    /\ TypeOK
    /\ SessionInv
    /\ TokenInv
    /\ HolderInv
    /\ RefreshInv
    /\ RevokeInv
    /\ TokensDescendFromLogins
    /\ RevokeReachesEverySession
    /\ SessionCountedOnce
=============================================================================
