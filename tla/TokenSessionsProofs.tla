------------------------ MODULE TokenSessionsProofs ------------------------
(***************************************************************************)
(* Proofs about TokenSessions: tokens descend from logins, dead sessions   *)
(* are not refreshed, revocations are complete and count each session once *)
(* and access tokens run out after a revocation, for any number of calls   *)
(* and users, any durations and any clock.                                 *)
(***************************************************************************)
EXTENDS TokenSessions, TLAPS

USE DEF Calls, Holders, Steps, InProgress, GoTo, rows, history

-----------------------------------------------------------------------------
(* One lemma for each action: it preserves the invariant.  Each lists the  *)
(* conjuncts the action disturbs before those that it does not.            *)

\* The tokens of a login are made before it has a row, or anybody its tokens.
LEMMA MakeTokensStep ==
    ASSUME IndInv, NEW l \in Logins, MakeTokens(l)
    PROVE  IndInv'
  <1> USE KindsAssumption, DurationAssumption DEF IndInv
  <1>1. TypeOK'
    BY DEF TypeOK, MakeTokens
  <1>2. TokenInv'
    BY DEF TokenInv, SessionInv, TokensDescendFromLogins, MakeTokens
  <1>3. SessionInv' /\ HolderInv' /\ RefreshInv' /\ RevokeInv' /\
       TokensDescendFromLogins' /\ RevokeReachesEverySession' /\
       SessionCountedOnce'
    BY DEF SessionInv, HolderInv, RefreshInv, RevokeInv,
           TokensDescendFromLogins, RevokeReachesEverySession,
           SessionCountedOnce, TypeOK, MakeTokens
  <1> QED
    BY <1>1, <1>2, <1>3

\* A new row is active, and its tokens are those of its own login.
LEMMA CreateSessionStep ==
    ASSUME IndInv, NEW l \in Logins, CreateSession(l)
    PROVE  IndInv'
  <1> USE KindsAssumption, DurationAssumption DEF IndInv
  <1>1. TypeOK'
    BY DEF TypeOK, Tokens, CreateSession, NewTokens, Payload
  <1>2. TokenInv'
    BY DEF TokenInv, CreateSession, NewTokens, Payload
  <1>3. RefreshInv'
    BY DEF RefreshInv, SessionInv, CreateSession
  <1>4. RevokeInv'
    BY DEF RevokeInv, SessionInv, CreateSession
  <1>5. TokensDescendFromLogins'
    BY DEF TokensDescendFromLogins, TypeOK, CreateSession, NewTokens, Payload
  <1>6. RevokeReachesEverySession'
    BY DEF RevokeReachesEverySession, SessionInv, CreateSession
  <1>7. SessionCountedOnce'
    BY DEF SessionCountedOnce, SessionInv, CreateSession
  <1>8. SessionInv' /\ HolderInv'
    BY DEF SessionInv, HolderInv, TypeOK, CreateSession
  <1> QED
    BY <1>1, <1>2, <1>3, <1>4, <1>5, <1>6, <1>7, <1>8

\* A row whose tokens nobody has.
LEMMA CreateSessionLostStep ==
    ASSUME IndInv, NEW l \in Logins, CreateSessionLost(l)
    PROVE  IndInv'
  <1> USE KindsAssumption, DurationAssumption DEF IndInv
  <1>1. TypeOK'
    BY DEF TypeOK, CreateSessionLost
  <1>2. RefreshInv'
    BY DEF RefreshInv, SessionInv, CreateSessionLost
  <1>3. RevokeInv'
    BY DEF RevokeInv, SessionInv, CreateSessionLost
  <1>4. RevokeReachesEverySession'
    BY DEF RevokeReachesEverySession, SessionInv, CreateSessionLost
  <1>5. SessionCountedOnce'
    BY DEF SessionCountedOnce, SessionInv, CreateSessionLost
  <1>6. SessionInv' /\ TokenInv' /\ HolderInv' /\ TokensDescendFromLogins'
    BY DEF SessionInv, TokenInv, HolderInv, TokensDescendFromLogins, TypeOK,
           CreateSessionLost
  <1> QED
    BY <1>1, <1>2, <1>3, <1>4, <1>5, <1>6

\* A refresh is authorised with a fresh refresh token of its user, and notes the
\* sessions that are revoked by then.
LEMMA AuthorizeRefreshStep ==
    ASSUME IndInv, NEW r \in Refreshes, AuthorizeRefresh(r)
    PROVE  IndInv'
  <1> USE KindsAssumption, DurationAssumption DEF IndInv
  <1>1. TypeOK'
    BY DEF TypeOK, AuthorizeRefresh, Authorize, KeepPayload, OwnerMatches
  <1>2. HolderInv'
    BY DEF HolderInv, TypeOK, AuthorizeRefresh, Authorize, KeepPayload,
           Authorized, Fresh, TypeMatches, OwnerMatches
  <1>3. RefreshInv'
    BY DEF RefreshInv, TypeOK, Tokens, AuthorizeRefresh, Authorize,
           KeepPayload, Authorized
  <1>4. SessionInv' /\ TokenInv' /\ TokensDescendFromLogins'
    BY DEF SessionInv, TokenInv, TokensDescendFromLogins, AuthorizeRefresh,
           Authorize, TypeOK, KeepPayload
  <1>5. RevokeInv' /\ RevokeReachesEverySession' /\ SessionCountedOnce'
    BY DEF RevokeInv, RevokeReachesEverySession, SessionCountedOnce,
           AuthorizeRefresh, Authorize, TypeOK, KeepPayload
  <1> QED
    BY <1>1, <1>2, <1>3, <1>4, <1>5

\* A refresh goes on only if its session was not revoked when it was authorised.
LEMMA ReadSessionStep ==
    ASSUME IndInv, NEW r \in Refreshes, ReadSession(r)
    PROVE  IndInv'
  <1> USE KindsAssumption, DurationAssumption DEF IndInv
  <1>1. TypeOK'
    BY DEF TypeOK, ReadSession
  <1>2. RefreshInv'
    BY DEF RefreshInv, TypeOK, Tokens, HolderInv, TokenInv, ReadSession,
           IsRevoked
  <1>3. SessionInv' /\ TokenInv' /\ TokensDescendFromLogins'
    BY DEF SessionInv, TokenInv, TokensDescendFromLogins, TypeOK, ReadSession
  <1>4. HolderInv'
    BY DEF HolderInv, TypeOK, ReadSession
  <1>5. RevokeInv' /\ RevokeReachesEverySession' /\ SessionCountedOnce'
    BY DEF RevokeInv, RevokeReachesEverySession, SessionCountedOnce, TypeOK,
           ReadSession
  <1> QED
    BY <1>1, <1>2, <1>3, <1>4, <1>5

\* A refreshed token descends from the session that was read.
LEMMA IssueAccessTokenStep ==
    ASSUME IndInv, NEW r \in Refreshes, IssueAccessToken(r)
    PROVE  IndInv'
  <1> USE KindsAssumption, DurationAssumption DEF IndInv
  <1>1. TypeOK'
    <2>1. token[r] \in tokens /\ token[r].session \in Logins
      BY DEF TypeOK, Tokens, HolderInv, IssueAccessToken
    <2>2. NewAccessToken(r) \in Tokens
      BY <2>1 DEF TypeOK, Tokens, NewAccessToken, Payload
    <2> QED
      BY <2>2 DEF TypeOK, IssueAccessToken
  <1>2. TokenInv'
    BY DEF TokenInv, TypeOK, IssueAccessToken, NewAccessToken, Payload
  <1>3. TokensDescendFromLogins'
    BY DEF TokensDescendFromLogins, HolderInv, IssueAccessToken,
           NewAccessToken, Payload
  <1>4. SessionInv' /\ HolderInv' /\ RefreshInv' /\ RevokeInv' /\
       RevokeReachesEverySession' /\ SessionCountedOnce'
    BY DEF SessionInv, HolderInv, RefreshInv, RevokeInv,
           RevokeReachesEverySession, SessionCountedOnce, IssueAccessToken
  <1> QED
    BY <1>1, <1>2, <1>3, <1>4

\* The sessions of the logins that are done have rows.
LEMMA AuthorizeRevokeStep ==
    ASSUME IndInv, NEW k \in Revokes, AuthorizeRevoke(k)
    PROVE  IndInv'
  <1> USE KindsAssumption, DurationAssumption DEF IndInv
  <1>1. TypeOK'
    BY DEF TypeOK, AuthorizeRevoke, Authorize
  <1>2. RevokeInv'
    BY DEF RevokeInv, SessionInv, AuthorizeRevoke, Authorize
  <1>3. SessionInv' /\ TokenInv' /\ HolderInv' /\ RefreshInv' /\
       TokensDescendFromLogins' /\ RevokeReachesEverySession' /\
       SessionCountedOnce'
    BY DEF SessionInv, TokenInv, HolderInv, RefreshInv,
           TokensDescendFromLogins, RevokeReachesEverySession,
           SessionCountedOnce, AuthorizeRevoke, Authorize
  <1> QED
    BY <1>1, <1>2, <1>3

\* The update selects every active session of the user.
LEMMA SelectSessionsStep ==
    ASSUME IndInv, NEW k \in Revokes, SelectSessions(k)
    PROVE  IndInv'
  <1> USE KindsAssumption, DurationAssumption DEF IndInv
  <1>1. TypeOK'
    BY DEF TypeOK, SelectSessions
  <1>2. RevokeInv'
    BY DEF RevokeInv, TypeOK, SelectSessions, Selects
  <1>3. SessionInv' /\ TokenInv' /\ HolderInv' /\ RefreshInv' /\
       TokensDescendFromLogins' /\ RevokeReachesEverySession' /\
       SessionCountedOnce'
    BY DEF SessionInv, TokenInv, HolderInv, RefreshInv,
           TokensDescendFromLogins, RevokeReachesEverySession,
           SessionCountedOnce, SelectSessions
  <1> QED
    BY <1>1, <1>2, <1>3

\* What was selected is revoked, by this call or by another, and counted by the
\* call that revokes it.
LEMMA RevokeSessionsStep ==
    ASSUME IndInv, NEW k \in Revokes, RevokeSessions(k)
    PROVE  IndInv'
  <1> USE KindsAssumption, DurationAssumption DEF IndInv
  <1>1. TypeOK'
    BY DEF TypeOK, RevokeSessions, RevokeRows, StillActive
  <1>2. SessionInv'
    BY DEF SessionInv, TypeOK, RevokeSessions, RevokeRows, StillActive
  <1>3. RefreshInv'
    BY DEF RefreshInv, TypeOK, Tokens, HolderInv, RevokeSessions, RevokeRows
  <1>4. RevokeInv'
    BY DEF RevokeInv, TypeOK, RevokeSessions, RevokeRows
  <1>5. TokensDescendFromLogins'
    BY DEF TokensDescendFromLogins, TypeOK, Tokens, RevokeSessions, RevokeRows
  <1>6. RevokeReachesEverySession'
    BY DEF RevokeReachesEverySession, TypeOK, RevokeInv, RevokeSessions,
           RevokeRows, StillActive
  <1>7. SessionCountedOnce'
    BY DEF SessionCountedOnce, TypeOK, RevokeInv, RevokeSessions, RevokeRows,
           StillActive
  <1>8. TokenInv' /\ HolderInv'
    BY DEF TokenInv, HolderInv, RevokeSessions
  <1> QED
    BY <1>1, <1>2, <1>3, <1>4, <1>5, <1>6, <1>7, <1>8

\* A revocation whose answer is lost counts nothing.
LEMMA RevokeSessionsLostStep ==
    ASSUME IndInv, NEW k \in Revokes, RevokeSessionsLost(k)
    PROVE  IndInv'
  <1> USE KindsAssumption, DurationAssumption DEF IndInv
  <1>1. TypeOK'
    BY DEF TypeOK, RevokeSessionsLost, RevokeRows
  <1>2. SessionInv'
    BY DEF SessionInv, TypeOK, RevokeSessionsLost, RevokeRows, StillActive
  <1>3. RefreshInv'
    BY DEF RefreshInv, TypeOK, Tokens, HolderInv, RevokeSessionsLost,
           RevokeRows
  <1>4. RevokeInv'
    BY DEF RevokeInv, TypeOK, RevokeSessionsLost, RevokeRows
  <1>5. TokensDescendFromLogins'
    BY DEF TokensDescendFromLogins, TypeOK, Tokens, RevokeSessionsLost,
           RevokeRows
  <1>6. RevokeReachesEverySession'
    BY DEF RevokeReachesEverySession, TypeOK, RevokeSessionsLost, RevokeRows
  <1>7. SessionCountedOnce'
    BY DEF SessionCountedOnce, TypeOK, RevokeSessionsLost, RevokeRows
  <1>8. TokenInv' /\ HolderInv'
    BY DEF TokenInv, HolderInv, RevokeSessionsLost
  <1> QED
    BY <1>1, <1>2, <1>3, <1>4, <1>5, <1>6, <1>7, <1>8

\* A verification is authorised with a fresh access token of its user.
LEMMA VerifyStep ==
    ASSUME IndInv, NEW v \in Verifies, Verify(v)
    PROVE  IndInv'
  <1> USE KindsAssumption, DurationAssumption DEF IndInv
  <1>1. TypeOK'
    BY DEF TypeOK, Verify, Authorize, KeepPayload
  <1>2. HolderInv'
    BY DEF HolderInv, TypeOK, Verify, Authorize, KeepPayload, Authorized,
           Fresh, TypeMatches, OwnerMatches
  <1>3. SessionInv' /\ TokenInv' /\ RefreshInv' /\ RevokeInv' /\
       TokensDescendFromLogins' /\ RevokeReachesEverySession' /\
       SessionCountedOnce'
    BY DEF SessionInv, TokenInv, RefreshInv, RevokeInv,
           TokensDescendFromLogins, RevokeReachesEverySession,
           SessionCountedOnce, Verify, Authorize, TypeOK, KeepPayload
  <1> QED
    BY <1>1, <1>2, <1>3

\* A call that fails changes no row and hands out no token.
LEMMA CallFailsStep ==
    ASSUME IndInv, NEW c \in Calls, CallFails(c)
    PROVE  IndInv'
  <1> USE KindsAssumption, DurationAssumption DEF IndInv
  <1>1. TypeOK'
    BY DEF TypeOK, CallFails
  <1>2. SessionInv' /\ TokenInv' /\ HolderInv' /\ RefreshInv' /\ RevokeInv' /\
       TokensDescendFromLogins' /\ RevokeReachesEverySession' /\
       SessionCountedOnce'
    BY DEF SessionInv, TokenInv, HolderInv, RefreshInv, RevokeInv,
           TokensDescendFromLogins, RevokeReachesEverySession,
           SessionCountedOnce, CallFails
  <1> QED
    BY <1>1, <1>2

\* Time passes for everything that happened before.
LEMMA TickStep == IndInv /\ Tick => IndInv'
  <1> SUFFICES ASSUME IndInv, Tick PROVE IndInv'
    OBVIOUS
  <1> USE DEF IndInv
  <1>1. TypeOK'
    BY DEF TypeOK, Tick
  <1>2. SessionInv'
    BY DEF SessionInv, TypeOK, Tick
  <1>3. HolderInv'
    BY DEF HolderInv, TypeOK, Tick
  <1>4. TokenInv' /\ RefreshInv' /\ RevokeInv' /\ TokensDescendFromLogins'
          /\ RevokeReachesEverySession' /\ SessionCountedOnce'
    BY DEF TokenInv, RefreshInv, RevokeInv, TokensDescendFromLogins,
           RevokeReachesEverySession, SessionCountedOnce, Tick
  <1> QED
    BY <1>1, <1>2, <1>3, <1>4

\* A restart fails what is in progress; rows and tokens survive it.
LEMMA CrashStep == IndInv /\ Crash => IndInv'
  <1> SUFFICES ASSUME IndInv, Crash PROVE IndInv'
    OBVIOUS
  <1> USE DEF IndInv, TypeOK, Crash
  <1>1. TypeOK'
    OBVIOUS
  <1>2. SessionInv' /\ TokenInv' /\ HolderInv' /\ RefreshInv' /\ RevokeInv'
    BY DEF SessionInv, TokenInv, HolderInv, RefreshInv, RevokeInv, Tokens
  <1>3. TokensDescendFromLogins'
    BY DEF TokensDescendFromLogins
  <1>4. RevokeReachesEverySession' /\ SessionCountedOnce'
    BY DEF RevokeReachesEverySession, SessionCountedOnce
  <1> QED
    BY <1>1, <1>2, <1>3, <1>4

-----------------------------------------------------------------------------
(* The theorems.                                                           *)

LEMMA InitInv == Init => IndInv
  <1> SUFFICES ASSUME Init PROVE IndInv
    OBVIOUS
  <1> USE KindsAssumption DEF Init
  <1>1. TypeOK
    BY DEF TypeOK
  <1>2. SessionInv /\ TokenInv /\ HolderInv /\ RefreshInv /\ RevokeInv
    BY DEF SessionInv, TokenInv, HolderInv, RefreshInv, RevokeInv
  <1>3. /\ TokensDescendFromLogins
        /\ RevokeReachesEverySession
        /\ SessionCountedOnce
    BY DEF TokensDescendFromLogins, RevokeReachesEverySession,
           SessionCountedOnce
  <1> QED
    BY <1>1, <1>2, <1>3 DEF IndInv

LEMMA NextInv == IndInv /\ [Next]_vars => IndInv'
  <1> SUFFICES ASSUME IndInv, [Next]_vars PROVE IndInv'
    OBVIOUS
  <1>1. ASSUME NEW l \in Logins, Login(l) PROVE IndInv'
    BY <1>1, MakeTokensStep, CreateSessionStep, CreateSessionLostStep
       DEF Login
  <1>2. ASSUME NEW r \in Refreshes, Refresh(r) PROVE IndInv'
    BY <1>2, AuthorizeRefreshStep, ReadSessionStep, IssueAccessTokenStep
       DEF Refresh
  <1>3. ASSUME NEW k \in Revokes, Revoke(k) PROVE IndInv'
    BY <1>3, AuthorizeRevokeStep, SelectSessionsStep, RevokeSessionsStep,
       RevokeSessionsLostStep
       DEF Revoke
  <1>4. ASSUME NEW v \in Verifies, Verify(v) PROVE IndInv'
    BY <1>4, VerifyStep
  <1>5. ASSUME NEW c \in Calls, CallFails(c) PROVE IndInv'
    BY <1>5, CallFailsStep
  <1>6. CASE Tick
    BY <1>6, TickStep
  <1>7. CASE Crash
    BY <1>7, CrashStep
  <1>8. CASE UNCHANGED vars
    BY <1>8
       DEF vars, IndInv, TypeOK, SessionInv, TokenInv, HolderInv, RefreshInv,
           RevokeInv, TokensDescendFromLogins, RevokeReachesEverySession,
           SessionCountedOnce
  <1> QED
    BY <1>1, <1>2, <1>3, <1>4, <1>5, <1>6, <1>7, <1>8 DEF Next, Terminated

\* The inductive invariant: what tokens, rows and calls know of each other.
THEOREM InductiveInvariant == Spec => []IndInv
  BY InitInv, NextInv, PTL DEF Spec

\* Every variable keeps its type; a refresh hands out access tokens only.
THEOREM TypeCorrectness == Spec => []TypeOK
  <1>1. IndInv => TypeOK
    BY DEF IndInv
  <1> QED
    BY <1>1, InductiveInvariant, PTL

\* Every token belongs to the user whose login opened its session, through any
\* number of refreshes (AuthorizeToken, NewSession, RefreshAccessToken).
THEOREM TokenOrigin == Spec => []TokensDescendFromLogins
  <1>1. IndInv => TokensDescendFromLogins
    BY DEF IndInv
  <1> QED
    BY <1>1, InductiveInvariant, PTL

\* A session that is revoked or expired when a refresh is authorised yields no
\* token, whatever happens between its steps (RefreshAccessToken).
THEOREM NoRefreshOfDeadSession == Spec => []RefreshNeedsLiveSession
  <1>1. IndInv => RefreshNeedsLiveSession
    BY DEF IndInv, TypeOK, HolderInv, TokenInv, RefreshInv,
           RefreshNeedsLiveSession
  <1> QED
    BY <1>1, InductiveInvariant, PTL

\* Access tokens outlive a revocation by AccessDuration at most, but for those
\* of refreshes that were in progress (RefreshAccessToken, RevokeSessions).
THEOREM AccessRunsOut == Spec => []AccessEndsAfterRevocation
  <1>1. IndInv => AccessEndsAfterRevocation
    <2> SUFFICES ASSUME IndInv, NEW t \in tokens,
                        t.type = "access",
                        session[t.session] = "revoked",
                        t.expiresAt > revokedAt[t.session] + AccessDuration
                 PROVE  /\ t.by \in Refreshes
                        /\ authorizedAt[t.by] <= revokedAt[t.session]
                        /\ revokedAt[t.session] <= t.issuedAt
      BY DEF AccessEndsAfterRevocation
    <2> USE DurationAssumption DEF IndInv
    <2>1. /\ t.session \in Logins
          /\ t.by \in Logins \cup Refreshes
          /\ t.issuedAt \in Nat
          /\ revokedAt[t.session] \in Nat
      BY DEF TypeOK, Tokens
    <2>2. revokedAt[t.session] < t.issuedAt
      BY <2>1 DEF TokenInv
    <2>3. t.by \in Refreshes
      BY <2>1, <2>2 DEF TypeOK, TokenInv, SessionInv
    <2>4. authorizedAt[t.by] <= revokedAt[t.session]
      BY <2>3 DEF TokenInv, RefreshInv
    <2> QED
      BY <2>1, <2>2, <2>3, <2>4
  <1> QED
    BY <1>1, InductiveInvariant, PTL

\* A revocation that succeeded has closed every session that its user had been
\* handed before, and racing revocations count each once (RevokeSessions).
THEOREM RevocationIsComplete ==
    Spec => [](RevokeReachesEverySession /\ SessionCountedOnce)
  <1>1. IndInv => RevokeReachesEverySession /\ SessionCountedOnce
    BY DEF IndInv
  <1> QED
    BY <1>1, InductiveInvariant, PTL

\* Nothing is accepted as an access token longer than AccessDuration after it
\* was made (VerifyAccessToken).
THEOREM VerificationIsShort == Spec => []AcceptedBriefly
  <1>1. IndInv => AcceptedBriefly
    BY KindsAssumption DEF IndInv, HolderInv, TokenInv, AcceptedBriefly
  <1> QED
    BY <1>1, InductiveInvariant, PTL

\* The count alone: racing revocations count each session once (the rows that
\* the UPDATE of RevokeSessions returns).
THEOREM RevocationsCountOnce == Spec => []SessionCountedOnce
  <1>1. IndInv => SessionCountedOnce
    BY DEF IndInv
  <1> QED
    BY <1>1, InductiveInvariant, PTL
=============================================================================
