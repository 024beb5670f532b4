----------------------------- MODULE AuthProofs -----------------------------
(***************************************************************************)
(* The authorization server for any number of sessions, tokens and         *)
(* concurrent requests and any lifetimes.                                  *)
(***************************************************************************)
EXTENDS AuthHistory, TLAPS

(* A request that has begun knows the session it is about.                 *)
RequestsNamed == \A r \in Requests : req[r].step # "idle" => req[r].sid \in Sids

AuthType == AuthTypeOK /\ RequestsNamed

(* The ways the steps of a request change what the requests are about to   *)
(* do.                                                                     *)
BeginsFor(r, s) == \E step \in Step \ {"idle"} : Begin(r, step, s)

Advances(r) ==
    \/ Goto(r, "checkSession", "mint") \/ Goto(r, "revoke", "deny")
    \/ /\ req[r].step = "mint"
       /\ req' = [req EXCEPT ![r] = [step |-> "issueRefresh", sid |-> @.sid,
                                      minted |-> AccessTokenTTL]]

Ends(r) == \E from \in Step \ {"idle"} : Done(r, from)

LEMMA ElapseFacts ==
    ASSUME NEW n \in Nat, NEW left \in -1 .. n
    PROVE  Elapse(left) \in -1 .. n
  BY DEF Elapse

---------------------------------------------------------------------------
(* The session store by itself.                                            *)

LEMMA StoreTypeStep == StoreTypeOK /\ [StoreNext]_storeVars => StoreTypeOK'
  <1> SUFFICES ASSUME StoreTypeOK, [StoreNext]_storeVars
               PROVE  StoreTypeOK'
    OBVIOUS
  <1> USE StoreConstants DEF StoreTypeOK, Session, refreshRecord
  <1>1. ASSUME NEW s \in Sids, Create(s)
        PROVE  StoreTypeOK'
    BY <1>1 DEF Create
  <1>2. ASSUME NEW s \in Sids
        PROVE  /\ [sessions EXCEPT ![s].kind = "revoked"] \in [Sids -> Session]
               /\ SpendFamily(s) \in [Tokens -> refreshRecord]
    BY DEF SpendFamily
  <1>3. ASSUME NEW s \in Sids, Revoke(s)
        PROVE  StoreTypeOK'
    BY <1>2, <1>3 DEF Revoke
  <1>4. ASSUME NEW s \in Sids, NEW t \in Tokens, IssueRefresh(s, t)
        PROVE  StoreTypeOK'
    BY <1>4 DEF IssueRefresh
  <1>5. ASSUME NEW t \in Tokens, RotateReused(t)
        PROVE  StoreTypeOK'
    BY <1>2, <1>5 DEF RotateReused, KnownToken, Issued
  <1>6. ASSUME NEW old \in Tokens, NEW next \in Tokens, RotateOK(old, next)
        PROVE  StoreTypeOK'
    <2>1. refresh[old].sid \in Sids /\ old # next
      BY <1>6 DEF RotateOK, Unspent, KnownToken, Issued
    <2>2. sessions' \in [Sids -> Session]
      BY <1>6, <2>1 DEF RotateOK
    <2>3. refresh' \in [Tokens -> refreshRecord]
      <3>1. [refresh[old] EXCEPT !.used = TRUE] \in refreshRecord
        OBVIOUS
      <3>2. [sid |-> refresh[old].sid, left |-> RefreshTTL, used |-> FALSE] \in refreshRecord
        BY <2>1
      <3> QED BY <1>6, <3>1, <3>2 DEF RotateOK
    <2> QED BY <2>2, <2>3
  <1>7. CASE StoreTick
    <2>1. ASSUME NEW left \in -1 .. RefreshTTL
          PROVE  Elapse(left) \in -1 .. RefreshTTL
      BY ElapseFacts
    <2> QED BY <1>7, <2>1 DEF StoreTick
  <1>8. CASE StoreRestart
    BY <1>8 DEF StoreRestart
  <1>9. CASE UNCHANGED storeVars
    BY <1>9 DEF storeVars
  <1> QED BY <1>1, <1>3, <1>4, <1>5, <1>6, <1>7, <1>8, <1>9 DEF StoreNext

LEMMA RevokedIsDeadStep ==
    StoreTypeOK /\ RevokedIsDead /\ [StoreNext]_storeVars => RevokedIsDead'
  <1> SUFFICES ASSUME StoreTypeOK, RevokedIsDead, [StoreNext]_storeVars,
                      NEW t \in Tokens, Unspent(t)'
               PROVE  sessions'[refresh'[t].sid].kind = "live"
    BY DEF RevokedIsDead
  <1> USE StoreConstants
      DEF StoreTypeOK, Session, refreshRecord, RevokedIsDead, Unspent, KnownToken, Known,
          Issued
  <1>1. ASSUME NEW s \in Sids, Create(s)
        PROVE  sessions'[refresh'[t].sid].kind = "live"
    BY <1>1 DEF Create
  <1>2. ASSUME NEW s \in Sids, refresh' = SpendFamily(s),
               sessions' = [sessions EXCEPT ![s].kind = "revoked"]
        PROVE  sessions'[refresh'[t].sid].kind = "live"
    BY <1>2 DEF SpendFamily
  <1>3. ASSUME NEW s \in Sids, NEW u \in Tokens, IssueRefresh(s, u)
        PROVE  sessions'[refresh'[t].sid].kind = "live"
    BY <1>3 DEF IssueRefresh, CanIssue
  <1>4. ASSUME NEW old \in Tokens, NEW next \in Tokens, RotateOK(old, next)
        PROVE  sessions'[refresh'[t].sid].kind = "live"
    BY <1>4 DEF RotateOK
  <1>5. CASE StoreTick
    BY <1>5 DEF StoreTick
  <1>6. CASE StoreRestart
    BY <1>6 DEF StoreRestart
  <1>7. CASE UNCHANGED storeVars
    BY <1>7 DEF storeVars
  <1> QED
    BY <1>1, <1>2, <1>3, <1>4, <1>5, <1>6, <1>7 DEF StoreNext, Revoke, RotateReused

LEMMA StoreInvInit == StoreInit => StoreTypeOK /\ RevokedIsDead
  BY StoreConstants
     DEF StoreInit, StoreTypeOK, Session, refreshRecord, RevokedIsDead, Unspent, KnownToken,
         Issued

(* The store's own promise, for any client that uses it only through its   *)
(* operations: a revoked session has no token left to exchange.            *)
THEOREM StoreRevocationIsFinal == StoreSafety => []RevokedIsDead
  BY StoreInvInit, StoreTypeStep, RevokedIsDeadStep, PTL DEF StoreSafety

(* No token that can still be exchanged outlives its session.              *)
WithinSession ==
    \A t \in Tokens : Unspent(t) => refresh[t].left <= sessions[refresh[t].sid].left

LEMMA ElapseMonotone ==
    ASSUME NEW a \in Int, NEW b \in Int, a >= -1, b >= -1, a <= b
    PROVE  Elapse(a) <= Elapse(b)
  BY DEF Elapse

LEMMA TickFacts ==
    ASSUME StoreTypeOK, StoreTick
    PROVE  /\ \A t \in Tokens : /\ refresh'[t].sid = refresh[t].sid
                                 /\ refresh'[t].left = Elapse(refresh[t].left)
                                 /\ refresh'[t].used = refresh[t].used
           /\ \A s \in Sids : /\ sessions'[s].left = Elapse(sessions[s].left)
                              /\ sessions'[s].kind = sessions[s].kind
  <1>1. ASSUME NEW t \in Tokens
        PROVE  /\ refresh'[t].sid = refresh[t].sid
               /\ refresh'[t].left = Elapse(refresh[t].left)
               /\ refresh'[t].used = refresh[t].used
    <2>1. refresh[t] \in refreshRecord
      BY DEF StoreTypeOK
    <2>2. refresh'[t] = [refresh[t] EXCEPT !.left = Elapse(@)]
      BY DEF StoreTick
    <2> QED BY <2>1, <2>2 DEF refreshRecord
  <1>2. ASSUME NEW s \in Sids
        PROVE  /\ sessions'[s].left = Elapse(sessions[s].left)
               /\ sessions'[s].kind = sessions[s].kind
    <2>1. sessions[s] \in Session
      BY DEF StoreTypeOK
    <2>2. sessions'[s] = [sessions[s] EXCEPT !.left = Elapse(@)]
      BY DEF StoreTick
    <2> QED BY <2>1, <2>2 DEF Session
  <1> QED BY <1>1, <1>2

LEMMA WithinSessionStep ==
    StoreTypeOK /\ RevokedIsDead /\ WithinSession /\ [StoreNext]_storeVars => WithinSession'
  <1> SUFFICES ASSUME StoreTypeOK, RevokedIsDead, WithinSession, [StoreNext]_storeVars,
                      NEW t \in Tokens, Unspent(t)'
               PROVE  refresh'[t].left <= sessions'[refresh'[t].sid].left
    BY DEF WithinSession
  <1> USE StoreConstants
      DEF StoreTypeOK, Session, refreshRecord, WithinSession, Unspent, KnownToken, Known,
          Issued
  <1>1. ASSUME NEW s \in Sids, Create(s)
        PROVE  refresh'[t].left <= sessions'[refresh'[t].sid].left
    BY <1>1 DEF Create
  <1>2. ASSUME NEW s \in Sids, refresh' = SpendFamily(s),
               sessions' = [sessions EXCEPT ![s].kind = "revoked"]
        PROVE  refresh'[t].left <= sessions'[refresh'[t].sid].left
    BY <1>2 DEF SpendFamily
  <1>3. ASSUME NEW s \in Sids, NEW u \in Tokens, IssueRefresh(s, u)
        PROVE  refresh'[t].left <= sessions'[refresh'[t].sid].left
    BY <1>3 DEF IssueRefresh, CanIssue
  <1>4. ASSUME NEW old \in Tokens, NEW next \in Tokens, RotateOK(old, next)
        PROVE  refresh'[t].left <= sessions'[refresh'[t].sid].left
    BY <1>4 DEF RotateOK
  <1>5. CASE StoreTick
    <2>2. /\ refresh'[t].sid = refresh[t].sid /\ refresh'[t].left = Elapse(refresh[t].left)
          /\ refresh'[t].used = refresh[t].used
          /\ \A s \in Sids : /\ sessions'[s].left = Elapse(sessions[s].left)
                             /\ sessions'[s].kind = sessions[s].kind
      BY <1>5, TickFacts
    <2>3. refresh[t].sid \in Sids
      BY <2>2
    <2>4. Unspent(t)
      BY <2>2, <2>3
    <2>5. refresh[t].left <= sessions[refresh[t].sid].left
      BY <2>4
    <2>6. /\ refresh[t].left \in Int /\ refresh[t].left >= -1
          /\ sessions[refresh[t].sid].left \in Int /\ sessions[refresh[t].sid].left >= -1
      BY <2>3
    <2> QED BY <2>2, <2>3, <2>5, <2>6, ElapseMonotone
  <1>6. CASE StoreRestart
    BY <1>6 DEF StoreRestart
  <1>7. CASE UNCHANGED storeVars
    BY <1>7 DEF storeVars
  <1> QED
    BY <1>1, <1>2, <1>3, <1>4, <1>5, <1>6, <1>7 DEF StoreNext, Revoke, RotateReused

LEMMA WithinSessionInit == StoreInit => WithinSession
  BY DEF StoreInit, WithinSession, Unspent, KnownToken, Issued

LEMMA SilenceStep ==
    ASSUME StoreTypeOK, WithinSession, [StoreNext]_storeVars,
           NEW s \in Sids, Known(s), sessions[s].left < 0
    PROVE  sessions'[s].left < 0
  <1> USE StoreConstants
      DEF StoreTypeOK, Session, refreshRecord, WithinSession, Unspent, KnownToken, Known,
          Issued
  <1>1. ASSUME NEW u \in Sids, Create(u)
        PROVE  sessions'[s].left < 0
    BY <1>1 DEF Create
  <1>2. ASSUME NEW u \in Sids, sessions' = [sessions EXCEPT ![u].kind = "revoked"]
        PROVE  sessions'[s].left < 0
    BY <1>2
  <1>3. ASSUME NEW old \in Tokens, NEW next \in Tokens, RotateOK(old, next)
        PROVE  sessions'[s].left < 0
    <2>1. refresh[old].sid # s
      BY <1>3 DEF RotateOK
    <2> QED BY <1>3, <2>1 DEF RotateOK
  <1>4. CASE StoreTick
    BY <1>4 DEF StoreTick, Elapse
  <1>5. CASE StoreRestart
    BY <1>5 DEF StoreRestart
  <1>6. CASE UNCHANGED sessions
    BY <1>6
  <1> QED
    BY <1>1, <1>2, <1>3, <1>4, <1>5, <1>6
       DEF StoreNext, Revoke, RotateReused, IssueRefresh, storeVars

(* Nor is a session that ran out extended again, by any operation.         *)
THEOREM StoreSilenceIsFinal == StoreSafety => SilenceEndsSession
  <1>1. StoreInit => StoreTypeOK /\ RevokedIsDead /\ WithinSession
    BY StoreInvInit, WithinSessionInit
  <1>2. StoreTypeOK /\ RevokedIsDead /\ WithinSession /\ [StoreNext]_storeVars
            => (StoreTypeOK /\ RevokedIsDead /\ WithinSession)'
    BY StoreTypeStep, RevokedIsDeadStep, WithinSessionStep
  <1>3. StoreTypeOK /\ WithinSession /\ [StoreNext]_storeVars
            => [\A s \in Sids : Known(s) /\ sessions[s].left < 0 => sessions'[s].left < 0]_storeVars
    BY SilenceStep
  <1> QED BY <1>1, <1>2, <1>3, PTL DEF StoreSafety, SilenceEndsSession
---------------------------------------------------------------------------
(* The server's types, and that it uses the store through its operations.  *)

(* The store's operations; a restart is not one of them.                   *)
StoreOperation ==
    \/ \E s \in Sids : Create(s) \/ Revoke(s)
    \/ \E s \in Sids, t \in Tokens : IssueRefresh(s, t)
    \/ \E t \in Tokens : RotateReused(t)
    \/ \E old, next \in Tokens : RotateOK(old, next)
    \/ StoreTick

LEMMA AuthStepStoreOperation ==
    ASSUME AuthType, AuthNext
    PROVE  Restart \/ [StoreOperation]_storeVars
  <1>1. ASSUME NEW r \in Requests, req[r].step # "idle"
        PROVE  req[r].sid \in Sids
    BY <1>1 DEF AuthType, RequestsNamed
  <1>2. ASSUME NEW r \in Requests, NEW s \in Sids,
               \/ EnrollCreate(r, s) \/ ConsumeOK(r, s) \/ RevokeByAccess(r, s)
               \/ RevokeBySid(r, s) \/ DeniedElapsed(r, s) \/ ConsumeFails(s)
        PROVE  [StoreOperation]_storeVars
    BY <1>2 DEF EnrollCreate, ConsumeOK, RevokeByAccess, RevokeBySid, DeniedElapsed,
                ConsumeFails, StoreOperation
  <1>3. ASSUME NEW r \in Requests,
               \/ EnrollIssueCode(r) \/ SessionActive(r) \/ SessionInactive(r)
               \/ MintFirst(r) \/ FirstRefreshFails(r) \/ RefreshMint(r)
               \/ RevokeUnknown(r) \/ DenyAdd(r) \/ DeniedForget(r) \/ Abort(r)
        PROVE  [StoreOperation]_storeVars
    BY <1>3 DEF EnrollIssueCode, SessionActive, SessionInactive, MintFirst,
                FirstRefreshFails, RefreshMint, RevokeUnknown, DenyAdd, DeniedForget, Abort
  <1>4. ASSUME NEW r \in Requests, RevokeSession(r)
        PROVE  [StoreOperation]_storeVars
    BY <1>1, <1>4 DEF RevokeSession, Goto, StoreOperation
  <1>5. ASSUME NEW r \in Requests, NEW t \in Tokens, FirstRefreshOK(r, t)
        PROVE  [StoreOperation]_storeVars
    BY <1>1, <1>5 DEF FirstRefreshOK, Done, StoreOperation
  <1>6. ASSUME NEW t \in Tokens, RotateReused(t)
        PROVE  [StoreOperation]_storeVars
    BY <1>6 DEF StoreOperation
  <1>7. ASSUME NEW old \in Tokens, NEW next \in Tokens, RotateOK(old, next)
        PROVE  [StoreOperation]_storeVars
    BY <1>7 DEF StoreOperation
  <1>8. CASE StoreTick
    BY <1>8 DEF StoreOperation
  <1>9. ASSUME NEW s \in Sids, ConsumeFails(s)
        PROVE  [StoreOperation]_storeVars
    BY <1>9 DEF ConsumeFails
  <1> QED
    BY <1>2, <1>3, <1>4, <1>5, <1>6, <1>7, <1>8, <1>9
       DEF AuthNext, RefreshReused, RefreshRotate, RevokeByRefresh, RevokeByReused, AuthTick

LEMMA AuthStepIsStoreStep == AuthType /\ [AuthNext]_authVars => [StoreNext]_storeVars
  <1>1. StoreOperation => StoreNext
    BY DEF StoreOperation, StoreNext
  <1>2. Restart => StoreNext
    BY DEF Restart, StoreNext
  <1> QED BY <1>1, <1>2, AuthStepStoreOperation DEF authVars, storeVars

(* How a step changes the requests.                                        *)
LEMMA RequestSteps ==
    ASSUME AuthType, AuthNext
    PROVE  \/ \E r \in Requests, s \in Sids : BeginsFor(r, s)
           \/ \E r \in Requests : Advances(r) \/ Ends(r)
           \/ UNCHANGED req
           \/ AuthTick
           \/ req' = [r \in Requests |-> Idle]
  <1> USE DEF Step
  <1>1. ASSUME NEW t \in Tokens, KnownToken(t)
        PROVE  refresh[t].sid \in Sids
    BY <1>1 DEF AuthType, AuthTypeOK, StoreTypeOK, refreshRecord, KnownToken, Issued
  <1>2. ASSUME NEW r \in Requests, NEW s \in Sids,
               \/ EnrollCreate(r, s) \/ ConsumeOK(r, s) \/ RevokeByAccess(r, s)
               \/ RevokeBySid(r, s) \/ DeniedElapsed(r, s)
        PROVE  BeginsFor(r, s)
    BY <1>2 DEF EnrollCreate, ConsumeOK, RevokeByAccess, RevokeBySid, DeniedElapsed, BeginsFor
  <1>3. ASSUME NEW r \in Requests,
               \/ SessionActive(r) \/ MintFirst(r) \/ RevokeSession(r)
        PROVE  Advances(r)
    BY <1>3 DEF SessionActive, MintFirst, RevokeSession, Advances
  <1>4. ASSUME NEW r \in Requests,
               \/ EnrollIssueCode(r) \/ SessionInactive(r) \/ FirstRefreshFails(r)
               \/ RefreshMint(r) \/ RevokeUnknown(r) \/ DenyAdd(r) \/ DeniedForget(r)
               \/ Abort(r)
        PROVE  Ends(r)
    BY <1>4 DEF EnrollIssueCode, SessionInactive, FirstRefreshFails, RefreshMint,
                RevokeUnknown, DenyAdd, DeniedForget, Abort, Ends
  <1>5. ASSUME NEW r \in Requests, NEW t \in Tokens, FirstRefreshOK(r, t)
        PROVE  Ends(r)
    BY <1>5 DEF FirstRefreshOK, Ends
  <1>6. ASSUME NEW r \in Requests, NEW t \in Tokens, RefreshReused(r, t)
        PROVE  \E s \in Sids : BeginsFor(r, s)
    BY <1>1, <1>6 DEF RefreshReused, RotateReused, BeginsFor
  <1>7. ASSUME NEW r \in Requests, NEW old \in Tokens, NEW next \in Tokens,
               RefreshRotate(r, old, next) \/ RevokeByRefresh(r, old, next)
        PROVE  \E s \in Sids : BeginsFor(r, s)
    BY <1>1, <1>7 DEF RefreshRotate, RevokeByRefresh, RotateOK, Unspent, BeginsFor
  <1>8. ASSUME NEW s \in Sids, ConsumeFails(s)
        PROVE  UNCHANGED req
    BY <1>8 DEF ConsumeFails
  <1>9. ASSUME NEW t \in Tokens, RevokeByReused(t)
        PROVE  UNCHANGED req
    BY <1>9 DEF RevokeByReused
  <1>10. ASSUME Restart
         PROVE  req' = [r \in Requests |-> Idle]
    BY <1>10 DEF Restart
  <1> QED
    BY <1>2, <1>3, <1>4, <1>5, <1>6, <1>7, <1>8, <1>9, <1>10 DEF AuthNext

LEMMA RequestTypeStep ==
    ASSUME AuthType, AuthNext
    PROVE  (req \in [Requests -> Request] /\ RequestsNamed)'
  <1> USE AuthConstants DEF AuthType, AuthTypeOK, RequestsNamed, Request, Step
  <1>1. ASSUME NEW r \in Requests, NEW s \in Sids, BeginsFor(r, s)
        PROVE  (req \in [Requests -> Request] /\ RequestsNamed)'
    BY <1>1 DEF BeginsFor, Begin
  <1>2. ASSUME NEW r \in Requests, Advances(r)
        PROVE  (req \in [Requests -> Request] /\ RequestsNamed)'
    <2>1. CASE Goto(r, "checkSession", "mint") \/ Goto(r, "revoke", "deny")
      BY <2>1 DEF Goto
    <2>2. CASE /\ req[r].step = "mint"
               /\ req' = [req EXCEPT ![r] = [step |-> "issueRefresh", sid |-> @.sid,
                                              minted |-> AccessTokenTTL]]
      BY <2>2
    <2> QED BY <1>2, <2>1, <2>2 DEF Advances
  <1>3. ASSUME NEW r \in Requests, Ends(r)
        PROVE  (req \in [Requests -> Request] /\ RequestsNamed)'
    BY <1>3 DEF Ends, Done, Idle
  <1>4. CASE AuthTick
    <2>1. ASSUME NEW left \in -1 .. AccessTokenTTL
          PROVE  Elapse(left) \in -1 .. AccessTokenTTL
      BY ElapseFacts
    <2> QED BY <1>4, <2>1 DEF AuthTick
  <1>5. CASE req' = [r \in Requests |-> Idle]
    BY <1>5 DEF Idle
  <1>6. CASE UNCHANGED req
    BY <1>6
  <1> QED BY <1>1, <1>2, <1>3, <1>4, <1>5, <1>6, RequestSteps

LEMMA ElapseEntryFacts ==
    ASSUME NEW n \in Nat, NEW left \in Absent .. n
    PROVE  ElapseEntry(left) \in Absent .. n
  BY DEF ElapseEntry, Elapse, Absent

LEMMA ClockTypeStep ==
    ASSUME AuthType, AuthNext
    PROVE  /\ codes' \in [Sids -> Absent .. AuthCodeTTL]
           /\ deny' \in [Sids -> Absent .. AccessTokenTTL]
           /\ access' \in [Sids -> -1 .. AccessTokenTTL]
  <1> DEFINE Good == /\ codes' \in [Sids -> Absent .. AuthCodeTTL]
                     /\ deny' \in [Sids -> Absent .. AccessTokenTTL]
                     /\ access' \in [Sids -> -1 .. AccessTokenTTL]
  <1> SUFFICES Good
    OBVIOUS
  <1> USE AuthConstants DEF AuthType, AuthTypeOK, Absent
  <1>1. CASE UNCHANGED <<codes, deny, access>>
    BY <1>1
  <1>2. ASSUME NEW r \in Requests, NEW s \in Sids, ConsumeOK(r, s) \/ ConsumeFails(s)
        PROVE  Good
    BY <1>2 DEF ConsumeOK, ConsumeFails
  <1>3. ASSUME NEW r \in Requests, EnrollIssueCode(r)
        PROVE  Good
    BY <1>3 DEF EnrollIssueCode, sweepLocked
  <1>4. ASSUME NEW r \in Requests, DenyAdd(r) \/ DeniedForget(r)
        PROVE  Good
    BY <1>4 DEF DenyAdd, DeniedForget
  <1>5. ASSUME NEW r \in Requests, NEW left \in -1 .. AccessTokenTTL,
               Deliver(req[r].sid, left), UNCHANGED <<codes, deny>>
        PROVE  Good
    BY <1>5 DEF Deliver
  <1>6. ASSUME NEW r \in Requests, RefreshMint(r)
        PROVE  Good
    BY <1>5, <1>6 DEF RefreshMint
  <1>7. ASSUME NEW r \in Requests, NEW t \in Tokens, FirstRefreshOK(r, t)
        PROVE  Good
    <2>1. req[r].minted \in -1 .. AccessTokenTTL
      BY DEF Request
    <2> QED BY <1>5, <1>7, <2>1 DEF FirstRefreshOK
  <1>8. CASE AuthTick
    <2>1. /\ \A left \in Absent .. AuthCodeTTL : ElapseEntry(left) \in Absent .. AuthCodeTTL
          /\ \A left \in Absent .. AccessTokenTTL :
                 ElapseEntry(left) \in Absent .. AccessTokenTTL
          /\ \A left \in -1 .. AccessTokenTTL : Elapse(left) \in -1 .. AccessTokenTTL
      BY ElapseFacts, ElapseEntryFacts
    <2> QED BY <1>8, <2>1 DEF AuthTick
  <1>9. CASE Restart
    BY <1>9 DEF Restart
  <1>10. ASSUME NEW s \in Sids, ConsumeFails(s)
         PROVE  Good
    BY <1>10 DEF ConsumeFails
  <1> HIDE DEF Good
  <1> QED
    BY <1>1, <1>2, <1>3, <1>4, <1>6, <1>7, <1>8, <1>9, <1>10
       DEF AuthNext, EnrollCreate, RevokeByAccess, RevokeBySid, DeniedElapsed, SessionActive,
           SessionInactive, MintFirst, FirstRefreshFails, RevokeSession, RevokeUnknown, Abort,
           RefreshReused, RefreshRotate, RevokeByRefresh, RevokeByReused

LEMMA AuthTypeStep == AuthType /\ [AuthNext]_authVars => AuthType'
  <1> SUFFICES ASSUME AuthType, [AuthNext]_authVars
               PROVE  AuthType'
    OBVIOUS
  <1>1. CASE AuthNext
    <2>1. StoreTypeOK'
      BY AuthStepIsStoreStep, StoreTypeStep DEF AuthType, AuthTypeOK
    <2> QED
      BY <1>1, <2>1, RequestTypeStep, ClockTypeStep DEF AuthType, AuthTypeOK
  <1>2. CASE UNCHANGED authVars
    BY <1>2 DEF authVars, AuthType, AuthTypeOK, StoreTypeOK, RequestsNamed
  <1> QED BY <1>1, <1>2

LEMMA AuthTypeInit == AuthInit => AuthType
  BY StoreInvInit, AuthConstants
     DEF AuthInit, AuthType, AuthTypeOK, RequestsNamed, Absent, Idle, Request, Step

(* The server's state is always well typed, the remaining lifetimes of     *)
(* codes, tokens and denylist entries within what was configured.          *)
THEOREM AuthTypeCorrect == AuthSpec => []AuthTypeOK
  <1>1. AuthType => AuthTypeOK BY DEF AuthType
  <1> QED BY <1>1, AuthTypeInit, AuthTypeStep, PTL DEF AuthSpec

LEMMA ServerUsesStore == AuthSpec => StoreSafety
  <1>1. AuthInit => StoreInit BY DEF AuthInit
  <1> QED
    BY <1>1, AuthTypeInit, AuthTypeStep, AuthStepIsStoreStep, PTL
       DEF AuthSpec, StoreSafety

(* The handlers change the store only through its operations, so           *)
(* revocation is final in the server too.                                  *)
THEOREM RevocationIsFinal == AuthSpec => []RevokedIsDead
  BY ServerUsesStore, StoreRevocationIsFinal, PTL

(* And no request brings back a session that ran out, whatever was checked *)
(* before it did.                                                          *)
THEOREM SilenceIsFinal == AuthSpec => SilenceEndsSession
  BY ServerUsesStore, StoreSilenceIsFinal, PTL
---------------------------------------------------------------------------
(* One chain of credentials per session.                                   *)

(* A session id that was not drawn yet has no code, request or token.      *)
AbsentUnused ==
    \A s \in Sids : sessions[s].kind = "absent" =>
        /\ codes[s] = Absent
        /\ Exchanging(s) = {}
        /\ \A t \in Tokens : refresh[t].sid # s

Chained == OneCredential /\ AbsentUnused

AuthInv == AuthType /\ RevokedIsDead /\ Chained

(* Steps after which no session has a credential it did not have before.   *)
NothingGained ==
    /\ \A s \in Sids : /\ codes'[s] # Absent => codes[s] # Absent
                       /\ Exchanging(s)' \subseteq Exchanging(s)
                       /\ sessions'[s].kind = "absent" => sessions[s].kind = "absent"
    /\ \A t \in Tokens : /\ refresh'[t].sid = refresh[t].sid
                         /\ Unspent(t)' => Unspent(t)

LEMMA NothingGainedKeepsChain ==
    ASSUME Chained, NothingGained
    PROVE  Chained'
  <1>1. OneCredential'
    BY DEF Chained, OneCredential, NothingGained
  <1>2. AbsentUnused'
    BY DEF Chained, AbsentUnused, NothingGained
  <1> QED BY <1>1, <1>2 DEF Chained

(* A request that ends, and one that advances, stands for no more than it  *)
(* did; one that begins does so only at these two steps.                   *)
LEMMA ExchangingShrinks ==
    ASSUME AuthType, NEW s \in Sids,
           \/ \E r \in Requests : Ends(r) \/ Advances(r)
           \/ \E r \in Requests, u \in Sids,
                 step \in {"mintRefreshed", "denyReused", "revoke", "deny", "forget"} :
                  Begin(r, step, u)
           \/ UNCHANGED req
           \/ AuthTick
           \/ req' = [r \in Requests |-> Idle]
    PROVE  Exchanging(s)' \subseteq Exchanging(s)
  <1> USE DEF AuthType, AuthTypeOK, Request, Exchanging
  <1>1. ASSUME NEW r \in Requests, Ends(r)
        PROVE  Exchanging(s)' \subseteq Exchanging(s)
    BY <1>1 DEF Ends, Done, Idle
  <1>2. ASSUME NEW r \in Requests, Advances(r)
        PROVE  Exchanging(s)' \subseteq Exchanging(s)
    <2>1. CASE Goto(r, "checkSession", "mint")
      BY <2>1 DEF Goto
    <2>2. CASE Goto(r, "revoke", "deny")
      BY <2>2 DEF Goto
    <2>3. CASE /\ req[r].step = "mint"
               /\ req' = [req EXCEPT ![r] = [step |-> "issueRefresh", sid |-> @.sid,
                                              minted |-> AccessTokenTTL]]
      BY <2>3
    <2> QED BY <1>2, <2>1, <2>2, <2>3 DEF Advances
  <1>3. ASSUME NEW r \in Requests, NEW u \in Sids,
               NEW step \in {"mintRefreshed", "denyReused", "revoke", "deny", "forget"},
               Begin(r, step, u)
        PROVE  Exchanging(s)' \subseteq Exchanging(s)
    BY <1>3 DEF Begin
  <1>4. CASE UNCHANGED req
    BY <1>4
  <1>5. CASE AuthTick
    BY <1>5 DEF AuthTick
  <1>6. CASE req' = [r \in Requests |-> Idle]
    BY <1>6 DEF Idle
  <1> QED BY <1>1, <1>2, <1>3, <1>4, <1>5, <1>6

(* The store's operations other than Create, IssueRefresh and RotateOK.    *)
LEMMA StoreGainsNothing ==
    ASSUME StoreTypeOK,
           \/ UNCHANGED storeVars
           \/ \E u \in Sids : Revoke(u)
           \/ \E u \in Tokens : RotateReused(u)
           \/ StoreTick
           \/ StoreRestart
    PROVE  /\ \A s \in Sids : sessions'[s].kind = "absent" => sessions[s].kind = "absent"
           /\ \A t \in Tokens : /\ refresh'[t].sid = refresh[t].sid
                                /\ Unspent(t)' => Unspent(t)
  <1> USE StoreConstants
      DEF StoreTypeOK, Session, refreshRecord, Unspent, KnownToken, Known, Issued
  <1> DEFINE Goal == /\ \A s \in Sids : sessions'[s].kind = "absent"
                                             => sessions[s].kind = "absent"
                     /\ \A t \in Tokens : /\ refresh'[t].sid = refresh[t].sid
                                          /\ Unspent(t)' => Unspent(t)
  <1> SUFFICES Goal
    OBVIOUS
  <1>1. CASE UNCHANGED storeVars
    BY <1>1 DEF storeVars
  <1>2. ASSUME NEW u \in Sids, refresh' = SpendFamily(u), Known(u),
               sessions' = [sessions EXCEPT ![u].kind = "revoked"]
        PROVE  Goal
    <2>1. \A s \in Sids : sessions'[s].kind = "absent" => sessions[s].kind = "absent"
      BY <1>2
    <2>2. ASSUME NEW t \in Tokens
          PROVE  refresh'[t].sid = refresh[t].sid /\ (Unspent(t)' => Unspent(t))
      BY <1>2 DEF SpendFamily
    <2> QED BY <2>1, <2>2
  <1>3. CASE StoreTick
    <2>1. ASSUME NEW s \in Sids
          PROVE  sessions'[s].kind = sessions[s].kind
      BY <1>3 DEF StoreTick
    <2>2. ASSUME NEW t \in Tokens
          PROVE  /\ refresh'[t].sid = refresh[t].sid
                 /\ refresh'[t].used = refresh[t].used
      BY <1>3 DEF StoreTick
    <2> QED BY <2>1, <2>2
  <1>4. CASE StoreRestart
    BY <1>4 DEF StoreRestart
  <1> HIDE DEF Goal
  <1> QED BY <1>1, <1>2, <1>3, <1>4 DEF Revoke, RotateReused

(* The steps that give a session nothing.                                  *)
LEMMA QuietSteps ==
    ASSUME AuthType,
           \/ \E r \in Requests, s \in Sids :
                  RevokeByAccess(r, s) \/ RevokeBySid(r, s) \/ DeniedElapsed(r, s)
           \/ \E s \in Sids : ConsumeFails(s)
           \/ \E r \in Requests :
                  \/ SessionActive(r) \/ SessionInactive(r) \/ MintFirst(r)
                  \/ FirstRefreshFails(r) \/ RefreshMint(r) \/ RevokeSession(r)
                  \/ RevokeUnknown(r) \/ DenyAdd(r) \/ DeniedForget(r) \/ Abort(r)
           \/ \E r \in Requests, t \in Tokens : RefreshReused(r, t)
           \/ \E t \in Tokens : RevokeByReused(t)
           \/ AuthTick
           \/ Restart
    PROVE  NothingGained
  <1> DEFINE CodesShrink == \A s \in Sids : codes'[s] # Absent => codes[s] # Absent
             ReqsShrink == \A s \in Sids : Exchanging(s)' \subseteq Exchanging(s)
             StoreShrinks == /\ \A s \in Sids : sessions'[s].kind = "absent"
                                                    => sessions[s].kind = "absent"
                             /\ \A t \in Tokens : /\ refresh'[t].sid = refresh[t].sid
                                                  /\ Unspent(t)' => Unspent(t)
  <1>1. CodesShrink
    <2>1. CASE UNCHANGED codes
      BY <2>1
    <2>2. ASSUME NEW s \in Sids, codes' = [codes EXCEPT ![s] = Absent]
          PROVE  CodesShrink
      BY <2>2 DEF AuthType, AuthTypeOK
    <2>3. CASE AuthTick
      BY <2>3 DEF AuthTick, ElapseEntry
    <2>4. CASE Restart
      BY <2>4 DEF Restart
    <2> HIDE DEF CodesShrink
    <2> QED
      BY <2>1, <2>2, <2>3, <2>4
         DEF RevokeByAccess, RevokeBySid, DeniedElapsed, ConsumeFails, SessionActive,
             SessionInactive, MintFirst, FirstRefreshFails, RefreshMint, RevokeSession,
             RevokeUnknown, DenyAdd, DeniedForget, Abort, RefreshReused, RevokeByReused
  <1>2. ReqsShrink
    <2>1. ASSUME NEW r \in Requests, Ends(r) \/ Advances(r)
          PROVE  ReqsShrink
      BY <2>1, ExchangingShrinks
    <2>2. ASSUME NEW r \in Requests, NEW u \in Sids,
                 NEW step \in {"revoke", "forget", "denyReused"}, Begin(r, step, u)
          PROVE  ReqsShrink
      BY <2>2, ExchangingShrinks
    <2>3. CASE UNCHANGED req \/ AuthTick \/ Restart
      BY <2>3, ExchangingShrinks DEF Restart
    <2>4. ASSUME NEW r \in Requests, NEW t \in Tokens, RefreshReused(r, t)
          PROVE  ReqsShrink
      <3>1. refresh[t].sid \in Sids
        BY <2>4 DEF RefreshReused, RotateReused, KnownToken, Issued, AuthType, AuthTypeOK,
                    StoreTypeOK, refreshRecord
      <3> QED BY <2>2, <2>4, <3>1 DEF RefreshReused
    <2>5. ASSUME NEW r \in Requests,
                 \/ SessionActive(r) \/ SessionInactive(r) \/ MintFirst(r)
                 \/ FirstRefreshFails(r) \/ RefreshMint(r) \/ RevokeSession(r)
                 \/ RevokeUnknown(r) \/ DenyAdd(r) \/ DeniedForget(r) \/ Abort(r)
          PROVE  Ends(r) \/ Advances(r)
      BY <2>5 DEF SessionActive, SessionInactive, MintFirst, FirstRefreshFails, RefreshMint,
                  RevokeSession, RevokeUnknown, DenyAdd, DeniedForget, Abort, Ends, Advances,
                  Step
    <2> HIDE DEF ReqsShrink
    <2> QED
      BY <2>1, <2>2, <2>3, <2>4, <2>5
         DEF RevokeByAccess, RevokeBySid, DeniedElapsed, ConsumeFails, RevokeByReused
  <1>3. StoreShrinks
    <2>1. \/ UNCHANGED storeVars
          \/ \E u \in Sids : Revoke(u)
          \/ \E u \in Tokens : RotateReused(u)
          \/ StoreTick
          \/ StoreRestart
      <3>1. ASSUME NEW r \in Requests, RevokeSession(r)
            PROVE  \E u \in Sids : Revoke(u)
        BY <3>1 DEF RevokeSession, Goto, AuthType, RequestsNamed
      <3> QED
        BY <3>1
           DEF RevokeByAccess, RevokeBySid, DeniedElapsed, ConsumeFails, SessionActive,
               SessionInactive, MintFirst, FirstRefreshFails, RefreshMint, RevokeUnknown,
               DenyAdd, DeniedForget, Abort, RefreshReused, RevokeByReused, AuthTick, Restart
    <2> QED BY <2>1, StoreGainsNothing DEF AuthType, AuthTypeOK
  <1> QED BY <1>1, <1>2, <1>3 DEF NothingGained

LEMMA ExchangeBegins ==
    ASSUME AuthType, NEW r \in Requests, NEW s \in Sids,
           NEW step \in {"issueCode", "checkSession"}, Begin(r, step, s)
    PROVE  /\ Exchanging(s)' = Exchanging(s) \cup {r}
           /\ \A u \in Sids \ {s} : Exchanging(u)' = Exchanging(u)
  BY DEF Begin, Exchanging, AuthType, AuthTypeOK, Request

LEMMA ExchangeEnds ==
    ASSUME AuthType, NEW r \in Requests, NEW s \in Sids, s = req[r].sid,
           NEW from \in {"issueCode", "issueRefresh"}, Done(r, from)
    PROVE  /\ r \in Exchanging(s)
           /\ Exchanging(s)' = Exchanging(s) \ {r}
           /\ \A u \in Sids \ {s} : Exchanging(u)' = Exchanging(u)
  <1>1. r \in Exchanging(s)
    BY DEF Done, Exchanging
  <1>2. /\ req'[r].sid \notin Sids
        /\ \A q \in Requests \ {r} : req'[q] = req[q]
    BY StoreConstants DEF Done, Idle, AuthType, AuthTypeOK
  <1>3. \A u \in Sids : Exchanging(u)' = Exchanging(u) \ {r}
    BY <1>2 DEF Exchanging
  <1> QED BY <1>1, <1>3 DEF Exchanging

(* An id is drawn: it has nothing yet but the request that drew it.        *)
LEMMA EnrollCreateKeepsChain ==
    ASSUME AuthInv, NEW r \in Requests, NEW s \in Sids, EnrollCreate(r, s)
    PROVE  Chained'
  <1>1. /\ Exchanging(s)' = Exchanging(s) \cup {r}
        /\ \A u \in Sids \ {s} : Exchanging(u)' = Exchanging(u)
    BY ExchangeBegins DEF AuthInv, EnrollCreate
  <1>2. /\ codes[s] = Absent /\ Exchanging(s) = {}
        /\ \A t \in Tokens : refresh[t].sid # s
    BY DEF AuthInv, Chained, AbsentUnused, EnrollCreate, Create
  <1>3. /\ codes' = codes /\ refresh' = refresh
        /\ sessions'[s].kind = "live"
        /\ \A u \in Sids \ {s} : sessions'[u] = sessions[u]
    BY DEF EnrollCreate, Create, AuthInv, AuthType, AuthTypeOK, StoreTypeOK, Session
  <1>4. \A t \in Tokens : Unspent(t)' => Unspent(t)
    BY <1>2, <1>3, StoreConstants
       DEF Unspent, KnownToken, Known, Issued, AuthInv, AuthType, AuthTypeOK, StoreTypeOK,
           refreshRecord
  <1>5. OneCredential'
    BY <1>1, <1>2, <1>3, <1>4 DEF AuthInv, Chained, OneCredential
  <1>6. AbsentUnused'
    BY <1>1, <1>3 DEF AuthInv, Chained, AbsentUnused
  <1> QED BY <1>5, <1>6 DEF Chained

(* The request hands its place to the code it stores.                      *)
LEMMA EnrollIssueCodeKeepsChain ==
    ASSUME AuthInv, NEW r \in Requests, EnrollIssueCode(r)
    PROVE  Chained'
  <1> PICK s \in Sids : s = req[r].sid
    BY DEF EnrollIssueCode, Done, AuthInv, AuthType, RequestsNamed
  <1>1. /\ r \in Exchanging(s)
        /\ Exchanging(s)' = Exchanging(s) \ {r}
        /\ \A u \in Sids \ {s} : Exchanging(u)' = Exchanging(u)
    BY ExchangeEnds DEF AuthInv, EnrollIssueCode, sweepLocked
  <1>2. /\ sessions' = sessions /\ refresh' = refresh
        /\ \A u \in Sids \ {s} : codes'[u] # Absent => codes[u] # Absent
    BY DEF EnrollIssueCode, sweepLocked, storeVars, AuthInv, AuthType, AuthTypeOK
  <1>3. sessions[s].kind # "absent"
    BY <1>1 DEF AuthInv, Chained, AbsentUnused
  <1>4. \A t \in Tokens : Unspent(t)' <=> Unspent(t)
    BY <1>2 DEF Unspent, KnownToken, Known, Issued
  <1>5. OneCredential'
    <2>1. Exchanging(s)' = {} /\ \A t \in Tokens : refresh[t].sid # s
      BY <1>1 DEF AuthInv, Chained, OneCredential
    <2> QED
      BY <1>1, <1>2, <1>4, <2>1 DEF AuthInv, Chained, OneCredential
  <1>6. AbsentUnused'
    BY <1>1, <1>2, <1>3 DEF AuthInv, Chained, AbsentUnused
  <1> QED BY <1>5, <1>6 DEF Chained

(* The code hands its place to the request that consumed it.               *)
LEMMA ConsumeKeepsChain ==
    ASSUME AuthInv, NEW r \in Requests, NEW s \in Sids, ConsumeOK(r, s)
    PROVE  Chained'
  <1>1. /\ Exchanging(s)' = Exchanging(s) \cup {r}
        /\ \A u \in Sids \ {s} : Exchanging(u)' = Exchanging(u)
    BY ExchangeBegins DEF AuthInv, ConsumeOK
  <1>2. /\ codes[s] # Absent /\ codes'[s] = Absent
        /\ \A u \in Sids \ {s} : codes'[u] = codes[u]
        /\ sessions' = sessions /\ refresh' = refresh
    BY DEF ConsumeOK, Absent, storeVars, AuthInv, AuthType, AuthTypeOK
  <1>3. /\ Exchanging(s) = {} /\ sessions[s].kind # "absent"
        /\ \A t \in Tokens : refresh[t].sid # s
    BY <1>2 DEF AuthInv, Chained, OneCredential, AbsentUnused
  <1>4. \A t \in Tokens : Unspent(t)' <=> Unspent(t)
    BY <1>2 DEF Unspent, KnownToken, Known, Issued
  <1>5. OneCredential'
    BY <1>1, <1>2, <1>3, <1>4 DEF AuthInv, Chained, OneCredential
  <1>6. AbsentUnused'
    BY <1>1, <1>2, <1>3 DEF AuthInv, Chained, AbsentUnused
  <1> QED BY <1>5, <1>6 DEF Chained

(* The request hands its place to the first token of the family.           *)
LEMMA FirstRefreshKeepsChain ==
    ASSUME AuthInv, NEW r \in Requests, NEW t \in Tokens, FirstRefreshOK(r, t)
    PROVE  Chained'
  <1> PICK s \in Sids : s = req[r].sid
    BY DEF FirstRefreshOK, Done, AuthInv, AuthType, RequestsNamed
  <1>1. /\ r \in Exchanging(s)
        /\ Exchanging(s)' = Exchanging(s) \ {r}
        /\ \A u \in Sids \ {s} : Exchanging(u)' = Exchanging(u)
    BY ExchangeEnds DEF AuthInv, FirstRefreshOK
  <1>2. /\ sessions' = sessions /\ codes' = codes
        /\ refresh'[t].sid = s
        /\ \A u \in Tokens \ {t} : refresh'[u] = refresh[u]
    BY DEF FirstRefreshOK, IssueRefresh, AuthInv, AuthType, AuthTypeOK, StoreTypeOK
  <1>3. sessions[s].kind # "absent"
    BY <1>1 DEF AuthInv, Chained, AbsentUnused
  <1>4. \A u \in Tokens \ {t} : Unspent(u)' <=> Unspent(u)
    BY <1>2 DEF Unspent, KnownToken, Known, Issued
  <1>5. codes[s] = Absent /\ Exchanging(s)' = {} /\ \A u \in Tokens : refresh[u].sid # s
    BY <1>1 DEF AuthInv, Chained, OneCredential
  <1>6. OneCredential'
    BY <1>1, <1>2, <1>4, <1>5 DEF AuthInv, Chained, OneCredential
  <1>7. AbsentUnused'
    BY <1>1, <1>2, <1>3 DEF AuthInv, Chained, AbsentUnused
  <1> QED BY <1>6, <1>7 DEF Chained

(* The spent token hands its place to the next one.                        *)
LEMMA RotateKeepsChain ==
    ASSUME AuthInv, NEW old \in Tokens, NEW next \in Tokens, RotateOK(old, next),
           UNCHANGED codes, \A u \in Sids : Exchanging(u)' \subseteq Exchanging(u)
    PROVE  Chained'
  <1> DEFINE s == refresh[old].sid
  <1>1. /\ s \in Sids /\ old # next /\ Unspent(old) /\ sessions[s].kind = "live"
    BY DEF RotateOK, Unspent, KnownToken, Issued, AuthInv, AuthType, AuthTypeOK, StoreTypeOK,
           refreshRecord
  <1>2. \A u \in Sids : sessions'[u].kind = sessions[u].kind
    BY <1>1 DEF RotateOK, AuthInv, AuthType, AuthTypeOK, StoreTypeOK, Session
  <1>3. /\ refresh'[next].sid = s
        /\ refresh'[old].sid = s /\ refresh'[old].used
        /\ \A u \in Tokens \ {old, next} : refresh'[u] = refresh[u]
    BY <1>1 DEF RotateOK, AuthInv, AuthType, AuthTypeOK, StoreTypeOK, refreshRecord
  <1>4. /\ ~Unspent(old)'
        /\ \A u \in Tokens \ {old, next} : Unspent(u)' => Unspent(u)
    BY <1>2, <1>3, StoreConstants
       DEF Unspent, KnownToken, Known, Issued, AuthInv, AuthType, AuthTypeOK, StoreTypeOK,
           refreshRecord
  <1> HIDE DEF s
  <1>5. codes[s] = Absent /\ Exchanging(s) = {}
    BY <1>1 DEF AuthInv, Chained, OneCredential, s
  <1>6. ASSUME NEW u \in Tokens \ {old, next}, refresh[u].sid = s
        PROVE  ~Unspent(u)
    BY <1>1, <1>6 DEF AuthInv, Chained, OneCredential, s
  <1>7. OneCredential'
    BY <1>1, <1>3, <1>4, <1>5, <1>6 DEF AuthInv, Chained, OneCredential
  <1>8. AbsentUnused'
    BY <1>1, <1>2, <1>3 DEF AuthInv, Chained, AbsentUnused
  <1> QED BY <1>7, <1>8 DEF Chained

LEMMA ChainedStep == AuthInv /\ [AuthNext]_authVars => Chained'
  <1> SUFFICES ASSUME AuthInv, [AuthNext]_authVars
               PROVE  Chained'
    OBVIOUS
  <1>1. CASE NothingGained
    BY <1>1, NothingGainedKeepsChain DEF AuthInv
  <1>2. ASSUME NEW r \in Requests, NEW old \in Tokens, NEW next \in Tokens,
               RefreshRotate(r, old, next) \/ RevokeByRefresh(r, old, next)
        PROVE  Chained'
    <2>1. refresh[old].sid \in Sids
      BY <1>2 DEF RefreshRotate, RevokeByRefresh, RotateOK, Unspent, KnownToken, Issued,
                  AuthInv, AuthType, AuthTypeOK, StoreTypeOK, refreshRecord
    <2>2. \A u \in Sids : Exchanging(u)' \subseteq Exchanging(u)
      BY <1>2, <2>1, ExchangingShrinks DEF RefreshRotate, RevokeByRefresh, AuthInv
    <2> QED
      BY <1>2, <2>2, RotateKeepsChain DEF RefreshRotate, RevokeByRefresh
  <1>3. CASE UNCHANGED authVars
    <2>1. NothingGained
      BY <1>3 DEF authVars, NothingGained, Exchanging, Unspent, KnownToken, Known, Issued
    <2> QED BY <1>1, <2>1
  <1>4. CASE AuthNext
    BY <1>1, <1>2, <1>4, QuietSteps, EnrollCreateKeepsChain, EnrollIssueCodeKeepsChain,
       ConsumeKeepsChain, FirstRefreshKeepsChain
       DEF AuthNext, AuthInv
  <1> QED BY <1>3, <1>4

LEMMA AuthInvStep == AuthInv /\ [AuthNext]_authVars => AuthInv'
  <1> SUFFICES ASSUME AuthInv, [AuthNext]_authVars
               PROVE  AuthInv'
    OBVIOUS
  <1>1. AuthType'
    BY AuthTypeStep DEF AuthInv
  <1>2. RevokedIsDead'
    BY AuthStepIsStoreStep, RevokedIsDeadStep DEF AuthInv, AuthType, AuthTypeOK
  <1> QED BY <1>1, <1>2, ChainedStep DEF AuthInv

LEMMA AuthInvInit == AuthInit => AuthInv
  <1> SUFFICES ASSUME AuthInit
               PROVE  AuthInv
    OBVIOUS
  <1>1. AuthType /\ RevokedIsDead
    BY AuthTypeInit, StoreInvInit DEF AuthInit
  <1>2. /\ \A s \in Sids : codes[s] = Absent /\ Exchanging(s) = {}
        /\ \A t \in Tokens : refresh[t].sid \notin Sids
    BY StoreConstants DEF AuthInit, StoreInit, Exchanging, Idle
  <1> QED BY <1>1, <1>2 DEF AuthInv, Chained, OneCredential, AbsentUnused

(* A code that is exchanged while another request presents it, a request   *)
(* overtaken by a revocation, a token presented twice: whatever the order, *)
(* a session is never handed out through two chains of credentials.        *)
THEOREM OneChainPerSession == AuthSpec => []OneCredential
  <1>1. AuthInv => OneCredential BY DEF AuthInv, Chained
  <1> QED BY <1>1, AuthInvInit, AuthInvStep, PTL DEF AuthSpec
---------------------------------------------------------------------------
(* The abstract family.                                                    *)

(* What the refinement mapping shows of a session.                         *)
CurrentIs ==
    /\ CurrentToken \in [Sids -> Tokens \cup {"none", "dead"}]
    /\ \A s \in Sids :
           /\ sessions[s].kind \in {"revoked", "lost"} => CurrentToken[s] = "dead"
           /\ /\ sessions[s].kind \notin {"revoked", "lost"}
              /\ \A t \in Tokens : Unspent(t) => refresh[t].sid # s
              => CurrentToken[s] = "none"
           /\ \A t \in Tokens : CurrentToken[s] = t <=> Unspent(t) /\ refresh[t].sid = s

LEMMA CurrentFacts == AuthInv => CurrentIs
  <1> SUFFICES ASSUME AuthInv
               PROVE  CurrentIs
    OBVIOUS
  <1> DEFINE Candidates(s) == {t \in Tokens : Unspent(t) /\ refresh[t].sid = s}
  <1>1. ASSUME NEW s \in Sids
        PROVE  /\ sessions[s].kind \in {"revoked", "lost"} => Candidates(s) = {}
               /\ \A t, u \in Candidates(s) : t = u
    BY DEF AuthInv, RevokedIsDead, Chained, OneCredential
  <1>2. ASSUME NEW s \in Sids
        PROVE  CurrentToken[s] = IF sessions[s].kind \in {"revoked", "lost"} THEN "dead"
                                 ELSE IF \E t \in Tokens : Unspent(t) /\ refresh[t].sid = s
                                 THEN CHOOSE t \in Tokens : Unspent(t) /\ refresh[t].sid = s
                                 ELSE "none"
    BY DEF CurrentToken
  <1>3. ASSUME NEW s \in Sids, sessions[s].kind \notin {"revoked", "lost"},
               NEW t \in Candidates(s)
        PROVE  CurrentToken[s] = t
    <2>1. CurrentToken[s] = CHOOSE u \in Tokens : Unspent(u) /\ refresh[u].sid = s
      BY <1>2, <1>3
    <2>2. (CHOOSE u \in Tokens : Unspent(u) /\ refresh[u].sid = s) \in Candidates(s)
      BY <1>3
    <2> QED BY <1>1, <2>1, <2>2
  <1>4. ASSUME NEW s \in Sids, Candidates(s) = {}
        PROVE  CurrentToken[s] \in {"none", "dead"}
    BY <1>2, <1>4
  <1>5. ASSUME NEW s \in Sids
        PROVE  CurrentToken[s] \in Tokens \cup {"none", "dead"}
    BY <1>1, <1>3, <1>4
  <1>6. CurrentToken \in [Sids -> Tokens \cup {"none", "dead"}]
    BY <1>5 DEF CurrentToken
  <1>7. ASSUME NEW s \in Sids, NEW t \in Tokens
        PROVE  CurrentToken[s] = t <=> t \in Candidates(s)
    <2>1. CASE Candidates(s) = {}
      BY <1>4, <2>1, FamilyConstants
    <2>2. CASE Candidates(s) # {}
      BY <1>1, <1>3, <2>2
    <2> QED BY <2>1, <2>2
  <1>8. ASSUME NEW s \in Sids
        PROVE  /\ sessions[s].kind \in {"revoked", "lost"} => CurrentToken[s] = "dead"
               /\ /\ sessions[s].kind \notin {"revoked", "lost"}
                  /\ \A t \in Tokens : Unspent(t) => refresh[t].sid # s
                  => CurrentToken[s] = "none"
    BY <1>2
  <1> QED BY <1>6, <1>7, <1>8 DEF CurrentIs

LEMMA CurrentFactsNext == AuthInv' => CurrentIs'
  BY CurrentFacts, PTL

(* Steps that leave kinds, owners and spent marks alone stutter.           *)
LEMMA FamilyStutters ==
    ASSUME CurrentIs, CurrentIs',
           \A s \in Sids : sessions'[s].kind = sessions[s].kind,
           \A t \in Tokens : /\ refresh'[t].sid = refresh[t].sid
                             /\ Unspent(t)' <=> Unspent(t)
    PROVE  UNCHANGED <<CurrentToken, SpentTokens>>
  <1>1. ASSUME NEW s \in Sids
        PROVE  CurrentToken'[s] = CurrentToken[s]
    <2>1. CASE CurrentToken[s] \in Tokens
      BY <2>1 DEF CurrentIs
    <2>2. CASE CurrentToken[s] \notin Tokens
      BY <2>2 DEF CurrentIs
    <2> QED BY <2>1, <2>2
  <1>2. SpentTokens' = SpentTokens
    BY DEF SpentTokens, Issued
  <1> QED BY <1>1, <1>2 DEF CurrentIs

(* Rotate exchanges the current token for a fresh one.                     *)
LEMMA RotateIsExchange ==
    ASSUME AuthInv, CurrentIs, CurrentIs',
           NEW old \in Tokens, NEW next \in Tokens, RotateOK(old, next)
    PROVE  Family!Exchange(refresh[old].sid, next)
  <1> DEFINE s == refresh[old].sid
  <1>1. /\ s \in Sids /\ old # next /\ Unspent(old) /\ sessions[s].kind = "live"
        /\ ~Issued(next)
    BY DEF RotateOK, Unspent, KnownToken, Issued, AuthInv, AuthType, AuthTypeOK, StoreTypeOK,
           refreshRecord
  <1>2. \A u \in Sids : sessions'[u].kind = sessions[u].kind
    BY <1>1 DEF RotateOK, AuthInv, AuthType, AuthTypeOK, StoreTypeOK, Session
  <1>3. /\ refresh'[next].sid = s /\ refresh'[next].used = FALSE
        /\ refresh'[old].sid = s /\ refresh'[old].used
        /\ \A u \in Tokens \ {old, next} : refresh'[u] = refresh[u]
    BY <1>1 DEF RotateOK, AuthInv, AuthType, AuthTypeOK, StoreTypeOK, refreshRecord
  <1>4. /\ ~Unspent(old)' /\ Unspent(next)'
        /\ Issued(old)' /\ Issued(next)' /\ Issued(old)
        /\ \A u \in Tokens \ {old, next} : /\ Unspent(u)' <=> Unspent(u)
                                           /\ Issued(u)' <=> Issued(u)
    BY <1>1, <1>2, <1>3, StoreConstants
       DEF Unspent, KnownToken, Known, Issued, AuthInv, AuthType, AuthTypeOK, StoreTypeOK,
           refreshRecord
  <1>5. ~Unspent(next)
    BY <1>1 DEF Unspent, KnownToken
  <1> HIDE DEF s
  <1>6. CurrentToken[s] = old /\ CurrentToken'[s] = next
    BY <1>1, <1>3, <1>4 DEF CurrentIs, s
  <1>7. ASSUME NEW u \in Sids \ {s}
        PROVE  CurrentToken'[u] = CurrentToken[u]
    <2>1. CASE CurrentToken[u] \in Tokens
      <3>1. CurrentToken[u] \in Tokens \ {old, next}
        BY <1>1, <1>5, <2>1 DEF CurrentIs, s
      <3> QED BY <1>3, <1>4, <3>1 DEF CurrentIs
    <2>2. CASE CurrentToken[u] \notin Tokens
      <3>1. \A t \in Tokens : ~(Unspent(t)' /\ refresh'[t].sid = u)
        BY <1>3, <1>4, <2>2 DEF CurrentIs
      <3>2. \A t \in Tokens : ~(Unspent(t) /\ refresh[t].sid = u)
        BY <2>2 DEF CurrentIs
      <3> QED BY <1>2, <3>1, <3>2 DEF CurrentIs
    <2> QED BY <2>1, <2>2
  <1>8. CurrentToken' = [CurrentToken EXCEPT ![s] = next]
    BY <1>1, <1>6, <1>7 DEF CurrentIs
  <1>9. SpentTokens' = SpentTokens \cup {CurrentToken[s]}
    BY <1>1, <1>4, <1>5, <1>6 DEF SpentTokens
  <1>10. next \notin SpentTokens /\ \A u \in Sids : CurrentToken[u] # next
    BY <1>1, <1>5 DEF SpentTokens, CurrentIs
  <1> QED
    BY <1>1, <1>6, <1>8, <1>9, <1>10 DEF Family!Exchange, Family!Fresh, s

(* The first token starts the chain of a session that had none.            *)
LEMMA IssueIsStart ==
    ASSUME AuthInv, CurrentIs, CurrentIs', NEW s \in Sids, NEW t \in Tokens,
           IssueRefresh(s, t), \A u \in Tokens : refresh[u].sid # s
    PROVE  Family!Start(s, t)
  <1>1. /\ sessions' = sessions /\ sessions[s].kind = "live" /\ ~Issued(t)
        /\ refresh'[t].sid = s /\ refresh'[t].used = FALSE
        /\ \A u \in Tokens \ {t} : refresh'[u] = refresh[u]
    BY DEF IssueRefresh, CanIssue, AuthInv, AuthType, AuthTypeOK, StoreTypeOK
  <1>2. /\ ~Unspent(t) /\ Unspent(t)' /\ Issued(t)'
        /\ \A u \in Tokens \ {t} : /\ Unspent(u)' <=> Unspent(u)
                                   /\ Issued(u)' <=> Issued(u)
    BY <1>1, StoreConstants DEF Unspent, KnownToken, Known, Issued
  <1>3. CurrentToken[s] = "none" /\ CurrentToken'[s] = t
    BY <1>1, <1>2 DEF CurrentIs
  <1>4. ASSUME NEW u \in Sids \ {s}
        PROVE  CurrentToken'[u] = CurrentToken[u]
    <2>1. CASE CurrentToken[u] \in Tokens
      <3>1. CurrentToken[u] \in Tokens \ {t}
        BY <1>2, <2>1 DEF CurrentIs
      <3> QED BY <1>1, <1>2, <3>1 DEF CurrentIs
    <2>2. CASE CurrentToken[u] \notin Tokens
      <3>1. \A v \in Tokens : ~(Unspent(v)' /\ refresh'[v].sid = u)
        BY <1>1, <1>2, <2>2 DEF CurrentIs
      <3>2. \A v \in Tokens : ~(Unspent(v) /\ refresh[v].sid = u)
        BY <2>2 DEF CurrentIs
      <3> QED BY <1>1, <3>1, <3>2 DEF CurrentIs
    <2> QED BY <2>1, <2>2
  <1>5. CurrentToken' = [CurrentToken EXCEPT ![s] = t]
    BY <1>3, <1>4 DEF CurrentIs
  <1>6. SpentTokens' = SpentTokens
    BY <1>1, <1>2 DEF SpentTokens
  <1>7. t \notin SpentTokens /\ \A u \in Sids : CurrentToken[u] # t
    BY <1>1, <1>2 DEF SpentTokens, CurrentIs
  <1> QED
    BY <1>3, <1>5, <1>6, <1>7 DEF Family!Start, Family!Fresh

(* Sessions of S die, with the tokens they had; nothing else changes.      *)
LEMMA DeathIsKill ==
    ASSUME CurrentIs, CurrentIs', NEW S \in SUBSET Sids,
           \A s \in S : sessions'[s].kind \in {"revoked", "lost"},
           \A s \in Sids \ S : sessions'[s].kind = sessions[s].kind,
           \A t \in Tokens : /\ refresh'[t].sid = refresh[t].sid
                             /\ Unspent(t)' => Unspent(t)
                             /\ refresh[t].sid \notin S => (Unspent(t)' <=> Unspent(t))
                             /\ Unspent(t) => Issued(t)
    PROVE  Family!Kill(S)
  <1>1. ASSUME NEW s \in S
        PROVE  CurrentToken'[s] = "dead"
    BY DEF CurrentIs
  <1>2. ASSUME NEW s \in Sids \ S
        PROVE  CurrentToken'[s] = CurrentToken[s]
    <2>1. CASE CurrentToken[s] \in Tokens
      BY <2>1 DEF CurrentIs
    <2>2. CASE CurrentToken[s] \notin Tokens
      <3>1. \A t \in Tokens : ~(Unspent(t)' /\ refresh'[t].sid = s)
        BY <2>2 DEF CurrentIs
      <3>2. \A t \in Tokens : ~(Unspent(t) /\ refresh[t].sid = s)
        BY <2>2 DEF CurrentIs
      <3> QED BY <3>1, <3>2 DEF CurrentIs
    <2> QED BY <2>1, <2>2
  <1>3. CurrentToken' = [s \in Sids |-> IF s \in S THEN "dead" ELSE CurrentToken[s]]
    BY <1>1, <1>2 DEF CurrentIs
  <1>4. ASSUME NEW t \in Tokens, refresh[t].sid \in S
        PROVE  ~Unspent(t)'
    <2>1. CurrentToken'[refresh[t].sid] # t
      BY <1>1, <1>4, FamilyConstants
    <2> QED BY <1>4, <2>1 DEF CurrentIs
  <1>5. ASSUME NEW t \in Tokens
        PROVE  t \in SpentTokens'
                   <=> t \in SpentTokens \/ \E s \in S : CurrentToken[s] = t
    <2>1. Issued(t)' <=> Issued(t)
      BY DEF Issued
    <2>2. (\E s \in S : CurrentToken[s] = t) <=> Unspent(t) /\ refresh[t].sid \in S
      BY DEF CurrentIs
    <2> QED BY <1>4, <2>1, <2>2 DEF SpentTokens
  <1>6. SpentTokens' = SpentTokens \cup {t \in Tokens : \E s \in S : CurrentToken[s] = t}
    BY <1>5 DEF SpentTokens
  <1> QED BY <1>3, <1>6 DEF Family!Kill

LEMMA FamilyStep ==
    AuthInv /\ AuthInv' /\ [AuthNext]_authVars
        => [Family!FamilyNext]_<<CurrentToken, SpentTokens>>
  <1> SUFFICES ASSUME AuthInv, AuthInv', [AuthNext]_authVars
               PROVE  [Family!FamilyNext]_<<CurrentToken, SpentTokens>>
    OBVIOUS
  <1> DEFINE Mapped == [Family!FamilyNext]_<<CurrentToken, SpentTokens>>
  <1>1. CurrentIs /\ CurrentIs' /\ StoreTypeOK
    BY CurrentFacts, CurrentFactsNext DEF AuthInv, AuthType, AuthTypeOK
  <1>2. CASE UNCHANGED storeVars
    <2>1. \A t \in Tokens : Unspent(t)' <=> Unspent(t)
      BY <1>2 DEF storeVars, Unspent, KnownToken, Known, Issued
    <2> QED BY <1>1, <1>2, <2>1, FamilyStutters DEF storeVars
  <1>3. CASE StoreTick
    <2>1. ASSUME NEW s \in Sids
          PROVE  sessions'[s].kind = sessions[s].kind
      BY <1>1, <1>3 DEF StoreTick, StoreTypeOK, Session
    <2>2. ASSUME NEW t \in Tokens
          PROVE  /\ refresh'[t].sid = refresh[t].sid
                 /\ refresh'[t].used = refresh[t].used
      BY <1>1, <1>3 DEF StoreTick, StoreTypeOK, refreshRecord
    <2>3. \A t \in Tokens : Unspent(t)' <=> Unspent(t)
      BY <1>1, <2>1, <2>2, StoreConstants
         DEF Unspent, KnownToken, Known, Issued, StoreTypeOK, refreshRecord
    <2> QED BY <1>1, <2>1, <2>2, <2>3, FamilyStutters
  <1>4. ASSUME NEW s \in Sids, Create(s)
        PROVE  Mapped
    <2>1. /\ refresh' = refresh /\ sessions[s].kind = "absent" /\ sessions'[s].kind = "live"
          /\ \A u \in Sids \ {s} : sessions'[u] = sessions[u]
      BY <1>1, <1>4 DEF Create, StoreTypeOK, Session
    <2>2. \A t \in Tokens : refresh[t].sid # s
      BY <2>1 DEF AuthInv, Chained, AbsentUnused
    <2>3. \A t \in Tokens : Unspent(t)' <=> Unspent(t)
      BY <1>1, <2>1, <2>2, StoreConstants
         DEF Unspent, KnownToken, Known, Issued, StoreTypeOK, refreshRecord
    <2>4. ASSUME NEW u \in Sids
          PROVE  CurrentToken'[u] = CurrentToken[u]
      <3>1. CASE CurrentToken[u] \in Tokens
        BY <1>1, <2>1, <2>3, <3>1 DEF CurrentIs
      <3>2. CASE CurrentToken[u] \notin Tokens
        <4>1. \A t \in Tokens : /\ ~(Unspent(t)' /\ refresh'[t].sid = u)
                                /\ ~(Unspent(t) /\ refresh[t].sid = u)
          BY <1>1, <2>1, <2>3, <3>2 DEF CurrentIs
        <4> QED BY <1>1, <2>1, <4>1 DEF CurrentIs
      <3> QED BY <3>1, <3>2
    <2>5. SpentTokens' = SpentTokens
      BY <2>1, <2>3 DEF SpentTokens, Issued
    <2> QED BY <1>1, <2>4, <2>5 DEF CurrentIs
  <1>5. ASSUME NEW r \in Requests, NEW t \in Tokens, FirstRefreshOK(r, t)
        PROVE  Mapped
    <2>1. PICK s \in Sids : s = req[r].sid
      BY <1>5 DEF FirstRefreshOK, Done, AuthInv, AuthType, RequestsNamed
    <2>2. r \in Exchanging(s)
      BY <1>5, <2>1 DEF FirstRefreshOK, Done, Exchanging
    <2>3. \A u \in Tokens : refresh[u].sid # s
      BY <2>2 DEF AuthInv, Chained, OneCredential
    <2>4. Family!Start(s, t)
      BY <1>1, <1>5, <2>1, <2>3, IssueIsStart DEF FirstRefreshOK
    <2> QED BY <2>4 DEF Family!FamilyNext
  <1>6. ASSUME NEW old \in Tokens, NEW next \in Tokens, RotateOK(old, next)
        PROVE  Mapped
    <2>1. refresh[old].sid \in Sids
      BY <1>1, <1>6 DEF RotateOK, Unspent, KnownToken, Issued, StoreTypeOK, refreshRecord
    <2> QED BY <1>1, <1>6, <2>1, RotateIsExchange DEF Family!FamilyNext
  <1>7. ASSUME NEW s \in Sids, refresh' = SpendFamily(s),
               sessions' = [sessions EXCEPT ![s].kind = "revoked"]
        PROVE  Mapped
    <2>1. /\ sessions'[s].kind = "revoked"
          /\ \A u \in Sids \ {s} : sessions'[u] = sessions[u]
      BY <1>1, <1>7 DEF StoreTypeOK, Session
    <2>2. ASSUME NEW t \in Tokens
          PROVE  /\ refresh'[t].sid = refresh[t].sid
                 /\ IF refresh[t].sid = s THEN refresh'[t].used
                                          ELSE refresh'[t] = refresh[t]
      BY <1>1, <1>7 DEF SpendFamily, StoreTypeOK, refreshRecord
    <2>3. ASSUME NEW t \in Tokens
          PROVE  /\ Unspent(t)' => Unspent(t)
                 /\ refresh[t].sid # s => (Unspent(t)' <=> Unspent(t))
                 /\ Unspent(t) => Issued(t)
      BY <1>1, <2>1, <2>2, StoreConstants
         DEF Unspent, KnownToken, Known, Issued, StoreTypeOK, refreshRecord
    <2>4. Family!Kill({s})
      BY <1>1, <2>1, <2>2, <2>3, DeathIsKill
    <2> QED BY <2>4 DEF Family!FamilyNext, Family!End
  <1>8. CASE StoreRestart
    <2> DEFINE S == {s \in Sids : Known(s)}
    <2>1. /\ \A s \in S : sessions'[s].kind = "lost"
          /\ \A s \in Sids \ S : sessions'[s].kind = sessions[s].kind
          /\ refresh' = refresh
      BY <1>1, <1>8 DEF StoreRestart, StoreTypeOK, Session
    <2>2. ASSUME NEW t \in Tokens
          PROVE  /\ Unspent(t)' => Unspent(t)
                 /\ refresh[t].sid \notin S => (Unspent(t)' <=> Unspent(t))
                 /\ Unspent(t) => Issued(t)
      BY <1>1, <2>1, StoreConstants
         DEF Unspent, KnownToken, Known, Issued, StoreTypeOK, refreshRecord
    <2>3. \A s \in Sids : CurrentToken[s] \in Tokens => s \in S
      BY <1>1 DEF CurrentIs, Unspent, KnownToken
    <2>4. PICK K \in SUBSET Sids : K = S
      OBVIOUS
    <2>5. Family!Kill(K)
      BY <1>1, <2>1, <2>2, <2>4, DeathIsKill
    <2> QED BY <2>3, <2>4, <2>5 DEF Family!FamilyNext, Family!EndAll
  <1>9. ASSUME NEW r \in Requests, RevokeSession(r)
        PROVE  Mapped
    <2>1. req[r].sid \in Sids
      BY <1>9 DEF RevokeSession, Goto, AuthInv, AuthType, RequestsNamed
    <2> QED BY <1>7, <1>9, <2>1 DEF RevokeSession, Revoke
  <1>10. ASSUME NEW t \in Tokens, RotateReused(t)
         PROVE  Mapped
    <2>1. refresh[t].sid \in Sids
      BY <1>1, <1>10 DEF RotateReused, KnownToken, Issued, StoreTypeOK, refreshRecord
    <2> QED BY <1>7, <1>10, <2>1 DEF RotateReused
  <1>11. CASE UNCHANGED authVars
    BY <1>2, <1>11 DEF authVars, storeVars
  <1> HIDE DEF Mapped
  <1>12. ASSUME NEW r \in Requests, NEW s \in Sids,
                \/ EnrollCreate(r, s) \/ ConsumeOK(r, s) \/ RevokeByAccess(r, s)
                \/ RevokeBySid(r, s) \/ DeniedElapsed(r, s)
         PROVE  Mapped
    BY <1>2, <1>4, <1>12
       DEF EnrollCreate, ConsumeOK, RevokeByAccess, RevokeBySid, DeniedElapsed, Mapped
  <1>13. ASSUME NEW r \in Requests,
                \/ EnrollIssueCode(r) \/ SessionActive(r) \/ SessionInactive(r)
                \/ MintFirst(r) \/ FirstRefreshFails(r) \/ RefreshMint(r)
                \/ RevokeUnknown(r) \/ DenyAdd(r) \/ DeniedForget(r) \/ Abort(r)
         PROVE  Mapped
    BY <1>2, <1>13
       DEF EnrollIssueCode, SessionActive, SessionInactive, MintFirst, FirstRefreshFails,
           RefreshMint, RevokeUnknown, DenyAdd, DeniedForget, Abort, Mapped
  <1>14. ASSUME NEW s \in Sids, ConsumeFails(s)
         PROVE  Mapped
    BY <1>2, <1>14 DEF ConsumeFails, Mapped
  <1>15. CASE AuthTick \/ Restart
    BY <1>3, <1>8, <1>15 DEF AuthTick, Restart, Mapped
  <1>16. CASE AuthNext
    BY <1>5, <1>6, <1>9, <1>10, <1>12, <1>13, <1>14, <1>15, <1>16
       DEF AuthNext, RefreshReused, RefreshRotate, RevokeByRefresh, RevokeByReused, Mapped
  <1> QED BY <1>11, <1>16 DEF Mapped

(* The server with all its races implements the abstract family: each      *)
(* session advances along one chain of one-time tokens, or ends.           *)
THEOREM ServerImplementsFamily == AuthSpec => RefinesFamily
  <1>1. AuthInit => Family!FamilyInit
    <2> SUFFICES ASSUME AuthInit
                 PROVE  Family!FamilyInit
      OBVIOUS
    <2>1. \A t \in Tokens : ~Issued(t) /\ ~Unspent(t)
      BY DEF AuthInit, StoreInit, Issued, Unspent, KnownToken
    <2>2. \A s \in Sids : sessions[s].kind = "absent"
      BY DEF AuthInit, StoreInit
    <2>3. CurrentToken = [s \in Sids |-> "none"]
      BY <2>1, <2>2, AuthInvInit, CurrentFacts DEF CurrentIs
    <2>4. SpentTokens = {}
      BY <2>1 DEF SpentTokens
    <2> QED BY <2>3, <2>4 DEF Family!FamilyInit
  <1> QED
    BY <1>1, AuthInvInit, AuthInvStep, FamilyStep, PTL
       DEF AuthSpec, RefinesFamily, Family!FamilySpec, Family!familyVars
---------------------------------------------------------------------------
(* How long a revocation takes to bite.                                    *)

(* A dead session stays dead, and only a restart forgets one.              *)
LEMMA DeadStaysDead ==
    ASSUME AuthType, AuthNext, NEW s \in Sids
    PROVE  /\ sessions[s].kind \in {"revoked", "lost"}
                  => sessions'[s].kind \in {"revoked", "lost"}
           /\ ~Restart => /\ Revoked(s) => Revoked(s)'
                          /\ Known(s) => Known(s)'
  <1> DEFINE Kept == /\ Revoked(s) => Revoked(s)'
                     /\ Known(s) => Known(s)'
                     /\ sessions[s].kind \in {"revoked", "lost"}
                            => sessions'[s].kind \in {"revoked", "lost"}
  <1> USE StoreConstants DEF AuthType, AuthTypeOK, StoreTypeOK, Session, Revoked, Known
  <1>1. CASE Restart
    BY <1>1 DEF Restart, StoreRestart
  <1>2. CASE UNCHANGED storeVars
    BY <1>2 DEF storeVars
  <1>3. ASSUME NEW u \in Sids, Create(u) \/ Revoke(u)
        PROVE  Kept
    BY <1>3 DEF Create, Revoke
  <1>4. ASSUME NEW u \in Sids, NEW t \in Tokens, IssueRefresh(u, t)
        PROVE  Kept
    BY <1>4 DEF IssueRefresh
  <1>5. ASSUME NEW t \in Tokens, RotateReused(t)
        PROVE  Kept
    BY <1>5 DEF RotateReused
  <1>6. ASSUME NEW old \in Tokens, NEW next \in Tokens, RotateOK(old, next)
        PROVE  Kept
    BY <1>6 DEF RotateOK
  <1>7. CASE StoreTick
    BY <1>7 DEF StoreTick
  <1>8. Kept \/ Restart
    <2> HIDE DEF Kept
    <2>1. CASE UNCHANGED storeVars
      BY <1>2, <2>1 DEF Kept
    <2> QED
      BY <1>3, <1>4, <1>5, <1>6, <1>7, <2>1, AuthStepStoreOperation DEF StoreOperation, Kept
  <1> QED BY <1>1, <1>8

(* A client's newest access token gets younger only when one is delivered. *)
LEMMA AccessSteps ==
    ASSUME AuthType, AuthNext, NEW s \in Sids
    PROVE  \/ access'[s] <= access[s] /\ ~AuthTick
           \/ AuthTick /\ access'[s] = Elapse(access[s])
           \/ sessions[s].kind = "live" /\ sessions'[s].kind = "live" /\ ~AuthTick
           \/ (\E r \in Requests : RefreshMint(r) /\ req[r].sid = s) /\ ~AuthTick
  <1> DEFINE Ok == \/ access'[s] <= access[s] /\ ~AuthTick
                   \/ AuthTick /\ access'[s] = Elapse(access[s])
                   \/ sessions[s].kind = "live" /\ sessions'[s].kind = "live" /\ ~AuthTick
                   \/ (\E r \in Requests : RefreshMint(r) /\ req[r].sid = s) /\ ~AuthTick
  <1> USE AuthConstants DEF AuthType, AuthTypeOK
  <1>1. CASE AuthTick
    BY <1>1 DEF AuthTick
  <1>2. CASE UNCHANGED access
    BY <1>1, <1>2
  <1>3. CASE Restart
    BY <1>1, <1>3 DEF Restart
  <1>4. ASSUME NEW r \in Requests, NEW t \in Tokens, FirstRefreshOK(r, t)
        PROVE  Ok
    BY <1>1, <1>4 DEF FirstRefreshOK, IssueRefresh, CanIssue, Deliver
  <1>5. ASSUME NEW r \in Requests, RefreshMint(r)
        PROVE  Ok
    <2>1. CASE req[r].sid = s
      BY <1>1, <1>5, <2>1
    <2>2. CASE req[r].sid # s
      <3>1. access'[s] = access[s]
        BY <1>5, <2>2 DEF RefreshMint, Deliver
      <3> QED BY <1>1, <3>1
    <2> QED BY <2>1, <2>2
  <1>6. ASSUME NEW r \in Requests, NEW u \in Sids,
               \/ EnrollCreate(r, u) \/ ConsumeOK(r, u) \/ RevokeByAccess(r, u)
               \/ RevokeBySid(r, u) \/ DeniedElapsed(r, u)
        PROVE  UNCHANGED access
    BY <1>6 DEF EnrollCreate, ConsumeOK, RevokeByAccess, RevokeBySid, DeniedElapsed
  <1>7. ASSUME NEW r \in Requests,
               \/ EnrollIssueCode(r) \/ SessionActive(r) \/ SessionInactive(r)
               \/ MintFirst(r) \/ FirstRefreshFails(r) \/ RevokeSession(r)
               \/ RevokeUnknown(r) \/ DenyAdd(r) \/ DeniedForget(r) \/ Abort(r)
        PROVE  UNCHANGED access
    BY <1>7 DEF EnrollIssueCode, SessionActive, SessionInactive, MintFirst,
                FirstRefreshFails, RevokeSession, RevokeUnknown, DenyAdd, DeniedForget, Abort
  <1>8. ASSUME NEW u \in Sids, ConsumeFails(u)
        PROVE  UNCHANGED access
    BY <1>8 DEF ConsumeFails
  <1> HIDE DEF Ok
  <1> QED
    BY <1>1, <1>2, <1>3, <1>4, <1>5, <1>6, <1>7, <1>8
       DEF AuthNext, RefreshReused, RefreshRotate, RevokeByRefresh, RevokeByReused, Ok

(* A denylist entry is kept, renewed, aged, forgotten or lost.             *)
LEMMA DenySteps ==
    ASSUME AuthType, AuthNext, NEW s \in Sids
    PROVE  \/ deny'[s] = deny[s] /\ ~AuthTick
           \/ AuthTick /\ deny'[s] = ElapseEntry(deny[s])
           \/ \E r \in Requests : DenyAdd(r) /\ req[r].sid = s
           \/ \E r \in Requests : DeniedForget(r) /\ req[r].sid = s
           \/ Restart
  <1> DEFINE Ok == \/ deny'[s] = deny[s] /\ ~AuthTick
                   \/ AuthTick /\ deny'[s] = ElapseEntry(deny[s])
                   \/ \E r \in Requests : DenyAdd(r) /\ req[r].sid = s
                   \/ \E r \in Requests : DeniedForget(r) /\ req[r].sid = s
                   \/ Restart
  <1>1. CASE AuthTick
    BY <1>1 DEF AuthTick
  <1>2. CASE UNCHANGED deny
    BY <1>1, <1>2
  <1>3. ASSUME NEW r \in Requests, DenyAdd(r) \/ DeniedForget(r)
        PROVE  Ok
    <2>1. CASE req[r].sid = s
      BY <1>3, <2>1
    <2>2. CASE req[r].sid # s
      <3>1. deny'[s] = deny[s]
        BY <1>3, <2>2 DEF DenyAdd, DeniedForget, AuthType, AuthTypeOK
      <3> QED BY <1>1, <3>1
    <2> QED BY <2>1, <2>2
  <1>4. ASSUME NEW r \in Requests, NEW u \in Sids,
               \/ EnrollCreate(r, u) \/ ConsumeOK(r, u) \/ RevokeByAccess(r, u)
               \/ RevokeBySid(r, u) \/ DeniedElapsed(r, u)
        PROVE  UNCHANGED deny
    BY <1>4 DEF EnrollCreate, ConsumeOK, RevokeByAccess, RevokeBySid, DeniedElapsed
  <1>5. ASSUME NEW r \in Requests,
               \/ EnrollIssueCode(r) \/ SessionActive(r) \/ SessionInactive(r)
               \/ MintFirst(r) \/ FirstRefreshFails(r) \/ RefreshMint(r)
               \/ RevokeSession(r) \/ RevokeUnknown(r) \/ Abort(r)
        PROVE  UNCHANGED deny
    BY <1>5 DEF EnrollIssueCode, SessionActive, SessionInactive, MintFirst,
                FirstRefreshFails, RefreshMint, RevokeSession, RevokeUnknown, Abort
  <1>6. ASSUME NEW u \in Sids, ConsumeFails(u)
        PROVE  UNCHANGED deny
    BY <1>6 DEF ConsumeFails
  <1>7. ASSUME NEW r \in Requests, NEW t \in Tokens, FirstRefreshOK(r, t)
        PROVE  UNCHANGED deny
    BY <1>7 DEF FirstRefreshOK
  <1> HIDE DEF Ok
  <1> QED
    BY <1>1, <1>2, <1>3, <1>4, <1>5, <1>6, <1>7
       DEF AuthNext, RefreshReused, RefreshRotate, RevokeByRefresh, RevokeByReused, Ok

(* What a session's marks say of its tokens, and what a request that is    *)
(* about to forget, to deny or to mint says of its session.                *)
MarksTrue ==
    \A s \in Sids :
        /\ deny[s] # Absent => added[s]
        /\ added[s] => Revoked(s)
        /\ added[s] /\ ~late[s] => access[s] <= deny[s]
        /\ grace[s] # Absent => sessions[s].kind \in {"revoked", "lost"}
        /\ grace[s] # Absent /\ ~late[s] => access[s] <= grace[s]

RequestsTrue ==
    \A r \in Requests :
        /\ req[r].step = "forget" => late[req[r].sid]
        /\ req[r].step \in {"deny", "denyReused"} => Revoked(req[r].sid)
        /\ req[r].step = "mintRefreshed" => Known(req[r].sid)

HistoryTypeOK ==
    /\ grace \in [Sids -> Absent .. AccessTokenTTL]
    /\ added \in [Sids -> BOOLEAN]
    /\ late \in [Sids -> BOOLEAN]

RevocationInv == AuthType /\ HistoryTypeOK /\ MarksTrue /\ RequestsTrue

LEMMA HistoryTypeStep ==
    ASSUME HistoryTypeOK, AuthHNext
    PROVE  HistoryTypeOK'
  <1>1. grace' \in [Sids -> Absent .. AccessTokenTTL]
    <2>1. \A left \in Absent .. AccessTokenTTL : ElapseEntry(left) \in Absent .. AccessTokenTTL
      BY ElapseEntryFacts, AuthConstants
    <2>2. AccessTokenTTL \in Absent .. AccessTokenTTL
      BY AuthConstants DEF Absent
    <2> QED BY <2>1, <2>2 DEF HistoryTypeOK, AuthHNext, RecordGrace
  <1>2. added' \in [Sids -> BOOLEAN]
    BY DEF AuthHNext, RecordAdded
  <1>3. late' \in [Sids -> BOOLEAN]
    BY DEF HistoryTypeOK, AuthHNext, RecordLate
  <1> QED BY <1>1, <1>2, <1>3 DEF HistoryTypeOK

(* How a request comes to be about to forget, to deny or to mint.          *)
LEMMA RequestEntry ==
    ASSUME AuthType, AuthNext, NEW r \in Requests,
           req'[r].step \in {"forget", "deny", "denyReused", "mintRefreshed"}
    PROVE  \/ req'[r].step = req[r].step /\ req'[r].sid = req[r].sid /\ ~Restart
           \/ req'[r].step = "forget" /\ deny[req'[r].sid] = -1 /\ access[req'[r].sid] >= 0
           \/ req'[r].step \in {"deny", "denyReused"} /\ sessions'[req'[r].sid].kind = "revoked"
           \/ req'[r].step = "mintRefreshed" /\ sessions'[req'[r].sid].kind = "live"
  <1> DEFINE Ok ==
        \/ req'[r].step = req[r].step /\ req'[r].sid = req[r].sid
        \/ req'[r].step = "forget" /\ deny[req'[r].sid] = -1 /\ access[req'[r].sid] >= 0
        \/ req'[r].step \in {"deny", "denyReused"} /\ sessions'[req'[r].sid].kind = "revoked"
        \/ req'[r].step = "mintRefreshed" /\ sessions'[req'[r].sid].kind = "live"
  <1> USE DEF AuthType, AuthTypeOK, Request
  <1>1. ~Restart
    BY DEF Restart, Idle
  <1>2. ASSUME NEW q \in Requests, NEW s \in Sids,
               NEW step \in {"issueCode", "checkSession", "revoke"},
               Begin(q, step, s)
        PROVE  Ok
    BY <1>2 DEF Begin
  <1>3. ASSUME NEW q \in Requests, NEW s \in Sids, DeniedElapsed(q, s)
        PROVE  Ok
    BY <1>3 DEF DeniedElapsed, Begin
  <1>4. ASSUME NEW q \in Requests, Ends(q)
        PROVE  Ok
    BY <1>4 DEF Ends, Done, Idle
  <1>5. ASSUME NEW q \in Requests, SessionActive(q) \/ MintFirst(q)
        PROVE  Ok
    <2>1. CASE q = r
      BY <1>5, <2>1 DEF SessionActive, MintFirst, Goto
    <2>2. CASE q # r
      BY <1>5, <2>2 DEF SessionActive, MintFirst, Goto
    <2> QED BY <2>1, <2>2
  <1>6. ASSUME NEW q \in Requests, RevokeSession(q)
        PROVE  Ok
    <2>1. CASE q = r
      <3>1. req[q].sid \in Sids /\ req'[q].step = "deny" /\ req'[q].sid = req[q].sid
        BY <1>6 DEF RevokeSession, Goto, RequestsNamed
      <3>2. sessions'[req[q].sid].kind = "revoked"
        BY <1>6, <3>1 DEF RevokeSession, Revoke, StoreTypeOK, Session
      <3> QED BY <2>1, <3>1, <3>2
    <2>2. CASE q # r
      BY <1>6, <2>2 DEF RevokeSession, Goto
    <2> QED BY <2>1, <2>2
  <1>7. ASSUME NEW q \in Requests, NEW t \in Tokens, RefreshReused(q, t)
        PROVE  Ok
    <2>1. CASE q = r
      <3>1. /\ refresh[t].sid \in Sids
            /\ req'[q].step = "denyReused" /\ req'[q].sid = refresh[t].sid
        BY <1>7 DEF RefreshReused, RotateReused, KnownToken, Issued, Begin, StoreTypeOK,
                    refreshRecord
      <3>2. sessions'[refresh[t].sid].kind = "revoked"
        BY <1>7, <3>1 DEF RefreshReused, RotateReused, StoreTypeOK, Session
      <3> QED BY <2>1, <3>1, <3>2
    <2>2. CASE q # r
      BY <1>7, <2>2 DEF RefreshReused, Begin
    <2> QED BY <2>1, <2>2
  <1>8. ASSUME NEW q \in Requests, NEW old \in Tokens, NEW next \in Tokens,
               RefreshRotate(q, old, next) \/ RevokeByRefresh(q, old, next)
        PROVE  Ok
    <2>1. CASE q = r
      <3>1. refresh[old].sid \in Sids
        BY <1>8 DEF RefreshRotate, RevokeByRefresh, RotateOK, Unspent, KnownToken, Issued,
                    StoreTypeOK, refreshRecord
      <3>2. sessions'[refresh[old].sid].kind = "live"
        BY <1>8, <3>1 DEF RefreshRotate, RevokeByRefresh, RotateOK, StoreTypeOK, Session
      <3>3. req'[r].sid = refresh[old].sid /\ req'[r].step \in {"mintRefreshed", "revoke"}
        BY <1>8, <2>1 DEF RefreshRotate, RevokeByRefresh, Begin
      <3> QED BY <3>2, <3>3
    <2>2. CASE q # r
      BY <1>8, <2>2 DEF RefreshRotate, RevokeByRefresh, Begin
    <2> QED BY <2>1, <2>2
  <1>9. CASE AuthTick
    BY <1>1, <1>9 DEF AuthTick
  <1>10. CASE UNCHANGED req
    BY <1>1, <1>10
  <1>11. ASSUME NEW q \in Requests,
                \/ EnrollIssueCode(q) \/ SessionInactive(q) \/ FirstRefreshFails(q)
                \/ RefreshMint(q) \/ RevokeUnknown(q) \/ DenyAdd(q) \/ DeniedForget(q)
                \/ Abort(q) \/ \E t \in Tokens : FirstRefreshOK(q, t)
         PROVE  Ends(q)
    BY <1>11 DEF EnrollIssueCode, SessionInactive, FirstRefreshFails, RefreshMint,
                 RevokeUnknown, DenyAdd, DeniedForget, Abort, FirstRefreshOK, Ends, Step
  <1>12. ASSUME NEW q \in Requests, NEW s \in Sids,
                \/ EnrollCreate(q, s) \/ ConsumeOK(q, s) \/ RevokeByAccess(q, s)
                \/ RevokeBySid(q, s)
         PROVE  Ok
    BY <1>2, <1>12 DEF EnrollCreate, ConsumeOK, RevokeByAccess, RevokeBySid
  <1>13. ASSUME NEW s \in Sids, ConsumeFails(s)
         PROVE  UNCHANGED req
    BY <1>13 DEF ConsumeFails
  <1>14. ASSUME NEW t \in Tokens, RevokeByReused(t)
         PROVE  UNCHANGED req
    BY <1>14 DEF RevokeByReused
  <1>15. Ok
    <2> HIDE DEF Ok
    <2>1. CASE UNCHANGED req
      BY <1>10, <2>1 DEF Ok
    <2>2. CASE AuthTick
      BY <1>9, <2>2 DEF Ok
    <2> QED
      BY <1>1, <1>3, <1>4, <1>5, <1>6, <1>7, <1>8, <1>11, <1>12, <1>13, <1>14, <2>1, <2>2
         DEF AuthNext
  <1> QED BY <1>1, <1>15

LEMMA RequestsTrueStep ==
    ASSUME RevocationInv, AuthHNext
    PROVE  RequestsTrue'
  <1> SUFFICES ASSUME NEW r \in Requests,
                      req'[r].step \in {"forget", "deny", "denyReused", "mintRefreshed"}
               PROVE  /\ req'[r].step = "forget" => late'[req'[r].sid]
                      /\ req'[r].step \in {"deny", "denyReused"} => Revoked(req[r].sid)'
                      /\ req'[r].step = "mintRefreshed" => Known(req[r].sid)'
    BY DEF RequestsTrue
  <1>1. AuthType /\ AuthType' /\ AuthNext
    BY AuthTypeStep DEF RevocationInv, AuthHNext
  <1>2. req'[r].sid \in Sids
    BY <1>1 DEF AuthType, RequestsNamed
  <1>3. ASSUME NEW s \in Sids, late[s]
        PROVE  late'[s]
    BY <1>3 DEF AuthHNext, RecordLate
  <1>4. CASE req'[r].step = req[r].step /\ req'[r].sid = req[r].sid /\ ~Restart
    <2>1. /\ Revoked(req[r].sid) => sessions'[req'[r].sid].kind = "revoked"
          /\ Known(req[r].sid) => sessions'[req'[r].sid].kind \in {"live", "revoked"}
      BY <1>1, <1>2, <1>4, DeadStaysDead DEF Revoked, Known
    <2> QED
      BY <1>2, <1>3, <1>4, <2>1 DEF RevocationInv, RequestsTrue, Revoked, Known
  <1>5. CASE req'[r].step = "forget" /\ deny[req'[r].sid] = -1 /\ access[req'[r].sid] >= 0
    <2>1. PICK s \in Sids : s = req'[r].sid
      BY <1>2
    <2>2. /\ deny[s] = -1 /\ access[s] >= 0 /\ access[s] \in Int
      BY <1>1, <1>5, <2>1 DEF AuthType, AuthTypeOK
    <2>3. late[s]
      BY <2>2 DEF RevocationInv, HistoryTypeOK, MarksTrue, Absent
    <2> QED BY <1>3, <1>5, <2>1, <2>3
  <1>6. CASE \/ req'[r].step \in {"deny", "denyReused"}
                    /\ sessions'[req'[r].sid].kind = "revoked"
             \/ req'[r].step = "mintRefreshed" /\ sessions'[req'[r].sid].kind = "live"
    BY <1>6 DEF Revoked, Known
  <1> QED BY <1>1, <1>4, <1>5, <1>6, RequestEntry

LEMMA ElapseOrder ==
    ASSUME NEW a \in Int, NEW b \in Int, a >= -1, b >= -1, a <= b
    PROVE  Elapse(a) <= ElapseEntry(b) /\ ElapseEntry(b) # Absent
  BY DEF Elapse, ElapseEntry, Absent

LEMMA MarksTrueStep ==
    ASSUME RevocationInv, AuthHNext
    PROVE  MarksTrue'
  <1> SUFFICES ASSUME NEW s \in Sids
               PROVE  /\ deny'[s] # Absent => added'[s]
                      /\ added'[s] => Revoked(s)'
                      /\ added'[s] /\ ~late'[s] => access'[s] <= deny'[s]
                      /\ grace'[s] # Absent => sessions'[s].kind \in {"revoked", "lost"}
                      /\ grace'[s] # Absent /\ ~late'[s] => access'[s] <= grace'[s]
    BY DEF MarksTrue
  <1>1. AuthType /\ AuthType' /\ AuthNext /\ HistoryTypeOK'
    BY AuthTypeStep, HistoryTypeStep DEF RevocationInv, AuthHNext
  <1>2. /\ deny[s] \in Absent .. AccessTokenTTL /\ access[s] \in -1 .. AccessTokenTTL
        /\ deny'[s] \in Absent .. AccessTokenTTL /\ access'[s] \in -1 .. AccessTokenTTL
        /\ grace[s] \in Absent .. AccessTokenTTL /\ grace'[s] \in Absent .. AccessTokenTTL
        /\ AccessTokenTTL \in Nat
    BY <1>1, AuthConstants DEF AuthType, AuthTypeOK, HistoryTypeOK, RevocationInv
  <1>3. /\ deny[s] # Absent => added[s]
        /\ added[s] => Revoked(s)
        /\ added[s] /\ ~late[s] => access[s] <= deny[s]
        /\ grace[s] # Absent => sessions[s].kind \in {"revoked", "lost"}
        /\ grace[s] # Absent /\ ~late[s] => access[s] <= grace[s]
    BY DEF RevocationInv, MarksTrue
  <1>4. /\ added'[s] = (\/ \E r \in Requests : DenyAdd(r) /\ req[r].sid = s
                        \/ added[s] /\ ~Restart)
        /\ late'[s] = (\/ late[s]
                       \/ /\ Revoked(s)
                          /\ \E r \in Requests : RefreshMint(r) /\ req[r].sid = s)
        /\ grace'[s] = IF ~Revoked(s) /\ Revoked(s)' THEN AccessTokenTTL
                       ELSE IF AuthTick THEN ElapseEntry(grace[s]) ELSE grace[s]
    BY DEF AuthHNext, RecordAdded, RecordLate, RecordGrace
  <1>5. ASSUME NEW r \in Requests, DenyAdd(r), req[r].sid = s
        PROVE  Revoked(s) /\ ~Restart /\ deny'[s] = AccessTokenTTL
    <2>1. Revoked(s)
      BY <1>5 DEF DenyAdd, Done, RevocationInv, RequestsTrue
    <2>2. deny'[s] = AccessTokenTTL
      BY <1>1, <1>5 DEF DenyAdd, AuthType, AuthTypeOK
    <2>3. ~Restart
      BY <1>2, <2>2 DEF Restart, Absent
    <2> QED BY <2>1, <2>2, <2>3
  <1>6. ASSUME NEW r \in Requests, DeniedForget(r), req[r].sid = s
        PROVE  late[s] /\ deny'[s] = Absent
    <2>1. late[s]
      BY <1>6 DEF DeniedForget, Done, RevocationInv, RequestsTrue
    <2>2. deny'[s] = Absent
      BY <1>1, <1>6 DEF DeniedForget, AuthType, AuthTypeOK
    <2> QED BY <2>1, <2>2
  <1>7. ASSUME NEW r \in Requests, RefreshMint(r), req[r].sid = s
        PROVE  Known(s)
    BY <1>7 DEF RefreshMint, Done, RevocationInv, RequestsTrue
  <1>8. ASSUME ~late'[s], sessions[s].kind \in {"revoked", "lost"}
        PROVE  \/ access'[s] <= access[s] /\ ~AuthTick
               \/ AuthTick /\ access'[s] = Elapse(access[s])
    <2>1. ASSUME NEW r \in Requests, RefreshMint(r), req[r].sid = s
          PROVE  FALSE
      <3>1. Revoked(s)
        BY <1>7, <1>8, <2>1 DEF Known, Revoked
      <3> QED BY <1>4, <1>8, <2>1, <3>1
    <2> QED BY <1>1, <1>8, <2>1, AccessSteps
  <1>9. /\ sessions[s].kind \in {"revoked", "lost"} => sessions'[s].kind \in {"revoked", "lost"}
        /\ ~Restart => (Revoked(s) => Revoked(s)')
    BY <1>1, DeadStaysDead
  <1>10. Restart => deny'[s] = Absent
    BY DEF Restart
  <1>11. deny'[s] # Absent => added'[s]
    <2>1. CASE \E r \in Requests : DenyAdd(r) /\ req[r].sid = s
      BY <1>4, <2>1
    <2>2. CASE deny'[s] = deny[s] \/ deny'[s] = ElapseEntry(deny[s])
      BY <1>3, <1>4, <1>10, <2>2 DEF ElapseEntry
    <2> QED BY <1>1, <1>6, <1>10, <2>1, <2>2, DenySteps
  <1>12. added'[s] => Revoked(s)'
    BY <1>3, <1>4, <1>5, <1>9
  <1>13. ASSUME added'[s], ~late'[s]
         PROVE  access'[s] <= deny'[s]
    <2>1. CASE \E r \in Requests : DenyAdd(r) /\ req[r].sid = s
      BY <1>2, <1>5, <2>1
    <2>2. CASE ~\E r \in Requests : DenyAdd(r) /\ req[r].sid = s
      <3>1. added[s] /\ ~Restart /\ ~late[s] /\ Revoked(s) /\ access[s] <= deny[s]
        BY <1>3, <1>4, <1>13, <2>2
      <3>2. \/ deny'[s] = deny[s] /\ ~AuthTick
            \/ AuthTick /\ deny'[s] = ElapseEntry(deny[s])
        BY <1>1, <1>6, <2>2, <3>1, DenySteps
      <3>3. \/ access'[s] <= access[s] /\ ~AuthTick
            \/ AuthTick /\ access'[s] = Elapse(access[s])
        BY <1>8, <1>13, <3>1 DEF Revoked
      <3>4. Elapse(access[s]) <= ElapseEntry(deny[s])
        BY <1>2, <3>1, ElapseOrder
      <3> QED BY <1>2, <3>1, <3>2, <3>3, <3>4
    <2> QED BY <2>1, <2>2
  <1>14. grace'[s] # Absent => sessions'[s].kind \in {"revoked", "lost"}
    <2>1. CASE ~Revoked(s) /\ Revoked(s)'
      BY <2>1 DEF Revoked
    <2>2. CASE ~(~Revoked(s) /\ Revoked(s)')
      BY <1>3, <1>4, <1>9, <2>2 DEF ElapseEntry
    <2> QED BY <2>1, <2>2
  <1>15. ASSUME grace'[s] # Absent, ~late'[s]
         PROVE  access'[s] <= grace'[s]
    <2>1. CASE ~Revoked(s) /\ Revoked(s)'
      BY <1>2, <1>4, <2>1
    <2>2. CASE ~(~Revoked(s) /\ Revoked(s)')
      <3>1. /\ grace[s] # Absent /\ ~late[s] /\ access[s] <= grace[s]
            /\ sessions[s].kind \in {"revoked", "lost"}
        BY <1>3, <1>4, <1>15, <2>2 DEF ElapseEntry
      <3>2. \/ access'[s] <= access[s] /\ ~AuthTick
            \/ AuthTick /\ access'[s] = Elapse(access[s])
        BY <1>8, <1>15, <3>1
      <3>3. Elapse(access[s]) <= ElapseEntry(grace[s])
        BY <1>2, <3>1, ElapseOrder DEF Absent
      <3> QED BY <1>2, <1>4, <2>2, <3>1, <3>2, <3>3
    <2> QED BY <2>1, <2>2
  <1> QED BY <1>11, <1>12, <1>13, <1>14, <1>15

LEMMA RevocationInvStep == RevocationInv /\ [AuthHNext]_authHVars => RevocationInv'
  <1> SUFFICES ASSUME RevocationInv, [AuthHNext]_authHVars
               PROVE  RevocationInv'
    OBVIOUS
  <1>1. CASE AuthHNext
    <2>1. AuthType'
      BY <1>1, AuthTypeStep DEF RevocationInv, AuthHNext
    <2> QED
      BY <1>1, <2>1, HistoryTypeStep, MarksTrueStep, RequestsTrueStep DEF RevocationInv
  <1>2. CASE UNCHANGED authHVars
    <2>1. AuthType'
      BY <1>2, AuthTypeStep DEF RevocationInv, authHVars
    <2> QED
      BY <1>2, <2>1 DEF RevocationInv, authHVars, authVars, HistoryTypeOK, MarksTrue,
                        RequestsTrue, Revoked, Known
  <1> QED BY <1>1, <1>2

LEMMA RevocationInvInit == AuthHInit => RevocationInv
  <1> SUFFICES ASSUME AuthHInit
               PROVE  RevocationInv
    OBVIOUS
  <1>1. AuthType
    BY AuthTypeInit DEF AuthHInit
  <1>2. HistoryTypeOK
    BY AuthConstants DEF AuthHInit, HistoryTypeOK, Absent
  <1>3. MarksTrue /\ RequestsTrue
    BY DEF AuthHInit, AuthInit, MarksTrue, RequestsTrue, Idle
  <1> QED BY <1>1, <1>2, <1>3 DEF RevocationInv

(* denylist.go:16-18 holds for every token minted before the revocation:   *)
(* an entry lives as long as any token it has to stop, however handlers,   *)
(* sweeps and the clock interleave.                                        *)
THEOREM DenylistOutlivesTokens == AuthHSpec => []DenyOutlivesTokens
  <1>1. RevocationInv => DenyOutlivesTokens
    <2> SUFFICES ASSUME RevocationInv, NEW s \in Sids, added[s], ~late[s], access[s] >= 0
                 PROVE  deny[s] >= 0
      BY DEF DenyOutlivesTokens, Accepted, Denied
    <2>1. access[s] \in Int /\ deny[s] \in Int
      BY DEF RevocationInv, AuthType, AuthTypeOK, Absent
    <2> QED BY <2>1 DEF RevocationInv, MarksTrue
  <1> QED BY <1>1, RevocationInvInit, RevocationInvStep, PTL DEF AuthHSpec

(* One access-token lifetime bounds every revocation, with or without a    *)
(* denylist entry and across a restart that lost it.                       *)
THEOREM RevocationTakesEffect == AuthHSpec => []RevocationBounded
  <1>1. RevocationInv => RevocationBounded
    <2> SUFFICES ASSUME RevocationInv, NEW s \in Sids, grace[s] = -1, ~late[s]
                 PROVE  access[s] < 0
      BY DEF RevocationBounded
    <2>1. access[s] \in Int
      BY DEF RevocationInv, AuthType, AuthTypeOK
    <2> QED BY <2>1 DEF RevocationInv, MarksTrue, Absent
  <1> QED BY <1>1, RevocationInvInit, RevocationInvStep, PTL DEF AuthHSpec
=============================================================================
