----------------------------- MODULE AuthServer -----------------------------
(***************************************************************************)
(* The authorization server of internal/auth: enrollment, authorization    *)
(* codes, access tokens, refresh, revocation and the denylist, with HTTP   *)
(* requests interleaving at every lock the handlers take.                  *)
(*                                                                         *)
(* Left to other models: the enrollment secret and its lockout, and the    *)
(* parsing and cryptography of requests and tokens.  One tick is a second, *)
(* the resolution of the exp claim.                                        *)
(***************************************************************************)
EXTENDS SessionStore

CONSTANTS
    Requests,       \* HTTP requests being served at the same time
    AccessTokenTTL, \* lifetime of an access token and of a denylist entry
    AuthCodeTTL,    \* lifetime of an authorization code
    KeyConfigured   \* WHOIS_MCP_SIGNING_KEY is set: the key survives a restart

ASSUME AuthConstants ==
    /\ AccessTokenTTL \in Nat \ {0}
    /\ AuthCodeTTL \in Nat \ {0}
    /\ KeyConfigured \in BOOLEAN

(* The two words that stand for no token are not tokens.                   *)
ASSUME FamilyConstants == {"none", "dead"} \cap Tokens = {}

VARIABLES
    codes,      \* codes[s]: ticks left of the code that enrolled s, if stored
    deny,       \* deny[s]: ticks left of the denylist entry, if there is one
    access,     \* access[s]: ticks left of the newest access token a client holds
    req         \* req[r]: what request r is about to do, and for whom

authVars == <<sessions, refresh, codes, deny, access, req>>

Absent == -2    \* no entry in the map

(* The steps that are left to a request after the one it has just taken.   *)
Step == {"idle", "issueCode", "checkSession", "mint", "issueRefresh",
         "mintRefreshed", "denyReused", "revoke", "deny", "forget"}

Request == [step : Step, sid : Sids \cup {NoSid}, minted : -1 .. AccessTokenTTL]

Idle == [step |-> "idle", sid |-> NoSid, minted |-> -1]

AuthInit ==
    /\ StoreInit
    /\ codes = [s \in Sids |-> Absent]
    /\ deny = [s \in Sids |-> Absent]
    /\ access = [s \in Sids |-> -1]
    /\ req = [r \in Requests |-> Idle]

Begin(r, step, s) ==
    /\ req[r].step = "idle"
    /\ req' = [req EXCEPT ![r] = [step |-> step, sid |-> s, minted |-> -1]]

Goto(r, from, to) ==
    /\ req[r].step = from
    /\ req' = [req EXCEPT ![r].step = to]

Done(r, from) ==
    /\ req[r].step = from
    /\ req' = [req EXCEPT ![r] = Idle]

---------------------------------------------------------------------------
(* authorizePOST, once the enrollment token was accepted.                  *)

EnrollCreate(r, s) ==
    /\ Begin(r, "issueCode", s)
    /\ Create(s)
    /\ UNCHANGED <<codes, deny, access>>

(* What a sweep leaves of an entry.                                        *)
sweepLocked(left) == IF left < 0 THEN Absent ELSE left

(* Issue stores the code, then sweeps the expired ones.                    *)
EnrollIssueCode(r) ==
    /\ Done(r, "issueCode")
    /\ codes' = [s \in Sids |-> IF s = req[r].sid THEN AuthCodeTTL ELSE sweepLocked(codes[s])]
    /\ UNCHANGED <<storeVars, deny, access>>

---------------------------------------------------------------------------
(* tokenFromCode.                                                          *)

(* Mutant: a code can be exchanged again until it expires.                 *)
ConsumeKept(r, s) ==
    /\ codes[s] >= 0
    /\ Begin(r, "checkSession", s)
    /\ UNCHANGED <<storeVars, codes, deny, access>>

(* Consume deletes the code whatever it finds next.                        *)
ConsumeOK(r, s) ==
    /\ codes[s] >= 0
    /\ Begin(r, "checkSession", s)
    /\ codes' = [codes EXCEPT ![s] = Absent]
    /\ UNCHANGED <<storeVars, deny, access>>

(* Expired, or a client, redirect or PKCE verifier that does not match.    *)
ConsumeFails(s) ==
    /\ codes[s] # Absent
    /\ codes' = [codes EXCEPT ![s] = Absent]
    /\ UNCHANGED <<storeVars, deny, access, req>>

SessionActive(r) ==
    /\ Goto(r, "checkSession", "mint")
    /\ Active(req[r].sid)
    /\ UNCHANGED <<storeVars, codes, deny, access>>

SessionInactive(r) ==
    /\ Done(r, "checkSession")
    /\ ~Active(req[r].sid)
    /\ UNCHANGED <<storeVars, codes, deny, access>>

MintFirst(r) ==
    /\ req[r].step = "mint"
    /\ req' = [req EXCEPT ![r] = [step |-> "issueRefresh", sid |-> @.sid,
                                   minted |-> AccessTokenTTL]]
    /\ UNCHANGED <<storeVars, codes, deny, access>>

(* A client now holds an access token with left ticks to live.             *)
Deliver(s, left) ==
    access' = [access EXCEPT ![s] = IF left > @ THEN left ELSE @]

FirstRefreshOK(r, t) ==
    /\ Done(r, "issueRefresh")
    /\ IssueRefresh(req[r].sid, t)
    /\ Deliver(req[r].sid, req[r].minted)
    /\ UNCHANGED <<codes, deny>>

(* The session was revoked or lost meanwhile: nothing is sent.             *)
FirstRefreshFails(r) ==
    /\ Done(r, "issueRefresh")
    /\ ~CanIssue(req[r].sid)
    /\ UNCHANGED <<storeVars, codes, deny, access>>

---------------------------------------------------------------------------
(* tokenFromRefresh.                                                       *)

RefreshRotate(r, old, next) ==
    /\ Begin(r, "mintRefreshed", refresh[old].sid)
    /\ RotateOK(old, next)
    /\ UNCHANGED <<codes, deny, access>>

(* Mint reads the clock after the store let go of its lock.                *)
RefreshMint(r) ==
    /\ Done(r, "mintRefreshed")
    /\ Deliver(req[r].sid, AccessTokenTTL)
    /\ UNCHANGED <<storeVars, codes, deny>>

RefreshReused(r, t) ==
    /\ Begin(r, "denyReused", refresh[t].sid)
    /\ RotateReused(t)
    /\ UNCHANGED <<codes, deny, access>>

---------------------------------------------------------------------------
(* handleRevoke, and session_revoke of internal/mcpsrv.                    *)

(* An access token names its session; the denylist is not consulted.       *)
RevokeByAccess(r, s) ==
    /\ access[s] >= 0
    /\ Begin(r, "revoke", s)
    /\ UNCHANGED <<storeVars, codes, deny, access>>

(* An operator names the session.                                          *)
RevokeBySid(r, s) ==
    /\ Known(s)
    /\ Begin(r, "revoke", s)
    /\ UNCHANGED <<storeVars, codes, deny, access>>

(* A refresh token is rotated into a throwaway to learn its session.       *)
RevokeByRefresh(r, old, next) ==
    /\ Begin(r, "revoke", refresh[old].sid)
    /\ RotateOK(old, next)
    /\ UNCHANGED <<codes, deny, access>>

(* A spent one revokes inside Rotate, and the handler stops there.         *)
RevokeByReused(t) ==
    /\ RotateReused(t)
    /\ UNCHANGED <<codes, deny, access, req>>

RevokeSession(r) ==
    /\ Goto(r, "revoke", "deny")
    /\ Revoke(req[r].sid)
    /\ UNCHANGED <<codes, deny, access>>

(* ErrNoSession: the handler returns without touching the denylist.        *)
RevokeUnknown(r) ==
    /\ Done(r, "revoke")
    /\ ~Known(req[r].sid)
    /\ UNCHANGED <<storeVars, codes, deny, access>>

---------------------------------------------------------------------------
(* Denylist.                                                               *)

(* Mutant: the entry lapses a tick before the tokens do.                   *)
DenyAddShort(r) ==
    /\ Done(r, "deny") \/ Done(r, "denyReused")
    /\ deny' = [deny EXCEPT ![req[r].sid] = AccessTokenTTL - 1]
    /\ UNCHANGED <<storeVars, codes, access>>

DenyAdd(r) ==
    /\ Done(r, "deny") \/ Done(r, "denyReused")
    /\ deny' = [deny EXCEPT ![req[r].sid] = AccessTokenTTL]
    /\ UNCHANGED <<storeVars, codes, access>>

(* Denied found an elapsed entry under the read lock ...                   *)
DeniedElapsed(r, s) ==
    /\ deny[s] = -1
    /\ access[s] >= 0
    /\ Begin(r, "forget", s)
    /\ UNCHANGED <<storeVars, codes, deny, access>>

(* ... and deletes whatever is there by the time it has the write lock.    *)
DeniedForget(r) ==
    /\ Done(r, "forget")
    /\ deny' = [deny EXCEPT ![req[r].sid] = Absent]
    /\ UNCHANGED <<storeVars, codes, access>>

(* What TokenVerifier answers for the newest access token of s.            *)
Denied(s) == deny[s] >= 0

Accepted(s) == access[s] >= 0 /\ ~Denied(s)

---------------------------------------------------------------------------

ElapseEntry(left) == IF left = Absent THEN Absent ELSE Elapse(left)

AuthTick ==
    /\ StoreTick
    /\ codes' = [s \in Sids |-> ElapseEntry(codes[s])]
    /\ deny' = [s \in Sids |-> ElapseEntry(deny[s])]
    /\ access' = [s \in Sids |-> Elapse(access[s])]
    /\ req' = [r \in Requests |-> [req[r] EXCEPT !.minted = Elapse(@)]]

(* Everything is in memory except, if configured, the signing key.         *)
Restart ==
    /\ StoreRestart
    /\ codes' = [s \in Sids |-> Absent]
    /\ deny' = [s \in Sids |-> Absent]
    /\ access' = IF KeyConfigured THEN access ELSE [s \in Sids |-> -1]
    /\ req' = [r \in Requests |-> Idle]

(* A request fails between two of its steps: no randomness for a new id or *)
(* token, a failed signature, or a session id no code was stored for.      *)
Abort(r) ==
    /\ \/ Done(r, "issueCode")
       \/ Done(r, "mint")
       \/ Done(r, "issueRefresh")
       \/ Done(r, "mintRefreshed")
    /\ UNCHANGED <<storeVars, codes, deny, access>>

AuthNext ==
    \/ \E r \in Requests, s \in Sids :
           \/ EnrollCreate(r, s) \/ ConsumeOK(r, s)
           \/ RevokeByAccess(r, s) \/ RevokeBySid(r, s) \/ DeniedElapsed(r, s)
    \/ \E s \in Sids : ConsumeFails(s)
    \/ \E r \in Requests :
           \/ EnrollIssueCode(r) \/ SessionActive(r) \/ SessionInactive(r)
           \/ MintFirst(r) \/ FirstRefreshFails(r) \/ RefreshMint(r)
           \/ RevokeSession(r) \/ RevokeUnknown(r)
           \/ DenyAdd(r) \/ DeniedForget(r) \/ Abort(r)
    \/ \E r \in Requests, t \in Tokens : FirstRefreshOK(r, t) \/ RefreshReused(r, t)
    \/ \E r \in Requests, old, next \in Tokens :
           RefreshRotate(r, old, next) \/ RevokeByRefresh(r, old, next)
    \/ \E t \in Tokens : RevokeByReused(t)
    \/ AuthTick
    \/ Restart

AuthSpec == AuthInit /\ [][AuthNext]_authVars

---------------------------------------------------------------------------

(* The server's maps, the clients' tokens and the requests are well formed.*)
AuthTypeOK ==
    /\ StoreTypeOK
    /\ codes \in [Sids -> Absent .. AuthCodeTTL]
    /\ deny \in [Sids -> Absent .. AccessTokenTTL]
    /\ access \in [Sids -> -1 .. AccessTokenTTL]
    /\ req \in [Requests -> Request]

(* A session is handed out through exactly one chain of credentials: at    *)
(* any time at most one thing can still produce a refresh token for it --  *)
(* the stored code, a request between Consume and IssueRefresh, or the one *)
(* unspent token of its family.  Theft detection rests on this: the        *)
(* legitimate client and a thief cannot both hold a current token.         *)
Exchanging(s) ==
    {r \in Requests : /\ req[r].sid = s
                      /\ req[r].step \in {"issueCode", "checkSession", "mint", "issueRefresh"}}

OneCredential ==
    \A s \in Sids :
        /\ \A t, u \in Tokens : Unspent(t) /\ Unspent(u)
                                    /\ refresh[t].sid = s /\ refresh[u].sid = s => t = u
        /\ \A q, r \in Exchanging(s) : q = r
        /\ codes[s] # Absent => Exchanging(s) = {}
        /\ codes[s] # Absent \/ Exchanging(s) # {}
               => \A t \in Tokens : refresh[t].sid # s

(* The chain of tokens a session stands for: its one unspent token while it *)
(* is live, nothing before the first exchange, dead once revoked or lost.   *)
CurrentToken ==
    [s \in Sids |->
        IF sessions[s].kind \in {"revoked", "lost"} THEN "dead"
        ELSE IF \E t \in Tokens : Unspent(t) /\ refresh[t].sid = s
             THEN CHOOSE t \in Tokens : Unspent(t) /\ refresh[t].sid = s
             ELSE "none"]

SpentTokens == {t \in Tokens : Issued(t) /\ ~Unspent(t)}

Family == INSTANCE TokenFamily
              WITH None <- "none", Dead <- "dead",
                   current <- CurrentToken, spent <- SpentTokens

(* The server with all its races implements the abstract family: every     *)
(* interleaving of exchanges, refreshes, revocations and restarts advances *)
(* each session along one chain of one-time tokens, or ends it.            *)
RefinesFamily == Family!FamilySpec
=============================================================================
