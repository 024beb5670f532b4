---------------------------- MODULE SessionStore ----------------------------
(***************************************************************************)
(* MemoryStore of internal/auth/session.go: sessions and their families of *)
(* one-time refresh tokens, each operation one critical section.           *)
(*                                                                         *)
(* An instant is kept as the ticks left until it: positive while now is    *)
(* before it, 0 at it, -1 once it has passed.  now.Before(t) is left > 0   *)
(* and now.After(t) is left < 0.  Session ids and tokens are random and    *)
(* never drawn twice.                                                      *)
(***************************************************************************)
EXTENDS Integers

CONSTANTS
    Sids,       \* session ids, each drawn once
    Tokens,     \* refresh tokens, each drawn once
    NoSid,      \* the owner of a token that was never issued
    RefreshTTL  \* sliding lifetime of a session, in ticks

ASSUME StoreConstants ==
    /\ RefreshTTL \in Nat \ {0}
    /\ NoSid \notin Sids

VARIABLES
    sessions,   \* sessions[s]: whether s is in the map or was lost with an
                \* earlier process, whether it is revoked, and its ExpiresAt
    refresh     \* refresh[t]: the refreshRecord of t

storeVars == <<sessions, refresh>>

Session == [kind : {"absent", "live", "revoked", "lost"}, left : -1 .. RefreshTTL]

refreshRecord == [sid : Sids \cup {NoSid}, left : -1 .. RefreshTTL, used : BOOLEAN]

Issued(t) == refresh[t].sid # NoSid

(* s is in the map.  A restart empties both maps; a token of a lost        *)
(* session is as unknown to Rotate as one that was never issued.           *)
Known(s) == sessions[s].kind \in {"live", "revoked"}

KnownToken(t) == Issued(t) /\ Known(refresh[t].sid)

(* A token that Rotate would still exchange, expiry aside.                 *)
Unspent(t) == KnownToken(t) /\ ~refresh[t].used

StoreInit ==
    /\ sessions = [s \in Sids |-> [kind |-> "absent", left |-> -1]]
    /\ refresh = [t \in Tokens |-> [sid |-> NoSid, left |-> -1, used |-> FALSE]]

---------------------------------------------------------------------------

Active(s) == sessions[s].kind = "live" /\ sessions[s].left > 0

Create(s) ==
    /\ sessions[s].kind = "absent"
    /\ sessions' = [sessions EXCEPT ![s] = [kind |-> "live", left |-> RefreshTTL]]
    /\ UNCHANGED refresh

(* Mutant: a revoked session may still be given its first token.           *)
CanIssueRevoked(s) == Known(s)

CanIssue(s) == sessions[s].kind = "live"

(* Mutant: the first token gets a lifetime of its own.                     *)
IssueRefreshFull(s, t) ==
    /\ CanIssue(s)
    /\ ~Issued(t)
    /\ refresh' = [refresh EXCEPT ![t] =
                      [sid |-> s, left |-> RefreshTTL, used |-> FALSE]]
    /\ UNCHANGED sessions

(* The first refresh token of a session, bound to the session's expiry.    *)
IssueRefresh(s, t) ==
    /\ CanIssue(s)
    /\ ~Issued(t)
    /\ refresh' = [refresh EXCEPT ![t] =
                      [sid |-> s, left |-> sessions[s].left, used |-> FALSE]]
    /\ UNCHANGED sessions

(* revokeFamilyLocked.                                                     *)
SpendFamily(s) ==
    [t \in Tokens |-> IF refresh[t].sid = s THEN [refresh[t] EXCEPT !.used = TRUE]
                      ELSE refresh[t]]

(* Rotate of a token that was already exchanged: the family dies.          *)
RotateReused(t) ==
    LET s == refresh[t].sid IN
    /\ KnownToken(t) /\ refresh[t].used
    /\ sessions' = [sessions EXCEPT ![s].kind = "revoked"]
    /\ refresh' = SpendFamily(s)

(* Mutant: old stays current.                                              *)
RotateUnspent(old, next) ==
    LET s == refresh[old].sid IN
    /\ Unspent(old) /\ ~Issued(next)
    /\ sessions[s].kind = "live"
    /\ refresh[old].left >= 0
    /\ sessions' = [sessions EXCEPT ![s].left = RefreshTTL]
    /\ refresh' = [refresh EXCEPT
                      ![next] = [sid |-> s, left |-> RefreshTTL, used |-> FALSE]]

(* Rotate's other refusals (an unknown token, a revoked session, an expired *)
(* token) change nothing.  The exchange: old is spent, next takes its place *)
(* and the window slides.                                                   *)
RotateOK(old, next) ==
    LET s == refresh[old].sid IN
    /\ Unspent(old) /\ ~Issued(next)
    /\ sessions[s].kind = "live"
    /\ refresh[old].left >= 0
    /\ sessions' = [sessions EXCEPT ![s].left = RefreshTTL]
    /\ refresh' = [refresh EXCEPT
                      ![old].used = TRUE,
                      ![next] = [sid |-> s, left |-> RefreshTTL, used |-> FALSE]]

Revoke(s) ==
    /\ Known(s)
    /\ sessions' = [sessions EXCEPT ![s].kind = "revoked"]
    /\ refresh' = SpendFamily(s)

Elapse(left) == IF left >= 0 THEN left - 1 ELSE -1

StoreTick ==
    /\ sessions' = [s \in Sids |-> [sessions[s] EXCEPT !.left = Elapse(@)]]
    /\ refresh' = [t \in Tokens |-> [refresh[t] EXCEPT !.left = Elapse(@)]]

(* Sessions live exactly as long as the process does.                      *)
StoreRestart ==
    /\ sessions' = [s \in Sids |-> IF Known(s) THEN [sessions[s] EXCEPT !.kind = "lost"]
                                   ELSE sessions[s]]
    /\ UNCHANGED refresh

StoreNext ==
    \/ \E s \in Sids : Create(s) \/ Revoke(s)
    \/ \E s \in Sids, t \in Tokens : IssueRefresh(s, t)
    \/ \E t \in Tokens : RotateReused(t)
    \/ \E old, next \in Tokens : RotateOK(old, next)
    \/ StoreTick
    \/ StoreRestart

StoreSafety == StoreInit /\ [][StoreNext]_storeVars

---------------------------------------------------------------------------

(* Sessions and refresh records are well formed.                           *)
StoreTypeOK ==
    /\ sessions \in [Sids -> Session]
    /\ refresh \in [Tokens -> refreshRecord]

(* A revoked session has no refresh token left to exchange, whether it was *)
(* revoked by its owner, by an operator or by theft detection, and whatever*)
(* exchange was in progress (Revoke, Rotate, IssueRefresh).                *)
RevokedIsDead ==
    \A t \in Tokens : Unspent(t) => sessions[refresh[t].sid].kind = "live"

(* "activity keeps it alive and silence ends it" (session.go:240-241): a   *)
(* session that ran out is never extended again.  Rotate asks only whether *)
(* the token has expired, so no token may outlive the session it is of.    *)
SilenceEndsSession ==
    [][\A s \in Sids : Known(s) /\ sessions[s].left < 0 => sessions'[s].left < 0]_storeVars
=============================================================================
