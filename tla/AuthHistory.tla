----------------------------- MODULE AuthHistory -----------------------------
(***************************************************************************)
(* AuthServer with a memory of its revocations, to state how long a        *)
(* revoked session's access tokens may still be accepted.                  *)
(***************************************************************************)
EXTENDS AuthServer

VARIABLES
    grace,  \* grace[s]: ticks left of one access-token lifetime since s was
            \* first revoked, Absent if it never was
    added,  \* added[s]: this process has put s on its denylist
    late    \* late[s]: an access token was minted for s after it was revoked

authHVars == <<authVars, grace, added, late>>

Revoked(s) == sessions[s].kind = "revoked"

AuthHInit ==
    /\ AuthInit
    /\ grace = [s \in Sids |-> Absent]
    /\ added = [s \in Sids |-> FALSE]
    /\ late = [s \in Sids |-> FALSE]

RecordGrace ==
    grace' = [s \in Sids |-> IF ~Revoked(s) /\ Revoked(s)' THEN AccessTokenTTL
                             ELSE IF AuthTick THEN ElapseEntry(grace[s]) ELSE grace[s]]

RecordAdded ==
    added' = [s \in Sids |-> \/ \E r \in Requests : DenyAdd(r) /\ req[r].sid = s
                             \/ added[s] /\ ~Restart]

RecordLate ==
    late' = [s \in Sids |-> \/ late[s]
                            \/ /\ Revoked(s)
                               /\ \E r \in Requests : RefreshMint(r) /\ req[r].sid = s]

AuthHNext == AuthNext /\ RecordGrace /\ RecordAdded /\ RecordLate

AuthHSpec == AuthHInit /\ [][AuthHNext]_authHVars

---------------------------------------------------------------------------

(* denylist.go:16-18, "every token minted before the revocation has        *)
(* expired on its own" by the time its entry lapses: once a session is on  *)
(* the denylist no access token of it is accepted again, unless one was    *)
(* minted after the revocation.                                            *)
DenyOutlivesTokens == \A s \in Sids : added[s] /\ ~late[s] => ~Accepted(s)

(* One access-token lifetime after a revocation every token a client holds *)
(* has expired by itself, so the bound also survives a restart that forgot *)
(* the denylist and the revocation path that never adds to it -- unless a  *)
(* token was minted after the revocation.                                  *)
RevocationBounded == \A s \in Sids : grace[s] = -1 /\ ~late[s] => access[s] < 0
=============================================================================
