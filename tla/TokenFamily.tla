---------------------------- MODULE TokenFamily ----------------------------
(***************************************************************************)
(* What the session design promises about refresh tokens, without stores,  *)
(* codes, requests or clocks: each session hands out one chain of tokens.  *)
(* At any time it has at most one current token, a token is current once,  *)
(* and a dead session never has another.                                   *)
(***************************************************************************)
CONSTANTS Sids, Tokens, None, Dead

VARIABLES
    current,    \* current[s]: the one token that can be exchanged, or None, or Dead
    spent       \* tokens that were current once

familyVars == <<current, spent>>

FamilyInit ==
    /\ current = [s \in Sids |-> None]
    /\ spent = {}

Fresh(t) == t \notin spent /\ \A s \in Sids : current[s] # t

(* The first token of a session.                                           *)
Start(s, t) ==
    /\ current[s] = None /\ Fresh(t)
    /\ current' = [current EXCEPT ![s] = t]
    /\ UNCHANGED spent

(* The current token is exchanged for a fresh one.                         *)
Exchange(s, t) ==
    /\ current[s] \in Tokens /\ Fresh(t)
    /\ current' = [current EXCEPT ![s] = t]
    /\ spent' = spent \cup {current[s]}

Kill(S) ==
    /\ current' = [s \in Sids |-> IF s \in S THEN Dead ELSE current[s]]
    /\ spent' = spent \cup {t \in Tokens : \E s \in S : current[s] = t}

(* Revocation and theft detection end one session and touch no other.      *)
End(s) == Kill({s})

(* A restart ends every session that has a token, and may end those that   *)
(* were enrolled without one.                                              *)
EndAll ==
    \E S \in SUBSET Sids :
        /\ \A s \in Sids : current[s] \in Tokens => s \in S
        /\ Kill(S)

FamilyNext ==
    \/ \E s \in Sids, t \in Tokens : Start(s, t) \/ Exchange(s, t)
    \/ \E s \in Sids : End(s)
    \/ EndAll

FamilySpec == FamilyInit /\ [][FamilyNext]_familyVars
=============================================================================
