-------------------------------- MODULE Keyring --------------------------------
(***************************************************************************)
(* The signing key (internal/auth/keys.go) and the access tokens signed    *)
(* with it (internal/auth/token.go, verifier.go).                          *)
(*                                                                         *)
(* The program builds one keyring when it starts and calls neither Rotate  *)
(* nor Retire on it: a key is changed by a restart.  A token's left is the *)
(* time to its exp claim; it is good while now is not past it.             *)
(***************************************************************************)
EXTENDS Integers, FiniteSetsExt

CONSTANTS
    Keys,               \* key pairs, named by their thumbprint
    Tokens,             \* access tokens outstanding at one time
    Grants,             \* the scopes a session may have been granted
    AccessTokenTTL      \* how long a token is good

ASSUME KeyringAssumption ==
    /\ AccessTokenTTL \in Nat \ {0}
    /\ \A g \in Grants : g \subseteq {"read", "raw", "admin"}

VARIABLES
    active,     \* the keyring: the one key in it
    used,       \* keys the operator or any process has held: a generated key is a new one
    token       \* per token: its key and claims; history: whether the running process
                \* minted it, and under which configured key

keyVars == <<active, used, token>>

NoKey == "none"
NoToken ==
    [kid |-> NoKey, scopes |-> {}, aud |-> NoKey, left |-> -1, own |-> FALSE, under |-> NoKey]

(* A thumbprint is never the empty string.                                 *)
ASSUME ThumbprintAssumption == NoKey \notin Keys

\* Keyring.Verifier, then the claims; the audience is this server's own URL.
Verify(t, url) == token[t].kid = active /\ token[t].aud = url /\ token[t].left >= 0

-----------------------------------------------------------------------------

\* What a start makes of the tokens clients hold: another process minted them.
Foreign == [t \in Tokens |-> [token[t] EXCEPT !.own = FALSE]]

(* Mutant: the key is generated although one is configured.                *)
NewKeyringGenerated(configured, k) ==
    /\ k \in Keys \ used
    /\ active' = k
    /\ used' = used \cup {k}
    /\ token' = Foreign

\* NewKeyring, as a process starts: the configured key, or one nobody has held.
NewKeyring(configured, k) ==
    /\ k \in (IF configured = NoKey THEN Keys \ used ELSE {configured})
    /\ active' = k
    /\ used' = used \cup {k}
    /\ token' = Foreign

\* Mint: claims for this server's URL, signed with the active key.  The token
\* takes the place of one that is good for nothing.
Mint(t, g, url, configured) ==
    /\ token[t].left < 0
    /\ token' = [token EXCEPT ![t] = [kid |-> active, scopes |-> g, aud |-> url, left |-> AccessTokenTTL,
                                      own |-> TRUE, under |-> configured]]
    /\ UNCHANGED <<active, used>>

\* Time passes; what is past its exp stays past it.
KeyTick ==
    /\ token' = [t \in Tokens |-> [token[t] EXCEPT !.left = Max({-1, @ - 1})]]
    /\ UNCHANGED <<active, used>>
=============================================================================
