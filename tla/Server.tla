--------------------------------- MODULE Server ---------------------------------
(***************************************************************************)
(* The process (cmd/whois-mcp/main.go) around its parts: it starts with a  *)
(* configuration or refuses to, serves /mcp, mints access tokens, and is   *)
(* stopped and started again, with the same configuration or another one,  *)
(* while clients keep their tokens.  The sessions behind the tokens are    *)
(* AuthServer's.                                                           *)
(***************************************************************************)
EXTENDS Startup, Keyring, Access

CONSTANTS
    Configs,    \* the configurations a process may be given first
    Reconfigs   \* those the operator may change to

ASSUME ConfigAssumption ==
    /\ Reconfigs \subseteq Configs
    /\ \A c \in Configs : /\ {c.enrollment, c.devStaticBearer} \subseteq BOOLEAN
                          /\ c.signingKey \in Keys \cup {Unset, Bad}

VARIABLES
    proc,       \* the process: its configuration, then its settings
    reply       \* the answer to a request, looked at until anything else happens

serverVars == <<proc, reply, keyVars>>

NoReply == [status |-> 0, ran |-> {}, held |-> {}, cred |-> "nothing"]

Phase(p) == proc.phase = p

\* The signing key the operator configured.
configured == IF proc.setup.key = Unset THEN NoKey ELSE proc.setup.key

\* The keys an operator has made: no process generates one of them.
OperatorKeys == {c.signingKey : c \in Configs} \cap Keys

-----------------------------------------------------------------------------

ServerInit ==
    /\ \E c \in Configs : proc = [phase |-> "boot", conf |-> c]
    /\ reply = NoReply
    /\ active = NoKey /\ used = OperatorKeys
    /\ token = [t \in Tokens |-> NoToken]

\* run: every early return of it before the server listens.
Refuse ==
    /\ Phase("boot") /\ ~Starts(proc.conf)
    /\ proc' = [phase |-> "refused"]
    /\ UNCHANGED <<reply, keyVars>>

\* run: the configuration is accepted, for this start and those that follow.
Accept ==
    /\ Phase("boot") /\ Starts(proc.conf)
    /\ proc' = [phase |-> "down", setup |-> Setup(proc.conf)]
    /\ UNCHANGED <<reply, keyVars>>

\* The keyring is built and the server listens.
Listen ==
    /\ Phase("down")
    /\ proc' = [proc EXCEPT !.phase = "up"]
    /\ IF proc.setup.auth THEN \E k \in Keys : NewKeyring(configured, k) ELSE UNCHANGED keyVars
    /\ UNCHANGED reply

\* A signal, a listener error or a crash: memory is gone, tokens are with clients.
Stop ==
    /\ Phase("up")
    /\ proc' = [proc EXCEPT !.phase = "down"]
    /\ reply' = NoReply
    /\ UNCHANGED keyVars

\* The operator changes the configuration and starts the process again.
Reconfigure(c) ==
    /\ Phase("down") \/ Phase("refused")
    /\ proc' = [phase |-> "boot", conf |-> c]
    /\ UNCHANGED <<reply, keyVars>>

-----------------------------------------------------------------------------
(* Requests to /mcp.  A credential is a token, the enrollment secret sent  *)
(* as a bearer token, or nothing that verifies.                            *)

Credentials == Tokens \cup {"secret", "nothing"}

Accepted(cred) ==
    \/ cred = "secret" /\ proc.setup.static
    \/ cred \in Tokens /\ Verify(cred, proc.setup.url)

Scopes(cred) == IF cred = "secret" THEN AllScopes ELSE token[cred].scopes

ServeMCP(body, cred) ==
    /\ Phase("up")
    /\ reply = NoReply
    /\ LET answer == CASE ~proc.setup.auth -> ServeOpen(body)
                       [] proc.setup.auth /\ ~Accepted(cred) -> Unauthorized
                       [] OTHER -> ServeProtected(body, Scopes(cred))
           held == IF proc.setup.auth /\ Accepted(cred) THEN Scopes(cred) ELSE {}
       IN  reply' = [status |-> answer.status, ran |-> answer.ran, held |-> held, cred |-> cred]
    /\ UNCHANGED <<proc, keyVars>>

-----------------------------------------------------------------------------

\* The token endpoint mints for a session: which, and when, is AuthServer's.
ServeToken(t, g) ==
    /\ Phase("up") /\ proc.setup.auth
    /\ Mint(t, g, proc.setup.url, configured)
    /\ reply' = NoReply
    /\ UNCHANGED proc

ServerTick == KeyTick /\ reply' = NoReply /\ UNCHANGED proc

ServerNext ==
    \/ Refuse \/ Accept \/ Listen \/ Stop
    \/ \E c \in Reconfigs : Reconfigure(c)
    \/ \E b \in Bodies, c \in Credentials : ServeMCP(b, c)
    \/ \E t \in Tokens, g \in Grants : ServeToken(t, g)
    \/ ServerTick

ServerSpec == ServerInit /\ [][ServerNext]_serverVars

-----------------------------------------------------------------------------

(* The listen address follows the three rules of resolveListen's comment   *)
(* (listen.go:49-58), part by part, and a value that does not validate     *)
(* refuses the start even where a later setting would have overridden it.  *)
(* The help of the --listen flag (listen.go:40) says that it overrides     *)
(* --address and --port; it does not.                                      *)
ListenPrecedence ==
    Phase("boot") =>
        LET c == proc.conf
            given == {c.envListen, c.envAddress, c.envPort, c.flagListen, c.flagAddress, c.flagPort}
        IN  resolveListen(c) = IF Bad \in given THEN Refused ELSE ByPrecedence(c)

(* However the address was put together and the process reconfigured, on a *)
(* socket the network reaches no tool does its work but for a caller whose *)
(* access token the server verifies, the enrollment secret sent as a       *)
(* bearer token included; and a process that comes up passes the question  *)
(* /readyz asks again.  That the secret is posted over https is not part   *)
(* of it: requireHTTPSOffLoopback lets "http://localhost.elsewhere" pass.  *)
NeverOpenOffHost ==
    /\ Phase("up") /\ ~proc.setup.local /\ reply.ran # {} =>
           reply.cred \in Tokens /\ Verify(reply.cred, proc.setup.url)
    /\ Phase("boot") /\ Starts(proc.conf) => readyz(proc.conf)

(* A tool does its work only for a caller who holds the scope it needs,    *)
(* whether it came alone, in a batch the gate cannot look into or in a     *)
(* body the gate cut; and a caller who holds every scope is never told     *)
(* that one is missing.                                                    *)
ScopesHold ==
    LET needed(n) == IF n \in DOMAIN PrivilegedTools THEN PrivilegedTools[n] ELSE "read"
    IN  /\ \A n \in reply.ran :
               \/ ~proc.setup.auth /\ proc.setup.local
               \/ needed(n) \in reply.held
        /\ reply.status = 403 => reply.held # AllScopes

(* Across restarts a token follows its key (buildKeyring's two log lines): *)
(* one the running process minted is accepted until its exp; one an        *)
(* earlier process minted exactly if that was configured with the same     *)
(* signing key and URL as this one, whatever processes ran between them,   *)
(* so a restart without a configured key, before or after, invalidates     *)
(* every token outstanding.                                                *)
TokensFollowKey ==
    Phase("up") /\ proc.setup.auth =>
        \A t \in Tokens : token[t].left >= 0 =>
            (Verify(t, proc.setup.url) <=>
                 \/ token[t].own
                 \/ /\ token[t].under = configured /\ configured # NoKey
                    /\ token[t].aud = proc.setup.url)
=============================================================================
