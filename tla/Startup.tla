-------------------------------- MODULE Startup --------------------------------
(***************************************************************************)
(* How a process comes up (cmd/whois-mcp: listen.go, authsetup.go and the  *)
(* head of main.go): the listen address is put together from three flags   *)
(* and three environment variables, the security gate compares it with the *)
(* authentication that is configured, and the authorization server is      *)
(* built, or the process refuses to start.                                 *)
(*                                                                         *)
(* A configuration is a record.  envListen and flagListen are a host and a *)
(* port, the other listener settings one part; each may be Unset or Bad,   *)
(* a value its validation rejects.  An Empty flag is one given with        *)
(* nothing in it; an Empty host is the bare ":8080" form.  A URL is a      *)
(* scheme, a host and a port.                                              *)
(***************************************************************************)
EXTENDS Integers

CONSTANTS
    Unset, Bad,     \* a setting that is absent; one that does not validate
    Empty           \* the empty string

\* Literals for which net.IP's IsLoopback holds.
LoopbackAddresses == {"127.0.0.1", "127.0.0.2", "::1"}

ASSUME StartupAssumption ==
    Unset # Bad /\ Empty \notin {Unset, Bad, "localhost"} \cup LoopbackAddresses

DefaultAddress == "127.0.0.1"
DefaultPort == 8080
AllInterfaces == "0.0.0.0"

\* The interfaces a socket bound to this host is reached through.
Interfaces(host) ==
    CASE host \in {Empty, AllInterfaces, "::"} -> {"loopback", "network"}
      [] host \in {"localhost"} \cup LoopbackAddresses -> {"loopback"}
      [] OTHER -> {"network"}

-----------------------------------------------------------------------------
(* resolveListen: six settings, each overriding what came before it.       *)

\* strings.TrimSpace(v) != "": a flag given empty is a flag not given.
Given(v) == v \notin {Unset, Empty}

Refused == [host |-> Bad, port |-> Bad]

Override(v, before) == IF Given(v) THEN v ELSE before

(* Mutant: address and port are read after both combined forms, so the     *)
(* environment's parts override --listen.                                  *)
resolveListenPartsLast(c) ==
    LET combined == Override(c.flagListen, Override(c.envListen,
                        [host |-> DefaultAddress, port |-> DefaultPort]))
    IN  IF Bad \in {c.envListen, c.envAddress, c.envPort, c.flagListen, c.flagAddress, c.flagPort}
        THEN Refused
        ELSE [host |-> Override(c.flagAddress, Override(c.envAddress, combined.host)),
              port |-> Override(c.flagPort, Override(c.envPort, combined.port))]

resolveListen(c) ==
    LET env      == Override(c.envListen, [host |-> DefaultAddress, port |-> DefaultPort])
        envParts == [host |-> Override(c.envAddress, env.host),
                     port |-> Override(c.envPort, env.port)]
        flags    == Override(c.flagListen, envParts)
    IN  IF Bad \in {c.envListen, c.envAddress, c.envPort, c.flagListen, c.flagAddress, c.flagPort}
        THEN Refused
        ELSE [host |-> Override(c.flagAddress, flags.host),
              port |-> Override(c.flagPort, flags.port)]

-----------------------------------------------------------------------------
(* The gate, and what buildAuth checks again.                              *)

(* Mutant: the bare ":8080" form passes for loopback.                      *)
requireLoopbackBareColon(host) == host \in {"localhost", Empty} \cup LoopbackAddresses

requireLoopback(host) == host = "localhost" \/ host \in LoopbackAddresses

\* checkExposure: whether the process may go on.
checkExposure(host, c) ==
    \/ requireLoopback(host)
    \/ c.enrollment /\ ~c.devStaticBearer /\ c.publicURL # Unset

\* The canonical URL clients use; derived from the listen address if not configured.
publicURL(l, c) ==
    IF c.publicURL # Unset THEN c.publicURL ELSE [scheme |-> "http", host |-> l.host, port |-> l.port]

\* Hosts whose text begins like a loopback host, which not all of them are.
LooksLocal == {"localhost", "127.0.0.1", "::1", "localhost.elsewhere"}

\* requireHTTPSOffLoopback compares prefixes: a cleartext URL passes when it
\* begins like a local one, and 127.0.0.2, which is one, does not pass.
requireHTTPSOffLoopback(url) == url.scheme = "https" \/ url.host \in LooksLocal

\* buildAuth: nothing without an enrollment token, else all of it or an error.
buildAuth(l, c) ==
    \/ ~c.enrollment
    \/ requireHTTPSOffLoopback(publicURL(l, c)) /\ c.signingKey # Bad

\* What run gets to before it listens: the listen address passes the gate and
\* the authorization server can be built.
Starts(c) ==
    LET l == resolveListen(c)
    IN  l # Refused /\ checkExposure(l.host, c) /\ buildAuth(l, c)

\* What the running process still depends on: where it is reached, and the
\* authorization server it built, if any.
Setup(c) ==
    [local |-> Interfaces(resolveListen(c).host) = {"loopback"}, auth |-> c.enrollment,
     static |-> c.enrollment /\ c.devStaticBearer,
     key |-> IF c.enrollment THEN c.signingKey ELSE Unset,
     url |-> IF c.enrollment THEN publicURL(resolveListen(c), c) ELSE Unset]

\* /readyz asks the gate's question again.
readyz(c) == c.enrollment \/ requireLoopback(resolveListen(c).host)

-----------------------------------------------------------------------------
(* The precedence resolveListen's comment states, as a reference for it.   *)
(* The help of --listen says the opposite of its second rule.              *)

\* Within a tier, a specific part beats the combined form.
InTier(part, combined, p) == IF Given(part) THEN part ELSE combined[p]

\* Flags beat environment; the default is loopback:8080.
ByPrecedence(c) ==
    LET default == [host |-> DefaultAddress, port |-> DefaultPort]
        pick(p, envPart, flagPart) ==
            CASE Given(flagPart) \/ Given(c.flagListen) -> InTier(flagPart, c.flagListen, p)
              [] ~Given(flagPart) /\ ~Given(c.flagListen) /\ (Given(envPart) \/ Given(c.envListen)) ->
                     InTier(envPart, c.envListen, p)
              [] OTHER -> default[p]
    IN  [host |-> pick("host", c.envAddress, c.flagAddress),
         port |-> pick("port", c.envPort, c.flagPort)]
=============================================================================
