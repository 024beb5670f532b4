------------------------------- MODULE MCServer -------------------------------
(* Every listener setting absent, invalid or naming a host or port no other *)
(* setting names, so that the outcome tells which one won; with every       *)
(* combination of enrollment secret, signing key, public URL and static     *)
(* bearer.  The operator changes between a server without authentication,   *)
(* two signing keys, none, another URL, and a setting that is refused.      *)
EXTENDS Server

CONSTANTS k1, k2

At(h, p) == [host |-> h, port |-> p]

URL(s, h) == [scheme |-> s, host |-> h, port |-> 443]

AllConfigs ==
    [envListen : {Unset, Bad, At(AllInterfaces, 1)},
     envAddress : {Unset, Bad, "127.0.0.2"},
     envPort : {Unset, Bad, 2},
     flagListen : {Unset, Bad, At("localhost", 3), At(Empty, 3)},
     flagAddress : {Unset, Empty, Bad, "203.0.113.1"},
     flagPort : {Unset, Bad, 4},
     enrollment : BOOLEAN, devStaticBearer : BOOLEAN,
     signingKey : {Unset, Bad, k1, k2},
     publicURL : {Unset, URL("https", "elsewhere"), URL("http", "localhost"),
                  URL("http", "localhost.elsewhere"), URL("http", "elsewhere")}]

\* Nothing but a signing key and a URL: served from every interface.
Exposed(key, url) ==
    [envListen |-> At(AllInterfaces, 1), envAddress |-> Unset, envPort |-> Unset,
     flagListen |-> Unset, flagAddress |-> Unset, flagPort |-> Unset,
     enrollment |-> TRUE, devStaticBearer |-> FALSE, signingKey |-> key, publicURL |-> url]

SomeReconfigs ==
    {Exposed(k, URL("https", "elsewhere")) : k \in {Unset, Bad, k1, k2}}
        \cup {Exposed(k1, URL("http", "localhost.elsewhere")),
              [Exposed(k1, Unset) EXCEPT !.enrollment = FALSE, !.flagListen = At("localhost", 3)]}

SomeGrants == {{"read"}, {"read", "raw"}, {"admin"}}
=============================================================================
