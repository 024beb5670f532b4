--------------------------------- MODULE Access ---------------------------------
(***************************************************************************)
(* Who may call which tool (internal/auth/scopegate.go and verifier.go,    *)
(* internal/mcpsrv): the bearer middleware establishes the caller's        *)
(* scopes, the scope gate looks into the body for the name of a privileged *)
(* tool, and the handler checks the scope once more, because the gate      *)
(* cannot see into a batch.                                                *)
(*                                                                         *)
(* A body is a kind and the tools it calls: one for a "call"; any number   *)
(* for a "batch"; for "large", one that the gate's 1 MiB buffer cuts off;  *)
(* none for anything else.                                                 *)
(***************************************************************************)
EXTENDS Integers

AllScopes == {"read", "raw", "admin"}
MinimumScopes == {"read"}

\* The tools that need more than the baseline scope.
PrivilegedTools == [rdap_raw |-> "raw", whois_raw |-> "raw",
                    session_list |-> "admin", session_revoke |-> "admin"]

\* The scope each handler asks for itself; the other tools ask for none.
HandlerScopes == [rdap_raw |-> "raw", whois_raw |-> "raw", ip_lookup |-> "read",
                  session_list |-> "admin", session_revoke |-> "admin"]

\* The tool surface: the session tools are there only when there are sessions.
Registered(auth) ==
    {"domain_lookup", "domain_availability", "tld_info", "rdap_raw", "whois_raw", "ip_lookup"}
        \cup (IF auth THEN {"session_list", "session_revoke"} ELSE {})

Bodies ==
    {[kind |-> k, tools |-> {n}] : k \in {"call", "large"}, n \in Registered(TRUE)}
        \cup {[kind |-> "batch", tools |-> {"domain_lookup", n}] : n \in Registered(TRUE)}
        \cup {[kind |-> "other", tools |-> {}]}

-----------------------------------------------------------------------------

\* toolNameFromBody: the tool of a single call; nothing of any other body.
namesTool(body) == IF body.kind = "call" THEN body.tools ELSE {}

\* ScopeGate: whether the request passes with these scopes.
ScopeGate(body, scopes) ==
    \A n \in namesTool(body) \cap DOMAIN PrivilegedTools : PrivilegedTools[n] \in scopes

\* The body downstream sees: the gate's buffer cuts a large one into nothing parseable.
Buffered(body) == IF body.kind = "large" THEN {} ELSE body.tools

(* Mutant: the handlers rely on the gate.                                  *)
ScopeHeldByGate(n, scopes, EnforceScopes) == TRUE

\* RequireScope in the handler of tool n.
ScopeHeld(n, scopes, EnforceScopes) ==
    EnforceScopes /\ n \in DOMAIN HandlerScopes => HandlerScopes[n] \in scopes

\* The tools of a request that do their work rather than answer insufficient_scope.
Handled(tools, scopes, auth) ==
    {n \in tools \cap Registered(auth) : ScopeHeld(n, scopes, auth)}

Unauthorized == [status |-> 401, ran |-> {}]
Forbidden == [status |-> 403, ran |-> {}]
Done(tools) == [status |-> 200, ran |-> tools]

\* /mcp without authentication: no middleware, no scopes, nothing enforced.
ServeOpen(body) == Done(Handled(body.tools, {}, FALSE))

\* /mcp behind the middleware, for a caller whose credential carries these scopes.
ServeProtected(body, scopes) ==
    IF ~(MinimumScopes \subseteq scopes) \/ ~ScopeGate(body, scopes) THEN Forbidden
    ELSE Done(Handled(Buffered(body), scopes, TRUE))
=============================================================================
