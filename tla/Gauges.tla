-------------------------------- MODULE Gauges --------------------------------
(***************************************************************************)
(* The poller behind the breaker gauge (publishGauges in                   *)
(* cmd/whois-mcp/main.go) beside the breaker it reads, for one host.  It   *)
(* publishes the hosts OpenHosts lists, and, from its memory of hosts that *)
(* were ever listed, the ones that have recovered since.                   *)
(***************************************************************************)
EXTENDS Breaker

VARIABLES
    known,  \* the host has been listed open by some earlier poll
    gauge   \* the host's series as a dashboard sees it

gaugeVars == <<breakerVars, known, gauge>>

GaugeInit == BreakerInit /\ known = FALSE /\ gauge = "absent"

(* Mutant: only the hosts that are open are published.                     *)
publishOpenOnly ==
    /\ known' = (known \/ ListedOpen)
    /\ gauge' = IF ListedOpen THEN "1" ELSE gauge
    /\ UNCHANGED breakerVars

\* publish, once a tick of the fifteen-second ticker and once at the start.
publish ==
    /\ known' = (known \/ ListedOpen)
    /\ gauge' = IF ListedOpen THEN "1" ELSE IF known THEN "0" ELSE gauge
    /\ UNCHANGED breakerVars

GaugeNext == publish \/ (BreakerNext /\ UNCHANGED <<known, gauge>>)

GaugeSpec == GaugeInit /\ [][GaugeNext]_gaugeVars /\ BreakerFairness /\ WF_gaugeVars(publish)

-----------------------------------------------------------------------------

(* A host that has recovered for good is not shown open for ever: its      *)
(* series goes back to 0 although OpenHosts no longer mentions it.         *)
RecoveryShown == <>[]~ListedOpen => <>[](gauge # "1")
=============================================================================
