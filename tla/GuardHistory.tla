---------------------------- MODULE GuardHistory ----------------------------
(***************************************************************************)
(* Guard with history variables that remember what the upstream said, so   *)
(* that the package's promises about the past can be stated: consecutive   *)
(* failures, and who was on the way when a pause was set.                  *)
(* The history never enables or disables a step of Guard.                  *)
(***************************************************************************)
EXTENDS Guard

VARIABLES
    streak,     \* consecutive unhealthy outcomes of real calls, up to the threshold
    earlier     \* callers that were past the pause check when the pause was last set

historyVars == <<streak, earlier>>
hvars == <<guardVars, historyVars>>

PastCheck == {c \in Callers : pc[c] \in {"reserve", "reserved", "sleep", "calling"}}

(* This step is c's release of what the upstream answered.                 *)
Released(c) == pc[c] = "observed" /\ pc'[c] = "idle"

(* This step is the Observe of an outcome of one of these kinds.           *)
Observed(kinds) ==
    \E c \in Callers : pc[c] = "calling" /\ pc'[c] = "observed" /\ out'[c] \in kinds

CountUpTo(n, most) == IF n < most THEN n + 1 ELSE n

RecordStreak ==
    streak' = IF \E c \in Callers : Released(c) /\ healthy(out[c]) THEN 0
              ELSE IF \E c \in Callers : Released(c)
                   THEN CountUpTo(streak, BreakerThreshold) ELSE streak

RecordEarlier ==
    earlier' = IF Observed({"overload", "retry-after"}) THEN PastCheck' ELSE earlier

HistoryInit ==
    /\ GuardInit
    /\ streak = 0
    /\ earlier = {}

HistoryNext ==
    /\ GuardNext
    /\ RecordStreak /\ RecordEarlier

HistorySpec == HistoryInit /\ [][HistoryNext]_hvars

---------------------------------------------------------------------------

(* While a host is paused, the only callers on their way to it are those   *)
(* that had passed Acquire's pause check before the pause was set: nobody  *)
(* joins them, whichever answers arrive and in whatever order.             *)
OnlyEarlierCallsDuringPause == pause > 0 => PastCheck \subseteq earlier

(* breaker.go:12 and docs/MCP_DESIGN.md section 9: after BreakerThreshold  *)
(* consecutive failed calls to the upstream the circuit is not closed.     *)
TripsOnStreak == streak >= BreakerThreshold => brk.state # "closed"
=============================================================================
