------------------------------ MODULE Breaker ------------------------------
(***************************************************************************)
(* The per-host circuit breaker of internal/ratelimit/breaker.go, for one  *)
(* host key: entries of Breaker.hosts never touch one another.             *)
(*                                                                         *)
(* Instants are kept as the time left until them, in ticks: openFor is     *)
(* max(0, openUntil - now), so now.Before(openUntil) reads openFor > 0 and *)
(* the clock itself needs no bound.  failures stops counting at the        *)
(* threshold, the only value the code compares it with.                    *)
(***************************************************************************)
EXTENDS Upstream, Naturals, FiniteSets

CONSTANTS
    BreakerThreshold,       \* consecutive failures before the circuit opens
    BreakerCooldown,        \* ticks it stays open before allowing a probe
    BreakerHalfOpenProbes   \* successes in half-open that close it again

ASSUME BreakerConstants ==
    /\ BreakerThreshold \in Nat \ {0}
    /\ BreakerCooldown \in Nat \ {0}
    /\ BreakerHalfOpenProbes \in Nat \ {0}

VARIABLES
    brk,    \* the host's breakerState
    grant   \* grant[c]: the release function c was given by Allow and has not
            \* called yet, tagged with the state that admitted the call

breakerVars == <<brk, grant>>

State == {"closed", "open", "half-open"}

BreakerState ==
    [state : State,
     failures : 0 .. BreakerThreshold,
     successes : 0 .. BreakerHalfOpenProbes,
     openFor : 0 .. BreakerCooldown,
     inFlightProbe : BOOLEAN]

BreakerInit ==
    /\ brk = [state |-> "closed", failures |-> 0, successes |-> 0,
              openFor |-> 0, inFlightProbe |-> FALSE]
    /\ grant = [c \in Callers |-> "none"]

---------------------------------------------------------------------------

(* Open with the cooldown still running, or half-open with a probe out.    *)
Refuses ==
    \/ brk.state = "open" /\ brk.openFor > 0
    \/ brk.state = "half-open" /\ brk.inFlightProbe

AllowClosed(c) ==
    /\ brk.state = "closed"
    /\ grant' = [grant EXCEPT ![c] = "call"]
    /\ UNCHANGED brk

(* The cooldown has elapsed: this caller is the first probe.               *)
AllowFirstProbe(c) ==
    /\ brk.state = "open" /\ brk.openFor = 0
    /\ brk' = [brk EXCEPT !.state = "half-open", !.successes = 0,
                          !.inFlightProbe = TRUE]
    /\ grant' = [grant EXCEPT ![c] = "probe"]

AllowNextProbe(c) ==
    /\ brk.state = "half-open" /\ ~brk.inFlightProbe
    /\ brk' = [brk EXCEPT !.inFlightProbe = TRUE]
    /\ grant' = [grant EXCEPT ![c] = "probe"]

(* Allow's three ways of returning a release function.                     *)
Allow(c) ==
    /\ grant[c] = "none"
    /\ AllowClosed(c) \/ AllowFirstProbe(c) \/ AllowNextProbe(c)

(* Mutants of record: closes one probe late; keeps the probe slot.         *)
AfterSuccessLate(b) ==
    LET more == b.state = "half-open" /\ b.successes + 1 <= BreakerHalfOpenProbes IN
    [state |-> IF more THEN "half-open" ELSE "closed",
     failures |-> 0,
     successes |-> IF more THEN b.successes + 1 ELSE 0,
     openFor |-> b.openFor,
     inFlightProbe |-> FALSE]

AfterSuccessKeepsSlot(b) ==
    LET more == b.state = "half-open" /\ b.successes + 1 < BreakerHalfOpenProbes IN
    [b EXCEPT !.state = IF more THEN "half-open" ELSE "closed",
              !.failures = 0,
              !.successes = IF more THEN b.successes + 1 ELSE 0]

(* What record leaves behind; any release frees the probe slot, whoever    *)
(* holds it.                                                               *)
AfterSuccess(b) ==
    LET more == b.state = "half-open" /\ b.successes + 1 < BreakerHalfOpenProbes IN
    [state |-> IF more THEN "half-open" ELSE "closed",
     failures |-> 0,
     successes |-> IF more THEN b.successes + 1
                   ELSE IF b.state = "half-open" THEN 0 ELSE b.successes,
     openFor |-> b.openFor,
     inFlightProbe |-> FALSE]

CountFailure(n) == IF n < BreakerThreshold THEN n + 1 ELSE n

AfterFailureKeepsSlot(b) ==
    LET n == CountFailure(b.failures)
        trips == b.state = "half-open" \/ n >= BreakerThreshold IN
    [b EXCEPT !.state = IF trips THEN "open" ELSE @,
              !.failures = n,
              !.successes = 0,
              !.openFor = IF trips THEN BreakerCooldown ELSE @]

AfterFailure(b) ==
    LET trips == \/ b.state = "half-open"
                 \/ CountFailure(b.failures) >= BreakerThreshold IN
    [state |-> IF trips THEN "open" ELSE b.state,
     failures |-> CountFailure(b.failures),
     successes |-> 0,
     openFor |-> IF trips THEN BreakerCooldown ELSE b.openFor,
     inFlightProbe |-> FALSE]

(* The release function: sync.Once makes a second call of it a no-op.      *)
Record(c, success) ==
    /\ grant[c] # "none"
    /\ brk' = IF success THEN AfterSuccess(brk) ELSE AfterFailure(brk)
    /\ grant' = [grant EXCEPT ![c] = "none"]

BreakerTick ==
    /\ brk' = [brk EXCEPT !.openFor = IF @ > 0 THEN @ - 1 ELSE 0]
    /\ UNCHANGED grant

BreakerNext ==
    \/ \E c \in Callers : Allow(c)
    \/ \E c \in Callers, success \in BOOLEAN : Record(c, success)
    \/ BreakerTick

(* Time passes, and every admitted call is released: Guard.Do calls release *)
(* on each of its paths and fn runs under the transports' timeouts.         *)
BreakerFairness ==
    /\ WF_breakerVars(BreakerTick)
    /\ \A c \in Callers :
           WF_breakerVars(\E success \in BOOLEAN : Record(c, success))

BreakerSafety == BreakerInit /\ [][BreakerNext]_breakerVars

BreakerSpec == BreakerSafety /\ BreakerFairness

---------------------------------------------------------------------------
(* What OpenHosts lists.                                                   *)
ListedOpen == brk.state = "open" /\ brk.openFor > 0

---------------------------------------------------------------------------
(* Properties.                                                             *)

(* The breaker's record and the outstanding release functions are well     *)
(* formed.                                                                 *)
BreakerTypeOK ==
    /\ brk \in BreakerState
    /\ grant \in [Callers -> {"none", "call", "probe"}]

(* The probe slot is never leaked: while inFlightProbe refuses every other *)
(* caller (Allow, HalfOpen case), the breaker is half-open and some caller *)
(* still holds the release function of a probe, which will free the slot.  *)
ProbeSlotHeld ==
    brk.inFlightProbe =>
        /\ brk.state = "half-open"
        /\ \E c \in Callers : grant[c] = "probe"

(* The counters agree with the state across every order of releases: a     *)
(* closed circuit is below its threshold, a half-open one below its probe  *)
(* quota, and an open one got there by a full streak or a failed probe.    *)
CountersMatchState ==
    /\ brk.state = "closed" => brk.failures < BreakerThreshold
    /\ brk.state = "half-open" => /\ brk.successes < BreakerHalfOpenProbes
                                  /\ brk.openFor = 0
    /\ brk.state = "open" => brk.failures > 0 /\ brk.successes = 0

(* A refused host is never refused for ever: the cooldown runs out, and a  *)
(* half-open breaker gets its probe slot back, however many late failures  *)
(* of earlier calls re-arm the cooldown in between.                        *)
NotRefusedForever == []<>~Refuses
=============================================================================
