------------------------------ MODULE Limiter ------------------------------
(***************************************************************************)
(* The per-host limiter of internal/ratelimit/ratelimit.go, for one host   *)
(* key: the token bucket, the pause an upstream asked for, and the count   *)
(* of consecutive failures that sizes our own backoff.                     *)
(*                                                                         *)
(* One tick is the interval in which the bucket earns one token.  Instants *)
(* are kept as the ticks left until them, so no clock has to be bounded.   *)
(* The bucket itself (golang.org/x/time/rate) is a library; Reserve and    *)
(* Cancel are modelled from how Acquire uses them.                         *)
(***************************************************************************)
EXTENDS Upstream, Integers

CONSTANTS
    Burst,          \* bucket size
    MaxDebt,        \* bound: tokens a bucket can owe (see Reserve)
    MaxWait,        \* longest wait for a token, in ticks
    MaxPause,       \* cap on a Retry-After that is honoured, in ticks
    MaxAsk,         \* largest Retry-After an upstream sends
    BackoffBase,    \* first step of our own schedule, in ticks
    BackoffMax,     \* its ceiling
    MaxFailures     \* failures beyond which the schedule stays at the ceiling

ASSUME LimiterConstants ==
    /\ Burst \in Nat \ {0}
    /\ MaxDebt \in Nat
    /\ MaxWait \in Nat
    /\ MaxPause \in Nat
    /\ MaxAsk \in Nat
    /\ BackoffBase \in Nat \ {0}
    /\ BackoffMax \in Nat \ {0}
    /\ MaxFailures \in Nat \ {0}
    /\ BackoffBase * 2 ^ (MaxFailures - 1) >= BackoffMax

(* True of all natural exponents; named because the provers do not know it. *)
ASSUME DoublingIsNatural == \A n \in 1 .. MaxFailures : 2 ^ (n - 1) \in Nat

VARIABLES
    tokens,     \* tokens in the bucket; negative when they are owed
    lastEvent,  \* ticks until the latest reserved instant
    wait,       \* wait[c]: ticks until the token c reserved arrives
    pause,      \* ticks until pauses[key]; 0 when there is none
    failures    \* consecutive failures, counted up to MaxFailures

limiterVars == <<tokens, lastEvent, wait, pause, failures>>

(* A tick brings an instant closer.                                        *)
Elapse(n) == IF n > 0 THEN n - 1 ELSE 0

LimiterInit ==
    /\ tokens = Burst
    /\ lastEvent = 0
    /\ wait = [c \in Callers |-> 0]
    /\ pause = 0
    /\ failures = 0

---------------------------------------------------------------------------
(* Acquire.                                                                *)

(* Mutant: the pause ends a tick early.                                    *)
ThrottledEarly == pause > 1

(* The critical section: an active pause is refused with ErrThrottled, an  *)
(* elapsed one is deleted (it already reads 0).                            *)
Throttled == pause > 0

(* bucket.Reserve: take a token now and owe it if there is none.  Cancel   *)
(* gives back only the last reservation, so callers that give up out of    *)
(* order run up a debt only time repays: MaxDebt bounds the model there.   *)
Reserve(c) ==
    LET owed == IF tokens >= 1 THEN 0 ELSE 1 - tokens IN
    /\ tokens > -MaxDebt
    /\ tokens' = tokens - 1
    /\ wait' = [wait EXCEPT ![c] = owed]
    /\ lastEvent' = owed
    /\ UNCHANGED <<pause, failures>>

(* A token that arrives after MaxWait is refused.                          *)
TooLate(c) == wait[c] > MaxWait

(* Mutant: every cancelled reservation gives its token back.               *)
CancelAlways(c) ==
    /\ tokens' = IF tokens < Burst THEN tokens + 1 ELSE Burst
    /\ lastEvent' = Elapse(wait[c])
    /\ wait' = [wait EXCEPT ![c] = 0]
    /\ UNCHANGED <<pause, failures>>

(* res.Cancel: the token goes back only if its instant is still ahead and  *)
(* nothing was reserved behind it.                                         *)
Cancel(c) ==
    /\ IF wait[c] > 0 /\ lastEvent = wait[c]
       THEN /\ tokens' = IF tokens < Burst THEN tokens + 1 ELSE Burst
            /\ lastEvent' = wait[c] - 1
       ELSE UNCHANGED <<tokens, lastEvent>>
    /\ wait' = [wait EXCEPT ![c] = 0]
    /\ UNCHANGED <<pause, failures>>

---------------------------------------------------------------------------
(* Observe.                                                                *)

(* capPause, and ParseRetryAfter on a value in either form: a date in the  *)
(* past and a zero both read as a pause of no length.                      *)
capPause(d) == IF d > MaxPause THEN MaxPause ELSE d

(* The upper end of Backoff's draw after n failures.                       *)
BackoffCeiling(n) ==
    LET d == BackoffBase * 2 ^ (n - 1) IN IF d > BackoffMax THEN BackoffMax ELSE d

(* Full jitter: any delay from the smallest up to the ceiling.             *)
Backoff(n) == 1 .. BackoffCeiling(n)

CountFailed == IF failures < MaxFailures THEN failures + 1 ELSE failures

(* Any status other than 0, 429 and 5xx.                                   *)
ObserveAnswer ==
    /\ failures' = 0
    /\ pause' = 0
    /\ UNCHANGED <<tokens, lastEvent, wait>>

(* Status 0: a transport failure, or a port-43 exchange of either outcome. *)
ObserveNoStatus ==
    /\ failures' = CountFailed
    /\ UNCHANGED <<tokens, lastEvent, wait, pause>>

(* 429 or 5xx with a Retry-After that parses.                              *)
ObserveRetryAfter(d) ==
    /\ failures' = CountFailed
    /\ pause' = capPause(d)
    /\ UNCHANGED <<tokens, lastEvent, wait>>

(* 429 or 5xx without one.                                                 *)
ObserveOverload ==
    /\ failures' = CountFailed
    /\ pause' \in Backoff(CountFailed)
    /\ UNCHANGED <<tokens, lastEvent, wait>>

LimiterTick ==
    /\ tokens' = IF tokens < Burst THEN tokens + 1 ELSE Burst
    /\ lastEvent' = Elapse(lastEvent)
    /\ wait' = [c \in Callers |-> Elapse(wait[c])]
    /\ pause' = Elapse(pause)
    /\ UNCHANGED failures

---------------------------------------------------------------------------

(* The bucket never holds more than its size, and every delay is bounded   *)
(* by the cap that applies to it.                                          *)
LimiterTypeOK ==
    /\ tokens \in -MaxDebt .. Burst
    /\ lastEvent \in Nat
    /\ wait \in [Callers -> Nat]
    /\ pause \in Nat /\ (pause <= MaxPause \/ pause <= BackoffMax)
    /\ failures \in 0 .. MaxFailures
=============================================================================
