------------------------------- MODULE Guard -------------------------------
(***************************************************************************)
(* Guard.Do of internal/ratelimit/guard.go: the breaker and the limiter of *)
(* one upstream host around every call to it, for callers that interleave  *)
(* at each mutex the code takes.                                           *)
(***************************************************************************)
EXTENDS Breaker, Limiter

VARIABLES
    pc,     \* pc[c]: where c is inside Do
    out     \* out[c]: the kind of Outcome fn returned to c

guardVars == <<brk, grant, tokens, lastEvent, wait, pause, failures, pc, out>>

(* What healthy and Observe tell apart in an Outcome: a status below 500   *)
(* other than 429; 429 or 5xx without and with a Retry-After that parses;  *)
(* no status and an error; no status and no error, which is how a port-43  *)
(* exchange reports success.                                               *)
Outcome == {"answer", "overload", "retry-after", "dead", "whois"}

healthy(o) == o \in {"answer", "whois"}

Stage == {"idle", "acquire", "reserve", "reserved", "sleep", "calling",
          "observed", "refused"}

GuardInit ==
    /\ BreakerInit
    /\ LimiterInit
    /\ pc = [c \in Callers |-> "idle"]
    /\ out = [c \in Callers |-> "none"]

Goto(c, from, to) ==
    /\ pc[c] = from
    /\ pc' = [pc EXCEPT ![c] = to]

---------------------------------------------------------------------------

(* br.Allow succeeds; a refusal returns to the caller and changes nothing. *)
Admit(c) ==
    /\ Goto(c, "idle", "acquire")
    /\ Allow(c)
    /\ UNCHANGED <<limiterVars, out>>

(* Acquire's critical section: is the host paused?                         *)
AcquireThrottled(c) ==
    /\ Throttled
    /\ Goto(c, "acquire", "refused")
    /\ UNCHANGED <<breakerVars, limiterVars, out>>

AcquireUnpaused(c) ==
    /\ ~Throttled
    /\ Goto(c, "acquire", "reserve")
    /\ UNCHANGED <<breakerVars, limiterVars, out>>

(* bucket.Reserve, after l.mu was released.                                *)
AcquireReserve(c) ==
    /\ Goto(c, "reserve", "reserved")
    /\ Reserve(c)
    /\ UNCHANGED <<breakerVars, out>>

(* delay == 0: Acquire returns and fn starts.                              *)
CallAtOnce(c) ==
    /\ wait[c] = 0
    /\ Goto(c, "reserved", "calling")
    /\ UNCHANGED <<breakerVars, limiterVars, out>>

(* The token is too far away, or further than the caller's own deadline.   *)
GiveUp(c) ==
    /\ wait[c] > 0
    /\ Goto(c, "reserved", "refused")
    /\ Cancel(c)
    /\ UNCHANGED <<breakerVars, out>>

StartSleep(c) ==
    /\ wait[c] > 0 /\ ~TooLate(c)
    /\ Goto(c, "reserved", "sleep")
    /\ UNCHANGED <<breakerVars, limiterVars, out>>

(* The timer fires and fn starts.                                          *)
CallAfterSleep(c) ==
    /\ wait[c] = 0
    /\ Goto(c, "sleep", "calling")
    /\ UNCHANGED <<breakerVars, limiterVars, out>>

(* ctx is done first.                                                      *)
SleepCancelled(c) ==
    /\ Goto(c, "sleep", "refused")
    /\ Cancel(c)
    /\ UNCHANGED <<breakerVars, out>>

(* fn returns and Observe records its outcome.                             *)
Return(c, o) ==
    /\ Goto(c, "calling", "observed")
    /\ out' = [out EXCEPT ![c] = o]
    /\ UNCHANGED breakerVars

ReturnAnswer(c) == Return(c, "answer") /\ ObserveAnswer

ReturnNoStatus(c) == \E o \in {"dead", "whois"} : Return(c, o) /\ ObserveNoStatus

ReturnRetryAfter(c, d) == Return(c, "retry-after") /\ ObserveRetryAfter(d)

ReturnOverload(c) == Return(c, "overload") /\ ObserveOverload

(* Mutants: the release takes effect twice; a refused Acquire never releases. *)
FinishTwice(c) ==
    LET record(b) == IF healthy(out[c]) THEN AfterSuccess(b) ELSE AfterFailure(b) IN
    /\ Goto(c, "observed", "idle")
    /\ brk' = record(record(brk))
    /\ grant' = [grant EXCEPT ![c] = "none"]
    /\ out' = [out EXCEPT ![c] = "none"]
    /\ UNCHANGED limiterVars

FinishRefusedUnreleased(c) ==
    /\ Goto(c, "refused", "idle")
    /\ UNCHANGED <<breakerVars, limiterVars, out>>

(* release(healthy(out)), and release(true) after a failed Acquire.        *)
Finish(c) ==
    /\ Goto(c, "observed", "idle")
    /\ Record(c, healthy(out[c]))
    /\ out' = [out EXCEPT ![c] = "none"]
    /\ UNCHANGED limiterVars

FinishRefused(c) ==
    /\ Goto(c, "refused", "idle")
    /\ Record(c, TRUE)
    /\ UNCHANGED <<limiterVars, out>>

GuardTick ==
    /\ BreakerTick
    /\ LimiterTick
    /\ UNCHANGED <<pc, out>>

---------------------------------------------------------------------------

(* Everything a goroutine does once it is inside Do.                       *)
Proceed(c) ==
    \/ AcquireThrottled(c)
    \/ AcquireUnpaused(c)
    \/ AcquireReserve(c)
    \/ CallAtOnce(c)
    \/ GiveUp(c)
    \/ StartSleep(c)
    \/ CallAfterSleep(c)
    \/ SleepCancelled(c)
    \/ ReturnAnswer(c)
    \/ ReturnNoStatus(c)
    \/ \E d \in 0 .. MaxAsk : ReturnRetryAfter(c, d)
    \/ ReturnOverload(c)
    \/ Finish(c)
    \/ FinishRefused(c)

GuardNext ==
    \/ \E c \in Callers : Admit(c) \/ Proceed(c)
    \/ GuardTick

(* Nothing obliges anyone to start a call; a started one keeps going,      *)
(* because sleeps are timers, exchanges have deadlines and mutexes are     *)
(* held for a few assignments.                                             *)
GuardFairness ==
    /\ WF_guardVars(GuardTick)
    /\ \A c \in Callers : WF_guardVars(Proceed(c))

GuardSpec == GuardInit /\ [][GuardNext]_guardVars /\ GuardFairness

---------------------------------------------------------------------------

(* Every caller is at a stage of Do, holds a release function exactly      *)
(* while it is inside, and the two components are well typed.              *)
GuardTypeOK ==
    /\ BreakerTypeOK
    /\ LimiterTypeOK
    /\ pc \in [Callers -> Stage]
    /\ out \in [Callers -> Outcome \cup {"none"}]

(* Do calls release exactly once on every path: a caller holds a release   *)
(* function precisely while it is inside Do, and an outcome precisely      *)
(* between fn and release.                                                 *)
ReleasedOnce ==
    \A c \in Callers :
        /\ pc[c] = "idle" <=> grant[c] = "none"
        /\ pc[c] = "observed" <=> out[c] # "none"

(* Callers queued on the bucket wait for different tokens: a cancelled     *)
(* reservation never lets two sleepers share one slot, which would send    *)
(* two requests for one token.                                             *)
SlotsDistinct ==
    \A c, d \in Callers :
        c # d /\ wait[c] > 0 /\ wait[d] > 0 => wait[c] # wait[d]

(* The guarded breaker is the breaker: every step of Do is a step of       *)
(* Breaker or leaves it alone, so what is proved of Breaker holds here.    *)
RefinesBreaker == BreakerSafety
=============================================================================
