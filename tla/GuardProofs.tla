---------------------------- MODULE GuardProofs ----------------------------
(***************************************************************************)
(* The breaker for any number of callers and any threshold, cooldown and   *)
(* probe quota; and Guard.Do for any tuning: it drives the breaker only    *)
(* through Allow and one release per call, and the bucket never promises   *)
(* one token to two callers.                                               *)
(***************************************************************************)
EXTENDS GuardHistory, TLAPS

---------------------------------------------------------------------------
(* Breaker.                                                                *)

(* The conjunction that is inductive: the probe slot is tied to a holder,  *)
(* the counters to the state.                                              *)
BreakerInv == BreakerTypeOK /\ ProbeSlotHeld /\ CountersMatchState

(* What a successful release leaves in the record.                         *)
LEMMA AfterSuccessFacts ==
    ASSUME brk \in BreakerState, CountersMatchState
    PROVE  /\ AfterSuccess(brk) \in BreakerState
           /\ ~AfterSuccess(brk).inFlightProbe
           /\ AfterSuccess(brk).failures = 0
           /\ AfterSuccess(brk).openFor = brk.openFor
           /\ \/ AfterSuccess(brk).state = "closed"
              \/ /\ brk.state = "half-open"
                 /\ AfterSuccess(brk).state = "half-open"
                 /\ AfterSuccess(brk).successes < BreakerHalfOpenProbes
  BY BreakerConstants
     DEF AfterSuccess, BreakerState, State, CountersMatchState

(* What a failed release leaves in the record.                             *)
LEMMA AfterFailureFacts ==
    ASSUME brk \in BreakerState, CountersMatchState
    PROVE  /\ AfterFailure(brk) \in BreakerState
           /\ ~AfterFailure(brk).inFlightProbe
           /\ AfterFailure(brk).failures > 0
           /\ AfterFailure(brk).successes = 0
           /\ \/ AfterFailure(brk).state = "open"
              \/ /\ AfterFailure(brk).state = brk.state
                 /\ brk.state # "half-open"
                 /\ AfterFailure(brk).failures < BreakerThreshold
  BY BreakerConstants
     DEF AfterFailure, CountFailure, BreakerState, State, CountersMatchState

LEMMA BreakerInvInit == BreakerInit => BreakerInv
  BY BreakerConstants
     DEF BreakerInit, BreakerInv, BreakerTypeOK, ProbeSlotHeld,
         CountersMatchState, BreakerState, State

(* Every step of the breaker, and a stuttering one, preserves BreakerInv.  *)
LEMMA BreakerInvStep == BreakerInv /\ [BreakerNext]_breakerVars => BreakerInv'
  <1> SUFFICES ASSUME BreakerInv, [BreakerNext]_breakerVars
               PROVE  BreakerInv'
    OBVIOUS
  <1> USE BreakerConstants DEF BreakerInv
  <1>1. ASSUME NEW c \in Callers, Allow(c)
        PROVE  BreakerInv'
    <2>1. CASE AllowClosed(c)
      BY <1>1, <2>1 DEF Allow, AllowClosed, BreakerTypeOK, ProbeSlotHeld,
                        CountersMatchState, BreakerState, State
    <2>2. CASE AllowFirstProbe(c)
      <3>1. brk' = [state |-> "half-open", failures |-> brk.failures,
                    successes |-> 0, openFor |-> brk.openFor,
                    inFlightProbe |-> TRUE]
        BY <2>2 DEF AllowFirstProbe, BreakerTypeOK, BreakerState
      <3>2. brk.openFor = 0 /\ grant' = [grant EXCEPT ![c] = "probe"]
        BY <2>2 DEF AllowFirstProbe
      <3> QED
        BY <3>1, <3>2 DEF BreakerTypeOK, ProbeSlotHeld, CountersMatchState,
                          BreakerState, State
    <2>3. CASE AllowNextProbe(c)
      BY <1>1, <2>3 DEF Allow, AllowNextProbe, BreakerTypeOK, ProbeSlotHeld,
                        CountersMatchState, BreakerState, State
    <2> QED BY <1>1, <2>1, <2>2, <2>3 DEF Allow
  <1>2. ASSUME NEW c \in Callers, NEW success \in BOOLEAN, Record(c, success)
        PROVE  BreakerInv'
    <2>0. brk \in BreakerState /\ CountersMatchState
      BY DEF BreakerTypeOK
    <2>1. grant' \in [Callers -> {"none", "call", "probe"}]
      BY <1>2 DEF Record, BreakerTypeOK
    <2>2. CASE success
      <3>1. brk' = AfterSuccess(brk)
        BY <1>2, <2>2 DEF Record
      <3> QED
        BY <2>0, <2>1, <3>1, AfterSuccessFacts
           DEF BreakerTypeOK, ProbeSlotHeld, CountersMatchState, BreakerState, State
    <2>3. CASE ~success
      <3>1. brk' = AfterFailure(brk)
        BY <1>2, <2>3 DEF Record
      <3> QED
        BY <2>0, <2>1, <3>1, AfterFailureFacts
           DEF BreakerTypeOK, ProbeSlotHeld, CountersMatchState, BreakerState, State
    <2> QED BY <2>2, <2>3
  <1>3. CASE BreakerTick
    BY <1>3 DEF BreakerTick, BreakerTypeOK, ProbeSlotHeld,
                CountersMatchState, BreakerState, State
  <1>4. CASE UNCHANGED breakerVars
    BY <1>4 DEF breakerVars, BreakerTypeOK, ProbeSlotHeld, CountersMatchState
  <1> QED BY <1>1, <1>2, <1>3, <1>4 DEF BreakerNext

(* The inductive invariant holds in every reachable state.                 *)
THEOREM BreakerInvariant == BreakerSafety => []BreakerInv
  <1> QED BY BreakerInvInit, BreakerInvStep, PTL DEF BreakerSafety

(* The breaker's state is always well typed: in particular its counters    *)
(* never pass the threshold and the quota they are compared with.          *)
THEOREM BreakerTypeCorrect == BreakerSafety => []BreakerTypeOK
  <1>1. BreakerInv => BreakerTypeOK BY DEF BreakerInv
  <1> QED BY <1>1, BreakerInvariant, PTL

(* Allow can never find the probe slot taken without a caller that will    *)
(* give it back.                                                           *)
THEOREM ProbeSlotNeverLeaked == BreakerSafety => []ProbeSlotHeld
  <1>1. BreakerInv => ProbeSlotHeld BY DEF BreakerInv
  <1> QED BY <1>1, BreakerInvariant, PTL

(* No order of releases lets the counters and the state drift apart.       *)
THEOREM CountersAlwaysMatch == BreakerSafety => []CountersMatchState
  <1>1. BreakerInv => CountersMatchState BY DEF BreakerInv
  <1> QED BY <1>1, BreakerInvariant, PTL

---------------------------------------------------------------------------
(* Guard and Limiter.                                                      *)

(* The bucket's debt is the time to its last reservation, and nobody waits *)
(* longer than that: a new reservation is behind every older one.          *)
BucketInv ==
    /\ lastEvent = IF tokens < 0 THEN -tokens ELSE 0
    /\ \A c \in Callers : wait[c] <= lastEvent

GuardInv == GuardTypeOK /\ ReleasedOnce

LimiterInv == LimiterTypeOK /\ BucketInv /\ SlotsDistinct

---------------------------------------------------------------------------

(* A step of Do is a step of the breaker or leaves it alone.               *)
LEMMA GuardStepIsBreakerStep == [GuardNext]_guardVars => [BreakerNext]_breakerVars
  <1> SUFFICES ASSUME [GuardNext]_guardVars
               PROVE  [BreakerNext]_breakerVars
    OBVIOUS
  <1>1. ASSUME NEW c \in Callers, Admit(c)
        PROVE  BreakerNext
    BY <1>1 DEF Admit, BreakerNext
  <1>2. ASSUME NEW c \in Callers, Proceed(c)
        PROVE  [BreakerNext]_breakerVars
    <2>1. CASE Finish(c)
      <3>1. healthy(out[c]) \in BOOLEAN
        BY DEF healthy
      <3> QED BY <2>1, <3>1 DEF Finish, BreakerNext
    <2>2. CASE FinishRefused(c)
      BY <2>2 DEF FinishRefused, BreakerNext
    <2> QED
      BY <1>2, <2>1, <2>2
         DEF Proceed, AcquireThrottled, AcquireUnpaused, AcquireReserve, CallAtOnce,
             GiveUp, StartSleep, CallAfterSleep, SleepCancelled, Return,
             ReturnAnswer, ReturnNoStatus, ReturnRetryAfter, ReturnOverload
  <1>3. CASE GuardTick
    BY <1>3 DEF GuardTick, BreakerNext
  <1>4. CASE UNCHANGED guardVars
    BY <1>4 DEF guardVars, breakerVars
  <1> QED BY <1>1, <1>2, <1>3, <1>4 DEF GuardNext

(* Guard implements Breaker: Allow and release are used as the breaker     *)
(* requires, on every path through Do.                                     *)
THEOREM GuardImplementsBreaker == GuardSpec => RefinesBreaker
  <1>1. GuardInit => BreakerInit BY DEF GuardInit
  <1> QED
    BY <1>1, GuardStepIsBreakerStep, PTL DEF GuardSpec, RefinesBreaker, BreakerSafety

(* So under Do, too, a half-open breaker never loses its probe slot: no    *)
(* early return of Do forgets its release.                                 *)
THEOREM GuardNeverLeaksProbe == GuardSpec => []ProbeSlotHeld
  <1> QED
    BY GuardImplementsBreaker, ProbeSlotNeverLeaked, PTL DEF RefinesBreaker

---------------------------------------------------------------------------

LEMMA LimiterInvInit == LimiterInit => LimiterInv
  BY LimiterConstants
     DEF LimiterInit, LimiterInv, LimiterTypeOK, BucketInv, SlotsDistinct

(* Backoff draws a positive delay below its ceiling.                       *)
LEMMA BackoffBounded ==
    ASSUME NEW n \in 1 .. MaxFailures, NEW d \in Backoff(n)
    PROVE  d \in Nat /\ d <= BackoffMax
  <1> DEFINE p == 2 ^ (n - 1)
  <1>1. p \in Nat
    BY DoublingIsNatural
  <1>2. BackoffBase * p \in Nat
    <2> HIDE DEF p
    <2> QED BY <1>1, LimiterConstants
  <1>3. BackoffCeiling(n) \in Nat /\ BackoffCeiling(n) <= BackoffMax
    <2> DEFINE q == BackoffBase * p
    <2>1. BackoffCeiling(n) = IF q > BackoffMax THEN BackoffMax ELSE q
      BY DEF BackoffCeiling
    <2>2. q \in Nat /\ BackoffMax \in Nat
      BY <1>2, LimiterConstants
    <2> HIDE DEF q
    <2> QED BY <2>1, <2>2
  <1>4. d \in 1 .. BackoffCeiling(n)
    BY DEF Backoff
  <1> QED BY <1>3, <1>4, LimiterConstants

LEMMA CountFailedBounded ==
    ASSUME failures \in 0 .. MaxFailures
    PROVE  CountFailed \in 1 .. MaxFailures
  BY LimiterConstants DEF CountFailed

LEMMA ReserveKeepsLimiterInv ==
    ASSUME LimiterInv, NEW c \in Callers, Reserve(c)
    PROVE  LimiterInv'
  <1> USE LimiterConstants
  <1>1. LimiterTypeOK'
    BY DEF LimiterInv, LimiterTypeOK, Reserve
  <1>2. \A d \in Callers : wait'[d] = IF d = c THEN lastEvent' ELSE wait[d]
    BY DEF LimiterInv, LimiterTypeOK, Reserve
  <1>3. lastEvent' = IF tokens' < 0 THEN -tokens' ELSE 0
    BY DEF LimiterInv, LimiterTypeOK, Reserve, BucketInv
  <1>4. lastEvent' > 0 => lastEvent' = lastEvent + 1
    BY DEF LimiterInv, LimiterTypeOK, Reserve, BucketInv
  <1>5. lastEvent' = 0 => lastEvent = 0
    BY DEF LimiterInv, LimiterTypeOK, Reserve, BucketInv
  <1>6. \A d \in Callers : wait[d] \in Nat /\ wait[d] <= lastEvent
    BY DEF LimiterInv, LimiterTypeOK, BucketInv
  <1>7. lastEvent \in Nat /\ lastEvent' \in Nat /\ lastEvent <= lastEvent'
    BY <1>1, <1>4, <1>5 DEF LimiterInv, LimiterTypeOK
  <1>8. BucketInv'
    BY <1>2, <1>3, <1>6, <1>7 DEF BucketInv
  <1>9. \A d \in Callers : lastEvent' > 0 => wait[d] < lastEvent'
    BY <1>4, <1>6, <1>7
  <1>10. SlotsDistinct'
    BY <1>2, <1>7, <1>9 DEF LimiterInv, SlotsDistinct
  <1> QED BY <1>1, <1>8, <1>10 DEF LimiterInv

LEMMA CancelKeepsLimiterInv ==
    ASSUME LimiterInv, NEW c \in Callers, Cancel(c)
    PROVE  LimiterInv'
  <1> USE LimiterConstants
  <1>1. LimiterTypeOK'
    BY DEF LimiterInv, LimiterTypeOK, Cancel
  <1>2. \A d \in Callers : wait'[d] = IF d = c THEN 0 ELSE wait[d]
    BY DEF LimiterInv, LimiterTypeOK, Cancel
  <1>3. SlotsDistinct'
    BY <1>2 DEF LimiterInv, SlotsDistinct
  <1>4. CASE wait[c] > 0 /\ lastEvent = wait[c]
    <2>1. \A d \in Callers \ {c} : wait[d] < lastEvent
      BY <1>4 DEF LimiterInv, LimiterTypeOK, BucketInv, SlotsDistinct
    <2>2. lastEvent' = lastEvent - 1 /\ tokens < 0 /\ tokens' = tokens + 1
      BY <1>4 DEF LimiterInv, LimiterTypeOK, BucketInv, Cancel
    <2> QED
      BY <1>1, <1>2, <1>3, <1>4, <2>1, <2>2
         DEF LimiterInv, LimiterTypeOK, BucketInv
  <1>5. CASE ~(wait[c] > 0 /\ lastEvent = wait[c])
    <2>1. UNCHANGED <<tokens, lastEvent>>
      BY <1>5 DEF Cancel
    <2> QED
      BY <1>1, <1>2, <1>3, <2>1 DEF LimiterInv, LimiterTypeOK, BucketInv
  <1> QED BY <1>4, <1>5

LEMMA TickKeepsLimiterInv ==
    ASSUME LimiterInv, LimiterTick
    PROVE  LimiterInv'
  <1> USE LimiterConstants
  <1>1. LimiterTypeOK'
    BY DEF LimiterInv, LimiterTypeOK, LimiterTick, Elapse
  <1>2. \A d \in Callers : wait'[d] = IF wait[d] > 0 THEN wait[d] - 1 ELSE 0
    BY DEF LimiterTick, Elapse
  <1>3. SlotsDistinct'
    BY <1>2 DEF LimiterInv, LimiterTypeOK, SlotsDistinct
  <1>4. BucketInv'
    BY <1>2 DEF LimiterInv, LimiterTypeOK, BucketInv, LimiterTick, Elapse
  <1> QED BY <1>1, <1>3, <1>4 DEF LimiterInv

(* Observe moves only the pause and the failure count.                     *)
LEMMA ObserveKeepsLimiterInv ==
    ASSUME LimiterInv, UNCHANGED <<tokens, lastEvent, wait>>,
           pause' \in Nat, pause' <= MaxPause \/ pause' <= BackoffMax,
           failures' \in 0 .. MaxFailures
    PROVE  LimiterInv'
  BY DEF LimiterInv, LimiterTypeOK, BucketInv, SlotsDistinct

(* Every step of Do, and a tick, preserves LimiterInv.                     *)
LEMMA LimiterInvStep == LimiterInv /\ [GuardNext]_guardVars => LimiterInv'
  <1> SUFFICES ASSUME LimiterInv, [GuardNext]_guardVars
               PROVE  LimiterInv'
    OBVIOUS
  <1> USE LimiterConstants
  <1>0. ASSUME UNCHANGED limiterVars
        PROVE  LimiterInv'
    BY <1>0 DEF limiterVars, LimiterInv, LimiterTypeOK, BucketInv, SlotsDistinct
  <1>1. ASSUME NEW c \in Callers, Admit(c)
        PROVE  LimiterInv'
    BY <1>0, <1>1 DEF Admit
  <1>2. ASSUME NEW c \in Callers, Proceed(c)
        PROVE  LimiterInv'
    <2>0. failures \in 0 .. MaxFailures /\ pause \in Nat
          /\ (pause <= MaxPause \/ pause <= BackoffMax)
      BY DEF LimiterInv, LimiterTypeOK
    <2>1. CountFailed \in 1 .. MaxFailures
      BY <2>0, CountFailedBounded
    <2>2. CASE AcquireReserve(c)
      BY <2>2, ReserveKeepsLimiterInv DEF AcquireReserve
    <2>3. CASE GiveUp(c) \/ SleepCancelled(c)
      BY <2>3, CancelKeepsLimiterInv DEF GiveUp, SleepCancelled
    <2>4. CASE ReturnAnswer(c)
      BY <2>4, ObserveKeepsLimiterInv DEF ReturnAnswer, ObserveAnswer
    <2>5. CASE ReturnNoStatus(c)
      BY <2>0, <2>1, <2>5, ObserveKeepsLimiterInv DEF ReturnNoStatus, ObserveNoStatus
    <2>6. ASSUME NEW d \in 0 .. MaxAsk, ReturnRetryAfter(c, d)
          PROVE  LimiterInv'
      <3>1. capPause(d) \in Nat /\ capPause(d) <= MaxPause
        BY DEF capPause
      <3> QED
        BY <2>1, <2>6, <3>1, ObserveKeepsLimiterInv DEF ReturnRetryAfter, ObserveRetryAfter
    <2>7. CASE ReturnOverload(c)
      <3>1. pause' \in Backoff(CountFailed)
        BY <2>7 DEF ReturnOverload, ObserveOverload
      <3>2. pause' \in Nat /\ pause' <= BackoffMax
        BY <2>1, <3>1, BackoffBounded
      <3> QED
        BY <2>1, <2>7, <3>2, ObserveKeepsLimiterInv DEF ReturnOverload, ObserveOverload
    <2> QED
      BY <1>0, <1>2, <2>2, <2>3, <2>4, <2>5, <2>6, <2>7
         DEF Proceed, AcquireThrottled, AcquireUnpaused, CallAtOnce, StartSleep,
             CallAfterSleep, Finish, FinishRefused
  <1>3. CASE GuardTick
    BY <1>3, TickKeepsLimiterInv DEF GuardTick
  <1>4. CASE UNCHANGED guardVars
    BY <1>0, <1>4 DEF guardVars, limiterVars
  <1> QED BY <1>1, <1>2, <1>3, <1>4 DEF GuardNext

(* No two callers ever wait for the same token, whatever order they give   *)
(* up in: the bucket's politeness survives Cancel.                         *)
THEOREM SlotsNeverShared == GuardSpec => []SlotsDistinct
  <1>1. GuardInit => LimiterInv BY LimiterInvInit DEF GuardInit
  <1>2. LimiterInv => SlotsDistinct BY DEF LimiterInv
  <1> QED BY <1>1, <1>2, LimiterInvStep, PTL DEF GuardSpec

---------------------------------------------------------------------------

LEMMA GuardInvInit == GuardInit => GuardInv
  <1>1. GuardInit => BreakerInv /\ LimiterInv
    BY BreakerInvInit, LimiterInvInit DEF GuardInit
  <1> QED
    BY <1>1 DEF GuardInit, BreakerInit, LimiterInit, GuardInv, GuardTypeOK,
                BreakerInv, LimiterInv, ReleasedOnce, Stage, Outcome

(* The stages of Do: every path from Allow to the one release.             *)
LEMMA GuardInvStep ==
    GuardInv /\ BreakerTypeOK' /\ LimiterTypeOK' /\ [GuardNext]_guardVars => GuardInv'
  <1> SUFFICES ASSUME GuardInv, BreakerTypeOK', LimiterTypeOK', [GuardNext]_guardVars
               PROVE  GuardInv'
    OBVIOUS
  <1>0. /\ pc \in [Callers -> Stage]
        /\ out \in [Callers -> Outcome \cup {"none"}]
        /\ grant \in [Callers -> {"none", "call", "probe"}]
    BY DEF GuardInv, GuardTypeOK, BreakerTypeOK
  <1>1. ASSUME NEW c \in Callers, Admit(c)
        PROVE  GuardInv'
    BY <1>0, <1>1 DEF Admit, Goto, Allow, AllowClosed, AllowFirstProbe, AllowNextProbe,
                      GuardInv, GuardTypeOK, ReleasedOnce, Stage
  <1>2. ASSUME NEW c \in Callers, Proceed(c)
        PROVE  GuardInv'
    <2>1. ASSUME NEW from \in Stage \ {"idle", "observed"},
                 NEW to \in Stage \ {"idle", "observed"},
                 Goto(c, from, to), UNCHANGED <<breakerVars, out>>
          PROVE  GuardInv'
      BY <1>0, <2>1 DEF Goto, breakerVars, GuardInv, GuardTypeOK, ReleasedOnce
    <2>2. ASSUME NEW o \in Outcome, Return(c, o)
          PROVE  GuardInv'
      BY <1>0, <2>2 DEF Return, Goto, breakerVars, GuardInv, GuardTypeOK, ReleasedOnce,
                        Stage, Outcome
    <2>3. CASE Finish(c)
      BY <1>0, <2>3 DEF Finish, Goto, Record, GuardInv, GuardTypeOK, ReleasedOnce, Stage
    <2>4. CASE FinishRefused(c)
      BY <1>0, <2>4 DEF FinishRefused, Goto, Record, GuardInv, GuardTypeOK, ReleasedOnce,
                        Stage
    <2>5. CASE AcquireThrottled(c) \/ AcquireUnpaused(c) \/ AcquireReserve(c)
      BY <2>1, <2>5 DEF AcquireThrottled, AcquireUnpaused, AcquireReserve, Stage
    <2>6. CASE CallAtOnce(c) \/ GiveUp(c) \/ StartSleep(c)
      BY <2>1, <2>6 DEF CallAtOnce, GiveUp, StartSleep, Stage
    <2>7. CASE CallAfterSleep(c) \/ SleepCancelled(c)
      BY <2>1, <2>7 DEF CallAfterSleep, SleepCancelled, Stage
    <2>8. CASE \/ ReturnAnswer(c) \/ ReturnNoStatus(c) \/ ReturnOverload(c)
               \/ \E d \in 0 .. MaxAsk : ReturnRetryAfter(c, d)
      BY <2>2, <2>8 DEF ReturnAnswer, ReturnNoStatus, ReturnOverload, ReturnRetryAfter,
                        Outcome
    <2> QED
      BY <1>2, <2>3, <2>4, <2>5, <2>6, <2>7, <2>8 DEF Proceed
  <1>3. CASE GuardTick
    BY <1>0, <1>3 DEF GuardTick, BreakerTick, GuardInv, GuardTypeOK, ReleasedOnce
  <1>4. CASE UNCHANGED guardVars
    BY <1>0, <1>4 DEF guardVars, GuardInv, GuardTypeOK, ReleasedOnce
  <1> QED BY <1>1, <1>2, <1>3, <1>4 DEF GuardNext

(* The combined invariant of Do, with the breaker's and limiter's parts.   *)
THEOREM GuardInvariant == GuardSpec => []GuardInv
  <1>1. GuardSpec => []BreakerTypeOK
    BY GuardImplementsBreaker, BreakerTypeCorrect, PTL DEF RefinesBreaker
  <1>2. GuardInit => LimiterInv BY LimiterInvInit DEF GuardInit
  <1>3. LimiterInv => LimiterTypeOK BY DEF LimiterInv
  <1> QED
    BY <1>1, <1>2, <1>3, LimiterInvStep, GuardInvInit, GuardInvStep, PTL DEF GuardSpec

(* Do's state is always well typed, its pauses and waits within their caps.*)
THEOREM GuardTypeCorrect == GuardSpec => []GuardTypeOK
  <1>1. GuardInv => GuardTypeOK BY DEF GuardInv
  <1> QED BY <1>1, GuardInvariant, PTL

(* On every path through Do the release function is called exactly once.   *)
THEOREM AlwaysReleasedOnce == GuardSpec => []ReleasedOnce
  <1>1. GuardInv => ReleasedOnce BY DEF GuardInv
  <1> QED BY <1>1, GuardInvariant, PTL
---------------------------------------------------------------------------

(* Who is past the pause check is remembered by the step that sets the     *)
(* pause, so the stages and outcomes of Do are all the history needs.      *)
HistoryInv == GuardInv /\ BreakerInv /\ LimiterInv /\ OnlyEarlierCallsDuringPause

(* The history is added to Guard: its steps are steps of Guard.            *)
LEMMA HistoryStepIsGuardStep == [HistoryNext]_hvars => [GuardNext]_guardVars
  BY DEF HistoryNext, hvars

(* Only an answer that asks for a pause sets one.                          *)
LEMMA PauseSetByObserve ==
    ASSUME GuardInv, LimiterInv, GuardNext, ~Observed({"overload", "retry-after"}), pause' > 0
    PROVE  pause > 0
  <1>0. /\ pc \in [Callers -> Stage] /\ out \in [Callers -> Outcome \cup {"none"}]
        /\ pause \in Nat
    BY DEF GuardInv, GuardTypeOK, LimiterTypeOK
  <1>1. ASSUME NEW c \in Callers, NEW o \in {"overload", "retry-after"}, Return(c, o)
        PROVE  FALSE
    BY <1>0, <1>1 DEF Return, Goto, Observed
  <1>2. ASSUME NEW c \in Callers, Admit(c)
        PROVE  pause > 0
    BY <1>2 DEF Admit, limiterVars
  <1>3. ASSUME NEW c \in Callers, Proceed(c)
        PROVE  pause > 0
    <2>1. CASE UNCHANGED limiterVars
      BY <2>1 DEF limiterVars
    <2>2. CASE Reserve(c) \/ Cancel(c)
      BY <2>2 DEF Reserve, Cancel
    <2>3. CASE ObserveAnswer \/ ObserveNoStatus
      BY <1>0, <2>3 DEF ObserveAnswer, ObserveNoStatus, limiterVars
    <2> QED
      BY <1>1, <1>3, <2>1, <2>2, <2>3
         DEF Proceed, AcquireThrottled, AcquireUnpaused, AcquireReserve, CallAtOnce,
             GiveUp, StartSleep, CallAfterSleep, SleepCancelled, ReturnAnswer,
             ReturnNoStatus, ReturnRetryAfter, ReturnOverload, Finish, FinishRefused
  <1>4. CASE GuardTick
    BY <1>0, <1>4 DEF GuardTick, LimiterTick, Elapse
  <1> QED BY <1>2, <1>3, <1>4 DEF GuardNext

(* Nobody passes the pause check of a paused host.                         *)
LEMMA NobodyPassesDuringPause ==
    ASSUME GuardInv, GuardNext, pause > 0
    PROVE  PastCheck' \subseteq PastCheck
  <1>0. pc \in [Callers -> Stage]
    BY DEF GuardInv, GuardTypeOK
  <1>1. ASSUME NEW c \in Callers, Admit(c)
        PROVE  PastCheck' \subseteq PastCheck
    BY <1>0, <1>1 DEF Admit, Goto, PastCheck, Stage
  <1>2. ASSUME NEW c \in Callers, Proceed(c)
        PROVE  PastCheck' \subseteq PastCheck
    <2>1. PICK from \in {"acquire", "reserve", "reserved", "sleep", "calling", "observed",
                         "refused"},
               to \in Stage :
                   /\ Goto(c, from, to)
                   /\ from = "acquire" => to = "refused"
                   /\ from \in {"observed", "refused"} => to = "idle"
      BY <1>2
         DEF Proceed, AcquireThrottled, AcquireUnpaused, Throttled, AcquireReserve,
             CallAtOnce, GiveUp, StartSleep, CallAfterSleep, SleepCancelled, Return,
             ReturnAnswer, ReturnNoStatus, ReturnRetryAfter, ReturnOverload, Finish,
             FinishRefused, Stage
    <2> QED BY <1>0, <2>1 DEF Goto, PastCheck, Stage
  <1>3. CASE GuardTick
    BY <1>3 DEF GuardTick, PastCheck
  <1> QED BY <1>1, <1>2, <1>3 DEF GuardNext

LEMMA HistoryInvStep == HistoryInv /\ [HistoryNext]_hvars => HistoryInv'
  <1> SUFFICES ASSUME HistoryInv, [HistoryNext]_hvars
               PROVE  HistoryInv'
    OBVIOUS
  <1>1. [GuardNext]_guardVars
    BY HistoryStepIsGuardStep
  <1>2. BreakerInv' /\ LimiterInv'
    BY <1>1, GuardStepIsBreakerStep, BreakerInvStep, LimiterInvStep DEF HistoryInv
  <1>3. GuardInv'
    BY <1>1, <1>2, GuardInvStep DEF HistoryInv, BreakerInv, LimiterInv
  <1>4. OnlyEarlierCallsDuringPause'
    <2>1. CASE HistoryNext /\ Observed({"overload", "retry-after"})
      BY <2>1 DEF HistoryNext, RecordEarlier, OnlyEarlierCallsDuringPause
    <2>2. CASE HistoryNext /\ ~Observed({"overload", "retry-after"})
      <3>1. GuardNext /\ earlier' = earlier
        BY <2>2 DEF HistoryNext, RecordEarlier
      <3>2. pause' > 0 => pause > 0
        BY <2>2, <3>1, PauseSetByObserve DEF HistoryInv
      <3> QED
        BY <3>1, <3>2, NobodyPassesDuringPause
           DEF HistoryInv, OnlyEarlierCallsDuringPause
    <2>3. CASE UNCHANGED hvars
      BY <2>3 DEF hvars, guardVars, historyVars, HistoryInv, OnlyEarlierCallsDuringPause,
                  PastCheck
    <2> QED BY <2>1, <2>2, <2>3
  <1> QED BY <1>2, <1>3, <1>4 DEF HistoryInv

(* A Retry-After or a backoff is honoured by everybody who had not passed  *)
(* Acquire's check when it was set: the check and the call are far apart,  *)
(* but nobody slips in between.                                            *)
THEOREM PauseStopsNewCalls == HistorySpec => []OnlyEarlierCallsDuringPause
  <1>1. HistoryInit => HistoryInv
    <2>1. HistoryInit => pause = 0
      BY DEF HistoryInit, GuardInit, LimiterInit
    <2>2. HistoryInit => BreakerInv /\ LimiterInv /\ GuardInv
      BY BreakerInvInit, LimiterInvInit, GuardInvInit DEF HistoryInit, GuardInit
    <2> QED BY <2>1, <2>2 DEF HistoryInv, OnlyEarlierCallsDuringPause
  <1>2. HistoryInv => OnlyEarlierCallsDuringPause BY DEF HistoryInv
  <1> QED BY <1>1, <1>2, HistoryInvStep, PTL DEF HistorySpec
=============================================================================
