------------------------------ MODULE Enrollment ------------------------------
(***************************************************************************)
(* Enrollment (internal/auth/enrollment.go): the operator's one secret and *)
(* the lockout of a source that keeps getting it wrong.                    *)
(*                                                                         *)
(* Verify takes the lock twice.  Under the first it decides whether the    *)
(* source may try; between the two it hashes the presented token with      *)
(* Argon2id, which takes long and runs unlocked; under the second it books *)
(* the outcome, with the clock reading of the FIRST.  Attempts of one      *)
(* source that overlap therefore all pass the check before any is counted. *)
(*                                                                         *)
(* Times are ages: how long ago a source last failed, how long its lock    *)
(* still runs, how long ago an attempt read the clock.                     *)
(***************************************************************************)
EXTENDS Integers, FiniteSets, FiniteSetsExt

CONSTANTS
    Sources,            \* client addresses, hashed before use as a key
    Attempts,           \* requests that may be in Verify at one time
    LockoutThreshold,   \* consecutive failures that trip the lockout
    LockoutBase,        \* the first lockout
    LockoutMax,         \* the longest lockout
    MaxShift, Width,    \* how far the backoff is shifted at most; the bits of a time.Duration
    AttemptWindow,      \* how long failures are remembered
    MaxHash             \* bound: the longest an Argon2id hash takes

\* 5, 2 s, 15 min and 1 h in the code; a hash takes a fraction of a second.
ASSUME LockoutAssumption ==
    /\ {LockoutThreshold, LockoutBase, LockoutMax, AttemptWindow} \subseteq Nat \ {0}
    /\ IsFiniteSet(Attempts)
    /\ MaxHash \in Nat
    /\ MaxHash < LockoutBase
    /\ LockoutBase =< LockoutMax
    /\ LockoutMax + MaxHash < AttemptWindow

\* The largest power of two a duration does not hold.
Half == 2 ^ (Width - 1)

\* 20 and 64 in the code: 2 s shifted by 20 is 24 days, and fits.
ASSUME ShiftAssumption ==
    /\ MaxShift \in Nat
    /\ Half \in Nat \ {0}
    /\ LockoutBase * 2 ^ MaxShift \in LockoutMax .. Half - 1

(* True of all natural exponents; named because the provers do not know it. *)
ASSUME DoublingGrows ==
    /\ \A n \in (0 .. LockoutMax) \cup {MaxShift} : 2 ^ n \in Nat \ {0}
    /\ \A n \in 0 .. LockoutMax :
           IF n =< MaxShift THEN 2 ^ n =< 2 ^ MaxShift ELSE 2 ^ MaxShift =< 2 ^ n

VARIABLES
    sources,    \* per source: its attemptState
    attempts,   \* per attempt: where Verify is, for whom, and the age of its now
    burst       \* history, per source: attempts admitted since it was last free

enrollVars == <<sources, attempts, burst>>

-----------------------------------------------------------------------------
(* lastFail is the age of the last failure; beyond AttemptWindow it no     *)
(* longer matters how far, and Long also stands for the zero time.         *)

Long == AttemptWindow + 1

NoState == [failures |-> 0, lastFail |-> Long, lockedThru |-> 0]

Idle == [stage |-> "idle"]

\* What a duration is left with of n: two's complement.
Wrapped(n) == ((n + Half) % (2 * Half)) - Half

(* Mutant: the shift has no cap and its result only an upper one.          *)
backoffUncapped(failures) ==
    LET shifted == Wrapped(LockoutBase * 2 ^ (failures - LockoutThreshold))
    IN  IF shifted > LockoutMax THEN LockoutMax ELSE shifted

backoff(failures) ==
    LET shifted == Wrapped(LockoutBase * 2 ^ Min({failures - LockoutThreshold, MaxShift}))
    IN  IF shifted > LockoutMax \/ shifted <= 0 THEN LockoutMax ELSE shifted

\* Bound: counting further failures changes nothing, the backoff being LockoutMax.
MaxFailures == LockoutThreshold + LockoutMax

EnrollInit ==
    /\ sources = [s \in Sources |-> NoState]
    /\ attempts = [a \in Attempts |-> Idle]
    /\ burst = [s \in Sources |-> 0]

-----------------------------------------------------------------------------
(* Under the first lock: yesterday's failures are forgotten, and a source  *)
(* that is locked out is refused without a hash and without being counted. *)

Cleared(st) == [failures |-> 0, lastFail |-> st.lastFail, lockedThru |-> 0]

Forget(st) == IF st.lastFail > AttemptWindow THEN Cleared(st) ELSE st

(* Mutant: an attempt made while locked out counts as one more failure.    *)
LockedOutCounted(a, s) ==
    /\ attempts[a] = Idle
    /\ Forget(sources[s]).lockedThru > 0
    /\ sources' = [sources EXCEPT ![s] = [failures |-> Min({MaxFailures, @.failures + 1}),
                                          lastFail |-> 0,
                                          lockedThru |-> backoff(@.failures + 1)]]
    /\ UNCHANGED <<attempts, burst>>

LockedOut(a, s) ==
    /\ attempts[a] = Idle
    /\ Forget(sources[s]).lockedThru > 0
    /\ sources' = [sources EXCEPT ![s] = Forget(@)]
    /\ UNCHANGED <<attempts, burst>>

(* Mutant: old failures are forgotten and the lock is not looked at.       *)
AdmitUnchecked(a, s) ==
    /\ attempts[a] = Idle
    /\ sources' = [sources EXCEPT ![s] = Forget(@)]
    /\ attempts' = [attempts EXCEPT ![a] = [stage |-> "hash", source |-> s, now |-> 0]]
    /\ burst' = [burst EXCEPT ![s] = IF Forget(sources[s]) = sources[s] THEN @ + 1 ELSE 1]

Admit(a, s) ==
    /\ attempts[a] = Idle
    /\ Forget(sources[s]).lockedThru = 0
    /\ sources' = [sources EXCEPT ![s] = Forget(@)]
    /\ attempts' = [attempts EXCEPT ![a] = [stage |-> "hash", source |-> s, now |-> 0]]
    /\ burst' = [burst EXCEPT ![s] = IF Forget(sources[s]) = sources[s] THEN @ + 1 ELSE 1]

-----------------------------------------------------------------------------
(* Under the second lock, after the hash: the right secret clears the      *)
(* source, a wrong one is counted from the clock reading the attempt began *)
(* with, whatever other attempts have booked since.                        *)

RightSecret(a) ==
    /\ attempts[a] # Idle
    /\ sources' = [sources EXCEPT ![attempts[a].source] = Cleared(@)]
    /\ attempts' = [attempts EXCEPT ![a] = Idle]
    /\ burst' = [burst EXCEPT ![attempts[a].source] = 0]

Failed(st, now) ==
    LET n == Min({MaxFailures, st.failures + 1})
    IN  [failures |-> n, lastFail |-> now,
         lockedThru |-> IF n >= LockoutThreshold THEN Max({0, backoff(n) - now})
                        ELSE st.lockedThru]

WrongSecret(a) ==
    /\ attempts[a] # Idle
    /\ sources' = [sources EXCEPT ![attempts[a].source] = Failed(@, attempts[a].now)]
    /\ attempts' = [attempts EXCEPT ![a] = Idle]
    /\ UNCHANGED burst

-----------------------------------------------------------------------------

\* Time passes: every age grows, every lock runs down, and no hash runs forever.
Tick ==
    /\ \A a \in Attempts : attempts[a] # Idle => attempts[a].now < MaxHash
    /\ sources' = [s \in Sources |->
           [failures |-> sources[s].failures,
            lastFail |-> Min({Long, sources[s].lastFail + 1}),
            lockedThru |-> Max({0, sources[s].lockedThru - 1})]]
    /\ attempts' = [a \in Attempts |->
           IF attempts[a] = Idle THEN Idle ELSE [attempts[a] EXCEPT !.now = @ + 1]]
    /\ burst' = [s \in Sources |-> IF sources[s].lockedThru = 1 THEN 0 ELSE burst[s]]

Return(a) == RightSecret(a) \/ WrongSecret(a)

EnrollNext ==
    \/ \E a \in Attempts, s \in Sources : LockedOut(a, s) \/ Admit(a, s)
    \/ \E a \in Attempts : RightSecret(a) \/ WrongSecret(a)
    \/ Tick

\* A hash ends and the clock moves on; nobody has to try.
EnrollFairness == WF_enrollVars(Tick) /\ \A a \in Attempts : WF_enrollVars(Return(a))

EnrollSpec == EnrollInit /\ [][EnrollNext]_enrollVars /\ EnrollFairness

-----------------------------------------------------------------------------

(* A source is locked exactly for what its failures have earned, counted   *)
(* from the last of them: attempts that overlap, a success among them and  *)
(* the forgetting of old failures leave no lock behind a cleared count,    *)
(* and no count without its lock.  Earned is LockoutBase doubled with each *)
(* failure and capped at LockoutMax, in integers that do not wrap.         *)
LockMatchesFailures ==
    \A s \in Sources :
        LET n == sources[s].failures - LockoutThreshold
        IN  sources[s].lockedThru =
                IF n < 0 THEN 0
                ELSE Max({0, Min({LockoutMax, LockoutBase * 2 ^ n}) - sources[s].lastFail})

(* The check and the count are two critical sections, yet overlapping      *)
(* attempts gain a source no more than their own number: it is let through *)
(* at most LockoutThreshold - 1 times and once per overlapping attempt     *)
(* before its first lock, and after every later lock only the latter.      *)
BurstBounded ==
    \A s \in Sources :
        /\ burst[s] =< LockoutThreshold - 1 + Cardinality(Attempts)
        /\ sources[s].failures >= LockoutThreshold /\ sources[s].lockedThru = 0
               => burst[s] =< Cardinality(Attempts)

(* No source stays locked out: whatever it and others keep trying, its     *)
(* lock runs out, so the operator behind it always gets another try.       *)
LocksRunOut == \A s \in Sources : []<>(sources[s].lockedThru = 0)
=============================================================================
