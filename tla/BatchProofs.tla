------------------------------ MODULE BatchProofs ------------------------------
(***************************************************************************)
(* CheckAvailability for any batch, any number of slots and any deadline:  *)
(* the answer keeps the shape of the question, and the batch takes one     *)
(* deadline per round of distinct names.                                   *)
(***************************************************************************)
EXTENDS Batch, FiniteSetTheorems, WellFoundedInduction, TLAPS

-----------------------------------------------------------------------------
(* Least elements, and what first and dispatched have to do with them.     *)

LEMMA LeastOf ==
    ASSUME NEW T \in SUBSET Nat, T # {}
    PROVE  \E x \in T : \A y \in T : x <= y
  <1> DEFINE R == OpToRel(<, Nat)
  <1>1. IsWellFoundedOn(R, Nat)
    BY NatLessThanWellFounded
  <1>2. PICK x \in T : \A y \in T : ~(<<y, x>> \in R)
    <2> HIDE DEF R
    <2> QED  BY <1>1, WFMin
  <1>3. ASSUME NEW y \in T
        PROVE  x <= y
    <2>1. ~(<<y, x>> \in R)
      BY <1>2
    <2>2. ~(y < x)
      BY <2>1 DEF OpToRel
    <2> QED  BY <2>2
  <1> QED  BY <1>3

LEMMA MinOfTwoNats ==
    ASSUME NEW a \in Nat, NEW b \in Nat
    PROVE  Min({a, b}) \in Nat /\ Min({a, b}) <= a /\ Min({a, b}) <= b
  <1>1. \E x \in {a, b} : \A y \in {a, b} : x =< y
    OBVIOUS
  <1>2. /\ Min({a, b}) \in {a, b}
        /\ \A y \in {a, b} : Min({a, b}) =< y
    BY <1>1 DEF Min
  <1> QED  BY <1>2

\* The first position with this key.
FirstWith(ds, k) == CHOOSE j \in 1 .. Len(ds) :
    /\ key(ds[j]) = k
    /\ \A n \in 1 .. j - 1 : key(ds[n]) # k

LEMMA FirstIs ==
    ASSUME NEW ds, NEW i
    PROVE  first(ds, i) = FirstWith(ds, key(ds[i]))
  BY DEF first, FirstWith

LEMMA FirstWithFound ==
    ASSUME NEW ds, Len(ds) \in Nat, NEW i \in 1 .. Len(ds)
    PROVE  LET f == FirstWith(ds, key(ds[i]))
           IN  f \in 1 .. Len(ds) /\ key(ds[f]) = key(ds[i])
  <1> DEFINE T == {j \in 1 .. Len(ds) : key(ds[j]) = key(ds[i])}
  <1>1. T \in SUBSET Nat /\ i \in T
    OBVIOUS
  <1>2. PICK x \in T : \A y \in T : x <= y
    BY <1>1, LeastOf
  <1>3. /\ x \in 1 .. Len(ds) /\ key(ds[x]) = key(ds[i])
        /\ \A n \in 1 .. x - 1 : key(ds[n]) # key(ds[i])
    <2>1. ASSUME NEW n \in 1 .. x - 1, key(ds[n]) = key(ds[i])
          PROVE  FALSE
      <3>1. n \in T
        BY <2>1
      <3> QED  BY <1>2, <3>1
    <2> QED  BY <2>1
  <1> QED  BY <1>3 DEF FirstWith

(* The position asked for a name is one that is asked, and its own first.  *)
LEMMA FirstIsDispatched ==
    ASSUME NEW ds, Len(ds) \in Nat, NEW i \in 1 .. Len(ds)
    PROVE  LET f == first(ds, i)
           IN  /\ f \in 1 .. Len(ds) /\ key(ds[f]) = key(ds[i])
               /\ first(ds, f) = f /\ dispatched(ds, f)
  <1> DEFINE f == first(ds, i)
  <1>1. f \in 1 .. Len(ds) /\ key(ds[f]) = key(ds[i])
    BY FirstIs, FirstWithFound
  <1>2. first(ds, f) = f
    BY <1>1, FirstIs
  <1> QED  BY <1>1, <1>2 DEF dispatched

-----------------------------------------------------------------------------
(* The shape of the state, and of the answer.                              *)

Worker == [stage : {"none", "wait", "look", "end"}, since : 0 .. AvailabilityTimeout]

(* A goroutine runs for exactly the positions that are asked, and leaves a *)
(* result behind; the batch is answered when none is left.                 *)
BatchTypeOK ==
    /\ Len(domains) \in Nat
    /\ worker \in [Positions -> Worker]
    /\ out = [i \in Positions |-> out[i]]
    /\ stage \in {"run", "done"}
    /\ elapsed \in Nat
    /\ \A i \in Positions : worker[i].stage = "none" <=> ~dispatched(domains, i)
    /\ \A i \in Positions : worker[i].stage = "end" => BelongsTo(out[i], domains[i])
    /\ stage = "done" => \A i \in Positions : worker[i].stage \notin {"wait", "look"}

LEMMA BatchInitTyped == BatchInit => BatchTypeOK
  <1> SUFFICES ASSUME BatchInit PROVE BatchTypeOK
    OBVIOUS
  <1>1. PICK ds \in Inputs : ds # <<>> /\ domains = cut(ds)
    BY DEF BatchInit
  <1>2. /\ MaxBatch \in Nat
        /\ AvailabilityTimeout \in Nat
    BY BatchAssumption
  <1>3. Len(domains) \in Nat
    <2>1. PICK S : S = ToSet(ds)
      OBVIOUS
    <2>2. ds \in Seq(S)
      BY <2>1, BatchAssumption
    <2>3. Len(ds) \in Nat
      BY <2>2
    <2>4. PICK n \in Nat : n = Min({MaxBatch, Len(ds)}) /\ n <= Len(ds)
      BY <1>2, <2>3, MinOfTwoNats
    <2>5. domains = SubSeq(ds, 1, n)
      BY <1>1, <2>4 DEF cut
    <2>6. Len(SubSeq(ds, 1, n)) = n
      BY <2>2, <2>4
    <2> QED  BY <2>5, <2>6
  <1>4. Waiting \in Worker /\ NoWorker \in Worker
    BY <1>2 DEF Waiting, NoWorker, Worker
  <1>5. worker \in [Positions -> Worker]
    BY <1>4 DEF BatchInit
  <1>6. \A i \in Positions : /\ worker[i].stage = "none" <=> ~dispatched(domains, i)
                             /\ worker[i].stage # "end"
    BY DEF BatchInit, Waiting, NoWorker
  <1> QED  BY <1>3, <1>5, <1>6 DEF BatchInit, BatchTypeOK

LEMMA WorkerRecords ==
    ASSUME AvailabilityTimeout \in Nat
    PROVE  /\ Waiting.stage = "wait"
           /\ Ended \in Worker /\ Ended.stage = "end"
           /\ \A n : Looking(n).stage = "look" /\ Looking(n).since = n
           /\ \A n \in 0 .. AvailabilityTimeout : Looking(n) \in Worker
  <1>1. Waiting.stage = "wait" /\ Ended \in Worker /\ Ended.stage = "end"
    BY DEF Waiting, Ended, Worker
  <1>2. ASSUME NEW n
        PROVE  Looking(n).stage = "look" /\ Looking(n).since = n
    BY DEF Looking
  <1>3. ASSUME NEW n \in 0 .. AvailabilityTimeout
        PROVE  Looking(n) \in Worker
    BY DEF Looking, Worker
  <1> QED  BY <1>1, <1>2, <1>3

LEMMA BatchStepTyped == BatchTypeOK /\ [BatchNext]_batchVars => BatchTypeOK'
  <1> SUFFICES ASSUME BatchTypeOK, [BatchNext]_batchVars PROVE BatchTypeOK'
    OBVIOUS
  <1>t. AvailabilityTimeout \in Nat
    BY BatchAssumption
  <1>w. Waiting.stage = "wait" /\ Ended \in Worker /\ Ended.stage = "end"
    BY <1>t, WorkerRecords
  <1>1. ASSUME NEW i \in Positions, TakeSlot(i)
        PROVE  BatchTypeOK'
    <2>1. Looking(0) \in Worker /\ Looking(0).stage = "look"
      BY <1>t DEF Looking, Worker
    <2>2. Positions' = Positions /\ worker[i].stage = "wait"
      BY <1>1, <1>w DEF TakeSlot, Positions
    <2> QED  BY <1>1, <2>1, <2>2 DEF TakeSlot, BatchTypeOK
  <1>2. ASSUME NEW i \in Positions, GiveUp(i)
        PROVE  BatchTypeOK'
    <2>1. Positions' = Positions /\ worker[i].stage = "wait"
      BY <1>2, <1>w DEF GiveUp, Positions
    <2>2. PICK r : r = Result(domains[i], "cancelled")
      OBVIOUS
    <2>3. BelongsTo(r, domains[i])
      BY <2>2 DEF BelongsTo, Result
    <2>4. out' = [out EXCEPT ![i] = r]
      BY <1>2, <2>2 DEF GiveUp
    <2> HIDE DEF BelongsTo
    <2> QED  BY <1>2, <1>w, <2>1, <2>3, <2>4 DEF GiveUp, BatchTypeOK
  <1>3. ASSUME NEW i \in Positions, CheckOne(i)
        PROVE  BatchTypeOK'
    <2>1. Positions' = Positions /\ worker[i].stage = "look"
      BY <1>3 DEF CheckOne, Positions
    <2>2. PICK a \in Answers : out' = [out EXCEPT ![i] = found(i, a)]
      BY <1>3 DEF CheckOne
    <2>3. PICK r : r = found(i, a)
      OBVIOUS
    <2>4. BelongsTo(r, domains[i])
      BY <2>3 DEF BelongsTo, found, Result
    <2>5. out' = [out EXCEPT ![i] = r]
      BY <2>2, <2>3
    <2> QED  BY <1>3, <1>w, <2>1, <2>4, <2>5 DEF CheckOne, BatchTypeOK
  <1>4. ASSUME Collect
        PROVE  BatchTypeOK'
    <2>1. Positions' = Positions
      BY <1>4 DEF Collect, Positions
    <2>2. \A i \in Positions : worker[i].stage \notin {"wait", "look"}
      BY <1>4 DEF Collect, At
    <2>4. \A i \in Positions : dispatched(domains, i) => filled(i) = out[i]
      BY DEF filled
    <2>5. out' = [i \in Positions |-> filled(i)]
      BY <1>4 DEF Collect
    <2> HIDE DEF Positions
    <2> QED  BY <1>4, <2>1, <2>2, <2>4, <2>5 DEF Collect, BatchTypeOK
  <1>5. CASE Cancel
    BY <1>5 DEF Cancel, Positions, BatchTypeOK
  <1>6. ASSUME BatchTick
        PROVE  BatchTypeOK'
    <2>1. Positions' = Positions
      BY <1>6 DEF BatchTick, Positions
    <2>2. ASSUME NEW i \in Positions
          PROVE  /\ worker'[i] \in Worker
                 /\ worker'[i].stage = worker[i].stage
      <3>1. CASE i \in At("look")
        <4>1. worker[i] \in Worker /\ worker[i].since < AvailabilityTimeout
          BY <1>6, <3>1 DEF BatchTick, BatchTypeOK
        <4>2. worker[i].since + 1 \in 0 .. AvailabilityTimeout
          <5>1. PICK n \in 0 .. AvailabilityTimeout : n = worker[i].since
            BY <4>1 DEF Worker
          <5>2. n < AvailabilityTimeout
            BY <4>1, <5>1
          <5>3. n + 1 \in 0 .. AvailabilityTimeout
            BY <5>2, <1>t
          <5> QED  BY <5>1, <5>3
        <4>3. worker'[i] = Looking(worker[i].since + 1)
          BY <1>6, <3>1 DEF BatchTick
        <4> QED  BY <3>1, <4>2, <4>3, <1>t, WorkerRecords DEF At
      <3>2. CASE i \notin At("look")
        BY <1>6, <3>2 DEF BatchTick, BatchTypeOK
      <3> QED  BY <3>1, <3>2
    <2>3. worker' = [i \in Positions |-> worker'[i]]
      BY <1>6 DEF BatchTick
    <2> HIDE DEF Positions
    <2>4. worker' \in [Positions -> Worker]
      BY <2>2, <2>3
    <2>5. /\ domains' = domains /\ out' = out /\ stage' = stage
          /\ elapsed' = elapsed + 1
      BY <1>6 DEF BatchTick
    <2>6. \A i \in Positions : worker'[i].stage = worker[i].stage
      BY <2>2
    <2>7. (Len(domains) \in Nat /\ elapsed \in Nat)'
      <3>1. Len(domains) \in Nat /\ elapsed \in Nat
        BY DEF BatchTypeOK
      <3> QED  BY <2>5, <3>1
    <2>8. (out = [i \in Positions |-> out[i]]
          /\ stage \in {"run", "done"})'
      BY <2>1, <2>5 DEF BatchTypeOK
    <2>9. \A i \in Positions :
              /\ worker'[i].stage = "none" <=> ~dispatched(domains, i)
              /\ worker'[i].stage = "end" => BelongsTo(out[i], domains[i])
              /\ stage = "done" => worker'[i].stage \notin {"wait", "look"}
      BY <2>6 DEF BatchTypeOK
    <2> QED  BY <2>1, <2>4, <2>5, <2>7, <2>8, <2>9 DEF BatchTypeOK
  <1>7. CASE UNCHANGED batchVars
    BY <1>7 DEF batchVars, Positions, BatchTypeOK
  <1> QED  BY <1>1, <1>2, <1>3, <1>4, <1>5, <1>6, <1>7 DEF BatchNext

LEMMA BatchAlwaysTyped == BatchSpec => []BatchTypeOK
  BY BatchInitTyped, BatchStepTyped, PTL DEF BatchSpec

(* For any batch, slots and order of ends, each result of                  *)
(* CheckAvailability stands at the position of an input it is for, and     *)
(* equal names, however spelled, have the result of the one that was asked.*)
THEOREM AnswerKeepsItsShape == BatchSpec => []Aligned
  <1>1. BatchInit => Aligned
    BY DEF BatchInit, Aligned
  <1>2. BatchTypeOK /\ Aligned /\ [BatchNext]_batchVars => Aligned'
    <2> SUFFICES ASSUME BatchTypeOK, Aligned, [BatchNext]_batchVars
                 PROVE  Aligned'
      OBVIOUS
    <2>1. CASE Collect
      <3>1. /\ Positions' = Positions /\ domains' = domains
            /\ out' = [i \in Positions |-> filled(i)]
        BY <2>1 DEF Collect, Positions
      <3>2. \A i \in Positions : dispatched(domains, i) => BelongsTo(out[i], domains[i])
        BY <2>1 DEF BatchTypeOK, Worker, Collect, At
      <3>3. \A i \in Positions : /\ first(domains, i) \in Positions
                                 /\ dispatched(domains, first(domains, i))
                                 /\ key(domains[first(domains, i)]) = key(domains[i])
        BY FirstIsDispatched DEF BatchTypeOK, Positions
      <3>4. ASSUME NEW i \in Positions
            PROVE  BelongsTo(filled(i), domains[i])
        <4>1. PICK j \in Positions : /\ filled(i) = out[j] /\ BelongsTo(out[j], domains[j])
                                     /\ key(domains[j]) = key(domains[i])
          BY <3>2, <3>3 DEF filled
        <4> QED  BY <4>1 DEF BelongsTo
      <3>5. ASSUME NEW i \in Positions, key(domains[i]) # Blank
            PROVE  filled(i) = out[FirstWith(domains, key(domains[i]))]
        BY <3>5, FirstIs DEF filled, dispatched
      <3>6. \A i \in Positions : out'[i] = filled(i)
        BY <3>1
      <3>7. ASSUME NEW i \in Positions, NEW j \in Positions,
                   key(domains[i]) = key(domains[j]), key(domains[i]) # Blank
            PROVE  out'[i] = out'[j]
        BY <3>5, <3>6, <3>7
      <3> QED  BY <3>1, <3>4, <3>6, <3>7 DEF Aligned
    <2>2. CASE stage' = "run"
      BY <2>2 DEF Aligned
    <2>3. CASE UNCHANGED batchVars
      BY <2>3 DEF batchVars, Aligned, Positions
    <2>4. ASSUME NEW i \in Positions, TakeSlot(i) \/ GiveUp(i) \/ CheckOne(i)
          PROVE  stage' = "run"
      <3>1. worker[i].stage \in {"wait", "look"}
        BY <2>4 DEF TakeSlot, GiveUp, CheckOne, Waiting
      <3>2. stage = "run" /\ stage' = stage
        BY <2>4, <3>1 DEF BatchTypeOK, TakeSlot, GiveUp, CheckOne
      <3> QED  BY <3>2
    <2>5. Cancel \/ BatchTick => stage' = "run"
      BY DEF Cancel, BatchTick
    <2> QED  BY <2>1, <2>2, <2>3, <2>4, <2>5 DEF BatchNext
  <1> QED  BY <1>1, <1>2, BatchAlwaysTyped, PTL DEF BatchSpec

-----------------------------------------------------------------------------
(* How long a batch takes.                                                 *)

\* The positions that are asked: one per distinct name, and every blank.
Jobs == {i \in Positions : dispatched(domains, i)}

\* The jobs that are over, or have been looked up for r or longer.
Old(r) == {i \in Positions :
    \/ worker[i].stage = "end"
    \/ worker[i].stage = "look" /\ worker[i].since >= r}

(* In round q, r into it: the rounds so far were full, so this one was     *)
(* needed; and the slots of this round are as old as the round, unless no  *)
(* job was left to fill them.                                              *)
InRound(q, r) ==
    /\ elapsed = q * AvailabilityTimeout + r
    /\ q * availabilityConcurrency < Cardinality(Jobs)
    /\ \/ Cardinality(Old(r)) >= Cardinality(Jobs)
       \/ Cardinality(Old(r)) >= q * availabilityConcurrency + availabilityConcurrency

PaceOK == elapsed = 0 \/ \E q \in Nat, r \in 1 .. AvailabilityTimeout : InRound(q, r)

LEMMA SlotsAndDeadline ==
    /\ availabilityConcurrency \in Nat /\ availabilityConcurrency >= 1
    /\ AvailabilityTimeout \in Nat /\ AvailabilityTimeout >= 1
  <1>1. /\ availabilityConcurrency \in Nat /\ availabilityConcurrency # 0
        /\ AvailabilityTimeout \in Nat /\ AvailabilityTimeout # 0
    BY BatchAssumption
  <1> QED  BY <1>1

LEMMA FiniteParts ==
    ASSUME BatchTypeOK, NEW S \in SUBSET Positions
    PROVE  IsFiniteSet(S) /\ Cardinality(S) \in Nat
  <1>1. IsFiniteSet(Positions)
    <2>0. Len(domains) \in Nat
      BY DEF BatchTypeOK
    <2>1. 1 \in Int /\ Len(domains) \in Int
      BY <2>0
    <2>2. IsFiniteSet(1 .. Len(domains))
      BY <2>1, FS_Interval
    <2> QED  BY <2>2 DEF Positions
  <1>2. IsFiniteSet(S)
    BY <1>1, FS_Subset
  <1> QED  BY <1>2, FS_CardinalityType

LEMMA SmallerPart ==
    ASSUME BatchTypeOK, NEW S \in SUBSET Positions, NEW T \in SUBSET S
    PROVE  Cardinality(T) <= Cardinality(S)
  <1>1. IsFiniteSet(S)
    BY FiniteParts
  <1> QED  BY <1>1, FS_Subset

\* A job is waiting, being looked up or over; nothing else is.
LEMMA JobsByStage ==
    ASSUME BatchTypeOK
    PROVE  /\ Jobs = At("wait") \cup At("look") \cup At("end")
           /\ At("look") \cap At("end") = {}
  <1>1. \A i \in Positions : worker[i].stage \in {"none", "wait", "look", "end"}
    BY DEF BatchTypeOK, Worker
  <1>2. \A i \in Positions : worker[i].stage = "none" <=> ~dispatched(domains, i)
    BY DEF BatchTypeOK
  <1> QED  BY <1>1, <1>2 DEF Jobs, At

(* A round begins: what is over or looked up now is that much more than    *)
(* what was over before it.                                                *)
LEMMA RoundBegins ==
    ASSUME BatchTypeOK, BatchTypeOK', BatchTick,
           NEW k \in Nat, k <= Cardinality(At("end"))
    PROVE  /\ k < Cardinality(Jobs)
           /\ \/ Cardinality(Old(1)') >= Cardinality(Jobs)
              \/ Cardinality(Old(1)') >= k + availabilityConcurrency
  <1> DEFINE L == At("look")
             E == At("end")
  <1>1. Old(1)' = E \cup L
    <2>1. Positions' = Positions
      BY DEF BatchTick, Positions
    <2>2. ASSUME NEW i \in Positions
          PROVE  (i \in Old(1)) ' <=> i \in E \cup L
      <3>1. CASE i \in L
        <4>1. worker'[i] = Looking(worker[i].since + 1)
          BY <3>1 DEF BatchTick
        <4>2. PICK n \in 0 .. AvailabilityTimeout : n = worker[i].since
          BY DEF BatchTypeOK, Worker
        <4>3. AvailabilityTimeout \in Nat
          BY BatchAssumption
        <4>4. n + 1 >= 1
          BY <4>3
        <4>5. worker'[i].stage = "look" /\ worker'[i].since = n + 1
          BY <4>1, <4>2 DEF Looking
        <4> QED  BY <2>1, <3>1, <4>4, <4>5 DEF Old
      <3>2. CASE i \notin L
        <4>1. worker'[i] = worker[i]
          BY <3>2 DEF BatchTick
        <4> QED  BY <2>1, <3>2, <4>1 DEF Old, At
      <3> QED  BY <3>1, <3>2
    <2>3. (Old(1))' \subseteq Positions /\ E \cup L \subseteq Positions
      BY <2>1 DEF Old, At
    <2> QED  BY <2>2, <2>3
  <1>2. /\ IsFiniteSet(L) /\ Cardinality(L) \in Nat
        /\ IsFiniteSet(E) /\ Cardinality(E) \in Nat
    BY FiniteParts DEF At
  <1>3. Cardinality(E \cup L) = Cardinality(E) + Cardinality(L)
    <2>1. E \cap L = {}
      BY JobsByStage
    <2>2. Cardinality(E \cup L) = Cardinality(E) + Cardinality(L) - Cardinality(E \cap L)
      BY <1>2, FS_Union
    <2>3. Cardinality(E \cap L) = 0
      BY <2>1, FS_EmptySet
    <2>4. PICK e \in Nat, l \in Nat : e = Cardinality(E) /\ l = Cardinality(L)
      BY <1>2
    <2>5. Cardinality(E \cup L) = e + l - 0
      BY <2>2, <2>3, <2>4
    <2>6. e + l - 0 = e + l
      OBVIOUS
    <2> QED  BY <2>4, <2>5, <2>6
  <1>4. Cardinality(L) >= 1
    <2>1. L # {}
      BY DEF BatchTick
    <2>2. Cardinality(L) # 0
      BY <1>2, <2>1, FS_EmptySet
    <2> HIDE DEF L
    <2> QED  BY <1>2, <2>2
  <1>5. /\ Cardinality(Jobs) \in Nat
        /\ Cardinality(E \cup L) <= Cardinality(Jobs)
    <2>1. Jobs \subseteq Positions /\ E \cup L \subseteq Jobs
      BY JobsByStage DEF Jobs
    <2> QED  BY <2>1, FiniteParts, SmallerPart
  <1>6. availabilityConcurrency \in Nat
    BY BatchAssumption
  <1>n. PICK e \in Nat, l \in Nat, j \in Nat, o \in Nat :
            /\ e = Cardinality(E) /\ l = Cardinality(L)
            /\ j = Cardinality(Jobs) /\ o = Cardinality(E \cup L)
            /\ o = e + l /\ l >= 1 /\ o <= j /\ k <= e
    BY <1>2, <1>3, <1>4, <1>5
  <1>7. k < j
    BY <1>n
  <1>8. CASE At("wait") = {}
    <2>1. o = j
      BY <1>8, <1>n, JobsByStage
    <2> QED  BY <1>1, <1>7, <1>n, <2>1
  <1>9. CASE At("wait") # {}
    <2>1. ~(l < availabilityConcurrency)
      BY <1>9, <1>n DEF BatchTick, free
    <2>2. o >= k + availabilityConcurrency
      BY <1>6, <1>n, <2>1
    <2> QED  BY <1>1, <1>7, <1>n, <2>2
  <1> QED  BY <1>8, <1>9

\* No step but the clock's takes a job's age away.
LEMMA OldGrows ==
    ASSUME BatchTypeOK, BatchTypeOK', BatchNext, ~BatchTick,
           NEW r \in 1 .. AvailabilityTimeout
    PROVE  /\ Positions' = Positions /\ elapsed' = elapsed /\ domains' = domains
           /\ Cardinality(Old(r)) <= Cardinality(Old(r)')
  <1>1. ASSUME NEW i \in Positions, TakeSlot(i) \/ GiveUp(i) \/ CheckOne(i)
        PROVE  /\ Positions' = Positions /\ elapsed' = elapsed /\ domains' = domains
               /\ Old(r) \subseteq Old(r)'
    <2>1. Positions' = Positions /\ elapsed' = elapsed /\ domains' = domains
      BY <1>1 DEF TakeSlot, GiveUp, CheckOne, Positions
    <2>2. \A j \in Positions : j # i => worker'[j] = worker[j]
      BY <1>1 DEF TakeSlot, GiveUp, CheckOne, BatchTypeOK
    <2>3. CASE TakeSlot(i)
      <3>1. i \notin Old(r)
        BY <2>3 DEF TakeSlot, Waiting, Old
      <3> QED  BY <2>1, <2>2, <3>1 DEF Old
    <2>4. CASE GiveUp(i) \/ CheckOne(i)
      <3>1. worker'[i].stage = "end"
        <4>1. worker' = [worker EXCEPT ![i] = Ended]
          BY <2>4 DEF GiveUp, CheckOne
        <4>2. worker \in [Positions -> Worker]
          BY DEF BatchTypeOK
        <4> QED  BY <4>1, <4>2 DEF Ended
      <3> QED  BY <2>1, <2>2, <3>1 DEF Old
    <2> QED  BY <1>1, <2>1, <2>3, <2>4
  <1>2. CASE Collect \/ Cancel
    <2>1. /\ Positions' = Positions /\ elapsed' = elapsed /\ domains' = domains
          /\ worker' = worker
      BY <1>2 DEF Collect, Cancel, Positions
    <2>2. Old(r)' = Old(r)
      BY <2>1 DEF Old
    <2>3. Cardinality(Old(r)) \in Nat
      BY FiniteParts DEF Old
    <2> QED  BY <2>1, <2>2, <2>3
  <1>3. ASSUME Positions' = Positions, Old(r) \subseteq Old(r)'
        PROVE  Cardinality(Old(r)) <= Cardinality(Old(r)')
    <2>1. PICK S \in SUBSET Positions : S = Old(r)'
      BY <1>3 DEF Old
    <2> QED  BY <1>3, <2>1, SmallerPart
  <1> QED  BY <1>1, <1>2, <1>3 DEF BatchNext

\* Within a round the clock makes every lookup older with it.
LEMMA RoundGoesOn ==
    ASSUME BatchTypeOK, BatchTick, NEW r \in 1 .. AvailabilityTimeout
    PROVE  (Old(r + 1))' = Old(r)
  <1>1. Positions' = Positions
    BY DEF BatchTick, Positions
  <1>2. AvailabilityTimeout \in Nat
    BY BatchAssumption
  <1>3. ASSUME NEW i \in Positions
        PROVE  (i \in Old(r + 1))' <=> i \in Old(r)
    <2>1. CASE i \in At("look")
      <3>1. worker'[i] = Looking(worker[i].since + 1)
        BY <2>1 DEF BatchTick
      <3>2. PICK n \in 0 .. AvailabilityTimeout : n = worker[i].since
        BY DEF BatchTypeOK, Worker
      <3>3. n + 1 >= r + 1 <=> n >= r
        BY <1>2
      <3>4. worker'[i].stage = "look" /\ worker'[i].since = n + 1
        BY <3>1, <3>2 DEF Looking
      <3> QED  BY <1>1, <2>1, <3>2, <3>3, <3>4 DEF Old, At
    <2>2. CASE i \notin At("look")
      <3>1. worker'[i] = worker[i] /\ worker[i].stage # "look"
        BY <2>2 DEF BatchTick, At
      <3> QED  BY <1>1, <3>1 DEF Old
    <2> QED  BY <2>1, <2>2
  <1>4. (Old(r + 1))' \subseteq Positions /\ Old(r) \subseteq Positions
    BY <1>1 DEF Old
  <1> QED  BY <1>3, <1>4

\* A round ends when its last lookup meets its deadline.
LEMMA RoundEnds ==
    ASSUME BatchTypeOK, BatchTick
    PROVE  Old(AvailabilityTimeout) = At("end")
  <1>1. ASSUME NEW i \in Positions, worker[i].stage = "look"
        PROVE  ~(worker[i].since >= AvailabilityTimeout)
    <2>1. worker[i].since < AvailabilityTimeout
      BY <1>1 DEF BatchTick, At
    <2>2. PICK n \in 0 .. AvailabilityTimeout : n = worker[i].since
      BY DEF BatchTypeOK, Worker
    <2>3. AvailabilityTimeout \in Nat
      BY BatchAssumption
    <2> QED  BY <2>1, <2>2, <2>3
  <1> QED  BY <1>1 DEF Old, At

-----------------------------------------------------------------------------
(* The arithmetic of rounds.                                               *)

LEMMA RoundOfOne ==
    ASSUME NEW T \in Nat, T >= 1
    PROVE  0 * T + 1 = 1 /\ 1 \in 1 .. T
  OBVIOUS

LEMMA NextRound ==
    ASSUME NEW q \in Nat, NEW T \in Nat
    PROVE  /\ q * T \in Nat
           /\ (q + 1) * T = q * T + T
  OBVIOUS

\* As many rounds as it takes to serve n jobs, m at a time.
LEMMA RoundsNeeded ==
    ASSUME NEW q \in Nat, NEW n \in Nat, NEW m \in Nat, m >= 1, q * m < n
    PROVE  (n + m - 1) \div m \in Nat /\ q + 1 <= (n + m - 1) \div m
  OBVIOUS

LEMMA TimeOfRounds ==
    ASSUME NEW q \in Nat, NEW R \in Nat, NEW T \in Nat, q + 1 <= R,
           NEW r \in 1 .. T
    PROVE  q * T + r <= R * T
  <1>1. q * T + r <= (q + 1) * T
    OBVIOUS
  <1>2. (q + 1) * T <= R * T
    OBVIOUS
  <1> QED  BY <1>1, <1>2

-----------------------------------------------------------------------------
(* The jobs are the blanks and one position per distinct name.             *)

Blanks == {i \in Positions : key(domains[i]) = Blank}

Named == {key(domains[i]) : i \in Positions \ Blanks}

LEMMA JobsCounted ==
    ASSUME BatchTypeOK
    PROVE  Cardinality(Jobs) = Cardinality(Blanks) + Cardinality(Named)
  <1> DEFINE F == {i \in Positions \ Blanks : first(domains, i) = i}
             nameOf == [i \in F |-> key(domains[i])]
  <1>0. Len(domains) \in Nat
    BY DEF BatchTypeOK
  <1>1. Jobs = Blanks \cup F /\ Blanks \cap F = {}
    BY DEF Jobs, Blanks, dispatched
  <1>2. /\ IsFiniteSet(Blanks) /\ Cardinality(Blanks) \in Nat
        /\ IsFiniteSet(F) /\ Cardinality(F) \in Nat
    BY FiniteParts DEF Blanks
  <1>3. nameOf \in Injection(F, Named)
    <2>1. nameOf \in [F -> Named]
      BY DEF Named
    <2>2. ASSUME NEW i \in F, NEW j \in F, nameOf[i] = nameOf[j]
          PROVE  i = j
      <3>1. key(domains[i]) = key(domains[j])
        BY <2>2
      <3>2. first(domains, i) = first(domains, j)
        BY <3>1, FirstIs
      <3> QED  BY <3>2
    <2> QED  BY <2>1, <2>2 DEF Injection, IsInjective
  <1>4. nameOf \in Surjection(F, Named)
    <2>1. nameOf \in [F -> Named]
      BY DEF Named
    <2>2. ASSUME NEW k \in Named
          PROVE  \E i \in F : nameOf[i] = k
      <3>1. PICK j \in Positions \ Blanks : k = key(domains[j])
        BY DEF Named
      <3>2. PICK f : f = first(domains, j)
        OBVIOUS
      <3>3. /\ f \in Positions /\ key(domains[f]) = key(domains[j])
            /\ first(domains, f) = f
        BY <1>0, <3>2, FirstIsDispatched DEF Positions
      <3>4. f \in F
        BY <3>1, <3>3 DEF Blanks
      <3>5. nameOf[f] = k
        BY <3>1, <3>3, <3>4
      <3> QED  BY <3>4, <3>5
    <2> QED  BY <2>1, <2>2 DEF Surjection
  <1>5. Cardinality(Named) = Cardinality(F)
    <2>1. nameOf \in Bijection(F, Named)
      BY <1>3, <1>4 DEF Bijection
    <2>2. ExistsBijection(F, Named)
      BY <2>1 DEF ExistsBijection
    <2> QED  BY <1>2, <2>2, FS_Bijection
  <1>6. Cardinality(Blanks \cup F)
            = Cardinality(Blanks) + Cardinality(F) - Cardinality(Blanks \cap F)
    BY <1>2, FS_Union
  <1>7. Cardinality(Blanks \cap F) = 0
    BY <1>1, FS_EmptySet
  <1>8. PICK b \in Nat, f \in Nat : b = Cardinality(Blanks) /\ f = Cardinality(F)
    BY <1>2
  <1>9. Cardinality(Jobs) = b + f - 0
    BY <1>1, <1>6, <1>7, <1>8
  <1>10. b + f - 0 = b + f
    OBVIOUS
  <1> QED  BY <1>5, <1>8, <1>9, <1>10

LEMMA RoundsOfJobs ==
    ASSUME BatchTypeOK
    PROVE  Rounds = (Cardinality(Jobs) + availabilityConcurrency - 1)
                        \div availabilityConcurrency
  BY JobsCounted DEF Rounds, Blanks, Named

LEMMA PaceStep ==
    ASSUME BatchTypeOK, BatchTypeOK', PaceOK, [BatchNext]_batchVars
    PROVE  PaceOK'
  <1>n. PICK m \in Nat, T \in Nat : /\ m = availabilityConcurrency /\ m >= 1
                                    /\ T = AvailabilityTimeout /\ T >= 1
    BY SlotsAndDeadline
  <1>1. CASE UNCHANGED batchVars
    <2>1. UNCHANGED <<domains, worker, elapsed>> /\ Positions' = Positions
      BY <1>1 DEF batchVars, Positions
    <2>2. Jobs' = Jobs
      BY <2>1 DEF Jobs
    <2>3. \A r \in 1 .. AvailabilityTimeout : Old(r)' = Old(r)
      BY <2>1 DEF Old
    <2> QED  BY <2>1, <2>2, <2>3 DEF PaceOK, InRound
  <1>2. CASE BatchNext /\ ~BatchTick
    <2>1. PICK r0 \in 1 .. AvailabilityTimeout : TRUE
      BY <1>n
    <2>2. Jobs' = Jobs /\ elapsed' = elapsed
      BY <1>2, <2>1, OldGrows DEF Jobs
    <2>3. CASE elapsed = 0
      BY <2>2, <2>3 DEF PaceOK
    <2>4. ASSUME NEW q \in Nat, NEW r \in 1 .. AvailabilityTimeout, InRound(q, r)
          PROVE  InRound(q, r)'
      <3>1. Cardinality(Old(r)) <= Cardinality(Old(r)')
        BY <1>2, OldGrows
      <3>2. PICK a \in Nat : a = Cardinality(Old(r))
        BY FiniteParts DEF Old
      <3>3. PICK b \in Nat : b = Cardinality(Old(r)')
        <4>1. Old(r)' \subseteq Positions'
          BY DEF Old
        <4>2. PICK S, P : S = Old(r)' /\ P = Positions'
          OBVIOUS
        <4>3. IsFiniteSet(Positions)
          BY FiniteParts
        <4>4. Positions' = Positions
          BY <1>2, OldGrows
        <4>5. IsFiniteSet(S)
          BY <4>1, <4>2, <4>3, <4>4, FS_Subset
        <4> QED  BY <4>2, <4>5, FS_CardinalityType
      <3>4. PICK j \in Nat : j = Cardinality(Jobs)
        BY FiniteParts DEF Jobs
      <3>5. PICK c \in Nat : c = q * availabilityConcurrency + availabilityConcurrency
        BY <1>n, NextRound
      <3>6. a >= j \/ a >= c
        BY <2>4, <3>2, <3>4, <3>5 DEF InRound
      <3>7. b >= j \/ b >= c
        BY <3>1, <3>2, <3>3, <3>6
      <3> QED  BY <2>2, <2>4, <3>3, <3>4, <3>5, <3>7 DEF InRound
    <2> QED  BY <2>3, <2>4 DEF PaceOK
  <1>3. CASE BatchTick
    <2>1. Jobs' = Jobs /\ elapsed' = elapsed + 1
      BY <1>3 DEF BatchTick, Jobs, Positions
    <2>2. ASSUME NEW q \in Nat, q * m <= Cardinality(At("end")),
                 elapsed = q * T
          PROVE  PaceOK'
      <3>1. PICK k \in Nat : k = q * m
        BY NextRound
      <3>2. /\ k < Cardinality(Jobs)
            /\ \/ Cardinality(Old(1)') >= Cardinality(Jobs)
               \/ Cardinality(Old(1)') >= k + availabilityConcurrency
        BY <1>3, <2>2, <3>1, RoundBegins
      <3>3. InRound(q, 1)'
        BY <1>n, <2>1, <2>2, <3>1, <3>2 DEF InRound
      <3>4. 1 \in 1 .. AvailabilityTimeout
        BY <1>n
      <3> QED  BY <3>3, <3>4 DEF PaceOK
    <2>3. CASE elapsed = 0
      <3>1. 0 * m = 0 /\ 0 * T = 0
        OBVIOUS
      <3>2. Cardinality(At("end")) >= 0
        <4>1. Cardinality(At("end")) \in Nat
          BY FiniteParts DEF At
        <4> QED  BY <4>1
      <3> QED  BY <2>2, <2>3, <3>1, <3>2
    <2>4. ASSUME NEW q \in Nat, NEW r \in 1 .. AvailabilityTimeout, InRound(q, r)
          PROVE  PaceOK'
      <3>1. CASE r = AvailabilityTimeout
        <4>1. Old(r) = At("end")
          BY <1>3, <3>1, RoundEnds
        <4>2. PICK a \in Nat : a = Cardinality(At("end"))
          BY FiniteParts DEF At
        <4>3. PICK j \in Nat : j = Cardinality(Jobs)
          BY FiniteParts DEF Jobs
        <4>4. a < j
          BY <1>3, <4>2, <4>3, RoundBegins
        <4>5. a >= q * m + m
          BY <1>n, <2>4, <4>1, <4>2, <4>3, <4>4 DEF InRound
        <4>6. (q + 1) * m <= Cardinality(At("end"))
          BY <4>2, <4>5, NextRound
        <4>7. elapsed = (q + 1) * T
          BY <1>n, <2>4, <3>1, NextRound DEF InRound
        <4> QED  BY <2>2, <4>6, <4>7
      <3>2. CASE r # AvailabilityTimeout
        <4>1. PICK s \in 1 .. AvailabilityTimeout : s = r + 1
          BY <1>n, <3>2
        <4>2. (Old(s))' = Old(r)
          BY <1>3, <4>1, RoundGoesOn
        <4>3. elapsed' = q * AvailabilityTimeout + s
          BY <1>n, <2>1, <2>4, <4>1, NextRound DEF InRound
        <4>4. InRound(q, s)'
          BY <2>1, <2>4, <4>2, <4>3 DEF InRound
        <4> QED  BY <4>4 DEF PaceOK
      <3> QED  BY <3>1, <3>2
    <2> QED  BY <2>3, <2>4 DEF PaceOK
  <1> QED  BY <1>1, <1>2, <1>3

(* However slow the lookups and whoever cancels, a batch takes no more     *)
(* than one AvailabilityTimeout per availabilityConcurrency distinct names.*)
(* The inductive invariant is the pace: while round q runs, the rounds     *)
(* before it were full.                                                    *)
THEOREM BatchAlwaysBounded == BatchSpec => []BatchBounded
  <1>1. BatchInit => PaceOK
    BY DEF BatchInit, PaceOK
  <1>2. BatchTypeOK /\ BatchTypeOK' /\ PaceOK /\ [BatchNext]_batchVars => PaceOK'
    BY PaceStep
  <1>3. ASSUME BatchTypeOK, PaceOK
        PROVE  BatchBounded
    <2>n. PICK m \in Nat, T \in Nat : /\ m = availabilityConcurrency /\ m >= 1
                                      /\ T = AvailabilityTimeout /\ T >= 1
      BY SlotsAndDeadline
    <2>1. PICK j \in Nat : j = Cardinality(Jobs)
      BY <1>3, FiniteParts DEF Jobs
    <2>2. Rounds = (j + m - 1) \div m
      BY <1>3, <2>n, <2>1, RoundsOfJobs
    <2>3. PICK R \in Nat : R = (j + m - 1) \div m
      BY <2>n
    <2>4. CASE elapsed = 0
      <3>1. R * T \in Nat
        BY NextRound
      <3>2. 0 <= R * T
        BY <3>1
      <3> QED  BY <2>n, <2>2, <2>3, <2>4, <3>2 DEF BatchBounded
    <2>5. ASSUME NEW q \in Nat, NEW r \in 1 .. AvailabilityTimeout, InRound(q, r)
          PROVE  BatchBounded
      <3>1. q * m < j
        BY <2>n, <2>1, <2>5 DEF InRound
      <3>2. q + 1 <= R
        BY <2>n, <2>3, <3>1, RoundsNeeded
      <3>3. q * T + r <= R * T
        BY <2>n, <3>2, TimeOfRounds
      <3>4. elapsed = q * T + r
        BY <2>n, <2>5 DEF InRound
      <3> QED  BY <2>n, <2>2, <2>3, <3>3, <3>4 DEF BatchBounded
    <2> QED  BY <1>3, <2>4, <2>5 DEF PaceOK
  <1> QED  BY <1>1, <1>2, <1>3, BatchAlwaysTyped, PTL DEF BatchSpec
=============================================================================
