--------------------------------- MODULE Batch ---------------------------------
(***************************************************************************)
(* CheckAvailability (internal/resolve/availability.go), the call behind   *)
(* the domain_availability tool: up to MaxBatch names, duplicates asked    *)
(* once, one goroutine per name left and availabilityConcurrency slots,    *)
(* one result per input in the caller's order.                             *)
(*                                                                         *)
(* A result is what was found and the name it is found for, which is the   *)
(* name as typed or, for a report, the registrable domain NormalizeQuery   *)
(* makes of it: that trims and lowers too, so it depends on the key only.  *)
(*                                                                         *)
(* A goroutine waits in a select for a slot or for the caller to give up;  *)
(* when both are ready Go picks either.  Its deadline starts when it has   *)
(* its slot, not when the batch begins.                                    *)
(***************************************************************************)
EXTENDS Integers, Sequences, SequencesExt

CONSTANTS
    Inputs,                     \* what a caller may ask: sequences of names as typed
    key(_),                     \* a name trimmed and lowered; Blank if nothing is left
    Blank,
    NormalizeQuery(_),          \* the registrable domain of a key
    MaxBatch,                   \* names one call may ask about
    availabilityConcurrency,    \* slots: names looked up at one time
    AvailabilityTimeout,        \* the longest one name is looked up
    Answers,                    \* what checkOne may make of a lookup
    Errors                      \* those of them that are errors

ASSUME BatchAssumption ==
    /\ {MaxBatch, availabilityConcurrency, AvailabilityTimeout} \subseteq Nat \ {0}
    /\ {"cancelled", ""} \cap Answers = {} /\ Errors \subseteq Answers
    /\ \A ds \in Inputs : ds \in Seq(ToSet(ds))

VARIABLES
    domains,    \* the names of the call, cut to MaxBatch
    worker,     \* per position: what its goroutine is doing
    out,        \* per position: the result, which says "" until there is one
    cancelled,  \* the caller has given up
    stage,      \* "run" while goroutines are out, then "done"
    elapsed     \* history: how long the batch has taken

batchVars == <<domains, worker, out, cancelled, stage, elapsed>>

-----------------------------------------------------------------------------

Positions == 1 .. Len(domains)

\* first[key]: the position that is asked for every input with this key.
first(ds, i) == CHOOSE j \in 1 .. Len(ds) :
    /\ key(ds[j]) = key(ds[i])
    /\ \A k \in 1 .. j - 1 : key(ds[k]) # key(ds[i])

\* order: the first of every key, and every blank input.
dispatched(ds, i) == key(ds[i]) = Blank \/ first(ds, i) = i

NoWorker == [stage |-> "none", since |-> 0]
Waiting == [stage |-> "wait", since |-> 0]
Looking(n) == [stage |-> "look", since |-> n]
Ended == [stage |-> "end", since |-> 0]

At(s) == {i \in Positions : worker[i].stage = s}

cut(ds) == SubSeq(ds, 1, Min({MaxBatch, Len(ds)}))

Result(name, what) == [domain |-> name, says |-> what]

\* availabilityHandler refuses an empty list; the rest is the dispatch loop.
BatchInit ==
    /\ \E ds \in Inputs : ds # <<>> /\ domains = cut(ds)
    /\ worker = [i \in Positions |-> IF dispatched(domains, i) THEN Waiting ELSE NoWorker]
    /\ out = [i \in Positions |-> Result(IF dispatched(domains, i) THEN "" ELSE domains[i], "")]
    /\ cancelled = FALSE
    /\ stage = "run"
    /\ elapsed = 0

-----------------------------------------------------------------------------

(* Mutant: one slot is never handed out.                                   *)
freeOneShort == Cardinality(At("look")) < availabilityConcurrency - 1

free == Cardinality(At("look")) < availabilityConcurrency

\* sem <- struct{}{}
TakeSlot(i) ==
    /\ worker[i] = Waiting
    /\ free
    /\ worker' = [worker EXCEPT ![i] = Looking(0)]
    /\ UNCHANGED <<domains, out, cancelled, stage, elapsed>>

\* <-ctx.Done()
GiveUp(i) ==
    /\ worker[i] = Waiting
    /\ cancelled
    /\ worker' = [worker EXCEPT ![i] = Ended]
    /\ out' = [out EXCEPT ![i] = Result(domains[i], "cancelled")]
    /\ UNCHANGED <<domains, cancelled, stage, elapsed>>

\* checkOne: what is found for position i; nothing but an error for a blank.
found(i, a) == Result(IF a \in Errors THEN domains[i] ELSE NormalizeQuery(key(domains[i])), a)

(* Mutant: the slot is released on success only.                           *)
CheckOneKeepsSlot(i) ==
    /\ worker[i].stage = "look"
    /\ out[i].says = ""
    /\ \E a \in Answers :
           /\ out' = [out EXCEPT ![i] = found(i, a)]
           /\ worker' = [worker EXCEPT ![i] = IF a = "error" THEN @ ELSE Ended]
    /\ UNCHANGED <<domains, cancelled, stage, elapsed>>

(* Mutant: results are kept in the order in which they arrive.             *)
CheckOneAppends(i) ==
    /\ worker[i].stage = "look"
    /\ \E a \in Answers, j \in Positions :
           /\ out[j].says = "" /\ dispatched(domains, j)
           /\ \A k \in 1 .. j - 1 : out[k].says # "" \/ ~dispatched(domains, k)
           /\ out' = [out EXCEPT ![j] = found(i, a)]
    /\ worker' = [worker EXCEPT ![i] = Ended]
    /\ UNCHANGED <<domains, cancelled, stage, elapsed>>

\* The Resolver's answer, or its error as text; then the slot is released.
CheckOne(i) ==
    /\ worker[i].stage = "look"
    /\ \E a \in Answers :
           /\ key(domains[i]) = Blank => a \in Errors
           /\ out' = [out EXCEPT ![i] = found(i, a)]
    /\ worker' = [worker EXCEPT ![i] = Ended]
    /\ UNCHANGED <<domains, cancelled, stage, elapsed>>

\* Duplicates take the answer of the position that was asked for them.
filled(i) == IF dispatched(domains, i) THEN out[i] ELSE out[first(domains, i)]

\* wg.Wait() returns; the duplicates are filled in; the batch is answered.
Collect ==
    /\ stage = "run"
    /\ At("wait") \cup At("look") = {}
    /\ out' = [i \in Positions |-> filled(i)]
    /\ stage' = "done"
    /\ UNCHANGED <<domains, worker, cancelled, elapsed>>

Cancel ==
    /\ stage = "run" /\ ~cancelled
    /\ cancelled' = TRUE
    /\ UNCHANGED <<domains, worker, out, stage, elapsed>>

\* Scheduling takes no time next to lookups: a goroutine that can go on goes on first.
BatchTick ==
    /\ stage = "run"
    /\ At("look") # {}
    /\ At("wait") # {} => ~free /\ ~cancelled
    /\ \A i \in At("look") : worker[i].since < AvailabilityTimeout
    /\ worker' = [i \in Positions |->
           IF i \in At("look") THEN Looking(worker[i].since + 1) ELSE worker[i]]
    /\ elapsed' = elapsed + 1
    /\ UNCHANGED <<domains, out, cancelled, stage>>

BatchNext ==
    \/ \E i \in Positions : TakeSlot(i) \/ GiveUp(i) \/ CheckOne(i)
    \/ Collect
    \/ Cancel
    \/ BatchTick

\* Goroutines are scheduled and a lookup returns by its deadline; nobody has to cancel.
BatchFairness ==
    /\ \A i \in 1 .. MaxBatch :
           WF_batchVars(i \in Positions /\ (TakeSlot(i) \/ GiveUp(i)))
    /\ \A i \in 1 .. MaxBatch : WF_batchVars(i \in Positions /\ CheckOne(i))
    /\ WF_batchVars(Collect)

BatchSpec == BatchInit /\ [][BatchNext]_batchVars /\ BatchFairness

-----------------------------------------------------------------------------

\* A report names the registrable domain of d, an error a spelling of d.
BelongsTo(r, d) ==
    \/ r.says \in Answers \ Errors /\ r.domain = NormalizeQuery(key(d))
    \/ r.says \in Errors \cup {"cancelled"} /\ key(r.domain) = key(d)

(* "The entry is still returned so a batch keeps its shape and the caller  *)
(* can align results with inputs positionally" (availability.go:50): when  *)
(* the batch is answered the result at every position is one found for the *)
(* input at that position, a blank or a cancelled one too, whatever order  *)
(* they ended in, and equal names, however spelled, have the same result.  *)
Aligned ==
    stage = "done" =>
        \A i \in Positions :
            /\ BelongsTo(out[i], domains[i])
            /\ \A j \in Positions :
                   key(domains[i]) = key(domains[j]) /\ key(domains[i]) # Blank
                       => out[i] = out[j]

\* Rounds of lookups for the distinct names and the blanks of a batch.
Rounds ==
    LET blanks == {i \in Positions : key(domains[i]) = Blank}
        names  == {key(domains[i]) : i \in Positions \ blanks}
        n      == Cardinality(blanks) + Cardinality(names)
    IN  (n + availabilityConcurrency - 1) \div availabilityConcurrency

(* Every deadline starts with its slot, so a batch may take several of     *)
(* them, but only one per round of DISTINCT names: duplicates cost no      *)
(* slot, and no slot is lost or left idle, whoever is cancelled.           *)
BatchBounded == elapsed =< Rounds * AvailabilityTimeout

(* Every batch is answered, cancelled or not, slow upstreams or not.       *)
BatchReturns == <>(stage = "done")
=============================================================================
