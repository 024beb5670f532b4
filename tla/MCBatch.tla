------------------------------- MODULE MCBatch -------------------------------
(* Batches of up to five names over two slots: two spellings of one name,  *)
(* other names and blank input, one name more than the call may ask about. *)
EXTENDS Batch

CONSTANTS MaxNames

Names == {"a", "A", "b", " "}

lowered(n) == CASE n = "A" -> "a" [] n = " " -> "" [] OTHER -> n

registrable(k) == IF k = "b" THEN "registrable b" ELSE k

AllInputs == UNION {[1 .. n -> Names] : n \in 0 .. MaxNames}
=============================================================================
