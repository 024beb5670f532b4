----------------------------- MODULE MCResolver -----------------------------
(* Resolver on a small instance.                                            *)
EXTENDS Resolver

(* A full lookup that forces a fetch, full lookups of two tolerances, with  *)
(* and without contacts, and the availability check, which skips the        *)
(* registrar.                                                               *)
MCOptions ==
    {[maxAge |-> 0, contacts |-> TRUE, skip |-> FALSE],
     [maxAge |-> 1, contacts |-> TRUE, skip |-> FALSE],
     [maxAge |-> MaxTolerance, contacts |-> FALSE, skip |-> FALSE],
     [maxAge |-> 1, contacts |-> FALSE, skip |-> TRUE]}
=============================================================================
