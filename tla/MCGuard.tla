------------------------------- MODULE MCGuard -------------------------------
(* Guard and its history on small instances.                                *)
EXTENDS GuardHistory, TLC

CallerSymmetry == Permutations(Callers)
=============================================================================
