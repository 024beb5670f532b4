------------------------------- MODULE MCAuth -------------------------------
(* AuthServer and its revocation history on a small instance.               *)
EXTENDS AuthHistory, TLC

AuthSymmetry == Permutations(Sids) \cup Permutations(Tokens) \cup Permutations(Requests)
=============================================================================
