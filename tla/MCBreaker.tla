------------------------------ MODULE MCBreaker ------------------------------
(* Breaker and the poller that reads it, under every order of admissions     *)
(* and releases.                                                             *)
EXTENDS Gauges
=============================================================================
