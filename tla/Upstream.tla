------------------------------ MODULE Upstream ------------------------------
(* What the modules about upstream servers share: the goroutines that may    *)
(* be inside Guard.Do for one host, or inside one fetch, at the same time.   *)
CONSTANT Callers
=============================================================================
