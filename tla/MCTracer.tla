------------------------------ MODULE MCTracer ------------------------------
(* Instances of Tracer for TLC: a call that is shown at once, two deferred  *)
(* ones of either representation, one that is filtered out.                 *)
EXTENDS Tracer

MCDeferredKinds ==
    [n \in Names |-> CASE n = "read" -> {"read_entry"}
                       [] n = "wait4" -> {"wait_status", "rusage"}
                       [] OTHER -> {}]
=============================================================================
