-------------------------- MODULE MCSummaryTracer --------------------------
(* An instance of SummaryTracer for TLC: a deferred call, one that is not,  *)
(* and one that is filtered out.                                            *)
EXTENDS SummaryTracer

MCDeferredKinds == [n \in Names |-> IF n = "read" THEN {"read_entry"} ELSE {}]
=============================================================================
