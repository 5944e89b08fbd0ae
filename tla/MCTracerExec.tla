---------------------------- MODULE MCTracerExec ----------------------------
(* An instance of TracerExec for TLC: calls that are shown at once.          *)
EXTENDS TracerExec, MCTracer
=============================================================================
