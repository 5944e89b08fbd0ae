------------------------------ MODULE TraceLog ------------------------------
(***************************************************************************)
(* What a trace promises its reader, whatever the tracer does inside.      *)
(* Every call that returns and that the user asked to see is shown once,   *)
(* under its own name: either opened when it starts and closed when it     *)
(* returns, or whole when it returns.  Only a death leaves a line open or  *)
(* a call unreported.                                                      *)
(***************************************************************************)
CONSTANTS Pids, Names, NoName,
          Shown    \* the names the user asked to see

VARIABLES
    alive,   \* processes that are not dead
    call,    \* the call each process is in, NoName outside of calls
    line     \* the last call shown for each process

logVars == <<alive, call, line>>

LogInit ==
    /\ alive = Pids
    /\ call = [p \in Pids |-> NoName]
    /\ line = [p \in Pids |-> [name |-> NoName, st |-> "none"]]

Closed(n) == [name |-> n, st |-> "closed"]
Opened(n) == [name |-> n, st |-> "open"]
Whole(n) == [name |-> n, st |-> "whole"]

\* No call begins while the line of an earlier one is open.
Begin(p, n) ==
    /\ p \in alive /\ call[p] = NoName /\ line[p].st # "open"
    /\ call' = [call EXCEPT ![p] = n]
    /\ UNCHANGED <<alive, line>>

Open(p) ==
    /\ call[p] \in Shown /\ line[p].st # "open"
    /\ line' = [line EXCEPT ![p] = Opened(call[p])]
    /\ UNCHANGED <<alive, call>>

\* "= ret" goes to the line of the call that returns.
Close(p) ==
    /\ call[p] \in Shown /\ line[p] = Opened(call[p])
    /\ line' = [line EXCEPT ![p] = Closed(call[p])]
    /\ call' = [call EXCEPT ![p] = NoName]
    /\ UNCHANGED alive

\* A line of its own: never for a call whose line is open already.
ShowWhole(p) ==
    /\ call[p] \in Shown /\ line[p].st # "open"
    /\ line' = [line EXCEPT ![p] = Whole(call[p])]
    /\ call' = [call EXCEPT ![p] = NoName]
    /\ UNCHANGED alive

ReturnHidden(p) ==
    /\ call[p] \in Names \ Shown
    /\ call' = [call EXCEPT ![p] = NoName]
    /\ UNCHANGED <<alive, line>>

Die(p) ==
    /\ alive' = alive \ {p}
    /\ call' = [call EXCEPT ![p] = NoName]
    /\ UNCHANGED line

LogNext ==
    \E p \in Pids :
        \/ \E n \in Names : Begin(p, n)
        \/ Open(p) \/ Close(p) \/ ShowWhole(p) \/ ReturnHidden(p) \/ Die(p)

LogSpec == LogInit /\ [][LogNext]_logVars
=============================================================================
