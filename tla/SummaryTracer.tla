--------------------------- MODULE SummaryTracer ---------------------------
(***************************************************************************)
(* run_tracer under -c: the wait loop of module Tracer with the table of   *)
(* module Summary.  The exit-stop of a call that passes the filter folds   *)
(* it into the table, and print_summary runs when the loop ends.           *)
(***************************************************************************)
EXTENDS Tracer, Sequences

CONSTANTS MaxEntries, Elapsed

VARIABLES
    table, phase, i, j, max_idx, totals, folds,
    ended    \* history: calls of each name whose exit-stop was handled

Sum == INSTANCE Summary WITH MaxFolds <- MaxCalls, CallNames <- Names

summary == <<table, phase, i, j, max_idx, totals, folds>>
allVars == <<vars, summary, ended>>

\* run_tracer is entered with -c given.
CInit ==
    /\ Init /\ SummaryMode
    /\ Sum!SumInit
    /\ ended = [n \in Names |-> 0]

\* Mutant of Account: the name of the last deferred call is accounted.
AccountPending ==
    LET ts == tracees[cur.pid]
    IN  IF ts.suppressed \/ ts.pending_name = NoName THEN UNCHANGED summary
        ELSE \E failed \in BOOLEAN, dt \in Elapsed : Sum!Fold(ts.pending_name, failed, dt)

\* What the exit-stop does under -c.  A filtered call is not accounted.
Account ==
    LET ts == tracees[cur.pid]
    IN  IF ts.suppressed THEN UNCHANGED summary
        ELSE \E failed \in BOOLEAN, dt \in Elapsed : Sum!Fold(ts.current_name, failed, dt)

CExitStop ==
    /\ ExitStop
    /\ Account
    /\ ended' = [ended EXCEPT ![kname[cur.pid]] = @ + 1]

\* Mutant of PrintTable: the table is printed only without -f, where the total is.
PrintUnlessForks ==
    /\ outcome = "exited"
    /\ Sum!PrintSummary
    /\ UNCHANGED <<vars, ended>>

\* print_summary, which an early return of run_tracer skips.
PrintTable ==
    /\ pc = "done" /\ outcome # "ptrace_failed"
    /\ Sum!PrintSummary
    /\ UNCHANGED <<vars, ended>>

Other ==
    \/ InitialWait \/ Setup
    \/ (\E p \in Pids : Wait(p))
    \/ TraceeGone \/ ForkEvent \/ SignalStop
    \/ SyscallStopSkipped \/ EntryStop

CLoop == CExitStop \/ (Other /\ UNCHANGED <<summary, ended>>) \/ PrintTable

CTracee(p) == Tracee(p) /\ UNCHANGED <<summary, ended>>

CFinished == pc = "done" /\ (phase = "printed" \/ outcome = "ptrace_failed") /\ UNCHANGED allVars

CNext == CLoop \/ (\E p \in Pids : CTracee(p)) \/ CFinished

CSpec ==
    /\ CInit /\ [][CNext]_allVars
    /\ WF_allVars(CLoop)
    /\ \A p \in Pids : WF_allVars(Runs(p) /\ CTracee(p))
-----------------------------------------------------------------------------
\* Under -c every call is accounted to the syscall the kernel ran for it, once,
\* if it passed the filter: the name saved at the entry-stop is still the call's
\* own when its exit-stop comes, whatever other tracees did in between.
AccountedToOwnName ==
    \A n \in Names : totals[n].calls = IF n \in Allowed THEN ended[n] ELSE 0

\* The table is printed at the end, unless run_tracer could not start.
TablePrinted == <>(phase = "printed" \/ outcome = "ptrace_failed")
=============================================================================
