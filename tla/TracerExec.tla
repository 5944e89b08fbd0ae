----------------------------- MODULE TracerExec -----------------------------
(***************************************************************************)
(* Tracer with threads that call execve.  run_tracer does not ask for      *)
(* PTRACE_O_TRACEEXEC, so it is not told that the kernel (external, see    *)
(* ptrace(2)) ends the other threads of the caller's thread group and      *)
(* gives the caller the leader's pid.  The caller's own tid is gone        *)
(* without a report; so is the death of the leader it replaces.            *)
(***************************************************************************)
EXTENDS Tracer

CONSTANT Exec      \* the syscall name that replaces the program

ASSUME ExecAssumption == Exec \in Names \ {Clone}

VARIABLES
    tgid,          \* kernel: the leader of a tracee's thread group
    vanished       \* history: tids that a successful execve took away

xvars == <<tgid, vanished>>

XInit == Init /\ tgid = [p \in Pids |-> p] /\ vanished = {}

Group(p) == {q \in Pids : tgid[q] = tgid[p] /\ life[q] # "unborn"}

-----------------------------------------------------------------------------
\* clone with CLONE_THREAD, or any other way to create a process.
KThread(p, c) ==
    /\ KFork(p, c)
    /\ \/ tgid' = [tgid EXCEPT ![c] = tgid[p]]
       \/ tgid' = [tgid EXCEPT ![c] = c]
    /\ UNCHANGED vanished

\* execve succeeds.  Not modelled: that it does so while run_tracer handles an
\* event of the leader, whose PTRACE_GETEVENTMSG would then answer for another
\* thread.
KExec(p) ==
    LET leader == tgid[p]
        ended == {q \in Group(p) \ {p, leader} : Alive(q)}
                     \cup (IF p # leader THEN {leader} ELSE {})
    IN  /\ Runs(p) /\ kin[p] /\ kname[p] = Exec
        /\ Group(p) # {p}
        /\ ~(pc = "handle" /\ cur = [pid |-> leader, status |-> "event"])
        /\ life' = [q \in Pids |->
                      CASE q = leader -> "running"
                        [] q = p /\ p # leader -> "reaped"
                        [] q \in ended \ {leader} -> "zombie"
                        [] OTHER -> life[q]]
        /\ stop' = [q \in Pids |-> IF q \in ended THEN "none" ELSE stop[q]]
        /\ kin' = [kin EXCEPT ![p] = FALSE, ![leader] = TRUE]
        /\ kname' = [kname EXCEPT ![leader] = Exec]
        /\ evchild' = [evchild EXCEPT ![leader] = NoPid]
        /\ attaching' = [attaching EXCEPT ![leader] = FALSE]
        /\ missed' = missed + Cardinality({q \in ended : stop[q] = "syscall" /\ kin[q]})
        /\ vanished' = vanished \cup ({p} \ {leader})
    /\ UNCHANGED <<calls, signals, loop, history, tgid>>

\* The death of a leader is reported after those of its threads.
Reportable(p) ==
    life[p] = "zombie" /\ tgid[p] = p =>
        \A q \in Group(p) \ {p} : life[q] = "reaped"

-----------------------------------------------------------------------------
\* Mutant of NoneLeft: waitpid is called again whatever its error was.
RetryWait == pc' = pc /\ outcome' = outcome

\* errno == ECHILD: no tracees left.
NoneLeft == pc' = "done" /\ outcome' = "no_tracees"

\* waitpid fails with ECHILD.
WaitFails ==
    /\ pc = "wait" /\ \A p \in Pids : life[p] \in {"unborn", "reaped"}
    /\ NoneLeft
    /\ UNCHANGED <<kernel, tracees, cur, active_count, call_count, history, xvars>>

XTracer ==
    \/ /\ \/ InitialWait \/ Setup
          \/ (\E p \in Pids : Wait(p) /\ Reportable(p))
          \/ TraceeGone \/ ForkEvent \/ SignalStop
          \/ SyscallStopSkipped \/ EntryStop \/ ExitStop
       /\ UNCHANGED xvars
    \/ WaitFails

XTracee(p) ==
    \/ /\ \/ \E n \in Names : KEnter(p, n)
          \/ KReturn(p) \/ KAttachStop(p) \/ KDie(p)
          \/ kname[p] = Exec /\ KSignal(p, "exec")
       /\ UNCHANGED xvars
    \/ \E c \in Pids : KThread(p, c)
    \/ KExec(p)

XFinished == Finished /\ UNCHANGED xvars

XNext == XTracer \/ (\E p \in Pids : XTracee(p)) \/ XFinished

\* Fairness as in Tracer.
XSpec == /\ XInit /\ [][XNext]_<<vars, xvars>>
         /\ WF_<<vars, xvars>>(XTracer)
         /\ \A p \in Pids : WF_<<vars, xvars>>(Runs(p) /\ XTracee(p))
-----------------------------------------------------------------------------
\* A threaded execve leaves active_count too high by one, for the tid whose end
\* is not reported, and never too low: the loop does not end early because of
\* it.
ExecOnlyOvercounts ==
    pc \in {"wait", "handle", "done"} /\ outcome # "ptrace_failed"
        /\ (\A p \in Pids : life[p] # "unborn" => p \in announced) =>
            active_count = Cardinality(Unreaped) + Cardinality(vanished)

\* The entry/exit toggle of a thread group is wrong at most after one of its own
\* threads took over the leader's pid: no other process is affected.
ExecDisturbsOnlyItself ==
    \A p \in Pids :
        Alive(p) /\ ~(\E q \in vanished : tgid[q] = tgid[p]) =>
            (tracees[p].in_syscall <=> ExpectedToggle(p))
=============================================================================
