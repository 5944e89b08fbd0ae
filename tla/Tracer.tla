------------------------------- MODULE Tracer -------------------------------
(***************************************************************************)
(* run_tracer of src/mini_strace.c: the wait loop over all tracees,        *)
(* composed with the processes it traces as the kernel's ptrace interface  *)
(* shows them.  The kernel half is external to the repository; it is what  *)
(* the code relies on: syscall-stops, signal-delivery-stops, fork events,  *)
(* group-stops and deaths, each reported by waitpid in any order.          *)
(*                                                                         *)
(* waitpid and the handling of what it returned are two steps, so that a   *)
(* tracee can be killed in between and the ptrace requests on it fail.     *)
(***************************************************************************)
EXTENDS TraceeMap

CONSTANTS
    Root,          \* the process run_tracer is called with
    NoPid,
    Clone,         \* the syscall name that creates a process
    FollowForks,   \* -f
    SummaryMode,   \* -c
    Allowed,       \* the names syscall_allowed accepts
    DeferredKinds, \* the deferred kinds the routing tables give each name
    MaxCalls,      \* bound: syscalls entered by all tracees together
    MaxSignals     \* bound: signals sent to all tracees together

ASSUME TracerAssumption ==
    /\ Root \in Pids
    /\ NoPid \notin Pids
    /\ Clone \in Names
    /\ FollowForks \in BOOLEAN
    /\ SummaryMode \in BOOLEAN
    /\ Allowed \subseteq Names
    /\ DeferredKinds \in [Names -> SUBSET Kinds]
    /\ MaxCalls \in Nat
    /\ MaxSignals \in Nat

\* Signals as the kernel raises them.  "exec" is the SIGTRAP that a traced
\* execve raises, "attach" the SIGSTOP of a new tracee.
Genuine == {"SIGUSR1", "SIGSTOP", "SIGTRAP"}
SignalStops == Genuine \cup {"exec", "attach", "group"}
StopKinds == SignalStops \cup {"syscall", "event"}

VARIABLES
    tracees,       \* the tracee table, as the map it implements
    life,          \* kernel: unborn, running, stopped, zombie, reaped
    stop,          \* kernel: what the tracee is stopped for
    kin,           \* kernel: is the tracee inside a syscall
    kname,         \* kernel: the syscall it is in, or was last in
    attaching,     \* kernel: the SIGSTOP of the attach is still to come
    evchild,       \* kernel: the process the current Clone call created
    pc,            \* where run_tracer is
    cur,           \* wpid and status of the last waitpid
    active_count,
    call_count,
    outcome,       \* how run_tracer ended
    line,          \* trace_out: the last call shown for each tracee
    announced,     \* history: pids whose fork event was handled
    refused,       \* history: pids for which add_tracee returned NULL
    lost,          \* history: signals that were raised and not delivered
    calls,         \* history: syscalls entered so far
    missed,        \* history: of these, ended by a kill before they were counted
    signals        \* history: signals raised so far

kernel == <<life, stop, kin, kname, attaching, evchild, calls, missed, signals>>
loop == <<tracees, pc, cur, active_count, call_count, outcome>>
history == <<line, announced, refused, lost>>
vars == <<kernel, loop, history>>

Line == [name : Names \cup {NoName}, st : {"none", "open", "closed", "whole"}]

Init ==
    /\ life = [p \in Pids |-> IF p = Root THEN "running" ELSE "unborn"]
    /\ stop = [p \in Pids |-> "none"]
    /\ kin = [p \in Pids |-> FALSE]
    /\ kname = [p \in Pids |-> NoName]
    /\ attaching = [p \in Pids |-> p = Root]
    /\ evchild = [p \in Pids |-> NoPid]
    /\ tracees = [p \in Pids |-> Absent]
    /\ pc = "start"
    /\ cur = [pid |-> Root, status |-> "none"]
    /\ active_count = 0 /\ call_count = 0
    /\ outcome = "none"
    /\ line = [p \in Pids |-> [name |-> NoName, st |-> "none"]]
    /\ announced = {} /\ refused = {} /\ lost = {}
    /\ calls = 0 /\ missed = 0 /\ signals = 0

-----------------------------------------------------------------------------
(***************************************************************************)
(* The tracees.                                                            *)
(***************************************************************************)
Runs(p) == pc # "done" /\ life[p] = "running"

StopFor(p, kind) ==
    /\ life' = [life EXCEPT ![p] = "stopped"]
    /\ stop' = [stop EXCEPT ![p] = kind]

\* A syscall-entry-stop: PTRACE_SYSCALL stops the tracee before the call runs.
KEnter(p, n) ==
    /\ Runs(p) /\ ~attaching[p] /\ ~kin[p]
    /\ calls < MaxCalls
    /\ StopFor(p, "syscall")
    /\ kin' = [kin EXCEPT ![p] = TRUE]
    /\ kname' = [kname EXCEPT ![p] = n]
    /\ evchild' = [evchild EXCEPT ![p] = NoPid]
    /\ calls' = calls + 1
    /\ UNCHANGED <<attaching, missed, signals, loop, history>>

\* A syscall-exit-stop.
KReturn(p) ==
    /\ Runs(p) /\ kin[p]
    /\ StopFor(p, "syscall")
    /\ kin' = [kin EXCEPT ![p] = FALSE]
    /\ UNCHANGED <<kname, attaching, evchild, calls, missed, signals, loop, history>>

\* With PTRACE_O_TRACEFORK and its like, the parent stops for an event inside
\* the call and the child starts under the tracer, with a SIGSTOP to take.
\* Nothing orders the child's own stops, or its death, after the event's report.
KFork(p, c) ==
    /\ Runs(p) /\ kin[p] /\ kname[p] = Clone /\ evchild[p] = NoPid
    /\ FollowForks
    /\ life[c] = "unborn"
    /\ life' = [life EXCEPT ![p] = "stopped", ![c] = "running"]
    /\ stop' = [stop EXCEPT ![p] = "event"]
    /\ evchild' = [evchild EXCEPT ![p] = c]
    /\ attaching' = [attaching EXCEPT ![c] = TRUE]
    /\ UNCHANGED <<kin, kname, calls, missed, signals, loop, history>>

\* A signal-delivery-stop, on the way back to user mode.
KSignal(p, s) ==
    /\ Runs(p) /\ ~kin[p]
    /\ signals < MaxSignals
    /\ StopFor(p, s)
    /\ signals' = signals + 1
    /\ UNCHANGED <<kin, kname, attaching, evchild, calls, missed, loop, history>>

\* The SIGSTOP of raise(), of PTRACE_ATTACH or of the automatic attach is
\* taken before any user code runs.
KAttachStop(p) ==
    /\ Runs(p) /\ attaching[p]
    /\ StopFor(p, "attach")
    /\ attaching' = [attaching EXCEPT ![p] = FALSE]
    /\ UNCHANGED <<kin, kname, evchild, calls, missed, signals, loop, history>>

\* exit, or death by a signal; SIGKILL also ends a stopped tracee.
KDie(p) ==
    /\ pc # "done" /\ life[p] \in {"running", "stopped"}
    /\ life' = [life EXCEPT ![p] = "zombie"]
    /\ stop' = [stop EXCEPT ![p] = "none"]
    /\ missed' = IF stop[p] = "syscall" /\ kin[p] THEN missed + 1 ELSE missed
    /\ UNCHANGED <<kin, kname, attaching, evchild, calls, signals, loop, history>>

\* ptrace(PTRACE_SYSCALL, p, NULL, sig), which fails on a tracee that has been
\* killed.  A stopping signal that is injected into a signal-delivery-stop
\* takes the tracee into a group-stop; in a group-stop sig is ignored.
Resume(p, sig) ==
    IF life[p] # "stopped" THEN UNCHANGED <<life, stop, lost>>
    ELSE /\ IF sig = "SIGSTOP" /\ stop[p] # "group"
              THEN stop' = [stop EXCEPT ![p] = "group"] /\ UNCHANGED life
              ELSE /\ life' = [life EXCEPT ![p] = "running"]
                   /\ stop' = [stop EXCEPT ![p] = "none"]
         /\ lost' = IF stop[p] \in Genuine \ {sig} THEN lost \cup {stop[p]} ELSE lost

-----------------------------------------------------------------------------
(***************************************************************************)
(* run_tracer before the loop.                                             *)
(***************************************************************************)
\* waitpid(child, &status, 0), whose status is not looked at.
InitialWait ==
    /\ pc = "start" /\ life[Root] \in {"stopped", "zombie"}
    /\ life' = [life EXCEPT ![Root] = IF @ = "zombie" THEN "reaped" ELSE @]
    /\ cur' = [pid |-> Root,
               status |-> IF life[Root] = "zombie" THEN "dead" ELSE stop[Root]]
    /\ pc' = "setup"
    /\ UNCHANGED <<stop, kin, kname, attaching, evchild, calls, missed, signals,
                   tracees, active_count, call_count, outcome, history>>

\* PTRACE_SETOPTIONS, add_tracee, active_count = 1 and the first PTRACE_SYSCALL;
\* run_tracer returns at once if that fails.
Setup ==
    /\ pc = "setup"
    /\ tracees' = AddTracee(tracees, Root)
    /\ active_count' = 1
    /\ announced' = {Root}
    /\ Resume(Root, "0")
    /\ IF life[Root] = "stopped"
         THEN pc' = "wait" /\ UNCHANGED outcome
         ELSE pc' = "done" /\ outcome' = "ptrace_failed"
    /\ UNCHANGED <<kin, kname, attaching, evchild, calls, missed, signals,
                   cur, call_count, line, refused>>

-----------------------------------------------------------------------------
(***************************************************************************)
(* The loop: waitpid(-1, &status, __WALL), then one of the handlers.  The  *)
(* handlers resume what they handle, so a stop is reported once.  waitpid  *)
(* fails with EINTR, which is retried, or with ECHILD, which ends the      *)
(* loop: that is not a step here, because the count has ended the loop by  *)
(* the last death (WaitsForSomeone).                                       *)
(***************************************************************************)
Wait(p) ==
    /\ pc = "wait" /\ life[p] \in {"stopped", "zombie"}
    /\ life' = [life EXCEPT ![p] = IF @ = "zombie" THEN "reaped" ELSE @]
    /\ cur' = [pid |-> p, status |-> IF life[p] = "zombie" THEN "dead" ELSE stop[p]]
    /\ pc' = "handle"
    /\ UNCHANGED <<stop, kin, kname, attaching, evchild, calls, missed, signals,
                   tracees, active_count, call_count, outcome, history>>

\* Mutant of LoopOver: the loop goes on at zero.
LoopOverLate(n) == n < 0

LoopOver(n) == n <= 0

\* WIFEXITED or WIFSIGNALED.  outcome is the last status line.
TraceeGone ==
    /\ pc = "handle" /\ cur.status = "dead"
    /\ tracees' = RemoveTracee(tracees, cur.pid)
    /\ active_count' = active_count - 1
    /\ IF LoopOver(active_count')
         THEN pc' = "done" /\ outcome' = IF FollowForks THEN "all_exited" ELSE "exited"
         ELSE pc' = "wait" /\ UNCHANGED outcome
    /\ UNCHANGED <<kernel, cur, call_count, history>>

\* Mutant of CountsChild: a child that is tracked already is not counted.
CountsNewChild(t, c) == ~t[c].active /\ Holds(t, c)

\* add_tracee(new_pid) != NULL
CountsChild(t, c) == Holds(t, c)

\* PTRACE_EVENT_FORK, _VFORK or _CLONE.  PTRACE_GETEVENTMSG fails if the parent
\* has been killed.
ForkEvent ==
    /\ pc = "handle" /\ cur.status = "event"
    /\ LET p == cur.pid
           c == evchild[p]
           known == life[p] = "stopped"
           kept == known /\ CountsChild(tracees, c)
       IN  /\ tracees' = IF kept THEN AddTracee(tracees, c) ELSE tracees
           /\ active_count' = IF kept THEN active_count + 1 ELSE active_count
           /\ announced' = IF known THEN announced \cup {c} ELSE announced
           /\ refused' = IF known /\ ~kept THEN refused \cup {c} ELSE refused
           /\ Resume(p, "0")
    /\ pc' = "wait"
    /\ UNCHANGED <<kin, kname, attaching, evchild, calls, missed, signals,
                   cur, call_count, outcome, line>>

\* WSTOPSIG of a stop that is not a syscall-stop.
WStopSig(status) ==
    CASE status = "exec" -> "SIGTRAP"
      [] status \in {"attach", "group"} -> "SIGSTOP"
      [] OTHER -> status

\* Mutant of Deliver: every signal is swallowed.
DeliverNothing(stopsig) == "0"

\* The signal handed back to the tracee, 0 for none.
Deliver(stopsig) == IF stopsig # "SIGTRAP" THEN stopsig ELSE "0"

\* A signal, a tracee's first stop, or the SIGTRAP of an execve.
SignalStop ==
    /\ pc = "handle" /\ cur.status \in SignalStops
    /\ Resume(cur.pid, Deliver(WStopSig(cur.status)))
    /\ tracees' = AddTracee(tracees, cur.pid)
    /\ refused' = IF Holds(tracees, cur.pid) THEN refused ELSE refused \cup {cur.pid}
    /\ pc' = "wait"
    /\ UNCHANGED <<kin, kname, attaching, evchild, calls, missed, signals,
                   cur, active_count, call_count, outcome, line, announced>>

(***************************************************************************)
(* Syscall-stops.  The entry/exit toggle is the tracer's own: ptrace does  *)
(* not say which of the two a syscall-stop is.                             *)
(***************************************************************************)
\* add_tracee returned NULL, or get_regs failed because the tracee was killed:
\* resume without touching the toggle.
SyscallStopSkipped ==
    /\ pc = "handle" /\ cur.status = "syscall"
    /\ ~Holds(tracees, cur.pid) \/ life[cur.pid] # "stopped"
    /\ tracees' = AddTracee(tracees, cur.pid)
    /\ refused' = IF Holds(tracees, cur.pid) THEN refused ELSE refused \cup {cur.pid}
    /\ Resume(cur.pid, "0")
    /\ pc' = "wait"
    /\ UNCHANGED <<kin, kname, attaching, evchild, calls, missed, signals,
                   cur, active_count, call_count, outcome, line, announced>>

\* Mutant of Entered: only a deferred call writes the pending fields.
EnteredKeepingPending(ts, n) ==
    LET hidden == n \notin Allowed
        deferred == IF hidden THEN {} ELSE DeferredKinds[n]
    IN  [active |-> TRUE, in_syscall |-> TRUE, suppressed |-> hidden,
         pending |-> IF deferred # {} THEN deferred ELSE ts.pending,
         pending_name |-> IF deferred # {} THEN n ELSE ts.pending_name,
         current_name |-> n]

\* Mutant of Entered: a filtered call does not move the toggle.
EnteredUnlessHidden(ts, n) ==
    [active |-> TRUE, in_syscall |-> n \in Allowed, suppressed |-> n \notin Allowed,
     pending |-> IF n \in Allowed THEN DeferredKinds[n] ELSE {},
     pending_name |-> n, current_name |-> n]

\* tracee_state after an entry-stop that read the name n: a filtered call and
\* a call without deferred arguments clear every pending field, and leave the
\* pending_name of an earlier call behind.
Entered(ts, n) ==
    LET hidden == n \notin Allowed
        deferred == IF hidden THEN {} ELSE DeferredKinds[n]
    IN  [active |-> TRUE, in_syscall |-> TRUE, suppressed |-> hidden,
         pending |-> deferred,
         pending_name |-> IF deferred # {} THEN n ELSE ts.pending_name,
         current_name |-> n]

\* Mutant of ShownAtEntry: a deferred call is shown at its entry-stop as well.
ShownAtEntryToo(ts) == ~ts.suppressed /\ ~SummaryMode

\* A call that is neither filtered nor deferred is shown at once.
ShownAtEntry(ts) == ~ts.suppressed /\ ts.pending = {} /\ ~SummaryMode

EntryStop ==
    /\ pc = "handle" /\ cur.status = "syscall"
    /\ Holds(tracees, cur.pid) /\ life[cur.pid] = "stopped"
    /\ LET p == cur.pid
           added == AddTracee(tracees, p)
           entered == Entered(added[p], kname[p])
       IN  /\ ~added[p].in_syscall
           /\ tracees' = [added EXCEPT ![p] = entered]
           /\ line' = IF ShownAtEntry(entered)
                        THEN [line EXCEPT ![p] = [name |-> kname[p], st |-> "open"]]
                        ELSE line
           /\ Resume(p, "0")
    /\ call_count' = call_count + 1
    /\ pc' = "wait"
    /\ UNCHANGED <<kin, kname, attaching, evchild, calls, missed, signals,
                   cur, active_count, outcome, announced, refused>>

\* tracee_state after an exit-stop: the pending fields are cleared by the
\* deferred print, which a suppressed call does not reach.
Left(ts) ==
    [ts EXCEPT !.in_syscall = FALSE,
               !.pending = IF ts.suppressed THEN @ ELSE {}]

\* A deferred call is shown whole, under pending_name; otherwise "= ret" ends
\* the call that was opened at the entry-stop.  What -c does instead is in
\* SummaryTracer.
ShownAtExit(ts, l) ==
    IF ts.suppressed \/ SummaryMode THEN l
    ELSE IF ts.pending # {} THEN [name |-> ts.pending_name, st |-> "whole"]
    ELSE [name |-> l.name, st |-> "closed"]

ExitStop ==
    /\ pc = "handle" /\ cur.status = "syscall"
    /\ Holds(tracees, cur.pid) /\ life[cur.pid] = "stopped"
    /\ LET p == cur.pid
           ts == tracees[p]
       IN  /\ ts.active /\ ts.in_syscall
           /\ tracees' = [tracees EXCEPT ![p] = Left(ts)]
           /\ line' = [line EXCEPT ![p] = ShownAtExit(ts, @)]
           /\ Resume(p, "0")
    /\ pc' = "wait"
    /\ UNCHANGED <<kin, kname, attaching, evchild, calls, missed, signals,
                   cur, active_count, call_count, outcome, announced, refused>>
-----------------------------------------------------------------------------
Tracer ==
    \/ InitialWait \/ Setup
    \/ (\E p \in Pids : Wait(p))
    \/ TraceeGone \/ ForkEvent \/ SignalStop
    \/ SyscallStopSkipped \/ EntryStop \/ ExitStop

Tracee(p) ==
    \/ \E n \in Names : KEnter(p, n)
    \/ KReturn(p)
    \/ \E c \in Pids : KFork(p, c)
    \/ \E s \in Genuine \cup {"exec"} : KSignal(p, s)
    \/ KAttachStop(p)
    \/ KDie(p)

\* run_tracer has returned.
Finished == pc = "done" /\ UNCHANGED vars

Next == Tracer \/ (\E p \in Pids : Tracee(p)) \/ Finished

Spec == Init /\ [][Next]_vars

\* run_tracer never stops between two waitpid calls, and the programs it traces
\* are finite: each keeps taking steps until it ends.
FairSpec == Spec /\ WF_vars(Tracer) /\ \A p \in Pids : WF_vars(Runs(p) /\ Tracee(p))
-----------------------------------------------------------------------------
(***************************************************************************)
(* Properties.                                                             *)
(***************************************************************************)
Lives == {"unborn", "running", "stopped", "zombie", "reaped"}

\* Every variable of the loop and of the processes keeps its type; active_count
\* never passes below zero, because the loop ends there.
TypeOK ==
    /\ life \in [Pids -> Lives]
    /\ stop \in [Pids -> StopKinds \cup {"none"}]
    /\ kin \in [Pids -> BOOLEAN]
    /\ kname \in [Pids -> Names \cup {NoName}]
    /\ attaching \in [Pids -> BOOLEAN]
    /\ evchild \in [Pids -> Pids \cup {NoPid}]
    /\ tracees \in [Pids -> TraceeState]
    /\ pc \in {"start", "setup", "wait", "handle", "done"}
    /\ cur \in [pid : Pids, status : StopKinds \cup {"none", "dead"}]
    /\ active_count \in Nat /\ call_count \in Nat
    /\ outcome \in {"none", "ptrace_failed", "exited", "all_exited"}
    /\ line \in [Pids -> Line]
    /\ announced \subseteq Pids /\ refused \subseteq Pids
    /\ lost \subseteq Genuine
    /\ calls \in Nat /\ missed \in Nat /\ signals \in Nat

Alive(p) == life[p] \in {"running", "stopped"}

\* The side of a syscall the tracer should have recorded for p: a syscall-stop
\* that is not handled yet has not flipped the toggle yet.
ExpectedToggle(p) == IF stop[p] = "syscall" THEN ~kin[p] ELSE kin[p]

\* The entry/exit toggle of every tracee agrees with the kernel, whatever
\* signals, fork events, early first stops, filtered calls and deaths of other
\* tracees come in between (the toggle of run_tracer, kept by add_tracee).
ToggleInSync ==
    \A p \in Pids : Alive(p) => (tracees[p].in_syscall <=> ExpectedToggle(p))

\* What the entry-stop of a call n saves, apart from the name of an earlier
\* deferred call in a call that is not deferred.
SavedFor(ts, n) ==
    /\ ts.current_name = n
    /\ ts.suppressed <=> n \notin Allowed
    /\ ~ts.suppressed => ts.pending = DeferredKinds[n]
    /\ ts.suppressed => ts.pending = {}
    /\ ts.pending # {} => ts.pending_name = n

\* While a tracee is inside a call, what was saved at its entry-stop belongs to
\* that call: nothing is left of an earlier call, nor of the memset of a fresh
\* entry, for the exit-stop to print or to account.
SavedStateIsOwn ==
    \A p \in Pids :
        Alive(p) /\ tracees[p].in_syscall => SavedFor(tracees[p], kname[p])

Unreaped ==
    {p \in Pids : life[p] \in {"running", "stopped", "zombie"}}
        \cup (IF pc = "handle" /\ cur.status = "dead" THEN {cur.pid} ELSE {})

\* Once the fork event of every process created so far has been handled,
\* active_count is the number of tracees whose death has not been handled: the
\* order in which a child's first stop and its fork event arrive does not matter.
CountSound ==
    pc \in {"wait", "handle", "done"} /\ outcome # "ptrace_failed"
        /\ (\A p \in Pids : life[p] # "unborn" => p \in announced) =>
            active_count = Cardinality(Unreaped)

\* Every signal the loop sees except SIGTRAP reaches the tracee.
OnlyTrapEaten == [][pc = "handle" => lost' \subseteq lost \cup {"SIGTRAP"}]_vars

\* When run_tracer ends with no tracee left, call_count, which the last status
\* line prints as "total syscalls" when the process exited, is the number of
\* syscalls the tracees entered, less those killed before their entry-stop was
\* handled.
TotalIsExact ==
    outcome \in {"exited", "all_exited"}
        /\ (\A p \in Pids : life[p] \in {"unborn", "reaped"}) =>
            call_count = calls - missed

\* The state of module TraceLog: who is not dead, and the call each process is
\* in, which ends for the reader when its exit-stop has been handled.
InFlight(p) == Alive(p) /\ (kin[p] \/ stop[p] = "syscall")
NotDead == {p \in Pids : life[p] \in {"unborn", "running", "stopped"}}
CallOf == [p \in Pids |-> IF InFlight(p) THEN kname[p] ELSE NoName]

Log == INSTANCE TraceLog WITH
    Shown <- IF SummaryMode THEN {} ELSE Allowed, alive <- NotDead, call <- CallOf

\* The loop implements TraceLog: each returning call that passes the filter is
\* printed once, under its own name, opened and closed or whole; only a death
\* leaves a line open or a call unreported.
TraceKeepsPromise == Log!LogSpec

\* waitpid is called only while there is a tracee to wait for: active_count may
\* reach zero early, but it does so at the last death handled at the latest, so
\* the loop never depends on ECHILD to end.
WaitsForSomeone ==
    pc = "wait" => \E p \in Pids : life[p] \in {"running", "stopped", "zombie"}

\* run_tracer ends once the programs it traces have ended: the count takes it out
\* of the loop.
Terminates == <>(pc = "done")

\* "all tracees exited" is printed only when no tracee is left.
AllExitedIsTrue ==
    outcome = "all_exited" => \A p \in Pids : life[p] \in {"unborn", "reaped"}

\* "table full ... stop tracking new ones": a process that found the table full
\* is not tracked later on, halfway through its calls.
RefusedStaysUntracked == \A p \in refused : ~tracees[p].active

\* "a genuine signal (redeliver it so it isn't silently eaten)": every signal the
\* loop sees reaches the tracee.
SignalsRedelivered == [][pc = "handle" => lost' = lost]_vars
=============================================================================
