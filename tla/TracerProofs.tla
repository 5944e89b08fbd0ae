---------------------------- MODULE TracerProofs ----------------------------
(***************************************************************************)
(* Proofs about Tracer, for any number of processes, any set of syscalls   *)
(* and routing tables, any filter, and with or without -f and -c.          *)
(***************************************************************************)
EXTENDS Tracer, FiniteSetTheorems, TLAPS

\* The table has an entry for every process there can be: MAX_TRACEES is not
\* exceeded.
RoomForAll == Cardinality(Pids) <= MaxTracees

\* add_tracee never returns NULL when there is room for every process.
LEMMA AlwaysHolds ==
    ASSUME RoomForAll, NEW t, NEW p \in Pids
    PROVE  Holds(t, p)
<1>1. CASE t[p].active
    BY <1>1, Zenon DEF Holds
<1>2. CASE ~t[p].active
    <2>1. Tracked(t) \subseteq Pids \ {p}
        BY <1>2, Zenon DEF Tracked
    <2>2. /\ IsFiniteSet(Pids \ {p})
          /\ Cardinality(Pids \ {p}) = Cardinality(Pids) - 1
        BY FS_RemoveElement, TraceeMapAssumption, Zenon
    <2>3. Cardinality(Tracked(t)) <= Cardinality(Pids \ {p})
        BY <2>1, <2>2, FS_Subset, Zenon
    <2>4. /\ Cardinality(Pids) \in Nat
          /\ Cardinality(Tracked(t)) \in Nat
        BY <2>1, <2>2, FS_Subset, FS_CardinalityType, TraceeMapAssumption, Zenon
    <2> QED
        BY <2>2, <2>3, <2>4, TraceeMapAssumption DEF Holds, RoomForAll
<1> QED
    BY <1>1, <1>2, Zenon

\* The kernel's side is in order: what a process is stopped for, and what is
\* known of processes that do not exist yet.
KernelInv ==
    /\ \A p \in Pids : stop[p] = "none" <=> life[p] # "stopped"
    /\ \A p \in Pids : life[p] = "unborn" =>
           ~kin[p] /\ ~tracees[p].active /\ line[p].st = "none"
    /\ \A p \in Pids : kin[p] \/ stop[p] = "syscall" => kname[p] \in Names
    /\ \A p \in Pids : evchild[p] \in Pids => life[evchild[p]] # "unborn"
    /\ \A p \in Pids : stop[p] = "event" => evchild[p] \in Pids
    /\ life[Root] # "unborn"

\* What every handler relies on, whatever happened since waitpid returned: the
\* process exists; a fork event is still the stop it was reported for, unless the
\* tracee has been killed; a syscall-stop has a syscall; a death is final.
CurInv ==
    /\ pc \in {"setup", "handle"} => life[cur.pid] # "unborn"
    /\ pc = "handle" /\ cur.status = "event" =>
           /\ life[cur.pid] \in {"stopped", "zombie", "reaped"}
           /\ life[cur.pid] = "stopped" => stop[cur.pid] = "event"
    /\ pc = "handle" /\ cur.status = "syscall" => kname[cur.pid] \in Names
    /\ pc = "handle" /\ cur.status = "dead" => life[cur.pid] = "reaped"
    /\ pc = "setup" => cur.pid = Root /\ life[Root] # "running"
    /\ pc \in {"start", "setup"} => stop[Root] # "syscall" /\ ~kin[Root]
    /\ pc = "start" /\ life[Root] = "running" => attaching[Root]

\* The loop goes on only while active_count is positive.
LoopInv == pc \in {"wait", "handle"} => active_count >= 1

TableInv == \A p \in Pids : ~tracees[p].active => ~tracees[p].in_syscall

\* What holds of the loop and of the kernel whether or not the toggles are right.
OrderInv == TypeOK /\ KernelInv /\ CurInv /\ LoopInv /\ TableInv

\* What waitpid returned is still true when it is handled, unless the tracee
\* has been killed since.
Fresh(p) ==
    pc = "handle" /\ cur.pid = p =>
        /\ life[p] \in {"stopped", "zombie", "reaped"}
        /\ life[p] = "stopped" => cur.status = stop[p]

InSync(p) == Alive(p) => (tracees[p].in_syscall <=> ExpectedToggle(p))

OwnState(p) == Alive(p) /\ tracees[p].in_syscall => SavedFor(tracees[p], kname[p])

\* What has to hold of one tracee for its calls to be traced: it depends on no
\* other tracee.
PidInv(p) == Fresh(p) /\ InSync(p) /\ OwnState(p)

\* The inductive invariant behind ToggleInSync and SavedStateIsOwn.
IInv == OrderInv /\ \A p \in Pids : PidInv(p)

USE TraceeMapAssumption, TracerAssumption

\* The inductive invariant holds when run_tracer is entered: no tracee is tracked
\* and the first process has not stopped yet.
LEMMA InitEstablishesIInv == Init => IInv
<1> SUFFICES ASSUME Init PROVE IInv
    BY Zenon
<1>1. TypeOK
    BY Zenon DEF Init, TypeOK, Lives, Line, TraceeState, Absent, Zeroed, Kinds
<1>2. KernelInv /\ CurInv /\ LoopInv /\ TableInv
    BY Zenon DEF Init, KernelInv, CurInv, LoopInv, TableInv, Absent, Zeroed
<1>3. \A p \in Pids : PidInv(p)
    BY Zenon DEF Init, PidInv, Fresh, InSync, OwnState, Alive, ExpectedToggle, Absent, Zeroed
<1> QED
    BY <1>1, <1>2, <1>3, Zenon DEF IInv, OrderInv

\* The effect of PTRACE_SYSCALL on a tracee.
OnlyResumed(p) ==
    /\ life' \in [Pids -> Lives]
    /\ stop' \in [Pids -> StopKinds \cup {"none"}]
    /\ lost' \subseteq Genuine
    /\ \A q \in Pids : q # p => life'[q] = life[q] /\ stop'[q] = stop[q]
    /\ life[p] # "stopped" => life'[p] = life[p] /\ stop'[p] = stop[p]
    /\ life[p] = "stopped" =>
          \/ life'[p] = "running" /\ stop'[p] = "none"
          \/ life'[p] = "stopped" /\ stop'[p] = "group"

\* PTRACE_SYSCALL on a stopped tracee ends its stop, or turns it into a
\* group-stop; it does nothing else, and nothing to other processes.
LEMMA ResumeFacts ==
    ASSUME TypeOK, NEW p \in Pids, NEW sig, Resume(p, sig)
    PROVE  OnlyResumed(p)
BY DEF TypeOK, Resume, Lives, StopKinds, SignalStops, OnlyResumed

\* A handler of the loop leaves the processes' own state alone; what it does change
\* is typed when each part of it is.
LEMMA TypeKept ==
    ASSUME TypeOK,
           UNCHANGED <<kin, kname, attaching, evchild, calls, missed, signals, cur>>,
           life' \in [Pids -> Lives], stop' \in [Pids -> StopKinds \cup {"none"}],
           lost' \subseteq Genuine, tracees' \in [Pids -> TraceeState],
           pc' \in {"start", "setup", "wait", "handle", "done"},
           outcome' \in {"none", "ptrace_failed", "exited", "all_exited"},
           active_count' \in Nat, call_count' \in Nat, line' \in [Pids -> Line],
           announced' \subseteq Pids, refused' \subseteq Pids
    PROVE  TypeOK'
<1>1. /\ kin' \in [Pids -> BOOLEAN] /\ attaching' \in [Pids -> BOOLEAN]
      /\ kname' \in [Pids -> Names \cup {NoName}]
      /\ evchild' \in [Pids -> Pids \cup {NoPid}]
    BY Zenon DEF TypeOK
<1>2. /\ cur' \in [pid : Pids, status : StopKinds \cup {"none", "dead"}]
      /\ calls' \in Nat /\ missed' \in Nat /\ signals' \in Nat
    BY Zenon DEF TypeOK
<1> QED
    BY <1>1, <1>2, Zenon DEF TypeOK

\* PTRACE_SYSCALL on a process that exists keeps the kernel's side in order.
LEMMA KernelInvKept ==
    ASSUME TypeOK, KernelInv, NEW p \in Pids, OnlyResumed(p), UNCHANGED <<kin, kname, evchild>>,
           \A q \in Pids : life[q] = "unborn" =>
               ~tracees'[q].active /\ line'[q].st = "none"
    PROVE  KernelInv'
<1>1. ASSUME NEW q \in Pids
      PROVE  /\ life'[q] = "unborn" <=> life[q] = "unborn"
             /\ stop'[q] = "none" <=> life'[q] # "stopped"
             /\ stop'[q] \in {"syscall", "event"} => stop'[q] = stop[q]
    BY Zenon DEF KernelInv, OnlyResumed
<1>2. life'[Root] # "unborn"
    BY <1>1, Zenon DEF KernelInv
<1>3. \A q \in Pids : evchild'[q] \in Pids => life'[evchild'[q]] # "unborn"
    BY <1>1, Zenon DEF KernelInv
<1>4. ASSUME NEW q \in Pids
      PROVE  /\ life'[q] = "unborn" => ~kin'[q] /\ ~tracees'[q].active /\ line'[q].st = "none"
             /\ kin'[q] \/ stop'[q] = "syscall" => kname'[q] \in Names
             /\ stop'[q] = "event" => evchild'[q] \in Pids
    BY <1>1, Zenon DEF KernelInv
<1> QED
    BY <1>1, <1>2, <1>3, <1>4, Zenon DEF KernelInv

\* The effect of add_tracee(p) on the table, where p may be tracked already.
OnlyAdded(p) ==
    /\ tracees' \in [Pids -> TraceeState]
    /\ \A q \in Pids : q # p => tracees'[q] = tracees[q]
    /\ tracees[p].active => tracees'[p] = tracees[p]
    /\ ~tracees[p].active => tracees'[p] = Zeroed(TRUE)

\* add_tracee leaves the entries of other pids alone, keeps an existing entry
\* and otherwise makes a zeroed one.
LEMMA AddFacts ==
    ASSUME RoomForAll, TypeOK, NEW p \in Pids, tracees' = AddTracee(tracees, p)
    PROVE  OnlyAdded(p)
<1>1. Holds(tracees, p)
    BY AlwaysHolds, Zenon
<1>2. Zeroed(TRUE) \in TraceeState
    BY Zenon DEF Zeroed, TraceeState, Kinds
<1> QED
    BY <1>1, <1>2, Zenon DEF TypeOK, AddTracee, OnlyAdded

\* add_tracee makes no tracee appear to be inside a call, and changes nothing of
\* one that is.
LEMMA AddedQuietly ==
    ASSUME TableInv, NEW p \in Pids, OnlyAdded(p), NEW q \in Pids
    PROVE  /\ q # p => tracees'[q] = tracees[q]
           /\ tracees'[q].in_syscall <=> tracees[q].in_syscall
           /\ tracees'[q].in_syscall => tracees'[q] = tracees[q]
<1>1. CASE tracees'[q] = tracees[q]
    BY <1>1, Zenon
<1>2. CASE q = p /\ ~tracees[p].active
    <2>1. ~tracees[p].in_syscall
        BY <1>2, Zenon DEF TableInv
    <2>2. ~tracees'[p].in_syscall
        BY <1>2 DEF OnlyAdded, Zeroed
    <2> QED
        BY <1>2, <2>1, <2>2, Zenon
<1> QED
    BY <1>1, <1>2, Zenon DEF OnlyAdded

\* An entry add_tracee makes is outside of any call.
LEMMA AddedKeepsTable ==
    ASSUME TableInv, NEW p \in Pids, OnlyAdded(p)
    PROVE  TableInv'
<1> SUFFICES ASSUME NEW q \in Pids, ~tracees'[q].active
             PROVE  ~tracees'[q].in_syscall
    BY Zenon DEF TableInv
<1>1. Zeroed(TRUE).active
    BY Zenon DEF Zeroed
<1>2. tracees'[q] = tracees[q]
    BY <1>1, Zenon DEF OnlyAdded
<1> QED
    BY <1>2, Zenon DEF TableInv

\* A fork event resumes its parent and adds at most a zeroed entry for a process
\* that exists.
LEMMA ForkEventFacts ==
    ASSUME RoomForAll, OrderInv, ForkEvent
    PROVE  /\ cur.pid \in Pids
           /\ life[cur.pid] \in {"stopped", "zombie", "reaped"}
           /\ life[cur.pid] = "stopped" =>
                 /\ stop[cur.pid] = "event"
                 /\ evchild[cur.pid] \in Pids
                 /\ life[evchild[cur.pid]] # "unborn"
           /\ OnlyResumed(cur.pid)
           /\ tracees' \in [Pids -> TraceeState]
           /\ \A q \in Pids : \/ tracees'[q] = tracees[q]
                              \/ /\ ~tracees[q].active
                                 /\ tracees'[q] = Zeroed(TRUE)
                                 /\ life[q] # "unborn"
<1> DEFINE p == cur.pid
           c == evchild[p]
<1> USE DEF OrderInv
<1>1. /\ p \in Pids
      /\ life[p] \in {"stopped", "zombie", "reaped"}
      /\ life[p] = "stopped" => stop[p] = "event"
    BY Zenon DEF ForkEvent, TypeOK, CurInv
<1>2. life[p] = "stopped" => c \in Pids /\ life[c] # "unborn"
    BY <1>1, Zenon DEF KernelInv
<1>3. OnlyResumed(p)
    BY <1>1, ResumeFacts, Zenon DEF ForkEvent
<1>4. \/ life[p] = "stopped" /\ OnlyAdded(c)
      \/ UNCHANGED tracees
    BY <1>2, AddFacts, Zenon DEF ForkEvent
<1>5. /\ tracees' \in [Pids -> TraceeState]
      /\ \A q \in Pids : \/ tracees'[q] = tracees[q]
                         \/ /\ ~tracees[q].active
                            /\ tracees'[q] = Zeroed(TRUE)
                            /\ life[q] # "unborn"
    BY <1>2, <1>4, Zenon DEF TypeOK, OnlyAdded
<1> QED
    BY <1>1, <1>2, <1>3, <1>5, Zenon

\* A stop that is not handled any further resumes its tracee and registers it.
LEMMA AdoptionFacts ==
    ASSUME RoomForAll, OrderInv, SignalStop \/ SyscallStopSkipped
    PROVE  /\ cur.pid \in Pids /\ OnlyResumed(cur.pid) /\ OnlyAdded(cur.pid)
           /\ life[cur.pid] # "unborn"
           /\ pc = "handle" /\ pc' = "wait"
           /\ UNCHANGED <<kin, kname, attaching, evchild, calls, missed, signals,
                          cur, active_count, call_count, outcome, line, announced>>
           /\ refused' \subseteq Pids
<1> USE DEF OrderInv
<1>1. /\ cur.pid \in Pids /\ life[cur.pid] # "unborn"
      /\ refused \subseteq Pids
    BY Zenon DEF SignalStop, SyscallStopSkipped, TypeOK, CurInv
<1>2. OnlyResumed(cur.pid) /\ OnlyAdded(cur.pid)
    BY <1>1, ResumeFacts, AddFacts, Zenon DEF SignalStop, SyscallStopSkipped
<1>3. /\ pc = "handle" /\ pc' = "wait"
      /\ UNCHANGED <<kin, kname, attaching, evchild, calls, missed, signals,
                     cur, active_count, call_count, outcome, line, announced>>
      /\ refused' = refused \/ refused' = refused \cup {cur.pid}
    BY Zenon DEF SignalStop, SyscallStopSkipped
<1>4. refused' \subseteq Pids
    BY ONLY <1>1, <1>3
<1> QED
    BY <1>1, <1>2, <1>3, <1>4, Zenon

\* The handler of an entry-stop saves the state of the call that begins.
LEMMA EntryEffect ==
    ASSUME RoomForAll, OrderInv, EntryStop
    PROVE  LET p == cur.pid
               E == tracees'[p]
           IN  /\ p \in Pids /\ life[p] = "stopped" /\ cur.status = "syscall"
               /\ kname[p] \in Names /\ ~tracees[p].in_syscall
               /\ OnlyResumed(p)
               /\ tracees' \in [Pids -> TraceeState]
               /\ \A q \in Pids : q # p => tracees'[q] = tracees[q]
               /\ E.active /\ E.in_syscall
               /\ SavedFor(E, kname[p])
               /\ line' = IF ShownAtEntry(E)
                            THEN [line EXCEPT ![p] = [name |-> kname[p], st |-> "open"]]
                            ELSE line
<1> DEFINE p == cur.pid
           ts == AddTracee(tracees, p)[p]
           E == Entered(ts, kname[p])
<1> USE DEF OrderInv
<1>1. /\ p \in Pids
      /\ life[p] = "stopped" /\ cur.status = "syscall"
      /\ kname[p] \in Names
    BY Zenon DEF EntryStop, TypeOK, CurInv
<1>2. /\ AddTracee(tracees, p) \in [Pids -> TraceeState]
      /\ \A q \in Pids : q # p => AddTracee(tracees, p)[q] = tracees[q]
      /\ ts = IF tracees[p].active THEN tracees[p] ELSE Zeroed(TRUE)
    <2>1. Zeroed(TRUE) \in TraceeState
        BY Zenon DEF Zeroed, TraceeState, Kinds
    <2> QED
        BY <1>1, <2>1, AlwaysHolds, Zenon DEF AddTracee, TypeOK
<1>3. ~tracees[p].in_syscall
    BY <1>2, Zenon DEF EntryStop, TableInv, TypeOK
<1>4. /\ E \in TraceeState
      /\ E.active /\ E.in_syscall
      /\ SavedFor(E, kname[p])
    <2>1. ts \in TraceeState
        BY <1>1, <1>2, Zenon
    <2>2. DeferredKinds[kname[p]] \in SUBSET Kinds
        BY <1>1, Zenon
    <2> QED
        BY <1>1, <2>1, <2>2, Zenon DEF Entered, SavedFor, TraceeState
<1>5. /\ tracees' = [AddTracee(tracees, p) EXCEPT ![p] = E]
      /\ line' = IF ShownAtEntry(E)
                   THEN [line EXCEPT ![p] = [name |-> kname[p], st |-> "open"]]
                   ELSE line
    BY Zenon DEF EntryStop
<1>6. OnlyResumed(p)
    BY <1>1, ResumeFacts, Zenon DEF EntryStop
<1> HIDE DEF E
<1>7. /\ tracees' \in [Pids -> TraceeState]
      /\ tracees'[p] = E
      /\ \A q \in Pids : q # p => tracees'[q] = tracees[q]
    BY <1>1, <1>2, <1>4, <1>5, Zenon
<1> QED
    BY <1>1, <1>3, <1>4, <1>5, <1>6, <1>7, Zenon

\* The handler of an exit-stop changes no entry but its tracee's.
LEMMA ExitEffect ==
    ASSUME OrderInv, ExitStop
    PROVE  LET p == cur.pid
           IN  /\ p \in Pids /\ life[p] = "stopped" /\ cur.status = "syscall"
               /\ kname[p] \in Names /\ tracees[p].in_syscall
               /\ OnlyResumed(p)
               /\ tracees' \in [Pids -> TraceeState]
               /\ \A q \in Pids : q # p => tracees'[q] = tracees[q]
               /\ tracees'[p].active /\ ~tracees'[p].in_syscall
               /\ line' = [line EXCEPT ![p] = ShownAtExit(tracees[p], line[p])]
<1> DEFINE p == cur.pid
<1> USE DEF OrderInv
<1>1. /\ p \in Pids
      /\ life[p] = "stopped" /\ cur.status = "syscall" /\ kname[p] \in Names
      /\ tracees[p].active /\ tracees[p].in_syscall
    BY Zenon DEF ExitStop, TypeOK, CurInv
<1>2. tracees[p] \in TraceeState
    BY <1>1, Zenon DEF TypeOK
<1>3. /\ Left(tracees[p]) \in TraceeState
      /\ Left(tracees[p]).active /\ ~Left(tracees[p]).in_syscall
    BY <1>1, <1>2, Zenon DEF Left, TraceeState
<1>4. /\ tracees' = [tracees EXCEPT ![p] = Left(tracees[p])]
      /\ line' = [line EXCEPT ![p] = ShownAtExit(tracees[p], line[p])]
    BY Zenon DEF ExitStop
<1>5. OnlyResumed(p)
    BY <1>1, ResumeFacts, Zenon DEF ExitStop
<1> QED
    BY <1>1, <1>3, <1>4, <1>5, Zenon DEF TypeOK

\* An entry-stop is handled only when the kernel is at an entry-stop.
LEMMA EntryInSync ==
    ASSUME RoomForAll, OrderInv, PidInv(cur.pid), EntryStop
    PROVE  stop[cur.pid] = "syscall" /\ kin[cur.pid]
BY EntryEffect, Zenon DEF PidInv, Fresh, InSync, Alive, ExpectedToggle, EntryStop

\* An exit-stop is handled only when the kernel is at an exit-stop.
LEMMA ExitInSync ==
    ASSUME OrderInv, PidInv(cur.pid), ExitStop
    PROVE  stop[cur.pid] = "syscall" /\ ~kin[cur.pid]
BY ExitEffect, Zenon DEF PidInv, Fresh, InSync, Alive, ExpectedToggle, ExitStop

\* A death ends the loop when it takes active_count to zero.
LEMMA LoopInvStep ==
    ASSUME TypeOK, LoopInv, [Next]_vars
    PROVE  LoopInv'
<1>1. CASE \E p \in Pids : Tracee(p)
    BY <1>1, ZenonT(40) DEF Tracee, KEnter, KReturn, KFork, KSignal, KAttachStop, KDie, loop, LoopInv
<1>2. CASE InitialWait \/ Setup
    BY <1>2 DEF InitialWait, Setup, LoopInv
<1>3. CASE TraceeGone
    <2>1. active_count \in Nat /\ active_count' = active_count - 1
        BY <1>3, Zenon DEF TraceeGone, TypeOK
    <2>2. pc' \in {"wait", "handle"} => ~(active_count' <= 0)
        BY <1>3, Zenon DEF TraceeGone, LoopOver
    <2> QED
        BY <2>1, <2>2 DEF LoopInv
<1>4. CASE (\E p \in Pids : Wait(p)) \/ SignalStop \/ SyscallStopSkipped
    BY <1>4, Zenon DEF Wait, SignalStop, SyscallStopSkipped, LoopInv
<1>5. CASE ForkEvent \/ EntryStop \/ ExitStop
    <2>1. active_count \in Nat
        BY Zenon DEF TypeOK
    <2>2. pc = "handle" /\ active_count' \in {active_count, active_count + 1}
        BY <1>5, Zenon DEF ForkEvent, EntryStop, ExitStop
    <2> QED
        BY <2>1, <2>2 DEF LoopInv
<1>6. CASE UNCHANGED vars
    BY <1>6, Zenon DEF vars, loop, LoopInv
<1> QED
    BY <1>1, <1>2, <1>3, <1>4, <1>5, <1>6, Zenon DEF Next, Tracer, Finished

\* Every step of a process keeps the types.
LEMMA TraceeKeepsType ==
    ASSUME TypeOK, NEW p \in Pids, Tracee(p)
    PROVE  TypeOK'
<1> USE DEF StopFor, Runs, loop, history, TypeOK, Lives, StopKinds, SignalStops
<1>1. ASSUME NEW n \in Names, KEnter(p, n) PROVE TypeOK'
    BY <1>1 DEF KEnter
<1>2. CASE KReturn(p)
    BY <1>2, Zenon DEF KReturn
<1>3. ASSUME NEW c \in Pids, KFork(p, c) PROVE TypeOK'
    BY <1>3, Zenon DEF KFork
<1>4. ASSUME NEW s \in Genuine \cup {"exec"}, KSignal(p, s) PROVE TypeOK'
    BY <1>4 DEF KSignal
<1>5. CASE KAttachStop(p)
    BY <1>5, Zenon DEF KAttachStop
<1>6. CASE KDie(p)
    BY <1>6 DEF KDie
<1> HIDE DEF StopFor, Runs, loop, history, TypeOK, Lives, StopKinds, SignalStops
<1> QED
    BY <1>1, <1>2, <1>3, <1>4, <1>5, <1>6, Zenon DEF Tracee

\* Every step of the loop and of the processes keeps the types.
LEMMA TypeStep ==
    ASSUME RoomForAll, OrderInv, [Next]_vars
    PROVE  TypeOK'
<1> USE DEF OrderInv
<1>0. /\ active_count \in Nat /\ call_count \in Nat /\ line \in [Pids -> Line]
      /\ outcome \in {"none", "ptrace_failed", "exited", "all_exited"}
      /\ announced \subseteq Pids /\ refused \subseteq Pids
      /\ life \in [Pids -> Lives] /\ stop \in [Pids -> StopKinds \cup {"none"}]
      /\ lost \subseteq Genuine /\ tracees \in [Pids -> TraceeState]
      /\ pc \in {"start", "setup", "wait", "handle", "done"}
    BY Zenon DEF TypeOK
<1>1. CASE \E p \in Pids : Tracee(p)
    BY <1>1, TraceeKeepsType, Zenon
<1>2. CASE InitialWait \/ \E p \in Pids : Wait(p)
    <2>1. CASE InitialWait
        BY <2>1, Zenon DEF InitialWait, history, TypeOK, Lives
    <2>2. ASSUME NEW p \in Pids, Wait(p) PROVE TypeOK'
        BY <2>2, Zenon DEF Wait, history, TypeOK, Lives
    <2> QED
        BY <1>2, <2>1, <2>2, Zenon
<1>3. CASE Setup
    <2>1. OnlyResumed(Root) /\ OnlyAdded(Root)
        BY <1>3, ResumeFacts, AddFacts, Zenon DEF Setup
    <2>2. /\ life' \in [Pids -> Lives] /\ stop' \in [Pids -> StopKinds \cup {"none"}]
          /\ lost' \subseteq Genuine /\ tracees' \in [Pids -> TraceeState]
        BY ONLY <2>1, Zenon DEF OnlyResumed, OnlyAdded
    <2>3. /\ pc' \in {"wait", "done"} /\ active_count' = 1 /\ announced' = {Root}
          /\ outcome' = outcome \/ outcome' = "ptrace_failed"
          /\ UNCHANGED <<kin, kname, attaching, evchild, calls, missed, signals,
                         cur, call_count, line, refused>>
        BY ONLY <1>3, Zenon DEF Setup
    <2> QED
        BY <1>0, <2>2, <2>3, TypeKept, Zenon
<1>4. CASE TraceeGone
    <2>1. Absent \in TraceeState
        BY Zenon DEF Absent, Zeroed, TraceeState, Kinds
    <2>2. /\ active_count' = active_count - 1 /\ active_count >= 1
          /\ tracees' = [tracees EXCEPT ![cur.pid] = Absent]
          /\ pc' \in {"wait", "done"}
          /\ outcome' = outcome \/ outcome' \in {"exited", "all_exited"}
          /\ UNCHANGED <<kernel, cur, call_count, history>>
        BY <1>4, Zenon DEF TraceeGone, RemoveTracee, LoopInv
    <2>3. active_count' \in Nat
        BY <1>0, <2>2
    <2>4. tracees' \in [Pids -> TraceeState]
        BY <1>0, <2>1, <2>2, Zenon
    <2> QED
        BY <1>0, <2>2, <2>3, <2>4, TypeKept, Zenon DEF kernel, history
<1>5. CASE ForkEvent
    <2> DEFINE known == life[cur.pid] = "stopped"
    <2>1. /\ known => evchild[cur.pid] \in Pids
          /\ OnlyResumed(cur.pid) /\ tracees' \in [Pids -> TraceeState]
        BY <1>5, ForkEventFacts, Zenon
    <2>2. /\ announced' = announced \/ (known /\ announced' = announced \cup {evchild[cur.pid]})
          /\ refused' = refused \/ (known /\ refused' = refused \cup {evchild[cur.pid]})
          /\ active_count' = active_count \/ active_count' = active_count + 1
          /\ pc' = "wait"
          /\ UNCHANGED <<kin, kname, attaching, evchild, calls, missed, signals,
                         cur, call_count, outcome, line>>
        BY ONLY <1>5, Zenon DEF ForkEvent, CountsChild
    <2>3. /\ announced' \subseteq Pids /\ refused' \subseteq Pids /\ active_count' \in Nat
        BY ONLY <1>0, <2>1, <2>2
    <2>4. /\ life' \in [Pids -> Lives] /\ stop' \in [Pids -> StopKinds \cup {"none"}]
          /\ lost' \subseteq Genuine
        BY ONLY <2>1, Zenon DEF OnlyResumed
    <2> QED
        BY <1>0, <2>1, <2>2, <2>3, <2>4, TypeKept, Zenon
<1>6. CASE SignalStop \/ SyscallStopSkipped
    <2>1. /\ OnlyResumed(cur.pid) /\ OnlyAdded(cur.pid) /\ pc' = "wait"
          /\ UNCHANGED <<kin, kname, attaching, evchild, calls, missed, signals,
                         cur, active_count, call_count, outcome, line, announced>>
          /\ refused' \subseteq Pids
        BY <1>6, AdoptionFacts, Zenon
    <2>2. /\ life' \in [Pids -> Lives] /\ stop' \in [Pids -> StopKinds \cup {"none"}]
          /\ lost' \subseteq Genuine /\ tracees' \in [Pids -> TraceeState]
        BY ONLY <2>1, Zenon DEF OnlyResumed, OnlyAdded
    <2> QED
        BY <1>0, <2>1, <2>2, TypeKept, Zenon
<1>7. CASE EntryStop \/ ExitStop
    <2> DEFINE p == cur.pid
    <2>1. /\ p \in Pids /\ OnlyResumed(p) /\ tracees' \in [Pids -> TraceeState]
          /\ kname[p] \in Names
          /\ \/ line' = line
             \/ line' = [line EXCEPT ![p] = [name |-> kname[p], st |-> "open"]]
             \/ line' = [line EXCEPT ![p] = ShownAtExit(tracees[p], line[p])]
        BY <1>7, EntryEffect, ExitEffect, Zenon
    <2>2. /\ pc' = "wait" /\ call_count' \in {call_count, call_count + 1}
          /\ UNCHANGED <<kin, kname, attaching, evchild, calls, missed, signals, cur,
                         active_count, outcome, announced, refused>>
        BY ONLY <1>7, Zenon DEF EntryStop, ExitStop
    <2>3. line' \in [Pids -> Line]
        <3>1. [name |-> kname[p], st |-> "open"] \in Line
            BY <2>1, Zenon DEF Line
        <3>2. ShownAtExit(tracees[p], line[p]) \in Line
            BY <1>0, <2>1, Zenon DEF ShownAtExit, TraceeState, Line
        <3> QED
            BY ONLY <1>0, <2>1, <3>1, <3>2, Zenon
    <2>4. call_count' \in Nat
        BY ONLY <1>0, <2>2
    <2>5. /\ life' \in [Pids -> Lives] /\ stop' \in [Pids -> StopKinds \cup {"none"}]
          /\ lost' \subseteq Genuine
        BY ONLY <2>1, Zenon DEF OnlyResumed
    <2> QED
        BY <1>0, <2>1, <2>2, <2>3, <2>4, <2>5, TypeKept, Zenon
<1>8. CASE UNCHANGED vars
    BY <1>0, <1>8, TypeKept, Zenon DEF vars, kernel, loop, history
<1> QED
    BY <1>1, <1>2, <1>3, <1>4, <1>5, <1>6, <1>7, <1>8, Zenon DEF Next, Tracer, Finished

\* Every step keeps the kernel's side in order.
LEMMA KernelStep ==
    ASSUME RoomForAll, OrderInv, [Next]_vars
    PROVE  KernelInv'
<1> USE DEF OrderInv
<1>1. ASSUME NEW p \in Pids, NEW n \in Names, KEnter(p, n) PROVE KernelInv'
    BY <1>1, ZenonT(40) DEF KEnter, StopFor, Runs, loop, history, TypeOK, KernelInv, Lives
<1>2. ASSUME NEW p \in Pids, KReturn(p) PROVE KernelInv'
    BY <1>2, ZenonT(40) DEF KReturn, StopFor, Runs, loop, history, TypeOK, KernelInv, Lives
<1>3. ASSUME NEW p \in Pids, NEW c \in Pids, KFork(p, c) PROVE KernelInv'
    BY <1>3 DEF KFork, Runs, loop, history, TypeOK, KernelInv, Lives
<1>4. ASSUME NEW p \in Pids, NEW s \in Genuine \cup {"exec"}, KSignal(p, s)
      PROVE  KernelInv'
    <2>1. s # "none" /\ s # "syscall" /\ s # "event"
        BY Zenon DEF Genuine
    <2> QED
        BY <1>4, <2>1, ZenonT(40)
        DEF KSignal, StopFor, Runs, loop, history, TypeOK, KernelInv, Lives
<1>5. ASSUME NEW p \in Pids, KAttachStop(p) PROVE KernelInv'
    BY <1>5, ZenonT(40) DEF KAttachStop, StopFor, Runs, loop, history, TypeOK, KernelInv, Lives
<1>6. ASSUME NEW p \in Pids, KDie(p) PROVE KernelInv'
    BY <1>6, ZenonT(40) DEF KDie, loop, history, TypeOK, KernelInv, Lives
<1>7. CASE InitialWait
    BY <1>7, ZenonT(40) DEF InitialWait, history, TypeOK, KernelInv, Lives
<1>8. ASSUME NEW p \in Pids, Wait(p) PROVE KernelInv'
    BY <1>8, ZenonT(40) DEF Wait, history, TypeOK, KernelInv, Lives
<1>9. CASE Setup \/ SignalStop \/ SyscallStopSkipped
    <2>1. PICK p \in Pids : /\ OnlyResumed(p) /\ OnlyAdded(p) /\ life[p] # "unborn"
                            /\ UNCHANGED <<kin, kname, evchild, line>>
        <3>1. CASE Setup
            BY <3>1, ResumeFacts, AddFacts, Zenon DEF Setup, KernelInv
        <3>2. CASE SignalStop \/ SyscallStopSkipped
            BY <3>2, AdoptionFacts, Zenon
        <3> QED
            BY <1>9, <3>1, <3>2, Zenon
    <2>2. \A q \in Pids : life[q] = "unborn" => ~tracees'[q].active /\ line'[q].st = "none"
        BY <2>1, Zenon DEF OnlyAdded, KernelInv
    <2> QED
        BY <2>1, <2>2, KernelInvKept, Zenon
<1>10. CASE TraceeGone
    <2>1. ~Absent.active
        BY Zenon DEF Absent, Zeroed
    <2> QED
        BY <1>10, <2>1, ZenonT(40)
        DEF TraceeGone, RemoveTracee, kernel, history, TypeOK, KernelInv
<1>11. CASE ForkEvent
    <2>1. \A q \in Pids : life[q] = "unborn" => ~tracees'[q].active /\ line'[q].st = "none"
        BY <1>11, ForkEventFacts, Zenon DEF ForkEvent, KernelInv
    <2> QED
        BY <1>11, <2>1, ForkEventFacts, KernelInvKept, Zenon DEF ForkEvent
<1>12. CASE EntryStop \/ ExitStop
    <2> DEFINE p == cur.pid
    <2>1. /\ p \in Pids /\ OnlyResumed(p) /\ life[p] = "stopped"
          /\ \A q \in Pids : q # p => tracees'[q] = tracees[q]
          /\ \/ line' = line
             \/ line' = [line EXCEPT ![p] = [name |-> kname[p], st |-> "open"]]
             \/ line' = [line EXCEPT ![p] = ShownAtExit(tracees[p], line[p])]
        BY <1>12, EntryEffect, ExitEffect, Zenon
    <2>2. UNCHANGED <<kin, kname, evchild>>
        BY ONLY <1>12, Zenon DEF EntryStop, ExitStop
    <2>3. \A q \in Pids : q # p => line'[q] = line[q]
        BY <2>1, Zenon DEF TypeOK
    <2>4. \A q \in Pids : life[q] = "unborn" => ~tracees'[q].active /\ line'[q].st = "none"
        BY <2>1, <2>3 DEF KernelInv
    <2> QED
        BY <2>1, <2>2, <2>4, KernelInvKept, Zenon
<1>13. CASE UNCHANGED vars
    BY <1>13, Zenon DEF vars, kernel, loop, history, KernelInv
<1> QED
    BY <1>1, <1>2, <1>3, <1>4, <1>5, <1>6, <1>7, <1>8, <1>9, <1>10, <1>11, <1>12, <1>13,
       ZenonT(40)
    DEF Next, Tracer, Tracee, Finished

\* An entry that is not in use is never inside a call.
LEMMA TableStep ==
    ASSUME RoomForAll, OrderInv, [Next]_vars
    PROVE  TableInv'
<1> USE DEF OrderInv
<1>1. CASE UNCHANGED tracees
    BY <1>1, Zenon DEF TableInv
<1>2. CASE Setup \/ SignalStop \/ SyscallStopSkipped
    <2>1. \E p \in Pids : OnlyAdded(p)
        BY <1>2, AddFacts, AdoptionFacts, Zenon DEF Setup
    <2> QED
        BY <2>1, AddedKeepsTable, Zenon
<1>3. CASE TraceeGone
    <2>1. ~Absent.in_syscall
        BY Zenon DEF Absent, Zeroed
    <2> QED
        BY <1>3, <2>1, Zenon DEF TraceeGone, RemoveTracee, TypeOK, TableInv
<1>4. CASE ForkEvent
    <2>1. Zeroed(TRUE).active
        BY Zenon DEF Zeroed
    <2> QED
        BY <1>4, <2>1, ForkEventFacts, Zenon DEF TableInv
<1>5. CASE EntryStop \/ ExitStop
    BY <1>5, EntryEffect, ExitEffect, Zenon DEF TableInv
<1>6. CASE InitialWait \/ (\E p \in Pids : Wait(p) \/ Tracee(p))
    BY <1>1, <1>6, ZenonT(40)
    DEF InitialWait, Wait, Tracee, KEnter, KReturn, KFork, KSignal, KAttachStop, KDie, loop
<1> QED
    BY <1>1, <1>2, <1>3, <1>4, <1>5, <1>6, Zenon DEF Next, Tracer, Finished, vars, loop

\* Every step keeps what the handlers rely on.
LEMMA CurStep ==
    ASSUME OrderInv, [Next]_vars
    PROVE  CurInv'
<1> USE DEF OrderInv
<1>0. cur.pid \in Pids
    BY Zenon DEF TypeOK
<1>1. ASSUME NEW p \in Pids, NEW n \in Names, KEnter(p, n) PROVE CurInv'
    BY <1>0, <1>1, Zenon DEF KEnter, StopFor, Runs, loop, TypeOK, CurInv
<1>2. ASSUME NEW p \in Pids, KReturn(p) PROVE CurInv'
    BY <1>0, <1>2, Zenon DEF KReturn, StopFor, Runs, loop, TypeOK, CurInv
<1>3. ASSUME NEW p \in Pids, NEW c \in Pids, KFork(p, c) PROVE CurInv'
    BY <1>0, <1>3, Zenon DEF KFork, Runs, loop, TypeOK, CurInv, KernelInv
<1>4. ASSUME NEW p \in Pids, NEW s \in Genuine \cup {"exec"}, KSignal(p, s)
      PROVE  CurInv'
    <2>1. s # "syscall"
        BY Zenon DEF Genuine
    <2> QED
        BY <1>0, <1>4, <2>1, Zenon DEF KSignal, StopFor, Runs, loop, TypeOK, CurInv
<1>5. ASSUME NEW p \in Pids, KAttachStop(p) PROVE CurInv'
    BY <1>0, <1>5, Zenon DEF KAttachStop, StopFor, Runs, loop, TypeOK, CurInv
<1>6. ASSUME NEW p \in Pids, KDie(p) PROVE CurInv'
    BY <1>0, <1>6, ZenonT(40) DEF KDie, loop, TypeOK, CurInv
<1>7. CASE InitialWait
    BY <1>7, ZenonT(40) DEF InitialWait, TypeOK, CurInv, KernelInv
<1>8. ASSUME NEW p \in Pids, Wait(p) PROVE CurInv'
    <2>1. /\ life[p] = "stopped" => stop[p] # "dead"
          /\ stop[p] = "syscall" => kname[p] \in Names
        BY <1>8, Zenon DEF TypeOK, KernelInv, StopKinds, SignalStops, Genuine
    <2> QED
        BY <1>8, <2>1, ZenonT(40) DEF Wait, TypeOK, CurInv
<1>9. CASE Setup \/ TraceeGone \/ ForkEvent \/ SignalStop \/ SyscallStopSkipped
           \/ EntryStop \/ ExitStop
    <2>1. pc' \in {"wait", "done"}
        BY ONLY <1>9, Zenon
        DEF Setup, TraceeGone, ForkEvent, SignalStop, SyscallStopSkipped, EntryStop, ExitStop
    <2> QED
        BY <2>1, Zenon DEF CurInv
<1>10. CASE UNCHANGED vars
    BY <1>10, Zenon DEF vars, kernel, loop, CurInv
<1> QED
    BY <1>1, <1>2, <1>3, <1>4, <1>5, <1>6, <1>7, <1>8, <1>9, <1>10, ZenonT(40)
    DEF Next, Tracer, Tracee, Finished

\* Every step of every process and of the loop keeps the order.
LEMMA OrderStep ==
    ASSUME RoomForAll, OrderInv, [Next]_vars
    PROVE  OrderInv'
BY TypeStep, KernelStep, CurStep, LoopInvStep, TableStep, Zenon DEF OrderInv

-----------------------------------------------------------------------------
\* What happens to a tracee's own variables decides its PidInv.
LEMMA PidInvKept ==
    ASSUME NEW p \in Pids, PidInv(p),
           life'[p] = life[p], stop'[p] = stop[p], kin'[p] = kin[p], kname'[p] = kname[p],
           tracees'[p].in_syscall <=> tracees[p].in_syscall,
           tracees'[p].in_syscall => tracees'[p] = tracees[p],
           pc' = "handle" => UNCHANGED <<pc, cur>> \/ cur'.pid # p
    PROVE  PidInv(p)'
<1>1. Fresh(p)'
    BY Zenon DEF PidInv, Fresh
<1>2. InSync(p)' /\ OwnState(p)'
    BY Zenon DEF PidInv, InSync, OwnState, Alive, ExpectedToggle
<1> QED
    BY <1>1, <1>2, Zenon DEF PidInv

\* A step of a process keeps the PidInv of every tracee.
LEMMA PidTraceeStep ==
    ASSUME OrderInv, NEW p \in Pids, PidInv(p), NEW q \in Pids, Tracee(q)
    PROVE  PidInv(p)'
<1> USE DEF OrderInv
<1>0. UNCHANGED <<tracees, pc, cur>>
    BY ZenonT(40) DEF Tracee, KEnter, KReturn, KFork, KSignal, KAttachStop, KDie, loop
<1>1. ASSUME NEW n \in Names, KEnter(q, n) PROVE PidInv(p)'
    <2>1. CASE p = q
        BY <1>0, <1>1, <2>1, Zenon DEF KEnter, StopFor, Runs, TypeOK, KernelInv, PidInv, Fresh,
           InSync, OwnState, Alive, ExpectedToggle
    <2>2. CASE p # q
        BY <1>0, <1>1, <2>2, PidInvKept, Zenon DEF KEnter, StopFor, TypeOK
    <2> QED
        BY <2>1, <2>2, Zenon
<1>2. CASE KReturn(q)
    <2>1. CASE p = q
        BY <1>0, <1>2, <2>1, Zenon DEF KReturn, StopFor, Runs, TypeOK, KernelInv, PidInv, Fresh,
           InSync, OwnState, Alive, ExpectedToggle
    <2>2. CASE p # q
        BY <1>0, <1>2, <2>2, PidInvKept, Zenon DEF KReturn, StopFor, TypeOK
    <2> QED
        BY <2>1, <2>2, Zenon
<1>3. ASSUME NEW c \in Pids, KFork(q, c) PROVE PidInv(p)'
    <2>1. q # c
        BY <1>3, Zenon DEF KFork, Runs
    <2>2. CASE p = q
        BY <1>0, <1>3, <2>1, <2>2, Zenon DEF KFork, Runs, TypeOK, KernelInv, PidInv, Fresh,
           InSync, OwnState, Alive, ExpectedToggle
    <2>3. CASE p = c
        <3>1. /\ life'[c] = "running" /\ stop'[c] = "none" /\ ~kin'[c]
              /\ ~tracees'[c].in_syscall /\ life[c] = "unborn"
            BY <1>0, <1>3, <2>1, Zenon DEF KFork, TypeOK, KernelInv, TableInv
        <3>2. ~(pc' = "handle" /\ cur'.pid = c)
            BY <1>0, <3>1, Zenon DEF CurInv
        <3> QED
            BY <2>3, <3>1, <3>2, Zenon DEF PidInv, Fresh, InSync, OwnState, ExpectedToggle
    <2>4. CASE p # q /\ p # c
        BY <1>0, <1>3, <2>4, PidInvKept, Zenon DEF KFork, TypeOK
    <2> QED
        BY <2>2, <2>3, <2>4, Zenon
<1>4. ASSUME NEW s \in Genuine \cup {"exec"}, KSignal(q, s) PROVE PidInv(p)'
    <2>0. s # "syscall"
        BY Zenon DEF Genuine
    <2>1. CASE p = q
        BY <1>0, <1>4, <2>0, <2>1, Zenon DEF KSignal, StopFor, Runs, TypeOK, KernelInv, PidInv,
           Fresh, InSync, OwnState, Alive, ExpectedToggle
    <2>2. CASE p # q
        BY <1>0, <1>4, <2>2, PidInvKept, Zenon DEF KSignal, StopFor, TypeOK
    <2> QED
        BY <2>1, <2>2, Zenon
<1>5. CASE KAttachStop(q)
    <2>1. CASE p = q
        BY <1>0, <1>5, <2>1, Zenon DEF KAttachStop, StopFor, Runs, TypeOK, KernelInv, PidInv,
           Fresh, InSync, OwnState, Alive, ExpectedToggle
    <2>2. CASE p # q
        BY <1>0, <1>5, <2>2, PidInvKept, Zenon DEF KAttachStop, StopFor, TypeOK
    <2> QED
        BY <2>1, <2>2, Zenon
<1>6. CASE KDie(q)
    <2>1. CASE p = q
        BY <1>0, <1>6, <2>1, Zenon DEF KDie, TypeOK, PidInv, Fresh, InSync, OwnState, Alive
    <2>2. CASE p # q
        BY <1>0, <1>6, <2>2, PidInvKept, Zenon DEF KDie, TypeOK
    <2> QED
        BY <2>1, <2>2, Zenon
<1> QED
    BY <1>1, <1>2, <1>3, <1>4, <1>5, <1>6, Zenon DEF Tracee

\* PTRACE_SYSCALL on q keeps the PidInv of p if the handler left p's toggle where
\* the kernel is, and p's saved state with its call.
LEMMA ResumedKeepsPid ==
    ASSUME NEW p \in Pids, PidInv(p), NEW q \in Pids, OnlyResumed(q),
           UNCHANGED <<kin, kname>>, pc' # "handle",
           p # q => (tracees'[p].in_syscall <=> tracees[p].in_syscall),
           p = q => life[p] # "running" /\ (Alive(p) => (tracees'[p].in_syscall <=> kin[p])),
           tracees'[p].in_syscall => tracees'[p] = tracees[p] \/ SavedFor(tracees'[p], kname[p])
    PROVE  PidInv(p)'
<1>1. Fresh(p)'
    BY Zenon DEF Fresh
<1>2. InSync(p)'
    <2>1. CASE p = q
        <3>1. Alive(p)' => Alive(p) /\ stop'[p] # "syscall"
            BY <2>1, Zenon DEF OnlyResumed, Alive
        <3> QED
            BY <2>1, <3>1, Zenon DEF InSync, ExpectedToggle
    <2>2. CASE p # q
        <3>1. (Alive(p)' <=> Alive(p)) /\ stop'[p] = stop[p]
            BY <2>2, Zenon DEF OnlyResumed, Alive
        <3> QED
            BY <2>2, <3>1, Zenon DEF PidInv, InSync, ExpectedToggle
    <2> QED
        BY <2>1, <2>2, Zenon
<1>3. OwnState(p)'
    <2>1. Alive(p)' => Alive(p)
        BY Zenon DEF OnlyResumed, Alive
    <2> QED
        BY <2>1, Zenon DEF PidInv, OwnState
<1> QED
    BY <1>1, <1>2, <1>3, Zenon DEF PidInv

\* A step of the loop keeps the PidInv of every tracee: the toggle of a tracee
\* moves with its own syscall-stops only.
LEMMA PidTracerStep ==
    ASSUME RoomForAll, OrderInv, NEW p \in Pids, PidInv(p), Tracer
    PROVE  PidInv(p)'
<1> USE DEF OrderInv
<1>0. cur.pid \in Pids
    BY Zenon DEF TypeOK
<1>1. CASE InitialWait
    BY <1>1, Zenon DEF InitialWait, TypeOK, PidInv, Fresh, InSync, OwnState, Alive, ExpectedToggle
<1>2. ASSUME NEW q \in Pids, Wait(q) PROVE PidInv(p)'
    <2>1. CASE p = q
        BY <1>2, <2>1, ZenonT(40)
        DEF Wait, TypeOK, PidInv, Fresh, InSync, OwnState, Alive, ExpectedToggle
    <2>2. CASE p # q
        BY <1>2, <2>2, PidInvKept, Zenon DEF Wait, TypeOK
    <2> QED
        BY <2>1, <2>2, Zenon
<1>3. CASE Setup
    <2>1. /\ OnlyResumed(Root) /\ OnlyAdded(Root)
          /\ pc = "setup" /\ pc' # "handle" /\ UNCHANGED <<kin, kname>>
        BY <1>3, ResumeFacts, AddFacts, Zenon DEF Setup
    <2>2. /\ tracees'[p].in_syscall <=> tracees[p].in_syscall
          /\ tracees'[p].in_syscall => tracees'[p] = tracees[p]
        BY <2>1, AddedQuietly, Zenon
    <2>3. life[Root] # "running" /\ ~kin[Root] /\ stop[Root] # "syscall"
        BY <2>1, Zenon DEF CurInv
    <2>4. p = Root => (Alive(p) => (tracees'[p].in_syscall <=> kin[p]))
        BY <2>2, <2>3, Zenon DEF PidInv, InSync, ExpectedToggle
    <2> QED
        BY <2>1, <2>2, <2>3, <2>4, ResumedKeepsPid, Zenon
<1>4. CASE TraceeGone
    <2>1. /\ life[cur.pid] = "reaped" /\ UNCHANGED kernel /\ pc' # "handle"
          /\ tracees' = [tracees EXCEPT ![cur.pid] = Absent]
        BY <1>4, Zenon DEF TraceeGone, RemoveTracee, CurInv
    <2>2. CASE p = cur.pid
        BY <2>1, <2>2, Zenon DEF kernel, PidInv, Fresh, InSync, OwnState, Alive
    <2>3. CASE p # cur.pid
        BY <2>1, <2>3, PidInvKept, Zenon DEF kernel, TypeOK
    <2> QED
        BY <2>2, <2>3, Zenon
<1>5. CASE ForkEvent
    <2>1. pc' = "wait" /\ UNCHANGED <<kin, kname>>
        BY <1>5, Zenon DEF ForkEvent
    <2>2. /\ tracees'[p].in_syscall <=> tracees[p].in_syscall
          /\ tracees'[p].in_syscall => tracees'[p] = tracees[p]
        <3>1. ~Zeroed(TRUE).in_syscall
            BY Zenon DEF Zeroed
        <3>2. \/ tracees'[p] = tracees[p]
              \/ ~tracees[p].in_syscall /\ tracees'[p] = Zeroed(TRUE)
            BY <1>5, ForkEventFacts, Zenon DEF TableInv
        <3> QED
            BY ONLY <3>1, <3>2, Zenon
    <2>3. p = cur.pid => life[p] # "running" /\ (Alive(p) => (tracees'[p].in_syscall <=> kin[p]))
        BY <1>5, <2>2, ForkEventFacts, Zenon DEF PidInv, InSync, ExpectedToggle, Alive
    <2> QED
        BY <1>0, <1>5, <2>1, <2>2, <2>3, ForkEventFacts, ResumedKeepsPid, Zenon
<1>6. CASE SignalStop \/ SyscallStopSkipped
    <2>1. /\ OnlyResumed(cur.pid) /\ OnlyAdded(cur.pid)
          /\ pc = "handle" /\ pc' = "wait" /\ UNCHANGED <<kin, kname>>
        BY <1>6, AdoptionFacts, Zenon
    <2>2. /\ tracees'[p].in_syscall <=> tracees[p].in_syscall
          /\ tracees'[p].in_syscall => tracees'[p] = tracees[p]
        BY <1>0, <2>1, AddedQuietly, Zenon
    <2>3. p = cur.pid => life[p] # "running" /\ (life[p] = "stopped" => stop[p] # "syscall")
        <3>1. CASE SignalStop
            BY <2>1, <3>1, Zenon DEF SignalStop, SignalStops, Genuine, PidInv, Fresh
        <3>2. CASE SyscallStopSkipped
            BY <2>1, <3>2, AlwaysHolds, Zenon DEF SyscallStopSkipped, PidInv, Fresh
        <3> QED
            BY <1>6, <3>1, <3>2, Zenon
    <2>4. p = cur.pid => (Alive(p) => (tracees'[p].in_syscall <=> kin[p]))
        BY <2>2, <2>3, Zenon DEF PidInv, InSync, ExpectedToggle, Alive
    <2> QED
        BY <1>0, <2>1, <2>2, <2>3, <2>4, ResumedKeepsPid, Zenon
<1>7. CASE EntryStop
    <2>1. pc' = "wait" /\ UNCHANGED <<kin, kname>>
        BY <1>7, Zenon DEF EntryStop
    <2>2. p = cur.pid => kin[p]
        BY <1>7, EntryInSync, Zenon
    <2> QED
        BY <1>7, <2>1, <2>2, EntryEffect, ResumedKeepsPid, Zenon
<1>8. CASE ExitStop
    <2>1. pc' = "wait" /\ UNCHANGED <<kin, kname>>
        BY <1>8, Zenon DEF ExitStop
    <2>2. p = cur.pid => ~kin[p]
        BY <1>8, ExitInSync, Zenon
    <2> QED
        BY <1>8, <2>1, <2>2, ExitEffect, ResumedKeepsPid, Zenon
<1> QED
    BY <1>1, <1>2, <1>3, <1>4, <1>5, <1>6, <1>7, <1>8, Zenon DEF Tracer

\* A step of any actor keeps the PidInv of a tracee, whatever holds of the others.
LEMMA PidStep ==
    ASSUME RoomForAll, OrderInv, NEW p \in Pids, PidInv(p), [Next]_vars
    PROVE  PidInv(p)'
<1>1. CASE UNCHANGED vars
    BY <1>1, PidInvKept, Zenon DEF vars, kernel, loop
<1> QED
    BY <1>1, PidTraceeStep, PidTracerStep, Zenon DEF Next, Finished

\* Every step of every process and of the loop keeps the invariant.
LEMMA NextPreservesIInv ==
    ASSUME RoomForAll, IInv, [Next]_vars
    PROVE  IInv'
BY OrderStep, PidStep, Zenon DEF IInv

\* The invariant holds in every reachable state.
THEOREM IInvHolds ==
    ASSUME RoomForAll
    PROVE  Spec => []IInv
BY InitEstablishesIInv, NextPreservesIInv, PTL DEF Spec

\* What the invariant says of all tracees, and of the one being handled.
LEMMA IInvFacts ==
    ASSUME IInv
    PROVE  OrderInv /\ Fresh(cur.pid) /\ ToggleInSync /\ SavedStateIsOwn
<1>1. cur.pid \in Pids
    BY Zenon DEF IInv, OrderInv, TypeOK
<1> QED
    BY <1>1, Zenon DEF IInv, PidInv, InSync, OwnState, ToggleInSync, SavedStateIsOwn

\* Type correctness of the loop and of the processes.
THEOREM TypeCorrect ==
    ASSUME RoomForAll
    PROVE  Spec => []TypeOK
BY IInvHolds, IInvFacts, PTL DEF OrderInv

\* The entry/exit toggle of run_tracer agrees with the kernel, however the
\* stops of the tracees interleave.
THEOREM ToggleStaysInSync ==
    ASSUME RoomForAll
    PROVE  Spec => []ToggleInSync
BY IInvHolds, IInvFacts, PTL

\* The exit-stop only ever acts on what the entry-stop of the same call saved.
THEOREM SavedStateStaysOwn ==
    ASSUME RoomForAll
    PROVE  Spec => []SavedStateIsOwn
BY IInvHolds, IInvFacts, PTL

\* An entry-stop is handled only when the kernel is at an entry-stop.
LEMMA EntryFacts ==
    ASSUME RoomForAll, IInv, EntryStop
    PROVE  stop[cur.pid] = "syscall" /\ kin[cur.pid]
BY EntryInSync, Zenon DEF IInv, OrderInv, TypeOK

\* An exit-stop is handled only when the kernel is at an exit-stop.
LEMMA ExitFacts ==
    ASSUME IInv, ExitStop
    PROVE  stop[cur.pid] = "syscall" /\ ~kin[cur.pid]
BY ExitInSync, Zenon DEF IInv, OrderInv, TypeOK

-----------------------------------------------------------------------------
(***************************************************************************)
(* What active_count counts.                                               *)
(***************************************************************************)
Born == {p \in Pids : life[p] # "unborn"}

\* The tracees whose death has been handled.
Gone ==
    {p \in Pids : life[p] = "reaped"}
        \ (IF pc = "handle" /\ cur.status = "dead" THEN {cur.pid} ELSE {})

Counting == pc \in {"wait", "handle", "done"} /\ outcome # "ptrace_failed"

\* Each fork event is handled once, for a child of its own.
EventInv ==
    /\ announced \subseteq Born
    /\ \A p \in Pids : stop[p] = "event" => evchild[p] \notin announced
    /\ \A p, q \in Pids :
           stop[p] = "event" /\ stop[q] = "event" /\ evchild[p] = evchild[q] => p = q
    /\ pc \in {"start", "setup"} => \A p \in Pids : p # Root => life[p] = "unborn"
    /\ pc \in {"start", "setup", "wait", "handle"} => outcome = "none"

\* How far active_count is from the fork events handled, the root included, less
\* the deaths handled.
Surplus == active_count - (Cardinality(announced) - Cardinality(Gone))

\* Nothing has been announced before the first waitpid.
LEMMA EventInvInit == Init => EventInv
BY DEF Init, EventInv, Born

\* Every step keeps EventInv.
LEMMA EventInvStep ==
    ASSUME RoomForAll, OrderInv, EventInv, [Next]_vars
    PROVE  EventInv'
<1> USE DEF OrderInv
<1>1. ASSUME NEW p \in Pids, NEW n \in Names, KEnter(p, n)
      PROVE  EventInv'
    BY <1>1 DEF KEnter, StopFor, Runs, loop, history, TypeOK, KernelInv, EventInv, Born
<1>2. ASSUME NEW p \in Pids, KReturn(p)
      PROVE  EventInv'
    BY <1>2 DEF KReturn, StopFor, Runs, loop, history, TypeOK, KernelInv, EventInv, Born
<1>3. ASSUME NEW p \in Pids, NEW c \in Pids, KFork(p, c)
      PROVE  EventInv'
    <2>1. c \notin announced /\ c # p /\ \A q \in Pids : evchild[q] # c
        BY <1>3 DEF KFork, Runs, KernelInv, EventInv, Born, TypeOK
    <2>2. pc \notin {"start", "setup"}
        BY <1>3, Zenon DEF KFork, Runs, CurInv, Fresh, EventInv
    <2> QED
        BY <1>3, <2>1, <2>2 DEF KFork, Runs, loop, history, TypeOK, KernelInv, EventInv, Born
<1>4. ASSUME NEW p \in Pids, NEW s \in Genuine \cup {"exec"}, KSignal(p, s)
      PROVE  EventInv'
    <2>1. s # "event"
        BY Zenon DEF Genuine
    <2> QED
        BY <1>4, <2>1
        DEF KSignal, StopFor, Runs, loop, history, TypeOK, KernelInv, EventInv, Born
<1>5. ASSUME NEW p \in Pids, KAttachStop(p)
      PROVE  EventInv'
    BY <1>5 DEF KAttachStop, StopFor, Runs, loop, history, TypeOK, KernelInv, EventInv, Born
<1>6. ASSUME NEW p \in Pids, KDie(p)
      PROVE  EventInv'
    BY <1>6 DEF KDie, loop, history, TypeOK, KernelInv, EventInv, Born
<1>7. CASE InitialWait
    BY <1>7, ZenonT(40) DEF InitialWait, history, TypeOK, EventInv, Born
<1>8. CASE Setup
    <2>1. OnlyResumed(Root)
        BY <1>8, ResumeFacts, Zenon DEF Setup
    <2>2. /\ Root \in Born' /\ announced' = {Root}
          /\ pc' \in {"wait", "done"} /\ (pc' = "wait" => outcome' = "none")
        BY <1>8, <2>1, Zenon DEF Setup, OnlyResumed, KernelInv, Born, EventInv
    <2>3. \A p \in Pids : stop'[p] # "event"
        <3>1. \A p \in Pids : p # Root => stop'[p] = "none"
            BY <1>8, <2>1, Zenon DEF Setup, OnlyResumed, KernelInv, EventInv
        <3>2. stop'[Root] # "event"
            BY <1>8, <2>1, Zenon DEF Setup, OnlyResumed, KernelInv
        <3> QED
            BY <3>1, <3>2, Zenon
    <2> QED
        BY <2>2, <2>3, Zenon DEF EventInv
<1>9. ASSUME NEW p \in Pids, Wait(p)
      PROVE  EventInv'
    BY <1>9, ZenonT(40) DEF Wait, history, TypeOK, EventInv, Born
<1>10. CASE TraceeGone
    BY <1>10, Zenon DEF TraceeGone, kernel, history, EventInv, Born
<1>11. CASE ForkEvent
    <2> DEFINE p == cur.pid
               c == evchild[p]
    <2>1. /\ p \in Pids /\ OnlyResumed(p)
          /\ life[p] = "stopped" => stop[p] = "event" /\ c \in Pids /\ life[c] # "unborn"
        BY <1>11, ForkEventFacts, Zenon
    <2>2. /\ pc' = "wait" /\ UNCHANGED <<evchild, outcome>> /\ outcome = "none"
          /\ \/ life[p] = "stopped" /\ announced' = announced \cup {c}
             \/ life[p] # "stopped" /\ UNCHANGED announced
        BY <1>11, Zenon DEF ForkEvent, EventInv
    <2> HIDE DEF p
    <2>3. Born' = Born
        BY <2>1, Zenon DEF Born, OnlyResumed
    <2>4. \A q \in Pids : stop'[q] = "event" => stop[q] = "event" /\ (life[p] = "stopped" => q # p)
        BY <2>1, Zenon DEF OnlyResumed
    <2> QED
        BY <2>1, <2>2, <2>3, <2>4, Zenon DEF EventInv, Born
<1>12. CASE SignalStop \/ SyscallStopSkipped \/ EntryStop \/ ExitStop
    <2>1. /\ cur.pid \in Pids /\ pc' = "wait" /\ outcome = "none"
          /\ UNCHANGED <<evchild, outcome, announced>>
        BY <1>12, Zenon DEF SignalStop, SyscallStopSkipped, EntryStop, ExitStop, EventInv, TypeOK
    <2>2. OnlyResumed(cur.pid)
        BY <1>12, <2>1, ResumeFacts, Zenon DEF SignalStop, SyscallStopSkipped, EntryStop, ExitStop
    <2>3. Born' = Born
        BY <2>1, <2>2, Zenon DEF Born, OnlyResumed
    <2>4. \A q \in Pids : stop'[q] = "event" => stop[q] = "event"
        BY <2>1, <2>2, Zenon DEF OnlyResumed
    <2> QED
        BY <2>1, <2>3, <2>4, Zenon DEF EventInv
<1>13. CASE UNCHANGED vars
    BY <1>13, Zenon DEF vars, kernel, loop, history, EventInv, Born
<1> QED
    BY <1>1, <1>2, <1>3, <1>4, <1>5, <1>6, <1>7, <1>8, <1>9, <1>10, <1>11, <1>12, <1>13, ZenonT(40)
    DEF Next, Tracer, Tracee, Finished

\* The sets that are counted are finite.
LEMMA CountedFinite ==
    ASSUME TypeOK
    PROVE  /\ IsFiniteSet(announced) /\ Cardinality(announced) \in Nat
           /\ IsFiniteSet(Gone) /\ Cardinality(Gone) \in Nat
<1>1. announced \in SUBSET Pids /\ Gone \in SUBSET Pids
    BY Zenon DEF TypeOK, Gone
<1> QED
    BY <1>1, FS_Subset, FS_CardinalityType, ZenonT(40)

\* No step changes the surplus once the loop counts, and it counts from zero: each
\* fork event and each death is counted once, in whatever order they arrive.
LEMMA SurplusStep ==
    ASSUME RoomForAll, OrderInv, EventInv, [Next]_vars, Counting'
    PROVE  Surplus' = IF Counting THEN Surplus ELSE 0
<1> USE DEF OrderInv
<1>0. ASSUME Counting, Gone' = Gone, UNCHANGED <<active_count, announced>>
      PROVE  Surplus' = IF Counting THEN Surplus ELSE 0
    BY <1>0, Zenon DEF Surplus
<1>1. ASSUME NEW p \in Pids, Tracee(p)
      PROVE  Surplus' = IF Counting THEN Surplus ELSE 0
    <2>1. UNCHANGED <<loop, announced>>
        BY <1>1, Zenon
        DEF Tracee, KEnter, KReturn, KFork, KSignal, KAttachStop, KDie, history
    <2>2. \A q \in Pids : life'[q] = "reaped" <=> life[q] = "reaped"
        BY <1>1
        DEF Tracee, KEnter, KReturn, KFork, KSignal, KAttachStop, KDie, StopFor, Runs, TypeOK
    <2>3. Gone' = Gone
        BY <2>1, <2>2, Zenon DEF Gone, loop
    <2> QED
        BY <1>0, <2>1, <2>3, Zenon DEF Counting, loop
<1>2. CASE InitialWait
    BY <1>2, Zenon DEF InitialWait, Counting
<1>3. CASE Setup
    <2>1. life[Root] = "stopped"
        BY <1>3, Zenon DEF Setup, Counting
    <2>2. active_count' = 1 /\ announced' = {Root} /\ pc = "setup" /\ pc' = "wait"
        BY <1>3, <2>1, Zenon DEF Setup
    <2>3. OnlyResumed(Root)
        BY <1>3, ResumeFacts, Zenon DEF Setup
    <2>4. Gone' = {}
        <3>1. \A p \in Pids : p # Root => life[p] = "unborn"
            BY <1>3, Zenon DEF Setup, EventInv
        <3>2. \A p \in Pids : life'[p] # "reaped"
            BY <2>1, <2>3, <3>1, Zenon DEF OnlyResumed
        <3> QED
            BY <2>2, <3>2, Zenon DEF Gone
    <2>5. Cardinality(announced') = 1 /\ Cardinality(Gone') = 0
        BY <2>2, <2>4, FS_EmptySet, FS_Singleton, Zenon
    <2>6. Surplus' = 0
        BY <2>2, <2>5 DEF Surplus
    <2> QED
        BY <2>2, <2>6, Zenon DEF Counting
<1>4. ASSUME NEW p \in Pids, Wait(p)
      PROVE  Surplus' = IF Counting THEN Surplus ELSE 0
    <2>1. /\ pc = "wait" /\ pc' = "handle" /\ cur'.pid = p
          /\ cur'.status = IF life[p] = "zombie" THEN "dead" ELSE stop[p]
          /\ UNCHANGED <<outcome, active_count, announced>>
        BY <1>4, Zenon DEF Wait, history
    <2>2. life[p] # "zombie" => cur'.status # "dead"
        BY <1>4, <2>1, Zenon DEF Wait, TypeOK, KernelInv, StopKinds, SignalStops, Genuine
    <2>3. Gone' = Gone
        BY <1>4, <2>1, <2>2, ZenonT(40) DEF Wait, Gone, TypeOK
    <2> QED
        BY <1>0, <2>1, <2>3, Zenon DEF Counting
<1>5. CASE TraceeGone
    <2>1. /\ cur.pid \in Pids /\ life[cur.pid] = "reaped"
          /\ pc = "handle" /\ cur.status = "dead" /\ pc' \in {"wait", "done"}
          /\ outcome = "none" /\ active_count' = active_count - 1
          /\ UNCHANGED <<life, announced>>
        BY <1>5, Zenon DEF TraceeGone, kernel, history, CurInv, TypeOK, EventInv
    <2>2. Gone' = Gone \cup {cur.pid} /\ cur.pid \notin Gone
        BY <2>1, Zenon DEF Gone
    <2>3. Cardinality(Gone') = Cardinality(Gone) + 1
        BY <2>2, CountedFinite, FS_AddElement, Zenon
    <2>4. Counting /\ active_count \in Nat
        BY <2>1, Zenon DEF Counting, TypeOK
    <2> QED
        BY <2>1, <2>3, <2>4, CountedFinite DEF Surplus
<1>6. CASE ForkEvent
    <2> DEFINE p == cur.pid
               c == evchild[p]
    <2>1. /\ p \in Pids /\ OnlyResumed(p)
          /\ life[p] = "stopped" => stop[p] = "event" /\ c \in Pids
        BY <1>6, ForkEventFacts, Zenon
    <2>2. /\ pc = "handle" /\ pc' = "wait" /\ cur.status = "event" /\ Counting
        BY <1>6, Zenon DEF ForkEvent, EventInv, Counting
    <2>3. Gone' = Gone
        BY <2>1, <2>2 DEF Gone, OnlyResumed
    <2>4. CASE life[p] = "stopped"
        <3>1. announced' = announced \cup {c} /\ active_count' = active_count + 1
            BY <1>6, <2>1, <2>4, AlwaysHolds, Zenon DEF ForkEvent, CountsChild
        <3>2. Cardinality(announced') = Cardinality(announced) + 1
            BY <2>1, <2>4, <3>1, CountedFinite, FS_AddElement, Zenon DEF EventInv
        <3>3. active_count \in Nat
            BY Zenon DEF TypeOK
        <3> QED
            BY <2>2, <2>3, <3>1, <3>2, <3>3, CountedFinite DEF Surplus
    <2>5. CASE life[p] # "stopped"
        BY <1>0, <1>6, <2>2, <2>3, <2>5, Zenon DEF ForkEvent
    <2> QED
        BY <2>4, <2>5, Zenon
<1>7. CASE SignalStop \/ SyscallStopSkipped \/ EntryStop \/ ExitStop
    <2>1. /\ cur.pid \in Pids /\ pc = "handle" /\ pc' = "wait" /\ cur.status # "dead"
          /\ UNCHANGED <<outcome, announced, active_count>>
        BY <1>7, Zenon
        DEF SignalStop, SyscallStopSkipped, EntryStop, ExitStop, SignalStops, Genuine, TypeOK
    <2>2. OnlyResumed(cur.pid)
        BY <1>7, <2>1, ResumeFacts, Zenon DEF SignalStop, SyscallStopSkipped, EntryStop, ExitStop
    <2>3. Gone' = Gone
        BY <2>1, <2>2 DEF Gone, OnlyResumed
    <2> QED
        BY <1>0, <2>1, <2>3, Zenon DEF Counting
<1>8. CASE UNCHANGED vars
    <2>1. Gone' = Gone /\ UNCHANGED <<active_count, announced>> /\ Counting
        BY <1>8, Zenon DEF vars, kernel, loop, history, Counting, Gone
    <2> QED
        BY <1>0, <2>1, Zenon
<1> QED
    BY <1>1, <1>2, <1>3, <1>4, <1>5, <1>6, <1>7, <1>8, Zenon DEF Next, Tracer, Finished
=============================================================================
