--------------------------- MODULE TracerTheorems ---------------------------
(***************************************************************************)
(* What run_tracer promises to its user, proved from the invariant of      *)
(* TracerProofs: the lines of the trace, the count of tracees that ends    *)
(* the loop, the total, the signals it hands back and the -c table.        *)
(***************************************************************************)
EXTENDS TracerProofs, SummaryTracer

USE TraceeMapAssumption, TracerAssumption

-----------------------------------------------------------------------------
(***************************************************************************)
(* The lines: Tracer implements TraceLog.                                  *)
(***************************************************************************)
\* The line of a live tracee is open exactly while it is inside a call that
\* was shown at its entry-stop, and then it is that call's line.
LineInv ==
    \A p \in Pids : Alive(p) =>
        /\ line[p].st = "open" <=> tracees[p].in_syscall /\ ShownAtEntry(tracees[p])
        /\ line[p].st = "open" => line[p].name = kname[p]

\* No line is open at the start.
LEMMA LineInvInit == Init => LineInv
BY DEF Init, LineInv, Absent, Zeroed

\* Every step keeps LineInv.
LEMMA LineInvStep ==
    ASSUME RoomForAll, IInv, LineInv, [Next]_vars
    PROVE  LineInv'
<1>a. OrderInv /\ Fresh(cur.pid) /\ ToggleInSync /\ SavedStateIsOwn
    BY IInvFacts, Zenon
<1> USE <1>a DEF OrderInv
<1>1. ASSUME NEW p \in Pids, NEW n \in Names, KEnter(p, n)
      PROVE  LineInv'
    <2>1. ~tracees[p].in_syscall /\ Alive(p)
        BY <1>1, Zenon DEF KEnter, Runs, ToggleInSync, Alive, ExpectedToggle, KernelInv, TypeOK
    <2> QED
        BY <1>1, <2>1, Zenon
        DEF KEnter, StopFor, Runs, loop, history, TypeOK, LineInv, Alive, ShownAtEntry
<1>2. ASSUME NEW p \in Pids, KReturn(p)
      PROVE  LineInv'
    BY <1>2 DEF KReturn, StopFor, Runs, loop, history, TypeOK, LineInv, Alive, ShownAtEntry
<1>3. ASSUME NEW p \in Pids, NEW c \in Pids, KFork(p, c)
      PROVE  LineInv'
    <2>1. ~tracees[c].in_syscall /\ line[c].st = "none" /\ c # p
        BY <1>3, Zenon DEF KFork, Runs, KernelInv, TableInv
    <2> QED
        BY <1>3, <2>1 DEF KFork, Runs, loop, history, TypeOK, LineInv, Alive, ShownAtEntry
<1>4. ASSUME NEW p \in Pids, NEW s \in Genuine \cup {"exec"}, KSignal(p, s)
      PROVE  LineInv'
    BY <1>4 DEF KSignal, StopFor, Runs, loop, history, TypeOK, LineInv, Alive, ShownAtEntry
<1>5. ASSUME NEW p \in Pids, KAttachStop(p)
      PROVE  LineInv'
    BY <1>5
    DEF KAttachStop, StopFor, Runs, loop, history, TypeOK, LineInv, Alive, ShownAtEntry
<1>6. ASSUME NEW p \in Pids, KDie(p)
      PROVE  LineInv'
    BY <1>6, Zenon DEF KDie, loop, history, TypeOK, LineInv, Alive, ShownAtEntry
<1>7. CASE InitialWait
    BY <1>7, ZenonT(40) DEF InitialWait, history, TypeOK, LineInv, Alive, ShownAtEntry
<1>8. CASE Setup
    <2>1. OnlyResumed(Root) /\ OnlyAdded(Root)
        BY <1>8, ResumeFacts, AddFacts, Zenon DEF Setup
    <2> QED
        BY <1>8, <2>1
        DEF Setup, OnlyResumed, OnlyAdded, TypeOK, TableInv, LineInv, Alive, ShownAtEntry,
            Zeroed
<1>9. ASSUME NEW p \in Pids, Wait(p)
      PROVE  LineInv'
    BY <1>9, ZenonT(40) DEF Wait, history, TypeOK, LineInv, Alive, ShownAtEntry
<1>10. CASE TraceeGone
    <2>1. cur.pid \in Pids /\ life[cur.pid] = "reaped"
        BY <1>10, Zenon DEF TraceeGone, TypeOK, CurInv, Fresh
    <2> QED
        BY <1>10, <2>1
        DEF TraceeGone, RemoveTracee, kernel, history, TypeOK, LineInv, Alive, ShownAtEntry
<1>11. CASE ForkEvent
    <2>1. UNCHANGED <<line, kname>>
        BY <1>11, Zenon DEF ForkEvent
    <2> QED
        BY <1>11, <2>1, ForkEventFacts
        DEF OnlyResumed, TypeOK, TableInv, LineInv, Alive, ShownAtEntry, Zeroed
<1>12. CASE SignalStop \/ SyscallStopSkipped
    <2>1. UNCHANGED <<line, kname>> /\ cur.pid \in Pids
        BY <1>12, Zenon DEF SignalStop, SyscallStopSkipped, TypeOK
    <2>2. OnlyResumed(cur.pid) /\ OnlyAdded(cur.pid)
        BY <1>12, <2>1, ResumeFacts, AddFacts, Zenon DEF SignalStop, SyscallStopSkipped
    <2>3. life[cur.pid] \in {"stopped", "zombie", "reaped"}
        BY <1>12, Zenon DEF SignalStop, SyscallStopSkipped, CurInv, Fresh
    <2> QED
        BY <2>1, <2>2, <2>3
        DEF OnlyResumed, OnlyAdded, TypeOK, TableInv, LineInv, Alive, ShownAtEntry, Zeroed
<1>13. CASE EntryStop
    <2>1. UNCHANGED kname /\ line[cur.pid].st # "open"
        BY <1>13, EntryEffect, EntryFacts, Zenon DEF EntryStop, LineInv, Alive
    <2>2. ASSUME NEW q \in Pids, q # cur.pid, Alive(q)'
          PROVE  Alive(q) /\ line'[q] = line[q] /\ tracees'[q] = tracees[q]
        BY <1>13, <2>2, EntryEffect, EntryFacts, Zenon DEF OnlyResumed, Alive, TypeOK
    <2>3. /\ tracees'[cur.pid].in_syscall
          /\ cur.pid \in Pids
          /\ IF ShownAtEntry(tracees'[cur.pid])
               THEN line'[cur.pid] = [name |-> kname[cur.pid], st |-> "open"]
               ELSE line'[cur.pid] = line[cur.pid]
        BY <1>13, EntryEffect, EntryFacts, Zenon DEF TypeOK
    <2> QED
        BY <2>1, <2>2, <2>3 DEF LineInv, ShownAtEntry
<1>14. CASE ExitStop
    <2>1. UNCHANGED kname
        BY <1>14, Zenon DEF ExitStop
    <2>2. ASSUME NEW q \in Pids, q # cur.pid, Alive(q)'
          PROVE  Alive(q) /\ line'[q] = line[q] /\ tracees'[q] = tracees[q]
        BY <1>14, <2>2, ExitEffect, ExitFacts, Zenon DEF OnlyResumed, Alive, TypeOK
    <2>3. /\ ~tracees'[cur.pid].in_syscall
          /\ cur.pid \in Pids
          /\ line'[cur.pid] = ShownAtExit(tracees[cur.pid], line[cur.pid])
        BY <1>14, ExitEffect, ExitFacts, Zenon DEF TypeOK
    <2>4. line'[cur.pid].st # "open"
        BY <1>14, <2>3, ExitEffect, ExitFacts DEF ShownAtExit, LineInv, ShownAtEntry, Alive
    <2> QED
        BY <2>1, <2>2, <2>3, <2>4 DEF LineInv, ShownAtEntry
<1>15. CASE UNCHANGED vars
    BY <1>15, Zenon DEF vars, kernel, loop, history, LineInv, Alive, ShownAtEntry
<1> QED
    BY <1>1, <1>2, <1>3, <1>4, <1>5, <1>6, <1>7, <1>8, <1>9, <1>10, <1>11, <1>12,
       <1>13, <1>14, <1>15, ZenonT(40)
    DEF Next, Tracer, Tracee, Finished

\* A step that ends no call, starts none and kills nobody is invisible.
LEMMA Invisible ==
    ASSUME UNCHANGED line,
           \A q \in Pids : life'[q] \in {"zombie", "reaped"} <=> life[q] \in {"zombie", "reaped"},
           life \in [Pids -> Lives], life' \in [Pids -> Lives],
           \A q \in Pids : InFlight(q)' <=> InFlight(q),
           \A q \in Pids : InFlight(q) => kname'[q] = kname[q]
    PROVE  UNCHANGED <<NotDead, CallOf, line>>
BY Zenon DEF NotDead, CallOf, Lives

\* Every step of the tracer and of the tracees is a step of TraceLog, or
\* changes nothing in it.
LEMMA StepRefines ==
    ASSUME RoomForAll, IInv, IInv', LineInv, [Next]_vars
    PROVE  [Log!LogNext]_(Log!logVars)
<1>a. OrderInv /\ Fresh(cur.pid) /\ ToggleInSync /\ SavedStateIsOwn
    BY IInvFacts, Zenon
<1> USE <1>a DEF OrderInv
<1>0. life \in [Pids -> Lives] /\ life' \in [Pids -> Lives]
    BY Zenon DEF IInv, TypeOK
<1>1. ASSUME NEW p \in Pids, NEW n \in Names, KEnter(p, n)
      PROVE  Log!Begin(p, n)
    <2>1. Alive(p) /\ stop[p] = "none" /\ ~kin[p]
        BY <1>1, Zenon DEF KEnter, Runs, Alive, KernelInv
    <2>2. ~tracees[p].in_syscall
        BY <2>1, Zenon DEF ToggleInSync, ExpectedToggle
    <2>3. p \in NotDead /\ CallOf[p] = NoName /\ line[p].st # "open"
        BY <1>1, <2>1, <2>2, Zenon DEF KEnter, Runs, NotDead, CallOf, InFlight, LineInv
    <2>4. CallOf' = [CallOf EXCEPT ![p] = n]
        BY <1>1, <1>0, Zenon DEF KEnter, StopFor, Runs, CallOf, InFlight, Alive, TypeOK
    <2>5. UNCHANGED <<NotDead, line>>
        BY <1>1, <1>0, Zenon DEF KEnter, StopFor, Runs, NotDead, history
    <2> QED
        BY <2>3, <2>4, <2>5, Zenon DEF Log!Begin
<1>2. ASSUME NEW p \in Pids, KReturn(p)
      PROVE  UNCHANGED <<NotDead, CallOf, line>>
    BY <1>2, <1>0, Invisible, ZenonT(40)
    DEF KReturn, StopFor, Runs, InFlight, Alive, TypeOK, history
<1>3. ASSUME NEW p \in Pids, NEW c \in Pids, KFork(p, c)
      PROVE  UNCHANGED <<NotDead, CallOf, line>>
    <2>1. ~kin[c] /\ stop[c] = "none" /\ c # p
        BY <1>3, Zenon DEF KFork, Runs, KernelInv
    <2> QED
        BY <1>3, <2>1, <1>0, Invisible DEF KFork, Runs, InFlight, Alive, TypeOK, history
<1>4. ASSUME NEW p \in Pids, NEW s \in Genuine \cup {"exec"}, KSignal(p, s)
      PROVE  UNCHANGED <<NotDead, CallOf, line>>
    <2>1. s # "syscall" /\ stop[p] = "none"
        BY <1>4, Zenon DEF KSignal, Runs, Genuine, KernelInv
    <2> QED
        BY <1>4, <2>1, <1>0, Invisible, ZenonT(40)
        DEF KSignal, StopFor, Runs, InFlight, Alive, TypeOK, history
<1>5. ASSUME NEW p \in Pids, KAttachStop(p)
      PROVE  UNCHANGED <<NotDead, CallOf, line>>
    <2>1. stop[p] = "none"
        BY <1>5, Zenon DEF KAttachStop, Runs, KernelInv
    <2> QED
        BY <1>5, <2>1, <1>0, Invisible, ZenonT(40)
        DEF KAttachStop, StopFor, Runs, InFlight, Alive, TypeOK, history
<1>6. ASSUME NEW p \in Pids, KDie(p)
      PROVE  Log!Die(p)
    <2>1. NotDead' = NotDead \ {p} /\ UNCHANGED line
        BY <1>6, <1>0, Zenon DEF KDie, NotDead, history
    <2>2. CallOf' = [CallOf EXCEPT ![p] = NoName]
        BY <1>6, <1>0, Zenon DEF KDie, CallOf, InFlight, Alive, TypeOK
    <2> QED
        BY <2>1, <2>2, Zenon DEF Log!Die
<1>7. ASSUME NEW p \in Pids, (InitialWait /\ p = Root) \/ Wait(p)
      PROVE  UNCHANGED <<NotDead, CallOf, line>>
    <2>1. /\ life' = [life EXCEPT ![p] = IF life[p] = "zombie" THEN "reaped" ELSE life[p]]
          /\ UNCHANGED <<stop, kin, kname, line>>
        BY <1>7, Zenon DEF InitialWait, Wait, history
    <2> QED
        BY <2>1, <1>0, Invisible, Zenon DEF InFlight, Alive
<1>8. CASE TraceeGone
    BY <1>8, Zenon
    DEF TraceeGone, kernel, history, NotDead, CallOf, InFlight, Alive,
        Log!logVars
<1>9. CASE Setup \/ ForkEvent \/ SignalStop \/ SyscallStopSkipped
    <2> DEFINE p == IF pc = "setup" THEN Root ELSE cur.pid
    <2>1. p \in Pids /\ UNCHANGED <<line, kin, kname>>
        BY <1>9, Zenon DEF Setup, ForkEvent, SignalStop, SyscallStopSkipped, TypeOK
    <2>2. OnlyResumed(p)
        BY <1>9, <2>1, ResumeFacts, ZenonT(40) DEF Setup, ForkEvent, SignalStop, SyscallStopSkipped
    <2>3. life[p] = "stopped" => stop[p] # "syscall"
        BY <1>9, AlwaysHolds, Zenon
        DEF Setup, ForkEvent, SignalStop, SyscallStopSkipped, CurInv, Fresh, SignalStops,
            Genuine, TypeOK
    <2> HIDE DEF p
    <2>4. \A q \in Pids : InFlight(q)' <=> InFlight(q)
        BY <2>1, <2>2, <2>3, Zenon DEF OnlyResumed, InFlight, Alive
    <2> QED
        BY <2>1, <2>2, <2>4, <1>0, Invisible, Zenon DEF OnlyResumed, Log!logVars
<1>10. CASE EntryStop
    <2> DEFINE p == cur.pid
    <2>1. /\ p \in Pids /\ Alive(p) /\ kin[p] /\ kname[p] \in Names
          /\ ~tracees[p].in_syscall /\ OnlyResumed(p)
          /\ UNCHANGED <<kin, kname>>
        BY <1>10, EntryEffect, EntryFacts, Zenon DEF EntryStop, Alive
    <2>2. \A q \in Pids : InFlight(q)' <=> InFlight(q)
        BY <2>1, Zenon DEF OnlyResumed, InFlight, Alive
    <2>3. UNCHANGED <<NotDead, CallOf>> /\ CallOf[p] = kname[p]
        BY <2>1, <2>2, <1>0 DEF OnlyResumed, NotDead, CallOf, InFlight, Alive
    <2>4. line[p].st # "open"
        BY <2>1, Zenon DEF LineInv
    <2>5. CASE ShownAtEntry(tracees'[p])
        <3>1. /\ line' = [line EXCEPT ![p] = [name |-> kname[p], st |-> "open"]]
              /\ kname[p] \in Allowed /\ ~SummaryMode
            BY <1>10, <2>5, EntryEffect, EntryFacts, Zenon DEF ShownAtEntry, SavedFor
        <3>2. Log!Open(p)
            BY <2>1, <2>3, <2>4, <3>1, Zenon DEF Log!Open, Log!Opened
        <3> QED
            BY <2>1, <3>2, Zenon DEF Log!LogNext
    <2>6. CASE ~ShownAtEntry(tracees'[p])
        BY <1>10, <2>3, <2>6, EntryEffect, EntryFacts, Zenon DEF Log!logVars
    <2> QED
        BY <2>5, <2>6, Zenon
<1>11. CASE ExitStop
    <2> DEFINE p == cur.pid
               ts == tracees[p]
    <2>1. /\ p \in Pids /\ Alive(p) /\ stop[p] = "syscall" /\ life[p] = "stopped"
          /\ ~kin[p] /\ kname[p] \in Names /\ ts.in_syscall /\ OnlyResumed(p)
          /\ UNCHANGED <<kin, kname>>
          /\ line' = [line EXCEPT ![p] = ShownAtExit(ts, line[p])]
        BY <1>11, ExitEffect, ExitFacts, Zenon DEF ExitStop, Alive
    <2>2. UNCHANGED NotDead /\ CallOf[p] = kname[p]
        <3>1. CallOf[p] = kname[p]
            BY <2>1, Zenon DEF CallOf, InFlight
        <3>2. \A q \in Pids : life'[q] \in {"unborn", "running", "stopped"}
                             <=> life[q] \in {"unborn", "running", "stopped"}
            BY <2>1, Zenon DEF OnlyResumed
        <3> QED
            BY <3>1, <3>2, Zenon DEF NotDead
    <2>3. CallOf' = [CallOf EXCEPT ![p] = NoName]
        BY <2>1, Zenon DEF OnlyResumed, CallOf, InFlight, Alive
    <2>4. /\ ts.suppressed <=> kname[p] \notin Allowed
          /\ ts.pending # {} => ts.pending_name = kname[p]
          /\ line[p].st = "open" <=> ShownAtEntry(ts)
          /\ line[p].st = "open" => line[p].name = kname[p]
          /\ line[p] \in Line /\ line \in [Pids -> Line]
        BY <2>1, ZenonT(40) DEF SavedStateIsOwn, SavedFor, LineInv, TypeOK
    <2> HIDE DEF ts
    <2>5. CASE ts.suppressed \/ SummaryMode
        <3>1. UNCHANGED line
            BY <2>1, <2>4, <2>5, Zenon DEF ShownAtExit
        <3>2. Log!ReturnHidden(p)
            BY <2>1, <2>2, <2>3, <2>4, <2>5, <3>1, Zenon DEF Log!ReturnHidden
        <3> QED
            BY <2>1, <3>2, Zenon DEF Log!LogNext
    <2>6. CASE ~ts.suppressed /\ ~SummaryMode /\ ts.pending = {}
        <3>1. /\ line[p] = [name |-> kname[p], st |-> "open"]
              /\ ShownAtExit(ts, line[p]) = [name |-> kname[p], st |-> "closed"]
            BY <2>4, <2>6, Zenon DEF ShownAtExit, ShownAtEntry, Line
        <3>2. Log!Close(p)
            BY <2>1, <2>2, <2>3, <2>4, <2>6, <3>1, Zenon DEF Log!Close, Log!Opened, Log!Closed
        <3> QED
            BY <2>1, <3>2, Zenon DEF Log!LogNext
    <2>7. CASE ~ts.suppressed /\ ~SummaryMode /\ ts.pending # {}
        <3>1. /\ line[p].st # "open"
              /\ ShownAtExit(ts, line[p]) = [name |-> kname[p], st |-> "whole"]
            BY <2>4, <2>7, Zenon DEF ShownAtExit, ShownAtEntry
        <3>2. Log!ShowWhole(p)
            BY <2>1, <2>2, <2>3, <2>4, <2>7, <3>1, Zenon DEF Log!ShowWhole, Log!Whole
        <3> QED
            BY <2>1, <3>2, Zenon DEF Log!LogNext
    <2> QED
        BY <2>5, <2>6, <2>7, Zenon
<1>12. CASE UNCHANGED vars
    BY <1>12, Zenon
    DEF vars, kernel, loop, history, NotDead, CallOf, InFlight, Alive, Log!logVars
<1> QED
    BY <1>1, <1>2, <1>3, <1>4, <1>5, <1>6, <1>7, <1>8, <1>9, <1>10, <1>11, <1>12, Zenon
    DEF Next, Tracer, Tracee, Finished, Log!LogNext, Log!logVars

\* The initial states of the tracer are initial states of TraceLog.
LEMMA InitRefines == Init => Log!LogInit
BY ZenonT(40) DEF Init, Log!LogInit, NotDead, CallOf, InFlight

\* The loop implements TraceLog for any number of tracees that fit the table:
\* a call that returns and passes the filter is printed once, under its own
\* name, whatever the interleaving.
THEOREM TracerImplementsTraceLog ==
    ASSUME RoomForAll
    PROVE  Spec => TraceKeepsPromise
<1>1. Spec => []LineInv
    BY LineInvInit, LineInvStep, IInvHolds, PTL DEF Spec
<1> QED
    BY <1>1, IInvHolds, InitRefines, StepRefines, PTL DEF Spec, TraceKeepsPromise, Log!LogSpec

-----------------------------------------------------------------------------
(***************************************************************************)
(* The count: active_count is the number of tracees once every fork        *)
(* event so far has been handled.                                          *)
(***************************************************************************)
\* active_count is the fork events handled, the root included, less the deaths
\* handled: a law that does not depend on the order of stops and events.
CountLaw == Counting => Surplus = 0

CountInv == EventInv /\ CountLaw

\* Before the first waitpid nothing has been counted.
LEMMA CountInvInit == Init => CountInv
BY EventInvInit, Zenon DEF Init, CountInv, CountLaw, Counting

\* Every step keeps CountInv.
LEMMA CountInvStep ==
    ASSUME RoomForAll, IInv, CountInv, [Next]_vars
    PROVE  CountInv'
BY EventInvStep, SurplusStep, Zenon DEF IInv, CountInv, CountLaw

\* When every process that exists has been announced, the law says that
\* active_count is the number of unreaped tracees.
LEMMA LawGivesCount ==
    ASSUME IInv, CountInv
    PROVE  CountSound
<1>a. OrderInv /\ Fresh(cur.pid) /\ ToggleInSync /\ SavedStateIsOwn
    BY IInvFacts, Zenon
<1> USE <1>a DEF OrderInv
<1>1. SUFFICES ASSUME Counting, \A p \in Pids : life[p] # "unborn" => p \in announced
               PROVE  active_count = Cardinality(Unreaped)
    BY Zenon DEF CountSound, Counting
<1>2. announced = Born
    BY <1>1, Zenon DEF CountInv, EventInv, Born, TypeOK
<1>3. Gone \subseteq announced /\ Unreaped = announced \ Gone
    <2>1. pc = "handle" /\ cur.status = "dead" => cur.pid \in Pids /\ life[cur.pid] = "reaped"
        BY Zenon DEF CurInv, Fresh, TypeOK
    <2> QED
        BY <1>2, <2>1 DEF Gone, Born, Unreaped, TypeOK, Lives
<1>4. /\ IsFiniteSet(announced) /\ Cardinality(announced) \in Nat
      /\ IsFiniteSet(Gone) /\ Cardinality(Gone) \in Nat
    BY CountedFinite, Zenon
<1>5. Cardinality(announced \ Gone) = Cardinality(announced) - Cardinality(announced \cap Gone)
    BY <1>4, FS_Difference, Zenon
<1>6. announced \cap Gone = Gone
    BY <1>3, Zenon
<1>7. active_count = Cardinality(announced) - Cardinality(Gone)
    <2>1. active_count \in Nat /\ Surplus = 0
        BY <1>1, Zenon DEF TypeOK, CountInv, CountLaw
    <2> QED
        BY <1>4, <2>1 DEF Surplus
<1> QED
    BY <1>3, <1>5, <1>6, <1>7, Zenon

\* While the count is positive, some process that was announced has not died.
LEMMA LawGivesSomeone ==
    ASSUME IInv, CountInv
    PROVE  WaitsForSomeone
<1>a. OrderInv /\ Fresh(cur.pid) /\ ToggleInSync /\ SavedStateIsOwn
    BY IInvFacts, Zenon
<1> USE <1>a DEF OrderInv
<1>1. SUFFICES ASSUME pc = "wait"
               PROVE  \E p \in Pids : life[p] \in {"running", "stopped", "zombie"}
    BY Zenon DEF WaitsForSomeone
<1>2. /\ IsFiniteSet(announced) /\ Cardinality(announced) \in Nat
      /\ IsFiniteSet(Gone) /\ Cardinality(Gone) \in Nat
    BY CountedFinite, Zenon
<1>3. Cardinality(announced) > Cardinality(Gone)
    <2>1. active_count \in Nat /\ active_count >= 1 /\ Surplus = 0
        BY <1>1, Zenon DEF CountInv, CountLaw, EventInv, Counting, LoopInv, TypeOK
    <2> QED
        BY <1>2, <2>1 DEF Surplus
<1>4. PICK p \in announced : p \notin Gone
    <2>1. announced \subseteq Gone => Cardinality(announced) <= Cardinality(Gone)
        BY <1>2, FS_Subset, Zenon
    <2> QED
        BY <1>2, <1>3, <2>1
<1>5. p \in Pids /\ life[p] # "unborn" /\ life[p] # "reaped"
    BY <1>1, <1>4, Zenon DEF CountInv, EventInv, Born, Gone
<1> QED
    BY <1>5, Zenon DEF TypeOK, Lives

\* The law of the count holds in every reachable state.
THEOREM CountInvHolds ==
    ASSUME RoomForAll
    PROVE  Spec => []CountInv
BY CountInvInit, CountInvStep, IInvHolds, PTL DEF Spec

\* active_count is the number of tracees that are not reaped, as soon as every
\* fork event so far has been handled, whatever order the child's first stop,
\* its death and the event arrived in.
THEOREM CountIsSound ==
    ASSUME RoomForAll
    PROVE  Spec => []CountSound
BY CountInvHolds, IInvHolds, LawGivesCount, PTL

\* The loop never calls waitpid with nobody left to wait for: the count has ended
\* it by then, and the ECHILD exit is not needed.
THEOREM AlwaysWaitsForSomeone ==
    ASSUME RoomForAll
    PROVE  Spec => []WaitsForSomeone
BY CountInvHolds, IInvHolds, LawGivesSomeone, PTL

-----------------------------------------------------------------------------
(***************************************************************************)
(* The total is the number of calls the tracees made, and no signal but    *)
(* SIGTRAP is swallowed.                                                   *)
(***************************************************************************)
\* The tracees at an entry-stop that the loop has not handled yet.
Uncounted == {p \in Pids : stop[p] = "syscall" /\ kin[p]}

\* Every call is counted, was ended by a kill before it could be, or waits at its
\* entry-stop to be counted.
TotalLaw == calls = call_count + missed + Cardinality(Uncounted)

\* The set of uncounted calls is finite.
LEMMA UncountedFinite == IsFiniteSet(Uncounted) /\ Cardinality(Uncounted) \in Nat
<1>1. Uncounted \in SUBSET Pids
    BY Zenon DEF Uncounted
<1> QED
    BY <1>1, FS_Subset, FS_CardinalityType, Zenon

\* No call has been made when run_tracer is entered.
LEMMA TotalLawInit == Init => TotalLaw
<1> SUFFICES ASSUME Init PROVE TotalLaw
    OBVIOUS
<1>1. Uncounted = {}
    BY Zenon DEF Init, Uncounted
<1>2. Cardinality(Uncounted) = 0
    BY <1>1, FS_EmptySet, Zenon
<1> QED
    BY <1>2 DEF Init, TotalLaw

\* A step that counts no call and moves no tracee to or from an entry-stop keeps
\* the law.
LEMMA TotalLawKept ==
    ASSUME TotalLaw, UNCHANGED <<calls, missed, call_count>>,
           \A q \in Pids : (stop'[q] = "syscall" /\ kin'[q]) <=> (stop[q] = "syscall" /\ kin[q])
    PROVE  TotalLaw'
<1>1. Uncounted' = Uncounted
    BY Zenon DEF Uncounted
<1> QED
    BY <1>1, Zenon DEF TotalLaw

\* A resumed tracee leaves the stop it was in, and every other one stays.
LEMMA ResumeUncounts ==
    ASSUME IInv, NEW p \in Pids, OnlyResumed(p), UNCHANGED kin
    PROVE  /\ \A q \in Pids : q # p => stop'[q] = stop[q] /\ kin'[q] = kin[q]
           /\ stop'[p] # "syscall"
BY Zenon DEF OnlyResumed, IInv, OrderInv, KernelInv

\* Every step keeps the law.
LEMMA TotalLawStep ==
    ASSUME RoomForAll, IInv, TotalLaw, [Next]_vars
    PROVE  TotalLaw'
<1>a. OrderInv /\ Fresh(cur.pid) /\ ToggleInSync /\ SavedStateIsOwn
    BY IInvFacts, Zenon
<1> USE <1>a DEF OrderInv
<1>0. calls \in Nat /\ missed \in Nat /\ call_count \in Nat
    BY Zenon DEF TypeOK
<1>1. ASSUME NEW p \in Pids, NEW n \in Names, KEnter(p, n)
      PROVE  TotalLaw'
    <2>1. /\ calls' = calls + 1 /\ UNCHANGED <<missed, call_count>>
          /\ p \notin Uncounted
        BY <1>1, Zenon DEF KEnter, loop, Uncounted
    <2>2. Uncounted' = Uncounted \cup {p}
        <3>1. /\ stop'[p] = "syscall" /\ kin'[p]
              /\ \A q \in Pids : q # p => stop'[q] = stop[q] /\ kin'[q] = kin[q]
            BY <1>1 DEF KEnter, StopFor, TypeOK
        <3> QED
            BY <3>1, Zenon DEF Uncounted
    <2>3. Cardinality(Uncounted') = Cardinality(Uncounted) + 1
        BY <2>1, <2>2, UncountedFinite, FS_AddElement, Zenon
    <2> QED
        BY <1>0, <2>1, <2>3, UncountedFinite DEF TotalLaw
<1>2. ASSUME NEW p \in Pids, KReturn(p)
      PROVE  TotalLaw'
    <2>1. stop[p] = "none"
        BY <1>2, Zenon DEF KReturn, Runs, KernelInv
    <2> QED
        BY <1>2, <2>1, TotalLawKept, Zenon DEF KReturn, StopFor, loop, TypeOK
<1>3. ASSUME NEW p \in Pids, NEW c \in Pids, KFork(p, c)
      PROVE  TotalLaw'
    <2>1. stop[p] = "none"
        BY <1>3, Zenon DEF KFork, Runs, KernelInv
    <2> QED
        BY <1>3, <2>1, TotalLawKept, Zenon DEF KFork, loop, TypeOK
<1>4. ASSUME NEW p \in Pids, NEW s \in Genuine \cup {"exec"}, KSignal(p, s)
      PROVE  TotalLaw'
    <2>1. s # "syscall" /\ stop[p] = "none"
        BY <1>4, Zenon DEF KSignal, Runs, Genuine, KernelInv
    <2> QED
        BY <1>4, <2>1, TotalLawKept, Zenon DEF KSignal, StopFor, loop, TypeOK
<1>5. ASSUME NEW p \in Pids, KAttachStop(p)
      PROVE  TotalLaw'
    <2>1. stop[p] = "none"
        BY <1>5, Zenon DEF KAttachStop, Runs, KernelInv
    <2> QED
        BY <1>5, <2>1, TotalLawKept, Zenon DEF KAttachStop, StopFor, loop, TypeOK
<1>6. ASSUME NEW p \in Pids, KDie(p)
      PROVE  TotalLaw'
    <2>1. UNCHANGED <<calls, call_count, kin>> /\ stop' = [stop EXCEPT ![p] = "none"]
        BY <1>6, Zenon DEF KDie, loop
    <2>2. CASE p \in Uncounted
        <3>1. missed' = missed + 1
            BY <1>6, <2>2, Zenon DEF KDie, Uncounted
        <3>2. Uncounted' = Uncounted \ {p}
            BY <2>1, Zenon DEF Uncounted, TypeOK
        <3>3. Cardinality(Uncounted') = Cardinality(Uncounted) - 1
            BY <2>2, <3>2, UncountedFinite, FS_RemoveElement, Zenon
        <3> QED
            BY <1>0, <2>1, <3>1, <3>3, UncountedFinite DEF TotalLaw
    <2>3. CASE p \notin Uncounted
        <3>1. missed' = missed
            BY <1>6, <2>3, Zenon DEF KDie, Uncounted
        <3> QED
            BY <2>1, <2>3, <3>1, TotalLawKept, Zenon DEF Uncounted, TypeOK
    <2> QED
        BY <2>2, <2>3, Zenon
<1>7. ASSUME InitialWait \/ TraceeGone \/ (\E p \in Pids : Wait(p))
      PROVE  TotalLaw'
    BY <1>7, TotalLawKept, Zenon DEF InitialWait, TraceeGone, Wait, kernel
<1>8. CASE Setup
    <2>1. UNCHANGED <<kin, calls, missed, call_count>> /\ ~kin[Root]
        BY <1>8, Zenon DEF Setup, CurInv, Fresh
    <2>2. OnlyResumed(Root)
        BY <1>8, ResumeFacts, Zenon DEF Setup
    <2> QED
        BY <2>1, <2>2, ResumeUncounts, TotalLawKept, Zenon
<1>9. CASE ForkEvent \/ SignalStop \/ SyscallStopSkipped \/ ExitStop
    <2>1. cur.pid \in Pids /\ UNCHANGED <<kin, calls, missed, call_count>>
        BY <1>9, Zenon DEF ForkEvent, SignalStop, SyscallStopSkipped, ExitStop, TypeOK
    <2>2. OnlyResumed(cur.pid)
        BY <1>9, <2>1, ResumeFacts, ZenonT(40)
        DEF ForkEvent, SignalStop, SyscallStopSkipped, ExitStop
    <2>3. ~(stop[cur.pid] = "syscall" /\ kin[cur.pid])
        <3>1. CASE ForkEvent \/ SignalStop
            BY <3>1, <2>1, Zenon
            DEF ForkEvent, SignalStop, CurInv, Fresh, KernelInv, SignalStops, Genuine
        <3>2. CASE SyscallStopSkipped
            BY <3>2, <2>1, AlwaysHolds, Zenon DEF SyscallStopSkipped, KernelInv
        <3>3. CASE ExitStop
            BY <3>3, ExitEffect, ExitFacts, Zenon
        <3> QED
            BY <1>9, <3>1, <3>2, <3>3, Zenon
    <2> QED
        BY <2>1, <2>2, <2>3, ResumeUncounts, TotalLawKept, Zenon
<1>10. CASE EntryStop
    <2>1. /\ cur.pid \in Pids /\ cur.pid \in Uncounted /\ OnlyResumed(cur.pid)
          /\ UNCHANGED <<kin, calls, missed>> /\ call_count' = call_count + 1
        BY <1>10, EntryEffect, EntryFacts, Zenon DEF EntryStop, Uncounted
    <2>2. Uncounted' = Uncounted \ {cur.pid}
        BY <2>1, ResumeUncounts, Zenon DEF Uncounted
    <2>3. Cardinality(Uncounted') = Cardinality(Uncounted) - 1
        BY <2>1, <2>2, UncountedFinite, FS_RemoveElement, Zenon
    <2> QED
        BY <1>0, <2>1, <2>3, UncountedFinite DEF TotalLaw
<1>11. CASE UNCHANGED vars
    BY <1>11, TotalLawKept, Zenon DEF vars, kernel, loop
<1> QED
    BY <1>1, <1>2, <1>3, <1>4, <1>5, <1>6, <1>7, <1>8, <1>9, <1>10, <1>11, ZenonT(40)
    DEF Next, Tracer, Tracee, Finished

\* With no tracee left there is no call left to be counted.
LEMMA LawGivesTotal ==
    ASSUME IInv, TotalLaw
    PROVE  TotalIsExact
<1> SUFFICES ASSUME \A p \in Pids : life[p] \in {"unborn", "reaped"}
             PROVE  call_count = calls - missed
    BY Zenon DEF TotalIsExact
<1>1. \A p \in Pids : stop[p] = "none"
    BY Zenon DEF IInv, OrderInv, KernelInv
<1>2. Uncounted = {}
    BY <1>1, Zenon DEF Uncounted
<1>3. Cardinality(Uncounted) = 0
    BY <1>2, FS_EmptySet, Zenon
<1>4. calls \in Nat /\ missed \in Nat /\ call_count \in Nat
    BY Zenon DEF IInv, OrderInv, TypeOK
<1> QED
    BY <1>3, <1>4 DEF TotalLaw

\* The "total syscalls" of the last status line is the number of calls the
\* tracees made, less those killed before their entry-stop was handled.
THEOREM TotalStaysExact ==
    ASSUME RoomForAll
    PROVE  Spec => []TotalIsExact
<1>1. Spec => []TotalLaw
    BY TotalLawInit, TotalLawStep, IInvHolds, PTL DEF Spec
<1> QED
    BY <1>1, IInvHolds, LawGivesTotal, PTL

-----------------------------------------------------------------------------
\* PTRACE_SYSCALL loses a signal only if it is not the one handed back.
LEMMA ResumeLoses ==
    ASSUME NEW p \in Pids, NEW sig, Resume(p, sig)
    PROVE  \/ lost' = lost
           \/ /\ life[p] = "stopped" /\ stop[p] \in Genuine /\ stop[p] # sig
              /\ lost' = lost \cup {stop[p]}
BY Zenon DEF Resume

\* A handler of the loop swallows no signal but SIGTRAP.
LEMMA HandlerLoses ==
    ASSUME IInv, [Next]_vars, pc = "handle"
    PROVE  lost' \subseteq lost \cup {"SIGTRAP"}
<1>a. OrderInv /\ Fresh(cur.pid) /\ ToggleInSync /\ SavedStateIsOwn
    BY IInvFacts, Zenon
<1> USE <1>a DEF OrderInv
<1>1. cur.pid \in Pids /\ (life[cur.pid] = "stopped" => cur.status = stop[cur.pid])
    BY Zenon DEF TypeOK, CurInv, Fresh
<1>2. CASE SignalStop
    <2>1. \/ lost' = lost
          \/ /\ cur.status \in Genuine
             /\ cur.status # Deliver(WStopSig(cur.status))
             /\ lost' = lost \cup {cur.status}
        BY <1>1, <1>2, ResumeLoses, Zenon DEF SignalStop
    <2>2. cur.status \in Genuine /\ cur.status # Deliver(WStopSig(cur.status))
            => cur.status = "SIGTRAP"
        BY DEF Genuine, WStopSig, Deliver
    <2> QED
        BY <2>1, <2>2, Zenon
<1>3. CASE ForkEvent \/ SyscallStopSkipped \/ EntryStop \/ ExitStop
    <2>1. cur.status \notin Genuine /\ Resume(cur.pid, "0")
        BY <1>3, Zenon DEF ForkEvent, SyscallStopSkipped, EntryStop, ExitStop, Genuine
    <2> QED
        BY <1>1, <2>1, ResumeLoses, Zenon
<1>4. CASE TraceeGone \/ (\E p \in Pids : Tracee(p)) \/ UNCHANGED vars
    BY <1>4, ZenonT(40) DEF TraceeGone, Tracee, KEnter, KReturn, KFork, KSignal,
       KAttachStop, KDie, vars, history
<1>5. ~InitialWait /\ ~Setup /\ ~(\E p \in Pids : Wait(p))
    BY Zenon DEF InitialWait, Setup, Wait
<1> QED
    BY <1>2, <1>3, <1>4, <1>5, Zenon DEF Next, Tracer, Finished

\* Whatever signal a tracee stops for, the loop hands it back, SIGTRAP excepted.
THEOREM OnlyTrapIsEaten ==
    ASSUME RoomForAll
    PROVE  Spec => OnlyTrapEaten
<1>1. IInv /\ [Next]_vars => [pc = "handle" => lost' \subseteq lost \cup {"SIGTRAP"}]_vars
    BY HandlerLoses
<1> QED
    BY <1>1, IInvHolds, PTL DEF Spec, OnlyTrapEaten

-----------------------------------------------------------------------------
(***************************************************************************)
(* The -c table: what the exit-stops fold into it, module SummaryTracer.   *)
(***************************************************************************)
\* The calls accounted to a name are the calls of that name that ended, if the
\* filter accepts it; both are counters.
AccountInv ==
    /\ totals = [n \in Names |-> totals[n]] /\ ended \in [Names -> Nat]
    /\ \A n \in Names : totals[n].calls \in Nat
    /\ AccountedToOwnName

\* A step of the loop under -c is a step of the loop, or one of print_summary.
LEMMA SummaryStepIsLoopStep == CNext \/ UNCHANGED allVars => [Next]_vars
BY ZenonT(40) DEF CNext, CLoop, CExitStop, Other, PrintTable, CTracee, CFinished, allVars,
   Next, Tracer

\* With -c the loop handles the same stops in the same way.
LEMMA SummaryModeKeepsLoop == CSpec => Spec
<1>1. CInit => Init
    BY Zenon DEF CInit
<1> QED
    BY <1>1, SummaryStepIsLoopStep, PTL DEF CSpec, Spec

\* The exit-stop accounts a call that passed the filter under the name the kernel
\* ran, and no other call.
LEMMA AccountFacts ==
    ASSUME IInv, CExitStop
    PROVE  /\ cur.pid \in Pids /\ kname[cur.pid] \in Names
           /\ \/ kname[cur.pid] \notin Allowed /\ UNCHANGED summary
              \/ /\ kname[cur.pid] \in Allowed
                 /\ \E failed \in BOOLEAN, dt \in Elapsed :
                       Sum!Fold(kname[cur.pid], failed, dt)
<1>1. /\ cur.pid \in Pids /\ life[cur.pid] = "stopped" /\ kname[cur.pid] \in Names
      /\ tracees[cur.pid].in_syscall
    BY IInvFacts, ExitEffect, Zenon DEF CExitStop
<1>2. SavedFor(tracees[cur.pid], kname[cur.pid])
    BY <1>1, IInvFacts, Zenon DEF SavedStateIsOwn, Alive
<1> QED
    BY <1>1, <1>2, Zenon DEF CExitStop, Account, SavedFor

\* Under -c the loop drives the table as module Summary allows: calls are folded
\* in while it counts, and print_summary runs once the loop is over.
LEMMA SummaryStep ==
    ASSUME IInv, CNext \/ UNCHANGED allVars
    PROVE  [Sum!SumNext]_(Sum!sumVars)
<1>1. CASE CExitStop
    <2>1. UNCHANGED summary \/ \E n \in Names, failed \in BOOLEAN, dt \in Elapsed :
                                   Sum!Fold(n, failed, dt)
        BY <1>1, AccountFacts, Zenon
    <2> QED
        BY <2>1, Zenon DEF Sum!SumNext, Sum!sumVars, summary
<1>2. CASE PrintTable
    BY <1>2, Zenon DEF PrintTable, Sum!SumNext
<1>3. CASE UNCHANGED summary
    BY <1>3, Zenon DEF summary, Sum!sumVars
<1> QED
    BY <1>1, <1>2, <1>3, Zenon DEF CNext, CLoop, CTracee, CFinished, allVars

\* run_tracer under -c implements Summary: the rows are filled and sorted as that
\* module says, whatever the interleaving of the tracees.
THEOREM SummaryModeImplementsSummary ==
    ASSUME RoomForAll
    PROVE  CSpec => Sum!SumSpec
<1>1. CInit => Sum!SumInit
    BY Zenon DEF CInit
<1> QED
    BY <1>1, SummaryModeKeepsLoop, IInvHolds, SummaryStep, PTL DEF CSpec, Sum!SumSpec

\* Nothing has ended when run_tracer is entered.
LEMMA AccountInvInit == CInit => AccountInv
<1> SUFFICES ASSUME CInit PROVE AccountInv
    OBVIOUS
<1>1. /\ totals = [n \in Names |-> [calls |-> 0, errors |-> 0, time |-> 0]]
      /\ ended = [n \in Names |-> 0]
    BY Zenon DEF CInit, Sum!SumInit, Sum!Zero
<1> QED
    BY <1>1 DEF AccountInv, AccountedToOwnName

\* Every step keeps AccountInv: an exit-stop adds one to both sides.
LEMMA AccountInvStep ==
    ASSUME IInv, AccountInv, CNext \/ UNCHANGED allVars
    PROVE  AccountInv'
<1>1. CASE CExitStop
    <2> DEFINE k == kname[cur.pid]
    <2>1. k \in Names /\ ended' = [ended EXCEPT ![k] = @ + 1]
        BY <1>1, AccountFacts, Zenon DEF CExitStop
    <2>2. CASE k \notin Allowed /\ UNCHANGED summary
        <3>1. totals' = totals
            BY <2>2, Zenon DEF summary
        <3> QED
            BY <2>1, <2>2, <3>1 DEF AccountInv, AccountedToOwnName
    <2>3. CASE k \in Allowed /\ \E failed \in BOOLEAN, dt \in Elapsed : Sum!Fold(k, failed, dt)
        <3>1. PICK failed \in BOOLEAN, dt \in Elapsed :
                  totals' = [totals EXCEPT ![k] = Sum!Plus(totals[k], failed, dt)]
            BY <2>3, Zenon DEF Sum!Fold
        <3>2. Sum!Plus(totals[k], failed, dt).calls = totals[k].calls + 1
            BY DEF Sum!Plus
        <3> DEFINE S == Sum!Plus(totals[k], failed, dt)
        <3> HIDE DEF S, k
        <3>3. /\ totals' = [n \in Names |-> totals'[n]]
              /\ \A n \in Names : totals'[n] = IF n = k THEN S ELSE totals[n]
            BY <2>1, <3>1, Zenon DEF AccountInv, S
        <3>4. S.calls = totals[k].calls + 1
            BY <3>2, Zenon DEF S
        <3>5. \A n \in Names : totals'[n].calls = IF n = k THEN totals[n].calls + 1
                                                           ELSE totals[n].calls
            BY <3>3, <3>4, Zenon
        <3>6. /\ ended' \in [Names -> Nat]
              /\ \A n \in Names : ended'[n] = IF n = k THEN ended[n] + 1 ELSE ended[n]
            BY <2>1 DEF AccountInv
        <3>7. \A n \in Names : totals'[n].calls \in Nat
            BY <3>5 DEF AccountInv
        <3>8. AccountedToOwnName'
            BY <2>1, <2>3, <3>5, <3>6 DEF AccountInv, AccountedToOwnName
        <3> QED
            BY <3>3, <3>6, <3>7, <3>8, Zenon DEF AccountInv
    <2> QED
        BY <1>1, <2>2, <2>3, AccountFacts, Zenon
<1>2. CASE UNCHANGED <<totals, ended>>
    BY <1>2, Zenon DEF AccountInv, AccountedToOwnName
<1>3. CNext /\ ~CExitStop => UNCHANGED <<totals, ended>>
    BY ZenonT(40) DEF CNext, CLoop, PrintTable, CTracee, CFinished, allVars, summary,
       Sum!PrintSummary, Sum!StartPrint, Sum!Compare, Sum!Swap, Sum!Printed
<1> QED
    BY <1>1, <1>2, <1>3, Zenon DEF allVars, summary

\* Under -c every call that ends is accounted to the syscall the kernel ran for
\* it, once, if it passed the filter.
THEOREM CallsAccountedToOwnName ==
    ASSUME RoomForAll
    PROVE  CSpec => []AccountedToOwnName
<1>1. CSpec => []AccountInv
    BY SummaryModeKeepsLoop, IInvHolds, AccountInvInit, AccountInvStep, PTL DEF CSpec
<1> QED
    BY <1>1, PTL DEF AccountInv
=============================================================================
