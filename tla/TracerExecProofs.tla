-------------------------- MODULE TracerExecProofs --------------------------
(***************************************************************************)
(* Proofs about TracerExec, for any number of processes and threads: what  *)
(* an execve that run_tracer is not told of can disturb.                   *)
(***************************************************************************)
EXTENDS TracerExec, TracerProofs

USE TraceeMapAssumption, TracerAssumption, ExecAssumption

\* A thread of p's group took over the leader's pid.
Disturbed(p) == \E q \in vanished : tgid[q] = tgid[p]

\* A leader is not reaped while a thread of its group is left, and a tid that an
\* execve took away belonged to no leader.
GroupInv ==
    /\ tgid \in [Pids -> Pids] /\ vanished \subseteq Pids
    /\ \A p \in Pids : tgid[tgid[p]] = tgid[p]
    /\ \A p \in Pids : life[p] = "unborn" => tgid[p] = p
    /\ \A p \in Pids : life[tgid[p]] = "unborn" => life[p] = "unborn"
    /\ \A p \in Pids : life[tgid[p]] = "reaped" => life[p] = "reaped"
    /\ \A p \in vanished : life[p] = "reaped" /\ tgid[p] # p
    /\ pc \in {"start", "setup"} => vanished = {}
    /\ pc = "handle" /\ cur.status = "dead" => cur.pid \notin vanished

\* active_count is too high by the tids that vanished.
ExecCountLaw == Counting => Surplus = Cardinality(vanished)

\* The inductive invariant: the order of Tracer, and the PidInv of every tracee
\* outside the groups whose leader was replaced.
ExecInv ==
    /\ IF outcome = "no_tracees" THEN pc = "done" ELSE OrderInv /\ EventInv
    /\ life \in [Pids -> Lives] /\ active_count \in Nat /\ announced \subseteq Born
    /\ GroupInv /\ ExecCountLaw
    /\ \A p \in Pids : Disturbed(p) \/ PidInv(p)

\* The inductive invariant holds when run_tracer is entered.
LEMMA ExecInvInit == XInit => ExecInv
<1> SUFFICES ASSUME XInit PROVE ExecInv
    OBVIOUS
<1>1. IInv /\ EventInv /\ outcome = "none" /\ pc = "start"
    BY InitEstablishesIInv, EventInvInit, Zenon DEF XInit, Init
<1>2. GroupInv
    BY Zenon DEF XInit, Init, GroupInv
<1>3. ExecCountLaw
    BY <1>1, Zenon DEF ExecCountLaw, Counting
<1> QED
    BY <1>1, <1>2, <1>3, Zenon DEF ExecInv, IInv, OrderInv, TypeOK, EventInv

\* A step that leaves the groups alone, revives nobody and reaps no leader before
\* its threads keeps GroupInv.
LEMMA GroupKept ==
    ASSUME GroupInv, UNCHANGED xvars,
           \A q \in Pids : life'[q] = "unborn" <=> life[q] = "unborn",
           \A q \in Pids : life[q] = "reaped" => life'[q] = "reaped",
           \A q \in Pids : life'[tgid[q]] = "reaped" => life'[q] = "reaped",
           pc' \in {"start", "setup"} => pc \in {"start", "setup"},
           pc' = "handle" /\ cur'.status = "dead" => cur'.pid \notin vanished
    PROVE  GroupInv'
BY Zenon DEF GroupInv, xvars

\* What PTRACE_SYSCALL leaves alone.
LEMMA ResumeKeepsGroup ==
    ASSUME GroupInv, UNCHANGED xvars, NEW p \in Pids, OnlyResumed(p), pc' \in {"wait", "done"}
    PROVE  GroupInv'
<1>1. \A q \in Pids : /\ life'[q] = "unborn" <=> life[q] = "unborn"
                      /\ life'[q] = "reaped" <=> life[q] = "reaped"
    BY Zenon DEF OnlyResumed
<1>2. \A q \in Pids : tgid[q] \in Pids /\ (life[tgid[q]] = "reaped" => life[q] = "reaped")
    BY Zenon DEF GroupInv
<1> QED
    BY <1>1, <1>2, GroupKept, Zenon

\* A step of Tracer that TracerExec takes over as it is.
PlainStep ==
    \/ InitialWait \/ Setup
    \/ \E p \in Pids : Wait(p) /\ Reportable(p)
    \/ TraceeGone \/ ForkEvent \/ SignalStop
    \/ SyscallStopSkipped \/ EntryStop \/ ExitStop
    \/ \E p \in Pids :
          \/ \E n \in Names : KEnter(p, n)
          \/ KReturn(p) \/ KAttachStop(p) \/ KDie(p) \/ KSignal(p, "exec")
    \/ UNCHANGED vars

\* A step of Tracer that does not create a process keeps GroupInv: waitpid reports
\* a leader after its threads.
LEMMA GroupStep ==
    ASSUME RoomForAll, OrderInv, EventInv, GroupInv, UNCHANGED xvars, PlainStep
    PROVE  GroupInv'
<1> USE DEF OrderInv
<1>0. \A q \in Pids : tgid[q] \in Pids /\ (life[tgid[q]] = "reaped" => life[q] = "reaped")
    BY Zenon DEF GroupInv
<1>1. ASSUME NEW p \in Pids,
             \/ \E n \in Names : KEnter(p, n)
             \/ KReturn(p) \/ KAttachStop(p) \/ KDie(p) \/ KSignal(p, "exec")
      PROVE  GroupInv'
    <2>1. \A q \in Pids : /\ life'[q] = "unborn" <=> life[q] = "unborn"
                          /\ life'[q] = "reaped" <=> life[q] = "reaped"
        BY <1>1 DEF KEnter, KReturn, KSignal, KAttachStop, KDie, StopFor, Runs, TypeOK
    <2>2. UNCHANGED <<pc, cur>>
        BY <1>1, Zenon DEF KEnter, KReturn, KSignal, KAttachStop, KDie, loop
    <2> QED
        BY <1>0, <2>1, <2>2, GroupKept, Zenon DEF GroupInv
<1>2. CASE InitialWait
    <2>1. /\ pc = "start" /\ pc' = "setup" /\ life[Root] \in {"stopped", "zombie"}
          /\ \A q \in Pids : q # Root => life'[q] = "unborn" /\ life[q] = "unborn" /\ tgid[q] = q
          /\ life'[Root] # "unborn"
        <3>1. /\ pc = "start" /\ pc' = "setup" /\ life[Root] \in {"stopped", "zombie"}
              /\ life' = [life EXCEPT ![Root] = IF @ = "zombie" THEN "reaped" ELSE @]
            BY <1>2, Zenon DEF InitialWait
        <3>2. \A q \in Pids : q # Root => life[q] = "unborn" /\ tgid[q] = q
            BY <3>1, Zenon DEF EventInv, GroupInv
        <3> QED
            BY <3>1, <3>2, ZenonT(30) DEF TypeOK
    <2>2. tgid[Root] = Root
        BY <1>0, <2>1, Zenon DEF GroupInv
    <2> QED
        BY <2>1, <2>2, GroupKept, Zenon
<1>3. ASSUME NEW p \in Pids, Wait(p), Reportable(p) PROVE GroupInv'
    <2>1. /\ \A q \in Pids : q # p => life'[q] = life[q]
          /\ life'[p] = IF life[p] = "zombie" THEN "reaped" ELSE life[p]
          /\ life[p] \in {"stopped", "zombie"}
          /\ pc' = "handle" /\ cur'.pid = p
        BY <1>3, Zenon DEF Wait, TypeOK
    <2>2. p \notin vanished
        BY <2>1, Zenon DEF GroupInv
    <2>3. ASSUME NEW q \in Pids, life'[tgid[q]] = "reaped" PROVE life'[q] = "reaped"
        <3>1. CASE tgid[q] # p
            BY <1>0, <2>1, <2>3, <3>1, Zenon
        <3>2. CASE tgid[q] = p
            <4>1. tgid[p] = p /\ life[p] = "zombie"
                BY <2>1, <2>3, <3>2, Zenon DEF GroupInv
            <4>2. life[q] # "unborn"
                BY <2>1, <3>2, Zenon DEF GroupInv
            <4>3. q = p \/ q \in Group(p) \ {p}
                BY <3>2, <4>1, <4>2, Zenon DEF Group
            <4> QED
                BY <1>3, <2>1, <4>1, <4>3, Zenon DEF Reportable
        <3> QED
            BY <3>1, <3>2, Zenon
    <2>4. \A q \in Pids : /\ life'[q] = "unborn" <=> life[q] = "unborn"
                          /\ life[q] = "reaped" => life'[q] = "reaped"
        BY <2>1, Zenon
    <2> QED
        BY <2>1, <2>2, <2>3, <2>4, GroupKept, Zenon
<1>4. CASE Setup
    BY <1>4, ResumeFacts, ResumeKeepsGroup, Zenon DEF Setup
<1>5. CASE TraceeGone \/ UNCHANGED vars
    <2>1. UNCHANGED life /\ (pc' \in {"wait", "done"} \/ UNCHANGED <<pc, cur>>)
        BY <1>5, Zenon DEF TraceeGone, kernel, vars, loop
    <2> QED
        BY <1>0, <2>1, GroupKept, Zenon DEF GroupInv
<1>6. CASE ForkEvent \/ SignalStop \/ SyscallStopSkipped \/ EntryStop \/ ExitStop
    <2>1. cur.pid \in Pids /\ OnlyResumed(cur.pid)
        BY <1>6, ForkEventFacts, AdoptionFacts, EntryEffect, ExitEffect, Zenon
    <2>2. pc' = "wait"
        BY ONLY <1>6, Zenon DEF ForkEvent, SignalStop, SyscallStopSkipped, EntryStop, ExitStop
    <2> QED
        BY <2>1, <2>2, ResumeKeepsGroup, Zenon
<1> QED
    BY <1>1, <1>2, <1>3, <1>4, <1>5, <1>6, Zenon DEF PlainStep

\* A new process starts a group or joins its parent's, whose leader is not gone.
LEMMA ThreadKeepsGroup ==
    ASSUME OrderInv, EventInv, GroupInv, NEW p \in Pids, NEW c \in Pids, KThread(p, c)
    PROVE  GroupInv' /\ \A q \in Pids : Disturbed(q) => Disturbed(q)'
<1> USE DEF OrderInv
<1>1. /\ life[p] = "running" /\ life[c] = "unborn" /\ c # p
      /\ life'[p] = "stopped" /\ life'[c] = "running"
      /\ \A q \in Pids : q # p /\ q # c => life'[q] = life[q]
      /\ UNCHANGED <<pc, cur, vanished>>
    BY Zenon DEF KThread, KFork, Runs, loop, TypeOK
<1>2. /\ tgid[p] \in Pids /\ tgid[c] = c /\ tgid[p] # c
      /\ life[tgid[p]] \notin {"unborn", "reaped"} /\ tgid[tgid[p]] = tgid[p]
      /\ \A q \in Pids : tgid[q] = c => q = c
    <2>1. \A q \in Pids : tgid[q] = c => q = c
        BY <1>1, ZenonT(40) DEF GroupInv
    <2>2. tgid[p] \in Pids /\ tgid[c] = c /\ tgid[tgid[p]] = tgid[p]
        BY <1>1, Zenon DEF GroupInv
    <2>3. life[tgid[p]] # "unborn" /\ life[tgid[p]] # "reaped"
        BY <1>1, Zenon DEF GroupInv
    <2> QED
        BY <1>1, <2>1, <2>2, <2>3, Zenon
<1>3. /\ tgid' \in [Pids -> Pids] /\ tgid'[c] \in {tgid[p], c}
      /\ \A q \in Pids : q # c => tgid'[q] = tgid[q]
    <2>1. \/ tgid' = [tgid EXCEPT ![c] = tgid[p]]
          \/ tgid' = [tgid EXCEPT ![c] = c]
        BY Zenon DEF KThread
    <2>2. tgid \in [Pids -> Pids]
        BY Zenon DEF GroupInv
    <2> QED
        BY <1>2, <2>1, <2>2, Zenon
<1>4. vanished \subseteq Pids /\ c \notin vanished /\ p \notin vanished
    BY <1>1, Zenon DEF GroupInv
<1>5. ASSUME NEW q \in Pids
      PROVE  /\ tgid'[tgid'[q]] = tgid'[q]
             /\ life'[q] = "unborn" => tgid'[q] = q
             /\ life'[tgid'[q]] = "unborn" => life'[q] = "unborn"
             /\ life'[tgid'[q]] = "reaped" => life'[q] = "reaped"
    <2>1. CASE q = c
        <3>1. CASE tgid'[c] = c
            BY <1>1, <2>1, <3>1, Zenon
        <3>2. CASE tgid'[c] = tgid[p]
            <4>1. tgid'[tgid[p]] = tgid[p] /\ life'[tgid[p]] \notin {"unborn", "reaped"}
                BY <1>1, <1>2, <1>3, Zenon
            <4> QED
                BY <1>1, <2>1, <3>2, <4>1, Zenon
        <3> QED
            BY <1>3, <3>1, <3>2, Zenon
    <2>2. CASE q # c
        <3>1. /\ tgid'[q] = tgid[q] /\ tgid[q] \in Pids /\ tgid[q] # c
              /\ tgid[tgid[q]] = tgid[q]
              /\ life[q] = "unborn" => tgid[q] = q
              /\ life[tgid[q]] = "unborn" => life[q] = "unborn"
              /\ life[tgid[q]] = "reaped" => life[q] = "reaped"
            BY <1>2, <1>3, <2>2, Zenon DEF GroupInv
        <3> QED
            BY <1>1, <1>3, <2>2, <3>1, Zenon
    <2> QED
        BY <2>1, <2>2, Zenon
<1>6. \A v \in vanished : life'[v] = "reaped" /\ tgid'[v] # v /\ tgid'[v] = tgid[v]
    BY <1>1, <1>3, <1>4, ZenonT(30) DEF GroupInv
<1>7. GroupInv'
    BY <1>1, <1>3, <1>4, <1>5, <1>6, Zenon DEF GroupInv
<1>8. ASSUME NEW q \in Pids, Disturbed(q) PROVE Disturbed(q)'
    <2>1. q # c
        BY <1>2, <1>4, <1>8, Zenon DEF Disturbed
    <2> QED
        BY <1>1, <1>3, <1>6, <1>8, <2>1, Zenon DEF Disturbed
<1> QED
    BY <1>7, <1>8, Zenon

\* What a successful execve does, process by process.
LEMMA ExecEffect ==
    ASSUME OrderInv, EventInv, GroupInv, NEW p \in Pids, KExec(p)
    PROVE  LET leader == tgid[p]
           IN  /\ leader \in Pids /\ tgid[leader] = leader
               /\ life[p] = "running" /\ life[leader] \notin {"unborn", "reaped"}
               /\ p \notin vanished /\ kin[p] /\ kname[p] = Exec
               /\ pc \in {"wait", "handle"} /\ outcome = "none"
               /\ life'[leader] = "running" /\ stop'[leader] = "none"
               /\ p # leader => life'[p] = "reaped" /\ stop'[p] = "none" /\ ~kin'[p]
               /\ kin'[leader] /\ kname'[leader] = Exec
               /\ evchild'[leader] = NoPid
               /\ \A q \in Pids : q # leader =>
                      /\ kname'[q] = kname[q] /\ evchild'[q] = evchild[q]
                      /\ q # p => kin'[q] = kin[q]
               /\ \A q \in Pids : q # leader /\ q # p =>
                      \/ /\ life'[q] = life[q] /\ stop'[q] = stop[q]
                         /\ tgid[q] = leader => ~Alive(q)
                      \/ /\ tgid[q] = leader /\ Alive(q)
                         /\ life'[q] = "zombie" /\ stop'[q] = "none"
               /\ UNCHANGED <<tracees, pc, cur, active_count, call_count, outcome,
                              line, announced, refused, lost, calls, signals, tgid>>
               /\ vanished' = vanished \cup ({p} \ {leader})
<1> DEFINE leader == tgid[p]
           ended == {q \in Group(p) \ {p, leader} : Alive(q)}
                        \cup (IF p # leader THEN {leader} ELSE {})
<1> USE DEF OrderInv
<1>1. /\ Runs(p) /\ kin[p] /\ kname[p] = Exec /\ Group(p) # {p}
      /\ life' = [q \in Pids |->
                      CASE q = leader -> "running"
                        [] q = p /\ p # leader -> "reaped"
                        [] q \in ended \ {leader} -> "zombie"
                        [] OTHER -> life[q]]
      /\ stop' = [q \in Pids |-> IF q \in ended THEN "none" ELSE stop[q]]
      /\ kin' = [kin EXCEPT ![p] = FALSE, ![leader] = TRUE]
      /\ kname' = [kname EXCEPT ![leader] = Exec]
      /\ evchild' = [evchild EXCEPT ![leader] = NoPid]
      /\ vanished' = vanished \cup ({p} \ {leader})
      /\ UNCHANGED <<calls, signals, loop, history, tgid>>
    BY Zenon DEF KExec
<1>2. life[p] = "running" /\ stop[p] = "none" /\ pc # "done"
    BY <1>1, Zenon DEF Runs, KernelInv
<1>3. /\ leader \in Pids /\ tgid[leader] = leader
      /\ life[leader] \notin {"unborn", "reaped"} /\ p \notin vanished
    BY <1>2, Zenon DEF GroupInv
<1>4. pc \in {"wait", "handle"} /\ outcome = "none"
    <2>1. p \in Group(p)
        BY <1>2, Zenon DEF Group
    <2>2. PICK q \in Group(p) : q # p
        BY <1>1, <2>1, Zenon
    <2>3. q \in Pids /\ life[q] # "unborn"
        BY Zenon DEF Group
    <2>4. pc \notin {"start", "setup"}
        BY <1>2, <2>2, <2>3, Zenon DEF EventInv
    <2> QED
        BY <1>2, <2>4, Zenon DEF EventInv, TypeOK
<1>5. ASSUME NEW q \in Pids, q # leader, q # p
      PROVE  q \in ended <=> tgid[q] = leader /\ Alive(q)
    BY <1>5, Zenon DEF Group, Alive
<1>6. (p # leader => leader \in ended) /\ p \notin ended \ {leader} /\ (p = leader => p \notin ended)
    BY Zenon
<1>7. /\ life'[leader] = "running" /\ stop'[leader] = "none"
      /\ p # leader => life'[p] = "reaped" /\ stop'[p] = "none" /\ ~kin'[p]
    <2> HIDE DEF ended, leader
    <2>1. life'[leader] = "running" /\ (p # leader => life'[p] = "reaped")
        <3>1. life'[leader] = CASE leader = leader -> "running"
                                [] leader = p /\ p # leader -> "reaped"
                                [] leader \in ended \ {leader} -> "zombie"
                                [] OTHER -> life[leader]
            BY <1>1, <1>3, Zenon
        <3>2. life'[p] = CASE p = leader -> "running"
                           [] p = p /\ p # leader -> "reaped"
                           [] p \in ended \ {leader} -> "zombie"
                           [] OTHER -> life[p]
            BY <1>1, Zenon
        <3>3. life'[leader] = "running"
            BY ONLY <3>1
        <3> QED
            BY ONLY <1>6, <3>2, <3>3
    <2>2. stop'[leader] = "none" /\ (p # leader => stop'[p] = "none")
        BY <1>1, <1>2, <1>3, <1>6, Zenon
    <2>3. p # leader => ~kin'[p]
        BY <1>1, <1>3, Zenon DEF TypeOK
    <2> QED
        BY <2>1, <2>2, <2>3, Zenon
<1>8. /\ kin'[leader] /\ kname'[leader] = Exec /\ evchild'[leader] = NoPid
      /\ \A q \in Pids : q # leader => /\ kname'[q] = kname[q] /\ evchild'[q] = evchild[q]
                                       /\ q # p => kin'[q] = kin[q]
    BY <1>1, <1>3, Zenon DEF TypeOK
<1>9. ASSUME NEW q \in Pids, q # leader, q # p
      PROVE  \/ /\ life'[q] = life[q] /\ stop'[q] = stop[q]
                /\ tgid[q] = leader => ~Alive(q)
             \/ /\ tgid[q] = leader /\ Alive(q)
                /\ life'[q] = "zombie" /\ stop'[q] = "none"
    <2> HIDE DEF ended
    <2>1. CASE q \in ended
        BY <1>1, <1>5, <1>9, <2>1, Zenon
    <2>2. CASE q \notin ended
        BY <1>1, <1>5, <1>9, <2>2, Zenon
    <2> QED
        BY <2>1, <2>2, Zenon
<1> QED
    BY <1>1, <1>2, <1>3, <1>4, <1>7, <1>8, <1>9, Zenon DEF loop, history

\* An execve keeps the types.
LEMMA ExecKeepsType ==
    ASSUME OrderInv, EventInv, GroupInv, NEW p \in Pids, KExec(p)
    PROVE  TypeOK'
<1> DEFINE leader == tgid[p]
           ended == {q \in Group(p) \ {p, leader} : Alive(q)}
                        \cup (IF p # leader THEN {leader} ELSE {})
           cut == {q \in ended : stop[q] = "syscall" /\ kin[q]}
<1> USE DEF OrderInv
<1>1. /\ leader \in Pids
      /\ UNCHANGED <<tracees, pc, cur, active_count, call_count, outcome,
                     line, announced, refused, lost, calls, signals>>
    BY ExecEffect, Zenon
<1>2. life' \in [Pids -> Lives]
    <2>1. life' = [q \in Pids |-> life'[q]]
        BY Zenon DEF KExec
    <2>2. ASSUME NEW q \in Pids PROVE life'[q] \in Lives
        <3>1. life'[q] \in {"running", "reaped", "zombie"} \/ life'[q] = life[q]
            BY ExecEffect, ZenonT(40)
        <3> QED
            BY <3>1, Zenon DEF TypeOK, Lives
    <2> QED
        BY <2>1, <2>2, Zenon
<1>3. stop' \in [Pids -> StopKinds \cup {"none"}]
    <2>1. stop' = [q \in Pids |-> stop'[q]]
        BY Zenon DEF KExec
    <2>2. ASSUME NEW q \in Pids PROVE stop'[q] \in StopKinds \cup {"none"}
        <3>1. stop'[q] = "none" \/ stop'[q] = stop[q]
            BY ExecEffect, ZenonT(40)
        <3> QED
            BY <3>1, Zenon DEF TypeOK
    <2> QED
        BY <2>1, <2>2, Zenon
<1>4. /\ kin' \in [Pids -> BOOLEAN] /\ attaching' \in [Pids -> BOOLEAN]
      /\ kname' \in [Pids -> Names \cup {NoName}]
      /\ evchild' \in [Pids -> Pids \cup {NoPid}]
    <2>1. /\ kin' = [kin EXCEPT ![p] = FALSE, ![leader] = TRUE]
          /\ kname' = [kname EXCEPT ![leader] = Exec]
          /\ evchild' = [evchild EXCEPT ![leader] = NoPid]
          /\ attaching' = [attaching EXCEPT ![leader] = FALSE]
        BY Zenon DEF KExec
    <2> QED
        BY <1>1, <2>1, Zenon DEF TypeOK
<1>5. missed' \in Nat
    <2>1. missed' = missed + Cardinality(cut) /\ missed \in Nat
        BY Zenon DEF KExec, TypeOK
    <2>2. cut \subseteq Pids
        BY <1>1, Zenon DEF Group
    <2> HIDE DEF cut
    <2>3. Cardinality(cut) \in Nat
        BY <2>2, FS_Subset, FS_CardinalityType, Zenon
    <2> QED
        BY <2>1, <2>3
<1>6. /\ tracees' \in [Pids -> TraceeState]
      /\ pc' \in {"start", "setup", "wait", "handle", "done"}
      /\ cur' \in [pid : Pids, status : StopKinds \cup {"none", "dead"}]
      /\ active_count' \in Nat /\ call_count' \in Nat
      /\ outcome' \in {"none", "ptrace_failed", "exited", "all_exited"}
      /\ line' \in [Pids -> Line] /\ announced' \subseteq Pids /\ refused' \subseteq Pids
      /\ lost' \subseteq Genuine /\ calls' \in Nat /\ signals' \in Nat
    BY <1>1, Zenon DEF TypeOK
<1> QED
    BY <1>2, <1>3, <1>4, <1>5, <1>6, Zenon DEF TypeOK

\* An execve keeps the order and the groups: no leader is gone whose thread can
\* still call it.
LEMMA ExecKeepsOrder ==
    ASSUME OrderInv, EventInv, GroupInv, NEW p \in Pids, KExec(p)
    PROVE  OrderInv' /\ EventInv' /\ GroupInv'
<1> DEFINE leader == tgid[p]
<1> USE DEF OrderInv
<1>1. /\ leader \in Pids /\ tgid[leader] = leader /\ tgid[p] = leader
      /\ life[p] = "running" /\ life[leader] \notin {"unborn", "reaped"}
      /\ p \notin vanished
      /\ life'[leader] = "running" /\ stop'[leader] = "none"
      /\ p # leader => life'[p] = "reaped" /\ stop'[p] = "none" /\ ~kin'[p]
      /\ kin'[leader] /\ kname'[leader] = Exec
      /\ evchild'[leader] = NoPid
      /\ pc \in {"wait", "handle"} /\ outcome = "none"
    BY ExecEffect, Zenon
<1>2. /\ UNCHANGED <<tracees, pc, cur, active_count, outcome, line, announced, tgid>>
      /\ vanished' = vanished \cup ({p} \ {leader})
    BY ExecEffect, Zenon
<1>3. /\ \A q \in Pids : q # leader =>
             /\ kname'[q] = kname[q] /\ evchild'[q] = evchild[q]
             /\ q # p => kin'[q] = kin[q]
      /\ \A q \in Pids : q # leader /\ q # p =>
             \/ life'[q] = life[q] /\ stop'[q] = stop[q]
             \/ Alive(q) /\ life'[q] = "zombie" /\ stop'[q] = "none"
    BY ExecEffect, ZenonT(80)
<1> HIDE DEF leader
<1>4. ASSUME NEW q \in Pids
      PROVE  /\ life'[q] = "unborn" <=> life[q] = "unborn"
             /\ life'[q] = "reaped" <=> life[q] = "reaped" \/ (q = p /\ p # leader)
             /\ stop'[q] = "none" <=> life'[q] # "stopped"
             /\ stop'[q] # "none" => stop'[q] = stop[q] /\ q # leader /\ q # p
    <2>1. CASE q = leader
        BY <1>1, <2>1, Zenon
    <2>2. CASE q = p /\ p # leader
        BY <1>1, <2>2, Zenon
    <2>3. CASE q # p /\ q # leader
        <3>1. CASE life'[q] = life[q] /\ stop'[q] = stop[q]
            BY <2>3, <3>1, Zenon DEF KernelInv
        <3>2. CASE Alive(q) /\ life'[q] = "zombie" /\ stop'[q] = "none"
            BY <2>3, <3>2, Zenon DEF Alive
        <3> QED
            BY <1>3, <2>3, <3>1, <3>2, Zenon
    <2> QED
        BY <2>1, <2>2, <2>3, Zenon
<1>5. KernelInv'
    <2>1. ASSUME NEW q \in Pids
          PROVE  /\ life'[q] = "unborn" =>
                        ~kin'[q] /\ ~tracees'[q].active /\ line'[q].st = "none"
                 /\ kin'[q] \/ stop'[q] = "syscall" => kname'[q] \in Names
                 /\ evchild'[q] \in Pids => life'[evchild'[q]] # "unborn"
                 /\ stop'[q] = "event" => evchild'[q] \in Pids
        <3>1. CASE q = leader
            BY <1>1, <1>4, <3>1, Zenon
        <3>2. CASE q # leader
            <4>1. /\ kname'[q] = kname[q] /\ evchild'[q] = evchild[q]
                  /\ UNCHANGED <<tracees, line>> /\ (kin'[q] => kin[q])
                  /\ stop'[q] \in {"syscall", "event"} => stop'[q] = stop[q]
                  /\ life'[q] = "unborn" => life[q] = "unborn"
                BY <1>1, <1>2, <1>3, <1>4, <3>2, Zenon
            <4>2. evchild[q] \in Pids => life'[evchild[q]] # "unborn"
                BY <1>4, Zenon DEF KernelInv
            <4> QED
                BY <4>1, <4>2, Zenon DEF KernelInv
        <3> QED
            BY <3>1, <3>2, Zenon
    <2> QED
        BY <1>4, <2>1, Zenon DEF KernelInv
<1>6. CurInv'
    <2>1. cur.pid \in Pids
        BY Zenon DEF TypeOK
    <2>2. pc = "handle" /\ cur.status = "event" => cur.pid # leader
        <3>1. cur = [pid |-> cur.pid, status |-> cur.status]
            BY Zenon DEF TypeOK
        <3> QED
            BY <3>1, Zenon DEF KExec, leader
    <2>3. pc = "handle" /\ cur.status = "event" =>
              /\ life'[cur.pid] \in {"stopped", "zombie", "reaped"}
              /\ life'[cur.pid] = "stopped" => stop'[cur.pid] = "event"
        BY <1>1, <1>3, <2>1, <2>2, Zenon DEF CurInv
    <2>4. pc = "handle" /\ cur.status = "syscall" => kname'[cur.pid] \in Names
        BY <1>1, <1>3, <2>1, Zenon DEF CurInv
    <2> QED
        BY <1>1, <1>2, <1>4, <2>1, <2>3, <2>4, Zenon DEF CurInv
<1>7. LoopInv' /\ TableInv'
    BY <1>2, Zenon DEF LoopInv, TableInv
<1>8. EventInv'
    <2>1. Born' = Born
        BY <1>4, Zenon DEF Born
    <2>2. \A q \in Pids : stop'[q] = "event" => stop[q] = "event" /\ evchild'[q] = evchild[q]
        BY <1>3, <1>4, Zenon
    <2>3. /\ \A q \in Pids : stop'[q] = "event" => evchild'[q] \notin announced'
          /\ \A q, r \in Pids :
                 stop'[q] = "event" /\ stop'[r] = "event" /\ evchild'[q] = evchild'[r] => q = r
        BY <1>2, <2>2, Zenon DEF EventInv
    <2> QED
        BY <1>1, <1>2, <2>1, <2>3, Zenon DEF EventInv
<1>9. GroupInv'
    <2>1. ASSUME NEW q \in Pids, life'[tgid[q]] = "reaped" PROVE life'[q] = "reaped"
        <3>1. tgid[q] \in Pids /\ tgid[tgid[q]] = tgid[q]
            BY Zenon DEF GroupInv
        <3>2. ~(tgid[q] = p /\ p # leader)
            BY <1>1, <3>1, Zenon
        <3>3. life[tgid[q]] = "reaped"
            BY <1>4, <2>1, <3>1, <3>2, Zenon
        <3> QED
            BY <1>4, <3>3, Zenon DEF GroupInv
    <2>2. \A v \in vanished' : v \in Pids /\ life'[v] = "reaped" /\ tgid[v] # v
        BY <1>1, <1>2, <1>4, Zenon DEF GroupInv
    <2>3. pc = "handle" /\ cur.status = "dead" => cur.pid \notin vanished'
        BY <1>1, <1>2, Zenon DEF CurInv, GroupInv
    <2>4. \A q \in Pids : /\ tgid[q] \in Pids /\ tgid[tgid[q]] = tgid[q]
                          /\ life'[q] = "unborn" => tgid[q] = q
                          /\ life'[tgid[q]] = "unborn" => life'[q] = "unborn"
        BY <1>4, Zenon DEF GroupInv
    <2>5. tgid' \in [Pids -> Pids] /\ vanished' \subseteq Pids
        BY <1>2, <2>2, Zenon DEF GroupInv
    <2> QED
        BY <1>1, <1>2, <2>1, <2>2, <2>3, <2>4, <2>5, Zenon DEF GroupInv
<1> QED
    BY <1>5, <1>6, <1>7, <1>8, <1>9, ExecKeepsType, Zenon

\* An execve by a thread that is not the leader adds one to the surplus and one to
\* the vanished; any other adds nothing.
LEMMA ExecKeepsCount ==
    ASSUME OrderInv, EventInv, GroupInv, ExecCountLaw, NEW p \in Pids, KExec(p)
    PROVE  ExecCountLaw'
<1> DEFINE leader == tgid[p]
<1> USE DEF OrderInv
<1>1. /\ life[p] = "running" /\ p \notin vanished
      /\ life[leader] # "reaped" /\ life'[leader] = "running"
      /\ p # leader => life'[p] = "reaped"
      /\ pc \in {"wait", "handle"} /\ outcome = "none"
      /\ UNCHANGED <<pc, cur, active_count, outcome, announced>>
      /\ vanished' = vanished \cup ({p} \ {leader})
    BY ExecEffect, ZenonT(40)
<1>2. \A q \in Pids : q # leader /\ q # p =>
          life'[q] = life[q] \/ (Alive(q) /\ life'[q] = "zombie")
    BY ExecEffect, ZenonT(40)
<1>3. \A q \in Pids : life'[q] = "reaped" <=> life[q] = "reaped" \/ (q = p /\ p # leader)
    BY <1>1, <1>2, Zenon DEF Alive
<1>4. Counting /\ Surplus = Cardinality(vanished) /\ active_count \in Nat
    BY <1>1, Zenon DEF Counting, ExecCountLaw, TypeOK
<1>5. /\ IsFiniteSet(announced) /\ Cardinality(announced) \in Nat
      /\ IsFiniteSet(Gone) /\ Cardinality(Gone) \in Nat
    BY CountedFinite, Zenon
<1>6. IsFiniteSet(vanished) /\ Cardinality(vanished) \in Nat
    BY FS_Subset, FS_CardinalityType, Zenon DEF GroupInv
<1>7. CASE p = leader
    <2>1. Gone' = Gone /\ vanished' = vanished
        BY <1>1, <1>3, <1>7, Zenon DEF Gone
    <2> QED
        BY <1>1, <1>4, <2>1, Zenon DEF ExecCountLaw, Surplus
<1>8. CASE p # leader
    <2>1. vanished' = vanished \cup {p}
        BY <1>1, <1>8, Zenon
    <2>2. pc = "handle" /\ cur.status = "dead" => cur.pid # p
        BY <1>1, Zenon DEF CurInv
    <2>3. Gone' = Gone \cup {p} /\ p \notin Gone
        BY <1>1, <1>3, <1>8, <2>2, Zenon DEF Gone
    <2>4. /\ Cardinality(Gone') = Cardinality(Gone) + 1
          /\ Cardinality(vanished') = Cardinality(vanished) + 1
        <3>1. Cardinality(Gone \cup {p}) = Cardinality(Gone) + 1
            BY <1>5, <2>3, FS_AddElement, Zenon
        <3>2. Cardinality(vanished \cup {p}) = Cardinality(vanished) + 1
            BY <1>1, <1>6, FS_AddElement, Zenon
        <3> QED
            BY <2>1, <2>3, <3>1, <3>2, Zenon
    <2> QED
        BY <1>1, <1>4, <1>5, <1>6, <2>4 DEF ExecCountLaw, Surplus
<1> QED
    BY <1>7, <1>8, Zenon

\* An execve leaves every tracee of another group alone, and disturbs its own only
\* when a thread replaces the leader.
LEMMA ExecKeepsPids ==
    ASSUME OrderInv, EventInv, GroupInv, NEW p \in Pids, KExec(p),
           NEW q \in Pids, Disturbed(q) \/ PidInv(q)
    PROVE  (Disturbed(q) \/ PidInv(q))'
<1> DEFINE leader == tgid[p]
<1> USE DEF OrderInv
<1>1. /\ leader \in Pids /\ tgid[leader] = leader
      /\ life[p] = "running" /\ kin[p] /\ kname[p] = Exec
      /\ life'[leader] = "running" /\ stop'[leader] = "none"
      /\ kin'[leader] /\ kname'[leader] = Exec
      /\ UNCHANGED <<tracees, pc, cur, tgid>>
      /\ vanished' = vanished \cup ({p} \ {leader})
    BY ExecEffect, ZenonT(40)
<1>2. q # leader /\ q # p =>
          /\ kname'[q] = kname[q] /\ kin'[q] = kin[q]
          /\ \/ /\ life'[q] = life[q] /\ stop'[q] = stop[q]
             \/ /\ tgid[q] = leader
                /\ life'[q] = "zombie" /\ stop'[q] = "none"
    <2>1. \A r \in Pids : r # leader /\ r # p =>
              /\ kname'[r] = kname[r] /\ kin'[r] = kin[r]
              /\ \/ life'[r] = life[r] /\ stop'[r] = stop[r]
                 \/ tgid[r] = leader /\ life'[r] = "zombie" /\ stop'[r] = "none"
        <3> HIDE DEF OrderInv
        <3>1. \A r \in Pids : r # leader /\ r # p =>
                  kname'[r] = kname[r] /\ kin'[r] = kin[r]
            BY ExecEffect, ZenonT(120)
        <3>2. \A r \in Pids : r # leader /\ r # p =>
                  \/ /\ life'[r] = life[r] /\ stop'[r] = stop[r]
                     /\ tgid[r] = leader => ~Alive(r)
                  \/ /\ tgid[r] = leader /\ Alive(r)
                     /\ life'[r] = "zombie" /\ stop'[r] = "none"
            BY ExecEffect, ZenonT(60)
        <3> QED
            BY <3>1, <3>2, Zenon
    <2> QED
        BY <2>1, Zenon
<1>3. CASE Disturbed(q)
    BY <1>1, <1>3, Zenon DEF Disturbed
<1>4. CASE tgid[q] = leader /\ p # leader
    BY <1>1, <1>4, Zenon DEF Disturbed
<1>5. CASE PidInv(q) /\ (tgid[q] # leader \/ p = leader)
    <2>1. CASE q = p
        <3>1. p = leader /\ stop[p] = "none"
            BY <1>1, <1>5, <2>1, Zenon DEF KernelInv
        <3> QED
            BY <1>1, <1>5, <2>1, <3>1, PidInvKept, Zenon
    <2>2. CASE q # p
        <3>1. q # leader
            BY <1>1, <1>5, <2>2, Zenon
        <3>2. CASE life'[q] = life[q] /\ stop'[q] = stop[q]
            BY <1>1, <1>2, <1>5, <2>2, <3>1, <3>2, PidInvKept, Zenon
        <3>3. CASE life'[q] = "zombie"
            BY <3>3, Zenon DEF PidInv, Fresh, InSync, OwnState, Alive
        <3> QED
            BY <1>2, <2>2, <3>1, <3>2, <3>3, Zenon
    <2> QED
        BY <2>1, <2>2, Zenon
<1> QED
    BY <1>3, <1>4, <1>5, Zenon

\* A step of the loop or of a process that is not an execve keeps the count.
LEMMA LoopKeepsCount ==
    ASSUME RoomForAll, OrderInv, EventInv, GroupInv, ExecCountLaw, [Next]_vars,
           UNCHANGED vanished
    PROVE  ExecCountLaw'
<1> SUFFICES ASSUME Counting' PROVE Surplus' = Cardinality(vanished)
    BY Zenon DEF ExecCountLaw
<1>1. Surplus' = IF Counting THEN Surplus ELSE 0
    BY SurplusStep, Zenon
<1>2. CASE Counting
    BY <1>1, <1>2, Zenon DEF ExecCountLaw
<1>3. CASE ~Counting
    <2>1. pc \in {"start", "setup"}
        <3>1. CASE pc = "done"
            <4>1. UNCHANGED <<pc, outcome>>
                BY <3>1, ZenonT(40) DEF Next, Tracer, Tracee, Finished, InitialWait, Setup, Wait,
                   TraceeGone, ForkEvent, SignalStop, SyscallStopSkipped, EntryStop, ExitStop,
                   KEnter, KReturn, KFork, KSignal, KAttachStop, KDie, Runs, vars, loop
            <4> QED
                BY <1>3, <4>1, Zenon DEF Counting
        <3>2. CASE pc # "done"
            BY <1>3, <3>2, Zenon DEF Counting, EventInv, OrderInv, TypeOK
        <3> QED
            BY <3>1, <3>2, Zenon
    <2>2. Cardinality(vanished) = 0
        BY <2>1, FS_EmptySet, Zenon DEF GroupInv
    <2> QED
        BY <1>1, <1>3, <2>2, Zenon
<1> QED
    BY <1>2, <1>3, Zenon

\* Every step of the loop and of the processes keeps the invariant.
LEMMA ExecInvStep ==
    ASSUME RoomForAll, ExecInv, [XNext]_<<vars, xvars>>
    PROVE  ExecInv'
<1>1. CASE UNCHANGED <<vars, xvars>>
    <2>1. /\ OrderInv => OrderInv'
          /\ EventInv => EventInv'
        <3>1. UNCHANGED vars
            BY <1>1, Zenon DEF vars, xvars
        <3> QED
            BY <3>1, ZenonT(40) DEF vars, kernel, loop, history, OrderInv, TypeOK, KernelInv,
               CurInv, LoopInv, TableInv, EventInv, Born, Alive
    <2>2. GroupInv' /\ ExecCountLaw'
        BY <1>1, Zenon DEF vars, xvars, kernel, loop, history, GroupInv, ExecCountLaw,
           Counting, Surplus, Gone, ExecInv
    <2>3. Born' = Born
        BY <1>1, Zenon DEF Born, vars, kernel
    <2>4. \A q \in Pids : (Disturbed(q) \/ PidInv(q))'
        BY <1>1, PidInvKept, Zenon DEF ExecInv, Disturbed, vars, xvars, kernel, loop
    <2> QED
        BY <1>1, <2>1, <2>2, <2>3, <2>4, Zenon DEF ExecInv, vars, kernel, loop, history
<1>2. CASE outcome = "no_tracees"
    <2>1. pc = "done"
        BY <1>2, Zenon DEF ExecInv
    <2>2. UNCHANGED <<vars, xvars>>
        BY <2>1, ZenonT(60) DEF XNext, XTracer, XTracee, XFinished, Finished, InitialWait, Setup,
           Wait, TraceeGone, ForkEvent, SignalStop, SyscallStopSkipped, EntryStop, ExitStop,
           WaitFails, KThread, KExec, KEnter, KReturn, KFork, KSignal, KAttachStop, KDie, Runs
    <2> QED
        BY <1>1, <2>2, Zenon
<1>3. CASE outcome # "no_tracees"
    <2>0. OrderInv /\ EventInv /\ GroupInv /\ ExecCountLaw
          /\ \A q \in Pids : Disturbed(q) \/ PidInv(q)
        BY <1>3, Zenon DEF ExecInv
    <2>1. ASSUME [Next]_vars, UNCHANGED vanished, GroupInv',
                 \A q \in Pids : Disturbed(q) => Disturbed(q)'
          PROVE  ExecInv'
        <3>1. OrderInv' /\ EventInv'
            BY <2>0, <2>1, OrderStep, EventInvStep, Zenon
        <3>2. ExecCountLaw'
            BY <2>0, <2>1, LoopKeepsCount, Zenon
        <3>3. \A q \in Pids : (Disturbed(q) \/ PidInv(q))'
            BY <2>0, <2>1, PidStep, Zenon
        <3>4. outcome' # "no_tracees"
            BY <3>1, Zenon DEF OrderInv, TypeOK
        <3> QED
            BY <2>1, <3>1, <3>2, <3>3, <3>4, Zenon DEF ExecInv, OrderInv, TypeOK, EventInv
    <2>2. ASSUME PlainStep, UNCHANGED xvars
          PROVE  ExecInv'
        <3>1. GroupInv'
            BY <2>0, <2>2, GroupStep, Zenon
        <3>2. [Next]_vars
            BY <2>2, Zenon DEF PlainStep, Next, Tracer, Tracee
        <3> QED
            BY <2>1, <2>2, <3>1, <3>2, Zenon DEF Disturbed, xvars
    <2>3. ASSUME NEW p \in Pids, NEW c \in Pids, KThread(p, c)
          PROVE  ExecInv'
        BY <2>0, <2>1, <2>3, ThreadKeepsGroup, Zenon DEF KThread, Next, Tracee
    <2>4. ASSUME NEW p \in Pids, KExec(p)
          PROVE  ExecInv'
        <3>1. outcome' = "none"
            BY <2>0, <2>4, ExecEffect, Zenon
        <3>2. OrderInv' /\ EventInv' /\ GroupInv' /\ ExecCountLaw'
            BY <2>0, <2>4, ExecKeepsOrder, ExecKeepsCount, Zenon
        <3>3. \A q \in Pids : (Disturbed(q) \/ PidInv(q))'
            BY <2>0, <2>4, ExecKeepsPids, Zenon
        <3> QED
            BY <3>1, <3>2, <3>3, Zenon DEF ExecInv, OrderInv, TypeOK, EventInv
    <2>5. CASE WaitFails
        <3>1. /\ pc = "wait" /\ pc' = "done" /\ outcome' = "no_tracees"
              /\ UNCHANGED <<kernel, tracees, cur, active_count, announced, xvars>>
            BY <2>5, Zenon DEF WaitFails, NoneLeft, history
        <3>2. GroupInv'
            BY <2>0, <3>1, Zenon DEF GroupInv, kernel, xvars
        <3>3. Gone' = Gone /\ Counting
            BY <1>3, <2>0, <3>1, Zenon DEF Gone, kernel, Counting, EventInv
        <3>4. ExecCountLaw'
            BY <2>0, <3>1, <3>3, Zenon DEF ExecCountLaw, Surplus, xvars
        <3>5. \A q \in Pids : (Disturbed(q) \/ PidInv(q))'
            BY <2>0, <3>1, PidInvKept, Zenon DEF Disturbed, kernel, xvars
        <3> QED
            BY <3>1, <3>2, <3>4, <3>5, Zenon DEF ExecInv, Born, kernel
    <2>6. XNext => \/ PlainStep /\ UNCHANGED xvars
                   \/ \E p, c \in Pids : KThread(p, c)
                   \/ \E p \in Pids : KExec(p)
                   \/ WaitFails
        BY Zenon DEF XNext, XTracer, XTracee, XFinished, Finished, PlainStep
    <2> QED
        BY <1>1, <2>2, <2>3, <2>4, <2>5, <2>6, Zenon
<1> QED
    BY <1>2, <1>3, Zenon

\* Every behaviour with threaded execves keeps the invariant.
LEMMA ExecInvHolds == ASSUME RoomForAll PROVE XSpec => []ExecInv
<1>1. ExecInv /\ [XNext]_<<vars, xvars>> => ExecInv'
    BY ExecInvStep, Zenon
<1> QED
    BY ExecInvInit, <1>1, PTL DEF XSpec

\* The tids that vanished are among the deaths handled, so the surplus is what
\* active_count exceeds the tracees left by.
LEMMA LawGivesOvercount ==
    ASSUME ExecInv
    PROVE  ExecOnlyOvercounts
<1>1. SUFFICES ASSUME Counting, \A p \in Pids : life[p] # "unborn" => p \in announced
               PROVE  active_count = Cardinality(Unreaped) + Cardinality(vanished)
    BY Zenon DEF ExecOnlyOvercounts, Counting
<1>2. announced = Born /\ announced \in SUBSET Pids /\ Gone \in SUBSET Pids
      /\ vanished \in SUBSET Pids
    BY <1>1, Zenon DEF ExecInv, Born, Gone, GroupInv
<1>3. Gone \subseteq announced /\ Unreaped = announced \ Gone
    <2>1. pc = "handle" /\ cur.status = "dead" => cur.pid \in Pids /\ life[cur.pid] = "reaped"
        BY Zenon DEF ExecInv, OrderInv, CurInv, TypeOK
    <2>2. \A q \in Pids : life[q] \in Lives
        BY Zenon DEF ExecInv
    <2> QED
        BY <1>2, <2>1, <2>2 DEF Gone, Born, Unreaped, Lives
<1>4. /\ IsFiniteSet(announced) /\ Cardinality(announced) \in Nat
      /\ IsFiniteSet(Gone) /\ Cardinality(Gone) \in Nat
      /\ Cardinality(vanished) \in Nat
    BY <1>2, FS_Subset, FS_CardinalityType, ZenonT(40)
<1>5. Cardinality(announced \ Gone) = Cardinality(announced) - Cardinality(announced \cap Gone)
    BY <1>4, FS_Difference, Zenon
<1>6. announced \cap Gone = Gone
    BY <1>3, Zenon
<1>7. active_count = Cardinality(announced) - Cardinality(Gone) + Cardinality(vanished)
    <2>1. active_count \in Nat /\ Surplus = Cardinality(vanished)
        BY <1>1, Zenon DEF ExecInv, ExecCountLaw
    <2> QED
        BY <1>4, <2>1 DEF Surplus
<1> QED
    BY <1>3, <1>5, <1>6, <1>7, Zenon

\* Threads of any number of processes may call execve: active_count exceeds the
\* tracees left by exactly the tids taken away, so the loop of run_tracer never
\* ends early because of an execve it was not told of.
THEOREM ExecOvercountIsExact ==
    ASSUME RoomForAll PROVE XSpec => []ExecOnlyOvercounts
BY ExecInvHolds, LawGivesOvercount, PTL

\* The entry/exit toggle of run_tracer goes wrong at most in a group whose
\* leader was replaced: an execve never disturbs the tracing of another process.
THEOREM ExecStaysInItsGroup ==
    ASSUME RoomForAll PROVE XSpec => []ExecDisturbsOnlyItself
<1>1. ExecInv => ExecDisturbsOnlyItself
    BY Zenon DEF ExecInv, ExecDisturbsOnlyItself, Disturbed, PidInv, InSync
<1> QED
    BY ExecInvHolds, <1>1, PTL

=============================================================================
