----------------------------- MODULE TraceeTable -----------------------------
(***************************************************************************)
(* The tracee table of src/mini_strace.c as it is stored: MAX_TRACEES      *)
(* slots, searched from the front.  A removed entry keeps every field but  *)
(* active, so a slot that is free still holds a pid and its old state.     *)
(***************************************************************************)
EXTENDS TraceeEntry

CONSTANT NoPid    \* the zero pid of a slot that was never used

ASSUME NoPidAssumption == NoPid \notin Pids

VARIABLES
    slots,    \* the array tracees
    last      \* history: the last operation, its arguments and its result

tableVars == <<slots, last>>

Slots == 1..MaxTracees

First(S) == CHOOSE i \in S : \A j \in S : i <= j

TableInit == slots = [i \in Slots |-> [pid |-> NoPid, ts |-> Absent]] /\ last = << >>

Free(s) == {i \in Slots : ~s[i].ts.active}

\* Mutant of Matching: find_tracee compares the pid alone.
MatchingStale(s, p) == {i \in Slots : s[i].pid = p}

\* The slots find_tracee stops at: it returns the first, or NULL if none.
Matching(s, p) == {i \in Slots : s[i].ts.active /\ s[i].pid = p}

FindTracee(s, p) == First(Matching(s, p))

\* add_tracee(p), which returns an entry or NULL
Add(p) ==
    /\ slots' = IF Matching(slots, p) = {} /\ Free(slots) # {}
                  THEN [slots EXCEPT ![First(Free(slots))] = [pid |-> p, ts |-> Zeroed(TRUE)]]
                  ELSE slots
    /\ last' = <<"add", p, Matching(slots, p) # {} \/ Free(slots) # {}>>

\* remove_tracee(p)
Remove(p) ==
    /\ slots' = IF Matching(slots, p) # {}
                  THEN [slots EXCEPT ![FindTracee(slots, p)].ts.active = FALSE]
                  ELSE slots
    /\ last' = <<"remove", p>>

\* run_tracer assigns through the pointer add_tracee returned, which is to the
\* entry find_tracee finds; it never assigns pid or active.
Update(p, s) ==
    /\ Matching(slots, p) # {}
    /\ s.active
    /\ slots' = [slots EXCEPT ![FindTracee(slots, p)].ts = s]
    /\ last' = <<"update", p, s>>

TableNext ==
    \E p \in Pids :
        \/ Add(p)
        \/ Remove(p)
        \/ \E s \in TraceeState : Update(p, s)

TableSpec == TableInit /\ [][TableNext]_tableVars
-----------------------------------------------------------------------------
\* Every slot keeps its type.
TableTypeOK == slots \in [Slots -> [pid : Pids \cup {NoPid}, ts : TraceeState]]

\* A pid has at most one entry, so that find_tracee, add_tracee and remove_tracee
\* all mean the same one, whatever stale pids the free slots hold.
OneEntryPerPid ==
    \A i, j \in Slots : slots[i].ts.active /\ slots[j].ts.active
                            /\ slots[i].pid = slots[j].pid => i = j

\* The table as a map from pids to their state.
MapOf(s) == [p \in Pids |-> IF Matching(s, p) # {} THEN s[FindTracee(s, p)].ts ELSE Absent]

Map == INSTANCE TraceeStore WITH tracees <- MapOf(slots)

\* The slot array behaves as the bounded map run_tracer takes it for, operation by
\* operation and with the same results: the free slots, their order and their
\* stale contents cannot be seen through find_tracee, add_tracee, remove_tracee.
ImplementsMap == Map!MapSpec
=============================================================================
