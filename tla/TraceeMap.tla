----------------------------- MODULE TraceeMap -----------------------------
(***************************************************************************)
(* What the tracee table of src/mini_strace.c promises to run_tracer: a    *)
(* bounded map from pids to per-tracee state.  A pid that is not in the    *)
(* table has the value Absent.  The array of slots behind it is module     *)
(* TraceeTable, which implements the specification TraceeStore of this map.*)
(***************************************************************************)
EXTENDS TraceeEntry

Tracked(t) == {p \in Pids : t[p].active}

\* add_tracee(p) returns an entry and not NULL.
Holds(t, p) == t[p].active \/ Cardinality(Tracked(t)) < MaxTracees

\* Mutant of AddTracee: an entry that exists is zeroed again.
AddTraceeAfresh(t, p) ==
    IF Holds(t, p) THEN [t EXCEPT ![p] = Zeroed(TRUE)] ELSE t

\* add_tracee(p): idempotent, and without effect when the table is full.
AddTracee(t, p) ==
    IF ~t[p].active /\ Holds(t, p) THEN [t EXCEPT ![p] = Zeroed(TRUE)] ELSE t

\* remove_tracee(p)
RemoveTracee(t, p) == [t EXCEPT ![p] = Absent]
=============================================================================
