---------------------------- MODULE TraceeEntry ----------------------------
(***************************************************************************)
(* One entry of the tracee table of src/mini_strace.c.                     *)
(***************************************************************************)
EXTENDS Integers, FiniteSets

CONSTANTS
    Pids,          \* every process id that can occur
    MaxTracees,    \* MAX_TRACEES
    Names,         \* syscall names
    NoName,        \* the NULL name pointer
    IndexKinds,    \* deferred kinds stored as a slot index, where -1 is "none"
    PointerKinds   \* deferred kinds stored as an entry pointer, NULL is "none"

ASSUME TraceeMapAssumption ==
    /\ IsFiniteSet(Pids)
    /\ MaxTracees \in Nat \ {0}
    /\ NoName \notin Names

Kinds == IndexKinds \cup PointerKinds

\* tracee_state.  pending is the set of the pending_* fields that are set, and
\* so the ones the exit-stop will act on.
TraceeState ==
    [active : BOOLEAN, in_syscall : BOOLEAN, suppressed : BOOLEAN,
     pending : SUBSET Kinds, pending_name : Names \cup {NoName},
     current_name : Names \cup {NoName}]

\* memset(&tracees[i], 0, ...): a zeroed index field holds slot 0 and not -1,
\* so it counts as set; a zeroed pointer does not.
Zeroed(active) ==
    [active |-> active, in_syscall |-> FALSE, suppressed |-> FALSE,
     pending |-> IndexKinds, pending_name |-> NoName, current_name |-> NoName]

Absent == Zeroed(FALSE)
=============================================================================
