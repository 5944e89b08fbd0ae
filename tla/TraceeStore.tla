---------------------------- MODULE TraceeStore ----------------------------
(***************************************************************************)
(* The abstract specification of the tracee table: the map of TraceeMap    *)
(* with its operations and what they return in view, so that an operation  *)
(* without the effect it should have is not taken for a stutter.           *)
(***************************************************************************)
EXTENDS TraceeMap

VARIABLES
    tracees,
    last       \* the last operation, with its arguments and its result

MapInit == tracees = [p \in Pids |-> Absent] /\ last = << >>

MapAdd(p) ==
    /\ tracees' = AddTracee(tracees, p)
    /\ last' = <<"add", p, Holds(tracees, p)>>

MapRemove(p) ==
    /\ tracees' = RemoveTracee(tracees, p)
    /\ last' = <<"remove", p>>

\* run_tracer assigns through the pointer add_tracee returned.
MapUpdate(p, s) ==
    /\ tracees[p].active
    /\ s.active
    /\ tracees' = [tracees EXCEPT ![p] = s]
    /\ last' = <<"update", p, s>>

MapNext ==
    \E p \in Pids :
        \/ MapAdd(p)
        \/ MapRemove(p)
        \/ \E s \in TraceeState : MapUpdate(p, s)

MapSpec == MapInit /\ [][MapNext]_<<tracees, last>>
=============================================================================
