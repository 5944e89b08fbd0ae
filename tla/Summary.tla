------------------------------ MODULE Summary ------------------------------
(***************************************************************************)
(* The -c table of src/mini_strace.c: one row per syscall name, filled at  *)
(* the exit-stops and sorted in place when the trace ends.  Times are      *)
(* whole ticks.                                                            *)
(***************************************************************************)
EXTENDS Integers, Sequences

CONSTANTS
    CallNames,
    MaxEntries,   \* MAX_SUMMARY_ENTRIES
    Elapsed,      \* the times a call can take
    MaxFolds      \* bound: calls accounted

ASSUME SummaryAssumption ==
    /\ MaxEntries \in Nat \ {0}
    /\ Elapsed \subseteq Nat
    /\ MaxFolds \in Nat

VARIABLES
    table,    \* summary_table, as long as summary_entry_count
    phase,    \* counting; sorting and printed are inside print_summary
    i, j, max_idx,
    totals,   \* history: what the calls of each name add up to
    folds     \* history: calls accounted

sumVars == <<table, phase, i, j, max_idx, totals, folds>>

Totals == [calls : Nat, errors : Nat, time : Nat]

Zero == [calls |-> 0, errors |-> 0, time |-> 0]

Plus(a, failed, dt) ==
    [calls |-> a.calls + 1,
     errors |-> IF failed THEN a.errors + 1 ELSE a.errors,
     time |-> a.time + dt]

SumInit ==
    /\ table = << >>
    /\ phase = "counting"
    /\ i = 1 /\ j = 2 /\ max_idx = 1
    /\ totals = [n \in CallNames |-> Zero]
    /\ folds = 0

RowsOf(t, n) == {k \in DOMAIN t : t[k].name = n}

FirstRow(S) == CHOOSE k \in S : \A l \in S : k <= l

\* Mutant of LookupOrAdd: the last row is not used.
LookupOrAddShort(t, n) ==
    IF RowsOf(t, n) = {} /\ Len(t) < MaxEntries - 1
      THEN Append(t, [name |-> n, sum |-> Zero])
      ELSE t

\* summary_lookup_or_add: a name that finds the table full gets no row.
LookupOrAdd(t, n) ==
    IF RowsOf(t, n) = {} /\ Len(t) < MaxEntries
      THEN Append(t, [name |-> n, sum |-> Zero])
      ELSE t

\* The end of a call under -c.
Fold(n, failed, dt) ==
    /\ phase = "counting"
    /\ folds < MaxFolds
    /\ LET t == LookupOrAdd(table, n)
       IN  table' = IF RowsOf(t, n) = {} THEN t
                    ELSE [t EXCEPT ![FirstRow(RowsOf(t, n))].sum = Plus(@, failed, dt)]
    /\ totals' = [totals EXCEPT ![n] = Plus(@, failed, dt)]
    /\ folds' = folds + 1
    /\ UNCHANGED <<phase, i, j, max_idx>>

(***************************************************************************)
(* print_summary: the selection sort, one comparison or one swap a step.   *)
(***************************************************************************)
StartPrint ==
    /\ phase = "counting"
    /\ phase' = "sorting"
    /\ i' = 1 /\ max_idx' = 1 /\ j' = 2
    /\ UNCHANGED <<table, totals, folds>>

\* Mutant of Slower: the comparison is turned around.
Faster(a, b) == a.sum.time < b.sum.time

Slower(a, b) == a.sum.time > b.sum.time

Compare ==
    /\ phase = "sorting" /\ i < Len(table) /\ j <= Len(table)
    /\ max_idx' = IF Slower(table[j], table[max_idx]) THEN j ELSE max_idx
    /\ j' = j + 1
    /\ UNCHANGED <<table, phase, i, totals, folds>>

\* Mutant of Swapped: the first row is overwritten before it is saved.
Overwritten(t, a, b) == [t EXCEPT ![a] = t[b]]

Swapped(t, a, b) == [t EXCEPT ![a] = t[b], ![b] = t[a]]

Swap ==
    /\ phase = "sorting" /\ i < Len(table) /\ j > Len(table)
    /\ table' = Swapped(table, i, max_idx)
    /\ i' = i + 1 /\ max_idx' = i + 1 /\ j' = i + 2
    /\ UNCHANGED <<phase, totals, folds>>

Printed ==
    /\ phase = "sorting" /\ i >= Len(table)
    /\ phase' = "printed"
    /\ UNCHANGED <<table, i, j, max_idx, totals, folds>>

PrintSummary == StartPrint \/ Compare \/ Swap \/ Printed

SumDone == phase = "printed" /\ UNCHANGED sumVars

SumNext ==
    \/ \E n \in CallNames, failed \in BOOLEAN, dt \in Elapsed : Fold(n, failed, dt)
    \/ PrintSummary
    \/ SumDone

SumSpec == SumInit /\ [][SumNext]_sumVars
-----------------------------------------------------------------------------
Row == [name : CallNames, sum : Totals]

\* Every variable of the table and of the sort keeps its type.
SumTypeOK ==
    /\ table \in Seq(Row) /\ Len(table) <= MaxEntries
    /\ phase \in {"counting", "sorting", "printed"}
    /\ i \in Nat \ {0} /\ j \in Nat \ {0} /\ max_idx \in Nat \ {0}
    /\ totals \in [CallNames -> Totals]
    /\ folds \in Nat

\* Each name has one row at most, and the row holds what its calls add up to:
\* neither the lookup nor the sort gives a call to another row, nor loses one.
RowsAreExact ==
    /\ \A k, l \in DOMAIN table : table[k].name = table[l].name => k = l
    /\ \A k \in DOMAIN table : table[k].sum = totals[table[k].name]

\* The rows never outgrow summary_table, and a name that was called has a row
\* unless the table is full.
DroppedOnlyWhenFull ==
    /\ Len(table) <= MaxEntries
    /\ Len(table) < MaxEntries =>
        \A n \in CallNames : totals[n] # Zero => \E k \in DOMAIN table : table[k].name = n

\* "sorted slowest-first": print_summary's selection sort leaves no row above a
\* slower one.
SlowestFirst ==
    phase = "printed" =>
        \A k, l \in DOMAIN table : k < l => table[k].sum.time >= table[l].sum.time
=============================================================================
