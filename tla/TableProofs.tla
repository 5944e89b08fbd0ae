---------------------------- MODULE TableProofs ----------------------------
(***************************************************************************)
(* The two arrays of the tracer.  The slot array of module TraceeTable     *)
(* implements the bounded map of module TraceeStore, for every number of   *)
(* slots and every set of pids.  The -c table of module Summary is exact,  *)
(* and print_summary sorts it, for any number of rows and any times.       *)
(***************************************************************************)
EXTENDS TraceeTable, Summary, FiniteSetTheorems, TLAPS

SlotState == [pid : Pids \cup {NoPid}, ts : TraceeState]

\* The invariant of the table, for any value s of the array: an entry in use has
\* a pid of its own.
Good(s) ==
    /\ s \in [Slots -> SlotState]
    /\ \A a \in Slots : s[a].ts.active => s[a].pid \in Pids
    /\ \A a, b \in Slots : s[a].ts.active /\ s[b].ts.active /\ s[a].pid = s[b].pid => a = b

USE TraceeMapAssumption, NoPidAssumption

\* The searches of find_tracee and add_tracee find something when there is
\* something to find.
LEMMA FirstIsIn ==
    ASSUME NEW S, S \subseteq Slots, S # {}
    PROVE  First(S) \in S
<1> DEFINE R == {r \in Nat \X Nat : r[1] < r[2]}
<1>1. S \subseteq Nat
    BY DEF Slots
<1>2. IsWellFoundedOn(R, Nat)
    BY NatLessThanWellFounded, Zenon DEF OpToRel
<1>3. \E x \in S : \A y \in S : ~(<<y, x>> \in R)
    <2> HIDE DEF R
    <2> QED
        BY <1>1, <1>2, WFMin
<1>4. \E x \in S : \A y \in S : x <= y
    <2>1. PICK x \in S : \A y \in S : ~(<<y, x>> \in R)
        BY <1>3
    <2>2. ASSUME NEW y \in S PROVE x <= y
        <3>1. x \in Nat /\ y \in Nat
            BY <1>1
        <3>2. ~(y < x)
            BY <2>1, <3>1
        <3> QED
            BY <3>1, <3>2
    <2> QED
        BY <2>2
<1> QED
    BY <1>4 DEF First

\* find_tracee returns the one entry of a pid.
LEMMA LookupHit ==
    ASSUME NEW s, Good(s), NEW a \in Slots, s[a].ts.active
    PROVE  /\ s[a].pid \in Pids
           /\ Matching(s, s[a].pid) = {a}
           /\ FindTracee(s, s[a].pid) = a
           /\ MapOf(s)[s[a].pid] = s[a].ts
<1>1. s[a].pid \in Pids
    BY DEF Good
<1>2. Matching(s, s[a].pid) = {a}
    BY DEF Good, Matching
<1>3. FindTracee(s, s[a].pid) = a
    BY <1>2, FirstIsIn DEF FindTracee
<1> QED
    BY <1>1, <1>2, <1>3 DEF MapOf

\* find_tracee returns NULL for a pid without an entry.
LEMMA LookupMiss ==
    ASSUME NEW s, NEW p \in Pids, \A a \in Slots : s[a].ts.active => s[a].pid # p
    PROVE  Matching(s, p) = {} /\ MapOf(s)[p] = Absent
BY DEF Matching, MapOf

\* An entry that is found is in use and is the entry of the pid.
LEMMA FoundIsOwn ==
    ASSUME NEW s, NEW p \in Pids, Matching(s, p) # {}
    PROVE  /\ FindTracee(s, p) \in Slots
           /\ s[FindTracee(s, p)].ts.active
           /\ s[FindTracee(s, p)].pid = p
           /\ MapOf(s)[p] = s[FindTracee(s, p)].ts
<1>1. FindTracee(s, p) \in Matching(s, p)
    BY FirstIsIn DEF FindTracee, Matching
<1> QED
    BY <1>1 DEF Matching, MapOf

\* A change to one slot is not seen through the pids of other slots.
LEMMA SameElsewhere ==
    ASSUME NEW s, Good(s), NEW t, Good(t), NEW k \in Slots, NEW q \in Pids,
           \A a \in Slots : a # k => t[a] = s[a],
           s[k].ts.active => s[k].pid # q,
           t[k].ts.active => t[k].pid # q
    PROVE  MapOf(t)[q] = MapOf(s)[q]
<1>1. CASE \E a \in Slots : s[a].ts.active /\ s[a].pid = q
    <2>1. PICK a \in Slots : s[a].ts.active /\ s[a].pid = q
        BY <1>1
    <2>2. t[a] = s[a]
        BY <2>1
    <2>3. MapOf(s)[q] = s[a].ts
        BY <2>1, LookupHit
    <2>4. MapOf(t)[q] = t[a].ts
        BY <2>1, <2>2, LookupHit
    <2> QED
        BY <2>2, <2>3, <2>4
<1>2. CASE \A a \in Slots : s[a].ts.active => s[a].pid # q
    <2>1. \A a \in Slots : t[a].ts.active => t[a].pid # q
        BY <1>2
    <2> QED
        BY <1>2, <2>1, LookupMiss
<1> QED
    BY <1>1, <1>2

\* The map is typed, and the pids it tracks are those with an entry in use.
LEMMA MapIsTyped ==
    ASSUME NEW s, Good(s)
    PROVE  /\ MapOf(s) \in [Pids -> TraceeState]
           /\ \A p \in Pids : MapOf(s)[p].active <=> Matching(s, p) # {}
<1>1. Absent \in TraceeState /\ ~Absent.active
    BY DEF Absent, Zeroed, TraceeState, Kinds
<1>2. ASSUME NEW p \in Pids
      PROVE  MapOf(s)[p] \in TraceeState /\ (MapOf(s)[p].active <=> Matching(s, p) # {})
    <2>1. CASE Matching(s, p) = {}
        BY <1>1, <2>1 DEF MapOf
    <2>2. CASE Matching(s, p) # {}
        BY <2>2, FoundIsOwn DEF Good, SlotState
    <2> QED
        BY <2>1, <2>2
<1> QED
    BY <1>2 DEF MapOf

\* add_tracee finds a free slot exactly when fewer than MAX_TRACEES pids are
\* tracked: no slot is taken twice for a pid, and none leaks.
LEMMA RoomIsAFreeSlot ==
    ASSUME NEW s, Good(s)
    PROVE  Free(s) # {} <=> Cardinality(Map!Tracked(MapOf(s))) < MaxTracees
<1> DEFINE A == {a \in Slots : s[a].ts.active}
           T == Map!Tracked(MapOf(s))
           f == [a \in A |-> s[a].pid]
<1>1. /\ IsFiniteSet(Slots) /\ Cardinality(Slots) = MaxTracees
      /\ A \subseteq Slots
    BY FS_Interval DEF Slots
<1>2. f \in Bijection(A, T)
    <2>1. \A a \in A : f[a] \in T
        BY LookupHit, MapIsTyped DEF Map!Tracked
    <2>2. \A a, b \in A : f[a] = f[b] => a = b
        BY DEF Good
    <2>3. \A p \in T : \E a \in A : f[a] = p
        <3> SUFFICES ASSUME NEW p \in T PROVE \E a \in A : f[a] = p
            OBVIOUS
        <3>1. p \in Pids /\ Matching(s, p) # {}
            BY MapIsTyped DEF Map!Tracked
        <3> QED
            BY <3>1 DEF Matching
    <2> QED
        BY <2>1, <2>2, <2>3 DEF Bijection, Injection, Surjection, IsInjective
<1>3. IsFiniteSet(A) /\ Cardinality(A) = Cardinality(T)
    BY <1>1, <1>2, FS_Subset, FS_Bijection DEF ExistsBijection
<1>4. Cardinality(A) <= MaxTracees /\ (Cardinality(A) = MaxTracees <=> A = Slots)
    BY <1>1, FS_Subset
<1>5. Cardinality(A) \in Nat
    BY <1>3, FS_CardinalityType
<1>6. Free(s) # {} <=> A # Slots
    BY DEF Free
<1> QED
    BY <1>3, <1>4, <1>5, <1>6

\* add_tracee keeps the table good and does to the map what the map's add does.
LEMMA AddRefines ==
    ASSUME Good(slots), NEW p \in Pids, Add(p)
    PROVE  /\ Good(slots') /\ MapOf(slots') = Map!AddTracee(MapOf(slots), p)
           /\ last' = <<"add", p, Map!Holds(MapOf(slots), p)>>
<1> DEFINE k == First(Free(slots))
           m == MapOf(slots)
<1>1. m \in [Pids -> TraceeState] /\ (m[p].active <=> Matching(slots, p) # {})
    BY MapIsTyped
<1>2. Map!Holds(m, p) <=> m[p].active \/ Free(slots) # {}
    <2>1. Map!Cardinality(Map!Tracked(m)) = Cardinality(Map!Tracked(m))
        BY DEF Map!Cardinality, Cardinality
    <2> QED
        BY <2>1, RoomIsAFreeSlot DEF Map!Holds
<1>0. last' = <<"add", p, Map!Holds(m, p)>>
    <2>1. Map!Holds(m, p) = (Matching(slots, p) # {} \/ Free(slots) # {})
        BY <1>1, <1>2 DEF Map!Holds
    <2> QED
        BY <2>1 DEF Add
<1>3. CASE Matching(slots, p) = {} /\ Free(slots) # {}
    <2>1. k \in Slots /\ ~slots[k].ts.active
        BY <1>3, FirstIsIn DEF Free
    <2>2. slots' = [slots EXCEPT ![k] = [pid |-> p, ts |-> Zeroed(TRUE)]]
        BY <1>3 DEF Add
    <2>3. Zeroed(TRUE) \in TraceeState /\ Zeroed(TRUE).active
        BY DEF Zeroed, TraceeState, Kinds
    <2> HIDE DEF k
    <2>4. \A a \in Slots : slots[a].ts.active => slots[a].pid # p
        BY <1>3 DEF Matching
    <2>5. /\ slots' \in [Slots -> SlotState]
          /\ slots'[k] = [pid |-> p, ts |-> Zeroed(TRUE)]
          /\ \A a \in Slots : a # k => slots'[a] = slots[a]
        BY <2>1, <2>2, <2>3 DEF Good, SlotState
    <2>6. Good(slots')
        BY <2>1, <2>3, <2>4, <2>5 DEF Good
    <2>7. MapOf(slots')[p] = Zeroed(TRUE)
        <3>1. slots'[k].pid = p /\ slots'[k].ts = Zeroed(TRUE)
            BY ONLY <2>5
        <3>2. slots'[k].ts.active
            BY ONLY <2>3, <3>1
        <3>3. MapOf(slots')[slots'[k].pid] = slots'[k].ts
            BY ONLY <2>1, <2>6, <3>2, LookupHit
        <3> QED
            BY <3>1, <3>3
    <2>8. ASSUME NEW q \in Pids, q # p
          PROVE  MapOf(slots')[q] = m[q]
        BY <2>1, <2>5, <2>6, <2>8, SameElsewhere
    <2>9. MapOf(slots') = [m EXCEPT ![p] = Zeroed(TRUE)]
        BY <2>7, <2>8, <1>1 DEF MapOf
    <2>10. ~m[p].active /\ Map!Holds(m, p)
        BY <1>1, <1>2, <1>3
    <2> QED
        BY <1>0, <2>6, <2>9, <2>10 DEF Map!AddTracee, Map!Zeroed, Zeroed
<1>4. CASE ~(Matching(slots, p) = {} /\ Free(slots) # {})
    <2>1. slots' = slots
        BY <1>4 DEF Add
    <2>2. m[p].active \/ ~Map!Holds(m, p)
        BY <1>1, <1>2, <1>4
    <2> QED
        BY <1>0, <2>1, <2>2 DEF Map!AddTracee
<1> QED
    BY <1>3, <1>4

\* remove_tracee does to the map what the map's remove does.
LEMMA RemoveRefines ==
    ASSUME Good(slots), NEW p \in Pids, Remove(p)
    PROVE  Good(slots') /\ MapOf(slots') = Map!RemoveTracee(MapOf(slots), p)
<1> DEFINE k == FindTracee(slots, p)
           m == MapOf(slots)
<1>1. m \in [Pids -> TraceeState]
    BY MapIsTyped
<1>2. Map!Absent = Absent
    BY DEF Map!Absent, Absent, Map!Zeroed, Zeroed
<1>3. CASE Matching(slots, p) # {}
    <2>1. k \in Slots /\ slots[k].ts.active /\ slots[k].pid = p
        BY <1>3, FoundIsOwn
    <2>2. slots' = [slots EXCEPT ![k].ts.active = FALSE]
        BY <1>3 DEF Remove
    <2> HIDE DEF k
    <2>3. /\ slots' \in [Slots -> SlotState]
          /\ ~slots'[k].ts.active
          /\ \A a \in Slots : a # k => slots'[a] = slots[a]
        <3> DEFINE e == [slots[k] EXCEPT !.ts.active = FALSE]
        <3>1. slots \in [Slots -> SlotState] /\ slots[k] \in SlotState
            BY <2>1 DEF Good
        <3>2. e \in SlotState /\ ~e.ts.active
            BY ONLY <3>1 DEF SlotState, TraceeState
        <3>3. slots' = [slots EXCEPT ![k] = e]
            BY <2>2
        <3> HIDE DEF e
        <3> QED
            BY ONLY <2>1, <3>1, <3>2, <3>3
    <2>4. Good(slots')
        BY <2>3 DEF Good
    <2>5. MapOf(slots')[p] = Absent
        <3>1. \A a \in Slots : slots'[a].ts.active => slots'[a].pid # p
            BY <2>1, <2>3 DEF Good
        <3> QED
            BY <3>1, LookupMiss
    <2>6. ASSUME NEW q \in Pids, q # p
          PROVE  MapOf(slots')[q] = m[q]
        BY <2>1, <2>3, <2>4, <2>6, SameElsewhere
    <2>7. MapOf(slots') = [m EXCEPT ![p] = Absent]
        BY <2>5, <2>6, <1>1 DEF MapOf
    <2> QED
        BY <1>2, <2>4, <2>7 DEF Map!RemoveTracee
<1>4. CASE Matching(slots, p) = {}
    <2>1. slots' = slots
        BY <1>4 DEF Remove
    <2>2. m[p] = Absent
        BY <1>4 DEF MapOf
    <2>3. m = [m EXCEPT ![p] = Absent]
        BY <1>1, <2>2
    <2> QED
        BY <1>2, <2>1, <2>3 DEF Map!RemoveTracee
<1> QED
    BY <1>3, <1>4

\* An assignment through the entry pointer changes the state of its pid alone.
LEMMA UpdateRefines ==
    ASSUME Good(slots), NEW p \in Pids, NEW s \in TraceeState, Update(p, s)
    PROVE  /\ Good(slots')
           /\ MapOf(slots)[p].active
           /\ MapOf(slots') = [MapOf(slots) EXCEPT ![p] = s]
<1> DEFINE k == FindTracee(slots, p)
           m == MapOf(slots)
<1>1. m \in [Pids -> TraceeState] /\ m[p].active
    BY MapIsTyped DEF Update
<1>2. k \in Slots /\ slots[k].ts.active /\ slots[k].pid = p
    BY FoundIsOwn DEF Update
<1>3. slots' = [slots EXCEPT ![k].ts = s] /\ s.active
    BY DEF Update
<1> HIDE DEF k
<1>4. /\ slots' \in [Slots -> SlotState]
      /\ slots'[k].ts = s /\ slots'[k].pid = p
      /\ \A a \in Slots : a # k => slots'[a] = slots[a]
    BY <1>2, <1>3 DEF Good, SlotState
<1>5. Good(slots')
    BY <1>2, <1>3, <1>4 DEF Good
<1>6. MapOf(slots')[p] = s
    <2>1. MapOf(slots')[slots'[k].pid] = slots'[k].ts
        <3>1. k \in Slots /\ slots'[k].ts.active
            BY <1>2, <1>3, <1>4
        <3> QED
            BY ONLY <1>5, <3>1, LookupHit
    <2> QED
        BY <1>4, <2>1
<1>7. ASSUME NEW q \in Pids, q # p
      PROVE  MapOf(slots')[q] = m[q]
    BY <1>2, <1>4, <1>5, <1>7, SameElsewhere
<1>8. MapOf(slots') = [m EXCEPT ![p] = s]
    BY <1>6, <1>7, <1>1 DEF MapOf
<1> QED
    BY <1>1, <1>5, <1>8

\* The table is good in every reachable state.
THEOREM TableStaysGood == TableSpec => []Good(slots)
<1>1. TableInit => Good(slots)
    BY DEF TableInit, Good, SlotState, Absent, Zeroed, TraceeState, Kinds
<1>2. Good(slots) /\ [TableNext]_tableVars => Good(slots)'
    BY AddRefines, RemoveRefines, UpdateRefines DEF TableNext, tableVars
<1> QED
    BY <1>1, <1>2, PTL DEF TableSpec

\* No pid ever has two entries in use.
THEOREM OneEntryAlways == TableSpec => []OneEntryPerPid
<1>1. Good(slots) => OneEntryPerPid
    BY DEF Good, OneEntryPerPid
<1> QED
    BY <1>1, TableStaysGood, PTL

\* find_tracee, add_tracee and remove_tracee over the slot array implement the
\* bounded map of module TraceeStore, results included.
THEOREM TableImplementsMap == TableSpec => ImplementsMap
<1>1. TableInit => Map!MapInit
    <2> SUFFICES ASSUME TableInit PROVE Map!MapInit
        OBVIOUS
    <2>1. \A p \in Pids : Matching(slots, p) = {}
        BY DEF TableInit, Matching, Absent, Zeroed
    <2>2. MapOf(slots) = [p \in Pids |-> Absent]
        BY <2>1 DEF MapOf
    <2> QED
        BY <2>2 DEF TableInit, Map!MapInit, Map!Absent, Absent, Map!Zeroed, Zeroed
<1>2. Good(slots) /\ [TableNext]_tableVars => [Map!MapNext]_<<MapOf(slots), last>>
    <2> SUFFICES ASSUME Good(slots), [TableNext]_tableVars
                 PROVE  Map!MapNext \/ UNCHANGED <<MapOf(slots), last>>
        OBVIOUS
    <2>1. ASSUME NEW p \in Pids, Add(p)
          PROVE  Map!MapNext
        BY <2>1, AddRefines DEF Map!MapNext, Map!MapAdd
    <2>2. ASSUME NEW p \in Pids, Remove(p)
          PROVE  Map!MapNext
        BY <2>2, RemoveRefines DEF Remove, Map!MapNext, Map!MapRemove
    <2>3. ASSUME NEW p \in Pids, NEW s \in TraceeState, Update(p, s)
          PROVE  Map!MapNext
        <3>1. s.active /\ Map!TraceeState = TraceeState
            BY <2>3 DEF Update, Map!TraceeState, TraceeState, Map!Kinds, Kinds
        <3>2. Map!MapUpdate(p, s)
            BY <2>3, <3>1, UpdateRefines DEF Update, Map!MapUpdate
        <3> QED
            BY <3>1, <3>2 DEF Map!MapNext
    <2>4. CASE UNCHANGED tableVars
        BY <2>4 DEF tableVars
    <2> QED
        BY <2>1, <2>2, <2>3, <2>4 DEF TableNext
<1> QED
    BY <1>1, <1>2, TableStaysGood, PTL DEF TableSpec, ImplementsMap, Map!MapSpec

------------------------------------------------------------------------------
USE SummaryAssumption

Time(k) == table[k].sum.time

\* Inside print_summary: max_idx is a slowest row of the ones compared so far,
\* and the rows above i are in their final place.
SortInv ==
    /\ phase = "sorting" =>
           /\ i < Len(table) =>
                 /\ i <= max_idx /\ max_idx < j /\ j <= Len(table) + 1
                 /\ \A k \in DOMAIN table : i <= k /\ k < j => Time(k) <= Time(max_idx)
           /\ \A k, l \in DOMAIN table : k < i /\ k < l => Time(k) >= Time(l)

SumInv == SumTypeOK /\ RowsAreExact /\ DroppedOnlyWhenFull /\ SortInv /\ SlowestFirst

\* A row of the table has its type.
LEMMA RowType ==
    ASSUME SumTypeOK, NEW k \in DOMAIN table
    PROVE  /\ table[k] \in Row
           /\ table[k].name \in CallNames /\ table[k].sum \in Totals
           /\ Time(k) \in Nat
<1>1. table[k] \in Row
    BY DEF SumTypeOK
<1> QED
    BY <1>1 DEF Row, Totals, Time

\* What a call adds keeps the type of the totals.
LEMMA PlusType ==
    ASSUME NEW a \in Totals, NEW failed \in BOOLEAN, NEW dt \in Elapsed
    PROVE  Plus(a, failed, dt) \in Totals
BY DEF Plus, Totals

\* The empty table satisfies the invariant.
LEMMA SumInitInv == SumInit => SumInv
BY DEF SumInit, SumInv, SumTypeOK, RowsAreExact, DroppedOnlyWhenFull, SortInv, SlowestFirst,
       Totals, Zero, Row

\* summary_lookup_or_add leaves one exact row for the name, or a full table.
LEMMA LookupOrAddExact ==
    ASSUME SumTypeOK, RowsAreExact, DroppedOnlyWhenFull, NEW n \in CallNames
    PROVE  LET t == LookupOrAdd(table, n)
           IN  /\ t \in Seq(Row) /\ Len(t) <= MaxEntries
               /\ \A k, l \in DOMAIN t : t[k].name = t[l].name => k = l
               /\ \A k \in DOMAIN t : t[k].sum = totals[t[k].name]
               /\ Len(table) <= Len(t)
               /\ \A k \in DOMAIN table : t[k] = table[k]
               /\ Len(t) < MaxEntries => RowsOf(t, n) # {}
<1> DEFINE r == [name |-> n, sum |-> Zero]
           t == LookupOrAdd(table, n)
<1>1. CASE RowsOf(table, n) = {} /\ Len(table) < MaxEntries
    <2>1. r \in Row
        BY DEF Row, Zero, Totals
    <2>2. t = Append(table, r)
        BY <1>1 DEF LookupOrAdd
    <2>3. totals[n] = Zero
        BY <1>1 DEF DroppedOnlyWhenFull, RowsOf
    <2>4. table \in Seq(Row) /\ Len(table) \in Nat /\ DOMAIN table = 1..Len(table)
        BY DEF SumTypeOK
    <2> HIDE DEF r, t
    <2>5. /\ t \in Seq(Row) /\ Len(t) = Len(table) + 1 /\ DOMAIN t = 1..(Len(table) + 1)
          /\ t[Len(table) + 1] = r
          /\ \A k \in 1..Len(table) : t[k] = table[k]
        BY ONLY <2>1, <2>2, <2>4
    <2>6. r.name = n /\ r.sum = Zero
        BY DEF r
    <2>7. \A k \in 1..Len(table) : table[k].name # n
        BY <1>1, <2>4 DEF RowsOf
    <2>8. \A k, l \in DOMAIN t : t[k].name = t[l].name => k = l
        BY <2>4, <2>5, <2>6, <2>7 DEF RowsAreExact
    <2>9. \A k \in DOMAIN t : t[k].sum = totals[t[k].name]
        BY <2>3, <2>4, <2>5, <2>6 DEF RowsAreExact
    <2>10. RowsOf(t, n) # {}
        <3>1. Len(table) + 1 \in DOMAIN t /\ t[Len(table) + 1].name = n
            BY <2>4, <2>5, <2>6
        <3> QED
            BY <3>1 DEF RowsOf
    <2>11. Len(t) <= MaxEntries /\ Len(table) <= Len(t)
        BY <1>1, <2>4, <2>5
    <2> QED
        BY <2>4, <2>5, <2>8, <2>9, <2>10, <2>11 DEF t
<1>2. CASE ~(RowsOf(table, n) = {} /\ Len(table) < MaxEntries)
    <2>1. t = table
        BY <1>2 DEF LookupOrAdd
    <2> QED
        BY <1>2, <2>1 DEF SumTypeOK, RowsAreExact
<1> QED
    BY <1>1, <1>2

\* The end of a call keeps the table exact.
LEMMA FoldKeepsInv ==
    ASSUME SumInv, NEW n \in CallNames, NEW failed \in BOOLEAN, NEW dt \in Elapsed,
           Fold(n, failed, dt)
    PROVE  SumInv'
<1> DEFINE t == LookupOrAdd(table, n)
           x == Plus(totals[n], failed, dt)
<1> USE DEF SumInv
<1>1. /\ t \in Seq(Row) /\ Len(t) <= MaxEntries /\ Len(table) <= Len(t)
      /\ \A k, l \in DOMAIN t : t[k].name = t[l].name => k = l
      /\ \A k \in DOMAIN t : t[k].sum = totals[t[k].name]
      /\ \A k \in DOMAIN table : t[k] = table[k]
      /\ Len(t) < MaxEntries => RowsOf(t, n) # {}
    BY LookupOrAddExact
<1>2. totals \in [CallNames -> Totals] /\ x \in Totals /\ x # Zero
    <2>1. totals[n] \in Totals /\ totals \in [CallNames -> Totals]
        BY DEF SumTypeOK
    <2>2. x.calls # 0
        BY <2>1 DEF Plus, Totals
    <2> QED
        BY <2>1, <2>2, PlusType DEF Zero
<1>3. /\ phase = "counting" /\ phase' = "counting" /\ UNCHANGED <<i, j, max_idx>>
      /\ folds' = folds + 1
      /\ totals' = [totals EXCEPT ![n] = x]
      /\ table' = IF RowsOf(t, n) = {} THEN t
                  ELSE [t EXCEPT ![FirstRow(RowsOf(t, n))].sum = Plus(@, failed, dt)]
    BY DEF Fold
<1> HIDE DEF t, x
<1>3a. ASSUME NEW k \in DOMAIN t
       PROVE  t[k].name \in CallNames
    <2>1. t[k] \in Row
        BY <1>1
    <2> QED
        BY <2>1 DEF Row
<1>4. /\ table' \in Seq(Row) /\ Len(table') = Len(t) /\ DOMAIN table' = DOMAIN t
      /\ \A k \in DOMAIN t : /\ table'[k].name = t[k].name
                             /\ table'[k].sum = totals'[t[k].name]
    <2>1. CASE RowsOf(t, n) = {}
        <3>1. table' = t
            BY <1>3, <2>1
        <3>2. \A k \in DOMAIN t : t[k].name # n
            BY <2>1 DEF RowsOf
        <3>3. ASSUME NEW k \in DOMAIN t
              PROVE  t[k].sum = totals'[t[k].name]
            <4>1. t[k].name \in CallNames /\ t[k].name # n
                BY <3>2, <1>3a
            <4>2. totals'[t[k].name] = totals[t[k].name]
                BY ONLY <1>2, <1>3, <4>1
            <4> QED
                BY <1>1, <4>2
        <3> QED
            BY <1>1, <3>1, <3>3
    <2>2. CASE RowsOf(t, n) # {}
        <3>1. PICK k \in DOMAIN t : t[k].name = n
            BY <2>2 DEF RowsOf
        <3>2. RowsOf(t, n) = {k}
            BY <1>1, <3>1 DEF RowsOf
        <3>3. FirstRow(RowsOf(t, n)) = k
            <4>1. k \in Int
                BY <1>1
            <4> QED
                BY <3>2, <4>1 DEF FirstRow
        <3>4. t[k] \in Row /\ t[k].sum = totals[n]
            BY <1>1, <3>1
        <3>5. table' = [t EXCEPT ![k].sum = x]
            BY <1>3, <2>2, <3>3, <3>4 DEF x
        <3> DEFINE e == [t[k] EXCEPT !.sum = x]
        <3>6. e \in Row /\ e.name = n /\ e.sum = x
            BY <1>2, <3>1, <3>4 DEF Row
        <3>7. table' = [t EXCEPT ![k] = e]
            BY <3>5
        <3> HIDE DEF e
        <3>8. /\ table' \in Seq(Row) /\ Len(table') = Len(t) /\ DOMAIN table' = DOMAIN t
              /\ table'[k] = e
              /\ \A l \in DOMAIN t : l # k => table'[l] = t[l]
            BY ONLY <1>1, <3>1, <3>6, <3>7
        <3>9. ASSUME NEW l \in DOMAIN t
              PROVE  table'[l].name = t[l].name /\ table'[l].sum = totals'[t[l].name]
            <4>1. CASE l = k
                <5>1. totals'[n] = x
                    BY ONLY <1>2, <1>3, n \in CallNames
                <5> QED
                    BY <3>1, <3>6, <3>8, <4>1, <5>1
            <4>2. CASE l # k
                <5>1. t[l].name # n /\ t[l].name \in CallNames
                    BY <1>1, <3>1, <4>2, <1>3a
                <5>2. totals'[t[l].name] = totals[t[l].name]
                    BY ONLY <1>2, <1>3, <5>1
                <5> QED
                    BY <1>1, <3>8, <4>2, <5>2
            <4> QED
                BY <4>1, <4>2
        <3> QED
            BY <3>8, <3>9
    <2> QED
        BY <2>1, <2>2
<1>5. SumTypeOK'
    BY <1>1, <1>2, <1>3, <1>4 DEF SumTypeOK
<1>6. RowsAreExact'
    BY <1>1, <1>4 DEF RowsAreExact
<1>7. DroppedOnlyWhenFull'
    <2> SUFFICES ASSUME Len(table') < MaxEntries, NEW m \in CallNames, totals'[m] # Zero
                 PROVE  \E k \in DOMAIN table' : table'[k].name = m
        BY <1>5 DEF DroppedOnlyWhenFull, SumTypeOK
    <2>1. CASE m = n
        <3>1. \E k \in DOMAIN t : t[k].name = n
            BY <1>1, <1>4 DEF RowsOf
        <3> QED
            BY <1>4, <2>1, <3>1
    <2>2. CASE m # n
        <3>1. totals[m] # Zero /\ Len(table) < MaxEntries
            <4>1. Len(table) \in Nat /\ Len(t) \in Nat
                BY <1>1 DEF SumTypeOK
            <4> QED
                BY <1>1, <1>2, <1>3, <1>4, <2>2, <4>1
        <3>2. PICK k \in DOMAIN table : table[k].name = m
            BY <3>1 DEF DroppedOnlyWhenFull
        <3>3. k \in DOMAIN t /\ t[k].name = m
            BY <1>1, <3>2 DEF SumTypeOK
        <3> QED
            BY <1>4, <3>3
    <2> QED
        BY <2>1, <2>2
<1>8. SortInv' /\ SlowestFirst'
    BY <1>3 DEF SortInv, SlowestFirst
<1> QED
    BY <1>5, <1>6, <1>7, <1>8

\* One comparison of the inner loop keeps the invariant.
LEMMA CompareKeepsInv == ASSUME SumInv, Compare PROVE SumInv'
<1> USE DEF SumInv
<1>1. /\ phase = "sorting" /\ phase' = "sorting" /\ i < Len(table) /\ j <= Len(table)
      /\ UNCHANGED <<table, i, totals, folds>>
      /\ j' = j + 1
      /\ max_idx' = IF Time(j) > Time(max_idx) THEN j ELSE max_idx
    BY DEF Compare, Slower, Time
<1>2. i \in Nat \ {0} /\ j \in Nat \ {0} /\ max_idx \in Nat \ {0} /\ Len(table) \in Nat
      /\ DOMAIN table = 1..Len(table)
    BY DEF SumTypeOK
<1>3. \A k \in DOMAIN table : Time(k) \in Nat /\ Time(k)' = Time(k)
    BY <1>1, RowType DEF Time
<1>4. /\ i <= max_idx /\ max_idx < j
      /\ \A k \in DOMAIN table : i <= k /\ k < j => Time(k) <= Time(max_idx)
    BY <1>1 DEF SortInv
<1>5. SumTypeOK'
    BY <1>1, <1>2 DEF SumTypeOK
<1>6. RowsAreExact' /\ DroppedOnlyWhenFull' /\ SlowestFirst'
    BY <1>1 DEF RowsAreExact, DroppedOnlyWhenFull, SlowestFirst
<1>7. SortInv'
    <2>1. j \in DOMAIN table /\ max_idx \in DOMAIN table
        BY <1>1, <1>2, <1>4
    <2>2. ASSUME NEW k \in DOMAIN table, i <= k, k < j + 1
          PROVE  Time(k) <= Time(max_idx')
        <3>1. k = j \/ k < j
            BY <1>2, <2>2
        <3> QED
            BY <1>1, <1>3, <1>4, <2>1, <2>2, <3>1
    <2>3. i <= max_idx' /\ max_idx' < j' /\ j' <= Len(table) + 1
        BY <1>1, <1>2, <1>4
    <2>4. max_idx' \in DOMAIN table
        BY <1>1, <2>1
    <2>5. \A k \in DOMAIN table' : i' <= k /\ k < j' => Time(k)' <= Time(max_idx)'
        BY <1>1, <2>2 DEF Time
    <2>6. \A k, l \in DOMAIN table' : k < i' /\ k < l => Time(k)' >= Time(l)'
        BY <1>1 DEF SortInv, Time
    <2> QED
        BY <1>1, <2>3, <2>5, <2>6 DEF SortInv
<1> QED
    BY <1>5, <1>6, <1>7

\* The swap puts a slowest remaining row into place and moves rows whole.
LEMMA SwapKeepsInv == ASSUME SumInv, Swap PROVE SumInv'
<1> USE DEF SumInv
<1>1. /\ phase = "sorting" /\ phase' = "sorting" /\ i < Len(table) /\ j > Len(table)
      /\ UNCHANGED <<totals, folds>>
      /\ table' = [table EXCEPT ![i] = table[max_idx], ![max_idx] = table[i]]
      /\ i' = i + 1 /\ max_idx' = i + 1 /\ j' = i + 2
    BY DEF Swap, Swapped
<1>2. i \in Nat \ {0} /\ j \in Nat \ {0} /\ max_idx \in Nat \ {0} /\ Len(table) \in Nat
      /\ DOMAIN table = 1..Len(table) /\ table \in Seq(Row)
    BY DEF SumTypeOK
<1>3. /\ i <= max_idx /\ max_idx < j /\ j = Len(table) + 1
      /\ \A k \in DOMAIN table : i <= k => Time(k) <= Time(max_idx)
      /\ \A k, l \in DOMAIN table : k < i /\ k < l => Time(k) >= Time(l)
    BY <1>1, <1>2 DEF SortInv
<1>4. i \in DOMAIN table /\ max_idx \in DOMAIN table
    BY <1>1, <1>2, <1>3
<1>5. /\ table' \in Seq(Row) /\ Len(table') = Len(table) /\ DOMAIN table' = DOMAIN table
      /\ table'[i] = table[max_idx] /\ table'[max_idx] = table[i]
      /\ \A k \in DOMAIN table : k # i /\ k # max_idx => table'[k] = table[k]
    BY ONLY <1>1, <1>2, <1>4
\* Where the row now at k was before.
<1> DEFINE was(k) == IF k = i THEN max_idx ELSE IF k = max_idx THEN i ELSE k
<1>6. /\ \A k \in DOMAIN table : was(k) \in DOMAIN table /\ table'[k] = table[was(k)]
      /\ \A k, l \in DOMAIN table : was(k) = was(l) => k = l
      /\ \A k \in DOMAIN table : was(was(k)) = k
    BY <1>4, <1>5
<1>7. SumTypeOK'
    BY <1>1, <1>2, <1>5 DEF SumTypeOK
<1>8. RowsAreExact'
    <2>1. ASSUME NEW k \in DOMAIN table, NEW l \in DOMAIN table,
                 table'[k].name = table'[l].name
          PROVE  k = l
        BY <1>6, <2>1 DEF RowsAreExact
    <2>2. ASSUME NEW k \in DOMAIN table
          PROVE  table'[k].sum = totals[table'[k].name]
        BY <1>6 DEF RowsAreExact
    <2> QED
        BY <1>1, <1>5, <2>1, <2>2 DEF RowsAreExact
<1>9. DroppedOnlyWhenFull'
    <2> SUFFICES ASSUME Len(table') < MaxEntries, NEW n \in CallNames, totals'[n] # Zero
                 PROVE  \E k \in DOMAIN table' : table'[k].name = n
        BY <1>7 DEF DroppedOnlyWhenFull, SumTypeOK
    <2>1. PICK k \in DOMAIN table : table[k].name = n
        BY <1>1, <1>5 DEF DroppedOnlyWhenFull
    <2>2. was(k) \in DOMAIN table' /\ table'[was(k)].name = n
        BY <1>5, <1>6, <2>1
    <2> QED
        BY <2>2
<1>10. SortInv'
    <2>1. ASSUME NEW k \in DOMAIN table
          PROVE  Time(k)' = Time(was(k)) /\ Time(k) \in Nat
        BY <1>6, RowType DEF Time
    <2>2. ASSUME NEW k \in DOMAIN table, NEW l \in DOMAIN table, k < i + 1, k < l
          PROVE  Time(k)' >= Time(l)'
        <3>1. Time(was(l)) \in Nat /\ Time(was(k)) \in Nat
            BY <1>6, <2>1
        <3>2. CASE k = i
            <4>1. was(k) = max_idx /\ i <= was(l)
                BY <1>2, <1>3, <2>2, <3>2
            <4> QED
                BY <1>3, <1>6, <2>1, <3>1, <4>1, SMTT(20)
        <3>3. CASE k < i
            <4>1. was(k) = k /\ k < was(l)
                BY <1>2, <1>3, <2>2, <3>3
            <4> QED
                BY <1>3, <1>6, <2>1, <3>1, <3>3, <4>1, SMTT(20)
        <3> QED
            BY <1>2, <2>2, <3>2, <3>3
    <2>3. i' < Len(table') => /\ i' <= max_idx' /\ max_idx' < j' /\ j' <= Len(table') + 1
        BY <1>1, <1>2, <1>5
    <2>4. ASSUME NEW k \in DOMAIN table', i' <= k, k < j'
          PROVE  Time(k)' <= Time(max_idx)'
        <3>1. k = max_idx'
            BY <1>1, <1>2, <1>5, <2>4
        <3>2. Time(k)' \in Nat
            BY <1>5, <1>6, <2>1
        <3> QED
            BY <3>1, <3>2 DEF Time
    <2> QED
        BY <1>1, <1>5, <2>2, <2>3, <2>4 DEF SortInv
<1>11. SlowestFirst'
    BY <1>1 DEF SlowestFirst
<1> QED
    BY <1>7, <1>8, <1>9, <1>10, <1>11

\* Every step of the table and of the sort keeps the invariant.
LEMMA SumNextInv == SumInv /\ [SumNext]_sumVars => SumInv'
<1> SUFFICES ASSUME SumInv, [SumNext]_sumVars PROVE SumInv'
    OBVIOUS
<1> USE DEF SumInv
<1>1. ASSUME NEW n \in CallNames, NEW failed \in BOOLEAN, NEW dt \in Elapsed, Fold(n, failed, dt)
      PROVE  SumInv'
    BY <1>1, FoldKeepsInv
<1>2. CASE StartPrint
    <2>1. SumTypeOK' /\ RowsAreExact' /\ DroppedOnlyWhenFull' /\ SlowestFirst'
        BY <1>2 DEF StartPrint, SumTypeOK, RowsAreExact, DroppedOnlyWhenFull, SlowestFirst
    <2>2. SortInv'
        <3>1. Len(table) \in Nat /\ DOMAIN table = 1..Len(table)
            BY DEF SumTypeOK
        <3>2. \A k \in DOMAIN table : Time(k) \in Nat
            BY RowType
        <3> QED
            BY <1>2, <3>1, <3>2 DEF StartPrint, SortInv, Time
    <2> QED
        BY <2>1, <2>2
<1>3. CASE Compare
    BY <1>3, CompareKeepsInv
<1>4. CASE Swap
    BY <1>4, SwapKeepsInv
<1>5. CASE Printed
    <2>1. SumTypeOK' /\ RowsAreExact' /\ DroppedOnlyWhenFull' /\ SortInv'
        BY <1>5 DEF Printed, SumTypeOK, RowsAreExact, DroppedOnlyWhenFull, SortInv
    <2>2. SlowestFirst'
        <3>1. Len(table) \in Nat /\ DOMAIN table = 1..Len(table) /\ i \in Nat
            BY DEF SumTypeOK
        <3>2. i >= Len(table) /\ phase = "sorting" /\ table' = table
            BY <1>5 DEF Printed
        <3>3. \A k, l \in DOMAIN table : k < l => k < i
            BY <3>1, <3>2
        <3> QED
            BY <3>2, <3>3 DEF SortInv, SlowestFirst, Time
    <2> QED
        BY <2>1, <2>2
<1>6. CASE UNCHANGED sumVars
    BY <1>6 DEF sumVars, SumTypeOK, RowsAreExact, DroppedOnlyWhenFull, SortInv, SlowestFirst, Time
<1> QED
    BY <1>1, <1>2, <1>3, <1>4, <1>5, <1>6 DEF SumNext, PrintSummary, SumDone

\* The invariant holds in every reachable state.
THEOREM SumInvHolds == SumSpec => []SumInv
BY SumInitInv, SumNextInv, PTL DEF SumSpec

\* The rows of the -c table are exact while it fills, while it is sorted in place
\* and when it is printed.
THEOREM SummaryIsExact == SumSpec => []RowsAreExact
BY SumInvHolds, PTL DEF SumInv

\* summary_lookup_or_add leaves out the calls of a name only when every row is
\* taken by another.
THEOREM OnlyFullTableDrops == SumSpec => []DroppedOnlyWhenFull
BY SumInvHolds, PTL DEF SumInv

\* print_summary prints the slowest syscalls first.
THEOREM SummaryIsSorted == SumSpec => []SlowestFirst
BY SumInvHolds, PTL DEF SumInv

\* How many more steps print_summary can take: i goes up once for each row, and
\* for each i the comparison j goes over the rows below it.
PrintStepsLeft ==
    LET rows == Len(table)
    IN  CASE phase = "counting" -> rows * (rows + 2) + 2
          [] phase = "sorting" ->
               IF i < rows THEN (rows - i) * (rows + 2) + (rows + 3 - j) ELSE 1
          [] OTHER -> 0

\* A round of the sort costs as much as one row more to go.
LEMMA OneRoundLess ==
    ASSUME NEW r \in Nat, NEW b \in Nat
    PROVE  /\ r * (b + 2) \in Nat
           /\ r > 0 => (r - 1) * (b + 2) = r * (b + 2) - (b + 2)
<1>1. r * (b + 2) \in Nat
    OBVIOUS
<1>2. (r - 1) * (b + 2) = r * (b + 2) - (b + 2)
    OBVIOUS
<1> QED
    BY <1>1, <1>2

\* Once it is called, print_summary comes to its end: each comparison and each
\* swap leaves fewer steps to take, whatever the rows hold.
THEOREM SortEnds ==
    SumSpec => /\ [](PrintStepsLeft \in Nat)
               /\ [][PrintSummary => PrintStepsLeft' < PrintStepsLeft]_sumVars
<1> DEFINE L == Len(table)
<1>1. ASSUME SumInv
      PROVE  /\ i \in Nat \ {0} /\ j \in Nat \ {0} /\ L \in Nat
             /\ phase \in {"counting", "sorting", "printed"}
             /\ phase = "sorting" /\ i < L => j <= L + 1
    BY <1>1 DEF SumInv, SumTypeOK, SortInv
<1>2. ASSUME SumInv
      PROVE  /\ L * (L + 2) \in Nat
             /\ L > 0 => (L - 1) * (L + 2) = L * (L + 2) - (L + 2)
             /\ i < L => /\ (L - i) * (L + 2) \in Nat
                          /\ (L - (i + 1)) * (L + 2) = (L - i) * (L + 2) - (L + 2)
    <2>1. i \in Nat \ {0} /\ L \in Nat
        BY <1>1, <1>2
    <2> HIDE DEF L
    <2>2. /\ L * (L + 2) \in Nat
          /\ L > 0 => (L - 1) * (L + 2) = L * (L + 2) - (L + 2)
        BY <2>1, OneRoundLess, Zenon
    <2>3. ASSUME i < L
          PROVE  /\ (L - i) * (L + 2) \in Nat
                 /\ (L - (i + 1)) * (L + 2) = (L - i) * (L + 2) - (L + 2)
        <3>1. L - i \in Nat /\ L - i > 0 /\ L - (i + 1) = (L - i) - 1
            BY <2>1, <2>3
        <3> QED
            BY <2>1, <3>1, OneRoundLess, Zenon
    <2> QED
        BY <2>2, <2>3
<1>3. ASSUME SumInv PROVE PrintStepsLeft \in Nat
    <2>1. /\ j \in Nat /\ L \in Nat /\ L * (L + 2) \in Nat
          /\ phase = "sorting" /\ i < L => (L - i) * (L + 2) \in Nat /\ j <= L + 1
        BY <1>1, <1>2, <1>3
    <2>2. \/ PrintStepsLeft = L * (L + 2) + 2
          \/ /\ PrintStepsLeft = (L - i) * (L + 2) + (L + 3 - j)
             /\ phase = "sorting" /\ i < L
          \/ PrintStepsLeft \in {0, 1}
        BY Zenon DEF PrintStepsLeft
    <2> DEFINE a == L * (L + 2)  b == (L - i) * (L + 2)
    <2> HIDE DEF L, a, b
    <2>3. /\ a \in Nat
          /\ phase = "sorting" /\ i < L => b \in Nat
          /\ \/ PrintStepsLeft = a + 2
             \/ PrintStepsLeft = b + (L + 3 - j) /\ phase = "sorting" /\ i < L
             \/ PrintStepsLeft \in {0, 1}
        BY <2>1, <2>2, Zenon DEF a, b
    <2> QED
        BY <2>1, <2>3
<1>4. ASSUME SumInv, PrintSummary PROVE PrintStepsLeft' < PrintStepsLeft
    <2>1. /\ i \in Nat \ {0} /\ j \in Nat \ {0} /\ L \in Nat
          /\ phase = "sorting" /\ i < L => j <= L + 1
        BY <1>1, <1>4
    <2>2. /\ L * (L + 2) \in Nat
          /\ L > 0 => (L - 1) * (L + 2) = L * (L + 2) - (L + 2)
          /\ i < L => /\ (L - i) * (L + 2) \in Nat
                       /\ (L - (i + 1)) * (L + 2) = (L - i) * (L + 2) - (L + 2)
        BY <1>2, <1>4
    <2>3. CASE StartPrint
        <3>1. /\ phase = "counting" /\ phase' = "sorting" /\ i' = 1 /\ j' = 2 /\ L' = L
            BY <2>3, Zenon DEF StartPrint
        <3>2. /\ PrintStepsLeft = L * (L + 2) + 2
              /\ 1 < L => PrintStepsLeft' = (L - 1) * (L + 2) + (L + 3 - 2)
              /\ 1 >= L => PrintStepsLeft' = 1
            BY <2>1, <3>1 DEF PrintStepsLeft
        <3> DEFINE a == L * (L + 2)  b == (L - 1) * (L + 2)
        <3>3. /\ a \in Nat /\ (L > 0 => b = a - (L + 2))
              /\ PrintStepsLeft = a + 2
              /\ 1 < L => PrintStepsLeft' = b + (L + 3 - 2)
              /\ 1 >= L => PrintStepsLeft' = 1
            BY <2>2, <3>2, Zenon
        <3> HIDE DEF L, a, b
        <3> QED
            BY <2>1, <3>3
    <2>4. CASE Compare
        <3>1. /\ phase = "sorting" /\ phase' = phase /\ i < L /\ i' = i /\ j' = j + 1
              /\ L' = L
            BY <2>4, Zenon DEF Compare
        <3>2. /\ PrintStepsLeft = (L - i) * (L + 2) + (L + 3 - j)
              /\ PrintStepsLeft' = (L - i) * (L + 2) + (L + 3 - (j + 1))
            BY <3>1, Zenon DEF PrintStepsLeft
        <3> HIDE DEF L
        <3> QED
            BY <2>1, <2>2, <3>1, <3>2
    <2>5. CASE Swap
        <3>1. /\ phase = "sorting" /\ phase' = phase /\ i < L /\ j > L
              /\ i' = i + 1 /\ j' = i + 2
            BY <2>5, Zenon DEF Swap
        <3>2. L' = L
            BY <1>4, <2>1, <2>5 DEF Swap, Swapped, SumInv, SumTypeOK
        <3>3. /\ PrintStepsLeft = (L - i) * (L + 2) + (L + 3 - j)
              /\ i + 1 < L =>
                   PrintStepsLeft' = (L - (i + 1)) * (L + 2) + (L + 3 - (i + 2))
              /\ ~(i + 1 < L) => PrintStepsLeft' = 1
            BY <2>1, <3>1, <3>2 DEF PrintStepsLeft
        <3> HIDE DEF L
        <3> QED
            BY <2>1, <2>2, <3>1, <3>3
    <2>6. CASE Printed
        <3>1. phase = "sorting" /\ phase' = "printed" /\ i >= L
            BY <2>6, Zenon DEF Printed
        <3> QED
            BY <2>1, <3>1 DEF PrintStepsLeft
    <2> QED
        BY <1>4, <2>3, <2>4, <2>5, <2>6, Zenon DEF PrintSummary
<1>5. SumInv /\ [SumNext]_sumVars =>
        [PrintSummary => PrintStepsLeft' < PrintStepsLeft]_sumVars
    BY <1>4, Zenon
<1> QED
    BY <1>3, <1>5, SumInvHolds, PTL DEF SumSpec
=============================================================================
