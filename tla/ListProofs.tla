----------------------------- MODULE ListProofs -----------------------------
(* For any well-formed list, any limit on its entries and any buffer, the     *)
(* decoders of module ListDecoders show the first entries of the argument, and*)
(* their dots say whether that was all; none of them takes more steps than its*)
(* limits allow.                                                              *)
EXTENDS ListDecoders, FiniteSetTheorems, WellFoundedInduction, TLAPS

(* What holds of the arrays, of getdents, of a fd_set and of argv between any *)
(* two steps of their loops.                                                  *)
ArrayFns == {"iovec", "epoll", "pollfds"}
Ended == at \in {"close", "done"}

ListTypeOK ==
  /\ list \in List /\ at \in ListFns \cup {"start", "plain", "close", "done"}
  /\ at \in ListFns => at = list.fn
  /\ n \in Nat /\ left \in Int /\ pos \in Nat /\ size \in Nat
  /\ more \in BOOLEAN /\ marked \in BOOLEAN
  /\ shown \in Seq([entry : Nat, len : Nat])
  /\ at \in {"start", "plain"} =>
       n = 0 /\ shown = <<>> /\ pos = 0 /\ size = 0 /\ ~more

(* The dots were written if they were due and there was room.                 *)
DotsInv ==
  at = "done" =>
    /\ marked => more
    /\ more /\ size + (IF list.fn = "argv" THEN 4 ELSE 0) < OutSize => marked

(* Every entry of an array that was reached is printed; what is left of the   *)
(* bytes returned are those behind the entries printed.                       *)
ArrayInv ==
  list.fn \in ArrayFns =>
    /\ Len(shown) = n /\ n <= Len(list.entries) /\ n <= Cap /\ n <= list.mapped
    /\ \A m \in 1 .. n : shown[m].len = IF list.fn = "iovec" THEN BytesIn(m)
                                        ELSE list.entries[m]
    /\ at = "iovec" /\ list.total >= 0 =>
         left = list.total - Smaller(Sum[n], list.total)
    /\ at \notin {"start", "plain"} => (more <=> PassesCap)
    /\ Ended => ~ArrayOn \/ size >= OutSize

(* pos is where the last entry that was reached ends, within what was read.   *)
DirentInv ==
  list.fn = "getdents" =>
    /\ n <= Len(list.entries) /\ n <= Cap /\ pos = Sum[n]
    /\ n > 0 => pos <= Got
    /\ Len(shown) <= n /\ (size < OutSize => Len(shown) = n)
    /\ \A m \in 1 .. Len(shown) : shown[m].len = list.entries[m]
    /\ Ended => (more <=> pos < Got)

(* pos counts the descriptors below n, and they are the first entries.        *)
FdSetInv ==
  list.fn = "fdset" =>
    /\ pos <= Len(list.entries)
    /\ n > 0 => n <= Bits
    /\ \A m \in DOMAIN list.entries : m <= pos <=> list.entries[m] < n
    /\ Len(shown) <= pos /\ (size < OutSize => Len(shown) = pos)
    /\ \A m \in 1 .. Len(shown) : shown[m].len = list.entries[m]
    /\ Ended => (more <=> n < Bits) /\ (n < Bits => IsSet)

(* Every string that was reached is printed or did not fit.                   *)
ArgvInv ==
  list.fn = "argv" =>
    /\ n <= Len(list.entries) /\ n <= Cap
    /\ more <=> n = Cap
    /\ \A m \in DOMAIN shown : shown[m].entry <= n
    /\ DropsOnlyWhenFull
    /\ Ended => ~ArgvOn

ListInv ==
  ListTypeOK /\ DotsInv /\ ArrayInv /\ DirentInv /\ FdSetInv /\ ArgvInv

(* Induction over the numbers, from the well-foundedness of their order.      *)
LEMMA InductionOnSet ==
  ASSUME NEW S, 0 \in S, \A m \in Nat : m \in S => m + 1 \in S
  PROVE  Nat \subseteq S
<1> DEFINE R == {r \in Nat \X Nat : r[1] < r[2]}
           T == Nat \ S
<1>1. IsWellFoundedOn(R, Nat)
    BY NatLessThanWellFounded, Zenon DEF OpToRel
<1>2. SUFFICES ASSUME T # {} PROVE FALSE
    BY Zenon
<1>3. PICK x \in T : \A y \in T : ~(<<y, x>> \in R)
    <2> HIDE DEF R, T
    <2>1. T \subseteq Nat
        BY Zenon DEF T
    <2> QED
        BY <1>1, <1>2, <2>1, WFMin, Zenon
<1>4. x \in Nat /\ x # 0 /\ x - 1 \in Nat /\ x = (x - 1) + 1
    BY <1>3
<1>5. x - 1 \in T
    BY <1>3, <1>4
<1>6. <<x - 1, x>> \in R
    BY <1>4
<1> QED
    BY <1>3, <1>5, <1>6, Zenon

(* The sums are determined by their definition.                               *)
LEMMA SumOfDef ==
  ASSUME NEW s \in Seq(Nat), NEW j \in 0 .. Len(s)
  PROVE  SumOf(s)[j] = IF j = 0 THEN 0 ELSE SumOf(s)[j - 1] + s[j]
<1> DEFINE L == Len(s)
           E == 0 .. L
           B(f, i) == IF i = 0 THEN 0 ELSE f[i - 1] + s[i]
           Solves(f, m) == \A i \in E : i <= m => f[i] = B(f, i)
           S == {m \in Nat : \E f : f = [i \in E |-> f[i]] /\ Solves(f, m)}
<1>1. L \in Nat /\ \A i \in E : i \in Nat
    OBVIOUS
<1>2. 0 \in S
    <2> DEFINE g == [i \in E |-> 0]
    <2>1. g = [i \in E |-> g[i]] /\ Solves(g, 0)
        OBVIOUS
    <2> QED
        BY <2>1
<1>3. ASSUME NEW m \in Nat, m \in S PROVE m + 1 \in S
    <2>1. PICK f : f = [i \in E |-> f[i]] /\ Solves(f, m)
        BY <1>3, Zenon
    <2> DEFINE g == [i \in E |-> IF i = m + 1 THEN f[m] + s[i] ELSE f[i]]
    <2>2. g = [i \in E |-> g[i]]
        BY Zenon
    <2>3. ASSUME NEW i \in E, i <= m PROVE f[i] = B(f, i)
        BY <2>1, <2>3, Zenon
    <2>4. ASSUME NEW i \in E, i <= m + 1 PROVE g[i] = B(g, i)
        <3>1. i \in Nat /\ g[i] = IF i = m + 1 THEN f[m] + s[i] ELSE f[i]
            OBVIOUS
        <3>2. CASE i = 0
            <4>1. i <= m /\ i # m + 1
                BY <3>2
            <4> QED
                BY <2>3, <3>1, <3>2, <4>1
        <3>3. CASE i # 0
            <4>1. i - 1 \in E /\ i - 1 # m + 1
                BY <3>1, <3>3, <2>4
            <4>2. g[i - 1] = f[i - 1]
                BY <4>1
            <4>3. CASE i = m + 1
                BY <3>1, <3>3, <4>2, <4>3
            <4>4. CASE i # m + 1
                <5>1. i <= m
                    BY <2>4, <3>1, <4>4
                <5>2. f[i] = B(f, i)
                    BY <2>3, <5>1, Zenon
                <5> QED
                    BY <3>1, <3>3, <4>2, <4>4, <5>2
            <4> QED
                BY <4>3, <4>4
        <3> QED
            BY <3>2, <3>3
    <2>5. Solves(g, m + 1)
        BY <2>4, Zenon
    <2>6. m + 1 \in Nat
        OBVIOUS
    <2> HIDE DEF g, Solves
    <2> QED
        BY <2>2, <2>5, <2>6, Zenon
<1>4. L \in S
    <2>1. \A m \in Nat : m \in S => m + 1 \in S
        BY <1>3, Zenon
    <2> HIDE DEF S
    <2>2. Nat \subseteq S
        BY <1>2, <2>1, InductionOnSet, Zenon
    <2> QED
        BY <1>1, <2>2, Zenon
<1>5. PICK h : h = [i \in E |-> h[i]] /\ Solves(h, L)
    BY <1>4, Zenon
<1>6. h = [i \in E |-> B(h, i)]
    <2>1. \A i \in E : h[i] = B(h, i)
        <3> HIDE DEF B
        <3> QED
            BY <1>1, <1>5
    <2> HIDE DEF B, E
    <2> QED
        BY <1>5, <2>1, Zenon
<1>7. SumOf(s) = CHOOSE f : f = [i \in E |-> B(f, i)]
    BY DEF SumOf
<1>8. SumOf(s) = [i \in E |-> B(SumOf(s), i)]
    <2> HIDE DEF B, E
    <2> QED
        BY <1>6, <1>7, Zenon
<1> QED
    BY <1>8, Zenon

(* The sums are numbers and never decrease.                                   *)
LEMMA SumsGrow ==
  ASSUME NEW s \in Seq(Nat), NEW j \in 0 .. Len(s), NEW i \in 0 .. j
  PROVE  SumOf(s)[j] \in Nat /\ SumOf(s)[i] <= SumOf(s)[j]
<1> DEFINE Good(m) == m <= Len(s) =>
                        \A l \in 0 .. m : /\ SumOf(s)[l] \in Nat
                                          /\ SumOf(s)[l] <= SumOf(s)[m]
           S == {m \in Nat : Good(m)}
<1>1. 0 \in S
    <2>1. SumOf(s)[0] = 0
        BY SumOfDef
    <2> QED
        BY <2>1
<1>2. ASSUME NEW m \in Nat, m \in S PROVE m + 1 \in S
    <2> SUFFICES ASSUME m + 1 <= Len(s) PROVE Good(m + 1)
        OBVIOUS
    <2>1. Good(m) /\ m \in 0 .. Len(s) /\ m + 1 \in 0 .. Len(s) /\ s[m + 1] \in Nat
        BY <1>2
    <2>2. SumOf(s)[m + 1] = SumOf(s)[m] + s[m + 1]
        <3>1. (m + 1) - 1 = m /\ m + 1 # 0
            OBVIOUS
        <3> QED
            BY <2>1, <3>1, SumOfDef
    <2>3. SumOf(s)[m] \in Nat /\ SumOf(s)[m] <= SumOf(s)[m + 1]
        <3>1. m \in 0 .. m /\ m <= Len(s)
            BY <2>1
        <3>2. SumOf(s)[m] \in Nat
            BY <2>1, <3>1, Zenon
        <3> QED
            BY <2>1, <2>2, <3>2
    <2>4. ASSUME NEW l \in 0 .. m + 1
          PROVE  SumOf(s)[l] \in Nat /\ SumOf(s)[l] <= SumOf(s)[m + 1]
        <3>1. CASE l = m + 1
            BY <2>1, <2>2, <2>3, <3>1
        <3>2. CASE l # m + 1
            <4>1. l \in 0 .. m /\ m <= Len(s)
                BY <2>1, <3>2
            <4>2. SumOf(s)[l] \in Nat /\ SumOf(s)[l] <= SumOf(s)[m]
                BY <2>1, <4>1, Zenon
            <4> QED
                BY <2>1, <2>2, <2>3, <4>2
        <3> QED
            BY <3>1, <3>2
    <2> QED
        BY <2>4, Zenon
<1>3. j \in S
    <2>1. j \in Nat
        OBVIOUS
    <2>2. \A m \in Nat : m \in S => m + 1 \in S
        BY <1>2, Zenon
    <2> HIDE DEF S
    <2>3. Nat \subseteq S
        BY <1>1, <2>2, InductionOnSet, Zenon
    <2> QED
        BY <2>1, <2>3, Zenon
<1> QED
    BY <1>3

(* What the assumptions say of the call being decoded.                        *)
LEMMA ListFacts ==
  ASSUME ListTypeOK
  PROVE  /\ list.fn \in ListFns /\ list.entries \in Seq(Nat)
         /\ Len(list.entries) \in Nat /\ DOMAIN list.entries = 1 .. Len(list.entries)
         /\ list.count \in Int /\ list.total \in Int /\ list.mapped \in Nat
         /\ list.width \in Nat /\ WellFormed(list)
         /\ Cap \in Nat \ {0} /\ Header \in Nat \ {0} /\ MaxBytes \in Nat
         /\ MaxBits \in Nat /\ OutSize \in Nat
<1>1. list \in ListType /\ WellFormed(list)
    BY ListAssumption, WellFormedAssumption, Zenon DEF ListTypeOK
<1>2. list.entries \in Seq(Nat)
    BY <1>1 DEF ListType
<1> QED
    BY <1>1, <1>2, ListAssumption DEF ListType

(* Everything that an index of a loop points at is there to be read.          *)
LEMMA EntryIsThere ==
  ASSUME ListInv
  PROVE  /\ at \in ArrayFns /\ ArrayOn => n + 1 \in DOMAIN list.entries
         /\ at = "getdents" /\ pos + Header <= Got => n + 1 \in DOMAIN list.entries
         /\ ArgvOn => n + 1 \in DOMAIN list.entries
<1>1. /\ ListTypeOK /\ n \in Nat /\ pos \in Nat
      /\ at \in ListFns => at = list.fn
    BY Zenon DEF ListInv, ListTypeOK
<1>2. /\ Len(list.entries) \in Nat /\ DOMAIN list.entries = 1 .. Len(list.entries)
      /\ WellFormed(list)
    BY <1>1, ListFacts, Zenon
<1>3. /\ list.count \in Int /\ list.mapped \in Nat /\ Cap \in Nat /\ MaxBytes \in Nat
      /\ Header \in Nat /\ Header # 0
    BY <1>1, ListFacts, Zenon
<1>4. ASSUME at \in ArrayFns, ArrayOn PROVE n + 1 \in DOMAIN list.entries
    <2>1. list.fn \in ArrayFns
        BY <1>1, <1>4, Zenon DEF ArrayFns, ListFns
    <2>2. Counted(list.count, Len(list.entries))
        BY <1>2, <2>1, Zenon DEF WellFormed, ArrayFns
    <2>3. n < list.count
        <3>1. n < Smaller(list.count, Cap)
            BY <1>4, Zenon DEF ArrayOn
        <3> QED
            BY <1>1, <1>3, <3>1 DEF Smaller
    <2>4. Len(list.entries) = list.count
        BY <1>1, <1>3, <2>2, <2>3 DEF Counted
    <2> QED
        BY <1>1, <1>2, <2>3, <2>4
<1>5. ASSUME at = "getdents", pos + Header <= Got PROVE n + 1 \in DOMAIN list.entries
    <2>1. list.fn = "getdents"
        BY <1>1, <1>5, Zenon DEF ListFns
    <2>2. n <= Len(list.entries) /\ pos = SumOf(list.entries)[n]
        BY <2>1, Zenon DEF ListInv, DirentInv, Sum
    <2>3. Counted(list.count, SumOf(list.entries)[Len(list.entries)])
        BY <1>2, <2>1, Zenon DEF WellFormed, Total
    <2>4. Got <= list.count /\ Got \in Int
        BY <1>3 DEF Got, Smaller
    <2>5. pos < list.count
        BY <1>1, <1>3, <1>5, <2>4
    <2>6. pos # SumOf(list.entries)[Len(list.entries)]
        BY <1>1, <1>3, <2>3, <2>5 DEF Counted
    <2>7. n # Len(list.entries)
        BY <2>2, <2>6, Zenon
    <2>8. n <= Len(list.entries)
        BY <2>2, Zenon
    <2> QED
        BY <1>1, <1>2, <2>7, <2>8
<1>6. ASSUME ArgvOn PROVE n + 1 \in DOMAIN list.entries
    <2>1. n < Len(list.entries)
        BY <1>6, Zenon DEF ArgvOn
    <2> QED
        BY <1>1, <1>2, <2>1
<1> QED
    BY <1>4, <1>5, <1>6, Zenon

(* Printing appends one entry, or finds the buffer full and does nothing.     *)
LEMMA ShowEffect ==
  ASSUME ListTypeOK, NEW l \in Nat, Show(l)
  PROVE  /\ shown' \in Seq([entry : Nat, len : Nat])
         /\ size' \in Nat /\ size <= size'
         /\ \/ /\ size < OutSize /\ Len(shown') = Len(shown) + 1
               /\ \A m \in 1 .. Len(shown) : shown'[m] = shown[m]
               /\ shown'[Len(shown) + 1].len = l
            \/ size >= OutSize /\ shown' = shown /\ size' = size
<1> DEFINE e == [entry |-> n + 1, len |-> l]
<1>1. shown \in Seq([entry : Nat, len : Nat]) /\ size \in Nat /\ n \in Nat
    BY Zenon DEF ListTypeOK
<1>2. e \in [entry : Nat, len : Nat] /\ e.len = l
    BY <1>1
<1>3. list.width \in Nat /\ OutSize \in Nat
    BY ListFacts
<1>4. CASE size < OutSize
    <2>1. /\ shown' = Append(shown, e)
          /\ size' = size + list.width + (IF shown = <<>> THEN 0 ELSE 2)
        BY <1>4, Zenon DEF Show
    <2>2. size' \in Nat /\ size <= size'
        <3>1. size' = size + list.width \/ size' = size + list.width + 2
            <4>1. size \in Nat
                BY <1>1, Zenon
            <4> QED
                BY <1>3, <2>1, <4>1
        <3>2. size \in Nat
            BY <1>1, Zenon
        <3> QED
            BY <1>3, <3>1, <3>2
    <2> HIDE DEF e
    <2>3. /\ shown' \in Seq([entry : Nat, len : Nat])
          /\ Len(shown') = Len(shown) + 1
          /\ \A m \in 1 .. Len(shown) : shown'[m] = shown[m]
          /\ shown'[Len(shown) + 1] = e
        BY <1>1, <1>2, <2>1
    <2> QED
        BY <1>2, <1>4, <2>2, <2>3
<1>5. CASE ~(size < OutSize)
    BY <1>1, <1>3, <1>5 DEF Show
<1> QED
    BY <1>4, <1>5

(* The bytes of one more iovec: what it holds, or what is left of them.       *)
LEMMA IovecFilled ==
  ASSUME ListInv, at = "iovec", ArrayOn
  PROVE  LET len == list.entries[n + 1]
         IN  /\ Filled(len) \in Nat /\ Filled(len) = BytesIn(n + 1)
             /\ LeftAfter(len) \in Int
             /\ list.total >= 0 =>
                  LeftAfter(len) = list.total - Smaller(Sum[n + 1], list.total)
<1> DEFINE len == list.entries[n + 1]
<1>1. ListTypeOK /\ n \in Nat /\ left \in Int /\ list.fn = "iovec"
    BY DEF ListInv, ListTypeOK, ListFns
<1>2. n + 1 \in DOMAIN list.entries
    BY EntryIsThere DEF ArrayFns
<1>3. /\ list.entries \in Seq(Nat) /\ n + 1 \in 0 .. Len(list.entries) /\ len \in Nat
      /\ n \in 0 .. Len(list.entries) /\ list.total \in Int
    <2>1. /\ list.entries \in Seq(Nat) /\ Len(list.entries) \in Nat
          /\ DOMAIN list.entries = 1 .. Len(list.entries) /\ list.total \in Int
        BY <1>1, ListFacts, Zenon
    <2>2. len \in Nat
        BY <1>2, <2>1
    <2>3. n \in Nat
        BY <1>1, Zenon
    <2>4. n + 1 \in 1 .. Len(list.entries) /\ Len(list.entries) \in Nat
        BY <1>2, <2>1, Zenon
    <2>5. n + 1 \in 0 .. Len(list.entries) /\ n \in 0 .. Len(list.entries)
        BY <2>3, <2>4
    <2> QED
        BY <2>1, <2>2, <2>5, Zenon
<1>4. Sum[n] \in Nat /\ Sum[n + 1] = Sum[n] + len
    <2>1. n \in 0 .. n /\ (n + 1) - 1 = n /\ n + 1 # 0
        BY <1>1
    <2>2. SumOf(list.entries)[n] \in Nat
        BY <1>3, <2>1, SumsGrow, Zenon
    <2>3. SumOf(list.entries)[n + 1] = SumOf(list.entries)[n] + len
        BY <1>3, <2>1, SumOfDef
    <2> QED
        BY <2>2, <2>3, Zenon DEF Sum
<1>5. list.total >= 0 => left = list.total - Smaller(Sum[n], list.total)
    BY <1>1, Zenon DEF ListInv, ArrayInv, ArrayFns
<1>6. (n + 1) - 1 = n
    BY <1>1
<1>7. CASE list.total < 0
    BY <1>1, <1>3, <1>7 DEF Filled, LeftAfter, BytesIn
<1>8. CASE list.total >= 0
    <2> HIDE DEF len
    <2>1. /\ Filled(len) = Smaller(len, IF left > 0 THEN left ELSE 0)
          /\ LeftAfter(len) = left - Filled(len)
          /\ BytesIn(n + 1) = Smaller(Sum[n + 1], list.total) - Smaller(Sum[n], list.total)
        BY <1>3, <1>6, <1>8 DEF Filled, LeftAfter, BytesIn
    <2>2. left = list.total - Smaller(Sum[n], list.total)
        BY <1>5, <1>8, Zenon
    <2>3. len \in Nat
        BY <1>3, Zenon DEF len
    <2> DEFINE a == Sum[n]
               b == Sum[n + 1]
               t == list.total
               f == Filled(len)
    <2>4. /\ a \in Nat /\ b = a + len /\ t \in Int /\ t >= 0
          /\ left = t - (IF a < t THEN a ELSE t)
          /\ f = IF len < (IF left > 0 THEN left ELSE 0) THEN len
                 ELSE IF left > 0 THEN left ELSE 0
        BY <1>3, <1>4, <1>8, <2>1, <2>2, <2>3 DEF Smaller, len
    <2>5. BytesIn(n + 1) = (IF b < t THEN b ELSE t) - (IF a < t THEN a ELSE t)
        BY <2>1, Zenon DEF Smaller
    <2> HIDE DEF a, b, t, f
    <2>6. /\ f \in Nat /\ left - f = t - (IF b < t THEN b ELSE t)
          /\ f = (IF b < t THEN b ELSE t) - (IF a < t THEN a ELSE t)
        BY <2>3, <2>4
    <2>7. left - f \in Int
        BY <1>1, <2>6
    <2> QED
        BY <1>8, <2>1, <2>5, <2>6, <2>7 DEF Smaller, a, b, t, f, len
<1> QED
    BY <1>3, <1>7, <1>8

(* A step is one of the decoder that was called.                              *)
LEMMA StepOfItsDecoder ==
  ASSUME ListTypeOK, ListNext
  PROVE  /\ list' = list
         /\ \/ Refuse \/ Open \/ Finish
            \/ list.fn \in ArrayFns /\ (ArrayEntry \/ ArrayEnds)
            \/ list.fn = "getdents" /\ (Dirent \/ DirentsEnd)
            \/ list.fn = "fdset" /\ (Descriptor \/ DescriptorsEnd)
            \/ list.fn = "argv" /\ (ArgvString \/ ArgvEnds)
<1>1. at \in ListFns => at = list.fn
    BY DEF ListTypeOK
<1>2. CASE Refuse \/ Open \/ Finish
    BY <1>2, Zenon DEF Refuse, Open, Finish
<1>3. CASE ArrayEntry \/ ArrayEnds
    BY <1>1, <1>3, Zenon DEF ArrayEntry, ArrayEnds, ArrayFns, ListFns
<1>4. CASE Dirent \/ DirentsEnd
    BY <1>1, <1>4, Zenon DEF Dirent, DirentsEnd, ListFns
<1>5. CASE Descriptor \/ DescriptorsEnd
    BY <1>1, <1>5, Zenon DEF Descriptor, DescriptorsEnd, ListFns
<1>6. CASE ArgvString \/ ArgvEnds
    BY <1>1, <1>6, Zenon DEF ArgvString, ArgvEnds, ListFns
<1> QED
    BY <1>2, <1>3, <1>4, <1>5, <1>6, Zenon DEF ListNext

(* The state of the decoder keeps its type.                                   *)
LEMMA ListTypeStep ==
  ASSUME ListInv, ListNext
  PROVE  ListTypeOK'
<1>1. ListTypeOK /\ list' = list
    BY StepOfItsDecoder, Zenon DEF ListInv
<1>2. /\ list \in List /\ list.fn \in ListFns /\ list.total \in Int
      /\ n \in Nat /\ left \in Int /\ pos \in Nat /\ size \in Nat
      /\ more \in BOOLEAN /\ marked \in BOOLEAN
      /\ shown \in Seq([entry : Nat, len : Nat])
      /\ at \in ListFns => at = list.fn
      /\ list.entries \in Seq(Nat) /\ OutSize \in Nat
      /\ \A m \in DOMAIN list.entries : list.entries[m] \in Nat
    <2>1. list.entries \in Seq(Nat)
        BY <1>1, ListFacts, Zenon
    <2>2. \A m \in DOMAIN list.entries : list.entries[m] \in Nat
        BY <2>1
    <2> QED
        BY <1>1, <2>1, <2>2, ListFacts, Zenon DEF ListTypeOK
<1>3. CASE Refuse
    <2>1. /\ at = "start" /\ at' = "plain"
          /\ UNCHANGED <<list, n, shown, left, pos, more, size, marked>>
        BY <1>3, Zenon DEF Refuse
    <2>2. n = 0 /\ shown = <<>> /\ pos = 0 /\ size = 0 /\ ~more
        BY <1>1, <2>1, Zenon DEF ListTypeOK
    <2> QED
        BY <1>2, <2>1, <2>2, Zenon DEF ListTypeOK, ListFns
<1>4. CASE Open
    <2>1. at' = list.fn /\ size' \in Nat /\ left' \in Int /\ more' \in BOOLEAN
        BY <1>2, <1>4 DEF Open
    <2>2. UNCHANGED <<list, n, shown, pos, marked>>
        BY <1>4, Zenon DEF Open
    <2> QED
        BY <1>2, <2>1, <2>2, Zenon DEF ListTypeOK, ListFns
<1>5. CASE ArrayEnds \/ DirentsEnd \/ DescriptorsEnd \/ ArgvEnds
    <2>1. at' = "close" /\ UNCHANGED <<list, n, shown, left, pos, size, marked>>
        BY <1>5, Zenon DEF ArrayEnds, DirentsEnd, DescriptorsEnd, ArgvEnds
    <2>2. more' \in BOOLEAN
        <3>1. CASE ArrayEnds \/ ArgvEnds
            BY <1>2, <3>1, Zenon DEF ArrayEnds, ArgvEnds
        <3>2. CASE DirentsEnd \/ DescriptorsEnd
            <4>1. pos \in Int /\ n \in Int /\ Got \in Int /\ Bits \in Int
                BY <1>1, <1>2, ListFacts DEF Got, Bits, Smaller
            <4>2. (pos < Got) \in BOOLEAN /\ (n < Bits) \in BOOLEAN
                BY <4>1
            <4> QED
                BY <3>2, <4>2, Zenon DEF DirentsEnd, DescriptorsEnd
        <3> QED
            BY <1>5, <3>1, <3>2
    <2> QED
        BY <1>2, <2>1, <2>2, Zenon DEF ListTypeOK, ListFns
<1>6. CASE Finish
    <2>1. at' = "done" /\ UNCHANGED <<list, n, shown, left, pos, more>>
        BY <1>6, Zenon DEF Finish
    <2>2. marked' \in BOOLEAN /\ size' \in Nat
        BY <1>2, <1>6 DEF Finish, DotsWidth
    <2> QED
        BY <1>2, <2>1, <2>2, Zenon DEF ListTypeOK, ListFns
<1>7. CASE ArrayEntry
    <2>1. n + 1 \in DOMAIN list.entries
        BY <1>7, EntryIsThere, Zenon DEF ArrayEntry, ArrayFns
    <2> DEFINE len == list.entries[n + 1]
    <2>2. len \in Nat /\ n' \in Nat /\ at' = at /\ at \in ListFns
        BY <1>2, <1>7, <2>1 DEF ArrayEntry, ListFns
    <2>3. at = "iovec" => Filled(len) \in Nat /\ LeftAfter(len) \in Int
        BY <1>7, IovecFilled, Zenon DEF ArrayEntry
    <2> DEFINE l == IF at = "iovec" THEN Filled(len) ELSE len
    <2>4. Show(l) /\ l \in Nat /\ left' \in Int
        BY <1>2, <1>7, <2>2, <2>3, Zenon DEF ArrayEntry
    <2> HIDE DEF l
    <2>5. shown' \in Seq([entry : Nat, len : Nat]) /\ size' \in Nat
        BY <1>1, <2>4, ShowEffect
    <2>6. UNCHANGED <<list, at, pos, more, marked>>
        BY <1>7, Zenon DEF ArrayEntry
    <2> QED
        BY <1>2, <2>2, <2>4, <2>5, <2>6, Zenon DEF ListTypeOK, ListFns
<1>8. CASE Dirent
    <2>1. n + 1 \in DOMAIN list.entries
        BY <1>8, EntryIsThere, Zenon DEF Dirent
    <2>2. DirentAtPos \in Nat /\ Show(DirentAtPos)
        BY <1>2, <1>8, <2>1, Zenon DEF Dirent, DirentAtPos
    <2>3. n' \in Nat /\ pos' \in Nat
        BY <1>2, <1>8, <2>2 DEF Dirent
    <2>4. shown' \in Seq([entry : Nat, len : Nat]) /\ size' \in Nat
        BY <1>1, <2>2, ShowEffect
    <2>5. UNCHANGED <<list, at, left, more, marked>> /\ at = "getdents"
        BY <1>8, Zenon DEF Dirent
    <2> QED
        BY <1>2, <2>3, <2>4, <2>5, Zenon DEF ListTypeOK, ListFns
<1>9. CASE Descriptor
    <2>1. n' \in Nat /\ UNCHANGED <<list, at, left, more, marked>> /\ at = "fdset"
        BY <1>2, <1>9 DEF Descriptor
    <2>2. CASE IsSet
        <3>1. Show(n) /\ pos' \in Nat
            BY <1>2, <1>9, <2>2 DEF Descriptor
        <3>2. shown' \in Seq([entry : Nat, len : Nat]) /\ size' \in Nat
            BY <1>1, <1>2, <3>1, ShowEffect
        <3> QED
            BY <1>2, <2>1, <3>1, <3>2, Zenon DEF ListTypeOK, ListFns
    <2>3. CASE ~IsSet
        <3>1. UNCHANGED <<pos, shown, size>>
            BY <1>9, <2>3, Zenon DEF Descriptor
        <3> QED
            BY <1>2, <2>1, <3>1, Zenon DEF ListTypeOK, ListFns
    <2> QED
        BY <2>2, <2>3
<1>10. CASE ArgvString
    <2>1. n + 1 \in DOMAIN list.entries
        BY <1>10, EntryIsThere, Zenon DEF ArgvString
    <2>2. list.entries[n + 1] \in Nat /\ Comma \in Nat /\ n + 1 \in Nat
        BY <1>2, <2>1 DEF Comma
    <2>3. [entry |-> n + 1, len |-> list.entries[n + 1]] \in [entry : Nat, len : Nat]
        BY <2>2
    <2>4. shown' \in Seq([entry : Nat, len : Nat]) /\ size' \in Nat
        <3>1. CASE StringFits
            <4>1. /\ shown' = Append(shown, [entry |-> n + 1, len |-> list.entries[n + 1]])
                  /\ size' = size + Comma + list.entries[n + 1]
                BY <1>10, <3>1, Zenon DEF ArgvString
            <4> QED
                BY <1>2, <2>2, <2>3, <4>1
        <3>2. CASE ~StringFits
            BY <1>2, <1>10, <2>2, <3>2 DEF ArgvString
        <3> QED
            BY <3>1, <3>2
    <2>5. /\ UNCHANGED <<list, at, left, pos, marked>> /\ at = "argv"
          /\ n' = n + 1 /\ more' \in BOOLEAN
        BY <1>10 DEF ArgvString
    <2> QED
        BY <1>2, <2>2, <2>4, <2>5, Zenon DEF ListTypeOK, ListFns
<1> QED
    BY <1>3, <1>4, <1>5, <1>6, <1>7, <1>8, <1>9, <1>10, Zenon DEF ListNext

(* Only Finish ends a list, with the dots if they are due and fit.            *)
LEMMA DotsStep ==
  ASSUME ListInv, ListNext
  PROVE  DotsInv'
<1>1. ListTypeOK /\ list' = list /\ size \in Nat /\ OutSize \in Nat
    BY StepOfItsDecoder, ListFacts, Zenon DEF ListInv, ListTypeOK
<1>2. CASE Finish
    <2>1. /\ more' = more /\ marked' = (more /\ DotsFit)
          /\ size' = size + (IF more /\ DotsFit THEN DotsWidth ELSE 0) + 1
        BY <1>2, Zenon DEF Finish
    <2>2. marked' => more'
        BY <2>1, Zenon
    <2>3. ASSUME more', size' + (IF list.fn = "argv" THEN 4 ELSE 0) < OutSize, ~DotsFit
          PROVE  FALSE
        BY <1>1, <2>1, <2>3 DEF DotsFit
    <2> QED
        BY <1>1, <2>1, <2>2, <2>3, Zenon DEF DotsInv
<1>3. CASE ~Finish
    <2>1. at' # "done"
        BY <1>1, <1>3, ListFacts DEF ListNext, Refuse, Open, ArrayEntry, ArrayEnds, Dirent,
           DirentsEnd, Descriptor, DescriptorsEnd, ArgvString, ArgvEnds, ListFns
    <2> QED
        BY <2>1 DEF DotsInv
<1> QED
    BY <1>2, <1>3

(* An array prints each entry it reaches, and an iovec of readv what was      *)
(* filled of it.                                                              *)
LEMMA ArrayStep ==
  ASSUME ListInv, ListNext
  PROVE  ArrayInv'
<1> SUFFICES ASSUME list.fn \in ArrayFns PROVE ArrayInv'
    <2>1. list' = list
        BY StepOfItsDecoder, Zenon DEF ListInv
    <2> QED
        BY <2>1, Zenon DEF ArrayInv
<1>1. /\ ListTypeOK /\ list' = list /\ n \in Nat /\ left \in Int /\ size \in Nat
      /\ shown \in Seq([entry : Nat, len : Nat])
    BY StepOfItsDecoder, Zenon DEF ListInv, ListTypeOK
<1>2. Refuse \/ Open \/ Finish \/ ArrayEntry \/ ArrayEnds
    BY <1>1, StepOfItsDecoder, Zenon DEF ArrayFns
<1>3. /\ list.entries \in Seq(Nat) /\ Len(list.entries) \in Nat
      /\ DOMAIN list.entries = 1 .. Len(list.entries) /\ list.mapped \in Nat
      /\ list.total \in Int /\ Cap \in Nat \ {0} /\ OutSize \in Nat /\ list.count \in Int
    BY <1>1, ListFacts, Zenon
<1>4. /\ Len(shown) = n /\ n <= Len(list.entries) /\ n <= Cap /\ n <= list.mapped
      /\ \A m \in 1 .. n : shown[m].len = IF list.fn = "iovec" THEN BytesIn(m)
                                          ELSE list.entries[m]
      /\ at = "iovec" /\ list.total >= 0 =>
           left = list.total - Smaller(Sum[n], list.total)
      /\ at \notin {"start", "plain"} => (more <=> PassesCap)
      /\ Ended => ~ArrayOn \/ size >= OutSize
    BY Zenon DEF ListInv, ArrayInv
<1>5. /\ Sum' = Sum /\ \A m \in Nat : BytesIn(m)' = BytesIn(m)
      /\ PassesCap' = PassesCap
    BY <1>1, Zenon DEF Sum, BytesIn, PassesCap
<1>6. CASE Refuse
    <2>1. /\ at' = "plain" /\ UNCHANGED <<n, shown, left, size, more>>
        BY <1>6, Zenon DEF Refuse
    <2>2. 1 .. n \subseteq Nat
        BY <1>1
    <2> QED
        BY <1>1, <1>4, <1>5, <2>1, <2>2, Zenon DEF ArrayInv, Ended
<1>7. CASE Open
    <2>1. /\ at = "start" /\ at' = list.fn /\ left' = list.total /\ UNCHANGED <<n, shown>>
          /\ more' <=> PassesCap
        BY <1>7, Zenon DEF Open, ArrayFns
    <2>2. n = 0 /\ shown = <<>>
        BY <1>1, <2>1, Zenon DEF ListTypeOK
    <2>3. 0 \in 0 .. Len(list.entries)
        BY <1>3
    <2>4. Sum[0] = 0
        BY <1>3, <2>3, SumOfDef, Zenon DEF Sum
    <2>5. list.total >= 0 => list.total = list.total - Smaller(0, list.total)
        BY <1>3 DEF Smaller
    <2>6. list.total >= 0 => left' = list'.total - Smaller(Sum'[n'], list'.total)
        BY <1>1, <1>5, <2>1, <2>2, <2>4, <2>5, Zenon
    <2>7. Len(shown') = n' /\ 1 .. n' = {}
        BY <2>1, <2>2
    <2>8. ~Ended'
        BY <2>1 DEF Ended, ArrayFns
    <2> QED
        BY <1>1, <1>4, <1>5, <2>1, <2>6, <2>7, <2>8, Zenon DEF ArrayInv
<1>8. CASE ArrayEnds
    <2>1. /\ at' = "close" /\ ~ArrayOn /\ UNCHANGED <<n, shown, left, size, more>>
          /\ at \in ArrayFns
        BY <1>8, Zenon DEF ArrayEnds, ArrayFns
    <2>2. 1 .. n \subseteq Nat
        BY <1>1
    <2>3. ~ArrayOn'
        BY <1>1, <2>1, Zenon DEF ArrayOn
    <2> QED
        BY <1>1, <1>4, <1>5, <2>1, <2>2, <2>3, Zenon DEF ArrayInv, Ended, ArrayFns
<1>9. CASE Finish
    <2>1. /\ at = "close" /\ at' = "done" /\ UNCHANGED <<n, shown, left, more>>
          /\ size' = size + (IF more /\ DotsFit THEN DotsWidth ELSE 0) + 1
        BY <1>9, Zenon DEF Finish
    <2>2. 1 .. n \subseteq Nat
        BY <1>1
    <2>3. ~ArrayOn \/ size >= OutSize
        BY <1>4, <2>1, Zenon DEF Ended
    <2>4. ~ArrayOn' \/ size' >= OutSize
        BY <1>1, <1>3, <2>1, <2>3 DEF ArrayOn, DotsWidth
    <2> QED
        BY <1>1, <1>4, <1>5, <2>1, <2>2, <2>4, Zenon DEF ArrayInv, Ended
<1>10. CASE ArrayEntry
    <2>1. /\ ArrayOn /\ at \in ArrayFns /\ at = list.fn /\ n' = n + 1
          /\ UNCHANGED <<at, more>>
        BY <1>1, <1>10, Zenon DEF ArrayEntry, ArrayFns, ListTypeOK, ListFns
    <2>2. n + 1 \in DOMAIN list.entries
        BY <2>1, EntryIsThere, Zenon
    <2> DEFINE len == list.entries[n + 1]
               l == IF at = "iovec" THEN Filled(len) ELSE len
    <2>3. at = "iovec" => /\ Filled(len) \in Nat /\ Filled(len) = BytesIn(n + 1)
                          /\ list.total >= 0 => LeftAfter(len) =
                                list.total - Smaller(Sum[n + 1], list.total)
        BY <2>1, IovecFilled, Zenon
    <2>4. len \in Nat
        BY <1>3, <2>2
    <2>5. Show(l) /\ l \in Nat /\ (at = "iovec" => left' = LeftAfter(len))
        BY <1>10, <2>3, <2>4, Zenon DEF ArrayEntry
    <2>6. l = IF list.fn = "iovec" THEN BytesIn(n + 1) ELSE list.entries[n + 1]
        BY <2>1, <2>3, Zenon
    <2> HIDE DEF l
    <2>7. size < OutSize /\ n < Cap /\ n < list.mapped
        BY <1>1, <1>3, <2>1 DEF ArrayOn, Smaller
    <2>8. /\ Len(shown') = n + 1 /\ shown'[n + 1].len = l
          /\ \A m \in 1 .. n : shown'[m] = shown[m]
        <3>1. \/ /\ Len(shown') = Len(shown) + 1
                 /\ \A m \in 1 .. Len(shown) : shown'[m] = shown[m]
                 /\ shown'[Len(shown) + 1].len = l
              \/ size >= OutSize
            BY <1>1, <2>5, ShowEffect, Zenon
        <3>2. ~(size >= OutSize)
            BY <1>1, <1>3, <2>7
        <3> QED
            BY <1>4, <3>1, <3>2, Zenon
    <2>9. ASSUME NEW m \in 1 .. n'
          PROVE  shown'[m].len = IF list'.fn = "iovec" THEN BytesIn(m)'
                                 ELSE list'.entries[m]
        <3>1. m \in Nat
            BY <1>1, <2>1
        <3>2. CASE m = n + 1
            BY <1>1, <1>5, <2>6, <2>8, <3>1, <3>2, Zenon
        <3>3. CASE m # n + 1
            <4>1. m \in 1 .. n
                BY <1>1, <2>1, <3>3
            <4> QED
                BY <1>1, <1>4, <1>5, <2>8, <3>1, <4>1, Zenon
        <3> QED
            BY <3>2, <3>3
    <2>10. /\ Len(shown') = n' /\ n' <= Len(list'.entries) /\ n' <= Cap
           /\ n' <= list'.mapped
        BY <1>1, <1>3, <2>1, <2>2, <2>7, <2>8
    <2>11. at' = "iovec" /\ list'.total >= 0 =>
             left' = list'.total - Smaller(Sum'[n'], list'.total)
        BY <1>1, <1>5, <2>1, <2>3, <2>5, Zenon
    <2>12. more' <=> PassesCap'
        BY <1>4, <1>5, <2>1, Zenon DEF ArrayFns
    <2>13. ~Ended'
        BY <2>1 DEF Ended, ArrayFns
    <2> QED
        BY <2>9, <2>10, <2>11, <2>12, <2>13, Zenon DEF ArrayInv
<1> QED
    BY <1>2, <1>6, <1>7, <1>8, <1>9, <1>10, Zenon

(* A directory entry is printed if it ends within what was read.              *)
LEMMA DirentStep ==
  ASSUME ListInv, ListNext
  PROVE  DirentInv'
<1> SUFFICES ASSUME list.fn = "getdents" PROVE DirentInv'
    <2>1. list' = list
        BY StepOfItsDecoder, Zenon DEF ListInv
    <2> QED
        BY <2>1, Zenon DEF DirentInv
<1>1. /\ ListTypeOK /\ list' = list /\ n \in Nat /\ pos \in Nat /\ size \in Nat
      /\ shown \in Seq([entry : Nat, len : Nat])
    BY StepOfItsDecoder, Zenon DEF ListInv, ListTypeOK
<1>2. Refuse \/ Open \/ Finish \/ Dirent \/ DirentsEnd
    BY <1>1, StepOfItsDecoder, Zenon DEF ArrayFns
<1>3. /\ list.entries \in Seq(Nat) /\ Len(list.entries) \in Nat
      /\ DOMAIN list.entries = 1 .. Len(list.entries)
      /\ Cap \in Nat \ {0} /\ OutSize \in Nat /\ Header \in Nat \ {0}
    BY <1>1, ListFacts, Zenon
<1>4. /\ n <= Len(list.entries) /\ n <= Cap /\ pos = Sum[n]
      /\ n > 0 => pos <= Got
      /\ Len(shown) <= n /\ (size < OutSize => Len(shown) = n)
      /\ \A m \in 1 .. Len(shown) : shown[m].len = list.entries[m]
      /\ Ended => (more <=> pos < Got)
    BY Zenon DEF ListInv, DirentInv
<1>5. Sum' = Sum /\ Got' = Got
    BY <1>1, Zenon DEF Sum, Got
<1>6. Got \in Int
    BY <1>1, ListFacts DEF Got, Smaller
<1>7. CASE Refuse
    <2>1. /\ at' = "plain" /\ UNCHANGED <<n, pos, shown, size, more>>
        BY <1>7, Zenon DEF Refuse
    <2> QED
        BY <1>1, <1>4, <1>5, <2>1, Zenon DEF DirentInv, Ended
<1>8. CASE Open
    <2>1. /\ at = "start" /\ at' = "getdents" /\ UNCHANGED <<n, pos, shown>>
        BY <1>8, Zenon DEF Open
    <2>2. n = 0 /\ shown = <<>>
        BY <1>1, <2>1, Zenon DEF ListTypeOK
    <2>3. Len(shown') = n'
        BY <2>1, <2>2
    <2> QED
        BY <1>1, <1>4, <1>5, <2>1, <2>3, Zenon DEF DirentInv, Ended
<1>9. CASE DirentsEnd
    <2>1. /\ at' = "close" /\ UNCHANGED <<n, pos, shown, size>> /\ (more' <=> pos < Got)
        BY <1>9, Zenon DEF DirentsEnd
    <2> QED
        BY <1>1, <1>4, <1>5, <2>1, Zenon DEF DirentInv
<1>10. CASE Finish
    <2>1. /\ at = "close" /\ at' = "done" /\ UNCHANGED <<n, pos, shown, more>>
          /\ size' = size + (IF more /\ DotsFit THEN DotsWidth ELSE 0) + 1
        BY <1>10, Zenon DEF Finish
    <2>2. size' < OutSize => size < OutSize
        BY <1>1, <1>3, <2>1 DEF DotsWidth
    <2> QED
        BY <1>1, <1>4, <1>5, <2>1, <2>2, Zenon DEF DirentInv, Ended
<1>11. CASE Dirent
    <2>1. /\ at = "getdents" /\ pos + Header <= Got /\ ~CutsEntry /\ n < Cap
          /\ n' = n + 1 /\ pos' = pos + DirentAtPos /\ Show(DirentAtPos) /\ at' = at
        BY <1>11, Zenon DEF Dirent
    <2>2. n + 1 \in DOMAIN list.entries
        BY <2>1, EntryIsThere, Zenon
    <2>3. DirentAtPos \in Nat /\ DirentAtPos = list.entries[n + 1]
        BY <1>3, <2>2 DEF DirentAtPos
    <2>4. pos' <= Got
        BY <1>1, <1>6, <2>1, <2>3 DEF CutsEntry
    <2>5. pos' = Sum[n']
        <3>1. n + 1 \in 0 .. Len(list.entries) /\ (n + 1) - 1 = n /\ n + 1 # 0
            BY <1>1, <1>3, <2>2
        <3>2. SumOf(list.entries)[n + 1] = SumOf(list.entries)[n] + list.entries[n + 1]
            BY <1>3, <3>1, SumOfDef
        <3> QED
            BY <1>4, <2>1, <2>3, <3>2, Zenon DEF Sum
    <2>6. Len(shown') <= n' /\ (size' < OutSize => Len(shown') = n')
        <3>1. /\ size' \in Nat /\ size <= size' /\ Len(shown) \in Nat
              /\ \/ size < OutSize /\ Len(shown') = Len(shown) + 1
                 \/ size >= OutSize /\ shown' = shown /\ size' = size
            BY <1>1, <2>1, <2>3, ShowEffect
        <3>2. CASE size < OutSize
            BY <1>1, <1>3, <1>4, <2>1, <3>1, <3>2
        <3>3. CASE size >= OutSize
            BY <1>1, <1>3, <1>4, <2>1, <3>1, <3>3
        <3> QED
            BY <1>1, <1>3, <3>2, <3>3
    <2>7. ASSUME NEW m \in 1 .. Len(shown')
          PROVE  shown'[m].len = list.entries[m]
        <3>1. CASE shown' = shown
            BY <1>4, <3>1, <2>7, Zenon
        <3>2. CASE /\ Len(shown') = Len(shown) + 1 /\ size < OutSize
                   /\ \A j \in 1 .. Len(shown) : shown'[j] = shown[j]
                   /\ shown'[Len(shown) + 1].len = DirentAtPos
            <4>1. Len(shown) = n
                BY <1>4, <3>2, Zenon
            <4>2. CASE m = n + 1
                BY <2>3, <3>2, <4>1, <4>2, Zenon
            <4>3. CASE m # n + 1
                <5>1. m \in 1 .. Len(shown)
                    BY <1>1, <3>2, <4>1, <4>3
                <5> QED
                    BY <1>4, <3>2, <5>1, Zenon
            <4> QED
                BY <4>2, <4>3
        <3> QED
            BY <1>1, <2>1, <2>3, <3>1, <3>2, ShowEffect, Zenon
    <2>8. n' <= Len(list.entries) /\ n' <= Cap
        BY <1>1, <1>3, <2>1, <2>2
    <2>9. ~Ended'
        BY <2>1 DEF Ended
    <2> QED
        BY <1>1, <1>5, <2>4, <2>5, <2>6, <2>7, <2>8, <2>9, Zenon DEF DirentInv
<1> QED
    BY <1>2, <1>7, <1>8, <1>9, <1>10, <1>11, Zenon

(* The next descriptor of a set is the entry behind those that were counted.  *)
LEMMA NextDescriptor ==
  ASSUME ListInv, list.fn = "fdset", IsSet
  PROVE  /\ pos + 1 \in DOMAIN list.entries /\ list.entries[pos + 1] = n
         /\ \A m \in DOMAIN list.entries : m <= pos + 1 <=> list.entries[m] < n + 1
<1>1. ListTypeOK /\ n \in Nat /\ pos \in Nat
    BY Zenon DEF ListInv, ListTypeOK
<1>2. /\ Len(list.entries) \in Nat /\ DOMAIN list.entries = 1 .. Len(list.entries)
      /\ \A m \in DOMAIN list.entries : list.entries[m] \in Nat
      /\ \A a, b \in DOMAIN list.entries : a < b => list.entries[a] < list.entries[b]
    <2>1. list.entries \in Seq(Nat) /\ Len(list.entries) \in Nat
          /\ DOMAIN list.entries = 1 .. Len(list.entries) /\ WellFormed(list)
        BY <1>1, ListFacts, Zenon
    <2>2. \A a, b \in DOMAIN list.entries : a < b => list.entries[a] < list.entries[b]
        BY <2>1, Zenon DEF WellFormed
    <2>3. \A m \in DOMAIN list.entries : list.entries[m] \in Nat
        BY <2>1
    <2> QED
        BY <2>1, <2>2, <2>3, Zenon
<1>3. \A m \in DOMAIN list.entries : m <= pos <=> list.entries[m] < n
    BY Zenon DEF ListInv, FdSetInv
<1>4. PICK e \in DOMAIN list.entries : list.entries[e] = n
    BY Zenon DEF IsSet
<1>5. e > pos /\ e \in Nat
    BY <1>1, <1>2, <1>3, <1>4
<1>6. e = pos + 1
    <2> SUFFICES ASSUME e # pos + 1 PROVE FALSE
        OBVIOUS
    <2>1. pos + 1 \in DOMAIN list.entries /\ pos + 1 < e
        BY <1>1, <1>2, <1>5
    <2>2. list.entries[pos + 1] < n
        BY <1>2, <1>4, <2>1, Zenon
    <2> QED
        BY <1>1, <1>3, <2>1, <2>2
<1>7. ASSUME NEW m \in DOMAIN list.entries
      PROVE  m <= pos + 1 <=> list.entries[m] < n + 1
    <2>1. m \in Nat /\ list.entries[m] \in Nat
        BY <1>2
    <2>2. CASE m <= pos
        BY <1>1, <1>3, <2>1, <2>2
    <2>3. CASE m = e
        BY <1>1, <1>4, <1>6, <2>1, <2>3
    <2>4. CASE m > e
        <3>1. list.entries[e] < list.entries[m]
            BY <1>2, <1>5, <2>1, <2>4
        <3> QED
            BY <1>1, <1>4, <1>6, <2>1, <2>4, <3>1
    <2> QED
        BY <1>1, <1>6, <2>1, <2>2, <2>3, <2>4
<1> QED
    BY <1>4, <1>6, <1>7, Zenon

(* A fd_set prints every descriptor it reaches while there is room.           *)
LEMMA FdSetStep ==
  ASSUME ListInv, ListNext
  PROVE  FdSetInv'
<1> SUFFICES ASSUME list.fn = "fdset" PROVE FdSetInv'
    <2>1. list' = list
        BY StepOfItsDecoder, Zenon DEF ListInv
    <2> QED
        BY <2>1, Zenon DEF FdSetInv
<1>1. /\ ListTypeOK /\ list' = list /\ n \in Nat /\ pos \in Nat /\ size \in Nat
      /\ shown \in Seq([entry : Nat, len : Nat])
    BY StepOfItsDecoder, Zenon DEF ListInv, ListTypeOK
<1>2. Refuse \/ Open \/ Finish \/ Descriptor \/ DescriptorsEnd
    BY <1>1, StepOfItsDecoder, Zenon DEF ArrayFns
<1>3. /\ list.entries \in Seq(Nat) /\ Len(list.entries) \in Nat
      /\ DOMAIN list.entries = 1 .. Len(list.entries) /\ OutSize \in Nat
    BY <1>1, ListFacts, Zenon
<1>4. /\ pos <= Len(list.entries)
      /\ n > 0 => n <= Bits
      /\ \A m \in DOMAIN list.entries : m <= pos <=> list.entries[m] < n
      /\ Len(shown) <= pos /\ (size < OutSize => Len(shown) = pos)
      /\ \A m \in 1 .. Len(shown) : shown[m].len = list.entries[m]
      /\ Ended => (more <=> n < Bits) /\ (n < Bits => IsSet)
    BY Zenon DEF ListInv, FdSetInv
<1>5. Bits' = Bits /\ Bits \in Int
    BY <1>1, ListFacts DEF Bits, Smaller
<1>6. CASE Refuse
    <2>1. /\ at' = "plain" /\ UNCHANGED <<n, pos, shown, size, more>>
        BY <1>6, Zenon DEF Refuse
    <2> QED
        BY <1>1, <1>4, <1>5, <2>1, Zenon DEF FdSetInv, Ended
<1>7. CASE Open
    <2>1. /\ at = "start" /\ at' = "fdset" /\ UNCHANGED <<n, pos, shown>>
        BY <1>7, Zenon DEF Open
    <2>2. pos = 0 /\ shown = <<>>
        BY <1>1, <2>1, Zenon DEF ListTypeOK
    <2>3. Len(shown') = pos'
        BY <2>1, <2>2
    <2> QED
        BY <1>1, <1>4, <1>5, <2>1, <2>3, Zenon DEF FdSetInv, Ended
<1>8. CASE DescriptorsEnd
    <2>1. /\ at' = "close" /\ UNCHANGED <<n, pos, shown, size>> /\ (more' <=> n < Bits)
          /\ n < Bits => IsSet
        BY <1>8, Zenon DEF DescriptorsEnd
    <2>2. IsSet' <=> IsSet
        BY <1>1, <2>1, Zenon DEF IsSet
    <2> QED
        BY <1>1, <1>4, <1>5, <2>1, <2>2, Zenon DEF FdSetInv
<1>9. CASE Finish
    <2>1. /\ at = "close" /\ at' = "done" /\ UNCHANGED <<n, pos, shown, more>>
          /\ size' = size + (IF more /\ DotsFit THEN DotsWidth ELSE 0) + 1
        BY <1>9, Zenon DEF Finish
    <2>2. size' < OutSize => size < OutSize
        BY <1>1, <1>3, <2>1 DEF DotsWidth
    <2>3. IsSet' <=> IsSet
        BY <1>1, <2>1, Zenon DEF IsSet
    <2> QED
        BY <1>1, <1>4, <1>5, <2>1, <2>2, <2>3, Zenon DEF FdSetInv, Ended
<1>10. CASE Descriptor
    <2>1. n < Bits /\ n' = n + 1 /\ at' = "fdset"
        BY <1>10, Zenon DEF Descriptor
    <2>2. ~Ended' /\ n' <= Bits
        BY <1>1, <1>5, <2>1 DEF Ended
    <2>3. CASE ~IsSet
        <3>1. UNCHANGED <<pos, shown, size>>
            BY <1>10, <2>3, Zenon DEF Descriptor
        <3>2. ASSUME NEW m \in DOMAIN list.entries
              PROVE  m <= pos <=> list.entries[m] < n + 1
            <4>1. list.entries[m] \in Nat /\ list.entries[m] # n
                BY <1>3, <2>3 DEF IsSet
            <4>2. m <= pos <=> list.entries[m] < n
                BY <1>4
            <4> QED
                BY <1>1, <4>1, <4>2
        <3> QED
            BY <1>1, <1>4, <1>5, <2>1, <2>2, <3>1, <3>2, Zenon DEF FdSetInv
    <2>4. CASE IsSet
        <3>1. pos' = pos + 1 /\ Show(n)
            BY <1>10, <2>4, Zenon DEF Descriptor
        <3>2. /\ pos + 1 \in DOMAIN list.entries /\ list.entries[pos + 1] = n
              /\ \A m \in DOMAIN list.entries : m <= pos + 1 <=> list.entries[m] < n + 1
            BY <2>4, NextDescriptor, Zenon
        <3>3. /\ size' \in Nat /\ size <= size' /\ Len(shown) \in Nat
              /\ \/ /\ size < OutSize /\ Len(shown') = Len(shown) + 1
                    /\ \A m \in 1 .. Len(shown) : shown'[m] = shown[m]
                    /\ shown'[Len(shown) + 1].len = n
                 \/ size >= OutSize /\ shown' = shown /\ size' = size
            BY <1>1, <3>1, ShowEffect
        <3>4. /\ Len(shown') <= pos' /\ (size' < OutSize => Len(shown') = pos')
              /\ \A m \in 1 .. Len(shown') : shown'[m].len = list.entries[m]
            <4>1. CASE size >= OutSize
                <5>1. shown' = shown /\ size' = size
                    BY <1>1, <1>3, <3>3, <4>1
                <5>2. Len(shown') <= pos' /\ ~(size' < OutSize)
                    BY <1>1, <1>3, <1>4, <3>1, <3>3, <4>1, <5>1
                <5> QED
                    BY <1>4, <5>1, <5>2, Zenon
            <4>2. CASE size < OutSize
                <5>1. Len(shown) = pos
                    BY <1>4, <4>2, Zenon
                <5>2. /\ Len(shown') = pos + 1 /\ shown'[pos + 1].len = n
                      /\ \A m \in 1 .. pos : shown'[m] = shown[m]
                    BY <1>1, <1>3, <3>3, <4>2, <5>1
                <5>3. ASSUME NEW m \in 1 .. pos + 1 PROVE shown'[m].len = list.entries[m]
                    <6>1. CASE m = pos + 1
                        BY <3>2, <5>2, <6>1, Zenon
                    <6>2. CASE m # pos + 1
                        <7>1. m \in 1 .. pos
                            BY <1>1, <6>2
                        <7> QED
                            BY <1>4, <5>1, <5>2, <7>1, Zenon
                    <6> QED
                        BY <6>1, <6>2
                <5> QED
                    BY <1>1, <3>1, <5>2, <5>3
            <4> QED
                BY <1>1, <1>3, <4>1, <4>2
        <3>5. pos' <= Len(list.entries)
            BY <1>3, <3>1, <3>2
        <3> QED
            BY <1>1, <1>5, <2>1, <2>2, <3>1, <3>2, <3>4, <3>5, Zenon DEF FdSetInv
    <2> QED
        BY <2>3, <2>4
<1> QED
    BY <1>2, <1>6, <1>7, <1>8, <1>9, <1>10, Zenon

(* argv: the strings come in order, and one is skipped only if it does not    *)
(* fit, after which there is never more room.                                 *)
LEMMA ArgvStep ==
  ASSUME ListInv, ListNext
  PROVE  ArgvInv'
<1> SUFFICES ASSUME list.fn = "argv" PROVE ArgvInv'
    <2>1. list' = list
        BY StepOfItsDecoder, Zenon DEF ListInv
    <2> QED
        BY <2>1, Zenon DEF ArgvInv
<1>1. /\ ListTypeOK /\ list' = list /\ n \in Nat /\ size \in Nat
      /\ shown \in Seq([entry : Nat, len : Nat])
    BY StepOfItsDecoder, Zenon DEF ListInv, ListTypeOK
<1>2. Refuse \/ Open \/ Finish \/ ArgvString \/ ArgvEnds
    BY <1>1, StepOfItsDecoder, Zenon DEF ArrayFns
<1>3. /\ list.entries \in Seq(Nat) /\ Len(list.entries) \in Nat
      /\ DOMAIN list.entries = 1 .. Len(list.entries) /\ OutSize \in Nat
      /\ Cap \in Nat \ {0}
    BY <1>1, ListFacts, Zenon
<1>4. /\ n <= Len(list.entries) /\ n <= Cap
      /\ more <=> n = Cap
      /\ \A m \in DOMAIN shown : shown[m].entry <= n
      /\ \A m \in DOMAIN shown : m > 1 => shown[m - 1].entry < shown[m].entry
      /\ \A e \in 1 .. n : \/ \E m \in DOMAIN shown : shown[m].entry = e
                           \/ size + list.entries[e] >= OutSize
      /\ Ended => ~ArgvOn
    BY Zenon DEF ListInv, ArgvInv, DropsOnlyWhenFull
<1>10. /\ \A e \in 1 .. n : list.entries[e] \in Nat
       /\ \A m \in DOMAIN shown : shown[m].entry \in Nat
    <2>1. \A e \in DOMAIN list.entries : list.entries[e] \in Nat
        BY <1>3
    <2>2. 1 .. n \subseteq DOMAIN list.entries
        BY <1>1, <1>3, <1>4
    <2>3. \A m \in DOMAIN shown : shown[m] \in [entry : Nat, len : Nat]
        <3> DEFINE R == [entry : Nat, len : Nat]
        <3>1. shown \in Seq(R)
            BY <1>1, Zenon
        <3> HIDE DEF R
        <3>2. \A m \in DOMAIN shown : shown[m] \in R
            BY <3>1
        <3> QED
            BY <3>2, Zenon DEF R
    <2>4. \A m \in DOMAIN shown : shown[m].entry \in Nat
        BY <2>3
    <2> QED
        BY <2>1, <2>2, <2>4, Zenon
<1>11. n \in Nat /\ size \in Nat /\ OutSize \in Nat /\ Cap \in Nat
    BY <1>1, <1>3, Zenon
<1>5. CASE Refuse
    <2>1. /\ at' = "plain" /\ UNCHANGED <<n, shown, size, more>>
        BY <1>5, Zenon DEF Refuse
    <2> QED
        BY <1>1, <1>4, <2>1, Zenon DEF ArgvInv, DropsOnlyWhenFull, Ended
<1>6. CASE Open
    <2>1. at = "start" /\ at' = "argv" /\ UNCHANGED <<n, shown>> /\ ~more'
        BY <1>6, Zenon DEF Open
    <2>2. n = 0 /\ shown = <<>>
        BY <1>1, <2>1, Zenon DEF ListTypeOK
    <2>3. n' # Cap /\ 1 .. n' = {} /\ ~Ended'
        BY <1>3, <2>1, <2>2 DEF Ended
    <2> QED
        BY <1>1, <1>4, <2>1, <2>3, Zenon DEF ArgvInv, DropsOnlyWhenFull
<1>7. CASE ArgvEnds
    <2>1. /\ at' = "close" /\ UNCHANGED <<n, shown, size, more>> /\ ~ArgvOn
        BY <1>7, Zenon DEF ArgvEnds
    <2>2. ~ArgvOn'
        BY <1>1, <2>1, Zenon DEF ArgvOn
    <2> QED
        BY <1>1, <1>4, <2>1, <2>2, Zenon DEF ArgvInv, DropsOnlyWhenFull
<1>8. CASE Finish
    <2>1. /\ at = "close" /\ at' = "done" /\ UNCHANGED <<n, shown, more>>
          /\ size' = size + (IF more /\ DotsFit THEN DotsWidth ELSE 0) + 1
        BY <1>8, Zenon DEF Finish
    <2>2. ~ArgvOn'
        BY <1>1, <1>4, <2>1, Zenon DEF ArgvOn, Ended
    <2>3. ASSUME NEW e \in 1 .. n, size + list.entries[e] >= OutSize
          PROVE  size' + list.entries[e] >= OutSize
        <3>1. list.entries[e] \in Nat
            BY <1>10, Zenon
        <3> QED
            <4>1. size' >= size /\ size' \in Nat
                BY <1>11, <2>1 DEF DotsWidth
            <4> QED
                BY <1>11, <2>3, <3>1, <4>1
    <2> QED
        BY <1>1, <1>4, <2>1, <2>2, <2>3, Zenon DEF ArgvInv, DropsOnlyWhenFull
<1>9. CASE ArgvString
    <2> DEFINE len == list.entries[n + 1]
               x == [entry |-> n + 1, len |-> len]
    <2>1. ArgvOn /\ n' = n + 1 /\ at' = "argv" /\ (more' <=> n + 1 = Cap)
        BY <1>9, Zenon DEF ArgvString
    <2>2. n' <= Len(list.entries) /\ n' <= Cap /\ n + 1 \in DOMAIN list.entries
        BY <1>1, <1>3, <2>1 DEF ArgvOn
    <2>3. len \in Nat /\ Comma \in Nat
        BY <1>3, <2>2 DEF Comma
    <2>4. \A e \in 1 .. n : list.entries[e] \in Nat
        BY <1>10, Zenon
    <2>5. ~Ended'
        BY <2>1 DEF Ended
    <2>6. /\ \A m \in DOMAIN shown' : shown'[m].entry <= n'
          /\ \A m \in DOMAIN shown' : m > 1 => shown'[m - 1].entry < shown'[m].entry
          /\ \A e \in 1 .. n' : \/ \E m \in DOMAIN shown' : shown'[m].entry = e
                                \/ size' + list.entries[e] >= OutSize
        <3>1. CASE StringFits
            <4>1. shown' = Append(shown, x) /\ size' = size + Comma + len
                BY <1>9, <3>1, Zenon DEF ArgvString
            <4>2. /\ x \in [entry : Nat, len : Nat] /\ x.entry = n + 1
                  /\ Len(shown) \in Nat /\ DOMAIN shown = 1 .. Len(shown)
                BY <1>1, <2>3
            <4> HIDE DEF x
            <4>3. /\ DOMAIN shown' = 1 .. Len(shown) + 1 /\ shown'[Len(shown) + 1] = x
                  /\ \A m \in 1 .. Len(shown) : shown'[m] = shown[m]
                BY <1>1, <4>1, <4>2
            <4>4. \A m \in DOMAIN shown : shown[m].entry \in Nat
                BY <1>10, Zenon
            <4>5. ASSUME NEW m \in DOMAIN shown' PROVE shown'[m].entry <= n'
                <5>1. CASE m = Len(shown) + 1
                    <6>1. shown'[m].entry = n'
                        BY <2>1, <4>2, <4>3, <5>1, Zenon
                    <6> QED
                        BY <1>11, <2>1, <6>1
                <5>2. CASE m # Len(shown) + 1
                    <6>1. m \in DOMAIN shown /\ shown'[m] = shown[m]
                        BY <4>2, <4>3, <5>2
                    <6> QED
                        BY <1>1, <1>4, <2>1, <4>4, <6>1
                <5> QED
                    BY <5>1, <5>2
            <4>6. ASSUME NEW m \in DOMAIN shown', m > 1
                  PROVE  shown'[m - 1].entry < shown'[m].entry
                <5>1. /\ m - 1 \in DOMAIN shown /\ shown'[m - 1] = shown[m - 1]
                    BY <4>2, <4>3, <4>6
                <5>2. CASE m = Len(shown) + 1
                    <6>1. shown[m - 1].entry \in Nat /\ shown[m - 1].entry <= n
                        BY <1>4, <4>4, <5>1, Zenon
                    <6>2. shown'[m].entry = n + 1
                        BY <4>2, <4>3, <5>2, Zenon
                    <6> QED
                        BY <1>1, <5>1, <6>1, <6>2
                <5>3. CASE m # Len(shown) + 1
                    <6>1. m \in DOMAIN shown /\ shown'[m] = shown[m]
                        BY <4>2, <4>3, <5>3
                    <6> QED
                        BY <1>4, <4>6, <5>1, <6>1, Zenon
                <5> QED
                    BY <5>2, <5>3
            <4>7. ASSUME NEW e \in 1 .. n'
                  PROVE  \/ \E m \in DOMAIN shown' : shown'[m].entry = e
                         \/ size' + list.entries[e] >= OutSize
                <5>1. CASE e = n + 1
                    <6>1. Len(shown) + 1 \in DOMAIN shown'
                        BY <4>2, <4>3
                    <6> QED
                        BY <4>2, <4>3, <5>1, <6>1, Zenon
                <5>2. CASE e # n + 1
                    <6>1. e \in 1 .. n
                        BY <1>1, <2>1, <5>2
                    <6>2. CASE \E m \in DOMAIN shown : shown[m].entry = e
                        <7>1. PICK m \in DOMAIN shown : shown[m].entry = e
                            BY <6>2, Zenon
                        <7>2. m \in DOMAIN shown' /\ shown'[m] = shown[m]
                            BY <4>2, <4>3, <7>1
                        <7> QED
                            BY <7>1, <7>2, Zenon
                    <6>3. CASE size + list.entries[e] >= OutSize
                        <7>1. list.entries[e] \in Nat
                            BY <2>4, <6>1, Zenon
                        <7> QED
                            <8>1. size' = size + Comma + len
                                BY <4>1, Zenon
                            <8> HIDE DEF len
                            <8> QED
                                BY <1>11, <2>3, <6>3, <7>1, <8>1
                    <6> QED
                        BY <1>4, <6>1, <6>2, <6>3, Zenon
                <5> QED
                    BY <5>1, <5>2
            <4> QED
                <5>1. \A m \in DOMAIN shown' : shown'[m].entry <= n'
                    BY <4>5, Zenon
                <5>2. \A m \in DOMAIN shown' :
                        m > 1 => shown'[m - 1].entry < shown'[m].entry
                    BY <4>6
                <5>3. \A e \in 1 .. n' : \/ \E m \in DOMAIN shown' : shown'[m].entry = e
                                         \/ size' + list.entries[e] >= OutSize
                    BY <4>7, Zenon
                <5> QED
                    BY <5>1, <5>2, <5>3, Zenon
        <3>2. CASE ~StringFits
            <4>1. shown' = shown /\ size' = size + Comma
                BY <1>9, <3>2, Zenon DEF ArgvString
            <4>2. size' + len >= OutSize
                <5>1. ~(size + Comma + len < OutSize)
                    BY <3>2, Zenon DEF StringFits
                <5> HIDE DEF len
                <5> QED
                    BY <1>11, <2>3, <4>1, <5>1
            <4>3. \A m \in DOMAIN shown' : shown'[m].entry <= n'
                <5>1. \A m \in DOMAIN shown : shown[m].entry \in Nat
                    BY <1>10, Zenon
                <5> QED
                    BY <1>4, <1>11, <2>1, <4>1, <5>1
            <4>4. ASSUME NEW e \in 1 .. n'
                  PROVE  \/ \E m \in DOMAIN shown' : shown'[m].entry = e
                         \/ size' + list.entries[e] >= OutSize
                <5>1. CASE e = n + 1
                    BY <4>2, <5>1, Zenon
                <5>2. CASE e # n + 1
                    <6>1. e \in 1 .. n
                        BY <1>1, <2>1, <5>2
                    <6>2. CASE size + list.entries[e] >= OutSize
                        <7>1. list.entries[e] \in Nat
                            BY <2>4, <6>1, Zenon
                        <7> QED
                            BY <1>11, <2>3, <4>1, <6>2, <7>1
                    <6> QED
                        BY <1>4, <4>1, <6>1, <6>2, Zenon
                <5> QED
                    BY <5>1, <5>2
            <4> QED
                <5>1. \A m \in DOMAIN shown' :
                        m > 1 => shown'[m - 1].entry < shown'[m].entry
                    BY <1>4, <4>1, Zenon
                <5>2. \A e \in 1 .. n' : \/ \E m \in DOMAIN shown' : shown'[m].entry = e
                                         \/ size' + list.entries[e] >= OutSize
                    BY <4>4, Zenon
                <5> QED
                    BY <4>3, <5>1, <5>2, Zenon
        <3> QED
            BY <3>1, <3>2
    <2> QED
        BY <1>1, <2>1, <2>2, <2>5, <2>6, Zenon DEF ArgvInv, DropsOnlyWhenFull
<1> QED
    BY <1>2, <1>5, <1>6, <1>7, <1>8, <1>9, Zenon

(* Every behaviour of a list decoder keeps the invariant.                     *)
LEMMA ListInvHolds == ListSpec => []ListInv
<1>1. ListInit => ListInv
    <2> SUFFICES ASSUME ListInit PROVE ListInv
        OBVIOUS
    <2>1. /\ list \in List /\ at = "start" /\ n = 0 /\ shown = <<>> /\ left = 0
          /\ pos = 0 /\ more = FALSE /\ size = 0 /\ marked = FALSE
        BY Zenon DEF ListInit
    <2>2. ListTypeOK
        <3>1. shown \in Seq([entry : Nat, len : Nat]) /\ n \in Nat /\ left \in Int
            BY <2>1
        <3>2. at \notin ListFns
            BY <2>1 DEF ListFns
        <3> QED
            BY <2>1, <3>1, <3>2, Zenon DEF ListTypeOK
    <2>3. /\ list.entries \in Seq(Nat) /\ Len(list.entries) \in Nat
          /\ \A m \in DOMAIN list.entries : list.entries[m] \in Nat
          /\ Cap \in Nat \ {0} /\ list.mapped \in Nat
        <3>1. list.entries \in Seq(Nat)
            BY <2>2, ListFacts, Zenon
        <3>2. \A m \in DOMAIN list.entries : list.entries[m] \in Nat
            BY <3>1
        <3> QED
            BY <2>2, <3>1, <3>2, ListFacts, Zenon
    <2>4. Len(shown) = n /\ DOMAIN shown = {} /\ 1 .. Len(shown) = {} /\ 1 .. n = {}
        BY <2>1
    <2>5. ~Ended /\ at \notin ListFns /\ at # "done"
        BY <2>1 DEF Ended, ListFns
    <2>6. DotsInv
        BY <2>5, Zenon DEF DotsInv
    <2>7. ArrayInv
        <3>1. n <= Len(list.entries) /\ n <= Cap /\ n <= list.mapped /\ at # "iovec"
            BY <2>1, <2>3
        <3> QED
            BY <2>1, <2>4, <2>5, <3>1, Zenon DEF ArrayInv
    <2>8. DirentInv
        <3>1. 0 \in 0 .. Len(list.entries)
            BY <2>3
        <3>2. Sum[0] = 0
            BY <2>3, <3>1, SumOfDef, Zenon DEF Sum
        <3>3. n <= Len(list.entries) /\ n <= Cap /\ Len(shown) <= n /\ ~(n > 0)
            BY <2>1, <2>3, <2>4
        <3> QED
            BY <2>1, <2>4, <2>5, <3>2, <3>3, Zenon DEF DirentInv
    <2>9. FdSetInv
        <3>1. \A m \in DOMAIN list.entries : ~(m <= 0) /\ ~(list.entries[m] < 0)
            BY <2>3
        <3>2. pos <= Len(list.entries) /\ Len(shown) <= pos /\ ~(n > 0) /\ Len(shown) = pos
            BY <2>1, <2>3, <2>4
        <3> QED
            BY <2>1, <2>4, <2>5, <3>1, <3>2, Zenon DEF FdSetInv
    <2>10. ArgvInv
        <3>1. n <= Len(list.entries) /\ n <= Cap /\ n # Cap
            BY <2>1, <2>3
        <3> QED
            BY <2>1, <2>4, <2>5, <3>1, Zenon DEF ArgvInv, DropsOnlyWhenFull
    <2> QED
        BY <2>2, <2>6, <2>7, <2>8, <2>9, <2>10, Zenon DEF ListInv
<1>2. ListInv /\ [ListNext]_lvars => ListInv'
    <2>1. CASE ListNext
        BY <2>1, ListTypeStep, DotsStep, ArrayStep, DirentStep, FdSetStep, ArgvStep,
           Zenon DEF ListInv
    <2>2. CASE UNCHANGED lvars
        <3>1. ListTypeOK' <=> ListTypeOK
            BY <2>2, Zenon DEF lvars, ListTypeOK
        <3>2. DotsInv' <=> DotsInv
            BY <2>2, Zenon DEF lvars, DotsInv
        <3>3. ArrayInv' <=> ArrayInv
            <4>1. /\ ArrayOn' = ArrayOn /\ PassesCap' = PassesCap /\ Sum' = Sum
                  /\ \A m : BytesIn(m)' = BytesIn(m)
                BY <2>2, Zenon DEF lvars, ArrayOn, PassesCap, Sum, BytesIn
            <4> QED
                BY <2>2, <4>1, Zenon DEF lvars, ArrayInv, Ended
        <3>4. DirentInv' <=> DirentInv
            BY <2>2, Zenon DEF lvars, DirentInv, Ended, Sum, Got
        <3>5. FdSetInv' <=> FdSetInv
            BY <2>2, Zenon DEF lvars, FdSetInv, Ended, Bits, IsSet
        <3>6. ArgvInv' <=> ArgvInv
            BY <2>2, Zenon DEF lvars, ArgvInv, Ended, DropsOnlyWhenFull, ArgvOn
        <3> QED
            BY <3>1, <3>2, <3>3, <3>4, <3>5, <3>6, Zenon DEF ListInv
    <2> QED
        BY <2>1, <2>2
<1> QED
    BY <1>1, <1>2, PTL DEF ListSpec

(* The entries that a list decoder prints are the first of its argument, each *)
(* once, in order and read from the tracee; an iovec of readv or recvmsg shows*)
(* exactly the bytes that the kernel put there (format_iovec_array,           *)
(* format_getdents_buf, format_epoll_events_buf, format_pollfds_buf,          *)
(* format_fdset_buf).                                                         *)
THEOREM ListsShowThePrefix == ListSpec => []ShowsThePrefix
<1>1. ListInv => ShowsThePrefix
    <2> SUFFICES ASSUME ListInv, list.fn # "argv", NEW m \in DOMAIN shown
                 PROVE  /\ shown[m].len = IF list.fn = "iovec" THEN BytesIn(m)
                                          ELSE list.entries[m]
                        /\ CASE list.fn = "getdents" -> Sum[m] <= Got
                             [] list.fn = "fdset" -> shown[m].len < Bits
                             [] OTHER -> m <= list.mapped
        BY DEF ShowsThePrefix
    <2>1. /\ ListTypeOK /\ n \in Nat /\ pos \in Nat
          /\ shown \in Seq([entry : Nat, len : Nat])
        BY Zenon DEF ListInv, ListTypeOK
    <2>2. Len(shown) \in Nat /\ m \in 1 .. Len(shown) /\ m \in Nat
        BY <2>1
    <2>3. /\ list.fn \in ListFns /\ list.entries \in Seq(Nat) /\ list.mapped \in Nat
          /\ Len(list.entries) \in Nat /\ DOMAIN list.entries = 1 .. Len(list.entries)
        BY <2>1, ListFacts, Zenon
    <2>4. CASE list.fn \in ArrayFns
        <3>1. /\ Len(shown) = n /\ n <= list.mapped
              /\ \A j \in 1 .. n : shown[j].len = IF list.fn = "iovec" THEN BytesIn(j)
                                                  ELSE list.entries[j]
            BY <2>4, Zenon DEF ListInv, ArrayInv
        <3>2. m <= list.mapped /\ list.fn # "getdents" /\ list.fn # "fdset"
            BY <2>1, <2>2, <2>3, <2>4, <3>1 DEF ArrayFns
        <3> QED
            BY <2>2, <3>1, <3>2, Zenon
    <2>5. CASE list.fn = "getdents"
        <3>1. /\ n <= Len(list.entries) /\ pos = Sum[n] /\ Len(shown) <= n
              /\ n > 0 => pos <= Got
              /\ \A j \in 1 .. Len(shown) : shown[j].len = list.entries[j]
            BY <2>5, Zenon DEF ListInv, DirentInv
        <3>2. m \in 0 .. n /\ n \in 0 .. Len(list.entries) /\ n > 0 /\ m \in 0 .. m
              /\ m \in 0 .. Len(list.entries)
            <4>1. /\ n <= Len(list.entries) /\ Len(shown) <= n /\ n \in Nat
                  /\ Len(list.entries) \in Nat
                BY <2>1, <2>3, <3>1, Zenon
            <4> QED
                BY <2>2, <4>1
        <3>3. Sum[m] <= Sum[n] /\ Sum[m] \in Nat /\ Sum[n] \in Nat
            BY <2>3, <3>2, SumsGrow, Zenon DEF Sum
        <3>4. Got \in Int
            BY <2>1, ListFacts DEF Got, Smaller
        <3>5. Sum[m] <= Got
            BY <3>1, <3>2, <3>3, <3>4
        <3> QED
            BY <2>2, <2>5, <3>1, <3>5
    <2>6. CASE list.fn = "fdset"
        <3>1. /\ pos <= Len(list.entries) /\ Len(shown) <= pos
              /\ n > 0 => n <= Bits
              /\ \A j \in DOMAIN list.entries : j <= pos <=> list.entries[j] < n
              /\ \A j \in 1 .. Len(shown) : shown[j].len = list.entries[j]
            BY <2>6, Zenon DEF ListInv, FdSetInv
        <3>2. m \in DOMAIN list.entries /\ m <= pos
            <4>1. /\ pos <= Len(list.entries) /\ Len(shown) <= pos /\ pos \in Nat
                  /\ DOMAIN list.entries = 1 .. Len(list.entries)
                  /\ Len(list.entries) \in Nat
                BY <2>1, <2>3, <3>1, Zenon
            <4> QED
                BY <2>2, <4>1
        <3>3. list.entries[m] < n /\ shown[m].len = list.entries[m]
            BY <2>2, <3>1, <3>2, Zenon
        <3>4. list.entries[m] \in Nat /\ Bits \in Int
            <4>1. list.entries[m] \in Nat
                BY <2>3, <3>2
            <4>2. Bits \in Int
                BY <2>1, ListFacts DEF Bits, Smaller
            <4> QED
                BY <4>1, <4>2
        <3>5. list.entries[m] < Bits
            <4>1. n \in Nat /\ list.entries[m] < n /\ (n > 0 => n <= Bits)
                BY <2>1, <3>1, <3>3, Zenon
            <4> QED
                BY <3>4, <4>1
        <3> QED
            BY <2>6, <3>3, <3>5
    <2> QED
        BY <2>3, <2>4, <2>5, <2>6 DEF ListFns, ArrayFns
<1> QED
    BY <1>1, ListInvHolds, PTL

(* argv and envp keep their order, and a string is missing only if it did not *)
(* fit in what was left of the buffer (read_child_argv).                      *)
THEOREM StringsDropOnlyWhenFull == ListSpec => []DropsOnlyWhenFull
<1>1. ListInv => DropsOnlyWhenFull
    BY Zenon DEF ListInv, ArgvInv, DropsOnlyWhenFull
<1> QED
    BY <1>1, ListInvHolds, PTL

(* How many entries there are to be shown.                                    *)
LEMMA DeclaredCount ==
  ASSUME ListInv
  PROVE  /\ list.fn # "fdset" => Declared = Len(list.entries)
         /\ list.fn = "fdset" /\ Ended => (n < Bits <=> pos < Declared)
<1> DEFINE S == {m \in DOMAIN list.entries : list.fn = "fdset" => list.entries[m] < Bits}
<1>1. ListTypeOK /\ n \in Nat /\ pos \in Nat
    BY Zenon DEF ListInv, ListTypeOK
<1>2. /\ Len(list.entries) \in Nat /\ DOMAIN list.entries = 1 .. Len(list.entries)
      /\ \A m \in DOMAIN list.entries : list.entries[m] \in Nat
    <2>1. list.entries \in Seq(Nat) /\ DOMAIN list.entries = 1 .. Len(list.entries)
          /\ Len(list.entries) \in Nat
        BY <1>1, ListFacts, Zenon
    <2>2. \A m \in DOMAIN list.entries : list.entries[m] \in Nat
        BY <2>1
    <2> QED
        BY <2>1, <2>2, Zenon
<1>3. Declared = Cardinality(S)
    BY Zenon DEF Declared
<1>4. \A c \in Nat : IsFiniteSet(1 .. c) /\ Cardinality(1 .. c) = c
    BY FS_Interval
<1>5. Bits \in Int
    BY <1>1, ListFacts DEF Bits, Smaller
<1>6. CASE list.fn # "fdset"
    <2>1. S = 1 .. Len(list.entries)
        BY <1>2, <1>6, Zenon
    <2> QED
        BY <1>2, <1>3, <1>4, <1>6, <2>1, Zenon
<1>7. CASE list.fn = "fdset" /\ Ended
    <2>1. /\ pos <= Len(list.entries)
          /\ n > 0 => n <= Bits
          /\ \A m \in DOMAIN list.entries : m <= pos <=> list.entries[m] < n
          /\ n < Bits => IsSet
        BY <1>7, Zenon DEF ListInv, FdSetInv
    <2>2. CASE ~(n < Bits)
        <3>1. ASSUME NEW m \in DOMAIN list.entries
              PROVE  list.entries[m] < Bits <=> m <= pos
            <4>1. list.entries[m] \in Nat /\ (m <= pos <=> list.entries[m] < n)
                BY <1>2, <2>1, Zenon
            <4> QED
                BY <1>1, <1>5, <2>1, <2>2, <4>1
        <3>2. S = {m \in 1 .. Len(list.entries) : m <= pos}
            BY <1>2, <1>7, <3>1, Zenon
        <3>3. S = 1 .. pos
            <4> HIDE DEF S
            <4> QED
                BY <1>1, <1>2, <2>1, <3>2
        <3> QED
            <4>1. Declared = pos
                BY <1>1, <1>3, <1>4, <3>3, Zenon
            <4> QED
                BY <1>1, <1>7, <2>2, <4>1
    <2>3. CASE n < Bits
        <3>1. pos + 1 \in DOMAIN list.entries /\ list.entries[pos + 1] = n
            BY <1>7, <2>1, <2>3, NextDescriptor, Zenon
        <3>2. ASSUME NEW m \in 1 .. pos + 1 PROVE m \in S
            <4>1. m \in DOMAIN list.entries
                BY <1>1, <1>2, <3>1
            <4>2. CASE m = pos + 1
                BY <2>3, <3>1, <4>1, <4>2, Zenon
            <4>3. CASE m # pos + 1
                <5>1. m <= pos
                    BY <1>1, <4>3
                <5>2. list.entries[m] \in Nat /\ list.entries[m] < n
                    BY <1>2, <2>1, <4>1, <5>1, Zenon
                <5>3. list.entries[m] < Bits
                    BY <1>1, <1>5, <2>3, <5>2
                <5> QED
                    BY <4>1, <5>3, Zenon
            <4> QED
                BY <4>2, <4>3
        <3>3. IsFiniteSet(S)
            <4>1. S \subseteq 1 .. Len(list.entries)
                BY <1>2, Zenon
            <4> HIDE DEF S
            <4> QED
                BY <1>2, <1>4, <4>1, FS_Subset, Zenon
        <3> HIDE DEF S
        <3>4. 1 .. pos + 1 \subseteq S /\ pos + 1 \in Nat
            BY <1>1, <3>2
        <3>5. Cardinality(1 .. pos + 1) <= Cardinality(S) /\ Cardinality(S) \in Nat
            BY <3>3, <3>4, FS_Subset, FS_CardinalityType, Zenon
        <3> QED
            <4>1. pos + 1 <= Declared /\ Declared \in Nat
                BY <1>3, <1>4, <3>4, <3>5, Zenon
            <4> QED
                BY <1>1, <1>7, <2>3, <4>1
    <2> QED
        BY <2>2, <2>3
<1> QED
    BY <1>6, <1>7, Zenon

(* A list that fits its buffer ends in dots exactly if entries were left out, *)
(* whichever of the limits on entries, bytes or bits was hit; argv's dots say *)
(* that the limit was reached.                                                *)
THEOREM DotsTellTheTruth == ListSpec => []DotsMeanMore
<1>1. ListInv => DotsMeanMore
    <2> SUFFICES ASSUME ListInv, Whole, Readable
                 PROVE  IF list.fn = "argv"
                          THEN /\ marked => n = Cap
                               /\ n < Len(list.entries) =>
                                    marked \/ size + 4 >= OutSize
                          ELSE marked <=> Len(shown) < Declared
        BY DEF DotsMeanMore
    <2>1. /\ ListTypeOK /\ n \in Nat /\ pos \in Nat /\ size \in Nat
          /\ shown \in Seq([entry : Nat, len : Nat]) /\ at = "done" /\ size < OutSize
          /\ Ended
        BY Zenon DEF ListInv, ListTypeOK, Whole, Ended
    <2>2. /\ list.fn \in ListFns /\ list.mapped \in Nat /\ list.count \in Int
          /\ Len(list.entries) \in Nat /\ DOMAIN list.entries = 1 .. Len(list.entries)
          /\ list.entries \in Seq(Nat) /\ Cap \in Nat \ {0} /\ OutSize \in Nat
          /\ MaxBytes \in Nat /\ WellFormed(list) /\ Header \in Nat \ {0}
        BY <2>1, ListFacts, Zenon
    <2>3. /\ marked => more
          /\ more /\ size + (IF list.fn = "argv" THEN 4 ELSE 0) < OutSize => marked
        BY <2>1, Zenon DEF ListInv, DotsInv
    <2>4. CASE list.fn = "argv"
        <3>1. n <= Len(list.entries) /\ n <= Cap /\ (more <=> n = Cap) /\ ~ArgvOn
            BY <2>1, <2>4, Zenon DEF ListInv, ArgvInv
        <3>2. list.mapped >= Smaller(Len(list.entries), Cap)
            BY <2>4 DEF Readable
        <3>3. n < Len(list.entries) => n = Cap
            BY <2>1, <2>2, <3>1, <3>2 DEF ArgvOn, Smaller
        <3>4. more /\ ~marked => size + 4 >= OutSize
            BY <2>1, <2>2, <2>3, <2>4
        <3> QED
            BY <2>3, <2>4, <3>1, <3>3, <3>4, Zenon
    <2>5. CASE list.fn # "argv"
        <3>1. marked <=> more
            <4>1. size + 0 < OutSize
                BY <2>1
            <4> QED
                BY <2>3, <2>5, <4>1, Zenon
        <3>2. CASE list.fn \in ArrayFns
            <4>1. /\ Len(shown) = n /\ n <= Len(list.entries) /\ n <= Cap
                  /\ more <=> list.count > Cap
                  /\ ~ArrayOn \/ size >= OutSize
                BY <2>1, <3>2, Zenon DEF ListInv, ArrayInv, PassesCap
            <4>2. list.mapped >= Smaller(Len(list.entries), Cap)
                BY <3>2 DEF Readable, ArrayFns
            <4>3. Counted(list.count, Len(list.entries))
                BY <2>2, <3>2, Zenon DEF WellFormed, ArrayFns
            <4>4. n >= Smaller(list.count, Cap) \/ n >= list.mapped
                BY <2>1, <2>2, <4>1 DEF ArrayOn, Smaller
            <4>5. list.count > Cap <=> n < Len(list.entries)
                BY <2>1, <2>2, <4>1, <4>2, <4>3, <4>4 DEF Counted, Smaller
            <4>6. Declared = Len(list.entries)
                BY <3>2, DeclaredCount DEF ArrayFns
            <4> QED
                BY <2>5, <3>1, <4>1, <4>5, <4>6, Zenon
        <3>3. CASE list.fn = "getdents"
            <4> DEFINE T == SumOf(list.entries)
                       L == Len(list.entries)
            <4>1. /\ n <= L /\ n <= Cap /\ pos = T[n] /\ Len(shown) = n
                  /\ more <=> pos < Got
                BY <2>1, <3>3, Zenon DEF ListInv, DirentInv, Sum
            <4>2. /\ Counted(list.count, T[L])
                  /\ \A m \in DOMAIN list.entries :
                       list.entries[m] >= Header /\ (m <= Cap => T[m] < MaxBytes)
                BY <2>2, <3>3, Zenon DEF WellFormed, Total
            <4>3. Got = Smaller(list.count, MaxBytes)
                <5>1. list.mapped >= Smaller(list.count, MaxBytes)
                    BY <3>3 DEF Readable
                <5> QED
                    BY <2>2, <5>1 DEF Got, Smaller
            <4>4. CASE n = L
                <5>1. ~(pos < Got)
                    <6>1. Counted(list.count, pos) /\ pos \in Nat
                        BY <2>1, <4>1, <4>2, <4>4, Zenon
                    <6>2. list.count \in Int /\ MaxBytes \in Nat
                        BY <2>2, Zenon
                    <6> QED
                        BY <4>3, <6>1, <6>2 DEF Counted, Smaller
                <5>2. Declared = n
                    BY <3>3, <4>4, DeclaredCount
                <5> QED
                    BY <2>1, <2>5, <3>1, <4>1, <5>1, <5>2
            <4>5. CASE n < L
                <5>1. /\ n + 1 \in DOMAIN list.entries /\ n + 1 \in 0 .. L /\ L \in 0 .. L
                      /\ n \in 0 .. L /\ n \in 0 .. n /\ n + 1 # 0 /\ (n + 1) - 1 = n
                    BY <2>1, <2>2, <4>5
                <5>2. T[n] \in Nat /\ T[L] \in Nat /\ T[n + 1] <= T[L]
                    BY <2>2, <5>1, SumsGrow, Zenon
                <5>3. T[n + 1] = T[n] + list.entries[n + 1]
                    <6>1. T[n + 1] = IF n + 1 = 0 THEN 0
                                     ELSE T[(n + 1) - 1] + list.entries[n + 1]
                        BY <2>2, <5>1, SumOfDef, Zenon
                    <6> QED
                        BY <5>1, <6>1, Zenon
                <5>4. list.entries[n + 1] \in Nat /\ list.entries[n + 1] >= Header
                    <6>1. list.entries[n + 1] \in Nat
                        BY <2>2, <5>1
                    <6> QED
                        BY <4>2, <5>1, <6>1, Zenon
                <5> HIDE DEF T
                <5>5. pos < T[L]
                    <6>1. Header \in Nat /\ Header # 0 /\ pos = T[n]
                        BY <2>2, <4>1, Zenon DEF T
                    <6>2. T[n + 1] > T[n] /\ T[n + 1] \in Nat
                        BY <5>2, <5>3, <5>4, <6>1
                    <6> QED
                        BY <5>2, <6>1, <6>2
                <5>6. pos < list.count
                    BY <2>1, <2>2, <4>2, <5>2, <5>5 DEF Counted
                <5>7. pos < MaxBytes
                    <6>1. CASE n = 0
                        <7>1. T[1] < MaxBytes /\ 1 = n + 1
                            BY <2>2, <4>2, <5>1, <6>1
                        <7> QED
                            <8>1. pos = T[n] /\ MaxBytes \in Nat
                                BY <2>2, <4>1, Zenon DEF T
                            <8> QED
                                BY <5>2, <5>3, <5>4, <7>1, <8>1
                    <6>2. CASE n # 0
                        <7>1. n \in DOMAIN list.entries
                            BY <2>1, <2>2, <5>1, <6>2
                        <7> QED
                            BY <4>1, <4>2, <7>1, Zenon
                    <6> QED
                        BY <6>1, <6>2
                <5>8. pos < Got
                    BY <4>3, <5>6, <5>7 DEF Smaller
                <5>9. Declared = L
                    BY <3>3, DeclaredCount
                <5> QED
                    BY <2>5, <3>1, <4>1, <4>5, <5>8, <5>9, Zenon
            <4> QED
                BY <2>1, <2>2, <4>1, <4>4, <4>5
        <3>4. CASE list.fn = "fdset"
            <4>1. Len(shown) = pos /\ (more <=> n < Bits)
                BY <2>1, <3>4, Zenon DEF ListInv, FdSetInv
            <4>2. n < Bits <=> pos < Declared
                BY <2>1, <3>4, DeclaredCount, Zenon
            <4> QED
                BY <2>5, <3>1, <4>1, <4>2, Zenon
        <3> QED
            BY <2>2, <2>5, <3>2, <3>3, <3>4 DEF ListFns, ArrayFns
    <2> QED
        BY <2>4, <2>5
<1> QED
    BY <1>1, ListInvHolds, PTL

------------------------------------------------------------------------------
(* How many more steps a decoder can take: its loops stop at Cap entries, or  *)
(* at MaxBits descriptors, whatever the tracee says.                          *)
StepsLeft ==
  CASE at = "start" -> Cap + MaxBits + 3
    [] at \in ListFns -> Cap + MaxBits + 2 - n
    [] at = "close" -> 1
    [] OTHER -> 0

(* The loop index stays within the two limits.                                *)
LEMMA IndexBound ==
  ASSUME ListInv
  PROVE  n \in Nat /\ Cap \in Nat /\ MaxBits \in Nat /\ n <= Cap + MaxBits
<1>1. /\ n \in Nat /\ Cap \in Nat \ {0} /\ MaxBits \in Nat /\ list.fn \in ListFns
      /\ list.count \in Int
    BY ListFacts, Zenon DEF ListInv, ListTypeOK
<1>2. Bits \in Int /\ Bits <= MaxBits
    BY <1>1 DEF Bits, Smaller
<1>3. n <= Cap \/ n = 0 \/ n <= Bits
    <2>1. CASE list.fn = "fdset"
        BY <1>1, <2>1 DEF ListInv, FdSetInv
    <2>2. CASE list.fn # "fdset"
        BY <1>1, <2>2, Zenon DEF ListInv, ArrayInv, DirentInv, ArgvInv, ListFns, ArrayFns
    <2> QED
        BY <2>1, <2>2
<1> QED
    BY <1>1, <1>2, <1>3

(* A step leaves the start for a loop or for good, a loop for its end, or     *)
(* moves the index.                                                           *)
LEMMA StepShape ==
  ASSUME ListInv, ListNext
  PROVE  \/ at = "start" /\ at' \in ListFns \cup {"plain"} /\ n' = n
         \/ at \in ListFns /\ at' = at /\ n' = n + 1
         \/ at \in ListFns /\ at' = "close" /\ n' = n
         \/ at = "close" /\ at' = "done" /\ n' = n
<1>1. list.fn \in ListFns
    BY ListFacts, Zenon DEF ListInv
<1>2. CASE Refuse \/ Open \/ Finish
    BY <1>1, <1>2, Zenon DEF Refuse, Open, Finish
<1>3. CASE ArrayEntry \/ Dirent \/ Descriptor \/ ArgvString
    BY <1>3, Zenon DEF ArrayEntry, Dirent, Descriptor, ArgvString, ListFns
<1>4. CASE ArrayEnds \/ DirentsEnd \/ DescriptorsEnd \/ ArgvEnds
    BY <1>4, Zenon DEF ArrayEnds, DirentsEnd, DescriptorsEnd, ArgvEnds, ListFns
<1> QED
    BY <1>2, <1>3, <1>4, Zenon DEF ListNext

(* Every list decoder ends: whatever counts the tracee passes and whatever its*)
(* memory holds, a decoder takes Cap + MaxBits + 3 steps at most, because each*)
(* step leaves fewer of them.                                                 *)
THEOREM EveryListEnds ==
  ListSpec => /\ [](StepsLeft \in 0 .. (Cap + MaxBits + 3))
              /\ [][StepsLeft' < StepsLeft]_lvars
<1>1. ASSUME ListInv PROVE StepsLeft \in 0 .. (Cap + MaxBits + 3)
    <2>1. n \in Nat /\ Cap \in Nat /\ MaxBits \in Nat /\ n <= Cap + MaxBits
        BY <1>1, IndexBound
    <2> QED
        BY <2>1 DEF StepsLeft
<1>2. ASSUME ListInv, ListInv', [ListNext]_lvars
      PROVE  [StepsLeft' < StepsLeft]_lvars
    <2> SUFFICES ASSUME ListNext PROVE StepsLeft' < StepsLeft
        BY <1>2
    <2>1. n \in Nat /\ Cap \in Nat /\ MaxBits \in Nat /\ n <= Cap + MaxBits
        BY <1>2, IndexBound
    <2>2. \/ at = "start" /\ at' \in ListFns \cup {"plain"} /\ n' = n
          \/ at \in ListFns /\ at' = at /\ n' = n + 1
          \/ at \in ListFns /\ at' = "close" /\ n' = n
          \/ at = "close" /\ at' = "done" /\ n' = n
        BY <1>2, StepShape
    <2> QED
        BY <2>1, <2>2 DEF StepsLeft, ListFns
<1> QED
    BY <1>1, <1>2, ListInvHolds, PTL DEF ListSpec
=============================================================================
