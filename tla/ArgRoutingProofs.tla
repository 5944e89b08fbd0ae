------------------------- MODULE ArgRoutingProofs -------------------------
(* What the user is told of a call without -c: one line, whatever the routing *)
(* tables hold; and, for any tables that obey RoutingAssumption and any value *)
(* returned, a line in which every argument is rendered by the table that     *)
(* claims it, on whichever of the two paths the call takes.                   *)
EXTENDS ArgRouting, WellFoundedInduction, TLAPS

\* Between the two stops of a call: a filtered call has printed nothing and
\* deferred nothing, and any other has been printed unless -c is given or the
\* line waits for the exit-stop.
PrintedInv ==
    /\ suppressed \in BOOLEAN /\ summary_mode \in BOOLEAN
    /\ in_syscall =>
           /\ suppressed => ~Awaited(pending)
           /\ printed = IF suppressed \/ summary_mode \/ Awaited(pending)
                        THEN 0 ELSE 1

RouteInv == PrintedInv /\ OneLinePerCall

\* The condition that defers at the entry-stop is the one the exit-stop tests,
\* and the cleared fields do not meet it.
LEMMA DeferredIsAwaited ==
    /\ \A p : Deferred(p) <=> Awaited(p)
    /\ ~Awaited(Cleared)
BY DEF Deferred, Awaited, Cleared

\* An entry-stop keeps the invariant: the line is printed now or awaited.
LEMMA EntryPrints ==
    ASSUME RouteInv, NEW n \in CallNames, NEW allowed \in BOOLEAN,
           Entry(n, allowed)
    PROVE  RouteInv'
<1> DEFINE l == Lookups(n)
           defer == allowed /\ Deferred(l)
<1> HIDE DEF l
<1>1. /\ in_syscall' = TRUE /\ suppressed' = ~allowed
      /\ summary_mode' = summary_mode
      /\ pending' = IF defer THEN l ELSE Cleared
      /\ printed' = IF allowed /\ ~defer /\ ~summary_mode THEN 1 ELSE 0
    BY DEF Entry, options, l
<1>2. Awaited(pending)' <=> defer
  <2>1. CASE defer
      <3>1. pending' = l
          BY <1>1, <2>1
      <3> QED
          BY <2>1, <3>1, DeferredIsAwaited DEF Awaited
  <2>2. CASE ~defer
      <3>1. pending' = Cleared
          BY <1>1, <2>2
      <3> QED
          BY <2>2, <3>1, DeferredIsAwaited DEF Awaited
  <2> QED
      BY <2>1, <2>2
<1>3. PrintedInv'
    BY <1>1, <1>2, Zenon DEF RouteInv, PrintedInv
<1>4. OneLinePerCall'
    BY <1>1 DEF OneLinePerCall
<1> QED
    BY <1>3, <1>4 DEF RouteInv

\* An exit-stop prints the line that is awaited, and no other.
LEMMA ExitPrints ==
    ASSUME RouteInv, NEW ret \in Returns, Exit(ret)
    PROVE  RouteInv'
<1>1. /\ in_syscall /\ in_syscall' = FALSE
      /\ suppressed' = suppressed /\ summary_mode' = summary_mode
      /\ printed' = IF ~suppressed /\ Awaited(pending) /\ ~summary_mode
                    THEN printed + 1 ELSE printed
    BY DEF Exit, options
<1>2. printed' = IF suppressed \/ summary_mode THEN 0 ELSE 1
    BY <1>1 DEF RouteInv, PrintedInv
<1> QED
    BY <1>1, <1>2 DEF RouteInv, PrintedInv, OneLinePerCall

\* Whatever the tables of argument slots hold, a call that passes the filter is
\* printed exactly once by the time it returns, and not at all under -c or when
\* filtered: the entry-stop and the exit-stop of run_tracer agree on who prints.
THEOREM EachCallPrintedOnce == RSpec => []OneLinePerCall
<1>1. RInit => RouteInv
    BY DEF RInit, RouteInv, PrintedInv, OneLinePerCall
<1>2. RouteInv /\ [RNext]_vars => RouteInv'
  <2>1. ASSUME RouteInv, RNext PROVE RouteInv'
      BY <2>1, EntryPrints, ExitPrints DEF RNext
  <2>2. ASSUME RouteInv, UNCHANGED vars PROVE RouteInv'
      BY <2>2 DEF vars, options, RouteInv, PrintedInv, OneLinePerCall, Awaited
  <2> QED
      BY <2>1, <2>2
<1>3. RouteInv => OneLinePerCall
    BY DEF RouteInv
<1> QED
    BY <1>1, <1>2, <1>3, PTL DEF RSpec

------------------------------------------------------------------------------
(* The slots of a line: each is rendered by a table that claims it, and by    *)
(* the plain form only if none does.                                          *)

(* The decoder of each kind of argument that the kernel fills in, and whether *)
(* a call that returns ret has one to decode.                                 *)
StashDecoder ==
  [read |-> "read_child_buffer", sockaddr |-> "format_sockaddr",
   wait_status |-> "format_wait_status", msghdr |-> "format_msghdr",
   stat |-> "format_stat_buf", getdents |-> "format_getdents_buf",
   sigaction |-> "format_sigaction", timespec_out |-> "format_timespec",
   rusage |-> "format_rusage", rlimit |-> "format_rlimit",
   epoll_events |-> "format_epoll_events_buf", pollfds |-> "format_pollfds_buf",
   statx |-> "format_statx_buf", iovec |-> "format_iovec_buf"]

(* The kinds whose branch has no condition on ret.                            *)
Unconditional == {"getdents", "epoll_events", "pollfds", "timespec_out"}

Present(p, ret, kind) ==
  /\ p[kind] # NoSlot
  /\ IF kind = "read" THEN ret > 0 ELSE kind \in Unconditional \/ ret >= 0

(* How slot i of a call is rendered: as an argument of the caller's, as one   *)
(* that the kernel filled in, or plainly.                                     *)
OwnSlot(n, i, d) == \E c \in OwnArgs(n) : i \in c[2] /\ d.by = c[1]

StashSlot(n, ret, i, d) ==
  /\ i \notin Covered(OwnArgs(n))
  /\ \E kind \in Kinds : /\ Present(Lookups(n), ret, kind)
                         /\ i = Lookups(n)[kind] /\ d.by = StashDecoder[kind]

PlainSlot(n, ret, i, d) ==
  /\ i \notin Covered(OwnArgs(n))
  /\ i \notin Covered(ToSet(StashChain(Lookups(n), ret)))
  /\ d.by = Fallback

Rendered(n, ret, i, d) ==
  /\ OwnSlot(n, i, d) \/ StashSlot(n, ret, i, d) \/ PlainSlot(n, ret, i, d)
  /\ d = [by |-> d.by, resolve |-> d.resolve]
  /\ d.resolve = (d.by \in Resolvers /\ i \in FdMask(n))

(* A nonempty set of numbers has a least one.                                 *)
LEMMA LeastExists ==
  ASSUME NEW S, S \subseteq Nat, S # {}
  PROVE  \E x \in S : \A y \in S : x <= y
<1> DEFINE R == {r \in Nat \X Nat : r[1] < r[2]}
<1>1. IsWellFoundedOn(R, Nat)
    BY NatLessThanWellFounded, Zenon DEF OpToRel
<1>2. PICK x \in S : \A y \in S : ~(<<y, x>> \in R)
    <2> HIDE DEF R
    <2> QED
        BY <1>1, WFMin, Zenon
<1>3. ASSUME NEW y \in S PROVE x <= y
    <2>1. x \in Nat /\ y \in Nat /\ ~(<<y, x>> \in R)
        BY <1>2
    <2>2. ~(y < x)
        BY <2>1
    <2> QED
        BY <2>1, <2>2
<1> QED
    BY <1>3

(* Decode finds a branch that is true for the slot if there is one.           *)
LEMMA DecodeIs ==
  ASSUME NEW chain, Len(chain) \in Nat, DOMAIN chain = 1 .. Len(chain),
         NEW mask, NEW i, NEW d, d = Decode(chain, mask, i)
  PROVE  /\ \/ i \notin Covered(ToSet(chain)) /\ d.by = Fallback
            \/ \E c \in ToSet(chain) : i \in c[2] /\ d.by = c[1]
         /\ d = [by |-> d.by, resolve |-> d.resolve]
         /\ d.resolve = (d.by \in Resolvers /\ i \in mask)
<1> DEFINE I == {b \in 1 .. Len(chain) : i \in chain[b][2]}
           b0 == IF I # {} THEN Min(I) ELSE 0
           by == IF b0 = 0 THEN Fallback ELSE chain[b0][1]
<1>1. SelectInSeq(chain, LAMBDA branch : i \in branch[2]) = b0
    BY Zenon DEF SelectInSeq
<1>2. d = [by |-> by, resolve |-> by \in Resolvers /\ i \in mask]
    <2> HIDE DEF b0
    <2> QED
        BY <1>1, Zenon DEF Decode
<1>3. CASE I = {}
    <2>1. b0 = 0
        BY <1>3, Zenon
    <2>2. i \notin Covered(ToSet(chain))
        <3>1. \A b \in DOMAIN chain : i \notin chain[b][2]
            BY <1>3, Zenon
        <3> QED
            BY <3>1, Zenon DEF Covered, ToSet
    <2>3. by = Fallback
        BY <2>1, Zenon
    <2> HIDE DEF by, b0, I
    <2> QED
        BY <1>2, <2>2, <2>3
<1>4. CASE I # {}
    <2>1. PICK x \in I : \A y \in I : x <= y
        <3>1. I \subseteq Nat
            OBVIOUS
        <3> HIDE DEF I
        <3> QED
            BY <1>4, <3>1, LeastExists, Zenon
    <2>2. b0 \in I
        <3>1. b0 = Min(I)
            BY <1>4, Zenon
        <3> HIDE DEF I, b0
        <3> QED
            BY <2>1, <3>1, Zenon DEF Min
    <2>3. b0 \in 1 .. Len(chain) /\ i \in chain[b0][2]
        <3> HIDE DEF b0
        <3> QED
            BY <2>2, Zenon
    <2>4. b0 # 0
        <3> HIDE DEF b0
        <3> QED
            BY <2>3
    <2>5. by = chain[b0][1] /\ chain[b0] \in ToSet(chain)
        <3> HIDE DEF b0
        <3> QED
            BY <2>3, <2>4, Zenon DEF ToSet
    <2> HIDE DEF by, b0, I
    <2> QED
        BY <1>2, <2>3, <2>5
<1> QED
    BY <1>3, <1>4

(* The chains are sequences; the exit-stop's is made of its two parts.        *)
LEMMA ChainFacts ==
  ASSUME NEW n, NEW p, NEW ret
  PROVE  /\ Len(ImmediateChain(n)) \in Nat
         /\ DOMAIN ImmediateChain(n) = 1 .. Len(ImmediateChain(n))
         /\ Len(DeferredChain(n, p, ret)) \in Nat
         /\ DOMAIN DeferredChain(n, p, ret) = 1 .. Len(DeferredChain(n, p, ret))
         /\ ToSet(DeferredChain(n, p, ret))
              = ToSet(CallerChain(n)) \cup ToSet(StashChain(p, ret))
<1>1. Len(ImmediateChain(n)) = 50 /\ DOMAIN ImmediateChain(n) = 1 .. 50
    BY DEF ImmediateChain
<1> DEFINE A == CallerChain(n)
           B == StashChain(p, ret)
           C == A \o B
<1>2. /\ Len(A) = 13 /\ DOMAIN A = 1 .. 13
      /\ A = [b \in 1 .. 13 |-> A[b]]
    BY DEF CallerChain
<1>3. /\ Len(B) = 14 /\ DOMAIN B = 1 .. 14
      /\ B = [b \in 1 .. 14 |-> B[b]]
    BY DEF StashChain
<1>4. A \in Seq(ToSet(A)) /\ B \in Seq(ToSet(B))
    <2> HIDE DEF A, B
    <2>1. A \in [1 .. 13 -> ToSet(A)] /\ B \in [1 .. 14 -> ToSet(B)]
        BY <1>2, <1>3 DEF ToSet
    <2>2. \A S : \A m \in Nat : \A f \in [1 .. m -> S] : f \in Seq(S)
        OBVIOUS
    <2> QED
        BY <2>1, <2>2, 13 \in Nat, 14 \in Nat, Zenon
<1>5. Len(C) = 27 /\ DOMAIN C = 1 .. 27
    <2> HIDE DEF A, B
    <2> QED
        BY <1>2, <1>3, <1>4
<1>6. \A b \in 1 .. 27 : C[b] = IF b <= 13 THEN A[b] ELSE B[b - 13]
    <2> HIDE DEF A, B
    <2> QED
        BY <1>2, <1>3, <1>4
<1>7. ToSet(C) = ToSet(A) \cup ToSet(B)
    <2> HIDE DEF A, B, C
    <2>1. ASSUME NEW c \in ToSet(C) PROVE c \in ToSet(A) \cup ToSet(B)
        <3>1. PICK b \in 1 .. 27 : c = C[b]
            BY <1>5, Zenon DEF ToSet
        <3>2. CASE b <= 13
            <4>1. b \in DOMAIN A /\ c = A[b]
                BY <1>2, <1>6, <3>1, <3>2
            <4> QED
                BY <4>1, Zenon DEF ToSet
        <3>3. CASE ~(b <= 13)
            <4>1. b - 13 \in DOMAIN B /\ c = B[b - 13]
                BY <1>3, <1>6, <3>1, <3>3
            <4> QED
                BY <4>1, Zenon DEF ToSet
        <3> QED
            BY <3>2, <3>3
    <2>2. ASSUME NEW c \in ToSet(A) PROVE c \in ToSet(C)
        <3>1. PICK b \in 1 .. 13 : c = A[b]
            BY <1>2, Zenon DEF ToSet
        <3>2. b \in DOMAIN C /\ c = C[b]
            BY <1>5, <1>6, <3>1
        <3> QED
            BY <3>2, Zenon DEF ToSet
    <2>3. ASSUME NEW c \in ToSet(B) PROVE c \in ToSet(C)
        <3>1. PICK b \in 1 .. 14 : c = B[b]
            BY <1>3, Zenon DEF ToSet
        <3>2. b + 13 \in 1 .. 27 /\ ~(b + 13 <= 13) /\ (b + 13) - 13 = b
            OBVIOUS
        <3>3. b + 13 \in DOMAIN C /\ c = C[b + 13]
            BY <1>5, <1>6, <3>1, <3>2
        <3> QED
            BY <3>3, Zenon DEF ToSet
    <2> QED
        BY <2>1, <2>2, <2>3, Zenon
<1>8. DeferredChain(n, p, ret) = C
    BY Zenon DEF DeferredChain
<1>9. 50 \in Nat /\ 27 \in Nat
    OBVIOUS
<1> HIDE DEF C
<1> QED
    BY <1>1, <1>5, <1>7, <1>8, <1>9, Zenon

(* A branch of the second part stands for one kind, with its decoder.         *)
LEMMA StashBranch ==
  ASSUME NEW p, NEW ret \in Int, NEW c \in ToSet(StashChain(p, ret)), NEW i \in c[2]
  PROVE  \E kind \in Kinds : /\ Present(p, ret, kind) /\ i = p[kind]
                             /\ c[1] = StashDecoder[kind]
<1>1. Kinds = DOMAIN StashDecoder
    BY DEF Kinds, Outputs, StashDecoder
<1>2. PICK b \in 1 .. 14 : c = StashChain(p, ret)[b]
    <2>1. DOMAIN StashChain(p, ret) = 1 .. 14
        BY DEF StashChain
    <2> QED
        BY <2>1, Zenon DEF ToSet
<1>3. CASE b = 1
    <2>1. i \in Stashed(p.read, ret > 0) /\ c[1] = "read_child_buffer"
        BY <1>2, <1>3 DEF StashChain
    <2>2. "read" \in Kinds /\ StashDecoder["read"] = "read_child_buffer"
        BY <1>1 DEF StashDecoder
    <2>3. Present(p, ret, "read") /\ i = p["read"]
        BY <2>1 DEF Stashed, Present, Unconditional
    <2> QED
        BY <2>1, <2>2, <2>3, Zenon
<1>4. CASE b = 2
    <2>1. i \in Stashed(p.sockaddr, ret >= 0) /\ c[1] = "format_sockaddr"
        BY <1>2, <1>4 DEF StashChain
    <2>2. "sockaddr" \in Kinds /\ StashDecoder["sockaddr"] = "format_sockaddr"
        BY <1>1 DEF StashDecoder
    <2>3. Present(p, ret, "sockaddr") /\ i = p["sockaddr"]
        BY <2>1 DEF Stashed, Present, Unconditional
    <2> QED
        BY <2>1, <2>2, <2>3, Zenon
<1>5. CASE b = 3
    <2>1. i \in Stashed(p.wait_status, ret >= 0) /\ c[1] = "format_wait_status"
        BY <1>2, <1>5 DEF StashChain
    <2>2. "wait_status" \in Kinds /\ StashDecoder["wait_status"] = "format_wait_status"
        BY <1>1 DEF StashDecoder
    <2>3. Present(p, ret, "wait_status") /\ i = p["wait_status"]
        BY <2>1 DEF Stashed, Present, Unconditional
    <2> QED
        BY <2>1, <2>2, <2>3, Zenon
<1>6. CASE b = 4
    <2>1. i \in Stashed(p.msghdr, ret >= 0) /\ c[1] = "format_msghdr"
        BY <1>2, <1>6 DEF StashChain
    <2>2. "msghdr" \in Kinds /\ StashDecoder["msghdr"] = "format_msghdr"
        BY <1>1 DEF StashDecoder
    <2>3. Present(p, ret, "msghdr") /\ i = p["msghdr"]
        BY <2>1 DEF Stashed, Present, Unconditional
    <2> QED
        BY <2>1, <2>2, <2>3, Zenon
<1>7. CASE b = 5
    <2>1. i \in Stashed(p.stat, ret >= 0) /\ c[1] = "format_stat_buf"
        BY <1>2, <1>7 DEF StashChain
    <2>2. "stat" \in Kinds /\ StashDecoder["stat"] = "format_stat_buf"
        BY <1>1 DEF StashDecoder
    <2>3. Present(p, ret, "stat") /\ i = p["stat"]
        BY <2>1 DEF Stashed, Present, Unconditional
    <2> QED
        BY <2>1, <2>2, <2>3, Zenon
<1>8. CASE b = 6
    <2>1. i \in Stashed(p.getdents, TRUE) /\ c[1] = "format_getdents_buf"
        BY <1>2, <1>8, Zenon DEF StashChain
    <2>2. "getdents" \in Kinds /\ StashDecoder["getdents"] = "format_getdents_buf"
        BY <1>1 DEF StashDecoder
    <2>3. Present(p, ret, "getdents") /\ i = p["getdents"]
        BY <2>1 DEF Stashed, Present, Unconditional
    <2> QED
        BY <2>1, <2>2, <2>3, Zenon
<1>9. CASE b = 7
    <2>1. i \in Stashed(p.sigaction, ret >= 0) /\ c[1] = "format_sigaction"
        BY <1>2, <1>9 DEF StashChain
    <2>2. "sigaction" \in Kinds /\ StashDecoder["sigaction"] = "format_sigaction"
        BY <1>1 DEF StashDecoder
    <2>3. Present(p, ret, "sigaction") /\ i = p["sigaction"]
        BY <2>1 DEF Stashed, Present, Unconditional
    <2> QED
        BY <2>1, <2>2, <2>3, Zenon
<1>10. CASE b = 8
    <2>1. i \in Stashed(p.timespec_out, TRUE) /\ c[1] = "format_timespec"
        BY <1>2, <1>10, Zenon DEF StashChain
    <2>2. "timespec_out" \in Kinds /\ StashDecoder["timespec_out"] = "format_timespec"
        BY <1>1 DEF StashDecoder
    <2>3. Present(p, ret, "timespec_out") /\ i = p["timespec_out"]
        BY <2>1 DEF Stashed, Present, Unconditional
    <2> QED
        BY <2>1, <2>2, <2>3, Zenon
<1>11. CASE b = 9
    <2>1. i \in Stashed(p.rusage, ret >= 0) /\ c[1] = "format_rusage"
        BY <1>2, <1>11 DEF StashChain
    <2>2. "rusage" \in Kinds /\ StashDecoder["rusage"] = "format_rusage"
        BY <1>1 DEF StashDecoder
    <2>3. Present(p, ret, "rusage") /\ i = p["rusage"]
        BY <2>1 DEF Stashed, Present, Unconditional
    <2> QED
        BY <2>1, <2>2, <2>3, Zenon
<1>12. CASE b = 10
    <2>1. i \in Stashed(p.rlimit, ret >= 0) /\ c[1] = "format_rlimit"
        BY <1>2, <1>12 DEF StashChain
    <2>2. "rlimit" \in Kinds /\ StashDecoder["rlimit"] = "format_rlimit"
        BY <1>1 DEF StashDecoder
    <2>3. Present(p, ret, "rlimit") /\ i = p["rlimit"]
        BY <2>1 DEF Stashed, Present, Unconditional
    <2> QED
        BY <2>1, <2>2, <2>3, Zenon
<1>13. CASE b = 11
    <2>1. i \in Stashed(p.epoll_events, TRUE) /\ c[1] = "format_epoll_events_buf"
        BY <1>2, <1>13, Zenon DEF StashChain
    <2>2. "epoll_events" \in Kinds /\ StashDecoder["epoll_events"] = "format_epoll_events_buf"
        BY <1>1 DEF StashDecoder
    <2>3. Present(p, ret, "epoll_events") /\ i = p["epoll_events"]
        BY <2>1 DEF Stashed, Present, Unconditional
    <2> QED
        BY <2>1, <2>2, <2>3, Zenon
<1>14. CASE b = 12
    <2>1. i \in Stashed(p.pollfds, TRUE) /\ c[1] = "format_pollfds_buf"
        BY <1>2, <1>14, Zenon DEF StashChain
    <2>2. "pollfds" \in Kinds /\ StashDecoder["pollfds"] = "format_pollfds_buf"
        BY <1>1 DEF StashDecoder
    <2>3. Present(p, ret, "pollfds") /\ i = p["pollfds"]
        BY <2>1 DEF Stashed, Present, Unconditional
    <2> QED
        BY <2>1, <2>2, <2>3, Zenon
<1>15. CASE b = 13
    <2>1. i \in Stashed(p.statx, ret >= 0) /\ c[1] = "format_statx_buf"
        BY <1>2, <1>15 DEF StashChain
    <2>2. "statx" \in Kinds /\ StashDecoder["statx"] = "format_statx_buf"
        BY <1>1 DEF StashDecoder
    <2>3. Present(p, ret, "statx") /\ i = p["statx"]
        BY <2>1 DEF Stashed, Present, Unconditional
    <2> QED
        BY <2>1, <2>2, <2>3, Zenon
<1>16. CASE b = 14
    <2>1. i \in Stashed(p.iovec, ret >= 0) /\ c[1] = "format_iovec_buf"
        BY <1>2, <1>16 DEF StashChain
    <2>2. "iovec" \in Kinds /\ StashDecoder["iovec"] = "format_iovec_buf"
        BY <1>1 DEF StashDecoder
    <2>3. Present(p, ret, "iovec") /\ i = p["iovec"]
        BY <2>1 DEF Stashed, Present, Unconditional
    <2> QED
        BY <2>1, <2>2, <2>3, Zenon
<1> QED
    BY <1>2, <1>3, <1>4, <1>5, <1>6, <1>7, <1>8, <1>9, <1>10, <1>11, <1>12, <1>13, <1>14, <1>15, <1>16

(* An argument that the call has to decode is in a branch of the second part. *)
LEMMA StashCovers ==
  ASSUME NEW p, NEW ret \in Int, NEW kind \in Kinds, Present(p, ret, kind)
  PROVE  p[kind] \in Covered(ToSet(StashChain(p, ret)))
<1>1. Kinds = DOMAIN StashDecoder
    BY DEF Kinds, Outputs, StashDecoder
<1>2. ASSUME NEW b \in 1 .. 14, p[kind] \in StashChain(p, ret)[b][2]
      PROVE  p[kind] \in Covered(ToSet(StashChain(p, ret)))
    <2>1. DOMAIN StashChain(p, ret) = 1 .. 14
        BY DEF StashChain
    <2>2. StashChain(p, ret)[b] \in ToSet(StashChain(p, ret))
        BY <2>1, Zenon DEF ToSet
    <2> QED
        BY <1>2, <2>2, Zenon DEF Covered
<1>3. CASE kind = "read"
    <2>1. p[kind] \in StashChain(p, ret)[1][2]
        BY <1>3 DEF StashChain, Stashed, Present, Unconditional
    <2>2. 1 \in 1 .. 14
        OBVIOUS
    <2> QED
        BY <1>2, <2>1, <2>2, Zenon
<1>4. CASE kind = "sockaddr"
    <2>1. p[kind] \in StashChain(p, ret)[2][2]
        BY <1>4 DEF StashChain, Stashed, Present, Unconditional
    <2>2. 2 \in 1 .. 14
        OBVIOUS
    <2> QED
        BY <1>2, <2>1, <2>2, Zenon
<1>5. CASE kind = "wait_status"
    <2>1. p[kind] \in StashChain(p, ret)[3][2]
        BY <1>5 DEF StashChain, Stashed, Present, Unconditional
    <2>2. 3 \in 1 .. 14
        OBVIOUS
    <2> QED
        BY <1>2, <2>1, <2>2, Zenon
<1>6. CASE kind = "msghdr"
    <2>1. p[kind] \in StashChain(p, ret)[4][2]
        BY <1>6 DEF StashChain, Stashed, Present, Unconditional
    <2>2. 4 \in 1 .. 14
        OBVIOUS
    <2> QED
        BY <1>2, <2>1, <2>2, Zenon
<1>7. CASE kind = "stat"
    <2>1. p[kind] \in StashChain(p, ret)[5][2]
        BY <1>7 DEF StashChain, Stashed, Present, Unconditional
    <2>2. 5 \in 1 .. 14
        OBVIOUS
    <2> QED
        BY <1>2, <2>1, <2>2, Zenon
<1>8. CASE kind = "getdents"
    <2>1. p[kind] \in StashChain(p, ret)[6][2]
        BY <1>8 DEF StashChain, Stashed, Present, Unconditional
    <2>2. 6 \in 1 .. 14
        OBVIOUS
    <2> QED
        BY <1>2, <2>1, <2>2, Zenon
<1>9. CASE kind = "sigaction"
    <2>1. p[kind] \in StashChain(p, ret)[7][2]
        BY <1>9 DEF StashChain, Stashed, Present, Unconditional
    <2>2. 7 \in 1 .. 14
        OBVIOUS
    <2> QED
        BY <1>2, <2>1, <2>2, Zenon
<1>10. CASE kind = "timespec_out"
    <2>1. p[kind] \in StashChain(p, ret)[8][2]
        BY <1>10 DEF StashChain, Stashed, Present, Unconditional
    <2>2. 8 \in 1 .. 14
        OBVIOUS
    <2> QED
        BY <1>2, <2>1, <2>2, Zenon
<1>11. CASE kind = "rusage"
    <2>1. p[kind] \in StashChain(p, ret)[9][2]
        BY <1>11 DEF StashChain, Stashed, Present, Unconditional
    <2>2. 9 \in 1 .. 14
        OBVIOUS
    <2> QED
        BY <1>2, <2>1, <2>2, Zenon
<1>12. CASE kind = "rlimit"
    <2>1. p[kind] \in StashChain(p, ret)[10][2]
        BY <1>12 DEF StashChain, Stashed, Present, Unconditional
    <2>2. 10 \in 1 .. 14
        OBVIOUS
    <2> QED
        BY <1>2, <2>1, <2>2, Zenon
<1>13. CASE kind = "epoll_events"
    <2>1. p[kind] \in StashChain(p, ret)[11][2]
        BY <1>13 DEF StashChain, Stashed, Present, Unconditional
    <2>2. 11 \in 1 .. 14
        OBVIOUS
    <2> QED
        BY <1>2, <2>1, <2>2, Zenon
<1>14. CASE kind = "pollfds"
    <2>1. p[kind] \in StashChain(p, ret)[12][2]
        BY <1>14 DEF StashChain, Stashed, Present, Unconditional
    <2>2. 12 \in 1 .. 14
        OBVIOUS
    <2> QED
        BY <1>2, <2>1, <2>2, Zenon
<1>15. CASE kind = "statx"
    <2>1. p[kind] \in StashChain(p, ret)[13][2]
        BY <1>15 DEF StashChain, Stashed, Present, Unconditional
    <2>2. 13 \in 1 .. 14
        OBVIOUS
    <2> QED
        BY <1>2, <2>1, <2>2, Zenon
<1>16. CASE kind = "iovec"
    <2>1. p[kind] \in StashChain(p, ret)[14][2]
        BY <1>16 DEF StashChain, Stashed, Present, Unconditional
    <2>2. 14 \in 1 .. 14
        OBVIOUS
    <2> QED
        BY <1>2, <2>1, <2>2, Zenon
<1> QED
    BY <1>1, <1>3, <1>4, <1>5, <1>6, <1>7, <1>8, <1>9, <1>10, <1>11, <1>12, <1>13, <1>14, <1>15, <1>16 DEF StashDecoder

(* None of these decoders reads another slot or resolves a descriptor.        *)
LEMMA StashDecoderFacts ==
  \A kind \in Kinds : /\ StashDecoder[kind] \notin DOMAIN SiblingIs
                      /\ StashDecoder[kind] \notin Resolvers
                      /\ StashDecoder[kind] # Fallback
<1>1. Kinds = DOMAIN StashDecoder
    BY DEF Kinds, Outputs, StashDecoder
<1> QED
    BY <1>1 DEF StashDecoder, SiblingIs, Resolvers, Fallback

(* A stashed slot is one that the kernel fills in; a call is deferred exactly *)
(* when there is one.                                                         *)
LEMMA LookupFacts ==
  ASSUME NEW n \in CallNames
  PROVE  /\ \A kind \in Kinds : Lookups(n)[kind] # NoSlot =>
                                 Lookups(n)[kind] \in Outputs(n)[kind]
         /\ Deferred(Lookups(n)) <=> Filled(n) # {}
<1>1. ASSUME NEW kind \in Kinds
      PROVE  IF Outputs(n)[kind] = {} THEN Lookups(n)[kind] = NoSlot
             ELSE Lookups(n)[kind] \in Outputs(n)[kind] /\ Lookups(n)[kind] # NoSlot
    <2> DEFINE S == Outputs(n)[kind]
    <2>1. Lookups(n)[kind] = FirstBit(S)
        BY DEF Lookups
    <2>2. S \subseteq Nat
        <3>1. S \subseteq Slots
            BY RoutingAssumption, Zenon DEF WithinArity, Filled
        <3> QED
            BY <3>1 DEF Slots
    <2>3. CASE S # {}
        <3>1. \E x \in S : \A y \in S : x <= y
            BY <2>2, <2>3, LeastExists, Zenon
        <3>2. FirstBit(S) \in S
            BY <2>3, <3>1, Zenon DEF FirstBit
        <3>3. FirstBit(S) # NoSlot
            <4> HIDE DEF S
            <4> QED
                BY <2>2, <3>2 DEF NoSlot
        <3> QED
            BY <2>1, <2>3, <3>2, <3>3, Zenon
    <2>4. CASE S = {}
        BY <2>1, <2>4, Zenon DEF FirstBit
    <2> QED
        BY <2>3, <2>4, Zenon
<1>2. Deferred(Lookups(n)) <=> Filled(n) # {}
    BY <1>1, Zenon DEF Deferred, Filled
<1> QED
    BY <1>1, <1>2, Zenon

(* What the assumption says of one call.                                      *)
LEMMA TableFacts ==
  ASSUME NEW n \in CallNames
  PROVE  /\ OneOwner(n) /\ OnPath(n) /\ LeftOfIt(n)
         /\ PlainLengths(n) /\ OnlyDirfds(n) /\ WithinArity(n)
         /\ \A kind \in Kinds : Outputs(n)[kind] \subseteq Filled(n)
BY RoutingAssumption, Zenon DEF Filled

(* Every slot of a line printed at the entry-stop is rendered as it should.   *)
LEMMA EntrySlots ==
  ASSUME NEW n \in CallNames, ~Deferred(Lookups(n)), NEW i \in Slots, NEW d,
         d = Decode(ImmediateChain(n), FdMask(n), i)
  PROVE  Rendered(n, 0, i, d)
<1> DEFINE C == ToSet(ImmediateChain(n))
<1>1. /\ \/ i \notin Covered(C) /\ d.by = Fallback
         \/ \E c \in C : i \in c[2] /\ d.by = c[1]
      /\ d = [by |-> d.by, resolve |-> d.resolve]
      /\ d.resolve = (d.by \in Resolvers /\ i \in FdMask(n))
    <2>1. /\ Len(ImmediateChain(n)) \in Nat
          /\ DOMAIN ImmediateChain(n) = 1 .. Len(ImmediateChain(n))
        BY ChainFacts, Zenon
    <2> QED
        BY <2>1, DecodeIs
<1>2. C \subseteq OwnArgs(n) /\ Covered(OwnArgs(n)) \subseteq Covered(C)
    <2>1. Filled(n) = {}
        BY LookupFacts, Zenon
    <2> QED
        BY <2>1, TableFacts, Zenon DEF OnPath, OwnArgs
<1>3. i \notin Covered(ToSet(StashChain(Lookups(n), 0)))
    <2>1. SUFFICES ASSUME NEW c \in ToSet(StashChain(Lookups(n), 0)), i \in c[2]
                   PROVE  FALSE
        BY Zenon DEF Covered
    <2>2. \E kind \in Kinds : Present(Lookups(n), 0, kind)
        BY <2>1, 0 \in Int, StashBranch, Zenon
    <2> QED
        BY <2>2, Zenon DEF Present, Deferred
<1> QED
    BY <1>1, <1>2, <1>3, Zenon DEF Rendered, OwnSlot, PlainSlot

(* And every slot of a line printed at the exit-stop.                         *)
LEMMA ExitSlots ==
  ASSUME NEW n \in CallNames, Deferred(Lookups(n)), NEW ret \in Int,
         NEW i \in Slots, NEW d,
         d = Decode(DeferredChain(n, Lookups(n), ret), FdMask(n), i)
  PROVE  Rendered(n, ret, i, d)
<1> DEFINE C == ToSet(CallerChain(n))
           S == ToSet(StashChain(Lookups(n), ret))
<1>1. /\ \/ i \notin Covered(C \cup S) /\ d.by = Fallback
         \/ \E c \in C \cup S : i \in c[2] /\ d.by = c[1]
      /\ d = [by |-> d.by, resolve |-> d.resolve]
      /\ d.resolve = (d.by \in Resolvers /\ i \in FdMask(n))
    <2> DEFINE chain == DeferredChain(n, Lookups(n), ret)
    <2>1. Len(chain) \in Nat /\ DOMAIN chain = 1 .. Len(chain)
        BY ChainFacts, Zenon
    <2>2. ToSet(chain) = C \cup S
        BY ChainFacts, Zenon
    <2> HIDE DEF chain, C, S
    <2>3. d = Decode(chain, FdMask(n), i)
        BY DEF chain
    <2>4. /\ \/ i \notin Covered(ToSet(chain)) /\ d.by = Fallback
             \/ \E c \in ToSet(chain) : i \in c[2] /\ d.by = c[1]
          /\ d = [by |-> d.by, resolve |-> d.resolve]
          /\ d.resolve = (d.by \in Resolvers /\ i \in FdMask(n))
        BY <2>1, <2>3, DecodeIs
    <2> QED
        BY <2>2, <2>4, Zenon
<1>2. C \subseteq OwnArgs(n) /\ Covered(OwnArgs(n)) \subseteq Covered(C)
    <2>1. Filled(n) # {}
        BY LookupFacts, Zenon
    <2> QED
        BY <2>1, TableFacts, Zenon DEF OnPath, OwnArgs
<1>3. CASE i \notin Covered(C \cup S) /\ d.by = Fallback
    <2>1. i \notin Covered(C) /\ i \notin Covered(S)
        BY <1>3, Zenon DEF Covered
    <2> QED
        BY <1>1, <1>2, <1>3, <2>1, Zenon DEF Rendered, PlainSlot
<1>4. ASSUME NEW c \in C, i \in c[2], d.by = c[1] PROVE Rendered(n, ret, i, d)
    BY <1>1, <1>2, <1>4, Zenon DEF Rendered, OwnSlot
<1>5. ASSUME NEW c \in S, i \in c[2], d.by = c[1] PROVE Rendered(n, ret, i, d)
    <2>1. PICK kind \in Kinds : /\ Present(Lookups(n), ret, kind)
                                /\ i = Lookups(n)[kind] /\ c[1] = StashDecoder[kind]
        BY <1>5, StashBranch, Zenon
    <2>2. i \in Outputs(n)[kind]
        BY <2>1, LookupFacts, Zenon DEF Present
    <2>3. i \notin Covered(OwnArgs(n))
        BY <2>2, TableFacts, Zenon DEF OneOwner
    <2> QED
        BY <1>1, <1>5, <2>1, <2>3, Zenon DEF Rendered, StashSlot
<1> QED
    BY <1>1, <1>3, <1>4, <1>5, Zenon

------------------------------------------------------------------------------
(* The line shown for a call is rendered slot by slot as its tables say, and  *)
(* what waits for the exit-stop is what the lookups found.                    *)
LineInv ==
  /\ in_syscall =>
       /\ name \in CallNames
       /\ pending = Cleared \/ (pending = Lookups(name) /\ Deferred(Lookups(name)))
  /\ line # NoLine =>
       /\ name \in CallNames /\ line.ret \in Int /\ line.shown = Shown(name)
       /\ \A i \in Slots : Rendered(name, line.ret, i, line.slots[i])

(* Both stops keep it.                                                        *)
LEMMA LineStep ==
  ASSUME LineInv, [RNext]_vars
  PROVE  LineInv'
<1>0. ASSUME UNCHANGED options
      PROVE  \A n, ret, i, d : Rendered(n, ret, i, d)' <=> Rendered(n, ret, i, d)
    <2> TAKE n, ret, i, d
    <2>1. (i \in FdMask(n)') <=> (i \in FdMask(n))
        BY <1>0 DEF options, FdMask
    <2>2. (d.resolve = (d.by \in Resolvers /\ i \in FdMask(n)')) <=>
          (d.resolve = (d.by \in Resolvers /\ i \in FdMask(n)))
        BY <2>1, Zenon
    <2> QED
        BY <2>2, Zenon DEF Rendered
<1>1. ASSUME NEW n \in CallNames, NEW allowed \in BOOLEAN, Entry(n, allowed)
      PROVE  LineInv'
    <2>1. /\ in_syscall' = TRUE /\ name' = n /\ UNCHANGED options
          /\ pending' = Cleared \/ (pending' = Lookups(n) /\ Deferred(Lookups(n)))
          /\ \/ line' = NoLine
             \/ /\ ~Deferred(Lookups(n))
                /\ line' = Line("entry", 0, n, ImmediateChain(n))
        BY <1>1, Zenon DEF Entry
    <2>2. CASE line' = NoLine
        BY <2>1, <2>2, Zenon DEF LineInv
    <2>3. CASE ~Deferred(Lookups(n)) /\ line' = Line("entry", 0, n, ImmediateChain(n))
        <3>1. /\ line'.ret = 0 /\ line'.shown = Shown(n)
              /\ \A i \in Slots :
                   line'.slots[i] = Decode(ImmediateChain(n), FdMask(n), i)
            BY <2>3 DEF Line
        <3>2. \A i \in Slots : Rendered(n, 0, i, line'.slots[i])
            BY <2>3, <3>1, EntrySlots, Zenon
        <3>3. 0 \in Int
            OBVIOUS
        <3>4. \A i \in Slots : Rendered(name', line'.ret, i, line'.slots[i])
            BY <2>1, <3>1, <3>2, Zenon
        <3>5. (\A i \in Slots : Rendered(name, line.ret, i, line.slots[i]))'
            BY <1>0, <2>1, <3>4, Zenon
        <3> QED
            BY <2>1, <3>1, <3>3, <3>5, Zenon DEF LineInv
    <2> QED
        BY <2>1, <2>2, <2>3, Zenon
<1>2. ASSUME NEW ret \in Returns, Exit(ret) PROVE LineInv'
    <2>1. /\ in_syscall /\ ~in_syscall' /\ name' = name /\ UNCHANGED options
          /\ \/ line' = line
             \/ /\ Awaited(pending)
                /\ line' = Line("exit", ret, name, DeferredChain(name, pending, ret))
        BY <1>2, Zenon DEF Exit
    <2>2. CASE line' = line
        <3>1. line # NoLine =>
                (\A i \in Slots : Rendered(name, line.ret, i, line.slots[i]))'
            BY <1>0, <2>1, <2>2, Zenon DEF LineInv
        <3> QED
            BY <2>1, <2>2, <3>1, Zenon DEF LineInv
    <2>3. CASE Awaited(pending) /\
               line' = Line("exit", ret, name, DeferredChain(name, pending, ret))
        <3>1. name \in CallNames /\ pending = Lookups(name) /\ Deferred(Lookups(name))
            BY <2>1, <2>3, DeferredIsAwaited, Zenon DEF LineInv
        <3>2. /\ line'.ret = ret /\ line'.shown = Shown(name)
              /\ \A i \in Slots : line'.slots[i]
                   = Decode(DeferredChain(name, pending, ret), FdMask(name), i)
            BY <2>3 DEF Line
        <3>3. ret \in Int
            BY RoutingAssumption, Zenon
        <3>4. \A i \in Slots : Rendered(name', line'.ret, i, line'.slots[i])
            BY <2>1, <3>1, <3>2, <3>3, ExitSlots, Zenon
        <3>5. (\A i \in Slots : Rendered(name, line.ret, i, line.slots[i]))'
            BY <1>0, <2>1, <3>4, Zenon
        <3> QED
            BY <2>1, <3>1, <3>2, <3>3, <3>5, Zenon DEF LineInv
    <2> QED
        BY <2>1, <2>2, <2>3, Zenon
<1>3. CASE UNCHANGED vars
    <2>1. UNCHANGED <<in_syscall, name, pending, line>> /\ UNCHANGED options
        BY <1>3, Zenon DEF vars
    <2> QED
        BY <1>0, <2>1, Zenon DEF LineInv
<1> QED
    BY <1>1, <1>2, <1>3, Zenon DEF RNext

(* The invariant holds in every reachable state.                              *)
THEOREM LineInvHolds == RSpec => []LineInv
<1>1. RInit => LineInv
    BY Zenon DEF RInit, LineInv
<1> QED
    BY <1>1, LineStep, PTL DEF RSpec

(* A slot of the caller's own is rendered by the decoder that claims it.      *)
LEMMA OwnIsHonoured ==
  ASSUME LineInv, line # NoLine, NEW c \in OwnArgs(name), NEW i \in c[2]
  PROVE  i \in Slots /\ line.slots[i].by = c[1]
<1>1. name \in CallNames /\ OneOwner(name) /\ WithinArity(name)
    BY TableFacts, Zenon DEF LineInv
<1>2. i \in Covered(OwnArgs(name))
    BY Zenon DEF Covered
<1>3. i \in Slots
    BY <1>1, <1>2, Zenon DEF WithinArity
<1>4. OwnSlot(name, i, line.slots[i])
    BY <1>2, <1>3, Zenon DEF LineInv, Rendered, StashSlot, PlainSlot
<1>5. PICK e \in OwnArgs(name) : i \in e[2] /\ line.slots[i].by = e[1]
    BY <1>4, Zenon DEF OwnSlot
<1>6. c[2] \cap e[2] # {}
    BY <1>5, Zenon
<1> QED
    BY <1>1, <1>3, <1>5, <1>6, Zenon DEF OneOwner

(* A slot that the kernel fills in is rendered by the decoder of its kind, if *)
(* it is decoded at all.                                                      *)
LEMMA StashIsHonoured ==
  ASSUME LineInv, line # NoLine, NEW kind \in Kinds,
         Lookups(name)[kind] # NoSlot
  PROVE  LET i == Lookups(name)[kind]
         IN  /\ i \in Slots
             /\ \/ /\ Present(Lookups(name), line.ret, kind)
                   /\ line.slots[i].by = StashDecoder[kind]
                \/ /\ line.slots[i].by = Fallback
                   /\ i \notin Covered(ToSet(StashChain(Lookups(name), line.ret)))
<1> DEFINE i == Lookups(name)[kind]
           d == line.slots[i]
<1>1. name \in CallNames /\ OneOwner(name) /\ WithinArity(name)
    BY TableFacts, Zenon DEF LineInv
<1>2. i \in Outputs(name)[kind] /\ i \in Filled(name)
    BY <1>1, LookupFacts, TableFacts, Zenon
<1>3. i \in Slots /\ i \notin Covered(OwnArgs(name))
    BY <1>1, <1>2, Zenon DEF WithinArity, OneOwner
<1>4. Rendered(name, line.ret, i, d)
    BY <1>3, Zenon DEF LineInv
<1> HIDE DEF i, d
<1>5. ~OwnSlot(name, i, d)
    BY <1>3, Zenon DEF OwnSlot, Covered
<1>6. CASE StashSlot(name, line.ret, i, d)
    <2>1. PICK other \in Kinds : /\ Present(Lookups(name), line.ret, other)
                                 /\ i = Lookups(name)[other]
                                 /\ d.by = StashDecoder[other]
        BY <1>6, Zenon DEF StashSlot
    <2>2. i \in Outputs(name)[other]
        BY <1>1, <2>1, LookupFacts, Zenon DEF Present
    <2>3. other = kind
        BY <1>1, <1>2, <2>2, Zenon DEF OneOwner
    <2> QED
        BY <1>3, <2>1, <2>3, Zenon DEF i, d
<1>7. CASE PlainSlot(name, line.ret, i, d)
    BY <1>3, <1>7, Zenon DEF PlainSlot, i, d
<1> QED
    BY <1>4, <1>5, <1>6, <1>7, Zenon DEF Rendered

(* Whatever a call returns, and for any tables that give a slot one owner and *)
(* list it on the path the call takes, what a table claims is what is shown.  *)
THEOREM ClaimsAreHonoured == RSpec => []EveryClaimHonoured
<1>1. ASSUME LineInv PROVE EveryClaimHonoured
    <2> SUFFICES ASSUME line # NoLine, NEW c \in Claims(name, line.ret),
                        NEW i \in c[2]
                 PROVE  line.slots[i].by = c[1]
        BY Zenon DEF EveryClaimHonoured
    <2>1. name \in CallNames /\ line.ret \in Int
        BY <1>1, Zenon DEF LineInv
    <2>2. \/ c \in OwnArgs(name)
          \/ c \in ToSet(StashChain(Lookups(name), line.ret))
        <3>1. ToSet(DeferredChain(name, Lookups(name), line.ret))
                = ToSet(CallerChain(name)) \cup ToSet(StashChain(Lookups(name), line.ret))
            BY ChainFacts
        <3> QED
            BY <3>1, Zenon DEF Claims, OwnArgs
    <2>3. CASE c \in OwnArgs(name)
        BY <1>1, <2>3, OwnIsHonoured, Zenon
    <2>4. CASE c \in ToSet(StashChain(Lookups(name), line.ret))
        <3>1. PICK kind \in Kinds : /\ Present(Lookups(name), line.ret, kind)
                                    /\ i = Lookups(name)[kind]
                                    /\ c[1] = StashDecoder[kind]
            BY <2>1, <2>4, StashBranch, Zenon
        <3>2. i \in Covered(ToSet(StashChain(Lookups(name), line.ret)))
            BY <2>4, Zenon DEF Covered
        <3>3. Lookups(name)[kind] # NoSlot
            BY <3>1, Zenon DEF Present
        <3> QED
            BY <1>1, <3>1, <3>2, <3>3, StashIsHonoured, Zenon
    <2> QED
        BY <2>2, <2>3, <2>4
<1> QED
    BY <1>1, LineInvHolds, PTL

(* format_sockopt_optname, format_prctl_name_arg and format_open_mode find in *)
(* raw_args[i - 1] what they take it for, and a length is a plain number.     *)
THEOREM SiblingsMatch == RSpec => []SiblingsAreRight
<1>1. ASSUME LineInv PROVE SiblingsAreRight
    <2> SUFFICES ASSUME line # NoLine PROVE SiblingsAreRight
        BY Zenon DEF SiblingsAreRight
    <2>1. /\ name \in CallNames /\ LeftOfIt(name) /\ PlainLengths(name)
          /\ WithinArity(name)
        BY <1>1, TableFacts, Zenon DEF LineInv
    <2>2. ASSUME NEW i \in Slots, line.slots[i].by \in DOMAIN SiblingIs
          PROVE  /\ Sibling(i) \in Slots
                 /\ line.slots[Sibling(i)].by = SiblingIs[line.slots[i].by]
        <3>1. Rendered(name, line.ret, i, line.slots[i])
            BY <1>1, Zenon DEF LineInv
        <3>2. ~StashSlot(name, line.ret, i, line.slots[i])
            BY <2>2, StashDecoderFacts, Zenon DEF StashSlot
        <3>3. ~PlainSlot(name, line.ret, i, line.slots[i])
            BY <2>2 DEF PlainSlot, Fallback, SiblingIs
        <3>4. PICK c \in OwnArgs(name) : i \in c[2] /\ line.slots[i].by = c[1]
            BY <3>1, <3>2, <3>3, Zenon DEF Rendered, OwnSlot
        <3>5. PICK e \in OwnArgs(name) : e[1] = SiblingIs[c[1]] /\ i - 1 \in e[2]
            BY <2>1, <2>2, <3>4, Zenon DEF LeftOfIt
        <3>6. i - 1 \in Slots /\ line.slots[i - 1].by = e[1]
            BY <1>1, <3>5, OwnIsHonoured, Zenon
        <3> QED
            BY <3>4, <3>5, <3>6, Zenon DEF Sibling
    <2>3. ASSUME NEW i \in Lengths(name)
          PROVE  line.slots[i] = [by |-> Fallback, resolve |-> FALSE]
        <3>1. /\ i \notin Covered(OwnArgs(name)) /\ i \notin Filled(name)
              /\ i \notin MaskOf(fd_arg_table, name) /\ i \in Slots
            BY <2>1, Zenon DEF PlainLengths, WithinArity
        <3>2. Rendered(name, line.ret, i, line.slots[i])
            BY <1>1, <3>1, Zenon DEF LineInv
        <3>3. ~OwnSlot(name, i, line.slots[i])
            BY <3>1, Zenon DEF OwnSlot, Covered
        <3>4. ~StashSlot(name, line.ret, i, line.slots[i])
            BY <2>1, <3>1, LookupFacts, TableFacts, Zenon DEF StashSlot, Present
        <3>5. line.slots[i].by = Fallback
            BY <3>2, <3>3, <3>4, Zenon DEF Rendered, PlainSlot
        <3>6. i \notin FdMask(name)
            BY <3>1, Zenon DEF FdMask
        <3>7. line.slots[i].resolve = FALSE
            BY <3>2, <3>6, Zenon DEF Rendered
        <3> QED
            BY <3>2, <3>5, <3>7, Zenon DEF Rendered
    <2> QED
        BY <2>2, <2>3, Zenon DEF SiblingsAreRight
<1> QED
    BY <1>1, LineInvHolds, PTL

(* print_call never cuts off a slot that was decoded, nor a length.           *)
THEOREM DecodedIsShown == RSpec => []ClaimsAreShown
<1>1. ASSUME LineInv PROVE ClaimsAreShown
    <2> SUFFICES ASSUME line # NoLine PROVE ClaimsAreShown
        BY Zenon DEF ClaimsAreShown
    <2>1. /\ name \in CallNames /\ WithinArity(name) /\ line.shown = Shown(name)
        BY <1>1, TableFacts, Zenon DEF LineInv
    <2> DEFINE argc == syscall_argc(name)
    <2>2. argc \in Int
        <3>1. CASE \E n \in 1 .. 7 : name \in Arity[n]
            <4> DEFINE m == CHOOSE n \in 1 .. 7 : name \in Arity[n]
            <4>1. m \in 1 .. 7
                BY <3>1, Zenon
            <4>2. argc = m - 1
                BY <3>1, Zenon DEF syscall_argc
            <4> HIDE DEF m, argc
            <4> QED
                BY <4>1, <4>2
        <3>2. CASE ~ \E n \in 1 .. 7 : name \in Arity[n]
            <4>1. argc = -1
                BY <3>2, Zenon DEF syscall_argc
            <4> HIDE DEF argc
            <4> QED
                BY <4>1
        <3> QED
            BY <3>1, <3>2, Zenon
    <2>3. Shown(name) = IF argc < 0 \/ argc > 6 THEN 6 ELSE argc
        BY Zenon DEF Shown
    <2>4. ASSUME NEW i \in Covered(OwnArgs(name)) \cup Filled(name) \cup Lengths(name)
          PROVE  i < line.shown
        <3>1. i \in Slots /\ (argc \in 0 .. 6 => i < argc)
            BY <2>1, <2>4, Zenon DEF WithinArity
        <3> HIDE DEF argc
        <3> QED
            BY <2>1, <2>2, <2>3, <3>1 DEF Slots
    <2>5. ASSUME NEW i \in Slots, line.slots[i].by # Fallback
          PROVE  i < line.shown
        <3>1. Rendered(name, line.ret, i, line.slots[i])
            BY <1>1, Zenon DEF LineInv
        <3>2. OwnSlot(name, i, line.slots[i]) \/ StashSlot(name, line.ret, i, line.slots[i])
            BY <2>5, <3>1, Zenon DEF Rendered, PlainSlot
        <3>3. i \in Covered(OwnArgs(name)) \cup Filled(name)
            BY <2>1, <3>2, LookupFacts, TableFacts, Zenon
            DEF OwnSlot, StashSlot, Present, Covered
        <3> QED
            BY <2>4, <3>3, Zenon
    <2> QED
        BY <2>4, <2>5, Zenon DEF ClaimsAreShown
<1> QED
    BY <1>1, LineInvHolds, PTL

(* With -y the slots that fd_arg_table marks are resolved, at either stop, and*)
(* nothing that is not a descriptor is; without it nothing is.                *)
THEOREM DescriptorsAreResolved == RSpec => []DescriptorsResolved
<1>1. ASSUME LineInv PROVE DescriptorsResolved
    <2> SUFFICES ASSUME line # NoLine, NEW i \in Slots
                 PROVE  line.slots[i].resolve <=>
                          show_fd_paths /\ i \in MaskOf(fd_arg_table, name)
        BY Zenon DEF DescriptorsResolved
    <2>1. name \in CallNames /\ OnlyDirfds(name)
        BY <1>1, TableFacts, Zenon DEF LineInv
    <2>2. Rendered(name, line.ret, i, line.slots[i])
        BY <1>1, Zenon DEF LineInv
    <2>3. i \in FdMask(name) <=> show_fd_paths /\ i \in MaskOf(fd_arg_table, name)
        BY Zenon DEF FdMask
    <2>4. ASSUME i \in MaskOf(fd_arg_table, name)
          PROVE  line.slots[i].by \in Resolvers
        <3>1. CASE OwnSlot(name, i, line.slots[i])
            <4>1. PICK c \in OwnArgs(name) : i \in c[2] /\ line.slots[i].by = c[1]
                BY <3>1, Zenon DEF OwnSlot
            <4>2. c[1] = "format_dirfd"
                BY <2>1, <2>4, <4>1, Zenon DEF OnlyDirfds
            <4> QED
                BY <4>1, <4>2, Zenon DEF Resolvers
        <3>2. CASE StashSlot(name, line.ret, i, line.slots[i])
            <4>1. i \in Filled(name)
                BY <2>1, <3>2, LookupFacts, TableFacts, Zenon DEF StashSlot, Present
            <4> QED
                BY <2>1, <2>4, <4>1, Zenon DEF OnlyDirfds
        <3>3. CASE PlainSlot(name, line.ret, i, line.slots[i])
            BY <3>3, Zenon DEF PlainSlot, Resolvers
        <3> QED
            BY <2>2, <3>1, <3>2, <3>3, Zenon DEF Rendered
    <2> QED
        BY <2>2, <2>3, <2>4, Zenon DEF Rendered
<1> QED
    BY <1>1, LineInvHolds, PTL

(* An output that the kernel has written is decoded, and one that it has not  *)
(* written is shown as a pointer, whatever the call and its error, but for the*)
(* kinds and the return of wait4 that ShownUnwritten lists.                   *)
THEOREM OnlyWrittenIsDecoded == RSpec => []OutputsWereWritten
<1>1. ASSUME LineInv PROVE OutputsWereWritten
    <2> DEFINE decoded(kind) == line.slots[Lookups(name)[kind]].by # Fallback
    <2> SUFFICES ASSUME line.at = "exit", NEW kind \in Kinds,
                        Lookups(name)[kind] # NoSlot
                 PROVE  /\ Writes(name, kind, line.ret) => decoded(kind)
                        /\ decoded(kind) => \/ Writes(name, kind, line.ret)
                                            \/ ShownUnwritten(name, kind, line.ret)
        BY Zenon DEF OutputsWereWritten
    <2>1. line # NoLine
        BY DEF NoLine
    <2>2. line.ret \in Int
        BY <1>1, <2>1, Zenon DEF LineInv
    <2>3. decoded(kind) <=> Present(Lookups(name), line.ret, kind)
        <3>1. CASE Present(Lookups(name), line.ret, kind)
            <4>1. Lookups(name)[kind] \in
                    Covered(ToSet(StashChain(Lookups(name), line.ret)))
                BY <2>2, <3>1, StashCovers, Zenon
            <4> QED
                BY <1>1, <2>1, <3>1, <4>1, StashIsHonoured, StashDecoderFacts, Zenon
        <3>2. CASE ~Present(Lookups(name), line.ret, kind)
            BY <1>1, <2>1, <3>2, StashIsHonoured, Zenon
        <3> QED
            BY <3>1, <3>2, Zenon
    <2>4. Writes(name, kind, line.ret) => Present(Lookups(name), line.ret, kind)
        BY <2>2 DEF Writes, Present, Unconditional
    <2>5. Present(Lookups(name), line.ret, kind) =>
            \/ Writes(name, kind, line.ret) \/ ShownUnwritten(name, kind, line.ret)
        BY <2>2 DEF Writes, Present, Unconditional, ShownUnwritten
    <2> HIDE DEF decoded
    <2> QED
        BY <2>3, <2>4, <2>5, Zenon
<1> QED
    BY <1>1, LineInvHolds, PTL
==============================================================================
