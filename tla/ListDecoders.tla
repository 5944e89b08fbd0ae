---------------------------- MODULE ListDecoders ----------------------------
(* The decoders that print a bounded list out of the tracee's memory:         *)
(* read_child_argv (child_mem.c), format_iovec_array, format_getdents_buf,    *)
(* format_epoll_events_buf, format_pollfds_buf and format_fdset_buf           *)
(* (decoders.c).  An entry is abstracted to the number that matters: the      *)
(* iov_len, the d_reclen, the descriptor, or the length of an argv string; its*)
(* text to its width.                                                         *)
EXTENDS Integers, Sequences, FiniteSets

CONSTANTS
  Cap,        \* entries shown: 8, and 32 for argv
  Header,     \* GETDENTS_HEADER_SIZE
  MaxBytes,   \* GETDENTS_MAX_BYTES
  MaxBits,    \* FDSET_MAX_BITS
  OutSize,    \* size of the output buffer
  List        \* the calls: see ListType

(* fn       the decoder, and null a NULL pointer                              *)
(* entries  what the array in the tracee holds: as many as the caller declared*)
(*          or the kernel wrote, or up to argv's NULL; all the bits of a set  *)
(* count    the iovcnt or nfds argument, or ret; for select, nfds in bits     *)
(* total    ret for readv and recvmsg, -1 for writev and sendmsg              *)
(* mapped   how many entries can be read; how many bytes, or bits of a fd_set *)
(* width    of the text of an entry                                           *)
ListFns == {"argv", "iovec", "getdents", "epoll", "pollfds", "fdset"}
ListType ==
  [fn : ListFns, null : BOOLEAN, entries : Seq(Nat), count : Int, total : Int,
   mapped : Nat, width : Nat]

ASSUME ListAssumption ==
  /\ Cap \in Nat \ {0} /\ Header \in Nat \ {0} /\ MaxBytes \in Nat
  /\ MaxBits \in Nat /\ OutSize \in Nat /\ OutSize > 6
  /\ List \subseteq ListType

(* The sums of the first entries: where directory entry m ends, where iovec   *)
(* m + 1 begins in the bytes that were returned.                              *)
SumOf(s) == LET upTo[m \in 0 .. Len(s)] ==
                  IF m = 0 THEN 0 ELSE upTo[m - 1] + s[m]
            IN  upTo
Total(s) == SumOf(s)[Len(s)]

(* What the caller and the kernel leave in the tracee: an array has the length*)
(* that its count says; getdents returns whole entries, none shorter than its *)
(* header, and as a name has at most 255 bytes the first Cap of them are well *)
(* within MaxBytes (8 * 280 < 4096); the bits of a set come in their order.   *)
Counted(count, many) == many = IF count > 0 THEN count ELSE 0
WellFormed(l) ==
  /\ l.fn \in {"iovec", "epoll", "pollfds"} => Counted(l.count, Len(l.entries))
  /\ l.fn = "getdents" =>
       /\ Counted(l.count, Total(l.entries))
       /\ \A m \in DOMAIN l.entries :
            l.entries[m] >= Header /\ (m <= Cap => SumOf(l.entries)[m] < MaxBytes)
  /\ l.fn = "fdset" =>
       \A a, b \in DOMAIN l.entries : a < b => l.entries[a] < l.entries[b]

ASSUME WellFormedAssumption == \A l \in List : WellFormed(l)

VARIABLES
  list, at,       \* the call, and where it is
  n,              \* the loop index: entries looked at, descriptors for fdset
  shown,          \* the entries printed: [entry, len]
  left, pos,      \* remaining_bytes of an iovec array; pos of getdents, and
                  \* count of a fd_set
  more,           \* "truncated" or "more": the dots are due
  size, marked    \* oi: characters so far; ", ..." is among them

lvars == <<list, at, n, shown, left, pos, more, size, marked>>

Smaller(a, b) == IF a < b THEN a ELSE b

ListInit ==
  /\ list \in List
  /\ at = "start" /\ n = 0 /\ shown = <<>> /\ left = 0 /\ pos = 0
  /\ more = FALSE /\ size = 0 /\ marked = FALSE

------------------------------------------------------------------------------
(* read_child_raw of the getdents bytes, and of the words of a fd_set.        *)
Got == Smaller(Smaller(list.count, MaxBytes), list.mapped)
Bits == Smaller(list.count, MaxBits)

(* Early returns: NULL, a count the kernel did not fill, an unreadable buffer.*)
Refuses ==
  \/ list.null /\ list.fn \in {"argv", "iovec", "pollfds", "fdset"}
  \/ list.count <= 0 /\ list.fn \in {"getdents", "epoll"}
  \/ list.fn = "getdents" /\ Got < Header
  \/ list.fn = "fdset" /\ list.mapped < Bits

Refuse ==
  /\ at = "start" /\ Refuses
  /\ at' = "plain"
  /\ UNCHANGED <<list, n, shown, left, pos, more, size, marked>>

(* Whether the array is longer than what is shown of it; the mutant is off by *)
(* one.                                                                       *)
ReachesCap == list.count >= Cap
PassesCap == list.count > Cap

Open ==
  /\ at = "start" /\ ~Refuses
  /\ at' = list.fn
  /\ size' = 1 /\ left' = list.total
  /\ more' = (list.fn \in {"iovec", "epoll", "pollfds"} /\ PassesCap)
  /\ UNCHANGED <<list, n, shown, pos, marked>>

(* An entry printed with snprintf, unless there is no room left.              *)
Show(len) ==
  IF size < OutSize
    THEN /\ shown' = Append(shown, [entry |-> n + 1, len |-> len])
         /\ size' = size + list.width + (IF shown = <<>> THEN 0 ELSE 2)
    ELSE UNCHANGED <<shown, size>>

------------------------------------------------------------------------------
(* struct iovec, epoll_event and pollfd arrays: a short read ends the loop.   *)
ArrayOn ==
  /\ n < Smaller(list.count, Cap) /\ size < OutSize
  /\ n < list.mapped

(* How much of an iovec was filled: all of the length as given, or what is    *)
(* left of the bytes returned.  The mutant does not count them down.          *)
Filled(len) == IF list.total < 0 THEN len
               ELSE Smaller(len, IF left > 0 THEN left ELSE 0)
LeftUncounted(len) == left
LeftAfter(len) == IF list.total < 0 THEN left ELSE left - Filled(len)

ArrayEntry ==
  /\ at \in {"iovec", "epoll", "pollfds"} /\ ArrayOn
  /\ n' = n + 1
  /\ LET len == list.entries[n + 1]
     IN  /\ Show(IF at = "iovec" THEN Filled(len) ELSE len)
         /\ left' = IF at = "iovec" THEN LeftAfter(len) ELSE left
  /\ UNCHANGED <<list, at, pos, more, marked>>

ArrayEnds ==
  /\ at \in {"iovec", "epoll", "pollfds"} /\ ~ArrayOn
  /\ at' = "close"
  /\ UNCHANGED <<list, n, shown, left, pos, more, size, marked>>

------------------------------------------------------------------------------
(* Packed directory entries: one that is cut by the end of the bytes, or that *)
(* comes after the last one shown, stops the parse.                           *)
DirentAtPos == list.entries[n + 1]
CutsEntry == DirentAtPos < Header \/ pos + DirentAtPos > Got

Dirent ==
  /\ at = "getdents" /\ pos + Header <= Got /\ ~CutsEntry /\ n < Cap
  /\ n' = n + 1 /\ pos' = pos + DirentAtPos
  /\ Show(DirentAtPos)
  /\ UNCHANGED <<list, at, left, more, marked>>

DirentsEnd ==
  /\ at = "getdents" /\ ~(pos + Header <= Got /\ ~CutsEntry /\ n < Cap)
  /\ at' = "close"
  /\ more' = (pos < Got)
  /\ UNCHANGED <<list, n, shown, left, pos, size, marked>>

------------------------------------------------------------------------------
(* The bits of a fd_set below nfds; one more than the cap writes the dots.    *)
IsSet == \E m \in DOMAIN list.entries : list.entries[m] = n

Descriptor ==
  /\ at = "fdset" /\ n < Bits /\ (IsSet => pos < Cap)
  /\ n' = n + 1
  /\ IF IsSet THEN pos' = pos + 1 /\ Show(n) ELSE UNCHANGED <<pos, shown, size>>
  /\ UNCHANGED <<list, at, left, more, marked>>

DescriptorsEnd ==
  /\ at = "fdset" /\ ~(n < Bits /\ (IsSet => pos < Cap))
  /\ at' = "close"
  /\ more' = (n < Bits)
  /\ UNCHANGED <<list, n, shown, left, pos, size, marked>>

------------------------------------------------------------------------------
(* argv and envp: up to the NULL, the cap or an unreadable slot.  The comma   *)
(* and the string are each written only if they fit; the mutant also keeps    *)
(* room for the dots.                                                         *)
ArgvOn == n < Cap /\ n < list.mapped /\ n < Len(list.entries)

Comma == IF n > 0 /\ size + 2 < OutSize THEN 2 ELSE 0
StringFitsWithDots == size + Comma + list.entries[n + 1] + 5 < OutSize
StringFits == size + Comma + list.entries[n + 1] < OutSize

ArgvString ==
  /\ at = "argv" /\ ArgvOn
  /\ n' = n + 1
  /\ LET len == list.entries[n + 1]
     IN  IF StringFits
           THEN /\ shown' = Append(shown, [entry |-> n + 1, len |-> len])
                /\ size' = size + Comma + len
           ELSE UNCHANGED shown /\ size' = size + Comma
  /\ more' = (n + 1 = Cap)
  /\ UNCHANGED <<list, at, left, pos, marked>>

ArgvEnds ==
  /\ at = "argv" /\ ~ArgvOn
  /\ at' = "close"
  /\ UNCHANGED <<list, n, shown, left, pos, more, size, marked>>

------------------------------------------------------------------------------
(* The dots, then the bracket.  argv writes the dots whole or not at all;     *)
(* snprintf writes what fits of them.                                         *)
DotsFit == IF list.fn = "argv" THEN size + 5 < OutSize ELSE size < OutSize
DotsWidth == IF list.fn = "getdents" /\ n = 0 THEN 3 ELSE 5

Finish ==
  /\ at = "close"
  /\ at' = "done"
  /\ marked' = (more /\ DotsFit)
  /\ size' = size + (IF more /\ DotsFit THEN DotsWidth ELSE 0) + 1
  /\ UNCHANGED <<list, n, shown, left, pos, more>>

ListNext ==
  \/ Refuse \/ Open \/ ArrayEntry \/ ArrayEnds \/ Dirent \/ DirentsEnd
  \/ Descriptor \/ DescriptorsEnd \/ ArgvString \/ ArgvEnds \/ Finish
ListSpec == ListInit /\ [][ListNext]_lvars

------------------------------------------------------------------------------
Sum == SumOf(list.entries)

(* How many of the returned bytes the kernel put into iovec m.                *)
BytesIn(m) ==
  IF list.total < 0 THEN list.entries[m]
  ELSE Smaller(Sum[m], list.total) - Smaller(Sum[m - 1], list.total)

(* The entries printed are the first ones of the argument, each once and in   *)
(* order, and nothing that was not read from the tracee; for readv and        *)
(* recvmsg an iovec shows exactly the bytes that the kernel put there.        *)
ShowsThePrefix ==
  list.fn # "argv" =>
    \A m \in DOMAIN shown :
      /\ shown[m].len = IF list.fn = "iovec" THEN BytesIn(m)
                        ELSE list.entries[m]
      /\ CASE list.fn = "getdents" -> Sum[m] <= Got
           [] list.fn = "fdset" -> shown[m].len < Bits
           [] OTHER -> m <= list.mapped

(* How many entries the caller declared: for a fd_set, those below nfds and   *)
(* FDSET_MAX_BITS, past which format_fdset does not look or say so.           *)
Declared ==
  Cardinality({m \in DOMAIN list.entries :
                 list.fn = "fdset" => list.entries[m] < Bits})
Whole == at = "done" /\ size < OutSize
Readable ==
  CASE list.fn = "getdents" -> list.mapped >= Smaller(list.count, MaxBytes)
    [] list.fn = "fdset" -> TRUE
    [] OTHER -> list.mapped >= Smaller(Len(list.entries), Cap)

(* A list that fits ends in dots exactly if entries were left out, whichever  *)
(* limit was hit; argv's dots may also follow an array of exactly Cap strings,*)
(* and are left out if they do not fit whole.                                 *)
DotsMeanMore ==
  Whole /\ Readable =>
    IF list.fn = "argv"
      THEN /\ marked => n = Cap
           /\ n < Len(list.entries) => marked \/ size + 4 >= OutSize
      ELSE marked <=> Len(shown) < Declared

(* argv and envp strings appear in their order, and a string is left out, its *)
(* comma perhaps staying, only when it did not fit in what was left.          *)
DropsOnlyWhenFull ==
  list.fn = "argv" =>
    /\ \A m \in DOMAIN shown : m > 1 => shown[m - 1].entry < shown[m].entry
    /\ \A e \in 1 .. n : \/ \E m \in DOMAIN shown : shown[m].entry = e
                         \/ size + list.entries[e] >= OutSize
==============================================================================
