--------------------------- MODULE StructDecoders ---------------------------
(* The decoders that copy one structure out of the tracee with read_child_raw *)
(* (child_mem.c) and print fields of it (decoders.c), and format_wait_status, *)
(* which peeks a single word.  The copy is a local variable that starts       *)
(* uninitialized.  A structure is abstracted to its bytes: how many are asked *)
(* for, and how many of them the text depends on given how many were read, 0  *)
(* for the bare address.                                                      *)
EXTENDS Integers

CONSTANTS
  LongSize,     \* sizeof(long)
  StructCall    \* the calls [of, null, mapped]: a decoder, a NULL pointer,
                \* and how many bytes are mapped from the address on

Least(a, b) == IF a < b THEN a ELSE b

(* All of the structure or nothing: sizeof on x86-64.                         *)
AllOf(bytes) ==
  [want |-> bytes, uses |-> [g \in 0 .. bytes |-> IF g < bytes THEN 0 ELSE bytes]]

format_wait_status == AllOf(4)
format_msghdr == AllOf(56)
format_stat_buf == AllOf(144)
format_sigaction == AllOf(32)
format_timespec == AllOf(16)
format_rusage == AllOf(144)
format_epoll_event == AllOf(12)
format_statx_buf == AllOf(256)
format_rlimit == AllOf(16)

(* flags alone if exit_signal is out of reach.                                *)
clone_args ==
  [want |-> 40, uses |-> [g \in 0 .. 40 |->
     IF g < 8 THEN 0 ELSE IF g < 40 THEN 8 ELSE 40]]

(* The family, and what it needs: as much of the path as there is, or a whole *)
(* port and address.                                                          *)
SockaddrUses(family, g) ==
  CASE family = "AF_INET" /\ g >= 8 -> 8
    [] family = "AF_INET6" /\ g >= 24 -> 24
    [] family = "AF_UNIX" -> g
    [] OTHER -> 2

format_sockaddr(family, addrlen) ==
  LET want == IF Least(addrlen, 128) < 2 THEN 2 ELSE Least(addrlen, 128)
  IN  [want |-> want, uses |-> [g \in 0 .. want |->
         IF g < 2 THEN 0 ELSE SockaddrUses(family, g)]]

ASSUME StructAssumption ==
  /\ LongSize \in Nat \ {0}
  /\ \A c \in StructCall : c.mapped \in Nat /\ c.of.want \in Nat \ {0}

VARIABLES
  arg, phase,   \* the call, and where it is
  have, used    \* got of read_child_raw; the bytes the text depends on

svars == <<arg, phase, have, used>>

StructInit ==
  arg \in StructCall /\ phase = "start" /\ have = 0 /\ used = 0

StructStart ==
  /\ phase = "start"
  /\ phase' = IF arg.null THEN "printed" ELSE "read_child_raw"
  /\ UNCHANGED <<arg, have, used>>

(* The loop of read_child_raw: a word is peeked whole, external, and fails if *)
(* any byte of it is not mapped; the last one is copied in part, but whole by *)
(* the mutant.                                                                *)
Reads == have < arg.of.want /\ have + LongSize <= arg.mapped
ChunkOfWord == LongSize
Chunk == Least(arg.of.want - have, LongSize)

read_child_raw ==
  /\ phase = "read_child_raw" /\ Reads
  /\ have' = have + Chunk
  /\ UNCHANGED <<arg, phase, used>>

(* read_child_raw returns and its caller prints.                              *)
StructPrint ==
  /\ phase = "read_child_raw" /\ ~Reads
  /\ phase' = "printed"
  /\ used' = arg.of.uses[have]
  /\ UNCHANGED <<arg, have>>

StructNext == StructStart \/ read_child_raw \/ StructPrint
StructSpec == StructInit /\ [][StructNext]_svars

------------------------------------------------------------------------------
(* The words of the structure that can be read: as many whole ones as are     *)
(* mapped.  A structure that ends with its mapping in the middle of a word    *)
(* loses that word.                                                           *)
InWords == Least(arg.of.want, (arg.mapped \div LongSize) * LongSize)

(* The copy never runs over the structure it fills, no field is printed from  *)
(* bytes that were not read, and whatever the words that can be read hold is  *)
(* printed: an address instead of a structure means that it was unreadable.   *)
PrintsWhatWasRead ==
  /\ have <= arg.of.want /\ have <= arg.mapped /\ used <= have
  /\ phase = "printed" /\ ~arg.null => used = arg.of.uses[InWords]
==============================================================================
