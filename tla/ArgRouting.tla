---------------------------- MODULE ArgRouting ----------------------------
(* How the entry-stop and the exit-stop of run_tracer (mini_strace.c) turn    *)
(* one system call into one printed line.  A call with an argument the kernel *)
(* fills in is deferred: the slots of those arguments are stashed at the      *)
(* entry-stop and the line is built at the exit-stop, by a dispatch of its    *)
(* own.  Every other call is printed at the entry-stop.  The two dispatches   *)
(* are separate lists over the same tables, so a table that only one of them  *)
(* consults is silently ignored for the calls that take the other path.       *)
(* What a decoder writes into its argbuf is abstracted to its name.           *)
EXTENDS ArgTables, FiniteSets, SequencesExt

CONSTANTS
  CallNames,    \* the system calls made: every routed name, and others
  Returns       \* return values, one negative, zero, one positive

VARIABLES
  show_fd_paths, summary_mode,  \* -y and -c, fixed before tracing starts
  name, in_syscall, suppressed, \* the current call of the tracee
  pending,                      \* kind |-> slot: the pending_* fields
  line,                         \* the call line printed for it, if any
  printed                       \* how many lines were printed for it

options == <<show_fd_paths, summary_mode>>
vars == <<options, name, in_syscall, suppressed, pending, line, printed>>

NoSlot == -1
NoLine == [at |-> "none", ret |-> 0, shown |-> 0, slots |-> <<>>]

(* The lookups at the top of the entry-stop: for each kind of argument the    *)
(* kernel populates, the slots its table names.                               *)
Outputs(n) ==
  [read         |-> BufOf(read_arg_table, n),
   sockaddr     |-> BufOf(accept_arg_table, n),
   wait_status  |-> MaskOf(wait_status_arg_table, n),
   msghdr       |-> MaskOf(msghdr_recv_arg_table, n),
   stat         |-> MaskOf(stat_buf_arg_table, n),
   getdents     |-> MaskOf(getdents_buf_arg_table, n),
   sigaction    |-> MaskOf(sigaction_old_arg_table, n),
   timespec_out |-> MaskOf(timespec_out_arg_table, n),
   rusage       |-> MaskOf(rusage_arg_table, n),
   epoll_events |-> MaskOf(epoll_events_arg_table, n),
   pollfds      |-> BufOf(pollfds_arg_table, n),
   statx        |-> MaskOf(statx_buf_arg_table, n),
   iovec        |-> BufOf(iovec_read_arg_table, n),
   rlimit       |-> MaskOf(rlimit_out_arg_table, n)]

Kinds == DOMAIN Outputs(Unlisted)

(* Only the lowest bit of a mask becomes the index that is stashed.           *)
FirstBit(slots) ==
  IF slots = {} THEN NoSlot ELSE CHOOSE i \in slots : \A j \in slots : i <= j

Lookups(n) == [k \in Kinds |-> FirstBit(Outputs(n)[k])]
Cleared == [k \in Kinds |-> NoSlot]

(* A kind added to the lookups and left out of the condition that defers.     *)
DeferredButRlimit(l) == \E k \in Kinds \ {"rlimit"} : l[k] # NoSlot

(* The fourteen-way condition at the entry-stop that defers the print.        *)
Deferred(l) == \E k \in Kinds : l[k] # NoSlot

(* A kind left out of the condition that builds the deferred line.            *)
AwaitedButIovec(p) == \E k \in Kinds \ {"iovec"} : p[k] # NoSlot

(* The fourteen-way condition at the exit-stop that builds a deferred line.   *)
Awaited(p) == \E k \in Kinds : p[k] # NoSlot

------------------------------------------------------------------------------
(* The two dispatches.  Each is the sequence of the branches of an if/else    *)
(* chain: a decoder and the slots for which its condition is true.            *)

(* The entry-stop's chain for a call that is printed at once.                 *)
ImmediateChain(n) ==
  << <<"read_child_string", MaskOf(string_arg_table, n)>>,
     <<"read_child_argv", MaskOf(argv_arg_table, n)>>,
     <<"format_open_flags", MaskOf(open_flags_arg_table, n)>>,
     <<"format_prot_flags", MaskOf(prot_flags_arg_table, n)>>,
     <<"format_map_flags", MaskOf(map_flags_arg_table, n)>>,
     <<"format_mount_flags", MaskOf(mount_flags_arg_table, n)>>,
     <<"format_epoll_op", MaskOf(epoll_op_arg_table, n)>>,
     <<"format_epoll_event", MaskOf(epoll_event_arg_table, n)>>,
     <<"format_socket_domain", MaskOf(socket_domain_arg_table, n)>>,
     <<"format_socket_type", MaskOf(socket_type_arg_table, n)>>,
     <<"format_sockopt_level", MaskOf(sockopt_level_arg_table, n)>>,
     <<"format_sockopt_optname", MaskOf(sockopt_optname_arg_table, n)>>,
     <<"format_fdset_buf", MaskOf(fdset_arg_table, n)>>,
     <<"format_msg_flags", MaskOf(msg_flags_arg_table, n)>>,
     <<"format_prctl_option", MaskOf(prctl_option_arg_table, n)>>,
     <<"format_prctl_name_arg", MaskOf(prctl_name_arg_table, n)>>,
     <<"format_dirfd", MaskOf(dirfd_arg_table, n)>>,
     <<"format_rlimit", MaskOf(rlimit_in_arg_table, n)>>,
     <<"format_waitid_idtype", MaskOf(waitid_idtype_arg_table, n)>>,
     <<"format_waitid_options", MaskOf(waitid_options_arg_table, n)>>,
     <<"format_sched_policy", MaskOf(sched_policy_arg_table, n)>>,
     <<"format_renameat2_flags", MaskOf(renameat2_flags_arg_table, n)>>,
     <<"format_mremap_flags", MaskOf(mremap_flags_arg_table, n)>>,
     <<"format_memfd_flags", MaskOf(memfd_flags_arg_table, n)>>,
     <<"format_eventfd_flags", MaskOf(eventfd_flags_arg_table, n)>>,
     <<"format_rlimit_resource", MaskOf(rlimit_resource_arg_table, n)>>,
     <<"format_file_mode", MaskOf(file_mode_arg_table, n)>>,
     <<"format_open_mode", MaskOf(open_mode_arg_table, n)>>,
     <<"format_pipe2_flags", MaskOf(pipe2_flags_arg_table, n)>>,
     <<"format_getrandom_flags", MaskOf(getrandom_flags_arg_table, n)>>,
     <<"format_flock_op", MaskOf(flock_op_arg_table, n)>>,
     <<"format_madvise_advice", MaskOf(madvise_advice_arg_table, n)>>,
     <<"format_futex_op", MaskOf(futex_op_arg_table, n)>>,
     <<"format_at_flags", MaskOf(at_flags_arg_table, n)>>,
     <<"format_unlinkat_flags", MaskOf(unlinkat_flags_arg_table, n)>>,
     <<"format_faccessat_flags", MaskOf(faccessat_flags_arg_table, n)>>,
     <<"format_signal_arg", MaskOf(signal_arg_table, n)>>,
     <<"format_lseek_whence", MaskOf(lseek_whence_arg_table, n)>>,
     <<"format_fcntl_cmd", MaskOf(fcntl_cmd_arg_table, n)>>,
     <<"format_sigprocmask_how", MaskOf(sigprocmask_how_arg_table, n)>>,
     <<"format_access_mode", MaskOf(access_mode_arg_table, n)>>,
     <<"format_clockid", MaskOf(clockid_arg_table, n)>>,
     <<"format_timespec", MaskOf(timespec_in_arg_table, n)>>,
     <<"format_clone_flags", MaskOf(clone_flags_arg_table, n)>>,
     <<"format_clone3_flags", MaskOf(clone3_args_arg_table, n)>>,
     <<"format_ioctl_request", MaskOf(ioctl_request_arg_table, n)>>,
     <<"format_msghdr", MaskOf(msghdr_send_arg_table, n)>>,
     <<"read_child_buffer", BufOf(buffer_arg_table, n)>>,
     <<"format_sockaddr", BufOf(sockaddr_arg_table, n)>>,
     <<"format_iovec_buf", BufOf(iovec_write_arg_table, n)>> >>

(* A branch that forgets the condition on the return value.                   *)
StashedAnyway(slot, condition) == IF slot # NoSlot THEN {slot} ELSE {}

(* A branch on a stashed slot, with the condition on the return value that    *)
(* accompanies it in the chain.                                               *)
Stashed(slot, condition) ==
  IF slot # NoSlot /\ condition THEN {slot} ELSE {}

(* The exit-stop's chain.  The caller's own arguments come first.             *)
CallerChain(n) ==
  << <<"read_child_string", MaskOf(string_arg_table, n)>>,
     <<"format_signal_arg", MaskOf(signal_arg_table, n)>>,
     <<"format_sigaction", MaskOf(sigaction_new_arg_table, n)>>,
     <<"format_timespec", MaskOf(timespec_in_arg_table, n)>>,
     <<"format_clockid", MaskOf(clockid_arg_table, n)>>,
     <<"format_statx_mask", MaskOf(statx_mask_arg_table, n)>>,
     <<"format_msg_flags", MaskOf(msg_flags_arg_table, n)>>,
     <<"format_dirfd", MaskOf(dirfd_arg_table, n)>>,
     <<"format_at_flags", MaskOf(at_flags_arg_table, n)>>,
     <<"format_wait4_options", MaskOf(wait4_options_arg_table, n)>>,
     <<"format_rusage_who", MaskOf(rusage_who_arg_table, n)>>,
     <<"format_rlimit_resource", MaskOf(rlimit_resource_arg_table, n)>>,
     <<"format_rlimit", MaskOf(rlimit_in_arg_table, n)>> >>

(* Then the arguments that the kernel filled in: a read needs a positive      *)
(* count, most others a success, and four are decoded whatever was returned.  *)
StashChain(p, ret) ==
  << <<"read_child_buffer", Stashed(p.read, ret > 0)>>,
     <<"format_sockaddr", Stashed(p.sockaddr, ret >= 0)>>,
     <<"format_wait_status", Stashed(p.wait_status, ret >= 0)>>,
     <<"format_msghdr", Stashed(p.msghdr, ret >= 0)>>,
     <<"format_stat_buf", Stashed(p.stat, ret >= 0)>>,
     <<"format_getdents_buf", Stashed(p.getdents, TRUE)>>,
     <<"format_sigaction", Stashed(p.sigaction, ret >= 0)>>,
     <<"format_timespec", Stashed(p.timespec_out, TRUE)>>,
     <<"format_rusage", Stashed(p.rusage, ret >= 0)>>,
     <<"format_rlimit", Stashed(p.rlimit, ret >= 0)>>,
     <<"format_epoll_events_buf", Stashed(p.epoll_events, TRUE)>>,
     <<"format_pollfds_buf", Stashed(p.pollfds, TRUE)>>,
     <<"format_statx_buf", Stashed(p.statx, ret >= 0)>>,
     <<"format_iovec_buf", Stashed(p.iovec, ret >= 0)>> >>

DeferredChain(n, p, ret) == CallerChain(n) \o StashChain(p, ret)

(* The branch of last resort, and the branches that are told whether the slot *)
(* is a descriptor to resolve: these two, or only the last one.               *)
Fallback == "format_hex_or_fd_arg"
FallbackOnly == {Fallback}
Resolvers == {"format_dirfd", Fallback}

(* The first branch of a chain that is true for slot i.                       *)
Decode(chain, fd_mask, i) ==
  LET b  == SelectInSeq(chain, LAMBDA branch : i \in branch[2])
      by == IF b = 0 THEN Fallback ELSE chain[b][1]
  IN  [by |-> by,
       resolve |-> by \in Resolvers /\ i \in fd_mask]

(* fd_mask of either dispatch.                                                *)
FdMask(n) == IF show_fd_paths THEN MaskOf(fd_arg_table, n) ELSE {}

(* print_call shows as many slots as the call has, or all six when unknown.   *)
(* The mutant takes five for the most a call can have.                        *)
ShownOfFive(n) ==
  LET argc == syscall_argc(n) IN IF argc < 0 \/ argc > 5 THEN 5 ELSE argc
Shown(n) ==
  LET argc == syscall_argc(n) IN IF argc < 0 \/ argc > 6 THEN 6 ELSE argc

Line(at, ret, n, chain) ==
  [at |-> at, ret |-> ret, shown |-> Shown(n),
   slots |-> [i \in Slots |-> Decode(chain, FdMask(n), i)]]

------------------------------------------------------------------------------
(* The slot that some decoders are handed besides their own, raw_args[i - 1], *)
(* and what they take it for.  The mutant hands them the one before it.       *)
TwoBefore(i) == i - 2
Sibling(i) == i - 1
SiblingIs ==
  [format_sockopt_optname |-> "format_sockopt_level",
   format_prctl_name_arg  |-> "format_prctl_option",
   format_open_mode       |-> "format_open_flags"]

(* The tables whose rows name a slot that holds a length, too.                *)
Paired == {buffer_arg_table, iovec_write_arg_table, sockaddr_arg_table,
           accept_arg_table, pollfds_arg_table, iovec_read_arg_table}
Lengths(n) == {t[n][2] : t \in {t \in Paired : n \in DOMAIN t}}

(* What the rows of a call have to agree on, table by table.  OwnArgs are the *)
(* branches for the caller's own arguments, Filled the slots that the kernel  *)
(* fills in.                                                                  *)
OwnArgs(n) == ToSet(ImmediateChain(n)) \cup ToSet(CallerChain(n))
Filled(n) == UNION {Outputs(n)[kind] : kind \in Kinds}
Covered(branches) == UNION {c[2] : c \in branches}

OneOwner(n) ==
  /\ \A c, d \in OwnArgs(n) : c[2] \cap d[2] # {} => c[1] = d[1]
  /\ Covered(OwnArgs(n)) \cap Filled(n) = {}
  /\ \A a, b \in Kinds : a # b => Outputs(n)[a] \cap Outputs(n)[b] = {}

(* The dispatch that a call takes has a branch for every argument of its own. *)
OnPath(n) ==
  Covered(OwnArgs(n)) \subseteq
    Covered(ToSet(IF Filled(n) = {} THEN ImmediateChain(n) ELSE CallerChain(n)))

LeftOfIt(n) ==
  \A c \in OwnArgs(n) : c[1] \in DOMAIN SiblingIs =>
    \A i \in c[2] : \E d \in OwnArgs(n) : d[1] = SiblingIs[c[1]] /\ i - 1 \in d[2]

PlainLengths(n) ==
  Lengths(n) \cap (Covered(OwnArgs(n)) \cup Filled(n) \cup MaskOf(fd_arg_table, n)) = {}

OnlyDirfds(n) ==
  /\ MaskOf(fd_arg_table, n) \cap Filled(n) = {}
  /\ \A c \in OwnArgs(n) :
       c[2] \cap MaskOf(fd_arg_table, n) # {} => c[1] = "format_dirfd"

WithinArity(n) ==
  \A i \in Covered(OwnArgs(n)) \cup Filled(n) \cup Lengths(n) :
    i \in Slots /\ (syscall_argc(n) \in 0 .. 6 => i < syscall_argc(n))

ASSUME RoutingAssumption ==
  /\ Returns \subseteq Int
  /\ \A n \in CallNames :
       /\ OneOwner(n) /\ OnPath(n) /\ LeftOfIt(n)
       /\ PlainLengths(n) /\ OnlyDirfds(n) /\ WithinArity(n)

------------------------------------------------------------------------------
RInit ==
  /\ show_fd_paths \in BOOLEAN /\ summary_mode \in BOOLEAN
  /\ name = Unlisted /\ in_syscall = FALSE /\ suppressed = TRUE
  /\ pending = Cleared /\ line = NoLine /\ printed = 0

(* The entry-stop.  syscall_allowed is a free choice here (see CommandLine).  *)
Entry(n, allowed) ==
  /\ ~in_syscall
  /\ in_syscall' = TRUE /\ name' = n /\ suppressed' = ~allowed
  /\ LET defer     == allowed /\ Deferred(Lookups(n))
         immediate == allowed /\ ~defer /\ ~summary_mode
     IN  /\ pending' = IF defer THEN Lookups(n) ELSE Cleared
         /\ line' = IF immediate THEN Line("entry", 0, n, ImmediateChain(n))
                                 ELSE NoLine
         /\ printed' = IF immediate THEN 1 ELSE 0
  /\ UNCHANGED options

(* The exit-stop.  pending_name is the name of the call that is returning:    *)
(* Tracer shows that (SavedStateIsOwn).                                       *)
Exit(ret) ==
  /\ in_syscall /\ in_syscall' = FALSE
  /\ LET build == ~suppressed /\ Awaited(pending)
         show  == build /\ ~summary_mode
     IN  /\ pending' = IF build THEN Cleared ELSE pending
         /\ line' = IF show
                    THEN Line("exit", ret, name,
                              DeferredChain(name, pending, ret))
                    ELSE line
         /\ printed' = IF show THEN printed + 1 ELSE printed
  /\ UNCHANGED <<options, name, suppressed>>

RNext ==
  \/ \E n \in CallNames, allowed \in BOOLEAN : Entry(n, allowed)
  \/ \E ret \in Returns : Exit(ret)

RSpec == RInit /\ [][RNext]_vars

------------------------------------------------------------------------------
(* What the tables claim for a call that returns ret: every branch either     *)
(* dispatch has for it, as if the call took both paths.                       *)
Claims(n, ret) ==
  ToSet(ImmediateChain(n)) \cup ToSet(DeferredChain(n, Lookups(n), ret))

(* A slot that some table claims is rendered by that table's decoder on the   *)
(* path the call really takes, and no second table claims it: a deferred call *)
(* never falls back to hex for a decoder only the entry-stop's chain of       *)
(* branches has, nor an immediate one for a decoder only the exit-stop's has  *)
(* (the trap the comments on statx's mask, wait4's options and prlimit64's    *)
(* resource describe), and no output argument is decoded before the call ran. *)
EveryClaimHonoured ==
  line # NoLine =>
    \A c \in Claims(name, line.ret) : \A i \in c[2] : line.slots[i].by = c[1]

(* A call that passes the filter is printed exactly once by the time it       *)
(* returns, and not at all under -c or when filtered: the condition that      *)
(* defers at the entry-stop and the one that prints at the exit-stop, two     *)
(* lists of fourteen fields, agree on every call.                             *)
OneLinePerCall ==
  ~in_syscall => printed = IF suppressed \/ summary_mode THEN 0 ELSE 1

(* A decoder that looks at another slot finds there what it takes it for:     *)
(* format_sockopt_optname, format_prctl_name_arg and format_open_mode read    *)
(* raw_args[i - 1] as the level, the option and the open flags, and a length  *)
(* slot is a plain number no table claims.                                    *)
SiblingsAreRight ==
  line # NoLine =>
    /\ \A i \in Slots : line.slots[i].by \in DOMAIN SiblingIs =>
         /\ Sibling(i) \in Slots
         /\ line.slots[Sibling(i)].by = SiblingIs[line.slots[i].by]
    /\ \A i \in Lengths(name) :
         line.slots[i] = [by |-> Fallback, resolve |-> FALSE]

(* print_call shows every slot that was decoded and every length slot: the    *)
(* arity table is never shorter than what the routing tables know of a call.  *)
ClaimsAreShown ==
  line # NoLine =>
    /\ \A i \in Slots : line.slots[i].by # Fallback => i < line.shown
    /\ \A i \in Lengths(name) : i < line.shown

(* What the kernel has written when a call returns ret, external: a read of   *)
(* nothing and a wait4 with WNOHANG that found no child write nothing, and the*)
(* remaining time of a sleep is written only if the sleep was interrupted.    *)
Writes(n, kind, ret) ==
  IF kind = "timespec_out" /\ n # "clock_gettime" THEN ret < 0
  ELSE IF kind = "read" \/ n = "wait4" THEN ret > 0
  ELSE ret >= 0

(* Where the chain lets an argument through that may not have been written.   *)
(* The decoders of the first two kinds are handed ret and print the pointer   *)
(* themselves if it is not positive.  Of a pollfd the caller wrote fd and     *)
(* events.  The branch of a timespec has no condition: a failed clock_gettime *)
(* and a sleep that was not interrupted show what the memory held before, and *)
(* ret >= 0 does the same for a wait4 that returned 0.                        *)
ShownUnwritten(n, kind, ret) ==
  \/ kind \in {"getdents", "epoll_events"}
  \/ kind = "pollfds"
  \/ kind = "timespec_out"
  \/ n = "wait4" /\ ret = 0

(* An argument that the kernel has written is decoded at the exit-stop, never *)
(* left as a pointer; and one that it has not written shows the plain pointer *)
(* and not what the memory held before, except where ShownUnwritten says so.  *)
OutputsWereWritten ==
  line.at = "exit" =>
    \A kind \in {k \in Kinds : Lookups(name)[k] # NoSlot} :
      LET decoded == line.slots[Lookups(name)[kind]].by # Fallback
      IN  /\ Writes(name, kind, line.ret) => decoded
          /\ decoded => \/ Writes(name, kind, line.ret)
                        \/ ShownUnwritten(name, kind, line.ret)

(* Both dispatches apply -y alike: whichever stop prints the call, a slot that*)
(* fd_arg_table marks is resolved to a path under -y, and what is resolved is *)
(* a descriptor of the call, never without -y.                                *)
DescriptorsResolved ==
  line # NoLine =>
    \A i \in Slots :
      /\ show_fd_paths /\ i \in MaskOf(fd_arg_table, name) => line.slots[i].resolve
      /\ line.slots[i].resolve =>
           /\ show_fd_paths
           /\ i \in MaskOf(fd_arg_table, name) \cup MaskOf(dirfd_arg_table, name)

(* "*at() syscalls' dirfd is included too" (the comment on fd_arg_table):     *)
(* under -y the directory descriptor of an *at() call is resolved.            *)
DirfdsResolved ==
  line # NoLine /\ show_fd_paths =>
    \A i \in MaskOf(dirfd_arg_table, name) : line.slots[i].resolve
==============================================================================
