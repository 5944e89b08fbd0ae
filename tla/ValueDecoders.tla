--------------------------- MODULE ValueDecoders ---------------------------
(* What each integer decoder of decoders.c is made of, in the terms of module *)
(* FlagWalk: its table and how it goes through it.                            *)
EXTENDS FlagTables, Sequences

Register == 0 .. 63     \* unsigned long long
IntBits == 0 .. 31      \* what a cast to int keeps
None == Entry("", {})

(* format_flag_table_value, and the walks written like it.                    *)
format_flag_table_value(table) ==
  [table |-> table, exact |-> FALSE, zero |-> 1, late |-> FALSE,
   first |-> None, always |-> FALSE, last |-> <<>>,
   mask |-> Register, keeps |-> Register, number |-> 0]

(* The lookups: no text of its own for 0.                                     *)
Lookup(table) ==
  [format_flag_table_value(table) EXCEPT !.exact = TRUE, !.zero = 0]

format_socket_domain == Lookup(socket_domain_table)
format_lseek_whence == Lookup(lseek_whence_table)
format_fcntl_cmd == Lookup(fcntl_cmd_table)
format_sigprocmask_how == Lookup(sigprocmask_how_table)
format_clockid == Lookup(clockid_table)
format_epoll_op == Lookup(epoll_op_table)
format_sockopt_level == Lookup(sockopt_level_table)
format_prctl_option == Lookup(prctl_option_table)
format_madvise_advice == Lookup(madvise_advice_table)
format_waitid_idtype == Lookup(waitid_idtype_table)
format_rlimit_resource == Lookup(rlimit_resource_table)

format_open_flags ==
  [format_flag_table_value(open_flag_table) EXCEPT
     !.zero = 0, !.first = E("O_RDONLY", 3), !.always = TRUE]
format_prot_flags ==
  [format_flag_table_value(prot_flag_table) EXCEPT !.zero = Len("PROT_NONE")]
format_map_flags ==
  [format_flag_table_value(map_flag_table) EXCEPT !.zero = 0]
format_mount_flags ==
  [format_flag_table_value(mount_flag_table) EXCEPT !.zero = 0]
format_access_mode ==
  [format_flag_table_value(access_mode_table) EXCEPT !.zero = Len("F_OK")]
format_statx_mask ==
  [format_flag_table_value(statx_mask_table) EXCEPT !.zero = 0]
format_msg_flags == format_flag_table_value(msg_flag_table)
format_sigaction_flags_value == format_flag_table_value(sigaction_flag_table)
format_epoll_events_value == format_flag_table_value(epoll_events_flag_table)
format_poll_events_value == format_flag_table_value(poll_events_flag_table)

format_pipe2_flags == format_flag_table_value(pipe2_flag_table)
format_getrandom_flags == format_flag_table_value(getrandom_flag_table)
format_flock_op == format_flag_table_value(flock_op_table)
format_renameat2_flags == format_flag_table_value(renameat2_flag_table)
format_mremap_flags == format_flag_table_value(mremap_flag_table)
format_memfd_flags == format_flag_table_value(memfd_flag_table)
format_eventfd_flags == format_flag_table_value(eventfd_flag_table)
format_wait4_options == format_flag_table_value(wait4_options_table)
format_waitid_options == format_flag_table_value(waitid_options_table)

(* The exit signal by its longest name: the low byte of clone's argument, or  *)
(* a field of its own in clone3's structure, here bits 64 and up.  The field  *)
(* has 64 bits, of which only a byte is modelled: the kernel refuses more.  Of*)
(* a larger value sigabbrev_np is given the low 32 bits, and the rest is lost *)
(* if they name a signal.                                                     *)
ExitSignal(bits) == <<Entry("SIGSTKFLT", bits)>>
format_clone_flags_value(signal) ==
  [format_flag_table_value(clone_flag_table) EXCEPT
     !.late = TRUE, !.last = ExitSignal(signal),
     !.mask = Register \cup signal, !.keeps = Register \cup signal]
format_clone_flags == format_clone_flags_value(0 .. 7)
format_clone3_flags == format_clone_flags_value(64 .. 71)

(* The walker of the AT_ flags is given the name of bit 0x200, or NULL.       *)
format_at_flags_walk(bit200) ==
  [format_flag_table_value(at_flag_table) EXCEPT !.first = bit200]
format_at_flags == format_at_flags_walk(None)
format_unlinkat_flags == format_at_flags_walk(E("AT_REMOVEDIR", \H200))
format_faccessat_flags == format_at_flags_walk(E("AT_EACCESS", \H200))

(* Lookups that first split flags off.                                        *)
format_socket_type ==
  [Lookup(socket_type_table) EXCEPT
     !.last = <<E("SOCK_CLOEXEC", \H80000), E("SOCK_NONBLOCK", \H800)>>]
format_futex_op ==
  [Lookup(futex_cmd_table) EXCEPT
     !.last = <<E("FUTEX_PRIVATE_FLAG", \H80), E("FUTEX_CLOCK_REALTIME", \H100)>>]
format_sched_policy ==
  [Lookup(sched_policy_table) EXCEPT
     !.last = <<E("SCHED_RESET_ON_FORK", \H40000000)>>]

(* Arguments that are an int: the register is compared after a cast, since it *)
(* may be zero- or sign-extended.                                             *)
CompareInt(table) == [Lookup(table) EXCEPT !.mask = IntBits]
format_rusage_who ==
  CompareInt(<<E("RUSAGE_SELF", 0), Entry("RUSAGE_CHILDREN", IntBits),
               E("RUSAGE_THREAD", 1)>>)
format_dirfd == CompareInt(<<Entry("AT_FDCWD", IntBits \ {0, 1, 5, 6})>>)

(* sigabbrev_np names the signals 1 to 31; anything else is printed as an int.*)
sigabbrev_np == [s \in 1 .. 31 |-> E("SIGSTKFLT", s)]
format_signal_arg ==
  [CompareInt(sigabbrev_np) EXCEPT
     !.zero = 1, !.keeps = IntBits, !.number = Len("-2147483648")]

(* A request that is not in the table is taken apart by _IOC_DIR, _IOC_TYPE,  *)
(* _IOC_NR and _IOC_SIZE, which cover 32 bits between them.                   *)
format_ioctl_request ==
  [Lookup(ioctl_request_table) EXCEPT
     !.keeps = IntBits,
     !.number = Len("_IOC(_IOC_READ|_IOC_WRITE, 0xff, 0xff, 16383)")]

(* optname is looked up in the table of its level, if there is one.           *)
format_sockopt_optname(level) ==
  Lookup(CASE level = "SOL_SOCKET" -> sockopt_optname_socket_table
           [] level = "IPPROTO_TCP" -> sockopt_optname_tcp_table
           [] OTHER -> <<>>)

(* The decoders by name.  Two of them are internal: the msg_flags field of a  *)
(* message header, and the fields of the structures sigaction, epoll_event    *)
(* and pollfd.                                                                *)
ValueDecoder ==
  [ open |-> format_open_flags, prot |-> format_prot_flags,
    map |-> format_map_flags, mount |-> format_mount_flags,
    access |-> format_access_mode, statx |-> format_statx_mask,
    msg |-> format_msg_flags, msghdr |-> format_msg_flags,
    sigaction |-> format_sigaction_flags_value,
    epoll |-> format_epoll_events_value, poll |-> format_poll_events_value,
    clone |-> format_clone_flags, clone3 |-> format_clone3_flags,
    at |-> format_at_flags, unlinkat |-> format_unlinkat_flags,
    faccessat |-> format_faccessat_flags,
    pipe2 |-> format_pipe2_flags, getrandom |-> format_getrandom_flags,
    flock |-> format_flock_op, renameat2 |-> format_renameat2_flags,
    mremap |-> format_mremap_flags, memfd |-> format_memfd_flags,
    eventfd |-> format_eventfd_flags, wait4 |-> format_wait4_options,
    waitid |-> format_waitid_options, domain |-> format_socket_domain,
    whence |-> format_lseek_whence, fcntl |-> format_fcntl_cmd,
    how |-> format_sigprocmask_how, clockid |-> format_clockid,
    epoll_op |-> format_epoll_op, level |-> format_sockopt_level,
    prctl |-> format_prctl_option, madvise |-> format_madvise_advice,
    idtype |-> format_waitid_idtype, resource |-> format_rlimit_resource,
    optname |-> format_sockopt_optname("SOL_SOCKET"),
    tcp_optname |-> format_sockopt_optname("IPPROTO_TCP"),
    other_optname |-> format_sockopt_optname("IPPROTO_IP"),
    socket_type |-> format_socket_type, futex |-> format_futex_op,
    sched |-> format_sched_policy, rusage |-> format_rusage_who,
    dirfd |-> format_dirfd, signal |-> format_signal_arg,
    ioctl |-> format_ioctl_request ]

(* The buffer each is given: its caller's argbuf, or a local of its caller.   *)
Buffer(decoder) ==
  CASE decoder \in {"sigaction", "epoll"} -> 256
    [] decoder \in {"poll", "msghdr"} -> 128
    [] OTHER -> 1024
==============================================================================
