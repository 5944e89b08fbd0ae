----------------------------- MODULE FlagTables -----------------------------
(* The tables of named values in decoders.c, in their order, with the values  *)
(* the kernel headers give on x86-64.  A value is the set of its bit numbers; *)
(* a name is its text.                                                        *)
EXTENDS Integers, Sequences

BitsOf(value) == {b \in 0 .. 30 : (value \div 2^b) % 2 = 1}

(* An entry { value, "name" }, and one whose value also has bit 31.           *)
Entry(name, bits) == [name |-> name, width |-> Len(name), bits |-> bits]
E(name, value) == Entry(name, BitsOf(value))
Top(name, value) == Entry(name, BitsOf(value) \cup {31})

open_flag_table ==
  << E("O_TMPFILE", \H410000), E("O_SYNC", \H101000), E("O_CREAT", \H40),
     E("O_EXCL", \H80), E("O_NOCTTY", \H100), E("O_TRUNC", \H200),
     E("O_APPEND", \H400), E("O_NONBLOCK", \H800), E("O_DSYNC", \H1000),
     E("O_DIRECT", \H4000), E("O_LARGEFILE", 0), E("O_DIRECTORY", \H10000),
     E("O_NOFOLLOW", \H20000), E("O_NOATIME", \H40000),
     E("O_CLOEXEC", \H80000), E("O_PATH", \H200000) >>

prot_flag_table ==
  << E("PROT_READ", 1), E("PROT_WRITE", 2), E("PROT_EXEC", 4) >>

map_flag_table ==
  << E("MAP_SHARED", 1), E("MAP_PRIVATE", 2), E("MAP_FIXED", \H10),
     E("MAP_ANONYMOUS", \H20), E("MAP_GROWSDOWN", \H100),
     E("MAP_DENYWRITE", \H800), E("MAP_EXECUTABLE", \H1000),
     E("MAP_LOCKED", \H2000), E("MAP_NORESERVE", \H4000),
     E("MAP_POPULATE", \H8000), E("MAP_NONBLOCK", \H10000),
     E("MAP_STACK", \H20000), E("MAP_HUGETLB", \H40000) >>

mount_flag_table ==
  << E("MS_RDONLY", 1), E("MS_NOSUID", 2), E("MS_NODEV", 4),
     E("MS_NOEXEC", 8), E("MS_SYNCHRONOUS", \H10), E("MS_REMOUNT", \H20),
     E("MS_MANDLOCK", \H40), E("MS_DIRSYNC", \H80), E("MS_NOATIME", \H400),
     E("MS_NODIRATIME", \H800), E("MS_BIND", \H1000), E("MS_MOVE", \H2000),
     E("MS_REC", \H4000), E("MS_SILENT", \H8000), E("MS_POSIXACL", \H10000),
     E("MS_UNBINDABLE", \H20000), E("MS_PRIVATE", \H40000),
     E("MS_SLAVE", \H80000), E("MS_SHARED", \H100000),
     E("MS_RELATIME", \H200000), E("MS_KERNMOUNT", \H400000),
     E("MS_I_VERSION", \H800000), E("MS_STRICTATIME", \H1000000),
     E("MS_LAZYTIME", \H2000000) >>

socket_domain_table ==
  << E("AF_UNIX", 1), E("AF_INET", 2), E("AF_INET6", \HA),
     E("AF_NETLINK", \H10), E("AF_PACKET", \H11), E("AF_UNSPEC", 0) >>

socket_type_table ==
  << E("SOCK_STREAM", 1), E("SOCK_DGRAM", 2), E("SOCK_RAW", 3),
     E("SOCK_RDM", 4), E("SOCK_SEQPACKET", 5), E("SOCK_PACKET", \HA) >>

lseek_whence_table ==
  << E("SEEK_SET", 0), E("SEEK_CUR", 1), E("SEEK_END", 2), E("SEEK_DATA", 3),
     E("SEEK_HOLE", 4) >>

fcntl_cmd_table ==
  << E("F_DUPFD", 0), E("F_DUPFD_CLOEXEC", \H406), E("F_GETFD", 1),
     E("F_SETFD", 2), E("F_GETFL", 3), E("F_SETFL", 4), E("F_GETLK", 5),
     E("F_SETLK", 6), E("F_SETLKW", 7), E("F_GETOWN", 9), E("F_SETOWN", 8),
     E("F_GETSIG", \HB), E("F_SETSIG", \HA), E("F_SETLEASE", \H400),
     E("F_GETLEASE", \H401), E("F_SETPIPE_SZ", \H407),
     E("F_GETPIPE_SZ", \H408) >>

sigprocmask_how_table ==
  << E("SIG_BLOCK", 0), E("SIG_UNBLOCK", 1), E("SIG_SETMASK", 2) >>

access_mode_table == << E("R_OK", 4), E("W_OK", 2), E("X_OK", 1) >>

clockid_table ==
  << E("CLOCK_REALTIME", 0), E("CLOCK_MONOTONIC", 1),
     E("CLOCK_PROCESS_CPUTIME_ID", 2), E("CLOCK_THREAD_CPUTIME_ID", 3),
     E("CLOCK_MONOTONIC_RAW", 4), E("CLOCK_REALTIME_COARSE", 5),
     E("CLOCK_MONOTONIC_COARSE", 6), E("CLOCK_BOOTTIME", 7) >>

clone_flag_table ==
  << E("CLONE_VM", \H100), E("CLONE_FS", \H200), E("CLONE_FILES", \H400),
     E("CLONE_SIGHAND", \H800), E("CLONE_PIDFD", \H1000),
     E("CLONE_PTRACE", \H2000), E("CLONE_VFORK", \H4000),
     E("CLONE_PARENT", \H8000), E("CLONE_THREAD", \H10000),
     E("CLONE_NEWNS", \H20000), E("CLONE_SYSVSEM", \H40000),
     E("CLONE_SETTLS", \H80000), E("CLONE_PARENT_SETTID", \H100000),
     E("CLONE_CHILD_CLEARTID", \H200000), E("CLONE_UNTRACED", \H800000),
     E("CLONE_CHILD_SETTID", \H1000000), E("CLONE_NEWCGROUP", \H2000000),
     E("CLONE_NEWUTS", \H4000000), E("CLONE_NEWIPC", \H8000000),
     E("CLONE_NEWUSER", \H10000000), E("CLONE_NEWPID", \H20000000),
     E("CLONE_NEWNET", \H40000000), Top("CLONE_IO", 0) >>

ioctl_request_table ==
  << E("TCGETS", \H5401), E("TCSETS", \H5402), E("TCSETSW", \H5403),
     E("TCSETSF", \H5404), E("TCGETA", \H5405), E("TCSETA", \H5406),
     E("TCSETAW", \H5407), E("TCSETAF", \H5408), E("TCSBRK", \H5409),
     E("TCXONC", \H540A), E("TCFLSH", \H540B), E("TIOCEXCL", \H540C),
     E("TIOCNXCL", \H540D), E("TIOCSCTTY", \H540E), E("TIOCGPGRP", \H540F),
     E("TIOCSPGRP", \H5410), E("TIOCOUTQ", \H5411), E("TIOCSTI", \H5412),
     E("TIOCGWINSZ", \H5413), E("TIOCSWINSZ", \H5414), E("TIOCMGET", \H5415),
     E("TIOCMBIS", \H5416), E("TIOCMBIC", \H5417), E("TIOCMSET", \H5418),
     E("TIOCGSOFTCAR", \H5419), E("TIOCSSOFTCAR", \H541A),
     E("FIONREAD", \H541B), E("TIOCLINUX", \H541C), E("TIOCCONS", \H541D),
     E("TIOCGSERIAL", \H541E), E("TIOCSSERIAL", \H541F), E("TIOCPKT", \H5420),
     E("FIONBIO", \H5421), E("TIOCNOTTY", \H5422), E("TIOCSETD", \H5423),
     E("TIOCGETD", \H5424), E("TIOCGSID", \H5429), Top("TIOCGPTN", \H45430),
     E("TIOCSPTLCK", \H40045431), E("TIOCGPTPEER", \H5441),
     E("FIONCLEX", \H5450), E("FIOCLEX", \H5451), E("FIOASYNC", \H5452) >>

msg_flag_table ==
  << E("MSG_OOB", 1), E("MSG_PEEK", 2), E("MSG_DONTROUTE", 4),
     E("MSG_CTRUNC", 8), E("MSG_TRUNC", \H20), E("MSG_DONTWAIT", \H40),
     E("MSG_EOR", \H80), E("MSG_WAITALL", \H100), E("MSG_CONFIRM", \H800),
     E("MSG_ERRQUEUE", \H2000), E("MSG_NOSIGNAL", \H4000),
     E("MSG_MORE", \H8000), E("MSG_CMSG_CLOEXEC", \H40000000) >>

sigaction_flag_table ==
  << E("SA_NOCLDSTOP", 1), E("SA_NOCLDWAIT", 2), E("SA_SIGINFO", 4),
     E("SA_ONSTACK", \H8000000), E("SA_RESTART", \H10000000),
     E("SA_NODEFER", \H40000000), Top("SA_RESETHAND", 0) >>

epoll_op_table ==
  << E("EPOLL_CTL_ADD", 1), E("EPOLL_CTL_DEL", 2), E("EPOLL_CTL_MOD", 3) >>

epoll_events_flag_table ==
  << E("EPOLLIN", 1), E("EPOLLOUT", 4), E("EPOLLPRI", 2), E("EPOLLERR", 8),
     E("EPOLLHUP", \H10), E("EPOLLRDNORM", \H40), E("EPOLLRDBAND", \H80),
     E("EPOLLWRNORM", \H100), E("EPOLLWRBAND", \H200), E("EPOLLMSG", \H400),
     E("EPOLLRDHUP", \H2000), E("EPOLLEXCLUSIVE", \H10000000),
     E("EPOLLWAKEUP", \H20000000), E("EPOLLONESHOT", \H40000000),
     Top("EPOLLET", 0) >>

poll_events_flag_table ==
  << E("POLLIN", 1), E("POLLPRI", 2), E("POLLOUT", 4), E("POLLERR", 8),
     E("POLLHUP", \H10), E("POLLNVAL", \H20), E("POLLRDNORM", \H40),
     E("POLLRDBAND", \H80), E("POLLWRNORM", \H100), E("POLLWRBAND", \H200),
     E("POLLRDHUP", \H2000) >>

statx_mask_table ==
  << E("STATX_BASIC_STATS", \H7FF), E("STATX_TYPE", 1), E("STATX_MODE", 2),
     E("STATX_NLINK", 4), E("STATX_UID", 8), E("STATX_GID", \H10),
     E("STATX_ATIME", \H20), E("STATX_MTIME", \H40), E("STATX_CTIME", \H80),
     E("STATX_INO", \H100), E("STATX_SIZE", \H200), E("STATX_BLOCKS", \H400),
     E("STATX_BTIME", \H800), E("STATX_MNT_ID", \H1000) >>

sockopt_level_table ==
  << E("SOL_SOCKET", 1), E("IPPROTO_IP", 0), E("IPPROTO_TCP", 6),
     E("IPPROTO_UDP", \H11), E("IPPROTO_IPV6", \H29), E("IPPROTO_ICMP", 1),
     E("SOL_RAW", \HFF), E("SOL_PACKET", \H107) >>

sockopt_optname_socket_table ==
  << E("SO_DEBUG", 1), E("SO_REUSEADDR", 2), E("SO_TYPE", 3),
     E("SO_ERROR", 4), E("SO_DONTROUTE", 5), E("SO_BROADCAST", 6),
     E("SO_SNDBUF", 7), E("SO_RCVBUF", 8), E("SO_KEEPALIVE", 9),
     E("SO_OOBINLINE", \HA), E("SO_LINGER", \HD), E("SO_REUSEPORT", \HF),
     E("SO_RCVTIMEO", \H14), E("SO_SNDTIMEO", \H15), E("SO_ACCEPTCONN", \H1E),
     E("SO_BINDTODEVICE", \H19), E("SO_TIMESTAMP", \H1D),
     E("SO_PASSCRED", \H10), E("SO_PEERCRED", \H11), E("SO_RCVLOWAT", \H12),
     E("SO_SNDLOWAT", \H13) >>

sockopt_optname_tcp_table ==
  << E("TCP_NODELAY", 1), E("TCP_MAXSEG", 2), E("TCP_CORK", 3),
     E("TCP_KEEPIDLE", 4), E("TCP_KEEPINTVL", 5), E("TCP_KEEPCNT", 6),
     E("TCP_SYNCNT", 7), E("TCP_QUICKACK", \HC), E("TCP_USER_TIMEOUT", \H12),
     E("TCP_INFO", \HB), E("TCP_DEFER_ACCEPT", 9) >>

prctl_option_table ==
  << E("PR_SET_PDEATHSIG", 1), E("PR_GET_PDEATHSIG", 2),
     E("PR_GET_DUMPABLE", 3), E("PR_SET_DUMPABLE", 4), E("PR_GET_UNALIGN", 5),
     E("PR_SET_UNALIGN", 6), E("PR_GET_KEEPCAPS", 7), E("PR_SET_KEEPCAPS", 8),
     E("PR_SET_NAME", \HF), E("PR_GET_NAME", \H10), E("PR_GET_ENDIAN", \H13),
     E("PR_SET_ENDIAN", \H14), E("PR_GET_SECCOMP", \H15),
     E("PR_SET_SECCOMP", \H16), E("PR_CAPBSET_READ", \H17),
     E("PR_CAPBSET_DROP", \H18), E("PR_GET_TSC", \H19), E("PR_SET_TSC", \H1A),
     E("PR_GET_SECUREBITS", \H1B), E("PR_SET_SECUREBITS", \H1C),
     E("PR_SET_TIMERSLACK", \H1D), E("PR_GET_TIMERSLACK", \H1E),
     E("PR_TASK_PERF_EVENTS_DISABLE", \H1F),
     E("PR_TASK_PERF_EVENTS_ENABLE", \H20), E("PR_MCE_KILL", \H21),
     E("PR_MCE_KILL_GET", \H22), E("PR_SET_MM", \H23),
     E("PR_SET_PTRACER", \H59616D61), E("PR_SET_CHILD_SUBREAPER", \H24),
     E("PR_GET_CHILD_SUBREAPER", \H25), E("PR_SET_NO_NEW_PRIVS", \H26),
     E("PR_GET_NO_NEW_PRIVS", \H27), E("PR_GET_TID_ADDRESS", \H28),
     E("PR_SET_THP_DISABLE", \H29), E("PR_GET_THP_DISABLE", \H2A),
     E("PR_CAP_AMBIENT", \H2F), E("PR_SET_SPECULATION_CTRL", \H35),
     E("PR_GET_SPECULATION_CTRL", \H34), E("PR_SET_IO_FLUSHER", \H39),
     E("PR_GET_IO_FLUSHER", \H3A), E("PR_SET_TAGGED_ADDR_CTRL", \H37),
     E("PR_GET_TAGGED_ADDR_CTRL", \H38),
     E("PR_SET_SYSCALL_USER_DISPATCH", \H3B) >>

at_flag_table ==
  << E("AT_SYMLINK_NOFOLLOW", \H100), E("AT_SYMLINK_FOLLOW", \H400),
     E("AT_NO_AUTOMOUNT", \H800), E("AT_EMPTY_PATH", \H1000),
     E("AT_STATX_FORCE_SYNC", \H2000), E("AT_STATX_DONT_SYNC", \H4000),
     E("AT_RECURSIVE", \H8000) >>

pipe2_flag_table ==
  << E("O_CLOEXEC", \H80000), E("O_NONBLOCK", \H800), E("O_DIRECT", \H4000) >>

getrandom_flag_table ==
  << E("GRND_NONBLOCK", 1), E("GRND_RANDOM", 2), E("GRND_INSECURE", 4) >>

flock_op_table ==
  << E("LOCK_SH", 1), E("LOCK_EX", 2), E("LOCK_UN", 8), E("LOCK_NB", 4) >>

madvise_advice_table ==
  << E("MADV_NORMAL", 0), E("MADV_RANDOM", 1), E("MADV_SEQUENTIAL", 2),
     E("MADV_WILLNEED", 3), E("MADV_DONTNEED", 4), E("MADV_FREE", 8),
     E("MADV_REMOVE", 9), E("MADV_DONTFORK", \HA), E("MADV_DOFORK", \HB),
     E("MADV_MERGEABLE", \HC), E("MADV_UNMERGEABLE", \HD),
     E("MADV_HUGEPAGE", \HE), E("MADV_NOHUGEPAGE", \HF),
     E("MADV_DONTDUMP", \H10), E("MADV_DODUMP", \H11),
     E("MADV_WIPEONFORK", \H12), E("MADV_KEEPONFORK", \H13),
     E("MADV_COLD", \H14), E("MADV_PAGEOUT", \H15),
     E("MADV_HWPOISON", \H64) >>

futex_cmd_table ==
  << E("FUTEX_WAIT", 0), E("FUTEX_WAKE", 1), E("FUTEX_FD", 2),
     E("FUTEX_REQUEUE", 3), E("FUTEX_CMP_REQUEUE", 4), E("FUTEX_WAKE_OP", 5),
     E("FUTEX_LOCK_PI", 6), E("FUTEX_UNLOCK_PI", 7), E("FUTEX_TRYLOCK_PI", 8),
     E("FUTEX_WAIT_BITSET", 9), E("FUTEX_WAKE_BITSET", \HA),
     E("FUTEX_WAIT_REQUEUE_PI", \HB), E("FUTEX_CMP_REQUEUE_PI", \HC),
     E("FUTEX_LOCK_PI2", \HD) >>

renameat2_flag_table ==
  << E("RENAME_NOREPLACE", 1), E("RENAME_EXCHANGE", 2),
     E("RENAME_WHITEOUT", 4) >>

mremap_flag_table ==
  << E("MREMAP_MAYMOVE", 1), E("MREMAP_FIXED", 2), E("MREMAP_DONTUNMAP", 4) >>

memfd_flag_table ==
  << E("MFD_CLOEXEC", 1), E("MFD_ALLOW_SEALING", 2), E("MFD_HUGETLB", 4) >>

eventfd_flag_table ==
  << E("EFD_SEMAPHORE", 1), E("EFD_CLOEXEC", \H80000),
     E("EFD_NONBLOCK", \H800) >>

wait4_options_table ==
  << E("WNOHANG", 1), E("WUNTRACED", 2), E("WCONTINUED", 8),
     E("WNOWAIT", \H1000000), E("__WNOTHREAD", \H20000000),
     E("__WALL", \H40000000), Top("__WCLONE", 0) >>

waitid_options_table ==
  << E("WNOHANG", 1), E("WSTOPPED", 2), E("WEXITED", 4), E("WCONTINUED", 8),
     E("WNOWAIT", \H1000000), E("__WNOTHREAD", \H20000000),
     E("__WALL", \H40000000), Top("__WCLONE", 0) >>

waitid_idtype_table ==
  << E("P_ALL", 0), E("P_PID", 1), E("P_PGID", 2), E("P_PIDFD", 3) >>

sched_policy_table ==
  << E("SCHED_OTHER", 0), E("SCHED_FIFO", 1), E("SCHED_RR", 2),
     E("SCHED_BATCH", 3), E("SCHED_IDLE", 5), E("SCHED_DEADLINE", 6) >>

rlimit_resource_table ==
  << E("RLIMIT_CPU", 0), E("RLIMIT_FSIZE", 1), E("RLIMIT_DATA", 2),
     E("RLIMIT_STACK", 3), E("RLIMIT_CORE", 4), E("RLIMIT_RSS", 5),
     E("RLIMIT_NPROC", 6), E("RLIMIT_NOFILE", 7), E("RLIMIT_MEMLOCK", 8),
     E("RLIMIT_AS", 9), E("RLIMIT_LOCKS", \HA), E("RLIMIT_SIGPENDING", \HB),
     E("RLIMIT_MSGQUEUE", \HC), E("RLIMIT_NICE", \HD),
     E("RLIMIT_RTPRIO", \HE), E("RLIMIT_RTTIME", \HF) >>

==============================================================================
