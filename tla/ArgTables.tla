---------------------------- MODULE ArgTables ----------------------------
(* The routing tables of arg_routing.c: which argument slots of which system  *)
(* call hold a value of which kind.  A mask over the slots 0..5 is the set of *)
(* its bits; a buffer entry is the pair <<buf_idx, len_idx>>.  A table is a   *)
(* function from the names it lists, so the linear scan over its entries is   *)
(* function application, and a name it does not list has no slots.            *)
EXTENDS Integers

Slots == 0 .. 5

------------------------------------------------------------------------------
string_arg_table ==
  [open |-> {0}, openat |-> {1}, creat |-> {0}, access |-> {0},
   faccessat |-> {1}, faccessat2 |-> {1}, stat |-> {0}, lstat |-> {0},
   newfstatat |-> {1}, statx |-> {1}, execve |-> {0}, execveat |-> {1},
   unlink |-> {0}, unlinkat |-> {1}, mkdir |-> {0}, mkdirat |-> {1},
   rmdir |-> {0}, chdir |-> {0}, rename |-> {0, 1}, renameat |-> {1, 3},
   renameat2 |-> {1, 3}, memfd_create |-> {0}, readlink |-> {0},
   readlinkat |-> {1}, chmod |-> {0}, fchmodat |-> {1}, chown |-> {0},
   lchown |-> {0}, fchownat |-> {1}, truncate |-> {0}, statfs |-> {0},
   symlink |-> {0, 1}, symlinkat |-> {0, 2}, link |-> {0, 1},
   linkat |-> {1, 3}, mount |-> {0, 1, 2}, umount2 |-> {0}, chroot |-> {0},
   pivot_root |-> {0, 1}, utime |-> {0}, utimes |-> {0}, futimesat |-> {1}]
fd_arg_table ==
  [read |-> {0}, write |-> {0}, pread64 |-> {0}, pwrite64 |-> {0},
   close |-> {0}, fstat |-> {0}, lseek |-> {0}, ioctl |-> {0}, fcntl |-> {0},
   dup |-> {0}, dup2 |-> {0, 1}, dup3 |-> {0, 1}, fchmod |-> {0},
   fchown |-> {0}, ftruncate |-> {0}, fstatfs |-> {0}, fsync |-> {0},
   fdatasync |-> {0}, flock |-> {0}, mmap |-> {4}, openat |-> {0},
   faccessat |-> {0}, faccessat2 |-> {0}, unlinkat |-> {0}, mkdirat |-> {0},
   renameat |-> {0, 2}, renameat2 |-> {0, 2}, newfstatat |-> {0},
   readlinkat |-> {0}, fchmodat |-> {0}, fchownat |-> {0}, symlinkat |-> {1},
   linkat |-> {0, 2}, futimesat |-> {0}, accept |-> {0}, accept4 |-> {0},
   bind |-> {0}, listen |-> {0}, connect |-> {0}, getsockname |-> {0},
   getpeername |-> {0}, setsockopt |-> {0}, getsockopt |-> {0},
   shutdown |-> {0}, sendto |-> {0}, recvfrom |-> {0}, sendmsg |-> {0},
   recvmsg |-> {0}]
dirfd_arg_table ==
  [openat |-> {0}, openat2 |-> {0}, faccessat |-> {0}, faccessat2 |-> {0},
   unlinkat |-> {0}, mkdirat |-> {0}, mknodat |-> {0}, renameat |-> {0, 2},
   renameat2 |-> {0, 2}, newfstatat |-> {0}, statx |-> {0},
   readlinkat |-> {0}, fchmodat |-> {0}, fchmodat2 |-> {0}, fchownat |-> {0},
   symlinkat |-> {1}, linkat |-> {0, 2}, futimesat |-> {0}, utimensat |-> {0},
   execveat |-> {0}, name_to_handle_at |-> {0}]
at_flags_arg_table ==
  [newfstatat |-> {3}, statx |-> {2}, linkat |-> {4}, utimensat |-> {3},
   fchmodat2 |-> {3}, fchownat |-> {4}, execveat |-> {4}]
unlinkat_flags_arg_table == [unlinkat |-> {2}]
faccessat_flags_arg_table == [faccessat2 |-> {3}]
argv_arg_table == [execve |-> {1, 2}, execveat |-> {2, 3}]
open_flags_arg_table == [open |-> {1}, openat |-> {2}]
prot_flags_arg_table == [mmap |-> {2}, mprotect |-> {2}]
map_flags_arg_table == [mmap |-> {3}]
mount_flags_arg_table == [mount |-> {3}]
socket_domain_arg_table == [socket |-> {0}, socketpair |-> {0}]
socket_type_arg_table == [socket |-> {1}, socketpair |-> {1}]
sockopt_level_arg_table == [setsockopt |-> {1}, getsockopt |-> {1}]
sockopt_optname_arg_table == [setsockopt |-> {2}, getsockopt |-> {2}]
fdset_arg_table == [select |-> {1, 2, 3}, pselect6 |-> {1, 2, 3}]
msg_flags_arg_table ==
  [sendto |-> {3}, recvfrom |-> {3}, sendmsg |-> {2}, recvmsg |-> {2}]
file_mode_arg_table ==
  [chmod |-> {1}, fchmod |-> {1}, fchmodat |-> {2}, fchmodat2 |-> {2},
   mkdir |-> {1}, mkdirat |-> {2}, mknod |-> {1}, mknodat |-> {2},
   creat |-> {1}, umask |-> {0}]
open_mode_arg_table == [open |-> {2}, openat |-> {3}]
renameat2_flags_arg_table == [renameat2 |-> {4}]
mremap_flags_arg_table == [mremap |-> {3}]
memfd_flags_arg_table == [memfd_create |-> {1}]
eventfd_flags_arg_table == [eventfd2 |-> {1}]
wait4_options_arg_table == [wait4 |-> {2}]
waitid_idtype_arg_table == [waitid |-> {0}]
waitid_options_arg_table == [waitid |-> {3}]
sched_policy_arg_table == [sched_setscheduler |-> {1}]
rusage_who_arg_table == [getrusage |-> {0}]
rlimit_in_arg_table == [setrlimit |-> {1}, prlimit64 |-> {2}]
rlimit_out_arg_table == [getrlimit |-> {1}, prlimit64 |-> {3}]
rlimit_resource_arg_table ==
  [getrlimit |-> {0}, setrlimit |-> {0}, prlimit64 |-> {1}]
pipe2_flags_arg_table == [pipe2 |-> {1}]
getrandom_flags_arg_table == [getrandom |-> {2}]
flock_op_arg_table == [flock |-> {1}]
madvise_advice_arg_table == [madvise |-> {2}]
futex_op_arg_table == [futex |-> {1}]
prctl_option_arg_table == [prctl |-> {0}]
prctl_name_arg_table == [prctl |-> {1}]
signal_arg_table ==
  [kill |-> {1}, tkill |-> {1}, tgkill |-> {2}, rt_sigaction |-> {0}]
lseek_whence_arg_table == [lseek |-> {2}]
fcntl_cmd_arg_table == [fcntl |-> {1}]
sigprocmask_how_arg_table == [rt_sigprocmask |-> {0}]
access_mode_arg_table ==
  [access |-> {1}, faccessat |-> {2}, faccessat2 |-> {2}]
clockid_arg_table ==
  [clock_gettime |-> {0}, clock_settime |-> {0}, clock_getres |-> {0},
   clock_nanosleep |-> {0}]
buffer_arg_table == [write |-> <<1, 2>>, pwrite64 |-> <<1, 2>>]
iovec_write_arg_table == [writev |-> <<1, 2>>]
sockaddr_arg_table ==
  [connect |-> <<1, 2>>, bind |-> <<1, 2>>, sendto |-> <<4, 5>>]
accept_arg_table ==
  [accept |-> <<1, 2>>, accept4 |-> <<1, 2>>, getsockname |-> <<1, 2>>,
   getpeername |-> <<1, 2>>, recvfrom |-> <<4, 5>>]
wait_status_arg_table == [wait4 |-> {1}]
rusage_arg_table == [wait4 |-> {3}, getrusage |-> {1}]
epoll_op_arg_table == [epoll_ctl |-> {1}]
epoll_event_arg_table == [epoll_ctl |-> {3}]
epoll_events_arg_table == [epoll_wait |-> {1}, epoll_pwait |-> {1}]
pollfds_arg_table == [poll |-> <<0, 1>>, ppoll |-> <<0, 1>>]
stat_buf_arg_table ==
  [stat |-> {1}, lstat |-> {1}, fstat |-> {1}, newfstatat |-> {2}]
statx_mask_arg_table == [statx |-> {3}]
statx_buf_arg_table == [statx |-> {4}]
getdents_buf_arg_table == [getdents64 |-> {1}]
clone_flags_arg_table == [clone |-> {0}]
clone3_args_arg_table == [clone3 |-> {0}]
ioctl_request_arg_table == [ioctl |-> {1}]
msghdr_send_arg_table == [sendmsg |-> {1}]
msghdr_recv_arg_table == [recvmsg |-> {1}]
sigaction_new_arg_table == [rt_sigaction |-> {1}]
sigaction_old_arg_table == [rt_sigaction |-> {2}]
timespec_in_arg_table ==
  [clock_settime |-> {1}, nanosleep |-> {0}, clock_nanosleep |-> {2}]
timespec_out_arg_table ==
  [clock_gettime |-> {1}, nanosleep |-> {1}, clock_nanosleep |-> {3}]
read_arg_table ==
  [read |-> <<1, 2>>, pread64 |-> <<1, 2>>, recvfrom |-> <<1, 2>>]
iovec_read_arg_table == [readv |-> <<1, 2>>]

------------------------------------------------------------------------------
(* syscall_argc_table, for the names some table above routes and for getpid,  *)
(* a name it lists and nothing routes.  The names of the program that appear  *)
(* in no table at all are represented by one name, Unlisted.                  *)
Unlisted == "unlisted"

Arity ==
  << {"getpid"},
     {"chdir", "chroot", "close", "dup", "fdatasync", "fsync", "rmdir", "umask",
      "unlink"},
     {"access", "chmod", "clock_getres", "clock_gettime", "clock_settime",
      "clone3", "creat", "dup2", "eventfd2", "fchmod", "flock", "fstat",
      "fstatfs", "ftruncate", "getrlimit", "getrusage", "kill", "link",
      "listen", "lstat", "memfd_create", "mkdir", "nanosleep", "pipe2",
      "pivot_root", "rename", "setrlimit", "shutdown", "stat", "statfs",
      "symlink", "tkill", "truncate", "umount2", "utime", "utimes"},
     {"accept", "bind", "chown", "connect", "dup3", "execve", "faccessat",
      "fchmodat", "fchown", "fcntl", "futimesat", "getdents64", "getpeername",
      "getrandom", "getsockname", "ioctl", "lchown", "lseek", "madvise",
      "mkdirat", "mknod", "mprotect", "open", "poll", "read", "readlink",
      "readv", "recvmsg", "sched_setscheduler", "sendmsg", "socket",
      "symlinkat", "tgkill", "unlinkat", "write", "writev"},
     {"accept4", "clock_nanosleep", "epoll_ctl", "epoll_wait", "faccessat2",
      "fchmodat2", "mknodat", "newfstatat", "openat", "openat2", "pread64",
      "prlimit64", "pwrite64", "readlinkat", "renameat", "rt_sigaction",
      "rt_sigprocmask", "socketpair", "utimensat", "wait4"},
     {"clone", "execveat", "fchownat", "getsockopt", "linkat", "mount",
      "mremap", "name_to_handle_at", "ppoll", "prctl", "renameat2", "select",
      "setsockopt", "statx", "waitid"},
     {"epoll_pwait", "futex", "mmap", "pselect6", "recvfrom", "sendto"} >>

(* -1 for a name the table does not list.                                     *)
syscall_argc(name) ==
  IF \E n \in 1 .. 7 : name \in Arity[n]
  THEN (CHOOSE n \in 1 .. 7 : name \in Arity[n]) - 1
  ELSE -1

(* The bits a mask lookup returns, and the entry a buffer lookup returns as   *)
(* the set of the one slot its buf_idx names (empty for NULL).                *)
MaskOf(table, name) == IF name \in DOMAIN table THEN table[name] ELSE {}

BufOf(table, name) ==
  IF name \in DOMAIN table THEN {table[name][1]} ELSE {}
==============================================================================
