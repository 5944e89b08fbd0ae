----------------------------- MODULE MCDecoders -----------------------------
(* One argument decoded by one of the functions of child_mem.c or decoders.c: *)
(* a string or buffer (ChildMem), an integer (FlagWalk), a list               *)
(* (ListDecoders), a structure (StructDecoders) or ancillary data             *)
(* (ControlData), for every input of a set.                                   *)
EXTENDS ChildMem, FlagWalk, ListDecoders, StructDecoders, ControlData,
        ValueDecoders

------------------------------------------------------------------------------
(* Integers: no bit, one, one or two entries, all and all but one, each with  *)
(* and without the lowest and the highest bit that no entry has; for a lookup *)
(* every entry with every flag, also sign-extended.                           *)
Known(d) == d.first.bits \cup UNION {d.table[j].bits : j \in DOMAIN d.table}
            \cup UNION {d.last[j].bits : j \in DOMAIN d.last}

Argument(f) == CASE f = "poll" -> 0 .. 15
                  [] f \in {"epoll", "msghdr"} -> IntBits
                  [] f = "clone3" -> 0 .. 71
                  [] OTHER -> Register

Outermost(S) == {b \in S : (\A c \in S : b <= c) \/ (\A c \in S : b >= c)}
Unknown(f) == Outermost(Argument(f) \ Known(ValueDecoder[f]))

Entries(d) == {d.table[j].bits : j \in DOMAIN d.table} \cup {{}}

WalkValues(f) ==
  LET d == ValueDecoder[f]
      all == Known(d)
      few == {{b} : b \in all} \cup {a \cup b : a, b \in Entries(d)}
      most == {all} \cup {all \ {b} : b \in all}
  IN  {v \cup u : v \in few \cup most, u \in SUBSET Unknown(f)}

LookupValues(f) ==
  LET d == ValueDecoder[f]
      flags == UNION {d.last[j].bits : j \in DOMAIN d.last}
  IN  {v \cup w \cup u : v \in Entries(d), w \in SUBSET flags,
                         u \in {{}, Unknown(f), 32 .. 63}}

Values(f) ==
  IF ValueDecoder[f].exact THEN LookupValues(f) ELSE WalkValues(f)

MCCall ==
  UNION {[fn : {f}, value : Values(f), size : {Buffer(f)}]
           \cup [fn : {f}, value : {Argument(f)}, size : {1, 10, 25, 60}] :
         f \in DOMAIN ValueDecoder}

(* The field msg_flags of a message header is left out: sendmsg's is whatever *)
(* the caller left there, and with every flag set its text is cut.            *)
MCBuffers == [f \in DOMAIN ValueDecoder \ {"msghdr"} |-> Buffer(f)]

------------------------------------------------------------------------------
(* Lists of up to one entry more than are shown.                              *)
Seqs(S, m) == UNION {[1 .. j -> S] : j \in 0 .. m}

Lists(f, e, counts, totals, maps) ==
  [fn : {f}, null : {FALSE, e = <<>> /\ f \notin {"getdents", "epoll"}},
   entries : {e}, count : counts, total : totals, mapped : maps, width : {1, 5}]

MCList ==
  UNION ({Lists("iovec", e, {Len(e)}, -1 .. Total(e) + 1, 0 .. Len(e)) :
            e \in Seqs(0 .. 2, Cap + 1)}
   \cup {Lists(f, e, {Len(e)}, {-1}, 0 .. Len(e)) :
            f \in {"epoll", "pollfds"}, e \in Seqs({0}, Cap + 1)}
   \cup {Lists("epoll", <<>>, {-1, 0}, {-1}, {0})}
   \cup {Lists("getdents", e, {Total(e)}, {-1}, 0 .. Total(e)) :
            e \in Seqs({Header, Header + 1, Header + 2}, Cap + 2)}
   \cup {Lists("getdents", <<>>, {-1, 0}, {-1}, {0})}
   \cup {Lists("fdset", e, 0 .. MaxBits + 1, {-1}, {0, 2, MaxBits + 1}) :
            e \in {s \in Seqs(0 .. MaxBits + 1, 4) :
                     \A m \in DOMAIN s : m > 1 => s[m - 1] < s[m]}}
   \cup {Lists("argv", e, {0}, {-1}, 0 .. Len(e)) :
            e \in Seqs({2, 6, 9, OutSize - 1}, Cap + 1)})

------------------------------------------------------------------------------
(* Structures of every decoder, mapped up to every byte around their end.     *)
Structures ==
  {format_wait_status, format_msghdr, format_stat_buf, format_sigaction,
   format_timespec, format_rusage, format_epoll_event, format_statx_buf,
   format_rlimit, clone_args}
   \cup {format_sockaddr(f, l) : f \in {"AF_INET", "AF_INET6", "AF_UNIX", "other"},
                                 l \in {0, 2, 7, 8, 16, 23, 24, 28, 110, 128, 200}}

MCStructCall ==
  UNION {[of : {s}, null : BOOLEAN, mapped : {0, 1, 7, 8, 15, 16} \cup
            (IF s.want < 8 THEN {} ELSE s.want - 8 .. s.want + 8)] : s \in Structures}

------------------------------------------------------------------------------
(* One of the five runs; the others stay as they are.                         *)
Idle == [fn |-> "none", size |-> 0, mapped |-> 0, of |-> [want |-> 0]]

NoText ==
  /\ fn = "none" /\ addr = 0 /\ mem = <<>> /\ max_str_len = 1 /\ arg_len = 0
  /\ pc = "idle" /\ got = 0 /\ len = 0 /\ truncated = FALSE /\ i = 0 /\ oi = 0
  /\ closed = FALSE /\ dots = FALSE /\ result = "none"
NoFlags ==
  /\ call = Idle /\ step = "idle" /\ k = 1 /\ remaining = {} /\ named = {}
  /\ trailed = {} /\ led = FALSE /\ hexed = FALSE /\ zeroed = FALSE
  /\ out = 0 /\ written = 0
NoList ==
  /\ list = Idle /\ at = "idle" /\ n = 0 /\ shown = <<>> /\ left = 0 /\ pos = 0
  /\ more = FALSE /\ size = 0 /\ marked = FALSE
NoStruct == arg = Idle /\ phase = "idle" /\ have = 0 /\ used = 0
NoControl ==
  /\ control = 0 /\ doing = "idle" /\ offset = 0 /\ header = NoHeader
  /\ fds = 0 /\ filled = 0 /\ began = 0

DInit ==
  \/ CInit /\ NoFlags /\ NoList /\ NoStruct /\ NoControl
  \/ NoText /\ FlagInit /\ NoList /\ NoStruct /\ NoControl
  \/ NoText /\ NoFlags /\ ListInit /\ NoStruct /\ NoControl
  \/ NoText /\ NoFlags /\ NoList /\ StructInit /\ NoControl
  \/ NoText /\ NoFlags /\ NoList /\ NoStruct /\ ControlInit

dvars == <<vars, fvars, lvars, svars, cvars>>

Decode ==
  \/ /\ Start \/ Read \/ Escape \/ Close
     /\ UNCHANGED <<fvars, lvars, svars, cvars>>
  \/ FlagNext /\ UNCHANGED <<vars, lvars, svars, cvars>>
  \/ ListNext /\ UNCHANGED <<vars, fvars, svars, cvars>>
  \/ StructNext /\ UNCHANGED <<vars, fvars, lvars, cvars>>
  \/ ControlNext /\ UNCHANGED <<vars, fvars, lvars, svars>>

Returned ==
  \/ pc = "done" \/ step = "done" \/ at \in {"done", "plain"}
  \/ phase = "printed" \/ doing = "returned"

DNext == Decode \/ (Returned /\ UNCHANGED dvars)

(* Sequential code runs to its end: weak fairness of its steps.               *)
DSpec == DInit /\ [][DNext]_dvars /\ WF_dvars(Decode)

(* Every decoder returns, also on memory that becomes unreadable midway and   *)
(* on a list or an output buffer that is full.                                *)
DecodersReturn == <>Returned
==============================================================================
