# mini-strace in TLA+

A model of mini-strace: the wait loop that follows the traced processes, the
tables it keeps, the way a system call becomes a line of output, the reading and
decoding of arguments in the tracee's memory, and the command line. TLC checks
the modules on small instances; TLAPS proves every safety property of the
passing runs for every size. Line numbers refer to `src/mini_strace.c` unless another file is
named; `PROJECT.json` maps each definition to its lines.

## The system

| part | state | operations | hard behaviours |
|---|---|---|---|
| wait loop, `run_tracer` (258-999) | `active_count`, `call_count`, the toggle and the saved fields of each tracee | one handler per kind of stop | stops of several tracees in any order; a tracee killed between `waitpid` and the request on it; fork event and first stop crossing |
| tracee table (100-160) | array of 64 slots | `find_tracee`, `add_tracee`, `remove_tracee` | a full table; stale contents of freed slots; the zeroed index fields |
| summary table (168-233, 962-983) | 256 rows | look up or add, accumulate, sort and print | a full table; calls of several tracees overlapping; the in-place sort |
| routing tables (`arg_routing.c`) | constant | lookups by name | an entry in the wrong slot; a missing arity |
| dispatch (383-992) | the fourteen `pending_*` fields | entry-stop, exit-stop, `print_call` | two chains and two conditions that must agree |
| reading memory (`child_mem.c`) | `max_str_len` | string, buffer, argv, raw | whole-word peeks, unmapped pages, escapes that fill the buffer |
| integer decoders (`decoders.c`) | `remaining`, `oi` | walk a table, print the rest in hex | composite flags, unknown bits, sign extension, a full buffer |
| list and structure decoders (`decoders.c`) | `oi`, counts | one entry a turn; copy, then print | caps, dots, partly filled iovecs, copies cut by an unmapped page |
| filter (`trace_filter.c`) | 16 tokens | parse, ask | several `-e` |
| command line, `main` (1001-1171) | the options | one branch per option | operands and the program's own words |
| registers (`arch.h`) | none | one layout per architecture | not modelled |

`main` sets the options and calls `run_tracer`. At every syscall-stop
`run_tracer` finds the tracee in the table, looks its call up in the routing
tables, and prints the call at once or saves the arguments until the exit-stop;
the decoders read strings and buffers from the tracee. Under `-c` the exit-stop
feeds the summary table instead, which is printed when the loop ends.

## Modules

* `TraceeEntry`: a `tracee_state`. The `pending_*` fields are abstracted to the
  set of those that are set; `memset` to 0 sets every index field.
* `TraceeMap`: what the table promises, a bounded map from pids to entries.
* `TraceeStore`: that map as a specification. `last` shows each operation and
  its result, so that an operation that has no effect is not a stutter.
* `TraceeTable`: the slot array; implements `TraceeStore` (`ImplementsMap`).
* `Tracer`: `run_tracer` composed with the traced processes. The actions named
  `K...` and `Resume` are the kernel's side and external to the repository:
  entry and return of a call, fork, signal, first stop, death at any point.
  `Wait` and the handlers (`TraceeGone`, `ForkEvent`, `SignalStop`,
  `SyscallStopSkipped`, `EntryStop`, `ExitStop`) are separate steps, so that a
  kill can fall in between; a request on a killed tracee fails. The exit on
  ECHILD (282-283) is not an action here: it is never taken, because the count
  has ended the loop by the last death (`WaitsForSomeone`).
* `TracerExec`: `Tracer` with thread groups. A thread that calls `execve` gets
  the leader's pid, the other threads die, and its own pid is never reported
  dead (`KExec`, external, from ptrace(2)). Here the ECHILD exit is an action.
* `TraceLog`: what a trace promises its reader; `Tracer` implements it
  (`TraceKeepsPromise`). A call is opened and then closed, or shown whole, never
  both.
* `Summary`: the `-c` table and the sort, one comparison or swap a step.
* `SummaryTracer`: `Tracer` and `Summary` composed, for `-c`.
* `ArgTables`: the tables of `arg_routing.c`, entry by entry.
* `ArgRouting`: entry-stop and exit-stop of one tracee over those tables. A
  decoder is its name, a line the decoder chosen for each slot. That the saved
  name is the call's own is `Tracer`'s `SavedStateIsOwn`.
* `ChildMem`: `read_child_string` and `read_child_buffer`. A byte is known by
  how it is written: as itself, with a backslash, as `\xNN`, or nul; positions
  and lengths are exact.
* `FlagTables`: the tables of named values in `decoders.c`, in their order. A
  value is the set of its bits, as the kernel headers define it on x86-64.
* `ValueDecoders`: the 46 integer decoders as records: which table, a walk over
  bits or a lookup, what is printed for 0, which bits are handled before and
  after the table, which bits are compared. A record has one text for each of
  the alternatives of a field (the longest access mode, the longest signal), and
  the longest form of a number that is not in hex (the `_IOC(...)` of an ioctl).
* `FlagWalk`: the code these decoders share, in steps: the text for 0, the
  leading text, one table entry, the flags split off, the hex remainder. `out` is
  the code's `oi`, which counts what `snprintf` reports and not what fits.
* `ListDecoders`: `read_child_argv`, `format_iovec_array`,
  `format_getdents_buf`, `format_epoll_events_buf`, `format_pollfds_buf` and
  `format_fdset_buf`, one entry a step. An entry is the number that matters (a
  length, a descriptor) and a width.
* `StructDecoders`: `read_child_raw` and the decoders that print one structure.
  A structure is its bytes: how many are asked for, and how many the text
  depends on given how many were read.
* `ControlData`: `format_cmsg`, one message or descriptor a step. What a header
  holds is anything of a set, since it is whatever was read; a text is its width.
  `CMSG_FIRSTHDR` and `CMSG_NXTHDR` are the C library's and external: a header is
  followed by another if both lie in the bytes copied.
* `MCDecoders`: the five decoder modules side by side, for every input of a set.
* `CommandLine`: `main` and the filter. A word's number or filter set is given
  by a constant instead of parsed; the operand of `-p` is cut to the width of a
  `pid_t` (`AsPid`, with `PidHalf` for 2^31).
* `MCParts`: `TraceeTable`, `Summary` and `CommandLine` side by side. They do not
  interact; one run checks each by itself.
* `MC...`: constants for TLC. `...Proofs`, `TracerTheorems`: theorems.

A definition commented as a mutant (`LoopOverLate`, `MatchingStale`, ...) is a
plausible mistake in the definition that follows it. No specification uses it;
put in place of that definition, it makes a property fail, which shows that the
property depends on that code.

## Runs

Distinct states are given for the passing runs.

| run | instance | what it shows |
|---|---|---|
| `tracer` (190,128) | 2 processes, 3 calls, 1 signal; a call shown at once, two deferred, one filtered | the toggle agrees with the kernel, saved fields belong to the call, the count and the total are right, only SIGTRAP is swallowed, `waitpid` always has someone to wait for, the trace keeps `TraceLog`, the loop ends |
| `tracer_exec` (756,209) | 3 tracees in one or more thread groups, 3 calls, 1 signal | after a threaded `execve` the count is too high by the pids that vanished and never too low, the toggles of other processes stay right, and the loop ends by ECHILD |
| `parts` (795,624) | a table of 3 pids and 2 slots; or 4 names, 3 rows, 4 calls of 0-1 ticks; or a command line of up to 5 words with 3 tokens | the array is the map; rows are exact, names dropped only when full, and sorted; program, filter and limit are those asked for |
| `summary_tracer` (63,059) | 2 processes, 3 calls | calls accounted to their own name; the table is printed |
| `arg_routing` (2,092) | every routed name, three return values | each claimed argument gets its decoder, one line a call, siblings and arities right, the marked descriptors resolved, outputs shown if written and, with the exceptions of `ShownUnwritten`, only then |
| `decoders` (564,198) | strings and buffers of up to 5 bytes (word 2, buffer 10); every integer decoder with one or two entries, nearly all bits, and unknown bits; lists up to one or two past the cap; structures mapped up to every byte near their end; up to four ancillary messages | only the argument is shown, all of it that can be, quoted and terminated; cuts are marked; names and hex stand for exactly the bits; lists show the first entries and their dots mean more; no field comes from bytes that were not read; every decoder returns |

Six runs end in a violation, each of a sentence the repository states:

* `tracer_outrun`: "all tracees exited" (303) is printed with a process alive.
  Only a fork event raises `active_count`, and a child or parent killed before
  the event is handled brings it to zero.
* `tracer_full`: "stop tracking new ones" (153). A process refused by a full
  table is adopted, uncounted, at a later stop when a slot is free.
* `tracer_trap`: "redeliver it so it isn't silently eaten" (343). A genuine
  SIGTRAP is not redelivered.
* `child_mem_cut`: "shown with a trailing `...`" (`README.md` 209). Bytes that
  escapes push out of the output buffer are dropped without dots.
* `arg_routing_dirfd`: "\*at() syscalls' dirfd is included too" (`arg_routing.c`
  68, on `fd_arg_table`). Seven calls are in `dirfd_arg_table` only (`statx`,
  `openat2`, `mknodat`, `fchmodat2`, `utimensat`, `execveat`,
  `name_to_handle_at`), and `-y` does not resolve theirs.
* `control_data`: "the `oi < out_size` guard every other decoder in the file has"
  (`DESIGN.md` 1406). In `format_cmsg` (`decoders.c` 891-895) the text before a
  level may use up the buffer, and the level is printed without another test. The
  run has the sizes of the code: 512 bytes of control data, 1024 characters.

### Bounds

Two processes are a parent and a child, enough for a fork event to cross a first
stop or a death; a third lets children cross each other. Three calls give a
process a call before and after the one in question, and leave one for another
process. The table is as large as the set of processes, except in `tracer_full`
and `parts`. The sizes in `ChildMem` keep the relations of the code: the
limits lie below, at and above a word and at the buffer size, and two `\xNN`
escapes fill the buffer. The tables, masks, buffers and structure sizes of the
integer and structure decoders are those of the code; short buffers of 1, 10, 25
and 60 characters are added to cut texts at every kind of piece. Lists are capped
at 2 entries instead of 8 or 32, directory bytes at 10 and descriptors at 4; as
in the code, the directory bytes copied (4096) exceed what the entries shown can
take. Ancillary data has 64 bytes and 160 characters in `decoders`, enough for a
list that fits, one that is cut in the middle of a message and one that is cut
between two; its numbers have 3 or 10 digits. Half the range of a pid is 5, so that an
operand lies in each half. Three filter tokens are exceeded by two `-e`
options with two tokens each. Pids are not reused.

### Fairness

`run_tracer` does not block between two `waitpid` calls, so its steps are weakly
fair. A traced process that can run takes a step in the end, and traced programs
are finite (`MaxCalls`, `MaxSignals`): for programs that do not end, neither does
the tracer. The decoders are sequential code under weak fairness; their ptrace
calls return. `ArgRouting`, `Summary` and `CommandLine` have no liveness property
and no fairness; that `print_summary` ends is part of `summary_tracer`.

## Proofs

The theorems hold for every number of processes, calls, signals, table rows and
list entries, for every filter, word size and buffer size. They rest on the named
`ASSUME`s, which TLC evaluates on the instances of the runs. Most say that
constants have their types. The ones that carry weight:

* `RoomForAll`, a hypothesis of every theorem about the wait loop: the processes
  fit the table. `tracer_full` shows what happens otherwise.
* `ChildMemAssumption`, `ListAssumption`, `WholeWordsAssumption`: output buffers
  of more than six characters, and a window of whole words (the code's has 1024
  bytes of 8).
* `FlagWalkAssumption`: the integer decoders have the form `DecoderOK`.
  `TableOrderAssumption`: a table lists an entry before those it contains. TLC
  evaluates both for the 46 decoders of the code.
* `BuffersAssumption`: all names of a table, its separators and the longest
  number, or the longest name of a lookup with the flags split off, are shorter
  than the buffer. It is about widths and sizes alone. TLC evaluates it for every
  decoder and the buffer its callers have, the `msg_flags` of a message header
  excepted (see the notes below).
* `RoutingAssumption`: rules for the rows of one system call. No slot has two
  owners (`OneOwner`); the chain that the call takes has a branch for each of its
  own arguments (`OnPath`); what a decoder expects to its left is there
  (`LeftOfIt`); a length belongs to no decoder (`PlainLengths`); a descriptor to
  none but `format_dirfd` (`OnlyDirfds`); nothing lies beyond the arity
  (`WithinArity`). TLC evaluates them for every routed name of the code. They
  speak of rows only; what the two stops make of the rows is proved.
* `WellFormedAssumption`: what the kernel leaves in the tracee. An array has the
  declared length, `getdents` returns whole entries, a set of descriptors lists
  them in order. The entries shown take less than the directory bytes copied: 8
  entries of at most 280 bytes against 4096.

### The wait loop

`TracerProofs` has the inductive invariant `IInv`, in two parts. `OrderInv` is
what the loop and the kernel agree on whoever is traced: a stop and a life agree
(`KernelInv`), what `waitpid` returned is still what the tracee is stopped for
unless it was killed (`CurInv`), the loop runs with a positive count (`LoopInv`),
an entry not in use is outside a call (`TableInv`). `PidInv` is about one tracee:
its toggle and its saved fields. The split is needed for `execve`, below.

* `TypeCorrect`, `ToggleStaysInSync`, `SavedStateStaysOwn` (`TracerProofs`)
  follow from `IInv`.
* `TracerImplementsTraceLog` (`TracerTheorems`). `LineInv`: a live tracee's line
  is open exactly inside a call shown at its entry-stop. Each step is then a step
  of `TraceLog` or a stutter.
* `CountIsSound`, `AlwaysWaitsForSomeone` (`TracerTheorems`). `Surplus` is the
  count less the fork events handled plus the deaths handled, in any order.
  `CountLaw` says it is zero, and `EventInv` that an event is handled once. When
  all events are handled the count is therefore the number of unreaped tracees;
  while it is positive some announced process has not died.
* `TotalStaysExact`, `OnlyTrapIsEaten` (`TracerTheorems`). `TotalLaw`: the calls
  made are those counted, those killed before they could be, and one for each
  tracee at an entry-stop not handled yet. It needs the toggle: the loop counts
  at what it takes for an entry-stop. With no tracee left the last part is zero.
* `SummaryModeImplementsSummary`, `CallsAccountedToOwnName` (`TracerTheorems`).
  `SummaryTracer` is an implementation of `Summary`, so the results on the table
  alone carry over to it. A call goes to the right row because the saved name is
  the call's own (`IInv`).
* `ExecOvercountIsExact`, `ExecStaysInItsGroup` (`TracerExecProofs`). After a
  threaded `execve`, `IInv` fails for the group that called it. `ExecInv` keeps
  `OrderInv`, asks for `PidInv` only outside the groups whose leader was replaced,
  and replaces `CountLaw` by `ExecCountLaw`: the surplus is the number of tids
  that vanished. `GroupInv` says that a leader is reaped last and that no leader's
  tid vanishes.

### The tables and the report

* `OneEntryAlways`, `TableImplementsMap` (`TableProofs`), for every number of
  slots, full or not.
* `SummaryIsExact`, `OnlyFullTableDrops`, `SummaryIsSorted` (`TableProofs`).
  `SortInv` is the selection sort's loop invariant. `SortEnds`: every step of
  `print_summary` lowers `PrintStepsLeft`, which is quadratic in the rows.
* `EachCallPrintedOnce` (`ArgRoutingProofs`). `PrintedInv`: between its two stops a
  call has been printed, or waits for the exit-stop, or is not to be printed. The
  proof never looks into the routing tables, so it holds for any tables.
* `ClaimsAreHonoured`, `SiblingsMatch`, `DecodedIsShown`,
  `DescriptorsAreResolved`, `OnlyWrittenIsDecoded` (`ArgRoutingProofs`), for every
  set of tables that keeps the rules of `RoutingAssumption` and every return
  value. `LineInv`: between the stops the saved fields are what the lookups found,
  and each slot of a printed line is `Rendered`: by the owner of the slot, by the
  decoder of the output if the call left one there, or as a plain number. A chain
  of `if`s takes its first branch that has the slot, so it takes some branch that
  has it (`DecodeIs`); with one owner to a slot it does not matter which, and with
  all of the call's own arguments in the chain taken (`OnPath`) it does not matter
  which stop prints the line. `OnlyWrittenIsDecoded` goes both ways: an output
  that the kernel wrote (`Writes`, external) is decoded; one that it did not write
  is a plain pointer, unless `ShownUnwritten` lists it. That list is part of the
  statement and not of the proof: it says where the code shows such memory.

### The decoders

* `TextsReadBack`, `PiecesStayInside`, `WidestIsNamed` (`DecoderProofs`).
  `FlagInv`: while a table is walked, the bits of the names printed and the bits
  that remain split what the table has to account for (`Accounted`), and a flag
  that was split off is printed unless the buffer is full (`TrailedUpTo`). That
  the text stands for the argument holds only at the end; these two make it
  inductive. `WideInv` adds that every entry the walk has passed is named or had
  lost a bit.
* `LongestTextFits` (`DecoderProofs`). `FitInv`: what a walk has printed is no
  longer than the names it took (`Printed`, `Trailing`), each with a separator. As
  no entry is taken twice, that is at most the whole table. The characters are
  counted as a set (`Characters`), so that the bound needs no induction over
  tables.
* `OnlyTheArgumentIsShown`, `TextIsQuoted`, `CutsAreMarked` (`DecoderProofs`).
  `EscapeInv`: while bytes are escaped, two characters are left for quote and
  terminator, and a text not marked as cut ends where the argument ends. The read
  loops establish it (`ReadInv`): what lies before the first nul of the bytes read
  is a prefix of the string, all of it if that nul is there.
* `AllThatCanBeIsShown` (`DecoderProofs`), the other direction. `CoverInv`: a read
  loop stops on a word boundary, and only when it has what the limit and the
  mapping allow (`Reached`). Multiples of the word size are handled by a few
  lemmas on division.
* `StructuresPrintWhatWasRead` (`DecoderProofs`), for every call of a decoder in
  `StructureDecoders`. `StructInv`: `read_child_raw` stays within the structure
  and the mapped words.
* `ListsShowThePrefix`, `StringsDropOnlyWhenFull`, `DotsTellTheTruth`
  (`ListProofs`). `ListInv` has one part per kind of list, because they keep
  different counters: the bytes left of an iovec array, the offset in a directory
  buffer, the descriptors counted. Each part relates the counter to the entries
  printed.
* `EveryWalkEnds`, `EveryTextEnds`, `EveryStructureEnds` (`DecoderProofs`),
  `EveryListEnds` (`ListProofs`): a measure of the steps left is a natural number
  within a bound that does not depend on the tracee, and every step lowers it.
  The bounds are the lengths of the tables, the size of the buffer, the size of
  the structure, and the caps. Together with the weak fairness that
  `DecodersReturn` assumes, this is why that property holds for every size.

### The command line

* `ProgramIsFound`, `FilterIsTheUnion`, `SizeFitsBuffer` (`CommandLineProofs`).
  `ProgramInv`: seen from the word the loop has reached, the program is where it
  was from the first word. `FilterInv`: the filter holds the tokens asked for, in
  order, up to its limit.

### Recursive functions

Where the program begins (`ProgramFrom`) and the sums of entries (`SumOf`) are
recursive functions. That their defining equations have a solution is proved from
the least counterexample (`InductionOnSet`, with `WFMin` of the library), since
the library's induction theorems take an operator as parameter, which the
installed provers cannot instantiate.

### Only model-checked

* Liveness (`Terminates`, `TablePrinted`, `DecodersReturn`): the prover reaches
  neither fairness nor `ENABLED`. Of `DecodersReturn`, and of the sort within
  `TablePrinted`, the part that is about safety is proved: the steps are bounded.
  That the wait loop ends depends on the traced programs, and has no bound of its
  own.
* That the tables of the code keep the rules of `RoutingAssumption` and
  `BuffersAssumption`: TLC evaluates the assumptions on them.
* That `format_cmsg` returns (`DecodersReturn`): `ControlData` has no theorem.
* The six violations, by their nature.

## Notes on the code

Facts that the models made visible and that no property contradicts:

* `IPPROTO_ICMP` is 1, like `SOL_SOCKET`, which comes first in
  `sockopt_level_table`: its entry is never used.
* An `argv` of exactly 32 strings ends in dots, as the comment at
  `child_mem.c` 121 says ("may continue").
* `msg_flags` inside a message header are printed into 128 bytes; with every
  flag set the text is cut. For `sendmsg` the field is whatever the caller left
  there. `EveryTextFits` leaves this buffer out; `WritesInside` does not: only the
  end of the text is lost.
* A `wait4` with `WNOHANG` that found no child returns 0, passes `ret >= 0` (910,
  922) and shows a status and a rusage that the kernel did not write. A timespec is
  decoded whatever the call returned (920): the remaining time of a sleep,
  "meaningful only if the sleep was interrupted" (`DESIGN.md` 1183), and also the
  result of a `clock_gettime` that failed. `ShownUnwritten` lists both.
* The first ancillary message's `cmsg_len` is not compared with the bytes copied
  (`decoders.c` 901, 913), so what is printed of it may not have been read.
* The operand of `-p` is checked as a `long` and then cut to 32 bits (1079).
* The `exit_signal` of `clone3` is cut to an `int` before it is looked up
  (`decoders.c` 668). The kernel accepts eight bits, and these are modelled.
* `format_fdset_buf` does not look at descriptors from 1024 on, nor mark them with
  dots; `DotsMeanMore` speaks of those below.
* `read_child_argv` leaves a string that does not fit out and goes on; nothing
  marks the gap. `DropsOnlyWhenFull` bounds when that happens.
* Open flags with access mode 3 are shown as `O_RDONLY`; clone flags that are all
  unknown, without an exit signal, as 0. These are the exceptions in `ReadsBack`.
* After a threaded `execve` the leader's toggle may be inverted for the rest of
  its life, and the loop ends without the line "all tracees exited".

## Not modelled

* What `format_cmsg` writes once it is past its buffer, and the descriptors and
  credentials it prints: `ControlData` keeps widths only.
* The pieces that `format_msghdr` and `format_sigaction` put their text together
  from, `format_sigset_value`, octal modes, file-type names, `readlink` under
  `-y`: straight-line text. What these functions read is in `StructDecoders`.
* `execve` by a thread at the moment `run_tracer` handles a fork event of its
  leader: `PTRACE_GETEVENTMSG` would then answer for another thread.
* The `-T` clock, pid reuse, register layouts (`arch.h`) and the text of status
  lines. Files and ptrace requests are steps that succeed or fail.
* `ArgRouting` joined to `Tracer`: the two share the name of the call, and
  `SavedStateIsOwn` is what makes it safe to look at one tracee alone.
