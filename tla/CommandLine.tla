---------------------------- MODULE CommandLine ----------------------------
(* main (mini_strace.c): the option loop, and what is started after it; with  *)
(* the filter of trace_filter.c that -e fills in.  A word of argv is a string *)
(* whose meaning the constants give: NumberOf for strtol, SetOf for the       *)
(* comma-separated tokens after "trace=".                                     *)
EXTENDS Integers, Sequences

CONSTANTS
  Words,        \* the words a command line is made of
  MaxWords,     \* bound on their number
  NumberOf,     \* word |-> the number it spells, for the words that are numbers
  SetOf,        \* word |-> its filter tokens, for the words "trace=..."
  FilterNames,  \* names asked of syscall_allowed
  BufLen,       \* STR_ARG_BUF_LEN
  DefaultLen,   \* the initial max_str_len
  MaxTokens,    \* MAX_FILTER_TOKENS
  PidHalf       \* 2^31: a pid_t holds -2^31 .. 2^31 - 1, strtol's long more

ASSUME CommandLineAssumption ==
  /\ BufLen \in Nat /\ DefaultLen \in 1 .. BufLen
  /\ MaxTokens \in Nat \ {0} /\ MaxWords \in Nat /\ PidHalf \in Nat \ {0}
  /\ DOMAIN NumberOf \subseteq Words /\ NumberOf \in [DOMAIN NumberOf -> Int]
  /\ DOMAIN SetOf \subseteq Words /\ SetOf \in [DOMAIN SetOf -> Seq(STRING)]

Flags == {"-f", "-y", "-T", "-c"}
WithOperand == {"-o", "-s", "-p", "-e"}

VARIABLES
  argv, argi, stage,
  flags, output_file, max_str_len, attach_pid,   \* what the options set
  filter_tokens,                                 \* trace_filter.c's state
  asked                                          \* every token -e was given

options == <<flags, output_file, max_str_len, attach_pid, filter_tokens, asked>>
vars == <<argv, argi, stage, options>>

MInit ==
  /\ argv \in UNION {[1 .. n -> Words] : n \in 0 .. MaxWords}
  /\ argi = 1 /\ stage = "options" /\ flags = {} /\ output_file = FALSE
  /\ max_str_len = DefaultLen /\ attach_pid = -1
  /\ filter_tokens = <<>> /\ asked = <<>>

------------------------------------------------------------------------------
(* trace_filter.c.  One or two names stand for each category's list.          *)
category_lists ==
  [file |-> {"openat", "read"}, network |-> {"connect"}, process |-> {"execve"}]

Matches(tok, name) ==
  \/ tok \in DOMAIN category_lists /\ name \in category_lists[tok]
  \/ tok = name

(* Each -e starting over, as "the filter last set up" would have it.          *)
ParseAfresh(toks) ==
  IF Len(toks) <= MaxTokens THEN toks ELSE SubSeq(toks, 1, MaxTokens)

(* Tokens are appended while there is room for them.                          *)
parse_trace_filter(toks) ==
  LET all == filter_tokens \o toks
  IN  IF Len(all) <= MaxTokens THEN all ELSE SubSeq(all, 1, MaxTokens)

syscall_allowed(name) ==
  filter_tokens = <<>> \/ \E k \in DOMAIN filter_tokens :
                            Matches(filter_tokens[k], name)

------------------------------------------------------------------------------
(* One iteration of the option loop.                                          *)
AtOption(set) == stage = "options" /\ argi <= Len(argv) /\ argv[argi] \in set

Flag ==
  /\ AtOption(Flags)
  /\ flags' = flags \cup {argv[argi]} /\ argi' = argi + 1
  /\ UNCHANGED <<argv, stage, output_file, max_str_len, attach_pid,
                 filter_tokens, asked>>

(* Every option with an operand fails when there is none, or when it is bad.  *)
Valid(opt, word) ==
  \/ opt = "-o"
  \/ opt \in {"-s", "-p"} /\ word \in DOMAIN NumberOf /\ NumberOf[word] >= 1
  \/ opt = "-e" /\ word \in DOMAIN SetOf

BadOperand ==
  /\ AtOption(WithOperand)
  /\ argi + 1 <= Len(argv) => ~Valid(argv[argi], argv[argi + 1])
  /\ stage' = "error"
  /\ UNCHANGED <<argv, argi, options>>

(* -s taken as it is, and -s cut to the size of the buffers.                  *)
SizeAsGiven(n) == n
SizeOf(n) == IF n < BufLen THEN n ELSE BufLen

(* (pid_t)pid, which wraps around: a number too large for a pid_t passes the  *)
(* test of -p, and the one that becomes -1 counts as no -p at all.            *)
AsPid(n) == ((n + PidHalf) % (2 * PidHalf)) - PidHalf

(* How far an option with an operand advances; the mutant leaves it unread.   *)
OptionOnly == 1
OptionAndOperand == 2

Operand ==
  /\ AtOption(WithOperand) /\ argi + 1 <= Len(argv)
  /\ LET opt == argv[argi]  word == argv[argi + 1]
     IN  /\ Valid(opt, word)
         /\ output_file' = (output_file \/ opt = "-o")
         /\ max_str_len' = IF opt = "-s" THEN SizeOf(NumberOf[word])
                                         ELSE max_str_len
         /\ attach_pid' = IF opt = "-p" THEN AsPid(NumberOf[word])
                                         ELSE attach_pid
         /\ filter_tokens' = IF opt = "-e" THEN parse_trace_filter(SetOf[word])
                                           ELSE filter_tokens
         /\ asked' = IF opt = "-e" THEN asked \o SetOf[word] ELSE asked
  /\ argi' = argi + OptionAndOperand
  /\ UNCHANGED <<argv, stage, flags>>

------------------------------------------------------------------------------
(* After the loop: open the output file, then attach, or print the usage, or  *)
(* fork.  fopen, PTRACE_ATTACH and fork may each fail.                        *)
Open ==
  /\ stage = "options" /\ ~AtOption(Flags \cup WithOperand)
  /\ stage' \in IF output_file THEN {"opened", "error"} ELSE {"opened"}
  /\ UNCHANGED <<argv, argi, options>>

Attach ==
  /\ stage = "opened" /\ attach_pid # -1
  /\ stage' \in {"attached", "error"}
  /\ UNCHANGED <<argv, argi, options>>

Usage ==
  /\ stage = "opened" /\ attach_pid = -1 /\ argi > Len(argv)
  /\ stage' = "usage"
  /\ UNCHANGED <<argv, argi, options>>

Fork ==
  /\ stage = "opened" /\ attach_pid = -1 /\ argi <= Len(argv)
  /\ stage' \in {"launched", "error"}
  /\ UNCHANGED <<argv, argi, options>>

Ended == stage \in {"attached", "launched", "usage", "error"}
MDone == Ended /\ UNCHANGED vars

Step == Flag \/ BadOperand \/ Operand \/ Open \/ Attach \/ Usage \/ Fork
MNext == Step \/ MDone

MSpec == MInit /\ [][MNext]_vars

------------------------------------------------------------------------------
(* Where the program starts, by the usage line, once the words before the     *)
(* k-th are read: after the leading flags and the leading options with their  *)
(* operands.                                                                  *)
ProgramFrom(words) ==
  LET from[k \in 1 .. Len(words) + 2] ==
        IF k > Len(words) THEN k
        ELSE CASE words[k] \in Flags       -> from[k + 1]
               [] words[k] \in WithOperand -> from[k + 2]
               [] OTHER                    -> k
  IN  from

(* The program that is launched begins at the first word that is neither an   *)
(* option of mini-strace nor the operand of one: its own options are left to  *)
(* it, and no operand is mistaken for it.                                     *)
ProgramIsWhatFollows ==
  stage \in {"usage", "launched"} => argi = ProgramFrom(argv)[1]

(* The filter that tracing starts with lets through a call exactly when some  *)
(* token of some -e names it or its category, whatever the number of -e's;    *)
(* past MAX_FILTER_TOKENS it may let through fewer calls but never others.    *)
FilterMeansUnion ==
  stage \in {"attached", "launched"} =>
    \A n \in FilterNames :
      LET meant == asked = <<>> \/ \E k \in DOMAIN asked : Matches(asked[k], n)
      IN  /\ syscall_allowed(n) => meant
          /\ Len(asked) <= MaxTokens => (meant => syscall_allowed(n))

(* However -s is given, and however often, the string limit that tracing      *)
(* starts with is positive and within the fixed buffers that ChildMem's       *)
(* readers use (its assumption on StrLens).                                   *)
SizeWithinBuffer ==
  stage \in {"attached", "launched"} => max_str_len \in 1 .. BufLen
==============================================================================
