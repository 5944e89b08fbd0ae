----------------------------- MODULE ChildMem -----------------------------
(* read_child_string and read_child_buffer (child_mem.c): one string or       *)
(* buffer argument fetched from the tracee word by word with PTRACE_PEEKDATA, *)
(* cut at max_str_len bytes, and escaped into an output buffer of fixed size. *)
(* A byte is abstracted to how it is written: "nul", or one of the classes of *)
(* Width.  mem is what is mapped from the address on; a peek that would touch *)
(* a byte past its end fails.                                                 *)
EXTENDS Integers, Sequences

CONSTANTS
  Word,      \* sizeof(long)
  BufLen,    \* STR_ARG_BUF_LEN, of the raw window and of the output buffer
  MaxMem,    \* bound on the mapped bytes
  StrLens,   \* values of max_str_len, set by -s: at most BufLen
  BufLens    \* values of the length argument of a buffer

ASSUME ChildMemAssumption ==
  /\ Word \in Nat \ {0} /\ BufLen \in Nat /\ BufLen > 6 /\ MaxMem \in Nat
  /\ StrLens \subseteq 1 .. BufLen /\ BufLens \subseteq Nat

(* The window holds whole words: 1024 bytes of 8.                             *)
ASSUME WholeWordsAssumption == BufLen % Word = 0

(* How many characters a byte takes: itself, a backslash and a letter (quote, *)
(* backslash and newline), or \xNN (a nul in a buffer included).              *)
Width == [plain |-> 1, quoted |-> 2, other |-> 4, nul |-> 4]

VARIABLES
  fn, addr, mem, max_str_len, arg_len,  \* the call and what it will find
  pc, got, len, truncated,              \* read loop: bytes read, bytes to show
  i, oi, closed, dots, result           \* escape loop: bytes and characters out

input == <<fn, addr, mem, max_str_len, arg_len>>
vars == <<input, pc, got, len, truncated, i, oi, closed, dots, result>>

CInit ==
  /\ fn \in {"read_child_string", "read_child_buffer"} /\ addr \in {0, 1}
  /\ mem \in UNION {[1 .. n -> DOMAIN Width] : n \in 0 .. MaxMem}
  /\ max_str_len \in StrLens /\ arg_len \in BufLens
  /\ addr = 0 => mem = <<>>
  /\ fn = "read_child_string" => arg_len = 0
  /\ pc = "start" /\ got = 0 /\ len = 0 /\ truncated = FALSE
  /\ i = 0 /\ oi = 0 /\ closed = FALSE /\ dots = FALSE /\ result = "none"

Min(a, b) == IF a < b THEN a ELSE b

Start ==
  /\ pc = "start"
  /\ pc' = IF addr = 0 THEN "done" ELSE fn
  /\ result' = IF addr = 0 THEN "NULL" ELSE result
  /\ UNCHANGED <<input, got, len, truncated, i, oi, closed, dots>>

(* A peek of the word at got, external: all of its bytes must be mapped.      *)
Mapped == got + Word <= Len(mem)
HasNul == \E k \in got + 1 .. got + Word : mem[k] = "nul"

------------------------------------------------------------------------------
(* read_child_string's loop, its window rounded up to whole words or not.     *)
ReadCapPlain == Min(max_str_len, BufLen)
ReadCap == Min(((max_str_len + Word - 1) \div Word) * Word, BufLen)

(* The loop of the mutant retries a failed peek.                              *)
PeekStringRetrying ==
  /\ pc = "read_child_string"
  /\ LET reads == got + Word <= ReadCap
     IN  /\ got' = IF reads /\ Mapped THEN got + Word ELSE got
         /\ pc' = IF reads /\ (Mapped => ~HasNul) THEN pc ELSE "measure"
  /\ UNCHANGED <<input, len, truncated, i, oi, closed, dots, result>>

PeekString ==
  /\ pc = "read_child_string"
  /\ LET reads == got + Word <= ReadCap /\ Mapped
     IN  /\ got' = IF reads THEN got + Word ELSE got
         /\ pc' = IF reads /\ ~HasNul THEN pc ELSE "measure"
  /\ UNCHANGED <<input, len, truncated, i, oi, closed, dots, result>>

(* Bytes of the window before the first nul.                                  *)
Nuls(end) == {m \in 1 .. end : mem[m] = "nul"}
FirstOf(S) == CHOOSE a \in S : \A b \in S : a <= b
BeforeNul == IF Nuls(got) = {} THEN got ELSE FirstOf(Nuls(got)) - 1

(* The mutants' length: without the -s clamp, and without the mark for a      *)
(* string that fills the window.                                              *)
Unclamped(n) == [len |-> n, cut |-> n = got]
ClampedOnly(n) == [len |-> Min(n, max_str_len), cut |-> n > max_str_len]

(* The window may end before the string does; -s clamps what is shown.        *)
Clamped(n) ==
  [len |-> Min(n, max_str_len), cut |-> n = got \/ n > max_str_len]

MeasureString ==
  /\ pc = "measure" /\ fn = "read_child_string"
  /\ pc' = IF got = 0 THEN "done" ELSE "escape"
  /\ result' = IF got = 0 THEN "address" ELSE "text"
  /\ len' = Clamped(BeforeNul).len /\ truncated' = Clamped(BeforeNul).cut
  /\ oi' = IF got = 0 THEN 0 ELSE 1        \* the opening quote
  /\ UNCHANGED <<input, got, i, closed, dots>>

------------------------------------------------------------------------------
(* read_child_buffer's loop: the last word may be used in part, and is read   *)
(* whole all the same.                                                        *)
Want == Min(arg_len, Min(max_str_len, BufLen))

PeekBuffer ==
  /\ pc = "read_child_buffer"
  /\ LET reads == got < Want /\ Mapped
     IN  /\ got' = IF reads THEN got + Min(Want - got, Word) ELSE got
         /\ pc' = IF reads THEN pc ELSE "measure"
  /\ UNCHANGED <<input, len, truncated, i, oi, closed, dots, result>>

MeasureBuffer ==
  /\ pc = "measure" /\ fn = "read_child_buffer"
  /\ pc' = IF got = 0 THEN "done" ELSE "escape"
  /\ result' = IF got = 0 THEN "address" ELSE "text"
  /\ len' = got /\ truncated' = (arg_len > got)
  /\ oi' = IF got = 0 THEN 0 ELSE 1
  /\ UNCHANGED <<input, got, i, closed, dots>>

------------------------------------------------------------------------------
(* Room for the longest escape, the closing quote and the terminator; the     *)
(* mutant forgets that an escape takes four characters.                       *)
RoomForOne == oi + 2 < BufLen
Room == oi + 5 < BufLen

Escape ==
  /\ pc = "escape" /\ i < len /\ Room
  /\ oi' = oi + Width[mem[i + 1]] /\ i' = i + 1
  /\ UNCHANGED <<input, pc, got, len, truncated, closed, dots, result>>

(* The closing quote, the dots, and the terminator at oi or over the last     *)
(* character.                                                                 *)
Close ==
  /\ pc = "escape" /\ ~(i < len /\ Room)
  /\ pc' = "done"
  /\ closed' = (oi < BufLen)
  /\ LET q == IF oi < BufLen THEN oi + 1 ELSE oi
     IN  /\ dots' = (truncated /\ q + 3 < BufLen)
         /\ oi' = IF dots' THEN q + 3 ELSE q
  /\ UNCHANGED <<input, got, len, truncated, i, result>>

CDone == pc = "done" /\ UNCHANGED vars

Read == PeekString \/ MeasureString \/ PeekBuffer \/ MeasureBuffer
CNext == Start \/ Read \/ Escape \/ Close \/ CDone

(* Sequential code runs to its end: weak fairness of its steps.               *)
CSpec == CInit /\ [][CNext]_vars /\ WF_vars(Start \/ Read \/ Escape \/ Close)

------------------------------------------------------------------------------
(* What the tracee's argument really is: the bytes up to the nul or, for a    *)
(* buffer, as many as its length argument says.                               *)
RealLength ==
  CASE fn = "read_child_buffer" -> arg_len
    [] fn # "read_child_buffer" /\ Nuls(Len(mem)) # {} ->
         FirstOf(Nuls(Len(mem))) - 1
    [] OTHER -> MaxMem + 1

AsText == pc = "done" /\ result = "text"

(* The text shows bytes of the argument only, and at most max_str_len of      *)
(* them: never the bytes after a string's nul, nor the ones the window holds  *)
(* beyond -s because it is read in whole words.                               *)
ShowsOnlyTheArgument == AsText => i <= RealLength /\ i <= max_str_len

(* However many escapes the bytes need, the closing quote is written and      *)
(* there is room for the terminator after it: the quote is never overwritten. *)
QuotedAndTerminated == AsText => closed /\ oi < BufLen

(* Bytes left out are announced by "..." unless the output buffer is full:    *)
(* the window ending before the string, -s and a failed peek are all marked.  *)
UnmarkedCutsAreFull ==
  AsText /\ i < RealLength /\ ~dots => oi + 5 > BufLen

(* Every byte of the argument that lies in a word that can be peeked and      *)
(* within -s is shown, unless the output buffer is full: a limit that is not  *)
(* a multiple of the word size, or below it, loses none.                      *)
ShowsAllItCan ==
  pc = "done" =>
    LET peekable == (Len(mem) \div Word) * Word
    IN  \/ i >= Min(RealLength, Min(max_str_len, peekable))
        \/ oi + 5 > BufLen

(* Documentation: string and buffer arguments that are truncated are "shown   *)
(* with a trailing `...`".                                                    *)
TruncationIsShown == AsText /\ i < RealLength => dots
==============================================================================
