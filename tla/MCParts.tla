------------------------------ MODULE MCParts ------------------------------
(* The parts of mini-strace that no other process interleaves with, each by   *)
(* itself: the tracee table (TraceeTable), the -c table (Summary) and the     *)
(* command line with the filter (CommandLine).                                *)
EXTENDS TraceeTable, Summary, CommandLine

(* Words: a flag, the four options with an operand, a bad, a small and a large*)
(* number (which is -1 as a pid_t), and three filter sets; any word but an    *)
(* option may be a program, and the wrong kind of word is a bad operand.      *)
MCNumberOf == [w \in {"0", "3", "9"} |->
                 CASE w = "0" -> 0 [] w = "3" -> 3 [] w = "9" -> 9]
MCSetOf == [w \in {"trace=file,connect", "trace=process", "trace="} |->
              CASE w = "trace=file,connect" -> <<"file", "connect">>
                [] w = "trace=process"      -> <<"process">>
                [] w = "trace="             -> <<>>]
MCWords == {"-f", "-o", "-s", "-p", "-e"}
             \cup DOMAIN MCNumberOf \cup DOMAIN MCSetOf
MCFilterNames == {"openat", "read", "connect", "execve", "brk"}

VARIABLE part    \* the part that runs; the others stay as they are

PInit ==
  /\ part \in {"tracee table", "summary", "command line"}
  /\ TableInit /\ SumInit /\ MInit
  /\ part # "command line" => argv = <<>>

PNext ==
  /\ UNCHANGED part
  /\ \/ part = "tracee table" /\ TableNext /\ UNCHANGED <<sumVars, vars>>
     \/ part = "summary" /\ SumNext /\ UNCHANGED <<tableVars, vars>>
     \/ part = "command line" /\ MNext /\ UNCHANGED <<tableVars, sumVars>>

PSpec == PInit /\ [][PNext]_<<part, tableVars, sumVars, vars>>
==============================================================================
