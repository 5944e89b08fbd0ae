------------------------- MODULE CommandLineProofs -------------------------
(* For every command line, of any length: the program main starts is the one  *)
(* behind the options, the filter is what all -e's asked for, and the string  *)
(* limit fits the buffers.                                                    *)
EXTENDS CommandLine, WellFoundedInduction, TLAPS

USE CommandLineAssumption

(* Up to MAX_FILTER_TOKENS the filter holds the tokens asked for, in order.   *)
FilterInv ==
  /\ asked \in Seq(STRING) /\ filter_tokens \in Seq(STRING)
  /\ Len(filter_tokens) = IF Len(asked) <= MaxTokens THEN Len(asked) ELSE MaxTokens
  /\ \A k \in 1 .. Len(filter_tokens) : filter_tokens[k] = asked[k]

(* From the word the loop has reached, the program is where it was from the   *)
(* first word; once the loop is left, it is at that word.                     *)
ProgramInv ==
  /\ argv \in Seq(Words) /\ argi \in 1 .. Len(argv) + 1
  /\ stage = "options" => ProgramFrom(argv)[argi] = ProgramFrom(argv)[1]
  /\ stage \in {"opened", "attached", "usage", "launched"} => argi = ProgramFrom(argv)[1]

CommandInv == FilterInv /\ ProgramInv /\ max_str_len \in 1 .. BufLen

------------------------------------------------------------------------------
(* Induction over the numbers in a set.                                       *)
LEMMA InductionOnSet ==
  ASSUME NEW S, 0 \in S, \A m \in Nat : m \in S => m + 1 \in S
  PROVE  Nat \subseteq S
<1> DEFINE R == {r \in Nat \X Nat : r[1] < r[2]}
           T == Nat \ S
<1>1. IsWellFoundedOn(R, Nat)
    BY NatLessThanWellFounded, Zenon DEF OpToRel
<1>2. SUFFICES ASSUME T # {} PROVE FALSE
    BY Zenon
<1>3. PICK x \in T : \A y \in T : ~(<<y, x>> \in R)
    <2> HIDE DEF R, T
    <2>1. T \subseteq Nat
        BY Zenon DEF T
    <2> QED
        BY <1>1, <1>2, <2>1, WFMin, Zenon
<1>4. x \in Nat /\ x # 0 /\ x - 1 \in Nat /\ x = (x - 1) + 1
    BY <1>3
<1>5. x - 1 \in T
    BY <1>3, <1>4
<1>6. <<x - 1, x>> \in R
    BY <1>4
<1> QED
    BY <1>3, <1>5, <1>6, Zenon

(* The definition of ProgramFrom determines it: there is a function that       *)
(* satisfies it from any word on to the last, so one for all words.           *)
LEMMA ProgramFromDef ==
  ASSUME NEW words \in Seq(Words), NEW k \in 1 .. Len(words) + 2
  PROVE  ProgramFrom(words)[k] =
           IF k > Len(words) THEN k
           ELSE CASE words[k] \in Flags       -> ProgramFrom(words)[k + 1]
                  [] words[k] \in WithOperand -> ProgramFrom(words)[k + 2]
                  [] OTHER                   -> k
<1> DEFINE L == Len(words)
           D == 1 .. L + 2
           B(f, j) == IF j > L THEN j
                      ELSE CASE words[j] \in Flags       -> f[j + 1]
                             [] words[j] \in WithOperand -> f[j + 2]
                             [] OTHER                   -> j
           Solves(f, m) == \A j \in D : j + m >= L + 2 => f[j] = B(f, j)
           S == {m \in Nat : \E f : f = [j \in D |-> f[j]] /\ Solves(f, m)}
<1>1. L \in Nat
    OBVIOUS
<1>2. 0 \in S
    <2> DEFINE f == [j \in D |-> j]
    <2>1. Solves(f, 0)
        BY <1>1
    <2>2. f = [j \in D |-> f[j]]
        BY Zenon
    <2> QED
        BY <2>1, <2>2, Zenon
<1>3. ASSUME NEW m \in Nat, m \in S PROVE m + 1 \in S
    <2>1. PICK f : f = [j \in D |-> f[j]] /\ Solves(f, m)
        BY <1>3, Zenon
    <2> DEFINE g == [j \in D |-> IF j + m >= L + 2 THEN f[j] ELSE B(f, j)]
    <2>2. ASSUME NEW j \in D, j + (m + 1) >= L + 2 PROVE g[j] = B(g, j)
        <3>1. g[j] = B(f, j)
            BY <2>1, <2>2, Zenon
        <3>2. B(g, j) = B(f, j)
            <4>1. CASE j > L
                BY <4>1
            <4>2. CASE ~(j > L)
                <5>1. j + 1 \in D /\ j + 2 \in D /\ (j + 1) + m >= L + 2 /\ (j + 2) + m >= L + 2
                    BY <1>1, <2>2, <4>2, SMTT(20)
                <5>2. g[j + 1] = f[j + 1] /\ g[j + 2] = f[j + 2]
                    BY <5>1, Zenon
                <5> HIDE DEF g
                <5> QED
                    BY <5>2
            <4> QED
                BY <4>1, <4>2, Zenon
        <3> QED
            BY <3>1, <3>2, Zenon
    <2>3. g = [j \in D |-> g[j]]
        <3>1. \A j \in D : g[j] = IF j + m >= L + 2 THEN f[j] ELSE B(f, j)
            BY Zenon
        <3> HIDE DEF D, B
        <3> QED
            BY <3>1
    <2>4. m + 1 \in Nat
        OBVIOUS
    <2> HIDE DEF g
    <2> QED
        BY <2>2, <2>3, <2>4, Zenon
<1>4. L + 2 \in S
    <2> HIDE DEF S
    <2> QED
        BY <1>1, <1>2, <1>3, InductionOnSet
<1>5. PICK h : h = [j \in D |-> h[j]] /\ Solves(h, L + 2)
    BY <1>4, Zenon
<1>6. h = [j \in D |-> B(h, j)]
    <2>1. \A j \in D : h[j] = B(h, j)
        <3> HIDE DEF B
        <3> QED
            BY <1>1, <1>5
    <2> HIDE DEF B, D
    <2> QED
        BY <1>5, <2>1, Zenon
<1>7. ProgramFrom(words) = CHOOSE f : f = [j \in D |-> B(f, j)]
    BY DEF ProgramFrom
<1>8. ProgramFrom(words) = [j \in D |-> B(ProgramFrom(words), j)]
    <2> HIDE DEF B, D
    <2> QED
        BY <1>6, <1>7, Zenon
<1> QED
    BY <1>8, Zenon

(* Nothing is read yet when main is entered.                                  *)
LEMMA CommandInit == MInit => CommandInv
<1> SUFFICES ASSUME MInit PROVE CommandInv
    OBVIOUS
<1>1. PICK m \in 0 .. MaxWords : argv \in [1 .. m -> Words]
    BY DEF MInit
<1>2. argv \in Seq(Words) /\ Len(argv) \in Nat
    BY <1>1
<1>3. ProgramInv
    BY <1>2 DEF MInit, ProgramInv
<1>4. FilterInv /\ max_str_len \in 1 .. BufLen
    BY DEF MInit, FilterInv
<1> QED
    BY <1>3, <1>4, Zenon DEF CommandInv

(* parse_trace_filter keeps the tokens that are there and appends what there  *)
(* is room for.                                                               *)
LEMMA FilterAppends ==
  ASSUME FilterInv, NEW toks \in Seq(STRING),
         filter_tokens' = parse_trace_filter(toks), asked' = asked \o toks
  PROVE  FilterInv'
<1> DEFINE all == filter_tokens \o toks
<1>1. /\ asked \in Seq(STRING) /\ filter_tokens \in Seq(STRING)
      /\ Len(asked) \in Nat /\ Len(filter_tokens) \in Nat /\ Len(toks) \in Nat
      /\ Len(filter_tokens) = IF Len(asked) <= MaxTokens THEN Len(asked) ELSE MaxTokens
      /\ \A k \in 1 .. Len(filter_tokens) : filter_tokens[k] = asked[k]
    BY DEF FilterInv
<1>2. /\ asked' \in Seq(STRING) /\ Len(asked') = Len(asked) + Len(toks)
      /\ \A k \in 1 .. Len(asked) + Len(toks) :
            asked'[k] = IF k <= Len(asked) THEN asked[k] ELSE toks[k - Len(asked)]
    BY <1>1
<1>3. /\ all \in Seq(STRING) /\ Len(all) = Len(filter_tokens) + Len(toks)
      /\ \A k \in 1 .. Len(filter_tokens) + Len(toks) :
            all[k] = IF k <= Len(filter_tokens) THEN filter_tokens[k]
                     ELSE toks[k - Len(filter_tokens)]
    <2>1. filter_tokens \in Seq(STRING) /\ toks \in Seq(STRING)
        BY <1>1, Zenon
    <2> QED
        BY ONLY <2>1
<1>4. /\ filter_tokens' \in Seq(STRING)
      /\ Len(filter_tokens') = IF Len(all) <= MaxTokens THEN Len(all) ELSE MaxTokens
      /\ \A k \in 1 .. Len(filter_tokens') : filter_tokens'[k] = all[k]
    <2>1. filter_tokens' = IF Len(all) <= MaxTokens THEN all ELSE SubSeq(all, 1, MaxTokens)
        BY Zenon DEF parse_trace_filter
    <2> HIDE DEF all
    <2>2. CASE Len(all) <= MaxTokens
        BY <1>3, <2>1, <2>2
    <2>3. CASE ~(Len(all) <= MaxTokens)
        BY <1>1, <1>3, <2>1, <2>3, SMTT(20)
    <2> QED
        BY <2>2, <2>3, Zenon
<1> HIDE DEF all
<1>5. Len(filter_tokens') = IF Len(asked') <= MaxTokens THEN Len(asked') ELSE MaxTokens
    BY <1>1, <1>2, <1>3, <1>4
<1>6. ASSUME NEW k \in 1 .. Len(filter_tokens') PROVE filter_tokens'[k] = asked'[k]
    <2>1. filter_tokens'[k] = all[k] /\ k \in 1 .. Len(all) /\ k <= Len(asked')
        BY <1>1, <1>2, <1>3, <1>4, <1>5
    <2>2. CASE k <= Len(filter_tokens)
        BY <1>1, <1>2, <1>3, <2>1, <2>2
    <2>3. CASE ~(k <= Len(filter_tokens))
        <3>1. Len(filter_tokens) = Len(asked)
            BY <1>1, <1>4, <1>6, <2>3
        <3> QED
            BY <1>1, <1>2, <1>3, <2>1, <2>3, <3>1
    <2> QED
        BY <2>2, <2>3, Zenon
<1> QED
    BY <1>2, <1>4, <1>5, <1>6, Zenon DEF FilterInv

(* A step behind the option loop, or one that ends it with an error.          *)
LEMMA LaterKeeps ==
  ASSUME CommandInv, UNCHANGED <<argv, argi, options>>,
         stage' = "options" => stage = "options",
         stage' \in {"opened", "attached", "usage", "launched"} => argi = ProgramFrom(argv)[1]
  PROVE  CommandInv'
<1>1. UNCHANGED <<argv, argi, max_str_len, filter_tokens, asked>>
    BY Zenon DEF options
<1>2. ProgramFrom(argv)' = ProgramFrom(argv)
    BY <1>1, Zenon
<1>3. ProgramInv'
    BY <1>1, <1>2, Zenon DEF CommandInv, ProgramInv
<1>4. FilterInv' /\ max_str_len' \in 1 .. BufLen
    BY <1>1, Zenon DEF CommandInv, FilterInv
<1> QED
    BY <1>3, <1>4, Zenon DEF CommandInv

(* Every step of main keeps the invariant.                                    *)
LEMMA CommandStep == CommandInv /\ [MNext]_vars => CommandInv'
<1> SUFFICES ASSUME CommandInv, [MNext]_vars PROVE CommandInv'
    OBVIOUS
<1>0. /\ argv \in Seq(Words) /\ Len(argv) \in Nat /\ argi \in 1 .. Len(argv) + 1
      /\ max_str_len \in 1 .. BufLen /\ FilterInv
    BY DEF CommandInv, ProgramInv
<1>1. CASE Flag
    <2>1. /\ stage = "options" /\ argi <= Len(argv) /\ argv[argi] \in Flags
          /\ argi' = argi + 1
          /\ UNCHANGED <<argv, stage, max_str_len, filter_tokens, asked>>
        BY <1>1, Zenon DEF Flag, AtOption
    <2>2. ProgramFrom(argv)[argi] = ProgramFrom(argv)[argi + 1]
        BY <1>0, <2>1, ProgramFromDef, SMTT(20) DEF Flags, WithOperand
    <2>3. ProgramFrom(argv)' = ProgramFrom(argv)
        BY <2>1, Zenon
    <2>4. argi' \in 1 .. Len(argv) + 1
        BY <1>0, <2>1
    <2>5. ProgramInv'
        BY <2>1, <2>2, <2>3, <2>4, Zenon DEF CommandInv, ProgramInv
    <2> QED
        BY <2>1, <2>5, Zenon DEF CommandInv, FilterInv
<1>2. CASE Operand
    <2> DEFINE opt == argv[argi]
               word == argv[argi + 1]
    <2>1. /\ stage = "options" /\ argi + 1 <= Len(argv) /\ opt \in WithOperand
          /\ Valid(opt, word)
          /\ max_str_len' = IF opt = "-s" THEN SizeOf(NumberOf[word]) ELSE max_str_len
          /\ filter_tokens' = IF opt = "-e" THEN parse_trace_filter(SetOf[word])
                                            ELSE filter_tokens
          /\ asked' = IF opt = "-e" THEN asked \o SetOf[word] ELSE asked
          /\ argi' = argi + 2 /\ UNCHANGED <<argv, stage>>
        BY <1>2, Zenon DEF Operand, AtOption, OptionAndOperand
    <2>2. ProgramFrom(argv)[argi] = ProgramFrom(argv)[argi + 2]
        <3>1. argi \in 1 .. Len(argv) + 2 /\ ~(argi > Len(argv))
            BY <1>0, <2>1
        <3>2. opt \notin Flags
            BY <2>1, Zenon DEF Flags, WithOperand
        <3> QED
            BY <1>0, <2>1, <3>1, <3>2, ProgramFromDef, SMTT(20)
    <2>3. ProgramFrom(argv)' = ProgramFrom(argv)
        BY <2>1, Zenon
    <2>4. argi' \in 1 .. Len(argv) + 1
        BY <1>0, <2>1, SMTT(20)
    <2>5. ProgramInv'
        BY <2>1, <2>2, <2>3, <2>4, Zenon DEF CommandInv, ProgramInv
    <2>6. FilterInv'
        <3>1. CASE opt = "-e"
            <4>1. SetOf[word] \in Seq(STRING)
                BY <2>1, <3>1, Zenon DEF Valid
            <4> QED
                BY <1>0, <2>1, <3>1, <4>1, FilterAppends, Zenon
        <3>2. CASE opt # "-e"
            BY <1>0, <2>1, <3>2, Zenon DEF FilterInv
        <3> QED
            BY <3>1, <3>2, Zenon
    <2>7. max_str_len' \in 1 .. BufLen
        <3>1. CASE opt = "-s"
            <4>1. NumberOf[word] \in Int /\ NumberOf[word] >= 1
                BY <2>1, <3>1, Zenon DEF Valid
            <4> QED
                BY <2>1, <3>1, <4>1 DEF SizeOf
        <3>2. CASE opt # "-s"
            BY <1>0, <2>1, <3>2, Zenon
        <3> QED
            BY <3>1, <3>2, Zenon
    <2> QED
        BY <2>5, <2>6, <2>7, Zenon DEF CommandInv
<1>3. CASE BadOperand
    BY <1>3, LaterKeeps, Zenon DEF BadOperand
<1>4. CASE Open
    <2>1. /\ stage = "options" /\ stage' \in {"opened", "error"}
          /\ UNCHANGED <<argv, argi, options>>
          /\ argi <= Len(argv) => argv[argi] \notin Flags \cup WithOperand
        BY <1>4, Zenon DEF Open, AtOption
    <2>2. ProgramFrom(argv)[argi] = argi
        <3>1. argi \in 1 .. Len(argv) + 2
            BY <1>0
        <3>2. CASE argi > Len(argv)
            BY <1>0, <3>1, <3>2, ProgramFromDef, Zenon
        <3>3. CASE ~(argi > Len(argv))
            <4>1. argv[argi] \notin Flags /\ argv[argi] \notin WithOperand
                BY <1>0, <2>1, <3>3
            <4> QED
                BY <1>0, <3>1, <3>3, <4>1, ProgramFromDef
        <3> QED
            BY <3>2, <3>3, Zenon
    <2>3. ProgramFrom(argv)[1] = argi
        BY <2>1, <2>2, Zenon DEF CommandInv, ProgramInv
    <2> QED
        BY <2>1, <2>3, LaterKeeps, Zenon
<1>5. CASE Attach \/ Usage \/ Fork
    <2>1. /\ stage = "opened" /\ stage' # "options" /\ UNCHANGED <<argv, argi, options>>
        BY <1>5, Zenon DEF Attach, Usage, Fork
    <2> QED
        BY <2>1, LaterKeeps, Zenon DEF CommandInv, ProgramInv
<1>6. CASE UNCHANGED vars
    BY <1>6, LaterKeeps, Zenon DEF vars, CommandInv, ProgramInv
<1> QED
    BY <1>1, <1>2, <1>3, <1>4, <1>5, <1>6, Zenon DEF MNext, Step, MDone

(* Every behaviour of main keeps the invariant.                               *)
LEMMA CommandInvHolds == MSpec => []CommandInv
BY CommandInit, CommandStep, PTL DEF MSpec

------------------------------------------------------------------------------
(* A command line of any length starts the program at the first word that is  *)
(* neither an option of mini-strace nor the operand of one.                   *)
THEOREM ProgramIsFound == MSpec => []ProgramIsWhatFollows
<1>1. CommandInv => ProgramIsWhatFollows
    BY Zenon DEF CommandInv, ProgramInv, ProgramIsWhatFollows
<1> QED
    BY <1>1, CommandInvHolds, PTL

(* However many -e's are given, with any number of tokens each, the filter    *)
(* lets through what their union names, or less when it is full.              *)
THEOREM FilterIsTheUnion == MSpec => []FilterMeansUnion
<1>1. ASSUME CommandInv, NEW m \in FilterNames
      PROVE  LET meant == asked = <<>> \/ \E k \in DOMAIN asked : Matches(asked[k], m)
             IN  /\ syscall_allowed(m) => meant
                 /\ Len(asked) <= MaxTokens => (meant => syscall_allowed(m))
    <2>1. /\ asked \in Seq(STRING) /\ filter_tokens \in Seq(STRING)
          /\ Len(asked) \in Nat /\ Len(filter_tokens) \in Nat
          /\ DOMAIN asked = 1 .. Len(asked) /\ DOMAIN filter_tokens = 1 .. Len(filter_tokens)
          /\ Len(filter_tokens) = IF Len(asked) <= MaxTokens THEN Len(asked) ELSE MaxTokens
          /\ \A k \in 1 .. Len(filter_tokens) : filter_tokens[k] = asked[k]
        BY <1>1 DEF CommandInv, FilterInv
    <2>2. filter_tokens = <<>> <=> asked = <<>>
        BY <2>1
    <2>3. \A k \in 1 .. Len(filter_tokens) : k \in 1 .. Len(asked)
        BY <2>1
    <2>4. Len(asked) <= MaxTokens => Len(filter_tokens) = Len(asked)
        BY <2>1
    <2> QED
        BY <2>1, <2>2, <2>3, <2>4, Zenon DEF syscall_allowed
<1>2. CommandInv => FilterMeansUnion
    BY <1>1, Zenon DEF FilterMeansUnion
<1> QED
    BY <1>2, CommandInvHolds, PTL

(* Any number -s accepts leaves a positive limit within STR_ARG_BUF_LEN, which *)
(* the readers of child_mem.c rely on.                                        *)
THEOREM SizeFitsBuffer == MSpec => []SizeWithinBuffer
<1>1. CommandInv => SizeWithinBuffer
    BY Zenon DEF CommandInv, SizeWithinBuffer
<1> QED
    BY <1>1, CommandInvHolds, PTL
=============================================================================
