--------------------------- MODULE DecoderProofs ---------------------------
(* What is printed of one argument.  For every word size, output buffer,      *)
(* memory and limit, the text that read_child_string and read_child_buffer    *)
(* write is closed and terminated, shows all that can be read of the argument *)
(* and nothing else, and marks what it leaves out unless it is full; a        *)
(* structure is printed from the bytes that read_child_raw could read; and for*)
(* any tables of names, an integer whose text fits its buffer can be read     *)
(* back, its widest names come first, nothing is written behind the buffer and*)
(* nothing is cut if the buffer has room for every name.  All of them end     *)
(* within a number of steps that the tracee cannot change.                    *)
EXTENDS ChildMem, StructDecoders, FlagWalk, FiniteSetTheorems, WellFoundedInduction, TLAPS

(* Integers: the walk over a table of names.                                  *)
Steps == {"first", "walk", "rest", "last", "done"}

FlagTypeOK ==
  /\ call \in Call /\ step \in Steps /\ k \in Nat \ {0}
  /\ named \subseteq DOMAIN D.table /\ trailed \subseteq DOMAIN D.last
  /\ led \in BOOLEAN /\ hexed \in BOOLEAN /\ zeroed \in BOOLEAN
  /\ out \in Nat /\ written \in Nat

(* What the table has to account for.                                         *)
Part == ((call.value \cap D.mask) \ LastBits)
          \ (IF led THEN D.first.bits ELSE {})

(* Every bit of it was taken by exactly one name or is still there.           *)
Accounted ==
  /\ NamedBits \cup remaining = Part
  /\ NamedBits \cap remaining = {}
  /\ \A a, b \in named : a # b => D.table[a].bits \cap D.table[b].bits = {}

(* A flag that was split off is printed unless the buffer is full.            *)
TrailedUpTo(m) ==
  out < call.size =>
    \A j \in DOMAIN D.last :
      j < m /\ D.last[j].bits \cap call.value # {} => j \in trailed

Fresh == trailed = {} /\ ~hexed /\ ~zeroed

Walking ==
  /\ Accounted
  /\ led => D.first.bits # {} /\ (D.always \/ D.first.bits \subseteq call.value)
  /\ named # {} => out > 0
  /\ D.exact => /\ ~led /\ ~zeroed
                /\ named # {} => remaining = {}

FlagInv ==
  /\ FlagTypeOK
  /\ written <= call.size
  /\ step = "first" => Fresh /\ k = 1 /\ named = {} /\ ~led /\ out = 0
  /\ step \in {"walk", "rest", "last"} => Walking
  /\ step = "walk" => Fresh /\ (D.exact /\ named = {} => out = 0)
  /\ step = "rest" /\ D.exact =>
       Fresh /\ k = 1 /\ (named = {} => out = 0)
  /\ step = "rest" /\ ~D.exact =>
       ~hexed /\ ~zeroed /\ TrailedUpTo(Len(D.last) + 1)
  /\ step = "last" /\ D.exact => TrailedUpTo(k) /\ (hexed <=> named = {})
  /\ step = "last" /\ ~D.exact => TrailedUpTo(k) /\ ~hexed /\ ~zeroed
  /\ ReadsBack

------------------------------------------------------------------------------
(* What the assumption says of the decoder at work.                           *)
LEMMA DecoderFacts ==
  ASSUME call \in Call
  PROVE  /\ D \in DecoderType /\ DecoderOK(D)
         /\ D.table \in Seq(EntryType) /\ D.last \in Seq(EntryType)
         /\ D.exact \in BOOLEAN /\ D.late \in BOOLEAN /\ D.always \in BOOLEAN
         /\ D.zero \in Nat /\ D.first.width \in Nat
         /\ Len(D.table) \in Nat /\ DOMAIN D.table = 1 .. Len(D.table)
         /\ Len(D.last) \in Nat /\ DOMAIN D.last = 1 .. Len(D.last)
         /\ \A j \in DOMAIN D.table : D.table[j].width \in Nat \ {0}
         /\ \A j \in DOMAIN D.last : D.last[j].width \in Nat
         /\ call.size \in Nat /\ D.number \in Nat
<1>1. DecoderOK(D) /\ call.size \in Nat
    BY FlagWalkAssumption DEF D
<1>2. D \in DecoderType
    BY <1>1 DEF DecoderOK
<1>3. /\ D.table \in Seq(EntryType) /\ D.last \in Seq(EntryType)
      /\ D.exact \in BOOLEAN /\ D.late \in BOOLEAN /\ D.always \in BOOLEAN
      /\ D.zero \in Nat /\ D.first \in EntryType /\ D.number \in Nat
    BY <1>2 DEF DecoderType
<1>4. /\ Len(D.table) \in Nat /\ DOMAIN D.table = 1 .. Len(D.table)
      /\ Len(D.last) \in Nat /\ DOMAIN D.last = 1 .. Len(D.last)
    BY <1>3
<1>5. /\ \A j \in DOMAIN D.table : D.table[j] \in EntryType
      /\ \A j \in DOMAIN D.last : D.last[j] \in EntryType
    BY <1>3
<1>6. \A j \in DOMAIN D.table : D.table[j].width \in Nat \ {0}
    BY <1>1, <1>5 DEF DecoderOK, EntryType
<1>7. /\ \A j \in DOMAIN D.last : D.last[j].width \in Nat
      /\ D.first.width \in Nat
    BY <1>3, <1>5 DEF EntryType
<1> QED
    BY <1>1, <1>2, <1>3, <1>4, <1>6, <1>7

(* The width of a numeric piece is a number.                                  *)
LEMMA NumberWidthType ==
  ASSUME call \in Call, NEW bits
  PROVE  NumberWidth(bits) \in Nat
<1> DEFINE S == {d \in 0 .. 15 : d = 0 \/ \E b \in bits : b >= 4 * d}
<1>1. IsFiniteSet(0 .. 15)
    BY FS_Interval, 0 \in Int, 15 \in Int, Zenon
<1>2. IsFiniteSet(S)
    BY <1>1, FS_Subset, S \subseteq 0 .. 15
<1>3. Cardinality(S) \in Nat
    BY <1>2, FS_CardinalityType
<1>4. HexWidth(bits) \in Nat
    BY <1>3 DEF HexWidth
<1>5. D.number \in Nat
    BY DecoderFacts, Zenon
<1> QED
    BY <1>4, <1>5, Zenon DEF NumberWidth

(* A piece moves out forward; the piece before it started inside the buffer.  *)
LEMMA PutFacts ==
  ASSUME out \in Nat, NEW w \in Nat, Put(w)
  PROVE  /\ out' \in Nat /\ written' = out /\ out' >= out
         /\ w > 0 => out' > 0
BY DEF Put

------------------------------------------------------------------------------
(* A decoder starts with nothing printed.                                     *)
LEMMA FlagInitInv == FlagInit => FlagInv
<1> SUFFICES ASSUME FlagInit PROVE FlagInv
    OBVIOUS
<1>1. call \in Call /\ call.size \in Nat
    BY DecoderFacts DEF FlagInit
<1>2. k \in Nat \ {0} /\ out \in Nat /\ written \in Nat /\ written <= call.size
    BY <1>1 DEF FlagInit
<1>3. FlagTypeOK
    BY <1>1, <1>2, Zenon DEF FlagInit, FlagTypeOK, Steps
<1> QED
    BY <1>2, <1>3, Zenon DEF FlagInit, FlagInv, Fresh, ReadsBack, Complete

------------------------------------------------------------------------------
(* The text for a value of 0 stands for no bit.                               *)
LEMMA ZeroTextInv ==
  ASSUME FlagInv, ZeroText
  PROVE  FlagInv'
<1>1. /\ call \in Call /\ call' = call /\ D' = D /\ LastBits' = LastBits
      /\ out \in Nat /\ out = 0 /\ call.size \in Nat /\ D.zero \in Nat
    BY DecoderFacts, Zenon DEF FlagInv, FlagTypeOK, ZeroText, D, LastBits
<1>2. /\ out' \in Nat /\ written' = 0
    BY <1>1, PutFacts, Zenon DEF ZeroText
<1>3. FlagTypeOK'
    BY <1>1, <1>2, Zenon DEF FlagInv, FlagTypeOK, ZeroText, Steps
<1>4. /\ named' = {} /\ trailed' = {} /\ ~hexed' /\ ~led' /\ step' = "done"
      /\ call'.value \cap D'.mask = {}
    BY <1>1, Zenon DEF FlagInv, ZeroText, IsZero, Fresh
<1>5. /\ NamedBits' = {} /\ TrailedBits' = {} /\ HexBits' = {} /\ LedBits' = {}
    BY <1>4, Zenon DEF NamedBits, TrailedBits, HexBits, LedBits
<1>6. Meant' = {}
    BY <1>4, Zenon DEF Meant
<1>7. ReadsBack'
    BY <1>4, <1>5, <1>6, Zenon DEF ReadsBack
<1>8. written' <= call'.size
    BY <1>1, <1>2
<1> QED
    BY <1>3, <1>4, <1>7, <1>8, Zenon DEF FlagInv

(* The walk starts with everything still to be accounted for.                 *)
LEMMA BeginInv ==
  ASSUME FlagInv, Begin
  PROVE  FlagInv'
<1>1. /\ call \in Call /\ call' = call /\ D' = D /\ LastBits' = LastBits
      /\ out = 0 /\ written \in Nat /\ written <= call.size /\ call.size \in Nat
      /\ D.first.width \in Nat /\ D.exact \in BOOLEAN
    BY DecoderFacts, Zenon DEF FlagInv, FlagTypeOK, Begin, D, LastBits
<1>2. /\ k' = k /\ named' = {} /\ trailed' = {} /\ ~hexed' /\ ~zeroed'
      /\ step' = "walk" /\ led' = Leads
    BY Zenon DEF FlagInv, Fresh, Begin
<1>3. /\ out' \in Nat /\ written' \in Nat /\ written' <= call.size
      /\ ~Leads => out' = 0
    <2>1. CASE Leads
        <3>1. out \in Nat /\ Put(D.first.width)
            BY <1>1, <2>1 DEF Begin
        <3>2. out' \in Nat /\ written' = out
            BY <3>1, <1>1, PutFacts, Zenon
        <3> QED
            BY <3>2, <2>1, <1>1
    <2>2. CASE ~Leads
        BY <2>2, <1>1 DEF Begin, PutNothing
    <2> QED
        BY <2>1, <2>2
<1>4. Leads \in BOOLEAN
    BY DEF Leads
<1>5. FlagTypeOK'
    BY <1>1, <1>2, <1>3, <1>4, Zenon DEF FlagInv, FlagTypeOK, Begin, Steps
<1>6. NamedBits' = {}
    BY <1>2, Zenon DEF NamedBits
<1>7. remaining' = Part'
    <2>1. CASE Leads
        BY <1>1, <1>2, <2>1 DEF Begin, Part
    <2>2. CASE ~Leads
        BY <1>1, <1>2, <2>2 DEF Begin, Part
    <2> QED
        BY <2>1, <2>2
<1>8. Accounted'
    BY <1>2, <1>6, <1>7, Zenon DEF Accounted
<1>9. D.exact => ~Leads
    BY <1>1, DecoderFacts, Zenon DEF DecoderOK, Leads
<1>10. Walking'
    <2>1. Leads => D.first.bits # {} /\ (D.always \/ D.first.bits \subseteq call.value)
        BY Zenon DEF Leads
    <2> QED
        BY <1>1, <1>2, <1>8, <1>9, <2>1, Zenon DEF Walking
<1>11. ReadsBack'
    BY <1>2, Zenon DEF ReadsBack, Complete
<1> QED
    BY <1>1, <1>2, <1>3, <1>5, <1>9, <1>10, <1>11, Zenon DEF FlagInv, Fresh

(* A name takes its bits from what is left; a lookup takes all of them.       *)
LEMMA WalkInv ==
  ASSUME FlagInv, Walk
  PROVE  FlagInv'
<1>1. /\ call \in Call /\ call' = call /\ D' = D /\ LastBits' = LastBits
      /\ k \in Nat \ {0} /\ k' = k + 1 /\ out \in Nat /\ written \in Nat
      /\ written <= call.size /\ call.size \in Nat /\ D.exact \in BOOLEAN
    BY DecoderFacts, Zenon DEF FlagInv, FlagTypeOK, Walk, D, LastBits
<1>2. /\ step = "walk" /\ step' = step /\ trailed' = trailed /\ led' = led
      /\ hexed' = hexed /\ zeroed' = zeroed /\ Fresh /\ Walking
    BY Zenon DEF FlagInv, Walk
<1>3. k \in DOMAIN D.table /\ D.table[k].width \in Nat \ {0}
    <2>1. k <= Len(D.table)
        BY DEF Walk, WalkOn
    <2> QED
        BY <1>1, <2>1, DecoderFacts
<1>4. D.exact => named = {} /\ out = 0
    BY <1>1, <1>2, Zenon DEF FlagInv, Walk, WalkOn
<1>5. ~D.exact => out < call.size
    BY Zenon DEF Walk, WalkOn, RoomLeft
<1>6. Part' = Part
    BY <1>1, <1>2, Zenon DEF Part
<1>7. CASE ~Matches(D.table[k])
    <2>1. UNCHANGED <<named, remaining, out, written>>
        BY <1>7 DEF Walk, PutNothing
    <2>2. NamedBits' = NamedBits
        BY <1>1, <2>1, Zenon DEF NamedBits
    <2>3. Accounted'
        BY <1>1, <1>2, <1>6, <2>1, <2>2, Zenon DEF Accounted, Walking
    <2>4. Walking'
        BY <1>1, <1>2, <2>1, <2>3, Zenon DEF Walking
    <2>5. k' \in Nat \ {0}
        BY <1>1
    <2>6. FlagTypeOK'
        BY <1>1, <1>2, <2>1, <2>5, Zenon DEF FlagInv, FlagTypeOK
    <2>7. ReadsBack'
        BY <1>2, Zenon DEF ReadsBack, Complete
    <2> QED
        BY <1>1, <1>2, <1>4, <2>1, <2>4, <2>6, <2>7, Zenon DEF FlagInv, Fresh
<1>8. CASE Matches(D.table[k])
    <2>1. /\ named' = named \cup {k} /\ remaining' = remaining \ D.table[k].bits
          /\ Put(D.table[k].width)
        BY <1>8 DEF Walk
    <2>2. /\ out' \in Nat /\ written' = out /\ out' > 0
        BY <1>1, <1>3, <2>1, PutFacts
    <2>3. written' <= call.size /\ written' \in Nat
        BY <1>1, <1>4, <1>5, <2>2
    <2>4. D.table[k].bits \subseteq remaining
        BY <1>8, Zenon DEF Matches
    <2>5. NamedBits' = NamedBits \cup D.table[k].bits
        BY <1>1, <2>1, Zenon DEF NamedBits
    <2>6. /\ NamedBits' \cup remaining' = Part' /\ NamedBits' \cap remaining' = {}
        BY <1>2, <1>6, <2>1, <2>4, <2>5, Zenon DEF Accounted, Walking
    <2>7. \A a \in named : D.table[a].bits \cap D.table[k].bits = {}
        <3>1. \A a \in named : D.table[a].bits \subseteq NamedBits
            BY Zenon DEF NamedBits
        <3> QED
            BY <1>2, <3>1, <2>4, Zenon DEF Accounted, Walking
    <2>8. Accounted'
        BY <1>1, <1>2, <2>1, <2>6, <2>7, Zenon DEF Accounted, Walking
    <2>9. D.exact => remaining' = {}
        BY <1>8, <2>1, Zenon DEF Matches
    <2>10. Walking'
        BY <1>1, <1>2, <2>2, <2>8, <2>9, Zenon DEF Walking
    <2>11. k' \in Nat \ {0}
        BY <1>1
    <2>12. FlagTypeOK'
        BY <1>1, <1>2, <1>3, <2>1, <2>2, <2>3, <2>11, Zenon DEF FlagInv, FlagTypeOK
    <2>13. ReadsBack'
        BY <1>2, Zenon DEF ReadsBack, Complete
    <2>14. named' # {}
        BY <2>1, Zenon
    <2> QED
        BY <1>1, <1>2, <2>3, <2>10, <2>12, <2>13, <2>14, Zenon DEF FlagInv, Fresh
<1> QED
    BY <1>7, <1>8

(* A lookup goes on to its hex piece, a walk to the flags split off.          *)
LEMMA WalkEndsInv ==
  ASSUME FlagInv, WalkEnds
  PROVE  FlagInv'
<1>1. /\ call \in Call /\ call' = call /\ D' = D /\ LastBits' = LastBits
      /\ k' = 1 /\ out \in Nat /\ out' = out /\ written' = written
      /\ written \in Nat /\ written <= call.size /\ D.exact \in BOOLEAN
      /\ UNCHANGED <<remaining, named, trailed, led, hexed, zeroed>>
    BY DecoderFacts, Zenon DEF FlagInv, FlagTypeOK, WalkEnds, PutNothing, D, LastBits
<1>2. /\ step = "walk" /\ step' = (IF D.exact THEN "rest" ELSE "last")
      /\ Fresh /\ Walking /\ (D.exact /\ named = {} => out = 0)
    BY Zenon DEF FlagInv, WalkEnds
<1>3. Part' = Part /\ NamedBits' = NamedBits
    BY <1>1, Zenon DEF Part, NamedBits
<1>4. Walking'
    BY <1>1, <1>2, <1>3, Zenon DEF Walking, Accounted
<1>5. k' \in Nat \ {0}
    BY <1>1
<1>6. FlagTypeOK'
    BY <1>1, <1>2, <1>5, Zenon DEF FlagInv, FlagTypeOK, Steps
<1>7. TrailedUpTo(k)'
    <2>1. \A j \in DOMAIN D.last : ~(j < 1)
        BY <1>1, DecoderFacts
    <2> QED
        BY <1>1, <2>1, Zenon DEF TrailedUpTo
<1>8. ReadsBack'
    BY <1>2, Zenon DEF ReadsBack, Complete
<1> QED
    BY <1>1, <1>2, <1>4, <1>6, <1>7, <1>8, Zenon DEF FlagInv, Fresh

(* A flag that was split off is printed if there is room.                     *)
LEMMA LastInv ==
  ASSUME FlagInv, Last
  PROVE  FlagInv'
<1>1. /\ call \in Call /\ call' = call /\ D' = D /\ LastBits' = LastBits
      /\ k \in Nat \ {0} /\ k' = k + 1 /\ out \in Nat /\ written \in Nat
      /\ written <= call.size /\ call.size \in Nat /\ D.exact \in BOOLEAN
      /\ step = "last" /\ step' = step /\ k <= Len(D.last)
      /\ UNCHANGED <<remaining, named, led, hexed, zeroed>>
    BY DecoderFacts, Zenon DEF FlagInv, FlagTypeOK, Last, D, LastBits
<1>2. Walking /\ TrailedUpTo(k)
    BY <1>1, Zenon DEF FlagInv
<1>3. k \in DOMAIN D.last /\ D.last[k].width \in Nat /\ k' \in Nat \ {0}
    BY <1>1, DecoderFacts
<1>4. /\ out' \in Nat /\ written' \in Nat /\ out' >= out
      /\ written' <= call.size
      /\ trailed \subseteq trailed' /\ trailed' \subseteq trailed \cup {k}
      /\ out < call.size /\ D.last[k].bits \cap call.value # {} => k \in trailed'
    <2>1. CASE D.last[k].bits \cap call.value # {} /\ RoomLeft
        <3>1. trailed' = trailed \cup {k} /\ Put(D.last[k].width)
            BY <2>1 DEF Last
        <3>2. out' \in Nat /\ written' = out /\ out' >= out
            BY <1>1, <1>3, <3>1, PutFacts
        <3> QED
            BY <1>1, <2>1, <3>1, <3>2 DEF RoomLeft
    <2>2. CASE ~(D.last[k].bits \cap call.value # {} /\ RoomLeft)
        <3>1. UNCHANGED <<trailed, out, written>>
            BY <2>2 DEF Last, PutNothing
        <3> QED
            BY <1>1, <2>2, <3>1 DEF RoomLeft
    <2> QED
        BY <2>1, <2>2
<1>5. Part' = Part /\ NamedBits' = NamedBits
    BY <1>1, Zenon DEF Part, NamedBits
<1>6. Walking'
    <2>1. named # {} => out' > 0
        BY <1>1, <1>2, <1>4 DEF Walking
    <2> QED
        BY <1>1, <1>2, <1>5, <2>1, Zenon DEF Walking, Accounted
<1>7. FlagTypeOK'
    BY <1>1, <1>3, <1>4, Zenon DEF FlagInv, FlagTypeOK
<1>8. TrailedUpTo(k)'
    <2>1. out' < call.size => out < call.size
        BY <1>1, <1>4
    <2>2. \A j \in DOMAIN D.last : j < k + 1 => j < k \/ j = k
        BY <1>1, DecoderFacts
    <2> QED
        BY <1>1, <1>2, <1>4, <2>1, <2>2, Zenon DEF TrailedUpTo
<1>9. ReadsBack'
    BY <1>1, Zenon DEF ReadsBack, Complete
<1> QED
    BY <1>1, <1>4, <1>6, <1>7, <1>8, <1>9, Zenon DEF FlagInv

(* When every flag split off was handled and the text still fits, the trailing*)
(* pieces stand for all of those flags that are set.                          *)
LEMMA TrailedAll ==
  ASSUME call \in Call, trailed \subseteq DOMAIN D.last, out < call.size,
         NEW m \in Nat, m > Len(D.last), TrailedUpTo(m)
  PROVE  TrailedBits = LastBits \cap call.value
<1>1. \A j \in DOMAIN D.last : j < m
    BY DecoderFacts
<1>2. \A j \in DOMAIN D.last : D.last[j].bits \cap call.value # {} => j \in trailed
    BY <1>1, Zenon DEF TrailedUpTo
<1>3. TrailedBits \subseteq LastBits \cap call.value
    BY Zenon DEF TrailedBits, LastBits, LastOf
<1>4. ASSUME NEW b \in LastBits \cap call.value
      PROVE  b \in TrailedBits
    <2>1. PICK j \in DOMAIN D.last : b \in D.last[j].bits
        BY <1>4, Zenon DEF LastBits, LastOf
    <2>2. D.last[j].bits \cap call.value # {}
        BY <1>4, <2>1
    <2>3. j \in trailed
        BY <1>2, <2>2, Zenon
    <2>4. b \in D.last[j].bits \cap call.value
        BY <1>4, <2>1
    <2> QED
        BY <2>3, <2>4, Zenon DEF TrailedBits
<1> QED
    BY <1>3, <1>4, Zenon

(* The set arithmetic behind a walk's text: V is the argument, M the mask,    *)
(* L the bits split off, F the ones settled first.                            *)
LEMMA WalkText ==
  ASSUME NEW V, NEW M, NEW L, NEW F, NEW T, NEW led0 \in BOOLEAN,
         NEW always \in BOOLEAN, L \subseteq M, F \subseteq M,
         T = L \cap V, always => L = {},
         led0 => always \/ F \subseteq V
  PROVE  LET P == ((V \cap M) \ L) \ (IF led0 THEN F ELSE {})
             B == IF ~led0 \/ (always /\ F \subseteq V) THEN {} ELSE F \cap V
         IN  \/ B \cup P \cup T = V \cap M
             \/ always /\ F \subseteq V /\ P \cup T = (V \cap M) \ F
<1>1. CASE ~led0
    BY <1>1
<1>2. CASE led0 /\ ~always
    BY <1>2
<1>3. CASE led0 /\ always /\ F \subseteq V
    BY <1>3
<1>4. CASE led0 /\ always /\ ~(F \subseteq V)
    BY <1>4
<1> QED
    BY <1>1, <1>2, <1>3, <1>4

(* After the last flag a walk has its remainder left, a lookup is done.       *)
LEMMA LastEndsInv ==
  ASSUME FlagInv, LastEnds
  PROVE  FlagInv'
<1>1. /\ call \in Call /\ call' = call /\ D' = D /\ LastBits' = LastBits
      /\ k \in Nat \ {0} /\ k' = k /\ k > Len(D.last) /\ Len(D.last) \in Nat
      /\ D.exact \in BOOLEAN /\ trailed \subseteq DOMAIN D.last
      /\ step = "last" /\ step' = (IF D.exact THEN "done" ELSE "rest")
      /\ UNCHANGED <<remaining, named, trailed, led, hexed, zeroed, out, written>>
    BY DecoderFacts, Zenon DEF FlagInv, FlagTypeOK, LastEnds, PutNothing, D, LastBits
<1>2. Walking /\ TrailedUpTo(k)
    BY <1>1, Zenon DEF FlagInv
<1>3. /\ Part' = Part /\ NamedBits' = NamedBits /\ TrailedBits' = TrailedBits
      /\ HexBits' = HexBits /\ LedBits' = LedBits /\ Meant' = Meant
    BY <1>1, Zenon DEF Part, NamedBits, TrailedBits, HexBits, HexPart, LedBits, Meant
<1>4. FlagTypeOK' /\ written' <= call'.size
    BY <1>1, Zenon DEF FlagInv, FlagTypeOK, Steps
<1>5. CASE ~D.exact
    <2>1. \A j \in DOMAIN D.last : j < k
        BY <1>1, DecoderFacts
    <2>2. TrailedUpTo(Len(D.last) + 1)'
        BY <1>1, <1>2, <2>1, Zenon DEF TrailedUpTo
    <2>3. Walking'
        BY <1>1, <1>2, <1>3, Zenon DEF Walking, Accounted
    <2>4. ReadsBack'
        BY <1>1, <1>5, Zenon DEF ReadsBack, Complete
    <2> QED
        BY <1>1, <1>4, <1>5, <2>2, <2>3, <2>4, Zenon DEF FlagInv
<1>6. CASE D.exact
    <2>1. Accounted /\ ~led /\ (named # {} => remaining = {}) /\ (hexed <=> named = {})
        BY <1>1, <1>2, <1>6, Zenon DEF FlagInv, Walking
    <2>2. LastBits \subseteq D.mask /\ LastBits \subseteq D.keeps
        BY <1>1, DecoderFacts, Zenon DEF DecoderOK, LastBits
    <2>3. SUFFICES ASSUME out < call.size
                   PROVE  ReadsBack'
        BY <1>1, <1>4, <1>6, Zenon DEF FlagInv, ReadsBack, Complete
    <2>4. TrailedBits = LastBits \cap call.value
        BY <1>1, <1>2, <2>3, TrailedAll
    <2>5. LedBits = {}
        BY <2>1, Zenon DEF LedBits
    <2>6. \A a, b \in named : a # b => D.table[a].bits \cap D.table[b].bits = {}
        BY <2>1, Zenon DEF Accounted
    <2>7. CASE named # {}
        <3>1. NamedBits = (call.value \cap D.mask) \ LastBits
            BY <2>1, <2>7, Zenon DEF Accounted, Part
        <3>2. HexBits = {} /\ Meant = call.value \cap D.mask
            BY <2>1, <2>7, Zenon DEF HexBits, Meant
        <3>3. LedBits \cup NamedBits \cup TrailedBits \cup HexBits = Meant
            BY <2>2, <2>4, <2>5, <3>1, <3>2
        <3> QED
            BY <1>1, <1>3, <2>6, <3>2, <3>3, Zenon DEF ReadsBack
    <2>8. CASE named = {}
        <3>1. NamedBits = {}
            BY <2>8, Zenon DEF NamedBits
        <3>2. /\ HexBits = (call.value \ LastBits) \cap D.keeps
              /\ Meant = call.value \cap D.keeps
            BY <1>6, <2>1, <2>8, Zenon DEF HexBits, HexPart, Meant
        <3>3. LedBits \cup NamedBits \cup TrailedBits \cup HexBits = Meant
            BY <2>2, <2>4, <2>5, <3>1, <3>2
        <3> QED
            BY <1>1, <1>3, <2>6, <3>1, <3>3, Zenon DEF ReadsBack
    <2> QED
        BY <2>7, <2>8
<1> QED
    BY <1>1, <1>5, <1>6

(* A lookup prints its part in hex when no entry matched; nothing was printed *)
(* before that.                                                               *)
LEMMA RestOfLookupInv ==
  ASSUME FlagInv, Rest, D.exact
  PROVE  FlagInv'
<1>1. /\ call \in Call /\ call' = call /\ D' = D /\ LastBits' = LastBits
      /\ k' = k /\ k = 1 /\ out \in Nat /\ written \in Nat
      /\ written <= call.size /\ call.size \in Nat /\ ~D.late
      /\ step = "rest" /\ step' = "last" /\ Fresh /\ Walking
      /\ (named = {} => out = 0)
      /\ UNCHANGED <<remaining, named, trailed, led>>
    BY DecoderFacts, Zenon DEF FlagInv, FlagTypeOK, Rest, DecoderOK, D, LastBits
<1>2. /\ zeroed' = FALSE /\ hexed' = (named = {})
    BY <1>1, Zenon DEF Rest, NeedsHex
<1>3. out' \in Nat /\ written' \in Nat /\ out' >= out /\ written' <= call.size
    <2>1. CASE named = {}
        <3>1. Put(NumberWidth(HexPart)) /\ out = 0
            BY <1>1, <2>1, Zenon DEF Rest, NeedsHex
        <3>2. out' \in Nat /\ written' = out /\ out' >= out
            BY <1>1, <3>1, NumberWidthType, PutFacts, Zenon
        <3> QED
            BY <1>1, <3>1, <3>2
    <2>2. CASE named # {}
        BY <1>1, <2>2 DEF Rest, NeedsHex, PutNothing
    <2> QED
        BY <2>1, <2>2
<1>4. FlagTypeOK'
    BY <1>1, <1>2, <1>3, Zenon DEF FlagInv, FlagTypeOK, Steps
<1>5. Part' = Part /\ NamedBits' = NamedBits
    BY <1>1, Zenon DEF Part, NamedBits
<1>6. Walking'
    <2>1. named # {} => out' > 0
        BY <1>1, <1>3 DEF Walking
    <2> QED
        BY <1>1, <1>2, <1>5, <2>1, Zenon DEF Walking, Accounted
<1>7. TrailedUpTo(k)'
    <2>1. \A j \in DOMAIN D.last : ~(j < 1)
        BY <1>1, DecoderFacts
    <2> QED
        BY <1>1, <2>1, Zenon DEF TrailedUpTo
<1>8. ReadsBack'
    BY <1>1, Zenon DEF ReadsBack, Complete
<1>9. written' <= call'.size
    BY <1>1, <1>3
<1> QED
    BY <1>1, <1>2, <1>4, <1>6, <1>7, <1>8, <1>9, Zenon DEF FlagInv

(* A walk ends with the bits that are left in hex: with them the names stand  *)
(* for everything the table had to account for.                               *)
LEMMA RestOfWalkInv ==
  ASSUME FlagInv, Rest, ~D.exact
  PROVE  FlagInv'
<1>1. /\ call \in Call /\ call' = call /\ D' = D /\ LastBits' = LastBits
      /\ k' = k /\ out \in Nat /\ written \in Nat /\ Len(D.last) \in Nat
      /\ written <= call.size /\ call.size \in Nat /\ D.zero \in Nat
      /\ D.always \in BOOLEAN /\ D.late \in BOOLEAN /\ led \in BOOLEAN
      /\ trailed \subseteq DOMAIN D.last
      /\ step = "rest" /\ step' = "done" /\ Walking
      /\ TrailedUpTo(Len(D.last) + 1)
      /\ UNCHANGED <<remaining, named, trailed, led>>
    BY DecoderFacts, Zenon DEF FlagInv, FlagTypeOK, Rest, D, LastBits
<1>2. /\ zeroed' = (D.late /\ out = 0)
      /\ hexed' = (NeedsHex /\ ~(D.late /\ out = 0))
    BY Zenon DEF Rest
<1>3. NeedsHex \in BOOLEAN
    BY DEF NeedsHex
<1>4. out' \in Nat /\ written' \in Nat /\ out' >= out /\ written' <= call.size
    <2>1. CASE D.late /\ out = 0 /\ Put(D.zero)
        <3>1. out' \in Nat /\ written' = out /\ out' >= out
            BY <1>1, <2>1, PutFacts, Zenon
        <3> QED
            BY <1>1, <2>1, <3>1
    <2>2. CASE ~(D.late /\ out = 0) /\ NeedsHex /\ Put(NumberWidth(HexPart))
        <3>1. out' \in Nat /\ written' = out /\ out' >= out
            BY <1>1, <2>2, NumberWidthType, PutFacts, Zenon
        <3> QED
            BY <1>1, <2>2, <3>1 DEF NeedsHex, RoomLeft
    <2>3. CASE PutNothing
        BY <1>1, <2>3 DEF PutNothing
    <2> QED
        BY <2>1, <2>2, <2>3, Zenon DEF Rest
<1>5. FlagTypeOK' /\ written' <= call'.size
    BY <1>1, <1>2, <1>3, <1>4, Zenon DEF FlagInv, FlagTypeOK, Steps
<1>6. ReadsBack'
    <2>1. SUFFICES ASSUME out' < call.size PROVE ReadsBack'
        BY <1>1, Zenon DEF ReadsBack, Complete
    <2>2. out < call.size
        BY <1>1, <1>4, <2>1
    <2>3. /\ NamedBits' = NamedBits /\ TrailedBits' = TrailedBits
          /\ LedBits' = LedBits
        BY <1>1, Zenon DEF NamedBits, TrailedBits, LedBits
    <2>4. /\ \A a, b \in named : a # b => D.table[a].bits \cap D.table[b].bits = {}
          /\ NamedBits \cup remaining = Part /\ NamedBits \cap remaining = {}
        BY <1>1, Zenon DEF Walking, Accounted
    <2>5. CASE D.late /\ out = 0
        <3>1. named = {}
            BY <1>1, <2>5 DEF Walking
        <3>2. zeroed' /\ ~hexed'
            BY <1>2, <2>5, Zenon
        <3>3. HexBits' = {}
            BY <3>2, Zenon DEF HexBits
        <3> QED
            BY <1>1, <2>3, <2>4, <2>5, <3>1, <3>2, <3>3, Zenon DEF ReadsBack
    <2>6. CASE ~(D.late /\ out = 0)
        <3>1. hexed' = NeedsHex /\ (~NeedsHex => remaining = {})
            BY <1>2, <1>3, <2>2, <2>6, Zenon DEF NeedsHex, RoomLeft
        <3>2. HexBits' = remaining
            BY <1>1, <3>1, Zenon DEF HexBits, HexPart
        <3>3. /\ D.keeps = D.mask /\ LastBits \subseteq D.mask
              /\ D.first.bits \subseteq D.mask /\ (D.always => LastBits = {})
            <4>1. /\ D.always => D.last = <<>>
                  /\ D.keeps = D.mask /\ LastBits \subseteq D.mask
                  /\ D.first.bits \subseteq D.mask
                BY <1>1, DecoderFacts DEF DecoderOK, LastBits
            <4>2. D.always => DOMAIN D.last = {}
                BY <4>1
            <4>3. D.always => LastBits = {}
                BY <4>2, Zenon DEF LastBits, LastOf
            <4> QED
                BY <4>1, <4>3
        <3>4. Meant' = call.value \cap D.mask
            BY <1>1, <3>3, Zenon DEF Meant
        <3>5. Len(D.last) + 1 \in Nat /\ Len(D.last) + 1 > Len(D.last)
            BY <1>1
        <3>6. TrailedBits = LastBits \cap call.value
            BY <1>1, <2>2, <3>5, TrailedAll, Zenon
        <3>7. led => D.always \/ D.first.bits \subseteq call.value
            BY <1>1, Zenon DEF Walking
        <3>8. \/ LedBits \cup Part \cup TrailedBits = call.value \cap D.mask
              \/ /\ D.always /\ D.first.bits \subseteq call.value
                 /\ Part \cup TrailedBits = (call.value \cap D.mask) \ D.first.bits
            BY <1>1, <3>3, <3>6, <3>7, WalkText, Zenon DEF LedBits, Part
        <3>9. /\ LedBits \cup NamedBits \cup TrailedBits \cup remaining
                   = LedBits \cup Part \cup TrailedBits
              /\ NamedBits \cup TrailedBits \cup remaining = Part \cup TrailedBits
            BY <2>4
        <3> QED
            BY <1>1, <2>3, <2>4, <3>2, <3>4, <3>8, <3>9, Zenon DEF ReadsBack
    <2> QED
        BY <2>5, <2>6
<1> QED
    BY <1>1, <1>5, <1>6, Zenon DEF FlagInv

------------------------------------------------------------------------------
(* FlagInv is inductive.                                                      *)
LEMMA FlagStepInv == FlagInv /\ [FlagNext]_fvars => FlagInv'
<1> SUFFICES ASSUME FlagInv, [FlagNext]_fvars PROVE FlagInv'
    OBVIOUS
<1>1. CASE Rest
    BY <1>1, RestOfLookupInv, RestOfWalkInv
<1>2. CASE UNCHANGED fvars
    <2>1. /\ UNCHANGED <<call, step, k, remaining, named, trailed>>
          /\ UNCHANGED <<led, hexed, zeroed, out, written, D, LastBits>>
        BY <1>2 DEF fvars, D, LastBits
    <2>2. FlagTypeOK' /\ (Walking <=> Walking') /\ (Fresh <=> Fresh')
        BY <2>1 DEF FlagInv, FlagTypeOK, Walking, Accounted, NamedBits, Part, Fresh
    <2>3. /\ ReadsBack'
          /\ TrailedUpTo(k) <=> TrailedUpTo(k)'
          /\ TrailedUpTo(Len(D.last) + 1) <=> TrailedUpTo(Len(D.last) + 1)'
        BY <2>1 DEF FlagInv, ReadsBack, Complete, NamedBits, TrailedBits, LedBits,
                    HexBits, HexPart, Meant, TrailedUpTo
    <2> QED
        BY <2>1, <2>2, <2>3 DEF FlagInv
<1> QED
    BY <1>1, <1>2, ZeroTextInv, BeginInv, WalkInv, WalkEndsInv, LastInv, LastEndsInv,
       Zenon DEF FlagNext

(* Whatever the tables and the argument, the text of a decoder of this form   *)
(* that fits its buffer can be read back (format_flag_table_value and the     *)
(* functions like it).                                                        *)
THEOREM TextsReadBack == FlagSpec => []ReadsBack
<1>1. FlagInv => ReadsBack
    BY Zenon DEF FlagInv
<1> QED
    BY <1>1, FlagInitInv, FlagStepInv, PTL DEF FlagSpec

(* Whatever the size of the buffer, no snprintf of these decoders is handed a *)
(* place behind it.                                                           *)
THEOREM PiecesStayInside == FlagSpec => []WritesInside
<1>1. FlagInv => WritesInside
    BY Zenon DEF FlagInv, WritesInside
<1> QED
    BY <1>1, FlagInitInv, FlagStepInv, PTL DEF FlagSpec

------------------------------------------------------------------------------
(* The walk has dealt with every entry before k; when it ends early, the      *)
(* buffer is full.                                                            *)
WideInv ==
  /\ step = "walk" => \A m \in named : m < k
  /\ step = "walk" /\ ~D.exact => \A j \in DOMAIN D.table : j < k => NamedOrCut(j)
  /\ step \in {"last", "rest"} /\ ~D.exact /\ out < call.size =>
       \A j \in DOMAIN D.table : NamedOrCut(j)
  /\ WidestFirst

(* What the walks' tables have in common.                                     *)
LEMMA OrderFacts ==
  ASSUME call \in Call, ~D.exact
  PROVE  InOrder(D)
BY FlagWalkAssumption, TableOrderAssumption, Zenon DEF D

(* More names never make an entry unaccounted for.                            *)
LEMMA StaysNamedOrCut ==
  ASSUME NEW j, NamedOrCut(j), D' = D, LastBits' = LastBits, call' = call,
         named \subseteq named'
  PROVE  NamedOrCut(j)'
BY Zenon DEF NamedOrCut

(* An entry that the walk passes over lacks a bit: it is not set, or taken.   *)
LEMMA PassedOver ==
  ASSUME FlagInv, WideInv, step = "walk", ~D.exact, k \in DOMAIN D.table,
         ~Matches(D.table[k])
  PROVE  NamedOrCut(k)
<1> DEFINE e == D.table[k].bits
<1>1. SUFFICES ASSUME e # {}, e \subseteq call.value \ LastBits, k \notin named,
                      e \cap D.first.bits = {}
               PROVE  \E m \in named : /\ D.table[m].bits \cap e # {}
                                       /\ ~ D.table[m].bits \subseteq e
    BY Zenon DEF NamedOrCut
<1>2. call \in Call /\ Accounted /\ named \subseteq DOMAIN D.table
    BY Zenon DEF FlagInv, FlagTypeOK, Walking
<1>3. InOrder(D)
    BY <1>2, OrderFacts, Zenon
<1>4. e \subseteq Part
    BY <1>1, <1>3, Zenon DEF InOrder, Part
<1>5. PICK b \in e : b \notin remaining
    BY <1>1, Zenon DEF Matches
<1>6. b \in NamedBits
    BY <1>2, <1>4, <1>5, Zenon DEF Accounted
<1>7. PICK m \in named : b \in D.table[m].bits
    BY <1>6, Zenon DEF NamedBits
<1>8. m < k
    BY Zenon DEF WideInv
<1>9. ~ D.table[m].bits \subseteq e
    BY <1>2, <1>3, <1>7, <1>8, Zenon DEF InOrder
<1> QED
    BY <1>5, <1>7, <1>9, Zenon

(* Every step keeps WideInv.                                                  *)
LEMMA WideStep == FlagInv /\ WideInv /\ [FlagNext]_fvars => WideInv'
<1> SUFFICES ASSUME FlagInv, WideInv, [FlagNext]_fvars PROVE WideInv'
    OBVIOUS
<1>0. /\ call \in Call /\ call' = call /\ D' = D /\ LastBits' = LastBits
      /\ k \in Nat \ {0} /\ out \in Nat /\ call.size \in Nat
      /\ DOMAIN D.table = 1 .. Len(D.table) /\ Len(D.table) \in Nat
      /\ named \subseteq DOMAIN D.table
    <2>1. call' = call
        BY Zenon DEF FlagNext, ZeroText, Begin, Walk, WalkEnds, Rest, Last, LastEnds, fvars
    <2> QED
        BY <2>1, DecoderFacts, Zenon DEF FlagInv, FlagTypeOK, D, LastBits
<1>1. CASE ZeroText
    <2>1. /\ step' = "done" /\ call.value \cap D.mask = {}
        BY <1>1, Zenon DEF ZeroText, IsZero
    <2>2. ASSUME ~D.exact, NEW j \in DOMAIN D.table PROVE NamedOrCut(j)'
        <3>1. D.table[j].bits \subseteq D.mask
            BY <1>0, <2>2, OrderFacts, Zenon DEF InOrder
        <3> QED
            BY <1>0, <2>1, <3>1, Zenon DEF NamedOrCut
    <2> QED
        BY <1>0, <2>1, <2>2, Zenon DEF WideInv, WidestFirst
<1>2. CASE Begin
    <2>1. step' = "walk" /\ named' = {} /\ k' = 1
        BY <1>2, Zenon DEF Begin, FlagInv
    <2>2. \A j \in DOMAIN D.table : ~(j < 1)
        BY <1>0
    <2> QED
        BY <1>0, <2>1, <2>2, Zenon DEF WideInv, WidestFirst, Complete
<1>3. CASE Walk
    <2>1. /\ step = "walk" /\ step' = "walk" /\ k' = k + 1 /\ k <= Len(D.table)
          /\ named' = IF Matches(D.table[k]) THEN named \cup {k} ELSE named
        BY <1>3, Zenon DEF Walk, WalkOn
    <2>2. \A m \in named' : m < k'
        <3>1. \A m \in named : m < k /\ m \in Nat
            BY <1>0, <2>1 DEF WideInv
        <3> QED
            BY <1>0, <2>1, <3>1
    <2>3. ASSUME ~D.exact, NEW j \in DOMAIN D.table, j < k' PROVE NamedOrCut(j)'
        <3>0. named \subseteq named'
            BY <2>1, Zenon
        <3>1. CASE j < k
            BY <1>0, <2>1, <2>3, <3>0, <3>1, StaysNamedOrCut, Zenon DEF WideInv
        <3>2. CASE ~(j < k)
            <4>1. j = k /\ k \in DOMAIN D.table
                BY <1>0, <2>1, <2>3, <3>2
            <4>2. CASE Matches(D.table[k])
                BY <2>1, <4>1, <4>2, Zenon DEF NamedOrCut
            <4>3. CASE ~Matches(D.table[k])
                BY <1>0, <2>1, <2>3, <3>0, <4>1, <4>3, PassedOver, StaysNamedOrCut, Zenon
            <4> QED
                BY <4>2, <4>3, Zenon
        <3> QED
            BY <3>1, <3>2, Zenon
    <2> QED
        BY <1>0, <2>1, <2>2, <2>3, Zenon DEF WideInv, WidestFirst, Complete
<1>4. CASE WalkEnds
    <2>1. /\ step = "walk" /\ ~WalkOn /\ named' = named /\ out' = out
          /\ step' = IF D.exact THEN "rest" ELSE "last"
        BY <1>4, Zenon DEF WalkEnds, PutNothing
    <2>2. ASSUME ~D.exact, out < call.size, NEW j \in DOMAIN D.table PROVE NamedOrCut(j)'
        <3>1. j < k
            BY <1>0, <2>1, <2>2 DEF WalkOn, RoomLeft
        <3> QED
            BY <1>0, <2>1, <2>2, <3>1, StaysNamedOrCut, Zenon DEF WideInv
    <2>3. step' \in {"rest", "last"}
        BY <2>1, Zenon
    <2> QED
        BY <1>0, <2>1, <2>2, <2>3, Zenon DEF WideInv, WidestFirst, Complete
<1>5. CASE Rest \/ Last \/ LastEnds
    <2>1. step \in {"rest", "last"} /\ step' \in {"rest", "last", "done"} /\ named' = named
        BY <1>5, Zenon DEF Rest, Last, LastEnds
    <2>2. out' \in Nat /\ out <= out'
        <3>1. CASE Rest
            <4>1. \/ PutNothing
                  \/ \E w \in Nat : Put(w)
                BY <1>0, <3>1, DecoderFacts, NumberWidthType, Zenon DEF Rest
            <4> QED
                BY <1>0, <4>1, PutFacts DEF PutNothing
        <3>2. CASE Last
            <4>1. k \in DOMAIN D.last
                <5>1. k <= Len(D.last)
                    BY <3>2, Zenon DEF Last
                <5> QED
                    BY <1>0, <5>1, DecoderFacts
            <4>2. \/ PutNothing
                  \/ \E w \in Nat : Put(w)
                BY <1>0, <3>2, <4>1, DecoderFacts, Zenon DEF Last
            <4> QED
                BY <1>0, <4>2, PutFacts DEF PutNothing
        <3>3. CASE LastEnds
            BY <1>0, <3>3 DEF LastEnds, PutNothing
        <3> QED
            BY <1>5, <3>1, <3>2, <3>3, Zenon
    <2>3. out' < call.size => out < call.size
        BY <1>0, <2>2
    <2>4. ASSUME ~D.exact, out' < call.size, NEW j \in DOMAIN D.table PROVE NamedOrCut(j)'
        BY <1>0, <2>1, <2>3, <2>4, StaysNamedOrCut, Zenon DEF WideInv
    <2> QED
        BY <1>0, <2>1, <2>4, Zenon DEF WideInv, WidestFirst, Complete
<1>6. CASE UNCHANGED fvars
    <2>1. UNCHANGED <<step, k, named, out>>
        BY <1>6, Zenon DEF fvars
    <2>2. \A j : NamedOrCut(j)' <=> NamedOrCut(j)
        BY <1>0, <2>1, Zenon DEF NamedOrCut
    <2> QED
        BY <1>0, <2>1, <2>2, Zenon DEF WideInv, WidestFirst, Complete
<1> QED
    BY <1>1, <1>2, <1>3, <1>4, <1>5, <1>6, Zenon DEF FlagNext

(* For any argument, and any tables that list a composite flag before its     *)
(* parts, a walk that fits its buffer names the widest entries.               *)
THEOREM WidestIsNamed == FlagSpec => []WidestFirst
<1>1. FlagInit => WideInv
    BY Zenon DEF FlagInit, WideInv, WidestFirst, Complete
<1>2. WideInv => WidestFirst
    BY Zenon DEF WideInv
<1> QED
    BY <1>1, <1>2, FlagInitInv, FlagStepInv, WideStep, PTL DEF FlagSpec

------------------------------------------------------------------------------
(* What was printed of the table and behind it, in characters.                *)
Printed == Cardinality(Characters(D.table, named))
Trailing == Cardinality(Characters(D.last, trailed))

(* A walk has printed no more than the characters of the names it took, a     *)
(* lookup no more than one name or number and the flags that were split off.  *)
FitInv ==
  /\ step = "last" => \A j \in trailed : j < k
  /\ step = "done" /\ zeroed => out = D.zero
  /\ ~D.exact =>
       /\ step \in {"walk", "last", "rest"} =>
            out <= D.first.width + Printed + Trailing
       /\ step = "done" /\ ~zeroed =>
            out <= D.first.width + Printed + Trailing + 1 + MaxNumber(D)
  /\ D.exact =>
       /\ step \in {"walk", "rest"} => \E w \in LookedUp(D) : out <= w
       /\ step = "last" \/ (step = "done" /\ ~zeroed) =>
            \E w \in LookedUp(D) : out <= w + Trailing

(* The characters of some pieces are finitely many, and no more than all.     *)
LEMMA CharactersFinite ==
  ASSUME NEW s \in Seq(EntryType), NEW some, some \subseteq DOMAIN s
  PROVE  /\ IsFiniteSet(Characters(s, some))
         /\ Cardinality(Characters(s, some)) \in Nat
         /\ Cardinality(Characters(s, some)) <= Longest(s)
         /\ Longest(s) \in Nat
<1> DEFINE Of(j) == {j} \X (0 .. s[j].width)
<1>1. /\ Len(s) \in Nat /\ DOMAIN s = 1 .. Len(s)
      /\ \A j \in DOMAIN s : s[j].width \in Nat
    <2>1. \A j \in DOMAIN s : s[j] \in EntryType
        OBVIOUS
    <2> QED
        BY <2>1 DEF EntryType
<1>2. IsFiniteSet(DOMAIN s)
    BY <1>1, FS_Interval, 1 \in Int, Len(s) \in Int, Zenon
<1>3. ASSUME NEW j \in DOMAIN s PROVE IsFiniteSet(Of(j))
    <2>1. IsFiniteSet(0 .. s[j].width)
        <3>1. 0 \in Int /\ s[j].width \in Int
            BY <1>1
        <3> QED
            BY <3>1, FS_Interval, Zenon
    <2> QED
        BY <2>1, FS_Singleton, FS_Product, Zenon
<1>4. ASSUME NEW S, S \subseteq DOMAIN s PROVE IsFiniteSet(Characters(s, S))
    <2> DEFINE T == {Of(j) : j \in S}
               f == [j \in S |-> Of(j)]
    <2>1. f \in Surjection(S, T)
        BY Zenon DEF Surjection
    <2>2. IsFiniteSet(S)
        BY <1>2, <1>4, FS_Subset, Zenon
    <2>3. IsFiniteSet(T)
        BY <2>1, <2>2, FS_Surjection, Zenon
    <2>4. \A t \in T : IsFiniteSet(t)
        BY <1>3, <1>4, Zenon
    <2>5. IsFiniteSet(UNION T)
        <3> HIDE DEF T
        <3> QED
            BY <2>3, <2>4, FS_UNION, Zenon
    <2> QED
        BY <2>5, Zenon DEF Characters
<1>5. IsFiniteSet(Characters(s, some)) /\ IsFiniteSet(Characters(s, DOMAIN s))
    BY <1>4, Zenon
<1>6. Characters(s, some) \subseteq Characters(s, DOMAIN s)
    BY Zenon DEF Characters
<1> QED
    BY <1>5, <1>6, FS_CardinalityType, FS_Subset, Zenon DEF Longest

(* One more piece adds its characters and a separator.                        *)
LEMMA CharactersGrow ==
  ASSUME NEW s \in Seq(EntryType), NEW some, some \subseteq DOMAIN s,
         NEW j \in DOMAIN s, j \notin some
  PROVE  Cardinality(Characters(s, some \cup {j}))
           = Cardinality(Characters(s, some)) + s[j].width + 1
<1> DEFINE Old == Characters(s, some)
           New == {j} \X (0 .. s[j].width)
<1>1. s[j].width \in Nat
    <2>1. s[j] \in EntryType
        OBVIOUS
    <2> QED
        BY <2>1 DEF EntryType
<1>2. IsFiniteSet(0 .. s[j].width) /\ Cardinality(0 .. s[j].width) = s[j].width + 1
    <2>1. 0 \in Int /\ s[j].width \in Int
        BY <1>1
    <2>2. /\ IsFiniteSet(0 .. s[j].width)
          /\ Cardinality(0 .. s[j].width)
               = IF 0 > s[j].width THEN 0 ELSE s[j].width - 0 + 1
        BY <2>1, FS_Interval, Zenon
    <2> QED
        BY <1>1, <2>2
<1>3. IsFiniteSet(New) /\ Cardinality(New) = s[j].width + 1
    <2>1. IsFiniteSet({j}) /\ Cardinality({j}) = 1
        BY FS_Singleton, Zenon
    <2>2. /\ IsFiniteSet(New)
          /\ Cardinality(New) = Cardinality({j}) * Cardinality(0 .. s[j].width)
        BY <1>2, <2>1, FS_Product, Zenon
    <2> QED
        BY <1>1, <1>2, <2>1, <2>2
<1>4. IsFiniteSet(Old) /\ Cardinality(Old) \in Nat
    BY CharactersFinite, Zenon
<1>5. Old \cap New = {} /\ Characters(s, some \cup {j}) = Old \cup New
    <2>1. Characters(s, some \cup {j}) = Old \cup New
        BY Zenon DEF Characters
    <2>2. ASSUME NEW p \in Old, p \in New PROVE FALSE
        <3>1. PICK l \in some : p \in {l} \X (0 .. s[l].width)
            BY Zenon DEF Characters
        <3>2. p[1] = l /\ p[1] = j
            BY <2>2, <3>1
        <3> QED
            BY <3>1, <3>2
    <2> QED
        BY <2>1, <2>2, Zenon
<1>6. Cardinality(Old \cup New)
        = Cardinality(Old) + Cardinality(New) - Cardinality({})
    <2>1. IsFiniteSet(Old) /\ IsFiniteSet(New) /\ Old \cap New = {}
        BY <1>3, <1>4, <1>5, Zenon
    <2> HIDE DEF Old, New
    <2>2. Cardinality(Old \cup New)
            = Cardinality(Old) + Cardinality(New) - Cardinality(Old \cap New)
        BY <2>1, FS_Union, Zenon
    <2> QED
        BY <2>1, <2>2, Zenon
<1>7. Cardinality({}) = 0
    BY FS_EmptySet, Zenon
<1>8. Cardinality(Old \cup New) = Cardinality(Old) + s[j].width + 1
    <2> HIDE DEF Old, New
    <2> QED
        BY <1>1, <1>3, <1>4, <1>6, <1>7
<1> QED
    BY <1>5, <1>8, Zenon

(* A hex piece has at most 16 digits, and another number its longest form.    *)
LEMMA NumberWidthBound ==
  ASSUME call \in Call, NEW bits
  PROVE  NumberWidth(bits) <= MaxNumber(D)
<1> DEFINE S == {d \in 0 .. 15 : d = 0 \/ \E b \in bits : b >= 4 * d}
<1>1. /\ IsFiniteSet(0 .. 15)
      /\ Cardinality(0 .. 15) = IF 0 > 15 THEN 0 ELSE 15 - 0 + 1
    BY FS_Interval, 0 \in Int, 15 \in Int, Zenon
<1>2. IsFiniteSet(S) /\ Cardinality(S) <= Cardinality(0 .. 15)
    BY <1>1, FS_Subset, S \subseteq 0 .. 15
<1>3. Cardinality(S) \in Nat
    BY <1>2, FS_CardinalityType
<1>4. HexWidth(bits) <= MaxHex
    BY <1>1, <1>2, <1>3 DEF HexWidth, MaxHex
<1>5. D.number \in Nat
    BY DecoderFacts, Zenon
<1> HIDE DEF S
<1> QED
    BY <1>4, <1>5 DEF NumberWidth, MaxNumber

(* A piece takes its width and at most a separator.                           *)
LEMMA PutBound ==
  ASSUME out \in Nat, NEW w \in Nat, Put(w)
  PROVE  out' <= out + w + 1 /\ (out = 0 => out' = w)
BY DEF Put

(* What was printed, counted in characters, is a number and within bounds.    *)
LEMMA PrintedFacts ==
  ASSUME FlagTypeOK
  PROVE  /\ Printed \in Nat /\ Printed <= Longest(D.table) /\ Longest(D.table) \in Nat
         /\ Trailing \in Nat /\ Trailing <= Longest(D.last) /\ Longest(D.last) \in Nat
         /\ MaxNumber(D) \in LookedUp(D) /\ \A w \in LookedUp(D) : w \in Nat
<1>1. D.table \in Seq(EntryType) /\ D.last \in Seq(EntryType)
    BY DecoderFacts, Zenon DEF FlagTypeOK
<1>2. named \subseteq DOMAIN D.table /\ trailed \subseteq DOMAIN D.last
    BY Zenon DEF FlagTypeOK
<1>3. MaxNumber(D) \in Nat
    BY DecoderFacts DEF FlagTypeOK, MaxNumber, MaxHex
<1>4. \A j \in DOMAIN D.table : D.table[j].width \in Nat
    BY DecoderFacts DEF FlagTypeOK
<1> QED
    BY <1>1, <1>2, <1>3, <1>4, CharactersFinite, Zenon DEF Printed, Trailing, LookedUp

(* Printing a name, or a flag that was split off, stays within its characters.*)
LEMMA WalkFits ==
  ASSUME FlagInv, FitInv, Walk
  PROVE  FitInv'
<1>1. /\ FlagTypeOK /\ call \in Call /\ D' = D /\ out \in Nat /\ Walking
      /\ step = "walk" /\ step' = "walk" /\ trailed' = trailed
      /\ D.exact \in BOOLEAN /\ D.first.width \in Nat
      /\ D.table \in Seq(EntryType) /\ named \subseteq DOMAIN D.table
    BY DecoderFacts, Zenon DEF FlagInv, FlagTypeOK, Walk, D
<1>2. Printed \in Nat /\ Trailing \in Nat /\ \A w \in LookedUp(D) : w \in Nat
    BY <1>1, PrintedFacts, Zenon
<1>3. Trailing' = Trailing /\ LookedUp(D)' = LookedUp(D)
    BY <1>1, Zenon DEF Trailing, LookedUp
<1>4. CASE ~Matches(D.table[k])
    <2>1. UNCHANGED <<named, out>>
        BY <1>4, Zenon DEF Walk, PutNothing
    <2>2. Printed' = Printed
        BY <1>1, <2>1, Zenon DEF Printed
    <2> QED
        BY <1>1, <1>3, <2>1, <2>2, Zenon DEF FitInv
<1>5. CASE Matches(D.table[k])
    <2>1. named' = named \cup {k} /\ Put(D.table[k].width)
        BY <1>5, Zenon DEF Walk
    <2>2. k \in DOMAIN D.table /\ D.table[k].width \in Nat
        <3>1. k <= Len(D.table) /\ k \in Nat \ {0}
            BY <1>1 DEF Walk, WalkOn, FlagTypeOK
        <3> QED
            BY <1>1, <3>1, DecoderFacts
    <2>3. k \notin named
        <3>1. CASE D.exact
            BY <3>1, Zenon DEF Walk, WalkOn
        <3>2. CASE ~D.exact
            <4>1. D.table[k].bits # {} /\ D.table[k].bits \subseteq remaining
                BY <1>5, <3>2, Zenon DEF Matches
            <4>2. NamedBits \cap remaining = {}
                BY <1>1, Zenon DEF Walking, Accounted
            <4> QED
                BY <4>1, <4>2, Zenon DEF NamedBits
        <3> QED
            BY <3>1, <3>2
    <2>4. Printed' = Printed + D.table[k].width + 1
        BY <1>1, <2>1, <2>2, <2>3, CharactersGrow, Zenon DEF Printed
    <2>5. out' <= out + D.table[k].width + 1 /\ (out = 0 => out' = D.table[k].width)
        BY <1>1, <2>1, <2>2, PutBound, Zenon
    <2>6. out' \in Nat
        BY <1>1, <2>1, <2>2, PutFacts, Zenon
    <2>7. CASE D.exact
        <3>1. out = 0
            BY <1>1, <2>7, Zenon DEF FlagInv, Walk, WalkOn
        <3>2. out' \in LookedUp(D) /\ out' <= out'
            BY <2>2, <2>5, <2>6, <3>1 DEF LookedUp
        <3> QED
            BY <1>1, <1>3, <2>7, <3>2, Zenon DEF FitInv
    <2>8. CASE ~D.exact
        <3>1. out <= D.first.width + Printed + Trailing
            BY <1>1, <2>8, Zenon DEF FitInv
        <3>2. D.first.width \in Nat /\ out \in Nat
            BY <1>1
        <3>3. out' <= D.first.width + Printed' + Trailing
            BY <1>2, <2>2, <2>4, <2>5, <2>6, <3>1, <3>2
        <3> QED
            BY <1>1, <1>3, <2>8, <3>3, Zenon DEF FitInv
    <2> QED
        BY <1>1, <2>7, <2>8
<1> QED
    BY <1>4, <1>5

(* A flag that was split off stays within its characters too.                 *)
LEMMA LastFits ==
  ASSUME FlagInv, FitInv, Last
  PROVE  FitInv'
<1>1. /\ FlagTypeOK /\ call \in Call /\ D' = D /\ out \in Nat /\ named' = named
      /\ step = "last" /\ step' = "last" /\ k \in Nat \ {0} /\ k' = k + 1
      /\ D.exact \in BOOLEAN /\ D.first.width \in Nat
      /\ D.last \in Seq(EntryType) /\ trailed \subseteq DOMAIN D.last
    BY DecoderFacts, Zenon DEF FlagInv, FlagTypeOK, Last, D
<1>2. /\ Printed \in Nat /\ Trailing \in Nat /\ \A w \in LookedUp(D) : w \in Nat
      /\ \A j \in trailed : j \in Nat /\ j < k
    <2>1. trailed \subseteq Nat
        BY <1>1, DecoderFacts
    <2> QED
        BY <1>1, <2>1, PrintedFacts, Zenon DEF FitInv
<1>3. Printed' = Printed /\ LookedUp(D)' = LookedUp(D)
    BY <1>1, Zenon DEF Printed, LookedUp
<1>4. CASE ~(D.last[k].bits \cap call.value # {} /\ RoomLeft)
    <2>1. trailed' = trailed /\ out' = out
        BY <1>4, Zenon DEF Last, PutNothing
    <2>2. Trailing' = Trailing
        BY <1>1, <2>1, Zenon DEF Trailing
    <2>3. \A j \in trailed' : j < k'
        BY <1>1, <1>2, <2>1
    <2> QED
        BY <1>1, <1>3, <2>1, <2>2, <2>3, Zenon DEF FitInv
<1>5. CASE D.last[k].bits \cap call.value # {} /\ RoomLeft
    <2>1. trailed' = trailed \cup {k} /\ Put(D.last[k].width)
        BY <1>5, Zenon DEF Last
    <2>2. k \in DOMAIN D.last /\ D.last[k].width \in Nat /\ k \notin trailed
        <3>1. k <= Len(D.last)
            BY DEF Last
        <3> QED
            BY <1>1, <1>2, <3>1, DecoderFacts
    <2>3. Trailing' = Trailing + D.last[k].width + 1
        BY <1>1, <2>1, <2>2, CharactersGrow, Zenon DEF Trailing
    <2>4. out' <= out + D.last[k].width + 1 /\ out' \in Nat
        BY <1>1, <2>1, <2>2, PutBound, PutFacts, Zenon
    <2>5. \A j \in trailed' : j < k'
        BY <1>1, <1>2, <2>1
    <2>6. CASE D.exact
        <3>1. PICK w \in LookedUp(D) : out <= w + Trailing
            BY <1>1, <2>6, Zenon DEF FitInv
        <3>2. w \in Nat /\ out \in Nat /\ Trailing \in Nat /\ D.last[k].width \in Nat
            BY <1>1, <1>2, <2>2, Zenon
        <3>3. out' <= w + Trailing'
            BY <2>3, <2>4, <3>1, <3>2
        <3> QED
            BY <1>1, <1>3, <2>5, <2>6, <3>3, Zenon DEF FitInv
    <2>7. CASE ~D.exact
        <3>1. out <= D.first.width + Printed + Trailing
            BY <1>1, <2>7, Zenon DEF FitInv
        <3>2. /\ D.first.width \in Nat /\ out \in Nat /\ Printed \in Nat
              /\ Trailing \in Nat /\ D.last[k].width \in Nat
            BY <1>1, <1>2, <2>2, Zenon
        <3>3. out' <= D.first.width + Printed + Trailing'
            BY <2>3, <2>4, <3>1, <3>2
        <3> QED
            BY <1>1, <1>3, <2>5, <2>7, <3>3, Zenon DEF FitInv
    <2> QED
        BY <1>1, <2>6, <2>7
<1> QED
    BY <1>4, <1>5

(* A hex piece is the number of a lookup, or the last piece of a walk.        *)
LEMMA RestFits ==
  ASSUME FlagInv, FitInv, Rest
  PROVE  FitInv'
<1>1. /\ FlagTypeOK /\ call \in Call /\ D' = D /\ out \in Nat
      /\ named' = named /\ trailed' = trailed /\ step = "rest"
      /\ step' = (IF D.exact THEN "last" ELSE "done") /\ Walking
      /\ D.exact \in BOOLEAN /\ D.late \in BOOLEAN /\ D.first.width \in Nat
      /\ D.zero \in Nat /\ zeroed' = (D.late /\ out = 0)
    BY DecoderFacts, Zenon DEF FlagInv, FlagTypeOK, Rest, D
<1>2. /\ Printed \in Nat /\ Trailing \in Nat /\ MaxNumber(D) \in LookedUp(D)
      /\ \A w \in LookedUp(D) : w \in Nat
    BY <1>1, PrintedFacts, Zenon
<1>3. Printed' = Printed /\ Trailing' = Trailing /\ LookedUp(D)' = LookedUp(D)
    BY <1>1, Zenon DEF Printed, Trailing, LookedUp
<1>4. /\ NumberWidth(HexPart) \in Nat /\ NumberWidth(HexPart) <= MaxNumber(D)
      /\ MaxNumber(D) \in Nat
    BY <1>1, NumberWidthType, NumberWidthBound, <1>2, Zenon
<1>5. CASE D.exact
    <2>1. ~D.late /\ trailed = {} /\ (named = {} => out = 0)
        BY <1>1, <1>5, DecoderFacts, Zenon DEF DecoderOK, FlagInv, Fresh
    <2>2. \E w \in LookedUp(D) : out' <= w + Trailing
        <3>1. CASE named = {}
            <4>1. Put(NumberWidth(HexPart)) /\ out = 0
                BY <1>5, <2>1, <3>1, Zenon DEF Rest, NeedsHex
            <4>2. out' = NumberWidth(HexPart)
                BY <1>1, <1>4, <4>1, PutBound, Zenon
            <4>3. out' <= MaxNumber(D) + Trailing
                BY <1>2, <1>4, <4>2
            <4> QED
                BY <1>2, <4>3
        <3>2. CASE named # {}
            <4>1. out' = out
                BY <1>5, <2>1, <3>2, Zenon DEF Rest, NeedsHex, PutNothing
            <4>2. PICK w \in LookedUp(D) : out <= w
                BY <1>1, <1>5, Zenon DEF FitInv
            <4>3. w \in Nat /\ out' <= w + Trailing
                BY <1>1, <1>2, <4>1, <4>2
            <4> QED
                BY <4>3
        <3> QED
            BY <3>1, <3>2
    <2>3. step' = "last" /\ \A j \in trailed' : j < k'
        BY <1>1, <1>5, <2>1, Zenon
    <2> QED
        BY <1>1, <1>3, <1>5, <2>2, <2>3, Zenon DEF FitInv
<1>6. CASE ~D.exact
    <2>1. out <= D.first.width + Printed + Trailing
        BY <1>1, <1>6, Zenon DEF FitInv
    <2>2. CASE D.late /\ out = 0
        <3>1. Put(D.zero)
            BY <2>2, Zenon DEF Rest
        <3>2. out' = D.zero
            BY <1>1, <2>2, <3>1, PutBound, Zenon
        <3> QED
            BY <1>1, <1>6, <2>2, <3>2, Zenon DEF FitInv
    <2>3. CASE ~(D.late /\ out = 0)
        <3>1. PutNothing \/ Put(NumberWidth(HexPart))
            BY <2>3, Zenon DEF Rest
        <3>2. out' <= out + NumberWidth(HexPart) + 1 /\ out' \in Nat
            <4>1. CASE PutNothing
                BY <1>1, <1>4, <4>1 DEF PutNothing
            <4>2. CASE Put(NumberWidth(HexPart))
                BY <1>1, <1>4, <4>2, PutBound, PutFacts, Zenon
            <4> QED
                BY <3>1, <4>1, <4>2
        <3>3. out' <= D.first.width + Printed + Trailing + 1 + MaxNumber(D)
            BY <1>1, <1>2, <1>4, <2>1, <3>2
        <3> QED
            BY <1>1, <1>3, <1>6, <2>3, <3>3, Zenon DEF FitInv
    <2> QED
        BY <2>2, <2>3
<1> QED
    BY <1>1, <1>5, <1>6

(* Every step keeps what was printed within its characters.                   *)
LEMMA FitStep ==
  ASSUME FlagInv, FitInv, [FlagNext]_fvars
  PROVE  FitInv'
<1>1. /\ FlagTypeOK /\ call \in Call /\ out \in Nat
      /\ D.exact \in BOOLEAN /\ D.first.width \in Nat /\ D.zero \in Nat
    BY DecoderFacts, Zenon DEF FlagInv, FlagTypeOK
<1>2. /\ Printed \in Nat /\ Trailing \in Nat /\ MaxNumber(D) \in LookedUp(D)
      /\ MaxNumber(D) \in Nat /\ \A w \in LookedUp(D) : w \in Nat
    BY <1>1, PrintedFacts, Zenon
<1>3. ASSUME UNCHANGED <<call, named, trailed>>
      PROVE  /\ D' = D /\ Printed' = Printed /\ Trailing' = Trailing
             /\ LookedUp(D)' = LookedUp(D)
    BY <1>3, Zenon DEF D, Printed, Trailing, LookedUp
<1>4. CASE ZeroText
    <2>1. Put(D.zero) /\ out = 0 /\ D' = D /\ step' = "done" /\ zeroed'
        BY <1>4, Zenon DEF FlagInv, ZeroText, D
    <2>2. out' = D.zero
        BY <1>1, <2>1, PutBound, Zenon
    <2> QED
        BY <2>1, <2>2, Zenon DEF FitInv
<1>5. CASE Begin
    <2>1. /\ out = 0 /\ step' = "walk" /\ UNCHANGED <<call, named, trailed>>
          /\ IF Leads THEN Put(D.first.width) ELSE PutNothing
        BY <1>5, Zenon DEF FlagInv, Begin
    <2>2. out' = 0 \/ (Leads /\ out' = D.first.width)
        <3>1. CASE Leads
            BY <1>1, <2>1, <3>1, PutBound, Zenon
        <3>2. CASE ~Leads
            BY <2>1, <3>2, Zenon DEF PutNothing
        <3> QED
            BY <3>1, <3>2
    <2>3. D.exact => out' = 0
        <3>1. D.exact => ~Leads
            BY <1>1, DecoderFacts, Zenon DEF DecoderOK, Leads
        <3> QED
            BY <2>2, <3>1, Zenon
    <2>4. out' <= D.first.width + Printed + Trailing
        BY <1>1, <1>2, <2>2
    <2>5. D.exact => out' <= MaxNumber(D)
        BY <1>2, <2>3
    <2> QED
        BY <1>2, <1>3, <2>1, <2>4, <2>5, Zenon DEF FitInv
<1>6. CASE WalkEnds
    <2>1. /\ step = "walk" /\ UNCHANGED <<call, named, trailed, out>>
          /\ step' = (IF D.exact THEN "rest" ELSE "last") /\ trailed = {}
        BY <1>6, Zenon DEF FlagInv, Fresh, WalkEnds, PutNothing
    <2>2. \A j \in trailed' : j < k'
        BY <2>1, Zenon
    <2> QED
        BY <1>1, <1>3, <2>1, <2>2, Zenon DEF FitInv
<1>7. CASE LastEnds
    <2>1. /\ step = "last" /\ UNCHANGED <<call, named, trailed, zeroed, out>>
          /\ step' = (IF D.exact THEN "done" ELSE "rest")
        BY <1>7, Zenon DEF LastEnds, PutNothing
    <2>2. D.exact => ~zeroed
        BY <2>1, Zenon DEF FlagInv, Walking
    <2> QED
        BY <1>1, <1>3, <2>1, <2>2, Zenon DEF FitInv
<1>8. CASE UNCHANGED fvars
    <2>1. UNCHANGED <<call, step, k, named, trailed, zeroed, out>>
        BY <1>8, Zenon DEF fvars
    <2> QED
        BY <1>3, <2>1, Zenon DEF FitInv
<1> QED
    BY <1>4, <1>5, <1>6, <1>7, <1>8, WalkFits, LastFits, RestFits, Zenon DEF FlagNext

(* Whatever the argument, and for any tables whose longest text fits the      *)
(* buffers that the callers have, no decoder's text is cut.                   *)
THEOREM LongestTextFits == FlagSpec => []EveryTextFits
<1>1. FlagInit => FitInv
    BY Zenon DEF FlagInit, FitInv
<1>2. ASSUME FlagInv, FitInv PROVE EveryTextFits
    <2> SUFFICES ASSUME step = "done", call.fn \in DOMAIN Buffers,
                        call.size >= Buffers[call.fn]
                 PROVE  out < call.size
        BY Zenon DEF EveryTextFits
    <2>1. /\ FlagTypeOK /\ call \in Call /\ out \in Nat /\ call.size \in Nat
          /\ D.exact \in BOOLEAN /\ D.first.width \in Nat /\ zeroed \in BOOLEAN
          /\ D.zero \in Nat
        BY <1>2, DecoderFacts, Zenon DEF FlagInv, FlagTypeOK
    <2> DEFINE room == Buffers[call.fn]
    <2>2. room \in Nat /\ LongestFits(D, room)
        BY BuffersAssumption, Zenon DEF D
    <2>3. /\ Printed \in Nat /\ Printed <= Longest(D.table)
          /\ Longest(D.table) \in Nat
          /\ Trailing \in Nat /\ Trailing <= Longest(D.last)
          /\ Longest(D.last) \in Nat
          /\ MaxNumber(D) \in LookedUp(D) /\ \A w \in LookedUp(D) : w \in Nat
        BY <2>1, PrintedFacts, Zenon
    <2>4. out < room
        <3>1. CASE zeroed
            BY <1>2, <2>2, <3>1, Zenon DEF FitInv, LongestFits
        <3>2. CASE ~zeroed /\ D.exact
            <4>1. PICK w \in LookedUp(D) : out <= w + Trailing
                BY <1>2, <3>2, Zenon DEF FitInv
            <4>2. w \in Nat /\ w + Longest(D.last) < room
                BY <2>2, <2>3, <3>2, Zenon DEF LongestFits
            <4> HIDE DEF room
            <4> QED
                BY <2>1, <2>2, <2>3, <4>1, <4>2
        <3>3. CASE ~zeroed /\ ~D.exact
            <4>1. /\ out <= D.first.width + Printed + Trailing + 1 + MaxNumber(D)
                  /\ D.first.width + Longest(D.table) + Longest(D.last) + 1 + MaxNumber(D) < room
                BY <1>2, <2>2, <3>3, Zenon DEF FitInv, LongestFits
            <4> HIDE DEF room
            <4> QED
                BY <2>1, <2>2, <2>3, <4>1
        <3> QED
            BY <2>1, <3>1, <3>2, <3>3
    <2> QED
        BY <2>1, <2>2, <2>4
<1> QED
    BY <1>1, <1>2, FlagInitInv, FlagStepInv, FitStep, PTL DEF FlagSpec

------------------------------------------------------------------------------
(* How many more steps a decoder of an integer can take: it goes through its  *)
(* two tables once, the trailing one before or after the hex piece.           *)
WalkStepsLeft ==
  CASE step = "first" -> Len(D.table) + Len(D.last) + 6
    [] step = "walk" -> Len(D.last) + 4 + (Len(D.table) + 2 - k)
    [] step = "last" -> 2 + (Len(D.last) + 1 - k)
    [] step = "rest" -> IF D.exact THEN Len(D.last) + 4 ELSE 1
    [] OTHER -> 0

(* The index stops one behind the table that it goes through.                 *)
IndexInv == /\ step = "walk" => k <= Len(D.table) + 1
            /\ step = "last" => k <= Len(D.last) + 1

(* Each step is one further in a table, or goes on to the next part.          *)
LEMMA WalkShape ==
  ASSUME FlagInv, IndexInv, FlagNext
  PROVE  /\ D' = D
         /\ \/ step = "first" /\ step' \in {"walk", "done"} /\ k = 1 /\ k' = k
            \/ step = "walk" /\ step' = "walk" /\ k <= Len(D.table) /\ k' = k + 1
            \/ step = "walk" /\ step' = (IF D.exact THEN "rest" ELSE "last") /\ k' = 1
            \/ step = "rest" /\ D.exact /\ step' = "last" /\ k = 1 /\ k' = k
            \/ step = "rest" /\ ~D.exact /\ step' = "done" /\ k' = k
            \/ step = "last" /\ step' = "last" /\ k <= Len(D.last) /\ k' = k + 1
            \/ step = "last" /\ step' = (IF D.exact THEN "done" ELSE "rest") /\ k' = k
<1>1. /\ step = "first" => k = 1
      /\ step = "rest" /\ D.exact => k = 1
    BY Zenon DEF FlagInv
<1>2. CASE ZeroText \/ Begin
    BY <1>1, <1>2, Zenon DEF ZeroText, Begin, D
<1>3. CASE Walk \/ WalkEnds
    BY <1>3, Zenon DEF Walk, WalkOn, WalkEnds, D
<1>4. CASE Rest
    <2>1. /\ step = "rest" /\ step' = (IF D.exact THEN "last" ELSE "done")
          /\ UNCHANGED <<call, k>>
        BY <1>4, Zenon DEF Rest
    <2> QED
        BY <1>1, <2>1, Zenon DEF D
<1>5. CASE Last \/ LastEnds
    BY <1>5, Zenon DEF Last, LastEnds, D
<1> QED
    BY <1>2, <1>3, <1>4, <1>5, Zenon DEF FlagNext

(* So every decoder of an integer ends, after as many steps as its tables are *)
(* long and six more, whatever the argument and however short the buffer.     *)
THEOREM EveryWalkEnds ==
  FlagSpec => /\ [](WalkStepsLeft \in 0 .. (Len(D.table) + Len(D.last) + 6))
              /\ [][WalkStepsLeft' < WalkStepsLeft]_fvars
<1>1. ASSUME FlagInv
      PROVE  k \in Nat \ {0} /\ Len(D.table) \in Nat /\ Len(D.last) \in Nat
    BY <1>1, DecoderFacts, Zenon DEF FlagInv, FlagTypeOK
<1>2. FlagInit => IndexInv
    BY Zenon DEF FlagInit, IndexInv
<1>3. ASSUME FlagInv, IndexInv, [FlagNext]_fvars
      PROVE  IndexInv' /\ [WalkStepsLeft' < WalkStepsLeft]_fvars
    <2>1. CASE FlagNext
        <3>1. /\ D' = D
              /\ \/ step = "first" /\ step' \in {"walk", "done"} /\ k = 1 /\ k' = k
                 \/ step = "walk" /\ step' = "walk" /\ k <= Len(D.table) /\ k' = k + 1
                 \/ step = "walk" /\ step' = (IF D.exact THEN "rest" ELSE "last") /\ k' = 1
                 \/ step = "rest" /\ D.exact /\ step' = "last" /\ k = 1 /\ k' = k
                 \/ step = "rest" /\ ~D.exact /\ step' = "done" /\ k' = k
                 \/ step = "last" /\ step' = "last" /\ k <= Len(D.last) /\ k' = k + 1
                 \/ step = "last" /\ step' = (IF D.exact THEN "done" ELSE "rest") /\ k' = k
            BY <1>3, <2>1, WalkShape
        <3>2. k \in Nat \ {0} /\ Len(D.table) \in Nat /\ Len(D.last) \in Nat
            BY <1>1, <1>3
        <3>3. IndexInv'
            BY <3>1, <3>2 DEF IndexInv
        <3> DEFINE T == Len(D.table)  L == Len(D.last)
        <3>4. T \in Nat /\ L \in Nat /\ T' = T /\ L' = L /\ D.exact' = D.exact
            BY <3>1, <3>2, Zenon
        <3>5. /\ step = "walk" => k <= T + 1
              /\ step = "last" => k <= L + 1
            BY <1>3, Zenon DEF IndexInv
        <3>6. /\ step = "first" => WalkStepsLeft = T + L + 6
              /\ step = "walk" => WalkStepsLeft = L + 4 + (T + 2 - k)
              /\ step = "last" => WalkStepsLeft = 2 + (L + 1 - k)
              /\ step = "rest" => WalkStepsLeft = IF D.exact THEN L + 4 ELSE 1
            BY Zenon DEF WalkStepsLeft
        <3>7. /\ step' = "walk" => WalkStepsLeft' = L + 4 + (T + 2 - k')
              /\ step' = "last" => WalkStepsLeft' = 2 + (L + 1 - k')
              /\ step' = "rest" => WalkStepsLeft' = IF D.exact THEN L + 4 ELSE 1
              /\ step' = "done" => WalkStepsLeft' = 0
            BY <3>4, Zenon DEF WalkStepsLeft
        <3>8. \/ step = "first" /\ step' \in {"walk", "done"} /\ k = 1 /\ k' = k
              \/ step = "walk" /\ step' = "walk" /\ k <= T /\ k' = k + 1
              \/ step = "walk" /\ step' = (IF D.exact THEN "rest" ELSE "last") /\ k' = 1
              \/ step = "rest" /\ D.exact /\ step' = "last" /\ k = 1 /\ k' = k
              \/ step = "rest" /\ ~D.exact /\ step' = "done"
              \/ step = "last" /\ step' = "last" /\ k <= L /\ k' = k + 1
              \/ step = "last" /\ step' = (IF D.exact THEN "done" ELSE "rest")
            BY <3>1, Zenon
        <3> HIDE DEF T, L
        <3>9. WalkStepsLeft' < WalkStepsLeft
            BY <3>2, <3>4, <3>5, <3>6, <3>7, <3>8
        <3> QED
            BY <3>3, <3>9
    <2>2. CASE UNCHANGED fvars
        BY <1>3, <2>2, Zenon DEF fvars, IndexInv, D
    <2> QED
        BY <1>3, <2>1, <2>2
<1>4. ASSUME FlagInv, IndexInv
      PROVE  WalkStepsLeft \in 0 .. (Len(D.table) + Len(D.last) + 6)
    <2> DEFINE T == Len(D.table)  L == Len(D.last)
    <2>1. k \in Nat \ {0} /\ T \in Nat /\ L \in Nat
        BY <1>1, <1>4
    <2>2. \/ WalkStepsLeft = T + L + 6
          \/ WalkStepsLeft = L + 4 + (T + 2 - k) /\ k <= T + 1
          \/ WalkStepsLeft = 2 + (L + 1 - k) /\ k <= L + 1
          \/ WalkStepsLeft \in {L + 4, 1, 0}
        BY <1>4, Zenon DEF IndexInv, WalkStepsLeft
    <2> HIDE DEF T, L
    <2>3. WalkStepsLeft \in 0 .. (T + L + 6)
        BY <2>1, <2>2
    <2> QED
        BY <2>3, Zenon DEF T, L
<1> QED
    BY <1>2, <1>3, <1>4, FlagInitInv, FlagStepInv, PTL DEF FlagSpec

------------------------------------------------------------------------------
(* Strings, buffers and structures.                                           *)
USE ChildMemAssumption

Reading == {"start", "read_child_string", "read_child_buffer", "measure"}

TextTypeOK ==
  /\ fn \in {"read_child_string", "read_child_buffer"} /\ addr \in {0, 1}
  /\ mem \in Seq(DOMAIN Width) /\ Len(mem) <= MaxMem
  /\ max_str_len \in StrLens /\ arg_len \in BufLens
  /\ pc \in Reading \cup {"escape", "done"}
  /\ got \in Nat /\ len \in Nat /\ i \in Nat /\ oi \in Nat
  /\ truncated \in BOOLEAN /\ closed \in BOOLEAN /\ dots \in BOOLEAN

(* What the read loops establish: the bytes read are mapped, and a buffer's   *)
(* are no more than wanted.                                                   *)
ReadInv ==
  /\ got <= Len(mem)
  /\ pc = "read_child_string" => fn = "read_child_string"
  /\ fn = "read_child_buffer" => got <= Want
  /\ pc \in Reading => result = "none" /\ i = 0

(* What the escape loop relies on: there is room for the quote and the        *)
(* terminator, and a text that is not marked as cut covers the argument.      *)
EscapeInv ==
  /\ result = "text" /\ oi + 2 <= BufLen
  /\ i <= len /\ len <= got /\ len <= max_str_len /\ len <= RealLength
  /\ ~truncated => len = RealLength

TextInv ==
  /\ TextTypeOK /\ ReadInv
  /\ pc = "escape" => EscapeInv
  /\ ShowsOnlyTheArgument /\ QuotedAndTerminated /\ UnmarkedCutsAreFull

------------------------------------------------------------------------------
(* A set of positions has a first one.                                        *)
LEMMA FirstOfIsFirst ==
  ASSUME NEW S, S \subseteq Nat, S # {}
  PROVE  FirstOf(S) \in S /\ \A b \in S : FirstOf(S) <= b
<1> DEFINE R == {r \in Nat \X Nat : r[1] < r[2]}
<1>1. IsWellFoundedOn(R, Nat)
    BY NatLessThanWellFounded, Zenon DEF OpToRel
<1>2. \E x \in S : \A y \in S : ~(<<y, x>> \in R)
    <2> HIDE DEF R
    <2> QED
        BY <1>1, WFMin, Zenon
<1>3. PICK x \in S : \A y \in S : ~(<<y, x>> \in R)
    BY <1>2
<1>4. \A y \in S : x <= y
    <2> TAKE y \in S
    <2>1. x \in Nat /\ y \in Nat /\ ~(y < x)
        BY <1>3, Zenon
    <2> QED
        BY <2>1
<1> QED
    BY <1>3, <1>4, Zenon DEF FirstOf

(* The limits and lengths are numbers.                                        *)
LEMMA Numbers ==
  ASSUME TextTypeOK
  PROVE  /\ Word \in Nat \ {0} /\ BufLen \in Nat /\ BufLen > 6 /\ MaxMem \in Nat
         /\ max_str_len \in Nat \ {0} /\ max_str_len <= BufLen
         /\ arg_len \in Nat /\ Len(mem) \in Nat
         /\ Want \in Nat /\ Want <= arg_len /\ Want <= max_str_len
<1>1. /\ max_str_len \in Nat \ {0} /\ max_str_len <= BufLen
      /\ arg_len \in Nat /\ Len(mem) \in Nat
    BY DEF TextTypeOK
<1> QED
    BY <1>1 DEF Want, Min

(* The bytes before the first nul of the window are bytes of the string, and  *)
(* all of it if the window holds the nul.                                     *)
LEMMA NulFacts ==
  ASSUME TextTypeOK, got <= Len(mem), fn = "read_child_string"
  PROVE  /\ BeforeNul \in Nat /\ BeforeNul <= got
         /\ BeforeNul <= RealLength
         /\ BeforeNul < got => BeforeNul = RealLength
         /\ IF Nuls(got) = {} THEN BeforeNul = got ELSE BeforeNul < got
<1>1. got \in Nat /\ Len(mem) \in Nat /\ Len(mem) <= MaxMem /\ MaxMem \in Nat
    BY Numbers DEF TextTypeOK
<1>2. /\ Nuls(got) \subseteq Nat /\ Nuls(Len(mem)) \subseteq Nat
      /\ Nuls(got) \subseteq Nuls(Len(mem))
      /\ \A m \in Nuls(Len(mem)) : m \in 1 .. Len(mem)
      /\ \A m \in Nuls(got) : m \in 1 .. got
      /\ \A m \in Nuls(Len(mem)) : m <= got => m \in Nuls(got)
    BY <1>1 DEF Nuls
<1>3. CASE Nuls(got) # {}
    <2>1. Nuls(Len(mem)) # {}
        BY <1>2, <1>3
    <2> DEFINE a == FirstOf(Nuls(got))
               b == FirstOf(Nuls(Len(mem)))
    <2>2. a \in Nuls(got) /\ \A m \in Nuls(got) : a <= m
        BY <1>2, <1>3, FirstOfIsFirst
    <2>3. b \in Nuls(Len(mem)) /\ \A m \in Nuls(Len(mem)) : b <= m
        BY <1>2, <2>1, FirstOfIsFirst
    <2>4. BeforeNul = a - 1 /\ RealLength = b - 1
        BY <1>3, <2>1, Zenon DEF BeforeNul, RealLength
    <2> HIDE DEF a, b
    <2>5. a = b
        BY <1>1, <1>2, <2>2, <2>3
    <2> QED
        BY <1>1, <1>2, <2>2, <2>4, <2>5
<1>4. CASE Nuls(got) = {}
    <2>1. BeforeNul = got
        BY <1>4, Zenon DEF BeforeNul
    <2>2. CASE Nuls(Len(mem)) # {}
        <3> DEFINE b == FirstOf(Nuls(Len(mem)))
        <3>1. b \in Nuls(Len(mem))
            BY <1>2, <2>2, FirstOfIsFirst
        <3>2. RealLength = b - 1
            BY <2>2, Zenon DEF RealLength
        <3> HIDE DEF b
        <3>3. got < b /\ b \in Nat
            BY <1>1, <1>2, <1>4, <3>1
        <3> QED
            BY <1>1, <1>4, <2>1, <3>2, <3>3
    <2>3. CASE Nuls(Len(mem)) = {}
        <3>1. RealLength = MaxMem + 1
            BY <2>3, Zenon DEF RealLength
        <3> QED
            BY <1>1, <1>4, <2>1, <3>1
    <2> QED
        BY <2>2, <2>3
<1> QED
    BY <1>3, <1>4

(* So is the length of the argument.                                          *)
LEMMA RealIsInt ==
  ASSUME TextTypeOK
  PROVE  RealLength \in Int
<1>1. arg_len \in Int /\ MaxMem + 1 \in Int
    BY Numbers
<1>2. CASE Nuls(Len(mem)) # {}
    <2>1. Nuls(Len(mem)) \subseteq Nat
        BY DEF Nuls
    <2>2. FirstOf(Nuls(Len(mem))) \in Nat
        BY <1>2, <2>1, FirstOfIsFirst
    <2>3. FirstOf(Nuls(Len(mem))) - 1 \in Int
        BY <2>2
    <2> QED
        BY <1>1, <1>2, <2>3, Zenon DEF RealLength
<1>3. CASE Nuls(Len(mem)) = {}
    BY <1>1, <1>3, Zenon DEF RealLength
<1> QED
    BY <1>2, <1>3

(* The argument stays what it is.                                             *)
LEMMA InputKept ==
  ASSUME UNCHANGED input
  PROVE  /\ UNCHANGED <<fn, addr, mem, max_str_len, arg_len>>
         /\ RealLength' = RealLength /\ Want' = Want
BY DEF input, RealLength, Nuls, Want

------------------------------------------------------------------------------
(* The call starts with nothing read.                                         *)
LEMMA TextInit == CInit => TextInv
<1> SUFFICES ASSUME CInit PROVE TextInv
    OBVIOUS
<1>1. mem \in Seq(DOMAIN Width) /\ Len(mem) <= MaxMem /\ Len(mem) \in Nat
    <2>1. PICK e \in 0 .. MaxMem : mem \in [1 .. e -> DOMAIN Width]
        BY Zenon DEF CInit
    <2> QED
        BY <2>1
<1>2. TextTypeOK
    BY <1>1, Zenon DEF CInit, TextTypeOK, Reading
<1>3. ReadInv
    BY <1>1, <1>2, Numbers DEF CInit, ReadInv
<1> QED
    BY <1>2, <1>3, Zenon DEF CInit, TextInv, AsText, ShowsOnlyTheArgument,
       QuotedAndTerminated, UnmarkedCutsAreFull

(* While there is no text, the three properties say nothing.                  *)
LEMMA NoTextAfter ==
  ASSUME ~AsText'
  PROVE  ShowsOnlyTheArgument' /\ QuotedAndTerminated' /\ UnmarkedCutsAreFull'
BY Zenon DEF ShowsOnlyTheArgument, QuotedAndTerminated, UnmarkedCutsAreFull

(* A NULL pointer is printed as such, any other is read.                      *)
LEMMA StartInv ==
  ASSUME TextInv, Start
  PROVE  TextInv'
<1>1. UNCHANGED input /\ UNCHANGED <<got, len, truncated, i, oi, closed, dots>>
    BY Zenon DEF Start
<1>2. /\ pc = "start" /\ pc' = (IF addr = 0 THEN "done" ELSE fn)
      /\ result' = (IF addr = 0 THEN "NULL" ELSE result)
      /\ result = "none" /\ i = 0
    BY Zenon DEF Start, TextInv, ReadInv, Reading
<1>3. TextTypeOK'
    BY <1>1, <1>2, InputKept, Zenon DEF TextInv, TextTypeOK, Reading
<1>4. ReadInv'
    BY <1>1, <1>2, InputKept, Zenon DEF TextInv, TextTypeOK, ReadInv, Reading
<1>5. ~AsText' /\ pc' # "escape"
    BY <1>2, Zenon DEF AsText, TextInv, TextTypeOK
<1> QED
    BY <1>3, <1>4, <1>5, NoTextAfter, Zenon DEF TextInv

(* A word of a string is read whole.                                          *)
LEMMA PeekStringInv ==
  ASSUME TextInv, PeekString
  PROVE  TextInv'
<1>1. UNCHANGED input /\ UNCHANGED <<len, truncated, i, oi, closed, dots, result>>
    BY Zenon DEF PeekString
<1>2. /\ TextTypeOK /\ got \in Nat /\ got <= Len(mem) /\ fn = "read_child_string"
      /\ result = "none" /\ i = 0 /\ pc' \in {"read_child_string", "measure"}
    BY Zenon DEF PeekString, TextInv, TextTypeOK, ReadInv, Reading
<1>3. got' \in Nat /\ got' <= Len(mem)
    BY <1>2, Numbers DEF PeekString, Mapped
<1>4. TextTypeOK'
    BY <1>1, <1>2, <1>3, InputKept, Zenon DEF TextTypeOK, Reading
<1>5. ReadInv'
    BY <1>1, <1>2, <1>3, InputKept, Zenon DEF ReadInv, Reading
<1> QED
    BY <1>2, <1>4, <1>5, NoTextAfter, Zenon DEF TextInv, AsText

(* The last word of a buffer is used in part.                                 *)
LEMMA PeekBufferInv ==
  ASSUME TextInv, PeekBuffer
  PROVE  TextInv'
<1>1. UNCHANGED input /\ UNCHANGED <<len, truncated, i, oi, closed, dots, result>>
    BY Zenon DEF PeekBuffer
<1>2. /\ TextTypeOK /\ got \in Nat /\ got <= Len(mem)
      /\ (fn = "read_child_buffer" => got <= Want)
      /\ result = "none" /\ i = 0 /\ pc' \in {"read_child_buffer", "measure"}
    BY Zenon DEF PeekBuffer, TextInv, TextTypeOK, ReadInv, Reading
<1>3. /\ got' \in Nat /\ got' <= Len(mem)
      /\ fn = "read_child_buffer" => got' <= Want
    BY <1>2, Numbers DEF PeekBuffer, Mapped, Min
<1>4. TextTypeOK'
    BY <1>1, <1>2, <1>3, InputKept, Zenon DEF TextTypeOK, Reading
<1>5. ReadInv'
    BY <1>1, <1>2, <1>3, InputKept, Zenon DEF ReadInv, Reading
<1> QED
    BY <1>2, <1>4, <1>5, NoTextAfter, Zenon DEF TextInv, AsText

(* A string is clamped to -s, and marked unless its end was seen.             *)
LEMMA MeasureStringInv ==
  ASSUME TextInv, MeasureString
  PROVE  TextInv'
<1>1. /\ UNCHANGED input /\ UNCHANGED <<got, i, closed, dots>>
      /\ pc' = (IF got = 0 THEN "done" ELSE "escape")
      /\ result' = (IF got = 0 THEN "address" ELSE "text")
      /\ len' = Min(BeforeNul, max_str_len)
      /\ truncated' = (BeforeNul = got \/ BeforeNul > max_str_len)
      /\ oi' = (IF got = 0 THEN 0 ELSE 1)
    BY DEF MeasureString, Clamped
<1>2. /\ TextTypeOK /\ got \in Nat /\ got <= Len(mem) /\ fn = "read_child_string"
      /\ i = 0
    BY Zenon DEF MeasureString, TextInv, TextTypeOK, ReadInv, Reading
<1>3. /\ BeforeNul \in Nat /\ BeforeNul <= got /\ BeforeNul <= RealLength
      /\ BeforeNul < got => BeforeNul = RealLength
    BY <1>2, NulFacts, Zenon
<1>4. /\ len' \in Nat /\ len' <= got /\ len' <= max_str_len /\ 0 <= len'
      /\ len' <= BeforeNul
    BY <1>1, <1>2, <1>3, Numbers DEF Min
<1>5. ~truncated' => len' = RealLength
    <2>1. ~truncated' => BeforeNul # got /\ ~(BeforeNul > max_str_len)
        BY <1>1, Zenon
    <2>2. BeforeNul # got /\ ~(BeforeNul > max_str_len) =>
            len' = BeforeNul /\ BeforeNul = RealLength
        BY <1>1, <1>2, <1>3, Numbers DEF Min
    <2> QED
        BY <2>1, <2>2
<1>6. oi' \in Nat /\ oi' + 2 <= BufLen /\ truncated' \in BOOLEAN
    BY <1>1, <1>2, Numbers
<1>7. TextTypeOK'
    BY <1>1, <1>2, <1>4, <1>6, InputKept, Zenon DEF TextTypeOK, Reading
<1>8. ReadInv'
    BY <1>1, <1>2, InputKept, Zenon DEF TextInv, ReadInv, Reading
<1>9. pc' = "escape" => EscapeInv'
    <2>1. len' <= RealLength
        <3>1. RealLength \in Int
            BY <1>2, <1>3, RealIsInt
        <3> QED
            BY <1>3, <1>4, <3>1
    <2> QED
        BY <1>1, <1>2, <1>4, <1>5, <1>6, <2>1, InputKept, Zenon DEF EscapeInv
<1> QED
    BY <1>1, <1>7, <1>8, <1>9, NoTextAfter, Zenon DEF TextInv, AsText

(* A buffer is marked if its length argument says there is more.              *)
LEMMA MeasureBufferInv ==
  ASSUME TextInv, MeasureBuffer
  PROVE  TextInv'
<1>1. /\ UNCHANGED input /\ UNCHANGED <<got, i, closed, dots>>
      /\ pc' = (IF got = 0 THEN "done" ELSE "escape")
      /\ result' = (IF got = 0 THEN "address" ELSE "text")
      /\ len' = got /\ truncated' = (arg_len > got)
      /\ oi' = (IF got = 0 THEN 0 ELSE 1)
    BY DEF MeasureBuffer
<1>2. /\ TextTypeOK /\ got \in Nat /\ got <= Want /\ fn = "read_child_buffer"
      /\ i = 0 /\ RealLength = arg_len
    BY Zenon DEF MeasureBuffer, TextInv, TextTypeOK, ReadInv, Reading, RealLength
<1>3. /\ len' \in Nat /\ len' <= got /\ len' <= max_str_len /\ 0 <= len'
      /\ len' <= RealLength
    BY <1>1, <1>2, Numbers
<1>4. ~truncated' => len' = RealLength
    <2>1. ~truncated' => ~(arg_len > got)
        BY <1>1, Zenon
    <2> QED
        BY <1>1, <1>2, <2>1, Numbers
<1>5. oi' \in Nat /\ oi' + 2 <= BufLen /\ truncated' \in BOOLEAN
    BY <1>1, <1>2, Numbers
<1>6. TextTypeOK'
    BY <1>1, <1>2, <1>3, <1>5, InputKept, Zenon DEF TextTypeOK, Reading
<1>7. ReadInv'
    BY <1>1, <1>2, InputKept, Zenon DEF TextInv, ReadInv, Reading
<1>8. pc' = "escape" => EscapeInv'
    BY <1>1, <1>2, <1>3, <1>4, <1>5, InputKept, Zenon DEF EscapeInv
<1> QED
    BY <1>1, <1>6, <1>7, <1>8, NoTextAfter, Zenon DEF TextInv, AsText

(* One byte takes at most four characters, and they fit.                      *)
LEMMA EscapeKeepsInv ==
  ASSUME TextInv, Escape
  PROVE  TextInv'
<1>1. /\ UNCHANGED input
      /\ UNCHANGED <<pc, got, len, truncated, closed, dots, result>>
      /\ pc = "escape" /\ i < len /\ oi + 5 < BufLen
      /\ oi' = oi + Width[mem[i + 1]] /\ i' = i + 1
    BY DEF Escape, Room
<1>2. TextTypeOK /\ EscapeInv /\ got <= Len(mem)
    BY <1>1, Zenon DEF TextInv, ReadInv
<1>3. /\ i \in Nat /\ len \in Nat /\ got \in Nat /\ oi \in Nat
      /\ mem \in Seq(DOMAIN Width) /\ len <= got
    BY <1>2, Zenon DEF TextTypeOK, EscapeInv
<1>4. i' \in Nat /\ i' <= len /\ i + 1 \in 1 .. Len(mem)
    BY <1>1, <1>2, <1>3, Numbers
<1>5. Width[mem[i + 1]] \in 1 .. 4
    <2>1. mem[i + 1] \in {"plain", "quoted", "other", "nul"}
        BY <1>3, <1>4 DEF Width
    <2> QED
        BY <2>1 DEF Width
<1>6. oi' \in Nat /\ oi' + 2 <= BufLen
    <2>1. \A w \in 1 .. 4 : oi + w \in Nat /\ oi + w + 2 <= BufLen
        BY <1>1, <1>3
    <2> QED
        BY <1>1, <1>5, <2>1, Zenon
<1>7. TextTypeOK'
    BY <1>1, <1>2, <1>4, <1>6, InputKept, Zenon DEF TextTypeOK
<1>8. ReadInv'
    BY <1>1, InputKept, Zenon DEF TextInv, ReadInv, Reading
<1>9. EscapeInv'
    BY <1>1, <1>2, <1>4, <1>6, InputKept, Zenon DEF EscapeInv
<1> QED
    BY <1>1, <1>7, <1>8, <1>9, NoTextAfter, Zenon DEF TextInv, AsText

(* The quote fits, and dots that are due are left out only if they do not.    *)
LEMMA CloseInv ==
  ASSUME TextInv, Close
  PROVE  TextInv'
<1>1. /\ UNCHANGED input /\ UNCHANGED <<got, len, truncated, i, result>>
      /\ pc = "escape" /\ pc' = "done" /\ ~(i < len /\ oi + 5 < BufLen)
    BY DEF Close, Room
<1>2. TextTypeOK /\ EscapeInv
    BY <1>1, Zenon DEF TextInv
<1>3. /\ i \in Nat /\ len \in Nat /\ oi \in Nat /\ truncated \in BOOLEAN
      /\ oi + 2 <= BufLen /\ i <= len /\ len <= max_str_len /\ len <= RealLength
      /\ result = "text" /\ (~truncated => len = RealLength)
    BY <1>2, Zenon DEF TextTypeOK, EscapeInv
<1>4. oi < BufLen
    BY <1>2, <1>3, Numbers
<1>5. /\ closed' = TRUE /\ dots' = (truncated /\ oi + 1 + 3 < BufLen)
      /\ oi' = IF dots' THEN oi + 1 + 3 ELSE oi + 1
    BY <1>4, Zenon DEF Close
<1>6. dots' \in BOOLEAN
    BY <1>5
<1>7. oi' \in Nat /\ oi' < BufLen
    <2>1. CASE dots'
        <3>1. oi + 1 + 3 < BufLen
            BY <1>5, <2>1, Zenon
        <3> QED
            BY <1>3, <1>5, <2>1, <3>1
    <2>2. CASE ~dots'
        BY <1>3, <1>5, <2>2, Numbers, <1>2
    <2> QED
        BY <2>1, <2>2
<1>8. TextTypeOK' /\ ReadInv'
    BY <1>1, <1>2, <1>5, <1>6, <1>7, InputKept, Zenon
       DEF TextInv, TextTypeOK, ReadInv, Reading
<1>9. ShowsOnlyTheArgument'
    <2>1. i <= RealLength /\ i <= max_str_len
        BY <1>2, <1>3, Numbers, RealIsInt
    <2> QED
        BY <1>1, <2>1, InputKept, Zenon DEF ShowsOnlyTheArgument
<1>10. QuotedAndTerminated'
    BY <1>5, <1>7, Zenon DEF QuotedAndTerminated
<1>11. UnmarkedCutsAreFull'
    <2>1. SUFFICES ASSUME i < RealLength, ~dots'
                   PROVE  oi' + 5 > BufLen
        BY <1>1, InputKept DEF UnmarkedCutsAreFull
    <2>2. oi' = oi + 1
        BY <1>5, <2>1
    <2>3. CASE truncated
        <3>1. ~(oi + 1 + 3 < BufLen)
            BY <1>5, <2>1, <2>3, Zenon
        <3> QED
            BY <1>2, <1>3, <2>2, <3>1, Numbers
    <2>4. CASE ~truncated
        <3>1. i < len
            BY <1>3, <2>1, <2>4
        <3> QED
            BY <1>1, <1>2, <1>3, <2>2, <3>1, Numbers
    <2> QED
        BY <1>3, <2>3, <2>4
<1> QED
    BY <1>1, <1>8, <1>9, <1>10, <1>11, Zenon DEF TextInv

(* TextInv is inductive.                                                      *)
LEMMA TextStep == TextInv /\ [CNext]_vars => TextInv'
<1> SUFFICES ASSUME TextInv, [CNext]_vars PROVE TextInv'
    OBVIOUS
<1>1. CASE UNCHANGED vars
    <2>1. /\ UNCHANGED input
          /\ UNCHANGED <<pc, got, len, truncated, i, oi, closed, dots, result>>
        BY <1>1 DEF vars
    <2>2. TextTypeOK' /\ ReadInv' /\ (pc' = "escape" => EscapeInv')
        BY <2>1, InputKept, Zenon
           DEF TextInv, TextTypeOK, ReadInv, Reading, EscapeInv
    <2>3. ShowsOnlyTheArgument' /\ QuotedAndTerminated' /\ UnmarkedCutsAreFull'
        BY <2>1, InputKept, Zenon DEF TextInv, ShowsOnlyTheArgument,
           QuotedAndTerminated, UnmarkedCutsAreFull, AsText
    <2> QED
        BY <2>2, <2>3, Zenon DEF TextInv
<1> QED
    BY <1>1, StartInv, PeekStringInv, MeasureStringInv, PeekBufferInv,
       MeasureBufferInv, EscapeKeepsInv, CloseInv, Zenon DEF CNext, Read, CDone

(* Whatever the memory, the word size and -s, a text holds bytes of the       *)
(* argument only (read_child_string, read_child_buffer).                      *)
THEOREM OnlyTheArgumentIsShown == CSpec => []ShowsOnlyTheArgument
<1>1. TextInv => ShowsOnlyTheArgument
    BY Zenon DEF TextInv
<1> QED
    BY <1>1, TextInit, TextStep, PTL DEF CSpec

(* Whatever has to be escaped, the closing quote and the terminator fit.      *)
THEOREM TextIsQuoted == CSpec => []QuotedAndTerminated
<1>1. TextInv => QuotedAndTerminated
    BY Zenon DEF TextInv
<1> QED
    BY <1>1, TextInit, TextStep, PTL DEF CSpec

(* Bytes are left out without dots only by a text that fills its buffer.      *)
THEOREM CutsAreMarked == CSpec => []UnmarkedCutsAreFull
<1>1. TextInv => UnmarkedCutsAreFull
    BY Zenon DEF TextInv
<1> QED
    BY <1>1, TextInit, TextStep, PTL DEF CSpec

------------------------------------------------------------------------------
(* Nothing that can be peeked is left out: the read loops go word by word, so *)
(* they stop short of a limit only inside a word that is not mapped.          *)
IsMultiple(m, w) == \E c \in Nat : m = c * w
Peekable == (Len(mem) \div Word) * Word
Showable == Min(RealLength, Min(max_str_len, Peekable))

(* How a read loop ends: at the limit, at the unmapped word, at the nul or at *)
(* the end of the buffer.                                                     *)
Reached ==
  \/ got >= Min(max_str_len, Peekable)
  \/ fn = "read_child_string" /\ Nuls(got) # {}
  \/ fn = "read_child_buffer" /\ got >= arg_len

CoverInv ==
  /\ addr = 0 => mem = <<>>
  /\ pc = "start" => got = 0
  /\ pc = "read_child_string" => IsMultiple(got, Word) /\ got <= ReadCap
  /\ pc = "read_child_buffer" =>
       fn = "read_child_buffer" /\ (got < Want => IsMultiple(got, Word))
  /\ pc = "measure" => Reached
  /\ pc = "escape" => Showable <= len
  /\ ShowsAllItCan

(* Two multiples of w less than w apart are equal.                            *)
LEMMA MultiplesApart ==
  ASSUME NEW w \in Nat \ {0}, NEW a, NEW b,
         IsMultiple(a, w), IsMultiple(b, w), a <= b, b < a + w
  PROVE  a = b
<1>1. PICK c \in Nat : a = c * w
    BY Zenon DEF IsMultiple
<1>2. PICK d \in Nat : b = d * w
    BY DEF IsMultiple
<1>3. \A x, y \in Nat : x < y => x * w + w <= y * w
    OBVIOUS
<1>4. ~(c < d) /\ ~(d < c)
    BY <1>1, <1>2, <1>3
<1> QED
    BY <1>1, <1>2, <1>4

(* w more is a multiple again.                                                *)
LEMMA NextMultiple ==
  ASSUME NEW w \in Nat \ {0}, NEW a, IsMultiple(a, w)
  PROVE  IsMultiple(a + w, w)
<1>1. PICK c \in Nat : a = c * w
    BY DEF IsMultiple
<1>2. a + w = (c + 1) * w
    BY <1>1
<1> QED
    BY <1>2 DEF IsMultiple

(* Rounding down to a multiple of w.                                          *)
LEMMA RoundDown ==
  ASSUME NEW w \in Nat \ {0}, NEW a \in Nat
  PROVE  /\ IsMultiple((a \div w) * w, w) /\ (a \div w) * w \in Nat
         /\ (a \div w) * w <= a /\ a < (a \div w) * w + w
<1>1. a \div w \in Nat
    OBVIOUS
<1>2. (a \div w) * w <= a /\ a < (a \div w) * w + w
    OBVIOUS
<1>3. (a \div w) * w \in Nat
    BY <1>1
<1> QED
    BY <1>1, <1>2, <1>3 DEF IsMultiple

(* The window of a string is a number of words that covers the -s limit.      *)
LEMMA CapCovers ==
  ASSUME TextTypeOK
  PROVE  IsMultiple(ReadCap, Word) /\ ReadCap \in Nat /\ max_str_len <= ReadCap
<1>1. IsMultiple(BufLen, Word)
    <2>1. BufLen = (BufLen \div Word) * Word /\ BufLen \div Word \in Nat
        BY WholeWordsAssumption
    <2> QED
        BY <2>1, Zenon DEF IsMultiple
<1> DEFINE up == ((max_str_len + Word - 1) \div Word) * Word
<1>2. max_str_len \in Nat /\ max_str_len <= BufLen /\ BufLen \in Nat
    BY Numbers
<1>3. /\ IsMultiple(up, Word) /\ up \in Nat
      /\ max_str_len + Word - 1 < up + Word
    <2>1. max_str_len + Word - 1 \in Nat
        BY <1>2
    <2> QED
        BY <2>1, RoundDown, Zenon
<1> HIDE DEF up
<1>4. max_str_len <= up
    BY <1>2, <1>3
<1>5. ReadCap = IF up < BufLen THEN up ELSE BufLen
    BY Zenon DEF ReadCap, Min, up
<1> QED
    BY <1>1, <1>2, <1>3, <1>4, <1>5, Zenon

(* What can be shown is a number.                                             *)
LEMMA ShowableFacts ==
  ASSUME TextTypeOK
  PROVE  /\ Peekable \in Nat /\ IsMultiple(Peekable, Word) /\ Peekable <= Len(mem)
         /\ Len(mem) < Peekable + Word
         /\ Showable \in Int /\ Showable <= RealLength
         /\ Showable <= max_str_len /\ Showable <= Peekable
<1>1. /\ Peekable \in Nat /\ IsMultiple(Peekable, Word) /\ Peekable <= Len(mem)
      /\ Len(mem) < Peekable + Word
    BY Numbers, RoundDown, Zenon DEF Peekable
<1>2. RealLength \in Int /\ max_str_len \in Nat
    BY Numbers, RealIsInt
<1> QED
    BY <1>1, <1>2 DEF Showable, Min

(* A read loop that stops at a word that is not mapped has read all there is. *)
LEMMA UnmappedReached ==
  ASSUME TextTypeOK, got <= Len(mem), IsMultiple(got, Word), ~Mapped
  PROVE  got = Peekable
<1>1. got \in Nat /\ Len(mem) \in Nat /\ Word \in Nat \ {0}
    BY Numbers DEF TextTypeOK
<1>2. Len(mem) < got + Word
    BY <1>1 DEF Mapped
<1>3. CASE got <= Peekable
    BY <1>1, <1>2, <1>3, ShowableFacts, MultiplesApart
<1>4. CASE ~(got <= Peekable)
    <2>1. Peekable <= got /\ got < Peekable + Word
        BY <1>1, <1>4, ShowableFacts
    <2> QED
        BY <2>1, ShowableFacts, MultiplesApart, Zenon
<1> QED
    BY <1>3, <1>4, Zenon

(* The limits depend on the argument only.                                    *)
LEMMA LimitsKept ==
  ASSUME UNCHANGED input
  PROVE  /\ Peekable' = Peekable /\ Showable' = Showable /\ ReadCap' = ReadCap
         /\ got' = got => Reached' = Reached
BY InputKept, Zenon DEF Peekable, Showable, ReadCap, Reached, Nuls

(* ShowsAllItCan by its parts.                                                *)
LEMMA AllShown ==
  ASSUME pc = "done" => i >= Showable \/ oi + 5 > BufLen
  PROVE  ShowsAllItCan
BY Zenon DEF ShowsAllItCan, Showable, Peekable

(* Nothing has been read or printed yet.                                      *)
LEMMA CoverInit == CInit => CoverInv
<1> SUFFICES ASSUME CInit PROVE CoverInv
    OBVIOUS
<1>1. pc = "start" /\ got = 0 /\ (addr = 0 => mem = <<>>)
    BY Zenon DEF CInit
<1> QED
    BY <1>1, AllShown, Zenon DEF CoverInv

(* The loop of read_child_string stops at its window, which covers the -s     *)
(* limit, at the unmapped word or behind the nul.                             *)
LEMMA PeekStringCovers ==
  ASSUME TextInv, CoverInv, PeekString
  PROVE  CoverInv'
<1> DEFINE reads == got + Word <= ReadCap /\ Mapped
<1>1. /\ UNCHANGED input /\ pc = "read_child_string"
      /\ got' = (IF reads THEN got + Word ELSE got)
      /\ pc' = (IF reads /\ ~HasNul THEN pc ELSE "measure")
    BY Zenon DEF PeekString
<1>2. /\ TextTypeOK /\ got \in Nat /\ got <= Len(mem) /\ fn = "read_child_string"
      /\ IsMultiple(got, Word) /\ got <= ReadCap /\ (addr = 0 => mem = <<>>)
    BY <1>1, Zenon DEF TextInv, TextTypeOK, ReadInv, CoverInv
<1>3. /\ ReadCap \in Nat /\ IsMultiple(ReadCap, Word) /\ max_str_len <= ReadCap
      /\ max_str_len \in Nat /\ Peekable \in Nat /\ Word \in Nat
      /\ Len(mem) \in Nat
    BY <1>2, CapCovers, ShowableFacts, Numbers
<1> HIDE DEF reads
<1>4. IsMultiple(got', Word) /\ got' <= ReadCap
    <2>1. CASE reads
        BY <1>1, <1>2, <2>1, NextMultiple, Zenon DEF reads
    <2>2. CASE ~reads
        BY <1>1, <1>2, <2>2, Zenon
    <2> QED
        BY <2>1, <2>2, Zenon
<1>5. pc' = "measure" => Reached'
    <2>1. CASE reads /\ HasNul
        <3>1. PICK a \in got + 1 .. got + Word : mem[a] = "nul"
            BY <2>1, Zenon DEF HasNul
        <3>2. a \in 1 .. got + Word
            BY <1>2, <1>3, <3>1
        <3>3. a \in Nuls(got)'
            <4>1. Nuls(got)' = {m \in 1 .. got' : mem[m] = "nul"}
                BY <1>1, InputKept, Zenon DEF Nuls
            <4> QED
                BY <1>1, <2>1, <3>1, <3>2, <4>1, Zenon
        <3>4. Nuls(got)' # {}
            BY <3>3, Zenon
        <3> QED
            BY <1>1, <1>2, <3>4, InputKept, Zenon DEF Reached
    <2>2. CASE ~reads
        <3>1. got' = got
            BY <1>1, <2>2, Zenon
        <3>2. CASE ~Mapped
            <4>1. got = Peekable
                BY <1>2, <3>2, UnmappedReached, Zenon
            <4>2. got >= Min(max_str_len, Peekable)
                BY <1>3, <4>1 DEF Min
            <4> QED
                BY <1>1, <3>1, <4>2, LimitsKept, Zenon DEF Reached
        <3>3. CASE ~(got + Word <= ReadCap)
            <4>1. ReadCap < got + Word
                BY <1>2, <1>3, <3>3
            <4>2. got = ReadCap
                BY <1>2, <1>3, <4>1, MultiplesApart, Zenon
            <4>3. got >= Min(max_str_len, Peekable)
                BY <1>3, <4>2 DEF Min
            <4> QED
                BY <1>1, <3>1, <4>3, LimitsKept, Zenon DEF Reached
        <3> QED
            BY <2>2, <3>2, <3>3, Zenon DEF reads
    <2> QED
        BY <1>1, <2>1, <2>2, Zenon
<1>6. pc' \in {"read_child_string", "measure"}
    BY <1>1, Zenon
<1>7. ShowsAllItCan'
    BY <1>6, Zenon DEF ShowsAllItCan
<1> QED
    BY <1>1, <1>2, <1>4, <1>5, <1>6, <1>7, InputKept, LimitsKept, Zenon DEF CoverInv

(* The loop of read_child_buffer stops at what is wanted, or at the unmapped  *)
(* word; only its last word is used in part.                                  *)
LEMMA PeekBufferCovers ==
  ASSUME TextInv, CoverInv, PeekBuffer
  PROVE  CoverInv'
<1> DEFINE reads == got < Want /\ Mapped
<1>1. /\ UNCHANGED input /\ pc = "read_child_buffer"
      /\ got' = (IF reads THEN got + Min(Want - got, Word) ELSE got)
      /\ pc' = (IF reads THEN pc ELSE "measure")
    BY Zenon DEF PeekBuffer
<1>2. /\ TextTypeOK /\ got \in Nat /\ got <= Len(mem) /\ fn = "read_child_buffer"
      /\ got < Want => IsMultiple(got, Word)
      /\ got <= Want /\ (addr = 0 => mem = <<>>)
    BY <1>1, Zenon DEF TextInv, TextTypeOK, ReadInv, CoverInv
<1>3. /\ Want \in Nat /\ max_str_len \in Nat /\ max_str_len <= BufLen /\ arg_len \in Nat
      /\ Peekable \in Nat /\ Word \in Nat \ {0} /\ BufLen \in Nat
    BY <1>2, ShowableFacts, Numbers
<1> HIDE DEF reads
<1>4. got' < Want => IsMultiple(got', Word)
    <2>1. CASE reads
        <3>1. got' < Want => got' = got + Word
            BY <1>1, <1>2, <1>3, <2>1 DEF Min
        <3> QED
            BY <1>2, <2>1, <3>1, NextMultiple, Zenon DEF reads
    <2>2. CASE ~reads
        BY <1>1, <1>2, <2>2, Zenon
    <2> QED
        BY <2>1, <2>2, Zenon
<1>5. pc' = "measure" => Reached'
    <2>1. SUFFICES ASSUME ~reads PROVE Reached'
        BY <1>1, Zenon
    <2>2. got' = got
        BY <1>1, <2>1, Zenon
    <2>3. CASE got < Want
        <3>1. got = Peekable
            BY <1>2, <2>1, <2>3, UnmappedReached, Zenon DEF reads
        <3>2. got >= Min(max_str_len, Peekable)
            BY <1>3, <3>1 DEF Min
        <3> QED
            BY <1>1, <2>2, <3>2, LimitsKept, Zenon DEF Reached
    <2>4. CASE ~(got < Want)
        <3>1. got >= arg_len \/ got >= Min(max_str_len, Peekable)
            BY <1>2, <1>3, <2>4 DEF Want, Min
        <3> QED
            BY <1>1, <1>2, <2>2, <3>1, LimitsKept, Zenon DEF Reached
    <2> QED
        BY <2>3, <2>4, Zenon
<1>6. pc' \in {"read_child_buffer", "measure"}
    BY <1>1, Zenon
<1>7. ShowsAllItCan'
    BY <1>6, Zenon DEF ShowsAllItCan
<1> QED
    BY <1>1, <1>2, <1>4, <1>5, <1>6, <1>7, InputKept, LimitsKept, Zenon DEF CoverInv

(* The length that is measured is not below what can be shown.                *)
LEMMA MeasureCovers ==
  ASSUME TextInv, CoverInv, MeasureString \/ MeasureBuffer
  PROVE  CoverInv'
<1>1. /\ UNCHANGED input /\ UNCHANGED <<got, i>> /\ pc = "measure"
      /\ pc' = (IF got = 0 THEN "done" ELSE "escape")
      /\ \/ fn = "read_child_string" /\ len' = Min(BeforeNul, max_str_len)
         \/ fn = "read_child_buffer" /\ len' = got
    BY DEF MeasureString, MeasureBuffer, Clamped
<1>2. /\ TextTypeOK /\ got \in Nat /\ got <= Len(mem) /\ i = 0 /\ Reached
      /\ addr = 0 => mem = <<>>
    BY <1>1, Zenon DEF TextInv, TextTypeOK, ReadInv, Reading, CoverInv
<1>3. /\ Showable \in Int /\ Showable <= RealLength /\ RealLength \in Int
      /\ Showable <= max_str_len /\ Showable <= Peekable /\ Peekable \in Nat
      /\ max_str_len \in Nat /\ arg_len \in Nat
    BY <1>2, ShowableFacts, RealIsInt, Numbers
<1>4. got >= Min(max_str_len, Peekable) => Showable <= got
    BY <1>2, <1>3 DEF Min
<1>5. CASE fn = "read_child_string"
    <2>1. /\ BeforeNul \in Nat /\ BeforeNul <= got
          /\ BeforeNul < got => BeforeNul = RealLength
          /\ IF Nuls(got) = {} THEN BeforeNul = got ELSE BeforeNul < got
        BY <1>2, <1>5, NulFacts, Zenon
    <2>2. Showable <= BeforeNul
        <3>1. CASE Nuls(got) # {}
            BY <1>2, <1>3, <2>1, <3>1, Zenon
        <3>2. CASE Nuls(got) = {}
            <4>1. got >= Min(max_str_len, Peekable)
                BY <1>2, <1>5, <3>2, Zenon DEF Reached
            <4> QED
                BY <1>4, <2>1, <3>2, <4>1, Zenon
        <3> QED
            BY <3>1, <3>2, Zenon
    <2>3. Showable <= len' /\ (got = 0 => Showable <= 0)
        <3>1. len' = Min(BeforeNul, max_str_len)
            BY <1>1, <1>5, Zenon
        <3> QED
            BY <1>2, <1>3, <2>1, <2>2, <3>1 DEF Min
    <2>4. got = 0 => i' >= Showable
        BY <1>1, <1>2, <1>3, <2>3
    <2>5. ShowsAllItCan'
        BY <1>1, <2>4, LimitsKept, Zenon DEF ShowsAllItCan, Showable, Peekable
    <2> QED
        BY <1>1, <1>2, <2>3, <2>5, InputKept, LimitsKept, Zenon DEF CoverInv
<1>6. CASE fn = "read_child_buffer"
    <2>1. len' = got /\ RealLength = arg_len
        BY <1>1, <1>6, Zenon DEF RealLength
    <2>2. Showable <= got
        <3>1. got >= Min(max_str_len, Peekable) \/ got >= arg_len
            BY <1>2, <1>6, Zenon DEF Reached
        <3> QED
            BY <1>2, <1>3, <1>4, <2>1, <3>1
    <2>3. got = 0 => i' >= Showable
        BY <1>1, <1>2, <1>3, <2>2
    <2>4. ShowsAllItCan'
        BY <1>1, <2>3, LimitsKept, Zenon DEF ShowsAllItCan, Showable, Peekable
    <2> QED
        BY <1>1, <1>2, <2>1, <2>2, <2>4, InputKept, LimitsKept, Zenon DEF CoverInv
<1> QED
    BY <1>1, <1>5, <1>6, Zenon

(* The other steps.                                                           *)
LEMMA CoverStep == TextInv /\ CoverInv /\ [CNext]_vars => CoverInv'
<1> SUFFICES ASSUME TextInv, CoverInv, [CNext]_vars PROVE CoverInv'
    OBVIOUS
<1>0. TextTypeOK /\ (addr = 0 => mem = <<>>)
    BY Zenon DEF TextInv, CoverInv
<1>1. CASE Start
    <2>1. /\ UNCHANGED input /\ UNCHANGED <<got, i>> /\ got = 0 /\ i = 0
          /\ pc' = (IF addr = 0 THEN "done" ELSE fn)
          /\ fn \in {"read_child_string", "read_child_buffer"}
        BY <1>0, <1>1, Zenon DEF Start, CoverInv, TextInv, ReadInv, Reading, TextTypeOK
    <2>2. IsMultiple(0, Word)
        <3>1. 0 = 0 * Word
            BY Numbers, <1>0
        <3> QED
            BY <3>1, Zenon DEF IsMultiple
    <2>3. 0 <= ReadCap
        BY <1>0, CapCovers
    <2>4. addr = 0 => i' >= Showable
        <3>1. addr = 0 => Len(mem) = 0
            BY <1>0
        <3> QED
            BY <1>0, <2>1, <3>1, ShowableFacts
    <2>5. ShowsAllItCan'
        <3>1. pc' = "done" => i' >= Showable
            BY <2>1, <2>4, Zenon
        <3> QED
            BY <2>1, <3>1, LimitsKept, Zenon DEF ShowsAllItCan, Showable, Peekable
    <2> QED
        BY <1>0, <2>1, <2>2, <2>3, <2>5, InputKept, LimitsKept, Zenon DEF CoverInv
<1>2. CASE Escape
    <2>1. UNCHANGED input /\ UNCHANGED <<pc, len>> /\ pc = "escape" /\ Showable <= len
        BY <1>2, Zenon DEF Escape, CoverInv
    <2>2. ShowsAllItCan'
        BY <2>1, Zenon DEF ShowsAllItCan
    <2> QED
        BY <1>0, <2>1, <2>2, InputKept, LimitsKept, Zenon DEF CoverInv
<1>3. CASE Close
    <2>1. /\ UNCHANGED input /\ UNCHANGED <<len, i>> /\ pc' = "done" /\ pc = "escape"
          /\ ~(i < len /\ oi + 5 < BufLen) /\ Showable <= len
        BY <1>3, Zenon DEF Close, Room, CoverInv
    <2>2. i \in Nat /\ len \in Nat /\ oi \in Nat /\ BufLen \in Nat /\ oi + 2 <= BufLen
        BY <2>1, Zenon DEF TextInv, TextTypeOK, EscapeInv
    <2>3. oi' = oi + 1 \/ oi' = oi + 1 + 3
        <3>1. oi < BufLen
            BY <2>2
        <3> QED
            BY <1>3, <3>1 DEF Close
    <2>4. i' >= Showable \/ oi' + 5 > BufLen
        BY <1>0, <2>1, <2>2, <2>3, ShowableFacts
    <2>5. ShowsAllItCan'
        BY <2>1, <2>4, LimitsKept, Zenon DEF ShowsAllItCan, Showable, Peekable
    <2> QED
        BY <1>0, <2>1, <2>5, InputKept, LimitsKept, Zenon DEF CoverInv
<1>4. CASE UNCHANGED vars
    <2>1. UNCHANGED input /\ UNCHANGED <<pc, got, len, i, oi>>
        BY <1>4, Zenon DEF vars
    <2> QED
        BY <2>1, InputKept, LimitsKept, Zenon DEF CoverInv, ShowsAllItCan, Showable, Peekable
<1> QED
    BY <1>1, <1>2, <1>3, <1>4, PeekStringCovers, PeekBufferCovers, MeasureCovers, Zenon
       DEF CNext, Read, CDone

(* Whatever the word size, the mapping and -s, every byte of the argument in a *)
(* word that can be peeked and within -s is shown while the output has room   *)
(* (read_child_string, read_child_buffer).                                    *)
THEOREM AllThatCanBeIsShown == CSpec => []ShowsAllItCan
<1>1. CoverInv => ShowsAllItCan
    BY Zenon DEF CoverInv
<1> QED
    BY <1>1, TextInit, TextStep, CoverInit, CoverStep, PTL DEF CSpec

------------------------------------------------------------------------------
(* How many more steps the decoders of strings and buffers can take: their    *)
(* windows are at most as large as the buffer, however much is mapped.        *)
TextStepsLeft ==
  CASE pc = "start" -> 2 * BufLen + 4
    [] pc \in {"read_child_string", "read_child_buffer"} -> 2 * BufLen + 3 - got
    [] pc = "measure" -> BufLen + 2
    [] pc = "escape" -> 1 + (len - i)
    [] OTHER -> 0

(* No more is read than the window holds.                                     *)
WindowInv == got <= BufLen

(* A step reads at least a byte, shows one, or goes on to the next part.      *)
LEMMA TextShape ==
  ASSUME TextInv, Start \/ Read \/ Escape \/ Close
  PROVE  /\ got <= BufLen => got' <= BufLen
         /\ LET reads == {"read_child_string", "read_child_buffer"}
            IN  \/ pc = "start" /\ pc' \in reads \cup {"done"} /\ got' = got
                \/ pc \in reads /\ pc' = pc /\ got' > got
                \/ pc \in reads /\ pc' = "measure"
                \/ pc = "measure" /\ pc' \in {"escape", "done"} /\ got' = got /\ i' = 0
                \/ pc = "escape" /\ pc' = pc /\ i < len /\ i' = i + 1 /\ len' = len
                \/ pc = "escape" /\ pc' = "done"
<1>1. /\ TextTypeOK /\ got \in Nat /\ Word \in Nat \ {0} /\ BufLen \in Nat
      /\ Want \in Nat /\ Want <= max_str_len /\ max_str_len \in Nat
      /\ max_str_len <= BufLen
      /\ fn \in {"read_child_string", "read_child_buffer"}
      /\ pc = "measure" => i = 0
    BY Numbers, Zenon DEF TextInv, TextTypeOK, ReadInv, Reading
<1>2. CASE Start
    BY <1>1, <1>2, Zenon DEF Start
<1>3. CASE PeekString
    <2>1. ReadCap \in Nat /\ ReadCap <= BufLen
        <3> DEFINE up == ((max_str_len + Word - 1) \div Word) * Word
        <3>1. ReadCap = IF up < BufLen THEN up ELSE BufLen
            BY Zenon DEF ReadCap, Min
        <3>2. ReadCap \in Nat
            BY <1>1, CapCovers
        <3> HIDE DEF up
        <3> QED
            BY <1>1, <3>1, <3>2
    <2> QED
        BY <1>1, <1>3, <2>1 DEF PeekString
<1>4. CASE PeekBuffer
    BY <1>1, <1>4 DEF PeekBuffer, Min
<1>5. CASE MeasureString \/ MeasureBuffer
    BY <1>1, <1>5, Zenon DEF MeasureString, MeasureBuffer
<1>6. CASE Escape \/ Close
    BY <1>6, Zenon DEF Escape, Close
<1> QED
    BY <1>2, <1>3, <1>4, <1>5, <1>6, Zenon DEF Read

(* So read_child_string and read_child_buffer end, after two steps for a byte *)
(* of the buffer and four more, even if the tracee has no nul anywhere.       *)
THEOREM EveryTextEnds ==
  CSpec => /\ [](TextStepsLeft \in 0 .. (2 * BufLen + 4))
           /\ [][TextStepsLeft' < TextStepsLeft]_vars
<1>1. CInit => WindowInv
    BY DEF CInit, WindowInv
<1>2. ASSUME TextInv, TextInv', WindowInv, [CNext]_vars
      PROVE  WindowInv' /\ [TextStepsLeft' < TextStepsLeft]_vars
    <2>1. CASE Start \/ Read \/ Escape \/ Close
        <3>1. /\ got \in Nat /\ i \in Nat /\ len \in Nat /\ BufLen \in Nat
              /\ got' \in Nat /\ i' \in Nat /\ len' \in Nat
              /\ pc = "escape" => i <= len /\ len <= got
              /\ pc' = "escape" => i' <= len' /\ len' <= got'
            BY <1>2, Zenon DEF TextInv, TextTypeOK, EscapeInv
        <3>2. got' <= BufLen
            BY <1>2, <2>1, TextShape DEF WindowInv
        <3>3. LET reads == {"read_child_string", "read_child_buffer"}
              IN  \/ pc = "start" /\ pc' \in reads \cup {"done"} /\ got' = got
                  \/ pc \in reads /\ pc' = pc /\ got' > got
                  \/ pc \in reads /\ pc' = "measure"
                  \/ pc = "measure" /\ pc' \in {"escape", "done"} /\ got' = got /\ i' = 0
                  \/ pc = "escape" /\ pc' = pc /\ i < len /\ i' = i + 1 /\ len' = len
                  \/ pc = "escape" /\ pc' = "done"
            BY <1>2, <2>1, TextShape
        <3>4. /\ pc = "start" => TextStepsLeft = 2 * BufLen + 4
              /\ pc \in {"read_child_string", "read_child_buffer"} =>
                   TextStepsLeft = 2 * BufLen + 3 - got
              /\ pc = "measure" => TextStepsLeft = BufLen + 2
              /\ pc = "escape" => TextStepsLeft = 1 + (len - i)
            BY Zenon DEF TextStepsLeft
        <3>5. /\ pc' \in {"read_child_string", "read_child_buffer"} =>
                   TextStepsLeft' = 2 * BufLen + 3 - got'
              /\ pc' = "measure" => TextStepsLeft' = BufLen + 2
              /\ pc' = "escape" => TextStepsLeft' = 1 + (len' - i')
              /\ pc' = "done" => TextStepsLeft' = 0
            BY Zenon DEF TextStepsLeft
        <3> QED
            BY <1>2, <3>1, <3>2, <3>3, <3>4, <3>5 DEF WindowInv
    <2>2. CASE CDone \/ UNCHANGED vars
        BY <1>2, <2>2, Zenon DEF CDone, vars, WindowInv
    <2> QED
        BY <1>2, <2>1, <2>2, Zenon DEF CNext
<1>3. ASSUME TextInv, WindowInv PROVE TextStepsLeft \in 0 .. (2 * BufLen + 4)
    <2>1. /\ got \in Nat /\ i \in Nat /\ len \in Nat /\ BufLen \in Nat
          /\ pc = "escape" => i <= len /\ len <= got
        BY <1>3, Zenon DEF TextInv, TextTypeOK, EscapeInv
    <2> QED
        BY <1>3, <2>1 DEF TextStepsLeft, WindowInv
<1> QED
    BY <1>1, <1>2, <1>3, TextInit, TextStep, PTL DEF CSpec

------------------------------------------------------------------------------
(* Structures.  The decoders of structures, format_sockaddr for any family    *)
(* and any length argument.                                                   *)
StructureDecoders ==
  {format_wait_status, format_msghdr, format_stat_buf, format_sigaction,
   format_timespec, format_rusage, format_epoll_event, format_statx_buf,
   format_rlimit, clone_args}
   \cup {format_sockaddr(family, addrlen) :
           family \in {"AF_INET", "AF_INET6", "AF_UNIX", "other"}, addrlen \in Nat}

(* A text depends on no more bytes than were read.                            *)
UsesWhatIsThere(d) ==
  /\ d.want \in Nat \ {0}
  /\ \A g \in 0 .. d.want : d.uses[g] \in Nat /\ d.uses[g] <= g

(* Each of them has that form.                                                *)
LEMMA AllOfUses ==
  ASSUME NEW b \in Nat \ {0}
  PROVE  UsesWhatIsThere(AllOf(b))
BY DEF UsesWhatIsThere, AllOf

(* Whatever the family and the length, an address is printed from the bytes   *)
(* that were read.                                                            *)
LEMMA SockaddrUsesRead ==
  ASSUME NEW family, NEW addrlen \in Nat
  PROVE  UsesWhatIsThere(format_sockaddr(family, addrlen))
<1> DEFINE d == format_sockaddr(family, addrlen)
           w == IF Least(addrlen, 128) < 2 THEN 2 ELSE Least(addrlen, 128)
           u == [g \in 0 .. w |-> IF g < 2 THEN 0 ELSE SockaddrUses(family, g)]
<1>1. d.want = w /\ d.uses = u
    BY DEF format_sockaddr
<1>2. w \in Nat \ {0}
    BY DEF Least
<1> HIDE DEF w, d
<1>3. ASSUME NEW g \in 0 .. w PROVE u[g] \in Nat /\ u[g] <= g
    <2>1. g \in Nat /\ u[g] = IF g < 2 THEN 0 ELSE SockaddrUses(family, g)
        BY <1>2
    <2>2. g >= 2 => SockaddrUses(family, g) \in Nat /\ SockaddrUses(family, g) <= g
        BY <2>1 DEF SockaddrUses
    <2> HIDE DEF u
    <2> QED
        BY <2>1, <2>2
<1> HIDE DEF u
<1> QED
    BY <1>1, <1>2, <1>3, Zenon DEF UsesWhatIsThere, d

(* So no decoder of a structure prints a field that was not read.             *)
LEMMA DecodersUseWhatIsThere == \A d \in StructureDecoders : UsesWhatIsThere(d)
<1>1. UsesWhatIsThere(clone_args)
    BY DEF UsesWhatIsThere, clone_args
<1>2. /\ UsesWhatIsThere(format_wait_status) /\ UsesWhatIsThere(format_msghdr)
      /\ UsesWhatIsThere(format_stat_buf) /\ UsesWhatIsThere(format_sigaction)
      /\ UsesWhatIsThere(format_timespec) /\ UsesWhatIsThere(format_rusage)
      /\ UsesWhatIsThere(format_epoll_event) /\ UsesWhatIsThere(format_statx_buf)
      /\ UsesWhatIsThere(format_rlimit)
    BY AllOfUses DEF format_wait_status, format_msghdr, format_stat_buf,
       format_sigaction, format_timespec, format_rusage, format_epoll_event,
       format_statx_buf, format_rlimit
<1>3. ASSUME NEW d \in StructureDecoders
      PROVE  \/ d \in {format_wait_status, format_msghdr, format_stat_buf, format_sigaction,
                       format_timespec, format_rusage, format_epoll_event,
                       format_statx_buf, format_rlimit, clone_args}
             \/ \E family, addrlen :
                  addrlen \in Nat /\ d = format_sockaddr(family, addrlen)
    BY DEF StructureDecoders
<1> QED
    BY <1>1, <1>2, <1>3, SockaddrUsesRead, Zenon

(* The bytes mapped in whole words.                                           *)
MappedWords == (arg.mapped \div LongSize) * LongSize

(* read_child_raw stays within the structure and the words that are mapped,   *)
(* and has read whole words unless it is through.                             *)
StructInv ==
  /\ arg \in StructCall /\ have \in Nat /\ used \in Nat
  /\ phase \in {"start", "read_child_raw", "printed"}
  /\ have <= arg.of.want /\ have <= MappedWords
  /\ phase # "printed" => used = 0
  /\ have < arg.of.want => IsMultiple(have, LongSize)
  /\ PrintsWhatWasRead

(* What is known of the call.                                                 *)
LEMMA StructFacts ==
  ASSUME \A c \in StructCall : c.of \in StructureDecoders, arg \in StructCall
  PROVE  /\ arg.of.want \in Nat \ {0} /\ LongSize \in Nat \ {0} /\ arg.mapped \in Nat
         /\ MappedWords \in Nat /\ IsMultiple(MappedWords, LongSize)
         /\ MappedWords <= arg.mapped /\ arg.mapped < MappedWords + LongSize
         /\ \A g \in 0 .. arg.of.want : arg.of.uses[g] \in Nat /\ arg.of.uses[g] <= g
<1>1. UsesWhatIsThere(arg.of) /\ LongSize \in Nat \ {0} /\ arg.mapped \in Nat
    BY DecodersUseWhatIsThere, StructAssumption, Zenon
<1> QED
    BY <1>1, RoundDown, Zenon DEF UsesWhatIsThere, MappedWords

(* The copy starts empty.                                                     *)
LEMMA StructInitInv ==
  ASSUME \A c \in StructCall : c.of \in StructureDecoders
  PROVE  StructInit => StructInv
<1> SUFFICES ASSUME StructInit PROVE StructInv
    OBVIOUS
<1>1. arg \in StructCall /\ phase = "start" /\ have = 0 /\ used = 0
    BY Zenon DEF StructInit
<1>2. IsMultiple(0, LongSize)
    <2>1. 0 = 0 * LongSize
        BY StructAssumption
    <2> QED
        BY <2>1, Zenon DEF IsMultiple
<1>3. 0 <= arg.of.want /\ 0 <= MappedWords /\ 0 <= arg.mapped
    BY <1>1, StructFacts
<1> QED
    BY <1>1, <1>2, <1>3 DEF StructInv, PrintsWhatWasRead

(* A word that is peeked lies within the mapped words.                        *)
LEMMA ReadRawInv ==
  ASSUME \A c \in StructCall : c.of \in StructureDecoders, StructInv, read_child_raw
  PROVE  StructInv'
<1>1. /\ phase = "read_child_raw" /\ UNCHANGED <<arg, phase, used>>
      /\ have < arg.of.want /\ have + LongSize <= arg.mapped
      /\ have' = have + Least(arg.of.want - have, LongSize)
    BY Zenon DEF read_child_raw, Reads, Chunk
<1>2. /\ arg \in StructCall /\ have \in Nat /\ used = 0 /\ IsMultiple(have, LongSize)
    BY <1>1, Zenon DEF StructInv
<1>3. /\ arg.of.want \in Nat \ {0} /\ LongSize \in Nat \ {0} /\ arg.mapped \in Nat
      /\ MappedWords \in Nat /\ IsMultiple(MappedWords, LongSize)
      /\ MappedWords <= arg.mapped /\ arg.mapped < MappedWords + LongSize
    BY <1>2, StructFacts, Zenon
<1>4. have + LongSize <= MappedWords
    <2>1. SUFFICES ASSUME MappedWords < have + LongSize PROVE FALSE
        BY <1>2, <1>3
    <2>2. MappedWords <= have + LongSize /\ have + LongSize < MappedWords + LongSize
        BY <1>1, <1>2, <1>3, <2>1
    <2>3. IsMultiple(have + LongSize, LongSize)
        BY <1>2, <1>3, NextMultiple, Zenon
    <2>4. MappedWords = have + LongSize
        BY <1>3, <2>2, <2>3, MultiplesApart, Zenon
    <2> QED
        BY <1>2, <1>3, <2>1, <2>4
<1>5. /\ have' \in Nat /\ have' <= arg.of.want /\ have' <= MappedWords
      /\ have' <= arg.mapped /\ 0 <= have'
      /\ have' < arg.of.want => have' = have + LongSize
    BY <1>1, <1>2, <1>3, <1>4 DEF Least
<1>6. have' < arg.of.want => IsMultiple(have', LongSize)
    BY <1>2, <1>3, <1>5, NextMultiple, Zenon
<1> QED
    BY <1>1, <1>2, <1>5, <1>6, Zenon DEF StructInv, PrintsWhatWasRead, MappedWords

(* What is printed comes from the words that can be read.                     *)
LEMMA StructPrintInv ==
  ASSUME \A c \in StructCall : c.of \in StructureDecoders, StructInv, StructPrint
  PROVE  StructInv'
<1>1. /\ phase = "read_child_raw" /\ UNCHANGED <<arg, have>> /\ phase' = "printed"
      /\ ~(have < arg.of.want /\ have + LongSize <= arg.mapped)
      /\ used' = arg.of.uses[have]
    BY Zenon DEF StructPrint, Reads
<1>2. /\ arg \in StructCall /\ have \in Nat /\ have <= arg.of.want /\ have <= MappedWords
      /\ have < arg.of.want => IsMultiple(have, LongSize)
    BY <1>1, Zenon DEF StructInv
<1>3. /\ arg.of.want \in Nat \ {0} /\ LongSize \in Nat \ {0} /\ arg.mapped \in Nat
      /\ MappedWords \in Nat /\ IsMultiple(MappedWords, LongSize)
      /\ MappedWords <= arg.mapped /\ arg.mapped < MappedWords + LongSize
      /\ \A g \in 0 .. arg.of.want : arg.of.uses[g] \in Nat /\ arg.of.uses[g] <= g
    BY <1>2, StructFacts, Zenon
<1>4. have \in 0 .. arg.of.want /\ have <= arg.mapped
    BY <1>2, <1>3
<1>5. used' \in Nat /\ used' <= have
    BY <1>1, <1>3, <1>4, Zenon
<1>6. InWords = have
    <2>1. InWords = IF arg.of.want < MappedWords THEN arg.of.want ELSE MappedWords
        BY Zenon DEF InWords, Least, MappedWords
    <2>2. CASE have < arg.of.want
        <3>1. MappedWords < have + LongSize
            BY <1>1, <1>2, <1>3, <2>2
        <3>2. have = MappedWords
            BY <1>2, <1>3, <2>2, <3>1, MultiplesApart, Zenon
        <3> QED
            BY <1>2, <1>3, <2>1, <2>2, <3>2
    <2>3. CASE ~(have < arg.of.want)
        BY <1>2, <1>3, <2>1, <2>3
    <2> QED
        BY <2>2, <2>3, Zenon
<1>7. InWords' = InWords /\ MappedWords' = MappedWords
    BY <1>1, Zenon DEF InWords, MappedWords
<1>8. PrintsWhatWasRead'
    BY <1>1, <1>2, <1>4, <1>5, <1>6, <1>7, Zenon DEF PrintsWhatWasRead
<1> QED
    BY <1>1, <1>2, <1>5, <1>7, <1>8, Zenon DEF StructInv

(* read_child_raw keeps the invariant.                                        *)
LEMMA StructInvHolds ==
  ASSUME \A c \in StructCall : c.of \in StructureDecoders
  PROVE  StructSpec => []StructInv
<1>1. ASSUME StructInv, StructStart PROVE StructInv'
    <2>1. /\ phase = "start" /\ UNCHANGED <<arg, have, used>> /\ used = 0
          /\ phase' = IF arg.null THEN "printed" ELSE "read_child_raw"
        BY <1>1, Zenon DEF StructStart, StructInv
    <2>2. phase' \in {"printed", "read_child_raw"}
        BY <2>1, Zenon
    <2>3. InWords' = InWords /\ MappedWords' = MappedWords
        BY <2>1, Zenon DEF InWords, MappedWords
    <2> QED
        BY <1>1, <2>1, <2>2, <2>3, Zenon DEF StructInv, PrintsWhatWasRead
<1>2. ASSUME StructInv, UNCHANGED svars PROVE StructInv'
    BY <1>2, Zenon DEF StructInv, PrintsWhatWasRead, InWords, MappedWords, svars
<1>3. StructInv /\ [StructNext]_svars => StructInv'
    BY <1>1, <1>2, ReadRawInv, StructPrintInv, Zenon DEF StructNext
<1> QED
    BY <1>3, StructInitInv, PTL DEF StructSpec

(* For any word size, any mapping and any length argument, a structure is     *)
(* copied within its bounds, no field is printed that was not read, and what  *)
(* the readable words hold is printed (read_child_raw and its callers).       *)
THEOREM StructuresPrintWhatWasRead ==
  ASSUME \A c \in StructCall : c.of \in StructureDecoders
  PROVE  StructSpec => []PrintsWhatWasRead
<1>1. StructInv => PrintsWhatWasRead
    BY Zenon DEF StructInv
<1> QED
    BY <1>1, StructInvHolds, PTL

(* How many more steps the decoder of a structure can take.                   *)
StructStepsLeft ==
  CASE phase = "start" -> arg.of.want + 2
    [] phase = "read_child_raw" -> arg.of.want - have + 1
    [] OTHER -> 0

(* So does the copy of a structure end: every word that is peeked brings      *)
(* read_child_raw closer to the structure's size.                             *)
THEOREM EveryStructureEnds ==
  ASSUME \A c \in StructCall : c.of \in StructureDecoders
  PROVE  StructSpec => /\ [](StructStepsLeft \in 0 .. (arg.of.want + 2))
                       /\ [][StructStepsLeft' < StructStepsLeft]_svars
<1>1. ASSUME StructInv
      PROVE  /\ have \in Nat /\ arg.of.want \in Nat /\ have <= arg.of.want
             /\ LongSize \in Nat \ {0}
    BY <1>1, StructFacts, Zenon DEF StructInv
<1>2. ASSUME StructInv, [StructNext]_svars
      PROVE  [StructStepsLeft' < StructStepsLeft]_svars
    <2> SUFFICES ASSUME StructNext PROVE StructStepsLeft' < StructStepsLeft
        BY <1>2
    <2>1. /\ have \in Nat /\ arg.of.want \in Nat /\ have <= arg.of.want
          /\ LongSize \in Nat \ {0}
        BY <1>1, <1>2
    <2>2. /\ arg.of.want' = arg.of.want
          /\ \/ phase = "start" /\ phase' \in {"printed", "read_child_raw"} /\ have' = have
             \/ /\ phase = "read_child_raw" /\ phase' = phase /\ have < arg.of.want
                /\ have' = have + Least(arg.of.want - have, LongSize)
             \/ phase = "read_child_raw" /\ phase' = "printed"
        BY Zenon DEF StructNext, StructStart, read_child_raw, StructPrint, Reads, Chunk
    <2>3. have < arg.of.want => Least(arg.of.want - have, LongSize) > 0
        BY <2>1 DEF Least
    <2>4. have < arg.of.want => Least(arg.of.want - have, LongSize) \in Int
        BY <2>1 DEF Least
    <2> QED
        BY <2>1, <2>2, <2>3, <2>4 DEF StructStepsLeft
<1>3. ASSUME StructInv PROVE StructStepsLeft \in 0 .. (arg.of.want + 2)
    BY <1>1, <1>3 DEF StructStepsLeft
<1> QED
    BY <1>2, <1>3, StructInvHolds, PTL DEF StructSpec
==============================================================================
