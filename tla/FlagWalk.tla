------------------------------ MODULE FlagWalk ------------------------------
(* The decoders of decoders.c that turn one integer argument into names: the  *)
(* OR-of-bits walks (format_open_flags, format_prot_flags, ...) and the exact *)
(* lookups (format_fcntl_cmd, format_futex_op, ...).  Each goes through its   *)
(* table once and builds the text in pieces, counting in out (the code's oi)  *)
(* the characters that snprintf reports.  A value is the set of its bits; a   *)
(* piece is known by the bits it stands for and by its length.                *)
EXTENDS Integers, Sequences, FiniteSets

CONSTANTS
  Decoder,   \* one record per decoder: see DecoderType
  Call,      \* the calls [fn, value, size] that are made
  Buffers    \* decoder |-> the size of the buffer its callers have for it

(* table   the entries, in order                                              *)
(* exact   a lookup: an entry must equal the value, the first one wins        *)
(* zero    the width of the text printed up front for 0, 0 if there is none   *)
(* late    that text is printed at the end, if nothing else was               *)
(* first   bits settled before the walk, with their (longest) text            *)
(* always  that text is printed even when none of those bits is set           *)
(* last    flags split off before a lookup, or clone's exit signal: printed   *)
(*         after the table                                                    *)
(* mask    the bits that are compared                                         *)
(* keeps   the bits the numeric form of a lookup's part still shows           *)
(* number  the width of the longest numeric form, 0 if that is a hex number   *)
EntryType == [name : STRING, width : Nat, bits : SUBSET Nat]
DecoderType ==
  [table : Seq(EntryType), exact : BOOLEAN, zero : Nat, late : BOOLEAN,
   first : EntryType, always : BOOLEAN, last : Seq(EntryType),
   mask : SUBSET Nat, keeps : SUBSET Nat, number : Nat]

LastOf(d) == UNION {d.last[j].bits : j \in DOMAIN d.last}

(* What the decoders have in common: a name is not empty, what is printed     *)
(* before or after the table is among the bits that are looked at, a walk     *)
(* shows what it looks at, and only a walk has a first text or a late one.    *)
DecoderOK(d) ==
  /\ d \in DecoderType
  /\ \A j \in DOMAIN d.table : d.table[j].width > 0
  /\ LastOf(d) \subseteq d.mask \cap d.keeps
  /\ d.first.bits \subseteq d.mask
  /\ IF d.exact THEN d.first.bits = {} /\ ~d.late ELSE d.keeps = d.mask
  /\ d.always => d.last = <<>>

ASSUME FlagWalkAssumption ==
  /\ \A f \in DOMAIN Decoder : DecoderOK(Decoder[f])
  /\ \A c \in Call : c.fn \in DOMAIN Decoder /\ c.value \subseteq Nat
                     /\ c.size \in Nat

(* The tables of the walks list an entry before those that it contains, and   *)
(* once, and have no bit that is masked away.                                 *)
InOrder(d) ==
  /\ \A j \in DOMAIN d.table : d.table[j].bits \subseteq d.mask
  /\ \A a, b \in DOMAIN d.table :
       a < b /\ d.table[a].bits # {} => ~(d.table[a].bits \subseteq d.table[b].bits)

ASSUME TableOrderAssumption ==
  \A f \in DOMAIN Decoder : ~Decoder[f].exact => InOrder(Decoder[f])

(* The characters of some pieces of s, each with a separator in front; and    *)
(* whether the longest text of a decoder and its terminator fit: every name of*)
(* a walk, or one of a lookup, and the flags split off and longest number.    *)
Characters(s, some) == UNION {{j} \X (0 .. s[j].width) : j \in some}
Longest(s) == Cardinality(Characters(s, DOMAIN s))

MaxHex == 18
MaxNumber(d) == IF d.number = 0 THEN MaxHex ELSE d.number
LookedUp(d) == {MaxNumber(d)} \cup {d.table[j].width : j \in DOMAIN d.table}
LongestFits(d, size) ==
  /\ d.zero < size
  /\ IF d.exact
       THEN \A w \in LookedUp(d) : w + Longest(d.last) < size
       ELSE d.first.width + Longest(d.table) + Longest(d.last) + 1 + MaxNumber(d) < size

ASSUME BuffersAssumption ==
  /\ DOMAIN Buffers \subseteq DOMAIN Decoder
  /\ \A f \in DOMAIN Buffers :
       Buffers[f] \in Nat /\ LongestFits(Decoder[f], Buffers[f])

VARIABLES
  call, step,       \* the call, and where it is
  k,                \* index into the table, then into last
  remaining,        \* bits not yet explained
  named, trailed,   \* indices of the entries printed, of table and of last
  led, hexed, zeroed, \* the leading text, the hex piece, the text for 0
  out, written      \* characters so far; offset of the last snprintf

fvars == <<call, step, k, remaining, named, trailed, led, hexed, zeroed, out,
           written>>

D == Decoder[call.fn]
LastBits == LastOf(D)

(* 0x and a digit for every four bits up to the highest; a number in another  *)
(* form counts at its longest.                                                *)
HexWidth(bits) ==
  2 + Cardinality({d \in 0 .. 15 : d = 0 \/ \E b \in bits : b >= 4 * d})
NumberWidth(bits) == IF D.number = 0 THEN HexWidth(bits) ELSE D.number

(* snprintf(out + oi, out_size - oi, "%s...", oi ? "|" : ""): returns the     *)
(* length the piece takes, with or without the room for it.  The mutant has   *)
(* blanks around the separator.                                               *)
PutSpaced(width) ==
  out' = out + width + (IF out = 0 THEN 0 ELSE 3) /\ written' = out
Put(width) == out' = out + width + (IF out = 0 THEN 0 ELSE 1) /\ written' = out
PutNothing == UNCHANGED <<out, written>>

FlagInit ==
  /\ call \in Call
  /\ step = "first" /\ k = 1 /\ remaining = {} /\ named = {} /\ trailed = {}
  /\ led = FALSE /\ hexed = FALSE /\ zeroed = FALSE /\ out = 0 /\ written = 0

------------------------------------------------------------------------------
(* The guard of every further piece; the mutant's is off by a separator.      *)
RoomOrAlmost == out <= call.size + 1
RoomLeft == out < call.size

(* A value of 0 with a text of its own.                                       *)
IsZero == call.value \cap D.mask = {} /\ D.zero # 0 /\ ~D.late

ZeroText ==
  /\ step = "first" /\ IsZero
  /\ step' = "done" /\ zeroed' = TRUE
  /\ Put(D.zero)
  /\ UNCHANGED <<call, k, remaining, named, trailed, led, hexed>>

(* The access mode of open, bit 0x200 of the AT_ flags, or nothing.  The bits *)
(* it settles and those of last are taken out of what the walk sees.          *)
Leads == /\ D.first.bits # {}
         /\ D.always \/ (D.first.bits \subseteq call.value /\ RoomLeft)

Begin ==
  /\ step = "first" /\ ~IsZero
  /\ step' = "walk"
  /\ remaining' = ((call.value \cap D.mask) \ LastBits)
                    \ (IF Leads THEN D.first.bits ELSE {})
  /\ led' = Leads
  /\ IF Leads THEN Put(D.first.width) ELSE PutNothing
  /\ UNCHANGED <<call, k, named, trailed, hexed, zeroed>>

(* Which entry explains what is left: all of its bits, or exactly.            *)
Matches(e) == IF D.exact THEN e.bits = remaining
              ELSE e.bits # {} /\ e.bits \subseteq remaining

(* The mutant leaves out the last entry.                                      *)
WalkOnButLast ==
  /\ k < Len(D.table)
  /\ IF D.exact THEN named = {} ELSE RoomLeft
WalkOn ==
  /\ k <= Len(D.table)
  /\ IF D.exact THEN named = {} ELSE RoomLeft

Walk ==
  /\ step = "walk" /\ WalkOn
  /\ k' = k + 1
  /\ IF Matches(D.table[k])
       THEN /\ named' = named \cup {k}
            /\ remaining' = remaining \ D.table[k].bits
            /\ Put(D.table[k].width)
       ELSE UNCHANGED <<named, remaining>> /\ PutNothing
  /\ UNCHANGED <<call, step, trailed, led, hexed, zeroed>>

(* A lookup prints the hex of its part before the flags that were split off,  *)
(* clone its exit signal before the remainder.                                *)
WalkEnds ==
  /\ step = "walk" /\ ~WalkOn
  /\ step' = IF D.exact THEN "rest" ELSE "last"
  /\ k' = 1
  /\ PutNothing
  /\ UNCHANGED <<call, remaining, named, trailed, led, hexed, zeroed>>

(* Whether a hex piece follows.  The mutant takes a walk that named something *)
(* to have explained everything.                                              *)
NeedsHexIfBare == IF D.exact THEN named = {} ELSE named = {} /\ RoomLeft
NeedsHex ==
  IF D.exact THEN named = {}
  ELSE RoomLeft /\ (remaining # {} \/ (D.zero = 0 /\ out = 0))

(* The bits in it: a lookup prints its part whole, not only what it compared. *)
HexPart == IF D.exact THEN (call.value \ LastBits) \cap D.keeps ELSE remaining

Rest ==
  /\ step = "rest"
  /\ step' = IF D.exact THEN "last" ELSE "done"
  /\ zeroed' = (D.late /\ out = 0)
  /\ hexed' = (NeedsHex /\ ~(D.late /\ out = 0))
  /\ \/ D.late /\ out = 0 /\ Put(D.zero)
     \/ ~(D.late /\ out = 0) /\ NeedsHex /\ Put(NumberWidth(HexPart))
     \/ ~(D.late /\ out = 0) /\ ~NeedsHex /\ PutNothing
  /\ UNCHANGED <<call, k, remaining, named, trailed, led>>

Last ==
  /\ step = "last" /\ k <= Len(D.last)
  /\ k' = k + 1
  /\ IF D.last[k].bits \cap call.value # {} /\ RoomLeft
       THEN trailed' = trailed \cup {k} /\ Put(D.last[k].width)
       ELSE UNCHANGED trailed /\ PutNothing
  /\ UNCHANGED <<call, step, remaining, named, led, hexed, zeroed>>

LastEnds ==
  /\ step = "last" /\ k > Len(D.last)
  /\ step' = IF D.exact THEN "done" ELSE "rest"
  /\ PutNothing
  /\ UNCHANGED <<call, k, remaining, named, trailed, led, hexed, zeroed>>

FlagNext == ZeroText \/ Begin \/ Walk \/ WalkEnds \/ Rest \/ Last \/ LastEnds
FlagSpec == FlagInit /\ [][FlagNext]_fvars

------------------------------------------------------------------------------
(* The bits the pieces of a text stand for.  Access mode 3 is printed as      *)
(* O_RDONLY, which stands for none.                                           *)
LedBits == IF ~led \/ (D.always /\ D.first.bits \subseteq call.value) THEN {}
           ELSE D.first.bits \cap call.value
NamedBits == UNION {D.table[j].bits : j \in named}
TrailedBits == UNION {D.last[j].bits \cap call.value : j \in trailed}
HexBits == IF hexed THEN HexPart ELSE {}

Complete == step = "done" /\ out < call.size
Meant == call.value \cap (IF hexed THEN D.keeps ELSE D.mask)

(* A text that fits can be read back: its names and its hex piece together    *)
(* stand for exactly the argument's bits, no bit claimed by two names or by a *)
(* name and the hex piece.  There are two exceptions: open's access mode 3 is *)
(* printed as O_RDONLY, and clone flags of which none is known, without an    *)
(* exit signal, are printed as 0.                                             *)
ReadsBack ==
  Complete =>
    /\ \A a, b \in named : a # b => D.table[a].bits \cap D.table[b].bits = {}
    /\ NamedBits \cap HexBits = {}
    /\ \/ LedBits \cup NamedBits \cup TrailedBits \cup HexBits = Meant
       \/ /\ D.always /\ D.first.bits \subseteq call.value
          /\ NamedBits \cup TrailedBits \cup HexBits = Meant \ D.first.bits
       \/ D.late /\ zeroed /\ named = {}

(* Entry j is named, or not there in full, or lost a bit to the first text or *)
(* to an entry that is not contained in it.                                   *)
NamedOrCut(j) ==
  LET e == D.table[j].bits
  IN  e # {} /\ e \subseteq call.value \ LastBits /\ j \notin named =>
        \/ e \cap D.first.bits # {}
        \/ \E m \in named : /\ D.table[m].bits \cap e # {}
                            /\ ~ D.table[m].bits \subseteq e

(* An entry that is there in full is named unless it lost a bit to an entry   *)
(* that is not contained in it: O_SYNC is never printed as O_DSYNC and a      *)
(* remainder, nor STATX_BASIC_STATS as its parts.                             *)
WidestFirst == Complete /\ ~D.exact => \A j \in DOMAIN D.table : NamedOrCut(j)

(* No snprintf is handed a place behind the buffer (out_size - oi would wrap  *)
(* around), however short the buffer and however many names are printed.      *)
WritesInside == written <= call.size

(* The text for an argument fits the buffer that its callers have for it,     *)
(* whatever bits are set: nothing of an integer is ever cut.                  *)
EveryTextFits ==
  step = "done" /\ call.fn \in DOMAIN Buffers /\ call.size >= Buffers[call.fn] =>
    out < call.size
==============================================================================
