----------------------------- MODULE ControlData ----------------------------
(* format_cmsg (decoders.c): the ancillary data of sendmsg and recvmsg, a list*)
(* of messages that is copied out of the tracee and walked with the CMSG      *)
(* macros of the C library.  What a header holds is whatever was read; the    *)
(* text is abstracted to its width, and a number to a width of Digits, the    *)
(* same for the numbers of one piece.                                         *)
EXTENDS Integers, Sequences

CONSTANTS
  CmsgBuf,      \* the size of the output buffer: STR_ARG_BUF_LEN
  MaxControl,   \* MSGHDR_MAX_CONTROL
  Controls,     \* how much of msg_controllen can be read
  Lengths,      \* values of cmsg_len
  Digits        \* widths of a number

ASSUME ControlAssumption ==
  /\ CmsgBuf \in Nat \ {0, 1} /\ MaxControl \in Nat
  /\ Controls \subseteq Nat /\ Lengths \subseteq Nat /\ Digits \subseteq Nat

(* struct cmsghdr, which CMSG_LEN(0) is equal to; struct ucred; an int.       *)
HeaderSize == 16
UcredSize == 12
IntSize == 4
CMSG_ALIGN(length) == ((length + 7) \div 8) * 8

cmsghdr == [level : {"SOL_SOCKET", "other"},
            type : {"SCM_RIGHTS", "SCM_CREDENTIALS", "other"}, len : Lengths]
NoHeader == [level |-> "other", type |-> "other", len |-> 0]

VARIABLES
  control, doing,   \* got of read_child_raw, and where the function is
  offset, header,   \* c, as the place of a header in the copy and what it holds
  fds,              \* i of the loop over the descriptors of one message
  filled, began     \* oi, and its value when snprintf was last called

cvars == <<control, doing, offset, header, fds, filled, began>>

ControlInit ==
  /\ control \in {IF c < MaxControl THEN c ELSE MaxControl : c \in Controls}
  /\ doing = "start" /\ offset = 0 /\ header = NoHeader /\ fds = 0
  /\ filled = 0 /\ began = 0

(* oi += snprintf(out + oi, out_size - oi, ...): what is written past the end *)
(* is not part of the model, which goes on with the width of the piece.       *)
Piece(width) == filled' = filled + width /\ began' = filled
NoPiece == UNCHANGED <<filled, began>>
HasRoom == filled < CmsgBuf

(* CMSG_FIRSTHDR and CMSG_NXTHDR: a header has to lie in the copy, and its    *)
(* successor too; older versions of the library also refuse a successor whose *)
(* own length passes the end.                                                 *)
FirstFits == control >= HeaderSize
NextFits == /\ header.len >= HeaderSize
            /\ offset + CMSG_ALIGN(header.len) + HeaderSize <= control

CopyControl ==
  /\ doing = "start"
  /\ Piece(IF control = 0 THEN Len("[]") ELSE Len("["))
  /\ doing' = CASE control = 0 -> "returned"
                [] FirstFits -> "header"
                [] OTHER -> "bracket"
  /\ UNCHANGED <<control, offset, header, fds>>

MessageHeader ==
  /\ doing = "header"
  /\ header' \in cmsghdr
  /\ Piece((IF offset = 0 THEN 0 ELSE Len(", ")) + Len("{cmsg_level="))
  /\ doing' = "level"
  /\ UNCHANGED <<control, offset, fds>>

(* The level follows whether or not the piece before it fitted.               *)
Level ==
  /\ doing = "level"
  /\ IF header.level = "SOL_SOCKET" THEN Piece(Len("SOL_SOCKET"))
     ELSE \E w \in Digits : Piece(w)
  /\ doing' = IF filled' < CmsgBuf THEN "type" ELSE "bracket"
  /\ UNCHANGED <<control, offset, header, fds>>

IsRights == header.level = "SOL_SOCKET" /\ header.type = "SCM_RIGHTS"
IsCredentials == /\ header.level = "SOL_SOCKET"
                 /\ header.type = "SCM_CREDENTIALS"
                 /\ header.len >= HeaderSize + UcredSize

Type ==
  /\ doing = "type"
  /\ CASE IsRights -> Piece(Len(", cmsg_type=SCM_RIGHTS, cmsg_data=["))
       [] IsCredentials ->
            \E w \in Digits :
              Piece(Len(", cmsg_type=SCM_CREDENTIALS, cmsg_data={pid=, uid=, gid=}}")
                    + 3 * w)
       [] OTHER -> \E w \in Digits : Piece(Len(", cmsg_type=, cmsg_len=}") + 2 * w)
  /\ doing' = IF IsRights THEN "fds" ELSE "next"
  /\ fds' = 0
  /\ UNCHANGED <<control, offset, header>>

num_fds == IF header.len > HeaderSize THEN (header.len - HeaderSize) \div IntSize
           ELSE 0

Fd ==
  /\ doing = "fds" /\ fds < num_fds /\ HasRoom
  /\ \E w \in Digits : Piece((IF fds = 0 THEN 0 ELSE Len(", ")) + w)
  /\ fds' = fds + 1
  /\ UNCHANGED <<control, doing, offset, header>>

FdsEnd ==
  /\ doing = "fds" /\ ~(fds < num_fds /\ HasRoom)
  /\ IF HasRoom THEN Piece(Len("]}")) ELSE NoPiece
  /\ doing' = "next"
  /\ UNCHANGED <<control, offset, header, fds>>

NextMessage ==
  /\ doing = "next"
  /\ IF NextFits /\ HasRoom
       THEN doing' = "header" /\ offset' = offset + CMSG_ALIGN(header.len)
       ELSE doing' = "bracket" /\ UNCHANGED offset
  /\ UNCHANGED <<control, header, fds, filled, began>>

Bracket ==
  /\ doing = "bracket"
  /\ IF HasRoom THEN Piece(Len("]")) ELSE NoPiece
  /\ doing' = "returned"
  /\ UNCHANGED <<control, offset, header, fds>>

ControlNext ==
  \/ CopyControl \/ MessageHeader \/ Level \/ Type \/ Fd \/ FdsEnd
  \/ NextMessage \/ Bracket
ControlSpec == ControlInit /\ [][ControlNext]_cvars

------------------------------------------------------------------------------
(* Every snprintf of format_cmsg is called with room left: the guard oi <     *)
(* out_size that DESIGN.md says every decoder in the file has.  It is         *)
(* violated: the level is printed without it, and the piece before it may have*)
(* used the room up.                                                          *)
GuardsEveryPiece == began < CmsgBuf
==============================================================================
