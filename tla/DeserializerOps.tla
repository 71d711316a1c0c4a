--------------------------- MODULE DeserializerOps ---------------------------
(***************************************************************************)
(* struct sccp_deserializer and its operations (sccp_msg.c): bytes of the  *)
(* phone's TCP stream are read at the end of a buffer and taken from its   *)
(* start as messages, each as long as its first field claims.  Neither the *)
(* buffer's free room before start is used again nor its content moved,    *)
(* until all of it has been taken.                                         *)
(*                                                                         *)
(* A byte is known by the claim of its message and its position there, so  *)
(* that a message cut in the wrong place would show.  What a message says  *)
(* besides its length is left out.                                         *)
(***************************************************************************)
EXTENDS Integers, Sequences

CONSTANTS
  Claims,    \* the lengths that messages may claim in their first field
  Header,    \* bytes that the claimed length does not count
  MinTotal,  \* SCCP_MSG_MIN_TOTAL_LEN
  MaxTotal,  \* SCCP_MSG_MAX_TOTAL_LEN, what a struct sccp_msg holds
  BufSize,   \* the size of the buffer
  Width      \* the claims and their sum with Header are taken modulo Width

ASSUME DeserializerAssumption ==
  /\ {Header, MinTotal, MaxTotal, BufSize, Width} \subseteq Nat \ {0}
  /\ Header < MinTotal /\ MinTotal <= MaxTotal /\ MaxTotal <= BufSize /\ BufSize < Width
  /\ Claims \subseteq 0 .. Width - 1

(* SCCP_MSG_TOTAL_LEN_FROM_LEN, on a uint32_t. *)
TotalLen(claim) == (claim + Header) % Width

IsMalformed(claim) == TotalLen(claim) < MinTotal
IsTooBig(claim)    == TotalLen(claim) > BufSize

Byte == [claim : Claims, pos : Nat \ {0}]

(* What a phone sends for one message; enough of a malformed one for its   *)
(* claim to be looked at.                                                  *)
SentLen(claim) == IF IsMalformed(claim) THEN MinTotal ELSE TotalLen(claim)
BytesOf(claim) == [k \in 1 .. SentLen(claim) |-> [claim |-> claim, pos |-> k]]

(* bytes is the buffer's content from start to end. *)
DeserializerType == [start : 0 .. BufSize, bytes : Seq(Byte)]

sccp_deserializer_init == [start |-> 0, bytes |-> << >>]

\* Variant for the mutation runs: what was taken is taken for free room.
BytesLeft_All(d) == BufSize - Len(d.bytes)

BytesLeft(d) == BufSize - (d.start + Len(d.bytes))

(* sccp_deserializer_read, when read(2) returns these bytes. *)
Filled(d, bytes) == [start |-> d.start, bytes |-> d.bytes \o bytes]

Popped(code, d) == [code |-> code, d |-> d]

\* Variant for the mutation runs: the minimal length is skipped, not the message's.
After_Min(d, total) ==
  IF MinTotal = Len(d.bytes)
  THEN sccp_deserializer_init
  ELSE [start |-> d.start + MinTotal, bytes |-> SubSeq(d.bytes, MinTotal + 1, Len(d.bytes))]

(* The buffer after a message of that length was taken from it. *)
After(d, total) ==
  IF total = Len(d.bytes)
  THEN sccp_deserializer_init
  ELSE [start |-> d.start + total, bytes |-> SubSeq(d.bytes, total + 1, Len(d.bytes))]

sccp_deserializer_pop(d) ==
  IF Len(d.bytes) < MinTotal \/ Len(d.bytes) < TotalLen(Head(d.bytes).claim)
  THEN Popped("NOMSG", d)
  ELSE LET claim == Head(d.bytes).claim
       IN  IF IsMalformed(claim) \/ IsTooBig(claim)
           THEN Popped("MALFORMED", d)
           ELSE Popped("MSG", After(d, TotalLen(claim)))
=============================================================================
