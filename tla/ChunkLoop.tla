------------------------------ MODULE ChunkLoop ------------------------------
(***************************************************************************)
(* The loop by which every throughput test moves data_size bytes in pieces *)
(* of buffer_size bytes,                                                   *)
(*                                                                         *)
(*   last_index = data_size - (data_size % buffer_size);                   *)
(*   for (offset = 0; offset < last_index; offset += buffer_size)          *)
(*       move(offset, buffer_size);                                        *)
(*   move(last_index, data_size % buffer_size);                            *)
(*                                                                         *)
(* and the other loop, which counts the pieces it expects to receive,      *)
(*                                                                         *)
(*   for (x = 0; x < data_size; x += buffer_size) receive();               *)
(*                                                                         *)
(* d is the data size in bytes and b the buffer size, b > 0.               *)
(***************************************************************************)
EXTENDS Integers, FiniteSets

LastIndex(d, b) == d - (d % b)

\* Variant of PieceLen: the rest is moved as a whole buffer.
PieceLenWhole(d, b, o) == b

\* The bytes moved by the step of the loop that stands at offset o.
PieceLen(d, b, o) == IF o < LastIndex(d, b) THEN b ELSE d % b

\* The moving loop has another step after the one at offset o; the piece at
\* last_index, which follows the loop, counts as a step of it.
MoreToMove(d, b, o) == o < LastIndex(d, b)

\* Variants of MoreToReceive: up to data_size inclusive, and up to last_index.
MoreToReceiveInclusive(d, b, o) == o + b <= d
MoreToReceiveWhole(d, b, o)     == o + b < LastIndex(d, b)

\* The receiving loop has another step after the one at x = o.
MoreToReceive(d, b, o) == o + b < d

\* The steps each loop takes, as the offsets they stand at: the first one,
\* and each one the step before it leads to.
MoveSteps(d, b)    == {o \in 0..d : o % b = 0 /\ (o = 0 \/ MoreToMove(d, b, o - b))}
ReceiveSteps(d, b) == {o \in 0..d : o % b = 0 /\ (o = 0 \/ MoreToReceive(d, b, o - b))}

\* The bytes of the buffer the step at offset o touches.
Piece(d, b, o) == o..(o + PieceLen(d, b, o) - 1)

-----------------------------------------------------------------------------
(* Properties.                                                             *)

\* The pieces are disjoint and cover the buffer: no pair of sizes makes the
\* moving loop skip a byte, move one twice or run over the end of the buffer.
Covered(d, b) ==
  /\ \A i \in 0..(d - 1) : \E o \in MoveSteps(d, b) :
       /\ i \in Piece(d, b, o)
       /\ \A p \in MoveSteps(d, b) : i \in Piece(d, b, p) => p = o
  /\ \A o \in MoveSteps(d, b) : Piece(d, b, o) \subseteq 0..(d - 1)

\* The server of the two-sided test announces data_size / buffer_size + 1
\* messages and sends as many; the client counts one less exactly when the
\* buffer size divides the data size.
StepCounts(d, b) ==
  LET moved    == Cardinality(MoveSteps(d, b))
      received == Cardinality(ReceiveSteps(d, b))
  IN /\ moved = d \div b + 1
     /\ received = IF d % b = 0 THEN moved - 1 ELSE moved
=============================================================================
