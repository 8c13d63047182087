---------------------------- MODULE MCChunkLoop -----------------------------
(***************************************************************************)
(* Every data size up to MaxData with every buffer size up to MaxBuffer:   *)
(* a state is one pair, and a step goes on to the next data size.          *)
(***************************************************************************)
EXTENDS Naturals

CONSTANTS MaxData, MaxBuffer

VARIABLES data_size, buffer_size

Loop == INSTANCE ChunkLoop

Init == data_size = 1 /\ buffer_size \in 1..MaxBuffer
Next == data_size < MaxData /\ data_size' = data_size + 1 /\ UNCHANGED buffer_size
Spec == Init /\ [][Next]_<<data_size, buffer_size>>

-----------------------------------------------------------------------------
(* The properties of ChunkLoop, for the pair of sizes.                     *)

\* Every byte is moved exactly once.
Covered == Loop!Covered(data_size, buffer_size)

\* The two loops take the numbers of steps that they should.
StepCounts == Loop!StepCounts(data_size, buffer_size)
=============================================================================
