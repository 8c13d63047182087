---------------------------- MODULE PassProtocol ----------------------------
(***************************************************************************)
(* What a benchmark promises, over TCP and over RDMA: a result is the time *)
(* of one whole pass.  The client hands over the last of what a pass       *)
(* moves, the other side confirms that it has it, and only then does the   *)
(* client stop its clock and keep a result.  Passes do not overlap.        *)
(***************************************************************************)
EXTENDS Naturals

CONSTANT PassCount   \* how many passes there are

VARIABLES
  sent,       \* passes the client has handed over completely
  confirmed,  \* passes the other side has confirmed
  measured    \* results the client has kept

Init == sent = 0 /\ confirmed = 0 /\ measured = 0

SendAll == /\ sent = measured
           /\ sent < PassCount
           /\ sent' = sent + 1
           /\ UNCHANGED <<confirmed, measured>>

Confirm == /\ confirmed < sent
           /\ confirmed' = confirmed + 1
           /\ UNCHANGED <<sent, measured>>

Measure == /\ measured < confirmed
           /\ measured' = measured + 1
           /\ UNCHANGED <<sent, confirmed>>

Next == SendAll \/ Confirm \/ Measure

Spec == Init /\ [][Next]_<<sent, confirmed, measured>>
=============================================================================
