------------------------------ MODULE TcpStream ------------------------------
(***************************************************************************)
(* The TCP connection below TcpClient and TcpServer, as the operating      *)
(* system presents it to send() and recv(): one byte stream in each        *)
(* direction, with room for a bounded number of bytes that have been       *)
(* accepted from one side and not yet taken by the other.  Bytes carry no  *)
(* message boundaries.  The operating system is not part of this           *)
(* repository.                                                             *)
(*                                                                         *)
(* A connection that is reset (by the network, or by a process that closed *)
(* its socket with unread bytes in it) reports an error to each side once; *)
(* after that a read returns nothing and a write kills the writer with     *)
(* SIGPIPE.  Bytes that had arrived can still be read.                     *)
(***************************************************************************)
EXTENDS Naturals, Sequences

CONSTANT Capacity   \* bytes that fit in one direction of the connection

ASSUME CapacityAssumption == Capacity \in Nat \ {0}

VARIABLES
  link,    \* "none", "listening", "up" or "reset"
  wire,    \* wire[n]: bytes n has sent and its peer has not received
  pending, \* pending[n]: n has yet to be told of the reset
  closed   \* closed[n]: n has closed its socket, or has ended

stream == <<link, wire, pending, closed>>

Node == {"client", "server"}
Peer(n) == IF n = "client" THEN "server" ELSE "client"

StreamInit ==
  /\ link = "none"
  /\ wire = [n \in Node |-> <<>>]
  /\ pending = [n \in Node |-> FALSE]
  /\ closed = [n \in Node |-> FALSE]

\* send() takes a non-empty part of what it is offered, as much as has room.
\* What is sent to a closed socket is answered with a reset.
Accepted(n, bytes) ==
  IF closed[Peer(n)]
  THEN /\ link' = "reset"
       /\ pending' = [pending EXCEPT ![n] = TRUE]
       /\ UNCHANGED <<wire, closed>>
  ELSE /\ Len(wire[n]) + Len(bytes) <= Capacity
       /\ wire' = [wire EXCEPT ![n] = @ \o bytes]
       /\ UNCHANGED <<link, pending, closed>>

\* recv() takes any number of the bytes that are there, up to what it asks.
Taken(n, k) ==
  /\ k <= Len(wire[Peer(n)])
  /\ wire' = [wire EXCEPT ![Peer(n)] = SubSeq(@, k + 1, Len(@))]
  /\ UNCHANGED <<link, pending, closed>>

\* recv() has nothing to return and never will.
EndOfStream(n) ==
  /\ wire[Peer(n)] = <<>>
  /\ link = "reset" \/ closed[Peer(n)]

\* close(), or the end of the process.
CloseSocket(n) ==
  /\ closed' = [closed EXCEPT ![n] = TRUE]
  /\ IF link = "up" /\ wire[Peer(n)] # <<>>
     THEN /\ link' = "reset"
          /\ pending' = [pending EXCEPT ![Peer(n)] = TRUE]
          /\ wire' = [wire EXCEPT ![Peer(n)] = <<>>]
     ELSE UNCHANGED <<link, pending, wire>>

\* The network gives up on the connection; of the bytes under way some prefix
\* has arrived.
Reset ==
  /\ link = "up"
  /\ link' = "reset"
  /\ \E k \in [Node -> 0..Capacity] :
       wire' = [n \in Node |-> SubSeq(wire[n], 1, IF k[n] < Len(wire[n]) THEN k[n] ELSE Len(wire[n]))]
  /\ pending' = [n \in Node |-> TRUE]
  /\ UNCHANGED closed
=============================================================================
