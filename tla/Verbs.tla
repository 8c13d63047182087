-------------------------------- MODULE Verbs --------------------------------
(***************************************************************************)
(* The communication layer below RdmaClient and RdmaServer, as those two   *)
(* classes use it: one InfiniBand context per process (a send queue and    *)
(* its completion queue, one shared receive queue and its completion       *)
(* queue), and one reliable-connected queue pair at a time between them.   *)
(* The library itself (infinity) is not part of this repository.           *)
(*                                                                         *)
(* What the callers rely on and this module grants:                        *)
(*   - requests of a queue pair are executed in the order they are posted; *)
(*   - a send that finds no receive buffer posted is retried for ever: the *)
(*     callers send before the other side has posted;                      *)
(*   - a buffer posted for receiving goes to the first message that        *)
(*     arrives on the context, whichever call posted it;                   *)
(*   - a message larger than the buffer, an access outside the remote      *)
(*     region, and a peer that destroyed its queue pair all complete the   *)
(*     request as failed and take the queue pair out of service.           *)
(***************************************************************************)
EXTENDS Naturals, Sequences

VARIABLES
  conn,   \* conn[n]: how many connections n has established so far
  qp,     \* qp[n]: state of the queue pair of the latest of them
  sq,     \* sq[n]: requests n has posted and the hardware has not executed
  scq,    \* scq[n]: outcomes of executed requests, not yet polled by n
  srq,    \* srq[n]: sizes of the receive buffers n has posted
  rcq     \* rcq[n]: messages placed in a buffer of n, not yet polled by n

verbs == <<conn, qp, sq, scq, srq, rcq>>

Node == {"client", "server"}
Peer(n) == IF n = "client" THEN "server" ELSE "client"

VerbsInit ==
  /\ conn = [n \in Node |-> 0]
  /\ qp   = [n \in Node |-> "down"]
  /\ sq   = [n \in Node |-> <<>>]
  /\ scq  = [n \in Node |-> <<>>]
  /\ srq  = [n \in Node |-> <<>>]
  /\ rcq  = [n \in Node |-> <<>>]

-----------------------------------------------------------------------------
(* Calls of the process n: each returns at once.                           *)

\* A request says what to do (op), how many bytes it moves (len) and which
\* point of the poster's program it belongs to (at); `at` is what tells two
\* messages apart here, the real ones carry no such mark.
PostRequest(n, req) == sq' = [sq EXCEPT ![n] = Append(@, req)]

\* Context::postReceiveBuffer.
PostReceiveBuffer(n, size) == srq' = [srq EXCEPT ![n] = Append(@, size)]

\* The two halves of a connection get the same number.
OpenQueuePair(n) ==
  /\ conn' = [conn EXCEPT ![n] = @ + 1]
  /\ qp'   = [qp EXCEPT ![n] = "up"]

\* ~QueuePair.  Receive buffers belong to the context and stay posted.
CloseQueuePair(n) ==
  /\ qp' = [qp EXCEPT ![n] = "down"]
  /\ UNCHANGED conn

-----------------------------------------------------------------------------
(* Steps of the hardware on behalf of n's oldest request.                  *)

Connected(n) ==
  /\ conn[n] = conn[Peer(n)]
  /\ qp[n] = "up"
  /\ qp[Peer(n)] = "up"

\* The peer of n's queue pair is gone for good, or the queue pair is.
Severed(n) ==
  \/ qp[n] = "error"
  \/ conn[Peer(n)] > conn[n]
  \/ conn[Peer(n)] = conn[n] /\ qp[Peer(n)] # "up"

Complete(n, outcome) ==
  /\ sq'  = [sq EXCEPT ![n] = Tail(@)]
  /\ scq' = [scq EXCEPT ![n] = Append(@, outcome)]

Break(nodes) ==
  qp' = [m \in Node |-> IF m \in nodes THEN "error" ELSE qp[m]]

\* A send meets the oldest receive buffer the peer has posted.
Deliver(n) ==
  /\ sq[n] # <<>>
  /\ Head(sq[n]).op = "send"
  /\ Connected(n)
  /\ srq[Peer(n)] # <<>>
  /\ LET msg  == Head(sq[n])
         fits == msg.len <= Head(srq[Peer(n)])
     IN /\ Complete(n, IF fits THEN "ok" ELSE "failed")
        /\ rcq' = [rcq EXCEPT ![Peer(n)] = Append(@, [at |-> msg.at, len |-> msg.len, ok |-> fits])]
        /\ IF fits THEN UNCHANGED qp ELSE Break(Node)
  /\ srq' = [srq EXCEPT ![Peer(n)] = Tail(@)]
  /\ UNCHANGED conn

\* A one-sided read or write reaches the peer's registered region, which the
\* operation stays inside (allowed) or not.
Access(n, allowed) ==
  /\ sq[n] # <<>>
  /\ Head(sq[n]).op \in {"read", "write"}
  /\ Connected(n)
  /\ Complete(n, IF allowed THEN "ok" ELSE "failed")
  /\ IF allowed THEN UNCHANGED qp ELSE Break(Node)
  /\ UNCHANGED <<conn, srq, rcq>>

\* Retries run out, or the queue pair flushes what is posted to it.
Flush(n) ==
  /\ sq[n] # <<>>
  /\ Severed(n)
  /\ Complete(n, "failed")
  /\ Break({n})
  /\ UNCHANGED <<conn, srq, rcq>>
=============================================================================
