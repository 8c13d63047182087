------------------------------ MODULE RdmaPairs ------------------------------
(***************************************************************************)
(* Two programs that may have been started with anything: the inductive    *)
(* invariant of RdmaBench for any two command lines and any data sizes.    *)
(*                                                                         *)
(* It cuts both programs at their meetings, as RdmaLockstep does.  They go *)
(* through the same meetings until both want to send, or both to receive:  *)
(* nothing in the protocol can end that.  What is left is a client whose   *)
(* one-sided request fails, which takes the queue pair out of service.     *)
(***************************************************************************)
EXTENDS RdmaLockstep, RdmaResults

\* There is more than one buffer size, as in utils::buffer_sizes.
SeveralSizes == Len(BufferSizes) > 1

\* Both begin with the throughput tests, or neither does: then they run the
\* same tests, one of them perhaps fewer.
SameOrder == Metric["client"] = "latency" <=> Metric["server"] = "latency"

\* The client sends at this meeting; the server does at that one.  At every
\* other one it receives.
ClientSendsAt(p) ==
  LET t == Tests("client")[p.test] IN
  \/ p.label \in {"done", "fin"}
  \/ p.label = "ready" /\ t \in TwoSided
  \/ p.label = "data" /\ t = "two_lat"

ServerSendsAt(q) ==
  LET t == Tests("server")[q.test] IN
  \/ q.label = "ready" /\ t \notin TwoSided
  \/ q.label = "data" /\ t = "two_tp"

\* The loops of the two-sided throughput test for buffer size b: at some step
\* one of the programs goes on to the next message and the other one does not.
LoopsPart(b) ==
  \E o \in 0..DataSize["server"] :
    /\ o % b = 0
    /\ ~(MoreToReceive(DataSize["client"], b, o) <=> MoreToMove(DataSize["server"], b, o))

\* Both wait for ever, the client at p and the server at q.  Programs that run
\* the same tests only come to this in the two-sided throughput test, where
\* the number of messages depends on the data size.
Standstill(p, q) ==
  /\ p.test = q.test /\ p.label # "open" /\ q.label # "open"
  /\ ClientSendsAt(p) <=> ServerSendsAt(q)
  /\ IF SameOrder
     THEN /\ Tests("client")[p.test] = "two_tp"
          /\ {p.label, q.label} = {"data", "done"}
          /\ LoopsPart(BufferSizes[p.round])
     ELSE p.test = 1

Facing(p, q) ==
  \/ p = q /\ (SameOrder \/ (p.label = "open" /\ p.test = 1))
  \/ Standstill(p, q)

\* Where both programs are: at the same meeting or at a standstill, one of
\* them perhaps not aware yet that the last one is over.
InFront ==
  /\ Met("client") /\ Met("server")   => Meeting("client") = Meeting("server")
  /\ ~Met("client") /\ ~Met("server") => Facing(Meeting("client"), Meeting("server"))
  /\ Met("client") /\ ~Met("server")  => Facing(NextMeeting("client"), Meeting("server"))
  /\ Met("server") /\ ~Met("client")  => Facing(Meeting("client"), NextMeeting("server"))

\* The region of the first read test is too small for the client.
ShortRegion ==
  /\ Metric["client"] # "latency" /\ Metric["server"] # "latency"
  /\ DataSize["client"] > DataSize["server"]

\* What the client has read or written lay inside the region of the server.
Inside ==
  InOneSided("client") /\ scq["client"] # <<>>
    => FirstByte + CallLen("client") <= RegionSize(Test("server"))

\* Programs that begin with different tests never exchange a message.
Apart == ~SameOrder => /\ Met("client") => pos["client"].label = "open"
                       /\ ~Met("server")

\* A client with more data than the region holds does not end its first pass.
CutShort ==
  ShortRegion => /\ pos["client"].test = 1 /\ pos["client"].round <= 1
                 /\ pos["client"].label \in {"open", "ready", "data"}

\* Nothing has failed so far.
Sound ==
  /\ \A n \in Node : LinkOK(n) /\ \A i \in 1..Len(scq[n]) : scq[n][i] = "ok"
  /\ Agreement /\ InFront /\ Inside /\ Apart /\ CutShort

\* A request of the client has failed.  The server is left in its first pass,
\* in which it can only wait; the client goes on to where it has to wait.
Broken ==
  /\ qp["server"] = "error" /\ dial # "accepted"
  /\ \A n \in Node : rcq[n] = <<>>
  /\ Metric["server"] # "latency"
  /\ pos["server"].test = 1 /\ pos["server"].label \in {"fill", "ready", "done"}
  /\ \/ /\ Unserved
        /\ \/ pos["client"].test = 1 /\ pos["client"].label # "open"
           \/ pos["client"].test = 2 /\ pos["client"].label = "open"
     \/ /\ ShortRegion
        /\ pos["server"].round = 1 /\ pos["server"].label # "fill"
        /\ pos["client"].test = 1
        /\ \/ pos["client"].round = 1 /\ pos["client"].label \in {"data", "done"}
           \/ pos["client"].round = 2 /\ pos["client"].label = "ready"

PairInv == AloneInv /\ (Sound \/ Broken)

\* A server that begins with other tests than the client does not get to the
\* end of its first pass.
FirstPass ==
  ~SameOrder => /\ pos["server"].test = 1 /\ pos["server"].round <= 1
                /\ pos["server"].label # "close"

-----------------------------------------------------------------------------
(* When the client works on the region of the server.                      *)

\* Programs that begin with the same tests are then inside the same pass, the
\* server past its refill; in a latency test it waits for the end.  A client
\* that begins with the latency tests reads without asking: the region a server
\* offers for its first throughput test is then being filled for the first
\* time, or has been.  That is the one refill to meet a transfer.
RefillsOnlyThere ==
  At("client", {"data"}) /\ Test("client") \in OneSided =>
    /\ pos["server"].test = pos["client"].test
    /\ IF SameOrder
       THEN \/ At("server", {"ready", "done"}) /\ pos["server"].round = pos["client"].round
            \/ At("server", {"fin"}) /\ Test("client") \in LatencyTests
       ELSE /\ Metric["client"] = "latency" /\ pos["client"].test = 1
            /\ At("server", {"fill", "ready", "done"}) /\ pos["server"].round = 1

-----------------------------------------------------------------------------
(* Where two programs can be stuck.                                        *)

\* Nothing the two programs tell each other keeps them from waiting for each
\* other for ever.  They do so in four ways only: a request of the client has
\* failed; they begin with different tests; one of them runs fewer tests and
\* has ended; or, in a pass of the two-sided throughput test whose messages they
\* count differently, one is in its loop and the other one behind it.
StuckOnlyThere ==
  Stuck =>
    \/ qp["server"] = "error"
    \/ ~SameOrder /\ \A n \in Node : pos[n].test = 1
    \/ /\ SameOrder /\ Metric["client"] # Metric["server"]
       /\ \E n \in Node : Exited(n) /\ At(Peer(n), {"open"})
    \/ /\ SameOrder /\ \A n \in Node : ~Exited(n) /\ Test(n) = "two_tp"
       /\ {pos[n].label : n \in Node} = {"data", "done"}
       /\ LoopsPart(BufferSizes[pos["client"].round])
=============================================================================
