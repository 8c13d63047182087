------------------------------ MODULE RdmaBench ------------------------------
(***************************************************************************)
(* The RDMA benchmark: one RdmaClient and one RdmaServer, each a           *)
(* single-threaded program that runs the tests its command line selects.   *)
(*                                                                         *)
(* Nothing either side sends says which test, which buffer size or which   *)
(* message it is: the two programs stay together only because each counts  *)
(* the same messages.  The model keeps the control flow of both programs,  *)
(* call by call, and leaves out timing and console output; RdmaResults     *)
(* adds the results files.                                                 *)
(***************************************************************************)
EXTENDS Verbs, ChunkLoop

CONSTANTS
  Metric,        \* Metric[n]: the -metric argument of n
  DataSize,      \* DataSize[n]: the -datasize argument of n, in bytes
  BufferSizes,   \* utils::buffer_sizes, of the throughput tests
  LatencySizes,  \* utils::latency_buffer_sizes
  NumLoops,      \* utils::num_loops
  MaxBufferSize, \* utils::MAX_BUFFER_SIZE, the region of the latency tests
  Junk           \* a byte of memory nobody has written

PosNat == Nat \ {0}
Metrics == {"throughput", "latency", "all"}

ASSUME ConstantsAssumption ==
  /\ Metric \in [Node -> Metrics]
  /\ DataSize \in [Node -> PosNat]
  /\ BufferSizes \in Seq(PosNat)
  /\ LatencySizes \in Seq(PosNat)
  /\ NumLoops \in PosNat
  /\ MaxBufferSize \in PosNat
  /\ \A i \in 1..Len(LatencySizes) : LatencySizes[i] <= MaxBufferSize
  /\ Junk \notin Nat

Throughput == <<"read_tp", "write_tp", "two_tp">>
Latency    == <<"read_lat", "write_lat", "two_lat">>

\* main's switch on the metric, then run_throughput_tests / run_latency_tests.
Tests(n) == CASE Metric[n] = "throughput" -> Throughput
              [] Metric[n] = "latency"    -> Latency
              [] Metric[n] = "all"        -> Throughput \o Latency

LatencyTests == {"read_lat", "write_lat", "two_lat"}
TwoSided     == {"two_tp", "two_lat"}
Labels == {"open", "fill", "ready", "data", "done", "fin", "close"}

VARIABLES
  pos,      \* pos[n]: the call n is at, see Position
  blocked,  \* blocked[n]: n has made that call and waits for it to finish
  dial,     \* the client's connection attempt: "none", "requested", "accepted"
  failed,   \* failed[n]: a request n waited for has failed; no one looks
  mem       \* mem[n]: contents of the buffer of n's throughput test

vars == <<pos, blocked, dial, failed, mem, verbs>>

\* The call a program is at: the test (index in Tests), the pass over the
\* buffer sizes (0 outside the loop), the place in the test, and the loop
\* variable of the inner loop.  The places are: open and close the queue
\* pair, fill the buffer, the control message that starts a pass, the data
\* transfer, the one that ends the pass, and the one that ends the test.
Position == [test : PosNat, round : Nat, label : Labels, off : Nat]

Exited(n)  == pos[n].test > Len(Tests(n))
Test(n)    == Tests(n)[pos[n].test]
Sizes(t)   == IF t \in LatencyTests THEN LatencySizes ELSE BufferSizes
Size(n)    == Sizes(Test(n))[pos[n].round]

\* The size of the region the server registers for test t.
RegionSize(t) == CASE t \in {"read_tp", "write_tp"} -> DataSize["server"]
                   [] t = "two_tp"                  -> 1
                   [] t \in LatencyTests            -> MaxBufferSize

-----------------------------------------------------------------------------
(* Control flow: the call that follows the one n is at.                    *)

Goto(p, label, round) == [test |-> p.test, round |-> round, label |-> label, off |-> 0]

NextTest(p) == [test |-> p.test + 1, round |-> 0, label |-> "open", off |-> 0]

\* The next step of the inner loop.
Step(p, o) == [test |-> p.test, round |-> p.round, label |-> p.label, off |-> o]

\* Leaving the loop over the buffer sizes: one more control message in the
\* one-sided tests, none in the two-sided ones.
LeaveLoop(t, p) == Goto(p, IF t \in TwoSided THEN "close" ELSE "fin", 0)

\* Variant of ClientPass: no wait for the server to be ready.
ClientPassHasty(t, p, r) ==
  IF r <= Len(Sizes(t)) THEN Goto(p, IF t \in TwoSided THEN "ready" ELSE "data", r)
                        ELSE LeaveLoop(t, p)

\* The for loop of the client's run_*_tests: its head, from pass r on.
ClientPass(t, p, r) ==
  IF r <= Len(Sizes(t))
  THEN Goto(p, IF t \in {"read_lat", "write_lat"} THEN "data" ELSE "ready", r)
  ELSE LeaveLoop(t, p)

\* Variants of ClientMore: one message less in the two-sided latency test, and
\* no piece at last_index in the one-sided throughput tests.
ClientMoreShort(t, b, o) ==
  CASE t \in {"read_tp", "write_tp"} -> MoreToMove(DataSize["client"], b, o)
    [] t = "two_tp"                  -> MoreToReceive(DataSize["client"], b, o)
    [] t \in LatencyTests            -> o + 2 < NumLoops
ClientMoreNoRest(t, b, o) ==
  CASE t \in {"read_tp", "write_tp"} -> MoreToMove(DataSize["client"], b, o + b)
    [] t = "two_tp"                  -> MoreToReceive(DataSize["client"], b, o)
    [] t \in LatencyTests            -> o + 1 < NumLoops

\* The inner loop of the client's test functions: is there another step?
ClientMore(t, b, o) ==
  CASE t \in {"read_tp", "write_tp"} -> MoreToMove(DataSize["client"], b, o)
    [] t = "two_tp"                  -> MoreToReceive(DataSize["client"], b, o)
    [] t \in LatencyTests            -> o + 1 < NumLoops

ClientAfter(p) ==
  LET t == Tests("client")[p.test]
      b == Sizes(t)[p.round] IN
  CASE p.label = "open"  -> ClientPass(t, p, 1)
    [] p.label = "ready" -> Goto(p, "data", p.round)
    [] p.label = "data"  ->
         IF ClientMore(t, b, p.off)
         THEN Step(p, p.off + (IF t \in LatencyTests THEN 1 ELSE b))
         ELSE IF t \in {"read_lat", "write_lat"}
              THEN ClientPass(t, p, p.round + 1)
              ELSE Goto(p, "done", p.round)
    [] p.label = "done"  -> IF t = "write_tp" THEN Goto(p, "fill", p.round)
                            ELSE ClientPass(t, p, p.round + 1)
    [] p.label = "fill"  -> ClientPass(t, p, p.round + 1)
    [] p.label = "fin"   -> Goto(p, "close", 0)
    [] p.label = "close" -> NextTest(p)

\* Variant of ServerPass: the one-sided latency tests do not wait for the end.
ServerPassNoEnd(t, p, r) ==
  IF t \in {"read_lat", "write_lat"} THEN Goto(p, "close", 0)
  ELSE IF r <= Len(Sizes(t))
  THEN Goto(p, IF t \in {"read_tp", "write_tp"} THEN "fill" ELSE "ready", r)
  ELSE LeaveLoop(t, p)

\* Variant of ServerPass: the last buffer size is left out.
ServerPassShort(t, p, r) ==
  IF t \notin {"read_lat", "write_lat"} /\ r < Len(Sizes(t))
  THEN Goto(p, IF t \in {"read_tp", "write_tp"} THEN "fill" ELSE "ready", r)
  ELSE LeaveLoop(t, p)

\* The for loop of the server's run_*_tests; two of them have none.
ServerPass(t, p, r) ==
  IF t \notin {"read_lat", "write_lat"} /\ r <= Len(Sizes(t))
  THEN Goto(p, IF t \in {"read_tp", "write_tp"} THEN "fill" ELSE "ready", r)
  ELSE LeaveLoop(t, p)

\* Variant of ServerMore: i <= num_loops.
ServerMoreInclusive(t, b, o) == IF t = "two_tp" THEN MoreToMove(DataSize["server"], b, o)
                                                ELSE o < NumLoops

ServerMore(t, b, o) == IF t = "two_tp" THEN MoreToMove(DataSize["server"], b, o)
                                       ELSE o + 1 < NumLoops

ServerAfter(p) ==
  LET t == Tests("server")[p.test]
      b == Sizes(t)[p.round] IN
  CASE p.label = "open"  -> ServerPass(t, p, 1)
    [] p.label = "fill"  -> Goto(p, "ready", p.round)
    [] p.label = "ready" -> Goto(p, IF t \in TwoSided THEN "data" ELSE "done", p.round)
    [] p.label = "data"  ->
         IF ServerMore(t, b, p.off)
         THEN Step(p, p.off + (IF t = "two_tp" THEN b ELSE 1))
         ELSE Goto(p, "done", p.round)
    [] p.label = "done"  -> ServerPass(t, p, p.round + 1)
    [] p.label = "fin"   -> Goto(p, "close", 0)
    [] p.label = "close" -> NextTest(p)

Return(n) ==
  /\ pos' = [pos EXCEPT ![n] = IF n = "client" THEN ClientAfter(@) ELSE ServerAfter(@)]
  /\ blocked' = [blocked EXCEPT ![n] = FALSE]

-----------------------------------------------------------------------------
(* The calls.  Each blocking call is an action that makes it and an action *)
(* that returns from it.                                                   *)

At(n, labels) == ~Exited(n) /\ pos[n].label \in labels

\* Which control messages each side sends; it waits for the others.
SendsControl(n) ==
  IF n = "client"
  THEN \/ At(n, {"done", "fin"})
       \/ At(n, {"ready"}) /\ Test(n) \in TwoSided
  ELSE At(n, {"ready"}) /\ Test(n) \notin TwoSided

WaitsForControl(n) == At(n, {"ready", "done", "fin"}) /\ ~SendsControl(n)

\* In the two-sided tests the payload travels in messages: the server
\* streams in the throughput test, the client in the latency test.
SendsData(n)    == At(n, {"data"}) /\ Test(n) = IF n = "client" THEN "two_lat" ELSE "two_tp"
ReceivesData(n) == At(n, {"data"}) /\ Test(n) = IF n = "client" THEN "two_tp" ELSE "two_lat"

Call(n) == ~blocked[n] /\ blocked' = [blocked EXCEPT ![n] = TRUE]

Post(n, op, len) == PostRequest(n, [op |-> op, at |-> pos[n], len |-> len])

\* RdmaClient::send_control_message and RdmaServer::send_control_message:
\* one byte, on the queue pair of the running test.
SendControlMessage(n) ==
  /\ SendsControl(n)
  /\ Call(n)
  /\ Post(n, "send", 1)
  /\ UNCHANGED <<pos, dial, failed, mem, conn, qp, scq, srq, rcq>>

\* queue_pair->send in the inner loop of two_sided_tp_test and
\* two_sided_latency_test.
SendData(n) ==
  /\ SendsData(n)
  /\ Call(n)
  /\ Post(n, "send", IF n = "client" THEN Size(n) ELSE PieceLen(DataSize[n], Size(n), pos[n].off))
  /\ UNCHANGED <<pos, dial, failed, mem, conn, qp, scq, srq, rcq>>

\* Variant of OneSidedLen: the last piece is not shortened.
OneSidedLenWhole(b) == b

\* queue_pair->read and queue_pair->write in the inner loops of the four
\* one-sided tests: local and remote offset are equal.
OneSidedLen(b) ==
  IF Test("client") \in LatencyTests THEN b ELSE PieceLen(DataSize["client"], b, pos["client"].off)

ReadOrWrite ==
  /\ At("client", {"data"})
  /\ Test("client") \notin TwoSided
  /\ Call("client")
  /\ Post("client", IF Test("client") \in {"read_tp", "read_lat"} THEN "read" ELSE "write",
          OneSidedLen(Size("client")))
  /\ UNCHANGED <<pos, dial, failed, mem, conn, qp, scq, srq, rcq>>

\* requestToken->waitUntilCompleted() after any of the three, which returns
\* on success and on failure alike; wasSuccessful() is never asked.
WaitUntilCompleted(n) ==
  /\ blocked[n]
  /\ scq[n] # <<>>
  /\ scq' = [scq EXCEPT ![n] = Tail(@)]
  /\ failed' = [failed EXCEPT ![n] = @ \/ Head(scq[n]) = "failed"]
  /\ Return(n)
  /\ UNCHANGED <<dial, mem, conn, qp, sq, srq, rcq>>

\* Variant of Fresh: a buffer with one byte too many.
FreshLong(size) == [i \in 0..size |-> Junk]

Fresh(size) == [i \in 0..(size - 1) |-> Junk]

\* wait_for_control_message up to its polling loop: a one-byte buffer on the
\* stack of the call.  read_tp_test has just allocated its local buffer.
WaitForControlMessage(n) ==
  /\ WaitsForControl(n)
  /\ Call(n)
  /\ PostReceiveBuffer(n, 1)
  /\ mem' = IF n = "client" /\ Test(n) = "read_tp"
            THEN [mem EXCEPT ![n] = Fresh(DataSize[n])] ELSE mem
  /\ UNCHANGED <<pos, dial, failed, conn, qp, sq, scq, rcq>>

\* postReceiveBuffer in the inner loops of the two-sided tests.
PostDataBuffer(n) ==
  /\ ReceivesData(n)
  /\ Call(n)
  /\ PostReceiveBuffer(n, Size(n))
  /\ UNCHANGED <<pos, dial, failed, mem, conn, qp, sq, scq, rcq>>

\* Variant of Receive: polls once and takes the call for done.
ReceiveOnce(n) ==
  /\ blocked[n]
  /\ WaitsForControl(n) \/ ReceivesData(n)
  /\ rcq' = [rcq EXCEPT ![n] = IF @ = <<>> THEN @ ELSE Tail(@)]
  /\ Return(n)
  /\ UNCHANGED <<dial, failed, mem, conn, qp, sq, scq, srq>>

\* while (!context->receive(&receive_elem)); -- takes whatever message came.
Receive(n) ==
  /\ blocked[n]
  /\ rcq[n] # <<>>
  /\ rcq' = [rcq EXCEPT ![n] = Tail(@)]
  /\ Return(n)
  /\ UNCHANGED <<dial, failed, mem, conn, qp, sq, scq, srq>>

\* utils::dev_random_data asks /dev/urandom once and ignores how much it got:
\* some prefix of the buffer is new, the rest keeps its old contents.
Scribble(buf, k, byte) == [i \in DOMAIN buf |-> IF i < k THEN byte ELSE buf[i]]
Zeroed(size)           == [i \in 0..(size - 1) |-> 0]

\* connect_to_remote_buffer up to the answer of the server.  run_write_tp_tests
\* has generated its data before.
Connect ==
  /\ At("client", {"open"})
  /\ Call("client")
  /\ dial' = "requested"
  /\ IF Test("client") = "write_tp"
     THEN \E k \in 0..DataSize["client"] :
            mem' = [mem EXCEPT !["client"] = Scribble(Zeroed(DataSize["client"]), k, 1)]
     ELSE UNCHANGED mem
  /\ UNCHANGED <<pos, failed, verbs>>

\* acceptIncomingConnection, with the region that the test allocated for it:
\* a zeroed vector in the read test, raw memory in the write test.
Accept ==
  /\ At("server", {"open"})
  /\ dial = "requested"
  /\ dial' = "accepted"
  /\ OpenQueuePair("server")
  /\ mem' = [mem EXCEPT !["server"] =
       CASE Test("server") = "read_tp"  -> Zeroed(DataSize["server"])
         [] Test("server") = "write_tp" -> Fresh(DataSize["server"])
         [] OTHER                       -> @]
  /\ Return("server")
  /\ UNCHANGED <<failed, sq, scq, srq, rcq>>

\* The server's answer arrives; connect_to_remote_buffer returns.
ConnectReturns ==
  /\ dial = "accepted"
  /\ dial' = "none"
  /\ OpenQueuePair("client")
  /\ Return("client")
  /\ UNCHANGED <<failed, mem, sq, scq, srq, rcq>>

\* Between two passes: the server refills (read) or clears (write) its region
\* before a pass, the client refills its data after one.
Refill(n) ==
  /\ At(n, {"fill"})
  /\ \/ /\ Test(n) = "write_tp" /\ n = "server"
        /\ mem' = [mem EXCEPT ![n] = Zeroed(DataSize[n])]
     \/ /\ ~(Test(n) = "write_tp" /\ n = "server")
        /\ \E k \in 0..DataSize[n] :
             mem' = [mem EXCEPT ![n] = Scribble(@, k, IF n = "client" THEN pos[n].round + 1
                                                                     ELSE pos[n].round)]
  /\ Return(n)
  /\ UNCHANGED <<dial, failed, verbs>>

\* The end of the scope of a run_*_tests: the queue pair goes first, then the
\* region token and the buffer.
Close(n) ==
  /\ At(n, {"close"})
  /\ CloseQueuePair(n)
  /\ Return(n)
  /\ UNCHANGED <<dial, failed, mem, sq, scq, srq, rcq>>

-----------------------------------------------------------------------------
(* The hardware.                                                           *)

DeliverMessage(n) ==
  /\ Deliver(n)
  /\ UNCHANGED <<pos, blocked, dial, failed, mem>>

\* A one-sided operation reaches the server's region.  Contents are kept only
\* for the throughput tests; a latency test works at offset 0 throughout.
AccessRegion ==
  LET req     == Head(sq["client"])
      from    == IF Test("client") \in LatencyTests THEN 0 ELSE req.at.off
      allowed == from + req.len <= RegionSize(Test("server"))
      Moved(dst, src) ==
        [i \in DOMAIN dst |-> IF i \in from..(from + req.len - 1) THEN src[i] ELSE dst[i]]
  IN /\ Access("client", allowed)
     /\ mem' = IF allowed /\ Test("client") = "read_tp" /\ Test("server") = "read_tp"
               THEN [mem EXCEPT !["client"] = Moved(@, mem["server"])]
               ELSE IF allowed /\ Test("client") = "write_tp" /\ Test("server") = "write_tp"
               THEN [mem EXCEPT !["server"] = Moved(@, mem["client"])]
               ELSE mem
     /\ UNCHANGED <<pos, blocked, dial, failed>>

FlushRequest(n) ==
  /\ Flush(n)
  /\ UNCHANGED <<pos, blocked, dial, failed, mem>>

\* Both programs have returned from main.
Finished == /\ \A n \in Node : Exited(n)
            /\ UNCHANGED vars

Init ==
  /\ pos     = [n \in Node |-> [test |-> 1, round |-> 0, label |-> "open", off |-> 0]]
  /\ blocked = [n \in Node |-> FALSE]
  /\ dial    = "none"
  /\ failed  = [n \in Node |-> FALSE]
  /\ mem     = [n \in Node |-> Fresh(DataSize[n])]
  /\ VerbsInit

Program(n) ==
  \/ SendControlMessage(n)
  \/ SendData(n)
  \/ WaitUntilCompleted(n)
  \/ WaitForControlMessage(n)
  \/ PostDataBuffer(n)
  \/ Receive(n)
  \/ Refill(n)
  \/ Close(n)

Client == Program("client") \/ Connect \/ ConnectReturns \/ ReadOrWrite
Server == Program("server") \/ Accept
Hardware == (\E n \in Node : DeliverMessage(n) \/ FlushRequest(n)) \/ AccessRegion

Next == Client \/ Server \/ Hardware \/ Finished

Spec == Init /\ [][Next]_vars

\* Each process spins until its call is done; the transport retries for ever.
FairSpec == /\ Spec
            /\ WF_vars(Client)
            /\ WF_vars(Server)
            /\ \A n \in Node : WF_vars(DeliverMessage(n)) /\ WF_vars(FlushRequest(n))
            /\ WF_vars(AccessRegion)

-----------------------------------------------------------------------------
(* Properties.                                                             *)

Bytes(n) == 0..(DataSize[n] - 1)
Message  == [at : Position, len : Nat, ok : BOOLEAN]
Request  == [op : {"send", "read", "write"}, at : Position, len : Nat]

\* The type invariant: every variable keeps the shape the code's types and
\* calls give it.
TypeOK ==
  /\ pos \in [Node -> Position]
  /\ blocked \in [Node -> BOOLEAN]
  /\ dial \in {"none", "requested", "accepted"}
  /\ failed \in [Node -> BOOLEAN]
  /\ DOMAIN mem = Node
  /\ \A n \in Node : mem[n] \in [Bytes(n) -> Nat \cup {Junk}]
  /\ conn \in [Node -> Nat]
  /\ qp \in [Node -> {"up", "down", "error"}]
  /\ sq \in [Node -> Seq(Request)]
  /\ scq \in [Node -> Seq({"ok", "failed"})]
  /\ srq \in [Node -> Seq(PosNat)]
  /\ rcq \in [Node -> Seq(Message)]

\* Every receive buffer lives on the stack of the call that posts it, and the
\* context is never told to take one back: outside such a call no buffer of
\* the process may be posted or hold an unpolled message.
NoDanglingReceive ==
  \A n \in Node :
    /\ Len(srq[n]) + Len(rcq[n]) <= 1
    /\ (srq[n] # <<>> \/ rcq[n] # <<>>)
         => blocked[n] /\ (WaitsForControl(n) \/ ReceivesData(n))

\* Messages carry no mark, and receive() returns whichever came: the message a
\* call gets is nevertheless the one the other program sent at that very point
\* of the same test, same pass and same loop step, and it fits; the server
\* never gets to print "Not all bytes received from a send".
Agreement ==
  \A n \in Node : \A i \in 1..Len(rcq[n]) :
    /\ rcq[n][i].at = pos[n] /\ rcq[n][i].ok
    /\ ReceivesData(n) /\ n = "server" => rcq[n][i].len >= Size(n)

\* The client works on the region of the server while the server is inside
\* the same pass, past its refill: no refill or memset meets a transfer.
ExclusiveRegion ==
  At("client", {"data"}) /\ Test("client") \in {"read_tp", "write_tp"}
    => /\ At("server", {"ready", "done"})
       /\ pos["server"].test = pos["client"].test
       /\ pos["server"].round = pos["client"].round

\* While a one-sided request is outstanding the server holds the queue pair
\* and the registered region of the same connection.
RegionAlive ==
  \A i \in 1..Len(sq["client"]) :
    sq["client"][i].op # "send" => /\ Connected("client")
                                   /\ pos["server"].test = pos["client"].test

\* A one-sided request stays inside the region the server registered.
RequestInRegion ==
  \A i \in 1..Len(sq["client"]) :
    sq["client"][i].op # "send" =>
      (IF Test("client") \in LatencyTests THEN 0 ELSE sq["client"][i].at.off) + sq["client"][i].len
        <= RegionSize(Test("client"))

\* No request of either program fails, so ignoring the outcome is harmless.
NoFailure == \A n \in Node : ~failed[n] /\ qp[n] # "error"

\* When the client stops its clock, every byte has moved: in the read test its
\* local buffer is a copy of the region of the server, in the write test the
\* region is a copy of its data -- nothing skipped, nothing changed under it --
\* and this lasts until the server leaves the pass.
TransferComplete ==
  /\ At("client", {"done"})
  /\ Test("client") \in {"read_tp", "write_tp"}
  /\ At("server", {"ready", "done"})
  /\ pos["server"].round = pos["client"].round
  => mem["client"] = mem["server"]

\* The server announces data_size / buffer_size + 1 messages before it sends
\* them.  A client that has left its receive loop has received every one.
AnnouncedMessagesReceived ==
  /\ At("client", {"done"})
  /\ Test("client") = "two_tp"
  /\ At("server", {"data"})
  => /\ pos["server"].off \div Size("server") = DataSize["server"] \div Size("server")
     /\ blocked["server"] /\ sq["server"] = <<>>

\* n can make its next call, or return from the one it is in.
CanProceed(n) ==
  /\ ~Exited(n)
  /\ IF At(n, {"open"})
     THEN dial \in (IF n = "client" THEN {"none", "accepted"} ELSE {"requested"})
     ELSE ~blocked[n] \/ scq[n] # <<>> \/ rcq[n] # <<>>

\* The hardware can carry out the oldest request of n, or give it up.
Servable(n) ==
  /\ sq[n] # <<>>
  /\ Severed(n) \/ (Connected(n) /\ (Head(sq[n]).op = "send" => srq[Peer(n)] # <<>>))

\* Everyone waits for everyone: a program is left, and nothing can happen.
Stuck == /\ \E n \in Node : ~Exited(n)
         /\ \A n \in Node : ~CanProceed(n) /\ ~Servable(n)

\* No call has a timeout, and neither program ever asks what the other one is
\* waiting for: that they do not both wait for a message, or both for a buffer
\* to send it to, has to come from the order of the calls alone.
NoDeadlock == ~Stuck

\* Once the queue pair is out of service, the server ends the refill it may be
\* in, and that is the last thing to happen to its region.  It may go on to wait
\* for the client, but never takes a message for the end of the pass.
StaysInPass ==
  LET p == pos["server"]
      q == pos'["server"] IN
  qp["server"] = "error" =>
    /\ q.test = p.test /\ q.round = p.round
    /\ q.label = p.label \/ <<p.label, q.label>> \in {<<"fill", "ready">>, <<"ready", "done">>}
    /\ mem'["server"] # mem["server"] => p.label = "fill" /\ q.label = "ready"
StopsAtFailure == [][StaysInPass]_vars

\* Both programs reach the end of main.
Termination == <>(\A n \in Node : Exited(n))
=============================================================================
