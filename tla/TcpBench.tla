------------------------------ MODULE TcpBench ------------------------------
(***************************************************************************)
(* The TCP benchmark: one TcpClient and one TcpServer, each a              *)
(* single-threaded program.  In every pass the client sends a known number *)
(* of bytes, the server takes them in and answers with one byte "y", and   *)
(* the client then writes a result.                                        *)
(*                                                                         *)
(* The stream has no message boundaries: the two programs agree on where a *)
(* pass ends because both count bytes.  The model keeps both loops around  *)
(* send() and recv(), call by call, with the errors the code meets in      *)
(* them; it leaves out timing and output.                                  *)
(***************************************************************************)
EXTENDS TcpStream, ChunkLoop

CONSTANTS
  Metric,        \* Metric[n]: the -metric argument of n
  DataSize,      \* DataSize[n]: the -datasize argument of n, in bytes
  BufferSizes,   \* utils::buffer_sizes, of the throughput test
  LatencySizes,  \* utils::latency_buffer_sizes
  NumLoops,      \* utils::num_loops
  SizeMax,       \* how many values a size_t has
  MaxErrors,     \* how many calls of send() may fail without a reset
  MayReset,      \* the network may lose the connection
  MayFail        \* a system call of a constructor may fail

PosNat == Nat \ {0}

ASSUME ConstantsAssumption ==
  /\ Metric \in [Node -> {"throughput", "latency", "all"}]
  /\ DataSize \in [Node -> PosNat]
  /\ BufferSizes \in Seq(PosNat) /\ LatencySizes \in Seq(PosNat)
  /\ BufferSizes # <<>> /\ LatencySizes # <<>>
  /\ NumLoops \in PosNat /\ MaxErrors \in Nat /\ MayReset \in BOOLEAN /\ MayFail \in BOOLEAN
  /\ SizeMax \in Nat /\ SizeMax > 1
  /\ \A i \in 1..Len(BufferSizes) : BufferSizes[i] < SizeMax
  /\ \A i \in 1..Len(LatencySizes) : LatencySizes[i] < SizeMax

Batch(test, sizes) == [i \in 1..Len(sizes) |-> [test |-> test, size |-> sizes[i]]]

\* main's switch on the metric; run_throughput_tests and run_latency_tests of
\* either class are loops over the sizes.
Passes(n) ==
  (IF Metric[n] = "latency" THEN <<>> ELSE Batch("throughput", BufferSizes))
    \o (IF Metric[n] = "throughput" THEN <<>> ELSE Batch("latency", LatencySizes))

VARIABLES
  at,       \* at[n]: the call n is in, see Place
  state,    \* state[n]: "running", "done", or "failed" (exit(-1), SIGPIPE)
  little,   \* the server's little_buffer, as far as recv() has filled it
  data,     \* the server's data
  results,  \* how many lines the client has written to its results files
  errors    \* how many calls of send() have failed so far without a reset

vars == <<at, state, little, data, results, errors, stream>>

\* Where a program is: in its constructor ("start", and "accept" for the
\* server), or in pass number pass, moving the data or the reply.  off is the
\* loop variable of throughput_test or latency_test, count is bytes_sent or
\* bytes_read of the message at hand.
Place == [pass : PosNat, label : {"start", "accept", "move", "reply"}, off : Nat, count : Nat]

Ended(n)   == state[n] # "running"
Test(n)    == Passes(n)[at[n].pass].test
Size(n)    == Passes(n)[at[n].pass].size
In(n, label) == ~Ended(n) /\ at[n].label = label

-----------------------------------------------------------------------------
(* The messages of a pass.                                                 *)

\* Variants of MessageLen: the server never takes in the rest of the data, the
\* client does not wait for the reply, and the server sends none.
MessageLenNoRest(n) ==
  IF at[n].label = "reply" THEN 1
  ELSE IF Test(n) = "latency" THEN Size(n)
  ELSE IF n = "server" /\ at[n].off = LastIndex(DataSize[n], Size(n)) THEN 0
  ELSE PieceLen(DataSize[n], Size(n), at[n].off)
MessageLenNoWait(n) ==
  IF at[n].label = "reply" THEN IF n = "client" THEN 0 ELSE 1
  ELSE IF Test(n) = "throughput" THEN PieceLen(DataSize[n], Size(n), at[n].off)
  ELSE Size(n)
MessageLenNoReply(n) ==
  IF at[n].label = "reply" THEN IF n = "server" THEN 0 ELSE 1
  ELSE IF Test(n) = "throughput" THEN PieceLen(DataSize[n], Size(n), at[n].off)
  ELSE Size(n)

MessageLen(n) == IF at[n].label = "reply" THEN 1
                 ELSE IF Test(n) = "throughput" THEN PieceLen(DataSize[n], Size(n), at[n].off)
                 ELSE Size(n)

\* throughput_test and latency_test: is there another message?
MoreMessages(n) == IF Test(n) = "throughput" THEN MoreToMove(DataSize[n], Size(n), at[n].off)
                                             ELSE at[n].off + 1 < NumLoops

\* The index in the data of a pass of the i-th byte of the message at hand.
\* In the latency test the data of a pass are its messages in a row.
Index(n, i) == (IF Test(n) = "throughput" THEN at[n].off ELSE at[n].off * Size(n)) + i

\* A byte is told by the pass it was generated for and its place there: the
\* client fills its buffer anew for every pass.  Only the count of a reply
\* matters, its byte is the same every time.
Byte(p, i) == [pass |-> p, at |-> i]
OutByte(n, i) == Byte(at[n].pass, IF n = "client" THEN Index(n, i) ELSE 0)

Sending(n)   == In(n, IF n = "client" THEN "move" ELSE "reply")
Receiving(n) == In(n, IF n = "client" THEN "reply" ELSE "move")

-----------------------------------------------------------------------------
(* TcpClient::TcpClient and TcpServer::TcpServer.                          *)

Fail(n) == /\ state' = [state EXCEPT ![n] = "failed"]
           /\ CloseSocket(n)
           /\ UNCHANGED <<at, little, data, results, errors>>

\* A new message: nothing of it has moved.
Begin(n, pass, label, off) ==
  at' = [at EXCEPT ![n] = [pass |-> pass, label |-> label, off |-> off, count |-> 0]]

FirstPass(n) == Begin(n, 1, "move", 0)

\* bind and listen.
Listen ==
  /\ In("server", "start")
  /\ link = "none"
  /\ link' = "listening"
  /\ at' = [at EXCEPT !["server"].label = "accept"]
  /\ UNCHANGED <<state, little, data, results, errors, wire, pending, closed>>

\* connect succeeds as soon as the server listens, before it accepts.
Connect ==
  /\ In("client", "start")
  /\ link = "listening"
  /\ link' = "up"
  /\ FirstPass("client")
  /\ UNCHANGED <<state, little, data, results, errors, wire, pending, closed>>

\* getaddrinfo, socket, bind or listen fails: the server exits.  The status of
\* get_ib_card_address is not looked at by either program.
ListenFails ==
  /\ MayFail
  /\ In("server", "start")
  /\ Fail("server")

\* accept fails.  Nobody can connect any more.
AcceptFails ==
  /\ MayFail
  /\ In("server", "accept")
  /\ state' = [state EXCEPT !["server"] = "failed"]
  /\ IF link = "listening"
     THEN /\ link' = "none"
          /\ closed' = [closed EXCEPT !["server"] = TRUE]
          /\ UNCHANGED <<wire, pending>>
     ELSE CloseSocket("server")
  /\ UNCHANGED <<at, little, data, results, errors>>

\* socket, the second getaddrinfo, or bind fails: the client exits.
ConnectFails ==
  /\ MayFail
  /\ In("client", "start")
  /\ Fail("client")

\* The address of the server cannot be resolved: the constructor returns with
\* server_socket uninitialised, and the client begins its tests without a
\* connection.
Unresolved ==
  /\ MayFail
  /\ In("client", "start")
  /\ link \in {"none", "listening"}
  /\ FirstPass("client")
  /\ UNCHANGED <<state, little, data, results, errors, stream>>

NoSocket(n) == n = "client" /\ at[n].label # "start" /\ link \in {"none", "listening"}

\* Nobody listens yet: the client exits.
ConnectRefused ==
  /\ In("client", "start")
  /\ link = "none"
  /\ Fail("client")

\* The vectors a test function of the server starts with: zeroed.
Blank(n, p) ==
  LET pass == Passes(n)[p] IN
  [i \in 0..((IF pass.test = "throughput" THEN DataSize[n] ELSE pass.size) - 1) |-> Byte(0, 0)]

Accept ==
  /\ In("server", "accept")
  /\ link \in {"up", "reset"}
  /\ FirstPass("server")
  /\ data' = Blank("server", 1)
  /\ UNCHANGED <<state, little, results, errors, stream>>

-----------------------------------------------------------------------------
(* send_tcp_message and receive_message, one call of send() or recv() at a *)
(* time.                                                                   *)

Advance(n, k) == at' = [at EXCEPT ![n].count = (@ + k) % SizeMax]

SendSome(n) ==
  /\ Sending(n)
  /\ at[n].count < MessageLen(n)
  /\ link = "up"
  /\ \E k \in 1..(MessageLen(n) - at[n].count) :
       /\ Accepted(n, [i \in 1..k |-> OutByte(n, at[n].count + i - 1)])
       /\ Advance(n, k)
  /\ UNCHANGED <<state, little, data, results, errors>>

\* send() returns -1, every time if there is no socket.  The code prints a line
\* and adds the -1 to bytes_sent, which is unsigned.
SendFails(n) ==
  /\ Sending(n)
  /\ at[n].count < MessageLen(n)
  /\ Advance(n, SizeMax - 1)
  /\ \/ /\ pending[n]
        /\ pending' = [pending EXCEPT ![n] = FALSE]
        /\ UNCHANGED errors
     \/ /\ link = "up" /\ errors < MaxErrors
        /\ errors' = errors + 1
        /\ UNCHANGED pending
     \/ NoSocket(n) /\ UNCHANGED <<errors, pending>>
  /\ UNCHANGED <<state, little, data, results, link, wire, closed>>

\* A write to a connection whose reset has been reported.
SendKills(n) ==
  /\ Sending(n)
  /\ at[n].count < MessageLen(n)
  /\ link = "reset" /\ ~pending[n]
  /\ Fail(n)

ReceiveSome(n) ==
  /\ Receiving(n)
  /\ at[n].count < MessageLen(n)
  /\ \E k \in 1..(MessageLen(n) - at[n].count) :
       /\ Taken(n, k)
       /\ Advance(n, k)
       /\ little' = IF n = "server" THEN little \o SubSeq(wire["client"], 1, k) ELSE little
  /\ UNCHANGED <<state, data, results, errors>>

\* Variants of ReceiveFails: the result of recv() is not looked at and the
\* message is taken for complete, or recv() is tried again.
ReceiveIgnores(n) ==
  /\ Receiving(n)
  /\ at[n].count < MessageLen(n)
  /\ EndOfStream(n)
  /\ Advance(n, MessageLen(n) - at[n].count)
  /\ little' = IF n = "server"
               THEN little \o [i \in 1..(MessageLen(n) - at[n].count) |-> Byte(0, 0)] ELSE little
  /\ UNCHANGED <<state, data, results, errors, stream>>
ReceiveRetries(n) ==
  /\ Receiving(n)
  /\ at[n].count < MessageLen(n)
  /\ EndOfStream(n)
  /\ UNCHANGED vars

\* recv() returns 0 or -1, and the program exits.
ReceiveFails(n) ==
  /\ Receiving(n)
  /\ at[n].count < MessageLen(n)
  /\ EndOfStream(n) \/ NoSocket(n)
  /\ Fail(n)

-----------------------------------------------------------------------------
(* The loop around send() or recv() is over.                               *)

MessageOver(n) == ~Ended(n) /\ at[n].label \in {"move", "reply"} /\ at[n].count >= MessageLen(n)

NextMessage(n) ==
  Begin(n, at[n].pass, "move", at[n].off + (IF Test(n) = "throughput" THEN Size(n) ELSE 1))

\* Variants of CopyMessage: little_buffer is not started afresh, and every
\* message is copied to the start of the data.
CopyMessageKeeps ==
  /\ little' = little
  /\ UNCHANGED data
CopyMessageToStart ==
  /\ little' = <<>>
  /\ data' = [i \in DOMAIN data |-> IF i < MessageLen("server") THEN little[i + 1] ELSE data[i]]

\* std::copy from little_buffer to data: at the offset of the message in the
\* throughput test, at the start in the latency test.
CopyMessage ==
  /\ little' = <<>>
  /\ data' = LET from == IF Test("server") = "throughput" THEN at["server"].off ELSE 0 IN
             [i \in DOMAIN data |-> IF i \in from..(from + MessageLen("server") - 1)
                                    THEN little[i - from + 1] ELSE data[i]]

MoveOver(n) ==
  /\ MessageOver(n) /\ at[n].label = "move"
  /\ IF MoreMessages(n) THEN NextMessage(n)
     ELSE Begin(n, at[n].pass, "reply", 0)
  /\ IF n = "server" THEN CopyMessage ELSE UNCHANGED <<little, data>>
  /\ UNCHANGED <<state, results, errors, stream>>

\* The test function returns: the client writes its result and refills its
\* data, and either program goes on to the next size or leaves main.
PassOver(n) ==
  /\ MessageOver(n) /\ at[n].label = "reply"
  /\ Begin(n, at[n].pass + 1, "move", 0)
  /\ results' = IF n = "client" THEN results + 1 ELSE results
  /\ IF at[n].pass < Len(Passes(n))
     THEN /\ data' = IF n = "server" THEN Blank(n, at[n].pass + 1) ELSE data
          /\ UNCHANGED <<state, stream>>
     ELSE /\ state' = [state EXCEPT ![n] = "done"]
          /\ CloseSocket(n)
          /\ UNCHANGED data
  /\ UNCHANGED <<little, errors>>

LoseConnection ==
  /\ MayReset
  /\ Reset
  /\ UNCHANGED <<at, state, little, data, results, errors>>

Init ==
  /\ at = [n \in Node |-> [pass |-> 1, label |-> "start", off |-> 0, count |-> 0]]
  /\ state = [n \in Node |-> "running"]
  /\ little = <<>>
  /\ data = [i \in {} |-> Byte(0, 0)]
  /\ results = 0
  /\ errors = 0
  /\ StreamInit

Program(n) ==
  \/ SendSome(n)
  \/ SendFails(n)
  \/ SendKills(n)
  \/ ReceiveSome(n)
  \/ ReceiveFails(n)
  \/ MoveOver(n)
  \/ PassOver(n)

Client == Program("client") \/ Connect \/ ConnectRefused \/ ConnectFails \/ Unresolved
Server == Program("server") \/ Listen \/ ListenFails \/ Accept \/ AcceptFails

Next == Client \/ Server \/ LoseConnection

Spec == Init /\ [][Next]_vars

\* Neither program is stopped for ever, and the stream moves what it has.
FairSpec == Spec /\ WF_vars(Client) /\ WF_vars(Server)

-----------------------------------------------------------------------------
(* Properties.                                                             *)

\* The type invariant.
TypeOK ==
  /\ at \in [Node -> Place]
  /\ state \in [Node -> {"running", "done", "failed"}]
  /\ In("server", "move") => Len(little) = at["server"].count
  /\ results \in 0..Len(Passes("client"))
  /\ errors \in 0..MaxErrors
  /\ link \in {"none", "listening", "up", "reset"}
  /\ \A n \in Node : Len(wire[n]) <= Capacity
  /\ pending \in [Node -> BOOLEAN] /\ closed \in [Node -> BOOLEAN]

\* However send() and recv() cut the stream, what the server has when it
\* answers is what the client generated for this pass: in the throughput test
\* its data hold every byte at its place, in the latency test the bytes of the
\* last message.
DataIntact ==
  In("server", "reply") =>
    \A i \in DOMAIN data :
      data[i] = Byte(at["server"].pass,
                     IF Test("server") = "throughput" THEN i ELSE (NumLoops - 1) * Size("server") + i)

\* The programs never tell each other that a pass is over, they count: when
\* the client starts one, no byte of an earlier pass is left in either
\* direction, and the server has finished with it.
NothingLeftOver ==
  In("client", "move") /\ at["client"].off = 0 /\ at["client"].count = 0
    => /\ wire["client"] = <<>> /\ wire["server"] = <<>>
       /\ \/ at["server"].label \in {"accept", "reply"} \/ at["server"].pass = at["client"].pass
       /\ at["server"].count = 1 \/ at["server"].label # "reply"

\* The passes the server has answered.
Answered == at["server"].pass - 1 + (IF at["server"].label = "reply" /\ at["server"].count > 0 THEN 1 ELSE 0)

\* A result stands for a pass of the server, whatever fails and whatever the
\* programs were started with: the client never writes one more than the
\* server has answered.
NoResultWithoutAnswer == results <= Answered

\* If they were started alike it stands for the same pass: the server has
\* taken it in completely, and is never more than one pass ahead.  That needs
\* every call of send() to succeed until the connection is lost: one that fails
\* before may have a byte sent twice, and a few of them carry the server on.
ResultsAnswered == NoResultWithoutAnswer /\ Answered <= results + 1

\* The server runs the same tests and takes in no more than the client sends.
ServerWantsLess == Metric["server"] = Metric["client"] /\ DataSize["server"] <= DataSize["client"]

\* n has a call that can return without an error of its own making: accept() and
\* the end of a message always, send() if there is room or the connection is
\* broken, recv() if there is a byte to take or none will come.
CanProceed(n) ==
  \/ In(n, "accept") \/ MessageOver(n)
  \/ /\ Sending(n) /\ at[n].count < MessageLen(n)
     /\ link = "reset" \/ closed[Peer(n)] \/ Len(wire[n]) < Capacity
  \/ /\ Receiving(n) /\ at[n].count < MessageLen(n)
     /\ wire[Peer(n)] # <<>> \/ EndOfStream(n)

\* Both programs are blocked, or one is and the other has ended.
Stuck == /\ link \in {"up", "reset"}
         /\ \E n \in Node : ~Ended(n)
         /\ \A n \in Node : ~CanProceed(n)

\* Counting bytes is enough never to wait for each other: the server does not
\* wait for bytes the client has not to send, nor the client for an answer the
\* server has not to give.
NoDeadlock == ~Stuck

\* Once the connection is made both programs end, each by leaving main or, if
\* the connection is lost, by giving up: none is left blocked in a call.
Ends == link = "up" ~> \A n \in Node : Ended(n)

\* A benchmark keeps what PassProtocol promises.
HandedOver ==
  LET n == "client" IN
  \/ at[n].label = "reply"
  \/ /\ at[n].label = "move" /\ at[n].pass <= Len(Passes(n))
     /\ Index(n, at[n].count) = IF Test(n) = "throughput" THEN DataSize[n] ELSE NumLoops * Size(n)

Protocol == INSTANCE PassProtocol WITH
  PassCount <- Len(Passes("client")),
  sent      <- at["client"].pass - 1 + (IF HandedOver THEN 1 ELSE 0),
  confirmed <- Answered,
  measured  <- results

Promise == Protocol!Spec
=============================================================================
