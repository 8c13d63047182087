-------------------------- MODULE RdmaSafetyProofs --------------------------
(***************************************************************************)
(* The safety properties of RdmaBench and RdmaResults for two programs     *)
(* started alike, as theorems of the specifications: first those that      *)
(* follow from the inductive invariant alone, then, with more about the    *)
(* bytes moved so far, that the data arrive, with more about the lines     *)
(* written so far, that the results are genuine, and last, with an account *)
(* of the passes begun and ended, that RdmaResults is a PassProtocol.      *)
(***************************************************************************)
EXTENDS RdmaProofs

\* The invariant leaves no message in the wrong call.
LEMMA SafeReceives ==
  ASSUME Matched, IInv
  PROVE  Agreement
<1> SUFFICES ASSUME NEW n \in Node
             PROVE  \A i \in 1..Len(rcq[n]) :
                      /\ rcq[n][i].at = pos[n] /\ rcq[n][i].ok
                      /\ ReceivesData(n) /\ n = "server" => rcq[n][i].len >= Size(n)
  BY DEF Agreement
<1>1. \/ rcq[n] = <<>>
      \/ rcq[n] = << [at |-> pos[n], len |-> CallLen(n), ok |-> TRUE] >>
  BY DEF IInv, Inv, CallOK, Idle
<1>2. ReceivesData(n) /\ n = "server" => CallLen(n) = Size(n)
  BY DEF ReceivesData, CallLen, LatencyTests, At
<1>3. Size(n) \in Nat \/ ~ReceivesData(n) \/ n # "server"
  BY SizeType DEF ReceivesData, At, PosNat
<1>4. CASE rcq[n] = <<>>
  BY <1>4
<1>5. CASE rcq[n] = << [at |-> pos[n], len |-> CallLen(n), ok |-> TRUE] >>
  BY <1>2, <1>3, <1>5
<1> QED BY <1>1, <1>4, <1>5

\* It keeps every one-sided request inside a region that is alive.
LEMMA SafeAccess ==
  ASSUME Matched, IInv
  PROVE  RegionAlive /\ RequestInRegion
<1> SUFFICES ASSUME NEW i \in 1..Len(sq["client"]), sq["client"][i].op # "send"
             PROVE  /\ Connected("client")
                    /\ pos["server"].test = pos["client"].test
                    /\ (IF Test("client") \in LatencyTests THEN 0 ELSE sq["client"][i].at.off)
                           + sq["client"][i].len <= RegionSize(Test("client"))
  BY DEF RegionAlive, RequestInRegion
<1>1. /\ sq["client"] = << PostedBy("client") >> /\ sq["client"] # <<>>
      /\ InSend("client") \/ InOneSided("client")
      /\ pos["client"].label # "open"
  <2>1. sq["client"] # <<>>
    BY DEF IInv, TypeOK, Node
  <2> QED BY <2>1, Requested DEF Node
<1>2. /\ sq["client"][i] = PostedBy("client")
      /\ PostedBy("client").at = pos["client"]
      /\ PostedBy("client").len = CallLen("client")
      /\ InOneSided("client")
  BY <1>1 DEF PostedBy
<1>3. pos["server"].test = pos["client"].test /\ pos["server"].label # "open"
  BY <1>1, SameTest, Kinds DEF Peer, Node
<1>4. Connected("client")
  BY <1>1, <1>3 DEF IInv, Inv, LinkOK, Connected, Peer, Node
<1> QED BY <1>2, <1>3, <1>4, InRegion DEF FirstByte

\* It keeps the server off its region while the client works on it.
LEMMA SafeRegion ==
  ASSUME Matched, IInv
  PROVE  ExclusiveRegion
<1> SUFFICES ASSUME At("client", {"data"}), Test("client") \in {"read_tp", "write_tp"}
             PROVE  /\ At("server", {"ready", "done"})
                    /\ pos["server"].test = pos["client"].test
                    /\ pos["server"].round = pos["client"].round
  BY DEF ExclusiveRegion
<1> DEFINE q == Goto(pos["client"], "done", pos["client"].round)
<1>1. /\ ~Exited("client") /\ pos["client"] \in Position
      /\ Test("client") = Tests("client")[pos["client"].test]
      /\ InOneSided("client") /\ pos["client"].label = "data"
  BY Here DEF Node, At, InOneSided, OneSided
<1>2. /\ Meeting("client") = q /\ ~Met("client")
      /\ q \in Position /\ q.label = "done" /\ q.test = pos["client"].test
      /\ q.round = pos["client"].round
      /\ Tests("server")[q.test] \in {"read_tp", "write_tp"}
  <2>1. Meeting("client") = q
    BY <1>1 DEF Meeting, ClientMeeting
  <2>2. ~Met("client")
    BY <1>1, Kinds DEF Met, IInv, Inv, DialOK, Node, OneSided, TwoSided
  <2> QED BY <1>1, <2>1, <2>2, SameTests DEF Goto, Position, Labels
<1>3. Meeting("server") = q \/ (NextMeeting("server") = q /\ Met("server"))
  BY <1>2 DEF IInv, Inv, Lockstep
<1>4. Met("server") => ~Exited("server") /\ pos["server"].label # "close"
  BY MetFacts, Kinds DEF Node
<1>5. /\ pos["server"] \in Position /\ PositionOK("server", pos["server"])
      /\ Len(Tests("server")) \in Nat
  BY Here, TestsType DEF Node
<1>6. pos["server"].test <= Len(Tests("server"))
  <2>1. CASE Met("server")
    BY <1>4, <1>5, <2>1 DEF Exited, Position, PosNat
  <2>2. CASE ~Met("server") /\ Exited("server")
    <3>1. pos["server"].label = "open"
      BY <1>5, <2>2 DEF Exited, PositionOK
    <3> QED BY <1>2, <1>3, <2>2, <3>1 DEF Meeting, ServerMeeting
  <2>3. CASE ~Exited("server")
    BY <1>5, <2>3 DEF Exited, Position, PosNat
  <2> QED BY <2>1, <2>2, <2>3
<1>7. \/ q = ServerMeeting(pos["server"])
      \/ q = ServerMeeting(ServerAfter(pos["server"])) /\ pos["server"].label # "close"
  BY <1>3, <1>4 DEF Meeting, NextMeeting
<1> HIDE DEF q
<1>8. /\ pos["server"].label \in {"ready", "done"}
      /\ pos["server"].test = q.test
      /\ pos["server"].round = q.round
  BY <1>2, <1>5, <1>6, <1>7, ServerBeforeDone
<1> QED BY <1>2, <1>5, <1>6, <1>8 DEF At, Exited, Position, PosNat

\* A client that has left its receive loop has received the last message the
\* server announced.
LEMMA AllReceived ==
  ASSUME Matched, IInv
  PROVE  AnnouncedMessagesReceived
<1> DEFINE p == pos["client"]
           q == pos["server"]
           b == Size("server")
           d == DataSize["server"]
<1> SUFFICES ASSUME At("client", {"done"}), Test("client") = "two_tp", At("server", {"data"})
             PROVE  /\ q.off \div b = d \div b
                    /\ blocked["server"] /\ sq["server"] = <<>>
  BY DEF AnnouncedMessagesReceived
<1>1. /\ ~Exited("client") /\ p.label = "done" /\ p \in Position
      /\ Tests("client")[p.test] = "two_tp"
      /\ InSend("client")
  BY Here DEF At, InSend, SendsControl, Node, Test
<1>2. /\ ~Exited("server") /\ q.label = "data" /\ q \in Position
      /\ Test("server") \in TwoSided /\ Test("server") = Tests("server")[q.test]
      /\ Test("server") = Tests("client")[q.test]
      /\ InSend("server") \/ InReceive("server")
      /\ Test("server") = "two_tp" => InSend("server") /\ ~InReceive("server")
  <2>1. /\ ~Exited("server") /\ q.label = "data" /\ q \in Position
        /\ Test("server") \in TwoSided /\ Test("server") = Tests("server")[q.test]
        /\ Test("server") = Tests("client")[q.test]
    BY Here DEF At, Node, Test, LabelsOf, AllTests, TwoSided
  <2>2. InSend("server") \/ InReceive("server")
    BY <2>1 DEF At, InSend, InReceive, SendsData, ReceivesData, TwoSided
  <2>3. Test("server") = "two_tp" => InSend("server") /\ ~InReceive("server")
    BY <2>1, Kinds DEF At, InSend, SendsData, Node
  <2> QED BY <2>1, <2>2, <2>3
<1>3. Meeting("client") = p /\ Meeting("server") = q
  BY <1>1, <1>2, AtMeeting DEF Node
<1>4. Met("server") /\ ~Met("client")
  <2>1. p # q
    BY <1>1, <1>2
  <2>2. ASSUME Met("client"), ~Met("server")
        PROVE  FALSE
    <3>1. q = NextMeeting("client")
      BY <1>3, <2>2 DEF IInv, Inv, Lockstep
    <3>2. ClientAfter(p) = ClientPass("two_tp", p, p.round + 1)
      BY <1>1 DEF ClientAfter
    <3>3. NextMeeting("client").label # "data"
      BY <1>1, <3>2 DEF NextMeeting, ClientMeeting, ClientPass, LeaveLoop, Goto, NextTest, TwoSided
    <3> QED BY <1>2, <3>1, <3>3
  <2> QED BY <1>3, <2>1, <2>2 DEF IInv, Inv, Lockstep
<1>5. p = ServerMeeting(ServerAfter(q))
  BY <1>3, <1>4 DEF IInv, Inv, Lockstep, NextMeeting
<1>6. ~ServerMore(Test("server"), b, q.off) /\ p.test = q.test
  BY <1>1, <1>2, <1>5 DEF ServerAfter, ServerMeeting, Step, Goto, Size
<1>7. Test("server") = "two_tp"
  BY <1>1, <1>2, <1>6
<1>8. blocked["server"] /\ sq["server"] = <<>>
  BY <1>4, MetFacts DEF Node
<1>9. /\ b \in Nat /\ b > 0 /\ d \in Nat /\ q.off \in Nat
      /\ q.off <= LastIndex(d, b)
      /\ ~(q.off < LastIndex(d, b))
  BY <1>2, <1>6, <1>7, SizeType, ConstantsAssumption
     DEF ServerMore, MoreToMove, PosNat, Node, LatencyTests, Position
<1> HIDE DEF b, d, q
<1>10. q.off = b * (d \div b) /\ d \div b \in Nat
  <2>1. LastIndex(d, b) = b * (d \div b) /\ LastIndex(d, b) \in Nat
    BY <1>9, LastIndexFacts
  <2>2. d \div b \in Nat
    BY <1>9, DivMod
  <2> QED BY <1>9, <2>1, <2>2
<1> QED BY <1>8, <1>9, <1>10, Multiple

\* No call is left waiting for what will not come.
LEMMA SafeProgress ==
  ASSUME Matched, IInv
  PROVE  NoDeadlock
<1> SUFFICES ASSUME Stuck PROVE FALSE
  BY DEF NoDeadlock
<1>1. AloneInv /\ \A n \in Node : LinkOK(n)
  <2>1. ASSUME NEW n \in Node, CallOK(n) PROVE CallAlone(n)
    BY <2>1 DEF CallOK, CallAlone
  <2> QED BY <2>1 DEF IInv, Inv, AloneInv
<1>2. Meeting("client") = Meeting("server")
  BY <1>1, StuckCall DEF IInv, Inv, Lockstep, Node
<1>3. Tests("client") = Tests("server")
  BY SameTests
<1>4. /\ \E n \in Node : Exited(n) /\ At(Peer(n), {"open"})
      /\ pos["client"] = pos["server"]
  BY <1>1, <1>2, <1>3, StuckTogether
<1>5. Exited("client") <=> Exited("server")
  BY <1>3, <1>4 DEF Exited
<1> QED BY <1>4, <1>5 DEF At, Node, Peer

-----------------------------------------------------------------------------
(* The theorems.                                                           *)

\* Every message ends up in the call that expects it, although messages carry
\* no mark and all calls of a process share one receive queue.
THEOREM Receives ==
  ASSUME Matched
  PROVE  Spec => []Agreement
<1>1. IInv => Agreement
  BY SafeReceives
<1> QED BY <1>1, Invariance, PTL

\* The server neither refills nor clears the region while the client works on
\* it.
THEOREM Regions ==
  ASSUME Matched
  PROVE  Spec => []ExclusiveRegion
<1>1. IInv => ExclusiveRegion
  BY SafeRegion
<1> QED BY <1>1, Invariance, PTL

\* Nor does it free the region or drop the connection while a request is
\* outstanding.
THEOREM RegionsLast ==
  ASSUME Matched
  PROVE  Spec => []RegionAlive
<1>1. IInv => RegionAlive
  BY SafeAccess
<1> QED BY <1>1, Invariance, PTL

\* No access leaves the region the server has registered.
THEOREM RequestsInside ==
  ASSUME Matched
  PROVE  Spec => []RequestInRegion
<1>1. IInv => RequestInRegion
  BY SafeAccess
<1> QED BY <1>1, Invariance, PTL

\* No request fails, so nobody has to look at its outcome.
THEOREM Successes ==
  ASSUME Matched
  PROVE  Spec => []NoFailure
<1>1. IInv => NoFailure
  BY DEF IInv, Inv, LinkOK, NoFailure
<1> QED BY <1>1, Invariance, PTL

\* Every message the server of the two-sided throughput test announces is
\* received before the client ends its pass.
THEOREM Announced ==
  ASSUME Matched
  PROVE  Spec => []AnnouncedMessagesReceived
<1>1. IInv => AnnouncedMessagesReceived
  BY AllReceived
<1> QED BY <1>1, Invariance, PTL

\* Two programs started alike never wait for each other for ever: until both
\* have ended, one of them can go on or the hardware can serve a request.
THEOREM NeverStuck ==
  ASSUME Matched
  PROVE  Spec => []NoDeadlock
<1>1. IInv => NoDeadlock
  BY SafeProgress
<1> QED BY <1>1, Invariance, PTL

-----------------------------------------------------------------------------
(* The data arrive: how much of the pass has moved so far (Frontier and    *)
(* MovedSoFar, in RdmaLockstep) makes TransferComplete inductive.          *)

\* Where the server can be while the client ends a one-sided pass.
LEMMA DonePass ==
  ASSUME Matched, IInv, At("client", {"done"}), Test("client") \in OneSidedTp
  PROVE  LET p == pos["client"]
             q == pos["server"] IN
         /\ ~Exited("server")
         /\ Test("server") \in OneSidedTp
         /\ \/ q.label \in {"ready", "done"} /\ q.round = p.round
            \/ q.label \in {"ready", "fill"} /\ q.round = p.round + 1
            \/ q.label = "fin"
<1> DEFINE p == pos["client"]
           q == pos["server"]
<1>1. /\ ~Exited("client") /\ p.label = "done" /\ p \in Position
      /\ Tests("client")[p.test] = Test("client")
      /\ InSend("client")
      /\ Tests("server")[p.test] \in OneSidedTp
  BY Here, SameTests DEF At, InSend, SendsControl, Node, Test
<1>2. Meeting("client") = p
  BY <1>1, AtMeeting DEF Node
<1>3. /\ q \in Position /\ PositionOK("server", q) /\ Len(Tests("server")) \in Nat
      /\ Exited("server") => q.label = "open"
  BY Here, TestsType DEF Node, Exited, PositionOK
<1>4. CASE Met("server") \/ ~Met("client")
  <2>1. p = ServerMeeting(q) \/ (p = ServerMeeting(ServerAfter(q)) /\ Met("server"))
    BY <1>2, <1>4 DEF IInv, Inv, Lockstep, Meeting, NextMeeting
  <2>2. Met("server") => ~Exited("server") /\ q.label # "close"
    BY MetFacts, Kinds DEF Node
  <2>3. ~Exited("server")
    <3>1. CASE p = ServerMeeting(q)
      BY <1>1, <1>3, <3>1 DEF ServerMeeting
    <3> QED BY <2>1, <2>2, <3>1
  <2>4. q.test <= Len(Tests("server"))
    BY <1>3, <2>3 DEF Exited, Position, PosNat
  <2> HIDE DEF p, q
  <2>5. q.label \in {"ready", "done"} /\ q.test = p.test /\ q.round = p.round
    BY <1>1, <1>3, <2>1, <2>2, <2>4, ServerBeforeDone DEF OneSidedTp
  <2> QED BY <1>1, <2>3, <2>5 DEF Test, p, q
<1>5. CASE Met("client") /\ ~Met("server")
  <2>1. ServerMeeting(q) = ClientMeeting(ClientAfter(p))
    BY <1>5 DEF IInv, Inv, Lockstep, Meeting, NextMeeting
  <2> DEFINE t == Test("client")
             N == ClientMeeting(ClientAfter(p))
  <2>2. N = ClientPass(t, p, p.round + 1)
    BY <1>1 DEF ClientAfter, ClientMeeting, ClientPass, LeaveLoop, Goto, OneSidedTp, TwoSided
  <2>3. /\ N.test = p.test
        /\ \/ N.label = "ready" /\ N.round = p.round + 1
           \/ N.label = "fin"
    BY <1>1, <2>2 DEF ClientPass, LeaveLoop, Goto, OneSidedTp, TwoSided
  <2> HIDE DEF N
  <2>4. ServerMeeting(q) = N
    BY <2>1 DEF N
  <2>5. /\ q.test = p.test
        /\ q.label \in {"ready", "fill", "fin"}
        /\ q.label \in {"ready", "fill"} => q.round = p.round + 1
    BY <2>3, <2>4 DEF ServerMeeting, Goto, NextTest
  <2>6. ~Exited("server")
    BY <1>3, <2>5
  <2> QED BY <1>1, <2>5, <2>6 DEF Test
<1> QED BY <1>4, <1>5

\* A program that has not moved is in the same test, at the same place.
LEMMA SamePlace ==
  ASSUME NEW k \in Node, pos'[k] = pos[k]
  PROVE  /\ Test(k)' = Test(k) /\ CallLen(k)' = CallLen(k)
         /\ \A S \in SUBSET Labels : At(k, S)' <=> At(k, S)
<1>1. Test(k)' = Test(k) /\ (Exited(k)' <=> Exited(k))
  BY DEF Test, Exited
<1> QED BY <1>1, Where DEF At

\* A step that moves no program, no byte and not the frontier preserves the
\* transfer invariant.
LEMMA QuietStep ==
  ASSUME TransferInv, pos' = pos, mem' = mem,
         At("client", {"data"}) /\ Test("client") \in OneSidedTp => Frontier' = Frontier
  PROVE  TransferInv'
<1>1. \A k \in Node, S \in {{"data"}, {"done"}, {"ready", "done"}} :
        At(k, S)' <=> At(k, S)
  BY SamePlace DEF Labels
<1>2. Test("client")' = Test("client")
  BY SamePlace DEF Node
<1>3. MovedSoFar'
  BY <1>1, <1>2 DEF TransferInv, MovedSoFar, OneSidedTp, Node, Bytes
<1>4. TransferComplete'
  BY <1>1, <1>2 DEF TransferInv, TransferComplete, Node
<1> QED BY <1>3, <1>4 DEF TransferInv

\* It says nothing while the client is outside its data loop and the end of
\* the pass.
LEMMA ClientElsewhere ==
  ASSUME ~At("client", {"data", "done"})'
  PROVE  TransferInv'
  BY DEF TransferInv, MovedSoFar, TransferComplete, At

\* A read or write makes its piece equal on both sides and leaves the pieces
\* before it alone.
LEMMA AccessTransfers ==
  ASSUME Matched, IInv, TransferInv, AccessRegion
  PROVE  TransferInv'
<1> DEFINE p == pos["client"]
           o == p.off
           len == CallLen("client")
<1>1. /\ TypeOK /\ sq["client"] # <<>> /\ Head(sq["client"]).op \in {"read", "write"}
      /\ UNCHANGED <<pos, blocked, dial, failed, conn, srq, rcq>>
  BY DEF AccessRegion, Access, IInv
<1>2. /\ InOneSided("client") /\ sq["client"] = << PostedBy("client") >> /\ blocked["client"]
      /\ Head(sq["client"]).len = len /\ Head(sq["client"]).at = p
  <2>1. ~InSend("client")
    BY <1>1, Requested DEF Node, PostedBy
  <2> QED BY <1>1, <2>1, Requested DEF Node, PostedBy
<1>3. /\ ~Exited("client") /\ p.label = "data" /\ o \in Nat /\ len \in Nat
      /\ ~At("client", {"done"})
  <2>1. PostedBy("client") \in Request /\ PostedBy("client").len = len
    BY <1>2, CallTypes DEF Node, PostedBy
  <2> QED BY <1>2, <2>1, Kinds, Here DEF Node, Position, At, Request
<1>4. ~At("client", {"done"})'
  BY <1>1, <1>3, SamePlace DEF Node, Labels
<1>5. TransferComplete'
  BY <1>4 DEF TransferComplete
<1>6. MovedSoFar'
  <2> SUFFICES ASSUME At("client", {"data"}), Test("client") \in OneSidedTp,
                      NEW i \in Bytes("client"), i < Frontier'
               PROVE  mem'["client"][i] = mem'["server"][i]
    <3>1. /\ At("client", {"data"})' <=> At("client", {"data"})
          /\ Test("client")' = Test("client") /\ Bytes("client")' = Bytes("client")
      BY <1>1, SamePlace DEF Node, Labels, Bytes
    <3> QED BY <3>1 DEF MovedSoFar, OneSidedTp
  <2>1. Test("server") = Test("client")
    BY <1>1, SameTest, SameTests DEF Test, Node, Peer
  <2>2. Test("client") \notin LatencyTests
    BY DEF OneSidedTp, LatencyTests
  <2>3. o + len <= RegionSize(Test("server"))
    BY <1>2, <2>1, <2>2, InRegion DEF FirstByte
  <2>4. i < o + len
    <3>1. sq'["client"] = <<>>
      BY <1>1, <1>2 DEF AccessRegion, Access, Complete, TypeOK, Node
    <3>2. CallLen("client")' = len
      BY <1>1, SamePlace DEF Node
    <3> QED BY <1>1, <1>2, <3>1, <3>2 DEF Frontier
  <2>5. i < o => mem["client"][i] = mem["server"][i]
    <3>1. Frontier = o
      BY <1>1 DEF Frontier
    <3> QED BY <3>1 DEF TransferInv, MovedSoFar, OneSidedTp
  <2>6. i \in Nat /\ i \in DOMAIN mem["client"] /\ i \in DOMAIN mem["server"]
    <3>1. Bytes("client") = Bytes("server") /\ Bytes("client") \subseteq Nat
      BY ConstantsAssumption DEF Bytes, Matched, PosNat, Node
    <3> QED BY <1>1, <3>1 DEF TypeOK, Node
  <2> DEFINE moved == o..(o + len - 1)
  <2>7. i \in moved \/ i < o
    BY <1>3, <2>4, <2>6
  <2>8. CASE Test("client") = "read_tp"
    <3>1. mem' = [mem EXCEPT !["client"] = [j \in DOMAIN mem["client"] |->
                   IF j \in moved THEN mem["server"][j] ELSE mem["client"][j]]]
      BY <1>2, <2>1, <2>2, <2>3, <2>8 DEF AccessRegion
    <3> HIDE DEF moved
    <3>2. /\ mem'["server"] = mem["server"]
          /\ mem'["client"][i] = IF i \in moved THEN mem["server"][i] ELSE mem["client"][i]
      BY <1>1, <2>6, <3>1 DEF TypeOK, Node
    <3> QED BY <2>5, <2>7, <3>2
  <2>9. CASE Test("client") = "write_tp"
    <3>1. mem' = [mem EXCEPT !["server"] = [j \in DOMAIN mem["server"] |->
                   IF j \in moved THEN mem["client"][j] ELSE mem["server"][j]]]
      BY <1>2, <2>1, <2>2, <2>3, <2>9 DEF AccessRegion
    <3> HIDE DEF moved
    <3>2. /\ mem'["client"] = mem["client"]
          /\ mem'["server"][i] = IF i \in moved THEN mem["client"][i] ELSE mem["server"][i]
      BY <1>1, <2>6, <3>1 DEF TypeOK, Node
    <3> QED BY <2>5, <2>7, <3>2
  <2> QED BY <2>8, <2>9 DEF OneSidedTp
<1> QED BY <1>5, <1>6 DEF TransferInv

\* The client goes on to the next piece when the last one has moved, and to
\* the end of the pass when all have.
LEMMA ClientReturns ==
  ASSUME Matched, IInv, TransferInv, ~Exited("client"), Return("client"), mem' = mem,
         InOneSided("client") => blocked["client"] /\ sq["client"] = <<>>
  PROVE  TransferInv'
<1> DEFINE p == pos["client"]
           q == ClientAfter(p)
           b == Size("client")
           d == DataSize["client"]
<1>1. /\ p \in Position /\ PositionOK("client", p) /\ p.test \in 1..Len(Tests("client"))
      /\ p.test <= Len(Tests("client"))
      /\ Test("client") = Tests("client")[p.test]
  BY Here DEF Node
<1>2. pos'["client"] = q /\ ~blocked'["client"] /\ q \in Position
  BY <1>1, ClientAfterOK, ReturnPosition DEF Return, IInv, TypeOK, Node
<1>3. /\ Test("client")' = Tests("client")[q.test]
      /\ \A S : At("client", S)' => q.label \in S
  BY <1>2 DEF Test, At
<1>4. ASSUME p.label = "data", Test("client") \in OneSidedTp
      PROVE  /\ b \in Nat /\ b > 0 /\ d \in Nat /\ p.off \in Nat
             /\ p.off % b = 0 /\ p.off <= LastIndex(d, b)
             /\ b = Sizes(Tests("client")[p.test])[p.round]
             /\ \A i \in Bytes("client") : i < p.off + PieceLen(d, b, p.off) =>
                  mem["client"][i] = mem["server"][i]
  <2>1. /\ b \in Nat /\ b > 0 /\ d \in Nat /\ p.off \in Nat
        /\ p.off % b = 0 /\ p.off <= LastIndex(d, b)
    BY <1>1, <1>4, SizeType, ConstantsAssumption DEF Node, PosNat, OneSidedTp, LatencyTests, Position
  <2>2. /\ At("client", {"data"}) /\ InOneSided("client")
        /\ CallLen("client") = PieceLen(d, b, p.off)
    BY <1>4 DEF At, InOneSided, OneSided, OneSidedTp, CallLen, LatencyTests
  <2>3. Frontier = p.off + PieceLen(d, b, p.off)
    BY <2>2 DEF Frontier
  <2> QED BY <1>1, <1>4, <2>1, <2>2, <2>3 DEF TransferInv, MovedSoFar, OneSidedTp, Size
<1>5. MovedSoFar'
  <2> SUFFICES ASSUME At("client", {"data"})', Tests("client")[q.test] \in OneSidedTp,
                      NEW i \in Bytes("client"), i < Frontier'
               PROVE  mem["client"][i] = mem["server"][i]
    BY <1>3 DEF MovedSoFar, OneSidedTp, Bytes
  <2>1. q.label = "data" /\ Frontier' = q.off /\ i \in Nat
    BY <1>2, <1>3, ConstantsAssumption DEF Frontier, Bytes
  <2>2. q.off = 0 \/ (/\ p.label = "data" /\ q.test = p.test
                      /\ p.off < LastIndex(d, b) /\ q.off = p.off + b)
    BY <1>1, <1>2, <2>1, ClientBefore DEF Size
  <2>3. CASE q.off = 0
    BY <2>1, <2>3
  <2>4. CASE /\ p.label = "data" /\ q.test = p.test
             /\ p.off < LastIndex(d, b) /\ q.off = p.off + b
    <3>1. Test("client") \in OneSidedTp
      BY <1>1, <2>4
    <3> QED BY <1>4, <2>1, <2>4, <3>1 DEF PieceLen
  <2> QED BY <2>2, <2>3, <2>4
<1>6. TransferComplete'
  <2> SUFFICES ASSUME At("client", {"done"})', Tests("client")[q.test] \in OneSidedTp
               PROVE  mem["client"] = mem["server"]
    BY <1>3 DEF TransferComplete, OneSidedTp
  <2>1. q.label = "done"
    BY <1>3
  <2>2. /\ p.label = "data" /\ q.test = p.test /\ ~(p.off < LastIndex(d, b))
    BY <1>1, <1>2, <2>1, ClientBefore DEF Size
  <2>3. Test("client") \in OneSidedTp
    BY <1>1, <2>2
  <2>4. p.off + PieceLen(d, b, p.off) = d
    <3>1. b \in Nat /\ b > 0 /\ d \in Nat /\ p.off \in Nat
          /\ p.off <= LastIndex(d, b) /\ ~(p.off < LastIndex(d, b))
      BY <1>4, <2>2, <2>3
    <3> HIDE DEF b, d, p
    <3>2. LastIndex(d, b) \in Nat /\ d = LastIndex(d, b) + (d % b)
      BY <3>1, LastIndexFacts
    <3> QED BY <3>1, <3>2 DEF PieceLen
  <2>5. \A i \in Bytes("client") : mem["client"][i] = mem["server"][i]
    BY <1>4, <2>2, <2>3, <2>4, ConstantsAssumption DEF Bytes, PosNat, Node
  <2>6. /\ mem["client"] \in [Bytes("client") -> Contents]
        /\ mem["server"] \in [Bytes("client") -> Contents]
    BY DEF IInv, TypeOK, Node, Bytes, Matched, Contents
  <2> QED BY <2>5, <2>6
<1> QED BY <1>5, <1>6 DEF TransferInv

\* The server touches its region neither while the client works on it nor
\* between the end of the transfer and its own end of the pass.
LEMMA ServerReturns ==
  ASSUME Matched, IInv, TransferInv, ~Exited("server"), Return("server"),
         pos["server"].label \in {"open", "fill"} \/ mem' = mem,
         sq'["client"] = sq["client"]
  PROVE  TransferInv'
<1> DEFINE p == pos["client"]
           q == pos["server"]
<1>1. /\ pos'["client"] = p /\ blocked'["client"] = blocked["client"]
      /\ pos'["server"] = ServerAfter(q)
      /\ q \in Position /\ p \in Position
  BY Here DEF Return, IInv, TypeOK, Node
<1>2. /\ Test("client")' = Test("client") /\ CallLen("client")' = CallLen("client")
      /\ \A S \in SUBSET Labels : At("client", S)' <=> At("client", S)
  BY <1>1, SamePlace DEF Node
<1>3. MovedSoFar'
  <2> SUFFICES ASSUME At("client", {"data"}), Test("client") \in OneSidedTp
               PROVE  \A i \in Bytes("client") : i < Frontier => mem'["client"][i] = mem'["server"][i]
    <3>1. Frontier' = Frontier
      BY <1>1, <1>2 DEF Frontier
    <3>2. At("client", {"data"})' <=> At("client", {"data"})
      BY <1>2 DEF Labels
    <3> QED BY <1>2, <3>1, <3>2 DEF MovedSoFar, OneSidedTp, Bytes
  <2>1. q.label \in {"ready", "done"}
    BY SafeRegion DEF ExclusiveRegion, At, OneSidedTp
  <2> QED BY <2>1 DEF TransferInv, MovedSoFar, OneSidedTp
<1>4. TransferComplete'
  <2> SUFFICES ASSUME At("client", {"done"}), Test("client") \in OneSidedTp,
                      At("server", {"ready", "done"})', pos'["server"].round = p.round
               PROVE  mem'["client"] = mem'["server"]
    <3>1. At("client", {"done"})' <=> At("client", {"done"})
      BY <1>2 DEF Labels
    <3> QED BY <1>1, <1>2, <3>1 DEF TransferComplete, OneSidedTp
  <2> DEFINE t == Test("server")
             s == ServerAfter(q)
  <2>1. /\ t \in OneSidedTp
        /\ \/ q.label \in {"ready", "done"} /\ q.round = p.round
           \/ q.label \in {"ready", "fill"} /\ q.round = p.round + 1
           \/ q.label = "fin"
        /\ p.round \in Nat
    BY <1>1, DonePass DEF Position
  <2>2. s.label \in {"ready", "done"} /\ s.round = p.round
    BY <1>1 DEF At
  <2>3. t = Tests("server")[q.test]
    BY DEF Test
  <2> HIDE DEF t
  <2>4. q.label = "ready" => s.round = q.round
    BY <2>1, <2>3 DEF ServerAfter, Goto
  <2>5. q.label = "fill" => s.round = q.round
    BY <2>1, <2>3 DEF ServerAfter, Goto
  <2>6. q.label \in {"done", "fin"} => s.label \notin {"ready", "done"}
    BY <2>1, <2>3 DEF ServerAfter, ServerPass, Goto, LeaveLoop, OneSidedTp, TwoSided
  <2> HIDE DEF s, p, q
  <2>7. q.label = "ready" /\ q.round = p.round
    BY <2>1, <2>2, <2>4, <2>5, <2>6
  <2>8. At("server", {"ready", "done"}) /\ mem' = mem
    BY <2>7 DEF At, q
  <2> QED BY <2>7, <2>8 DEF TransferInv, TransferComplete, OneSidedTp, p, q
<1> QED BY <1>3, <1>4 DEF TransferInv

\* A client inside a one-sided transfer is in no other call.
LEMMA ClientWorksIn ==
  ASSUME At("client", {"data"}), Test("client") \in OneSidedTp
  PROVE  /\ InOneSided("client") /\ ~InSend("client") /\ ~InReceive("client")
         /\ ~At("client", {"ready", "done", "fin", "open", "fill", "close"})
  BY Kinds DEF At, InOneSided, OneSided, OneSidedTp, TwoSided, Node

\* A send, or a buffer posted for data, moves no byte of a transfer.
LEMMA CallTransfers ==
  ASSUME Matched, IInv, TransferInv, NEW n \in Node,
         SendControlMessage(n) \/ SendData(n) \/ PostDataBuffer(n)
  PROVE  TransferInv'
<1>1. pos' = pos /\ mem' = mem
  BY DEF SendControlMessage, SendData, PostDataBuffer
<1>2. n = "server" => blocked'["client"] = blocked["client"] /\ sq'["client"] = sq["client"]
  BY DEF SendControlMessage, SendData, PostDataBuffer, Call, Post, PostRequest, IInv, TypeOK, Node
<1>3. n = "client" => InSend("client") \/ InReceive("client")
  BY DEF SendControlMessage, SendData, PostDataBuffer, InSend, InReceive
<1>4. ASSUME At("client", {"data"}), Test("client") \in OneSidedTp
      PROVE  Frontier' = Frontier
  BY <1>1, <1>2, <1>3, <1>4, ClientWorksIn, SamePlace DEF Frontier, Node
<1> QED BY <1>1, <1>4, QuietStep

\* A read or write that is only posted has moved nothing yet.
LEMMA ReadOrWriteTransfers ==
  ASSUME Matched, IInv, TransferInv, ReadOrWrite
  PROVE  TransferInv'
<1>1. pos' = pos /\ mem' = mem /\ ~blocked["client"] /\ sq'["client"] # <<>>
  <2>1. pos' = pos /\ mem' = mem /\ ~blocked["client"]
    BY DEF ReadOrWrite, Call
  <2>2. sq["client"] = <<>>
    BY <2>1, NotMet DEF Idle, Node
  <2>3. sq'["client"] # <<>>
    BY <2>2 DEF ReadOrWrite, Post, PostRequest, IInv, TypeOK, Node
  <2> QED BY <2>1, <2>3
<1>2. Frontier' = Frontier
  BY <1>1 DEF Frontier
<1> QED BY <1>1, <1>2, QuietStep

\* Waiting for a control message moves nothing; the read test gets a new
\* buffer only before its first byte.
LEMMA WaitTransfers ==
  ASSUME Matched, IInv, TransferInv, NEW n \in Node, WaitForControlMessage(n)
  PROVE  TransferInv'
<1>1. pos' = pos /\ sq' = sq
  BY DEF WaitForControlMessage
<1>2. CASE n = "client" /\ Test("client") = "read_tp"
  <2>1. ~At("client", {"data", "done"})
    BY <1>2 DEF WaitForControlMessage, WaitsForControl, SendsControl, At
  <2>2. ~At("client", {"data", "done"})'
    BY <1>1, <2>1, SamePlace DEF Labels, Node
  <2> QED BY <2>2, ClientElsewhere
<1>3. CASE ~(n = "client" /\ Test("client") = "read_tp")
  <2>1. mem' = mem
    BY <1>3 DEF WaitForControlMessage
  <2>2. ASSUME At("client", {"data"}), Test("client") \in OneSidedTp
        PROVE  Frontier' = Frontier
    <3>1. n = "server"
      BY <2>2, ClientWorksIn DEF WaitForControlMessage, InReceive, Node
    <3>2. blocked'["client"] = blocked["client"]
      BY <3>1 DEF WaitForControlMessage, Call, IInv, TypeOK, Node
    <3> QED BY <1>1, <3>2, SamePlace DEF Frontier, Node
  <2> QED BY <1>1, <2>1, <2>2, QuietStep
<1> QED BY <1>2, <1>3

\* A message is no part of a one-sided transfer.
LEMMA DeliverTransfers ==
  ASSUME Matched, IInv, TransferInv, NEW n \in Node, DeliverMessage(n)
  PROVE  TransferInv'
<1>1. pos' = pos /\ mem' = mem /\ blocked' = blocked /\ sq[n] # <<>> /\ Head(sq[n]).op = "send"
  BY DEF DeliverMessage, Deliver
<1>2. InSend(n)
  <2>1. sq[n] = << PostedBy(n) >> /\ (InSend(n) \/ InOneSided(n))
    BY <1>1, Requested
  <2>2. Head(sq[n]) = PostedBy(n)
    BY <2>1
  <2> QED BY <1>1, <2>1, <2>2 DEF PostedBy
<1>3. ASSUME At("client", {"data"}), Test("client") \in OneSidedTp
      PROVE  Frontier' = Frontier
  <2>1. n = "server"
    BY <1>2, <1>3, ClientWorksIn DEF Node
  <2>2. sq'["client"] = sq["client"]
    BY <2>1 DEF DeliverMessage, Deliver, Complete, IInv, TypeOK, Node
  <2> QED BY <1>1, <2>2, SamePlace DEF Frontier, Node
<1> QED BY <1>1, <1>3, QuietStep

\* Returning from a blocking call, on either side.
LEMMA ReturnTransfers ==
  ASSUME Matched, IInv, TransferInv, NEW n \in Node, WaitUntilCompleted(n) \/ Receive(n)
  PROVE  TransferInv'
<1>1. Return(n) /\ mem' = mem /\ sq' = sq /\ blocked[n]
  BY DEF WaitUntilCompleted, Receive
<1>2. CallOK(n)
  BY DEF IInv, Inv
<1>3. ~Exited(n)
  BY <1>2, Kinds DEF WaitUntilCompleted, Receive, CallOK, Idle
<1>4. InOneSided(n) => sq[n] = <<>>
  <2>1. InOneSided(n) => ~InReceive(n) /\ ~InSend(n) /\ ~InOpen(n)
    BY Kinds DEF OneSided, TwoSided
  <2> QED BY <1>1, <1>2, <2>1 DEF WaitUntilCompleted, Receive, CallOK, Idle
<1>5. CASE n = "client"
  BY <1>1, <1>3, <1>4, <1>5, ClientReturns
<1>6. CASE n = "server"
  BY <1>1, <1>3, <1>6, ServerReturns
<1> QED BY <1>5, <1>6 DEF Node

\* Refilling, clearing and closing happen outside the transfer.
LEMMA LocalTransfers ==
  ASSUME Matched, IInv, TransferInv, NEW n \in Node, Refill(n) \/ Close(n)
  PROVE  TransferInv'
<1>1. Return(n) /\ ~Exited(n) /\ sq' = sq
      /\ \/ pos[n].label = "fill"
         \/ pos[n].label = "close" /\ mem' = mem
  BY DEF Refill, Close, At, verbs
<1>2. CASE n = "server"
  BY <1>1, <1>2, ServerReturns
<1>3. CASE n = "client" /\ pos[n].label = "close"
  BY <1>1, <1>3, Kinds, ClientReturns DEF Node
<1>4. CASE n = "client" /\ pos[n].label = "fill"
  <2>1. Test("client") = "write_tp" /\ Test("client") = Tests("client")[pos["client"].test]
    BY <1>1, <1>4, Here DEF LabelsOf, Node
  <2>2. pos'["client"] = ClientPass("write_tp", pos["client"], pos["client"].round + 1)
    BY <1>1, <1>4, <2>1 DEF Return, ClientAfter, IInv, TypeOK, Node
  <2>3. ~At("client", {"data", "done"})'
    BY <2>2 DEF At, ClientPass, LeaveLoop, Goto, TwoSided
  <2> QED BY <2>3, ClientElsewhere
<1> QED BY <1>1, <1>2, <1>3, <1>4 DEF Node

\* So does connecting.
LEMMA ConnectTransfers ==
  ASSUME Matched, IInv, TransferInv, Connect \/ Accept \/ ConnectReturns
  PROVE  TransferInv'
<1>1. CASE Connect
  <2>1. ~At("client", {"data", "done"}) /\ pos' = pos
    BY <1>1 DEF Connect, At
  <2>2. ~At("client", {"data", "done"})'
    BY <2>1, SamePlace DEF Labels, Node
  <2> QED BY <2>2, ClientElsewhere
<1>2. CASE Accept
  BY <1>2, ServerReturns DEF Accept, At
<1>3. CASE ConnectReturns
  <2>1. InOpen("client")
    BY <1>3 DEF ConnectReturns, IInv, Inv, DialOK
  <2> QED BY <1>3, <2>1, Kinds, ClientReturns DEF ConnectReturns, Node
<1> QED BY <1>1, <1>2, <1>3

\* Every step preserves the transfer invariant, in a state where the programs
\* are in lockstep.
LEMMA TransferStep ==
  ASSUME Matched, IInv, TransferInv, [Next]_vars
  PROVE  TransferInv'
<1>1. ASSUME NEW n \in Node, Program(n)
      PROVE  TransferInv'
  BY <1>1, CallTransfers, WaitTransfers, ReturnTransfers, LocalTransfers DEF Program
<1>2. CASE Client
  BY <1>1, <1>2, ConnectTransfers, ReadOrWriteTransfers DEF Client, Node
<1>3. CASE Server
  BY <1>1, <1>3, ConnectTransfers DEF Server, Node
<1>4. CASE Hardware
  <2>1. ASSUME NEW n \in Node PROVE ~FlushRequest(n)
    BY <2>1, NotSevered DEF FlushRequest, Flush
  <2> QED BY <1>4, <2>1, DeliverTransfers, AccessTransfers DEF Hardware
<1>5. CASE UNCHANGED vars
  <2>1. UNCHANGED <<pos, mem, blocked, sq>>
    BY <1>5 DEF vars, verbs
  <2>2. Frontier' = Frontier
    BY <2>1, SamePlace DEF Frontier, Node
  <2> QED BY <2>1, <2>2, QuietStep
<1> QED BY <1>2, <1>3, <1>4, <1>5 DEF Next, Finished

\* At the end of a one-sided pass every byte of the data size has moved
\* unchanged: what is read is the region of the server, what is written is
\* the data of the client.
THEOREM Transfers ==
  ASSUME Matched
  PROVE  Spec => []TransferComplete
<1>1. Init => IInv /\ TransferInv
  <2>1. Init => TransferInv
    BY DEF Init, TransferInv, MovedSoFar, TransferComplete, At, Node
  <2> QED BY <2>1, InitInv
<1>2. IInv /\ TransferInv /\ [Next]_vars => IInv' /\ TransferInv'
  BY NextInv, TransferStep
<1>3. TransferInv => TransferComplete
  BY DEF TransferInv
<1> QED BY <1>1, <1>2, <1>3, PTL DEF Spec

-----------------------------------------------------------------------------
(* The results are genuine.                                                *)

\* A place, and the meeting it leads to, belong to the same test or to the
\* next one.
LEMMA MeetingTests ==
  ASSUME NEW p \in Position
  PROVE  /\ ClientMeeting(p).test \in {p.test, p.test + 1}
         /\ ServerMeeting(p).test \in {p.test, p.test + 1}
         /\ ClientMeeting(ClientAfter(p)).test >= p.test
         /\ ServerMeeting(ServerAfter(p)).test <= p.test + 1
<1>1. p.test \in Nat
  BY DEF Position, PosNat
<1>2. ClientMeeting(p).test \in {p.test, p.test + 1}
  BY DEF ClientMeeting, ClientPass, LeaveLoop, Goto, NextTest
<1>3. ServerMeeting(p).test \in {p.test, p.test + 1}
  BY DEF ServerMeeting, Goto, NextTest
<1>4. ClientMeeting(ClientAfter(p)).test >= p.test
  <2>1. ClientAfter(p).test \in {p.test, p.test + 1}
    BY DEF ClientAfter, ClientPass, LeaveLoop, Goto, Step, NextTest, Position, Labels
  <2>2. \A q : ClientMeeting(q).test \in {q.test, q.test + 1}
    BY DEF ClientMeeting, ClientPass, LeaveLoop, Goto, NextTest
  <2> QED BY <1>1, <2>1, <2>2
<1>5. ServerMeeting(ServerAfter(p)).test <= p.test + 1
  <2>1. \/ ServerAfter(p).test = p.test
        \/ ServerAfter(p).test = p.test + 1 /\ ServerAfter(p).label = "open"
    BY DEF ServerAfter, ServerPass, LeaveLoop, Goto, Step, NextTest, Position, Labels
  <2>2. \A q : /\ ServerMeeting(q).test \in {q.test, q.test + 1}
               /\ q.label = "open" => ServerMeeting(q).test = q.test
    BY DEF ServerMeeting, Goto, NextTest
  <2> QED BY <1>1, <2>1, <2>2
<1> QED BY <1>2, <1>3, <1>4, <1>5

\* When the client has ended a test, the server is at its end at least.
LEMMA ServerNotBehind ==
  ASSUME IInv
  PROVE  pos["client"].test <= pos["server"].test + 1
<1>1. /\ pos["client"] \in Position /\ pos["server"] \in Position /\ Lockstep
      /\ pos["client"].test \in Nat /\ pos["server"].test \in Nat
  BY DEF IInv, Inv, TypeOK, Node, Position, PosNat
<1>2. /\ Meeting("client").test \in {pos["client"].test, pos["client"].test + 1}
      /\ Meeting("server").test \in {pos["server"].test, pos["server"].test + 1}
      /\ NextMeeting("client").test >= pos["client"].test
      /\ NextMeeting("server").test <= pos["server"].test + 1
  BY <1>1, MeetingTests DEF Meeting, NextMeeting
<1> QED BY <1>1, <1>2 DEF Lockstep

\* Every line written, or kept for the file of the running test, is good.
GoodLines ==
  /\ \A k \in 1..Len(results) : results[k].ok
  /\ \A i \in 1..Len(Tests("client")) :
       i < pos["client"].test => \A k \in 1..Len(file[i]) : file[i][k].ok

\* A line is kept when its request has succeeded, and then it stays.
LEMMA GoodLinesStep ==
  ASSUME AloneInv, AloneInv', FilesInv, FilesInv', GoodLines, [Next]_vars, Record,
         ~failed'["client"]
  PROVE  GoodLines'
<1> DEFINE p == pos["client"]
           N == Len(Tests("client"))
<1>1. p \in Position /\ p.test \in Nat /\ N \in Nat
  BY ClientHere
<1>2. CASE KeepResult
  <2> DEFINE line == Line(Size("client"), ~failed'["client"])
  <2>1. /\ ~Exited("client") /\ results' = Append(results, line) /\ file' = file
        /\ p.label \in {"data", "done"}
    BY <1>2 DEF KeepResult, EndsPass, At
  <2>2. pos'["client"].test = p.test
    <3>1. CASE pos'["client"] = p
      BY <3>1
    <3>2. CASE pos'["client"] = ClientAfter(p)
      BY <2>1, <3>2, ClientHere, PassesKept
    <3> QED BY <3>1, <3>2, ClientMoves
  <2>3. line.ok
    BY DEF Line
  <2>4. results \in Seq(ResultLine) /\ results' \in Seq(ResultLine)
    <3>1. ~Exited("client")'
      BY <2>1, <2>2 DEF Exited
    <3> QED BY <2>1, <3>1 DEF FilesInv, LinesOf, ResultLine
  <2> HIDE DEF line
  <2>5. \A k \in 1..Len(results') : results'[k].ok
    BY <2>1, <2>3, <2>4 DEF GoodLines
  <2> QED BY <2>1, <2>2, <2>5 DEF GoodLines
<1>3. CASE WriteFile
  <2>1. /\ pos'["client"].test = p.test + 1 /\ results' = <<>>
        /\ file' = [j \in DOMAIN file |-> IF j = p.test THEN results
                                          ELSE IF j = p.test + 1 THEN <<>> ELSE file[j]]
    BY <1>3 DEF WriteFile
  <2>2. \A i \in 1..N : i < p.test + 1 => file'[i] = IF i = p.test THEN results ELSE file[i]
    BY <1>1, <2>1 DEF FilesInv
  <2>3. ASSUME NEW i \in 1..N, i < p.test + 1
        PROVE  \A k \in 1..Len(file'[i]) : file'[i][k].ok
    BY <1>1, <2>2, <2>3 DEF GoodLines
  <2> QED BY <2>1, <2>3 DEF GoodLines
<1>4. CASE KeepsNone
  BY <1>4 DEF KeepsNone, GoodLines
<1> QED BY <1>2, <1>3, <1>4 DEF Record

\* With equal arguments a results file that has been written is about the test
\* it is named for: no request of it failed, although nobody looks, and the
\* server has run the same test.
THEOREM Genuine ==
  ASSUME Matched
  PROVE  ResultsSpec => []GenuineResults
<1> DEFINE I == IInv /\ GoodLines
<1>1. ResultsInit => I
  BY InitInv DEF ResultsInit, GoodLines, Init, Node
<1>2. I /\ AloneInv /\ FilesInv /\ (AloneInv /\ FilesInv)' /\ [ResultsNext]_resultsVars => I'
  <2> SUFFICES ASSUME I, AloneInv, FilesInv, AloneInv', FilesInv', [ResultsNext]_resultsVars
               PROVE  I'
    OBVIOUS
  <2>1. [Next]_vars /\ IInv'
    BY NextInv DEF ResultsNext, resultsVars
  <2>2. CASE ResultsNext
    <3>1. ~failed'["client"]
      BY <2>1 DEF IInv, Inv, LinkOK, Node
    <3> HIDE DEF I
    <3>2. GoodLines
      BY DEF I
    <3> QED BY <2>1, <2>2, <3>1, <3>2, GoodLinesStep DEF ResultsNext, I
  <2>3. CASE UNCHANGED resultsVars
    BY <2>1, <2>3 DEF GoodLines, resultsVars, vars
  <2> QED BY <2>2, <2>3
<1>3. I /\ AloneInv /\ FilesInv => GenuineResults
  <2> SUFFICES ASSUME I, AloneInv, FilesInv,
                      NEW i \in 1..Len(Tests("client")), i < pos["client"].test
               PROVE  /\ \A k \in DOMAIN file[i] : file[i][k].ok
                      /\ i <= Len(Tests("server")) /\ Tests("server")[i] = Tests("client")[i]
                      /\ pos["server"].test >= i
    BY DEF GenuineResults
  <2>1. \A k \in DOMAIN file[i] : file[i][k].ok
    <3>1. DOMAIN file[i] = 1..Len(file[i])
      BY DEF FilesInv, LinesOf
    <3> QED BY <3>1 DEF GoodLines
  <2>2. i <= Len(Tests("server")) /\ Tests("server")[i] = Tests("client")[i]
    BY SameTests, ClientHere
  <2>3. pos["server"].test >= i
    <3>1. pos["client"].test \in Nat /\ pos["server"].test \in Nat
      BY DEF IInv, TypeOK, Node, Position, PosNat
    <3>2. pos["client"].test <= pos["server"].test + 1
      BY ServerNotBehind
    <3> HIDE DEF I
    <3> QED BY <3>1, <3>2
  <2> QED BY <2>1, <2>2, <2>3
<1>4. ResultsSpec => []I
  BY <1>1, <1>2, FilesInvariance, PTL DEF ResultsSpec
<1> QED BY <1>3, <1>4, FilesInvariance, PTL

-----------------------------------------------------------------------------
(* RdmaResults implements PassProtocol.                                    *)

\* The recursive definition of PassesBefore has a solution, as the tests are
\* three or six.
LEMMA PassesUnfold ==
  \A i \in 1..(Len(Tests("client")) + 1) :
    PassesBefore[i] = IF i = 1 THEN 0 ELSE PassesBefore[i - 1] + Len(Sizes(Tests("client")[i - 1]))
<1> DEFINE N == Len(Tests("client"))
           B == Len(BufferSizes)
           L == Len(LatencySizes)
           Solves(f) == f = [i \in 1..(N + 1) |->
                               IF i = 1 THEN 0 ELSE f[i - 1] + Len(Sizes(Tests("client")[i - 1]))]
<1>1. B \in Nat /\ L \in Nat
  BY ConstantsAssumption
<1>2. \E f : Solves(f)
  <2>1. CASE Metric["client"] = "throughput"
    <3>1. N = 3 /\ \A i \in 1..3 : Len(Sizes(Tests("client")[i])) = B
      BY <2>1 DEF Tests, Throughput, Sizes, LatencyTests
    <3> DEFINE f == [i \in 1..4 |-> (i - 1) * B]
    <3> HIDE DEF N, B
    <3>2. \A i \in 1..4 : f[i] = IF i = 1 THEN 0 ELSE f[i - 1] + Len(Sizes(Tests("client")[i - 1]))
      <4>1. f[1] = 0 /\ f[2] = B /\ f[3] = B + B /\ f[4] = B + B + B
        BY <1>1
      <4> HIDE DEF f
      <4> QED BY <1>1, <3>1, <4>1
    <3>3. f = [i \in 1..4 |-> IF i = 1 THEN 0 ELSE f[i - 1] + Len(Sizes(Tests("client")[i - 1]))]
      <4>1. f = [i \in 1..4 |-> f[i]]
        OBVIOUS
      <4> HIDE DEF f
      <4> QED BY <3>2, <4>1
    <3> HIDE DEF f
    <3> QED BY <3>1, <3>3
  <2>2. CASE Metric["client"] = "latency"
    <3>1. N = 3 /\ \A i \in 1..3 : Len(Sizes(Tests("client")[i])) = L
      BY <2>2 DEF Tests, Latency, Sizes, LatencyTests
    <3> DEFINE f == [i \in 1..4 |-> (i - 1) * L]
    <3> HIDE DEF N, L
    <3>2. \A i \in 1..4 : f[i] = IF i = 1 THEN 0 ELSE f[i - 1] + Len(Sizes(Tests("client")[i - 1]))
      <4>1. f[1] = 0 /\ f[2] = L /\ f[3] = L + L /\ f[4] = L + L + L
        BY <1>1
      <4> HIDE DEF f
      <4> QED BY <1>1, <3>1, <4>1
    <3>3. f = [i \in 1..4 |-> IF i = 1 THEN 0 ELSE f[i - 1] + Len(Sizes(Tests("client")[i - 1]))]
      <4>1. f = [i \in 1..4 |-> f[i]]
        OBVIOUS
      <4> HIDE DEF f
      <4> QED BY <3>2, <4>1
    <3> HIDE DEF f
    <3> QED BY <3>1, <3>3
  <2>3. CASE Metric["client"] = "all"
    <3> DEFINE Passes(i) == Len(Sizes(Tests("client")[i]))
    <3>1. N = 6 /\ (\A i \in 1..3 : Passes(i) = B) /\ (\A i \in 4..6 : Passes(i) = L)
      BY <2>3 DEF Tests, Throughput, Latency, Sizes, LatencyTests
    <3> DEFINE f == [i \in 1..7 |-> IF i <= 4 THEN (i - 1) * B ELSE 3 * B + (i - 4) * L]
    <3> HIDE DEF N, B, L, Passes
    <3>2. \A i \in 1..7 : f[i] = IF i = 1 THEN 0 ELSE f[i - 1] + Passes(i - 1)
      <4>1. /\ f[1] = 0 /\ f[2] = B /\ f[3] = 2 * B /\ f[4] = 3 * B
            /\ f[5] = 3 * B + L /\ f[6] = 3 * B + 2 * L /\ f[7] = 3 * B + 3 * L
        BY <1>1
      <4>2. /\ Passes(1) = B /\ Passes(2) = B /\ Passes(3) = B
            /\ Passes(4) = L /\ Passes(5) = L /\ Passes(6) = L
        BY <3>1
      <4>3. \A i \in 1..7 : i = 1 \/ i = 2 \/ i = 3 \/ i = 4 \/ i = 5 \/ i = 6 \/ i = 7
        OBVIOUS
      <4> HIDE DEF f
      <4> QED BY <1>1, <4>1, <4>2, <4>3
    <3>3. f = [i \in 1..7 |-> IF i = 1 THEN 0 ELSE f[i - 1] + Passes(i - 1)]
      <4>1. f = [i \in 1..7 |-> f[i]]
        OBVIOUS
      <4> HIDE DEF f
      <4> QED BY <3>2, <4>1
    <3> HIDE DEF f
    <3>4. 1..7 = 1..(N + 1)
      BY <3>1
    <3> QED BY <3>3, <3>4 DEF Passes
  <2> QED BY <2>1, <2>2, <2>3, ConstantsAssumption DEF Metrics, Node
<1>3. PassesBefore = CHOOSE f : Solves(f)
  BY DEF PassesBefore
<1> HIDE DEF Solves
<1>4. Solves(PassesBefore)
  BY <1>2, <1>3, Zenon
<1>5. PassesBefore = [i \in 1..(N + 1) |->
                        IF i = 1 THEN 0 ELSE PassesBefore[i - 1] + Len(Sizes(Tests("client")[i - 1]))]
  BY <1>4 DEF Solves
<1> QED BY <1>5, Zenon

\* Each test adds its passes, and none takes any away.
LEMMA PassesAdd ==
  LET N == Len(Tests("client")) IN
  /\ N \in Nat /\ PassesBefore[1] = 0
  /\ \A i \in 1..(N + 1) : PassesBefore[i] \in Nat /\ PassesBefore[i] <= PassesBefore[N + 1]
  /\ \A i \in 1..N : PassesBefore[i + 1] = PassesBefore[i] + Len(Sizes(Tests("client")[i]))
<1> DEFINE N == Len(Tests("client"))
           Passes(i) == Len(Sizes(Tests("client")[i]))
<1>1. N \in {3, 6}
  BY ConstantsAssumption DEF Tests, Throughput, Latency, Metrics, Node
<1>2. \A i \in 1..N : Passes(i) \in Nat
  BY TestsType, SizesType DEF Node
<1> HIDE DEF Passes
<1>3. \A i \in 1..N : PassesBefore[i + 1] = PassesBefore[i] + Passes(i)
  <2> SUFFICES ASSUME NEW i \in 1..N PROVE PassesBefore[i + 1] = PassesBefore[i] + Passes(i)
    OBVIOUS
  <2> HIDE DEF N
  <2>1. i + 1 \in 1..(N + 1) /\ i + 1 # 1 /\ (i + 1) - 1 = i
    BY <1>1
  <2> QED BY <2>1, PassesUnfold DEF N, Passes
<1>4. PassesBefore[1] = 0
  <2> HIDE DEF N
  <2>1. 1 \in 1..(N + 1)
    BY <1>1
  <2> QED BY <2>1, PassesUnfold DEF N
<1> HIDE DEF N
<1>5. \A i \in 1..(N + 1) : PassesBefore[i] \in Nat /\ PassesBefore[i] <= PassesBefore[N + 1]
  <2>1. CASE N = 3
    <3>1. /\ PassesBefore[2] = PassesBefore[1] + Passes(1)
          /\ PassesBefore[3] = PassesBefore[2] + Passes(2)
          /\ PassesBefore[4] = PassesBefore[3] + Passes(3)
          /\ Passes(1) \in Nat /\ Passes(2) \in Nat /\ Passes(3) \in Nat
      BY <1>2, <1>3, <2>1
    <3>2. \A i \in 1..(N + 1) : i = 1 \/ i = 2 \/ i = 3 \/ i = 4
      BY <2>1
    <3> QED BY <1>4, <2>1, <3>1, <3>2
  <2>2. CASE N = 6
    <3>1. /\ PassesBefore[2] = PassesBefore[1] + Passes(1)
          /\ PassesBefore[3] = PassesBefore[2] + Passes(2)
          /\ PassesBefore[4] = PassesBefore[3] + Passes(3)
          /\ PassesBefore[5] = PassesBefore[4] + Passes(4)
          /\ PassesBefore[6] = PassesBefore[5] + Passes(5)
          /\ PassesBefore[7] = PassesBefore[6] + Passes(6)
          /\ Passes(1) \in Nat /\ Passes(2) \in Nat /\ Passes(3) \in Nat
          /\ Passes(4) \in Nat /\ Passes(5) \in Nat /\ Passes(6) \in Nat
      BY <1>2, <1>3, <2>2
    <3>2. \A i \in 1..(N + 1) : i = 1 \/ i = 2 \/ i = 3 \/ i = 4 \/ i = 5 \/ i = 6 \/ i = 7
      BY <2>2
    <3> QED BY <1>4, <2>2, <3>1, <3>2
  <2> QED BY <1>1, <2>1, <2>2
<1> QED BY <1>1, <1>3, <1>4, <1>5 DEF N, Passes

\* The passes that have ended when the client is at a place.
Books(p) == PassesBefore[p.test] + Kept(p)

\* The client's way to its next meeting ends no pass, but for the one-sided
\* latency tests, where a pass ends without one.
LEMMA BooksOfMeeting ==
  ASSUME NEW p \in Position, PositionOK("client", p),
         p.label = "data" => Tests("client")[p.test] \notin {"read_lat", "write_lat"}
  PROVE  Books(ClientMeeting(p)) = Books(p)
<1> DEFINE N == Len(Tests("client"))
           t == Tests("client")[p.test]
<1>1. N \in Nat /\ p.test \in Nat /\ p.test > 0
  BY TestsType DEF Position, PosNat, Node
<1>2. CASE p.test > N
  BY <1>2 DEF PositionOK, ClientMeeting
<1>3. CASE p.test <= N
  <2>1. /\ p.test \in 1..N /\ t \in AllTests /\ Len(Sizes(t)) \in Nat
        /\ IF p.label \in {"open", "fin", "close"} THEN p.round = 0 ELSE p.round \in 1..Len(Sizes(t))
    BY <1>1, <1>3, TestsType, SizesType DEF PositionOK, Node
  <2>2. CASE p.label = "close"
    <3>1. PassesBefore[p.test + 1] = PassesBefore[p.test] + Len(Sizes(t))
      BY <2>1, PassesAdd
    <3>2. PassesBefore[p.test + 1] \in Nat
      BY <1>1, <2>1, PassesAdd
    <3> QED BY <2>2, <3>1, <3>2 DEF ClientMeeting, NextTest, Books, Kept
  <2>3. CASE p.label = "fill"
    <3>1. ClientMeeting(p) = ClientPass(t, p, p.round + 1) /\ Kept(p) = p.round
      BY <2>3 DEF ClientMeeting, Kept
    <3> DEFINE q == ClientPass(t, p, p.round + 1)
    <3>2. CASE p.round + 1 <= Len(Sizes(t))
      BY <2>1, <2>3, <3>1, <3>2 DEF ClientPass, Goto, Books, Kept
    <3>3. CASE ~(p.round + 1 <= Len(Sizes(t)))
      BY <2>1, <2>3, <3>1, <3>3 DEF ClientPass, LeaveLoop, Goto, Books, Kept
    <3> QED BY <3>2, <3>3
  <2>4. CASE p.label = "data"
    BY <2>4 DEF ClientMeeting, Goto, Books, Kept
  <2>5. CASE p.label \notin {"close", "fill", "data"}
    BY <2>5 DEF ClientMeeting
  <2> QED BY <2>2, <2>3, <2>4, <2>5
<1> QED BY <1>1, <1>2, <1>3

\* From one meeting to the next a pass ends if the first one is its end.
LEMMA BooksOfNextMeeting ==
  ASSUME NEW p \in Position, p.test \in 1..Len(Tests("client")), PositionOK("client", p), MeetingPos(p),
         p.label = "open" => Tests("client")[p.test] \notin {"read_lat", "write_lat"}
  PROVE  Books(ClientMeeting(ClientAfter(p))) = Books(p) + (IF p.label = "done" THEN 1 ELSE 0)
<1> DEFINE N == Len(Tests("client"))
           t == Tests("client")[p.test]
           q == ClientAfter(p)
<1>1. N \in Nat /\ p.test \in 1..N /\ p.test <= N /\ t \in AllTests
  BY TestsType DEF Node
<1>2. q \in Position /\ PositionOK("client", q)
  BY <1>1, ClientAfterOK
<1>3. p.label \in {"open", "ready", "data", "done", "fin"}
  BY DEF MeetingPos
<1>4. t \in {"read_lat", "write_lat"} => p.label = "fin"
  BY <1>3 DEF MeetingPos, TwoSided
<1>5. q.test = p.test /\ Kept(q) = Kept(p) + (IF p.label = "done" THEN 1 ELSE 0)
      /\ Kept(p) \in Nat
  <2>1. p.label # "close"
    BY <1>3
  <2>2. p.label = "done" => q.label # "done"
    BY <1>1, <1>4 DEF ClientAfter, ClientPass, LeaveLoop, Goto
  <2>3. p.label = "done" => p.round \in Nat
    BY DEF Position
  <2> QED BY <1>1, <1>3, <1>4, <2>1, <2>2, <2>3, PassesKept
<1>6. Tests("client")[q.test] \in {"read_lat", "write_lat"} => q.label # "data"
  BY <1>4, <1>5 DEF ClientAfter, Goto
<1>7. Books(ClientMeeting(q)) = Books(q)
  BY <1>2, <1>6, BooksOfMeeting
<1>8. PassesBefore[p.test] \in Nat
  BY <1>1, PassesAdd
<1> QED BY <1>5, <1>7, <1>8 DEF Books

\* The server's place shows the same passes, up to the message it waits for.
LEMMA BooksOfServer ==
  ASSUME Matched, IInv
  PROVE  ServerConfirmed = Books(Meeting("server"))
           + (IF pos["server"].label = "done" /\ Met("server") THEN 1 ELSE 0)
<1> DEFINE s == pos["server"]
           N == Len(Tests("server"))
           t == Tests("server")[s.test]
<1>1. s \in Position /\ PositionOK("server", s) /\ N \in Nat /\ s.test \in Nat /\ s.test > 0
  BY Here, TestsType DEF Position, PosNat, Node
<1>2. Tests("client") = Tests("server") /\ Test("server") = t /\ Meeting("server") = ServerMeeting(s)
  BY SameTests DEF Test, Meeting
<1>3. CASE s.test > N
  <2>1. s.label = "open" /\ ServerMeeting(s) = s /\ s.test = N + 1
    BY <1>1, <1>3 DEF PositionOK, ServerMeeting
  <2>2. PassesBefore[s.test] \in Nat
    BY <1>1, <1>2, <2>1, PassesAdd
  <2> QED BY <1>2, <2>1, <2>2 DEF ServerConfirmed, Books, Kept
<1>4. CASE s.test <= N
  <2>1. /\ s.test \in 1..N /\ t \in AllTests /\ Len(Sizes(t)) \in Nat
        /\ IF s.label \in {"open", "fin", "close"} THEN s.round = 0 ELSE s.round \in 1..Len(Sizes(t))
    BY <1>1, <1>4, TestsType, SizesType DEF PositionOK, Node
  <2>2. PassesBefore[s.test] \in Nat
    BY <1>2, <2>1, PassesAdd
  <2>3. CASE s.label = "close"
    <3>1. PassesBefore[s.test + 1] = PassesBefore[s.test] + Len(Sizes(t))
      BY <1>2, <2>1, PassesAdd
    <3> QED BY <1>2, <2>1, <2>2, <2>3, <3>1 DEF ServerConfirmed, ServerMeeting, NextTest, Books, Kept
  <2>4. CASE s.label = "fill"
    BY <1>2, <2>1, <2>2, <2>4 DEF ServerConfirmed, ServerMeeting, Goto, Books, Kept
  <2>5. CASE s.label = "done"
    <3>1. InReceive("server") /\ ~InSend("server")
      BY <1>4, <2>5, <1>1 DEF InReceive, InSend, WaitsForControl, SendsControl, SendsData, At, Exited
    <3>2. Met("server") <=> rcq["server"] # <<>>
      BY <3>1 DEF Met
    <3>3. ServerMeeting(s) = s /\ Kept(s) = s.round - 1 /\ s.round \in Nat
      BY <2>1, <2>5 DEF ServerMeeting, Kept
    <3>4. ServerConfirmed = PassesBefore[s.test] + (IF rcq["server"] = <<>> THEN s.round - 1 ELSE s.round)
      BY <2>5 DEF ServerConfirmed
    <3> QED BY <1>2, <2>2, <2>5, <3>2, <3>3, <3>4 DEF Books
  <2>6. CASE s.label \in {"open", "ready", "data", "fin"}
    <3>1. ServerMeeting(s) = s
      BY <2>6 DEF ServerMeeting
    <3>2. ServerConfirmed = PassesBefore[s.test] + Kept(s)
      BY <1>2, <2>6 DEF ServerConfirmed, Kept
    <3>3. Kept(s) \in Nat
      BY <1>2, <2>1, <2>6 DEF Kept
    <3> QED BY <1>2, <2>2, <2>6, <3>1, <3>2, <3>3 DEF Books
  <2> QED BY <1>1, <2>3, <2>4, <2>5, <2>6 DEF Position, Labels
<1> QED BY <1>1, <1>3, <1>4

\* The books count passes.
LEMMA BooksType ==
  ASSUME NEW p \in Position, PositionOK("client", p)
  PROVE  Books(p) \in Nat
<1> DEFINE N == Len(Tests("client"))
           t == Tests("client")[p.test]
<1>1. N \in Nat /\ p.test \in Nat /\ p.test > 0
  BY TestsType DEF Position, PosNat, Node
<1>2. CASE p.test > N
  <2>1. p.label = "open" /\ p.test = N + 1
    BY <1>1, <1>2 DEF PositionOK
  <2>2. PassesBefore[p.test] \in Nat
    BY <1>1, <2>1, PassesAdd
  <2> QED BY <2>1, <2>2 DEF Books, Kept
<1>3. CASE p.test <= N
  <2>1. p.test \in 1..N /\ t \in AllTests /\ Len(Sizes(t)) \in Nat
    BY <1>1, <1>3, TestsType, SizesType DEF Node
  <2>2. Kept(p) \in Nat
    BY <1>3, <2>1, PassesKept
  <2>3. PassesBefore[p.test] \in Nat
    BY <1>1, <2>1, PassesAdd
  <2> QED BY <2>2, <2>3 DEF Books
<1> QED BY <1>1, <1>2, <1>3

\* The message that ends the client's pass has arrived.
PassEnded == HandsOver /\ scq["client"] # <<>>

\* Where the client ends a pass with a message: that message is the client's
\* meeting, and it has taken place.
LEMMA PassEndedMet ==
  ASSUME Matched, IInv, ~MemoryOnly
  PROVE  PassEnded <=> pos["client"].label = "done" /\ Met("client")
<1>1. HandsOver <=> blocked["client"] /\ At("client", {"done"})
  BY DEF HandsOver
<1>2. At("client", {"done"}) => InSend("client") /\ ~InReceive("client") /\ ~InOpen("client")
  BY DEF At, InSend, InReceive, InOpen, SendsControl, WaitsForControl, SendsData, ReceivesData
<1>3. Met("client") => blocked["client"] /\ (InSend("client") \/ InReceive("client") \/ InOpen("client"))
  BY MetFacts DEF Node
<1>4. dial = "accepted" => InOpen("client")
  BY DEF IInv, Inv, DialOK
<1>5. Met("client") => ~Exited("client")
  BY <1>3, Kinds DEF Node
<1> QED BY <1>1, <1>2, <1>3, <1>4, <1>5 DEF PassEnded, Met, At

\* The two programs have the same books: the server knows of exactly the
\* passes whose last message has arrived.
LEMMA SameBooks ==
  ASSUME Matched, IInv, ~MemoryOnly
  PROVE  ServerConfirmed = Books(pos["client"]) + (IF PassEnded THEN 1 ELSE 0)
<1> DEFINE c == pos["client"]
           s == pos["server"]
           cx == IF c.label = "done" THEN 1 ELSE 0
           sx == IF s.label = "done" THEN 1 ELSE 0
<1>1. /\ c \in Position /\ PositionOK("client", c) /\ s \in Position /\ PositionOK("server", s)
      /\ Tests("client") = Tests("server") /\ Lockstep
  BY Here, SameTests DEF Node, IInv, Inv
<1>2. Books(Meeting("client")) = Books(c)
  <2>1. c.label = "data" => ~Exited("client")
    BY <1>1 DEF PositionOK, Exited
  <2>2. c.label = "data" => Tests("client")[c.test] \notin {"read_lat", "write_lat"}
    BY <2>1 DEF MemoryOnly, Test
  <2> QED BY <1>1, <2>2, BooksOfMeeting DEF Meeting
<1>3. Met("client") => Books(NextMeeting("client")) = Books(c) + cx
  <2> SUFFICES ASSUME Met("client") PROVE Books(NextMeeting("client")) = Books(c) + cx
    OBVIOUS
  <2>1. ~Exited("client") /\ (InSend("client") \/ InReceive("client") \/ pos["client"].label = "open")
    BY MetFacts, Kinds DEF Node
  <2>2. MeetingPos(c) /\ c.test \in 1..Len(Tests("client"))
    BY <2>1, AtMeeting DEF Node
  <2>3. Tests("client")[c.test] \notin {"read_lat", "write_lat"}
    BY <2>1 DEF MemoryOnly, Test
  <2> QED BY <1>1, <2>2, <2>3, BooksOfNextMeeting DEF NextMeeting
<1>4. Met("server") => Books(NextMeeting("server")) = Books(Meeting("server")) + sx
  <2> SUFFICES ASSUME Met("server") PROVE Books(NextMeeting("server")) = Books(Meeting("server")) + sx
    OBVIOUS
  <2>1. InSend("server") \/ InReceive("server")
    BY MetFacts DEF Node
  <2>2. MeetingPos(s) /\ s.test \in 1..Len(Tests("client")) /\ Meeting("server") = s
    BY <2>1, AtMeeting DEF Node
  <2>3. /\ s.label \in {"ready", "data", "done", "fin"}
        /\ s.label = "data" => Test("server") \in TwoSided
        /\ s.test <= Len(Tests("server")) /\ Test("server") = Tests("client")[s.test]
        /\ s.label \in LabelsOf("server", Test("server"))
    BY <2>1, Kinds, Here DEF Node
  <2>4. PositionOK("client", s)
    <3>1. Len(Tests("client")) \in Nat /\ s.test \in Nat
      BY TestsType, <2>2 DEF Node
    <3>2. s.label \in LabelsOf("client", Test("server"))
      BY <2>3 DEF LabelsOf
    <3>3. IF s.label \in {"open", "fin", "close"} THEN s.round = 0
          ELSE s.round \in 1..Len(Sizes(Test("server")))
      BY <1>1, <2>3, <3>1 DEF PositionOK
    <3>4. IF s.label = "data" THEN StepOK("client", Test("server"), Sizes(Test("server"))[s.round], s)
          ELSE s.off = 0
      BY <1>1, <2>2, <2>3, <3>1 DEF PositionOK, MeetingPos
    <3> QED BY <1>1, <2>3, <3>1, <3>2, <3>3, <3>4 DEF PositionOK
  <2>5. Books(ClientMeeting(ClientAfter(s))) = Books(s) + sx
    BY <1>1, <2>2, <2>3, <2>4, BooksOfNextMeeting
  <2>6. ClientMeeting(ClientAfter(s)) = NextMeeting("server")
    BY <1>1, <2>2, NextMeetingsAgree DEF NextMeeting
  <2> QED BY <2>2, <2>5, <2>6
<1>5. ServerConfirmed = Books(Meeting("server")) + (IF s.label = "done" /\ Met("server") THEN 1 ELSE 0)
  BY BooksOfServer
<1>6. PassEnded <=> c.label = "done" /\ Met("client")
  BY PassEndedMet
<1>7. Books(c) \in Int
  <2>1. Books(c) \in Nat
    BY <1>1, BooksType
  <2> QED BY <2>1
<1>8. CASE Met("client") /\ Met("server")
  <2>1. Meeting("client") = Meeting("server") /\ Meeting("client") = c /\ Meeting("server") = s
    <3>1. InSend("server") \/ InReceive("server")
      BY <1>8, MetFacts DEF Node
    <3>2. ~Exited("client") /\ (InSend("client") \/ InReceive("client") \/ pos["client"].label = "open")
      BY <1>8, MetFacts, Kinds DEF Node
    <3> QED BY <1>1, <1>8, <3>1, <3>2, AtMeeting DEF Lockstep, Node
  <2> QED BY <1>2, <1>5, <1>6, <1>8, <2>1
<1>9. CASE ~Met("client") /\ ~Met("server")
  BY <1>1, <1>2, <1>5, <1>6, <1>7, <1>9 DEF Lockstep
<1>10. CASE Met("client") /\ ~Met("server")
  <2>1. Meeting("server") = NextMeeting("client")
    BY <1>1, <1>10 DEF Lockstep
  <2> QED BY <1>3, <1>5, <1>6, <1>7, <1>10, <2>1
<1>11. CASE Met("server") /\ ~Met("client")
  <2>1. Meeting("client") = NextMeeting("server")
    BY <1>1, <1>11 DEF Lockstep
  <2> QED BY <1>2, <1>4, <1>5, <1>6, <1>7, <1>11, <2>1
<1> QED BY <1>8, <1>9, <1>10, <1>11

\* The kinds of steps, as the client's side of a pass sees them: it returns
\* from a call, makes one, or stays in it while a completion may come.
ClientReturned ==
  LET c == "client" IN
  /\ ~Exited(c) /\ pos'[c] = ClientAfter(pos[c]) /\ ~blocked'[c]
  /\ pos[c].label \in {"data", "done"} => blocked[c] /\ (scq[c] # <<>> \/ InReceive(c))

ClientCalled ==
  LET c == "client" IN pos'[c] = pos[c] /\ ~blocked[c] /\ scq'[c] = scq[c]

ClientStayed ==
  LET c == "client" IN
  /\ pos'[c] = pos[c] /\ blocked'[c] = blocked[c]
  /\ scq'[c] = scq[c] \/ scq[c] = <<>>

\* There are no others.
LEMMA ClientSteps ==
  ASSUME AloneInv, [Next]_vars
  PROVE  ClientReturned \/ ClientCalled \/ ClientStayed
<1> DEFINE c == "client"
<1>1. TypeOK /\ c \in Node
  BY DEF AloneInv, Node
<1>2. ASSUME NEW n \in Node, WaitUntilCompleted(n) \/ Receive(n)
      PROVE  /\ Return(n) /\ ~Exited(n) /\ blocked[n]
             /\ scq[n] # <<>> \/ InReceive(n)
             /\ n # c => scq'[c] = scq[c]
  <2>1. InSend(n) \/ InOneSided(n) \/ InReceive(n)
    BY <1>2 DEF WaitUntilCompleted, Receive, AloneInv, CallAlone, Idle
  <2>2. Receive(n) => InReceive(n)
    BY DEF Receive, AloneInv, CallAlone, Idle
  <2>3. n # c => scq'[c] = scq[c]
    BY <1>1, <1>2 DEF WaitUntilCompleted, Receive, TypeOK
  <2> QED BY <1>2, <2>1, <2>2, <2>3, Kinds DEF WaitUntilCompleted, Receive
<1>3. ASSUME NEW n \in Node, Return(n), ~Exited(n), n # c => scq'[c] = scq[c],
             n = c => (pos[c].label \in {"data", "done"} => blocked[c] /\ (scq[c] # <<>> \/ InReceive(c)))
      PROVE  ClientReturned \/ ClientStayed
  <2>1. CASE n = c
    BY <1>1, <1>3, <2>1 DEF Return, TypeOK, ClientReturned
  <2>2. CASE n # c
    BY <1>1, <1>3, <2>2 DEF Return, TypeOK, ClientStayed
  <2> QED BY <2>1, <2>2
<1>4. ASSUME NEW n \in Node, Call(n), pos' = pos, scq' = scq
      PROVE  ClientCalled \/ ClientStayed
  BY <1>1, <1>4 DEF Call, TypeOK, ClientCalled, ClientStayed
<1>5. ASSUME NEW n \in Node, Program(n)
      PROVE  ClientReturned \/ ClientCalled \/ ClientStayed
  <2>1. CASE WaitUntilCompleted(n) \/ Receive(n)
    BY <1>2, <1>3, <2>1
  <2>2. CASE Refill(n) \/ Close(n)
    <3>1. Return(n) /\ ~Exited(n) /\ pos[n].label \in {"fill", "close"} /\ scq' = scq
      BY <2>2 DEF Refill, Close, At, verbs
    <3> QED BY <1>3, <3>1
  <2>3. CASE SendControlMessage(n) \/ SendData(n) \/ WaitForControlMessage(n) \/ PostDataBuffer(n)
    BY <1>4, <2>3 DEF SendControlMessage, SendData, WaitForControlMessage, PostDataBuffer
  <2> QED BY <1>5, <2>1, <2>2, <2>3 DEF Program
<1>6. CASE Client
  <2>1. CASE ConnectReturns
    <3>1. Return(c) /\ InOpen(c)
      BY <2>1 DEF ConnectReturns, AloneInv, DialOK
    <3> QED BY <1>1, <1>3, <3>1, Kinds
  <2>2. CASE Connect \/ ReadOrWrite
    <3>1. Call(c) /\ pos' = pos /\ scq' = scq
      BY <2>2 DEF Connect, ReadOrWrite, verbs
    <3> QED BY <1>1, <1>4, <3>1
  <2> QED BY <1>1, <1>5, <1>6, <2>1, <2>2 DEF Client
<1>7. CASE Server
  <2>1. CASE Accept
    <3>1. Return("server") /\ ~Exited("server") /\ scq' = scq
      BY <2>1 DEF Accept, At
    <3> QED BY <1>3, <3>1 DEF Node
  <2> QED BY <1>5, <1>7, <2>1 DEF Server, Node
<1>8. CASE Hardware
  <2>1. pos' = pos /\ blocked' = blocked
    BY <1>8 DEF Hardware, DeliverMessage, FlushRequest, AccessRegion
  <2>2. \E n \in Node, o \in {"ok", "failed"} : sq[n] # <<>> /\ Complete(n, o)
    BY <1>8 DEF Hardware, DeliverMessage, FlushRequest, AccessRegion, Deliver, Access, Flush, Node
  <2>3. \A n \in Node : sq[n] # <<>> => scq[n] = <<>>
    BY RequestedAlone
  <2>4. scq'[c] = scq[c] \/ scq[c] = <<>>
    BY <1>1, <2>2, <2>3 DEF Complete, TypeOK
  <2> QED BY <2>1, <2>4 DEF ClientStayed
<1>9. CASE Finished \/ UNCHANGED vars
  BY <1>9 DEF Finished, vars, verbs, ClientStayed
<1> QED BY <1>6, <1>7, <1>8, <1>9 DEF Next

\* The results are handed to the file at the end of each test, the last one
\* included.
EmptyAtEnd == Exited("client") => results = <<>>

LEMMA EmptyAtEndStep ==
  ASSUME AloneInv, EmptyAtEnd, [Next]_vars, Record
  PROVE  EmptyAtEnd'
<1> DEFINE p == pos["client"]
           q == pos'["client"]
<1>1. p.test \in Nat
  BY ClientHere
<1>2. CASE KeepResult
  <2>1. ~Exited("client") /\ p.label # "close"
    BY <1>2 DEF KeepResult, EndsPass, At
  <2>2. q.test = p.test
    BY <2>1, ClientMoves, ClientHere, PassesKept
  <2> QED BY <2>1, <2>2 DEF EmptyAtEnd, Exited
<1>3. CASE WriteFile
  BY <1>3 DEF WriteFile, EmptyAtEnd
<1>4. CASE KeepsNone
  BY <1>4 DEF KeepsNone, EmptyAtEnd, Exited
<1> QED BY <1>2, <1>3, <1>4 DEF Record

\* The client's results are its books, and what the other side has confirmed
\* is one more if the end of the pass has come through.
Ledger ==
  /\ Measured = Books(pos["client"])
  /\ Measured \in Nat
  /\ Confirmed = Measured + (IF PassEnded THEN 1 ELSE 0)

LEMMA LedgerKept ==
  ASSUME Matched, IInv, AloneInv, FilesInv, EmptyAtEnd
  PROVE  Ledger
<1> DEFINE p == pos["client"]
<1>1. p \in Position /\ PositionOK("client", p)
  BY HereAlone DEF Node
<1>2. Len(results) = Kept(p)
  <2>1. CASE Exited("client")
    <3>1. p.label = "open" /\ results = <<>>
      BY <1>1, <2>1 DEF PositionOK, Exited, EmptyAtEnd
    <3> QED BY <3>1 DEF Kept
  <2>2. CASE ~Exited("client")
    BY <2>2 DEF FilesInv
  <2> QED BY <2>1, <2>2
<1>3. Measured = Books(p) /\ Measured \in Nat
  BY <1>1, <1>2, BooksType DEF Measured, Books
<1>4. Confirmed = Measured + (IF PassEnded THEN 1 ELSE 0)
  <2>1. CASE MemoryOnly
    BY <2>1 DEF Confirmed, PassEnded
  <2>2. CASE ~MemoryOnly
    <3>1. Confirmed = ServerConfirmed
      BY <2>2 DEF Confirmed
    <3> QED BY <1>3, <2>2, <3>1, SameBooks
  <2> QED BY <2>1, <2>2
<1> QED BY <1>3, <1>4 DEF Ledger

\* The client returns from the last call of a pass, after its completion has
\* come, or from another call; there is nothing in between.
LEMMA ReturnsFromPass ==
  ASSUME AloneInv, ClientReturned
  PROVE  LET p == pos["client"] q == pos'["client"] IN
         /\ Books(q) = Books(p) + (IF HandsOver THEN 1 ELSE 0)
         /\ HandsOver => PassEnded
<1> DEFINE p == pos["client"]
           q == pos'["client"]
           t == Test("client")
           ends == /\ p.label \in (IF t \in {"read_lat", "write_lat"} THEN {"data"} ELSE {"done"})
                   /\ q.label # p.label \/ q.round # p.round
<1>1. /\ p \in Position /\ p.test \in 1..Len(Tests("client")) /\ p.test <= Len(Tests("client"))
      /\ PositionOK("client", p) /\ t = Tests("client")[p.test] /\ t \in AllTests
      /\ q = ClientAfter(p) /\ ~Exited("client")
      /\ p.label \in LabelsOf("client", t)
  BY ClientHere, HereAlone DEF ClientReturned, Node
<1>2. /\ Kept(p) \in Nat
      /\ p.label # "close" => q.test = p.test /\ Kept(q) = Kept(p) + (IF ends THEN 1 ELSE 0)
      /\ p.label = "close" => q = NextTest(p) /\ Kept(p) = Len(Sizes(t)) /\ ~ends
  <2>1. p.label # "close" /\ ends => p.round \in Nat
    BY <1>1 DEF Position
  <2> QED BY <1>1, <2>1, PassesKept
<1>3. Books(q) = Books(p) + (IF ends THEN 1 ELSE 0)
  <2>1. PassesBefore[p.test] \in Nat /\ PassesBefore[p.test + 1] = PassesBefore[p.test] + Len(Sizes(t))
    BY <1>1, PassesAdd
  <2>2. CASE p.label = "close"
    <3>1. Kept(q) = 0 /\ q.test = p.test + 1
      BY <1>2, <2>2 DEF NextTest, Kept
    <3> HIDE DEF p, q, ends
    <3> QED BY <1>2, <2>1, <2>2, <3>1 DEF Books
  <2>3. CASE p.label # "close"
    <3> HIDE DEF p, q, ends
    <3> QED BY <1>2, <2>1, <2>3 DEF Books
  <2> QED BY <2>2, <2>3
<1>4. MemoryOnly <=> t \in {"read_lat", "write_lat"}
  BY <1>1 DEF MemoryOnly
<1>5. CASE t \notin {"read_lat", "write_lat"}
  <2>1. p.label = "done" => q.label # "done"
    BY <1>1, <1>5 DEF ClientAfter, ClientPass, LeaveLoop, Goto
  <2>2. ends <=> p.label = "done"
    BY <1>5, <2>1
  <2>3. p.label = "done" => blocked["client"] /\ scq["client"] # <<>>
    <3>1. ~InReceive("client") \/ p.label # "done"
      BY DEF InReceive, WaitsForControl, SendsControl, ReceivesData, At
    <3> QED BY <3>1 DEF ClientReturned
  <2>4. HandsOver <=> p.label = "done"
    BY <1>1, <1>4, <1>5, <2>3 DEF HandsOver, At
  <2> QED BY <1>3, <2>2, <2>3, <2>4 DEF PassEnded
<1>6. CASE t \in {"read_lat", "write_lat"}
  <2>1. p.label # "done"
    BY <1>1, <1>6 DEF LabelsOf, TwoSided, OneSided
  <2>2. p.label = "data" => blocked["client"] /\ scq["client"] # <<>>
    <3>1. ~InReceive("client") \/ p.label # "data"
      BY <1>6 DEF InReceive, WaitsForControl, ReceivesData, At
    <3> QED BY <3>1 DEF ClientReturned
  <2>3. ends <=> p.label = "data" /\ ~ClientMore(t, Size("client"), p.off)
    <3>1. Size("client") = Sizes(t)[p.round]
      BY DEF Size
    <3>2. CASE p.label = "data" /\ ClientMore(t, Size("client"), p.off)
      BY <1>1, <3>1, <3>2 DEF ClientAfter, Step
    <3>3. CASE p.label = "data" /\ ~ClientMore(t, Size("client"), p.off)
      <4>1. q = ClientPass(t, p, p.round + 1)
        BY <1>1, <1>6, <3>1, <3>3 DEF ClientAfter
      <4>2. p.round + 1 # p.round
        BY <1>1 DEF Position
      <4> QED BY <1>6, <3>3, <4>1, <4>2 DEF ClientPass, LeaveLoop, Goto
    <3>4. CASE p.label # "data"
      BY <1>6, <3>4
    <3> QED BY <3>2, <3>3, <3>4
  <2>4. HandsOver <=> p.label = "data" /\ ~ClientMore(t, Size("client"), p.off)
    BY <1>1, <1>4, <1>6, <2>1, <2>2 DEF HandsOver, At
  <2> QED BY <1>3, <2>2, <2>3, <2>4 DEF PassEnded
<1> QED BY <1>5, <1>6

\* The end of a pass is only handed over while there is a pass left.
LEMMA PassLeft ==
  ASSUME AloneInv, At("client", {"done", "data"})
  PROVE  Books(pos["client"]) < PassesBefore[Len(Tests("client")) + 1]
<1> DEFINE p == pos["client"]
           t == Test("client")
           N == Len(Tests("client"))
<1>1. /\ p.test \in 1..N /\ PositionOK("client", p) /\ t = Tests("client")[p.test]
      /\ t \in AllTests /\ p.label \in {"done", "data"} /\ p.test <= N
  BY ClientHere DEF At
<1>2. p.round \in 1..Len(Sizes(t)) /\ Len(Sizes(t)) \in Nat /\ Kept(p) = p.round - 1
  BY <1>1, SizesType DEF PositionOK, Kept
<1>3. N \in Nat /\ p.test + 1 \in 1..(N + 1)
  BY <1>1, PassesAdd
<1>4. /\ PassesBefore[p.test + 1] = PassesBefore[p.test] + Len(Sizes(t))
      /\ PassesBefore[p.test] \in Nat
      /\ PassesBefore[p.test + 1] <= PassesBefore[N + 1]
      /\ PassesBefore[N + 1] \in Nat
  <2>1. p.test \in 1..(N + 1) /\ N + 1 \in 1..(N + 1)
    BY <1>1, <1>3
  <2> QED BY <1>1, <1>3, <2>1, PassesAdd
<1> HIDE DEF p, N
<1>5. PassesBefore[p.test] + Kept(p) < PassesBefore[N + 1]
  BY <1>2, <1>4
<1> QED BY <1>5 DEF Books, p, N

\* Every step is a step of the promise, or a stutter of it.
LEMMA PassStep ==
  ASSUME AloneInv, Ledger, Ledger', [Next]_vars
  PROVE  [Protocol!Next]_<<Sent, Confirmed, Measured>>
<1> DEFINE c == "client"
           one(b) == IF b THEN 1 ELSE 0
<1>1. /\ Measured \in Nat /\ Measured = Books(pos[c])
      /\ Sent = Measured + one(HandsOver) /\ Confirmed = Measured + one(PassEnded)
  BY DEF Ledger, Sent
<1>2. /\ Measured' \in Nat /\ Measured' = Books(pos'[c])
      /\ Sent' = Measured' + one(HandsOver') /\ Confirmed' = Measured' + one(PassEnded')
  BY DEF Ledger, Sent, Books, Kept
<1>3. CASE ClientReturned
  <2>1. Measured' = Measured + one(HandsOver) /\ (HandsOver => PassEnded)
    BY <1>1, <1>2, <1>3, ReturnsFromPass
  <2>2. ~HandsOver' /\ ~PassEnded'
    BY <1>3 DEF ClientReturned, HandsOver, PassEnded
  <2>3. PassEnded => HandsOver
    BY DEF PassEnded
  <2>4. CASE HandsOver
    <3>1. /\ Sent' = Sent /\ Confirmed' = Confirmed /\ Measured' = Measured + 1
          /\ Measured < Confirmed
      BY <1>1, <1>2, <2>1, <2>2, <2>4
    <3> QED BY <3>1 DEF Protocol!Next, Protocol!Measure
  <2>5. CASE ~HandsOver
    BY <1>1, <1>2, <2>1, <2>2, <2>3, <2>5
  <2> QED BY <2>4, <2>5
<1>4. ASSUME pos'[c] = pos[c]
      PROVE  /\ Measured' = Measured
             /\ blocked'[c] = blocked[c] => (HandsOver' <=> HandsOver)
             /\ HandsOver' => At(c, {"done", "data"})
  <2>1. /\ Test(c)' = Test(c) /\ (Exited(c)' <=> Exited(c)) /\ Size(c)' = Size(c)
        /\ (At(c, {"done"})' <=> At(c, {"done"})) /\ (At(c, {"data"})' <=> At(c, {"data"}))
    BY <1>4 DEF Test, Exited, Size, At
  <2>2. (MemoryOnly' <=> MemoryOnly)
        /\ (ClientMore(Test(c), Size(c), pos[c].off)' <=> ClientMore(Test(c), Size(c), pos[c].off))
    BY <1>4, <2>1 DEF MemoryOnly, ClientMore
  <2>3. Measured' = Measured
    BY <1>1, <1>2, <1>4
  <2>4. blocked'[c] = blocked[c] => (HandsOver' <=> HandsOver)
    BY <2>1, <2>2 DEF HandsOver
  <2>5. HandsOver' => At(c, {"done", "data"})
    BY <1>4, <2>1 DEF HandsOver, At
  <2> QED BY <2>3, <2>4, <2>5
<1>5. CASE ClientCalled
  <2>1. /\ pos'[c] = pos[c] /\ scq'[c] = <<>> /\ ~HandsOver /\ ~PassEnded /\ ~PassEnded'
    BY <1>5 DEF ClientCalled, AloneInv, CallAlone, Idle, Node, HandsOver, PassEnded
  <2>2. CASE HandsOver'
    <3>1. Measured < PassesBefore[Len(Tests("client")) + 1]
      BY <1>1, <1>4, <2>1, <2>2, PassLeft
    <3>2. Sent = Measured /\ Sent' = Sent + 1 /\ Confirmed' = Confirmed /\ Measured' = Measured
      BY <1>1, <1>2, <1>4, <2>1, <2>2
    <3> QED BY <3>1, <3>2 DEF Protocol!Next, Protocol!SendAll
  <2>3. CASE ~HandsOver'
    BY <1>1, <1>2, <1>4, <2>1, <2>3
  <2> QED BY <2>2, <2>3
<1>6. CASE ClientStayed
  <2>1. /\ pos'[c] = pos[c] /\ (HandsOver' <=> HandsOver) /\ Measured' = Measured
    BY <1>4, <1>6 DEF ClientStayed
  <2>2. Sent' = Sent
    BY <1>1, <1>2, <2>1
  <2>3. CASE PassEnded' /\ ~PassEnded
    <3>1. HandsOver
      BY <2>1, <2>3 DEF PassEnded
    <3>2. Confirmed' = Confirmed + 1 /\ Confirmed < Sent
      BY <1>1, <1>2, <2>1, <2>3, <3>1
    <3> QED BY <2>1, <2>2, <3>2 DEF Protocol!Next, Protocol!Confirm
  <2>4. CASE ~(PassEnded' /\ ~PassEnded)
    <3>1. PassEnded' <=> PassEnded
      BY <1>6, <2>1, <2>4 DEF ClientStayed, PassEnded
    <3> QED BY <1>1, <1>2, <2>1, <2>2, <3>1
  <2> QED BY <2>3, <2>4
<1> QED BY <1>3, <1>5, <1>6, ClientSteps

\* Two programs started alike keep the promise of PassProtocol: the client ends
\* a pass, the other side has been told of it, and only then is its time kept
\* as a result and the next pass begun.
THEOREM PassesMeasured ==
  ASSUME Matched
  PROVE  ResultsSpec => Promise
<1>1. ResultsSpec => []EmptyAtEnd
  <2>1. ResultsInit => EmptyAtEnd
    BY DEF ResultsInit, EmptyAtEnd
  <2>2. AloneInv /\ EmptyAtEnd /\ [ResultsNext]_resultsVars => EmptyAtEnd'
    <3>1. CASE UNCHANGED resultsVars
      BY <3>1 DEF resultsVars, vars, EmptyAtEnd, Exited
    <3> QED BY <3>1, EmptyAtEndStep DEF ResultsNext
  <2> QED BY <2>1, <2>2, FilesInvariance, PTL DEF ResultsSpec
<1>2. ResultsSpec => Spec
  <2>1. ResultsInit => Init
    BY DEF ResultsInit
  <2>2. [ResultsNext]_resultsVars => [Next]_vars
    BY DEF ResultsNext, resultsVars
  <2> QED BY <2>1, <2>2, PTL DEF ResultsSpec, Spec
<1>3. ResultsSpec => [](AloneInv /\ Ledger)
  BY <1>1, <1>2, LedgerKept, FilesInvariance, Invariance, PTL
<1>4. ResultsInit /\ Ledger => Protocol!Init
  <2> SUFFICES ASSUME ResultsInit, Ledger PROVE Protocol!Init
    OBVIOUS
  <2>1. Measured = 0
    <3>1. pos["client"].test = 1 /\ results = <<>>
      BY DEF ResultsInit, Init, Node
    <3> QED BY <3>1, PassesAdd DEF Measured
  <2>2. ~HandsOver /\ ~PassEnded
    BY DEF ResultsInit, Init, Node, HandsOver, PassEnded
  <2> QED BY <2>1, <2>2 DEF Ledger, Sent, Protocol!Init
<1>5. AloneInv /\ Ledger /\ Ledger' /\ [ResultsNext]_resultsVars
        => [Protocol!Next]_<<Sent, Confirmed, Measured>>
  <2>1. [ResultsNext]_resultsVars => [Next]_vars
    BY DEF ResultsNext, resultsVars
  <2> QED BY <2>1, PassStep
<1> QED BY <1>3, <1>4, <1>5, PTL DEF ResultsSpec, Promise, Protocol!Spec
=============================================================================
