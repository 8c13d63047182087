----------------------------- MODULE RdmaProofs -----------------------------
(***************************************************************************)
(* What RdmaBench and RdmaResults are proved by: the two programs' control *)
(* flow, the inductive invariant of two programs started alike (IInv), and *)
(* that of a program whatever the other one does (AloneInv). The properties*)
(* of two programs started alike are in RdmaSafetyProofs, those of any two *)
(* programs in RdmaPairsProofs.                                            *)
(***************************************************************************)
EXTENDS RdmaLockstep, RdmaResults, ChunkLoopProofs, SequenceTheorems

-----------------------------------------------------------------------------
(* The control flow of the two programs, without their state: both make    *)
(* only legal moves, and from one meeting both head for the same next      *)
(* meeting. This is where the different code of the client and the server  *)
(* of a test is compared.                                                  *)

\* The six tests there are.
AllTests == {"read_tp", "write_tp", "two_tp", "read_lat", "write_lat", "two_lat"}

\* A program runs a finite list of known tests.
LEMMA TestsType ==
  ASSUME NEW n \in Node
  PROVE  /\ Len(Tests(n)) \in Nat
         /\ \A k \in 1..Len(Tests(n)) : Tests(n)[k] \in AllTests
<1>1. CASE Metric[n] = "throughput"
  BY <1>1 DEF Tests, Throughput, AllTests
<1>2. CASE Metric[n] = "latency"
  BY <1>2 DEF Tests, Latency, AllTests
<1>3. CASE Metric[n] = "all"
  BY <1>3 DEF Tests, Throughput, Latency, AllTests
<1> QED BY <1>1, <1>2, <1>3, ConstantsAssumption DEF Metrics

\* Two programs started with the same metric run the same tests in the same
\* order: the switches of the two mains agree.
LEMMA SameTests ==
  ASSUME Matched
  PROVE  Tests("client") = Tests("server")
  BY DEF Matched, Tests

\* The loop over the buffer sizes meets positive sizes only.
LEMMA SizesType ==
  ASSUME NEW t \in AllTests
  PROVE  /\ Len(Sizes(t)) \in Nat
         /\ \A r \in 1..Len(Sizes(t)) : Sizes(t)[r] \in PosNat
  BY ConstantsAssumption DEF Sizes

\* The inner loops of the two sides of a two-sided test, which are written
\* differently, take another step at the same values of their loop variable.
LEMMA SameLoops ==
  ASSUME Matched, NEW t \in TwoSided, NEW r \in 1..Len(Sizes(t)),
         NEW p, StepOK("client", t, Sizes(t)[r], p), p.off \in Nat
  PROVE  ClientMore(t, Sizes(t)[r], p.off) <=> ServerMore(t, Sizes(t)[r], p.off)
<1>1. CASE t = "two_tp"
  <2> DEFINE b == Sizes(t)[r]
             d == DataSize["client"]
  <2>1. /\ d \in Nat /\ d = DataSize["server"]
        /\ b \in Nat /\ b > 0 /\ d % b # 0
        /\ b = BufferSizes[r]
    BY <1>1, ConstantsAssumption DEF Matched, Sizes, LatencyTests, Node, PosNat
  <2>2. p.off % b = 0 /\ p.off <= LastIndex(d, b)
    BY <1>1 DEF StepOK, LatencyTests
  <2>3. MoreToMove(d, b, p.off) <=> MoreToReceive(d, b, p.off)
    BY <2>1, <2>2, SameNumberOfSteps
  <2> QED BY <1>1, <2>1, <2>3 DEF ClientMore, ServerMore, LatencyTests
<1>2. CASE t = "two_lat"
  BY <1>2 DEF ClientMore, ServerMore, LatencyTests
<1> QED BY <1>1, <1>2 DEF TwoSided

\* The points at which the two programs meet, as the tests place them.
MeetingPos(p) ==
  LET t == Tests("client")[p.test] IN
  /\ p.label \in (IF t \in TwoSided THEN {"ready", "data", "done"} ELSE {"fin"})
                 \cup (IF t \in {"read_tp", "write_tp"} THEN {"ready", "done"} ELSE {})
                 \cup {"open"}
  /\ p.label = "data" => /\ p.round \in 1..Len(Sizes(t))
                         /\ StepOK("client", t, Sizes(t)[p.round], p)

\* From the same meeting both programs head for the same next one, although
\* the client and the server functions of a test are different code.
LEMMA NextMeetingsAgree ==
  ASSUME Matched, NEW p \in Position, p.test \in 1..Len(Tests("client")), MeetingPos(p)
  PROVE  ClientMeeting(ClientAfter(p)) = ServerMeeting(ServerAfter(p))
<1> DEFINE t == Tests("client")[p.test]
           b == Sizes(t)[p.round]
<1>1. t \in AllTests /\ t = Tests("server")[p.test]
  BY TestsType, SameTests DEF Node
<1> HIDE DEF t
<1>2. CASE p.label = "open"
  BY <1>1, <1>2 DEF ClientMeeting, ServerMeeting, ClientAfter, ServerAfter, ClientPass, ServerPass,
     Goto, LeaveLoop, NextTest, Step, Position, AllTests, TwoSided, t
<1>3. CASE p.label = "fin"
  BY <1>1, <1>3 DEF ClientMeeting, ServerMeeting, ClientAfter, ServerAfter, ClientPass, ServerPass,
     Goto, LeaveLoop, NextTest, Step, Position, AllTests, TwoSided, t
<1>4. CASE p.label = "ready"
  BY <1>1, <1>4 DEF MeetingPos, ClientMeeting, ServerMeeting, ClientAfter, ServerAfter, ClientPass, ServerPass,
     Goto, LeaveLoop, NextTest, Step, Position, AllTests, TwoSided, t
<1>5. CASE p.label = "done"
  BY <1>1, <1>5 DEF MeetingPos, ClientMeeting, ServerMeeting, ClientAfter, ServerAfter, ClientPass, ServerPass,
     Goto, LeaveLoop, NextTest, Step, Position, AllTests, TwoSided, t
<1>6. CASE p.label = "data"
  <2>1. t \in TwoSided /\ p.round \in 1..Len(Sizes(t)) /\ StepOK("client", t, b, p)
    BY <1>1, <1>6 DEF MeetingPos, t, TwoSided, AllTests
  <2>2. ClientMore(t, b, p.off) <=> ServerMore(t, b, p.off)
    BY <2>1, SameLoops DEF Position
  <2> QED
   BY <1>1, <1>6, <2>1, <2>2 DEF LatencyTests, ClientMeeting, ServerMeeting, ClientAfter, ServerAfter, ClientPass, ServerPass,
     Goto, LeaveLoop, NextTest, Step, Position, AllTests, TwoSided, t
<1> QED BY <1>2, <1>3, <1>4, <1>5, <1>6 DEF MeetingPos, Position, Labels

\* A receive loop that has another step has not reached the rest.
LEMMA ReceivingInside ==
  ASSUME NEW d \in Nat, NEW b \in Nat, b > 0, NEW o \in Nat, o + b < d
  PROVE  o < LastIndex(d, b)
<1>1. LastIndex(d, b) \in Nat /\ d < LastIndex(d, b) + b
  BY LastIndexFacts
<1> QED BY <1>1

\* The places of a test are places of a program.
LEMMA LabelsOfType ==
  ASSUME NEW n \in Node, NEW t \in AllTests
  PROVE  LabelsOf(n, t) \subseteq Labels
  BY DEF LabelsOf, Labels

\* A jump to a place of the running test ends at a position the program can
\* be at, with a fresh inner loop.
LEMMA GotoOK ==
  ASSUME NEW n \in Node, NEW p \in Position, p.test <= Len(Tests(n)),
         NEW label \in LabelsOf(n, Tests(n)[p.test]), NEW round \in Nat,
         IF label \in {"open", "fin", "close"} THEN round = 0
           ELSE round \in 1..Len(Sizes(Tests(n)[p.test]))
  PROVE  Goto(p, label, round) \in Position /\ PositionOK(n, Goto(p, label, round))
<1> DEFINE t == Tests(n)[p.test]
           b == Sizes(t)[round]
           d == DataSize[n]
           q == Goto(p, label, round)
<1>1. /\ p.test \in 1..Len(Tests(n)) /\ Len(Tests(n)) \in Nat
      /\ t \in AllTests
  BY TestsType, ConstantsAssumption DEF Node, Position, PosNat
<1>2. q.test = p.test /\ q.label = label /\ q.round = round /\ q.off = 0
  BY DEF Goto
<1>3. q \in Position
  BY <1>1, LabelsOfType DEF Goto, Position
<1>4. ASSUME label = "data"
      PROVE  StepOK(n, t, b, q)
  <2>1. /\ b \in Nat /\ b > 0
        /\ NumLoops > 0
        /\ d \in Nat
    BY <1>1, <1>4, SizesType, ConstantsAssumption DEF PosNat, Node
  <2>2. 0 % b = 0 /\ 0 <= LastIndex(d, b)
    <3>1. 0 % b = 0
      BY <2>1
    <3>2. LastIndex(d, b) \in Nat
      <4> HIDE DEF d, b
      <4> QED BY <2>1, LastIndexFacts
    <3> QED BY <3>1, <3>2
  <2> QED BY <1>2, <2>1, <2>2 DEF StepOK
<1>5. PositionOK(n, q)
  BY <1>1, <1>2, <1>4 DEF PositionOK
<1> QED BY <1>3, <1>5

\* So does the end of a test.
LEMMA NextTestOK ==
  ASSUME NEW n \in Node, NEW p \in Position, p.test <= Len(Tests(n))
  PROVE  NextTest(p) \in Position /\ PositionOK(n, NextTest(p))
<1> DEFINE q == NextTest(p)
<1>1. /\ p.test \in Nat /\ p.test > 0 /\ Len(Tests(n)) \in Nat
      /\ q.test = p.test + 1 /\ q.label = "open" /\ q.round = 0 /\ q.off = 0
  BY TestsType DEF NextTest, Position, PosNat
<1>2. q \in Position
  BY <1>1 DEF NextTest, Position, PosNat, Labels
<1>3. PositionOK(n, q)
  BY <1>1 DEF PositionOK, LabelsOf
<1> QED BY <1>2, <1>3

\* The client goes from one position it can be at to another: the loop over
\* the sizes stays in its range and the inner loop stays on multiples of the
\* buffer size.
LEMMA ClientAfterOK ==
  ASSUME NEW p \in Position, p.test <= Len(Tests("client")), PositionOK("client", p)
  PROVE  ClientAfter(p) \in Position /\ PositionOK("client", ClientAfter(p))
<1> DEFINE t == Tests("client")[p.test]
           b == Sizes(t)[p.round]
           d == DataSize["client"]
<1>1. /\ p.test \in 1..Len(Tests("client")) /\ Len(Tests("client")) \in Nat
      /\ t \in AllTests
      /\ d \in Nat /\ d > 0
      /\ Len(Sizes(t)) \in Nat
  BY TestsType, SizesType, ConstantsAssumption DEF Node, Position, PosNat
<1>2. /\ p.label \in LabelsOf("client", t)
      /\ IF p.label \in {"open", "fin", "close"} THEN p.round = 0
          ELSE p.round \in 1..Len(Sizes(t))
      /\ IF p.label = "data" THEN StepOK("client", t, b, p) ELSE p.off = 0
  BY <1>1 DEF PositionOK
<1> HIDE DEF t
<1>3. \A r \in Nat \ {0} : /\ ClientPass(t, p, r) \in Position
                           /\ PositionOK("client", ClientPass(t, p, r))
  BY <1>1, GotoOK DEF ClientPass, LeaveLoop, LabelsOf, TwoSided, OneSided, AllTests, t, Node
<1>4. CASE p.label \in {"open", "fill"}
  BY <1>1, <1>2, <1>3, <1>4 DEF ClientAfter, Position, t
<1>5. CASE p.label \in {"fin", "close"}
  BY <1>1, <1>5, GotoOK, NextTestOK DEF ClientAfter, LabelsOf, t, Node
<1>6. CASE p.label = "ready"
  BY <1>1, <1>2, <1>6, GotoOK DEF ClientAfter, Position, LabelsOf, TwoSided, OneSided, t, Node
<1>7. CASE p.label = "done"
  <2>1. CASE t = "write_tp"
    <3>1. ClientAfter(p) = Goto(p, "fill", p.round)
      BY <1>7, <2>1 DEF ClientAfter, t
    <3> QED BY <1>1, <1>2, <1>7, <2>1, <3>1, GotoOK DEF Position, LabelsOf, t, Node
  <2>2. CASE t # "write_tp"
    <3>1. ClientAfter(p) = ClientPass(t, p, p.round + 1)
      BY <1>7, <2>2 DEF ClientAfter, t
    <3> QED BY <1>3, <3>1 DEF Position
  <2> QED BY <2>1, <2>2
<1>8. CASE p.label = "data"
  <2> DEFINE o == IF t \in LatencyTests THEN 1 ELSE b
             q == Step(p, p.off + o)
  <2>1. /\ p.round \in 1..Len(Sizes(t)) /\ StepOK("client", t, b, p)
        /\ p.off \in Nat
    BY <1>2, <1>8 DEF Position
  <2>2. b \in Nat /\ b > 0
    BY <1>1, <2>1, SizesType DEF PosNat
  <2>3. ASSUME ClientMore(t, b, p.off)
        PROVE  StepOK("client", t, b, q) /\ q \in Position
    <3>1. CASE t \in LatencyTests
      <4>1. p.off + 1 < NumLoops
        BY <2>3, <3>1 DEF ClientMore, LatencyTests
      <4>2. q = Step(p, p.off + 1)
        BY <3>1
      <4> QED BY <2>1, <3>1, <4>1, <4>2 DEF StepOK, Step, Position
    <3>2. CASE t \notin LatencyTests
      <4>1. p.off % b = 0 /\ p.off <= LastIndex(d, b)
        BY <2>1, <3>2 DEF StepOK
      <4>2. p.off < LastIndex(d, b)
        <5>1. CASE t = "two_tp"
          <6>1. p.off + b < d
            BY <2>3, <5>1 DEF ClientMore, MoreToReceive, LatencyTests
          <6> QED BY <1>1, <2>1, <2>2, <6>1, ReceivingInside
        <5>2. CASE t # "two_tp"
          BY <1>1, <2>3, <3>2, <5>2 DEF ClientMore, MoreToMove, AllTests, LatencyTests
        <5> QED BY <5>1, <5>2
      <4>3. (p.off + b) % b = 0 /\ p.off + b <= LastIndex(d, b)
        BY <1>1, <2>1, <2>2, <4>1, <4>2, StepAligned, NextStepFits
      <4> QED BY <2>1, <2>2, <3>2, <4>3 DEF StepOK, Step, Position
    <3> QED BY <3>1, <3>2
  <2>4. CASE ClientMore(t, b, p.off)
    <3>1. ClientAfter(p) = q
      BY <1>8, <2>4 DEF ClientAfter, t
    <3>2. PositionOK("client", q)
      BY <1>1, <1>2, <1>8, <2>1, <2>3, <2>4 DEF PositionOK, Step, t
    <3> QED BY <2>3, <2>4, <3>1, <3>2
  <2>5. CASE ~ClientMore(t, b, p.off) /\ t \in {"read_lat", "write_lat"}
    BY <1>3, <1>8, <2>1, <2>5 DEF ClientAfter, t
  <2>6. CASE ~ClientMore(t, b, p.off) /\ t \notin {"read_lat", "write_lat"}
    <3>1. ClientAfter(p) = Goto(p, "done", p.round)
      BY <1>8, <2>6 DEF ClientAfter, t
    <3>2. "done" \in LabelsOf("client", t)
      BY <1>1, <2>6 DEF LabelsOf, TwoSided, AllTests
    <3> QED BY <1>1, <2>1, <3>1, <3>2, GotoOK DEF t, Node
  <2> QED BY <2>4, <2>5, <2>6
<1> QED BY <1>2, <1>4, <1>5, <1>6, <1>7, <1>8 DEF Position, Labels

\* The same for the server.
LEMMA ServerAfterOK ==
  ASSUME NEW p \in Position, p.test <= Len(Tests("server")), PositionOK("server", p)
  PROVE  ServerAfter(p) \in Position /\ PositionOK("server", ServerAfter(p))
<1> DEFINE t == Tests("server")[p.test]
           b == Sizes(t)[p.round]
           d == DataSize["server"]
<1>1. /\ p.test \in 1..Len(Tests("server")) /\ Len(Tests("server")) \in Nat
      /\ t \in AllTests
      /\ d \in Nat /\ d > 0
      /\ Len(Sizes(t)) \in Nat
  BY TestsType, SizesType, ConstantsAssumption DEF Node, Position, PosNat
<1>2. /\ p.label \in LabelsOf("server", t)
      /\ IF p.label \in {"open", "fin", "close"} THEN p.round = 0
          ELSE p.round \in 1..Len(Sizes(t))
      /\ IF p.label = "data" THEN StepOK("server", t, b, p) ELSE p.off = 0
  BY <1>1 DEF PositionOK
<1> HIDE DEF t
<1>3. \A r \in Nat \ {0} : /\ ServerPass(t, p, r) \in Position
                           /\ PositionOK("server", ServerPass(t, p, r))
  BY <1>1, GotoOK DEF ServerPass, LeaveLoop, LabelsOf, TwoSided, OneSided, AllTests, t, Node
<1>4. CASE p.label \in {"open", "done"}
  BY <1>1, <1>2, <1>3, <1>4 DEF ServerAfter, Position, t
<1>5. CASE p.label \in {"fin", "close"}
  BY <1>1, <1>5, GotoOK, NextTestOK DEF ServerAfter, LabelsOf, t, Node
<1>6. CASE p.label = "fill"
  <2>1. ServerAfter(p) = Goto(p, "ready", p.round)
    BY <1>6 DEF ServerAfter, t
  <2>2. "ready" \in LabelsOf("server", t)
    BY <1>1, <1>2, <1>6 DEF LabelsOf, AllTests, TwoSided
  <2> QED BY <1>1, <1>2, <1>6, <2>1, <2>2, GotoOK DEF t, Position, Node
<1>7. CASE p.label = "ready"
  BY <1>1, <1>2, <1>7, GotoOK DEF ServerAfter, Position, LabelsOf, TwoSided, OneSided, t, Node
<1>8. CASE p.label = "data"
  <2> DEFINE o == IF t = "two_tp" THEN b ELSE 1
             q == Step(p, p.off + o)
  <2>1. /\ p.round \in 1..Len(Sizes(t)) /\ StepOK("server", t, b, p)
        /\ p.off \in Nat /\ t \in TwoSided
    BY <1>1, <1>2, <1>8 DEF Position, LabelsOf, AllTests, TwoSided
  <2>2. b \in Nat /\ b > 0
    BY <1>1, <2>1, SizesType DEF PosNat
  <2>3. ASSUME ServerMore(t, b, p.off)
        PROVE  StepOK("server", t, b, q) /\ q \in Position
    <3>1. CASE t = "two_lat"
      <4>1. p.off + 1 < NumLoops
        BY <2>3, <3>1 DEF ServerMore
      <4>2. q = Step(p, p.off + 1)
        BY <3>1
      <4> QED BY <2>1, <3>1, <4>1, <4>2 DEF StepOK, Step, Position, LatencyTests
    <3>2. CASE t = "two_tp"
      <4>1. p.off % b = 0 /\ p.off < LastIndex(d, b)
        BY <1>1, <2>1, <2>3, <3>2 DEF StepOK, ServerMore, MoreToMove, LatencyTests
      <4>2. (p.off + b) % b = 0 /\ p.off + b <= LastIndex(d, b)
        BY <1>1, <2>1, <2>2, <4>1, StepAligned, NextStepFits
      <4> QED BY <1>1, <2>1, <2>2, <3>2, <4>2 DEF StepOK, Step, Position, LatencyTests
    <3> QED BY <2>1, <3>1, <3>2 DEF TwoSided
  <2>4. CASE ServerMore(t, b, p.off)
    <3>1. ServerAfter(p) = q
      BY <1>8, <2>4 DEF ServerAfter, t
    <3>2. PositionOK("server", q)
      BY <1>1, <1>2, <1>8, <2>1, <2>3, <2>4 DEF PositionOK, Step, t
    <3> QED BY <2>3, <2>4, <3>1, <3>2
  <2>5. CASE ~ServerMore(t, b, p.off)
    <3>1. ServerAfter(p) = Goto(p, "done", p.round)
      BY <1>8, <2>5 DEF ServerAfter, t
    <3>2. "done" \in LabelsOf("server", t)
      BY <2>1 DEF LabelsOf
    <3> QED BY <1>1, <2>1, <3>1, <3>2, GotoOK DEF t, Node
  <2> QED BY <2>4, <2>5
<1> QED BY <1>2, <1>4, <1>5, <1>6, <1>7, <1>8 DEF LabelsOf

\* Between two meetings the client heads for the same meeting all the time:
\* while it moves data and while it refills its buffer.
LEMMA ClientAlone ==
  ASSUME NEW p \in Position, p.test \in 1..Len(Tests("client")),
         PositionOK("client", p),
         \/ p.label \in {"fill", "close"}
         \/ p.label = "data" /\ Tests("client")[p.test] \in OneSided
  PROVE  ClientMeeting(ClientAfter(p)) = ClientMeeting(p)
<1> DEFINE t == Tests("client")[p.test]
           b == Sizes(t)[p.round]
<1>1. t \in AllTests /\ Len(Tests("client")) \in Nat
  BY TestsType DEF Node
<1>2. p.label \in LabelsOf("client", t)
  BY <1>1 DEF PositionOK, Position, PosNat
<1> HIDE DEF t
<1>3. CASE p.label = "fill"
  <2>1. t = "write_tp"
    BY <1>1, <1>2, <1>3 DEF LabelsOf
  <2> QED BY <1>3, <2>1 DEF ClientMeeting, ClientAfter, ClientPass, Goto, LeaveLoop, TwoSided, t
<1>4. CASE p.label = "close"
  BY <1>4 DEF ClientMeeting, ClientAfter, NextTest, t
<1>5. CASE p.label = "data" /\ t \in {"read_tp", "write_tp"}
  BY <1>5 DEF ClientMeeting, ClientAfter, Step, Goto, LatencyTests, t
<1>6. CASE p.label = "data" /\ t \in {"read_lat", "write_lat"}
  BY <1>6 DEF ClientMeeting, ClientAfter, ClientPass, Step, Goto, LeaveLoop, LatencyTests, TwoSided, t
<1> QED BY <1>3, <1>4, <1>5, <1>6 DEF OneSided, t

\* The same for the server, which refills, clears or tears down.
LEMMA ServerAlone ==
  ASSUME NEW p \in Position, p.label \in {"fill", "close"}
  PROVE  ServerMeeting(ServerAfter(p)) = ServerMeeting(p)
  BY DEF ServerMeeting, ServerAfter, Goto, NextTest

\* Only the end of a test leads into another test, and nothing leads back to
\* its connection.
LEMMA AfterStays ==
  ASSUME NEW n \in Node, NEW p \in Position, p.test <= Len(Tests(n)),
         PositionOK(n, p), p.label # "close"
  PROVE  LET q == IF n = "client" THEN ClientAfter(p) ELSE ServerAfter(p) IN
         q.test = p.test /\ q.label # "open"
<1>1. p.test \in 1..Len(Tests(n)) /\ p.label \in LabelsOf(n, Tests(n)[p.test])
  BY TestsType DEF Position, PosNat, PositionOK
<1>2. CASE n = "client"
  BY <1>1, <1>2 DEF ClientAfter, ClientPass, Goto, Step, LeaveLoop, Labels, Position
<1>3. CASE n = "server"
  BY <1>1, <1>3 DEF ServerAfter, ServerPass, Goto, Step, LeaveLoop, Labels, Position, LabelsOf
<1> QED BY <1>2, <1>3 DEF Node

\* A meeting other than a connection belongs to the test the program is in.
LEMMA MeetingStays ==
  ASSUME NEW p \in Position, NEW n \in Node,
         p.test <= Len(Tests(n)), PositionOK(n, p)
  PROVE  LET q == IF n = "client" THEN ClientMeeting(p) ELSE ServerMeeting(p)
         IN q.label # "open" => q.test = p.test /\ p.label \notin {"open", "close"}
<1>1. CASE n = "client"
  BY <1>1 DEF ClientMeeting, ClientPass, Goto, LeaveLoop, NextTest
<1>2. CASE n = "server"
  BY <1>2 DEF ServerMeeting, Goto, NextTest
<1> QED BY <1>1, <1>2 DEF Node

\* So does the one after the meeting a program is at.
LEMMA NextMeetingStays ==
  ASSUME NEW p \in Position, NEW n \in Node,
         p.test <= Len(Tests(n)), PositionOK(n, p), p.label # "close"
  PROVE  LET q == IF n = "client" THEN ClientMeeting(ClientAfter(p)) ELSE ServerMeeting(ServerAfter(p))
         IN q.label # "open" => q.test = p.test
<1> DEFINE r == IF n = "client" THEN ClientAfter(p) ELSE ServerAfter(p)
<1>1. r.test = p.test /\ r.label # "open"
  BY AfterStays
<1>2. r \in Position /\ PositionOK(n, r)
  BY ClientAfterOK, ServerAfterOK DEF Node
<1>3. r.test <= Len(Tests(n))
  BY <1>1
<1> HIDE DEF r
<1>4. (IF n = "client" THEN ClientMeeting(r) ELSE ServerMeeting(r)).label # "open"
       => (IF n = "client" THEN ClientMeeting(r) ELSE ServerMeeting(r)).test = p.test
  BY <1>1, <1>2, <1>3, MeetingStays
<1> QED BY <1>4 DEF r

\* A server that is at, or one message away from, the end of a one-sided pass
\* stands inside this very pass, past the refill of its region.
LEMMA ServerBeforeDone ==
  ASSUME NEW p \in Position, p.test <= Len(Tests("server")), PositionOK("server", p),
         NEW q \in Position, q.label = "done",
         Tests("server")[q.test] \in {"read_tp", "write_tp"},
         \/ q = ServerMeeting(p)
         \/ q = ServerMeeting(ServerAfter(p)) /\ p.label # "close"
  PROVE  /\ p.label \in {"ready", "done"}
         /\ p.test = q.test
         /\ p.round = q.round
<1> DEFINE t == Tests("server")[p.test]
<1>1. p.label \in LabelsOf("server", t)
  BY TestsType DEF PositionOK, Position, PosNat
<1>2. CASE q = ServerMeeting(p)
  BY <1>2 DEF ServerMeeting, Goto, NextTest
<1>3. CASE q = ServerMeeting(ServerAfter(p)) /\ p.label # "close"
  <2>1. q.test = p.test
    BY <1>3, NextMeetingStays DEF Node
  <2>2. t \in {"read_tp", "write_tp"}
    BY <2>1
  <2>3. p.label \in {"open", "fill", "ready", "done", "fin"}
    BY <1>1, <2>2, <1>3 DEF LabelsOf, TwoSided
  <2> HIDE DEF t
  <2> QED BY <1>3, <2>1, <2>2, <2>3 DEF ServerMeeting, ServerAfter, ServerPass, Goto, LeaveLoop, NextTest, TwoSided, t
<1> QED BY <1>2, <1>3

\* The tests in which the contents of the region matter.
OneSidedTp == {"read_tp", "write_tp"}

\* In a one-sided throughput test the client reaches the data loop from the
\* start of the pass and leaves it from the piece at last_index.
LEMMA ClientBefore ==
  ASSUME NEW p \in Position, p.test \in 1..Len(Tests("client")), PositionOK("client", p),
         NEW q \in Position, q = ClientAfter(p), q.label \in {"data", "done"},
         Tests("client")[q.test] \in OneSidedTp
  PROVE  \/ p.label = "ready" /\ q.label = "data" /\ q.off = 0
         \/ /\ p.label = "data" /\ q.test = p.test /\ q.round = p.round
            /\ LET b == Sizes(Tests("client")[p.test])[p.round] IN
               IF p.off < LastIndex(DataSize["client"], b)
               THEN q.label = "data" /\ q.off = p.off + b
               ELSE q.label = "done"
<1> DEFINE t == Tests("client")[p.test]
<1>1. t \in AllTests /\ Len(Tests("client")) \in Nat
  BY TestsType DEF Node
<1>2. p.label \in LabelsOf("client", t)
  BY <1>1 DEF PositionOK, Position, PosNat
<1>3. p.label # "close"
  BY DEF ClientAfter, NextTest
<1>4. q.test = p.test
  BY <1>3, AfterStays DEF Node
<1>5. t \in OneSidedTp
  BY <1>4
<1> HIDE DEF t
<1>6. p.label \in {"open", "ready", "data", "done", "fill", "fin"}
  BY <1>2, <1>3, <1>5 DEF LabelsOf, OneSidedTp, TwoSided
<1>7. CASE p.label \in {"open", "done", "fill", "fin"}
  BY <1>5, <1>7 DEF ClientAfter, ClientPass, Goto, LeaveLoop, TwoSided, OneSidedTp, t
<1>8. CASE p.label = "ready"
  BY <1>8 DEF ClientAfter, Goto, t
<1>9. CASE p.label = "data"
  BY <1>4, <1>5, <1>9 DEF ClientAfter, Goto, Step, ClientMore, MoreToMove, OneSidedTp, LatencyTests, t
<1> QED BY <1>6, <1>7, <1>8, <1>9

-----------------------------------------------------------------------------
(* The inductive invariant of RdmaLockstep: Init implies it and every      *)
(* action preserves it, one lemma per action. All of it is proved under    *)
(* Matched: the two command lines agree and the data size is no multiple   *)
(* of a buffer size.                                                       *)

\* What a program is doing depends on where it stands.
LEMMA Where ==
  ASSUME NEW k \in Node, pos'[k] = pos[k]
  PROVE  /\ InSend(k)' <=> InSend(k)
         /\ InReceive(k)' <=> InReceive(k)
         /\ InOneSided(k)' <=> InOneSided(k)
         /\ InOpen(k)' <=> InOpen(k)
         /\ PostedBy(k)' = PostedBy(k)
         /\ BufferOf(k)' = BufferOf(k) /\ CallLen(k)' = CallLen(k)
         /\ Meeting(k)' = Meeting(k)
         /\ NextMeeting(k)' = NextMeeting(k)
<1>1. Test(k)' = Test(k) /\ Size(k)' = Size(k) /\ (Exited(k)' <=> Exited(k))
  BY DEF Test, Size, Exited
<1>2. ASSUME NEW S PROVE At(k, S)' <=> At(k, S)
  BY <1>1 DEF At
<1>3. /\ SendsControl(k)' <=> SendsControl(k)
      /\ WaitsForControl(k)' <=> WaitsForControl(k)
      /\ SendsData(k)' <=> SendsData(k)
      /\ ReceivesData(k)' <=> ReceivesData(k)
  BY <1>1, <1>2 DEF SendsControl, WaitsForControl, SendsData, ReceivesData
<1>4. /\ InSend(k)' <=> InSend(k)
      /\ InReceive(k)' <=> InReceive(k)
      /\ InOneSided(k)' <=> InOneSided(k)
      /\ InOpen(k)' <=> InOpen(k)
  BY <1>1, <1>2, <1>3 DEF InSend, InReceive, InOneSided, InOpen
<1>5. Meeting(k)' = Meeting(k) /\ NextMeeting(k)' = NextMeeting(k)
  BY DEF Meeting, NextMeeting
<1>6. BufferOf(k)' = BufferOf(k) /\ CallLen(k)' = CallLen(k)
  BY <1>1, <1>2 DEF BufferOf, CallLen
<1>7. PostedBy(k)' = PostedBy(k)
  BY <1>1, <1>4, <1>6 DEF PostedBy
<1> QED BY <1>4, <1>5, <1>6, <1>7

\* A step that touches neither the place nor the queues of a program leaves
\* its call in order.
LEMMA Frame ==
  ASSUME NEW m \in Node, pos'[m] = pos[m], blocked'[m] = blocked[m],
         sq'[m] = sq[m], scq'[m] = scq[m], srq'[m] = srq[m], rcq'[m] = rcq[m]
  PROVE  CallOK(m)' <=> CallOK(m)
  BY Where DEF CallOK, Idle

\* A call sends, receives, accesses remote memory or connects, and never two
\* of these; each kind has its places.
LEMMA Kinds ==
  ASSUME NEW n \in Node
  PROVE  /\ InSend(n) \/ InReceive(n) =>
              /\ ~Exited(n)
              /\ pos[n].label \in {"ready", "data", "done", "fin"}
              /\ pos[n].label = "data" => Test(n) \in TwoSided
         /\ ~(InSend(n) /\ InReceive(n))
         /\ InOneSided(n) => n = "client" /\ ~Exited(n) /\ pos[n].label = "data" /\ Test(n) \in OneSided
         /\ InOpen(n)     => n = "client" /\ ~Exited(n) /\ pos[n].label = "open"
  BY DEF InSend, InReceive, InOneSided, InOpen, At, SendsControl, WaitsForControl,
         SendsData, ReceivesData, TwoSided, Node

\* A running program stands in one of the tests both programs have, at a
\* place of that test.
LEMMA Here ==
  ASSUME Matched, IInv, NEW n \in Node
  PROVE  /\ pos[n] \in Position
         /\ PositionOK(n, pos[n])
         /\ ~Exited(n) => /\ pos[n].test \in 1..Len(Tests("client"))
                          /\ pos[n].test <= Len(Tests(n))
                          /\ Test(n) \in AllTests
                          /\ Test(n) = Tests("client")[pos[n].test]
                          /\ pos[n].label \in LabelsOf(n, Test(n))
<1>1. pos[n] \in Position /\ PositionOK(n, pos[n])
  BY DEF IInv, Inv, TypeOK
<1>2. Tests(n) = Tests("client") /\ Len(Tests(n)) \in Nat
  BY SameTests, TestsType DEF Node
<1>3. ASSUME ~Exited(n)
      PROVE  /\ pos[n].test \in 1..Len(Tests(n))
             /\ Test(n) \in AllTests
             /\ pos[n].label \in LabelsOf(n, Test(n))
  BY <1>1, <1>2, <1>3, TestsType DEF Exited, Test, Position, PosNat, PositionOK
<1> QED BY <1>1, <1>2, <1>3 DEF Test

\* A program in a blocking exchange is at the meeting it heads for.
LEMMA AtMeeting ==
  ASSUME Matched, IInv, NEW n \in Node,
         \/ InSend(n) \/ InReceive(n)
         \/ ~Exited(n) /\ pos[n].label = "open"
  PROVE  /\ Meeting(n) = pos[n]
         /\ MeetingPos(pos[n])
         /\ pos[n] \in Position
         /\ pos[n].test \in 1..Len(Tests("client"))
<1>1. /\ ~Exited(n)
      /\ pos[n].label \in {"open", "ready", "data", "done", "fin"}
      /\ pos[n].label = "data" => Test(n) \in TwoSided
  BY Kinds
<1>2. /\ pos[n] \in Position
      /\ PositionOK(n, pos[n])
      /\ pos[n].test \in 1..Len(Tests("client"))
      /\ pos[n].test <= Len(Tests(n))
      /\ Test(n) \in AllTests
      /\ Test(n) = Tests("client")[pos[n].test]
      /\ Test(n) = Tests(n)[pos[n].test]
      /\ pos[n].label \in LabelsOf(n, Test(n))
  BY <1>1, Here DEF Test
<1>3. Meeting(n) = pos[n]
  BY <1>1, <1>2 DEF Meeting, ClientMeeting, ServerMeeting, TwoSided
<1>4. MeetingPos(pos[n])
  <2>1. pos[n].label = "data" => /\ pos[n].round \in 1..Len(Sizes(Test(n)))
                                 /\ StepOK(n, Test(n), Sizes(Test(n))[pos[n].round], pos[n])
    BY <1>2, TestsType DEF PositionOK, Position
  <2>2. \A t, b : StepOK(n, t, b, pos[n]) <=> StepOK("client", t, b, pos[n])
    BY DEF StepOK, Matched, Node
  <2> QED BY <1>1, <1>2, <2>1, <2>2 DEF MeetingPos, LabelsOf, OneSided, TwoSided, AllTests
<1> QED BY <1>2, <1>3, <1>4

\* A program whose meeting has taken place has not returned from the call,
\* and has nothing posted any more.
LEMMA MetFacts ==
  ASSUME Matched, IInv, NEW n \in Node, Met(n)
  PROVE  /\ blocked[n]
         /\ \/ InSend(n) \/ InReceive(n)
            \/ n = "client" /\ InOpen(n)
         /\ sq[n] = <<>> /\ srq[n] = <<>>
<1>1. CallOK(n) /\ DialOK /\ sq[n] \in Seq(Request) /\ srq[n] \in Seq(PosNat)
  BY DEF IInv, Inv, TypeOK
<1>2. CASE InSend(n) /\ scq[n] # <<>>
  BY <1>1, <1>2, Kinds DEF CallOK, Idle
<1>3. CASE InReceive(n) /\ rcq[n] # <<>>
  BY <1>1, <1>3, Kinds DEF CallOK, Idle
<1>4. CASE n = "client" /\ dial = "accepted"
  BY <1>1, <1>4, Kinds DEF CallOK, DialOK, Idle
<1> QED BY <1>2, <1>3, <1>4 DEF Met

\* Two programs at meetings that have both happened, or both not, are at the
\* same one.
LEMMA BothMet ==
  ASSUME Matched, IInv, Met("client") <=> Met("server"),
         \A n \in Node : InSend(n) \/ InReceive(n) \/ (~Exited(n) /\ pos[n].label = "open")
  PROVE  pos["client"] = pos["server"] /\ NextMeeting("client") = NextMeeting("server")
<1>1. Meeting("client") = Meeting("server")
  BY DEF IInv, Inv, Lockstep
<1>2. /\ pos["client"] = pos["server"]
      /\ MeetingPos(pos["client"])
      /\ pos["client"] \in Position
      /\ pos["client"].test \in 1..Len(Tests("client"))
  BY <1>1, AtMeeting DEF Node
<1> QED BY <1>2, NextMeetingsAgree DEF NextMeeting

\* Returning from a meeting that took place keeps the programs in step.
LEMMA ReturnMet ==
  ASSUME Matched, IInv, NEW n \in Node, Met(n), Return(n), ~Met(n)',
         Met(Peer(n))' <=> Met(Peer(n))
  PROVE  Lockstep'
<1> DEFINE m == Peer(n)
<1>1. m \in Node /\ m # n /\ n = Peer(m) /\ pos'[m] = pos[m]
  BY DEF Peer, Node, Return, IInv, TypeOK
<1>2. Meeting(n)' = NextMeeting(n)
  BY DEF Meeting, NextMeeting, Return, Node, IInv, TypeOK
<1>3. Meeting(m)' = Meeting(m) /\ NextMeeting(m)' = NextMeeting(m)
  BY <1>1 DEF Meeting, NextMeeting
<1>4. CASE Met(m)
  <2>1. NextMeeting("client") = NextMeeting("server")
    BY <1>1, <1>4, MetFacts, BothMet, Kinds DEF Node
  <2> QED BY <1>1, <1>2, <1>3, <1>4, <2>1 DEF Lockstep, Node, Peer
<1>5. CASE ~Met(m)
  <2>1. Meeting(m) = NextMeeting(n)
    BY <1>1, <1>5 DEF IInv, Inv, Lockstep, Node, Peer
  <2> QED BY <1>1, <1>2, <1>3, <1>5, <2>1 DEF Lockstep, Node, Peer
<1> QED BY <1>4, <1>5

\* So does a step the other program has no part in: a piece of data, a
\* refill, a close.
LEMMA ReturnAlone ==
  ASSUME Matched, IInv, NEW n \in Node, ~Met(n), Return(n), ~Met(n)',
         Met(Peer(n))' <=> Met(Peer(n)), ~Exited(n),
         pos[n].label \in {"fill", "close"} \/ InOneSided(n)
  PROVE  Lockstep'
<1> DEFINE m == Peer(n)
<1>1. m \in Node /\ m # n /\ n = Peer(m) /\ pos'[m] = pos[m]
  BY DEF Peer, Node, Return, IInv, TypeOK
<1>2. Meeting(n)' = Meeting(n)
  <2>1. /\ pos[n] \in Position /\ PositionOK(n, pos[n])
        /\ pos[n].test \in 1..Len(Tests("client"))
        /\ InOneSided(n) => /\ n = "client" /\ pos[n].label = "data"
                            /\ Tests("client")[pos[n].test] \in OneSided
    BY Here, Kinds
  <2>2. pos'[n] = IF n = "client" THEN ClientAfter(pos[n]) ELSE ServerAfter(pos[n])
    BY DEF Return, IInv, TypeOK
  <2>3. CASE n = "client"
    BY <2>1, <2>2, <2>3, ClientAlone DEF Meeting
  <2>4. CASE n = "server"
    BY <2>1, <2>2, <2>4, ServerAlone DEF Meeting
  <2> QED BY <2>3, <2>4 DEF Node
<1>3. Meeting(m)' = Meeting(m) /\ NextMeeting(m)' = NextMeeting(m)
  BY <1>1 DEF Meeting, NextMeeting
<1> QED BY <1>1, <1>2, <1>3 DEF IInv, Inv, Lockstep, Node, Peer

\* So does a step after which both are where they were.
LEMMA NoMeeting ==
  ASSUME IInv, pos' = pos, \A n \in Node : Met(n)' <=> Met(n)
  PROVE  Lockstep'
<1>1. \A n \in Node : Meeting(n)' = Meeting(n) /\ NextMeeting(n)' = NextMeeting(n)
  BY DEF Meeting, NextMeeting
<1> QED BY <1>1 DEF IInv, Inv, Lockstep, Node

\* Where a call returns to.
LEMMA ReturnPosition ==
  ASSUME Matched, IInv, NEW n \in Node, ~Exited(n), Return(n)
  PROVE  /\ pos' \in [Node -> Position]
         /\ blocked' \in [Node -> BOOLEAN]
         /\ ~blocked'[n]
         /\ pos'[Peer(n)] = pos[Peer(n)]
         /\ blocked'[Peer(n)] = blocked[Peer(n)]
         /\ \A k \in Node : PositionOK(k, pos'[k])
         /\ pos[n].label # "close" => pos'[n].test = pos[n].test /\ pos'[n].label # "open"
<1>1. /\ pos \in [Node -> Position] /\ blocked \in [Node -> BOOLEAN]
      /\ Peer(n) \in Node /\ Peer(n) # n
      /\ \A k \in Node : PositionOK(k, pos[k])
  BY DEF IInv, TypeOK, Inv, Peer, Node
<1>2. pos'[n] = IF n = "client" THEN ClientAfter(pos[n]) ELSE ServerAfter(pos[n])
  BY <1>1 DEF Return
<1>3. pos[n].test <= Len(Tests(n)) /\ pos[n] \in Position
  BY Here
<1>4. pos'[n] \in Position /\ PositionOK(n, pos'[n])
  BY <1>1, <1>2, <1>3, ClientAfterOK, ServerAfterOK DEF Node
<1>5. pos[n].label # "close" => pos'[n].test = pos[n].test /\ pos'[n].label # "open"
  BY <1>1, <1>2, <1>3, AfterStays
<1>6. \A k \in Node : k # n => pos'[k] = pos[k] /\ blocked'[k] = blocked[k]
  BY <1>1 DEF Return
<1>7. /\ pos' = [pos EXCEPT ![n] = pos'[n]]
      /\ blocked' = [blocked EXCEPT ![n] = FALSE]
  BY <1>1, <1>2 DEF Return
<1>8. pos' \in [Node -> Position]
  BY <1>1, <1>4, <1>7
<1>9. blocked' \in [Node -> BOOLEAN] /\ ~blocked'[n]
  BY <1>1, <1>7
<1>10. \A k \in Node : PositionOK(k, pos'[k])
  BY <1>1, <1>4, <1>6
<1> QED BY <1>1, <1>5, <1>6, <1>8, <1>9, <1>10

\* A program that is in no call has nothing posted, nothing to poll and no
\* meeting behind it.
LEMMA NotMet ==
  ASSUME IInv, NEW n \in Node, ~blocked[n]
  PROVE  Idle(n) /\ ~Met(n)
<1>1. Idle(n) /\ (n = "client" => dial = "none")
  BY DEF IInv, Inv, CallOK, DialOK
<1> QED BY <1>1 DEF Met, Idle

\* The buffer size of a pass, and the values the inner loop takes in it.
LEMMA SizeType ==
  ASSUME Matched, IInv, NEW n \in Node, ~Exited(n), pos[n].label = "data"
  PROVE  /\ Size(n) \in PosNat
         /\ Test(n) \in LatencyTests => Size(n) <= MaxBufferSize
         /\ Test(n) \notin LatencyTests =>
              /\ pos[n].off % Size(n) = 0
              /\ pos[n].off <= LastIndex(DataSize[n], Size(n))
<1>1. /\ pos[n] \in Position /\ PositionOK(n, pos[n])
      /\ Test(n) \in AllTests /\ Test(n) = Tests(n)[pos[n].test]
      /\ pos[n].test <= Len(Tests(n)) /\ Len(Tests(n)) \in Nat
  BY Here, TestsType DEF Test
<1>2. pos[n].round \in 1..Len(Sizes(Test(n))) /\ StepOK(n, Test(n), Size(n), pos[n])
  BY <1>1 DEF PositionOK, Size, Position, PosNat
<1>3. Size(n) \in PosNat
  BY <1>1, <1>2, SizesType DEF Size
<1>4. Test(n) \in LatencyTests => Size(n) <= MaxBufferSize
  BY <1>2, ConstantsAssumption DEF Size, Sizes
<1> QED BY <1>2, <1>3, <1>4 DEF StepOK

\* What a call posts has the type the queues hold.
LEMMA CallTypes ==
  ASSUME Matched, IInv, NEW n \in Node
  PROVE  /\ InSend(n) \/ InOneSided(n) => PostedBy(n) \in Request
         /\ InReceive(n) => BufferOf(n) \in PosNat
<1>1. pos[n] \in Position
  BY Here
<1>2. CallLen(n) \in Nat /\ BufferOf(n) \in PosNat
  <2>1. CASE At(n, {"data"})
    <3>1. Size(n) \in Nat /\ Size(n) > 0
      BY <2>1, SizeType DEF At, PosNat
    <3>2. DataSize[n] \in Nat
      BY ConstantsAssumption DEF PosNat
    <3>3. PieceLen(DataSize[n], Size(n), pos[n].off) \in Nat
      <4> DEFINE d == DataSize[n]
                 b == Size(n)
      <4> HIDE DEF d, b
      <4>1. PieceLen(d, b, pos[n].off) \in Nat
        BY <3>1, <3>2, DivMod DEF PieceLen, d, b
      <4> QED BY <4>1 DEF d, b
    <3> QED BY <2>1, <3>1, <3>3 DEF CallLen, BufferOf, PosNat
  <2>2. CASE ~At(n, {"data"})
    BY <2>2 DEF CallLen, BufferOf, PosNat
  <2> QED BY <2>1, <2>2
<1> QED BY <1>1, <1>2 DEF PostedBy, Request

\* A call that posts a request, of either kind, preserves the invariant.
LEMMA PostingCall ==
  ASSUME Matched, IInv, NEW n \in Node,
         InSend(n) \/ InOneSided(n),
         Call(n), PostRequest(n, PostedBy(n)),
         UNCHANGED <<pos, dial, failed, mem, conn, qp, scq, srq, rcq>>
  PROVE  IInv'
<1>1. TypeOK /\ Idle(n) /\ ~Met(n)
  BY NotMet DEF IInv, Call
<1>2. /\ blocked' \in [Node -> BOOLEAN]
      /\ blocked'[n]
      /\ \A k \in Node : k # n => blocked'[k] = blocked[k] /\ sq'[k] = sq[k]
      /\ sq' \in [Node -> Seq(Request)]
      /\ sq'[n] = << PostedBy(n) >>
  BY <1>1, CallTypes DEF TypeOK, Call, PostRequest, Idle
<1>3. TypeOK'
  BY <1>1, <1>2 DEF TypeOK, Bytes
<1>4. \A k \in Node : /\ InSend(k)' <=> InSend(k)
                      /\ InReceive(k)' <=> InReceive(k)
                      /\ InOneSided(k)' <=> InOneSided(k)
                      /\ InOpen(k)' <=> InOpen(k)
                      /\ PostedBy(k)' = PostedBy(k)
                      /\ BufferOf(k)' = BufferOf(k)
  BY Where
<1>5. \A k \in Node : PositionOK(k, pos[k])' /\ LinkOK(k)'
  BY DEF IInv, Inv, LinkOK
<1>6. \A k \in Node : CallOK(k)'
  <2>1. CallOK(n)'
    BY <1>1, <1>2, <1>4 DEF CallOK, Idle
  <2>2. ASSUME NEW k \in Node, k # n PROVE CallOK(k)'
    BY <1>2, <2>2, Frame DEF IInv, Inv
  <2> QED BY <2>1, <2>2
<1>7. DialOK'
  <2>1. ~InOpen(n)
    BY Kinds
  <2> QED BY <1>2, <1>4, <2>1 DEF IInv, Inv, DialOK, Node
<1>8. Lockstep'
  <2>1. \A k \in Node : Met(k)' <=> Met(k)
    BY <1>4 DEF Met
  <2> QED BY <2>1, NoMeeting
<1> QED BY <1>3, <1>5, <1>6, <1>7, <1>8 DEF IInv, Inv

\* A call that posts a receive buffer preserves the invariant.
LEMMA ReceivingCall ==
  ASSUME Matched, IInv, NEW n \in Node,
         InReceive(n),
         Call(n), PostReceiveBuffer(n, BufferOf(n)),
         DOMAIN mem' = Node, \A k \in Node : mem'[k] \in [Bytes(k) -> Nat \cup {Junk}],
         UNCHANGED <<pos, dial, failed, conn, qp, sq, scq, rcq>>
  PROVE  IInv'
<1>1. TypeOK /\ Idle(n) /\ ~Met(n)
  BY NotMet DEF IInv, Call
<1>2. /\ blocked' \in [Node -> BOOLEAN]
      /\ blocked'[n]
      /\ \A k \in Node : k # n => blocked'[k] = blocked[k] /\ srq'[k] = srq[k]
      /\ srq' \in [Node -> Seq(PosNat)]
      /\ srq'[n] = << BufferOf(n) >>
  BY <1>1, CallTypes DEF TypeOK, Call, PostReceiveBuffer, Idle
<1>3. TypeOK'
  BY <1>1, <1>2 DEF TypeOK, Bytes
<1>4. \A k \in Node : /\ InSend(k)' <=> InSend(k)
                      /\ InReceive(k)' <=> InReceive(k)
                      /\ InOneSided(k)' <=> InOneSided(k)
                      /\ InOpen(k)' <=> InOpen(k)
                      /\ PostedBy(k)' = PostedBy(k)
                      /\ BufferOf(k)' = BufferOf(k)
  BY Where
<1>5. \A k \in Node : PositionOK(k, pos[k])' /\ LinkOK(k)'
  BY DEF IInv, Inv, LinkOK
<1>6. \A k \in Node : CallOK(k)'
  <2>1. CallOK(n)'
    BY <1>1, <1>2, <1>4 DEF CallOK, Idle
  <2>2. ASSUME NEW k \in Node, k # n PROVE CallOK(k)'
    BY <1>2, <2>2, Frame DEF IInv, Inv
  <2> QED BY <2>1, <2>2
<1>7. DialOK'
  <2>1. ~InOpen(n)
    BY Kinds
  <2> QED BY <1>2, <1>4, <2>1 DEF IInv, Inv, DialOK, Node
<1>8. Lockstep'
  <2>1. \A k \in Node : Met(k)' <=> Met(k)
    BY <1>4 DEF Met
  <2> QED BY <2>1, NoMeeting
<1> QED BY <1>3, <1>5, <1>6, <1>7, <1>8 DEF IInv, Inv

\* send_control_message posts its byte.
LEMMA SendControlMessageStep ==
  ASSUME Matched, IInv, NEW n \in Node, SendControlMessage(n)
  PROVE  IInv'
<1>1. InSend(n) /\ PostedBy(n) = [op |-> "send", at |-> pos[n], len |-> 1]
  BY DEF SendControlMessage, InSend, PostedBy, CallLen, SendsControl, At
<1> QED BY <1>1, PostingCall DEF SendControlMessage, Post

\* The inner loop of a two-sided test posts a piece of data.
LEMMA SendDataStep ==
  ASSUME Matched, IInv, NEW n \in Node, SendData(n)
  PROVE  IInv'
<1>1. InSend(n) /\ PostedBy(n) = [op |-> "send", at |-> pos[n],
        len |-> IF n = "client" THEN Size(n) ELSE PieceLen(DataSize[n], Size(n), pos[n].off)]
  BY DEF SendData, InSend, PostedBy, CallLen, SendsData, LatencyTests, Node
<1> QED BY <1>1, PostingCall DEF SendData, Post

\* The inner loop of a one-sided test posts a read or a write.
LEMMA ReadOrWriteStep ==
  ASSUME Matched, IInv, ReadOrWrite
  PROVE  IInv'
<1>1. ~Exited("client") /\ pos["client"].label = "data" /\ Test("client") \in OneSided
      /\ InOneSided("client")
  BY Here DEF ReadOrWrite, At, InOneSided, OneSided, AllTests, TwoSided, Node
<1>2. ~InSend("client")
  BY <1>1, Kinds DEF OneSided, TwoSided, Node
<1>3. PostedBy("client") = [op |-> IF Test("client") \in {"read_tp", "read_lat"} THEN "read" ELSE "write",
                            at |-> pos["client"], len |-> OneSidedLen(Size("client"))]
  BY <1>1, <1>2 DEF PostedBy, CallLen, OneSidedLen, At
<1> QED BY <1>1, <1>3, PostingCall DEF ReadOrWrite, Post, Node

\* wait_for_control_message posts its one-byte buffer.
LEMMA WaitForControlMessageStep ==
  ASSUME Matched, IInv, NEW n \in Node, WaitForControlMessage(n)
  PROVE  IInv'
<1>1. InReceive(n) /\ BufferOf(n) = 1
  BY DEF WaitForControlMessage, InReceive, BufferOf, WaitsForControl, At
<1>2. DOMAIN mem' = Node /\ \A k \in Node : mem'[k] \in [Bytes(k) -> Nat \cup {Junk}]
  BY DEF WaitForControlMessage, Fresh, Bytes, IInv, TypeOK
<1> QED BY <1>1, <1>2, ReceivingCall DEF WaitForControlMessage

\* The inner loop of a two-sided test posts its buffer.
LEMMA PostDataBufferStep ==
  ASSUME Matched, IInv, NEW n \in Node, PostDataBuffer(n)
  PROVE  IInv'
<1>1. InReceive(n) /\ BufferOf(n) = Size(n)
  BY DEF PostDataBuffer, InReceive, BufferOf, ReceivesData, At
<1>2. DOMAIN mem' = Node /\ \A k \in Node : mem'[k] \in [Bytes(k) -> Nat \cup {Junk}]
  BY DEF PostDataBuffer, Bytes, IInv, TypeOK
<1> QED BY <1>1, <1>2, ReceivingCall DEF PostDataBuffer

\* What a byte of a buffer can be.
Contents == Nat \cup {Junk}

\* The ways a buffer is filled keep its size.
LEMMA BufferTypes ==
  ASSUME NEW n \in Node
  PROVE  /\ Zeroed(DataSize[n]) \in [Bytes(n) -> Contents]
         /\ Fresh(DataSize[n]) \in [Bytes(n) -> Contents]
         /\ \A buf \in [Bytes(n) -> Contents], k, byte \in Nat :
              Scribble(buf, k, byte) \in [Bytes(n) -> Contents]
<1>1. Zeroed(DataSize[n]) \in [Bytes(n) -> Contents]
  BY DEF Zeroed, Bytes, Contents
<1>2. Fresh(DataSize[n]) \in [Bytes(n) -> Contents]
  BY DEF Fresh, Bytes, Contents
<1>3. ASSUME NEW buf \in [Bytes(n) -> Contents], NEW k \in Nat, NEW byte \in Nat
      PROVE  Scribble(buf, k, byte) \in [Bytes(n) -> Contents]
  BY DEF Scribble, Contents
<1> QED BY <1>1, <1>2, <1>3

\* Replacing one buffer by another of its size keeps the memory well-typed.
LEMMA MemUpdate ==
  ASSUME TypeOK, NEW n \in Node, NEW f \in [Bytes(n) -> Contents], mem' = [mem EXCEPT ![n] = f]
  PROVE  DOMAIN mem' = Node /\ \A k \in Node : mem'[k] \in [Bytes(k) -> Nat \cup {Junk}]
  BY DEF TypeOK, Contents

\* The client asks for a connection.
LEMMA ConnectStep ==
  ASSUME Matched, IInv, Connect
  PROVE  IInv'
<1>1. /\ TypeOK /\ Idle("client") /\ ~Met("client")
      /\ ~Exited("client") /\ pos["client"].label = "open" /\ InOpen("client")
  BY NotMet DEF IInv, Connect, Call, At, InOpen, Node
<1>2. /\ blocked' \in [Node -> BOOLEAN]
      /\ blocked'["client"]
      /\ blocked'["server"] = blocked["server"]
  BY <1>1 DEF TypeOK, Connect, Call, Node
<1>3. DOMAIN mem' = Node /\ \A k \in Node : mem'[k] \in [Bytes(k) -> Nat \cup {Junk}]
  <2>1. CASE Test("client") = "write_tp"
    <3>1. PICK k \in 0..DataSize["client"] :
            mem' = [mem EXCEPT !["client"] = Scribble(Zeroed(DataSize["client"]), k, 1)]
      BY <2>1 DEF Connect
    <3>2. Scribble(Zeroed(DataSize["client"]), k, 1) \in [Bytes("client") -> Contents]
      <4>1. "client" \in Node /\ k \in Nat
        BY ConstantsAssumption DEF Node, PosNat
      <4>2. Zeroed(DataSize["client"]) \in [Bytes("client") -> Contents]
        BY <4>1, BufferTypes
      <4> QED BY <4>1, <4>2, BufferTypes
    <3> QED BY <1>1, <3>1, <3>2, MemUpdate DEF Node
  <2>2. CASE Test("client") # "write_tp"
    BY <1>1, <2>2 DEF Connect, TypeOK
  <2> QED BY <2>1, <2>2
<1>4. TypeOK'
  BY <1>1, <1>2, <1>3 DEF TypeOK, Bytes, Connect, verbs
<1>5. \A k \in Node : /\ InSend(k)' <=> InSend(k)
                      /\ InReceive(k)' <=> InReceive(k)
                      /\ InOpen(k)' <=> InOpen(k)
  BY Where DEF Connect
<1>6. \A k \in Node : PositionOK(k, pos[k])' /\ LinkOK(k)'
  BY DEF IInv, Inv, LinkOK, Connect, verbs
<1>7. \A k \in Node : CallOK(k)'
  <2>1. CallOK("client")'
    BY <1>1, <1>2, <1>5 DEF CallOK, Idle, Connect, verbs, Node
  <2>2. CallOK("server")'
    BY <1>2, Frame DEF IInv, Inv, Connect, verbs, Node
  <2> QED BY <2>1, <2>2 DEF Node
<1>8. DialOK'
  BY <1>1, <1>2, <1>5 DEF DialOK, Connect, Node
<1>9. Lockstep'
  <2>1. \A k \in Node : Met(k)' <=> Met(k)
    BY <1>1, <1>5 DEF Met, Connect, verbs, Node, IInv, Inv, DialOK
  <2> QED BY <2>1, NoMeeting DEF Connect
<1> QED BY <1>4, <1>6, <1>7, <1>8, <1>9 DEF IInv, Inv, Connect

\* A return inside a test leaves both queue pairs as they should be.
LEMMA AfterReturn ==
  ASSUME Matched, IInv, NEW n \in Node, ~Exited(n), pos[n].label \notin {"open", "close"},
         Return(n), UNCHANGED <<failed, conn, qp>>
  PROVE  \A k \in Node : LinkOK(k)'
<1>1. /\ Peer(n) \in Node /\ \A k \in Node : k = n \/ k = Peer(n)
  BY DEF Peer, Node
<1> QED BY <1>1, ReturnPosition DEF IInv, Inv, LinkOK

\* Returning from a call that is done preserves the invariant.
LEMMA ReturningCall ==
  ASSUME Matched, IInv, NEW n \in Node, ~Exited(n), pos[n].label \notin {"open", "close"},
         Return(n), UNCHANGED <<dial, failed, mem, conn, qp, sq, srq>>,
         sq[n] = <<>>, srq[n] = <<>>, scq'[n] = <<>>, rcq'[n] = <<>>,
         scq' \in [Node -> Seq({"ok", "failed"})], rcq' \in [Node -> Seq(Message)],
         scq'[Peer(n)] = scq[Peer(n)], rcq'[Peer(n)] = rcq[Peer(n)],
         Met(n) \/ InOneSided(n)
  PROVE  IInv'
<1> DEFINE m == Peer(n)
<1>1. m \in Node /\ \A k \in Node : k = n \/ k = m
  BY DEF Peer, Node
<1>2. TypeOK'
  BY ReturnPosition DEF IInv, TypeOK, Bytes
<1>3. \A k \in Node : PositionOK(k, pos[k])'
  BY ReturnPosition
<1>4. \A k \in Node : LinkOK(k)'
  BY AfterReturn
<1>5. \A k \in Node : CallOK(k)'
  <2>1. CallOK(n)'
    BY ReturnPosition DEF CallOK, Idle
  <2>2. CallOK(m)'
    BY <1>1, ReturnPosition, Frame DEF IInv, Inv
  <2> QED BY <1>1, <2>1, <2>2
<1>6. DialOK'
  <2>1. ~InOpen(n) /\ ~InOpen(n)'
    <3>1. ~Exited(n) /\ pos[n].label # "open" /\ pos'[n].label # "open"
      BY ReturnPosition
    <3> QED BY <3>1 DEF InOpen, At
  <2>2. n = "client" => ~blocked'["client"]
    BY ReturnPosition
  <2>3. n = "server" => (InOpen("client")' <=> InOpen("client")) /\ blocked'["client"] = blocked["client"]
    BY <1>1, ReturnPosition, Where DEF Peer, Node
  <2> QED BY <2>1, <2>2, <2>3 DEF IInv, Inv, DialOK, Node
<1>7. Lockstep'
  <2>1. ~Met(n)'
    <3>1. n = "client" => dial # "accepted"
      BY <1>6, ReturnPosition DEF DialOK
    <3> QED BY <3>1 DEF Met
  <2>2. Met(m)' <=> Met(m)
    <3>1. pos'[m] = pos[m]
      BY ReturnPosition
    <3> QED BY <1>1, <3>1, Where DEF Met
  <2> QED BY <2>1, <2>2, ReturnMet, ReturnAlone
<1> QED BY <1>2, <1>3, <1>4, <1>5, <1>6, <1>7 DEF IInv, Inv

\* A request has completed, with success.
LEMMA WaitUntilCompletedStep ==
  ASSUME Matched, IInv, NEW n \in Node, WaitUntilCompleted(n)
  PROVE  IInv'
<1>1. /\ Peer(n) \in Node /\ Peer(n) # n
      /\ TypeOK /\ CallOK(n)
  BY DEF IInv, Inv, Peer, Node
<1>2. /\ InSend(n) \/ InOneSided(n)
      /\ scq[n] = <<"ok">> /\ sq[n] = <<>> /\ srq[n] = <<>> /\ rcq[n] = <<>>
  BY <1>1 DEF WaitUntilCompleted, CallOK, Idle
<1>3. ~Exited(n) /\ pos[n].label \notin {"open", "close"}
  BY <1>2, Kinds
<1>4. Met(n) \/ InOneSided(n)
  BY <1>2 DEF Met
<1>5. UNCHANGED failed
  BY <1>1, <1>2 DEF WaitUntilCompleted, TypeOK
<1>6. /\ scq'[n] = <<>> /\ rcq'[n] = <<>>
      /\ scq'[Peer(n)] = scq[Peer(n)] /\ rcq'[Peer(n)] = rcq[Peer(n)]
      /\ scq' \in [Node -> Seq({"ok", "failed"})] /\ rcq' \in [Node -> Seq(Message)]
  BY <1>1, <1>2 DEF WaitUntilCompleted, TypeOK
<1> QED BY <1>2, <1>3, <1>4, <1>5, <1>6, ReturningCall DEF WaitUntilCompleted

\* A message has arrived, and it is the expected one.
LEMMA ReceiveStep ==
  ASSUME Matched, IInv, NEW n \in Node, Receive(n)
  PROVE  IInv'
<1>1. /\ Peer(n) \in Node /\ Peer(n) # n
      /\ TypeOK /\ CallOK(n)
  BY DEF IInv, Inv, Peer, Node
<1>2. /\ InReceive(n)
      /\ scq[n] = <<>> /\ sq[n] = <<>> /\ srq[n] = <<>>
      /\ rcq[n] = << [at |-> pos[n], len |-> CallLen(n), ok |-> TRUE] >>
  BY <1>1 DEF Receive, CallOK, Idle
<1>3. ~Exited(n) /\ pos[n].label \notin {"open", "close"}
  BY <1>2, Kinds
<1>4. Met(n)
  BY <1>2 DEF Met, Receive
<1>6. /\ scq'[n] = <<>> /\ rcq'[n] = <<>>
      /\ scq'[Peer(n)] = scq[Peer(n)] /\ rcq'[Peer(n)] = rcq[Peer(n)]
      /\ scq' \in [Node -> Seq({"ok", "failed"})] /\ rcq' \in [Node -> Seq(Message)]
  BY <1>1, <1>2 DEF Receive, TypeOK
<1> QED BY <1>2, <1>3, <1>4, <1>6, ReturningCall DEF Receive

\* The server accepts: the client is at the connection of the same test.
LEMMA AcceptStep ==
  ASSUME Matched, IInv, Accept
  PROVE  IInv'
<1>1. /\ TypeOK /\ dial = "requested" /\ dial' = "accepted"
      /\ ~Exited("server") /\ pos["server"].label = "open"
      /\ Return("server")
      /\ InOpen("client") /\ blocked["client"]
      /\ pos'["client"] = pos["client"] /\ blocked'["client"] = blocked["client"]
  BY DEF Accept, At, IInv, Inv, DialOK, Node, TypeOK, Return
<1>2. ~Met("client") /\ ~Met("server") /\ ~blocked["server"] /\ Idle("server") /\ Idle("client")
  BY <1>1, Kinds DEF Met, IInv, Inv, CallOK, Node, Idle
<1>3. DOMAIN mem' = Node /\ \A k \in Node : mem'[k] \in [Bytes(k) -> Nat \cup {Junk}]
  BY <1>1, BufferTypes, MemUpdate DEF Accept, TypeOK, Node, Contents
<1>4. TypeOK'
  BY <1>1, <1>3, ReturnPosition DEF TypeOK, Bytes, Accept, OpenQueuePair, Node
<1>5. \A k \in Node : PositionOK(k, pos[k])'
  BY <1>1, ReturnPosition DEF Node
<1>6. \A k \in Node : LinkOK(k)'
  <2>1. LinkOK("server")'
    <3>1. pos'["server"].label # "open" /\ pos'["server"].test = pos["server"].test
      BY <1>1, ReturnPosition DEF Node
    <3>2. LinkOK("server") /\ pos["server"].test \in Nat
      BY <1>1 DEF IInv, Inv, TypeOK, Node, Position, PosNat
    <3>3. /\ failed' = failed /\ qp'["server"] = "up" /\ conn'["server"] = conn["server"] + 1
      BY <1>1 DEF Accept, OpenQueuePair, TypeOK, Node
    <3> QED BY <1>1, <3>1, <3>2, <3>3 DEF LinkOK
  <2>2. LinkOK("client")'
    BY <1>1 DEF IInv, Inv, LinkOK, Accept, OpenQueuePair, TypeOK, Node
  <2> QED BY <2>1, <2>2 DEF Node
<1>7. \A k \in Node : CallOK(k)' /\ Idle(k)'
  BY <1>1, <1>2, ReturnPosition, Where DEF CallOK, Idle, Accept, Node
<1>8. DialOK'
  BY <1>1, Where DEF DialOK, Node
<1>9. Lockstep'
  <2>1. Met("client")' /\ ~Met("server")'
    BY <1>1, <1>7 DEF Met, Idle, Node
  <2>2. NextMeeting("client") = NextMeeting("server")
    BY <1>1, <1>2, Kinds, BothMet DEF Node
  <2>3. Meeting("server")' = NextMeeting("server")
    BY <1>1 DEF Meeting, NextMeeting, Return, TypeOK, Node
  <2>4. NextMeeting("client")' = NextMeeting("client")
    BY <1>1 DEF NextMeeting
  <2> QED BY <2>1, <2>2, <2>3, <2>4 DEF Lockstep
<1> QED BY <1>4, <1>5, <1>6, <1>7, <1>8, <1>9 DEF IInv, Inv

\* The client learns that it is connected.
LEMMA ConnectReturnsStep ==
  ASSUME Matched, IInv, ConnectReturns
  PROVE  IInv'
<1>1. /\ TypeOK /\ dial = "accepted" /\ dial' = "none"
      /\ Return("client")
      /\ InOpen("client") /\ blocked["client"] /\ Idle("client")
      /\ pos'["server"] = pos["server"] /\ blocked'["server"] = blocked["server"]
      /\ Met("client")
  BY Kinds DEF ConnectReturns, IInv, Inv, DialOK, Node, TypeOK, Return, Met, CallOK, Idle
<1>2. ~Exited("client") /\ pos["client"].label = "open"
  BY <1>1, Kinds DEF Node
<1>3. /\ ~blocked'["client"] /\ pos'["client"].label # "open"
      /\ pos'["client"].test = pos["client"].test
  BY <1>1, <1>2, ReturnPosition DEF Node
<1>4. TypeOK'
  BY <1>1, <1>2, ReturnPosition DEF TypeOK, Bytes, ConnectReturns, OpenQueuePair, Node
<1>5. \A k \in Node : PositionOK(k, pos[k])'
  BY <1>1, <1>2, ReturnPosition DEF Node
<1>6. \A k \in Node : LinkOK(k)'
  <2>1. LinkOK("client")'
    BY <1>1, <1>2, <1>3 DEF IInv, Inv, LinkOK, ConnectReturns, OpenQueuePair, TypeOK, Node, Position, PosNat
  <2>2. LinkOK("server")'
    BY <1>1 DEF IInv, Inv, LinkOK, ConnectReturns, OpenQueuePair, TypeOK, Node
  <2> QED BY <2>1, <2>2 DEF Node
<1>7. \A k \in Node : CallOK(k)'
  <2>1. CallOK("client")'
    BY <1>1, <1>3 DEF CallOK, Idle, ConnectReturns
  <2>2. CallOK("server")'
    BY <1>1, Frame DEF ConnectReturns, IInv, Inv, Node
  <2> QED BY <2>1, <2>2 DEF Node
<1>8. DialOK'
  BY <1>1, <1>3 DEF DialOK
<1>9. Lockstep'
  <2>1. ~Met("client")'
    BY <1>1 DEF Met, Idle, ConnectReturns
  <2>2. Met("server")' <=> Met("server")
    BY <1>1, Where DEF Met, ConnectReturns, Node
  <2> QED BY <1>1, <2>1, <2>2, ReturnMet DEF Node, Peer
<1> QED BY <1>4, <1>5, <1>6, <1>7, <1>8, <1>9 DEF IInv, Inv

\* A step between two meetings preserves the invariant.
LEMMA LocalStep ==
  ASSUME Matched, IInv, NEW n \in Node, ~Exited(n), pos[n].label \in {"fill", "close"},
         Return(n),
         DOMAIN mem' = Node, \A k \in Node : mem'[k] \in [Bytes(k) -> Nat \cup {Junk}],
         UNCHANGED <<dial, failed, conn, sq, scq, srq, rcq>>,
         qp' \in [Node -> {"up", "down", "error"}],
         \A k \in Node : LinkOK(k)'
  PROVE  IInv'
<1> DEFINE m == Peer(n)
<1>1. m \in Node /\ m # n /\ \A k \in Node : k = n \/ k = m
  BY DEF Peer, Node
<1>2. ~InSend(n) /\ ~InReceive(n) /\ ~InOneSided(n) /\ ~InOpen(n)
  BY Kinds
<1>3. ~blocked[n] /\ Idle(n) /\ ~Met(n)
  BY <1>2, NotMet DEF IInv, Inv, CallOK
<1>4. TypeOK'
  BY ReturnPosition DEF IInv, TypeOK, Bytes
<1>5. \A k \in Node : PositionOK(k, pos[k])'
  BY ReturnPosition
<1>6. \A k \in Node : CallOK(k)'
  <2>1. CallOK(n)'
    BY <1>3, ReturnPosition DEF CallOK, Idle
  <2>2. CallOK(m)'
    BY <1>1, ReturnPosition, Frame DEF IInv, Inv
  <2> QED BY <1>1, <2>1, <2>2
<1>7. DialOK'
  <2>1. n = "client" => dial = "none" /\ ~blocked'["client"]
    BY <1>3, ReturnPosition DEF IInv, Inv, DialOK
  <2>2. n = "server" => (InOpen("client")' <=> InOpen("client")) /\ blocked'["client"] = blocked["client"]
    BY <1>1, ReturnPosition, Where DEF Peer, Node
  <2> QED BY <2>1, <2>2 DEF IInv, Inv, DialOK, Node
<1>8. Lockstep'
  <2>1. ~Met(n)'
    BY <1>3 DEF Met, Idle
  <2>2. Met(m)' <=> Met(m)
    BY <1>1, ReturnPosition, Where DEF Met
  <2> QED BY <1>3, <2>1, <2>2, ReturnAlone
<1> QED BY <1>4, <1>5, <1>6, <1>7, <1>8 DEF IInv, Inv

\* A buffer is refilled or cleared between two passes.
LEMMA RefillStep ==
  ASSUME Matched, IInv, NEW n \in Node, Refill(n)
  PROVE  IInv'
<1>1. ~Exited(n) /\ pos[n].label = "fill" /\ Return(n) /\ TypeOK /\ pos[n].round \in Nat
  BY DEF Refill, At, IInv, TypeOK, Position
<1>2. DOMAIN mem' = Node /\ \A k \in Node : mem'[k] \in [Bytes(k) -> Nat \cup {Junk}]
  <2>1. CASE mem' = [mem EXCEPT ![n] = Zeroed(DataSize[n])]
    BY <1>1, <2>1, BufferTypes, MemUpdate
  <2>2. CASE \E k \in 0..DataSize[n] :
             mem' = [mem EXCEPT ![n] = Scribble(@, k, IF n = "client" THEN pos[n].round + 1
                                                                     ELSE pos[n].round)]
    <3> DEFINE byte == IF n = "client" THEN pos[n].round + 1 ELSE pos[n].round
    <3>1. PICK k \in 0..DataSize[n] : mem' = [mem EXCEPT ![n] = Scribble(mem[n], k, byte)]
      BY <1>1, <2>2
    <3>2. k \in Nat /\ byte \in Nat /\ mem[n] \in [Bytes(n) -> Contents]
      BY <1>1, ConstantsAssumption DEF TypeOK, Contents, PosNat
    <3>3. Scribble(mem[n], k, byte) \in [Bytes(n) -> Contents]
      BY <3>2, BufferTypes
    <3> QED BY <1>1, <3>1, <3>3, MemUpdate
  <2> QED BY <2>1, <2>2 DEF Refill
<1>3. \A k \in Node : LinkOK(k)'
  BY <1>1, AfterReturn DEF Refill, verbs
<1> QED BY <1>1, <1>2, <1>3, LocalStep DEF Refill, verbs, IInv, TypeOK

\* A test ends and its queue pair goes.
LEMMA CloseStep ==
  ASSUME Matched, IInv, NEW n \in Node, Close(n)
  PROVE  IInv'
<1>1. ~Exited(n) /\ pos[n].label = "close" /\ Return(n) /\ TypeOK
      /\ pos[n] \in Position /\ Peer(n) \in Node /\ Peer(n) # n
      /\ \A k \in Node : k = n \/ k = Peer(n)
  BY DEF Close, At, IInv, TypeOK, Peer, Node
<1>2. /\ qp' \in [Node -> {"up", "down", "error"}]
      /\ qp'[n] = "down" /\ qp'[Peer(n)] = qp[Peer(n)]
  BY <1>1 DEF Close, CloseQueuePair, TypeOK
<1>3. pos'[n] = NextTest(pos[n]) /\ pos'[Peer(n)] = pos[Peer(n)]
  BY <1>1 DEF Return, ClientAfter, ServerAfter, TypeOK
<1>4. LinkOK(n)'
  BY <1>1, <1>2, <1>3 DEF IInv, Inv, LinkOK, NextTest, Close, CloseQueuePair, Position, PosNat
<1>5. LinkOK(Peer(n))'
  BY <1>1, <1>2, <1>3 DEF IInv, Inv, LinkOK, Close, CloseQueuePair
<1>6. DOMAIN mem' = Node /\ \A k \in Node : mem'[k] \in [Bytes(k) -> Nat \cup {Junk}]
  BY <1>1 DEF Close, TypeOK
<1> QED BY <1>1, <1>2, <1>4, <1>5, <1>6, LocalStep DEF Close, CloseQueuePair

\* A program with a request outstanding is inside the call that posted it.
LEMMA Requested ==
  ASSUME Matched, IInv, NEW n \in Node, sq[n] # <<>>
  PROVE  /\ blocked[n]
         /\ InSend(n) \/ InOneSided(n)
         /\ ~Exited(n) /\ pos[n].label \in {"ready", "data", "done", "fin"}
         /\ sq[n] = << PostedBy(n) >> /\ scq[n] = <<>> /\ srq[n] = <<>> /\ rcq[n] = <<>>
         /\ ~Met(n)
<1>1. CallOK(n) /\ DialOK
  BY DEF IInv, Inv
<1>2. /\ blocked[n]
      /\ InSend(n) \/ InOneSided(n)
      /\ sq[n] = << PostedBy(n) >> /\ scq[n] = <<>> /\ srq[n] = <<>> /\ rcq[n] = <<>>
  BY <1>1 DEF CallOK, Idle
<1>3. ~Exited(n) /\ pos[n].label \in {"ready", "data", "done", "fin"}
  BY <1>2, Kinds
<1>4. ~Met(n)
  BY <1>1, <1>2, <1>3, Kinds DEF Met, DialOK
<1> QED BY <1>2, <1>3, <1>4

\* Its meeting is one of the running test.
LEMMA MeetingLabel ==
  ASSUME Matched, IInv, NEW n \in Node, InSend(n) \/ InOneSided(n)
  PROVE  /\ Meeting(n).label # "open"
         /\ Meeting(n).test = pos[n].test
<1>1. CASE InSend(n)
  BY <1>1, AtMeeting, Kinds
<1>2. CASE InOneSided(n)
  BY <1>2, Kinds, Here DEF Meeting, ClientMeeting, Goto, OneSided
<1> QED BY <1>1, <1>2

\* While a request is outstanding the other program is in the same test and
\* has not reached its close.
LEMMA SameTest ==
  ASSUME Matched, IInv, NEW n \in Node, sq[n] # <<>>
  PROVE  LET m == Peer(n) IN
         /\ ~Exited(m)
         /\ pos[m].test = pos[n].test
         /\ pos[m].label # "close"
         /\ pos[m].label = "open" => InOpen(m)
<1> DEFINE m == Peer(n)
<1>1. m \in Node /\ m # n /\ n = Peer(m)
  BY DEF Peer, Node
<1>2. /\ Meeting(n).label # "open" /\ Meeting(n).test = pos[n].test
      /\ ~Met(n) /\ ~Exited(n)
      /\ pos[n].test \in 1..Len(Tests("client"))
  BY Requested, MeetingLabel, Here
<1>3. /\ pos[m] \in Position /\ PositionOK(m, pos[m])
      /\ Len(Tests(m)) \in Nat /\ Len(Tests(m)) = Len(Tests("client"))
  BY <1>1, Here, TestsType, SameTests DEF Node
<1>4. CASE Met(m)
  <2>1. Meeting(n) = NextMeeting(m)
    BY <1>1, <1>2, <1>4 DEF IInv, Inv, Lockstep, Node
  <2>2. ~Exited(m) /\ pos[m].label # "close" /\ (pos[m].label = "open" => InOpen(m))
    BY <1>1, <1>4, MetFacts, Kinds
  <2>3. pos[m].test = pos[n].test
    BY <1>1, <1>2, <1>3, <2>1, <2>2, NextMeetingStays DEF NextMeeting, Exited, Position, PosNat
  <2> QED BY <2>2, <2>3
<1>5. CASE ~Met(m)
  <2>1. Meeting(n) = Meeting(m)
    BY <1>1, <1>2, <1>5 DEF IInv, Inv, Lockstep, Node
  <2>2. ~Exited(m)
    <3>1. SUFFICES ASSUME Exited(m) PROVE FALSE
      OBVIOUS
    <3>2. pos[m].label = "open"
      BY <1>3, <3>1 DEF Exited, PositionOK
    <3>3. Meeting(m) = pos[m]
      BY <1>1, <3>2 DEF Meeting, ClientMeeting, ServerMeeting
    <3> QED BY <1>2, <2>1, <3>2, <3>3
  <2>3. pos[m].test <= Len(Tests(m))
    BY <1>3, <2>2 DEF Exited, Position, PosNat
  <2>4. pos[m].test = pos[n].test /\ pos[m].label \notin {"open", "close"}
    BY <1>1, <1>2, <1>3, <2>1, <2>3, MeetingStays DEF Meeting
  <2> QED BY <2>2, <2>4
<1> QED BY <1>4, <1>5

\* So no request finds its queue pair gone.
LEMMA NotSevered ==
  ASSUME Matched, IInv, NEW n \in Node, sq[n] # <<>>
  PROVE  ~Severed(n)
<1> DEFINE m == Peer(n)
<1>1. m \in Node /\ pos[m].test = pos[n].test /\ pos[n].label # "open"
  BY SameTest, Requested DEF Peer, Node
<1>2. LinkOK(n) /\ LinkOK(m) /\ pos[n].test \in Nat
  BY <1>1 DEF IInv, Inv, TypeOK, Position, PosNat
<1> QED BY <1>1, <1>2 DEF Severed, LinkOK

\* No request is ever flushed.
LEMMA FlushRequestStep ==
  ASSUME Matched, IInv, NEW n \in Node, FlushRequest(n)
  PROVE  IInv'
  BY NotSevered DEF FlushRequest, Flush

\* A message meets the buffer posted for it: both programs are at the same
\* meeting, so the message is the expected one and fits.
LEMMA DeliverMessageStep ==
  ASSUME Matched, IInv, NEW n \in Node, DeliverMessage(n)
  PROVE  IInv'
<1> DEFINE m == Peer(n)
<1>1. m \in Node /\ m # n /\ (\A k \in Node : k = n \/ k = m) /\ TypeOK /\ n = Peer(m)
  BY DEF Peer, Node, IInv
<1>2. /\ sq[n] # <<>> /\ Head(sq[n]).op = "send" /\ srq[m] # <<>>
      /\ UNCHANGED <<pos, blocked, dial, failed, mem, conn>>
  BY DEF DeliverMessage, Deliver
<1>3. /\ InSend(n) /\ sq[n] = << PostedBy(n) >> /\ scq[n] = <<>> /\ srq[n] = <<>> /\ rcq[n] = <<>>
      /\ blocked[n] /\ ~Met(n)
  BY <1>2, Requested DEF PostedBy
<1>4. /\ InReceive(m) /\ srq[m] = << BufferOf(m) >> /\ rcq[m] = <<>> /\ sq[m] = <<>> /\ scq[m] = <<>>
      /\ blocked[m]
  BY <1>1, <1>2 DEF IInv, Inv, CallOK, Idle
<1>5. ~Met(m)
  BY <1>1, <1>4, Kinds DEF Met, IInv, Inv, DialOK
<1>6. pos[n] = pos[m]
  <2>1. \A k \in Node : InSend(k) \/ InReceive(k)
    BY <1>1, <1>3, <1>4
  <2>2. Met("client") <=> Met("server")
    BY <1>1, <1>3, <1>5 DEF Node
  <2> QED BY <1>1, <2>1, <2>2, BothMet DEF Node
<1>7. Test(n) = Test(m) /\ Size(n) = Size(m) /\ DataSize[n] = DataSize[m]
      /\ (Exited(n) <=> Exited(m))
  BY <1>1, <1>6, SameTests DEF Test, Size, Exited, Matched, Node
<1>8. CallLen(n) = CallLen(m)
  BY <1>6, <1>7 DEF CallLen, At
<1>9. CallLen(n) <= BufferOf(m)
  <2>1. CASE ~At(n, {"data"})
    BY <1>6, <1>7, <2>1 DEF CallLen, BufferOf, At
  <2>2. CASE At(n, {"data"})
    <3>1. Size(n) \in Nat /\ Size(n) > 0 /\ BufferOf(m) = Size(n)
      BY <1>6, <1>7, <2>2, SizeType DEF BufferOf, At, PosNat
    <3>2. CASE Test(n) \in LatencyTests
      BY <2>2, <3>1, <3>2 DEF CallLen
    <3>3. CASE Test(n) \notin LatencyTests
      <4> DEFINE d == DataSize[n]
                 b == Size(n)
      <4>1. d \in Nat
        BY ConstantsAssumption DEF PosNat
      <4>2. CallLen(n) = PieceLen(d, b, pos[n].off)
        BY <2>2, <3>3 DEF CallLen
      <4> HIDE DEF d, b
      <4>3. b \in Nat /\ b > 0
        BY <3>1 DEF b
      <4>4. PieceLen(d, b, pos[n].off) <= b
        BY <4>1, <4>3, DivMod DEF PieceLen
      <4> QED BY <3>1, <4>2, <4>4 DEF b
    <3> QED BY <3>2, <3>3
  <2> QED BY <2>1, <2>2
<1>10. /\ Head(sq[n]) = PostedBy(n) /\ Head(srq[m]) = BufferOf(m)
       /\ PostedBy(n).len = CallLen(n) /\ PostedBy(n).at = pos[n]
  BY <1>3, <1>4 DEF PostedBy
<1>11. /\ sq' = [sq EXCEPT ![n] = <<>>]
       /\ scq' = [scq EXCEPT ![n] = <<"ok">>]
       /\ rcq' = [rcq EXCEPT ![m] = << [at |-> pos[m], len |-> CallLen(m), ok |-> TRUE] >>]
       /\ srq' = [srq EXCEPT ![m] = <<>>]
       /\ qp' = qp
  <2> DEFINE fits == Head(sq[n]).len <= Head(srq[m])
             msg  == [at |-> pos[m], len |-> CallLen(m), ok |-> TRUE]
  <2>1. fits = TRUE
    BY <1>9, <1>10
  <2>2. [at |-> Head(sq[n]).at, len |-> Head(sq[n]).len, ok |-> fits] = msg
    BY <1>6, <1>8, <1>10, <2>1
  <2>3. /\ Complete(n, "ok")
        /\ rcq' = [rcq EXCEPT ![m] = Append(@, msg)]
        /\ UNCHANGED qp
        /\ srq' = [srq EXCEPT ![m] = Tail(@)]
    <3> HIDE DEF msg
    <3>1. DeliverMessage(n) => Deliver(n)
      BY DEF DeliverMessage
    <3> QED BY <2>1, <2>2, <3>1 DEF Deliver
  <2>4. Tail(sq[n]) = <<>> /\ Tail(srq[m]) = <<>>
    BY <1>3, <1>4
  <2>5. Append(scq[n], "ok") = <<"ok">> /\ Append(rcq[m], msg) = << msg >>
    BY <1>3, <1>4
  <2>6. sq' = [sq EXCEPT ![n] = <<>>] /\ scq' = [scq EXCEPT ![n] = <<"ok">>]
    BY <1>1, <2>3, <2>4, <2>5 DEF Complete, TypeOK
  <2>7. rcq' = [rcq EXCEPT ![m] = << msg >>] /\ srq' = [srq EXCEPT ![m] = <<>>]
    BY <1>1, <2>3, <2>4, <2>5 DEF TypeOK
  <2> QED BY <2>3, <2>6, <2>7
<1>12. /\ sq'[n] = <<>> /\ scq'[n] = <<"ok">> /\ srq'[n] = <<>> /\ rcq'[n] = <<>>
       /\ sq'[m] = <<>> /\ scq'[m] = <<>> /\ srq'[m] = <<>>
       /\ rcq'[m] = << [at |-> pos[m], len |-> CallLen(m), ok |-> TRUE] >>
  BY <1>1, <1>3, <1>4, <1>11 DEF TypeOK
<1>13. TypeOK'
  <2>1. [at |-> pos[m], len |-> CallLen(m), ok |-> TRUE] \in Message
    <3>1. PostedBy(n) \in Request
      BY <1>3, CallTypes
    <3> QED BY <1>6, <1>8, <1>10, <3>1 DEF Request, Message
  <2> QED BY <1>1, <1>2, <1>11, <2>1 DEF TypeOK, Bytes
<1>14. \A k \in Node : PositionOK(k, pos[k])' /\ LinkOK(k)'
  BY <1>2, <1>11 DEF IInv, Inv, LinkOK
<1>15. \A k \in Node : CallOK(k)'
  <2>1. CallOK(n)'
    BY <1>2, <1>3, <1>12, Where DEF CallOK
  <2>2. CallOK(m)'
    BY <1>1, <1>2, <1>4, <1>12, Where DEF CallOK
  <2> QED BY <1>1, <2>1, <2>2
<1>16. DialOK'
  BY <1>2, Where DEF IInv, Inv, DialOK, Node
<1>17. Lockstep'
  <2>1. Met(n)' /\ Met(m)'
    BY <1>1, <1>2, <1>3, <1>4, <1>12, Where DEF Met
  <2>2. \A k \in Node : Met(k)'
    BY <1>1, <2>1
  <2>3. Meeting("client")' = Meeting("server")'
    <3>1. Meeting("client") = Meeting("server")
      BY <1>1, <1>3, <1>5 DEF IInv, Inv, Lockstep, Node
    <3> QED BY <1>2, <3>1, Where DEF Node
  <2> QED BY <2>2, <2>3 DEF Lockstep, Node
<1> QED BY <1>13, <1>14, <1>15, <1>16, <1>17 DEF IInv, Inv

\* A one-sided call stays inside the region of its test: in the throughput
\* tests because both sides have the same data size, in the latency tests
\* because the region has the largest size.
LEMMA InRegion ==
  ASSUME Matched, IInv, InOneSided("client")
  PROVE  FirstByte + CallLen("client") <= RegionSize(Test("client"))
<1> DEFINE d == DataSize["client"]
           b == Size("client")
           o == pos["client"].off
<1>1. ~Exited("client") /\ pos["client"].label = "data" /\ Test("client") \in OneSided
      /\ At("client", {"data"}) /\ o \in Nat
  BY Kinds, Here DEF Node, At, Position
<1>2. b \in Nat /\ b > 0 /\ d \in Nat /\ d = DataSize["server"]
  BY <1>1, SizeType, ConstantsAssumption DEF Node, PosNat, Matched
<1>3. CASE Test("client") \in LatencyTests
  BY <1>1, <1>2, <1>3, SizeType DEF FirstByte, CallLen, RegionSize, LatencyTests, Node
<1>4. CASE Test("client") \notin LatencyTests
  <2>1. Test("client") \in {"read_tp", "write_tp"}
    BY <1>1, <1>4 DEF OneSided, LatencyTests
  <2>2. o % b = 0 /\ o <= LastIndex(d, b)
    BY <1>1, <1>4, SizeType DEF Node
  <2>3. FirstByte = o /\ CallLen("client") = PieceLen(d, b, o) /\ RegionSize(Test("client")) = d
    BY <1>1, <1>2, <1>4, <2>1 DEF FirstByte, CallLen, RegionSize
  <2> HIDE DEF d, b, o
  <2>4. o + PieceLen(d, b, o) <= d
    BY <1>1, <1>2, <2>2, PieceInBuffer DEF o
  <2> QED BY <2>3, <2>4
<1> QED BY <1>3, <1>4

\* A read or write is carried out, on the region of the same test.
LEMMA AccessRegionStep ==
  ASSUME Matched, IInv, AccessRegion
  PROVE  IInv'
<1> DEFINE c == "client"
<1>1. /\ TypeOK /\ sq[c] # <<>> /\ Head(sq[c]).op \in {"read", "write"}
      /\ UNCHANGED <<pos, blocked, dial, failed, conn, srq, rcq>>
  BY DEF AccessRegion, Access, IInv
<1>2. /\ InOneSided(c) /\ sq[c] = << PostedBy(c) >> /\ scq[c] = <<>>
      /\ srq[c] = <<>> /\ rcq[c] = <<>> /\ blocked[c]
      /\ ~InSend(c) /\ ~InReceive(c)
  <2>1. ~InSend(c)
    BY <1>1, Requested DEF Node, PostedBy
  <2> QED BY <1>1, <2>1, Requested, Kinds DEF Node, OneSided, TwoSided
<1>3. Head(sq[c]) = PostedBy(c) /\ PostedBy(c).at = pos[c] /\ PostedBy(c).len = CallLen(c)
  BY <1>2 DEF PostedBy
<1>4. Test("server") = Test("client")
  BY <1>1, SameTest, SameTests DEF Test, Node, Peer
<1>5. FirstByte + CallLen(c) <= RegionSize(Test("server"))
  BY <1>2, <1>4, InRegion
<1>6. sq' = [sq EXCEPT ![c] = <<>>] /\ scq' = [scq EXCEPT ![c] = <<"ok">>] /\ qp' = qp
  <2> DEFINE allowed == FirstByte + Head(sq[c]).len <= RegionSize(Test("server"))
  <2>1. allowed = TRUE
    BY <1>3, <1>5
  <2>2. (IF Test("client") \in LatencyTests THEN 0 ELSE Head(sq[c]).at.off) = FirstByte
    BY <1>3 DEF FirstByte
  <2>3. Access(c, allowed)
    BY <2>2 DEF AccessRegion
  <2>4. Complete(c, "ok") /\ UNCHANGED qp
    BY <2>1, <2>3 DEF Access
  <2>5. Tail(sq[c]) = <<>> /\ Append(scq[c], "ok") = <<"ok">>
    BY <1>2
  <2> QED BY <1>1, <2>4, <2>5 DEF Complete, TypeOK, Node
<1>7. DOMAIN mem' = Node /\ \A k \in Node : mem'[k] \in [Bytes(k) -> Nat \cup {Junk}]
  <2>1. Bytes("client") = Bytes("server")
    BY DEF Bytes, Matched
  <2>2. PICK S : \/ mem' = mem
                 \/ mem' = [mem EXCEPT !["client"] = [i \in DOMAIN mem["client"] |->
                             IF i \in S THEN mem["server"][i] ELSE mem["client"][i]]]
                 \/ mem' = [mem EXCEPT !["server"] = [i \in DOMAIN mem["server"] |->
                             IF i \in S THEN mem["client"][i] ELSE mem["server"][i]]]
    BY DEF AccessRegion
  <2>3. CASE mem' = mem
    BY <1>1, <2>3 DEF TypeOK
  <2>4. CASE mem' = [mem EXCEPT !["client"] = [i \in DOMAIN mem["client"] |->
                             IF i \in S THEN mem["server"][i] ELSE mem["client"][i]]]
    BY <1>1, <2>1, <2>4 DEF TypeOK, Node
  <2>5. CASE mem' = [mem EXCEPT !["server"] = [i \in DOMAIN mem["server"] |->
                             IF i \in S THEN mem["client"][i] ELSE mem["server"][i]]]
    BY <1>1, <2>1, <2>5 DEF TypeOK, Node
  <2> QED BY <2>2, <2>3, <2>4, <2>5
<1>8. /\ sq'[c] = <<>> /\ scq'[c] = <<"ok">> /\ sq'["server"] = sq["server"] /\ scq'["server"] = scq["server"]
  BY <1>1, <1>6 DEF TypeOK, Node
<1>9. TypeOK'
  BY <1>1, <1>6, <1>7 DEF TypeOK, Bytes, Node
<1>10. \A k \in Node : PositionOK(k, pos[k])' /\ LinkOK(k)'
  BY <1>1, <1>6 DEF IInv, Inv, LinkOK
<1>11. \A k \in Node : CallOK(k)'
  <2>1. CallOK(c)'
    BY <1>1, <1>2, <1>8, Where DEF CallOK, Node
  <2>2. CallOK("server")'
    BY <1>1, <1>8, Frame DEF IInv, Inv, Node
  <2> QED BY <2>1, <2>2 DEF Node
<1>12. DialOK'
  BY <1>1, Where DEF IInv, Inv, DialOK, Node
<1>13. Lockstep'
  <2>1. \A k \in Node : Met(k)' <=> Met(k)
    BY <1>1, <1>2, <1>8, Where DEF Met, Node
  <2> QED BY <1>1, <2>1, NoMeeting
<1> QED BY <1>9, <1>10, <1>11, <1>12, <1>13 DEF IInv, Inv

\* Both programs start at their first connection, with nothing posted.
LEMMA InitInv ==
  ASSUME Matched, Init
  PROVE  IInv
<1> USE DEF Init, VerbsInit
<1>1. TypeOK
  BY ConstantsAssumption DEF TypeOK, Position, Labels, PosNat, Fresh, Bytes
<1>2. \A n \in Node : PositionOK(n, pos[n]) /\ CallOK(n) /\ LinkOK(n)
  BY TestsType DEF PositionOK, LabelsOf, CallOK, LinkOK, Idle
<1>3. DialOK /\ \A n \in Node : ~Met(n)
  BY DEF DialOK, Met, Node
<1>4. Meeting("client") = Meeting("server")
  BY DEF Meeting, ClientMeeting, ServerMeeting, Node
<1> QED BY <1>1, <1>2, <1>3, <1>4 DEF IInv, Inv, Lockstep, Node

\* Every step of either program and of the hardware preserves the invariant.
LEMMA NextInv ==
  ASSUME Matched, IInv, [Next]_vars
  PROVE  IInv'
<1>1. ASSUME NEW n \in Node, Program(n)
      PROVE  IInv'
  BY <1>1, SendControlMessageStep, SendDataStep, WaitUntilCompletedStep, WaitForControlMessageStep,
     PostDataBufferStep, ReceiveStep, RefillStep, CloseStep DEF Program
<1>2. CASE Client
  BY <1>1, <1>2, ConnectStep, ConnectReturnsStep, ReadOrWriteStep DEF Client, Node
<1>3. CASE Server
  BY <1>1, <1>3, AcceptStep DEF Server, Node
<1>4. CASE Hardware
  BY <1>4, DeliverMessageStep, FlushRequestStep, AccessRegionStep DEF Hardware
<1>5. CASE UNCHANGED vars
  <2>1. UNCHANGED <<pos, blocked, dial, failed, mem, conn, qp, sq, scq, srq, rcq>>
    BY <1>5 DEF vars, verbs
  <2>2. TypeOK'
    BY <2>1 DEF IInv, TypeOK, Bytes
  <2>3. \A k \in Node : PositionOK(k, pos[k])' /\ CallOK(k)' /\ LinkOK(k)'
    BY <2>1, Frame DEF IInv, Inv, LinkOK
  <2>4. DialOK'
    BY <2>1, Where DEF IInv, Inv, DialOK, Node
  <2>5. Lockstep'
    <3>1. \A k \in Node : Met(k)' <=> Met(k)
      BY <2>1, Where DEF Met
    <3> QED BY <2>1, <3>1, NoMeeting
  <2> QED BY <2>2, <2>3, <2>4, <2>5 DEF IInv, Inv
<1> QED BY <1>2, <1>3, <1>4, <1>5 DEF Next, Finished

\* Two programs started with the same metric and data size, where the data
\* size is no multiple of a buffer size, stay in lockstep: the inductive
\* invariant holds in every reachable state, for any list of sizes, number of
\* loops and data size.
THEOREM Invariance ==
  ASSUME Matched
  PROVE  Spec => []IInv
<1>1. Init => IInv
  BY InitInv
<1>2. IInv /\ [Next]_vars => IInv'
  BY NextInv
<1> QED BY <1>1, <1>2, PTL DEF Spec

-----------------------------------------------------------------------------
(* What holds of RdmaBench whatever the two programs are started with: no  *)
(* theorem from here on assumes Matched.  A program keeps to its own       *)
(* control flow, and each of its calls finds in the queues what the call   *)
(* itself has put there (AloneInv), even if the other program runs other   *)
(* tests, hangs, or makes requests fail.                                   *)

\* Nothing is left of a queue of one when its element is taken.
LEMMA Singleton ==
  ASSUME NEW S, NEW s \in Seq(S), Len(s) = 1
  PROVE  s # <<>> /\ Tail(s) = <<>>
<1>1. s # <<>>
  BY EmptySeq
<1>2. Tail(s) \in Seq(S) /\ Len(Tail(s)) = 0
  BY <1>1, HeadTailProperties
<1> QED BY <1>1, <1>2, EmptySeq

\* A running program stands in one of its tests, at a place of that test.
LEMMA HereAlone ==
  ASSUME AloneInv, NEW n \in Node
  PROVE  /\ pos[n] \in Position
         /\ PositionOK(n, pos[n])
         /\ CallAlone(n)
         /\ ~Exited(n) => /\ pos[n].test \in 1..Len(Tests(n))
                          /\ pos[n].test <= Len(Tests(n))
                          /\ Test(n) \in AllTests
                          /\ Test(n) = Tests(n)[pos[n].test]
                          /\ pos[n].label \in LabelsOf(n, Test(n))
<1>1. pos[n] \in Position /\ PositionOK(n, pos[n]) /\ CallAlone(n)
  BY DEF AloneInv, TypeOK
<1>2. Len(Tests(n)) \in Nat /\ pos[n].test \in Nat /\ pos[n].test > 0
  BY <1>1, TestsType DEF Position, PosNat
<1>3. ASSUME ~Exited(n)
      PROVE  /\ pos[n].test \in 1..Len(Tests(n))
             /\ Test(n) \in AllTests
             /\ pos[n].label \in LabelsOf(n, Test(n))
  BY <1>1, <1>2, <1>3, TestsType DEF Exited, Test, PositionOK
<1> QED BY <1>1, <1>2, <1>3 DEF Test

\* A step that touches neither the place nor the queues of a program leaves
\* its call in order.
LEMMA FrameAlone ==
  ASSUME NEW m \in Node, pos'[m] = pos[m], blocked'[m] = blocked[m],
         sq'[m] = sq[m], scq'[m] = scq[m], srq'[m] = srq[m], rcq'[m] = rcq[m]
  PROVE  CallAlone(m)' <=> CallAlone(m)
  BY Where DEF CallAlone, Idle

\* Where a call returns to.
LEMMA ReturnInside ==
  ASSUME AloneInv, NEW n \in Node, ~Exited(n), Return(n)
  PROVE  /\ pos' \in [Node -> Position]
         /\ blocked' \in [Node -> BOOLEAN]
         /\ ~blocked'[n]
         /\ pos'[Peer(n)] = pos[Peer(n)]
         /\ blocked'[Peer(n)] = blocked[Peer(n)]
         /\ \A k \in Node : PositionOK(k, pos'[k])
<1>1. /\ pos \in [Node -> Position] /\ blocked \in [Node -> BOOLEAN]
      /\ Peer(n) \in Node /\ Peer(n) # n
      /\ \A k \in Node : PositionOK(k, pos[k])
  BY DEF AloneInv, TypeOK, Peer, Node
<1>2. pos'[n] = IF n = "client" THEN ClientAfter(pos[n]) ELSE ServerAfter(pos[n])
  BY <1>1 DEF Return
<1>3. pos[n].test <= Len(Tests(n)) /\ pos[n] \in Position
  BY HereAlone
<1>4. pos'[n] \in Position /\ PositionOK(n, pos'[n])
  BY <1>1, <1>2, <1>3, ClientAfterOK, ServerAfterOK DEF Node
<1>5. \A k \in Node : k # n => pos'[k] = pos[k] /\ blocked'[k] = blocked[k]
  BY <1>1 DEF Return
<1>6. /\ pos' = [pos EXCEPT ![n] = pos'[n]]
      /\ blocked' = [blocked EXCEPT ![n] = FALSE]
  BY <1>1, <1>2 DEF Return
<1>7. pos' \in [Node -> Position]
  BY <1>1, <1>4, <1>6
<1>8. blocked' \in [Node -> BOOLEAN] /\ ~blocked'[n]
  BY <1>1, <1>6
<1>9. \A k \in Node : PositionOK(k, pos'[k])
  BY <1>1, <1>4, <1>5
<1> QED BY <1>1, <1>5, <1>7, <1>8, <1>9

\* The buffer size of a pass, and the values the inner loop takes in it.
LEMMA SizeAlone ==
  ASSUME AloneInv, NEW n \in Node, ~Exited(n), pos[n].label = "data"
  PROVE  /\ Size(n) \in PosNat
         /\ Test(n) \notin LatencyTests =>
              /\ pos[n].off % Size(n) = 0
              /\ pos[n].off <= LastIndex(DataSize[n], Size(n))
<1>1. /\ pos[n] \in Position /\ PositionOK(n, pos[n])
      /\ Test(n) \in AllTests /\ Test(n) = Tests(n)[pos[n].test]
      /\ pos[n].test <= Len(Tests(n)) /\ Len(Tests(n)) \in Nat
  BY HereAlone, TestsType
<1>2. pos[n].round \in 1..Len(Sizes(Test(n))) /\ StepOK(n, Test(n), Size(n), pos[n])
  BY <1>1 DEF PositionOK, Size, Position, PosNat
<1>3. Size(n) \in PosNat
  BY <1>1, <1>2, SizesType DEF Size
<1> QED BY <1>2, <1>3 DEF StepOK

\* What a call posts has the type the queues hold.
LEMMA CallTypesAlone ==
  ASSUME AloneInv, NEW n \in Node
  PROVE  /\ InSend(n) \/ InOneSided(n) => PostedBy(n) \in Request
         /\ InReceive(n) => BufferOf(n) \in PosNat
<1>1. pos[n] \in Position
  BY HereAlone
<1>2. CallLen(n) \in Nat /\ BufferOf(n) \in PosNat
  <2>1. CASE At(n, {"data"})
    <3>1. Size(n) \in Nat /\ Size(n) > 0
      BY <2>1, SizeAlone DEF At, PosNat
    <3>2. DataSize[n] \in Nat
      BY ConstantsAssumption DEF PosNat
    <3>3. PieceLen(DataSize[n], Size(n), pos[n].off) \in Nat
      <4> DEFINE d == DataSize[n]
                 b == Size(n)
      <4> HIDE DEF d, b
      <4>1. PieceLen(d, b, pos[n].off) \in Nat
        BY <3>1, <3>2, DivMod DEF PieceLen, d, b
      <4> QED BY <4>1 DEF d, b
    <3> QED BY <2>1, <3>1, <3>3 DEF CallLen, BufferOf, PosNat
  <2>2. CASE ~At(n, {"data"})
    BY <2>2 DEF CallLen, BufferOf, PosNat
  <2> QED BY <2>1, <2>2
<1> QED BY <1>1, <1>2 DEF PostedBy, Request

\* A call that posts a request, of either kind, preserves the invariant.
LEMMA PostingAlone ==
  ASSUME AloneInv, NEW n \in Node,
         InSend(n) \/ InOneSided(n),
         Call(n), PostRequest(n, PostedBy(n)),
         UNCHANGED <<pos, dial, failed, mem, conn, qp, scq, srq, rcq>>
  PROVE  AloneInv'
<1>1. TypeOK /\ Idle(n)
  BY DEF AloneInv, CallAlone, Call
<1>2. /\ blocked' \in [Node -> BOOLEAN]
      /\ blocked'[n]
      /\ \A k \in Node : k # n => blocked'[k] = blocked[k] /\ sq'[k] = sq[k]
      /\ sq' \in [Node -> Seq(Request)]
      /\ sq'[n] = << PostedBy(n) >>
  BY <1>1, CallTypesAlone DEF TypeOK, Call, PostRequest, Idle
<1>3. TypeOK'
  BY <1>1, <1>2 DEF TypeOK, Bytes
<1>4. \A k \in Node : PositionOK(k, pos[k])'
  BY DEF AloneInv
<1>5. \A k \in Node : CallAlone(k)'
  <2>1. CallAlone(n)'
    BY <1>1, <1>2, Where DEF CallAlone, Idle
  <2>2. ASSUME NEW k \in Node, k # n PROVE CallAlone(k)'
    BY <1>2, <2>2, FrameAlone DEF AloneInv
  <2> QED BY <2>1, <2>2
<1>6. DialOK'
  BY <1>2, Kinds, Where DEF AloneInv, DialOK, Node
<1> QED BY <1>3, <1>4, <1>5, <1>6 DEF AloneInv

\* A call that posts a receive buffer preserves the invariant.
LEMMA ReceivingAlone ==
  ASSUME AloneInv, NEW n \in Node,
         InReceive(n),
         Call(n), PostReceiveBuffer(n, BufferOf(n)),
         DOMAIN mem' = Node, \A k \in Node : mem'[k] \in [Bytes(k) -> Nat \cup {Junk}],
         UNCHANGED <<pos, dial, failed, conn, qp, sq, scq, rcq>>
  PROVE  AloneInv'
<1>1. TypeOK /\ Idle(n)
  BY DEF AloneInv, CallAlone, Call
<1>2. /\ blocked' \in [Node -> BOOLEAN]
      /\ blocked'[n]
      /\ \A k \in Node : k # n => blocked'[k] = blocked[k] /\ srq'[k] = srq[k]
      /\ srq' \in [Node -> Seq(PosNat)]
      /\ srq'[n] = << BufferOf(n) >>
  BY <1>1, CallTypesAlone DEF TypeOK, Call, PostReceiveBuffer, Idle
<1>3. TypeOK'
  BY <1>1, <1>2 DEF TypeOK, Bytes
<1>4. \A k \in Node : PositionOK(k, pos[k])'
  BY DEF AloneInv
<1>5. \A k \in Node : CallAlone(k)'
  <2>1. CallAlone(n)'
    BY <1>1, <1>2, Where DEF CallAlone, Idle
  <2>2. ASSUME NEW k \in Node, k # n PROVE CallAlone(k)'
    BY <1>2, <2>2, FrameAlone DEF AloneInv
  <2> QED BY <2>1, <2>2
<1>6. DialOK'
  BY <1>2, Kinds, Where DEF AloneInv, DialOK, Node
<1> QED BY <1>3, <1>4, <1>5, <1>6 DEF AloneInv

\* Returning from a call that is over preserves it, whatever came of the call.
LEMMA ReturningAlone ==
  ASSUME AloneInv, NEW n \in Node, ~Exited(n), Return(n), ~InOpen(n),
         DOMAIN mem' = Node, \A k \in Node : mem'[k] \in [Bytes(k) -> Nat \cup {Junk}],
         failed' \in [Node -> BOOLEAN], conn' \in [Node -> Nat],
         qp' \in [Node -> {"up", "down", "error"}],
         UNCHANGED <<dial, sq, srq>>,
         sq[n] = <<>>, srq[n] = <<>>, scq'[n] = <<>>, rcq'[n] = <<>>,
         scq' \in [Node -> Seq({"ok", "failed"})], rcq' \in [Node -> Seq(Message)],
         scq'[Peer(n)] = scq[Peer(n)], rcq'[Peer(n)] = rcq[Peer(n)]
  PROVE  AloneInv'
<1> DEFINE m == Peer(n)
<1>1. m \in Node /\ \A k \in Node : k = n \/ k = m
  BY DEF Peer, Node
<1>2. TypeOK'
  BY ReturnInside DEF AloneInv, TypeOK, Bytes
<1>3. \A k \in Node : PositionOK(k, pos[k])'
  BY ReturnInside
<1>4. \A k \in Node : CallAlone(k)'
  <2>1. CallAlone(n)'
    BY ReturnInside DEF CallAlone, Idle
  <2>2. CallAlone(m)'
    BY <1>1, ReturnInside, FrameAlone DEF AloneInv
  <2> QED BY <1>1, <2>1, <2>2
<1>5. DialOK'
  <2>1. n = "client" => dial = "none" /\ ~blocked'["client"]
    BY ReturnInside DEF AloneInv, DialOK
  <2>2. n = "server" => (InOpen("client")' <=> InOpen("client")) /\ blocked'["client"] = blocked["client"]
    BY <1>1, ReturnInside, Where DEF Peer, Node
  <2> QED BY <2>1, <2>2 DEF AloneInv, DialOK, Node
<1> QED BY <1>2, <1>3, <1>4, <1>5 DEF AloneInv

\* The calls that post a request.
LEMMA RequestsAlone ==
  ASSUME AloneInv, NEW n \in Node,
         \/ SendControlMessage(n)
         \/ SendData(n)
         \/ n = "client" /\ ReadOrWrite
  PROVE  AloneInv'
<1>1. CASE SendControlMessage(n)
  <2>1. InSend(n) /\ PostedBy(n) = [op |-> "send", at |-> pos[n], len |-> 1]
    BY <1>1 DEF SendControlMessage, InSend, PostedBy, CallLen, SendsControl, At
  <2> QED BY <1>1, <2>1, PostingAlone DEF SendControlMessage, Post
<1>2. CASE SendData(n)
  <2>1. InSend(n) /\ PostedBy(n) = [op |-> "send", at |-> pos[n],
          len |-> IF n = "client" THEN Size(n) ELSE PieceLen(DataSize[n], Size(n), pos[n].off)]
    BY <1>2 DEF SendData, InSend, PostedBy, CallLen, SendsData, LatencyTests, Node
  <2> QED BY <1>2, <2>1, PostingAlone DEF SendData, Post
<1>3. CASE n = "client" /\ ReadOrWrite
  <2>1. ~Exited("client") /\ pos["client"].label = "data" /\ Test("client") \in OneSided
        /\ InOneSided("client")
    BY <1>3, HereAlone DEF ReadOrWrite, At, InOneSided, OneSided, AllTests, TwoSided, Node
  <2>2. ~InSend("client")
    BY <2>1, Kinds DEF OneSided, TwoSided, Node
  <2>3. PostedBy("client") = [op |-> IF Test("client") \in {"read_tp", "read_lat"} THEN "read" ELSE "write",
                              at |-> pos["client"], len |-> OneSidedLen(Size("client"))]
    BY <2>1, <2>2 DEF PostedBy, CallLen, OneSidedLen, At
  <2> QED BY <1>3, <2>1, <2>3, PostingAlone DEF ReadOrWrite, Post, Node
<1> QED BY <1>1, <1>2, <1>3

\* The calls that post a receive buffer.
LEMMA ReceivesAlone ==
  ASSUME AloneInv, NEW n \in Node, WaitForControlMessage(n) \/ PostDataBuffer(n)
  PROVE  AloneInv'
<1>1. CASE WaitForControlMessage(n)
  <2>1. InReceive(n) /\ BufferOf(n) = 1
    BY <1>1 DEF WaitForControlMessage, InReceive, BufferOf, WaitsForControl, At
  <2>2. DOMAIN mem' = Node /\ \A k \in Node : mem'[k] \in [Bytes(k) -> Nat \cup {Junk}]
    BY <1>1 DEF WaitForControlMessage, Fresh, Bytes, AloneInv, TypeOK
  <2> QED BY <1>1, <2>1, <2>2, ReceivingAlone DEF WaitForControlMessage
<1>2. CASE PostDataBuffer(n)
  <2>1. InReceive(n) /\ BufferOf(n) = Size(n)
    BY <1>2 DEF PostDataBuffer, InReceive, BufferOf, ReceivesData, At
  <2>2. DOMAIN mem' = Node /\ \A k \in Node : mem'[k] \in [Bytes(k) -> Nat \cup {Junk}]
    BY <1>2 DEF PostDataBuffer, Bytes, AloneInv, TypeOK
  <2> QED BY <1>2, <2>1, <2>2, ReceivingAlone DEF PostDataBuffer
<1> QED BY <1>1, <1>2

\* A request has completed, with whatever outcome.
LEMMA WaitUntilCompletedAlone ==
  ASSUME AloneInv, NEW n \in Node, WaitUntilCompleted(n)
  PROVE  AloneInv'
<1>1. /\ Peer(n) \in Node /\ Peer(n) # n
      /\ TypeOK /\ CallAlone(n)
  BY DEF AloneInv, Peer, Node
<1>2. /\ InSend(n) \/ InOneSided(n)
      /\ Len(scq[n]) = 1 /\ sq[n] = <<>> /\ srq[n] = <<>> /\ rcq[n] = <<>>
      /\ scq[n] \in Seq({"ok", "failed"})
  BY <1>1 DEF WaitUntilCompleted, CallAlone, Idle, TypeOK
<1>3. ~Exited(n) /\ ~InOpen(n)
  BY <1>2, Kinds
<1>4. Tail(scq[n]) = <<>>
  BY <1>2, Singleton
<1>5. /\ scq'[n] = <<>> /\ rcq'[n] = <<>>
      /\ scq'[Peer(n)] = scq[Peer(n)] /\ rcq'[Peer(n)] = rcq[Peer(n)]
      /\ scq' \in [Node -> Seq({"ok", "failed"})] /\ rcq' \in [Node -> Seq(Message)]
  BY <1>1, <1>2, <1>4 DEF WaitUntilCompleted, TypeOK
<1>6. failed' \in [Node -> BOOLEAN]
  <2>1. (failed[n] \/ Head(scq[n]) = "failed") \in BOOLEAN
    OBVIOUS
  <2> QED BY <1>1, <2>1 DEF WaitUntilCompleted, TypeOK
<1>7. /\ DOMAIN mem' = Node /\ \A k \in Node : mem'[k] \in [Bytes(k) -> Nat \cup {Junk}]
      /\ conn' \in [Node -> Nat] /\ qp' \in [Node -> {"up", "down", "error"}]
      /\ UNCHANGED <<dial, sq, srq>> /\ Return(n)
  BY <1>1 DEF WaitUntilCompleted, TypeOK
<1> QED BY <1>2, <1>3, <1>5, <1>6, <1>7, ReturningAlone

\* A message has arrived, whichever it is.
LEMMA ReceiveAlone ==
  ASSUME AloneInv, NEW n \in Node, Receive(n)
  PROVE  AloneInv'
<1>1. /\ Peer(n) \in Node /\ Peer(n) # n
      /\ TypeOK /\ CallAlone(n)
  BY DEF AloneInv, Peer, Node
<1>2. /\ InReceive(n)
      /\ scq[n] = <<>> /\ sq[n] = <<>> /\ srq[n] = <<>> /\ Len(rcq[n]) = 1
      /\ rcq[n] \in Seq(Message)
  BY <1>1 DEF Receive, CallAlone, Idle, TypeOK
<1>3. ~Exited(n) /\ ~InOpen(n)
  BY <1>2, Kinds
<1>4. Tail(rcq[n]) = <<>>
  BY <1>2, Singleton
<1>5. /\ scq'[n] = <<>> /\ rcq'[n] = <<>>
      /\ scq'[Peer(n)] = scq[Peer(n)] /\ rcq'[Peer(n)] = rcq[Peer(n)]
      /\ scq' \in [Node -> Seq({"ok", "failed"})] /\ rcq' \in [Node -> Seq(Message)]
  BY <1>1, <1>2, <1>4 DEF Receive, TypeOK
<1>6. /\ DOMAIN mem' = Node /\ \A k \in Node : mem'[k] \in [Bytes(k) -> Nat \cup {Junk}]
      /\ conn' \in [Node -> Nat] /\ qp' \in [Node -> {"up", "down", "error"}]
      /\ failed' \in [Node -> BOOLEAN]
      /\ UNCHANGED <<dial, sq, srq>> /\ Return(n)
  BY <1>1 DEF Receive, TypeOK
<1> QED BY <1>2, <1>3, <1>5, <1>6, ReturningAlone

\* A buffer is refilled or cleared, or a test ends.
LEMMA LocalAlone ==
  ASSUME AloneInv, NEW n \in Node, Refill(n) \/ Close(n)
  PROVE  AloneInv'
<1>1. /\ ~Exited(n) /\ pos[n].label \in {"fill", "close"} /\ Return(n) /\ TypeOK
      /\ pos[n].round \in Nat /\ Peer(n) \in Node /\ Peer(n) # n
  BY DEF Refill, Close, At, AloneInv, TypeOK, Position, Peer, Node
<1>2. ~InSend(n) /\ ~InReceive(n) /\ ~InOneSided(n) /\ ~InOpen(n)
  BY <1>1, Kinds
<1>3. Idle(n)
  BY <1>2 DEF AloneInv, CallAlone
<1>4. DOMAIN mem' = Node /\ \A k \in Node : mem'[k] \in [Bytes(k) -> Nat \cup {Junk}]
  <2>1. CASE mem' = [mem EXCEPT ![n] = Zeroed(DataSize[n])]
    BY <1>1, <2>1, BufferTypes, MemUpdate
  <2>2. CASE \E k \in 0..DataSize[n] :
             mem' = [mem EXCEPT ![n] = Scribble(@, k, IF n = "client" THEN pos[n].round + 1
                                                                     ELSE pos[n].round)]
    <3> DEFINE byte == IF n = "client" THEN pos[n].round + 1 ELSE pos[n].round
    <3>1. PICK k \in 0..DataSize[n] : mem' = [mem EXCEPT ![n] = Scribble(mem[n], k, byte)]
      BY <1>1, <2>2
    <3>2. k \in Nat /\ byte \in Nat /\ mem[n] \in [Bytes(n) -> Contents]
      BY <1>1, ConstantsAssumption DEF TypeOK, Contents, PosNat
    <3>3. Scribble(mem[n], k, byte) \in [Bytes(n) -> Contents]
      BY <3>2, BufferTypes
    <3> QED BY <1>1, <3>1, <3>3, MemUpdate
  <2>3. CASE mem' = mem
    BY <1>1, <2>3 DEF TypeOK
  <2> QED BY <2>1, <2>2, <2>3 DEF Refill, Close
<1>5. /\ UNCHANGED <<dial, failed, conn, sq, scq, srq, rcq>>
      /\ qp' \in [Node -> {"up", "down", "error"}]
  BY <1>1 DEF Refill, Close, CloseQueuePair, verbs, TypeOK
<1> QED BY <1>1, <1>2, <1>3, <1>4, <1>5, ReturningAlone DEF Idle, TypeOK

\* The client asks for a connection.
LEMMA ConnectAlone ==
  ASSUME AloneInv, Connect
  PROVE  AloneInv'
<1>1. /\ TypeOK /\ Idle("client")
      /\ ~Exited("client") /\ pos["client"].label = "open" /\ InOpen("client")
  BY DEF AloneInv, CallAlone, Connect, Call, At, InOpen, Node
<1>2. /\ blocked' \in [Node -> BOOLEAN]
      /\ blocked'["client"]
      /\ blocked'["server"] = blocked["server"]
  BY <1>1 DEF TypeOK, Connect, Call, Node
<1>3. DOMAIN mem' = Node /\ \A k \in Node : mem'[k] \in [Bytes(k) -> Nat \cup {Junk}]
  <2>1. CASE Test("client") = "write_tp"
    <3>1. PICK k \in 0..DataSize["client"] :
            mem' = [mem EXCEPT !["client"] = Scribble(Zeroed(DataSize["client"]), k, 1)]
      BY <2>1 DEF Connect
    <3>2. Scribble(Zeroed(DataSize["client"]), k, 1) \in [Bytes("client") -> Contents]
      <4>1. "client" \in Node /\ k \in Nat
        BY ConstantsAssumption DEF Node, PosNat
      <4>2. Zeroed(DataSize["client"]) \in [Bytes("client") -> Contents]
        BY <4>1, BufferTypes
      <4> QED BY <4>1, <4>2, BufferTypes
    <3> QED BY <1>1, <3>1, <3>2, MemUpdate DEF Node
  <2>2. CASE Test("client") # "write_tp"
    BY <1>1, <2>2 DEF Connect, TypeOK
  <2> QED BY <2>1, <2>2
<1>4. TypeOK'
  BY <1>1, <1>2, <1>3 DEF TypeOK, Bytes, Connect, verbs
<1>5. \A k \in Node : CallAlone(k)'
  <2>1. CallAlone("client")'
    BY <1>1, <1>2, Where DEF CallAlone, Idle, Connect, verbs, Node
  <2>2. CallAlone("server")'
    BY <1>2, FrameAlone DEF AloneInv, Connect, verbs, Node
  <2> QED BY <2>1, <2>2 DEF Node
<1>6. DialOK'
  BY <1>1, <1>2, Where DEF DialOK, Connect, Node
<1>7. \A k \in Node : PositionOK(k, pos[k])'
  BY DEF AloneInv, Connect
<1> QED BY <1>4, <1>5, <1>6, <1>7 DEF AloneInv

\* The server accepts a client that may be in another test.
LEMMA AcceptAlone ==
  ASSUME AloneInv, Accept
  PROVE  AloneInv'
<1>1. /\ TypeOK /\ dial = "requested" /\ dial' = "accepted"
      /\ ~Exited("server") /\ pos["server"].label = "open"
      /\ Return("server")
      /\ InOpen("client") /\ blocked["client"]
      /\ pos'["client"] = pos["client"] /\ blocked'["client"] = blocked["client"]
      /\ UNCHANGED <<failed, sq, scq, srq, rcq>>
  BY DEF Accept, At, AloneInv, DialOK, Node, TypeOK, Return
<1>2. Idle("server")
  BY <1>1, Kinds DEF AloneInv, CallAlone, Node
<1>3. DOMAIN mem' = Node /\ \A k \in Node : mem'[k] \in [Bytes(k) -> Nat \cup {Junk}]
  BY <1>1, BufferTypes, MemUpdate DEF Accept, TypeOK, Node, Contents
<1>4. TypeOK'
  BY <1>1, <1>3, ReturnInside DEF TypeOK, Bytes, Accept, OpenQueuePair, Node
<1>5. \A k \in Node : PositionOK(k, pos[k])'
  BY <1>1, ReturnInside DEF Node
<1>6. \A k \in Node : CallAlone(k)'
  <2>1. CallAlone("server")'
    BY <1>1, <1>2, ReturnInside DEF CallAlone, Idle, Node
  <2>2. CallAlone("client")'
    BY <1>1, FrameAlone DEF AloneInv, Node
  <2> QED BY <2>1, <2>2 DEF Node
<1>7. DialOK'
  BY <1>1, Where DEF DialOK, Node
<1> QED BY <1>4, <1>5, <1>6, <1>7 DEF AloneInv

\* The client learns that it is connected.
LEMMA ConnectReturnsAlone ==
  ASSUME AloneInv, ConnectReturns
  PROVE  AloneInv'
<1>1. /\ TypeOK /\ dial = "accepted" /\ dial' = "none"
      /\ Return("client")
      /\ InOpen("client") /\ blocked["client"]
      /\ pos'["server"] = pos["server"] /\ blocked'["server"] = blocked["server"]
      /\ UNCHANGED <<failed, mem, sq, scq, srq, rcq>>
  BY DEF ConnectReturns, AloneInv, DialOK, Node, TypeOK, Return
<1>2. ~Exited("client") /\ Idle("client")
  BY <1>1, Kinds DEF AloneInv, CallAlone, Node
<1>3. TypeOK'
  BY <1>1, <1>2, ReturnInside DEF TypeOK, Bytes, ConnectReturns, OpenQueuePair, Node
<1>4. \A k \in Node : PositionOK(k, pos[k])'
  BY <1>1, <1>2, ReturnInside DEF Node
<1>5. \A k \in Node : CallAlone(k)'
  <2>1. CallAlone("client")'
    BY <1>1, <1>2, ReturnInside DEF CallAlone, Idle, Node
  <2>2. CallAlone("server")'
    BY <1>1, FrameAlone DEF AloneInv, Node
  <2> QED BY <2>1, <2>2 DEF Node
<1>6. DialOK'
  BY <1>1, <1>2, ReturnInside DEF DialOK, Node
<1> QED BY <1>3, <1>4, <1>5, <1>6 DEF AloneInv

\* A program with a request outstanding is inside the call that posted it.
LEMMA RequestedAlone ==
  ASSUME AloneInv, NEW n \in Node, sq[n] # <<>>
  PROVE  /\ blocked[n]
         /\ InSend(n) \/ InOneSided(n)
         /\ sq[n] = << PostedBy(n) >> /\ scq[n] = <<>> /\ srq[n] = <<>> /\ rcq[n] = <<>>
  BY DEF AloneInv, CallAlone, Idle

\* The hardware completes a request of n, with either outcome, and perhaps
\* hands its message to the other program.
LEMMA CompletionAlone ==
  ASSUME AloneInv, NEW n \in Node, sq[n] # <<>>,
         NEW outcome \in {"ok", "failed"}, Complete(n, outcome),
         UNCHANGED <<pos, blocked, dial, failed, conn>>,
         qp' \in [Node -> {"up", "down", "error"}],
         DOMAIN mem' = Node, \A k \in Node : mem'[k] \in [Bytes(k) -> Nat \cup {Junk}],
         \/ UNCHANGED <<srq, rcq>>
         \/ /\ srq[Peer(n)] # <<>>
            /\ srq' = [srq EXCEPT ![Peer(n)] = Tail(@)]
            /\ \E msg \in Message : rcq' = [rcq EXCEPT ![Peer(n)] = Append(@, msg)]
  PROVE  AloneInv'
<1> DEFINE m == Peer(n)
<1>1. m \in Node /\ m # n /\ (\A k \in Node : k = n \/ k = m) /\ TypeOK
  BY DEF Peer, Node, AloneInv
<1>2. /\ blocked[n]
      /\ InSend(n) \/ InOneSided(n)
      /\ sq[n] = << PostedBy(n) >> /\ scq[n] = <<>> /\ srq[n] = <<>> /\ rcq[n] = <<>>
  BY RequestedAlone
<1>3. /\ sq' = [sq EXCEPT ![n] = <<>>] /\ scq' = [scq EXCEPT ![n] = << outcome >>]
  <2>1. Tail(sq[n]) = <<>> /\ Append(scq[n], outcome) = << outcome >>
    BY <1>2
  <2> QED BY <1>1, <2>1 DEF Complete, TypeOK
<1>4. /\ sq' \in [Node -> Seq(Request)] /\ scq' \in [Node -> Seq({"ok", "failed"})]
      /\ sq'[n] = <<>> /\ Len(scq'[n]) = 1
      /\ sq'[m] = sq[m] /\ scq'[m] = scq[m]
  BY <1>1, <1>3 DEF TypeOK
<1>5. CASE UNCHANGED <<srq, rcq>>
  <2>1. TypeOK'
    BY <1>1, <1>4, <1>5 DEF TypeOK, Bytes
  <2>2. CallAlone(n)'
    BY <1>2, <1>4, <1>5, Where DEF CallAlone
  <2>3. CallAlone(m)'
    BY <1>1, <1>4, <1>5, FrameAlone DEF AloneInv
  <2> QED BY <1>1, <2>1, <2>2, <2>3, Where DEF AloneInv, DialOK, Node
<1>6. CASE /\ srq[m] # <<>>
           /\ srq' = [srq EXCEPT ![m] = Tail(@)]
           /\ \E msg \in Message : rcq' = [rcq EXCEPT ![m] = Append(@, msg)]
  <2>1. PICK msg \in Message : rcq' = [rcq EXCEPT ![m] = Append(@, msg)]
    BY <1>6
  <2>2. /\ InReceive(m) /\ srq[m] = << BufferOf(m) >> /\ rcq[m] = <<>> /\ sq[m] = <<>> /\ scq[m] = <<>>
        /\ blocked[m]
    BY <1>1, <1>6 DEF AloneInv, CallAlone, Idle
  <2>3. Tail(srq[m]) = <<>> /\ Append(rcq[m], msg) = << msg >>
    BY <2>2
  <2>4. srq' = [srq EXCEPT ![m] = <<>>] /\ rcq' = [rcq EXCEPT ![m] = << msg >>]
    BY <1>1, <1>6, <2>1, <2>3 DEF TypeOK
  <2>5. /\ srq' \in [Node -> Seq(PosNat)] /\ rcq' \in [Node -> Seq(Message)]
        /\ srq'[m] = <<>> /\ Len(rcq'[m]) = 1
        /\ srq'[n] = srq[n] /\ rcq'[n] = rcq[n]
    BY <1>1, <2>4 DEF TypeOK
  <2>6. TypeOK'
    BY <1>1, <1>4, <2>5 DEF TypeOK, Bytes
  <2>7. CallAlone(n)'
    BY <1>2, <1>4, <2>5, Where DEF CallAlone
  <2>8. CallAlone(m)'
    BY <1>1, <1>4, <2>2, <2>5, Where DEF CallAlone
  <2> QED BY <1>1, <2>6, <2>7, <2>8, Where DEF AloneInv, DialOK, Node
<1> QED BY <1>5, <1>6

\* A message meets a buffer, which may be the wrong one or too small, or the
\* request is flushed.
LEMMA MessageAlone ==
  ASSUME AloneInv, NEW n \in Node, DeliverMessage(n) \/ FlushRequest(n)
  PROVE  AloneInv'
<1>1. TypeOK /\ Peer(n) \in Node /\ sq[n] # <<>>
  BY DEF AloneInv, Peer, Node, DeliverMessage, Deliver, FlushRequest, Flush
<1>2. PostedBy(n) \in Request /\ sq[n] = << PostedBy(n) >> /\ Head(sq[n]) = PostedBy(n)
  BY <1>1, RequestedAlone, CallTypesAlone
<1>3. /\ UNCHANGED <<pos, blocked, dial, failed, conn>>
      /\ DOMAIN mem' = Node /\ \A k \in Node : mem'[k] \in [Bytes(k) -> Nat \cup {Junk}]
  BY <1>1 DEF DeliverMessage, Deliver, FlushRequest, Flush, TypeOK
<1>4. qp' \in [Node -> {"up", "down", "error"}]
  BY <1>1 DEF DeliverMessage, Deliver, FlushRequest, Flush, Break, TypeOK
<1>5. CASE DeliverMessage(n)
  <2> DEFINE fits == Head(sq[n]).len <= Head(srq[Peer(n)])
             msg  == [at |-> Head(sq[n]).at, len |-> Head(sq[n]).len, ok |-> fits]
  <2>1. /\ Complete(n, IF fits THEN "ok" ELSE "failed")
        /\ rcq' = [rcq EXCEPT ![Peer(n)] = Append(@, msg)]
        /\ srq[Peer(n)] # <<>> /\ srq' = [srq EXCEPT ![Peer(n)] = Tail(@)]
    BY <1>5 DEF DeliverMessage, Deliver
  <2>2. fits \in BOOLEAN
    OBVIOUS
  <2>3. msg \in Message
    <3> HIDE DEF fits
    <3> QED BY <1>2, <2>2 DEF Message, Request
  <2> HIDE DEF msg, fits
  <2>4. (IF fits THEN "ok" ELSE "failed") \in {"ok", "failed"}
    OBVIOUS
  <2> QED BY <1>1, <1>3, <1>4, <2>1, <2>3, <2>4, CompletionAlone
<1>6. CASE FlushRequest(n)
  <2>1. Complete(n, "failed") /\ UNCHANGED <<srq, rcq>>
    BY <1>6 DEF FlushRequest, Flush
  <2> QED BY <1>1, <1>3, <1>4, <2>1, CompletionAlone
<1> QED BY <1>5, <1>6

\* A read or write reaches the server, whose region may be too small for it.
LEMMA AccessAlone ==
  ASSUME AloneInv, AccessRegion
  PROVE  AloneInv'
<1> DEFINE c == "client"
           from == IF Test(c) \in LatencyTests THEN 0 ELSE Head(sq[c]).at.off
           len == Head(sq[c]).len
           allowed == from + len <= RegionSize(Test("server"))
<1>1. /\ TypeOK /\ sq[c] # <<>> /\ Head(sq[c]).op \in {"read", "write"} /\ c \in Node
      /\ UNCHANGED <<pos, blocked, dial, failed, conn, srq, rcq>>
      /\ Access(c, allowed)
  BY DEF AccessRegion, Access, AloneInv, Node
<1>2. /\ InOneSided(c) /\ Head(sq[c]) = PostedBy(c)
      /\ PostedBy(c) \in Request /\ len = CallLen(c) /\ Head(sq[c]).at = pos[c]
  <2>1. /\ Head(sq[c]) = PostedBy(c) /\ PostedBy(c) \in Request
        /\ InSend(c) \/ InOneSided(c)
    BY <1>1, RequestedAlone, CallTypesAlone
  <2>2. ~InSend(c)
    BY <1>1, <2>1 DEF PostedBy
  <2> QED BY <2>1, <2>2 DEF PostedBy
<1>3. /\ ~Exited(c) /\ pos[c].label = "data" /\ pos[c] \in Position
      /\ from \in Nat /\ len \in Nat
  BY <1>1, <1>2, Kinds, HereAlone DEF Position, Request, LatencyTests
<1>4. Test(c) = "write_tp" => from + len <= DataSize[c]
  <2> SUFFICES ASSUME Test(c) = "write_tp" PROVE from + len <= DataSize[c]
    OBVIOUS
  <2> DEFINE d == DataSize[c]
             b == Size(c)
             o == pos[c].off
  <2>1. /\ b \in Nat /\ b > 0 /\ d \in Nat /\ o \in Nat
        /\ o % b = 0 /\ o <= LastIndex(d, b)
    BY <1>3, SizeAlone, ConstantsAssumption DEF Node, PosNat, Position, LatencyTests
  <2>2. from = o /\ len = PieceLen(d, b, o)
    BY <1>2, <1>3 DEF CallLen, At, LatencyTests
  <2> HIDE DEF d, b, o
  <2>3. o + PieceLen(d, b, o) <= d
    BY <2>1, PieceInBuffer
  <2> QED BY <2>2, <2>3 DEF d
<1>5. DOMAIN mem' = Node /\ \A k \in Node : mem'[k] \in [Bytes(k) -> Nat \cup {Junk}]
  <2> HIDE DEF from, len
  <2>1. CASE mem' = mem
    BY <1>1, <2>1 DEF TypeOK
  <2>2. CASE /\ allowed /\ Test(c) = "read_tp" /\ Test("server") = "read_tp"
             /\ mem' = [mem EXCEPT ![c] = [i \in DOMAIN mem[c] |->
                          IF i \in from..(from + len - 1) THEN mem["server"][i] ELSE mem[c][i]]]
    <3>1. from + len <= DataSize["server"] /\ DataSize["server"] \in Nat
      <4>1. \A t : t = "read_tp" => RegionSize(t) = DataSize["server"]
        BY DEF RegionSize, LatencyTests
      <4> QED BY <2>2, <4>1, ConstantsAssumption DEF Node, PosNat
    <3>2. /\ mem[c] \in [Bytes(c) -> Contents] /\ mem["server"] \in [Bytes("server") -> Contents]
      BY <1>1 DEF TypeOK, Node, Contents
    <3>3. \A i \in from..(from + len - 1) : i \in Bytes("server")
      BY <1>3, <3>1 DEF Bytes
    <3>4. [i \in DOMAIN mem[c] |-> IF i \in from..(from + len - 1) THEN mem["server"][i] ELSE mem[c][i]]
            \in [Bytes(c) -> Contents]
      BY <3>2, <3>3
    <3> QED BY <1>1, <2>2, <3>4, MemUpdate
  <2>3. CASE /\ Test(c) = "write_tp"
             /\ mem' = [mem EXCEPT !["server"] = [i \in DOMAIN mem["server"] |->
                          IF i \in from..(from + len - 1) THEN mem[c][i] ELSE mem["server"][i]]]
    <3>1. from + len <= DataSize[c] /\ DataSize[c] \in Nat
      BY <1>4, <2>3, ConstantsAssumption DEF Node, PosNat
    <3>2. /\ mem[c] \in [Bytes(c) -> Contents] /\ mem["server"] \in [Bytes("server") -> Contents]
      BY <1>1 DEF TypeOK, Node, Contents
    <3>3. \A i \in from..(from + len - 1) : i \in Bytes(c)
      BY <1>3, <3>1 DEF Bytes
    <3>4. [i \in DOMAIN mem["server"] |-> IF i \in from..(from + len - 1) THEN mem[c][i] ELSE mem["server"][i]]
            \in [Bytes("server") -> Contents]
      BY <3>2, <3>3
    <3> QED BY <1>1, <2>3, <3>4, MemUpdate DEF Node
  <2> QED BY <2>1, <2>2, <2>3 DEF AccessRegion, from, len
<1> HIDE DEF allowed
<1>6. /\ Complete(c, IF allowed THEN "ok" ELSE "failed")
      /\ qp' \in [Node -> {"up", "down", "error"}]
  BY <1>1 DEF Access, Break, TypeOK
<1>7. (IF allowed THEN "ok" ELSE "failed") \in {"ok", "failed"}
  OBVIOUS
<1> QED BY <1>1, <1>5, <1>6, <1>7, CompletionAlone

\* Both programs start at their first connection, with nothing posted.
LEMMA InitAlone ==
  ASSUME Init
  PROVE  AloneInv
<1> USE DEF Init, VerbsInit
<1>1. TypeOK
  BY ConstantsAssumption DEF TypeOK, Position, Labels, PosNat, Fresh, Bytes
<1>2. \A n \in Node : PositionOK(n, pos[n]) /\ CallAlone(n)
  BY TestsType DEF PositionOK, LabelsOf, CallAlone, Idle
<1>3. DialOK
  BY DEF DialOK, Node
<1> QED BY <1>1, <1>2, <1>3 DEF AloneInv

\* Every step of either program and of the hardware preserves the invariant.
LEMMA NextAlone ==
  ASSUME AloneInv, [Next]_vars
  PROVE  AloneInv'
<1>1. ASSUME NEW n \in Node, Program(n)
      PROVE  AloneInv'
  BY <1>1, RequestsAlone, ReceivesAlone, WaitUntilCompletedAlone, ReceiveAlone, LocalAlone DEF Program
<1>2. CASE Client
  BY <1>1, <1>2, RequestsAlone, ConnectAlone, ConnectReturnsAlone DEF Client, Node
<1>3. CASE Server
  BY <1>1, <1>3, AcceptAlone DEF Server, Node
<1>4. CASE Hardware
  BY <1>4, MessageAlone, AccessAlone DEF Hardware
<1>5. CASE UNCHANGED vars
  <2>1. UNCHANGED <<pos, blocked, dial, failed, mem, conn, qp, sq, scq, srq, rcq>>
    BY <1>5 DEF vars, verbs
  <2>2. TypeOK'
    BY <2>1 DEF AloneInv, TypeOK, Bytes
  <2>3. \A k \in Node : PositionOK(k, pos[k])' /\ CallAlone(k)'
    BY <2>1, FrameAlone DEF AloneInv
  <2>4. DialOK'
    BY <2>1, Where DEF AloneInv, DialOK, Node
  <2> QED BY <2>2, <2>3, <2>4 DEF AloneInv
<1> QED BY <1>2, <1>3, <1>4, <1>5 DEF Next, Finished

-----------------------------------------------------------------------------
(* The theorems.                                                           *)

\* Whatever the two programs are started with, each keeps to its own control
\* flow, and its queues hold exactly what the call it is in has posted.
THEOREM AloneInvariance == Spec => []AloneInv
<1>1. Init => AloneInv
  BY InitAlone
<1>2. AloneInv /\ [Next]_vars => AloneInv'
  BY NextAlone
<1> QED BY <1>1, <1>2, PTL DEF Spec

\* The model is well-typed for all arguments, the ones that do not match
\* included: in particular every access of the memory stays inside a buffer.
THEOREM TypedAlone == Spec => []TypeOK
<1>1. AloneInv => TypeOK
  BY DEF AloneInv
<1> QED BY <1>1, AloneInvariance, PTL

\* No receive buffer outlives the call whose stack it lives on, whatever the
\* two programs are started with and whatever fails: a call that returns has
\* had its buffer used.
THEOREM NothingDangles == Spec => []NoDanglingReceive
<1>1. AloneInv => NoDanglingReceive
  <2> SUFFICES ASSUME AloneInv, NEW n \in Node
               PROVE  /\ Len(srq[n]) + Len(rcq[n]) <= 1
                      /\ (srq[n] # <<>> \/ rcq[n] # <<>>)
                           => blocked[n] /\ (WaitsForControl(n) \/ ReceivesData(n))
    BY DEF NoDanglingReceive
  <2>1. \/ srq[n] = <<>> /\ rcq[n] = <<>>
        \/ /\ blocked[n] /\ InReceive(n)
           /\ \/ srq[n] = << BufferOf(n) >> /\ rcq[n] = <<>>
              \/ srq[n] = <<>> /\ Len(rcq[n]) = 1
    BY DEF AloneInv, CallAlone, Idle
  <2>2. CASE srq[n] = <<>> /\ rcq[n] = <<>>
    BY <2>2
  <2>3. CASE blocked[n] /\ InReceive(n) /\ srq[n] = << BufferOf(n) >> /\ rcq[n] = <<>>
    BY <2>3 DEF InReceive
  <2>4. CASE blocked[n] /\ InReceive(n) /\ srq[n] = <<>> /\ Len(rcq[n]) = 1
    BY <2>4 DEF InReceive
  <2> QED BY <2>1, <2>2, <2>3, <2>4
<1> QED BY <1>1, AloneInvariance, PTL

-----------------------------------------------------------------------------
(* Two programs that are stuck at the same meeting.                        *)

\* The places at which a program meets the other one.
MeetingLabels(t) == LabelsOf("server", t) \ {"fill", "close"}

\* A program in a blocking exchange is at the meeting it heads for.
LEMMA AtMeetingAlone ==
  ASSUME AloneInv, NEW n \in Node,
         \/ InSend(n) \/ InReceive(n)
         \/ ~Exited(n) /\ pos[n].label = "open"
  PROVE  /\ Meeting(n) = pos[n]
         /\ pos[n].label \in MeetingLabels(Test(n))
<1>1. /\ ~Exited(n)
      /\ pos[n].label \in {"open", "ready", "data", "done", "fin"}
      /\ pos[n].label = "data" => Test(n) \in TwoSided
  BY Kinds
<1>2. Test(n) \in AllTests /\ Test(n) = Tests(n)[pos[n].test] /\ pos[n].label \in LabelsOf(n, Test(n))
  BY <1>1, HereAlone
<1>3. Meeting(n) = pos[n]
  BY <1>1, <1>2 DEF Meeting, ClientMeeting, ServerMeeting, TwoSided
<1>4. pos[n].label \in MeetingLabels(Test(n))
  BY <1>1, <1>2 DEF MeetingLabels, LabelsOf, OneSided, TwoSided, Node
<1> QED BY <1>3, <1>4

\* A program whose meeting has taken place has not returned from the call,
\* and has nothing posted any more.
LEMMA MetAlone ==
  ASSUME AloneInv, NEW n \in Node, Met(n)
  PROVE  /\ blocked[n] /\ ~Exited(n)
         /\ \/ InSend(n) \/ InReceive(n)
            \/ n = "client" /\ InOpen(n)
         /\ sq[n] = <<>> /\ srq[n] = <<>>
<1>1. CallAlone(n) /\ DialOK
  BY DEF AloneInv
<1>2. CASE InSend(n) /\ scq[n] # <<>>
  BY <1>1, <1>2, Kinds DEF CallAlone, Idle
<1>3. CASE InReceive(n) /\ rcq[n] # <<>>
  BY <1>1, <1>3, Kinds DEF CallAlone, Idle
<1>4. CASE n = "client" /\ dial = "accepted"
  BY <1>1, <1>4, Kinds DEF CallAlone, DialOK, Idle
<1> QED BY <1>2, <1>3, <1>4 DEF Met

\* The meeting of a program that sends, reads or writes is one of its test.
LEMMA MeetingHere ==
  ASSUME AloneInv, NEW n \in Node, InSend(n) \/ InReceive(n) \/ InOneSided(n)
  PROVE  Meeting(n).label # "open" /\ Meeting(n).test = pos[n].test
<1>1. CASE InSend(n) \/ InReceive(n)
  BY <1>1, AtMeetingAlone, Kinds
<1>2. CASE InOneSided(n)
  BY <1>2, Kinds, HereAlone DEF Meeting, ClientMeeting, Goto, OneSided
<1> QED BY <1>1, <1>2

\* A stuck program has ended, waits for the other one to connect or to accept,
\* or is in a call whose request or receive buffer nothing has come for.
LEMMA StuckCall ==
  ASSUME AloneInv, Stuck, NEW n \in Node
  PROVE  /\ ~Met(n)
         /\ \/ Exited(n)
            \/ n = "server" /\ At(n, {"open"}) /\ dial # "requested"
            \/ InOpen(n) /\ dial = "requested"
            \/ (InSend(n) \/ InOneSided(n)) /\ sq[n] = << PostedBy(n) >>
            \/ InReceive(n) /\ srq[n] # <<>>
<1>1. CallAlone(n) /\ DialOK /\ ~CanProceed(n) /\ dial \in {"none", "requested", "accepted"}
  BY DEF AloneInv, Stuck, TypeOK
<1>2. CASE Exited(n)
  BY <1>2, MetAlone
<1>3. CASE ~Exited(n) /\ pos[n].label = "open"
  <2>0. At(n, {"open"})
    BY <1>3 DEF At
  <2>1. ~InSend(n) /\ ~InReceive(n) /\ ~Exited(n)
    BY <1>3, Kinds
  <2>2. CASE n = "client"
    BY <1>1, <2>0, <2>1, <2>2 DEF CanProceed, Met, DialOK, InOpen
  <2>3. CASE n = "server"
    BY <1>1, <2>0, <2>1, <2>3 DEF CanProceed, Met
  <2> QED BY <2>0, <2>2, <2>3 DEF Node
<1>4. CASE ~Exited(n) /\ pos[n].label # "open"
  <2>1. blocked[n] /\ scq[n] = <<>> /\ rcq[n] = <<>> /\ ~InOpen(n)
    BY <1>1, <1>4 DEF CanProceed, InOpen, At
  <2>2. /\ Len(scq[n]) # 1 /\ Len(rcq[n]) # 1
        /\ << BufferOf(n) >> # <<>>
    BY <2>1
  <2>3. \/ (InSend(n) \/ InOneSided(n)) /\ sq[n] = << PostedBy(n) >>
        \/ InReceive(n) /\ srq[n] # <<>>
    BY <1>1, <2>1, <2>2 DEF CallAlone
  <2>4. ~Met(n)
    BY <1>1, <2>1 DEF Met, DialOK
  <2> QED BY <2>3, <2>4
<1> QED BY <1>2, <1>3, <1>4

\* Its meeting is one of the test it is in, and that of a connection unless it
\* is in a call that sends, receives, reads or writes.
LEMMA StuckMeeting ==
  ASSUME AloneInv, Stuck, NEW n \in Node
  PROVE  /\ Meeting(n).test = pos[n].test
         /\ \/ /\ Meeting(n).label = "open" /\ Meeting(n) = pos[n]
               /\ Exited(n) \/ At(n, {"open"})
            \/ /\ Meeting(n).label # "open" /\ ~Exited(n)
               /\ \/ (InSend(n) \/ InOneSided(n)) /\ sq[n] = << PostedBy(n) >>
                  \/ InReceive(n) /\ srq[n] # <<>>
<1>1. CASE Exited(n)
  <2>1. pos[n].label = "open"
    BY <1>1, HereAlone, TestsType DEF Exited, PositionOK, Position, PosNat
  <2> QED BY <1>1, <2>1 DEF Meeting, ClientMeeting, ServerMeeting
<1>2. CASE At(n, {"open"})
  BY <1>2, AtMeetingAlone DEF At
<1>3. CASE ~Exited(n) /\ ~At(n, {"open"})
  BY <1>3, StuckCall, MeetingHere DEF InOpen
<1> QED BY <1>1, <1>2, <1>3

\* A program that waits for something of the other one while both head for the
\* same meeting gets it: one of the two sends and the other one receives there,
\* or the client reads or writes.  So two programs that run the same tests are
\* stuck at the same meeting only if one has ended and the other one has not.
LEMMA StuckTogether ==
  ASSUME AloneInv, Stuck, Meeting("client") = Meeting("server"),
         \A n \in Node : LinkOK(n),
         \A i \in 1..Len(Tests("client")) : i \in 1..Len(Tests("server")) =>
           Tests("client")[i] = Tests("server")[i]
  PROVE  /\ \E n \in Node : Exited(n) /\ At(Peer(n), {"open"})
         /\ pos["client"] = pos["server"]
<1> DEFINE c == "client"
           s == "server"
           Waits(n) == \/ (InSend(n) \/ InOneSided(n)) /\ sq[n] = << PostedBy(n) >>
                       \/ InReceive(n) /\ srq[n] # <<>>
<1>0. c \in Node /\ s \in Node /\ Peer(c) = s /\ Peer(s) = c
  BY DEF Node, Peer
<1>1. CASE Meeting(c).label = "open"
  <2>1. /\ pos[c] = pos[s]
        /\ Exited(c) \/ At(c, {"open"})
        /\ Exited(s) \/ At(s, {"open"})
    BY <1>0, <1>1, StuckMeeting
  <2>2. ~(Exited(c) /\ Exited(s))
    BY DEF Stuck, Node
  <2>3. ~(At(c, {"open"}) /\ At(s, {"open"}))
    BY <1>0, StuckCall, Kinds DEF At
  <2> QED BY <1>0, <2>1, <2>2, <2>3
<1>2. CASE Meeting(c).label # "open"
  <2>1. /\ pos[c].test = pos[s].test
        /\ ~Exited(c) /\ Waits(c)
        /\ ~Exited(s) /\ Waits(s)
    BY <1>0, <1>2, StuckMeeting
  <2>2. Test(c) = Test(s)
    BY <1>0, <2>1, HereAlone DEF Test
  <2>3. Connected(c) /\ Connected(s)
    <3>1. \A n \in Node : pos[n].label # "open"
      BY <1>0, <2>1, Kinds DEF Node
    <3> QED BY <1>0, <2>1, <3>1 DEF LinkOK, Connected
  <2>4. CASE InOneSided(c)
    <3>1. sq[c] = << PostedBy(c) >> /\ PostedBy(c).op # "send"
      BY <1>0, <2>1, <2>4, Kinds DEF PostedBy, OneSided, TwoSided
    <3>2. Servable(c)
      BY <2>3, <3>1 DEF Servable
    <3> QED BY <1>0, <3>2 DEF Stuck
  <2>5. CASE ~InOneSided(c)
    <3>1. (InSend(c) \/ InReceive(c)) /\ (InSend(s) \/ InReceive(s)) /\ pos[c] = pos[s]
      BY <1>0, <2>1, <2>5, AtMeetingAlone DEF InOneSided
    <3>2. InSend(c) <=> ~InSend(s)
      BY <1>0, <2>1, <2>2, <3>1, Kinds DEF InSend, InReceive, SendsControl, WaitsForControl, SendsData,
         ReceivesData, At, TwoSided
    <3>3. ASSUME NEW n \in Node, InSend(n) PROVE FALSE
      <4>1. Peer(n) \in Node /\ InReceive(Peer(n)) /\ ~InSend(Peer(n)) /\ ~InOneSided(Peer(n))
        BY <1>0, <2>5, <3>1, <3>2, <3>3 DEF Node, InOneSided
      <4>2. sq[n] = << PostedBy(n) >> /\ srq[Peer(n)] # <<>> /\ Connected(n)
        BY <1>0, <2>1, <2>3, <3>3, <4>1, Kinds DEF Node
      <4>3. Servable(n)
        BY <4>2 DEF Servable
      <4> QED BY <4>3 DEF Stuck
    <3> QED BY <1>0, <3>2, <3>3
  <2> QED BY <2>4, <2>5
<1> QED BY <1>1, <1>2

-----------------------------------------------------------------------------
(* The results files.                                                      *)

\* In every step the client stays where it is or goes to its next call.
LEMMA ClientMoves ==
  ASSUME AloneInv, [Next]_vars
  PROVE  \/ pos'["client"] = pos["client"]
         \/ ~Exited("client") /\ pos'["client"] = ClientAfter(pos["client"])
<1> DEFINE c == "client"
           Stays == pos'[c] = pos[c]
           Goes == ~Exited(c) /\ pos'[c] = ClientAfter(pos[c])
<1>1. TypeOK /\ c \in Node
  BY DEF AloneInv, Node
<1>2. ASSUME NEW n \in Node, Return(n), ~Exited(n)
      PROVE  Stays \/ Goes
  BY <1>1, <1>2 DEF Return, TypeOK, Node
<1>3. ASSUME NEW n \in Node, WaitUntilCompleted(n) \/ Receive(n)
      PROVE  Return(n) /\ ~Exited(n)
  <2>1. InSend(n) \/ InOneSided(n) \/ InReceive(n)
    BY <1>3 DEF WaitUntilCompleted, Receive, AloneInv, CallAlone, Idle
  <2> QED BY <1>3, <2>1, Kinds DEF WaitUntilCompleted, Receive
<1>4. ASSUME NEW n \in Node, Refill(n) \/ Close(n)
      PROVE  Return(n) /\ ~Exited(n)
  BY <1>4 DEF Refill, Close, At
<1>5. ASSUME NEW n \in Node, Program(n)
      PROVE  Stays \/ Goes
  <2>1. CASE WaitUntilCompleted(n) \/ Receive(n) \/ Refill(n) \/ Close(n)
    BY <1>2, <1>3, <1>4, <2>1
  <2>2. CASE SendControlMessage(n) \/ SendData(n) \/ WaitForControlMessage(n) \/ PostDataBuffer(n)
    BY <2>2 DEF SendControlMessage, SendData, WaitForControlMessage, PostDataBuffer
  <2> QED BY <1>5, <2>1, <2>2 DEF Program
<1>6. CASE Client
  <2>1. CASE ConnectReturns
    <3>1. Return(c) /\ InOpen(c)
      BY <2>1 DEF ConnectReturns, AloneInv, DialOK
    <3> QED BY <1>1, <1>2, <3>1, Kinds
  <2>2. CASE Connect \/ ReadOrWrite
    BY <2>2 DEF Connect, ReadOrWrite
  <2> QED BY <1>1, <1>5, <1>6, <2>1, <2>2 DEF Client
<1>7. CASE Server
  <2>1. CASE Accept
    BY <1>2, <2>1 DEF Accept, At, Node
  <2> QED BY <1>5, <1>7, <2>1 DEF Server, Node
<1>8. CASE Hardware \/ UNCHANGED vars
  BY <1>8 DEF Hardware, DeliverMessage, FlushRequest, AccessRegion, vars
<1> QED BY <1>6, <1>7, <1>8 DEF Next, Finished

\* The client's way from one call to the next ends a pass, or a test, or
\* neither; the passes it has ended are those its place shows.
LEMMA PassesKept ==
  ASSUME NEW p \in Position, p.test <= Len(Tests("client")), PositionOK("client", p)
  PROVE  LET t == Tests("client")[p.test]
             q == ClientAfter(p)
             ends == /\ p.label \in (IF t \in {"read_lat", "write_lat"} THEN {"data"} ELSE {"done"})
                     /\ q.label # p.label \/ q.round # p.round
         IN /\ Kept(p) \in 0..Len(Sizes(t))
            /\ p.label # "close" => q.test = p.test
            /\ p.label = "close" => q = NextTest(p) /\ Kept(p) = Len(Sizes(t)) /\ ~ends
            /\ p.label # "close" /\ ~ends => Kept(q) = Kept(p)
            /\ ends => /\ p.round \in 1..Len(Sizes(t)) /\ Kept(p) = p.round - 1
                       /\ Kept(q) = p.round /\ p.label # "close"
<1> DEFINE t == Tests("client")[p.test]
           q == ClientAfter(p)
           N == Len(Sizes(t))
<1>1. /\ p.test \in 1..Len(Tests("client")) /\ t \in AllTests /\ N \in Nat
      /\ p.label \in LabelsOf("client", t) /\ p.test \in Nat
      /\ IF p.label \in {"open", "fin", "close"} THEN p.round = 0 ELSE p.round \in 1..N
  BY TestsType, SizesType DEF PositionOK, Position, PosNat, Node
<1>2. \A r \in 1..(N + 1) : /\ ClientPass(t, p, r).test = p.test
                            /\ Kept(ClientPass(t, p, r)) = r - 1
                            /\ ClientPass(t, p, r).label \in {"ready", "data", "fin", "close"}
                            /\ ClientPass(t, p, r).label \in {"ready", "data"} => ClientPass(t, p, r).round = r
  <2> SUFFICES ASSUME NEW r \in 1..(N + 1)
               PROVE  /\ ClientPass(t, p, r).test = p.test
                      /\ Kept(ClientPass(t, p, r)) = r - 1
                      /\ ClientPass(t, p, r).label \in {"ready", "data", "fin", "close"}
                      /\ ClientPass(t, p, r).label \in {"ready", "data"} => ClientPass(t, p, r).round = r
    OBVIOUS
  <2>1. CASE r <= N
    BY <2>1 DEF ClientPass, Goto, Kept
  <2>2. CASE r = N + 1
    BY <1>1, <2>2 DEF ClientPass, LeaveLoop, Goto, Kept
  <2> QED BY <1>1, <2>1, <2>2
<1>3. Kept(p) \in 0..N
  BY <1>1 DEF Kept, LabelsOf
<1>4. CASE p.label = "open"
  BY <1>1, <1>2, <1>3, <1>4 DEF ClientAfter, Kept
<1>5. CASE p.label = "ready"
  BY <1>1, <1>3, <1>5 DEF ClientAfter, Goto, Kept
<1>6. CASE p.label = "fill"
  BY <1>1, <1>2, <1>3, <1>6 DEF ClientAfter, Kept
<1>7. CASE p.label = "fin"
  BY <1>1, <1>3, <1>7 DEF ClientAfter, Goto, Kept
<1>8. CASE p.label = "close"
  BY <1>1, <1>3, <1>8 DEF ClientAfter, Kept
<1>9. CASE p.label = "done"
  <2>1. t \notin {"read_lat", "write_lat"}
    BY <1>1, <1>9 DEF LabelsOf, TwoSided
  <2>2. CASE t = "write_tp"
    BY <1>1, <1>3, <1>9, <2>1, <2>2 DEF ClientAfter, Goto, Kept
  <2>3. CASE t # "write_tp"
    <3>1. q = ClientPass(t, p, p.round + 1)
      BY <1>9, <2>3 DEF ClientAfter
    <3>2. p.round + 1 \in 1..(N + 1) /\ p.round \in Int
      BY <1>1, <1>9
    <3> DEFINE r == p.round + 1
    <3> HIDE DEF r, N, t, q
    <3>3. q.test = p.test /\ Kept(q) = p.round /\ q.label # "done"
      <4>1. q = ClientPass(t, p, r) /\ r \in 1..(N + 1) /\ r - 1 = p.round
        BY <3>1, <3>2 DEF r
      <4> QED BY <1>2, <4>1
    <3>4. Kept(p) = p.round - 1
      BY <1>9 DEF Kept
    <3>5. p.round \in 1..N /\ p.label # "close"
      BY <1>1, <1>9
    <3>6. p.label \in (IF t \in {"read_lat", "write_lat"} THEN {"data"} ELSE {"done"})
      BY <1>9, <2>1
    <3> QED BY <1>3, <1>9, <3>3, <3>4, <3>5, <3>6 DEF t, q, N
  <2> QED BY <2>2, <2>3
<1>10. CASE p.label = "data"
  <2>1. CASE ClientMore(t, Sizes(t)[p.round], p.off)
    <3>1. q.test = p.test /\ q.label = p.label /\ q.round = p.round
      BY <1>10, <2>1 DEF ClientAfter, Step
    <3> QED BY <1>1, <1>3, <1>10, <3>1 DEF Kept
  <2>2. CASE ~ClientMore(t, Sizes(t)[p.round], p.off) /\ t \in {"read_lat", "write_lat"}
    <3>1. q = ClientPass(t, p, p.round + 1)
      BY <1>10, <2>2 DEF ClientAfter
    <3>2. p.round + 1 \in 1..(N + 1)
      BY <1>1, <1>10
    <3> QED BY <1>1, <1>2, <1>3, <1>10, <2>2, <3>1, <3>2 DEF Kept
  <2>3. CASE ~ClientMore(t, Sizes(t)[p.round], p.off) /\ t \notin {"read_lat", "write_lat"}
    BY <1>1, <1>3, <1>10, <2>3 DEF ClientAfter, Goto, Kept
  <2> QED BY <2>1, <2>2, <2>3
<1> QED BY <1>1, <1>4, <1>5, <1>6, <1>7, <1>8, <1>9, <1>10 DEF LabelsOf

\* A line of a results file.
ResultLine == [size : PosNat, ok : BOOLEAN]

\* One more line of the right size goes on with a file.
LEMMA OneMoreLine ==
  ASSUME NEW t \in AllTests, NEW lines, LinesOf(t, lines), Len(lines) + 1 \in 1..Len(Sizes(t)),
         NEW ok \in BOOLEAN
  PROVE  LET new == Append(lines, Line(Sizes(t)[Len(lines) + 1], ok)) IN
         LinesOf(t, new) /\ Len(new) = Len(lines) + 1
<1> DEFINE line == Line(Sizes(t)[Len(lines) + 1], ok)
           new  == Append(lines, line)
<1>1. lines \in Seq(ResultLine) /\ \A k \in 1..Len(lines) : lines[k].size = Sizes(t)[k]
  BY DEF LinesOf, ResultLine
<1>2. line \in ResultLine /\ line.size = Sizes(t)[Len(lines) + 1]
  BY SizesType DEF Line, ResultLine
<1> HIDE DEF line
<1>3. /\ new \in Seq(ResultLine) /\ Len(new) = Len(lines) + 1 /\ Len(lines) \in Nat
      /\ \A k \in 1..Len(lines) : new[k] = lines[k]
      /\ new[Len(lines) + 1] = line
  BY <1>1, <1>2, AppendProperties
<1> HIDE DEF new
<1>4. \A k \in 1..Len(new) : new[k].size = Sizes(t)[k]
  BY <1>1, <1>2, <1>3
<1>5. LinesOf(t, new) /\ Len(new) = Len(lines) + 1
  BY <1>3, <1>4, SizesType DEF LinesOf, ResultLine
<1> QED BY <1>5 DEF new, line

\* A file without lines is the beginning of any file.
LEMMA NoLines ==
  ASSUME NEW t \in AllTests
  PROVE  LinesOf(t, <<>>) /\ Len(<<>>) = 0
  BY SizesType DEF LinesOf

\* Where the client stands, and what it has kept, while it runs.
LEMMA ClientHere ==
  ASSUME AloneInv
  PROVE  LET p == pos["client"] IN
         /\ p \in Position /\ p.test \in Nat /\ Len(Tests("client")) \in Nat
         /\ Exited("client") <=> p.test > Len(Tests("client"))
         /\ ~Exited("client") => /\ p.test \in 1..Len(Tests("client"))
                                 /\ p.test <= Len(Tests("client"))
                                 /\ PositionOK("client", p)
                                 /\ Test("client") = Tests("client")[p.test]
                                 /\ Test("client") \in AllTests
  BY HereAlone, TestsType DEF Node, Position, PosNat, Exited

\* Keeping a result goes on with the file of the running test.
LEMMA KeepResultStep ==
  ASSUME AloneInv, AloneInv', FilesInv, [Next]_vars, KeepResult
  PROVE  FilesInv'
<1> DEFINE p == pos["client"]
           q == pos'["client"]
           t == Test("client")
<1>1. /\ ~Exited("client") /\ p.label \in (IF t \in {"read_lat", "write_lat"} THEN {"data"} ELSE {"done"})
      /\ q.label # p.label \/ q.round # p.round
      /\ results' = Append(results, Line(Size("client"), ~failed'["client"]))
      /\ file' = file
  BY DEF KeepResult, EndsPass, At
<1>2. q = ClientAfter(p)
  BY <1>1, ClientMoves
<1>3. /\ p \in Position /\ p.test \in 1..Len(Tests("client")) /\ p.test <= Len(Tests("client"))
      /\ PositionOK("client", p) /\ t = Tests("client")[p.test] /\ t \in AllTests
  BY <1>1, ClientHere
<1>4. /\ q.test = p.test /\ p.round \in 1..Len(Sizes(t))
      /\ Kept(p) = p.round - 1 /\ Kept(q) = p.round
  BY <1>1, <1>2, <1>3, PassesKept
<1>5. /\ LinesOf(t, results) /\ Len(results) = Kept(p) /\ Len(results) + 1 = p.round
      /\ Size("client") = Sizes(t)[Len(results) + 1]
  BY <1>1, <1>4 DEF FilesInv, Size
<1>6. (~failed'["client"]) \in BOOLEAN
  OBVIOUS
<1>7. LinesOf(t, results') /\ Len(results') = Kept(q)
  BY <1>1, <1>3, <1>4, <1>5, <1>6, OneMoreLine
<1>8. LinesOf(Test("client")', results') /\ Len(results') = Kept(q)
  BY <1>4, <1>7 DEF Test
<1>9. DOMAIN file' = 1..Len(Tests("client"))
  BY <1>1 DEF FilesInv
<1>10. ASSUME NEW i \in 1..Len(Tests("client"))
       PROVE  /\ i < q.test => LinesOf(Tests("client")[i], file'[i])
                               /\ Len(file'[i]) = Len(Sizes(Tests("client")[i]))
              /\ i = q.test => file'[i] = <<>>
              /\ i > q.test => file'[i] = Old
  BY <1>1, <1>4 DEF FilesInv
<1> QED BY <1>8, <1>9, <1>10 DEF FilesInv, LinesOf, Kept

\* The end of a test writes one line for each of its passes.
LEMMA WriteFileStep ==
  ASSUME AloneInv, AloneInv', FilesInv, [Next]_vars, WriteFile
  PROVE  FilesInv'
<1> DEFINE p == pos["client"]
           q == pos'["client"]
           t == Test("client")
           n == p.test
           N == Len(Tests("client"))
<1>1. /\ q.test = n + 1 /\ results' = <<>>
      /\ file' = [j \in DOMAIN file |-> IF j = n THEN results ELSE IF j = n + 1 THEN <<>> ELSE file[j]]
  BY DEF WriteFile
<1>2. p \in Position /\ n \in Nat /\ N \in Nat
  BY ClientHere
<1>3. ~Exited("client") /\ q = ClientAfter(p)
  BY <1>1, <1>2, ClientMoves
<1>4. /\ n \in 1..N /\ n <= N
      /\ PositionOK("client", p) /\ t = Tests("client")[n] /\ t \in AllTests
  BY <1>3, ClientHere
<1>5. Kept(p) = Len(Sizes(t)) /\ q = NextTest(p)
  BY <1>1, <1>2, <1>3, <1>4, PassesKept
<1>6. LinesOf(t, results) /\ Len(results) = Len(Sizes(t))
  BY <1>3, <1>5 DEF FilesInv
<1>7. DOMAIN file' = 1..N
  BY <1>1 DEF FilesInv
<1>8. ASSUME NEW i \in 1..N
      PROVE  /\ i < n + 1 => LinesOf(Tests("client")[i], file'[i])
                             /\ Len(file'[i]) = Len(Sizes(Tests("client")[i]))
             /\ i = n + 1 => file'[i] = <<>>
             /\ i > n + 1 => file'[i] = Old
  <2>1. file'[i] = IF i = n THEN results ELSE IF i = n + 1 THEN <<>> ELSE file[i]
    BY <1>1, <1>8 DEF FilesInv
  <2>2. CASE i < n
    BY <1>2, <2>1, <2>2 DEF FilesInv
  <2>3. CASE i = n
    BY <1>4, <1>6, <2>1, <2>3
  <2>4. CASE i = n + 1
    BY <1>2, <2>1, <2>4
  <2>5. CASE i > n + 1
    BY <1>2, <2>1, <2>5 DEF FilesInv
  <2> QED BY <1>2, <2>2, <2>3, <2>4, <2>5
<1>9. ~Exited("client")' => LinesOf(Test("client")', results') /\ Len(results') = Kept(q)
  <2> SUFFICES ASSUME ~Exited("client")'
               PROVE  LinesOf(Test("client")', results') /\ Len(results') = Kept(q)
    OBVIOUS
  <2>1. Test("client")' \in AllTests
    <3>1. n + 1 \in 1..N /\ Test("client")' = Tests("client")[n + 1]
      BY <1>1, <1>2 DEF Exited, Test
    <3> QED BY <3>1, TestsType DEF Node
  <2>2. Kept(q) = 0
    BY <1>5 DEF NextTest, Kept
  <2> QED BY <1>1, <2>1, <2>2, NoLines
<1> QED BY <1>1, <1>7, <1>8, <1>9 DEF FilesInv, LinesOf, Kept

\* Any other step leaves the files and the place among the passes alone.
LEMMA KeepsNoneStep ==
  ASSUME AloneInv, FilesInv, [Next]_vars, KeepsNone
  PROVE  FilesInv'
<1> DEFINE p == pos["client"]
           q == pos'["client"]
           t == Test("client")
<1>1. results' = results /\ file' = file /\ q.test = p.test
  BY DEF KeepsNone
<1>2. Test("client")' = Test("client") /\ (Exited("client")' <=> Exited("client"))
  BY <1>1 DEF Test, Exited
<1>3. ~Exited("client") => Kept(q) = Kept(p)
  <2> SUFFICES ASSUME ~Exited("client"), q # p PROVE Kept(q) = Kept(p)
    OBVIOUS
  <2>1. q = ClientAfter(p)
    BY ClientMoves
  <2>2. /\ p \in Position /\ p.test \in Nat /\ p.test <= Len(Tests("client"))
        /\ PositionOK("client", p) /\ t = Tests("client")[p.test]
    BY ClientHere
  <2>3. p.label # "close"
    BY <1>1, <2>1, <2>2 DEF ClientAfter, NextTest
  <2>4. ~(/\ p.label \in (IF t \in {"read_lat", "write_lat"} THEN {"data"} ELSE {"done"})
          /\ q.label # p.label \/ q.round # p.round)
    BY DEF KeepsNone, EndsPass, At
  <2> QED BY <2>1, <2>2, <2>3, <2>4, PassesKept
<1> QED BY <1>1, <1>2, <1>3 DEF FilesInv, LinesOf, Kept

\* The files follow the client from one call to the next.
LEMMA FilesInvariance == ResultsSpec => [](AloneInv /\ FilesInv)
<1>1. ResultsInit => AloneInv /\ FilesInv
  <2> SUFFICES ASSUME ResultsInit PROVE AloneInv /\ FilesInv
    OBVIOUS
  <2>1. AloneInv
    BY InitAlone DEF ResultsInit
  <2>2. pos["client"].test = 1 /\ pos["client"].label = "open"
    BY DEF ResultsInit, Init, Node
  <2>3. ~Exited("client") => Test("client") \in AllTests
    BY <2>1, ClientHere
  <2>4. results = <<>> /\ file = [i \in 1..Len(Tests("client")) |-> IF i = 1 THEN <<>> ELSE Old]
    BY DEF ResultsInit
  <2>5. ~Exited("client") => LinesOf(Test("client"), results) /\ Len(results) = Kept(pos["client"])
    BY <2>2, <2>3, <2>4, NoLines DEF Kept
  <2> QED BY <2>1, <2>2, <2>4, <2>5 DEF FilesInv
<1>2. AloneInv /\ FilesInv /\ [ResultsNext]_resultsVars => (AloneInv /\ FilesInv)'
  <2> SUFFICES ASSUME AloneInv, FilesInv, [ResultsNext]_resultsVars
               PROVE  AloneInv' /\ FilesInv'
    OBVIOUS
  <2>1. [Next]_vars
    BY DEF ResultsNext, resultsVars
  <2>2. AloneInv'
    BY <2>1, NextAlone
  <2>3. CASE ResultsNext
    BY <2>1, <2>2, <2>3, KeepResultStep, WriteFileStep, KeepsNoneStep DEF ResultsNext, Record
  <2>4. CASE UNCHANGED resultsVars
    <3>1. pos' = pos /\ results' = results /\ file' = file
      BY <2>4 DEF resultsVars, vars
    <3>2. KeepsNone
      BY <3>1 DEF KeepsNone, EndsPass
    <3> QED BY <2>1, <2>2, <3>2, KeepsNoneStep
  <2> QED BY <2>3, <2>4
<1> QED BY <1>1, <1>2, PTL DEF ResultsSpec

\* The column of sizes of a file is the beginning of the list of sizes.
LEMMA ColumnOf ==
  ASSUME NEW t \in AllTests, NEW lines, LinesOf(t, lines)
  PROVE  Column(lines) = SubSeq(Sizes(t), 1, Len(lines))
<1> DEFINE s == SubSeq(Sizes(t), 1, Len(lines))
<1>1. /\ lines \in Seq(ResultLine) /\ Len(lines) \in Nat /\ DOMAIN lines = 1..Len(lines)
      /\ Len(lines) <= Len(Sizes(t))
      /\ \A k \in 1..Len(lines) : lines[k].size = Sizes(t)[k]
  BY DEF LinesOf, ResultLine
<1>2. Sizes(t) \in Seq(PosNat)
  BY ConstantsAssumption DEF Sizes
<1>3. s = [k \in 1..Len(lines) |-> Sizes(t)[k]]
  BY <1>1, <1>2
<1> HIDE DEF s
<1>4. Column(lines) = [k \in 1..Len(lines) |-> lines[k].size]
  BY <1>1 DEF Column
<1>5. Column(lines) = s
  BY <1>1, <1>3, <1>4
<1> QED BY <1>5 DEF s

\* The results files are complete or empty whatever the two programs are
\* started with, although the server may hang or run other tests: the client
\* writes the file of a test it has gone through and of no other.
THEOREM FilesAreComplete == ResultsSpec => []FilesComplete
<1>1. AloneInv /\ FilesInv => FilesComplete
  <2> SUFFICES ASSUME AloneInv, FilesInv PROVE FilesComplete
    OBVIOUS
  <2> DEFINE p == pos["client"]
             N == Len(Tests("client"))
  <2>1. N \in Nat /\ p.test \in Nat /\ \A i \in 1..N : Tests("client")[i] \in AllTests
    BY ClientHere, TestsType DEF Node
  <2>2. ASSUME NEW i \in 1..N, i < p.test
        PROVE  Column(file[i]) = Sizes(Tests("client")[i])
    <3> DEFINE t == Tests("client")[i]
    <3>1. t \in AllTests /\ LinesOf(t, file[i]) /\ Len(file[i]) = Len(Sizes(t))
      BY <2>1, <2>2 DEF FilesInv
    <3>2. SubSeq(Sizes(t), 1, Len(Sizes(t))) = Sizes(t)
      BY ConstantsAssumption DEF Sizes
    <3> QED BY <3>1, <3>2, ColumnOf
  <2>3. ASSUME NEW i \in 1..N
        PROVE  CASE i < p.test -> Column(file[i]) = Sizes(Tests("client")[i])
                 [] i = p.test -> file[i] = <<>>
                 [] OTHER      -> file[i] = Old
    BY <2>1, <2>2, <2>3 DEF FilesInv
  <2>4. ~Exited("client") =>
          /\ Len(results) <= Len(Sizes(Test("client")))
          /\ Column(results) = SubSeq(Sizes(Test("client")), 1, Len(results))
    BY ColumnOf, ClientHere DEF FilesInv, LinesOf
  <2> QED BY <2>3, <2>4 DEF FilesComplete
<1> QED BY <1>1, FilesInvariance, PTL

=============================================================================
