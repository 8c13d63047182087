--------------------------- MODULE RdmaPairsProofs ---------------------------
(***************************************************************************)
(* What holds of two programs started with any arguments, as soon as there *)
(* is more than one buffer size: PairInv is inductive, so that no message  *)
(* is taken for another one, a queue pair that has failed keeps the server *)
(* in its pass, and no wrong result is written but in the one case that    *)
(* NoSilentMismatch names.                                                 *)
(***************************************************************************)
EXTENDS RdmaPairs, RdmaSafetyProofs

\* Programs that begin with the same kind of tests run the same tests, as far
\* as both go.
LEMMA TestsInOrder ==
  ASSUME SameOrder,
         NEW i \in 1..Len(Tests("client")), i \in 1..Len(Tests("server"))
  PROVE  Tests("client")[i] = Tests("server")[i]
  BY ConstantsAssumption DEF SameOrder, Tests, Throughput, Latency, Metrics, Node

\* From the same meeting both programs head for the same next one or for a
\* standstill: the numbers of messages differ only in the two-sided throughput
\* test, and the tests only in the first place.
LEMMA FacingNext ==
  ASSUME SeveralSizes, NEW p \in Position,
         p.test \in 1..Len(Tests("client")), p.test \in 1..Len(Tests("server")),
         p.label \in MeetingLabels(Tests("client")[p.test]),
         PositionOK("server", p),
         SameOrder \/ (p.label = "open" /\ p.test = 1)
  PROVE  Facing(ClientMeeting(ClientAfter(p)), ServerMeeting(ServerAfter(p)))
<1> DEFINE t == Tests("client")[p.test]
           u == Tests("server")[p.test]
           b == Sizes(t)[p.round]
           x == ClientMeeting(ClientAfter(p))
           y == ServerMeeting(ServerAfter(p))
<1>1. t \in AllTests /\ u \in AllTests /\ p.test \in Nat
  BY TestsType DEF Node
<1>2. SameOrder => t = u
  BY TestsInOrder
<1>3. CASE SameOrder
  <2>1. t = u
    BY <1>2, <1>3
  <2> HIDE DEF t, u
  <2>2. CASE p.label = "open"
    <3>1. x = y
      BY <1>1, <2>1, <2>2 DEF ClientMeeting, ServerMeeting, ClientAfter, ServerAfter, ClientPass, ServerPass,
         Goto, LeaveLoop, NextTest, Step, Position, AllTests, TwoSided, t, u
    <3> QED BY <1>3, <3>1 DEF Facing
  <2>3. CASE p.label = "fin"
    <3>1. x = y
      BY <1>1, <2>1, <2>3 DEF ClientMeeting, ServerMeeting, ClientAfter, ServerAfter, ClientPass, ServerPass,
         Goto, LeaveLoop, NextTest, Step, Position, AllTests, TwoSided, t, u
    <3> QED BY <1>3, <3>1 DEF Facing
  <2>4. CASE p.label = "ready"
    <3>1. x = y
      BY <1>1, <2>1, <2>4 DEF MeetingLabels, LabelsOf, ClientMeeting, ServerMeeting, ClientAfter, ServerAfter,
         ClientPass, ServerPass, Goto, LeaveLoop, NextTest, Step, Position, AllTests, TwoSided, OneSided, t, u
    <3> QED BY <1>3, <3>1 DEF Facing
  <2>5. CASE p.label = "done"
    <3>1. x = y
      BY <1>1, <2>1, <2>5 DEF MeetingLabels, LabelsOf, ClientMeeting, ServerMeeting, ClientAfter, ServerAfter,
         ClientPass, ServerPass, Goto, LeaveLoop, NextTest, Step, Position, AllTests, TwoSided, OneSided, t, u
    <3> QED BY <1>3, <3>1 DEF Facing
  <2>6. CASE p.label = "data"
    <3>1. t \in TwoSided /\ b = Sizes(u)[p.round]
      BY <1>1, <2>1, <2>6 DEF MeetingLabels, LabelsOf, t, u, TwoSided, OneSided, AllTests
    <3>2. CASE t = "two_lat"
      <4>1. x = y
        BY <1>1, <2>1, <2>6, <3>1, <3>2 DEF LatencyTests, ClientMeeting, ServerMeeting, ClientAfter, ServerAfter,
           ClientMore, ServerMore, Goto, Step, TwoSided, t, u
      <4> QED BY <1>3, <4>1 DEF Facing
    <3>3. CASE t = "two_tp"
      <4> DEFINE next == Step(p, p.off + b)
                 done == Goto(p, "done", p.round)
      <4>1. x \in {next, done} /\ y \in {next, done}
        BY <1>1, <2>1, <2>6, <3>1, <3>3 DEF LatencyTests, ClientMeeting, ServerMeeting, ClientAfter, ServerAfter,
           Goto, Step, TwoSided, t, u
      <4>2. /\ next.test = p.test /\ next.label = "data"
            /\ done.test = p.test /\ done.label = "done"
        BY <2>6 DEF Step, Goto
      <4>3. CASE x = y
        BY <1>3, <4>3 DEF Facing
      <4>4. CASE x # y
        <5>1. /\ x.test = p.test /\ y.test = p.test
              /\ x.label \in {"data", "done"} /\ y.label \in {"data", "done"} /\ x.label # y.label
          BY <4>1, <4>2, <4>4
        <5>2. x.round = p.round /\ y.round = p.round
          BY <4>1 DEF Step, Goto
        <5>3. LoopsPart(BufferSizes[p.round])
          <6>1. /\ b = BufferSizes[p.round] /\ b \in Nat /\ b > 0
                /\ StepOK("server", "two_tp", b, p) /\ p.off \in Nat
            BY <1>1, <2>1, <2>6, <3>3, SizesType DEF PositionOK, Sizes, LatencyTests, Position, PosNat, t, u
          <6>2. /\ p.off % b = 0 /\ p.off <= LastIndex(DataSize["server"], b)
                /\ DataSize["server"] \in Nat
            BY <6>1, ConstantsAssumption DEF StepOK, LatencyTests, Node, PosNat
          <6>3. p.off \in 0..DataSize["server"]
            <7> DEFINE d == DataSize["server"]
            <7> HIDE DEF b, d
            <7>1. LastIndex(d, b) \in Nat /\ LastIndex(d, b) <= d
              BY <6>1, <6>2, LastIndexFacts DEF d
            <7> QED BY <6>1, <6>2, <7>1 DEF d
          <6>4. /\ x = IF MoreToReceive(DataSize["client"], b, p.off) THEN next ELSE done
                /\ y = IF MoreToMove(DataSize["server"], b, p.off) THEN next ELSE done
            BY <2>1, <2>6, <3>1, <3>3 DEF LatencyTests, ClientMeeting, ServerMeeting, ClientAfter, ServerAfter,
               ClientMore, ServerMore, Goto, Step, TwoSided, t, u
          <6>5. ~(MoreToReceive(DataSize["client"], b, p.off) <=> MoreToMove(DataSize["server"], b, p.off))
            BY <4>4, <6>4
          <6> QED BY <6>1, <6>2, <6>3, <6>5 DEF LoopsPart
        <5> HIDE DEF x, y
        <5>4. Standstill(x, y)
          BY <1>3, <2>1, <3>3, <5>1, <5>2, <5>3 DEF Standstill, ClientSendsAt, ServerSendsAt, TwoSided, t, u
        <5> QED BY <5>4 DEF Facing, x, y
      <4> QED BY <4>3, <4>4
    <3> QED BY <3>1, <3>2, <3>3 DEF TwoSided
  <2> QED BY <1>1, <2>2, <2>3, <2>4, <2>5, <2>6 DEF MeetingLabels, LabelsOf
<1>4. CASE ~SameOrder
  <2>1. p.label = "open" /\ p.test = 1
    BY <1>4
  <2>2. \/ t = "read_lat" /\ u = "read_tp"
        \/ t = "read_tp" /\ u = "read_lat"
    BY <1>4, <2>1, ConstantsAssumption DEF SameOrder, Tests, Throughput, Latency, Metrics, Node
  <2>3. Sizes("read_tp") = BufferSizes /\ 1 <= Len(BufferSizes)
    BY ConstantsAssumption DEF Sizes, LatencyTests, SeveralSizes
  <2> HIDE DEF t, u
  <2>4. CASE t = "read_lat" /\ u = "read_tp"
    <3>1. x.test = 1 /\ x.label = "fin"
      BY <2>1, <2>4 DEF ClientMeeting, ClientAfter, ClientPass, Goto, LeaveLoop, TwoSided, t
    <3>2. y.test = 1 /\ y.label = "ready"
      BY <2>1, <2>3, <2>4 DEF ServerMeeting, ServerAfter, ServerPass, Goto, u
    <3> HIDE DEF x, y
    <3>3. Standstill(x, y)
      BY <1>4, <2>1, <2>4, <3>1, <3>2 DEF Standstill, ClientSendsAt, ServerSendsAt, TwoSided, t, u
    <3> QED BY <3>3 DEF Facing, x, y
  <2>5. CASE t = "read_tp" /\ u = "read_lat"
    <3>1. x.test = 1 /\ x.label = "ready"
      BY <2>1, <2>3, <2>5 DEF ClientMeeting, ClientAfter, ClientPass, Goto, t
    <3>2. y.test = 1 /\ y.label = "fin"
      BY <2>1, <2>5 DEF ServerMeeting, ServerAfter, ServerPass, Goto, LeaveLoop, TwoSided, u
    <3> HIDE DEF x, y
    <3>3. Standstill(x, y)
      BY <1>4, <2>1, <2>5, <3>1, <3>2 DEF Standstill, ClientSendsAt, ServerSendsAt, TwoSided, t, u
    <3> QED BY <3>3 DEF Facing, x, y
  <2> QED BY <2>2, <2>4, <2>5
<1> QED BY <1>3, <1>4

\* Whether a program in an exchange sends or receives, by its place.
LEMMA Directions ==
  ASSUME NEW n \in Node, InSend(n) \/ InReceive(n)
  PROVE  InSend(n) <=> IF n = "client" THEN ClientSendsAt(pos[n]) ELSE ServerSendsAt(pos[n])
<1>1. ~Exited(n) /\ ~(InSend(n) /\ InReceive(n))
  BY Kinds
<1>2. CASE n = "client"
  BY <1>1, <1>2 DEF InSend, SendsControl, SendsData, ClientSendsAt, At, Test, TwoSided
<1>3. CASE n = "server"
  BY <1>1, <1>3 DEF InSend, SendsControl, SendsData, ServerSendsAt, At, Test, TwoSided
<1> QED BY <1>2, <1>3 DEF Node

\* A program that is in no call, or has a request outstanding, or reads or
\* writes, has no meeting behind it.
LEMMA NotMetAlone ==
  ASSUME AloneInv, NEW n \in Node, ~blocked[n] \/ sq[n] # <<>> \/ InOneSided(n)
  PROVE  ~Met(n)
<1>1. CASE ~blocked[n] \/ sq[n] # <<>>
  BY <1>1, MetAlone
<1>2. CASE InOneSided(n)
  BY <1>2, MetAlone, Kinds DEF OneSided, TwoSided
<1> QED BY <1>1, <1>2

\* Two places facing each other belong to the same test, and neither is that
\* of a connection unless both are.
LEMMA FacingTests ==
  ASSUME NEW p, NEW q, Facing(p, q)
  PROVE  p.test = q.test /\ (p.label = "open" <=> q.label = "open")
  BY DEF Facing, Standstill

\* While a program is in a call that needs the other one, and its request has
\* not been carried out, the other one is in the same test and has not reached
\* its close.
LEMMA SameTestAlone ==
  ASSUME AloneInv, InFront, NEW n \in Node, ~Met(n),
         InSend(n) \/ InReceive(n) \/ InOneSided(n)
  PROVE  LET m == Peer(n) IN
         /\ ~Exited(m)
         /\ pos[m].test = pos[n].test
         /\ pos[m].label # "close"
         /\ pos[m].label = "open" => InOpen(m)
<1> DEFINE m == Peer(n)
<1>1. m \in Node /\ m # n /\ n = Peer(m)
  BY DEF Peer, Node
<1>2. /\ Meeting(n).label # "open" /\ Meeting(n).test = pos[n].test
      /\ ~Exited(n)
  BY MeetingHere, Kinds
<1>3. /\ pos[m] \in Position /\ PositionOK(m, pos[m]) /\ Len(Tests(m)) \in Nat /\ pos[m].test \in Nat
  BY <1>1, HereAlone, TestsType DEF Position, PosNat
<1>4. CASE Met(m)
  <2>1. ~Exited(m) /\ pos[m].label # "close" /\ (pos[m].label = "open" => InOpen(m))
    BY <1>1, <1>4, MetAlone, Kinds
  <2>2. NextMeeting(m).label # "open" /\ NextMeeting(m).test = pos[n].test
    BY <1>1, <1>2, <1>4, FacingTests DEF InFront, Node, Peer
  <2>3. pos[m].test <= Len(Tests(m))
    BY <1>3, <2>1 DEF Exited
  <2>4. pos[m].test = pos[n].test
    BY <1>1, <1>3, <2>1, <2>2, <2>3, NextMeetingStays DEF NextMeeting
  <2> QED BY <2>1, <2>4
<1>5. CASE ~Met(m)
  <2>1. Meeting(m).label # "open" /\ Meeting(m).test = pos[n].test
    BY <1>1, <1>2, <1>5, FacingTests DEF InFront, Node, Peer
  <2>2. ~Exited(m)
    <3>1. SUFFICES ASSUME Exited(m) PROVE FALSE
      OBVIOUS
    <3>2. pos[m].label = "open"
      BY <1>3, <3>1 DEF Exited, PositionOK
    <3>3. Meeting(m) = pos[m]
      BY <1>1, <3>2 DEF Meeting, ClientMeeting, ServerMeeting
    <3> QED BY <2>1, <3>2, <3>3
  <2>3. pos[m].test <= Len(Tests(m))
    BY <1>3, <2>2 DEF Exited
  <2>4. pos[m].test = pos[n].test /\ pos[m].label \notin {"open", "close"}
    BY <1>1, <1>2, <1>3, <2>1, <2>3, MeetingStays DEF Meeting
  <2> QED BY <2>2, <2>4
<1> QED BY <1>4, <1>5

\* So no request finds its queue pair gone.
LEMMA NotSeveredAlone ==
  ASSUME AloneInv, Sound, NEW n \in Node, sq[n] # <<>>
  PROVE  ~Severed(n)
<1> DEFINE m == Peer(n)
<1>1. m \in Node /\ ~Met(n) /\ (InSend(n) \/ InOneSided(n)) /\ InFront
  BY RequestedAlone, NotMetAlone DEF Peer, Node, Sound
<1>2. pos[m].test = pos[n].test /\ pos[n].label # "open"
  BY <1>1, SameTestAlone, Kinds
<1>3. LinkOK(n) /\ LinkOK(m) /\ pos[n].test \in Nat
  BY <1>1, HereAlone DEF Sound, Position, PosNat
<1> QED BY <1>2, <1>3 DEF Severed, LinkOK

\* Two programs that meet are in the same place, and there the one sends what
\* the other one receives.
LEMMA MeetingPlace ==
  ASSUME AloneInv, Sound, NEW n \in Node, ~Met(n), ~Met(Peer(n)), InSend(n), InReceive(Peer(n))
  PROVE  /\ pos["client"] = pos["server"] /\ SameOrder
         /\ Meeting("client") = Meeting("server")
         /\ Test("client") = Test("server")
<1> DEFINE m == Peer(n)
<1>1. m \in Node /\ m # n /\ n = Peer(m) /\ (\A k \in Node : k = n \/ k = m)
  BY DEF Peer, Node
<1>2. /\ ~InReceive(n) /\ ~InSend(m) /\ ~Exited(n) /\ ~Exited(m)
      /\ pos[n].label # "open" /\ pos[m].label # "open"
  BY <1>1, Kinds
<1>3. Meeting("client") = pos["client"] /\ Meeting("server") = pos["server"]
  BY <1>1, AtMeetingAlone DEF Node
<1>4. Facing(pos["client"], pos["server"])
  BY <1>1, <1>3 DEF Sound, InFront, Node
<1>5. ~Standstill(pos["client"], pos["server"])
  BY <1>1, <1>2, Directions DEF Standstill, Node, Peer
<1>6. pos["client"] = pos["server"] /\ SameOrder
  BY <1>1, <1>2, <1>4, <1>5 DEF Facing, Node
<1>7. Test("client") = Test("server")
  BY <1>1, <1>2, <1>6, HereAlone, TestsInOrder DEF Node
<1> QED BY <1>3, <1>6, <1>7

\* Two programs whose meeting has taken place head for facing places.
LEMMA BothMetAlone ==
  ASSUME SeveralSizes, AloneInv, Sound, Met("client"), Met("server")
  PROVE  Facing(NextMeeting("client"), NextMeeting("server"))
<1>1. \A n \in Node : /\ ~Exited(n)
                      /\ InSend(n) \/ InReceive(n) \/ pos[n].label = "open"
  BY MetAlone, Kinds DEF Node
<1>2. /\ pos["client"] = pos["server"]
      /\ pos["client"].label \in MeetingLabels(Test("client"))
  BY <1>1, AtMeetingAlone DEF Sound, InFront, Node
<1>3. /\ pos["client"] \in Position
      /\ pos["client"].test \in 1..Len(Tests("client")) /\ pos["client"].test \in 1..Len(Tests("server"))
      /\ Test("client") = Tests("client")[pos["client"].test]
  BY <1>1, <1>2, HereAlone DEF Node
<1>4. SameOrder /\ PositionOK("server", pos["client"])
  BY <1>2, HereAlone DEF Sound, Apart, Node
<1> QED BY <1>2, <1>3, <1>4, FacingNext DEF NextMeeting

-----------------------------------------------------------------------------
(* Steps of two programs that nothing has failed for.                      *)

\* Returning from a meeting that took place keeps the programs in front of
\* each other.
LEMMA ReturnMetPairs ==
  ASSUME SeveralSizes, AloneInv, Sound, NEW n \in Node, Met(n), Return(n), ~Met(n)',
         Met(Peer(n))' <=> Met(Peer(n))
  PROVE  InFront'
<1> DEFINE m == Peer(n)
<1>1. m \in Node /\ m # n /\ n = Peer(m) /\ pos'[m] = pos[m]
  BY DEF Peer, Node, Return, AloneInv, TypeOK
<1>2. Meeting(n)' = NextMeeting(n)
  BY DEF Meeting, NextMeeting, Return, Node, AloneInv, TypeOK
<1>3. Meeting(m)' = Meeting(m) /\ NextMeeting(m)' = NextMeeting(m)
  BY <1>1 DEF Meeting, NextMeeting
<1>4. CASE Met(m)
  <2>1. Facing(NextMeeting("client"), NextMeeting("server"))
    BY <1>1, <1>4, BothMetAlone DEF Node
  <2> QED BY <1>1, <1>2, <1>3, <1>4, <2>1 DEF InFront, Facing, Standstill, Node, Peer
<1>5. CASE ~Met(m)
  <2>1. IF n = "client" THEN Facing(NextMeeting("client"), Meeting("server"))
                        ELSE Facing(Meeting("client"), NextMeeting("server"))
    BY <1>1, <1>5 DEF Sound, InFront, Node, Peer
  <2> QED BY <1>1, <1>2, <1>3, <1>5, <2>1 DEF InFront, Node, Peer
<1> QED BY <1>4, <1>5

\* So does a step the other program has no part in.
LEMMA ReturnAlonePairs ==
  ASSUME AloneInv, Sound, NEW n \in Node, ~Met(n), Return(n), ~Met(n)',
         Met(Peer(n))' <=> Met(Peer(n)), ~Exited(n),
         pos[n].label \in {"fill", "close"} \/ InOneSided(n)
  PROVE  InFront'
<1> DEFINE m == Peer(n)
<1>1. m \in Node /\ m # n /\ n = Peer(m) /\ pos'[m] = pos[m]
  BY DEF Peer, Node, Return, AloneInv, TypeOK
<1>2. Meeting(n)' = Meeting(n)
  <2>1. /\ pos[n] \in Position /\ PositionOK(n, pos[n])
        /\ pos[n].test \in 1..Len(Tests(n))
        /\ InOneSided(n) => /\ n = "client" /\ pos[n].label = "data"
                            /\ Tests("client")[pos[n].test] \in OneSided
    BY HereAlone, Kinds
  <2>2. pos'[n] = IF n = "client" THEN ClientAfter(pos[n]) ELSE ServerAfter(pos[n])
    BY DEF Return, AloneInv, TypeOK
  <2>3. CASE n = "client"
    BY <2>1, <2>2, <2>3, ClientAlone DEF Meeting
  <2>4. CASE n = "server"
    BY <2>1, <2>2, <2>4, ServerAlone, Kinds DEF Meeting
  <2> QED BY <2>3, <2>4 DEF Node
<1>3. Meeting(m)' = Meeting(m) /\ NextMeeting(m)' = NextMeeting(m)
  BY <1>1 DEF Meeting, NextMeeting
<1>4. Meeting("client")' = Meeting("client") /\ Meeting("server")' = Meeting("server")
  BY <1>1, <1>2, <1>3 DEF Node, Peer
<1>5. CASE Met(m)
  BY <1>1, <1>3, <1>4, <1>5 DEF Sound, InFront, Node, Peer
<1>6. CASE ~Met(m)
  BY <1>1, <1>4, <1>6 DEF Sound, InFront, Node, Peer
<1> QED BY <1>5, <1>6

\* So does a step after which both are where they were.
LEMMA NoMeetingPairs ==
  ASSUME InFront, pos' = pos, \A n \in Node : Met(n)' <=> Met(n)
  PROVE  InFront'
<1>1. \A n \in Node : Meeting(n)' = Meeting(n) /\ NextMeeting(n)' = NextMeeting(n)
  BY DEF Meeting, NextMeeting
<1> QED BY <1>1 DEF InFront, Node

\* The message a call may have got has nothing to do with the other program's
\* place.
Agrees(n) ==
  \A i \in 1..Len(rcq[n]) :
    /\ rcq[n][i].at = pos[n] /\ rcq[n][i].ok
    /\ ReceivesData(n) /\ n = "server" => rcq[n][i].len >= Size(n)

LEMMA AgreesFrame ==
  ASSUME NEW n \in Node, Agreement, pos'[n] = pos[n], rcq'[n] = rcq[n]
  PROVE  Agrees(n)'
<1>1. Test(n)' = Test(n) /\ Size(n)' = Size(n) /\ (Exited(n)' <=> Exited(n))
  BY DEF Test, Size, Exited
<1>2. ReceivesData(n)' <=> ReceivesData(n)
  BY <1>1 DEF ReceivesData, At
<1> QED BY <1>1, <1>2 DEF Agreement, Agrees

\* The region bound survives a step of the server, which stays in the test
\* while the client works on its region.
LEMMA InsideStays ==
  ASSUME AloneInv, Sound, pos'["client"] = pos["client"], scq'["client"] = scq["client"],
         \/ pos'["server"] = pos["server"]
         \/ Return("server") /\ ~Exited("server")
  PROVE  Inside'
<1>1. SUFFICES ASSUME InOneSided("client")', scq'["client"] # <<>>
               PROVE  (FirstByte + CallLen("client") <= RegionSize(Test("server")))'
  BY DEF Inside
<1>2. /\ InOneSided("client") /\ CallLen("client")' = CallLen("client") /\ FirstByte' = FirstByte
  BY <1>1, Where DEF Node, FirstByte, Test
<1>3. /\ pos["server"].label # "close" /\ pos["server"] \in Position /\ PositionOK("server", pos["server"])
      /\ ~Exited("server") => pos["server"].test <= Len(Tests("server"))
  BY <1>2, NotMetAlone, SameTestAlone, HereAlone DEF Sound, Node, Peer
<1>4. pos'["server"].test = pos["server"].test
  <2>1. CASE Return("server") /\ ~Exited("server")
    <3>1. pos'["server"] = ServerAfter(pos["server"])
      BY <2>1 DEF Return, AloneInv, TypeOK, Node
    <3> QED BY <1>3, <2>1, <3>1, AfterStays DEF Node
  <2> QED BY <2>1
<1>5. Test("server")' = Test("server")
  BY <1>4 DEF Test
<1>6. RegionSize(Test("server"))' = RegionSize(Test("server"))
  BY <1>5 DEF RegionSize
<1> QED BY <1>1, <1>2, <1>6 DEF Sound, Inside

\* The client of a short region stays in the first pass: a piece that reaches
\* the end of its data does not lie inside the region.
LEMMA CutShortStays ==
  ASSUME SeveralSizes, AloneInv, Sound, Return("client"), ~Exited("client"),
         InOneSided("client") => scq["client"] # <<>>
  PROVE  CutShort'
<1> DEFINE p == pos["client"]
           q == pos'["client"]
           d == DataSize["client"]
           b == Size("client")
<1>1. SUFFICES ASSUME ShortRegion PROVE CutShort'
  BY DEF CutShort, ShortRegion
<1>2. /\ p.test = 1 /\ p.round <= 1 /\ p.label \in {"open", "ready", "data"}
      /\ p \in Position /\ PositionOK("client", p) /\ Test("client") = Tests("client")[p.test]
      /\ p.label \in LabelsOf("client", Test("client"))
  BY <1>1, HereAlone DEF Sound, CutShort, Node
<1>3. Test("client") = "read_tp" /\ Tests("client")[1] = "read_tp"
  BY <1>1, <1>2, ConstantsAssumption DEF ShortRegion, Tests, Throughput, Metrics, Node
<1>4. q = ClientAfter(p)
  BY DEF Return, AloneInv, TypeOK, Node
<1>5. CASE p.label = "open"
  <2>1. 1 <= Len(Sizes("read_tp"))
    BY ConstantsAssumption DEF Sizes, LatencyTests, SeveralSizes
  <2>2. q = Goto(p, "ready", 1)
    BY <1>2, <1>3, <1>4, <1>5, <2>1 DEF ClientAfter, ClientPass
  <2> QED BY <1>2, <2>2 DEF CutShort, Goto
<1>6. CASE p.label = "ready"
  BY <1>2, <1>4, <1>6 DEF ClientAfter, CutShort, Goto
<1>7. CASE p.label = "data"
  <2>1. InOneSided("client")
    BY <1>3, <1>7 DEF InOneSided, At, OneSided
  <2>2. FirstByte + CallLen("client") <= RegionSize(Test("server"))
    BY <2>1 DEF Sound, Inside
  <2>3. Test("server") = "read_tp"
    <3>1. pos["server"].test = 1
      BY <1>2, <2>1, NotMetAlone, SameTestAlone DEF Sound, Node, Peer
    <3> QED BY <1>1, <3>1, ConstantsAssumption DEF Test, ShortRegion, Tests, Throughput, Metrics, Node
  <2>4. p.off + PieceLen(d, b, p.off) <= DataSize["server"]
    BY <1>3, <1>7, <2>2, <2>3 DEF FirstByte, CallLen, RegionSize, LatencyTests, At
  <2>5. /\ b \in Nat /\ b > 0 /\ p.off <= LastIndex(d, b) /\ p.off % b = 0 /\ p.off \in Nat
        /\ d \in Nat /\ DataSize["server"] \in Nat /\ d > DataSize["server"]
    BY <1>1, <1>2, <1>3, <1>7, SizeAlone, ConstantsAssumption DEF Node, PosNat, LatencyTests, ShortRegion, Position
  <2>6. p.off < LastIndex(d, b)
    <3> DEFINE o == p.off
    <3> HIDE DEF d, b, o
    <3>1. /\ o \in Nat /\ o <= LastIndex(d, b) /\ o + PieceLen(d, b, o) < d
          /\ d \in Nat /\ b \in Nat /\ b > 0
      <4>1. o \in Nat /\ d \in Nat /\ b \in Nat /\ b > 0 /\ o <= LastIndex(d, b)
        BY <2>5 DEF o
      <4>2. PieceLen(d, b, o) \in Nat
        BY <4>1, DivMod DEF PieceLen
      <4>3. o + PieceLen(d, b, o) <= DataSize["server"]
        BY <2>4 DEF o
      <4> QED BY <2>5, <4>1, <4>2, <4>3
    <3>2. /\ LastIndex(d, b) \in Nat /\ d = LastIndex(d, b) + (d % b)
      BY <3>1, LastIndexFacts
    <3>3. o # LastIndex(d, b)
      BY <3>1, <3>2 DEF PieceLen
    <3>4. o < LastIndex(d, b)
      BY <3>1, <3>2, <3>3
    <3> QED BY <3>4 DEF d, b, o
  <2>7. ClientMore("read_tp", b, p.off) /\ b = Sizes("read_tp")[p.round]
    BY <1>3, <2>6 DEF ClientMore, MoreToMove, Size, LatencyTests
  <2>8. q = Step(p, p.off + b)
    BY <1>2, <1>3, <1>4, <1>7, <2>7 DEF ClientAfter, LatencyTests
  <2> QED BY <1>2, <2>8 DEF CutShort, Step
<1> QED BY <1>2, <1>5, <1>6, <1>7

\* Returning from a call that is over, or from a step of its own, leaves a
\* program in front of the other one, and nothing failed.
LEMMA ReturningSound ==
  ASSUME SeveralSizes, AloneInv, Sound, NEW n \in Node, ~Exited(n), Return(n),
         \A k \in Node : LinkOK(k)',
         scq'[n] = <<>>, rcq'[n] = <<>>,
         scq'[Peer(n)] = scq[Peer(n)], rcq'[Peer(n)] = rcq[Peer(n)],
         IF n = "client" THEN dial' # "accepted" ELSE dial' = dial,
         Met(n) \/ pos[n].label \in {"fill", "close"} \/ InOneSided(n),
         InOneSided(n) => scq[n] # <<>>
  PROVE  Sound'
<1> DEFINE m == Peer(n)
<1>1. m \in Node /\ m # n /\ (\A k \in Node : k = n \/ k = m) /\ pos'[m] = pos[m]
  BY DEF Peer, Node, Return, AloneInv, TypeOK
<1>2. ~Met(n)'
  BY DEF Met
<1>3. Met(m)' <=> Met(m)
  BY <1>1, Where DEF Met, Peer, Node
<1>4. InFront'
  BY <1>2, <1>3, ReturnMetPairs, ReturnAlonePairs
<1>5. Agreement'
  <2>1. Agrees(m)'
    BY <1>1, AgreesFrame DEF Sound
  <2>2. Agrees(n)'
    BY DEF Agrees
  <2>3. \A k \in Node : Agrees(k)'
    BY <1>1, <2>1, <2>2
  <2> QED BY <2>3 DEF Agreement, Agrees
<1>6. Inside'
  <2>1. CASE n = "client"
    BY <2>1 DEF Inside
  <2>2. CASE n = "server"
    BY <1>1, <2>2, InsideStays DEF Peer
  <2> QED BY <2>1, <2>2 DEF Node
<1>7. Apart'
  BY <1>1, <1>2, <1>3 DEF Sound, Apart, SameOrder, Node, Peer
<1>8. CutShort'
  <2>1. CASE n = "client"
    BY <2>1, CutShortStays
  <2>2. CASE n = "server"
    BY <1>1, <2>2 DEF Sound, CutShort, ShortRegion, Peer
  <2> QED BY <2>1, <2>2 DEF Node
<1>9. \A k \in Node : \A i \in 1..Len(scq'[k]) : scq'[k][i] = "ok"
  BY <1>1 DEF Sound
<1> QED BY <1>4, <1>5, <1>6, <1>7, <1>8, <1>9 DEF Sound

\* A step that only posts something, or asks for a connection, or does nothing.
LEMMA QuietSound ==
  ASSUME AloneInv, Sound, UNCHANGED <<pos, failed, conn, qp, scq, rcq>>,
         dial' = "accepted" <=> dial = "accepted"
  PROVE  Sound'
<1>1. \A n \in Node : Met(n)' <=> Met(n)
  BY Where DEF Met
<1>2. InFront'
  BY <1>1, NoMeetingPairs DEF Sound
<1>3. Agreement'
  <2>1. \A n \in Node : Agrees(n)'
    BY AgreesFrame DEF Sound
  <2> QED BY <2>1 DEF Agreement, Agrees
<1>4. Inside'
  BY InsideStays
<1>5. Apart' /\ CutShort'
  BY <1>1 DEF Sound, Apart, SameOrder, CutShort, ShortRegion, Node
<1>6. \A n \in Node : LinkOK(n)' /\ \A i \in 1..Len(scq'[n]) : scq'[n][i] = "ok"
  BY DEF Sound, LinkOK
<1> QED BY <1>2, <1>3, <1>4, <1>5, <1>6 DEF Sound

\* A return inside a test leaves both queue pairs as they should be.
LEMMA LinksStay ==
  ASSUME AloneInv, Sound, NEW n \in Node, ~Exited(n), pos[n].label \notin {"open", "close"},
         Return(n), UNCHANGED <<failed, conn, qp>>
  PROVE  \A k \in Node : LinkOK(k)'
<1>1. /\ Peer(n) \in Node /\ \A k \in Node : k = n \/ k = Peer(n)
      /\ pos'[Peer(n)] = pos[Peer(n)]
  BY ReturnInside DEF Peer, Node
<1>2. pos'[n].test = pos[n].test /\ pos'[n].label # "open"
  <2>1. pos'[n] = IF n = "client" THEN ClientAfter(pos[n]) ELSE ServerAfter(pos[n])
    BY DEF Return, AloneInv, TypeOK
  <2> QED BY <2>1, HereAlone, AfterStays
<1> QED BY <1>1, <1>2 DEF Sound, LinkOK

\* A request has completed, and has not failed.
LEMMA WaitUntilCompletedSound ==
  ASSUME SeveralSizes, AloneInv, Sound, NEW n \in Node, WaitUntilCompleted(n)
  PROVE  Sound'
<1>1. /\ Peer(n) \in Node /\ Peer(n) # n
      /\ TypeOK /\ CallAlone(n) /\ Return(n) /\ blocked[n] /\ scq[n] # <<>>
      /\ UNCHANGED <<dial, conn, qp, rcq>>
  BY DEF AloneInv, Peer, Node, WaitUntilCompleted
<1>2. /\ InSend(n) \/ InOneSided(n)
      /\ Len(scq[n]) = 1 /\ rcq[n] = <<>>
      /\ scq[n] \in Seq({"ok", "failed"})
  BY <1>1 DEF CallAlone, Idle, TypeOK
<1>3. ~Exited(n) /\ pos[n].label \notin {"open", "close"}
  BY <1>2, Kinds
<1>4. scq'[n] = <<>> /\ scq'[Peer(n)] = scq[Peer(n)]
  BY <1>1, <1>2, Singleton DEF WaitUntilCompleted, TypeOK
<1>5. failed' = failed
  <2>1. Head(scq[n]) = "ok"
    BY <1>2 DEF Sound
  <2>2. (failed[n] \/ Head(scq[n]) = "failed") = failed[n]
    BY <1>1, <2>1 DEF TypeOK
  <2> QED BY <1>1, <2>2 DEF WaitUntilCompleted, TypeOK
<1>6. IF n = "client" THEN dial' # "accepted" ELSE dial' = dial
  BY <1>1, <1>2, Kinds DEF AloneInv, DialOK
<1>7. \A k \in Node : LinkOK(k)'
  BY <1>1, <1>3, <1>5, LinksStay
<1>8. Met(n) \/ InOneSided(n)
  BY <1>1, <1>2 DEF Met
<1> QED BY <1>1, <1>2, <1>3, <1>4, <1>6, <1>7, <1>8, ReturningSound

\* A message has arrived, the one that was expected.
LEMMA ReceiveSound ==
  ASSUME SeveralSizes, AloneInv, Sound, NEW n \in Node, Receive(n)
  PROVE  Sound'
<1>1. /\ Peer(n) \in Node /\ Peer(n) # n
      /\ TypeOK /\ CallAlone(n) /\ Return(n) /\ blocked[n] /\ rcq[n] # <<>>
      /\ UNCHANGED <<dial, failed, conn, qp, scq>>
  BY DEF AloneInv, Peer, Node, Receive
<1>2. /\ InReceive(n)
      /\ Len(rcq[n]) = 1 /\ scq[n] = <<>>
      /\ rcq[n] \in Seq(Message)
  BY <1>1 DEF CallAlone, Idle, TypeOK
<1>3. ~Exited(n) /\ pos[n].label \notin {"open", "close"} /\ ~InOneSided(n)
  BY <1>2, Kinds DEF OneSided, TwoSided
<1>4. rcq'[n] = <<>> /\ rcq'[Peer(n)] = rcq[Peer(n)]
  BY <1>1, <1>2, Singleton DEF Receive, TypeOK
<1>5. IF n = "client" THEN dial' # "accepted" ELSE dial' = dial
  BY <1>1, <1>2, Kinds DEF AloneInv, DialOK
<1>6. \A k \in Node : LinkOK(k)'
  BY <1>1, <1>3, LinksStay
<1>7. Met(n)
  BY <1>1, <1>2 DEF Met
<1> QED BY <1>1, <1>2, <1>3, <1>4, <1>5, <1>6, <1>7, ReturningSound

\* A program refills its buffer, or ends a test, on its own.
LEMMA LocalSound ==
  ASSUME SeveralSizes, AloneInv, Sound, NEW n \in Node, Refill(n) \/ Close(n)
  PROVE  Sound'
<1>1. /\ ~Exited(n) /\ pos[n].label \in {"fill", "close"} /\ Return(n) /\ TypeOK
      /\ Peer(n) \in Node /\ Peer(n) # n
      /\ UNCHANGED <<dial, failed, conn, scq, rcq>>
  BY DEF Refill, Close, At, AloneInv, Peer, Node, CloseQueuePair, verbs
<1>2. ~InSend(n) /\ ~InReceive(n) /\ ~InOneSided(n) /\ ~InOpen(n)
  BY <1>1, Kinds
<1>3. Idle(n)
  BY <1>2 DEF AloneInv, CallAlone
<1>4. \A k \in Node : LinkOK(k)'
  <2>1. CASE Refill(n)
    <3>1. At(n, {"fill"}) /\ UNCHANGED qp
      BY <2>1 DEF Refill, verbs
    <3> QED BY <1>1, <3>1, LinksStay DEF At
  <2>2. CASE Close(n)
    <3>1. /\ pos[n].label = "close" /\ qp' = [qp EXCEPT ![n] = "down"]
      BY <2>2 DEF Close, At, CloseQueuePair
    <3>2. pos'[n] = NextTest(pos[n]) /\ pos'[Peer(n)] = pos[Peer(n)] /\ pos[n].test \in Nat
      <4>1. pos'[n] = IF n = "client" THEN ClientAfter(pos[n]) ELSE ServerAfter(pos[n])
        BY <1>1 DEF Return, TypeOK
      <4> QED BY <1>1, <3>1, <4>1, ReturnInside, HereAlone DEF ClientAfter, ServerAfter, Position, PosNat
    <3>3. LinkOK(n)'
      BY <1>1, <3>1, <3>2 DEF Sound, LinkOK, NextTest, TypeOK
    <3>4. LinkOK(Peer(n))'
      BY <1>1, <3>1, <3>2 DEF Sound, LinkOK, TypeOK
    <3> QED BY <3>3, <3>4 DEF Node, Peer
  <2> QED BY <2>1, <2>2
<1>5. IF n = "client" THEN dial' # "accepted" ELSE dial' = dial
  BY <1>1, <1>2 DEF AloneInv, DialOK
<1> QED BY <1>1, <1>2, <1>3, <1>4, <1>5, ReturningSound DEF Idle

\* The client learns that it is connected.
LEMMA ConnectReturnsSound ==
  ASSUME SeveralSizes, AloneInv, Sound, ConnectReturns
  PROVE  Sound'
<1> DEFINE c == "client"
<1>1. /\ TypeOK /\ dial = "accepted" /\ dial' = "none"
      /\ Return(c) /\ InOpen(c) /\ blocked[c] /\ c \in Node /\ Peer(c) = "server"
      /\ UNCHANGED <<failed, scq, rcq>>
      /\ conn' = [conn EXCEPT ![c] = @ + 1] /\ qp' = [qp EXCEPT ![c] = "up"]
  BY DEF ConnectReturns, OpenQueuePair, AloneInv, DialOK, Node, Peer
<1>2. ~Exited(c) /\ pos[c].label = "open" /\ Idle(c)
  BY <1>1, Kinds DEF AloneInv, CallAlone
<1>3. ~InOneSided(c) /\ Met(c)
  BY <1>1, <1>2 DEF InOneSided, At, Met
<1>4. pos'[c].test = pos[c].test /\ pos'[c].label # "open" /\ pos'["server"] = pos["server"]
      /\ pos[c].test \in Nat
  <2>1. pos'[c] = ClientAfter(pos[c])
    BY <1>1 DEF Return, TypeOK
  <2> QED BY <1>1, <1>2, <2>1, ReturnInside, HereAlone, AfterStays DEF Position, PosNat
<1>5. \A k \in Node : LinkOK(k)'
  <2>1. LinkOK(c)'
    BY <1>1, <1>2, <1>4 DEF Sound, LinkOK, TypeOK
  <2>2. LinkOK("server")'
    BY <1>1, <1>4 DEF Sound, LinkOK, TypeOK, Node
  <2> QED BY <2>1, <2>2 DEF Node
<1> QED BY <1>1, <1>2, <1>3, <1>5, ReturningSound DEF Idle

\* The server accepts the client, which may have come for another test.
LEMMA AcceptSound ==
  ASSUME SeveralSizes, AloneInv, Sound, Accept
  PROVE  Sound'
<1> DEFINE c == "client"
           s == "server"
<1>1. /\ TypeOK /\ dial = "requested" /\ dial' = "accepted"
      /\ ~Exited(s) /\ pos[s].label = "open" /\ Return(s)
      /\ InOpen(c) /\ blocked[c]
      /\ pos'[c] = pos[c] /\ blocked'[c] = blocked[c]
      /\ UNCHANGED <<failed, sq, scq, srq, rcq>>
      /\ conn' = [conn EXCEPT ![s] = @ + 1] /\ qp' = [qp EXCEPT ![s] = "up"]
      /\ c \in Node /\ s \in Node /\ \A k \in Node : k = c \/ k = s
  BY DEF Accept, OpenQueuePair, At, AloneInv, DialOK, Node, TypeOK, Return
<1>2. /\ Idle(s) /\ Idle(c) /\ ~Exited(c) /\ pos[c].label = "open"
      /\ ~InSend(c) /\ ~InReceive(c) /\ ~InOneSided(c)
  BY <1>1, Kinds DEF AloneInv, CallAlone
<1>3. ~Met(c) /\ ~Met(s)
  BY <1>1, <1>2 DEF Met, Idle
<1>4. /\ pos'[s] = ServerAfter(pos[s])
      /\ pos'[s].test = pos[s].test /\ pos'[s].label # "open" /\ pos[s].test \in Nat
  <2>1. pos'[s] = ServerAfter(pos[s])
    BY <1>1 DEF Return, TypeOK
  <2> QED BY <1>1, <2>1, HereAlone, AfterStays DEF Position, PosNat
<1>5. \A k \in Node : LinkOK(k)'
  <2>1. LinkOK(s)'
    BY <1>1, <1>4 DEF Sound, LinkOK, TypeOK
  <2>2. LinkOK(c)'
    BY <1>1 DEF Sound, LinkOK, TypeOK
  <2> QED BY <1>1, <2>1, <2>2
<1>6. Met(c)' /\ ~Met(s)'
  BY <1>1, <1>2 DEF Met, Idle
<1>7. Facing(NextMeeting(c), ServerMeeting(ServerAfter(pos[s])))
  <2>1. pos[c] = pos[s] /\ (SameOrder \/ pos[c].test = 1)
    <3>1. Meeting(c) = pos[c] /\ Meeting(s) = pos[s]
      BY <1>1, <1>2, AtMeetingAlone
    <3>2. Facing(pos[c], pos[s])
      BY <1>3, <3>1 DEF Sound, InFront
    <3> QED BY <1>1, <1>2, <3>2 DEF Facing, Standstill
  <2>2. /\ pos[c] \in Position
        /\ pos[c].test \in 1..Len(Tests(c)) /\ pos[c].test \in 1..Len(Tests(s))
        /\ pos[c].label \in MeetingLabels(Tests(c)[pos[c].test])
        /\ PositionOK(s, pos[c])
    BY <1>1, <1>2, <2>1, HereAlone, AtMeetingAlone
  <2> QED BY <1>2, <2>1, <2>2, FacingNext DEF NextMeeting
<1>8. InFront'
  <2>1. NextMeeting(c)' = NextMeeting(c) /\ Meeting(s)' = ServerMeeting(ServerAfter(pos[s]))
    BY <1>1, <1>4 DEF NextMeeting, Meeting
  <2> QED BY <1>6, <1>7, <2>1 DEF InFront, Facing, Standstill
<1>9. Agreement'
  <2>1. Agrees(c)'
    BY <1>1, AgreesFrame DEF Sound
  <2>2. Agrees(s)'
    BY <1>1, <1>2 DEF Agrees, Idle
  <2> QED BY <1>1, <2>1, <2>2 DEF Agreement, Agrees
<1>10. Inside'
  BY <1>1, <1>2 DEF Inside, Idle
<1>11. Apart' /\ CutShort'
  BY <1>1, <1>2, <1>6 DEF Sound, Apart, SameOrder, CutShort, ShortRegion
<1> QED BY <1>1, <1>5, <1>8, <1>9, <1>10, <1>11 DEF Sound

\* A message is no longer than the buffer of a call in the same place, and one
\* of the latency test fills it.
LEMMA MessageFits ==
  ASSUME AloneInv, NEW n \in Node, NEW m \in Node, pos[n] = pos[m], Test(n) = Test(m),
         ~Exited(n), ~Exited(m)
  PROVE  /\ CallLen(n) <= BufferOf(m)
         /\ At(n, {"data"}) /\ Test(n) \in LatencyTests => CallLen(n) = Size(m)
<1>1. (At(n, {"data"}) <=> At(m, {"data"})) /\ Size(n) = Size(m)
  BY DEF At, Size
<1>2. CASE ~At(n, {"data"})
  BY <1>1, <1>2 DEF CallLen, BufferOf
<1>3. CASE At(n, {"data"})
  <2>1. Size(n) \in Nat /\ Size(n) > 0 /\ BufferOf(m) = Size(n)
    BY <1>1, <1>3, SizeAlone DEF BufferOf, At, PosNat
  <2>2. CASE Test(n) \in LatencyTests
    BY <1>1, <1>3, <2>1, <2>2 DEF CallLen
  <2>3. CASE Test(n) \notin LatencyTests
    <3> DEFINE d == DataSize[n]
               b == Size(n)
    <3>1. d \in Nat
      BY ConstantsAssumption DEF PosNat
    <3>2. CallLen(n) = PieceLen(d, b, pos[n].off)
      BY <1>3, <2>3 DEF CallLen
    <3> HIDE DEF d, b
    <3>3. b \in Nat /\ b > 0
      BY <2>1 DEF b
    <3>4. PieceLen(d, b, pos[n].off) <= b
      BY <3>1, <3>3, DivMod DEF PieceLen
    <3> QED BY <2>1, <2>3, <3>2, <3>4 DEF b
  <2> QED BY <2>2, <2>3
<1> QED BY <1>2, <1>3

\* A message meets the buffer posted for it: the programs are in the same
\* place, so that it is the expected one and fits.
LEMMA DeliverSound ==
  ASSUME AloneInv, Sound, NEW n \in Node, DeliverMessage(n)
  PROVE  Sound'
<1> DEFINE m == Peer(n)
           msg == [at |-> pos[n], len |-> CallLen(n), ok |-> TRUE]
<1>1. m \in Node /\ m # n /\ (\A k \in Node : k = n \/ k = m) /\ TypeOK /\ n = Peer(m)
  BY DEF Peer, Node, AloneInv
<1>2. /\ sq[n] # <<>> /\ Head(sq[n]).op = "send" /\ srq[m] # <<>>
      /\ UNCHANGED <<pos, blocked, dial, failed, mem, conn>>
  BY DEF DeliverMessage, Deliver
<1>3. /\ InSend(n) /\ sq[n] = << PostedBy(n) >> /\ scq[n] = <<>> /\ rcq[n] = <<>>
      /\ ~Met(n)
  BY <1>2, RequestedAlone, NotMetAlone DEF PostedBy
<1>4. /\ InReceive(m) /\ srq[m] = << BufferOf(m) >> /\ rcq[m] = <<>> /\ scq[m] = <<>>
      /\ ~Met(m)
  <2>1. InReceive(m) /\ srq[m] = << BufferOf(m) >> /\ rcq[m] = <<>> /\ scq[m] = <<>>
    BY <1>1, <1>2 DEF AloneInv, CallAlone, Idle
  <2> QED BY <1>1, <1>2, <2>1, MetAlone
<1>5. /\ pos[n] = pos[m] /\ SameOrder /\ Test(n) = Test(m) /\ ~Exited(n) /\ ~Exited(m)
      /\ Meeting("client") = Meeting("server")
  BY <1>1, <1>3, <1>4, MeetingPlace, Kinds DEF Node
<1>6. /\ CallLen(n) <= BufferOf(m)
      /\ At(n, {"data"}) /\ Test(n) \in LatencyTests => CallLen(n) = Size(m)
  BY <1>1, <1>5, MessageFits
<1>7. /\ Head(sq[n]) = PostedBy(n) /\ Head(srq[m]) = BufferOf(m)
      /\ PostedBy(n).len = CallLen(n) /\ PostedBy(n).at = pos[n]
  BY <1>3, <1>4 DEF PostedBy
<1>8. /\ scq' = [scq EXCEPT ![n] = <<"ok">>]
      /\ rcq' = [rcq EXCEPT ![m] = << msg >>]
      /\ qp' = qp
  <2> DEFINE fits == Head(sq[n]).len <= Head(srq[m])
  <2>1. fits = TRUE
    BY <1>6, <1>7
  <2>2. [at |-> Head(sq[n]).at, len |-> Head(sq[n]).len, ok |-> fits] = msg
    BY <1>7, <2>1
  <2>3. Complete(n, "ok") /\ rcq' = [rcq EXCEPT ![m] = Append(@, msg)] /\ UNCHANGED qp
    <3> HIDE DEF msg
    <3>1. Deliver(n)
      BY DEF DeliverMessage
    <3> QED BY <2>1, <2>2, <3>1 DEF Deliver
  <2>4. Append(scq[n], "ok") = <<"ok">> /\ Append(rcq[m], msg) = << msg >>
    BY <1>3, <1>4
  <2> QED BY <1>1, <2>3, <2>4 DEF Complete, TypeOK
<1>9. /\ scq'[n] = <<"ok">> /\ scq'[m] = <<>> /\ rcq'[n] = <<>> /\ rcq'[m] = << msg >>
  BY <1>1, <1>3, <1>4, <1>8 DEF TypeOK
<1>10. Met(n)' /\ Met(m)' /\ \A k \in Node : Met(k)'
  <2>1. Met(n)' /\ Met(m)'
    BY <1>1, <1>2, <1>3, <1>4, <1>9, Where DEF Met
  <2> QED BY <1>1, <2>1
<1>11. InFront'
  BY <1>2, <1>5, <1>10, Where DEF InFront, Node
<1>12. Agreement'
  <2>1. Agrees(n)'
    BY <1>9 DEF Agrees
  <2>2. Agrees(m)'
    <3>1. (ReceivesData(m) /\ m = "server" => msg.len >= Size(m))'
      <4>1. SUFFICES ASSUME ReceivesData(m), m = "server" PROVE CallLen(n) >= Size(m)
        BY <1>2 DEF ReceivesData, At, Test, Size, Exited, CallLen
      <4>2. At(n, {"data"}) /\ Test(n) \in LatencyTests /\ ~Exited(m) /\ pos[m].label = "data"
        BY <1>5, <4>1 DEF ReceivesData, At, LatencyTests
      <4>3. Size(m) \in Nat
        BY <1>1, <4>2, SizeAlone DEF PosNat
      <4> QED BY <1>6, <4>2, <4>3
    <3>2. msg.at = pos[m] /\ msg.ok
      BY <1>5
    <3>3. Len(rcq'[m]) = 1 /\ rcq'[m][1] = msg
      BY <1>9
    <3>4. pos'[m] = pos[m] /\ msg' = msg
      BY <1>1, <1>2, Where
    <3> HIDE DEF msg
    <3> QED BY <3>1, <3>2, <3>3, <3>4 DEF Agrees
  <2>3. \A k \in Node : Agrees(k)'
    BY <1>1, <2>1, <2>2
  <2> QED BY <2>3 DEF Agreement, Agrees
<1>13. Inside'
  <2>1. ~InOneSided("client")'
    BY <1>1, <1>2, <1>3, <1>4, Kinds, Where DEF Node, OneSided, TwoSided
  <2> QED BY <2>1 DEF Inside
<1>14. Apart' /\ CutShort'
  BY <1>2, <1>5 DEF Sound, Apart, SameOrder, CutShort, ShortRegion
<1>15. \A k \in Node : LinkOK(k)' /\ \A i \in 1..Len(scq'[k]) : scq'[k][i] = "ok"
  <2>1. \A k \in Node : LinkOK(k)'
    BY <1>2, <1>8 DEF Sound, LinkOK
  <2>2. \A i \in 1..Len(scq'[n]) : scq'[n][i] = "ok"
    BY <1>9
  <2>3. \A i \in 1..Len(scq'[m]) : scq'[m][i] = "ok"
    BY <1>9
  <2> QED BY <1>1, <2>1, <2>2, <2>3
<1> QED BY <1>11, <1>12, <1>13, <1>14, <1>15 DEF Sound

\* No receive buffer is filled unless the program is in a call that receives.
LEMMA NothingReceived ==
  ASSUME AloneInv, NEW n \in Node, ~(InReceive(n) /\ Met(n))
  PROVE  rcq[n] = <<>>
<1>1. CASE InReceive(n)
  <2>1. ~Met(n)
    BY <1>1
  <2> QED BY <1>1, <2>1 DEF Met
<1>2. CASE ~InReceive(n)
  BY <1>2 DEF AloneInv, CallAlone, Idle
<1> QED BY <1>1, <1>2

\* A client that reads or writes while the server runs other tests is in its
\* first test, and the server waits in front of its first pass.
LEMMA OtherTests ==
  ASSUME AloneInv, Sound, InOneSided("client"), ~SameOrder
  PROVE  /\ Metric["client"] = "latency" /\ Metric["server"] # "latency"
         /\ pos["client"].test = 1 /\ pos["server"].test = 1
         /\ pos["server"].label \in {"fill", "ready"}
         /\ Test("client") = "read_lat" /\ Test("server") = "read_tp"
<1> DEFINE c == "client"
           s == "server"
           u == Tests(s)[1]
<1>1. /\ ~Met(c) /\ ~Met(s) /\ InFront /\ c \in Node /\ s \in Node /\ Peer(c) = s
  BY NotMetAlone DEF Sound, Apart, Node, Peer
<1>2. /\ ~Exited(s) /\ pos[s].test = pos[c].test
  BY <1>1, SameTestAlone
<1>3. /\ Test(c) \in OneSided /\ pos[c].label = "data" /\ ~Exited(c)
      /\ Test(c) = Tests(c)[pos[c].test]
      /\ Test(s) = Tests(s)[pos[s].test]
      /\ Test(s) \in AllTests /\ pos[s].label \in LabelsOf(s, Test(s))
      /\ Meeting(c).label # "open" /\ Meeting(c).test = pos[c].test
  BY <1>1, <1>2, Kinds, HereAlone, MeetingHere
<1>4. Standstill(Meeting(c), Meeting(s))
  BY <1>1, <1>3 DEF InFront, Facing
<1>5. pos[c].test = 1 /\ pos[s].test = 1
  BY <1>2, <1>3, <1>4 DEF Standstill
<1>6. ServerSendsAt(Meeting(s)) /\ Meeting(s).test = 1
  <2>1. Meeting(c).label \in {"done", "fin"}
    BY <1>3 DEF Meeting, ClientMeeting, Goto, OneSided
  <2> QED BY <1>4, <2>1 DEF Standstill, ClientSendsAt
<1>7. Test(c) \in {"read_lat", "read_tp"} /\ u \in {"read_lat", "read_tp"}
      /\ (Metric[c] = "latency" <=> Test(c) = "read_lat")
      /\ (Metric[s] = "latency" <=> u = "read_lat")
  BY <1>3, <1>5, ConstantsAssumption DEF Tests, Throughput, Latency, Metrics, Node
<1>8. u = "read_tp" /\ pos[s].label \in {"fill", "ready"}
  <2>1. u = Test(s)
    BY <1>3, <1>5
  <2> HIDE DEF u
  <2>2. Meeting(s).label \in {"ready", "data"}
    BY <1>6 DEF ServerSendsAt
  <2>3. pos[s].label \in {"fill", "ready", "data"}
    BY <2>2 DEF Meeting, ServerMeeting, NextTest, Goto
  <2> QED BY <1>3, <1>7, <2>1, <2>3 DEF LabelsOf, TwoSided
<1> QED BY <1>3, <1>5, <1>7, <1>8 DEF SameOrder

\* While the client reads or writes in a throughput test, the server stands in
\* the same pass, past its refill.
LEMMA PassShared ==
  ASSUME AloneInv, Sound, At("client", {"data"}), Test("client") \in {"read_tp", "write_tp"}
  PROVE  /\ At("server", {"ready", "done"})
         /\ pos["server"].test = pos["client"].test
         /\ pos["server"].round = pos["client"].round
<1> DEFINE c == "client"
           s == "server"
           q == Goto(pos[c], "done", pos[c].round)
<1>1. InOneSided(c) /\ c \in Node /\ s \in Node /\ Peer(c) = s
  BY DEF InOneSided, OneSided, Node, Peer
<1>2. /\ ~Met(c) /\ InFront /\ ~Exited(c) /\ pos[c] \in Position /\ pos[c].label = "data"
      /\ pos[c].test \in 1..Len(Tests(c)) /\ Test(c) = Tests(c)[pos[c].test]
  BY <1>1, NotMetAlone, HereAlone DEF Sound, At
<1>3. /\ ~Exited(s) /\ pos[s].test = pos[c].test /\ pos[s].label # "close"
      /\ pos[s] \in Position /\ PositionOK(s, pos[s])
      /\ pos[s].test \in 1..Len(Tests(s)) /\ Len(Tests(s)) \in Nat
  BY <1>1, <1>2, SameTestAlone, HereAlone, TestsType
<1>4. SameOrder
  BY <1>1, OtherTests
<1>5. Tests(s)[pos[c].test] \in {"read_tp", "write_tp"}
  BY <1>2, <1>3, <1>4, TestsInOrder
<1>6. /\ q = Meeting(c) /\ q \in Position /\ q.label = "done"
      /\ q.test = pos[c].test /\ q.round = pos[c].round
  <2>1. q = Meeting(c)
    BY <1>2 DEF Meeting, ClientMeeting
  <2> QED BY <1>2, <2>1 DEF Goto, Position, Labels
<1> HIDE DEF q
<1>7. \A r : Facing(q, r) => q = r
  BY <1>2, <1>4, <1>6 DEF Facing, Standstill
<1>8. q = ServerMeeting(pos[s]) \/ q = ServerMeeting(ServerAfter(pos[s]))
  BY <1>2, <1>6, <1>7 DEF InFront, Meeting, NextMeeting
<1>9. /\ pos[s].label \in {"ready", "done"} /\ pos[s].round = q.round
  BY <1>3, <1>5, <1>6, <1>8, ServerBeforeDone
<1> QED BY <1>3, <1>6, <1>9 DEF At

\* A request that does not fit means that something in the arguments is wrong,
\* and that it is the first pass.
LEMMA FailingAccess ==
  ASSUME SeveralSizes, AloneInv, Sound, InOneSided("client"),
         ~(FirstByte + CallLen("client") <= RegionSize(Test("server")))
  PROVE  /\ Metric["server"] # "latency" /\ pos["server"].test = 1
         /\ pos["server"].label \in {"fill", "ready", "done"} /\ rcq["server"] = <<>>
         /\ pos["client"].test = 1
         /\ \/ Unserved
            \/ /\ ShortRegion /\ pos["client"].round = 1
               /\ pos["server"].round = 1 /\ pos["server"].label # "fill"
<1> DEFINE c == "client"
           s == "server"
           b == Size(c)
           d == DataSize[c]
           o == pos[c].off
<1>1. /\ ~Met(c) /\ InFront /\ c \in Node /\ s \in Node /\ Peer(c) = s
      /\ ~Exited(c) /\ pos[c].label = "data" /\ Test(c) \in OneSided /\ At(c, {"data"})
      /\ pos[c].test \in 1..Len(Tests(c)) /\ Test(c) = Tests(c)[pos[c].test]
      /\ o \in Nat
  BY NotMetAlone, Kinds, HereAlone DEF Sound, Node, Peer, At, Position
<1>2. /\ ~Exited(s) /\ pos[s].test = pos[c].test /\ pos[s].label # "close"
      /\ pos[s].test \in 1..Len(Tests(s)) /\ Test(s) = Tests(s)[pos[s].test]
      /\ pos[s].label \in LabelsOf(s, Test(s))
  BY <1>1, SameTestAlone, HereAlone
<1>3. /\ b \in Nat /\ b > 0 /\ d \in Nat /\ DataSize[s] \in Nat
      /\ Test(c) \notin LatencyTests => o % b = 0 /\ o <= LastIndex(d, b)
      /\ pos[c].round \in 1..Len(Sizes(Test(c))) /\ b = Sizes(Test(c))[pos[c].round]
  <2>1. PositionOK(c, pos[c]) /\ Len(Tests(c)) \in Nat
    BY <1>1, HereAlone, TestsType
  <2>2. pos[c].round \in 1..Len(Sizes(Test(c)))
    BY <1>1, <2>1 DEF PositionOK
  <2> QED BY <1>1, <2>2, SizeAlone, ConstantsAssumption DEF Node, PosNat, Size
<1>4. Test(c) \in LatencyTests => /\ FirstByte = 0 /\ CallLen(c) = b
                                  /\ pos[c].round \in DOMAIN LatencySizes /\ b = LatencySizes[pos[c].round]
                                  /\ b <= MaxBufferSize
  BY <1>1, <1>3, ConstantsAssumption DEF FirstByte, CallLen, Sizes
<1>5. CASE ~SameOrder
  <2>1. /\ Metric[c] = "latency" /\ Metric[s] # "latency"
        /\ pos[c].test = 1 /\ pos[s].test = 1 /\ pos[s].label \in {"fill", "ready"}
        /\ Test(c) = "read_lat" /\ Test(s) = "read_tp"
    BY <1>5, OtherTests
  <2>2. rcq[s] = <<>>
    <3>1. ~InReceive(s)
      BY <2>1 DEF InReceive, WaitsForControl, ReceivesData, SendsControl, At, TwoSided
    <3> QED BY <1>1, <3>1, NothingReceived
  <2>3. RegionSize(Test(s)) = DataSize[s]
    BY <2>1 DEF RegionSize, LatencyTests
  <2>4. Test(c) \in LatencyTests
    BY <2>1 DEF LatencyTests
  <2>5. Unserved
    BY <1>3, <1>4, <2>1, <2>3, <2>4 DEF Unserved
  <2> QED BY <2>1, <2>2, <2>5
<1>6. CASE SameOrder
  <2>1. Test(s) = Test(c)
    BY <1>1, <1>2, <1>6, TestsInOrder
  <2>2. Test(c) \in {"read_tp", "write_tp"}
    <3>1. SUFFICES ASSUME Test(c) \in LatencyTests PROVE FALSE
      BY <1>1 DEF OneSided, LatencyTests
    <3>2. RegionSize(Test(s)) = MaxBufferSize
      BY <2>1, <3>1 DEF RegionSize, LatencyTests
    <3> QED BY <1>3, <1>4, <3>1, <3>2
  <2>3. DataSize[c] > DataSize[s]
    <3>1. FirstByte = o /\ CallLen(c) = PieceLen(d, b, o) /\ RegionSize(Test(s)) = DataSize[s]
      BY <1>1, <2>1, <2>2 DEF FirstByte, CallLen, RegionSize, LatencyTests
    <3>2. o % b = 0 /\ o <= LastIndex(d, b)
      BY <1>3, <2>2 DEF LatencyTests
    <3>3. ~(o + PieceLen(d, b, o) <= DataSize[s])
      BY <3>1
    <3> HIDE DEF d, b, o
    <3>4. o + PieceLen(d, b, o) <= d /\ PieceLen(d, b, o) \in Nat /\ o \in Nat
      BY <1>1, <1>3, <3>2, PieceInBuffer, DivMod DEF PieceLen, o
    <3> QED BY <1>3, <3>3, <3>4 DEF d
  <2>4. Metric[c] # "latency" /\ Metric[s] # "latency"
    BY <1>1, <1>6, <2>2, ConstantsAssumption DEF SameOrder, Tests, Latency, Node
  <2>5. ShortRegion
    BY <2>3, <2>4 DEF ShortRegion
  <2>6. pos[c].test = 1 /\ pos[c].round = 1 /\ pos[s].test = 1
    BY <1>2, <1>3, <2>5 DEF Sound, CutShort
  <2>7. Tests(c)[1] = "read_tp" /\ Test(c) = "read_tp"
    BY <1>1, <2>4, <2>6, ConstantsAssumption DEF Tests, Throughput, Metrics, Node
  <2>8. Meeting(c) = Goto(pos[c], "done", 1)
    BY <1>1, <2>6, <2>7 DEF Meeting, ClientMeeting
  <2>9. Meeting(c).label = "done" /\ Meeting(c).test = 1
    BY <2>6, <2>8 DEF Goto
  <2>10. /\ Met(s)  => NextMeeting(s) = Meeting(c)
         /\ ~Met(s) => Meeting(s) = Meeting(c)
    <3>1. \A q : ~Standstill(Meeting(c), q)
      BY <1>6, <2>7, <2>9 DEF Standstill
    <3> QED BY <1>1, <3>1 DEF InFront, Facing
  <2>11. pos[s].label \in LabelsOf(s, "read_tp")
    BY <1>2, <2>1, <2>7
  <2>12. pos[s].round = 1 /\ pos[s].label # "fill"
    BY <1>1, <2>2, <2>6, PassShared DEF At
  <2>13. CASE Met(s)
    <3>1. ServerMeeting(ServerAfter(pos[s])).label = "done"
      BY <2>9, <2>10, <2>13 DEF NextMeeting
    <3>2. Tests(s)[pos[s].test] = "read_tp"
      BY <1>2, <2>1, <2>7
    <3>3. pos[s].label \in {"open", "fill", "ready", "done", "fin"}
      BY <1>2, <2>11 DEF LabelsOf, TwoSided
    <3>4. pos[s].label = "ready"
      BY <3>1, <3>2, <3>3 DEF ServerMeeting, ServerAfter, ServerPass, Goto, LeaveLoop, NextTest, TwoSided
    <3>5. ~InReceive(s)
      BY <2>1, <2>7, <3>4 DEF InReceive, WaitsForControl, ReceivesData, SendsControl, At, TwoSided
    <3>6. rcq[s] = <<>>
      BY <1>1, <3>5, NothingReceived
    <3> QED BY <2>4, <2>5, <2>6, <2>12, <3>4, <3>6
  <2>14. CASE ~Met(s)
    <3>1. ServerMeeting(pos[s]).label = "done"
      BY <2>9, <2>10, <2>14 DEF Meeting
    <3>2. pos[s].label = "done"
      BY <3>1 DEF ServerMeeting, NextTest, Goto
    <3>3. rcq[s] = <<>>
      BY <1>1, <2>14, NothingReceived
    <3> QED BY <2>4, <2>5, <2>6, <2>12, <3>2, <3>3
  <2> QED BY <2>13, <2>14
<1> QED BY <1>5, <1>6

\* A read or write either is carried out or takes the queue pair out of
\* service for good.
LEMMA AccessSound ==
  ASSUME SeveralSizes, AloneInv, Sound, AccessRegion
  PROVE  Sound' \/ Broken'
<1> DEFINE c == "client"
           allowed == FirstByte + CallLen(c) <= RegionSize(Test("server"))
<1>1. /\ TypeOK /\ c \in Node /\ sq[c] # <<>> /\ Head(sq[c]).op \in {"read", "write"}
      /\ UNCHANGED <<pos, blocked, dial, failed, conn, srq, rcq>>
  BY DEF AccessRegion, Access, AloneInv, Node
<1>2. /\ InOneSided(c) /\ sq[c] = << PostedBy(c) >> /\ scq[c] = <<>> /\ rcq[c] = <<>>
      /\ ~InSend(c) /\ ~InReceive(c) /\ ~Met(c)
  <2>1. ~InSend(c)
    BY <1>1, RequestedAlone DEF Node, PostedBy
  <2> QED BY <1>1, <2>1, RequestedAlone, NotMetAlone, Kinds DEF Node, OneSided, TwoSided
<1>3. /\ Complete(c, IF allowed THEN "ok" ELSE "failed")
      /\ IF allowed THEN UNCHANGED qp ELSE Break(Node)
  <2>1. Head(sq[c]) = PostedBy(c) /\ PostedBy(c).at = pos[c] /\ PostedBy(c).len = CallLen(c)
    BY <1>2 DEF PostedBy
  <2>2. (IF Test(c) \in LatencyTests THEN 0 ELSE Head(sq[c]).at.off) = FirstByte
    BY <2>1 DEF FirstByte
  <2>3. Access(c, allowed)
    BY <2>1, <2>2 DEF AccessRegion
  <2> HIDE DEF allowed
  <2> QED BY <2>3 DEF Access
<1>4. CASE allowed
  <2>1. Append(scq[c], "ok") = <<"ok">>
    BY <1>2
  <2>2. qp' = qp /\ scq'[c] = <<"ok">> /\ scq'["server"] = scq["server"]
    BY <1>1, <1>3, <1>4, <2>1 DEF Complete, TypeOK, Node
  <2>3. \A k \in Node : Met(k)' <=> Met(k)
    BY <1>1, <1>2, <2>2, Where DEF Met, Node
  <2>4. InFront'
    BY <1>1, <2>3, NoMeetingPairs DEF Sound
  <2>5. Agreement'
    <3>1. \A n \in Node : Agrees(n)'
      BY <1>1, AgreesFrame DEF Sound
    <3> QED BY <3>1 DEF Agreement, Agrees
  <2>6. Inside'
    <3>1. /\ CallLen(c)' = CallLen(c) /\ FirstByte' = FirstByte
          /\ RegionSize(Test("server"))' = RegionSize(Test("server"))
      BY <1>1, Where DEF FirstByte, Test, RegionSize
    <3> QED BY <1>4, <3>1 DEF Inside
  <2>7. Apart' /\ CutShort'
    BY <1>1, <2>3 DEF Sound, Apart, SameOrder, CutShort, ShortRegion, Node
  <2>8. \A k \in Node : LinkOK(k)' /\ \A i \in 1..Len(scq'[k]) : scq'[k][i] = "ok"
    BY <1>1, <2>2 DEF Sound, LinkOK, Node
  <2> QED BY <2>4, <2>5, <2>6, <2>7, <2>8 DEF Sound
<1>5. CASE ~allowed
  <2>1. qp'["server"] = "error" /\ dial' # "accepted"
    BY <1>1, <1>2, <1>3, <1>5 DEF Break, Node, Met
  <2>2. pos["client"].label = "data"
    BY <1>1, <1>2, Kinds
  <2>3. /\ Metric["server"] # "latency" /\ pos["server"].test = 1
        /\ pos["server"].label \in {"fill", "ready", "done"} /\ rcq["server"] = <<>>
        /\ pos["client"].test = 1
        /\ \/ Unserved
           \/ /\ ShortRegion /\ pos["client"].round = 1
              /\ pos["server"].round = 1 /\ pos["server"].label # "fill"
    BY <1>2, <1>5, FailingAccess
  <2>4. \A n \in Node : rcq'[n] = <<>>
    BY <1>1, <1>2, <2>3 DEF Node
  <2> QED BY <1>1, <2>1, <2>2, <2>3, <2>4 DEF Broken, Unserved, ShortRegion
<1> QED BY <1>4, <1>5

-----------------------------------------------------------------------------
(* Steps after a request has failed.                                       *)

\* What the server does then: it waits, and no message reaches it.
LEMMA BrokenCalls ==
  ASSUME AloneInv, Broken
  PROVE  /\ \A n \in Node : ~Connected(n)
         /\ \A n \in Node : ~Receive(n)
         /\ ~ConnectReturns /\ ~Accept /\ ~Close("server")
         /\ ~InOneSided("server") /\ (InSend("server") => pos["server"].label = "ready")
<1>1. \A n \in Node : ~Connected(n) /\ ~Receive(n)
  BY DEF Broken, Connected, Receive, Node, Peer
<1>2. ~ConnectReturns /\ ~Accept /\ ~Close("server")
  BY DEF Broken, ConnectReturns, Accept, Close, At
<1>3. /\ ~InOneSided("server") /\ (InSend("server") => pos["server"].label = "ready")
  BY DEF Broken, InOneSided, InSend, SendsControl, SendsData, At
<1> QED BY <1>1, <1>2, <1>3

\* The server ends nothing any more: it goes from its refill to the message
\* that announces the pass, and from there to the wait for its end.
LEMMA BrokenServer ==
  ASSUME AloneInv, Broken, Return("server"), ~Exited("server"),
         pos["server"].label \in {"fill", "ready"}
  PROVE  /\ pos'["server"].label = IF pos["server"].label = "fill" THEN "ready" ELSE "done"
         /\ pos'["server"].test = pos["server"].test
         /\ pos'["server"].round = pos["server"].round
         /\ pos'["client"] = pos["client"]
<1>1. Tests("server")[1] = "read_tp" /\ pos["server"].test = 1
  BY ConstantsAssumption DEF Broken, Tests, Throughput, Metrics, Node
<1>2. pos'["server"] = ServerAfter(pos["server"]) /\ pos'["client"] = pos["client"]
  BY DEF Return, AloneInv, TypeOK, Node
<1> QED BY <1>1, <1>2 DEF ServerAfter, Goto, TwoSided

\* The client goes on to where it has to wait for the server.
ClientPlace ==
  \/ /\ Unserved
     /\ \/ pos["client"].test = 1 /\ pos["client"].label # "open"
        \/ pos["client"].test = 2 /\ pos["client"].label = "open"
  \/ /\ ShortRegion
     /\ pos["client"].test = 1
     /\ \/ pos["client"].round = 1 /\ pos["client"].label \in {"data", "done"}
        \/ pos["client"].round = 2 /\ pos["client"].label = "ready"

LEMMA BrokenClient ==
  ASSUME SeveralSizes, AloneInv, Broken, Return("client"), ~Exited("client"),
         pos["client"].label # "open", ~InReceive("client")
  PROVE  ClientPlace' /\ pos'["server"] = pos["server"]
<1> DEFINE p == pos["client"]
           q == pos'["client"]
<1>1. /\ q = ClientAfter(p) /\ pos'["server"] = pos["server"]
      /\ p \in Position /\ PositionOK("client", p) /\ p.test <= Len(Tests("client"))
      /\ Test("client") = Tests("client")[p.test]
  BY HereAlone DEF Return, AloneInv, TypeOK, Node
<1>2. CASE Unserved
  <2>1. p.test = 1
    BY <1>2 DEF Broken, Unserved, ShortRegion
  <2>2. CASE p.label = "close"
    BY <1>1, <1>2, <2>1, <2>2 DEF ClientPlace, Unserved, ClientAfter, NextTest
  <2>3. CASE p.label # "close"
    <3>1. q.test = p.test /\ q.label # "open"
      BY <1>1, <2>3, AfterStays DEF Node
    <3> QED BY <1>1, <1>2, <2>1, <3>1 DEF ClientPlace, Unserved
  <2> QED BY <2>2, <2>3
<1>3. CASE ~Unserved
  <2>1. /\ ShortRegion /\ p.test = 1
        /\ \/ p.round = 1 /\ p.label \in {"data", "done"}
           \/ p.round = 2 /\ p.label = "ready"
    BY <1>3 DEF Broken
  <2>2. Tests("client")[1] = "read_tp" /\ Test("client") = "read_tp"
    BY <1>1, <2>1, ConstantsAssumption DEF ShortRegion, Tests, Throughput, Metrics, Node
  <2>3. Sizes("read_tp") = BufferSizes /\ 2 <= Len(BufferSizes)
    BY ConstantsAssumption DEF Sizes, LatencyTests, SeveralSizes
  <2>4. p.label # "ready"
    BY <2>2 DEF InReceive, WaitsForControl, SendsControl, At, TwoSided
  <2>5. CASE p.label = "data"
    <3>1. q.test = 1 /\ q.round = 1 /\ q.label \in {"data", "done"}
      BY <1>1, <2>1, <2>2, <2>5 DEF ClientAfter, Step, Goto
    <3> QED BY <1>1, <2>1, <3>1 DEF ClientPlace, ShortRegion
  <2>6. CASE p.label = "done"
    <3>1. p.round + 1 = 2
      BY <2>1, <2>6
    <3>2. q = Goto(p, "ready", 2)
      BY <1>1, <2>1, <2>2, <2>3, <2>6, <3>1 DEF ClientAfter, ClientPass
    <3> QED BY <1>1, <2>1, <3>2 DEF ClientPlace, ShortRegion, Goto
  <2> QED BY <2>1, <2>4, <2>5, <2>6
<1> QED BY <1>2, <1>3

\* Nothing repairs it.  The server stays in its pass, and its region changes no
\* more once its refill is over.
LEMMA BrokenStays ==
  ASSUME SeveralSizes, AloneInv, Broken, [Next]_vars
  PROVE  Broken' /\ StaysInPass
<1> DEFINE c == "client"
           s == "server"
           Rest == /\ qp'[s] = "error" /\ dial' # "accepted" /\ rcq' = rcq
           SameRegion == mem'[s] = mem[s]
           Goal == Broken' /\ StaysInPass
<1>1. /\ TypeOK /\ c \in Node /\ s \in Node /\ c # s /\ qp[s] = "error"
      /\ \A n \in Node : n = c \/ n = s
  BY DEF AloneInv, Broken, Node
<1>2. ASSUME Rest, pos' = pos, SameRegion
      PROVE  Goal
  BY <1>2 DEF Broken, Unserved, ShortRegion, StaysInPass
<1>3. ASSUME Rest, Return(s), ~Exited(s),
             pos[s].label = "fill" \/ (pos[s].label = "ready" /\ SameRegion)
      PROVE  Goal
  <2>1. /\ pos'[s].label = IF pos[s].label = "fill" THEN "ready" ELSE "done"
        /\ pos'[s].test = pos[s].test /\ pos'[s].round = pos[s].round
        /\ pos'[c] = pos[c]
    BY <1>3, BrokenServer
  <2>2. Broken'
    BY <1>3, <2>1 DEF Broken, Unserved, ShortRegion
  <2>3. StaysInPass
    BY <1>3, <2>1 DEF StaysInPass
  <2> QED BY <2>2, <2>3
<1>4. ASSUME Rest, Return(c), ~Exited(c), pos[c].label # "open", ~InReceive(c), SameRegion
      PROVE  Goal
  <2>1. ClientPlace' /\ pos'[s] = pos[s]
    BY <1>4, BrokenClient
  <2>2. Broken'
    BY <1>4, <2>1 DEF Broken, ClientPlace, Unserved, ShortRegion
  <2>3. StaysInPass
    BY <1>4, <2>1 DEF StaysInPass
  <2> QED BY <2>2, <2>3
<1>5. ASSUME NEW n \in Node, Program(n)
      PROVE  Goal
  <2>1. CASE SendControlMessage(n) \/ SendData(n) \/ WaitForControlMessage(n) \/ PostDataBuffer(n)
    <3>1. SameRegion
      BY <1>1, <2>1 DEF SendControlMessage, SendData, WaitForControlMessage, PostDataBuffer, TypeOK
    <3> QED BY <1>2, <2>1, <3>1
            DEF SendControlMessage, SendData, WaitForControlMessage, PostDataBuffer, Broken
  <2>2. CASE WaitUntilCompleted(n)
    <3>1. Rest /\ Return(n) /\ SameRegion /\ (InSend(n) \/ InOneSided(n))
      BY <1>1, <2>2 DEF WaitUntilCompleted, AloneInv, CallAlone, Idle, Broken
    <3>2. ~Exited(n) /\ pos[n].label # "open" /\ ~InReceive(n)
      BY <3>1, Kinds DEF OneSided, TwoSided
    <3>3. CASE n = c
      BY <1>4, <3>1, <3>2, <3>3
    <3>4. CASE n = s
      BY <1>3, <3>1, <3>2, <3>4, BrokenCalls
    <3> QED BY <1>1, <3>3, <3>4
  <2>3. CASE Refill(n)
    <3>1. Rest /\ Return(n) /\ ~Exited(n) /\ pos[n].label = "fill"
      BY <2>3 DEF Refill, At, Broken, verbs
    <3>2. ~InReceive(n)
      BY <3>1, Kinds
    <3>3. CASE n = c
      <4>1. SameRegion
        BY <1>1, <2>3, <3>3 DEF Refill, TypeOK
      <4> QED BY <1>4, <3>1, <3>2, <3>3, <4>1
    <3>4. CASE n = s
      BY <1>3, <3>1, <3>4
    <3> QED BY <1>1, <3>3, <3>4
  <2>4. CASE Close(n)
    <3>1. n = c
      BY <1>1, <2>4, BrokenCalls
    <3>2. Rest /\ SameRegion /\ Return(c) /\ ~Exited(c) /\ pos[c].label = "close"
      BY <1>1, <2>4, <3>1 DEF Close, CloseQueuePair, At, Broken, TypeOK
    <3>3. ~InReceive(c)
      BY <1>1, <3>2, Kinds
    <3> QED BY <1>4, <3>2, <3>3
  <2> QED BY <1>5, <2>1, <2>2, <2>3, <2>4, BrokenCalls DEF Program
<1>6. CASE Client
  <2>1. CASE Connect \/ ReadOrWrite
    <3>1. Rest /\ pos' = pos
      BY <1>1, <2>1 DEF Connect, ReadOrWrite, Broken, verbs
    <3>2. SameRegion
      BY <1>1, <2>1 DEF Connect, ReadOrWrite, TypeOK
    <3> QED BY <1>2, <3>1, <3>2
  <2> QED BY <1>1, <1>5, <1>6, <2>1, BrokenCalls DEF Client
<1>7. CASE Server
  BY <1>1, <1>5, <1>7, BrokenCalls DEF Server
<1>8. CASE Hardware
  <2>1. ASSUME NEW n \in Node, FlushRequest(n)
        PROVE  Goal
    <3>1. Rest /\ pos' = pos /\ SameRegion
      BY <1>1, <2>1 DEF FlushRequest, Flush, Break, Broken, Node
    <3> QED BY <1>2, <3>1
  <2>2. ~AccessRegion /\ \A n \in Node : ~DeliverMessage(n)
    BY <1>1, BrokenCalls DEF AccessRegion, Access, DeliverMessage, Deliver
  <2> QED BY <1>8, <2>1, <2>2 DEF Hardware
<1>9. CASE UNCHANGED vars
  <2>1. Rest /\ pos' = pos /\ SameRegion
    BY <1>9 DEF vars, verbs, Broken
  <2> QED BY <1>2, <2>1
<1> QED BY <1>6, <1>7, <1>8, <1>9 DEF Next, Finished

-----------------------------------------------------------------------------
(* The invariant.                                                          *)

LEMMA InitPairs ==
  ASSUME Init
  PROVE  PairInv
<1>1. AloneInv
  BY InitAlone
<1>2. \A n \in Node : /\ pos[n] = [test |-> 1, round |-> 0, label |-> "open", off |-> 0]
                      /\ ~failed[n] /\ qp[n] = "down" /\ conn[n] = 0
                      /\ scq[n] = <<>> /\ rcq[n] = <<>>
  BY DEF Init, VerbsInit
<1>3. dial = "none"
  BY DEF Init
<1>4. "client" \in Node /\ "server" \in Node
  BY DEF Node
<1>5. \A n \in Node : ~Met(n)
  BY <1>2, <1>3 DEF Met
<1>6. Meeting("client") = Meeting("server") /\ Meeting("client") = pos["client"]
  BY <1>2, <1>4 DEF Meeting, ClientMeeting, ServerMeeting
<1>7. InFront
  BY <1>2, <1>4, <1>5, <1>6 DEF InFront, Facing
<1>8. \A n \in Node : LinkOK(n) /\ \A i \in 1..Len(scq[n]) : scq[n][i] = "ok"
  BY <1>2 DEF LinkOK
<1>9. Agreement /\ Inside /\ Apart /\ CutShort
  BY <1>2, <1>4, <1>5 DEF Agreement, Inside, Apart, CutShort
<1> QED BY <1>1, <1>7, <1>8, <1>9 DEF PairInv, Sound

\* As long as nothing has failed, every step leaves it so, or is the first
\* request to fail.
LEMMA SoundStep ==
  ASSUME SeveralSizes, AloneInv, Sound, [Next]_vars
  PROVE  Sound' \/ Broken'
<1>1. ASSUME NEW n \in Node, Program(n)
      PROVE  Sound'
  <2>1. CASE SendControlMessage(n) \/ SendData(n) \/ WaitForControlMessage(n) \/ PostDataBuffer(n)
    BY <2>1, QuietSound DEF SendControlMessage, SendData, WaitForControlMessage, PostDataBuffer
  <2> QED BY <1>1, <2>1, WaitUntilCompletedSound, ReceiveSound, LocalSound DEF Program
<1>2. CASE Client
  <2>1. CASE Connect
    <3>1. dial # "accepted"
      <4>1. CASE dial = "none"
        BY <4>1
      <4>2. CASE dial # "none"
        BY <2>1, <4>2 DEF Connect, Call, AloneInv, DialOK
      <4> QED BY <4>1, <4>2
    <3> QED BY <2>1, <3>1, QuietSound DEF Connect, verbs
  <2>2. CASE ReadOrWrite
    BY <2>2, QuietSound DEF ReadOrWrite
  <2> QED BY <1>1, <1>2, <2>1, <2>2, ConnectReturnsSound DEF Client, Node
<1>3. CASE Server
  BY <1>1, <1>3, AcceptSound DEF Server, Node
<1>4. CASE Hardware
  <2>1. \A n \in Node : ~FlushRequest(n)
    BY NotSeveredAlone DEF FlushRequest, Flush
  <2> QED BY <1>4, <2>1, DeliverSound, AccessSound DEF Hardware
<1>5. CASE UNCHANGED vars
  BY <1>5, QuietSound DEF vars, verbs
<1> QED BY <1>2, <1>3, <1>4, <1>5 DEF Next, Finished

LEMMA NextPairs ==
  ASSUME SeveralSizes, PairInv, [Next]_vars
  PROVE  PairInv'
<1>1. AloneInv /\ AloneInv'
  BY NextAlone DEF PairInv
<1> QED BY <1>1, SoundStep, BrokenStays DEF PairInv

-----------------------------------------------------------------------------
(* The theorems.                                                           *)

\* Two programs started with any arguments keep in front of each other until a
\* request fails, and none fails but in the first test of a server that begins
\* with the throughput tests.
THEOREM PairInvariance ==
  ASSUME SeveralSizes
  PROVE  Spec => []PairInv
<1>1. Init => PairInv
  BY InitPairs
<1>2. PairInv /\ [Next]_vars => PairInv'
  BY NextPairs
<1> QED BY <1>1, <1>2, PTL DEF Spec

\* No message is taken for another one, whatever the two programs are started
\* with: two that count messages of different tests, or different numbers of
\* messages, stop before they do.
THEOREM NothingMistaken ==
  ASSUME SeveralSizes
  PROVE  Spec => []Agreement
<1>1. PairInv => Agreement
  BY DEF PairInv, Sound, Broken, Agreement
<1> QED BY <1>1, PairInvariance, PTL

\* Opening the queue pair and ending a refill leave such a server short of the
\* end of its first pass.
LEMMA FirstPassAlone ==
  ASSUME FirstPass, AloneInv, ~SameOrder, Return("server"),
         pos["server"].label \in {"open", "fill"}, ~Exited("server")
  PROVE  FirstPass'
<1> DEFINE p == pos["server"]
<1>1. pos'["server"] = ServerAfter(p)
  BY DEF Return, AloneInv, TypeOK, Node
<1>2. /\ p.test = 1 /\ p.round <= 1 /\ p \in Position
      /\ Tests("server")[1] \notin TwoSided
  BY ConstantsAssumption, HereAlone
     DEF FirstPass, Tests, Throughput, Latency, Metrics, TwoSided, Node
<1> HIDE DEF p
<1>3. /\ pos'["server"].test = 1 /\ pos'["server"].round <= 1
      /\ pos'["server"].label # "close"
  BY <1>1, <1>2 DEF ServerAfter, ServerPass, LeaveLoop, Goto, p
<1> QED BY <1>3 DEF FirstPass

LEMMA NextFirstPass ==
  ASSUME SeveralSizes, PairInv, FirstPass, [Next]_vars
  PROVE  FirstPass'
<1> DEFINE s == "server"
<1>1. AloneInv /\ s \in Node /\ pos \in [Node -> Position]
  BY DEF PairInv, AloneInv, TypeOK, Node
<1>2. ASSUME pos'[s] = pos[s]
      PROVE  FirstPass'
  BY <1>2 DEF FirstPass, SameOrder
<1>3. CASE Broken
  <2>1. Broken' /\ StaysInPass /\ qp[s] = "error"
    BY <1>1, <1>3, BrokenStays DEF Broken
  <2> QED BY <2>1 DEF FirstPass, StaysInPass, SameOrder, Broken
<1>4. CASE Sound /\ ~SameOrder
  <2>1. ~Met(s)
    BY <1>4 DEF Sound, Apart
  <2>2. ASSUME NEW n \in Node, Program(n)
        PROVE  FirstPass'
    <3>1. CASE n = "client"
      BY <1>1, <1>2, <2>2, <3>1
         DEF Program, SendControlMessage, SendData, WaitUntilCompleted, WaitForControlMessage,
             PostDataBuffer, Receive, Refill, Close, Return
    <3>2. CASE n = s
      <4>1. CASE SendControlMessage(s) \/ SendData(s) \/ WaitForControlMessage(s) \/ PostDataBuffer(s)
        BY <1>2, <4>1 DEF SendControlMessage, SendData, WaitForControlMessage, PostDataBuffer
      <4>2. ~WaitUntilCompleted(s)
        BY <1>1, <2>1, HereAlone DEF WaitUntilCompleted, CallAlone, Idle, Met, InOneSided, InOpen
      <4>3. ~Receive(s)
        BY <1>1, <2>1, HereAlone DEF Receive, CallAlone, Idle, Met, InReceive
      <4>4. CASE Refill(s)
        BY <1>1, <1>4, <4>4, FirstPassAlone DEF Refill, At
      <4>5. ~Close(s)
        BY <1>4 DEF Close, At, FirstPass
      <4> QED BY <2>2, <3>2, <4>1, <4>2, <4>3, <4>4, <4>5 DEF Program
    <3> QED BY <3>1, <3>2 DEF Node
  <2>3. CASE Client
    BY <1>1, <1>2, <2>2, <2>3 DEF Client, Connect, ConnectReturns, ReadOrWrite, Return, Node
  <2>4. CASE Server
    <3>1. CASE Accept
      BY <1>1, <1>4, <3>1, FirstPassAlone DEF Accept, At
    <3> QED BY <1>1, <2>2, <2>4, <3>1 DEF Server
  <2>5. CASE Hardware \/ UNCHANGED vars
    BY <1>2, <2>5 DEF Hardware, DeliverMessage, FlushRequest, AccessRegion, vars
  <2> QED BY <2>3, <2>4, <2>5 DEF Next, Finished
<1>5. CASE SameOrder
  BY <1>5 DEF FirstPass, SameOrder
<1> QED BY <1>3, <1>4, <1>5 DEF PairInv

\* A server that begins with other tests than the client does not get to the
\* end of its first pass.
THEOREM FirstPassOnly ==
  ASSUME SeveralSizes
  PROVE  Spec => []FirstPass
<1>1. Init => FirstPass
  BY DEF Init, FirstPass, Node
<1>2. PairInv /\ FirstPass /\ [Next]_vars => FirstPass'
  BY NextFirstPass
<1> QED BY <1>1, <1>2, PairInvariance, PTL DEF Spec

\* While the client reads or writes in a latency test that the server runs as
\* well, the server waits for the end of the test.
LEMMA TestShared ==
  ASSUME AloneInv, Sound, SameOrder, At("client", {"data"}), Test("client") \in {"read_lat", "write_lat"}
  PROVE  At("server", {"fin"}) /\ pos["server"].test = pos["client"].test
<1> DEFINE c == "client"
           s == "server"
           p == pos[s]
           t == Tests(s)[p.test]
           q == Goto(pos[c], "fin", 0)
<1>1. InOneSided(c) /\ c \in Node /\ s \in Node /\ Peer(c) = s
  BY DEF InOneSided, OneSided, Node, Peer
<1>2. /\ ~Met(c) /\ InFront /\ ~Exited(c) /\ pos[c] \in Position /\ pos[c].label = "data"
      /\ pos[c].test \in 1..Len(Tests(c)) /\ Test(c) = Tests(c)[pos[c].test]
  BY <1>1, NotMetAlone, HereAlone DEF Sound, At
<1>3. /\ ~Exited(s) /\ p.test = pos[c].test /\ p.label # "close"
      /\ p.label \in LabelsOf(s, t) /\ p.test \in 1..Len(Tests(s)) /\ Test(s) = t
      /\ p.label = "open" => InOpen(s)
  BY <1>1, <1>2, SameTestAlone, HereAlone
<1>4. t = Test(c) /\ t \in {"read_lat", "write_lat"}
  BY <1>2, <1>3, TestsInOrder
<1> HIDE DEF t, p
<1>5. p.label \in {"open", "fin"}
  BY <1>3, <1>4 DEF LabelsOf, TwoSided
<1>6. p.label # "open"
  BY <1>3 DEF InOpen
<1> QED BY <1>3, <1>5, <1>6 DEF At, p

\* While the client reads or writes, the server is in the same pass and past its
\* refill, or waits for the end of the same latency test: whatever the two
\* programs are started with, and also when a request has failed.  There is one
\* exception, in which the server may be refilling its region under the
\* transfer: the first test of a client that begins with the latency tests,
\* when the server does not, and is then in the first pass of its own.
THEOREM RegionsOfAny ==
  ASSUME SeveralSizes
  PROVE  Spec => []RefillsOnlyThere
<1>1. PairInv /\ FirstPass => RefillsOnlyThere
  <2> DEFINE c == pos["client"]
             s == pos["server"]
  <2> SUFFICES ASSUME PairInv, FirstPass, At("client", {"data"}), Test("client") \in OneSided
               PROVE  RefillsOnlyThere
    BY DEF RefillsOnlyThere
  <2>1. /\ AloneInv /\ InOneSided("client") /\ c.label = "data"
        /\ PositionOK("server", s) /\ s \in Position /\ Len(Tests("server")) \in Nat
        /\ Len(Tests("server")) > 0
    BY HereAlone, TestsType, ConstantsAssumption
       DEF PairInv, InOneSided, At, Node, Tests, Throughput, Latency, Metrics
  <2>2. ASSUME s.test = 1, s.label \in {"fill", "ready", "done"}
        PROVE  At("server", {"fill", "ready", "done"}) /\ s.round \in Nat /\ s.round >= 1
    BY <2>1, <2>2 DEF At, Exited, PositionOK
  <2>3. CASE Sound /\ SameOrder
    <3>1. CASE Test("client") \in {"read_tp", "write_tp"}
      BY <2>1, <2>3, <3>1, PassShared DEF RefillsOnlyThere
    <3>2. CASE Test("client") \in {"read_lat", "write_lat"}
      BY <2>1, <2>3, <3>2, TestShared DEF RefillsOnlyThere, LatencyTests
    <3> QED BY <3>1, <3>2 DEF OneSided
  <2>4. CASE Sound /\ ~SameOrder
    <3>1. /\ Metric["client"] = "latency" /\ c.test = 1 /\ s.test = 1
          /\ s.label \in {"fill", "ready"}
      BY <2>1, <2>4, OtherTests
    <3>2. s.round = 1 /\ At("server", {"fill", "ready", "done"})
      BY <2>1, <2>2, <2>4, <3>1 DEF FirstPass, Position
    <3> QED BY <2>4, <3>1, <3>2 DEF RefillsOnlyThere
  <2>5. CASE Broken /\ Unserved
    <3>1. /\ Metric["client"] = "latency" /\ ~SameOrder /\ c.test = 1 /\ s.test = 1
          /\ s.label \in {"fill", "ready", "done"}
      BY <2>1, <2>5 DEF Broken, Unserved, ShortRegion, SameOrder
    <3>2. s.round = 1 /\ At("server", {"fill", "ready", "done"})
      BY <2>1, <2>2, <3>1 DEF FirstPass, Position
    <3> QED BY <3>1, <3>2 DEF RefillsOnlyThere
  <2>6. CASE Broken /\ ~Unserved
    <3>1. /\ SameOrder /\ s.test = 1 /\ s.label \in {"ready", "done"} /\ s.round = 1
          /\ c.test = 1 /\ c.round = 1
      BY <2>1, <2>6 DEF Broken, ShortRegion, SameOrder
    <3>2. At("server", {"ready", "done"})
      BY <2>2, <3>1 DEF At
    <3> QED BY <3>1, <3>2 DEF RefillsOnlyThere
  <2> QED BY <2>3, <2>4, <2>5, <2>6 DEF PairInv
<1> QED BY <1>1, PairInvariance, FirstPassOnly, PTL

\* Once the queue pair is out of service, the server ends the refill it may be
\* in and no other follows: its region does not change any more.  It never takes
\* a message for the end of the pass.
THEOREM NoPassAfterFailure ==
  ASSUME SeveralSizes
  PROVE  Spec => StopsAtFailure
<1>1. PairInv /\ [Next]_vars => [StaysInPass]_vars
  <2> SUFFICES ASSUME PairInv, [Next]_vars, qp["server"] = "error"
               PROVE  StaysInPass
    BY DEF StaysInPass
  <2>1. ~Sound
    BY DEF Sound, LinkOK, Node
  <2> QED BY <2>1, BrokenStays DEF PairInv
<1> QED BY <1>1, PairInvariance, PTL DEF Spec, StopsAtFailure

\* The client is not ahead of the server by more than the test it has ended,
\* and not by any if they begin with different tests.
LEMMA ClientTests ==
  ASSUME AloneInv, Sound
  PROVE  IF SameOrder THEN /\ pos["client"].test <= Len(Tests("server")) + 1
                           /\ pos["client"].test <= pos["server"].test + 1
                      ELSE pos["client"].test <= 1
<1> DEFINE c == pos["client"]
           s == pos["server"]
           N == Len(Tests("server"))
<1>1. /\ c \in Position /\ s \in Position /\ c.test \in Nat /\ s.test \in Nat /\ N \in Nat
      /\ PositionOK("server", s)
  BY HereAlone, TestsType DEF Node, Position, PosNat
<1>2. /\ c.test <= Meeting("client").test
      /\ c.test <= NextMeeting("client").test
      /\ Meeting("server").test <= s.test + 1
      /\ NextMeeting("server").test <= s.test + 1
      /\ Meeting("client").test \in Nat /\ Meeting("server").test \in Nat
  BY <1>1, MeetingTests DEF Meeting, NextMeeting
<1>3. Meeting("server").test <= N + 1
  <2>1. CASE s.test <= N
    BY <1>1, <1>2, <2>1
  <2>2. CASE s.test > N
    <3>1. s.label = "open" /\ s.test = N + 1
      BY <1>1, <2>2 DEF PositionOK
    <3>2. Meeting("server") = s
      BY <1>1, <3>1 DEF Meeting, ServerMeeting
    <3> QED BY <1>1, <3>1, <3>2
  <2> QED BY <1>1, <2>1, <2>2
<1>4. CASE Met("server")
  <2>1. ~Exited("server") /\ SameOrder
    BY <1>4, MetAlone DEF Sound, Apart, Node
  <2>2. s.test <= N
    BY <1>1, <2>1 DEF Exited
  <2>3. \/ Meeting("client").test = Meeting("server").test
        \/ Meeting("client").test = NextMeeting("server").test
    BY <1>4, FacingTests DEF Sound, InFront
  <2> QED BY <1>1, <1>2, <2>1, <2>2, <2>3
<1>5. CASE ~Met("server")
  <2> DEFINE m == IF Met("client") THEN NextMeeting("client") ELSE Meeting("client")
  <2>1. Facing(m, Meeting("server"))
    BY <1>5 DEF Sound, InFront
  <2>2. c.test <= m.test /\ m.test = Meeting("server").test
    BY <1>2, <2>1, FacingTests
  <2>3. ~SameOrder => m.test = 1
    BY <2>1 DEF Facing, Standstill
  <2> QED BY <1>1, <1>2, <1>3, <2>2, <2>3
<1> QED BY <1>4, <1>5

\* A results file that is written is about the test it is named for, whatever
\* the two programs are started with, but for the first file of a client that
\* runs the latency tests against a server that does not and that has less
\* data than the largest of the latency sizes.
THEOREM ResultsMatch ==
  ASSUME SeveralSizes
  PROVE  ResultsSpec => []NoSilentMismatch
<1> DEFINE I == PairInv /\ (Sound => GoodLines)
<1>1. ResultsInit => I
  BY InitPairs DEF ResultsInit, GoodLines, Init, Node
<1>2. I /\ AloneInv /\ FilesInv /\ (AloneInv /\ FilesInv)' /\ [ResultsNext]_resultsVars => I'
  <2> SUFFICES ASSUME I, AloneInv, FilesInv, AloneInv', FilesInv', [ResultsNext]_resultsVars
               PROVE  I'
    OBVIOUS
  <2>1. [Next]_vars /\ PairInv'
    BY NextPairs DEF ResultsNext, resultsVars
  <2>2. ASSUME Sound' PROVE Sound /\ ~failed'["client"]
    <3>1. ~failed'["client"] /\ qp'["server"] # "error"
      BY <2>2 DEF Sound, LinkOK, Node
    <3>2. ~Broken
      BY <2>1, <3>1, BrokenStays DEF Broken
    <3> QED BY <3>1, <3>2 DEF PairInv
  <2>3. CASE ResultsNext
    <3>1. Sound' => GoodLines'
      <4> SUFFICES ASSUME Sound' PROVE GoodLines'
        OBVIOUS
      <4>1. GoodLines /\ ~failed'["client"]
        BY <2>2
      <4> HIDE DEF I
      <4> QED BY <2>1, <2>3, <4>1, GoodLinesStep DEF ResultsNext
    <3> QED BY <2>1, <3>1
  <2>4. CASE UNCHANGED resultsVars
    <3>1. GoodLines => GoodLines'
      BY <2>4 DEF GoodLines, resultsVars, vars
    <3> QED BY <2>1, <2>2, <3>1
  <2> QED BY <2>3, <2>4
<1>3. I /\ AloneInv /\ FilesInv => NoSilentMismatch
  <2> SUFFICES ASSUME I, AloneInv, FilesInv PROVE NoSilentMismatch
    OBVIOUS
  <2>1. pos["client"].test \in Nat /\ pos["server"].test \in Nat /\ Len(Tests("client")) \in Nat
    BY HereAlone, TestsType DEF Node, Position, PosNat
  <2>2. CASE Sound /\ SameOrder
    <3>1. /\ pos["client"].test <= Len(Tests("server")) + 1
          /\ pos["client"].test <= pos["server"].test + 1
      BY <2>2, ClientTests
    <3>2. ~Unserved
      BY <2>2 DEF Unserved, SameOrder
    <3>3. ASSUME NEW i \in 1..Len(Tests("client")), i < pos["client"].test
          PROVE  /\ \A k \in DOMAIN file[i] : file[i][k].ok
                 /\ i <= Len(Tests("server")) /\ Tests("server")[i] = Tests("client")[i]
                 /\ pos["server"].test >= i
      <4>1. i \in Nat /\ i <= Len(Tests("server")) /\ pos["server"].test >= i /\ Len(Tests("server")) \in Nat
        BY <2>1, <3>1, <3>3, TestsType DEF Node
      <4>2. Tests("server")[i] = Tests("client")[i]
        BY <2>2, <4>1, TestsInOrder
      <4>3. DOMAIN file[i] = 1..Len(file[i])
        BY <3>3 DEF FilesInv, LinesOf
      <4> QED BY <2>2, <3>3, <4>1, <4>2, <4>3 DEF GoodLines
    <3> QED BY <3>2, <3>3 DEF NoSilentMismatch, GenuineResults
  <2>3. CASE pos["client"].test <= 1
    BY <2>1, <2>3 DEF NoSilentMismatch, GenuineResults
  <2>4. CASE Broken
    <3>1. CASE Unserved
      BY <2>4, <3>1 DEF Broken, ShortRegion, Unserved, NoSilentMismatch
    <3>2. CASE ~Unserved
      <4>1. pos["client"].test = 1
        BY <2>4, <3>2 DEF Broken
      <4> QED BY <2>3, <4>1
    <3> QED BY <3>1, <3>2
  <2> QED BY <2>2, <2>3, <2>4, ClientTests DEF PairInv
<1>4. ResultsSpec => []I
  <2> HIDE DEF I
  <2> QED BY <1>1, <1>2, FilesInvariance, PTL DEF ResultsSpec
<1> QED BY <1>3, <1>4, FilesInvariance, PTL

\* Two programs that are stuck and of which no request has failed are at a
\* standstill, or one of them has run all its tests and the other one has not.
LEMMA StuckPlaces ==
  ASSUME PairInv
  PROVE  StuckOnlyThere
<1> SUFFICES ASSUME Stuck, Sound PROVE StuckOnlyThere
  BY DEF StuckOnlyThere, PairInv, Broken
<1> DEFINE c == "client"
           s == "server"
<1>1. /\ AloneInv /\ c \in Node /\ s \in Node
      /\ \A n \in Node : LinkOK(n) /\ (n = c \/ n = s)
  BY DEF PairInv, Sound, Node
<1>2. Facing(Meeting(c), Meeting(s))
  BY <1>1, StuckCall DEF Sound, InFront
<1>3. Meeting(c).test = pos[c].test /\ Meeting(s).test = pos[s].test
  BY <1>1, StuckMeeting
<1>4. CASE SameOrder /\ Meeting(c) = Meeting(s)
  <2>1. \A i \in 1..Len(Tests(c)) : i \in 1..Len(Tests(s)) => Tests(c)[i] = Tests(s)[i]
    BY <1>4, TestsInOrder
  <2>2. /\ \E n \in Node : Exited(n) /\ At(Peer(n), {"open"})
        /\ pos[c] = pos[s]
    BY <1>1, <1>4, <2>1, StuckTogether
  <2>3. Metric[c] # Metric[s]
    <3>1. SUFFICES ASSUME Metric[c] = Metric[s] PROVE FALSE
      OBVIOUS
    <3>2. Tests(c) = Tests(s)
      BY <3>1 DEF Tests
    <3>3. Exited(c) <=> Exited(s)
      BY <2>2, <3>2 DEF Exited
    <3> QED BY <1>1, <2>2, <3>3 DEF At, Peer
  <2> QED BY <1>4, <2>2, <2>3 DEF StuckOnlyThere
<1>5. CASE ~SameOrder
  <2>1. Meeting(c).test = 1 /\ Meeting(s).test = 1
    BY <1>2, <1>5 DEF Facing, Standstill
  <2> QED BY <1>1, <1>3, <1>5, <2>1 DEF StuckOnlyThere
<1>6. CASE SameOrder /\ Standstill(Meeting(c), Meeting(s))
  <2>1. /\ Meeting(c).label # "open" /\ Meeting(s).label # "open"
        /\ pos[c].test = pos[s].test
        /\ Tests(c)[pos[c].test] = "two_tp" /\ LoopsPart(BufferSizes[Meeting(c).round])
        /\ {Meeting(c).label, Meeting(s).label} = {"data", "done"}
    BY <1>3, <1>6 DEF Standstill
  <2>2. ~Exited(c) /\ ~Exited(s) /\ (InSend(c) \/ InReceive(c) \/ InOneSided(c))
    BY <1>1, <2>1, StuckMeeting
  <2>3. Test(c) = "two_tp" /\ Test(s) = "two_tp"
    BY <1>1, <1>6, <2>1, <2>2, HereAlone, TestsInOrder DEF Test
  <2>4. Meeting(c) = pos[c] /\ Meeting(s) = pos[s]
    BY <1>1, <2>1, <2>2, <2>3, StuckMeeting, AtMeetingAlone DEF InOneSided, OneSided
  <2>5. {pos[n].label : n \in Node} = {"data", "done"}
    BY <2>1, <2>4 DEF Node
  <2> QED BY <1>1, <1>6, <2>1, <2>2, <2>3, <2>4, <2>5 DEF StuckOnlyThere
<1> QED BY <1>2, <1>4, <1>5, <1>6 DEF Facing

\* Whatever the two programs are started with, they wait for each other for
\* ever only after a failure, in the first of two different tests, after the
\* shorter of two lists of tests, or in a pass of the two-sided throughput test
\* whose messages they count differently.
THEOREM WhereProgramsStick ==
  ASSUME SeveralSizes
  PROVE  Spec => []StuckOnlyThere
<1>1. PairInv => StuckOnlyThere
  BY StuckPlaces
<1> QED BY <1>1, PairInvariance, PTL

\* So the command lines need not match for the programs to get through: with
\* the same metric, data of the client that fit into the region of the server,
\* and as many messages counted as are sent for every buffer size, they never
\* wait for each other for ever.
THEOREM NeverStuckIfCounted ==
  ASSUME SeveralSizes, Metric["client"] = Metric["server"],
         DataSize["client"] <= DataSize["server"],
         \A r \in 1..Len(BufferSizes) : ~LoopsPart(BufferSizes[r])
  PROVE  Spec => []NoDeadlock
<1>1. PairInv => NoDeadlock
  <2> SUFFICES ASSUME PairInv, Stuck PROVE FALSE
    BY DEF NoDeadlock
  <2>1. SameOrder
    BY DEF SameOrder
  <2>2. qp["server"] # "error"
    <3>1. ~Unserved
      BY DEF Unserved
    <3>2. ~ShortRegion
      BY ConstantsAssumption DEF ShortRegion, PosNat, Node
    <3> QED BY <3>1, <3>2 DEF PairInv, Broken, Sound, LinkOK, Node
  <2>3. /\ ~Exited("client") /\ Test("client") = "two_tp"
        /\ pos["client"].label \in {"data", "done"}
        /\ LoopsPart(BufferSizes[pos["client"].round])
    BY <2>1, <2>2, StuckPlaces DEF StuckOnlyThere, Node
  <2>4. pos["client"].round \in 1..Len(BufferSizes)
    BY <2>3, HereAlone, TestsType DEF PairInv, Node, PositionOK, Exited, Test, Sizes, LatencyTests,
       Position, PosNat
  <2> QED BY <2>3, <2>4
<1> QED BY <1>1, PairInvariance, PTL
=============================================================================
