----------------------------- MODULE RdmaLockstep ----------------------------
(***************************************************************************)
(* Why two programs that never say where they are stay together: the       *)
(* inductive invariant of RdmaBench for two command lines that match and a *)
(* data size that is no multiple of a buffer size.                         *)
(*                                                                         *)
(* Both programs are cut at their meetings: the connection and every       *)
(* message.  NextMeeting(n) is the meeting n is at or heads for.  The two  *)
(* programs go through the same sequence of meetings, and neither gets     *)
(* more than one ahead of the other.                                       *)
(***************************************************************************)
EXTENDS RdmaBench

Matched ==
  /\ Metric["client"] = Metric["server"]
  /\ DataSize["client"] = DataSize["server"]
  /\ \A i \in 1..Len(BufferSizes) : DataSize["client"] % BufferSizes[i] # 0

OneSided == {"read_tp", "write_tp", "read_lat", "write_lat"}

\* What a program does on its own between two meetings leads to this one.
ClientMeeting(p) ==
  LET t == Tests("client")[p.test] IN
  CASE p.label = "close" -> NextTest(p)
    [] p.label = "fill"  -> ClientPass(t, p, p.round + 1)
    [] p.label = "data" /\ t \in {"read_tp", "write_tp"}   -> Goto(p, "done", p.round)
    [] p.label = "data" /\ t \in {"read_lat", "write_lat"} -> Goto(p, "fin", 0)
    [] OTHER -> p

ServerMeeting(p) ==
  CASE p.label = "close" -> NextTest(p)
    [] p.label = "fill"  -> Goto(p, "ready", p.round)
    [] OTHER -> p

Meeting(n)     == IF n = "client" THEN ClientMeeting(pos[n]) ELSE ServerMeeting(pos[n])
NextMeeting(n) == IF n = "client" THEN ClientMeeting(ClientAfter(pos[n]))
                                  ELSE ServerMeeting(ServerAfter(pos[n]))

\* The labels a program visits in test t.
LabelsOf(n, t) ==
  {"open", "close"}
    \cup (IF t \in TwoSided THEN {"ready", "data", "done"} ELSE {"fin"})
    \cup (IF t \in {"read_tp", "write_tp"} THEN {"ready", "done"} ELSE {})
    \cup (IF n = "client" /\ t \in OneSided THEN {"data"} ELSE {})
    \cup (IF (n = "client" /\ t = "write_tp") \/ (n = "server" /\ t \in {"read_tp", "write_tp"})
          THEN {"fill"} ELSE {})

\* Values of the inner loop variable.
StepOK(n, t, b, p) ==
  IF t \in LatencyTests THEN p.off < NumLoops
  ELSE /\ p.off % b = 0
       /\ p.off <= LastIndex(DataSize[n], b)

\* The places a program can be at.
PositionOK(n, p) ==
  LET t == Tests(n)[p.test] IN
  IF p.test > Len(Tests(n))
  THEN p.label = "open" /\ p.test = Len(Tests(n)) + 1 /\ p.round = 0 /\ p.off = 0
  ELSE /\ p.label \in LabelsOf(n, t)
       /\ IF p.label \in {"open", "fin", "close"} THEN p.round = 0
          ELSE p.round \in 1..Len(Sizes(t))
       /\ IF p.label = "data" THEN StepOK(n, t, Sizes(t)[p.round], p) ELSE p.off = 0

Idle(n) == sq[n] = <<>> /\ scq[n] = <<>> /\ srq[n] = <<>> /\ rcq[n] = <<>>

InSend(n)     == SendsControl(n) \/ SendsData(n)
InReceive(n)  == WaitsForControl(n) \/ ReceivesData(n)
InOneSided(n) == n = "client" /\ At(n, {"data"}) /\ Test(n) \in OneSided
InOpen(n)     == n = "client" /\ At(n, {"open"})

\* The request that the send or one-sided call n is in has posted; CallLen is
\* also the length of the message a receiving call gets.
CallLen(n) ==
  IF ~At(n, {"data"}) THEN 1
  ELSE IF Test(n) \in LatencyTests THEN Size(n)
  ELSE PieceLen(DataSize[n], Size(n), pos[n].off)

PostedBy(n) ==
  [op  |-> IF InSend(n) THEN "send" ELSE IF Test(n) \in {"read_tp", "read_lat"} THEN "read" ELSE "write",
   at  |-> pos[n],
   len |-> CallLen(n)]

\* Where in the region the one-sided call of the client begins.
FirstByte == IF Test("client") \in LatencyTests THEN 0 ELSE pos["client"].off

BufferOf(n) == IF At(n, {"data"}) THEN Size(n) ELSE 1

\* A process that is not in a call has nothing posted and nothing to poll; one
\* that is has exactly what that call posted, or what came of it.
CallOK(n) ==
  IF ~blocked[n] THEN Idle(n)
  ELSE \/ /\ InSend(n) \/ InOneSided(n)
          /\ srq[n] = <<>> /\ rcq[n] = <<>>
          /\ \/ sq[n] = << PostedBy(n) >> /\ scq[n] = <<>>
             \/ sq[n] = <<>> /\ scq[n] = <<"ok">>
       \/ /\ InReceive(n)
          /\ sq[n] = <<>> /\ scq[n] = <<>>
          /\ \/ srq[n] = << BufferOf(n) >> /\ rcq[n] = <<>>
             \/ srq[n] = <<>> /\ rcq[n] = << [at |-> pos[n], len |-> CallLen(n), ok |-> TRUE] >>
       \/ InOpen(n) /\ Idle(n)

DialOK == dial # "none" <=> blocked["client"] /\ InOpen("client")

\* A queue pair exists from the connection of a test to its end, and never
\* goes out of service.
LinkOK(n) ==
  /\ ~failed[n]
  /\ IF pos[n].label = "open"
     THEN qp[n] = "down" /\ conn[n] = pos[n].test - 1
     ELSE qp[n] = "up" /\ conn[n] = pos[n].test

\* The meeting n is at has taken place and n has yet to notice.
Met(n) ==
  \/ InSend(n) /\ scq[n] # <<>>
  \/ InReceive(n) /\ rcq[n] # <<>>
  \/ n = "client" /\ dial = "accepted"

Lockstep ==
  /\ (Met("client") <=> Met("server"))   => Meeting("client") = Meeting("server")
  /\ (Met("client") /\ ~Met("server"))  => Meeting("server") = NextMeeting("client")
  /\ (Met("server") /\ ~Met("client"))  => Meeting("client") = NextMeeting("server")

Inv ==
  /\ \A n \in Node : PositionOK(n, pos[n]) /\ CallOK(n) /\ LinkOK(n)
  /\ DialOK
  /\ Lockstep

IInv == TypeOK /\ Inv

\* The bytes before this one have moved in the current pass.
Frontier ==
  IF blocked["client"] /\ sq["client"] = <<>>
  THEN pos["client"].off + CallLen("client")
  ELSE pos["client"].off

\* What makes TransferComplete inductive: all the client has moved so far is
\* equal on both sides.
MovedSoFar ==
  At("client", {"data"}) /\ Test("client") \in {"read_tp", "write_tp"}
    => \A i \in Bytes("client") : i < Frontier => mem["client"][i] = mem["server"][i]

TransferInv == MovedSoFar /\ TransferComplete

-----------------------------------------------------------------------------
(* What a program keeps to on its own, whatever the other one was started  *)
(* with and whatever fails.                                                *)

\* Outside a call nothing is posted and nothing is there to poll; inside one
\* there is one request or one receive buffer, or what came of it.
CallAlone(n) ==
  IF ~blocked[n] THEN Idle(n)
  ELSE \/ /\ InSend(n) \/ InOneSided(n)
          /\ srq[n] = <<>> /\ rcq[n] = <<>>
          /\ \/ sq[n] = << PostedBy(n) >> /\ scq[n] = <<>>
             \/ sq[n] = <<>> /\ Len(scq[n]) = 1
       \/ /\ InReceive(n)
          /\ sq[n] = <<>> /\ scq[n] = <<>>
          /\ \/ srq[n] = << BufferOf(n) >> /\ rcq[n] = <<>>
             \/ srq[n] = <<>> /\ Len(rcq[n]) = 1
       \/ InOpen(n) /\ Idle(n)

AloneInv ==
  /\ TypeOK
  /\ DialOK
  /\ \A n \in Node : PositionOK(n, pos[n]) /\ CallAlone(n)
=============================================================================
