------------------------------ MODULE TcpProofs -----------------------------
(***************************************************************************)
(* The inductive invariant of TcpLockstep and what follows from it.        *)
(***************************************************************************)
EXTENDS TcpLockstep, ChunkLoopProofs

LEMMA PassesFacts ==
  ASSUME NEW n \in Node
  PROVE  /\ Len(Passes(n)) \in Nat /\ Len(Passes(n)) > 0
         /\ \A p \in 1..Len(Passes(n)) :
              /\ Passes(n)[p].test \in {"throughput", "latency"}
              /\ Passes(n)[p].size \in PosNat /\ Passes(n)[p].size < SizeMax
<1> DEFINE Pass == [test : {"throughput", "latency"}, size : {s \in PosNat : s < SizeMax}]
<1>1. Batch("throughput", BufferSizes) \in Seq(Pass) /\ Len(Batch("throughput", BufferSizes)) > 0
  BY ConstantsAssumption DEF Batch
<1>2. Batch("latency", LatencySizes) \in Seq(Pass) /\ Len(Batch("latency", LatencySizes)) > 0
  BY ConstantsAssumption DEF Batch
<1> DEFINE T == Batch("throughput", BufferSizes)
           L == Batch("latency", LatencySizes)
<1> HIDE DEF T, L, Pass
<1>3. Passes(n) = (IF Metric[n] = "latency" THEN <<>> ELSE T) \o (IF Metric[n] = "throughput" THEN <<>> ELSE L)
  BY DEF Passes, T, L
<1>4. T \in Seq(Pass) /\ L \in Seq(Pass) /\ Len(T) > 0 /\ Len(L) > 0
  BY <1>1, <1>2 DEF T, L
<1>5. Passes(n) \in Seq(Pass) /\ Len(Passes(n)) > 0
  <2>1. CASE Metric[n] = "latency"
    <3>1. Passes(n) = <<>> \o L
      BY <1>3, <2>1
    <3> QED BY <3>1, <1>4
  <2>2. CASE Metric[n] = "throughput"
    <3>1. Passes(n) = T \o <<>>
      BY <1>3, <2>2
    <3> QED BY <3>1, <1>4
  <2>3. CASE Metric[n] # "throughput" /\ Metric[n] # "latency"
    <3>1. Passes(n) = T \o L
      BY <1>3, <2>3
    <3> QED BY <3>1, <1>4
  <2> QED BY <2>1, <2>2, <2>3
<1>6. \A p \in 1..Len(Passes(n)) : Passes(n)[p] \in Pass
  BY <1>5
<1> QED BY <1>5, <1>6 DEF Pass

\* The message at hand and the loop it belongs to, from the place in it.
LEMMA MessageFacts ==
  ASSUME NEW n \in Node, TypeInv, at[n].label = "move", at[n].pass <= Len(Passes(n)), state[n] # "done"
  PROVE  /\ Size(n) \in Nat /\ Size(n) > 0 /\ Size(n) < SizeMax
         /\ Test(n) \in {"throughput", "latency"}
         /\ at[n].off \in Nat /\ at[n].count \in Nat /\ at[n].pass \in PosNat
         /\ MessageLen(n) \in Nat /\ MessageLen(n) <= Size(n)
         /\ Test(n) = "throughput" => at[n].off + MessageLen(n) <= DataSize[n]
         /\ ~MoreMessages(n) => Index(n, MessageLen(n)) = (IF Test(n) = "throughput" THEN DataSize[n] ELSE NumLoops * Size(n))
         /\ MoreMessages(n) => MessageLen(n) = Size(n)
         /\ MoreMessages(n) => IF Test(n) = "throughput"
                               THEN (at[n].off + Size(n)) % Size(n) = 0 /\ at[n].off + Size(n) <= LastIndex(DataSize[n], Size(n))
                               ELSE at[n].off + 1 < NumLoops
<1> DEFINE d == DataSize[n]
           b == Size(n)
           o == at[n].off
<1>1. at[n] \in Place /\ at[n].pass \in 1..Len(Passes(n)) /\ PlaceOK(n)
  BY PassesFacts DEF TypeInv, TypeOK, Place, PosNat
<1>2. b \in Nat /\ b > 0 /\ b < SizeMax /\ Test(n) \in {"throughput", "latency"}
  BY <1>1, PassesFacts DEF Size, Test, PosNat
<1>3. d \in Nat /\ d > 0 /\ o \in Nat /\ NumLoops \in Nat
  BY <1>1, ConstantsAssumption DEF PosNat, Place
<1>4. Test(n) = "throughput" => o % b = 0 /\ o <= LastIndex(d, b)
  BY <1>1 DEF PlaceOK
<1>5. Test(n) # "throughput" => o < NumLoops
  BY <1>1 DEF PlaceOK
<1>6. MessageLen(n) = IF Test(n) = "throughput" THEN PieceLen(d, b, o) ELSE b
  BY DEF MessageLen
<1>7. MoreMessages(n) <=> IF Test(n) = "throughput" THEN MoreToMove(d, b, o) ELSE o + 1 < NumLoops
  BY DEF MoreMessages
<1>8. Index(n, MessageLen(n)) = (IF Test(n) = "throughput" THEN o ELSE o * b) + MessageLen(n)
  BY DEF Index
<1> HIDE DEF d, b, o
<1>9. CASE Test(n) = "throughput"
  <2>1. /\ LastIndex(d, b) \in Nat /\ d = LastIndex(d, b) + (d % b) /\ d % b \in Nat /\ d % b < b
    BY <1>2, <1>3, LastIndexFacts, DivMod
  <2>2. o + PieceLen(d, b, o) <= d
    BY <1>2, <1>3, <1>4, <1>9, PieceInBuffer
  <2>3. PieceLen(d, b, o) \in Nat /\ PieceLen(d, b, o) <= b
    BY <1>2, <2>1 DEF PieceLen
  <2>4. ~MoreToMove(d, b, o) => o + PieceLen(d, b, o) = d
    BY <1>3, <1>4, <1>9, <2>1 DEF MoreToMove, PieceLen
  <2>5. MoreToMove(d, b, o) => PieceLen(d, b, o) = b /\ o + b <= LastIndex(d, b) /\ (o + b) % b = 0
    BY <1>2, <1>3, <1>4, <1>9, NextStepFits, StepAligned DEF MoreToMove, PieceLen
  <2> QED BY <1>1, <1>2, <1>3, <1>6, <1>7, <1>8, <1>9, <2>1, <2>2, <2>3, <2>4, <2>5 DEF Place, d, b, o
<1>10. CASE Test(n) # "throughput"
  <2>1. ~(o + 1 < NumLoops) => o * b + b = NumLoops * b
    <3>1. SUFFICES ASSUME ~(o + 1 < NumLoops) PROVE o * b + b = NumLoops * b
      OBVIOUS
    <3>2. NumLoops = o + 1
      BY <1>3, <1>5, <1>10, <3>1
    <3> QED BY <1>2, <1>3, <3>2
  <2> QED BY <1>1, <1>2, <1>3, <1>6, <1>7, <1>8, <1>10, <2>1 DEF Place, d, b, o
<1> QED BY <1>9, <1>10

\* A step that leaves a program where it is.
LEMMA Stays ==
  ASSUME NEW n \in Node, at'[n] = at[n], state'[n] = state[n]
  PROVE  /\ PlaceOK(n)' <=> PlaceOK(n)
         /\ \A label : In(n, label)' <=> In(n, label)
         /\ Ended(n)' <=> Ended(n)
         /\ MessageLen(n)' = MessageLen(n) /\ Size(n)' = Size(n) /\ Test(n)' = Test(n)
<1>1. Size(n)' = Size(n) /\ Test(n)' = Test(n)
  BY DEF Size, Test
<1>2. MessageLen(n)' = MessageLen(n)
  BY <1>1 DEF MessageLen
<1>3. PlaceOK(n)' <=> PlaceOK(n)
  BY <1>1 DEF PlaceOK
<1> QED BY <1>1, <1>2, <1>3 DEF In, Ended

\* Closing a socket, or losing it, empties a stream or shortens it.
LEMMA Closing ==
  ASSUME TypeInv, NEW n \in Node, CloseSocket(n)
  PROVE  /\ link' \in {link, "reset"} /\ (link' # link => link = "up")
         /\ wire' \in [Node -> Seq(Bytes)]
         /\ \A m \in Node : Len(wire'[m]) <= Len(wire[m]) /\ wire'[m] \in {wire[m], <<>>}
         /\ wire'[n] = wire[n]
         /\ link' = link => wire' = wire
         /\ pending' \in [Node -> BOOLEAN] /\ closed' \in [Node -> BOOLEAN]
         /\ \A m \in Node : pending'[m] => link' = "reset"
<1>1. /\ wire \in [Node -> Seq(Bytes)] /\ pending \in [Node -> BOOLEAN] /\ closed \in [Node -> BOOLEAN]
      /\ \A m \in Node : pending[m] => link = "reset"
      /\ Peer(n) \in Node /\ Peer(n) # n
  BY DEF TypeInv, TypeOK, LinkOK, Peer, Node
<1>2. closed' \in [Node -> BOOLEAN]
  BY <1>1 DEF CloseSocket
<1>3. CASE link = "up" /\ wire[Peer(n)] # <<>>
  <2>1. /\ link' = "reset" /\ pending' = [pending EXCEPT ![Peer(n)] = TRUE]
        /\ wire' = [wire EXCEPT ![Peer(n)] = <<>>]
    BY <1>3 DEF CloseSocket
  <2>2. <<>> \in Seq(Bytes) /\ \A m \in Node : Len(wire[m]) >= 0 /\ Len(wire[m]) \in Nat
    BY <1>1
  <2>3. \A m \in Node : wire'[m] = IF m = Peer(n) THEN <<>> ELSE wire[m]
    BY <1>1, <2>1
  <2>4. wire' \in [Node -> Seq(Bytes)] /\ pending' \in [Node -> BOOLEAN]
    BY <1>1, <2>1, <2>2
  <2> QED BY <1>1, <1>2, <1>3, <2>1, <2>2, <2>3, <2>4
<1>4. CASE ~(link = "up" /\ wire[Peer(n)] # <<>>)
  <2>1. UNCHANGED <<link, pending, wire>>
    BY <1>4 DEF CloseSocket
  <2>2. \A m \in Node : Len(wire[m]) \in Nat
    BY <1>1
  <2> QED BY <1>1, <1>2, <2>1, <2>2
<1> QED BY <1>3, <1>4

\* The parts of the invariant that a step leaves alone when no program moves.
LEMMA TypeRest ==
  ASSUME TypeInv, UNCHANGED <<at, little, results>>,
         state' \in [Node -> {"running", "done", "failed"}],
         \A n \in Node : state'[n] = state[n] \/ (state[n] = "running" /\ state'[n] = "failed"),
         errors' \in 0..MaxErrors,
         link' \in {link, "reset"}, link' # link => link = "up",
         wire' \in [Node -> Seq(Bytes)],
         \A n \in Node : Len(wire'[n]) <= Len(wire[n]),
         link' = link => wire' = wire,
         pending' \in [Node -> BOOLEAN], closed' \in [Node -> BOOLEAN],
         \A n \in Node : pending'[n] => link' = "reset"
  PROVE  TypeInv'
<1>1. \A n \in Node : PlaceOK(n)'
  <2>1. \A n \in Node : PlaceOK(n) /\ Test(n)' = Test(n) /\ Size(n)' = Size(n)
    BY DEF TypeInv, Test, Size
  <2> QED BY <2>1 DEF PlaceOK
<1>2. In("server", "move")' => In("server", "move")
  BY DEF In, Ended, Node
<1>3. MessageLen("server")' = MessageLen("server")
  BY DEF MessageLen, Test, Size
<1>4. \A n \in Node : Len(wire[n]) \in Nat /\ Len(wire'[n]) \in Nat /\ Len(wire[n]) <= Capacity
  BY DEF TypeInv, TypeOK
<1>5. TypeOK'
  <2>1. \A n \in Node : Len(wire'[n]) <= Capacity
    BY <1>4, CapacityAssumption
  <2> QED BY <1>2, <2>1 DEF TypeInv, TypeOK
<1>6. LinkOK'
  BY DEF TypeInv, LinkOK
<1> QED BY <1>1, <1>2, <1>3, <1>5, <1>6 DEF TypeInv

LEMMA FailTyped ==
  ASSUME TypeInv, NEW n \in Node, ~Ended(n), Fail(n)
  PROVE  TypeInv'
<1>1. state' = [state EXCEPT ![n] = "failed"] /\ state \in [Node -> {"running", "done", "failed"}]
      /\ UNCHANGED <<at, little, results, errors>> /\ CloseSocket(n)
      /\ errors \in 0..MaxErrors
      /\ state[n] = "running"
  BY DEF Fail, TypeInv, TypeOK, Ended
<1>2. state' \in [Node -> {"running", "done", "failed"}]
      /\ \A m \in Node : state'[m] = state[m] \/ (state[m] = "running" /\ state'[m] = "failed")
  BY <1>1
<1> QED BY <1>1, <1>2, Closing, TypeRest

LEMMA AcceptFailsTyped ==
  ASSUME TypeInv, AcceptFails
  PROVE  TypeInv'
<1>1. state' = [state EXCEPT !["server"] = "failed"] /\ state \in [Node -> {"running", "done", "failed"}]
      /\ UNCHANGED <<at, little, results, errors>>
      /\ errors \in 0..MaxErrors
      /\ state["server"] = "running" /\ at["server"].label = "accept"
  BY DEF AcceptFails, TypeInv, TypeOK, In, Ended
<1>2. state' \in [Node -> {"running", "done", "failed"}]
      /\ \A m \in Node : state'[m] = state[m] \/ (state[m] = "running" /\ state'[m] = "failed")
  BY <1>1
<1>3. CASE link # "listening"
  BY <1>1, <1>2, <1>3, Closing, TypeRest DEF AcceptFails, Node
<1>4. CASE link = "listening"
  <2>1. link' = "none" /\ closed' = [closed EXCEPT !["server"] = TRUE] /\ UNCHANGED <<wire, pending>>
    BY <1>4 DEF AcceptFails
  <2>2. \A n \in Node : PlaceOK(n)'
    <3>1. \A n \in Node : PlaceOK(n) /\ Test(n)' = Test(n) /\ Size(n)' = Size(n)
      BY <1>1 DEF TypeInv, Test, Size
    <3> QED BY <1>1, <1>2, <3>1 DEF PlaceOK
  <2>3. ~In("server", "move")'
    BY <1>1 DEF In
  <2>4. LinkOK'
    BY <1>1, <1>4, <2>1 DEF LinkOK, TypeInv
  <2>5. TypeOK'
    BY <1>1, <1>2, <2>1, <2>3 DEF TypeInv, TypeOK
  <2> QED BY <1>1, <2>1, <2>2, <2>3, <2>4, <2>5 DEF TypeInv
<1> QED BY <1>3, <1>4

LEMMA LoseTyped ==
  ASSUME TypeInv, LoseConnection
  PROVE  TypeInv' /\ \A n \in Node : Len(wire'[n]) <= Len(wire[n])
<1>1. PICK k \in [Node -> 0..Capacity] :
        wire' = [n \in Node |-> SubSeq(wire[n], 1, IF k[n] < Len(wire[n]) THEN k[n] ELSE Len(wire[n]))]
  BY DEF LoseConnection, Reset
<1>2. \A n \in Node : wire'[n] \in Seq(Bytes) /\ Len(wire'[n]) <= Len(wire[n])
  <2> SUFFICES ASSUME NEW n \in Node PROVE wire'[n] \in Seq(Bytes) /\ Len(wire'[n]) <= Len(wire[n])
    OBVIOUS
  <2> DEFINE t == IF k[n] < Len(wire[n]) THEN k[n] ELSE Len(wire[n])
  <2>1. wire[n] \in Seq(Bytes) /\ t \in Nat /\ t <= Len(wire[n])
    BY <1>1, CapacityAssumption DEF TypeInv
  <2>2. wire'[n] = SubSeq(wire[n], 1, t)
    BY <1>1
  <2> HIDE DEF t
  <2> QED BY <2>1, <2>2
<1>3. wire' \in [Node -> Seq(Bytes)]
  BY <1>1, <1>2
<1>4. TypeInv'
  BY <1>2, <1>3, TypeRest DEF LoseConnection, Reset, TypeInv, TypeOK, Node
<1> QED BY <1>2, <1>4

\* The place every pass starts at.
LEMMA StartOfPass ==
  ASSUME NEW n \in Node, NEW p \in 1..Len(Passes(n)),
         at'[n] = [pass |-> p, label |-> "move", off |-> 0, count |-> 0], state'[n] # "done"
  PROVE  PlaceOK(n)' /\ at'[n] \in Place /\ MessageLen(n)' \in Nat
<1>1. Passes(n)[p].size \in Nat /\ Passes(n)[p].size > 0 /\ DataSize[n] \in Nat /\ NumLoops \in Nat /\ NumLoops > 0
  BY PassesFacts, ConstantsAssumption DEF PosNat
<1>2. Size(n)' = Passes(n)[p].size
  BY DEF Size
<1> DEFINE b == Passes(n)[p].size
<1> HIDE DEF b
<1>3. 0 % b = 0 /\ 0 <= LastIndex(DataSize[n], b) /\ b \in Nat /\ b > 0
  <2>1. b \in Nat /\ b > 0
    BY <1>1 DEF b
  <2>2. (b * 0) % b = 0 /\ b * 0 = 0
    BY <2>1, Multiple
  <2>3. LastIndex(DataSize[n], b) \in Nat
    BY <1>1, <2>1, LastIndexFacts
  <2> QED BY <2>1, <2>2, <2>3
<1>4. PlaceOK(n)'
  BY <1>1, <1>2, <1>3, PassesFacts DEF PlaceOK, b
<1>5. at'[n] \in Place
  BY PassesFacts DEF Place, PosNat
<1>6. MessageLen(n)' \in Nat
  BY <1>1, <1>2, <1>3, LastIndexFacts, DivMod DEF MessageLen, PieceLen, b
<1> QED BY <1>4, <1>5, <1>6

\* A step that moves one program, and leaves the connection in order.
LEMMA MoveTyped ==
  ASSUME TypeInv, NEW n \in Node, at' = [at EXCEPT ![n] = at'[n]], at'[n] \in Place, PlaceOK(n)',
         state' = [state EXCEPT ![n] = state'[n]], state'[n] \in {"running", "done", "failed"},
         TypeOK', wire' \in [Node -> Seq(Bytes)], little' \in Seq(Bytes \cup {Byte(0, 0)}),
         n = "client" => little' = little,
         n = "server" => (In("server", "move")' => at'["server"].count <= MessageLen("server")'),
         n = "server" => (at'["server"].label # "move" => little' = <<>>),
         results' = at'["client"].pass - 1,
         LinkOK'
  PROVE  TypeInv'
<1>1. \A m \in Node : m # n => at'[m] = at[m] /\ state'[m] = state[m]
  BY DEF TypeInv, TypeOK
<1>2. \A m \in Node : PlaceOK(m)'
  BY <1>1, Stays DEF TypeInv
<1>3. n # "server" => /\ In("server", "move")' => at'["server"].count <= MessageLen("server")'
                      /\ at'["server"].label # "move" => little' = <<>>
  BY <1>1, Stays DEF TypeInv, Node
<1> QED BY <1>2, <1>3 DEF TypeInv, Node

LEMMA ConnectTyped ==
  ASSUME TypeInv, Connect \/ Unresolved
  PROVE  TypeInv'
<1>1. /\ at' = [at EXCEPT !["client"] = [pass |-> 1, label |-> "move", off |-> 0, count |-> 0]]
      /\ UNCHANGED <<state, little, data, results, errors, wire, pending, closed>>
      /\ state["client"] = "running" /\ at["client"].label = "start"
      /\ link \in {"none", "listening"}
      /\ link' = link \/ (link = "listening" /\ link' = "up")
  BY DEF Connect, Unresolved, FirstPass, Begin, In, Ended, TypeInv, TypeOK, stream
<1>2. "client" \in Node /\ 1 \in 1..Len(Passes("client"))
  BY PassesFacts DEF Node
<1>3. /\ at'["client"] = [pass |-> 1, label |-> "move", off |-> 0, count |-> 0]
      /\ at'["server"] = at["server"] /\ at' = [at EXCEPT !["client"] = at'["client"]]
  BY <1>1, <1>2 DEF TypeInv, TypeOK, Node
<1>4. PlaceOK("client")' /\ at'["client"] \in Place
  BY <1>1, <1>2, <1>3, StartOfPass
<1>5. state' = [state EXCEPT !["client"] = state'["client"]] /\ state'["client"] = "running"
  BY <1>1 DEF TypeInv, TypeOK
<1>6. results' = at'["client"].pass - 1
  <2>1. at["client"].pass = 1
    BY <1>1, <1>2 DEF TypeInv, PlaceOK
  <2> QED BY <1>1, <1>3, <2>1 DEF TypeInv
<1>7. LinkOK'
  BY <1>1, <1>3 DEF TypeInv, LinkOK
<1>8. TypeOK'
  <2>1. at' \in [Node -> Place]
    BY <1>1, <1>3, <1>4 DEF TypeInv, TypeOK
  <2>2. In("server", "move")' <=> In("server", "move")
    BY <1>1, <1>3 DEF In, Ended
  <2> QED BY <1>1, <1>3, <2>1, <2>2 DEF TypeInv, TypeOK
<1> QED BY <1>1, <1>2, <1>3, <1>4, <1>5, <1>6, <1>7, <1>8, MoveTyped DEF TypeInv

LEMMA ListenTyped ==
  ASSUME TypeInv, Listen
  PROVE  TypeInv'
<1>1. /\ at' = [at EXCEPT !["server"].label = "accept"]
      /\ UNCHANGED <<state, little, data, results, errors, wire, pending, closed>>
      /\ state["server"] = "running" /\ at["server"].label = "start"
      /\ link = "none" /\ link' = "listening"
      /\ at \in [Node -> Place] /\ PlaceOK("server")
  BY DEF Listen, In, Ended, TypeInv, TypeOK, Node
<1>2. /\ at'["server"] = [at["server"] EXCEPT !.label = "accept"]
      /\ at'["client"] = at["client"] /\ at' = [at EXCEPT !["server"] = at'["server"]]
  BY <1>1 DEF Node
<1>3. at'["server"] \in Place /\ at'["server"].label = "accept" /\ at'["server"].pass = at["server"].pass
      /\ at'["server"].off = at["server"].off /\ at'["server"].count = at["server"].count
  BY <1>1, <1>2 DEF Place, Node
<1>4. PlaceOK("server")'
  BY <1>1, <1>3 DEF PlaceOK, Node
<1>5. ~In("server", "move")'
  BY <1>3 DEF In
<1>6. TypeOK'
  BY <1>1, <1>2, <1>3, <1>5 DEF TypeInv, TypeOK
<1>7. LinkOK'
  BY <1>1, <1>2, <1>3 DEF TypeInv, LinkOK
<1>8. state' = [state EXCEPT !["server"] = state'["server"]] /\ "server" \in Node
  BY <1>1 DEF TypeInv, TypeOK, Node
<1>9. little' = <<>> /\ <<>> \in Seq(Bytes \cup {Byte(0, 0)})
  BY <1>1 DEF TypeInv
<1> QED BY <1>1, <1>2, <1>3, <1>4, <1>5, <1>6, <1>7, <1>8, <1>9, MoveTyped DEF TypeInv

LEMMA AcceptTyped ==
  ASSUME TypeInv, Accept
  PROVE  TypeInv'
<1>1. /\ at' = [at EXCEPT !["server"] = [pass |-> 1, label |-> "move", off |-> 0, count |-> 0]]
      /\ UNCHANGED <<state, little, results, errors, link, wire, pending, closed>>
      /\ state["server"] = "running" /\ at["server"].label = "accept"
      /\ link \in {"up", "reset"}
  BY DEF Accept, FirstPass, Begin, In, Ended, TypeInv, TypeOK, stream
<1>2. "server" \in Node /\ 1 \in 1..Len(Passes("server"))
  BY PassesFacts DEF Node
<1>3. /\ at'["server"] = [pass |-> 1, label |-> "move", off |-> 0, count |-> 0]
      /\ at'["client"] = at["client"] /\ at' = [at EXCEPT !["server"] = at'["server"]]
  BY <1>1, <1>2 DEF TypeInv, TypeOK, Node
<1>4. PlaceOK("server")' /\ at'["server"] \in Place /\ MessageLen("server")' \in Nat
  BY <1>1, <1>2, <1>3, StartOfPass
<1>5. state' = [state EXCEPT !["server"] = state'["server"]] /\ state'["server"] = "running"
  BY <1>1 DEF TypeInv, TypeOK
<1>6. LinkOK'
  BY <1>1, <1>3 DEF TypeInv, LinkOK
<1>7. little' = <<>> /\ Len(<<>>) = 0
  BY <1>1 DEF TypeInv
<1>8. TypeOK'
  <2>1. at' \in [Node -> Place]
    BY <1>1, <1>3, <1>4 DEF TypeInv, TypeOK
  <2> QED BY <1>1, <1>3, <1>7, <2>1 DEF TypeInv, TypeOK
<1>9. at'["server"].count <= MessageLen("server")'
  BY <1>3, <1>4
<1>10. results' = at'["client"].pass - 1 /\ at'["server"].label = "move"
  BY <1>1, <1>3 DEF TypeInv
<1> QED BY <1>1, <1>2, <1>3, <1>4, <1>5, <1>6, <1>8, <1>9, <1>10, MoveTyped DEF TypeInv

\* One call of send() or recv() moves the count, and nothing else of the place.
LEMMA Counted ==
  ASSUME TypeInv, NEW n \in Node, ~Ended(n), at[n].label \in {"move", "reply"},
         NEW c \in Nat, at' = [at EXCEPT ![n].count = c], state' = state
  PROVE  /\ at'[n] = [pass |-> at[n].pass, label |-> at[n].label, off |-> at[n].off, count |-> c]
         /\ at'[n].pass = at[n].pass /\ at'[n].label = at[n].label
         /\ at'[n].off = at[n].off /\ at'[n].count = c
         /\ at' \in [Node -> Place] /\ at'[n] \in Place /\ at' = [at EXCEPT ![n] = at'[n]]
         /\ \A m \in Node : m # n => at'[m] = at[m]
         /\ PlaceOK(n)'
         /\ MessageLen(n)' = MessageLen(n) /\ Test(n)' = Test(n) /\ Size(n)' = Size(n)
         /\ \A label : In(n, label)' <=> In(n, label)
         /\ state' = [state EXCEPT ![n] = state'[n]] /\ state'[n] = "running"
<1>1. at \in [Node -> Place] /\ state \in [Node -> {"running", "done", "failed"}] /\ PlaceOK(n)
      /\ state[n] = "running"
  BY DEF TypeInv, TypeOK, Ended
<1>2. at'[n] = [at[n] EXCEPT !.count = c] /\ at[n] \in Place
  BY <1>1
<1>3. /\ at'[n] = [pass |-> at[n].pass, label |-> at[n].label, off |-> at[n].off, count |-> c]
      /\ at'[n].pass = at[n].pass /\ at'[n].label = at[n].label
      /\ at'[n].off = at[n].off /\ at'[n].count = c /\ at'[n] \in Place
  BY <1>2 DEF Place
<1>4. Test(n)' = Test(n) /\ Size(n)' = Size(n)
  BY <1>3 DEF Test, Size
<1>5. MessageLen(n)' = MessageLen(n)
  BY <1>3, <1>4 DEF MessageLen
<1>6. \A label : In(n, label)' <=> In(n, label)
  BY <1>3 DEF In, Ended
<1>7. PlaceOK(n)'
  BY <1>1, <1>3, <1>4 DEF PlaceOK
<1>8. at' \in [Node -> Place] /\ at' = [at EXCEPT ![n] = at'[n]] /\ \A m \in Node : m # n => at'[m] = at[m]
  BY <1>1, <1>3
<1> QED BY <1>1, <1>3, <1>4, <1>5, <1>6, <1>7, <1>8

\* The number of bytes of the message at hand.
LEMMA LengthFacts ==
  ASSUME TypeInv, NEW n \in Node, ~Ended(n), at[n].label \in {"move", "reply"}
  PROVE  /\ MessageLen(n) \in Nat /\ MessageLen(n) < SizeMax
         /\ at[n].count \in Nat /\ at[n].pass \in 1..Len(Passes(n))
<1>1. state[n] = "running" /\ at[n] \in Place /\ PlaceOK(n)
  BY DEF TypeInv, TypeOK, Ended
<1>2. at[n].count \in Nat /\ at[n].pass \in 1..Len(Passes(n))
  BY <1>1, PassesFacts DEF Place, PlaceOK, PosNat
<1>3. CASE at[n].label = "move"
  BY <1>1, <1>2, <1>3, MessageFacts, ConstantsAssumption
<1>4. CASE at[n].label = "reply"
  BY <1>2, <1>4, ConstantsAssumption DEF MessageLen
<1> QED BY <1>2, <1>3, <1>4

LEMMA LengthLater ==
  \A n \in Node :
    TypeInv' /\ ~Ended(n)' /\ at'[n].label \in {"move", "reply"} => MessageLen(n)' \in Nat
<1>1. \A n \in Node : TypeInv /\ ~Ended(n) /\ at[n].label \in {"move", "reply"} => MessageLen(n) \in Nat
  BY LengthFacts
<1>2. (\A n \in Node : TypeInv /\ ~Ended(n) /\ at[n].label \in {"move", "reply"} => MessageLen(n) \in Nat)'
  BY <1>1, PTL
<1> QED BY <1>2

\* Within a message the count does not wrap.
LEMMA Advanced ==
  ASSUME TypeInv, NEW n \in Node, ~Ended(n), at[n].label \in {"move", "reply"},
         NEW k \in Nat, at[n].count + k <= MessageLen(n), Advance(n, k)
  PROVE  at' = [at EXCEPT ![n].count = at[n].count + k]
<1>1. at[n].count + k \in Nat /\ at[n].count + k < SizeMax /\ SizeMax \in Nat
  BY LengthFacts, ConstantsAssumption
<1>2. (at[n].count + k) % SizeMax = at[n].count + k
  BY <1>1
<1> QED BY <1>2 DEF Advance, TypeInv, TypeOK

\* A place whose label is not that of a program before its first pass.
LEMMA LinkOnMove ==
  ASSUME TypeInv, NEW n \in Node, ~Ended(n), at[n].label \in {"move", "reply"},
         \A m \in Node : at'[m].label = at[m].label \/ (m = n /\ at'[m].label \in {"move", "reply"}),
         link' = link \/ (link' = "reset" /\ link = "up"),
         \A m \in Node : Len(wire'[m]) <= Len(wire[m]) \/ link = "up",
         wire' \in [Node -> Seq(Bytes)],
         \A m \in Node : pending'[m] => link' = "reset"
  PROVE  LinkOK'
<1>1. LinkOK /\ \A m \in Node : Len(wire'[m]) \in Nat /\ (wire'[m] = <<>> <=> Len(wire'[m]) = 0)
  BY DEF TypeInv
<1>2. n = "server" => link \notin {"none", "listening"}
  BY <1>1 DEF LinkOK
<1> QED BY <1>1, <1>2 DEF LinkOK, Node

LEMMA SendSomeTyped ==
  ASSUME TypeInv, NEW n \in Node, SendSome(n)
  PROVE  TypeInv'
<1>1. PICK k \in 1..(MessageLen(n) - at[n].count) :
         /\ Accepted(n, [i \in 1..k |-> OutByte(n, at[n].count + i - 1)])
         /\ Advance(n, k)
  BY DEF SendSome
<1>2. /\ ~Ended(n) /\ link = "up" /\ at[n].label = (IF n = "client" THEN "move" ELSE "reply")
      /\ at[n].count < MessageLen(n)
      /\ UNCHANGED <<state, little, data, results, errors>>
  BY DEF SendSome, Sending, In
<1>3. /\ MessageLen(n) \in Nat /\ at[n].count \in Nat /\ k \in Nat /\ at[n].count + k <= MessageLen(n)
      /\ at[n].pass \in PosNat
  BY <1>1, <1>2, LengthFacts DEF PosNat
<1> DEFINE c == at[n].count + k
           bytes == [i \in 1..k |-> OutByte(n, at[n].count + i - 1)]
<1>4. at' = [at EXCEPT ![n].count = c] /\ c \in Nat
  BY <1>1, <1>2, <1>3, Advanced
<1> HIDE DEF c
<1>5. bytes \in Seq(Bytes) /\ Len(bytes) = k
  <2>1. ASSUME NEW i \in 1..k PROVE OutByte(n, at[n].count + i - 1) \in Bytes
    <3>1. at[n].count + i - 1 \in Nat
      BY <1>3
    <3>2. n = "client" => Index(n, at[n].count + i - 1) \in Nat
      <4>1. SUFFICES ASSUME n = "client" PROVE Index(n, at[n].count + i - 1) \in Nat
        OBVIOUS
      <4>2. at[n].off \in Nat /\ Size(n) \in Nat
        BY <1>2, <1>3, <4>1, LengthFacts, MessageFacts DEF Ended
      <4>3. at[n].off * Size(n) \in Nat
        BY <4>2
      <4> QED BY <3>1, <4>2, <4>3 DEF Index
    <3> QED BY <1>3, <3>2 DEF OutByte, Byte, Bytes
  <2> QED BY <1>3, <2>1
<1> HIDE DEF bytes
<1>6. /\ wire' \in [Node -> Seq(Bytes)] /\ pending' \in [Node -> BOOLEAN] /\ closed' \in [Node -> BOOLEAN]
      /\ \A m \in Node : Len(wire'[m]) <= Capacity
      /\ link' \in {"up", "reset"} /\ \A m \in Node : pending'[m] => link' = "reset"
  <2>1. /\ wire \in [Node -> Seq(Bytes)] /\ pending \in [Node -> BOOLEAN] /\ closed \in [Node -> BOOLEAN]
        /\ \A m \in Node : Len(wire[m]) <= Capacity
        /\ \A m \in Node : ~pending[m]
    BY <1>2 DEF TypeInv, TypeOK, LinkOK
  <2>2. Accepted(n, bytes)
    BY <1>1 DEF bytes
  <2>3. CASE closed[Peer(n)]
    BY <1>2, <2>1, <2>2, <2>3 DEF Accepted
  <2>4. CASE ~closed[Peer(n)]
    <3>1. /\ Len(wire[n]) + Len(bytes) <= Capacity /\ wire' = [wire EXCEPT ![n] = @ \o bytes]
          /\ UNCHANGED <<link, pending, closed>>
      BY <2>2, <2>4 DEF Accepted
    <3>2. wire[n] \o bytes \in Seq(Bytes) /\ Len(wire[n] \o bytes) = Len(wire[n]) + Len(bytes)
      <4>1. wire[n] \in Seq(Bytes)
        BY <2>1
      <4> QED BY <1>5, <4>1
    <3> QED BY <1>2, <2>1, <3>1, <3>2
  <2> QED BY <2>3, <2>4
<1>7. LinkOK'
  BY <1>2, <1>4, <1>6, Counted, LinkOnMove
<1>8. TypeOK'
  BY <1>2, <1>4, <1>6, Counted DEF TypeInv, TypeOK, In, Ended, Node
<1>9. results' = at'["client"].pass - 1
  BY <1>2, <1>4, Counted DEF TypeInv, Node
<1>10. (n = "server" => ~In("server", "move")') /\ little' = little /\ (n = "server" => little' = <<>>)
  BY <1>2, <1>4, Counted DEF TypeInv, In
<1>11. little' \in Seq(Bytes \cup {Byte(0, 0)})
  BY <1>10 DEF TypeInv
<1> QED BY <1>2, <1>4, <1>6, <1>7, <1>8, <1>9, <1>10, <1>11, Counted, MoveTyped

LEMMA SendFailsTyped ==
  ASSUME TypeInv, NEW n \in Node, SendFails(n)
  PROVE  TypeInv'
<1>1. /\ ~Ended(n) /\ at[n].label = (IF n = "client" THEN "move" ELSE "reply")
      /\ at[n].count < MessageLen(n)
      /\ UNCHANGED <<state, little, data, results, link, wire, closed>>
      /\ at' = [at EXCEPT ![n].count = (@ + (SizeMax - 1)) % SizeMax]
  BY DEF SendFails, Sending, In, Advance
<1>2. at[n].count \in Nat /\ MessageLen(n) \in Nat /\ SizeMax \in Nat /\ SizeMax > 1
  BY <1>1, LengthFacts, ConstantsAssumption
<1> DEFINE c == (at[n].count + (SizeMax - 1)) % SizeMax
<1>3. c \in Nat /\ at' = [at EXCEPT ![n].count = c]
  BY <1>1, <1>2, DivMod DEF TypeInv, TypeOK
<1> HIDE DEF c
<1>4. errors' \in 0..MaxErrors /\ pending' \in [Node -> BOOLEAN] /\ \A m \in Node : pending'[m] => pending[m]
  <2>1. errors \in 0..MaxErrors /\ MaxErrors \in Nat /\ pending \in [Node -> BOOLEAN]
    BY ConstantsAssumption DEF TypeInv, TypeOK
  <2>2. \/ pending' = [pending EXCEPT ![n] = FALSE] /\ errors' = errors
        \/ errors < MaxErrors /\ errors' = errors + 1 /\ pending' = pending
        \/ pending' = pending /\ errors' = errors
    BY DEF SendFails
  <2>3. errors' \in 0..MaxErrors
    BY <2>1, <2>2
  <2>4. CASE pending' = pending
    BY <2>1, <2>3, <2>4
  <2>5. CASE pending' = [pending EXCEPT ![n] = FALSE]
    <3>1. \A m \in Node : pending'[m] = IF m = n THEN FALSE ELSE pending[m]
      BY <2>1, <2>5
    <3>2. pending' \in [Node -> BOOLEAN]
      BY <2>1, <2>5
    <3> QED BY <2>3, <3>1, <3>2
  <2> QED BY <2>2, <2>4, <2>5
<1>5. LinkOK'
  <2>1. wire' \in [Node -> Seq(Bytes)] /\ \A m \in Node : Len(wire'[m]) <= Len(wire[m])
    BY <1>1 DEF TypeInv
  <2>2. \A m \in Node : pending'[m] => link' = "reset"
    BY <1>1, <1>4 DEF TypeInv, LinkOK
  <2> QED BY <1>1, <1>3, <2>1, <2>2, Counted, LinkOnMove
<1>6. TypeOK'
  BY <1>1, <1>3, <1>4, Counted DEF TypeInv, TypeOK, In, Ended, Node
<1>7. results' = at'["client"].pass - 1
  BY <1>1, <1>3, Counted DEF TypeInv, Node
<1>8. (n = "server" => ~In("server", "move")') /\ little' = little /\ (n = "server" => little' = <<>>)
  BY <1>1, <1>3, Counted DEF TypeInv, In
<1>9. little' \in Seq(Bytes \cup {Byte(0, 0)}) /\ wire' \in [Node -> Seq(Bytes)]
  BY <1>1 DEF TypeInv
<1>10. ~Ended(n) /\ at[n].label \in {"move", "reply"} /\ state' = state
  BY <1>1
<1> QED BY <1>3, <1>5, <1>6, <1>7, <1>8, <1>9, <1>10, Counted, MoveTyped

\* What recv() returns is a part of what the other side has in the stream.
LEMMA TakenFacts ==
  ASSUME TypeInv, NEW n \in Node, NEW k \in Nat, Taken(n, k)
  PROVE  /\ k <= Len(wire[Peer(n)]) /\ Peer(n) \in Node /\ Peer(n) # n
         /\ wire' \in [Node -> Seq(Bytes)]
         /\ wire'[n] = wire[n] /\ wire'[Peer(n)] = SubSeq(wire[Peer(n)], k + 1, Len(wire[Peer(n)]))
         /\ Len(wire'[Peer(n)]) = Len(wire[Peer(n)]) - k
         /\ \A m \in Node : Len(wire'[m]) <= Len(wire[m])
         /\ UNCHANGED <<link, pending, closed>>
<1> DEFINE w == wire[Peer(n)]
           t == SubSeq(w, k + 1, Len(w))
<1>1. wire \in [Node -> Seq(Bytes)] /\ Peer(n) \in Node /\ Peer(n) # n
  BY DEF TypeInv, Peer, Node
<1>2. k <= Len(w) /\ wire' = [wire EXCEPT ![Peer(n)] = t] /\ UNCHANGED <<link, pending, closed>>
  BY DEF Taken
<1>3. w \in Seq(Bytes)
  BY <1>1
<1> HIDE DEF w
<1>4. t \in Seq(Bytes) /\ Len(t) = Len(w) - k
  BY <1>2, <1>3
<1> HIDE DEF t
<1>5. wire' \in [Node -> Seq(Bytes)] /\ wire'[n] = wire[n] /\ wire'[Peer(n)] = t
  BY <1>1, <1>2, <1>4
<1>6. \A m \in Node : Len(wire[m]) \in Nat
  BY <1>1
<1>7. \A m \in Node : Len(wire'[m]) <= Len(wire[m])
  <2> SUFFICES ASSUME NEW m \in Node PROVE Len(wire'[m]) <= Len(wire[m])
    OBVIOUS
  <2>1. m = n \/ m = Peer(n)
    BY DEF Node, Peer
  <2>2. Len(t) <= Len(w)
    BY <1>3, <1>4
  <2> QED BY <1>5, <1>6, <2>1, <2>2 DEF w
<1> QED BY <1>1, <1>2, <1>4, <1>5, <1>7 DEF w, t

LEMMA ReceiveSomeTyped ==
  ASSUME TypeInv, NEW n \in Node, ReceiveSome(n)
  PROVE  TypeInv'
<1>1. PICK k \in 1..(MessageLen(n) - at[n].count) :
         /\ Taken(n, k) /\ Advance(n, k)
         /\ little' = IF n = "server" THEN little \o SubSeq(wire["client"], 1, k) ELSE little
  BY DEF ReceiveSome
<1>2. /\ ~Ended(n) /\ at[n].label = (IF n = "client" THEN "reply" ELSE "move")
      /\ at[n].count < MessageLen(n)
      /\ UNCHANGED <<state, data, results, errors>>
  BY DEF ReceiveSome, Receiving, In
<1>3. /\ MessageLen(n) \in Nat /\ at[n].count \in Nat /\ k \in Nat /\ at[n].count + k <= MessageLen(n)
  BY <1>1, <1>2, LengthFacts
<1> DEFINE c == at[n].count + k
<1>4. at' = [at EXCEPT ![n].count = c] /\ c \in Nat /\ c <= MessageLen(n)
  BY <1>1, <1>2, <1>3, Advanced
<1> HIDE DEF c
<1>5. /\ wire' \in [Node -> Seq(Bytes)] /\ \A m \in Node : Len(wire'[m]) <= Len(wire[m])
      /\ UNCHANGED <<link, pending, closed>> /\ k <= Len(wire[Peer(n)])
  BY <1>1, <1>3, TakenFacts
<1>6. LinkOK'
  BY <1>2, <1>4, <1>5, Counted, LinkOnMove DEF TypeInv, LinkOK
<1>7. n = "server" => /\ little' \in Seq(Bytes \cup {Byte(0, 0)})
                      /\ Len(little') = c
  <2>1. SUFFICES ASSUME n = "server"
                 PROVE  little' \in Seq(Bytes \cup {Byte(0, 0)}) /\ Len(little') = c
    OBVIOUS
  <2> DEFINE B == Bytes \cup {Byte(0, 0)}
             part == SubSeq(wire["client"], 1, k)
  <2>2. wire["client"] \in Seq(Bytes) /\ k <= Len(wire["client"])
    BY <1>5, <2>1 DEF TypeInv, Peer, Node
  <2>3. part \in Seq(Bytes) /\ Len(part) = k
    BY <1>3, <2>2
  <2> HIDE DEF part
  <2>4. part \in Seq(B)
    <3>1. \A i \in 1..Len(part) : part[i] \in B
      BY <2>3
    <3> QED BY <2>3, <3>1
  <2>5. little \in Seq(B) /\ Len(little) = at[n].count
    BY <1>2, <2>1 DEF TypeInv, TypeOK, In
  <2>6. little' = little \o part
    BY <1>1, <2>1 DEF part
  <2> HIDE DEF B
  <2>7. little \o part \in Seq(B) /\ Len(little \o part) = Len(little) + Len(part)
    BY <2>4, <2>5
  <2> QED BY <2>3, <2>5, <2>6, <2>7 DEF c, B
<1>8. little' \in Seq(Bytes \cup {Byte(0, 0)}) /\ (n = "client" => little' = little)
  BY <1>1, <1>7 DEF TypeInv, Node
<1>9. In("server", "move")' => Len(little') = at'["server"].count
  <2>1. CASE n = "server"
    BY <1>2, <1>4, <1>7, <2>1, Counted
  <2>2. CASE n = "client"
    <3>1. at'["server"] = at["server"] /\ little' = little
      BY <1>1, <1>2, <1>4, <2>2, Counted DEF Node
    <3> QED BY <1>2, <3>1 DEF TypeInv, TypeOK, In, Ended
  <2> QED BY <2>1, <2>2 DEF Node
<1>10. TypeOK'
  <2>1. \A m \in Node : Len(wire'[m]) <= Capacity
    BY <1>5, CapacityAssumption DEF TypeInv, TypeOK
  <2>2. at' \in [Node -> Place]
    BY <1>2, <1>4, Counted
  <2> QED BY <1>2, <1>5, <1>9, <2>1, <2>2 DEF TypeInv, TypeOK
<1>11. results' = at'["client"].pass - 1
  BY <1>2, <1>4, Counted DEF TypeInv, Node
<1>12. n = "server" => at'["server"].count <= MessageLen("server")' /\ at'["server"].label = "move"
  <2>1. at'[n].count = c /\ MessageLen(n)' = MessageLen(n) /\ at'[n].label = at[n].label
    BY <1>2, <1>4, Counted
  <2> QED BY <1>2, <1>4, <2>1
<1> QED BY <1>2, <1>4, <1>5, <1>6, <1>8, <1>10, <1>11, <1>12, Counted, MoveTyped

\* A program moves to another place of the same pass.
LEMMA MoveOverTyped ==
  ASSUME TypeInv, NEW n \in Node, MoveOver(n)
  PROVE  /\ TypeInv'
         /\ at'[n].pass = at[n].pass /\ at'[n].count = 0
         /\ IF MoreMessages(n)
            THEN /\ at'[n].label = "move"
                 /\ at'[n].off = at[n].off + (IF Test(n) = "throughput" THEN Size(n) ELSE 1)
            ELSE at'[n].label = "reply" /\ at'[n].off = 0
<1>1. /\ state[n] = "running" /\ at[n].label = "move" /\ at[n].count >= MessageLen(n)
      /\ UNCHANGED <<state, results, errors, stream>> /\ ~Ended(n)
      /\ at \in [Node -> Place] /\ at[n] \in Place /\ PlaceOK(n)
      /\ state \in [Node -> {"running", "done", "failed"}]
  BY DEF MoveOver, MessageOver, Ended, TypeInv, TypeOK
<1>2. /\ at[n].pass \in 1..Len(Passes(n)) /\ at[n].pass <= Len(Passes(n)) /\ at[n].off \in Nat /\ at[n].pass \in PosNat
  BY <1>1, LengthFacts, PassesFacts DEF Place, PosNat
<1> DEFINE place == IF MoreMessages(n)
                    THEN [pass |-> at[n].pass, label |-> "move",
                          off |-> at[n].off + (IF Test(n) = "throughput" THEN Size(n) ELSE 1), count |-> 0]
                    ELSE [pass |-> at[n].pass, label |-> "reply", off |-> 0, count |-> 0]
<1>3. at' = [at EXCEPT ![n] = place]
  BY <1>1 DEF MoveOver, NextMessage, Begin
<1>4. at'[n] = place
  BY <1>1, <1>3
<1>5. /\ at'[n].pass = at[n].pass /\ at'[n].count = 0
      /\ MoreMessages(n) => /\ at'[n].label = "move"
                            /\ at'[n].off = at[n].off + (IF Test(n) = "throughput" THEN Size(n) ELSE 1)
      /\ ~MoreMessages(n) => at'[n].label = "reply" /\ at'[n].off = 0
  BY <1>4
<1>6. at' = [at EXCEPT ![n] = at'[n]] /\ (\A m \in Node : m # n => at'[m] = at[m])
  BY <1>1, <1>3, <1>4
<1>7. Size(n) \in Nat /\ Size(n) > 0
  BY <1>1, <1>2, MessageFacts
<1>8. at'[n] \in Place
  BY <1>2, <1>4, <1>7 DEF Place
<1> HIDE DEF place
<1>9. Size(n)' = Size(n) /\ Test(n)' = Test(n)
  BY <1>5 DEF Size, Test
<1>10. PlaceOK(n)'
  <2>1. CASE MoreMessages(n)
    BY <1>1, <1>2, <1>5, <1>9, <2>1, MessageFacts DEF PlaceOK
  <2>2. CASE ~MoreMessages(n)
    BY <1>1, <1>2, <1>5, <2>2 DEF PlaceOK
  <2> QED BY <2>1, <2>2
<1>11. IF n = "server" THEN little' = <<>> ELSE little' = little
  BY DEF MoveOver, CopyMessage
<1>12. little' \in Seq(Bytes \cup {Byte(0, 0)}) /\ (n = "client" => little' = little)
  <2>1. <<>> \in Seq(Bytes \cup {Byte(0, 0)})
    OBVIOUS
  <2> QED BY <1>11, <2>1 DEF TypeInv, Node
<1>13. n = "server" => (In("server", "move")' => at'["server"].count <= MessageLen("server")')
  <2>1. SUFFICES ASSUME n = "server", at'[n].label = "move" PROVE at'["server"].count <= MessageLen("server")'
    BY DEF In
  <2>2. MessageLen(n)' = (IF Test(n) = "throughput" THEN PieceLen(DataSize[n], Size(n), at'[n].off) ELSE Size(n))
    BY <1>9, <2>1 DEF MessageLen
  <2>3. PieceLen(DataSize[n], Size(n), at'[n].off) \in Nat
    <3>1. DataSize[n] \in Nat
      BY ConstantsAssumption DEF PosNat
    <3> QED BY <1>7, <3>1, DivMod DEF PieceLen
  <2> QED BY <1>5, <1>7, <2>1, <2>2, <2>3
<1>14. LinkOK'
  <2>1. wire' \in [Node -> Seq(Bytes)] /\ (\A m \in Node : Len(wire'[m]) <= Len(wire[m]) /\ (pending'[m] => link' = "reset"))
        /\ link' = link
    BY <1>1 DEF TypeInv, LinkOK, stream
  <2>2. \A m \in Node : at'[m].label = at[m].label \/ (m = n /\ at'[m].label \in {"move", "reply"})
    BY <1>5, <1>6
  <2> QED BY <1>1, <2>1, <2>2, LinkOnMove
<1>15. In("server", "move")' => Len(little') = at'["server"].count
  <2>1. CASE n = "server"
    BY <1>5, <1>11, <2>1
  <2>2. CASE n = "client"
    <3>1. at'["server"] = at["server"] /\ little' = little
      BY <1>6, <1>11, <2>2 DEF Node
    <3> QED BY <1>1, <3>1 DEF TypeInv, TypeOK, In, Ended
  <2> QED BY <2>1, <2>2 DEF Node
<1>16. TypeOK'
  <2>1. at' \in [Node -> Place]
    BY <1>1, <1>6, <1>8
  <2> QED BY <1>1, <1>15, <2>1 DEF TypeInv, TypeOK, stream
<1>17. results' = at'["client"].pass - 1
  BY <1>1, <1>5, <1>6 DEF TypeInv, Node
<1>18. state' = [state EXCEPT ![n] = state'[n]] /\ state'[n] = "running"
  BY <1>1
<1>19. wire' \in [Node -> Seq(Bytes)] /\ (n = "server" => little' = <<>>)
  BY <1>1, <1>11 DEF TypeInv, stream
<1>20. TypeInv'
  BY <1>6, <1>8, <1>10, <1>12, <1>13, <1>14, <1>16, <1>17, <1>18, <1>19, MoveTyped
<1> QED BY <1>5, <1>20

\* A program ends a pass, and maybe itself.
LEMMA PassOverTyped ==
  ASSUME TypeInv, NEW n \in Node, PassOver(n)
  PROVE  /\ TypeInv'
         /\ ~Ended(n) /\ at[n].label = "reply" /\ at[n].count > 0
         /\ at'[n] = [pass |-> at[n].pass + 1, label |-> "move", off |-> 0, count |-> 0]
         /\ at'[n].pass = at[n].pass + 1 /\ at'[n].label = "move" /\ at'[n].off = 0 /\ at'[n].count = 0
         /\ \A m \in Node : m # n => at'[m] = at[m] /\ state'[m] = state[m]
         /\ \A m \in Node : Len(wire'[m]) <= Len(wire[m])
         /\ IF at[n].pass < Len(Passes(n)) THEN state' = state /\ UNCHANGED stream
                                           ELSE state'[n] = "done" /\ CloseSocket(n)
<1>1. /\ state[n] = "running" /\ ~Ended(n) /\ at[n].label = "reply" /\ at[n].count >= MessageLen(n)
      /\ at' = [at EXCEPT ![n] = [pass |-> at[n].pass + 1, label |-> "move", off |-> 0, count |-> 0]]
      /\ results' = IF n = "client" THEN results + 1 ELSE results
      /\ UNCHANGED <<little, errors>>
      /\ at \in [Node -> Place] /\ PlaceOK(n)
      /\ state \in [Node -> {"running", "done", "failed"}]
  BY DEF PassOver, MessageOver, Begin, Ended, TypeInv, TypeOK
<1>2. at[n].pass \in 1..Len(Passes(n)) /\ at[n].count \in Nat /\ Len(Passes(n)) \in Nat /\ at[n].count > 0
  BY <1>1, LengthFacts, PassesFacts DEF MessageLen
<1>3. /\ at'[n] = [pass |-> at[n].pass + 1, label |-> "move", off |-> 0, count |-> 0]
      /\ at' = [at EXCEPT ![n] = at'[n]] /\ (\A m \in Node : m # n => at'[m] = at[m])
  BY <1>1
<1>4. at'[n].pass = at[n].pass + 1 /\ at'[n].label = "move" /\ at'[n].off = 0 /\ at'[n].count = 0
  BY <1>3
<1>5. at'[n] \in Place /\ at' \in [Node -> Place]
  <2>1. at'[n] \in Place
    BY <1>2, <1>3 DEF Place, PosNat
  <2> QED BY <1>1, <1>3, <2>1
<1>6. results' = at'["client"].pass - 1
  <2>1. results = at["client"].pass - 1
    BY DEF TypeInv
  <2>2. CASE n = "client"
    BY <1>1, <1>2, <1>4, <2>1, <2>2
  <2>3. CASE n # "client"
    BY <1>1, <1>3, <2>1, <2>3 DEF Node
  <2> QED BY <2>2, <2>3
<1>7. results' \in 0..Len(Passes("client"))
  <2>1. CASE n = "client"
    BY <1>2, <1>4, <1>6, <2>1
  <2>2. CASE n # "client"
    BY <1>1, <2>2 DEF TypeInv, TypeOK
  <2> QED BY <2>1, <2>2
<1>8. little' = little /\ (n = "server" => little' = <<>>)
  BY <1>1 DEF TypeInv
<1>9. CASE at[n].pass < Len(Passes(n))
  <2>1. state' = state /\ UNCHANGED stream /\ at[n].pass + 1 \in 1..Len(Passes(n))
    BY <1>2, <1>9 DEF PassOver
  <2>2. PlaceOK(n)' /\ MessageLen(n)' \in Nat
    BY <1>1, <1>3, <2>1, StartOfPass
  <2>3. wire' \in [Node -> Seq(Bytes)] /\ (\A m \in Node : Len(wire'[m]) <= Len(wire[m]) /\ (pending'[m] => link' = "reset"))
        /\ link' = link
    BY <2>1 DEF TypeInv, LinkOK, stream
  <2>4. LinkOK'
    <3>1. \A m \in Node : at'[m].label = at[m].label \/ (m = n /\ at'[m].label \in {"move", "reply"})
      BY <1>3, <1>4
    <3> QED BY <1>1, <2>3, <3>1, LinkOnMove
  <2>5. In("server", "move")' => Len(little') = at'["server"].count
    <3>1. CASE n = "server"
      BY <1>4, <1>8, <3>1
    <3>2. CASE n = "client"
      <4>1. at'["server"] = at["server"] /\ little' = little
        BY <1>3, <1>8, <3>2 DEF Node
      <4> QED BY <2>1, <4>1 DEF TypeInv, TypeOK, In, Ended
    <3> QED BY <3>1, <3>2 DEF Node
  <2>6. TypeOK'
    BY <1>1, <1>5, <1>7, <2>1, <2>5 DEF TypeInv, TypeOK, stream
  <2>7. state' = [state EXCEPT ![n] = state'[n]] /\ state'[n] = "running"
    BY <1>1, <2>1
  <2>8. /\ n = "server" => (In("server", "move")' => at'["server"].count <= MessageLen("server")')
        /\ n = "server" => (at'["server"].label # "move" => little' = <<>>)
        /\ little' \in Seq(Bytes \cup {Byte(0, 0)}) /\ (n = "client" => little' = little)
        /\ at'[n] \in Place /\ state'[n] \in {"running", "done", "failed"}
    BY <1>4, <1>5, <1>8, <2>2, <2>7 DEF TypeInv
  <2>9. TypeInv'
    BY <1>3, <1>6, <2>2, <2>3, <2>4, <2>6, <2>7, <2>8, MoveTyped
  <2> QED BY <1>1, <1>2, <1>3, <1>4, <1>9, <2>1, <2>3, <2>9
<1>10. CASE ~(at[n].pass < Len(Passes(n)))
  <2>1. state' = [state EXCEPT ![n] = "done"] /\ CloseSocket(n) /\ at[n].pass = Len(Passes(n))
    BY <1>2, <1>10 DEF PassOver
  <2>2. state'[n] = "done" /\ state' = [state EXCEPT ![n] = state'[n]]
        /\ state' \in [Node -> {"running", "done", "failed"}]
        /\ \A m \in Node : m # n => state'[m] = state[m]
    BY <1>1, <2>1
  <2>3. PlaceOK(n)'
    BY <1>2, <1>3, <1>4, <2>1, <2>2 DEF PlaceOK
  <2>4. /\ wire' \in [Node -> Seq(Bytes)] /\ (\A m \in Node : Len(wire'[m]) <= Len(wire[m]) /\ (pending'[m] => link' = "reset"))
        /\ link' = link \/ (link' = "reset" /\ link = "up")
        /\ pending' \in [Node -> BOOLEAN] /\ closed' \in [Node -> BOOLEAN]
    BY <2>1, Closing
  <2>5. LinkOK'
    <3>1. \A m \in Node : at'[m].label = at[m].label \/ (m = n /\ at'[m].label \in {"move", "reply"})
      BY <1>3, <1>4
    <3> QED BY <1>1, <2>4, <3>1, LinkOnMove
  <2>6. In("server", "move")' => Len(little') = at'["server"].count
    <3>1. CASE n = "server"
      BY <2>2, <3>1 DEF In, Ended
    <3>2. CASE n = "client"
      <4>1. at'["server"] = at["server"] /\ little' = little /\ state'["server"] = state["server"]
        BY <1>3, <1>8, <2>2, <3>2 DEF Node
      <4> QED BY <4>1 DEF TypeInv, TypeOK, In, Ended
    <3> QED BY <3>1, <3>2 DEF Node
  <2>7. TypeOK'
    <3>1. \A m \in Node : Len(wire'[m]) <= Capacity
      BY <2>4, CapacityAssumption DEF TypeInv, TypeOK
    <3>2. link' \in {"none", "listening", "up", "reset"} /\ errors' \in 0..MaxErrors
      BY <1>1, <2>4 DEF TypeInv, TypeOK
    <3> QED BY <1>5, <1>7, <2>2, <2>4, <2>6, <3>1, <3>2 DEF TypeOK
  <2>8. n = "server" => ~In("server", "move")'
    BY <2>2 DEF In, Ended
  <2>9. TypeInv'
    BY <1>3, <1>4, <1>5, <1>6, <1>8, <2>2, <2>3, <2>4, <2>5, <2>7, <2>8, MoveTyped DEF TypeInv
  <2> QED BY <1>1, <1>2, <1>3, <1>4, <1>10, <2>1, <2>2, <2>4, <2>9
<1> QED BY <1>9, <1>10

-----------------------------------------------------------------------------
(* Answers.                                                                *)

LEMMA AnswersTyped ==
  ASSUME at \in [Node -> Place]
  PROVE  Answered \in Nat /\ at["server"].pass \in PosNat /\ at["client"].count \in Nat /\ at["server"].count \in Nat
<1>1. at["server"] \in Place /\ at["client"] \in Place
  BY DEF Node
<1>2. at["server"].pass \in PosNat
  BY <1>1 DEF Place
<1>3. CASE at["server"].label = "reply" /\ at["server"].count > 0
  BY <1>1, <1>2, <1>3 DEF Answered, Place, PosNat
<1>4. CASE ~(at["server"].label = "reply" /\ at["server"].count > 0)
  BY <1>1, <1>2, <1>4 DEF Answered, Place, PosNat
<1> QED BY <1>1, <1>2, <1>3, <1>4 DEF Place

\* A step that neither writes a result nor answers nor takes in a reply.
LEMMA AnswersStay ==
  ASSUME RepliesOK, TypeInv, wire' \in [Node -> Seq(Bytes)], Len(wire'["server"]) <= Len(wire["server"]),
         results' = results, Answered' = Answered,
         at'["client"].label = "reply" /\ at'["client"].count > 0 =>
           at["client"].label = "reply" /\ at["client"].count > 0
  PROVE  RepliesOK'
<1> DEFINE Got == at["client"].label = "reply" /\ at["client"].count > 0
           l == Len(wire["server"])
<1>1. wire \in [Node -> Seq(Bytes)] /\ "server" \in Node
  BY DEF TypeInv, Node
<1>2. l' \in Nat /\ l \in Nat /\ l' <= l
  BY <1>1
<1>3. results \in Nat /\ Answered \in Nat
  BY PassesFacts, AnswersTyped DEF TypeInv, TypeOK
<1>4. (Got => results + 1 + l <= Answered) /\ (~Got => results + 0 + l <= Answered)
  BY DEF RepliesOK
<1>5. (Got' => results' + 1 + l' <= Answered') /\ (~Got' => results' + 0 + l' <= Answered')
  <2>1. Got' => Got
    OBVIOUS
  <2> HIDE DEF Got, l
  <2>2. CASE Got
    BY <1>2, <1>3, <1>4, <2>1, <2>2
  <2>3. CASE ~Got
    BY <1>2, <1>3, <1>4, <2>1, <2>3
  <2> QED BY <2>2, <2>3
<1> QED BY <1>5 DEF RepliesOK

\* A step that leaves both programs where they are.
LEMMA AnswersRest ==
  ASSUME RepliesOK, TypeInv, wire' \in [Node -> Seq(Bytes)], Len(wire'["server"]) <= Len(wire["server"]),
         UNCHANGED <<at, results>>
  PROVE  RepliesOK'
<1>1. Answered' = Answered
  BY DEF Answered
<1> QED BY <1>1, AnswersStay

\* A program that starts answers nothing.
LEMMA AnswersAtStart ==
  ASSUME RepliesOK, TypeInv, UNCHANGED <<wire, results>>, NEW n \in Node,
         \A m \in Node : m # n => at'[m] = at[m],
         at[n].label \in {"start", "accept"}, at'[n].pass = at[n].pass, at'[n].label # "reply"
  PROVE  RepliesOK'
<1>1. wire' \in [Node -> Seq(Bytes)] /\ Len(wire'["server"]) \in Nat /\ wire'["server"] = wire["server"]
  BY DEF TypeInv, Node
<1>2. Answered' = Answered /\ (at'["client"].label = "reply" => at'["client"] = at["client"])
  <2>1. CASE n = "client"
    BY <2>1 DEF Answered, Node
  <2>2. CASE n = "server"
    BY <2>2 DEF Answered, Node
  <2> QED BY <2>1, <2>2 DEF Node
<1> QED BY <1>1, <1>2, AnswersStay

\* Whatever the client does but take in a reply or write a result.
LEMMA AnswersStayClient ==
  ASSUME RepliesOK, TypeInv, at'["server"] = at["server"],
         wire' \in [Node -> Seq(Bytes)], Len(wire'["server"]) <= Len(wire["server"]), results' = results,
         at'["client"].label # "reply" \/ at'["client"].count = 0
  PROVE  RepliesOK'
<1>1. Answered' = Answered
  BY DEF Answered
<1> QED BY <1>1, AnswersStay

LEMMA LenAppend ==
  ASSUME NEW S, NEW x \in Seq(S), NEW y \in Seq(S)
  PROVE  x \o y \in Seq(S) /\ Len(x \o y) = Len(x) + Len(y) /\ Len(x) \in Nat /\ Len(y) \in Nat
OBVIOUS

\* One more answer pays for one more reply in the stream.
LEMMA OneMore ==
  ASSUME NEW r \in Nat, NEW g \in Nat, NEW l \in Nat, NEW a \in Nat, NEW m \in Nat,
         r + g + l <= a - 1, m <= l + 1
  PROVE  r + g + m <= a
OBVIOUS

\* What one call of send() does.
LEMMA SentFacts ==
  ASSUME TypeInv, NEW n \in Node, SendSome(n)
  PROVE  /\ ~Ended(n) /\ link = "up" /\ at[n].label = (IF n = "client" THEN "move" ELSE "reply")
         /\ UNCHANGED <<state, little, data, results, errors, closed>>
         /\ \E k \in Nat :
              /\ 0 < k /\ at[n].count + k <= MessageLen(n) /\ at[n].count + k \in Nat
              /\ at' = [at EXCEPT ![n].count = at[n].count + k]
              /\ \/ closed[Peer(n)] /\ wire' = wire /\ link' = "reset"
                 \/ /\ ~closed[Peer(n)] /\ link' = "up"
                    /\ wire' = [wire EXCEPT ![n] = @ \o [i \in 1..k |-> OutByte(n, at[n].count + i - 1)]]
<1>1. PICK k \in 1..(MessageLen(n) - at[n].count) :
         /\ Accepted(n, [i \in 1..k |-> OutByte(n, at[n].count + i - 1)])
         /\ Advance(n, k)
  BY DEF SendSome
<1>2. /\ ~Ended(n) /\ link = "up" /\ at[n].label = (IF n = "client" THEN "move" ELSE "reply")
      /\ at[n].count < MessageLen(n)
      /\ UNCHANGED <<state, little, data, results, errors>>
  BY DEF SendSome, Sending, In
<1>3. /\ MessageLen(n) \in Nat /\ at[n].count \in Nat /\ k \in Nat /\ at[n].count + k <= MessageLen(n) /\ 0 < k
  BY <1>1, <1>2, LengthFacts
<1>4. at' = [at EXCEPT ![n].count = at[n].count + k]
  BY <1>1, <1>2, <1>3, Advanced
<1>5. \/ closed[Peer(n)] /\ wire' = wire /\ link' = "reset" /\ closed' = closed
      \/ /\ ~closed[Peer(n)] /\ link' = "up" /\ closed' = closed
         /\ wire' = [wire EXCEPT ![n] = @ \o [i \in 1..k |-> OutByte(n, at[n].count + i - 1)]]
  BY <1>1, <1>2 DEF Accepted
<1> DEFINE Sent(x) ==
             /\ 0 < x /\ at[n].count + x <= MessageLen(n) /\ at[n].count + x \in Nat
             /\ at' = [at EXCEPT ![n].count = at[n].count + x]
             /\ \/ closed[Peer(n)] /\ wire' = wire /\ link' = "reset"
                \/ /\ ~closed[Peer(n)] /\ link' = "up"
                   /\ wire' = [wire EXCEPT ![n] = @ \o [i \in 1..x |-> OutByte(n, at[n].count + i - 1)]]
<1>6. Sent(k)
  BY <1>3, <1>4, <1>5
<1>7. \E x \in Nat : Sent(x)
  <2> HIDE DEF Sent
  <2> QED BY <1>3, <1>6
<1> QED BY <1>2, <1>5, <1>7

LEMMA SendSomeAnswers ==
  ASSUME AnswerInv, NEW n \in Node, SendSome(n)
  PROVE  RepliesOK'
<1>1. TypeInv /\ RepliesOK /\ TypeInv'
  BY SendSomeTyped DEF AnswerInv
<1>2. PICK k \in Nat :
        /\ 0 < k /\ at[n].count + k <= MessageLen(n) /\ at[n].count + k \in Nat
        /\ at' = [at EXCEPT ![n].count = at[n].count + k]
        /\ \/ wire' = wire
           \/ wire' = [wire EXCEPT ![n] = @ \o [i \in 1..k |-> OutByte(n, at[n].count + i - 1)]]
  BY <1>1, SentFacts
<1>3. /\ ~Ended(n) /\ at[n].label = (IF n = "client" THEN "move" ELSE "reply")
      /\ state' = state /\ results' = results
  BY <1>1, SentFacts
<1>4. /\ at'[n].label = at[n].label /\ at'[n].pass = at[n].pass /\ at'[n].count = at[n].count + k
      /\ \A m \in Node : m # n => at'[m] = at[m]
  <2> DEFINE c == at[n].count + k
  <2>1. c \in Nat /\ at' = [at EXCEPT ![n].count = c]
    BY <1>2
  <2> HIDE DEF c
  <2>2. at'[n].label = at[n].label /\ at'[n].pass = at[n].pass /\ at'[n].count = c /\ \A m \in Node : m # n => at'[m] = at[m]
    BY <1>1, <1>3, <2>1, Counted
  <2> QED BY <2>2 DEF c
<1>5. wire \in [Node -> Seq(Bytes)] /\ wire' \in [Node -> Seq(Bytes)]
  BY <1>1 DEF TypeInv
<1>6. CASE n = "client"
  <2>1. at'["server"] = at["server"] /\ wire'["server"] = wire["server"] /\ at'["client"].label = "move"
    BY <1>2, <1>3, <1>4, <1>5, <1>6 DEF Node
  <2>2. Len(wire'["server"]) <= Len(wire["server"])
    BY <1>5, <2>1 DEF Node
  <2> QED BY <1>1, <1>3, <1>5, <2>1, <2>2, AnswersStayClient
<1>7. CASE n = "server"
  <2>1. at["server"].count = 0 /\ k = 1 /\ at["server"].label = "reply" /\ at["server"].count \in Nat
    BY <1>1, <1>2, <1>3, <1>7, LengthFacts DEF MessageLen
  <2>2. Answered = at["server"].pass - 1 /\ Answered' = at["server"].pass /\ at["server"].pass \in Nat
    <3>1. at'["server"].count > 0 /\ at'["server"].label = "reply" /\ at'["server"].pass = at["server"].pass
      BY <1>4, <1>7, <2>1
    <3>2. at["server"].pass \in Nat
      BY <1>1, AnswersTyped DEF TypeInv, TypeOK, PosNat
    <3> QED BY <2>1, <3>1, <3>2 DEF Answered
  <2>3. Len(wire'["server"]) <= Len(wire["server"]) + 1 /\ Len(wire'["server"]) \in Nat /\ Len(wire["server"]) \in Nat
    <3> DEFINE b == [i \in 1..k |-> OutByte(n, at[n].count + i - 1)]
               w == wire["server"]
    <3>1. CASE wire' = wire
      BY <1>5, <3>1 DEF Node
    <3>2. CASE wire' = [wire EXCEPT ![n] = @ \o b]
      <4>1. Len(b) = 1 /\ b \in Seq(Bytes)
        <5>1. OutByte(n, 0) \in Bytes /\ at[n].count = 0
          BY <1>7, <2>1, <2>2, AnswersTyped, <1>1 DEF OutByte, Byte, Bytes, TypeInv, TypeOK
        <5> QED BY <2>1, <5>1
      <4> HIDE DEF b
      <4>2. wire'["server"] = w \o b /\ w \in Seq(Bytes)
        BY <1>5, <1>7, <3>2 DEF Node
      <4>3. Len(w \o b) = Len(w) + Len(b)
        BY <4>1, <4>2, LenAppend
      <4> QED BY <4>1, <4>2, <4>3
    <3> QED BY <1>2, <3>1, <3>2
  <2>4. at'["client"] = at["client"] /\ results \in Nat
    BY <1>1, <1>4, <1>7, PassesFacts DEF TypeInv, TypeOK, Node
  <2> DEFINE got == IF at["client"].label = "reply" /\ at["client"].count > 0 THEN 1 ELSE 0
  <2>5. got' = got /\ got \in Nat /\ results' = results /\ results + got + Len(wire["server"]) <= Answered
    BY <1>1, <1>3, <2>4 DEF RepliesOK
  <2> HIDE DEF got
  <2>6. results' + got + Len(wire'["server"]) <= Answered'
    BY <2>2, <2>3, <2>4, <2>5, OneMore
  <2> QED BY <2>4, <2>6 DEF RepliesOK, got
<1> QED BY <1>6, <1>7 DEF Node

LEMMA SendFailsAnswers ==
  ASSUME AnswerInv, NEW n \in Node, SendFails(n)
  PROVE  RepliesOK'
<1>1. TypeInv /\ RepliesOK /\ wire \in [Node -> Seq(Bytes)]
  BY DEF AnswerInv, TypeInv
<1>2. /\ ~Ended(n) /\ at[n].label = (IF n = "client" THEN "move" ELSE "reply")
      /\ at[n].count < MessageLen(n)
      /\ UNCHANGED <<state, results, wire>>
      /\ at' = [at EXCEPT ![n].count = (@ + (SizeMax - 1)) % SizeMax]
  BY DEF SendFails, Sending, In, Advance
<1>3. at[n].count \in Nat /\ MessageLen(n) \in Nat /\ SizeMax \in Nat /\ SizeMax > 1
  BY <1>1, <1>2, LengthFacts, ConstantsAssumption
<1> DEFINE c == (at[n].count + (SizeMax - 1)) % SizeMax
<1>4. c \in Nat /\ at' = [at EXCEPT ![n].count = c]
  <2>1. at \in [Node -> Place]
    BY <1>1 DEF TypeInv, TypeOK
  <2>2. at[n].count + (SizeMax - 1) \in Nat
    BY <1>3
  <2> QED BY <1>2, <1>3, <2>1, <2>2, DivMod
<1>5. at["server"].count = 0 /\ n = "server" => c = SizeMax - 1
  BY <1>3
<1> HIDE DEF c
<1>6. /\ at'[n].label = at[n].label /\ at'[n].pass = at[n].pass /\ at'[n].count = c
      /\ \A m \in Node : m # n => at'[m] = at[m]
  BY <1>1, <1>2, <1>4, Counted
<1>7. CASE n = "client"
  <2>1. at'["server"] = at["server"] /\ at'["client"].label = "move" /\ wire' \in [Node -> Seq(Bytes)]
        /\ Len(wire'["server"]) <= Len(wire["server"])
    BY <1>1, <1>2, <1>6, <1>7 DEF Node
  <2> QED BY <1>1, <1>2, <2>1, AnswersStayClient
<1>8. CASE n = "server"
  <2>1. at["server"].count = 0 /\ at["server"].label = "reply" /\ c > 0
    BY <1>2, <1>3, <1>5, <1>8 DEF MessageLen
  <2>2. Answered = at["server"].pass - 1 /\ Answered' = at["server"].pass /\ at["server"].pass \in Nat
    <3>1. at'["server"].count > 0 /\ at'["server"].label = "reply" /\ at'["server"].pass = at["server"].pass
      BY <1>6, <1>8, <2>1
    <3>2. at["server"].pass \in Nat
      BY <1>1, AnswersTyped DEF TypeInv, TypeOK, PosNat
    <3> QED BY <2>1, <3>1, <3>2 DEF Answered
  <2>3. at'["client"] = at["client"] /\ results \in Nat /\ Len(wire["server"]) \in Nat
    BY <1>1, <1>6, <1>8, PassesFacts DEF TypeInv, TypeOK, Node
  <2> DEFINE got == IF at["client"].label = "reply" /\ at["client"].count > 0 THEN 1 ELSE 0
  <2>4. got' = got /\ got \in Nat /\ results' = results /\ results + got + Len(wire["server"]) <= Answered
        /\ Len(wire'["server"]) = Len(wire["server"])
    BY <1>1, <1>2, <2>3 DEF RepliesOK
  <2> HIDE DEF got
  <2>5. /\ Len(wire'["server"]) \in Nat /\ Len(wire'["server"]) <= Len(wire["server"]) + 1
        /\ Answered' \in Nat /\ results + got + Len(wire["server"]) <= Answered' - 1
    <3>1. Answered = Answered' - 1 /\ Answered' \in Nat
      BY <2>2
    <3>2. Len(wire'["server"]) \in Nat /\ Len(wire'["server"]) <= Len(wire["server"]) + 1
      BY <2>3, <2>4
    <3>3. results + got + Len(wire["server"]) <= Answered
      BY <2>4
    <3> QED BY <3>1, <3>2, <3>3
  <2>6. results' + got + Len(wire'["server"]) <= Answered'
    BY <2>3, <2>4, <2>5, OneMore
  <2> QED BY <2>3, <2>6 DEF RepliesOK, got
<1> QED BY <1>7, <1>8 DEF Node

LEMMA OneTaken ==
  ASSUME NEW r \in Nat, NEW l \in Nat, NEW a \in Nat, NEW m, m = l - 1, r + 0 + l <= a
  PROVE  r + 1 + m <= a
OBVIOUS

LEMMA AtLeast ==
  ASSUME NEW r \in Nat, NEW g \in Nat, NEW l \in Nat, NEW a \in Nat, r + g + l <= a
  PROVE  r <= a
OBVIOUS

LEMMA OneWritten ==
  ASSUME NEW r \in Nat, NEW l \in Nat, NEW a \in Nat, NEW m \in Nat, m <= l, r + 1 + l <= a
  PROVE  (r + 1) + 0 + m <= a
OBVIOUS

\* The client takes in a reply.
LEMMA ReceiveSomeAnswers ==
  ASSUME AnswerInv, NEW n \in Node, ReceiveSome(n)
  PROVE  RepliesOK'
<1>1. PICK k \in 1..(MessageLen(n) - at[n].count) : Taken(n, k) /\ Advance(n, k)
  BY DEF ReceiveSome
<1>2. /\ ~Ended(n) /\ at[n].label = (IF n = "client" THEN "reply" ELSE "move")
      /\ at[n].count < MessageLen(n) /\ state' = state /\ results' = results
  BY DEF ReceiveSome, Receiving, In
<1>3. TypeInv /\ RepliesOK
  BY DEF AnswerInv
<1>4. MessageLen(n) \in Nat /\ at[n].count \in Nat /\ k \in Nat /\ at[n].count + k <= MessageLen(n) /\ k > 0
  BY <1>1, <1>2, <1>3, LengthFacts
<1>5. /\ at'[n].pass = at[n].pass /\ at'[n].label = at[n].label /\ at'[n].count = at[n].count + k
      /\ \A m \in Node : m # n => at'[m] = at[m]
  <2> DEFINE c == at[n].count + k
  <2>1. c \in Nat /\ at' = [at EXCEPT ![n].count = c]
    BY <1>1, <1>2, <1>3, <1>4, Advanced
  <2> HIDE DEF c
  <2>2. at'[n].label = at[n].label /\ at'[n].pass = at[n].pass /\ at'[n].count = c /\ \A m \in Node : m # n => at'[m] = at[m]
    BY <1>2, <1>3, <2>1, Counted
  <2> QED BY <2>2 DEF c
<1>6. /\ wire' \in [Node -> Seq(Bytes)] /\ wire'[n] = wire[n]
      /\ Len(wire'[Peer(n)]) = Len(wire[Peer(n)]) - k
      /\ \A m \in Node : Len(wire'[m]) <= Len(wire[m])
  BY <1>1, <1>3, <1>4, TakenFacts
<1>7. CASE n = "server"
  <2>1. Answered' = Answered /\ at'["client"] = at["client"] /\ Len(wire'["server"]) <= Len(wire["server"])
    BY <1>2, <1>5, <1>6, <1>7 DEF Answered, Node
  <2> QED BY <1>2, <1>3, <1>6, <2>1, AnswersStay
<1>8. CASE n = "client"
  <2>1. at["client"].count = 0 /\ k = 1 /\ at["client"].label = "reply" /\ at'["client"].label = "reply"
        /\ at'["client"].count = 1
    BY <1>2, <1>4, <1>5, <1>8 DEF MessageLen
  <2>2. Answered' = Answered
    BY <1>5, <1>8 DEF Answered, Node
  <2>3. Len(wire'["server"]) = Len(wire["server"]) - 1 /\ Len(wire["server"]) \in Nat
    BY <1>3, <1>6, <1>8, <2>1 DEF Peer, TypeInv, Node
  <2>4. results \in Nat /\ Answered \in Nat
    BY <1>3, PassesFacts, AnswersTyped DEF TypeInv, TypeOK, Node
  <2>5. results + 0 + Len(wire["server"]) <= Answered
    BY <1>3, <2>1 DEF RepliesOK
  <2>6. results + 1 + Len(wire'["server"]) <= Answered
    BY <2>3, <2>4, <2>5, OneTaken
  <2> QED BY <1>2, <2>1, <2>2, <2>6 DEF RepliesOK
<1> QED BY <1>7, <1>8 DEF Node

\* A message is over, and it is not a reply.
LEMMA MoveOverAnswers ==
  ASSUME AnswerInv, NEW n \in Node, MoveOver(n)
  PROVE  RepliesOK'
<1>1. TypeInv /\ RepliesOK /\ at \in [Node -> Place] /\ wire \in [Node -> Seq(Bytes)]
  BY DEF AnswerInv, TypeInv, TypeOK
<1>2. /\ at[n].label = "move" /\ UNCHANGED <<results, wire>>
      /\ at' = [at EXCEPT ![n] = at'[n]]
  BY <1>1 DEF MoveOver, stream, NextMessage, Begin
<1>3. at'[n].pass = at[n].pass /\ at'[n].count = 0 /\ \A m \in Node : m # n => at'[m] = at[m]
  BY <1>1, <1>2, MoveOverTyped
<1>4. wire' \in [Node -> Seq(Bytes)] /\ Len(wire'["server"]) <= Len(wire["server"])
  BY <1>1, <1>2 DEF Node
<1>5. Answered' = Answered
  <2>1. CASE n = "server"
    BY <1>2, <1>3, <2>1 DEF Answered
  <2>2. CASE n = "client"
    BY <1>3, <2>2 DEF Answered, Node
  <2> QED BY <2>1, <2>2 DEF Node
<1>6. at'["client"].label = "reply" /\ at'["client"].count > 0 => at["client"].label = "reply" /\ at["client"].count > 0
  <2>1. CASE n = "client"
    BY <1>3, <2>1
  <2>2. CASE n = "server"
    BY <1>3, <2>2 DEF Node
  <2> QED BY <2>1, <2>2 DEF Node
<1> QED BY <1>1, <1>2, <1>4, <1>5, <1>6, AnswersStay

\* The end of a pass: a result of the client stands for the reply it has got.
LEMMA PassOverAnswers ==
  ASSUME AnswerInv, NEW n \in Node, PassOver(n)
  PROVE  RepliesOK'
<1>1. TypeInv /\ RepliesOK /\ wire \in [Node -> Seq(Bytes)] /\ TypeInv' /\ wire' \in [Node -> Seq(Bytes)]
  BY PassOverTyped DEF AnswerInv, TypeInv
<1>2. /\ at[n].label = "reply" /\ at[n].count > 0
      /\ at'[n].pass = at[n].pass + 1 /\ at'[n].label = "move"
      /\ \A m \in Node : m # n => at'[m] = at[m]
      /\ Len(wire'["server"]) <= Len(wire["server"])
  BY <1>1, PassOverTyped DEF Node
<1>3. results' = IF n = "client" THEN results + 1 ELSE results
  BY DEF PassOver
<1>4. Len(wire'["server"]) \in Nat /\ Len(wire["server"]) \in Nat
  BY <1>1 DEF Node
<1>5. results \in Nat /\ Answered \in Nat /\ at["server"].pass \in Nat
  BY <1>1, PassesFacts, AnswersTyped DEF TypeInv, TypeOK, Node, PosNat
<1>6. CASE n = "client"
  <2>1. Answered' = Answered
    BY <1>2, <1>6 DEF Answered, Node
  <2>2. results + 1 + Len(wire["server"]) <= Answered
    BY <1>1, <1>2, <1>6 DEF RepliesOK
  <2>3. results' = results + 1 /\ results' \in Nat
    BY <1>3, <1>5, <1>6
  <2>4. (results + 1) + 0 + Len(wire'["server"]) <= Answered
    BY <1>2, <1>4, <1>5, <2>2, OneWritten
  <2> QED BY <1>2, <1>6, <2>1, <2>3, <2>4 DEF RepliesOK
<1>7. CASE n = "server"
  <2>1. Answered' = Answered
    BY <1>2, <1>5, <1>7 DEF Answered
  <2>2. at'["client"] = at["client"] /\ results' = results
    BY <1>2, <1>3, <1>7 DEF Node
  <2> QED BY <1>1, <1>2, <2>1, <2>2, AnswersStay
<1> QED BY <1>6, <1>7 DEF Node

LEMMA AnswerInit ==
  ASSUME Init
  PROVE  AnswerInv
<1>1. /\ at = [n \in Node |-> [pass |-> 1, label |-> "start", off |-> 0, count |-> 0]]
      /\ state = [n \in Node |-> "running"] /\ little = <<>> /\ results = 0 /\ errors = 0
      /\ link = "none" /\ wire = [n \in Node |-> <<>>]
      /\ pending = [n \in Node |-> FALSE] /\ closed = [n \in Node |-> FALSE]
  BY DEF Init, StreamInit
<1>2. \A n \in Node : Len(Passes(n)) \in Nat /\ Len(Passes(n)) > 0
  BY PassesFacts
<1>3. \A n \in Node : /\ at[n].pass = 1 /\ at[n].label = "start" /\ at[n].off = 0 /\ at[n].count = 0
                      /\ at[n] \in Place /\ state[n] = "running" /\ wire[n] = <<>> /\ ~pending[n]
  BY <1>1 DEF Place, PosNat
<1>4. \A n \in Node : PlaceOK(n)
  BY <1>2, <1>3 DEF PlaceOK
<1>5. \A n \in Node : Len(wire[n]) = 0 /\ wire[n] \in Seq(Bytes)
  <2>1. Len(<<>>) = 0 /\ <<>> \in Seq(Bytes)
    OBVIOUS
  <2> QED BY <1>3, <2>1
<1>6. LinkOK
  BY <1>1, <1>3 DEF LinkOK, Node
<1>7. results \in 0..Len(Passes("client")) /\ errors \in 0..MaxErrors
  BY <1>1, <1>2, ConstantsAssumption DEF Node
<1>8. at \in [Node -> Place] /\ state \in [Node -> {"running", "done", "failed"}]
      /\ pending \in [Node -> BOOLEAN] /\ closed \in [Node -> BOOLEAN] /\ wire \in [Node -> Seq(Bytes)]
  <2>1. [pass |-> 1, label |-> "start", off |-> 0, count |-> 0] \in Place
    BY DEF Place, PosNat
  <2> QED BY <1>1, <1>5, <2>1
<1>9. ~In("server", "move")
  BY <1>3 DEF In, Node
<1>10. \A n \in Node : Len(wire[n]) <= Capacity
  BY <1>5, CapacityAssumption
<1>11. TypeOK
  BY <1>1, <1>7, <1>8, <1>9, <1>10 DEF TypeOK
<1>12. little \in Seq(Bytes \cup {Byte(0, 0)})
  BY <1>1
<1>13. results = at["client"].pass - 1
  BY <1>1, <1>3 DEF Node
<1>14. TypeInv
  BY <1>1, <1>4, <1>6, <1>8, <1>9, <1>11, <1>12, <1>13 DEF TypeInv
<1>15. Answered = 0
  BY <1>3 DEF Answered, Node
<1>16. RepliesOK
  BY <1>1, <1>3, <1>5, <1>15 DEF RepliesOK, Node
<1> QED BY <1>14, <1>16 DEF AnswerInv

\* A program that fails, or a connection that is lost.
LEMMA FailAnswers ==
  ASSUME AnswerInv, NEW n \in Node, ~Ended(n), Fail(n)
  PROVE  AnswerInv'
<1>1. TypeInv /\ RepliesOK /\ TypeInv'
  BY FailTyped DEF AnswerInv
<1>2. wire' \in [Node -> Seq(Bytes)] /\ Len(wire'["server"]) <= Len(wire["server"])
  BY <1>1, Closing DEF Fail, Node
<1>3. RepliesOK'
  BY <1>1, <1>2, AnswersRest DEF Fail
<1> QED BY <1>1, <1>3 DEF AnswerInv

LEMMA LoseAnswers ==
  ASSUME AnswerInv, LoseConnection
  PROVE  AnswerInv'
<1>1. TypeInv /\ RepliesOK /\ TypeInv' /\ Len(wire'["server"]) <= Len(wire["server"])
  BY LoseTyped DEF AnswerInv, Node
<1>2. RepliesOK'
  BY <1>1, AnswersRest DEF LoseConnection, TypeInv
<1> QED BY <1>1, <1>2 DEF AnswerInv

\* The constructors.
LEMMA StartAnswers ==
  ASSUME AnswerInv, Connect \/ Unresolved \/ Listen \/ Accept
  PROVE  AnswerInv'
<1>1. TypeInv /\ RepliesOK /\ TypeInv'
  BY ConnectTyped, ListenTyped, AcceptTyped DEF AnswerInv
<1>2. at \in [Node -> Place] /\ \A n \in Node : PlaceOK(n)
  BY <1>1 DEF TypeInv, TypeOK
<1>3. CASE Connect \/ Unresolved
  <2>1. at' = [at EXCEPT !["client"] = [pass |-> 1, label |-> "move", off |-> 0, count |-> 0]]
        /\ at["client"].label = "start" /\ UNCHANGED <<wire, results>>
    BY <1>3 DEF Connect, Unresolved, FirstPass, Begin, In, stream
  <2>2. at["client"].pass = 1 /\ at'["client"].pass = 1 /\ at'["client"].label = "move"
        /\ at'["server"] = at["server"]
    BY <1>2, <2>1 DEF PlaceOK, Node
  <2>3. RepliesOK'
    BY <1>1, <2>1, <2>2, AnswersAtStart DEF Node
  <2> QED BY <1>1, <2>3 DEF AnswerInv
<1>4. CASE Accept
  <2>1. at' = [at EXCEPT !["server"] = [pass |-> 1, label |-> "move", off |-> 0, count |-> 0]]
        /\ at["server"].label = "accept" /\ UNCHANGED <<wire, results>>
    BY <1>4 DEF Accept, FirstPass, Begin, In, stream
  <2>2. at["server"].pass = 1 /\ at'["server"].pass = 1 /\ at'["server"].label = "move"
        /\ at'["client"] = at["client"]
    BY <1>2, <2>1 DEF PlaceOK, Node
  <2>3. RepliesOK'
    BY <1>1, <2>1, <2>2, AnswersAtStart DEF Node
  <2> QED BY <1>1, <2>3 DEF AnswerInv
<1>5. CASE Listen
  <2>1. at' = [at EXCEPT !["server"].label = "accept"]
        /\ at["server"].label = "start" /\ UNCHANGED <<wire, results>>
    BY <1>5 DEF Listen, In
  <2>2. at'["server"].pass = at["server"].pass /\ at'["server"].label = "accept"
        /\ at'["client"] = at["client"]
    BY <1>2, <2>1 DEF Place, Node
  <2>3. RepliesOK'
    BY <1>1, <2>1, <2>2, AnswersAtStart DEF Node
  <2> QED BY <1>1, <2>3 DEF AnswerInv
<1> QED BY <1>3, <1>4, <1>5

LEMMA AcceptFailsAnswers ==
  ASSUME AnswerInv, AcceptFails
  PROVE  AnswerInv'
<1>1. TypeInv /\ RepliesOK /\ TypeInv' /\ UNCHANGED <<at, results>>
  BY AcceptFailsTyped DEF AnswerInv, AcceptFails
<1>2. wire' \in [Node -> Seq(Bytes)] /\ Len(wire'["server"]) <= Len(wire["server"])
  <2>1. CASE link = "listening"
    BY <1>1, <2>1 DEF AcceptFails, TypeInv, Node
  <2>2. CASE link # "listening"
    BY <1>1, <2>2, Closing DEF AcceptFails, Node
  <2> QED BY <2>1, <2>2
<1>3. RepliesOK'
  BY <1>1, <1>2, AnswersRest
<1> QED BY <1>1, <1>3 DEF AnswerInv

LEMMA ProgramAnswers ==
  ASSUME AnswerInv, NEW n \in Node, Program(n)
  PROVE  AnswerInv'
<1>1. TypeInv
  BY DEF AnswerInv
<1>2. CASE SendSome(n)
  BY <1>1, <1>2, SendSomeTyped, SendSomeAnswers DEF AnswerInv
<1>3. CASE SendFails(n)
  BY <1>1, <1>3, SendFailsTyped, SendFailsAnswers DEF AnswerInv
<1>4. CASE SendKills(n)
  BY <1>4, FailAnswers DEF SendKills, Sending, In
<1>5. CASE ReceiveSome(n)
  BY <1>1, <1>5, ReceiveSomeTyped, ReceiveSomeAnswers DEF AnswerInv
<1>6. CASE ReceiveFails(n)
  BY <1>6, FailAnswers DEF ReceiveFails, Receiving, In
<1>7. CASE MoveOver(n)
  BY <1>1, <1>7, MoveOverTyped, MoveOverAnswers DEF AnswerInv
<1>8. CASE PassOver(n)
  BY <1>1, <1>8, PassOverTyped, PassOverAnswers DEF AnswerInv
<1> QED BY <1>2, <1>3, <1>4, <1>5, <1>6, <1>7, <1>8 DEF Program

LEMMA AnswerStep ==
  ASSUME AnswerInv, [Next]_vars
  PROVE  AnswerInv'
<1>1. ASSUME NEW n \in Node, Program(n) PROVE AnswerInv'
  BY <1>1, ProgramAnswers
<1>2. CASE Connect \/ Unresolved \/ Listen \/ Accept
  BY <1>2, StartAnswers
<1>3. CASE ConnectRefused \/ ConnectFails \/ ListenFails
  <2>1. \E n \in Node : ~Ended(n) /\ Fail(n)
    BY <1>3 DEF ConnectRefused, ConnectFails, ListenFails, In, Node
  <2> QED BY <2>1, FailAnswers
<1>4. CASE AcceptFails
  BY <1>4, AcceptFailsAnswers
<1>5. CASE LoseConnection
  BY <1>5, LoseAnswers
<1>6. CASE UNCHANGED vars
  <2>1. UNCHANGED <<at, state, little, results, errors, link, wire, pending, closed>>
    BY <1>6 DEF vars, stream
  <2>2. TypeInv /\ RepliesOK
    BY DEF AnswerInv
  <2>3. \A n \in Node : PlaceOK(n)' <=> PlaceOK(n)
    BY <2>1, Stays
  <2>4. TypeOK' /\ LinkOK' /\ (In("server", "move")' <=> In("server", "move")) /\ MessageLen("server")' = MessageLen("server")
    BY <2>1, <2>2, Stays DEF TypeInv, TypeOK, LinkOK, Node
  <2>5. TypeInv'
    BY <2>1, <2>2, <2>3, <2>4 DEF TypeInv
  <2>6. RepliesOK'
    BY <2>1, <2>2 DEF RepliesOK, Answered
  <2> QED BY <2>5, <2>6 DEF AnswerInv
<1> QED BY <1>1, <1>2, <1>3, <1>4, <1>5, <1>6 DEF Next, Client, Server, Node

\* The inductive invariant of the first part: the types, and that replies under
\* way or just received are answers of the server no result stands for yet.
THEOREM AnswersInvariant == Spec => []AnswerInv
<1>1. Init => AnswerInv
  BY AnswerInit
<1>2. AnswerInv /\ [Next]_vars => AnswerInv'
  BY AnswerStep
<1> QED BY <1>1, <1>2, PTL DEF Spec

\* The type invariant of TcpBench, with whatever arguments and whatever fails.
THEOREM TypeCorrect == Spec => []TypeOK
<1>1. AnswerInv => TypeOK
  BY DEF AnswerInv, TypeInv
<1> QED BY <1>1, AnswersInvariant, PTL

LEMMA AnsweredFirst == AnswerInv => NoResultWithoutAnswer
<1>1. SUFFICES ASSUME AnswerInv PROVE NoResultWithoutAnswer
  OBVIOUS
<1>2. results \in Nat /\ Answered \in Nat /\ Len(wire["server"]) \in Nat
  BY <1>1, PassesFacts, AnswersTyped DEF AnswerInv, TypeInv, TypeOK, Node
<1> DEFINE got == IF at["client"].label = "reply" /\ at["client"].count > 0 THEN 1 ELSE 0
<1>3. got \in Nat /\ results + got + Len(wire["server"]) <= Answered
  BY <1>1 DEF AnswerInv, RepliesOK
<1> HIDE DEF got
<1>4. results <= Answered
  BY <1>2, <1>3, AtLeast
<1> QED BY <1>4 DEF NoResultWithoutAnswer

\* A line in the client's results files stands for an answer of the server,
\* with whatever arguments the two were started and whatever fails.
THEOREM NoResultUnanswered == Spec => []NoResultWithoutAnswer
BY AnsweredFirst, AnswersInvariant, PTL

-----------------------------------------------------------------------------
(* What a program moves, pass by pass.                                     *)

LEMMA LoadFacts ==
  ASSUME NEW n \in Node, NEW p \in 1..Len(Passes(n))
  PROVE  Load(n, p) \in Nat /\ Load(n, p) > 0
<1>1. /\ Passes(n)[p].size \in Nat /\ Passes(n)[p].size > 0
      /\ DataSize[n] \in Nat /\ DataSize[n] > 0 /\ NumLoops \in Nat /\ NumLoops > 0
  BY PassesFacts, ConstantsAssumption DEF PosNat
<1> DEFINE b == Passes(n)[p].size
<1>2. NumLoops * b \in Nat /\ NumLoops * b > 0
  <2> HIDE DEF b
  <2>1. b \in Nat /\ b > 0
    BY <1>1 DEF b
  <2> QED BY <1>1, <2>1
<1> QED BY <1>1, <1>2 DEF Load

\* Where a program is in the data of its pass.
LEMMA MovedFacts ==
  ASSUME TypeInv, NEW n \in Node, at[n].label = "move", at[n].pass <= Len(Passes(n)), state[n] # "done"
  PROVE  /\ Moved(n) = Index(n, at[n].count)
         /\ \A i \in Nat : Index(n, i) = Index(n, 0) + i /\ Index(n, i) \in Nat
         /\ Index(n, MessageLen(n)) <= Load(n, at[n].pass)
         /\ ~MoreMessages(n) => Index(n, MessageLen(n)) = Load(n, at[n].pass)
         /\ at[n].count \in Nat /\ MessageLen(n) \in Nat /\ at[n].off \in Nat /\ Size(n) \in Nat /\ Size(n) > 0
         /\ at[n].pass \in 1..Len(Passes(n))
<1> DEFINE b == Size(n)
           o == at[n].off
           base == IF Test(n) = "throughput" THEN o ELSE o * b
<1>1. /\ b \in Nat /\ b > 0 /\ Test(n) \in {"throughput", "latency"} /\ o \in Nat /\ at[n].count \in Nat
      /\ at[n].pass \in PosNat /\ MessageLen(n) \in Nat /\ MessageLen(n) <= b
      /\ Test(n) = "throughput" => o + MessageLen(n) <= DataSize[n]
      /\ ~MoreMessages(n) => Index(n, MessageLen(n)) = (IF Test(n) = "throughput" THEN DataSize[n] ELSE NumLoops * b)
  BY MessageFacts
<1>2. at[n].pass \in 1..Len(Passes(n)) /\ PlaceOK(n)
  BY <1>1, PassesFacts DEF PosNat, TypeInv
<1>3. Load(n, at[n].pass) = IF Test(n) = "throughput" THEN DataSize[n] ELSE NumLoops * b
  BY DEF Load, Test, Size
<1>4. \A i \in Nat : Index(n, i) = base + i
  BY DEF Index
<1>5. base \in Nat
  <2>1. o * b \in Nat
    BY <1>1
  <2> QED BY <1>1, <2>1
<1> HIDE DEF base
<1>6. Index(n, MessageLen(n)) <= Load(n, at[n].pass)
  <2>1. CASE Test(n) = "throughput"
    <3>1. base = o
      BY <2>1 DEF base
    <3> QED BY <1>1, <1>3, <1>4, <2>1, <3>1
  <2>2. CASE Test(n) # "throughput"
    <3>1. base = o * b /\ MessageLen(n) = b
      BY <2>2 DEF base, MessageLen
    <3>2. o < NumLoops /\ NumLoops \in Nat
      BY <1>2, <2>2, ConstantsAssumption DEF PlaceOK, PosNat
    <3>3. o * b + b <= NumLoops * b
      <4> HIDE DEF o, b
      <4>1. PICK m \in Nat : NumLoops = (o + 1) + m
        <5>1. o \in Nat
          BY <1>1
        <5>2. NumLoops - (o + 1) \in Nat
          BY <3>2, <5>1
        <5>3. NumLoops = (o + 1) + (NumLoops - (o + 1))
          BY <3>2, <5>1
        <5> QED BY <5>2, <5>3
      <4>2. NumLoops * b = (o * b + b) + m * b /\ m * b \in Nat /\ o * b \in Nat
        BY <1>1, <4>1
      <4> QED BY <1>1, <4>2
    <3> QED BY <1>1, <1>3, <1>4, <2>2, <3>1, <3>3
  <2> QED BY <2>1, <2>2
<1>7. Moved(n) = Index(n, at[n].count)
  BY DEF Moved
<1>8. \A i \in Nat : Index(n, i) = Index(n, 0) + i /\ Index(n, i) \in Nat
  <2>1. Index(n, 0) = base + 0
    BY <1>4
  <2> SUFFICES ASSUME NEW i \in Nat PROVE Index(n, i) = Index(n, 0) + i /\ Index(n, i) \in Nat
    OBVIOUS
  <2>2. Index(n, i) = base + i
    BY <1>4
  <2> QED BY <1>5, <2>1, <2>2
<1> QED BY <1>1, <1>2, <1>3, <1>6, <1>7, <1>8

\* Going on to the next message moves nothing.
LEMMA MovedOver ==
  ASSUME TypeInv, NEW n \in Node, MoveOver(n), at[n].count = MessageLen(n)
  PROVE  Moved(n)' = Moved(n)
<1>1. /\ state[n] = "running" /\ at[n].label = "move" /\ state' = state /\ ~Ended(n)
  BY DEF MoveOver, MessageOver, Ended, TypeInv, TypeOK
<1>2. /\ at'[n].pass = at[n].pass /\ at'[n].count = 0
      /\ IF MoreMessages(n)
         THEN /\ at'[n].label = "move"
              /\ at'[n].off = at[n].off + (IF Test(n) = "throughput" THEN Size(n) ELSE 1)
         ELSE at'[n].label = "reply" /\ at'[n].off = 0
  BY MoveOverTyped
<1>3. at[n].pass <= Len(Passes(n))
  BY <1>1, LengthFacts, PassesFacts
<1>4. /\ Moved(n) = Index(n, MessageLen(n))
      /\ ~MoreMessages(n) => Index(n, MessageLen(n)) = Load(n, at[n].pass)
      /\ Size(n) \in Nat /\ at[n].off \in Nat
  BY <1>1, <1>3, MovedFacts
<1>5. Test(n)' = Test(n) /\ Size(n)' = Size(n)
  BY <1>2 DEF Test, Size
<1>6. CASE MoreMessages(n)
  <2>1. MessageLen(n) = Size(n)
    BY <1>1, <1>3, <1>6, MessageFacts
  <2>2. Moved(n)' = (IF Test(n) = "throughput" THEN at'[n].off ELSE at'[n].off * Size(n)) + 0
    BY <1>2, <1>5, <1>6 DEF Moved, Index
  <2>3. Moved(n) = (IF Test(n) = "throughput" THEN at[n].off ELSE at[n].off * Size(n)) + Size(n)
    BY <1>4, <2>1 DEF Index
  <2>4. CASE Test(n) = "throughput"
    BY <1>2, <1>4, <1>6, <2>2, <2>3, <2>4
  <2>5. CASE Test(n) # "throughput"
    <3> DEFINE o == at[n].off
               b == Size(n)
    <3>1. o \in Nat /\ b \in Nat
      BY <1>4
    <3>2. Moved(n)' = (o + 1) * b + 0 /\ Moved(n) = o * b + b
      BY <1>2, <1>6, <2>2, <2>3, <2>5
    <3> HIDE DEF o, b
    <3>3. (o + 1) * b + 0 = o * b + b
      BY <3>1
    <3> QED BY <3>2, <3>3
  <2> QED BY <2>4, <2>5
<1>7. CASE ~MoreMessages(n)
  <2>1. Moved(n)' = Load(n, at'[n].pass)
    BY <1>2, <1>7 DEF Moved
  <2> QED BY <1>2, <1>4, <1>7, <2>1
<1> QED BY <1>6, <1>7

-----------------------------------------------------------------------------
(* The bytes of the passes before one.                                     *)

LEMMA EarlierFinite ==
  ASSUME NEW n \in Node, NEW p \in PosNat, p <= Len(Passes(n)) + 1
  PROVE  IsFiniteSet(Earlier(n, p)) /\ Before(n, p) \in Nat
<1> DEFINE Of(q) == {q} \X (0..(Load(n, q) - 1))
<1>1. p \in Int /\ p - 1 \in Int /\ Len(Passes(n)) \in Nat
  BY PassesFacts DEF PosNat
<1>2. \A q \in 1..(p - 1) : IsFiniteSet(Of(q))
  <2> SUFFICES ASSUME NEW q \in 1..(p - 1) PROVE IsFiniteSet(Of(q))
    OBVIOUS
  <2>1. q \in 1..Len(Passes(n))
    BY <1>1
  <2>2. 0 \in Int /\ Load(n, q) - 1 \in Int
    BY <2>1, LoadFacts
  <2>3. IsFiniteSet(0..(Load(n, q) - 1)) /\ IsFiniteSet({q})
    BY <2>2, FS_Interval, FS_Singleton
  <2> QED BY <2>3, FS_Product
<1> HIDE DEF Of
<1>3. IsFiniteSet(1..(p - 1))
  BY <1>1, FS_Interval
<1> DEFINE All == {Of(q) : q \in 1..(p - 1)}
<1>4. IsFiniteSet(All)
  <2> DEFINE f == [q \in 1..(p - 1) |-> Of(q)]
  <2>1. f \in Surjection(1..(p - 1), All)
    BY DEF Surjection
  <2> QED BY <1>3, <2>1, FS_Surjection
<1>5. \A T \in All : IsFiniteSet(T)
  BY <1>2
<1> HIDE DEF All
<1>6. IsFiniteSet(UNION All)
  BY <1>4, <1>5, FS_UNION
<1>7. Earlier(n, p) = UNION All
  BY DEF Earlier, All, Of
<1> QED BY <1>6, <1>7, FS_CardinalityType DEF Before

LEMMA BeforeFirst ==
  ASSUME NEW n \in Node
  PROVE  Before(n, 1) = 0
<1>1. 1..(1 - 1) = {}
  OBVIOUS
<1>2. Earlier(n, 1) = {}
  BY <1>1 DEF Earlier
<1> QED BY <1>2, FS_EmptySet DEF Before

LEMMA BeforeNext ==
  ASSUME NEW n \in Node, NEW p \in 1..Len(Passes(n))
  PROVE  Before(n, p + 1) = Before(n, p) + Load(n, p)
<1> DEFINE New == {p} \X (0..(Load(n, p) - 1))
<1>1. p \in PosNat /\ p + 1 \in PosNat /\ p <= Len(Passes(n)) + 1 /\ p + 1 <= Len(Passes(n)) + 1 /\ p \in Nat
  BY PassesFacts DEF PosNat
<1>2. IsFiniteSet(Earlier(n, p)) /\ Before(n, p) \in Nat /\ IsFiniteSet(Earlier(n, p + 1))
  BY <1>1, EarlierFinite
<1>3. IsFiniteSet(New) /\ Cardinality(New) = Load(n, p)
  <2>1. Load(n, p) \in Nat /\ Load(n, p) > 0
    BY LoadFacts
  <2> DEFINE l == Load(n, p)
  <2> HIDE DEF l
  <2>2. IsFiniteSet(0..(l - 1)) /\ Cardinality(0..(l - 1)) = l
    <3>1. 0 \in Int /\ l - 1 \in Int /\ ~(0 > l - 1) /\ (l - 1) - 0 + 1 = l
      BY <2>1 DEF l
    <3> QED BY <3>1, FS_Interval
  <2>3. IsFiniteSet({p}) /\ Cardinality({p}) = 1
    BY FS_Singleton
  <2>4. IsFiniteSet({p} \X (0..(l - 1))) /\ Cardinality({p} \X (0..(l - 1))) = 1 * l
    BY <2>2, <2>3, FS_Product
  <2> QED BY <2>1, <2>4 DEF l
<1>4. Earlier(n, p + 1) = Earlier(n, p) \cup New
  <2> DEFINE Of(q) == {q} \X (0..(Load(n, q) - 1))
  <2> HIDE DEF Of
  <2>1. 1..((p + 1) - 1) = (1..(p - 1)) \cup {p}
    BY <1>1
  <2>2. UNION {Of(q) : q \in (1..(p - 1)) \cup {p}} = (UNION {Of(q) : q \in 1..(p - 1)}) \cup Of(p)
    OBVIOUS
  <2> QED BY <2>1, <2>2 DEF Earlier, Of
<1>5. Earlier(n, p) \cap New = {}
  <2> SUFFICES ASSUME NEW x, x \in Earlier(n, p), x \in New PROVE FALSE
    OBVIOUS
  <2>1. PICK q \in 1..(p - 1) : x \in {q} \X (0..(Load(n, q) - 1))
    BY DEF Earlier
  <2>2. x[1] = q /\ x[1] = p
    BY <2>1
  <2> QED BY <1>1, <2>1, <2>2
<1> HIDE DEF New
<1>6. Cardinality(Earlier(n, p) \cup New)
        = Cardinality(Earlier(n, p)) + Cardinality(New) - Cardinality({})
  BY <1>2, <1>3, <1>5, FS_Union
<1>7. Cardinality({}) = 0
  BY FS_EmptySet
<1>8. Before(n, p + 1) = Before(n, p) + Load(n, p) - 0
  BY <1>3, <1>4, <1>6, <1>7 DEF Before
<1> QED BY <1>2, <1>8, LoadFacts

\* The bytes before a pass are among those before a later one.
LEMMA BeforeLater ==
  ASSUME NEW n \in Node, NEW p \in PosNat, NEW q \in PosNat, p <= q, q <= Len(Passes(n)) + 1
  PROVE  Before(n, p) <= Before(n, q)
<1>1. IsFiniteSet(Earlier(n, q))
  BY EarlierFinite
<1>2. 1..(p - 1) \subseteq 1..(q - 1)
  BY DEF PosNat
<1>3. Earlier(n, p) \in SUBSET Earlier(n, q)
  BY <1>2 DEF Earlier
<1> QED BY <1>1, <1>3, FS_Subset DEF Before

\* A server that wants less has less in every pass, and before it; one that wants
\* as much has as much.
LEMMA BeforeLess ==
  ASSUME ServerWantsLess, NEW p \in 1..Len(Passes("client"))
  PROVE  /\ Passes("server") = Passes("client")
         /\ Load("server", p) <= Load("client", p)
         /\ Before("server", p) <= Before("client", p)
         /\ DataSize["server"] = DataSize["client"] =>
              Load("server", p) = Load("client", p) /\ Before("server", p) = Before("client", p)
<1>1. Passes("server") = Passes("client")
  BY DEF ServerWantsLess, Passes
<1>2. \A q \in 1..Len(Passes("client")) :
        /\ Load("server", q) \in Nat /\ Load("client", q) \in Nat
        /\ Load("server", q) <= Load("client", q)
  <2> SUFFICES ASSUME NEW q \in 1..Len(Passes("client"))
               PROVE  /\ Load("server", q) \in Nat /\ Load("client", q) \in Nat
                      /\ Load("server", q) <= Load("client", q)
    OBVIOUS
  <2>1. Load("server", q) \in Nat /\ Load("client", q) \in Nat
    BY <1>1, LoadFacts DEF Node
  <2> QED BY <1>1, <2>1 DEF Load, ServerWantsLess
<1>3. p \in PosNat /\ p <= Len(Passes("client")) + 1 /\ p \in Nat /\ Len(Passes("client")) \in Nat
  BY PassesFacts DEF PosNat, Node
<1>4. IsFiniteSet(Earlier("client", p))
  BY <1>3, EarlierFinite DEF Node
<1>5. Earlier("server", p) \in SUBSET Earlier("client", p)
  <2> SUFFICES ASSUME NEW x \in Earlier("server", p) PROVE x \in Earlier("client", p)
    OBVIOUS
  <2>1. PICK q \in 1..(p - 1) : x \in {q} \X (0..(Load("server", q) - 1))
    BY DEF Earlier
  <2>2. q \in 1..Len(Passes("client"))
    BY <1>3
  <2>3. 0..(Load("server", q) - 1) \subseteq 0..(Load("client", q) - 1)
    BY <1>2, <2>2
  <2>4. x \in {q} \X (0..(Load("client", q) - 1))
    BY <2>1, <2>3
  <2> QED BY <2>4 DEF Earlier
<1>6. Before("server", p) <= Before("client", p)
  BY <1>4, <1>5, FS_Subset DEF Before
<1>7. ASSUME DataSize["server"] = DataSize["client"]
      PROVE  Load("server", p) = Load("client", p) /\ Before("server", p) = Before("client", p)
  <2>1. \A q \in 1..Len(Passes("client")) : Load("server", q) = Load("client", q)
    BY <1>1, <1>7 DEF Load
  <2>2. \A q \in 1..(p - 1) : q \in 1..Len(Passes("client"))
    BY <1>3
  <2>3. Earlier("server", p) = Earlier("client", p)
    BY <2>1, <2>2 DEF Earlier
  <2> QED BY <2>1, <2>3 DEF Before
<1> QED BY <1>1, <1>2, <1>6, <1>7

-----------------------------------------------------------------------------
(* Counting: what one has sent the other has, or finds in the stream.      *)

LEMMA Running ==
  ASSUME Counting, NEW n \in Node
  PROVE  ~Ended(n) /\ state[n] = "running" /\ state[n] # "done" /\ link = "up" /\ errors = 0
BY DEF Counting, Ended

LEMMA PositionFacts ==
  ASSUME TypeInv, NEW n \in Node, ~Ended(n)
  PROVE  /\ Before(n, at[n].pass) \in Nat /\ Moved(n) \in Nat /\ Position(n) \in Nat
         /\ at[n].pass \in 1..Len(Passes(n)) /\ at[n].count \in Nat
<1>1. state[n] = "running" /\ at[n] \in Place /\ PlaceOK(n)
  BY DEF TypeInv, TypeOK, Ended
<1>2. at[n].pass \in 1..Len(Passes(n)) /\ at[n].pass \in PosNat /\ at[n].count \in Nat
      /\ at[n].pass <= Len(Passes(n)) /\ at[n].pass <= Len(Passes(n)) + 1
  BY <1>1, PassesFacts DEF Place, PlaceOK, PosNat
<1>3. Before(n, at[n].pass) \in Nat
  BY <1>2, EarlierFinite
<1>4. Moved(n) \in Nat
  <2>1. CASE at[n].label = "move"
    BY <1>1, <1>2, <2>1, MovedFacts
  <2>2. CASE at[n].label = "reply"
    BY <1>2, <2>2, LoadFacts DEF Moved
  <2>3. CASE at[n].label \notin {"move", "reply"}
    BY <2>3 DEF Moved
  <2> QED BY <2>1, <2>2, <2>3
<1> QED BY <1>2, <1>3, <1>4 DEF Position

\* A program has not moved more than the passes up to the one it is in.
LEMMA PositionBound ==
  ASSUME TypeInv, NEW n \in Node, ~Ended(n), at[n].label \in {"move", "reply"},
         at[n].count <= MessageLen(n)
  PROVE  Position(n) <= Before(n, at[n].pass + 1)
<1>1. /\ at[n].pass \in 1..Len(Passes(n)) /\ at[n].pass \in PosNat /\ at[n].count \in Nat
      /\ Before(n, at[n].pass) \in Nat /\ Moved(n) \in Nat
  BY PositionFacts DEF PosNat
<1>2. Load(n, at[n].pass) \in Nat
  BY <1>1, LoadFacts
<1>3. Moved(n) <= Load(n, at[n].pass)
  <2>1. CASE at[n].label = "reply"
    BY <1>2, <2>1 DEF Moved
  <2>2. CASE at[n].label = "move"
    <3>1. at[n].pass <= Len(Passes(n)) /\ state[n] # "done"
      BY <1>1, PassesFacts DEF Ended
    <3>2. /\ Moved(n) = Index(n, at[n].count) /\ Index(n, MessageLen(n)) <= Load(n, at[n].pass)
          /\ \A i \in Nat : Index(n, i) = Index(n, 0) + i /\ Index(n, i) \in Nat
          /\ MessageLen(n) \in Nat
      BY <2>2, <3>1, MovedFacts
    <3>3. Index(n, at[n].count) <= Index(n, MessageLen(n))
      BY <1>1, <3>2
    <3> QED BY <1>1, <1>2, <3>2, <3>3
  <2> QED BY <2>1, <2>2
<1>4. Before(n, at[n].pass + 1) = Before(n, at[n].pass) + Load(n, at[n].pass)
  BY <1>1, BeforeNext
<1> QED BY <1>1, <1>2, <1>3, <1>4 DEF Position

LEMMA CountingFacts ==
  ASSUME AnswerInv, CountsOK, Counting
  PROVE  /\ \A n \in Node : /\ Position(n) \in Nat /\ Len(wire[n]) \in Nat /\ wire[n] \in Seq(Bytes)
                            /\ at[n].label \in {"move", "reply"} => at[n].count <= MessageLen(n)
         /\ Answered \in Nat /\ results \in Nat /\ Unwritten \in {0, 1}
         /\ Position("client") = Position("server") + Len(wire["client"])
         /\ Answered = results + Unwritten + Len(wire["server"])
<1>1. TypeInv /\ wire \in [Node -> Seq(Bytes)] /\ at \in [Node -> Place]
  BY DEF AnswerInv, TypeInv, TypeOK
<1>2. \A n \in Node : Position(n) \in Nat
  BY <1>1, Running, PositionFacts
<1>3. results \in Nat /\ Answered \in Nat
  BY <1>1, PassesFacts, AnswersTyped DEF TypeInv, TypeOK, Node
<1>4. Unwritten \in {0, 1}
  BY DEF Unwritten
<1>5. /\ \A n \in Node : at[n].label \in {"move", "reply"} => at[n].count <= MessageLen(n)
      /\ Position("client") = Position("server") + Len(wire["client"])
      /\ Answered = results + Unwritten + Len(wire["server"])
  BY DEF CountsOK
<1>6. \A n \in Node : Len(wire[n]) \in Nat /\ wire[n] \in Seq(Bytes)
  BY <1>1
<1> QED BY <1>2, <1>3, <1>4, <1>5, <1>6

LEMMA PositionStays ==
  ASSUME NEW n \in Node, at'[n] = at[n]
  PROVE  Position(n)' = Position(n)
<1>1. Moved(n)' = Moved(n)
  BY DEF Moved, Index, Test, Size
<1> QED BY <1>1 DEF Position

\* A program that moves k bytes of its pass, and one that moves a reply.
LEMMA PositionAdvances ==
  ASSUME TypeInv, NEW n \in Node, ~Ended(n), at[n].label = "move", NEW k \in Nat,
         at' = [at EXCEPT ![n].count = at[n].count + k], state' = state
  PROVE  Position(n)' = Position(n) + k
<1>1. /\ at[n].count \in Nat /\ Before(n, at[n].pass) \in Nat /\ Moved(n) \in Nat
      /\ at[n].pass <= Len(Passes(n)) /\ state[n] # "done"
  BY PositionFacts, PassesFacts DEF Ended
<1> DEFINE c == at[n].count + k
<1>2. c \in Nat /\ at' = [at EXCEPT ![n].count = c]
  BY <1>1
<1> HIDE DEF c
<1>3. at'[n].pass = at[n].pass /\ at'[n].label = "move" /\ at'[n].off = at[n].off /\ at'[n].count = c
      /\ Test(n)' = Test(n) /\ Size(n)' = Size(n)
  BY <1>2, Counted
<1>4. Moved(n)' = Index(n, c)
  BY <1>3 DEF Moved, Index
<1>5. Moved(n) = Index(n, 0) + at[n].count /\ Index(n, c) = Index(n, 0) + c /\ Index(n, 0) \in Nat
  BY <1>1, <1>2, MovedFacts
<1>6. Moved(n)' = Moved(n) + k
  BY <1>1, <1>4, <1>5 DEF c
<1>7. Position(n)' = Before(n, at[n].pass) + Moved(n)'
  BY <1>3 DEF Position
<1> QED BY <1>1, <1>6, <1>7 DEF Position

LEMMA PositionInReply ==
  ASSUME NEW n \in Node, at[n].label = "reply", at'[n].label = "reply", at'[n].pass = at[n].pass
  PROVE  Position(n)' = Position(n)
BY DEF Position, Moved

\* The end of a message, and of a pass.
LEMMA PositionOver ==
  ASSUME TypeInv, NEW n \in Node, MoveOver(n), at[n].count = MessageLen(n)
  PROVE  Position(n)' = Position(n)
<1>1. at'[n].pass = at[n].pass /\ Moved(n)' = Moved(n)
  BY MoveOverTyped, MovedOver
<1> QED BY <1>1 DEF Position

LEMMA PositionNext ==
  ASSUME TypeInv, NEW n \in Node, PassOver(n), ~Ended(n)'
  PROVE  Position(n)' = Position(n)
<1>1. /\ ~Ended(n) /\ at[n].label = "reply" /\ at'[n].pass = at[n].pass + 1 /\ at'[n].label = "move"
      /\ at'[n].off = 0 /\ at'[n].count = 0
  BY PassOverTyped
<1>2. at[n].pass \in 1..Len(Passes(n)) /\ Before(n, at[n].pass) \in Nat
  BY <1>1, PositionFacts
<1>3. Position(n) = Before(n, at[n].pass) + Load(n, at[n].pass) /\ Load(n, at[n].pass) \in Nat
  BY <1>1, <1>2, LoadFacts DEF Position, Moved
<1>4. Before(n, at[n].pass + 1) = Before(n, at[n].pass) + Load(n, at[n].pass)
  BY <1>2, BeforeNext
<1>5. Moved(n)' = 0
  <2>1. at[n].pass + 1 \in 1..Len(Passes(n))
    <3>1. at[n].pass < Len(Passes(n))
      BY PassOverTyped DEF Ended
    <3> QED BY <1>2, <3>1, PassesFacts
  <2>2. Size(n)' \in Nat
    BY <1>1, <2>1, PassesFacts DEF Size, PosNat
  <2> QED BY <1>1, <2>2 DEF Moved, Index
<1>6. Position(n)' = Before(n, at[n].pass + 1) + 0
  BY <1>1, <1>5 DEF Position
<1> QED BY <1>2, <1>3, <1>4, <1>6

LEMMA Lengthened ==
  ASSUME NEW S, NEW x \in Seq(S), NEW k \in Nat, NEW b, b = [i \in 1..k |-> b[i]]
  PROVE  Len(x \o b) = Len(x) + k
<1> DEFINE T == {b[i] : i \in 1..k} \cup S
<1>1. b \in [1..k -> T]
  OBVIOUS
<1>2. b \in Seq(T) /\ Len(b) = k /\ x \in Seq(T)
  <2> HIDE DEF T
  <2>1. S \subseteq T
    BY DEF T
  <2>2. b \in Seq(T) /\ Len(b) = k
    BY <1>1
  <2>3. x \in Seq(T)
    BY <2>1
  <2> QED BY <2>2, <2>3
<1> HIDE DEF T
<1> QED BY <1>2

LEMMA OneSent ==
  ASSUME NEW r \in Nat, NEW g \in Nat, NEW l \in Nat
  PROVE  r + g + (l + 1) = (r + g + l) + 1
OBVIOUS

LEMMA OneCounted ==
  ASSUME NEW r \in Nat, NEW l \in Nat
  PROVE  r + 1 + (l - 1) = r + 0 + l
OBVIOUS

LEMMA SendSomeCounts ==
  ASSUME AnswerInv, CountsOK, NEW n \in Node, SendSome(n)
  PROVE  CountsOK'
<1>1. TypeInv /\ wire \in [Node -> Seq(Bytes)]
  BY DEF AnswerInv, TypeInv
<1>2. /\ ~Ended(n) /\ link = "up" /\ at[n].label = (IF n = "client" THEN "move" ELSE "reply")
      /\ UNCHANGED <<state, results, errors>>
  BY <1>1, SentFacts
<1>3. PICK k \in Nat :
        /\ 0 < k /\ at[n].count + k <= MessageLen(n) /\ at[n].count + k \in Nat
        /\ at' = [at EXCEPT ![n].count = at[n].count + k]
        /\ \/ link' = "reset"
           \/ wire' = [wire EXCEPT ![n] = @ \o [i \in 1..k |-> OutByte(n, at[n].count + i - 1)]]
  BY <1>1, SentFacts
<1>4. SUFFICES ASSUME Counting' PROVE CountsOK'
  BY DEF CountsOK
<1>5. Counting
  BY <1>2, <1>4 DEF Counting, Ended
<1>6. /\ \A m \in Node : /\ Position(m) \in Nat /\ Len(wire[m]) \in Nat /\ wire[m] \in Seq(Bytes)
                         /\ at[m].label \in {"move", "reply"} => at[m].count <= MessageLen(m)
      /\ Answered \in Nat /\ results \in Nat /\ Unwritten \in {0, 1}
      /\ Position("client") = Position("server") + Len(wire["client"])
      /\ Answered = results + Unwritten + Len(wire["server"])
  BY <1>5, CountingFacts
<1>7. /\ at'[n].label = at[n].label /\ at'[n].pass = at[n].pass /\ at'[n].count = at[n].count + k
      /\ MessageLen(n)' = MessageLen(n) /\ \A m \in Node : m # n => at'[m] = at[m]
  <2> DEFINE c == at[n].count + k
  <2>1. c \in Nat /\ at' = [at EXCEPT ![n].count = c]
    BY <1>3
  <2> HIDE DEF c
  <2>2. /\ at'[n].label = at[n].label /\ at'[n].pass = at[n].pass /\ at'[n].count = c
        /\ MessageLen(n)' = MessageLen(n) /\ \A m \in Node : m # n => at'[m] = at[m]
    BY <1>1, <1>2, <2>1, Counted
  <2> QED BY <2>2 DEF c
<1>8. \A m \in Node : at'[m].label \in {"move", "reply"} => at'[m].count <= MessageLen(m)'
  BY <1>2, <1>3, <1>6, <1>7, Stays
<1>9. Len(wire'[n]) = Len(wire[n]) + k /\ \A m \in Node : m # n => wire'[m] = wire[m]
  <2> DEFINE b == [i \in 1..k |-> OutByte(n, at[n].count + i - 1)]
  <2>1. wire' = [wire EXCEPT ![n] = @ \o b]
    BY <1>3, <1>4 DEF Counting
  <2>2. b = [i \in 1..k |-> b[i]]
    OBVIOUS
  <2> HIDE DEF b
  <2>3. wire'[n] = wire[n] \o b /\ \A m \in Node : m # n => wire'[m] = wire[m]
    BY <1>1, <2>1
  <2>4. Len(wire[n] \o b) = Len(wire[n]) + k
    BY <1>1, <2>2, Lengthened
  <2> QED BY <2>3, <2>4
<1>10. CASE n = "client"
  <2>1. Position("client")' = Position("client") + k
    BY <1>1, <1>2, <1>3, <1>10, PositionAdvances
  <2>2. Position("server")' = Position("server") /\ Answered' = Answered
        /\ Len(wire'["server"]) = Len(wire["server"]) /\ Len(wire'["client"]) = Len(wire["client"]) + k
    BY <1>7, <1>9, <1>10, PositionStays DEF Answered, Node
  <2>3. Unwritten' = Unwritten
    BY <1>2, <1>7, <1>10 DEF Unwritten
  <2>4. Position("client")' = Position("server")' + Len(wire'["client"])
    BY <1>6, <2>1, <2>2 DEF Node
  <2>5. Answered' = results' + Unwritten' + Len(wire'["server"])
    BY <1>2, <1>6, <2>2, <2>3
  <2> QED BY <1>8, <2>4, <2>5 DEF CountsOK
<1>11. CASE n = "server"
  <2>1. at[n].count = 0 /\ k = 1
    BY <1>1, <1>2, <1>3, <1>11, LengthFacts DEF MessageLen
  <2>2. Position("server")' = Position("server") /\ Position("client")' = Position("client")
        /\ at'["client"] = at["client"]
    BY <1>2, <1>7, <1>11, PositionStays, PositionInReply DEF Node
  <2>3. Len(wire'["client"]) = Len(wire["client"]) /\ Len(wire'["server"]) = Len(wire["server"]) + 1
    BY <1>9, <1>11, <2>1 DEF Node
  <2>4. Answered' = Answered + 1
    <3>1. at["server"].pass \in Nat
      BY <1>1, AnswersTyped DEF TypeInv, TypeOK, PosNat
    <3> QED BY <1>2, <1>7, <1>11, <2>1, <3>1 DEF Answered
  <2>5. Unwritten' = Unwritten
    BY <2>2 DEF Unwritten
  <2>6. Position("client")' = Position("server")' + Len(wire'["client"])
    BY <1>6, <2>2, <2>3
  <2>7. Answered' = results' + Unwritten' + Len(wire'["server"])
    <3>1. results \in Nat /\ Len(wire["server"]) \in Nat /\ Unwritten \in Nat
      BY <1>6 DEF Node
    <3>2. results + Unwritten + (Len(wire["server"]) + 1) = (results + Unwritten + Len(wire["server"])) + 1
      BY <3>1, OneSent
    <3> QED BY <1>2, <1>6, <2>3, <2>4, <2>5, <3>2
  <2> QED BY <1>8, <2>6, <2>7 DEF CountsOK
<1> QED BY <1>10, <1>11 DEF Node

LEMMA ReceiveSomeCounts ==
  ASSUME AnswerInv, CountsOK, NEW n \in Node, ReceiveSome(n)
  PROVE  CountsOK'
<1>1. TypeInv /\ wire \in [Node -> Seq(Bytes)]
  BY DEF AnswerInv, TypeInv
<1>2. PICK k \in 1..(MessageLen(n) - at[n].count) : Taken(n, k) /\ Advance(n, k)
  BY DEF ReceiveSome
<1>3. /\ ~Ended(n) /\ at[n].label = (IF n = "client" THEN "reply" ELSE "move")
      /\ at[n].count < MessageLen(n) /\ UNCHANGED <<state, results, errors>>
  BY DEF ReceiveSome, Receiving, In
<1>4. MessageLen(n) \in Nat /\ at[n].count \in Nat /\ k \in Nat /\ at[n].count + k <= MessageLen(n) /\ k > 0
  BY <1>1, <1>2, <1>3, LengthFacts
<1>5. at' = [at EXCEPT ![n].count = at[n].count + k]
  BY <1>1, <1>2, <1>3, <1>4, Advanced
<1>6. /\ at'[n].pass = at[n].pass /\ at'[n].label = at[n].label /\ at'[n].count = at[n].count + k
      /\ MessageLen(n)' = MessageLen(n) /\ \A m \in Node : m # n => at'[m] = at[m]
  <2> DEFINE c == at[n].count + k
  <2>1. c \in Nat /\ at' = [at EXCEPT ![n].count = c]
    BY <1>4, <1>5
  <2> HIDE DEF c
  <2>2. /\ at'[n].label = at[n].label /\ at'[n].pass = at[n].pass /\ at'[n].count = c
        /\ MessageLen(n)' = MessageLen(n) /\ \A m \in Node : m # n => at'[m] = at[m]
    BY <1>1, <1>3, <2>1, Counted
  <2> QED BY <2>2 DEF c
<1>7. /\ wire'[n] = wire[n] /\ Len(wire'[Peer(n)]) = Len(wire[Peer(n)]) - k /\ link' = link
  BY <1>1, <1>2, <1>4, TakenFacts
<1>8. SUFFICES ASSUME Counting' PROVE CountsOK'
  BY DEF CountsOK
<1>9. Counting
  BY <1>3, <1>7, <1>8 DEF Counting, Ended
<1>10. /\ \A m \in Node : /\ Position(m) \in Nat /\ Len(wire[m]) \in Nat /\ wire[m] \in Seq(Bytes)
                          /\ at[m].label \in {"move", "reply"} => at[m].count <= MessageLen(m)
       /\ Answered \in Nat /\ results \in Nat /\ Unwritten \in {0, 1}
       /\ Position("client") = Position("server") + Len(wire["client"])
       /\ Answered = results + Unwritten + Len(wire["server"])
  BY <1>9, CountingFacts
<1>11. \A m \in Node : at'[m].label \in {"move", "reply"} => at'[m].count <= MessageLen(m)'
  BY <1>3, <1>4, <1>6, <1>10, Stays
<1>12. CASE n = "client"
  <2>1. at["client"].count = 0 /\ k = 1 /\ at'["client"].count = 1 /\ at'["client"].label = "reply"
    BY <1>3, <1>4, <1>6, <1>12 DEF MessageLen
  <2>2. Unwritten = 0 /\ Unwritten' = 1
    BY <2>1 DEF Unwritten
  <2>3. Position("client")' = Position("client") /\ Position("server")' = Position("server") /\ Answered' = Answered
    BY <1>3, <1>6, <1>12, PositionStays, PositionInReply DEF Answered, Node
  <2>4. Len(wire'["client"]) = Len(wire["client"]) /\ Len(wire'["server"]) = Len(wire["server"]) - 1
    BY <1>7, <1>12, <2>1 DEF Peer
  <2>5. Position("client")' = Position("server")' + Len(wire'["client"])
    BY <1>10, <2>3, <2>4
  <2>6. Answered' = results' + Unwritten' + Len(wire'["server"])
    <3>1. results \in Nat /\ Len(wire["server"]) \in Nat
      BY <1>10 DEF Node
    <3>2. results + 1 + (Len(wire["server"]) - 1) = results + 0 + Len(wire["server"])
      BY <3>1, OneCounted
    <3> QED BY <1>3, <1>10, <2>2, <2>3, <2>4, <3>2
  <2> QED BY <1>11, <2>5, <2>6 DEF CountsOK
<1>13. CASE n = "server"
  <2>1. Position("server")' = Position("server") + k
    BY <1>1, <1>3, <1>4, <1>5, <1>13, PositionAdvances
  <2>2. Position("client")' = Position("client") /\ at'["client"] = at["client"]
    BY <1>6, <1>13, PositionStays DEF Node
  <2>3. Answered' = Answered /\ Unwritten' = Unwritten
    BY <1>3, <1>6, <1>13, <2>2 DEF Answered, Unwritten
  <2>4. Len(wire'["client"]) = Len(wire["client"]) - k /\ Len(wire'["server"]) = Len(wire["server"])
    BY <1>7, <1>13 DEF Peer
  <2>5. Position("client")' = Position("server")' + Len(wire'["client"])
    BY <1>4, <1>10, <2>1, <2>2, <2>4 DEF Node
  <2>6. Answered' = results' + Unwritten' + Len(wire'["server"])
    BY <1>3, <1>10, <2>3, <2>4
  <2> QED BY <1>11, <2>5, <2>6 DEF CountsOK
<1> QED BY <1>12, <1>13 DEF Node

LEMMA MoveOverCounts ==
  ASSUME AnswerInv, CountsOK, NEW n \in Node, MoveOver(n)
  PROVE  CountsOK'
<1>1. TypeInv /\ TypeInv'
  BY MoveOverTyped DEF AnswerInv
<1>2. /\ ~Ended(n) /\ at[n].label = "move" /\ at[n].count >= MessageLen(n)
      /\ UNCHANGED <<state, results, errors, link, wire>> /\ at' = [at EXCEPT ![n] = at'[n]]
  BY <1>1 DEF MoveOver, MessageOver, NextMessage, Begin, stream, TypeInv, TypeOK
<1>3. /\ at'[n].pass = at[n].pass /\ at'[n].count = 0 /\ \A m \in Node : m # n => at'[m] = at[m]
  BY <1>1, <1>2, MoveOverTyped DEF TypeInv, TypeOK
<1>4. SUFFICES ASSUME Counting' PROVE CountsOK'
  BY DEF CountsOK
<1>5. Counting
  BY <1>2, <1>4 DEF Counting, Ended
<1>6. /\ \A m \in Node : /\ Position(m) \in Nat /\ Len(wire[m]) \in Nat
                         /\ at[m].label \in {"move", "reply"} => at[m].count <= MessageLen(m)
      /\ Answered \in Nat /\ results \in Nat /\ Unwritten \in {0, 1}
      /\ Position("client") = Position("server") + Len(wire["client"])
      /\ Answered = results + Unwritten + Len(wire["server"])
  BY <1>5, CountingFacts
<1>7. at[n].count = MessageLen(n)
  BY <1>1, <1>2, <1>6, LengthFacts
<1>8. \A m \in Node : Position(m)' = Position(m)
  BY <1>1, <1>3, <1>7, PositionStays, PositionOver
<1>9. Answered' = Answered
  <2>1. CASE n = "server"
    BY <1>2, <1>3, <2>1 DEF Answered
  <2>2. CASE n = "client"
    BY <1>3, <2>2 DEF Answered, Node
  <2> QED BY <2>1, <2>2 DEF Node
<1>10. Unwritten' = Unwritten
  <2>1. CASE n = "client"
    BY <1>2, <1>3, <2>1 DEF Unwritten
  <2>2. CASE n = "server"
    BY <1>3, <2>2 DEF Unwritten, Node
  <2> QED BY <2>1, <2>2 DEF Node
<1>11. \A m \in Node : at'[m].label \in {"move", "reply"} => at'[m].count <= MessageLen(m)'
  <2>1. ~Ended(n)'
    BY <1>2 DEF Ended
  <2>2. at'[n].label \in {"move", "reply"} => MessageLen(n)' \in Nat
    BY <1>1, <2>1, LengthLater
  <2> QED BY <1>2, <1>3, <1>6, <2>2, Stays
<1>12. Position("client")' = Position("server")' + Len(wire'["client"]) /\ Answered' = results' + Unwritten' + Len(wire'["server"])
  BY <1>2, <1>6, <1>8, <1>9, <1>10 DEF Node
<1> QED BY <1>11, <1>12 DEF CountsOK

LEMMA PassOverCounts ==
  ASSUME AnswerInv, CountsOK, NEW n \in Node, PassOver(n)
  PROVE  CountsOK'
<1>1. TypeInv /\ TypeInv'
  BY PassOverTyped DEF AnswerInv
<1>2. /\ ~Ended(n) /\ at[n].label = "reply" /\ at[n].count > 0
      /\ at'[n].pass = at[n].pass + 1 /\ at'[n].label = "move" /\ at'[n].count = 0
      /\ \A m \in Node : m # n => at'[m] = at[m] /\ state'[m] = state[m]
      /\ IF at[n].pass < Len(Passes(n)) THEN state' = state /\ UNCHANGED stream ELSE state'[n] = "done"
  BY <1>1, PassOverTyped
<1>3. results' = (IF n = "client" THEN results + 1 ELSE results) /\ errors' = errors
  BY DEF PassOver
<1>4. SUFFICES ASSUME Counting' PROVE CountsOK'
  BY DEF CountsOK
<1>5. state' = state /\ UNCHANGED <<link, wire>> /\ ~Ended(n)'
  BY <1>2, <1>4 DEF Counting, Ended, stream
<1>6. Counting
  BY <1>3, <1>4, <1>5 DEF Counting, Ended
<1>7. /\ \A m \in Node : /\ Position(m) \in Nat /\ Len(wire[m]) \in Nat
                         /\ at[m].label \in {"move", "reply"} => at[m].count <= MessageLen(m)
      /\ Answered \in Nat /\ results \in Nat /\ Unwritten \in {0, 1}
      /\ Position("client") = Position("server") + Len(wire["client"])
      /\ Answered = results + Unwritten + Len(wire["server"])
  BY <1>6, CountingFacts
<1>8. \A m \in Node : Position(m)' = Position(m)
  BY <1>1, <1>2, <1>5, PositionStays, PositionNext
<1>9. \A m \in Node : at'[m].label \in {"move", "reply"} => at'[m].count <= MessageLen(m)'
  <2>1. MessageLen(n)' \in Nat
    BY <1>1, <1>2, <1>5, LengthLater
  <2> QED BY <1>2, <1>5, <1>7, <2>1, Stays
<1>10. Position("client")' = Position("server")' + Len(wire'["client"])
  BY <1>5, <1>7, <1>8 DEF Node
<1>11. Answered' = results' + Unwritten' + Len(wire'["server"])
  <2>1. CASE n = "client"
    <3>1. Answered' = Answered /\ Unwritten = 1 /\ Unwritten' = 0
      BY <1>2, <2>1 DEF Answered, Unwritten, Node
    <3> QED BY <1>3, <1>5, <1>7, <2>1, <3>1 DEF Node
  <2>2. CASE n = "server"
    <3>1. at["server"].pass \in Nat
      BY <1>1, AnswersTyped DEF TypeInv, TypeOK, PosNat
    <3>2. Answered' = Answered /\ Unwritten' = Unwritten
      BY <1>2, <2>2, <3>1 DEF Answered, Unwritten, Node
    <3> QED BY <1>3, <1>5, <1>7, <2>2, <3>2
  <2> QED BY <2>1, <2>2 DEF Node
<1> QED BY <1>9, <1>10, <1>11 DEF CountsOK

\* The connection is made, and accepted.
LEMMA ConnectCounts ==
  ASSUME AnswerInv, Connect
  PROVE  CountsOK'
<1>1. TypeInv /\ at \in [Node -> Place] /\ \A n \in Node : PlaceOK(n)
  BY DEF AnswerInv, TypeInv, TypeOK
<1>2. /\ at' = [at EXCEPT !["client"] = [pass |-> 1, label |-> "move", off |-> 0, count |-> 0]]
      /\ UNCHANGED <<state, results, wire>> /\ link = "listening"
      /\ at["client"].label = "start" /\ ~Ended("client")
  BY DEF Connect, FirstPass, Begin, In
<1>3. /\ at'["client"] = [pass |-> 1, label |-> "move", off |-> 0, count |-> 0]
      /\ at'["server"] = at["server"] /\ at["client"].pass = 1
      /\ at["server"].label \in {"start", "accept"} /\ at["server"].pass = 1
      /\ \A n \in Node : wire[n] = <<>>
  BY <1>1, <1>2 DEF PlaceOK, TypeInv, LinkOK, Node
<1>4. /\ at'["client"].pass = 1 /\ at'["client"].label = "move" /\ at'["client"].off = 0 /\ at'["client"].count = 0
      /\ results' = 0 /\ \A n \in Node : wire'[n] = <<>> /\ Len(wire'[n]) = 0
  BY <1>1, <1>2, <1>3 DEF TypeInv
<1>5. 1 \in 1..Len(Passes("client")) /\ PlaceOK("client")'
  <2>1. 1 \in 1..Len(Passes("client"))
    BY PassesFacts DEF Node
  <2>2. state'["client"] # "done"
    BY <1>2 DEF Ended
  <2> QED BY <1>3, <2>1, <2>2, StartOfPass DEF Node
<1>6. MessageLen("client")' \in Nat /\ Size("client")' \in Nat
  <2>1. state'["client"] # "done"
    BY <1>2 DEF Ended
  <2>2. MessageLen("client")' \in Nat
    BY <1>3, <1>5, <2>1, StartOfPass DEF Node
  <2>3. Size("client")' = Passes("client")[1].size
    BY <1>4 DEF Size
  <2> QED BY <1>5, <2>2, <2>3, PassesFacts DEF PosNat, Node
<1>7. Position("client")' = 0 /\ Position("server")' = 0
  <2>1. Moved("client")' = 0
    BY <1>4, <1>6 DEF Moved, Index
  <2>2. Moved("server")' = 0
    BY <1>3 DEF Moved
  <2>3. Before("client", 1) = 0 /\ Before("server", 1) = 0
    BY BeforeFirst DEF Node
  <2>4. Position("client")' = Before("client", 1) + Moved("client")'
    BY <1>4 DEF Position
  <2>5. Position("server")' = Before("server", 1) + Moved("server")'
    BY <1>3 DEF Position
  <2> QED BY <2>1, <2>2, <2>3, <2>4, <2>5
<1>8. Answered' = 0 /\ Unwritten' = 0
  BY <1>3, <1>4 DEF Answered, Unwritten
<1>9. \A n \in Node : at'[n].label \in {"move", "reply"} => at'[n].count <= MessageLen(n)'
  BY <1>3, <1>4, <1>6 DEF Node
<1>10. Position("client")' = Position("server")' + Len(wire'["client"]) /\ Answered' = results' + Unwritten' + Len(wire'["server"])
  BY <1>4, <1>7, <1>8 DEF Node
<1> QED BY <1>9, <1>10 DEF CountsOK

LEMMA AcceptCounts ==
  ASSUME AnswerInv, CountsOK, Accept
  PROVE  CountsOK'
<1>1. TypeInv /\ at \in [Node -> Place] /\ \A n \in Node : PlaceOK(n)
  BY DEF AnswerInv, TypeInv, TypeOK
<1>2. /\ at' = [at EXCEPT !["server"] = [pass |-> 1, label |-> "move", off |-> 0, count |-> 0]]
      /\ UNCHANGED <<state, results, errors, link, wire>>
      /\ at["server"].label = "accept" /\ ~Ended("server")
  BY DEF Accept, FirstPass, Begin, In, stream
<1>3. /\ at'["server"] = [pass |-> 1, label |-> "move", off |-> 0, count |-> 0]
      /\ at'["client"] = at["client"] /\ at["server"].pass = 1
  BY <1>1, <1>2 DEF PlaceOK, Node
<1>4. at'["server"].pass = 1 /\ at'["server"].label = "move" /\ at'["server"].off = 0 /\ at'["server"].count = 0
  BY <1>3
<1>5. MessageLen("server")' \in Nat /\ Size("server")' \in Nat
  <2>1. state'["server"] # "done" /\ 1 \in 1..Len(Passes("server"))
    BY <1>2, PassesFacts DEF Ended, Node
  <2>2. MessageLen("server")' \in Nat
    BY <1>3, <2>1, StartOfPass DEF Node
  <2>3. Size("server")' = Passes("server")[1].size
    BY <1>4 DEF Size
  <2> QED BY <2>1, <2>2, <2>3, PassesFacts DEF PosNat, Node
<1>6. SUFFICES ASSUME Counting' PROVE CountsOK'
  BY DEF CountsOK
<1>7. Counting
  BY <1>2, <1>6 DEF Counting, Ended
<1>8. /\ \A m \in Node : at[m].label \in {"move", "reply"} => at[m].count <= MessageLen(m)
      /\ Position("client") = Position("server") + Len(wire["client"])
      /\ Answered = results + Unwritten + Len(wire["server"])
  BY <1>7, CountingFacts
<1>9. Position("client")' = Position("client") /\ Position("server")' = Position("server")
  <2>1. Moved("server")' = 0
    BY <1>4, <1>5 DEF Moved, Index
  <2>2. Moved("server") = 0
    BY <1>2 DEF Moved
  <2>3. Position("server") = Before("server", 1) + 0 /\ Position("server")' = Before("server", 1) + 0
    BY <1>3, <1>4, <2>1, <2>2 DEF Position
  <2> QED BY <1>3, <2>3, PositionStays DEF Node
<1>10. Answered' = Answered /\ Unwritten' = Unwritten
  BY <1>2, <1>3, <1>4 DEF Answered, Unwritten
<1>11. \A m \in Node : at'[m].label \in {"move", "reply"} => at'[m].count <= MessageLen(m)'
  BY <1>2, <1>3, <1>4, <1>5, <1>8, Stays DEF Node
<1>12. Position("client")' = Position("server")' + Len(wire'["client"]) /\ Answered' = results' + Unwritten' + Len(wire'["server"])
  BY <1>2, <1>8, <1>9, <1>10
<1> QED BY <1>11, <1>12 DEF CountsOK

\* A step after which nobody counts any more.
LEMMA SendFailsCounts ==
  ASSUME AnswerInv, NEW n \in Node, SendFails(n)
  PROVE  ~Counting'
<1>1. /\ pending[n] => link = "reset"
      /\ errors \in Nat
  BY ConstantsAssumption DEF AnswerInv, TypeInv, TypeOK, LinkOK
<1>2. link' = link
  BY DEF SendFails
<1>3. pending[n] \/ errors' = errors + 1 \/ link \in {"none", "listening"}
  BY DEF SendFails, NoSocket
<1> QED BY <1>1, <1>2, <1>3 DEF Counting

LEMMA FailCounts ==
  ASSUME AnswerInv, NEW n \in Node, Fail(n)
  PROVE  ~Counting'
<1>1. state' = [state EXCEPT ![n] = "failed"] /\ state \in [Node -> {"running", "done", "failed"}]
  BY DEF Fail, AnswerInv, TypeInv, TypeOK
<1> QED BY <1>1 DEF Counting, Ended

-----------------------------------------------------------------------------
(* A program that has ended has closed its socket.                         *)

LEMMA EndsKept ==
  ASSUME EndsOK,
         \A n \in Node : Ended(n)' => Ended(n) \/ closed'[n],
         \A n \in Node : closed[n] => closed'[n],
         at'["client"].label = "start" =>
           at["client"].label = "start" /\ (link' \in {"up", "reset"} => link \in {"up", "reset"})
  PROVE  EndsOK'
BY DEF EndsOK

LEMMA FailEnds ==
  ASSUME AnswerInv, EndsOK, NEW n \in Node, Fail(n)
  PROVE  EndsOK'
<1>1. /\ closed' = [closed EXCEPT ![n] = TRUE] /\ closed \in [Node -> BOOLEAN]
      /\ state' = [state EXCEPT ![n] = "failed"] /\ state \in [Node -> {"running", "done", "failed"}]
      /\ at' = at /\ (link' # link => link = "up") /\ link' \in {link, "reset"}
  BY Closing DEF Fail, CloseSocket, AnswerInv, TypeInv, TypeOK
<1>2. /\ \A m \in Node : Ended(m)' => Ended(m) \/ closed'[m]
      /\ \A m \in Node : closed[m] => closed'[m]
  BY <1>1 DEF Ended
<1> QED BY <1>1, <1>2, EndsKept

LEMMA ProgramEnds ==
  ASSUME AnswerInv, EndsOK, NEW n \in Node, Program(n)
  PROVE  EndsOK'
<1>1. TypeInv /\ at \in [Node -> Place] /\ closed \in [Node -> BOOLEAN]
      /\ state \in [Node -> {"running", "done", "failed"}]
  BY DEF AnswerInv, TypeInv, TypeOK
<1>2. CASE SendSome(n)
  <2>1. UNCHANGED <<state, closed>> /\ link = "up" /\ at[n].label \in {"move", "reply"} /\ ~Ended(n)
    BY <1>1, <1>2, SentFacts
  <2>2. at["client"].label # "start"
    BY <2>1 DEF EndsOK
  <2>3. at'["client"].label = at["client"].label
    <3>1. PICK k \in Nat : at' = [at EXCEPT ![n].count = at[n].count + k]
      BY <1>1, <1>2, SentFacts
    <3> QED BY <1>1, <3>1 DEF Place, Node
  <2> QED BY <2>1, <2>2, <2>3, EndsKept DEF Ended
<1>3. CASE SendFails(n)
  <2>1. UNCHANGED <<state, closed, link>>
    BY <1>3 DEF SendFails
  <2>2. at'["client"].label = at["client"].label
    BY <1>1, <1>3 DEF SendFails, Advance, Place, Node
  <2> QED BY <2>1, <2>2, EndsKept DEF Ended
<1>4. CASE SendKills(n)
  BY <1>4, FailEnds DEF SendKills
<1>5. CASE ReceiveSome(n)
  <2>1. UNCHANGED <<state, closed, link>>
    BY <1>5 DEF ReceiveSome, Taken
  <2>2. at'["client"].label = at["client"].label
    BY <1>1, <1>5 DEF ReceiveSome, Advance, Place, Node
  <2> QED BY <2>1, <2>2, EndsKept DEF Ended
<1>6. CASE ReceiveFails(n)
  BY <1>6, FailEnds DEF ReceiveFails
<1>7. CASE MoveOver(n)
  <2>1. UNCHANGED <<state, closed, link>> /\ at' = [at EXCEPT ![n] = at'[n]] /\ at[n].label = "move"
    BY <1>1, <1>7 DEF MoveOver, NextMessage, Begin, stream
  <2>2. at'["client"].label # "start" \/ at'["client"] = at["client"]
    <3>1. at'[n].label = "move" \/ at'[n].label = "reply"
      BY <1>1, <1>7, MoveOverTyped
    <3> QED BY <1>1, <2>1, <3>1 DEF Node
  <2> QED BY <2>1, <2>2, EndsKept DEF Ended
<1>8. CASE PassOver(n)
  <2>1. /\ at'[n].label = "move" /\ \A m \in Node : m # n => at'[m] = at[m] /\ state'[m] = state[m]
        /\ IF at[n].pass < Len(Passes(n)) THEN state' = state /\ UNCHANGED stream
                                          ELSE state'[n] = "done" /\ CloseSocket(n)
    BY <1>1, <1>8, PassOverTyped
  <2>2. at'["client"].label # "start" \/ at'["client"] = at["client"]
    BY <2>1 DEF Node
  <2>3. CASE at[n].pass < Len(Passes(n))
    <3>1. UNCHANGED <<state, closed, link>>
      BY <2>1, <2>3 DEF stream
    <3> QED BY <2>2, <3>1, EndsKept DEF Ended
  <2>4. CASE ~(at[n].pass < Len(Passes(n)))
    <3>1. closed' = [closed EXCEPT ![n] = TRUE] /\ (link' # link => link = "up")
      BY <1>1, <2>1, <2>4, Closing DEF CloseSocket
    <3>2. /\ \A m \in Node : Ended(m)' => Ended(m) \/ closed'[m]
          /\ \A m \in Node : closed[m] => closed'[m]
      BY <1>1, <2>1, <3>1 DEF Ended
    <3>3. at'["client"].label = "start" =>
            at["client"].label = "start" /\ (link' \in {"up", "reset"} => link \in {"up", "reset"})
      BY <2>2, <3>1
    <3> QED BY <3>2, <3>3, EndsKept
  <2> QED BY <2>3, <2>4
<1> QED BY <1>2, <1>3, <1>4, <1>5, <1>6, <1>7, <1>8 DEF Program

LEMMA ProgramCounts ==
  ASSUME CountInv, NEW n \in Node, Program(n)
  PROVE  CountInv'
<1>1. AnswerInv /\ CountsOK /\ EndsOK /\ AnswerInv' /\ EndsOK'
  BY ProgramAnswers, ProgramEnds DEF CountInv
<1>2. CASE SendSome(n) \/ ReceiveSome(n) \/ MoveOver(n) \/ PassOver(n)
  BY <1>1, <1>2, SendSomeCounts, ReceiveSomeCounts, MoveOverCounts, PassOverCounts DEF CountInv
<1>3. CASE SendFails(n) \/ SendKills(n) \/ ReceiveFails(n)
  <2>1. ~Counting'
    BY <1>1, <1>3, SendFailsCounts, FailCounts DEF SendKills, ReceiveFails
  <2> QED BY <1>1, <2>1 DEF CountInv, CountsOK
<1> QED BY <1>2, <1>3 DEF Program

LEMMA CountStep ==
  ASSUME CountInv, [Next]_vars
  PROVE  CountInv'
<1>1. AnswerInv /\ CountsOK /\ EndsOK /\ AnswerInv'
  BY AnswerStep DEF CountInv
<1>2. TypeInv /\ at \in [Node -> Place] /\ closed \in [Node -> BOOLEAN]
      /\ state \in [Node -> {"running", "done", "failed"}]
  BY <1>1 DEF AnswerInv, TypeInv, TypeOK
<1>3. ASSUME NEW n \in Node, Program(n) PROVE CountInv'
  BY <1>3, ProgramCounts
<1>4. CASE ConnectRefused \/ ConnectFails \/ ListenFails
  <2>1. PICK n \in Node : Fail(n)
    BY <1>4 DEF ConnectRefused, ConnectFails, ListenFails, Node
  <2>2. ~Counting' /\ EndsOK'
    BY <1>1, <2>1, FailCounts, FailEnds
  <2> QED BY <1>1, <2>2 DEF CountInv, CountsOK
<1>5. CASE Connect
  <2>1. CountsOK'
    BY <1>1, <1>5, ConnectCounts
  <2>2. UNCHANGED <<state, closed>> /\ at'["client"].label = "move"
    BY <1>2, <1>5 DEF Connect, FirstPass, Begin, Node
  <2>3. EndsOK'
    BY <1>1, <2>2, EndsKept DEF Ended
  <2> QED BY <1>1, <2>1, <2>3 DEF CountInv
<1>6. CASE Unresolved
  <2>1. UNCHANGED <<state, closed, link>> /\ at'["client"].label = "move" /\ link # "up"
    BY <1>2, <1>6 DEF Unresolved, FirstPass, Begin, stream, Node
  <2>2. EndsOK'
    BY <1>1, <2>1, EndsKept DEF Ended
  <2> QED BY <1>1, <2>1, <2>2 DEF CountInv, CountsOK, Counting
<1>7. CASE Listen
  <2>1. UNCHANGED <<state, closed>> /\ at'["client"] = at["client"] /\ link' = "listening"
    BY <1>2, <1>7 DEF Listen, Node
  <2>2. EndsOK'
    BY <1>1, <2>1, EndsKept DEF Ended
  <2> QED BY <1>1, <2>1, <2>2 DEF CountInv, CountsOK, Counting
<1>8. CASE Accept
  <2>1. UNCHANGED <<state, closed, link>> /\ at'["client"] = at["client"]
    BY <1>2, <1>8 DEF Accept, FirstPass, Begin, stream, Node
  <2>2. EndsOK'
    BY <1>1, <2>1, EndsKept DEF Ended
  <2> QED BY <1>1, <1>8, <2>2, AcceptCounts DEF CountInv
<1>9. CASE AcceptFails
  <2>1. /\ state' = [state EXCEPT !["server"] = "failed"] /\ at' = at
        /\ closed' = [closed EXCEPT !["server"] = TRUE]
        /\ link' \in {"up", "reset"} => link \in {"up", "reset"}
    <3>1. CASE link = "listening"
      BY <1>9, <3>1 DEF AcceptFails
    <3>2. CASE link # "listening"
      BY <1>2, <1>9, <3>2, Closing DEF AcceptFails, CloseSocket, Node
    <3> QED BY <3>1, <3>2
  <2>2. ~Counting'
    BY <1>2, <2>1 DEF Counting, Ended, Node
  <2>3. EndsOK'
    <3>1. /\ \A m \in Node : Ended(m)' => Ended(m) \/ closed'[m]
          /\ \A m \in Node : closed[m] => closed'[m]
      BY <1>2, <2>1 DEF Ended
    <3> QED BY <1>1, <2>1, <3>1, EndsKept
  <2> QED BY <1>1, <2>2, <2>3 DEF CountInv, CountsOK
<1>10. CASE LoseConnection
  <2>1. UNCHANGED <<at, state, closed>> /\ link = "up" /\ link' = "reset"
    BY <1>10 DEF LoseConnection, Reset
  <2>2. EndsOK'
    BY <1>1, <2>1, EndsKept DEF Ended
  <2> QED BY <1>1, <2>1, <2>2 DEF CountInv, CountsOK, Counting
<1>11. CASE UNCHANGED vars
  <2>1. UNCHANGED <<at, state, results, errors, link, wire, closed>>
    BY <1>11 DEF vars, stream
  <2>2. \A n \in Node : Position(n)' = Position(n) /\ MessageLen(n)' = MessageLen(n)
    BY <2>1, PositionStays, Stays
  <2>3. Answered' = Answered /\ Unwritten' = Unwritten /\ (Counting' <=> Counting)
    BY <2>1 DEF Answered, Unwritten, Counting, Ended
  <2>4. CountsOK'
    BY <1>1, <2>1, <2>2, <2>3 DEF CountsOK, Node
  <2>5. EndsOK'
    BY <1>1, <2>1, EndsKept DEF Ended
  <2> QED BY <1>1, <2>4, <2>5 DEF CountInv
<1> QED BY <1>3, <1>4, <1>5, <1>6, <1>7, <1>8, <1>9, <1>10, <1>11 DEF Next, Client, Server, Node

\* With whatever arguments the two are started, and until a call of send() or a
\* program fails or the connection is lost, no byte and no reply is lost or
\* counted twice: what one has sent the other has taken in or will find.
THEOREM CountsInvariant == Spec => []CountInv
<1>1. Init => CountInv
  <2>1. SUFFICES ASSUME Init PROVE CountInv
    OBVIOUS
  <2>2. link = "none" /\ state = [n \in Node |-> "running"]
    BY <2>1 DEF Init, StreamInit
  <2>3. CountsOK /\ EndsOK
    BY <2>2 DEF CountsOK, Counting, EndsOK, Ended
  <2> QED BY <2>1, <2>3, AnswerInit DEF CountInv
<1>2. CountInv /\ [Next]_vars => CountInv'
  BY CountStep
<1> QED BY <1>1, <1>2, PTL DEF Spec

-----------------------------------------------------------------------------
(* Neither waits for the other.                                            *)

\* A program that is blocked, while nothing is broken.
LEMMA Blocked ==
  ASSUME AnswerInv, EndsOK, Stuck, NEW n \in Node, ~Ended(n)
  PROVE  /\ link = "up" /\ ~closed[Peer(n)]
         /\ \/ at[n].label = (IF n = "client" THEN "move" ELSE "reply") /\ Len(wire[n]) >= Capacity
            \/ at[n].label = (IF n = "client" THEN "reply" ELSE "move") /\ wire[Peer(n)] = <<>>
         /\ at[n].count < MessageLen(n)
<1>1. TypeInv /\ at[n] \in Place /\ wire \in [Node -> Seq(Bytes)] /\ Capacity \in Nat
  BY CapacityAssumption DEF AnswerInv, TypeInv, TypeOK
<1>2. ~CanProceed(n) /\ link \in {"up", "reset"}
  BY DEF Stuck
<1>3. at[n].label \in {"move", "reply"}
  <2>1. at[n].label # "accept"
    BY <1>2 DEF CanProceed, In
  <2>2. at[n].label # "start"
    BY <1>1, <1>2 DEF EndsOK, TypeInv, LinkOK, Node
  <2> QED BY <1>1, <2>1, <2>2 DEF Place
<1>4. at[n].count < MessageLen(n)
  <2>1. at[n].count \in Nat /\ MessageLen(n) \in Nat
    BY <1>1, <1>3, LengthFacts
  <2>2. ~(at[n].count >= MessageLen(n))
    BY <1>2, <1>3 DEF CanProceed, MessageOver
  <2> QED BY <2>1, <2>2
<1>5. Len(wire[n]) \in Nat
  BY <1>1
<1>6. CASE Sending(n)
  <2>1. ~(link = "reset" \/ closed[Peer(n)] \/ Len(wire[n]) < Capacity)
    BY <1>2, <1>4, <1>6 DEF CanProceed
  <2>2. Len(wire[n]) >= Capacity
    BY <1>1, <1>5, <2>1
  <2> QED BY <1>2, <1>4, <1>6, <2>1, <2>2 DEF Sending, In
<1>7. CASE Receiving(n)
  <2>1. ~(wire[Peer(n)] # <<>> \/ EndOfStream(n))
    BY <1>2, <1>4, <1>7 DEF CanProceed
  <2>2. wire[Peer(n)] = <<>> /\ link # "reset" /\ ~closed[Peer(n)]
    BY <2>1 DEF EndOfStream
  <2> QED BY <1>2, <1>4, <1>7, <2>2 DEF Receiving, In
<1> QED BY <1>3, <1>6, <1>7 DEF Sending, Receiving, In, Node

LEMMA LastCount ==
  ASSUME NEW r \in Nat, NEW g \in Nat, NEW l \in Nat, NEW a, a = r + g + l
  PROVE  l <= a
OBVIOUS

\* A server that wants as much as the client sends has no reply to give while one
\* is under way: it would have taken in a pass the client has not begun.
LEMMA OneReply ==
  ASSUME AnswerInv, CountsOK, Counting, ServerWantsLess, DataSize["server"] = DataSize["client"],
         at["server"].label = "reply", at["server"].count = 0, wire["server"] # <<>>,
         at["client"].label \in {"move", "reply"}
  PROVE  FALSE
<1> DEFINE s == at["server"].pass
           c == at["client"].pass
<1>1. TypeInv /\ ~Ended("client") /\ ~Ended("server")
  BY Running DEF AnswerInv, Node
<1>2. /\ s \in 1..Len(Passes("client")) /\ c \in 1..Len(Passes("client"))
      /\ Len(Passes("client")) \in Nat /\ results = c - 1
  <2>1. s \in 1..Len(Passes("server")) /\ c \in 1..Len(Passes("client"))
    BY <1>1, PositionFacts DEF Node
  <2>2. Passes("server") = Passes("client")
    BY <2>1, BeforeLess
  <2> QED BY <1>1, <2>1, <2>2, PassesFacts DEF TypeInv, Node
<1>3. /\ Position("client") \in Nat /\ Position("server") \in Nat /\ Len(wire["client"]) \in Nat
      /\ Position("client") = Position("server") + Len(wire["client"])
      /\ Answered = results + Unwritten + Len(wire["server"]) /\ Unwritten \in {0, 1}
      /\ Len(wire["server"]) \in Nat /\ wire["server"] \in Seq(Bytes)
      /\ at["client"].count <= MessageLen("client")
  BY CountingFacts DEF Node
<1>4. c + 1 <= s
  <2>1. Answered = s - 1
    BY <1>2 DEF Answered
  <2>2. Len(wire["server"]) > 0
    BY <1>3
  <2>3. s \in Nat /\ c \in Nat
    BY <1>2
  <2>4. Unwritten \in Nat
    <3>1. Unwritten \in {0, 1}
      BY <1>3
    <3> QED BY <3>1
  <2>5. s - 1 = (c - 1) + Unwritten + Len(wire["server"])
    BY <1>2, <1>3, <2>1
  <2>6. Len(wire["server"]) \in Nat
    BY <1>3
  <2> DEFINE l == Len(wire["server"])
  <2> HIDE DEF s, c, l
  <2>7. s - 1 = (c - 1) + Unwritten + l /\ l \in Nat /\ l > 0
    BY <2>2, <2>5, <2>6 DEF l
  <2> QED BY <2>3, <2>4, <2>7
<1>5. Position("client") <= Before("client", c + 1)
  BY <1>1, <1>3, PositionBound DEF Node
<1>6. Before("client", c + 1) <= Before("client", s)
  BY <1>2, <1>4, BeforeLater DEF PosNat, Node
<1>7. Position("server") = Before("client", s) + Load("client", s)
  BY <1>2, BeforeLess DEF Position, Moved
<1>8. /\ Load("client", s) \in Nat /\ Load("client", s) > 0
      /\ Before("client", s) \in Nat /\ Before("client", c + 1) \in Nat
  <2>1. s \in PosNat /\ s <= Len(Passes("client")) + 1 /\ c + 1 \in PosNat /\ c + 1 <= Len(Passes("client")) + 1
    BY <1>2 DEF PosNat
  <2> QED BY <1>2, <2>1, LoadFacts, EarlierFinite DEF Node
<1> QED BY <1>3, <1>5, <1>6, <1>7, <1>8

\* Blocked on each other both would be receiving, the client the reply of the
\* pass the server still takes in: but all its bytes have been sent.
LEMMA CountedOut ==
  ASSUME CountInv, ServerWantsLess, MaxErrors = 0,
         DataSize["server"] = DataSize["client"] \/ Len(Passes("client")) <= Capacity
  PROVE  NoDeadlock
<1>1. SUFFICES ASSUME Stuck PROVE FALSE
  BY DEF NoDeadlock
<1>2. AnswerInv /\ CountsOK /\ EndsOK /\ TypeInv /\ errors = 0
  BY DEF CountInv, AnswerInv, TypeInv, TypeOK
<1>3. Counting
  <2>1. PICK n \in Node : ~Ended(n)
    BY <1>1 DEF Stuck
  <2>2. link = "up" /\ ~closed[Peer(n)]
    BY <1>1, <1>2, <2>1, Blocked
  <2>3. ~Ended(Peer(n))
    BY <1>2, <2>2 DEF EndsOK, Peer, Node
  <2> QED BY <1>2, <2>1, <2>2, <2>3 DEF Counting, Peer, Node
<1>4. /\ \A m \in Node : Position(m) \in Nat /\ Len(wire[m]) \in Nat /\ wire[m] \in Seq(Bytes)
      /\ Answered \in Nat /\ results \in Nat /\ Unwritten \in {0, 1}
      /\ Position("client") = Position("server") + Len(wire["client"])
      /\ Answered = results + Unwritten + Len(wire["server"])
  BY <1>2, <1>3, CountingFacts
<1> DEFINE s == at["server"].pass
           c == at["client"].pass
<1>5. /\ s \in 1..Len(Passes("server")) /\ c \in 1..Len(Passes("client"))
      /\ at["server"].count \in Nat /\ at["client"].count \in Nat
      /\ results = c - 1 /\ Passes("server") = Passes("client")
      /\ Len(Passes("client")) \in Nat /\ Capacity \in Nat /\ Capacity > 0
  <2>1. c \in 1..Len(Passes("client"))
    BY <1>2, <1>3, Running, PositionFacts DEF Node
  <2>2. s \in 1..Len(Passes("server")) /\ at["server"].count \in Nat /\ at["client"].count \in Nat
    BY <1>2, <1>3, Running, PositionFacts DEF Node
  <2>3. Passes("server") = Passes("client")
    BY <2>1, BeforeLess
  <2> QED BY <1>2, <2>1, <2>2, <2>3, CapacityAssumption, PassesFacts DEF TypeInv, Node
<1>6. /\ \/ at["server"].label = "reply" /\ Len(wire["server"]) >= Capacity
         \/ at["server"].label = "move" /\ wire["client"] = <<>>
      /\ at["server"].count < MessageLen("server")
  BY <1>1, <1>2, <1>3, Running, Blocked DEF Peer, Node
<1>7. /\ \/ at["client"].label = "move" /\ Len(wire["client"]) >= Capacity
         \/ at["client"].label = "reply" /\ wire["server"] = <<>>
      /\ at["client"].count < MessageLen("client")
  BY <1>1, <1>2, <1>3, Running, Blocked DEF Peer, Node
<1>8. Answered = s - 1
  BY <1>5, <1>6 DEF Answered, MessageLen
<1>9. at["server"].label = "move" /\ wire["client"] = <<>>
  <2>1. SUFFICES ASSUME at["server"].label = "reply", Len(wire["server"]) >= Capacity PROVE FALSE
    BY <1>6
  <2>2. Len(wire["server"]) \in Nat /\ Unwritten \in Nat /\ results \in Nat
    BY <1>4 DEF Node
  <2>3. Len(wire["server"]) <= s - 1
    BY <1>4, <1>8, <2>2, LastCount
  <2>4. s <= Len(Passes("client")) /\ s \in Nat
    BY <1>5
  <2>5. ~(Len(Passes("client")) <= Capacity)
    BY <1>5, <2>1, <2>2, <2>3, <2>4
  <2>6. at["server"].count = 0 /\ wire["server"] # <<>>
    BY <1>5, <1>6, <2>1, <2>2 DEF MessageLen
  <2> QED BY <1>2, <1>3, <1>7, <2>1, <2>5, <2>6, OneReply
<1>10. at["client"].label = "reply" /\ wire["server"] = <<>>
  <2>1. Len(wire["client"]) = 0
    BY <1>9
  <2> QED BY <1>5, <1>7, <2>1
<1>11. s = c
  <2>1. at["client"].count = 0
    BY <1>5, <1>7, <1>10 DEF MessageLen
  <2>2. Unwritten = 0 /\ Len(wire["server"]) = 0
    BY <1>10, <2>1 DEF Unwritten
  <2> QED BY <1>4, <1>5, <1>8, <2>2
<1>12. Before("client", s) + Load("client", s) = Before("server", s) + Index("server", at["server"].count)
  <2>1. Position("client") = Before("client", s) + Load("client", s)
    BY <1>10, <1>11 DEF Position, Moved
  <2>2. Position("server") = Before("server", s) + Index("server", at["server"].count)
    BY <1>9 DEF Position, Moved
  <2>3. Len(wire["client"]) = 0
    BY <1>9
  <2> QED BY <1>4, <2>1, <2>2, <2>3 DEF Node
<1>13. /\ Index("server", at["server"].count) \in Nat
       /\ Index("server", at["server"].count) < Load("server", s)
  <2>1. s <= Len(Passes("server")) /\ state["server"] # "done"
    BY <1>3, <1>5, Running DEF Node
  <2>2. /\ \A i \in Nat : Index("server", i) = Index("server", 0) + i /\ Index("server", i) \in Nat
        /\ Index("server", MessageLen("server")) <= Load("server", s)
        /\ at["server"].count \in Nat /\ MessageLen("server") \in Nat
    BY <1>2, <1>9, <2>1, MovedFacts DEF Node
  <2> DEFINE i == Index("server", 0)
             k == at["server"].count
             m == MessageLen("server")
  <2>3. Index("server", at["server"].count) < Index("server", MessageLen("server"))
    <3>1. i \in Nat /\ k \in Nat /\ m \in Nat /\ k < m /\ Index("server", k) = i + k /\ Index("server", m) = i + m
      BY <1>6, <2>2
    <3> HIDE DEF i, k, m
    <3>2. i + k < i + m
      BY <3>1
    <3> QED BY <3>1, <3>2 DEF k, m
  <2>4. Load("server", s) \in Nat
    BY <1>5, LoadFacts DEF Node
  <2>5. Index("server", at["server"].count) \in Nat /\ Index("server", MessageLen("server")) \in Nat
    BY <2>2
  <2> QED BY <2>2, <2>3, <2>4, <2>5
<1>14. /\ Load("server", s) <= Load("client", s) /\ Before("server", s) <= Before("client", s)
       /\ Load("server", s) \in Nat /\ Load("client", s) \in Nat
       /\ Before("server", s) \in Nat /\ Before("client", s) \in Nat
  <2>1. s \in 1..Len(Passes("client")) /\ s \in PosNat /\ s <= Len(Passes("client")) + 1
    BY <1>5 DEF PosNat
  <2> QED BY <1>5, <2>1, BeforeLess, LoadFacts, EarlierFinite DEF Node
<1> QED BY <1>12, <1>13, <1>14

\* Two programs with the same tests, of which the server takes in no more than
\* the client sends, never wait for each other for ever, whether the connection
\* is lost or not: as long as no call of send() fails on a connection that
\* stays, and the server takes in as much as the client sends or the connection
\* has room for the replies of all passes.
THEOREM NeverStuck ==
  ASSUME ServerWantsLess, MaxErrors = 0,
         DataSize["server"] = DataSize["client"] \/ Len(Passes("client")) <= Capacity
  PROVE  Spec => []NoDeadlock
BY CountsInvariant, CountedOut, PTL
=============================================================================
