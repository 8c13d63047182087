--------------------------- MODULE TcpDataProofs ----------------------------
(***************************************************************************)
(* Two programs started alike agree on every byte: StreamInv of            *)
(* TcpLockstep is an invariant of TcpBench, and what follows from it, last *)
(* that TcpBench then implements PassProtocol.                             *)
(***************************************************************************)
EXTENDS TcpProofs

LEMMA Alike ==
  ASSUME Matched
  PROVE  Passes("server") = Passes("client") /\ DataSize["server"] = DataSize["client"]
         /\ \A n \in Node : Passes(n) = Passes("client") /\ DataSize[n] = DataSize["client"]
BY DEF Matched, Passes, Node

LEMMA TotalFacts ==
  ASSUME NEW p \in 1..Len(Passes("client"))
  PROVE  Total(p) \in Nat /\ Total(p) > 0
<1>1. /\ Passes("client")[p].size \in Nat /\ Passes("client")[p].size > 0
      /\ DataSize["client"] \in Nat /\ DataSize["client"] > 0 /\ NumLoops \in Nat /\ NumLoops > 0
  BY PassesFacts, ConstantsAssumption DEF PosNat, Node
<1> DEFINE b == Passes("client")[p].size
<1>2. NumLoops * b \in Nat /\ NumLoops * b > 0
  <2> HIDE DEF b
  <2>1. b \in Nat /\ b > 0
    BY <1>1 DEF b
  <2> QED BY <1>1, <2>1
<1> QED BY <1>1, <1>2 DEF Total

\* Where a program is in the data of its pass.
LEMMA ProgressFacts ==
  ASSUME Matched, TypeInv, NEW n \in Node, at[n].label = "move", at[n].pass <= Len(Passes(n)), state[n] # "done"
  PROVE  /\ Progress(n) = Index(n, at[n].count)
         /\ \A i \in Nat : Index(n, i) = Index(n, 0) + i /\ Index(n, i) \in Nat
         /\ Index(n, MessageLen(n)) <= Total(at[n].pass)
         /\ ~MoreMessages(n) => Index(n, MessageLen(n)) = Total(at[n].pass)
         /\ at[n].count \in Nat /\ MessageLen(n) \in Nat /\ at[n].off \in Nat /\ Size(n) \in Nat /\ Size(n) > 0
         /\ at[n].pass \in 1..Len(Passes("client"))
<1>1. Progress(n) = Index(n, at[n].count)
  BY DEF Progress
<1>2. Total(at[n].pass) = Load(n, at[n].pass) /\ Passes(n) = Passes("client")
  BY Alike DEF Total, Load
<1> QED BY <1>1, <1>2, MovedFacts

\* The server's place, as the next byte it takes in.
LEMMA ServerFacts ==
  ASSUME Matched, TypeInv
  PROVE  /\ Answered \in Nat /\ NextPass = Answered + 1 /\ NextPass \in PosNat /\ NextByte \in Nat
         /\ at["server"].pass \in PosNat /\ at["server"].count \in Nat
         /\ at["server"].label \in {"start", "accept"} => Answered = 0 /\ NextByte = 0 /\ at["server"].pass = 1
         /\ at["server"].label = "move" => Answered = at["server"].pass - 1
         /\ at["server"].label = "move" /\ state["server"] # "done" =>
              /\ NextByte = Index("server", at["server"].count)
              /\ at["server"].pass \in 1..Len(Passes("client"))
         /\ state["server"] = "done" => NextByte = 0
         /\ at["server"].label = "reply" /\ at["server"].count = 0 =>
              /\ Answered = at["server"].pass - 1 /\ NextByte = Total(at["server"].pass)
         /\ at["server"].label = "reply" => at["server"].pass \in 1..Len(Passes("client"))
         /\ at["server"].label = "reply" /\ at["server"].count > 0 => Answered = at["server"].pass /\ NextByte = 0
<1> DEFINE p == at["server"].pass
<1>1. /\ at["server"] \in Place /\ PlaceOK("server") /\ at \in [Node -> Place] /\ "server" \in Node
  BY DEF TypeInv, TypeOK, Node
<1>2. Answered \in Nat /\ p \in PosNat /\ at["server"].count \in Nat /\ p \in Nat /\ p > 0
  BY <1>1, AnswersTyped DEF PosNat
<1>3. NextPass = Answered + 1 /\ NextPass \in PosNat
  BY <1>2 DEF NextPass, PosNat
<1>4. CASE at["server"].label \in {"start", "accept"}
  <2>1. p = 1 /\ state["server"] # "done"
    BY <1>1, <1>4 DEF PlaceOK
  <2>2. Answered = p - 1 /\ Answered = 0 /\ Answered # p
    BY <1>4, <2>1 DEF Answered
  <2>3. NextByte = 0
    BY <1>4, <2>2 DEF NextByte, Progress
  <2> QED BY <1>2, <1>3, <1>4, <2>1, <2>2, <2>3
<1>5. CASE at["server"].label = "move" /\ state["server"] # "done"
  <2>1. p <= Len(Passes("server")) /\ p \in 1..Len(Passes("client"))
    BY <1>1, <1>2, <1>5, Alike, PassesFacts DEF PlaceOK
  <2>2. Progress("server") = Index("server", at["server"].count) /\ Index("server", at["server"].count) \in Nat
    BY <1>1, <1>2, <1>5, <2>1, ProgressFacts
  <2>3. Answered = p - 1
    BY <1>2, <1>5 DEF Answered
  <2>4. Answered # p
    BY <1>2, <2>3
  <2> QED BY <1>2, <1>3, <1>5, <2>1, <2>2, <2>3, <2>4 DEF NextByte
<1>6. CASE at["server"].label = "move" /\ state["server"] = "done"
  <2>1. Answered = p - 1
    BY <1>2, <1>6 DEF Answered
  <2>2. Answered # p
    BY <1>2, <2>1
  <2> QED BY <1>2, <1>3, <1>6, <2>1, <2>2 DEF NextByte, Progress
<1>7. CASE at["server"].label = "reply"
  <2>1. state["server"] # "done" /\ p \in 1..Len(Passes("client"))
    BY <1>1, <1>2, <1>7, Alike, PassesFacts DEF PlaceOK
  <2>2. Total(p) \in Nat
    BY <2>1, TotalFacts
  <2>3. CASE at["server"].count = 0
    <3>1. Answered = p - 1
      BY <1>2, <1>7, <2>3 DEF Answered
    <3>2. Answered # p
      BY <1>2, <3>1
    <3> QED BY <1>2, <1>3, <1>7, <2>1, <2>2, <2>3, <3>1, <3>2 DEF NextByte, Progress
  <2>4. CASE at["server"].count > 0
    <3>1. Answered = p
      BY <1>2, <1>7, <2>4 DEF Answered
    <3> QED BY <1>2, <1>3, <1>7, <2>1, <2>4, <3>1 DEF NextByte
  <2> QED BY <1>2, <2>3, <2>4
<1> QED BY <1>1, <1>4, <1>5, <1>6, <1>7 DEF Place

Range0(s) == {s[i] : i \in DOMAIN s}

LEMMA Concatenated ==
  ASSUME NEW S, NEW T, NEW x \in Seq(S), NEW y \in Seq(T)
  PROVE  /\ Len(x \o y) = Len(x) + Len(y)
         /\ \A j \in 1..(Len(x) + Len(y)) : (x \o y)[j] = IF j <= Len(x) THEN x[j] ELSE y[j - Len(x)]
<1>1. x \in Seq(S \cup T) /\ y \in Seq(S \cup T)
  OBVIOUS
<1> QED BY <1>1

LEMMA InMessage ==
  ASSUME NEW i \in Nat, NEW c \in Nat, NEW k \in Nat, NEW m \in Nat, NEW t \in Nat,
         0 < k, c + k <= m, i + m <= t
  PROVE  i + c < t /\ i + (c + k) <= t /\ i + (c + k) = (i + c) + k /\ i + c # t
OBVIOUS

LEMMA WireFacts ==
  ASSUME TypeInv
  PROVE  /\ wire["client"] \in Seq(Bytes) /\ Len(wire["client"]) \in Nat
         /\ wire["client"] = <<>> <=> Len(wire["client"]) = 0
         /\ at["client"].pass \in PosNat /\ at["client"].count \in Nat
         /\ wire["server"] \in Seq(Bytes) /\ Len(wire["server"]) \in Nat
<1>1. wire["client"] \in Seq(Bytes) /\ wire["server"] \in Seq(Bytes) /\ at["client"] \in Place
  BY DEF TypeInv, TypeOK, Node
<1> QED BY <1>1 DEF Place

\* The client is in the pass after the last one answered, or still in it.
LEMMA ClientFacts ==
  ASSUME Matched, TypeInv, RepliesOK, WireOK
  PROVE  /\ at["client"].pass = Answered \/ at["client"].pass = NextPass
         /\ at["client"].pass <= Answered => wire["client"] = <<>> /\ NextByte = 0
         /\ at["client"].label = "reply" /\ at["client"].count > 0 => at["client"].pass = Answered
         /\ Answered # NextPass
<1>1. Answered \in Nat /\ NextPass = Answered + 1
  BY ServerFacts
<1>2. at["client"].pass \in Nat /\ at["client"].pass > 0 /\ Len(wire["server"]) \in Nat
  BY WireFacts DEF PosNat
<1>3. results = at["client"].pass - 1 /\ results \in Nat
  BY <1>2 DEF TypeInv
<1> DEFINE got == IF at["client"].label = "reply" /\ at["client"].count > 0 THEN 1 ELSE 0
<1>4. got \in Nat /\ results + got + Len(wire["server"]) <= Answered
  BY DEF RepliesOK
<1>5. got = 1 <=> at["client"].label = "reply" /\ at["client"].count > 0
  OBVIOUS
<1> HIDE DEF got
<1>6. results + got <= Answered
  BY <1>1, <1>2, <1>3, <1>4
<1>7. Answered <= at["client"].pass /\ (at["client"].pass <= Answered => wire["client"] = <<>> /\ NextByte = 0)
  BY DEF WireOK
<1>8. at["client"].pass = Answered \/ at["client"].pass = NextPass
  BY <1>1, <1>2, <1>3, <1>4, <1>6, <1>7
<1>9. got = 1 => at["client"].pass = Answered
  BY <1>1, <1>2, <1>3, <1>6, <1>7
<1> QED BY <1>1, <1>5, <1>7, <1>8, <1>9

-----------------------------------------------------------------------------
(* What a step leaves alone.                                               *)

LEMMA ProgressStays ==
  ASSUME NEW n \in Node, at'[n] = at[n], state'[n] = "done" <=> state[n] = "done"
  PROVE  Progress(n)' = Progress(n)
<1>1. \A i : Index(n, i)' = Index(n, i)
  BY DEF Index, Test, Size
<1> QED BY <1>1 DEF Progress, Total

LEMMA NextStays ==
  ASSUME at'["server"] = at["server"], state'["server"] = "done" <=> state["server"] = "done"
  PROVE  Answered' = Answered /\ NextPass' = NextPass /\ NextByte' = NextByte
<1>1. Answered' = Answered
  BY DEF Answered
<1> QED BY <1>1, ProgressStays DEF NextPass, NextByte, Node

\* A stream that loses its last bytes.
LEMMA WireShrinks ==
  ASSUME Matched, TypeInv, WireOK, TypeInv',
         Answered' = Answered, NextPass' = NextPass, NextByte' = NextByte,
         NEW t \in 0..Len(wire["client"]), wire'["client"] = SubSeq(wire["client"], 1, t),
         Answered <= at'["client"].pass,
         at'["client"].pass <= Answered => at["client"].pass <= Answered
  PROVE  WireOK'
<1> DEFINE w == wire["client"]
<1>1. w \in Seq(Bytes) /\ Len(w) \in Nat /\ t \in Nat /\ t <= Len(w)
  BY WireFacts
<1>2. wire'["client"] = SubSeq(w, 1, t)
  OBVIOUS
<1>3. WireOK
  OBVIOUS
<1>4. /\ \A j \in 1..Len(w) : w[j] = Byte(NextPass, NextByte + j - 1)
      /\ w # <<>> => NextPass <= Len(Passes("client")) /\ NextByte + Len(w) <= Total(NextPass)
      /\ at["client"].pass <= Answered => w = <<>> /\ NextByte = 0
  BY <1>3 DEF WireOK
<1> HIDE DEF w
<1>5. Len(wire'["client"]) = t /\ \A j \in 1..t : wire'["client"][j] = w[j]
  BY <1>1, <1>2
<1>6. \A j \in 1..Len(wire'["client"]) : wire'["client"][j] = Byte(NextPass', NextByte' + j - 1)
  BY <1>1, <1>4, <1>5
<1>7. wire'["client"] # <<>> => w # <<>>
  BY <1>1, <1>2
<1>8. NextByte \in Nat /\ NextPass \in PosNat
  BY ServerFacts
<1>9. wire'["client"] # <<>> => NextPass' <= Len(Passes("client")) /\ NextByte' + Len(wire'["client"]) <= Total(NextPass)'
  <2>1. SUFFICES ASSUME wire'["client"] # <<>>
                 PROVE  NextPass' <= Len(Passes("client")) /\ NextByte' + Len(wire'["client"]) <= Total(NextPass)'
    OBVIOUS
  <2>2. NextPass <= Len(Passes("client")) /\ NextByte + Len(w) <= Total(NextPass)
    BY <1>4, <1>7, <2>1
  <2>3. NextPass \in 1..Len(Passes("client"))
    BY <1>8, <2>2, PassesFacts DEF PosNat, Node
  <2>4. Total(NextPass) \in Nat
    BY <2>3, TotalFacts
  <2>5. NextByte + t <= Total(NextPass)
    BY <1>1, <1>8, <2>2, <2>4
  <2>6. Total(NextPass)' = Total(NextPass)
    BY DEF Total
  <2> QED BY <1>5, <2>2, <2>5, <2>6
<1>10. w = <<>> => wire'["client"] = <<>>
  BY <1>1, <1>2
<1> QED BY <1>4, <1>6, <1>9, <1>10 DEF WireOK

LEMMA WireStays ==
  ASSUME Matched, TypeInv, WireOK, TypeInv',
         Answered' = Answered, NextPass' = NextPass, NextByte' = NextByte,
         wire'["client"] = wire["client"] \/ wire'["client"] = <<>>,
         Answered <= at'["client"].pass,
         at'["client"].pass <= Answered => at["client"].pass <= Answered
  PROVE  WireOK'
<1> DEFINE w == wire["client"]
<1>1. w \in Seq(Bytes) /\ Len(w) \in Nat
  BY WireFacts
<1>2. \E t \in 0..Len(w) : wire'["client"] = SubSeq(w, 1, t)
  <2> HIDE DEF w
  <2>1. w = SubSeq(w, 1, Len(w)) /\ <<>> = SubSeq(w, 1, 0)
    BY <1>1
  <2>2. Len(w) \in 0..Len(w) /\ 0 \in 0..Len(w)
    BY <1>1
  <2> QED BY <2>1, <2>2 DEF w
<1>3. PICK t \in 0..Len(w) : wire'["client"] = SubSeq(w, 1, t)
  BY <1>2
<1> QED BY <1>3, WireShrinks

LEMMA BuffersStay ==
  ASSUME BuffersOK, at'["server"] = at["server"], UNCHANGED <<little, data>>, Ended("server") => Ended("server")'
  PROVE  BuffersOK'
<1>1. \A i : Index("server", i)' = Index("server", i)
  BY DEF Index, Test, Size
<1>2. Test("server")' = Test("server") /\ Size("server")' = Size("server")
  BY DEF Test, Size
<1>3. \A label : In("server", label)' => In("server", label)
  BY DEF In
<1>4. DataIntact'
  BY <1>2, <1>3 DEF BuffersOK, DataIntact
<1> QED BY <1>1, <1>2, <1>3, <1>4 DEF BuffersOK

\* A program fails, or the connection is lost: at most the end of the stream is
\* gone, and then the connection is no longer up.
LEMMA NothingMoves ==
  ASSUME Matched, StreamInv, TypeInv', UNCHANGED <<at, little, data>>,
         \A n \in Node : state'[n] = state[n] \/ (state[n] = "running" /\ state'[n] = "failed"),
         NEW t \in 0..Len(wire["client"]), wire'["client"] = SubSeq(wire["client"], 1, t),
         link' = "up" => link = "up" /\ wire'["client"] = wire["client"]
  PROVE  WireOK' /\ UpOK' /\ BuffersOK'
<1>1. TypeInv /\ RepliesOK /\ WireOK /\ UpOK /\ BuffersOK
  BY DEF StreamInv, AnswerInv
<1>2. \A n \in Node : /\ state'[n] = "done" <=> state[n] = "done"
                      /\ Ended(n) => Ended(n)'
  BY DEF Ended
<1>3. Answered' = Answered /\ NextPass' = NextPass /\ NextByte' = NextByte /\ Progress("client")' = Progress("client")
  BY <1>2, NextStays, ProgressStays DEF Node
<1>4. WireOK'
  BY <1>1, <1>3, WireShrinks DEF WireOK
<1>5. UpOK'
  <2>1. \A n \in Node : MessageLen(n)' = MessageLen(n)
    BY DEF MessageLen, Test, Size
  <2>2. Total(at["client"].pass)' = Total(at["client"].pass)
    BY DEF Total
  <2> QED BY <1>1, <1>2, <1>3, <2>1, <2>2 DEF UpOK
<1>6. BuffersOK'
  BY <1>1, <1>2, BuffersStay DEF Node
<1> QED BY <1>4, <1>5, <1>6

-----------------------------------------------------------------------------
(* The steps in which a program starts, fails, or is cut off.              *)

LEMMA WholeStream ==
  ASSUME TypeInv
  PROVE  /\ \E t \in 0..Len(wire["client"]) : wire["client"] = SubSeq(wire["client"], 1, t)
         /\ \E t \in 0..Len(wire["client"]) : <<>> = SubSeq(wire["client"], 1, t)
<1> DEFINE w == wire["client"]
<1>1. w \in Seq(Bytes) /\ Len(w) \in Nat
  BY WireFacts
<1> HIDE DEF w
<1>2. w = SubSeq(w, 1, Len(w)) /\ <<>> = SubSeq(w, 1, 0)
  BY <1>1
<1>3. Len(w) \in 0..Len(w) /\ 0 \in 0..Len(w)
  BY <1>1
<1> QED BY <1>2, <1>3 DEF w

LEMMA FailData ==
  ASSUME Matched, StreamInv, NEW n \in Node, ~Ended(n), Fail(n)
  PROVE  WireOK' /\ UpOK' /\ BuffersOK'
<1>1. TypeInv /\ TypeInv' /\ AnswerInv
  BY FailAnswers DEF StreamInv, AnswerInv
<1>2. UNCHANGED <<at, little, data>> /\ state' = [state EXCEPT ![n] = "failed"] /\ CloseSocket(n)
  BY DEF Fail
<1>3. \A m \in Node : state'[m] = state[m] \/ (state[m] = "running" /\ state'[m] = "failed")
  BY <1>1, <1>2 DEF TypeInv, TypeOK, Ended
<1>4. wire'["client"] \in {wire["client"], <<>>}
      /\ (link' = "up" => link = "up" /\ wire'["client"] = wire["client"])
  BY <1>1, <1>2, Closing DEF Node
<1>5. \E t \in 0..Len(wire["client"]) : wire'["client"] = SubSeq(wire["client"], 1, t)
  BY <1>1, <1>4, WholeStream
<1> QED BY <1>1, <1>2, <1>3, <1>4, <1>5, NothingMoves

LEMMA AcceptFailsData ==
  ASSUME Matched, StreamInv, AcceptFails
  PROVE  WireOK' /\ UpOK' /\ BuffersOK'
<1>1. TypeInv /\ TypeInv' /\ AnswerInv
  BY AcceptFailsAnswers DEF StreamInv, AnswerInv
<1>2. UNCHANGED <<at, little, data>> /\ state' = [state EXCEPT !["server"] = "failed"] /\ ~Ended("server")
  BY DEF AcceptFails, In
<1>3. \A m \in Node : state'[m] = state[m] \/ (state[m] = "running" /\ state'[m] = "failed")
  BY <1>1, <1>2 DEF TypeInv, TypeOK, Ended
<1>4. wire'["client"] \in {wire["client"], <<>>}
      /\ (link' = "up" => link = "up" /\ wire'["client"] = wire["client"])
  <2>1. CASE link = "listening"
    BY <2>1 DEF AcceptFails
  <2>2. CASE link # "listening"
    BY <1>1, <2>2, Closing DEF Node, AcceptFails
  <2> QED BY <2>1, <2>2
<1>5. \E t \in 0..Len(wire["client"]) : wire'["client"] = SubSeq(wire["client"], 1, t)
  BY <1>1, <1>4, WholeStream
<1> QED BY <1>1, <1>2, <1>3, <1>4, <1>5, NothingMoves

LEMMA LoseData ==
  ASSUME Matched, StreamInv, LoseConnection
  PROVE  WireOK' /\ UpOK' /\ BuffersOK'
<1>1. TypeInv /\ TypeInv'
  BY LoseAnswers DEF StreamInv, AnswerInv
<1>2. UNCHANGED <<at, little, data, state>> /\ link' = "reset"
  BY DEF LoseConnection, Reset
<1>3. \E t \in 0..Len(wire["client"]) : wire'["client"] = SubSeq(wire["client"], 1, t)
  <2>1. PICK k \in [Node -> 0..Capacity] :
          wire' = [n \in Node |-> SubSeq(wire[n], 1, IF k[n] < Len(wire[n]) THEN k[n] ELSE Len(wire[n]))]
    BY DEF LoseConnection, Reset
  <2> DEFINE t == IF k["client"] < Len(wire["client"]) THEN k["client"] ELSE Len(wire["client"])
  <2>2. wire'["client"] = SubSeq(wire["client"], 1, t)
    BY <2>1 DEF Node
  <2>3. t \in 0..Len(wire["client"])
    <3>1. k["client"] \in Nat /\ Len(wire["client"]) \in Nat
      BY <1>1, <2>1, WireFacts, CapacityAssumption DEF Node
    <3> QED BY <3>1
  <2> QED BY <2>2, <2>3
<1> QED BY <1>1, <1>2, <1>3, NothingMoves

LEMMA StartData ==
  ASSUME Matched, StreamInv, Connect \/ Unresolved
  PROVE  WireOK' /\ UpOK' /\ BuffersOK'
<1>1. TypeInv /\ RepliesOK /\ WireOK /\ UpOK /\ BuffersOK /\ AnswerInv /\ TypeInv' /\ RepliesOK'
  BY StartAnswers DEF StreamInv, AnswerInv
<1>2. /\ at' = [at EXCEPT !["client"] = [pass |-> 1, label |-> "move", off |-> 0, count |-> 0]]
      /\ UNCHANGED <<state, little, data, wire>> /\ link \in {"none", "listening"}
      /\ at["client"].label = "start" /\ state["client"] = "running"
  BY <1>1 DEF Connect, Unresolved, FirstPass, Begin, In, Ended, stream, TypeInv, TypeOK
<1>3. /\ at'["client"] = [pass |-> 1, label |-> "move", off |-> 0, count |-> 0]
      /\ at'["client"].pass = 1 /\ at'["client"].label = "move" /\ at'["client"].off = 0 /\ at'["client"].count = 0
      /\ at'["server"] = at["server"] /\ at["client"].pass = 1
  BY <1>1, <1>2 DEF TypeInv, TypeOK, PlaceOK, Node
<1>4. Answered' = Answered /\ NextPass' = NextPass /\ NextByte' = NextByte
  BY <1>2, <1>3, NextStays
<1>5. WireOK'
  BY <1>1, <1>2, <1>3, <1>4, WireStays DEF WireOK
<1>6. BuffersOK'
  BY <1>1, <1>2, <1>3, BuffersStay DEF Ended
<1>7. UpOK'
  <2>1. at["server"].label \in {"start", "accept"} /\ wire["client"] = <<>> /\ at'["server"].label \in {"start", "accept"}
    BY <1>1, <1>2, <1>3 DEF TypeInv, LinkOK, Node
  <2>2. Answered = 0 /\ NextByte = 0 /\ NextPass = 1
    BY <1>1, <2>1, ServerFacts
  <2>3. 1 \in 1..Len(Passes("client"))
    BY PassesFacts DEF Node
  <2>4. MessageLen("client")' \in Nat
    BY <1>2, <1>3, <2>3, StartOfPass DEF Node
  <2>5. Index("client", 0)' = 0
    <3>1. Size("client")' \in Nat
      BY <1>3, <2>3, PassesFacts DEF Size, PosNat, Node
    <3> QED BY <1>3, <3>1 DEF Index
  <2>6. Progress("client")' = 0
    BY <1>2, <1>3, <2>5 DEF Progress
  <2>7. \A n \in Node : at'[n].label \in {"move", "reply"} => at'[n].count <= MessageLen(n)'
    BY <1>3, <2>1, <2>4 DEF Node
  <2>8. Len(wire'["client"]) = 0
    BY <1>2, <2>1
  <2> QED BY <1>2, <1>3, <1>4, <2>2, <2>6, <2>7, <2>8 DEF UpOK
<1> QED BY <1>5, <1>6, <1>7

LEMMA ListenData ==
  ASSUME Matched, StreamInv, Listen
  PROVE  WireOK' /\ UpOK' /\ BuffersOK'
<1>1. TypeInv /\ RepliesOK /\ WireOK /\ UpOK /\ BuffersOK /\ AnswerInv /\ TypeInv'
  BY StartAnswers DEF StreamInv, AnswerInv
<1>2. /\ at' = [at EXCEPT !["server"].label = "accept"]
      /\ UNCHANGED <<state, little, data, wire>> /\ link' = "listening"
      /\ at["server"].label = "start" /\ at \in [Node -> Place]
  BY <1>1 DEF Listen, In, TypeInv, TypeOK
<1>3. at'["server"].label = "accept" /\ at'["client"] = at["client"]
  BY <1>2 DEF Place, Node
<1>4. Answered = 0 /\ NextByte = 0 /\ Answered' = 0 /\ NextByte' = 0 /\ NextPass' = NextPass
  <2>1. Answered = 0 /\ NextByte = 0 /\ NextPass = Answered + 1
    BY <1>1, <1>2, ServerFacts
  <2>2. at'["server"].pass = at["server"].pass /\ at["server"].pass = 1
    BY <1>1, <1>2 DEF TypeInv, PlaceOK, Place, Node
  <2>3. Answered' = 0
    BY <1>3, <2>2 DEF Answered
  <2>4. NextByte' = 0
    BY <1>3, <2>2, <2>3 DEF NextByte, Progress
  <2> QED BY <2>1, <2>3, <2>4 DEF NextPass
<1>5. WireOK'
  BY <1>1, <1>2, <1>3, <1>4, WireStays DEF WireOK
<1>6. UpOK'
  BY <1>2 DEF UpOK
<1>7. BuffersOK'
  BY <1>3 DEF BuffersOK, DataIntact, In
<1> QED BY <1>5, <1>6, <1>7

LEMMA AcceptData ==
  ASSUME Matched, StreamInv, Accept
  PROVE  /\ WireOK' /\ UpOK' /\ BuffersOK'
         /\ Answered' = Answered /\ NextPass' = NextPass /\ NextByte' = NextByte
<1>1. TypeInv /\ RepliesOK /\ WireOK /\ UpOK /\ BuffersOK /\ AnswerInv /\ TypeInv'
  BY StartAnswers DEF StreamInv, AnswerInv
<1>2. /\ at' = [at EXCEPT !["server"] = [pass |-> 1, label |-> "move", off |-> 0, count |-> 0]]
      /\ UNCHANGED <<state, little, wire, link>> /\ data' = Blank("server", 1)
      /\ at["server"].label = "accept" /\ at \in [Node -> Place] /\ state["server"] = "running"
  BY <1>1 DEF Accept, FirstPass, Begin, In, Ended, TypeInv, TypeOK, stream
<1>3. /\ at'["server"] = [pass |-> 1, label |-> "move", off |-> 0, count |-> 0]
      /\ at'["server"].pass = 1 /\ at'["server"].label = "move" /\ at'["server"].off = 0 /\ at'["server"].count = 0
      /\ at'["client"] = at["client"]
  BY <1>2 DEF Node
<1>4. 1 \in 1..Len(Passes("server")) /\ "server" \in Node
  BY PassesFacts DEF Node
<1>5. Size("server")' \in Nat /\ Size("server")' = Passes("server")[1].size /\ Test("server")' = Passes("server")[1].test
  BY <1>3, <1>4, PassesFacts DEF Size, Test, PosNat
<1>6. Answered = 0 /\ NextByte = 0 /\ Answered' = 0 /\ NextByte' = 0 /\ NextPass' = NextPass
  <2>1. Answered = 0 /\ NextByte = 0 /\ NextPass = Answered + 1
    BY <1>1, <1>2, ServerFacts
  <2>2. Answered' = 0
    BY <1>3 DEF Answered
  <2>3. Index("server", 0)' = 0
    BY <1>3, <1>5 DEF Index
  <2>4. NextByte' = 0
    BY <1>2, <1>3, <2>2, <2>3 DEF NextByte, Progress
  <2> QED BY <2>1, <2>2, <2>4 DEF NextPass
<1>7. WireOK'
  BY <1>1, <1>2, <1>3, <1>6, WireStays DEF WireOK
<1>8. UpOK'
  <2>1. Progress("client")' = Progress("client")
    BY <1>2, <1>3, ProgressStays DEF Node
  <2>2. MessageLen("server")' \in Nat
    BY <1>2, <1>3, <1>4, StartOfPass
  <2>3. MessageLen("client")' = MessageLen("client") /\ (Ended("client")' <=> Ended("client"))
    BY <1>2, <1>3, Stays DEF Node
  <2>4. Total(at["client"].pass)' = Total(at["client"].pass)
    BY <1>3 DEF Total
  <2> QED BY <1>1, <1>2, <1>3, <1>6, <2>1, <2>2, <2>3, <2>4 DEF UpOK, Node
<1>9. BuffersOK'
  <2>1. DOMAIN data' = 0..((IF Test("server")' = "throughput" THEN DataSize["server"] ELSE Size("server")') - 1)
    BY <1>2, <1>5 DEF Blank
  <2>2. DOMAIN data' \subseteq Nat
    BY <2>1, <1>5, ConstantsAssumption DEF PosNat, Node
  <2>3. \A i \in DOMAIN data' : ~(i < at'["server"].off)
    BY <1>3, <2>2
  <2>4. DataIntact'
    BY <1>3 DEF DataIntact, In
  <2> QED BY <1>3, <2>1, <2>3, <2>4 DEF BuffersOK
<1> QED BY <1>6, <1>7, <1>8, <1>9

LEMMA UnchangedData ==
  ASSUME Matched, StreamInv, UNCHANGED vars
  PROVE  WireOK' /\ UpOK' /\ BuffersOK'
<1>1. UNCHANGED <<at, state, little, data, wire, link>>
  BY DEF vars, stream
<1>2. WireOK /\ UpOK /\ BuffersOK
  BY DEF StreamInv
<1>3. /\ \A n \in Node : Progress(n)' = Progress(n) /\ MessageLen(n)' = MessageLen(n) /\ (Ended(n)' <=> Ended(n))
      /\ Answered' = Answered /\ NextPass' = NextPass /\ NextByte' = NextByte
  BY <1>1, ProgressStays, NextStays, Stays DEF Node
<1>4. Total(NextPass)' = Total(NextPass) /\ Total(at["client"].pass)' = Total(at["client"].pass)
  BY <1>1, <1>3 DEF Total
<1>5. BuffersOK'
  BY <1>1, <1>2, <1>3, BuffersStay DEF Node
<1>6. WireOK'
  BY <1>1, <1>2, <1>3, <1>4 DEF WireOK
<1>7. UpOK'
  BY <1>1, <1>2, <1>3, <1>4 DEF UpOK, Node
<1> QED BY <1>5, <1>6, <1>7

-----------------------------------------------------------------------------
(* The client's steps.                                                     *)

LEMMA ClientSendsData ==
  ASSUME Matched, StreamInv, SendSome("client")
  PROVE  WireOK' /\ UpOK' /\ BuffersOK'
<1> DEFINE n == "client"
           w == wire["client"]
           c == at["client"].count
<1>1. TypeInv /\ RepliesOK /\ WireOK /\ UpOK /\ BuffersOK /\ TypeInv' /\ n \in Node
  BY SendSomeTyped DEF StreamInv, AnswerInv, Node
<1>2. PICK k \in Nat :
        /\ 0 < k /\ c + k <= MessageLen(n) /\ c + k \in Nat
        /\ at' = [at EXCEPT ![n].count = c + k]
        /\ \/ closed[Peer(n)] /\ wire' = wire /\ link' = "reset"
           \/ /\ ~closed[Peer(n)] /\ link' = "up"
              /\ wire' = [wire EXCEPT ![n] = @ \o [i \in 1..k |-> OutByte(n, c + i - 1)]]
  BY <1>1, SentFacts
<1>3. /\ ~Ended(n) /\ link = "up" /\ at[n].label = "move" /\ UNCHANGED <<state, little, data>>
  BY <1>1, SentFacts
<1>4. state[n] = "running" /\ at[n].pass <= Len(Passes(n))
  BY <1>1, <1>3, LengthFacts DEF TypeInv, TypeOK, Ended
<1>5. /\ Progress(n) = Index(n, c) /\ c \in Nat /\ MessageLen(n) \in Nat
      /\ \A i \in Nat : Index(n, i) = Index(n, 0) + i /\ Index(n, i) \in Nat
      /\ Index(n, MessageLen(n)) <= Total(at[n].pass)
      /\ at[n].pass \in 1..Len(Passes("client"))
  BY <1>1, <1>3, <1>4, ProgressFacts
<1>6. Total(at[n].pass) \in Nat
  BY <1>5, TotalFacts
<1>7. Index(n, c) < Total(at[n].pass) /\ Index(n, c + k) <= Total(at[n].pass) /\ Index(n, c + k) = Index(n, c) + k
  <2>1. Index(n, c) = Index(n, 0) + c /\ Index(n, c + k) = Index(n, 0) + (c + k)
        /\ Index(n, MessageLen(n)) = Index(n, 0) + MessageLen(n) /\ Index(n, 0) \in Nat
    BY <1>2, <1>5
  <2>2. Index(n, 0) + MessageLen(n) <= Total(at[n].pass) /\ c \in Nat /\ MessageLen(n) \in Nat
    BY <1>5, <2>1
  <2>3. /\ Index(n, 0) + c < Total(at[n].pass) /\ Index(n, 0) + (c + k) <= Total(at[n].pass)
        /\ Index(n, 0) + (c + k) = (Index(n, 0) + c) + k
    BY <1>2, <1>6, <2>1, <2>2, InMessage
  <2> QED BY <2>1, <2>3
<1>8. /\ at[n].pass = NextPass /\ NextByte + Len(w) = Index(n, c)
      /\ Answered \in Nat /\ NextPass = Answered + 1 /\ NextByte \in Nat /\ w \in Seq(Bytes) /\ Len(w) \in Nat
  <2>1. /\ Answered \in Nat /\ NextPass = Answered + 1 /\ NextByte \in Nat /\ w \in Seq(Bytes) /\ Len(w) \in Nat
    BY <1>1, ServerFacts, WireFacts
  <2>2. Index(n, c) # Total(at[n].pass)
    <3>1. Index(n, c) \in Nat
      BY <1>5
    <3> QED BY <1>6, <1>7, <3>1
  <2>3. IF at[n].pass = NextPass THEN NextByte + Len(w) = Index(n, c) ELSE Index(n, c) = Total(at[n].pass)
    BY <1>1, <1>3, <1>5 DEF UpOK
  <2> QED BY <2>1, <2>2, <2>3
<1>9. /\ at'[n].pass = at[n].pass /\ at'[n].label = "move" /\ at'[n].off = at[n].off /\ at'[n].count = c + k
      /\ at'["server"] = at["server"] /\ MessageLen(n)' = MessageLen(n) /\ Test(n)' = Test(n) /\ Size(n)' = Size(n)
  <2> DEFINE m == c + k
  <2>1. m \in Nat /\ at' = [at EXCEPT ![n].count = m]
    BY <1>2
  <2> HIDE DEF m
  <2>2. /\ at'[n].pass = at[n].pass /\ at'[n].label = at[n].label /\ at'[n].off = at[n].off /\ at'[n].count = m
        /\ at'["server"] = at["server"] /\ MessageLen(n)' = MessageLen(n) /\ Test(n)' = Test(n) /\ Size(n)' = Size(n)
    BY <1>1, <1>3, <2>1, Counted DEF Node
  <2> QED BY <1>3, <2>2 DEF m
<1>10. Answered' = Answered /\ NextPass' = NextPass /\ NextByte' = NextByte
  BY <1>3, <1>9, NextStays
<1>11. BuffersOK'
  BY <1>1, <1>3, <1>9, BuffersStay DEF Ended
<1>12. CASE wire' = wire /\ link' = "reset"
  <2>1. WireOK'
    BY <1>1, <1>9, <1>10, <1>12, WireStays DEF WireOK
  <2> QED BY <1>11, <1>12, <2>1 DEF UpOK
<1>13. CASE /\ ~closed[Peer(n)] /\ link' = "up"
            /\ wire' = [wire EXCEPT ![n] = @ \o [i \in 1..k |-> OutByte(n, c + i - 1)]]
  <2> DEFINE b == [i \in 1..k |-> OutByte(n, c + i - 1)]
  <2>1. wire'["client"] = w \o b
    BY <1>1, <1>13 DEF TypeInv
  <2>2. \A i \in 1..k : b[i] = Byte(NextPass, NextByte + Len(w) + i - 1)
    <3> SUFFICES ASSUME NEW i \in 1..k PROVE b[i] = Byte(NextPass, NextByte + Len(w) + i - 1)
      OBVIOUS
    <3>1. c + i - 1 \in Nat /\ c \in Nat
      <4>1. c \in Nat
        BY <1>5
      <4> HIDE DEF c
      <4> QED BY <4>1
    <3>2. Index(n, c + i - 1) = Index(n, 0) + (c + i - 1) /\ Index(n, c) = Index(n, 0) + c /\ Index(n, 0) \in Nat
      BY <1>5, <3>1
    <3>3. Index(n, c + i - 1) = NextByte + Len(w) + i - 1
      <4> DEFINE x == Index(n, 0)
      <4>1. x \in Nat /\ NextByte + Len(w) = x + c /\ i \in Nat /\ c \in Nat /\ NextByte \in Nat /\ Len(w) \in Nat
        BY <1>8, <3>1, <3>2
      <4> HIDE DEF x, c, w
      <4>2. x + (c + i - 1) = NextByte + Len(w) + i - 1
        BY <4>1
      <4> QED BY <3>2, <4>2 DEF x
    <3> QED BY <1>8, <3>3 DEF OutByte
  <2>3. Len(w \o b) = Len(w) + k
        /\ \A j \in 1..(Len(w) + k) : (w \o b)[j] = IF j <= Len(w) THEN w[j] ELSE b[j - Len(w)]
    <3>1. b \in Seq(Range0(b)) /\ Len(b) = k
      BY <1>2 DEF Range0
    <3>2. w \in Seq(Bytes) /\ Len(w) \in Nat
      BY <1>8
    <3> HIDE DEF w, b, c, n
    <3>3. Len(w \o b) = Len(w) + Len(b)
      BY <3>1, <3>2, Concatenated
    <3>4. \A j \in 1..(Len(w) + Len(b)) : (w \o b)[j] = IF j <= Len(w) THEN w[j] ELSE b[j - Len(w)]
      BY <3>1, <3>2, Concatenated
    <3> QED BY <3>1, <3>3, <3>4
  <2>4. \A j \in 1..Len(w) : w[j] = Byte(NextPass, NextByte + j - 1)
    BY <1>1 DEF WireOK
  <2> HIDE DEF w, b
  <2>5. \A j \in 1..Len(wire'["client"]) : wire'["client"][j] = Byte(NextPass', NextByte' + j - 1)
    <3> SUFFICES ASSUME NEW j \in 1..(Len(w) + k) PROVE (w \o b)[j] = Byte(NextPass, NextByte + j - 1)
      BY <1>10, <2>1, <2>3
    <3>1. CASE j <= Len(w)
      <4>1. j \in 1..Len(w) /\ (w \o b)[j] = w[j]
        BY <1>8, <2>3, <3>1
      <4> QED BY <2>4, <4>1
    <3>2. CASE ~(j <= Len(w))
      <4>1. j - Len(w) \in 1..k /\ (w \o b)[j] = b[j - Len(w)] /\ NextByte + Len(w) + (j - Len(w)) - 1 = NextByte + j - 1
        BY <1>8, <2>3, <3>2
      <4> QED BY <2>2, <4>1
    <3> QED BY <3>1, <3>2
  <2>6. Len(wire'["client"]) = Len(w) + k
    BY <2>1, <2>3
  <2>7. NextByte' + Len(wire'["client"]) = Index(n, c + k)
    BY <1>5, <1>7, <1>8, <1>10, <2>6
  <2>8. NextPass' <= Len(Passes("client")) /\ NextByte' + Len(wire'["client"]) <= Total(NextPass)'
    <3>1. Total(NextPass)' = Total(at[n].pass)
      BY <1>8, <1>10 DEF Total
    <3>2. NextPass' <= Len(Passes("client"))
      BY <1>5, <1>8, <1>10
    <3> QED BY <1>7, <2>7, <3>1, <3>2
  <2>9. ~(at'["client"].pass <= Answered') /\ Answered' <= at'["client"].pass
    BY <1>8, <1>9, <1>10
  <2>10. WireOK'
    BY <2>5, <2>8, <2>9 DEF WireOK
  <2>11. Progress(n)' = Index(n, c + k)
    <3>1. state'[n] # "done"
      BY <1>3, <1>4
    <3>3. Progress(n)' = Index(n, at[n].count)'
      BY <1>9, <3>1 DEF Progress
    <3>4. Index(n, at[n].count)' = (IF Test(n)' = "throughput" THEN at'[n].off ELSE at'[n].off * Size(n)') + at'[n].count
      BY DEF Index
    <3>5. Index(n, c + k) = (IF Test(n) = "throughput" THEN at[n].off ELSE at[n].off * Size(n)) + (c + k)
      BY DEF Index
    <3> QED BY <1>9, <3>3, <3>4, <3>5
  <2>12. UpOK'
    <3>1. at'["client"].pass = NextPass'
      BY <1>8, <1>9, <1>10
    <3>2. MessageLen("server")' = MessageLen("server") /\ (Ended("server")' <=> Ended("server"))
      BY <1>3, <1>9, Stays DEF Node
    <3>3. \A m \in Node : ~Ended(m)' /\ at'[m].label \in {"move", "reply"} => at'[m].count <= MessageLen(m)'
      <4>1. at'["client"].count <= MessageLen("client")'
        BY <1>2, <1>9
      <4>2. ~Ended("server")' /\ at'["server"].label \in {"move", "reply"} => at'["server"].count <= MessageLen("server")'
        BY <1>1, <1>3, <1>9, <3>2 DEF UpOK, Node
      <4> QED BY <4>1, <4>2 DEF Node
    <3> QED BY <2>7, <2>11, <3>1, <3>3 DEF UpOK
  <2> QED BY <1>11, <2>10, <2>12
<1> QED BY <1>2, <1>12, <1>13

\* A call of send() fails only when the connection is lost or was never made.
LEMMA SendFailsDown ==
  ASSUME Matched, StreamInv, NEW n \in Node, SendFails(n)
  PROVE  link # "up" /\ link' = link /\ (n = "server" => link = "reset")
<1>1. TypeInv
  BY DEF StreamInv, AnswerInv
<1>2. ~(errors < MaxErrors)
  BY <1>1 DEF TypeInv, TypeOK, Matched
<1>3. pending[n] \/ NoSocket(n)
  BY <1>2 DEF SendFails
<1>4. pending[n] => link = "reset"
  BY <1>1 DEF TypeInv, LinkOK
<1> QED BY <1>3, <1>4 DEF SendFails, NoSocket

LEMMA ClientSendFailsData ==
  ASSUME Matched, StreamInv, SendFails("client")
  PROVE  WireOK' /\ UpOK' /\ BuffersOK'
<1> DEFINE n == "client"
<1>1. TypeInv /\ RepliesOK /\ WireOK /\ UpOK /\ BuffersOK /\ TypeInv' /\ n \in Node
  BY SendFailsTyped DEF StreamInv, AnswerInv, Node
<1>2. link' # "up"
  BY <1>1, SendFailsDown
<1>3. /\ at' = [at EXCEPT ![n].count = (@ + (SizeMax - 1)) % SizeMax]
      /\ UNCHANGED <<state, little, data, wire>> /\ at \in [Node -> Place]
  BY <1>1 DEF SendFails, Advance, TypeInv, TypeOK
<1>4. at'["server"] = at["server"] /\ at'["client"].pass = at["client"].pass
  BY <1>3 DEF Place, Node
<1>5. Answered' = Answered /\ NextPass' = NextPass /\ NextByte' = NextByte
  BY <1>3, <1>4, NextStays
<1>6. WireOK'
  BY <1>1, <1>3, <1>4, <1>5, WireStays DEF WireOK
<1>7. BuffersOK'
  BY <1>1, <1>3, <1>4, BuffersStay DEF Ended
<1> QED BY <1>2, <1>6, <1>7 DEF UpOK

LEMMA ClientReceivesData ==
  ASSUME Matched, StreamInv, ReceiveSome("client")
  PROVE  WireOK' /\ UpOK' /\ BuffersOK'
<1> DEFINE n == "client"
<1>1. TypeInv /\ RepliesOK /\ WireOK /\ UpOK /\ BuffersOK /\ TypeInv' /\ n \in Node
  BY ReceiveSomeTyped DEF StreamInv, AnswerInv, Node
<1>2. PICK k \in 1..(MessageLen(n) - at[n].count) : Taken(n, k) /\ Advance(n, k)
  BY DEF ReceiveSome
<1>3. /\ ~Ended(n) /\ at[n].label = "reply" /\ at[n].count < MessageLen(n)
      /\ UNCHANGED <<state, little, data>>
  BY DEF ReceiveSome, Receiving, In
<1>4. MessageLen(n) \in Nat /\ at[n].count \in Nat /\ k \in Nat /\ at[n].count + k <= MessageLen(n)
      /\ at[n].count + k \in Nat
  BY <1>1, <1>2, <1>3, LengthFacts
<1>5. at' = [at EXCEPT ![n].count = at[n].count + k]
  BY <1>1, <1>2, <1>3, <1>4, Advanced
<1>6. /\ at'[n].pass = at[n].pass /\ at'[n].label = "reply" /\ at'[n].count = at[n].count + k
      /\ at'["server"] = at["server"] /\ MessageLen(n)' = MessageLen(n)
  BY <1>1, <1>3, <1>4, <1>5, Counted DEF Node
<1>7. wire'["client"] = wire["client"] /\ link' = link
  BY <1>1, <1>2, <1>4, TakenFacts
<1>8. Answered' = Answered /\ NextPass' = NextPass /\ NextByte' = NextByte
  BY <1>3, <1>6, NextStays
<1>9. WireOK'
  BY <1>1, <1>6, <1>7, <1>8, WireStays DEF WireOK
<1>10. BuffersOK'
  BY <1>1, <1>3, <1>6, BuffersStay DEF Ended
<1>11. UpOK'
  <2>1. Progress(n) = Total(at[n].pass) /\ Progress(n)' = Total(at[n].pass) /\ Total(at[n].pass)' = Total(at[n].pass)
    BY <1>3, <1>6 DEF Progress, Total
  <2>2. MessageLen("server")' = MessageLen("server") /\ (Ended("server")' <=> Ended("server"))
    BY <1>3, <1>6, Stays DEF Node
  <2>3. at'[n].count <= MessageLen(n)'
    BY <1>4, <1>6
  <2> QED BY <1>1, <1>3, <1>6, <1>7, <1>8, <2>1, <2>2, <2>3 DEF UpOK, Node
<1> QED BY <1>9, <1>10, <1>11

\* The end of a message: the place in the data of the pass stays.
LEMMA MoveOverProgress ==
  ASSUME Matched, TypeInv, NEW n \in Node, MoveOver(n), at[n].count = MessageLen(n)
  PROVE  Progress(n)' = Progress(n)
<1>1. /\ state[n] # "done" /\ at[n].label = "move" /\ state' = state
  BY DEF MoveOver, MessageOver, Ended
<1>2. at'[n].label \in {"move", "reply"}
  BY MoveOverTyped
<1>3. Progress(n) = Moved(n)
  BY <1>1 DEF Progress, Moved
<1>4. Progress(n)' = Moved(n)'
  <2>1. Total(at[n].pass)' = Load(n, at[n].pass)'
    BY Alike DEF Total, Load
  <2> QED BY <1>1, <1>2, <2>1 DEF Progress, Moved
<1> QED BY <1>3, <1>4, MovedOver

LEMMA ClientMovesOn ==
  ASSUME Matched, StreamInv, MoveOver("client")
  PROVE  WireOK' /\ UpOK' /\ BuffersOK'
<1> DEFINE n == "client"
<1>1. TypeInv /\ RepliesOK /\ WireOK /\ UpOK /\ BuffersOK /\ TypeInv' /\ n \in Node
  BY MoveOverTyped DEF StreamInv, AnswerInv, Node
<1>2. /\ UNCHANGED <<state, little, data, link, wire>> /\ at[n].count >= MessageLen(n) /\ ~Ended(n)
      /\ at' = [at EXCEPT ![n] = at'[n]] /\ at[n].label = "move"
  BY <1>1 DEF MoveOver, MessageOver, NextMessage, Begin, stream, TypeInv, TypeOK
<1>3. at'["server"] = at["server"] /\ at'[n].pass = at[n].pass /\ at'[n].count = 0 /\ at'[n].label \in {"move", "reply"}
  <2>1. at'["server"] = at["server"]
    BY <1>1, <1>2 DEF TypeInv, TypeOK, Node
  <2>2. at'[n].pass = at[n].pass /\ at'[n].count = 0
    BY <1>1, MoveOverTyped
  <2>3. at'[n].label = "move" \/ at'[n].label = "reply"
    BY <1>1, MoveOverTyped
  <2> QED BY <2>1, <2>2, <2>3
<1>4. Answered' = Answered /\ NextPass' = NextPass /\ NextByte' = NextByte
  BY <1>2, <1>3, NextStays
<1>5. WireOK'
  BY <1>1, <1>2, <1>3, <1>4, WireStays DEF WireOK
<1>6. BuffersOK'
  BY <1>1, <1>2, <1>3, BuffersStay DEF Ended
<1>7. UpOK'
  <2>1. SUFFICES ASSUME link = "up" PROVE UpOK'
    BY <1>2 DEF UpOK
  <2>2. MessageLen(n) \in Nat /\ at[n].count \in Nat
    BY <1>1, <1>2, LengthFacts
  <2>3. at[n].count <= MessageLen(n)
    BY <1>1, <1>2, <2>1 DEF UpOK
  <2>4. at[n].count = MessageLen(n)
    BY <1>2, <2>2, <2>3
  <2>5. Progress(n)' = Progress(n)
    BY <1>1, <2>4, MoveOverProgress
  <2>6. MessageLen("server")' = MessageLen("server") /\ (Ended("server")' <=> Ended("server"))
    BY <1>2, <1>3, Stays DEF Node
  <2>7. Total(at[n].pass)' = Total(at[n].pass)
    BY <1>3 DEF Total
  <2>8. 0 <= MessageLen(n)'
    BY <1>1, <1>2, <1>3, LengthLater DEF Ended
  <2> QED BY <1>1, <1>2, <1>3, <1>4, <2>1, <2>5, <2>6, <2>7, <2>8 DEF UpOK, Node
<1> QED BY <1>5, <1>6, <1>7

LEMMA ClientPassData ==
  ASSUME Matched, StreamInv, PassOver("client")
  PROVE  WireOK' /\ UpOK' /\ BuffersOK'
<1> DEFINE n == "client"
<1>1. TypeInv /\ RepliesOK /\ WireOK /\ UpOK /\ BuffersOK /\ TypeInv' /\ n \in Node
  BY PassOverTyped DEF StreamInv, AnswerInv, Node
<1>2. /\ ~Ended(n) /\ at[n].label = "reply" /\ at[n].count > 0
      /\ at'[n].pass = at[n].pass + 1 /\ at'[n].label = "move" /\ at'[n].off = 0 /\ at'[n].count = 0
      /\ IF at[n].pass < Len(Passes(n)) THEN state' = state /\ UNCHANGED stream
                                        ELSE state'[n] = "done" /\ CloseSocket(n)
  BY <1>1, PassOverTyped
<1>3. at'["server"] = at["server"] /\ state'["server"] = state["server"]
  BY <1>1, PassOverTyped DEF Node
<1>4. UNCHANGED <<little, data>>
  BY DEF PassOver
<1>5. wire'["client"] = wire["client"] /\ (link' = "up" => link = "up")
  <2>1. CASE at[n].pass < Len(Passes(n))
    BY <1>2, <2>1 DEF stream
  <2>2. CASE ~(at[n].pass < Len(Passes(n)))
    BY <1>1, <1>2, <2>2, Closing
  <2> QED BY <2>1, <2>2
<1>6. Answered' = Answered /\ NextPass' = NextPass /\ NextByte' = NextByte
  BY <1>3, NextStays
<1>7. /\ at[n].pass = Answered /\ Answered \in Nat /\ NextPass = Answered + 1 /\ wire["client"] = <<>> /\ NextByte = 0
  <2>1. at[n].pass = Answered /\ Answered \in Nat /\ NextPass = Answered + 1
    BY <1>1, <1>2, ClientFacts, ServerFacts
  <2>2. at[n].pass <= Answered
    BY <2>1
  <2> QED BY <1>1, <2>1, <2>2 DEF WireOK
<1>8. at'[n].pass = NextPass' /\ Answered <= at'[n].pass /\ ~(at'[n].pass <= Answered)
  BY <1>2, <1>6, <1>7
<1>9. WireOK'
  BY <1>1, <1>5, <1>6, <1>8, WireStays
<1>10. BuffersOK'
  BY <1>1, <1>3, <1>4, BuffersStay DEF Ended
<1>11. Progress(n)' = 0
  <2>1. CASE state'[n] = "done"
    BY <1>2, <2>1 DEF Progress
  <2>2. CASE state'[n] # "done"
    <3>1. at[n].pass < Len(Passes(n))
      BY <1>2, <2>2
    <3>2. at[n].pass + 1 \in 1..Len(Passes(n))
      BY <1>1, <1>2, <3>1, LengthFacts, PassesFacts
    <3>3. Size(n)' \in Nat
      BY <1>1, <1>2, <3>2, PassesFacts DEF Size, PosNat
    <3>4. Index(n, 0)' = 0
      BY <1>2, <3>3 DEF Index
    <3> QED BY <1>2, <2>2, <3>4 DEF Progress
  <2> QED BY <2>1, <2>2
<1>12. UpOK'
  <2>1. SUFFICES ASSUME link' = "up" PROVE UpOK'
    BY DEF UpOK
  <2>2. MessageLen("server")' = MessageLen("server") /\ (Ended("server")' <=> Ended("server"))
    BY <1>3, Stays DEF Node
  <2>3. ~Ended(n)' => at'[n].count <= MessageLen(n)'
    <3>1. ~Ended(n)' => MessageLen(n)' \in Nat
      BY <1>1, <1>2, LengthLater
    <3> QED BY <1>2, <3>1
  <2>4. NextByte' + Len(wire'["client"]) = 0
    BY <1>5, <1>6, <1>7
  <2> QED BY <1>1, <1>3, <1>5, <1>8, <1>11, <2>1, <2>2, <2>3, <2>4 DEF UpOK, Node
<1> QED BY <1>9, <1>10, <1>12

-----------------------------------------------------------------------------
(* The server's steps.                                                     *)

\* A server that has all the data of its pass has emptied the stream.
LEMMA AllTakenIn ==
  ASSUME Matched, TypeInv, RepliesOK, WireOK, at["server"].label = "reply", at["server"].count = 0
  PROVE  /\ wire["client"] = <<>> /\ at["client"].pass = NextPass /\ NextPass = at["server"].pass
         /\ NextByte = Total(at["server"].pass)
<1> DEFINE p == at["server"].pass
<1>1. Answered = p - 1 /\ NextPass = Answered + 1 /\ NextByte = Total(p) /\ p \in 1..Len(Passes("client")) /\ Answered \in Nat
  BY ServerFacts
<1>2. NextPass = p /\ Total(p) \in Nat /\ Total(p) > 0
  BY <1>1, TotalFacts
<1>3. wire["client"] # <<>> => NextByte + Len(wire["client"]) <= Total(NextPass)
  BY DEF WireOK
<1>4. wire["client"] = <<>>
  BY <1>1, <1>2, <1>3, WireFacts
<1>5. ~(at["client"].pass <= Answered)
  BY <1>1, <1>2 DEF WireOK
<1>6. at["client"].pass = NextPass
  BY <1>1, <1>5, ClientFacts
<1> QED BY <1>1, <1>2, <1>4, <1>6

LEMMA ServerAnswersData ==
  ASSUME Matched, StreamInv, SendSome("server") \/ SendFails("server")
  PROVE  /\ WireOK' /\ UpOK' /\ BuffersOK'
         /\ at["client"].pass = NextPass /\ NextByte = Total(NextPass) /\ wire["client"] = <<>>
         /\ Answered' = NextPass /\ NextPass' = NextPass + 1 /\ at'["client"] = at["client"]
<1> DEFINE n == "server"
<1>1. TypeInv /\ RepliesOK /\ WireOK /\ UpOK /\ BuffersOK /\ TypeInv' /\ n \in Node
  BY SendSomeTyped, SendFailsTyped DEF StreamInv, AnswerInv, Node
<1>2. /\ ~Ended(n) /\ at[n].label = "reply" /\ UNCHANGED <<state, little, data>>
      /\ at[n].count < MessageLen(n)
  BY DEF SendSome, SendFails, Sending, In
<1>3. at[n].count = 0 /\ at[n].count \in Nat /\ MessageLen(n) = 1
  BY <1>1, <1>2, LengthFacts DEF MessageLen
<1>4. \E c \in Nat : c > 0 /\ at' = [at EXCEPT ![n].count = c] /\ (link' = "up" => c <= 1)
  <2>1. CASE SendSome(n)
    BY <1>1, <1>3, <2>1, SentFacts
  <2>2. CASE SendFails(n)
    <3>1. at' = [at EXCEPT ![n].count = (@ + (SizeMax - 1)) % SizeMax] /\ SizeMax \in Nat /\ SizeMax > 1
      BY <2>2, ConstantsAssumption DEF SendFails, Advance
    <3>2. (at[n].count + (SizeMax - 1)) % SizeMax = SizeMax - 1
      BY <1>3, <3>1
    <3>3. at' = [at EXCEPT ![n].count = SizeMax - 1]
      BY <1>1, <3>1, <3>2 DEF TypeInv, TypeOK
    <3>4. link' # "up"
      BY <1>1, <2>2, SendFailsDown
    <3>5. SizeMax - 1 \in Nat /\ SizeMax - 1 > 0
      BY <3>1
    <3> QED BY <3>3, <3>4, <3>5
  <2> QED BY <2>1, <2>2
<1>5. PICK c \in Nat : c > 0 /\ at' = [at EXCEPT ![n].count = c] /\ (link' = "up" => c <= 1)
  BY <1>4
<1>6. /\ at'[n].pass = at[n].pass /\ at'[n].label = "reply" /\ at'[n].count = c
      /\ at'["client"] = at["client"] /\ MessageLen(n)' = 1
  BY <1>1, <1>2, <1>3, <1>5, Counted DEF Node
<1>7. wire["client"] = <<>> /\ at["client"].pass = NextPass /\ NextPass = at[n].pass /\ NextByte = Total(at[n].pass)
  BY <1>1, <1>2, <1>3, AllTakenIn
<1>8. wire'["client"] = <<>> /\ (link' = "up" => link = "up")
  <2>1. CASE SendSome(n)
    <3>1. \/ wire' = wire
          \/ \E k \in Nat : wire' = [wire EXCEPT ![n] = @ \o [i \in 1..k |-> OutByte(n, at[n].count + i - 1)]]
      BY <1>1, <2>1, SentFacts
    <3> QED BY <1>1, <1>7, <2>1, <3>1, SentFacts DEF TypeInv, Node
  <2>2. CASE SendFails(n)
    BY <1>7, <2>2 DEF SendFails
  <2> QED BY <2>1, <2>2
<1>9. Answered' = at[n].pass /\ NextByte' = 0 /\ NextPass' = at[n].pass + 1 /\ at[n].pass \in Nat
  <2>1. Answered' = at[n].pass /\ at[n].pass \in Nat
    <3>1. at[n].pass \in Nat
      BY <1>1, ServerFacts DEF PosNat
    <3>2. Answered' = at[n].pass - 1 + 1
      BY <1>5, <1>6 DEF Answered
    <3> QED BY <3>1, <3>2
  <2> QED BY <1>6, <2>1 DEF NextByte, NextPass
<1>10. WireOK'
  <2>1. at'["client"].pass = at[n].pass /\ at'["client"].pass <= Answered' /\ Answered' <= at'["client"].pass
    BY <1>6, <1>7, <1>9
  <2>2. Len(wire'["client"]) = 0
    BY <1>8
  <2> QED BY <1>8, <1>9, <2>1, <2>2 DEF WireOK
<1>11. UpOK'
  <2>1. SUFFICES ASSUME link' = "up" PROVE UpOK'
    BY DEF UpOK
  <2>2. Progress("client") = Total(at["client"].pass)
    <3>1. NextByte + Len(wire["client"]) = Progress("client")
      BY <1>1, <1>7, <1>8, <2>1 DEF UpOK
    <3>2. Total(at[n].pass) \in Nat /\ Len(wire["client"]) = 0
      BY <1>1, <1>2, <1>7, ServerFacts, TotalFacts
    <3> QED BY <1>7, <3>1, <3>2
  <2>3. Progress("client")' = Progress("client") /\ Total(at["client"].pass)' = Total(at["client"].pass)
    BY <1>2, <1>6, ProgressStays DEF Total, Node
  <2>4. MessageLen("client")' = MessageLen("client") /\ (Ended("client")' <=> Ended("client"))
    BY <1>2, <1>6, Stays DEF Node
  <2>5. at'[n].count <= MessageLen(n)'
    BY <1>5, <1>6, <2>1
  <2>6. at'["client"].pass # NextPass'
    BY <1>6, <1>7, <1>9
  <2> QED BY <1>1, <1>6, <1>8, <2>1, <2>2, <2>3, <2>4, <2>5, <2>6 DEF UpOK, Node
<1>12. BuffersOK'
  <2>1. DataIntact
    BY <1>1 DEF BuffersOK
  <2>2. Test(n)' = Test(n) /\ Size(n)' = Size(n)
    BY <1>6 DEF Test, Size
  <2>3. DataIntact'
    BY <1>2, <1>6, <2>1, <2>2 DEF DataIntact, In, Ended
  <2> QED BY <1>6, <2>3 DEF BuffersOK, In
<1> QED BY <1>6, <1>7, <1>9, <1>10, <1>11, <1>12

LEMMA Parted ==
  ASSUME NEW S, NEW w \in Seq(S), NEW k \in Nat, k <= Len(w)
  PROVE  /\ SubSeq(w, 1, k) \in Seq(S) /\ Len(SubSeq(w, 1, k)) = k
         /\ \A j \in 1..k : SubSeq(w, 1, k)[j] = w[j]
         /\ Len(SubSeq(w, k + 1, Len(w))) = Len(w) - k
         /\ \A j \in 1..(Len(w) - k) : SubSeq(w, k + 1, Len(w))[j] = w[k + j]
<1>1. SubSeq(w, 1, k) \in Seq(S) /\ Len(SubSeq(w, 1, k)) = k /\ \A j \in 1..k : SubSeq(w, 1, k)[j] = w[j]
  OBVIOUS
<1> DEFINE m == Len(w)
<1>2. m \in Nat /\ m - k \in Nat
  OBVIOUS
<1>3. Len(SubSeq(w, k + 1, m)) = m - k
  OBVIOUS
<1>4. ASSUME NEW j \in 1..(m - k) PROVE SubSeq(w, k + 1, m)[j] = w[k + j]
  <2>1. j \in Nat /\ k + 1 + j - 1 = k + j /\ j \in 1..(m - (k + 1) + 1)
    BY <1>2
  <2>2. SubSeq(w, k + 1, m)[j] = w[k + 1 + j - 1]
    BY <1>2, <2>1
  <2> QED BY <2>1, <2>2
<1> QED BY <1>1, <1>3, <1>4

LEMMA ServerReceivesData ==
  ASSUME Matched, StreamInv, ReceiveSome("server")
  PROVE  /\ WireOK' /\ UpOK' /\ BuffersOK'
         /\ Answered' = Answered /\ NextPass' = NextPass
         /\ NextByte' + Len(wire'["client"]) = NextByte + Len(wire["client"])
<1> DEFINE n == "server"
           w == wire["client"]
           c == at["server"].count
           p == at["server"].pass
<1>1. TypeInv /\ RepliesOK /\ WireOK /\ UpOK /\ BuffersOK /\ TypeInv' /\ n \in Node
  BY ReceiveSomeTyped DEF StreamInv, AnswerInv, Node
<1>2. PICK k \in 1..(MessageLen(n) - c) :
        Taken(n, k) /\ Advance(n, k) /\ little' = little \o SubSeq(w, 1, k)
  BY DEF ReceiveSome
<1>3. /\ ~Ended(n) /\ at[n].label = "move" /\ c < MessageLen(n) /\ UNCHANGED <<state, data>> /\ In(n, "move")
  BY DEF ReceiveSome, Receiving, In
<1>4. MessageLen(n) \in Nat /\ c \in Nat /\ k \in Nat /\ c + k <= MessageLen(n) /\ c + k \in Nat /\ k > 0
  BY <1>1, <1>2, <1>3, LengthFacts
<1>5. state[n] = "running" /\ state[n] # "done" /\ at[n].pass <= Len(Passes(n))
  <2>1. state[n] = "running" /\ at[n].label \in {"move", "reply"}
    BY <1>3 DEF Ended
  <2>2. at[n].pass \in 1..Len(Passes(n)) /\ Len(Passes(n)) \in Nat
    BY <1>1, <1>3, <2>1, LengthFacts, PassesFacts
  <2> QED BY <2>1, <2>2
<1>6. /\ at'[n].pass = p /\ at'[n].label = "move" /\ at'[n].off = at[n].off /\ at'[n].count = c + k
      /\ at'["client"] = at["client"] /\ MessageLen(n)' = MessageLen(n) /\ Test(n)' = Test(n) /\ Size(n)' = Size(n)
  <2> DEFINE m == c + k
  <2>1. m \in Nat /\ at' = [at EXCEPT ![n].count = m]
    BY <1>1, <1>2, <1>3, <1>4, Advanced
  <2> HIDE DEF m
  <2>2. /\ at'[n].pass = p /\ at'[n].label = at[n].label /\ at'[n].off = at[n].off /\ at'[n].count = m
        /\ at'["client"] = at["client"] /\ MessageLen(n)' = MessageLen(n) /\ Test(n)' = Test(n) /\ Size(n)' = Size(n)
    BY <1>1, <1>3, <2>1, Counted DEF Node
  <2> QED BY <1>3, <2>2 DEF m
<1>7. k <= Len(w) /\ wire'["client"] = SubSeq(w, k + 1, Len(w)) /\ link' = link
  BY <1>1, <1>2, <1>4, TakenFacts DEF Peer
<1>8. /\ Answered = p - 1 /\ NextPass = Answered + 1 /\ NextByte = Index(n, c) /\ p \in PosNat /\ NextByte \in Nat
      /\ w \in Seq(Bytes) /\ Len(w) \in Nat
  BY <1>1, <1>3, <1>5, ServerFacts, WireFacts
<1>9. \A i \in Nat : Index(n, i) = Index(n, 0) + i /\ Index(n, i) \in Nat
  BY <1>1, <1>3, <1>5, ProgressFacts
<1>10. Index(n, c) = Index(n, 0) + c /\ Index(n, c + k) = Index(n, 0) + (c + k) /\ Index(n, 0) \in Nat
  BY <1>4, <1>9
<1>11. \A i : Index(n, i)' = Index(n, i)
  BY <1>6 DEF Index
<1>12. Answered' = Answered /\ NextPass' = NextPass
  BY <1>3, <1>6 DEF Answered, NextPass
<1>13. NextByte' = NextByte + k
  <2>1. Answered' # at'[n].pass
    BY <1>6, <1>8, <1>12 DEF PosNat
  <2>2. state'[n] # "done"
    BY <1>3, <1>5
  <2>3. Progress(n)' = Index(n, at[n].count)'
    BY <1>6, <2>2 DEF Progress
  <2>4. Index(n, at[n].count)' = (IF Test(n)' = "throughput" THEN at'[n].off ELSE at'[n].off * Size(n)') + at'[n].count
    BY DEF Index
  <2>5. Index(n, c + k) = (IF Test(n) = "throughput" THEN at[n].off ELSE at[n].off * Size(n)) + (c + k)
    BY DEF Index
  <2>6. NextByte' = Index(n, c + k)
    BY <1>6, <2>1, <2>3, <2>4, <2>5 DEF NextByte
  <2>7. Index(n, 0) + (c + k) = (Index(n, 0) + c) + k
    <3> HIDE DEF c, n
    <3> QED BY <1>4, <1>10
  <2> QED BY <1>8, <1>10, <2>6, <2>7
<1>14. p \in Nat /\ NextPass = p
  BY <1>8 DEF PosNat
<1>15. at["client"].pass = NextPass /\ ~(at["client"].pass <= Answered) /\ w # <<>>
  <2>1. w # <<>>
    BY <1>4, <1>7, <1>8
  <2>2. ~(at["client"].pass <= Answered)
    BY <1>1, <2>1 DEF WireOK
  <2> QED BY <1>1, <1>8, <2>1, <2>2, ClientFacts, WireFacts DEF PosNat
<1>16. /\ \A j \in 1..Len(w) : w[j] = Byte(p, NextByte + j - 1)
       /\ NextPass <= Len(Passes("client")) /\ NextByte + Len(w) <= Total(NextPass)
       /\ Answered <= at["client"].pass
  BY <1>1, <1>14, <1>15 DEF WireOK
<1> HIDE DEF w, c, p
<1>17. /\ Len(SubSeq(w, 1, k)) = k /\ SubSeq(w, 1, k) \in Seq(Bytes)
       /\ \A j \in 1..k : SubSeq(w, 1, k)[j] = w[j]
       /\ Len(wire'["client"]) = Len(w) - k
       /\ \A j \in 1..(Len(w) - k) : wire'["client"][j] = w[k + j]
  BY <1>4, <1>7, <1>8, Parted
<1>18. NextByte' + Len(wire'["client"]) = NextByte + Len(w)
  BY <1>4, <1>8, <1>13, <1>17
<1>19. WireOK'
  <2>1. \A j \in 1..Len(wire'["client"]) : wire'["client"][j] = Byte(NextPass', NextByte' + j - 1)
    <3> SUFFICES ASSUME NEW j \in 1..(Len(w) - k)
                 PROVE  wire'["client"][j] = Byte(p, NextByte + k + j - 1)
      BY <1>12, <1>13, <1>14, <1>17
    <3>1. k + j \in 1..Len(w) /\ NextByte + (k + j) - 1 = NextByte + k + j - 1
      BY <1>4, <1>7, <1>8
    <3>2. w[k + j] = Byte(p, NextByte + (k + j) - 1)
      BY <1>16, <3>1
    <3> QED BY <1>17, <3>1, <3>2
  <2>2. Total(NextPass)' = Total(NextPass)
    BY <1>12 DEF Total
  <2> QED BY <1>6, <1>12, <1>15, <1>16, <1>18, <2>1, <2>2 DEF WireOK
<1>20. UpOK'
  <2>1. Progress("client")' = Progress("client") /\ MessageLen("client")' = MessageLen("client")
        /\ (Ended("client")' <=> Ended("client"))
    BY <1>3, <1>6, ProgressStays, Stays DEF Node
  <2>2. at'[n].count <= MessageLen(n)'
    BY <1>4, <1>6
  <2> QED BY <1>1, <1>6, <1>7, <1>12, <1>15, <1>18, <2>1, <2>2 DEF UpOK, Node, w
<1>21. BuffersOK'
  <2>1. little \in Seq(Bytes \cup {Byte(0, 0)}) /\ Len(little) = c
    BY <1>1, <1>3 DEF TypeInv, TypeOK, c
  <2>2. \A j \in 1..c : little[j] = Byte(p, Index(n, j - 1))
    BY <1>1, <1>3 DEF BuffersOK, c, p
  <2>3. \A j \in 1..(c + k) : little'[j] = IF j <= c THEN little[j] ELSE w[j - c]
    <3> DEFINE s == SubSeq(w, 1, k)
    <3>1. s \in Seq(Bytes) /\ Len(s) = k /\ little' = little \o s /\ \A j \in 1..k : s[j] = w[j]
      BY <1>2, <1>17 DEF w
    <3> HIDE DEF s
    <3>2. \A j \in 1..(c + k) : (little \o s)[j] = IF j <= c THEN little[j] ELSE s[j - c]
      BY <2>1, <3>1, Concatenated
    <3>3. \A j \in 1..(c + k) : ~(j <= c) => j - c \in 1..k
      BY <1>4
    <3> QED BY <3>1, <3>2, <3>3
  <2>4. \A j \in 1..(c + k) : little'[j] = Byte(p, Index(n, j - 1))
    <3> SUFFICES ASSUME NEW j \in 1..(c + k) PROVE little'[j] = Byte(p, Index(n, j - 1))
      OBVIOUS
    <3>1. CASE j <= c
      BY <1>4, <2>2, <2>3, <3>1
    <3>2. CASE ~(j <= c)
      <4>1. j - c \in 1..Len(w) /\ little'[j] = w[j - c]
        BY <1>4, <1>7, <1>8, <2>3, <3>2
      <4>2. w[j - c] = Byte(p, NextByte + (j - c) - 1)
        BY <1>16, <4>1
      <4>3. Index(n, j - 1) = Index(n, 0) + (j - 1)
        <5>1. j - 1 \in Nat
          BY <1>4
        <5> QED BY <1>9, <5>1
      <4> DEFINE x == Index(n, 0)
      <4>4. x \in Nat /\ NextByte = x + c /\ j \in Nat
        BY <1>4, <1>8, <1>10 DEF c
      <4> HIDE DEF x
      <4>5. NextByte + (j - c) - 1 = x + (j - 1)
        BY <1>4, <4>4
      <4> QED BY <4>1, <4>2, <4>3, <4>5 DEF x
    <3> QED BY <3>1, <3>2
  <2>5. ~In(n, "reply")'
    BY <1>6 DEF In
  <2>6. /\ DOMAIN data = 0..((IF Test(n) = "throughput" THEN DataSize["server"] ELSE Size(n)) - 1)
        /\ \A i \in DOMAIN data :
             IF Test(n) = "throughput" THEN i < at[n].off => data[i] = Byte(p, i)
             ELSE at[n].off > 0 => data[i] = Byte(p, (at[n].off - 1) * Size(n) + i)
    BY <1>1, <1>3 DEF BuffersOK, p
  <2>7. data' = data
    BY <1>3
  <2> QED BY <1>6, <1>11, <2>4, <2>5, <2>6, <2>7 DEF BuffersOK, DataIntact, c, p
<1> QED BY <1>12, <1>18, <1>19, <1>20, <1>21 DEF w

\* What a message leaves in the server's data.
LEMMA Copied ==
  ASSUME Matched, TypeInv, BuffersOK, MoveOver("server"), at["server"].count = MessageLen("server")
  PROVE  /\ DOMAIN data' = DOMAIN data
         /\ DOMAIN data = 0..((IF Test("server") = "throughput" THEN DataSize["server"] ELSE Size("server")) - 1)
         /\ \A i \in DOMAIN data :
              IF Test("server") = "throughput"
              THEN i < at["server"].off + MessageLen("server") => data'[i] = Byte(at["server"].pass, i)
              ELSE data'[i] = Byte(at["server"].pass, at["server"].off * Size("server") + i)
<1> DEFINE n == "server"
           o == at["server"].off
           b == Size("server")
           l == MessageLen("server")
           p == at["server"].pass
           from == IF Test(n) = "throughput" THEN o ELSE 0
<1>1. /\ ~Ended(n) /\ at[n].label = "move" /\ state[n] = "running" /\ In(n, "move")
      /\ data' = [i \in DOMAIN data |-> IF i \in from..(from + l - 1) THEN little[i - from + 1] ELSE data[i]]
  BY DEF MoveOver, MessageOver, CopyMessage, TypeInv, TypeOK, Ended, In, Node
<1>2. at[n].pass <= Len(Passes(n)) /\ n \in Node
  BY <1>1, LengthFacts, PassesFacts DEF Node
<1>3. /\ b \in Nat /\ b > 0 /\ o \in Nat /\ l \in Nat
      /\ Test(n) \in {"throughput", "latency"}
  BY <1>1, <1>2, MessageFacts
<1>4. /\ DOMAIN data = 0..((IF Test(n) = "throughput" THEN DataSize[n] ELSE b) - 1)
      /\ \A j \in 1..l : little[j] = Byte(p, Index(n, j - 1))
      /\ \A i \in DOMAIN data : Test(n) = "throughput" => (i < o => data[i] = Byte(p, i))
  BY <1>1 DEF BuffersOK
<1>5. DOMAIN data' = DOMAIN data
  BY <1>1
<1>6. \A i \in DOMAIN data : i \in Nat /\ (Test(n) # "throughput" => i < b)
  <2>1. DataSize[n] \in Nat
    BY <1>2, ConstantsAssumption DEF PosNat
  <2> QED BY <1>3, <1>4, <2>1
<1>7. ASSUME NEW i \in DOMAIN data, Test(n) = "throughput", i < o + l
      PROVE  data'[i] = Byte(p, i)
  <2>1. from = o /\ i \in Nat
    BY <1>6, <1>7
  <2>2. CASE i < o
    <3>1. ~(i \in from..(from + l - 1))
      <4> HIDE DEF from, o, l
      <4> QED BY <1>3, <2>1, <2>2
    <3> QED BY <1>1, <1>4, <1>7, <2>2, <3>1
  <2>3. CASE ~(i < o)
    <3>1. i \in from..(from + l - 1) /\ i - from + 1 \in 1..l /\ o + ((i - from + 1) - 1) = i
      <4> HIDE DEF from, o, l
      <4> QED BY <1>3, <1>7, <2>1, <2>3
    <3>2. Index(n, (i - from + 1) - 1) = i
      BY <1>7, <3>1 DEF Index
    <3>3. little[i - from + 1] = Byte(p, i)
      <4> HIDE DEF from
      <4> QED BY <1>4, <3>1, <3>2
    <3> QED BY <1>1, <3>1, <3>3
  <2> QED BY <2>2, <2>3
<1>8. ASSUME NEW i \in DOMAIN data, Test(n) # "throughput"
      PROVE  data'[i] = Byte(p, o * b + i)
  <2>1. from = 0 /\ i \in Nat /\ i < b /\ l = b
    BY <1>1, <1>6, <1>8 DEF MessageLen
  <2>2. i \in from..(from + l - 1) /\ i - from + 1 = i + 1 /\ i + 1 \in 1..l /\ (i + 1) - 1 = i
    <3> HIDE DEF from, l, b
    <3> QED BY <1>3, <2>1
  <2>3. Index(n, (i + 1) - 1) = o * b + i
    BY <1>8, <2>2 DEF Index
  <2>4. little[i + 1] = Byte(p, o * b + i)
    BY <1>4, <2>2, <2>3
  <2> QED BY <1>1, <2>2, <2>4
<1> QED BY <1>4, <1>5, <1>7, <1>8

LEMMA ServerMovesOn ==
  ASSUME Matched, StreamInv, MoveOver("server")
  PROVE  /\ WireOK' /\ UpOK' /\ BuffersOK'
         /\ Answered' = Answered /\ NextPass' = NextPass /\ NextByte' = NextByte
<1> DEFINE n == "server"
           o == at["server"].off
           b == Size("server")
           p == at["server"].pass
<1>1. TypeInv /\ RepliesOK /\ WireOK /\ UpOK /\ BuffersOK /\ TypeInv' /\ n \in Node
  BY MoveOverTyped DEF StreamInv, AnswerInv, Node
<1>2. /\ UNCHANGED <<state, link, wire>> /\ at[n].count >= MessageLen(n) /\ ~Ended(n) /\ In(n, "move")
      /\ at' = [at EXCEPT ![n] = at'[n]] /\ at[n].label = "move" /\ state[n] = "running"
  BY <1>1 DEF MoveOver, MessageOver, NextMessage, Begin, stream, TypeInv, TypeOK, In, Ended
<1>3. at'["client"] = at["client"]
  BY <1>1, <1>2 DEF TypeInv, TypeOK, Node
<1>4. /\ at'[n].pass = p /\ at'[n].count = 0
      /\ IF MoreMessages(n)
         THEN /\ at'[n].label = "move"
              /\ at'[n].off = o + (IF Test(n) = "throughput" THEN b ELSE 1)
         ELSE at'[n].label = "reply" /\ at'[n].off = 0
  BY <1>1, MoveOverTyped
<1>5. at[n].count = MessageLen(n) /\ at[n].pass <= Len(Passes(n))
  <2>1. at[n].count <= MessageLen(n)
    BY <1>1, <1>2 DEF TypeInv
  <2> QED BY <1>1, <1>2, <2>1, LengthFacts, PassesFacts
<1>6. Progress(n)' = Progress(n)
  BY <1>1, <1>5, MoveOverProgress
<1>7. Answered' = Answered /\ NextPass' = NextPass /\ NextByte' = NextByte
  <2>1. Answered = p - 1 /\ p \in Nat
    BY <1>1, <1>2, ServerFacts DEF PosNat
  <2>2. Answered' = p - 1
    <3>1. ~(at'[n].label = "reply" /\ at'[n].count > 0)
      BY <1>4
    <3>2. Answered' = at'[n].pass - 1 + 0
      BY <3>1 DEF Answered
    <3> QED BY <1>4, <2>1, <3>2
  <2>3. NextByte = Progress(n)
    BY <2>1 DEF NextByte
  <2>4. NextByte' = Progress(n)'
    BY <1>4, <2>1, <2>2 DEF NextByte
  <2> QED BY <1>6, <2>1, <2>2, <2>3, <2>4 DEF NextPass
<1>8. WireOK'
  BY <1>1, <1>2, <1>3, <1>7, WireStays DEF WireOK
<1>9. UpOK'
  <2>1. Progress("client")' = Progress("client") /\ MessageLen("client")' = MessageLen("client")
        /\ (Ended("client")' <=> Ended("client"))
    BY <1>2, <1>3, ProgressStays, Stays DEF Node
  <2>2. MessageLen(n)' \in Nat
    <3>1. ~Ended(n)' /\ at'[n].label \in {"move", "reply"}
      BY <1>2, <1>4 DEF Ended
    <3> QED BY <1>1, <3>1, LengthLater
  <2>3. at'[n].count <= MessageLen(n)'
    BY <1>4, <2>2
  <2>4. Total(at["client"].pass)' = Total(at["client"].pass)
    BY <1>3 DEF Total
  <2> QED BY <1>1, <1>2, <1>3, <1>7, <2>1, <2>3, <2>4 DEF UpOK, Node
<1>10. Test(n)' = Test(n) /\ Size(n)' = b
  BY <1>4 DEF Test, Size
<1>11. /\ DOMAIN data' = DOMAIN data
       /\ DOMAIN data = 0..((IF Test(n) = "throughput" THEN DataSize[n] ELSE b) - 1)
       /\ \A i \in DOMAIN data :
            IF Test(n) = "throughput" THEN i < o + MessageLen(n) => data'[i] = Byte(p, i)
            ELSE data'[i] = Byte(p, o * b + i)
  BY <1>1, <1>5, Copied
<1>12. o \in Nat /\ b \in Nat /\ Test(n) \in {"throughput", "latency"} /\ MessageLen(n) \in Nat
  BY <1>1, <1>2, <1>5, MessageFacts
<1>13. BuffersOK'
  <2>1. CASE MoreMessages(n)
    <3>1. at'[n].label = "move" /\ MessageLen(n) = b
          /\ at'[n].off = o + (IF Test(n) = "throughput" THEN b ELSE 1)
      BY <1>1, <1>2, <1>4, <1>5, <2>1, MessageFacts
    <3>2. DataIntact'
      BY <3>1 DEF DataIntact, In
    <3>3. \A j \in 1..at'[n].count : FALSE
      BY <1>4
    <3>4. Test(n) # "throughput" => at'[n].off - 1 = o
      BY <1>12, <3>1
    <3>5. \A i \in DOMAIN data' :
            IF Test(n)' = "throughput" THEN i < at'[n].off => data'[i] = Byte(at'[n].pass, i)
            ELSE at'[n].off > 0 => data'[i] = Byte(at'[n].pass, (at'[n].off - 1) * Size(n)' + i)
      BY <1>4, <1>10, <1>11, <3>1, <3>4
    <3> QED BY <1>10, <1>11, <3>2, <3>3, <3>5 DEF BuffersOK
  <2>2. CASE ~MoreMessages(n)
    <3>1. at'[n].label = "reply"
      BY <1>4, <2>2
    <3>2. Test(n) = "throughput" => o + MessageLen(n) = DataSize[n]
      <4>1. SUFFICES ASSUME Test(n) = "throughput" PROVE o + MessageLen(n) = DataSize[n]
        OBVIOUS
      <4>2. Index(n, MessageLen(n)) = DataSize[n]
        BY <1>1, <1>2, <1>5, <2>2, <4>1, MessageFacts
      <4> QED BY <4>1, <4>2 DEF Index
    <3>3. Test(n) # "throughput" => o = NumLoops - 1
      <4>1. SUFFICES ASSUME Test(n) # "throughput" PROVE o = NumLoops - 1
        OBVIOUS
      <4>2. o < NumLoops /\ NumLoops \in Nat
        BY <1>1, <1>2, <4>1, ConstantsAssumption DEF TypeInv, PlaceOK, PosNat
      <4>3. ~(o + 1 < NumLoops)
        BY <2>2, <4>1 DEF MoreMessages
      <4> QED BY <1>12, <4>2, <4>3
    <3>4. DataSize[n] \in Nat
      BY <1>1, ConstantsAssumption DEF PosNat
    <3>5. \A i \in DOMAIN data' :
            data'[i] = Byte(at'[n].pass, IF Test(n)' = "throughput" THEN i ELSE (NumLoops - 1) * Size(n)' + i)
      <4> SUFFICES ASSUME NEW i \in DOMAIN data
                   PROVE  data'[i] = Byte(p, IF Test(n) = "throughput" THEN i ELSE (NumLoops - 1) * b + i)
        BY <1>4, <1>10, <1>11
      <4>1. CASE Test(n) = "throughput"
        <5>1. i \in 0..(DataSize[n] - 1)
          BY <1>11, <4>1
        <5>2. i < o + MessageLen(n)
          BY <3>2, <3>4, <4>1, <5>1
        <5> QED BY <1>11, <4>1, <5>2
      <4>2. CASE Test(n) # "throughput"
        BY <1>11, <3>3, <4>2
      <4> QED BY <4>1, <4>2
    <3> QED BY <3>1, <3>5 DEF BuffersOK, DataIntact, In
  <2> QED BY <2>1, <2>2
<1> QED BY <1>7, <1>8, <1>9, <1>13

LEMMA ServerPassData ==
  ASSUME Matched, StreamInv, PassOver("server")
  PROVE  /\ WireOK' /\ UpOK' /\ BuffersOK'
         /\ Answered' = Answered /\ NextPass' = NextPass /\ NextByte' = NextByte
<1> DEFINE n == "server"
<1>1. TypeInv /\ RepliesOK /\ WireOK /\ UpOK /\ BuffersOK /\ TypeInv' /\ n \in Node
  BY PassOverTyped DEF StreamInv, AnswerInv, Node
<1>2. /\ ~Ended(n) /\ at[n].label = "reply" /\ at[n].count > 0
      /\ at'[n].pass = at[n].pass + 1 /\ at'[n].label = "move" /\ at'[n].off = 0 /\ at'[n].count = 0
      /\ IF at[n].pass < Len(Passes(n)) THEN state' = state /\ UNCHANGED stream
                                        ELSE state'[n] = "done" /\ CloseSocket(n)
  BY <1>1, PassOverTyped
<1>3. at'["client"] = at["client"] /\ state'["client"] = state["client"]
  BY <1>1, PassOverTyped DEF Node
<1>4. at[n].pass \in 1..Len(Passes(n)) /\ at[n].pass \in Nat
  BY <1>1, <1>2, LengthFacts
<1>5. Answered = at[n].pass /\ NextByte = 0
  BY <1>1, <1>2, ServerFacts
<1>6. at[n].pass < Len(Passes(n)) \/ state'[n] = "done"
  BY <1>2
<1>7. at[n].pass < Len(Passes(n)) => Size(n)' \in Nat /\ Size(n)' = Passes(n)[at[n].pass + 1].size
                                     /\ Test(n)' = Passes(n)[at[n].pass + 1].test
  <2>1. at[n].pass < Len(Passes(n)) => at[n].pass + 1 \in 1..Len(Passes(n))
    BY <1>1, <1>4, PassesFacts
  <2> QED BY <1>1, <1>2, <2>1, PassesFacts DEF Size, Test, PosNat
<1>8. Answered' = Answered /\ NextPass' = NextPass /\ NextByte' = NextByte
  <2>1. Answered' = at[n].pass
    <3>1. ~(at'[n].label = "reply" /\ at'[n].count > 0)
      BY <1>2
    <3>2. Answered' = at'[n].pass - 1 + 0
      BY <3>1 DEF Answered
    <3> QED BY <1>2, <1>4, <3>2
  <2>2. Progress(n)' = 0
    <3>1. CASE state'[n] = "done"
      BY <1>2, <3>1 DEF Progress
    <3>2. CASE state'[n] # "done"
      <4>1. Index(n, 0)' = 0
        BY <1>2, <1>6, <1>7, <3>2 DEF Index
      <4> QED BY <1>2, <3>2, <4>1 DEF Progress
    <3> QED BY <3>1, <3>2
  <2>3. NextByte' = 0
    BY <2>2 DEF NextByte
  <2> QED BY <1>5, <2>1, <2>3 DEF NextPass
<1>9. wire'["client"] \in {wire["client"], <<>>} /\ (link' = "up" => link = "up" /\ wire'["client"] = wire["client"])
  <2>1. CASE at[n].pass < Len(Passes(n))
    BY <1>2, <2>1 DEF stream
  <2>2. CASE ~(at[n].pass < Len(Passes(n)))
    BY <1>1, <1>2, <2>2, Closing DEF Node
  <2> QED BY <2>1, <2>2
<1>10. WireOK'
  BY <1>1, <1>3, <1>8, <1>9, WireStays DEF WireOK
<1>11. UpOK'
  <2>1. SUFFICES ASSUME link' = "up" PROVE UpOK'
    BY DEF UpOK
  <2>2. Progress("client")' = Progress("client") /\ MessageLen("client")' = MessageLen("client")
        /\ (Ended("client")' <=> Ended("client"))
    BY <1>3, ProgressStays, Stays DEF Node
  <2>3. ~Ended(n)' => at'[n].count <= MessageLen(n)'
    <3>1. ~Ended(n)' => MessageLen(n)' \in Nat
      BY <1>1, <1>2, LengthLater
    <3> QED BY <1>2, <3>1
  <2>4. Total(at["client"].pass)' = Total(at["client"].pass)
    BY <1>3 DEF Total
  <2> QED BY <1>1, <1>3, <1>8, <1>9, <2>1, <2>2, <2>3, <2>4 DEF UpOK, Node
<1>12. BuffersOK'
  <2>1. CASE state'[n] = "done"
    BY <2>1 DEF BuffersOK, DataIntact, In, Ended
  <2>2. CASE state'[n] # "done"
    <3>1. data' = Blank(n, at[n].pass + 1)
      BY <1>6, <2>2 DEF PassOver
    <3>2. DOMAIN data' = 0..((IF Test(n)' = "throughput" THEN DataSize[n] ELSE Size(n)') - 1)
      BY <1>6, <1>7, <2>2, <3>1 DEF Blank
    <3>3. DOMAIN data' \subseteq Nat
      BY <1>1, <1>6, <1>7, <2>2, <3>2, ConstantsAssumption DEF PosNat
    <3>4. \A i \in DOMAIN data' : ~(i < at'[n].off)
      BY <1>2, <3>3
    <3>5. DataIntact'
      BY <1>2 DEF DataIntact, In
    <3> QED BY <1>2, <3>2, <3>4, <3>5 DEF BuffersOK
  <2> QED BY <2>1, <2>2
<1> QED BY <1>8, <1>10, <1>11, <1>12

-----------------------------------------------------------------------------
(* The theorems.                                                           *)

LEMMA StreamInit0 ==
  ASSUME Matched, Init
  PROVE  StreamInv
<1>1. AnswerInv /\ TypeInv
  BY AnswerInit DEF AnswerInv
<1>2. /\ at = [n \in Node |-> [pass |-> 1, label |-> "start", off |-> 0, count |-> 0]]
      /\ link = "none" /\ wire = [n \in Node |-> <<>>]
  BY DEF Init, StreamInit
<1>3. at["server"].label = "start" /\ at["client"].pass = 1 /\ wire["client"] = <<>> /\ Len(wire["client"]) = 0
  BY <1>2 DEF Node
<1>4. Answered = 0 /\ NextByte = 0
  BY <1>1, <1>3, ServerFacts
<1>5. WireOK
  BY <1>3, <1>4 DEF WireOK
<1>6. UpOK /\ BuffersOK
  BY <1>2, <1>3 DEF UpOK, BuffersOK, DataIntact, In
<1> QED BY <1>1, <1>5, <1>6 DEF StreamInv

LEMMA ProgramData ==
  ASSUME Matched, StreamInv, NEW n \in Node, Program(n)
  PROVE  WireOK' /\ UpOK' /\ BuffersOK'
<1>1. CASE SendKills(n) \/ ReceiveFails(n)
  BY <1>1, FailData DEF SendKills, ReceiveFails, Sending, Receiving, In
<1>2. CASE n = "client" /\ (SendSome(n) \/ SendFails(n) \/ ReceiveSome(n) \/ MoveOver(n) \/ PassOver(n))
  BY <1>2, ClientSendsData, ClientSendFailsData, ClientReceivesData, ClientMovesOn, ClientPassData
<1>3. CASE n = "server" /\ (SendSome(n) \/ SendFails(n) \/ ReceiveSome(n) \/ MoveOver(n) \/ PassOver(n))
  BY <1>3, ServerAnswersData, ServerReceivesData, ServerMovesOn, ServerPassData
<1> QED BY <1>1, <1>2, <1>3 DEF Program, Node

LEMMA StreamStep ==
  ASSUME Matched, StreamInv, [Next]_vars
  PROVE  StreamInv'
<1>1. AnswerInv'
  BY AnswerStep DEF StreamInv
<1>2. ASSUME NEW n \in Node, Program(n) PROVE WireOK' /\ UpOK' /\ BuffersOK'
  BY <1>2, ProgramData
<1>3. CASE ConnectRefused \/ ConnectFails \/ ListenFails
  <2>1. \E n \in Node : ~Ended(n) /\ Fail(n)
    BY <1>3 DEF ConnectRefused, ConnectFails, ListenFails, In, Node
  <2>2. WireOK' /\ UpOK' /\ BuffersOK'
    BY <2>1, FailData
  <2> QED BY <1>1, <2>2 DEF StreamInv
<1>4. CASE Connect \/ Unresolved \/ Listen \/ Accept
  BY <1>1, <1>4, StartData, ListenData, AcceptData DEF StreamInv
<1>5. CASE AcceptFails \/ LoseConnection
  BY <1>1, <1>5, AcceptFailsData, LoseData DEF StreamInv
<1>6. CASE UNCHANGED vars
  BY <1>1, <1>6, UnchangedData DEF StreamInv
<1> QED BY <1>1, <1>2, <1>3, <1>4, <1>5, <1>6 DEF StreamInv, Next, Client, Server, Node

\* Two programs started alike: the stream holds the bytes from the next one the
\* server takes in, in order and of one pass, and the server's buffers hold those
\* before it; while the connection is up none is missing.
THEOREM StreamInvariant ==
  ASSUME Matched
  PROVE  Spec => []StreamInv
<1>1. Init => StreamInv
  BY StreamInit0
<1>2. StreamInv /\ [Next]_vars => StreamInv'
  BY StreamStep
<1> QED BY <1>1, <1>2, PTL DEF Spec

\* Two programs started alike: what the server has when it answers is what the
\* client generated for the pass, byte for byte, however send() and recv() cut
\* the stream and whenever the connection is lost.
THEOREM DataArrive ==
  ASSUME Matched
  PROVE  Spec => []DataIntact
<1>1. StreamInv => DataIntact
  BY DEF StreamInv, BuffersOK
<1> QED BY <1>1, StreamInvariant, PTL

\* Two programs started alike: every result stands for a pass the server has
\* answered, and the server is never more than one pass ahead.
THEOREM EveryResultAnswered ==
  ASSUME Matched
  PROVE  Spec => []ResultsAnswered
<1>1. AnswerInv => NoResultWithoutAnswer
  BY AnsweredFirst
<1>2. StreamInv => Answered <= results + 1
  <2>1. SUFFICES ASSUME StreamInv PROVE Answered <= results + 1
    OBVIOUS
  <2>2. Answered <= at["client"].pass /\ results = at["client"].pass - 1 /\ at["client"].pass \in Nat
    BY <2>1, WireFacts DEF StreamInv, WireOK, AnswerInv, TypeInv, PosNat
  <2> QED BY <2>2
<1>3. StreamInv => ResultsAnswered
  BY <1>1, <1>2 DEF StreamInv, ResultsAnswered
<1> QED BY <1>3, StreamInvariant, PTL

\* Two programs started alike: as long as the connection is up and the server
\* runs, a client that starts a pass finds both directions of the stream empty.
THEOREM CleanStart ==
  ASSUME Matched
  PROVE  Spec => [](link = "up" /\ ~Ended("server") => NothingLeftOver)
<1>1. ASSUME StreamInv, link = "up", ~Ended("server"),
             In("client", "move"), at["client"].off = 0, at["client"].count = 0
      PROVE  /\ wire["client"] = <<>> /\ wire["server"] = <<>>
             /\ at["server"].label \in {"accept", "reply"} \/ at["server"].pass = at["client"].pass
             /\ at["server"].count = 1 \/ at["server"].label # "reply"
  <2> DEFINE n == "client"
             p == at["client"].pass
  <2>1. TypeInv /\ RepliesOK /\ WireOK /\ UpOK /\ n \in Node /\ ~Ended(n) /\ at[n].label = "move"
    BY <1>1 DEF StreamInv, AnswerInv, Node, In
  <2>2. state[n] # "done" /\ p <= Len(Passes(n))
    BY <2>1, LengthFacts, PassesFacts DEF Ended
  <2>3. Progress(n) = 0 /\ p \in 1..Len(Passes("client"))
    <3>1. Progress(n) = Index(n, 0) /\ Size(n) \in Nat /\ p \in 1..Len(Passes("client"))
      BY <1>1, <2>1, <2>2, ProgressFacts
    <3>2. Index(n, 0) = 0
      BY <1>1, <3>1 DEF Index
    <3> QED BY <3>1, <3>2
  <2>4. Total(p) # 0
    BY <2>3, TotalFacts
  <2>5. p = NextPass /\ NextByte + Len(wire["client"]) = 0
    BY <1>1, <2>1, <2>3, <2>4 DEF UpOK
  <2>6. NextByte = 0 /\ wire["client"] = <<>> /\ Answered \in Nat /\ NextPass = Answered + 1
    BY <2>1, <2>5, ServerFacts, WireFacts
  <2>7. wire["server"] = <<>>
    <3>1. results + 0 + Len(wire["server"]) <= Answered
      BY <2>1 DEF RepliesOK
    <3>2. results = p - 1 /\ Len(wire["server"]) \in Nat /\ wire["server"] \in Seq(Bytes)
      BY <2>1, WireFacts DEF TypeInv
    <3>3. results = Answered
      BY <2>5, <2>6, <3>2
    <3>4. Len(wire["server"]) = 0
      BY <2>6, <3>1, <3>2, <3>3
    <3> QED BY <3>2, <3>4
  <2>8. at["server"].label = "reply" => at["server"].count = 1
    <3>1. SUFFICES ASSUME at["server"].label = "reply" PROVE at["server"].count = 1
      OBVIOUS
    <3>2. at["server"].count <= 1 /\ at["server"].count \in Nat
      BY <1>1, <2>1, <3>1, ServerFacts DEF UpOK, MessageLen, Node
    <3>3. at["server"].pass \in 1..Len(Passes("client")) /\ (at["server"].count = 0 => NextByte = Total(at["server"].pass))
      BY <2>1, <3>1, ServerFacts
    <3>4. at["server"].count # 0
      BY <2>6, <3>3, TotalFacts
    <3> QED BY <3>2, <3>4
  <2>9. at["server"].label \in {"start", "accept", "move"} => at["server"].pass = p
    <3>1. at["server"].pass \in Nat
      BY <2>1, ServerFacts DEF PosNat
    <3>2. at["server"].label \in {"start", "accept", "move"} => Answered = at["server"].pass - 1
      BY <2>1, ServerFacts
    <3> QED BY <2>5, <2>6, <3>1, <3>2
  <2>10. at["server"].label \in {"start", "accept", "move", "reply"}
    BY <2>1 DEF TypeInv, TypeOK, Place, Node
  <2> QED BY <2>6, <2>7, <2>8, <2>9, <2>10
<1>2. StreamInv => (link = "up" /\ ~Ended("server") => NothingLeftOver)
  BY <1>1 DEF NothingLeftOver
<1> QED BY <1>2, StreamInvariant, PTL

-----------------------------------------------------------------------------
(* Two programs started alike implement PassProtocol: every step of        *)
(* TcpBench is a step of the promise, or changes nothing it speaks of.     *)

LEMMA HandedFacts ==
  ASSUME Matched, TypeInv, at["client"].label = "move", at["client"].pass <= Len(Passes("client")),
         state["client"] # "done"
  PROVE  HandedOver <=> Index("client", at["client"].count) = Total(at["client"].pass)
<1>1. Total(at["client"].pass) = IF Test("client") = "throughput" THEN DataSize["client"] ELSE NumLoops * Size("client")
  BY DEF Total, Test, Size
<1> QED BY <1>1 DEF HandedOver

LEMMA HandedStays ==
  ASSUME at'["client"] = at["client"]
  PROVE  HandedOver' <=> HandedOver
BY DEF HandedOver, Index, Test, Size

\* Before the connection is lost, what is not handed over is not in the stream.
LEMMA HandUnlessReset == Matched => (StreamInv /\ link # "reset" => HandOK)
<1>1. SUFFICES ASSUME Matched, StreamInv, link # "reset",
                      at["client"].pass = NextPass, NextPass <= Len(Passes("client")),
                      NextByte + Len(wire["client"]) = Total(NextPass)
               PROVE  HandedOver
  BY DEF HandOK
<1>2. TypeInv /\ UpOK /\ AnswerInv /\ "client" \in Node
  BY <1>1 DEF StreamInv, AnswerInv, Node
<1>3. NextPass \in 1..Len(Passes("client")) /\ NextByte \in Nat
  BY <1>1, <1>2, ServerFacts, PassesFacts DEF PosNat, Node
<1>4. Total(NextPass) \in Nat /\ Total(NextPass) > 0
  BY <1>3, TotalFacts
<1>5. link = "up"
  <2>1. link \in {"none", "listening"} => wire["client"] = <<>> /\ at["server"].label \in {"start", "accept"}
    BY <1>2 DEF TypeInv, LinkOK
  <2>2. link \in {"none", "listening"} => NextByte = 0 /\ Len(wire["client"]) = 0
    BY <1>1, <1>2, <2>1, ServerFacts
  <2>3. link \in {"none", "listening", "up", "reset"}
    BY <1>2 DEF TypeInv, TypeOK
  <2> QED BY <1>1, <1>4, <2>2, <2>3
<1>6. Progress("client") = Total(at["client"].pass)
  BY <1>1, <1>2, <1>5 DEF UpOK
<1>7. CASE at["client"].label = "reply"
  BY <1>7 DEF HandedOver
<1>8. CASE at["client"].label = "move" /\ state["client"] # "done"
  <2>1. Progress("client") = Index("client", at["client"].count)
    BY <1>8 DEF Progress
  <2> QED BY <1>1, <1>2, <1>6, <1>8, <2>1, HandedFacts
<1>9. CASE ~(at["client"].label = "reply") /\ ~(at["client"].label = "move" /\ state["client"] # "done")
  <2>1. Progress("client") = 0
    BY <1>9 DEF Progress
  <2> QED BY <1>1, <1>4, <1>6, <2>1
<1> QED BY <1>7, <1>8, <1>9

LEMMA HandUnlessResetLater == Matched => (StreamInv' /\ link' # "reset" => HandOK')
<1>1. Matched => (StreamInv /\ link # "reset" => HandOK)
  BY HandUnlessReset
<1>2. (Matched => (StreamInv /\ link # "reset" => HandOK))'
  BY <1>1, PTL
<1>3. Matched' <=> Matched
  BY DEF Matched
<1> QED BY <1>2, <1>3

\* A step that brings no byte into the stream.
LEMMA HandKept ==
  ASSUME Matched, HandInv, StreamInv', NextPass' = NextPass, at'["client"].pass = at["client"].pass,
         HandedOver => HandedOver',
         \/ NextByte' + Len(wire'["client"]) = NextByte + Len(wire["client"])
         \/ NextByte' = NextByte /\ Len(wire'["client"]) <= Len(wire["client"])
  PROVE  HandOK'
<1>1. SUFFICES ASSUME at["client"].pass = NextPass, NextPass <= Len(Passes("client")),
                      NextByte' + Len(wire'["client"]) = Total(NextPass)'
               PROVE  HandedOver
  BY DEF HandOK
<1>2. TypeInv /\ WireOK /\ HandOK /\ TypeInv'
  BY DEF HandInv, StreamInv, AnswerInv
<1>3. NextPass \in 1..Len(Passes("client")) /\ NextByte \in Nat /\ Len(wire["client"]) \in Nat
  BY <1>1, <1>2, ServerFacts, WireFacts, PassesFacts DEF PosNat, Node
<1>4. Len(wire'["client"]) \in Nat
  BY <1>2 DEF TypeInv, Node
<1>5. Total(NextPass) \in Nat /\ Total(NextPass)' = Total(NextPass)
  BY <1>3, TotalFacts DEF Total
<1>6. wire["client"] # <<>> => NextByte + Len(wire["client"]) <= Total(NextPass)
  BY <1>2 DEF WireOK
<1>7. wire["client"] = <<>> => Len(wire["client"]) = 0
  BY <1>2, WireFacts
<1>8. NextByte + Len(wire["client"]) = Total(NextPass)
  BY <1>1, <1>3, <1>4, <1>5, <1>6, <1>7
<1> QED BY <1>1, <1>2, <1>8 DEF HandOK

LEMMA HandInit ==
  ASSUME Matched, Init
  PROVE  HandInv
<1>1. StreamInv /\ link # "reset"
  BY StreamInit0 DEF Init, StreamInit
<1>2. ~In("client", "move")
  BY DEF Init, In, Node
<1> QED BY <1>1, <1>2, HandUnlessReset DEF HandInv, CountOK

-----------------------------------------------------------------------------
(* What a step is, in the terms of PassProtocol.                           *)

Keeps ==
  /\ Answered' = Answered /\ results' = results
  /\ at'["client"].pass = at["client"].pass /\ (HandedOver' <=> HandedOver)

HandsOver ==
  /\ Answered' = Answered /\ results' = results
  /\ at'["client"].pass = at["client"].pass /\ at["client"].pass <= Len(Passes("client"))
  /\ ~HandedOver /\ HandedOver'

Answers ==
  /\ Answered' = Answered + 1 /\ results' = results
  /\ at'["client"].pass = at["client"].pass /\ at["client"].pass = NextPass
  /\ HandedOver /\ HandedOver'

Measures ==
  /\ Answered' = Answered /\ results' = results + 1 /\ results < Answered
  /\ at'["client"].pass = at["client"].pass + 1
  /\ HandedOver /\ ~HandedOver'

Outcome == HandInv' /\ (Keeps \/ HandsOver \/ Answers \/ Measures)

\* The client stays where it is, and no byte comes into the stream.
LEMMA Rests ==
  ASSUME Matched, HandInv, StreamInv', at'["client"] = at["client"], results' = results,
         Ended("client") => Ended("client")', Answered' = Answered, NextPass' = NextPass,
         \/ NextByte' + Len(wire'["client"]) = NextByte + Len(wire["client"])
         \/ NextByte' = NextByte /\ Len(wire'["client"]) <= Len(wire["client"])
  PROVE  Outcome
<1>1. HandedOver' <=> HandedOver
  BY HandedStays
<1>2. HandOK'
  BY <1>1, HandKept
<1>3. MessageLen("client")' = MessageLen("client")
  BY DEF MessageLen, Test, Size
<1>4. CountOK'
  BY <1>3 DEF HandInv, CountOK, In
<1> QED BY <1>1, <1>2, <1>4 DEF Outcome, HandInv, Keeps

LEMMA FailOutcome ==
  ASSUME Matched, HandInv, StreamInv',
         (\E n \in Node : ~Ended(n) /\ Fail(n)) \/ AcceptFails \/ LoseConnection \/ UNCHANGED vars
  PROVE  Outcome
<1>1. TypeInv /\ TypeInv'
  BY DEF HandInv, StreamInv, AnswerInv
<1>2. UNCHANGED <<at, results>>
  BY DEF Fail, AcceptFails, LoseConnection, vars
<1>3. \A m \in Node : (state'[m] = "done" <=> state[m] = "done") /\ (Ended(m) => Ended(m)')
  <2>1. CASE \E n \in Node : ~Ended(n) /\ Fail(n)
    <3>1. PICK n \in Node : ~Ended(n) /\ state' = [state EXCEPT ![n] = "failed"]
      BY <2>1 DEF Fail
    <3> QED BY <1>1, <3>1 DEF TypeInv, TypeOK, Ended
  <2>2. CASE AcceptFails
    <3>1. ~Ended("server") /\ state' = [state EXCEPT !["server"] = "failed"]
      BY <2>2 DEF AcceptFails, In
    <3> QED BY <1>1, <3>1 DEF TypeInv, TypeOK, Ended
  <2>3. CASE LoseConnection \/ UNCHANGED vars
    BY <2>3 DEF LoseConnection, vars, Ended
  <2> QED BY <2>1, <2>2, <2>3
<1>4. Answered' = Answered /\ NextPass' = NextPass /\ NextByte' = NextByte
  BY <1>2, <1>3, NextStays DEF Node
<1>5. Len(wire'["client"]) <= Len(wire["client"])
  <2>1. CASE \E n \in Node : ~Ended(n) /\ Fail(n)
    BY <1>1, <2>1, Closing DEF Fail, Node
  <2>2. CASE AcceptFails
    <3>1. CASE link = "listening"
      BY <1>1, <2>2, <3>1, WireFacts DEF AcceptFails
    <3>2. CASE link # "listening"
      BY <1>1, <2>2, <3>2, Closing DEF AcceptFails, Node
    <3> QED BY <3>1, <3>2
  <2>3. CASE LoseConnection
    BY <1>1, <2>3, LoseTyped DEF Node
  <2>4. CASE UNCHANGED vars
    BY <1>1, <2>4, WireFacts DEF vars, stream
  <2> QED BY <2>1, <2>2, <2>3, <2>4
<1> QED BY <1>2, <1>3, <1>4, <1>5, Rests DEF Node

LEMMA ServerOutcome ==
  ASSUME Matched, HandInv, StreamInv',
         Listen \/ Accept \/ ReceiveSome("server") \/ MoveOver("server") \/ PassOver("server")
  PROVE  Outcome
<1>1. TypeInv /\ TypeInv' /\ StreamInv
  BY DEF HandInv, StreamInv, AnswerInv
<1>2. at'["client"] = at["client"] /\ (Ended("client") => Ended("client")')
  <2>1. at \in [Node -> Place] /\ state \in [Node -> {"running", "done", "failed"}]
    BY <1>1 DEF TypeInv, TypeOK
  <2>2. CASE Listen \/ Accept
    BY <2>1, <2>2 DEF Listen, Accept, FirstPass, Begin, Ended, Node
  <2>3. CASE ReceiveSome("server")
    BY <2>1, <2>3 DEF ReceiveSome, Advance, Ended, Node
  <2>4. CASE MoveOver("server")
    BY <2>1, <2>4 DEF MoveOver, NextMessage, Begin, Ended, Node
  <2>5. CASE PassOver("server")
    BY <1>1, <2>5, PassOverTyped DEF Ended, Node
  <2> QED BY <2>2, <2>3, <2>4, <2>5
<1>3. results' = results
  BY DEF Listen, Accept, ReceiveSome, MoveOver, PassOver
<1>4. CASE Accept \/ MoveOver("server")
  <2>1. Answered' = Answered /\ NextPass' = NextPass /\ NextByte' = NextByte
    BY <1>1, <1>4, AcceptData, ServerMovesOn
  <2>2. wire' = wire
    BY <1>4 DEF Accept, MoveOver, stream
  <2> QED BY <1>2, <1>3, <2>1, <2>2, Rests
<1>5. CASE ReceiveSome("server")
  BY <1>1, <1>2, <1>3, <1>5, ServerReceivesData, Rests
<1>6. CASE PassOver("server")
  <2>1. Answered' = Answered /\ NextPass' = NextPass /\ NextByte' = NextByte
    BY <1>1, <1>6, ServerPassData
  <2>2. Len(wire'["client"]) <= Len(wire["client"])
    BY <1>1, <1>6, PassOverTyped DEF Node
  <2> QED BY <1>2, <1>3, <2>1, <2>2, Rests
<1>7. CASE Listen
  <2>1. HandOK'
    BY <1>7, HandUnlessResetLater DEF Listen
  <2>2. HandedOver' <=> HandedOver
    BY <1>2, HandedStays
  <2>3. MessageLen("client")' = MessageLen("client")
    BY <1>2 DEF MessageLen, Test, Size
  <2>4. CountOK'
    BY <1>2, <2>3 DEF HandInv, CountOK, In
  <2>5. Answered' = Answered
    <3>1. at' = [at EXCEPT !["server"].label = "accept"] /\ at["server"].label = "start" /\ at \in [Node -> Place]
      BY <1>1, <1>7 DEF Listen, In, TypeInv, TypeOK
    <3>2. at'["server"].label = "accept" /\ at'["server"].pass = at["server"].pass
      BY <3>1 DEF Place, Node
    <3> QED BY <3>1, <3>2 DEF Answered
  <2> QED BY <1>2, <1>3, <2>1, <2>2, <2>4, <2>5 DEF Outcome, HandInv, Keeps
<1> QED BY <1>4, <1>5, <1>6, <1>7

LEMMA AnswerOutcome ==
  ASSUME Matched, HandInv, StreamInv', SendSome("server") \/ SendFails("server")
  PROVE  Outcome
<1>1. TypeInv /\ TypeInv' /\ StreamInv /\ HandOK /\ WireOK
  BY DEF HandInv, StreamInv, AnswerInv
<1>2. /\ at["client"].pass = NextPass /\ NextByte = Total(NextPass) /\ wire["client"] = <<>>
      /\ Answered' = NextPass /\ NextPass' = NextPass + 1 /\ at'["client"] = at["client"]
  BY <1>1, ServerAnswersData
<1>3. UNCHANGED <<state, results>> /\ at["server"].label = "reply"
  BY DEF SendSome, SendFails, Sending, In
<1>4. Answered \in Nat /\ NextPass = Answered + 1 /\ NextPass \in Nat
  BY <1>1, ServerFacts
<1>5. ~(at["client"].pass <= Answered)
  BY <1>2, <1>4
<1>6. NextPass <= Len(Passes("client"))
  <2>1. at["server"].pass \in 1..Len(Passes("client"))
    BY <1>1, <1>3, ServerFacts
  <2>2. at["server"].count < MessageLen("server")
    BY DEF SendSome, SendFails
  <2>3. MessageLen("server") = 1 /\ at["server"].count \in Nat
    BY <1>1, <1>3, ServerFacts DEF MessageLen
  <2>4. at["server"].count = 0
    BY <2>2, <2>3
  <2> QED BY <1>1, <1>3, <2>1, <2>4, AllTakenIn, PassesFacts DEF StreamInv, AnswerInv, Node
<1>7. HandedOver
  <2>1. Len(wire["client"]) = 0 /\ Total(NextPass) \in Nat
    BY <1>2, <1>4, <1>6, TotalFacts
  <2> QED BY <1>1, <1>2, <1>6, <2>1 DEF HandOK
<1>8. HandedOver'
  BY <1>2, <1>7, HandedStays
<1>9. HandOK'
  BY <1>2, <1>4 DEF HandOK
<1>10. MessageLen("client")' = MessageLen("client")
  BY <1>2 DEF MessageLen, Test, Size
<1>11. CountOK'
  BY <1>2, <1>3, <1>10 DEF HandInv, CountOK, In, Ended
<1> QED BY <1>2, <1>3, <1>4, <1>7, <1>8, <1>9, <1>11 DEF Outcome, HandInv, Answers

LEMMA StartOutcome ==
  ASSUME Matched, HandInv, StreamInv', Connect \/ Unresolved
  PROVE  Outcome
<1>1. TypeInv /\ TypeInv' /\ StreamInv /\ WireOK /\ RepliesOK
  BY DEF HandInv, StreamInv, AnswerInv
<1>2. at["client"].label = "start" /\ ~Ended("client") /\ link' # "reset" /\ UNCHANGED <<state, results>>
  BY DEF Connect, Unresolved, In, stream
<1>3. at' = [at EXCEPT !["client"] = [pass |-> 1, label |-> "move", off |-> 0, count |-> 0]]
  BY DEF Connect, Unresolved, FirstPass, Begin
<1>4. at \in [Node -> Place] /\ at["client"].pass = 1
  BY <1>1, <1>2 DEF TypeInv, TypeOK, PlaceOK, Node
<1>5. /\ at'["client"] = [pass |-> 1, label |-> "move", off |-> 0, count |-> 0]
      /\ at'["server"] = at["server"]
  BY <1>3, <1>4 DEF Node
<1>6. at'["client"].pass = at["client"].pass /\ at'["client"].count = 0 /\ at'["client"].label = "move"
      /\ at'["client"].off = 0
  BY <1>4, <1>5
<1>7. Answered' = Answered
  BY <1>5 DEF Answered
<1>8. HandOK'
  BY <1>2, HandUnlessResetLater
<1>9. ~HandedOver
  BY <1>2 DEF HandedOver
<1>10. ~HandedOver'
  <2>1. 1 \in 1..Len(Passes("client")) /\ "client" \in Node
    BY PassesFacts DEF Node
  <2>2. Index("client", 0)' = 0
    <3>1. Passes("client")[1].size \in Nat /\ Size("client")' = Passes("client")[1].size
      BY <1>4, <1>6, <2>1, PassesFacts DEF Size, PosNat
    <3> QED BY <1>6, <3>1 DEF Index
  <2>3. Total(1) = IF Test("client")' = "throughput" THEN DataSize["client"] ELSE NumLoops * Size("client")'
    BY <1>4, <1>6 DEF Total, Test, Size
  <2>4. Total(1) > 0 /\ Total(1) \in Nat
    BY <2>1, TotalFacts
  <2>5. Index("client", at["client"].count)' = 0
    BY <1>6, <2>2 DEF Index
  <2>6. ~(0 = Total(1))
    BY <2>4
  <2> QED BY <1>6, <2>3, <2>5, <2>6 DEF HandedOver
<1>11. CountOK'
  <2>1. MessageLen("client")' \in Nat
    BY <1>1, <1>2, <1>6, LengthLater DEF Ended, Node
  <2> QED BY <1>6, <2>1 DEF CountOK
<1> QED BY <1>2, <1>6, <1>7, <1>8, <1>9, <1>10, <1>11 DEF Outcome, HandInv, Keeps

\* The client counts further in a message, and the call is not over.
LEMMA Further ==
  ASSUME NEW i \in Nat, NEW c \in Nat, NEW m \in Nat, NEW t \in Nat, i + m <= t, c < m
  PROVE  i + c # t
OBVIOUS

LEMMA ClientSendOutcome ==
  ASSUME Matched, HandInv, StreamInv', SendSome("client")
  PROVE  Outcome
<1>1. TypeInv /\ TypeInv' /\ StreamInv /\ WireOK /\ RepliesOK /\ UpOK
  BY DEF HandInv, StreamInv, AnswerInv
<1>2. /\ ~Ended("client") /\ link = "up" /\ at["client"].label = "move"
      /\ UNCHANGED <<state, results>>
  BY <1>1, SentFacts DEF Node
<1>3. PICK k \in Nat :
        /\ 0 < k /\ at["client"].count + k <= MessageLen("client") /\ at["client"].count + k \in Nat
        /\ at' = [at EXCEPT !["client"].count = at["client"].count + k]
        /\ \/ closed["server"] /\ wire' = wire /\ link' = "reset"
           \/ ~closed["server"] /\ link' = "up"
  BY <1>1, SentFacts DEF Node, Peer
<1>4. /\ at'["client"].pass = at["client"].pass /\ at'["client"].label = "move"
      /\ at'["client"].count = at["client"].count + k
      /\ at'["server"] = at["server"] /\ MessageLen("client")' = MessageLen("client")
      /\ at'["client"].off = at["client"].off
      /\ Size("client")' = Size("client") /\ Test("client")' = Test("client")
  BY <1>1, <1>2, <1>3, Counted DEF Node
<1>5. Answered' = Answered /\ NextPass' = NextPass /\ NextByte' = NextByte
  BY <1>2, <1>4, NextStays
<1>6. at["client"].pass <= Len(Passes("client")) /\ state["client"] # "done"
  BY <1>1, <1>2, LengthFacts DEF Node, Ended
<1>7. /\ Index("client", at["client"].count) # Total(at["client"].pass)
      /\ at["client"].count \in Nat /\ MessageLen("client") \in Nat
  <2>1. /\ \A i \in Nat : Index("client", i) = Index("client", 0) + i /\ Index("client", i) \in Nat
        /\ Index("client", MessageLen("client")) <= Total(at["client"].pass)
        /\ at["client"].count \in Nat /\ MessageLen("client") \in Nat
        /\ at["client"].pass \in 1..Len(Passes("client"))
    BY <1>1, <1>2, <1>6, ProgressFacts DEF Node
  <2>2. Total(at["client"].pass) \in Nat
    BY <2>1, TotalFacts
  <2>3. at["client"].count < MessageLen("client")
    BY <1>3, <2>1
  <2>4. Index("client", 0) + MessageLen("client") <= Total(at["client"].pass) /\ Index("client", 0) \in Nat
    BY <2>1
  <2>5. Index("client", 0) + at["client"].count # Total(at["client"].pass)
    BY <2>1, <2>2, <2>3, <2>4, Further
  <2> QED BY <2>1, <2>5
<1>8. ~HandedOver
  BY <1>1, <1>2, <1>6, <1>7, HandedFacts
<1>9. HandOK'
  <2>1. CASE link' # "reset"
    BY <2>1, HandUnlessResetLater
  <2>2. CASE link' = "reset"
    <3>1. wire' = wire
      BY <1>3, <2>2
    <3> QED BY <1>4, <1>5, <1>8, <3>1, HandKept
  <2> QED BY <2>1, <2>2
<1>10. CountOK'
  BY <1>3, <1>4 DEF CountOK
<1> QED BY <1>2, <1>4, <1>5, <1>6, <1>8, <1>9, <1>10 DEF Outcome, HandInv, Keeps, HandsOver

\* What is true of a client in the middle of a message.
LEMMA InTheMiddle ==
  ASSUME Matched, TypeInv, ~Ended("client"), at["client"].label = "move"
  PROVE  /\ at["client"].pass \in 1..Len(Passes("client")) /\ state["client"] # "done"
         /\ at["client"].count \in Nat /\ MessageLen("client") \in Nat /\ Index("client", 0) \in Nat
         /\ Total(at["client"].pass) \in Nat
         /\ Index("client", 0) + MessageLen("client") <= Total(at["client"].pass)
         /\ \A i \in Nat : Index("client", i) = Index("client", 0) + i
         /\ HandedOver <=> Index("client", 0) + at["client"].count = Total(at["client"].pass)
<1>1. at["client"].pass \in 1..Len(Passes("client")) /\ state["client"] # "done" /\ "client" \in Node
  BY LengthFacts DEF Node, Ended
<1>2. at["client"].pass <= Len(Passes("client"))
  BY <1>1, PassesFacts
<1>3. /\ \A i \in Nat : Index("client", i) = Index("client", 0) + i /\ Index("client", i) \in Nat
      /\ Index("client", MessageLen("client")) <= Total(at["client"].pass)
      /\ at["client"].count \in Nat /\ MessageLen("client") \in Nat
  BY <1>1, <1>2, ProgressFacts
<1>4. Total(at["client"].pass) \in Nat
  BY <1>1, TotalFacts
<1>5. HandedOver <=> Index("client", at["client"].count) = Total(at["client"].pass)
  BY <1>1, <1>2, HandedFacts
<1> QED BY <1>1, <1>3, <1>4, <1>5

\* Counting a failed call in is counting one back, below zero if it is the first.
LEMMA CountedBack ==
  ASSUME NEW c \in Nat, NEW m \in Nat, NEW s \in Nat, c < m, m < s
  PROVE  (c + (s - 1)) % s = (IF c = 0 THEN s - 1 ELSE c - 1) /\ (IF c = 0 THEN s - 1 ELSE c - 1) \in Nat
<1>1. CASE c = 0
  BY <1>1
<1>2. CASE c # 0
  <2>1. c + (s - 1) = (c - 1) + s /\ c - 1 \in 0..(s - 1)
    BY <1>2
  <2>2. ((c - 1) + s) % s = c - 1
    BY <2>1
  <2> QED BY <1>2, <2>1, <2>2
<1> QED BY <1>1, <1>2

LEMMA NotTheEnd ==
  ASSUME NEW i \in Nat, NEW c \in Nat, NEW m \in Nat, NEW t \in Nat, NEW s \in Nat, NEW d \in Nat,
         i + m <= t, c < m, t < s - 1, d = (IF c = 0 THEN s - 1 ELSE c - 1)
  PROVE  i + d # t /\ (d <= m \/ d = s - 1)
OBVIOUS

LEMMA ClientSendFailsOutcome ==
  ASSUME Matched, ShortPasses, HandInv, StreamInv', SendFails("client")
  PROVE  Outcome
<1>1. TypeInv /\ TypeInv' /\ StreamInv
  BY DEF HandInv, StreamInv, AnswerInv
<1>2. /\ ~Ended("client") /\ at["client"].label = "move" /\ UNCHANGED <<state, results, wire>>
      /\ Advance("client", SizeMax - 1) /\ at["client"].count < MessageLen("client")
  BY DEF SendFails, Sending, In
<1>3. /\ at["client"].pass \in 1..Len(Passes("client")) /\ state["client"] # "done"
      /\ at["client"].count \in Nat /\ MessageLen("client") \in Nat /\ Index("client", 0) \in Nat
      /\ Total(at["client"].pass) \in Nat
      /\ Index("client", 0) + MessageLen("client") <= Total(at["client"].pass)
      /\ \A i \in Nat : Index("client", i) = Index("client", 0) + i
      /\ HandedOver <=> Index("client", 0) + at["client"].count = Total(at["client"].pass)
  BY <1>1, <1>2, InTheMiddle
<1>4. ~HandedOver
  BY <1>2, <1>3, Further
<1> DEFINE d == IF at["client"].count = 0 THEN SizeMax - 1 ELSE at["client"].count - 1
<1>5. d \in Nat /\ SizeMax \in Nat /\ at' = [at EXCEPT !["client"].count = d]
  <2>1. MessageLen("client") < SizeMax /\ SizeMax \in Nat
    BY <1>1, <1>2, LengthFacts, ConstantsAssumption DEF Node
  <2>2. (at["client"].count + (SizeMax - 1)) % SizeMax = d /\ d \in Nat
    BY <1>2, <1>3, <2>1, CountedBack
  <2>3. at' = [at EXCEPT !["client"].count = (at["client"].count + (SizeMax - 1)) % SizeMax]
    BY <1>2 DEF Advance
  <2> QED BY <2>1, <2>2, <2>3
<1>6. Total(at["client"].pass) < SizeMax - 1
  BY <1>3 DEF ShortPasses
<1> DEFINE c == at["client"].count
           m == MessageLen("client")
           i == Index("client", 0)
           t == Total(at["client"].pass)
<1>7. i + d # t /\ (d <= m \/ d = SizeMax - 1)
  <2>1. /\ i \in Nat /\ c \in Nat /\ m \in Nat /\ t \in Nat /\ SizeMax \in Nat /\ d \in Nat
        /\ i + m <= t /\ c < m /\ t < SizeMax - 1 /\ d = (IF c = 0 THEN SizeMax - 1 ELSE c - 1)
    BY <1>2, <1>3, <1>5, <1>6
  <2> HIDE DEF i, c, m, t, d
  <2> QED BY <2>1, NotTheEnd
<1> HIDE DEF d
<1>8. /\ at'["client"].pass = at["client"].pass /\ at'["client"].label = "move"
      /\ at'["client"].count = d /\ at'["client"].off = at["client"].off
      /\ at'["server"] = at["server"] /\ MessageLen("client")' = MessageLen("client")
      /\ Size("client")' = Size("client") /\ Test("client")' = Test("client")
  BY <1>1, <1>2, <1>5, Counted DEF Node
<1>9. Answered' = Answered /\ NextPass' = NextPass /\ NextByte' = NextByte
  BY <1>2, <1>8, NextStays
<1>10. ~HandedOver'
  <2>1. Index("client", at["client"].count)' = Index("client", d)
    BY <1>8 DEF Index
  <2>2. HandedOver' => Index("client", at["client"].count)' = Total(at["client"].pass)
    BY <1>8 DEF HandedOver, Total, Test, Size
  <2> QED BY <1>3, <1>5, <1>7, <2>1, <2>2
<1>11. HandOK'
  BY <1>2, <1>4, <1>8, <1>9, HandKept
<1>12. CountOK'
  BY <1>7, <1>8 DEF CountOK
<1> QED BY <1>2, <1>4, <1>8, <1>9, <1>10, <1>11, <1>12 DEF Outcome, HandInv, Keeps

LEMMA ClientReceiveOutcome ==
  ASSUME Matched, HandInv, StreamInv', ReceiveSome("client")
  PROVE  Outcome
<1>1. TypeInv /\ TypeInv' /\ StreamInv
  BY DEF HandInv, StreamInv, AnswerInv
<1>2. /\ ~Ended("client") /\ at["client"].label = "reply" /\ UNCHANGED <<state, results>>
  BY DEF ReceiveSome, Receiving, In
<1>3. PICK k \in 1..(MessageLen("client") - at["client"].count) : Taken("client", k) /\ Advance("client", k)
  BY DEF ReceiveSome
<1>4. MessageLen("client") \in Nat /\ at["client"].count \in Nat
  BY <1>1, <1>2, LengthFacts DEF Node
<1>5. k \in Nat /\ at["client"].count + k <= MessageLen("client") /\ at["client"].count + k \in Nat
  BY <1>3, <1>4
<1>6. at' = [at EXCEPT !["client"].count = at["client"].count + k]
  BY <1>1, <1>2, <1>3, <1>5, Advanced DEF Node
<1>7. at'["client"].pass = at["client"].pass /\ at'["client"].label = "reply" /\ at'["server"] = at["server"]
  BY <1>1, <1>2, <1>5, <1>6, Counted DEF Node
<1>8. wire'["client"] = wire["client"]
  BY <1>1, <1>3, <1>5, TakenFacts DEF Node
<1>9. Answered' = Answered /\ NextPass' = NextPass /\ NextByte' = NextByte
  BY <1>2, <1>7, NextStays
<1>10. HandedOver /\ HandedOver'
  BY <1>2, <1>7 DEF HandedOver
<1>11. HandOK'
  BY <1>7, <1>8, <1>9, <1>10, HandKept
<1>12. CountOK'
  BY <1>7 DEF CountOK, In
<1> QED BY <1>2, <1>7, <1>9, <1>10, <1>11, <1>12 DEF Outcome, HandInv, Keeps

LEMMA FarOff ==
  ASSUME NEW i \in Nat, NEW t \in Nat, NEW s \in Nat, t < s - 1
  PROVE  i + (s - 1) # t
OBVIOUS

LEMMA ClientMoveOutcome ==
  ASSUME Matched, ShortPasses, HandInv, StreamInv', MoveOver("client")
  PROVE  Outcome
<1>1. TypeInv /\ TypeInv' /\ StreamInv /\ CountOK
  BY DEF HandInv, StreamInv, AnswerInv
<1>2. /\ ~Ended("client") /\ at["client"].label = "move" /\ UNCHANGED <<state, results, wire>>
      /\ at["client"].count >= MessageLen("client")
      /\ at' = [at EXCEPT !["client"] = at'["client"]]
  BY <1>1 DEF MoveOver, MessageOver, NextMessage, Begin, stream, TypeInv, TypeOK, Node
<1>3. /\ at["client"].pass \in 1..Len(Passes("client")) /\ state["client"] # "done"
      /\ at["client"].count \in Nat /\ MessageLen("client") \in Nat /\ Index("client", 0) \in Nat
      /\ Total(at["client"].pass) \in Nat
      /\ \A i \in Nat : Index("client", i) = Index("client", 0) + i
      /\ HandedOver <=> Index("client", 0) + at["client"].count = Total(at["client"].pass)
  BY <1>1, <1>2, InTheMiddle
<1>4. /\ at'["client"].pass = at["client"].pass /\ at'["client"].count = 0
      /\ at'["client"].label \in {"move", "reply"}
  <2>1. at'["client"].pass = at["client"].pass /\ at'["client"].count = 0
    BY <1>1, MoveOverTyped DEF Node
  <2>2. at'["client"].label = "move" \/ at'["client"].label = "reply"
    BY <1>1, MoveOverTyped DEF Node
  <2> QED BY <2>1, <2>2
<1>5. at'["server"] = at["server"]
  BY <1>1, <1>2 DEF TypeInv, TypeOK, Node
<1>6. Answered' = Answered /\ NextPass' = NextPass /\ NextByte' = NextByte
  BY <1>2, <1>5, NextStays
<1>7. HandedOver => HandedOver'
  <2>1. SUFFICES ASSUME HandedOver PROVE HandedOver'
    OBVIOUS
  <2>2. at["client"].count # SizeMax - 1
    <3>1. Total(at["client"].pass) < SizeMax - 1 /\ SizeMax \in Nat
      BY <1>3, ConstantsAssumption DEF ShortPasses
    <3>2. Index("client", 0) + (SizeMax - 1) # Total(at["client"].pass)
      BY <1>3, <3>1, FarOff
    <3> QED BY <1>3, <2>1, <3>2
  <2>3. at["client"].count = MessageLen("client")
    BY <1>1, <1>2, <1>3, <2>2 DEF CountOK, In
  <2>4. Progress("client")' = Progress("client")
    BY <1>1, <2>3, MoveOverProgress DEF Node
  <2>5. Progress("client") = Total(at["client"].pass)
    BY <1>2, <1>3, <2>1 DEF Progress
  <2>6. CASE at'["client"].label = "reply"
    BY <2>6 DEF HandedOver
  <2>7. CASE at'["client"].label = "move"
    <3>1. Progress("client")' = Index("client", at["client"].count)'
      BY <1>2, <1>3, <2>7 DEF Progress
    <3>2. Total(at["client"].pass) = IF Test("client")' = "throughput" THEN DataSize["client"] ELSE NumLoops * Size("client")'
      BY <1>4 DEF Total, Test, Size
    <3>3. at'["client"].pass <= Len(Passes("client"))
      BY <1>3, <1>4, PassesFacts DEF Node
    <3> QED BY <2>4, <2>5, <2>7, <3>1, <3>2, <3>3 DEF HandedOver
  <2> QED BY <1>4, <2>6, <2>7
<1>8. HandOK'
  BY <1>2, <1>4, <1>6, <1>7, HandKept
<1>9. CountOK'
  <2>1. In("client", "move")' => MessageLen("client")' \in Nat
    BY <1>1, <1>4, LengthLater DEF In, Node
  <2> QED BY <1>4, <2>1 DEF CountOK
<1>10. at["client"].pass <= Len(Passes("client"))
  <2>1. Len(Passes("client")) \in Nat
    BY PassesFacts DEF Node
  <2> QED BY <1>3, <2>1
<1> QED BY <1>2, <1>4, <1>6, <1>7, <1>8, <1>9, <1>10 DEF Outcome, HandInv, Keeps, HandsOver

LEMMA MeasureOutcome ==
  ASSUME Matched, HandInv, StreamInv', PassOver("client")
  PROVE  Outcome
<1>1. TypeInv /\ TypeInv' /\ StreamInv /\ RepliesOK /\ WireOK
  BY DEF HandInv, StreamInv, AnswerInv
<1>2. /\ ~Ended("client") /\ at["client"].label = "reply" /\ at["client"].count > 0
      /\ at'["client"].pass = at["client"].pass + 1 /\ at'["client"].label = "move"
      /\ at'["client"].off = 0 /\ at'["client"].count = 0
      /\ at'["server"] = at["server"] /\ state'["server"] = state["server"]
      /\ IF at["client"].pass < Len(Passes("client")) THEN state' = state /\ UNCHANGED stream
         ELSE state'["client"] = "done" /\ CloseSocket("client")
  BY <1>1, PassOverTyped DEF Node
<1>3. results' = results + 1
  BY DEF PassOver
<1>4. Answered' = Answered /\ NextPass' = NextPass /\ NextByte' = NextByte
  BY <1>2, NextStays
<1>5. /\ at["client"].pass = Answered /\ Answered \in Nat /\ NextPass = Answered + 1
      /\ wire["client"] = <<>> /\ NextByte = 0
  <2>1. at["client"].pass = Answered /\ Answered \in Nat /\ NextPass = Answered + 1
    BY <1>1, <1>2, ClientFacts, ServerFacts
  <2>2. at["client"].pass <= Answered
    BY <2>1
  <2> QED BY <1>1, <2>1, <2>2, ClientFacts
<1>6. results < Answered
  <2>1. results = at["client"].pass - 1
    BY <1>1 DEF TypeInv
  <2> QED BY <1>5, <2>1
<1>7. wire'["client"] = <<>>
  <2>1. CASE at["client"].pass < Len(Passes("client"))
    BY <1>2, <1>5, <2>1 DEF stream
  <2>2. CASE ~(at["client"].pass < Len(Passes("client")))
    BY <1>1, <1>2, <1>5, <2>2, Closing DEF Node
  <2> QED BY <2>1, <2>2
<1>8. HandOK'
  <2>1. SUFFICES ASSUME NextPass <= Len(Passes("client")), NextByte' + Len(wire'["client"]) = Total(NextPass)'
                 PROVE FALSE
    BY <1>4 DEF HandOK
  <2>2. NextPass \in 1..Len(Passes("client"))
    BY <1>5, <2>1, PassesFacts DEF Node
  <2>3. Total(NextPass)' = Total(NextPass) /\ Total(NextPass) > 0 /\ Total(NextPass) \in Nat
    BY <1>4, <2>2, TotalFacts DEF Total
  <2>4. NextByte' + Len(wire'["client"]) = 0
    BY <1>4, <1>5, <1>7
  <2> QED BY <2>1, <2>3, <2>4
<1>9. ~HandedOver'
  <2>1. CASE at["client"].pass + 1 <= Len(Passes("client"))
    <3>1. at["client"].pass + 1 \in 1..Len(Passes("client"))
      BY <1>5, <2>1, PassesFacts DEF Node
    <3>2. Index("client", at["client"].count)' = 0
      <4>1. Passes("client")[at["client"].pass + 1].size \in Nat
            /\ Size("client")' = Passes("client")[at["client"].pass + 1].size
        BY <1>2, <3>1, PassesFacts DEF Size, PosNat, Node
      <4> QED BY <1>2, <4>1 DEF Index
    <3>3. Total(at["client"].pass + 1) > 0 /\ Total(at["client"].pass + 1) \in Nat
      BY <3>1, TotalFacts
    <3>4. Total(at["client"].pass + 1)
            = IF Test("client")' = "throughput" THEN DataSize["client"] ELSE NumLoops * Size("client")'
      BY <1>2 DEF Total, Test, Size
    <3>5. ~(0 = Total(at["client"].pass + 1))
      BY <3>3
    <3> QED BY <1>2, <3>2, <3>4, <3>5 DEF HandedOver
  <2>2. CASE ~(at["client"].pass + 1 <= Len(Passes("client")))
    BY <1>2, <2>2 DEF HandedOver
  <2> QED BY <2>1, <2>2
<1>10. CountOK'
  <2>1. In("client", "move")' => MessageLen("client")' \in Nat
    BY <1>1, <1>2, LengthLater DEF In, Node
  <2> QED BY <1>2, <2>1 DEF CountOK
<1>11. HandedOver
  BY <1>2 DEF HandedOver
<1> QED BY <1>2, <1>3, <1>4, <1>6, <1>8, <1>9, <1>10, <1>11 DEF Outcome, HandInv, Measures

-----------------------------------------------------------------------------
(* The steps together.                                                     *)

LEMMA ProgramOutcome ==
  ASSUME Matched, ShortPasses, HandInv, StreamInv', NEW n \in Node, Program(n)
  PROVE  Outcome
<1>1. CASE SendKills(n) \/ ReceiveFails(n)
  BY <1>1, FailOutcome DEF SendKills, ReceiveFails, Sending, Receiving, In
<1>2. CASE n = "client" /\ (SendSome(n) \/ SendFails(n) \/ ReceiveSome(n) \/ MoveOver(n) \/ PassOver(n))
  BY <1>2, ClientSendOutcome, ClientSendFailsOutcome, ClientReceiveOutcome, ClientMoveOutcome, MeasureOutcome
<1>3. CASE n = "server" /\ (SendSome(n) \/ SendFails(n) \/ ReceiveSome(n) \/ MoveOver(n) \/ PassOver(n))
  BY <1>3, ServerOutcome, AnswerOutcome
<1> QED BY <1>1, <1>2, <1>3 DEF Program, Node

LEMMA StepOutcome ==
  ASSUME Matched, ShortPasses, HandInv, [Next]_vars
  PROVE  Outcome
<1>1. StreamInv'
  BY StreamStep DEF HandInv
<1>2. ASSUME NEW n \in Node, Program(n) PROVE Outcome
  BY <1>1, <1>2, ProgramOutcome
<1>3. CASE ConnectRefused \/ ConnectFails \/ ListenFails
  <2>1. \E n \in Node : ~Ended(n) /\ Fail(n)
    BY <1>3 DEF ConnectRefused, ConnectFails, ListenFails, In, Node
  <2> QED BY <1>1, <2>1, FailOutcome
<1>4. CASE Connect \/ Unresolved
  BY <1>1, <1>4, StartOutcome
<1>5. CASE Listen \/ Accept
  BY <1>1, <1>5, ServerOutcome
<1>6. CASE AcceptFails \/ LoseConnection \/ UNCHANGED vars
  BY <1>1, <1>6, FailOutcome
<1> QED BY <1>2, <1>3, <1>4, <1>5, <1>6 DEF Next, Client, Server, Node

\* Every outcome is a step of the promise, or a stutter of it.
LEMMA PromiseStep ==
  ASSUME HandInv, Outcome
  PROVE  [Protocol!Next]_<<at["client"].pass - 1 + (IF HandedOver THEN 1 ELSE 0), Answered, results>>
<1> DEFINE p == at["client"].pass
<1>1. /\ p \in Nat /\ p > 0 /\ Answered \in Nat /\ results = p - 1 /\ NextPass = Answered + 1
  <2>1. TypeInv
    BY DEF HandInv, StreamInv, AnswerInv
  <2>2. Answered \in Nat /\ p \in PosNat /\ results = p - 1
    BY <2>1, AnswersTyped, WireFacts DEF TypeInv, TypeOK
  <2> QED BY <2>2 DEF PosNat, NextPass
<1>2. CASE Keeps
  BY <1>2 DEF Keeps
<1>3. CASE HandsOver
  <2>1. Len(Passes("client")) \in Nat
    BY PassesFacts DEF Node
  <2> HIDE DEF p
  <2>2. p - 1 + 0 = results /\ (p <= Len(Passes("client")) => p - 1 + 0 < Len(Passes("client"))) /\ p - 1 + 1 = (p - 1 + 0) + 1
    BY <1>1, <2>1
  <2> QED BY <1>3, <2>2 DEF HandsOver, Protocol!Next, Protocol!SendAll, p
<1>4. CASE Answers
  <2> HIDE DEF p
  <2>1. p = NextPass => Answered < p - 1 + 1
    BY <1>1
  <2> QED BY <1>4, <2>1 DEF Answers, Protocol!Next, Protocol!Confirm, p
<1>5. CASE Measures
  <2> HIDE DEF p
  <2>1. (p + 1) - 1 + 0 = p - 1 + 1
    BY <1>1
  <2> QED BY <1>5, <2>1 DEF Measures, Protocol!Next, Protocol!Measure, p
<1> QED BY <1>2, <1>3, <1>4, <1>5 DEF Outcome

LEMMA PromiseInit ==
  ASSUME Init
  PROVE  Protocol!Init
<1>1. /\ at["client"] = [pass |-> 1, label |-> "start", off |-> 0, count |-> 0]
      /\ at["server"] = [pass |-> 1, label |-> "start", off |-> 0, count |-> 0] /\ results = 0
  BY DEF Init, Node
<1>2. ~HandedOver /\ Answered = 0
  BY <1>1 DEF HandedOver, Answered
<1> QED BY <1>1, <1>2 DEF Protocol!Init

\* The invariant of the refinement: the client never takes a pass for sent
\* that the server still lacks bytes of, and knows it when the last byte has
\* gone into a stream that keeps it.
THEOREM HandInvariant ==
  ASSUME Matched, ShortPasses
  PROVE  Spec => []HandInv
<1>1. Init => HandInv
  BY HandInit
<1>2. HandInv /\ [Next]_vars => HandInv'
  BY StepOutcome DEF Outcome
<1> QED BY <1>1, <1>2, PTL DEF Spec

\* Two programs started alike, whose calls of send() do not fail but for a
\* lost connection, keep the promise of PassProtocol: a pass is confirmed only
\* after the client has handed over the last byte of it, its result is kept
\* only after that, and the next pass begins only then.
THEOREM PromiseKept ==
  ASSUME Matched, ShortPasses
  PROVE  Spec => Promise
<1>1. Init => Protocol!Init
  BY PromiseInit
<1>2. HandInv /\ [Next]_vars
        => [Protocol!Next]_<<at["client"].pass - 1 + (IF HandedOver THEN 1 ELSE 0), Answered, results>>
  BY StepOutcome, PromiseStep
<1>3. Spec => []HandInv
  BY HandInvariant
<1> QED BY <1>1, <1>2, <1>3, PTL DEF Spec, Promise, Protocol!Spec

=============================================================================
