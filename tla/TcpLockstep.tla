----------------------------- MODULE TcpLockstep -----------------------------
(***************************************************************************)
(* Why counting bytes is enough: the inductive invariant of TcpBench.  The *)
(* first part holds whatever the programs are started with and whatever    *)
(* fails; the second is about two programs started alike, whose calls of   *)
(* send() do not fail but for a lost connection.                           *)
(*                                                                         *)
(* The server is always about to take in the next byte of the pass after   *)
(* the last one it has answered, and the stream holds the bytes from there *)
(* on.                                                                     *)
(***************************************************************************)
EXTENDS TcpBench, FiniteSets

\* The places a program can be at.
PlaceOK(n) ==
  LET p == at[n] IN
  /\ p.pass <= Len(Passes(n)) + (IF state[n] = "done" THEN 1 ELSE 0)
  /\ state[n] = "done" => p = [pass |-> Len(Passes(n)) + 1, label |-> "move", off |-> 0, count |-> 0]
  /\ p.label \in {"start", "accept"} => p.pass = 1 /\ p.off = 0 /\ p.count = 0
  /\ n = "client" => p.label # "accept"
  /\ p.label = "reply" => p.off = 0
  /\ p.label = "move" /\ state[n] # "done" =>
       IF Test(n) = "throughput"
       THEN p.off % Size(n) = 0 /\ p.off <= LastIndex(DataSize[n], Size(n))
       ELSE p.off < NumLoops

\* The states of the connection.
LinkOK ==
  /\ link \in {"none", "listening"} =>
       /\ at["server"].label \in {"start", "accept"}
       /\ \A n \in Node : wire[n] = <<>>
  /\ \A n \in Node : pending[n] => link = "reset"
  /\ at["server"].label = "start" => link = "none"

\* Replies under way, or received and not yet turned into a result, are
\* answers of the server that no result stands for.
RepliesOK ==
  results + (IF at["client"].label = "reply" /\ at["client"].count > 0 THEN 1 ELSE 0) + Len(wire["server"])
    <= Answered

Bytes == [pass : PosNat, at : Nat]

TypeInv ==
  /\ TypeOK
  /\ wire \in [Node -> Seq(Bytes)]
  /\ little \in Seq(Bytes \cup {Byte(0, 0)})
  /\ In("server", "move") => at["server"].count <= MessageLen("server")
  /\ at["server"].label # "move" => little = <<>>
  /\ results = at["client"].pass - 1
  /\ \A n \in Node : PlaceOK(n)
  /\ LinkOK

AnswerInv == TypeInv /\ RepliesOK

-----------------------------------------------------------------------------
(* Two programs started alike.                                             *)

Matched ==
  /\ Metric["client"] = Metric["server"]
  /\ DataSize["client"] = DataSize["server"]
  /\ MaxErrors = 0

\* The bytes of pass p.
Total(p) ==
  LET pass == Passes("client")[p] IN
  IF pass.test = "throughput" THEN DataSize["client"] ELSE NumLoops * pass.size

\* How far n has moved the data of the pass it is in.
Progress(n) ==
  CASE at[n].label = "move" /\ state[n] # "done" -> Index(n, at[n].count)
    [] at[n].label = "reply"                     -> Total(at[n].pass)
    [] OTHER                                     -> 0

\* The next byte the server takes in.
NextPass == Answered + 1
NextByte == IF Answered = at["server"].pass THEN 0 ELSE Progress("server")

\* The stream holds the bytes from the next one on, of the same pass; and
\* there is no such byte before the client is in that pass.
WireOK ==
  /\ \A j \in 1..Len(wire["client"]) : wire["client"][j] = Byte(NextPass, NextByte + j - 1)
  /\ wire["client"] # <<>> =>
       NextPass <= Len(Passes("client")) /\ NextByte + Len(wire["client"]) <= Total(NextPass)
  /\ at["client"].pass <= Answered => wire["client"] = <<>> /\ NextByte = 0
  /\ Answered <= at["client"].pass

\* As long as the connection is up no byte is lost or counted twice: what the
\* client has moved and the server has not taken in is in the stream; and what
\* the client has moved of an answered pass is all of it.
UpOK ==
  link = "up" =>
    /\ \A n \in Node : ~Ended(n) /\ at[n].label \in {"move", "reply"} => at[n].count <= MessageLen(n)
    /\ IF at["client"].pass = NextPass
       THEN NextByte + Len(wire["client"]) = Progress("client")
       ELSE Progress("client") = Total(at["client"].pass)

\* What the server has taken in is in its two buffers.
BuffersOK ==
  LET p == at["server"] size == Size("server") IN
  /\ In("server", "move") =>
       /\ DOMAIN data = 0..((IF Test("server") = "throughput" THEN DataSize["server"] ELSE size) - 1)
       /\ \A j \in 1..p.count : little[j] = Byte(p.pass, Index("server", j - 1))
       /\ \A i \in DOMAIN data :
            IF Test("server") = "throughput" THEN i < p.off => data[i] = Byte(p.pass, i)
            ELSE p.off > 0 => data[i] = Byte(p.pass, (p.off - 1) * size + i)
  /\ DataIntact

StreamInv == AnswerInv /\ WireOK /\ UpOK /\ BuffersOK

-----------------------------------------------------------------------------
(* Any two programs: nothing is lost, whichever passes the bytes are for.  *)

\* The bytes n moves in pass p, those of the passes before it, and how far n
\* has moved the data of the pass it is in.
Load(n, p) ==
  LET pass == Passes(n)[p] IN
  IF pass.test = "throughput" THEN DataSize[n] ELSE NumLoops * pass.size
Earlier(n, p) == UNION {{q} \X (0..(Load(n, q) - 1)) : q \in 1..(p - 1)}
Before(n, p) == Cardinality(Earlier(n, p))
Moved(n) ==
  CASE at[n].label = "move"  -> Index(n, at[n].count)
    [] at[n].label = "reply" -> Load(n, at[n].pass)
    [] OTHER                 -> 0
Position(n) == Before(n, at[n].pass) + Moved(n)

\* The client has taken in a reply, and not yet written the result.
Unwritten == IF at["client"].label = "reply" /\ at["client"].count > 0 THEN 1 ELSE 0

\* While both programs run on a connection that is up, and no call of send() has
\* failed, what one has sent the other has taken in or will find in the stream.
Counting == link = "up" /\ errors = 0 /\ \A n \in Node : ~Ended(n)

CountsOK == Counting =>
  /\ \A n \in Node : at[n].label \in {"move", "reply"} => at[n].count <= MessageLen(n)
  /\ Position("client") = Position("server") + Len(wire["client"])
  /\ Answered = results + Unwritten + Len(wire["server"])

\* A program that has ended is not waited for.
EndsOK ==
  /\ \A n \in Node : Ended(n) => closed[n]
  /\ link \in {"up", "reset"} => at["client"].label # "start"

CountInv == AnswerInv /\ CountsOK /\ EndsOK

-----------------------------------------------------------------------------
(* What the client has handed over, for the promise of PassProtocol.       *)

\* The bytes of a pass are fewer than a size_t can count, so that a count that
\* has gone below zero is not taken for the end of the pass.
ShortPasses == \A p \in 1..Len(Passes("client")) : Total(p) < SizeMax - 1

\* The count of a call of send() that failed at once has gone below zero.
CountOK ==
  In("client", "move") =>
    at["client"].count <= MessageLen("client") \/ at["client"].count = SizeMax - 1

\* If the stream and the server have all of a pass, the client knows.
HandOK ==
  at["client"].pass = NextPass /\ NextPass <= Len(Passes("client"))
    /\ NextByte + Len(wire["client"]) = Total(NextPass) => HandedOver

\* Two programs started alike never lose count of each other: the next byte the
\* server takes in is the next one in the stream, nothing is missing while the
\* connection is up, and a pass the stream has all of is one the client knows it
\* has sent.
HandInv == StreamInv /\ CountOK /\ HandOK
=============================================================================
