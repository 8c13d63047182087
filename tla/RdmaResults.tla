----------------------------- MODULE RdmaResults -----------------------------
(***************************************************************************)
(* What RdmaClient writes: one results file per test, opened -- and so     *)
(* emptied -- before the test begins, and filled with the lines of the     *)
(* `results' vector once the test function has returned.                   *)
(*                                                                         *)
(* Both are bookkeeping of the client alone: each step of RdmaBench moves  *)
(* the client from one call to the next, and Record is what the code does  *)
(* to the vector and the files on that way.                                *)
(***************************************************************************)
EXTENDS RdmaBench

CONSTANT Old   \* contents of a file left by an earlier run of the program

VARIABLES
  results,  \* the vector of the running test
  file      \* file[i]: the results file of the client's i-th test

resultsVars == <<vars, results, file>>

\* A line has the buffer size and a time.  Whether the time means anything is
\* noted here, the code does not: no request that was waited for has failed.
Line(size, ok) == [size |-> size, ok |-> ok]

\* The call that stops the clock of a pass returns.  run_write_tp_tests keeps
\* the result before it refills its data.
EndsPass ==
  LET p == pos["client"] q == pos'["client"] IN
  /\ At("client", IF Test("client") \in {"read_lat", "write_lat"} THEN {"data"} ELSE {"done"})
  /\ q.label # p.label \/ q.round # p.round

\* results.push_back
KeepResult ==
  /\ EndsPass
  /\ results' = Append(results, Line(Size("client"), ~failed'["client"]))
  /\ UNCHANGED file

\* Variant of WriteFile: the vector is not started afresh for the next test.
WriteFileKeeps ==
  LET i == pos["client"].test IN
  /\ pos'["client"].test = i + 1
  /\ file' = [j \in DOMAIN file |-> IF j = i THEN results ELSE IF j = i + 1 THEN <<>> ELSE file[j]]
  /\ results' = results

\* The test function returns, its results are written, and the file of the
\* next test is opened; opening makes it empty.
WriteFile ==
  LET i == pos["client"].test IN
  /\ pos'["client"].test = i + 1
  /\ file' = [j \in DOMAIN file |-> IF j = i THEN results ELSE IF j = i + 1 THEN <<>> ELSE file[j]]
  /\ results' = <<>>

KeepsNone ==
  /\ ~EndsPass
  /\ pos'["client"].test = pos["client"].test
  /\ UNCHANGED <<results, file>>

Record == KeepResult \/ WriteFile \/ KeepsNone

ResultsInit ==
  /\ Init
  /\ results = <<>>
  /\ file = [i \in 1..Len(Tests("client")) |-> IF i = 1 THEN <<>> ELSE Old]

ResultsNext == Next /\ Record

ResultsSpec == ResultsInit /\ [][ResultsNext]_resultsVars

\* The files take no step of their own: the fairness is that of RdmaBench.
ResultsFairSpec ==
  /\ ResultsSpec
  /\ WF_resultsVars(Client /\ Record)
  /\ WF_resultsVars(Server /\ Record)
  /\ \A n \in Node : /\ WF_resultsVars(DeliverMessage(n) /\ Record)
                     /\ WF_resultsVars(FlushRequest(n) /\ Record)
  /\ WF_resultsVars(AccessRegion /\ Record)

-----------------------------------------------------------------------------
(* Properties.                                                             *)

Column(lines) == [k \in DOMAIN lines |-> lines[k].size]

\* A file is complete or empty, whatever happens to the other program: that of
\* a finished test has one line for every buffer size, in order, that of the
\* running test has none, and those of the later tests still hold what an
\* earlier run left there.  The results of a running test are those of its
\* first passes.
FilesComplete ==
  LET p == pos["client"] IN
  /\ \A i \in 1..Len(Tests("client")) :
       CASE i < p.test -> Column(file[i]) = Sizes(Tests("client")[i])
         [] i = p.test -> file[i] = <<>>
         [] OTHER      -> file[i] = Old
  /\ ~Exited("client") =>
       /\ Len(results) <= Len(Sizes(Test("client")))
       /\ Column(results) = SubSeq(Sizes(Test("client")), 1, Len(results))

\* The passes of the running test whose result the client has kept, as its
\* place shows.
Kept(p) ==
  CASE p.label = "open"                    -> 0
    [] p.label \in {"ready", "data", "done"} -> p.round - 1
    [] p.label = "fill"                    -> p.round
    [] p.label \in {"fin", "close"}        -> Len(Sizes(Tests("client")[p.test]))

\* The first lines of a complete file of test t.
LinesOf(t, lines) ==
  /\ lines \in Seq([size : PosNat, ok : BOOLEAN])
  /\ Len(lines) <= Len(Sizes(t))
  /\ \A k \in 1..Len(lines) : lines[k].size = Sizes(t)[k]

\* What makes FilesComplete inductive: there is one line for every pass that
\* the client has ended.
FilesInv ==
  LET p == pos["client"] IN
  /\ DOMAIN file = 1..Len(Tests("client"))
  /\ \A i \in 1..Len(Tests("client")) :
       /\ i < p.test => LinesOf(Tests("client")[i], file[i])
                        /\ Len(file[i]) = Len(Sizes(Tests("client")[i]))
       /\ i = p.test => file[i] = <<>>
       /\ i > p.test => file[i] = Old
  /\ ~Exited("client") => LinesOf(Test("client"), results) /\ Len(results) = Kept(p)

\* A file that has been written is about the test it is named for: no request
\* of it failed, although neither program looks at the outcome of a request,
\* and the server has run the same test.
GenuineResults ==
  \A i \in 1..Len(Tests("client")) :
    i < pos["client"].test =>
      /\ \A k \in DOMAIN file[i] : file[i][k].ok
      /\ i <= Len(Tests("server")) /\ Tests("server")[i] = Tests("client")[i]
      /\ pos["server"].test >= i

\* The one way to a wrong result.  A client started with -metric l reads and
\* writes without waiting for the server; a server that begins with the
\* throughput tests offers it a region of its -datasize, which may be smaller
\* than the largest of the latency sizes.
Unserved ==
  /\ Metric["client"] = "latency" /\ Metric["server"] # "latency"
  /\ \E i \in DOMAIN LatencySizes : LatencySizes[i] > DataSize["server"]

\* Whatever the two programs are started with, no wrong result is written but
\* in that case, and then in the first file only: the client never connects a
\* second time.
NoSilentMismatch == IF Unserved THEN pos["client"].test <= 2 ELSE GenuineResults

-----------------------------------------------------------------------------
(* A benchmark keeps what PassProtocol promises.                           *)

\* The passes of the tests before the client's i-th one.
PassesBefore[i \in 1..(Len(Tests("client")) + 1)] ==
  IF i = 1 THEN 0 ELSE PassesBefore[i - 1] + Len(Sizes(Tests("client")[i - 1]))

Measured == PassesBefore[pos["client"].test] + Len(results)

\* In a one-sided latency test the other side is the memory of the server: the
\* last transfer of a pass is its end.  In the other tests the client ends a
\* pass with a message.
MemoryOnly == ~Exited("client") /\ Test("client") \in {"read_lat", "write_lat"}

HandsOver ==
  /\ blocked["client"]
  /\ \/ At("client", {"done"})
     \/ /\ At("client", {"data"}) /\ MemoryOnly
        /\ ~ClientMore(Test("client"), Size("client"), pos["client"].off)

Sent == Measured + (IF HandsOver THEN 1 ELSE 0)

\* The passes whose end the server has been told, as its own place shows.
ServerConfirmed ==
  LET p == pos["server"] IN
  PassesBefore[p.test] +
    CASE p.label = "open"           -> 0
      [] p.label \in {"fin", "close"} -> Len(Sizes(Test("server")))
      [] p.label = "done"           -> IF rcq["server"] = <<>> THEN p.round - 1 ELSE p.round
      [] OTHER                      -> p.round - 1

Confirmed ==
  IF MemoryOnly THEN Measured + (IF HandsOver /\ scq["client"] # <<>> THEN 1 ELSE 0)
                ELSE ServerConfirmed

Protocol == INSTANCE PassProtocol WITH
  PassCount <- PassesBefore[Len(Tests("client")) + 1],
  sent      <- Sent,
  confirmed <- Confirmed,
  measured  <- Measured

\* The server is at the end of exactly the pass whose time the client takes:
\* the client keeps a result after the server has been told of the end of that
\* pass, and the server is never told of one the client has not ended.
Promise == Protocol!Spec
=============================================================================
