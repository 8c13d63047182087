----------------------------- MODULE MCRdmaPairs -----------------------------
(***************************************************************************)
(* RdmaResults for programs started with different arguments: a command is *)
(* a pair of them, chosen at the start, and both programs then run as      *)
(* RdmaResults says.  Nothing in the protocol compares the arguments.      *)
(***************************************************************************)
EXTENDS Naturals, Sequences

CONSTANTS Chosen, NumLoops, MaxBufferSize, Junk, Old

VARIABLES
  command,  \* the arguments of both programs
  pos, blocked, dial, failed, mem, conn, qp, sq, scq, srq, rcq, results, file

BufferSizes  == <<2, 4, 8>>
LatencySizes == <<1, 2, 4>>

Bench(c) == INSTANCE RdmaPairs WITH Metric <- c.metric, DataSize <- c.data

vars == <<command, pos, blocked, dial, failed, mem, conn, qp, sq, scq, srq, rcq, results, file>>

Init == \E c \in Chosen : command = c /\ Bench(c)!ResultsInit
Next == \E c \in Chosen : command = c /\ command' = c /\ Bench(c)!ResultsNext
Spec == Init /\ [][Next]_vars

\* A function of the two programs, from what each of them is given.
Both(client, server) == [n \in {"client", "server"} |-> IF n = "client" THEN client ELSE server]
Metrics == {"throughput", "latency", "all"}

Commands(data) ==
  {[metric |-> Both(a, b), data |-> Both(d[1], d[2])] : a \in Metrics, b \in Metrics, d \in data}

\* Any two metrics, and data of the server that are smaller, as large, or
\* larger.  Some of the sizes are multiples of a buffer size, the others are not.
AnyTwo == Commands({<<5, 3>>, <<6, 4>>, <<3, 1>>, <<3, 5>>, <<2, 4>>, <<4, 4>>, <<5, 5>>})

-----------------------------------------------------------------------------
(* The properties of RdmaBench and RdmaResults, for every command.         *)

\* When the client works on the region of the server, and the one refill that
\* can meet it.
RefillsOnlyThere == \A c \in Chosen : command = c => Bench(c)!RefillsOnlyThere

\* The places where both programs can be stuck, whatever they are started with.
StuckOnlyThere == \A c \in Chosen : command = c => Bench(c)!StuckOnlyThere

\* A results file that is written is about the test it is named for, but for
\* one file of a client that runs the latency tests against a server that does
\* not.
NoSilentMismatch == \A c \in Chosen : command = c => Bench(c)!NoSilentMismatch
=============================================================================
