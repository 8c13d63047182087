------------------------------ MODULE MCTcpPairs -----------------------------
(***************************************************************************)
(* TcpBench for programs started with different arguments: a command is a  *)
(* pair of them, chosen at the start, and both programs then run as        *)
(* TcpBench says.  TCP tells neither that the other counts other bytes.    *)
(***************************************************************************)
EXTENDS Naturals, Sequences

CONSTANTS Chosen, NumLoops, Capacity, SizeMax, MaxErrors, MayReset, MayFail

VARIABLES
  command,  \* the arguments of both programs
  at, state, little, data, results, errors, link, wire, pending, closed

BufferSizes  == <<2, 3>>
LatencySizes == <<1, 2>>

Bench(c) == INSTANCE TcpBench WITH Metric <- c.metric, DataSize <- c.data

vars == <<command, at, state, little, data, results, errors, link, wire, pending, closed>>

Init == \E c \in Chosen : command = c /\ Bench(c)!Init
Next == \E c \in Chosen : command = c /\ command' = c /\ Bench(c)!Next
Spec == Init /\ [][Next]_vars

FairSpec ==
  /\ Spec
  /\ WF_vars(\E c \in Chosen : command = c /\ command' = c /\ Bench(c)!Client)
  /\ WF_vars(\E c \in Chosen : command = c /\ command' = c /\ Bench(c)!Server)

\* A function of the two programs, from what each of them is given.
Both(client, server) == [n \in {"client", "server"} |-> IF n = "client" THEN client ELSE server]
Metrics == {"throughput", "latency", "all"}

\* Any two metrics, and data of the server that are larger, smaller or equal.
AnyTwo == {[metric |-> Both(a, b), data |-> Both(d, e)] : a \in Metrics, b \in Metrics, d \in 4..5, e \in 3..5}

-----------------------------------------------------------------------------
(* What TcpBench promises for a command.                                   *)

\* A result needs an answer of the server, whichever pass that answer is for.
NoResultWithoutAnswer == \A c \in Chosen : command = c => Bench(c)!NoResultWithoutAnswer

\* A server that is to take in less than the client sends does not leave the
\* client waiting.
EndsIfServerWantsLess ==
  link = "up" /\ (\E c \in Chosen : command = c /\ Bench(c)!ServerWantsLess)
    ~> \A n \in {"client", "server"} : state[n] # "running"
=============================================================================
