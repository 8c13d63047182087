----------------------------- MODULE MCTcpBench -----------------------------
(***************************************************************************)
(* Values for the constants of TcpBench: a buffer size that divides the    *)
(* data size of the runs, one that does not, and one that exceeds it; the  *)
(* stream has room for less than one message of the largest kinds.         *)
(***************************************************************************)
EXTENDS TcpLockstep

CONSTANTS CommonMetric, ClientData, ServerData

MCMetric   == [n \in Node |-> CommonMetric]
MCDataSize == [n \in Node |-> IF n = "client" THEN ClientData ELSE ServerData]
MCBufferSizes  == <<3, 4, 12>>
MCLatencySizes == <<1, 3>>
=============================================================================
