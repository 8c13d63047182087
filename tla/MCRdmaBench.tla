----------------------------- MODULE MCRdmaBench -----------------------------
(***************************************************************************)
(* Values for the constants of RdmaBench.  The sizes double, as those of   *)
(* utils.h do, and the last one exceeds the data size.                     *)
(***************************************************************************)
EXTENDS RdmaPairs

CONSTANTS ClientMetric, ServerMetric, ClientData, ServerData

MCMetric   == [n \in Node |-> IF n = "client" THEN ClientMetric ELSE ServerMetric]
MCDataSize == [n \in Node |-> IF n = "client" THEN ClientData ELSE ServerData]
MCBufferSizes  == <<2, 4, 8>>
MCLatencySizes == <<1, 2, 4>>
=============================================================================
