------------------------------ MODULE MCOptions ------------------------------
(***************************************************************************)
(* Values for the constants of Options: words that are a number, one out   *)
(* of range, one that is none, and names of a metric and of connections;    *)
(* enough of them for two lines that differ in order and repetition.       *)
(***************************************************************************)
EXTENDS Options

MCNumber  == [w \in Words |-> CASE w = "5" -> 5 [] w = "-5" -> -5 [] w = "99" -> 99 [] OTHER -> NotANumber]
MCDefault == [o \in ValueOptions |->
                CASE o = "-metric" -> "all" [] o = "-connection" -> "rdma" [] o = "-serverip" -> "127.0.0.1" [] OTHER -> "5"]
MCOffered == {<<"-datasize", "-5">>, <<"-datasize", "99">>, <<"-metric", "l">>, <<"-connection", "rpc">>,
              <<"-connection", "tcp">>, <<"-s">>, <<"-r">>, <<"l">>, <<"-metric">>, <<"-serverip">>}
=============================================================================
