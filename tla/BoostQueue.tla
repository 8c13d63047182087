------------------------------ MODULE BoostQueue -----------------------------
(***************************************************************************)
(* The Boost experiment, main of BoostTests.cpp: the process with id 0     *)
(* pushes one element onto a distributed queue, and the process with id 1  *)
(* reads until the queue is empty.                                         *)
(*                                                                         *)
(* The queue is the library's (Boost Parallel BGL), which is not part of   *)
(* this repository.  Every process holds the elements it owns -- of        *)
(* global_value v, process v.processor -- and a pushed element gets to its *)
(* owner at the next synchronisation.  size() and empty() look at the      *)
(* local part; while that is empty they synchronise with all the other     *)
(* processes, until it is not, or every part is.                           *)
(***************************************************************************)
EXTENDS Naturals, Sequences

CONSTANT NProcs   \* num_processes(pg)

VARIABLES
  at,       \* at[p]: the call p is in
  waits,    \* waits[p]: p is waiting in a synchronisation
  outgoing, \* outgoing[p]: what p has pushed since the last one
  part      \* part[p]: the elements p holds

vars == <<at, waits, outgoing, part>>

Process == 0..(NProcs - 1)
Owner(v) == v.processor
v0 == [processor |-> 0, value |-> 0]

\* The calls of main that synchronise whatever the queue holds, in their order,
\* with the push of process 0 after the first of them.
Line == <<"sync1", "push", "sync2", "sync3", "size", "empty">>
Next1(place) == LET k == CHOOSE k \in 1..Len(Line) : Line[k] = place IN Line[k + 1]

Collective(p) ==
  \/ at[p] \in {"sync1", "sync2", "sync3"}
  \/ at[p] \in {"size", "empty"} /\ part[p] = <<>>

EnterSync(p) ==
  /\ ~waits[p] /\ Collective(p)
  /\ waits' = [waits EXCEPT ![p] = TRUE]
  /\ UNCHANGED <<at, outgoing, part>>

Push(p) ==
  /\ at[p] = "push"
  /\ at' = [at EXCEPT ![p] = Next1(@)]
  /\ outgoing' = [outgoing EXCEPT ![p] = IF p = 0 THEN Append(@, v0) ELSE @]
  /\ UNCHANGED <<waits, part>>

\* All processes have come: what was pushed gets to its owners.
Arrived(p) == part[p] \o SelectSeq(outgoing[0], LAMBDA v : Owner(v) = p)

Synchronize ==
  /\ \A p \in Process : waits[p]
  /\ waits' = [p \in Process |-> FALSE]
  /\ outgoing' = [p \in Process |-> <<>>]
  /\ part' = [p \in Process |-> Arrived(p)]
  /\ at' = [p \in Process |->
       CASE at[p] \in {"sync1", "sync2", "sync3"} -> Next1(at[p])
         [] at[p] = "size" /\ (\A q \in Process : Arrived(q) = <<>>)  -> "empty"
         [] at[p] = "empty" /\ (\A q \in Process : Arrived(q) = <<>>) -> "ended"
         [] OTHER -> at[p]]

\* size() of a queue with local elements returns at once.
Size(p) ==
  /\ at[p] = "size" /\ part[p] # <<>>
  /\ at' = [at EXCEPT ![p] = "empty"]
  /\ UNCHANGED <<waits, outgoing, part>>

\* while (!q.empty()), with local elements: only the process with id 1 reads
\* and pops one.
Loop(p) ==
  /\ at[p] = "empty" /\ part[p] # <<>>
  /\ part' = [part EXCEPT ![p] = IF p = 1 THEN Tail(@) ELSE @]
  /\ UNCHANGED <<at, waits, outgoing>>

Init ==
  /\ at = [p \in Process |-> "sync1"]
  /\ waits = [p \in Process |-> FALSE]
  /\ outgoing = [p \in Process |-> <<>>]
  /\ part = [p \in Process |-> <<>>]

Main(p) == EnterSync(p) \/ Push(p) \/ Size(p) \/ Loop(p)

Next == (\E p \in Process : Main(p)) \/ Synchronize

Spec == Init /\ [][Next]_vars

\* No process is stopped for ever, and a synchronisation all have come to ends.
FairSpec == Spec /\ (\A p \in Process : WF_vars(Main(p))) /\ WF_vars(Synchronize)

-----------------------------------------------------------------------------
(* Properties.                                                             *)

\* The element that was written is read, so that the loop that waits for the
\* queue to be empty ends everywhere.
AllEnd == <>(\A p \in Process : at[p] = "ended")
=============================================================================
