------------------------------ MODULE BclQueue -------------------------------
(***************************************************************************)
(* The BCL experiment, main of BCLTests.cpp: every process pushes its rank *)
(* onto one shared bounded queue some number of times, and pops as many    *)
(* elements, between barriers.  What push and pop return is ignored; the   *)
(* popped value is printed whether there was one or not.                   *)
(*                                                                         *)
(* The queue and the barrier are the library's (BCL), which is not part of *)
(* this repository: push and pop take effect at once, fail on a full or an *)
(* empty queue, and nobody leaves a barrier before all have entered it.    *)
(***************************************************************************)
EXTENDS Naturals, Sequences, FiniteSets

CONSTANTS
  MaxProcs,  \* bound: the largest number of processes
  Count,     \* how many elements each process pushes and pops
  QueueSize, \* queue_size, the capacity of the queue
  Garbage    \* the value of an uninitialised int

ASSUME BclAssumption ==
  /\ MaxProcs \in Nat /\ Count \in Nat \ {0}
  /\ QueueSize \in Nat /\ QueueSize >= MaxProcs * Count
  /\ Garbage \notin Nat

VARIABLES
  nprocs,   \* BCL::nprocs()
  at,       \* at[r]: where rank r is
  i,        \* i[r]: loop variable
  x,        \* x[r]: the variable r pops into
  entered,  \* entered[r]: how many barriers r has entered
  queue,    \* the shared queue
  printed   \* printed[v]: how often v has been printed as popped

vars == <<nprocs, at, i, x, entered, queue, printed>>

Rank == 0..(nprocs - 1)

\* A rank comes to a barrier from the construction of the queue, from the loop
\* of pushes and from the loop of pops; these are the places it goes on to.
After == <<"push", "pop", "ended">>

EnterBarrier(r) ==
  /\ at' = [at EXCEPT ![r] = "barrier"]
  /\ entered' = [entered EXCEPT ![r] = @ + 1]

TooFew(r) ==
  /\ at[r] = "init"
  /\ nprocs < 2
  /\ at' = [at EXCEPT ![r] = "exited"]
  /\ UNCHANGED <<nprocs, i, x, entered, queue, printed>>

Construct(r) ==
  /\ at[r] = "init"
  /\ nprocs >= 2
  /\ EnterBarrier(r)
  /\ UNCHANGED <<nprocs, i, x, queue, printed>>

LeaveBarrier(r) ==
  /\ at[r] = "barrier"
  /\ \A s \in Rank : entered[s] >= entered[r]
  /\ at' = [at EXCEPT ![r] = After[entered[r]]]
  /\ i' = [i EXCEPT ![r] = 0]
  /\ UNCHANGED <<nprocs, x, entered, queue, printed>>

\* A loop of Count calls, followed by a barrier.
LoopThenBarrier(r) ==
  /\ i' = [i EXCEPT ![r] = @ + 1]
  /\ IF i[r] + 1 < Count THEN UNCHANGED <<at, entered>> ELSE EnterBarrier(r)

Push(r) ==
  /\ at[r] = "push"
  /\ queue' = IF Len(queue) < QueueSize THEN Append(queue, r) ELSE queue
  /\ LoopThenBarrier(r)
  /\ UNCHANGED <<nprocs, x, printed>>

\* Variants of Pop: one element more than was pushed, and no barrier after the
\* last one on rank 0.
PopOneMore(r) ==
  /\ at[r] = "pop"
  /\ IF queue = <<>> THEN UNCHANGED <<queue, x>>
     ELSE /\ x' = [x EXCEPT ![r] = Head(queue)]
          /\ queue' = Tail(queue)
  /\ printed' = [printed EXCEPT ![x'[r]] = @ + 1]
  /\ i' = [i EXCEPT ![r] = @ + 1]
  /\ IF i[r] < Count THEN UNCHANGED <<at, entered>> ELSE EnterBarrier(r)
  /\ UNCHANGED nprocs
PopNoBarrier(r) ==
  /\ at[r] = "pop"
  /\ IF queue = <<>> THEN UNCHANGED <<queue, x>>
     ELSE /\ x' = [x EXCEPT ![r] = Head(queue)]
          /\ queue' = Tail(queue)
  /\ printed' = [printed EXCEPT ![x'[r]] = @ + 1]
  /\ IF r = 0 /\ i[r] + 1 = Count
     THEN at' = [at EXCEPT ![r] = "ended"] /\ UNCHANGED <<i, entered>>
     ELSE LoopThenBarrier(r)
  /\ UNCHANGED nprocs

\* A pop that fails leaves x as it was.
Pop(r) ==
  /\ at[r] = "pop"
  /\ IF queue = <<>> THEN UNCHANGED <<queue, x>>
     ELSE /\ x' = [x EXCEPT ![r] = Head(queue)]
          /\ queue' = Tail(queue)
  /\ printed' = [printed EXCEPT ![x'[r]] = @ + 1]
  /\ LoopThenBarrier(r)
  /\ UNCHANGED nprocs

Init ==
  /\ nprocs \in 1..MaxProcs
  /\ at = [r \in Rank |-> "init"]
  /\ i = [r \in Rank |-> 0]
  /\ x = [r \in Rank |-> Garbage]
  /\ entered = [r \in Rank |-> 0]
  /\ queue = <<>>
  /\ printed = [v \in Rank \cup {Garbage} |-> 0]

Main(r) == TooFew(r) \/ Construct(r) \/ LeaveBarrier(r) \/ Push(r) \/ Pop(r)

Next == \E r \in Rank : Main(r)

Spec == Init /\ [][Next]_vars

\* No process is stopped for ever.
FairSpec == Spec /\ \A r \in 0..(MaxProcs - 1) : WF_vars(r \in Rank /\ Main(r))

-----------------------------------------------------------------------------
(* Properties.                                                             *)

\* A pop always finds an element, though other processes may be faster: each
\* process has pushed as many as it pops, and no push has failed.  (This needs
\* no barrier: without the one between the two loops it still holds.)
NoPopFails == \A r \in Rank : at[r] = "pop" => queue # <<>>

\* How many elements a rank has pushed and popped, as its place shows.
Pushed(r) == IF at[r] = "push" THEN i[r] ELSE IF entered[r] <= 1 THEN 0 ELSE Count
Popped(r) == IF at[r] = "pop"  THEN i[r] ELSE IF entered[r] <= 2 THEN 0 ELSE Count

\* How often v is in a queue.
Copies(q, v) == Cardinality({j \in 1..Len(q) : q[j] = v})

\* What is printed has been popped, and what has been pushed is printed once:
\* nothing is lost on a full queue, printed twice or printed from an
\* uninitialised variable.
EachElementOnce ==
  /\ printed[Garbage] = 0
  /\ \A v \in Rank : printed[v] + Copies(queue, v) = Pushed(v)

\* The calls of push and of pop that have been made, by rank and by the loop
\* variable.
Pushes == {c \in Rank \X (0..(Count - 1)) : c[2] < Pushed(c[1])}
Pops   == {c \in Rank \X (0..(Count - 1)) : c[2] < Popped(c[1])}

\* Where a rank can be, after how many barriers.
PlaceOK(r) ==
  \/ at[r] \in {"init", "exited"} /\ entered[r] = 0
  \/ at[r] = "barrier" /\ entered[r] \in 1..3
  \/ entered[r] \in 1..3 /\ at[r] = After[entered[r]] /\ i[r] < Count

\* What makes both inductive: the queue is as long as there have been more
\* pushes than pops, so that none of them has failed.
QueueInv ==
  /\ nprocs \in 1..MaxProcs
  /\ at \in [Rank -> {"init", "exited", "barrier", "push", "pop", "ended"}]
  /\ i \in [Rank -> Nat]
  /\ x \in [Rank -> Rank \cup {Garbage}]
  /\ entered \in [Rank -> Nat]
  /\ queue \in Seq(Rank)
  /\ printed \in [Rank \cup {Garbage} -> Nat]
  /\ \A r \in Rank : PlaceOK(r)
  /\ Len(queue) + Cardinality(Pops) = Cardinality(Pushes)
  /\ EachElementOnce

\* Every process ends.
AllEnd == <>(\A r \in Rank : at[r] \in {"ended", "exited"})
=============================================================================
