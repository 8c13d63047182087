--------------------------- MODULE BclQueueProofs ---------------------------
(***************************************************************************)
(* No push or pop of the BCL experiment fails, for any number of processes *)
(* and of elements, as long as the queue has room for all of them.         *)
(*                                                                         *)
(* The calls of push and pop that have been made are counted as sets of    *)
(* pairs of a rank and a value of its loop variable.  A rank pops what it  *)
(* has pushed, one after the other, so that the pops are among the pushes, *)
(* and while one of them is to come the queue cannot be empty.             *)
(***************************************************************************)
EXTENDS BclQueue, FiniteSetTheorems, TLAPS

-----------------------------------------------------------------------------
(* Copies in a queue.                                                      *)

\* Appending an element adds one copy of it and of no other.
LEMMA CopiesAppend ==
  ASSUME NEW S, NEW q \in Seq(S), NEW e \in S, NEW v
  PROVE  /\ Copies(q, v) \in Nat
         /\ Copies(Append(q, e), v) = IF e = v THEN Copies(q, v) + 1 ELSE Copies(q, v)
<1> DEFINE n == Len(q)
           D == {j \in 1..n : q[j] = v}
           E == {j \in 1..Len(Append(q, e)) : Append(q, e)[j] = v}
<1>1. n \in Nat /\ Len(Append(q, e)) = n + 1
  OBVIOUS
<1>2. \A j \in 1..(n + 1) : Append(q, e)[j] = IF j = n + 1 THEN e ELSE q[j]
  OBVIOUS
<1>3. IsFiniteSet(D) /\ n + 1 \notin D /\ Cardinality(D) \in Nat
  <2>1. IsFiniteSet(1..n) /\ D \subseteq 1..n
    BY <1>1, FS_Interval
  <2>2. IsFiniteSet(D)
    BY <2>1, FS_Subset
  <2>3. n + 1 \notin D
    BY <1>1
  <2> HIDE DEF D
  <2> QED BY <2>2, <2>3, FS_CardinalityType
<1>4. E = IF e = v THEN D \cup {n + 1} ELSE D
  BY <1>1, <1>2
<1>5. Cardinality(D \cup {n + 1}) = Cardinality(D) + 1
  BY <1>3, FS_AddElement
<1>6. Copies(q, v) = Cardinality(D) /\ Copies(Append(q, e), v) = Cardinality(E)
  BY DEF Copies
<1> HIDE DEF D, E
<1> QED BY <1>3, <1>4, <1>5, <1>6

\* Taking the first element away removes one copy of it and of no other.
LEMMA CopiesTail ==
  ASSUME NEW S, NEW q \in Seq(S), q # <<>>, NEW v
  PROVE  /\ Copies(q, v) \in Nat /\ Copies(Tail(q), v) \in Nat
         /\ Copies(q, v) = IF Head(q) = v THEN Copies(Tail(q), v) + 1 ELSE Copies(Tail(q), v)
<1> DEFINE n == Len(q)
           D == {j \in 1..n : q[j] = v}
           E == {j \in 1..Len(Tail(q)) : Tail(q)[j] = v}
           F == {j \in 2..n : q[j] = v}
           f == [j \in E |-> j + 1]
<1>1. n \in Nat /\ n > 0 /\ Len(Tail(q)) = n - 1 /\ Head(q) = q[1]
  OBVIOUS
<1>2. \A j \in 1..(n - 1) : Tail(q)[j] = q[j + 1]
  OBVIOUS
<1>3. IsFiniteSet(E) /\ IsFiniteSet(F)
  <2>1. IsFiniteSet(1..(n - 1)) /\ IsFiniteSet(2..n)
    BY <1>1, FS_Interval
  <2>2. E \subseteq 1..(n - 1) /\ F \subseteq 2..n
    BY <1>1
  <2> QED BY <2>1, <2>2, FS_Subset
<1>4. Cardinality(F) = Cardinality(E)
  <2>1. f \in [E -> F]
    BY <1>1, <1>2
  <2>2. \A j, k \in E : f[j] = f[k] => j = k
    BY <1>1
  <2>3. \A k \in F : \E j \in E : f[j] = k
    <3> SUFFICES ASSUME NEW k \in F PROVE \E j \in E : f[j] = k
      OBVIOUS
    <3>1. k - 1 \in E
      <4>1. k \in 2..n /\ q[k] = v
        OBVIOUS
      <4>2. k - 1 \in 1..(n - 1) /\ (k - 1) + 1 = k
        BY <1>1, <4>1
      <4> QED BY <1>1, <1>2, <4>1, <4>2
    <3>2. f[k - 1] = k
      BY <1>1, <3>1
    <3> QED BY <3>1, <3>2
  <2> HIDE DEF f, E, F
  <2>4. ExistsBijection(E, F)
    BY <2>1, <2>2, <2>3 DEF ExistsBijection, Bijection, Injection, IsInjective, Surjection
  <2> QED BY <1>3, <2>4, FS_Bijection
<1>5. Cardinality(E) \in Nat /\ 1 \notin F
  <2>1. 1 \notin F
    BY <1>1
  <2> HIDE DEF E, F
  <2> QED BY <1>3, <2>1, FS_CardinalityType
<1>6. D = IF Head(q) = v THEN F \cup {1} ELSE F
  BY <1>1
<1>7. Cardinality(F \cup {1}) = Cardinality(F) + 1
  BY <1>3, <1>5, FS_AddElement
<1>8. Copies(q, v) = Cardinality(D) /\ Copies(Tail(q), v) = Cardinality(E)
  BY DEF Copies
<1> HIDE DEF D, E, F
<1> QED BY <1>4, <1>5, <1>6, <1>7, <1>8

-----------------------------------------------------------------------------
(* The calls that have been made.                                          *)

Calls == Rank \X (0..(Count - 1))

LEMMA Counts ==
  ASSUME QueueInv, NEW r \in Rank
  PROVE  /\ Pushed(r) \in 0..Count /\ Popped(r) \in 0..Count /\ Popped(r) <= Pushed(r)
         /\ at[r] = "push" => Pushed(r) = i[r] /\ i[r] < Count /\ Popped(r) = 0
         /\ at[r] = "pop"  => Popped(r) = i[r] /\ i[r] < Count /\ Pushed(r) = Count
<1>1. PlaceOK(r) /\ i[r] \in Nat /\ entered[r] \in Nat /\ Count \in Nat /\ Count > 0
  BY BclAssumption DEF QueueInv
<1> QED BY <1>1 DEF PlaceOK, After, Pushed, Popped

\* There are no more calls than the queue has room for, and who has popped has
\* pushed before.
LEMMA Bounded ==
  ASSUME QueueInv
  PROVE  /\ IsFiniteSet(Calls) /\ Cardinality(Calls) \in Nat /\ Cardinality(Calls) <= QueueSize
         /\ IsFiniteSet(Pushes) /\ Cardinality(Pushes) \in Nat /\ Pushes \subseteq Calls
         /\ IsFiniteSet(Pops) /\ Cardinality(Pops) \in Nat /\ Pops \subseteq Pushes
<1>1. nprocs \in Nat /\ nprocs > 0 /\ nprocs <= MaxProcs /\ MaxProcs \in Nat /\ Count \in Nat /\ Count > 0
  BY BclAssumption DEF QueueInv
<1>2. IsFiniteSet(Rank) /\ Cardinality(Rank) = nprocs
  BY <1>1, FS_Interval DEF Rank
<1>3. IsFiniteSet(0..(Count - 1)) /\ Cardinality(0..(Count - 1)) = Count
  BY <1>1, FS_Interval
<1>4. IsFiniteSet(Calls) /\ Cardinality(Calls) = nprocs * Count
  BY <1>2, <1>3, FS_Product DEF Calls
<1>5. nprocs * Count \in Nat /\ nprocs * Count <= MaxProcs * Count
  <2>1. PICK k \in Nat : MaxProcs = nprocs + k
    BY <1>1
  <2>2. MaxProcs * Count = nprocs * Count + k * Count
    BY <1>1, <2>1
  <2>3. k * Count \in Nat /\ nprocs * Count \in Nat
    BY <1>1
  <2> QED BY <2>2, <2>3
<1>6. nprocs * Count <= QueueSize
  BY <1>1, <1>5, BclAssumption
<1>7. Pushes \subseteq Calls
  BY DEF Pushes, Calls
<1>8. Pops \subseteq Pushes
  <2> SUFFICES ASSUME NEW c \in Pops PROVE c \in Pushes
    OBVIOUS
  <2>1. c \in Rank \X (0..(Count - 1)) /\ c[2] < Popped(c[1])
    BY DEF Pops
  <2>2. c[1] \in Rank /\ c[2] \in 0..(Count - 1)
    BY <2>1
  <2>3. Popped(c[1]) \in 0..Count /\ Pushed(c[1]) \in 0..Count /\ Popped(c[1]) <= Pushed(c[1])
    BY <2>2, Counts
  <2>4. c[2] < Pushed(c[1])
    BY <1>1, <2>1, <2>2, <2>3
  <2> QED BY <2>1, <2>4 DEF Pushes
<1>9. IsFiniteSet(Pushes) /\ IsFiniteSet(Pops)
  BY <1>4, <1>7, <1>8, FS_Subset
<1> QED BY <1>4, <1>5, <1>6, <1>7, <1>8, <1>9, FS_CardinalityType

\* While a rank has an element to pop, there are fewer pops than pushes, and
\* the queue is not empty.
LEMMA SomethingThere ==
  ASSUME QueueInv, NEW r \in Rank, at[r] = "pop"
  PROVE  queue # <<>>
<1>1. Popped(r) = i[r] /\ i[r] < Count /\ Pushed(r) = Count /\ i[r] \in Nat /\ Count \in Nat
  BY Counts, BclAssumption DEF QueueInv
<1>2. <<r, i[r]>> \in Pushes /\ <<r, i[r]>> \notin Pops
  BY <1>1 DEF Pushes, Pops
<1>3. Cardinality(Pops) < Cardinality(Pushes)
  <2>1. Cardinality(Pops) <= Cardinality(Pushes) /\ (Cardinality(Pushes) = Cardinality(Pops) => Pushes = Pops)
    BY Bounded, FS_Subset
  <2> QED BY <1>2, <2>1, Bounded
<1>4. Len(queue) # 0
  <2>1. Len(queue) + Cardinality(Pops) = Cardinality(Pushes) /\ Len(queue) \in Nat
    BY DEF QueueInv
  <2> QED BY <1>3, <2>1, Bounded
<1> QED BY <1>4

\* A push that is to come finds room.
LEMMA RoomLeft ==
  ASSUME QueueInv, NEW r \in Rank, at[r] = "push"
  PROVE  Len(queue) < QueueSize
<1>1. Pushed(r) = i[r] /\ i[r] < Count /\ i[r] \in Nat /\ Count \in Nat
  BY Counts, BclAssumption DEF QueueInv
<1>2. <<r, i[r]>> \in Calls /\ <<r, i[r]>> \notin Pushes
  BY <1>1 DEF Pushes, Calls
<1>3. Cardinality(Pushes) < Cardinality(Calls)
  <2>1. Cardinality(Pushes) <= Cardinality(Calls) /\ (Cardinality(Calls) = Cardinality(Pushes) => Calls = Pushes)
    BY Bounded, FS_Subset
  <2> QED BY <1>2, <2>1, Bounded
<1>4. Len(queue) + Cardinality(Pops) = Cardinality(Pushes) /\ Len(queue) \in Nat
  BY DEF QueueInv
<1> QED BY <1>3, <1>4, Bounded, BclAssumption

-----------------------------------------------------------------------------
(* The steps.                                                              *)

\* The part of the invariant that is about a rank and not about the queue.
RanksOK ==
  /\ nprocs \in 1..MaxProcs
  /\ at \in [Rank -> {"init", "exited", "barrier", "push", "pop", "ended"}]
  /\ i \in [Rank -> Nat]
  /\ entered \in [Rank -> Nat]
  /\ \A r \in Rank : PlaceOK(r)

\* A step of rank r leaves what the others have pushed and popped as it was.
LEMMA Others ==
  ASSUME QueueInv, NEW r \in Rank, Main(r)
  PROVE  /\ nprocs' = nprocs /\ Rank' = Rank
         /\ \A s \in Rank : s # r => /\ Pushed(s)' = Pushed(s) /\ Popped(s)' = Popped(s)
                                     /\ PlaceOK(s)'
<1>1. nprocs' = nprocs
  BY DEF Main, TooFew, Construct, LeaveBarrier, Push, Pop
<1>2. \A s \in Rank : s # r => at'[s] = at[s] /\ i'[s] = i[s] /\ entered'[s] = entered[s]
  BY DEF Main, TooFew, Construct, LeaveBarrier, Push, Pop, LoopThenBarrier, EnterBarrier, QueueInv
<1> QED BY <1>1, <1>2 DEF Rank, Pushed, Popped, PlaceOK, QueueInv

\* A call of push or of pop counts itself.
LEMMA LoopStep ==
  ASSUME QueueInv, NEW r \in Rank, at[r] \in {"push", "pop"}, Main(r), LoopThenBarrier(r)
  PROVE  /\ RanksOK'
         /\ Pushed(r)' = IF at[r] = "push" THEN Pushed(r) + 1 ELSE Pushed(r)
         /\ Popped(r)' = IF at[r] = "pop" THEN Popped(r) + 1 ELSE Popped(r)
<1>1. /\ i[r] \in Nat /\ i[r] < Count /\ Count \in Nat /\ Count > 0
      /\ at[r] = "push" => entered[r] = 1
      /\ at[r] = "pop" => entered[r] = 2
  <2>1. PlaceOK(r) /\ i[r] \in Nat /\ Count \in Nat /\ Count > 0
    BY BclAssumption DEF QueueInv
  <2>2. i[r] < Count
    BY Counts
  <2> QED BY <2>1, <2>2 DEF PlaceOK, After
<1>2. /\ i' = [i EXCEPT ![r] = @ + 1]
      /\ IF i[r] + 1 < Count THEN at' = at /\ entered' = entered
         ELSE at' = [at EXCEPT ![r] = "barrier"] /\ entered' = [entered EXCEPT ![r] = @ + 1]
  BY DEF LoopThenBarrier, EnterBarrier
<1>3. /\ i'[r] = i[r] + 1
      /\ IF i[r] + 1 < Count THEN at'[r] = at[r] /\ entered'[r] = entered[r]
         ELSE at'[r] = "barrier" /\ entered'[r] = entered[r] + 1
  BY <1>2 DEF QueueInv
<1>4. PlaceOK(r)'
  BY <1>1, <1>3 DEF PlaceOK, After
<1>5. /\ at' \in [Rank -> {"init", "exited", "barrier", "push", "pop", "ended"}]
      /\ i' \in [Rank -> Nat] /\ entered' \in [Rank -> Nat]
  <2>1. i' \in [Rank -> Nat]
    BY <1>1, <1>2 DEF QueueInv
  <2>2. /\ at \in [Rank -> {"init", "exited", "barrier", "push", "pop", "ended"}]
        /\ entered \in [Rank -> Nat] /\ entered[r] + 1 \in Nat
    BY DEF QueueInv
  <2>3. CASE i[r] + 1 < Count
    BY <1>2, <2>1, <2>2, <2>3
  <2>4. CASE ~(i[r] + 1 < Count)
    <3>1. at' = [at EXCEPT ![r] = "barrier"] /\ entered' = [entered EXCEPT ![r] = @ + 1]
      BY <1>2, <2>4
    <3> QED BY <2>1, <2>2, <3>1
  <2> QED BY <2>3, <2>4
<1>6. RanksOK'
  BY <1>4, <1>5, Others DEF RanksOK, QueueInv
<1>7. /\ Pushed(r)' = IF at[r] = "push" THEN Pushed(r) + 1 ELSE Pushed(r)
      /\ Popped(r)' = IF at[r] = "pop" THEN Popped(r) + 1 ELSE Popped(r)
  BY <1>1, <1>3 DEF Pushed, Popped
<1> QED BY <1>6, <1>7

\* A step that touches neither the queue nor what is printed.
LEMMA BarrierStep ==
  ASSUME QueueInv, NEW r \in Rank, TooFew(r) \/ Construct(r) \/ LeaveBarrier(r)
  PROVE  QueueInv'
<1>1. Main(r)
  BY DEF Main
<1>2. /\ i[r] \in Nat /\ entered[r] \in Nat /\ PlaceOK(r) /\ Count \in Nat /\ Count > 0
      /\ UNCHANGED <<x, queue, printed>> /\ Rank' = Rank
  BY <1>1, BclAssumption, Others DEF QueueInv, TooFew, Construct, LeaveBarrier
<1>3. /\ PlaceOK(r)' /\ Pushed(r)' = Pushed(r) /\ Popped(r)' = Popped(r)
      /\ at' \in [Rank -> {"init", "exited", "barrier", "push", "pop", "ended"}]
      /\ i' \in [Rank -> Nat] /\ entered' \in [Rank -> Nat]
  <2>1. CASE TooFew(r)
    BY <1>2, <2>1 DEF TooFew, QueueInv, PlaceOK, Pushed, Popped, After
  <2>2. CASE Construct(r)
    BY <1>2, <2>2 DEF Construct, EnterBarrier, QueueInv, PlaceOK, Pushed, Popped, After
  <2>3. CASE LeaveBarrier(r)
    <3>1. at[r] = "barrier" /\ entered[r] \in 1..3
      BY <1>2, <2>3 DEF LeaveBarrier, PlaceOK, After
    <3>2. After[entered[r]] \in {"push", "pop", "ended"}
      BY <3>1 DEF After
    <3>3. /\ at' = [at EXCEPT ![r] = After[entered[r]]] /\ i' = [i EXCEPT ![r] = 0] /\ entered' = entered
      BY <2>3 DEF LeaveBarrier
    <3> QED BY <1>2, <3>1, <3>2, <3>3 DEF QueueInv, PlaceOK, Pushed, Popped, After
  <2> QED BY <2>1, <2>2, <2>3
<1>4. \A s \in Rank : Pushed(s)' = Pushed(s) /\ Popped(s)' = Popped(s) /\ PlaceOK(s)'
  BY <1>1, <1>3, Others
<1>5. Pushes' = Pushes /\ Pops' = Pops
  BY <1>2, <1>4 DEF Pushes, Pops
<1>6. EachElementOnce'
  BY <1>2, <1>4 DEF QueueInv, EachElementOnce
<1> QED BY <1>1, <1>2, <1>3, <1>4, <1>5, <1>6, Others DEF QueueInv

\* A push succeeds.
LEMMA PushStep ==
  ASSUME QueueInv, NEW r \in Rank, Push(r)
  PROVE  QueueInv'
<1> DEFINE call == <<r, i[r]>>
<1>1. /\ at[r] = "push" /\ LoopThenBarrier(r) /\ Main(r)
      /\ queue' = Append(queue, r) /\ UNCHANGED <<x, printed>>
  BY RoomLeft DEF Push, Main
<1>2. /\ RanksOK' /\ Rank' = Rank
      /\ Pushed(r) = i[r] /\ i[r] < Count /\ i[r] \in Nat /\ Count \in Nat
      /\ Pushed(r)' = i[r] + 1
      /\ \A s \in Rank : Popped(s)' = Popped(s) /\ (s # r => Pushed(s)' = Pushed(s))
  BY <1>1, LoopStep, Others, Counts, BclAssumption DEF QueueInv
<1>3. Pops' = Pops
  BY <1>2 DEF Pops
<1>4. Pushes' = Pushes \cup {call} /\ call \notin Pushes
  <2>1. \A c \in Calls : c \in Pushes' <=> c \in Pushes \/ c = call
    <3> SUFFICES ASSUME NEW s \in Rank, NEW k \in 0..(Count - 1)
                 PROVE  k < Pushed(s)' <=> k < Pushed(s) \/ (s = r /\ k = i[r])
      BY <1>2 DEF Calls, Pushes
    <3> QED BY <1>2
  <2>2. call \in Calls
    BY <1>2 DEF Calls
  <2>3. Pushes \subseteq Calls /\ Pushes' \subseteq Calls
    BY <1>2 DEF Calls, Pushes
  <2>4. call \notin Pushes
    BY <1>2 DEF Pushes
  <2> QED BY <2>1, <2>2, <2>3, <2>4
<1>5. Cardinality(Pushes') = Cardinality(Pushes) + 1
  BY <1>4, Bounded, FS_AddElement
<1>6. queue \in Seq(Rank) /\ Len(queue') = Len(queue) + 1 /\ queue' \in Seq(Rank)
  BY <1>1 DEF QueueInv
<1>7. Len(queue') + Cardinality(Pops') = Cardinality(Pushes')
  <2>1. Len(queue) + Cardinality(Pops) = Cardinality(Pushes)
    BY DEF QueueInv
  <2>2. Cardinality(Pops) \in Nat /\ Cardinality(Pushes) \in Nat /\ Len(queue) \in Nat
    BY <1>6, Bounded
  <2>3. Cardinality(Pops') = Cardinality(Pops)
    BY <1>3
  <2> QED BY <1>5, <1>6, <2>1, <2>2, <2>3
<1>8. EachElementOnce'
  <2>1. \A v \in Rank : /\ Copies(queue, v) \in Nat /\ printed[v] \in Nat
                        /\ Copies(queue', v) = IF r = v THEN Copies(queue, v) + 1 ELSE Copies(queue, v)
                        /\ printed[v] + Copies(queue, v) = Pushed(v)
    BY <1>1, <1>6, CopiesAppend DEF QueueInv, EachElementOnce
  <2>2. \A v \in Rank : printed[v] + Copies(queue', v) = Pushed(v)'
    BY <1>2, <2>1
  <2> QED BY <1>1, <1>2, <2>2 DEF QueueInv, EachElementOnce
<1> QED BY <1>1, <1>2, <1>6, <1>7, <1>8 DEF QueueInv, RanksOK

\* A pop succeeds, and what it has popped is printed.
LEMMA PopStep ==
  ASSUME QueueInv, NEW r \in Rank, Pop(r)
  PROVE  QueueInv'
<1> DEFINE call == <<r, i[r]>>
           h == Head(queue)
<1>1. /\ at[r] = "pop" /\ LoopThenBarrier(r) /\ Main(r) /\ queue # <<>>
      /\ x' = [x EXCEPT ![r] = h] /\ queue' = Tail(queue)
      /\ printed' = [printed EXCEPT ![x'[r]] = @ + 1]
  BY SomethingThere DEF Pop, Main
<1>2. /\ RanksOK' /\ Rank' = Rank
      /\ Popped(r) = i[r] /\ i[r] < Count /\ i[r] \in Nat /\ Count \in Nat
      /\ Popped(r)' = i[r] + 1
      /\ \A s \in Rank : Pushed(s)' = Pushed(s) /\ (s # r => Popped(s)' = Popped(s))
  BY <1>1, LoopStep, Others, Counts, BclAssumption DEF QueueInv
<1>3. Pushes' = Pushes
  BY <1>2 DEF Pushes
<1>4. Pops' = Pops \cup {call} /\ call \notin Pops
  <2>1. \A c \in Calls : c \in Pops' <=> c \in Pops \/ c = call
    <3> SUFFICES ASSUME NEW s \in Rank, NEW k \in 0..(Count - 1)
                 PROVE  k < Popped(s)' <=> k < Popped(s) \/ (s = r /\ k = i[r])
      BY <1>2 DEF Calls, Pops
    <3> QED BY <1>2
  <2>2. call \in Calls
    BY <1>2 DEF Calls
  <2>3. Pops \subseteq Calls /\ Pops' \subseteq Calls
    BY <1>2 DEF Calls, Pops
  <2>4. call \notin Pops
    BY <1>2 DEF Pops
  <2> QED BY <2>1, <2>2, <2>3, <2>4
<1>5. Cardinality(Pops') = Cardinality(Pops) + 1
  BY <1>4, Bounded, FS_AddElement
<1>6. /\ queue \in Seq(Rank) /\ h \in Rank /\ Len(queue) \in Nat
      /\ Len(queue') = Len(queue) - 1 /\ queue' \in Seq(Rank)
  BY <1>1 DEF QueueInv
<1>7. Len(queue') + Cardinality(Pops') = Cardinality(Pushes')
  <2>1. Len(queue) + Cardinality(Pops) = Cardinality(Pushes) /\ Cardinality(Pops) \in Nat
    BY Bounded DEF QueueInv
  <2> QED BY <1>3, <1>5, <1>6, <2>1
<1>8. /\ x' \in [Rank -> Rank \cup {Garbage}] /\ x'[r] = h
      /\ printed' = [printed EXCEPT ![h] = @ + 1]
      /\ printed' \in [Rank \cup {Garbage} -> Nat]
  <2>1. x' \in [Rank -> Rank \cup {Garbage}] /\ x'[r] = h
    BY <1>1, <1>6 DEF QueueInv
  <2>2. printed' = [printed EXCEPT ![h] = @ + 1]
    BY <1>1, <2>1
  <2> QED BY <1>6, <2>1, <2>2 DEF QueueInv
<1>9. EachElementOnce'
  <2>1. Garbage \notin Rank
    BY BclAssumption DEF QueueInv, Rank
  <2>2. printed'[Garbage] = 0
    BY <1>6, <1>8, <2>1 DEF QueueInv, EachElementOnce
  <2>3. \A v \in Rank : /\ Copies(queue, v) \in Nat /\ Copies(queue', v) \in Nat /\ printed[v] \in Nat
                        /\ Copies(queue, v) = IF h = v THEN Copies(queue', v) + 1 ELSE Copies(queue', v)
                        /\ printed'[v] = IF h = v THEN printed[v] + 1 ELSE printed[v]
                        /\ printed[v] + Copies(queue, v) = Pushed(v)
    BY <1>1, <1>6, <1>8, CopiesTail DEF QueueInv, EachElementOnce
  <2>4. \A v \in Rank : printed'[v] + Copies(queue', v) = Pushed(v)'
    BY <1>2, <2>3
  <2> QED BY <1>2, <2>2, <2>4 DEF EachElementOnce
<1> QED BY <1>2, <1>6, <1>7, <1>8, <1>9 DEF QueueInv, RanksOK

-----------------------------------------------------------------------------
(* The theorems.                                                           *)

\* The queue is always as long as there have been more pushes than pops, for
\* any number of processes and of elements.
THEOREM QueueInvariance == Spec => []QueueInv
<1>1. Init => QueueInv
  <2> SUFFICES ASSUME Init PROVE QueueInv
    OBVIOUS
  <2>1. /\ nprocs \in 1..MaxProcs /\ queue = <<>> /\ Count \in Nat
        /\ \A r \in Rank : at[r] = "init" /\ entered[r] = 0 /\ PlaceOK(r) /\ Pushed(r) = 0 /\ Popped(r) = 0
    BY BclAssumption DEF Init, PlaceOK, Pushed, Popped
  <2>2. Pushes = {} /\ Pops = {}
    BY <2>1 DEF Pushes, Pops
  <2>3. Cardinality(Pushes) = 0 /\ Cardinality(Pops) = 0
    BY <2>2, FS_EmptySet
  <2>4. \A v \in Rank : Copies(queue, v) = 0
    <3> SUFFICES ASSUME NEW v \in Rank PROVE Copies(queue, v) = 0
      OBVIOUS
    <3>1. {j \in 1..Len(queue) : queue[j] = v} = {}
      BY <2>1
    <3> QED BY <3>1, FS_EmptySet DEF Copies
  <2>5. EachElementOnce
    BY <2>1, <2>4 DEF Init, EachElementOnce
  <2> QED BY <2>1, <2>3, <2>5 DEF Init, QueueInv
<1>2. QueueInv /\ [Next]_vars => QueueInv'
  <2> SUFFICES ASSUME QueueInv, [Next]_vars PROVE QueueInv'
    OBVIOUS
  <2>1. CASE Next
    BY <2>1, BarrierStep, PushStep, PopStep DEF Next, Main
  <2>2. CASE UNCHANGED vars
    BY <2>2 DEF vars, QueueInv, PlaceOK, Rank, EachElementOnce, Pushes, Pops, Pushed, Popped
  <2> QED BY <2>1, <2>2
<1> QED BY <1>1, <1>2, PTL DEF Spec

\* No pop fails, although its outcome is ignored: the queue is not empty while
\* a process has an element to pop.
THEOREM PopsSucceed == Spec => []NoPopFails
<1>1. QueueInv => NoPopFails
  BY SomethingThere DEF NoPopFails
<1> QED BY <1>1, QueueInvariance, PTL

\* Every element that is pushed is printed once, or waits in the queue, and
\* nothing is printed that was not pushed.
THEOREM PrintedOnce == Spec => []EachElementOnce
<1>1. QueueInv => EachElementOnce
  BY DEF QueueInv
<1> QED BY <1>1, QueueInvariance, PTL
=============================================================================
