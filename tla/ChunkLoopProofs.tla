-------------------------- MODULE ChunkLoopProofs ---------------------------
(***************************************************************************)
(* Facts about the loops of ChunkLoop, for every data size and buffer      *)
(* size: the moving loop covers each byte once, and both loops agree on    *)
(* the number of pieces unless the buffer size divides the data size.      *)
(***************************************************************************)
EXTENDS ChunkLoop, FiniteSetTheorems, TLAPS

\* What % and \div compute for natural numbers.
LEMMA DivMod ==
  ASSUME NEW a \in Nat, NEW b \in Nat, b > 0
  PROVE  /\ a \div b \in Nat
         /\ (a % b) \in Nat
         /\ (a % b) < b
         /\ a = (b * (a \div b)) + (a % b)
  OBVIOUS

\* Consecutive multiples of b are b apart.
LEMMA Times ==
  ASSUME NEW q \in Nat, NEW r \in Nat, NEW b \in Nat, b > 0, q < r
  PROVE  b * q + b <= b * r
<1>1. PICK k \in Nat : r = q + 1 + k
  OBVIOUS
<1>2. b * r = b * q + b + b * k
  BY <1>1
<1>3. b * k >= 0
  OBVIOUS
<1> QED BY <1>2, <1>3

\* A smaller multiple of b has a smaller factor.
LEMMA Smaller ==
  ASSUME NEW q \in Nat, NEW r \in Nat, NEW b \in Nat, b > 0, b * q < b * r
  PROVE  q < r
<1>1. SUFFICES ASSUME r <= q PROVE FALSE OBVIOUS
<1>2. PICK k \in Nat : q = r + k
  BY <1>1
<1>3. b * q = b * r + b * k
  BY <1>2
<1>4. b * k >= 0
  OBVIOUS
<1> QED BY <1>3, <1>4

\* last_index is the largest multiple of the buffer size within the data.
LEMMA LastIndexFacts ==
  ASSUME NEW d \in Nat, NEW b \in Nat, b > 0
  PROVE  /\ LastIndex(d, b) \in Nat
         /\ LastIndex(d, b) = b * (d \div b)
         /\ LastIndex(d, b) <= d
         /\ d < LastIndex(d, b) + b
         /\ d = LastIndex(d, b) + (d % b)
  BY DivMod DEF LastIndex

\* A step that is not the last one leads to an offset the loop may stand at.
LEMMA NextStepFits ==
  ASSUME NEW d \in Nat, NEW b \in Nat, b > 0, NEW o \in Nat, o % b = 0,
         o < LastIndex(d, b)
  PROVE  o + b <= LastIndex(d, b)
<1>1. o = b * (o \div b) /\ o \div b \in Nat
  BY DivMod
<1>2. LastIndex(d, b) = b * (d \div b) /\ d \div b \in Nat
  BY DivMod, LastIndexFacts
<1>3. (o \div b) < (d \div b)
  BY <1>1, <1>2, Smaller
<1>4. b * (o \div b) + b <= b * (d \div b)
  BY <1>1, <1>2, <1>3, Times
<1> QED BY <1>1, <1>2, <1>4

\* The remainder and the quotient of a multiple.
LEMMA Multiple ==
  ASSUME NEW b \in Nat, b > 0, NEW k \in Nat
  PROVE  (b * k) % b = 0 /\ (b * k) \div b = k
<1> DEFINE a == b * k
           q == a \div b
           r == a % b
<1>1. a \in Nat
  OBVIOUS
<1>2. q \in Nat /\ r \in Nat /\ r < b /\ a = (b * q) + r
  BY <1>1, DivMod
<1>3. ~(q < k)
  <2>1. SUFFICES ASSUME q < k PROVE FALSE
    OBVIOUS
  <2>2. b * q + b <= b * k
    BY <1>2, <2>1, Times
  <2> QED BY <1>2, <2>2
<1>4. ~(k < q)
  <2>1. SUFFICES ASSUME k < q PROVE FALSE
    OBVIOUS
  <2>2. b * k + b <= b * q
    BY <1>2, <2>1, Times
  <2> QED BY <1>2, <2>2
<1> QED BY <1>2, <1>3, <1>4

\* The loop visits multiples of the buffer size only.
LEMMA StepAligned ==
  ASSUME NEW b \in Nat, b > 0, NEW o \in Nat, o % b = 0
  PROVE  (o + b) % b = 0
<1>1. o = b * (o \div b) /\ o \div b \in Nat
  BY DivMod
<1>2. o + b = b * ((o \div b) + 1)
  BY <1>1
<1>3. (b * ((o \div b) + 1)) % b = 0
  BY <1>1, Multiple
<1> QED BY <1>2, <1>3

\* A piece ends inside the buffer.
LEMMA PieceInBuffer ==
  ASSUME NEW d \in Nat, NEW b \in Nat, b > 0,
         NEW o \in Nat, o % b = 0, o <= LastIndex(d, b)
  PROVE  o + PieceLen(d, b, o) <= d
<1>1. LastIndex(d, b) \in Nat /\ LastIndex(d, b) <= d /\ d = LastIndex(d, b) + (d % b)
      /\ d % b \in Nat
  BY LastIndexFacts, DivMod
<1>2. CASE o < LastIndex(d, b)
  BY <1>1, <1>2, NextStepFits DEF PieceLen
<1>3. CASE o = LastIndex(d, b)
  BY <1>1, <1>3 DEF PieceLen
<1> QED BY <1>1, <1>2, <1>3

\* Unless the buffer size divides the data size, the loop that moves pieces
\* and the loop that counts the pieces it expects continue at the same
\* offsets, so that they take the same number of steps.
THEOREM SameNumberOfSteps ==
  ASSUME NEW d \in Nat, NEW b \in Nat, b > 0, d % b # 0,
         NEW o \in Nat, o % b = 0, o <= LastIndex(d, b)
  PROVE  MoreToMove(d, b, o) <=> MoreToReceive(d, b, o)
<1>1. /\ LastIndex(d, b) \in Nat
      /\ d < LastIndex(d, b) + b
      /\ LastIndex(d, b) < d
  BY LastIndexFacts, DivMod
<1>2. CASE o < LastIndex(d, b)
  BY <1>1, <1>2, NextStepFits DEF MoreToMove, MoreToReceive
<1>3. CASE o = LastIndex(d, b)
  BY <1>1, <1>3 DEF MoreToMove, MoreToReceive
<1> QED BY <1>1, <1>2, <1>3

\* When the buffer size divides the data size they do not: the moving loop has
\* a last step, of no bytes, that the receiving loop does not take.
THEOREM OneStepShort ==
  ASSUME NEW d \in Nat, NEW b \in Nat, b > 0, d > 0, d % b = 0
  PROVE  /\ MoreToMove(d, b, d - b)
         /\ ~MoreToReceive(d, b, d - b)
         /\ PieceLen(d, b, d) = 0
  BY DivMod DEF MoreToMove, MoreToReceive, PieceLen, LastIndex

\* The steps of the moving loop are the multiples up to last_index.
LEMMA MoveStep ==
  ASSUME NEW d \in Nat, NEW b \in Nat, b > 0
  PROVE  \A o \in Nat : o \in MoveSteps(d, b) <=> o % b = 0 /\ o <= LastIndex(d, b)
<1> SUFFICES ASSUME NEW o \in Nat, o % b = 0
             PROVE  o \in MoveSteps(d, b) <=> o <= LastIndex(d, b)
  BY DEF MoveSteps
<1> DEFINE q == o \div b
           r == d \div b
<1>1. o = b * q /\ q \in Nat
  BY DivMod
<1>2. LastIndex(d, b) = b * r /\ r \in Nat /\ LastIndex(d, b) <= d /\ LastIndex(d, b) \in Nat
  BY LastIndexFacts, DivMod
<1> HIDE DEF q, r
<1>3. CASE q = 0
  BY <1>1, <1>2, <1>3 DEF MoveSteps
<1>4. CASE q > 0
  <2>1. q - 1 \in Nat /\ o - b = b * (q - 1)
    BY <1>1, <1>4
  <2>2. o <= LastIndex(d, b) <=> o - b < LastIndex(d, b)
    <3>1. ASSUME o - b < LastIndex(d, b)
          PROVE  o <= LastIndex(d, b)
      <4>1. q - 1 < r
        BY <1>2, <2>1, <3>1, Smaller
      <4> QED BY <1>2, <2>1, <4>1, Times
    <3> QED BY <1>2, <3>1
  <2>3. o # 0
    <3>1. b * (q - 1) >= 0
      BY <2>1
    <3> QED BY <2>1, <3>1
  <2> QED BY <1>2, <2>2, <2>3 DEF MoveSteps, MoreToMove
<1> QED BY <1>1, <1>3, <1>4

\* The pieces of the moving loop cover every byte of the data exactly once,
\* whatever the two sizes are.
THEOREM Coverage ==
  ASSUME NEW d \in Nat, NEW b \in Nat, b > 0
  PROVE  Covered(d, b)
<1>1. ASSUME NEW o \in MoveSteps(d, b)
      PROVE  /\ o \in Nat /\ o % b = 0 /\ o <= LastIndex(d, b)
             /\ Piece(d, b, o) \subseteq 0..(d - 1)
             /\ PieceLen(d, b, o) \in Nat /\ PieceLen(d, b, o) <= b
  <2>1. o \in Nat /\ o % b = 0 /\ o <= LastIndex(d, b)
    BY MoveStep DEF MoveSteps
  <2>2. PieceLen(d, b, o) \in Nat /\ PieceLen(d, b, o) <= b
    BY DivMod DEF PieceLen
  <2>3. o + PieceLen(d, b, o) <= d
    BY <2>1, PieceInBuffer
  <2> QED BY <2>1, <2>2, <2>3 DEF Piece
<1>2. ASSUME NEW i \in 0..(d - 1)
      PROVE  \E o \in MoveSteps(d, b) :
               /\ i \in Piece(d, b, o)
               /\ \A p \in MoveSteps(d, b) : i \in Piece(d, b, p) => p = o
  <2> DEFINE k == i \div b
             o == b * k
             r == d \div b
  <2>1. i \in Nat /\ i < d
    OBVIOUS
  <2>2. k \in Nat /\ o \in Nat /\ o <= i /\ i < o + b
    BY <2>1, DivMod
  <2>3. /\ LastIndex(d, b) = b * r /\ r \in Nat /\ LastIndex(d, b) \in Nat
        /\ d = LastIndex(d, b) + (d % b) /\ d % b \in Nat /\ d < LastIndex(d, b) + b
    BY LastIndexFacts, DivMod
  <2> HIDE DEF k, r
  <2>4. o % b = 0
    BY <2>2, Multiple
  <2>5. o <= LastIndex(d, b)
    <3>1. SUFFICES ASSUME LastIndex(d, b) < o PROVE FALSE
      BY <2>2, <2>3
    <3>2. r < k
      BY <2>2, <2>3, <3>1, Smaller
    <3>3. b * r + b <= b * k
      BY <2>2, <2>3, <3>2, Times
    <3> QED BY <2>1, <2>2, <2>3, <3>3
  <2>6. o \in MoveSteps(d, b)
    BY <2>2, <2>4, <2>5, MoveStep
  <2>7. i \in Piece(d, b, o)
    BY <2>1, <2>2, <2>3, <2>5 DEF Piece, PieceLen
  <2>8. ASSUME NEW p \in MoveSteps(d, b), i \in Piece(d, b, p)
        PROVE  p = o
    <3>1. p \in Nat /\ p % b = 0 /\ p <= i /\ i < p + b
      BY <1>1, <2>8 DEF Piece
    <3>2. p = b * (p \div b) /\ p \div b \in Nat
      BY <3>1, DivMod
    <3>3. ~(p \div b < k)
      BY <2>2, <3>1, <3>2, Times
    <3>4. ~(k < p \div b)
      BY <2>2, <3>1, <3>2, Times
    <3> QED BY <2>2, <3>2, <3>3, <3>4
  <2> HIDE DEF o
  <2> QED BY <2>6, <2>7, <2>8
<1> QED BY <1>1, <1>2 DEF Covered

\* The steps of the receiving loop are the multiples below the data size.
LEMMA CountedStep ==
  ASSUME NEW d \in Nat, NEW b \in Nat, b > 0, d > 0
  PROVE  ReceiveSteps(d, b) = {o \in MoveSteps(d, b) : o < d}
<1>1. ASSUME NEW o \in Nat, o % b = 0, o < d
      PROVE  o <= LastIndex(d, b)
  <2>1. /\ o = b * (o \div b) /\ o \div b \in Nat
        /\ LastIndex(d, b) = b * (d \div b) /\ d \div b \in Nat
        /\ LastIndex(d, b) \in Nat /\ d < LastIndex(d, b) + b
    <3>1. o = b * (o \div b) /\ o \div b \in Nat
      BY <1>1, DivMod
    <3>2. d \div b \in Nat
      BY DivMod
    <3> QED BY <3>1, <3>2, LastIndexFacts
  <2> DEFINE q == o \div b
             r == d \div b
  <2> HIDE DEF q, r
  <2>2. ~(r < q)
    BY <1>1, <2>1, Times DEF q, r
  <2>3. CASE q = r
    BY <2>1, <2>3 DEF q, r
  <2>4. CASE q < r
    BY <2>1, <2>4, Times DEF q, r
  <2> QED BY <2>1, <2>2, <2>3, <2>4 DEF q, r
<1>2. \A o \in 0..d : o \in ReceiveSteps(d, b) <=> o % b = 0 /\ o < d
  BY DEF ReceiveSteps, MoreToReceive
<1>3. \A o \in 0..d : o \in MoveSteps(d, b) <=> o % b = 0 /\ o <= LastIndex(d, b)
  BY MoveStep
<1>4. ReceiveSteps(d, b) \subseteq 0..d /\ MoveSteps(d, b) \subseteq 0..d
  BY DEF ReceiveSteps, MoveSteps
<1>5. \A o \in 0..d : o \in ReceiveSteps(d, b) <=> o \in MoveSteps(d, b) /\ o < d
  BY <1>1, <1>2, <1>3
<1> QED BY <1>4, <1>5

\* The moving loop takes data_size / buffer_size + 1 steps, and the receiving
\* loop as many, or one less if the buffer size divides the data size.
THEOREM StepsCounted ==
  ASSUME NEW d \in Nat, NEW b \in Nat, b > 0, d > 0
  PROVE  StepCounts(d, b)
<1> DEFINE m == d \div b
           M == MoveSteps(d, b)
           R == ReceiveSteps(d, b)
           f == [k \in 0..m |-> b * k]
<1>1. m \in Nat /\ LastIndex(d, b) = b * m
  BY DivMod, LastIndexFacts
<1>2. IsFiniteSet(0..m) /\ Cardinality(0..m) = m + 1
  <2> HIDE DEF m
  <2> QED BY <1>1, FS_Interval
<1>3. ExistsBijection(0..m, M)
  <2>1. \A o \in M : o \in Nat /\ o % b = 0 /\ o <= LastIndex(d, b)
    BY MoveStep DEF MoveSteps
  <2>2. ASSUME NEW k \in 0..m
        PROVE  b * k \in M
    <3>1. k \in Nat /\ b * k \in Nat /\ (b * k) % b = 0
      BY <1>1, Multiple
    <3>2. b * k <= b * m
      <4> HIDE DEF m
      <4>1. CASE k = m
        BY <1>1, <4>1
      <4>2. CASE k < m
        <5>1. b * k + b <= b * m /\ b * m \in Nat
          BY <1>1, <3>1, <4>2, Times
        <5> QED BY <3>1, <5>1
      <4> QED BY <1>1, <4>1, <4>2
    <3> QED BY <1>1, <3>1, <3>2, MoveStep
  <2>3. ASSUME NEW j \in 0..m, NEW k \in 0..m, b * j = b * k
        PROVE  j = k
    <3>1. j \in Nat /\ k \in Nat
      BY <1>1
    <3>2. (b * j) \div b = j /\ (b * k) \div b = k
      BY <3>1, Multiple
    <3> QED BY <2>3, <3>2
  <2>4. ASSUME NEW o \in M
        PROVE  \E k \in 0..m : b * k = o
    <3> DEFINE k == o \div b
    <3>1. o \in Nat /\ k \in Nat /\ o = b * k /\ o <= b * m
      <4>1. o \in Nat /\ o % b = 0 /\ o <= b * m
        BY <1>1, <2>1
      <4> HIDE DEF m, M
      <4> QED BY <4>1, DivMod
    <3> HIDE DEF k, m, M
    <3>2. ~(m < k)
      <4>1. m < k => b * m + b <= b * k
        BY <1>1, <3>1, Times
      <4>2. b * m \in Nat
        BY <1>1
      <4> QED BY <3>1, <4>1, <4>2
    <3>3. k \in 0..m
      BY <1>1, <3>1, <3>2
    <3> QED BY <3>1, <3>3
  <2> HIDE DEF m, M
  <2>5. f \in Bijection(0..m, M)
    BY <2>2, <2>3, <2>4 DEF Bijection, Injection, IsInjective, Surjection
  <2> QED BY <2>5 DEF ExistsBijection
<1>4. IsFiniteSet(M) /\ Cardinality(M) = m + 1
  <2> HIDE DEF m, M
  <2> QED BY <1>2, <1>3, FS_Bijection
<1>5. R = {o \in M : o < d}
  BY CountedStep
<1>6. CASE d % b = 0
  <2>1. LastIndex(d, b) = d
    BY <1>6 DEF LastIndex
  <2>2. d \in M /\ \A o \in M : o \in Nat /\ o <= d
    BY <1>6, <2>1, MoveStep DEF MoveSteps
  <2>3. R = M \ {d}
    BY <1>5, <2>2
  <2> HIDE DEF M, R, m
  <2>4. Cardinality(R) = Cardinality(M) - 1
    BY <1>4, <2>2, <2>3, FS_RemoveElement
  <2> QED BY <1>4, <1>6, <2>4 DEF StepCounts, M, R, m
<1>7. CASE d % b # 0
  <2>1. LastIndex(d, b) < d
    BY <1>7, LastIndexFacts, DivMod
  <2>2. \A o \in M : o \in Nat /\ o < d
    <3>1. \A o \in M : o \in Nat /\ o <= LastIndex(d, b)
      BY MoveStep DEF MoveSteps
    <3> QED BY <2>1, <3>1, LastIndexFacts
  <2>3. R = M
    BY <1>5, <2>2
  <2> HIDE DEF M, R, m
  <2> QED BY <1>4, <1>7, <2>3 DEF StepCounts, M, R, m
<1> QED BY <1>6, <1>7
=============================================================================
