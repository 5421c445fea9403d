------------------------ MODULE BatchGeneratorProofs ------------------------
(***************************************************************************)
(* That the batches of an update are right, for any number of shapes and   *)
(* edges, any memory budget and any estimates of memory of which the final *)
(* one is at most half of the temporary one.                               *)
(*                                                                         *)
(* The sizes of the batches come first: they fall, but by no more than     *)
(* half, and together have room for all edges.  The generator is then      *)
(* always within the sizes: what it has taken of them is what it was given *)
(* and less than a size more.                                              *)
(***************************************************************************)
EXTENDS BatchGenerator, NaturalsInduction, WellFoundedInduction, SequenceTheorems, TLAPS

-----------------------------------------------------------------------------
(* Loops.                                                                  *)

\* A set of naturals with zero and the successors of its members has all.
LEMMA Induction ==
  ASSUME NEW S, 0 \in S, \A n \in Nat : n \in S => n + 1 \in S
  PROVE  \A n \in Nat : n \in S
  <1> DEFINE less == { p \in Nat \X Nat : p[1] < p[2] }
             T == { n \in Nat : n \notin S }
  <1>1. IsWellFoundedOn(less, Nat)
    BY NatLessThanWellFounded DEF OpToRel
  <1>2. SUFFICES ASSUME T # {} PROVE FALSE
    OBVIOUS
  <1>3. T \subseteq Nat
    OBVIOUS
  <1> HIDE DEF less, T
  <1>4. PICK x \in T : \A y \in T : ~(<< y, x >> \in less)
    BY <1>1, <1>2, <1>3, WFMin
  <1>5. x \in Nat /\ x # 0
    BY <1>3 DEF T
  <1>6. x - 1 \in Nat /\ x - 1 < x
    BY <1>5
  <1>7. x - 1 \in S
    BY <1>4, <1>5, <1>6 DEF T, less
  <1>8. x \in S
    BY <1>5, <1>6, <1>7
  <1> QED
    BY <1>8 DEF T

\* What a turn preserves holds after every turn.
LEMMA LoopStays ==
  ASSUME NEW n \in Nat, NEW S, NEW f, f[0] \in S,
         \A k \in 1 .. n : f[k - 1] \in S => f[k] \in S
  PROVE  \A k \in 0 .. n : f[k] \in S
  <1> DEFINE T == { k \in Nat : k <= n => f[k] \in S }
  <1>1. 0 \in T
    OBVIOUS
  <1>2. \A k \in Nat : k \in T => k + 1 \in T
    <2> SUFFICES ASSUME NEW k \in Nat, k \in T, k + 1 <= n
                 PROVE  f[k + 1] \in S
      OBVIOUS
    <2>1. f[k] \in S
      OBVIOUS
    <2>2. k + 1 \in 1 .. n /\ (k + 1) - 1 = k
      OBVIOUS
    <2> QED
      BY <2>1, <2>2
  <1> HIDE DEF T
  <1>3. \A k \in Nat : k \in T
    BY <1>1, <1>2, Induction
  <1> QED
    BY <1>3 DEF T

\* f has the state in S of a loop of n turns after every turn.
IsLoop(f, n, S, start, step) ==
  /\ f \in [0 .. n -> S]
  /\ f[0] = start
  /\ \A k \in 1 .. n : f[k] = step[<<k, f[k - 1]>>]

\* There is such a function.
LEMMA LoopExists ==
  ASSUME NEW n \in Nat, NEW S, NEW start \in S, NEW step \in [Nat \X S -> S]
  PROVE  \E f : IsLoop(f, n, S, start, step)
  <1> USE DEF IsLoop
  <1> DEFINE Loop(f, m) == IsLoop(f, m, S, start, step)
             T == { m \in Nat : \E f : Loop(f, m) }
  <1>1. 0 \in T
    <2> DEFINE f == [k \in 0 .. 0 |-> start]
    <2>1. Loop(f, 0)
      OBVIOUS
    <2> QED
      BY <2>1
  <1>2. \A m \in Nat : m \in T => m + 1 \in T
    <2> SUFFICES ASSUME NEW m \in Nat, NEW f, Loop(f, m)
                 PROVE  \E h : Loop(h, m + 1)
      OBVIOUS
    <2> DEFINE h == [k \in 0 .. m + 1 |-> IF k <= m THEN f[k] ELSE step[<<m + 1, f[m]>>]]
    <2>1. f[m] \in S /\ m + 1 \in Nat
      OBVIOUS
    <2>2. step[<<m + 1, f[m]>>] \in S
      BY <2>1
    <2>3. h \in [0 .. m + 1 -> S]
      BY <2>1, <2>2
    <2>4. h[0] = start
      OBVIOUS
    <2>5. ASSUME NEW k \in 1 .. m + 1
          PROVE  h[k] = step[<<k, h[k - 1]>>]
      <3>1. k - 1 \in 0 .. m /\ k - 1 \in 0 .. m + 1 /\ h[k - 1] = f[k - 1]
        OBVIOUS
      <3>2. CASE k <= m
        <4>1. h[k] = f[k] /\ k \in 1 .. m
          BY <3>2
        <4> QED
          BY <3>1, <4>1
      <3>3. CASE k = m + 1
        <4>1. h[k] = step[<<m + 1, f[m]>>] /\ k - 1 = m
          BY <3>3
        <4> QED
          BY <3>1, <3>3, <4>1
      <3> QED
        BY <3>2, <3>3
    <2> QED
      BY <2>3, <2>4, <2>5
  <1> HIDE DEF T
  <1>3. n \in T
    BY <1>1, <1>2, Induction
  <1>4. PICK f : Loop(f, n)
    BY <1>3 DEF T
  <1> QED
    BY <1>4

-----------------------------------------------------------------------------
(* Sums.                                                                   *)

ShapesOK == shapes \in [1 .. QueuedShapes -> 0 .. MaxEdges \cup {NoShape}]

\* A queued shape has a number of edges, none once it is released.
LEMMA NumEdgesIsNat ==
  ASSUME ShapesOK, NEW i \in 1 .. QueuedShapes
  PROVE  /\ NumEdges(i) \in Nat
         /\ shapes[i] # NoShape => shapes[i] = NumEdges(i) /\ shapes[i] \in Nat
         /\ shapes[i] = NoShape => NumEdges(i) = 0
  BY BatchBoundsAreNat DEF ShapesOK, NumEdges

\* SumTo counts the edges of the shapes one by one.
LEMMA SumToCounts ==
  ASSUME ShapesOK
  PROVE  /\ SumTo \in [0 .. QueuedShapes -> Nat]
         /\ SumTo[0] = 0
         /\ \A i \in 1 .. QueuedShapes : SumTo[i] = SumTo[i - 1] + NumEdges(i)
  <1> DEFINE step == [p \in Nat \X Nat |-> IF p[1] \in 1 .. QueuedShapes
                                           THEN p[2] + NumEdges(p[1]) ELSE 0]
             Counts(f) == f = [i \in 0 .. QueuedShapes |->
                                 IF i = 0 THEN 0 ELSE f[i - 1] + NumEdges(i)]
  <1>0. QueuedShapes \in Nat
    BY BatchBoundsAreNat
  <1>1. step \in [Nat \X Nat -> Nat]
    BY NumEdgesIsNat, <1>0
  <1>2. PICK f : IsLoop(f, QueuedShapes, Nat, 0, step)
    <2> HIDE DEF step
    <2>1. 0 \in Nat
      OBVIOUS
    <2> QED
      BY <1>0, <1>1, <2>1, LoopExists
  <1>3. \A i \in 1 .. QueuedShapes : f[i] = f[i - 1] + NumEdges(i)
    <2> TAKE i \in 1 .. QueuedShapes
    <2>1. i - 1 \in 0 .. QueuedShapes /\ i \in Nat
      BY <1>0
    <2>2. f[i - 1] \in Nat
      BY <1>2, <2>1 DEF IsLoop
    <2>3. step[<<i, f[i - 1]>>] = f[i - 1] + NumEdges(i)
      BY <2>1, <2>2
    <2> QED
      BY <1>2, <2>3 DEF IsLoop
  <1> HIDE DEF step
  <1>4. Counts(f)
    BY <1>0, <1>2, <1>3 DEF IsLoop
  <1>5. SumTo = CHOOSE g : Counts(g)
    BY DEF SumTo
  <1> HIDE DEF Counts
  <1>6. Counts(SumTo)
    BY <1>4, <1>5
  <1>7. SumTo = [i \in 0 .. QueuedShapes |-> IF i = 0 THEN 0 ELSE SumTo[i - 1] + NumEdges(i)]
    BY <1>6 DEF Counts
  <1> HIDE DEF SumTo
  <1>8. SumTo[0] = 0 /\ \A i \in 1 .. QueuedShapes : SumTo[i] = SumTo[i - 1] + NumEdges(i)
    BY <1>0, <1>7
  <1>9. \A i \in 0 .. QueuedShapes : SumTo[i] \in Nat
    <2>1. SumTo[0] \in Nat
      BY <1>8
    <2>2. \A i \in 1 .. QueuedShapes : SumTo[i - 1] \in Nat => SumTo[i] \in Nat
      BY <1>8, NumEdgesIsNat
    <2> QED
      BY <1>0, <2>1, <2>2, LoopStays
  <1> QED
    BY <1>7, <1>8, <1>9

\* A sum of more shapes is no smaller.
LEMMA SumToGrows ==
  ASSUME ShapesOK, NEW i \in 0 .. QueuedShapes, NEW j \in i .. QueuedShapes
  PROVE  SumTo[i] <= SumTo[j]
  <1> DEFINE T == { m \in Nat : i + m <= QueuedShapes => SumTo[i] <= SumTo[i + m] }
  <1> HIDE DEF SumTo
  <1>0. QueuedShapes \in Nat
    BY BatchBoundsAreNat
  <1>1. 0 \in T
    BY SumToCounts, <1>0
  <1>2. \A m \in Nat : m \in T => m + 1 \in T
    <2> SUFFICES ASSUME NEW m \in Nat, m \in T, i + (m + 1) <= QueuedShapes
                 PROVE  SumTo[i] <= SumTo[i + (m + 1)]
      OBVIOUS
    <2>1. i + m \in 0 .. QueuedShapes /\ i + (m + 1) \in 1 .. QueuedShapes
          /\ (i + (m + 1)) - 1 = i + m
      BY <1>0
    <2>2. SumTo[i + (m + 1)] = SumTo[i + m] + NumEdges(i + (m + 1))
      BY <2>1, SumToCounts
    <2>3. NumEdges(i + (m + 1)) \in Nat /\ SumTo[i + m] \in Nat /\ SumTo[i] \in Nat
      BY <2>1, SumToCounts, NumEdgesIsNat
    <2>4. SumTo[i] <= SumTo[i + m]
      BY <2>1, <1>0
    <2> QED
      BY <2>2, <2>3, <2>4
  <1> HIDE DEF T
  <1>3. j - i \in T
    BY <1>0, <1>1, <1>2, Induction
  <1> QED
    BY <1>0, <1>3 DEF T

\* The powers of a are those of a function.
LEMMA PowerLoop ==
  ASSUME NEW a \in Nat, NEW n \in Nat
  PROVE  \E p \in [0 .. n -> Nat] : /\ p[0] = 1
                                    /\ \A k \in 1 .. n : p[k] = a * p[k - 1]
                                    /\ Power(a, n) = p[n]
  <1> DEFINE step == [x \in Nat \X Nat |-> a * x[2]]
             Powers(f) == f = [k \in 0 .. n |-> IF k = 0 THEN 1 ELSE a * f[k - 1]]
  <1>1. step \in [Nat \X Nat -> Nat]
    OBVIOUS
  <1>2. PICK f : IsLoop(f, n, Nat, 1, step)
    <2> HIDE DEF step
    <2>1. 1 \in Nat
      OBVIOUS
    <2> QED
      BY <1>1, <2>1, LoopExists
  <1>3. \A k \in 1 .. n : f[k] = a * f[k - 1]
    <2> TAKE k \in 1 .. n
    <2>1. k - 1 \in 0 .. n /\ k \in Nat
      OBVIOUS
    <2>2. f[k - 1] \in Nat
      BY <1>2, <2>1 DEF IsLoop
    <2>3. step[<<k, f[k - 1]>>] = a * f[k - 1]
      BY <2>1, <2>2
    <2> QED
      BY <1>2, <2>3 DEF IsLoop
  <1> HIDE DEF step
  <1>4. Powers(f)
    BY <1>2, <1>3 DEF IsLoop
  <1> DEFINE p == CHOOSE g : Powers(g)
  <1>5. Power(a, n) = p[n]
    BY DEF Power
  <1> HIDE DEF Powers
  <1>6. Powers(p)
    BY <1>4
  <1> HIDE DEF p
  <1>7. p = [k \in 0 .. n |-> IF k = 0 THEN 1 ELSE a * p[k - 1]]
    BY <1>6 DEF Powers
  <1>8. p[0] = 1 /\ \A k \in 1 .. n : p[k] = a * p[k - 1]
    BY <1>7
  <1>9. \A k \in 0 .. n : p[k] \in Nat
    <2>1. p[0] \in Nat
      BY <1>8
    <2>2. \A k \in 1 .. n : p[k - 1] \in Nat => p[k] \in Nat
      BY <1>8
    <2> QED
      BY <2>1, <2>2, LoopStays
  <1> QED
    BY <1>5, <1>7, <1>8, <1>9

\* Powers of a larger number are larger.
LEMMA PowerGrows ==
  ASSUME NEW a \in Nat, NEW b \in Nat, b < a, NEW n \in Nat, n > 0
  PROVE  Power(a, n) \in Nat /\ Power(b, n) \in Nat /\ Power(b, n) < Power(a, n)
  <1>1. PICK p \in [0 .. n -> Nat] : /\ p[0] = 1
                                     /\ \A k \in 1 .. n : p[k] = a * p[k - 1]
                                     /\ Power(a, n) = p[n]
    BY PowerLoop
  <1>2. PICK q \in [0 .. n -> Nat] : /\ q[0] = 1
                                     /\ \A k \in 1 .. n : q[k] = b * q[k - 1]
                                     /\ Power(b, n) = q[n]
    BY PowerLoop
  <1> DEFINE T == { k \in Nat : k + 1 <= n => q[k + 1] < p[k + 1] }
  <1>3. 0 \in T
    <2>1. 0 + 1 \in 1 .. n /\ (0 + 1) - 1 = 0
      OBVIOUS
    <2>2. p[0 + 1] = a * 1 /\ q[0 + 1] = b * 1
      BY <1>1, <1>2, <2>1
    <2> QED
      BY <2>2
  <1>4. \A k \in Nat : k \in T => k + 1 \in T
    <2> SUFFICES ASSUME NEW k \in Nat, k \in T, (k + 1) + 1 <= n
                 PROVE  q[(k + 1) + 1] < p[(k + 1) + 1]
      OBVIOUS
    <2>1. (k + 1) + 1 \in 1 .. n /\ ((k + 1) + 1) - 1 = k + 1 /\ k + 1 \in 0 .. n
      OBVIOUS
    <2>2. p[(k + 1) + 1] = a * p[k + 1] /\ q[(k + 1) + 1] = b * q[k + 1]
      BY <1>1, <1>2, <2>1
    <2>3. p[k + 1] \in Nat /\ q[k + 1] \in Nat /\ q[k + 1] < p[k + 1]
      BY <1>1, <1>2, <2>1
    <2>4. \A x, y \in Nat : x < y => b * x <= b * y
      OBVIOUS
    <2>5. \A x \in Nat : x > 0 => b * x < a * x
      OBVIOUS
    <2>6. p[k + 1] > 0 /\ b * q[k + 1] <= b * p[k + 1]
      BY <2>3, <2>4
    <2>7. b * p[k + 1] < a * p[k + 1]
      BY <2>3, <2>5, <2>6
    <2>8. b * q[k + 1] \in Nat /\ b * p[k + 1] \in Nat /\ a * p[k + 1] \in Nat
      BY <2>3
    <2> QED
      BY <2>2, <2>6, <2>7, <2>8
  <1> HIDE DEF T
  <1>5. \A k \in Nat : k \in T
    BY <1>3, <1>4, Induction
  <1>6. (n - 1) + 1 = n /\ n - 1 \in Nat /\ n \in 0 .. n
    OBVIOUS
  <1>7. q[n] < p[n]
    <2>1. n - 1 \in T
      BY <1>5, <1>6
    <2> QED
      BY <1>6, <2>1 DEF T
  <1> QED
    BY <1>1, <1>2, <1>6, <1>7

\* The room of the first sizes.
RoomTo(sizes) ==
  LET room[i \in 0 .. Len(sizes)] == IF i = 0 THEN 0 ELSE room[i - 1] + sizes[i]
  IN  room

LEMMA RoomCounts ==
  ASSUME NEW s \in Seq(Nat)
  PROVE  /\ RoomTo(s) \in [0 .. Len(s) -> Nat]
         /\ RoomTo(s)[0] = 0
         /\ \A i \in 1 .. Len(s) : RoomTo(s)[i] = RoomTo(s)[i - 1] + s[i]
  <1> DEFINE n == Len(s)
             step == [x \in Nat \X Nat |-> IF x[1] \in 1 .. n THEN x[2] + s[x[1]] ELSE 0]
             Sums(f) == f = [i \in 0 .. n |-> IF i = 0 THEN 0 ELSE f[i - 1] + s[i]]
  <1>0. n \in Nat /\ \A i \in 1 .. n : s[i] \in Nat
    OBVIOUS
  <1>5. RoomTo(s) = CHOOSE g : Sums(g)
    BY DEF RoomTo
  <1> HIDE DEF n
  <1>1. step \in [Nat \X Nat -> Nat]
    BY <1>0
  <1>2. PICK f : IsLoop(f, n, Nat, 0, step)
    <2> HIDE DEF step
    <2>1. 0 \in Nat
      OBVIOUS
    <2> QED
      BY <1>0, <1>1, <2>1, LoopExists
  <1>3. \A i \in 1 .. n : f[i] = f[i - 1] + s[i]
    <2> TAKE i \in 1 .. n
    <2>1. i - 1 \in 0 .. n /\ i \in Nat
      BY <1>0
    <2>2. f[i - 1] \in Nat
      BY <1>2, <2>1 DEF IsLoop
    <2>3. step[<<i, f[i - 1]>>] = f[i - 1] + s[i]
      BY <2>1, <2>2
    <2> QED
      BY <1>2, <2>3 DEF IsLoop
  <1> HIDE DEF step
  <1>4. Sums(f)
    BY <1>0, <1>2, <1>3 DEF IsLoop
  <1> DEFINE room == RoomTo(s)
  <1> HIDE DEF Sums
  <1>6. Sums(room)
    BY <1>4, <1>5
  <1> HIDE DEF room
  <1>7. room = [i \in 0 .. n |-> IF i = 0 THEN 0 ELSE room[i - 1] + s[i]]
    BY <1>6 DEF Sums
  <1>8. room[0] = 0 /\ \A i \in 1 .. n : room[i] = room[i - 1] + s[i]
    BY <1>0, <1>7
  <1>9. \A i \in 0 .. n : room[i] \in Nat
    <2>1. room[0] \in Nat
      BY <1>8
    <2>2. \A i \in 1 .. n : room[i - 1] \in Nat => room[i] \in Nat
      BY <1>0, <1>8
    <2> QED
      BY <1>0, <2>1, <2>2, LoopStays
  <1> QED
    BY <1>7, <1>8, <1>9 DEF room, n

\* A further size adds its room and leaves that of the others.
LEMMA RoomOfAppend ==
  ASSUME NEW s \in Seq(Nat), NEW x \in Nat
  PROVE  /\ \A i \in 0 .. Len(s) : RoomTo(Append(s, x))[i] = RoomTo(s)[i]
         /\ RoomTo(Append(s, x))[Len(s) + 1] = RoomTo(s)[Len(s)] + x
  <1> DEFINE n == Len(s)
             t == Append(s, x)
             R == RoomTo(s)
             Q == RoomTo(t)
             f == [i \in 0 .. n |-> Q[i] - R[i]]
             S == {0}
  <1>1. t \in Seq(Nat) /\ Len(t) = n + 1 /\ n \in Nat /\ t[n + 1] = x
        /\ \A i \in 1 .. n : t[i] = s[i] /\ s[i] \in Nat
    OBVIOUS
  <1>2. /\ R \in [0 .. n -> Nat] /\ R[0] = 0
        /\ \A i \in 1 .. n : R[i] = R[i - 1] + s[i]
    BY RoomCounts
  <1>3. /\ Q \in [0 .. n + 1 -> Nat] /\ Q[0] = 0
        /\ \A i \in 1 .. n + 1 : Q[i] = Q[i - 1] + t[i]
    <2> HIDE DEF t
    <2> QED
      BY <1>1, RoomCounts
  <1> HIDE DEF n, t, R, Q
  <1>4. f[0] \in S
    BY <1>1, <1>2, <1>3
  <1>5. ASSUME NEW i \in 1 .. n, f[i - 1] \in S
        PROVE  f[i] \in S
    <2>1. i \in 1 .. n + 1 /\ i - 1 \in 0 .. n /\ i - 1 \in 0 .. n + 1 /\ i \in 0 .. n
      BY <1>1
    <2>2. R[i] = R[i - 1] + s[i] /\ Q[i] = Q[i - 1] + s[i]
      BY <1>1, <1>2, <1>3, <2>1
    <2>3. R[i - 1] \in Nat /\ Q[i - 1] \in Nat /\ s[i] \in Nat
      BY <1>1, <1>2, <1>3, <2>1
    <2>4. Q[i - 1] - R[i - 1] = 0
      BY <1>5, <2>1
    <2> QED
      BY <2>1, <2>2, <2>3, <2>4
  <1>6. \A i \in 0 .. n : f[i] \in S
    <2> HIDE DEF f, S
    <2> QED
      BY <1>1, <1>4, <1>5, LoopStays
  <1>7. \A i \in 0 .. n : Q[i] = R[i]
    <2> TAKE i \in 0 .. n
    <2>1. Q[i] - R[i] = 0
      BY <1>6
    <2>2. Q[i] \in Nat /\ R[i] \in Nat
      BY <1>1, <1>2, <1>3
    <2> QED
      BY <2>1, <2>2
  <1>8. Q[n + 1] = R[n] + x
    <2>1. n + 1 \in 1 .. n + 1 /\ (n + 1) - 1 = n /\ n \in 0 .. n
      BY <1>1
    <2> QED
      BY <1>1, <1>3, <1>7, <2>1
  <1> QED
    BY <1>7, <1>8 DEF n, t, Q, R

\* A size before the others adds its room to that of each of them.
LEMMA RoomOfCons ==
  ASSUME NEW s \in Seq(Nat), NEW x \in Nat
  PROVE  RoomTo(<<x>> \o s)[Len(s) + 1] = x + RoomTo(s)[Len(s)]
  <1> DEFINE n == Len(s)
             t == <<x>> \o s
             R == RoomTo(s)
             Q == RoomTo(t)
             f == [i \in 0 .. n |-> Q[i + 1] - R[i]]
             S == {x}
  <1>1. t \in Seq(Nat) /\ Len(t) = n + 1 /\ n \in Nat /\ t[1] = x
        /\ \A i \in 1 .. n : t[i + 1] = s[i] /\ s[i] \in Nat
    OBVIOUS
  <1>2. /\ R \in [0 .. n -> Nat] /\ R[0] = 0
        /\ \A i \in 1 .. n : R[i] = R[i - 1] + s[i]
    BY RoomCounts
  <1>3. /\ Q \in [0 .. n + 1 -> Nat] /\ Q[0] = 0
        /\ \A i \in 1 .. n + 1 : Q[i] = Q[i - 1] + t[i]
    <2> HIDE DEF t
    <2> QED
      BY <1>1, RoomCounts
  <1> HIDE DEF n, t, R, Q
  <1>4. f[0] \in S
    <2>1. 0 + 1 \in 1 .. n + 1 /\ (0 + 1) - 1 = 0 /\ 0 \in 0 .. n
      BY <1>1
    <2>2. Q[0 + 1] = 0 + x
      BY <1>1, <1>3, <2>1
    <2> QED
      BY <1>2, <2>1, <2>2
  <1>5. ASSUME NEW i \in 1 .. n, f[i - 1] \in S
        PROVE  f[i] \in S
    <2>1. i + 1 \in 1 .. n + 1 /\ (i + 1) - 1 = i /\ (i - 1) + 1 = i
          /\ i - 1 \in 0 .. n /\ i \in 0 .. n + 1 /\ i \in 0 .. n
      BY <1>1
    <2>2. R[i] = R[i - 1] + s[i] /\ Q[i + 1] = Q[i] + s[i]
      BY <1>1, <1>2, <1>3, <2>1
    <2>3. R[i - 1] \in Nat /\ Q[i] \in Nat /\ s[i] \in Nat
      BY <1>1, <1>2, <1>3, <2>1
    <2>4. Q[i] - R[i - 1] = x
      BY <1>5, <2>1
    <2>5. Q[i + 1] - R[i] = x
      BY <2>2, <2>3, <2>4
    <2> QED
      BY <2>1, <2>5
  <1>6. \A i \in 0 .. n : f[i] \in S
    <2> HIDE DEF f, S
    <2> QED
      BY <1>1, <1>4, <1>5, LoopStays
  <1>7. Q[n + 1] - R[n] = x
    BY <1>1, <1>6
  <1>8. Q[n + 1] \in Nat /\ R[n] \in Nat
    BY <1>1, <1>2, <1>3
  <1>9. Q[n + 1] = x + R[n]
    BY <1>7, <1>8
  <1> QED
    BY <1>9 DEF n, t, Q, R

-----------------------------------------------------------------------------
(* The sizes of the batches.                                               *)

LEMMA Quotient ==
  ASSUME NEW a \in Nat, NEW b \in Nat \ {0}
  PROVE  /\ a \div b \in Nat
         /\ b * (a \div b) <= a
         /\ a < b * (a \div b + 1)
  <1>1. a \div b \in Nat
    BY SMT
  <1>2. a % b \in 0 .. b - 1
    BY SMT
  <1>3. a = b * (a \div b) + (a % b)
    BY SMT
  <1>4. b * (a \div b) \in Nat
    BY <1>1
  <1>5. b * (a \div b + 1) = b * (a \div b) + b
    BY <1>1
  <1> QED
    BY <1>1, <1>2, <1>3, <1>4, <1>5

\* A common factor does not change the order.
LEMMA FactorKeepsOrder ==
  ASSUME NEW c \in Nat \ {0}, NEW x \in Int, NEW y \in Int
  PROVE  /\ c * x <= c * y => x <= y
         /\ c * x < c * y => x < y
  <1>1. ASSUME x > y PROVE c * x > c * y
    <2>1. x - y \in Nat /\ x - y > 0
      BY <1>1
    <2>2. c * (x - y) > 0
      BY <2>1
    <2>3. c * (x - y) = c * x - c * y
      OBVIOUS
    <2>4. c * x \in Int /\ c * y \in Int
      OBVIOUS
    <2> QED
      BY <2>2, <2>3, <2>4
  <1>2. c * x \in Int /\ c * y \in Int
    OBVIOUS
  <1>3. x >= y => c * x >= c * y
    <2>1. CASE x = y
      BY <2>1, <1>2
    <2>2. CASE x > y
      BY <1>1, <1>2, <2>2
    <2> QED
      BY <2>1, <2>2
  <1> QED
    BY <1>1, <1>2, <1>3

\* The quotient falls by no more than half when its numerator is multiplied
\* by t - f and its denominator by t, f being no more than half of t.
LEMMA QuotientFalls ==
  ASSUME NEW a \in Nat, NEW b \in Nat \ {0}, NEW t \in Nat \ {0}, NEW f \in Nat, 2 * f <= t
  PROVE  /\ a * (t - f) \in Nat /\ b * t \in Nat \ {0}
         /\ (a * (t - f)) \div (b * t) <= a \div b
         /\ a \div b <= 2 * ((a * (t - f)) \div (b * t)) + 1
  <1> DEFINE c == a * (t - f)
             d == b * t
             q == a \div b
             r == c \div d
  <1>1. t - f \in Nat /\ c \in Nat /\ d \in Nat \ {0}
    <2>1. t - f \in Nat
      OBVIOUS
    <2>2. \A x, y \in Nat : x * y \in Nat
      OBVIOUS
    <2>3. \A x, y \in Nat \ {0} : x * y \in Nat \ {0}
      OBVIOUS
    <2> QED
      BY <2>1, <2>2, <2>3
  <1>2. q \in Nat /\ b * q <= a /\ a < b * (q + 1)
    BY Quotient
  <1>3. r \in Nat /\ d * r <= c /\ c < d * (r + 1)
    <2> HIDE DEF c, d
    <2> QED
      BY <1>1, Quotient
  <1>4. c <= t * a /\ t * a <= 2 * c
    <2>1. c = t * a - f * a /\ t * a \in Nat /\ f * a \in Nat
      <3>1. a * (t - f) = t * a - f * a
        OBVIOUS
      <3> QED
        BY <3>1
    <2>2. (t - 2 * f) * a >= 0
      <3>1. t - 2 * f \in Nat
        OBVIOUS
      <3>2. \A x, y \in Nat : x * y >= 0
        OBVIOUS
      <3> HIDE DEF c
      <3> QED
        BY <3>1, <3>2
    <2>3. (t - 2 * f) * a = t * a - 2 * (f * a)
      OBVIOUS
    <2> HIDE DEF c
    <2> QED
      BY <2>1, <2>2, <2>3
  <1>5. d * r = t * (b * r) /\ d * (r + 1) = t * (b * (r + 1))
    <2> HIDE DEF r
    <2> QED
      BY <1>3
  <1> HIDE DEF c, d, q, r
  <1>6. b * r \in Nat /\ b * (r + 1) \in Nat /\ b * (q + 1) \in Nat /\ b * q \in Nat
    <2>1. \A x, y \in Nat : x * y \in Nat
      OBVIOUS
    <2> QED
      BY <1>2, <1>3, <2>1
  <1>7. r <= q
    <2>1. t * (b * r) <= t * a
      BY <1>1, <1>3, <1>4, <1>5, <1>6
    <2>2. b * r <= a
      BY <1>6, <2>1, FactorKeepsOrder
    <2>3. b * r < b * (q + 1)
      BY <1>2, <1>6, <2>2
    <2>4. r < q + 1
      BY <1>2, <1>3, <2>3, FactorKeepsOrder
    <2> QED
      BY <1>2, <1>3, <2>4
  <1>8. q <= 2 * r + 1
    <2>1. t * a < t * (b * (2 * (r + 1)))
      <3>1. t * (b * (2 * (r + 1))) = 2 * (t * (b * (r + 1)))
        BY <1>3
      <3>2. t * (b * (r + 1)) \in Int /\ t * a \in Int
        BY <1>6
      <3> QED
        BY <1>1, <1>3, <1>4, <1>5, <3>1, <3>2
    <2>2. b * (2 * (r + 1)) \in Int
      BY <1>3
    <2>3. a < b * (2 * (r + 1))
      BY <2>1, <2>2, FactorKeepsOrder
    <2>4. b * q < b * (2 * (r + 1))
      BY <1>2, <1>6, <2>2, <2>3
    <2>5. q < 2 * (r + 1)
      BY <1>2, <1>3, <2>4, FactorKeepsOrder
    <2> QED
      BY <1>2, <1>3, <2>5
  <1> QED
    BY <1>1, <1>7, <1>8 DEF c, d, q, r

\* Sizes of which each is at most the one before and at least half of it.
Falling(sizes) ==
  \A i \in 1 .. Len(sizes) :
    /\ sizes[i] > 0
    /\ i < Len(sizes) => sizes[i + 1] <= sizes[i] /\ sizes[i] <= 2 * sizes[i + 1]

\* The loop of GetMaxBatchSizes for left edges, the first size being first.
SizesState(left, first) ==
  { x \in [sizes : Seq(Nat), left : Int, num : Nat, den : Nat \ {0}] :
      /\ Falling(x.sizes)
      /\ RoomTo(x.sizes)[Len(x.sizes)] = left - x.left
      /\ x.sizes = <<>> => x.num \div x.den + 1 = first
      /\ x.sizes # <<>> =>
           /\ x.sizes[1] = first
           /\ x.num \div x.den + 1 <= x.sizes[Len(x.sizes)]
           /\ x.sizes[Len(x.sizes)] <= 2 * (x.num \div x.den + 1) }

LEMMA AppendKeeps ==
  ASSUME NEW s \in Seq(Nat), NEW e \in Nat
  PROVE  /\ Append(s, e) \in Seq(Nat) /\ Append(s, e) # <<>>
         /\ Len(s) \in Nat /\ Len(Append(s, e)) = Len(s) + 1
         /\ Append(s, e)[Len(s) + 1] = e
         /\ \A i \in 1 .. Len(s) : Append(s, e)[i] = s[i]
  OBVIOUS

\* A turn takes a size, at least one edge, from what is left.
LEMMA SizesTurnKeeps ==
  ASSUME NEW left \in Nat, NEW first \in Nat, NEW x \in SizesState(left, first)
  PROVE  /\ SizesTurn(x) \in SizesState(left, first)
         /\ x.left <= 0 => SizesTurn(x) = x
         /\ x.left > 0 => SizesTurn(x).left < x.left /\ SizesTurn(x).sizes # <<>>
  <1> DEFINE size == x.num \div x.den + 1
             keep == x.num < x.den
             num  == IF keep THEN x.num ELSE x.num * (kTmpBytesPerEdge - kFinalBytesPerEdge)
             den  == IF keep THEN x.den ELSE x.den * kTmpBytesPerEdge
             n    == Len(x.sizes)
             s    == Append(x.sizes, size)
             y    == [sizes |-> s, left |-> x.left - size, num |-> num, den |-> den]
  <1>1. /\ x.sizes \in Seq(Nat) /\ x.left \in Int /\ x.num \in Nat /\ x.den \in Nat \ {0}
        /\ x.num \div x.den \in Nat
    BY Quotient DEF SizesState
  <1>2. CASE x.left <= 0
    BY <1>1, <1>2 DEF SizesTurn
  <1>3. CASE x.left > 0
    <2>1. SizesTurn(x) = y
      BY <1>1, <1>3 DEF SizesTurn
    <2>2. size \in Nat /\ size > 0
      BY <1>1
    <2>3. /\ num \in Nat /\ den \in Nat \ {0}
          /\ num \div den + 1 <= size /\ size <= 2 * (num \div den + 1)
      <3>1. CASE keep
        BY <1>1, <3>1
      <3>2. CASE ~keep
        <4>1. /\ kTmpBytesPerEdge \in Nat \ {0} /\ kFinalBytesPerEdge \in Nat
              /\ 2 * kFinalBytesPerEdge <= kTmpBytesPerEdge
          BY BytesPerEdge
        <4>2. /\ num \in Nat /\ den \in Nat \ {0}
              /\ num \div den <= x.num \div x.den
              /\ x.num \div x.den <= 2 * (num \div den) + 1
          BY <1>1, <3>2, <4>1, QuotientFalls
        <4>3. num \div den \in Nat
          <5> HIDE DEF num, den
          <5> QED
            BY <4>2, Quotient
        <4> HIDE DEF num, den
        <4> QED
          BY <1>1, <4>2, <4>3
      <3> QED
        BY <3>1, <3>2
    <2> HIDE DEF num, den, size
    <2>4. /\ s \in Seq(Nat) /\ Len(s) = n + 1 /\ n \in Nat /\ s[n + 1] = size /\ s # <<>>
          /\ \A i \in 1 .. n : s[i] = x.sizes[i]
      BY <1>1, <2>2, AppendKeeps
    <2>5. RoomTo(s)[Len(s)] = left - (x.left - size)
      <3>1. RoomTo(s)[n + 1] = RoomTo(x.sizes)[n] + size
        BY <1>1, <2>2, RoomOfAppend
      <3>2. RoomTo(x.sizes)[n] = left - x.left
        BY DEF SizesState
      <3> QED
        BY <1>1, <2>2, <2>4, <3>1, <3>2
    <2>6. n > 0 => size <= x.sizes[n] /\ x.sizes[n] <= 2 * size /\ x.sizes[1] = first
      <3>1. n > 0 => x.sizes # <<>>
        OBVIOUS
      <3> QED
        BY <3>1 DEF SizesState, size
    <2>7. Falling(s)
      <3>1. Falling(x.sizes)
        BY DEF SizesState
      <3>2. SUFFICES ASSUME NEW i \in 1 .. n + 1
                     PROVE  /\ s[i] > 0
                            /\ i < n + 1 => s[i + 1] <= s[i] /\ s[i] <= 2 * s[i + 1]
        BY <2>4 DEF Falling
      <3>3. CASE i = n + 1
        BY <2>2, <2>4, <3>3
      <3>4. CASE i = n
        <4>1. n > 0 /\ s[n] = x.sizes[n] /\ x.sizes[n] > 0
          BY <2>4, <3>1, <3>4 DEF Falling
        <4> QED
          BY <2>4, <2>6, <3>4, <4>1
      <3>5. CASE i < n
        <4>1. i \in 1 .. n /\ i + 1 \in 1 .. n
          BY <2>4, <3>5
        <4>2. s[i] = x.sizes[i] /\ s[i + 1] = x.sizes[i + 1]
          BY <2>4, <4>1
        <4> QED
          BY <3>1, <3>5, <4>1, <4>2 DEF Falling
      <3> QED
        BY <2>4, <3>3, <3>4, <3>5
    <2>8. s[1] = first
      <3>1. CASE n = 0
        <4>1. x.sizes = <<>>
          BY <1>1, <3>1
        <4>2. size = first
          BY <4>1 DEF SizesState, size
        <4> QED
          BY <2>4, <3>1, <4>2
      <3>2. CASE n > 0
        BY <2>4, <2>6, <3>2
      <3> QED
        BY <2>4, <3>1, <3>2
    <2> HIDE DEF s, n
    <2>9. y \in SizesState(left, first)
      <3>1. y \in [sizes : Seq(Nat), left : Int, num : Nat, den : Nat \ {0}]
        BY <1>1, <2>2, <2>3, <2>4
      <3>2. s[Len(s)] = size
        BY <2>4
      <3> QED
        BY <2>3, <2>4, <2>5, <2>7, <2>8, <3>1, <3>2 DEF SizesState
    <2> QED
      BY <1>1, <1>3, <2>1, <2>2, <2>4, <2>9
  <1> QED
    BY <1>1, <1>2, <1>3

\* What GetMaxBatchSizes appends for left edges begins with the ideal size
\* and has room for the edges.
LEMMA IdealSizesFit ==
  ASSUME NEW left \in Nat, NEW num \in Nat, NEW den \in Nat \ {0}
  PROVE  LET s == IdealSizes(left, num, den)
         IN  /\ s \in Seq(Nat)
             /\ Falling(s)
             /\ left <= RoomTo(s)[Len(s)]
             /\ s # <<>> => s[1] = num \div den + 1
             /\ left > 0 => s # <<>>
  <1> DEFINE start == [sizes |-> <<>>, left |-> left, num |-> num, den |-> den]
             S == SizesState(left, num \div den + 1)
             step == [p \in Nat \X S |-> SizesTurn(p[2])]
             Turns(f) == f = [k \in 0 .. left |-> IF k = 0 THEN start ELSE SizesTurn(f[k - 1])]
             after == CHOOSE f : Turns(f)
  <1>1. IdealSizes(left, num, den) = after[left].sizes
    BY DEF IdealSizes
  <1>2. num \div den + 1 \in Nat
    BY Quotient
  <1>3. start \in S
    <2>1. <<>> \in Seq(Nat) /\ Len(<<>>) = 0
      OBVIOUS
    <2>2. Falling(<<>>)
      BY <2>1 DEF Falling
    <2>3. RoomTo(<<>>)[0] = 0
      BY <2>1, RoomCounts
    <2> QED
      BY <1>2, <2>1, <2>2, <2>3 DEF SizesState
  <1>4. \A x \in S : /\ SizesTurn(x) \in S
                     /\ x.left <= 0 => SizesTurn(x) = x
                     /\ x.left > 0 => SizesTurn(x).left < x.left /\ SizesTurn(x).sizes # <<>>
    BY <1>2, SizesTurnKeeps
  <1> HIDE DEF S, start
  <1>5. step \in [Nat \X S -> S]
    BY <1>4
  <1>6. PICK f : IsLoop(f, left, S, start, step)
    <2> HIDE DEF step
    <2> QED
      BY <1>3, <1>5, LoopExists
  <1>7. \A k \in 1 .. left : f[k - 1] \in S /\ f[k] = SizesTurn(f[k - 1])
    <2> TAKE k \in 1 .. left
    <2>1. k - 1 \in 0 .. left /\ k \in Nat
      OBVIOUS
    <2>2. f[k - 1] \in S
      BY <1>6, <2>1 DEF IsLoop
    <2>3. step[<<k, f[k - 1]>>] = SizesTurn(f[k - 1])
      BY <2>1, <2>2
    <2> QED
      BY <1>6, <2>2, <2>3 DEF IsLoop
  <1> HIDE DEF step
  <1>8. Turns(f)
    BY <1>6, <1>7 DEF IsLoop
  <1> HIDE DEF Turns
  <1>9. Turns(after)
    BY <1>8
  <1> HIDE DEF after
  <1>10. after = [k \in 0 .. left |-> IF k = 0 THEN start ELSE SizesTurn(after[k - 1])]
    BY <1>9 DEF Turns
  <1>11. after[0] = start /\ \A k \in 1 .. left : after[k] = SizesTurn(after[k - 1])
    BY <1>10
  <1>12. \A k \in 0 .. left : after[k] \in S
    <2>1. \A k \in 1 .. left : after[k - 1] \in S => after[k] \in S
      BY <1>4, <1>11
    <2> QED
      BY <1>3, <1>11, <2>1, LoopStays
  <1> DEFINE T == { k \in Nat : k <= left =>
                      after[k].left <= 0 \/ after[k].left <= left - k }
  <1>13. \A k \in 0 .. left : after[k].left \in Int
    BY <1>12 DEF S, SizesState
  <1>14. 0 \in T
    BY <1>11 DEF start
  <1>15. \A k \in Nat : k \in T => k + 1 \in T
    <2> SUFFICES ASSUME NEW k \in Nat, k \in T, k + 1 <= left
                 PROVE  after[k + 1].left <= 0 \/ after[k + 1].left <= left - (k + 1)
      OBVIOUS
    <2>1. k \in 0 .. left /\ k + 1 \in 1 .. left /\ (k + 1) - 1 = k /\ k + 1 \in 0 .. left
      OBVIOUS
    <2>2. after[k + 1] = SizesTurn(after[k]) /\ after[k] \in S
      BY <1>11, <1>12, <2>1
    <2>3. after[k].left \in Int /\ after[k + 1].left \in Int
      BY <1>13, <2>1
    <2>4. CASE after[k].left <= 0
      BY <1>4, <2>2, <2>4
    <2>5. CASE after[k].left > 0
      <3>1. after[k + 1].left < after[k].left
        BY <1>4, <2>2, <2>5
      <3> QED
        BY <2>1, <2>3, <2>5, <3>1
    <2> QED
      BY <2>3, <2>4, <2>5
  <1> HIDE DEF T
  <1>16. left \in T
    BY <1>14, <1>15, Induction
  <1> DEFINE x == after[left]
  <1>17. x \in S /\ x.left \in Int /\ x.left <= 0
    <2>1. left \in 0 .. left
      OBVIOUS
    <2> QED
      BY <1>12, <1>13, <1>16, <2>1 DEF T
  <1> HIDE DEF x
  <1>18. /\ x.sizes \in Seq(Nat) /\ Falling(x.sizes)
         /\ RoomTo(x.sizes)[Len(x.sizes)] = left - x.left
         /\ x.sizes # <<>> => x.sizes[1] = num \div den + 1
    BY <1>17 DEF S, SizesState
  <1>19. left > 0 => x.sizes # <<>>
    <2>1. ASSUME x.sizes = <<>> PROVE left <= 0
      <3>1. <<>> \in Seq(Nat) /\ Len(<<>>) = 0
        OBVIOUS
      <3>2. RoomTo(<<>>)[0] = 0
        BY <3>1, RoomCounts
      <3> QED
        BY <1>17, <1>18, <2>1, <3>1, <3>2
    <2> QED
      BY <2>1
  <1>20. left <= RoomTo(x.sizes)[Len(x.sizes)]
    BY <1>17, <1>18
  <1> QED
    BY <1>1, <1>18, <1>19, <1>20 DEF x

\* What GetMaxBatchSizes promises of the sizes for total edges: the removed
\* ones fit into the first, which alone may be more than twice the next.
SizesFit(sizes, num_removed, total) ==
  /\ sizes \in Seq(Nat) /\ sizes # <<>>
  /\ num_removed <= sizes[1]
  /\ \A i \in 1 .. Len(sizes) :
       /\ sizes[i] > 0 \/ total = 0
       /\ i < Len(sizes) =>
            /\ sizes[i + 1] <= sizes[i]
            /\ sizes[i] <= 2 * sizes[i + 1] \/ (i = 1 /\ sizes[1] = num_removed)
  /\ total <= RoomTo(sizes)[Len(sizes)]

\* The sizes of a falling sequence with room for all edges fit.
LEMMA FallingFit ==
  ASSUME NEW s \in Seq(Nat), s # <<>>, Falling(s), NEW r \in Nat, r <= s[1],
         NEW total \in Nat, total <= RoomTo(s)[Len(s)]
  PROVE  SizesFit(s, r, total)
  BY DEF SizesFit, Falling

\* So they do with the removed edges before them, if these are no fewer.
LEMMA RemovedBeforeFit ==
  ASSUME NEW s \in Seq(Nat), Falling(s), NEW r \in Nat, r > 0,
         s # <<>> => s[1] <= r,
         NEW added \in Nat, added <= RoomTo(s)[Len(s)]
  PROVE  SizesFit(<<r>> \o s, r, r + added)
  <1> DEFINE n == Len(s)
             t == <<r>> \o s
  <1>1. /\ t \in Seq(Nat) /\ t # <<>> /\ Len(t) = n + 1 /\ n \in Nat /\ t[1] = r
        /\ \A i \in 1 .. n : t[i + 1] = s[i] /\ s[i] \in Nat
    OBVIOUS
  <1>2. RoomTo(t)[n + 1] = r + RoomTo(s)[n] /\ RoomTo(s)[n] \in Nat
    BY RoomOfCons, RoomCounts
  <1>3. n > 0 => s # <<>>
    OBVIOUS
  <1>4. \A i \in 1 .. n : /\ s[i] > 0
                          /\ i < n => s[i + 1] <= s[i] /\ s[i] <= 2 * s[i + 1]
    BY DEF Falling
  <1>5. added <= RoomTo(s)[n]
    OBVIOUS
  <1> HIDE DEF n, t
  <1>6. ASSUME NEW i \in 1 .. n + 1
        PROVE  /\ t[i] > 0
               /\ i < n + 1 => /\ t[i + 1] <= t[i]
                               /\ t[i] <= 2 * t[i + 1] \/ (i = 1 /\ t[1] = r)
    <2>1. CASE i = 1
      <3>1. i < n + 1 => n > 0 /\ t[2] = s[1] /\ s[1] <= r
        <4>1. n > 0 => 1 \in 1 .. n /\ 1 + 1 = 2
          BY <1>1
        <4>2. i < n + 1 => n > 0
          BY <1>1, <2>1
        <4> QED
          BY <1>1, <1>3, <4>1, <4>2
      <3> QED
        BY <1>1, <2>1, <3>1
    <2>2. CASE i > 1
      <3>1. i - 1 \in 1 .. n /\ (i - 1) + 1 = i
        BY <1>1, <2>2
      <3>2. t[i] = s[i - 1] /\ s[i - 1] > 0
        BY <1>1, <1>4, <3>1
      <3>3. i < n + 1 => /\ t[i + 1] = s[i] /\ i - 1 < n
                         /\ s[i] <= s[i - 1] /\ s[i - 1] <= 2 * s[i]
        <4>1. i < n + 1 => i \in 1 .. n /\ i - 1 < n
          BY <1>1, <2>2
        <4> QED
          BY <1>1, <1>4, <3>1, <4>1
      <3> QED
        BY <3>2, <3>3
    <2> QED
      BY <1>1, <2>1, <2>2
  <1>7. r + added <= RoomTo(t)[n + 1]
    BY <1>2, <1>5
  <1>8. r <= t[1]
    BY <1>1
  <1>9. SizesFit(t, r, r + added)
    BY <1>1, <1>6, <1>7, <1>8 DEF SizesFit
  <1> QED
    BY <1>9 DEF t

\* The room for temporary edges is a positive fraction.
LEMMA BudgetIsFraction ==
  ASSUME NEW added \in Nat
  PROVE  LET final == added * kFinalBytesPerEdge
             q == Power(kTmpBytesPerEdge, kMaxBatches - 1)
             d == q - Power(kTmpBytesPerEdge - kFinalBytesPerEdge, kMaxBatches - 1)
         IN  /\ Max2((final + TmpMemoryBudget) * d, final * q) \in Nat
             /\ d * kTmpBytesPerEdge \in Nat \ {0}
  <1> DEFINE final == added * kFinalBytesPerEdge
             q == Power(kTmpBytesPerEdge, kMaxBatches - 1)
             p == Power(kTmpBytesPerEdge - kFinalBytesPerEdge, kMaxBatches - 1)
             d == q - p
  <1>1. /\ kTmpBytesPerEdge \in Nat /\ kTmpBytesPerEdge > 0
        /\ kTmpBytesPerEdge - kFinalBytesPerEdge \in Nat
        /\ kTmpBytesPerEdge - kFinalBytesPerEdge < kTmpBytesPerEdge
        /\ kMaxBatches - 1 \in Nat /\ kMaxBatches - 1 > 0
        /\ kFinalBytesPerEdge \in Nat /\ TmpMemoryBudget \in Nat
    BY BytesPerEdge, SeveralBatches, BudgetIsNat
  <1>2. q \in Nat /\ p \in Nat /\ p < q
    BY <1>1, PowerGrows
  <1> HIDE DEF q, p
  <1>3. d \in Nat /\ d > 0
    BY <1>2
  <1>4. \A x, y \in Nat : x * y \in Nat /\ (x > 0 /\ y > 0 => x * y # 0)
    OBVIOUS
  <1>5. final \in Nat
    BY <1>1, <1>4
  <1> HIDE DEF d, final
  <1>6. (final + TmpMemoryBudget) * d \in Nat /\ final * q \in Nat
    BY <1>1, <1>2, <1>3, <1>4, <1>5
  <1>7. d * kTmpBytesPerEdge \in Nat \ {0}
    BY <1>1, <1>3, <1>4
  <1>8. Max2((final + TmpMemoryBudget) * d, final * q) \in Nat
    BY <1>6 DEF Max2
  <1> QED
    BY <1>7, <1>8 DEF final, q, p, d

\* GetMaxBatchSizes keeps its promise.
LEMMA MaxBatchSizesFit ==
  ASSUME NEW r \in Nat, NEW added \in Nat
  PROVE  SizesFit(GetMaxBatchSizes(r, added), r, r + added)
  <1> DEFINE final == added * kFinalBytesPerEdge
             q == Power(kTmpBytesPerEdge, kMaxBatches - 1)
             d == q - Power(kTmpBytesPerEdge - kFinalBytesPerEdge, kMaxBatches - 1)
             num == Max2((final + TmpMemoryBudget) * d, final * q)
             den == d * kTmpBytesPerEdge
             total == r + added
  <1>1. num \in Nat /\ den \in Nat \ {0}
    BY BudgetIsFraction
  <1>2. GetMaxBatchSizes(r, added) =
          IF total * kTmpBytesPerEdge <= TmpMemoryBudget THEN <<total>>
          ELSE IF r * den > num
               THEN <<r>> \o IdealSizes(added, num, den)
               ELSE IdealSizes(added + r, num, den)
    BY DEF GetMaxBatchSizes
  <1> HIDE DEF num, den
  <1>3. total \in Nat
    OBVIOUS
  <1>4. num \div den \in Nat /\ den * (num \div den) <= num /\ num < den * (num \div den + 1)
    BY <1>1, Quotient
  <1>5. den * (num \div den + 1) \in Int /\ r * den = den * r /\ den * r \in Int
        /\ num \div den + 1 \in Int
    BY <1>1, <1>4
  <1>6. CASE total * kTmpBytesPerEdge <= TmpMemoryBudget
    <2>1. <<total>> \in Seq(Nat) /\ Len(<<total>>) = 1 /\ <<total>>[1] = total
          /\ <<total>> # <<>>
      BY <1>3
    <2> DEFINE s == <<total>>
    <2> HIDE DEF s
    <2>2. s \in Seq(Nat) /\ Len(s) = 1 /\ s[1] = total /\ s # <<>>
      BY <2>1 DEF s
    <2>3. RoomTo(s)[0] = 0 /\ RoomTo(s)[1] = RoomTo(s)[1 - 1] + s[1]
      BY <2>2, RoomCounts
    <2>4. RoomTo(s)[1] = total
      BY <1>3, <2>2, <2>3
    <2>5. SizesFit(s, r, total)
      BY <1>3, <2>2, <2>4 DEF SizesFit
    <2> QED
      BY <1>2, <1>6, <2>5 DEF s
  <1>7. CASE ~(total * kTmpBytesPerEdge <= TmpMemoryBudget) /\ r * den > num
    <2> DEFINE s == IdealSizes(added, num, den)
    <2>1. /\ s \in Seq(Nat) /\ Falling(s) /\ added <= RoomTo(s)[Len(s)]
          /\ s # <<>> => s[1] = num \div den + 1
      BY <1>1, IdealSizesFit
    <2> HIDE DEF s
    <2>2. den * (num \div den) < den * r
      BY <1>1, <1>4, <1>5, <1>7
    <2>3. num \div den < r
      BY <1>1, <1>4, <2>2, FactorKeepsOrder
    <2>4. r > 0 /\ (s # <<>> => s[1] <= r)
      BY <1>4, <2>1, <2>3
    <2>5. SizesFit(<<r>> \o s, r, r + added)
      BY <2>1, <2>4, RemovedBeforeFit
    <2> QED
      BY <1>2, <1>7, <2>5 DEF s
  <1>8. CASE ~(total * kTmpBytesPerEdge <= TmpMemoryBudget) /\ ~(r * den > num)
    <2> DEFINE s == IdealSizes(added + r, num, den)
    <2>1. added + r \in Nat /\ added + r = total /\ total > 0
      BY <1>3, <1>8, BudgetIsNat, BytesPerEdge
    <2>2. /\ s \in Seq(Nat) /\ Falling(s) /\ total <= RoomTo(s)[Len(s)]
          /\ s # <<>> => s[1] = num \div den + 1
          /\ s # <<>>
      BY <1>1, <2>1, IdealSizesFit
    <2> HIDE DEF s
    <2>3. den * r < den * (num \div den + 1)
      BY <1>1, <1>4, <1>5, <1>8
    <2>4. r < num \div den + 1
      BY <1>1, <1>5, <2>3, FactorKeepsOrder
    <2>5. r <= s[1]
      BY <1>4, <2>2, <2>4
    <2>6. SizesFit(s, r, total)
      BY <1>3, <2>2, <2>5, FallingFit
    <2> QED
      BY <1>2, <1>8, <2>6 DEF s
  <1> QED
    BY <1>6, <1>7, <1>8

-----------------------------------------------------------------------------
(* The invariant.                                                          *)

\* Edges of an update.
Total == removed + SumTo[QueuedShapes]

\* The sizes fall, to no less than half except behind a first size that the
\* removed edges fill, and have room for all edges.
SizesInv ==
  LET sizes == max_batch_sizes_
  IN  /\ sizes \in Seq(Nat) /\ Len(sizes) > 1
      /\ removed <= sizes[1]
      /\ sizes[Len(sizes)] = sizes[Len(sizes) - 1]
      /\ \A i \in 1 .. Len(sizes) : sizes[i] > 0 \/ Total = 0
      /\ \A i \in 1 .. Len(sizes) - 1 :
           /\ sizes[i + 1] <= sizes[i]
           /\ sizes[i] <= 2 * sizes[i + 1] \/ (i = 1 /\ sizes[1] = removed)
      /\ Total <= RoomTo(sizes)[Len(sizes) - 1]

Ids == Nat \X Nat

Descriptors == [begin : Ids, end : Ids, num_edges : Nat]

Gens == [batch_index : Nat, edges_left : Int, batch_begin : Ids, shape_id_end : Nat,
         batch_size : Nat, batches : Seq(Descriptors), overruns : Nat]

\* Edges in the batches so far.
Consumed(g) == IF g.batches = <<>> THEN 0 ELSE EdgesBefore(g.batch_begin) + removed

\* The sizes up to the current one have room for the batches so far, and for
\* less than a size more; the current batch keeps to the next one.
WithinSizes(g) ==
  /\ g.batch_index < Len(max_batch_sizes_)
  /\ g.edges_left >= 0
  /\ RoomTo(max_batch_sizes_)[g.batch_index] = Consumed(g) + g.edges_left
  /\ g.batch_index > 0 => g.edges_left < max_batch_sizes_[g.batch_index]
  /\ g.batch_index = 0 => removed <= g.batch_size
  /\ g.batch_size <= max_batch_sizes_[g.batch_index + 1]
  /\ g.batch_index <= Len(g.batches)
  /\ g.overruns = 0

\* Where a batch may end: between shapes, or inside one that is too large for
\* one of the first n sizes.
EndsWell(end, n) ==
  /\ end[1] - ShapeIdBegin \in 0 .. QueuedShapes
  /\ end[2] # 0 =>
       LET num_edges == shapes[end[1] - ShapeIdBegin + 1]
       IN  /\ num_edges # NoShape
           /\ end[2] < num_edges
           /\ \E i \in 1 .. n : max_batch_sizes_[i] < num_edges

\* A batch that begins inside a shape ends inside it or behind it.
StaysInShape(begin, end) ==
  begin[2] > 0 => \/ end[1] = begin[1] /\ end[2] > begin[2]
                  \/ end = <<begin[1] + 1, 0>>

\* What BatchesExact says of batch b.
BatchOK(batches, b) ==
  /\ batches[b].begin = IF b = 1 THEN <<ShapeIdBegin, 0>> ELSE batches[b - 1].end
  /\ batches[b].num_edges = EdgesBefore(batches[b].end) - EdgesBefore(batches[b].begin)
                              + (IF b = 1 THEN removed ELSE 0)
  /\ EndsWell(batches[b].end, b + 1)
  /\ StaysInShape(batches[b].begin, batches[b].end)
  /\ \E i \in 1 .. b : batches[b].num_edges <= max_batch_sizes_[i]

GenOK(g) ==
  /\ g \in Gens
  /\ WithinSizes(g)
  /\ g.batch_begin = IF g.batches = <<>> THEN <<ShapeIdBegin, 0>>
                     ELSE g.batches[Len(g.batches)].end
  /\ g.batch_begin[1] - ShapeIdBegin \in 0 .. QueuedShapes
  /\ \A b \in 1 .. Len(g.batches) : BatchOK(g.batches, b)

\* Between two shapes the generator holds the edges of those before.
BatchesInv ==
  /\ ShapesOK
  /\ removed \in Nat
  /\ SizesInv
  /\ position \in 1 .. QueuedShapes + 1
  /\ GenOK(gen)
  /\ gen.batch_begin[2] = 0
  /\ Consumed(gen) + gen.batch_size = removed + SumTo[position - 1]
  /\ gen.shape_id_end - ShapeIdBegin \in 0 .. QueuedShapes
  /\ SumTo[gen.shape_id_end - ShapeIdBegin] = SumTo[position - 1]
  /\ \A i \in 1 .. position - 1 :
       shapes[i] # NoShape => ShapeIdBegin + i <= gen.shape_id_end
  /\ finished => /\ position = QueuedShapes + 1
                 /\ gen.batches # <<>>
                 /\ gen.batch_begin[1] = gen.shape_id_end

\* The sizes GetMaxBatchSizes returns keep it, with the last one duplicated.
LEMMA DuplicatedSizesFit ==
  ASSUME NEW s, SizesFit(s, removed, Total), removed \in Nat,
         max_batch_sizes_ = DuplicateLast(s)
  PROVE  SizesInv
  <1> DEFINE n == Len(s)
             t == Append(s, s[n])
             total == Total
  <1>1. /\ s \in Seq(Nat) /\ s # <<>> /\ n \in Nat /\ n > 0 /\ s[n] \in Nat
        /\ removed <= s[1] /\ total <= RoomTo(s)[n]
    BY DEF SizesFit
  <1>2. \A i \in 1 .. n :
          /\ s[i] > 0 \/ total = 0
          /\ i < n => /\ s[i + 1] <= s[i]
                      /\ s[i] <= 2 * s[i + 1] \/ (i = 1 /\ s[1] = removed)
    BY DEF SizesFit
  <1>3. /\ t \in Seq(Nat) /\ Len(t) = n + 1 /\ t[n + 1] = s[n]
        /\ \A i \in 1 .. n : t[i] = s[i]
    BY <1>1, AppendKeeps
  <1>4. RoomTo(t)[n] = RoomTo(s)[n]
    <2>1. n \in 0 .. n
      BY <1>1
    <2> QED
      BY <1>1, <2>1, RoomOfAppend
  <1>5. max_batch_sizes_ = t
    BY DEF DuplicateLast
  <1>6. \A i \in 1 .. n : s[i] \in Nat
    BY <1>1
  <1> HIDE DEF n, t, total
  <1>7. removed <= t[1] /\ t[n + 1] = t[(n + 1) - 1]
    BY <1>1, <1>3
  <1>8. \A i \in 1 .. n + 1 : t[i] > 0 \/ total = 0
    <2> TAKE i \in 1 .. n + 1
    <2>1. CASE i = n + 1
      BY <1>1, <1>2, <1>3, <2>1
    <2>2. CASE i # n + 1
      <3>1. i \in 1 .. n
        BY <1>1, <2>2
      <3> QED
        BY <1>2, <1>3, <3>1
    <2> QED
      BY <2>1, <2>2
  <1>9. \A i \in 1 .. n : /\ t[i + 1] <= t[i]
                          /\ t[i] <= 2 * t[i + 1] \/ (i = 1 /\ t[1] = removed)
    <2> TAKE i \in 1 .. n
    <2>1. CASE i = n
      BY <1>1, <1>3, <2>1
    <2>2. CASE i # n
      <3>1. i < n /\ i + 1 \in 1 .. n /\ 1 \in 1 .. n
        BY <1>1, <2>2
      <3> QED
        BY <1>2, <1>3, <3>1
    <2> QED
      BY <2>1, <2>2
  <1>10. (n + 1) - 1 = n /\ n + 1 > 1
    BY <1>1
  <1>11. total <= RoomTo(t)[n]
    BY <1>1, <1>4
  <1> QED
    BY <1>1, <1>3, <1>5, <1>7, <1>8, <1>9, <1>10, <1>11 DEF SizesInv, total

\* The loop of FinishBatch makes at most one turn, when a size is enough.
LEMMA AdvanceIndexIs ==
  ASSUME max_batch_sizes_ \in Seq(Nat), NEW g \in Gens,
         g.edges_left < 0 => /\ max_batch_size(g) > 0
                             /\ g.edges_left + max_batch_size(g) >= 0
  PROVE  AdvanceIndex(g) = AdvanceTurn(g)
  <1> DEFINE n == Len(max_batch_sizes_) + 1
             h == AdvanceTurn(g)
             Turns(f) == f = [k \in 0 .. n |-> IF k = 0 THEN g ELSE AdvanceTurn(f[k - 1])]
             after == CHOOSE f : Turns(f)
             f0 == [k \in 0 .. n |-> IF k = 0 THEN g ELSE h]
  <1>1. n \in Nat /\ n > 0
    OBVIOUS
  <1>2. AdvanceTurn(h) = h
    <2>1. CASE g.edges_left >= 0
      BY <2>1 DEF AdvanceTurn
    <2>2. CASE g.edges_left < 0
      <3>1. max_batch_size(g) \in Int /\ g.edges_left \in Int
        BY <2>2 DEF max_batch_size, SizeAt, Gens
      <3>2. h = [g EXCEPT !.edges_left = @ + max_batch_size(g), !.batch_index = @ + 1]
        BY <2>2, <3>1 DEF AdvanceTurn
      <3>3. h.edges_left >= 0
        <4>1. h.edges_left = g.edges_left + max_batch_size(g)
          BY <3>2 DEF Gens
        <4> QED
          BY <2>2, <4>1
      <3> HIDE DEF h
      <3> QED
        BY <3>3 DEF AdvanceTurn
    <2> QED
      BY <2>1, <2>2 DEF Gens
  <1>3. AdvanceIndex(g) = after[n]
    BY DEF AdvanceIndex
  <1> HIDE DEF n, h
  <1>4. Turns(f0)
    <2>1. \A k \in 0 .. n : f0[k] = IF k = 0 THEN g ELSE AdvanceTurn(f0[k - 1])
      <3> TAKE k \in 0 .. n
      <3>1. CASE k = 0
        BY <3>1
      <3>2. CASE k # 0
        <4>1. k - 1 \in 0 .. n /\ f0[k] = h
          BY <1>1, <3>2
        <4>2. f0[k - 1] = g \/ f0[k - 1] = h
          BY <4>1
        <4>3. AdvanceTurn(f0[k - 1]) = h
          BY <1>2, <4>2 DEF h
        <4> QED
          BY <3>2, <4>1, <4>3
      <3> QED
        BY <3>1, <3>2
    <2> DEFINE f1 == [k \in 0 .. n |-> IF k = 0 THEN g ELSE AdvanceTurn(f0[k - 1])]
    <2>2. f0 = f1
      BY <2>1
    <2> QED
      BY <2>2
  <1> HIDE DEF Turns, f0
  <1>5. Turns(after)
    BY <1>4
  <1> HIDE DEF after
  <1>6. after[0] = g /\ \A k \in 1 .. n : after[k] = AdvanceTurn(after[k - 1])
    BY <1>1, <1>5 DEF Turns
  <1> DEFINE S == {g, h}
  <1>7. \A k \in 0 .. n : after[k] \in S
    <2>1. after[0] \in S
      BY <1>6
    <2>2. \A k \in 1 .. n : after[k - 1] \in S => after[k] \in S
      <3> SUFFICES ASSUME NEW k \in 1 .. n, after[k - 1] \in S
                   PROVE  after[k] = h
        OBVIOUS
      <3>1. after[k] = AdvanceTurn(after[k - 1])
        BY <1>6
      <3> QED
        BY <1>2, <3>1 DEF h
    <2> HIDE DEF S
    <2> QED
      BY <1>1, <2>1, <2>2, LoopStays
  <1>8. after[n] = h
    <2>1. n \in 1 .. n /\ n - 1 \in 0 .. n
      BY <1>1
    <2>2. after[n] = AdvanceTurn(after[n - 1]) /\ after[n - 1] \in S
      BY <1>6, <1>7, <2>1
    <2> QED
      BY <1>2, <2>2 DEF h
  <1> QED
    BY <1>3, <1>8 DEF h

-----------------------------------------------------------------------------
(* What the calls of the generator keep.                                   *)

Known == ShapesOK /\ removed \in Nat /\ SizesInv

LEMMA EdgesBeforeIs ==
  ASSUME Known, NEW e \in Ids, e[1] - ShapeIdBegin \in 0 .. QueuedShapes
  PROVE  EdgesBefore(e) = SumTo[e[1] - ShapeIdBegin] + e[2] /\ EdgesBefore(e) \in Nat
  <1>1. SumTo[e[1] - ShapeIdBegin] \in Nat
    BY SumToCounts DEF Known
  <1>2. EdgesBefore(e) = SumTo[e[1] - ShapeIdBegin] + e[2]
    BY BatchBoundsAreNat DEF EdgesBefore
  <1> QED
    BY <1>1, <1>2 DEF Ids

LEMMA TotalIsNat ==
  ASSUME Known
  PROVE  Total \in Nat /\ QueuedShapes \in Nat /\ ShapeIdBegin \in Nat
  <1>1. QueuedShapes \in Nat /\ ShapeIdBegin \in Nat
    BY BatchBoundsAreNat
  <1>2. SumTo[QueuedShapes] \in Nat
    BY <1>1, SumToCounts DEF Known
  <1> QED
    BY <1>1, <1>2 DEF Total, Known

LEMMA ConsumedIsNat ==
  ASSUME Known, NEW g, GenOK(g)
  PROVE  Consumed(g) \in Nat
  <1>1. EdgesBefore(g.batch_begin) \in Nat
    BY EdgesBeforeIs DEF GenOK, Gens
  <1> QED
    BY <1>1 DEF Consumed, Known

LEMMA FieldsAre ==
  ASSUME NEW g, GenOK(g)
  PROVE  /\ g.batch_index \in Nat /\ g.edges_left \in Nat /\ g.batch_size \in Nat
         /\ g.batch_begin \in Ids /\ g.shape_id_end \in Nat
         /\ g.overruns = 0
         /\ g.batch_begin[1] - ShapeIdBegin \in 0 .. QueuedShapes
  <1>1. g \in Gens /\ g.edges_left >= 0 /\ g.overruns = 0
        /\ g.batch_begin[1] - ShapeIdBegin \in 0 .. QueuedShapes
    BY DEF GenOK, WithinSizes
  <1>2. g.overruns = 0
    BY <1>1 DEF Gens
  <1> QED
    BY <1>1, <1>2 DEF Gens

LEMMA SizesKnown ==
  ASSUME Known
  PROVE  /\ max_batch_sizes_ \in Seq(Nat) /\ Len(max_batch_sizes_) \in Nat
         /\ Len(max_batch_sizes_) > 1 /\ removed \in Nat
  BY DEF Known, SizesInv

\* The sizes as the generator reads them.
LEMMA SizesAre ==
  ASSUME Known, NEW g, GenOK(g)
  PROVE  /\ g.batch_index \in 0 .. Len(max_batch_sizes_) - 1
         /\ max_batch_size(g) = max_batch_sizes_[g.batch_index + 1]
         /\ max_batch_size(g) \in Nat
         /\ next_max_batch_size(g) \in Nat
         /\ g.batch_index + 2 <= Len(max_batch_sizes_) =>
              /\ next_max_batch_size(g) = max_batch_sizes_[g.batch_index + 2]
              /\ next_max_batch_size(g) <= max_batch_size(g)
  <1>1. max_batch_sizes_ \in Seq(Nat) /\ g.batch_index \in 0 .. Len(max_batch_sizes_) - 1
    BY DEF Known, SizesInv, GenOK, WithinSizes, Gens
  <1>2. /\ max_batch_size(g) = max_batch_sizes_[g.batch_index + 1]
        /\ max_batch_size(g) \in Nat
        /\ next_max_batch_size(g) \in Nat
    BY <1>1 DEF max_batch_size, next_max_batch_size, SizeAt
  <1>3. ASSUME g.batch_index + 2 <= Len(max_batch_sizes_)
        PROVE  /\ next_max_batch_size(g) = max_batch_sizes_[g.batch_index + 2]
               /\ next_max_batch_size(g) <= max_batch_size(g)
    <2>1. g.batch_index + 1 \in 1 .. Len(max_batch_sizes_) - 1
          /\ (g.batch_index + 1) + 1 = g.batch_index + 2
      BY <1>1, <1>3
    <2>2. max_batch_sizes_[g.batch_index + 2] <= max_batch_sizes_[g.batch_index + 1]
      BY <2>1 DEF Known, SizesInv
    <2>3. next_max_batch_size(g) = max_batch_sizes_[g.batch_index + 2]
      BY <1>1, <2>1 DEF next_max_batch_size, SizeAt
    <2> QED
      BY <1>2, <2>2, <2>3
  <1> QED
    BY <1>1, <1>2, <1>3

\* Edges that no longer fit into the current batch are there only as long as
\* there is a next size.
LEMMA LookAheadStays ==
  ASSUME Known, NEW g, GenOK(g), NEW n \in Nat,
         n > max_batch_size(g) - g.batch_size,
         Consumed(g) + g.batch_size + n <= Total
  PROVE  g.batch_index + 2 <= Len(max_batch_sizes_)
  <1> DEFINE sizes == max_batch_sizes_
             i == g.batch_index
  <1>0. i \in Nat /\ Len(sizes) \in Nat
    BY SizesKnown, FieldsAre
  <1>1. SUFFICES ASSUME i + 2 > Len(sizes) PROVE FALSE
    BY <1>0
  <1>2. i = Len(sizes) - 1 /\ i > 0 /\ Len(sizes) \in Nat
    BY <1>0, <1>1, SizesAre, SizesKnown
  <1>3. RoomTo(sizes)[i] = Consumed(g) + g.edges_left
    BY DEF GenOK, WithinSizes
  <1>4. Total <= RoomTo(sizes)[i]
    BY <1>2 DEF Known, SizesInv
  <1>5. g.edges_left < sizes[i] /\ sizes[i] = sizes[i + 1]
    BY <1>2 DEF GenOK, WithinSizes, Known, SizesInv
  <1>6. /\ sizes[i + 1] = max_batch_size(g) /\ max_batch_size(g) \in Nat
        /\ g.batch_size \in Nat /\ g.edges_left \in Int
        /\ Consumed(g) \in Nat /\ Total \in Nat
    BY SizesAre, ConsumedIsNat, TotalIsNat DEF GenOK, Gens
  <1> QED
    BY <1>3, <1>4, <1>5, <1>6

\* Then looking ahead is safe.
LEMMA LookAheadIs ==
  ASSUME Known, NEW g, GenOK(g), g.batch_index + 2 <= Len(max_batch_sizes_)
  PROVE  LookAhead(g) = g
  <1>1. g.batch_index + 2 \in DOMAIN max_batch_sizes_
    BY SizesAre DEF Known, SizesInv
  <1>2. g.overruns = 0
    BY DEF GenOK, WithinSizes, Gens
  <1>3. LookAhead(g) = [g EXCEPT !.overruns = 0]
    BY <1>1, <1>2 DEF LookAhead
  <1> QED
    BY <1>2, <1>3 DEF GenOK, Gens

\* The room in the current batch is at most twice the next size.
LEMMA RoomHalves ==
  ASSUME Known, NEW g, GenOK(g), g.batch_index + 2 <= Len(max_batch_sizes_)
  PROVE  max_batch_size(g) - g.batch_size <= 2 * next_max_batch_size(g)
  <1> DEFINE i == g.batch_index
             sizes == max_batch_sizes_
  <1>1. /\ i \in Nat /\ g.batch_size \in Nat /\ removed \in Nat /\ Len(sizes) \in Nat
        /\ max_batch_size(g) = sizes[i + 1] /\ max_batch_size(g) \in Nat
        /\ next_max_batch_size(g) = sizes[i + 2] /\ next_max_batch_size(g) \in Nat
    BY SizesAre, FieldsAre, SizesKnown
  <1>2. i + 1 \in 1 .. Len(sizes) - 1 /\ (i + 1) + 1 = i + 2
    BY <1>1
  <1>3. sizes[i + 1] <= 2 * sizes[i + 2] \/ (i + 1 = 1 /\ sizes[1] = removed)
    BY <1>2 DEF Known, SizesInv
  <1>4. i = 0 => removed <= g.batch_size
    BY DEF GenOK, WithinSizes
  <1>5. i + 1 = 1 /\ sizes[1] = removed => sizes[i + 1] <= g.batch_size
    BY <1>1, <1>4
  <1> QED
    BY <1>1, <1>3, <1>5

\* A batch of n more edges may end at end: the sizes have room for it, and
\* what is consumed then are the edges before end.
MayFinish(g, n, end) ==
  /\ n \in Nat /\ end \in Ids
  /\ g.batch_size + n <= max_batch_size(g)
  /\ Consumed(g) + g.batch_size + n = EdgesBefore(end) + removed
  /\ EdgesBefore(end) <= SumTo[QueuedShapes]
  /\ EndsWell(end, Len(g.batches) + 2)
  /\ StaysInShape(g.batch_begin, end)

\* FinishBatch moves on by no more than one size.
LEMMA FinishBatchIs ==
  ASSUME Known, NEW g, GenOK(g), NEW n, NEW end, MayFinish(g, n, end)
  PROVE  LET size == g.batch_size + n
             move == g.edges_left < size
             batch == [begin |-> g.batch_begin, end |-> end, num_edges |-> size]
         IN  /\ FinishBatch(g, n, end) =
                  [batch_index  |-> IF move THEN g.batch_index + 1 ELSE g.batch_index,
                   edges_left   |-> IF move THEN g.edges_left - size + max_batch_size(g)
                                    ELSE g.edges_left - size,
                   batch_begin  |-> end,
                   shape_id_end |-> g.shape_id_end,
                   batch_size   |-> 0,
                   batches      |-> Append(g.batches, batch),
                   overruns     |-> 0]
             /\ batch \in Descriptors /\ g.batches \in Seq(Descriptors)
             /\ FinishBatch(g, n, end) \in Gens
  <1> DEFINE size == g.batch_size + n
             move == g.edges_left < size
             batch == [begin |-> g.batch_begin, end |-> end, num_edges |-> size]
             more == Append(g.batches, batch)
             i == g.batch_index
             left == g.edges_left - size
             id == g.shape_id_end
             max == max_batch_size(g)
             m == [g EXCEPT !.batches = Append(@, batch), !.batch_begin = end,
                            !.edges_left = @ - size, !.batch_size = 0]
  <1>1. /\ i \in Nat /\ g.edges_left \in Nat /\ g.batch_size \in Nat
        /\ g.batch_begin \in Ids /\ id \in Nat /\ g.overruns = 0
        /\ g \in Gens
    BY FieldsAre DEF GenOK
  <1>2. n \in Nat /\ end \in Ids
    BY DEF MayFinish
  <1>3. size \in Nat /\ left \in Int
    BY <1>1, <1>2
  <1>4. max \in Nat /\ size <= max
    BY SizesAre DEF MayFinish
  <1>5. g.batches \in Seq(Descriptors)
    BY <1>1 DEF Gens
  <1>6. batch \in Descriptors
    BY <1>1, <1>2, <1>3 DEF Descriptors
  <1>7. more \in Seq(Descriptors)
    <2> HIDE DEF batch
    <2> QED
      BY <1>5, <1>6
  <1>8. m = [batch_index |-> i, edges_left |-> left, batch_begin |-> end,
             shape_id_end |-> id, batch_size |-> 0, batches |-> more, overruns |-> 0]
    <2> HIDE DEF batch, size
    <2>1. g = [batch_index |-> g.batch_index, edges_left |-> g.edges_left,
               batch_begin |-> g.batch_begin, shape_id_end |-> g.shape_id_end,
               batch_size |-> g.batch_size, batches |-> g.batches, overruns |-> 0]
      BY <1>1 DEF Gens
    <2> DEFINE m1 == [g EXCEPT !.batches = more]
               m2 == [m1 EXCEPT !.batch_begin = end]
               m3 == [m2 EXCEPT !.edges_left = @ - size]
    <2> HIDE DEF more
    <2>2. m1 = [batch_index |-> g.batch_index, edges_left |-> g.edges_left,
                batch_begin |-> g.batch_begin, shape_id_end |-> g.shape_id_end,
                batch_size |-> g.batch_size, batches |-> more, overruns |-> 0]
      BY <2>1
    <2> HIDE DEF m1
    <2>3. m2 = [batch_index |-> g.batch_index, edges_left |-> g.edges_left,
                batch_begin |-> end, shape_id_end |-> g.shape_id_end,
                batch_size |-> g.batch_size, batches |-> more, overruns |-> 0]
      BY <2>2
    <2> HIDE DEF m2
    <2>4. m3 = [batch_index |-> g.batch_index, edges_left |-> left,
                batch_begin |-> end, shape_id_end |-> g.shape_id_end,
                batch_size |-> g.batch_size, batches |-> more, overruns |-> 0]
      BY <2>3
    <2> HIDE DEF m3
    <2>5. [m3 EXCEPT !.batch_size = 0] =
            [batch_index |-> i, edges_left |-> left, batch_begin |-> end,
             shape_id_end |-> id, batch_size |-> 0, batches |-> more, overruns |-> 0]
      BY <2>4
    <2> QED
      BY <2>5 DEF m1, m2, m3, more
  <1>9. FinishBatch(g, n, end) = AdvanceIndex(m)
    BY DEF FinishBatch
  <1>10. left < 0 <=> move
    BY <1>1, <1>3
  <1>11. max_batch_size(m) = max /\ m.edges_left = left
    <2> HIDE DEF m, more, left, id
    <2> QED
      BY <1>8 DEF max_batch_size
  <1> HIDE DEF m, more, batch, i, left, id, max, size
  <1>12. m \in Gens
    BY <1>1, <1>2, <1>3, <1>7, <1>8 DEF Gens
  <1>13. FinishBatch(g, n, end) = AdvanceTurn(m)
    <2>1. left < 0 => max > 0 /\ left + max >= 0
      BY <1>1, <1>3, <1>4 DEF left
    <2> QED
      BY <1>9, <1>11, <1>12, <2>1, SizesKnown, AdvanceIndexIs
  <1>14. FinishBatch(g, n, end) =
           [batch_index  |-> IF move THEN i + 1 ELSE i,
            edges_left   |-> IF move THEN left + max ELSE left,
            batch_begin  |-> end, shape_id_end |-> id, batch_size |-> 0,
            batches |-> more, overruns |-> 0]
    <2>1. CASE move
      <3>1. ~(m.edges_left >= 0) /\ ~(max_batch_size(m) <= 0)
        BY <1>1, <1>3, <1>4, <1>10, <1>11, <2>1 DEF left
      <3>2. FinishBatch(g, n, end) = [m EXCEPT !.edges_left = @ + max, !.batch_index = @ + 1]
        BY <1>11, <1>13, <3>1 DEF AdvanceTurn
      <3> HIDE DEF move
      <3> QED
        BY <1>8, <2>1, <3>2
    <2>2. CASE ~move
      <3>1. m.edges_left >= 0
        BY <1>3, <1>10, <1>11, <2>2
      <3>2. FinishBatch(g, n, end) = m
        BY <1>13, <3>1 DEF AdvanceTurn
      <3> HIDE DEF move
      <3> QED
        BY <1>8, <2>2, <3>2
    <2> QED
      BY <2>1, <2>2
  <1>15. FinishBatch(g, n, end) \in Gens
    <2> DEFINE j == IF move THEN i + 1 ELSE i
               l == IF move THEN left + max ELSE left
    <2>1. j \in Nat /\ l \in Int
      BY <1>1, <1>3, <1>4
    <2>2. FinishBatch(g, n, end) =
            [batch_index |-> j, edges_left |-> l, batch_begin |-> end, shape_id_end |-> id,
             batch_size |-> 0, batches |-> more, overruns |-> 0]
      BY <1>14
    <2> HIDE DEF j, l
    <2> QED
      BY <1>1, <1>2, <1>7, <2>1, <2>2 DEF Gens
  <1> QED
    BY <1>5, <1>6, <1>14, <1>15 DEF i, left, id, max, size, batch, more

\* FinishBatch keeps the batches right.
LEMMA FinishBatchKeeps ==
  ASSUME Known, NEW g, GenOK(g), NEW n, NEW end, MayFinish(g, n, end)
  PROVE  LET h == FinishBatch(g, n, end)
         IN  /\ GenOK(h)
             /\ h.batch_size = 0 /\ h.batch_begin = end /\ h.batches # <<>>
             /\ h.shape_id_end = g.shape_id_end
             /\ Len(h.batches) = Len(g.batches) + 1
             /\ h.batch_index = g.batch_index \/ h.batch_index = g.batch_index + 1
             /\ Consumed(h) = EdgesBefore(end) + removed
  <1> DEFINE h == FinishBatch(g, n, end)
             size == g.batch_size + n
             left == g.edges_left
             move == left < size
             batch == [begin |-> g.batch_begin, end |-> end, num_edges |-> size]
             old == g.batches
             new == h.batches
             sizes == max_batch_sizes_
             i == g.batch_index
             max == max_batch_size(g)
             c == Consumed(g)
             before == EdgesBefore(end)
             count == Len(old)
  <1>1. /\ h.batch_index = (IF move THEN i + 1 ELSE i)
        /\ h.edges_left = IF move THEN left - size + max ELSE left - size
        /\ h.batch_begin = end /\ h.batch_size = 0 /\ h.shape_id_end = g.shape_id_end
        /\ new = Append(old, batch) /\ h.overruns = 0
        /\ h \in Gens /\ batch \in Descriptors /\ old \in Seq(Descriptors)
    BY FinishBatchIs
  <1>2. /\ i \in Nat /\ left \in Nat /\ g.batch_size \in Nat
        /\ g.batch_begin \in Ids
        /\ g.batch_begin[1] - ShapeIdBegin \in 0 .. QueuedShapes
    BY FieldsAre
  <1>3. /\ n \in Nat /\ end \in Ids /\ end[1] - ShapeIdBegin \in 0 .. QueuedShapes
    BY DEF MayFinish, EndsWell
  <1>4. size \in Nat /\ size >= g.batch_size
    BY <1>2, <1>3
  <1>5. /\ sizes \in Seq(Nat) /\ Len(sizes) \in Nat /\ Len(sizes) > 1 /\ removed \in Nat
    BY SizesKnown
  <1>6. /\ i \in 0 .. Len(sizes) - 1 /\ max = sizes[i + 1] /\ max \in Nat /\ size <= max
    BY SizesAre DEF MayFinish
  <1>7. before \in Nat /\ EdgesBefore(g.batch_begin) \in Nat /\ c \in Nat
    BY <1>2, <1>3, EdgesBeforeIs, ConsumedIsNat
  <1>8. c + size = before + removed
    <2>1. c + g.batch_size + n = before + removed
      BY DEF MayFinish
    <2> HIDE DEF c, before
    <2> QED
      BY <1>2, <1>3, <1>7, <2>1
  <1>9. /\ RoomTo(sizes)[i] = c + left
        /\ i > 0 => left < sizes[i]
        /\ i = 0 => removed <= g.batch_size
        /\ i <= count
    BY DEF GenOK, WithinSizes
  <1>10. /\ old = <<>> => g.batch_begin = <<ShapeIdBegin, 0>>
         /\ old # <<>> => g.batch_begin = old[count].end
         /\ old = <<>> => c = 0
         /\ old # <<>> => c = EdgesBefore(g.batch_begin) + removed
         /\ \A b \in 1 .. count : BatchOK(old, b)
    BY DEF GenOK, Consumed
  <1>11. c + size <= Total
    <2>1. before <= SumTo[QueuedShapes] /\ SumTo[QueuedShapes] \in Nat
      BY SumToCounts, BatchBoundsAreNat DEF MayFinish, Known
    <2> HIDE DEF c, before
    <2> QED
      BY <1>5, <1>7, <1>8, <2>1 DEF Total
  <1>12. EndsWell(end, count + 2) /\ StaysInShape(g.batch_begin, end)
    BY DEF MayFinish
  <1>13. Consumed(h) = IF new = <<>> THEN 0 ELSE before + removed
    BY <1>1 DEF Consumed
  <1> HIDE DEF h, size, left, batch, old, i, max, c, before, new, sizes
  <1>14. /\ count \in Nat /\ Len(new) = count + 1 /\ new # <<>>
         /\ new[count + 1] = batch
         /\ \A b \in 1 .. count : new[b] = old[b]
         /\ old = <<>> <=> count = 0
    BY <1>1
  <1> HIDE DEF count
  <1>15. Consumed(h) = c + size
    BY <1>7, <1>8, <1>13, <1>14
  <1>16. WithinSizes(h)
    <2>1. CASE move
      <3>1. i + 1 < Len(sizes)
        <4>1. SUFFICES ASSUME i = Len(sizes) - 1 PROVE FALSE
          BY <1>2, <1>5, <1>6
        <4>2. Total <= RoomTo(sizes)[i]
          BY <4>1 DEF Known, SizesInv, sizes
        <4>3. Total \in Nat
          BY TotalIsNat
        <4> QED
          BY <1>2, <1>4, <1>7, <1>9, <1>11, <2>1, <4>2, <4>3
      <3>2. i + 1 \in 1 .. Len(sizes) /\ (i + 1) - 1 = i /\ (i + 1) + 1 \in 1 .. Len(sizes)
        BY <1>2, <1>5, <3>1
      <3>3. RoomTo(sizes)[i + 1] = RoomTo(sizes)[i] + max
        BY <1>5, <1>6, <3>2, RoomCounts
      <3>4. h.edges_left = left - size + max /\ h.batch_index = i + 1
        BY <1>1, <2>1
      <3>5. left - size + max >= 0 /\ left - size + max < max
        BY <1>2, <1>4, <1>6, <2>1
      <3>6. RoomTo(sizes)[i + 1] = (c + size) + (left - size + max)
        BY <1>2, <1>4, <1>6, <1>7, <1>9, <3>3
      <3>7. 0 <= sizes[(i + 1) + 1]
        BY <1>5, <3>2
      <3>8. i + 1 <= Len(new) /\ i + 1 > 0 /\ i + 1 # 0
        BY <1>2, <1>9, <1>14
      <3> QED
        BY <1>1, <1>6, <1>15, <3>1, <3>4, <3>5, <3>6, <3>7, <3>8
        DEF WithinSizes, sizes, new
    <2>2. CASE ~move
      <3>1. h.edges_left = left - size /\ h.batch_index = i
        BY <1>1, <2>2
      <3>2. left - size >= 0 /\ (i > 0 => left - size < sizes[i])
        <4>1. i > 0 => sizes[i] \in Nat
          BY <1>5, <1>6
        <4> QED
          BY <1>2, <1>4, <1>9, <2>2, <4>1
      <3>3. RoomTo(sizes)[i] = (c + size) + (left - size)
        BY <1>2, <1>4, <1>7, <1>9
      <3>4. i = 0 => removed <= 0
        <4>1. RoomTo(sizes)[0] = 0
          BY <1>5, RoomCounts
        <4> QED
          BY <1>2, <1>4, <1>5, <1>7, <1>9, <2>2, <4>1
      <3>5. i < Len(sizes) /\ i <= Len(new) /\ 0 <= sizes[i + 1]
        BY <1>2, <1>5, <1>6, <1>9, <1>14
      <3> QED
        BY <1>1, <1>15, <3>1, <3>2, <3>3, <3>4, <3>5 DEF WithinSizes, sizes, new
    <2> QED
      BY <2>1, <2>2
  <1>17. ASSUME NEW b \in 1 .. Len(new)
         PROVE  BatchOK(new, b)
    <2>1. CASE b <= count
      <3>1. b \in 1 .. count /\ BatchOK(old, b) /\ new[b] = old[b]
        BY <1>10, <1>14, <2>1
      <3>2. b # 1 => b - 1 \in 1 .. count /\ new[b - 1] = old[b - 1]
        BY <1>14, <3>1
      <3> QED
        BY <3>1, <3>2 DEF BatchOK
    <2>2. CASE b = count + 1
      <3>1. new[b] = batch /\ (b = 1 <=> old = <<>>) /\ count + 2 = b + 1
        BY <1>14, <2>2
      <3>2. b # 1 => b - 1 = count /\ new[b - 1] = old[count]
        BY <1>14, <2>2
      <3>3. g.batch_begin = IF b = 1 THEN <<ShapeIdBegin, 0>> ELSE new[b - 1].end
        BY <1>10, <3>1, <3>2
      <3>4. size = before - EdgesBefore(g.batch_begin) + (IF b = 1 THEN removed ELSE 0)
        <4>1. CASE b = 1
          <5>1. g.batch_begin = <<ShapeIdBegin, 0>> /\ c = 0
            BY <1>10, <3>1, <4>1
          <5>2. EdgesBefore(g.batch_begin) = 0
            <6>1. ShapeIdBegin - ShapeIdBegin = 0
              BY BatchBoundsAreNat
            <6>2. EdgesBefore(g.batch_begin) = SumTo[0] + 0
              BY <1>2, <5>1, <6>1, EdgesBeforeIs
            <6> QED
              BY <6>2, SumToCounts DEF Known
          <5> QED
            BY <1>4, <1>5, <1>7, <1>8, <4>1, <5>1, <5>2
        <4>2. CASE b # 1
          <5>1. c = EdgesBefore(g.batch_begin) + removed
            BY <1>10, <3>1, <4>2
          <5> DEFINE e == EdgesBefore(g.batch_begin)
          <5> HIDE DEF e
          <5>2. size = before - e + 0
            BY <1>4, <1>5, <1>7, <1>8, <5>1 DEF e
          <5> QED
            BY <4>2, <5>2 DEF e
        <4> QED
          BY <4>1, <4>2
      <3>5. \E k \in 1 .. b : size <= sizes[k]
        <4>1. i + 1 \in 1 .. b
          BY <1>2, <1>9, <1>14, <2>2
        <4> QED
          BY <1>6, <4>1
      <3>6. batch.begin = g.batch_begin /\ batch.end = end /\ batch.num_edges = size
        BY DEF batch
      <3> QED
        BY <1>12, <3>1, <3>3, <3>4, <3>5, <3>6 DEF BatchOK, before, sizes
    <2> QED
      BY <1>14, <2>1, <2>2
  <1>18. end = IF new = <<>> THEN <<ShapeIdBegin, 0>> ELSE new[Len(new)].end
    BY <1>14 DEF batch
  <1>19. GenOK(h)
    BY <1>1, <1>3, <1>16, <1>17, <1>18 DEF GenOK, new
  <1>20. h.batch_index = i \/ h.batch_index = i + 1
    BY <1>1
  <1> QED
    BY <1>1, <1>13, <1>14, <1>19, <1>20 DEF h, i, before, new, old, count

-----------------------------------------------------------------------------
(* A shape that is split.                                                  *)

\* The id of the shape at position p.
IdAt(p) == ShapeIdBegin + p - 1

Queued(p) == p \in 1 .. QueuedShapes /\ shapes[p] # NoShape

\* Where a batch can end in the shape at position p.
LEMMA EndsInShape ==
  ASSUME Known, NEW p, Queued(p)
  PROVE  /\ shapes[p] \in Nat /\ SumTo[p - 1] \in Nat
         /\ SumTo[p] = SumTo[p - 1] + shapes[p]
         /\ SumTo[p] <= SumTo[QueuedShapes]
         /\ \A e \in Nat : /\ <<IdAt(p), e>> \in Ids
                           /\ EdgesBefore(<<IdAt(p), e>>) = SumTo[p - 1] + e
         /\ <<IdAt(p) + 1, 0>> \in Ids
         /\ EdgesBefore(<<IdAt(p) + 1, 0>>) = SumTo[p]
         /\ IdAt(p) - ShapeIdBegin \in 0 .. QueuedShapes
         /\ (IdAt(p) + 1) - ShapeIdBegin \in 0 .. QueuedShapes
         /\ (IdAt(p) - ShapeIdBegin) + 1 = p
         /\ IdAt(p) \in Nat
  <1>1. /\ p \in 1 .. QueuedShapes /\ QueuedShapes \in Nat /\ ShapeIdBegin \in Nat /\ ShapesOK
        /\ p \in Nat
    BY BatchBoundsAreNat DEF Queued, Known
  <1>2. /\ IdAt(p) \in Nat /\ IdAt(p) - ShapeIdBegin = p - 1 /\ (IdAt(p) + 1) - ShapeIdBegin = p
        /\ p - 1 \in 0 .. QueuedShapes /\ p \in 0 .. QueuedShapes
    BY <1>1 DEF IdAt
  <1>3. /\ shapes[p] \in Nat /\ SumTo[p - 1] \in Nat /\ SumTo[p] \in Nat
        /\ SumTo[p] = SumTo[p - 1] + shapes[p]
    BY <1>1, <1>2, SumToCounts, NumEdgesIsNat DEF Queued
  <1>4. SumTo[p] <= SumTo[QueuedShapes]
    <2>1. QueuedShapes \in p .. QueuedShapes
      BY <1>1
    <2> QED
      BY <1>1, <1>2, <2>1, SumToGrows
  <1>5. ASSUME NEW e \in Nat
        PROVE  <<IdAt(p), e>> \in Ids /\ EdgesBefore(<<IdAt(p), e>>) = SumTo[p - 1] + e
    <2> DEFINE x == <<IdAt(p), e>>
    <2>1. x \in Ids /\ x[1] - ShapeIdBegin = p - 1 /\ x[2] = e
      BY <1>2 DEF Ids
    <2> HIDE DEF x
    <2>2. EdgesBefore(x) = SumTo[p - 1] + e
      BY <1>2, <2>1, EdgesBeforeIs
    <2> QED
      BY <2>1, <2>2 DEF x
  <1>6. <<IdAt(p) + 1, 0>> \in Ids /\ EdgesBefore(<<IdAt(p) + 1, 0>>) = SumTo[p]
    <2> DEFINE j == IdAt(p) + 1
               x == <<j, 0>>
    <2>0. j \in Nat /\ j - ShapeIdBegin = p
      BY <1>2
    <2> HIDE DEF j
    <2>1. x \in Ids /\ x[1] - ShapeIdBegin = p /\ x[2] = 0
      BY <2>0 DEF Ids
    <2> HIDE DEF x
    <2>2. EdgesBefore(x) = SumTo[p] + 0
      BY <1>2, <2>1, EdgesBeforeIs
    <2> QED
      BY <1>3, <2>1, <2>2 DEF x, j
  <1> QED
    BY <1>1, <1>2, <1>3, <1>4, <1>5, <1>6

\* A batch may end within a shape larger than the next size, and behind it.
LEMMA MayFinishInShape ==
  ASSUME Known, NEW g, GenOK(g), NEW p, Queued(p), NEW n \in Nat, NEW e \in Nat,
         g.batch_size + n <= max_batch_size(g),
         Consumed(g) + g.batch_size + n = removed + SumTo[p - 1] + e,
         g.batch_index + 2 <= Len(max_batch_sizes_),
         next_max_batch_size(g) < shapes[p],
         e < shapes[p],
         g.batch_begin[2] > 0 => g.batch_begin[1] = IdAt(p) /\ e > g.batch_begin[2]
  PROVE  MayFinish(g, n, <<IdAt(p), e>>)
  <1> DEFINE end == <<IdAt(p), e>>
  <1>1. /\ shapes[p] \in Nat /\ SumTo[p - 1] \in Nat
        /\ SumTo[p] = SumTo[p - 1] + shapes[p]
        /\ SumTo[p] <= SumTo[QueuedShapes]
        /\ end \in Ids /\ EdgesBefore(end) = SumTo[p - 1] + e
        /\ IdAt(p) - ShapeIdBegin \in 0 .. QueuedShapes
        /\ (IdAt(p) - ShapeIdBegin) + 1 = p
    BY EndsInShape
  <1>2. end[1] = IdAt(p) /\ end[2] = e
    OBVIOUS
  <1> HIDE DEF end
  <1>3. SumTo[QueuedShapes] \in Nat /\ removed \in Nat
    BY SumToCounts, BatchBoundsAreNat DEF Known
  <1>4. EdgesBefore(end) <= SumTo[QueuedShapes]
    BY <1>1, <1>3
  <1>5. Consumed(g) + g.batch_size + n = EdgesBefore(end) + removed
    BY <1>1, <1>3
  <1>6. EndsWell(end, Len(g.batches) + 2)
    <2>1. g.batch_index + 2 \in 1 .. Len(g.batches) + 2
      <3>1. g.batch_index <= Len(g.batches) /\ Len(g.batches) \in Nat
        BY DEF GenOK, WithinSizes, Gens
      <3> QED
        BY <3>1, FieldsAre
    <2>2. max_batch_sizes_[g.batch_index + 2] < shapes[p]
      BY SizesAre
    <2>3. end[1] - ShapeIdBegin + 1 = p
      BY <1>1, <1>2
    <2> QED
      BY <1>1, <1>2, <2>1, <2>2, <2>3 DEF EndsWell, Queued
  <1>7. StaysInShape(g.batch_begin, end)
    BY <1>2 DEF StaysInShape
  <1>8. MayFinish(g, n, end)
    BY <1>1, <1>4, <1>5, <1>6, <1>7 DEF MayFinish
  <1> QED
    BY <1>8 DEF end

LEMMA MayFinishShape ==
  ASSUME Known, NEW g, GenOK(g), NEW p, Queued(p), NEW n \in Nat,
         g.batch_size + n <= max_batch_size(g),
         Consumed(g) + g.batch_size + n = removed + SumTo[p],
         g.batch_begin[2] > 0 => g.batch_begin[1] = IdAt(p)
  PROVE  MayFinish(g, n, <<IdAt(p) + 1, 0>>)
  <1> DEFINE j == IdAt(p) + 1
             end == <<j, 0>>
  <1>0. /\ end \in Ids /\ EdgesBefore(end) = SumTo[p]
        /\ SumTo[p] <= SumTo[QueuedShapes]
        /\ j - ShapeIdBegin \in 0 .. QueuedShapes
    BY EndsInShape
  <1>1. /\ end \in Ids /\ EdgesBefore(end) = SumTo[p]
        /\ SumTo[p] <= SumTo[QueuedShapes]
        /\ end[1] - ShapeIdBegin \in 0 .. QueuedShapes /\ end[2] = 0
    <2> HIDE DEF j
    <2> QED
      BY <1>0
  <1>2. removed \in Nat
    BY DEF Known
  <1>3. g.batch_begin[2] > 0 => end = <<g.batch_begin[1] + 1, 0>>
    OBVIOUS
  <1> HIDE DEF end
  <1>4. EndsWell(end, Len(g.batches) + 2) /\ StaysInShape(g.batch_begin, end)
    BY <1>1, <1>3 DEF EndsWell, StaysInShape
  <1>5. Consumed(g) + g.batch_size + n = EdgesBefore(end) + removed
    <2>1. SumTo[p] \in Nat
      BY SumToCounts, BatchBoundsAreNat DEF Known, Queued
    <2> QED
      BY <1>1, <1>2, <2>1
  <1>6. MayFinish(g, n, end)
    BY <1>1, <1>4, <1>5 DEF MayFinish
  <1> QED
    BY <1>6 DEF end

\* The states of the while loop of AddShape for the shape at position p.
Fills(p) ==
  { f \in [g : Gens, e_begin : Nat, num_edges : Nat, remaining : Nat] :
      /\ GenOK(f.g)
      /\ f.e_begin + f.num_edges = shapes[p]
      /\ Consumed(f.g) + f.g.batch_size = removed + SumTo[p - 1] + f.e_begin
      /\ f.remaining = max_batch_size(f.g) - f.g.batch_size
      /\ f.g.batch_begin[2] = f.e_begin
      /\ f.e_begin > 0 => f.g.batch_begin[1] = IdAt(p) /\ f.g.batch_size = 0
      /\ f.g.batch_index + 2 <= Len(max_batch_sizes_)
      /\ next_max_batch_size(f.g) < f.num_edges }

Filled(f) == f.num_edges <= f.remaining + next_max_batch_size(f.g)

\* A shape with edges makes every size positive.
LEMMA SizesArePositive ==
  ASSUME Known, NEW g, GenOK(g), NEW p, Queued(p), shapes[p] > 0
  PROVE  max_batch_size(g) > 0
  <1>1. /\ shapes[p] \in Nat /\ SumTo[p - 1] \in Nat
        /\ SumTo[p] = SumTo[p - 1] + shapes[p] /\ SumTo[p] <= SumTo[QueuedShapes]
    BY EndsInShape
  <1>2. SumTo[QueuedShapes] \in Nat /\ removed \in Nat
    BY SumToCounts, BatchBoundsAreNat DEF Known
  <1>3. Total > 0
    BY <1>1, <1>2 DEF Total
  <1>4. g.batch_index + 1 \in 1 .. Len(max_batch_sizes_)
    BY SizesAre, SizesKnown
  <1>5. max_batch_sizes_[g.batch_index + 1] > 0
    BY <1>3, <1>4 DEF Known, SizesInv
  <1> QED
    BY <1>5, SizesAre

\* What is known of a state of the loop.
LEMMA FillsAre ==
  ASSUME Known, NEW p, Queued(p), NEW f \in Fills(p)
  PROVE  /\ GenOK(f.g) /\ f.e_begin \in Nat /\ f.num_edges \in Nat /\ f.remaining \in Nat
         /\ f.e_begin + f.num_edges = shapes[p]
         /\ Consumed(f.g) + f.g.batch_size = removed + SumTo[p - 1] + f.e_begin
         /\ f.remaining = max_batch_size(f.g) - f.g.batch_size
         /\ f.g.batch_begin[2] = f.e_begin
         /\ f.e_begin > 0 => f.g.batch_begin[1] = IdAt(p) /\ f.g.batch_size = 0
         /\ f.g.batch_index + 2 <= Len(max_batch_sizes_)
         /\ next_max_batch_size(f.g) < f.num_edges
         /\ LookAhead(f.g) = f.g
         /\ f.g.overruns = 0
         /\ max_batch_size(f.g) \in Nat /\ next_max_batch_size(f.g) \in Nat
         /\ next_max_batch_size(f.g) <= max_batch_size(f.g)
         /\ f.remaining <= 2 * next_max_batch_size(f.g)
         /\ f.g.batch_size \in Nat /\ Consumed(f.g) \in Nat
         /\ max_batch_size(f.g) > 0
  <1>1. /\ GenOK(f.g) /\ f.e_begin \in Nat /\ f.num_edges \in Nat /\ f.remaining \in Nat
        /\ f.e_begin + f.num_edges = shapes[p]
        /\ Consumed(f.g) + f.g.batch_size = removed + SumTo[p - 1] + f.e_begin
        /\ f.remaining = max_batch_size(f.g) - f.g.batch_size
        /\ f.g.batch_begin[2] = f.e_begin
        /\ f.e_begin > 0 => f.g.batch_begin[1] = IdAt(p) /\ f.g.batch_size = 0
        /\ f.g.batch_index + 2 <= Len(max_batch_sizes_)
        /\ next_max_batch_size(f.g) < f.num_edges
    BY DEF Fills
  <1> DEFINE g == f.g
  <1>2. GenOK(g) /\ g.batch_index + 2 <= Len(max_batch_sizes_)
    BY <1>1
  <1> HIDE DEF g
  <1>3. /\ LookAhead(g) = g /\ g.overruns = 0 /\ g.batch_size \in Nat /\ Consumed(g) \in Nat
        /\ max_batch_size(g) \in Nat /\ next_max_batch_size(g) \in Nat
        /\ next_max_batch_size(g) <= max_batch_size(g)
        /\ max_batch_size(g) - g.batch_size <= 2 * next_max_batch_size(g)
    BY <1>2, LookAheadIs, FieldsAre, ConsumedIsNat, SizesAre, RoomHalves
  <1>4. shapes[p] > 0
    BY <1>1, <1>3 DEF g
  <1>5. max_batch_size(g) > 0
    BY <1>2, <1>4, SizesArePositive
  <1> QED
    BY <1>1, <1>3, <1>5 DEF g

\* A turn of the loop fills a batch.
LEMMA FillTurnKeeps ==
  ASSUME Known, NEW p, Queued(p), NEW f \in Fills(p)
  PROVE  LET h == FillTurn(f, IdAt(p))
         IN  /\ h \in Fills(p)
             /\ Filled(f) => h = f
             /\ ~Filled(f) => h.num_edges = f.num_edges - f.remaining /\ h.g.batch_size = 0
  <1> DEFINE g == f.g
             r == f.remaining
             b == f.e_begin
             num == f.num_edges
             e == b + r
             end == <<IdAt(p), e>>
             next == next_max_batch_size(g)
             max == max_batch_size(g)
             size == g.batch_size
             c == Consumed(g)
             sum == SumTo[p - 1]
             all == shapes[p]
             h == FinishBatch(g, r, end)
             d == [g |-> h, e_begin |-> e, num_edges |-> num - r,
                   remaining |-> max_batch_size(h)]
  <1>1. /\ b \in Nat /\ num \in Nat /\ r \in Nat /\ b + num = all
        /\ c + size = removed + sum + b
        /\ r = max - size /\ next < num
        /\ max \in Nat /\ next \in Nat /\ next <= max
        /\ size \in Nat /\ c \in Nat /\ max > 0
        /\ b > 0 => size = 0
    BY FillsAre
  <1>2. /\ GenOK(g) /\ LookAhead(g) = g /\ g.overruns = 0
        /\ g.batch_index + 2 <= Len(max_batch_sizes_)
        /\ g.batch_begin[2] = b
        /\ b > 0 => g.batch_begin[1] = IdAt(p)
    BY FillsAre
  <1>3. /\ all \in Nat /\ sum \in Nat /\ SumTo[p] = sum + all
        /\ SumTo[p] <= SumTo[QueuedShapes]
        /\ \A x \in Nat : EdgesBefore(<<IdAt(p), x>>) = sum + x
    BY EndsInShape
  <1>4. removed \in Nat /\ SumTo[QueuedShapes] \in Nat
    BY SumToCounts, BatchBoundsAreNat DEF Known
  <1>5. Filled(f) <=> r + next >= num
    BY DEF Filled
  <1>6. FillTurn(f, IdAt(p)) = IF r + next >= num THEN f ELSE d
    BY <1>2 DEF FillTurn
  <1>7. next = max_batch_sizes_[g.batch_index + 2] /\ g.batch_index \in Nat
    BY <1>2, SizesAre, FieldsAre
  <1> HIDE DEF g, r, b, num, next, max, size, c, sum, all
  <1>8. CASE r + next >= num
    BY <1>5, <1>6, <1>8
  <1>9. CASE ~(r + next >= num)
    <2>1. e \in Nat /\ e < all /\ num - r \in Nat /\ e + (num - r) = all
      BY <1>1, <1>3, <1>9
    <2>2. size + r <= max /\ c + size + r = removed + sum + e
      BY <1>1, <1>3, <1>4
    <2>3. next < all /\ (b > 0 => e > b) /\ num - r > next
      BY <1>1, <1>3, <1>9
    <2>4. EdgesBefore(end) = sum + e
      BY <1>3, <2>1
    <2> HIDE DEF e
    <2>5. MayFinish(g, r, end)
      <3>1. g.batch_begin[2] > 0 => g.batch_begin[1] = IdAt(p) /\ e > g.batch_begin[2]
        BY <1>2, <2>3
      <3>2. r \in Nat
        BY <1>1
      <3> QED
        BY <1>2, <2>1, <2>2, <2>3, <3>1, <3>2, MayFinishInShape
        DEF max, next, c, size, sum, all
    <2>6. end[1] = IdAt(p) /\ end[2] = e
      OBVIOUS
    <2> HIDE DEF end
    <2>7. /\ GenOK(h) /\ h.batch_size = 0 /\ h.batch_begin = end
          /\ h.batch_index = g.batch_index \/ h.batch_index = g.batch_index + 1
          /\ Consumed(h) = EdgesBefore(end) + removed
      BY <1>2, <2>5, FinishBatchKeeps
    <2> HIDE DEF h
    <2>8. h \in Gens /\ h.batch_begin[1] = IdAt(p) /\ h.batch_begin[2] = e
      BY <2>6, <2>7 DEF GenOK
    <2>9. Consumed(h) = removed + sum + e
      BY <1>3, <1>4, <2>1, <2>4, <2>7
    <2>10. /\ max_batch_size(h) \in Nat /\ next_max_batch_size(h) \in Nat
           /\ max_batch_size(h) = max_batch_sizes_[h.batch_index + 1]
      BY <2>7, SizesAre
    <2>11. (g.batch_index + 1) + 1 = g.batch_index + 2
      BY <1>7
    <2>12. h.batch_index + 2 <= Len(max_batch_sizes_)
      <3>1. CASE h.batch_index = g.batch_index
        BY <1>2, <3>1
      <3>2. CASE h.batch_index = g.batch_index + 1
        <4>1. max_batch_size(h) = next
          BY <1>7, <2>10, <2>11, <3>2
        <4>2. max_batch_size(h) - h.batch_size = next
          BY <1>1, <2>7, <4>1
        <4>3. num - r > max_batch_size(h) - h.batch_size
          BY <2>3, <4>2
        <4>4. removed + sum + e + (num - r) <= Total
          BY <1>1, <1>3, <1>4, <2>1 DEF Total
        <4>5. Consumed(h) + h.batch_size = removed + sum + e
          BY <1>3, <1>4, <2>1, <2>7, <2>9
        <4>6. Consumed(h) + h.batch_size + (num - r) <= Total
          BY <4>4, <4>5
        <4> QED
          BY <2>1, <2>7, <4>3, <4>6, LookAheadStays
      <3> QED
        BY <2>7, <3>1, <3>2
    <2>13. next_max_batch_size(h) <= next
      <3>1. next_max_batch_size(h) = max_batch_sizes_[h.batch_index + 2]
            /\ next_max_batch_size(h) <= max_batch_size(h)
        BY <2>7, <2>12, SizesAre
      <3>2. CASE h.batch_index = g.batch_index
        BY <1>1, <1>7, <3>1, <3>2
      <3>3. CASE h.batch_index = g.batch_index + 1
        BY <1>7, <2>10, <2>11, <3>1, <3>3
      <3> QED
        BY <2>7, <3>2, <3>3
    <2>14. next_max_batch_size(h) < num - r
      BY <1>1, <2>1, <2>3, <2>10, <2>13
    <2>15. d \in Fills(p)
      <3>1. max_batch_size(h) = max_batch_size(h) - 0 /\ Consumed(h) + 0 = removed + sum + e
        BY <1>3, <1>4, <2>1, <2>9, <2>10
      <3>2. d \in [g : Gens, e_begin : Nat, num_edges : Nat, remaining : Nat]
        BY <2>1, <2>8, <2>10
      <3>3. d.g = h /\ d.e_begin = e /\ d.num_edges = num - r /\ d.remaining = max_batch_size(h)
        OBVIOUS
      <3> HIDE DEF d
      <3> QED
        BY <2>1, <2>7, <2>8, <2>12, <2>14, <3>1, <3>2, <3>3 DEF Fills, sum, all
    <2> QED
      BY <1>5, <1>6, <1>9, <2>7, <2>15 DEF num, r
  <1> QED
    BY <1>8, <1>9

\* The loop begins with the shape as a whole, and ends.
LEMMA FillBatchesFill ==
  ASSUME Known, NEW p, Queued(p), NEW g, GenOK(g), g.batch_begin[2] = 0,
         Consumed(g) + g.batch_size = removed + SumTo[p - 1],
         shapes[p] > max_batch_size(g) - g.batch_size,
         shapes[p] > next_max_batch_size(g)
  PROVE  LET f == FillBatches(g, IdAt(p), shapes[p], max_batch_size(g) - g.batch_size)
         IN  f \in Fills(p) /\ Filled(f)
  <1> DEFINE all == shapes[p]
             n == all + 1
             id == IdAt(p)
             r == max_batch_size(g) - g.batch_size
             start == [g |-> g, e_begin |-> 0, num_edges |-> all, remaining |-> r]
             S == Fills(p)
             step == [x \in Nat \X S |-> FillTurn(x[2], id)]
             Turns(f) == f = [k \in 0 .. n |-> IF k = 0 THEN start ELSE FillTurn(f[k - 1], id)]
             after == CHOOSE f : Turns(f)
             last == after[n]
  <1>1. FillBatches(g, id, all, r) = [last EXCEPT !.g = LookAhead(last.g)]
    BY DEF FillBatches
  <1>2. /\ all \in Nat /\ n \in Nat /\ 0 \in Nat /\ SumTo[p - 1] \in Nat
        /\ SumTo[p] = SumTo[p - 1] + all /\ SumTo[p] <= SumTo[QueuedShapes]
    <2>1. /\ all \in Nat /\ SumTo[p - 1] \in Nat
          /\ SumTo[p] = SumTo[p - 1] + all /\ SumTo[p] <= SumTo[QueuedShapes]
      BY EndsInShape
    <2> HIDE DEF all
    <2>2. n \in Nat /\ 0 \in Nat
      BY <2>1
    <2> QED
      BY <2>1, <2>2
  <1>3. /\ g.batch_size \in Nat /\ max_batch_size(g) \in Nat /\ Consumed(g) \in Nat
        /\ next_max_batch_size(g) \in Nat /\ removed \in Nat /\ SumTo[QueuedShapes] \in Nat
        /\ g.batch_size <= max_batch_size(g) /\ g \in Gens
    <2>1. g.batch_size <= max_batch_sizes_[g.batch_index + 1] /\ g \in Gens
      BY DEF GenOK, WithinSizes
    <2>2. removed \in Nat /\ SumTo[QueuedShapes] \in Nat
      BY SumToCounts, BatchBoundsAreNat DEF Known
    <2> QED
      BY <2>1, <2>2, SizesAre, FieldsAre, ConsumedIsNat
  <1>4. g.batch_index + 2 <= Len(max_batch_sizes_)
    <2>1. Consumed(g) + g.batch_size + all <= Total
      BY <1>2, <1>3 DEF Total
    <2> QED
      BY <1>2, <2>1, LookAheadStays
  <1>5. start \in S
    <2>1. r \in Nat /\ 0 + all = all /\ SumTo[p - 1] + 0 = SumTo[p - 1]
          /\ removed + SumTo[p - 1] + 0 = removed + SumTo[p - 1]
      BY <1>2, <1>3
    <2>2. start.g = g /\ start.e_begin = 0 /\ start.num_edges = all /\ start.remaining = r
      OBVIOUS
    <2> HIDE DEF r, all
    <2>3. start \in [g : Gens, e_begin : Nat, num_edges : Nat, remaining : Nat]
      BY <1>2, <1>3, <2>1
    <2>4. next_max_batch_size(g) < all /\ all = shapes[p] /\ r = max_batch_size(g) - g.batch_size
      BY <1>2, <1>3 DEF all, r
    <2>5. ~(0 > 0)
      OBVIOUS
    <2> HIDE DEF start
    <2> QED
      BY <1>4, <2>1, <2>2, <2>3, <2>4, <2>5 DEF Fills
  <1>6. \A x \in S : /\ FillTurn(x, id) \in S
                     /\ Filled(x) => FillTurn(x, id) = x
                     /\ ~Filled(x) => /\ FillTurn(x, id).num_edges = x.num_edges - x.remaining
                                      /\ FillTurn(x, id).g.batch_size = 0
    BY FillTurnKeeps
  <1>7. \A x \in S : /\ x.num_edges \in Nat /\ x.remaining \in Nat /\ x.num_edges > 0
                     /\ x.g.batch_size = 0 => x.remaining > 0
                     /\ LookAhead(x.g) = x.g
    <2> TAKE x \in S
    <2> DEFINE a == x.num_edges
               b == next_max_batch_size(x.g)
               c == x.remaining
               d == max_batch_size(x.g)
               e == x.g.batch_size
    <2>1. a \in Nat /\ b \in Nat /\ c \in Nat /\ d \in Nat /\ e \in Nat /\ b < a /\ d > 0
          /\ c = d - e
      BY FillsAre
    <2>2. LookAhead(x.g) = x.g
      BY FillsAre
    <2> HIDE DEF a, b, c, d, e
    <2>3. a > 0 /\ (e = 0 => c > 0)
      BY <2>1
    <2> QED
      BY <2>1, <2>2, <2>3 DEF a, c, e
  <1> HIDE DEF S, start, id
  <1>8. step \in [Nat \X S -> S]
    BY <1>6
  <1>9. PICK f : IsLoop(f, n, S, start, step)
    <2> HIDE DEF step, n
    <2> QED
      BY <1>2, <1>5, <1>8, LoopExists
  <1>10. \A k \in 1 .. n : f[k - 1] \in S /\ f[k] = FillTurn(f[k - 1], id)
    <2> TAKE k \in 1 .. n
    <2>1. k - 1 \in 0 .. n /\ k \in Nat
      BY <1>2
    <2>2. f[k - 1] \in S
      BY <1>9, <2>1 DEF IsLoop
    <2>3. step[<<k, f[k - 1]>>] = FillTurn(f[k - 1], id)
      BY <2>1, <2>2
    <2> QED
      BY <1>9, <2>2, <2>3 DEF IsLoop
  <1> HIDE DEF step, n
  <1>11. Turns(f)
    BY <1>2, <1>9, <1>10 DEF IsLoop
  <1> HIDE DEF Turns
  <1>12. Turns(after)
    BY <1>11
  <1> HIDE DEF after
  <1>13. after[0] = start /\ \A k \in 1 .. n : after[k] = FillTurn(after[k - 1], id)
    BY <1>2, <1>12 DEF Turns
  <1>14. \A k \in 0 .. n : after[k] \in S
    <2>1. \A k \in 1 .. n : after[k - 1] \in S => after[k] \in S
      BY <1>6, <1>13
    <2> QED
      BY <1>2, <1>5, <1>13, <2>1, LoopStays
  <1> DEFINE T == { k \in Nat : k <= n => \/ Filled(after[k])
                                          \/ k = 0
                                          \/ (/\ after[k].num_edges <= n - k
                                              /\ after[k].g.batch_size = 0) }
  <1>15. 0 \in T
    BY <1>2
  <1>16. \A k \in Nat : k \in T => k + 1 \in T
    <2> SUFFICES ASSUME NEW k \in Nat, k \in T, k + 1 <= n
                 PROVE  \/ Filled(after[k + 1])
                        \/ (/\ after[k + 1].num_edges <= n - (k + 1)
                            /\ after[k + 1].g.batch_size = 0)
      BY <1>2
    <2>1. k \in 0 .. n /\ k + 1 \in 1 .. n /\ (k + 1) - 1 = k /\ k + 1 \in 0 .. n /\ k <= n
      BY <1>2
    <2> DEFINE x == after[k]
               y == after[k + 1]
               left == x.num_edges
               room == x.remaining
    <2>2. y = FillTurn(x, id) /\ x \in S
      BY <1>13, <1>14, <2>1
    <2>3. left \in Nat /\ room \in Nat /\ (x.g.batch_size = 0 => room > 0)
      BY <1>7, <2>2
    <2>4. Filled(x) \/ k = 0 \/ (left <= n - k /\ x.g.batch_size = 0)
      BY <2>1
    <2>5. k = 0 => left = n - 1
      BY <1>2, <1>13 DEF start, n
    <2>6. CASE Filled(x)
      <3>1. y = x
        BY <1>6, <2>2, <2>6
      <3> QED
        BY <2>6, <3>1
    <2>7. CASE ~Filled(x)
      <3>1. y.num_edges = left - room /\ y.g.batch_size = 0
        BY <1>6, <2>2, <2>7
      <3> HIDE DEF left, room, x
      <3>2. y.num_edges <= n - (k + 1)
        BY <1>2, <2>3, <2>4, <2>5, <2>7, <3>1
      <3> QED
        BY <3>1, <3>2
    <2> QED
      BY <2>6, <2>7
  <1> HIDE DEF T
  <1>17. \A k \in Nat : k \in T
    BY <1>15, <1>16, Induction
  <1>18. n \in 0 .. n /\ n <= n /\ n # 0
    BY <1>2 DEF n
  <1>19. last \in S
    BY <1>14, <1>18
  <1>20. Filled(last) \/ last.num_edges <= n - n
    BY <1>2, <1>17, <1>18 DEF T
  <1> HIDE DEF last
  <1>21. last.num_edges \in Nat /\ last.num_edges > 0 /\ LookAhead(last.g) = last.g
    BY <1>7, <1>19
  <1>22. Filled(last)
    BY <1>2, <1>20, <1>21
  <1>23. [last EXCEPT !.g = last.g] = last
    BY <1>19 DEF S, Fills
  <1>24. FillBatches(g, id, all, r) = last
    BY <1>1, <1>21, <1>23
  <1> QED
    BY <1>19, <1>22, <1>24 DEF S, id

\* The rest is cut into two batches that are not empty.
LEMMA SplitShapeKeeps ==
  ASSUME Known, NEW p, Queued(p), NEW g, GenOK(g), g.batch_begin[2] = 0,
         Consumed(g) + g.batch_size = removed + SumTo[p - 1],
         shapes[p] > max_batch_size(g) - g.batch_size,
         shapes[p] > next_max_batch_size(g)
  PROVE  LET h == SplitShape(g, IdAt(p), shapes[p], max_batch_size(g) - g.batch_size)
         IN  /\ GenOK(h) /\ h.batch_size = 0 /\ h.batch_begin = <<IdAt(p) + 1, 0>>
             /\ Consumed(h) = removed + SumTo[p]
  <1> DEFINE f == FillBatches(g, IdAt(p), shapes[p], max_batch_size(g) - g.batch_size)
             k == f.g
             r == f.remaining
             b == f.e_begin
             num == f.num_edges
             next == next_max_batch_size(k)
             max == max_batch_size(k)
             size == k.batch_size
             c == Consumed(k)
             sum == SumTo[p - 1]
             all == shapes[p]
             n == (num + r - next) \div 2
             e == b + n
             end == <<IdAt(p), e>>
             h == FinishBatch(k, n, end)
             m == num - n
             end2 == <<IdAt(p) + 1, 0>>
             h2 == FinishBatch(h, m, end2)
  <1>1. f \in Fills(p) /\ Filled(f)
    BY FillBatchesFill
  <1>2. SplitShape(g, IdAt(p), shapes[p], max_batch_size(g) - g.batch_size) = h2
    BY DEF SplitShape
  <1> HIDE DEF f
  <1>3. /\ b \in Nat /\ num \in Nat /\ r \in Nat /\ b + num = all
        /\ c + size = removed + sum + b
        /\ r = max - size /\ next < num
        /\ max \in Nat /\ next \in Nat /\ next <= max /\ r <= 2 * next
        /\ size \in Nat /\ c \in Nat /\ max > 0
        /\ b > 0 => size = 0
    BY <1>1, FillsAre
  <1>4. /\ GenOK(k) /\ k.batch_index + 2 <= Len(max_batch_sizes_)
        /\ k.batch_begin[2] = b
        /\ b > 0 => k.batch_begin[1] = IdAt(p)
    BY <1>1, FillsAre
  <1>5. num <= r + next
    BY <1>1 DEF Filled
  <1>6. /\ all \in Nat /\ sum \in Nat /\ SumTo[p] = sum + all
        /\ \A x \in Nat : EdgesBefore(<<IdAt(p), x>>) = sum + x
        /\ EdgesBefore(end2) = SumTo[p]
    BY EndsInShape
  <1>7. removed \in Nat
    BY DEF Known
  <1>8. next = max_batch_sizes_[k.batch_index + 2] /\ k.batch_index \in Nat
    BY <1>4, SizesAre, FieldsAre
  <1> HIDE DEF k, r, b, num, next, max, size, c, sum, all
  <1>9. num + r - next \in Nat /\ num + r - next <= 2 * r
    BY <1>3, <1>5
  <1>10. n \in Nat /\ 2 * n <= num + r - next /\ num + r - next < 2 * n + 2
    <2> DEFINE x == num + r - next
    <2>1. x \in Nat
      BY <1>9
    <2> HIDE DEF x
    <2>2. x \div 2 \in Nat /\ 2 * (x \div 2) <= x /\ x < 2 * (x \div 2) + 2
      BY <2>1
    <2> QED
      BY <2>2 DEF x
  <1> HIDE DEF n
  <1>11. n <= r
    BY <1>3, <1>9, <1>10
  <1>12. n < num
    BY <1>3, <1>5, <1>10
  <1>13. m \in Nat /\ m <= next
    BY <1>3, <1>5, <1>10, <1>12
  <1>14. b > 0 => n > 0
    BY <1>3, <1>5, <1>10
  <1>15. e \in Nat /\ e < all /\ e + m = all
    BY <1>3, <1>6, <1>10, <1>12
  <1>16. size + n <= max /\ c + size + n = removed + sum + e
    BY <1>3, <1>6, <1>7, <1>10, <1>11
  <1>17. next < all
    BY <1>3, <1>6
  <1>18. b > 0 => e > b
    BY <1>3, <1>10, <1>14
  <1>19. EdgesBefore(end) = sum + e
    BY <1>6, <1>15
  <1> HIDE DEF e
  <1>20. MayFinish(k, n, end)
    <2>1. k.batch_begin[2] > 0 => k.batch_begin[1] = IdAt(p) /\ e > k.batch_begin[2]
      BY <1>4, <1>18
    <2> QED
      BY <1>4, <1>10, <1>15, <1>16, <1>17, <2>1, MayFinishInShape
      DEF max, next, c, size, sum, all
  <1>21. end[1] = IdAt(p) /\ end[2] = e
    OBVIOUS
  <1> HIDE DEF end
  <1>22. /\ GenOK(h) /\ h.batch_size = 0 /\ h.batch_begin = end
         /\ h.batch_index = k.batch_index \/ h.batch_index = k.batch_index + 1
         /\ Consumed(h) = EdgesBefore(end) + removed
    BY <1>4, <1>20, FinishBatchKeeps
  <1> HIDE DEF h, m
  <1>23. max_batch_size(h) \in Nat /\ next <= max_batch_size(h)
    <2>1. /\ max_batch_size(h) = max_batch_sizes_[h.batch_index + 1]
          /\ max_batch_size(h) \in Nat
          /\ max = max_batch_sizes_[k.batch_index + 1]
      BY <1>4, <1>22, SizesAre DEF max
    <2>2. (k.batch_index + 1) + 1 = k.batch_index + 2
      BY <1>8
    <2> QED
      BY <1>3, <1>8, <1>22, <2>1, <2>2
  <1>24. h.batch_size + m <= max_batch_size(h)
    BY <1>3, <1>13, <1>22, <1>23
  <1>25. Consumed(h) + h.batch_size + m = removed + SumTo[p]
    BY <1>6, <1>7, <1>13, <1>15, <1>19, <1>22
  <1>26. h.batch_begin[2] > 0 => h.batch_begin[1] = IdAt(p)
    BY <1>21, <1>22
  <1>27. MayFinish(h, m, end2)
    BY <1>13, <1>22, <1>24, <1>25, <1>26, MayFinishShape
  <1>28. /\ GenOK(h2) /\ h2.batch_size = 0 /\ h2.batch_begin = end2
         /\ Consumed(h2) = EdgesBefore(end2) + removed
    BY <1>22, <1>27, FinishBatchKeeps
  <1>29. Consumed(h2) = removed + SumTo[p]
    BY <1>6, <1>7, <1>28
  <1> QED
    BY <1>2, <1>28, <1>29

-----------------------------------------------------------------------------
(* A shape that is added.                                                  *)

\* The edges of the current batch fit into it.
LEMMA WithinRoom ==
  ASSUME Known, NEW g, GenOK(g)
  PROVE  g.batch_size + 0 <= max_batch_size(g)
  <1>1. /\ g.batch_size \in Nat /\ max_batch_size(g) \in Nat
        /\ max_batch_size(g) = max_batch_sizes_[g.batch_index + 1]
    BY SizesAre, FieldsAre
  <1>2. g.batch_size <= max_batch_sizes_[g.batch_index + 1]
    BY DEF GenOK, WithinSizes
  <1> QED
    BY <1>1, <1>2

\* A batch takes more edges as long as they fit.
LEMMA ExtendBatchKeeps ==
  ASSUME Known, NEW g, GenOK(g), NEW n \in Nat, g.batch_size + n <= max_batch_size(g)
  PROVE  LET h == ExtendBatch(g, n)
         IN  /\ GenOK(h) /\ h.batch_begin = g.batch_begin
             /\ h.batch_size = g.batch_size + n /\ Consumed(h) = Consumed(g)
  <1> DEFINE h == ExtendBatch(g, n)
             size == g.batch_size + n
  <1>1. g \in Gens /\ g.batch_size \in Nat
    BY FieldsAre DEF GenOK
  <1>2. size \in Nat /\ size >= g.batch_size
    BY <1>1
  <1>3. h = [g EXCEPT !.batch_size = size]
    BY DEF ExtendBatch
  <1>4. max_batch_size(g) = max_batch_sizes_[g.batch_index + 1] /\ removed \in Nat
    BY SizesAre, SizesKnown
  <1>5. size <= max_batch_sizes_[g.batch_index + 1]
    BY <1>4
  <1> HIDE DEF size, h
  <1>6. /\ h \in Gens /\ h.batch_size = size /\ h.batch_index = g.batch_index
        /\ h.edges_left = g.edges_left /\ h.batch_begin = g.batch_begin
        /\ h.batches = g.batches /\ h.overruns = g.overruns
    BY <1>1, <1>2, <1>3 DEF Gens
  <1>7. Consumed(h) = Consumed(g)
    BY <1>6 DEF Consumed
  <1>8. WithinSizes(h)
    <2>1. /\ g.batch_index < Len(max_batch_sizes_)
          /\ g.edges_left >= 0
          /\ RoomTo(max_batch_sizes_)[g.batch_index] = Consumed(g) + g.edges_left
          /\ g.batch_index > 0 => g.edges_left < max_batch_sizes_[g.batch_index]
          /\ g.batch_index = 0 => removed <= g.batch_size
          /\ g.batch_index <= Len(g.batches)
          /\ g.overruns = 0
      BY DEF GenOK, WithinSizes
    <2>2. g.batch_index = 0 => removed <= size
      BY <1>1, <1>2, <1>4, <2>1
    <2> QED
      BY <1>5, <1>6, <1>7, <2>1, <2>2 DEF WithinSizes
  <1>9. GenOK(h)
    BY <1>6, <1>8 DEF GenOK
  <1> QED
    BY <1>6, <1>7, <1>9 DEF h, size

\* The end of the shapes seen so far is nothing the batches depend on.
LEMMA EndMayMove ==
  ASSUME Known, NEW g, GenOK(g), NEW id \in Nat
  PROVE  LET h == [g EXCEPT !.shape_id_end = id]
         IN  /\ GenOK(h) /\ h.batch_begin = g.batch_begin /\ h.shape_id_end = id
             /\ h.batch_size = g.batch_size /\ Consumed(h) = Consumed(g)
  <1> DEFINE h == [g EXCEPT !.shape_id_end = id]
  <1>1. /\ h \in Gens /\ h.batch_size = g.batch_size /\ h.batch_index = g.batch_index
        /\ h.edges_left = g.edges_left /\ h.batch_begin = g.batch_begin
        /\ h.batches = g.batches /\ h.overruns = g.overruns /\ h.shape_id_end = id
    BY DEF Gens, GenOK
  <1> HIDE DEF h
  <1>2. Consumed(h) = Consumed(g)
    BY <1>1 DEF Consumed
  <1>3. GenOK(h)
    BY <1>1, <1>2 DEF GenOK, WithinSizes
  <1> QED
    BY <1>1, <1>2, <1>3 DEF h

LEMMA AddShapeKeeps ==
  ASSUME Known, NEW p, Queued(p), NEW g, GenOK(g), g.batch_begin[2] = 0,
         Consumed(g) + g.batch_size = removed + SumTo[p - 1]
  PROVE  LET h == AddShape(g, IdAt(p), shapes[p])
         IN  /\ GenOK(h) /\ h.batch_begin[2] = 0 /\ h.shape_id_end = IdAt(p) + 1
             /\ Consumed(h) + h.batch_size = removed + SumTo[p]
  <1> DEFINE all == shapes[p]
             id == IdAt(p)
             max == max_batch_size(g)
             next == next_max_batch_size(g)
             size == g.batch_size
             r == max - size
             sum == SumTo[p - 1]
             c == Consumed(g)
             h == IF all <= r THEN ExtendBatch(g, all)
                  ELSE IF all <= next
                  THEN ExtendBatch(FinishBatch(LookAhead(g), 0, <<id, 0>>), all)
                  ELSE SplitShape(g, id, all, r)
  <1>1. AddShape(g, id, all) = [h EXCEPT !.shape_id_end = id + 1]
    BY DEF AddShape
  <1>2. /\ all \in Nat /\ sum \in Nat /\ SumTo[p] = sum + all /\ id \in Nat
        /\ SumTo[p] <= SumTo[QueuedShapes]
        /\ \A x \in Nat : /\ <<id, x>> \in Ids
                          /\ EdgesBefore(<<id, x>>) = sum + x
        /\ id - ShapeIdBegin \in 0 .. QueuedShapes
    BY EndsInShape
  <1>3. /\ max \in Nat /\ next \in Nat /\ size \in Nat /\ c \in Nat
        /\ removed \in Nat /\ SumTo[QueuedShapes] \in Nat
        /\ g.batch_begin[2] = 0 /\ c + size = removed + sum
    <2>1. removed \in Nat /\ SumTo[QueuedShapes] \in Nat
      BY SumToCounts, BatchBoundsAreNat DEF Known
    <2> QED
      BY <2>1, SizesAre, FieldsAre, ConsumedIsNat
  <1>4. GenOK(h) /\ h.batch_begin[2] = 0 /\ Consumed(h) + h.batch_size = removed + SumTo[p]
    <2> HIDE DEF max, next, size, sum, c, all, id
    <2>1. CASE all <= r
      <3>1. h = ExtendBatch(g, all)
        BY <2>1
      <3>2. size + all <= max /\ c + (size + all) = removed + (sum + all)
        BY <1>2, <1>3, <2>1
      <3> HIDE DEF h
      <3>3. /\ GenOK(h) /\ h.batch_begin = g.batch_begin
            /\ h.batch_size = size + all /\ Consumed(h) = c
        BY <1>2, <3>1, <3>2, ExtendBatchKeeps DEF size, max, c
      <3> QED
        BY <1>2, <1>3, <3>2, <3>3
    <2>2. CASE ~(all <= r) /\ all <= next
      <3> DEFINE end == <<id, 0>>
                 k == FinishBatch(g, 0, end)
      <3>1. c + size + all <= Total
        BY <1>2, <1>3 DEF Total
      <3>2. all > r
        BY <1>2, <1>3, <2>2
      <3>3. g.batch_index + 2 <= Len(max_batch_sizes_)
        BY <1>2, <3>1, <3>2, LookAheadStays DEF max, size, c
      <3>4. LookAhead(g) = g
        BY <3>3, LookAheadIs
      <3>5. h = ExtendBatch(k, all)
        BY <2>2, <3>4
      <3> HIDE DEF h
      <3>6. 0 \in Nat
        OBVIOUS
      <3>7. end \in Ids /\ EdgesBefore(end) = sum
        BY <1>2, <3>6
      <3>8. end[1] = id /\ end[2] = 0
        OBVIOUS
      <3> HIDE DEF end
      <3>9. size + 0 <= max
        BY <1>3, WithinRoom DEF size, max
      <3>10. c + size + 0 = EdgesBefore(end) + removed /\ EdgesBefore(end) <= SumTo[QueuedShapes]
        BY <1>2, <1>3, <3>7
      <3>11. EndsWell(end, Len(g.batches) + 2) /\ StaysInShape(g.batch_begin, end)
        BY <1>2, <1>3, <3>8 DEF EndsWell, StaysInShape
      <3>12. MayFinish(g, 0, end)
        BY <3>6, <3>7, <3>9, <3>10, <3>11 DEF MayFinish, size, max, c
      <3>13. /\ GenOK(k) /\ k.batch_size = 0 /\ k.batch_begin = end
             /\ k.batch_index = g.batch_index \/ k.batch_index = g.batch_index + 1
             /\ Consumed(k) = EdgesBefore(end) + removed
        BY <3>12, FinishBatchKeeps
      <3> HIDE DEF k
      <3>14. next <= max_batch_size(k) /\ max_batch_size(k) \in Nat
        <4>1. /\ max_batch_size(k) = max_batch_sizes_[k.batch_index + 1]
              /\ max_batch_size(k) \in Nat
              /\ max = max_batch_sizes_[g.batch_index + 1]
              /\ next = max_batch_sizes_[g.batch_index + 2] /\ next <= max
              /\ g.batch_index \in Nat
          BY <3>3, <3>13, SizesAre, FieldsAre DEF max, next
        <4>2. (g.batch_index + 1) + 1 = g.batch_index + 2
          BY <4>1
        <4> QED
          BY <1>3, <3>13, <4>1, <4>2
      <3>15. k.batch_size + all <= max_batch_size(k)
        BY <1>2, <1>3, <2>2, <3>13, <3>14
      <3>16. /\ GenOK(h) /\ h.batch_begin = k.batch_begin
             /\ h.batch_size = k.batch_size + all /\ Consumed(h) = Consumed(k)
        BY <1>2, <3>5, <3>13, <3>15, ExtendBatchKeeps
      <3>17. Consumed(h) + h.batch_size = removed + SumTo[p]
        BY <1>2, <1>3, <3>7, <3>13, <3>16
      <3> QED
        BY <3>8, <3>13, <3>16, <3>17
    <2>3. CASE ~(all <= r) /\ ~(all <= next)
      <3>1. h = SplitShape(g, id, all, r)
        BY <2>3
      <3> HIDE DEF h
      <3>2. all > r /\ all > next
        BY <1>2, <1>3, <2>3
      <3>3. /\ GenOK(h) /\ h.batch_size = 0 /\ h.batch_begin = <<id + 1, 0>>
            /\ Consumed(h) = removed + SumTo[p]
        BY <1>3, <3>1, <3>2, SplitShapeKeeps DEF max, next, size, sum, c, all, id
      <3>4. h.batch_begin[2] = 0
        BY <3>3
      <3>5. Consumed(h) + h.batch_size = removed + SumTo[p]
        BY <1>2, <1>3, <3>3
      <3> QED
        BY <3>3, <3>4, <3>5
    <2> QED
      BY <2>1, <2>2, <2>3
  <1>5. id + 1 \in Nat
    BY <1>2
  <1> HIDE DEF h, id
  <1>6. LET x == [h EXCEPT !.shape_id_end = id + 1]
        IN  /\ GenOK(x) /\ x.batch_begin = h.batch_begin /\ x.shape_id_end = id + 1
            /\ x.batch_size = h.batch_size /\ Consumed(x) = Consumed(h)
    BY <1>4, <1>5, EndMayMove
  <1> QED
    BY <1>1, <1>4, <1>6 DEF id

-----------------------------------------------------------------------------
(* The steps of GetUpdateBatches.                                          *)

\* What an update consists of stays the same.
LEMMA UpdateStays ==
  ASSUME UNCHANGED <<shapes, removed, max_batch_sizes_>>, Known
  PROVE  Known' /\ SumTo' = SumTo
  <1>1. SumTo' = SumTo
    BY DEF SumTo, NumEdges
  <1> QED
    BY <1>1 DEF Known, ShapesOK, SizesInv, Total

\* What is kept of a generator depends on nothing else.
LEMMA GenStays ==
  ASSUME UNCHANGED <<shapes, removed, max_batch_sizes_>>, NEW g, GenOK(g), gen' = g
  PROVE  GenOK(gen)' /\ Consumed(gen)' = Consumed(g)
  <1>1. SumTo' = SumTo
    BY DEF SumTo, NumEdges
  <1>2. \A e : EdgesBefore(e)' = EdgesBefore(e)
    BY <1>1 DEF EdgesBefore
  <1>3. Consumed(gen)' = Consumed(g)
    BY <1>2 DEF Consumed
  <1>4. WithinSizes(gen)'
    BY <1>3 DEF GenOK, WithinSizes
  <1>5. \A e, n : EndsWell(e, n)' <=> EndsWell(e, n)
    BY DEF EndsWell
  <1>6. \A b \in 1 .. Len(g.batches) : BatchOK(g.batches, b)'
    <2> TAKE b \in 1 .. Len(g.batches)
    <2>1. BatchOK(g.batches, b)
      BY DEF GenOK
    <2> QED
      BY <1>2, <1>5, <2>1 DEF BatchOK, StaysInShape
  <1>7. \A b \in 1 .. Len(gen'.batches) : BatchOK(gen.batches, b)'
    BY <1>6
  <1> QED
    BY <1>3, <1>4, <1>7 DEF GenOK, Gens

LEMMA InitBatches == BatchesInit => BatchesInv
  <1> SUFFICES ASSUME BatchesInit PROVE BatchesInv
    OBVIOUS
  <1>1. ShapesOK
    BY DEF BatchesInit, ShapesOK
  <1>2. /\ removed \in Nat /\ position = 1 /\ gen = InitialGen(removed) /\ finished = FALSE
        /\ QueuedShapes \in Nat /\ ShapeIdBegin \in Nat
    BY BatchBoundsAreNat DEF BatchesInit
  <1>3. SumTo[QueuedShapes] \in Nat /\ SumTo[0] \in Nat /\ SumTo[0] = 0
    BY <1>1, <1>2, SumToCounts
  <1>4. SizesInv
    <2> DEFINE s == GetMaxBatchSizes(removed, SumTo[QueuedShapes])
    <2>1. SizesFit(s, removed, Total)
      BY <1>2, <1>3, MaxBatchSizesFit DEF Total
    <2>2. max_batch_sizes_ = DuplicateLast(s)
      BY DEF BatchesInit
    <2> HIDE DEF s
    <2> QED
      BY <1>2, <2>1, <2>2, DuplicatedSizesFit
  <1>5. Known
    BY <1>1, <1>2, <1>4 DEF Known
  <1>6. /\ gen.batch_index = 0 /\ gen.edges_left = 0 /\ gen.batch_size = removed
        /\ gen.batches = <<>> /\ gen.overruns = 0 /\ gen.shape_id_end = ShapeIdBegin
        /\ gen.batch_begin = <<ShapeIdBegin, 0>>
    BY <1>2 DEF InitialGen
  <1>7. gen \in Gens
    <2>1. <<>> \in Seq(Descriptors) /\ <<ShapeIdBegin, 0>> \in Ids /\ 0 \in Nat /\ 0 \in Int
      BY <1>2 DEF Ids
    <2> QED
      BY <1>2, <2>1 DEF InitialGen, Gens
  <1>8. Consumed(gen) = 0
    BY <1>6 DEF Consumed
  <1>9. Len(<<>>) = 0 /\ gen.batch_begin[1] = ShapeIdBegin /\ gen.batch_begin[2] = 0
    BY <1>6
  <1>10. ShapeIdBegin - ShapeIdBegin = 0 /\ 0 \in 0 .. QueuedShapes
    BY <1>2
  <1>11. WithinSizes(gen)
    <2>1. /\ max_batch_sizes_ \in Seq(Nat) /\ Len(max_batch_sizes_) \in Nat
          /\ Len(max_batch_sizes_) > 1 /\ removed <= max_batch_sizes_[1]
      BY <1>4 DEF SizesInv
    <2>2. RoomTo(max_batch_sizes_)[0] = 0
      BY <2>1, RoomCounts
    <2> QED
      BY <1>2, <1>6, <1>8, <1>9, <2>1, <2>2 DEF WithinSizes
  <1>12. GenOK(gen)
    BY <1>6, <1>7, <1>9, <1>10, <1>11 DEF GenOK
  <1>13. Consumed(gen) + gen.batch_size = removed + SumTo[0]
    BY <1>2, <1>3, <1>6, <1>8
  <1>14. position - 1 = 0 /\ position \in 1 .. QueuedShapes + 1
    BY <1>2
  <1> QED
    BY <1>1, <1>2, <1>4, <1>6, <1>9, <1>10, <1>12, <1>13, <1>14 DEF BatchesInv

LEMMA AddNextShapeKeeps == BatchesInv /\ AddNextShape => BatchesInv'
  <1> SUFFICES ASSUME BatchesInv, AddNextShape PROVE BatchesInv'
    OBVIOUS
  <1> DEFINE p == position
             g == gen
             h == gen'
             end == g.shape_id_end
  <1>1. /\ UNCHANGED <<shapes, removed, max_batch_sizes_, finished>>
        /\ p <= QueuedShapes /\ position' = p + 1
        /\ h = IF shapes[p] = NoShape THEN g
               ELSE AddShape(g, ShapeIdBegin + p - 1, shapes[p])
    BY DEF AddNextShape
  <1>2. /\ Known /\ p \in 1 .. QueuedShapes + 1 /\ GenOK(g) /\ g.batch_begin[2] = 0
        /\ Consumed(g) + g.batch_size = removed + SumTo[p - 1]
        /\ end - ShapeIdBegin \in 0 .. QueuedShapes
        /\ SumTo[end - ShapeIdBegin] = SumTo[p - 1]
        /\ \A i \in 1 .. p - 1 : shapes[i] # NoShape => ShapeIdBegin + i <= end
        /\ finished => p = QueuedShapes + 1
    BY DEF BatchesInv, Known
  <1>3. /\ QueuedShapes \in Nat /\ ShapeIdBegin \in Nat /\ p \in 1 .. QueuedShapes /\ p \in Nat
        /\ end \in Nat /\ (p + 1) - 1 = p /\ p + 1 \in 1 .. QueuedShapes + 1
        /\ ~finished
    <2>1. QueuedShapes \in Nat /\ ShapeIdBegin \in Nat /\ p \in Int /\ end \in Nat
      BY <1>2, BatchBoundsAreNat, FieldsAre
    <2> QED
      BY <1>1, <1>2, <2>1
  <1>4. /\ GenOK(h) /\ h.batch_begin[2] = 0
        /\ Consumed(h) + h.batch_size = removed + SumTo[p]
        /\ h.shape_id_end - ShapeIdBegin \in 0 .. QueuedShapes
        /\ SumTo[h.shape_id_end - ShapeIdBegin] = SumTo[p]
        /\ \A i \in 1 .. p : shapes[i] # NoShape => ShapeIdBegin + i <= h.shape_id_end
    <2>1. CASE shapes[p] = NoShape
      <3>1. SumTo[p] = SumTo[p - 1]
        <4>1. /\ SumTo[p] = SumTo[p - 1] + NumEdges(p) /\ SumTo[p - 1] \in Nat
              /\ NumEdges(p) = 0
          <5>1. p - 1 \in 0 .. QueuedShapes
            BY <1>3
          <5> QED
            BY <1>2, <1>3, <2>1, <5>1, SumToCounts DEF Known, NumEdges
        <4> QED
          BY <4>1
      <3>2. \A i \in 1 .. p : shapes[i] # NoShape => i \in 1 .. p - 1
        BY <1>3, <2>1
      <3> QED
        BY <1>1, <1>2, <2>1, <3>1, <3>2
    <2>2. CASE shapes[p] # NoShape
      <3>1. Queued(p) /\ h = AddShape(g, IdAt(p), shapes[p])
        BY <1>1, <1>3, <2>2 DEF Queued, IdAt
      <3>2. /\ GenOK(h) /\ h.batch_begin[2] = 0 /\ h.shape_id_end = IdAt(p) + 1
            /\ Consumed(h) + h.batch_size = removed + SumTo[p]
        BY <1>2, <3>1, AddShapeKeeps
      <3>3. IdAt(p) + 1 = ShapeIdBegin + p
        BY <1>3 DEF IdAt
      <3> DEFINE last == h.shape_id_end
      <3>4. last = ShapeIdBegin + p
        BY <3>2, <3>3
      <3> HIDE DEF last, h
      <3>5. last - ShapeIdBegin = p /\ p \in 0 .. QueuedShapes
        BY <1>3, <3>4
      <3>6. \A i \in 1 .. p : ShapeIdBegin + i <= last
        BY <1>3, <3>4
      <3> QED
        BY <3>2, <3>5, <3>6 DEF last
    <2> QED
      BY <2>1, <2>2
  <1> HIDE DEF h
  <1>5. Known' /\ SumTo' = SumTo
    BY <1>1, <1>2, UpdateStays
  <1>6. GenOK(gen)' /\ Consumed(gen)' = Consumed(h)
    BY <1>1, <1>4, GenStays DEF h
  <1>7. position' - 1 = p /\ position' \in 1 .. QueuedShapes + 1 /\ ~finished'
    BY <1>1, <1>3
  <1> QED
    BY <1>1, <1>4, <1>5, <1>6, <1>7 DEF BatchesInv, Known, h

LEMMA FinishBatchesKeeps == BatchesInv /\ FinishBatches => BatchesInv'
  <1> SUFFICES ASSUME BatchesInv, FinishBatches PROVE BatchesInv'
    OBVIOUS
  <1> DEFINE g == gen
             h == gen'
             id == g.shape_id_end
             end == <<id, 0>>
             Q == QueuedShapes
  <1>1. /\ UNCHANGED <<shapes, removed, max_batch_sizes_, position>>
        /\ position > Q /\ h = Finish(g)
    BY DEF FinishBatches
  <1>2. /\ Known /\ position \in 1 .. Q + 1 /\ GenOK(g) /\ g.batch_begin[2] = 0
        /\ Consumed(g) + g.batch_size = removed + SumTo[position - 1]
        /\ id - ShapeIdBegin \in 0 .. Q
        /\ SumTo[id - ShapeIdBegin] = SumTo[position - 1]
        /\ \A i \in 1 .. position - 1 : shapes[i] # NoShape => ShapeIdBegin + i <= id
    BY DEF BatchesInv, Known
  <1>3. /\ Q \in Nat /\ ShapeIdBegin \in Nat /\ id \in Nat /\ position = Q + 1
        /\ position - 1 = Q
    <2>1. Q \in Nat /\ ShapeIdBegin \in Nat /\ id \in Nat
      BY <1>2, BatchBoundsAreNat, FieldsAre
    <2> QED
      BY <1>1, <1>2, <2>1
  <1>4. /\ GenOK(h) /\ h.batch_begin[2] = 0 /\ h.shape_id_end = id
        /\ Consumed(h) + h.batch_size = removed + SumTo[Q]
        /\ h.batches # <<>> /\ h.batch_begin[1] = id
    <2>1. CASE g.batches = <<>> \/ id # g.batch_begin[1]
      <3> DEFINE size == g.batch_size
                 c == Consumed(g)
                 all == SumTo[Q]
      <3>1. h = FinishBatch(g, 0, end)
        BY <1>1, <2>1 DEF Finish
      <3>2. /\ size \in Nat /\ c \in Nat /\ all \in Nat /\ removed \in Nat
            /\ c + size = removed + all /\ SumTo[id - ShapeIdBegin] = all
        <4>1. all \in Nat /\ removed \in Nat
          BY <1>2, <1>3, SumToCounts DEF Known
        <4> QED
          BY <1>2, <1>3, <4>1, FieldsAre, ConsumedIsNat
      <3>3. end[1] = id /\ end[2] = 0 /\ 0 \in Nat
        OBVIOUS
      <3>4. end \in Ids
        BY <1>3 DEF Ids
      <3> HIDE DEF id, end, h, Q
      <3>5. EdgesBefore(end) = all
        <4>1. EdgesBefore(end) = SumTo[id - ShapeIdBegin] + 0
          BY <1>2, <3>3, <3>4, EdgesBeforeIs DEF Q
        <4> QED
          BY <3>2, <4>1
      <3>6. EndsWell(end, Len(g.batches) + 2) /\ StaysInShape(g.batch_begin, end)
        <4>1. ~(g.batch_begin[2] > 0)
          BY <1>2
        <4> QED
          BY <1>2, <3>3, <4>1 DEF EndsWell, StaysInShape, Q
      <3>7. c + size + 0 = EdgesBefore(end) + removed /\ EdgesBefore(end) <= SumTo[QueuedShapes]
        BY <3>2, <3>5 DEF Q
      <3>8. size + 0 <= max_batch_size(g)
        BY <1>2, WithinRoom
      <3>9. MayFinish(g, 0, end)
        BY <3>3, <3>4, <3>6, <3>7, <3>8 DEF MayFinish
      <3>10. /\ GenOK(h) /\ h.batch_size = 0 /\ h.batch_begin = end /\ h.batches # <<>>
             /\ h.shape_id_end = g.shape_id_end
             /\ Consumed(h) = EdgesBefore(end) + removed
        BY <1>2, <3>1, <3>9, FinishBatchKeeps
      <3>11. Consumed(h) + h.batch_size = removed + all
        BY <3>2, <3>5, <3>10
      <3> QED
        BY <3>3, <3>10, <3>11 DEF id
    <2>2. CASE ~(g.batches = <<>> \/ id # g.batch_begin[1])
      <3>1. h = g
        BY <1>1, <2>2 DEF Finish
      <3> QED
        BY <1>2, <1>3, <2>2, <3>1
    <2> QED
      BY <2>1, <2>2
  <1> HIDE DEF h
  <1>5. Known' /\ SumTo' = SumTo
    BY <1>1, <1>2, UpdateStays
  <1>6. GenOK(gen)' /\ Consumed(gen)' = Consumed(h)
    BY <1>1, <1>4, GenStays DEF h
  <1> QED
    BY <1>1, <1>2, <1>3, <1>4, <1>5, <1>6 DEF BatchesInv, Known, h

\* The invariant says all that is asked of the batches.
LEMMA InvIsExact == BatchesInv => BatchesExact
  <1> SUFFICES ASSUME BatchesInv PROVE BatchesExact
    OBVIOUS
  <1> DEFINE n == Len(gen.batches)
  <1>1. /\ Known /\ GenOK(gen) /\ gen.batch_begin[2] = 0
        /\ \A b \in 1 .. n : BatchOK(gen.batches, b)
        /\ gen.batch_begin = IF gen.batches = <<>> THEN <<ShapeIdBegin, 0>>
                             ELSE gen.batches[n].end
    BY DEF BatchesInv, GenOK, Known
  <1>2. BatchesTile
    <2>1. \A b \in 1 .. n :
            /\ gen.batches[b].begin = IF b = 1 THEN <<ShapeIdBegin, 0>>
                                      ELSE gen.batches[b - 1].end
            /\ gen.batches[b].num_edges =
                 EdgesBefore(gen.batches[b].end) - EdgesBefore(gen.batches[b].begin)
                   + (IF b = 1 THEN removed ELSE 0)
      BY <1>1 DEF BatchOK
    <2>2. ASSUME finished
          PROVE  /\ gen.batches # <<>>
                 /\ gen.batches[n].end[2] = 0
                 /\ \A i \in 1 .. QueuedShapes :
                      shapes[i] # NoShape => ShapeIdBegin + i <= gen.batches[n].end[1]
      <3>1. /\ position = QueuedShapes + 1 /\ gen.batches # <<>>
            /\ gen.batch_begin[1] = gen.shape_id_end
            /\ \A i \in 1 .. position - 1 :
                 shapes[i] # NoShape => ShapeIdBegin + i <= gen.shape_id_end
        BY <2>2 DEF BatchesInv
      <3>2. position - 1 = QueuedShapes
        BY <3>1, BatchBoundsAreNat
      <3>3. gen.batches[n].end = gen.batch_begin
        BY <1>1, <3>1
      <3> QED
        BY <1>1, <3>1, <3>2, <3>3
    <2> QED
      BY <2>1, <2>2 DEF BatchesTile, Batches
  <1>3. PartialShapesAlone
    <2> SUFFICES ASSUME NEW b \in 1 .. n
                 PROVE  LET begin == gen.batches[b].begin
                            end   == gen.batches[b].end
                        IN  /\ end[2] # 0 =>
                                 /\ shapes[end[1] - ShapeIdBegin + 1] # NoShape
                                 /\ end[2] < shapes[end[1] - ShapeIdBegin + 1]
                            /\ begin[2] > 0 => \/ end[1] = begin[1] /\ end[2] > begin[2]
                                               \/ end = <<begin[1] + 1, 0>>
      BY DEF PartialShapesAlone, Batches
    <2>1. EndsWell(gen.batches[b].end, b + 1)
          /\ StaysInShape(gen.batches[b].begin, gen.batches[b].end)
      BY <1>1 DEF BatchOK
    <2> QED
      BY <2>1 DEF EndsWell, StaysInShape
  <1>4. SplitOnlyIfNecessary
    <2> SUFFICES ASSUME NEW b \in 1 .. n, gen.batches[b].end[2] # 0
                 PROVE  \E i \in 1 .. b + 1 :
                          max_batch_sizes_[i] <
                            shapes[gen.batches[b].end[1] - ShapeIdBegin + 1]
      BY DEF SplitOnlyIfNecessary, Batches
    <2>1. EndsWell(gen.batches[b].end, b + 1)
      BY <1>1 DEF BatchOK
    <2> QED
      BY <2>1 DEF EndsWell
  <1>5. WithinBudget
    <2>1. gen.overruns = 0 /\ gen.batch_size <= max_batch_sizes_[gen.batch_index + 1]
      BY <1>1 DEF GenOK, WithinSizes
    <2>2. max_batch_size(gen) = max_batch_sizes_[gen.batch_index + 1]
      BY <1>1, SizesAre
    <2>3. \A b \in 1 .. n : \E i \in 1 .. b : gen.batches[b].num_edges <= max_batch_sizes_[i]
      BY <1>1 DEF BatchOK
    <2> QED
      BY <2>1, <2>2, <2>3 DEF WithinBudget, Batches
  <1> QED
    BY <1>2, <1>3, <1>4, <1>5 DEF BatchesExact

\* However many shapes are queued, of whatever size, and whatever the memory
\* budget: the batches GetUpdateBatches cuts leave out no edge and take none
\* twice, none is larger than its size allows, a shape is split only where it
\* is larger than a size due by then, the parts of a split shape are alone in
\* all batches but the first, and the generator never reads a size behind the
\* duplicated last one.
THEOREM BatchesCorrect == BatchesSpec => []BatchesExact
  <1>1. BatchesInv /\ [BatchesNext]_<<shapes, batch_vars>> => BatchesInv'
    <2> SUFFICES ASSUME BatchesInv, [BatchesNext]_<<shapes, batch_vars>>
                 PROVE  BatchesInv'
      OBVIOUS
    <2>1. CASE AddNextShape
      BY <2>1, AddNextShapeKeeps
    <2>2. CASE FinishBatches
      BY <2>2, FinishBatchesKeeps
    <2>3. CASE UNCHANGED <<shapes, batch_vars>>
      <3>1. /\ UNCHANGED <<shapes, removed, max_batch_sizes_>>
            /\ UNCHANGED <<position, finished>> /\ gen' = gen
        BY <2>3 DEF batch_vars
      <3>2. Known /\ GenOK(gen)
        BY DEF BatchesInv, Known
      <3>3. Known' /\ SumTo' = SumTo
        BY <3>1, <3>2, UpdateStays
      <3>4. GenOK(gen)' /\ Consumed(gen)' = Consumed(gen)
        BY <3>1, <3>2, GenStays
      <3> QED
        BY <3>1, <3>3, <3>4 DEF BatchesInv, Known
    <2> QED
      BY <2>1, <2>2, <2>3 DEF BatchesNext
  <1> QED
    BY <1>1, InitBatches, InvIsExact, PTL DEF BatchesSpec
=============================================================================
