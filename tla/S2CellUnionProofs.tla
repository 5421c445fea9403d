--------------------------- MODULE S2CellUnionProofs ---------------------------
(***************************************************************************)
(* That a cell union stands for a set of leaf cells, whatever it was built *)
(* and combined from, for any number of levels and faces.                  *)
(*                                                                         *)
(* The laws of cells come first: an id is an odd multiple of its least     *)
(* bit, so that two cells are nested or apart, and the ids of the          *)
(* descendants of a cell are those of an interval.  A vector is normalized *)
(* if and only if it is ordered and holds no family, which is what every   *)
(* operation is shown to keep.  A recursion of an operation is shown to    *)
(* exist by the rank of its places, and is then followed along that rank.  *)
(***************************************************************************)
EXTENDS S2CellUnion, FiniteSetTheorems, SequenceTheorems, WellFoundedInduction, TLAPS

-----------------------------------------------------------------------------
(* Cell ids.                                                               *)

\* What the remainder and the quotient of a multiple are.
LEMMA Multiples ==
  ASSUME NEW x \in Nat, NEW q \in Nat, NEW B \in Nat, B > 0
  PROVE  /\ (q * B) % B = 0 /\ (q * B) \div B = q
         /\ x \div B \in Nat
         /\ x % B = 0 => x = (x \div B) * B
  <1>1. x = B * (x \div B) + (x % B) /\ x % B \in 0 .. B - 1 /\ x \div B \in Nat
    <2>1. x = B * (x \div B) + (x % B)
      OBVIOUS
    <2>2. x % B \in 0 .. B - 1
      OBVIOUS
    <2>3. x \div B \in Nat
      OBVIOUS
    <2> QED
      BY <2>1, <2>2, <2>3
  <1>2. PICK y \in Nat : y = q * B
    OBVIOUS
  <1>3. y = B * (y \div B) + (y % B) /\ y % B \in 0 .. B - 1 /\ y \div B \in Nat
    <2>1. y = B * (y \div B) + (y % B)
      OBVIOUS
    <2>2. y % B \in 0 .. B - 1
      OBVIOUS
    <2>3. y \div B \in Nat
      OBVIOUS
    <2> QED
      BY <2>1, <2>2, <2>3
  <1>4. PICK d \in Nat, r \in Nat : d = y \div B /\ r = y % B
    BY <1>3
  <1>5. q * B = B * d + r /\ r < B
    BY <1>2, <1>3, <1>4
  <1>6. d = q
    <2>1. d < q => B * d + B <= q * B
      <3>1. d < q => (d + 1) * B <= q * B
        BY SMT
      <3> QED
        BY <3>1, SMT
    <2>2. d > q => B * d >= q * B + B
      <3>1. d > q => d * B >= (q + 1) * B
        BY SMT
      <3> QED
        BY <3>1, SMT
    <2> QED
      BY <1>5, <2>1, <2>2
  <1>7. r = 0
    BY <1>5, <1>6, SMT
  <1> QED
    BY <1>1, <1>2, <1>4, <1>6, <1>7

\* The least bit of a cell is that of a smaller cell an even number of times.
LEMMA LsbRatio ==
  ASSUME NEW l \in 0 .. MaxLevel, NEW m \in 0 .. MaxLevel
  PROVE  /\ lsb_for_level(l) \in Nat \ {0}
         /\ l < m => \E w \in Nat \ {0} : lsb_for_level(l) = 2 * w * lsb_for_level(m)
         /\ FaceSize = 2 * (4 ^ l * lsb_for_level(l)) /\ 4 ^ l \in Nat \ {0}
  <1>1. lsb_for_level(l) \in Nat \ {0} /\ 4 ^ l \in Nat \ {0}
    BY LevelAssumption, PowersOfFour DEF lsb_for_level
  <1>2. ASSUME l < m PROVE \E w \in Nat \ {0} : lsb_for_level(l) = 2 * w * lsb_for_level(m)
    <2> DEFINE a == MaxLevel - m
               n == m - l
    <2>1. a \in 0 .. MaxLevel /\ n \in 0 .. MaxLevel /\ n > 0 /\ n \in 0 .. MaxLevel - a
          /\ a + n = MaxLevel - l
      BY <1>2, LevelAssumption
    <2>2. /\ 4 ^ (a + n) = 4 ^ a * 4 ^ n /\ 4 ^ n \in Nat \ {0} /\ 4 ^ a \in Nat
          /\ 4 ^ n = 4 * 4 ^ (n - 1) /\ 4 ^ (n - 1) \in Nat \ {0}
      <3>1. n - 1 \in 0 .. MaxLevel
        BY <2>1, LevelAssumption
      <3> QED
        BY <2>1, <3>1, PowersOfFour
    <2> HIDE DEF a, n
    <2> DEFINE A == 4 ^ a
               N == 4 ^ n
    <2>3. PICK w \in Nat \ {0} : N = 2 * w
      <3> DEFINE Q == 4 ^ (n - 1)
      <3>1. N = 4 * Q /\ Q \in Nat \ {0}
        BY <2>2
      <3> HIDE DEF N, Q
      <3>2. N = 2 * (2 * Q) /\ 2 * Q \in Nat \ {0}
        BY <3>1
      <3> QED
        BY <3>2
    <2>4. lsb_for_level(l) = A * N /\ lsb_for_level(m) = A /\ A \in Nat
      BY <2>1, <2>2 DEF lsb_for_level, a
    <2> QED
      <3> HIDE DEF A, N
      <3>1. A * (2 * w) = 2 * w * A
        BY <2>4, SMT
      <3> QED
        BY <2>3, <2>4, <3>1
  <1>3. FaceSize = 2 * (4 ^ l * lsb_for_level(l))
    <2>1. l \in 0 .. MaxLevel /\ MaxLevel - l \in 0 .. MaxLevel - l /\ l + (MaxLevel - l) = MaxLevel
      BY LevelAssumption
    <2>2. 4 ^ (l + (MaxLevel - l)) = 4 ^ l * 4 ^ (MaxLevel - l)
      BY <2>1, PowersOfFour
    <2> QED
      BY <2>1, <2>2 DEF FaceSize, lsb_for_level
  <1> QED
    BY <1>1, <1>2, <1>3

\* A cell's id is an odd multiple of its least bit, and lies on a face.
LEMMA CellForm ==
  ASSUME NEW id \in CellIds
  PROVE  /\ level(id) \in 0 .. MaxLevel /\ lsb(id) \in Nat \ {0}
         /\ \E k \in Nat : id = (2 * k + 1) * lsb(id)
         /\ id \in Nat \ {0} /\ id < Done
  <1>0. PICK f \in 0 .. (NumFaces - 1), l \in 0 .. MaxLevel :
          id \in { f * FaceSize + (2 * k + 1) * lsb_for_level(l) : k \in 0 .. (4 ^ l - 1) }
    BY DEF CellIds
  <1>1. PICK k \in 0 .. (4 ^ l - 1) : id = f * FaceSize + (2 * k + 1) * lsb_for_level(l)
    BY <1>0
  <1> DEFINE B == lsb_for_level(l)
             c == 4 ^ l
             q == 2 * (f * c + k) + 1
  <1>2. B \in Nat \ {0} /\ c \in Nat \ {0} /\ FaceSize = 2 * (c * B) /\ l \in Nat
    BY LsbRatio, LevelAssumption
  <1>3. NumFaces \in Nat \ {0} /\ f \in Nat /\ f + 1 <= NumFaces /\ k \in Nat /\ k + 1 <= c
    BY <1>2, FacesAssumption
  <1>4. id = f * (2 * (c * B)) + (2 * k + 1) * B
    BY <1>1, <1>2
  <1> HIDE DEF B, c
  <1>5. id = q * B /\ q \in Nat /\ q % 2 = 1
    <2>1. q \in Nat
      BY <1>2, <1>3
    <2>2. id = q * B
      BY <1>2, <1>3, <1>4, SMT
    <2>3. PICK z \in Nat : z = f * c + k
      BY <1>2, <1>3
    <2>4. (2 * z + 1) % 2 = 1
      BY SMT
    <2> QED
      BY <2>1, <2>2, <2>3, <2>4
  <1> HIDE DEF q
  <1>6. id \in Nat \ {0} /\ id < Done
    <2>1. id \in Nat \ {0}
      <3>1. q * B \in Nat /\ (q # 0 => q * B # 0)
        BY <1>2, <1>5, SMT
      <3>2. q # 0
        BY <1>5
      <3> QED
        BY <1>5, <3>1, <3>2
    <2>2. (2 * k + 1) * B < 2 * (c * B)
      <3>1. (2 * k + 2) * B <= 2 * c * B
        BY <1>2, <1>3, SMT
      <3> QED
        BY <1>2, <1>3, <3>1, SMT
    <2>3. id < (f + 1) * (2 * (c * B))
      <3>1. PICK S \in Nat : S = 2 * (c * B)
        BY <1>2
      <3>2. PICK R \in Nat : R = (2 * k + 1) * B
        BY <1>2, <1>3
      <3>3. id = f * S + R /\ R < S
        BY <1>4, <2>2, <3>1, <3>2
      <3>4. id < (f + 1) * S
        BY <1>3, <3>1, <3>2, <3>3, SMT
      <3> QED
        BY <3>1, <3>4
    <2>4. (f + 1) * FaceSize <= NumFaces * FaceSize /\ FaceSize \in Nat
      <3>1. FaceSize \in Nat
        BY <1>2
      <3> QED
        BY <1>3, <3>1, SMT
    <2>5. id < NumFaces * FaceSize /\ NumFaces * FaceSize \in Nat
      BY <1>2, <1>3, <2>1, <2>3, <2>4, SMT
    <2> QED
      BY <2>1, <2>4, <2>5 DEF Done
  <1>7. id % lsb_for_level(l) = 0 /\ (id \div lsb_for_level(l)) % 2 = 1
    <2>1. (q * B) % B = 0 /\ (q * B) \div B = q
      BY <1>2, <1>5, Multiples
    <2> QED
      BY <1>5, <2>1 DEF B
  <1>8. /\ level(id) \in 0 .. MaxLevel
        /\ id % lsb_for_level(level(id)) = 0 /\ (id \div lsb_for_level(level(id))) % 2 = 1
    <2>1. l \in 0 .. MaxLevel
      OBVIOUS
    <2> QED
      BY <1>7, <2>1 DEF level
  <1>9. lsb(id) \in Nat \ {0}
    BY <1>8, LsbRatio DEF lsb
  <1>10. \E j \in Nat : id = (2 * j + 1) * lsb(id)
    <2>1. PICK L \in Nat \ {0} : L = lsb(id)
      BY <1>9
    <2>2. id % L = 0 /\ (id \div L) % 2 = 1
      BY <1>8, <2>1 DEF lsb
    <2>3. id = (id \div L) * L /\ id \div L \in Nat
      BY <1>6, <2>1, <2>2, Multiples
    <2>4. PICK p \in Nat : p = id \div L
      BY <2>3
    <2>5. PICK j \in Nat : p = 2 * j + 1
      BY <2>2, <2>4, SMT
    <2> QED
      BY <2>1, <2>3, <2>4, <2>5
  <1> QED
    BY <1>6, <1>8, <1>9, <1>10

\* Two cells are equal, or one lies in one half of the other, or they have
\* nothing in common.
Inside(x, y) == range_min(y) <= range_min(x) /\ range_max(x) <= range_max(y)

Apart(x, y) == range_max(x) < range_min(y) \/ range_max(y) < range_min(x)

LEMMA RangeForm ==
  ASSUME NEW x \in CellIds
  PROVE  /\ range_min(x) \in Nat /\ range_max(x) \in Nat
         /\ range_min(x) <= x /\ x <= range_max(x) /\ range_min(x) >= 1
         /\ range_min(x) + range_max(x) = 2 * x
  <1>1. PICK A \in Nat \ {0} : A = lsb(x)
    BY CellForm
  <1>2. PICK k \in Nat : x = (2 * k + 1) * A
    BY <1>1, CellForm
  <1>3. x \in Nat /\ x >= A
    <2>1. (2 * k + 1) * A >= A
      BY <1>1, SMT
    <2> QED
      BY <1>2, <2>1, CellForm
  <1> QED
    BY <1>1, <1>3 DEF range_min, range_max

LEMMA SmallerCell ==
  ASSUME NEW x \in CellIds, NEW y \in CellIds, level(y) < level(x)
  PROVE  (Inside(x, y) /\ ~contains(x, y)) \/ Apart(x, y)
  <1>1. PICK A \in Nat \ {0}, w \in Nat \ {0} : A = lsb(x) /\ lsb(y) = 2 * w * A
    <2>1. level(x) \in 0 .. MaxLevel /\ level(y) \in 0 .. MaxLevel
      BY CellForm
    <2> QED
      BY <2>1, LsbRatio, CellForm DEF lsb
  <1>2. PICK k \in Nat : x = (2 * k + 1) * A
    BY <1>1, CellForm
  <1>3. PICK j \in Nat : y = (2 * j + 1) * (2 * w * A)
    BY <1>1, CellForm
  <1>4. PICK u \in Nat, v \in Nat, h \in Nat : u = 2 * j * w /\ h = 2 * j * w + w
                                              /\ v = 2 * j * w + 2 * w
    OBVIOUS
  <1>5. u < h /\ h < v
    BY <1>4
  <1>6. /\ range_min(x) = 2 * k * A + 1 /\ range_max(x) = 2 * k * A + 2 * A - 1
        /\ range_min(y) = 2 * u * A + 1 /\ range_max(y) = 2 * v * A - 1
        /\ y = 2 * h * A
    <2>1. x = 2 * k * A + A
      BY <1>2, SMT
    <2>2. y = 2 * h * A /\ y - 2 * w * A = 2 * u * A /\ y + 2 * w * A = 2 * v * A
      BY <1>3, <1>4, SMT
    <2>3. PICK P \in Nat, Q \in Nat, R \in Nat, W \in Nat :
            P = 2 * k * A /\ Q = 2 * u * A /\ R = 2 * v * A /\ W = 2 * w * A
      OBVIOUS
    <2>4. x = P + A /\ y - W = Q /\ y + W = R /\ lsb(x) = A /\ lsb(y) = W
      BY <1>1, <2>1, <2>2, <2>3
    <2>5. x \in Nat /\ y \in Nat
      BY CellForm
    <2>6. range_min(x) = P + 1 /\ range_max(x) = P + 2 * A - 1
      BY <2>4, <2>5 DEF range_min, range_max
    <2>7. range_min(y) = Q + 1 /\ range_max(y) = R - 1
      BY <2>4, <2>5 DEF range_min, range_max
    <2> QED
      BY <2>2, <2>3, <2>6, <2>7
  <1>7. \A m, n \in Nat : m < n => 2 * m * A + 2 * A <= 2 * n * A
    <2> TAKE m \in Nat, n \in Nat
    <2> HAVE m < n
    <2>1. (m + 1) * A <= n * A
      BY SMT
    <2> QED
      BY <2>1, SMT
  <1> DEFINE D(m) == 2 * m * A
  <1>8. \A m, n \in Nat : D(m) \in Nat /\ (m < n => D(m) + 2 * A <= D(n))
    BY <1>7
  <1>9. /\ range_min(x) = D(k) + 1 /\ range_max(x) = D(k) + 2 * A - 1
        /\ range_min(y) = D(u) + 1 /\ range_max(y) = D(v) - 1 /\ y = D(h)
    BY <1>6
  <1> HIDE DEF D
  <1>10. CASE k < u
    BY <1>8, <1>9, <1>10 DEF Apart
  <1>11. CASE v <= k
    <2>1. D(v) <= D(k)
      BY <1>8, <1>11
    <2> QED
      BY <2>1, <1>8, <1>9 DEF Apart
  <1>12. CASE u <= k /\ k < v
    <2>1. D(u) <= D(k) /\ D(k) + 2 * A <= D(v)
      BY <1>8, <1>12
    <2>2. Inside(x, y)
      BY <2>1, <1>8, <1>9 DEF Inside
    <2>3. h <= k => D(h) <= D(k)
      BY <1>8
    <2>4. ~contains(x, y)
      BY <2>3, <1>8, <1>9 DEF contains
    <2> QED
      BY <2>2, <2>4
  <1> QED
    BY <1>10, <1>11, <1>12

LEMMA SameLevel ==
  ASSUME NEW x \in CellIds, NEW y \in CellIds, level(y) = level(x)
  PROVE  x = y \/ Apart(x, y)
  <1>1. PICK A \in Nat \ {0} : A = lsb(x) /\ A = lsb(y)
    BY CellForm DEF lsb
  <1>2. PICK k \in Nat : x = (2 * k + 1) * A
    BY <1>1, CellForm
  <1>3. PICK j \in Nat : y = (2 * j + 1) * A
    BY <1>1, CellForm
  <1>4. /\ k < j => x + 2 * A <= y
        /\ j < k => y + 2 * A <= x
    <2>1. k < j => (2 * k + 3) * A <= (2 * j + 1) * A
      BY SMT
    <2>2. j < k => (2 * j + 3) * A <= (2 * k + 1) * A
      BY SMT
    <2> QED
      BY <1>2, <1>3, <2>1, <2>2, SMT
  <1>5. x \in Nat /\ y \in Nat
    BY CellForm
  <1>6. range_min(x) = x - (A - 1) /\ range_max(x) = x + (A - 1)
        /\ range_min(y) = y - (A - 1) /\ range_max(y) = y + (A - 1)
    BY <1>1 DEF range_min, range_max
  <1> QED
    BY <1>2, <1>3, <1>4, <1>5, <1>6 DEF Apart

LEMMA Laminar ==
  ASSUME NEW x \in CellIds, NEW y \in CellIds
  PROVE  \/ x = y
         \/ Inside(x, y) /\ ~contains(x, y)
         \/ Inside(y, x) /\ ~contains(y, x)
         \/ Apart(x, y)
  <1>1. level(x) \in Nat /\ level(y) \in Nat
    BY CellForm, LevelAssumption
  <1>2. CASE level(y) < level(x)
    BY <1>2, SmallerCell
  <1>3. CASE level(x) < level(y)
    BY <1>3, SmallerCell DEF Apart
  <1>4. CASE level(x) = level(y)
    BY <1>4, SameLevel
  <1> QED
    BY <1>1, <1>2, <1>3, <1>4

\* A cell contains another one if and only if its range holds the other's, and
\* two cells that contain each other are the same.
LEMMA ContainsNests ==
  ASSUME NEW x \in CellIds, NEW y \in CellIds, contains(x, y)
  PROVE  Inside(y, x) /\ (contains(y, x) => x = y)
  <1>1. /\ range_min(x) \in Nat /\ range_max(x) \in Nat /\ range_min(y) \in Nat
        /\ range_max(y) \in Nat /\ range_min(y) <= y /\ y <= range_max(y)
        /\ range_min(x) <= x /\ x <= range_max(x) /\ x \in Nat /\ y \in Nat
    BY RangeForm, CellForm
  <1>2. ~Apart(x, y)
    BY <1>1 DEF Apart, contains
  <1>3. CASE x = y
    BY <1>1, <1>3 DEF Inside
  <1>4. CASE Inside(y, x) /\ ~contains(y, x)
    BY <1>4
  <1> QED
    BY <1>2, <1>3, <1>4, Laminar

\* Cells with a leaf cell in common are nested.
LEMMA CommonLeaf ==
  ASSUME NEW x \in CellIds, NEW y \in CellIds, NEW leaf \in Leaves(x), leaf \in Leaves(y)
  PROVE  contains(x, y) \/ contains(y, x)
  <1>1. contains(x, leaf) /\ contains(y, leaf) /\ leaf \in CellIds
    BY DEF Leaves, LeavesIn, LeafIds
  <1>2. Inside(leaf, x) /\ Inside(leaf, y)
    BY <1>1, ContainsNests
  <1>3. /\ range_min(x) \in Nat /\ range_max(x) \in Nat /\ range_min(y) \in Nat
        /\ range_max(y) \in Nat /\ range_min(y) <= y /\ y <= range_max(y)
        /\ range_min(x) <= x /\ x <= range_max(x) /\ x \in Nat /\ y \in Nat
        /\ range_min(leaf) <= leaf /\ leaf <= range_max(leaf) /\ leaf \in Nat
        /\ range_min(leaf) \in Nat /\ range_max(leaf) \in Nat
    BY <1>1, RangeForm, CellForm
  <1>4. ~Apart(x, y)
    BY <1>2, <1>3 DEF Apart, Inside
  <1>5. (x = y \/ Inside(y, x) => contains(x, y)) /\ (Inside(x, y) => contains(y, x))
    BY <1>3 DEF Inside, contains
  <1> QED
    BY <1>4, <1>5, Laminar

\* Min and Max of a set of naturals are its ends, where it has them.
LEMMA LeastIsMin ==
  ASSUME NEW S, S \subseteq Nat, S # {}
  PROVE  Min(S) \in S /\ \A y \in S : Min(S) <= y
  <1> DEFINE less == { p \in Nat \X Nat : p[1] < p[2] }
  <1>1. IsWellFoundedOn(less, Nat)
    BY NatLessThanWellFounded DEF OpToRel
  <1> HIDE DEF less
  <1>2. PICK x \in S : \A y \in S : ~(<< y, x >> \in less)
    BY <1>1, WFMin
  <1>3. \A y \in S : x <= y
    <2> TAKE y \in S
    <2>1. x \in Nat /\ y \in Nat
      OBVIOUS
    <2>2. y < x => << y, x >> \in less
      BY <2>1 DEF less
    <2> QED
      BY <1>2, <2>1, <2>2
  <1> QED
    BY <1>3 DEF Min

LEMMA GreatestIsMax ==
  ASSUME NEW n \in Nat, NEW S, S \subseteq 0 .. n, S # {}
  PROVE  Max(S) \in S /\ \A y \in S : y <= Max(S)
  <1> DEFINE T == { n - x : x \in S }
  <1>1. T \subseteq Nat /\ T # {}
    <2>1. \A x \in S : n - x \in Nat
      OBVIOUS
    <2> QED
      BY <2>1
  <1>2. Min(T) \in T /\ \A t \in T : Min(T) <= t
    <2> HIDE DEF T
    <2> QED
      BY <1>1, LeastIsMin
  <1>3. PICK x \in S : Min(T) = n - x
    BY <1>2
  <1>4. \A y \in S : y <= x
    <2> TAKE y \in S
    <2>1. n - y \in T
      OBVIOUS
    <2>2. n - x <= n - y
      BY <1>2, <1>3, <2>1
    <2> QED
      BY <2>2
  <1> QED
    BY <1>4 DEF Max

\* What is known of two cells in a form that arithmetic can use.
LEMMA CellFacts ==
  ASSUME NEW x \in CellIds
  PROVE  /\ x \in Nat /\ Done \in Nat /\ x < Done
         /\ range_min(x) \in Nat /\ range_max(x) \in Nat
         /\ range_min(x) <= x /\ x <= range_max(x)
  <1>1. Done \in Nat
    <2>1. FaceSize \in Nat
      BY LsbRatio, LevelAssumption
    <2> QED
      BY <2>1, FacesAssumption DEF Done
  <1> QED
    BY <1>1, CellForm, RangeForm

LEMMA LeavesAreCells ==
  ASSUME NEW a \in LeafIds
  PROVE  a \in CellIds /\ a \in Nat
  <1>1. a \in CellIds
    BY DEF LeafIds
  <1> QED
    BY <1>1, CellFacts

-----------------------------------------------------------------------------
(* Where a cell lies on its face, and its leaf cells.                      *)

\* A positive factor cancels.
LEMMA Cancel ==
  ASSUME NEW x \in Nat, NEW y \in Nat, NEW A \in Nat \ {0}, x * A = y * A
  PROVE  x = y
  <1>1. x < y => x * A + A <= y * A
    <2>1. x < y => (x + 1) * A <= y * A
      BY SMT
    <2> QED
      BY <2>1, SMT
  <1>2. y < x => y * A + A <= x * A
    <2>1. y < x => (y + 1) * A <= x * A
      BY SMT
    <2> QED
      BY <2>1, SMT
  <1>3. PICK X \in Nat, Y \in Nat : X = x * A /\ Y = y * A
    OBVIOUS
  <1> QED
    BY <1>1, <1>2, <1>3

\* What divides a number an odd number of times is its least bit.
LEMMA LevelIs ==
  ASSUME NEW l \in 0 .. MaxLevel, NEW n, NEW p \in Nat, n = (2 * p + 1) * lsb_for_level(l)
  PROVE  level(n) = l
  <1>1. \A m, k \in 0 .. MaxLevel, u, v \in Nat :
          m < k => (2 * u + 1) * lsb_for_level(m) # (2 * v + 1) * lsb_for_level(k)
    <2> TAKE m \in 0 .. MaxLevel, k \in 0 .. MaxLevel, u \in Nat, v \in Nat
    <2> SUFFICES ASSUME m < k, (2 * u + 1) * lsb_for_level(m) = (2 * v + 1) * lsb_for_level(k)
                 PROVE  FALSE
      OBVIOUS
    <2>1. PICK A \in Nat \ {0} : A = lsb_for_level(k)
      BY LsbRatio
    <2>2. PICK w \in Nat \ {0} : lsb_for_level(m) = 2 * w * A
      BY <2>1, LsbRatio
    <2>3. PICK z \in Nat : z = (2 * u + 1) * w
      OBVIOUS
    <2>4. (2 * z) * A = (2 * v + 1) * A
      <3>1. (2 * u + 1) * (2 * w * A) = (2 * v + 1) * A
        BY <2>1, <2>2
      <3>2. (2 * u + 1) * (2 * w * A) = (2 * ((2 * u + 1) * w)) * A
        BY SMT
      <3> QED
        BY <2>3, <3>1, <3>2
    <2>5. 2 * z = 2 * v + 1
      BY <2>4, Cancel
    <2> QED
      BY <2>5
  <1> DEFINE IsLevel(m) == n % lsb_for_level(m) = 0 /\ (n \div lsb_for_level(m)) % 2 = 1
  <1>2. n \in Nat
    <2>1. PICK B \in Nat \ {0} : B = lsb_for_level(l)
      BY LsbRatio
    <2>2. (2 * p + 1) * B \in Nat
      OBVIOUS
    <2> QED
      BY <2>1, <2>2
  <1>3. IsLevel(l)
    <2>1. PICK B \in Nat \ {0} : B = lsb_for_level(l)
      BY LsbRatio
    <2>2. PICK q \in Nat : q = 2 * p + 1
      OBVIOUS
    <2>3. (q * B) % B = 0 /\ (q * B) \div B = q
      BY <2>1, Multiples
    <2>4. (2 * p + 1) % 2 = 1
      BY SMT
    <2> QED
      BY <2>1, <2>2, <2>3, <2>4
  <1>4. level(n) \in 0 .. MaxLevel /\ IsLevel(level(n))
    BY <1>3 DEF level
  <1>5. ASSUME NEW m \in 0 .. MaxLevel, IsLevel(m)
        PROVE  \E j \in Nat : n = (2 * j + 1) * lsb_for_level(m)
    <2>1. PICK B \in Nat \ {0} : B = lsb_for_level(m)
      BY LsbRatio
    <2>2. n % B = 0 /\ (n \div B) % 2 = 1
      BY <1>5, <2>1
    <2>3. n = (n \div B) * B /\ n \div B \in Nat
      BY <1>2, <2>1, <2>2, Multiples
    <2>4. PICK q \in Nat : q = n \div B
      BY <2>3
    <2>5. PICK j \in Nat : q = 2 * j + 1
      BY <2>2, <2>4, SMT
    <2> QED
      BY <2>1, <2>3, <2>4, <2>5
  <1> HIDE DEF IsLevel
  <1>6. PICK j \in Nat : n = (2 * j + 1) * lsb_for_level(level(n))
    BY <1>4, <1>5
  <1>7. PICK m \in 0 .. MaxLevel : m = level(n)
    BY <1>4
  <1>8. ~(m < l) /\ ~(l < m)
    BY <1>1, <1>6, <1>7
  <1> QED
    BY <1>7, <1>8, LevelAssumption

\* A cell of a level is one of those that divide a face evenly.
LEMMA CellOnFace ==
  ASSUME NEW f \in 0 .. (NumFaces - 1), NEW l \in 0 .. MaxLevel, NEW k \in 0 .. (4 ^ l - 1),
         NEW id, id = f * FaceSize + (2 * k + 1) * lsb_for_level(l)
  PROVE  id \in CellIds /\ level(id) = l /\ lsb(id) = lsb_for_level(l)
  <1>1. id \in CellIds
    <2> DEFINE Cells(g, m) == { g * FaceSize + (2 * i + 1) * lsb_for_level(m) : i \in 0 .. (4 ^ m - 1) }
    <2>1. id \in Cells(f, l)
      OBVIOUS
    <2>2. CellIds = UNION { Cells(g, m) : g \in 0 .. (NumFaces - 1), m \in 0 .. MaxLevel }
      BY DEF CellIds
    <2> HIDE DEF Cells
    <2>3. Cells(f, l) \in { Cells(g, m) : g \in 0 .. (NumFaces - 1), m \in 0 .. MaxLevel }
      OBVIOUS
    <2> QED
      BY <2>1, <2>2, <2>3
  <1> DEFINE B == lsb_for_level(l)
             c == 4 ^ l
  <1>2. B \in Nat \ {0} /\ c \in Nat \ {0} /\ FaceSize = 2 * (c * B) /\ l \in Nat
    BY LsbRatio, LevelAssumption
  <1>3. f \in Nat /\ k \in Nat /\ id = f * (2 * (c * B)) + (2 * k + 1) * B
    BY <1>2, FacesAssumption
  <1>4. id = (2 * (f * c + k) + 1) * B /\ f * c + k \in Nat
    <2> HIDE DEF B, c
    <2>1. f * c + k \in Nat
      BY <1>2, <1>3
    <2>2. \A F, C, K, D \in Nat : F * (2 * (C * D)) + (2 * K + 1) * D = (2 * (F * C + K) + 1) * D
      BY SMT
    <2> QED
      BY <1>2, <1>3, <2>1, <2>2
  <1>5. level(id) = l
    BY <1>1, <1>4, LevelIs
  <1> QED
    BY <1>1, <1>5 DEF lsb

LEMMA FaceOfCell ==
  ASSUME NEW id \in CellIds
  PROVE  \E f \in 0 .. (NumFaces - 1), k \in 0 .. (4 ^ level(id) - 1) :
           id = f * FaceSize + (2 * k + 1) * lsb(id)
  <1>1. PICK f \in 0 .. (NumFaces - 1), l \in 0 .. MaxLevel :
          id \in { f * FaceSize + (2 * k + 1) * lsb_for_level(l) : k \in 0 .. (4 ^ l - 1) }
    BY DEF CellIds
  <1>2. PICK k \in 0 .. (4 ^ l - 1) : id = f * FaceSize + (2 * k + 1) * lsb_for_level(l)
    BY <1>1
  <1>3. level(id) = l /\ lsb(id) = lsb_for_level(l)
    BY <1>2, CellOnFace
  <1> QED
    BY <1>2, <1>3

\* The least cells have the least bit 1: they are the odd numbers of a face.
LEMMA LeastBit == lsb_for_level(MaxLevel) = 1
  <1>1. 0 \in 0 .. MaxLevel /\ 0 \in 0 .. MaxLevel - 0 /\ 0 + 0 = 0 /\ MaxLevel - MaxLevel = 0
    BY LevelAssumption
  <1>2. 4 ^ 0 \in Nat \ {0} /\ 4 ^ (0 + 0) = 4 ^ 0 * 4 ^ 0
    BY <1>1, PowersOfFour
  <1> DEFINE X == 4 ^ 0
  <1>3. X \in Nat \ {0} /\ X = X * X
    BY <1>1, <1>2
  <1>4. X = 1
    <2> HIDE DEF X
    <2>1. 1 * X = X * X /\ 1 \in Nat
      BY <1>3
    <2> QED
      BY <1>3, <2>1, Cancel
  <1> QED
    BY <1>1, <1>4 DEF lsb_for_level

LEMMA LeafOnFace ==
  ASSUME NEW f \in 0 .. (NumFaces - 1), NEW i \in Nat, NEW n \in Nat, n = 2 * i + 1,
         f * FaceSize < n, n < f * FaceSize + FaceSize
  PROVE  n \in LeafIds /\ lsb(n) = 1
  <1>1. FaceSize = 2 * 4 ^ MaxLevel /\ 4 ^ MaxLevel \in Nat \ {0} /\ f \in Nat
        /\ MaxLevel \in 0 .. MaxLevel
    BY LevelAssumption, PowersOfFour, FacesAssumption DEF FaceSize
  <1> DEFINE c == 4 ^ MaxLevel
             k == i - f * c
  <1>2. k \in 0 .. (c - 1) /\ n = f * FaceSize + (2 * k + 1) * 1
    <2>1. FaceSize = 2 * c /\ c \in Nat \ {0}
      BY <1>1
    <2> HIDE DEF c
    <2>2. f * FaceSize = 2 * (f * c) /\ f * c \in Nat
      <3>1. \A g, d \in Nat : g * (2 * d) = 2 * (g * d)
        BY SMT
      <3>2. f \in Nat /\ c \in Nat
        BY <1>1, <2>1
      <3>3. f * (2 * c) = 2 * (f * c)
        BY <3>1, <3>2
      <3> QED
        BY <2>1, <3>2, <3>3
    <2>3. PICK F \in Nat : F = f * c
      BY <2>2
    <2> QED
      BY <2>1, <2>2, <2>3
  <1>3. n \in CellIds /\ lsb(n) = 1
    BY <1>1, <1>2, CellOnFace, LeastBit
  <1> QED
    BY <1>3 DEF LeafIds, is_leaf

\* The odd numbers in the range of a cell are its leaf cells.
LEMMA OddIsLeafOf ==
  ASSUME NEW x \in CellIds, NEW i \in Nat, NEW n \in Nat, n = 2 * i + 1, contains(x, n)
  PROVE  n \in LeafIds /\ n \in Leaves(x) /\ lsb(n) = 1
  <1>1. PICK f \in 0 .. (NumFaces - 1), k \in 0 .. (4 ^ level(x) - 1) :
          x = f * FaceSize + (2 * k + 1) * lsb(x)
    BY FaceOfCell
  <1> DEFINE B == lsb(x)
             c == 4 ^ level(x)
             F == f * FaceSize
             K == (2 * k + 1) * B
  <1>2. B \in Nat \ {0} /\ c \in Nat \ {0} /\ FaceSize = 2 * (c * B) /\ k \in 0 .. (c - 1)
    <2>1. level(x) \in 0 .. MaxLevel
      BY CellForm
    <2> QED
      BY <2>1, LsbRatio DEF lsb
  <1>3. F \in Nat /\ FaceSize \in Nat
    BY <1>2, FacesAssumption
  <1>4. K \in Nat /\ K >= B /\ K + B <= FaceSize
    <2> HIDE DEF B, c
    <2>1. (2 * k + 1) * B >= B
      BY <1>2, SMT
    <2>2. (2 * k + 2) * B <= 2 * (c * B)
      <3>1. (k + 1) * B <= c * B
        BY <1>2, SMT
      <3> QED
        BY <1>2, <3>1, SMT
    <2>3. (2 * k + 2) * B = K + B /\ K \in Nat
      BY <1>2, SMT
    <2> QED
      BY <1>2, <2>1, <2>2, <2>3
  <1>5. x = F + K
    BY <1>1
  <1> HIDE DEF B, c, F, K
  <1>6. range_min(x) = F + K - (B - 1) /\ range_max(x) = F + K + (B - 1)
    BY <1>2, <1>3, <1>4, <1>5 DEF range_min, range_max, B
  <1>7. F < n /\ n < F + FaceSize
    BY <1>2, <1>3, <1>4, <1>6 DEF contains
  <1>8. n \in LeafIds /\ lsb(n) = 1
    BY <1>7, LeafOnFace DEF F
  <1> QED
    BY <1>8 DEF Leaves, LeavesIn

\* A cell starts and ends with a leaf cell.
LEMMA OddBounds ==
  ASSUME NEW x \in CellIds
  PROVE  /\ \E i \in Nat : range_min(x) = 2 * i + 1
         /\ \E i \in Nat : range_max(x) = 2 * i + 1
         /\ \E A \in Nat \ {0} : range_min(x) = x - (A - 1) /\ range_max(x) = x + (A - 1)
  <1>1. PICK A \in Nat \ {0} : A = lsb(x)
    BY CellForm
  <1>2. PICK k \in Nat : x = (2 * k + 1) * A
    BY <1>1, CellForm
  <1>3. PICK C \in Nat : C = k * A
    BY <1>1
  <1>4. x = 2 * C + A
    <2>1. (2 * k + 1) * A = 2 * (k * A) + A
      BY <1>1, SMT
    <2> QED
      BY <1>2, <1>3, <2>1
  <1>5. range_min(x) = x - (A - 1) /\ range_max(x) = x + (A - 1)
    BY <1>1 DEF range_min, range_max
  <1>6. range_min(x) = 2 * C + 1 /\ range_max(x) = 2 * (C + A - 1) + 1 /\ C + A - 1 \in Nat
    BY <1>3, <1>4, <1>5
  <1> QED
    BY <1>1, <1>3, <1>5, <1>6

LEMMA BoundsAreLeaves ==
  ASSUME NEW x \in CellIds
  PROVE  /\ range_min(x) \in LeafIds /\ range_min(x) \in Leaves(x)
         /\ range_max(x) \in LeafIds /\ range_max(x) \in Leaves(x) /\ lsb(range_max(x)) = 1
  <1>1. contains(x, range_min(x)) /\ contains(x, range_max(x))
    BY CellFacts DEF contains
  <1>2. range_min(x) \in Nat /\ range_max(x) \in Nat
    BY CellFacts
  <1>3. PICK i \in Nat : range_min(x) = 2 * i + 1
    BY OddBounds
  <1>4. PICK j \in Nat : range_max(x) = 2 * j + 1
    BY OddBounds
  <1>5. range_min(x) \in LeafIds /\ range_min(x) \in Leaves(x)
    BY <1>1, <1>2, <1>3, OddIsLeafOf
  <1>6. range_max(x) \in LeafIds /\ range_max(x) \in Leaves(x) /\ lsb(range_max(x)) = 1
    BY <1>1, <1>2, <1>4, OddIsLeafOf
  <1> QED
    BY <1>5, <1>6

\* The leaf cells of a nested cell.
LEMMA LeavesNest ==
  ASSUME NEW x \in CellIds, NEW y \in CellIds, contains(x, y)
  PROVE  Leaves(y) \subseteq Leaves(x)
  <1>1. range_min(x) <= range_min(y) /\ range_max(y) <= range_max(x)
    BY ContainsNests DEF Inside
  <1>2. /\ range_min(x) \in Nat /\ range_min(y) \in Nat
        /\ range_max(x) \in Nat /\ range_max(y) \in Nat
    BY CellFacts
  <1>3. \A leaf \in LeafIds : leaf \in Nat /\ (contains(y, leaf) => contains(x, leaf))
    <2> TAKE leaf \in LeafIds
    <2>1. leaf \in Nat
      BY LeavesAreCells
    <2> QED
      BY <1>1, <1>2, <2>1 DEF contains
  <1> QED
    BY <1>3 DEF Leaves, LeavesIn

\* What the least bits of two cells that overlap say.
LEMMA Overlap ==
  ASSUME NEW x \in CellIds, NEW y \in CellIds, intersects(x, y)
  PROVE  /\ contains(x, y) \/ contains(y, x)
         /\ lsb(x) > lsb(y) => contains(x, y) /\ x # y
         /\ lsb(x) = lsb(y) => x = y
  <1>1. /\ range_min(x) \in Nat /\ range_max(x) \in Nat /\ range_min(y) \in Nat
        /\ range_max(y) \in Nat /\ range_min(y) <= y /\ y <= range_max(y)
        /\ range_min(x) <= x /\ x <= range_max(x) /\ x \in Nat /\ y \in Nat
    BY CellFacts
  <1>2. ~Apart(x, y)
    BY <1>1 DEF Apart, intersects
  <1>3. (x = y \/ Inside(y, x) => contains(x, y)) /\ (Inside(x, y) => contains(y, x))
    BY <1>1 DEF Inside, contains
  <1>4. contains(x, y) \/ contains(y, x)
    BY <1>2, <1>3, Laminar
  <1>5. level(x) \in 0 .. MaxLevel /\ level(y) \in 0 .. MaxLevel
    BY CellForm
  <1>6. \A l, m \in 0 .. MaxLevel : l < m => lsb_for_level(l) > lsb_for_level(m)
    <2> TAKE l \in 0 .. MaxLevel, m \in 0 .. MaxLevel
    <2> HAVE l < m
    <2>1. PICK A \in Nat \ {0} : A = lsb_for_level(m)
      BY LsbRatio
    <2>2. PICK w \in Nat \ {0} : lsb_for_level(l) = 2 * w * A
      BY <2>1, LsbRatio
    <2>3. 2 * w * A > A
      <3>1. w * A >= 1 * A
        BY SMT
      <3> QED
        BY <3>1, SMT
    <2> QED
      BY <2>1, <2>2, <2>3
  <1>7. \A l \in 0 .. MaxLevel : lsb_for_level(l) \in Nat
    BY LsbRatio
  <1>8. lsb(x) > lsb(y) => contains(x, y) /\ x # y
    <2> SUFFICES ASSUME lsb(x) > lsb(y) PROVE contains(x, y) /\ x # y
      OBVIOUS
    <2>1. level(x) < level(y)
      BY <1>5, <1>6, <1>7 DEF lsb
    <2> QED
      BY <2>1, <1>2, <1>3, <1>5, SmallerCell DEF Apart
  <1>9. lsb(x) = lsb(y) => x = y
    <2> SUFFICES ASSUME lsb(x) = lsb(y) PROVE x = y
      OBVIOUS
    <2>1. level(x) = level(y)
      BY <1>5, <1>6, <1>7 DEF lsb
    <2> QED
      BY <2>1, <1>2, SameLevel
  <1> QED
    BY <1>4, <1>8, <1>9

\* A cell overlaps what is in it, and whatever that overlaps.
LEMMA NestedOverlap ==
  ASSUME NEW x \in CellIds, NEW y \in CellIds, contains(x, y)
  PROVE  /\ intersects(x, y) /\ intersects(y, x)
         /\ \A c \in CellIds : intersects(y, c) => intersects(x, c) /\ intersects(c, x)
  <1>1. range_min(x) <= range_min(y) /\ range_max(y) <= range_max(x)
    BY ContainsNests DEF Inside
  <1>2. /\ range_min(x) \in Nat /\ range_min(y) \in Nat /\ x \in Nat /\ y \in Nat
        /\ range_max(x) \in Nat /\ range_max(y) \in Nat
        /\ range_min(y) <= y /\ y <= range_max(y)
    BY CellFacts
  <1>3. \A c \in CellIds : range_min(c) \in Nat /\ range_max(c) \in Nat
    BY CellFacts
  <1> QED
    BY <1>1, <1>2, <1>3 DEF intersects

\* Two cells with a leaf cell in common overlap.
LEMMA SharedOverlap ==
  ASSUME NEW x \in CellIds, NEW y \in CellIds, NEW leaf \in Leaves(x), leaf \in Leaves(y)
  PROVE  intersects(x, y) /\ intersects(y, x)
  <1>1. contains(x, y) \/ contains(y, x)
    BY CommonLeaf
  <1> QED
    BY <1>1, NestedOverlap

-----------------------------------------------------------------------------
(* ChildrenTile.                                                               *)

LEMMA ChildForm ==
  ASSUME NEW id \in CellIds, lsb(id) # 1, NEW n \in 0 .. 3
  PROVE  /\ child(id, n) \in CellIds /\ level(child(id, n)) = level(id) + 1
         /\ \E M \in Nat \ {0} : /\ lsb(id) = 4 * M /\ lsb(child(id, n)) = M
                                 /\ child(id, n) = id + (2 * n - 3) * M
  <1> DEFINE l == level(id)
             M == lsb_for_level(l + 1)
             c == 4 ^ l
  <1>1. l \in 0 .. MaxLevel /\ l < MaxLevel
    <2>1. l \in 0 .. MaxLevel
      BY CellForm
    <2>2. l # MaxLevel
      BY LeastBit DEF lsb
    <2> QED
      BY <2>1, <2>2, LevelAssumption
  <1>2. lsb(id) = 4 * M /\ M \in Nat \ {0}
    <2>1. /\ MaxLevel - l \in 0 .. MaxLevel /\ MaxLevel - l > 0
          /\ (MaxLevel - l) - 1 = MaxLevel - (l + 1) /\ l + 1 \in 0 .. MaxLevel
      BY <1>1, LevelAssumption
    <2>2. 4 ^ (MaxLevel - l) = 4 * 4 ^ ((MaxLevel - l) - 1)
      BY <2>1, PowersOfFour
    <2> QED
      BY <2>1, <2>2, LsbRatio DEF lsb, lsb_for_level
  <1>3. 4 ^ (l + 1) = 4 * c /\ c \in Nat \ {0}
    <2>1. l + 1 \in 0 .. MaxLevel /\ l + 1 > 0 /\ (l + 1) - 1 = l
      BY <1>1, LevelAssumption
    <2> QED
      BY <1>1, <2>1, PowersOfFour
  <1>4. PICK f \in 0 .. (NumFaces - 1), k \in 0 .. (c - 1) : id = f * FaceSize + (2 * k + 1) * lsb(id)
    BY FaceOfCell
  <1>5. child(id, n) = id + (2 * n - 3) * M
    <2>1. lsb(id) \div 4 = M
      <3> HIDE DEF M
      <3> QED
        BY <1>2
    <2>2. 2 * n + 1 - 4 = 2 * n - 3
      OBVIOUS
    <2> QED
      BY <2>1, <2>2 DEF child
  <1>6. FaceSize \in Nat /\ f \in Nat
    BY LsbRatio, LevelAssumption, FacesAssumption
  <1> DEFINE F == f * FaceSize
             j == 4 * k + n
  <1>7. child(id, n) = F + (2 * j + 1) * M /\ j \in 0 .. (4 ^ (l + 1) - 1)
    <2> HIDE DEF M, c, l
    <2>1. F \in Nat /\ k \in Nat /\ k + 1 <= c /\ n \in Nat /\ n <= 3
      BY <1>3, <1>4, <1>6
    <2> HIDE DEF F
    <2>2. id = F + (2 * k + 1) * (4 * M)
      BY <1>2, <1>4 DEF F
    <2>3. F + (2 * k + 1) * (4 * M) + (2 * n - 3) * M = F + (2 * (4 * k + n) + 1) * M
      BY <1>2, <2>1, SMT
    <2>4. 4 * k + n \in 0 .. (4 * c - 1)
      BY <1>3, <2>1
    <2> QED
      BY <1>3, <1>5, <2>2, <2>3, <2>4
  <1>8. child(id, n) \in CellIds /\ level(child(id, n)) = l + 1 /\ lsb(child(id, n)) = M
    <2>1. l + 1 \in 0 .. MaxLevel
      BY <1>1, LevelAssumption
    <2> HIDE DEF j, l
    <2> QED
      BY <1>7, <2>1, CellOnFace
  <1> QED
    BY <1>2, <1>5, <1>8

\* A cell other than its child is in one of its children.
LEMMA ChildHas ==
  ASSUME NEW id \in CellIds, NEW d \in CellIds, contains(id, d), d # id
  PROVE  /\ lsb(id) # 1
         /\ \E n \in 0 .. 3 : contains(child(id, n), d)
  <1> DEFINE r == range_min(d)
  <1>1. lsb(id) # 1
    <2>1. id \in Nat /\ d \in Nat
      BY CellFacts
    <2>2. lsb(id) = 1 => range_min(id) = id /\ range_max(id) = id
      BY <2>1 DEF range_min, range_max
    <2> QED
      BY <2>1, <2>2 DEF contains
  <1>2. \A n \in 0 .. 3 :
          /\ child(id, n) \in CellIds /\ level(child(id, n)) = level(id) + 1
          /\ \E M \in Nat \ {0} : /\ lsb(id) = 4 * M /\ lsb(child(id, n)) = M
                                  /\ child(id, n) = id + (2 * n - 3) * M
    BY <1>1, ChildForm
  <1>3. PICK M \in Nat \ {0} : lsb(id) = 4 * M
    <2>1. 0 \in 0 .. 3
      OBVIOUS
    <2> QED
      BY <1>2, <2>1
  <1>4. PICK p \in Nat : id = (2 * p + 1) * lsb(id)
    BY CellForm
  <1>5. PICK I \in Nat : id = 4 * I
    <2>1. (2 * p + 1) * (4 * M) = 4 * ((2 * p + 1) * M) /\ (2 * p + 1) * M \in Nat
      BY SMT
    <2> QED
      BY <1>3, <1>4, <2>1
  <1>6. PICK i \in Nat : r = 2 * i + 1
    BY OddBounds
  <1>7. range_min(id) <= r /\ r <= range_max(id)
    <2>1. range_min(id) <= range_min(d) /\ range_max(d) <= range_max(id)
      BY ContainsNests DEF Inside
    <2>2. /\ range_min(d) \in Nat /\ range_max(d) \in Nat /\ range_min(d) <= d /\ d <= range_max(d)
          /\ range_min(id) \in Nat /\ range_max(id) \in Nat /\ d \in Nat
      BY CellFacts
    <2> QED
      BY <2>1, <2>2
  <1>8. range_min(id) = id - (4 * M - 1) /\ range_max(id) = id + (4 * M - 1)
    BY <1>3 DEF range_min, range_max
  <1>9. \A n \in 0 .. 3 : /\ range_min(child(id, n)) = (id + (2 * n - 3) * M) - (M - 1)
                          /\ range_max(child(id, n)) = (id + (2 * n - 3) * M) + (M - 1)
    <2> TAKE n \in 0 .. 3
    <2>1. PICK N \in Nat \ {0} : /\ lsb(id) = 4 * N /\ lsb(child(id, n)) = N
                                 /\ child(id, n) = id + (2 * n - 3) * N
      BY <1>2
    <2>2. N = M
      BY <1>3, <2>1
    <2>3. /\ range_min(child(id, n)) = child(id, n) - (lsb(child(id, n)) - 1)
          /\ range_max(child(id, n)) = child(id, n) + (lsb(child(id, n)) - 1)
      BY DEF range_min, range_max
    <2>4. child(id, n) = id + (2 * n - 3) * M /\ lsb(child(id, n)) = M
      BY <2>1, <2>2
    <2> QED
      BY <2>3, <2>4
  <1>10. \E n \in 0 .. 3 : range_min(child(id, n)) <= r /\ r <= range_max(child(id, n))
    <2> HIDE DEF r
    <2>1. r \in Nat /\ r # id - 2 * M /\ r # id /\ r # id + 2 * M
      BY <1>5, <1>6
    <2>2. /\ range_min(child(id, 0)) = id - 4 * M + 1 /\ range_max(child(id, 0)) = id - 2 * M - 1
          /\ range_min(child(id, 1)) = id - 2 * M + 1 /\ range_max(child(id, 1)) = id - 1
          /\ range_min(child(id, 2)) = id + 1 /\ range_max(child(id, 2)) = id + 2 * M - 1
          /\ range_min(child(id, 3)) = id + 2 * M + 1 /\ range_max(child(id, 3)) = id + 4 * M - 1
      BY <1>5, <1>9
    <2>3. 0 \in 0 .. 3 /\ 1 \in 0 .. 3 /\ 2 \in 0 .. 3 /\ 3 \in 0 .. 3
      OBVIOUS
    <2>4. CASE r < id - 2 * M
      BY <1>5, <1>7, <1>8, <2>1, <2>2, <2>3, <2>4
    <2>5. CASE id - 2 * M < r /\ r < id
      BY <1>5, <1>7, <1>8, <2>1, <2>2, <2>3, <2>5
    <2>6. CASE id < r /\ r < id + 2 * M
      BY <1>5, <1>7, <1>8, <2>1, <2>2, <2>3, <2>6
    <2>7. CASE id + 2 * M < r
      BY <1>5, <1>7, <1>8, <2>1, <2>2, <2>3, <2>7
    <2> QED
      BY <1>5, <2>1, <2>4, <2>5, <2>6, <2>7
  <1>11. PICK n \in 0 .. 3 : range_min(child(id, n)) <= r /\ r <= range_max(child(id, n))
    BY <1>10
  <1> DEFINE ch == child(id, n)
  <1>12. ch \in CellIds /\ level(ch) = level(id) + 1
    BY <1>2
  <1>13. level(id) < level(d)
    <2>1. level(id) \in 0 .. MaxLevel /\ level(d) \in 0 .. MaxLevel
      BY CellForm
    <2>2. /\ range_min(d) \in Nat /\ range_max(d) \in Nat /\ range_min(d) <= d /\ d <= range_max(d)
          /\ range_min(id) \in Nat /\ range_max(id) \in Nat /\ d \in Nat
      BY CellFacts
    <2>3. ~Apart(id, d) /\ ~Apart(d, id)
      BY <2>2 DEF contains, Apart
    <2>4. level(id) # level(d)
      BY <2>3, SameLevel
    <2>5. ~(level(d) < level(id))
      BY <2>3, SmallerCell
    <2> QED
      BY <2>1, <2>4, <2>5, LevelAssumption
  <1>14. contains(ch, d)
    <2> HIDE DEF ch
    <2>1. level(ch) \in 0 .. MaxLevel /\ level(d) \in 0 .. MaxLevel /\ level(id) \in 0 .. MaxLevel
      BY <1>12, CellForm
    <2>2. /\ range_min(d) \in Nat /\ range_max(d) \in Nat /\ range_min(d) <= d /\ d <= range_max(d)
          /\ range_min(ch) \in Nat /\ range_max(ch) \in Nat /\ d \in Nat
      BY <1>12, CellFacts
    <2>3. range_min(ch) <= r /\ r <= range_max(ch)
      BY <1>11 DEF ch
    <2>4. ~Apart(d, ch)
      BY <2>2, <2>3 DEF Apart
    <2>5. CASE level(ch) = level(d)
      <3>1. d = ch
        BY <1>12, <2>4, <2>5, SameLevel
      <3> QED
        BY <2>2, <3>1 DEF contains
    <2>6. CASE level(ch) < level(d)
      <3>1. Inside(d, ch)
        BY <1>12, <2>4, <2>6, SmallerCell
      <3> QED
        BY <2>2, <3>1 DEF Inside, contains
    <2> QED
      BY <1>12, <1>13, <2>1, <2>5, <2>6, LevelAssumption
  <1> QED
    BY <1>1, <1>14

\* A child is in its parent.
LEMMA ChildInside ==
  ASSUME NEW id \in CellIds, lsb(id) # 1, NEW n \in 0 .. 3
  PROVE  Inside(child(id, n), id)
  <1>1. PICK M \in Nat \ {0} : /\ lsb(id) = 4 * M /\ lsb(child(id, n)) = M
                               /\ child(id, n) = id + (2 * n - 3) * M
    BY ChildForm
  <1>2. PICK ch \in Nat : ch = child(id, n)
    BY ChildForm, CellFacts
  <1>3. id \in Nat
    BY CellFacts
  <1>4. range_min(id) = id - (4 * M - 1) /\ range_max(id) = id + (4 * M - 1)
    BY <1>1 DEF range_min, range_max
  <1>5. range_min(child(id, n)) = ch - (M - 1) /\ range_max(child(id, n)) = ch + (M - 1)
    BY <1>1, <1>2 DEF range_min, range_max
  <1>6. ch >= id - 3 * M /\ ch <= id + 3 * M
    <2>1. ch = id + (2 * n - 3) * M
      BY <1>1, <1>2
    <2>2. n = 0 \/ n = 1 \/ n = 2 \/ n = 3
      OBVIOUS
    <2> QED
      BY <1>3, <2>1, <2>2, SMT
  <1> QED
    BY <1>3, <1>4, <1>5, <1>6 DEF Inside

-----------------------------------------------------------------------------
(* Asking a normalized vector of cells.                                    *)

\* Of two cells of a normalized vector the earlier one ends before the later.
LEMMA NormalizedApart ==
  ASSUME NEW v \in Seq(CellIds), IsNormalized(v), NEW i \in DOMAIN v, NEW j \in DOMAIN v, i < j
  PROVE  range_max(v[i]) < range_min(v[j])
  <1> DEFINE n == Len(v)
             wrong == { k \in (i + 1) .. n : ~(range_max(v[i]) < range_min(v[k])) }
  <1>1. n \in Nat /\ DOMAIN v = 1 .. n /\ i \in Nat /\ i >= 1 /\ j \in (i + 1) .. n
    OBVIOUS
  <1>2. \A k \in 1 .. n : /\ range_min(v[k]) \in Nat /\ range_max(v[k]) \in Nat
                          /\ range_min(v[k]) <= range_max(v[k])
    <2> TAKE k \in 1 .. n
    <2>1. PICK c \in CellIds : c = v[k]
      BY <1>1
    <2>2. /\ range_min(c) \in Nat /\ range_max(c) \in Nat /\ c \in Nat
          /\ range_min(c) <= c /\ c <= range_max(c)
      BY CellFacts
    <2> QED
      BY <2>1, <2>2
  <1>3. \A k \in 2 .. n : range_max(v[k - 1]) < range_min(v[k])
    BY DEF IsNormalized
  <1>4. wrong = {}
    <2> SUFFICES ASSUME wrong # {} PROVE FALSE
      OBVIOUS
    <2>1. wrong \subseteq Nat
      BY <1>1
    <2>2. wrong # {} /\ \A k \in wrong : k \in (i + 1) .. n /\ ~(range_max(v[i]) < range_min(v[k]))
      OBVIOUS
    <2>3. \A k \in (i + 1) .. n : k \notin wrong => range_max(v[i]) < range_min(v[k])
      OBVIOUS
    <2> HIDE DEF wrong
    <2>4. PICK m \in wrong : \A k \in wrong : m <= k
      BY <2>1, <2>2, LeastIsMin
    <2>5. m \in (i + 1) .. n /\ m \in 2 .. n /\ m \in 1 .. n /\ ~(range_max(v[i]) < range_min(v[m]))
      BY <1>1, <2>2
    <2>6. range_max(v[m - 1]) < range_min(v[m])
      BY <1>3, <2>5
    <2>7. CASE m = i + 1
      <3>1. m - 1 = i
        BY <1>1, <2>7
      <3> QED
        BY <2>5, <2>6, <3>1
    <2>8. CASE m # i + 1
      <3>1. m - 1 \in (i + 1) .. n /\ m - 1 \in 1 .. n /\ ~(m <= m - 1)
        BY <1>1, <2>5, <2>8
      <3>2. range_max(v[i]) < range_min(v[m - 1])
        BY <2>3, <2>4, <3>1
      <3>3. i \in 1 .. n
        BY <1>1
      <3>4. PICK p \in 1 .. n : p = m - 1
        BY <3>1
      <3>5. /\ range_max(v[i]) \in Nat /\ range_min(v[m]) \in Nat
            /\ range_min(v[p]) \in Nat /\ range_max(v[p]) \in Nat
            /\ range_min(v[p]) <= range_max(v[p])
        BY <1>2, <2>5, <3>3
      <3> QED
        BY <2>5, <2>6, <3>2, <3>4, <3>5
    <2> QED
      BY <2>7, <2>8
  <1> QED
    BY <1>1, <1>4

\* S2CellUnion::Contains and Intersects of a cell, which look at one cell that
\* a binary search finds, answer for all cells of a normalized union.
THEOREM CellQueriesExact ==
  ASSUME NEW v \in Seq(CellIds), IsNormalized(v), NEW id \in CellIds
  PROVE  /\ ContainsCell(v, id) <=> \E i \in DOMAIN v : contains(v[i], id)
         /\ IntersectsCell(v, id) <=> \E i \in DOMAIN v : intersects(v[i], id)
  <1> DEFINE n == Len(v)
             S == { i \in 1 .. n : ~EntirelyPrecedes(v[i], id) } \cup {n + 1}
             at == LowerBound(v, 1, id)
  <1>1. n \in Nat /\ DOMAIN v = 1 .. n
    OBVIOUS
  <1>2. /\ id \in Nat /\ range_min(id) \in Nat /\ range_max(id) \in Nat
        /\ range_min(id) <= id /\ id <= range_max(id)
    BY CellFacts
  <1>3. \A k \in 1 .. n : /\ range_min(v[k]) \in Nat /\ range_max(v[k]) \in Nat
                          /\ range_min(v[k]) <= range_max(v[k])
    <2> TAKE k \in 1 .. n
    <2>1. PICK c \in CellIds : c = v[k]
      BY <1>1
    <2>2. /\ range_min(c) \in Nat /\ range_max(c) \in Nat /\ c \in Nat
          /\ range_min(c) <= c /\ c <= range_max(c)
      BY CellFacts
    <2> QED
      BY <2>1, <2>2
  <1>4. at \in S /\ \A k \in S : at <= k
    <2>1. S \subseteq Nat /\ S # {}
      BY <1>1
    <2>2. at = Min(S)
      BY DEF LowerBound
    <2> HIDE DEF S, at
    <2> QED
      BY <2>1, <2>2, LeastIsMin
  <1>5. /\ at \in Nat /\ (at <= n => at \in 1 .. n)
        /\ \A k \in 1 .. n : ~(range_max(v[k]) < range_min(id)) => at <= k
    BY <1>1, <1>4 DEF EntirelyPrecedes
  <1> HIDE DEF S, at
  <1>6. \A k \in 1 .. n : intersects(v[k], id) =>
          at \in 1 .. n /\ at <= k /\ (at < k => range_max(v[at]) < range_min(v[k]))
    <2> TAKE k \in 1 .. n
    <2> HAVE intersects(v[k], id)
    <2>1. ~(range_max(v[k]) < range_min(id))
      BY <1>2, <1>3 DEF intersects
    <2>2. at <= k
      BY <1>5, <2>1
    <2>3. at \in 1 .. n
      BY <1>1, <1>5, <2>2
    <2> QED
      BY <1>1, <2>2, <2>3, NormalizedApart
  <1>7. ASSUME NEW k \in 1 .. n, contains(v[k], id) PROVE at = k
    <2>1. intersects(v[k], id)
      BY <1>2, <1>3, <1>7 DEF contains, intersects
    <2>2. at \in 1 .. n /\ at <= k /\ (at < k => range_max(v[at]) < range_min(v[k]))
      BY <1>6, <2>1
    <2>3. ~(range_max(v[at]) < range_min(id))
      <3>1. at \in S /\ at # n + 1
        BY <1>1, <1>4, <2>2
      <3> QED
        BY <3>1 DEF S, EntirelyPrecedes
    <2>4. range_min(v[k]) <= range_min(id)
      <3>1. Inside(id, v[k])
        BY <1>1, <1>7, ContainsNests
      <3> QED
        BY <3>1 DEF Inside
    <2>5. ~(at < k)
      BY <1>2, <1>3, <2>2, <2>3, <2>4
    <2> QED
      BY <2>2, <2>5
  <1>8. ASSUME NEW k \in 1 .. n, intersects(v[k], id) PROVE at <= n /\ intersects(v[at], id)
    <2>1. at \in 1 .. n /\ at <= k /\ (at < k => range_max(v[at]) < range_min(v[k]))
      BY <1>6, <1>8
    <2>2. ~(range_max(v[at]) < range_min(id))
      <3>1. at \in S /\ at # n + 1
        BY <1>1, <1>4, <2>1
      <3> QED
        BY <3>1 DEF S, EntirelyPrecedes
    <2>3. range_min(v[k]) <= range_max(id)
      BY <1>8 DEF intersects
    <2>4. CASE at = k
      BY <1>8, <2>1, <2>4
    <2>5. CASE at < k
      BY <1>2, <1>3, <2>1, <2>2, <2>3, <2>5 DEF intersects
    <2> QED
      BY <2>1, <2>4, <2>5
  <1>9. ContainsCell(v, id) <=> at <= n /\ contains(v[at], id)
    BY DEF ContainsCell, at
  <1>10. IntersectsCell(v, id) <=> at <= n /\ intersects(v[at], id)
    BY DEF IntersectsCell, at
  <1>11. ContainsCell(v, id) <=> \E i \in DOMAIN v : contains(v[i], id)
    <2>1. ASSUME NEW k \in DOMAIN v, contains(v[k], id) PROVE ContainsCell(v, id)
      <3>1. k \in 1 .. n
        BY <1>1
      <3>2. at = k
        BY <1>7, <2>1, <3>1
      <3> QED
        BY <1>9, <2>1, <3>1, <3>2
    <2> QED
      BY <1>1, <1>5, <1>9, <2>1
  <1>12. IntersectsCell(v, id) <=> \E i \in DOMAIN v : intersects(v[i], id)
    <2>1. ASSUME NEW k \in DOMAIN v, intersects(v[k], id) PROVE IntersectsCell(v, id)
      <3>1. k \in 1 .. n
        BY <1>1
      <3> QED
        BY <1>8, <1>10, <2>1, <3>1
    <2> QED
      BY <1>1, <1>5, <1>10, <2>1
  <1> QED
    BY <1>11, <1>12

-----------------------------------------------------------------------------
(* Recursive functions.  The language defines one as some function that     *)
(* satisfies its equation: that there is one has to be shown, once for all  *)
(* recursions along a rank.                                                 *)

Climbs(N, good) == 0 \in good /\ \A n \in 1 .. N : n - 1 \in good => n \in good

\* What passes from n - 1 to n holds up to any bound.
LEMMA Climb ==
  ASSUME NEW N \in Nat, NEW good, Climbs(N, good)
  PROVE  \A n \in 0 .. N : n \in good
  <1> USE DEF Climbs
  <1> DEFINE bad == { n \in 0 .. N : n \notin good }
  <1>1. ASSUME bad # {} PROVE FALSE
    <2>1. bad \subseteq Nat
      OBVIOUS
    <2>2. PICK m \in bad : \A n \in bad : m <= n
      BY <1>1, <2>1, LeastIsMin
    <2>3. m \in 1 .. N /\ m - 1 \in 0 .. N /\ ~(m <= m - 1)
      BY <2>2
    <2> QED
      BY <2>2, <2>3
  <1> QED
    BY <1>1

\* What holds of a place when it holds of all places of a lower rank holds of
\* every place.
LEMMA ByRank ==
  ASSUME NEW D, NEW rank \in [D -> Nat], NEW good,
         \A d \in D : (\A e \in D : rank[e] < rank[d] => e \in good) => d \in good
  PROVE  \A d \in D : d \in good
  <1> DEFINE bad == { rank[d] : d \in { d \in D : d \notin good } }
  <1>1. ASSUME NEW d \in D, d \notin good PROVE FALSE
    <2>1. bad \subseteq Nat /\ bad # {}
      BY <1>1
    <2>2. PICK m \in bad : \A n \in bad : m <= n
      BY <2>1, LeastIsMin
    <2>3. PICK c \in D : c \notin good /\ rank[c] = m
      BY <2>2
    <2>4. PICK e \in D : rank[e] < rank[c] /\ e \notin good
      BY <2>3
    <2>5. rank[e] \in bad /\ rank[e] \in Nat /\ rank[c] \in Nat
      BY <2>4
    <2> QED
      BY <2>2, <2>3, <2>4, <2>5
  <1> QED
    BY <1>1

\* H gives the value at a place from the values at places of a lower rank.
WellRanked(D, S, N, rank, H) ==
  /\ S # {} /\ N \in Nat /\ rank \in [D -> 0 .. N] /\ H \in [D -> [[D -> S] -> S]]
  /\ \A d \in D, F, G \in [D -> S] :
       (\A e \in D : rank[e] < rank[d] => F[e] = G[e]) => H[d][F] = H[d][G]

\* A recursion each of whose steps needs values of lower ranks only.
LEMMA RecursionExists ==
  ASSUME NEW D, NEW S, NEW N, NEW rank, NEW H, WellRanked(D, S, N, rank, H)
  PROVE  \E F \in [D -> S] : \A d \in D : F[d] = H[d][F]
  <1> USE DEF WellRanked
  <1> DEFINE Upto(n, F) == \A d \in D : rank[d] < n => F[d] = H[d][F]
             good == { n \in Nat : \E F \in [D -> S] : Upto(n, F) }
  <1>1. 0 \in good
    <2>1. PICK s \in S : TRUE
      OBVIOUS
    <2>2. [d \in D |-> s] \in [D -> S] /\ Upto(0, [d \in D |-> s])
      OBVIOUS
    <2> HIDE DEF Upto
    <2> QED
      BY <2>2
  <1>2. ASSUME NEW n \in 1 .. (N + 1), NEW F \in [D -> S], Upto(n - 1, F)
        PROVE  \E G \in [D -> S] : Upto(n, G)
    <2> DEFINE G == [d \in D |-> IF rank[d] < n - 1 THEN F[d] ELSE H[d][F]]
    <2>1. \A d \in D : H[d][F] \in S
      OBVIOUS
    <2>2. G \in [D -> S]
      BY <2>1
    <2>3. \A d \in D : G[d] = H[d][F]
      BY <1>2
    <2>4. ASSUME NEW d \in D, rank[d] < n PROVE G[d] = H[d][G]
      <3>1. ASSUME NEW e \in D, rank[e] < rank[d] PROVE F[e] = G[e]
        <4>1. rank[e] < n - 1
          <5>1. rank[e] \in Nat /\ rank[d] \in Nat
            OBVIOUS
          <5> QED
            BY <2>4, <3>1, <5>1
        <4> QED
          BY <4>1
      <3> HIDE DEF G
      <3>2. H[d][F] = H[d][G]
        BY <2>2, <3>1
      <3> QED
        BY <2>3, <3>2
    <2> HIDE DEF G
    <2> QED
      BY <2>2, <2>4
  <1>3. \A n \in 1 .. (N + 1) : n - 1 \in good => n \in good
    <2> TAKE n \in 1 .. (N + 1)
    <2> HIDE DEF Upto
    <2> HAVE n - 1 \in good
    <2>1. PICK F \in [D -> S] : Upto(n - 1, F)
      OBVIOUS
    <2>2. \E G \in [D -> S] : Upto(n, G)
      BY <1>2, <2>1
    <2> QED
      BY <2>2
  <1>4. N + 1 \in good
    <2> HIDE DEF good
    <2>1. N + 1 \in Nat /\ N + 1 \in 0 .. (N + 1)
      OBVIOUS
    <2>2. \A n \in 0 .. (N + 1) : n \in good
      <3>1. Climbs(N + 1, good)
        BY <1>1, <1>3 DEF Climbs
      <3> QED
        BY <2>1, <3>1, Climb
    <2> QED
      BY <2>1, <2>2
  <1>5. PICK F \in [D -> S] : Upto(N + 1, F)
    BY <1>4
  <1>6. \A d \in D : rank[d] < N + 1
    OBVIOUS
  <1> QED
    BY <1>5, <1>6

IsStep(N, S, base, f) == base \in S /\ f \in [1 .. N -> [S -> S]]
Iterates(F, N, base, f) == F = [n \in 0 .. N |-> IF n = 0 THEN base ELSE f[n][F[n - 1]]]

\* A step repeated.
LEMMA IterationExists ==
  ASSUME NEW N \in Nat, NEW S, NEW base, NEW f, IsStep(N, S, base, f)
  PROVE  \E F \in [0 .. N -> S] : Iterates(F, N, base, f)
  <1> USE DEF IsStep, Iterates
  <1> DEFINE D == 0 .. N
             rank == [n \in D |-> n]
             H == [n \in D |-> [F \in [D -> S] |-> IF n = 0 THEN base ELSE f[n][F[n - 1]]]]
  <1>1. \A n \in D, F \in [D -> S] : n # 0 => n - 1 \in D /\ n \in 1 .. N /\ f[n][F[n - 1]] \in S
    OBVIOUS
  <1>2. H \in [D -> [[D -> S] -> S]]
    BY <1>1
  <1>3. rank \in [D -> 0 .. N]
    OBVIOUS
  <1>4. \A n \in D, F, G \in [D -> S] :
          (\A e \in D : rank[e] < rank[n] => F[e] = G[e]) => H[n][F] = H[n][G]
    <2> TAKE n \in D, F \in [D -> S], G \in [D -> S]
    <2> HAVE \A e \in D : rank[e] < rank[n] => F[e] = G[e]
    <2>1. n # 0 => n - 1 \in D /\ rank[n - 1] < rank[n]
      OBVIOUS
    <2>2. n # 0 => F[n - 1] = G[n - 1]
      BY <2>1
    <2> QED
      BY <2>2
  <1>5. \A n \in D, F \in [D -> S] : H[n][F] = IF n = 0 THEN base ELSE f[n][F[n - 1]]
    OBVIOUS
  <1> HIDE DEF H, rank, D
  <1>6. PICK F \in [D -> S] : \A n \in D : F[n] = H[n][F]
    <2>1. S # {} /\ N \in Nat
      OBVIOUS
    <2>2. WellRanked(D, S, N, rank, H)
      BY <1>2, <1>3, <1>4, <2>1 DEF WellRanked
    <2> QED
      BY <2>2, RecursionExists
  <1>7. F = [n \in D |-> F[n]]
    OBVIOUS
  <1> QED
    BY <1>5, <1>6, <1>7 DEF D

-----------------------------------------------------------------------------
(* Nested cells and cells before one another.                              *)

\* Two cells are nested or one precedes the other.
LEMMA CellOrder ==
  \A x, y \in CellIds :
    /\ x \in Nat /\ contains(x, x) /\ ~EntirelyPrecedes(x, x)
    /\ EntirelyPrecedes(x, y) \/ EntirelyPrecedes(y, x) \/ contains(x, y) \/ contains(y, x)
    /\ EntirelyPrecedes(x, y) => /\ x < y /\ ~EntirelyPrecedes(y, x)
                                 /\ ~contains(x, y) /\ ~contains(y, x)
    /\ contains(x, y) /\ contains(y, x) => x = y
    /\ intersects(x, y) <=> contains(x, y) \/ contains(y, x)
  <1> TAKE x \in CellIds, y \in CellIds
  <1>1. /\ x \in Nat /\ range_min(x) \in Nat /\ range_max(x) \in Nat
        /\ range_min(x) <= x /\ x <= range_max(x)
        /\ y \in Nat /\ range_min(y) \in Nat /\ range_max(y) \in Nat
        /\ range_min(y) <= y /\ y <= range_max(y)
    BY CellFacts
  <1>2. x \in Nat /\ contains(x, x) /\ ~EntirelyPrecedes(x, x)
    BY <1>1 DEF contains, EntirelyPrecedes
  <1>3. EntirelyPrecedes(x, y) \/ EntirelyPrecedes(y, x) \/ contains(x, y) \/ contains(y, x)
    <2>1. (x = y \/ Inside(y, x) => contains(x, y)) /\ (Inside(x, y) => contains(y, x))
      BY <1>1 DEF Inside, contains
    <2> QED
      BY <2>1, Laminar DEF Apart, EntirelyPrecedes
  <1>4. EntirelyPrecedes(x, y) => /\ x < y /\ ~EntirelyPrecedes(y, x)
                                  /\ ~contains(x, y) /\ ~contains(y, x)
    BY <1>1 DEF EntirelyPrecedes, contains
  <1>5. contains(x, y) /\ contains(y, x) => x = y
    BY ContainsNests
  <1>6. intersects(x, y) => contains(x, y) \/ contains(y, x)
    BY Overlap
  <1>7. contains(x, y) \/ contains(y, x) => intersects(x, y)
    BY NestedOverlap
  <1> QED
    BY <1>2, <1>3, <1>4, <1>5, <1>6, <1>7

\* Both orders are transitive, and what precedes a cell precedes its parts.
LEMMA CellOrders ==
  \A x, y, z \in CellIds :
    /\ EntirelyPrecedes(x, y) /\ EntirelyPrecedes(y, z) => EntirelyPrecedes(x, z)
    /\ contains(x, y) /\ contains(y, z) => contains(x, z)
    /\ EntirelyPrecedes(x, y) /\ contains(x, z) => EntirelyPrecedes(z, y)
    /\ EntirelyPrecedes(x, y) /\ contains(y, z) => EntirelyPrecedes(x, z)
  <1> TAKE x \in CellIds, y \in CellIds, z \in CellIds
  <1>1. /\ x \in Nat /\ range_min(x) \in Nat /\ range_max(x) \in Nat
        /\ y \in Nat /\ range_min(y) \in Nat /\ range_max(y) \in Nat
        /\ z \in Nat /\ range_min(z) \in Nat /\ range_max(z) \in Nat
        /\ range_min(x) <= x /\ x <= range_max(x) /\ range_min(y) <= y /\ y <= range_max(y)
        /\ range_min(z) <= z /\ z <= range_max(z)
    BY CellFacts
  <1>2. contains(x, y) => Inside(y, x)
    BY ContainsNests
  <1>3. contains(y, z) => Inside(z, y)
    BY ContainsNests
  <1>4. contains(x, z) => Inside(z, x)
    BY ContainsNests
  <1>5. EntirelyPrecedes(x, y) /\ EntirelyPrecedes(y, z) => EntirelyPrecedes(x, z)
    BY <1>1 DEF EntirelyPrecedes
  <1>6. contains(x, y) /\ contains(y, z) => contains(x, z)
    BY <1>1, <1>2, <1>3 DEF Inside, contains
  <1>7. EntirelyPrecedes(x, y) /\ contains(x, z) => EntirelyPrecedes(z, y)
    BY <1>1, <1>4 DEF Inside, EntirelyPrecedes
  <1>8. EntirelyPrecedes(x, y) /\ contains(y, z) => EntirelyPrecedes(x, z)
    BY <1>1, <1>3 DEF Inside, EntirelyPrecedes
  <1> QED
    BY <1>5, <1>6, <1>7, <1>8

\* The leaf cells of two cells.
LEMMA LeafLaws ==
  /\ \A x \in CellIds : /\ Leaves(x) = { leaf \in LeafIds : contains(x, leaf) }
                        /\ Leaves(x) # {}
  /\ LeafIds \subseteq CellIds
  /\ \A x, y \in CellIds :
       /\ contains(x, y) => Leaves(y) \subseteq Leaves(x)
       /\ EntirelyPrecedes(x, y) => Leaves(x) \cap Leaves(y) = {}
       /\ contains(x, y) \/ contains(y, x) <=> Leaves(x) \cap Leaves(y) # {}
  <1>1. \A x \in CellIds : /\ Leaves(x) = { leaf \in LeafIds : contains(x, leaf) }
                           /\ Leaves(x) # {}
    <2> TAKE x \in CellIds
    <2>1. Leaves(x) # {}
      BY BoundsAreLeaves
    <2> QED
      BY <2>1 DEF Leaves, LeavesIn
  <1>2. LeafIds \subseteq CellIds
    BY LeavesAreCells
  <1>3. \A x, y \in CellIds : contains(x, y) => Leaves(y) \subseteq Leaves(x)
    BY LeavesNest
  <1>4. \A x, y \in CellIds : Leaves(x) \cap Leaves(y) # {} => contains(x, y) \/ contains(y, x)
    <2> TAKE x \in CellIds, y \in CellIds
    <2> HAVE Leaves(x) \cap Leaves(y) # {}
    <2>1. PICK leaf \in Leaves(x) : leaf \in Leaves(y)
      OBVIOUS
    <2> QED
      BY <2>1, CommonLeaf
  <1>5. \A x, y \in CellIds : contains(x, y) \/ contains(y, x) => Leaves(x) \cap Leaves(y) # {}
    <2> TAKE x \in CellIds, y \in CellIds
    <2>1. Leaves(x) # {} /\ Leaves(y) # {}
      BY <1>1
    <2>2. contains(x, y) => Leaves(y) \subseteq Leaves(x)
      BY <1>3
    <2>3. contains(y, x) => Leaves(x) \subseteq Leaves(y)
      BY <1>3
    <2> QED
      BY <2>1, <2>2, <2>3
  <1>6. \A x, y \in CellIds : EntirelyPrecedes(x, y) => Leaves(x) \cap Leaves(y) = {}
    <2> TAKE x \in CellIds, y \in CellIds
    <2>1. EntirelyPrecedes(x, y) => ~contains(x, y) /\ ~contains(y, x)
      BY CellOrder
    <2> QED
      BY <1>4, <2>1
  <1> QED
    BY <1>1, <1>2, <1>3, <1>4, <1>5, <1>6

-----------------------------------------------------------------------------
(* Parents and families.                                                   *)

\* The quotient of a number by what it exceeds a multiple of by less.
LEMMA DivisionIs ==
  ASSUME NEW x \in Nat, NEW q \in Nat, NEW r \in Nat, NEW B \in Nat, r < B, x = q * B + r
  PROVE  x \div B = q
  <1>1. x = B * (x \div B) + (x % B) /\ x % B \in 0 .. B - 1 /\ x \div B \in Nat
    <2>1. x = B * (x \div B) + (x % B)
      OBVIOUS
    <2>2. x % B \in 0 .. B - 1
      OBVIOUS
    <2>3. x \div B \in Nat
      OBVIOUS
    <2> QED
      BY <2>1, <2>2, <2>3
  <1>2. PICK d \in Nat, s \in Nat : d = x \div B /\ s = x % B
    BY <1>1
  <1>3. B * d + s = q * B + r /\ s < B
    BY <1>1, <1>2
  <1>4. d < q => B * d + B <= q * B
    <2>1. d < q => (d + 1) * B <= q * B
      BY SMT
    <2> QED
      BY <2>1, SMT
  <1>5. d > q => B * d >= q * B + B
    <2>1. d > q => d * B >= (q + 1) * B
      BY SMT
    <2> QED
      BY <2>1, SMT
  <1>6. PICK X \in Nat, Y \in Nat : X = B * d /\ Y = q * B
    OBVIOUS
  <1> QED
    BY <1>2, <1>3, <1>4, <1>5, <1>6

\* A leaf cell is its own range.
LEMMA LeafForm ==
  ASSUME NEW leaf \in LeafIds
  PROVE  /\ leaf \in CellIds /\ lsb(leaf) = 1 /\ range_min(leaf) = leaf /\ range_max(leaf) = leaf
         /\ \A x \in CellIds : contains(leaf, x) => x = leaf
  <1>1. leaf \in CellIds /\ leaf \in Nat /\ leaf % 2 = 1
    BY LeavesAreCells DEF LeafIds, is_leaf
  <1>2. lsb(leaf) = 1
    <2>1. level(leaf) \in 0 .. MaxLevel
      BY <1>1, CellForm
    <2>2. ASSUME level(leaf) # MaxLevel PROVE FALSE
      <3>1. level(leaf) < MaxLevel /\ MaxLevel \in 0 .. MaxLevel
        BY <2>1, <2>2, LevelAssumption
      <3>2. PICK w \in Nat \ {0} : lsb(leaf) = 2 * w * 1
        BY <2>1, <3>1, LsbRatio, LeastBit DEF lsb
      <3>3. PICK k \in Nat : leaf = (2 * k + 1) * lsb(leaf)
        BY <1>1, CellForm
      <3>4. (2 * k + 1) * (2 * w) = 2 * ((2 * k + 1) * w) /\ (2 * k + 1) * w \in Nat
        BY SMT
      <3>5. PICK z \in Nat : leaf = 2 * z
        BY <3>2, <3>3, <3>4
      <3> QED
        BY <1>1, <3>5
    <2> QED
      BY <2>2, LeastBit DEF lsb
  <1>3. range_min(leaf) = leaf /\ range_max(leaf) = leaf
    BY <1>1, <1>2 DEF range_min, range_max
  <1>4. \A x \in CellIds : contains(leaf, x) => x = leaf
    <2> TAKE x \in CellIds
    <2>1. x \in Nat
      BY CellFacts
    <2> QED
      BY <1>1, <1>3, <2>1 DEF contains
  <1> QED
    BY <1>1, <1>2, <1>3, <1>4

\* The parent of a cell is a cell, and has it as a child.
LEMMA ParentForm ==
  ASSUME NEW id \in CellIds, ~is_face(id)
  PROVE  /\ parent(id) \in CellIds /\ level(parent(id)) = level(id) - 1 /\ lsb(parent(id)) # 1
         /\ lsb(parent(id)) = 4 * lsb(id) /\ \E n \in 0 .. 3 : id = child(parent(id), n)
  <1>1. level(id) \in 0 .. MaxLevel /\ id \in Nat /\ level(id) \in Nat
    BY CellForm, CellFacts
  <1>2. level(id) # 0
    <2> SUFFICES ASSUME level(id) = 0 PROVE is_face(id)
      OBVIOUS
    <2>1. PICK k \in Nat : id = (2 * k + 1) * lsb(id)
      BY CellForm
    <2>2. PICK B \in Nat \ {0} : B = lsb(id)
      BY CellForm
    <2>3. PICK j \in Nat : j = 2 * k + 1
      OBVIOUS
    <2>4. (j * B) % B = 0
      BY Multiples
    <2> QED
      BY <2>1, <2>2, <2>3, <2>4 DEF is_face, lsb
  <1> DEFINE m == level(id) - 1
             B == lsb_for_level(m)
             L == lsb(id)
             c == 4 ^ m
  <1>3. m \in 0 .. MaxLevel /\ m \in Nat /\ m + 1 = level(id) /\ m + 1 <= MaxLevel
    BY <1>1, <1>2, LevelAssumption
  <1>4. L \in Nat \ {0} /\ B = 4 * L
    <2>1. /\ MaxLevel - m \in 0 .. MaxLevel /\ MaxLevel - m > 0
          /\ (MaxLevel - m) - 1 = MaxLevel - level(id)
      BY <1>3, LevelAssumption
    <2>2. 4 ^ (MaxLevel - m) = 4 * 4 ^ ((MaxLevel - m) - 1)
      BY <2>1, PowersOfFour
    <2> QED
      BY <2>1, <2>2, CellForm DEF lsb, lsb_for_level
  <1>5. 4 ^ level(id) = 4 * c /\ c \in Nat \ {0}
    <2>1. level(id) \in 0 .. MaxLevel /\ level(id) > 0 /\ level(id) - 1 = m
      BY <1>1, <1>2
    <2> QED
      BY <1>3, <2>1, PowersOfFour
  <1>6. FaceSize = 2 * (c * B) /\ FaceSize \in Nat
    <2>1. FaceSize = 2 * (c * B)
      BY <1>3, LsbRatio
    <2> QED
      BY <1>4, <1>5, <2>1
  <1>7. PICK f \in 0 .. (NumFaces - 1), k \in 0 .. (4 ^ level(id) - 1) :
          id = f * FaceSize + (2 * k + 1) * L
    BY FaceOfCell
  <1>8. PICK q \in 0 .. (c - 1), n \in 0 .. 3 : k = 4 * q + n
    <2>1. k \in Nat /\ k < 4 * c
      BY <1>5, <1>7
    <2>2. k \div 4 \in 0 .. (c - 1) /\ k % 4 \in 0 .. 3 /\ k = 4 * (k \div 4) + (k % 4)
      BY <1>5, <2>1
    <2> QED
      BY <2>2
  <1>9. f \in Nat /\ q \in Nat /\ n \in Nat /\ n <= 3
    BY <1>5, FacesAssumption
  <1> DEFINE p == f * FaceSize + (2 * q + 1) * B
  <1>10. p \in CellIds /\ level(p) = m /\ lsb(p) = B
    <2> HIDE DEF p
    <2>1. p = f * FaceSize + (2 * q + 1) * lsb_for_level(m) /\ q \in 0 .. (4 ^ m - 1)
      BY DEF p
    <2> HIDE DEF m
    <2> QED
      BY <1>3, <2>1, CellOnFace DEF B
  <1> HIDE DEF m, B, L, c
  <1>11. id = (f * c + q) * (2 * B) + (2 * n + 1) * L /\ (2 * n + 1) * L < 2 * B
    <2>1. \A F, C, Q, M, J \in Nat :
            F * (2 * (C * (4 * M))) + (2 * (4 * Q + J) + 1) * M = (F * C + Q) * (2 * (4 * M)) + (2 * J + 1) * M
      BY SMT
    <2>2. (2 * n + 1) * L <= 7 * L
      BY <1>4, <1>9, SMT
    <2> QED
      BY <1>4, <1>5, <1>6, <1>7, <1>8, <1>9, <2>1, <2>2
  <1>12. f * c + q \in Nat /\ (2 * n + 1) * L \in Nat /\ 2 * B \in Nat
    BY <1>4, <1>5, <1>9
  <1>13. id \div (2 * B) = f * c + q
    <2> DEFINE x == f * c + q
               y == (2 * n + 1) * L
               z == 2 * B
    <2>1. x \in Nat /\ y \in Nat /\ z \in Nat /\ id = x * z + y /\ y < z
      BY <1>11, <1>12
    <2> HIDE DEF x, y, z
    <2>2. id \div z = x
      BY <1>1, <2>1, DivisionIs
    <2> QED
      BY <2>2 DEF x, z
  <1>14. parent(id) = p
    <2>1. parent(id) = (id \div (2 * B)) * 2 * B + B
      BY DEF parent, ParentAt, B, m
    <2>2. \A F, C, Q, M \in Nat : (F * C + Q) * 2 * M + M = F * (2 * (C * M)) + (2 * Q + 1) * M
      BY SMT
    <2> QED
      BY <1>4, <1>5, <1>6, <1>9, <1>13, <2>1, <2>2
  <1> HIDE DEF p
  <1>15. lsb(p) # 1 /\ lsb(p) = 4 * L
    BY <1>4, <1>10
  <1>16. id = child(p, n)
    <2>1. PICK M \in Nat \ {0} : lsb(p) = 4 * M /\ child(p, n) = p + (2 * n - 3) * M
      BY <1>10, <1>15, ChildForm
    <2>2. M = L
      BY <1>4, <1>15, <2>1
    <2>3. p = f * (2 * (c * B)) + (2 * q + 1) * (4 * L)
      BY <1>4, <1>6 DEF p
    <2>4. \A A, Q, N, K \in Nat : A + (2 * Q + 1) * (4 * K) + (2 * N - 3) * K = A + (2 * (4 * Q + N) + 1) * K
      BY SMT
    <2>5. f * (2 * (c * B)) \in Nat
      BY <1>4, <1>5, <1>9
    <2> QED
      BY <1>4, <1>6, <1>7, <1>8, <1>9, <2>1, <2>2, <2>3, <2>4, <2>5
  <1> QED
    BY <1>3, <1>10, <1>14, <1>15, <1>16 DEF m, L

\* The cells of the least level are the faces, and a least bit tells a level.
LEMMA FaceIs ==
  \A x, y \in CellIds : /\ is_face(x) <=> level(x) = 0
                        /\ lsb(x) = lsb(y) => level(x) = level(y)
  <1> TAKE x \in CellIds, y \in CellIds
  <1>1. level(x) \in 0 .. MaxLevel /\ level(y) \in 0 .. MaxLevel
    BY CellForm
  <1>2. \A l, m \in 0 .. MaxLevel : l < m => lsb_for_level(l) # lsb_for_level(m)
    <2> TAKE l \in 0 .. MaxLevel, m \in 0 .. MaxLevel
    <2> HAVE l < m
    <2>1. PICK A \in Nat \ {0} : A = lsb_for_level(m)
      BY LsbRatio
    <2>2. PICK w \in Nat \ {0} : lsb_for_level(l) = 2 * w * A
      BY <2>1, LsbRatio
    <2>3. 2 * w * A > A
      <3>1. w * A >= 1 * A
        BY SMT
      <3> QED
        BY <3>1, SMT
    <2> QED
      BY <2>1, <2>2, <2>3
  <1>3. lsb(x) = lsb(y) => level(x) = level(y)
    <2>1. level(x) < level(y) => lsb(x) # lsb(y)
      BY <1>1, <1>2 DEF lsb
    <2>2. level(y) < level(x) => lsb(x) # lsb(y)
      BY <1>1, <1>2 DEF lsb
    <2> QED
      BY <1>1, <2>1, <2>2
  <1>4. level(x) = 0 => is_face(x)
    <2> SUFFICES ASSUME level(x) = 0, ~is_face(x) PROVE FALSE
      OBVIOUS
    <2>1. level(parent(x)) = level(x) - 1 /\ parent(x) \in CellIds
      BY ParentForm
    <2>2. level(parent(x)) \in 0 .. MaxLevel
      BY <2>1, CellForm
    <2> QED
      BY <2>1, <2>2
  <1>5. level(x) # 0 => ~is_face(x)
    <2> SUFFICES ASSUME level(x) # 0, is_face(x) PROVE FALSE
      OBVIOUS
    <2>1. PICK A \in Nat \ {0} : A = lsb(x)
      BY CellForm
    <2>2. PICK k \in Nat : x = (2 * k + 1) * A
      BY <2>1, CellForm
    <2>3. PICK B \in Nat \ {0} : B = lsb_for_level(0)
      BY LsbRatio, LevelAssumption
    <2>4. PICK w \in Nat \ {0} : B = 2 * w * A
      <3>1. 0 \in 0 .. MaxLevel /\ 0 < level(x)
        BY <1>1, LevelAssumption
      <3> QED
        BY <1>1, <2>1, <2>3, <3>1, LsbRatio DEF lsb
    <2>5. x \in Nat /\ x % B = 0
      BY <2>3, CellFacts DEF is_face
    <2>6. PICK d \in Nat : x = d * B
      BY <2>5, Multiples
    <2>7. (2 * k + 1) * A = (2 * (d * w)) * A
      <3>1. d * (2 * w * A) = (2 * (d * w)) * A
        BY SMT
      <3> QED
        BY <2>2, <2>4, <2>6, <3>1
    <2>8. PICK z \in Nat : z = d * w
      OBVIOUS
    <2>9. 2 * k + 1 = 2 * z
      BY <2>7, <2>8, Cancel
    <2> QED
      BY <2>9
  <1> QED
    BY <1>3, <1>4, <1>5

\* A child of a cell has it as its parent.
LEMMA ChildParent ==
  ASSUME NEW p \in CellIds, lsb(p) # 1, NEW n \in 0 .. 3
  PROVE  ~is_face(child(p, n)) /\ parent(child(p, n)) = p
  <1> DEFINE c == child(p, n)
  <1>1. c \in CellIds /\ level(c) = level(p) + 1
    BY ChildForm
  <1>2. level(c) \in 0 .. MaxLevel /\ level(p) \in 0 .. MaxLevel
    BY <1>1, CellForm
  <1>3. contains(p, c)
    <2>1. Inside(c, p) /\ p \in Nat /\ c \in Nat /\ range_min(c) <= c /\ c <= range_max(c)
          /\ range_min(c) \in Nat /\ range_max(c) \in Nat
          /\ range_min(p) \in Nat /\ range_max(p) \in Nat
      BY <1>1, ChildInside, CellFacts
    <2> HIDE DEF c
    <2> QED
      BY <2>1 DEF Inside, contains
  <1> HIDE DEF c
  <1>4. ~is_face(c)
    <2>1. level(c) # 0
      BY <1>1, <1>2, LevelAssumption
    <2> QED
      BY <1>1, <2>1, FaceIs
  <1>5. /\ parent(c) \in CellIds /\ level(parent(c)) = level(p) /\ lsb(parent(c)) # 1
        /\ \E m \in 0 .. 3 : c = child(parent(c), m)
    <2>1. level(parent(c)) = level(c) - 1
      BY <1>1, <1>4, ParentForm
    <2> QED
      BY <1>1, <1>2, <1>4, <2>1, ParentForm
  <1>6. Inside(c, parent(c)) /\ Inside(c, p)
    BY <1>3, <1>5, ChildInside, <1>1, ContainsNests
  <1>7. ~Apart(parent(c), p)
    <2>1. /\ range_min(c) \in Nat /\ range_max(c) \in Nat /\ range_min(c) <= range_max(c)
          /\ range_min(p) \in Nat /\ range_max(p) \in Nat
          /\ range_min(parent(c)) \in Nat /\ range_max(parent(c)) \in Nat
      BY <1>1, <1>5, CellFacts
    <2> QED
      BY <1>6, <2>1 DEF Inside, Apart
  <1>8. parent(c) = p
    BY <1>5, <1>7, SameLevel
  <1> QED
    BY <1>4, <1>8 DEF c

\* The children of a cell: in it, one before another, with the same leaf cells.
LEMMA ChildrenTile ==
  ASSUME NEW p \in CellIds, lsb(p) # 1
  PROVE  /\ \A n \in 0 .. 3 : child(p, n) \in CellIds /\ contains(p, child(p, n)) /\ child(p, n) # p
         /\ \A m, n \in 0 .. 3 : m < n => EntirelyPrecedes(child(p, m), child(p, n))
         /\ \A n \in 0 .. 3, x \in CellIds :
              contains(x, child(p, n)) => x = child(p, n) \/ contains(x, p)
         /\ \A x \in CellIds : contains(p, x) /\ x # p => \E n \in 0 .. 3 : contains(child(p, n), x)
         /\ Leaves(p) = UNION { Leaves(child(p, n)) : n \in 0 .. 3 }
         /\ range_min(child(p, 0)) = range_min(p) /\ range_max(child(p, 3)) = range_max(p)
  <1> DEFINE c(n) == child(p, n)
  <1>1. PICK M \in Nat \ {0} : lsb(p) = 4 * M
    <2>1. 0 \in 0 .. 3
      OBVIOUS
    <2> QED
      BY <2>1, ChildForm
  <1>2. p \in Nat
    BY CellFacts
  <1>3. \A n \in 0 .. 3 : c(n) \in CellIds /\ lsb(c(n)) = M /\ c(n) = p + (2 * n - 3) * M /\ c(n) \in Nat
    <2> TAKE n \in 0 .. 3
    <2>1. PICK N \in Nat \ {0} : lsb(p) = 4 * N /\ lsb(c(n)) = N /\ c(n) = p + (2 * n - 3) * N
      BY ChildForm
    <2>2. c(n) \in CellIds /\ c(n) \in Nat
      BY ChildForm, CellFacts
    <2>3. N = M
      BY <1>1, <2>1
    <2> QED
      BY <2>1, <2>2, <2>3
  <1>4. \A n \in 0 .. 3 : /\ range_min(c(n)) = c(n) - (M - 1)
                          /\ range_max(c(n)) = c(n) + (M - 1)
    <2> HIDE DEF c
    <2> QED
      BY <1>3 DEF range_min, range_max
  <1>5. range_min(p) = p - (4 * M - 1) /\ range_max(p) = p + (4 * M - 1)
    BY <1>1 DEF range_min, range_max
  <1> HIDE DEF c
  <1>6. \A n \in 0 .. 3 : contains(p, c(n)) /\ c(n) # p
    <2> TAKE n \in 0 .. 3
    <2>1. c(n) = p + (2 * n - 3) * M /\ c(n) \in Nat
      BY <1>3
    <2>2. n = 0 \/ n = 1 \/ n = 2 \/ n = 3
      OBVIOUS
    <2> QED
      BY <1>2, <1>5, <2>1, <2>2 DEF contains
  <1>7. \A m, n \in 0 .. 3 : m < n => EntirelyPrecedes(c(m), c(n))
    <2> TAKE m \in 0 .. 3, n \in 0 .. 3
    <2> HAVE m < n
    <2>1. range_max(c(m)) = (p + (2 * m - 3) * M) + (M - 1)
      BY <1>3, <1>4
    <2>2. range_min(c(n)) = (p + (2 * n - 3) * M) - (M - 1)
      BY <1>3, <1>4
    <2>3. (2 * m + 2) * M <= (2 * n) * M
      BY SMT
    <2>4. (p + (2 * m - 3) * M) + (M - 1) < (p + (2 * n - 3) * M) - (M - 1)
      BY <1>2, <2>3, SMT
    <2> QED
      BY <2>1, <2>2, <2>4 DEF EntirelyPrecedes
  <1>8. range_min(c(0)) = range_min(p) /\ range_max(c(3)) = range_max(p)
    <2>1. c(0) = p - 3 * M /\ c(3) = p + 3 * M
      BY <1>2, <1>3
    <2> QED
      BY <1>2, <1>4, <1>5, <2>1
  <1>9. \A x \in CellIds : contains(p, x) /\ x # p => \E n \in 0 .. 3 : contains(c(n), x)
    BY ChildHas DEF c
  <1>10. \A n \in 0 .. 3, x \in CellIds : contains(x, c(n)) => x = c(n) \/ contains(x, p)
    <2> TAKE n \in 0 .. 3, x \in CellIds
    <2> HAVE contains(x, c(n))
    <2>1. CASE contains(x, p)
      BY <2>1
    <2>2. CASE ~contains(x, p)
      <3>1. contains(p, x)
        <4>1. EntirelyPrecedes(x, p) => EntirelyPrecedes(c(n), p)
          BY <1>3, CellOrders
        <4>2. EntirelyPrecedes(p, x) => EntirelyPrecedes(p, c(n))
          BY <1>3, CellOrders
        <4>3. ~EntirelyPrecedes(c(n), p) /\ ~EntirelyPrecedes(p, c(n))
          BY <1>3, <1>6, CellOrder
        <4> QED
          BY <2>2, <4>1, <4>2, <4>3, CellOrder
      <3>2. x # p
        BY <2>2, CellOrder
      <3>3. PICK m \in 0 .. 3 : contains(c(m), x)
        BY <1>9, <3>1, <3>2
      <3>4. contains(c(m), c(n))
        BY <1>3, <3>3, CellOrders
      <3>5. m = n
        <4>1. m < n => ~contains(c(m), c(n))
          BY <1>3, <1>7, CellOrder
        <4>2. n < m => ~contains(c(m), c(n))
          BY <1>3, <1>7, CellOrder
        <4> QED
          BY <3>4, <4>1, <4>2
      <3> QED
        BY <1>3, <3>3, <3>5, CellOrder
    <2> QED
      BY <2>1, <2>2
  <1>11. Leaves(p) = UNION { Leaves(c(n)) : n \in 0 .. 3 }
    <2>1. \A n \in 0 .. 3 : Leaves(c(n)) \subseteq Leaves(p)
      BY <1>3, <1>6, LeafLaws
    <2>2. \A leaf \in Leaves(p) : \E n \in 0 .. 3 : leaf \in Leaves(c(n))
      <3> TAKE leaf \in Leaves(p)
      <3>1. leaf \in LeafIds /\ contains(p, leaf)
        BY LeafLaws
      <3>2. leaf \in CellIds /\ leaf # p
        BY <3>1, LeafForm
      <3>3. PICK n \in 0 .. 3 : contains(c(n), leaf)
        BY <1>9, <3>1, <3>2
      <3> QED
        BY <1>3, <3>1, <3>3, LeafLaws
    <2> QED
      BY <2>1, <2>2
  <1> QED
    BY <1>3, <1>6, <1>7, <1>8, <1>9, <1>10, <1>11 DEF c

\* Four siblings in order are the children of their parent.
LEMMA SiblingsAre ==
  ASSUME NEW a \in CellIds, NEW b \in CellIds, NEW c \in CellIds, NEW d \in CellIds,
         EntirelyPrecedes(a, b), EntirelyPrecedes(b, c), EntirelyPrecedes(c, d),
         AreSiblings(a, b, c, d)
  PROVE  /\ parent(d) \in CellIds /\ lsb(parent(d)) # 1 /\ level(parent(d)) = level(d) - 1
         /\ a = child(parent(d), 0) /\ b = child(parent(d), 1)
         /\ c = child(parent(d), 2) /\ d = child(parent(d), 3)
  <1> DEFINE p == parent(d)
             ch(n) == child(p, n)
  <1>1. ~is_face(d) /\ \A x \in {a, b, c} : lsb(x) = lsb(d) /\ parent(x) = p
    BY DEF AreSiblings
  <1>2. p \in CellIds /\ lsb(p) # 1 /\ level(p) = level(d) - 1
    BY <1>1, ParentForm
  <1>3. \A x \in {a, b, c, d} : \E n \in 0 .. 3 : x = ch(n)
    <2> TAKE x \in {a, b, c, d}
    <2>1. x \in CellIds /\ lsb(x) = lsb(d) /\ parent(x) = p
      BY <1>1
    <2>2. ~is_face(x)
      BY <1>1, <2>1, FaceIs
    <2> QED
      BY <2>1, <2>2, ParentForm
  <1>4. \A m, n \in 0 .. 3 : EntirelyPrecedes(ch(m), ch(n)) => m < n
    <2> TAKE m \in 0 .. 3, n \in 0 .. 3
    <2>1. \A k \in 0 .. 3 : ch(k) \in CellIds
      BY <1>2, ChildrenTile
    <2>2. n < m => EntirelyPrecedes(ch(n), ch(m))
      BY <1>2, ChildrenTile
    <2> HIDE DEF ch
    <2>3. n = m => ~EntirelyPrecedes(ch(m), ch(n))
      BY <2>1, CellOrder
    <2>4. n < m => ~EntirelyPrecedes(ch(m), ch(n))
      BY <2>1, <2>2, CellOrder
    <2> QED
      BY <2>3, <2>4
  <1> HIDE DEF ch
  <1>5. PICK i \in 0 .. 3, j \in 0 .. 3, k \in 0 .. 3, l \in 0 .. 3 :
          a = ch(i) /\ b = ch(j) /\ c = ch(k) /\ d = ch(l)
    BY <1>3
  <1>6. i < j /\ j < k /\ k < l
    BY <1>4, <1>5
  <1>7. i = 0 /\ j = 1 /\ k = 2 /\ l = 3
    BY <1>6
  <1> QED
    BY <1>2, <1>5, <1>7 DEF ch

LEMMA SiblingsOf ==
  ASSUME NEW p \in CellIds, lsb(p) # 1
  PROVE  AreSiblings(child(p, 0), child(p, 1), child(p, 2), child(p, 3))
  <1>1. \A n \in 0 .. 3 : ~is_face(child(p, n)) /\ parent(child(p, n)) = p
    BY ChildParent
  <1>2. \A m, n \in 0 .. 3 : lsb(child(p, m)) = lsb(child(p, n))
    <2> TAKE m \in 0 .. 3, n \in 0 .. 3
    <2>1. PICK M \in Nat \ {0} : lsb(p) = 4 * M /\ lsb(child(p, m)) = M
      BY ChildForm
    <2>2. PICK N \in Nat \ {0} : lsb(p) = 4 * N /\ lsb(child(p, n)) = N
      BY ChildForm
    <2> QED
      BY <2>1, <2>2
  <1>3. 0 \in 0 .. 3 /\ 1 \in 0 .. 3 /\ 2 \in 0 .. 3 /\ 3 \in 0 .. 3
    OBVIOUS
  <1> QED
    BY <1>1, <1>2, <1>3 DEF AreSiblings

\* No cell lies between one child and the next.
LEMMA ChildrenAdjoin ==
  ASSUME NEW p \in CellIds, lsb(p) # 1, NEW m \in 0 .. 2, NEW x \in CellIds,
         EntirelyPrecedes(child(p, m), x)
  PROVE  ~EntirelyPrecedes(x, child(p, m + 1))
  <1> DEFINE c(n) == child(p, n)
  <1>1. m \in 0 .. 3 /\ m + 1 \in 0 .. 3
    OBVIOUS
  <1>2. /\ \A n \in 0 .. 3 : c(n) \in CellIds /\ contains(p, c(n))
        /\ \A k, n \in 0 .. 3 : k < n => EntirelyPrecedes(c(k), c(n))
    BY ChildrenTile
  <1>3. contains(p, x) /\ x # p => \E n \in 0 .. 3 : contains(c(n), x)
    BY ChildrenTile
  <1> HIDE DEF c
  <1> SUFFICES ASSUME EntirelyPrecedes(c(m), x), EntirelyPrecedes(x, c(m + 1)) PROVE FALSE
    BY DEF c
  <1>4. ~contains(x, p)
    <2>1. contains(x, p) => contains(x, c(m))
      BY <1>1, <1>2, CellOrders
    <2> QED
      BY <1>1, <1>2, <2>1, CellOrder
  <1>5. ~EntirelyPrecedes(x, p)
    <2>1. EntirelyPrecedes(x, p) => EntirelyPrecedes(x, c(m))
      BY <1>1, <1>2, CellOrders
    <2> QED
      BY <1>1, <1>2, <2>1, CellOrder
  <1>6. ~EntirelyPrecedes(p, x)
    <2>1. EntirelyPrecedes(p, x) => EntirelyPrecedes(c(m + 1), x)
      BY <1>1, <1>2, CellOrders
    <2> QED
      BY <1>1, <1>2, <2>1, CellOrder
  <1>7. PICK n \in 0 .. 3 : contains(c(n), x)
    <2>1. contains(p, x)
      BY <1>4, <1>5, <1>6, CellOrder
    <2>2. x # p
      BY <1>4, CellOrder
    <2> QED
      BY <1>3, <2>1, <2>2
  <1>8. n # m /\ n # m + 1
    BY <1>1, <1>2, <1>7, CellOrder
  <1>9. ~(n < m)
    <2>1. n < m => EntirelyPrecedes(c(n), c(m))
      BY <1>1, <1>2
    <2>2. n < m => EntirelyPrecedes(x, c(m))
      BY <1>1, <1>2, <1>7, <2>1, CellOrders
    <2> QED
      BY <1>1, <1>2, <2>2, CellOrder
  <1>10. ~(m + 1 < n)
    <2>1. m + 1 < n => EntirelyPrecedes(c(m + 1), c(n))
      BY <1>1, <1>2
    <2>2. m + 1 < n => EntirelyPrecedes(c(m + 1), x)
      BY <1>1, <1>2, <1>7, <2>1, CellOrders
    <2> QED
      BY <1>1, <1>2, <2>2, CellOrder
  <1> QED
    BY <1>1, <1>8, <1>9, <1>10

-----------------------------------------------------------------------------
(* Vectors of cells in order.                                              *)

Ordered(v) ==
  /\ v \in Seq(CellIds)
  /\ \A i, j \in 1 .. Len(v) : i < j => EntirelyPrecedes(v[i], v[j])

\* A set of cells in which no cell is replaced by all of its children.
NoFamily(S) ==
  \A p \in CellIds : lsb(p) # 1 => \E n \in 0 .. 3 : child(p, n) \notin S

\* The members of a vector.
LEMMA Members ==
  \A v \in Seq(CellIds) :
    /\ Len(v) \in Nat /\ DOMAIN v = 1 .. Len(v)
    /\ \A i \in 1 .. Len(v) : v[i] \in CellIds /\ v[i] \in ToSet(v)
    /\ \A x \in ToSet(v) : x \in CellIds /\ \E i \in 1 .. Len(v) : v[i] = x
    /\ LeavesOf(v) = UNION { Leaves(x) : x \in ToSet(v) }
    /\ LeavesOf(v) \subseteq LeafIds
  <1> TAKE v \in Seq(CellIds)
  <1>1. Len(v) \in Nat /\ DOMAIN v = 1 .. Len(v) /\ \A i \in 1 .. Len(v) : v[i] \in CellIds
    OBVIOUS
  <1>2. ToSet(v) = { v[i] : i \in 1 .. Len(v) }
    BY <1>1 DEF ToSet
  <1>3. LeavesOf(v) = UNION { Leaves(v[i]) : i \in 1 .. Len(v) }
    BY <1>1 DEF LeavesOf
  <1>4. LeavesOf(v) = UNION { Leaves(x) : x \in ToSet(v) }
    BY <1>2, <1>3
  <1>5. \A x \in CellIds : Leaves(x) \subseteq LeafIds
    BY LeafLaws
  <1>6. LeavesOf(v) \subseteq LeafIds
    BY <1>1, <1>3, <1>5
  <1> QED
    BY <1>1, <1>2, <1>4, <1>6

\* Vectors of one cell, and of none.
LEMMA OrderedFew ==
  /\ Ordered(<<>>) /\ ToSet(<<>>) = {} /\ Len(<<>>) = 0 /\ LeavesOf(<<>>) = {}
  /\ \A x \in CellIds : Ordered(<<x>>) /\ ToSet(<<x>>) = {x} /\ Len(<<x>>) = 1
  <1>1. <<>> \in Seq(CellIds) /\ Len(<<>>) = 0 /\ DOMAIN <<>> = {}
    OBVIOUS
  <1>2. ToSet(<<>>) = {} /\ LeavesOf(<<>>) = {} /\ Ordered(<<>>)
    BY <1>1 DEF ToSet, LeavesOf, Ordered
  <1>3. \A x \in CellIds : Ordered(<<x>>) /\ ToSet(<<x>>) = {x} /\ Len(<<x>>) = 1
    <2> TAKE x \in CellIds
    <2>1. <<x>> \in Seq(CellIds) /\ Len(<<x>>) = 1 /\ DOMAIN <<x>> = 1 .. 1 /\ <<x>>[1] = x
      OBVIOUS
    <2>2. ToSet(<<x>>) = {x}
      BY <2>1 DEF ToSet
    <2> QED
      BY <2>1, <2>2 DEF Ordered
  <1> QED
    BY <1>1, <1>2, <1>3

\* What a vector and another have together.
LEMMA Joined ==
  ASSUME NEW v \in Seq(CellIds), NEW w \in Seq(CellIds)
  PROVE  /\ v \o w \in Seq(CellIds) /\ ToSet(v \o w) = ToSet(v) \cup ToSet(w)
         /\ LeavesOf(v \o w) = LeavesOf(v) \cup LeavesOf(w)
  <1> DEFINE m == Len(v)
             n == Len(w)
             u == v \o w
  <1>1. /\ u \in Seq(CellIds) /\ Len(u) = m + n /\ m \in Nat /\ n \in Nat
        /\ \A i \in 1 .. (m + n) : u[i] = IF i <= m THEN v[i] ELSE w[i - m]
    BY ConcatProperties, LenProperties
  <1>2. /\ ToSet(u) = { u[i] : i \in 1 .. (m + n) } /\ ToSet(v) = { v[i] : i \in 1 .. m }
        /\ ToSet(w) = { w[i] : i \in 1 .. n }
    BY <1>1, LenProperties DEF ToSet
  <1> HIDE DEF u, m, n
  <1>3. ToSet(u) \subseteq ToSet(v) \cup ToSet(w)
    <2> SUFFICES ASSUME NEW i \in 1 .. (m + n) PROVE u[i] \in ToSet(v) \cup ToSet(w)
      BY <1>2
    <2>1. CASE i <= m
      <3>1. u[i] = v[i] /\ i \in 1 .. m
        BY <1>1, <2>1
      <3> QED
        BY <1>2, <3>1
    <2>2. CASE ~(i <= m)
      <3>1. u[i] = w[i - m] /\ i - m \in 1 .. n
        BY <1>1, <2>2
      <3> QED
        BY <1>2, <3>1
    <2> QED
      BY <2>1, <2>2
  <1>4. ToSet(v) \subseteq ToSet(u)
    <2> SUFFICES ASSUME NEW i \in 1 .. m PROVE v[i] \in ToSet(u)
      BY <1>2
    <2>1. i \in 1 .. (m + n) /\ i <= m
      BY <1>1
    <2>2. u[i] = v[i]
      BY <1>1, <2>1
    <2> QED
      BY <1>2, <2>1, <2>2
  <1>5. ToSet(w) \subseteq ToSet(u)
    <2> SUFFICES ASSUME NEW i \in 1 .. n PROVE w[i] \in ToSet(u)
      BY <1>2
    <2>1. m + i \in 1 .. (m + n) /\ ~(m + i <= m) /\ (m + i) - m = i
      BY <1>1
    <2>2. u[m + i] = w[i]
      BY <1>1, <2>1
    <2> QED
      BY <1>2, <2>1, <2>2
  <1>6. ToSet(u) = ToSet(v) \cup ToSet(w)
    BY <1>3, <1>4, <1>5
  <1>7. /\ LeavesOf(u) = UNION { Leaves(x) : x \in ToSet(u) }
        /\ LeavesOf(v) = UNION { Leaves(x) : x \in ToSet(v) }
        /\ LeavesOf(w) = UNION { Leaves(x) : x \in ToSet(w) }
    BY <1>1, Members
  <1>8. LeavesOf(u) = LeavesOf(v) \cup LeavesOf(w)
    BY <1>6, <1>7
  <1> QED
    BY <1>1, <1>6, <1>8 DEF u

LEMMA OrderedJoin ==
  ASSUME NEW v, NEW w, Ordered(v), Ordered(w),
         \A x \in ToSet(v), y \in ToSet(w) : EntirelyPrecedes(x, y)
  PROVE  Ordered(v \o w)
  <1> DEFINE m == Len(v)
             n == Len(w)
             u == v \o w
  <1>1. v \in Seq(CellIds) /\ w \in Seq(CellIds)
    BY DEF Ordered
  <1>2. /\ u \in Seq(CellIds) /\ Len(u) = m + n /\ m \in Nat /\ n \in Nat
        /\ \A i \in 1 .. (m + n) : u[i] = IF i <= m THEN v[i] ELSE w[i - m]
    BY <1>1, ConcatProperties, LenProperties
  <1>3. ASSUME NEW i \in 1 .. (m + n), NEW j \in 1 .. (m + n), i < j
        PROVE  EntirelyPrecedes(u[i], u[j])
    <2>1. CASE j <= m
      <3>1. i \in 1 .. m /\ j \in 1 .. m /\ u[i] = v[i] /\ u[j] = v[j]
        BY <1>2, <1>3, <2>1
      <3> QED
        BY <1>3, <3>1 DEF Ordered
    <2>2. CASE i <= m /\ ~(j <= m)
      <3>1. i \in 1 .. m /\ j - m \in 1 .. n /\ u[i] = v[i] /\ u[j] = w[j - m]
        BY <1>2, <2>2
      <3>2. v[i] \in ToSet(v) /\ w[j - m] \in ToSet(w)
        BY <1>1, <3>1, Members
      <3> QED
        BY <3>1, <3>2
    <2>3. CASE ~(i <= m)
      <3>1. i - m \in 1 .. n /\ j - m \in 1 .. n /\ i - m < j - m /\ u[i] = w[i - m] /\ u[j] = w[j - m]
        BY <1>2, <1>3, <2>3
      <3> QED
        BY <3>1 DEF Ordered
    <2> QED
      BY <1>2, <1>3, <2>1, <2>2, <2>3
  <1> QED
    BY <1>2, <1>3 DEF Ordered

\* A contiguous part of a vector.
LEMMA OrderedPart ==
  ASSUME NEW v, Ordered(v), NEW a \in Int, NEW b \in Int, a >= 1, b <= Len(v)
  PROVE  /\ Ordered(SubSeq(v, a, b)) /\ Len(SubSeq(v, a, b)) = (IF a <= b THEN b - a + 1 ELSE 0)
         /\ \A i \in 1 .. (b - a + 1) : SubSeq(v, a, b)[i] = v[a + i - 1]
         /\ ToSet(SubSeq(v, a, b)) = { v[i] : i \in a .. b }
  <1> DEFINE n == Len(v)
             u == SubSeq(v, a, b)
             k == IF a <= b THEN b - a + 1 ELSE 0
  <1>1. v \in Seq(CellIds) /\ n \in Nat /\ (\A i \in 1 .. n : v[i] \in CellIds)
        /\ \A i, j \in 1 .. n : i < j => EntirelyPrecedes(v[i], v[j])
    BY Members DEF Ordered
  <1>2. \A i \in a .. b : i \in 1 .. n /\ v[i] \in CellIds
    BY <1>1
  <1>3. /\ u \in Seq(CellIds) /\ Len(u) = k
        /\ \A i \in 1 .. (b - a + 1) : u[i] = v[a + i - 1]
    BY <1>2, SubSeqProperties
  <1> HIDE DEF u, n
  <1>4. k \in Nat /\ \A i \in 1 .. k : i \in 1 .. (b - a + 1) /\ a + i - 1 \in a .. b
    OBVIOUS
  <1> HIDE DEF k
  <1>5. ASSUME NEW i \in 1 .. k, NEW j \in 1 .. k, i < j PROVE EntirelyPrecedes(u[i], u[j])
    <2>1. u[i] = v[a + i - 1] /\ u[j] = v[a + j - 1]
      BY <1>3, <1>4
    <2>2. a + i - 1 \in 1 .. n /\ a + j - 1 \in 1 .. n
      BY <1>2, <1>4
    <2>3. a + i - 1 < a + j - 1
      BY <1>4, <1>5
    <2> QED
      BY <1>1, <2>1, <2>2, <2>3
  <1>6. ToSet(u) = { v[i] : i \in a .. b }
    <2>1. ToSet(u) = { u[i] : i \in 1 .. k }
      BY <1>3, LenProperties DEF ToSet
    <2>2. \A i \in 1 .. k : u[i] \in { v[j] : j \in a .. b }
      BY <1>3, <1>4
    <2>3. ASSUME NEW j \in a .. b PROVE v[j] \in { u[i] : i \in 1 .. k }
      <3>1. j - a + 1 \in 1 .. k /\ j - a + 1 \in 1 .. (b - a + 1) /\ a + (j - a + 1) - 1 = j
        BY DEF k
      <3>2. u[j - a + 1] = v[j]
        BY <1>3, <3>1
      <3> QED
        BY <3>1, <3>2
    <2> QED
      BY <2>1, <2>2, <2>3
  <1>7. Ordered(u)
    BY <1>3, <1>5 DEF Ordered
  <1> QED
    BY <1>3, <1>6, <1>7 DEF u, k

-----------------------------------------------------------------------------
(* Normalized vectors are those in order that hold no family.              *)

\* The children of a cell stand beside one another in a vector in order.
LEMMA FamilyRuns ==
  ASSUME NEW v, Ordered(v), NEW p \in CellIds, lsb(p) # 1,
         \A n \in 0 .. 3 : child(p, n) \in ToSet(v)
  PROVE  \E i \in 4 .. Len(v) : /\ v[i - 3] = child(p, 0) /\ v[i - 2] = child(p, 1)
                                /\ v[i - 1] = child(p, 2) /\ v[i] = child(p, 3)
  <1> DEFINE c(n) == child(p, n)
             l == Len(v)
  <1>1. v \in Seq(CellIds) /\ l \in Nat /\ \A i \in 1 .. l : v[i] \in CellIds
    BY Members DEF Ordered
  <1>2. \A n \in 0 .. 3 : c(n) \in CellIds /\ \E i \in 1 .. l : v[i] = c(n)
    BY <1>1, ChildrenTile, Members
  <1>3. \A i, j \in 1 .. l : EntirelyPrecedes(v[i], v[j]) => i < j
    <2> TAKE i \in 1 .. l, j \in 1 .. l
    <2>1. j < i => EntirelyPrecedes(v[j], v[i])
      BY DEF Ordered
    <2>2. ~(EntirelyPrecedes(v[i], v[j]) /\ EntirelyPrecedes(v[j], v[i]))
      BY <1>1, CellOrder
    <2>3. i = j => ~EntirelyPrecedes(v[i], v[j])
      BY <1>1, CellOrder
    <2> QED
      BY <2>1, <2>2, <2>3
  <1>4. ASSUME NEW n \in 0 .. 2, NEW i \in 1 .. l, v[i] = c(n)
        PROVE  i + 1 \in 1 .. l /\ v[i + 1] = c(n + 1)
    <2>1. n \in 0 .. 3 /\ n + 1 \in 0 .. 3 /\ n < n + 1
      OBVIOUS
    <2>2. PICK j \in 1 .. l : v[j] = c(n + 1)
      BY <1>2, <2>1
    <2>3. EntirelyPrecedes(c(n), c(n + 1))
      BY <2>1, ChildrenTile
    <2>4. i < j
      BY <1>3, <1>4, <2>2, <2>3
    <2>5. CASE j = i + 1
      BY <2>2, <2>5
    <2>6. CASE i + 1 < j
      <3>1. i + 1 \in 1 .. l /\ i < i + 1
        BY <1>1, <2>4
      <3>2. EntirelyPrecedes(v[i], v[i + 1]) /\ EntirelyPrecedes(v[i + 1], v[j])
        BY <2>6, <3>1 DEF Ordered
      <3>3. PICK x \in CellIds : x = v[i + 1]
        BY <1>1, <3>1
      <3>4. EntirelyPrecedes(child(p, n), x) /\ EntirelyPrecedes(x, child(p, n + 1))
        BY <1>4, <2>2, <3>2, <3>3
      <3> QED
        BY <3>4, ChildrenAdjoin
    <2> QED
      BY <1>1, <2>4, <2>5, <2>6
  <1> HIDE DEF c
  <1>5. PICK i \in 1 .. l : v[i] = c(0)
    BY <1>2
  <1>6. i + 1 \in 1 .. l /\ v[i + 1] = c(1)
    BY <1>4, <1>5
  <1>7. (i + 1) + 1 \in 1 .. l /\ v[(i + 1) + 1] = c(2)
    <2>1. 1 \in 0 .. 2 /\ 1 + 1 = 2
      OBVIOUS
    <2> QED
      BY <1>4, <1>6, <2>1
  <1>8. ((i + 1) + 1) + 1 \in 1 .. l /\ v[((i + 1) + 1) + 1] = c(3)
    <2>1. 2 \in 0 .. 2 /\ 2 + 1 = 3
      OBVIOUS
    <2> QED
      BY <1>4, <1>7, <2>1
  <1>9. PICK j \in 4 .. l : j - 3 = i /\ j - 2 = i + 1 /\ j - 1 = (i + 1) + 1 /\ j = ((i + 1) + 1) + 1
    BY <1>1, <1>5, <1>8
  <1>10. v[j - 3] = c(0) /\ v[j - 2] = c(1) /\ v[j - 1] = c(2) /\ v[j] = c(3)
    BY <1>5, <1>6, <1>7, <1>8, <1>9
  <1> QED
    BY <1>10 DEF c

LEMMA NormalizedIs ==
  ASSUME NEW v \in Seq(CellIds)
  PROVE  IsNormalized(v) <=> Ordered(v) /\ NoFamily(ToSet(v))
  <1> DEFINE l == Len(v)
  <1>1. l \in Nat /\ DOMAIN v = 1 .. l /\ \A i \in 1 .. l : v[i] \in CellIds /\ v[i] \in ToSet(v)
    BY Members
  <1>2. ASSUME IsNormalized(v) PROVE Ordered(v) /\ NoFamily(ToSet(v))
    <2>1. Ordered(v)
      <3> SUFFICES ASSUME NEW i \in 1 .. l, NEW j \in 1 .. l, i < j
                   PROVE  EntirelyPrecedes(v[i], v[j])
        BY DEF Ordered
      <3>1. i \in DOMAIN v /\ j \in DOMAIN v
        BY <1>1
      <3> QED
        BY <1>2, <3>1, NormalizedApart DEF EntirelyPrecedes
    <2>2. NoFamily(ToSet(v))
      <3> SUFFICES ASSUME NEW p \in CellIds, lsb(p) # 1, \A n \in 0 .. 3 : child(p, n) \in ToSet(v)
                   PROVE  FALSE
        BY DEF NoFamily
      <3>1. PICK i \in 4 .. l : /\ v[i - 3] = child(p, 0) /\ v[i - 2] = child(p, 1)
                                /\ v[i - 1] = child(p, 2) /\ v[i] = child(p, 3)
        BY <2>1, FamilyRuns
      <3>2. AreSiblings(v[i - 3], v[i - 2], v[i - 1], v[i])
        BY <3>1, SiblingsOf
      <3> QED
        BY <1>2, <3>2 DEF IsNormalized
    <2> QED
      BY <2>1, <2>2
  <1>3. ASSUME Ordered(v), NoFamily(ToSet(v)) PROVE IsNormalized(v)
    <2>1. ASSUME NEW i \in 2 .. l PROVE range_max(v[i - 1]) < range_min(v[i])
      <3>1. i - 1 \in 1 .. l /\ i \in 1 .. l /\ i - 1 < i
        BY <1>1
      <3> QED
        BY <1>3, <3>1 DEF Ordered, EntirelyPrecedes
    <2>2. ASSUME NEW i \in 4 .. l, AreSiblings(v[i - 3], v[i - 2], v[i - 1], v[i]) PROVE FALSE
      <3>1. i - 3 \in 1 .. l /\ i - 2 \in 1 .. l /\ i - 1 \in 1 .. l /\ i \in 1 .. l
            /\ i - 3 < i - 2 /\ i - 2 < i - 1 /\ i - 1 < i
        BY <1>1
      <3>2. PICK a \in CellIds, b \in CellIds, c \in CellIds, d \in CellIds :
              a = v[i - 3] /\ b = v[i - 2] /\ c = v[i - 1] /\ d = v[i]
        BY <1>1, <3>1
      <3>3. EntirelyPrecedes(a, b) /\ EntirelyPrecedes(b, c) /\ EntirelyPrecedes(c, d)
        BY <1>3, <3>1, <3>2 DEF Ordered
      <3>4. AreSiblings(a, b, c, d)
        BY <2>2, <3>2
      <3>5. /\ parent(d) \in CellIds /\ lsb(parent(d)) # 1
            /\ a = child(parent(d), 0) /\ b = child(parent(d), 1)
            /\ c = child(parent(d), 2) /\ d = child(parent(d), 3)
        BY <3>3, <3>4, SiblingsAre
      <3>6. {a, b, c, d} \subseteq ToSet(v)
        BY <1>1, <3>1, <3>2
      <3>7. \A n \in 0 .. 3 : child(parent(d), n) \in ToSet(v)
        <4> TAKE n \in 0 .. 3
        <4>1. n = 0 \/ n = 1 \/ n = 2 \/ n = 3
          OBVIOUS
        <4> QED
          BY <3>5, <3>6, <4>1
      <3> QED
        BY <1>3, <3>5, <3>7 DEF NoFamily
    <2> QED
      BY <1>1, <2>1, <2>2 DEF IsNormalized
  <1> QED
    BY <1>2, <1>3

\* Fewer cells hold no family either.
LEMMA FewerCells ==
  ASSUME NEW S, NEW T, NoFamily(S), T \subseteq S
  PROVE  NoFamily(T)
  BY DEF NoFamily

\* A contiguous part of a normalized vector is normalized.
LEMMA NormalizedPart ==
  ASSUME NEW v \in Seq(CellIds), IsNormalized(v), NEW a \in Int, NEW b \in Int, a >= 1, b <= Len(v)
  PROVE  SubSeq(v, a, b) \in Seq(CellIds) /\ IsNormalized(SubSeq(v, a, b))
  <1>1. Ordered(v) /\ NoFamily(ToSet(v))
    BY NormalizedIs
  <1>2. /\ Ordered(SubSeq(v, a, b))
        /\ ToSet(SubSeq(v, a, b)) = { v[i] : i \in a .. b }
    BY <1>1, OrderedPart
  <1>3. \A i \in a .. b : v[i] \in ToSet(v)
    BY Members
  <1>4. NoFamily(ToSet(SubSeq(v, a, b)))
    BY <1>1, <1>2, <1>3, FewerCells
  <1>5. SubSeq(v, a, b) \in Seq(CellIds)
    BY <1>2 DEF Ordered
  <1> QED
    BY <1>2, <1>4, <1>5, NormalizedIs

\* A cell put behind a normalized vector that it does not complete a family of.
LEMMA NormalizedAppend ==
  ASSUME NEW v \in Seq(CellIds), IsNormalized(v), NEW x \in CellIds,
         \A y \in ToSet(v) : EntirelyPrecedes(y, x),
         ~(Len(v) >= 3 /\ AreSiblings(v[Len(v) - 2], v[Len(v) - 1], v[Len(v)], x))
  PROVE  /\ Append(v, x) \in Seq(CellIds) /\ IsNormalized(Append(v, x))
         /\ ToSet(Append(v, x)) = ToSet(v) \cup {x}
         /\ LeavesOf(Append(v, x)) = LeavesOf(v) \cup Leaves(x)
  <1> DEFINE l == Len(v)
             u == Append(v, x)
  <1>1. l \in Nat /\ DOMAIN v = 1 .. l /\ \A i \in 1 .. l : v[i] \in CellIds /\ v[i] \in ToSet(v)
    BY Members
  <1>2. /\ u \in Seq(CellIds) /\ Len(u) = l + 1 /\ u[l + 1] = x /\ \A i \in 1 .. l : u[i] = v[i]
        /\ DOMAIN u = 1 .. (l + 1)
    OBVIOUS
  <1>3. ToSet(u) = ToSet(v) \cup {x}
    <2>1. ToSet(v) = { v[i] : i \in 1 .. l } /\ ToSet(u) = { u[i] : i \in 1 .. (l + 1) }
      BY <1>1, <1>2 DEF ToSet
    <2> HIDE DEF u, l
    <2>2. 1 .. (l + 1) = 1 .. l \cup {l + 1}
      BY <1>1
    <2> QED
      BY <1>2, <2>1, <2>2
  <1>4. LeavesOf(u) = LeavesOf(v) \cup Leaves(x)
    <2>1. /\ LeavesOf(u) = UNION { Leaves(y) : y \in ToSet(u) }
          /\ LeavesOf(v) = UNION { Leaves(y) : y \in ToSet(v) }
      BY <1>2, Members
    <2> HIDE DEF u
    <2> QED
      BY <1>3, <2>1
  <1>5. IsNormalized(u)
    <2> HIDE DEF u
    <2>1. \A i \in 1 .. (l + 1) : u[i] \in CellIds
      BY <1>2
    <2>2. ASSUME NEW i \in 2 .. (l + 1) PROVE range_max(u[i - 1]) < range_min(u[i])
      <3>1. CASE i \in 2 .. l
        <4>1. u[i - 1] = v[i - 1] /\ u[i] = v[i]
          BY <1>1, <1>2, <3>1
        <4> QED
          BY <3>1, <4>1 DEF IsNormalized
      <3>2. CASE i = l + 1
        <4>1. i - 1 \in 1 .. l /\ u[i - 1] = v[i - 1] /\ u[i] = x
          BY <1>1, <1>2, <3>2
        <4>2. EntirelyPrecedes(v[i - 1], x)
          BY <1>1, <4>1
        <4> QED
          BY <4>1, <4>2 DEF EntirelyPrecedes
      <3> QED
        BY <1>1, <3>1, <3>2
    <2>3. ASSUME NEW i \in 4 .. (l + 1) PROVE ~AreSiblings(u[i - 3], u[i - 2], u[i - 1], u[i])
      <3>1. CASE i \in 4 .. l
        <4>1. u[i - 3] = v[i - 3] /\ u[i - 2] = v[i - 2] /\ u[i - 1] = v[i - 1] /\ u[i] = v[i]
          BY <1>1, <1>2, <3>1
        <4> QED
          BY <3>1, <4>1 DEF IsNormalized
      <3>2. CASE i = l + 1
        <4>1. l >= 3 /\ i - 3 = l - 2 /\ i - 2 = l - 1 /\ i - 1 = l
          BY <1>1, <3>2
        <4>2. u[i - 3] = v[l - 2] /\ u[i - 2] = v[l - 1] /\ u[i - 1] = v[l] /\ u[i] = x
          BY <1>1, <1>2, <3>2, <4>1
        <4> QED
          BY <4>1, <4>2
      <3> QED
        BY <1>1, <3>1, <3>2
    <2> QED
      BY <1>2, <2>1, <2>2, <2>3 DEF IsNormalized
  <1> QED
    BY <1>2, <1>3, <1>4, <1>5

-----------------------------------------------------------------------------
(* Sorting.                                                                *)

Increasing(s) == \A i, j \in 1 .. Len(s) : i < j => s[i] <= s[j]

\* The cells of an increasing vector that are not larger than a cell come first.
LEMMA NotLarger ==
  ASSUME NEW s \in Seq(CellIds), Increasing(s), NEW id \in CellIds
  PROVE  LET at == Cardinality({ i \in DOMAIN s : s[i] <= id })
         IN  /\ at \in 0 .. Len(s)
             /\ \A i \in 1 .. Len(s) : i <= at <=> s[i] <= id
  <1> DEFINE n == Len(s)
             A == { i \in 1 .. n : s[i] <= id }
             m == Max(A \cup {0})
  <1>1. n \in Nat /\ DOMAIN s = 1 .. n /\ id \in Nat /\ \A i \in 1 .. n : s[i] \in CellIds /\ s[i] \in Nat
    BY CellOrder, Members
  <1>2. m \in A \cup {0} /\ \A i \in A \cup {0} : i <= m
    <2>1. A \cup {0} \subseteq 0 .. n /\ A \cup {0} # {}
      BY <1>1
    <2> HIDE DEF A
    <2> QED
      BY <1>1, <2>1, GreatestIsMax
  <1>3. m \in 0 .. n
    BY <1>1, <1>2
  <1>4. A = 1 .. m
    <2> HIDE DEF m
    <2>1. ASSUME NEW i \in 1 .. m PROVE i \in A
      <3>1. m \in A /\ i \in 1 .. n
        BY <1>1, <1>2, <1>3
      <3>2. m \in 1 .. n /\ s[m] <= id
        BY <3>1
      <3>3. i = m \/ s[i] <= s[m]
        BY <1>3, <3>1, <3>2 DEF Increasing
      <3>4. s[i] \in Nat /\ s[m] \in Nat
        BY <1>1, <3>1, <3>2
      <3> QED
        BY <1>1, <3>1, <3>2, <3>3, <3>4
    <2>2. \A i \in A : i \in 1 .. m
      BY <1>1, <1>2, <1>3
    <2> QED
      BY <2>1, <2>2
  <1> HIDE DEF m
  <1>5. Cardinality(A) = m
    <2>1. m \in Int /\ 1 \in Int /\ (IF 1 > m THEN 0 ELSE m - 1 + 1) = m
      BY <1>1, <1>3
    <2>2. Cardinality(1 .. m) = IF 1 > m THEN 0 ELSE m - 1 + 1
      BY <2>1, FS_Interval
    <2> QED
      BY <1>4, <2>1, <2>2
  <1>6. \A i \in 1 .. n : i <= m <=> s[i] <= id
    <2> TAKE i \in 1 .. n
    <2>1. i \in A <=> i \in 1 .. m
      BY <1>4
    <2> QED
      BY <1>1, <1>3, <2>1
  <1>7. A = { i \in DOMAIN s : s[i] <= id }
    BY <1>1
  <1> QED
    BY <1>3, <1>5, <1>6, <1>7

LEMMA InsertIs ==
  ASSUME NEW s \in Seq(CellIds), Increasing(s), NEW id \in CellIds
  PROVE  /\ Insert(s, id) \in Seq(CellIds) /\ Len(Insert(s, id)) = Len(s) + 1
         /\ Increasing(Insert(s, id))
         /\ ToSet(Insert(s, id)) = ToSet(s) \cup {id}
  <1> DEFINE n == Len(s)
             at == Cardinality({ i \in DOMAIN s : s[i] <= id })
             u == Insert(s, id)
  <1>1. n \in Nat /\ DOMAIN s = 1 .. n /\ id \in Nat /\ \A i \in 1 .. n : s[i] \in CellIds /\ s[i] \in Nat
    BY CellOrder, Members
  <1>2. \E m \in 0 .. n :
          /\ \A i \in 1 .. n : i <= m => s[i] <= id
          /\ \A i \in 1 .. n : m < i => s[i] > id
          /\ u \in Seq(CellIds) /\ Len(u) = n + 1
          /\ \A i \in 1 .. (n + 1) : u[i] = IF i <= m THEN s[i] ELSE IF i = m + 1 THEN id ELSE s[i - 1]
    <2>1. CASE s = <<>> \/ Last(s) <= id
      <3>1. \A i \in 1 .. n : s[i] <= id
        <4> TAKE i \in 1 .. n
        <4>1. s # <<>> /\ n \in 1 .. n /\ s[n] <= id
          BY <1>1, <2>1 DEF Last
        <4> HIDE DEF n
        <4>2. i = n \/ i < n
          BY <1>1
        <4>3. i < n => s[i] <= s[n]
          BY <4>1 DEF Increasing, n
        <4>4. s[i] \in Nat /\ s[n] \in Nat
          BY <1>1, <4>1
        <4> QED
          BY <1>1, <4>1, <4>2, <4>3, <4>4
      <3>2. u = Append(s, id)
        BY <2>1 DEF Insert
      <3>3. /\ u \in Seq(CellIds) /\ Len(u) = n + 1 /\ u[n + 1] = id
            /\ \A i \in 1 .. n : u[i] = s[i]
        BY <3>2
      <3> HIDE DEF u
      <3>4. \A i \in 1 .. (n + 1) : u[i] = IF i <= n THEN s[i] ELSE IF i = n + 1 THEN id ELSE s[i - 1]
        BY <1>1, <3>3
      <3> WITNESS n \in 0 .. n
      <3> QED
        BY <1>1, <3>1, <3>3, <3>4
    <2>2. CASE ~(s = <<>> \/ Last(s) <= id)
      <3>1. at \in 0 .. n /\ \A i \in 1 .. n : i <= at <=> s[i] <= id
        BY NotLarger
      <3>2. u = SubSeq(s, 1, at) \o <<id>> \o SubSeq(s, at + 1, n)
        BY <2>2 DEF Insert
      <3> HIDE DEF at, u
      <3>3. /\ SubSeq(s, 1, at) \in Seq(CellIds) /\ Len(SubSeq(s, 1, at)) = at
            /\ \A i \in 1 .. at : SubSeq(s, 1, at)[i] = s[i]
        <4>1. \A i \in 1 .. at : s[i] \in CellIds /\ (1 + i) - 1 = i
          BY <1>1, <3>1
        <4>2. \A i \in 1 .. (at - 1 + 1) : SubSeq(s, 1, at)[i] = s[1 + i - 1]
          BY <3>1, <4>1, SubSeqProperties
        <4>3. SubSeq(s, 1, at) \in Seq(CellIds) /\ Len(SubSeq(s, 1, at)) = (IF 1 <= at THEN at - 1 + 1 ELSE 0)
          BY <3>1, <4>1, SubSeqProperties
        <4> QED
          BY <3>1, <4>1, <4>2, <4>3
      <3>4. /\ SubSeq(s, at + 1, n) \in Seq(CellIds) /\ Len(SubSeq(s, at + 1, n)) = n - at
            /\ \A i \in 1 .. (n - at) : SubSeq(s, at + 1, n)[i] = s[at + i]
        <4>1. \A i \in (at + 1) .. n : s[i] \in CellIds
          BY <1>1, <3>1
        <4>2. \A i \in 1 .. (n - (at + 1) + 1) : SubSeq(s, at + 1, n)[i] = s[(at + 1) + i - 1]
          BY <1>1, <3>1, <4>1, SubSeqProperties
        <4>3. /\ SubSeq(s, at + 1, n) \in Seq(CellIds)
              /\ Len(SubSeq(s, at + 1, n)) = (IF at + 1 <= n THEN n - (at + 1) + 1 ELSE 0)
          BY <1>1, <3>1, <4>1, SubSeqProperties
        <4>4. \A i \in 1 .. (n - at) : i \in 1 .. (n - (at + 1) + 1) /\ (at + 1) + i - 1 = at + i
          BY <1>1, <3>1
        <4>5. \A i \in 1 .. (n - at) : SubSeq(s, at + 1, n)[i] = s[at + i]
          <5> TAKE i \in 1 .. (n - at)
          <5>1. i \in 1 .. (n - (at + 1) + 1) /\ (at + 1) + i - 1 = at + i
            BY <4>4
          <5>2. SubSeq(s, at + 1, n)[i] = s[(at + 1) + i - 1]
            BY <4>2, <5>1
          <5> QED
            BY <5>1, <5>2
        <4>6. (IF at + 1 <= n THEN n - (at + 1) + 1 ELSE 0) = n - at
          <5>1. at \in Nat /\ n \in Nat /\ at <= n
            BY <1>1, <3>1
          <5>2. \A k, l \in Nat : k <= l => (IF k + 1 <= l THEN l - (k + 1) + 1 ELSE 0) = l - k
            OBVIOUS
          <5> HIDE DEF n
          <5> QED
            BY <5>1, <5>2
        <4> QED
          BY <4>3, <4>5, <4>6
      <3>5. PICK x \in Seq(CellIds), y \in Seq(CellIds) : x = SubSeq(s, 1, at) /\ y = SubSeq(s, at + 1, n)
        BY <3>3, <3>4
      <3>6. /\ x \o <<id>> \in Seq(CellIds) /\ Len(x \o <<id>>) = at + 1
            /\ \A i \in 1 .. (at + 1) : (x \o <<id>>)[i] = IF i <= at THEN s[i] ELSE id
        BY <3>1, <3>3, <3>5
      <3>7. PICK z \in Seq(CellIds) : z = x \o <<id>>
        BY <3>6
      <3>8. /\ z \o y \in Seq(CellIds) /\ Len(z \o y) = n + 1
            /\ \A i \in 1 .. (n + 1) : (z \o y)[i] = IF i <= at + 1 THEN z[i] ELSE s[i - 1]
        <4>1. Len(z) = at + 1 /\ Len(y) = n - at
          BY <3>4, <3>5, <3>6, <3>7
        <4>2. /\ z \o y \in Seq(CellIds) /\ Len(z \o y) = Len(z) + Len(y)
              /\ \A i \in 1 .. (Len(z) + Len(y)) : (z \o y)[i] = IF i <= Len(z) THEN z[i] ELSE y[i - Len(z)]
          BY ConcatProperties
        <4>3. \A i \in 1 .. (n + 1) : ~(i <= at + 1) => i - (at + 1) \in 1 .. (n - at) /\ at + (i - (at + 1)) = i - 1
          BY <1>1, <3>1
        <4>4. \A i \in 1 .. (n + 1) : ~(i <= at + 1) => y[i - (at + 1)] = s[i - 1]
          BY <3>4, <3>5, <4>3
        <4>5. Len(z) + Len(y) = n + 1
          BY <1>1, <3>1, <4>1
        <4> QED
          BY <4>1, <4>2, <4>4, <4>5
      <3>9. u = z \o y
        BY <3>2, <3>5, <3>7
      <3>10. \A i \in 1 .. (n + 1) : u[i] = IF i <= at THEN s[i] ELSE IF i = at + 1 THEN id ELSE s[i - 1]
        <4> TAKE i \in 1 .. (n + 1)
        <4>1. u[i] = IF i <= at + 1 THEN z[i] ELSE s[i - 1]
          BY <3>8, <3>9
        <4>2. i <= at + 1 => z[i] = IF i <= at THEN s[i] ELSE id
          BY <1>1, <3>1, <3>6, <3>7
        <4> QED
          BY <1>1, <3>1, <4>1, <4>2
      <3>11. \A i \in 1 .. n : (i <= at => s[i] <= id) /\ (at < i => s[i] > id)
        BY <1>1, <3>1
      <3> QED
        BY <3>1, <3>8, <3>9, <3>10, <3>11
    <2> QED
      BY <2>1, <2>2
  <1> HIDE DEF u
  <1>3. PICK m \in 0 .. n :
          /\ \A i \in 1 .. n : i <= m => s[i] <= id
          /\ \A i \in 1 .. n : m < i => s[i] > id
          /\ u \in Seq(CellIds) /\ Len(u) = n + 1
          /\ \A i \in 1 .. (n + 1) : u[i] = IF i <= m THEN s[i] ELSE IF i = m + 1 THEN id ELSE s[i - 1]
    BY <1>2
  <1>4. Increasing(u)
    <2> SUFFICES ASSUME NEW i \in 1 .. (n + 1), NEW j \in 1 .. (n + 1), i < j PROVE u[i] <= u[j]
      BY <1>3 DEF Increasing
    <2>1. \A k, l \in 1 .. n : k < l => s[k] <= s[l]
      BY DEF Increasing
    <2>2. /\ u[i] = IF i <= m THEN s[i] ELSE IF i = m + 1 THEN id ELSE s[i - 1]
          /\ u[j] = IF j <= m THEN s[j] ELSE IF j = m + 1 THEN id ELSE s[j - 1]
      BY <1>3
    <2>3. CASE j <= m
      <3>1. i \in 1 .. n /\ j \in 1 .. n /\ i <= m
        BY <1>1, <2>3
      <3> QED
        BY <2>1, <2>2, <2>3, <3>1
    <2>4. CASE j = m + 1
      <3>1. i \in 1 .. n /\ i <= m
        BY <1>1, <2>4
      <3>2. s[i] <= id
        BY <1>3, <3>1
      <3> QED
        BY <2>2, <2>4, <3>1, <3>2
    <2>5. CASE j > m + 1
      <3>1. j - 1 \in 1 .. n /\ m < j - 1
        BY <1>1, <2>5
      <3>2. s[j - 1] > id /\ u[j] = s[j - 1]
        BY <1>3, <2>2, <2>5, <3>1
      <3>3. CASE i <= m
        <4>1. i \in 1 .. n /\ i < j - 1 /\ u[i] = s[i]
          BY <1>1, <2>2, <2>5, <3>3
        <4> QED
          BY <2>1, <3>1, <3>2, <4>1
      <3>4. CASE i = m + 1
        <4>1. u[i] = id
          BY <2>2, <3>4
        <4> QED
          BY <1>1, <3>1, <3>2, <4>1
      <3>5. CASE i > m + 1
        <4>1. i - 1 \in 1 .. n /\ i - 1 < j - 1 /\ u[i] = s[i - 1]
          BY <1>1, <2>2, <3>5
        <4> QED
          BY <2>1, <3>1, <3>2, <4>1
      <3> QED
        BY <3>3, <3>4, <3>5
    <2> QED
      BY <2>3, <2>4, <2>5
  <1>5. ToSet(u) = ToSet(s) \cup {id}
    <2>1. ToSet(u) = { u[i] : i \in 1 .. (n + 1) } /\ ToSet(s) = { s[i] : i \in 1 .. n }
      BY <1>1, <1>3, LenProperties DEF ToSet
    <2>2. \A i \in 1 .. (n + 1) : u[i] \in ToSet(s) \cup {id}
      <3> TAKE i \in 1 .. (n + 1)
      <3>1. (i <= m => i \in 1 .. n) /\ (i > m + 1 => i - 1 \in 1 .. n)
        BY <1>1
      <3> QED
        BY <1>3, <2>1, <3>1
    <2>3. ASSUME NEW i \in 1 .. n PROVE s[i] \in ToSet(u)
      <3>1. CASE i <= m
        <4>1. i \in 1 .. (n + 1) /\ u[i] = s[i]
          BY <1>1, <1>3, <3>1
        <4> QED
          BY <2>1, <4>1
      <3>2. CASE ~(i <= m)
        <4>1. i + 1 \in 1 .. (n + 1) /\ ~(i + 1 <= m) /\ i + 1 # m + 1 /\ (i + 1) - 1 = i
          BY <1>1, <3>2
        <4>2. u[i + 1] = s[i]
          BY <1>3, <4>1
        <4> QED
          BY <2>1, <4>1, <4>2
      <3> QED
        BY <3>1, <3>2
    <2>4. id \in ToSet(u)
      <3>1. m + 1 \in 1 .. (n + 1) /\ ~(m + 1 <= m)
        BY <1>1
      <3>2. u[m + 1] = id
        BY <1>3, <3>1
      <3> QED
        BY <2>1, <3>1, <3>2
    <2> QED
      BY <2>1, <2>2, <2>3, <2>4
  <1> QED
    BY <1>3, <1>4, <1>5 DEF u

\* Sorted gives the cells of a vector in order.
LEMMA SortedIs ==
  ASSUME NEW v \in Seq(CellIds)
  PROVE  /\ Sorted(v) \in Seq(CellIds) /\ Len(Sorted(v)) = Len(v)
         /\ Increasing(Sorted(v)) /\ ToSet(Sorted(v)) = ToSet(v)
  <1> DEFINE n == Len(v)
             S == { s \in Seq(CellIds) : Increasing(s) }
             f == [k \in 1 .. n |-> [s \in S |-> Insert(s, v[k])]]
             g == CHOOSE g : g = [k \in 0 .. n |-> IF k = 0 THEN <<>> ELSE Insert(g[k - 1], v[k])]
  <1>1. n \in Nat /\ DOMAIN v = 1 .. n /\ \A i \in 1 .. n : v[i] \in CellIds
    BY Members
  <1>2. \A k \in 1 .. n, s \in S : Insert(s, v[k]) \in S
    BY <1>1, InsertIs
  <1>3. <<>> \in S
    BY DEF Increasing
  <1>4. g = [k \in 0 .. n |-> IF k = 0 THEN <<>> ELSE Insert(g[k - 1], v[k])]
    <2>1. f \in [1 .. n -> [S -> S]]
      BY <1>2
    <2>2. \A k \in 1 .. n, s \in S : f[k][s] = Insert(s, v[k])
      OBVIOUS
    <2> HIDE DEF f, S
    <2>3. PICK F \in [0 .. n -> S] : Iterates(F, n, <<>>, f)
      <3>1. IsStep(n, S, <<>>, f)
        BY <1>3, <2>1 DEF IsStep
      <3> QED
        BY <1>1, <3>1, IterationExists
    <2>4. \A k \in 0 .. n : k # 0 => k \in 1 .. n /\ k - 1 \in 0 .. n
      BY <1>1
    <2>5. \A k \in 0 .. n : k # 0 => f[k][F[k - 1]] = Insert(F[k - 1], v[k])
      BY <2>2, <2>3, <2>4
    <2>6. F = [k \in 0 .. n |-> IF k = 0 THEN <<>> ELSE Insert(F[k - 1], v[k])]
      BY <2>3, <2>5 DEF Iterates
    <2> QED
      BY <2>6
  <1>5. g[0] = <<>> /\ \A k \in 1 .. n : g[k] = Insert(g[k - 1], v[k])
    <2> HIDE DEF g
    <2>1. 0 \in 0 .. n /\ \A k \in 1 .. n : k \in 0 .. n /\ k # 0
      BY <1>1
    <2> QED
      BY <1>4, <2>1
  <1>6. Sorted(v) = g[n]
    BY DEF Sorted
  <1> HIDE DEF g
  <1> DEFINE good == { k \in 0 .. n : /\ g[k] \in S /\ Len(g[k]) = k
                                      /\ ToSet(g[k]) = { v[i] : i \in 1 .. k } }
  <1>7. 0 \in good
    <2>1. Len(<<>>) = 0 /\ ToSet(<<>>) = {}
      BY OrderedFew
    <2>2. { v[i] : i \in 1 .. 0 } = {} /\ 0 \in 0 .. n
      BY <1>1
    <2>3. g[0] \in S /\ Len(g[0]) = 0 /\ ToSet(g[0]) = { v[i] : i \in 1 .. 0 }
      BY <1>3, <1>5, <2>1, <2>2
    <2> HIDE DEF S
    <2> QED
      BY <2>2, <2>3
  <1>8. \A k \in 1 .. n : k - 1 \in good => k \in good
    <2> TAKE k \in 1 .. n
    <2> HAVE k - 1 \in good
    <2>1. PICK s \in S : s = g[k - 1]
      OBVIOUS
    <2>2. s \in Seq(CellIds) /\ Increasing(s) /\ Len(s) = k - 1 /\ ToSet(s) = { v[i] : i \in 1 .. (k - 1) }
      BY <2>1
    <2>3. g[k] = Insert(s, v[k])
      BY <1>5, <2>1
    <2>4. /\ Insert(s, v[k]) \in Seq(CellIds) /\ Len(Insert(s, v[k])) = Len(s) + 1
          /\ Increasing(Insert(s, v[k])) /\ ToSet(Insert(s, v[k])) = ToSet(s) \cup {v[k]}
      BY <1>1, <2>2, InsertIs
    <2>5. { v[i] : i \in 1 .. k } = { v[i] : i \in 1 .. (k - 1) } \cup {v[k]}
      <3>1. 1 .. k = 1 .. (k - 1) \cup {k}
        BY <1>1
      <3> QED
        BY <3>1
    <2> QED
      BY <1>1, <2>2, <2>3, <2>4, <2>5
  <1>9. n \in good
    <2> HIDE DEF good
    <2>1. Climbs(n, good) /\ n \in 0 .. n
      BY <1>1, <1>7, <1>8 DEF Climbs
    <2> QED
      BY <1>1, <2>1, Climb
  <1>10. ToSet(v) = { v[i] : i \in 1 .. n }
    BY <1>1 DEF ToSet
  <1> QED
    BY <1>6, <1>9, <1>10

-----------------------------------------------------------------------------
(* Normalize.                                                              *)

\* The cells dropped from the end of a vector that is followed by id are those
\* in id; the others precede it, if the last of them does not contain it.
LEMMA DropIs ==
  ASSUME NEW out \in Seq(CellIds), NEW id \in CellIds
  PROVE  /\ DropContained(out, id) \in Seq(CellIds)
         /\ /\ IsNormalized(out)
            /\ \A y \in ToSet(out) : range_min(y) <= id
            /\ ~(out # <<>> /\ contains(Last(out), id))
            => /\ IsNormalized(DropContained(out, id))
               /\ \A y \in ToSet(DropContained(out, id)) : EntirelyPrecedes(y, id) /\ y \in ToSet(out)
               /\ LeavesOf(DropContained(out, id)) \cup Leaves(id) = LeavesOf(out) \cup Leaves(id)
  <1> DEFINE n == Len(out)
             A == {0} \cup { i \in DOMAIN out : ~contains(id, out[i]) }
             m == Max(A)
             kept == SubSeq(out, 1, m)
  <1>1. n \in Nat /\ DOMAIN out = 1 .. n /\ \A i \in 1 .. n : out[i] \in CellIds /\ out[i] \in ToSet(out)
    BY Members
  <1>2. m \in A /\ \A i \in A : i <= m
    <2>1. A \subseteq 0 .. n /\ A # {}
      BY <1>1
    <2> HIDE DEF A
    <2> QED
      BY <1>1, <2>1, GreatestIsMax
  <1>3. m \in 0 .. n
    BY <1>1, <1>2
  <1>4. (m # 0 => ~contains(id, out[m])) /\ \A i \in 1 .. n : m < i => contains(id, out[i])
    <2>1. m # 0 => m \in { i \in DOMAIN out : ~contains(id, out[i]) }
      BY <1>2
    <2>2. ASSUME NEW i \in 1 .. n, m < i PROVE contains(id, out[i])
      <3>1. ~(i <= m)
        BY <1>3, <2>2
      <3> QED
        BY <1>1, <1>2, <3>1
    <2> QED
      BY <2>1, <2>2
  <1>5. DropContained(out, id) = kept
    BY DEF DropContained
  <1> HIDE DEF m
  <1>6. kept \in Seq(CellIds)
    <2>1. \A i \in 1 .. m : out[i] \in CellIds
      BY <1>1, <1>3
    <2> QED
      BY <1>3, <2>1, SubSeqProperties
  <1>7. ASSUME IsNormalized(out), \A y \in ToSet(out) : range_min(y) <= id,
               ~(out # <<>> /\ contains(Last(out), id))
        PROVE  /\ IsNormalized(kept)
               /\ \A y \in ToSet(kept) : EntirelyPrecedes(y, id) /\ y \in ToSet(out)
               /\ LeavesOf(kept) \cup Leaves(id) = LeavesOf(out) \cup Leaves(id)
    <2>1. Ordered(out)
      BY <1>7, NormalizedIs
    <2>2. \A i, j \in 1 .. n : i < j => EntirelyPrecedes(out[i], out[j])
      BY <2>1 DEF Ordered
    <2>3. \A i \in 1 .. n : ~EntirelyPrecedes(id, out[i])
      <3> TAKE i \in 1 .. n
      <3>1. PICK y \in CellIds : y = out[i] /\ range_min(y) <= id
        BY <1>1, <1>7
      <3>2. range_min(y) \in Nat /\ id \in Nat /\ range_max(id) \in Nat /\ id <= range_max(id)
        BY CellFacts
      <3> QED
        BY <3>1, <3>2 DEF EntirelyPrecedes
    <2>4. \A i \in 1 .. n : ~contains(out[i], id)
      <3> TAKE i \in 1 .. n
      <3>1. n \in 1 .. n /\ out # <<>> /\ Last(out) = out[n]
        BY <1>1 DEF Last
      <3>2. CASE i = n
        BY <1>7, <3>1, <3>2
      <3>3. CASE i < n
        <4>1. EntirelyPrecedes(out[i], out[n])
          BY <2>2, <3>1, <3>3
        <4>2. contains(out[i], id) => EntirelyPrecedes(id, out[n])
          BY <1>1, <3>1, <4>1, CellOrders
        <4> QED
          BY <2>3, <3>1, <4>2
      <3>4. i = n \/ i < n
        <4>1. n \in Nat
          BY <1>1
        <4> HIDE DEF n
        <4> QED
          BY <4>1
      <3> QED
        BY <3>2, <3>3, <3>4
    <2>5. \A i \in 1 .. m : EntirelyPrecedes(out[i], id)
      <3> TAKE i \in 1 .. m
      <3>1. m \in 1 .. n /\ i \in 1 .. n /\ m # 0
        BY <1>1, <1>3
      <3>2. EntirelyPrecedes(out[m], id)
        BY <1>1, <1>4, <2>3, <2>4, <3>1, CellOrder
      <3>3. CASE i = m
        BY <3>2, <3>3
      <3>4. CASE i # m
        <4>1. i < m
          BY <1>3, <3>4
        <4>2. EntirelyPrecedes(out[i], out[m])
          BY <2>2, <3>1, <4>1
        <4> QED
          BY <1>1, <3>1, <3>2, <4>2, CellOrders
      <3> QED
        BY <3>3, <3>4
    <2>6. 1 \in Int /\ m \in Int /\ m <= n
      BY <1>1, <1>3
    <2>7. IsNormalized(kept) /\ ToSet(kept) = { out[i] : i \in 1 .. m }
      BY <1>7, <2>1, <2>6, NormalizedPart, OrderedPart
    <2>8. \A y \in ToSet(kept) : EntirelyPrecedes(y, id) /\ y \in ToSet(out)
      <3>1. \A i \in 1 .. m : i \in 1 .. n
        BY <1>1, <1>3
      <3> QED
        BY <1>1, <2>5, <2>7, <3>1
    <2>9. /\ LeavesOf(kept) = UNION { Leaves(y) : y \in ToSet(kept) }
          /\ LeavesOf(out) = UNION { Leaves(y) : y \in ToSet(out) }
      BY <1>6, Members
    <2>10. \A y \in ToSet(out) : y \in ToSet(kept) \/ Leaves(y) \subseteq Leaves(id)
      <3> TAKE y \in ToSet(out)
      <3>1. PICK i \in 1 .. n : out[i] = y
        BY Members
      <3>2. CASE i <= m
        <4>1. i \in 1 .. m
          BY <1>3, <3>2
        <4> QED
          BY <2>7, <3>1, <4>1
      <3>3. CASE m < i
        <4>1. contains(id, y) /\ y \in CellIds
          BY <1>1, <1>4, <3>1, <3>3
        <4> QED
          BY <4>1, LeafLaws
      <3> QED
        BY <1>3, <3>2, <3>3
    <2> HIDE DEF kept
    <2>11. LeavesOf(kept) \cup Leaves(id) = LeavesOf(out) \cup Leaves(id)
      BY <2>8, <2>9, <2>10
    <2> QED
      BY <2>7, <2>8, <2>11
  <1> HIDE DEF kept
  <1> QED
    BY <1>5, <1>6, <1>7

\* One round of Collapse.
CollapseStep(s) ==
  LET n == Len(s.out)
  IN  IF n >= 3 /\ AreSiblings(s.out[n - 2], s.out[n - 1], s.out[n], s.id)
      THEN [out |-> SubSeq(s.out, 1, n - 3), id |-> parent(s.id)]
      ELSE s

CollapseStates == [out : Seq(CellIds), id : CellIds]

LEMMA CollapseStepType ==
  ASSUME NEW s \in CollapseStates
  PROVE  CollapseStep(s) \in CollapseStates
  <1> DEFINE n == Len(s.out)
  <1>1. s.out \in Seq(CellIds) /\ s.id \in CellIds
    BY DEF CollapseStates
  <1>2. CASE n >= 3 /\ AreSiblings(s.out[n - 2], s.out[n - 1], s.out[n], s.id)
    <2>1. parent(s.id) \in CellIds
      BY <1>1, <1>2, ParentForm DEF AreSiblings
    <2>2. n \in Nat /\ 1 \in Int /\ n - 3 \in Int /\ \A i \in 1 .. (n - 3) : s.out[i] \in CellIds
      BY <1>1
    <2>3. SubSeq(s.out, 1, n - 3) \in Seq(CellIds)
      BY <2>2, SubSeqProperties
    <2>4. CollapseStep(s) = [out |-> SubSeq(s.out, 1, n - 3), id |-> parent(s.id)]
      BY <1>2 DEF CollapseStep
    <2> HIDE DEF n
    <2> QED
      BY <2>1, <2>3, <2>4 DEF CollapseStates
  <1>3. CASE ~(n >= 3 /\ AreSiblings(s.out[n - 2], s.out[n - 1], s.out[n], s.id))
    <2>1. CollapseStep(s) = s
      BY <1>3 DEF CollapseStep
    <2> QED
      BY <2>1
  <1> QED
    BY <1>2, <1>3

\* Collapse is a number of rounds.
LEMMA CollapseRuns ==
  ASSUME NEW out \in Seq(CellIds), NEW id \in CellIds
  PROVE  \E g : /\ g[0] = [out |-> out, id |-> id]
                /\ \A i \in 0 .. MaxLevel : g[i] \in CollapseStates
                /\ \A i \in 1 .. MaxLevel : g[i] = CollapseStep(g[i - 1])
                /\ Collapse(out, id) = Append(g[MaxLevel].out, g[MaxLevel].id)
  <1> DEFINE S == CollapseStates
             N == MaxLevel
             base == [out |-> out, id |-> id]
             f == [i \in 1 .. N |-> [s \in S |-> CollapseStep(s)]]
             g == CHOOSE g : g = [i \in 0 .. N |-> IF i = 0 THEN base ELSE CollapseStep(g[i - 1])]
  <1>1. N \in Nat /\ N \in 0 .. N
    BY LevelAssumption
  <1>2. base \in S
    BY DEF CollapseStates
  <1>3. \A s \in S : CollapseStep(s) \in S
    BY CollapseStepType
  <1>4. Collapse(out, id) = Append(g[MaxLevel].out, g[MaxLevel].id)
    BY DEF Collapse, CollapseStep
  <1> HIDE DEF base, S, N
  <1>5. g = [i \in 0 .. N |-> IF i = 0 THEN base ELSE CollapseStep(g[i - 1])]
    <2>1. f \in [1 .. N -> [S -> S]]
      BY <1>3
    <2>2. \A i \in 1 .. N, s \in S : f[i][s] = CollapseStep(s)
      OBVIOUS
    <2> HIDE DEF f
    <2>3. PICK F \in [0 .. N -> S] : Iterates(F, N, base, f)
      <3>1. IsStep(N, S, base, f)
        BY <1>2, <2>1 DEF IsStep
      <3> QED
        BY <1>1, <3>1, IterationExists
    <2>4. \A i \in 0 .. N : i # 0 => i \in 1 .. N /\ i - 1 \in 0 .. N
      BY <1>1
    <2>5. \A i \in 0 .. N : i # 0 => f[i][F[i - 1]] = CollapseStep(F[i - 1])
      BY <2>2, <2>3, <2>4
    <2>6. F = [i \in 0 .. N |-> IF i = 0 THEN base ELSE CollapseStep(F[i - 1])]
      BY <2>3, <2>5 DEF Iterates
    <2> QED
      BY <2>6
  <1> HIDE DEF g
  <1>6. g[0] = base /\ \A i \in 1 .. N : g[i] = CollapseStep(g[i - 1])
    <2>1. 0 \in 0 .. N /\ \A i \in 1 .. N : i \in 0 .. N /\ i # 0
      BY <1>1
    <2> QED
      BY <1>5, <2>1
  <1> DEFINE good == { i \in 0 .. N : g[i] \in S }
  <1>7. Climbs(N, good)
    <2>1. 0 \in good
      BY <1>1, <1>2, <1>6
    <2>2. \A i \in 1 .. N : i - 1 \in good => i \in good
      BY <1>1, <1>3, <1>6
    <2> QED
      BY <2>1, <2>2 DEF Climbs
  <1>8. \A i \in 0 .. N : g[i] \in S
    <2> HIDE DEF good
    <2>1. \A i \in 0 .. N : i \in good
      BY <1>1, <1>7, Climb
    <2> QED
      BY <2>1 DEF good
  <1> QED
    BY <1>4, <1>6, <1>8 DEF base, S, N

\* What Collapse keeps: a normalized vector before a cell that contains id, and
\* the leaf cells of both.
Collapsing(out, id, s) ==
  /\ s \in CollapseStates /\ IsNormalized(s.out) /\ contains(s.id, id)
  /\ \A y \in ToSet(s.out) : EntirelyPrecedes(y, s.id) /\ y \in ToSet(out)
  /\ LeavesOf(s.out) \cup Leaves(s.id) = LeavesOf(out) \cup Leaves(id)

\* Nothing is left to collapse.
Collapsed(s) ==
  LET n == Len(s.out)
  IN  ~(n >= 3 /\ AreSiblings(s.out[n - 2], s.out[n - 1], s.out[n], s.id))

LEMMA CollapseStepIs ==
  ASSUME NEW out, NEW id \in CellIds, NEW s, Collapsing(out, id, s)
  PROVE  /\ Collapsing(out, id, CollapseStep(s))
         /\ Collapsed(s) => CollapseStep(s) = s
         /\ ~Collapsed(s) => /\ level(CollapseStep(s).id) = level(s.id) - 1
                             /\ level(s.id) # 0
  <1> DEFINE n == Len(s.out)
             d == s.id
  <1>1. s.out \in Seq(CellIds) /\ d \in CellIds /\ IsNormalized(s.out) /\ contains(d, id)
        /\ (\A y \in ToSet(s.out) : EntirelyPrecedes(y, d) /\ y \in ToSet(out))
        /\ LeavesOf(s.out) \cup Leaves(d) = LeavesOf(out) \cup Leaves(id)
    BY DEF Collapsing, CollapseStates
  <1>2. CASE Collapsed(s)
    <2>1. CollapseStep(s) = s
      BY <1>2 DEF Collapsed, CollapseStep
    <2> QED
      BY <1>2, <2>1
  <1>3. CASE ~Collapsed(s)
    <2>1. n >= 3 /\ AreSiblings(s.out[n - 2], s.out[n - 1], s.out[n], d)
      BY <1>3 DEF Collapsed
    <2>2. CollapseStep(s) = [out |-> SubSeq(s.out, 1, n - 3), id |-> parent(d)]
      BY <2>1 DEF CollapseStep
    <2>3. /\ n \in Nat /\ Ordered(s.out)
          /\ \A i \in 1 .. n : s.out[i] \in CellIds /\ s.out[i] \in ToSet(s.out)
      BY <1>1, Members, NormalizedIs
    <2>4. n - 2 \in 1 .. n /\ n - 1 \in 1 .. n /\ n \in 1 .. n /\ n - 2 < n - 1 /\ n - 1 < n
      BY <2>1, <2>3
    <2>5. PICK a \in CellIds, b \in CellIds, c \in CellIds :
            a = s.out[n - 2] /\ b = s.out[n - 1] /\ c = s.out[n]
      BY <2>3, <2>4
    <2>6. EntirelyPrecedes(a, b) /\ EntirelyPrecedes(b, c) /\ EntirelyPrecedes(c, d)
      BY <1>1, <2>3, <2>4, <2>5 DEF Ordered
    <2>7. AreSiblings(a, b, c, d)
      BY <2>1, <2>5
    <2>8. PICK p \in CellIds : p = parent(d)
      BY <1>1, <2>6, <2>7, SiblingsAre
    <2>9. /\ lsb(p) # 1 /\ level(p) = level(d) - 1
          /\ a = child(p, 0) /\ b = child(p, 1) /\ c = child(p, 2) /\ d = child(p, 3)
      BY <1>1, <2>6, <2>7, <2>8, SiblingsAre
    <2>10. contains(p, d) /\ range_min(a) = range_min(p)
           /\ Leaves(p) = Leaves(a) \cup Leaves(b) \cup Leaves(c) \cup Leaves(d)
      <3>1. 0 \in 0 .. 3 /\ 3 \in 0 .. 3
        OBVIOUS
      <3>2. contains(p, d) /\ range_min(a) = range_min(p)
            /\ Leaves(p) = UNION { Leaves(child(p, m)) : m \in 0 .. 3 }
        BY <2>9, <3>1, ChildrenTile
      <3>3. 0 .. 3 = {0, 1, 2, 3}
        OBVIOUS
      <3>4. UNION { Leaves(child(p, m)) : m \in {0, 1, 2, 3} }
              = Leaves(child(p, 0)) \cup Leaves(child(p, 1)) \cup Leaves(child(p, 2)) \cup Leaves(child(p, 3))
        OBVIOUS
      <3> QED
        BY <2>9, <3>2, <3>3, <3>4
    <2> DEFINE w == SubSeq(s.out, 1, n - 3)
    <2>11. w \in Seq(CellIds) /\ IsNormalized(w) /\ ToSet(w) = { s.out[i] : i \in 1 .. (n - 3) }
      <3>1. 1 \in Int /\ n - 3 \in Int /\ n - 3 <= n
        BY <2>1, <2>3
      <3> QED
        BY <1>1, <2>3, <3>1, NormalizedPart, OrderedPart
    <2>12. \A y \in ToSet(w) : EntirelyPrecedes(y, a) /\ y \in ToSet(s.out)
      <3> SUFFICES ASSUME NEW i \in 1 .. (n - 3)
                   PROVE  EntirelyPrecedes(s.out[i], a) /\ s.out[i] \in ToSet(s.out)
        BY <2>11
      <3>1. i \in 1 .. n /\ i < n - 2
        BY <2>1, <2>3
      <3> QED
        BY <2>3, <2>4, <2>5, <3>1 DEF Ordered
    <2>13. ToSet(s.out) = ToSet(w) \cup {a, b, c}
      <3>1. ToSet(s.out) = { s.out[i] : i \in 1 .. n }
        BY <1>1, LenProperties DEF ToSet
      <3>2. 1 .. n = 1 .. (n - 3) \cup {n - 2, n - 1, n}
        BY <2>1, <2>3
      <3> HIDE DEF w, n
      <3> QED
        BY <2>5, <2>11, <3>1, <3>2
    <2> HIDE DEF w, d
    <2>14. LeavesOf(w) \cup Leaves(p) = LeavesOf(s.out) \cup Leaves(d)
      <3>1. /\ LeavesOf(s.out) = UNION { Leaves(y) : y \in ToSet(s.out) }
            /\ LeavesOf(w) = UNION { Leaves(y) : y \in ToSet(w) }
        BY <1>1, <2>11, Members
      <3>2. LeavesOf(s.out) = LeavesOf(w) \cup Leaves(a) \cup Leaves(b) \cup Leaves(c)
        BY <2>13, <3>1
      <3> QED
        BY <2>10, <3>2
    <2>15. \A y \in ToSet(w) : EntirelyPrecedes(y, p) /\ y \in ToSet(out)
      <3> TAKE y \in ToSet(w)
      <3>1. EntirelyPrecedes(y, a) /\ y \in ToSet(s.out)
        BY <2>12
      <3> QED
        BY <1>1, <2>10, <3>1 DEF EntirelyPrecedes
    <2>16. contains(p, id)
      BY <1>1, <2>10, CellOrders
    <2>17. PICK t \in CollapseStates : t = CollapseStep(s) /\ t.out = w /\ t.id = p
      <3>1. [out |-> w, id |-> p] \in CollapseStates
        BY <2>11 DEF CollapseStates
      <3>2. CollapseStep(s) = [out |-> w, id |-> p]
        BY <2>2, <2>8 DEF w, d
      <3> QED
        BY <3>1, <3>2
    <2>18. Collapsing(out, id, t)
      BY <1>1, <2>11, <2>14, <2>15, <2>16, <2>17 DEF Collapsing
    <2>19. level(d) # 0
      <3>1. level(p) \in 0 .. MaxLevel
        BY CellForm
      <3>2. level(d) \in 0 .. MaxLevel
        BY <1>1, CellForm
      <3> QED
        BY <2>9, <3>1, <3>2
    <2> QED
      BY <1>3, <2>9, <2>17, <2>18, <2>19 DEF d
  <1> QED
    BY <1>2, <1>3

\* Collapse appends a cell, or what it and the last cells before it make up.
LEMMA CollapseIs ==
  ASSUME NEW out \in Seq(CellIds), NEW id \in CellIds, IsNormalized(out),
         \A y \in ToSet(out) : EntirelyPrecedes(y, id)
  PROVE  /\ Collapse(out, id) \in Seq(CellIds) /\ IsNormalized(Collapse(out, id))
         /\ LeavesOf(Collapse(out, id)) = LeavesOf(out) \cup Leaves(id)
         /\ \A y \in ToSet(Collapse(out, id)) : y \in ToSet(out) \/ contains(y, id)
  <1>1. PICK g : /\ g[0] = [out |-> out, id |-> id]
                 /\ \A i \in 0 .. MaxLevel : g[i] \in CollapseStates
                 /\ \A i \in 1 .. MaxLevel : g[i] = CollapseStep(g[i - 1])
                 /\ Collapse(out, id) = Append(g[MaxLevel].out, g[MaxLevel].id)
    BY CollapseRuns
  <1> DEFINE N == MaxLevel
             Fine(i) == /\ Collapsing(out, id, g[i])
                        /\ Collapsed(g[i]) \/ level(g[i].id) <= N - i
             good == { i \in 0 .. N : Fine(i) }
  <1>2. N \in Nat
    BY LevelAssumption
  <1>3. Fine(0)
    <2>1. PICK s \in CollapseStates : s = g[0] /\ s.out = out /\ s.id = id
      <3>1. [out |-> out, id |-> id] \in CollapseStates
        BY DEF CollapseStates
      <3> QED
        BY <1>1, <3>1
    <2>2. contains(id, id)
      BY CellOrder
    <2>3. Collapsing(out, id, s)
      BY <2>1, <2>2 DEF Collapsing
    <2>4. level(s.id) <= N - 0
      BY <1>2, <2>1, CellForm
    <2> QED
      BY <2>1, <2>3, <2>4
  <1>4. ASSUME NEW i \in 1 .. N, Fine(i - 1) PROVE Fine(i)
    <2>1. PICK s : s = g[i - 1]
      OBVIOUS
    <2>2. Collapsing(out, id, s) /\ (Collapsed(s) \/ level(s.id) <= N - (i - 1)) /\ g[i] = CollapseStep(s)
      BY <1>1, <1>4, <2>1
    <2>3. Collapsing(out, id, g[i])
      BY <2>2, CollapseStepIs
    <2>4. CASE Collapsed(s)
      <3>1. g[i] = s
        BY <2>2, <2>4, CollapseStepIs
      <3> QED
        BY <2>3, <2>4, <3>1
    <2>5. CASE ~Collapsed(s)
      <3>1. level(g[i].id) = level(s.id) - 1
        BY <2>2, <2>5, CollapseStepIs
      <3>2. level(s.id) \in Nat
        BY <2>2, CellForm DEF Collapsing, CollapseStates
      <3>3. level(g[i].id) <= N - i
        BY <1>2, <2>2, <2>5, <3>1, <3>2
      <3> QED
        BY <2>3, <3>3
    <2> QED
      BY <2>4, <2>5
  <1> HIDE DEF Fine
  <1>5. Climbs(N, good)
    <2>1. 0 \in good
      BY <1>2, <1>3
    <2>2. \A i \in 1 .. N : i - 1 \in good => i \in good
      BY <1>4
    <2> QED
      BY <2>1, <2>2 DEF Climbs
  <1>6. Fine(N)
    <2> HIDE DEF good
    <2>1. N \in 0 .. N /\ \A i \in 0 .. N : i \in good
      BY <1>2, <1>5, Climb
    <2> QED
      BY <2>1 DEF good
  <1>7. PICK s : s = g[N]
    OBVIOUS
  <1>8. Collapsing(out, id, s) /\ (Collapsed(s) \/ level(s.id) <= N - N)
    BY <1>6, <1>7 DEF Fine
  <1>9. Collapsed(s)
    <2>1. s.id \in CellIds
      BY <1>8 DEF Collapsing, CollapseStates
    <2>2. level(s.id) \in 0 .. MaxLevel
      BY <2>1, CellForm
    <2>3. level(s.id) <= N - N => level(s.id) = 0
      BY <1>2, <2>2
    <2>4. ~Collapsed(s) => level(s.id) # 0
      BY <1>8, CollapseStepIs
    <2> QED
      BY <1>8, <2>3, <2>4
  <1>10. /\ s.out \in Seq(CellIds) /\ s.id \in CellIds /\ IsNormalized(s.out) /\ contains(s.id, id)
         /\ \A y \in ToSet(s.out) : EntirelyPrecedes(y, s.id) /\ y \in ToSet(out)
         /\ LeavesOf(s.out) \cup Leaves(s.id) = LeavesOf(out) \cup Leaves(id)
    BY <1>8 DEF Collapsing, CollapseStates
  <1>11. ~(Len(s.out) >= 3
            /\ AreSiblings(s.out[Len(s.out) - 2], s.out[Len(s.out) - 1], s.out[Len(s.out)], s.id))
    BY <1>9 DEF Collapsed
  <1>12. PICK w \in Seq(CellIds), x \in CellIds : w = s.out /\ x = s.id
    BY <1>10
  <1>13. /\ Append(w, x) \in Seq(CellIds) /\ IsNormalized(Append(w, x))
         /\ ToSet(Append(w, x)) = ToSet(w) \cup {x}
         /\ LeavesOf(Append(w, x)) = LeavesOf(w) \cup Leaves(x)
    <2>1. \A y \in ToSet(w) : EntirelyPrecedes(y, x)
      BY <1>10, <1>12
    <2>2. ~(Len(w) >= 3 /\ AreSiblings(w[Len(w) - 2], w[Len(w) - 1], w[Len(w)], x))
      BY <1>11, <1>12
    <2>3. IsNormalized(w)
      BY <1>10, <1>12
    <2> QED
      BY <2>1, <2>2, <2>3, NormalizedAppend
  <1>14. Collapse(out, id) = Append(w, x)
    BY <1>1, <1>7, <1>12
  <1> QED
    BY <1>10, <1>12, <1>13, <1>14

\* A step of Normalize gives a vector of cells.
LEMMA NormalizeStepType ==
  ASSUME NEW out \in Seq(CellIds), NEW id \in CellIds
  PROVE  NormalizeStep(out, id) \in Seq(CellIds)
  <1>1. PICK w \in Seq(CellIds) : w = DropContained(out, id)
    BY DropIs
  <1>2. Collapse(w, id) \in Seq(CellIds)
    <2>1. PICK g : /\ g[0] = [out |-> w, id |-> id]
                   /\ \A i \in 0 .. MaxLevel : g[i] \in CollapseStates
                   /\ \A i \in 1 .. MaxLevel : g[i] = CollapseStep(g[i - 1])
                   /\ Collapse(w, id) = Append(g[MaxLevel].out, g[MaxLevel].id)
      BY CollapseRuns
    <2>2. g[MaxLevel] \in CollapseStates
      <3>1. MaxLevel \in 0 .. MaxLevel
        BY LevelAssumption
      <3> QED
        BY <2>1, <3>1
    <2>3. g[MaxLevel].out \in Seq(CellIds) /\ g[MaxLevel].id \in CellIds
      BY <2>2 DEF CollapseStates
    <2>4. PICK x \in Seq(CellIds), y \in CellIds : x = g[MaxLevel].out /\ y = g[MaxLevel].id
      BY <2>3
    <2>5. Append(x, y) \in Seq(CellIds)
      OBVIOUS
    <2> QED
      BY <2>1, <2>4, <2>5
  <1> QED
    BY <1>1, <1>2 DEF NormalizeStep

\* A step of Normalize takes a cell that none before it begins behind.
LEMMA NormalizeStepIs ==
  ASSUME NEW out \in Seq(CellIds), IsNormalized(out), NEW id \in CellIds,
         \A y \in ToSet(out) : range_min(y) <= id
  PROVE  /\ IsNormalized(NormalizeStep(out, id))
         /\ LeavesOf(NormalizeStep(out, id)) = LeavesOf(out) \cup Leaves(id)
         /\ \A y \in ToSet(NormalizeStep(out, id)) : y \in ToSet(out) \/ contains(y, id)
  <1>1. CASE out # <<>> /\ contains(Last(out), id)
    <2>1. NormalizeStep(out, id) = out
      BY <1>1 DEF NormalizeStep
    <2>2. Last(out) \in ToSet(out) /\ Last(out) \in CellIds
      <3>1. Len(out) \in Nat /\ \A i \in 1 .. Len(out) : out[i] \in CellIds /\ out[i] \in ToSet(out)
        BY Members
      <3>2. Len(out) \in 1 .. Len(out)
        BY <1>1
      <3> QED
        BY <3>1, <3>2 DEF Last
    <2>3. Leaves(id) \subseteq Leaves(Last(out))
      BY <1>1, <2>2, LeafLaws
    <2>4. LeavesOf(out) = UNION { Leaves(x) : x \in ToSet(out) }
      BY Members
    <2> QED
      BY <2>1, <2>2, <2>3, <2>4
  <1>2. CASE ~(out # <<>> /\ contains(Last(out), id))
    <2>1. PICK w \in Seq(CellIds) : w = DropContained(out, id)
      BY DropIs
    <2>2. /\ IsNormalized(w) /\ \A y \in ToSet(w) : EntirelyPrecedes(y, id) /\ y \in ToSet(out)
          /\ LeavesOf(w) \cup Leaves(id) = LeavesOf(out) \cup Leaves(id)
      BY <1>2, <2>1, DropIs
    <2>3. NormalizeStep(out, id) = Collapse(w, id)
      BY <1>2, <2>1 DEF NormalizeStep
    <2>4. /\ IsNormalized(Collapse(w, id))
          /\ LeavesOf(Collapse(w, id)) = LeavesOf(w) \cup Leaves(id)
          /\ \A y \in ToSet(Collapse(w, id)) : y \in ToSet(w) \/ contains(y, id)
      <3>1. \A y \in ToSet(w) : EntirelyPrecedes(y, id)
        BY <2>2
      <3>2. IsNormalized(w)
        BY <2>2
      <3> QED
        BY <3>1, <3>2, CollapseIs
    <2> QED
      BY <2>2, <2>3, <2>4
  <1> QED
    BY <1>1, <1>2

\* Normalize makes any vector of cells, in any order, repeated and nested, into
\* the normalized one that has the same leaf cells.
LEMMA NormalizeIs ==
  ASSUME NEW v \in Seq(CellIds)
  PROVE  /\ Normalize(v) \in Seq(CellIds) /\ IsNormalized(Normalize(v))
         /\ LeavesOf(Normalize(v)) = LeavesOf(v)
  <1> DEFINE n == Len(v)
             t == Sorted(v)
             S == Seq(CellIds)
             f == [k \in 1 .. n |-> [s \in S |-> NormalizeStep(s, t[k])]]
             g == CHOOSE g : g = [k \in 0 .. n |-> IF k = 0 THEN <<>> ELSE NormalizeStep(g[k - 1], t[k])]
  <1>1. n \in Nat /\ t \in S /\ Len(t) = n /\ Increasing(t) /\ ToSet(t) = ToSet(v)
    BY Members, SortedIs
  <1>2. \A i \in 1 .. n : t[i] \in CellIds
    <2> HIDE DEF t, n
    <2> QED
      BY <1>1, Members
  <1>3. Normalize(v) = g[n]
    BY DEF Normalize
  <1> HIDE DEF t
  <1>4. g = [k \in 0 .. n |-> IF k = 0 THEN <<>> ELSE NormalizeStep(g[k - 1], t[k])]
    <2>1. f \in [1 .. n -> [S -> S]]
      BY <1>2, NormalizeStepType
    <2>2. \A k \in 1 .. n, s \in S : f[k][s] = NormalizeStep(s, t[k])
      OBVIOUS
    <2>3. <<>> \in S
      OBVIOUS
    <2> HIDE DEF f, S
    <2>4. PICK F \in [0 .. n -> S] : Iterates(F, n, <<>>, f)
      <3>1. IsStep(n, S, <<>>, f)
        BY <2>1, <2>3 DEF IsStep
      <3> QED
        BY <1>1, <3>1, IterationExists
    <2>5. \A k \in 0 .. n : k # 0 => k \in 1 .. n /\ k - 1 \in 0 .. n
      BY <1>1
    <2>6. \A k \in 0 .. n : k # 0 => f[k][F[k - 1]] = NormalizeStep(F[k - 1], t[k])
      BY <2>2, <2>4, <2>5
    <2>7. F = [k \in 0 .. n |-> IF k = 0 THEN <<>> ELSE NormalizeStep(F[k - 1], t[k])]
      BY <2>4, <2>6 DEF Iterates
    <2> QED
      BY <2>7
  <1> HIDE DEF g
  <1>5. g[0] = <<>> /\ \A k \in 1 .. n : g[k] = NormalizeStep(g[k - 1], t[k])
    <2>1. 0 \in 0 .. n /\ \A k \in 1 .. n : k \in 0 .. n /\ k # 0
      BY <1>1
    <2> QED
      BY <1>4, <2>1
  <1> DEFINE Fine(k) == /\ g[k] \in Seq(CellIds) /\ IsNormalized(g[k])
                        /\ \A y \in ToSet(g[k]) : \E i \in 1 .. k : range_min(y) <= t[i]
                        /\ LeavesOf(g[k]) = UNION { Leaves(t[i]) : i \in 1 .. k }
             good == { k \in 0 .. n : Fine(k) }
  <1>6. Fine(0)
    <2>1. Ordered(<<>>) /\ ToSet(<<>>) = {} /\ LeavesOf(<<>>) = {} /\ <<>> \in Seq(CellIds)
      BY OrderedFew DEF Ordered
    <2>2. NoFamily({})
      <3>1. 0 \in 0 .. 3
        OBVIOUS
      <3> QED
        BY <3>1 DEF NoFamily
    <2>3. IsNormalized(<<>>)
      BY <2>1, <2>2, NormalizedIs
    <2>4. 1 .. 0 = {}
      OBVIOUS
    <2> QED
      BY <1>5, <2>1, <2>3, <2>4
  <1>7. ASSUME NEW k \in 1 .. n, Fine(k - 1) PROVE Fine(k)
    <2>1. PICK out \in Seq(CellIds), id \in CellIds : out = g[k - 1] /\ id = t[k]
      BY <1>2, <1>7
    <2>2. /\ IsNormalized(out) /\ g[k] = NormalizeStep(out, id)
          /\ LeavesOf(out) = UNION { Leaves(t[i]) : i \in 1 .. (k - 1) }
      BY <1>5, <1>7, <2>1
    <2>3. \A y \in ToSet(out) : range_min(y) <= id
      <3> TAKE y \in ToSet(out)
      <3>1. PICK i \in 1 .. (k - 1) : range_min(y) <= t[i]
        BY <1>7, <2>1
      <3>2. i \in 1 .. n /\ i < k
        BY <1>1
      <3>3. t[i] <= id
        BY <1>1, <2>1, <3>2 DEF Increasing
      <3>4. y \in CellIds /\ t[i] \in CellIds
        BY <1>2, <3>2, Members
      <3>5. range_min(y) \in Nat /\ t[i] \in Nat /\ id \in Nat
        BY <3>4, CellFacts
      <3> QED
        BY <3>1, <3>3, <3>5
    <2>4. /\ NormalizeStep(out, id) \in Seq(CellIds)
          /\ IsNormalized(NormalizeStep(out, id))
          /\ LeavesOf(NormalizeStep(out, id)) = LeavesOf(out) \cup Leaves(id)
          /\ \A y \in ToSet(NormalizeStep(out, id)) : y \in ToSet(out) \/ contains(y, id)
      BY <2>2, <2>3, NormalizeStepIs, NormalizeStepType
    <2>5. 1 .. k = 1 .. (k - 1) \cup {k} /\ k \in 1 .. k
      OBVIOUS
    <2>6. \A y \in ToSet(g[k]) : \E i \in 1 .. k : range_min(y) <= t[i]
      <3> TAKE y \in ToSet(g[k])
      <3>1. CASE y \in ToSet(out)
        BY <1>7, <2>1, <2>5, <3>1
      <3>2. CASE contains(y, id)
        <4>1. range_min(y) <= id
          <5>1. y \in CellIds
            BY <2>2, <2>4, Members
          <5>2. range_min(y) \in Nat /\ id \in Nat
            BY <5>1, CellFacts
          <5> QED
            BY <3>2, <5>2 DEF contains
        <4> QED
          BY <2>1, <2>5, <4>1
      <3> QED
        BY <2>2, <2>4, <3>1, <3>2
    <2>7. LeavesOf(g[k]) = UNION { Leaves(t[i]) : i \in 1 .. k }
      <3>1. UNION { Leaves(t[i]) : i \in 1 .. k }
              = (UNION { Leaves(t[i]) : i \in 1 .. (k - 1) }) \cup Leaves(t[k])
        BY <2>5
      <3> QED
        BY <2>1, <2>2, <2>4, <3>1
    <2> QED
      BY <2>2, <2>4, <2>6, <2>7
  <1> HIDE DEF Fine
  <1>8. Climbs(n, good)
    <2>1. 0 \in good
      BY <1>1, <1>6
    <2>2. \A k \in 1 .. n : k - 1 \in good => k \in good
      BY <1>7
    <2> QED
      BY <2>1, <2>2 DEF Climbs
  <1>9. Fine(n)
    <2> HIDE DEF good
    <2>1. n \in 0 .. n /\ \A k \in 0 .. n : k \in good
      BY <1>1, <1>8, Climb
    <2> QED
      BY <2>1 DEF good
  <1>10. LeavesOf(v) = UNION { Leaves(t[i]) : i \in 1 .. n }
    <2>1. LeavesOf(v) = UNION { Leaves(x) : x \in ToSet(t) }
      BY <1>1, Members
    <2>2. ToSet(t) = { t[i] : i \in 1 .. n }
      BY <1>1, LenProperties DEF ToSet
    <2> QED
      BY <2>1, <2>2
  <1> QED
    BY <1>3, <1>9, <1>10 DEF Fine

\* The union of two vectors.
LEMMA UnionIs ==
  ASSUME NEW v \in Seq(CellIds), NEW y \in Seq(CellIds)
  PROVE  /\ Union(v, y) \in Seq(CellIds) /\ IsNormalized(Union(v, y))
         /\ LeavesOf(Union(v, y)) = LeavesOf(v) \cup LeavesOf(y)
  <1>1. PICK w \in Seq(CellIds) : w = v \o y /\ LeavesOf(w) = LeavesOf(v) \cup LeavesOf(y)
    BY Joined
  <1>2. Normalize(w) \in Seq(CellIds) /\ IsNormalized(Normalize(w)) /\ LeavesOf(Normalize(w)) = LeavesOf(w)
    BY NormalizeIs
  <1> QED
    BY <1>1, <1>2 DEF Union

-----------------------------------------------------------------------------
(* Queries.                                                                *)

\* Cells without a family that cover a cell hold one that contains it: a cell
\* that several smaller ones make up would be the parent of a family.
LEMMA CoveredIsContained ==
  ASSUME NEW S, S \subseteq CellIds, NoFamily(S), NEW id \in CellIds,
         Leaves(id) \subseteq UNION { Leaves(x) : x \in S }
  PROVE  \E x \in S : contains(x, id)
  <1> DEFINE rank == [c \in CellIds |-> MaxLevel - level(c)]
             good == { c \in CellIds : Leaves(c) \subseteq UNION { Leaves(x) : x \in S }
                                        => \E x \in S : contains(x, c) }
  <1>1. rank \in [CellIds -> Nat] /\ \A c, d \in CellIds : level(c) < level(d) => rank[d] < rank[c]
    <2>1. \A c \in CellIds : level(c) \in 0 .. MaxLevel
      BY CellForm
    <2> QED
      BY <2>1, LevelAssumption
  <1>2. ASSUME NEW c \in CellIds, \A d \in CellIds : rank[d] < rank[c] => d \in good
        PROVE  c \in good
    <2> SUFFICES ASSUME Leaves(c) \subseteq UNION { Leaves(x) : x \in S },
                        \A x \in S : ~contains(x, c)
                 PROVE  FALSE
      OBVIOUS
    <2>1. CASE lsb(c) = 1
      <3>1. range_min(c) = c
        <4>1. c \in Nat
          BY CellFacts
        <4> QED
          BY <2>1, <4>1 DEF range_min
      <3>2. c \in Leaves(c) /\ c \in LeafIds
        BY <3>1, BoundsAreLeaves
      <3>3. PICK x \in S : c \in Leaves(x)
        BY <3>2
      <3>4. x \in CellIds
        BY <3>3
      <3>5. contains(x, c)
        BY <3>3, <3>4, LeafLaws
      <3> QED
        BY <3>3, <3>5
    <2>2. CASE lsb(c) # 1
      <3>1. ASSUME NEW n \in 0 .. 3 PROVE child(c, n) \in S
        <4>1. PICK d \in CellIds : d = child(c, n)
          BY <2>2, ChildForm
        <4>2. contains(c, d) /\ \A x \in CellIds : contains(x, d) => x = d \/ contains(x, c)
          BY <2>2, <4>1, ChildrenTile
        <4>3. level(c) < level(d)
          <5>1. level(d) = level(c) + 1 /\ level(c) \in 0 .. MaxLevel
            BY <2>2, <4>1, ChildForm, CellForm
          <5> QED
            BY <5>1
        <4>4. d \in good
          BY <1>1, <1>2, <4>3
        <4>5. Leaves(d) \subseteq UNION { Leaves(x) : x \in S }
          BY <4>2, LeafLaws
        <4>6. PICK x \in S : contains(x, d)
          BY <4>4, <4>5
        <4> QED
          BY <4>1, <4>2, <4>6
      <3> QED
        BY <2>2, <3>1 DEF NoFamily
    <2> QED
      BY <2>1, <2>2
  <1> HIDE DEF good, rank
  <1>3. \A c \in CellIds : c \in good
    BY <1>1, <1>2, ByRank
  <1> QED
    BY <1>3 DEF good

\* A normalized vector answers for its leaf cells.
LEMMA QueriesAnswer ==
  ASSUME NEW v \in Seq(CellIds), IsNormalized(v), NEW id \in CellIds
  PROVE  /\ ContainsCell(v, id) <=> Leaves(id) \subseteq LeavesOf(v)
         /\ IntersectsCell(v, id) <=> Leaves(id) \cap LeavesOf(v) # {}
         /\ ContainsCell(v, id) <=> \E x \in ToSet(v) : contains(x, id)
         /\ IntersectsCell(v, id) <=> \E x \in ToSet(v) : contains(x, id) \/ contains(id, x)
         /\ ContainsCell(v, id) => IntersectsCell(v, id)
         /\ ContainsCell(v, id) \in BOOLEAN /\ IntersectsCell(v, id) \in BOOLEAN
  <1>1. /\ LeavesOf(v) = UNION { Leaves(x) : x \in ToSet(v) } /\ DOMAIN v = 1 .. Len(v)
        /\ \A i \in 1 .. Len(v) : v[i] \in CellIds /\ v[i] \in ToSet(v)
        /\ \A x \in ToSet(v) : x \in CellIds /\ \E i \in 1 .. Len(v) : v[i] = x
    BY Members
  <1>2. /\ ContainsCell(v, id) <=> \E x \in ToSet(v) : contains(x, id)
        /\ IntersectsCell(v, id) <=> \E x \in ToSet(v) : intersects(x, id)
    <2>1. /\ ContainsCell(v, id) <=> \E i \in DOMAIN v : contains(v[i], id)
          /\ IntersectsCell(v, id) <=> \E i \in DOMAIN v : intersects(v[i], id)
      BY CellQueriesExact
    <2> QED
      BY <1>1, <2>1
  <1>3. IntersectsCell(v, id) <=> \E x \in ToSet(v) : contains(x, id) \/ contains(id, x)
    BY <1>1, <1>2, CellOrder
  <1>4. ContainsCell(v, id) <=> Leaves(id) \subseteq LeavesOf(v)
    <2>1. ASSUME Leaves(id) \subseteq LeavesOf(v) PROVE ContainsCell(v, id)
      <3>1. ToSet(v) \subseteq CellIds /\ NoFamily(ToSet(v))
            /\ Leaves(id) \subseteq UNION { Leaves(x) : x \in ToSet(v) }
        BY <1>1, <2>1, NormalizedIs
      <3>2. PICK S : S = ToSet(v)
        OBVIOUS
      <3>3. \E x \in S : contains(x, id)
        <4>1. S \subseteq CellIds /\ NoFamily(S) /\ Leaves(id) \subseteq UNION { Leaves(x) : x \in S }
          BY <3>1, <3>2
        <4> QED
          BY <4>1, CoveredIsContained
      <3> QED
        BY <1>2, <3>2, <3>3
    <2>2. ASSUME ContainsCell(v, id) PROVE Leaves(id) \subseteq LeavesOf(v)
      <3>1. PICK x \in ToSet(v) : contains(x, id)
        BY <1>2, <2>2
      <3>2. Leaves(id) \subseteq Leaves(x)
        BY <1>1, <3>1, LeafLaws
      <3> QED
        BY <1>1, <3>2
    <2> QED
      BY <2>1, <2>2
  <1>5. IntersectsCell(v, id) <=> Leaves(id) \cap LeavesOf(v) # {}
    <2>1. \A x \in ToSet(v) : contains(x, id) \/ contains(id, x) <=> Leaves(x) \cap Leaves(id) # {}
      BY <1>1, LeafLaws
    <2>2. Leaves(id) \cap LeavesOf(v) # {} <=> \E x \in ToSet(v) : Leaves(x) \cap Leaves(id) # {}
      BY <1>1
    <2> QED
      BY <1>3, <2>1, <2>2
  <1>6. ContainsCell(v, id) \in BOOLEAN /\ IntersectsCell(v, id) \in BOOLEAN
    BY DEF ContainsCell, IntersectsCell, contains, intersects
  <1> QED
    BY <1>2, <1>3, <1>4, <1>5, <1>6

-----------------------------------------------------------------------------
(* Intersection with a cell.                                               *)

\* The shortest vectors are normalized.
LEMMA FewNormalized ==
  /\ <<>> \in Seq(CellIds) /\ IsNormalized(<<>>) /\ LeavesOf(<<>>) = {}
  /\ \A x \in CellIds : /\ <<x>> \in Seq(CellIds) /\ IsNormalized(<<x>>)
                        /\ LeavesOf(<<x>>) = Leaves(x)
  <1>1. /\ <<>> \in Seq(CellIds) /\ Ordered(<<>>) /\ ToSet(<<>>) = {} /\ LeavesOf(<<>>) = {}
    BY OrderedFew DEF Ordered
  <1>2. NoFamily({})
    <2>1. 0 \in 0 .. 3
      OBVIOUS
    <2> QED
      BY <2>1 DEF NoFamily
  <1>3. IsNormalized(<<>>)
    BY <1>1, <1>2, NormalizedIs
  <1>4. ASSUME NEW x \in CellIds
        PROVE  <<x>> \in Seq(CellIds) /\ IsNormalized(<<x>>) /\ LeavesOf(<<x>>) = Leaves(x)
    <2>1. <<x>> \in Seq(CellIds) /\ Ordered(<<x>>) /\ ToSet(<<x>>) = {x}
      BY OrderedFew DEF Ordered
    <2>2. NoFamily({x})
      <3> SUFFICES ASSUME NEW p \in CellIds, lsb(p) # 1, \A n \in 0 .. 3 : child(p, n) = x
                   PROVE  FALSE
        BY DEF NoFamily
      <3>1. 0 \in 0 .. 3 /\ 1 \in 0 .. 3 /\ 0 < 1
        OBVIOUS
      <3>2. EntirelyPrecedes(child(p, 0), child(p, 1)) /\ child(p, 0) = x /\ child(p, 1) = x
        BY <3>1, ChildrenTile
      <3> QED
        BY <3>2, CellOrder
    <2>3. IsNormalized(<<x>>)
      BY <2>1, <2>2, NormalizedIs
    <2>4. LeavesOf(<<x>>) = UNION { Leaves(y) : y \in ToSet(<<x>>) }
      BY <2>1, Members
    <2> QED
      BY <2>1, <2>3, <2>4
  <1> QED
    BY <1>1, <1>3, <1>4

\* The least number of a part of 1 .. n, or n + 1.
LEMMA FirstIs ==
  ASSUME NEW n \in Nat, NEW A, A \subseteq 1 .. n
  PROVE  /\ Min(A \cup {n + 1}) \in 1 .. (n + 1)
         /\ Min(A \cup {n + 1}) <= n => Min(A \cup {n + 1}) \in A
         /\ \A i \in 1 .. n : i < Min(A \cup {n + 1}) => i \notin A
  <1> DEFINE B == A \cup {n + 1}
  <1>1. B \subseteq Nat /\ B # {} /\ B \subseteq 1 .. (n + 1)
    OBVIOUS
  <1>2. Min(B) \in B /\ \A i \in B : Min(B) <= i
    <2> HIDE DEF B
    <2> QED
      BY <1>1, LeastIsMin
  <1>3. PICK m \in 1 .. (n + 1) : m = Min(B)
    BY <1>1, <1>2
  <1>4. m <= n => m \in A
    BY <1>2, <1>3
  <1>5. \A i \in 1 .. n : i < m => i \notin A
    BY <1>2, <1>3
  <1> QED
    BY <1>3, <1>4, <1>5

LEMMA IntersectionCellIs ==
  ASSUME NEW v \in Seq(CellIds), IsNormalized(v), NEW id \in CellIds
  PROVE  /\ IntersectionCell(v, id) \in Seq(CellIds) /\ IsNormalized(IntersectionCell(v, id))
         /\ LeavesOf(IntersectionCell(v, id)) = LeavesOf(v) \cap Leaves(id)
  <1>1. CASE ContainsCell(v, id)
    <2>1. IntersectionCell(v, id) = <<id>>
      BY <1>1 DEF IntersectionCell
    <2>2. Leaves(id) \subseteq LeavesOf(v)
      BY <1>1, QueriesAnswer
    <2> QED
      BY <2>1, <2>2, FewNormalized
  <1>2. CASE ~ContainsCell(v, id)
    <2> DEFINE n == Len(v)
               A == { i \in DOMAIN v : v[i] >= range_min(id) }
               first == Min(A \cup {n + 1})
               B == { i \in first .. n : v[i] > range_max(id) }
               end == Min(B \cup {n + 1})
               w == SubSeq(v, first, end - 1)
    <2>1. IntersectionCell(v, id) = w
      BY <1>2 DEF IntersectionCell
    <2>2. /\ n \in Nat /\ DOMAIN v = 1 .. n /\ Ordered(v)
          /\ \A i \in 1 .. n : v[i] \in CellIds /\ v[i] \in ToSet(v)
          /\ \A x \in ToSet(v) : x \in CellIds /\ \E i \in 1 .. n : v[i] = x
      BY Members, NormalizedIs
    <2>3. /\ \A i \in 1 .. n : v[i] \in Nat /\ range_min(id) \in Nat /\ range_max(id) \in Nat
          /\ \A i, j \in 1 .. n : i < j => v[i] < v[j]
      <3>1. range_min(id) \in Nat /\ range_max(id) \in Nat
        BY CellFacts
      <3>2. \A i \in 1 .. n : v[i] \in Nat
        BY <2>2, CellOrder
      <3>3. \A i, j \in 1 .. n : i < j => EntirelyPrecedes(v[i], v[j])
        BY <2>2 DEF Ordered
      <3> QED
        BY <2>2, <3>1, <3>2, <3>3, CellOrder
    <2>4. /\ first \in 1 .. (n + 1) /\ (first <= n => first \in A)
          /\ \A i \in 1 .. n : i < first => i \notin A
      <3>1. A \subseteq 1 .. n
        BY <2>2
      <3> HIDE DEF A, n
      <3> QED
        BY <2>2, <3>1, FirstIs
    <2> HIDE DEF first
    <2>5. /\ end \in 1 .. (n + 1) /\ (end <= n => end \in B)
          /\ \A i \in 1 .. n : i < end => i \notin B
      <3>1. B \subseteq 1 .. n
        BY <2>2, <2>4
      <3> HIDE DEF B, n
      <3> QED
        BY <2>2, <3>1, FirstIs
    <2> HIDE DEF end
    <2>6. \A i \in 1 .. n : i \in first .. (end - 1) <=> contains(id, v[i])
      <3> TAKE i \in 1 .. n
      <3>1. v[i] \in Nat /\ range_min(id) \in Nat /\ range_max(id) \in Nat
        BY <2>3
      <3>2. v[i] >= range_min(id) <=> i >= first
        <4>1. v[i] >= range_min(id) => i >= first
          BY <2>2, <2>4
        <4>2. i >= first => first \in 1 .. n /\ v[first] >= range_min(id) /\ v[first] \in Nat
          BY <2>2, <2>3, <2>4
        <4>3. i >= first => i = first \/ v[first] < v[i]
          BY <2>2, <2>3, <2>4, <4>2
        <4> QED
          BY <3>1, <4>1, <4>2, <4>3
      <3>3. i >= first => (v[i] <= range_max(id) <=> i < end)
        <4>1. ASSUME i >= first, i < end PROVE v[i] <= range_max(id)
          <5>1. i \in first .. n /\ i \notin B
            BY <2>2, <2>4, <2>5, <4>1
          <5>2. ~(v[i] > range_max(id))
            BY <5>1
          <5> QED
            BY <3>1, <5>2
        <4>2. ASSUME i >= first, ~(i < end) PROVE ~(v[i] <= range_max(id))
          <5>1. end \in 1 .. n /\ end \in B /\ i >= end
            BY <2>2, <2>5, <4>2
          <5>2. v[end] > range_max(id) /\ v[end] \in Nat
            BY <2>3, <5>1
          <5>3. i = end \/ v[end] < v[i]
            BY <2>2, <2>3, <2>5, <5>1
          <5> QED
            BY <3>1, <5>2, <5>3
        <4> QED
          BY <4>1, <4>2
      <3>4. i \in first .. (end - 1) <=> i >= first /\ i < end
        BY <2>2, <2>4, <2>5
      <3> QED
        BY <3>2, <3>3, <3>4 DEF contains
    <2>7. /\ w \in Seq(CellIds) /\ IsNormalized(w) /\ ToSet(w) = { v[i] : i \in first .. (end - 1) }
      <3>1. first \in Int /\ end - 1 \in Int /\ first >= 1 /\ end - 1 <= n
        BY <2>2, <2>4, <2>5
      <3>2. PICK a \in Int, b \in Int : a = first /\ b = end - 1 /\ a >= 1 /\ b <= Len(v)
        BY <3>1
      <3>3. Ordered(v)
        BY <2>2
      <3>4. SubSeq(v, a, b) \in Seq(CellIds) /\ IsNormalized(SubSeq(v, a, b))
        BY <3>2, NormalizedPart
      <3>5. ToSet(SubSeq(v, a, b)) = { v[i] : i \in a .. b }
        BY <3>2, <3>3, OrderedPart
      <3>6. w = SubSeq(v, a, b)
        BY <3>2
      <3> HIDE DEF w, n
      <3> QED
        BY <3>2, <3>4, <3>5, <3>6
    <2>8. \A x : x \in ToSet(w) <=> x \in ToSet(v) /\ contains(id, x)
      <3> TAKE x
      <3>1. \A i \in first .. (end - 1) : i \in 1 .. n
        BY <2>2, <2>4, <2>5
      <3> HIDE DEF w, n
      <3> QED
        BY <2>2, <2>6, <2>7, <3>1
    <2> HIDE DEF w
    <2>9. /\ LeavesOf(w) = UNION { Leaves(x) : x \in ToSet(w) }
          /\ LeavesOf(v) = UNION { Leaves(x) : x \in ToSet(v) }
      BY <2>7, Members
    <2>10. LeavesOf(w) \subseteq LeavesOf(v) \cap Leaves(id)
      <3>1. \A x \in ToSet(w) : Leaves(x) \subseteq Leaves(id)
        BY <2>2, <2>8, LeafLaws
      <3> QED
        BY <2>8, <2>9, <3>1
    <2>11. ASSUME NEW leaf \in LeavesOf(v), leaf \in Leaves(id) PROVE leaf \in LeavesOf(w)
      <3>1. PICK x \in ToSet(v) : leaf \in Leaves(x)
        BY <2>9
      <3>2. contains(x, id) \/ contains(id, x)
        BY <2>2, <2>11, <3>1, LeafLaws
      <3>3. ~contains(x, id)
        BY <1>2, QueriesAnswer
      <3> QED
        BY <2>8, <2>9, <3>1, <3>2, <3>3
    <2> QED
      BY <2>1, <2>7, <2>10, <2>11
  <1> QED
    BY <1>1, <1>2

-----------------------------------------------------------------------------
(* Difference.                                                             *)

\* The vectors that FlattenSeq joins, one after the other.
LEMMA FlattenRuns ==
  ASSUME NEW n \in Nat, NEW s \in [1 .. n -> Seq(CellIds)]
  PROVE  \E g : /\ g[0] = <<>> /\ \A k \in 1 .. n : g[k] = g[k - 1] \o s[k]
                /\ FlattenSeq(s) = g[n]
  <1> DEFINE S == Seq(CellIds)
             f == [k \in 1 .. n |-> [w \in S |-> w \o s[k]]]
             h == CHOOSE h : h = [k \in 1 .. n |-> IF k = 1 THEN s[k] ELSE h[k - 1] \o s[k]]
  <1>1. \A k \in 1 .. n, w \in S : w \o s[k] \in S
    <2> TAKE k \in 1 .. n, w \in S
    <2>1. s[k] \in Seq(CellIds)
      OBVIOUS
    <2> QED
      BY <2>1, Joined
  <1>2. PICK F \in [0 .. n -> S] : Iterates(F, n, <<>>, f)
    <2>1. f \in [1 .. n -> [S -> S]]
      BY <1>1
    <2>2. <<>> \in S
      OBVIOUS
    <2> HIDE DEF f, S
    <2>3. IsStep(n, S, <<>>, f)
      BY <2>1, <2>2 DEF IsStep
    <2> QED
      BY <2>3, IterationExists
  <1>3. F[0] = <<>> /\ \A k \in 1 .. n : F[k] = F[k - 1] \o s[k]
    <2>1. \A k \in 0 .. n : F[k] = IF k = 0 THEN <<>> ELSE f[k][F[k - 1]]
      BY <1>2 DEF Iterates
    <2>2. 0 \in 0 .. n /\ \A k \in 1 .. n : k \in 0 .. n /\ k # 0 /\ k - 1 \in 0 .. n
      OBVIOUS
    <2>3. \A k \in 1 .. n : F[k - 1] \in S
      BY <1>2, <2>2
    <2>4. \A k \in 1 .. n, w \in S : f[k][w] = w \o s[k]
      OBVIOUS
    <2> HIDE DEF f, S
    <2> QED
      BY <2>1, <2>2, <2>3, <2>4
  <1>4. Len(s) = n
    <2>1. s \in Seq(Seq(CellIds)) /\ DOMAIN s = 1 .. n
      OBVIOUS
    <2> QED
      BY <2>1
  <1>5. CASE n = 0
    <2>1. FlattenSeq(s) = s
      BY <1>4, <1>5 DEF FlattenSeq
    <2>2. s = <<>>
      BY <1>5
    <2> QED
      BY <1>3, <1>5, <2>1, <2>2
  <1>6. CASE n # 0
    <2>1. FlattenSeq(s) = h[n]
      BY <1>4, <1>6 DEF FlattenSeq
    <2> HIDE DEF S
    <2>2. h = [k \in 1 .. n |-> IF k = 1 THEN s[k] ELSE h[k - 1] \o s[k]]
      <3> DEFINE G == [k \in 1 .. n |-> F[k]]
      <3>1. \A k \in 1 .. n : k # 1 => k - 1 \in 1 .. n
        OBVIOUS
      <3>2. \A k \in 1 .. n : k = 1 => F[k] = s[k]
        <4> SUFFICES ASSUME 1 \in 1 .. n PROVE F[1] = s[1]
          OBVIOUS
        <4>1. F[1] = F[1 - 1] \o s[1] /\ s[1] \in Seq(CellIds)
          BY <1>3
        <4>2. 1 - 1 = 0
          OBVIOUS
        <4>3. F[1] = <<>> \o s[1]
          BY <1>3, <4>1, <4>2
        <4> QED
          BY <4>1, <4>3
      <3>3. G = [k \in 1 .. n |-> IF k = 1 THEN s[k] ELSE G[k - 1] \o s[k]]
        BY <1>3, <3>1, <3>2
      <3> QED
        BY <3>3
    <2> HIDE DEF h
    <2>3. 1 \in 1 .. n /\ n \in 1 .. n
      BY <1>6
    <2>4. h[1] = s[1] /\ \A k \in 1 .. n : k # 1 => h[k] = h[k - 1] \o s[k]
      BY <2>2, <2>3
    <2> DEFINE g == [k \in 0 .. n |-> IF k = 0 THEN <<>> ELSE h[k]]
    <2>5. g[0] = <<>> /\ \A k \in 1 .. n : g[k] = h[k]
      OBVIOUS
    <2>6. \A k \in 1 .. n : k # 1 => k - 1 \in 1 .. n /\ g[k - 1] = h[k - 1]
      BY <2>5
    <2>7. <<>> \o s[1] = s[1]
      <3>1. s[1] \in Seq(CellIds)
        BY <2>3
      <3> QED
        BY <3>1
    <2> HIDE DEF g
    <2>8. \A k \in 1 .. n : g[k] = g[k - 1] \o s[k]
      <3> TAKE k \in 1 .. n
      <3>1. CASE k = 1
        <4>1. g[k] = s[1] /\ g[k - 1] = <<>>
          BY <2>4, <2>5, <3>1
        <4> QED
          BY <2>7, <3>1, <4>1
      <3>2. CASE k # 1
        BY <2>4, <2>5, <2>6, <3>2
      <3> QED
        BY <3>1, <3>2
    <2> QED
      BY <2>1, <2>3, <2>5, <2>8
  <1> QED
    BY <1>5, <1>6

\* What FlattenSeq joins: the members, and the leaf cells, of all the vectors.
LEMMA FlattenIs ==
  ASSUME NEW n \in Nat, NEW s \in [1 .. n -> Seq(CellIds)]
  PROVE  /\ FlattenSeq(s) \in Seq(CellIds)
         /\ ToSet(FlattenSeq(s)) = UNION { ToSet(s[k]) : k \in 1 .. n }
         /\ /\ \A k \in 1 .. n : Ordered(s[k])
            /\ \A j, k \in 1 .. n : j < k =>
                 \A a \in ToSet(s[j]), b \in ToSet(s[k]) : EntirelyPrecedes(a, b)
            => Ordered(FlattenSeq(s))
  <1>1. PICK g : /\ g[0] = <<>> /\ \A k \in 1 .. n : g[k] = g[k - 1] \o s[k]
                 /\ FlattenSeq(s) = g[n]
    BY FlattenRuns
  <1> DEFINE InOrderAll == /\ \A k \in 1 .. n : Ordered(s[k])
                           /\ \A j, k \in 1 .. n : j < k =>
                                \A a \in ToSet(s[j]), b \in ToSet(s[k]) : EntirelyPrecedes(a, b)
             Fine(k) == /\ g[k] \in Seq(CellIds)
                        /\ ToSet(g[k]) = UNION { ToSet(s[i]) : i \in 1 .. k }
                        /\ InOrderAll => Ordered(g[k])
             good == { k \in 0 .. n : Fine(k) }
  <1>2. Fine(0)
    <2>1. 1 .. 0 = {}
      OBVIOUS
    <2> QED
      BY <1>1, <2>1, OrderedFew DEF Ordered
  <1>3. ASSUME NEW k \in 1 .. n, Fine(k - 1) PROVE Fine(k)
    <2>1. PICK w \in Seq(CellIds), u \in Seq(CellIds) : w = g[k - 1] /\ u = s[k]
      BY <1>3
    <2>2. g[k] = w \o u
      BY <1>1, <2>1
    <2>3. g[k] \in Seq(CellIds) /\ ToSet(g[k]) = ToSet(w) \cup ToSet(u)
      BY <2>2, Joined
    <2>4. 1 .. k = 1 .. (k - 1) \cup {k}
      OBVIOUS
    <2>5. ToSet(g[k]) = UNION { ToSet(s[i]) : i \in 1 .. k }
      BY <1>3, <2>1, <2>3, <2>4
    <2>6. ASSUME InOrderAll PROVE Ordered(g[k])
      <3>1. Ordered(w) /\ Ordered(u)
        BY <1>3, <2>1, <2>6
      <3>2. \A a \in ToSet(w), b \in ToSet(u) : EntirelyPrecedes(a, b)
        <4> TAKE a \in ToSet(w), b \in ToSet(u)
        <4>1. PICK i \in 1 .. (k - 1) : a \in ToSet(s[i])
          BY <1>3, <2>1
        <4>2. i \in 1 .. n /\ i < k
          OBVIOUS
        <4> QED
          BY <2>1, <2>6, <4>1, <4>2
      <3>3. Ordered(w \o u)
        BY <3>1, <3>2, OrderedJoin
      <3> QED
        BY <2>2, <3>3
    <2> QED
      BY <2>3, <2>5, <2>6
  <1> HIDE DEF Fine
  <1>4. Climbs(n, good)
    <2>1. 0 \in good
      BY <1>2
    <2>2. \A k \in 1 .. n : k - 1 \in good => k \in good
      BY <1>3
    <2> QED
      BY <2>1, <2>2 DEF Climbs
  <1>5. Fine(n)
    <2> HIDE DEF good
    <2>1. n \in 0 .. n /\ \A k \in 0 .. n : k \in good
      BY <1>4, Climb
    <2> QED
      BY <2>1 DEF good
  <1> QED
    BY <1>1, <1>5 DEF Fine

\* A cell that is met but not covered has children.
LEMMA PartlyCovered ==
  ASSUME NEW y \in Seq(CellIds), IsNormalized(y), NEW id \in CellIds,
         IntersectsCell(y, id), ~ContainsCell(y, id)
  PROVE  lsb(id) # 1
  <1> SUFFICES ASSUME lsb(id) = 1 PROVE FALSE
    OBVIOUS
  <1>1. range_min(id) = id
    <2>1. id \in Nat
      BY CellFacts
    <2> QED
      BY <2>1 DEF range_min
  <1>2. id \in LeafIds
    BY <1>1, BoundsAreLeaves
  <1>3. PICK x \in ToSet(y) : contains(x, id) \/ contains(id, x)
    BY QueriesAnswer
  <1>4. x \in CellIds
    BY Members
  <1>5. contains(id, x) => x = id
    BY <1>2, <1>4, LeafForm
  <1>6. contains(x, id)
    BY <1>3, <1>4, <1>5, CellOrder
  <1> QED
    BY <1>6, QueriesAnswer

\* The recursion of Difference.
DiffRuns(y, g) ==
  g = [id \in CellIds |->
         IF ~IntersectsCell(y, id) THEN <<id>>
         ELSE IF ContainsCell(y, id) THEN <<>>
         ELSE g[child(id, 0)] \o g[child(id, 1)] \o g[child(id, 2)] \o g[child(id, 3)]]

LEMMA DiffExists ==
  ASSUME NEW y \in Seq(CellIds), IsNormalized(y)
  PROVE  \E g : DiffRuns(y, g)
  <1> DEFINE D == CellIds
             S == Seq(CellIds)
             N == MaxLevel
             rank == [id \in D |-> N - level(id)]
             H == [id \in D |-> [F \in [D -> S] |->
                     IF ~IntersectsCell(y, id) THEN <<id>>
                     ELSE IF ContainsCell(y, id) THEN <<>>
                     ELSE F[child(id, 0)] \o F[child(id, 1)] \o F[child(id, 2)] \o F[child(id, 3)]]]
  <1>1. rank \in [D -> 0 .. N] /\ N \in Nat
    <2>1. \A id \in D : level(id) \in 0 .. N
      BY CellForm
    <2> QED
      BY <2>1, LevelAssumption
  <1>2. \A id \in D, n \in 0 .. 3 : IntersectsCell(y, id) /\ ~ContainsCell(y, id)
          => child(id, n) \in D /\ rank[child(id, n)] < rank[id]
    <2> TAKE id \in D, n \in 0 .. 3
    <2> HAVE IntersectsCell(y, id) /\ ~ContainsCell(y, id)
    <2>1. child(id, n) \in CellIds /\ level(child(id, n)) = level(id) + 1
      BY PartlyCovered, ChildForm
    <2>2. level(id) \in 0 .. N /\ level(child(id, n)) \in 0 .. N
      BY <2>1, CellForm
    <2> QED
      BY <1>1, <2>1, <2>2
  <1>3. 0 \in 0 .. 3 /\ 1 \in 0 .. 3 /\ 2 \in 0 .. 3 /\ 3 \in 0 .. 3
    OBVIOUS
  <1>4. ASSUME NEW id \in D, NEW F \in [D -> S] PROVE H[id][F] \in S
    <2>1. <<id>> \in S /\ <<>> \in S
      OBVIOUS
    <2>2. CASE IntersectsCell(y, id) /\ ~ContainsCell(y, id)
      <3>1. /\ child(id, 0) \in D /\ child(id, 1) \in D /\ child(id, 2) \in D /\ child(id, 3) \in D
        BY <1>2, <1>3, <2>2
      <3>2. PICK a \in S, b \in S, c \in S, d \in S :
              /\ a = F[child(id, 0)] /\ b = F[child(id, 1)]
              /\ c = F[child(id, 2)] /\ d = F[child(id, 3)]
        BY <3>1
      <3>3. a \o b \o c \o d \in S
        BY Joined
      <3> QED
        BY <2>2, <3>2, <3>3
    <2> QED
      BY <2>1, <2>2
  <1>5. H \in [D -> [[D -> S] -> S]]
    BY <1>4
  <1>6. ASSUME NEW id \in D, NEW F \in [D -> S], NEW G \in [D -> S],
               \A e \in D : rank[e] < rank[id] => F[e] = G[e]
        PROVE  H[id][F] = H[id][G]
    <2>1. CASE IntersectsCell(y, id) /\ ~ContainsCell(y, id)
      <3>1. \A n \in 0 .. 3 : F[child(id, n)] = G[child(id, n)]
        BY <1>2, <1>6, <2>1
      <3> HIDE DEF rank
      <3> QED
        BY <1>3, <2>1, <3>1
    <2>2. CASE ~(IntersectsCell(y, id) /\ ~ContainsCell(y, id))
      BY <2>2
    <2> QED
      BY <2>1, <2>2
  <1>7. S # {}
    OBVIOUS
  <1>8. \A id \in D, F \in [D -> S] :
          H[id][F] = IF ~IntersectsCell(y, id) THEN <<id>>
                     ELSE IF ContainsCell(y, id) THEN <<>>
                     ELSE F[child(id, 0)] \o F[child(id, 1)] \o F[child(id, 2)] \o F[child(id, 3)]
    OBVIOUS
  <1> HIDE DEF D, S, N, rank, H
  <1>9. WellRanked(D, S, N, rank, H)
    BY <1>1, <1>5, <1>6, <1>7 DEF WellRanked
  <1>10. PICK F \in [D -> S] : \A id \in D : F[id] = H[id][F]
    BY <1>9, RecursionExists
  <1>11. F = [id \in D |->
               IF ~IntersectsCell(y, id) THEN <<id>>
               ELSE IF ContainsCell(y, id) THEN <<>>
               ELSE F[child(id, 0)] \o F[child(id, 1)] \o F[child(id, 2)] \o F[child(id, 3)]]
    BY <1>8, <1>10
  <1> QED
    BY <1>11 DEF DiffRuns, D

\* What Difference leaves of a cell.
Pieces(y, id, w) ==
  /\ Ordered(w)
  /\ \A c \in ToSet(w) :
       /\ contains(id, c) /\ ~IntersectsCell(y, c)
       /\ c # id => \E p \in CellIds : /\ lsb(p) # 1 /\ IntersectsCell(y, p)
                                       /\ \E n \in 0 .. 3 : c = child(p, n)
  /\ LeavesOf(w) = Leaves(id) \ LeavesOf(y)

\* The pieces of the children are pieces of the cell.
LEMMA PiecesJoin ==
  ASSUME NEW y \in Seq(CellIds), IsNormalized(y), NEW id \in CellIds, lsb(id) # 1,
         IntersectsCell(y, id), NEW a, NEW b, NEW c, NEW d,
         Pieces(y, child(id, 0), a), Pieces(y, child(id, 1), b),
         Pieces(y, child(id, 2), c), Pieces(y, child(id, 3), d)
  PROVE  Pieces(y, id, a \o b \o c \o d)
  <1> DEFINE C(n) == child(id, n)
             w == a \o b \o c \o d
  <1>1. 0 \in 0 .. 3 /\ 1 \in 0 .. 3 /\ 2 \in 0 .. 3 /\ 3 \in 0 .. 3
        /\ 0 < 1 /\ 0 < 2 /\ 0 < 3 /\ 1 < 2 /\ 1 < 3 /\ 2 < 3
    OBVIOUS
  <1>2. /\ \A n \in 0 .. 3 : C(n) \in CellIds /\ contains(id, C(n)) /\ C(n) # id
        /\ \A m, n \in 0 .. 3 : m < n => EntirelyPrecedes(C(m), C(n))
        /\ Leaves(id) = UNION { Leaves(C(n)) : n \in 0 .. 3 }
    BY ChildrenTile
  <1>3. /\ a \in Seq(CellIds) /\ b \in Seq(CellIds) /\ c \in Seq(CellIds) /\ d \in Seq(CellIds)
        /\ Ordered(a) /\ Ordered(b) /\ Ordered(c) /\ Ordered(d)
    BY DEF Pieces, Ordered
  <1> HIDE DEF C
  <1>4. ASSUME NEW m \in 0 .. 3, NEW n \in 0 .. 3, m < n, NEW s \in CellIds, NEW t \in CellIds,
               contains(C(m), s), contains(C(n), t)
        PROVE  EntirelyPrecedes(s, t)
    BY <1>2, <1>4, CellOrders
  <1>5. /\ \A x \in ToSet(a) : x \in CellIds /\ contains(C(0), x)
        /\ \A x \in ToSet(b) : x \in CellIds /\ contains(C(1), x)
        /\ \A x \in ToSet(c) : x \in CellIds /\ contains(C(2), x)
        /\ \A x \in ToSet(d) : x \in CellIds /\ contains(C(3), x)
    BY <1>3, Members DEF Pieces, C
  <1>6. Ordered(a \o b) /\ a \o b \in Seq(CellIds) /\ ToSet(a \o b) = ToSet(a) \cup ToSet(b)
        /\ LeavesOf(a \o b) = LeavesOf(a) \cup LeavesOf(b)
    <2>1. \A s \in ToSet(a), t \in ToSet(b) : EntirelyPrecedes(s, t)
      BY <1>1, <1>4, <1>5
    <2> QED
      BY <1>3, <2>1, Joined, OrderedJoin
  <1>7. PICK ab \in Seq(CellIds) : ab = a \o b
    BY <1>6
  <1>8. Ordered(ab \o c) /\ ab \o c \in Seq(CellIds) /\ ToSet(ab \o c) = ToSet(ab) \cup ToSet(c)
        /\ LeavesOf(ab \o c) = LeavesOf(ab) \cup LeavesOf(c)
    <2>1. \A s \in ToSet(ab), t \in ToSet(c) : EntirelyPrecedes(s, t)
      <3> TAKE s \in ToSet(ab), t \in ToSet(c)
      <3>1. s \in ToSet(a) \/ s \in ToSet(b)
        BY <1>6, <1>7
      <3> QED
        BY <1>1, <1>4, <1>5, <3>1
    <2>2. Ordered(ab)
      BY <1>6, <1>7
    <2> QED
      BY <1>3, <2>1, <2>2, Joined, OrderedJoin
  <1>9. PICK abc \in Seq(CellIds) : abc = ab \o c
    BY <1>8
  <1>10. Ordered(abc \o d) /\ abc \o d \in Seq(CellIds) /\ ToSet(abc \o d) = ToSet(abc) \cup ToSet(d)
         /\ LeavesOf(abc \o d) = LeavesOf(abc) \cup LeavesOf(d)
    <2>1. \A s \in ToSet(abc), t \in ToSet(d) : EntirelyPrecedes(s, t)
      <3> TAKE s \in ToSet(abc), t \in ToSet(d)
      <3>1. s \in ToSet(a) \/ s \in ToSet(b) \/ s \in ToSet(c)
        BY <1>6, <1>7, <1>8, <1>9
      <3> QED
        BY <1>1, <1>4, <1>5, <3>1
    <2>2. Ordered(abc)
      BY <1>8, <1>9
    <2> QED
      BY <1>3, <2>1, <2>2, Joined, OrderedJoin
  <1>11. w = abc \o d
    BY <1>7, <1>9
  <1> HIDE DEF w
  <1>12. Ordered(w) /\ ToSet(w) = ToSet(a) \cup ToSet(b) \cup ToSet(c) \cup ToSet(d)
         /\ LeavesOf(w) = LeavesOf(a) \cup LeavesOf(b) \cup LeavesOf(c) \cup LeavesOf(d)
    BY <1>6, <1>7, <1>8, <1>9, <1>10, <1>11
  <1>13. ASSUME NEW n \in 0 .. 3, NEW u, Pieces(y, C(n), u), u \in Seq(CellIds), NEW x \in ToSet(u)
         PROVE  /\ contains(id, x) /\ ~IntersectsCell(y, x)
                /\ \E p \in CellIds : /\ lsb(p) # 1 /\ IntersectsCell(y, p)
                                      /\ \E m \in 0 .. 3 : x = child(p, m)
    <2>1. x \in CellIds /\ contains(C(n), x) /\ ~IntersectsCell(y, x)
      BY <1>13, Members DEF Pieces
    <2>2. contains(id, x)
      BY <1>2, <2>1, CellOrders
    <2>3. CASE x = C(n)
      BY <2>1, <2>2, <2>3 DEF C
    <2>4. CASE x # C(n)
      BY <1>13, <2>1, <2>2, <2>4 DEF Pieces
    <2> QED
      BY <2>3, <2>4
  <1>14. \A x \in ToSet(w) :
           /\ contains(id, x) /\ ~IntersectsCell(y, x)
           /\ \E p \in CellIds : /\ lsb(p) # 1 /\ IntersectsCell(y, p)
                                 /\ \E m \in 0 .. 3 : x = child(p, m)
    <2> TAKE x \in ToSet(w)
    <2>1. Pieces(y, C(0), a) /\ Pieces(y, C(1), b) /\ Pieces(y, C(2), c) /\ Pieces(y, C(3), d)
      BY DEF C
    <2>2. CASE x \in ToSet(a)
      BY <1>1, <1>3, <1>13, <2>1, <2>2
    <2>3. CASE x \in ToSet(b)
      BY <1>1, <1>3, <1>13, <2>1, <2>3
    <2>4. CASE x \in ToSet(c)
      BY <1>1, <1>3, <1>13, <2>1, <2>4
    <2>5. CASE x \in ToSet(d)
      BY <1>1, <1>3, <1>13, <2>1, <2>5
    <2> QED
      BY <1>12, <2>2, <2>3, <2>4, <2>5
  <1>15. LeavesOf(w) = Leaves(id) \ LeavesOf(y)
    <2>1. /\ LeavesOf(a) = Leaves(C(0)) \ LeavesOf(y) /\ LeavesOf(b) = Leaves(C(1)) \ LeavesOf(y)
          /\ LeavesOf(c) = Leaves(C(2)) \ LeavesOf(y) /\ LeavesOf(d) = Leaves(C(3)) \ LeavesOf(y)
      BY DEF Pieces, C
    <2>2. Leaves(id) = Leaves(C(0)) \cup Leaves(C(1)) \cup Leaves(C(2)) \cup Leaves(C(3))
      <3>1. 0 .. 3 = {0, 1, 2, 3}
        OBVIOUS
      <3> QED
        BY <1>2, <3>1
    <2> QED
      BY <1>12, <2>1, <2>2
  <1> QED
    BY <1>12, <1>14, <1>15 DEF Pieces, w

LEMMA DiffIs ==
  ASSUME NEW y \in Seq(CellIds), IsNormalized(y), NEW g, DiffRuns(y, g)
  PROVE  \A id \in CellIds : Pieces(y, id, g[id])
  <1> DEFINE rank == [id \in CellIds |-> MaxLevel - level(id)]
             good == { id \in CellIds : Pieces(y, id, g[id]) }
  <1>1. rank \in [CellIds -> Nat] /\ \A c, d \in CellIds : level(c) < level(d) => rank[d] < rank[c]
    <2>1. \A c \in CellIds : level(c) \in 0 .. MaxLevel
      BY CellForm
    <2> QED
      BY <2>1, LevelAssumption
  <1>2. ASSUME NEW id \in CellIds, \A e \in CellIds : rank[e] < rank[id] => e \in good
        PROVE  Pieces(y, id, g[id])
    <2>1. g[id] = IF ~IntersectsCell(y, id) THEN <<id>>
                  ELSE IF ContainsCell(y, id) THEN <<>>
                  ELSE g[child(id, 0)] \o g[child(id, 1)] \o g[child(id, 2)] \o g[child(id, 3)]
      BY DEF DiffRuns
    <2>2. CASE ~IntersectsCell(y, id)
      <3>1. Ordered(<<id>>) /\ ToSet(<<id>>) = {id} /\ LeavesOf(<<id>>) = Leaves(id)
        BY OrderedFew, FewNormalized
      <3>2. contains(id, id)
        BY CellOrder
      <3>3. Leaves(id) \cap LeavesOf(y) = {}
        BY <2>2, QueriesAnswer
      <3> QED
        BY <2>1, <2>2, <3>1, <3>2, <3>3 DEF Pieces
    <2>3. CASE IntersectsCell(y, id) /\ ContainsCell(y, id)
      <3>1. Leaves(id) \subseteq LeavesOf(y)
        BY <2>3, QueriesAnswer
      <3>2. g[id] = <<>>
        BY <2>1, <2>3
      <3> QED
        BY <3>1, <3>2, OrderedFew DEF Pieces
    <2>4. CASE IntersectsCell(y, id) /\ ~ContainsCell(y, id)
      <3>1. lsb(id) # 1
        BY <2>4, PartlyCovered
      <3>2. ASSUME NEW n \in 0 .. 3 PROVE Pieces(y, child(id, n), g[child(id, n)])
        <4>1. child(id, n) \in CellIds /\ level(child(id, n)) = level(id) + 1 /\ level(id) \in 0 .. MaxLevel
          BY <3>1, ChildForm, CellForm
        <4>2. level(id) < level(child(id, n))
          BY <4>1
        <4> HIDE DEF rank
        <4>3. child(id, n) \in good
          BY <1>1, <1>2, <4>1, <4>2
        <4> QED
          BY <4>3
      <3>3. 0 \in 0 .. 3 /\ 1 \in 0 .. 3 /\ 2 \in 0 .. 3 /\ 3 \in 0 .. 3
        OBVIOUS
      <3>4. /\ Pieces(y, child(id, 0), g[child(id, 0)]) /\ Pieces(y, child(id, 1), g[child(id, 1)])
            /\ Pieces(y, child(id, 2), g[child(id, 2)]) /\ Pieces(y, child(id, 3), g[child(id, 3)])
        BY <3>2, <3>3
      <3>5. PICK a, b, c, d : /\ a = g[child(id, 0)] /\ b = g[child(id, 1)]
                              /\ c = g[child(id, 2)] /\ d = g[child(id, 3)]
        OBVIOUS
      <3>6. /\ Pieces(y, child(id, 0), a) /\ Pieces(y, child(id, 1), b)
            /\ Pieces(y, child(id, 2), c) /\ Pieces(y, child(id, 3), d)
        BY <3>4, <3>5
      <3>7. IntersectsCell(y, id)
        BY <2>4
      <3>8. Pieces(y, id, a \o b \o c \o d)
        BY <3>1, <3>6, <3>7, PiecesJoin
      <3> QED
        BY <2>1, <2>4, <3>5, <3>8
    <2> QED
      BY <2>2, <2>3, <2>4
  <1>3. \A id \in CellIds : (\A e \in CellIds : rank[e] < rank[id] => e \in good) => id \in good
    BY <1>2
  <1> HIDE DEF good, rank
  <1>4. \A id \in CellIds : id \in good
    BY <1>1, <1>3, ByRank
  <1> QED
    BY <1>4 DEF good

\* Difference leaves the leaf cells of v that y has not, and no family: the
\* children of a cell are all pieces only where y meets the cell and none of
\* them.
LEMMA DifferenceIs ==
  ASSUME NEW v \in Seq(CellIds), IsNormalized(v), NEW y \in Seq(CellIds), IsNormalized(y)
  PROVE  /\ Difference(v, y) \in Seq(CellIds) /\ IsNormalized(Difference(v, y))
         /\ LeavesOf(Difference(v, y)) = LeavesOf(v) \ LeavesOf(y)
  <1> DEFINE n == Len(v)
             g == CHOOSE g : DiffRuns(y, g)
             s == [i \in DOMAIN v |-> g[v[i]]]
             w == Difference(v, y)
  <1>1. /\ n \in Nat /\ DOMAIN v = 1 .. n /\ Ordered(v) /\ NoFamily(ToSet(v))
        /\ \A i \in 1 .. n : v[i] \in CellIds /\ v[i] \in ToSet(v)
        /\ LeavesOf(v) = UNION { Leaves(x) : x \in ToSet(v) }
        /\ \A x \in ToSet(v) : x \in CellIds /\ \E i \in 1 .. n : v[i] = x
    BY Members, NormalizedIs
  <1>2. w = FlattenSeq(s)
    BY DEF Difference, DiffRuns
  <1>3. DiffRuns(y, g)
    BY DiffExists
  <1> HIDE DEF g
  <1>4. \A id \in CellIds : Pieces(y, id, g[id])
    BY <1>3, DiffIs
  <1>5. \A i \in 1 .. n : s[i] = g[v[i]] /\ Pieces(y, v[i], s[i])
    BY <1>1, <1>4
  <1>6. s \in [1 .. n -> Seq(CellIds)]
    <2>1. \A i \in 1 .. n : g[v[i]] \in Seq(CellIds)
      BY <1>1, <1>4 DEF Pieces, Ordered
    <2> QED
      BY <1>1, <2>1
  <1> HIDE DEF s, n
  <1>7. \A i \in 1 .. n : /\ Ordered(s[i]) /\ s[i] \in Seq(CellIds)
                          /\ LeavesOf(s[i]) = Leaves(v[i]) \ LeavesOf(y)
                          /\ LeavesOf(s[i]) = UNION { Leaves(x) : x \in ToSet(s[i]) }
                          /\ \A c \in ToSet(s[i]) : c \in CellIds /\ contains(v[i], c)
    <2>1. \A i \in 1 .. n : Ordered(s[i]) /\ s[i] \in Seq(CellIds)
      BY <1>5, <1>6 DEF Pieces
    <2>2. \A i \in 1 .. n : LeavesOf(s[i]) = Leaves(v[i]) \ LeavesOf(y)
      BY <1>5 DEF Pieces
    <2>3. \A i \in 1 .. n : LeavesOf(s[i]) = UNION { Leaves(x) : x \in ToSet(s[i]) }
      BY <2>1, Members
    <2>4. \A i \in 1 .. n : \A c \in ToSet(s[i]) : c \in CellIds /\ contains(v[i], c)
      BY <1>5, <2>1, Members DEF Pieces
    <2> QED
      BY <2>1, <2>2, <2>3, <2>4
  <1>8. \A j, k \in 1 .. n : j < k => \A a \in ToSet(s[j]), b \in ToSet(s[k]) : EntirelyPrecedes(a, b)
    <2> SUFFICES ASSUME NEW j \in 1 .. n, NEW k \in 1 .. n, j < k,
                        NEW a \in ToSet(s[j]), NEW b \in ToSet(s[k])
                 PROVE  EntirelyPrecedes(a, b)
      OBVIOUS
    <2>1. EntirelyPrecedes(v[j], v[k])
      BY <1>1 DEF Ordered, n
    <2>2. contains(v[j], a) /\ contains(v[k], b) /\ a \in CellIds /\ b \in CellIds
          /\ v[j] \in CellIds /\ v[k] \in CellIds
      BY <1>1, <1>7
    <2> QED
      BY <2>1, <2>2, CellOrders
  <1>9. /\ w \in Seq(CellIds) /\ ToSet(w) = UNION { ToSet(s[k]) : k \in 1 .. n } /\ Ordered(w)
    BY <1>1, <1>2, <1>6, <1>7, <1>8, FlattenIs
  <1> HIDE DEF w
  <1>10. \A c \in ToSet(w) : c \in CellIds /\ \E i \in 1 .. n : c \in ToSet(s[i])
    BY <1>7, <1>9
  <1>11. \A c \in ToSet(w) : ~IntersectsCell(y, c)
    BY <1>5, <1>10 DEF Pieces
  <1>12. NoFamily(ToSet(w))
    <2> SUFFICES ASSUME NEW p \in CellIds, lsb(p) # 1, \A m \in 0 .. 3 : child(p, m) \in ToSet(w)
                 PROVE  FALSE
      BY DEF NoFamily
    <2>1. ~IntersectsCell(y, p)
      <3> SUFFICES ASSUME IntersectsCell(y, p) PROVE FALSE
        OBVIOUS
      <3>1. PICK x \in ToSet(y) : contains(x, p) \/ contains(p, x)
        BY QueriesAnswer
      <3>2. x \in CellIds
        BY Members
      <3>3. 0 \in 0 .. 3
        OBVIOUS
      <3>4. CASE contains(x, p)
        <4>1. child(p, 0) \in CellIds /\ contains(p, child(p, 0)) /\ ~IntersectsCell(y, child(p, 0))
          BY <1>11, <3>3, ChildrenTile
        <4>2. contains(x, child(p, 0))
          BY <3>2, <3>4, <4>1, CellOrders
        <4> QED
          BY <4>1, <4>2, QueriesAnswer
      <3>5. CASE contains(p, x) /\ x # p
        <4>1. PICK m \in 0 .. 3 : contains(child(p, m), x)
          BY <3>2, <3>5, ChildrenTile
        <4>2. child(p, m) \in CellIds /\ ~IntersectsCell(y, child(p, m))
          BY <1>11, ChildrenTile
        <4> QED
          BY <4>1, <4>2, QueriesAnswer
      <3> QED
        BY <3>1, <3>4, <3>5, CellOrder
    <2>2. ASSUME NEW m \in 0 .. 3 PROVE child(p, m) \in ToSet(v)
      <3>1. PICK i \in 1 .. n : child(p, m) \in ToSet(s[i])
        BY <1>10
      <3>2. CASE child(p, m) = v[i]
        BY <1>1, <3>2
      <3>3. CASE child(p, m) # v[i]
        <4>1. PICK q \in CellIds : /\ lsb(q) # 1 /\ IntersectsCell(y, q)
                                   /\ \E k \in 0 .. 3 : child(p, m) = child(q, k)
          BY <1>5, <3>1, <3>3 DEF Pieces
        <4>2. parent(child(p, m)) = p /\ parent(child(p, m)) = q
          BY <4>1, ChildParent
        <4> QED
          BY <2>1, <4>1, <4>2
      <3> QED
        BY <3>2, <3>3
    <2> QED
      BY <1>1, <2>2 DEF NoFamily
  <1>13. LeavesOf(w) = LeavesOf(v) \ LeavesOf(y)
    <2>1. LeavesOf(w) = UNION { Leaves(x) : x \in ToSet(w) }
      BY <1>9, Members
    <2>2. LeavesOf(w) = UNION { LeavesOf(s[k]) : k \in 1 .. n }
      <3>1. ASSUME NEW k \in 1 .. n, NEW leaf \in LeavesOf(s[k]) PROVE leaf \in LeavesOf(w)
        <4>1. PICK x \in ToSet(s[k]) : leaf \in Leaves(x)
          BY <1>7, <3>1
        <4> QED
          BY <1>9, <2>1, <4>1
      <3>2. ASSUME NEW leaf \in LeavesOf(w) PROVE \E k \in 1 .. n : leaf \in LeavesOf(s[k])
        <4>1. PICK x \in ToSet(w) : leaf \in Leaves(x)
          BY <2>1
        <4>2. PICK k \in 1 .. n : x \in ToSet(s[k])
          BY <1>9
        <4>3. LeavesOf(s[k]) = UNION { Leaves(z) : z \in ToSet(s[k]) }
          BY <1>7
        <4> QED
          BY <4>1, <4>2, <4>3
      <3> QED
        BY <3>1, <3>2
    <2>3. LeavesOf(v) = UNION { Leaves(v[i]) : i \in 1 .. n }
      BY <1>1
    <2> QED
      BY <1>7, <2>2, <2>3
  <1> QED
    BY <1>9, <1>12, <1>13, NormalizedIs DEF w

-----------------------------------------------------------------------------
(* Walks along two vectors.                                                *)

\* The search stops at the first cell from a position on that does not precede.
LEMMA LowerBoundIs ==
  ASSUME NEW v \in Seq(CellIds), NEW from \in 1 .. (Len(v) + 1), NEW id
  PROVE  /\ LowerBound(v, from, id) \in from .. (Len(v) + 1)
         /\ LowerBound(v, from, id) <= Len(v) => ~EntirelyPrecedes(v[LowerBound(v, from, id)], id)
         /\ \A i \in from .. Len(v) : i < LowerBound(v, from, id) => EntirelyPrecedes(v[i], id)
  <1> DEFINE n == Len(v)
             A == { i \in from .. n : ~EntirelyPrecedes(v[i], id) }
             at == Min(A \cup {n + 1})
  <1>1. n \in Nat /\ A \subseteq 1 .. n
    OBVIOUS
  <1>2. /\ at \in 1 .. (n + 1) /\ (at <= n => at \in A)
        /\ \A i \in 1 .. n : i < at => i \notin A
    <2> HIDE DEF n, A
    <2> QED
      BY <1>1, FirstIs
  <1>3. at = LowerBound(v, from, id)
    BY DEF LowerBound
  <1> HIDE DEF at
  <1>4. at \in from .. (n + 1)
    BY <1>1, <1>2
  <1>5. \A i \in from .. n : i < at => EntirelyPrecedes(v[i], id)
    BY <1>1, <1>2
  <1>6. at <= n => ~EntirelyPrecedes(v[at], id)
    BY <1>2
  <1> QED
    BY <1>3, <1>4, <1>5, <1>6

\* Cells of an ordered vector before one that precedes another cell precede it.
LEMMA AllPrecede ==
  ASSUME NEW v, Ordered(v), NEW y, Ordered(y), NEW i \in 1 .. Len(v), NEW j \in 1 .. Len(y),
         EntirelyPrecedes(v[i], y[j])
  PROVE  /\ LowerBound(v, i + 1, y[j]) \in (i + 1) .. (Len(v) + 1)
         /\ LowerBound(v, i + 1, y[j]) <= Len(v) => ~EntirelyPrecedes(v[LowerBound(v, i + 1, y[j])], y[j])
         /\ \A k \in i .. Len(v), l \in j .. Len(y) :
              k < LowerBound(v, i + 1, y[j]) => EntirelyPrecedes(v[k], y[l])
  <1> DEFINE n == Len(v)
             at == LowerBound(v, i + 1, y[j])
  <1>1. v \in Seq(CellIds) /\ y \in Seq(CellIds) /\ n \in Nat /\ Len(y) \in Nat
        /\ (\A k \in 1 .. n : v[k] \in CellIds) /\ (\A l \in 1 .. Len(y) : y[l] \in CellIds)
    BY Members DEF Ordered
  <1>2. i + 1 \in 1 .. (n + 1)
    BY <1>1
  <1>3. /\ at \in (i + 1) .. (n + 1) /\ (at <= n => ~EntirelyPrecedes(v[at], y[j]))
        /\ \A k \in (i + 1) .. n : k < at => EntirelyPrecedes(v[k], y[j])
    BY <1>1, <1>2, LowerBoundIs
  <1> HIDE DEF at
  <1>4. ASSUME NEW k \in i .. n, NEW l \in j .. Len(y), k < at PROVE EntirelyPrecedes(v[k], y[l])
    <2>1. k \in 1 .. n /\ l \in 1 .. Len(y) /\ (k = i \/ k \in (i + 1) .. n) /\ (l = j \/ j < l)
      BY <1>1
    <2>2. EntirelyPrecedes(v[k], y[j])
      BY <1>3, <1>4, <2>1
    <2>3. l = j \/ EntirelyPrecedes(y[j], y[l])
      BY <2>1 DEF Ordered
    <2> QED
      BY <1>1, <2>1, <2>2, <2>3, CellOrders
  <1> QED
    BY <1>3, <1>4 DEF at

\* The walk of IntersectsUnion.
MeetRuns(v, y, walk) ==
  walk = [p \in (1 .. Len(v) + 1) \X (1 .. Len(y) + 1) |->
            IF p[1] > Len(v) \/ p[2] > Len(y) THEN FALSE
            ELSE IF EntirelyPrecedes(v[p[1]], y[p[2]])
            THEN walk[<<LowerBound(v, p[1] + 1, y[p[2]]), p[2]>>]
            ELSE IF EntirelyPrecedes(y[p[2]], v[p[1]])
            THEN walk[<<p[1], LowerBound(y, p[2] + 1, v[p[1]])>>]
            ELSE TRUE]

\* WalkPositions in two vectors, ranked by what is left of both.
LEMMA WalkPositions ==
  ASSUME NEW n \in Nat, NEW m \in Nat
  PROVE  LET D == (1 .. n + 1) \X (1 .. m + 1)
             left == [p \in D |-> n + 1 - p[1] + (m + 1 - p[2])]
         IN  /\ left \in [D -> 0 .. n + m] /\ n + m \in Nat
             /\ \A p \in D : p[1] \in 1 .. (n + 1) /\ p[2] \in 1 .. (m + 1) /\ p = <<p[1], p[2]>>
             /\ \A i \in 1 .. (n + 1), j \in 1 .. (m + 1) : <<i, j>> \in D
             /\ \A p \in D, i \in 1 .. (n + 1), j \in 1 .. (m + 1) :
                  /\ i > p[1] /\ j >= p[2] => left[<<i, j>>] < left[p]
                  /\ i >= p[1] /\ j > p[2] => left[<<i, j>>] < left[p]
  <1> DEFINE D == (1 .. n + 1) \X (1 .. m + 1)
             left == [p \in D |-> n + 1 - p[1] + (m + 1 - p[2])]
  <1>1. \A p \in D : p[1] \in 1 .. (n + 1) /\ p[2] \in 1 .. (m + 1) /\ p = <<p[1], p[2]>>
    OBVIOUS
  <1>2. \A i \in 1 .. (n + 1), j \in 1 .. (m + 1) : <<i, j>> \in D
    OBVIOUS
  <1>3. \A p \in D : n + 1 - p[1] + (m + 1 - p[2]) \in 0 .. n + m
    <2> TAKE p \in D
    <2>1. PICK a \in 1 .. (n + 1), b \in 1 .. (m + 1) : a = p[1] /\ b = p[2]
      BY <1>1
    <2>2. n + 1 - a + (m + 1 - b) \in 0 .. n + m
      OBVIOUS
    <2> QED
      BY <2>1, <2>2
  <1>4. left \in [D -> 0 .. n + m]
    BY <1>3
  <1>5. ASSUME NEW p \in D, NEW i \in 1 .. (n + 1), NEW j \in 1 .. (m + 1)
        PROVE  /\ i > p[1] /\ j >= p[2] => left[<<i, j>>] < left[p]
               /\ i >= p[1] /\ j > p[2] => left[<<i, j>>] < left[p]
    <2>1. left[<<i, j>>] = n + 1 - i + (m + 1 - j)
      BY <1>2
    <2>2. left[p] = n + 1 - p[1] + (m + 1 - p[2])
      OBVIOUS
    <2>3. PICK a \in 1 .. (n + 1), b \in 1 .. (m + 1) : a = p[1] /\ b = p[2]
      BY <1>1
    <2> HIDE DEF left, D
    <2>4. left[p] = n + 1 - a + (m + 1 - b)
      BY <2>2, <2>3
    <2> QED
      BY <2>1, <2>3, <2>4
  <1>6. n + m \in Nat
    OBVIOUS
  <1> QED
    BY <1>1, <1>2, <1>4, <1>5, <1>6

LEMMA MeetExists ==
  ASSUME NEW v, NEW y, Ordered(v), Ordered(y)
  PROVE  \E walk : MeetRuns(v, y, walk)
  <1> DEFINE n == Len(v)
             m == Len(y)
             D == (1 .. n + 1) \X (1 .. m + 1)
             left == [p \in D |-> n + 1 - p[1] + (m + 1 - p[2])]
             B == BOOLEAN
             Next1(p) == <<LowerBound(v, p[1] + 1, y[p[2]]), p[2]>>
             Next2(p) == <<p[1], LowerBound(y, p[2] + 1, v[p[1]])>>
             Value(p, F) == IF p[1] > n \/ p[2] > m THEN FALSE
                            ELSE IF EntirelyPrecedes(v[p[1]], y[p[2]]) THEN F[Next1(p)]
                            ELSE IF EntirelyPrecedes(y[p[2]], v[p[1]]) THEN F[Next2(p)]
                            ELSE TRUE
             H == [p \in D |-> [F \in [D -> B] |-> Value(p, F)]]
  <1>1. n \in Nat /\ m \in Nat /\ v \in Seq(CellIds) /\ y \in Seq(CellIds)
    BY DEF Ordered
  <1>2. /\ left \in [D -> 0 .. n + m] /\ n + m \in Nat
        /\ \A p \in D : p[1] \in 1 .. (n + 1) /\ p[2] \in 1 .. (m + 1) /\ p = <<p[1], p[2]>>
        /\ \A i \in 1 .. (n + 1), j \in 1 .. (m + 1) : <<i, j>> \in D
        /\ \A p \in D, i \in 1 .. (n + 1), j \in 1 .. (m + 1) :
             /\ i > p[1] /\ j >= p[2] => left[<<i, j>>] < left[p]
             /\ i >= p[1] /\ j > p[2] => left[<<i, j>>] < left[p]
    <2> HIDE DEF n, m
    <2> QED
      BY <1>1, WalkPositions
  <1> HIDE DEF n, m, D, left
  <1>3. ASSUME NEW p \in D, ~(p[1] > n \/ p[2] > m)
        PROVE  /\ EntirelyPrecedes(v[p[1]], y[p[2]]) => Next1(p) \in D /\ left[Next1(p)] < left[p]
               /\ EntirelyPrecedes(y[p[2]], v[p[1]]) => Next2(p) \in D /\ left[Next2(p)] < left[p]
    <2>1. PICK i \in 1 .. n, j \in 1 .. m : i = p[1] /\ j = p[2]
      BY <1>1, <1>2, <1>3
    <2>2. ASSUME EntirelyPrecedes(v[i], y[j]) PROVE Next1(p) \in D /\ left[Next1(p)] < left[p]
      <3>1. LowerBound(v, i + 1, y[j]) \in (i + 1) .. (n + 1)
        BY <2>2, AllPrecede DEF n, m
      <3>2. LowerBound(v, i + 1, y[j]) \in 1 .. (n + 1) /\ LowerBound(v, i + 1, y[j]) > i
            /\ j \in 1 .. (m + 1) /\ j >= j
        BY <1>1, <3>1
      <3> QED
        BY <1>2, <2>1, <3>2
    <2>3. ASSUME EntirelyPrecedes(y[j], v[i]) PROVE Next2(p) \in D /\ left[Next2(p)] < left[p]
      <3>1. LowerBound(y, j + 1, v[i]) \in (j + 1) .. (m + 1)
        BY <2>3, AllPrecede DEF n, m
      <3>2. LowerBound(y, j + 1, v[i]) \in 1 .. (m + 1) /\ LowerBound(y, j + 1, v[i]) > j
            /\ i \in 1 .. (n + 1) /\ i >= i
        BY <1>1, <3>1
      <3> QED
        BY <1>2, <2>1, <3>2
    <2> QED
      BY <2>1, <2>2, <2>3
  <1> HIDE DEF Next1, Next2
  <1>4. \A p \in D, F \in [D -> B] : Value(p, F) \in B
    BY <1>3
  <1>5. H \in [D -> [[D -> B] -> B]]
    <2> HIDE DEF Value
    <2> QED
      BY <1>4
  <1>6. ASSUME NEW p \in D, NEW F \in [D -> B], NEW G \in [D -> B],
               \A e \in D : left[e] < left[p] => F[e] = G[e]
        PROVE  Value(p, F) = Value(p, G)
    BY <1>3, <1>6
  <1> HIDE DEF Value
  <1>7. \A p \in D, F \in [D -> B] : H[p][F] = Value(p, F)
    OBVIOUS
  <1> HIDE DEF H, B
  <1>8. WellRanked(D, B, n + m, left, H)
    <2>1. \A p \in D, F, G \in [D -> B] :
            (\A e \in D : left[e] < left[p] => F[e] = G[e]) => H[p][F] = H[p][G]
      BY <1>6, <1>7
    <2>2. B # {}
      BY DEF B
    <2> QED
      BY <1>2, <1>5, <2>1, <2>2 DEF WellRanked
  <1>9. PICK F \in [D -> B] : \A p \in D : F[p] = H[p][F]
    BY <1>8, RecursionExists
  <1>10. F = [p \in D |-> Value(p, F)]
    BY <1>7, <1>9
  <1> QED
    BY <1>10 DEF MeetRuns, Value, Next1, Next2, D, n, m

\* IntersectsUnion finds a cell of one vector that contains one of the other.
LEMMA IntersectsUnionIs ==
  ASSUME NEW v \in Seq(CellIds), IsNormalized(v), NEW y \in Seq(CellIds), IsNormalized(y)
  PROVE  IntersectsUnion(v, y) = (LeavesOf(y) \cap LeavesOf(v) # {})
  <1> DEFINE n == Len(v)
             m == Len(y)
             D == (1 .. n + 1) \X (1 .. m + 1)
             left == [p \in D |-> n + 1 - p[1] + (m + 1 - p[2])]
             walk == CHOOSE walk : MeetRuns(v, y, walk)
             Meet(k, l) == ~EntirelyPrecedes(v[k], y[l]) /\ ~EntirelyPrecedes(y[l], v[k])
             Fine(p) == walk[p] = (\E k \in p[1] .. n, l \in p[2] .. m : Meet(k, l))
             good == { p \in D : Fine(p) }
  <1>1. /\ n \in Nat /\ m \in Nat /\ Ordered(v) /\ Ordered(y)
        /\ \A i \in 1 .. n : v[i] \in CellIds /\ v[i] \in ToSet(v)
        /\ \A j \in 1 .. m : y[j] \in CellIds /\ y[j] \in ToSet(y)
    BY Members, NormalizedIs
  <1>2. IntersectsUnion(v, y) = walk[<<1, 1>>]
    BY DEF IntersectsUnion, MeetRuns
  <1>3. MeetRuns(v, y, walk)
    BY <1>1, MeetExists
  <1> HIDE DEF walk
  <1>4. /\ left \in [D -> 0 .. n + m] /\ n + m \in Nat
        /\ \A p \in D : p[1] \in 1 .. (n + 1) /\ p[2] \in 1 .. (m + 1) /\ p = <<p[1], p[2]>>
        /\ \A i \in 1 .. (n + 1), j \in 1 .. (m + 1) : <<i, j>> \in D
        /\ \A p \in D, i \in 1 .. (n + 1), j \in 1 .. (m + 1) :
             /\ i > p[1] /\ j >= p[2] => left[<<i, j>>] < left[p]
             /\ i >= p[1] /\ j > p[2] => left[<<i, j>>] < left[p]
    <2> HIDE DEF n, m
    <2> QED
      BY <1>1, WalkPositions
  <1>5. \A p \in D : walk[p] =
            IF p[1] > n \/ p[2] > m THEN FALSE
            ELSE IF EntirelyPrecedes(v[p[1]], y[p[2]])
            THEN walk[<<LowerBound(v, p[1] + 1, y[p[2]]), p[2]>>]
            ELSE IF EntirelyPrecedes(y[p[2]], v[p[1]])
            THEN walk[<<p[1], LowerBound(y, p[2] + 1, v[p[1]])>>]
            ELSE TRUE
    BY <1>3 DEF MeetRuns
  <1> HIDE DEF left, D, n, m
  <1>6. ASSUME NEW p \in D, \A e \in D : left[e] < left[p] => Fine(e) PROVE Fine(p)
    <2>1. PICK i \in 1 .. (n + 1), j \in 1 .. (m + 1) : i = p[1] /\ j = p[2]
      BY <1>4
    <2>2. walk[p] = IF i > n \/ j > m THEN FALSE
                    ELSE IF EntirelyPrecedes(v[i], y[j]) THEN walk[<<LowerBound(v, i + 1, y[j]), j>>]
                    ELSE IF EntirelyPrecedes(y[j], v[i]) THEN walk[<<i, LowerBound(y, j + 1, v[i])>>]
                    ELSE TRUE
      BY <1>5, <2>1
    <2> SUFFICES walk[p] = (\E k \in i .. n, l \in j .. m : Meet(k, l))
      BY <2>1
    <2>3. CASE i > n \/ j > m
      <3>1. ~\E k \in i .. n, l \in j .. m : Meet(k, l)
        BY <1>1, <2>3
      <3> HIDE DEF Meet
      <3> QED
        BY <2>2, <2>3, <3>1
    <2>4. CASE i <= n /\ j <= m /\ EntirelyPrecedes(v[i], y[j])
      <3>1. i \in 1 .. n /\ j \in 1 .. m
        BY <2>4
      <3>2. PICK at : at = LowerBound(v, i + 1, y[j])
        OBVIOUS
      <3>3. /\ at \in (i + 1) .. (n + 1)
            /\ \A k \in i .. n, l \in j .. m : k < at => EntirelyPrecedes(v[k], y[l])
        BY <1>1, <2>4, <3>1, <3>2, AllPrecede DEF n, m
      <3>4. at \in 1 .. (n + 1) /\ at > i /\ j >= j
        BY <1>1, <3>3
      <3>5. <<at, j>> \in D /\ left[<<at, j>>] < left[p]
        BY <1>4, <2>1, <3>4
      <3>6. walk[<<at, j>>] = (\E k \in at .. n, l \in j .. m : Meet(k, l))
        <4>1. Fine(<<at, j>>)
          BY <1>6, <3>5
        <4>2. <<at, j>>[1] = at /\ <<at, j>>[2] = j
          OBVIOUS
        <4> HIDE DEF Meet
        <4> QED
          BY <4>1, <4>2
      <3>7. walk[p] = walk[<<at, j>>]
        <4>1. ~(i > n \/ j > m)
          BY <1>1, <3>1
        <4> QED
          BY <2>2, <2>4, <3>2, <4>1
      <3>8. (\E k \in at .. n, l \in j .. m : Meet(k, l)) <=> (\E k \in i .. n, l \in j .. m : Meet(k, l))
        <4>1. \A k \in at .. n : k \in i .. n
          BY <3>3
        <4>2. \A k \in i .. n, l \in j .. m : Meet(k, l) => k \in at .. n
          BY <3>3
        <4> QED
          BY <4>1, <4>2
      <3> HIDE DEF Meet
      <3> QED
        BY <3>6, <3>7, <3>8
    <2>5. CASE i <= n /\ j <= m /\ ~EntirelyPrecedes(v[i], y[j]) /\ EntirelyPrecedes(y[j], v[i])
      <3>1. i \in 1 .. n /\ j \in 1 .. m
        BY <2>5
      <3>2. PICK at : at = LowerBound(y, j + 1, v[i])
        OBVIOUS
      <3>3. /\ at \in (j + 1) .. (m + 1)
            /\ \A l \in j .. m, k \in i .. n : l < at => EntirelyPrecedes(y[l], v[k])
        BY <1>1, <2>5, <3>1, <3>2, AllPrecede DEF n, m
      <3>4. at \in 1 .. (m + 1) /\ at > j /\ i >= i
        BY <1>1, <3>3
      <3>5. <<i, at>> \in D /\ left[<<i, at>>] < left[p]
        BY <1>4, <2>1, <3>4
      <3>6. walk[<<i, at>>] = (\E k \in i .. n, l \in at .. m : Meet(k, l))
        <4>1. Fine(<<i, at>>)
          BY <1>6, <3>5
        <4>2. <<i, at>>[1] = i /\ <<i, at>>[2] = at
          OBVIOUS
        <4> HIDE DEF Meet
        <4> QED
          BY <4>1, <4>2
      <3>7. walk[p] = walk[<<i, at>>]
        <4>1. ~(i > n \/ j > m)
          BY <1>1, <3>1
        <4> QED
          BY <2>2, <2>5, <3>2, <4>1
      <3>8. (\E k \in i .. n, l \in at .. m : Meet(k, l)) <=> (\E k \in i .. n, l \in j .. m : Meet(k, l))
        <4>1. \A l \in at .. m : l \in j .. m
          BY <3>3
        <4>2. \A k \in i .. n, l \in j .. m : Meet(k, l) => l \in at .. m
          BY <3>3
        <4> QED
          BY <4>1, <4>2
      <3> HIDE DEF Meet
      <3> QED
        BY <3>6, <3>7, <3>8
    <2>6. CASE i <= n /\ j <= m /\ ~EntirelyPrecedes(v[i], y[j]) /\ ~EntirelyPrecedes(y[j], v[i])
      <3>1. i \in i .. n /\ j \in j .. m /\ Meet(i, j)
        BY <2>6
      <3>2. walk[p] = TRUE
        BY <1>1, <2>2, <2>6
      <3>3. \E k \in i .. n, l \in j .. m : Meet(k, l)
        BY <3>1
      <3> HIDE DEF Meet
      <3> QED
        BY <3>2, <3>3
    <2>7. (i > n \/ j > m) \/ (i <= n /\ j <= m)
      BY <1>1
    <2> HIDE DEF Meet
    <2> QED
      BY <2>3, <2>4, <2>5, <2>6, <2>7
  <1> HIDE DEF Fine
  <1>7. \A p \in D : p \in good
    <2>1. \A p \in D : (\A e \in D : left[e] < left[p] => e \in good) => p \in good
      BY <1>6
    <2>2. left \in [D -> Nat]
      BY <1>4
    <2> HIDE DEF good
    <2> QED
      BY <2>1, <2>2, ByRank
  <1>8. walk[<<1, 1>>] = (\E k \in 1 .. n, l \in 1 .. m : Meet(k, l))
    <2>1. <<1, 1>> \in D /\ <<1, 1>>[1] = 1 /\ <<1, 1>>[2] = 1
      <3>1. 1 \in 1 .. (n + 1) /\ 1 \in 1 .. (m + 1)
        BY <1>1
      <3>2. \A i \in 1 .. (n + 1), j \in 1 .. (m + 1) : <<i, j>> \in D
        BY <1>4
      <3> QED
        BY <3>1, <3>2
    <2>2. Fine(<<1, 1>>)
      BY <1>7, <2>1
    <2> HIDE DEF Meet
    <2> QED
      BY <2>1, <2>2 DEF Fine
  <1>9. (\E k \in 1 .. n, l \in 1 .. m : Meet(k, l)) <=> LeavesOf(y) \cap LeavesOf(v) # {}
    <2>1. /\ LeavesOf(v) = UNION { Leaves(x) : x \in ToSet(v) }
          /\ LeavesOf(y) = UNION { Leaves(x) : x \in ToSet(y) }
          /\ \A x \in ToSet(v) : \E i \in 1 .. n : v[i] = x
          /\ \A x \in ToSet(y) : \E j \in 1 .. m : y[j] = x
      BY Members DEF n, m
    <2>2. \A k \in 1 .. n, l \in 1 .. m : Meet(k, l) <=> Leaves(v[k]) \cap Leaves(y[l]) # {}
      BY <1>1, CellOrder, LeafLaws
    <2> HIDE DEF Meet
    <2>3. ASSUME NEW k \in 1 .. n, NEW l \in 1 .. m, Meet(k, l) PROVE LeavesOf(y) \cap LeavesOf(v) # {}
      BY <1>1, <2>1, <2>2, <2>3
    <2>4. ASSUME NEW leaf \in LeavesOf(y), leaf \in LeavesOf(v) PROVE \E k \in 1 .. n, l \in 1 .. m : Meet(k, l)
      <3>1. PICK k \in 1 .. n : leaf \in Leaves(v[k])
        BY <2>1, <2>4
      <3>2. PICK l \in 1 .. m : leaf \in Leaves(y[l])
        BY <2>1
      <3> QED
        BY <2>2, <3>1, <3>2
    <2> QED
      BY <2>3, <2>4
  <1> HIDE DEF Meet
  <1> QED
    BY <1>2, <1>8, <1>9

\* The walk of ContainsUnion, from a cell of y and a position in v.
Holder(v, y, j, i) ==
  IF EntirelyPrecedes(v[i], y[j]) THEN LowerBound(v, i + 1, y[j]) ELSE i

HoldRuns(v, y, walk) ==
  walk = [p \in (1 .. Len(y) + 1) \X (1 .. Len(v)) |->
            p[1] > Len(y) \/ (/\ Holder(v, y, p[1], p[2]) <= Len(v)
                              /\ contains(v[Holder(v, y, p[1], p[2])], y[p[1]])
                              /\ walk[<<p[1] + 1, Holder(v, y, p[1], p[2])>>])]

\* The cell found is the only one from the position on that may contain y[j],
\* and none before it contains a cell behind y[j].
LEMMA HolderIs ==
  ASSUME NEW v, NEW y, Ordered(v), Ordered(y), NEW i \in 1 .. Len(v), NEW j \in 1 .. Len(y)
  PROVE  /\ Holder(v, y, j, i) \in i .. (Len(v) + 1)
         /\ \A k \in i .. Len(v) : contains(v[k], y[j]) => k = Holder(v, y, j, i)
         /\ \A k \in i .. Len(v), l \in j .. Len(y) :
              contains(v[k], y[l]) => k >= Holder(v, y, j, i)
  <1> DEFINE n == Len(v)
             at == Holder(v, y, j, i)
  <1>1. v \in Seq(CellIds) /\ y \in Seq(CellIds) /\ n \in Nat /\ Len(y) \in Nat
        /\ (\A k \in 1 .. n : v[k] \in CellIds) /\ (\A l \in 1 .. Len(y) : y[l] \in CellIds)
    BY Members DEF Ordered
  <1>2. /\ at \in i .. (n + 1) /\ (at <= n => ~EntirelyPrecedes(v[at], y[j]))
        /\ \A k \in i .. n, l \in j .. Len(y) : k < at => EntirelyPrecedes(v[k], y[l])
    <2>1. CASE EntirelyPrecedes(v[i], y[j])
      <3>1. at = LowerBound(v, i + 1, y[j])
        BY <2>1 DEF Holder
      <3>2. at \in (i + 1) .. (n + 1) /\ (at <= n => ~EntirelyPrecedes(v[at], y[j]))
            /\ \A k \in i .. n, l \in j .. Len(y) : k < at => EntirelyPrecedes(v[k], y[l])
        BY <2>1, <3>1, AllPrecede
      <3>3. at \in i .. (n + 1)
        BY <1>1, <3>2
      <3> QED
        BY <3>2, <3>3
    <2>2. CASE ~EntirelyPrecedes(v[i], y[j])
      <3>1. at = i
        BY <2>2 DEF Holder
      <3>2. at \in i .. (n + 1) /\ \A k \in i .. n : ~(k < at)
        BY <1>1, <3>1
      <3> HIDE DEF at
      <3> QED
        BY <2>2, <3>1, <3>2
    <2> QED
      BY <2>1, <2>2
  <1> HIDE DEF at
  <1>3. ASSUME NEW k \in i .. n, NEW l \in j .. Len(y), contains(v[k], y[l]) PROVE k >= at
    <2>1. k \in 1 .. n /\ l \in 1 .. Len(y)
      BY <1>1
    <2>2. ~EntirelyPrecedes(v[k], y[l])
      BY <1>1, <1>3, <2>1, CellOrder
    <2>3. ~(k < at)
      BY <1>2, <2>2
    <2> QED
      BY <1>1, <1>2, <2>1, <2>3
  <1>4. ASSUME NEW k \in i .. n, contains(v[k], y[j]) PROVE k = at
    <2>1. k \in 1 .. n /\ j \in j .. Len(y)
      BY <1>1
    <2>2. k >= at
      BY <1>3, <1>4, <2>1
    <2>3. ASSUME at < k PROVE FALSE
      <3>1. at \in 1 .. n /\ at <= n
        BY <1>1, <1>2, <2>1, <2>3
      <3>2. EntirelyPrecedes(v[at], v[k])
        BY <2>1, <2>3, <3>1 DEF Ordered
      <3>3. EntirelyPrecedes(v[at], y[j])
        BY <1>1, <1>4, <2>1, <3>1, <3>2, CellOrders
      <3> QED
        BY <1>2, <3>1, <3>3
    <2> QED
      BY <1>1, <1>2, <2>1, <2>2, <2>3
  <1> QED
    BY <1>2, <1>3, <1>4 DEF at

LEMMA HoldExists ==
  ASSUME NEW v, NEW y, Ordered(v), Ordered(y)
  PROVE  \E walk : HoldRuns(v, y, walk)
  <1> DEFINE n == Len(v)
             m == Len(y)
             D == (1 .. m + 1) \X (1 .. n)
             left == [p \in D |-> m + 1 - p[1]]
             B == BOOLEAN
             K(p) == Holder(v, y, p[1], p[2])
             Then(p) == <<p[1] + 1, K(p)>>
             Value(p, F) == p[1] > m \/ (K(p) <= n /\ contains(v[K(p)], y[p[1]]) /\ F[Then(p)])
             H == [p \in D |-> [F \in [D -> B] |-> Value(p, F)]]
  <1>1. n \in Nat /\ m \in Nat
    BY DEF Ordered
  <1>2. left \in [D -> 0 .. m]
    <2>1. \A p \in D : p[1] \in 1 .. (m + 1)
      OBVIOUS
    <2> HIDE DEF m, D
    <2>2. \A p \in D : m + 1 - p[1] \in 0 .. m
      BY <1>1, <2>1
    <2> QED
      BY <2>2
  <1>3. ASSUME NEW p \in D, ~(p[1] > m), K(p) <= n PROVE Then(p) \in D /\ left[Then(p)] < left[p]
    <2>1. PICK j \in 1 .. m, i \in 1 .. n : j = p[1] /\ i = p[2]
      <3>1. p[1] \in 1 .. (m + 1) /\ p[2] \in 1 .. n
        OBVIOUS
      <3>2. p[1] \in 1 .. m
        BY <1>1, <1>3, <3>1
      <3> QED
        BY <3>1, <3>2
    <2>2. K(p) \in i .. (n + 1)
      BY <2>1, HolderIs
    <2>3. K(p) \in 1 .. n /\ j + 1 \in 1 .. (m + 1)
      BY <1>1, <1>3, <2>2
    <2>4. Then(p) = <<j + 1, K(p)>>
      BY <2>1
    <2> HIDE DEF K, Then
    <2>5. Then(p) \in D /\ Then(p)[1] = j + 1
      BY <2>3, <2>4
    <2> HIDE DEF D
    <2>6. left[Then(p)] = m + 1 - (j + 1) /\ left[p] = m + 1 - j
      BY <2>1, <2>5
    <2> HIDE DEF m, left
    <2> QED
      BY <1>1, <2>5, <2>6
  <1> HIDE DEF Then, K, D, left, n, m
  <1>4. ASSUME NEW p \in D, NEW F \in [D -> B], NEW G \in [D -> B],
               \A e \in D : left[e] < left[p] => F[e] = G[e]
        PROVE  Value(p, F) = Value(p, G)
    BY <1>3, <1>4
  <1>5. \A p \in D, F \in [D -> B] : Value(p, F) \in B
    OBVIOUS
  <1> HIDE DEF Value, B
  <1>6. H \in [D -> [[D -> B] -> B]] /\ \A p \in D, F \in [D -> B] : H[p][F] = Value(p, F)
    BY <1>5
  <1> HIDE DEF H
  <1>7. WellRanked(D, B, m, left, H)
    <2>1. \A p \in D, F, G \in [D -> B] :
            (\A e \in D : left[e] < left[p] => F[e] = G[e]) => H[p][F] = H[p][G]
      <3> TAKE p \in D, F, G \in [D -> B]
      <3> HAVE \A e \in D : left[e] < left[p] => F[e] = G[e]
      <3>1. Value(p, F) = Value(p, G)
        BY <1>4
      <3>2. H[p][F] = Value(p, F) /\ H[p][G] = Value(p, G)
        BY <1>6
      <3> QED
        BY <3>1, <3>2
    <2>2. B # {}
      BY DEF B
    <2> QED
      BY <1>1, <1>2, <1>6, <2>1, <2>2 DEF WellRanked
  <1>8. PICK F \in [D -> B] : \A p \in D : F[p] = H[p][F]
    BY <1>7, RecursionExists
  <1>9. F = [p \in D |-> Value(p, F)]
    BY <1>6, <1>8
  <1> QED
    BY <1>9 DEF HoldRuns, Value, Then, K, D, n, m

\* ContainsUnion finds for every cell of y one of v that contains it.
LEMMA ContainsUnionIs ==
  ASSUME NEW v \in Seq(CellIds), IsNormalized(v), NEW y \in Seq(CellIds), IsNormalized(y)
  PROVE  ContainsUnion(v, y) = (LeavesOf(y) \subseteq LeavesOf(v))
  <1> DEFINE n == Len(v)
             m == Len(y)
             D == (1 .. m + 1) \X (1 .. n)
             left == [p \in D |-> m + 1 - p[1]]
             walk == CHOOSE walk : HoldRuns(v, y, walk)
             Held(i, l) == \E k \in i .. n : contains(v[k], y[l])
             Fine(p) == walk[p] = (\A l \in p[1] .. m : Held(p[2], l))
             good == { p \in D : Fine(p) }
  <1>1. /\ n \in Nat /\ m \in Nat /\ Ordered(v) /\ Ordered(y)
        /\ \A i \in 1 .. n : v[i] \in CellIds /\ v[i] \in ToSet(v)
        /\ \A j \in 1 .. m : y[j] \in CellIds /\ y[j] \in ToSet(y)
    BY Members, NormalizedIs
  <1>2. ContainsUnion(v, y) = (y = <<>> \/ (v # <<>> /\ walk[<<1, 1>>]))
    BY DEF ContainsUnion, HoldRuns, Holder
  <1>3. HoldRuns(v, y, walk)
    BY <1>1, HoldExists
  <1> HIDE DEF walk
  <1>4. left \in [D -> Nat] /\ \A p \in D : p[1] \in 1 .. (m + 1) /\ p[2] \in 1 .. n
    <2>1. \A p \in D : p[1] \in 1 .. (m + 1) /\ p[2] \in 1 .. n
      OBVIOUS
    <2> HIDE DEF m, D
    <2>2. \A p \in D : m + 1 - p[1] \in Nat
      BY <1>1, <2>1
    <2> QED
      BY <2>1, <2>2
  <1>5. \A p \in D : walk[p] =
          (p[1] > m \/ (/\ Holder(v, y, p[1], p[2]) <= n
                        /\ contains(v[Holder(v, y, p[1], p[2])], y[p[1]])
                        /\ walk[<<p[1] + 1, Holder(v, y, p[1], p[2])>>]))
    BY <1>3 DEF HoldRuns
  <1>6. \A j \in 1 .. (m + 1), i \in 1 .. n : <<j, i>> \in D /\ left[<<j, i>>] = m + 1 - j
    OBVIOUS
  <1> HIDE DEF left, D, n, m
  <1>7. ASSUME NEW p \in D, \A e \in D : left[e] < left[p] => Fine(e) PROVE Fine(p)
    <2>1. PICK j \in 1 .. (m + 1), i \in 1 .. n : j = p[1] /\ i = p[2]
      BY <1>4
    <2>2. PICK at : at = Holder(v, y, j, i)
      OBVIOUS
    <2>3. walk[p] = (j > m \/ (at <= n /\ contains(v[at], y[j]) /\ walk[<<j + 1, at>>]))
      BY <1>5, <2>1, <2>2
    <2> SUFFICES walk[p] = (\A l \in j .. m : Held(i, l))
      BY <2>1
    <2>4. CASE j > m
      <3>1. \A l \in j .. m : Held(i, l)
        BY <1>1, <2>4
      <3> HIDE DEF Held
      <3> QED
        BY <2>3, <2>4, <3>1
    <2>5. CASE ~(j > m)
      <3>1. j \in 1 .. m /\ j \in j .. m
        BY <1>1, <2>5
      <3>2. /\ at \in i .. (n + 1)
            /\ \A k \in i .. n : contains(v[k], y[j]) => k = at
            /\ \A k \in i .. n, l \in j .. m : contains(v[k], y[l]) => k >= at
        BY <1>1, <2>2, <3>1, HolderIs DEF n, m
      <3>3. Held(i, j) <=> at <= n /\ contains(v[at], y[j])
        <4>1. at <= n => at \in i .. n
          BY <1>1, <3>2
        <4>2. \A k \in i .. n : k <= n
          BY <1>1
        <4> QED
          BY <3>2, <4>1, <4>2
      <3>4. CASE at <= n
        <4>1. at \in 1 .. n /\ j + 1 \in 1 .. (m + 1)
          BY <1>1, <3>1, <3>2, <3>4
        <4>2. <<j + 1, at>> \in D /\ left[<<j + 1, at>>] < left[p]
          <5>1. left[p] = m + 1 - j
            <6>1. p = <<j, i>>
              BY <2>1 DEF D
            <6> QED
              BY <1>6, <6>1
          <5>2. <<j + 1, at>> \in D /\ left[<<j + 1, at>>] = m + 1 - (j + 1)
            BY <1>6, <4>1
          <5> QED
            BY <1>1, <5>1, <5>2
        <4>3. walk[<<j + 1, at>>] = (\A l \in (j + 1) .. m : Held(at, l))
          <5>1. Fine(<<j + 1, at>>)
            BY <1>7, <4>2
          <5>2. <<j + 1, at>>[1] = j + 1 /\ <<j + 1, at>>[2] = at
            OBVIOUS
          <5> HIDE DEF Held
          <5> QED
            BY <5>1, <5>2
        <4>4. \A l \in j .. m : Held(i, l) <=> Held(at, l)
          <5> TAKE l \in j .. m
          <5>1. \A k \in at .. n : k \in i .. n
            BY <1>1, <3>2
          <5>2. \A k \in i .. n : contains(v[k], y[l]) => k \in at .. n
            BY <1>1, <3>2
          <5> QED
            BY <5>1, <5>2
        <4> HIDE DEF Held
        <4>5. (\A l \in j .. m : Held(i, l)) <=> Held(i, j) /\ \A l \in (j + 1) .. m : Held(at, l)
          <5>1. \A l \in j .. m : l = j \/ l \in (j + 1) .. m
            BY <1>1
          <5>2. \A l \in (j + 1) .. m : l \in j .. m
            BY <1>1
          <5> QED
            BY <3>1, <4>4, <5>1, <5>2
        <4> QED
          BY <2>3, <2>5, <3>3, <4>3, <4>5
      <3>5. CASE ~(at <= n)
        <4> HIDE DEF Held
        <4>1. ~\A l \in j .. m : Held(i, l)
          BY <3>1, <3>3, <3>5
        <4> QED
          BY <2>3, <2>5, <3>5, <4>1
      <3> QED
        BY <3>4, <3>5
    <2> HIDE DEF Held
    <2> QED
      BY <2>4, <2>5
  <1> HIDE DEF Fine
  <1>8. \A p \in D : Fine(p)
    <2>1. \A p \in D : (\A e \in D : left[e] < left[p] => e \in good) => p \in good
      BY <1>7
    <2> HIDE DEF good
    <2>2. \A p \in D : p \in good
      BY <1>4, <2>1, ByRank
    <2> QED
      BY <2>2 DEF good
  <1>9. /\ LeavesOf(y) = UNION { Leaves(x) : x \in ToSet(y) }
        /\ \A x \in ToSet(y) : \E j \in 1 .. m : y[j] = x
        /\ \A x \in ToSet(v) : \E i \in 1 .. n : v[i] = x
    BY Members DEF n, m
  <1>10. LeavesOf(y) \subseteq LeavesOf(v) <=> \A l \in 1 .. m : Held(1, l)
    <2>1. \A l \in 1 .. m : Held(1, l) <=> Leaves(y[l]) \subseteq LeavesOf(v)
      <3> TAKE l \in 1 .. m
      <3>1. ContainsCell(v, y[l]) <=> \E x \in ToSet(v) : contains(x, y[l])
        BY <1>1, QueriesAnswer
      <3>2. ContainsCell(v, y[l]) <=> Leaves(y[l]) \subseteq LeavesOf(v)
        BY <1>1, QueriesAnswer
      <3> QED
        BY <1>1, <1>9, <3>1, <3>2
    <2> HIDE DEF Held
    <2>2. LeavesOf(y) \subseteq LeavesOf(v) <=> \A l \in 1 .. m : Leaves(y[l]) \subseteq LeavesOf(v)
      BY <1>1, <1>9
    <2> QED
      BY <2>1, <2>2
  <1>11. CASE y = <<>>
    <2>1. LeavesOf(y) = {}
      BY <1>11, OrderedFew
    <2> QED
      BY <1>2, <1>11, <2>1
  <1>12. CASE y # <<>> /\ v = <<>>
    <2>1. n = 0 /\ 1 \in 1 .. m
      <3>1. m # 0
        BY <1>12 DEF m
      <3> QED
        BY <1>1, <1>12, <3>1 DEF n
    <2>2. ~Held(1, 1)
      BY <2>1
    <2> HIDE DEF Held
    <2> QED
      BY <1>2, <1>10, <1>12, <2>1, <2>2
  <1>13. CASE y # <<>> /\ v # <<>>
    <2>1. 1 \in 1 .. n /\ 1 \in 1 .. (m + 1)
      <3>1. n # 0
        BY <1>13 DEF n
      <3> QED
        BY <1>1, <3>1
    <2>2. <<1, 1>> \in D /\ <<1, 1>>[1] = 1 /\ <<1, 1>>[2] = 1
      BY <1>6, <2>1
    <2> HIDE DEF Held
    <2>3. walk[<<1, 1>>] = (\A l \in 1 .. m : Held(1, l))
      BY <1>8, <2>2 DEF Fine
    <2> QED
      BY <1>2, <1>10, <1>13, <2>3
  <1> QED
    BY <1>11, <1>12, <1>13

-----------------------------------------------------------------------------
(* Intersection of two vectors.                                            *)

\* How the first bits of two cells, and the id of one, tell which contains the
\* other.
LEMMA Facing ==
  \A x, z \in CellIds :
    /\ range_min(x) \in Nat /\ range_max(x) \in Nat /\ x \in Nat
    /\ range_min(x) > range_min(z) => /\ x <= range_max(z) => contains(z, x)
                                      /\ x > range_max(z) => EntirelyPrecedes(z, x)
    /\ range_min(x) = range_min(z) => /\ x < z => contains(z, x)
                                      /\ ~(x < z) => contains(x, z)
  <1> TAKE x \in CellIds, z \in CellIds
  <1>1. /\ x \in Nat /\ range_min(x) \in Nat /\ range_max(x) \in Nat
        /\ range_min(x) <= x /\ x <= range_max(x)
        /\ z \in Nat /\ range_min(z) \in Nat /\ range_max(z) \in Nat
        /\ range_min(z) <= z /\ z <= range_max(z)
    BY CellFacts
  <1>2. range_min(x) + range_max(x) = 2 * x /\ range_min(z) + range_max(z) = 2 * z
    BY RangeForm
  <1>3. x = z \/ Inside(x, z) \/ Inside(z, x) \/ Apart(x, z)
    BY Laminar
  <1>4. ASSUME range_min(x) > range_min(z)
        PROVE  /\ x <= range_max(z) => contains(z, x)
               /\ x > range_max(z) => EntirelyPrecedes(z, x)
    BY <1>1, <1>3, <1>4 DEF contains, EntirelyPrecedes, Inside, Apart
  <1>5. ASSUME range_min(x) = range_min(z)
        PROVE  /\ x < z => contains(z, x)
               /\ ~(x < z) => contains(x, z)
    BY <1>1, <1>2, <1>3, <1>5 DEF contains, Inside, Apart
  <1> QED
    BY <1>1, <1>4, <1>5

\* The walk of GetIntersection.
CommonValue(v, y, i, j, walk) ==
  LET imin == range_min(v[i])
      jmin == range_min(y[j])
      take_v == <<v[i]>> \o walk[<<i + 1, j>>]
      take_y == <<y[j]>> \o walk[<<i, j + 1>>]
  IN  IF i > Len(v) \/ j > Len(y) THEN <<>>
      ELSE IF imin > jmin
      THEN IF v[i] <= range_max(y[j]) THEN take_v ELSE walk[<<i, LowerBound(y, j + 1, v[i])>>]
      ELSE IF jmin > imin
      THEN IF y[j] <= range_max(v[i]) THEN take_y ELSE walk[<<LowerBound(v, i + 1, y[j]), j>>]
      ELSE IF v[i] < y[j] THEN take_v ELSE take_y

CommonRuns(v, y, walk) ==
  walk = [p \in (1 .. Len(v) + 1) \X (1 .. Len(y) + 1) |-> CommonValue(v, y, p[1], p[2], walk)]

\* One turn of the walk: a cell that the other vector has too is taken, or what
\* precedes a cell of the other vector is passed over.
Turn(v, y, i, j, walk) ==
  \/ contains(y[j], v[i]) /\ walk[<<i, j>>] = <<v[i]>> \o walk[<<i + 1, j>>]
  \/ contains(v[i], y[j]) /\ walk[<<i, j>>] = <<y[j]>> \o walk[<<i, j + 1>>]
  \/ /\ EntirelyPrecedes(y[j], v[i])
     /\ walk[<<i, j>>] = walk[<<i, LowerBound(y, j + 1, v[i])>>]
  \/ /\ EntirelyPrecedes(v[i], y[j])
     /\ walk[<<i, j>>] = walk[<<LowerBound(v, i + 1, y[j]), j>>]

LEMMA TurnIs ==
  ASSUME NEW v, NEW y, Ordered(v), Ordered(y), NEW walk, CommonRuns(v, y, walk),
         NEW i \in 1 .. Len(v), NEW j \in 1 .. Len(y)
  PROVE  Turn(v, y, i, j, walk)
  <1>1. PICK x \in CellIds, z \in CellIds : x = v[i] /\ z = y[j]
    BY Members DEF Ordered
  <1>2. Len(v) \in Nat /\ Len(y) \in Nat
    BY DEF Ordered
  <1> DEFINE imin == range_min(x)
             jmin == range_min(z)
             take_v == <<x>> \o walk[<<i + 1, j>>]
             take_y == <<z>> \o walk[<<i, j + 1>>]
             skip_y == walk[<<i, LowerBound(y, j + 1, x)>>]
             skip_v == walk[<<LowerBound(v, i + 1, z), j>>]
  <1>3. walk[<<i, j>>] = IF imin > jmin THEN (IF x <= range_max(z) THEN take_v ELSE skip_y)
                         ELSE IF jmin > imin THEN (IF z <= range_max(x) THEN take_y ELSE skip_v)
                         ELSE IF x < z THEN take_v ELSE take_y
    <2> DEFINE D == (1 .. Len(v) + 1) \X (1 .. Len(y) + 1)
    <2>1. walk = [p \in D |-> CommonValue(v, y, p[1], p[2], walk)]
      BY DEF CommonRuns
    <2>2. <<i, j>> \in D /\ <<i, j>>[1] = i /\ <<i, j>>[2] = j /\ ~(i > Len(v) \/ j > Len(y))
      BY <1>2
    <2> HIDE DEF D
    <2>3. walk[<<i, j>>] = CommonValue(v, y, <<i, j>>[1], <<i, j>>[2], walk)
      BY <2>1, <2>2
    <2>4. walk[<<i, j>>] = CommonValue(v, y, i, j, walk)
      BY <2>2, <2>3
    <2>5. CommonValue(v, y, i, j, walk)
            = IF imin > jmin THEN (IF x <= range_max(z) THEN take_v ELSE skip_y)
              ELSE IF jmin > imin THEN (IF z <= range_max(x) THEN take_y ELSE skip_v)
              ELSE IF x < z THEN take_v ELSE take_y
      BY <1>1, <2>2, Zenon DEF CommonValue
    <2> QED
      BY <2>4, <2>5
  <1> HIDE DEF take_v, take_y, skip_y, skip_v
  <1>4. imin \in Nat /\ jmin \in Nat /\ range_max(x) \in Nat /\ range_max(z) \in Nat
        /\ x \in Nat /\ z \in Nat
    BY Facing
  <1>5. CASE imin > jmin /\ x <= range_max(z)
    <2>1. walk[<<i, j>>] = take_v
      BY <1>3, <1>4, <1>5
    <2> QED
      BY <1>1, <1>5, <2>1, Facing DEF Turn, take_v
  <1>6. CASE imin > jmin /\ x > range_max(z)
    <2>1. walk[<<i, j>>] = skip_y
      BY <1>3, <1>4, <1>6
    <2> QED
      BY <1>1, <1>6, <2>1, Facing DEF Turn, skip_y
  <1>7. CASE jmin > imin /\ z <= range_max(x)
    <2>1. walk[<<i, j>>] = take_y
      BY <1>3, <1>4, <1>7
    <2> QED
      BY <1>1, <1>7, <2>1, Facing DEF Turn, take_y
  <1>8. CASE jmin > imin /\ z > range_max(x)
    <2>1. walk[<<i, j>>] = skip_v
      BY <1>3, <1>4, <1>8
    <2> QED
      BY <1>1, <1>8, <2>1, Facing DEF Turn, skip_v
  <1>9. CASE imin = jmin
    <2>1. walk[<<i, j>>] = IF x < z THEN take_v ELSE take_y
      BY <1>3, <1>4, <1>9
    <2>2. CASE x < z
      BY <1>1, <1>9, <2>1, <2>2, Facing DEF Turn, take_v
    <2>3. CASE ~(x < z)
      BY <1>1, <1>9, <2>1, <2>3, Facing DEF Turn, take_y
    <2> QED
      BY <2>2, <2>3
  <1> QED
    BY <1>4, <1>5, <1>6, <1>7, <1>8, <1>9

LEMMA CommonExists ==
  ASSUME NEW v, NEW y, Ordered(v), Ordered(y)
  PROVE  \E walk : CommonRuns(v, y, walk)
  <1> DEFINE n == Len(v)
             m == Len(y)
             D == (1 .. n + 1) \X (1 .. m + 1)
             S == Seq(CellIds)
             left == [p \in D |-> n + 1 - p[1] + (m + 1 - p[2])]
             up == [p \in D |-> <<p[1] + 1, p[2]>>]
             right == [p \in D |-> <<p[1], p[2] + 1>>]
             jump_v == [p \in D |-> <<LowerBound(v, p[1] + 1, y[p[2]]), p[2]>>]
             jump_y == [p \in D |-> <<p[1], LowerBound(y, p[2] + 1, v[p[1]])>>]
             Value(p, F) ==
               IF p[1] > n \/ p[2] > m THEN <<>>
               ELSE IF range_min(v[p[1]]) > range_min(y[p[2]])
               THEN IF v[p[1]] <= range_max(y[p[2]]) THEN <<v[p[1]]>> \o F[up[p]] ELSE F[jump_y[p]]
               ELSE IF range_min(y[p[2]]) > range_min(v[p[1]])
               THEN IF y[p[2]] <= range_max(v[p[1]]) THEN <<y[p[2]]>> \o F[right[p]] ELSE F[jump_v[p]]
               ELSE IF v[p[1]] < y[p[2]] THEN <<v[p[1]]>> \o F[up[p]] ELSE <<y[p[2]]>> \o F[right[p]]
             H == [p \in D |-> [F \in [D -> S] |-> Value(p, F)]]
  <1>1. n \in Nat /\ m \in Nat /\ v \in Seq(CellIds) /\ y \in Seq(CellIds)
        /\ (\A i \in 1 .. n : v[i] \in CellIds) /\ (\A j \in 1 .. m : y[j] \in CellIds)
    BY Members DEF Ordered
  <1>2. /\ left \in [D -> 0 .. n + m] /\ n + m \in Nat
        /\ \A p \in D : p[1] \in 1 .. (n + 1) /\ p[2] \in 1 .. (m + 1) /\ p = <<p[1], p[2]>>
        /\ \A i \in 1 .. (n + 1), j \in 1 .. (m + 1) : <<i, j>> \in D
        /\ \A p \in D, i \in 1 .. (n + 1), j \in 1 .. (m + 1) :
             /\ i > p[1] /\ j >= p[2] => left[<<i, j>>] < left[p]
             /\ i >= p[1] /\ j > p[2] => left[<<i, j>>] < left[p]
    <2> HIDE DEF n, m
    <2> QED
      BY <1>1, WalkPositions
  <1>3. \A p \in D : /\ up[p] = <<p[1] + 1, p[2]>> /\ right[p] = <<p[1], p[2] + 1>>
                     /\ jump_v[p] = <<LowerBound(v, p[1] + 1, y[p[2]]), p[2]>>
                     /\ jump_y[p] = <<p[1], LowerBound(y, p[2] + 1, v[p[1]])>>
    OBVIOUS
  <1> HIDE DEF n, m, D, left, up, right, jump_v, jump_y
  <1>4. ASSUME NEW p \in D, ~(p[1] > n \/ p[2] > m)
        PROVE  /\ v[p[1]] \in CellIds /\ y[p[2]] \in CellIds
               /\ \A q \in {up[p], right[p], jump_v[p], jump_y[p]} : q \in D /\ left[q] < left[p]
    <2>1. PICK i \in 1 .. n, j \in 1 .. m : i = p[1] /\ j = p[2]
      BY <1>1, <1>2, <1>4
    <2>2. i + 1 \in 1 .. (n + 1) /\ j + 1 \in 1 .. (m + 1) /\ i \in 1 .. (n + 1) /\ j \in 1 .. (m + 1)
          /\ i + 1 > i /\ j + 1 > j /\ i >= i /\ j >= j
      BY <1>1
    <2>3. LowerBound(v, i + 1, y[j]) \in (i + 1) .. (n + 1)
      BY <1>1, <2>2, LowerBoundIs DEF n
    <2>4. LowerBound(y, j + 1, v[i]) \in (j + 1) .. (m + 1)
      BY <1>1, <2>2, LowerBoundIs DEF m
    <2>5. PICK a \in 1 .. (n + 1) : a = LowerBound(v, i + 1, y[j]) /\ a > i
      BY <1>1, <2>3
    <2>6. PICK b \in 1 .. (m + 1) : b = LowerBound(y, j + 1, v[i]) /\ b > j
      BY <1>1, <2>4
    <2>7. up[p] \in D /\ left[up[p]] < left[p]
      BY <1>2, <1>3, <2>1, <2>2
    <2>8. right[p] \in D /\ left[right[p]] < left[p]
      BY <1>2, <1>3, <2>1, <2>2
    <2>9. jump_v[p] \in D /\ left[jump_v[p]] < left[p]
      BY <1>2, <1>3, <2>1, <2>2, <2>5
    <2>10. jump_y[p] \in D /\ left[jump_y[p]] < left[p]
      BY <1>2, <1>3, <2>1, <2>2, <2>6
    <2> QED
      BY <1>1, <2>1, <2>7, <2>8, <2>9, <2>10
  <1>5. \A x \in CellIds, w \in S : <<x>> \o w \in S
    BY OrderedFew, Joined DEF Ordered
  <1>6. ASSUME NEW p \in D, NEW F \in [D -> S] PROVE Value(p, F) \in S
    <2>1. CASE p[1] > n \/ p[2] > m
      <3>1. Value(p, F) = <<>> /\ <<>> \in S
        BY <2>1
      <3> HIDE DEF Value
      <3> QED
        BY <3>1
    <2>2. CASE ~(p[1] > n \/ p[2] > m)
      <3>1. /\ F[up[p]] \in S /\ F[right[p]] \in S /\ F[jump_v[p]] \in S /\ F[jump_y[p]] \in S
        BY <1>4, <2>2
      <3>2. <<v[p[1]]>> \o F[up[p]] \in S /\ <<y[p[2]]>> \o F[right[p]] \in S
            /\ <<v[p[1]]>> \o F[up[p]] \in S
        BY <1>4, <1>5, <2>2, <3>1
      <3> HIDE DEF S
      <3> QED
        BY <2>2, <3>1, <3>2, Zenon
    <2> QED
      BY <2>1, <2>2
  <1>7. ASSUME NEW p \in D, NEW F \in [D -> S], NEW G \in [D -> S],
               \A e \in D : left[e] < left[p] => F[e] = G[e]
        PROVE  Value(p, F) = Value(p, G)
    <2>1. CASE p[1] > n \/ p[2] > m
      BY <2>1
    <2>2. CASE ~(p[1] > n \/ p[2] > m)
      <3>1. /\ F[up[p]] = G[up[p]] /\ F[right[p]] = G[right[p]]
            /\ F[jump_v[p]] = G[jump_v[p]] /\ F[jump_y[p]] = G[jump_y[p]]
        BY <1>4, <1>7, <2>2
      <3> QED
        BY <3>1, Zenon
    <2> QED
      BY <2>1, <2>2
  <1> HIDE DEF Value
  <1>8. H \in [D -> [[D -> S] -> S]] /\ \A p \in D, F \in [D -> S] : H[p][F] = Value(p, F)
    <2>1. \A p \in D, F \in [D -> S] : Value(p, F) \in S
      BY <1>6
    <2> HIDE DEF S
    <2> QED
      BY <2>1
  <1>9. S # {}
    <2>1. <<>> \in S
      OBVIOUS
    <2> QED
      BY <2>1
  <1> HIDE DEF H, S
  <1>10. WellRanked(D, S, n + m, left, H)
    <2>1. \A p \in D, F, G \in [D -> S] :
            (\A e \in D : left[e] < left[p] => F[e] = G[e]) => H[p][F] = H[p][G]
      <3> TAKE p \in D, F, G \in [D -> S]
      <3> HAVE \A e \in D : left[e] < left[p] => F[e] = G[e]
      <3>1. Value(p, F) = Value(p, G)
        BY <1>7
      <3>2. H[p][F] = Value(p, F) /\ H[p][G] = Value(p, G)
        BY <1>8
      <3> QED
        BY <3>1, <3>2
    <2> QED
      BY <1>2, <1>8, <1>9, <2>1 DEF WellRanked
  <1>11. PICK F \in [D -> S] : \A p \in D : F[p] = H[p][F]
    BY <1>10, RecursionExists
  <1>12. F = [p \in D |-> Value(p, F)]
    BY <1>8, <1>11
  <1>13. \A p \in D : Value(p, F) = CommonValue(v, y, p[1], p[2], F)
    BY <1>3, Zenon DEF Value, CommonValue, n, m
  <1>14. F = [p \in D |-> CommonValue(v, y, p[1], p[2], F)]
    BY <1>12, <1>13
  <1> QED
    BY <1>14 DEF CommonRuns, D, n, m

\* What the walk makes of the cells from two positions on: cells of either that
\* lie in one of the other, with all leaf cells that both have.
Common(v, y, i, j, w) ==
  /\ Ordered(w)
  /\ \A c \in ToSet(w) : \E k \in i .. Len(v), l \in j .. Len(y) :
       contains(v[k], c) /\ contains(y[l], c) /\ (c = v[k] \/ c = y[l])
  /\ \A k \in i .. Len(v), l \in j .. Len(y) : Leaves(v[k]) \cap Leaves(y[l]) \subseteq LeavesOf(w)

LEMMA CommonSwaps ==
  ASSUME NEW v, NEW y, NEW i, NEW j, NEW w, Common(v, y, i, j, w)
  PROVE  Common(y, v, j, i, w)
  BY DEF Common

LEMMA CommonTake ==
  ASSUME NEW v, NEW y, Ordered(v), Ordered(y), NEW i \in 1 .. Len(v), NEW j \in 1 .. Len(y),
         NEW w, contains(y[j], v[i]), Common(v, y, i + 1, j, w)
  PROVE  Common(v, y, i, j, <<v[i]>> \o w)
  <1> DEFINE n == Len(v)
             m == Len(y)
             u == <<v[i]>> \o w
  <1>1. /\ n \in Nat /\ m \in Nat
        /\ (\A k \in 1 .. n : v[k] \in CellIds) /\ (\A l \in 1 .. m : y[l] \in CellIds)
    BY Members DEF Ordered
  <1>2. PICK x \in CellIds : x = v[i]
    BY <1>1
  <1>3. /\ Ordered(w) /\ w \in Seq(CellIds)
        /\ \A c \in ToSet(w) : \E k \in (i + 1) .. n, l \in j .. m :
             contains(v[k], c) /\ contains(y[l], c) /\ (c = v[k] \/ c = y[l])
        /\ \A k \in (i + 1) .. n, l \in j .. m :
             Leaves(v[k]) \cap Leaves(y[l]) \subseteq LeavesOf(w)
    BY DEF Common, Ordered
  <1>4. <<x>> \in Seq(CellIds) /\ Ordered(<<x>>) /\ ToSet(<<x>>) = {x} /\ LeavesOf(<<x>>) = Leaves(x)
    BY OrderedFew, FewNormalized
  <1>5. \A c \in ToSet(w) : EntirelyPrecedes(x, c)
    <2> TAKE c \in ToSet(w)
    <2>1. PICK k \in (i + 1) .. n : contains(v[k], c)
      BY <1>3
    <2>2. k \in 1 .. n /\ i < k /\ i \in 1 .. n
      BY <1>1
    <2>3. EntirelyPrecedes(v[i], v[k]) /\ v[k] \in CellIds
      BY <1>1, <2>2 DEF Ordered
    <2>4. c \in CellIds
      BY <1>3, Members
    <2> QED
      BY <1>2, <2>1, <2>3, <2>4, CellOrders
  <1>6. PICK t \in Seq(CellIds) : t = <<x>>
    BY <1>4
  <1>7. /\ t \o w \in Seq(CellIds) /\ ToSet(t \o w) = {x} \cup ToSet(w)
        /\ LeavesOf(t \o w) = Leaves(x) \cup LeavesOf(w)
    BY <1>3, <1>4, <1>6, Joined
  <1>8. Ordered(t \o w)
    <2>1. Ordered(t) /\ Ordered(w) /\ \A a \in ToSet(t), c \in ToSet(w) : EntirelyPrecedes(a, c)
      BY <1>3, <1>4, <1>5, <1>6
    <2> QED
      BY <2>1, OrderedJoin
  <1>9. u = t \o w
    BY <1>2, <1>6
  <1> HIDE DEF u
  <1>10. i \in i .. n /\ j \in j .. m /\ (\A k \in (i + 1) .. n : k \in i .. n)
         /\ \A k \in i .. n : k = i \/ k \in (i + 1) .. n
    BY <1>1
  <1>11. ASSUME NEW c \in ToSet(u)
         PROVE  \E k \in i .. n, l \in j .. m :
                  contains(v[k], c) /\ contains(y[l], c) /\ (c = v[k] \/ c = y[l])
    <2>1. CASE c = x
      <3>1. contains(v[i], c) /\ contains(y[j], c) /\ c = v[i]
        BY <1>2, <2>1, CellOrder
      <3> QED
        BY <1>10, <3>1
    <2>2. CASE c \in ToSet(w)
      BY <1>3, <1>10, <2>2
    <2> QED
      BY <1>7, <1>9, <2>1, <2>2
  <1>12. ASSUME NEW k \in i .. n, NEW l \in j .. m
         PROVE  Leaves(v[k]) \cap Leaves(y[l]) \subseteq LeavesOf(u)
    BY <1>2, <1>3, <1>7, <1>9, <1>10
  <1> QED
    BY <1>8, <1>9, <1>11, <1>12 DEF Common, u

LEMMA CommonSkip ==
  ASSUME NEW v, NEW y, Ordered(v), Ordered(y), NEW i \in 1 .. Len(v), NEW j \in 1 .. Len(y),
         NEW w, EntirelyPrecedes(v[i], y[j]), Common(v, y, LowerBound(v, i + 1, y[j]), j, w)
  PROVE  Common(v, y, i, j, w)
  <1> DEFINE n == Len(v)
             m == Len(y)
  <1>1. /\ n \in Nat /\ m \in Nat
        /\ (\A k \in 1 .. n : v[k] \in CellIds) /\ (\A l \in 1 .. m : y[l] \in CellIds)
    BY Members DEF Ordered
  <1>2. PICK at : at = LowerBound(v, i + 1, y[j])
    OBVIOUS
  <1>3. /\ at \in (i + 1) .. (n + 1)
        /\ \A k \in i .. n, l \in j .. m : k < at => EntirelyPrecedes(v[k], y[l])
    BY <1>2, AllPrecede
  <1>4. /\ Ordered(w)
        /\ \A c \in ToSet(w) : \E k \in at .. n, l \in j .. m :
             contains(v[k], c) /\ contains(y[l], c) /\ (c = v[k] \/ c = y[l])
        /\ \A k \in at .. n, l \in j .. m : Leaves(v[k]) \cap Leaves(y[l]) \subseteq LeavesOf(w)
    BY <1>2 DEF Common
  <1>5. (\A k \in at .. n : k \in i .. n) /\ \A k \in i .. n : k < at \/ k \in at .. n
    BY <1>1, <1>3
  <1>6. ASSUME NEW k \in i .. n, NEW l \in j .. m
        PROVE  Leaves(v[k]) \cap Leaves(y[l]) \subseteq LeavesOf(w)
    <2>1. CASE k \in at .. n
      BY <1>4, <2>1
    <2>2. CASE k < at
      <3>1. k \in 1 .. n /\ l \in 1 .. m
        BY <1>1
      <3>2. EntirelyPrecedes(v[k], y[l]) /\ v[k] \in CellIds /\ y[l] \in CellIds
        BY <1>1, <1>3, <2>2, <3>1
      <3> QED
        BY <3>2, LeafLaws
    <2> QED
      BY <1>5, <2>1, <2>2
  <1>7. \A c \in ToSet(w) : \E k \in i .. n, l \in j .. m :
          contains(v[k], c) /\ contains(y[l], c) /\ (c = v[k] \/ c = y[l])
    BY <1>4, <1>5
  <1> QED
    BY <1>4, <1>6, <1>7 DEF Common

LEMMA CommonIs ==
  ASSUME NEW v, NEW y, Ordered(v), Ordered(y), NEW walk, CommonRuns(v, y, walk)
  PROVE  Common(v, y, 1, 1, walk[<<1, 1>>])
  <1> DEFINE n == Len(v)
             m == Len(y)
             D == (1 .. n + 1) \X (1 .. m + 1)
             left == [p \in D |-> n + 1 - p[1] + (m + 1 - p[2])]
             good == { p \in D : Common(v, y, p[1], p[2], walk[p]) }
  <1>1. n \in Nat /\ m \in Nat
    BY DEF Ordered
  <1>2. /\ left \in [D -> 0 .. n + m] /\ n + m \in Nat
        /\ \A p \in D : p[1] \in 1 .. (n + 1) /\ p[2] \in 1 .. (m + 1) /\ p = <<p[1], p[2]>>
        /\ \A i \in 1 .. (n + 1), j \in 1 .. (m + 1) : <<i, j>> \in D
        /\ \A p \in D, i \in 1 .. (n + 1), j \in 1 .. (m + 1) :
             /\ i > p[1] /\ j >= p[2] => left[<<i, j>>] < left[p]
             /\ i >= p[1] /\ j > p[2] => left[<<i, j>>] < left[p]
    <2> HIDE DEF n, m
    <2> QED
      BY <1>1, WalkPositions
  <1>3. \A p \in D : walk[p] = CommonValue(v, y, p[1], p[2], walk)
    BY DEF CommonRuns
  <1> HIDE DEF n, m, D, left
  <1>4. ASSUME NEW p \in D, \A e \in D : left[e] < left[p] => e \in good
        PROVE  Common(v, y, p[1], p[2], walk[p])
    <2>1. PICK i \in 1 .. (n + 1), j \in 1 .. (m + 1) : i = p[1] /\ j = p[2] /\ p = <<i, j>>
      BY <1>2
    <2>2. ASSUME NEW a \in 1 .. (n + 1), NEW b \in 1 .. (m + 1), (a > i /\ b >= j) \/ (a >= i /\ b > j)
          PROVE  Common(v, y, a, b, walk[<<a, b>>])
      <3>1. <<a, b>> \in D /\ left[<<a, b>>] < left[p]
        BY <1>2, <2>1, <2>2
      <3>2. <<a, b>> \in good /\ <<a, b>>[1] = a /\ <<a, b>>[2] = b
        BY <1>4, <3>1
      <3>3. Common(v, y, <<a, b>>[1], <<a, b>>[2], walk[<<a, b>>])
        BY <3>2
      <3> QED
        BY <3>2, <3>3
    <2>3. CASE i > n \/ j > m
      <3>1. walk[p] = <<>>
        <4>1. walk[p] = CommonValue(v, y, i, j, walk)
          BY <1>3, <2>1
        <4> QED
          BY <2>3, <4>1 DEF CommonValue, n, m
      <3>2. i .. n = {} \/ j .. m = {}
        BY <1>1, <2>3
      <3>3. Ordered(<<>>) /\ ToSet(<<>>) = {}
        BY OrderedFew
      <3>4. Common(v, y, i, j, <<>>)
        BY <3>2, <3>3 DEF Common, n, m
      <3> QED
        BY <2>1, <3>1, <3>4
    <2>4. CASE i \in 1 .. n /\ j \in 1 .. m
      <3>1. Turn(v, y, i, j, walk)
        BY <2>4, TurnIs DEF n, m
      <3>2. i + 1 \in 1 .. (n + 1) /\ j + 1 \in 1 .. (m + 1) /\ i + 1 > i /\ j + 1 > j /\ i >= i /\ j >= j
        BY <1>1, <2>4
      <3>3. CASE contains(y[j], v[i]) /\ walk[<<i, j>>] = <<v[i]>> \o walk[<<i + 1, j>>]
        <4>1. PICK w : w = walk[<<i + 1, j>>] /\ Common(v, y, i + 1, j, w)
          BY <2>2, <3>2
        <4>2. Common(v, y, i, j, <<v[i]>> \o w)
          BY <2>4, <3>3, <4>1, CommonTake DEF n, m
        <4> QED
          BY <2>1, <3>3, <4>1, <4>2
      <3>4. CASE contains(v[i], y[j]) /\ walk[<<i, j>>] = <<y[j]>> \o walk[<<i, j + 1>>]
        <4>1. PICK w : w = walk[<<i, j + 1>>] /\ Common(v, y, i, j + 1, w)
          BY <2>2, <3>2
        <4>2. Common(y, v, j + 1, i, w)
          BY <4>1, CommonSwaps
        <4>3. Common(y, v, j, i, <<y[j]>> \o w)
          BY <2>4, <3>4, <4>2, CommonTake DEF n, m
        <4>4. Common(v, y, i, j, <<y[j]>> \o w)
          BY <4>3, CommonSwaps
        <4> QED
          BY <2>1, <3>4, <4>1, <4>4
      <3>5. CASE /\ EntirelyPrecedes(y[j], v[i])
                 /\ walk[<<i, j>>] = walk[<<i, LowerBound(y, j + 1, v[i])>>]
        <4>1. PICK at : at = LowerBound(y, j + 1, v[i])
          OBVIOUS
        <4>2. at \in (j + 1) .. (m + 1)
          BY <2>4, <3>5, <4>1, AllPrecede DEF n, m
        <4>3. at \in 1 .. (m + 1) /\ at > j
          BY <1>1, <4>2
        <4>4. PICK w : w = walk[<<i, at>>] /\ Common(v, y, i, at, w)
          BY <2>2, <3>2, <4>3
        <4>5. Common(y, v, LowerBound(y, j + 1, v[i]), i, w)
          BY <4>1, <4>4, CommonSwaps
        <4>6. Common(y, v, j, i, w)
          BY <2>4, <3>5, <4>5, CommonSkip DEF n, m
        <4>7. Common(v, y, i, j, w)
          BY <4>6, CommonSwaps
        <4> QED
          BY <2>1, <3>5, <4>1, <4>4, <4>7
      <3>6. CASE /\ EntirelyPrecedes(v[i], y[j])
                 /\ walk[<<i, j>>] = walk[<<LowerBound(v, i + 1, y[j]), j>>]
        <4>1. PICK at : at = LowerBound(v, i + 1, y[j])
          OBVIOUS
        <4>2. at \in (i + 1) .. (n + 1)
          BY <2>4, <3>6, <4>1, AllPrecede DEF n, m
        <4>3. at \in 1 .. (n + 1) /\ at > i
          BY <1>1, <4>2
        <4>4. PICK w : w = walk[<<at, j>>] /\ Common(v, y, at, j, w)
          BY <2>2, <3>2, <4>3
        <4>5. Common(v, y, LowerBound(v, i + 1, y[j]), j, w)
          BY <4>1, <4>4
        <4>6. Common(v, y, i, j, w)
          BY <2>4, <3>6, <4>5, CommonSkip DEF n, m
        <4> QED
          BY <2>1, <3>6, <4>1, <4>4, <4>6
      <3> QED
        BY <3>1, <3>3, <3>4, <3>5, <3>6 DEF Turn
    <2>5. (i > n \/ j > m) \/ (i \in 1 .. n /\ j \in 1 .. m)
      BY <1>1
    <2> QED
      BY <2>3, <2>4, <2>5
  <1>5. \A p \in D : (\A e \in D : left[e] < left[p] => e \in good) => p \in good
    BY <1>4
  <1>6. left \in [D -> Nat]
    BY <1>2
  <1> HIDE DEF good
  <1>7. \A p \in D : p \in good
    BY <1>5, <1>6, ByRank
  <1>8. <<1, 1>> \in D /\ <<1, 1>>[1] = 1 /\ <<1, 1>>[2] = 1
    <2>1. 1 \in 1 .. (n + 1) /\ 1 \in 1 .. (m + 1)
      BY <1>1
    <2>2. \A i \in 1 .. (n + 1), j \in 1 .. (m + 1) : <<i, j>> \in D
      BY <1>2
    <2> QED
      BY <2>1, <2>2
  <1>9. Common(v, y, <<1, 1>>[1], <<1, 1>>[2], walk[<<1, 1>>])
    BY <1>7, <1>8 DEF good
  <1> QED
    BY <1>8, <1>9

\* GetIntersection gives the leaf cells that both vectors have, and no family:
\* the parent of one would lie in a cell of each.
LEMMA IntersectionIs ==
  ASSUME NEW v \in Seq(CellIds), IsNormalized(v), NEW y \in Seq(CellIds), IsNormalized(y)
  PROVE  /\ GetIntersection(v, y) \in Seq(CellIds) /\ IsNormalized(GetIntersection(v, y))
         /\ LeavesOf(GetIntersection(v, y)) = LeavesOf(v) \cap LeavesOf(y)
  <1> DEFINE n == Len(v)
             m == Len(y)
             walk == CHOOSE walk : CommonRuns(v, y, walk)
             w == GetIntersection(v, y)
  <1>1. /\ Ordered(v) /\ Ordered(y)
        /\ \A k \in 1 .. n : v[k] \in CellIds /\ v[k] \in ToSet(v)
        /\ \A l \in 1 .. m : y[l] \in CellIds /\ y[l] \in ToSet(y)
        /\ (\A x \in ToSet(v) : x \in CellIds /\ \E k \in 1 .. n : v[k] = x)
        /\ (\A x \in ToSet(y) : x \in CellIds /\ \E l \in 1 .. m : y[l] = x)
        /\ LeavesOf(v) = UNION { Leaves(x) : x \in ToSet(v) }
        /\ LeavesOf(y) = UNION { Leaves(x) : x \in ToSet(y) }
    BY Members, NormalizedIs
  <1>2. w = walk[<<1, 1>>]
    BY DEF GetIntersection, CommonRuns, CommonValue
  <1>3. CommonRuns(v, y, walk)
    BY <1>1, CommonExists
  <1> HIDE DEF walk
  <1>4. Common(v, y, 1, 1, w)
    BY <1>1, <1>2, <1>3, CommonIs
  <1> HIDE DEF w
  <1>5. /\ Ordered(w) /\ w \in Seq(CellIds)
        /\ \A c \in ToSet(w) : \E k \in 1 .. n, l \in 1 .. m :
             contains(v[k], c) /\ contains(y[l], c) /\ (c = v[k] \/ c = y[l])
        /\ \A k \in 1 .. n, l \in 1 .. m : Leaves(v[k]) \cap Leaves(y[l]) \subseteq LeavesOf(w)
    BY <1>4 DEF Common, Ordered
  <1>6. LeavesOf(w) = UNION { Leaves(x) : x \in ToSet(w) } /\ \A c \in ToSet(w) : c \in CellIds
    BY <1>5, Members
  <1> HIDE DEF n, m
  <1>7. LeavesOf(w) \subseteq LeavesOf(v) \cap LeavesOf(y)
    <2> SUFFICES ASSUME NEW c \in ToSet(w)
                 PROVE  Leaves(c) \subseteq LeavesOf(v) \cap LeavesOf(y)
      BY <1>6
    <2>1. PICK k \in 1 .. n, l \in 1 .. m : contains(v[k], c) /\ contains(y[l], c)
      BY <1>5
    <2>2. Leaves(c) \subseteq Leaves(v[k]) /\ Leaves(c) \subseteq Leaves(y[l])
      BY <1>1, <1>6, <2>1, LeafLaws
    <2> QED
      BY <1>1, <2>2
  <1>8. ASSUME NEW leaf \in LeavesOf(v), leaf \in LeavesOf(y) PROVE leaf \in LeavesOf(w)
    <2>1. PICK k \in 1 .. n : leaf \in Leaves(v[k])
      BY <1>1
    <2>2. PICK l \in 1 .. m : leaf \in Leaves(y[l])
      BY <1>1, <1>8
    <2> QED
      BY <1>5, <2>1, <2>2
  <1>9. NoFamily(ToSet(w))
    <2> SUFFICES ASSUME NEW p \in CellIds, lsb(p) # 1, \A b \in 0 .. 3 : child(p, b) \in ToSet(w)
                 PROVE  FALSE
      BY DEF NoFamily
    <2>1. Leaves(p) \subseteq LeavesOf(v) /\ Leaves(p) \subseteq LeavesOf(y)
      <3>1. Leaves(p) = UNION { Leaves(child(p, b)) : b \in 0 .. 3 }
        BY ChildrenTile
      <3>2. Leaves(p) \subseteq LeavesOf(w)
        BY <1>6, <3>1
      <3> QED
        BY <1>7, <3>2
    <2>2. PICK x \in ToSet(v) : contains(x, p)
      BY <2>1, QueriesAnswer
    <2>3. PICK z \in ToSet(y) : contains(z, p)
      BY <2>1, QueriesAnswer
    <2>4. PICK c \in CellIds : c = child(p, 0) /\ contains(p, c) /\ c # p /\ c \in ToSet(w)
      <3>1. 0 \in 0 .. 3
        OBVIOUS
      <3> QED
        BY <3>1, ChildrenTile
    <2>5. contains(x, c) /\ contains(z, c) /\ c # x /\ c # z
      BY <1>1, <2>2, <2>3, <2>4, CellOrder, CellOrders
    <2>6. \A a, b \in ToSet(v) : contains(a, b) => a = b
      <3> TAKE a \in ToSet(v), b \in ToSet(v)
      <3> HAVE contains(a, b)
      <3>1. PICK k \in 1 .. n, l \in 1 .. n : v[k] = a /\ v[l] = b
        BY <1>1
      <3>2. k = l \/ EntirelyPrecedes(v[k], v[l]) \/ EntirelyPrecedes(v[l], v[k])
        BY <1>1 DEF Ordered, n
      <3> QED
        BY <1>1, <3>1, <3>2, CellOrder
    <2>7. \A a, b \in ToSet(y) : contains(a, b) => a = b
      <3> TAKE a \in ToSet(y), b \in ToSet(y)
      <3> HAVE contains(a, b)
      <3>1. PICK k \in 1 .. m, l \in 1 .. m : y[k] = a /\ y[l] = b
        BY <1>1
      <3>2. k = l \/ EntirelyPrecedes(y[k], y[l]) \/ EntirelyPrecedes(y[l], y[k])
        BY <1>1 DEF Ordered, m
      <3> QED
        BY <1>1, <3>1, <3>2, CellOrder
    <2>8. c \in ToSet(v) \/ c \in ToSet(y)
      <3>1. PICK k \in 1 .. n, l \in 1 .. m : c = v[k] \/ c = y[l]
        BY <1>5, <2>4
      <3>2. v[k] \in ToSet(v) /\ y[l] \in ToSet(y)
        BY <1>1
      <3> QED
        BY <3>1, <3>2
    <2> QED
      BY <2>2, <2>3, <2>5, <2>6, <2>7, <2>8
  <1> QED
    BY <1>5, <1>7, <1>8, <1>9, NormalizedIs DEF w

-----------------------------------------------------------------------------
(* FromBeginEnd.                                                           *)

\* The end of all leaf cells is odd, and begins at itself.
LEMMA EndIs ==
  /\ LeafEnd \in Nat /\ lsb(LeafEnd) = 1 /\ range_min(LeafEnd) = LeafEnd
  /\ \E i \in Nat : LeafEnd = 2 * i + 1
  /\ \A leaf \in LeafIds : leaf < LeafEnd
  /\ \A x \in CellIds : range_max(x) < LeafEnd
  /\ LeafEnd \notin CellIds
  <1> DEFINE c == 4 ^ MaxLevel
             P == NumFaces * c
  <1>1. c \in Nat \ {0} /\ FaceSize = 2 * c /\ NumFaces \in Nat \ {0} /\ MaxLevel \in 0 .. MaxLevel
    BY LevelAssumption, PowersOfFour, FacesAssumption DEF FaceSize
  <1>2. P \in Nat /\ LeafEnd = 2 * P + 1
    <2> HIDE DEF c
    <2>1. NumFaces * c \in Nat
      BY <1>1
    <2>2. \A g, d \in Nat : g * (2 * d) = 2 * (g * d)
      BY SMT
    <2>3. NumFaces * (2 * c) = 2 * (NumFaces * c)
      BY <1>1, <2>2
    <2> QED
      BY <1>1, <2>1, <2>3 DEF LeafEnd
  <1> HIDE DEF P, c
  <1>3. level(LeafEnd) = MaxLevel
    <2>1. LeafEnd = (2 * P + 1) * lsb_for_level(MaxLevel)
      BY <1>2, LeastBit
    <2> QED
      BY <1>1, <1>2, <2>1, LevelIs
  <1>4. lsb(LeafEnd) = 1
    BY <1>3, LeastBit DEF lsb
  <1>5. range_min(LeafEnd) = LeafEnd
    BY <1>2, <1>4 DEF range_min
  <1>6. ASSUME NEW x \in CellIds PROVE range_max(x) < LeafEnd
    <2>1. PICK f \in 0 .. (NumFaces - 1), k \in 0 .. (4 ^ level(x) - 1) :
            x = f * FaceSize + (2 * k + 1) * lsb(x)
      BY FaceOfCell
    <2> DEFINE B == lsb(x)
               e == 4 ^ level(x)
    <2>2. B \in Nat \ {0} /\ e \in Nat \ {0} /\ FaceSize = 2 * (e * B) /\ k \in 0 .. (e - 1)
      <3>1. level(x) \in 0 .. MaxLevel
        BY CellForm
      <3> QED
        BY <3>1, LsbRatio DEF lsb
    <2> HIDE DEF B, e
    <2>3. (2 * k + 1) * B \in Nat /\ (2 * k + 1) * B + B <= FaceSize
      <3>1. (k + 1) * B <= e * B
        BY <2>2, SMT
      <3>2. (2 * k + 1) * B + B = 2 * ((k + 1) * B)
        BY <2>2, SMT
      <3> QED
        BY <2>2, <3>1, <3>2
    <2>4. f * FaceSize + FaceSize <= NumFaces * FaceSize /\ f * FaceSize \in Nat
          /\ NumFaces * FaceSize \in Nat
      <3>1. FaceSize \in Nat /\ f \in Nat /\ f + 1 <= NumFaces
        BY <1>1, <2>2
      <3>2. \A F \in Nat : (f + 1) * F <= NumFaces * F /\ (f + 1) * F = f * F + F
                           /\ f * F \in Nat /\ NumFaces * F \in Nat
        BY <1>1, <3>1, SMT
      <3> QED
        BY <3>1, <3>2
    <2>5. PICK K \in Nat, F \in Nat, N \in Nat :
            K = (2 * k + 1) * B /\ F = f * FaceSize /\ N = NumFaces * FaceSize
      BY <2>3, <2>4
    <2>6. x = F + K /\ range_max(x) = x + (B - 1)
      BY <2>1, <2>5 DEF range_max, B
    <2>7. FaceSize \in Nat /\ LeafEnd = N + 1
      BY <2>2, <2>5 DEF LeafEnd
    <2> QED
      BY <2>2, <2>3, <2>4, <2>5, <2>6, <2>7
  <1>7. \A leaf \in LeafIds : leaf < LeafEnd
    <2> TAKE leaf \in LeafIds
    <2>1. leaf \in CellIds
      BY LeavesAreCells
    <2> QED
      BY <1>2, <1>6, <2>1, CellFacts
  <1>8. LeafEnd \notin CellIds
    BY <1>2, <1>6, CellFacts
  <1> QED
    BY <1>2, <1>4, <1>5, <1>6, <1>7, <1>8

\* What follows a cell: a cell of its size that begins where it ends, or
\* nothing.
LEMMA NextIs ==
  ASSUME NEW id \in CellIds
  PROVE  /\ next(id) \in Nat /\ range_min(next(id)) = range_max(id) + 2
         /\ next(id) \in CellIds \/ range_min(next(id)) = LeafEnd
  <1>1. PICK f \in 0 .. (NumFaces - 1), k \in 0 .. (4 ^ level(id) - 1) :
          id = f * FaceSize + (2 * k + 1) * lsb(id)
    BY FaceOfCell
  <1> DEFINE B == lsb(id)
             e == 4 ^ level(id)
             l == level(id)
  <1>2. B \in Nat \ {0} /\ e \in Nat \ {0} /\ FaceSize = 2 * (e * B) /\ k \in 0 .. (e - 1)
        /\ l \in 0 .. MaxLevel /\ B = lsb_for_level(l) /\ e * B \in Nat
    <2>1. level(id) \in 0 .. MaxLevel
      BY CellForm
    <2>2. B \in Nat \ {0} /\ e \in Nat \ {0} /\ FaceSize = 2 * (e * B)
      BY <2>1, LsbRatio DEF lsb
    <2> QED
      BY <2>1, <2>2 DEF lsb
  <1>3. id \in Nat /\ next(id) = id + 2 * B /\ range_max(id) = id + (B - 1) /\ id >= B
    <2>1. id >= B
      <3>1. range_min(id) = id - (B - 1) /\ range_min(id) \in Nat /\ id \in Nat /\ range_min(id) >= 1
        BY CellFacts, RangeForm DEF range_min
      <3> HIDE DEF B
      <3> QED
        BY <1>2, <3>1
    <2> QED
      BY <2>1, CellFacts DEF next, range_max
  <1>4. lsb(next(id)) = B
    <2>1. PICK j \in Nat : id = (2 * j + 1) * B
      BY CellForm
    <2>2. next(id) = (2 * (j + 1) + 1) * B /\ j + 1 \in Nat
      <3> HIDE DEF B
      <3>1. (2 * j + 1) * B + 2 * B = (2 * (j + 1) + 1) * B
        BY <1>2, SMT
      <3> QED
        BY <1>3, <2>1, <3>1
    <2>3. level(next(id)) = l
      BY <1>2, <2>2, LevelIs
    <2> QED
      BY <1>2, <2>3 DEF lsb
  <1>5. next(id) \in Nat /\ range_min(next(id)) = range_max(id) + 2
    <2>1. range_min(next(id)) = next(id) - (B - 1)
      BY <1>4 DEF range_min
    <2> HIDE DEF B
    <2> QED
      BY <1>2, <1>3, <2>1
  <1>8. ASSUME NEW g \in 0 .. (NumFaces - 1), NEW i \in 0 .. (e - 1),
               next(id) = g * FaceSize + (2 * i + 1) * B
        PROVE  next(id) \in CellIds
    <2>1. PICK L \in 0 .. MaxLevel : L = l
      BY <1>2
    <2>2. PICK j \in 0 .. (4 ^ L - 1) : j = i
      BY <2>1
    <2>3. PICK n : n = next(id)
      OBVIOUS
    <2>4. n = g * FaceSize + (2 * j + 1) * lsb_for_level(L)
      BY <1>2, <1>8, <2>1, <2>2, <2>3
    <2>5. n \in CellIds
      BY <2>4, CellOnFace
    <2> QED
      BY <2>3, <2>5
  <1>6. CASE k + 1 \in 0 .. (e - 1)
    <2>1. next(id) = f * FaceSize + (2 * (k + 1) + 1) * B
      <3> HIDE DEF B, e
      <3>1. f * FaceSize \in Nat
        BY <1>2, FacesAssumption
      <3>2. (2 * k + 1) * B + 2 * B = (2 * (k + 1) + 1) * B /\ (2 * k + 1) * B \in Nat
        BY <1>2, SMT
      <3> QED
        BY <1>1, <1>2, <1>3, <3>1, <3>2 DEF B
    <2>2. next(id) \in CellIds
      BY <1>6, <1>8, <2>1
    <2> QED
      BY <1>5, <2>2
  <1>7. CASE k + 1 \notin 0 .. (e - 1)
    <2>1. next(id) = (f + 1) * FaceSize + B /\ f \in Nat /\ (f + 1) * FaceSize \in Nat
      <3> HIDE DEF B, e
      <3>1. k + 1 = e /\ f \in Nat /\ FaceSize \in Nat
        BY <1>2, <1>7, FacesAssumption
      <3>2. (2 * k + 1) * B + 2 * B = 2 * (e * B) + B /\ (2 * k + 1) * B \in Nat
        BY <1>2, <3>1, SMT
      <3>3. f * FaceSize + FaceSize = (f + 1) * FaceSize /\ f * FaceSize \in Nat
        BY <3>1, SMT
      <3>4. id = f * FaceSize + (2 * k + 1) * B
        BY <1>1 DEF B
      <3>5. PICK F \in Nat, K \in Nat, E \in Nat : F = f * FaceSize /\ K = (2 * k + 1) * B /\ E = e * B
        BY <1>2, <3>2, <3>3
      <3> QED
        BY <1>2, <1>3, <3>1, <3>2, <3>3, <3>4, <3>5
    <2>2. CASE f + 1 \in 0 .. (NumFaces - 1)
      <3>1. next(id) = (f + 1) * FaceSize + (2 * 0 + 1) * B
        <4> HIDE DEF B
        <4> QED
          BY <1>2, <2>1
      <3>2. 0 \in 0 .. (e - 1)
        BY <1>2
      <3>4. next(id) \in CellIds
        BY <1>8, <2>2, <3>1, <3>2
      <3> QED
        BY <1>5, <3>4
    <2>3. CASE f + 1 \notin 0 .. (NumFaces - 1)
      <3>1. f + 1 = NumFaces
        BY <2>1, <2>3, FacesAssumption
      <3>2. range_min(next(id)) = next(id) - (B - 1)
        BY <1>4 DEF range_min
      <3> HIDE DEF B
      <3>3. range_min(next(id)) = NumFaces * FaceSize + 1
        BY <1>2, <2>1, <3>1, <3>2
      <3> QED
        BY <1>5, <3>3 DEF LeafEnd
    <2> QED
      BY <2>2, <2>3
  <1> QED
    BY <1>6, <1>7

\* Where a range of leaf cells may end.
Limits == LeafIds \cup {LeafEnd}

LEMMA LimitIs ==
  \A limit \in Limits : /\ limit \in Nat /\ range_min(limit) = limit /\ limit <= LeafEnd
                        /\ \E i \in Nat : limit = 2 * i + 1
  <1> TAKE limit \in Limits
  <1>1. CASE limit \in LeafIds
    <2>1. limit \in CellIds /\ limit \in Nat /\ range_min(limit) = limit
      BY <1>1, LeafForm, LeavesAreCells
    <2>2. \E i \in Nat : limit = 2 * i + 1
      BY <2>1, OddBounds
    <2>3. limit < LeafEnd /\ LeafEnd \in Nat
      BY <1>1, EndIs
    <2> QED
      BY <2>1, <2>2, <2>3
  <1>2. CASE limit = LeafEnd
    BY <1>2, EndIs
  <1> QED
    BY <1>1, <1>2 DEF Limits

\* The two steps of maximum_tile, and the cells it can pass through.
TileShrink(t, limit) == IF range_max(t) >= limit THEN child(t, 0) ELSE t

Maximal(t, first, limit) ==
  is_face(t) \/ range_min(parent(t)) # first \/ range_max(parent(t)) >= limit

TileGrow(t, first, limit) == IF Maximal(t, first, limit) THEN t ELSE parent(t)

Starts(first) == { t \in CellIds : range_min(t) = first }

LEMMA TileShrinkIs ==
  ASSUME NEW limit \in Limits, NEW first, first < limit, NEW t \in Starts(first)
  PROVE  /\ TileShrink(t, limit) \in Starts(first)
         /\ range_max(t) < limit => TileShrink(t, limit) = t
         /\ range_max(t) >= limit => /\ level(TileShrink(t, limit)) = level(t) + 1
                                     /\ Maximal(TileShrink(t, limit), first, limit)
  <1>1. t \in CellIds /\ range_min(t) = first /\ range_max(t) \in Nat /\ limit \in Nat /\ first \in Nat
    BY CellFacts, LimitIs DEF Starts
  <1>2. CASE range_max(t) < limit
    <2>1. TileShrink(t, limit) = t
      BY <1>1, <1>2 DEF TileShrink
    <2> QED
      BY <1>1, <1>2, <2>1
  <1>3. CASE range_max(t) >= limit
    <2>1. lsb(t) # 1
      <3> SUFFICES ASSUME lsb(t) = 1 PROVE FALSE
        OBVIOUS
      <3>1. t \in Nat
        BY <1>1, CellFacts
      <3>2. range_min(t) = t /\ range_max(t) = t
        BY <3>1 DEF range_min, range_max
      <3> QED
        BY <1>1, <1>3, <3>2
    <2>2. TileShrink(t, limit) = child(t, 0) /\ 0 \in 0 .. 3
      BY <1>3 DEF TileShrink
    <2>3. child(t, 0) \in CellIds /\ level(child(t, 0)) = level(t) + 1
      BY <1>1, <2>1, <2>2, ChildForm
    <2>4. range_min(child(t, 0)) = first
      BY <1>1, <2>1, ChildrenTile
    <2>5. parent(child(t, 0)) = t
      BY <1>1, <2>1, <2>2, ChildParent
    <2>6. ~(range_max(t) < limit)
      BY <1>1, <1>3
    <2> QED
      BY <1>3, <2>2, <2>3, <2>4, <2>5, <2>6 DEF Starts, Maximal
  <1> QED
    BY <1>1, <1>2, <1>3

LEMMA TileGrowIs ==
  ASSUME NEW limit \in Limits, NEW first, NEW t \in Starts(first)
  PROVE  /\ TileGrow(t, first, limit) \in Starts(first)
         /\ range_max(t) < limit => range_max(TileGrow(t, first, limit)) < limit
         /\ Maximal(t, first, limit) => TileGrow(t, first, limit) = t
         /\ ~Maximal(t, first, limit) => /\ level(TileGrow(t, first, limit)) = level(t) - 1
                                         /\ level(t) # 0
  <1>1. CASE Maximal(t, first, limit)
    BY <1>1 DEF TileGrow
  <1>2. CASE ~Maximal(t, first, limit)
    <2>1. t \in CellIds /\ ~is_face(t) /\ range_min(parent(t)) = first /\ ~(range_max(parent(t)) >= limit)
      BY <1>2 DEF Starts, Maximal
    <2>2. parent(t) \in CellIds /\ level(parent(t)) = level(t) - 1
      BY <2>1, ParentForm
    <2>3. range_max(parent(t)) < limit
      <3>1. range_max(parent(t)) \in Nat /\ limit \in Nat
        BY <2>2, CellFacts, LimitIs
      <3> QED
        BY <2>1, <3>1
    <2>4. level(t) # 0
      BY <2>1, FaceIs
    <2>5. TileGrow(t, first, limit) = parent(t)
      BY <1>2 DEF TileGrow
    <2> QED
      BY <1>2, <2>1, <2>2, <2>3, <2>4, <2>5 DEF Starts
  <1> QED
    BY <1>1, <1>2

\* A step repeated N times is the recursion that maximum_tile writes.
Repeated(N, base, step, F) ==
  /\ F[0] = base /\ (\A n \in 1 .. N : F[n] = step[F[n - 1]])
  /\ F = [n \in 0 .. N |-> IF n = 0 THEN base ELSE step[F[n - 1]]]

LEMMA Repeats ==
  ASSUME NEW S, NEW N \in Nat, NEW base \in S, NEW step \in [S -> S]
  PROVE  \E F \in [0 .. N -> S] : Repeated(N, base, step, F)
  <1> DEFINE f == [n \in 1 .. N |-> step]
  <1>1. f \in [1 .. N -> [S -> S]] /\ \A n \in 1 .. N : f[n] = step
    OBVIOUS
  <1> HIDE DEF f
  <1>2. PICK F \in [0 .. N -> S] : Iterates(F, N, base, f)
    <2>1. IsStep(N, S, base, f)
      BY <1>1 DEF IsStep
    <2> QED
      BY <2>1, IterationExists
  <1>3. \A n \in 0 .. N : n # 0 => n \in 1 .. N
    OBVIOUS
  <1>4. F = [n \in 0 .. N |-> IF n = 0 THEN base ELSE step[F[n - 1]]]
    BY <1>1, <1>2, <1>3 DEF Iterates
  <1>5. 0 \in 0 .. N /\ \A n \in 1 .. N : n \in 0 .. N /\ n # 0
    OBVIOUS
  <1>6. F[0] = base /\ \A n \in 1 .. N : F[n] = step[F[n - 1]]
    BY <1>4, <1>5
  <1> QED
    BY <1>4, <1>6 DEF Repeated

\* The two recursions of maximum_tile.
ShrinkRuns(id, limit, g) ==
  g = [n \in 0 .. MaxLevel |-> IF n = 0 THEN id ELSE TileShrink(g[n - 1], limit)]

GrowRuns(id, limit, g) ==
  g = [n \in 0 .. MaxLevel |-> IF n = 0 THEN id ELSE TileGrow(g[n - 1], range_min(id), limit)]

\* A cell that starts at first, ends before limit, and is the largest such.
TileOf(t, first, limit) ==
  t \in Starts(first) /\ range_max(t) < limit /\ Maximal(t, first, limit)

LEMMA ShrunkIs ==
  ASSUME NEW limit \in Limits, NEW id \in CellIds, range_min(id) < limit, range_max(id) >= limit,
         NEW g, g = CHOOSE h : ShrinkRuns(id, limit, h)
  PROVE  TileOf(g[MaxLevel], range_min(id), limit)
  <1> DEFINE N == MaxLevel
             first == range_min(id)
             S == Starts(first)
             step == [t \in S |-> TileShrink(t, limit)]
             Fine(n) == /\ g[n] \in S
                        /\ range_max(g[n]) < limit => Maximal(g[n], first, limit)
                        /\ range_max(g[n]) < limit \/ level(g[n]) >= n
             good == { n \in 0 .. N : Fine(n) }
  <1>1. N \in Nat /\ id \in S /\ first \in Nat /\ limit \in Nat /\ first < limit
    BY LevelAssumption, CellFacts, LimitIs DEF Starts
  <1>2. step \in [S -> S] /\ \A t \in S : step[t] = TileShrink(t, limit)
    <2> HIDE DEF first
    <2>1. \A t \in S : TileShrink(t, limit) \in S
      BY <1>1, TileShrinkIs
    <2> QED
      BY <2>1
  <1> HIDE DEF S, step, first
  <1>3. PICK F \in [0 .. N -> S] : Repeated(N, id, step, F)
    BY <1>1, <1>2, Repeats
  <1>4. ShrinkRuns(id, limit, F)
    <2>1. \A n \in 0 .. N : n # 0 => n - 1 \in 0 .. N
      BY <1>1
    <2>2. \A n \in 0 .. N : n # 0 => step[F[n - 1]] = TileShrink(F[n - 1], limit)
      BY <1>2, <1>3, <2>1
    <2> QED
      BY <1>3, <2>2 DEF ShrinkRuns, Repeated
  <1>5. ShrinkRuns(id, limit, g)
    BY <1>4
  <1>6. g[0] = id /\ \A n \in 1 .. N : g[n] = TileShrink(g[n - 1], limit)
    <2>1. 0 \in 0 .. N /\ \A n \in 1 .. N : n \in 0 .. N /\ n # 0
      BY <1>1
    <2> QED
      BY <1>5, <2>1 DEF ShrinkRuns
  <1>7. Fine(0)
    <2>1. level(id) \in 0 .. N
      BY CellForm
    <2>2. ~(range_max(id) < limit)
      BY <1>1, CellFacts
    <2> QED
      BY <1>1, <1>6, <2>1, <2>2
  <1>8. ASSUME NEW n \in 1 .. N, Fine(n - 1) PROVE Fine(n)
    <2>1. PICK t \in S : t = g[n - 1] /\ g[n] = TileShrink(t, limit)
      BY <1>6, <1>8
    <2>2. t \in Starts(first) /\ t \in CellIds /\ range_max(t) \in Nat /\ level(t) \in Nat
      <3>1. t \in CellIds
        BY DEF S, Starts
      <3>2. level(t) \in 0 .. MaxLevel
        BY <3>1, CellForm
      <3> QED
        BY <3>1, <3>2, CellFacts DEF S
    <2>3. CASE range_max(t) < limit
      <3>1. g[n] = t
        BY <1>1, <2>1, <2>2, <2>3, TileShrinkIs
      <3> QED
        BY <1>8, <2>1, <2>3, <3>1
    <2>4. CASE range_max(t) >= limit
      <3>1. /\ g[n] \in Starts(first) /\ level(g[n]) = level(t) + 1
            /\ Maximal(g[n], first, limit)
        BY <1>1, <2>1, <2>2, <2>4, TileShrinkIs
      <3>2. level(t) >= n - 1
        <4>1. ~(range_max(t) < limit)
          BY <1>1, <2>2, <2>4
        <4> QED
          BY <1>8, <2>1, <4>1
      <3>3. level(g[n]) >= n
        BY <2>2, <3>1, <3>2
      <3> QED
        BY <3>1, <3>3 DEF S
    <2> QED
      BY <1>1, <2>2, <2>3, <2>4
  <1> HIDE DEF Fine
  <1>9. Climbs(N, good)
    <2>1. 0 \in good
      BY <1>1, <1>7
    <2>2. \A n \in 1 .. N : n - 1 \in good => n \in good
      BY <1>8
    <2> QED
      BY <2>1, <2>2 DEF Climbs
  <1>10. Fine(N)
    <2> HIDE DEF good
    <2>1. N \in 0 .. N /\ \A n \in 0 .. N : n \in good
      BY <1>1, <1>9, Climb
    <2> QED
      BY <2>1 DEF good
  <1>11. PICK t \in S : t = g[N]
    BY <1>10 DEF Fine
  <1>12. t \in CellIds /\ range_min(t) = first
    BY DEF S, Starts
  <1>13. range_max(t) < limit
    <2> SUFFICES ASSUME level(t) >= N PROVE range_max(t) < limit
      BY <1>10, <1>11 DEF Fine
    <2>1. level(t) = MaxLevel
      <3>1. level(t) \in 0 .. MaxLevel
        BY <1>12, CellForm
      <3> QED
        BY <1>1, <3>1
    <2>2. lsb(t) = 1
      BY <2>1, LeastBit DEF lsb
    <2>3. t \in Nat
      BY <1>12, CellFacts
    <2>4. range_min(t) = t /\ range_max(t) = t
      BY <2>2, <2>3 DEF range_min, range_max
    <2> QED
      BY <1>1, <1>12, <2>4
  <1>14. t \in Starts(first) /\ range_max(t) < limit /\ Maximal(t, first, limit)
    BY <1>10, <1>11, <1>13 DEF Fine, S
  <1> QED
    BY <1>11, <1>14 DEF TileOf, first

LEMMA GrownIs ==
  ASSUME NEW limit \in Limits, NEW id \in CellIds, range_max(id) < limit,
         NEW g, g = CHOOSE h : GrowRuns(id, limit, h)
  PROVE  TileOf(g[MaxLevel], range_min(id), limit)
  <1> DEFINE N == MaxLevel
             first == range_min(id)
             S == Starts(first)
             step == [t \in S |-> TileGrow(t, first, limit)]
             Fine(n) == /\ g[n] \in S /\ range_max(g[n]) < limit
                        /\ Maximal(g[n], first, limit) \/ level(g[n]) <= N - n
             good == { n \in 0 .. N : Fine(n) }
  <1>1. N \in Nat /\ id \in S
    BY LevelAssumption DEF Starts
  <1>2. step \in [S -> S] /\ \A t \in S : step[t] = TileGrow(t, first, limit)
    <2> HIDE DEF first
    <2>1. \A t \in S : TileGrow(t, first, limit) \in S
      BY TileGrowIs
    <2> QED
      BY <2>1
  <1> HIDE DEF S, step, first
  <1>3. PICK F \in [0 .. N -> S] : Repeated(N, id, step, F)
    BY <1>1, <1>2, Repeats
  <1>4. GrowRuns(id, limit, F)
    <2>1. \A n \in 0 .. N : n # 0 => n - 1 \in 0 .. N
      BY <1>1
    <2>2. \A n \in 0 .. N : n # 0 => step[F[n - 1]] = TileGrow(F[n - 1], first, limit)
      BY <1>2, <1>3, <2>1
    <2> QED
      BY <1>3, <2>2 DEF GrowRuns, Repeated, first
  <1>5. GrowRuns(id, limit, g)
    BY <1>4
  <1>6. g[0] = id /\ \A n \in 1 .. N : g[n] = TileGrow(g[n - 1], first, limit)
    <2>1. 0 \in 0 .. N /\ \A n \in 1 .. N : n \in 0 .. N /\ n # 0
      BY <1>1
    <2> QED
      BY <1>5, <2>1 DEF GrowRuns, first
  <1>7. Fine(0)
    <2>1. level(id) \in 0 .. N
      BY CellForm
    <2> QED
      BY <1>1, <1>6, <2>1
  <1>8. ASSUME NEW n \in 1 .. N, Fine(n - 1) PROVE Fine(n)
    <2>1. PICK t \in S : t = g[n - 1] /\ g[n] = TileGrow(t, first, limit)
      BY <1>6, <1>8
    <2>2. t \in Starts(first) /\ range_max(t) < limit
      BY <1>8, <2>1 DEF S
    <2>3. g[n] \in S /\ range_max(g[n]) < limit
      BY <2>1, <2>2, TileGrowIs DEF S
    <2>4. CASE Maximal(t, first, limit)
      <3>1. g[n] = t
        BY <2>1, <2>2, <2>4, TileGrowIs
      <3> QED
        BY <2>3, <2>4, <3>1
    <2>5. CASE ~Maximal(t, first, limit)
      <3>1. level(g[n]) = level(t) - 1
        BY <2>1, <2>2, <2>5, TileGrowIs
      <3>2. level(t) <= N - (n - 1)
        BY <1>8, <2>1, <2>5
      <3>3. level(t) \in 0 .. N
        BY CellForm DEF S, Starts
      <3>4. level(g[n]) <= N - n
        BY <1>1, <3>1, <3>2, <3>3
      <3> QED
        BY <2>3, <3>4
    <2> QED
      BY <2>4, <2>5
  <1> HIDE DEF Fine
  <1>9. Climbs(N, good)
    <2>1. 0 \in good
      BY <1>1, <1>7
    <2>2. \A n \in 1 .. N : n - 1 \in good => n \in good
      BY <1>8
    <2> QED
      BY <2>1, <2>2 DEF Climbs
  <1>10. Fine(N)
    <2> HIDE DEF good
    <2>1. N \in 0 .. N /\ \A n \in 0 .. N : n \in good
      BY <1>1, <1>9, Climb
    <2> QED
      BY <2>1 DEF good
  <1>11. PICK t \in S : t = g[N]
    BY <1>10 DEF Fine
  <1>12. t \in Starts(first) /\ range_max(t) < limit
    BY <1>10, <1>11 DEF Fine, S
  <1>13. Maximal(t, first, limit)
    <2> SUFFICES ASSUME ~Maximal(t, first, limit) PROVE FALSE
      OBVIOUS
    <2>1. level(t) <= N - N
      BY <1>10, <1>11 DEF Fine
    <2>2. level(t) \in 0 .. MaxLevel
      BY <1>12, CellForm DEF Starts
    <2>3. level(t) = 0
      BY <1>1, <2>1, <2>2
    <2> QED
      BY <1>12, <2>3, TileGrowIs
  <1> QED
    BY <1>11, <1>12, <1>13 DEF TileOf, first

LEMMA MaxTileIs ==
  ASSUME NEW limit \in Limits, NEW id
  PROVE  /\ range_min(id) >= limit => maximum_tile(id, limit) = limit
         /\ id \in CellIds /\ range_min(id) < limit =>
              TileOf(maximum_tile(id, limit), range_min(id), limit)
  <1>1. maximum_tile(id, limit) =
          IF range_min(id) >= range_min(limit) THEN limit
          ELSE IF range_max(id) >= limit THEN (CHOOSE g : ShrinkRuns(id, limit, g))[MaxLevel]
          ELSE (CHOOSE g : GrowRuns(id, limit, g))[MaxLevel]
    BY DEF maximum_tile, ShrinkRuns, GrowRuns, TileShrink, TileGrow, Maximal
  <1>2. range_min(limit) = limit /\ limit \in Nat
    BY LimitIs
  <1>3. range_min(id) >= limit => maximum_tile(id, limit) = limit
    BY <1>1, <1>2
  <1>4. ASSUME id \in CellIds, range_min(id) < limit
        PROVE  TileOf(maximum_tile(id, limit), range_min(id), limit)
    <2>1. range_min(id) \in Nat /\ range_max(id) \in Nat /\ ~(range_min(id) >= limit)
      <3>1. range_min(id) \in Nat /\ range_max(id) \in Nat
        BY <1>4, CellFacts
      <3> QED
        BY <1>2, <1>4, <3>1
    <2>2. CASE range_max(id) >= limit
      <3>1. PICK g : g = CHOOSE h : ShrinkRuns(id, limit, h)
        OBVIOUS
      <3>2. maximum_tile(id, limit) = g[MaxLevel]
        BY <1>1, <1>2, <2>1, <2>2, <3>1, Zenon
      <3> QED
        BY <1>4, <2>2, <3>1, <3>2, ShrunkIs
    <2>3. CASE ~(range_max(id) >= limit)
      <3>1. PICK g : g = CHOOSE h : GrowRuns(id, limit, h)
        OBVIOUS
      <3>2. maximum_tile(id, limit) = g[MaxLevel]
        BY <1>1, <1>2, <2>1, <2>3, <3>1, Zenon
      <3>3. range_max(id) < limit
        BY <1>2, <2>1, <2>3
      <3> QED
        BY <1>4, <3>1, <3>2, <3>3, GrownIs
    <2> QED
      BY <2>2, <2>3
  <1> QED
    BY <1>3, <1>4

\* What follows a cell on the way to limit.
LEMMA NextTile ==
  ASSUME NEW limit \in Limits, NEW id \in CellIds, NEW t, t = maximum_tile(next(id), limit)
  PROVE  /\ range_max(id) + 2 \in Nat
         /\ \/ range_max(id) + 2 >= limit /\ t = limit
            \/ TileOf(t, range_max(id) + 2, limit)
  <1>1. /\ range_min(next(id)) = range_max(id) + 2 /\ range_max(id) \in Nat
        /\ next(id) \in CellIds \/ range_min(next(id)) = LeafEnd
    BY NextIs, CellFacts
  <1>2. limit \in Nat /\ limit <= LeafEnd /\ LeafEnd \in Nat
    BY LimitIs, EndIs
  <1>3. PICK first \in Nat : first = range_max(id) + 2 /\ first = range_min(next(id))
    BY <1>1
  <1>4. PICK n : n = next(id)
    OBVIOUS
  <1>5. CASE first >= limit
    <2>1. maximum_tile(n, limit) = limit
      BY <1>3, <1>4, <1>5, MaxTileIs
    <2> QED
      BY <1>3, <1>4, <1>5, <2>1
  <1>6. CASE first < limit
    <2>1. n \in CellIds /\ range_min(n) = first
      BY <1>1, <1>2, <1>3, <1>4, <1>6
    <2>2. TileOf(maximum_tile(n, limit), first, limit)
      BY <1>6, <2>1, MaxTileIs
    <2> QED
      BY <1>3, <1>4, <2>2
  <1> QED
    BY <1>2, <1>5, <1>6

\* The recursion of FromBeginEnd.
TileRuns(limit, g) ==
  g = [id \in CellIds \cup {limit} |->
         IF id = limit THEN <<>> ELSE <<id>> \o g[maximum_tile(next(id), limit)]]

LEMMA TileExists ==
  ASSUME NEW limit \in Limits
  PROVE  \E g : TileRuns(limit, g)
  <1> DEFINE D == CellIds \cup {limit}
             S == Seq(CellIds)
             N == Done
             to(id) == maximum_tile(next(id), limit)
             rank == [id \in D |-> IF id = limit THEN 0 ELSE N - id]
             H == [id \in D |-> [F \in [D -> S] |-> IF id = limit THEN <<>> ELSE <<id>> \o F[to(id)]]]
  <1>1. \A id \in CellIds : N \in Nat /\ id \in Nat /\ id < N
    BY CellFacts
  <1>2. N \in Nat
    BY LsbRatio, LevelAssumption, FacesAssumption DEF Done
  <1>3. \A id \in D : id # limit => /\ id \in CellIds /\ to(id) \in D
                                    /\ to(id) = limit \/ to(id) > id
    <2> TAKE id \in D
    <2> HAVE id # limit
    <2>1. id \in CellIds
      OBVIOUS
    <2>2. PICK t : t = to(id)
      OBVIOUS
    <2>3. t = limit \/ TileOf(t, range_max(id) + 2, limit)
      BY <2>1, <2>2, NextTile
    <2>4. CASE TileOf(t, range_max(id) + 2, limit)
      <3>1. t \in CellIds /\ range_min(t) = range_max(id) + 2
        BY <2>4 DEF TileOf, Starts
      <3>2. t > id
        <4>1. range_max(id) \in Nat /\ id <= range_max(id) /\ id \in Nat /\ t \in Nat
              /\ range_min(t) \in Nat /\ range_min(t) <= t
          BY <2>1, <3>1, CellFacts
        <4> QED
          BY <3>1, <4>1
      <3> QED
        BY <2>1, <2>2, <3>1, <3>2
    <2> QED
      BY <2>1, <2>2, <2>3, <2>4
  <1> HIDE DEF to, N
  <1>4. rank \in [D -> 0 .. N] /\ \A id \in D : id # limit => rank[to(id)] < rank[id]
    <2>1. \A id \in D : id # limit => N - id \in 1 .. N
      BY <1>1, <1>2
    <2>2. rank \in [D -> 0 .. N]
      BY <1>2, <2>1
    <2>3. ASSUME NEW id \in D, id # limit PROVE rank[to(id)] < rank[id]
      <3>1. rank[id] = N - id /\ N - id \in 1 .. N /\ id \in Nat
        BY <1>1, <1>3, <2>1, <2>3
      <3>2. CASE to(id) = limit
        BY <1>3, <2>3, <3>1, <3>2
      <3>3. CASE to(id) # limit
        <4>1. rank[to(id)] = N - to(id) /\ to(id) \in CellIds /\ to(id) \in Nat /\ to(id) > id
          BY <1>1, <1>3, <2>3, <3>3
        <4> QED
          BY <1>2, <3>1, <4>1
      <3> QED
        BY <3>2, <3>3
    <2> QED
      BY <2>2, <2>3
  <1>5. ASSUME NEW id \in D, NEW F \in [D -> S] PROVE H[id][F] \in S
    <2>1. <<>> \in S
      OBVIOUS
    <2>2. ASSUME id # limit PROVE <<id>> \o F[to(id)] \in S
      <3>1. PICK w \in S : w = F[to(id)]
        BY <1>3, <2>2
      <3>2. <<id>> \in S
        BY <1>3, <2>2
      <3>3. <<id>> \o w \in S
        BY <3>2, Joined
      <3> QED
        BY <3>1, <3>3
    <2> QED
      BY <2>1, <2>2
  <1>6. H \in [D -> [[D -> S] -> S]]
    BY <1>5
  <1>7. ASSUME NEW id \in D, NEW F \in [D -> S], NEW G \in [D -> S],
               \A e \in D : rank[e] < rank[id] => F[e] = G[e]
        PROVE  H[id][F] = H[id][G]
    <2>1. id # limit => F[to(id)] = G[to(id)]
      BY <1>3, <1>4, <1>7
    <2> HIDE DEF rank
    <2> QED
      BY <2>1
  <1>8. S # {}
    <2>1. <<>> \in S
      OBVIOUS
    <2> QED
      BY <2>1
  <1>9. \A id \in D, F \in [D -> S] : H[id][F] = IF id = limit THEN <<>> ELSE <<id>> \o F[to(id)]
    OBVIOUS
  <1> HIDE DEF D, S, rank, H
  <1>10. WellRanked(D, S, N, rank, H)
    BY <1>2, <1>4, <1>6, <1>7, <1>8 DEF WellRanked
  <1>11. PICK F \in [D -> S] : \A id \in D : F[id] = H[id][F]
    BY <1>10, RecursionExists
  <1>12. F = [id \in D |-> IF id = limit THEN <<>> ELSE <<id>> \o F[to(id)]]
    BY <1>9, <1>11
  <1> QED
    BY <1>12 DEF TileRuns, D, to

\* A tiling of the leaf cells from first up to limit, by cells none of which
\* can be made larger.
Tiles(first, limit, w) ==
  /\ Ordered(w)
  /\ \A c \in ToSet(w) : /\ first <= range_min(c) /\ range_max(c) < limit
                         /\ Maximal(c, range_min(c), limit)
  /\ LeavesOf(w) = { leaf \in LeafIds : first <= leaf /\ leaf < limit }

LEMMA TilesNone ==
  ASSUME NEW limit \in Limits, NEW first \in Nat, first >= limit
  PROVE  Tiles(first, limit, <<>>)
  <1>1. limit \in Nat /\ \A leaf \in LeafIds : leaf \in Nat
    BY LimitIs, LeavesAreCells
  <1>2. { leaf \in LeafIds : first <= leaf /\ leaf < limit } = {}
    BY <1>1
  <1> QED
    BY <1>2, OrderedFew DEF Tiles

LEMMA TilesMore ==
  ASSUME NEW limit \in Limits, NEW first, NEW id, TileOf(id, first, limit),
         NEW w, Tiles(range_max(id) + 2, limit, w)
  PROVE  Tiles(first, limit, <<id>> \o w)
  <1>1. id \in CellIds /\ range_min(id) = first /\ range_max(id) < limit /\ Maximal(id, first, limit)
    BY DEF TileOf, Starts
  <1>2. /\ first \in Nat /\ range_max(id) \in Nat /\ limit \in Nat /\ first <= range_max(id)
    <2>1. /\ id \in Nat /\ range_min(id) \in Nat /\ range_max(id) \in Nat
          /\ range_min(id) <= id /\ id <= range_max(id)
      BY <1>1, CellFacts
    <2> QED
      BY <1>1, <2>1, LimitIs
  <1>3. Ordered(w) /\ w \in Seq(CellIds)
    BY DEF Tiles, Ordered
  <1>4. \A c \in ToSet(w) : /\ c \in CellIds /\ range_min(c) \in Nat
                            /\ range_max(id) + 2 <= range_min(c) /\ range_max(c) < limit
                            /\ Maximal(c, range_min(c), limit)
    BY <1>3, Members, CellFacts DEF Tiles
  <1>5. /\ Ordered(<<id>>) /\ ToSet(<<id>>) = {id} /\ LeavesOf(<<id>>) = Leaves(id)
        /\ <<id>> \in Seq(CellIds)
    BY <1>1, OrderedFew, FewNormalized DEF Ordered
  <1>6. Ordered(<<id>> \o w)
    <2>1. \A c \in ToSet(w) : EntirelyPrecedes(id, c)
      <3> TAKE c \in ToSet(w)
      <3>1. range_min(c) \in Nat /\ range_max(id) + 2 <= range_min(c)
        BY <1>4
      <3> QED
        BY <1>2, <3>1 DEF EntirelyPrecedes
    <2>2. \A x \in ToSet(<<id>>), c \in ToSet(w) : EntirelyPrecedes(x, c)
      BY <1>5, <2>1
    <2>3. PICK v : v = <<id>>
      OBVIOUS
    <2>4. Ordered(v) /\ \A x \in ToSet(v), c \in ToSet(w) : EntirelyPrecedes(x, c)
      BY <1>5, <2>2, <2>3
    <2>5. Ordered(v \o w)
      BY <1>3, <2>4, OrderedJoin
    <2> QED
      BY <2>3, <2>5
  <1>7. /\ ToSet(<<id>> \o w) = {id} \cup ToSet(w)
        /\ LeavesOf(<<id>> \o w) = Leaves(id) \cup LeavesOf(w)
    <2>1. PICK v \in Seq(CellIds) : v = <<id>>
      BY <1>5
    <2>2. ToSet(v \o w) = ToSet(v) \cup ToSet(w) /\ LeavesOf(v \o w) = LeavesOf(v) \cup LeavesOf(w)
      BY <1>3, Joined
    <2> QED
      BY <1>5, <2>1, <2>2
  <1>8. ASSUME NEW c \in ToSet(<<id>> \o w)
        PROVE  first <= range_min(c) /\ range_max(c) < limit /\ Maximal(c, range_min(c), limit)
    <2>1. CASE c = id
      BY <1>1, <1>2, <2>1
    <2>2. CASE c \in ToSet(w)
      <3>1. /\ range_min(c) \in Nat /\ range_max(id) + 2 <= range_min(c) /\ range_max(c) < limit
            /\ Maximal(c, range_min(c), limit)
        BY <1>4, <2>2
      <3>2. first <= range_min(c)
        BY <1>2, <3>1
      <3> QED
        BY <3>1, <3>2
    <2> QED
      BY <1>7, <2>1, <2>2
  <1>9. ASSUME NEW leaf \in LeafIds
        PROVE  leaf \in Leaves(id) \cup LeavesOf(w) <=> first <= leaf /\ leaf < limit
    <2>1. leaf \in LeavesOf(w) <=> range_max(id) + 2 <= leaf /\ leaf < limit
      BY DEF Tiles
    <2>2. leaf \in Leaves(id) <=> first <= leaf /\ leaf <= range_max(id)
      BY <1>1, LeafLaws DEF contains
    <2>3. leaf \in Nat /\ leaf # range_max(id) + 1
      <3>1. leaf \in Nat /\ leaf \in CellIds /\ range_min(leaf) = leaf
        BY LeavesAreCells, LeafForm
      <3>2. PICK i \in Nat : leaf = 2 * i + 1
        BY <3>1, OddBounds
      <3>3. PICK j \in Nat : range_max(id) = 2 * j + 1
        BY <1>1, OddBounds
      <3> QED
        BY <3>1, <3>2, <3>3
    <2> QED
      BY <1>1, <1>2, <2>1, <2>2, <2>3
  <1>10. LeavesOf(<<id>> \o w) = { leaf \in LeafIds : first <= leaf /\ leaf < limit }
    <2>1. Leaves(id) \subseteq LeafIds /\ LeavesOf(w) \subseteq LeafIds
      BY <1>1, <1>3, LeafLaws, Members
    <2> QED
      BY <1>7, <1>9, <2>1
  <1> QED
    BY <1>6, <1>8, <1>10 DEF Tiles

\* Tiles make no family: the first child of a cell is a tile only where the
\* cell does not end before limit, as its last child does.
LEMMA TilesNormalized ==
  ASSUME NEW limit \in Limits, NEW first, NEW w, Tiles(first, limit, w)
  PROVE  w \in Seq(CellIds) /\ IsNormalized(w)
  <1>1. Ordered(w) /\ w \in Seq(CellIds)
    BY DEF Tiles, Ordered
  <1>2. NoFamily(ToSet(w))
    <2> SUFFICES ASSUME NEW p \in CellIds, lsb(p) # 1, \A n \in 0 .. 3 : child(p, n) \in ToSet(w)
                 PROVE  FALSE
      BY DEF NoFamily
    <2>1. 0 \in 0 .. 3 /\ 3 \in 0 .. 3
      OBVIOUS
    <2>2. Maximal(child(p, 0), range_min(child(p, 0)), limit) /\ range_max(child(p, 3)) < limit
      BY <2>1 DEF Tiles
    <2>3. ~is_face(child(p, 0)) /\ parent(child(p, 0)) = p
      BY <2>1, ChildParent
    <2>4. range_min(child(p, 0)) = range_min(p) /\ range_max(child(p, 3)) = range_max(p)
      BY ChildrenTile
    <2>5. range_max(p) >= limit
      BY <2>2, <2>3, <2>4 DEF Maximal
    <2>6. range_max(p) \in Nat /\ limit \in Nat
      BY CellFacts, LimitIs
    <2> QED
      BY <2>2, <2>4, <2>5, <2>6
  <1> QED
    BY <1>1, <1>2, NormalizedIs

LEMMA TilesAre ==
  ASSUME NEW limit \in Limits, NEW g, TileRuns(limit, g)
  PROVE  \A id \in CellIds :
           TileOf(id, range_min(id), limit) => Tiles(range_min(id), limit, g[id])
  <1> DEFINE rank == [id \in CellIds |-> Done - id]
             good == { id \in CellIds :
                         TileOf(id, range_min(id), limit) => Tiles(range_min(id), limit, g[id]) }
  <1>1. rank \in [CellIds -> Nat] /\ \A c, d \in CellIds : c < d => rank[d] < rank[c]
    <2>1. \A c \in CellIds : c \in Nat /\ Done \in Nat /\ c < Done
      BY CellFacts
    <2>2. \A c \in CellIds : Done - c \in Nat
      BY <2>1
    <2> QED
      BY <2>1, <2>2
  <1>2. ASSUME NEW id \in CellIds, \A e \in CellIds : rank[e] < rank[id] => e \in good
        PROVE  id \in good
    <2> HIDE DEF rank
    <2> SUFFICES ASSUME TileOf(id, range_min(id), limit)
                 PROVE  Tiles(range_min(id), limit, g[id])
      OBVIOUS
    <2>1. /\ id \in Nat /\ range_max(id) \in Nat /\ id <= range_max(id) /\ limit \in Nat
          /\ range_max(id) < limit
      BY CellFacts, LimitIs DEF TileOf
    <2>2. PICK t : t = maximum_tile(next(id), limit)
      OBVIOUS
    <2>3. g[id] = <<id>> \o g[t]
      <3>1. id # limit
        BY <2>1
      <3> QED
        BY <2>2, <3>1 DEF TileRuns
    <2>4. Tiles(range_max(id) + 2, limit, g[t])
      <3>1. CASE range_max(id) + 2 >= limit /\ t = limit
        <4>1. g[t] = <<>>
          BY <3>1 DEF TileRuns
        <4>2. Tiles(range_max(id) + 2, limit, <<>>)
          BY <2>1, <3>1, TilesNone
        <4> QED
          BY <4>1, <4>2
      <3>2. CASE TileOf(t, range_max(id) + 2, limit)
        <4>1. t \in CellIds /\ range_min(t) = range_max(id) + 2
          BY <3>2 DEF TileOf, Starts
        <4>2. t \in Nat /\ range_min(t) <= t
          BY <4>1, CellFacts
        <4>3. id < t
          BY <2>1, <4>1, <4>2
        <4>4. t \in good
          BY <1>1, <1>2, <4>1, <4>3
        <4> QED
          BY <3>2, <4>1, <4>4
      <3> QED
        BY <2>2, <3>1, <3>2, NextTile
    <2>5. Tiles(range_min(id), limit, <<id>> \o g[t])
      BY <2>4, TilesMore
    <2> QED
      BY <2>3, <2>5
  <1> HIDE DEF good, rank
  <1>3. \A id \in CellIds : id \in good
    BY <1>1, <1>2, ByRank
  <1> QED
    BY <1>3 DEF good

\* The range of leaf cells from begin up to end is tiled by a normalized union.
LEMMA FromBeginEndIs ==
  ASSUME NEW begin \in LeafIds, NEW end \in Limits, begin <= end
  PROVE  /\ FromBeginEnd(begin, end) \in Seq(CellIds) /\ IsNormalized(FromBeginEnd(begin, end))
         /\ LeavesOf(FromBeginEnd(begin, end)) = { leaf \in LeafIds : begin <= leaf /\ leaf < end }
  <1>1. PICK g : g = CHOOSE h : TileRuns(end, h)
    OBVIOUS
  <1>2. TileRuns(end, g)
    BY <1>1, TileExists
  <1>3. PICK t : t = maximum_tile(begin, end)
    OBVIOUS
  <1>4. FromBeginEnd(begin, end) = g[t]
    BY <1>1, <1>3 DEF FromBeginEnd, TileRuns
  <1>5. begin \in CellIds /\ range_min(begin) = begin /\ begin \in Nat /\ end \in Nat
    BY LeafForm, LeavesAreCells, LimitIs
  <1>6. Tiles(begin, end, g[t])
    <2>1. CASE begin < end
      <3>1. TileOf(t, begin, end)
        BY <1>3, <1>5, <2>1, MaxTileIs
      <3>2. t \in CellIds /\ range_min(t) = begin
        BY <3>1 DEF TileOf, Starts
      <3> QED
        BY <1>2, <3>1, <3>2, TilesAre
    <2>2. CASE begin >= end
      <3>1. t = end
        BY <1>3, <1>5, <2>2, MaxTileIs
      <3>2. g[t] = <<>>
        BY <1>2, <3>1 DEF TileRuns
      <3> QED
        BY <1>5, <2>2, <3>2, TilesNone
    <2> QED
      BY <1>5, <2>1, <2>2
  <1>7. g[t] \in Seq(CellIds) /\ IsNormalized(g[t])
    BY <1>6, TilesNormalized
  <1> QED
    BY <1>4, <1>6, <1>7 DEF Tiles

-----------------------------------------------------------------------------
(* The union is what set algebra says.                                     *)

\* The unions that a union meets.
LEMMA UnionsAre ==
  \A y \in Unions : /\ y.cells \in Seq(CellIds) /\ IsNormalized(y.cells)
                    /\ LeavesOf(y.cells) = y.leaves
  <1> TAKE y \in Unions
  <1>1. PICK v \in Operands : y = [cells |-> Normalize(v), leaves |-> LeavesOf(v)]
    BY DEF Unions
  <1>2. v \in Seq(CellIds)
    BY OperandsAreCells
  <1> QED
    BY <1>1, <1>2, NormalizeIs

\* What every step keeps: the vector is one of cells, in the normalized form,
\* that covers what is expected, and the last answer was right.  The walks and
\* searches are right for normalized vectors only, so that the form is needed
\* for every one of the parts.
UnionInv ==
  /\ cell_ids \in Seq(CellIds) /\ IsNormalized(cell_ids)
  /\ LeavesOf(cell_ids) = expected
  /\ AnswersExact

LEMMA UnionSet ==
  ASSUME NEW v, NEW leaves, v \in Seq(CellIds) /\ IsNormalized(v) /\ LeavesOf(v) = leaves,
         SetUnion(v, leaves)
  PROVE  UnionInv'
  <1>1. cell_ids' = v /\ expected' = leaves /\ reply' = NoReply
    BY DEF SetUnion
  <1>2. reply'.got = reply'.want
    BY <1>1 DEF NoReply
  <1>3. cell_ids' \in Seq(CellIds) /\ IsNormalized(cell_ids') /\ LeavesOf(cell_ids') = expected'
    BY <1>1
  <1> QED
    BY <1>2, <1>3 DEF UnionInv, AnswersExact

LEMMA UnionAsked ==
  ASSUME UnionInv, NEW got, NEW want, got = want, Ask(got, want)
  PROVE  UnionInv'
  <1>1. cell_ids' = cell_ids /\ expected' = expected /\ reply' = [got |-> got, want |-> want]
    BY DEF Ask
  <1>2. reply'.got = reply'.want
    BY <1>1
  <1>3. cell_ids' \in Seq(CellIds) /\ IsNormalized(cell_ids') /\ LeavesOf(cell_ids') = expected'
    BY <1>1 DEF UnionInv
  <1> QED
    BY <1>2, <1>3 DEF UnionInv, AnswersExact

LEMMA UnionStep ==
  ASSUME UnionInv, [UnionNext]_union_vars
  PROVE  UnionInv'
  <1>1. /\ cell_ids \in Seq(CellIds) /\ IsNormalized(cell_ids)
        /\ LeavesOf(cell_ids) = expected
    BY DEF UnionInv
  <1>2. CASE FromVector
    <2>1. PICK y \in Unions : SetUnion(y.cells, y.leaves)
      BY <1>2 DEF FromVector
    <2> QED
      BY <2>1, UnionsAre, UnionSet
  <1>3. CASE FromRange
    <2>1. PICK begin \in LeafIds, end \in LeafIds \cup {LeafEnd} :
            /\ begin <= end
            /\ SetUnion(FromBeginEnd(begin, end), { leaf \in LeafIds : begin <= leaf /\ leaf < end })
      BY <1>3 DEF FromRange
    <2>2. end \in Limits
      BY DEF Limits
    <2> QED
      BY <2>1, <2>2, FromBeginEndIs, UnionSet
  <1>4. CASE UnionWith
    <2>1. PICK y \in Unions : SetUnion(Union(cell_ids, y.cells), expected \cup y.leaves)
      BY <1>4 DEF UnionWith
    <2>2. PICK w \in Seq(CellIds) : w = y.cells /\ LeavesOf(w) = y.leaves
      BY UnionsAre
    <2>3. /\ Union(cell_ids, w) \in Seq(CellIds) /\ IsNormalized(Union(cell_ids, w))
          /\ LeavesOf(Union(cell_ids, w)) = expected \cup y.leaves
      BY <1>1, <2>2, UnionIs
    <2> QED
      BY <2>1, <2>2, <2>3, UnionSet
  <1>5. CASE IntersectionWith
    <2>1. PICK y \in Unions : SetUnion(GetIntersection(cell_ids, y.cells), expected \cap y.leaves)
      BY <1>5 DEF IntersectionWith
    <2>2. PICK w \in Seq(CellIds) : w = y.cells /\ LeavesOf(w) = y.leaves /\ IsNormalized(w)
      BY UnionsAre
    <2>3. /\ GetIntersection(cell_ids, w) \in Seq(CellIds) /\ IsNormalized(GetIntersection(cell_ids, w))
          /\ LeavesOf(GetIntersection(cell_ids, w)) = expected \cap y.leaves
      BY <1>1, <2>2, IntersectionIs
    <2> QED
      BY <2>1, <2>2, <2>3, UnionSet
  <1>6. CASE IntersectionWithCell
    <2>1. PICK id \in CellIds : SetUnion(IntersectionCell(cell_ids, id), expected \cap Leaves(id))
      BY <1>6 DEF IntersectionWithCell
    <2>2. /\ IntersectionCell(cell_ids, id) \in Seq(CellIds)
          /\ IsNormalized(IntersectionCell(cell_ids, id))
          /\ LeavesOf(IntersectionCell(cell_ids, id)) = expected \cap Leaves(id)
      BY <1>1, IntersectionCellIs
    <2> QED
      BY <2>1, <2>2, UnionSet
  <1>7. CASE DifferenceWith
    <2>1. PICK y \in Unions : SetUnion(Difference(cell_ids, y.cells), expected \ y.leaves)
      BY <1>7 DEF DifferenceWith
    <2>2. PICK w \in Seq(CellIds) : w = y.cells /\ LeavesOf(w) = y.leaves /\ IsNormalized(w)
      BY UnionsAre
    <2>3. /\ Difference(cell_ids, w) \in Seq(CellIds) /\ IsNormalized(Difference(cell_ids, w))
          /\ LeavesOf(Difference(cell_ids, w)) = expected \ y.leaves
      BY <1>1, <2>2, DifferenceIs
    <2> QED
      BY <2>1, <2>2, <2>3, UnionSet
  <1>8. CASE AskContains
    <2>1. PICK y \in Unions : Ask(ContainsUnion(cell_ids, y.cells), y.leaves \subseteq expected)
      BY <1>8 DEF AskContains
    <2>2. PICK w \in Seq(CellIds) : w = y.cells /\ LeavesOf(w) = y.leaves /\ IsNormalized(w)
      BY UnionsAre
    <2>3. ContainsUnion(cell_ids, w) = (y.leaves \subseteq expected)
      BY <1>1, <2>2, ContainsUnionIs
    <2> QED
      BY <2>1, <2>2, <2>3, UnionAsked
  <1>9. CASE AskIntersects
    <2>1. PICK y \in Unions : Ask(IntersectsUnion(cell_ids, y.cells), y.leaves \cap expected # {})
      BY <1>9 DEF AskIntersects
    <2>2. PICK w \in Seq(CellIds) : w = y.cells /\ LeavesOf(w) = y.leaves /\ IsNormalized(w)
      BY UnionsAre
    <2>3. IntersectsUnion(cell_ids, w) = (y.leaves \cap expected # {})
      <3>1. IntersectsUnion(cell_ids, w) = (LeavesOf(w) \cap LeavesOf(cell_ids) # {})
        BY <1>1, <2>2, IntersectsUnionIs
      <3> QED
        BY <1>1, <2>2, <3>1
    <2> QED
      BY <2>1, <2>2, <2>3, UnionAsked
  <1>10. CASE AskContainsCell
    <2>1. PICK id \in CellIds : Ask(ContainsCell(cell_ids, id), Leaves(id) \subseteq expected)
      BY <1>10 DEF AskContainsCell
    <2>2. ContainsCell(cell_ids, id) = (Leaves(id) \subseteq expected)
      BY <1>1, QueriesAnswer
    <2> QED
      BY <2>1, <2>2, UnionAsked
  <1>11. CASE AskIntersectsCell
    <2>1. PICK id \in CellIds : Ask(IntersectsCell(cell_ids, id), Leaves(id) \cap expected # {})
      BY <1>11 DEF AskIntersectsCell
    <2>2. IntersectsCell(cell_ids, id) = (Leaves(id) \cap expected # {})
      BY <1>1, QueriesAnswer
    <2> QED
      BY <2>1, <2>2, UnionAsked
  <1>12. CASE UNCHANGED union_vars
    BY <1>12 DEF union_vars, UnionInv, AnswersExact
  <1> QED
    BY <1>2, <1>3, <1>4, <1>5, <1>6, <1>7, <1>8, <1>9, <1>10, <1>11, <1>12 DEF UnionNext

\* However a cell union is built and combined, by the constructors, Union,
\* Intersection, Difference and the tiling of a range, it covers the leaf cells
\* that set algebra says in the one normalized form of that set, although
\* only two of the operations normalize; and the searches of Contains and
\* Intersects answer for the set.
THEOREM UnionCorrect == UnionSpec => []UnionExact
  <1>1. UnionInit => UnionInv
    <2> SUFFICES ASSUME UnionInit PROVE UnionInv
      OBVIOUS
    <2>1. reply.got = reply.want
      BY DEF UnionInit, NoReply
    <2>2. cell_ids = <<>> /\ expected = {}
      BY DEF UnionInit
    <2> QED
      BY <2>1, <2>2, FewNormalized DEF UnionInv, AnswersExact
  <1>2. UnionInv /\ [UnionNext]_union_vars => UnionInv'
    BY UnionStep
  <1>3. UnionInv => UnionExact
    BY DEF UnionInv, UnionExact, RegionExact, StaysNormalized, AnswersExact
  <1> QED
    BY <1>1, <1>2, <1>3, PTL DEF UnionSpec

=============================================================================
