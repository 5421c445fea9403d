------------------------- MODULE GeographyIndexProofs -------------------------
(***************************************************************************)
(* That the operators which search an index of geographies through         *)
(* coverings find what comparing every pair finds: for any number of       *)
(* levels, faces and geographies, however the index divides its cells and  *)
(* whatever coverings the coverer gives.                                   *)
(*                                                                         *)
(* From the laws of cells and unions follows the lookup of a cell in an    *)
(* index, and then the invariants of the matrix operators and of           *)
(* s2_prepared_dwithin.                                                    *)
(***************************************************************************)
EXTENDS GeographyIndex, PreparedDWithin, S2CellUnionProofs

-----------------------------------------------------------------------------
(* Looking a cell up.                                                      *)

\* Seek stops at the first cell that is not before its target.
LEMMA SeekFinds ==
  ASSUME NEW T \in SUBSET CellIds, NEW target \in Nat
  PROVE  LET pos == Seek(T, target)
         IN  /\ pos \in T => pos >= target
             /\ pos \in T \/ pos = Done
             /\ \A c \in T : c >= target => pos <= c
  <1> DEFINE S == { id \in T : id >= target } \cup {Done}
  <1>1. S \subseteq Nat /\ S # {}
    <2>1. \A id \in T : id \in Nat
      BY CellFacts
    <2>2. Done \in Nat
      <3>1. FaceSize \in Nat
        BY LsbRatio, LevelAssumption
      <3> QED
        BY <3>1, FacesAssumption DEF Done
    <2> QED
      BY <2>1, <2>2
  <1>2. Min(S) \in S /\ \A y \in S : Min(S) <= y
    <2> HIDE DEF S
    <2> QED
      BY <1>1, LeastIsMin
  <1>3. Seek(T, target) = Min(S)
    BY DEF Seek
  <1>4. Done \notin T
    BY CellFacts
  <1> QED
    BY <1>2, <1>3, <1>4

\* Two cells of a tiling do not overlap.
LEMMA TilesApart ==
  ASSUME NEW region, NEW T, IsTiling(T, region), NEW c \in T, NEW d \in T,
         contains(c, d) \/ contains(d, c)
  PROVE  c = d
  <1>1. c \in CellIds /\ d \in CellIds
    BY DEF IsTiling, Covers
  <1>2. Inside(d, c) \/ Inside(c, d)
    BY <1>1, ContainsNests
  <1>3. intersects(c, d)
    <2>1. /\ range_min(c) \in Nat /\ range_max(c) \in Nat /\ range_min(d) \in Nat
          /\ range_max(d) \in Nat /\ range_min(c) <= range_max(c)
          /\ range_min(d) <= range_max(d)
      <3>1. /\ range_min(c) <= c /\ c <= range_max(c) /\ c \in Nat
            /\ range_min(d) <= d /\ d <= range_max(d) /\ d \in Nat
            /\ range_min(c) \in Nat /\ range_max(c) \in Nat /\ range_min(d) \in Nat
            /\ range_max(d) \in Nat
        BY <1>1, CellFacts
      <3> QED
        BY <3>1
    <2> QED
      BY <1>2, <2>1 DEF Inside, intersects
  <1> QED
    BY <1>3 DEF IsTiling

\* A cell inside an index cell is found there.
LEMMA LocateInside ==
  ASSUME NEW region, NEW T, IsTiling(T, region), NEW c \in T, NEW id \in CellIds,
         contains(c, id)
  PROVE  Locate(T, id) = [relation |-> "INDEXED", at |-> c]
  <1>1. T \in SUBSET CellIds /\ c \in CellIds
    BY DEF IsTiling, Covers
  <1> DEFINE pos == Seek(T, range_min(id))
  <1>2. /\ id \in Nat /\ Done \in Nat /\ range_min(id) \in Nat /\ range_max(id) \in Nat
        /\ range_min(id) <= id /\ id <= range_max(id)
        /\ c \in Nat /\ c < Done /\ range_min(c) \in Nat /\ range_max(c) \in Nat
        /\ range_min(c) <= c /\ c <= range_max(c)
    BY <1>1, CellFacts
  <1>3. range_min(c) <= range_min(id) /\ range_max(id) <= range_max(c)
    BY <1>1, ContainsNests DEF Inside
  <1>4. /\ pos \in T => pos >= range_min(id)
        /\ pos \in T \/ pos = Done
        /\ c >= range_min(id) => pos <= c
    BY <1>1, <1>2, SeekFinds
  <1>5. \A d \in T : d \in Nat /\ (range_min(c) <= d /\ d <= range_max(c) => d = c)
    <2> TAKE d \in T
    <2>1. d \in Nat
      BY <1>1, CellFacts
    <2>2. range_min(c) <= d /\ d <= range_max(c) => contains(c, d)
      BY DEF contains
    <2> QED
      BY <2>1, <2>2, TilesApart
  <1> HIDE DEF pos
  <1>6. CASE c >= range_min(id)
    <2>1. pos = c
      <3>1. pos <= c
        BY <1>4, <1>6
      <3>2. pos \in T
        BY <1>2, <1>4, <3>1
      <3>3. pos \in Nat /\ pos >= range_min(id)
        BY <1>4, <1>5, <3>2
      <3>4. range_min(c) <= pos /\ pos <= range_max(c)
        BY <1>2, <1>3, <3>1, <3>3
      <3> QED
        BY <1>5, <3>2, <3>4
    <2>2. c >= id
      <3> SUFFICES ASSUME c < id PROVE FALSE
        BY <1>2
      <3>1. contains(id, c)
        BY <1>2, <1>6 DEF contains
      <3> QED
        BY <1>1, <1>2, <3>1, ContainsNests
    <2>3. pos # Done /\ pos >= id /\ range_min(pos) <= id
      BY <1>2, <1>3, <2>1, <2>2
    <2> QED
      BY <2>1, <2>3 DEF Locate, pos
  <1>7. CASE c < range_min(id)
    <2>1. pos # c /\ pos >= range_min(id) /\ pos \in Nat
      <3>1. pos \in T => pos >= range_min(id) /\ pos \in Nat
        BY <1>4, <1>5
      <3>2. pos = Done => pos >= range_min(id) /\ pos \in Nat
        BY <1>2, CellFacts
      <3> QED
        BY <1>2, <1>4, <1>7, <3>1, <3>2
    <2>2. ~(pos # Done /\ pos >= id /\ range_min(pos) <= id)
      <3> SUFFICES ASSUME pos \in T, pos >= id, range_min(pos) <= id PROVE FALSE
        BY <1>4
      <3>1. pos \in CellIds /\ range_max(pos) \in Nat /\ pos <= range_max(pos)
        BY <1>1, CellFacts
      <3>2. contains(pos, id)
        BY <1>2, <2>1, <3>1 DEF contains
      <3>3. Inside(id, pos)
        BY <3>1, <3>2, ContainsNests
      <3>4. contains(c, pos) \/ contains(pos, c)
        <4>1. Inside(c, pos) \/ Inside(pos, c) \/ Apart(c, pos)
          <5>1. c = pos => Inside(c, pos)
            BY <2>1
          <5> QED
            BY <1>1, <3>1, <5>1, Laminar
        <4>2. ~Apart(c, pos)
          BY <1>2, <1>3, <3>1, <3>3, CellFacts DEF Apart, Inside
        <4> QED
          BY <1>2, <2>1, <3>1, <4>1, <4>2, CellFacts DEF Inside, contains
      <3> QED
        BY <2>1, <3>4, TilesApart
    <2>3. ~(pos # Done /\ pos <= range_max(id))
      BY <1>2, <1>3, <1>4, <1>5, <1>7, <2>1
    <2> DEFINE before == { d \in T : d < pos }
    <2>4. c \in before
      BY <1>2, <1>7, <2>1
    <2>5. \A d \in before : d < range_min(id) /\ d \in Nat
      <3> TAKE d \in before
      <3>1. d \in T /\ d < pos /\ d \in Nat
        BY <1>5
      <3>2. d >= range_min(id) => pos <= d
        BY <1>1, <1>2, <3>1, SeekFinds DEF pos
      <3> QED
        BY <1>2, <2>1, <3>1, <3>2
    <2>6. before \subseteq 0 .. range_min(id)
      <3> HIDE DEF before
      <3> SUFFICES ASSUME NEW d \in before PROVE d \in 0 .. range_min(id)
        OBVIOUS
      <3>1. d < range_min(id) /\ d \in Nat
        BY <2>5
      <3> QED
        BY <1>2, <3>1
    <2>7. Max(before) \in before /\ \A d \in before : d <= Max(before)
      <3> HIDE DEF before
      <3> QED
        BY <1>2, <2>4, <2>6, GreatestIsMax
    <2>8. Max(before) = c
      <3>1. PICK b \in T : b = Max(before)
        BY <2>7
      <3>2. c <= b /\ b < range_min(id) /\ b \in Nat
        BY <1>5, <2>4, <2>5, <2>7, <3>1
      <3>3. range_min(c) <= b /\ b <= range_max(c)
        BY <1>2, <1>3, <3>2
      <3> QED
        BY <1>5, <3>1, <3>3
    <2>9. HasPrev(T, pos) /\ Prev(T, pos) = c
      BY <2>4, <2>8 DEF HasPrev, Prev
    <2>10. range_max(c) >= id
      BY <1>2, <1>3
    <2> QED
      BY <2>2, <2>3, <2>9, <2>10 DEF Locate, pos
  <1> QED
    BY <1>2, <1>6, <1>7

\* A cell that is divided further in the index is found at the first of the
\* index cells inside.
LEMMA LocateAround ==
  ASSUME NEW region, NEW T, IsTiling(T, region), NEW c \in T, NEW id \in CellIds,
         contains(id, c), c # id
  PROVE  /\ Locate(T, id).relation = "SUBDIVIDED"
         /\ Locate(T, id).at \in T /\ Locate(T, id).at <= c
  <1>1. T \in SUBSET CellIds /\ c \in CellIds
    BY DEF IsTiling, Covers
  <1> DEFINE pos == Seek(T, range_min(id))
  <1>2. /\ id \in Nat /\ range_min(id) \in Nat /\ range_max(id) \in Nat
        /\ range_min(id) <= id /\ id <= range_max(id)
        /\ c \in Nat /\ Done \in Nat /\ c < Done
    BY <1>1, CellFacts
  <1>3. range_min(id) <= c /\ c <= range_max(id) /\ Inside(c, id)
    BY <1>1, ContainsNests DEF contains
  <1>4. pos \in T /\ pos >= range_min(id) /\ pos <= c
    <2>1. /\ pos \in T => pos >= range_min(id)
          /\ pos \in T \/ pos = Done
          /\ pos <= c
      BY <1>1, <1>2, <1>3, SeekFinds
    <2> QED
      BY <1>2, <2>1
  <1>5. pos \in CellIds /\ pos \in Nat /\ pos # Done /\ pos <= range_max(id)
    <2>1. pos \in CellIds
      BY <1>1, <1>4
    <2>2. PICK p \in CellIds : p = pos
      BY <2>1
    <2>3. p \in Nat /\ p < Done
      BY CellFacts
    <2> QED
      BY <1>2, <1>3, <1>4, <2>2, <2>3
  <1> HIDE DEF pos
  <1>6. ~(pos >= id /\ range_min(pos) <= id)
    <2> SUFFICES ASSUME pos >= id, range_min(pos) <= id PROVE FALSE
      OBVIOUS
    <2>1. pos <= range_max(pos) /\ range_max(pos) \in Nat /\ range_min(pos) \in Nat
      BY <1>5, CellFacts
    <2>2. contains(pos, id)
      BY <1>2, <1>5, <2>1 DEF contains
    <2>3. Inside(id, pos)
      BY <1>5, <2>2, ContainsNests
    <2>4. contains(pos, c)
      BY <1>2, <1>3, <2>1, <2>3 DEF Inside, contains
    <2>5. pos = c
      BY <1>4, <2>4, TilesApart
    <2> QED
      BY <1>1, <2>2, <2>5, ContainsNests
  <1> QED
    BY <1>4, <1>5, <1>6 DEF Locate, pos
\* S2CellIterator::Locate, for any cells of an index that do not overlap and any
\* cell: INDEXED exactly if an index cell contains it, and that is where the
\* iterator is left; SUBDIVIDED exactly if index cells lie inside it, the
\* first of which is where the iterator is left; DISJOINT otherwise.
THEOREM LocateExact ==
  ASSUME NEW region, NEW T, IsTiling(T, region), NEW id \in CellIds
  PROVE  LET found == Locate(T, id)
         IN  /\ found.relation \in {"INDEXED", "SUBDIVIDED", "DISJOINT"}
             /\ found.relation = "INDEXED" <=> \E c \in T : contains(c, id)
             /\ found.relation = "INDEXED" => found.at \in T /\ contains(found.at, id)
             /\ found.relation = "SUBDIVIDED" <=> \E c \in T : c # id /\ contains(id, c)
             /\ found.relation = "SUBDIVIDED" =>
                  /\ found.at \in T /\ contains(id, found.at)
                  /\ \A c \in T : contains(id, c) => found.at <= c
  <1> DEFINE found == Locate(T, id)
             pos == Seek(T, range_min(id))
  <1>1. T \in SUBSET CellIds
    BY DEF IsTiling, Covers
  <1>2. /\ id \in Nat /\ range_min(id) \in Nat /\ range_max(id) \in Nat
        /\ range_min(id) <= id /\ id <= range_max(id) /\ Done \in Nat
    BY CellFacts
  <1>3. \A c \in T : /\ c \in Nat /\ range_min(c) \in Nat /\ range_max(c) \in Nat
                     /\ range_min(c) <= c /\ c <= range_max(c) /\ c < Done
    <2> TAKE c \in T
    <2>1. c \in CellIds
      BY <1>1
    <2> QED
      BY <2>1, CellFacts
  <1>4. /\ pos \in T => pos >= range_min(id)
        /\ pos \in T \/ pos = Done
        /\ \A c \in T : c >= range_min(id) => pos <= c
    BY <1>1, <1>2, SeekFinds
  <1> HIDE DEF pos
  <1>5. found = IF pos # Done /\ pos >= id /\ range_min(pos) <= id
                THEN [relation |-> "INDEXED", at |-> pos]
                ELSE IF pos # Done /\ pos <= range_max(id)
                THEN [relation |-> "SUBDIVIDED", at |-> pos]
                ELSE IF HasPrev(T, pos) /\ range_max(Prev(T, pos)) >= id
                THEN [relation |-> "INDEXED", at |-> Prev(T, pos)]
                ELSE [relation |-> "DISJOINT", at |-> pos]
    BY DEF Locate, pos
  <1> HIDE DEF found
  <1>6. \A c \in T : contains(c, id) => found.relation = "INDEXED"
    BY LocateInside DEF found
  <1>7. \A c \in T : contains(id, c) /\ c # id => found.relation = "SUBDIVIDED"
    BY LocateAround DEF found
  <1>8. ASSUME found.relation = "INDEXED" PROVE found.at \in T /\ contains(found.at, id)
    <2>1. CASE pos # Done /\ pos >= id /\ range_min(pos) <= id
      <3>1. found.at = pos
        BY <1>5, <2>1
      <3>2. pos \in T
        BY <1>4, <2>1
      <3> QED
        BY <1>2, <1>3, <2>1, <3>1, <3>2 DEF contains
    <2>2. CASE ~(pos # Done /\ pos >= id /\ range_min(pos) <= id)
      <3>1. ~(pos # Done /\ pos <= range_max(id))
        BY <1>5, <1>8, <2>2
      <3>2. HasPrev(T, pos) /\ range_max(Prev(T, pos)) >= id /\ found.at = Prev(T, pos)
        BY <1>5, <1>8, <2>2, <3>1
      <3> DEFINE before == { d \in T : d < pos }
      <3>3. \A d \in before : d < range_min(id) /\ d \in Nat
        <4> TAKE d \in before
        <4>1. d \in T /\ d < pos /\ d \in Nat
          BY <1>3
        <4>2. d >= range_min(id) => pos <= d
          BY <1>4, <4>1
        <4>3. pos \in Nat
          BY <1>2, <1>3, <1>4
        <4> QED
          BY <1>2, <4>1, <4>2, <4>3
      <3>4. before # {}
        BY <3>2 DEF HasPrev
      <3>5. Prev(T, pos) = Max(before) /\ before \subseteq T
        BY DEF Prev
      <3> HIDE DEF before
      <3>6. before \subseteq 0 .. range_min(id)
        <4> SUFFICES ASSUME NEW d \in before PROVE d \in 0 .. range_min(id)
          OBVIOUS
        <4>1. d < range_min(id) /\ d \in Nat
          BY <3>3
        <4> QED
          BY <1>2, <4>1
      <3>7. Max(before) \in before
        BY <1>2, <3>4, <3>6, GreatestIsMax
      <3>8. PICK p \in T : p = found.at /\ p < range_min(id) /\ range_max(p) >= id
        BY <3>2, <3>3, <3>5, <3>7
      <3>9. contains(p, id)
        BY <1>2, <1>3, <3>8 DEF contains
      <3> QED
        BY <3>8, <3>9
    <2> QED
      BY <2>1, <2>2
  <1>9. ASSUME found.relation = "SUBDIVIDED"
        PROVE  /\ found.at \in T /\ contains(id, found.at) /\ found.at # id
               /\ \A c \in T : contains(id, c) => found.at <= c
    <2>1. /\ ~(pos # Done /\ pos >= id /\ range_min(pos) <= id)
          /\ pos # Done /\ pos <= range_max(id) /\ found.at = pos
      BY <1>5, <1>9
    <2>2. pos \in T /\ pos >= range_min(id) /\ pos \in Nat /\ range_min(pos) <= pos
      BY <1>3, <1>4, <2>1
    <2>3. contains(id, pos) /\ pos # id
      BY <1>2, <2>1, <2>2 DEF contains
    <2>4. \A c \in T : contains(id, c) => pos <= c
      BY <1>4 DEF contains
    <2> QED
      BY <2>1, <2>2, <2>3, <2>4
  <1>10. found.relation \in {"INDEXED", "SUBDIVIDED", "DISJOINT"}
    BY <1>5
  <1> QED
    BY <1>6, <1>7, <1>8, <1>9, <1>10 DEF found

-----------------------------------------------------------------------------
(* The numbers of a set in order.                                          *)

\* A number of the set is the entry whose place is one more than how many of
\* the set are before it, and every place has its number.
LEMMA InOrderHas ==
  ASSUME NEW n \in Nat, NEW S \in SUBSET (1 .. n), NEW j
  PROVE  /\ Contains(InOrder(S), j) <=> j \in S
         /\ InOrder(S) \in Seq(Nat)
  <1> DEFINE before(x) == { m \in S : m < x }
             count == [x \in S |-> Cardinality(before(x))]
             card == Cardinality(S)
  <1>1. IsFiniteSet(S) /\ card \in Nat
    <2>1. IsFiniteSet(1 .. n)
      BY FS_Interval
    <2> QED
      BY <2>1, FS_Subset, FS_CardinalityType
  <1>2. \A x \in S : /\ IsFiniteSet(before(x)) /\ Cardinality(before(x)) \in Nat
                     /\ Cardinality(before(x)) < card
    <2> TAKE x \in S
    <2>1. before(x) \in SUBSET S /\ x \notin before(x)
      BY DEF before
    <2>2. IsFiniteSet(before(x)) /\ Cardinality(before(x)) <= card
          /\ (card = Cardinality(before(x)) => S = before(x))
      BY <1>1, <2>1, FS_Subset
    <2>3. Cardinality(before(x)) \in Nat
      BY <2>2, FS_CardinalityType
    <2> QED
      BY <1>1, <2>1, <2>2, <2>3
  <1>3. \A x, y \in S : x < y => Cardinality(before(x)) < Cardinality(before(y))
    <2> TAKE x \in S, y \in S
    <2> HAVE x < y
    <2>1. before(x) \in SUBSET before(y)
      <3> SUFFICES ASSUME NEW m \in S, m < x PROVE m < y
        BY DEF before
      <3>1. m \in Nat /\ x \in Nat /\ y \in Nat
        OBVIOUS
      <3> QED
        BY <3>1
    <2>2. x \in before(y) /\ x \notin before(x)
      BY DEF before
    <2> HIDE DEF before
    <2>3. /\ Cardinality(before(x)) <= Cardinality(before(y))
          /\ (Cardinality(before(y)) = Cardinality(before(x)) => before(y) = before(x))
      BY <1>2, <2>1, FS_Subset
    <2>4. Cardinality(before(x)) \in Nat /\ Cardinality(before(y)) \in Nat
      BY <1>2
    <2> QED
      BY <2>2, <2>3, <2>4
  <1>4. \A x, y \in S : Cardinality(before(x)) = Cardinality(before(y)) => x = y
    <2> TAKE x \in S, y \in S
    <2>1. x < y \/ y < x \/ x = y
      OBVIOUS
    <2>2. Cardinality(before(x)) \in Nat /\ Cardinality(before(y)) \in Nat
      BY <1>2
    <2> HIDE DEF before
    <2> QED
      BY <1>3, <2>1, <2>2
  <1> HIDE DEF before
  <1>5. \A i \in 0 .. card - 1 : \E x \in S : Cardinality(before(x)) = i
    <2> DEFINE T == 0 .. card - 1
    <2>1. IsFiniteSet(T) /\ Cardinality(T) = card
      <3>1. card = 0 => T = {}
        BY DEF T
      <3>2. IsFiniteSet(T) /\ Cardinality(T) = (IF 0 > card - 1 THEN 0 ELSE (card - 1) - 0 + 1)
        BY <1>1, FS_Interval
      <3> QED
        BY <1>1, <3>2
    <2>2. count \in [S -> T]
      <3> SUFFICES ASSUME NEW x \in S PROVE Cardinality(before(x)) \in T
        BY DEF count
      <3> QED
        BY <1>1, <1>2
    <2>3. \A x, y \in S : count[x] = count[y] => x = y
      BY <1>4
    <2>4. \A x \in S : count[x] = Cardinality(before(x))
      OBVIOUS
    <2> HIDE DEF count, T
    <2>5. count \in Injection(S, T)
      BY <2>2, <2>3 DEF Injection, IsInjective
    <2>6. count \in Surjection(S, T)
      BY <1>1, <2>1, <2>5, FS_Injection
    <2> QED
      BY <2>4, <2>6 DEF Surjection, T
  <1> DEFINE at(i) == CHOOSE x \in S : Cardinality(before(x)) = i - 1
  <1>6. \A i \in 1 .. card : at(i) \in S /\ Cardinality(before(at(i))) = i - 1
    <2> TAKE i \in 1 .. card
    <2>1. i - 1 \in 0 .. card - 1
      BY <1>1
    <2> QED
      BY <1>5, <2>1
  <1>7. InOrder(S) = [i \in 1 .. card |-> at(i)]
    BY DEF InOrder, before
  <1> HIDE DEF at, card
  <1>8. ASSUME j \in S PROVE \E i \in 1 .. card : at(i) = j
    <2>1. PICK i \in 1 .. card : i - 1 = Cardinality(before(j))
      <3>1. Cardinality(before(j)) \in Nat /\ Cardinality(before(j)) < card
        BY <1>2, <1>8
      <3>2. Cardinality(before(j)) + 1 \in 1 .. card
        BY <1>1, <3>1
      <3> QED
        BY <3>1, <3>2
    <2> QED
      BY <1>4, <1>6, <1>8, <2>1
  <1>9. Len(InOrder(S)) = card
    BY <1>1, <1>7 DEF card
  <1>10. InOrder(S) \in Seq(Nat)
    <2>1. \A i \in 1 .. card : at(i) \in Nat
      <3> TAKE i \in 1 .. card
      <3>1. PICK x \in S : x = at(i)
        BY <1>6
      <3>2. x \in Nat
        OBVIOUS
      <3> QED
        BY <3>1, <3>2
    <2>2. card \in Nat
      BY <1>1 DEF card
    <2>3. [i \in 1 .. card |-> at(i)] \in [1 .. card -> Nat]
      BY <2>1
    <2> QED
      BY <1>7, <2>2, <2>3, IsASeq
  <1> QED
    BY <1>6, <1>7, <1>8, <1>9, <1>10 DEF Contains

-----------------------------------------------------------------------------
(* Finding a leaf cell through a covering.                                 *)

\* Whatever cell around a leaf cell of the region is looked up, the index cell
\* of that leaf cell is met.
LEMMA LocateMeets ==
  ASSUME NEW region, NEW T, IsTiling(T, region), NEW id \in CellIds,
         NEW leaf \in region, leaf \in Leaves(id)
  PROVE  LET found == Locate(T, id)
         IN  \/ /\ found.relation = "INDEXED" /\ found.at \in T
                /\ leaf \in Leaves(found.at)
             \/ /\ found.relation = "SUBDIVIDED"
                /\ \E c \in T : c >= found.at /\ contains(id, c) /\ leaf \in Leaves(c)
  <1>1. PICK c \in T : leaf \in Leaves(c)
    BY DEF IsTiling, Covers
  <1>2. c \in CellIds
    BY DEF IsTiling, Covers
  <1>3. CASE contains(c, id)
    BY <1>1, <1>3, LocateInside
  <1>4. CASE contains(id, c) /\ c # id
    <2> DEFINE found == Locate(T, id)
    <2>1. found.relation = "SUBDIVIDED" /\ found.at <= c /\ found.at \in T
      BY <1>4, LocateAround
    <2>2. found.at \in Nat /\ c \in Nat
      <3>1. found.at \in CellIds
        BY <2>1 DEF IsTiling, Covers
      <3> QED
        BY <1>2, <3>1, CellFacts
    <2> HIDE DEF found
    <2>3. c >= found.at
      BY <2>1, <2>2
    <2> QED
      BY <1>1, <1>4, <2>1, <2>3 DEF found
  <1>5. contains(id, id)
    BY CellFacts DEF contains
  <1> QED
    BY <1>1, <1>2, <1>3, <1>4, <1>5, CommonLeaf

\* The element of y that has a leaf cell of the covering is a candidate.
LEMMA QueryFinds ==
  ASSUME IsTiling(cells, Region(shapes)), NEW cov \in SUBSET CellIds,
         NEW id \in cov, NEW s \in DOMAIN shapes, NEW leaf \in shapes[s],
         leaf \in Leaves(id)
  PROVE  values_[s] \in Query(cov)
  <1>1. leaf \in Region(shapes)
    BY DEF Region
  <1>2. \A c : leaf \in Leaves(c) => values_[s] \in ValuesIn(c)
    BY DEF ValuesIn
  <1> DEFINE found == Locate(cells, id)
  <1>3. \/ /\ found.relation = "INDEXED" /\ found.at \in cells
           /\ leaf \in Leaves(found.at)
        \/ /\ found.relation = "SUBDIVIDED"
           /\ \E c \in cells : c >= found.at /\ contains(id, c) /\ leaf \in Leaves(c)
    BY <1>1, LocateMeets
  <1> HIDE DEF found
  <1>4. values_[s] \in QueryCell(id)
    <2>1. CASE found.relation = "INDEXED"
      BY <1>2, <1>3, <2>1 DEF QueryCell, found
    <2>2. CASE found.relation = "SUBDIVIDED"
      <3>1. PICK c \in cells : c >= found.at /\ contains(id, c) /\ leaf \in Leaves(c)
        BY <1>3, <2>2
      <3>2. values_[s] \in ValuesIn(c)
        BY <1>2, <3>1
      <3>3. QueryCell(id) =
              UNION { ValuesIn(d) : d \in { e \in cells : e >= found.at /\ contains(id, e) } }
        BY <2>2 DEF QueryCell, found
      <3> QED
        BY <3>1, <3>2, <3>3
    <2> QED
      BY <1>3, <2>1, <2>2
  <1> QED
    BY <1>4 DEF Query

\* Candidates are elements of y that have a shape.
LEMMA QueryWithin ==
  ASSUME NEW cov
  PROVE  Query(cov) \subseteq { values_[s] : s \in DOMAIN shapes }
  <1>1. \A c : ValuesIn(c) \subseteq { values_[s] : s \in DOMAIN shapes }
    BY DEF ValuesIn
  <1>2. \A id : QueryCell(id) \subseteq { values_[s] : s \in DOMAIN shapes }
    <2> TAKE id
    <2> DEFINE found == Locate(cells, id)
    <2>1. CASE found.relation = "INDEXED"
      BY <1>1, <2>1 DEF QueryCell
    <2>2. CASE found.relation = "SUBDIVIDED"
      BY <1>1, <2>2 DEF QueryCell
    <2>3. CASE found.relation # "INDEXED" /\ found.relation # "SUBDIVIDED"
      BY <2>3 DEF QueryCell
    <2> QED
      BY <2>1, <2>2, <2>3
  <1> QED
    BY <1>2 DEF Query

-----------------------------------------------------------------------------
(* The inductive invariant of the matrix operators.                        *)

\* What an element of the result may be.
Entries == {Nil} \cup Nat \cup Seq(Nat)

\* The arguments, and as much of y as has been added: none of it missing.
MatrixTypes ==
  /\ op \in Predicates \cup EdgeQueries
  /\ geog1 \in Seq(Geographies \cup {Nil})
  /\ geog2 \in BoundedSeq(Geographies \cup {Nil}, MaxY)
  /\ added \in 0 .. Len(geog2)
  /\ shapes \in Seq(SUBSET LeafIds) /\ values_ \in Seq(Nat) /\ Len(values_) = Len(shapes)
  /\ built \in BOOLEAN
  /\ output \in Seq(Entries) /\ Len(output) <= Len(geog1)
  /\ \A j \in 1 .. added : geog2[j] \in Geographies

\* The index has the leaf cells of what has been added and no others, each under
\* the number of its element.
ShapesAreAdded ==
  /\ \A s \in DOMAIN shapes :
       values_[s] < added /\ shapes[s] \subseteq Region(geog2[values_[s] + 1])
  /\ \A j \in 1 .. added : \A leaf \in Region(geog2[j]) :
       \E s \in DOMAIN shapes : values_[s] = j - 1 /\ leaf \in shapes[s]

\* Nothing is answered before the index has its cells, which come last.
CellsAreBuilt ==
  /\ built => added = Len(geog2) /\ IsTiling(cells, Region(shapes))
  /\ output # <<>> => built

MatrixInv == MatrixTypes /\ ShapesAreAdded /\ CellsAreBuilt /\ MatrixExact

\* Distances do not depend on the direction, and there is a greatest one.
LEMMA DistanceFacts ==
  ASSUME NEW a \in LeafIds, NEW b \in LeafIds
  PROVE  Distance(a, b) = Distance(b, a) /\ Distance(a, b) \in 0 .. Done
  <1>1. a \in Nat /\ b \in Nat /\ Done \in Nat /\ a < Done /\ b < Done
    BY LeavesAreCells, CellFacts
  <1>2. \A n \in 0 .. Done : n \div 2 \in 0 .. Done
    BY <1>1
  <1>3. CASE a < b
    <2>1. b - a \in 0 .. Done
      BY <1>1, <1>3
    <2> QED
      BY <1>1, <1>2, <1>3, <2>1 DEF Distance
  <1>4. CASE ~(a < b)
    <2>1. a - b \in 0 .. Done
      BY <1>1, <1>4
    <2>2. b < a \/ a = b
      BY <1>1, <1>4
    <2> QED
      BY <1>1, <1>2, <1>4, <2>1, <2>2 DEF Distance
  <1> QED
    BY <1>3, <1>4

\* A leaf cell near a region is in the region's buffer.
LEMMA NearIsBuffered ==
  ASSUME NEW r1 \in SUBSET LeafIds, NEW a \in r1, NEW b \in LeafIds, NEW d, Distance(a, b) <= d
  PROVE  b \in Buffered(r1, d)
  BY DistanceFacts DEF Buffered

LEMMA RegionsOfLeaves ==
  ASSUME NEW g \in Geographies
  PROVE  g \in Seq(SUBSET LeafIds) /\ Region(g) \subseteq LeafIds /\ g # Nil
  <1>1. g \in Seq(SUBSET LeafIds)
    BY GeographiesTouchLeaves
  <1>2. \A k \in DOMAIN g : g[k] \in SUBSET LeafIds
    BY <1>1
  <1>3. Region(g) \subseteq LeafIds
    BY <1>2 DEF Region
  <1> QED
    BY <1>1, <1>3, NilIsNoGeography

\* What is not empty and satisfies a predicate shares a leaf cell with what is
\* searched for.
LEMMA PredicateShares ==
  ASSUME NEW g \in Geographies, NEW h \in Geographies, op \in Predicates,
         Region(h) # {}, ActuallyIntersects(Region(g), Region(h))
  PROVE  \E leaf \in Region(h) : leaf \in Searched(op, g)
  <1> DEFINE r1 == Region(g)
             r2 == Region(h)
  <1>1. r1 \subseteq LeafIds /\ r2 \subseteq LeafIds
    BY RegionsOfLeaves
  <1>2. CASE op = "dwithin"
    <2>1. PICK a \in r1, b \in r2 : Distance(a, b) <= MatrixDistance
      BY <1>2 DEF ActuallyIntersects, IsDistanceLessOrEqual
    <2>2. b \in Buffered(r1, MatrixDistance)
      BY <1>1, <2>1, NearIsBuffered
    <2> QED
      BY <1>2, <2>2 DEF Searched
  <1>3. CASE op = "contains"
    BY <1>3 DEF ActuallyIntersects, s2_contains, Searched
  <1>4. CASE op = "within"
    BY <1>4 DEF ActuallyIntersects, s2_contains, Searched
  <1>5. CASE op \in {"intersects", "disjoint"}
    BY <1>5 DEF ActuallyIntersects, s2_intersects, Searched
  <1>6. CASE op = "equals"
    BY <1>6 DEF ActuallyIntersects, s2_equals, Searched
  <1> QED
    BY <1>2, <1>3, <1>4, <1>5, <1>6 DEF Predicates

\* The elements of y, once all have been added.
LEMMA AllAdded ==
  ASSUME MatrixTypes, added = Len(geog2)
  PROVE  /\ geog2 \in BoundedSeq(Geographies, MaxY)
         /\ Len(geog2) \in Nat /\ DOMAIN geog2 = 1 .. Len(geog2)
         /\ \A j \in DOMAIN geog2 : geog2[j] \in Geographies
  <1>1. PICK m \in 0 .. MaxY : geog2 \in [1 .. m -> Geographies \cup {Nil}]
    BY DEF MatrixTypes, BoundedSeq, SeqOf
  <1>2. m \in Nat
    OBVIOUS
  <1>3. Len(geog2) = m /\ DOMAIN geog2 = 1 .. m
    BY <1>1, <1>2
  <1>4. \A j \in 1 .. m : geog2[j] \in Geographies
    BY <1>3 DEF MatrixTypes
  <1>5. geog2 \in [1 .. m -> Geographies]
    BY <1>1, <1>4
  <1> QED
    BY <1>2, <1>3, <1>4, <1>5 DEF BoundedSeq, SeqOf

\* A covering of what is searched for leads to every element that has a leaf
\* cell there.
LEMMA SearchFinds ==
  ASSUME MatrixTypes, ShapesAreAdded, CellsAreBuilt, built, op \in Predicates,
         NEW g \in Geographies, NEW cov \in Coverings(Searched(op, g)),
         NEW j \in DOMAIN geog2, Region(geog2[j]) # {},
         ActuallyIntersects(Region(g), Region(geog2[j]))
  PROVE  j - 1 \in Query(cov)
  <1>1. /\ added = Len(geog2) /\ IsTiling(cells, Region(shapes))
        /\ j \in 1 .. added /\ geog2[j] \in Geographies
    BY AllAdded DEF CellsAreBuilt
  <1>2. PICK leaf \in Region(geog2[j]) : leaf \in Searched(op, g)
    BY <1>1, PredicateShares
  <1>3. cov \in SUBSET CellIds /\ \E id \in cov : leaf \in Leaves(id)
    BY <1>2, CoveringsCover DEF Covers
  <1>4. PICK id \in cov : leaf \in Leaves(id)
    BY <1>3
  <1>5. PICK s \in DOMAIN shapes : values_[s] = j - 1 /\ leaf \in shapes[s]
    BY <1>1 DEF ShapesAreAdded
  <1> QED
    BY <1>1, <1>3, <1>4, <1>5, QueryFinds

\* The indices that an indexed predicate gives.
LEMMA EntryHas ==
  ASSUME MatrixTypes, ShapesAreAdded, CellsAreBuilt, built, op \in Predicates,
         Current \in Geographies, NEW cov \in Coverings(Searched(op, Current))
  PROVE  /\ MatrixEntry(cov) \in Seq(Nat)
         /\ \A j \in DOMAIN geog2 : Region(geog2[j]) # {} =>
              (Contains(MatrixEntry(cov), j)
                 <=> ActuallyIntersects(Region(Current), Region(geog2[j])))
  <1> DEFINE Right(j) == ActuallyIntersects(Region(Current), Region(geog2[j]))
             found == { k \in Query(cov) : Right(k + 1) }
             S == { j + 1 : j \in found }
  <1>1. /\ added = Len(geog2) /\ Len(geog2) \in Nat
        /\ DOMAIN geog2 = 1 .. Len(geog2)
    BY AllAdded DEF CellsAreBuilt
  <1>2. found \subseteq 0 .. Len(geog2) - 1
    <2> SUFFICES ASSUME NEW k \in Query(cov) PROVE k \in 0 .. Len(geog2) - 1
      OBVIOUS
    <2>1. PICK s \in DOMAIN shapes : k = values_[s]
      BY QueryWithin
    <2>2. values_[s] \in Nat
      BY <2>1 DEF MatrixTypes
    <2>3. values_[s] < added
      BY DEF ShapesAreAdded
    <2> QED
      BY <1>1, <2>1, <2>2, <2>3
  <1>3. S \in SUBSET (1 .. Len(geog2))
    <2> HIDE DEF found
    <2> SUFFICES ASSUME NEW k \in found PROVE k + 1 \in 1 .. Len(geog2)
      OBVIOUS
    <2>1. k \in 0 .. Len(geog2) - 1
      BY <1>2
    <2> QED
      BY <1>1, <2>1
  <1>4. MatrixEntry(cov) = InOrder(S)
    BY DEF MatrixEntry
  <1>5. \A j \in DOMAIN geog2 : Region(geog2[j]) # {} => (j \in S <=> Right(j))
    <2> TAKE j \in DOMAIN geog2
    <2> HAVE Region(geog2[j]) # {}
    <2>1. j \in 1 .. Len(geog2)
      BY <1>1
    <2>2. ASSUME j \in S PROVE Right(j)
      <3>1. PICK k \in found : j = k + 1
        BY <2>2
      <3> QED
        BY <3>1
    <2>3. ASSUME Right(j) PROVE j \in S
      <3>1. j - 1 \in Query(cov)
        BY <2>3, SearchFinds
      <3>2. (j - 1) + 1 = j
        BY <1>1, <2>1
      <3>3. j - 1 \in found
        BY <2>3, <3>1, <3>2
      <3> QED
        BY <3>2, <3>3
    <2> QED
      BY <2>2, <2>3
  <1> HIDE DEF S, found
  <1>6. \A j : (Contains(InOrder(S), j) <=> j \in S) /\ InOrder(S) \in Seq(Nat)
    BY <1>1, <1>3, InOrderHas
  <1> QED
    BY <1>4, <1>5, <1>6

\* What s2_disjoint_matrix makes of indices.
LEMMA DisjointHas ==
  ASSUME MatrixTypes, NEW indices, NEW j \in DOMAIN geog2,
         indices \in Seq(Nat)
  PROVE  /\ Disjoint(indices) \in Seq(Nat)
         /\ Contains(Disjoint(indices), j) <=> ~Contains(indices, j)
  <1> DEFINE S == DOMAIN geog2 \ { indices[k] : k \in DOMAIN indices }
  <1>1. DOMAIN geog2 = 1 .. Len(geog2) /\ Len(geog2) \in Nat
    <2>1. PICK m \in 0 .. MaxY : geog2 \in [1 .. m -> Geographies \cup {Nil}]
      BY DEF MatrixTypes, BoundedSeq, SeqOf
    <2> QED
      BY <2>1
  <1>2. S \in SUBSET (1 .. Len(geog2))
    BY <1>1
  <1>3. DOMAIN indices = 1 .. Len(indices)
    OBVIOUS
  <1>4. j \in S <=> ~Contains(indices, j)
    BY <1>3 DEF Contains
  <1>5. Disjoint(indices) = InOrder(S)
    BY DEF Disjoint
  <1> HIDE DEF S
  <1> QED
    BY <1>1, <1>2, <1>4, <1>5, InOrderHas

\* An entry of an indexed predicate agrees with the comparison with all of y.
LEMMA PredicateEntryRight ==
  ASSUME MatrixTypes, ShapesAreAdded, CellsAreBuilt, built, op \in Predicates,
         Current \in Geographies, NEW cov \in Coverings(Searched(op, Current)),
         NEW entry,
         entry = IF op = "disjoint" THEN Disjoint(MatrixEntry(cov)) ELSE MatrixEntry(cov)
  PROVE  /\ entry \in Seq(Nat)
         /\ \A j \in DOMAIN geog2 : Region(geog2[j]) # {} =>
              (Contains(entry, j) <=> Contains(BruteForce(Current), j))
  <1> DEFINE found == MatrixEntry(cov)
             Right(j) == ActuallyIntersects(Region(Current), Region(geog2[j]))
             indices == { j \in DOMAIN geog2 : Right(j) }
             S == IF op = "disjoint" THEN DOMAIN geog2 \ indices ELSE indices
  <1>1. /\ found \in Seq(Nat)
        /\ \A j \in DOMAIN geog2 : Region(geog2[j]) # {} => (Contains(found, j) <=> Right(j))
    BY EntryHas
  <1>2. Len(geog2) \in Nat /\ DOMAIN geog2 = 1 .. Len(geog2)
    BY AllAdded DEF CellsAreBuilt
  <1>3. S \in SUBSET (1 .. Len(geog2))
    BY <1>2
  <1>4. BruteForce(Current) = InOrder(S)
    BY NilIsNoGeography DEF BruteForce
  <1>5. \A j \in DOMAIN geog2 : j \in S <=> (IF op = "disjoint" THEN ~Right(j) ELSE Right(j))
    OBVIOUS
  <1> HIDE DEF S
  <1>6. \A j : Contains(InOrder(S), j) <=> j \in S
    BY <1>2, <1>3, InOrderHas
  <1> HIDE DEF found, Right
  <1>7. CASE op = "disjoint"
    <2>1. entry = Disjoint(found)
      BY <1>7 DEF found
    <2>2. \A j \in DOMAIN geog2 :
            entry \in Seq(Nat) /\ (Contains(entry, j) <=> ~Contains(found, j))
      BY <1>1, <2>1, DisjointHas
    <2>3. entry \in Seq(Nat)
      <3>1. InOrder(DOMAIN geog2 \ { found[k] : k \in DOMAIN found }) \in Seq(Nat)
        BY <1>2, InOrderHas
      <3> QED
        BY <2>1, <3>1 DEF Disjoint
    <2> QED
      BY <1>1, <1>4, <1>5, <1>6, <1>7, <2>2, <2>3
  <1>8. CASE op # "disjoint"
    <2>1. entry = found
      BY <1>8 DEF found
    <2> QED
      BY <1>1, <1>4, <1>5, <1>6, <1>8, <2>1
  <1> QED
    BY <1>7, <1>8

\* A set of distances, if it is not empty, has a least and a greatest one.
LEMMA ExtremeIsReached ==
  ASSUME NEW S \in SUBSET (0 .. Done), S # {}
  PROVE  Min(S) \in S /\ Max(S) \in S
  <1>1. Done \in Nat
    <2>1. FaceSize \in Nat
      BY LsbRatio, LevelAssumption
    <2> QED
      BY <2>1, FacesAssumption DEF Done
  <1>2. S \subseteq Nat
    OBVIOUS
  <1> QED
    BY <1>1, <1>2, LeastIsMin, GreatestIsMax

\* The distances to the shapes of the index are those to the elements of y.
LEMMA BestShapeIsBest ==
  ASSUME MatrixTypes, ShapesAreAdded, CellsAreBuilt, built, NEW g \in Geographies, g = Current
  PROVE  /\ ToAny(g) = {} => BestShapes = {}
         /\ ToAny(g) # {} => /\ BestShapes # {}
                             /\ \A s \in BestShapes :
                                  values_[s] + 1 \in DOMAIN geog2 /\ Extreme(g) \in ToElement(g, values_[s] + 1)
  <1> DEFINE Far(j) == ToElement(g, j)
             all == ToAny(g)
             ds == [s \in DOMAIN shapes |-> { Distance(a, b) : a \in shapes[s], b \in Region(g) }]
             near == UNION { ds[s] : s \in DOMAIN shapes }
             best == IF op = "closest_feature" THEN Min(near) ELSE Max(near)
  <1>1. /\ added = Len(geog2) /\ Len(geog2) \in Nat /\ DOMAIN geog2 = 1 .. Len(geog2)
        /\ \A j \in DOMAIN geog2 : geog2[j] \in Geographies
    BY AllAdded DEF CellsAreBuilt
  <1>2. \A j \in DOMAIN geog2 : Region(geog2[j]) \subseteq LeafIds
    BY <1>1, RegionsOfLeaves
  <1>3. Region(g) \subseteq LeafIds
    BY RegionsOfLeaves
  <1>4. \A s \in DOMAIN shapes : /\ values_[s] + 1 \in DOMAIN geog2
                                 /\ shapes[s] \subseteq Region(geog2[values_[s] + 1])
    <2> TAKE s \in DOMAIN shapes
    <2>1. values_[s] \in Nat /\ values_[s] < added
      BY DEF MatrixTypes, ShapesAreAdded
    <2> QED
      BY <1>1, <2>1 DEF ShapesAreAdded
  <1>5. \A s \in DOMAIN shapes : ds[s] \subseteq Far(values_[s] + 1)
    <2> TAKE s \in DOMAIN shapes
    <2> SUFFICES ASSUME NEW a \in shapes[s], NEW b \in Region(g)
                 PROVE  Distance(a, b) \in Far(values_[s] + 1)
      OBVIOUS
    <2>1. a \in Region(geog2[values_[s] + 1]) /\ a \in LeafIds /\ b \in LeafIds
      BY <1>2, <1>3, <1>4
    <2>2. Distance(a, b) = Distance(b, a)
      BY <2>1, DistanceFacts
    <2> QED
      BY <2>1, <2>2 DEF ToElement
  <1>6. \A j \in DOMAIN geog2 : Far(j) \subseteq near
    <2> TAKE j \in DOMAIN geog2
    <2> SUFFICES ASSUME NEW a \in Region(g), NEW b \in Region(geog2[j])
                 PROVE  Distance(a, b) \in near
      BY DEF ToElement
    <2>1. PICK s \in DOMAIN shapes : b \in shapes[s]
      BY <1>1 DEF ShapesAreAdded
    <2>2. Distance(a, b) = Distance(b, a)
      BY <1>2, <1>3, DistanceFacts
    <2>3. Distance(b, a) \in ds[s]
      BY <2>1
    <2> QED
      BY <2>2, <2>3
  <1>7. near = all
    <2> HIDE DEF Far, ds
    <2>1. near \subseteq all
      BY <1>4, <1>5 DEF ToAny, Far
    <2>2. all \subseteq near
      <3> HIDE DEF near
      <3> QED
        BY <1>6 DEF ToAny, Far
    <2> QED
      BY <2>1, <2>2
  <1>8. all \subseteq 0 .. Done
    <2> SUFFICES ASSUME NEW j \in DOMAIN geog2, NEW a \in Region(g), NEW b \in Region(geog2[j])
                 PROVE  Distance(a, b) \in 0 .. Done
      BY DEF ToAny, ToElement
    <2> QED
      BY <1>2, <1>3, DistanceFacts
  <1>9. BestShapes = IF near = {} THEN {} ELSE { s \in DOMAIN shapes : best \in ds[s] }
    BY DEF BestShapes
  <1> HIDE DEF Far, ds
  <1>10. all # {} => best \in near
    <2> HIDE DEF all, near
    <2> QED
      BY <1>7, <1>8, ExtremeIsReached
  <1>11. all # {} => \E s \in DOMAIN shapes : best \in ds[s]
    <2> HIDE DEF all, best
    <2> QED
      BY <1>10
  <1>12. best = Extreme(g)
    <2> HIDE DEF near
    <2> QED
      BY <1>7 DEF Extreme
  <1> HIDE DEF near, best, all
  <1>13. all = {} => BestShapes = {}
    BY <1>7, <1>9
  <1>14. ASSUME all # {}
         PROVE  /\ BestShapes # {}
                /\ \A s \in BestShapes : values_[s] + 1 \in DOMAIN geog2 /\ best \in Far(values_[s] + 1)
    <2>1. BestShapes = { s \in DOMAIN shapes : best \in ds[s] }
      BY <1>7, <1>9, <1>14
    <2> QED
      BY <1>4, <1>5, <1>11, <1>14, <2>1
  <1> QED
    BY <1>12, <1>13, <1>14 DEF all, Far

\* What is asked of the entry of one element of x.
PredicateIsRight(g, entry) ==
  op \in Predicates =>
    \A j \in DOMAIN geog2 : Region(geog2[j]) # {} =>
      (Contains(entry, j) <=> Contains(BruteForce(g), j))
FeatureIsRight(g, entry) ==
  op \in EdgeQueries =>
    IF ToAny(g) = {} THEN entry = Nil
    ELSE entry \in DOMAIN geog2 /\ Extreme(g) \in ToElement(g, entry)

LEMMA ExactByEntry ==
  MatrixExact <=>
    \A i \in DOMAIN output : geog1[i] # Nil =>
      PredicateIsRight(geog1[i], output[i]) /\ FeatureIsRight(geog1[i], output[i])
  <1>1. IndexedFindsAll <=>
          \A i \in DOMAIN output : geog1[i] # Nil => PredicateIsRight(geog1[i], output[i])
    BY DEF IndexedFindsAll, PredicateIsRight
  <1>2. FeatureIsExtreme <=>
          \A i \in DOMAIN output : geog1[i] # Nil => FeatureIsRight(geog1[i], output[i])
    BY DEF FeatureIsExtreme, FeatureIsRight
  <1> QED
    BY <1>1, <1>2 DEF MatrixExact

\* An answer that is right is added to the right answers before it.
LEMMA ReturnKeeps ==
  ASSUME MatrixInv, Pending, NEW entry \in Entries, Return(entry),
         Current # Nil => PredicateIsRight(Current, entry) /\ FeatureIsRight(Current, entry)
  PROVE  MatrixInv'
  <1> DEFINE n == Len(output)
  <1>1. /\ output \in Seq(Entries) /\ n \in Nat /\ DOMAIN output = 1 .. n
        /\ geog1 \in Seq(Geographies \cup {Nil}) /\ Len(geog1) \in Nat /\ n < Len(geog1)
    BY DEF MatrixInv, MatrixTypes, Pending
  <1>2. /\ output' \in Seq(Entries) /\ Len(output') = n + 1 /\ DOMAIN output' = 1 .. n + 1
        /\ output'[n + 1] = entry /\ \A i \in 1 .. n : output'[i] = output[i]
    BY <1>1 DEF Return
  <1>3. UNCHANGED <<op, geog1, geog2, added, shapes, values_, cells, built, stopped>>
    BY DEF Return
  <1>4. MatrixTypes'
    BY <1>1, <1>2, <1>3 DEF MatrixInv, MatrixTypes
  <1>5. ShapesAreAdded'
    BY <1>3 DEF MatrixInv, ShapesAreAdded
  <1>6. CellsAreBuilt'
    BY <1>3 DEF MatrixInv, CellsAreBuilt, Pending
  <1>7. \A i \in 1 .. n + 1 : geog1[i] # Nil =>
          PredicateIsRight(geog1[i], output'[i]) /\ FeatureIsRight(geog1[i], output'[i])
    <2> TAKE i \in 1 .. n + 1
    <2> HAVE geog1[i] # Nil
    <2>1. CASE i = n + 1
      BY <1>2, <2>1 DEF Current
    <2>2. CASE i # n + 1
      <3>1. i \in 1 .. n
        BY <1>1, <2>2
      <3> QED
        BY <1>1, <1>2, <3>1, ExactByEntry DEF MatrixInv
    <2> QED
      BY <2>1, <2>2
  <1>8. MatrixExact'
    <2>1. \A g : BruteForce(g)' = BruteForce(g)
      BY <1>3 DEF BruteForce, ActuallyIntersects
    <2>2. \A i \in DOMAIN output' : geog1'[i] # Nil =>
            PredicateIsRight(geog1[i], output'[i]) /\ FeatureIsRight(geog1[i], output'[i])
      BY <1>2, <1>3, <1>7
    <2>3. IndexedFindsAll'
      BY <1>3, <2>1, <2>2 DEF IndexedFindsAll, PredicateIsRight
    <2>4. FeatureIsExtreme'
      <3>1. \A g, j : ToElement(g, j)' = ToElement(g, j)
        BY <1>3 DEF ToElement
      <3>2. \A g : ToAny(g)' = ToAny(g)
        BY <1>3 DEF ToAny, ToElement
      <3>3. \A g : Extreme(g)' = Extreme(g)
        BY <1>3, <3>2 DEF Extreme
      <3> QED
        BY <1>3, <2>2, <3>1, <3>2, <3>3 DEF FeatureIsExtreme, FeatureIsRight
    <2> QED
      BY <2>3, <2>4 DEF MatrixExact
  <1> QED
    BY <1>4, <1>5, <1>6, <1>8 DEF MatrixInv

LEMMA NothingAnswered ==
  ASSUME output = <<>>
  PROVE  MatrixExact
  BY DEF MatrixExact, IndexedFindsAll, FeatureIsExtreme

LEMMA AddKeeps ==
  ASSUME MatrixInv, AddNext
  PROVE  MatrixInv'
  <1>1. /\ ~built /\ output = <<>> /\ added < Len(geog2) /\ added \in Nat /\ Len(geog2) \in Nat
        /\ UNCHANGED <<op, geog1, geog2, cells, built, output>>
    <2>1. PICK m \in 0 .. MaxY : geog2 \in [1 .. m -> Geographies \cup {Nil}]
      BY DEF MatrixInv, MatrixTypes, BoundedSeq, SeqOf
    <2>2. Len(geog2) \in Nat
      BY <2>1
    <2> QED
      BY <2>2 DEF MatrixInv, MatrixTypes, CellsAreBuilt, AddNext
  <1>2. MatrixExact'
    BY <1>1 DEF MatrixExact, IndexedFindsAll, FeatureIsExtreme
  <1>3. CellsAreBuilt'
    BY <1>1 DEF CellsAreBuilt
  <1>4. CASE geog2[added + 1] = Nil
    <2>1. UNCHANGED <<added, shapes, values_>>
      BY <1>4 DEF AddNext
    <2>2. MatrixTypes'
      BY <1>1, <2>1 DEF MatrixInv, MatrixTypes
    <2>3. ShapesAreAdded'
      BY <1>1, <2>1 DEF MatrixInv, ShapesAreAdded
    <2> QED
      BY <1>2, <1>3, <2>2, <2>3 DEF MatrixInv
  <1>5. CASE geog2[added + 1] # Nil
    <2> DEFINE g == geog2[added + 1]
               n == Len(shapes)
               k == Len(g)
               v == [i \in DOMAIN g |-> added]
    <2>1. shapes' = shapes \o g /\ values_' = values_ \o v /\ added' = added + 1
      BY <1>5 DEF AddNext, IndexAdd
    <2>2. g \in Geographies
      <3>1. PICK m \in 0 .. MaxY : geog2 \in [1 .. m -> Geographies \cup {Nil}]
        BY DEF MatrixInv, MatrixTypes, BoundedSeq, SeqOf
      <3>2. added + 1 \in 1 .. m
        BY <1>1, <3>1
      <3> QED
        BY <1>5, <3>1, <3>2
    <2>3. g \in Seq(SUBSET LeafIds) /\ k \in Nat /\ DOMAIN g = 1 .. k
      BY <2>2, RegionsOfLeaves
    <2>4. v \in Seq(Nat) /\ Len(v) = k /\ \A i \in 1 .. k : v[i] = added
      <3>1. v \in [1 .. k -> Nat]
        BY <1>1, <2>3
      <3> QED
        BY <2>3, <3>1
    <2>5. /\ shapes \in Seq(SUBSET LeafIds) /\ values_ \in Seq(Nat)
          /\ n \in Nat /\ Len(values_) = n /\ DOMAIN shapes = 1 .. n
      BY DEF MatrixInv, MatrixTypes
    <2> HIDE DEF g, v
    <2>6. /\ shapes' \in Seq(SUBSET LeafIds) /\ Len(shapes') = n + k
          /\ DOMAIN shapes' = 1 .. n + k
          /\ \A s \in 1 .. n + k : shapes'[s] = IF s <= n THEN shapes[s] ELSE g[s - n]
      BY <2>1, <2>3, <2>5, ConcatProperties
    <2>7. /\ values_' \in Seq(Nat) /\ Len(values_') = n + k
          /\ \A s \in 1 .. n + k : values_'[s] = IF s <= n THEN values_[s] ELSE added
      <3>1. /\ values_' \in Seq(Nat) /\ Len(values_') = n + k
            /\ \A s \in 1 .. n + k : values_'[s] = IF s <= n THEN values_[s] ELSE v[s - n]
        <4> HIDE DEF n, k
        <4> QED
          BY <2>1, <2>4, <2>5, ConcatProperties
      <3>2. \A s \in 1 .. n + k : ~(s <= n) => s - n \in 1 .. k
        BY <2>3, <2>5
      <3> QED
        BY <2>4, <3>1, <3>2
    <2>8. MatrixTypes'
      <3>1. added' \in 0 .. Len(geog2')
        BY <1>1, <2>1
      <3>2. \A j \in 1 .. added' : geog2'[j] \in Geographies
        <4> TAKE j \in 1 .. added'
        <4>1. j \in 1 .. added \/ j = added + 1
          BY <1>1, <2>1
        <4> QED
          BY <1>1, <2>2, <4>1 DEF MatrixInv, MatrixTypes, g
      <3>3. Len(values_') = Len(shapes')
        BY <2>6, <2>7
      <3> QED
        BY <1>1, <2>6, <2>7, <3>1, <3>2, <3>3 DEF MatrixInv, MatrixTypes
    <2>9. \A s \in DOMAIN shapes' :
            values_'[s] < added' /\ shapes'[s] \subseteq Region(geog2[values_'[s] + 1])
      <3> TAKE s \in DOMAIN shapes'
      <3>1. s \in 1 .. n + k
        BY <2>6
      <3>2. CASE s <= n
        <4>1. s \in 1 .. n
          BY <2>3, <2>5, <3>1, <3>2
        <4>2. values_[s] \in Nat /\ values_[s] < added /\ shapes[s] \subseteq Region(geog2[values_[s] + 1])
          BY <2>5, <4>1 DEF MatrixInv, ShapesAreAdded
        <4>3. values_'[s] = values_[s] /\ shapes'[s] = shapes[s]
          BY <2>6, <2>7, <3>1, <3>2
        <4> QED
          BY <1>1, <2>1, <4>2, <4>3
      <3>3. CASE ~(s <= n)
        <4>1. s - n \in 1 .. k
          BY <2>3, <2>5, <3>1, <3>3
        <4>2. g[s - n] \subseteq Region(g)
          BY <2>3, <4>1 DEF Region
        <4>3. values_'[s] = added /\ shapes'[s] = g[s - n]
          BY <2>6, <2>7, <3>1, <3>3
        <4> QED
          BY <1>1, <2>1, <4>2, <4>3 DEF g
      <3> QED
        BY <3>2, <3>3
    <2>10. \A j \in 1 .. added' : \A leaf \in Region(geog2[j]) :
             \E s \in DOMAIN shapes' : values_'[s] = j - 1 /\ leaf \in shapes'[s]
      <3> TAKE j \in 1 .. added'
      <3> TAKE leaf \in Region(geog2[j])
      <3>1. CASE j \in 1 .. added
        <4>1. PICK s \in DOMAIN shapes : values_[s] = j - 1 /\ leaf \in shapes[s]
          BY <3>1 DEF MatrixInv, ShapesAreAdded
        <4>2. s \in 1 .. n + k /\ s <= n
          BY <2>3, <2>5
        <4> QED
          BY <2>6, <2>7, <4>1, <4>2
      <3>2. CASE j = added + 1
        <4>1. PICK i \in 1 .. k : leaf \in g[i]
          BY <2>3, <3>2 DEF Region, g
        <4>2. n + i \in 1 .. n + k /\ ~(n + i <= n) /\ (n + i) - n = i
          BY <2>3, <2>5
        <4>3. values_'[n + i] = added /\ shapes'[n + i] = g[i]
          BY <2>6, <2>7, <4>2
        <4>4. j - 1 = added
          BY <1>1, <3>2
        <4> QED
          BY <2>6, <4>1, <4>2, <4>3, <4>4
      <3>3. j \in 1 .. added \/ j = added + 1
        BY <1>1, <2>1
      <3> QED
        BY <3>1, <3>2, <3>3
    <2>11. ShapesAreAdded'
      BY <1>1, <2>9, <2>10 DEF ShapesAreAdded
    <2> QED
      BY <1>2, <1>3, <2>8, <2>11 DEF MatrixInv
  <1> QED
    BY <1>4, <1>5

LEMMA BuildKeeps ==
  ASSUME MatrixInv, BuildCells
  PROVE  MatrixInv'
  <1>1. /\ output = <<>> /\ added = Len(geog2) /\ built' = TRUE
        /\ cells' \in IndexCells(Region(shapes))
        /\ UNCHANGED <<op, geog1, geog2, added, shapes, values_, output, stopped>>
    BY DEF MatrixInv, CellsAreBuilt, BuildCells
  <1> DEFINE all == UNION { Region(geog2[j]) : j \in DOMAIN geog2 }
  <1>2. /\ geog2 \in BoundedSeq(Geographies, MaxY) /\ Len(geog2) \in Nat
        /\ DOMAIN geog2 = 1 .. Len(geog2)
    BY <1>1, AllAdded DEF MatrixInv
  <1>3. Region(shapes) = all
    <2>1. ASSUME NEW s \in DOMAIN shapes PROVE shapes[s] \subseteq all
      <3>1. values_[s] \in Nat /\ values_[s] < added
        BY <2>1 DEF MatrixInv, MatrixTypes, ShapesAreAdded
      <3>2. values_[s] + 1 \in DOMAIN geog2
        BY <1>1, <1>2, <3>1
      <3>3. shapes[s] \subseteq Region(geog2[values_[s] + 1])
        BY <2>1 DEF MatrixInv, ShapesAreAdded
      <3> QED
        BY <3>2, <3>3
    <2>2. ASSUME NEW j \in DOMAIN geog2, NEW leaf \in Region(geog2[j])
          PROVE  \E s \in DOMAIN shapes : leaf \in shapes[s]
      <3>1. j \in 1 .. added
        BY <1>1, <1>2, <2>2
      <3> QED
        BY <3>1 DEF MatrixInv, ShapesAreAdded
    <2>3. Region(shapes) \subseteq all
      <3> HIDE DEF all
      <3> QED
        BY <2>1 DEF Region
    <2>4. all \subseteq Region(shapes)
      <3> SUFFICES ASSUME NEW j \in DOMAIN geog2, NEW leaf \in Region(geog2[j])
                   PROVE  leaf \in Region(shapes)
        OBVIOUS
      <3>1. PICK s \in DOMAIN shapes : leaf \in shapes[s]
        BY <2>2
      <3> QED
        BY <3>1 DEF Region
    <2> QED
      BY <2>3, <2>4
  <1>4. \A T \in IndexCells(all) : IsTiling(T, all)
    BY <1>2, CellsDivideRegion
  <1> HIDE DEF all
  <1>5. IsTiling(cells', Region(shapes))
    BY <1>1, <1>3, <1>4
  <1>6. CellsAreBuilt'
    BY <1>1, <1>5 DEF CellsAreBuilt
  <1>7. MatrixTypes'
    BY <1>1 DEF MatrixInv, MatrixTypes
  <1>8. ShapesAreAdded'
    BY <1>1 DEF MatrixInv, ShapesAreAdded
  <1>9. MatrixExact'
    BY <1>1 DEF MatrixExact, IndexedFindsAll, FeatureIsExtreme
  <1> QED
    BY <1>6, <1>7, <1>8, <1>9 DEF MatrixInv

LEMMA CurrentIsGeography ==
  ASSUME MatrixInv, Pending, Current # Nil
  PROVE  Current \in Geographies
  <1>1. /\ output \in Seq(Entries) /\ geog1 \in Seq(Geographies \cup {Nil})
        /\ Len(output) < Len(geog1)
    BY DEF MatrixInv, MatrixTypes, Pending
  <1>2. Len(output) + 1 \in 1 .. Len(geog1)
    BY <1>1
  <1> QED
    BY <1>1, <1>2 DEF Current

LEMMA MissingKeeps ==
  ASSUME MatrixInv, ProcessMissing
  PROVE  MatrixInv'
  <1> DEFINE entry == IF op = "disjoint" THEN Disjoint(<<>>) ELSE Nil
  <1>1. Pending /\ Current = Nil /\ Return(entry)
    BY DEF ProcessMissing
  <1>2. entry \in Entries
    <2>1. PICK m \in 0 .. MaxY : geog2 \in [1 .. m -> Geographies \cup {Nil}]
      BY DEF MatrixInv, MatrixTypes, BoundedSeq, SeqOf
    <2>2. m \in Nat /\ DOMAIN geog2 = 1 .. m
      BY <2>1
    <2> DEFINE S == DOMAIN geog2 \ { <<>>[k] : k \in DOMAIN <<>> }
    <2>3. S \in SUBSET (1 .. m)
      BY <2>2
    <2>4. Disjoint(<<>>) = InOrder(S)
      BY DEF Disjoint
    <2> HIDE DEF S
    <2>5. Disjoint(<<>>) \in Seq(Nat)
      BY <2>2, <2>3, <2>4, InOrderHas
    <2> QED
      BY <2>5 DEF Entries
  <1> HIDE DEF entry
  <1> QED
    BY <1>1, <1>2, ReturnKeeps

LEMMA PredicateKeeps ==
  ASSUME MatrixInv, ProcessPredicate
  PROVE  MatrixInv'
  <1>1. Pending /\ built /\ Current # Nil /\ op \in Predicates
    BY DEF ProcessPredicate, Pending
  <1>2. Current \in Geographies
    BY <1>1, CurrentIsGeography
  <1>3. PICK cov \in Coverings(Searched(op, Current)) :
          Return(IF op = "disjoint" THEN Disjoint(MatrixEntry(cov)) ELSE MatrixEntry(cov))
    BY DEF ProcessPredicate
  <1> DEFINE entry == IF op = "disjoint" THEN Disjoint(MatrixEntry(cov))
                      ELSE MatrixEntry(cov)
  <1>4. /\ entry \in Seq(Nat)
        /\ \A j \in DOMAIN geog2 : Region(geog2[j]) # {} =>
             (Contains(entry, j) <=> Contains(BruteForce(Current), j))
    BY <1>1, <1>2, PredicateEntryRight DEF MatrixInv
  <1>5. Return(entry)
    BY <1>3
  <1> HIDE DEF entry
  <1>6. PredicateIsRight(Current, entry)
    BY <1>4 DEF PredicateIsRight
  <1>7. FeatureIsRight(Current, entry)
    BY <1>1 DEF FeatureIsRight, Predicates, EdgeQueries
  <1> QED
    BY <1>1, <1>4, <1>5, <1>6, <1>7, ReturnKeeps DEF Entries

LEMMA EdgeQueryKeeps ==
  ASSUME MatrixInv, ProcessEdgeQuery
  PROVE  MatrixInv'
  <1>1. Pending /\ built /\ Current # Nil /\ op \in EdgeQueries
    BY DEF ProcessEdgeQuery, Pending
  <1>2. Current \in Geographies
    BY <1>1, CurrentIsGeography
  <1>3. /\ ToAny(Current) = {} => BestShapes = {}
        /\ ToAny(Current) # {} =>
             /\ BestShapes # {}
             /\ \A s \in BestShapes : /\ values_[s] + 1 \in DOMAIN geog2
                                      /\ Extreme(Current) \in ToElement(Current, values_[s] + 1)
    BY <1>1, <1>2, BestShapeIsBest DEF MatrixInv
  <1>4. \A entry : PredicateIsRight(Current, entry)
    BY <1>1 DEF PredicateIsRight, Predicates, EdgeQueries
  <1>5. CASE BestShapes = {} /\ Return(Nil)
    <2>1. FeatureIsRight(Current, Nil)
      BY <1>3, <1>5 DEF FeatureIsRight
    <2> QED
      BY <1>1, <1>4, <1>5, <2>1, ReturnKeeps DEF Entries
  <1>6. ASSUME NEW s \in BestShapes, Return(values_[s] + 1) PROVE MatrixInv'
    <2> DEFINE entry == values_[s] + 1
    <2>1. FeatureIsRight(Current, entry)
      BY <1>3, <1>6 DEF FeatureIsRight
    <2>2. entry \in Nat
      <3>1. s \in DOMAIN shapes
        BY <1>6 DEF BestShapes
      <3>2. values_[s] \in Nat
        BY <3>1 DEF MatrixInv, MatrixTypes
      <3> QED
        BY <3>2
    <2>3. Return(entry)
      BY <1>6
    <2> HIDE DEF entry
    <2> QED
      BY <1>1, <1>4, <2>1, <2>2, <2>3, ReturnKeeps DEF Entries
  <1> QED
    BY <1>5, <1>6 DEF ProcessEdgeQuery

\* The matrix operators of s2-matrix.cpp, which search an index of y through a
\* covering of each element of x, find what s2_*_matrix's comparison with every
\* element of y finds, and the closest and farthest feature are that: for every
\* number of levels, faces and elements, whatever cells the index has and
\* whatever coverings the coverer gives.
THEOREM MatrixCorrect == MatrixSpec => []MatrixExact
  <1>1. MatrixInit => MatrixInv
    <2> SUFFICES ASSUME MatrixInit PROVE MatrixInv
      OBVIOUS
    <2>1. geog1 \in Seq(Geographies \cup {Nil})
      <3>1. PICK m \in 0 .. MaxX : geog1 \in [1 .. m -> Geographies \cup {Nil}]
        BY DEF MatrixInit, BoundedSeq, SeqOf
      <3>2. m \in Nat
        OBVIOUS
      <3> QED
        BY <3>1, <3>2
    <2>2. Len(geog1) \in Nat /\ Len(geog2) \in Nat
      <3>1. PICK m \in 0 .. MaxY : geog2 \in [1 .. m -> Geographies \cup {Nil}]
        BY DEF MatrixInit, BoundedSeq, SeqOf
      <3> QED
        BY <2>1, <3>1
    <2>3. MatrixTypes
      <3>1. /\ shapes = <<>> /\ values_ = <<>> /\ output = <<>> /\ added = 0 /\ built = FALSE
            /\ op \in Predicates \cup EdgeQueries
            /\ geog2 \in BoundedSeq(Geographies \cup {Nil}, MaxY)
        BY DEF MatrixInit
      <3>2. shapes \in Seq(SUBSET LeafIds) /\ values_ \in Seq(Nat) /\ output \in Seq(Entries)
        BY <3>1
      <3>3. Len(values_) = Len(shapes) /\ Len(output) <= Len(geog1)
        BY <2>2, <3>1
      <3>4. added \in 0 .. Len(geog2) /\ \A j \in 1 .. added : geog2[j] \in Geographies
        BY <2>2, <3>1
      <3>5. built \in BOOLEAN
        BY <3>1
      <3> QED
        BY <2>1, <3>1, <3>2, <3>3, <3>4, <3>5 DEF MatrixTypes
    <2>4. ShapesAreAdded /\ CellsAreBuilt
      BY DEF MatrixInit, ShapesAreAdded, CellsAreBuilt
    <2>5. MatrixExact
      BY NothingAnswered DEF MatrixInit
    <2> QED
      BY <2>3, <2>4, <2>5 DEF MatrixInv
  <1>2. MatrixInv /\ [MatrixNext]_matrix_vars => MatrixInv'
    <2> SUFFICES ASSUME MatrixInv, [MatrixNext]_matrix_vars PROVE MatrixInv'
      OBVIOUS
    <2>1. CASE UNCHANGED matrix_vars
      <3>1. UNCHANGED <<op, geog1, geog2, added, shapes, values_, cells, built, output>>
        BY <2>1 DEF matrix_vars
      <3>2. MatrixTypes'
        BY <3>1 DEF MatrixInv, MatrixTypes
      <3>3. ShapesAreAdded' /\ CellsAreBuilt'
        BY <3>1 DEF MatrixInv, ShapesAreAdded, CellsAreBuilt
      <3>4. \A g, j : /\ ToElement(g, j)' = ToElement(g, j)
                      /\ ToAny(g)' = ToAny(g) /\ Extreme(g)' = Extreme(g)
        BY <3>1 DEF ToElement, ToAny, Extreme
      <3>5. \A g : BruteForce(g)' = BruteForce(g)
        BY <3>1 DEF BruteForce, ActuallyIntersects
      <3>6. MatrixExact'
        BY <3>1, <3>4, <3>5 DEF MatrixInv, MatrixExact, IndexedFindsAll, FeatureIsExtreme
      <3> QED
        BY <3>2, <3>3, <3>6 DEF MatrixInv
    <2> QED
      BY <2>1, AddKeeps, BuildKeeps, MissingKeeps, PredicateKeeps, EdgeQueryKeeps DEF MatrixNext
  <1>3. MatrixInv => MatrixExact
    BY DEF MatrixInv
  <1> QED
    BY <1>1, <1>2, <1>3, PTL DEF MatrixSpec

-----------------------------------------------------------------------------
(* s2_prepared_dwithin.                                                    *)

\* The distances of the pairs do not grow: one distance for all pairs, or a
\* column of them that falls.
NeverGrows == \A m, n \in DOMAIN distance : m <= n => distance[n] <= distance[m]

DWithinTypes ==
  /\ \E n \in Nat :
       /\ features1 \in [1 .. n -> Features \cup {Missing}]
       /\ features2 \in [1 .. n -> Features \cup {Missing}]
       /\ distance \in [1 .. n -> Distances]
       /\ Len(answers) <= n
  /\ answers \in Seq(BOOLEAN \cup {Missing})

\* What is kept is for one and the same y: its query, and a covering of what is
\* near it at the distance of some pair before.
KeptFits ==
  \/ covering_id = Null /\ query = Null
  \/ /\ covering_id \in Features /\ query = covering_id
     /\ \E m \in 1 .. Len(answers) :
          Covers(covering, Buffered(RegionOf[covering_id], distance[m]))

DWithinInv == DWithinTypes /\ KeptFits /\ (NeverGrows => PreparedIsPairwise)

\* A covering of the buffered y lets every x pass that is near enough.
LEMMA CoveringLetsPass ==
  ASSUME NEW x \in Features, NEW y \in Features, NEW d \in Distances, NEW e \in Distances,
         d <= e, NEW T \in FeatureCells(RegionOf[x]), NEW cover,
         Covers(cover, Buffered(RegionOf[y], e))
  PROVE  (MayIntersectBuffer(T, cover) /\ IsDistanceLessOrEqual(RegionOf[y], RegionOf[x], d))
           <=> IsDistanceLessOrEqual(RegionOf[x], RegionOf[y], d)
  <1>1. RegionOf[x] \in SUBSET LeafIds /\ RegionOf[y] \in SUBSET LeafIds
    BY FeaturesTouchLeaves
  <1>2. IsDistanceLessOrEqual(RegionOf[y], RegionOf[x], d)
          <=> IsDistanceLessOrEqual(RegionOf[x], RegionOf[y], d)
    <2>1. \A a \in RegionOf[x], b \in RegionOf[y] : Distance(a, b) = Distance(b, a)
      BY <1>1, DistanceFacts
    <2> QED
      BY <2>1 DEF IsDistanceLessOrEqual
  <1>3. ASSUME IsDistanceLessOrEqual(RegionOf[y], RegionOf[x], d)
        PROVE  MayIntersectBuffer(T, cover)
    <2>1. PICK b \in RegionOf[y], a \in RegionOf[x] : Distance(b, a) <= d
      BY <1>3 DEF IsDistanceLessOrEqual
    <2>2. Distance(b, a) <= e
      <3>1. b \in LeafIds /\ a \in LeafIds
        BY <1>1, <2>1
      <3>2. Distance(b, a) \in 0 .. Done
        BY <3>1, DistanceFacts
      <3>3. d \in Nat /\ e \in Nat
        BY DistancesAreNat
      <3> QED
        BY <2>1, <3>2, <3>3
    <2>3. a \in Buffered(RegionOf[y], e)
      <3>1. a \in LeafIds
        BY <1>1, <2>1
      <3> QED
        BY <1>1, <2>1, <2>2, <3>1, NearIsBuffered
    <2>4. PICK id \in cover : a \in Leaves(id)
      BY <2>3 DEF Covers
    <2>5. id \in CellIds
      BY <2>4 DEF Covers
    <2>6. IsTiling(T, RegionOf[x])
      BY CellsDivideFeature
    <2>7. Locate(T, id).relation \in {"INDEXED", "SUBDIVIDED"}
      BY <2>1, <2>4, <2>5, <2>6, LocateMeets
    <2> QED
      BY <2>4, <2>7 DEF MayIntersectBuffer
  <1> QED
    BY <1>2, <1>3

\* A right answer is added to the right answers before it.
LEMMA AnswerKeeps ==
  ASSUME DWithinInv, here <= Len(features1), NEW answer \in BOOLEAN \cup {Missing},
         answers' = Append(answers, answer), UNCHANGED args, KeptFits',
         NeverGrows =>
           answer = IF features1[here] = Missing \/ features2[here] = Missing THEN Missing
                    ELSE IsDistanceLessOrEqual(RegionOf[features1[here]], RegionOf[features2[here]],
                                               distance[here])
  PROVE  DWithinInv'
  <1>1. PICK n \in Nat : /\ features1 \in [1 .. n -> Features \cup {Missing}]
                         /\ features2 \in [1 .. n -> Features \cup {Missing}]
                         /\ distance \in [1 .. n -> Distances]
    BY DEF DWithinInv, DWithinTypes
  <1> DEFINE k == Len(answers)
  <1>2. /\ answers \in Seq(BOOLEAN \cup {Missing}) /\ k \in Nat /\ DOMAIN answers = 1 .. k
        /\ here = k + 1
    BY DEF DWithinInv, DWithinTypes, here
  <1>3. Len(features1) = n /\ k + 1 <= n
    <2>1. Len(features1) = n
      BY <1>1
    <2> QED
      BY <1>2, <2>1
  <1>4. /\ answers' \in Seq(BOOLEAN \cup {Missing}) /\ Len(answers') = k + 1
        /\ DOMAIN answers' = 1 .. k + 1 /\ answers'[k + 1] = answer
        /\ \A i \in 1 .. k : answers'[i] = answers[i]
    BY <1>2
  <1>5. features1' = features1 /\ features2' = features2 /\ distance' = distance
    BY DEF args
  <1>6. DWithinTypes'
    BY <1>1, <1>3, <1>4, <1>5 DEF DWithinTypes
  <1>7. ASSUME NeverGrows' PROVE PreparedIsPairwise'
    <2>1. NeverGrows
      BY <1>5, <1>7 DEF NeverGrows
    <2> DEFINE Right(i) == IF features1[i] = Missing \/ features2[i] = Missing THEN Missing
                           ELSE IsDistanceLessOrEqual(RegionOf[features1[i]], RegionOf[features2[i]],
                                                      distance[i])
    <2>2. \A i \in 1 .. k : answers[i] = Right(i)
      BY <1>2, <2>1 DEF DWithinInv, PreparedIsPairwise
    <2>3. answer = Right(k + 1)
      BY <1>2, <2>1
    <2> HIDE DEF Right
    <2>4. \A i \in DOMAIN answers' : answers'[i] = Right(i)
      <3> TAKE i \in DOMAIN answers'
      <3>1. i \in 1 .. k \/ i = k + 1
        BY <1>2, <1>4
      <3> QED
        BY <1>4, <2>2, <2>3, <3>1
    <2> QED
      BY <1>5, <2>4 DEF PreparedIsPairwise, Right
  <1> QED
    BY <1>6, <1>7 DEF DWithinInv

LEMMA AnswerMissingKeeps ==
  ASSUME DWithinInv, AnswerMissing
  PROVE  DWithinInv'
  <1>1. /\ here <= Len(features1) /\ answers' = Append(answers, Missing)
        /\ features1[here] = Missing \/ features2[here] = Missing
        /\ UNCHANGED <<args, covering_id, covering, query>>
    BY DEF AnswerMissing
  <1>2. KeptFits'
    <2>1. distance' = distance
      BY <1>1 DEF args
    <2>2. \A m \in 1 .. Len(answers) : m \in 1 .. Len(answers')
      BY <1>1 DEF DWithinInv, DWithinTypes
    <2> QED
      BY <1>1, <2>1, <2>2 DEF DWithinInv, KeptFits
  <1> QED
    BY <1>1, <1>2, AnswerKeeps

LEMMA AnswerFeatureKeeps ==
  ASSUME DWithinInv, AnswerFeature
  PROVE  DWithinInv'
  <1> DEFINE x == features1[here]
             y == features2[here]
             d == distance[here]
  <1>1. /\ here <= Len(features1) /\ x # Missing /\ y # Missing /\ Prepare /\ UNCHANGED args
    BY DEF AnswerFeature
  <1>2. PICK T \in FeatureCells(RegionOf[x]) :
          answers' = Append(answers, /\ MayIntersectBuffer(T, covering')
                                     /\ IsDistanceLessOrEqual(RegionOf[query'], RegionOf[x], d))
    BY DEF AnswerFeature
  <1>3. PICK n \in Nat : /\ features1 \in [1 .. n -> Features \cup {Missing}]
                         /\ features2 \in [1 .. n -> Features \cup {Missing}]
                         /\ distance \in [1 .. n -> Distances]
    BY DEF DWithinInv, DWithinTypes
  <1>4. here \in 1 .. n /\ here = Len(answers) + 1 /\ Len(answers) \in Nat
    <2>1. Len(features1) = n
      BY <1>3
    <2>2. here = Len(answers) + 1 /\ Len(answers) \in Nat
      BY DEF here, DWithinInv, DWithinTypes
    <2> QED
      BY <1>1, <2>1, <2>2
  <1>5. x \in Features /\ y \in Features /\ d \in Distances
    BY <1>1, <1>3, <1>4
  <1> DEFINE answer == /\ MayIntersectBuffer(T, covering')
                       /\ IsDistanceLessOrEqual(RegionOf[query'], RegionOf[x], d)
  <1>6. /\ covering_id' = y /\ query' = y
        /\ \E m \in 1 .. here : Covers(covering', Buffered(RegionOf[y], distance[m]))
    <2>1. CASE y = covering_id
      <3>1. covering_id' = y /\ query' = query /\ covering' = covering
        BY <1>1, <2>1 DEF Prepare
      <3>2. /\ query = y
            /\ \E m \in 1 .. Len(answers) : Covers(covering, Buffered(RegionOf[y], distance[m]))
        BY <1>1, <2>1 DEF DWithinInv, KeptFits, Null
      <3>3. \A m \in 1 .. Len(answers) : m \in 1 .. here
        BY <1>4
      <3> QED
        BY <3>1, <3>2, <3>3
    <2>2. CASE y # covering_id
      <3>1. covering_id' = y /\ query' = y /\ covering' \in BufferCoverings(Buffered(RegionOf[y], d))
        BY <2>2, <1>1 DEF Prepare
      <3>2. Covers(covering', Buffered(RegionOf[y], d))
        BY <1>5, <3>1, CoveringsCoverBuffer
      <3>3. here \in 1 .. here
        BY <1>4
      <3> QED
        BY <3>1, <3>2, <3>3
    <2> QED
      BY <2>1, <2>2
  <1>7. PICK m \in 1 .. here : Covers(covering', Buffered(RegionOf[y], distance[m]))
    BY <1>6
  <1>8. answers' = Append(answers, answer) /\ answer \in BOOLEAN
    <2>1. answer \in BOOLEAN
      BY Zenon DEF IsDistanceLessOrEqual, MayIntersectBuffer
    <2> QED
      BY <1>2, <2>1
  <1>9. KeptFits'
    <2>1. m \in 1 .. Len(answers')
      <3>1. Len(answers') = here
        BY <1>4, <1>8 DEF DWithinInv, DWithinTypes
      <3> QED
        BY <3>1
    <2>2. distance' = distance
      BY <1>1 DEF args
    <2> QED
      BY <1>5, <1>6, <1>7, <2>1, <2>2 DEF KeptFits
  <1>10. NeverGrows => answer = IsDistanceLessOrEqual(RegionOf[x], RegionOf[y], d)
    <2> SUFFICES ASSUME NeverGrows PROVE answer = IsDistanceLessOrEqual(RegionOf[x], RegionOf[y], d)
      OBVIOUS
    <2>1. m \in 1 .. n /\ m <= here
      BY <1>4
    <2>2. d <= distance[m] /\ distance[m] \in Distances
      BY <1>3, <1>4, <2>1 DEF NeverGrows
    <2>3. (MayIntersectBuffer(T, covering') /\ IsDistanceLessOrEqual(RegionOf[y], RegionOf[x], d))
            <=> IsDistanceLessOrEqual(RegionOf[x], RegionOf[y], d)
      BY <1>5, <1>7, <2>2, CoveringLetsPass
    <2>4. IsDistanceLessOrEqual(RegionOf[x], RegionOf[y], d) \in BOOLEAN
      BY Zenon DEF IsDistanceLessOrEqual
    <2> QED
      BY <1>6, <1>8, <2>3, <2>4
  <1> HIDE DEF answer
  <1> QED
    BY <1>1, <1>8, <1>9, <1>10, AnswerKeeps

\* s2_prepared_dwithin gives for every pair what s2_dwithin gives for it alone,
\* for any features, vectors and coverings, as long as the distances do not
\* grow from a pair to a later one: the covering it keeps while y stays the
\* same is then never too small.
THEOREM PreparedCorrect == DWithinSpec => [](NeverGrows => PreparedIsPairwise)
  <1>1. DWithinInit => DWithinInv
    <2> SUFFICES ASSUME DWithinInit PROVE DWithinInv
      OBVIOUS
    <2>1. PICK n \in 1 .. MaxPairs :
            /\ features1 \in [1 .. n -> Features \cup {Missing}]
            /\ features2 \in [1 .. n -> Features \cup {Missing}]
            /\ distance \in [1 .. n -> Distances]
      BY DEF DWithinInit, Recycled
    <2>2. n \in Nat /\ answers = <<>> /\ covering_id = Null /\ query = Null
      BY DEF DWithinInit
    <2>3. answers \in Seq(BOOLEAN \cup {Missing}) /\ Len(answers) <= n /\ DOMAIN answers = {}
      BY <2>2
    <2> QED
      BY <2>1, <2>2, <2>3 DEF DWithinInv, DWithinTypes, KeptFits, PreparedIsPairwise
  <1>2. DWithinInv /\ [DWithinNext]_dwithin_vars => DWithinInv'
    <2> SUFFICES ASSUME DWithinInv, [DWithinNext]_dwithin_vars PROVE DWithinInv'
      OBVIOUS
    <2>1. CASE UNCHANGED dwithin_vars
      BY <2>1 DEF dwithin_vars, DWithinInv, DWithinTypes, KeptFits, NeverGrows, PreparedIsPairwise
    <2> QED
      BY <2>1, AnswerMissingKeeps, AnswerFeatureKeeps DEF DWithinNext
  <1>3. DWithinInv => (NeverGrows => PreparedIsPairwise)
    BY DEF DWithinInv
  <1> QED
    BY <1>1, <1>2, <1>3, PTL DEF DWithinSpec
=============================================================================
