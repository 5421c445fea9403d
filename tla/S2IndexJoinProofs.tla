--------------------------- MODULE S2IndexJoinProofs ---------------------------
(***************************************************************************)
(* That walks along two indexes meet what they have to meet: for any       *)
(* number of levels, faces, cells and edges, and wherever the query for an *)
(* edge takes the place of the walk.                                       *)
(*                                                                         *)
(* Every move of an iterator passes cells of which each one either lies    *)
(* beside the other iterator's cell, and has been dealt with, or is one    *)
(* that the step treats together with all cells it overlaps.               *)
(***************************************************************************)
EXTENDS S2IndexJoin, GeographyIndexProofs

-----------------------------------------------------------------------------
(* What the iterators have passed.                                         *)

\* A cell of a and a cell of b that overlap, one of them passed.
Passed == { p \in a.cells \X b.cells : intersects(p[1], p[2]) /\ (p[1] < ai \/ p[2] < bi) }

\* Two cells without edges whose centres are in both targets.
BothTargets(c, d) ==
  /\ EdgesIn(a, c) = {} /\ EdgesIn(b, d) = {}
  /\ contains_center(a, c) = target.a /\ contains_center(b, d) = target.b

\* Two edges share a leaf cell in two cells of their indexes.
Meet(x, c, e, y, d, f) == x.edges[e] \cap y.edges[f] \cap Leaves(c) \cap Leaves(d) # {}

\* What the join has to do for two cells.
Handled(c, d) ==
  /\ \A e \in EdgesIn(a, c), f \in EdgesIn(b, d) : Meet(a, c, e, b, d, f) => <<e, f>> \in visited
  /\ mode = "relation" => ~BothTargets(c, d)

\* The walk has dealt with every pair of cells that it has passed.
WalkInv ==
  mode \in {"pairs", "relation"} /\ answer # "stopped" =>
    /\ \A p \in Passed : Handled(p[1], p[2])
    /\ stop \in SharedLeaf(a, b) \cup {<<>>} /\ stop \notin visited
    /\ answer # "none" => Ended

Meets == { leaf \in LeafIds : (IF leaf \in a.inside THEN 1 ELSE 0) = target.a
                              /\ (IF leaf \in b.inside THEN 1 ELSE 0) = target.b }

StopInv == mode = "relation" /\ answer = "stopped" => stop # <<>> \/ Meets # {}

\* The join of cells has visited the pairs of which it has passed a cell.
CellsInv ==
  mode = "cells" =>
    /\ IsInjective(visited) /\ visited \in Seq(a.cells \X b.cells)
    /\ ToSet(visited) = Passed
    /\ answer = "finished" => ai = Done \/ bi = Done

JoinTypes ==
  /\ IsIndex(a) /\ IsIndex(b)
  /\ ai \in a.cells \cup {Done} /\ bi \in b.cells \cup {Done}

JoinInv == JoinTypes /\ WalkInv /\ StopInv /\ CellsInv /\ QueriesFindAll

-----------------------------------------------------------------------------
(* Cells that overlap.                                                     *)

AreApart(T) == T \subseteq CellIds /\ \A c, d \in T : c = d \/ ~intersects(c, d)

\* The cells of an index come in the order of their ranges.
LEMMA ApartInOrder ==
  ASSUME NEW T, AreApart(T), NEW c \in T, NEW d \in T, c < d
  PROVE  range_max(c) < range_min(d)
  <1>1. c \in CellIds /\ d \in CellIds
    BY DEF AreApart
  <1>2. /\ range_min(c) \in Nat /\ range_max(c) \in Nat /\ range_min(d) \in Nat
        /\ range_max(d) \in Nat /\ range_min(d) <= d /\ d <= range_max(d)
        /\ range_min(c) <= c /\ c <= range_max(c) /\ c \in Nat /\ d \in Nat
    BY <1>1, CellFacts
  <1>3. ~intersects(c, d)
    BY <1>2 DEF AreApart
  <1> QED
    BY <1>2, <1>3 DEF intersects

\* Positions of an iterator.
LEMMA Positions ==
  ASSUME NEW T, AreApart(T), NEW pos \in T \cup {Done}
  PROVE  /\ Done \in Nat /\ Done \notin T /\ pos \in Nat /\ pos <= Done
         /\ RangeMin(pos) \in Nat /\ RangeMax(pos) \in Nat
         /\ RangeMin(pos) <= pos /\ pos <= RangeMax(pos) /\ RangeMin(Done) = Done
         /\ pos \in T => RangeMin(pos) = range_min(pos) /\ RangeMax(pos) = range_max(pos)
                         /\ pos \in CellIds /\ pos # Done
         /\ \A c \in T : c \in CellIds /\ c \in Nat /\ c < Done /\ range_max(c) < Done
  <1>1. \A c \in T : /\ c \in CellIds /\ c \in Nat /\ c < Done
                     /\ range_min(c) \in Nat /\ range_max(c) \in Nat
                     /\ range_min(c) <= c /\ c <= range_max(c)
    BY CellFacts DEF AreApart
  <1>2. Done \in Nat
    <2>1. FaceSize \in Nat
      BY LsbRatio, LevelAssumption
    <2> QED
      BY <2>1, FacesAssumption DEF Done
  <1>3. \A c \in T : range_max(c) < Done
    <2> TAKE c \in T
    <2>1. range_max(c) \in CellIds
      BY <1>1, BoundsAreLeaves DEF LeafIds
    <2> QED
      BY <2>1, CellFacts
  <1> QED
    BY <1>1, <1>2, <1>3 DEF RangeMin, RangeMax

-----------------------------------------------------------------------------
(* What a move of an iterator passes.                                      *)

\* Begin and Next stop at the first cell from a position on.
LEMMA SeekPasses ==
  ASSUME NEW T, AreApart(T), NEW n \in Nat
  PROVE  /\ Seek(T, n) \in T \cup {Done}
         /\ \A c \in T : c < Seek(T, n) <=> c < n
  <1>1. T \in SUBSET CellIds
    BY DEF AreApart
  <1> DEFINE pos == Seek(T, n)
  <1>2. /\ pos \in T => pos >= n
        /\ pos \in T \/ pos = Done
        /\ \A c \in T : c >= n => pos <= c
    BY <1>1, SeekFinds
  <1>3. \A c \in T : c \in Nat /\ c < Done
    BY Positions
  <1>4. Done \in Nat
    BY Positions
  <1> HIDE DEF pos
  <1>5. \A c \in T : c < pos <=> c < n
    BY <1>2, <1>3, <1>4
  <1> QED
    BY <1>2, <1>5 DEF pos

\* SeekTo passes cells that end before the one it is to find.
LEMMA SeekToPasses ==
  ASSUME NEW T, AreApart(T), NEW at \in CellIds \cup {Done}
  PROVE  /\ SeekTo(T, at) \in T \cup {Done}
         /\ \A c \in T : c < SeekTo(T, at) <=> range_max(c) < RangeMin(at)
  <1> DEFINE pos == Seek(T, RangeMin(at))
             before == { id \in T : id < pos }
             prev == Prev(T, pos)
  <1>1. /\ RangeMin(at) \in Nat /\ RangeMax(at) \in Nat /\ Done \in Nat /\ at \in Nat
        /\ RangeMin(at) <= at /\ at <= RangeMax(at)
    <2>1. CASE at = Done
      BY <2>1, Positions DEF RangeMin, RangeMax
    <2>2. CASE at \in CellIds
      BY <2>2, CellFacts DEF RangeMin, RangeMax
    <2> QED
      BY <2>1, <2>2
  <1>2. pos \in T \cup {Done} /\ \A c \in T : c < pos <=> c < RangeMin(at)
    BY <1>1, SeekPasses
  <1>3. \A c \in T : /\ c \in CellIds /\ c \in Nat /\ c < Done /\ range_max(c) < Done
                     /\ range_min(c) \in Nat /\ range_max(c) \in Nat
                     /\ range_min(c) <= c /\ c <= range_max(c)
    BY Positions, CellFacts
  <1>4. \A c, d \in T : c < d => range_max(c) < range_min(d)
    BY ApartInOrder
  <1>5. HasPrev(T, pos) => prev \in T /\ prev < pos /\ \A c \in T : c < pos => c <= prev
    <2> SUFFICES ASSUME HasPrev(T, pos)
                 PROVE  prev \in T /\ prev < pos /\ \A c \in T : c < pos => c <= prev
      OBVIOUS
    <2>1. before # {} /\ before \subseteq 0 .. Done
      BY <1>1, <1>3 DEF HasPrev
    <2>2. Max(before) \in before /\ \A y \in before : y <= Max(before)
      <3> HIDE DEF before
      <3> QED
        BY <1>1, <2>1, GreatestIsMax
    <2>3. prev = Max(before)
      BY DEF Prev
    <2> QED
      BY <2>2, <2>3
  <1>6. (\E c \in T : c < pos) => HasPrev(T, pos)
    BY DEF HasPrev
  <1>7. SeekTo(T, at) = IF /\ pos = Done \/ range_min(pos) > RangeMax(at)
                           /\ HasPrev(T, pos) /\ range_max(prev) >= at
                        THEN prev ELSE pos
    BY DEF SeekTo
  \* A cell before pos that reaches the target's range is around the target.
  <1>8. ASSUME NEW c \in T, c < pos, range_max(c) >= RangeMin(at)
        PROVE  /\ pos = Done \/ range_min(pos) > RangeMax(at)
               /\ range_max(c) >= at
    <2>1. c < RangeMin(at)
      BY <1>2, <1>8
    <2>2. at # Done /\ at \in CellIds
      <3>1. range_max(c) \in Nat /\ range_max(c) < Done /\ Done \in Nat
        BY <1>1, <1>3
      <3>2. RangeMin(at) # Done
        BY <1>8, <3>1
      <3> QED
        BY <3>2 DEF RangeMin
    <2>3. RangeMin(at) = range_min(at) /\ RangeMax(at) = range_max(at)
      BY <2>2 DEF RangeMin, RangeMax
    <2>4. intersects(c, at) /\ ~contains(at, c)
      BY <1>1, <1>3, <1>8, <2>1, <2>3 DEF intersects, contains
    <2>5. contains(c, at)
      BY <1>3, <2>2, <2>4, Overlap
    <2>6. range_max(at) <= range_max(c)
      BY <1>3, <2>2, <2>5, ContainsNests DEF Inside
    <2>7. pos \in T => range_max(c) < range_min(pos)
      BY <1>4, <1>8
    <2>8. pos \in T => range_min(pos) \in Nat
      BY <1>3
    <2>9. range_max(c) \in Nat
      BY <1>3
    <2> QED
      BY <1>1, <1>2, <2>3, <2>6, <2>7, <2>8, <2>9
  <1>9. CASE \E c \in T : c < pos /\ range_max(c) >= RangeMin(at)
    <2>1. PICK c \in T : c < pos /\ range_max(c) >= RangeMin(at)
      BY <1>9
    <2>2. HasPrev(T, pos) /\ (pos = Done \/ range_min(pos) > RangeMax(at))
      BY <1>6, <1>8, <2>1
    <2>3. prev \in T /\ prev < pos /\ \A d \in T : d < pos => d <= prev
      BY <1>5, <2>2
    <2> HIDE DEF pos, prev
    <2>4. range_max(prev) >= RangeMin(at)
      <3>1. c = prev \/ c < prev
        BY <1>3, <2>1, <2>3
      <3>2. c < prev => range_max(c) < range_min(prev)
        BY <1>4, <2>3
      <3> QED
        BY <1>1, <1>3, <2>1, <2>3, <3>1, <3>2
    <2>5. range_max(prev) >= at
      BY <1>8, <2>3, <2>4
    <2>6. SeekTo(T, at) = prev
      BY <1>7, <2>2, <2>5
    <2>7. \A d \in T : d < prev <=> range_max(d) < RangeMin(at)
      <3> TAKE d \in T
      <3>1. d < prev => range_max(d) < RangeMin(at)
        <4>1. ASSUME d < prev PROVE range_max(d) < RangeMin(at)
          <5>1. range_max(d) < range_min(prev) /\ range_min(prev) <= prev
            BY <1>3, <1>4, <2>3, <4>1
          <5>2. prev < RangeMin(at)
            BY <1>2, <2>3
          <5> QED
            BY <1>1, <1>3, <2>3, <5>1, <5>2
        <4> QED
          BY <4>1
      <3>2. prev < d => range_max(prev) < range_min(d)
        BY <1>4, <2>3
      <3> QED
        BY <1>1, <1>3, <2>3, <2>4, <3>1, <3>2
    <2> QED
      BY <2>3, <2>6, <2>7
  <1>10. CASE ~\E c \in T : c < pos /\ range_max(c) >= RangeMin(at)
    <2>1. HasPrev(T, pos) => ~(range_max(prev) >= at)
      <3> HIDE DEF pos, prev
      <3> QED
        BY <1>1, <1>3, <1>5, <1>10
    <2>2. SeekTo(T, at) = pos
      BY <1>7, <2>1
    <2>3. \A d \in T : d < pos <=> range_max(d) < RangeMin(at)
      <3> HIDE DEF pos
      <3> QED
        BY <1>1, <1>2, <1>3, <1>10
    <2> QED
      BY <1>2, <2>2, <2>3
  <1> QED
    BY <1>9, <1>10

\* SeekBeyond passes the cells up to the end of the cell that it leaves, when
\* that is around a cell of the index.
LEMMA SeekBeyondPasses ==
  ASSUME NEW T, AreApart(T), NEW at \in CellIds, NEW y \in T, contains(at, y)
  PROVE  /\ SeekBeyond(T, at) \in T \cup {Done}
         /\ \A c \in T : c < SeekBeyond(T, at) <=> c <= range_max(at)
  <1> DEFINE R == range_max(at)
             pos == Seek(T, next(R))
  <1>1. R \in Nat /\ range_min(at) \in Nat /\ range_min(at) <= at /\ at <= R
        /\ y \in CellIds /\ at \in Nat
    BY CellFacts DEF AreApart
  <1>2. next(R) = R + 2
    <2>1. lsb(R) = 1
      BY BoundsAreLeaves
    <2> QED
      BY <2>1, <1>1 DEF next
  <1>3. \A c \in T : /\ c \in CellIds /\ c \in Nat /\ c < Done
                     /\ range_min(c) \in Nat /\ range_max(c) \in Nat
                     /\ range_min(c) <= c /\ c <= range_max(c)
    BY Positions, CellFacts
  <1>4. pos \in T \cup {Done} /\ \A c \in T : c < pos <=> c < R + 2
    <2>1. R + 2 \in Nat
      BY <1>1
    <2> QED
      BY <1>2, <2>1, SeekPasses
  <1>5. ASSUME NEW c \in T, c > R PROVE range_min(c) > R /\ c >= R + 2
    <2>1. c # y
      BY <1>1, <1>5 DEF contains
    <2>2. ~intersects(y, c)
      BY <2>1 DEF AreApart
    <2>3. range_min(c) > R
      <3>1. ~contains(c, at)
        <4>1. contains(c, at) => range_min(c) <= range_min(at) /\ range_max(at) <= range_max(c)
          BY <1>3, ContainsNests DEF Inside
        <4>2. range_min(at) <= range_min(y) /\ range_max(y) <= range_max(at)
          BY <1>1, ContainsNests DEF Inside
        <4>3. range_min(y) \in Nat /\ range_max(y) \in Nat /\ range_min(y) <= range_max(y)
          BY <1>3
        <4>4. contains(c, at) => intersects(y, c)
          BY <1>1, <1>3, <4>1, <4>2, <4>3 DEF intersects
        <4> QED
          BY <2>2, <4>4
      <3>2. ~contains(at, c)
        BY <1>1, <1>3, <1>5 DEF contains
      <3>3. ~intersects(at, c)
        BY <1>3, <3>1, <3>2, Overlap
      <3> QED
        BY <1>1, <1>3, <1>5, <3>3 DEF intersects
    <2>4. PICK i \in Nat : R = 2 * i + 1
      BY OddBounds
    <2>5. PICK j \in Nat : range_min(c) = 2 * j + 1
      BY <1>3, OddBounds
    <2>6. range_min(c) >= R + 2
      BY <2>3, <2>4, <2>5
    <2> QED
      BY <1>1, <1>3, <2>3, <2>6
  <1> HIDE DEF R
  <1>6. \A c \in T : c < pos <=> c <= R
    <2> HIDE DEF pos
    <2> QED
      BY <1>1, <1>3, <1>4, <1>5
  <1>7. pos # Done => range_min(pos) > R
    <2> HIDE DEF pos
    <2>1. pos # Done => pos \in T /\ ~(pos < pos) /\ pos \in Nat
      BY <1>3, <1>4
    <2>2. pos # Done => pos > R
      BY <1>1, <1>6, <2>1
    <2> QED
      BY <1>5, <2>1, <2>2
  <1>8. SeekBeyond(T, at) = pos
    <2>1. pos # Done => ~(range_min(pos) <= R)
      <3> HIDE DEF pos
      <3>1. pos # Done => range_min(pos) \in Nat
        BY <1>3, <1>4
      <3> QED
        BY <1>1, <1>7, <3>1
    <2> QED
      BY <2>1 DEF SeekBeyond, R
  <1> QED
    BY <1>4, <1>6, <1>8 DEF R

\* Passing the cells within a cell passes the cells up to its end.
LEMMA WithinPasses ==
  ASSUME NEW y, AreApart(y.cells), NEW xi \in CellIds, NEW yi \in y.cells, contains(xi, yi)
  PROVE  /\ Next1(y.cells, Max(Within(y, xi, yi))) \in y.cells \cup {Done}
         /\ \A c \in y.cells :
              c < Next1(y.cells, Max(Within(y, xi, yi))) <=> c <= range_max(xi)
  <1> DEFINE T == y.cells
             W == Within(y, xi, yi)
             m == Max(W)
  <1>1. \A c \in T : c \in Nat /\ c < Done
    BY Positions
  <1>2. Done \in Nat /\ range_max(xi) \in Nat
    BY CellFacts
  <1>3. W = { c \in T : yi <= c /\ c <= range_max(xi) } /\ yi \in T
    BY DEF Within
  <1>4. yi <= range_max(xi)
    BY DEF contains
  <1> HIDE DEF W, T
  <1>5. W \subseteq 0 .. Done /\ W # {}
    <2>1. yi \in W
      BY <1>1, <1>3, <1>4
    <2> QED
      BY <1>1, <1>2, <1>3, <2>1
  <1>6. m \in W /\ \A c \in W : c <= m
    BY <1>2, <1>5, GreatestIsMax
  <1> HIDE DEF m
  <1>7. m \in T /\ yi <= m /\ m <= range_max(xi) /\ m \in Nat /\ yi \in Nat
    BY <1>1, <1>3, <1>6
  <1>8. \A c \in T : c < m + 1 <=> c <= range_max(xi)
    BY <1>1, <1>2, <1>3, <1>6, <1>7
  <1>9. Next1(T, m) \in T \cup {Done} /\ \A c \in T : c < Next1(T, m) <=> c < m + 1
    <2>1. m + 1 \in Nat /\ AreApart(T)
      BY <1>7 DEF T
    <2> QED
      BY <2>1, SeekPasses DEF Next1
  <1> QED
    BY <1>8, <1>9 DEF T, W, m

-----------------------------------------------------------------------------
(* The query for an edge.                                                  *)

\* What the first cell from the start of id on says of the cells in id.
LEMMA SeekInCell ==
  ASSUME NEW T, AreApart(T), NEW id \in CellIds
  PROVE  LET pos == Seek(T, range_min(id))
         IN  /\ pos = Done \/ pos > range_max(id) => \A c \in T : ~contains(id, c)
             /\ ~(pos = Done \/ pos > range_max(id)) => pos \in T /\ contains(id, pos)
             /\ id \in T <=> pos = id
             /\ id \in T => \A c \in T : contains(id, c) => c = id
  <1> DEFINE pos == Seek(T, range_min(id))
  <1>1. /\ id \in Nat /\ range_min(id) \in Nat /\ range_max(id) \in Nat /\ id < Done
        /\ range_min(id) <= id /\ id <= range_max(id) /\ Done \in Nat
    BY CellFacts
  <1>2. pos \in T \cup {Done} /\ \A c \in T : c < pos <=> c < range_min(id)
    BY <1>1, SeekPasses
  <1>3. \A c \in T : c \in CellIds /\ c \in Nat /\ c < Done
    BY Positions
  <1>4. id \in T => \A c \in T : contains(id, c) => c = id
    BY <1>3, NestedOverlap DEF AreApart
  <1> HIDE DEF pos
  <1>5. pos \in Nat /\ (pos \in T => ~(pos < range_min(id)))
    BY <1>1, <1>2, <1>3
  <1>6. pos = Done \/ pos > range_max(id) => \A c \in T : ~contains(id, c)
    BY <1>1, <1>2, <1>3, <1>5 DEF contains
  <1>7. ~(pos = Done \/ pos > range_max(id)) => pos \in T /\ contains(id, pos)
    BY <1>1, <1>2, <1>5 DEF contains
  <1>8. id \in T => pos = id
    <2>1. id \in T => pos <= id
      BY <1>1, <1>2, <1>5
    <2>2. id \in T => pos # Done /\ pos <= range_max(id)
      BY <1>1, <1>5, <2>1
    <2> QED
      BY <1>1, <1>4, <1>5, <1>7, <2>2
  <1>9. pos = id => id \in T
    BY <1>1, <1>2
  <1> QED
    BY <1>4, <1>6, <1>7, <1>8, <1>9 DEF pos

\* VisitCells finds every cell of the index below its root that has a part of
\* the edge.
LEMMA VisitFinds ==
  ASSUME NEW y, AreApart(y.cells), NEW edge, NEW root \in CellIds, NEW d \in y.cells,
         contains(root, d), Leaves(d) \cap edge # {}
  PROVE  d \in VisitCells(y, edge, root)
  <1> DEFINE T == y.cells
             Step(f, id) ==
               LET pos == Seek(T, range_min(id))
               IN  IF Leaves(id) \cap edge = {} \/ pos = Done \/ pos > range_max(id) THEN {}
                   ELSE IF pos = id THEN {id}
                   ELSE UNION { f[child(id, k)] : k \in 0 .. 3 }
             Visits(f) == f = [id \in CellIds |-> Step(f, id)]
             Below(id) == { c \in T : contains(id, c) /\ Leaves(c) \cap edge # {} }
             g == [id \in CellIds |-> Below(id)]
             v == CHOOSE f : Visits(f)
  <1>1. AreApart(T) /\ T \subseteq CellIds /\ d \in T
    BY DEF AreApart
  <1>2. VisitCells(y, edge, root) = v[root]
    BY DEF VisitCells
  <1> HIDE DEF T
  <1>3. Visits(g)
    <2>1. ASSUME NEW id \in CellIds PROVE Below(id) = Step(g, id)
      <3> DEFINE pos == Seek(T, range_min(id))
      <3>1. /\ pos = Done \/ pos > range_max(id) => \A c \in T : ~contains(id, c)
            /\ ~(pos = Done \/ pos > range_max(id)) => pos \in T /\ contains(id, pos)
            /\ id \in T <=> pos = id
            /\ id \in T => \A c \in T : contains(id, c) => c = id
        BY <1>1, SeekInCell
      <3> HIDE DEF pos
      <3>2. Step(g, id) = IF Leaves(id) \cap edge = {} \/ pos = Done \/ pos > range_max(id) THEN {}
                          ELSE IF pos = id THEN {id}
                          ELSE UNION { g[child(id, k)] : k \in 0 .. 3 }
        BY DEF pos
      <3>3. CASE Leaves(id) \cap edge = {}
        <4>1. \A c \in T : contains(id, c) => Leaves(c) \subseteq Leaves(id)
          BY <1>1, LeavesNest
        <4>2. Below(id) = {}
          BY <3>3, <4>1
        <4> QED
          BY <3>2, <3>3, <4>2
      <3>4. CASE Leaves(id) \cap edge # {} /\ (pos = Done \/ pos > range_max(id))
        <4>1. Below(id) = {}
          BY <3>1, <3>4
        <4> QED
          BY <3>2, <3>4, <4>1
      <3>5. CASE Leaves(id) \cap edge # {} /\ ~(pos = Done \/ pos > range_max(id)) /\ pos = id
        <4>1. Below(id) = {id}
          BY <3>1, <3>5
        <4> QED
          BY <3>2, <3>5, <4>1
      <3>6. CASE Leaves(id) \cap edge # {} /\ ~(pos = Done \/ pos > range_max(id)) /\ pos # id
        <4>1. id \notin T /\ pos \in T /\ contains(id, pos)
          BY <3>1, <3>6
        <4>2. lsb(id) # 1
          BY <1>1, <4>1, <3>6, ChildHas
        <4>3. \A k \in 0 .. 3 : child(id, k) \in CellIds
          BY <4>2, ChildForm
        <4>4. \A k \in 0 .. 3 : g[child(id, k)] = Below(child(id, k))
          BY <4>3
        <4>5. \A c \in T : contains(id, c) <=> \E k \in 0 .. 3 : contains(child(id, k), c)
          <5> TAKE c \in T
          <5>1. contains(id, c) => \E k \in 0 .. 3 : contains(child(id, k), c)
            BY <1>1, <4>1, ChildHas
          <5>2. ASSUME NEW k \in 0 .. 3, contains(child(id, k), c) PROVE contains(id, c)
            <6>1. Inside(child(id, k), id)
              BY <4>2, ChildInside
            <6>2. /\ range_min(id) \in Nat /\ range_max(id) \in Nat /\ c \in Nat
                  /\ range_min(child(id, k)) \in Nat /\ range_max(child(id, k)) \in Nat
              BY <1>1, <4>3, CellFacts
            <6> QED
              BY <5>2, <6>1, <6>2 DEF Inside, contains
          <5> QED
            BY <5>1, <5>2
        <4>6. Below(id) = UNION { Below(child(id, k)) : k \in 0 .. 3 }
          BY <4>5
        <4>7. { Below(child(id, k)) : k \in 0 .. 3 } = { g[child(id, k)] : k \in 0 .. 3 }
          BY <4>4
        <4> HIDE DEF Below, g
        <4> QED
          BY <3>2, <3>6, <4>6, <4>7
      <3> QED
        BY <3>3, <3>4, <3>5, <3>6
    <2> HIDE DEF Step
    <2>2. g = [id \in CellIds |-> Step(g, id)]
      BY <2>1
    <2> QED
      BY <2>2
  <1> HIDE DEF Visits
  <1>4. Visits(v)
    BY <1>3
  <1> HIDE DEF v, g
  <1>5. \A id \in CellIds : v[id] = Step(v, id)
    <2> HIDE DEF Step
    <2> QED
      BY <1>4 DEF Visits
  <1> DEFINE missed == { id \in CellIds : contains(id, d) /\ d \notin v[id] }
             levels == { level(id) : id \in missed }
  <1>6. missed = {}
    <2> SUFFICES ASSUME missed # {} PROVE FALSE
      OBVIOUS
    <2>1. levels # {} /\ levels \subseteq 0 .. MaxLevel
      BY CellForm
    <2>2. Max(levels) \in levels /\ \A l \in levels : l <= Max(levels)
      <3> HIDE DEF levels
      <3> QED
        BY <2>1, LevelAssumption, GreatestIsMax
    <2>3. PICK id \in missed : level(id) = Max(levels)
      BY <2>2
    <2>4. \A other \in missed : level(other) <= level(id)
      BY <2>2, <2>3
    <2>5. id \in CellIds /\ contains(id, d) /\ d \notin v[id] /\ d \in CellIds
      BY <1>1
    <2> HIDE DEF missed, levels
    <2> DEFINE pos == Seek(T, range_min(id))
    <2>6. /\ pos = Done \/ pos > range_max(id) => \A c \in T : ~contains(id, c)
          /\ id \in T <=> pos = id
          /\ id \in T => \A c \in T : contains(id, c) => c = id
      BY <1>1, <2>5, SeekInCell
    <2>7. Leaves(id) \cap edge # {}
      <3>1. Leaves(d) \subseteq Leaves(id)
        BY <2>5, LeavesNest
      <3> QED
        BY <3>1
    <2>8. v[id] = IF Leaves(id) \cap edge = {} \/ pos = Done \/ pos > range_max(id) THEN {}
                  ELSE IF pos = id THEN {id}
                  ELSE UNION { v[child(id, k)] : k \in 0 .. 3 }
      BY <1>5, <2>5
    <2> HIDE DEF pos, Step
    <2>9. ~(pos = Done \/ pos > range_max(id))
      BY <1>1, <2>5, <2>6
    <2>10. pos # id
      BY <1>1, <2>5, <2>6, <2>7, <2>8, <2>9
    <2>11. v[id] = UNION { v[child(id, k)] : k \in 0 .. 3 }
      BY <2>7, <2>8, <2>9, <2>10
    <2>12. d # id
      BY <1>1, <2>6, <2>10
    <2>13. PICK k \in 0 .. 3 : contains(child(id, k), d)
      BY <2>5, <2>12, ChildHas
    <2>14. lsb(id) # 1
      BY <2>5, <2>12, ChildHas
    <2>15. child(id, k) \in CellIds /\ level(child(id, k)) = level(id) + 1
      BY <2>5, <2>14, ChildForm
    <2>16. level(id) \in Nat
      BY <2>5, CellForm, LevelAssumption
    <2>17. child(id, k) \notin missed
      BY <2>4, <2>15, <2>16
    <2>18. d \in v[child(id, k)]
      BY <2>13, <2>15, <2>17 DEF missed
    <2> QED
      BY <2>5, <2>11, <2>18
  <1> QED
    BY <1>2, <1>6

\* Every cell is on a face.
LEMMA FaceHas ==
  ASSUME NEW id \in CellIds
  PROVE  \E f \in 0 .. (NumFaces - 1) : FromFace(f) \in CellIds /\ contains(FromFace(f), id)
  <1>1. PICK f \in 0 .. (NumFaces - 1), k \in 0 .. (4 ^ level(id) - 1) :
          id = f * FaceSize + (2 * k + 1) * lsb(id)
    BY FaceOfCell
  <1> DEFINE B == lsb(id)
             c == 4 ^ level(id)
             F == f * FaceSize
             K == (2 * k + 1) * B
             L == lsb_for_level(0)
  <1>2. B \in Nat \ {0} /\ c \in Nat \ {0} /\ FaceSize = 2 * (c * B) /\ k \in 0 .. (c - 1)
    <2>1. level(id) \in 0 .. MaxLevel
      BY CellForm
    <2> QED
      BY <2>1, LsbRatio DEF lsb
  <1>3. F \in Nat /\ FaceSize = 2 * L /\ L \in Nat \ {0}
    <2>1. 0 \in 0 .. MaxLevel /\ MaxLevel - 0 = MaxLevel
      BY LevelAssumption
    <2>2. L \in Nat \ {0} /\ FaceSize = 2 * L
      BY <2>1, LsbRatio DEF FaceSize, lsb_for_level
    <2>3. FaceSize \in Nat /\ f \in Nat
      BY <1>2, FacesAssumption
    <2> HIDE DEF L
    <2> QED
      BY <2>2, <2>3
  <1>4. K \in Nat /\ K >= 1 /\ K < FaceSize
    <2> HIDE DEF B, c
    <2>1. (2 * k + 1) * B >= B
      BY <1>2, SMT
    <2>2. (2 * k + 2) * B <= 2 * (c * B)
      <3>1. (k + 1) * B <= c * B
        BY <1>2, SMT
      <3> QED
        BY <1>2, <3>1, SMT
    <2>3. (2 * k + 2) * B = K + B /\ K \in Nat
      BY <1>2, SMT
    <2> QED
      BY <1>2, <2>1, <2>2, <2>3
  <1>5. FromFace(f) \in CellIds /\ lsb(FromFace(f)) = L
    <2>1. 0 \in 0 .. MaxLevel
      BY LevelAssumption
    <2>2. 4 ^ 0 \in Nat \ {0}
      BY <2>1, PowersOfFour
    <2>3. 0 \in 0 .. (4 ^ 0 - 1)
      BY <2>2
    <2>4. FromFace(f) = f * FaceSize + (2 * 0 + 1) * lsb_for_level(0)
      <3>1. (2 * 0 + 1) * L = L
        <4> HIDE DEF L
        <4> QED
          BY <1>3
      <3> QED
        BY <3>1 DEF FromFace
    <2> QED
      BY <2>1, <2>3, <2>4, CellOnFace
  <1>6. FromFace(f) = F + L /\ id = F + K
    BY <1>1 DEF FromFace
  <1> HIDE DEF B, c, F, K, L
  <1>7. range_min(FromFace(f)) = (F + L) - (L - 1) /\ range_max(FromFace(f)) = (F + L) + (L - 1)
    BY <1>5, <1>6 DEF range_min, range_max
  <1>8. contains(FromFace(f), id)
    BY <1>3, <1>4, <1>6, <1>7 DEF contains
  <1> QED
    BY <1>5, <1>8

\* There is a smallest cell around leaf cells of a face.
LEMMA RootFits ==
  ASSUME NEW segment, segment # {}, NEW top \in CellIds, segment \subseteq Leaves(top)
  PROVE  EdgeRoot(segment) \in CellIds /\ segment \subseteq Leaves(EdgeRoot(segment))
  <1> DEFINE around == { id \in CellIds : segment \subseteq Leaves(id) }
             levels == { level(id) : id \in around }
  <1>1. levels # {} /\ levels \subseteq 0 .. MaxLevel
    BY CellForm
  <1>2. Max(levels) \in levels /\ \A l \in levels : l <= Max(levels)
    <2> HIDE DEF levels
    <2> QED
      BY <1>1, LevelAssumption, GreatestIsMax
  <1>3. PICK id \in around : level(id) = Max(levels)
    BY <1>2
  <1>4. id \in CellIds /\ segment \subseteq Leaves(id)
    BY <1>3
  <1>5. \A other \in CellIds : segment \subseteq Leaves(other) => contains(other, id)
    <2> SUFFICES ASSUME NEW other \in CellIds, segment \subseteq Leaves(other)
                 PROVE  contains(other, id)
      OBVIOUS
    <2>1. level(other) <= level(id)
      BY <1>2, <1>3
    <2>2. PICK leaf \in segment : TRUE
      OBVIOUS
    <2>3. contains(other, id) \/ contains(id, other)
      BY <1>4, <2>2, CommonLeaf
    <2>4. CASE contains(id, other)
      <3>1. level(other) \in 0 .. MaxLevel /\ level(id) \in 0 .. MaxLevel
        BY <1>4, CellForm
      <3>2. ~Apart(other, id) /\ ~Apart(id, other)
        <4>1. /\ range_min(other) \in Nat /\ range_max(other) \in Nat /\ other \in Nat
              /\ range_min(other) <= other /\ other <= range_max(other)
              /\ range_min(id) \in Nat /\ range_max(id) \in Nat
          BY <1>4, CellFacts
        <4> QED
          BY <2>4, <4>1 DEF contains, Apart
      <3>3. level(other) = level(id) => other = id
        BY <1>4, <3>2, SameLevel
      <3>4. ~(level(other) < level(id))
        BY <1>4, <2>4, <3>2, SmallerCell
      <3>5. other = id
        BY <2>1, <3>1, <3>3, <3>4, LevelAssumption
      <3> QED
        BY <2>4, <3>5
    <2> QED
      BY <2>3, <2>4
  <1> QED
    BY <1>4, <1>5 DEF EdgeRoot

\* An edge is looked for in every cell of the index that it has a part in.
LEMMA CellsOfFinds ==
  ASSUME NEW y, AreApart(y.cells), NEW edge \in SUBSET LeafIds, NEW d \in y.cells,
         NEW leaf \in edge, leaf \in Leaves(d)
  PROVE  d \in CellsOf(y, edge)
  <1>1. d \in CellIds /\ leaf \in CellIds /\ leaf \in LeafIds
    BY DEF AreApart, LeafIds
  <1>2. PICK f \in 0 .. (NumFaces - 1) : FromFace(f) \in CellIds /\ contains(FromFace(f), leaf)
    BY <1>1, FaceHas
  <1> DEFINE segment == edge \cap Leaves(FromFace(f))
             root == EdgeRoot(segment)
             found == Locate(y.cells, root)
             Found(g) ==
               LET r == EdgeRoot(edge \cap Leaves(FromFace(g)))
                   l == Locate(y.cells, r)
               IN  CASE l.relation = "INDEXED" -> {l.at}
                     [] l.relation = "SUBDIVIDED" -> VisitCells(y, edge, r)
                     [] l.relation = "DISJOINT" -> {}
  <1>3. leaf \in segment
    BY <1>1, <1>2 DEF Leaves, LeavesIn
  <1>4. root \in CellIds /\ segment \subseteq Leaves(root)
    <2>1. segment # {} /\ segment \subseteq Leaves(FromFace(f))
      BY <1>3
    <2> HIDE DEF segment
    <2> QED
      BY <1>2, <2>1, RootFits
  <1>5. Found(f) \subseteq CellsOf(y, edge)
    <2>1. CellsOf(y, edge) =
            UNION { Found(g) : g \in { g \in 0 .. (NumFaces - 1) :
                                         edge \cap Leaves(FromFace(g)) # {} } }
      BY DEF CellsOf
    <2>2. f \in { g \in 0 .. (NumFaces - 1) : edge \cap Leaves(FromFace(g)) # {} }
      BY <1>3
    <2> HIDE DEF Found
    <2> QED
      BY <2>1, <2>2
  <1>6. Found(f) = CASE found.relation = "INDEXED" -> {found.at}
                     [] found.relation = "SUBDIVIDED" -> VisitCells(y, edge, root)
                     [] found.relation = "DISJOINT" -> {}
    OBVIOUS
  <1> HIDE DEF Found
  <1>7. IsTiling(y.cells, {})
    BY DEF IsTiling, Covers, AreApart
  <1>8. /\ found.relation = "INDEXED" <=> \E c \in y.cells : contains(c, root)
        /\ found.relation = "INDEXED" => found.at \in y.cells /\ contains(found.at, root)
        /\ found.relation = "SUBDIVIDED" <=> \E c \in y.cells : c # root /\ contains(root, c)
    <2> HIDE DEF root
    <2> QED
      BY <1>4, <1>7, LocateExact
  <1> HIDE DEF found, root, segment
  <1>9. contains(d, root) \/ contains(root, d)
    BY <1>1, <1>3, <1>4, CommonLeaf
  <1>10. CASE contains(d, root)
    <2>1. found.relation = "INDEXED" /\ found.at \in y.cells /\ contains(found.at, root)
      BY <1>8, <1>10
    <2>2. found.at \in CellIds
      BY <2>1 DEF AreApart
    <2>3. leaf \in Leaves(found.at)
      BY <1>3, <1>4, <2>1, <2>2, LeavesNest
    <2>4. found.at = d
      BY <1>1, <2>1, <2>2, <2>3, SharedOverlap DEF AreApart
    <2> QED
      BY <1>5, <1>6, <2>1, <2>4
  <1>11. CASE contains(root, d) /\ ~contains(d, root)
    <2>1. d # root
      BY <1>11
    <2>2. found.relation = "SUBDIVIDED"
      BY <1>8, <1>11, <2>1
    <2>3. d \in VisitCells(y, edge, root)
      <3>1. Leaves(d) \cap edge # {}
        OBVIOUS
      <3> QED
        BY <1>4, <1>11, <3>1, VisitFinds
    <2> QED
      BY <1>5, <1>6, <2>2, <2>3
  <1> QED
    BY <1>9, <1>10, <1>11

-----------------------------------------------------------------------------
(* A step at two cells one of which is in the other.                       *)

LEMMA IndexFacts ==
  ASSUME NEW x, IsIndex(x)
  PROVE  /\ AreApart(x.cells)
         /\ \A e \in DOMAIN x.edges : /\ e \in Nat /\ x.edges[e] \subseteq LeafIds
                                      /\ x.edges[e] \subseteq UNION { Leaves(c) : c \in x.cells }
         /\ \A id : EdgesIn(x, id) \subseteq DOMAIN x.edges
  <1>1. x.edges \in Seq(SUBSET LeafIds)
    BY DEF IsIndex
  <1>2. \A e \in DOMAIN x.edges : e \in Nat /\ x.edges[e] \subseteq LeafIds
    <2> DEFINE s == x.edges
    <2>1. s \in Seq(SUBSET LeafIds)
      BY <1>1
    <2> HIDE DEF s
    <2>2. \A e \in DOMAIN s : e \in Nat /\ s[e] \in SUBSET LeafIds
      BY <2>1
    <2> QED
      BY <2>2 DEF s
  <1> QED
    BY <1>2 DEF IsIndex, AreApart, EdgesIn

\* The centre of a cell is in it.
LEMMA CenterInCell ==
  ASSUME NEW id \in CellIds
  PROVE  Center(id) \in LeafIds /\ Center(id) \in Leaves(id)
  <1>1. id \in Nat /\ range_min(id) <= id /\ id <= range_max(id) /\ range_max(id) \in Nat
        /\ range_min(id) \in Nat
    BY CellFacts
  <1>2. CASE is_leaf(id)
    <2>1. PICK i \in Nat : id = 2 * i + 1
      BY <1>1, <1>2 DEF is_leaf
    <2>2. contains(id, id)
      BY <1>1 DEF contains
    <2> QED
      BY <1>1, <1>2, <2>1, <2>2, OddIsLeafOf DEF Center
  <1>3. CASE ~is_leaf(id)
    <2>1. PICK i \in Nat : id = 2 * i
      BY <1>1, <1>3 DEF is_leaf
    <2>2. PICK j \in Nat : range_max(id) = 2 * j + 1
      BY OddBounds
    <2>3. contains(id, id + 1) /\ id + 1 = 2 * i + 1 /\ id + 1 \in Nat
      BY <1>1, <2>1, <2>2 DEF contains
    <2> QED
      BY <1>3, <2>3, OddIsLeafOf DEF Center
  <1> QED
    BY <1>2, <1>3

\* A cell without edges is on one side, like its centre.
LEMMA CenterSpeaks ==
  ASSUME NEW x, IsIndex(x), NEW c \in x.cells, EdgesIn(x, c) = {}, NEW leaf \in Leaves(c)
  PROVE  contains_center(x, c) = IF leaf \in x.inside THEN 1 ELSE 0
  <1>1. c \in CellIds
    BY DEF IsIndex
  <1>2. Center(c) \in Leaves(c)
    BY <1>1, CenterInCell
  <1>3. Leaves(c) \subseteq x.inside \/ Leaves(c) \cap x.inside = {}
    BY DEF IsIndex
  <1>4. Center(c) \in x.inside <=> leaf \in x.inside
    BY <1>2, <1>3
  <1> QED
    BY <1>4 DEF contains_center

LEMMA WithinCell ==
  ASSUME NEW y, AreApart(y.cells), NEW xi \in CellIds, NEW yi \in y.cells, contains(xi, yi)
  PROVE  \A d \in Within(y, xi, yi) : d \in y.cells /\ contains(xi, d)
  <1>1. \A d \in y.cells : d \in Nat
    BY Positions
  <1>2. range_min(xi) \in Nat /\ range_max(xi) \in Nat
    BY CellFacts
  <1> QED
    BY <1>1, <1>2 DEF Within, contains

\* With or without the query, edges that share a leaf cell are tested.
LEMMA TestedHas ==
  ASSUME NEW x, IsIndex(x), NEW y, IsIndex(y), NEW xi \in x.cells, NEW yi \in y.cells,
         contains(xi, yi), NEW d \in Within(y, xi, yi),
         NEW e \in EdgesIn(x, xi), NEW f \in EdgesIn(y, d), Meet(x, xi, e, y, d, f)
  PROVE  <<e, f>> \in Tested(x, y, xi, yi)
  <1>1. AreApart(y.cells) /\ xi \in CellIds
    BY IndexFacts DEF IsIndex
  <1>2. d \in y.cells /\ contains(xi, d)
    BY <1>1, WithinCell
  <1>3. Leaves(d) \cap x.edges[e] # {}
    BY DEF Meet
  <1>4. d \in VisitCells(y, x.edges[e], xi)
    BY <1>1, <1>2, <1>3, VisitFinds
  <1> DEFINE within == Within(y, xi, yi)
             Asked(g) == {g} \X UNION { EdgesIn(y, id) : id \in VisitCells(y, x.edges[g], xi) }
  <1>5. <<e, f>> \in EdgesIn(x, xi) \X UNION { EdgesIn(y, id) : id \in within }
    OBVIOUS
  <1>6. <<e, f>> \in Asked(e)
    BY <1>4
  <1> HIDE DEF Asked
  <1>7. <<e, f>> \in UNION { Asked(g) : g \in EdgesIn(x, xi) }
    BY <1>6
  <1>8. Tested(x, y, xi, yi) = IF TotalEdges(y, within) >= kEdgeQueryMinEdges
                               THEN UNION { Asked(g) : g \in EdgesIn(x, xi) }
                               ELSE EdgesIn(x, xi) \X UNION { EdgesIn(y, id) : id \in within }
    BY DEF Tested, Asked
  <1> QED
    BY <1>5, <1>7, <1>8

LEMMA TestedWithin ==
  ASSUME NEW x, IsIndex(x), NEW y, IsIndex(y), NEW xi, NEW yi
  PROVE  Tested(x, y, xi, yi) \subseteq (DOMAIN x.edges) \X (DOMAIN y.edges)
  <1>1. \A id : EdgesIn(x, id) \subseteq DOMAIN x.edges /\ EdgesIn(y, id) \subseteq DOMAIN y.edges
    BY IndexFacts
  <1> DEFINE Asked(g) == {g} \X UNION { EdgesIn(y, id) : id \in VisitCells(y, x.edges[g], xi) }
  <1>2. \A g \in EdgesIn(x, xi) : Asked(g) \subseteq (DOMAIN x.edges) \X (DOMAIN y.edges)
    BY <1>1
  <1>3. UNION { Asked(g) : g \in EdgesIn(x, xi) } \subseteq (DOMAIN x.edges) \X (DOMAIN y.edges)
    <2> HIDE DEF Asked
    <2> QED
      BY <1>2
  <1>4. EdgesIn(x, xi) \X UNION { EdgesIn(y, id) : id \in Within(y, xi, yi) }
          \subseteq (DOMAIN x.edges) \X (DOMAIN y.edges)
    BY <1>1
  <1> QED
    BY <1>3, <1>4 DEF Tested

\* A step at xi and yi in it, which moves the iterators to xn and yn, passes
\* no cell beyond xi, and looks at all edges that meet in xi from yi on.
Treats(x, y, xi, yi, pairs, xn, yn) ==
  /\ xn \in x.cells \cup {Done} /\ yn \in y.cells \cup {Done}
  /\ \A c \in x.cells : c < xn => c <= xi
  /\ \A d \in y.cells : d < yn => d <= range_max(xi)
  /\ \A d \in Within(y, xi, yi) : \A e \in EdgesIn(x, xi), f \in EdgesIn(y, d) :
       Meet(x, xi, e, y, d, f) => <<e, f>> \in pairs
  /\ pairs \subseteq (DOMAIN x.edges) \X (DOMAIN y.edges)

\* Where a step may leave the iterators.
LEMMA Landings ==
  ASSUME NEW x, IsIndex(x), NEW y, IsIndex(y), NEW xi \in x.cells, NEW yi \in y.cells,
         contains(xi, yi), NEW xn, xn \in {xi, Next1(x.cells, xi)},
         NEW yn, yn \in {SeekBeyond(y.cells, xi), Next1(y.cells, Max(Within(y, xi, yi)))}
  PROVE  /\ xn \in x.cells \cup {Done} /\ yn \in y.cells \cup {Done}
         /\ \A c \in x.cells : c < xn => c <= xi
         /\ \A d \in y.cells : d < yn => d <= range_max(xi)
  <1>1. AreApart(x.cells) /\ AreApart(y.cells)
    BY IndexFacts
  <1>2. \A c \in x.cells : c \in Nat /\ c \in CellIds
    BY <1>1, Positions
  <1>3. /\ Next1(x.cells, xi) \in x.cells \cup {Done}
        /\ \A c \in x.cells : c < Next1(x.cells, xi) => c <= xi
    <2>1. xi + 1 \in Nat
      BY <1>2
    <2>2. /\ Next1(x.cells, xi) \in x.cells \cup {Done}
          /\ \A c \in x.cells : c < Next1(x.cells, xi) <=> c < xi + 1
      BY <1>1, <2>1, SeekPasses DEF Next1
    <2> QED
      BY <1>2, <2>2
  <1>4. \A c \in x.cells : c < xi => c <= xi
    BY <1>2
  <1>5. xi \in CellIds
    BY <1>2
  <1> QED
    BY <1>1, <1>3, <1>4, <1>5, SeekBeyondPasses, WithinPasses

LEMMA CrossingsTreat ==
  ASSUME NEW x, IsIndex(x), NEW y, IsIndex(y), NEW xi \in x.cells, NEW yi \in y.cells,
         contains(xi, yi)
  PROVE  LET r == VisitCrossings(x, y, xi, yi) IN Treats(x, y, xi, yi, r.pairs, r.xi, r.yi)
  <1> DEFINE r == VisitCrossings(x, y, xi, yi)
             within == Within(y, xi, yi)
  <1>1. r.pairs = IF EdgesIn(x, xi) # {} THEN Tested(x, y, xi, yi) ELSE {}
    BY DEF VisitCrossings
  <1>2. r.xi \in {xi, Next1(x.cells, xi)}
    BY DEF VisitCrossings
  <1>3. r.yi \in {SeekBeyond(y.cells, xi), Next1(y.cells, Max(within))}
    BY DEF VisitCrossings
  <1> HIDE DEF r
  <1>4. Treats(x, y, xi, yi, r.pairs, r.xi, r.yi)
    <2>1. /\ r.xi \in x.cells \cup {Done} /\ r.yi \in y.cells \cup {Done}
          /\ \A c \in x.cells : c < r.xi => c <= xi
          /\ \A d \in y.cells : d < r.yi => d <= range_max(xi)
      BY <1>2, <1>3, Landings
    <2>2. CASE EdgesIn(x, xi) = {}
      BY <1>1, <2>1, <2>2 DEF Treats
    <2>3. CASE EdgesIn(x, xi) # {}
      <3>1. r.pairs = Tested(x, y, xi, yi)
        BY <1>1, <2>3
      <3> QED
        BY <2>1, <3>1, TestedHas, TestedWithin DEF Treats
    <2> QED
      BY <2>2, <2>3
  <1> QED
    BY <1>4 DEF r

LEMMA RelationTreats ==
  ASSUME NEW x, IsIndex(x), NEW y, IsIndex(y), NEW xi \in x.cells, NEW yi \in y.cells,
         contains(xi, yi), NEW xt, NEW yt
  PROVE  LET r == HasCrossingRelation(x, y, xi, yi, xt, yt)
         IN  /\ Treats(x, y, xi, yi, r.pairs, r.xi, r.yi)
             /\ r.hit <=> /\ EdgesIn(x, xi) = {} /\ contains_center(x, xi) = xt
                          /\ \E id \in Within(y, xi, yi) : contains_center(y, id) = yt
  <1> DEFINE r == HasCrossingRelation(x, y, xi, yi, xt, yt)
             within == Within(y, xi, yi)
  <1>1. r.hit <=> /\ EdgesIn(x, xi) = {} /\ contains_center(x, xi) = xt
                  /\ \E id \in within : contains_center(y, id) = yt
    BY Zenon DEF HasCrossingRelation
  <1>2. r.pairs = IF EdgesIn(x, xi) # {} THEN Tested(x, y, xi, yi) ELSE {}
    BY Zenon DEF HasCrossingRelation
  <1>3. r.xi = Next1(x.cells, xi)
    BY Zenon DEF HasCrossingRelation
  <1>4. r.yi \in {SeekBeyond(y.cells, xi), Next1(y.cells, Max(within))}
    BY Zenon DEF HasCrossingRelation
  <1> HIDE DEF r
  <1>5. Treats(x, y, xi, yi, r.pairs, r.xi, r.yi)
    <2>1. r.xi \in {xi, Next1(x.cells, xi)}
      BY <1>3
    <2>2. CASE EdgesIn(x, xi) = {}
      BY <1>2, <1>4, <2>1, <2>2, Landings DEF Treats
    <2>3. CASE EdgesIn(x, xi) # {}
      BY <1>2, <1>4, <2>1, <2>3, Landings, TestedHas, TestedWithin DEF Treats
    <2> QED
      BY <2>2, <2>3
  <1> QED
    BY <1>1, <1>5 DEF r

\* What is newly passed has been treated.
LEMMA NewlyPassed ==
  ASSUME NEW x, IsIndex(x), NEW y, IsIndex(y), NEW xi \in x.cells, NEW yi \in y.cells,
         contains(xi, yi), xi # yi, NEW pairs, NEW xn, NEW yn,
         Treats(x, y, xi, yi, pairs, xn, yn),
         NEW c \in x.cells, NEW d \in y.cells, intersects(c, d) \/ intersects(d, c),
         c < xn \/ d < yn, ~(c < xi), ~(d < yi)
  PROVE  c = xi /\ d \in Within(y, xi, yi)
  <1>1. AreApart(x.cells) /\ AreApart(y.cells)
    BY IndexFacts
  <1>2. /\ c \in CellIds /\ d \in CellIds /\ xi \in CellIds /\ yi \in CellIds
        /\ c \in Nat /\ d \in Nat /\ xi \in Nat /\ yi \in Nat
    BY <1>1, Positions
  <1>3. /\ range_min(c) \in Nat /\ range_max(c) \in Nat /\ range_min(d) \in Nat
        /\ range_max(d) \in Nat /\ range_min(xi) \in Nat /\ range_max(xi) \in Nat
        /\ range_min(d) <= d /\ d <= range_max(d)
    BY <1>2, CellFacts
  <1>4. intersects(c, d) /\ intersects(d, c)
    BY <1>3 DEF intersects
  <1>5. CASE d < yn
    <2>1. d <= range_max(xi) /\ yi <= d
      BY <1>2, <1>5 DEF Treats
    <2>2. d \in Within(y, xi, yi)
      BY <2>1 DEF Within
    <2>3. contains(xi, d)
      BY <1>1, <1>2, <2>2, WithinCell
    <2>4. intersects(xi, c)
      BY <1>2, <1>4, <2>3, NestedOverlap
    <2> QED
      BY <2>2, <2>4 DEF IsIndex
  <1>6. CASE c < xn
    <2>1. c = xi
      BY <1>2, <1>6 DEF Treats
    <2>2. contains(xi, d) \/ contains(d, xi)
      BY <1>2, <1>4, <2>1, Overlap
    <2>3. ~contains(d, xi) \/ contains(xi, d)
      <3> SUFFICES ASSUME contains(d, xi) PROVE contains(xi, d)
        OBVIOUS
      <3>1. intersects(xi, yi)
        BY <1>2, NestedOverlap
      <3>2. intersects(d, yi)
        BY <1>2, <3>1, NestedOverlap
      <3>3. d = yi
        BY <3>2 DEF IsIndex
      <3> QED
        BY <3>3
    <2>4. d \in Within(y, xi, yi)
      BY <1>2, <1>3, <2>2, <2>3 DEF Within, contains
    <2> QED
      BY <2>1, <2>4
  <1> QED
    BY <1>5, <1>6

-----------------------------------------------------------------------------
(* The steps of a walk.                                                    *)

\* What a step does for two cells that it newly passes.
Treated(c, d, pairs, hit) ==
  /\ \A e \in EdgesIn(a, c), f \in EdgesIn(b, d) : Meet(a, c, e, b, d, f) => <<e, f>> \in pairs
  /\ mode = "relation" /\ BothTargets(c, d) => hit

LEMMA WalkStep ==
  ASSUME JoinInv, mode \in {"pairs", "relation"}, answer = "none",
         UNCHANGED <<a, b, mode, stop, target>>,
         ai' \in a.cells \cup {Done}, bi' \in b.cells \cup {Done},
         NEW pairs, pairs \subseteq (DOMAIN a.edges) \X (DOMAIN b.edges),
         NEW hit \in BOOLEAN, Visit(pairs, hit),
         hit => mode = "relation" /\ Meets # {},
         \A c \in a.cells, d \in b.cells :
           intersects(c, d) /\ (c < ai' \/ d < bi')
             => c < ai \/ d < bi \/ Treated(c, d, pairs, hit)
  PROVE  JoinInv'
  <1>1. visited' = visited \cup pairs /\ answer' \in {"stopped", "none"}
        /\ (answer' = "stopped" <=> hit \/ stop \in pairs)
    <2>1. answer' = IF hit \/ stop \in pairs THEN "stopped" ELSE "none"
      BY Zenon DEF Visit
    <2>2. "stopped" # "none"
      OBVIOUS
    <2> QED
      BY <2>1, <2>2 DEF Visit
  <1>2. JoinTypes'
    BY DEF JoinInv, JoinTypes, IsIndex, EdgesIn
  <1>3. ASSUME answer' # "stopped" PROVE \A p \in Passed' : Handled(p[1], p[2])'
    <2> SUFFICES ASSUME NEW c \in a.cells, NEW d \in b.cells, intersects(c, d),
                        c < ai' \/ d < bi'
                 PROVE  Handled(c, d)'
      BY DEF Passed
    <2>1. CASE c < ai \/ d < bi
      <3>1. <<c, d>> \in Passed
        BY <2>1 DEF Passed
      <3>2. Handled(c, d)
        BY <3>1 DEF JoinInv, WalkInv
      <3> QED
        BY <1>1, <3>2 DEF Handled, Meet, BothTargets, EdgesIn, contains_center
    <2>2. CASE Treated(c, d, pairs, hit)
      <3>1. ~hit
        BY <1>1, <1>3
      <3> QED
        BY <1>1, <2>2, <3>1 DEF Treated, Handled, Meet, BothTargets, EdgesIn, contains_center
    <2> QED
      BY <2>1, <2>2
  <1>4. WalkInv'
    <2>1. stop \in SharedLeaf(a, b) \cup {<<>>} /\ stop \notin visited
      BY DEF JoinInv, WalkInv
    <2>2. answer' # "stopped" => stop \notin visited'
      BY <1>1, <2>1
    <2>3. answer' = "stopped" \/ answer' = "none"
      BY <1>1
    <2> QED
      BY <1>3, <2>1, <2>2, <2>3 DEF WalkInv, SharedLeaf
  <1>5. StopInv'
    <2>1. stop \in pairs => stop # <<>>
      BY SMT
    <2>2. Meets' = Meets
      BY DEF Meets
    <2> QED
      BY <1>1, <2>1, <2>2 DEF StopInv
  <1>6. CellsInv' /\ QueriesFindAll'
    BY DEF CellsInv, QueriesFindAll
  <1> QED
    BY <1>2, <1>4, <1>5, <1>6 DEF JoinInv

\* A cell that starts before the cell of an iterator has been passed.
LEMMA BesideIsPassed ==
  ASSUME NEW T, AreApart(T), NEW at \in T \cup {Done}, NEW d \in T, NEW n \in Nat,
         range_min(d) <= n, n < RangeMin(at)
  PROVE  d < at
  <1>1. /\ RangeMin(at) \in Nat /\ at \in Nat /\ RangeMin(at) <= at
        /\ d \in Nat /\ d < Done /\ d \in CellIds
        /\ at \in T => RangeMin(at) = range_min(at) /\ at \in CellIds
    BY Positions
  <1>2. range_min(d) \in Nat
    BY <1>1, CellFacts
  <1>3. CASE at \in T
    <2>1. at < d => range_max(at) < range_min(d)
      BY <1>3, ApartInOrder
    <2>2. at \in Nat /\ range_max(at) \in Nat /\ range_min(at) \in Nat
          /\ range_min(at) <= at /\ at <= range_max(at)
      BY <1>1, <1>3, CellFacts
    <2> QED
      BY <1>1, <1>2, <1>3, <2>1, <2>2
  <1> QED
    BY <1>1, <1>3

LEMMA JoinFacts ==
  ASSUME JoinInv
  PROVE  /\ AreApart(a.cells) /\ AreApart(b.cells)
         /\ ai \in a.cells \cup {Done} /\ bi \in b.cells \cup {Done}
         /\ \A c \in a.cells \cup b.cells : /\ c \in CellIds /\ c \in Nat
                                            /\ range_min(c) \in Nat /\ range_max(c) \in Nat
  <1>1. AreApart(a.cells) /\ AreApart(b.cells)
    BY IndexFacts DEF JoinInv, JoinTypes
  <1> QED
    BY <1>1, CellFacts DEF AreApart, JoinInv, JoinTypes

\* Where an iterator seeks the other, it passes only what the other has passed.
LEMMA SeekToSkips ==
  ASSUME JoinInv, NEW c \in a.cells, NEW d \in b.cells, intersects(c, d)
  PROVE  /\ c < SeekTo(a.cells, bi) => d < bi
         /\ d < SeekTo(b.cells, ai) => c < ai
  <1>1. /\ AreApart(a.cells) /\ AreApart(b.cells)
        /\ ai \in a.cells \cup {Done} /\ bi \in b.cells \cup {Done}
        /\ range_min(c) \in Nat /\ range_max(c) \in Nat
        /\ range_min(d) \in Nat /\ range_max(d) \in Nat
    BY JoinFacts
  <1>2. ai \in CellIds \cup {Done} /\ bi \in CellIds \cup {Done}
    BY <1>1 DEF AreApart
  <1>3. range_min(d) <= range_max(c) /\ range_min(c) <= range_max(d)
    BY <1>1 DEF intersects
  <1>4. c < SeekTo(a.cells, bi) => d < bi
    <2>1. c < SeekTo(a.cells, bi) => range_max(c) < RangeMin(bi)
      BY <1>1, <1>2, SeekToPasses
    <2> QED
      BY <1>1, <1>3, <2>1, BesideIsPassed
  <1>5. d < SeekTo(b.cells, ai) => c < ai
    <2>1. d < SeekTo(b.cells, ai) => range_max(d) < RangeMin(ai)
      BY <1>1, <1>2, SeekToPasses
    <2> QED
      BY <1>1, <1>3, <2>1, BesideIsPassed
  <1> QED
    BY <1>4, <1>5

LEMMA SkipKeeps ==
  ASSUME JoinInv, Skip
  PROVE  JoinInv'
  <1>1. mode \in {"pairs", "relation"} /\ answer = "none"
        /\ UNCHANGED <<a, b, mode, stop, target>> /\ UNCHANGED <<visited, answer>>
    BY DEF Skip, Moved
  <1>2. \/ ai' = SeekTo(a.cells, bi) /\ bi' = bi
        \/ ai' = ai /\ bi' = SeekTo(b.cells, ai)
    BY DEF Skip, Moved
  <1>3. ai' \in a.cells \cup {Done} /\ bi' \in b.cells \cup {Done}
    <2>1. /\ AreApart(a.cells) /\ AreApart(b.cells)
          /\ ai \in a.cells \cup {Done} /\ bi \in b.cells \cup {Done}
      BY JoinFacts
    <2>2. ai \in CellIds \cup {Done} /\ bi \in CellIds \cup {Done}
      BY <2>1 DEF AreApart
    <2> QED
      BY <1>2, <2>1, <2>2, SeekToPasses
  <1>4. Visit({}, FALSE)
    BY <1>1, Zenon DEF Visit
  <1>5. \A c \in a.cells, d \in b.cells :
          intersects(c, d) /\ (c < ai' \/ d < bi') => c < ai \/ d < bi
    BY <1>2, SeekToSkips
  <1>6. {} \subseteq (DOMAIN a.edges) \X (DOMAIN b.edges) /\ FALSE \in BOOLEAN
    OBVIOUS
  <1> QED
    BY <1>1, <1>3, <1>4, <1>5, <1>6, WalkStep

\* The cells of two iterators that overlap.
LEMMA Meeting ==
  ASSUME JoinInv, ~Ended, RangeMax(ai) >= RangeMin(bi), RangeMax(bi) >= RangeMin(ai)
  PROVE  /\ ai \in a.cells /\ bi \in b.cells /\ ai \in CellIds /\ bi \in CellIds
         /\ intersects(ai, bi) /\ intersects(bi, ai)
         /\ IsIndex(a) /\ IsIndex(b)
  <1>1. /\ AreApart(a.cells) /\ AreApart(b.cells)
        /\ ai \in a.cells \cup {Done} /\ bi \in b.cells \cup {Done}
        /\ IsIndex(a) /\ IsIndex(b)
    BY JoinFacts DEF JoinInv, JoinTypes
  <1>2. /\ Done \in Nat /\ RangeMin(Done) = Done
        /\ ai \in a.cells => RangeMin(ai) = range_min(ai) /\ RangeMax(ai) = range_max(ai)
                             /\ ai \in CellIds /\ range_max(ai) < Done /\ range_max(ai) \in Nat
        /\ bi \in b.cells => RangeMin(bi) = range_min(bi) /\ RangeMax(bi) = range_max(bi)
                             /\ bi \in CellIds /\ range_max(bi) < Done /\ range_max(bi) \in Nat
    BY <1>1, Positions, CellFacts
  <1>3. ai # Done
    <2> SUFFICES ASSUME ai = Done PROVE FALSE
      OBVIOUS
    <2>1. bi \in b.cells
      BY <1>1 DEF Ended
    <2>2. range_max(bi) >= Done
      BY <1>2, <2>1
    <2> QED
      BY <1>2, <2>1, <2>2
  <1>4. bi # Done
    <2> SUFFICES ASSUME bi = Done PROVE FALSE
      OBVIOUS
    <2>1. ai \in a.cells
      BY <1>1 DEF Ended
    <2>2. range_max(ai) >= Done
      BY <1>2, <2>1
    <2> QED
      BY <1>2, <2>1, <2>2
  <1>5. ai \in a.cells /\ bi \in b.cells
    BY <1>1, <1>3, <1>4
  <1>6. /\ range_min(ai) \in Nat /\ range_max(ai) \in Nat
        /\ range_min(bi) \in Nat /\ range_max(bi) \in Nat
    BY <1>2, <1>5, CellFacts
  <1>7. range_max(ai) >= range_min(bi) /\ range_max(bi) >= range_min(ai)
    BY <1>2, <1>5
  <1>8. intersects(ai, bi) /\ intersects(bi, ai)
    BY <1>6, <1>7 DEF intersects
  <1> QED
    BY <1>1, <1>2, <1>5, <1>8

\* The points that decide a relation.
LEMMA HitMeets ==
  ASSUME NEW x, IsIndex(x), NEW y, IsIndex(y), NEW c \in x.cells, NEW d \in y.cells,
         contains(c, d), EdgesIn(x, c) = {}
  PROVE  \E leaf \in LeafIds :
           /\ contains_center(x, c) = IF leaf \in x.inside THEN 1 ELSE 0
           /\ contains_center(y, d) = IF leaf \in y.inside THEN 1 ELSE 0
  <1>1. c \in CellIds /\ d \in CellIds
    BY DEF IsIndex
  <1>2. Center(d) \in LeafIds /\ Center(d) \in Leaves(d)
    BY <1>1, CenterInCell
  <1>3. Center(d) \in Leaves(c)
    BY <1>1, <1>2, LeavesNest
  <1>4. contains_center(x, c) = IF Center(d) \in x.inside THEN 1 ELSE 0
    BY <1>3, CenterSpeaks
  <1>5. contains_center(y, d) = IF Center(d) \in y.inside THEN 1 ELSE 0
    BY DEF contains_center
  <1> QED
    BY <1>2, <1>4, <1>5

\* A step at a cell of a around one of b.
LEMMA StepAroundB ==
  ASSUME IsIndex(a), IsIndex(b), ai \in a.cells, bi \in b.cells, contains(ai, bi), ai # bi,
         NEW pairs, Treats(a, b, ai, bi, pairs, ai', bi'), NEW hit \in BOOLEAN,
         (/\ mode = "relation" /\ EdgesIn(a, ai) = {} /\ contains_center(a, ai) = target.a
          /\ \E id \in Within(b, ai, bi) : contains_center(b, id) = target.b) => hit,
         NEW c \in a.cells, NEW d \in b.cells, intersects(c, d), c < ai' \/ d < bi'
  PROVE  c < ai \/ d < bi \/ Treated(c, d, pairs, hit)
  <1> SUFFICES ASSUME ~(c < ai), ~(d < bi) PROVE Treated(c, d, pairs, hit)
    OBVIOUS
  <1>1. c = ai /\ d \in Within(b, ai, bi)
    <2>1. \A xn, yn : Treats(a, b, ai, bi, pairs, xn, yn) /\ (c < xn \/ d < yn)
            => c = ai /\ d \in Within(b, ai, bi)
      BY NewlyPassed
    <2> QED
      BY <2>1
  <1>2. \A e \in EdgesIn(a, c), f \in EdgesIn(b, d) :
          Meet(a, c, e, b, d, f) => <<e, f>> \in pairs
    BY <1>1 DEF Treats
  <1>3. mode = "relation" /\ BothTargets(c, d) => hit
    BY <1>1 DEF BothTargets
  <1> QED
    BY <1>2, <1>3 DEF Treated

\* A step at a cell of b around one of a.
LEMMA StepAroundA ==
  ASSUME IsIndex(a), IsIndex(b), ai \in a.cells, bi \in b.cells, contains(bi, ai), ai # bi,
         NEW pairs, Treats(b, a, bi, ai, pairs, bi', ai'), NEW hit \in BOOLEAN,
         (/\ mode = "relation" /\ EdgesIn(b, bi) = {} /\ contains_center(b, bi) = target.b
          /\ \E id \in Within(a, bi, ai) : contains_center(a, id) = target.a) => hit,
         NEW c \in a.cells, NEW d \in b.cells, intersects(c, d), c < ai' \/ d < bi'
  PROVE  c < ai \/ d < bi \/ Treated(c, d, Swap(pairs), hit)
  <1> SUFFICES ASSUME ~(c < ai), ~(d < bi) PROVE Treated(c, d, Swap(pairs), hit)
    OBVIOUS
  <1>1. d = bi /\ c \in Within(a, bi, ai)
    <2>1. \A xn, yn : Treats(b, a, bi, ai, pairs, xn, yn) /\ (d < xn \/ c < yn)
            => d = bi /\ c \in Within(a, bi, ai)
      BY NewlyPassed
    <2> QED
      BY <2>1
  <1>2. ASSUME NEW e \in EdgesIn(a, c), NEW f \in EdgesIn(b, d), Meet(a, c, e, b, d, f)
        PROVE  <<e, f>> \in Swap(pairs)
    <2>1. Meet(b, d, f, a, c, e)
      BY <1>2 DEF Meet
    <2>2. <<f, e>> \in pairs
      BY <1>1, <2>1 DEF Treats
    <2>3. << <<f, e>>[2], <<f, e>>[1] >> \in Swap(pairs)
      BY <2>2 DEF Swap
    <2> QED
      BY <2>3
  <1>3. mode = "relation" /\ BothTargets(c, d) => hit
    BY <1>1 DEF BothTargets
  <1> QED
    BY <1>2, <1>3 DEF Treated

LEMMA SwapWithin ==
  ASSUME NEW S, NEW T, NEW pairs, pairs \subseteq S \X T
  PROVE  Swap(pairs) \subseteq T \X S
  BY DEF Swap

\* A step at equal cells.
LEMMA StepTogether ==
  ASSUME JoinInv, ai \in a.cells, bi \in b.cells, ai = bi,
         ai' = Next1(a.cells, ai), bi' = Next1(b.cells, bi), NEW hit \in BOOLEAN,
         mode = "relation" /\ contains_center(a, ai) = target.a
           /\ contains_center(b, bi) = target.b => hit
  PROVE  /\ ai' \in a.cells \cup {Done} /\ bi' \in b.cells \cup {Done}
         /\ EdgesIn(a, ai) \X EdgesIn(b, bi) \subseteq (DOMAIN a.edges) \X (DOMAIN b.edges)
         /\ \A c \in a.cells, d \in b.cells :
              intersects(c, d) /\ (c < ai' \/ d < bi')
                => c < ai \/ d < bi \/ Treated(c, d, EdgesIn(a, ai) \X EdgesIn(b, bi), hit)
  <1>1. /\ AreApart(a.cells) /\ AreApart(b.cells)
        /\ \A c \in a.cells \cup b.cells : /\ c \in CellIds /\ c \in Nat
                                           /\ range_min(c) \in Nat /\ range_max(c) \in Nat
    BY JoinFacts
  <1>2. ai + 1 \in Nat /\ bi + 1 \in Nat
    BY <1>1
  <1>3. /\ ai' \in a.cells \cup {Done} /\ \A c \in a.cells : c < ai' <=> c < ai + 1
        /\ bi' \in b.cells \cup {Done} /\ \A d \in b.cells : d < bi' <=> d < bi + 1
    BY <1>1, <1>2, SeekPasses DEF Next1
  <1>4. EdgesIn(a, ai) \X EdgesIn(b, bi) \subseteq (DOMAIN a.edges) \X (DOMAIN b.edges)
    BY DEF EdgesIn
  <1>5. ASSUME NEW c \in a.cells, NEW d \in b.cells, intersects(c, d), c < ai' \/ d < bi',
               ~(c < ai), ~(d < bi)
        PROVE  c = ai /\ d = bi
    <2>1. c = ai \/ d = bi
      BY <1>1, <1>3, <1>5
    <2>2. intersects(d, c)
      BY <1>1, <1>5 DEF intersects
    <2>3. c = ai => d = bi
      BY <1>1, <1>5 DEF AreApart
    <2>4. d = bi => c = ai
      BY <1>1, <2>2 DEF AreApart
    <2> QED
      BY <2>1, <2>3, <2>4
  <1>6. Treated(ai, bi, EdgesIn(a, ai) \X EdgesIn(b, bi), hit)
    BY DEF Treated, BothTargets
  <1> QED
    BY <1>3, <1>4, <1>5, <1>6

LEMMA CrossKeeps ==
  ASSUME JoinInv, Cross
  PROVE  JoinInv'
  <1>1. /\ mode = "pairs" /\ answer = "none" /\ ~Ended
        /\ RangeMax(ai) >= RangeMin(bi) /\ RangeMax(bi) >= RangeMin(ai)
    BY DEF Cross
  <1>2. /\ ai \in a.cells /\ bi \in b.cells /\ ai \in CellIds /\ bi \in CellIds
        /\ intersects(ai, bi) /\ intersects(bi, ai) /\ IsIndex(a) /\ IsIndex(b)
    BY <1>1, Meeting
  <1>3. mode # "relation" /\ FALSE \in BOOLEAN
    BY <1>1
  <1>4. CASE /\ lsb(ai) > lsb(bi)
             /\ LET r == VisitCrossings(a, b, ai, bi)
                IN  Moved(r.xi, r.yi) /\ Visit(r.pairs, FALSE)
    <2> DEFINE r == VisitCrossings(a, b, ai, bi)
    <2>1. contains(ai, bi) /\ ai # bi
      BY <1>2, <1>4, Overlap
    <2>2. PICK P, X, Y : P = r.pairs /\ X = r.xi /\ Y = r.yi
      OBVIOUS
    <2>3. Treats(a, b, ai, bi, P, X, Y)
      BY <1>2, <2>1, <2>2, CrossingsTreat
    <2>4. ai' = X /\ bi' = Y /\ UNCHANGED <<a, b, mode, stop, target>> /\ Visit(P, FALSE)
      BY <1>4, <2>2 DEF Moved
    <2>5. Treats(a, b, ai, bi, P, ai', bi')
      BY <2>3, <2>4
    <2>6. \A c \in a.cells, d \in b.cells :
            intersects(c, d) /\ (c < ai' \/ d < bi')
              => c < ai \/ d < bi \/ Treated(c, d, P, FALSE)
      BY <1>2, <1>3, <2>1, <2>5, StepAroundB
    <2>7. /\ ai' \in a.cells \cup {Done} /\ bi' \in b.cells \cup {Done}
          /\ P \subseteq (DOMAIN a.edges) \X (DOMAIN b.edges)
      BY <2>5 DEF Treats
    <2> QED
      BY <1>1, <1>3, <2>4, <2>6, <2>7, WalkStep
  <1>5. CASE /\ lsb(ai) < lsb(bi)
             /\ LET r == VisitCrossings(b, a, bi, ai)
                IN  Moved(r.yi, r.xi) /\ Visit(Swap(r.pairs), FALSE)
    <2> DEFINE r == VisitCrossings(b, a, bi, ai)
    <2>1. contains(bi, ai) /\ ai # bi
      <3>1. lsb(bi) > lsb(ai)
        BY <1>2, <1>5, CellForm
      <3> QED
        BY <1>2, <3>1, Overlap
    <2>2. PICK P, X, Y : P = r.pairs /\ X = r.xi /\ Y = r.yi
      OBVIOUS
    <2>3. Treats(b, a, bi, ai, P, X, Y)
      BY <1>2, <2>1, <2>2, CrossingsTreat
    <2>4. ai' = Y /\ bi' = X /\ UNCHANGED <<a, b, mode, stop, target>> /\ Visit(Swap(P), FALSE)
      BY <1>5, <2>2 DEF Moved
    <2>5. Treats(b, a, bi, ai, P, bi', ai')
      BY <2>3, <2>4
    <2>6. \A c \in a.cells, d \in b.cells :
            intersects(c, d) /\ (c < ai' \/ d < bi')
              => c < ai \/ d < bi \/ Treated(c, d, Swap(P), FALSE)
      BY <1>2, <1>3, <2>1, <2>5, StepAroundA
    <2>7. /\ ai' \in a.cells \cup {Done} /\ bi' \in b.cells \cup {Done}
          /\ Swap(P) \subseteq (DOMAIN a.edges) \X (DOMAIN b.edges)
      BY <2>5, SwapWithin DEF Treats
    <2> QED
      BY <1>1, <1>3, <2>4, <2>6, <2>7, WalkStep
  <1>6. CASE /\ lsb(ai) = lsb(bi)
             /\ Moved(Next1(a.cells, ai), Next1(b.cells, bi))
             /\ Visit(EdgesIn(a, ai) \X EdgesIn(b, bi), FALSE)
    <2>1. ai = bi
      BY <1>2, <1>6, Overlap
    <2>2. /\ ai' = Next1(a.cells, ai) /\ bi' = Next1(b.cells, bi)
          /\ UNCHANGED <<a, b, mode, stop, target>>
      BY <1>6 DEF Moved
    <2>3. PICK P : P = EdgesIn(a, ai) \X EdgesIn(b, bi)
      OBVIOUS
    <2>4. /\ ai' \in a.cells \cup {Done} /\ bi' \in b.cells \cup {Done}
          /\ P \subseteq (DOMAIN a.edges) \X (DOMAIN b.edges)
          /\ \A c \in a.cells, d \in b.cells :
               intersects(c, d) /\ (c < ai' \/ d < bi')
                 => c < ai \/ d < bi \/ Treated(c, d, P, FALSE)
      BY <1>2, <1>3, <2>1, <2>2, <2>3, StepTogether
    <2>5. Visit(P, FALSE)
      BY <1>6, <2>3
    <2> QED
      BY <1>1, <1>3, <2>2, <2>4, <2>5, WalkStep
  <1> QED
    BY <1>4, <1>5, <1>6 DEF Cross

\* Meets is what an edge-free cell around another one shows of both indexes.
LEMMA CentersMeet ==
  ASSUME IsIndex(a), IsIndex(b), NEW c \in a.cells, NEW d \in b.cells,
         contains_center(a, c) = target.a, contains_center(b, d) = target.b,
         \/ contains(c, d) /\ EdgesIn(a, c) = {}
         \/ contains(d, c) /\ EdgesIn(b, d) = {}
         \/ c = d
  PROVE  Meets # {}
  <1>1. \E leaf \in LeafIds :
           /\ contains_center(a, c) = IF leaf \in a.inside THEN 1 ELSE 0
           /\ contains_center(b, d) = IF leaf \in b.inside THEN 1 ELSE 0
    <2>1. CASE contains(c, d) /\ EdgesIn(a, c) = {}
      BY <2>1, HitMeets
    <2>2. CASE contains(d, c) /\ EdgesIn(b, d) = {}
      BY <2>2, HitMeets
    <2>3. CASE c = d
      <3>1. Center(c) \in LeafIds
        BY CenterInCell DEF IsIndex
      <3> QED
        BY <2>3, <3>1 DEF contains_center
    <2> QED
      BY <2>1, <2>2, <2>3
  <1> QED
    BY <1>1 DEF Meets

LEMMA RelateKeeps ==
  ASSUME JoinInv, Relate
  PROVE  JoinInv'
  <1>1. /\ mode = "relation" /\ answer = "none" /\ ~Ended
        /\ RangeMax(ai) >= RangeMin(bi) /\ RangeMax(bi) >= RangeMin(ai)
    BY DEF Relate
  <1>2. /\ ai \in a.cells /\ bi \in b.cells /\ ai \in CellIds /\ bi \in CellIds
        /\ intersects(ai, bi) /\ intersects(bi, ai) /\ IsIndex(a) /\ IsIndex(b)
    BY <1>1, Meeting
  <1>3. mode \in {"pairs", "relation"}
    BY <1>1
  <1>4. CASE /\ lsb(ai) > lsb(bi)
             /\ LET r == HasCrossingRelation(a, b, ai, bi, target.a, target.b)
                IN  Moved(r.xi, r.yi) /\ Visit(r.pairs, r.hit)
    <2> DEFINE r == HasCrossingRelation(a, b, ai, bi, target.a, target.b)
               Hit == /\ EdgesIn(a, ai) = {} /\ contains_center(a, ai) = target.a
                      /\ \E id \in Within(b, ai, bi) : contains_center(b, id) = target.b
    <2>1. contains(ai, bi) /\ ai # bi
      BY <1>2, <1>4, Overlap
    <2>2. PICK P, X, Y : P = r.pairs /\ X = r.xi /\ Y = r.yi
      OBVIOUS
    <2>3. Treats(a, b, ai, bi, r.pairs, r.xi, r.yi) /\ (r.hit <=> Hit)
      BY <1>2, <2>1, RelationTreats
    <2> HIDE DEF r
    <2>4. ai' = X /\ bi' = Y /\ UNCHANGED <<a, b, mode, stop, target>> /\ Visit(P, Hit)
      <3>1. ai' = X /\ bi' = Y /\ UNCHANGED <<a, b, mode, stop, target>>
        BY <1>4, <2>2 DEF Moved, r
      <3>2. Visit(r.pairs, r.hit)
        BY <1>4 DEF r
      <3>3. Visit(P, Hit)
        BY <2>2, <2>3, <3>2, Zenon DEF Visit
      <3> QED
        BY <3>1, <3>3
    <2>5. Treats(a, b, ai, bi, P, ai', bi')
      BY <2>2, <2>3, <2>4
    <2>6. PICK hit \in BOOLEAN : hit <=> Hit
      <3>1. Hit \in BOOLEAN
        OBVIOUS
      <3> QED
        BY <3>1, Zenon
    <2>7. Visit(P, hit)
      BY <2>4, <2>6, Zenon DEF Visit
    <2>8. hit => Meets # {}
      <3>1. AreApart(b.cells)
        BY <1>2, IndexFacts
      <3>2. \A id \in Within(b, ai, bi) : id \in b.cells /\ contains(ai, id)
        BY <1>2, <2>1, <3>1, WithinCell
      <3> QED
        BY <1>2, <2>6, <3>2, CentersMeet
    <2>9. \A c \in a.cells, d \in b.cells :
            intersects(c, d) /\ (c < ai' \/ d < bi')
              => c < ai \/ d < bi \/ Treated(c, d, P, hit)
      BY <1>2, <2>1, <2>5, <2>6, StepAroundB
    <2>10. /\ ai' \in a.cells \cup {Done} /\ bi' \in b.cells \cup {Done}
           /\ P \subseteq (DOMAIN a.edges) \X (DOMAIN b.edges)
      BY <2>5 DEF Treats
    <2> HIDE DEF Hit
    <2> QED
      BY <1>1, <1>3, <2>4, <2>7, <2>8, <2>9, <2>10, WalkStep
  <1>5. CASE /\ lsb(ai) < lsb(bi)
             /\ LET r == HasCrossingRelation(b, a, bi, ai, target.b, target.a)
                IN  Moved(r.yi, r.xi) /\ Visit(Swap(r.pairs), r.hit)
    <2> DEFINE r == HasCrossingRelation(b, a, bi, ai, target.b, target.a)
               Hit == /\ EdgesIn(b, bi) = {} /\ contains_center(b, bi) = target.b
                      /\ \E id \in Within(a, bi, ai) : contains_center(a, id) = target.a
    <2>1. contains(bi, ai) /\ ai # bi
      <3>1. lsb(bi) > lsb(ai)
        BY <1>2, <1>5, CellForm
      <3> QED
        BY <1>2, <3>1, Overlap
    <2>2. PICK P, X, Y : P = r.pairs /\ X = r.xi /\ Y = r.yi
      OBVIOUS
    <2>3. Treats(b, a, bi, ai, r.pairs, r.xi, r.yi) /\ (r.hit <=> Hit)
      BY <1>2, <2>1, RelationTreats
    <2> HIDE DEF r
    <2>4. ai' = Y /\ bi' = X /\ UNCHANGED <<a, b, mode, stop, target>> /\ Visit(Swap(P), Hit)
      <3>1. ai' = Y /\ bi' = X /\ UNCHANGED <<a, b, mode, stop, target>>
        BY <1>5, <2>2 DEF Moved, r
      <3>2. Visit(Swap(r.pairs), r.hit)
        BY <1>5 DEF r
      <3>3. Visit(Swap(P), Hit)
        BY <2>2, <2>3, <3>2, Zenon DEF Visit
      <3> QED
        BY <3>1, <3>3
    <2>5. Treats(b, a, bi, ai, P, bi', ai')
      BY <2>2, <2>3, <2>4
    <2>6. PICK hit \in BOOLEAN : hit <=> Hit
      <3>1. Hit \in BOOLEAN
        OBVIOUS
      <3> QED
        BY <3>1, Zenon
    <2>7. Visit(Swap(P), hit)
      BY <2>4, <2>6, Zenon DEF Visit
    <2>8. hit => Meets # {}
      <3>1. AreApart(a.cells)
        BY <1>2, IndexFacts
      <3>2. \A id \in Within(a, bi, ai) : id \in a.cells /\ contains(bi, id)
        BY <1>2, <2>1, <3>1, WithinCell
      <3> QED
        BY <1>2, <2>6, <3>2, CentersMeet
    <2>9. \A c \in a.cells, d \in b.cells :
            intersects(c, d) /\ (c < ai' \/ d < bi')
              => c < ai \/ d < bi \/ Treated(c, d, Swap(P), hit)
      BY <1>2, <2>1, <2>5, <2>6, StepAroundA
    <2>10. /\ ai' \in a.cells \cup {Done} /\ bi' \in b.cells \cup {Done}
           /\ Swap(P) \subseteq (DOMAIN a.edges) \X (DOMAIN b.edges)
      BY <2>5, SwapWithin DEF Treats
    <2> HIDE DEF Hit
    <2> QED
      BY <1>1, <1>3, <2>4, <2>7, <2>8, <2>9, <2>10, WalkStep
  <1>6. CASE /\ lsb(ai) = lsb(bi)
             /\ Moved(Next1(a.cells, ai), Next1(b.cells, bi))
             /\ Visit(EdgesIn(a, ai) \X EdgesIn(b, bi),
                      contains_center(a, ai) = target.a /\ contains_center(b, bi) = target.b)
    <2> DEFINE Hit == contains_center(a, ai) = target.a /\ contains_center(b, bi) = target.b
    <2>1. ai = bi
      BY <1>2, <1>6, Overlap
    <2>2. /\ ai' = Next1(a.cells, ai) /\ bi' = Next1(b.cells, bi)
          /\ UNCHANGED <<a, b, mode, stop, target>>
      BY <1>6 DEF Moved
    <2>3. PICK P : P = EdgesIn(a, ai) \X EdgesIn(b, bi)
      OBVIOUS
    <2>4. PICK hit \in BOOLEAN : hit <=> Hit
      <3>1. Hit \in BOOLEAN
        OBVIOUS
      <3> QED
        BY <3>1, Zenon
    <2>5. /\ ai' \in a.cells \cup {Done} /\ bi' \in b.cells \cup {Done}
          /\ P \subseteq (DOMAIN a.edges) \X (DOMAIN b.edges)
          /\ \A c \in a.cells, d \in b.cells :
               intersects(c, d) /\ (c < ai' \/ d < bi')
                 => c < ai \/ d < bi \/ Treated(c, d, P, hit)
      BY <1>2, <2>1, <2>2, <2>3, <2>4, StepTogether
    <2>6. Visit(P, hit)
      BY <1>6, <2>3, <2>4, Zenon DEF Visit
    <2>7. hit => Meets # {}
      BY <1>2, <2>1, <2>4, CentersMeet
    <2> HIDE DEF Hit
    <2> QED
      BY <1>1, <1>3, <2>2, <2>5, <2>6, <2>7, WalkStep
  <1> QED
    BY <1>4, <1>5, <1>6 DEF Relate

LEMMA EndKeeps ==
  ASSUME JoinInv, EndJoin
  PROVE  JoinInv'
  <1>1. /\ mode \in {"pairs", "relation"} /\ answer = "none" /\ Ended /\ answer' = "finished"
        /\ UNCHANGED <<a, b, mode, stop, target, ai, bi, visited>>
    BY DEF EndJoin, Moved
  <1>2. JoinTypes' /\ Ended'
    BY <1>1 DEF JoinInv, JoinTypes, IsIndex, EdgesIn, Ended
  <1>3. WalkInv'
    <2>1. /\ \A p \in Passed : Handled(p[1], p[2])
          /\ stop \in SharedLeaf(a, b) \cup {<<>>} /\ stop \notin visited
      BY <1>1 DEF JoinInv, WalkInv
    <2>2. \A p \in Passed' : Handled(p[1], p[2])'
      BY <1>1, <2>1 DEF Passed, Handled, Meet, BothTargets, EdgesIn, contains_center
    <2> QED
      BY <1>1, <1>2, <2>1, <2>2 DEF WalkInv, SharedLeaf
  <1>4. StopInv' /\ CellsInv' /\ QueriesFindAll'
    BY <1>1 DEF StopInv, CellsInv, QueriesFindAll
  <1> QED
    BY <1>2, <1>3, <1>4 DEF JoinInv

-----------------------------------------------------------------------------
(* The join of cells and the queries.                                      *)

\* What appending an element adds.
LEMMA AppendAdds ==
  ASSUME NEW S, NEW s \in Seq(S), NEW e \in S
  PROVE  /\ Append(s, e) \in Seq(S) /\ ToSet(Append(s, e)) = ToSet(s) \cup {e}
         /\ IsInjective(s) /\ e \notin ToSet(s) => IsInjective(Append(s, e))
  <1> DEFINE t == Append(s, e)
  <1>1. /\ t \in Seq(S) /\ Len(t) = Len(s) + 1 /\ Len(s) \in Nat
        /\ DOMAIN s = 1 .. Len(s) /\ DOMAIN t = 1 .. Len(s) + 1
        /\ t[Len(s) + 1] = e /\ \A i \in 1 .. Len(s) : t[i] = s[i]
    OBVIOUS
  <1> HIDE DEF t
  <1>2. ToSet(t) = ToSet(s) \cup {e}
    <2>1. ToSet(t) = { t[i] : i \in 1 .. Len(s) + 1 } /\ ToSet(s) = { s[i] : i \in 1 .. Len(s) }
      BY <1>1 DEF ToSet
    <2>2. \A i \in 1 .. Len(s) + 1 : i \in 1 .. Len(s) \/ i = Len(s) + 1
      BY <1>1
    <2>3. Len(s) + 1 \in 1 .. Len(s) + 1 /\ \A i \in 1 .. Len(s) : i \in 1 .. Len(s) + 1
      BY <1>1
    <2> QED
      BY <1>1, <2>1, <2>2, <2>3
  <1>3. ASSUME IsInjective(s), e \notin ToSet(s) PROVE IsInjective(t)
    <2>1. \A i \in 1 .. Len(s) : s[i] # e
      BY <1>1, <1>3 DEF ToSet
    <2>2. \A i, j \in 1 .. Len(s) : s[i] = s[j] => i = j
      BY <1>1, <1>3 DEF IsInjective
    <2>3. \A i \in 1 .. Len(s) + 1 : i \in 1 .. Len(s) \/ i = Len(s) + 1
      BY <1>1
    <2>4. \A i, j \in 1 .. Len(s) + 1 : t[i] = t[j] => i = j
      BY <1>1, <2>1, <2>2, <2>3
    <2> QED
      BY <1>1, <2>4 DEF IsInjective
  <1> QED
    BY <1>1, <1>2, <1>3 DEF t

\* Where an iterator seeks the other it does not go back.
LEMMA SeekToForth ==
  ASSUME NEW T, AreApart(T), NEW pos \in T, NEW at \in CellIds \cup {Done},
         range_max(pos) < RangeMin(at), NEW c \in T, c < pos
  PROVE  c < SeekTo(T, at)
  <1>1. range_max(c) < range_min(pos)
    BY ApartInOrder
  <1>2. /\ range_min(pos) \in Nat /\ range_max(pos) \in Nat /\ range_max(c) \in Nat
        /\ range_min(pos) <= pos /\ pos <= range_max(pos) /\ pos \in Nat
    BY CellFacts DEF AreApart
  <1>3. RangeMin(at) \in Nat
    BY CellFacts, Positions DEF RangeMin
  <1>4. range_max(c) < RangeMin(at)
    BY <1>1, <1>2, <1>3
  <1> QED
    BY <1>4, SeekToPasses

\* At two cells that overlap the smaller one is passed, with the pair alone.
LEMMA PairPassed ==
  ASSUME JoinInv, ai \in a.cells, bi \in b.cells, intersects(ai, bi), a' = a, b' = b,
         ai' = (IF lsb(ai) <= lsb(bi) THEN Next1(a.cells, ai) ELSE ai),
         bi' = (IF lsb(bi) <= lsb(ai) THEN Next1(b.cells, bi) ELSE bi)
  PROVE  /\ ai' \in a.cells \cup {Done} /\ bi' \in b.cells \cup {Done}
         /\ Passed' = Passed \cup {<<ai, bi>>} /\ <<ai, bi>> \notin Passed
  <1>1. /\ AreApart(a.cells) /\ AreApart(b.cells)
        /\ \A c \in a.cells \cup b.cells : /\ c \in CellIds /\ c \in Nat
                                           /\ range_min(c) \in Nat /\ range_max(c) \in Nat
    BY JoinFacts
  <1>2. ai \in Nat /\ bi \in Nat /\ ai + 1 \in Nat /\ bi + 1 \in Nat /\ ai \in CellIds
        /\ bi \in CellIds
    BY <1>1
  <1>3. /\ Next1(a.cells, ai) \in a.cells \cup {Done}
        /\ \A c \in a.cells : c < Next1(a.cells, ai) <=> c < ai + 1
        /\ Next1(b.cells, bi) \in b.cells \cup {Done}
        /\ \A d \in b.cells : d < Next1(b.cells, bi) <=> d < bi + 1
    BY <1>1, <1>2, SeekPasses DEF Next1
  <1>4. /\ ai' \in a.cells \cup {Done} /\ bi' \in b.cells \cup {Done}
        /\ lsb(ai) <= lsb(bi) => \A c \in a.cells : c < ai' <=> c < ai \/ c = ai
        /\ ~(lsb(ai) <= lsb(bi)) => ai' = ai
        /\ lsb(bi) <= lsb(ai) => \A d \in b.cells : d < bi' <=> d < bi \/ d = bi
        /\ ~(lsb(bi) <= lsb(ai)) => bi' = bi
    <2>1. \A c \in a.cells : c < ai + 1 <=> c < ai \/ c = ai
      BY <1>1, <1>2
    <2>2. \A d \in b.cells : d < bi + 1 <=> d < bi \/ d = bi
      BY <1>1, <1>2
    <2> QED
      BY <1>3, <2>1, <2>2
  <1>5. lsb(ai) \in Nat /\ lsb(bi) \in Nat
    BY <1>2, CellForm
  <1>6. intersects(bi, ai)
    BY <1>1 DEF intersects
  <1>7. <<ai, bi>> \notin Passed
    <2>1. ~(ai < ai) /\ ~(bi < bi)
      BY <1>2
    <2> QED
      BY <2>1 DEF Passed
  <1>8. ASSUME NEW c \in a.cells, NEW d \in b.cells, intersects(c, d), ~(c < ai), ~(d < bi),
               c < ai' \/ d < bi'
        PROVE  c = ai /\ d = bi
    <2>1. (c = ai /\ lsb(ai) <= lsb(bi)) \/ (d = bi /\ lsb(bi) <= lsb(ai))
      BY <1>4, <1>8
    <2>2. intersects(d, c)
      BY <1>1, <1>8 DEF intersects
    <2>3. CASE c = ai /\ lsb(ai) <= lsb(bi)
      <3>1. contains(bi, ai)
        <4>1. lsb(ai) = lsb(bi) => contains(bi, ai)
          <5>1. lsb(ai) = lsb(bi) => ai = bi
            BY <1>2, Overlap
          <5>2. contains(bi, bi)
            BY <1>2, CellFacts DEF contains
          <5> QED
            BY <5>1, <5>2
        <4>2. lsb(bi) > lsb(ai) => contains(bi, ai)
          BY <1>2, <1>6, Overlap
        <4> QED
          BY <1>5, <2>3, <4>1, <4>2
      <3>2. intersects(bi, d)
        BY <1>1, <1>2, <1>8, <2>3, <3>1, NestedOverlap
      <3> QED
        BY <1>1, <2>3, <3>2 DEF AreApart
    <2>4. CASE d = bi /\ lsb(bi) <= lsb(ai)
      <3>1. contains(ai, bi)
        <4>1. lsb(ai) = lsb(bi) => contains(ai, bi)
          <5>1. lsb(ai) = lsb(bi) => ai = bi
            BY <1>2, Overlap
          <5>2. contains(ai, ai)
            BY <1>2, CellFacts DEF contains
          <5> QED
            BY <5>1, <5>2
        <4>2. lsb(ai) > lsb(bi) => contains(ai, bi)
          BY <1>2, Overlap
        <4> QED
          BY <1>5, <2>4, <4>1, <4>2
      <3>2. intersects(ai, c)
        BY <1>1, <1>2, <2>2, <2>4, <3>1, NestedOverlap
      <3> QED
        BY <1>1, <2>4, <3>2 DEF AreApart
    <2> QED
      BY <2>1, <2>3, <2>4
  <1>9. \A c \in a.cells, d \in b.cells : c < ai \/ d < bi => c < ai' \/ d < bi'
    BY <1>4
  <1>10. lsb(ai) <= lsb(bi) \/ lsb(bi) <= lsb(ai)
    BY <1>5
  <1>11. ai < ai' \/ bi < bi'
    BY <1>4, <1>10
  <1>12. \A c \in a.cells, d \in b.cells :
           intersects(c, d) => (c < ai' \/ d < bi'
                                  <=> (c < ai \/ d < bi) \/ (c = ai /\ d = bi))
    BY <1>8, <1>9, <1>11
  <1>13. Passed' = { p \in a.cells \X b.cells : intersects(p[1], p[2])
                                                /\ (p[1] < ai' \/ p[2] < bi') }
    BY DEF Passed
  <1>14. \A p \in a.cells \X b.cells : p \in Passed' <=> p \in Passed \/ p = <<ai, bi>>
    <2> TAKE p \in a.cells \X b.cells
    <2>1. PICK c \in a.cells, d \in b.cells : p = <<c, d>>
      OBVIOUS
    <2>2. p \in Passed' <=> intersects(c, d) /\ (c < ai' \/ d < bi')
      BY <1>13, <2>1
    <2>3. p \in Passed <=> intersects(c, d) /\ (c < ai \/ d < bi)
      BY <2>1 DEF Passed
    <2>4. p = <<ai, bi>> <=> c = ai /\ d = bi
      BY <2>1
    <2> QED
      BY <1>12, <2>2, <2>3, <2>4
  <1>15. Passed' \subseteq a.cells \X b.cells /\ Passed \subseteq a.cells \X b.cells
         /\ <<ai, bi>> \in a.cells \X b.cells
    BY <1>13 DEF Passed
  <1>16. Passed' = Passed \cup {<<ai, bi>>}
    <2> DEFINE P == Passed
               Q == Passed'
               A == a.cells \X b.cells
               e == <<ai, bi>>
    <2>1. Q \subseteq A /\ P \subseteq A /\ e \in A /\ \A p \in A : p \in Q <=> p \in P \/ p = e
      BY <1>14, <1>15
    <2> HIDE DEF P, Q, A, e
    <2>2. Q = P \cup {e}
      BY <2>1
    <2> QED
      BY <2>2 DEF P, Q, e
  <1> QED
    BY <1>4, <1>7, <1>16

LEMMA JoinCellsKeeps ==
  ASSUME JoinInv, JoinCells
  PROVE  JoinInv'
  <1>1. mode = "cells" /\ answer = "none" /\ UNCHANGED <<a, b, mode, stop, target>>
    BY DEF JoinCells, Moved
  <1>2. IsInjective(visited) /\ visited \in Seq(a.cells \X b.cells) /\ ToSet(visited) = Passed
    BY <1>1 DEF JoinInv, CellsInv
  <1>3. /\ AreApart(a.cells) /\ AreApart(b.cells)
        /\ ai \in a.cells \cup {Done} /\ bi \in b.cells \cup {Done}
        /\ \A c \in a.cells \cup b.cells : /\ c \in CellIds /\ c \in Nat
                                           /\ range_min(c) \in Nat /\ range_max(c) \in Nat
    BY JoinFacts
  <1>4. ASSUME ai' \in a.cells \cup {Done}, bi' \in b.cells \cup {Done}, CellsInv'
        PROVE  JoinInv'
    <2>1. JoinTypes'
      BY <1>1, <1>4 DEF JoinInv, JoinTypes, IsIndex, EdgesIn
    <2>2. WalkInv' /\ StopInv' /\ QueriesFindAll'
      BY <1>1 DEF WalkInv, StopInv, QueriesFindAll
    <2> QED
      BY <1>4, <2>1, <2>2 DEF JoinInv
  <1>5. CASE ai = Done \/ bi = Done
    <2>1. answer' = "finished" /\ visited' = visited /\ ai' = ai /\ bi' = bi
      BY <1>5 DEF JoinCells, Moved
    <2>2. Passed' = Passed
      BY <1>1, <2>1 DEF Passed
    <2>3. CellsInv'
      BY <1>1, <1>2, <1>5, <2>1, <2>2 DEF CellsInv
    <2> QED
      BY <1>3, <1>4, <2>1, <2>3
  <1>6. CASE ~(ai = Done \/ bi = Done)
    <2>1. ai \in a.cells /\ bi \in b.cells
      BY <1>3, <1>6
    <2>2. /\ RangeMin(ai) = range_min(ai) /\ RangeMax(ai) = range_max(ai) /\ ai \in CellIds
          /\ RangeMin(bi) = range_min(bi) /\ RangeMax(bi) = range_max(bi) /\ bi \in CellIds
          /\ range_min(ai) \in Nat /\ range_max(ai) \in Nat
          /\ range_min(bi) \in Nat /\ range_max(bi) \in Nat
      BY <1>3, <2>1, Positions
    <2>3. answer' = "none"
      BY <1>1, <1>6 DEF JoinCells
    <2>4. ASSUME Passed' = Passed, visited' = visited,
                 ai' \in a.cells \cup {Done}, bi' \in b.cells \cup {Done}
          PROVE  JoinInv'
      <3>1. CellsInv'
        BY <1>1, <1>2, <2>3, <2>4 DEF CellsInv
      <3> QED
        BY <1>4, <2>4, <3>1
    <2>5. CASE range_max(ai) < range_min(bi) /\ Moved(SeekTo(a.cells, bi), bi) /\ visited' = visited
      <3>1. ai' = SeekTo(a.cells, bi) /\ bi' = bi
        BY <2>5 DEF Moved
      <3>2. ai' \in a.cells \cup {Done}
        BY <1>3, <2>2, <3>1, SeekToPasses
      <3>3. \A c \in a.cells, d \in b.cells :
              intersects(c, d) => (c < ai' \/ d < bi' <=> c < ai \/ d < bi)
        <4> SUFFICES ASSUME NEW c \in a.cells, NEW d \in b.cells, intersects(c, d)
                     PROVE  c < ai' \/ d < bi' <=> c < ai \/ d < bi
          OBVIOUS
        <4>1. c < ai' => d < bi
          BY <3>1, SeekToSkips
        <4>2. c < ai => c < ai'
          BY <1>3, <2>1, <2>2, <2>5, <3>1, SeekToForth
        <4> QED
          BY <3>1, <4>1, <4>2
      <3>4. Passed' = Passed
        BY <1>1, <3>3 DEF Passed
      <3> QED
        BY <1>3, <2>4, <2>5, <3>1, <3>2, <3>4
    <2>6. CASE range_min(ai) > range_max(bi) /\ Moved(ai, SeekTo(b.cells, ai)) /\ visited' = visited
      <3>1. ai' = ai /\ bi' = SeekTo(b.cells, ai)
        BY <2>6 DEF Moved
      <3>2. bi' \in b.cells \cup {Done}
        BY <1>3, <2>2, <3>1, SeekToPasses
      <3>3. \A c \in a.cells, d \in b.cells :
              intersects(c, d) => (c < ai' \/ d < bi' <=> c < ai \/ d < bi)
        <4> SUFFICES ASSUME NEW c \in a.cells, NEW d \in b.cells, intersects(c, d)
                     PROVE  c < ai' \/ d < bi' <=> c < ai \/ d < bi
          OBVIOUS
        <4>1. d < bi' => c < ai
          BY <3>1, SeekToSkips
        <4>2. d < bi => d < bi'
          <5>1. range_max(bi) < RangeMin(ai)
            BY <2>2, <2>6
          <5> QED
            BY <1>3, <2>1, <2>2, <3>1, <5>1, SeekToForth
        <4> QED
          BY <3>1, <4>1, <4>2
      <3>4. Passed' = Passed
        BY <1>1, <3>3 DEF Passed
      <3> QED
        BY <1>3, <2>4, <2>6, <3>1, <3>2, <3>4
    <2>7. CASE /\ range_max(ai) >= range_min(bi) /\ range_min(ai) <= range_max(bi)
               /\ Moved(IF lsb(ai) <= lsb(bi) THEN Next1(a.cells, ai) ELSE ai,
                        IF lsb(bi) <= lsb(ai) THEN Next1(b.cells, bi) ELSE bi)
               /\ visited' = Append(visited, <<ai, bi>>)
      <3>1. intersects(ai, bi)
        BY <2>2, <2>7 DEF intersects
      <3>2. /\ ai' = (IF lsb(ai) <= lsb(bi) THEN Next1(a.cells, ai) ELSE ai)
            /\ bi' = (IF lsb(bi) <= lsb(ai) THEN Next1(b.cells, bi) ELSE bi)
        BY <2>7 DEF Moved
      <3>3. /\ ai' \in a.cells \cup {Done} /\ bi' \in b.cells \cup {Done}
            /\ Passed' = Passed \cup {<<ai, bi>>} /\ <<ai, bi>> \notin Passed
        BY <1>1, <2>1, <3>1, <3>2, PairPassed
      <3>4. <<ai, bi>> \in a.cells \X b.cells
        BY <2>1
      <3>5. /\ visited' \in Seq(a.cells \X b.cells) /\ ToSet(visited') = Passed'
            /\ IsInjective(visited')
        <4> DEFINE S == a.cells \X b.cells
                   e == <<ai, bi>>
        <4>1. visited \in Seq(S) /\ e \in S /\ IsInjective(visited) /\ e \notin ToSet(visited)
          BY <1>2, <3>3, <3>4
        <4> HIDE DEF S, e
        <4>2. /\ Append(visited, e) \in Seq(S)
              /\ ToSet(Append(visited, e)) = ToSet(visited) \cup {e}
              /\ IsInjective(Append(visited, e))
          BY <4>1, AppendAdds
        <4> QED
          BY <1>2, <2>7, <3>3, <4>2 DEF S, e
      <3>6. CellsInv'
        <4>1. ToSet(visited)' = ToSet(visited') /\ IsInjective(visited)' = IsInjective(visited')
          BY DEF ToSet, IsInjective
        <4> QED
          BY <1>1, <2>3, <3>5, <4>1 DEF CellsInv
      <3> QED
        BY <1>4, <3>3, <3>6
    <2> QED
      BY <1>6, <2>5, <2>6, <2>7 DEF JoinCells
  <1> QED
    BY <1>5, <1>6

\* A leaf cell of an edge is in a cell of the index, which has the edge.
LEMMA EdgeHasCell ==
  ASSUME NEW x, IsIndex(x), NEW e \in DOMAIN x.edges, NEW leaf \in x.edges[e]
  PROVE  \E c \in x.cells : c \in CellIds /\ leaf \in Leaves(c) /\ e \in EdgesIn(x, c)
  <1>1. PICK c \in x.cells : leaf \in Leaves(c)
    BY IndexFacts
  <1> QED
    BY <1>1 DEF EdgesIn, IsIndex

LEMMA AtOnceKeeps ==
  ASSUME JoinInv, mode \notin {"pairs", "relation", "cells"}, UNCHANGED <<a, b, mode, stop, target>>,
         UNCHANGED <<ai, bi>>, QueriesFindAll'
  PROVE  JoinInv'
  <1>1. JoinTypes'
    BY DEF JoinInv, JoinTypes, IsIndex, EdgesIn
  <1>2. WalkInv' /\ StopInv' /\ CellsInv'
    BY DEF WalkInv, StopInv, CellsInv
  <1> QED
    BY <1>1, <1>2 DEF JoinInv

LEMMA SelfKeeps ==
  ASSUME JoinInv, Self
  PROVE  JoinInv'
  <1> DEFINE In(id) == PairsOfCell(a, id)
  <1>1. /\ mode = "self" /\ answer' = "finished" /\ UNCHANGED <<a, b, mode, stop, target, ai, bi>>
        /\ visited' = UNION { In(id) : id \in a.cells }
    BY DEF Self, Moved
  <1>2. ASSUME NEW p \in SharedLeaf(a, a), p[1] < p[2], target = 1 \/ p \notin a.follows
        PROVE  p \in visited'
    <2>1. PICK e \in DOMAIN a.edges, f \in DOMAIN a.edges :
            p = <<e, f>> /\ a.edges[e] \cap a.edges[f] # {}
      BY <1>2 DEF SharedLeaf
    <2>2. PICK leaf : leaf \in a.edges[e] /\ leaf \in a.edges[f]
      BY <2>1
    <2>3. IsIndex(a)
      BY DEF JoinInv, JoinTypes
    <2>4. PICK c \in a.cells : leaf \in Leaves(c) /\ e \in EdgesIn(a, c)
      BY <2>2, <2>3, EdgeHasCell
    <2>5. f \in EdgesIn(a, c)
      BY <2>2, <2>4 DEF EdgesIn
    <2>6. p \in In(c)
      BY <1>2, <2>1, <2>4, <2>5 DEF PairsOfCell
    <2> HIDE DEF In
    <2> QED
      BY <1>1, <2>6
  <1>3. QueriesFindAll'
    BY <1>1, <1>2 DEF QueriesFindAll, SharedLeaf
  <1> QED
    BY <1>1, <1>3, AtOnceKeeps

LEMMA QueryEdgeKeeps ==
  ASSUME JoinInv, QueryEdge
  PROVE  JoinInv'
  <1>1. /\ mode = "query" /\ answer' = "finished" /\ UNCHANGED <<a, b, mode, stop, target, ai, bi>>
        /\ visited' = GetCandidates(a, b.edges[stop[1]]) \X {stop[1]}
    BY DEF QueryEdge, Moved
  <1>2. IsIndex(a) /\ IsIndex(b)
    BY DEF JoinInv, JoinTypes
  <1>3. ASSUME NEW p \in SharedLeaf(a, b), p[2] = stop[1]
        PROVE  p \in visited'
    <2>1. PICK e \in DOMAIN a.edges, f \in DOMAIN b.edges :
            p = <<e, f>> /\ a.edges[e] \cap b.edges[f] # {}
      BY <1>3 DEF SharedLeaf
    <2>2. PICK leaf : leaf \in a.edges[e] /\ leaf \in b.edges[f]
      BY <2>1
    <2>3. PICK c \in a.cells : leaf \in Leaves(c) /\ e \in EdgesIn(a, c)
      BY <1>2, <2>2, EdgeHasCell
    <2>4. AreApart(a.cells) /\ b.edges[f] \in SUBSET LeafIds
      BY <1>2, IndexFacts
    <2>5. c \in CellsOf(a, b.edges[f])
      BY <2>2, <2>3, <2>4, CellsOfFinds
    <2>6. e \in GetCandidates(a, b.edges[f])
      BY <2>3, <2>5 DEF GetCandidates
    <2>7. f = stop[1]
      BY <1>3, <2>1
    <2> QED
      BY <1>1, <2>1, <2>6, <2>7
  <1>4. QueriesFindAll'
    BY <1>1, <1>3 DEF QueriesFindAll, SharedLeaf
  <1> QED
    BY <1>1, <1>4, AtOnceKeeps

LEMMA JoinNearKeeps ==
  ASSUME JoinInv, JoinNear
  PROVE  JoinInv'
  <1>1. mode = "near" /\ UNCHANGED <<a, b, mode, stop, target, ai, bi>>
    BY DEF JoinNear, Moved
  <1>2. QueriesFindAll'
    BY <1>1 DEF QueriesFindAll
  <1> QED
    BY <1>1, <1>2, AtOnceKeeps

LEMMA JoinStarts ==
  ASSUME JoinInit
  PROVE  JoinInv
  <1>1. IsIndex(a) /\ IsIndex(b)
    BY PairsAssumption DEF JoinInit
  <1>2. ai = Seek(a.cells, 0) /\ bi = Seek(b.cells, 0) /\ answer = "none"
        /\ visited = (IF mode \in {"cells", "near"} THEN <<>> ELSE {})
    BY DEF JoinInit, Begin
  <1>3. 0 \in Nat /\ AreApart(a.cells) /\ AreApart(b.cells)
    BY <1>1, IndexFacts
  <1>4. /\ ai \in a.cells \cup {Done} /\ \A c \in a.cells : c < ai <=> c < 0
        /\ bi \in b.cells \cup {Done} /\ \A d \in b.cells : d < bi <=> d < 0
    BY <1>2, <1>3, SeekPasses
  <1>5. \A c \in a.cells \cup b.cells : ~(c < 0)
    <2>1. \A c \in a.cells \cup b.cells : c \in Nat
      BY <1>3, Positions
    <2> QED
      BY <2>1
  <1>6. Passed = {}
    BY <1>4, <1>5 DEF Passed
  <1>7. WalkInv
    <2> SUFFICES ASSUME mode \in {"pairs", "relation"} PROVE WalkInv
      BY DEF WalkInv
    <2>1. stop \in CASE mode \in {"pairs", "relation"} -> SharedLeaf(a, b) \cup {<<>>}
                     [] mode = "query" -> (DOMAIN b.edges) \X {0}
                     [] OTHER -> {<<>>}
      BY DEF JoinInit
    <2>2. mode # "query"
      OBVIOUS
    <2>3. stop \in SharedLeaf(a, b) \cup {<<>>}
      BY <2>1, <2>2
    <2>4. stop \notin visited
      BY <1>2
    <2> QED
      BY <1>2, <1>6, <2>3, <2>4 DEF WalkInv
  <1>8. StopInv /\ QueriesFindAll
    BY <1>2 DEF StopInv, QueriesFindAll
  <1>9. CellsInv
    <2> SUFFICES ASSUME mode = "cells" PROVE CellsInv
      BY DEF CellsInv
    <2>1. visited = <<>>
      BY <1>2
    <2>2. ToSet(<<>>) = {} /\ IsInjective(<<>>)
      BY DEF ToSet, IsInjective
    <2>3. <<>> \in Seq(a.cells \X b.cells)
      OBVIOUS
    <2> QED
      BY <1>2, <1>6, <2>1, <2>2, <2>3 DEF CellsInv
  <1> QED
    BY <1>1, <1>4, <1>7, <1>8, <1>9 DEF JoinInv, JoinTypes

\* A step of no walk changes nothing.
LEMMA JoinStutters ==
  ASSUME JoinInv, UNCHANGED join
  PROVE  JoinInv'
  <1>1. UNCHANGED <<a, b, mode, ai, bi, stop, target, visited, answer>>
    BY DEF join
  <1>2. JoinTypes'
    BY <1>1 DEF JoinInv, JoinTypes, IsIndex, EdgesIn
  <1>3. Passed' = Passed /\ Meets' = Meets
    BY <1>1 DEF Passed, Meets
  <1>4. WalkInv'
    <2>1. \A p \in Passed : Handled(p[1], p[2])' <=> Handled(p[1], p[2])
      BY <1>1 DEF Handled, BothTargets, Meet, EdgesIn, contains_center
    <2> QED
      BY <1>1, <1>3, <2>1 DEF JoinInv, WalkInv, Ended, SharedLeaf
  <1>5. StopInv' /\ CellsInv' /\ QueriesFindAll'
    BY <1>1, <1>3 DEF JoinInv, StopInv, CellsInv, QueriesFindAll, SharedLeaf
  <1> QED
    BY <1>2, <1>4, <1>5 DEF JoinInv

LEMMA JoinStep ==
  ASSUME JoinInv, [JoinNext]_join
  PROVE  JoinInv'
  <1>1. CASE Skip
    BY <1>1, SkipKeeps
  <1>2. CASE Cross
    BY <1>2, CrossKeeps
  <1>3. CASE Relate
    BY <1>3, RelateKeeps
  <1>4. CASE EndJoin
    BY <1>4, EndKeeps
  <1>5. CASE JoinCells
    BY <1>5, JoinCellsKeeps
  <1>6. CASE Self
    BY <1>6, SelfKeeps
  <1>7. CASE QueryEdge
    BY <1>7, QueryEdgeKeeps
  <1>8. CASE JoinNear
    BY <1>8, JoinNearKeeps
  <1>9. CASE UNCHANGED join
    BY <1>9, JoinStutters
  <1> QED
    BY <1>1, <1>2, <1>3, <1>4, <1>5, <1>6, <1>7, <1>8, <1>9 DEF JoinNext

-----------------------------------------------------------------------------
(* What the invariant says of the answers.                                 *)

\* The cells of a leaf that both iterators have passed are handled.
LEMMA PassedHandled ==
  ASSUME JoinInv, mode \in {"pairs", "relation"}, answer # "stopped",
         NEW c \in a.cells, NEW d \in b.cells, NEW leaf \in LeafIds,
         leaf \in Leaves(c), leaf \in Leaves(d),
         Ended \/ (leaf < RangeMin(ai) /\ leaf < RangeMin(bi))
  PROVE  Handled(c, d)
  <1>1. /\ AreApart(a.cells) /\ AreApart(b.cells)
        /\ ai \in a.cells \cup {Done} /\ bi \in b.cells \cup {Done}
        /\ c \in CellIds /\ d \in CellIds
    BY JoinFacts
  <1>2. intersects(c, d)
    BY <1>1, SharedOverlap
  <1>3. c < ai
    <2>1. CASE Ended
      BY <1>1, <2>1, Positions DEF Ended
    <2>2. CASE leaf < RangeMin(ai)
      <3>1. range_min(c) <= leaf /\ leaf \in Nat
        BY <1>1, CellFacts DEF Leaves, LeavesIn, LeafIds, contains
      <3> QED
        BY <1>1, <2>2, <3>1, BesideIsPassed
    <2> QED
      BY <2>1, <2>2
  <1>4. <<c, d>> \in Passed
    BY <1>2, <1>3 DEF Passed
  <1> QED
    BY <1>4 DEF JoinInv, WalkInv

\* Two edges that share a leaf cell share it in a cell of each index.
LEMMA SharedIsVisited ==
  ASSUME JoinInv, mode \in {"pairs", "relation"}, answer # "stopped",
         NEW e \in DOMAIN a.edges, NEW f \in DOMAIN b.edges,
         NEW leaf, leaf \in a.edges[e], leaf \in b.edges[f],
         Ended \/ (leaf < RangeMin(ai) /\ leaf < RangeMin(bi))
  PROVE  <<e, f>> \in visited
  <1>1. IsIndex(a) /\ IsIndex(b)
    BY DEF JoinInv, JoinTypes
  <1>2. leaf \in LeafIds
    BY <1>1, IndexFacts
  <1>3. PICK c \in a.cells : leaf \in Leaves(c) /\ e \in EdgesIn(a, c)
    BY <1>1, EdgeHasCell
  <1>4. PICK d \in b.cells : leaf \in Leaves(d) /\ f \in EdgesIn(b, d)
    BY <1>1, EdgeHasCell
  <1>5. Handled(c, d)
    BY <1>2, <1>3, <1>4, PassedHandled
  <1>6. Meet(a, c, e, b, d, f)
    BY <1>3, <1>4 DEF Meet
  <1> QED
    BY <1>3, <1>4, <1>5, <1>6 DEF Handled

LEMMA WalkFindsAll ==
  ASSUME JoinInv
  PROVE  JoinFindsAll
  <1> SUFFICES ASSUME mode \in {"pairs", "relation"}, answer # "stopped",
                      NEW p \in SharedLeaf(a, b),
                      NEW leaf \in IF answer = "finished" THEN LeafIds
                                   ELSE Before(ai) \cap Before(bi),
                      leaf \in a.edges[p[1]], leaf \in b.edges[p[2]]
               PROVE  p \in visited
    BY DEF JoinFindsAll
  <1>1. PICK e \in DOMAIN a.edges, f \in DOMAIN b.edges : p = <<e, f>>
    BY DEF SharedLeaf
  <1>2. Ended \/ (leaf < RangeMin(ai) /\ leaf < RangeMin(bi))
    BY DEF JoinInv, WalkInv, Before
  <1> QED
    BY <1>1, <1>2, SharedIsVisited

\* A walk to the end has met the pair to stop at, and every point of both
\* targets where there are no edges.
LEMMA WalkIsExact ==
  ASSUME JoinInv
  PROVE  RelationExact
  <1> DEFINE FreeOf(x) == UNION { Leaves(id) : id \in { id \in x.cells : EdgesIn(x, id) = {} } }
  <1> SUFFICES ASSUME mode = "relation", answer # "none"
               PROVE  /\ stop # <<>> \/ Meets \cap FreeOf(a) \cap FreeOf(b) # {} => answer = "stopped"
                      /\ answer = "stopped" => stop # <<>> \/ Meets # {}
    BY DEF RelationExact, Meets
  <1>1. IsIndex(a) /\ IsIndex(b)
    BY DEF JoinInv, JoinTypes
  <1>2. ASSUME stop # <<>>, answer # "stopped" PROVE FALSE
    <2>1. Ended /\ stop \in SharedLeaf(a, b) /\ stop \notin visited
      BY <1>2 DEF JoinInv, WalkInv
    <2>2. PICK e \in DOMAIN a.edges, f \in DOMAIN b.edges :
            stop = <<e, f>> /\ a.edges[e] \cap b.edges[f] # {}
      BY <2>1 DEF SharedLeaf
    <2>3. PICK leaf : leaf \in a.edges[e] /\ leaf \in b.edges[f]
      BY <2>2
    <2> QED
      BY <1>2, <2>1, <2>2, <2>3, SharedIsVisited
  <1>3. ASSUME NEW leaf \in Meets, leaf \in FreeOf(a), leaf \in FreeOf(b), answer # "stopped"
        PROVE  FALSE
    <2>1. PICK c \in a.cells : EdgesIn(a, c) = {} /\ leaf \in Leaves(c)
      BY <1>3
    <2>2. PICK d \in b.cells : EdgesIn(b, d) = {} /\ leaf \in Leaves(d)
      BY <1>3
    <2>3. contains_center(a, c) = target.a /\ contains_center(b, d) = target.b
      BY <1>1, <1>3, <2>1, <2>2, CenterSpeaks DEF Meets
    <2>4. BothTargets(c, d)
      BY <2>1, <2>2, <2>3 DEF BothTargets
    <2>5. Ended
      BY <1>3 DEF JoinInv, WalkInv
    <2>6. Handled(c, d)
      BY <1>3, <2>1, <2>2, <2>5, PassedHandled DEF Meets
    <2> QED
      BY <2>4, <2>6 DEF Handled
  <1> HIDE DEF FreeOf
  <1>4. answer = "stopped" => stop # <<>> \/ Meets # {}
    BY DEF JoinInv, StopInv
  <1> QED
    BY <1>2, <1>3, <1>4

\* At the end of an index, every pair of overlapping cells has been passed.
LEMMA CellsAreJoined ==
  ASSUME JoinInv
  PROVE  CellsJoinedOnce
  <1> SUFFICES ASSUME mode = "cells", answer = "finished" PROVE CellsJoinedOnce
    BY DEF CellsJoinedOnce
  <1>1. IsInjective(visited) /\ ToSet(visited) = Passed /\ (ai = Done \/ bi = Done)
    BY DEF JoinInv, CellsInv
  <1>2. AreApart(a.cells) /\ AreApart(b.cells)
    BY JoinFacts
  <1>3. (\A c \in a.cells : c < Done) /\ (\A d \in b.cells : d < Done)
    BY <1>2, Positions
  <1>4. Passed = { p \in a.cells \X b.cells : intersects(p[1], p[2]) }
    BY <1>1, <1>3 DEF Passed
  <1> QED
    BY <1>1, <1>4 DEF CellsJoinedOnce

\* The walks of VisitCrossingEdgePairs, HasCrossingRelation and ExactJoin, and
\* the edge query, meet what they have to meet: for all cells and edges of two
\* indexes, and at whatever number of edges a query replaces the walk.
THEOREM JoinsCorrect == JoinSpec => []JoinsExact
  <1>1. JoinInit => JoinInv
    BY JoinStarts
  <1>2. JoinInv /\ [JoinNext]_join => JoinInv'
    BY JoinStep
  <1>3. JoinInv => JoinsExact
    BY WalkFindsAll, WalkIsExact, CellsAreJoined DEF JoinInv, JoinsExact
  <1> QED
    BY <1>1, <1>2, <1>3, PTL DEF JoinSpec
=============================================================================
