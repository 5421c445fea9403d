------------------------------ MODULE S2IndexJoin ------------------------------
(***************************************************************************)
(* Joining two indexes along the space-filling curve:                      *)
(* src/s2/s2cell_range_iterator.h, src/s2/s2shapeutil_visit_crossing_edge_ *)
(* pairs.cc, S2Loop::HasCrossingRelation of src/s2/s2loop.cc,              *)
(* src/s2/s2crossing_edge_query.cc and src/s2/s2cell_iterator_join.h.      *)
(*                                                                         *)
(* An index is a set of disjoint cells; an edge is the set of leaf cells   *)
(* it passes through and belongs to every index cell that has one of       *)
(* them; inside is the interior of the indexed shape; follows has the      *)
(* pairs of an edge AB and an edge BC.  Edges that cross or meet share a   *)
(* leaf cell.  A step of the machine is an iteration of the   *)
(* loop that moves the two iterators.  Which edges cross is data: stop is  *)
(* the pair at which the visitor ends the join, <<>> if there is none.     *)
(***************************************************************************)
EXTENDS S2CellVector

CONSTANTS Pairs,                \* pairs of indexes to join
          Targets,              \* crossing targets of a loop relation
          Tolerances,           \* distances of the joins of cells
          kEdgeQueryMinEdges, kMaxBruteForceEdges, kMaxCrossProduct

VARIABLES a, b, mode, ai, bi, stop, target, visited, answer

join == <<a, b, mode, ai, bi, stop, target, visited, answer>>

-----------------------------------------------------------------------------
(* The iterators.                                                          *)

\* range_min_ and range_max_ after Refresh: the sentinel's when done.
RangeMin(pos) == IF pos = Done THEN Done ELSE range_min(pos)
RangeMax(pos) == IF pos = Done THEN Done ELSE range_max(pos)

Begin(cells) == Seek(cells, 0)
Next1(cells, pos) == Seek(cells, pos + 1)

\* Mutant: the cell before the one found is not looked at.
SeekToForward(cells, at) == Seek(cells, RangeMin(at))

SeekTo(cells, at) ==
  LET pos == Seek(cells, RangeMin(at))
  IN  IF /\ pos = Done \/ range_min(pos) > RangeMax(at)
         /\ HasPrev(cells, pos) /\ range_max(Prev(cells, pos)) >= at
      THEN Prev(cells, pos) ELSE pos

\* Mutant: the cell found is skipped if it ends after the target does.
SeekBeyondTwice(cells, at) ==
  LET pos == Seek(cells, next(range_max(at)))
  IN  IF pos # Done /\ range_max(pos) >= range_max(at) THEN Next1(cells, pos) ELSE pos

SeekBeyond(cells, at) ==
  LET pos == Seek(cells, next(range_max(at)))
  IN  IF pos # Done /\ range_min(pos) <= range_max(at) THEN Next1(cells, pos) ELSE pos

-----------------------------------------------------------------------------
(* What an index has.                                                      *)

EdgesIn(x, id) == { e \in DOMAIN x.edges : x.edges[e] \cap Leaves(id) # {} }

Center(id) == IF is_leaf(id) THEN id ELSE id + 1
contains_center(x, id) == IF Center(id) \in x.inside THEN 1 ELSE 0

\* The cells of y from yi to the end of the cell xi, which contains yi.
Within(y, xi, yi) == { id \in y.cells : yi <= id /\ id <= range_max(xi) }

\* S2CrossingEdgeQuery::VisitCells below a cell: the children that the edge
\* passes through are visited down to the cells of the index.
VisitCells(y, edge, root) ==
  LET visit[id \in CellIds] ==
        LET pos == Seek(y.cells, range_min(id))
        IN  IF Leaves(id) \cap edge = {} \/ pos = Done \/ pos > range_max(id) THEN {}
            ELSE IF pos = id THEN {id}
            ELSE UNION { visit[child(id, k)] : k \in 0 .. 3 }
  IN  visit[root]

\* ShrinkToFit: the smallest cell that the segment of the edge on a face fits in.
EdgeRoot(segment) ==
  CHOOSE id \in CellIds :
    /\ segment \subseteq Leaves(id)
    /\ \A other \in CellIds : segment \subseteq Leaves(other) => contains(other, id)

\* Mutant: the cell that contains the whole edge is looked for only below its root.
CellsOfBelow(y, edge) ==
  UNION { VisitCells(y, edge, EdgeRoot(edge \cap Leaves(FromFace(f)))) :
          f \in { f \in 0 .. (NumFaces - 1) : edge \cap Leaves(FromFace(f)) # {} } }

\* VisitCells of an edge: every segment is looked for from its root.
CellsOf(y, edge) ==
  UNION { LET root == EdgeRoot(edge \cap Leaves(FromFace(f)))
              found == Locate(y.cells, root)
          IN  CASE found.relation = "INDEXED" -> {found.at}
                [] found.relation = "SUBDIVIDED" -> VisitCells(y, edge, root)
                [] found.relation = "DISJOINT" -> {} :
          f \in { f \in 0 .. (NumFaces - 1) : edge \cap Leaves(FromFace(f)) # {} } }

GetCandidates(y, edge) ==
  IF Len(y.edges) <= kMaxBruteForceEdges THEN DOMAIN y.edges
  ELSE UNION { EdgesIn(y, id) : id \in CellsOf(y, edge) }

\* An index: its cells are disjoint, every edge is in the cells it passes
\* through, and a cell without edges is inside or outside as a whole.
IsIndex(x) ==
  /\ x.cells \subseteq CellIds
  /\ \A c, d \in x.cells : c = d \/ ~intersects(c, d)
  /\ x.edges \in Seq(SUBSET LeafIds)
  /\ \A e \in DOMAIN x.edges : x.edges[e] \subseteq UNION { Leaves(c) : c \in x.cells }
  /\ \A c \in x.cells :
       EdgesIn(x, c) = {} => Leaves(c) \subseteq x.inside \/ Leaves(c) \cap x.inside = {}

ASSUME PairsAssumption == \A p \in Pairs : IsIndex(p[1]) /\ IsIndex(p[2])

-----------------------------------------------------------------------------
(* One iteration of a join of edges, at cells one of which contains the     *)
(* other.  The larger cell is xi.                                          *)

TotalEdges(y, ids) == FoldSet(LAMBDA id, n : n + Cardinality(EdgesIn(y, id)), 0, ids)

\* The edges tested directly, or by way of a query if they are too many.
Tested(x, y, xi, yi) ==
  LET within == Within(y, xi, yi)
  IN  IF TotalEdges(y, within) >= kEdgeQueryMinEdges
      THEN UNION { {e} \X UNION { EdgesIn(y, id) : id \in VisitCells(y, x.edges[e], xi) } :
                   e \in EdgesIn(x, xi) }
      ELSE EdgesIn(x, xi) \X UNION { EdgesIn(y, id) : id \in within }

\* IndexCrosser::VisitCrossings: both iterators move past xi, except that the
\* way through the query leaves the larger one for the next SeekTo.
VisitCrossings(x, y, xi, yi) ==
  LET within == Within(y, xi, yi)
      queried == TotalEdges(y, within) >= kEdgeQueryMinEdges
  IN  IF EdgesIn(x, xi) = {}
      THEN [pairs |-> {}, hit |-> FALSE,
            xi |-> Next1(x.cells, xi), yi |-> SeekBeyond(y.cells, xi)]
      ELSE [pairs |-> Tested(x, y, xi, yi), hit |-> FALSE,
            xi |-> IF queried THEN xi ELSE Next1(x.cells, xi),
            yi |-> IF queried THEN SeekBeyond(y.cells, xi) ELSE Next1(y.cells, Max(within))]

\* LoopCrosser::HasCrossingRelation; hit: a point meets both targets.
HasCrossingRelation(x, y, xi, yi, xt, yt) ==
  LET within == Within(y, xi, yi)
      queried == TotalEdges(y, within) >= kEdgeQueryMinEdges
      scanned == EdgesIn(x, xi) = {} /\ contains_center(x, xi) = xt
      tested == EdgesIn(x, xi) # {}
  IN  [pairs |-> IF tested THEN Tested(x, y, xi, yi) ELSE {},
       hit |-> scanned /\ \E id \in within : contains_center(y, id) = yt,
       xi |-> Next1(x.cells, xi),
       yi |-> IF scanned \/ (tested /\ ~queried) THEN Next1(y.cells, Max(within))
              ELSE SeekBeyond(y.cells, xi)]

Swap(pairs) == { <<p[2], p[1]>> : p \in pairs }

-----------------------------------------------------------------------------
(* The joins.                                                              *)

SharedLeaf(x, y) ==
  { p \in (DOMAIN x.edges) \X (DOMAIN y.edges) : x.edges[p[1]] \cap y.edges[p[2]] # {} }

JoinInit ==
  /\ \E p \in Pairs : a = p[1] /\ b = p[2]
  /\ mode \in {"pairs", "relation", "cells", "near", "self", "query"}
  /\ stop \in CASE mode \in {"pairs", "relation"} -> SharedLeaf(a, b) \cup {<<>>}
                [] mode = "query" -> (DOMAIN b.edges) \X {0}
                [] OTHER -> {<<>>}
  /\ target \in CASE mode = "relation" -> Targets
                  [] mode = "near" -> Tolerances
                  [] mode = "self" -> {0, 1}
                  [] OTHER -> {0}
  /\ ai = Begin(a.cells) /\ bi = Begin(b.cells)
  /\ visited = IF mode \in {"cells", "near"} THEN <<>> ELSE {}
  /\ answer = "none"

Ended == ai = Done /\ bi = Done

Moved(x, y) == ai' = x /\ bi' = y /\ UNCHANGED <<a, b, mode, stop, target>>

\* The A and B cells do not overlap: the one that comes first seeks the other.
Skip ==
  /\ mode \in {"pairs", "relation"} /\ answer = "none" /\ ~Ended
  /\ \/ RangeMax(ai) < RangeMin(bi) /\ Moved(SeekTo(a.cells, bi), bi)
     \/ RangeMax(bi) < RangeMin(ai) /\ Moved(ai, SeekTo(b.cells, ai))
  /\ UNCHANGED <<visited, answer>>

\* Visits the pairs, and returns at the one where the visitor stops.
Visit(pairs, hit) ==
  /\ visited' = visited \cup pairs
  /\ answer' = IF hit \/ stop \in pairs THEN "stopped" ELSE "none"

\* One cell contains the other: VisitCrossingEdgePairs.
Cross ==
  /\ mode = "pairs" /\ answer = "none" /\ ~Ended
  /\ RangeMax(ai) >= RangeMin(bi) /\ RangeMax(bi) >= RangeMin(ai)
  /\ \/ /\ lsb(ai) > lsb(bi)
        /\ LET r == VisitCrossings(a, b, ai, bi)
           IN  Moved(r.xi, r.yi) /\ Visit(r.pairs, FALSE)
     \/ /\ lsb(ai) < lsb(bi)
        /\ LET r == VisitCrossings(b, a, bi, ai)
           IN  Moved(r.yi, r.xi) /\ Visit(Swap(r.pairs), FALSE)
     \/ /\ lsb(ai) = lsb(bi)
        /\ Moved(Next1(a.cells, ai), Next1(b.cells, bi))
        /\ Visit(EdgesIn(a, ai) \X EdgesIn(b, bi), FALSE)

\* The same of S2Loop::HasCrossingRelation.
Relate ==
  /\ mode = "relation" /\ answer = "none" /\ ~Ended
  /\ RangeMax(ai) >= RangeMin(bi) /\ RangeMax(bi) >= RangeMin(ai)
  /\ \/ /\ lsb(ai) > lsb(bi)
        /\ LET r == HasCrossingRelation(a, b, ai, bi, target.a, target.b)
           IN  Moved(r.xi, r.yi) /\ Visit(r.pairs, r.hit)
     \/ /\ lsb(ai) < lsb(bi)
        /\ LET r == HasCrossingRelation(b, a, bi, ai, target.b, target.a)
           IN  Moved(r.yi, r.xi) /\ Visit(Swap(r.pairs), r.hit)
     \/ /\ lsb(ai) = lsb(bi)
        /\ Moved(Next1(a.cells, ai), Next1(b.cells, bi))
        /\ Visit(EdgesIn(a, ai) \X EdgesIn(b, bi),
                 contains_center(a, ai) = target.a /\ contains_center(b, bi) = target.b)

EndJoin ==
  /\ mode \in {"pairs", "relation"} /\ answer = "none" /\ Ended
  /\ answer' = "finished" /\ visited' = visited /\ Moved(ai, bi)

\* S2CellIteratorJoin::ExactJoin: stops at the end of either iterator.
JoinCells ==
  /\ mode = "cells" /\ answer = "none"
  /\ IF ai = Done \/ bi = Done
     THEN answer' = "finished" /\ visited' = visited /\ Moved(ai, bi)
     ELSE /\ answer' = answer
          /\ \/ /\ range_max(ai) < range_min(bi)
                /\ Moved(SeekTo(a.cells, bi), bi) /\ visited' = visited
             \/ /\ range_min(ai) > range_max(bi)
                /\ Moved(ai, SeekTo(b.cells, ai)) /\ visited' = visited
             \/ /\ range_max(ai) >= range_min(bi) /\ range_min(ai) <= range_max(bi)
                /\ Moved(IF lsb(ai) <= lsb(bi) THEN Next1(a.cells, ai) ELSE ai,
                         IF lsb(bi) <= lsb(ai) THEN Next1(b.cells, bi) ELSE bi)
                /\ visited' = Append(visited, <<ai, bi>>)

\* The pairs of a cell's list of edges, without an edge BC that is listed right
\* after AB unless adjacent edges are asked for (target 1).
PairsOfCell(x, id) ==
  LET listed == EdgesIn(x, id)
      Listed(p) == p[1] < p[2] /\ \A e \in listed : e <= p[1] \/ p[2] <= e
  IN  { p \in listed \X listed :
          p[1] < p[2] /\ (target = 1 \/ p \notin x.follows \/ ~Listed(p)) }

\* VisitCrossingEdgePairs of one index: the pairs of every cell.
Self ==
  /\ mode = "self" /\ answer = "none"
  /\ visited' = UNION { PairsOfCell(a, id) : id \in a.cells }
  /\ answer' = "finished" /\ Moved(ai, bi)

\* S2CrossingEdgeQuery::GetCandidates, for an edge of the other index.
QueryEdge ==
  /\ mode = "query" /\ answer = "none"
  /\ visited' = GetCandidates(a, b.edges[stop[1]]) \X {stop[1]}
  /\ answer' = "finished" /\ Moved(ai, bi)

-----------------------------------------------------------------------------
(* S2CellIteratorJoin::TolerantJoin.                                       *)

CellDistance(c, d) ==
  IF range_max(c) < range_min(d) THEN (range_min(d) - range_max(c)) \div 2
  ELSE IF range_max(d) < range_min(c) THEN (range_min(c) - range_max(d)) \div 2
  ELSE 0

\* GetIteratorCovering: the smallest cell of the whole range, or the faces.
GetIteratorCovering(cells) ==
  IF cells = {} THEN <<>>
  ELSE LET lo == range_min(Min(cells))
           hi == range_max(Max(cells))
           faces == { f \in 0 .. (NumFaces - 1) :
                        FromFace(f) >= ParentAt(lo, 0) /\ FromFace(f) <= ParentAt(hi, 0) }
           common == { l \in 0 .. MaxLevel : ParentAt(lo, l) = ParentAt(hi, l) }
       IN  IF common = {} THEN [k \in 1 .. Cardinality(faces) |-> FromFace(InOrder(faces)[k])]
           ELSE <<ParentAt(lo, Max(common))>>

\* Mutant: the last leaf of the range is not counted.
EstimateCoveredCellsBefore(cells, id) ==
  LET found == Locate(cells, id)
      below == Cardinality({ c \in cells : contains(id, c) /\ c < range_max(id) })
  IN  CASE found.relation = "DISJOINT" -> 0
        [] found.relation = "INDEXED" -> 1
        [] found.relation = "SUBDIVIDED" -> Min({below, kMaxCrossProduct \div 2})

\* EstimateCoveredCells: gives up at half of the limit.
EstimateCoveredCells(cells, id) ==
  LET found == Locate(cells, id)
      below == Cardinality({ c \in cells : contains(id, c) })
  IN  CASE found.relation = "DISJOINT" -> 0
        [] found.relation = "INDEXED" -> 1
        [] found.relation = "SUBDIVIDED" -> Min({below, kMaxCrossProduct \div 2})

\* The count cells from where Locate leaves the iterator.
From(cells, id, count) ==
  LET at == Locate(cells, id).at
  IN  SubSeq(InOrder({ c \in cells : c >= at }), 1, count)

Children(id) == [k \in 1 .. 4 |-> child(id, k - 1)]

\* The cells to go on with: the one with more matches is divided.
Split(ca, cb, na, nb) ==
  IF na > nb THEN <<Children(ca), <<cb>>>> ELSE <<<<ca>>, Children(cb)>>

\* The elements of f(x, y) for x in s and y in t, in the order of two loops.
ForEach(s, t, f(_, _)) ==
  FlattenSeq([i \in DOMAIN s |-> FlattenSeq([j \in DOMAIN t |-> f(s[i], t[j])])])

\* ProcessCellPair and ProcessNearbyCellPairs.
TolerantJoin(as, bs, tolerance) ==
  LET process[p \in CellIds \X CellIds] ==
        LET ca == p[1]
            cb == p[2]
            na == EstimateCoveredCells(as, ca)
            nb == EstimateCoveredCells(bs, cb)
            Near(c, d) == IF CellDistance(c, d) <= tolerance THEN <<<<c, d>>>> ELSE <<>>
            Process(c, d) == IF CellDistance(c, d) <= tolerance THEN process[<<c, d>>] ELSE <<>>
            split == Split(ca, cb, na, nb)
        IN  IF na = 0 \/ nb = 0 THEN <<>>
            ELSE IF na * nb < kMaxCrossProduct
            THEN ForEach(From(as, ca, na), From(bs, cb, nb), Near)
            ELSE ForEach(split[1], split[2], Process)
      Nearby(c, d) == IF CellDistance(c, d) <= tolerance THEN process[<<c, d>>] ELSE <<>>
  IN  ForEach(GetIteratorCovering(as), GetIteratorCovering(bs), Nearby)

JoinNear ==
  /\ mode = "near" /\ answer = "none"
  /\ visited' = TolerantJoin(a.cells, b.cells, target)
  /\ answer' = "finished" /\ Moved(ai, bi)

JoinNext == Skip \/ Cross \/ Relate \/ EndJoin \/ JoinCells \/ Self \/ QueryEdge \/ JoinNear

JoinSpec == JoinInit /\ [][JoinNext]_join

-----------------------------------------------------------------------------

Before(pos) == { leaf \in LeafIds : leaf < RangeMin(pos) }

\* Every pair of edges that share a leaf cell which both iterators have passed
\* has been visited, whichever cells of the two indexes contain which, with
\* and without the edge query; the join that is not stopped has passed every
\* leaf cell.
JoinFindsAll ==
  mode \in {"pairs", "relation"} /\ answer # "stopped" =>
    LET passed == IF answer = "finished" THEN LeafIds ELSE Before(ai) \cap Before(bi)
    IN  \A p \in SharedLeaf(a, b) :
          a.edges[p[1]] \cap b.edges[p[2]] \cap passed # {} => p \in visited

\* The loop relation is stopped if the loops have a crossing pair of edges, or
\* a point that meets both targets in a place where neither has an edge; it
\* is stopped by nothing but a crossing or a point of both targets.
RelationExact ==
  mode = "relation" /\ answer # "none" =>
    LET Free(x) == UNION { Leaves(id) : id \in { id \in x.cells : EdgesIn(x, id) = {} } }
        In(x, leaf) == IF leaf \in x.inside THEN 1 ELSE 0
        meets == { leaf \in LeafIds : In(a, leaf) = target.a /\ In(b, leaf) = target.b }
    IN  /\ stop # <<>> \/ meets \cap Free(a) \cap Free(b) # {} => answer = "stopped"
        /\ answer = "stopped" => stop # <<>> \/ meets # {}

\* The join of cells visits every pair of index cells that overlap, once.
CellsJoinedOnce ==
  mode = "cells" /\ answer = "finished" =>
    /\ ToSet(visited) = { p \in a.cells \X b.cells : intersects(p[1], p[2]) }
    /\ IsInjective(visited)

\* The join of one index with itself visits every pair of its edges that share
\* a leaf cell, except an edge BC after AB where adjacent edges are not asked for,
\* and the edge query finds every edge that an edge shares a leaf cell with.
QueriesFindAll ==
  /\ mode = "self" /\ answer = "finished" =>
       { p \in SharedLeaf(a, a) : p[1] < p[2] /\ (target = 1 \/ p \notin a.follows) }
         \subseteq visited
  /\ mode = "query" /\ answer = "finished" =>
       { p \in SharedLeaf(a, b) : p[2] = stop[1] } \subseteq visited

NearPairs == { p \in a.cells \X b.cells : CellDistance(p[1], p[2]) <= target }

\* The tolerant join visits pairs of cells within the tolerance, each once,
\* and all of them if no count of matches is given up.
NearJoinedOnce ==
  mode = "near" /\ answer = "finished" =>
    /\ ToSet(visited) \subseteq NearPairs /\ IsInjective(visited)
    /\ (\A x \in {a, b} : Cardinality(x.cells) <= kMaxCrossProduct \div 2) =>
         NearPairs \subseteq ToSet(visited)

\* "The iterator will find each pair of cells that are less than or equal to
\* the tolerance distance from each other."
NearJoinFindsAll ==
  mode = "near" /\ answer = "finished" => NearPairs \subseteq ToSet(visited)

\* Walks along two indexes with cells of different sizes meet every pair of
\* cells and edges that they have to meet, each pair of cells once, and no
\* other (VisitCrossingEdgePairs, HasCrossingRelation, S2CellIteratorJoin,
\* S2CrossingEdgeQuery).
JoinsExact ==
  /\ JoinFindsAll
  /\ RelationExact
  /\ CellsJoinedOnce
  /\ QueriesFindAll
=============================================================================
