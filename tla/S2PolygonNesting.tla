------------------------------ MODULE S2PolygonNesting ------------------------------
(***************************************************************************)
(* How two loops lie (src/s2/s2loop.cc): the tests that look at one vertex *)
(* only, for loops known not to cross, and the tests for any two loops,    *)
(* which look at every pair of edges.                                      *)
(*                                                                         *)
(* A loop is the sequence of its vertices; the full and the empty loop     *)
(* have one vertex.  The tests of bounding rectangles that come first and  *)
(* only save work are left out, and so is the index that finds the pairs   *)
(* of edges (S2IndexJoin).                                                 *)
(***************************************************************************)
EXTENDS S2Predicates

kEmptyLoop == << << 0, 0, 1 >> >>
kFullLoop == << << 0, 0, -1 >> >>
EmptyOrFull(v) == Len(v) = 1

\* Contains(S2Point), with the two loops that have no edges
LoopContainsPoint(v, p) ==
  IF EmptyOrFull(v) THEN v = kFullLoop ELSE BruteForceContains(v, p)

ContainsOrigin(v) == IF EmptyOrFull(v) THEN v = kFullLoop ELSE OriginInside(v)

InvertLoop(v) ==
  IF v = kFullLoop THEN kEmptyLoop ELSE IF v = kEmptyLoop THEN kFullLoop ELSE Reverse(v)

\* FindVertex: in 1 .. N, as vertex(1) .. vertex(N) of the code, which counts
\* from 0; or 0 if there is none.
FindVertex(v, p) ==
  LET at == { i \in DOMAIN v : v[i] = p } IN
  IF at = {} THEN 0 ELSE CHOOSE i \in at : TRUE

-----------------------------------------------------------------------------
(* Loops that do not cross *)

\* Mutant: a shared vertex counts as contained.
ContainsNestedShared(v, w) ==
  IF EmptyOrFull(v) \/ Len(w) < 2 THEN v = kFullLoop \/ w = kEmptyLoop
  ELSE FindVertex(v, w[2]) # 0 \/ LoopContainsPoint(v, w[2])

\* ContainsNested
ContainsNested(v, w) ==
  LET m == FindVertex(v, w[2]) IN
  IF EmptyOrFull(v) \/ Len(w) < 2 THEN v = kFullLoop \/ w = kEmptyLoop
  ELSE IF m = 0 THEN LoopContainsPoint(v, w[2])
  ELSE WedgeContains(Vertex(v, m + Len(v) - 1), v[m], Vertex(v, m + 1), w[1], w[3])

\* Whether the wedge has the rays next to the edge from ab1 to b2 on its left, or
\* on its right if the other loop is reversed.
WedgeContainsSemiwedge(a0, ab1, a2, b2, reverse_b) ==
  IF b2 = a0 \/ b2 = a2 THEN (b2 = a0) = reverse_b ELSE OrderedCCW(a0, a2, b2, ab1)

ContainsNonCrossingBoundary(v, w, reverse_b) ==
  LET m == FindVertex(v, w[1]) IN
  IF EmptyOrFull(v) THEN TRUE
  ELSE IF EmptyOrFull(w) THEN FALSE
  ELSE IF m = 0 THEN LoopContainsPoint(v, w[1])
  ELSE WedgeContainsSemiwedge(Vertex(v, m + Len(v) - 1), v[m], Vertex(v, m + 1), w[2], reverse_b)

-----------------------------------------------------------------------------
(* Any two loops *)

EdgesCross(v, w) ==
  \E i \in DOMAIN v, j \in DOMAIN w :
    CrossingSign(v[i], Vertex(v, i + 1), w[j], Vertex(w, j + 1)) > 0

\* The wedges of the two loops at the vertices that they share.
SharedWedges(v, w) ==
  { << Vertex(v, i), Vertex(v, i + 1), Vertex(v, i + 2), Vertex(w, j), Vertex(w, j + 2) >> :
      << i, j >> \in { x \in (DOMAIN v) \X (DOMAIN w) : Vertex(v, x[1] + 1) = Vertex(w, x[2] + 1) } }

\* S2Loop::Contains(S2Loop) with ContainsRelation
LoopContains(v, w) ==
  LET shared == SharedWedges(v, w) IN
  IF EmptyOrFull(v) \/ EmptyOrFull(w) THEN v = kFullLoop \/ w = kEmptyLoop
  ELSE /\ ~EdgesCross(v, w)
       /\ \A x \in shared : WedgeContains(x[1], x[2], x[3], x[4], x[5])
       /\ shared = {} => LoopContainsPoint(v, w[1]) /\ ~LoopContainsPoint(w, v[1])

\* Mutant: a loop that contains the other's boundary from outside is missed.
LoopIntersectsOneWay(v, w) ==
  LET shared == SharedWedges(v, w) IN
  IF v = kEmptyLoop \/ w = kEmptyLoop THEN FALSE
  ELSE IF EmptyOrFull(v) \/ EmptyOrFull(w) THEN TRUE
  ELSE \/ EdgesCross(v, w)
       \/ \E x \in shared : WedgeIntersects(x[1], x[2], x[3], x[4], x[5])
       \/ shared = {} /\ LoopContainsPoint(v, w[1])

\* Intersects(S2Loop) with IntersectsRelation.  The bound of an empty loop
\* meets no other, and the index of a full loop has every cell.
LoopIntersects(v, w) ==
  LET shared == SharedWedges(v, w) IN
  IF v = kEmptyLoop \/ w = kEmptyLoop THEN FALSE
  ELSE IF EmptyOrFull(v) \/ EmptyOrFull(w) THEN TRUE
  ELSE \/ EdgesCross(v, w)
       \/ \E x \in shared : WedgeIntersects(x[1], x[2], x[3], x[4], x[5])
       \/ /\ shared = {}
          /\ LoopContainsPoint(v, w[1]) \/ LoopContainsPoint(w, v[1])

\* CompareBoundary with CompareBoundaryRelation: 1 if v contains the boundary of
\* w, -1 if it excludes it, 0 if the boundaries cross.
CompareBoundary(v, w, w_is_hole) ==
  LET shared == SharedWedges(v, w)
      contains_edge == \E x \in shared : WedgeContainsSemiwedge(x[1], x[2], x[3], x[5], w_is_hole)
      excludes_edge == \E x \in shared : ~WedgeContainsSemiwedge(x[1], x[2], x[3], x[5], w_is_hole) IN
  IF v = kFullLoop THEN 1
  ELSE IF w = kFullLoop THEN -1
  ELSE IF EdgesCross(v, w) \/ (contains_edge /\ excludes_edge) THEN 0
  ELSE IF shared # {} THEN IF contains_edge THEN 1 ELSE -1
  ELSE IF LoopContainsPoint(v, w[1]) THEN 1 ELSE -1

-----------------------------------------------------------------------------
(* The order of loops *)

\* GetCanonicalLoopOrder: the least sequence of the vertices, forwards or back.
SequenceFrom(v, first, dir) ==
  [k \in DOMAIN v |-> v[((first - 1 + dir * (k - 1) + Len(v)) % Len(v)) + 1]]

SeqLess(s, t) ==
  \E k \in DOMAIN s : Less(s[k], t[k]) /\ \A j \in 1 .. k - 1 : s[j] = t[j]

CanonicalLoopOrder(v) ==
  LET all == (DOMAIN v) \X {1, -1} IN
  CHOOSE o \in all : \A x \in all :
    ~SeqLess(SequenceFrom(v, x[1], x[2]), SequenceFrom(v, o[1], o[2]))

\* CompareLoops: whether v comes before w
LoopLess(v, w) ==
  LET a == CanonicalLoopOrder(v)
      b == CanonicalLoopOrder(w) IN
  IF Len(v) # Len(w) THEN Len(v) < Len(w)
  ELSE IF a[2] # b[2] THEN a[2] < b[2]
  ELSE SeqLess(SequenceFrom(v, a[1], a[2]), SequenceFrom(w, b[1], b[2]))

-----------------------------------------------------------------------------
(***************************************************************************)
(* The loops of an S2Polygon (src/s2/s2polygon.cc): how they are put into  *)
(* a hierarchy of shells and holes, how loops that have the interior on    *)
(* their left are inverted for that, how a polygon is inverted, and how    *)
(* S2PolygonLayer (src/s2/s2builderutil_s2polygon_layer.cc) keeps the      *)
(* labels of edges in step with all of this.                               *)
(*                                                                         *)
(* A loop is [v, depth, id]: its vertices, its depth and its number in the *)
(* input, which stands for the address by which the code knows it.         *)
(* Curvature, 2 Pi less the area, is measured in points of NestingProbes.         *)
(***************************************************************************)

CONSTANTS LoopPool,       \* loops that may be given, in both directions
          NestingProbes,         \* points in all the places that loops may separate
          MaxLoops

VARIABLES given,          \* the loops given: sequences of vertices
          polygon,        \* the loops of the polygon, or NoPolygon
          inconsistent,   \* error_inconsistent_loop_orientations_
          labels,         \* label_set_ids_: for every loop, for every edge
          built           \* what the polygon was made with

nesting == <<given, polygon, inconsistent, labels, built>>

NoPolygon == << [v |-> << >>, depth |-> -1, id |-> 0] >>

is_hole(l) == l.depth % 2 = 1
ProbesInPool == [v \in LoopPool \cup {kFullLoop, kEmptyLoop} |->
                   { p \in NestingProbes : LoopContainsPoint(v, p) }]
NestingProbesIn(v) == ProbesInPool[v]
GetCurvature(v) == Cardinality(NestingProbes) - 2 * Cardinality(NestingProbesIn(v))
IsNormalized(v) == GetCurvature(v) >= 0

-----------------------------------------------------------------------------
(* InitNested *)

\* Mutant: the children of the parent stay where they are.
InsertLoopOnTop(loops, map, new) ==
  LET RECURSIVE Parent(_)
      Parent(p) ==
        LET in == SelectSeq(map[p], LAMBDA c : ContainsNested(loops[c].v, loops[new].v)) IN
        IF in = << >> THEN p ELSE Parent(in[1]) IN
  [map EXCEPT ![Parent(0)] = Append(@, new)]

\* The loop to put loop new under: from p down, the first child that contains it.
RECURSIVE ParentLoop(_, _, _, _)
ParentLoop(loops, map, new, p) ==
  LET i == SelectInSeq(map[p], LAMBDA c : ContainsNested(loops[c].v, loops[new].v)) IN
  IF i = 0 THEN p ELSE ParentLoop(loops, map, new, map[p][i])

\* The children of the parent that the new loop contains become its children.
PutUnder(map, new, parent, below) ==
  [map EXCEPT ![new] = SelectSeq(map[parent], LAMBDA c : c \in below),
              ![parent] = Append(SelectSeq(@, LAMBDA c : c \notin below), new)]

InsertLoopAt(loops, map, new, parent) ==
  PutUnder(map, new, parent,
           { c \in ToSet(map[parent]) : ContainsNested(loops[new].v, loops[c].v) })

\* InsertLoop: map gives the children of each loop, 0 being the polygon.
InsertLoop(loops, map, new) == InsertLoopAt(loops, map, new, ParentLoop(loops, map, new, 0))

\* InitLoops: depth first.
RECURSIVE InitLoops(_, _, _, _)
InitLoops(loops, map, at, depth) ==
  FlattenSeq([i \in DOMAIN map[at] |->
    << [loops[map[at][i]] EXCEPT !.depth = depth] >>
      \o InitLoops(loops, map, map[at][i], depth + 1)])

InitNested(loops) ==
  IF Len(loops) = 1 THEN << [loops[1] EXCEPT !.depth = 0] >>
  ELSE InitLoops(loops, FoldLeft(LAMBDA map, k : InsertLoop(loops, map, k),
                                 [k \in 0 .. Len(loops) |-> << >>],
                                 [k \in DOMAIN loops |-> k]), 0, 0)

-----------------------------------------------------------------------------
(* Invert *)

GetLastDescendant(p, k) ==
  LET after == { j \in k + 1 .. Len(p) : p[j].depth <= p[k].depth } IN
  IF after = {} THEN Len(p) ELSE (CHOOSE j \in after : \A i \in after : j <= i) - 1

\* Mutant: of loops with equal curvature the first is inverted.
BestLoopFirst(p) ==
  LET tops == { i \in DOMAIN p : p[i].depth = 0 } IN
  CHOOSE i \in tops : \A j \in tops :
    \/ GetCurvature(p[i].v) < GetCurvature(p[j].v)
    \/ GetCurvature(p[i].v) = GetCurvature(p[j].v) /\ i <= j

\* The shell of the largest area; of equal ones the least.
BestLoop(p) ==
  LET tops == { i \in DOMAIN p : p[i].depth = 0 } IN
  CHOOSE i \in tops : \A j \in tops :
    \/ GetCurvature(p[i].v) < GetCurvature(p[j].v)
    \/ GetCurvature(p[i].v) = GetCurvature(p[j].v) /\ ~LoopLess(p[j].v, p[i].v)

\* Mutant: the loops inside the inverted one keep their depth.
InvertShallow(p) ==
  LET best == BestLoop(p) IN
  IF p = << >> THEN << [v |-> kFullLoop, depth |-> 0, id |-> 0] >>
  ELSE IF Len(p) = 1 /\ p[1].v = kFullLoop THEN << >>
  ELSE << [p[best] EXCEPT !.v = InvertLoop(@)] >>
         \o SubSeq(p, 1, best - 1) \o SubSeq(p, best + 1, Len(p))

\* Invert: the siblings of the inverted loop become its children, and its
\* children its siblings.
InvertAt(p, best, last) ==
  LET Moved(l, d) == [l EXCEPT !.depth = @ + d]
      outside == SelectSeq([i \in DOMAIN p |-> i], LAMBDA i : i < best \/ i > last)
      below == [k \in 1 .. last - best |-> best + k] IN
  << [p[best] EXCEPT !.v = InvertLoop(@)] >>
    \o [k \in DOMAIN outside |-> Moved(p[outside[k]], 1)]
    \o [k \in DOMAIN below |-> Moved(p[below[k]], -1)]

Invert(p) ==
  IF p = << >> THEN << [v |-> kFullLoop, depth |-> 0, id |-> 0] >>
  ELSE IF Len(p) = 1 /\ p[1].v = kFullLoop THEN << >>
  ELSE LET best == BestLoop(p) IN InvertAt(p, best, GetLastDescendant(p, best))

-----------------------------------------------------------------------------
(* InitOriented *)

Fresh(loops) == [k \in DOMAIN loops |-> [v |-> loops[k], depth |-> 0, id |-> k]]

\* Every loop is made to enclose at most half of the sphere; one that encloses
\* just half must not contain the origin.
Nestable(v) ==
  LET angle == GetCurvature(v) IN
  IF angle < 0 \/ (angle = 0 /\ ContainsOrigin(v)) THEN InvertLoop(v) ELSE v

\* Mutant: the outermost loop around the origin decides.
OrientedNestingOutermost(loops) ==
  LET nested == InitNested(Fresh([k \in DOMAIN loops |-> Nestable(loops[k])]))
      around == { i \in DOMAIN nested : ContainsOrigin(nested[i].v) }
      origin_loop == nested[1] IN
  IF nested # << >> /\ ContainsOrigin(loops[origin_loop.id]) # Odd(around)
  THEN Invert(nested) ELSE nested

\* The innermost loop around the origin decides whether the polygon is inverted.
InvertedIf(loops, nested, around) ==
  LET origin_loop == IF around = {} THEN nested[1]
                     ELSE nested[CHOOSE i \in around : \A j \in around : j <= i] IN
  IF nested # << >> /\ ContainsOrigin(loops[origin_loop.id]) # Odd(around)
  THEN Invert(nested) ELSE nested

OrientedFrom(loops, nested) ==
  InvertedIf(loops, nested, { i \in DOMAIN nested : ContainsOrigin(nested[i].v) })

OrientedNesting(loops) ==
  OrientedFrom(loops, InitNested(Fresh([k \in DOMAIN loops |-> Nestable(loops[k])])))

\* Every loop must have been inverted if and only if it is a hole now.
Inconsistent(loops, p) ==
  \E i \in DOMAIN p : (ContainsOrigin(loops[p[i].id]) # ContainsOrigin(p[i].v)) # is_hole(p[i])

-----------------------------------------------------------------------------
(* S2PolygonLayer *)

\* An edge is labelled by its two vertices.
LabelsOf(v) == [j \in DOMAIN v |-> {v[j], Vertex(v, j + 1)}]

\* Mutant: the labels are reversed as the vertices are.
ReorderEdgeLabelsReversed(loops, p) ==
  [i \in DOMAIN p |->
     LET old == LabelsOf(loops[p[i].id]) IN
     IF ContainsOrigin(p[i].v) # ContainsOrigin(loops[p[i].id]) THEN Reverse(old) ELSE old]

\* ReorderEdgeLabels: inverting a loop leaves its last edge the last.
ReorderEdgeLabels(loops, p) ==
  [i \in DOMAIN p |->
     LET old == LabelsOf(loops[p[i].id]) IN
     IF ContainsOrigin(p[i].v) # ContainsOrigin(loops[p[i].id])
     THEN Reverse(Front(old)) \o << Last(old) >> ELSE old]

-----------------------------------------------------------------------------
NestingInit ==
  given = << >> /\ polygon = NoPolygon /\ inconsistent = FALSE /\ labels = << >> /\ built = "no"

\* Loops that do not cross, and do not share an edge.
Compatible ==
  { x \in LoopPool \X LoopPool :
      /\ ~EdgesCross(x[1], x[2])
      /\ CompareBoundary(x[1], x[2], FALSE) # 0
      /\ ToSet(LabelsOf(x[1])) \cap ToSet(LabelsOf(x[2])) = {} }

AddLoop(v) ==
  /\ built = "no" /\ Len(given) < MaxLoops
  /\ \A w \in ToSet(given) : << v, w >> \in Compatible
  /\ given' = Append(given, v)
  /\ UNCHANGED <<polygon, inconsistent, labels, built>>

\* Build of the layer for directed edges
BuildOriented ==
  /\ built = "no"
  /\ polygon' = OrientedNesting(given)
  /\ inconsistent' = (Len(given) > 1 /\ Inconsistent(given, polygon'))
  /\ labels' = ReorderEdgeLabels(given, polygon') /\ built' = "oriented"
  /\ UNCHANGED given

\* Build of the layer for undirected edges: the loops are normalized first.
BuildNested ==
  /\ built = "no"
  /\ polygon' = InitNested(Fresh([k \in DOMAIN given |->
                   IF IsNormalized(given[k]) THEN given[k] ELSE InvertLoop(given[k])]))
  /\ inconsistent' = FALSE
  /\ labels' = ReorderEdgeLabels(given, polygon') /\ built' = "nested"
  /\ UNCHANGED given

\* S2Polygon::Invert of a polygon that is there
InvertPolygon ==
  /\ built \in {"oriented", "nested"} /\ ~inconsistent
  /\ polygon' = Invert(polygon) /\ labels' = << >>
  /\ built' = IF built = "oriented" THEN "inverted oriented" ELSE "inverted nested"
  /\ UNCHANGED <<given, inconsistent>>

NestingNext == (\E v \in LoopPool : AddLoop(v)) \/ BuildOriented \/ BuildNested \/ InvertPolygon

NestingSpec == NestingInit /\ [][NestingNext]_nesting

-----------------------------------------------------------------------------
NestedContains(p, q) == Odd({ i \in DOMAIN p : q \in NestingProbesIn(p[i].v) })

\* How many of the given loops have q on their left.
Left(q) == Cardinality({ k \in DOMAIN given : q \in NestingProbesIn(given[k]) })
Most == LET all == { Left(q) : q \in NestingProbes } IN CHOOSE m \in all : \A n \in all : n <= m
TwoSided == Cardinality({ Left(q) : q \in NestingProbes }) <= 2

(* Loops that have the interior on their left give the polygon they bound,   *)
(* and loops that bound none are noticed: along any path the number of loops *)
(* with a point on their left goes up by one where the interior is entered   *)
(* (s2polygon.h, InitOriented).                                              *)
OrientedMeans ==
  built = "oriented" /\ given # << >> =>
    /\ inconsistent = ~TwoSided
    /\ TwoSided => \A q \in NestingProbes : NestedContains(polygon, q) = (Left(q) = Most)

\* Loops of which none contains the complement of another.
Nests(vs) == \A v, w \in vs : v = w \/ NestingProbesIn(v) \cup NestingProbesIn(w) # NestingProbes

(* The hierarchy is that of the regions: the loops after a loop that are     *)
(* deeper are those inside it, depths grow one at a time, and no loop is      *)
(* lost (FindLoopNestingError).                                              *)
HierarchyFits ==
  polygon # NoPolygon /\ Nests({ polygon[i].v : i \in DOMAIN polygon }) =>
    /\ \A i \in DOMAIN polygon :
         polygon[i].depth \in 0 .. (IF i = 1 THEN 0 ELSE polygon[i - 1].depth + 1)
    /\ \A i, j \in DOMAIN polygon : i # j =>
         ((j \in i + 1 .. GetLastDescendant(polygon, i))
            = (NestingProbesIn(polygon[j].v) \subseteq NestingProbesIn(polygon[i].v)))
    /\ given # << >> => { polygon[i].id : i \in DOMAIN polygon } = DOMAIN given
    /\ \A i, j \in DOMAIN polygon : i # j =>
         ContainsNonCrossingBoundary(polygon[i].v, polygon[j].v, FALSE)
           = ContainsNested(polygon[i].v, polygon[j].v)

\* chain_edge of S2Polygon::Shape: the vertices of a hole in reverse.
ShapeOf(p) ==
  [i \in DOMAIN p |-> IF EmptyOrFull(p[i].v) THEN << >>
                      ELSE IF is_hole(p[i]) THEN Reverse(p[i].v) ELSE p[i].v]

(* The shape that is indexed, which has the interior on the left of every    *)
(* edge, contains the same points as the loops do, inverted or not, whatever *)
(* loop the reference point is taken from.                                   *)
ShapeIsPolygon ==
  polygon # NoPolygon /\ Nests({ polygon[i].v : i \in DOMAIN polygon }) =>
    \A i \in DOMAIN polygon :
      LET shape == ShapeOf(SubSeq(polygon, i, Len(polygon)) \o SubSeq(polygon, 1, i - 1))
          ref == GetReferencePoint(shape)
          edges == AllEdgesOf(shape) IN
      \A q \in NestingProbes : ContainsFrom(ref, edges, q) = NestedContains(polygon, q)

(* The order in which consistent loops are given makes no difference to      *)
(* which of them are inverted (S2Polygon::Invert: ties are broken "in order  *)
(* to avoid having the output depend on the input order of the loops").      *)
OrderIndependent ==
  built = "oriented" /\ ~inconsistent =>
    LET Found(p) == { << p[i].v, p[i].depth >> : i \in DOMAIN p } IN
    Found(polygon) = Found(OrientedNesting(Reverse(given)))

(* Every label is still that of its edge.                                    *)
LabelsFollowEdges ==
  built \in {"oriented", "nested"} =>
    \A i \in DOMAIN polygon : labels[i] = LabelsOf(polygon[i].v)

(* The tests of two loops agree with the regions: containment, intersection  *)
(* and the side of a boundary.                                               *)
RelationsExact ==
  \A v, w \in ToSet(given) : v # w =>
    /\ LoopContains(v, w) = (NestingProbesIn(w) \subseteq NestingProbesIn(v))
    /\ LoopIntersects(v, w) = (NestingProbesIn(v) \cap NestingProbesIn(w) # {})
    /\ (CompareBoundary(v, w, FALSE) = 1)
         = (LoopContains(v, w) \/ LoopContains(v, InvertLoop(w)))
    /\ Nests({v, w}) => LoopContains(v, w) = ContainsNested(v, w)

\* However loops are given, oriented and inverted, the hierarchy is that of
\* their regions, the polygon and its indexed shape contain the points that
\* the loops mean, and labels stay with their edges (InitNested, InitOriented,
\* Invert, ReorderEdgeLabels).
NestingExact ==
  /\ RelationsExact
  /\ HierarchyFits
  /\ OrientedMeans
  /\ ShapeIsPolygon
  /\ OrderIndependent
  /\ LabelsFollowEdges
=============================================================================
