---------------------------- MODULE MCIndexQueries ----------------------------
(* The work that builds and joins indexes, each part in runs of its own:      *)
(* active says which.                                                         *)
(*   "threads": three query threads and three shapes: enough for one updater, *)
(*     one waiter and one late reader, and for a batch, a removal and an      *)
(*     addition to be pending together;                                       *)
(*   "batches": three queued shapes of up to nine edges against a budget of   *)
(*     two edges, so that shapes are grouped, moved to the next batch and     *)
(*     split over two and more batches;                                       *)
(*   "index_cells": on two faces of two levels, polygons that reach over the  *)
(*     boundaries of cells and faces, the complement of one, the full         *)
(*     polygon, several edges in one leaf cell, and a polyline;               *)
(*   "unions": enough cells to collapse the leaf cells of the last child of a *)
(*     face, then its children, into the face; vectors out of order, with     *)
(*     repeated and nested cells, and across the boundary of the faces;       *)
(*   "joins": pairs of indexes of coarse and of fine cells, one of them of    *)
(*     many edges, one of a single point;                                     *)
(*   "edges", "cells", "points": the searches for the closest ones, which     *)
(*     share the variables of S2ClosestQuery.                                 *)
EXTENDS MutableS2ShapeIndex, S2IndexJoin, S2CellUnion, BatchGenerator

VARIABLES active,
          cell_map, additions_begin, removals, tracker_at,
          q, limit, results, tested, conservative, avoid, queue, phase,
          covering, asked, index, num_edges, edges_limit,
          added, tree, ranges, cell_contents, points

LOCAL Leaf(k) == 2 * k + 1
LOCAL Span(first, last) == { Leaf(k) : k \in first .. last }

(* The cells of an index.                                                     *)

LOCAL Edge(first, last, cross, max_level) ==
  [leaves |-> Span(first, last), cross |-> cross, max_level |-> max_level]
LOCAL Polygon(origin, edges) == [dimension |-> 2, origin |-> origin, edges |-> edges]

LOCAL ShapeTypes ==
  { Polygon(FALSE, <<Edge(3, 3, {7}, 2), Edge(4, 5, {10}, 2)>>),
    Polygon(FALSE, <<Edge(1, 2, {2}, 1), Edge(9, 9, {}, 2), Edge(14, 17, {35}, 2)>>),
    Polygon(TRUE, <<Edge(5, 5, {10}, 2), Edge(5, 6, {11, 12}, 2), Edge(5, 5, {}, 2),
                    Edge(20, 21, {42}, 2)>>),
    Polygon(TRUE, <<>>),
    [dimension |-> 1, origin |-> FALSE, edges |-> <<Edge(0, 4, {}, 1), Edge(4, 5, {9}, 2)>>] }

C == INSTANCE ShapeIndexCells WITH
  at <- tracker_at, ShapeTypes <- ShapeTypes, MaxShapes <- 3, max_edges_per_cell <- 1, MinShortFraction <- 5

(* Unions of cells.                                                           *)

MCOperands ==
  LET face == FromFace(0)
      last == child(face, 3)
      LeafOf(c, k) == child(child(face, c), k)
  IN  { <<child(last, 0)>>,
        <<child(last, 3), child(last, 1), child(last, 2)>>,
        <<child(face, 2), LeafOf(0, 3), child(face, 1)>>,
        <<last, child(face, 0), child(last, 2), child(face, 0)>>,
        [k \in 1 .. 4 |-> child(FromFace(1), 4 - k)] }

(* Joins of two indexes.                                                      *)

\* An edge follows an earlier one if it starts in the leaf cell where that ends.
LOCAL Follows(edges) ==
  { p \in (DOMAIN edges) \X (DOMAIN edges) : p[1] < p[2] /\ Max(edges[p[1]]) = Min(edges[p[2]]) }
LOCAL Shape(edges, inside) == [edges |-> edges, inside |-> inside, follows |-> Follows(edges)]

LOCAL Shapes ==
  { Shape(<<Span(2, 5), Span(5, 5), Span(6, 9), Span(19, 20)>>, Span(2, 9)),
    Shape(<<Span(1, 3), Span(14, 17), Span(30, 31)>>, Span(2, 14) \cup Span(17, 30)),
    Shape(<<Span(5, 6)>>, {}),
    Shape(<<Span(0, 0), Span(4, 7)>>, Span(4, 6)),
    Shape(<<Span(9, 10), Span(20, 20), Span(10, 18)>>, Span(9, 18)),
    Shape([k \in 1 .. 16 |-> Span(k - 1, k - 1)], Span(0, 15)) }

\* The coarsest, the finest and two other tilings of what a shape covers.
LOCAL Some(cells) ==
  LET n == { Cardinality(c) : c \in cells }
      Of(k) == CHOOSE c \in cells : Cardinality(c) = k
  IN  { Of(k) : k \in { Min(n), Max(n), (Min(n) + Max(n)) \div 2, 2 } \cap n }

LOCAL Indexes ==
  UNION { { [edges |-> s.edges, inside |-> s.inside, follows |-> s.follows, cells |-> c] :
            c \in Some(Tilings(UNION ToSet(s.edges) \cup s.inside)) } : s \in Shapes }
  \cup { [edges |-> <<Span(7, 7)>>, inside |-> {}, follows |-> {}, cells |-> {Leaf(7)}] }

MCPairs == Indexes \X Indexes
MCTargets == { [a |-> -1, b |-> -1], [a |-> 0, b |-> 1], [a |-> 1, b |-> 1] }

(* The searches for the closest edges, cells and points.                      *)

LOCAL Cell(l, k) == (2 * k + 1) * lsb_for_level(l)

LOCAL Line(edges) == [edges |-> edges, inside |-> {}]

LOCAL Searched ==
  { << Line(<<Span(2, 5), Span(5, 5), Span(6, 9)>>),
       [edges |-> <<Span(18, 19), Span(21, 23)>>, inside |-> Span(19, 22)] >>,
    << [edges |-> <<Span(1, 1), Span(14, 17)>>, inside |-> Span(1, 16)],
       Line(<<Span(30, 30)>>), Line(<<Span(3, 3), Span(3, 4)>>) >>,
    << Line(<<Span(9, 10)>>) >> }

\* The coarsest and the finest cells that an index of the shapes may have.
LOCAL Covered(all) == UNION { UNION ToSet(s.edges) \cup s.inside : s \in ToSet(all) }
LOCAL Extremes(cells) ==
  { c \in cells : \/ \A d \in cells : Cardinality(c) >= Cardinality(d)
                  \/ \A d \in cells : Cardinality(c) <= Cardinality(d) }

MCIndexes == UNION { { [shapes |-> s, cells |-> c] : c \in Extremes(Tilings(Covered(s))) } :
                     s \in Searched }

LOCAL Query(t, n, d, e, size, ins, reg) ==
  [target |-> t, uses_error |-> e.slack > 0, slack |-> e.slack,
   max_brute_force_index_size |-> size, use_brute_force |-> FALSE, max_results |-> n,
   max_distance |-> d, max_error |-> e.error, interiors |-> ins, region |-> reg]

LOCAL Exact == [error |-> 0, slack |-> 0]
LOCAL Errors == { Exact, [error |-> 2, slack |-> 0], [error |-> 2, slack |-> 2] }

\* How many results are wanted, and within which distance.
LOCAL Wanted == { [n |-> 1, d |-> 99], [n |-> 2, d |-> 99], [n |-> 99, d |-> 3] }

MCQueries ==
  { Query(t, w.n, w.d, e, size, ins, LeafIds) :
      t \in {Span(0, 0), Span(20, 20), Span(11, 13)}, w \in Wanted, e \in Errors,
      size \in {1, 3}, ins \in BOOLEAN }

MCQueriesByCell ==
  { Query(Span(6, 6), w.n, w.d, e, 1, FALSE, LeafIds) : w \in Wanted, e \in Errors }
  \cup { Query(Span(20, 22), n, 99, Exact, 1, FALSE, Span(4, 9)) : n \in {1, 2} }

MCLabelledCells ==
  { [cell_id |-> c, label |-> 1] : c \in {Cell(0, 0), Cell(1, 1), Cell(2, 12), Cell(2, 19)} }
  \cup { [cell_id |-> Cell(1, 1), label |-> 2], [cell_id |-> Cell(2, 5), label |-> 2] }

CE == INSTANCE S2ClosestEdgeQuery WITH
  Indexes <- MCIndexes, Queries <- MCQueries, MaxQueries <- 2,
  kMinEdgesToEnqueue <- 2, Infinity <- 99

CC == INSTANCE S2ClosestCellQuery WITH
  CellQueries <- MCQueriesByCell, kMinRangesToEnqueue <- 2, Infinity <- 99, MaxCellQueries <- 2,
  LabelledCells <- MCLabelledCells, MaxCells <- 3, Targets <- {}, MaxRanges <- 0,
  contents <- cell_contents,
  pc <- "none", target <- <<>>, it <- 1, range <- 1, visited <- <<>>, read <- <<>>

CP == INSTANCE S2ClosestPointQuery WITH
  PointQueries <- MCQueriesByCell, PointLeaves <- {Leaf(5), Leaf(6), Leaf(15)},
  MaxPoints <- 4, MaxPointQueries <- 2, kMinPointsToEnqueue <- 2, Infinity <- 99

-----------------------------------------------------------------------------
cells_vars == <<cell_map, additions_begin, removals, tracker_at>>
edge_vars == <<index, num_edges, edges_limit>>
cell_vars == <<added, tree, ranges, cell_contents>>
search_vars == <<q, limit, results, tested, conservative, avoid, queue, phase>>
query_vars == <<search_vars, covering, asked, edge_vars, cell_vars, points>>
all_vars == <<active, vars, shapes, batch_vars, cells_vars, union_vars, join, query_vars>>

NoBatches == /\ shapes = <<>> /\ removed = 0 /\ max_batch_sizes_ = <<0, 0>> /\ position = 0
             /\ gen = InitialGen(0) /\ finished = FALSE
NoCells == cell_map = <<>> /\ additions_begin = 0 /\ removals = <<>> /\ tracker_at = 0
NoJoin == /\ a = {} /\ b = {} /\ mode = "idle" /\ ai = 0 /\ bi = 0
          /\ stop = <<>> /\ target = <<>> /\ visited = {} /\ answer = "none"
NoIndex == index = [shapes |-> <<>>, cells |-> {}] /\ num_edges = 0 /\ edges_limit = 0
NoLabels == added = <<>> /\ tree = <<>> /\ ranges = <<>> /\ cell_contents = 0
NoSearch == /\ q = <<>> /\ limit = 0 /\ results = {} /\ tested = {} /\ conservative = FALSE
            /\ avoid = FALSE /\ queue = {} /\ phase = "none" /\ covering = <<>> /\ asked = 0
            /\ NoIndex /\ NoLabels /\ points = {}

ThreadsInit ==
  active = "threads" /\ NoBatches /\ NoCells /\ UnionInit /\ NoJoin /\ NoSearch

IndexesInit ==
  /\ UnionInit /\ NoSearch
  /\ \/ active = "batches" /\ BatchesInit /\ NoCells /\ NoJoin
     \/ active = "index_cells" /\ C!Init /\ removed = 0 /\ max_batch_sizes_ = <<0, 0>>
          /\ position = 0 /\ gen = InitialGen(0) /\ finished = FALSE /\ NoJoin
     \/ active = "unions" /\ NoBatches /\ NoCells /\ NoJoin
     \/ active = "joins" /\ JoinInit /\ NoBatches /\ NoCells

SearchesInit ==
  /\ UnionInit /\ NoBatches /\ NoCells /\ NoJoin
  /\ \/ active = "edges" /\ CE!Init /\ NoLabels /\ points = {}
     \/ active = "cells" /\ CC!CellQueryInit /\ NoIndex /\ points = {}
     \/ active = "points" /\ CP!Init /\ NoIndex /\ NoLabels

ThreadsNext ==
  /\ active = "threads" /\ Next
  /\ UNCHANGED <<shapes, batch_vars, cells_vars, union_vars, join, query_vars>>

IndexesNext ==
  /\ UNCHANGED <<vars, query_vars>>
  /\ \/ active = "batches" /\ BatchesNext /\ UNCHANGED <<cells_vars, union_vars, join>>
     \/ active = "index_cells" /\ C!Next /\ UNCHANGED <<batch_vars, union_vars, join>>
     \/ active = "unions" /\ UnionNext /\ UNCHANGED <<shapes, batch_vars, cells_vars, join>>
     \/ active = "joins" /\ JoinNext /\ UNCHANGED <<shapes, batch_vars, cells_vars, union_vars>>

SearchesNext ==
  /\ UNCHANGED <<vars, shapes, batch_vars, cells_vars, union_vars, join>>
  /\ \/ active = "edges" /\ CE!Next /\ UNCHANGED <<cell_vars, points>>
     \/ active = "cells" /\ CC!CellQueryNext /\ UNCHANGED <<edge_vars, points>>
     \/ active = "points" /\ CP!Next /\ UNCHANGED <<edge_vars, cell_vars>>

QueriesInit == Init /\ (ThreadsInit \/ IndexesInit \/ SearchesInit)

QueriesNext ==
  /\ UNCHANGED active
  /\ ThreadsNext \/ IndexesNext \/ SearchesNext

\* Joins alone.
NearJoinSpec ==
  /\ Init /\ IndexesInit /\ active = "joins"
  /\ [][UNCHANGED active /\ IndexesNext]_all_vars

QueriesSpec == QueriesInit /\ [][QueriesNext]_all_vars

\* Whatever was added, released and cut into batches before, the cells of the
\* index have the contents that an index built afresh from the live shapes
\* would have, and none is missing (ApplyUpdatesInternal).
IndexCellsExact == active = "index_cells" => C!IndexCellsExact

\* Every search returns the closest edges, cells or points, as comparing with
\* all of them would, whatever the object keeps from the searches before, in
\* whatever order cells leave the queue, and each result once.
ClosestFound ==
  /\ active = "edges" => CE!EdgesClosest /\ CE!CountSuffices
  /\ active = "cells" => CC!CellsClosest
  /\ active = "points" => CP!PointsClosest
=============================================================================
