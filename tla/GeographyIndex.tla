---------------------------- MODULE GeographyIndex ----------------------------
(***************************************************************************)
(* The matrix operators: src/s2geography/index.h and src/s2-matrix.cpp.    *)
(*                                                                         *)
(* The shapes of all of y go into one shape index, with the element of y   *)
(* each belongs to; every element of x is answered from the index: either  *)
(* the features of y whose index cells meet a covering of x are candidates *)
(* for an exact predicate, or an edge query finds a shape.  How the index  *)
(* divides its cells and how the coverer covers a region are left open.    *)
(*                                                                         *)
(* A geography is the sequence of its shapes, a shape the set of leaf      *)
(* cells it touches; an empty point has one empty shape, an empty          *)
(* collection none.                                                        *)
(***************************************************************************)
EXTENDS S2CellVector, Sequences, SequencesExt

CONSTANTS Geographies,    \* elements of x and y
          Nil,             \* R_NilValue
          MaxX, MaxY,     \* bounds on the lengths of x and y
          MatrixDistance, \* the distance of s2_dwithin_matrix
          IndexCells(_),  \* the sets of cells the index may have for a region
          Coverings(_)    \* the coverings that a region may get

Predicates == {"contains", "within", "intersects", "disjoint", "equals", "dwithin"}
EdgeQueries == {"closest_feature", "farthest_feature"}

VARIABLES op,       \* the function called
          geog1,    \* x
          geog2,    \* y
          added,    \* how many elements of y buildIndex has added
          shapes,   \* the shapes of index_, by shape id + 1
          values_,  \* the element of y each belongs to
          cells,    \* the ids of the index cells
          built,    \* buildIndex has ended
          output,   \* one entry for each element of x done
          stopped   \* Rcpp::stop was called

matrix_vars == <<op, geog1, geog2, added, shapes, values_, cells, built, output, stopped>>

Region(g) == UNION { g[k] : k \in DOMAIN g }

\* The region that MatrixEntry needs a covering of.
Searched(name, g) == IF name = "dwithin" THEN Buffered(Region(g), MatrixDistance) ELSE Region(g)

ASSUME DistanceIsNat == MatrixDistance \in Nat
ASSUME GeographiesTouchLeaves == \A g \in Geographies : g \in Seq(SUBSET LeafIds)
ASSUME NilIsNoGeography == Nil \notin Geographies
ASSUME CellsDivideRegion ==
  \A y \in BoundedSeq(Geographies, MaxY) :
    LET region == UNION { Region(y[j]) : j \in DOMAIN y }
    IN  \A T \in IndexCells(region) : IsTiling(T, region)
ASSUME CoveringsCover ==
  \A g \in Geographies, name \in Predicates :
    \A T \in Coverings(Searched(name, g)) : Covers(T, Searched(name, g))

-----------------------------------------------------------------------------
(* Building the index of y.                                                *)

\* Mutant of IndexAdd: the values are numbered in the order they come, so a
\* geography without shapes shifts the ones after it.
AddCounting(geog, value) ==
  /\ shapes' = shapes \o geog
  /\ values_' = values_ \o [k \in DOMAIN geog |->
                             IF values_ = <<>> THEN 0 ELSE Last(values_) + 1]

\* GeographyIndex::Add.
IndexAdd(geog, value) ==
  /\ shapes' = shapes \o geog
  /\ values_' = values_ \o [k \in DOMAIN geog |-> value]

MatrixInit ==
  /\ op \in Predicates \cup EdgeQueries
  /\ geog1 \in BoundedSeq(Geographies \cup {Nil}, MaxX)
  /\ geog2 \in BoundedSeq(Geographies \cup {Nil}, MaxY)
  /\ added = 0
  /\ shapes = <<>>
  /\ values_ = <<>>
  /\ cells = {}
  /\ built = FALSE
  /\ output = <<>>
  /\ stopped = FALSE

\* One round of buildIndex: a missing element of y stops the call.
AddNext ==
  /\ ~built /\ ~stopped /\ added < Len(geog2)
  /\ IF geog2[added + 1] = Nil
     THEN stopped' = TRUE /\ UNCHANGED <<added, shapes, values_>>
     ELSE IndexAdd(geog2[added + 1], added) /\ added' = added + 1 /\ UNCHANGED stopped
  /\ UNCHANGED <<op, geog1, geog2, cells, built, output>>

\* The iterator that buildIndex creates at its end makes the index build its
\* cells.
BuildCells ==
  /\ ~built /\ ~stopped /\ added = Len(geog2)
  /\ built' = TRUE
  /\ cells' \in IndexCells(Region(shapes))
  /\ UNCHANGED <<op, geog1, geog2, added, shapes, values_, output, stopped>>

-----------------------------------------------------------------------------
(* Querying it.                                                            *)

\* The elements of y with a shape in the index cell id.
ValuesIn(id) ==
  { values_[s] : s \in { t \in DOMAIN shapes : shapes[t] \cap Leaves(id) # {} } }

\* Iterator::Query of one cell: the index cell that holds it, or all those that
\* the iterator meets from where Locate left it while they are inside it.
QueryCell(id) ==
  LET found == Locate(cells, id)
  IN  CASE found.relation = "INDEXED" -> ValuesIn(found.at)
        [] found.relation = "SUBDIVIDED" ->
             UNION { ValuesIn(c) : c \in { d \in cells : d >= found.at /\ contains(id, d) } }
        [] OTHER -> {}

Query(covering) == UNION { QueryCell(id) : id \in covering }

-----------------------------------------------------------------------------
(* The exact predicates, which are false or true of two regions.           *)

s2_intersects(r1, r2) == r1 \cap r2 # {}
s2_equals(r1, r2) == r1 = r2
s2_contains(r1, r2) == r2 # {} /\ r2 \subseteq r1

ActuallyIntersects(r1, r2) ==
  CASE op = "contains" -> s2_contains(r1, r2)
    [] op = "within" -> s2_contains(r2, r1)
    [] op \in {"intersects", "disjoint"} -> s2_intersects(r1, r2)
    [] op = "equals" -> s2_equals(r1, r2)
    [] op = "dwithin" -> IsDistanceLessOrEqual(r1, r2, MatrixDistance)

-----------------------------------------------------------------------------
(* processFeature, for the next element of x.                              *)

\* The elements of x still to be done.
Pending == built /\ Len(output) < Len(geog1)
Current == geog1[Len(output) + 1]

Return(entry) ==
  /\ output' = Append(output, entry)
  /\ UNCHANGED <<op, geog1, geog2, added, shapes, values_, cells, built, stopped>>

\* Every predicate but s2_disjoint: a missing x gives NULL.
MatrixEntry(covering) ==
  InOrder({ j + 1 : j \in { k \in Query(covering) :
                  ActuallyIntersects(Region(Current), Region(geog2[k + 1])) } })

\* s2_disjoint_matrix takes the result of s2_intersects_matrix, NULL too, from
\* all indices of y.
Disjoint(indices) == InOrder(DOMAIN geog2 \ { indices[k] : k \in DOMAIN indices })

ProcessMissing ==
  /\ Pending /\ Current = Nil
  /\ Return(IF op = "disjoint" THEN Disjoint(<<>>) ELSE Nil)

ProcessPredicate ==
  /\ Pending /\ Current # Nil /\ op \in Predicates
  /\ \E covering \in Coverings(Searched(op, Current)) :
       Return(IF op = "disjoint" THEN Disjoint(MatrixEntry(covering)) ELSE MatrixEntry(covering))

\* FindClosestEdge and FindFurthestEdge: any of the shapes at the least or the
\* greatest distance, none if x or the index is empty.
BestShapes ==
  LET ds == [s \in DOMAIN shapes |->
              { Distance(a, b) : a \in shapes[s], b \in Region(Current) }]
      all == UNION { ds[s] : s \in DOMAIN shapes }
      best == IF op = "closest_feature" THEN Min(all) ELSE Max(all)
  IN  IF all = {} THEN {} ELSE { s \in DOMAIN shapes : best \in ds[s] }

ProcessEdgeQuery ==
  /\ Pending /\ Current # Nil /\ op \in EdgeQueries
  /\ \/ BestShapes = {} /\ Return(Nil)
     \/ \E s \in BestShapes : Return(values_[s] + 1)

MatrixNext ==
  \/ AddNext
  \/ BuildCells
  \/ ProcessMissing
  \/ ProcessPredicate
  \/ ProcessEdgeQuery

MatrixSpec == MatrixInit /\ [][MatrixNext]_matrix_vars
-----------------------------------------------------------------------------
(* Properties.                                                             *)

\* BruteForceMatrixPredicateOperator: compares x with every element of y.
BruteForce(g) ==
  IF g = Nil THEN Nil
  ELSE LET indices == { j \in DOMAIN geog2 : ActuallyIntersects(Region(g), Region(geog2[j])) }
       IN  InOrder(IF op = "disjoint" THEN DOMAIN geog2 \ indices ELSE indices)

\* Of the elements of y that are not empty, the index finds exactly the ones a
\* comparison with all of y finds, however its cells are divided and whatever
\* covering x gets; none is lost between a covering cell and the index cells
\* inside, around or before it.
IndexedFindsAll ==
  op \in Predicates =>
    \A i \in DOMAIN output : geog1[i] # Nil =>
      \A j \in DOMAIN geog2 : Region(geog2[j]) # {} =>
        (Contains(output[i], j) <=> Contains(BruteForce(geog1[i]), j))

\* The distances of g from an element of y, from all of them, and the one that
\* the edge queries look for.
ToElement(g, j) == { Distance(a, b) : a \in Region(g), b \in Region(geog2[j]) }
ToAny(g) == UNION { ToElement(g, j) : j \in DOMAIN geog2 }
Extreme(g) == IF op = "closest_feature" THEN Min(ToAny(g)) ELSE Max(ToAny(g))

\* s2_closest_feature and s2_farthest_feature name an element of y that really
\* is at the least (greatest) distance, and none exactly if x or all of y is
\* empty, so shape ids are mapped back to the right elements of y.
FeatureIsExtreme ==
  op \in EdgeQueries =>
    \A i \in DOMAIN output : geog1[i] # Nil =>
      IF ToAny(geog1[i]) = {} THEN output[i] = Nil
      ELSE /\ output[i] \in DOMAIN geog2
           /\ Extreme(geog1[i]) \in ToElement(geog1[i], output[i])

\* The matrix operators of s2-matrix.cpp, which go through coverings and the
\* index, find the same elements as a comparison with every element, and the
\* closest and the farthest feature are that.
MatrixExact ==
  /\ IndexedFindsAll
  /\ FeatureIsExtreme
=============================================================================
