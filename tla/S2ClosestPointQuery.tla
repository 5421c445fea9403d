-------------------------- MODULE S2ClosestPointQuery --------------------------
(***************************************************************************)
(* The points of a point index closest to a target:                        *)
(* src/s2/s2point_index.h and src/s2/s2closest_point_query_base.h.         *)
(*                                                                         *)
(* The index is a multimap from leaf cells to points; the query object     *)
(* keeps one iterator and the cells it starts from until ReInit.           *)
(***************************************************************************)
EXTENDS S2ClosestQuery

CONSTANTS PointQueries, PointLeaves, MaxPoints, MaxPointQueries, kMinPointsToEnqueue

VARIABLES points,     \* map_: leaf cells and data, [id, data]
          covering,   \* index_covering_
          asked       \* how many queries were made

vars == <<search, points, covering, asked>>

\* The points in the order of the map; positions from 1, one after the last
\* being done.
AsKey(p) == p.id * 100 + p.data
InMapOrder == LET keys == InOrder({ AsKey(p) : p \in points })
              IN  [i \in DOMAIN keys |-> [id |-> keys[i] \div 100, data |-> keys[i] % 100]]
DonePos == Cardinality(points) + 1
SeekPoint(leaf) == Min({ i \in DOMAIN InMapOrder : InMapOrder[i].id >= leaf } \cup {DonePos})

-----------------------------------------------------------------------------
(* The index.  The object is reinitialised whenever it changes.            *)

Init == SearchInit /\ points = {} /\ covering = <<>> /\ asked = 0

Add ==
  /\ phase = "idle" /\ Cardinality(points) < MaxPoints
  /\ \E leaf \in PointLeaves :
       points' = points \cup {[id |-> leaf, data |-> Cardinality(points)]}
  /\ covering' = <<>> /\ UNCHANGED <<search, asked>>

\* Remove, of the point that was added last.
RemovePoint ==
  /\ phase = "idle" /\ asked = 1
  /\ \E p \in points : p.data = Cardinality(points) - 1 /\ points' = points \ {p}
  /\ covering' = <<>> /\ UNCHANGED <<search, asked>>

-----------------------------------------------------------------------------
(* The search.  A point that is met twice would be reported twice: copy    *)
(* tells such results apart.                                               *)

\* MaybeAddResult.  With max_results reached, the furthest result leaves the
\* queue of results before the new one enters.
AddPoint(s, p) ==
  LET d == UpdateMinDistance({p.id}, s.limit)
      r == [distance |-> d, item |-> p.data,
            copy |-> Cardinality({ x \in s.results : x.item = p.data })]
      before == IF q.max_results = 1 THEN {}
                ELSE IF Cardinality(s.results) >= q.max_results
                THEN s.results \ {Furthest(s.results)} ELSE s.results
      all == before \cup {r}
  IN  IF d >= s.limit \/ p.id \notin q.region THEN s
      ELSE [s EXCEPT !.results = all,
                     !.limit = IF Cardinality(all) >= q.max_results
                               THEN Minus(Furthest(all).distance, q.max_error) ELSE @]

\* On s = [limit, results, tested, queue, iter, seek].  A leaf cell is read
\* whatever the number of its points; the points of another cell are read if
\* there are few, and the cell waits otherwise.
ProcessOrEnqueue(s, id, seek) ==
  LET at == IF seek THEN SeekPoint(range_min(id)) ELSE s.iter
      inside == { i \in at .. Cardinality(points) : InMapOrder[i].id <= range_max(id) }
      Read(t, i) == AddPoint(t, InMapOrder[i])
      after == at + Cardinality(inside)
  IN  IF is_leaf(id) \/ Cardinality(inside) < kMinPointsToEnqueue
      THEN [FoldLeft(Read, s, InOrder(inside)) EXCEPT !.iter = after, !.seek = FALSE]
      ELSE [Enqueue(s, id, FALSE) EXCEPT !.iter = at + kMinPointsToEnqueue - 1, !.seek = TRUE]

\* Mutant of InitCovering: the cell of the last group ends at its first point.
InitCoveringShort ==
  LET first == InMapOrder[1].id
      last == InMapOrder[Cardinality(points)].id
      l == GetCommonAncestorLevel(first, last) + 1
      tops == InOrder({ ParentAt(p.id, l) : p \in points })
      Under(top) == { p.id : p \in { p \in points : contains(top, p.id) } }
  IN  IF points = {} THEN <<>>
      ELSE IF first = last THEN <<first>>
      ELSE [k \in DOMAIN tops |-> IF k = Len(tops) THEN Min(Under(tops[k]))
              ELSE ParentAt(tops[k], GetCommonAncestorLevel(Min(Under(tops[k])), Max(Under(tops[k]))))]

\* InitCovering: one cell for each child of the smallest cell around all
\* points, shrunk to the points in it.
InitCovering ==
  LET first == InMapOrder[1].id
      last == InMapOrder[Cardinality(points)].id
      l == GetCommonAncestorLevel(first, last) + 1
      tops == InOrder({ ParentAt(p.id, l) : p \in points })
      Under(top) == { p.id : p \in { p \in points : contains(top, p.id) } }
      Cover(ids) == ParentAt(Min(ids), GetCommonAncestorLevel(Min(ids), Max(ids)))
  IN  IF points = {} THEN <<>>
      ELSE IF first = last THEN <<first>>
      ELSE [k \in DOMAIN tops |-> Cover(Under(tops[k]))]

State == [limit |-> limit, results |-> results, tested |-> tested, queue |-> queue,
          iter |-> 1, seek |-> TRUE]

FindClosestPoints ==
  /\ asked < MaxPointQueries
  /\ \E query \in PointQueries :
       Begin(query, {}, query.max_distance, query.use_brute_force
             \/ Cardinality(points) <= query.max_brute_force_index_size)
  /\ asked' = asked + 1
  /\ UNCHANGED <<points, covering>>

FindClosestPointsBruteForce ==
  /\ phase = "brute"
  /\ Keep(FoldLeft(AddPoint, Found, InMapOrder))
  /\ phase' = "done"
  /\ UNCHANGED <<q, conservative, avoid, points, covering, asked>>

\* A single closest point is first looked for on both sides of the centre.
LookAtCenter(center) ==
  LET at == SeekPoint(center)
      s == IF at # DonePos THEN AddPoint(State, InMapOrder[at]) ELSE State
  IN  IF at > 1 THEN AddPoint(s, InMapOrder[at - 1]) ELSE s

AddInitialCells(s, cells) ==
  LET Step(t, id) == IF t.iter >= DonePos THEN t
                     ELSE ProcessOrEnqueue(t, id, range_min(id) > InMapOrder[t.iter].id)
  IN  FoldLeft(Step, s, cells)

\* The coverings of the region, any canonical one of few cells.
RegionCoverings ==
  IF q.region = LeafIds THEN {<<FromFace(0)>>}
  ELSE { FastCovering([max_cells |-> 4, max_level |-> MaxLevel], b) :
           b \in CellUnionBounds(q.region) }

InitQueue ==
  /\ phase = "init"
  /\ \E center \in q.target, over \in RegionCoverings :
       LET s == IF q.max_results = 1 THEN LookAtCenter(center) ELSE State
           cover == IF covering = <<>> THEN InitCovering ELSE covering
           within == IF q.region = LeafIds THEN cover ELSE GetIntersection(cover, over)
       IN  IF s.limit = 0 THEN Keep(s) /\ UNCHANGED covering
           ELSE /\ covering' = cover
                /\ \E near \in IF s.limit = Infinity THEN {<<>>} ELSE SearchCoverings(s.limit) :
                     Keep(AddInitialCells(s, IF s.limit = Infinity THEN within
                                             ELSE GetIntersection(within, near)))
  /\ phase' = "search"
  /\ UNCHANGED <<q, conservative, avoid, points, asked>>

FindClosestPointsOptimized ==
  /\ phase = "search"
  /\ \E e \in queue :
       /\ IsTop(e)
       /\ Keep(FoldLeft(LAMBDA t, k : ProcessOrEnqueue(t, child(e.id, k), t.seek),
                        [State EXCEPT !.queue = @ \ {e}], <<0, 1, 2, 3>>))
  /\ UNCHANGED <<q, conservative, avoid, phase, points, covering, asked>>

Next ==
  \/ Add
  \/ RemovePoint
  \/ FindClosestPoints
  \/ FindClosestPointsBruteForce
  \/ InitQueue
  \/ FindClosestPointsOptimized
  \/ EndSearch /\ UNCHANGED <<points, covering, asked>>
  \/ Return /\ UNCHANGED <<points, covering, asked>>

Spec == Init /\ [][Next]_vars
-----------------------------------------------------------------------------
(* Properties.                                                             *)

\* The closest points are found, each once, although results leave before new
\* ones enter, the iterator is carried from cell to cell, and the cells to
\* start from are cut down by the region and by the distance.
PointsClosest ==
  ClosestAmong([n \in { p.data : p \in points } |->
                  { p.id : p \in { p \in points : p.data = n } }])
=============================================================================
