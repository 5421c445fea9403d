-------------------------- MODULE S2ClosestEdgeQuery --------------------------
(***************************************************************************)
(* The edges of a shape index closest to a target, for one query object    *)
(* that answers several queries: src/s2/s2closest_edge_query_base.h.       *)
(*                                                                         *)
(* An index is [shapes, cells]: each shape has edges (the leaf cells each  *)
(* passes through) and an inside; the cells are disjoint and cover all     *)
(* edges.  Between queries the object keeps the cells it starts from and a *)
(* count of the edges.                                                     *)
(***************************************************************************)
EXTENDS S2ClosestQuery

CONSTANTS Indexes,              \* the indexes that are searched
          Queries,
          MaxQueries,           \* how many queries are made
          kMinEdgesToEnqueue

VARIABLES index,        \* index_
          covering,     \* index_covering_ and index_cells_: [id, indexed]
          num_edges,    \* index_num_edges_
          edges_limit,  \* index_num_edges_limit_
          asked         \* how many queries were made

object == <<index, covering, num_edges, edges_limit, asked>>
vars == <<search, object>>

\* Edge e of shape s, and its interior for e = 0; in the order of the results.
Item(s, e) == 100 * s + e
ItemLeaves(i, item) ==
  LET shape == i.shapes[item \div 100]
  IN  IF item % 100 = 0 THEN shape.inside ELSE shape.edges[item % 100]
EdgeItems(i) ==
  UNION { { Item(s, e) : e \in DOMAIN i.shapes[s].edges } : s \in DOMAIN i.shapes }

\* The edges clipped to an index cell.
EdgesIn(id) ==
  InOrder({ item \in EdgeItems(index) : ItemLeaves(index, item) \cap Leaves(id) # {} })

\* CountEdgesUpTo: whole shapes, until there are enough.
CountEdgesUpTo(i, most) ==
  FoldLeft(LAMBDA n, s : IF n >= most THEN n ELSE n + Len(s.edges), 0, i.shapes)

ProcessEdges(s, id) ==
  FoldLeft(LAMBDA t, item : MaybeAddResult(t, item, ItemLeaves(index, item)), s, EdgesIn(id))

ProcessOrEnqueue(s, id, indexed) ==
  IF indexed /\ Len(EdgesIn(id)) < kMinEdgesToEnqueue THEN ProcessEdges(s, id)
  ELSE Enqueue(s, id, indexed)

-----------------------------------------------------------------------------
(* The cells to start from.                                                *)

\* AddInitialRange.
RangeCover(first, last) ==
  IF first = last THEN [id |-> first, indexed |-> TRUE]
  ELSE [id |-> ParentAt(first, GetCommonAncestorLevel(first, last)), indexed |-> FALSE]

\* InitCovering: the faces, or the children of the smallest cell around the
\* index, each shrunk to the index cells in it.
InitCovering(cells) ==
  LET first == Min(cells)
      last == Max(cells)
      l == GetCommonAncestorLevel(first, last) + 1
      tops == InOrder({ ParentAt(id, l) : id \in cells })
      Under(top) == { id \in cells : contains(top, id) }
  IN  IF first = last THEN <<RangeCover(first, last)>>
      ELSE [k \in DOMAIN tops |-> RangeCover(Min(Under(tops[k])), Max(Under(tops[k])))]

\* One initial cell: a cell of the covering, the index cell around it, or a
\* cell that index cells divide.  Cells inside an index cell that was processed
\* for an earlier one are passed over, up to skip.
AddInitialCell(s, id, cover) ==
  LET r == Locate(index.cells, id)
  IN  IF id <= s.skip THEN s
      ELSE IF \E k \in DOMAIN cover : cover[k].id = id
      THEN LET c == CHOOSE c \in ToSet(cover) : c.id = id
           IN  [s EXCEPT !.found = ProcessOrEnqueue(@, id, c.indexed)]
      ELSE IF r.relation = "INDEXED"
      THEN [found |-> ProcessOrEnqueue(s.found, r.at, TRUE), skip |-> range_max(r.at)]
      ELSE IF r.relation = "SUBDIVIDED"
      THEN [s EXCEPT !.found = ProcessOrEnqueue(@, id, FALSE)]
      ELSE s

\* Mutant of AddInitialCells: the cells are looked up in the index cells only.
AddInitialCellsIndexed(s, cells, cover) ==
  FoldLeft(LAMBDA t, id : IF Locate(index.cells, id).relation = "INDEXED"
                          THEN ProcessOrEnqueue(t, Locate(index.cells, id).at, TRUE) ELSE t,
           s, cells)

AddInitialCells(s, cells, cover) ==
  FoldLeft(LAMBDA t, id : AddInitialCell(t, id, cover), [found |-> s, skip |-> 0], cells).found

-----------------------------------------------------------------------------
(* The state machine.                                                      *)

Init ==
  /\ SearchInit
  /\ index \in Indexes
  /\ covering = <<>> /\ num_edges = 0 /\ edges_limit = 0 /\ asked = 0

\* Init or ReInit after the index has changed.
ReInit ==
  /\ phase = "idle" /\ asked > 0 /\ asked < MaxQueries
  /\ index' \in Indexes \ {index}
  /\ covering' = <<>> /\ num_edges' = 0 /\ edges_limit' = 0
  /\ UNCHANGED <<search, asked>>

\* Mutant of Recount: the edges are counted once.
RecountOnce(query) ==
  LET least == query.max_brute_force_index_size + 1
  IN  IF edges_limit = 0
      THEN [num |-> CountEdgesUpTo(index, least), limit |-> least]
      ELSE [num |-> num_edges, limit |-> edges_limit]

\* The count of edges is renewed where it was cut off below what counts as
\* large for this target.
Recount(query) ==
  LET least == query.max_brute_force_index_size + 1
  IN  IF least > edges_limit /\ num_edges >= edges_limit
      THEN [num |-> CountEdgesUpTo(index, least), limit |-> least]
      ELSE [num |-> num_edges, limit |-> edges_limit]

\* FindClosestEdgesInternal up to the choice of the search.  The shapes around
\* the target are looked for until there are max_results of them.
FindClosestEdges ==
  /\ asked < MaxQueries
  /\ \E query \in Queries :
       LET around == { s \in DOMAIN index.shapes :
                         query.interiors /\ query.max_distance # 0
                         /\ index.shapes[s].inside \cap query.target # {} }
           room == Min({query.max_results, Cardinality(around)})
           count == Recount(query)
           brute == query.use_brute_force \/ count.num < query.max_brute_force_index_size + 1
       IN  /\ \E shapes \in { S \in SUBSET around : Cardinality(S) = room } :
                Begin(query, { [distance |-> 0, item |-> Item(s, 0)] : s \in shapes },
                      IF room = query.max_results THEN 0 ELSE query.max_distance, brute)
           /\ IF phase' = "done" THEN UNCHANGED <<num_edges, edges_limit>>
              ELSE num_edges' = count.num /\ edges_limit' = count.limit
  /\ asked' = asked + 1
  /\ UNCHANGED <<index, covering>>

FindClosestEdgesBruteForce ==
  /\ phase = "brute"
  /\ Keep(FoldLeft(LAMBDA s, item : MaybeAddResult(s, item, ItemLeaves(index, item)),
                   Found, InOrder(EdgeItems(index))))
  /\ phase' = "done"
  /\ UNCHANGED <<q, conservative, avoid, object>>

\* InitQueue.  A single closest edge is first looked for in the index cell at
\* the centre of the target.
InitQueue ==
  /\ phase = "init"
  /\ \E center \in q.target :
       LET at == Locate(index.cells, center)
           s == IF q.max_results = 1 /\ at.relation = "INDEXED"
                THEN ProcessEdges(Found, at.at) ELSE Found
           cover == IF covering = <<>> THEN InitCovering(index.cells) ELSE covering
           ids == [k \in DOMAIN cover |-> cover[k].id]
       IN  IF s.limit = 0 THEN Keep(s) /\ UNCHANGED covering
           ELSE /\ covering' = cover
                /\ \E near \in IF s.limit = Infinity THEN {ids} ELSE SearchCoverings(s.limit) :
                     Keep(AddInitialCells(s, GetIntersection(ids, near), cover))
  /\ phase' = "search"
  /\ UNCHANGED <<q, conservative, avoid, index, num_edges, edges_limit, asked>>

\* The children of a cell, in the order in which the iterator meets them.
ProcessChildren(s, id) ==
  LET Child(t, k) ==
        LET c == child(id, k)
        IN  IF \A other \in index.cells : ~contains(c, other) THEN t
            ELSE ProcessOrEnqueue(t, c, c \in index.cells)
  IN  FoldLeft(Child, s, <<1, 0, 3, 2>>)

FindClosestEdgesOptimized ==
  /\ phase = "search"
  /\ \E e \in queue :
       /\ IsTop(e)
       /\ LET s == [Found EXCEPT !.queue = @ \ {e}]
          IN  Keep(IF e.indexed THEN ProcessEdges(s, e.id) ELSE ProcessChildren(s, e.id))
  /\ UNCHANGED <<q, conservative, avoid, phase, object>>

Next ==
  \/ ReInit
  \/ FindClosestEdges
  \/ FindClosestEdgesBruteForce
  \/ InitQueue
  \/ FindClosestEdgesOptimized
  \/ EndSearch /\ UNCHANGED object
  \/ Return /\ UNCHANGED object

Spec == Init /\ [][Next]_vars
-----------------------------------------------------------------------------
(* Properties.                                                             *)

Things ==
  LET around == { Item(k, 0) : k \in { k \in DOMAIN index.shapes :
                    q.interiors /\ index.shapes[k].inside \cap q.target # {} } }
  IN  [item \in EdgeItems(index) \cup around |-> ItemLeaves(index, item)]

\* Every query on the object finds the closest edges, by brute force or by the
\* search, whatever it keeps from queries before: the distance limit, which
\* sinks while cells wait in the queue, prunes nothing that belongs to the
\* results, and edges met in several cells are reported once.
EdgesClosest == ClosestAmong(Things)

\* The search is used exactly on an index with more edges than the target's
\* limit, although the count is cut off at the limit of an earlier target.
CountSuffices ==
  phase \in {"init", "search", "brute"} /\ ~q.use_brute_force =>
    (phase = "brute" <=> Cardinality(EdgeItems(index)) <= q.max_brute_force_index_size)
=============================================================================
