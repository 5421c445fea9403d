---------------------------- MODULE ShapeIndexCells ----------------------------
(***************************************************************************)
(* What a batch of updates does to the cells of a MutableS2ShapeIndex:     *)
(* AddShape, RemoveShape, UpdateFaceEdges and FinishPartialShape of        *)
(* src/s2/mutable_s2shape_index.cc, with the InteriorTracker that follows  *)
(* the space-filling curve to find out which shapes contain the centre of  *)
(* each cell.                                                              *)
(*                                                                         *)
(* The sphere is reduced to the curve.  Even numbers are the vertices      *)
(* between leaf cells, a cell starts at its entry vertex, ends at its exit *)
(* vertex and has its centre at its id.  An edge is the set of leaf cells  *)
(* it touches (padding included) and the places p where it crosses the     *)
(* curve between p and p + 1.  A line between two points of the curve      *)
(* crosses the edge if an odd number of those places lie between them.     *)
(***************************************************************************)
EXTENDS S2CellVector, Functions

CONSTANTS ShapeTypes,          \* the shapes to add: [dimension, origin, edges]
          MaxShapes,           \* bound on the shape ids handed out
          max_edges_per_cell,
          MinShortFraction     \* 1 / s2shape_index_min_short_edge_fraction

VARIABLES shapes,              \* shapes_
          cell_map,            \* cell id -> shape id -> [edges, contains_center]
          additions_begin,     \* pending_additions_begin_
          removals,            \* pending_removals_: ids, with the shapes they were
          at                   \* <<shape_id, edge_id>> the next batch begins with

vars == <<shapes, cell_map, additions_begin, removals, at>>

Null == [dimension |-> -1, origin |-> FALSE, edges |-> <<>>]

EntryVertex(id) == range_min(id) - 1
ExitVertex(id) == range_max(id) + 1

Crosses(edge, p, q) ==
  Cardinality({ c \in edge.cross : (p <= c /\ c < q) \/ (q <= c /\ c < p) }) % 2 = 1

\* s2shapeutil::ContainsBruteForce, from the shape's reference point, here the
\* start of the curve.
ContainsBruteForce(shape, p) ==
  /\ shape.dimension = 2
  /\ shape.origin #
       (Cardinality({ i \in DOMAIN shape.edges : Crosses(shape.edges[i], 0, p) }) % 2 = 1)

-----------------------------------------------------------------------------
(* InteriorTracker.                                                        *)

NewTracker ==
  [active |-> FALSE, from |-> 0, focus |-> 0, next |-> range_min(FromFace(0)),
   ids |-> {}, saved |-> {}, saved_active |-> FALSE, partial |-> 0]

ToggleShape(t, s) ==
  [t EXCEPT !.ids = IF s \in @ THEN @ \ {s} ELSE @ \cup {s}]
TrackShape(t, s, contains_focus) ==
  LET u == [t EXCEPT !.active = TRUE] IN IF contains_focus THEN ToggleShape(u, s) ELSE u

MoveTo(t, p) == [t EXCEPT !.focus = p]
DrawTo(t, p) == [t EXCEPT !.from = t.focus, !.focus = p]
set_next_cellid(t, id) == [t EXCEPT !.next = range_min(id)]
\* Moves to the entry vertex unless the tracker is there already.
Enter(t, id) == IF t.next = range_min(id) THEN t ELSE MoveTo(t, EntryVertex(id))

TestEdge(t, e) == IF Crosses(e, t.from, t.focus) THEN ToggleShape(t, e.shape) ELSE t
TestAllEdges(t, edges) ==
  FoldLeft(TestEdge, t, SelectSeq(edges, LAMBDA e : e.has_interior))

SaveAndClearStateBefore(t, limit) ==
  [t EXCEPT !.saved = { s \in t.ids : s < limit }, !.saved_active = t.active,
            !.ids = { s \in @ : s >= limit }]
\* Mutant of RestoreStateBefore: the shapes being removed are forgotten.
RestoreStateBeforeLost(t, limit) ==
  [t EXCEPT !.ids = { s \in @ : s >= limit }, !.saved = {}, !.active = t.saved_active]

RestoreStateBefore(t, limit) ==
  [t EXCEPT !.ids = { s \in @ : s >= limit } \cup t.saved, !.saved = {},
            !.active = t.saved_active]

-----------------------------------------------------------------------------
(* Edges on their way into the index, in the order of their shape ids.     *)

FaceEdges(s, shape, first, last, has_interior) ==
  [i \in 1 .. last - first |->
     LET e == shape.edges[first + i]
     IN  [shape |-> s, id |-> first + i, leaves |-> e.leaves, cross |-> e.cross,
          max_level |-> e.max_level, has_interior |-> has_interior]]

\* AddShape: the edges first .. last - 1 (counted from 0) of a queued shape.
\* The interior of a shape that is added in parts is left for later.
AddShape(st, s, first, last) ==
  LET shape == shapes[s]
      whole == first = 0 /\ last = Len(shape.edges)
      t == IF shape.dimension # 2 THEN st.t
           ELSE IF whole
           THEN TrackShape(st.t, s, ContainsBruteForce(shape, st.t.focus))
           ELSE [st.t EXCEPT !.partial = s]
  IN  [t |-> t,
       edges |-> st.edges \o FaceEdges(s, shape, first, last,
                                       shape.dimension = 2 /\ whole)]

RemoveShape(st, removed) ==
  LET shape == removed.shape
      interior == shape.dimension = 2
  IN  [t |-> IF interior THEN TrackShape(st.t, removed.id, ContainsBruteForce(shape, 0))
             ELSE st.t,
       edges |-> st.edges \o FaceEdges(removed.id, shape, 0, Len(shape.edges), interior)]

\* Clipping: the edges that reach a cell.
EdgesIn(edges, id) == SelectSeq(edges, LAMBDA e : e.leaves \cap Leaves(id) # {})

-----------------------------------------------------------------------------
(* Updating the cells.  st is the cell map and the tracker.                *)

is_shape_being_removed(s) == s < additions_begin

CellOf(edges, inside) ==
  [s \in { edges[i].shape : i \in DOMAIN edges } \cup inside |->
     [edges |-> { edges[i].id : i \in { k \in DOMAIN edges : edges[k].shape = s } },
      contains_center |-> s \in inside]]

TooManyShortEdges(id, edges, t) ==
  LET short == Cardinality({ i \in DOMAIN edges : level(id) < edges[i].max_level })
      scaled == (Len(edges) + Cardinality(t.ids)) \div MinShortFraction
  IN  Len(edges) > max_edges_per_cell /\ short > Max({max_edges_per_cell, scaled})

\* The tracker goes through the cell: to its centre, and then to its exit.
TrackedToCenter(t, id, edges) == TestAllEdges(DrawTo(Enter(t, id), id), edges)
TrackedToExit(t, id, edges) ==
  set_next_cellid(TestAllEdges(DrawTo(t, ExitVertex(id)), edges), next(id))

CellMade(st, id, edges, at_center, tracked) ==
  [map |-> st.map @@ (id :> CellOf(edges, at_center.ids)),
   t |-> IF tracked THEN TrackedToExit(at_center, id, edges) ELSE at_center]

MakeIndexCell(st, id, edges) ==
  IF edges = <<>> /\ st.t.ids = {} THEN st
  ELSE IF st.t.active /\ edges # <<>>
  THEN CellMade(st, id, edges, TrackedToCenter(st.t, id, edges), TRUE)
  ELSE CellMade(st, id, edges, st.t, FALSE)

\* One shape of a cell that is absorbed: its edges in the cell are taken up
\* again; the first of them that has an interior moves the tracker here.
Tracked(t, s, clipped, interior) ==
  IF interior THEN TrackShape(t, s, clipped.contains_center) ELSE t

WithEdges(a, id, es, moves, t) ==
  [t |-> TestAllEdges(IF moves THEN set_next_cellid(DrawTo(MoveTo(t, id), EntryVertex(id)), id)
                      ELSE t, es),
   moved |-> a.moved \/ moves, edges |-> a.edges \o es]

TakeUpEdges(a, id, s, clipped, interior, es) ==
  WithEdges(a, id, es, interior /\ ~a.moved /\ es # <<>>, Tracked(a.t, s, clipped, interior))

TakeUp(a, id, s, clipped, interior) ==
  TakeUpEdges(a, id, s, clipped, interior,
    SelectSeq(FaceEdges(s, shapes[s], 0, Len(shapes[s].edges), interior),
              LAMBDA e : e.id \in clipped.edges))

\* The shapes of the cell that are still there, from tracker t on.
TakeUpCell(cell, id, t) ==
  FoldLeft(LAMBDA a, s : TakeUp(a, id, s, cell[s], shapes[s].dimension = 2 /\ s # a.t.partial),
           [t |-> t, moved |-> FALSE, edges |-> <<>>],
           InOrder({ s \in DOMAIN cell : shapes[s] # Null }))

\* The removed shapes are followed to the exit vertex, and kept for later.
FollowRemoved(t, id, edges) ==
  IF t.active /\ edges # <<>> /\ is_shape_being_removed(edges[1].shape)
  THEN TestAllEdges(set_next_cellid(DrawTo(Enter(t, id), ExitVertex(id)), next(id)),
                    SelectSeq(edges, LAMBDA e : is_shape_being_removed(e.shape)))
  ELSE t

\* AbsorbIndexCell: takes an existing cell out of the map and adds what stays
\* of it to the edges and to the tracker.
Absorbed(st, id, edges, kept) ==
  [map |-> Restrict(st.map, DOMAIN st.map \ {id}), t |-> kept.t,
   edges |-> kept.edges \o SelectSeq(edges, LAMBDA e : ~is_shape_being_removed(e.shape))]

AbsorbIndexCell(st, id, edges) ==
  Absorbed(st, id, edges,
    TakeUpCell(st.map[id], id,
               SaveAndClearStateBefore(FollowRemoved(st.t, id, edges), additions_begin)))

\* UpdateEdges: an index cell that holds id is absorbed; then id becomes a cell,
\* or its children do.
RECURSIVE UpdateEdges(_, _, _, _)
UpdateEdges(st, id, edges, disjoint_from_index) ==
  LET found == IF disjoint_from_index THEN "DISJOINT" ELSE Locate(DOMAIN st.map, id).relation
      InCell(a, disjoint) ==
        IF disjoint /\ ~TooManyShortEdges(id, a.edges, a.t)
        THEN MakeIndexCell([map |-> a.map, t |-> a.t], id, a.edges)
        ELSE FoldLeft(LAMBDA s, k :
                        LET below == EdgesIn(a.edges, child(id, k)) IN
                        IF below = <<>> /\ s.t.ids = {} THEN s
                        ELSE UpdateEdges(s, child(id, k), below, disjoint),
                      [map |-> a.map, t |-> a.t], <<0, 1, 2, 3>>)
  IN  CASE found = "INDEXED" ->
             [InCell(AbsorbIndexCell(st, id, edges), TRUE)
                EXCEPT !.t = RestoreStateBefore(@, additions_begin)]
        [] found # "INDEXED" ->
             InCell([map |-> st.map, t |-> st.t, edges |-> edges], found # "SUBDIVIDED")

\* Mutant of SkipCellRange: the range is taken to be empty.
SkipCellRangeNothing(st, begin, end) == st

\* SkipCellRange: cells that hold no edge may still be inside shapes.
SkipCellRange(st, begin, end) ==
  IF st.t.ids = {} THEN st
  ELSE FoldLeft(LAMBDA s, id : UpdateEdges(s, id, <<>>, FALSE), st, FromBeginEnd(begin, end))

\* The smallest cell that all edges fit into, but none inside an index cell.
Fitting(face, touched) ==
  LET fits == { id \in CellIds : touched \subseteq Leaves(id) /\ contains(face, id) } IN
  CHOOSE id \in fits : \A other \in fits : level(other) <= level(id)

NotInside(found, smallest, face) ==
  IF smallest # face /\ found.relation = "INDEXED" THEN found.at ELSE smallest

ShrunkFrom(map, face, smallest) == NotInside(Locate(DOMAIN map, smallest), smallest, face)

ShrinkToFit(map, face, edges) ==
  ShrunkFrom(map, face,
    Fitting(face, UNION { edges[i].leaves : i \in DOMAIN edges } \cap Leaves(face)))

UpdateShrunk(st, face, shrunk, edges) ==
  SkipCellRange(
    UpdateEdges(SkipCellRange(st, range_min(face), range_min(shrunk)), shrunk, edges, FALSE),
    range_max(shrunk) + 2, range_max(face) + 2)

UpdateFace(st, face, edges) ==
  IF edges # <<>> THEN UpdateShrunk(st, face, ShrinkToFit(st.map, face, edges), edges)
  ELSE IF st.t.ids # {} THEN UpdateEdges(st, face, edges, FALSE)
  ELSE st

UpdateFaceEdges(st, face, all) == UpdateFace(st, face, EdgesIn(all, face))

\* FinishPartialShape: all edges of the shape are in the cells, which get
\* their contains_center flags along the curve; cells inside it are added.
WholeCell(s) == s :> [edges |-> {}, contains_center |-> TRUE]

FillTo(a, s, end) ==
  IF a.t.ids = {} THEN a
  ELSE [a EXCEPT !.map = [id \in Range(FromBeginEnd(a.begin, end)) |-> WholeCell(s)] @@ @]

FinishEdges(b, s, id, edges) ==
  LET at_center == TrackedToCenter(b.t, id, edges) IN
  [map |-> [b.map EXCEPT ![id][s].contains_center = at_center.ids # {}],
   t |-> TrackedToExit(at_center, id, edges), begin |-> range_max(id) + 2]

FinishCell(b, s, id) ==
  IF s = Max(DOMAIN b.map[id])
  THEN FinishEdges(b, s, id,
         SelectSeq(FaceEdges(s, shapes[s], 0, Len(shapes[s].edges), TRUE),
                   LAMBDA e : e.id \in b.map[id][s].edges))
  ELSE IF b.t.ids # {}
  THEN [b EXCEPT !.map[id] = @ @@ WholeCell(s), !.begin = range_max(id) + 2]
  ELSE [b EXCEPT !.begin = range_max(id) + 2]

FinishPartialShape(map, s) ==
  FillTo(FoldLeft(LAMBDA a, id : FinishCell(FillTo(a, s, range_min(id)), s, id),
                  [map |-> map, begin |-> range_min(FromFace(0)),
                   t |-> TrackShape(NewTracker, s, ContainsBruteForce(shapes[s], 0))],
                  InOrder(DOMAIN map)),
         s, LeafEnd).map

-----------------------------------------------------------------------------
(* The state machine.                                                      *)

Init ==
  /\ shapes = <<>> /\ cell_map = <<>> /\ additions_begin = 1
  /\ removals = <<>> /\ at = <<1, 0>>

Updating == at # <<additions_begin, 0>>
Stale == removals # <<>> \/ additions_begin <= Len(shapes)

Add ==
  /\ ~Updating /\ Len(shapes) < MaxShapes
  /\ \E shape \in ShapeTypes : shapes' = Append(shapes, shape)
  /\ UNCHANGED <<cell_map, additions_begin, removals, at>>

\* Release: a shape that is in the cells is queued with a copy of its edges.
Release ==
  /\ ~Updating
  /\ \E s \in DOMAIN shapes :
       /\ shapes[s] # Null
       /\ shapes' = [shapes EXCEPT ![s] = Null]
       /\ removals' = IF s >= additions_begin THEN removals
                      ELSE Append(removals, [id |-> s, shape |-> shapes[s]])
  /\ UNCHANGED <<cell_map, additions_begin, at>>

\* One batch of ApplyUpdatesInternal, that ends before edge end[2] of shape
\* end[1].  BatchGenerator chooses the ends; here it may be any that leaves a
\* shape cut in two, or the end.  (A batch that ends between two shapes is the
\* same as an update before the later shapes are added.)
BatchEdges(end) ==
  LET Begin(s) == IF s = at[1] THEN at[2] ELSE 0
      End(s) == IF s = end[1] THEN end[2] ELSE Len(shapes[s].edges) IN
  FoldLeft(LAMBDA a, s : IF shapes[s] = Null THEN a ELSE AddShape(a, s, Begin(s), End(s)),
           FoldLeft(RemoveShape, [t |-> NewTracker, edges |-> <<>>], removals),
           InOrder({ s \in at[1] .. end[1] : s < end[1] \/ end[2] > 0 }))

UpdateFaces(new) ==
  FoldLeft(LAMBDA a, f : UpdateFaceEdges(a, FromFace(f - 1), new.edges),
           [map |-> cell_map, t |-> new.t], [f \in 1 .. NumFaces |-> f])

Finished(end, done) ==
  IF at[2] > 0 /\ end[2] = 0 /\ done.t.partial # 0
  THEN FinishPartialShape(done.map, done.t.partial) ELSE done.map

Apply(end) ==
  /\ cell_map' = Finished(end, UpdateFaces(BatchEdges(end)))
  /\ removals' = <<>>
  /\ additions_begin' = end[1]
  /\ at' = end
  /\ UNCHANGED shapes

\* The ends a batch may have.
Ends ==
  IF at[2] > 0
  THEN { <<at[1] + 1, 0>> } \cup { <<at[1], e>> : e \in at[2] + 1 .. Len(shapes[at[1]].edges) - 1 }
  ELSE { <<Len(shapes) + 1, 0>> }
         \cup UNION { { <<s, e>> : e \in 1 .. Len(shapes[s].edges) - 1 } : s \in at[1] .. Len(shapes) }

ApplyBatch == Stale /\ \E end \in Ends : Apply(end)

Next == Add \/ Release \/ ApplyBatch

Spec == Init /\ [][Next]_vars
-----------------------------------------------------------------------------
(* Properties, of an index without pending updates.                        *)

Live == { s \in DOMAIN shapes : shapes[s] # Null }
EdgesTouching(s, id) ==
  { i \in DOMAIN shapes[s].edges : shapes[s].edges[i].leaves \cap Leaves(id) # {} }

\* Whatever was added, released and cut into batches before, each cell holds
\* exactly the edges that reach it, and says of every shape whether it
\* contains the centre of the cell as counting crossings from the shape's
\* reference point says it.  Shapes without part in a cell are not in it.
CellsExact ==
  ~Stale /\ ~Updating =>
    \A id \in DOMAIN cell_map :
      /\ \A s \in Live :
           LET es == EdgesTouching(s, id)
               inside == ContainsBruteForce(shapes[s], id)
           IN  IF es = {} /\ ~inside THEN s \notin DOMAIN cell_map[id]
               ELSE /\ s \in DOMAIN cell_map[id]
                    /\ cell_map[id][s] = [edges |-> es, contains_center |-> inside]
      /\ DOMAIN cell_map[id] \subseteq Live
      /\ DOMAIN cell_map[id] # {}

\* The cells do not overlap, and reach every leaf cell that an edge touches or
\* that lies inside a shape: a query that finds no cell may answer "outside".
CellsCover ==
  ~Stale /\ ~Updating =>
    /\ \A a, b \in DOMAIN cell_map : a # b => ~intersects(a, b)
    /\ \A s \in Live : \A leaf \in LeafIds :
         EdgesTouching(s, leaf) # {} \/ ContainsBruteForce(shapes[s], leaf) =>
           \E id \in DOMAIN cell_map : contains(id, leaf)

\* Whatever was added, released and cut into batches before, the cells of the
\* index have the contents that an index built afresh from the live shapes
\* would have, and none is missing (ApplyUpdatesInternal).
IndexCellsExact ==
  /\ CellsExact
  /\ CellsCover
=============================================================================
