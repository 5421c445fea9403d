--------------------------- MODULE S2BooleanOperation ---------------------------
(***************************************************************************)
(* Union, intersection and difference of two regions of points, polylines  *)
(* and polygons: src/s2/s2boolean_operation.cc.                            *)
(*                                                                         *)
(* A region is a sequence of shapes, a shape [dimension, chains] with a    *)
(* chain the sequence of its vertices.  The edges of the regions meet only *)
(* at vertices, so that no edge is cut: interior crossings and the part of *)
(* GraphEdgeClipper that finds out where edges were cut are left out.      *)
(*                                                                         *)
(* cp is the CrossingProcessor: what it has added to the builder is in     *)
(* out, with the state the clipper is told to have there, and stopped says *)
(* that a predicate returned early.                                        *)
(***************************************************************************)
EXTENDS S2Predicates

CONSTANTS Regions, Inputs,      \* regions, and the pairs of them to combine
          Models,               \* records of the models that are chosen from
          Probes                \* points off the edges, in every part of the sphere

VARIABLES region_a, region_b, op_type, opt, result, result_empty

op_vars == <<region_a, region_b, op_type, opt, result, result_empty>>

OpTypes == {"UNION", "INTERSECTION", "DIFFERENCE", "SYMMETRIC_DIFFERENCE"}

-----------------------------------------------------------------------------
(* The edges of a region, in the order of their ids.                       *)

ChainEdges(dimension, chain) ==
  CASE dimension = 0 -> [i \in 1 .. Len(chain) |-> << chain[i], chain[i] >>]
    [] dimension = 1 -> [i \in 1 .. (Len(chain) - 1) |-> << chain[i], chain[i + 1] >>]
    [] dimension = 2 -> EdgesOf(chain)

\* id is the ShapeEdgeId; start and limit are positions in the table, and loop
\* the last vertex of the chain.
EdgeTable(region) ==
  LET AddChain(s, chain, table) ==
        LET edges == ChainEdges(region[s].dimension, chain)
            n == Len(table)
            first == Cardinality({ i \in DOMAIN table : table[i].id[1] = s })
        IN  table \o [i \in DOMAIN edges |->
              [id |-> << s, first + i - 1 >>, dimension |-> region[s].dimension,
               v0 |-> edges[i][1], v1 |-> edges[i][2], start |-> n + 1,
               limit |-> n + 1 + Len(edges), chain_v0 |-> edges[1][1],
               chain_v1 |-> Last(edges)[2]]]
      AddShape(table, s) ==
        FoldLeft(LAMBDA t, chain : AddChain(s, chain, t), table, region[s].chains)
  IN  FoldLeft(AddShape, << >>, [s \in DOMAIN region |-> s])

Tables == [r \in Regions |-> EdgeTable(r)]
Table(r) == Tables[r]

HasInterior(r) == \E s \in DOMAIN r : r[s].dimension = 2

VerticesOf(r) == UNION { {e.v0, e.v1} : e \in ToSet(Table(r)) }
Vertices == UNION { VerticesOf(r) : r \in Regions }

\* S2ContainsPointQuery, with semi-open polygons.
ContainsTable ==
  [r \in Regions |-> [v \in Vertices |->
     \E s \in DOMAIN r : r[s].dimension = 2 /\ ContainsBruteForce(r[s].chains, v)]]
PolygonContains(r, v) == ContainsTable[r][v]

\* GetIndexCrossings: the edges of y that meet an edge of x, in their order.
\* Flags are found for region 0 and inverted when the regions are swapped.
VertexFlag(e, f, swapped) ==
  IF swapped THEN ~VertexCrossing(f.v0, f.v1, e.v0, e.v1)
  ELSE VertexCrossing(e.v0, e.v1, f.v0, f.v1)
CrossingsAt(e, y, swapped) ==
  LET met == SelectSeq([j \in DOMAIN y |-> j], LAMBDA j : {e.v0, e.v1} \cap {y[j].v0, y[j].v1} # {})
  IN  [k \in DOMAIN met |-> [edge |-> y[met[k]], at |-> met[k],
                             vertex_crossing |-> VertexFlag(e, y[met[k]], swapped)]]
CrossingsOf(x, y, swapped) == [i \in DOMAIN x |-> CrossingsAt(x[i], y, swapped)]

CrossingTables ==
  [p \in Inputs |-> << CrossingsOf(Table(p[1]), Table(p[2]), FALSE),
                      CrossingsOf(Table(p[2]), Table(p[1]), TRUE) >>]

AreRegionsIdentical(x, y) == x = y

-----------------------------------------------------------------------------
(* What an edge of A meets in B.                                           *)

\* b_chain_info of CrossingIterator: found when it is first asked for in a
\* shape, and kept as long as the iterator is in that shape.
ChainInfo(it, f) ==
  IF it.shape = f.id[1] /\ it.info # << >> THEN it.info[1]
  ELSE [start |-> f.start, limit |-> f.limit, chain_v1 |-> f.chain_v1]

Ask(it, f) == [shape |-> f.id[1], info |-> << ChainInfo(it, f) >>]

\* Mutant: a polyline contains its last vertex, whatever the model.
PolylineEdgeContainsVertexLast(v, c, info, dimension) ==
  LET f == c.edge IN
  \/ opt.polyline_model # "OPEN" \/ c.at > info.start
  \/ v # f.v0
  \/ ~opt.loops_have_boundaries /\ v = info.chain_v1

\* PolylineEdgeContainsVertex; v is a vertex of the polyline edge c.edge.
PolylineEdgeContainsVertex(v, c, info, dimension) ==
  LET f == c.edge IN
  \/ opt.polyline_model = "CLOSED"
  \/ /\ ~( /\ c.at = info.limit - 1 /\ v = f.v1
           /\ dimension = 0 \/ f.id[2] > 0 \/ v # f.v0 )
     /\ \/ opt.polyline_model # "OPEN" \/ c.at > info.start
        \/ v # f.v0
        \/ ~opt.loops_have_boundaries /\ v = info.chain_v1

NoMatch == << >>
NoCrossings ==
  [matches_polyline |-> FALSE, a0_matches_polyline |-> FALSE, a1_matches_polyline |-> FALSE,
   a0_matches_polygon |-> FALSE, a1_matches_polygon |-> FALSE, polygon_match |-> NoMatch,
   sibling_match |-> NoMatch, a0_loop_match |-> NoMatch, a0_crossings |-> 0, a1_crossings |-> 0]

Ends(f) == {f.v0, f.v1}

\* The iterator after the polyline edges it has asked the chain of.
MovedTo(it, c, asked) ==
  IF opt.polyline_model # "CLOSED" /\ asked THEN Ask(it, c.edge)
  ELSE IF it.shape = c.edge.id[1] THEN it ELSE [shape |-> c.edge.id[1], info |-> << >>]

\* ProcessPointCrossings
ProcessPointCrossings(e, crossings, it0) ==
  LET Step(s, c) ==
        LET it == MovedTo(s.it, c, c.edge.dimension = 1) IN
        CASE c.edge.dimension = 0 -> [s EXCEPT !.matches_point = TRUE, !.it = it]
          [] c.edge.dimension = 1 ->
               [s EXCEPT !.it = it, !.matches_polyline =
                  @ \/ PolylineEdgeContainsVertex(e.v0, c, ChainInfo(it, c.edge), 0)]
          [] c.edge.dimension = 2 -> [s EXCEPT !.matches_polygon = TRUE, !.it = it]
  IN  FoldLeft(Step, [matches_point |-> FALSE, matches_polyline |-> FALSE,
                      matches_polygon |-> FALSE, it |-> it0], crossings)

\* A polyline edge that a polyline edge of A meets.
PolylineCrossing(e, r, c, info) ==
  [r EXCEPT
     !.matches_polyline = @ \/ << e.v0, e.v1 >> \in { << c.edge.v0, c.edge.v1 >>,
                                                      << c.edge.v1, c.edge.v0 >> },
     !.a0_matches_polyline =
       @ \/ (e.v0 \in Ends(c.edge) /\ PolylineEdgeContainsVertex(e.v0, c, info, 1)),
     !.a1_matches_polyline =
       @ \/ (e.v1 \in Ends(c.edge) /\ PolylineEdgeContainsVertex(e.v1, c, info, 1))]

\* A polygon edge f that an edge of A meets.
PolygonCrossing(e, r, f, degenerate, same, sibling, vertex_crossing) ==
  LET crosses == ~degenerate /\ ~same /\ ~sibling /\ vertex_crossing IN
  [r EXCEPT
     !.a0_loop_match = IF degenerate /\ Ends(f) = {e.v0} THEN f.id ELSE @,
     !.polygon_match = IF same THEN f.id ELSE @,
     !.sibling_match = IF sibling THEN f.id ELSE @,
     !.a0_crossings =
       IF same \/ sibling \/ (crosses /\ e.v0 \in Ends(f)) THEN @ + 1 ELSE @,
     !.a1_crossings = IF crosses /\ e.v0 \notin Ends(f) THEN @ + 1 ELSE @,
     !.a0_matches_polygon = @ \/ e.v0 \in Ends(f),
     !.a1_matches_polygon = @ \/ e.v1 \in Ends(f)]

EdgeCrossing(e, r, c, it) ==
  CASE c.edge.dimension = 1 /\ e.dimension = 1 -> PolylineCrossing(e, r, c, ChainInfo(it, c.edge))
    [] c.edge.dimension = 2 ->
         LET f == c.edge
             degenerate == e.v0 = e.v1 \/ f.v0 = f.v1
         IN  PolygonCrossing(e, r, f, degenerate, ~degenerate /\ e.v0 = f.v0 /\ e.v1 = f.v1,
                             ~degenerate /\ e.v0 = f.v1 /\ e.v1 = f.v0, c.vertex_crossing)
    [] OTHER -> r

\* ProcessEdgeCrossings
ProcessEdgeCrossings(e, crossings, it0) ==
  LET Step(s, c) ==
        LET it == MovedTo(s.it, c, c.edge.dimension = 1 /\ e.dimension = 1) IN
        [it |-> it, r |-> EdgeCrossing(e, s.r, c, it)]
  IN  FoldLeft(Step, [r |-> NoCrossings, it |-> it0], crossings)

-----------------------------------------------------------------------------
(* The CrossingProcessor.                                                  *)

xor(p, q) == p # q
IsOdd(n) == n % 2 = 1

NoIterator == [shape |-> 0, info |-> << >>]

NewProcessor(boolean) ==
  [boolean |-> boolean, stopped |-> FALSE, out |-> << >>, clip |-> FALSE,
   region |-> 0, invert_a |-> FALSE, invert_b |-> FALSE, invert_result |-> FALSE,
   is_union |-> FALSE, chain |-> 0, inside |-> FALSE, prev_inside |-> FALSE,
   v0_emitted_max |-> 0, chain_v0_emitted |-> FALSE, hole |-> [id \in {} |-> FALSE],
   it |-> NoIterator]

StartBoundary(cp, region, invert_a, invert_b, invert_result) ==
  [cp EXCEPT !.region = region, !.invert_a = invert_a, !.invert_b = invert_b,
             !.invert_result = invert_result, !.is_union = invert_b /\ invert_result,
             !.chain = 0, !.it = NoIterator]

StartChain(cp, e, inside) ==
  [cp EXCEPT !.chain = e.start, !.inside = inside, !.v0_emitted_max = e.start - 1,
             !.chain_v0_emitted = FALSE]

\* An edge goes to the builder, with the state of the clipper at that edge.
Emit(cp, v0, v1, dimension, clip) ==
  [cp EXCEPT !.out = Append(@, [edge |-> << v0, v1 >>, dimension |-> dimension, inside |-> clip,
                                reverse |-> xor(cp.invert_a, cp.invert_result)]),
             !.clip = clip]

\* AddEdge: the clipper is told when its state differs from ours.
AddEdge(cp, v0, v1, dimension) ==
  IF cp.stopped \/ cp.boolean THEN [cp EXCEPT !.stopped = TRUE]
  ELSE [Emit(cp, v0, v1, dimension, IF xor(cp.inside, cp.prev_inside) THEN cp.inside ELSE cp.clip)
          EXCEPT !.prev_inside = cp.inside]

AddPointEdge(cp, p, dimension) ==
  IF cp.stopped \/ cp.boolean THEN [cp EXCEPT !.stopped = TRUE]
  ELSE [Emit(cp, p, p, dimension, IF cp.prev_inside THEN cp.clip ELSE TRUE)
          EXCEPT !.prev_inside = TRUE]

SkipCrossings(cp, crossings) ==
  [cp EXCEPT !.it = FoldLeft(LAMBDA it, c : MovedTo(it, c, FALSE), @, crossings)]

\* A point
ProcessEdge0(cp, e, crossings) ==
  LET r == ProcessPointCrossings(e, crossings, cp.it)
      in_polygon == IF r.matches_polygon /\ opt.polygon_model # "SEMI_OPEN"
                    THEN opt.polygon_model = "CLOSED" ELSE xor(cp.inside, cp.invert_b)
      contained == in_polygon \/ r.matches_polyline \/ (r.matches_point /\ ~cp.is_union)
      moved == [cp EXCEPT !.it = r.it]
  IN  IF cp.invert_a # cp.invert_result THEN SkipCrossings(cp, crossings)
      ELSE IF contained = cp.invert_b THEN moved ELSE AddPointEdge(moved, e.v0, 0)

IsPolylineVertexInside(cp, matches_polyline, matches_polygon) ==
  xor(cp.invert_b,
      IF matches_polyline /\ ~cp.is_union THEN TRUE
      ELSE IF matches_polygon /\ opt.polygon_model # "SEMI_OPEN"
      THEN opt.polygon_model = "CLOSED"
      ELSE xor(cp.inside, cp.invert_b))

IsPolylineEdgeInside(cp, inside, r, is_degenerate) ==
  LET contained == xor(inside, cp.invert_b) IN
  xor(cp.invert_b,
      IF r.matches_polyline /\ ~cp.is_union THEN TRUE
      ELSE IF is_degenerate
      THEN \/ r.a0_matches_polyline /\ ~cp.is_union
           \/ IF r.a0_matches_polygon /\ opt.polygon_model # "SEMI_OPEN"
              THEN opt.polygon_model = "CLOSED" ELSE contained
      ELSE IF r.polygon_match # NoMatch
      THEN IF opt.polygon_model = "SEMI_OPEN" /\ r.sibling_match # NoMatch
           THEN contained ELSE opt.polygon_model # "OPEN"
      ELSE IF r.sibling_match # NoMatch THEN opt.polygon_model = "CLOSED"
      ELSE contained)

\* The edge, or its first vertex where that is all that is inside.
AddPolylineEdge(cp, e, i, isolated, inside) ==
  LET first == IF isolated THEN AddPointEdge(cp, e.v0, 1) ELSE cp IN
  IF inside THEN [AddEdge(first, e.v0, e.v1, 1) EXCEPT !.v0_emitted_max = i + 1] ELSE first

\* The last vertex of the chain, where the chain has not added it.
AddLastVertex(cp, e, i, r, complete) ==
  IF /\ complete /\ e.v0 # e.v1 /\ i = e.limit - 1
     /\ ~cp.chain_v0_emitted /\ cp.v0_emitted_max <= i
     /\ \/ opt.polyline_model = "CLOSED"
        \/ ~opt.loops_have_boundaries /\ e.v1 = e.chain_v0
     /\ IsPolylineVertexInside(cp, r.a1_matches_polyline, r.a1_matches_polygon)
  THEN AddPointEdge(cp, e.v1, 1) ELSE cp

\* The edge is inside or not; semi_open: what is just after its first vertex.
ClipPolylineEdge(cp, e, i, r, semi_open, inside, complete) ==
  LET loop_start == ~opt.loops_have_boundaries /\ i = e.start /\ e.v0 = e.chain_v1
      isolated == /\ ~loop_start /\ ~inside /\ cp.v0_emitted_max < i /\ e.v0 # e.v1
                  /\ opt.polyline_model # "OPEN" \/ i > e.start
                  /\ IsPolylineVertexInside(cp, r.a0_matches_polyline, r.a0_matches_polygon)
      at0 == [cp EXCEPT !.inside = inside,
                        !.chain_v0_emitted = IF loop_start THEN inside ELSE @]
      a1_crossings == r.a1_crossings + IF inside = semi_open THEN 0 ELSE 1
  IN  AddLastVertex([AddPolylineEdge(at0, e, i, isolated, inside)
                       EXCEPT !.inside = xor(inside, IsOdd(a1_crossings))], e, i, r, complete)

ProcessPolylineEdge(cp, e, i, s, complete) ==
  LET semi_open == xor(cp.inside, IsOdd(s.r.a0_crossings)) IN
  ClipPolylineEdge([cp EXCEPT !.it = s.it], e, i, s.r, semi_open,
                   IsPolylineEdgeInside(cp, semi_open, s.r, e.v0 = e.v1), complete)

\* A polyline edge, which is at position i of the table.
ProcessEdge1(cp, e, i, crossings, complete) ==
  IF cp.invert_a # cp.invert_result THEN SkipCrossings(cp, crossings)
  ELSE ProcessPolylineEdge(cp, e, i, ProcessEdgeCrossings(e, crossings, cp.it), complete)

\* Mutant: a degeneracy that is inside is not noted.
SetHoleShells(cp, id, value) == [cp EXCEPT !.hole = (id :> FALSE) @@ @]

\* operator[] of is_degenerate_hole_, which adds what it does not find.
Hole(cp, id) == id \in DOMAIN cp.hole /\ cp.hole[id]
SetHole(cp, id, value) == [cp EXCEPT !.hole = (id :> value) @@ @]
LookedUp(cp, id) == IF id \in DOMAIN cp.hole THEN cp ELSE SetHole(cp, id, FALSE)

\* What becomes of degenerate pairs, by the polygon model and the inversions.
CreateDegen(cp) == \/ opt.polygon_model = "CLOSED" /\ ~cp.invert_a /\ ~cp.invert_b
                   \/ opt.polygon_model = "OPEN" /\ cp.invert_a /\ cp.invert_b
KeepDegenA(cp) == opt.polygon_model = "OPEN" /\ cp.invert_b
KeepDegenB(cp) == opt.polygon_model = "OPEN" /\ cp.invert_a

\* Whether a degenerate loop is inside, and whether an edge is: same and
\* sibling are the edges of B that match it, after inversion.
PointLoopInside(cp, r, semi_open) ==
  IF r.a0_loop_match # NoMatch
  THEN CreateDegen(cp) \/ KeepDegenA(cp) \/ semi_open = Hole(cp, r.a0_loop_match)
  ELSE IF r.a0_matches_polygon /\ opt.polygon_model # "SEMI_OPEN"
  THEN CreateDegen(cp) \/ KeepDegenA(cp)
  ELSE semi_open

PolygonEdgeInside(cp, e, semi_open, same, sibling) ==
  IF same # NoMatch
  THEN IF e.id \in DOMAIN cp.hole
       THEN \/ CreateDegen(cp) \/ KeepDegenA(cp)
            \/ (sibling = NoMatch \/ semi_open) = Hole(cp, e.id)
       ELSE semi_open \/ sibling = NoMatch \/ CreateDegen(cp) \/ KeepDegenB(cp)
  ELSE IF sibling # NoMatch
  THEN IF e.id \in DOMAIN cp.hole
       THEN (CreateDegen(cp) \/ KeepDegenA(cp)) /\ ~Hole(cp, e.id)
       ELSE CreateDegen(cp)
  ELSE semi_open

AddPolygonEdge(cp, e, isolated, with_sibling) ==
  LET first == IF isolated THEN AddPointEdge(cp, e.v0, 2) ELSE cp
      other == IF with_sibling THEN AddEdge(first, e.v1, e.v0, 2) ELSE first
  IN  IF cp.inside THEN AddEdge(other, e.v0, e.v1, 2) ELSE other

ClipPolygonEdge(cp, e, r, semi_open, inside, same, sibling, degenerate) ==
  LET isolated == /\ cp.region = 1 /\ r.a0_matches_polygon /\ ~inside
                  /\ CreateDegen(cp) \/ (KeepDegenB(cp) /\ r.a0_loop_match # NoMatch)
      with_sibling == /\ sibling # NoMatch
                      /\ CreateDegen(cp) \/ KeepDegenB(cp)
                      /\ ~degenerate /\ ~(same # NoMatch /\ semi_open)
      a1_crossings == r.a1_crossings + IF inside = semi_open THEN 0 ELSE 1
  IN  [AddPolygonEdge([cp EXCEPT !.inside = inside], e, isolated, with_sibling)
         EXCEPT !.inside = xor(inside, IsOdd(a1_crossings))]

\* The first pass leaves the edges that B has too to the second.
ProcessPolygonEdge(cp, e, r, semi_open, same, sibling) ==
  LET is_point == e.v0 = e.v1
      both_loops == r.a0_loop_match # NoMatch
      paired == IF same # NoMatch /\ sibling # NoMatch
                THEN SetHole(SetHole(cp, same, semi_open), sibling, semi_open) ELSE cp
      at0 == IF is_point /\ both_loops /\ ~CreateDegen(cp) /\ ~KeepDegenA(cp)
             THEN LookedUp(cp, r.a0_loop_match) ELSE cp
  IN  IF cp.region = 0 /\ is_point
         /\ (both_loops \/ (r.a0_matches_polygon /\ opt.polygon_model # "SEMI_OPEN")) THEN cp
      ELSE IF cp.region = 0 /\ (same # NoMatch \/ sibling # NoMatch)
      THEN [paired EXCEPT !.inside = xor(semi_open, IsOdd(r.a1_crossings))]
      ELSE ClipPolygonEdge(at0, e, r, semi_open,
                           IF is_point THEN PointLoopInside(at0, r, semi_open)
                           ELSE PolygonEdgeInside(cp, e, semi_open, same, sibling),
                           same, sibling, e.id \in DOMAIN cp.hole)

NotedLoop(cp, r) ==
  IF cp.region = 0 /\ r.a0_loop_match # NoMatch THEN SetHole(cp, r.a0_loop_match, cp.inside) ELSE cp

ProcessCrossedEdge(cp, e, s) ==
  LET reversed == cp.invert_a # cp.invert_b IN
  ProcessPolygonEdge(NotedLoop([cp EXCEPT !.it = s.it], s.r), e, s.r,
                     xor(cp.inside, IsOdd(s.r.a0_crossings)),
                     IF reversed THEN s.r.sibling_match ELSE s.r.polygon_match,
                     IF reversed THEN s.r.polygon_match ELSE s.r.sibling_match)

\* A polygon edge.
ProcessEdge2(cp, e, crossings) ==
  ProcessCrossedEdge(cp, e, ProcessEdgeCrossings(e, crossings, cp.it))

ProcessEdge(cp, e, i, crossings, complete) ==
  CASE e.dimension = 0 -> ProcessEdge0(cp, e, crossings)
    [] e.dimension = 1 -> ProcessEdge1(cp, e, i, crossings, complete)
    [] e.dimension = 2 -> ProcessEdge2(cp, e, crossings)

-----------------------------------------------------------------------------
(* The operation.                                                          *)

\* An inverted region has no points or polylines.
Ignored(e, invert_a, invert_result) == invert_a # invert_result /\ e.dimension < 2

\* The first edges of the chains of a table.
FirstEdges(table, invert_a, invert_result) ==
  SelectSeq([i \in DOMAIN table |-> i],
            LAMBDA i : i = table[i].start /\ ~Ignored(table[i], invert_a, invert_result))

\* GetChainStarts: the chains whose first vertex is in B.
GetChainStarts(x, y, invert_a, invert_b, invert_result) ==
  { i \in ToSet(FirstEdges(Table(x), invert_a, invert_result)) :
      (HasInterior(y) /\ PolygonContains(y, Table(x)[i].v0)) # invert_b }

\* A predicate tries the first edges of the chains, with the edges of B that
\* meet the first vertex.
TryChainStart(cp, e, i, incident, inside) ==
  LET chain == StartChain([cp EXCEPT !.it = NoIterator], e, inside) IN
  IF cp.stopped THEN cp
  ELSE IF incident = << >> THEN [chain EXCEPT !.stopped = inside]
  ELSE ProcessEdge(chain, e, i, incident, FALSE)

TryChainStarts(cp0, x, crossings, starts, region, invert_a, invert_b, invert_result) ==
  IF ~cp0.boolean THEN cp0
  ELSE FoldLeft(LAMBDA cp, i :
                  TryChainStart(cp, Table(x)[i], i,
                                SelectSeq(crossings[i], LAMBDA c : Table(x)[i].v0 \in Ends(c.edge)),
                                i \in starts),
                StartBoundary(cp0, region, invert_a, invert_b, invert_result),
                FirstEdges(Table(x), invert_a, invert_result))

\* Mutant: the state at the end of a chain is taken into the next one.
VisitEdgeInChain(cp, e, i, crossings, starts) ==
  IF cp.stopped \/ ~(cp.inside \/ i \in starts \/ crossings # << >>) THEN cp
  ELSE ProcessEdge(IF cp.chain = e.start THEN cp
                   ELSE StartChain(cp, e, i \in starts \/ cp.inside), e, i, crossings, TRUE)

\* An edge is processed if the point we are at is inside, or B meets the edge;
\* a chain is started at the first of its edges that is processed.
VisitEdge(cp, e, i, crossings, starts) ==
  IF \/ cp.stopped
     \/ ~((cp.chain = e.start /\ cp.inside) \/ i \in starts \/ crossings # << >>) THEN cp
  ELSE ProcessEdge(IF cp.chain = e.start THEN cp ELSE StartChain(cp, e, i \in starts),
                   e, i, crossings, TRUE)

\* AddBoundary: clips the boundary of x to y.
AddBoundary(cp0, x, crossings, starts, region, invert_a, invert_b, invert_result) ==
  FoldLeft(LAMBDA cp, i : VisitEdge(cp, Table(x)[i], i, crossings[i], starts),
           StartBoundary(cp0, region, invert_a, invert_b, invert_result),
           [i \in DOMAIN Table(x) |-> i])

AddBoundaries(cp, crossings, a_starts, b_starts, invert_a, invert_b, invert_result) ==
  IF cp.stopped THEN cp
  ELSE AddBoundary(AddBoundary(cp, region_a, crossings[1], a_starts, 0,
                               invert_a, invert_b, invert_result),
                   region_b, crossings[2], b_starts, 1, invert_b, invert_a, invert_result)

ClipBoundaries(cp, crossings, a_starts, b_starts, invert_a, invert_b, invert_result) ==
  AddBoundaries(TryChainStarts(TryChainStarts(cp, region_a, crossings[1], a_starts, 0,
                                              invert_a, invert_b, invert_result),
                               region_b, crossings[2], b_starts, 1,
                               invert_b, invert_a, invert_result),
                crossings, a_starts, b_starts, invert_a, invert_b, invert_result)

AddBoundaryPair(cp, invert_a, invert_b, invert_result) ==
  IF op_type \in {"DIFFERENCE", "SYMMETRIC_DIFFERENCE"} /\ AreRegionsIdentical(region_a, region_b)
  THEN cp
  ELSE ClipBoundaries(cp, CrossingTables[<< region_a, region_b >>],
                      GetChainStarts(region_a, region_b, invert_a, invert_b, invert_result),
                      GetChainStarts(region_b, region_a, invert_b, invert_a, invert_result),
                      invert_a, invert_b, invert_result)

\* A symmetric difference is the union of two differences.
SecondDifference(cp) ==
  IF cp.stopped \/ op_type # "SYMMETRIC_DIFFERENCE" THEN cp
  ELSE AddBoundaryPair(cp, TRUE, FALSE, FALSE)

BuildOpType(boolean) ==
  SecondDifference(AddBoundaryPair(NewProcessor(boolean), op_type = "UNION",
                                   op_type # "INTERSECTION", op_type = "UNION"))

\* GraphEdgeClipper::Run, where no edge is cut: an edge outside is dropped,
\* unless it is degenerate.
Clip(added) ==
  LET kept == SelectSeq(added, LAMBDA e : e.inside \/ e.edge[1] = e.edge[2])
  IN  [i \in DOMAIN kept |->
         [dimension |-> kept[i].dimension,
          edge |-> IF kept[i].reverse THEN Sibling(kept[i].edge) ELSE kept[i].edge]]

-----------------------------------------------------------------------------
(* Empty or full                                                           *)

\* The probes in a region: the parts of the sphere it covers.
ProbesIn == [r \in Regions |-> { p \in Probes :
  \E s \in DOMAIN r : r[s].dimension = 2 /\ ContainsBruteForce(r[s].chains, p) }]

Face(p) == << LargestAbsComponent(p), p[LargestAbsComponent(p)] > 0 >>
AllFaces == { Face(p) : p \in Probes }
GetFaceMask(r) == { Face(p) : p \in ProbesIn[r] \cup VerticesOf(r) } \cap AllFaces

LeastOf(m, n) == IF m < n THEN m ELSE n
MostOf(m, n) == IF m > n THEN m ELSE n

\* The area of the result is between lo and hi: closer to the sphere or to nothing.
NearerFull(lo, hi, all) == lo > all - hi
ExtremesFull(lo, hi, all, both) == IF lo = all - hi THEN ~both ELSE NearerFull(lo, hi, all)

\* Empty or full, by the areas A and B, that of the sphere and the face masks.
IsFullByArea(A, B, all, a_mask, b_mask) ==
  CASE op_type = "UNION" ->
         a_mask \cup b_mask = AllFaces /\ NearerFull(MostOf(A, B), LeastOf(all, A + B), all)
    [] op_type = "INTERSECTION" ->
         a_mask \cap b_mask = AllFaces /\ NearerFull(MostOf(0, A + B - all), LeastOf(A, B), all)
    [] op_type = "DIFFERENCE" ->
         a_mask = AllFaces /\ NearerFull(MostOf(0, A - B), LeastOf(A, all - B), all)
    [] op_type = "SYMMETRIC_DIFFERENCE" ->
         /\ a_mask \cup b_mask = AllFaces
         /\ ExtremesFull(AbsOf(A - B), all - AbsOf(all - (A + B)), all,
                         a_mask \cap b_mask = AllFaces)

\* IsFullPolygonResult, with the number of probes as area.
IsFullPolygonResult ==
  IsFullByArea(Cardinality(ProbesIn[region_a]), Cardinality(ProbesIn[region_b]),
               Cardinality(Probes), GetFaceMask(region_a), GetFaceMask(region_b))

-----------------------------------------------------------------------------

OpInit ==
  /\ \E p \in Inputs : region_a = p[1] /\ region_b = p[2]
  /\ op_type = "none" /\ opt \in Models /\ result = << >> /\ result_empty = "unknown"

\* Build, with layers for the result, and as a predicate.
Build ==
  /\ op_type = "none"
  /\ op_type' \in OpTypes
  /\ UNCHANGED << region_a, region_b, opt, result, result_empty >>

Evaluate ==
  /\ op_type # "none" /\ result_empty = "unknown"
  /\ result' = Clip(BuildOpType(FALSE).out)
  /\ result_empty' = IF ~BuildOpType(TRUE).stopped /\ ~IsFullPolygonResult THEN "empty" ELSE "not empty"
  /\ UNCHANGED << region_a, region_b, op_type, opt >>

OpNext == Build \/ Evaluate

OpSpec == OpInit /\ [][OpNext]_op_vars

-----------------------------------------------------------------------------
(* What the operations mean: the sphere is cut into the probes, the edges  *)
(* and the vertices, and a region is a set of those for each dimension.    *)

Middle(e) == << e[1][1] + e[2][1], e[1][2] + e[2][2], e[1][3] + e[2][3] >>

ChainsOf(r, dimension) ==
  LET shapes == SelectSeq(r, LAMBDA s : s.dimension = dimension) IN
  FlattenSeq([i \in DOMAIN shapes |-> shapes[i].chains])

LineEdges(r) ==
  LET chains == ChainsOf(r, 1) IN
  UNION { ToSet(ChainEdges(1, chains[k])) : k \in DOMAIN chains }

\* The points that tell the parts apart.
Places ==
  Probes \cup Vertices
  \cup { Middle(e) : e \in UNION { LineEdges(r) \cup ToSet(AllEdgesOf(ChainsOf(r, 2))) :
                                   r \in Regions } }

\* The edges e between vertices that are crossed on the way from r to p.
CrossedEdges ==
  LET vertices == Vertices IN
  { c \in (vertices \cup {Origin}) \X Places \X (vertices \X vertices) :
      c[1] # c[2] /\ EdgeOrVertexCrossing(c[1], c[2], c[3][1], c[3][2]) }

\* Polygons: their edges, and the places that are in them if they are semi-open.
PolygonSetFrom(ref, edges, crossed) ==
  [edges |-> edges,
   places |-> { p \in Places : ref.contained
                  # Odd({ i \in DOMAIN edges : << ref.point, p, edges[i] >> \in crossed }) }]
PolygonSet(edges, full, crossed) == PolygonSetFrom(ReferencePointOf(edges, full), edges, crossed)

PolygonSets ==
  LET crossed == CrossedEdges IN
  [r \in Regions |-> PolygonSet(AllEdgesOf(ChainsOf(r, 2)), << >> \in ToSet(ChainsOf(r, 2)), crossed)]
PolygonsOf(r) == PolygonSets[r]

\* Does a polygon have a vertex, and an edge, under the polygon model?
HasVertex(polygons, v) ==
  IF \E i \in DOMAIN polygons.edges : v \in ToSet(polygons.edges[i])
     /\ opt.polygon_model # "SEMI_OPEN"
  THEN opt.polygon_model = "CLOSED" ELSE v \in polygons.places

HasEdge(polygons, e) ==
  LET same == e \in ToSet(polygons.edges)
      sibling == Sibling(e) \in ToSet(polygons.edges) IN
  IF e[1] = e[2] THEN HasVertex(polygons, e[1])
  ELSE IF (same \/ sibling) /\ opt.polygon_model # "SEMI_OPEN"
  THEN opt.polygon_model = "CLOSED"
  ELSE IF same # sibling THEN same ELSE Middle(e) \in polygons.places

\* Does a polyline have its vertex i, under the polyline model?
HasItsVertex(chain, i) ==
  \/ opt.polyline_model = "CLOSED"
  \/ ~opt.loops_have_boundaries /\ chain[1] = Last(chain)
  \/ i < Len(chain) /\ (i > 1 \/ opt.polyline_model = "SEMI_OPEN")

\* A polyline AA that is not closed has the polyline AA, and not the point A.
PolylineHasVertex(r, v, dimension) ==
  \E k \in DOMAIN ChainsOf(r, 1) : LET chain == ChainsOf(r, 1)[k] IN
    /\ \E i \in DOMAIN chain : chain[i] = v /\ HasItsVertex(chain, i)
    /\ dimension = 0 /\ chain = << v, v >> => opt.polyline_model = "CLOSED"

Combine(p, q) ==
  CASE op_type = "UNION" -> p \/ q
    [] op_type = "INTERSECTION" -> p /\ q
    [] op_type = "DIFFERENCE" -> p /\ ~q
    [] op_type = "SYMMETRIC_DIFFERENCE" -> p # q

\* A point or an edge of a polyline of x stays if it is, or is not, in y;
\* in a union those that are in both stay twice.
Stays(in_polygon, in_lower) ==
  CASE op_type = "UNION" -> ~in_polygon
    [] op_type = "INTERSECTION" -> in_polygon \/ in_lower
    [] OTHER -> ~(in_polygon \/ in_lower)

PointsKept(x, y) ==
  LET points == FlattenSeq(ChainsOf(x, 0))
      InLine(p) == PolylineHasVertex(y, p, 0)
      kept == SelectSeq(points, LAMBDA p :
                Stays(HasVertex(PolygonsOf(y), p) \/ (op_type = "UNION" /\ InLine(p)),
                      InLine(p) \/ p \in ToSet(FlattenSeq(ChainsOf(y, 0)))))
  IN  [i \in DOMAIN kept |-> << kept[i], kept[i] >>]

\* The edges of a polyline that stay, and the vertices between edges that go.
EdgesKept(edges, y, polygons) ==
  SelectSeq([i \in DOMAIN edges |-> i], LAMBDA i :
    Stays(HasEdge(polygons, edges[i]),
          \/ {edges[i], Sibling(edges[i])} \cap LineEdges(y) # {}
          \/ edges[i][1] = edges[i][2] /\ PolylineHasVertex(y, edges[i][1], 1)))

VerticesKept(chain, kept, y, polygons) ==
  LET n == Len(chain)
      loop == ~opt.loops_have_boundaries /\ chain[1] = chain[n]
      At(i) == {i - 1, i} \cup (IF loop /\ i = n THEN {1} ELSE {}) IN
  SelectSeq([i \in DOMAIN chain |-> i], LAMBDA i :
    /\ At(i) \cap ToSet(kept) = {} /\ HasItsVertex(chain, i) /\ ~(loop /\ i = 1)
    /\ n > 2 \/ chain[1] # chain[n]
    /\ Stays(HasVertex(polygons, chain[i]), PolylineHasVertex(y, chain[i], 1)))

ChainPieces(chain, edges, kept, alone) ==
  [k \in DOMAIN kept |-> edges[kept[k]]]
    \o [k \in DOMAIN alone |-> << chain[alone[k]], chain[alone[k]] >>]

ChainKept(chain, y, polygons) ==
  LET edges == ChainEdges(1, chain)
      kept == EdgesKept(edges, y, polygons) IN
  ChainPieces(chain, edges, kept, VerticesKept(chain, kept, y, polygons))

ChainsKept(chains, y, polygons) ==
  FlattenSeq([k \in DOMAIN chains |-> ChainKept(chains[k], y, polygons)])
LinesKept(x, y) == ChainsKept(ChainsOf(x, 1), y, PolygonsOf(y))

OutOf(dimension) ==
  LET found == SelectSeq(result, LAMBDA e : e.dimension = dimension) IN
  [i \in DOMAIN found |-> found[i].edge]

SameEdges(s, t) ==
  \A e \in ToSet(s) \cup ToSet(t) : Times(s, e) = Times(t, e)

\* Are both regions, or only the first, taken into the result?
FromBoth(Kept(_, _)) == Kept(region_a, region_b) \o (IF op_type = "DIFFERENCE" THEN << >> ELSE Kept(region_b, region_a))

Done == result_empty # "unknown"

\* The points and the polylines of the result are, as multisets, those that
\* the models of the boundaries say: what the processor finds while it goes
\* along a chain from crossing to crossing is what each point and edge is in.
PointsAndLinesExact ==
  Done => /\ SameEdges(OutOf(0), FromBoth(PointsKept))
          /\ SameEdges(OutOf(1), FromBoth(LinesKept))

Result == PolygonSet(OutOf(2), IsFullPolygonResult, CrossedEdges)

\* The polygons of the result cover the parts of the sphere that the operation
\* says, and have as many edges to a vertex as from it; semi-open polygons
\* also have the vertices that it says.
PolygonsMatch(A, B, covered, edges) ==
  LET told == IF opt.polygon_model = "SEMI_OPEN" THEN Probes \cup Vertices ELSE Probes IN
  /\ \A p \in told : (p \in covered) = Combine(p \in A, p \in B)
  /\ \A v \in Vertices : Cardinality({ i \in DOMAIN edges : edges[i][1] = v })
                         = Cardinality({ i \in DOMAIN edges : edges[i][2] = v })

PolygonsExact ==
  Done => PolygonsMatch(PolygonsOf(region_a).places, PolygonsOf(region_b).places,
                        Result.places, OutOf(2))

\* The union and the intersection of closed polygons, and of open ones, are
\* those of the sets of points, down to the single edge and vertex.
BoundariesMatch(A, B, both) ==
  /\ \A v \in Vertices : HasVertex(both, v) = Combine(HasVertex(A, v), HasVertex(B, v))
  /\ \A e \in ToSet(A.edges \o B.edges) : HasEdge(both, e) = Combine(HasEdge(A, e), HasEdge(B, e))

BoundariesExact ==
  Done /\ op_type \in {"UNION", "INTERSECTION"} /\ opt.polygon_model # "SEMI_OPEN" =>
    BoundariesMatch(PolygonsOf(region_a), PolygonsOf(region_b), Result)

Simple(polygons) ==
  \A e \in ToSet(polygons.edges) : e[1] # e[2] /\ Sibling(e) \notin ToSet(polygons.edges)

\* IsEmpty, which stops at the first edge of the result, agrees with the
\* result, and so do Contains, Intersects and Equals.
IsEmptyMeansEmpty ==
  Done => ((result_empty = "empty") <=> (result = << >> /\ ~IsFullPolygonResult))

\* It does for polygons without degeneracies, except for the difference of open
\* ones.
EmptyAgrees ==
  \/ ~Simple(PolygonsOf(region_a)) \/ ~Simple(PolygonsOf(region_b))
  \/ opt.polygon_model = "OPEN" /\ op_type \in {"DIFFERENCE", "SYMMETRIC_DIFFERENCE"}
  \/ IsEmptyMeansEmpty

\* The union, intersection, difference and symmetric difference of points,
\* polylines and polygons are those of the sets that the boundary models make
\* of them, and what the crossing processor carries along a chain never turns
\* inside out.
BooleanExact ==
  /\ PointsAndLinesExact
  /\ PolygonsExact
  /\ BoundariesExact
=============================================================================
