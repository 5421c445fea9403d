------------------------------ MODULE S2ClosedSet ------------------------------
(***************************************************************************)
(* Degenerate parts of polygons: edges from a vertex to itself and pairs   *)
(* of siblings, told apart as shells and holes                             *)
(* (src/s2/s2builderutil_find_polygon_degeneracies.cc), and what the layer *)
(* for lax polygons makes of them (src/s2/s2builderutil_lax_polygon_layer.cc). *)
(*                                                                         *)
(* g is a graph of S2BuilderGraph; full is what is_full_polygon_predicate  *)
(* answers for a polygon without edges that count.                         *)
(***************************************************************************)
EXTENDS S2BuilderGraph, S2Predicates

\* is_edge_degeneracy_ and is_vertex_unbalanced_ of ComputeDegeneracies
ComputeDegeneracies(g) ==
  { e \in DOMAIN g.edges : \/ g.edges[e][1] = g.edges[e][2]
                           \/ Reversed(g.edges[e]) \in ToSet(g.edges) }

UnbalancedVertices(g) == { g.edges[e][1] : e \in DOMAIN g.edges \ ComputeDegeneracies(g) }

OutOf(g, v) == SelectSeq(Indices(g.edges), LAMBDA e : g.edges[e][1] = v)
IntoOf(g, v) == { e \in DOMAIN g.edges : g.edges[e][2] = v }

\* Whether an edge between v0 and v counts: one between v0 and v1 as it is said.
Crosses(v0, v1, v, include_same) ==
  IF v = v1 THEN include_same ELSE OrderedCCW(RefDir(pt[v0]), pt[v], pt[v1], pt[v0])

\* Mutant: only the edges that leave v0 are counted.
CrossingParityOut(g, v0, v1, include_same) ==
  Odd({ e \in ToSet(OutOf(g, v0)) : Crosses(v0, v1, g.edges[e][2], include_same) })

\* Whether the edge from v0 to v1 crosses an odd number of the edges that leave
\* v0 and of those that arrive there.
CrossingParity(g, v0, v1, include_same) ==
  Odd({ x \in (DOMAIN g.edges) \X {1, 2} :
          /\ g.edges[x[1]][3 - x[2]] = v0
          /\ Crosses(v0, v1, g.edges[x[1]][x[2]], include_same) })

ContainsVertexSign(g, v0) ==
  ContainsSign(pt[v0], [p \in ToSet(pt) |->
    Cardinality({ e \in ToSet(OutOf(g, v0)) : pt[g.edges[e][2]] = p })
    - Cardinality({ e \in IntoOf(g, v0) : pt[g.edges[e][1]] = p })])

\* The edge e from v0 to v1: inside tells on which side of the root's it is.
VisitEdge(g, v0, v1, e, inside, s) ==
  [s EXCEPT
     !.found = IF e \in ComputeDegeneracies(g) THEN @ \cup {<< e, inside >>} ELSE @,
     !.used = @ \cup {v1},
     !.frontier = IF v1 \in s.used THEN @
                  ELSE Append(@, << v1, inside # CrossingParity(g, v1, v0, TRUE) >>)]

\* The edges that leave v0 are looked at in turn: a degeneracy is on the same
\* side as the root or not, and so is each vertex that is new.
VisitEdges(g, v0, same, s) ==
  FoldLeft(LAMBDA t, e :
             VisitEdge(g, v0, g.edges[e][2], e,
                       same # CrossingParity(g, v0, g.edges[e][2], FALSE), t),
           s, OutOf(g, v0))

\* The first vertex with unbalanced edges tells the sign of the root.
Signed(g, v0, same, s) ==
  IF s.root_sign = 0 /\ v0 \in UnbalancedVertices(g)
  THEN [s EXCEPT !.root_sign = (IF same THEN 1 ELSE -1) * ContainsVertexSign(g, v0)]
  ELSE s

RECURSIVE BuildComponent(_, _)
BuildComponent(g, s) ==
  IF s.frontier = << >> THEN s
  ELSE LET top == Last(s.frontier) IN
       BuildComponent(g,
         VisitEdges(g, top[1], top[2],
                    Signed(g, top[1], top[2], [s EXCEPT !.frontier = Front(@)])))

AddBuilt(s, c) == [used |-> c.used, components |-> Append(s.components, c)]

\* The components that have degeneracies, each from its first one.
Components(g) ==
  FoldLeft(LAMBDA s, e :
             IF e \notin ComputeDegeneracies(g) \/ g.edges[e][1] \in s.used THEN s
             ELSE AddBuilt(s, BuildComponent(g,
                    [root |-> g.edges[e][1], root_sign |-> 0, found |-> {},
                     frontier |-> << << g.edges[e][1], TRUE >> >>,
                     used |-> s.used \cup {g.edges[e][1]}])),
           [used |-> {}, components |-> << >>], Indices(g.edges)).components

\* The vertex whose sign is known: the root of the last component that has one,
\* or else the first unbalanced vertex.
KnownVertex(g, known) ==
  IF known # << >> THEN [root |-> Last(known).root, sign |-> Last(known).root_sign]
  ELSE LET first == CHOOSE v \in UnbalancedVertices(g) : \A w \in UnbalancedVertices(g) : v <= w IN
       [root |-> first, sign |-> ContainsVertexSign(g, first)]

ProperEdges(g) ==
  LET proper == SelectSeq(Indices(g.edges), LAMBDA e : e \notin ComputeDegeneracies(g)) IN
  [i \in DOMAIN proper |-> << pt[g.edges[proper[i]][1]], pt[g.edges[proper[i]][2]] >>]

\* ComputeUnknownSignsBruteForce; with an index the edges are found sooner.
RootSign(g, known, c) ==
  IF c.root_sign # 0 THEN c.root_sign
  ELSE IF (known.sign > 0) # Odd(Crossed(pt[known.root], pt[c.root], ProperEdges(g)))
  THEN 1 ELSE -1

\* MergeDegeneracies: a component's degeneracies are holes or not as its root is.
MergeDegeneracies(g, components, known) ==
  UNION { { << d[1], d[2] # (RootSign(g, known, c) < 0) >> : d \in c.found } :
          c \in ToSet(components) }

ClassifiedIn(g, components) ==
  MergeDegeneracies(g, components,
    KnownVertex(g, SelectSeq(components, LAMBDA c : c.root_sign # 0)))

\* DegeneracyFinder::Run: the degenerate edges, with TRUE for holes.
FindPolygonDegeneracies(g, full) ==
  IF ComputeDegeneracies(g) = {} THEN {}
  ELSE IF ComputeDegeneracies(g) = DOMAIN g.edges
  THEN { << e, full >> : e \in DOMAIN g.edges }
  ELSE ClassifiedIn(g, Components(g))

IsFullyDegenerate(g) == ComputeDegeneracies(g) = DOMAIN g.edges

-----------------------------------------------------------------------------
(* LaxPolygonLayer *)

\* graph_options of the layer
LaxPolygonOptions(boundaries) ==
  [edge_type |-> "DIRECTED", duplicate_edges |-> "KEEP",
   degenerate_edges |-> IF boundaries = "DISCARD" THEN "DISCARD" ELSE "DISCARD_EXCESS",
   sibling_pairs |-> IF boundaries = "DISCARD" THEN "DISCARD" ELSE "DISCARD_EXCESS"]

DiscardEdges(g, gone) ==
  LET kept == SelectSeq(Indices(g.edges), LAMBDA e : e \notin gone) IN
  [g EXCEPT !.edges = [i \in DOMAIN kept |-> g.edges[kept[i]]],
            !.ids = [i \in DOMAIN kept |-> g.ids[kept[i]]]]

\* Mutant: the full loop is added only if there are no edges.
FullLoopUnlessEdges(g, boundaries, full) == g.edges = << >> /\ full

\* Whether the loop without vertices is added, which stands for the whole sphere.
FullLoop(g, boundaries, full) ==
  /\ full
  /\ IF boundaries = "DISCARD" THEN g.edges = << >> ELSE IsFullyDegenerate(g)

\* The loops, as sequences of vertices.
VertexLoops(g, r, fullLoop) ==
  [error |-> r.error,
   loops |-> (IF fullLoop THEN << << >> >> ELSE << >>)
               \o [i \in DOMAIN r.loops |->
                     [j \in DOMAIN r.loops[i] |-> g.edges[r.loops[i][j]][1]]]]

\* Holes or shells go if they are not wanted.
WithoutUnwanted(g, boundaries, full) ==
  LET holes == boundaries = "DISCARD_HOLES" IN
  IF boundaries \notin {"DISCARD_SHELLS", "DISCARD_HOLES"} THEN g
  ELSE DiscardEdges(g, { d[1] : d \in { x \in FindPolygonDegeneracies(g, full) : x[2] = holes } })

LoopsOfRest(rest, fullLoop) == VertexLoops(rest, GetDirectedLoops(rest, FALSE), fullLoop)

BuildDirected(g, boundaries, full) ==
  LoopsOfRest(WithoutUnwanted(g, boundaries, full), FullLoop(g, boundaries, full))

-----------------------------------------------------------------------------
(***************************************************************************)
(* ClosedSetNormalizer (src/s2/s2builderutil_closed_set_normalizer.cc):    *)
(* points, polylines and polygons that stand for a closed set are brought  *)
(* to a normal form, in which degenerate shells have become polylines or   *)
(* points, degenerate holes are gone, and what another dimension covers is *)
(* left out.                                                               *)
(*                                                                         *)
(* The three graphs have the same vertices.  sides is a sequence of the    *)
(* edges of dimensions 0, 1 and 2; what is added by hand here is what the  *)
(* layers receive from S2Builder.                                          *)
(***************************************************************************)

CONSTANTS Shells,         \* the edges of polygons without degeneracies
          LinePieces,     \* edges of polylines that may be added
          PolygonPieces,  \* degeneracies that may be added: sequences of edges
          PointPieces,    \* vertices that may be added as points
          MaxPieces       \* how many

VARIABLES sides,          \* edges added, by dimension
          pieces,         \* how many were added
          is_full,        \* the answer of is_full_polygon_predicate
          graphs,         \* the graphs that were normalized, or NoGraphs
          normal,         \* the graphs of the result
          lax             \* lax polygons built from the third graph, by option

closed_set == <<sides, pieces, is_full, graphs, normal, lax>>

NoGraphs == << >>
Boundaries == {"DISCARD", "DISCARD_HOLES", "DISCARD_SHELLS", "KEEP"}

-----------------------------------------------------------------------------
(* The options of the graphs *)

LayerOptions(type) ==
  [edge_type |-> type, degenerate_edges |-> "DISCARD", duplicate_edges |-> "MERGE",
   sibling_pairs |-> "KEEP"]

\* graph_options_out_: points are kept as degenerate edges, polygons have no
\* degeneracies.
OptionsOut(type) ==
  << [LayerOptions("DIRECTED") EXCEPT !.degenerate_edges = "KEEP"],
     LayerOptions(type),
     [LayerOptions("DIRECTED") EXCEPT !.duplicate_edges = "KEEP", !.sibling_pairs = "DISCARD"] >>

\* graph_options_in_
OptionsIn(type) ==
  << OptionsOut(type)[1],
     [OptionsOut(type)[2] EXCEPT !.degenerate_edges = "DISCARD_EXCESS"],
     [OptionsOut(type)[3] EXCEPT !.degenerate_edges = "DISCARD_EXCESS",
                                 !.sibling_pairs = "DISCARD_EXCESS"] >>

-----------------------------------------------------------------------------
(* NormalizeEdges *)

sentinel_ == << 999, 999 >>
EdgeAt(g, e) == IF e > Len(g.edges) THEN sentinel_ ELSE g.edges[e]
Leq(e, f) == e[1] < f[1] \/ (e[1] = f[1] /\ e[2] <= f[2])

\* is_suppressed
SuppressedVertices(gs, suppress) ==
  { v \in DOMAIN pt : /\ suppress
                      /\ \E dim \in {2, 3} : \E e \in ToSet(gs[dim].edges) :
                           e[1] # e[2] /\ v \in {e[1], e[2]} }

\* AddEdge: edge e of the graph of dimension from goes to dimension dim.
Add(s, dim, from, e) ==
  [s EXCEPT !.new[dim] = Append(@, << from, e >>)]

\* The edges of the polyline graph that are equal to e and come next.
RECURSIVE SkipLine(_, _, _, _)
SkipLine(gs, s, e, add) ==
  IF EdgeAt(gs[2], s.e1) # e \/ e = sentinel_ THEN s
  ELSE SkipLine(gs, [(IF add THEN Add(s, 2, 2, s.e1) ELSE s) EXCEPT !.e1 = @ + 1], e, add)

\* A polygon edge: it stays, or becomes an edge or a point if it belongs to a
\* degenerate shell, or goes.
PolygonEdge(gs, suppress, degeneracies, s) ==
  LET e == EdgeAt(gs[3], s.e2)
      next2 == [s EXCEPT !.e2 = @ + 1] IN
  IF << s.e2, TRUE >> \in degeneracies THEN next2
  ELSE IF << s.e2, FALSE >> \in degeneracies THEN
    IF e[1] # e[2] THEN SkipLine(gs, Add(next2, 2, 3, s.e2), e, TRUE)
    ELSE IF e[1] \in SuppressedVertices(gs, suppress) THEN next2
    ELSE Add(next2, 1, 3, s.e2)
  ELSE IF suppress THEN SkipLine(gs, Add(next2, 3, 3, s.e2), e, FALSE)
  ELSE Add(next2, 3, 3, s.e2)

\* Mutant: a polyline edge is compared only with polygon edges of its direction.
PolylineEdgeOneWay(gs, suppress, s) ==
  LET e == EdgeAt(gs[2], s.e1)
      next1 == [s EXCEPT !.e1 = @ + 1] IN
  IF e[1] # e[2] THEN Add(next1, 2, 2, s.e1)
  ELSE IF e[1] \in SuppressedVertices(gs, suppress) THEN next1
  ELSE Add(next1, 1, 2, s.e1)

\* A polyline edge: it goes if a polygon edge of the other direction covers it;
\* a degenerate one becomes a point.
PolylineEdge(gs, suppress, s) ==
  LET e == EdgeAt(gs[2], s.e1)
      in2 == IF suppress THEN GetInEdgeIds(gs[3]) ELSE << >>
      InEdge(i) == IF i > Len(in2) THEN sentinel_ ELSE Reversed(gs[3].edges[in2[i]])
      i == CHOOSE k \in s.in_e2 .. Len(in2) + 1 :
             /\ Leq(e, InEdge(k))
             /\ \A h \in s.in_e2 .. k - 1 : ~Leq(e, InEdge(h))
      twins == IF gs[2].options.edge_type = "UNDIRECTED" THEN 2 ELSE 1
      next1 == [s EXCEPT !.e1 = @ + (IF e[1] = e[2] THEN twins ELSE 1)] IN
  IF e[1] # e[2] THEN IF InEdge(i) = e THEN [next1 EXCEPT !.in_e2 = i]
                      ELSE Add([next1 EXCEPT !.in_e2 = i], 2, 2, s.e1)
  ELSE IF e[1] \in SuppressedVertices(gs, suppress) THEN next1
  ELSE Add(next1, 1, 2, s.e1)

PointEdge(gs, suppress, s) ==
  LET next0 == [s EXCEPT !.e0 = @ + 1] IN
  IF EdgeAt(gs[1], s.e0)[1] \in SuppressedVertices(gs, suppress) THEN next0
  ELSE Add(next0, 1, 1, s.e0)

\* The least edge of the three graphs is next, a polygon's before a polyline's.
NextEdge(gs, suppress, degeneracies, s) ==
  LET edge0 == EdgeAt(gs[1], s.e0)
      edge1 == EdgeAt(gs[2], s.e1)
      edge2 == EdgeAt(gs[3], s.e2) IN
  IF Leq(edge2, edge1) /\ Leq(edge2, edge0) THEN PolygonEdge(gs, suppress, degeneracies, s)
  ELSE IF Leq(edge1, edge0) THEN PolylineEdge(gs, suppress, s)
  ELSE PointEdge(gs, suppress, s)

RECURSIVE MergeJoin(_, _, _, _)
MergeJoin(gs, suppress, degeneracies, s) ==
  IF << EdgeAt(gs[1], s.e0), EdgeAt(gs[2], s.e1), EdgeAt(gs[3], s.e2) >>
       = << sentinel_, sentinel_, sentinel_ >> THEN s
  ELSE MergeJoin(gs, suppress, degeneracies, NextEdge(gs, suppress, degeneracies, s))

-----------------------------------------------------------------------------
(* Run *)

\* Mutant: a graph is processed only if its own edges have changed in number.
ModifiedAlone(gs, new, dim) == Len(new[dim]) # Len(gs[dim].edges)

\* The graphs of this and of higher dimensions tell whether edges were removed.
Modified(gs, new, dim) == \E d \in dim .. 3 : Len(new[d]) # Len(gs[d].edges)

EdgesOfDim(gs, new) == [i \in DOMAIN new |-> gs[new[i][1]].edges[new[i][2]]]
IdsOfDim(gs, new) == [i \in DOMAIN new |-> gs[new[i][1]].ids[new[i][2]]]

Rebuilt(gs, new, options) ==
  [d \in 1 .. 3 |->
     IF Modified(gs, new, d)
     THEN ProcessEdges(options[d], EdgesOfDim(gs, new[d]), IdsOfDim(gs, new[d]))
     ELSE [gs[d] EXCEPT !.options = options[d]]]

Normalized(gs, suppress, full) ==
  Rebuilt(gs,
    MergeJoin(gs, suppress, FindPolygonDegeneracies(gs[3], full),
              [e0 |-> 1, e1 |-> 1, e2 |-> 1, in_e2 |-> 1, new |-> << << >>, << >>, << >> >>]).new,
    OptionsOut(gs[2].options.edge_type))

-----------------------------------------------------------------------------
SetInit ==
  /\ \E shells \in Shells : sides = << << >>, << >>, shells >>
  /\ pieces = 0 /\ is_full \in BOOLEAN /\ graphs = NoGraphs /\ normal = NoGraphs /\ lax = << >>

Grow(dim, edges) ==
  /\ graphs = NoGraphs /\ pieces < MaxPieces
  /\ sides' = [sides EXCEPT ![dim] = @ \o edges] /\ pieces' = pieces + 1
  /\ UNCHANGED <<is_full, graphs, normal, lax>>

SideIds(d) == [i \in DOMAIN sides[d] |-> {10 * d + i}]

\* The graph of a layer.
SideGraph(d, o) ==
  LET line == BothWays(sides[d], SideIds(d)) IN
  IF o.edge_type = "UNDIRECTED" THEN ProcessEdges(o, line.edges, line.ids)
  ELSE ProcessEdges(o, sides[d], SideIds(d))

NormalizeGraphs(gs, suppress) ==
  /\ graphs' = [gs |-> gs, suppress |-> suppress]
  /\ normal' = Normalized(gs, suppress, is_full)

\* NormalizeClosedSetImpl::Build for the last layer
Run(type, suppress) ==
  /\ graphs = NoGraphs
  /\ NormalizeGraphs([d \in 1 .. 3 |-> SideGraph(d, OptionsIn(type)[d])], suppress)
  /\ lax' = [b \in Boundaries |->
               BuildDirected(SideGraph(3, LaxPolygonOptions(b)), b, is_full)]
  /\ UNCHANGED <<sides, pieces, is_full>>

SetNext ==
  \/ \E v \in PointPieces : Grow(1, << << v, v >> >>)
  \/ \E e \in LinePieces : Grow(2, << e >>)
  \/ \E p \in PolygonPieces : Grow(3, p)
  \/ \E type \in {"DIRECTED", "UNDIRECTED"}, suppress \in BOOLEAN : Run(type, suppress)

SetSpec == SetInit /\ [][SetNext]_closed_set

-----------------------------------------------------------------------------
(* The set that graphs stand for, told by the vertices and by the middles of *)
(* the possible edges: q is in it if it is a point of it, on an edge of it,  *)
(* or inside its polygon.                                                    *)

Middle(v, w) == IF v = w THEN pt[v] ELSE [k \in 1 .. 3 |-> pt[v][k] + pt[w][k]]
Pieces == LinePieces \cup UNION { ToSet(e) : e \in PolygonPieces \cup Shells }
Probes == ToSet(pt) \cup { Middle(e[1], e[2]) : e \in Pieces }

\* The probes that loops contain.
Contained(loops) ==
  LET ref == GetReferencePoint(loops)
      edges == AllEdgesOf(loops) IN { q \in Probes : ContainsFrom(ref, edges, q) }

PointLoops(g, loops) ==
  [i \in DOMAIN loops |-> [j \in DOMAIN loops[i] |-> pt[g.edges[loops[i][j]][1]]]]

InsideOf(g, full) ==
  IF g.edges = << >> THEN IF full THEN Probes ELSE {}
  ELSE Contained(PointLoops(g, GetDirectedLoops(g, TRUE).loops))

\* The probes inside the polygon, degenerate parts left out.
Inside(edges, full) ==
  InsideOf(ProcessEdges(OptionsOut("DIRECTED")[3], edges, [i \in DOMAIN edges |-> {i}]), full)

On(edges) == UNION { {pt[e[1]], pt[e[2]], Middle(e[1], e[2])} : e \in edges }

Members(gs, full) == Inside(gs[3].edges, full) \cup UNION { On(ToSet(gs[d].edges)) : d \in 1 .. 3 }

(* Normalizing does not change the closed set, keeps no degenerate polygon,  *)
(* and if lower dimensions are suppressed it leaves no polyline edge on a    *)
(* polygon edge and no point at a vertex of another edge; the options of the *)
(* layers, applied to what came out, change nothing more.                    *)
NormalFormExact ==
  graphs # NoGraphs =>
    /\ Members(normal, is_full) = Members(graphs.gs, is_full)
    /\ ComputeDegeneracies(normal[3]) = {}
    /\ graphs.suppress =>
         /\ \A e \in ToSet(normal[2].edges), f \in ToSet(normal[3].edges) : f \notin {e, Reversed(e)}
         /\ \A p \in ToSet(normal[1].edges), f \in ToSet(normal[2].edges) \cup ToSet(normal[3].edges) :
              p[1] \notin {f[1], f[2]}
    /\ \A d \in 1 .. 3 : ProcessEdges(normal[d].options, normal[d].edges, normal[d].ids).edges
                           = normal[d].edges

(* A degeneracy is a hole exactly if it lies inside the polygon that is left  *)
(* without the degeneracies (s2builderutil_find_polygon_degeneracies.h).      *)
HolesAreInside ==
  graphs # NoGraphs =>
    LET inside == Inside(graphs.gs[3].edges, is_full) IN
    \A d \in FindPolygonDegeneracies(graphs.gs[3], is_full) :
      LET e == graphs.gs[3].edges[d[1]] IN d[2] = (Middle(e[1], e[2]) \in inside)

(* A lax polygon contains the points that its edges enclose, whatever is     *)
(* done with its degeneracies, and of those it has the kind that was asked   *)
(* for and no other (s2builderutil_lax_polygon_layer.h).                     *)
LaxPolygonExact(b, loops, edges, inside) ==
  LET degenerate == { Middle(e[1], e[2]) : e \in { f \in edges : Reversed(f) \in edges } } IN
  /\ Contained([i \in DOMAIN loops |-> [j \in DOMAIN loops[i] |-> pt[loops[i][j]]]])
         \ On(ToSet(sides[3]))
       = inside \ On(ToSet(sides[3]))
  /\ b = "DISCARD" => degenerate = {}
  /\ b = "DISCARD_HOLES" => degenerate \cap inside = {}
  /\ b = "DISCARD_SHELLS" => degenerate \subseteq inside
  /\ b = "KEEP" => On(ToSet(sides[3])) = On(edges)

EdgesOfLoop(l) == { << l[j], Vertex(l, j + 1) >> : j \in DOMAIN l }

LaxPolygonsExact ==
  \A b \in DOMAIN lax :
    /\ ~lax[b].error
    /\ LaxPolygonExact(b, lax[b].loops,
         UNION { EdgesOfLoop(l) : l \in ToSet(lax[b].loops) }, Inside(sides[3], is_full))

\* Neither the normal form of points, polylines and polygons nor the treatment
\* of degenerate shells and holes changes the set of points that they stand
\* for (ClosedSetNormalizer, FindPolygonDegeneracies, LaxPolygonLayer).
ClosedSetExact ==
  /\ NormalFormExact
  /\ HolesAreInside
  /\ LaxPolygonsExact
=============================================================================
