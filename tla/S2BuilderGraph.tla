------------------------------ MODULE S2BuilderGraph ------------------------------
(***************************************************************************)
(* S2Builder::Graph (src/s2/s2builder_graph.{h,cc}): what is made of the   *)
(* edges that S2Builder has snapped.  ProcessEdges applies the options of  *)
(* a layer to them; the graph then gives loops, connected components or    *)
(* polylines.                                                              *)
(*                                                                         *)
(* Vertices and edges are numbered from 1.  An edge is a pair of vertices, *)
(* ids gives the input edges it stands for, and pt the point of a vertex.  *)
(* Options: edge_type, degenerate_edges, duplicate_edges, sibling_pairs.   *)
(***************************************************************************)
EXTENDS S2Predicates, SequencesExt

CONSTANT pt                  \* the points of the vertices
LOCAL kNoInputEdgeId == 999  \* the least id of an edge that stands for none

Reversed(e) == << e[2], e[1] >>
Indices(s) == [i \in 1 .. Len(s) |-> i]

\* All pairs of vertices, in the order of edges.
AllEdges ==
  LET n == Len(pt) IN
  [k \in 1 .. n * n |-> << ((k - 1) \div n) + 1, ((k - 1) % n) + 1 >>]

\* The numbers of the edges that are equal to e, in their order.
NumbersOf(edges, e) == SelectSeq(Indices(edges), LAMBDA i : edges[i] = e)

-----------------------------------------------------------------------------
(* ProcessEdges *)

\* Mutant: the last pair of siblings stays.
UnpairedKeepsLast(o, n_out, n_in) ==
  IF o.edge_type = "UNDIRECTED" THEN n_out % 2
  ELSE IF n_out < n_in THEN 0
  ELSE IF o.duplicate_edges = "MERGE" \/ n_out = n_in THEN 1 ELSE n_out - n_in

\* SiblingPairs::DISCARD: how many of n_out copies are left when pairs are gone.
Unpaired(o, n_out, n_in) ==
  IF o.edge_type = "UNDIRECTED" THEN n_out % 2
  ELSE IF n_out <= n_in THEN 0
  ELSE IF o.duplicate_edges = "MERGE" THEN 1 ELSE n_out - n_in

\* EdgeProcessor::Run for all copies of one edge: out are their numbers and
\* n_in is how many copies run the other way.
Processed(o, edges, ids, e) ==
  LET out == NumbersOf(edges, e)
      n_out == Len(out)
      n_in == Len(NumbersOf(edges, Reversed(e)))
      Edges(n, s) == [i \in 1 .. n |-> [edge |-> e, ids |-> s]]
      merged == UNION { ids[i] : i \in ToSet(out) }
      Copied == [i \in 1 .. n_out |-> [edge |-> e, ids |-> ids[out[i]]]]
      undirected == o.edge_type = "UNDIRECTED"
      merge == o.duplicate_edges = "MERGE" IN
  IF n_out + n_in = 0 THEN << >>
  ELSE IF e[1] = e[2] THEN
    CASE \/ o.degenerate_edges = "DISCARD"
         \/ /\ o.degenerate_edges = "DISCARD_EXCESS"
            /\ \E f \in ToSet(edges) : f[1] # f[2] /\ e[1] \in {f[1], f[2]} -> << >>
      [] OTHER ->
         LET once == merge \/ o.degenerate_edges = "DISCARD_EXCESS" IN
         IF undirected /\ o.sibling_pairs \in {"REQUIRE", "CREATE"}
         THEN Edges(IF once THEN 1 ELSE n_out \div 2, merged)
         ELSE IF once THEN Edges(IF undirected THEN 2 ELSE 1, merged)
         ELSE IF o.sibling_pairs \in {"DISCARD", "DISCARD_EXCESS"} THEN Edges(n_out, merged)
         ELSE Copied
  ELSE
    CASE o.sibling_pairs = "KEEP" -> IF n_out > 1 /\ merge THEN Edges(1, merged) ELSE Copied
      [] o.sibling_pairs = "DISCARD" -> Edges(Unpaired(o, n_out, n_in), merged)
      [] o.sibling_pairs = "DISCARD_EXCESS" ->
         IF undirected THEN Edges(IF n_out % 2 = 1 THEN 1 ELSE 2, merged)
         ELSE IF n_out < n_in THEN << >>
         ELSE Edges(IF merge \/ n_out = n_in THEN 1 ELSE n_out - n_in, merged)
      [] OTHER ->
         IF merge THEN Edges(1, merged)
         ELSE IF undirected THEN Edges((n_out + 1) \div 2, merged)
         ELSE Copied \o Edges(IF n_in > n_out THEN n_in - n_out ELSE 0, {})

\* REQUIRE is an error where a sibling is missing.
MissingSibling(o, edges) ==
  /\ o.sibling_pairs = "REQUIRE"
  /\ \E e \in ToSet(edges) :
       /\ e[1] # e[2]
       /\ IF o.edge_type = "DIRECTED"
          THEN Len(NumbersOf(edges, e)) # Len(NumbersOf(edges, Reversed(e)))
          ELSE Len(NumbersOf(edges, e)) % 2 = 1

\* ProcessEdges: siblings that are required or created make the edges directed.
ProcessEdges(o, edges, ids) ==
  LET new == FlattenSeq([k \in 1 .. Len(AllEdges) |-> Processed(o, edges, ids, AllEdges[k])])
      type == IF o.sibling_pairs \in {"REQUIRE", "CREATE"} THEN "DIRECTED" ELSE o.edge_type IN
  [edges |-> [i \in 1 .. Len(new) |-> new[i].edge],
   ids |-> [i \in 1 .. Len(new) |-> new[i].ids],
   error |-> MissingSibling(o, edges),
   options |-> [o EXCEPT !.edge_type = type]]

\* S2Builder::AddSnappedEdge: an undirected edge is followed by its sibling, which
\* stands for no input edge.
BothWays(edges, ids) ==
  [edges |-> FlattenSeq([i \in 1 .. Len(edges) |-> << edges[i], Reversed(edges[i]) >>]),
   ids |-> FlattenSeq([i \in 1 .. Len(edges) |-> << ids[i], {} >>])]

-----------------------------------------------------------------------------
(* Siblings and left turns *)

min_input_id(g, e) ==
  IF g.ids[e] = {} THEN kNoInputEdgeId
  ELSE CHOOSE x \in g.ids[e] : \A y \in g.ids[e] : x <= y

\* The edges by the vertex they go to, and then by the one they come from.
GetInEdgeIds(g) ==
  FlattenSeq([k \in 1 .. Len(AllEdges) |-> NumbersOf(g.edges, Reversed(AllEdges[k]))])

\* The copy of a degenerate edge that makes a pair with e.
Twin(g, e, same) ==
  LET at == CHOOSE i \in DOMAIN same : same[i] = e IN
  IF at % 2 = 1 THEN same[at + 1] ELSE same[at - 1]

\* MakeSiblingMap: the degenerate edges of an undirected graph come in pairs.
SiblingsAmong(g, in) ==
  [e \in DOMAIN in |->
     IF /\ g.edges[e][1] = g.edges[e][2] /\ g.options.edge_type = "UNDIRECTED"
        /\ g.options.degenerate_edges # "DISCARD"
     THEN Twin(g, e, NumbersOf(g.edges, g.edges[e])) ELSE in[e]]

MakeSiblingMap(g) == SiblingsAmong(g, GetInEdgeIds(g))

\* AddVertexEdges: the edges between v0 and v1 as they lie around v0, clockwise.
\* in are numbers of places in the list of incoming edges.
AddVertexEdges(out, in) ==
  LET extra == IF Len(in) > Len(out) THEN Len(in) - Len(out) ELSE 0
      back == Reverse(in)
      In(i) == [incoming |-> TRUE, index |-> i]
      Out(i) == [incoming |-> FALSE, index |-> i] IN
  [i \in 1 .. extra |-> In(back[i])]
    \o FlattenSeq([i \in 1 .. Len(in) - extra |-> << Out(out[i]), In(back[extra + i]) >>])
    \o [i \in 1 .. Len(out) - (Len(in) - extra) |-> Out(out[Len(in) - extra + i])]

\* Vertices in clockwise order around v0, from the first of them.
Clockwise(v0, ends) ==
  IF ends = << >> THEN << >>
  ELSE << ends[1] >> \o SortSeq(Tail(ends), LAMBDA x, y :
                          ~OrderedCCW(pt[x], pt[y], pt[ends[1]], pt[v0]))

\* The edges around v0, clockwise from its least neighbour.
EdgesAround(g, in_ids, v0) ==
  LET In(v1) == SelectSeq(Indices(in_ids), LAMBDA i : g.edges[in_ids[i]] = << v1, v0 >>)
      Out(v1) == NumbersOf(g.edges, << v0, v1 >>)
      Edges(order) == FlattenSeq([i \in DOMAIN order |-> AddVertexEdges(Out(order[i]), In(order[i]))])
  IN Edges(Clockwise(v0, SelectSeq(Indices(pt),
             LAMBDA v : v # v0 /\ << v0, v >> \in ToSet(g.edges) \cup { Reversed(e) : e \in ToSet(g.edges) })))

\* One edge around the vertex: one that leaves is matched with the last that
\* arrived, as parentheses are.
MatchEdge(in_ids, s, e) ==
  IF e.incoming THEN [s EXCEPT !.e_in = Append(@, in_ids[e.index])]
  ELSE IF s.e_in # << >>
  THEN [s EXCEPT !.turns = @ \cup {<< Last(s.e_in), e.index >>}, !.e_in = Front(@)]
  ELSE [s EXCEPT !.e_out = Append(@, e.index)]

\* Mutant: the edges left over are matched with the last that leave.
MatchRestUnreversed(s) ==
  [turns |-> s.turns \cup { << s.e_in[i], s.e_out[i] >> :
                             i \in DOMAIN s.e_in \cap DOMAIN s.e_out },
   failed |-> Len(s.e_in) > Len(s.e_out)]

\* What is left over is matched around the end of the list.
MatchRest(s) ==
  [turns |-> s.turns \cup { << s.e_in[Len(s.e_in) - i + 1], s.e_out[i] >> :
                             i \in DOMAIN s.e_in \cap DOMAIN s.e_out },
   failed |-> Len(s.e_in) > Len(s.e_out)]

MatchAt(in_ids, around) ==
  MatchRest(FoldLeft(LAMBDA s, e : MatchEdge(in_ids, s, e),
                     [e_in |-> << >>, e_out |-> << >>, turns |-> {}], around))

\* GetLeftTurnMap: 0 where there is no turn.  A degenerate edge turns to itself,
\* by its place in the list of incoming edges.
TurnMap(g, turns, failed) ==
  [map |-> [e \in DOMAIN g.edges |->
              IF \E t \in turns : t[1] = e THEN (CHOOSE t \in turns : t[1] = e)[2] ELSE 0],
   error |-> failed]

TurnsOf(g, in_ids, at) ==
  TurnMap(g, UNION { at[v].turns : v \in DOMAIN pt }
               \cup { << i, i >> : i \in { j \in DOMAIN in_ids :
                        g.edges[in_ids[j]][1] = g.edges[in_ids[j]][2] } },
          \E v \in DOMAIN pt : at[v].failed)

GetLeftTurnMap(g, in_ids) ==
  TurnsOf(g, in_ids, [v \in DOMAIN pt |-> MatchAt(in_ids, EdgesAround(g, in_ids, v))])

-----------------------------------------------------------------------------
(* The order of the results *)

\* One step of the search for the last edge: cmp compares edge i with the one found.
LaterLast(s, i, cmp) ==
  IF cmp < 0 THEN [s EXCEPT !.saw_gap = TRUE]
  ELSE IF cmp > 0 \/ ~s.saw_gap THEN [pos |-> i, saw_gap |-> FALSE]
  ELSE s

RotatedAfter(loop, last) == SubSeq(loop, last + 1, Len(loop)) \o SubSeq(loop, 1, last)

\* CanonicalizeLoopOrder: the edge with the largest input id becomes the last.
CanonicalizeLoopOrder(g, loop) ==
  IF loop = << >> THEN loop
  ELSE RotatedAfter(loop,
         FoldLeft(LAMBDA s, i : LaterLast(s, i, min_input_id(g, loop[i]) - min_input_id(g, loop[s.pos])),
                  [pos |-> 1, saw_gap |-> FALSE], Tail(Indices(loop))).pos)

\* CanonicalizeVectorOrder
CanonicalizeVectorOrder(g, chains) ==
  SortSeq(chains, LAMBDA x, y :
    LET i == min_input_id(g, x[1])
        j == min_input_id(g, y[1]) IN i < j \/ (i = j /\ x[1] < y[1]))

-----------------------------------------------------------------------------
(* Loops *)

\* Turns left from e as long as there is an edge left.  slot marks the edges
\* used (it is -1, or -1 - slot for undirected components); a simple loop is
\* closed at the first vertex that comes again.
CloseLoop(g, s, path, again) ==
  IF again = {} THEN [s EXCEPT !.path = path]
  ELSE LET from == CHOOSE i \in again : TRUE IN
       [s EXCEPT !.path = SubSeq(path, 1, from - 1),
                 !.loops = Append(@, SubSeq(path, from, Len(path)))]

TakeEdge(g, simple, s, e, path) ==
  CloseLoop(g, s, path,
    { i \in DOMAIN path : simple /\ g.edges[path[i]][1] = g.edges[e][2] })

RECURSIVE TurnLeft(_, _, _, _, _)
TurnLeft(g, simple, slot, s, e) ==
  IF s.map[e] <= 0 THEN s
  ELSE TurnLeft(g, simple, slot,
         TakeEdge(g, simple,
           [s EXCEPT !.map[e] = slot, !.used = Append(@, e)], e, Append(s.path, e)),
         s.map[e])

\* The loops of a walk, or the whole walk as one loop.
LoopsOf(g, simple, s) ==
  [map |-> s.map, used |-> s.used,
   loops |-> [i \in DOMAIN (IF simple THEN s.loops ELSE << s.path >>) |->
                CanonicalizeLoopOrder(g, IF simple THEN s.loops[i] ELSE s.path)]]

LoopsFrom(g, simple, slot, map, start) ==
  LoopsOf(g, simple,
    TurnLeft(g, simple, slot,
             [map |-> map, path |-> << >>, used |-> << >>, loops |-> << >>], start))

AddLoops(s, w) == [map |-> w.map, loops |-> s.loops \o w.loops]

DirectedLoopsFrom(g, simple, turn) ==
  [error |-> turn.error,
   loops |-> IF turn.error THEN << >>
             ELSE CanonicalizeVectorOrder(g,
                    FoldLeft(LAMBDA s, start : IF s.map[start] <= 0 THEN s
                               ELSE AddLoops(s, LoopsFrom(g, simple, -1, s.map, start)),
                             [map |-> turn.map, loops |-> << >>], Indices(g.edges)).loops)]

GetDirectedLoops(g, simple) ==
  DirectedLoopsFrom(g, simple, GetLeftTurnMap(g, GetInEdgeIds(g)))

\* GetUndirectedComponents: the loops of a component fall into two slots, an
\* edge and its sibling into different ones.  frontier is the stack of edges to
\* start from, with their slots.
\*
\* What the map says of the sibling of the i-th edge used, when that edge is used:
\* it may be one that comes before in the same walk.
SiblingSlot(map, sibling, slot, used, i) ==
  IF sibling[used[i]] \in ToSet(SubSeq(used, 1, i)) THEN -1 - slot ELSE map[sibling[used[i]]]

\* The frontier grows by the siblings that are not used yet;
Explored(s, sibling, top, w) ==
  LET At(i) == SiblingSlot(s.map, sibling, top.slot, w.used, i)
      fresh == SelectSeq(Indices(w.used), LAMBDA i : At(i) > 0) IN
  [map |-> w.map,
   error |-> \E i \in DOMAIN w.used : At(i) <= 0 /\ At(i) # -2 + top.slot,
   slots |-> [s.slots EXCEPT ![top.slot] = @ \o w.loops],
   frontier |-> Front(s.frontier) \o [k \in DOMAIN fresh |->
                  [edge |-> sibling[w.used[fresh[k]]], slot |-> 1 - top.slot]]]

RECURSIVE Explore(_, _, _, _)
Explore(g, simple, sibling, s) ==
  IF s.frontier = << >> \/ s.error THEN s
  ELSE LET top == Last(s.frontier) IN
       Explore(g, simple, sibling,
         IF s.map[top.edge] <= 0 THEN [s EXCEPT !.frontier = Front(@)]
         ELSE Explored(s, sibling, top,
                LoopsFrom(g, simple, -1 - top.slot, s.map, top.edge)))

\* The slot with the lesser input id comes first.
InOrder(g, a, b) ==
  IF min_input_id(g, a[1][1]) > min_input_id(g, b[1][1]) THEN << b, a >> ELSE << a, b >>

AddComponent(g, s, c) ==
  [map |-> c.map, error |-> c.error,
   components |-> IF c.error THEN << >>
                  ELSE Append(s.components,
                         InOrder(g, CanonicalizeVectorOrder(g, c.slots[0]),
                                    CanonicalizeVectorOrder(g, c.slots[1])))]

ComponentsFrom(g, simple, turn, sibling) ==
  FoldLeft(LAMBDA s, start :
             IF s.map[start] <= 0 \/ s.error THEN s
             ELSE AddComponent(g, s,
                    Explore(g, simple, sibling,
                      [map |-> s.map, error |-> FALSE, slots |-> [slot \in {0, 1} |-> << >>],
                       frontier |-> << [edge |-> start, slot |-> 0] >>])),
           [map |-> turn.map, error |-> turn.error, components |-> << >>],
           Indices(g.edges))

SortedComponents(g, s) ==
  [error |-> s.error,
   components |-> IF s.error THEN << >>
                  ELSE SortSeq(s.components, LAMBDA x, y :
                         min_input_id(g, x[1][1][1]) < min_input_id(g, y[1][1][1]))]

GetUndirectedComponents(g, simple) ==
  SortedComponents(g,
    ComponentsFrom(g, simple, GetLeftTurnMap(g, GetInEdgeIds(g)), MakeSiblingMap(g)))

-----------------------------------------------------------------------------
(***************************************************************************)
(* S2Builder::Graph::GetPolylines (src/s2/s2builder_graph.cc): the edges   *)
(* of a graph as polylines.  A path has no branch inside; a walk is as     *)
(* long as possible and may come back to a vertex.                         *)
(***************************************************************************)

Directed(g) == g.options.edge_type = "DIRECTED"
EdgesOut(g, v) == SelectSeq(Indices(g.edges), LAMBDA e : g.edges[e][1] = v)
EdgesInto(g, v) == SelectSeq(GetInEdgeIds(g), LAMBDA e : g.edges[e][2] = v)

is_interior(g, v) ==
  IF Directed(g) THEN Len(EdgesInto(g, v)) = 1 /\ Len(EdgesOut(g, v)) = 1
  ELSE Len(EdgesOut(g, v)) = 2

excess_degree(g, v) ==
  IF Directed(g) THEN Len(EdgesOut(g, v)) - Len(EdgesInto(g, v)) ELSE Len(EdgesOut(g, v)) % 2

GetInputEdgeOrder(g) ==
  SortSeq(Indices(g.edges), LAMBDA x, y :
    LET i == min_input_id(g, x)
        j == min_input_id(g, y) IN i < j \/ (i = j /\ x < y))

\* The remainder of C, which has the sign of x.
Remainder2(x) == Sgn(x) * (AbsOf(x) % 2)

\* Mutant: the sibling of an edge can be used after it.
UsingOne(g, used, e) == used \cup {e}

\* An edge is used together with its sibling if there are no directions.
Using(g, used, e) == used \cup (IF Directed(g) THEN {e} ELSE {e, MakeSiblingMap(g)[e]})
EdgesLeft(g, used) == Cardinality(DOMAIN g.edges \ used) > 0

-----------------------------------------------------------------------------
(* Paths *)

RECURSIVE BuildPath(_, _, _, _)
BuildPath(g, used, polyline, e) ==
  LET line == Append(polyline, e)
      now == Using(g, used, e)
      v == g.edges[e][2]
      free == SelectSeq(EdgesOut(g, v), LAMBDA f : f \notin now) IN
  IF ~is_interior(g, v) \/ v = g.edges[line[1]][1] THEN [used |-> now, line |-> line]
  ELSE BuildPath(g, now, line, IF Directed(g) THEN EdgesOut(g, v)[1] ELSE Last(free))

AddPath(s, p) == [used |-> p.used, lines |-> Append(s.lines, p.line)]
AddCircle(g, s, p) == [used |-> p.used, lines |-> Append(s.lines, CanonicalizeLoopOrder(g, p.line))]

PathsFromEnds(g, order) ==
  FoldLeft(LAMBDA s, e : IF e \in s.used \/ is_interior(g, g.edges[e][1]) THEN s
                         ELSE AddPath(s, BuildPath(g, s.used, << >>, e)),
           [used |-> {}, lines |-> << >>], order)

CirclesLeft(g, order, s1) ==
  FoldLeft(LAMBDA s, e : IF e \in s.used THEN s
                         ELSE AddCircle(g, s, BuildPath(g, s.used, << >>, e)),
           s1, order)

\* BuildPaths: first the paths that start at a branch or an end, then the loops.
PathsInOrder(g, order) ==
  CanonicalizeVectorOrder(g, CirclesLeft(g, order, PathsFromEnds(g, order)).lines)

BuildPaths(g) == PathsInOrder(g, GetInputEdgeOrder(g))

-----------------------------------------------------------------------------
(* Walks *)

\* Mutant: a walk follows the first unused edge, whatever its input id.
RECURSIVE BuildWalkFirst(_, _, _, _, _)
BuildWalkFirst(g, excess_used, used, line, v) ==
  LET free == SelectSeq(EdgesOut(g, v), LAMBDA e : e \notin used) IN
  IF free = << >> THEN [used |-> used, line |-> line]
  ELSE BuildWalkFirst(g, excess_used, Using(g, used, free[1]), Append(line, free[1]),
                      g.edges[free[1]][2])

\* The edge with the least input id, the first of them.
Best(g, free) ==
  free[CHOOSE i \in DOMAIN free : \A j \in DOMAIN free :
         \/ min_input_id(g, free[i]) < min_input_id(g, free[j])
         \/ min_input_id(g, free[i]) = min_input_id(g, free[j]) /\ i <= j]

MayEnd(g, excess) == IF Directed(g) THEN excess < 0 ELSE Remainder2(excess) = 1

\* Whether the walk stops at v although it could go on along best.
StopsAt(g, excess_used, used, v, best) ==
  /\ MayEnd(g, excess_degree(g, v) - excess_used[v])
  /\ \E e \in ToSet(EdgesInto(g, v)) \ used : min_input_id(g, e) <= min_input_id(g, best)

\* BuildWalk: from v along the unused edge with the least input id, until there
\* is none, or until the walk may end here and an edge that comes first arrives.
RECURSIVE BuildWalk(_, _, _, _, _)
BuildWalk(g, excess_used, used, line, v) ==
  LET free == SelectSeq(EdgesOut(g, v), LAMBDA e : e \notin used) IN
  IF free = << >> \/ StopsAt(g, excess_used, used, v, Best(g, free))
  THEN [used |-> used, line |-> line]
  ELSE BuildWalk(g, excess_used, Using(g, used, Best(g, free)), Append(line, Best(g, free)),
                 g.edges[Best(g, free)][2])

\* Mutant: the walk is extended at its vertices but not at its start.
MaximizeWalkInside(g, excess_used, used, line) ==
  LET at == { i \in 1 .. Len(line) : \E e \in ToSet(EdgesOut(g, g.edges[line[i]][2])) : e \notin used }
      i == CHOOSE j \in at : \A k \in at : j <= k
      loop == BuildWalk(g, excess_used, used, << >>, g.edges[line[i]][2]) IN
  IF at = {} THEN [used |-> used, line |-> line]
  ELSE [used |-> loop.used, line |-> SubSeq(line, 1, i) \o loop.line \o SubSeq(line, i + 1, Len(line))]

PutIn(line, i, loop) == SubSeq(line, 1, i) \o loop \o SubSeq(line, i + 1, Len(line))

\* MaximizeWalk: at the i-th place of the walk, vertex v, a loop of unused edges
\* is put in.
MaximizeAt(g, excess_used, s, i, v) ==
  IF ToSet(EdgesOut(g, v)) \subseteq s.used THEN s
  ELSE LET loop == BuildWalk(g, excess_used, s.used, << >>, v) IN
       [used |-> loop.used, line |-> PutIn(s.line, i, loop.line)]

RECURSIVE MaximizeFrom(_, _, _, _)
MaximizeFrom(g, excess_used, s, i) ==
  IF i > Len(s.line) THEN s
  ELSE MaximizeFrom(g, excess_used,
         MaximizeAt(g, excess_used, s, i,
           IF i = 0 THEN g.edges[s.line[1]][1] ELSE g.edges[s.line[i]][2]), i + 1)

MaximizeWalk(g, excess_used, used, line) ==
  MaximizeFrom(g, excess_used, [used |-> used, line |-> line], 0)

AddWalk(g, s, begun, w) ==
  [used |-> w.used, lines |-> Append(s.lines, w.line),
   excess |-> [begun EXCEPT ![g.edges[Last(w.line)][2]] = @ - 1]]

\* Whether a walk has to begin at v.
BeginsAt(g, s, v) ==
  /\ excess_degree(g, v) > 0
  /\ IF Directed(g) THEN excess_degree(g, v) - s.excess[v] > 0
     ELSE Remainder2(excess_degree(g, v) - s.excess[v]) # 0

WalkFrom(g, s, v, begun) == AddWalk(g, s, begun, BuildWalk(g, begun, s.used, << >>, v))

WalksFromExcess(g, order) ==
  FoldLeft(LAMBDA s, e :
             IF e \in s.used \/ ~BeginsAt(g, s, g.edges[e][1]) THEN s
             ELSE WalkFrom(g, s, g.edges[e][1], [s.excess EXCEPT ![g.edges[e][1]] = @ + 1]),
           [used |-> {}, lines |-> << >>, excess |-> [v \in DOMAIN pt |-> 0]], order)

ExtendedLine(s, i, w) == [s EXCEPT !.used = w.used, !.lines[i] = w.line]

ExtendWalks(g, s1) ==
  IF ~EdgesLeft(g, s1.used) THEN s1
  ELSE FoldLeft(LAMBDA s, i : ExtendedLine(s, i, MaximizeWalk(g, s.excess, s.used, s.lines[i])),
                s1, Indices(s1.lines))

\* Of the edges left with the input id of e, more leave its vertex than arrive,
\* or e is degenerate.
LoopBegins(g, used, e, later) ==
  LET v == g.edges[e][1]
      same == { f \in later \ used : min_input_id(g, f) = min_input_id(g, e) } IN
  \/ g.edges[e][2] = v
  \/ Cardinality({ f \in same : g.edges[f][1] = v })
       - Cardinality({ f \in same : g.edges[f][2] = v }) = 1

MaximalWalk(g, s, b) == MaximizeWalk(g, s.excess, b.used, b.line)
AddLoop(s, w) == [s EXCEPT !.used = w.used, !.lines = Append(@, w.line)]

LoopsLeft(g, order, s2) ==
  FoldLeft(LAMBDA s, i :
             IF \/ order[i] \in s.used
                \/ ~LoopBegins(g, s.used, order[i], ToSet(SubSeq(order, i, Len(order)))) THEN s
             ELSE AddLoop(s, MaximalWalk(g, s,
                    BuildWalk(g, s.excess, s.used, << >>, g.edges[order[i]][1]))),
           s2, Indices(order))

\* BuildWalks: walks from the vertices with more edges out than in, made as long
\* as possible; what is left are loops.
WalksInOrder(g, order) ==
  CanonicalizeVectorOrder(g,
    LoopsLeft(g, order, ExtendWalks(g, WalksFromExcess(g, order))).lines)

BuildWalks(g) == WalksInOrder(g, GetInputEdgeOrder(g))
=============================================================================
