---------------------------- MODULE S2BuilderLayers ----------------------------
(***************************************************************************)
(* Building the output of one layer (src/s2/s2builder.cc,                  *)
(* src/s2/s2builder_graph.cc): edges are added, the layer's options are    *)
(* applied to them, and the graph is asked for loops or for polylines.     *)
(***************************************************************************)
EXTENDS S2BuilderGraph

CONSTANTS Starts,        \* sequences of edges to begin with
          ExtraEdges,    \* edges that may be added to them
          MaxExtra,      \* how many
          AllOptions     \* the options of layers

VARIABLES input,         \* the edges added so far: input_edges_
          extra,         \* how many were added one by one
          g,             \* the graph, or NoGraph
          out            \* what was asked of it, or Nothing

builder == <<input, extra, g, out>>

NoGraph == [edges |-> << >>, ids |-> << >>, error |-> FALSE, options |-> << >>]
Nothing == [kind |-> "none", error |-> FALSE, chains |-> << >>]

LayersInit == input \in Starts /\ extra = 0 /\ g = NoGraph /\ out = Nothing

AddInputEdge(e) ==
  /\ g = NoGraph /\ extra < MaxExtra
  /\ input' = Append(input, e) /\ extra' = extra + 1
  /\ UNCHANGED <<g, out>>

IdsOf(edges) == [i \in 1 .. Len(edges) |-> {i}]

GraphOf(o, edges) ==
  LET all == BothWays(edges, IdsOf(edges)) IN
  IF o.edge_type = "UNDIRECTED" THEN ProcessEdges(o, all.edges, all.ids)
  ELSE ProcessEdges(o, edges, IdsOf(edges))

\* S2Builder::BuildLayerEdges
BuildGraph(o) ==
  /\ g = NoGraph /\ input # << >>
  /\ g' = GraphOf(o, input)
  /\ UNCHANGED <<input, extra, out>>

\* What the methods that build loops require of the options.
ForLoops == g # NoGraph /\ out = Nothing /\ g.options.degenerate_edges # "KEEP"

DirectedLoops(simple) ==
  /\ ForLoops /\ g.options.edge_type = "DIRECTED"
  /\ LET r == GetDirectedLoops(g, simple) IN
     out' = [kind |-> IF simple THEN "loops" ELSE "circuits", error |-> r.error,
             chains |-> r.loops]
  /\ UNCHANGED <<input, extra, g>>

UndirectedLoops(simple) ==
  /\ ForLoops /\ g.options.edge_type = "UNDIRECTED"
  /\ LET r == GetUndirectedComponents(g, simple) IN
     out' = [kind |-> IF simple THEN "components" ELSE "circuit components",
             error |-> r.error, chains |-> r.components]
  /\ UNCHANGED <<input, extra, g>>

Polylines(walk) ==
  /\ g # NoGraph /\ out = Nothing
  /\ g.options.sibling_pairs \in {"DISCARD", "DISCARD_EXCESS", "KEEP"}
  /\ out' = [kind |-> IF walk THEN "walks" ELSE "paths", error |-> FALSE,
             chains |-> IF walk THEN BuildWalks(g) ELSE BuildPaths(g)]
  /\ UNCHANGED <<input, extra, g>>

LayersNext ==
  \/ \E e \in ExtraEdges : AddInputEdge(e)
  \/ \E o \in AllOptions : BuildGraph(o)
  \/ \E simple \in BOOLEAN : DirectedLoops(simple) \/ UndirectedLoops(simple)
  \/ \E walk \in BOOLEAN : Polylines(walk)

LayersSpec == LayersInit /\ [][LayersNext]_builder

-----------------------------------------------------------------------------
Count(edges, e) == Cardinality({ i \in DOMAIN edges : edges[i] = e })
Net(edges, e) == Count(edges, e) - Count(edges, Reversed(e))

(* The options change nothing that they do not name (GraphOptions in          *)
(* s2builder.h).  Unless copies are merged or siblings made up, how often the *)
(* directed edges run one way more than the other stays as it was; siblings  *)
(* that go are all gone; every edge of a graph with siblings has one; the ids *)
(* are ids of edges between the same vertices; and the options applied again  *)
(* change nothing more.                                                       *)
GraphFits ==
  LET o == g.options
      pairs == { e \in ToSet(g.edges) : e[1] # e[2] } IN
  g # NoGraph =>
    /\ o.edge_type = "DIRECTED" /\ o.duplicate_edges = "KEEP"
         /\ o.sibling_pairs \in {"KEEP", "DISCARD", "DISCARD_EXCESS"}
       => \A e \in pairs \cup ToSet(input) : Net(g.edges, e) = Net(input, e)
    /\ o.sibling_pairs = "DISCARD" /\ o.edge_type = "DIRECTED"
       => \A e \in pairs : Count(g.edges, Reversed(e)) = 0
    /\ o.sibling_pairs \in {"REQUIRE", "CREATE"} /\ ~g.error
       => \A e \in pairs : Net(g.edges, e) = 0
    /\ \A i \in DOMAIN g.edges : \A k \in g.ids[i] : input[k] \in {g.edges[i], Reversed(g.edges[i])}
    /\ ~g.error => ProcessEdges(o, g.edges, g.ids).edges = g.edges

\* The chains of the answer, components taken apart, and their passes through
\* vertices: the edge that arrives and the one that leaves.
Chains ==
  IF out.kind \in {"components", "circuit components"}
  THEN FlattenSeq([i \in DOMAIN out.chains |-> out.chains[i][1] \o out.chains[i][2]])
  ELSE out.chains

After(chain, i) == chain[(i % Len(chain)) + 1]
Passes(chain) == { << chain[i], After(chain, i) >> : i \in DOMAIN chain }

OnSide(loops, e) ==
  Cardinality({ f \in ToSet(FlattenSeq(loops)) : g.edges[f] = e })

(* Loops use every edge once, are closed, are simple when asked to be, and   *)
(* where two of their passes meet at a vertex with four different neighbours *)
(* they touch and do not cross ("Loops are non-crossing"); there are none    *)
(* only if some vertex has not as many edges out as in, or has an odd number *)
(* of undirected edges, or if an undirected edge is there twice.  Of a       *)
(* component's two sides one has the siblings of the other's edges.          *)
LoopsTileEdges ==
  LET chains == Chains
      all == UNION { Passes(chains[i]) : i \in DOMAIN chains }
      P(e) == pt[g.edges[e][1]]
      Q(e) == pt[g.edges[e][2]] IN
  out.kind \in {"loops", "circuits", "components", "circuit components"} =>
    IF out.error
    THEN \E v \in DOMAIN pt : IF out.kind \in {"loops", "circuits"}
                              THEN Len(EdgesOut(g, v)) # Len(EdgesInto(g, v))
                              ELSE \/ Len(EdgesOut(g, v)) % 2 = 1
                                   \/ \E w \in DOMAIN pt : Count(g.edges, << v, w >>) > 1
    ELSE /\ \A e \in DOMAIN g.edges :
              Cardinality({ << i, j >> \in (DOMAIN chains) \X (DOMAIN g.edges) :
                              j <= Len(chains[i]) /\ chains[i][j] = e }) = 1
         /\ \A p \in all : g.edges[p[1]][2] = g.edges[p[2]][1]
         /\ out.kind \in {"components", "circuit components"} =>
              \A i \in DOMAIN out.chains : \A v, w \in DOMAIN pt :
                OnSide(out.chains[i][1], << v, w >>) = OnSide(out.chains[i][2], << w, v >>)
         /\ out.kind \in {"loops", "components"} =>
              \A i \in DOMAIN chains :
                Cardinality({ g.edges[e][1] : e \in ToSet(chains[i]) }) = Len(chains[i])
         /\ \A p, q \in all :
              LET four == {P(p[1]), Q(p[2]), P(q[1]), Q(q[2])} IN
              g.edges[p[1]][2] = g.edges[q[1]][2] /\ Cardinality(four) = 4
                /\ Q(p[1]) \notin four
              => OrderedCCW(P(p[1]), P(q[1]), Q(p[2]), Q(p[1]))
                   = OrderedCCW(P(p[1]), Q(q[2]), Q(p[2]), Q(p[1]))

\* The vertices of a polyline.
VerticesOf(line) == << g.edges[line[1]][1] >> \o [i \in DOMAIN line |-> g.edges[line[i]][2]]

(* Polylines use every edge once, or one of every pair if there are no       *)
(* directions, and go from each edge to one that starts where it ends; a     *)
(* path passes only through vertices with nothing else.                      *)
PolylinesTileEdges ==
  LET uses(e) == { << i, j >> \in (DOMAIN out.chains) \X (DOMAIN g.edges) :
                     j <= Len(out.chains[i]) /\ out.chains[i][j] = e } IN
  out.kind \in {"paths", "walks"} =>
    /\ \A e \in DOMAIN g.edges :
         Cardinality(uses(e)) + (IF Directed(g) THEN 0
                                 ELSE Cardinality(uses(MakeSiblingMap(g)[e]))) = 1
    /\ \A i \in DOMAIN out.chains : \A j \in 1 .. Len(out.chains[i]) - 1 :
         LET v == g.edges[out.chains[i][j]][2] IN
         /\ v = g.edges[out.chains[i][j + 1]][1]
         /\ out.kind = "paths" => is_interior(g, v)

(* Walks are as few as possible: two of them could not be joined.            *)
WalksMaximal ==
  out.kind = "walks" =>
    \A i, j \in DOMAIN out.chains :
      LET a == VerticesOf(out.chains[i])
          b == VerticesOf(out.chains[j]) IN
      i # j => /\ Last(a) # b[1]
               /\ b[1] = Last(b) => b[1] \notin ToSet(a)

(* An input that is one walk comes out as that walk, whatever vertices and   *)
(* edges it repeats (s2builder_graph.h: the input order is preserved "in      *)
(* order to implement idempotency, even when there are repeated edges or     *)
(* loops").  Walks with degenerate edges are left out: BuildWalk stops before *)
(* one at a vertex that it passed already, and MaximizeWalk then puts it in  *)
(* at the first visit.                                                       *)
WalkComesBack ==
  LET o == g.options IN
  /\ out.kind = "walks" /\ o.degenerate_edges = "KEEP"
  /\ o.duplicate_edges = "KEEP" /\ o.sibling_pairs = "KEEP"
  /\ \A i \in DOMAIN input : input[i][1] # input[i][2]
  /\ \A i \in 1 .. Len(input) - 1 : input[i][2] = input[i + 1][1]
  => /\ Len(out.chains) = 1
     /\ VerticesOf(out.chains[1])
          = << input[1][1] >> \o [i \in DOMAIN input |-> input[i][2]]

\* Loops, paths and walks taken from a graph use every edge once; loops do not
\* cross themselves or each other, and walks are as few as they can be and
\* come back as they went in (GetDirectedLoops, GetUndirectedComponents,
\* GetPolylines).
ChainsTile ==
  /\ LoopsTileEdges
  /\ PolylinesTileEdges
  /\ WalksMaximal
  /\ WalkComesBack
=============================================================================
