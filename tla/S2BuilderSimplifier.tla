-------------------------- MODULE S2BuilderSimplifier --------------------------
(***************************************************************************)
(* S2Builder::SimplifyEdgeChains (src/s2/s2builder.cc): after snapping,    *)
(* the edges of all layers are merged into one graph, and chains of edges  *)
(* through vertices of degree two are replaced by single edges, in all     *)
(* layers and in both directions at once.                                  *)
(*                                                                         *)
(* Whether a chain may be made longer is geometry (AvoidSites,             *)
(* TargetInputVertices and S2PolylineSimplifier), and any answer is        *)
(* possible here.  Input edges are numbered over all layers; chains[i] is  *)
(* the chain of sites that input edge i was snapped to.                    *)
(***************************************************************************)
EXTENDS Integers, FiniteSets, SequencesExt

CONSTANTS SnappedChains,  \* what SnapEdge may return for an input edge
          MaxChains,      \* how many input edges there are
          EdgeTypes,      \* how the layers may treat edges: one type each
          Forced          \* the sites made by ForceVertex

VARIABLES chains,         \* one for each input edge
          begins,         \* layer_begins_: the first input edge of each layer
          types,          \* the options of the layers
          graph,          \* the merged edges: their ends, input edges and layer
          interior,       \* is_interior_
          used,           \* used_
          out,            \* new_edges_, new_input_edge_ids_, new_edge_layers_
          pass,           \* "input", which loop of Run, or "done"
          chain,          \* the vertices of the chain that is being simplified
          vstart,         \* where SimplifyChain started
          simplify        \* the first edge of the chain may be simplified

simplify_vars == <<chains, begins, types, graph, interior, used, out, pass, chain, vstart, simplify>>

-----------------------------------------------------------------------------
(* AddSnappedEdges and MergeLayerEdges *)

\* Mutant: an id that starts a layer belongs to the layer before.
LayerOfBefore(i) == Max({1} \cup { l \in DOMAIN begins : begins[l] < i })
LayerOf(i) == Max({ l \in DOMAIN begins : begins[l] <= i })       \* input_edge_layer

\* AddSnappedEdge: the sibling of an undirected edge stands for no input edge.
AddSnappedEdge(l, u, v, i) ==
  LET edge == [from |-> u, to |-> v, ids |-> {i}, layer |-> l] IN
  IF types[l] = "UNDIRECTED" THEN << edge, [edge EXCEPT !.from = v, !.to = u, !.ids = {}] >>
  ELSE << edge >>

AddSnappedEdges(l, i) ==
  LET c == chains[i] IN
  IF Len(c) = 1
  THEN IF types[l] = "DISCARD" THEN << >> ELSE AddSnappedEdge(l, c[1], c[1], i)
  ELSE FoldLeft(LAMBDA acc, k : acc \o AddSnappedEdge(l, c[k], c[k + 1], i), << >>,
                [k \in 1 .. Len(c) - 1 |-> k])

LayerEdges ==
  FoldLeft(LAMBDA acc, i : acc \o AddSnappedEdges(LayerOf(i), i), << >>, [i \in DOMAIN chains |-> i])

\* Input edges are in the order of their layers, and the sort is stable.
MergeLayerEdges(edges) ==
  LET n == Len(edges)
      order == SortSeq([i \in 1 .. n |-> i], LAMBDA i, j :
                 LET e == edges[i] f == edges[j] IN
                 \/ e.from < f.from
                 \/ e.from = f.from /\ e.to < f.to
                 \/ e.from = f.from /\ e.to = f.to /\ i < j) IN
  [k \in 1 .. n |-> edges[order[k]]]

-----------------------------------------------------------------------------
(* Which vertices may disappear *)

From(g, v) == { e \in DOMAIN g : g[e].from = v }
Into(g, v) == { e \in DOMAIN g : g[e].to = v }
EdgeIds(g, u, v) == SelectSeq([e \in DOMAIN g |-> e], LAMBDA e : g[e].from = u /\ g[e].to = v)
OfLayer(g, es, l) == { e \in es : g[e].layer = l }

\* InteriorVertexMatcher: v has two neighbours over all layers; in each layer
\* as many edges come as go, as many touch one neighbour as the other, and a
\* degenerate edge is not alone.
Matches(g, v) ==
  LET ends == { g[e].to : e \in From(g, v) } \cup { g[e].from : e \in Into(g, v) }
      near == ends \ {v}
      Touch(l, w) == Cardinality(OfLayer(g, From(g, v) \cap Into(g, w), l))
                     + Cardinality(OfLayer(g, Into(g, v) \cap From(g, w), l)) IN
  /\ Cardinality(near) = 2
  /\ \A l \in { g[e].layer : e \in From(g, v) \cup Into(g, v) } :
       /\ Cardinality(OfLayer(g, From(g, v), l)) = Cardinality(OfLayer(g, Into(g, v), l))
       /\ \A w, x \in near : Touch(l, w) = Touch(l, x)
       /\ OfLayer(g, From(g, v) \cap Into(g, v), l) # {} => \E w \in near : Touch(l, w) > 0

\* Mutant: a forced vertex may disappear.
IsInteriorForced(g, v) ==
  /\ From(g, v) # {}
  /\ Cardinality(From(g, v)) = Cardinality(Into(g, v))
  /\ Matches(g, v)
IsInterior(g, v) ==
  /\ From(g, v) # {}
  /\ Cardinality(From(g, v)) = Cardinality(Into(g, v))
  /\ v \notin Forced
  /\ Matches(g, v)

-----------------------------------------------------------------------------
(* Merging a chain *)

\* AssignDegenerateEdges: merged are the id sets of the new edges.  An id goes
\* to the last new edge that starts at or before it in its layer, or else to
\* the first that starts after it.
\* Mutant: always to the last that starts before it.
AssignDegenerateEdgesBack(merged, degenerate) ==
  LET With(acc, id) ==
        LET named == { j \in DOMAIN acc : acc[j].ids # {} }
            before == { j \in named : Min(merged[j].ids) <= id }
            Latest(js) == CHOOSE j \in js : \A k \in js : Min(merged[j].ids) >= Min(merged[k].ids)
            Soonest(js) == CHOOSE j \in js : \A k \in js : Min(merged[j].ids) <= Min(merged[k].ids)
            to == IF before # {} THEN Latest(before) ELSE Soonest(named) IN
        [acc EXCEPT ![to].ids = @ \cup {id}] IN
  FoldLeft(With, merged, SortSeq(SetToSeq(degenerate), <))
AssignDegenerateEdges(merged, degenerate) ==
  LET With(acc, id) ==
        LET named == { j \in DOMAIN acc : merged[j].ids # {} }
            before == { j \in named : Min(merged[j].ids) <= id }
            Latest(js) == CHOOSE j \in js : \A k \in js : Min(merged[j].ids) >= Min(merged[k].ids)
            Soonest(js) == CHOOSE j \in js : \A k \in js : Min(merged[j].ids) <= Min(merged[k].ids)
            to == IF before # {} /\ Min(merged[Latest(before)].ids) >= begins[LayerOf(id)]
                  THEN Latest(before) ELSE Soonest(named \ before) IN
        [acc EXCEPT ![to].ids = @ \cup {id}] IN
  FoldLeft(With, merged, SortSeq(SetToSeq(degenerate), <))

IdsOf(g, es) == UNION { g[e].ids : e \in es }

\* The j-th edges between each two vertices of the chain, in one direction,
\* become one edge, and so do those in the other direction.
\* Mutant: all in the direction of the chain.
MergeChainForward(g, c) ==
  LET n == Len(c)
      Way(i) == EdgeIds(g, c[i], c[i + 1])
      Back(i) == EdgeIds(g, c[i + 1], c[i])
      steps == 1 .. n - 1
      outs == [j \in DOMAIN Way(1) |->
                [from |-> c[1], to |-> c[n], layer |-> g[Way(1)[j]].layer,
                 ids |-> UNION { g[Way(i)[j]].ids : i \in steps }]]
      ins == [j \in DOMAIN Back(1) |->
                [from |-> c[1], to |-> c[n], layer |-> g[Back(1)[j]].layer,
                 ids |-> UNION { g[Back(i)[j]].ids : i \in steps }]]
      degenerate == IdsOf(g, UNION { ToSet(EdgeIds(g, c[i], c[i])) : i \in 2 .. n - 1 }) IN
  IF degenerate = {} THEN outs \o ins ELSE AssignDegenerateEdges(outs \o ins, degenerate)
MergeChain(g, c) ==
  LET n == Len(c)
      Way(i) == EdgeIds(g, c[i], c[i + 1])
      Back(i) == EdgeIds(g, c[i + 1], c[i])
      steps == 1 .. n - 1
      outs == [j \in DOMAIN Way(1) |->
                [from |-> c[1], to |-> c[n], layer |-> g[Way(1)[j]].layer,
                 ids |-> UNION { g[Way(i)[j]].ids : i \in steps }]]
      ins == [j \in DOMAIN Back(1) |->
                [from |-> c[n], to |-> c[1], layer |-> g[Back(1)[j]].layer,
                 ids |-> UNION { g[Back(i)[j]].ids : i \in steps }]]
      degenerate == IdsOf(g, UNION { ToSet(EdgeIds(g, c[i], c[i])) : i \in 2 .. n - 1 }) IN
  IF degenerate = {} THEN outs \o ins ELSE AssignDegenerateEdges(outs \o ins, degenerate)

UsedByChain(g, c) ==
  UNION { ToSet(EdgeIds(g, c[i], c[i + 1])) \cup ToSet(EdgeIds(g, c[i + 1], c[i])) :
            i \in 1 .. Len(c) - 1 }
  \cup UNION { ToSet(EdgeIds(g, c[i], c[i])) : i \in 2 .. Len(c) - 1 }

OutputAllEdges(g, u, v) ==
  [k \in 1 .. Len(EdgeIds(g, u, v) \o EdgeIds(g, v, u)) |->
     g[(EdgeIds(g, u, v) \o EdgeIds(g, v, u))[k]]]

\* The vertex after w in a chain that comes from u.
FollowChain(g, u, w) == g[Min({ e \in From(g, w) : g[e].to \notin {u, w} })].to

-----------------------------------------------------------------------------
Init ==
  /\ types \in [1 .. 2 -> EdgeTypes]
  /\ chains = << >> /\ begins = << 1 >>
  /\ graph = << >> /\ interior = {} /\ used = {} /\ out = << >>
  /\ pass = "input" /\ chain = << >> /\ vstart = 0 /\ simplify = FALSE

rest == <<types, graph, interior, used, out, chain, vstart, simplify>>

AddEdge(c) ==
  /\ pass = "input" /\ Len(chains) < MaxChains
  /\ chains' = Append(chains, c)
  /\ UNCHANGED <<begins, pass, rest>>

StartLayer ==
  /\ pass = "input" /\ Len(begins) = 1
  /\ begins' = Append(begins, Len(chains) + 1)
  /\ UNCHANGED <<chains, pass, rest>>

SimplifyEdgeChains ==
  /\ pass = "input" /\ Len(begins) = 2 /\ chains # << >>
  /\ LET g == MergeLayerEdges(LayerEdges) IN
     /\ graph' = g
     /\ interior' = { v \in UNION { ToSet(c) : c \in ToSet(chains) } : IsInterior(g, v) }
  /\ pass' = "open"
  /\ UNCHANGED <<chains, begins, types, used, out, chain, vstart, simplify>>

\* The edges that the loops of Run still take: chains with ends, then loops.
Pending ==
  { e \in (DOMAIN graph) \ used : pass = "open" => graph[e].from \notin interior }

Done(v) == v \notin interior \/ v = vstart
Idle == pass \in {"open", "loops"} /\ chain = << >>

\* OutputEdge: an edge that no chain takes up.
OutputEdge ==
  /\ Idle /\ Pending # {}
  /\ LET e == Min(Pending) IN
     /\ IF pass = "open" THEN graph[e].to \notin interior ELSE graph[e].from = graph[e].to
     /\ out' = Append(out, graph[e])
     /\ used' = used \cup {e}
  /\ UNCHANGED <<chains, begins, types, graph, interior, pass, chain, vstart, simplify>>

StartChain(may) ==
  /\ Idle /\ Pending # {}
  /\ LET e == Min(Pending) IN
     /\ IF pass = "open" THEN graph[e].to \in interior ELSE graph[e].from # graph[e].to
     /\ chain' = << graph[e].from, graph[e].to >>
     /\ vstart' = graph[e].from
     /\ simplify' = may
  /\ UNCHANGED <<chains, begins, types, graph, interior, used, out, pass>>

\* What is sure of AvoidSites: the distance from the first vertex of the chain
\* never decreases, so the chain does not come back to it.
MayGoTo(v) == v # chain[1]

\* The chain may be made longer by one edge.
Extend ==
  /\ chain # << >> /\ simplify /\ ~Done(Last(chain))
  /\ LET v == FollowChain(graph, chain[Len(chain) - 1], Last(chain)) IN
     MayGoTo(v) /\ chain' = Append(chain, v)
  /\ UNCHANGED <<chains, begins, types, graph, interior, used, out, pass, vstart, simplify>>

\* The chain ends here, or may not be made longer; then the next one starts.
EndChain(may) ==
  /\ chain # << >>
  /\ LET u == chain[Len(chain) - 1]
         w == Last(chain) IN
     /\ IF Len(chain) = 2
        THEN /\ out' = out \o OutputAllEdges(graph, chain[1], chain[2])
             /\ used' = used \cup ToSet(EdgeIds(graph, chain[1], chain[2]))
                             \cup ToSet(EdgeIds(graph, chain[2], chain[1]))
        ELSE /\ out' = out \o MergeChain(graph, chain)
             /\ used' = used \cup UsedByChain(graph, chain)
     /\ chain' = IF Done(w) THEN << >> ELSE << w, FollowChain(graph, u, w) >>
     /\ simplify' = (may /\ ~Done(w))
  /\ UNCHANGED <<chains, begins, types, graph, interior, pass, vstart>>

NextPass ==
  /\ Idle /\ Pending = {}
  /\ pass' = IF pass = "open" THEN "loops" ELSE "done"
  /\ UNCHANGED <<chains, begins, rest>>

Next ==
  \/ \E c \in SnappedChains : AddEdge(c)
  \/ StartLayer
  \/ SimplifyEdgeChains
  \/ OutputEdge
  \/ \E may \in BOOLEAN : StartChain(may) \/ EndChain(may)
  \/ Extend
  \/ NextPass

Spec == Init /\ [][Next]_simplify_vars

-----------------------------------------------------------------------------
OutOf(l) == { k \in DOMAIN out : out[k].layer = l }

(* No input edge is lost or changes its layer: the new edges of a layer      *)
(* stand for exactly the input edges that its snapped edges stood for.       *)
InputEdgesKept ==
  pass = "done" =>
    \A l \in DOMAIN begins :
      IdsOf(out, OutOf(l)) = IdsOf(graph, OfLayer(graph, DOMAIN graph, l))

(* In a layer of directed edges a new edge runs from where its input edges   *)
(* start to where they end: a path of their snapped edges leads there.       *)
NewEdgesFollowInput ==
  pass = "done" =>
    \A k \in DOMAIN out :
      types[out[k].layer] # "UNDIRECTED" =>
        LET mine == { e \in DOMAIN graph : graph[e].layer = out[k].layer
                                           /\ graph[e].ids \cap out[k].ids # {} }
            Step(vs) == vs \cup { graph[e].to : e \in { f \in mine : graph[f].from \in vs } }
            reached == Step(Step(Step(Step({out[k].from})))) IN
        out[k].from # out[k].to => out[k].to \in reached

(* A vertex disappears from all layers or from none, and one that stays, as  *)
(* forced ones do, has as many edges as before in each layer and direction:  *)
(* layers that share edges still share them.                                 *)
SimplifiedAlike ==
  pass = "done" =>
    LET all == UNION { ToSet(c) : c \in ToSet(chains) }
        kept == UNION { {out[k].from, out[k].to} : k \in DOMAIN out }
        Proper(g, es) == { e \in es : g[e].from # g[e].to } IN
    \A v \in kept \cup (Forced \cap all) : \A l \in DOMAIN begins :
      /\ Cardinality(Proper(out, OfLayer(out, From(out, v), l)))
         = Cardinality(Proper(graph, OfLayer(graph, From(graph, v), l)))
      /\ Cardinality(Proper(out, OfLayer(out, Into(out, v), l)))
         = Cardinality(Proper(graph, OfLayer(graph, Into(graph, v), l)))

\* Simplified chains stand for the input edges of the chains they replace, in
\* every layer and in their direction, and vertices disappear from all layers
\* alike (EdgeChainSimplifier).
SimplifierExact ==
  /\ InputEdgesKept
  /\ NewEdgesFollowInput
  /\ SimplifiedAlike
=============================================================================
