------------------------------- MODULE MCBuilder -------------------------------
(* S2Builder, from the edges a client gives it to the layers that are made of *)
(* them, each part in runs of its own: active says which.                     *)
(*   "input": up to two edges over two layers, with labels, before and after  *)
(*     the builder is used again;                                             *)
(*   "lexicons": two lexicons of each kind;                                   *)
(*   "snapping": up to three of nine edges, crossing, nearly parallel and     *)
(*     degenerate ones among them, at most one forced vertex, and a small, a  *)
(*     large and a small radius with split edges;                             *)
(*   "simplifying": up to three of seven chains, in two layers of any kind;   *)
(*   "layers": no edges, a triangle, two triangles with a common edge and     *)
(*     with a common vertex, and any two of five edges more, degenerate,      *)
(*     repeated and reversed ones among them, with every option;              *)
(*   "closed_set": a shell, its complement or nothing, with any two points,   *)
(*     edges and degeneracies inside, outside and on it.                      *)
EXTENDS S2BuilderInput, Lexicons, S2BuilderLayers, S2ClosedSet

CONSTANTS MaxSnapped, MaxChains,
          Parts                 \* the parts that run

VARIABLES active, snapped_edges,
          opt, sites, num_forced, edge_sites, needed, vertices, to_snap, to_resnap, phase,
          chains, begins, types, graph, interior, used, chains_out, pass, chain, vstart, simplify

(* Snapping and simplifying.                                                  *)

LOCAL Options(radius, min_vertex, min_edge, edge_radius, query, adjacent, split) ==
  [unit |-> 2, radius |-> radius, min_vertex |-> min_vertex, min_edge |-> min_edge,
   edge_radius |-> edge_radius, query |-> query, adjacent |-> adjacent,
   split_crossing_edges |-> split, idempotent |-> TRUE, check_all_site_crossings |-> FALSE]

P == INSTANCE S2BuilderSnapping WITH
  input_edges <- snapped_edges,
  AllOptions <-
    { Options(<<2, 1>>, <<44, 100>>, <<3, 10>>, <<2, 1>>, <<9, 2>>, <<9, 1>>, FALSE),
      Options(<<9, 1>>, <<5, 2>>, <<11, 25>>, <<9, 1>>, <<16, 1>>, <<37, 1>>, FALSE),
      Options(<<2, 1>>, <<44, 100>>, <<3, 10>>, <<9, 2>>, <<17, 2>>, <<19, 1>>, TRUE) },
  InputEdges <-
    { << <<0, 1>>, <<11, 0>> >>, << <<13, 3>>, <<0, 1>> >>, << <<0, 2>>, <<11, 1>> >>,
      << <<2, 5>>, <<9, 0>> >>, << <<3, 1>>, <<3, 1>> >>, << <<5, 2>>, <<5, 2>> >>,
      << <<6, 1>>, <<8, 4>> >>, << <<9, 3>>, <<9, 3>> >>, << <<4, 2>>, <<10, 2>> >> },
  MaxInputEdges <- MaxSnapped, ForcedVertices <- { <<5, 3>>, <<4, 2>> }

M == INSTANCE S2BuilderSimplifier WITH
  SnappedChains <- { <<1, 2, 3>>, <<3, 4, 1>>, <<2>>, <<3, 2, 1>>, <<2, 3>>, <<3, 5, 1>>, <<1, 2>> },
  EdgeTypes <- {"KEEP", "UNDIRECTED", "DISCARD"}, Forced <- {5}, out <- chains_out

(* Graphs, layers and closed sets.                                            *)

MCpt == << <<-3, -3, 6>>, <<4, -2, 7>>, <<0, 5, 6>>, <<0, -1, 9>>, <<1, 1, 9>>, <<-6, 2, 5>>,
           <<-7, 4, 5>> >>

\* The edges of the layers do not cross: they are out of a snapped graph.
MCStarts == { << >>,
              << <<4, 2>>, <<2, 3>>, <<3, 4>> >>,
              << <<4, 2>>, <<2, 3>>, <<3, 4>>, <<4, 3>>, <<3, 6>>, <<6, 4>> >>,
              << <<4, 1>>, <<1, 2>>, <<2, 4>>, <<4, 6>>, <<6, 3>>, <<3, 4>> >> }
MCExtraEdges == { <<4, 4>>, <<4, 2>>, <<2, 4>>, <<3, 2>>, <<6, 3>> }
MCAllOptions ==
  [edge_type : {"DIRECTED", "UNDIRECTED"},
   degenerate_edges : {"DISCARD", "DISCARD_EXCESS", "KEEP"},
   duplicate_edges : {"KEEP", "MERGE"},
   sibling_pairs : {"DISCARD", "DISCARD_EXCESS", "KEEP", "REQUIRE", "CREATE"}]

MCShells == { << >>, << <<1, 2>>, <<2, 3>>, <<3, 1>> >>, << <<2, 1>>, <<3, 2>>, <<1, 3>> >> }
MCLinePieces == { <<1, 2>>, <<2, 1>>, <<4, 5>>, <<4, 4>>, <<1, 6>> }
LOCAL Pair(v, w) == << <<v, w>>, <<w, v>> >>
MCPolygonPieces ==
  { Pair(4, 5), Pair(1, 4), Pair(1, 6), << <<4, 4>> >>, << <<6, 6>> >> }

-----------------------------------------------------------------------------
input_parts == <<input_vars, lexicon_vars>>
snapping_vars == <<opt, snapped_edges, sites, num_forced, edge_sites, needed, vertices, to_snap,
                   to_resnap, phase>>
simplifying_vars == <<chains, begins, types, graph, interior, used, chains_out, pass, chain,
                      vstart, simplify>>
all_vars == <<active, input_parts, snapping_vars, simplifying_vars, builder, closed_set>>

NoSnapping == /\ opt = 0 /\ snapped_edges = << >> /\ sites = << >> /\ num_forced = 0
              /\ edge_sites = << >> /\ needed = FALSE /\ vertices = {} /\ to_snap = {}
              /\ to_resnap = {} /\ phase = "none"
NoSimplifying == /\ chains = << >> /\ begins = << >> /\ types = << >> /\ graph = << >>
                 /\ interior = {} /\ used = {} /\ chains_out = << >> /\ pass = "none"
                 /\ chain = << >> /\ vstart = 0 /\ simplify = FALSE
NoLayers == input = << >> /\ extra = 0 /\ g = NoGraph /\ out = Nothing
NoSet == /\ sides = << << >>, << >>, << >> >> /\ pieces = 0 /\ is_full = FALSE
         /\ graphs = NoGraphs /\ normal = NoGraphs /\ lax = << >>

MCInit ==
  /\ active \in Parts /\ InputInit /\ LexiconInit
  /\ IF active = "snapping" THEN P!Init ELSE NoSnapping
  /\ IF active = "simplifying" THEN M!Init ELSE NoSimplifying
  /\ IF active = "layers" THEN LayersInit ELSE NoLayers
  /\ IF active = "closed_set" THEN SetInit ELSE NoSet

\* Edges given and snapped.
InputsNext ==
  /\ UNCHANGED <<builder, closed_set>>
  /\ \/ /\ active = "input" /\ InputNext
        /\ UNCHANGED <<lexicon_vars, snapping_vars, simplifying_vars>>
     \/ /\ active = "lexicons" /\ LexiconNext
        /\ UNCHANGED <<input_vars, snapping_vars, simplifying_vars>>
     \/ active = "snapping" /\ P!Next /\ UNCHANGED <<input_parts, simplifying_vars>>
     \/ active = "simplifying" /\ M!Next /\ UNCHANGED <<input_parts, snapping_vars>>

\* Layers made of them.
OutputsNext ==
  /\ UNCHANGED <<input_parts, snapping_vars, simplifying_vars>>
  /\ \/ active = "layers" /\ LayersNext /\ UNCHANGED closed_set
     \/ active = "closed_set" /\ SetNext /\ UNCHANGED builder

MCNext == UNCHANGED active /\ (InputsNext \/ OutputsNext)

MCSpec == MCInit /\ [][MCNext]_all_vars

\* What s2builder.h promises of snapped edges: sites keep their distances from
\* each other and from edges, each edge follows the sites it passes, no two
\* edges cross, and snapping the result again changes nothing.
SnappingExact == active = "snapping" => P!SnappingExact

\* Simplified chains stand for the input edges of the chains they replace, in
\* every layer and in their direction, and vertices disappear from all layers
\* alike (EdgeChainSimplifier).
SimplifierExact == active = "simplifying" => M!SimplifierExact
=============================================================================
