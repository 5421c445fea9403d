----------------------------- MODULE S2BuilderInput -----------------------------
(***************************************************************************)
(* What S2Builder (src/s2/s2builder.cc) records while a client adds edges: *)
(* the vertices and edges of all layers, the layer each belongs to and the *)
(* labels attached to it.  A builder may be used again after Build, which  *)
(* ends with Reset.  A label set id is the set it was made for: Lexicons   *)
(* shows that an id of IdSetLexicon stands for its set.  Once the lexicon  *)
(* is cleared, the ids of the empty set and of single labels still do, the *)
(* id of a larger set dangles: it reads beyond the end of the lexicon, or  *)
(* another set of several labels that was added since.                     *)
(***************************************************************************)
EXTENDS Integers, SequencesExt

CONSTANTS Points, Labels, MaxEdges, MaxBuilds, Discards

ASSUME LabelsAreNat == Labels \subseteq Nat
Dangling == {-1}               \* for a dangling id: no label is negative

VARIABLES input_vertices, input_edges,
          layer_begins, layer_options,
          label_set,           \* label_set_: a stack
          label_set_modified,
          label_set_id,        \* label_set_id_: the set it stands for
          label_set_ids,       \* label_set_ids_: empty as long as no label was used
          builds,
          given,               \* what the client gave since Reset, in order: edge, layer,
                               \* labels, and whether it had ever set or cleared labels
          labelled,            \* history: whether it has since Reset
          kept                 \* history: label_set_id_ as the last Reset left it

label_history == <<labelled, kept>>
input_vars == <<input_vertices, input_edges, layer_begins, layer_options, label_set,
                label_set_modified, label_set_id, label_set_ids, builds, given, label_history>>

InputInit ==
  /\ input_vertices = << >> /\ input_edges = << >>
  /\ layer_begins = << >> /\ layer_options = << >>
  /\ label_set = << >> /\ label_set_modified = FALSE
  /\ label_set_id = {} /\ label_set_ids = << >>
  /\ builds = 0 /\ given = << >>
  /\ labelled = FALSE /\ kept = {}

geometry == <<input_vertices, input_edges, layer_begins, layer_options>>

SetLabels(labels) ==
  /\ label_set' = labels /\ label_set_modified' = TRUE
  /\ labelled' = TRUE
  /\ UNCHANGED <<geometry, label_set_id, label_set_ids, builds, given, kept>>
push_label(l) == Len(label_set) < 2 /\ SetLabels(Append(label_set, l))
pop_label == label_set # << >> /\ SetLabels(Front(label_set))
set_label(l) == SetLabels(<< l >>)
clear_labels == SetLabels(<< >>)

StartLayer(discard) ==
  /\ layer_begins' = Append(layer_begins, Len(input_edges) + 1)
  /\ layer_options' = Append(layer_options, discard)
  /\ Len(layer_begins) < 2
  /\ UNCHANGED <<input_vertices, input_edges, label_set, label_set_modified, label_set_id,
                 label_set_ids, builds, given, label_history>>

\* Mutant: a vertex is the last one whatever it is.
AddVertexLast(points, v) == IF points = << >> THEN << v >> ELSE points
AddVertex(points, v) == IF points = << >> \/ Last(points) # v THEN Append(points, v) ELSE points

\* Mutant: edges before the first label get the first label.
LabelIdsAfterAll ==
  IF label_set_modified THEN [i \in 1 .. Len(input_edges) + 1 |-> ToSet(label_set)]
  ELSE IF label_set_ids # << >> THEN Append(label_set_ids, label_set_id) ELSE << >>
LabelIdsAfter ==
  LET before == IF label_set_ids = << >> THEN [i \in DOMAIN input_edges |-> label_set_id]
                ELSE label_set_ids IN
  IF label_set_modified THEN Append(before, ToSet(label_set))
  ELSE IF label_set_ids # << >> THEN Append(label_set_ids, label_set_id) ELSE << >>

AddEdge(v0, v1) ==
  /\ layer_begins # << >> /\ Len(given) < MaxEdges
  /\ IF v0 = v1 /\ Last(layer_options)
     THEN UNCHANGED <<input_vertices, input_edges, label_set_modified, label_set_id, label_set_ids,
                      given>>
     ELSE LET one == AddVertex(input_vertices, v0)
              two == AddVertex(one, v1) IN
          /\ input_vertices' = two
          /\ input_edges' = Append(input_edges, << Len(one), Len(two) >>)
          /\ label_set_ids' = LabelIdsAfter
          /\ label_set_id' = IF label_set_modified THEN ToSet(label_set) ELSE label_set_id
          /\ label_set_modified' = FALSE
          /\ given' = Append(given, [edge |-> << v0, v1 >>, layer |-> Len(layer_begins),
                                     labels |-> ToSet(label_set), labelled |-> labelled])
  /\ UNCHANGED <<layer_begins, layer_options, label_set, builds, label_history>>

\* What an id stands for once the lexicon is cleared.
AfterClear(id) == IF id = {} \/ \E l \in Labels : id = {l} THEN id ELSE Dangling

\* Build ends with Reset: the layers have taken the edges, the lexicon is
\* cleared, and label_set_id_ stays.
Build ==
  /\ builds < MaxBuilds /\ layer_begins # << >>
  /\ builds' = builds + 1
  /\ input_vertices' = << >> /\ input_edges' = << >>
  /\ layer_begins' = << >> /\ layer_options' = << >>
  /\ label_set' = << >> /\ label_set_modified' = FALSE /\ label_set_ids' = << >>
  /\ given' = << >> /\ labelled' = FALSE
  /\ label_set_id' = AfterClear(label_set_id) /\ kept' = label_set_id'

InputNext ==
  \/ \E l \in Labels : push_label(l) \/ set_label(l)
  \/ pop_label
  \/ clear_labels
  \/ \E d \in Discards : StartLayer(d)
  \/ \E v0, v1 \in Points : AddEdge(v0, v1)
  \/ Build

InputSpec == InputInit /\ [][InputNext]_input_vars

-----------------------------------------------------------------------------
LabelsOf(i) == IF label_set_ids = << >> THEN {} ELSE label_set_ids[i]
LayerOfEdge(i) == CHOOSE l \in DOMAIN layer_begins :
  layer_begins[l] <= i /\ (l < Len(layer_begins) => i < layer_begins[l + 1])

(* The edges recorded are the edges given, in their order and in the layers  *)
(* they were given to, though consecutive edges share vertices and layers    *)
(* are only known by where they begin.                                       *)
EdgesRecorded ==
  /\ Len(input_edges) = Len(given)
  /\ \A i \in DOMAIN given :
       /\ << input_vertices[input_edges[i][1]], input_vertices[input_edges[i][2]] >> = given[i].edge
       /\ LayerOfEdge(i) = given[i].layer

(* Every edge has the labels that were current when it was added.  The edges *)
(* before the first labels of a builder in use again have none, or, once     *)
(* there are labels, those of the id that the last Reset kept.               *)
LabelsKept ==
  \A i \in DOMAIN given :
    LabelsOf(i) = IF given[i].labelled \/ label_set_ids = << >> THEN given[i].labels ELSE kept

\* Whatever is added, labelled and built before, the builder holds the edges
\* given since then, in order, in their layers, with the labels that were
\* current for each, except that edges before the first labels may have those
\* of the label set id kept over Reset, which is empty in a new builder
\* (AddEdge, set_label, Reset).
InputRecorded ==
  /\ EdgesRecorded
  /\ LabelsKept

\* "Populate the missing entries with empty label sets." (s2builder.cc:420):
\* every edge has the labels that were current for it, those before the first
\* labels have none, also in a builder that Build has reset to be used again.
LabelsRecorded == \A i \in DOMAIN given : LabelsOf(i) = given[i].labels
=============================================================================
