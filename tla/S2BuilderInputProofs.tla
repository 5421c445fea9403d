------------------------ MODULE S2BuilderInputProofs ------------------------
(***************************************************************************)
(* Proofs about what S2Builder records, for any points, labels, number of  *)
(* layers, edges and uses of the builder, and about the lexicons that give *)
(* ids to its label sets, for any numbers of values and sets.              *)
(***************************************************************************)
EXTENDS S2BuilderInput, Lexicons, FiniteSetTheorems, TLAPS

\* What a client gives: an edge, its layer and the labels current for it.
GivenEdges == [edge : Points \X Points, layer : Nat, labels : SUBSET Labels,
               labelled : BOOLEAN]

\* What a label set id stands for.
LabelSets == (SUBSET Labels) \cup {Dangling}

\* The types of what is recorded.
InputTypes ==
  /\ input_vertices \in Seq(Points)
  /\ input_edges \in Seq(Nat \X Nat)
  /\ layer_begins \in Seq(Nat)
  /\ label_set_modified \in BOOLEAN
  /\ label_set_ids \in Seq(LabelSets)
  /\ label_set_id \in LabelSets
  /\ kept \in LabelSets
  /\ labelled \in BOOLEAN
  /\ label_set \in Seq(Labels)
  /\ given \in Seq(GivenEdges)
  /\ builds \in Nat

\* An edge is recorded as the numbers of its two vertices.
VerticesInv ==
  /\ Len(input_edges) = Len(given)
  /\ \A i \in DOMAIN given :
       /\ input_edges[i][1] \in DOMAIN input_vertices
       /\ input_edges[i][2] \in DOMAIN input_vertices
       /\ input_vertices[input_edges[i][1]] = given[i].edge[1]
       /\ input_vertices[input_edges[i][2]] = given[i].edge[2]

\* A layer has the edges from its begin to the begin of the next one.
HasEdge(l, i) ==
  /\ l \in DOMAIN layer_begins
  /\ layer_begins[l] <= i /\ (l < Len(layer_begins) => i < layer_begins[l + 1])

LayersInv ==
  /\ \A l \in DOMAIN layer_begins : layer_begins[l] <= Len(given) + 1
  /\ \A l, m \in DOMAIN layer_begins : l <= m => layer_begins[l] <= layer_begins[m]
  /\ \A i \in DOMAIN given : HasEdge(given[i].layer, i)

\* The set that an edge is recorded with: its labels, or what Reset kept.
RecordedFor(g) == IF g.labelled THEN g.labels ELSE kept

\* Labels were set since Reset if they are modified or were recorded.  Until
\* then the id is the one that Reset kept and no edge has labels; from then on
\* it is that of the labels unless those were modified since.
LabelsInv ==
  /\ labelled <=> label_set_modified \/ label_set_ids # << >>
  /\ ~labelled => ToSet(label_set) = {}
  /\ label_set_ids = << >> => /\ label_set_id = kept
                              /\ \A i \in DOMAIN given : /\ ~given[i].labelled
                                                         /\ given[i].labels = {}
  /\ label_set_ids # << >> =>
       /\ ~label_set_modified => label_set_id = ToSet(label_set)
       /\ Len(label_set_ids) = Len(given)
       /\ \A i \in DOMAIN given : label_set_ids[i] = RecordedFor(given[i])

\* The inductive invariant.
RecordInv == InputTypes /\ VerticesInv /\ LayersInv /\ LabelsInv

\* The labels in a label set.
LEMMA ToSetType ==
  ASSUME NEW S, NEW s \in Seq(S)
  PROVE  ToSet(s) \in SUBSET S
  BY DEF ToSet

\* A vertex given again is not recorded again: the last vertex is v after
\* AddVertex, and the vertices before stay where they are.
LEMMA AddVertexAppends ==
  ASSUME NEW points \in Seq(Points), NEW v \in Points
  PROVE  /\ AddVertex(points, v) \in Seq(Points)
         /\ Len(AddVertex(points, v)) \in DOMAIN AddVertex(points, v)
         /\ AddVertex(points, v)[Len(AddVertex(points, v))] = v
         /\ \A i \in DOMAIN points : /\ i \in DOMAIN AddVertex(points, v)
                                     /\ AddVertex(points, v)[i] = points[i]
  <1>1. CASE points = << >> \/ Last(points) # v
    BY <1>1 DEF AddVertex
  <1>2. CASE points # << >> /\ Last(points) = v
    BY <1>2 DEF AddVertex, Last
  <1> QED
    BY <1>1, <1>2

\* The begins of the layers are in order, so an edge is in one layer only.
LEMMA LayerUnique ==
  ASSUME InputTypes, LayersInv, NEW i \in DOMAIN given
  PROVE  LayerOfEdge(i) = given[i].layer
  <1>1. /\ DOMAIN layer_begins = 1 .. Len(layer_begins)
        /\ Len(layer_begins) \in Nat
        /\ \A l \in DOMAIN layer_begins : layer_begins[l] \in Nat
        /\ i \in Nat
    BY DEF InputTypes
  <1>2. HasEdge(given[i].layer, i)
    BY DEF LayersInv
  <1>3. ASSUME NEW l \in DOMAIN layer_begins, NEW m \in DOMAIN layer_begins,
               HasEdge(l, i), HasEdge(m, i), l < m
        PROVE  FALSE
    <2>1. l + 1 \in DOMAIN layer_begins /\ l + 1 <= m
      BY <1>1, <1>3
    <2>2. layer_begins[l + 1] <= layer_begins[m]
      BY <1>3, <2>1 DEF LayersInv
    <2>3. layer_begins[m] <= i /\ i < layer_begins[l + 1]
      BY <1>1, <1>3, <2>1 DEF HasEdge
    <2> QED
      BY <1>1, <2>1, <2>2, <2>3
  <1>4. \A l \in DOMAIN layer_begins : HasEdge(l, i) => l = given[i].layer
    <2>1. given[i].layer \in DOMAIN layer_begins
      BY <1>2 DEF HasEdge
    <2>2. \A l, m \in DOMAIN layer_begins : l = m \/ l < m \/ m < l
      BY <1>1
    <2> QED
      BY <1>2, <1>3, <2>1, <2>2
  <1> QED
    BY <1>2, <1>4 DEF LayerOfEdge, HasEdge

\* The invariant gives what the run checks.
LEMMA RecordInvImplies == RecordInv => InputRecorded
  <1> SUFFICES ASSUME RecordInv PROVE InputRecorded
    OBVIOUS
  <1>1. EdgesRecorded
    <2>1. \A i \in DOMAIN given : LayerOfEdge(i) = given[i].layer
      BY LayerUnique DEF RecordInv
    <2>2. ASSUME NEW i \in DOMAIN given
          PROVE  given[i].edge = << given[i].edge[1], given[i].edge[2] >>
      <3>1. given[i] \in GivenEdges
        BY DEF RecordInv, InputTypes
      <3> QED
        BY <3>1 DEF GivenEdges
    <2> QED
      BY <2>1, <2>2 DEF RecordInv, VerticesInv, EdgesRecorded
  <1>2. LabelsKept
    BY DEF RecordInv, LabelsInv, LabelsKept, LabelsOf, RecordedFor
  <1> QED
    BY <1>1, <1>2 DEF InputRecorded

\* An empty builder.
LEMMA InputInitRecord == InputInit => RecordInv
  <1> SUFFICES ASSUME InputInit PROVE RecordInv
    OBVIOUS
  <1>1. InputTypes
    <2>1. label_set_modified \in BOOLEAN /\ labelled \in BOOLEAN
      BY Zenon DEF InputInit
    <2> QED
      BY <2>1 DEF InputInit, InputTypes, LabelSets
  <1>2. VerticesInv /\ LayersInv
    BY DEF InputInit, VerticesInv, LayersInv
  <1>3. LabelsInv
    BY DEF InputInit, LabelsInv, ToSet
  <1> QED
    BY <1>1, <1>2, <1>3 DEF RecordInv

\* push_label, pop_label, set_label and clear_labels: what is recorded stays,
\* only label_set_ changes and is marked as modified.
LEMMA SetLabelsRecord ==
  ASSUME RecordInv, NEW labels \in Seq(Labels), SetLabels(labels)
  PROVE  RecordInv'
  <1> USE DEF RecordInv, SetLabels, geometry
  <1>1. InputTypes'
    <2>1. label_set_modified' \in BOOLEAN /\ labelled' \in BOOLEAN
      BY Zenon
    <2> QED
      BY <2>1 DEF InputTypes
  <1>2. VerticesInv'
    BY DEF VerticesInv
  <1>3. LayersInv'
    BY DEF LayersInv, HasEdge
  <1>4. LabelsInv'
    BY DEF LabelsInv, RecordedFor
  <1> QED
    BY <1>1, <1>2, <1>3, <1>4

\* StartLayer: the new layer begins after all edges, which stay in their own.
LEMMA StartLayerRecord ==
  ASSUME RecordInv, NEW discard, StartLayer(discard)
  PROVE  RecordInv'
  <1> USE DEF RecordInv, StartLayer, label_history
  <1>1. InputTypes'
    BY DEF InputTypes
  <1>2. VerticesInv'
    BY DEF VerticesInv
  <1>3. LabelsInv'
    BY DEF LabelsInv, RecordedFor
  <1>4. LayersInv'
    <2>1. /\ layer_begins \in Seq(Nat)
          /\ Len(given) \in Nat
          /\ DOMAIN given = 1 .. Len(given)
          /\ layer_begins' = Append(layer_begins, Len(given) + 1)
      BY DEF InputTypes, VerticesInv
    <2>2. \A l \in DOMAIN layer_begins' : layer_begins'[l] <= Len(given) + 1
      BY <2>1 DEF LayersInv
    <2>3. \A l, m \in DOMAIN layer_begins' : l <= m => layer_begins'[l] <= layer_begins'[m]
      BY <2>1 DEF LayersInv
    <2>4. ASSUME NEW i \in DOMAIN given
          PROVE  HasEdge(given[i].layer, i)'
      <3> DEFINE l == given[i].layer
      <3>1. HasEdge(l, i)
        BY DEF LayersInv
      <3>2. l \in DOMAIN layer_begins /\ l \in 1 .. Len(layer_begins)
        BY <2>1, <3>1 DEF HasEdge
      <3>3. i < Len(given) + 1
        BY <2>1
      <3>4. layer_begins'[l] = layer_begins[l] /\ l \in DOMAIN layer_begins'
        BY <2>1, <3>2
      <3>5. l < Len(layer_begins') => i < layer_begins'[l + 1]
        BY <2>1, <3>1, <3>2, <3>3 DEF HasEdge
      <3> QED
        BY <3>1, <3>4, <3>5 DEF HasEdge
    <2> QED
      BY <2>2, <2>3, <2>4 DEF LayersInv
  <1> QED
    BY <1>1, <1>2, <1>3, <1>4

\* Build ends with Reset: nothing is recorded and nothing was given.
LEMMA BuildRecord ==
  ASSUME RecordInv, Build
  PROVE  RecordInv'
  <1> USE DEF RecordInv, Build
  <1>1. InputTypes'
    <2>1. label_set_modified' \in BOOLEAN /\ labelled' \in BOOLEAN
      BY Zenon
    <2>2. AfterClear(label_set_id) \in LabelSets
      BY DEF AfterClear, InputTypes, LabelSets
    <2> QED
      BY <2>1, <2>2 DEF InputTypes
  <1>2. VerticesInv' /\ LayersInv'
    BY DEF VerticesInv, LayersInv
  <1>3. LabelsInv'
    BY DEF LabelsInv, InputTypes, ToSet
  <1> QED
    BY <1>1, <1>2, <1>3

\* The ids recorded next are the given ones and the one of the current labels.
LabelIdsAppended(ids) == LabelIdsAfter = Append(ids, ToSet(label_set))

\* Appending to ids that stand for the labels given so far.
LEMMA AppendedLabels ==
  ASSUME NEW ids \in Seq(LabelSets), LabelIdsAppended(ids),
         DOMAIN given = 1 .. Len(given), Len(given) \in Nat, Len(ids) = Len(given),
         \A i \in DOMAIN given : ids[i] = RecordedFor(given[i]),
         ToSet(label_set) \in LabelSets
  PROVE  /\ LabelIdsAfter # << >>
         /\ Len(LabelIdsAfter) = Len(given) + 1
         /\ LabelIdsAfter[Len(given) + 1] = ToSet(label_set)
         /\ \A i \in DOMAIN given : LabelIdsAfter[i] = RecordedFor(given[i])
  <1>1. LabelIdsAfter = Append(ids, ToSet(label_set))
    BY DEF LabelIdsAppended
  <1>2. /\ Len(Append(ids, ToSet(label_set))) = Len(ids) + 1
        /\ Append(ids, ToSet(label_set))[Len(ids) + 1] = ToSet(label_set)
        /\ \A i \in 1 .. Len(ids) : Append(ids, ToSet(label_set))[i] = ids[i]
        /\ Append(ids, ToSet(label_set)) # << >>
    OBVIOUS
  <1> QED
    BY <1>1, <1>2

\* The label set ids once another edge is recorded: they stand for the labels
\* of the edges before, and for the current labels.
LEMMA LabelIdsRecord ==
  ASSUME InputTypes, VerticesInv, LabelsInv
  PROVE  /\ ~labelled => LabelIdsAfter = << >>
         /\ labelled =>
              /\ LabelIdsAfter # << >>
              /\ Len(LabelIdsAfter) = Len(given) + 1
              /\ LabelIdsAfter[Len(given) + 1] = ToSet(label_set)
              /\ \A i \in DOMAIN given : LabelIdsAfter[i] = RecordedFor(given[i])
  <1> DEFINE unlabelled == [i \in DOMAIN input_edges |-> label_set_id]
  <1> USE DEF InputTypes
  <1>1. /\ DOMAIN input_edges = 1 .. Len(given) /\ DOMAIN given = 1 .. Len(given)
        /\ Len(given) \in Nat
    BY DEF VerticesInv
  <1>2. /\ unlabelled \in Seq(LabelSets) /\ Len(unlabelled) = Len(given)
        /\ \A i \in DOMAIN given : unlabelled[i] = label_set_id
    BY <1>1
  <1>3. ToSet(label_set) \in LabelSets
    BY ToSetType DEF LabelSets
  <1>4. CASE label_set_modified /\ label_set_ids = << >>
    <2>1. LabelIdsAfter = Append(unlabelled, ToSet(label_set))
      BY <1>4 DEF LabelIdsAfter
    <2>2. \A i \in DOMAIN given : RecordedFor(given[i]) = label_set_id
      BY <1>4 DEF LabelsInv, RecordedFor
    <2>3. LabelIdsAppended(unlabelled)
      BY <2>1 DEF LabelIdsAppended
    <2>4. \A i \in DOMAIN given : unlabelled[i] = RecordedFor(given[i])
      BY <1>2, <2>2
    <2>5. labelled
      BY <1>4 DEF LabelsInv
    <2> HIDE DEF unlabelled
    <2> QED
      BY <1>1, <1>2, <1>3, <2>3, <2>4, <2>5, AppendedLabels
  <1>5. CASE label_set_ids # << >>
    <2>1. LabelIdsAfter = Append(label_set_ids, ToSet(label_set))
      <3>1. CASE label_set_modified
        BY <1>5, <3>1 DEF LabelIdsAfter
      <3>2. CASE ~label_set_modified
        BY <1>5, <3>2 DEF LabelIdsAfter, LabelsInv
      <3> QED
        BY <3>1, <3>2
    <2>2. LabelIdsAppended(label_set_ids)
      BY <2>1 DEF LabelIdsAppended
    <2>3. /\ label_set_ids \in Seq(LabelSets) /\ Len(label_set_ids) = Len(given)
          /\ \A i \in DOMAIN given : label_set_ids[i] = RecordedFor(given[i])
      BY <1>5 DEF LabelsInv
    <2>4. labelled
      BY <1>5 DEF LabelsInv
    <2> QED
      BY <1>1, <1>3, <2>2, <2>3, <2>4, AppendedLabels
  <1>6. CASE ~label_set_modified /\ label_set_ids = << >>
    BY <1>6 DEF LabelIdsAfter, LabelsInv
  <1> QED
    BY <1>4, <1>5, <1>6

\* AddEdge: the vertices are shared with the edge before where they are equal,
\* the edge joins the last layer and gets the current labels.
LEMMA AddEdgeRecord ==
  ASSUME RecordInv, NEW v0 \in Points, NEW v1 \in Points, AddEdge(v0, v1)
  PROVE  RecordInv'
  <1> DEFINE one == AddVertex(input_vertices, v0)
             two == AddVertex(one, v1)
             edge == << Len(one), Len(two) >>
             entry == [edge |-> << v0, v1 >>, layer |-> Len(layer_begins),
                       labels |-> ToSet(label_set), labelled |-> labelled]
  <1>1. CASE v0 = v1 /\ Last(layer_options)
    <2>1. /\ UNCHANGED <<input_vertices, input_edges, label_set_modified, label_set_id,
                         label_set_ids, given, layer_begins, layer_options, label_set, builds,
                         labelled, kept>>
      BY <1>1 DEF AddEdge, label_history
    <2> QED
      BY <2>1 DEF RecordInv, InputTypes, VerticesInv, LayersInv, HasEdge, LabelsInv, RecordedFor
  <1>2. CASE ~(v0 = v1 /\ Last(layer_options))
    <2>1. /\ layer_begins # << >>
          /\ input_vertices' = two
          /\ input_edges' = Append(input_edges, edge)
          /\ label_set_ids' = LabelIdsAfter
          /\ label_set_id' = IF label_set_modified THEN ToSet(label_set) ELSE label_set_id
          /\ label_set_modified' = FALSE
          /\ given' = Append(given, entry)
          /\ UNCHANGED <<layer_begins, layer_options, label_set, builds, labelled, kept>>
      BY <1>2 DEF AddEdge, label_history
    <2>2. /\ one \in Seq(Points) /\ Len(one) \in DOMAIN one /\ one[Len(one)] = v0
          /\ \A i \in DOMAIN input_vertices : i \in DOMAIN one /\ one[i] = input_vertices[i]
      BY AddVertexAppends DEF RecordInv, InputTypes
    <2>3. /\ two \in Seq(Points) /\ Len(two) \in DOMAIN two /\ two[Len(two)] = v1
          /\ \A i \in DOMAIN one : i \in DOMAIN two /\ two[i] = one[i]
      BY <2>2, AddVertexAppends
    <2>4. edge \in Nat \X Nat
      BY <2>2, <2>3
    <2>5. ToSet(label_set) \in SUBSET Labels
      BY ToSetType DEF RecordInv, InputTypes
    <2>6. entry \in GivenEdges
      <3>1. /\ << v0, v1 >> \in Points \X Points /\ Len(layer_begins) \in Nat
            /\ labelled \in BOOLEAN
        BY DEF RecordInv, InputTypes
      <3> QED
        BY <2>5, <3>1 DEF GivenEdges
    <2>7. edge[1] = Len(one) /\ edge[2] = Len(two) /\ entry.edge[1] = v0 /\ entry.edge[2] = v1
          /\ entry.layer = Len(layer_begins) /\ entry.labels = ToSet(label_set)
          /\ entry.labelled = labelled
      OBVIOUS
    <2> HIDE DEF one, two, edge, entry
    <2>8. /\ Len(given) \in Nat /\ DOMAIN given = 1 .. Len(given)
          /\ Len(input_edges) = Len(given) /\ DOMAIN input_edges = 1 .. Len(given)
          /\ DOMAIN given' = 1 .. Len(given) + 1 /\ Len(given') = Len(given) + 1
          /\ \A i \in 1 .. Len(given) : given'[i] = given[i]
          /\ given'[Len(given) + 1] = entry
          /\ Len(input_edges') = Len(given) + 1
          /\ \A i \in 1 .. Len(given) : input_edges'[i] = input_edges[i]
          /\ input_edges'[Len(given) + 1] = edge
      BY <2>1, <2>4, <2>6 DEF RecordInv, InputTypes, VerticesInv
    <2>9. InputTypes'
      <3>1. label_set_modified' \in BOOLEAN
        BY <2>1, Zenon
      <3>2. label_set_ids' \in Seq(LabelSets)
        <4> DEFINE unlabelled == [i \in DOMAIN input_edges |-> label_set_id]
        <4>1. unlabelled \in Seq(LabelSets)
          BY <2>8 DEF RecordInv, InputTypes
        <4>2. /\ label_set_id \in LabelSets /\ label_set_ids \in Seq(LabelSets)
              /\ ToSet(label_set) \in LabelSets
          BY <2>5 DEF RecordInv, InputTypes, LabelSets
        <4>3. \A ids \in Seq(LabelSets), set \in LabelSets : Append(ids, set) \in Seq(LabelSets)
          OBVIOUS
        <4>4. << >> \in Seq(LabelSets)
          OBVIOUS
        <4> HIDE DEF unlabelled
        <4>5. LabelIdsAfter \in { Append(unlabelled, ToSet(label_set)), << >>,
                                  Append(label_set_ids, ToSet(label_set)),
                                  Append(label_set_ids, label_set_id) }
          BY Zenon DEF LabelIdsAfter, unlabelled
        <4> QED
          BY <2>1, <4>1, <4>2, <4>3, <4>4, <4>5
      <3>3. label_set_id' \in LabelSets
        BY <2>1, <2>5 DEF RecordInv, InputTypes, LabelSets
      <3>4. labelled' \in BOOLEAN
        BY <2>1, Zenon DEF RecordInv, InputTypes
      <3> QED
        BY <2>1, <2>3, <2>4, <2>6, <3>1, <3>2, <3>3, <3>4 DEF RecordInv, InputTypes
    <2>10. VerticesInv'
      <3>1. ASSUME NEW i \in 1 .. Len(given)
            PROVE  /\ input_edges'[i][1] \in DOMAIN two
                   /\ input_edges'[i][2] \in DOMAIN two
                   /\ two[input_edges'[i][1]] = given'[i].edge[1]
                   /\ two[input_edges'[i][2]] = given'[i].edge[2]
        BY <2>2, <2>3, <2>8 DEF RecordInv, VerticesInv
      <3>2. /\ edge[1] \in DOMAIN two /\ edge[2] \in DOMAIN two
            /\ two[edge[1]] = entry.edge[1] /\ two[edge[2]] = entry.edge[2]
        BY <2>2, <2>3, <2>7
      <3>3. \A i \in 1 .. Len(given) + 1 : i \in 1 .. Len(given) \/ i = Len(given) + 1
        BY <2>8
      <3> QED
        BY <2>1, <2>8, <3>1, <3>2, <3>3 DEF VerticesInv
    <2>11. LayersInv'
      <3>1. /\ layer_begins' = layer_begins /\ Len(layer_begins) \in Nat
            /\ Len(layer_begins) \in DOMAIN layer_begins
            /\ \A l \in DOMAIN layer_begins : layer_begins[l] \in Nat
        BY <2>1 DEF RecordInv, InputTypes
      <3>2. \A l \in DOMAIN layer_begins' : layer_begins'[l] <= Len(given') + 1
        BY <2>8, <3>1 DEF RecordInv, LayersInv
      <3>3. \A l, m \in DOMAIN layer_begins' : l <= m => layer_begins'[l] <= layer_begins'[m]
        BY <3>1 DEF RecordInv, LayersInv
      <3>4. \A i \in 1 .. Len(given) : HasEdge(given[i].layer, i)'
        BY <2>8, <3>1 DEF RecordInv, LayersInv, HasEdge
      <3>5. ASSUME NEW i, i = Len(given) + 1
            PROVE  HasEdge(given[i].layer, i)'
        BY <2>7, <2>8, <3>1, <3>5 DEF RecordInv, LayersInv, HasEdge
      <3>6. \A i \in 1 .. Len(given) + 1 : i \in 1 .. Len(given) \/ i = Len(given) + 1
        BY <2>8
      <3> QED
        BY <2>8, <3>2, <3>3, <3>4, <3>5, <3>6 DEF LayersInv
    <2>12. LabelsInv'
      <3>1. \A i \in 1 .. Len(given) + 1 : i \in 1 .. Len(given) \/ i = Len(given) + 1
        BY <2>8
      <3> DEFINE For(g) == IF g.labelled THEN g.labels ELSE kept'
      <3>2. \A g : RecordedFor(g) = For(g)
        BY <2>1 DEF RecordedFor
      <3>3. CASE labelled
        <4>1. /\ LabelIdsAfter # << >> /\ Len(LabelIdsAfter) = Len(given) + 1
              /\ LabelIdsAfter[Len(given) + 1] = ToSet(label_set)
              /\ \A i \in DOMAIN given : LabelIdsAfter[i] = RecordedFor(given[i])
          BY <3>3, LabelIdsRecord DEF RecordInv
        <4>2. RecordedFor(entry) = ToSet(label_set)
          BY <2>7, <3>3 DEF RecordedFor
        <4>3. ~label_set_modified => label_set_id = ToSet(label_set)
          BY <3>3 DEF RecordInv, LabelsInv
        <4>4. label_set_id' = ToSet(label_set')
          BY <2>1, <4>3
        <4>5. \A i \in DOMAIN given' : label_set_ids'[i] = For(given'[i])
          <5> HIDE DEF For
          <5> QED
            BY <2>1, <2>8, <3>1, <3>2, <4>1, <4>2
        <4>6. labelled' /\ ~label_set_modified' /\ label_set_ids' # << >>
          BY <2>1, <3>3, <4>1
        <4> QED
          BY <2>1, <2>8, <4>1, <4>4, <4>5, <4>6 DEF LabelsInv, RecordedFor
      <3>4. CASE ~labelled
        <4>1. LabelIdsAfter = << >>
          BY <3>4, LabelIdsRecord DEF RecordInv
        <4>2. ToSet(label_set) = {} /\ ~label_set_modified /\ label_set_ids = << >>
          BY <3>4 DEF RecordInv, LabelsInv
        <4>3. /\ label_set_id = kept
              /\ \A i \in DOMAIN given : ~given[i].labelled /\ given[i].labels = {}
          BY <4>2 DEF RecordInv, LabelsInv
        <4>4. \A i \in DOMAIN given' : ~given'[i].labelled /\ given'[i].labels = {}
          BY <2>7, <2>8, <3>1, <3>4, <4>2, <4>3
        <4> QED
          BY <2>1, <3>4, <4>1, <4>2, <4>3, <4>4 DEF LabelsInv
      <3> QED
        BY <3>3, <3>4
    <2> QED
      BY <2>9, <2>10, <2>11, <2>12 DEF RecordInv
  <1> QED
    BY <1>1, <1>2

\* Every step of a client preserves the invariant.
LEMMA InputNextRecord == RecordInv /\ [InputNext]_input_vars => RecordInv'
  <1> SUFFICES ASSUME RecordInv, [InputNext]_input_vars
               PROVE  RecordInv'
    OBVIOUS
  <1>1. ASSUME NEW labels \in Seq(Labels), SetLabels(labels)
        PROVE  RecordInv'
    BY <1>1, SetLabelsRecord
  <1>2. label_set \in Seq(Labels)
    BY DEF RecordInv, InputTypes
  <1>3. ASSUME NEW l \in Labels, push_label(l) \/ set_label(l)
        PROVE  RecordInv'
    <2>1. << l >> \in Seq(Labels) /\ Append(label_set, l) \in Seq(Labels)
      BY <1>2
    <2> QED
      BY <1>1, <1>3, <2>1 DEF push_label, set_label
  <1>4. CASE pop_label
    <2>1. Front(label_set) \in Seq(Labels)
      BY <1>2, <1>4 DEF pop_label, Front
    <2> QED
      BY <1>1, <1>4, <2>1 DEF pop_label
  <1>5. CASE clear_labels
    <2>1. << >> \in Seq(Labels)
      OBVIOUS
    <2> QED
      BY <1>1, <1>5, <2>1 DEF clear_labels
  <1>6. ASSUME NEW d \in Discards, StartLayer(d)
        PROVE  RecordInv'
    BY <1>6, StartLayerRecord
  <1>7. ASSUME NEW v0 \in Points, NEW v1 \in Points, AddEdge(v0, v1)
        PROVE  RecordInv'
    BY <1>7, AddEdgeRecord
  <1>8. CASE Build
    BY <1>8, BuildRecord
  <1>9. CASE UNCHANGED input_vars
    BY <1>9 DEF input_vars, label_history, RecordInv, InputTypes, VerticesInv, LayersInv, HasEdge,
                LabelsInv, RecordedFor
  <1> QED
    BY <1>3, <1>4, <1>5, <1>6, <1>7, <1>8, <1>9 DEF InputNext

\* Whatever a client gives, labels and builds before, for any number of edges,
\* layers and uses: the builder holds the edges given since Reset, in order, in
\* their layers, and with their labels, and where it does not, with exactly the
\* labels that the last Reset kept: for the edges before the first labels.
THEOREM RecordedCorrect == InputSpec => []InputRecorded
  <1>1. InputInit => RecordInv
    BY InputInitRecord
  <1> QED
    BY <1>1, InputNextRecord, RecordInvImplies, PTL DEF InputSpec

-----------------------------------------------------------------------------
(* The ids of lexicons                                                       *)

\* The members of a finite set of numbers can be put in order.
LEMMA OrderExists ==
  ASSUME NEW S \in SUBSET Nat, IsFiniteSet(S)
  PROVE  \E t \in [1 .. Cardinality(S) -> S] : InOrderOnce(S, t)
<1> DEFINE n == Cardinality(S)
           before(x) == { y \in S : y < x }
           rank == [x \in S |-> Cardinality(before(x)) + 1]
<1>1. n \in Nat
  BY FS_CardinalityType
<1>2. \A x \in S : Cardinality(before(x)) \in Nat /\ Cardinality(before(x)) < n
  <2> TAKE x \in S
  <2>1. before(x) \in SUBSET S /\ before(x) # S
    OBVIOUS
  <2> HIDE DEF before
  <2> QED BY <1>1, <2>1, FS_Subset, FS_CardinalityType
<1>3. \A x, y \in S : x < y => rank[x] < rank[y]
  <2> SUFFICES ASSUME NEW x \in S, NEW y \in S, x < y
               PROVE  Cardinality(before(x)) < Cardinality(before(y))
    BY <1>2
  <2>1. before(x) \in SUBSET before(y) /\ before(x) # before(y)
    <3>1. x \in before(y) /\ x \notin before(x)
      OBVIOUS
    <3>2. \A z \in S : z < x => z < y
      OBVIOUS
    <3> QED BY <3>1, <3>2
  <2>2. IsFiniteSet(before(y))
    BY FS_Subset
  <2>3. Cardinality(before(x)) \in Nat /\ Cardinality(before(y)) \in Nat
    BY <1>2
  <2> HIDE DEF before
  <2> QED BY <2>1, <2>2, <2>3, FS_Subset
<1>4. rank \in [S -> 1 .. n]
  <2> HIDE DEF before, n
  <2> QED BY <1>1, <1>2
<1>5. \A x, y \in S : rank[x] = rank[y] => x = y
  <2> HIDE DEF rank, n
  <2> TAKE x \in S, y \in S
  <2>1. rank[x] \in Nat /\ rank[y] \in Nat
    BY <1>1, <1>4
  <2>2. x < y \/ y < x \/ x = y
    OBVIOUS
  <2> QED BY <1>3, <2>1, <2>2
<1>6. rank \in Surjection(S, 1 .. n)
  <2>1. IsFiniteSet(1 .. n) /\ Cardinality(1 .. n) = n
    BY <1>1, FS_Interval
  <2> HIDE DEF rank, n
  <2>2. rank \in Injection(S, 1 .. n)
    BY <1>4, <1>5 DEF Injection, IsInjective
  <2> QED BY <1>1, <2>1, <2>2, FS_Injection DEF n
<1> DEFINE t == [i \in 1 .. n |-> CHOOSE x \in S : rank[x] = i]
<1> HIDE DEF rank, n
<1>7. \A i \in 1 .. n : t[i] \in S /\ rank[t[i]] = i
  BY <1>6 DEF Surjection
<1>8. \A x \in S : rank[x] \in 1 .. n /\ t[rank[x]] = x
  BY <1>4, <1>5, <1>7
<1> HIDE DEF t
<1>9. t \in [1 .. n -> S]
  BY <1>7 DEF t
<1>10. ToSet(t) = S
  <2>1. DOMAIN t = 1 .. n
    BY <1>9
  <2>2. \A x \in S : x \in { t[i] : i \in 1 .. n }
    BY <1>8
  <2> QED BY <1>7, <2>1, <2>2 DEF ToSet
<1>11. \A i, j \in 1 .. n : i < j => t[i] < t[j]
  <2> TAKE i \in 1 .. n, j \in 1 .. n
  <2> HAVE i < j
  <2>0. i \in Nat /\ j \in Nat /\ i # j
    BY <1>1
  <2>1. PICK x \in S, y \in S : x = t[i] /\ y = t[j] /\ rank[x] = i /\ rank[y] = j
    BY <1>7
  <2>2. y < x => j < i
    BY <1>3, <2>1
  <2>3. x \in Nat /\ y \in Nat /\ x # y
    BY <2>0, <2>1
  <2> QED BY <2>0, <2>1, <2>2, <2>3
<1> QED BY <1>9, <1>10, <1>11 DEF InOrderOnce, n

\* A finite set of values is sorted into a sequence of its members.
LEMMA SortedIs ==
  ASSUME NEW S \in SUBSET Values, IsFiniteSet(S)
  PROVE  /\ Sorted(S) \in Seq(Values) /\ Len(Sorted(S)) = Cardinality(S)
         /\ InOrderOnce(S, Sorted(S)) /\ Cardinality(S) \in Nat
<1>1. Cardinality(S) \in Nat
  BY FS_CardinalityType
<1>2. \E t \in [1 .. Cardinality(S) -> S] : InOrderOnce(S, t)
  BY OrderExists, ValuesAreNat
<1> DEFINE t == CHOOSE t \in [1 .. Cardinality(S) -> S] : InOrderOnce(S, t)
<1>3. t \in [1 .. Cardinality(S) -> S] /\ InOrderOnce(S, t)
  BY <1>2
<1>4. Sorted(S) = t
  BY DEF Sorted
<1> HIDE DEF t
<1>5. t \in Seq(Values) /\ Len(t) = Cardinality(S)
  BY <1>1, <1>3
<1> QED BY <1>1, <1>3, <1>4, <1>5

\* The members of a sequence are a finite set.
LEMMA MembersAre ==
  ASSUME NEW s \in Seq(Values)
  PROVE  /\ ToSet(s) \in SUBSET Values /\ IsFiniteSet(ToSet(s))
         /\ Cardinality(ToSet(s)) \in Nat
         /\ s # << >> => Cardinality(ToSet(s)) >= 1
         /\ s = << >> => ToSet(s) = {}
         /\ \A i \in DOMAIN s : s[i] \in ToSet(s)
<1> DEFINE S == ToSet(s)
           f == [i \in 1 .. Len(s) |-> s[i]]
<1>1. S \in SUBSET Values /\ \A i \in DOMAIN s : s[i] \in S
  BY DEF ToSet
<1>2. f \in Surjection(1 .. Len(s), S)
  BY DEF Surjection, ToSet
<1>3. IsFiniteSet(1 .. Len(s))
  BY FS_Interval
<1>4. s = << >> => S = {}
  BY DEF ToSet
<1>5. s # << >> => S # {}
  BY <1>1
<1> HIDE DEF f, S
<1>6. IsFiniteSet(S)
  BY <1>2, <1>3, FS_Surjection
<1>7. Cardinality(S) \in Nat /\ (Cardinality(S) = 0 <=> S = {})
  BY <1>6, FS_CardinalityType, FS_EmptySet
<1> QED BY <1>1, <1>4, <1>5, <1>6, <1>7 DEF S

\* What was read of a sequence stays when it grows, and what is added can be
\* read behind it.
LEMMA ReadGrown ==
  ASSUME NEW S, NEW u \in Seq(S), NEW w \in Seq(S)
  PROVE  /\ \A b, e \in Nat : b <= e /\ e <= Len(u) =>
              SubSeq(u \o w, b + 1, e) = SubSeq(u, b + 1, e)
         /\ SubSeq(u \o w, Len(u) + 1, Len(u \o w)) = w
<1>1. ASSUME NEW b \in Nat, NEW e \in Nat, b <= e, e <= Len(u)
      PROVE  SubSeq(u \o w, b + 1, e) = SubSeq(u, b + 1, e)
  <2>1. SubSeq(u \o w, b + 1, e) = [i \in 1 .. e - b |-> (u \o w)[i + b]]
    BY <1>1
  <2>2. SubSeq(u, b + 1, e) = [i \in 1 .. e - b |-> u[i + b]]
    BY <1>1
  <2>3. \A i \in 1 .. e - b : (u \o w)[i + b] = u[i + b]
    BY <1>1
  <2> QED BY <2>1, <2>2, <2>3
<1>2. SubSeq(u \o w, Len(u) + 1, Len(u \o w)) = w
  <2>1. Len(u \o w) = Len(u) + Len(w)
    OBVIOUS
  <2>2. SubSeq(u \o w, Len(u) + 1, Len(u) + Len(w)) = [i \in 1 .. Len(w) |-> (u \o w)[i + Len(u)]]
    OBVIOUS
  <2>3. \A i \in 1 .. Len(w) : (u \o w)[i + Len(u)] = w[i]
    OBVIOUS
  <2>4. w = [i \in 1 .. Len(w) |-> w[i]]
    OBVIOUS
  <2> QED BY <2>1, <2>2, <2>3, <2>4
<1> QED BY <1>1, <1>2

SequenceLexicons == [values : Seq(Values), begins : Seq(Nat), ids : SUBSET Nat, bound : {TRUE}]
ValueLexicons == [values : Seq(Values), ids : SUBSET Nat, bound : {TRUE}]

\* The sequences of a lexicon lie one behind the other, each has its id, and
\* no two of them are equal.
Tiled(lex) ==
  /\ Len(lex.begins) \in 1 .. MaxIds + 1
  /\ lex.begins[1] = 0 /\ lex.begins[Len(lex.begins)] = Len(lex.values)
  /\ \A k, l \in DOMAIN lex.begins : k <= l => lex.begins[k] <= lex.begins[l]
  /\ lex.ids = 0 .. (Len(lex.begins) - 2)
  /\ \A m, n \in lex.ids : sequence(lex, m) = sequence(lex, n) => m = n

\* The id returned for a set is the complement of that of its sequence.
Kept(lex, p) ==
  /\ p[1] \in SUBSET Values /\ IsFiniteSet(p[1]) /\ Cardinality(p[1]) > 1
  /\ \E m \in lex.ids : p[2] = Complement(m) /\ sequence(lex, m) = Sorted(p[1])

SetsKept(lex, sets) == Usable(lex) => Tiled(lex) /\ \A p \in sets : Kept(lex, p)

\* A value was returned with its place, and has one place only.
ValuesKept(lex, vals) ==
  ValuesUsable(lex) =>
    /\ lex.ids = 0 .. (Len(lex.values) - 1)
    /\ vals = { <<lex.values[id + 1], id>> : id \in lex.ids }
    /\ \A k, l \in DOMAIN lex.values : lex.values[k] = lex.values[l] => k = l

\* The inductive invariant of the lexicons.
LexiconKept(sets, vals, ret) == SetsKept(sets, ret.sets) /\ ValuesKept(vals, ret.vals)
ReturnedPairs == [sets : SUBSET ((SUBSET Values) \X Int), vals : SUBSET (Values \X Nat)]

LexiconInv ==
  /\ id_sets \in [Lexs -> SequenceLexicons]
  /\ values \in [Lexs -> ValueLexicons]
  /\ returned \in [Lexs -> ReturnedPairs]
  /\ \A i \in Lexs : LexiconKept(id_sets[i], values[i], returned[i])

\* The sequence of an id, from the two vectors of a lexicon.
Read(vals, begins, id) == SubSeq(vals, begins[id + 1] + 1, begins[id + 2])

Tiling(vals, begins) ==
  /\ Len(begins) >= 1 /\ begins[1] = 0 /\ begins[Len(begins)] = Len(vals)
  /\ \A k, l \in DOMAIN begins : k <= l => begins[k] <= begins[l]

\* A sequence is appended behind the others, which read as before.
Grows(V, B, s, W, C) ==
  /\ W \in Seq(Values) /\ C \in Seq(Nat) /\ Tiling(W, C)
  /\ Len(B) \in Nat /\ Len(C) = Len(B) + 1
  /\ \A m \in 0 .. (Len(B) - 2) : Read(W, C, m) = Read(V, B, m)
  /\ Read(W, C, Len(B) - 1) = s

LEMMA TilingGrows ==
  \A V \in Seq(Values), B \in Seq(Nat), s \in Seq(Values) : \A W, C :
    Tiling(V, B) /\ W = V \o s /\ C = Append(B, Len(W)) => Grows(V, B, s, W, C)
<1> SUFFICES ASSUME NEW V \in Seq(Values), NEW B \in Seq(Nat), NEW s \in Seq(Values),
                    NEW W, NEW C, Tiling(V, B), W = V \o s, C = Append(B, Len(W))
             PROVE  Grows(V, B, s, W, C)
  OBVIOUS
<1>1. PICK n \in Nat : n = Len(B) /\ n >= 1
  BY DEF Tiling
<1>2. W \in Seq(Values) /\ Len(W) \in Nat /\ Len(W) >= Len(V) /\ Len(V) \in Nat
  OBVIOUS
<1>3. C \in Seq(Nat) /\ Len(C) = n + 1 /\ C[n + 1] = Len(W) /\ \A k \in 1 .. n : C[k] = B[k]
  BY <1>1, <1>2
<1>4. /\ B[1] = 0 /\ B[n] = Len(V)
      /\ \A k, l \in 1 .. n : k <= l => B[k] <= B[l]
      /\ \A k \in 1 .. n : B[k] \in Nat
  <2>1. DOMAIN B = 1 .. n
    BY <1>1
  <2>2. \A k \in DOMAIN B : B[k] \in Nat
    OBVIOUS
  <2> QED BY <1>1, <2>1, <2>2, Zenon DEF Tiling
<1>5. ASSUME NEW m \in 0 .. (n - 2) PROVE Read(W, C, m) = Read(V, B, m)
  <2>1. m + 1 \in 1 .. n /\ m + 2 \in 1 .. n /\ m + 1 <= m + 2 /\ n \in 1 .. n /\ m + 2 <= n
    BY <1>1
  <2>2. PICK b \in Nat, e \in Nat : b = B[m + 1] /\ e = B[m + 2]
    BY <1>4, <2>1
  <2>3. b <= e /\ e <= Len(V)
    BY <1>4, <2>1, <2>2
  <2>4. SubSeq(W, b + 1, e) = SubSeq(V, b + 1, e)
    BY <2>3, ReadGrown
  <2>5. C[m + 1] = b /\ C[m + 2] = e
    BY <1>3, <2>1, <2>2
  <2> QED BY <2>2, <2>4, <2>5 DEF Read
<1>6. Read(W, C, n - 1) = s
  <2>1. (n - 1) + 1 = n /\ (n - 1) + 2 = n + 1 /\ n \in 1 .. n
    BY <1>1
  <2>2. C[n] = Len(V) /\ C[n + 1] = Len(W)
    BY <1>3, <1>4, <2>1
  <2>3. SubSeq(W, Len(V) + 1, Len(W)) = s
    BY ReadGrown
  <2> QED BY <2>1, <2>2, <2>3 DEF Read
<1>7. Tiling(W, C)
  <2>1. ASSUME NEW k \in 1 .. n + 1, NEW l \in 1 .. n + 1, k <= l
        PROVE  C[k] <= C[l]
    <3>1. CASE l \in 1 .. n
      <4>1. k \in 1 .. n
        BY <2>1, <3>1
      <4> QED BY <1>3, <1>4, <2>1, <3>1, <4>1
    <3>2. CASE l = n + 1 /\ k \in 1 .. n
      <4>1. B[k] <= B[n] /\ B[k] \in Nat
        BY <1>1, <1>4, <3>2
      <4> QED BY <1>2, <1>3, <1>4, <3>2, <4>1
    <3>3. CASE l = n + 1 /\ k = n + 1
      BY <1>2, <1>3, <3>3
    <3> QED BY <1>1, <3>1, <3>2, <3>3
  <2>2. C[1] = 0 /\ Len(C) >= 1 /\ C[Len(C)] = Len(W) /\ DOMAIN C = 1 .. n + 1
    BY <1>1, <1>3, <1>4
  <2> QED BY <2>1, <2>2 DEF Tiling
<1> QED BY <1>1, <1>2, <1>3, <1>5, <1>6, <1>7 DEF Grows

\* A complement is never the id of the empty set, which is negative.
LEMMA IdsAre ==
  /\ MaxIds \in Nat /\ kEmptySetId \in Int /\ kEmptySetId < 0
  /\ \A id \in 0 .. (MaxIds - 1) : Complement(id) # kEmptySetId
  BY IdsAreNoEmptySet, SMT DEF Complement, kEmptySetId

\* What a lexicon is, part by part.
LEMMA LexiconParts ==
  ASSUME NEW lex \in SequenceLexicons
  PROVE  /\ lex.values \in Seq(Values) /\ lex.begins \in Seq(Nat) /\ lex.ids \in SUBSET Nat
         /\ lex = [values |-> lex.values, begins |-> lex.begins, ids |-> lex.ids, bound |-> TRUE]
         /\ \A m : sequence(lex, m) = Read(lex.values, lex.begins, m)
         /\ Tiled(lex) <=> /\ Tiling(lex.values, lex.begins)
                           /\ Len(lex.begins) <= MaxIds + 1
                           /\ lex.ids = 0 .. (Len(lex.begins) - 2)
                           /\ \A m, n \in lex.ids : sequence(lex, m) = sequence(lex, n) => m = n
<1>1. /\ lex.values \in Seq(Values) /\ lex.begins \in Seq(Nat) /\ lex.ids \in SUBSET Nat
      /\ lex = [values |-> lex.values, begins |-> lex.begins, ids |-> lex.ids, bound |-> TRUE]
  BY DEF SequenceLexicons
<1>2. \A m : sequence(lex, m) = Read(lex.values, lex.begins, m)
  BY DEF sequence, Read
<1>3. Len(lex.begins) \in 1 .. MaxIds + 1 <=> Len(lex.begins) >= 1 /\ Len(lex.begins) <= MaxIds + 1
  BY <1>1, IdsAre
<1> QED BY <1>1, <1>2, <1>3, Zenon DEF Tiled, Tiling

\* What SequenceLexicon::Add does to the two vectors and to the ids.
AddedIs(r, V, B, I, s, lex, W, C, id, found) ==
  /\ lex = [values |-> V, begins |-> B, ids |-> I, bound |-> TRUE]
  /\ W = V \o s /\ C = Append(B, Len(W)) /\ id = Len(C) - 2
  /\ found = { i \in I : i = id \/ Read(W, C, i) = Read(W, C, id) }
  => r = IF found = {} THEN << [values |-> W, begins |-> C, ids |-> I \cup {id}, bound |-> TRUE], id >>
         ELSE << lex, Equal(found) >>

LEMMA AddSequenceIs ==
  \A V, B, I, s, lex, W, C, id, found :
    AddedIs(AddSequence(lex, s), V, B, I, s, lex, W, C, id, found)
<1> TAKE V, B, I, s, lex, W, C, id, found
<1> SUFFICES ASSUME lex = [values |-> V, begins |-> B, ids |-> I, bound |-> TRUE],
                    W = V \o s, C = Append(B, Len(W)), id = Len(C) - 2,
                    found = { i \in I : i = id \/ Read(W, C, i) = Read(W, C, id) }
             PROVE  AddSequence(lex, s)
                      = IF found = {} THEN << [values |-> W, begins |-> C, ids |-> I \cup {id}, bound |-> TRUE], id >>
                        ELSE << lex, Equal(found) >>
  BY Zenon DEF AddedIs
<1>0. lex.values = V /\ lex.begins = B /\ lex.ids = I
  OBVIOUS
<1>1. \A ids : Appended(lex, s, ids) = [values |-> W, begins |-> C, ids |-> ids, bound |-> TRUE]
  BY <1>0, Zenon DEF Appended
<1>2. PICK g : g = Appended(lex, s, I)
  OBVIOUS
<1>3. g.values = W /\ g.begins = C /\ g.ids = I
  <2>1. g = [values |-> W, begins |-> C, ids |-> I, bound |-> TRUE]
    BY <1>1, <1>2, Zenon
  <2> QED BY <2>1
<1>4. KeyEqualIds(g, id) = found
  <2>1. \A i : sequence(g, i) = Read(W, C, i)
    BY <1>3, Zenon DEF sequence, Read
  <2>2. KeyEqualIds(g, id) = { i \in I : i = id \/ sequence(g, i) = sequence(g, id) }
    <3>1. g.bound = TRUE
      <4>1. g = [values |-> W, begins |-> C, ids |-> I, bound |-> TRUE]
        BY <1>1, <1>2, Zenon
      <4> QED BY <4>1
    <3>2. \A i \in I : /\ g.bound /\ sequence(g, i) = sequence(g, id)
                          <=> sequence(g, i) = sequence(g, id)
      BY <3>1, Zenon
    <3> QED BY <1>3, <3>2 DEF KeyEqualIds
  <2> QED BY <2>1, <2>2
<1>5. Len(g.begins) - 2 = id
  BY <1>3
<1>6. Appended(lex, s, lex.ids) = g
  BY <1>0, <1>2
<1>7. Len(Appended(lex, s, lex.ids).begins) - 2 = id
  BY <1>5, <1>6
<1>8. KeyEqualIds(Appended(lex, s, lex.ids), id) = found
  BY <1>4, <1>6
<1>9. Appended(lex, s, lex.ids \cup {id}) = [values |-> W, begins |-> C, ids |-> I \cup {id}, bound |-> TRUE]
  BY <1>0, <1>1, Zenon
<1>10. AddSequence(lex, s)
         = IF KeyEqualIds(Appended(lex, s, lex.ids), id) = {}
           THEN << Appended(lex, s, lex.ids \cup {id}), id >>
           ELSE << lex, Equal(KeyEqualIds(Appended(lex, s, lex.ids), id)) >>
  BY <1>7, Zenon DEF AddSequence
<1> QED BY <1>8, <1>9, <1>10, Zenon

\* SequenceLexicon::Add finds an equal sequence or appends this one, and what
\* was in the lexicon reads as before.
LEMMA SequenceAdded ==
  ASSUME NEW lex \in SequenceLexicons, Tiled(lex), NEW s \in Seq(Values),
         NEW r, r = AddSequence(lex, s), Len(r[1].begins) <= MaxIds + 1
  PROVE  /\ r[1] \in SequenceLexicons /\ Tiled(r[1])
         /\ r[2] \in r[1].ids /\ sequence(r[1], r[2]) = s
         /\ \A m \in lex.ids : m \in r[1].ids /\ sequence(r[1], m) = sequence(lex, m)
<1>1. PICK V \in Seq(Values), B \in Seq(Nat), I \in SUBSET Nat :
        V = lex.values /\ B = lex.begins /\ I = lex.ids
  BY LexiconParts
<1>2. lex = [values |-> V, begins |-> B, ids |-> I, bound |-> TRUE]
  BY <1>1, LexiconParts
<1>3. /\ Tiling(V, B) /\ I = 0 .. (Len(B) - 2)
      /\ \A m, n \in I : sequence(lex, m) = sequence(lex, n) => m = n
      /\ \A m : sequence(lex, m) = Read(V, B, m)
  BY <1>1, LexiconParts
<1>4. PICK W : W = V \o s
  OBVIOUS
<1>5. PICK C : C = Append(B, Len(W))
  OBVIOUS
<1>6. PICK id : id = Len(C) - 2
  OBVIOUS
<1>7. Tiling(V, B)
  BY <1>3
<1>8. /\ W \in Seq(Values) /\ C \in Seq(Nat) /\ Tiling(W, C)
      /\ Len(B) \in Nat /\ Len(C) = Len(B) + 1
      /\ \A m \in 0 .. (Len(B) - 2) : Read(W, C, m) = Read(V, B, m)
      /\ Read(W, C, Len(B) - 1) = s
  <2>1. Grows(V, B, s, W, C)
    BY <1>4, <1>5, <1>7, TilingGrows
  <2> QED BY <2>1 DEF Grows
<1>9. id \in Nat /\ id \notin I /\ I \cup {id} = 0 .. (Len(C) - 2) /\ id = Len(B) - 1
  <2>1. Len(B) >= 1 /\ I = 0 .. (Len(B) - 2)
    BY <1>3, <1>7 DEF Tiling
  <2> QED BY <1>6, <1>8, <2>1
<1>10. PICK found : found = { i \in I : i = id \/ Read(W, C, i) = Read(W, C, id) }
  OBVIOUS
<1>11. PICK more : more = [values |-> W, begins |-> C, ids |-> I \cup {id}, bound |-> TRUE]
  OBVIOUS
<1>12. r = IF found = {} THEN <<more, id>> ELSE <<lex, Equal(found)>>
  <2>1. AddedIs(r, V, B, I, s, lex, W, C, id, found)
    BY AddSequenceIs, Zenon
  <2> QED BY <1>2, <1>4, <1>5, <1>6, <1>10, <1>11, <2>1, Zenon DEF AddedIs
<1>13. /\ found \subseteq I /\ \A i \in found : sequence(lex, i) = s
       /\ found = {} => \A i \in I : sequence(lex, i) # s
  <2>1. \A i \in I : Read(W, C, i) = sequence(lex, i)
    BY <1>3, <1>8
  <2>2. Read(W, C, id) = s
    BY <1>8, <1>9
  <2> QED BY <1>9, <1>10, <2>1, <2>2
<1>14. CASE found # {}
  <2>1. PICK i \in found : r = <<lex, i>>
    BY <1>12, <1>14, Zenon DEF Equal
  <2>2. r[1] = lex /\ r[2] = i
    BY <2>1
  <2>3. i \in I /\ sequence(lex, i) = s
    BY <1>13
  <2> QED BY <1>1, <2>2, <2>3, Zenon
<1>15. CASE found = {}
  <2>1. r = <<more, id>>
    BY <1>12, <1>15, Zenon
  <2>2. r[1] = more /\ r[2] = id
    BY <2>1
  <2>3. more \in SequenceLexicons
    BY <1>8, <1>9, <1>11 DEF SequenceLexicons
  <2>4. more.values = W /\ more.begins = C /\ more.ids = I \cup {id}
    BY <1>11
  <2>5. \A m : sequence(more, m) = Read(W, C, m)
    BY <2>3, <2>4, LexiconParts, Zenon
  <2>6. \A m \in I : sequence(more, m) = sequence(lex, m)
    BY <1>3, <1>8, <2>5
  <2>7. sequence(more, id) = s
    BY <1>8, <1>9, <2>5
  <2>8. \A m, n \in I \cup {id} : sequence(more, m) = sequence(more, n) => m = n
    <3>1. \A m \in I : sequence(more, m) # s
      BY <1>13, <1>15, <2>6
    <3> QED BY <1>3, <2>6, <2>7, <3>1
  <2>9. Tiled(more)
    <3>1. Tiling(W, C) /\ I \cup {id} = 0 .. (Len(C) - 2)
      BY <1>8, <1>9
    <3>2. Len(C) <= MaxIds + 1
      <4>1. r[1].begins = C
        BY <2>2, <2>4
      <4> QED BY <4>1
    <3> QED BY <2>3, <2>4, <2>8, <3>1, <3>2, LexiconParts, Zenon
  <2> QED BY <1>1, <2>2, <2>3, <2>4, <2>6, <2>7, <2>9
<1> QED BY <1>14, <1>15

\* A sequence of one member.
LEMMA OneMember ==
  ASSUME NEW t \in Seq(Values), Len(t) = 1
  PROVE  ToSet(t) = {t[1]} /\ t[1] \in Values
<1>1. DOMAIN t = {1}
  OBVIOUS
<1>2. ToSet(t) = { t[i] : i \in {1} }
  BY <1>1 DEF ToSet
<1> QED BY <1>2

\* IdSetLexicon::AddInternal: the empty set and singletons take no space, and
\* the id of another set is the complement of that of its sorted sequence.
NoSpace(r, lex, s) ==
  \/ s = << >> /\ r = << lex, kEmptySetId >>
  \/ \E v \in Values : ToSet(s) = {v} /\ r = << lex, v >>

LEMMA InternalIs ==
  ASSUME NEW lex, NEW s \in Seq(Values)
  PROVE  \/ NoSpace(AddInternal(lex, s), lex, s)
         \/ /\ s # << >> /\ Cardinality(ToSet(s)) > 1
            /\ \E r : /\ r = AddSequence(lex, Sorted(ToSet(s)))
                      /\ AddInternal(lex, s) = << r[1], Complement(r[2]) >>
<1> DEFINE S == ToSet(s)
<1>1. /\ S \in SUBSET Values /\ IsFiniteSet(S) /\ Cardinality(S) \in Nat
      /\ s # << >> => Cardinality(S) >= 1
  BY MembersAre
<1>2. /\ Sorted(S) \in Seq(Values) /\ Len(Sorted(S)) = Cardinality(S)
      /\ ToSet(Sorted(S)) = S
  <2> HIDE DEF S
  <2> QED BY <1>1, SortedIs DEF InOrderOnce
<1>3. Len(s) \in Nat /\ (s = << >> <=> Len(s) = 0)
  OBVIOUS
<1>4. CASE s = << >>
  <2>1. Len(s) # 1 /\ ~ (Len(s) > 1)
    BY <1>3, <1>4
  <2>2. AddInternal(lex, s) = << lex, kEmptySetId >>
    BY <1>4, <2>1, Zenon DEF AddInternal
  <2> QED BY <1>4, <2>2, Zenon DEF NoSpace
<1>5. CASE s # << >> /\ Len(s) = 1
  <2>1. AddInternal(lex, s) = << lex, s[1] >>
    <3>1. ~ (Len(s) > 1)
      BY <1>5
    <3> QED BY <1>5, <3>1, Zenon DEF AddInternal
  <2> QED BY <1>5, <2>1, OneMember, Zenon DEF NoSpace
<1>6. CASE s # << >> /\ Len(s) > 1 /\ Len(Sorted(S)) = 1
  <2>1. AddInternal(lex, s) = << lex, Sorted(S)[1] >>
    <3>1. Len(s) # 1
      BY <1>3, <1>6
    <3> QED BY <1>6, <3>1, Zenon DEF AddInternal
  <2>2. S = {Sorted(S)[1]} /\ Sorted(S)[1] \in Values
    <3> HIDE DEF S
    <3> QED BY <1>2, <1>6, OneMember
  <2> QED BY <2>1, <2>2, Zenon DEF NoSpace
<1>7. CASE s # << >> /\ Len(s) # 1 /\ ~ (Len(s) > 1 /\ Len(Sorted(S)) = 1)
  <2>1. AddInternal(lex, s)
          = << AddSequence(lex, Sorted(S))[1], Complement(AddSequence(lex, Sorted(S))[2]) >>
    BY <1>7, Zenon DEF AddInternal
  <2>2. Cardinality(S) > 1
    <3>1. PICK c \in Nat : c = Cardinality(S) /\ c >= 1
      BY <1>1, <1>7
    <3>2. PICK l \in Nat : l = Len(s) /\ l # 0 /\ l # 1
      BY <1>3, <1>7
    <3>3. Len(Sorted(S)) # 1
      <4>1. Len(s) > 1
        BY <3>2
      <4> QED BY <1>7, <4>1, Zenon
    <3>4. c # 1
      BY <1>2, <3>1, <3>3, Zenon
    <3> QED BY <3>1, <3>4
  <2> QED BY <1>7, <2>1, <2>2, Zenon
<1> QED BY <1>3, <1>4, <1>5, <1>6, <1>7, Zenon

\* What adding a set does to a lexicon: the ids it gave keep their sets.
LEMMA SetAdded ==
  ASSUME NEW lex \in SequenceLexicons, Tiled(lex), NEW s \in Seq(Values),
         NEW r, r = AddInternal(lex, s), Len(r[1].begins) <= MaxIds + 1
  PROVE  /\ r[1] \in SequenceLexicons /\ Tiled(r[1]) /\ r[2] \in Int
         /\ \A p : Kept(lex, p) => Kept(r[1], p)
         /\ r[2] < 0 /\ s # << >> => Kept(r[1], << ToSet(s), r[2] >>)
<1>1. CASE NoSpace(r, lex, s)
  <2>1. CASE s = << >> /\ r = << lex, kEmptySetId >>
    <3>1. r[1] = lex /\ r[2] \in Int
      BY <2>1, IdsAre
    <3> QED BY <2>1, <3>1
  <2>2. CASE \E v \in Values : ToSet(s) = {v} /\ r = << lex, v >>
    <3>1. PICK v \in Values : r = << lex, v >>
      BY <2>2
    <3>2. r[1] = lex /\ r[2] = v /\ v \in Nat
      BY <3>1, ValuesAreNat
    <3> QED BY <3>2
  <2> QED BY <1>1, <2>1, <2>2, Zenon DEF NoSpace
<1>2. CASE /\ s # << >> /\ Cardinality(ToSet(s)) > 1
           /\ \E q : /\ q = AddSequence(lex, Sorted(ToSet(s)))
                     /\ r = << q[1], Complement(q[2]) >>
  <2>1. PICK S : S = ToSet(s)
    OBVIOUS
  <2>2. PICK q : q = AddSequence(lex, Sorted(S)) /\ r = << q[1], Complement(q[2]) >>
    BY <1>2, <2>1, Zenon
  <2>3. r[1] = q[1] /\ r[2] = Complement(q[2])
    BY <2>2
  <2>4. S \in SUBSET Values /\ IsFiniteSet(S) /\ Cardinality(S) > 1 /\ Sorted(S) \in Seq(Values)
    BY <1>2, <2>1, MembersAre, SortedIs
  <2>5. /\ q[1] \in SequenceLexicons /\ Tiled(q[1])
        /\ q[2] \in q[1].ids /\ sequence(q[1], q[2]) = Sorted(S)
        /\ \A m \in lex.ids : m \in q[1].ids /\ sequence(q[1], m) = sequence(lex, m)
    <3>1. Len(q[1].begins) <= MaxIds + 1
      BY <2>3
    <3>2. q = AddSequence(lex, Sorted(S))
      BY <2>2
    <3> HIDE <2>2, <2>3
    <3> QED BY <2>4, <3>1, <3>2, SequenceAdded
  <2>6. q[2] \in Nat
    BY <2>5, LexiconParts
  <2>7. r[2] \in Int
    BY <2>3, <2>6 DEF Complement
  <2>8. \A p : Kept(lex, p) => Kept(r[1], p)
    BY <2>3, <2>5, Zenon DEF Kept
  <2>9. Kept(r[1], << S, r[2] >>)
    <3>1. PICK p : p = << S, r[2] >>
      OBVIOUS
    <3>2. p[1] = S /\ p[2] = Complement(q[2])
      BY <2>3, <3>1
    <3>3. Kept(r[1], p)
      BY <2>3, <2>4, <2>5, <3>2, Zenon DEF Kept
    <3> QED BY <3>1, <3>3, Zenon
  <2> QED BY <2>1, <2>3, <2>5, <2>7, <2>8, <2>9, Zenon
<1> QED BY <1>1, <1>2, InternalIs, Zenon

\* What a lexicon of values has returned, from its values and its ids.
ValuesKeptIn(V, I, vals) ==
  /\ V \in Seq(Values) /\ I = 0 .. (Len(V) - 1)
  /\ vals = { <<V[id + 1], id>> : id \in I }
  /\ \A k, l \in DOMAIN V : V[k] = V[l] => k = l

\* ValueLexicon::Add returns the place of an equal value or of this one behind
\* the others, and the places of the others stay.
LEMMA ValueAdded ==
  ASSUME NEW lex \in ValueLexicons, ValuesUsable(lex), NEW vals, ValuesKept(lex, vals),
         NEW v \in Values, NEW r, r = AddValue(lex, v)
  PROVE  /\ r[1] \in ValueLexicons /\ r[2] \in Nat
         /\ ValuesKept(r[1], vals \cup {<< v, r[2] >>})
<1>1. PICK V \in Seq(Values), I \in SUBSET Nat : V = lex.values /\ I = lex.ids
  BY DEF ValueLexicons
<1>2. ValuesKeptIn(V, I, vals)
  BY <1>1, Zenon DEF ValuesKept, ValuesKeptIn
<1>3. PICK n \in Nat : n = Len(V)
  OBVIOUS
<1>4. /\ I = 0 .. (n - 1) /\ vals = { <<V[id + 1], id>> : id \in I }
      /\ \A k, l \in 1 .. n : V[k] = V[l] => k = l
  BY <1>2, <1>3 DEF ValuesKeptIn
<1>5. ASSUME NEW i \in I, V[i + 1] = v, r = << lex, i >>
      PROVE  /\ r[1] \in ValueLexicons /\ r[2] \in Nat
             /\ ValuesKept(r[1], vals \cup {<< v, r[2] >>})
  <2>1. r[1] = lex /\ r[2] = i
    BY <1>5
  <2>2. << v, i >> \in vals
    BY <1>4, <1>5
  <2>3. vals \cup {<< v, r[2] >>} = vals
    BY <2>1, <2>2
  <2>4. i \in Nat
    BY <1>1
  <2> QED BY <2>1, <2>3, <2>4
<1>6. CASE lex.values # << >> /\ Last(lex.values) = v
  <2>1. n >= 1 /\ V[n] = v
    BY <1>1, <1>3, <1>6 DEF Last
  <2>2. r = << lex, n - 1 >>
    BY <1>1, <1>3, <1>6, Zenon DEF AddValue
  <2>3. n - 1 \in I /\ (n - 1) + 1 = n
    BY <1>4, <2>1
  <2> QED BY <1>5, <2>1, <2>2, <2>3
<1>7. CASE ~ (lex.values # << >> /\ Last(lex.values) = v)
  <2>1. PICK found : found = { i \in I : V[i + 1] = v }
    OBVIOUS
  <2>2. r = IF found = {} THEN << [values |-> Append(V, v), ids |-> I \cup {n}, bound |-> TRUE], n >>
            ELSE << lex, Equal(found) >>
    <3>0. lex.bound = TRUE
      BY DEF ValueLexicons
    <3>1. { i \in lex.ids : lex.bound /\ lex.values[i + 1] = v } = found
      BY <1>1, <2>1, <3>0
    <3> QED BY <1>1, <1>3, <1>7, <3>0, <3>1, Zenon DEF AddValue
  <2>3. CASE found # {}
    <3>1. PICK i \in found : r = << lex, i >>
      BY <2>2, <2>3, Zenon DEF Equal
    <3>2. i \in I /\ V[i + 1] = v
      BY <2>1
    <3> QED BY <1>5, <3>1, <3>2
  <2>4. CASE found = {}
    <3>1. PICK W \in Seq(Values) : W = Append(V, v)
      <4>1. Append(V, v) \in Seq(Values)
        OBVIOUS
      <4> QED BY <4>1, Zenon
    <3>2. PICK J : J = I \cup {n}
      OBVIOUS
    <3>3. r = << [values |-> W, ids |-> J, bound |-> TRUE], n >>
      BY <2>2, <2>4, <3>1, <3>2, Zenon
    <3>4. r[1] = [values |-> W, ids |-> J, bound |-> TRUE] /\ r[2] = n
      BY <3>3
    <3>5. Len(W) = n + 1 /\ W[n + 1] = v /\ \A k \in 1 .. n : W[k] = V[k]
      BY <1>3, <3>1
    <3>6. J = 0 .. n /\ J = 0 .. (Len(W) - 1)
      BY <1>4, <3>2, <3>5
    <3>7. vals \cup {<< v, n >>} = { <<W[id + 1], id>> : id \in J }
      <4>1. \A id \in I : id + 1 \in 1 .. n /\ W[id + 1] = V[id + 1]
        BY <1>4, <3>5
      <4>2. vals = { <<W[id + 1], id>> : id \in I }
        BY <1>4, <4>1
      <4> QED BY <3>2, <3>5, <4>2
    <3>8. \A k, l \in 1 .. n + 1 : W[k] = W[l] => k = l
      <4>1. \A k \in 1 .. n : W[k] # v
        <5> TAKE k \in 1 .. n
        <5>1. k - 1 \in I /\ (k - 1) + 1 = k
          BY <1>4
        <5>2. V[(k - 1) + 1] # v
          BY <2>1, <2>4, <5>1
        <5> QED BY <3>5, <5>1, <5>2
      <4> QED BY <1>4, <3>5, <4>1
    <3>9. [values |-> W, ids |-> J, bound |-> TRUE] \in ValueLexicons
      BY <3>6 DEF ValueLexicons
    <3>10. ValuesKept([values |-> W, ids |-> J, bound |-> TRUE], { <<W[id + 1], id>> : id \in J })
      <4>1. DOMAIN W = 1 .. n + 1
        BY <3>5
      <4>2. \A k, l \in DOMAIN W : W[k] = W[l] => k = l
        BY <3>8, <4>1, Zenon
      <4>3. PICK g : g = [values |-> W, ids |-> J, bound |-> TRUE]
        OBVIOUS
      <4>4. g.values = W /\ g.ids = J
        BY <4>3
      <4>5. { <<W[id + 1], id>> : id \in J } = { <<g.values[id + 1], id>> : id \in g.ids }
        BY <4>4
      <4>6. g.ids = 0 .. (Len(g.values) - 1)
        BY <3>6, <4>4
      <4>7. \A k, l \in DOMAIN g.values : g.values[k] = g.values[l] => k = l
        BY <4>2, <4>4
      <4>8. ValuesKept(g, { <<W[id + 1], id>> : id \in J })
        BY <4>5, <4>6, <4>7, Zenon DEF ValuesKept
      <4> QED BY <4>3, <4>8, Zenon
    <3> QED BY <3>4, <3>7, <3>9, <3>10, Zenon
  <2> QED BY <2>3, <2>4
<1> QED BY <1>6, <1>7

\* What is added is a sequence of values.
LEMMA AddedAre == \A s \in Added : s \in Seq(Values)
<1> SUFFICES ASSUME NEW s \in Added PROVE s \in Seq(Values)
  OBVIOUS
<1>1. PICK m \in 0 .. MaxLength : s \in [1 .. m -> Values]
  BY DEF Added, SeqOf
<1>2. m \in Nat
  BY <1>1
<1> QED BY <1>1, <1>2

\* A lexicon as it is made and after Clear.
LEMMA EmptyKept ==
  /\ EmptyLexicon \in SequenceLexicons /\ EmptyValues \in ValueLexicons
  /\ [sets |-> {}, vals |-> {}] \in ReturnedPairs
  /\ LexiconKept(EmptyLexicon, EmptyValues, [sets |-> {}, vals |-> {}])
<1>1. PICK V, B : V = << >> /\ B = << 0 >>
  OBVIOUS
<1>2. V \in Seq(Values) /\ B \in Seq(Nat) /\ Len(V) = 0 /\ Len(B) = 1 /\ B[1] = 0
  BY <1>1
<1>3. PICK lex : lex = [values |-> V, begins |-> B, ids |-> {}, bound |-> TRUE]
  OBVIOUS
<1>4. PICK vlex : vlex = [values |-> V, ids |-> {}, bound |-> TRUE]
  OBVIOUS
<1>5. lex = EmptyLexicon /\ vlex = EmptyValues
  BY <1>1, <1>3, <1>4, Zenon DEF EmptyLexicon, EmptyValues
<1>6. lex.values = V /\ lex.begins = B /\ lex.ids = {} /\ vlex.values = V /\ vlex.ids = {}
  BY <1>3, <1>4
<1>7. lex \in SequenceLexicons /\ vlex \in ValueLexicons
  BY <1>2, <1>3, <1>4 DEF SequenceLexicons, ValueLexicons
<1>8. Tiled(lex)
  <2>1. Len(lex.begins) \in 1 .. MaxIds + 1 /\ lex.ids = 0 .. (Len(lex.begins) - 2)
    <3>1. MaxIds \in Nat
      BY IdsAre
    <3>2. Len(lex.begins) = 1 /\ lex.ids = {}
      BY <1>2, <1>6
    <3> QED BY <3>1, <3>2
  <2>2. DOMAIN lex.begins = {1} /\ lex.begins[1] = 0
    BY <1>2, <1>6
  <2>3. lex.begins[Len(lex.begins)] = Len(lex.values)
    BY <1>2, <1>6
  <2>4. \A k, l \in DOMAIN lex.begins : k <= l => lex.begins[k] <= lex.begins[l]
    BY <2>2
  <2> QED BY <1>6, <2>1, <2>2, <2>3, <2>4, Zenon DEF Tiled
<1>9. ValuesKept(vlex, {})
  <2>1. vlex.ids = 0 .. (Len(vlex.values) - 1) /\ DOMAIN vlex.values = {}
    BY <1>2, <1>6
  <2>2. { <<vlex.values[id + 1], id>> : id \in vlex.ids } = {}
    BY <1>6
  <2> QED BY <2>1, <2>2, Zenon DEF ValuesKept
<1>10. PICK ret : ret = [sets |-> {}, vals |-> {}]
  OBVIOUS
<1>11. ret.sets = {} /\ ret.vals = {} /\ ret \in ReturnedPairs
  BY <1>10 DEF ReturnedPairs
<1>12. LexiconKept(lex, vlex, ret)
  BY <1>8, <1>9, <1>11, Zenon DEF LexiconKept, SetsKept
<1> QED BY <1>5, <1>7, <1>10, <1>11, <1>12, Zenon

\* Every lexicon looks ids up by its own sequences, also when it is copied.
LEMMA AllBound ==
  /\ \A lex \in SequenceLexicons :
       Copied(lex) = lex /\ [EmptyLexicon EXCEPT !.bound = lex.bound] = EmptyLexicon
  /\ \A lex \in ValueLexicons :
       Copied(lex) = lex /\ [EmptyValues EXCEPT !.bound = lex.bound] = EmptyValues
<1>1. \A lex \in SequenceLexicons : lex.bound = TRUE /\ [lex EXCEPT !.bound = TRUE] = lex
  BY DEF SequenceLexicons
<1>2. \A lex \in ValueLexicons : lex.bound = TRUE /\ [lex EXCEPT !.bound = TRUE] = lex
  BY DEF ValueLexicons
<1>3. /\ [EmptyLexicon EXCEPT !.bound = TRUE] = EmptyLexicon
      /\ [EmptyValues EXCEPT !.bound = TRUE] = EmptyValues
  BY <1>1, <1>2, EmptyKept, Zenon
<1> QED BY <1>1, <1>2, <1>3, Zenon DEF Copied

\* A lexicon whose vectors were moved away.
LEMMA MovedKept ==
  ASSUME NEW lex \in SequenceLexicons, NEW vlex \in ValueLexicons, NEW moved,
         moved = [vlex EXCEPT !.values = << >>]
  PROVE  /\ MovedFrom(lex) \in SequenceLexicons /\ moved \in ValueLexicons
         /\ LexiconKept(MovedFrom(lex), moved, [sets |-> {}, vals |-> {}])
<1>1. MovedFrom(lex) \in SequenceLexicons
  <2>1. << >> \in Seq(Values) /\ << >> \in Seq(Nat)
    OBVIOUS
  <2> QED BY <2>1 DEF MovedFrom, SequenceLexicons
<1>2. moved \in ValueLexicons /\ moved.values = << >>
  <2>1. PICK V, I : V = vlex.values /\ I = vlex.ids
    OBVIOUS
  <2>2. I \in SUBSET Nat /\ vlex = [values |-> V, ids |-> I, bound |-> TRUE]
    BY <2>1 DEF ValueLexicons
  <2>3. moved = [values |-> << >>, ids |-> I, bound |-> TRUE]
    BY <2>2
  <2>4. << >> \in Seq(Values)
    OBVIOUS
  <2> QED BY <2>2, <2>3, <2>4 DEF ValueLexicons
<1>3. ~ Usable(MovedFrom(lex))
  BY DEF MovedFrom, Usable
<1>4. ValuesKept(moved, {})
  <2> SUFFICES ASSUME ValuesUsable(moved)
               PROVE  /\ moved.ids = 0 .. (Len(moved.values) - 1)
                      /\ {} = { <<moved.values[id + 1], id>> : id \in moved.ids }
                      /\ DOMAIN moved.values = {}
    BY Zenon DEF ValuesKept
  <2>1. Len(moved.values) = 0 /\ DOMAIN moved.values = {}
    BY <1>2
  <2>2. moved.ids = {} /\ moved.ids = 0 .. (Len(moved.values) - 1)
    BY <2>1 DEF ValuesUsable
  <2> QED BY <2>1, <2>2
<1>5. PICK ret : ret = [sets |-> {}, vals |-> {}]
  OBVIOUS
<1>6. ret.sets = {} /\ ret.vals = {}
  BY <1>5
<1>7. LexiconKept(MovedFrom(lex), moved, ret)
  BY <1>3, <1>4, <1>6, Zenon DEF LexiconKept, SetsKept
<1> QED BY <1>1, <1>2, <1>5, <1>7, Zenon

\* Each action keeps the invariant.
LEMMA ClearKeeps ==
  ASSUME LexiconInv, NEW i \in Lexs, ClearLexicons(i)
  PROVE  LexiconInv'
<1>1. PICK none : none = [sets |-> {}, vals |-> {}]
  OBVIOUS
<1>2. /\ EmptyLexicon \in SequenceLexicons /\ EmptyValues \in ValueLexicons
      /\ none \in ReturnedPairs /\ LexiconKept(EmptyLexicon, EmptyValues, none)
  BY <1>1, EmptyKept, Zenon
<1>3. /\ id_sets' = [id_sets EXCEPT ![i] = EmptyLexicon]
      /\ values' = [values EXCEPT ![i] = EmptyValues]
      /\ returned' = [returned EXCEPT ![i] = none]
  <2>1. id_sets[i] \in SequenceLexicons /\ values[i] \in ValueLexicons
    BY DEF LexiconInv
  <2>2. /\ [EmptyLexicon EXCEPT !.bound = id_sets[i].bound] = EmptyLexicon
        /\ [EmptyValues EXCEPT !.bound = values[i].bound] = EmptyValues
    BY <2>1, AllBound, Zenon
  <2> QED BY <1>1, <2>2, Zenon DEF ClearLexicons
<1>4. /\ id_sets \in [Lexs -> SequenceLexicons] /\ values \in [Lexs -> ValueLexicons]
      /\ returned \in [Lexs -> ReturnedPairs]
      /\ \A k \in Lexs : LexiconKept(id_sets[k], values[k], returned[k])
  BY Zenon DEF LexiconInv
<1>5. /\ id_sets' \in [Lexs -> SequenceLexicons] /\ values' \in [Lexs -> ValueLexicons]
      /\ returned' \in [Lexs -> ReturnedPairs]
  BY <1>2, <1>3, <1>4
<1>6. ASSUME NEW k \in Lexs
      PROVE  LexiconKept(id_sets'[k], values'[k], returned'[k])
  BY <1>2, <1>3, <1>4
<1> QED BY <1>5, <1>6, Zenon DEF LexiconInv

LEMMA AssignKeeps ==
  ASSUME LexiconInv, NEW i \in Lexs, NEW j \in Lexs, AssignTo(i, j)
  PROVE  LexiconInv'
<1>1. /\ id_sets' = [id_sets EXCEPT ![i] = id_sets[j]]
      /\ values' = [values EXCEPT ![i] = values[j]]
      /\ returned' = [returned EXCEPT ![i] = returned[j]]
  <2>1. id_sets[j] \in SequenceLexicons /\ values[j] \in ValueLexicons
    BY DEF LexiconInv
  <2>2. Copied(id_sets[j]) = id_sets[j] /\ Copied(values[j]) = values[j]
    BY <2>1, AllBound, Zenon
  <2> QED BY <2>2, Zenon DEF AssignTo
<1>2. /\ id_sets \in [Lexs -> SequenceLexicons] /\ values \in [Lexs -> ValueLexicons]
      /\ returned \in [Lexs -> ReturnedPairs]
      /\ \A k \in Lexs : LexiconKept(id_sets[k], values[k], returned[k])
  BY Zenon DEF LexiconInv
<1>3. /\ id_sets' \in [Lexs -> SequenceLexicons] /\ values' \in [Lexs -> ValueLexicons]
      /\ returned' \in [Lexs -> ReturnedPairs]
  BY <1>1, <1>2
<1>4. ASSUME NEW k \in Lexs
      PROVE  LexiconKept(id_sets'[k], values'[k], returned'[k])
  BY <1>1, <1>2
<1> QED BY <1>3, <1>4, Zenon DEF LexiconInv

LEMMA MoveKeeps ==
  ASSUME LexiconInv, NEW i \in Lexs, NEW j \in Lexs, i # j, MoveAssign(i, j)
  PROVE  LexiconInv'
<1>1. PICK none : none = [sets |-> {}, vals |-> {}]
  OBVIOUS
<1>2. /\ id_sets \in [Lexs -> SequenceLexicons] /\ values \in [Lexs -> ValueLexicons]
      /\ returned \in [Lexs -> ReturnedPairs]
      /\ \A k \in Lexs : LexiconKept(id_sets[k], values[k], returned[k])
  BY Zenon DEF LexiconInv
<1>3. PICK moved : moved = [values[j] EXCEPT !.values = << >>]
  OBVIOUS
<1>4. PICK left : left = MovedFrom(id_sets[j])
  OBVIOUS
<1>5. /\ left \in SequenceLexicons /\ moved \in ValueLexicons
      /\ LexiconKept(left, moved, none)
  <2>1. id_sets[j] \in SequenceLexicons /\ values[j] \in ValueLexicons
    BY <1>2
  <2> QED BY <1>1, <1>3, <1>4, <2>1, MovedKept, Zenon
<1>6. none \in ReturnedPairs
  BY <1>1, EmptyKept, Zenon
<1>0. Copied(id_sets[j]) = id_sets[j] /\ Copied(values[j]) = values[j]
  BY <1>2, AllBound
<1>7. /\ id_sets' = [id_sets EXCEPT ![i] = id_sets[j], ![j] = left]
      /\ returned' = [returned EXCEPT ![i] = returned[j], ![j] = none]
  BY <1>0, <1>1, <1>4, Zenon DEF MoveAssign
<1>8. values' = [values EXCEPT ![i] = values[j], ![j] = moved]
  <2>1. values' = [values EXCEPT ![i] = values[j], ![j].values = << >>]
    BY <1>0, Zenon DEF MoveAssign
  <2>2. PICK u : u = [values EXCEPT ![i] = values[j]]
    OBVIOUS
  <2>3. u[j] = values[j]
    BY <1>2, <2>2
  <2> QED BY <1>3, <2>1, <2>2, <2>3
<1>9. /\ id_sets' \in [Lexs -> SequenceLexicons] /\ values' \in [Lexs -> ValueLexicons]
      /\ returned' \in [Lexs -> ReturnedPairs]
  BY <1>2, <1>5, <1>6, <1>7, <1>8
<1>10. ASSUME NEW k \in Lexs
       PROVE  LexiconKept(id_sets'[k], values'[k], returned'[k])
  <2>1. CASE k = j
    <3>1. id_sets'[k] = left /\ values'[k] = moved /\ returned'[k] = none
      BY <1>2, <1>7, <1>8, <2>1
    <3> QED BY <1>5, <3>1
  <2>2. CASE k = i
    <3>1. id_sets'[k] = id_sets[j] /\ values'[k] = values[j] /\ returned'[k] = returned[j]
      BY <1>2, <1>7, <1>8, <2>2
    <3> QED BY <1>2, <3>1
  <2>3. CASE k # i /\ k # j
    <3>1. id_sets'[k] = id_sets[k] /\ values'[k] = values[k] /\ returned'[k] = returned[k]
      BY <1>2, <1>7, <1>8, <2>3
    <3> QED BY <1>2, <3>1
  <2> QED BY <2>1, <2>2, <2>3
<1> QED BY <1>9, <1>10, Zenon DEF LexiconInv

LEMMA AddIdSetKeeps ==
  ASSUME LexiconInv, NEW i \in Lexs, AddIdSet(i)
  PROVE  LexiconInv'
<1>1. /\ id_sets \in [Lexs -> SequenceLexicons] /\ values \in [Lexs -> ValueLexicons]
      /\ returned \in [Lexs -> ReturnedPairs]
      /\ \A k \in Lexs : LexiconKept(id_sets[k], values[k], returned[k])
  BY Zenon DEF LexiconInv
<1>0. PICK s \in Added : \E r :
        /\ r = AddInternal(id_sets[i], s) /\ Len(r[1].begins) <= MaxIds + 1
        /\ id_sets' = [id_sets EXCEPT ![i] = r[1]]
        /\ returned' = [returned EXCEPT ![i].sets =
             IF r[2] < 0 /\ s # << >> THEN @ \cup {<< ToSet(s), r[2] >>} ELSE @]
  BY Zenon DEF AddIdSet
<1>2. PICK r :
        /\ r = AddInternal(id_sets[i], s) /\ Len(r[1].begins) <= MaxIds + 1
        /\ id_sets' = [id_sets EXCEPT ![i] = r[1]]
        /\ returned' = [returned EXCEPT ![i].sets =
             IF r[2] < 0 /\ s # << >> THEN @ \cup {<< ToSet(s), r[2] >>} ELSE @]
  BY <1>0
<1>3. PICK lex \in SequenceLexicons : lex = id_sets[i]
  BY <1>1
<1>4. PICK sets, vals : sets = returned[i].sets /\ vals = returned[i].vals
  OBVIOUS
<1>5. /\ sets \in SUBSET ((SUBSET Values) \X Int) /\ vals \in SUBSET (Values \X Nat)
      /\ returned[i] = [sets |-> sets, vals |-> vals]
  <2>1. returned[i] \in ReturnedPairs
    BY <1>1
  <2> QED BY <1>4, <2>1 DEF ReturnedPairs
<1>6. PICK more : more = IF r[2] < 0 /\ s # << >> THEN sets \cup {<< ToSet(s), r[2] >>} ELSE sets
  OBVIOUS
<1>7. PICK ret : ret = [sets |-> more, vals |-> vals]
  OBVIOUS
<1>8. s \in Seq(Values)
  BY AddedAre
<1>9. Tiled(lex) /\ \A p \in sets : Kept(lex, p)
  <2>1. Usable(lex)
    BY <1>3, Zenon DEF AddIdSet
  <2>2. SetsKept(lex, sets)
    BY <1>1, <1>3, <1>4, Zenon DEF LexiconKept
  <2> QED BY <2>1, <2>2, Zenon DEF SetsKept
<1>10. /\ r[1] \in SequenceLexicons /\ Tiled(r[1]) /\ r[2] \in Int
       /\ \A p : Kept(lex, p) => Kept(r[1], p)
       /\ r[2] < 0 /\ s # << >> => Kept(r[1], << ToSet(s), r[2] >>)
  <2>1. r = AddInternal(lex, s) /\ Len(r[1].begins) <= MaxIds + 1
    BY <1>2, <1>3, Zenon
  <2> QED BY <1>8, <1>9, <2>1, SetAdded
<1>11. LexiconKept(r[1], values[i], ret)
  <2>1. \A p \in more : Kept(r[1], p)
    <3>1. CASE r[2] < 0 /\ s # << >>
      <4>1. more = sets \cup {<< ToSet(s), r[2] >>}
        BY <1>6, <3>1
      <4>2. Kept(r[1], << ToSet(s), r[2] >>)
        BY <1>10, <3>1
      <4> QED BY <1>9, <1>10, <4>1, <4>2
    <3>2. CASE ~ (r[2] < 0 /\ s # << >>)
      BY <1>6, <1>9, <1>10, <3>2, Zenon
    <3> QED BY <3>1, <3>2
  <2>2. ret.sets = more /\ ret.vals = vals
    BY <1>7
  <2>3. ValuesKept(values[i], vals)
    BY <1>1, <1>4, Zenon DEF LexiconKept
  <2> QED BY <1>10, <2>1, <2>2, <2>3, Zenon DEF LexiconKept, SetsKept
<1>12. ret \in ReturnedPairs
  <2>1. ToSet(s) \in SUBSET Values
    BY <1>8, MembersAre
  <2>2. more \in SUBSET ((SUBSET Values) \X Int)
    BY <1>5, <1>6, <1>10, <2>1
  <2> QED BY <1>5, <1>7, <2>2 DEF ReturnedPairs
<1>13. returned' = [returned EXCEPT ![i] = ret]
  <2>1. returned' = [returned EXCEPT ![i].sets = more]
    <3>1. CASE r[2] < 0 /\ s # << >>
      BY <1>2, <1>4, <1>6, <3>1
    <3>2. CASE ~ (r[2] < 0 /\ s # << >>)
      BY <1>2, <1>4, <1>6, <3>2
    <3> QED BY <3>1, <3>2
  <2>2. [returned[i] EXCEPT !.sets = more] = ret
    BY <1>5, <1>7
  <2> QED BY <2>1, <2>2
<1>14. values' = values
  BY Zenon DEF AddIdSet
<1>15. /\ id_sets' \in [Lexs -> SequenceLexicons] /\ values' \in [Lexs -> ValueLexicons]
       /\ returned' \in [Lexs -> ReturnedPairs]
  BY <1>1, <1>2, <1>10, <1>12, <1>13, <1>14
<1>16. ASSUME NEW k \in Lexs
       PROVE  LexiconKept(id_sets'[k], values'[k], returned'[k])
  BY <1>1, <1>2, <1>11, <1>13, <1>14
<1> QED BY <1>15, <1>16, Zenon DEF LexiconInv

LEMMA AddKeeps ==
  ASSUME LexiconInv, NEW i \in Lexs, AddToValues(i)
  PROVE  LexiconInv'
<1>1. /\ id_sets \in [Lexs -> SequenceLexicons] /\ values \in [Lexs -> ValueLexicons]
      /\ returned \in [Lexs -> ReturnedPairs]
      /\ \A k \in Lexs : LexiconKept(id_sets[k], values[k], returned[k])
  BY Zenon DEF LexiconInv
<1>0. PICK v \in Values : \E r :
        /\ r = AddValue(values[i], v)
        /\ values' = [values EXCEPT ![i] = r[1]]
        /\ returned' = [returned EXCEPT ![i].vals = @ \cup {<< v, r[2] >>}]
  BY Zenon DEF AddToValues
<1>2. PICK r :
        /\ r = AddValue(values[i], v)
        /\ values' = [values EXCEPT ![i] = r[1]]
        /\ returned' = [returned EXCEPT ![i].vals = @ \cup {<< v, r[2] >>}]
  BY <1>0
<1>3. PICK lex \in ValueLexicons : lex = values[i]
  BY <1>1
<1>4. PICK sets, vals : sets = returned[i].sets /\ vals = returned[i].vals
  OBVIOUS
<1>5. /\ sets \in SUBSET ((SUBSET Values) \X Int) /\ vals \in SUBSET (Values \X Nat)
      /\ returned[i] = [sets |-> sets, vals |-> vals]
  <2>1. returned[i] \in ReturnedPairs
    BY <1>1
  <2> QED BY <1>4, <2>1 DEF ReturnedPairs
<1>6. PICK more : more = vals \cup {<< v, r[2] >>}
  OBVIOUS
<1>7. PICK ret : ret = [sets |-> sets, vals |-> more]
  OBVIOUS
<1>8. ValuesUsable(lex) /\ ValuesKept(lex, vals)
  BY <1>1, <1>3, <1>4, Zenon DEF LexiconKept, AddToValues
<1>9. r[1] \in ValueLexicons /\ r[2] \in Nat /\ ValuesKept(r[1], more)
  <2>1. r = AddValue(lex, v)
    BY <1>2, <1>3, Zenon
  <2> QED BY <1>6, <1>8, <2>1, ValueAdded
<1>10. LexiconKept(id_sets[i], r[1], ret)
  <2>1. ret.sets = sets /\ ret.vals = more
    BY <1>7
  <2>2. SetsKept(id_sets[i], sets)
    BY <1>1, <1>4, Zenon DEF LexiconKept
  <2> QED BY <1>9, <2>1, <2>2, Zenon DEF LexiconKept
<1>11. ret \in ReturnedPairs
  <2>1. more \in SUBSET (Values \X Nat)
    BY <1>5, <1>6, <1>9
  <2> QED BY <1>5, <1>7, <2>1 DEF ReturnedPairs
<1>12. returned' = [returned EXCEPT ![i] = ret]
  <2>1. returned' = [returned EXCEPT ![i].vals = more]
    BY <1>2, <1>4, <1>6
  <2>2. [returned[i] EXCEPT !.vals = more] = ret
    BY <1>5, <1>7
  <2> QED BY <2>1, <2>2
<1>13. id_sets' = id_sets
  BY Zenon DEF AddToValues
<1>14. /\ id_sets' \in [Lexs -> SequenceLexicons] /\ values' \in [Lexs -> ValueLexicons]
       /\ returned' \in [Lexs -> ReturnedPairs]
  BY <1>1, <1>2, <1>9, <1>11, <1>12, <1>13
<1>15. ASSUME NEW k \in Lexs
       PROVE  LexiconKept(id_sets'[k], values'[k], returned'[k])
  BY <1>1, <1>2, <1>10, <1>12, <1>13
<1> QED BY <1>14, <1>15, Zenon DEF LexiconInv

\* The id a set has: of the empty set, of a singleton, or of a sequence.
IdOf(lex, S, id) ==
  \/ S = {} /\ id = kEmptySetId
  \/ S \in SUBSET Values /\ Cardinality(S) = 1 /\ S = {id} /\ id \in Nat
  \/ /\ S \in SUBSET Values /\ IsFiniteSet(S) /\ Cardinality(S) > 1
     /\ \E m \in lex.ids : id = Complement(m) /\ sequence(lex, m) = Sorted(S)

\* Complements are other negative numbers for other ids.
LEMMA ComplementsAre ==
  ASSUME NEW lex \in SequenceLexicons, Tiled(lex)
  PROVE  \A m \in lex.ids : /\ m \in Nat /\ Complement(m) \in Int /\ Complement(m) < 0
                            /\ Complement(m) # kEmptySetId
                            /\ Complement(Complement(m)) = m
<1>1. PICK n \in Nat : n = Len(lex.begins)
  BY LexiconParts
<1>2. n <= MaxIds + 1 /\ lex.ids = 0 .. (n - 2)
  BY <1>1, LexiconParts
<1>3. ASSUME NEW m \in lex.ids
      PROVE  m \in Nat /\ m \in 0 .. (MaxIds - 1)
  <2>1. MaxIds \in Nat
    BY IdsAre
  <2> QED BY <1>2, <2>1
<1>4. ASSUME NEW m \in lex.ids
      PROVE  Complement(m) # kEmptySetId
  BY <1>3, IdsAre, Zenon
<1>5. ASSUME NEW m \in lex.ids
      PROVE  Complement(m) \in Int /\ Complement(m) < 0 /\ Complement(Complement(m)) = m
  BY <1>3 DEF Complement
<1> QED BY <1>3, <1>4, <1>5

\* Equal sets have equal ids, and different sets different ones.
LEMMA IdsAgree ==
  ASSUME NEW lex \in SequenceLexicons, Tiled(lex),
         NEW S, NEW T, NEW a, NEW b, IdOf(lex, S, a), IdOf(lex, T, b)
  PROVE  S = T <=> a = b
<1> DEFINE Set(X, x) == X = {} /\ x = kEmptySetId
           One(X, x) == X \in SUBSET Values /\ Cardinality(X) = 1 /\ X = {x} /\ x \in Nat
           More(X, x) == /\ X \in SUBSET Values /\ IsFiniteSet(X) /\ Cardinality(X) > 1
                         /\ \E m \in lex.ids : x = Complement(m) /\ sequence(lex, m) = Sorted(X)
<1>1. (Set(S, a) \/ One(S, a) \/ More(S, a)) /\ (Set(T, b) \/ One(T, b) \/ More(T, b))
  BY Zenon DEF IdOf
<1>2. kEmptySetId \in Int /\ kEmptySetId < 0
  BY IdsAre
<1>3. Cardinality({}) = 0
  BY FS_EmptySet
<1>4. \A X, x : More(X, x) => X # {} /\ x \in Int /\ x < 0 /\ x # kEmptySetId
  <2> TAKE X, x
  <2> HAVE More(X, x)
  <2>1. PICK m \in lex.ids : x = Complement(m)
    OBVIOUS
  <2>2. x \in Int /\ x < 0 /\ x # kEmptySetId
    BY <2>1, ComplementsAre
  <2> QED BY <1>3, <2>2
<1>5. CASE More(S, a) /\ More(T, b)
  <2>1. PICK m \in lex.ids : a = Complement(m) /\ sequence(lex, m) = Sorted(S)
    BY <1>5
  <2>2. PICK n \in lex.ids : b = Complement(n) /\ sequence(lex, n) = Sorted(T)
    BY <1>5
  <2>3. ToSet(Sorted(S)) = S /\ ToSet(Sorted(T)) = T
    BY <1>5, SortedIs DEF InOrderOnce
  <2>4. a = b => m = n
    BY <2>1, <2>2, ComplementsAre
  <2>5. S = T => m = n
    <3>1. sequence(lex, m) = sequence(lex, n) => m = n
      BY Zenon DEF Tiled
    <3> QED BY <2>1, <2>2, <3>1, Zenon
  <2> QED BY <2>1, <2>2, <2>3, <2>4, <2>5, Zenon
<1>6. \A X, x, Y, y : Set(X, x) /\ Set(Y, y) => (X = Y <=> x = y)
  OBVIOUS
<1>7. \A X, x, Y, y : One(X, x) /\ One(Y, y) => (X = Y <=> x = y)
  OBVIOUS
<1>8. \A X, x, Y, y : Set(X, x) /\ One(Y, y) => X # Y /\ x # y
  BY <1>2
<1>9. \A X, x, Y, y : Set(X, x) /\ More(Y, y) => X # Y /\ x # y
  BY <1>4
<1>10. \A X, x, Y, y : One(X, x) /\ More(Y, y) => X # Y /\ x # y
  <2> TAKE X, x, Y, y
  <2> HAVE One(X, x) /\ More(Y, y)
  <2>1. Cardinality(X) = 1 /\ Cardinality(Y) > 1
    OBVIOUS
  <2>2. y < 0 /\ x \in Nat
    BY <1>4
  <2> QED BY <2>1, <2>2
<1> HIDE DEF Set, One, More
<1>11. CASE Set(S, a)
  BY <1>1, <1>6, <1>8, <1>9, <1>11
<1>12. CASE One(S, a)
  BY <1>1, <1>7, <1>8, <1>10, <1>12
<1>13. CASE More(S, a)
  BY <1>1, <1>5, <1>9, <1>10, <1>13
<1> QED BY <1>1, <1>11, <1>12, <1>13

\* An id reads back its set in order.
LEMMA IdReads ==
  ASSUME NEW lex \in SequenceLexicons, Tiled(lex), NEW S, NEW id, IdOf(lex, S, id)
  PROVE  InOrderOnce(S, id_set(lex, id))
<1>1. kEmptySetId \in Int /\ kEmptySetId < 0
  BY IdsAre
<1>2. CASE S = {} /\ id = kEmptySetId
  <2>1. ~ (id >= 0)
    BY <1>1, <1>2
  <2>2. id_set(lex, id) = << >>
    BY <1>2, <2>1, Zenon DEF id_set
  <2> QED BY <1>2, <2>2 DEF InOrderOnce, ToSet
<1>3. CASE S = {id} /\ id \in Nat
  <2>1. id >= 0 /\ id # kEmptySetId
    BY <1>1, <1>3
  <2>2. id_set(lex, id) = << id >>
    BY <2>1, Zenon DEF id_set
  <2>3. PICK t : t = << id >>
    OBVIOUS
  <2>4. DOMAIN t = {1} /\ t[1] = id
    BY <2>3
  <2>5. ToSet(t) = {id}
    BY <2>4 DEF ToSet
  <2>6. \A a, b \in DOMAIN t : a < b => t[a] < t[b]
    BY <2>4
  <2> QED BY <1>3, <2>2, <2>3, <2>5, <2>6, Zenon DEF InOrderOnce
<1>4. CASE /\ S \in SUBSET Values /\ IsFiniteSet(S)
           /\ \E m \in lex.ids : id = Complement(m) /\ sequence(lex, m) = Sorted(S)
  <2>1. PICK m \in lex.ids : id = Complement(m) /\ sequence(lex, m) = Sorted(S)
    BY <1>4
  <2>2. ~ (id >= 0) /\ id # kEmptySetId /\ Complement(id) = m
    BY <2>1, ComplementsAre
  <2>3. id_set(lex, id) = Sorted(S)
    BY <2>1, <2>2, Zenon DEF id_set
  <2>4. InOrderOnce(S, Sorted(S))
    BY <1>4, SortedIs
  <2> QED BY <2>3, <2>4
<1> QED BY <1>2, <1>3, <1>4, Zenon DEF IdOf

\* A lexicon has as many sequences as ids, all different.
LEMMA SequencesDiffer ==
  ASSUME NEW lex \in SequenceLexicons, Tiled(lex)
  PROVE  /\ Cardinality(SequencesOf(lex)) = Len(lex.begins) - 1
         /\ Len(lex.values) = Last(lex.begins)
<1>1. PICK n \in Nat : n = Len(lex.begins) /\ n >= 1
  BY LexiconParts DEF Tiled
<1>2. lex.ids = 0 .. (n - 2)
  BY <1>1, LexiconParts
<1>3. PICK T : T = { sequence(lex, id) : id \in lex.ids }
  OBVIOUS
<1>4. SequencesOf(lex) = T
  BY <1>1, <1>2, <1>3, Zenon DEF SequencesOf
<1>5. PICK f : f = [id \in lex.ids |-> sequence(lex, id)]
  OBVIOUS
<1>6. f \in Surjection(lex.ids, T)
  BY <1>3, <1>5 DEF Surjection
<1>7. f \in Injection(lex.ids, T)
  <2>1. \A a, b \in lex.ids : f[a] = f[b] => a = b
    BY <1>5, Zenon DEF Tiled
  <2>2. f \in [lex.ids -> T]
    BY <1>3, <1>5
  <2> QED BY <2>1, <2>2, Zenon DEF Injection, IsInjective
<1>8. IsFiniteSet(lex.ids) /\ Cardinality(lex.ids) = n - 1
  <2>1. IsFiniteSet(0 .. (n - 2)) /\ Cardinality(0 .. (n - 2)) = IF 0 > n - 2 THEN 0 ELSE (n - 2) - 0 + 1
    BY FS_Interval
  <2> QED BY <1>1, <1>2, <2>1
<1>9. Cardinality(T) = n - 1
  BY <1>6, <1>7, <1>8, FS_Surjection
<1>10. Last(lex.begins) = Len(lex.values)
  BY <1>1, Zenon DEF Tiled, Last
<1> QED BY <1>1, <1>4, <1>9, <1>10

\* Every set added has its id: those that take no space too.
LEMMA AllHaveIds ==
  ASSUME NEW lex \in SequenceLexicons
  PROVE  /\ \A p \in (SUBSET Values) \X Int : Kept(lex, p) => IdOf(lex, p[1], p[2])
         /\ \A s \in Added : Cardinality(ToSet(s)) < 2
                               => IdOf(lex, ToSet(s), AddInternal(lex, s)[2])
<1>1. ASSUME NEW p \in (SUBSET Values) \X Int, Kept(lex, p)
      PROVE  IdOf(lex, p[1], p[2])
  BY <1>1, Zenon DEF Kept, IdOf
<1>2. ASSUME NEW s \in Added, Cardinality(ToSet(s)) < 2
      PROVE  IdOf(lex, ToSet(s), AddInternal(lex, s)[2])
  <2>1. s \in Seq(Values)
    BY AddedAre
  <2>2. PICK r : r = AddInternal(lex, s)
    OBVIOUS
  <2>3. ~ (Cardinality(ToSet(s)) > 1)
    <3>1. Cardinality(ToSet(s)) \in Nat
      BY <2>1, MembersAre
    <3> QED BY <1>2, <3>1
  <2>4. NoSpace(r, lex, s)
    BY <2>1, <2>2, <2>3, InternalIs, Zenon
  <2>5. CASE s = << >> /\ r = << lex, kEmptySetId >>
    <3>1. r[2] = kEmptySetId
      BY <2>5
    <3>2. ToSet(s) = {}
      BY <2>1, <2>5, MembersAre
    <3> QED BY <2>2, <3>1, <3>2, Zenon DEF IdOf
  <2>6. CASE \E v \in Values : ToSet(s) = {v} /\ r = << lex, v >>
    <3>1. PICK v \in Values : ToSet(s) = {v} /\ r = << lex, v >>
      BY <2>6
    <3>2. r[2] = v /\ v \in Nat /\ {v} \in SUBSET Values
      BY <3>1, ValuesAreNat
    <3>3. Cardinality({v}) = 1
      BY FS_Singleton
    <3> QED BY <2>2, <3>1, <3>2, <3>3, Zenon DEF IdOf
  <2> QED BY <2>4, <2>5, <2>6, Zenon DEF NoSpace
<1> QED BY <1>1, <1>2

\* The invariant says that ids stand for sets and for values.
LEMMA InvIdsStandForSets == LexiconInv => IdsStandForSets
<1> SUFFICES ASSUME LexiconInv, NEW i \in Lexs, Usable(id_sets[i])
             PROVE  LET implicit == {<< ToSet(s), AddInternal(id_sets[i], s)[2] >> :
                                       s \in {t \in Added : Cardinality(ToSet(t)) < 2}}
                        all == returned[i].sets \cup implicit
                    IN /\ \A p, q \in all : p[1] = q[1] <=> p[2] = q[2]
                       /\ \A p \in all : LET s == id_set(id_sets[i], p[2])
                                         IN InOrderOnce(p[1], s)
                       /\ Cardinality(SequencesOf(id_sets[i])) = Len(id_sets[i].begins) - 1
                       /\ Len(id_sets[i].values) = Last(id_sets[i].begins)
  BY Zenon DEF IdsStandForSets
<1> DEFINE lex == id_sets[i]
           sets == returned[i].sets
<1>1. lex \in SequenceLexicons
  BY DEF LexiconInv
<1>3. sets \in SUBSET ((SUBSET Values) \X Int)
  <2>1. returned[i] \in ReturnedPairs
    BY Zenon DEF LexiconInv
  <2> QED BY <2>1 DEF ReturnedPairs
<1>4. Tiled(lex) /\ \A p \in sets : Kept(lex, p)
  BY Zenon DEF LexiconInv, LexiconKept, SetsKept
<1> DEFINE implicit == {<< ToSet(s), AddInternal(lex, s)[2] >> :
                          s \in {t \in Added : Cardinality(ToSet(t)) < 2}}
           all == sets \cup implicit
<1>5. \A p \in all : IdOf(lex, p[1], p[2])
  <2>1. ASSUME NEW p \in sets PROVE IdOf(lex, p[1], p[2])
    BY <1>1, <1>3, <1>4, AllHaveIds
  <2>2. ASSUME NEW p \in implicit PROVE IdOf(lex, p[1], p[2])
    <3>1. PICK s \in {t \in Added : Cardinality(ToSet(t)) < 2} :
            p = << ToSet(s), AddInternal(lex, s)[2] >>
      OBVIOUS
    <3>2. p[1] = ToSet(s) /\ p[2] = AddInternal(lex, s)[2]
      BY <3>1
    <3>3. IdOf(lex, ToSet(s), AddInternal(lex, s)[2])
      BY <1>1, AllHaveIds
    <3> QED BY <3>2, <3>3, Zenon
  <2> QED BY <2>1, <2>2
<1> HIDE DEF all, implicit, lex, sets
<1>6. \A p, q \in all : p[1] = q[1] <=> p[2] = q[2]
  <2> TAKE p \in all, q \in all
  <2>1. IdOf(lex, p[1], p[2]) /\ IdOf(lex, q[1], q[2])
    BY <1>5
  <2> QED BY <1>1, <1>4, <2>1, IdsAgree
<1>7. \A p \in all : InOrderOnce(p[1], id_set(lex, p[2]))
  <2> TAKE p \in all
  <2>1. IdOf(lex, p[1], p[2])
    BY <1>5
  <2> QED BY <1>1, <1>4, <2>1, IdReads
<1>8. /\ Cardinality(SequencesOf(lex)) = Len(lex.begins) - 1
      /\ Len(lex.values) = Last(lex.begins)
  BY <1>1, <1>4, SequencesDiffer
<1> QED BY <1>6, <1>7, <1>8, Zenon DEF all, implicit, lex, sets

LEMMA InvIdsStandForValues == LexiconInv => IdsStandForValues
<1> SUFFICES ASSUME LexiconInv, NEW i \in Lexs, ValuesUsable(values[i])
             PROVE  /\ \A p \in returned[i].vals : values[i].values[p[2] + 1] = p[1]
                    /\ {p[2] : p \in returned[i].vals} = 0..(Len(values[i].values) - 1)
                    /\ \A a, b \in DOMAIN values[i].values :
                         values[i].values[a] = values[i].values[b] => a = b
  BY Zenon DEF IdsStandForValues
<1>1. PICK V, I, vals : V = values[i].values /\ I = values[i].ids /\ vals = returned[i].vals
  OBVIOUS
<1>2. /\ I = 0 .. (Len(V) - 1) /\ vals = { <<V[id + 1], id>> : id \in I }
      /\ \A a, b \in DOMAIN V : V[a] = V[b] => a = b
  <2>1. ValuesKept(values[i], returned[i].vals)
    BY Zenon DEF LexiconInv, LexiconKept
  <2> QED BY <1>1, <2>1, Zenon DEF ValuesKept
<1>3. \A p \in vals : V[p[2] + 1] = p[1]
  BY <1>2
<1>4. {p[2] : p \in vals} = I
  <2>1. \A id \in I : << V[id + 1], id >> \in vals /\ << V[id + 1], id >>[2] = id
    BY <1>2
  <2>2. \A p \in vals : p[2] \in I
    BY <1>2
  <2>3. \A id \in I : id \in {p[2] : p \in vals}
    BY <2>1, Zenon
  <2> QED BY <2>2, <2>3
<1> QED BY <1>1, <1>2, <1>3, <1>4, Zenon

LEMMA LexiconsInductive ==
  /\ LexiconInit => LexiconInv
  /\ LexiconInv /\ [LexiconNext]_lexicon_vars => LexiconInv'
<1>1. ASSUME LexiconInit PROVE LexiconInv
  <2>1. PICK none : none = [sets |-> {}, vals |-> {}]
    OBVIOUS
  <2>2. /\ EmptyLexicon \in SequenceLexicons /\ EmptyValues \in ValueLexicons
        /\ none \in ReturnedPairs /\ LexiconKept(EmptyLexicon, EmptyValues, none)
    BY <2>1, EmptyKept, Zenon
  <2>3. /\ id_sets = [i \in Lexs |-> EmptyLexicon] /\ values = [i \in Lexs |-> EmptyValues]
        /\ returned = [i \in Lexs |-> none]
    BY <1>1, <2>1, Zenon DEF LexiconInit
  <2>4. /\ id_sets \in [Lexs -> SequenceLexicons] /\ values \in [Lexs -> ValueLexicons]
        /\ returned \in [Lexs -> ReturnedPairs]
    BY <2>2, <2>3
  <2>5. \A i \in Lexs : LexiconKept(id_sets[i], values[i], returned[i])
    BY <2>2, <2>3
  <2> QED BY <2>4, <2>5, Zenon DEF LexiconInv
<1>2. ASSUME LexiconInv, UNCHANGED lexicon_vars PROVE LexiconInv'
  <2>1. id_sets' = id_sets /\ values' = values /\ returned' = returned
    BY <1>2 DEF lexicon_vars
  <2> QED BY <1>2, <2>1, Zenon DEF LexiconInv
<1>3. ASSUME LexiconInv, LexiconNext PROVE LexiconInv'
  <2>1. 1 \in Lexs
    BY DEF Lexs
  <2>2. CASE \E i \in Lexs : ClearLexicons(i)
    BY <1>3, <2>2, ClearKeeps
  <2>3. CASE AddIdSet(1)
    BY <1>3, <2>1, <2>3, AddIdSetKeeps
  <2>4. CASE AddToValues(1)
    BY <1>3, <2>1, <2>4, AddKeeps
  <2>5. CASE \E i \in Lexs : \E j \in Lexs \ {i} : AssignTo(i, j) \/ MoveAssign(i, j)
    <3>1. PICK i \in Lexs, j \in Lexs : i # j /\ (AssignTo(i, j) \/ MoveAssign(i, j))
      BY <2>5
    <3> QED BY <1>3, <3>1, AssignKeeps, MoveKeeps
  <2> QED BY <1>3, <2>2, <2>3, <2>4, <2>5, Zenon DEF LexiconNext
<1> QED BY <1>1, <1>2, <1>3, Zenon

\* The ids of a lexicon stand for its sets and values (sequence_lexicon.h,
\* id_set_lexicon.cc, value_lexicon.h): equal sets have one id and different
\* sets different ones, an id keeps reading back its set in order, no sequence
\* is stored twice, and the ids of values count from zero without a gap,
\* whatever is added, cleared, copied or moved, for any numbers of them.
THEOREM LexiconsCorrect == LexiconSpec => []LexiconsExact
<1>1. LexiconInit => LexiconInv
  BY LexiconsInductive
<1>2. LexiconInv /\ [LexiconNext]_lexicon_vars => LexiconInv'
  BY LexiconsInductive
<1>3. LexiconInv => LexiconsExact
  BY InvIdsStandForSets, InvIdsStandForValues DEF LexiconsExact
<1> QED BY <1>1, <1>2, <1>3, PTL DEF LexiconSpec
=============================================================================
