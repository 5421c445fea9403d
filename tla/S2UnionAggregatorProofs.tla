----------------------- MODULE S2UnionAggregatorProofs -----------------------
(***************************************************************************)
(* Proofs about the union aggregator, for vectors of any length.           *)
(***************************************************************************)
EXTENDS S2UnionAggregator, FiniteSetTheorems, SequenceTheorems, WellFoundedInduction, TLAPS

\* The number of shapes of a merged object is that of its content's places.
Objects == [shapes : Nat \cup { Cardinality(c) : c \in SUBSET Nat },
            content : SUBSET Nat, depth : Nat]
Nodes == [index1 : SUBSET Nat, index2 : SUBSET Nat, data : SUBSET Nat]

Indexed(node) == node.index1 \cup node.index2

\* The types of the variables; the result's is part of ResultIsUnion.
AggTypes ==
  /\ geog \in Vectors
  /\ heap \in Seq(Objects) /\ Len(geog) <= Len(heap)
  /\ root_ \in Nodes /\ other_ \in Seq(Nodes)
  /\ element \in 1 .. Len(geog) + 1
  /\ round \in 0 .. MaxRounds /\ position \in Int
  /\ phase \in {"add", "merge", "done"}

\* The elements of the vector are the first objects, and nothing covers more
\* than they do.
HeapInv ==
  /\ \A k \in DOMAIN geog : heap[k].content = ContentOf(geog, k) /\ heap[k].depth = 0
  /\ \A o \in DOMAIN heap : heap[o].content \subseteq DOMAIN geog

\* The depth a node's geographies may have: those before the walk's position
\* are of an earlier round.
DepthOfNode(n) == IF phase = "merge" /\ n <= position + 1 THEN round - 1 ELSE round

\* Nodes refer to objects that exist, as deep as the rounds they went through.
TreeInv ==
  /\ phase # "done" => \A o \in Indexed(root_) : o \in DOMAIN heap /\ heap[o].depth = 0
  /\ \A n \in DOMAIN other_ : \A o \in Indexed(other_[n]) :
       o \in DOMAIN heap /\ heap[o].depth <= DepthOfNode(n)

\* The root or some node holds a geography that covers x.
Reached(x) ==
  \/ \E o \in Indexed(root_) : x \in heap[o].content
  \/ \E n \in DOMAIN other_ : \E o \in Indexed(other_[n]) : x \in heap[o].content

\* Elements added so far.
Taken == { k \in Present : k < element }

\* Nodes cover together what the elements added so far cover.
ContentInv ==
  phase # "done" =>
    /\ root_.index2 = {}
    /\ \A x \in DOMAIN geog : Reached(x) <=> \E k \in Taken : x \in ContentOf(geog, k)
    /\ \A k \in DOMAIN geog : k < element /\ geog[k] = NA => naRm

\* Every node but the last holds two elements when the merging starts.
\* Within a round, 2 * Len(other_) - position - 1 stays the number of nodes the
\* round started with, and 2 ^ round of the elements are behind each of these.
CountInv ==
  /\ phase = "add" =>
       /\ round = 0
       /\ 2 * Len(other_) <= Cardinality(Taken) + 1
       /\ other_ # <<>> /\ ~NoShapes(Last(other_).index1) /\ ~NoShapes(Last(other_).index2)
            => 2 * Len(other_) <= Cardinality(Taken)
  /\ phase = "merge" =>
       /\ element = Len(geog) + 1
       /\ round >= 1
       /\ 2 ^ round * (2 * Len(other_) - position - 2) + 1 <= Cardinality(Present)
       /\ 2 * Len(other_) - position - 2 >= 1
       /\ -1 <= position /\ position + 1 <= Len(other_)

\* The inductive invariant.
AggInv ==
  /\ AggTypes /\ HeapInv /\ TreeInv /\ ContentInv /\ CountInv
  /\ IndexedAreAlive /\ ResultIsUnion /\ MergesAreBalanced

-----------------------------------------------------------------------------
\* A bounded set of naturals has the maximum that Max returns.
LEMMA MaxOfBounded ==
  ASSUME NEW n \in Nat, NEW S, S \subseteq 0 .. n, S # {}
  PROVE  Max(S) \in S /\ \A y \in S : y <= Max(S)
  <1> DEFINE T == { n - x : x \in S }
  <1>1. T \subseteq Nat /\ T # {}
    <2>1. \A x \in S : x \in 0 .. n
      OBVIOUS
    <2>2. PICK x \in S : TRUE
      OBVIOUS
    <2>3. n - x \in T
      BY <2>2
    <2>4. \A x_1 \in S : n - x_1 \in Nat
      BY <2>1
    <2> QED
      BY <2>3, <2>4
  <1>2. PICK t \in T : \A u \in T : u >= t
    <2> DEFINE less == { ss \in Nat \X Nat : ss[1] < ss[2] }
    <2>1. IsWellFoundedOn(less, Nat)
      BY NatLessThanWellFounded DEF OpToRel
    <2> HIDE DEF less, T
    <2>2. PICK t \in T : \A u \in T : ~(<< u, t >> \in less)
      BY <1>1, <2>1, WFMin
    <2>3. \A u \in T : ~(u < t)
      BY <1>1, <2>2 DEF less
    <2> QED
      BY <1>1, <2>3
  <1>4. PICK x \in S : t = n - x
    OBVIOUS
  <1>5. \A y \in S : x >= y
    BY <1>2, <1>4
  <1> QED
    BY <1>5 DEF Max

\* A merged geography covers what its parts cover and is one merge deeper.
LEMMA MergedObject ==
  ASSUME NEW h \in Seq(Objects), NEW objs, objs \subseteq DOMAIN h,
         NEW d \in Nat, \A o \in objs : h[o].depth <= d
  PROVE  /\ Merged(h, objs) \in Objects
         /\ Merged(h, objs).content = UNION { h[o].content : o \in objs }
         /\ Merged(h, objs).depth <= d + 1
  <1> DEFINE depths == { h[o].depth : o \in objs } \cup {0}
             content == UNION { h[o].content : o \in objs }
  <1>1. \A o \in objs : h[o] \in Objects
    OBVIOUS
  <1>2. \A o \in objs : h[o].depth \in 0 .. d /\ h[o].content \subseteq Nat
    BY <1>1 DEF Objects
  <1>3. depths \subseteq 0 .. d /\ depths # {}
    BY <1>2
  <1>4. Max(depths) \in 0 .. d
    <2> HIDE DEF depths
    <2> QED
      BY <1>3, MaxOfBounded
  <1>5. content \in SUBSET Nat
    BY <1>2
  <1>6. Merged(h, objs) = [shapes |-> Cardinality(content), content |-> content,
                           depth |-> 1 + Max(depths)]
    BY DEF Merged
  <1> HIDE DEF depths, content
  <1>7. 1 + Max(depths) \in Nat /\ 1 + Max(depths) <= d + 1
    BY <1>4
  <1>8. Cardinality(content) \in { Cardinality(c) : c \in SUBSET Nat }
    BY <1>5
  <1>9. Merged(h, objs) \in Objects
    BY <1>5, <1>6, <1>7, <1>8 DEF Objects
  <1> QED
    BY <1>6, <1>7, <1>9 DEF content

-----------------------------------------------------------------------------
\* The vector is finite, and so are the elements that count.
LEMMA VectorFacts ==
  ASSUME AggTypes
  PROVE  /\ geog \in Seq(Elements) /\ Len(geog) \in Nat /\ DOMAIN geog = 1 .. Len(geog)
         /\ Len(geog) <= 2 ^ MaxRounds
         /\ IsFiniteSet(Taken) /\ Cardinality(Taken) \in Nat
         /\ IsFiniteSet(Present) /\ Cardinality(Present) \in Nat
         /\ Cardinality(Present) <= Len(geog)
  <1>1. geog \in Seq(Elements) /\ Len(geog) \in Nat /\ DOMAIN geog = 1 .. Len(geog)
    BY VectorsAssumption DEF AggTypes
  <1>2. Len(geog) <= 2 ^ MaxRounds
    BY RoundsSuffice DEF AggTypes
  <1>3. IsFiniteSet(1 .. Len(geog)) /\ Cardinality(1 .. Len(geog)) = Len(geog)
    BY <1>1, FS_Interval
  <1>4. Present \in SUBSET (1 .. Len(geog)) /\ Taken \in SUBSET (1 .. Len(geog))
    BY <1>1 DEF Present, Taken
  <1>5. /\ IsFiniteSet(Present) /\ Cardinality(Present) <= Len(geog)
        /\ IsFiniteSet(Taken)
    BY <1>3, <1>4, FS_Subset
  <1> QED
    BY <1>1, <1>2, <1>5, FS_CardinalityType

\* An empty aggregator satisfies the invariant.
LEMMA InitAggInv == Init => AggInv
  <1> SUFFICES ASSUME Init
               PROVE  AggInv
    OBVIOUS
  <1>1. geog \in Seq(Elements) /\ Len(geog) \in Nat /\ DOMAIN geog = 1 .. Len(geog)
    BY VectorsAssumption DEF Init
  <1>2. \A k \in DOMAIN geog :
          /\ ContentOf(geog, k) \in SUBSET Nat /\ ContentOf(geog, k) \subseteq {k}
          /\ (IF geog[k] = NA THEN 0 ELSE geog[k].shapes) \in Nat
    BY <1>1 DEF ContentOf, Elements
  <1>3. /\ heap \in Seq(Objects) /\ Len(heap) = Len(geog)
        /\ \A k \in DOMAIN geog : heap[k].content = ContentOf(geog, k) /\ heap[k].depth = 0
        /\ DOMAIN heap = DOMAIN geog
    BY <1>1, <1>2 DEF Init, Objects
  <1>4. EmptyNode \in Nodes /\ Indexed(EmptyNode) = {}
    BY DEF EmptyNode, Nodes, Indexed
  <1>5. AggTypes
    BY <1>1, <1>3, <1>4, RoundsSuffice DEF Init, AggTypes
  <1>6. HeapInv
    BY <1>1, <1>2, <1>3 DEF HeapInv
  <1>7. TreeInv
    BY <1>4 DEF Init, TreeInv
  <1>8. Taken = {}
    BY <1>1 DEF Init, Taken, Present
  <1>9. ContentInv
    BY <1>1, <1>4, <1>8 DEF Init, ContentInv, Reached, EmptyNode
  <1>10. CountInv
    BY <1>8, FS_EmptySet DEF Init, CountInv
  <1>11. IndexedAreAlive /\ ResultIsUnion /\ MergesAreBalanced
    BY DEF Init, IndexedAreAlive, ResultIsUnion, MergesAreBalanced
  <1> QED
    BY <1>5, <1>6, <1>7, <1>9, <1>10, <1>11 DEF AggInv

\* A missing element is skipped or ends the call.
LEMMA AddMissingInv == AggInv /\ AddMissing => AggInv'
  <1> SUFFICES ASSUME AggInv, AddMissing
               PROVE  AggInv'
    OBVIOUS
  <1>1. /\ geog \in Seq(Elements) /\ Len(geog) \in Nat /\ DOMAIN geog = 1 .. Len(geog)
        /\ element \in 1 .. Len(geog)
    BY VectorFacts DEF AggInv, AggTypes, AddMissing
  <1>2. CASE naRm
    <2>1. phase = "add" /\ phase' = "add" /\ element' = element + 1
          /\ UNCHANGED <<geog, naRm, heap, root_, other_, round, position, result>>
      BY <1>2 DEF AddMissing
    <2>2. Taken' = Taken /\ Present' = Present
      BY <1>1, <2>1 DEF AddMissing, Taken, Present
    <2>3. AggTypes' /\ HeapInv' /\ TreeInv'
      BY <1>1, <2>1 DEF AggInv, AggTypes, HeapInv, TreeInv, DepthOfNode
    <2>4. ContentInv'
      BY <1>1, <1>2, <2>1, <2>2 DEF AggInv, ContentInv, Reached
    <2>5. CountInv'
      BY <2>1, <2>2 DEF AggInv, CountInv, NoShapes
    <2>6. IndexedAreAlive' /\ ResultIsUnion' /\ MergesAreBalanced'
      BY <2>1, <2>2 DEF AggInv, IndexedAreAlive, ResultIsUnion, MergesAreBalanced
    <2> QED
      BY <2>3, <2>4, <2>5, <2>6 DEF AggInv
  <1>3. CASE ~naRm
    <2>1. phase = "add" /\ phase' = "done" /\ result' = NA
          /\ UNCHANGED <<geog, naRm, heap, root_, other_, element, round, position>>
      BY <1>3 DEF AddMissing
    <2>2. Present' = Present /\ Present # DOMAIN geog
      BY <1>1, <2>1 DEF AddMissing, Present
    <2>3. AggTypes' /\ HeapInv'
      BY <1>1, <2>1 DEF AggInv, AggTypes, HeapInv
    <2>4. TreeInv'
      BY <2>1 DEF AggInv, TreeInv, DepthOfNode
    <2>5. ContentInv' /\ CountInv' /\ MergesAreBalanced'
      BY <2>1 DEF ContentInv, CountInv, MergesAreBalanced
    <2>6. IndexedAreAlive' /\ ResultIsUnion'
      BY <1>3, <2>1, <2>2 DEF AggInv, IndexedAreAlive, ResultIsUnion
    <2> QED
      BY <2>3, <2>4, <2>5, <2>6 DEF AggInv
  <1> QED
    BY <1>2, <1>3

\* The nodes after geography o is added: the last node has it too, or a new one
\* has it alone, made because both indexes of the last one had shapes.
BothFull == ~NoShapes(Last(other_).index1) /\ ~NoShapes(Last(other_).index2)
AddedToLast(after, o) ==
  /\ Len(after) = Len(other_) /\ other_ # <<>> /\ ~BothFull
  /\ Indexed(after[Len(after)]) = Indexed(other_[Len(after)]) \cup {o}
  /\ after[Len(after)].data = other_[Len(after)].data
AddedAsNew(after, o) ==
  /\ Len(after) = Len(other_) + 1 /\ (other_ = <<>> \/ BothFull)
  /\ Indexed(after[Len(after)]) = {o}
  /\ after[Len(after)].index2 = {}
NodesGrow(after, o) ==
  /\ after \in Seq(Nodes) /\ Len(after) \in Nat \ {0}
  /\ \A n \in DOMAIN other_ : n # Len(after) => after[n] = other_[n]
  /\ AddedToLast(after, o) \/ AddedAsNew(after, o)

\* AddToNodes adds the geography to the last node or to a new one.
LEMMA AddToNodesLast ==
  ASSUME other_ \in Seq(Nodes), NEW o \in Nat
  PROVE  NodesGrow(AddToNodes(o), o)
  <1> DEFINE fresh == [EmptyNode EXCEPT !.index1 = {o}]
  <1>1. fresh \in Nodes /\ Indexed(fresh) = {o} /\ fresh.index2 = {} /\ fresh.data = {}
    BY DEF EmptyNode, Nodes, Indexed
  <1>2. Len(other_) \in Nat /\ DOMAIN other_ = 1 .. Len(other_)
    OBVIOUS
  <1> HIDE DEF fresh
  <1>3. CASE other_ = <<>>
    <2>1. AddToNodes(o) = << fresh >>
      BY <1>3 DEF AddToNodes, fresh
    <2>2. NodesGrow(<< fresh >>, o)
      BY <1>1, <1>3 DEF NodesGrow, AddedAsNew
    <2> QED
      BY <2>1, <2>2
  <1>4. CASE other_ # <<>>
    <2> DEFINE m == Len(other_)
               one == [other_ EXCEPT ![m].index1 = @ \cup {o}]
               two == [other_ EXCEPT ![m].index2 = @ \cup {o}]
    <2>1. m \in DOMAIN other_ /\ m \in Nat \ {0} /\ other_[m] \in Nodes
      BY <1>2, <1>4
    <2>2. /\ one \in Seq(Nodes) /\ Len(one) = m
          /\ Indexed(one[m]) = Indexed(other_[m]) \cup {o} /\ one[m].data = other_[m].data
          /\ \A n \in DOMAIN other_ : n # m => one[n] = other_[n]
      BY <1>2, <2>1 DEF Nodes, Indexed
    <2>3. /\ two \in Seq(Nodes) /\ Len(two) = m
          /\ Indexed(two[m]) = Indexed(other_[m]) \cup {o} /\ two[m].data = other_[m].data
          /\ \A n \in DOMAIN other_ : n # m => two[n] = other_[n]
      BY <1>2, <2>1 DEF Nodes, Indexed
    <2>4. /\ Append(other_, fresh) \in Seq(Nodes) /\ Len(Append(other_, fresh)) = m + 1
          /\ Append(other_, fresh)[m + 1] = fresh
          /\ \A n \in DOMAIN other_ : Append(other_, fresh)[n] = other_[n]
      BY <1>1, <1>2, <2>1
    <2>5. /\ NoShapes(Last(other_).index1) => AddToNodes(o) = one
          /\ ~NoShapes(Last(other_).index1) /\ NoShapes(Last(other_).index2)
               => AddToNodes(o) = two
          /\ BothFull => AddToNodes(o) = Append(other_, fresh)
      BY <1>4, Zenon DEF AddToNodes, BothFull, fresh
    <2> HIDE DEF one, two
    <2>6. CASE ~BothFull
      <3>1. AddToNodes(o) = one \/ AddToNodes(o) = two
        BY <2>5, <2>6, Zenon DEF BothFull
      <3>2. NodesGrow(one, o)
        BY <1>4, <2>1, <2>2, <2>6 DEF NodesGrow, AddedToLast
      <3>3. NodesGrow(two, o)
        BY <1>4, <2>1, <2>3, <2>6 DEF NodesGrow, AddedToLast
      <3> QED
        BY <3>1, <3>2, <3>3
    <2>7. CASE BothFull
      <3>1. NodesGrow(Append(other_, fresh), o)
        BY <1>1, <2>1, <2>4, <2>7 DEF NodesGrow, AddedAsNew
      <3> QED
        BY <2>5, <2>7, <3>1
    <2> QED
      BY <2>6, <2>7
  <1> QED
    BY <1>3, <1>4

\* An element is added to the root or to the nodes.
LEMMA AddInv == AggInv /\ Add => AggInv'
  <1> SUFFICES ASSUME AggInv, Add
               PROVE  AggInv'
    OBVIOUS
  <1> DEFINE at == Len(other_')
  <1>1. /\ geog \in Seq(Elements) /\ Len(geog) \in Nat /\ DOMAIN geog = 1 .. Len(geog)
        /\ element \in 1 .. Len(geog) /\ element \in Nat
        /\ IsFiniteSet(Taken) /\ Cardinality(Taken) \in Nat
    BY VectorFacts DEF AggInv, AggTypes, Add
  <1>2. /\ phase = "add" /\ element' = element + 1 /\ geog[element] # NA
        /\ UNCHANGED <<geog, naRm, heap, round, position, phase, result>>
    BY DEF Add
  <1>3. Taken' = Taken \cup {element} /\ element \notin Taken /\ Present' = Present
    BY <1>1, <1>2 DEF Taken, Present
  <1>4. Cardinality(Taken') = Cardinality(Taken) + 1
    BY <1>1, <1>3, FS_AddElement
  <1>5. /\ element \in DOMAIN heap /\ heap[element].depth = 0
        /\ heap[element].content = ContentOf(geog, element) /\ element \in Present
        /\ DOMAIN heap = 1 .. Len(heap)
    BY <1>1, <1>2 DEF AggInv, AggTypes, HeapInv, Present
  <1>6. HeapInv' /\ ResultIsUnion' /\ MergesAreBalanced'
    BY <1>2 DEF AggInv, HeapInv, ResultIsUnion, MergesAreBalanced
  <1>7. round = 0
    BY <1>2 DEF AggInv, CountInv
  <1>8. CASE root_' = [root_ EXCEPT !.index1 = @ \cup {element}] /\ UNCHANGED other_
    <2>1. /\ root_' \in Nodes /\ Indexed(root_') = Indexed(root_) \cup {element}
          /\ root_'.index2 = root_.index2
      BY <1>1, <1>8 DEF AggInv, AggTypes, Nodes, Indexed
    <2>2. AggTypes'
      BY <1>1, <1>2, <1>8, <2>1 DEF AggInv, AggTypes
    <2>3. TreeInv'
      BY <1>2, <1>5, <1>8, <2>1 DEF AggInv, TreeInv, DepthOfNode
    <2>4. ContentInv'
      <3>1. \A x : Reached(x)' <=> Reached(x) \/ x \in heap[element].content
        BY <1>2, <1>8, <2>1 DEF Reached
      <3> QED
        BY <1>1, <1>2, <1>3, <1>5, <2>1, <3>1 DEF AggInv, ContentInv
    <2>5. CountInv'
      BY <1>1, <1>2, <1>4, <1>8 DEF AggInv, AggTypes, CountInv, NoShapes
    <2>6. IndexedAreAlive'
      BY <1>2, <1>3, <1>8 DEF AggInv, IndexedAreAlive
    <2> QED
      BY <1>6, <2>2, <2>3, <2>4, <2>5, <2>6 DEF AggInv
  <1>9. CASE other_' = AddToNodes(element) /\ UNCHANGED root_
    <2>1. other_ \in Seq(Nodes) /\ DOMAIN other_ = 1 .. Len(other_) /\ Len(other_) \in Nat
      BY DEF AggInv, AggTypes
    <2>2. NodesGrow(other_', element)
      BY <1>1, <1>9, <2>1, AddToNodesLast
    <2>3. /\ other_' \in Seq(Nodes) /\ at \in Nat \ {0} /\ DOMAIN other_' = 1 .. at
          /\ at = Len(other_) \/ at = Len(other_) + 1
          /\ \A n \in DOMAIN other_ : n # at => other_'[n] = other_[n]
          /\ at \in DOMAIN other_ => Indexed(other_'[at]) = Indexed(other_[at]) \cup {element}
          /\ at \in DOMAIN other_ => other_'[at].data = other_[at].data
          /\ at \notin DOMAIN other_ => Indexed(other_'[at]) = {element}
      BY <2>1, <2>2 DEF NodesGrow, AddedToLast, AddedAsNew
    <2>len. at \in Nat /\ Len(other_) \in Nat /\ (at = Len(other_) \/ at = Len(other_) + 1)
      BY <2>1, <2>3
    <2> HIDE DEF at
    <2>4. AggTypes'
      BY <1>1, <1>2, <1>9, <2>3 DEF AggInv, AggTypes
    <2>5. ASSUME NEW n \in DOMAIN other_', n # at
          PROVE  n \in DOMAIN other_ /\ other_'[n] = other_[n]
      <3>1. n \in 1 .. at
        BY <2>3
      <3>2. n \in 1 .. Len(other_)
        BY <2>len, <2>5, <3>1
      <3> QED
        BY <2>1, <2>3, <2>5, <3>2
    <2>6. ASSUME NEW n \in DOMAIN other_
          PROVE  n \in DOMAIN other_' /\ (n # at => other_'[n] = other_[n])
      <3>1. n \in 1 .. Len(other_)
        BY <2>1
      <3>2. n \in 1 .. at
        BY <2>len, <3>1
      <3> QED
        BY <2>3, <3>2
    <2>7. TreeInv'
      <3>1. /\ \A o \in Indexed(root_) : o \in DOMAIN heap /\ heap[o].depth = 0
            /\ \A n \in DOMAIN other_ : \A o \in Indexed(other_[n]) :
                 o \in DOMAIN heap /\ heap[o].depth <= 0
        BY <1>2, <1>7 DEF AggInv, TreeInv, DepthOfNode
      <3>2. \A o \in Indexed(other_'[at]) : o \in DOMAIN heap /\ heap[o].depth <= 0
        BY <1>5, <2>3, <3>1
      <3> QED
        BY <1>2, <1>7, <1>9, <2>5, <3>1, <3>2 DEF TreeInv, DepthOfNode
    <2>8. ContentInv'
      <3>1. \A x : Reached(x)' <=> Reached(x) \/ x \in heap[element].content
        <4>1. \A n \in DOMAIN other_' :
                Indexed(other_'[n]) = (IF n \in DOMAIN other_ THEN Indexed(other_[n]) ELSE {})
                                        \cup (IF n = at THEN {element} ELSE {})
          BY <2>1, <2>3, <2>5
        <4>2. at \in DOMAIN other_'
          BY <2>3
        <4> QED
          BY <1>2, <1>9, <2>6, <4>1, <4>2 DEF Reached
      <3> QED
        BY <1>1, <1>2, <1>3, <1>5, <1>9, <3>1 DEF AggInv, ContentInv
    <2>9. CountInv'
      <3>1. /\ 2 * Len(other_) <= Cardinality(Taken) + 1
            /\ other_ # <<>> /\ BothFull => 2 * Len(other_) <= Cardinality(Taken)
        BY <1>2 DEF AggInv, CountInv, BothFull
      <3>2. CASE AddedAsNew(other_', element)
        <4>1. NoShapes(Last(other_).index2)'
          BY <2>3, <3>2 DEF NoShapes, AddedAsNew, Last, at
        <4>2. 2 * at <= Cardinality(Taken) + 2
          BY <1>1, <2>1, <3>1, <3>2 DEF AddedAsNew, at
        <4>3. 2 * at <= Cardinality(Taken') + 1
          BY <1>1, <1>4, <2>len, <4>2
        <4> QED
          BY <1>2, <1>7, <4>1, <4>3, Zenon DEF CountInv, at
      <3>3. CASE AddedToLast(other_', element)
        <4>1. 2 * at <= Cardinality(Taken) + 1
          BY <1>1, <2>1, <3>1, <3>3 DEF AddedToLast, at
        <4>2. 2 * at <= Cardinality(Taken') /\ 2 * at <= Cardinality(Taken') + 1
          BY <1>1, <1>4, <2>len, <4>1
        <4> QED
          BY <1>2, <1>7, <4>2, Zenon DEF CountInv, at
      <3> QED
        BY <2>2, <3>2, <3>3 DEF NodesGrow
    <2>10. IndexedAreAlive'
      <3>1. \A n \in DOMAIN other_ : Indexed(other_[n]) \subseteq Present \cup other_[n].data
        BY DEF AggInv, IndexedAreAlive, Indexed
      <3>2. Indexed(other_'[at]) \subseteq Present \cup other_'[at].data
        BY <1>5, <2>3, <3>1
      <3>3. \A n \in DOMAIN other_' : Indexed(other_'[n]) \subseteq Present \cup other_'[n].data
        BY <2>5, <3>1, <3>2
      <3> QED
        BY <1>3, <3>3 DEF IndexedAreAlive, Indexed
    <2> QED
      BY <1>6, <2>4, <2>7, <2>8, <2>9, <2>10 DEF AggInv
  <1> QED
    BY <1>8, <1>9 DEF Add

\* A round starts with nodes that have at least 2 ^ round elements behind each
\* but one of them.
LEMMA StartRoundInv == AggInv /\ StartRound => AggInv'
  <1> SUFFICES ASSUME AggInv, StartRound
               PROVE  AggInv'
    OBVIOUS
  <1>1. /\ phase' = "merge" /\ round' = round + 1 /\ position' = Len(other_) - 1
        /\ Len(other_) > 1 /\ round < MaxRounds /\ phase # "done"
        /\ UNCHANGED <<geog, naRm, heap, root_, other_, element, result>>
    BY DEF StartRound
  <1>2. /\ other_ \in Seq(Nodes) /\ DOMAIN other_ = 1 .. Len(other_) /\ Len(other_) \in Nat
        /\ heap \in Seq(Objects) /\ round \in Nat /\ position \in Int /\ MaxRounds \in Nat
        /\ element \in 1 .. Len(geog) + 1 /\ Len(geog) \in Nat /\ DOMAIN geog = 1 .. Len(geog)
        /\ Cardinality(Present) \in Nat
    BY VectorFacts, RoundsSuffice DEF AggInv, AggTypes
  <1>3. AggTypes' /\ HeapInv'
    BY <1>1, <1>2 DEF AggInv, AggTypes, HeapInv
  <1>4. Present' = Present /\ Taken' = Taken
    BY <1>1 DEF Present, Taken
  <1>5. TreeInv'
    <2>1. \A n \in DOMAIN other_ : DepthOfNode(n) <= round /\ DepthOfNode(n) \in Int
      BY <1>2 DEF DepthOfNode
    <2>2. \A n \in DOMAIN other_ : DepthOfNode(n)' = round
      BY <1>1, <1>2 DEF DepthOfNode
    <2>3. \A o \in DOMAIN heap : heap[o].depth \in Nat
      <3>1. \A o \in DOMAIN heap : heap[o] \in Objects
        BY <1>2
      <3> QED
        BY <3>1 DEF Objects
    <2>4. \A n \in DOMAIN other_ : \A o \in Indexed(other_[n]) :
            o \in DOMAIN heap /\ heap[o].depth <= round
      BY <1>2, <2>1, <2>3 DEF AggInv, TreeInv
    <2> QED
      BY <1>1, <2>2, <2>4 DEF AggInv, TreeInv
  <1>6. ContentInv'
    BY <1>1, <1>4 DEF AggInv, ContentInv, Reached
  <1>7. CountInv'
    <2>1. 2 ^ round \in Nat /\ 2 ^ (round + 1) = 2 * 2 ^ round
      BY <1>1, <1>2, PowersOfTwo
    <2>2. /\ element = Len(geog) + 1
          /\ 2 ^ (round + 1) * (Len(other_) - 1) + 1 <= Cardinality(Present)
      <3>1. CASE phase = "add"
        <4>1. element = Len(geog) + 1
          BY <1>2, <3>1 DEF StartRound
        <4>2. Taken = Present
          BY <1>2, <4>1 DEF Taken, Present
        <4>3. round = 0 /\ 2 * Len(other_) <= Cardinality(Present) + 1
          BY <3>1, <4>2 DEF AggInv, CountInv
        <4> QED
          BY <1>2, <2>1, <4>1, <4>3, PowersOfTwo
      <3>2. CASE phase = "merge"
        <4>1. /\ element = Len(geog) + 1 /\ position <= 0
              /\ 2 ^ round * (2 * Len(other_) - position - 2) + 1 <= Cardinality(Present)
          BY <1>2, <3>2 DEF AggInv, CountInv, StartRound, InnerLoop
        <4> DEFINE p == 2 ^ round
                   a == 2 * (Len(other_) - 1)
                   b == 2 * Len(other_) - position - 2
        <4>2. a \in Int /\ b \in Int /\ a <= b /\ p \in Nat
          BY <1>2, <2>1, <4>1
        <4>3. \A x \in Nat : \A y, z \in Int : y <= z => x * y <= x * z
          OBVIOUS
        <4>4. p * a <= p * b
          BY <4>2, <4>3
        <4>5. 2 ^ (round + 1) * (Len(other_) - 1) = p * a
          BY <1>2, <2>1
        <4>6. 2 ^ (round + 1) * (Len(other_) - 1) \in Int /\ p * b \in Int
          BY <1>2, <2>1, <4>2
        <4> QED
          BY <1>2, <4>1, <4>4, <4>5, <4>6
      <3> QED
        BY <1>1, <3>1, <3>2 DEF StartRound
    <2>3. 2 * Len(other_) - (Len(other_) - 1) - 2 = Len(other_) - 1
      BY <1>2
    <2> QED
      BY <1>1, <1>2, <1>4, <2>2, <2>3 DEF CountInv
  <1>8. IndexedAreAlive' /\ ResultIsUnion' /\ MergesAreBalanced'
    BY <1>1, <1>4 DEF AggInv, IndexedAreAlive, ResultIsUnion, MergesAreBalanced
  <1> QED
    BY <1>3, <1>5, <1>6, <1>7, <1>8 DEF AggInv

\* Two neighbours of a sequence are replaced by an element at its end.
PairReplaced(s, p, e) == SubSeq(s, 1, p - 1) \o SubSeq(s, p + 2, Len(s)) \o << e >>
IsPairReplaced(t, s, p, e) ==
  /\ Len(t) = Len(s) - 1 /\ DOMAIN t = 1 .. Len(s) - 1
  /\ \A n \in 1 .. p - 1 : t[n] = s[n]
  /\ \A n \in p .. Len(s) - 2 : t[n] = s[n + 2]
  /\ t[Len(s) - 1] = e
LEMMA ReplacePair ==
  ASSUME NEW S, NEW s \in Seq(S), NEW e \in S, NEW p \in Nat \ {0}, p + 1 <= Len(s)
  PROVE  /\ PairReplaced(s, p, e) \in Seq(S)
         /\ IsPairReplaced(PairReplaced(s, p, e), s, p, e)
  <1> DEFINE t == PairReplaced(s, p, e)
  <1> DEFINE front == SubSeq(s, 1, p - 1)
             back == SubSeq(s, p + 2, Len(s))
  <1>1. Len(s) \in Nat /\ DOMAIN s = 1 .. Len(s)
    OBVIOUS
  <1>2. front \in Seq(S) /\ Len(front) = p - 1 /\ \A n \in 1 .. p - 1 : front[n] = s[n]
    <2>1. \A i \in 1 .. p - 1 : s[i] \in S
      BY <1>1
    <2>2. /\ front \in Seq(S) /\ Len(front) = IF 1 <= p - 1 THEN p - 1 - 1 + 1 ELSE 0
          /\ \A n \in 1 .. p - 1 - 1 + 1 : front[n] = s[1 + n - 1]
      BY <2>1, SubSeqProperties
    <2> HIDE DEF front
    <2> QED
      BY <2>2
  <1>3. /\ back \in Seq(S) /\ Len(back) = Len(s) - p - 1
        /\ \A n \in 1 .. Len(s) - p - 1 : back[n] = s[p + 1 + n]
    <2>1. \A i \in p + 2 .. Len(s) : s[i] \in S
      <3>1. \A i \in p + 2 .. Len(s) : i \in 1 .. Len(s)
        BY <1>1
      <3> QED
        BY <1>1, <3>1
    <2>2. /\ back \in Seq(S)
          /\ Len(back) = IF p + 2 <= Len(s) THEN Len(s) - (p + 2) + 1 ELSE 0
          /\ \A n \in 1 .. Len(s) - (p + 2) + 1 : back[n] = s[p + 2 + n - 1]
      BY <1>1, <2>1, SubSeqProperties
    <2> HIDE DEF back
    <2>3. \A n \in 1 .. Len(s) - p - 1 : n \in 1 .. Len(s) - (p + 2) + 1 /\ p + 2 + n - 1 = p + 1 + n
      BY <1>1
    <2>4. Len(back) = Len(s) - p - 1
      <3>1. CASE p + 2 <= Len(s)
        <4>1. Len(back) = Len(s) - (p + 2) + 1
          BY <2>2, <3>1, Zenon
        <4> QED
          BY <1>1, <4>1
      <3>2. CASE ~(p + 2 <= Len(s))
        <4>1. Len(back) = 0
          BY <2>2, <3>2, Zenon
        <4>2. \A a, b \in Nat : b + 1 <= a /\ ~(b + 2 <= a) => a = b + 1
          OBVIOUS
        <4>3. Len(s) = p + 1
          BY <1>1, <3>2, <4>2
        <4> QED
          BY <4>1, <4>3
      <3> QED
        BY <3>1, <3>2
    <2>5. \A n \in 1 .. Len(s) - p - 1 : back[n] = s[p + 1 + n]
      BY <2>2, <2>3
    <2> QED
      BY <2>2, <2>4, <2>5
  <1>4. t = (front \o back) \o << e >>
    BY DEF PairReplaced
  <1> HIDE DEF front, back, t
  <1> DEFINE both == front \o back
  <1>5. /\ both \in Seq(S) /\ Len(both) = Len(s) - 2
        /\ \A n \in 1 .. Len(s) - 2 : both[n] = IF n <= p - 1 THEN front[n] ELSE back[n - (p - 1)]
    <2>1. /\ both \in Seq(S) /\ Len(both) = Len(front) + Len(back)
          /\ \A n \in 1 .. Len(front) + Len(back) :
               both[n] = IF n <= Len(front) THEN front[n] ELSE back[n - Len(front)]
      BY <1>2, <1>3, ConcatProperties
    <2>2. Len(front) + Len(back) = Len(s) - 2 /\ Len(front) = p - 1
      BY <1>1, <1>2, <1>3
    <2> QED
      BY <2>1, <2>2
  <1>6. \A n \in 1 .. p - 1 : both[n] = s[n]
    BY <1>1, <1>2, <1>5
  <1>7. ASSUME NEW n \in p .. Len(s) - 2
        PROVE  both[n] = s[n + 2]
    <2>1. n - (p - 1) \in 1 .. Len(s) - p - 1 /\ p + 1 + (n - (p - 1)) = n + 2
          /\ n \in 1 .. Len(s) - 2 /\ ~(n <= p - 1)
      BY <1>1
    <2>2. back[n - (p - 1)] = s[p + 1 + (n - (p - 1))]
      BY <1>3, <2>1
    <2> QED
      BY <1>5, <2>1, <2>2
  <1> HIDE DEF both
  <1>8. /\ t \in Seq(S) /\ Len(t) = Len(s) - 1 /\ t[Len(s) - 1] = e
        /\ \A n \in 1 .. Len(s) - 2 : t[n] = both[n]
    <2>1. t = both \o << e >> /\ << e >> \in Seq(S) /\ Len(<< e >>) = 1 /\ << e >>[1] = e
      BY <1>4 DEF both
    <2>2. /\ t \in Seq(S) /\ Len(t) = Len(both) + 1
          /\ \A n \in 1 .. Len(both) + 1 :
               t[n] = IF n <= Len(both) THEN both[n] ELSE << e >>[n - Len(both)]
      BY <1>5, <2>1, ConcatProperties
    <2>3. Len(both) + 1 = Len(s) - 1 /\ Len(both) = Len(s) - 2 /\ Len(s) - 2 \in Nat
      BY <1>1, <1>5
    <2> QED
      BY <2>1, <2>2, <2>3
  <1>9. DOMAIN t = 1 .. Len(s) - 1
    BY <1>1, <1>8
  <1>10. \A n \in 1 .. p - 1 : n \in 1 .. Len(s) - 2
    BY <1>1
  <1>11. \A n \in p .. Len(s) - 2 : n \in 1 .. Len(s) - 2
    BY <1>1
  <1> QED
    BY <1>6, <1>7, <1>8, <1>9, <1>10, <1>11 DEF t, IsPairReplaced

\* Two nodes are merged into one, which keeps what they cover.
LEMMA MergePairInv == AggInv /\ MergePair => AggInv'
  <1> SUFFICES ASSUME AggInv, MergePair
               PROVE  AggInv'
    OBVIOUS
  <1> DEFINE p == position
             q == position + 1
             last == Len(other_) - 1
             size == Len(heap)
             node == MergedNode(size + 1, size + 2)
  <1>1. /\ phase = "merge" /\ InnerLoop /\ position' = position - 2
        /\ heap' = heap \o << Merge(other_[q]), Merge(other_[p]) >>
        /\ other_' = PairReplaced(other_, p, node)
        /\ UNCHANGED <<geog, naRm, root_, element, round, phase, result>>
    BY DEF MergePair, NextPair, PairReplaced
  <1>2. /\ other_ \in Seq(Nodes) /\ DOMAIN other_ = 1 .. Len(other_) /\ Len(other_) \in Nat
        /\ heap \in Seq(Objects) /\ size \in Nat /\ DOMAIN heap = 1 .. size
        /\ round \in 0 .. MaxRounds /\ MaxRounds \in Nat
        /\ Len(geog) \in Nat /\ DOMAIN geog = 1 .. Len(geog) /\ Len(geog) <= size
        /\ Cardinality(Present) \in Nat
    BY VectorFacts, RoundsSuffice DEF AggInv, AggTypes
  <1>3. p \in Nat \ {0} /\ q \in Nat \ {0} /\ p + 1 <= Len(other_) /\ round >= 1
    <2>1. position \in Int /\ position >= 1
      BY <1>1 DEF AggInv, AggTypes, InnerLoop
    <2>2. position + 1 <= Len(other_) /\ round >= 1
      BY <1>1 DEF AggInv, CountInv
    <2> QED
      BY <2>1, <2>2
  <1>4. node \in Nodes /\ Indexed(node) = {size + 1, size + 2} /\ node.data = {size + 1, size + 2}
    BY <1>2 DEF MergedNode, Nodes, Indexed
  <1>5. /\ other_' \in Seq(Nodes) /\ Len(other_') = last /\ DOMAIN other_' = 1 .. last
        /\ \A n \in 1 .. p - 1 : other_'[n] = other_[n]
        /\ \A n \in p .. Len(other_) - 2 : other_'[n] = other_[n + 2]
        /\ other_'[last] = node
    <2> HIDE DEF node
    <2>1. other_' \in Seq(Nodes) /\ IsPairReplaced(other_', other_, p, node)
      BY <1>1, <1>2, <1>3, <1>4, ReplacePair
    <2> QED
      BY <2>1 DEF IsPairReplaced
  <1>6. \A n \in DOMAIN other_ : n # p /\ n # q =>
          \E m \in DOMAIN other_' : m # last /\ other_'[m] = other_[n]
    <2> SUFFICES ASSUME NEW n \in DOMAIN other_, n # p, n # q
                 PROVE  \E m \in DOMAIN other_' : m # last /\ other_'[m] = other_[n]
      OBVIOUS
    <2>1. n \in 1 .. Len(other_)
      BY <1>2
    <2>2. CASE n < p
      <3>1. n \in 1 .. p - 1 /\ n \in 1 .. last /\ n # last
        BY <1>2, <1>3, <2>1, <2>2
      <3> QED
        BY <1>5, <3>1
    <2>3. CASE n > q
      <3>1. n - 2 \in p .. Len(other_) - 2 /\ n - 2 \in 1 .. last /\ n - 2 # last /\ n - 2 + 2 = n
        BY <1>2, <1>3, <2>1, <2>3
      <3> QED
        BY <1>5, <3>1
    <2> QED
      BY <1>3, <2>1, <2>2, <2>3
  <1>7. \A m \in DOMAIN other_' : m # last =>
          \E n \in DOMAIN other_ : /\ n # p /\ n # q /\ other_'[m] = other_[n]
                                   /\ m <= position - 1 => n = m
    <2> SUFFICES ASSUME NEW m \in DOMAIN other_', m # last
                 PROVE  \E n \in DOMAIN other_ : /\ n # p /\ n # q /\ other_'[m] = other_[n]
                                                 /\ m <= position - 1 => n = m
      OBVIOUS
    <2>1. m \in 1 .. last
      BY <1>5
    <2>2. CASE m < p
      <3>1. m \in 1 .. p - 1 /\ m \in 1 .. Len(other_) /\ m # p /\ m # q
        BY <1>2, <1>3, <2>1, <2>2
      <3> QED
        BY <1>2, <1>5, <3>1
    <2>3. CASE m >= p
      <3>1. /\ m \in p .. Len(other_) - 2 /\ m + 2 \in 1 .. Len(other_)
            /\ m + 2 # p /\ m + 2 # q /\ ~(m <= position - 1)
        BY <1>2, <1>3, <2>1, <2>3
      <3> QED
        BY <1>2, <1>5, <3>1
    <2> QED
      BY <1>3, <2>1, <2>2, <2>3
  <1>8. /\ heap' \in Seq(Objects) /\ DOMAIN heap' = 1 .. size + 2 /\ Len(heap') = size + 2
        /\ \A o \in DOMAIN heap : heap'[o] = heap[o]
        /\ heap'[size + 1] = Merge(other_[q]) /\ heap'[size + 2] = Merge(other_[p])
        /\ Merge(other_[q]).depth <= round /\ Merge(other_[p]).depth <= round
        /\ Merge(other_[q]).content = UNION { heap[o].content : o \in Indexed(other_[q]) }
        /\ Merge(other_[p]).content = UNION { heap[o].content : o \in Indexed(other_[p]) }
    <2>1. ASSUME NEW n \in {p, q}
          PROVE  /\ Merge(other_[n]) \in Objects
                 /\ Merge(other_[n]).depth <= round
                 /\ Merge(other_[n]).content = UNION { heap[o].content : o \in Indexed(other_[n]) }
      <3>1. n \in DOMAIN other_ /\ n <= position + 1
        BY <1>2, <1>3
      <3>2. DepthOfNode(n) = round - 1
        BY <1>1, <3>1 DEF DepthOfNode
      <3>3. \A o \in Indexed(other_[n]) : o \in DOMAIN heap /\ heap[o].depth <= round - 1
        BY <3>1, <3>2 DEF AggInv, TreeInv
      <3>4. round - 1 \in Nat /\ round - 1 + 1 = round
        BY <1>2, <1>3
      <3>5. Merge(other_[n]) = Merged(heap, Indexed(other_[n]))
        BY DEF Merge, Indexed
      <3>6. Indexed(other_[n]) \subseteq DOMAIN heap
        BY <3>3
      <3> DEFINE d == round - 1
      <3>7. d \in Nat /\ \A o \in Indexed(other_[n]) : heap[o].depth <= d
        BY <3>3, <3>4
      <3> HIDE DEF d
      <3>8. /\ Merged(heap, Indexed(other_[n])) \in Objects
            /\ Merged(heap, Indexed(other_[n])).depth <= d + 1
            /\ Merged(heap, Indexed(other_[n])).content
                 = UNION { heap[o].content : o \in Indexed(other_[n]) }
        BY <1>2, <3>6, <3>7, MergedObject
      <3> QED
        BY <3>4, <3>5, <3>8 DEF d
    <2>2. << Merge(other_[q]), Merge(other_[p]) >> \in Seq(Objects)
      BY <2>1
    <2> DEFINE two == << Merge(other_[q]), Merge(other_[p]) >>
    <2>3. Len(two) = 2 /\ two[1] = Merge(other_[q]) /\ two[2] = Merge(other_[p])
      OBVIOUS
    <2>4. two \in Seq(Objects) /\ heap' = heap \o two
      BY <1>1, <2>2
    <2> HIDE DEF two
    <2>5. /\ heap' \in Seq(Objects) /\ Len(heap') = size + 2
          /\ \A o \in 1 .. size + 2 : heap'[o] = IF o <= size THEN heap[o] ELSE two[o - size]
      <3>1. /\ heap' \in Seq(Objects) /\ Len(heap') = Len(heap) + Len(two)
            /\ \A o \in 1 .. Len(heap) + Len(two) :
                 heap'[o] = IF o <= Len(heap) THEN heap[o] ELSE two[o - Len(heap)]
        BY <1>2, <2>2, <2>4, ConcatProperties DEF two
      <3> QED
        BY <2>3, <3>1
    <2>6. size + 1 - size = 1 /\ size + 2 - size = 2 /\ ~(size + 1 <= size) /\ ~(size + 2 <= size)
          /\ size + 1 \in 1 .. size + 2 /\ size + 2 \in 1 .. size + 2
      BY <1>2
    <2>7. \A o \in DOMAIN heap : heap'[o] = heap[o]
      BY <1>2, <2>5
    <2>8. heap'[size + 1] = Merge(other_[q]) /\ heap'[size + 2] = Merge(other_[p])
      BY <2>3, <2>5, <2>6
    <2>9. DOMAIN heap' = 1 .. size + 2
      BY <2>5
    <2> QED
      BY <2>1, <2>5, <2>7, <2>8, <2>9
  <1>9. \A o \in DOMAIN heap : o \in DOMAIN heap'
    BY <1>2, <1>8
  <1>10. p \in DOMAIN other_ /\ q \in DOMAIN other_ /\ p # q /\ last \in DOMAIN other_'
    BY <1>2, <1>3, <1>5
  <1>11. size + 1 \in DOMAIN heap' /\ size + 2 \in DOMAIN heap'
    BY <1>2, <1>8
  <1> HIDE DEF node, size, last, q
  <1>12. Present' = Present /\ Taken' = Taken
    BY <1>1 DEF Present, Taken
  <1>13. AggTypes'
    <2>1. position' \in Int
      BY <1>1 DEF AggInv, AggTypes
    <2>2. Len(geog) <= Len(heap')
      BY <1>2, <1>8
    <2> QED
      BY <1>1, <1>5, <1>8, <2>1, <2>2 DEF AggInv, AggTypes
  <1>14. \A n \in DOMAIN other_ : \A o \in Indexed(other_[n]) : o \in DOMAIN heap
    BY DEF AggInv, TreeInv
  <1>15. \A o \in Indexed(root_) : o \in DOMAIN heap /\ heap[o].depth = 0
    BY <1>1 DEF AggInv, TreeInv
  <1>16. HeapInv'
    <2>1. \A k \in DOMAIN geog : k \in DOMAIN heap
      BY <1>2 DEF size
    <2>2. \A k \in DOMAIN geog : heap'[k].content = ContentOf(geog, k) /\ heap'[k].depth = 0
      BY <1>8, <2>1 DEF AggInv, HeapInv
    <2>3. \A o \in DOMAIN heap : heap'[o].content \subseteq DOMAIN geog
      BY <1>8 DEF AggInv, HeapInv
    <2>4. /\ heap'[size + 1].content \subseteq DOMAIN geog
          /\ heap'[size + 2].content \subseteq DOMAIN geog
      BY <1>8, <1>10, <1>14 DEF AggInv, HeapInv
    <2>5. \A o \in DOMAIN heap' : o \in DOMAIN heap \/ o = size + 1 \/ o = size + 2
      BY <1>2, <1>8 DEF size
    <2> QED
      BY <1>1, <2>2, <2>3, <2>4, <2>5 DEF HeapInv
  <1>17. TreeInv'
    <2> DEFINE depthOf(n) == IF n <= position - 1 THEN round - 1 ELSE round
    <2>2. ASSUME NEW n \in DOMAIN other_', n # last, NEW o \in Indexed(other_'[n])
          PROVE  o \in DOMAIN heap' /\ heap'[o].depth <= depthOf(n)
      <3>1. PICK m \in DOMAIN other_ : /\ m # p /\ m # q /\ other_'[n] = other_[m]
                                       /\ n <= position - 1 => m = n
        BY <1>7, <2>2
      <3>2. o \in DOMAIN heap /\ heap[o].depth <= DepthOfNode(m)
        BY <3>1 DEF AggInv, TreeInv
      <3>3. heap[o].depth \in Nat
        <4>1. heap[o] \in Objects
          BY <1>2, <3>2
        <4> QED
          BY <4>1 DEF Objects
      <3>4. DepthOfNode(m) <= depthOf(n) /\ DepthOfNode(m) \in Int /\ depthOf(n) \in Int
        <4>1. DepthOfNode(m) = IF m <= position + 1 THEN round - 1 ELSE round
          BY <1>1 DEF DepthOfNode
        <4>2. n \in Nat /\ m \in Nat /\ round \in Nat
          BY <1>2, <1>5, <3>1
        <4>3. CASE n <= position - 1
          <5>1. m = n /\ n <= position + 1
            BY <1>3, <3>1, <4>2, <4>3
          <5> QED
            BY <4>1, <4>2, <4>3, <5>1
        <4>4. CASE ~(n <= position - 1)
          BY <4>1, <4>2, <4>4
        <4> QED
          BY <4>3, <4>4
      <3> QED
        BY <1>8, <1>9, <3>2, <3>3, <3>4
    <2>3. ASSUME NEW o \in Indexed(other_'[last])
          PROVE  o \in DOMAIN heap' /\ heap'[o].depth <= depthOf(last)
      <3>1. o = size + 1 \/ o = size + 2
        BY <1>4, <1>5
      <3>2. ~(last <= position - 1)
        BY <1>2, <1>3 DEF last
      <3>3. depthOf(last) = round
        BY <3>2
      <3> QED
        BY <1>8, <1>11, <3>1, <3>3
    <2>4. \A o \in Indexed(root_') : o \in DOMAIN heap' /\ heap'[o].depth = 0
      BY <1>1, <1>8, <1>9, <1>15
    <2>5. \A n \in DOMAIN other_' : \A o \in Indexed(other_'[n]) :
            o \in DOMAIN heap' /\ heap'[o].depth <= depthOf(n)
      BY <2>2, <2>3
    <2>6. position' + 1 = position - 1 /\ phase' = "merge" /\ round' = round
      BY <1>1, <1>3
    <2> QED
      BY <2>4, <2>5, <2>6 DEF TreeInv, DepthOfNode
  <1>18. ContentInv'
    <2>1. ASSUME NEW x, Reached(x)
          PROVE  Reached(x)'
      <3>1. CASE \E o \in Indexed(root_) : x \in heap[o].content
        BY <1>1, <1>8, <1>15, <3>1 DEF Reached
      <3>2. CASE \E n \in DOMAIN other_ : \E o \in Indexed(other_[n]) : x \in heap[o].content
        <4>1. PICK n \in DOMAIN other_ : \E o \in Indexed(other_[n]) : x \in heap[o].content
          BY <3>2
        <4>2. PICK o \in Indexed(other_[n]) : x \in heap[o].content
          BY <4>1
        <4>3. CASE n # p /\ n # q
          <5>1. PICK m \in DOMAIN other_' : other_'[m] = other_[n]
            BY <1>6, <4>3
          <5>2. o \in Indexed(other_'[m]) /\ x \in heap'[o].content
            BY <1>8, <1>14, <4>2, <5>1
          <5> QED
            BY <5>2 DEF Reached
        <4>4. CASE n = p \/ n = q
          <5>1. x \in heap'[size + 1].content \/ x \in heap'[size + 2].content
            BY <1>8, <4>2, <4>4
          <5>2. size + 1 \in Indexed(other_'[last]) /\ size + 2 \in Indexed(other_'[last])
            BY <1>4, <1>5
          <5> QED
            BY <1>10, <5>1, <5>2 DEF Reached
        <4> QED
          BY <4>3, <4>4
      <3> QED
        BY <2>1, <3>1, <3>2 DEF Reached
    <2>2. ASSUME NEW x, Reached(x)'
          PROVE  Reached(x)
      <3>1. CASE \E o \in Indexed(root_') : x \in heap'[o].content
        BY <1>1, <1>8, <1>15, <3>1 DEF Reached
      <3>2. CASE \E n \in DOMAIN other_' : \E o \in Indexed(other_'[n]) : x \in heap'[o].content
        <4>1. PICK n \in DOMAIN other_' : \E o \in Indexed(other_'[n]) : x \in heap'[o].content
          BY <3>2
        <4>2. PICK o \in Indexed(other_'[n]) : x \in heap'[o].content
          BY <4>1
        <4>3. CASE n # last
          <5>1. PICK m \in DOMAIN other_ : other_'[n] = other_[m]
            BY <1>7, <4>3
          <5>2. o \in Indexed(other_[m]) /\ x \in heap[o].content
            BY <1>8, <1>14, <4>2, <5>1
          <5> QED
            BY <5>2 DEF Reached
        <4>4. CASE n = last
          <5>1. o = size + 1 \/ o = size + 2
            BY <1>4, <1>5, <4>2, <4>4
          <5>2. \/ x \in UNION { heap[u].content : u \in Indexed(other_[q]) }
                \/ x \in UNION { heap[u].content : u \in Indexed(other_[p]) }
            BY <1>8, <4>2, <5>1
          <5> QED
            BY <1>10, <5>2 DEF Reached
        <4> QED
          BY <4>3, <4>4
      <3> QED
        BY <2>2, <3>1, <3>2 DEF Reached
    <2> QED
      BY <1>1, <1>12, <2>1, <2>2 DEF AggInv, ContentInv
  <1>19. CountInv'
    <2>1. 2 * Len(other_') - position' - 2 = 2 * Len(other_) - position - 2
      BY <1>1, <1>2, <1>3, <1>5 DEF last
    <2>2. -1 <= position' /\ position' + 1 <= Len(other_')
      BY <1>1, <1>2, <1>3, <1>5 DEF last
    <2> QED
      BY <1>1, <1>12, <2>1, <2>2 DEF AggInv, CountInv
  <1>20. IndexedAreAlive'
    <2>1. \A n \in DOMAIN other_ : Indexed(other_[n]) \subseteq Present \cup other_[n].data
      BY DEF AggInv, IndexedAreAlive, Indexed
    <2>2. \A n \in DOMAIN other_' : Indexed(other_'[n]) \subseteq Present \cup other_'[n].data
      BY <1>4, <1>5, <1>7, <2>1
    <2> QED
      BY <1>12, <2>2 DEF IndexedAreAlive, Indexed
  <1>21. ResultIsUnion' /\ MergesAreBalanced'
    BY <1>1 DEF ResultIsUnion, MergesAreBalanced
  <1> QED
    BY <1>13, <1>16, <1>17, <1>18, <1>19, <1>20, <1>21 DEF AggInv

\* The rounds end with at most one node, and so with few merges for each
\* element: the number of rounds is that of halvings.
LEMMA FewRounds ==
  ASSUME AggInv, Finish
  PROVE  /\ element = Len(geog) + 1
         /\ Len(other_) <= 1
         /\ round = 0 \/ 2 ^ round <= Cardinality(Present)
  <1>1. /\ other_ \in Seq(Nodes) /\ Len(other_) \in Nat
        /\ round \in 0 .. MaxRounds /\ MaxRounds \in Nat /\ position \in Int
        /\ Len(geog) \in Nat /\ DOMAIN geog = 1 .. Len(geog) /\ element \in 1 .. Len(geog) + 1
        /\ Cardinality(Present) \in Nat /\ Cardinality(Present) <= Len(geog)
        /\ Len(geog) <= 2 ^ MaxRounds
    BY VectorFacts, RoundsSuffice DEF AggInv, AggTypes
  <1>2. 2 ^ round \in Nat /\ 2 ^ MaxRounds \in Nat
    BY <1>1, PowersOfTwo
  <1>3. CASE phase = "add"
    <2>1. element = Len(geog) + 1
      BY <1>1, <1>3 DEF Finish
    <2>2. Taken = Present
      BY <1>1, <2>1 DEF Taken, Present
    <2>3. round = 0 /\ 2 * Len(other_) <= Cardinality(Present) + 1
      BY <1>3, <2>2 DEF AggInv, CountInv
    <2>4. CASE round = MaxRounds
      <3>1. 2 ^ MaxRounds = 1
        <4>1. MaxRounds = 0
          BY <2>3, <2>4
        <4> QED
          BY <4>1, PowersOfTwo, Zenon
      <3>2. Cardinality(Present) <= 1
        BY <1>1, <3>1
      <3> QED
        BY <1>1, <2>1, <2>3, <3>2
    <2>5. CASE Len(other_) <= 1
      BY <2>1, <2>3, <2>5
    <2> QED
      BY <2>4, <2>5 DEF Finish
  <1>4. CASE phase = "merge"
    <2> DEFINE c == 2 * Len(other_) - position - 2
               p == 2 ^ round
    <2>1. element = Len(geog) + 1 /\ p * c + 1 <= Cardinality(Present) /\ c >= 1
      BY <1>4 DEF AggInv, CountInv
    <2>2. c \in Int /\ p \in Nat
      BY <1>1, <1>2
    <2>3. \A x \in Nat : \A y \in Int : y >= 1 => x <= x * y /\ x * y \in Int
      OBVIOUS
    <2> HIDE DEF c, p
    <2>4. p <= p * c /\ p * c \in Int
      BY <2>1, <2>2, <2>3
    <2>5. p < Cardinality(Present)
      BY <1>1, <2>1, <2>2, <2>4
    <2>6. CASE round = MaxRounds
      <3>1. p = 2 ^ MaxRounds
        BY <2>6 DEF p
      <3> QED
        BY <1>1, <1>2, <2>2, <2>5, <3>1
    <2>7. CASE Len(other_) <= 1
      BY <1>1, <2>1, <2>2, <2>5, <2>7 DEF p
    <2> QED
      BY <2>6, <2>7 DEF Finish
  <1> QED
    BY <1>3, <1>4 DEF Finish

\* The last merges give the union.
LEMMA FinishInv == AggInv /\ Finish => AggInv'
  <1> SUFFICES ASSUME AggInv, Finish
               PROVE  AggInv'
    OBVIOUS
  <1> DEFINE rest == IF other_ = <<>> THEN <<>> ELSE << Merge(other_[1]) >>
             joined == IF other_ = <<>> THEN {} ELSE {Len(heap) + 1}
             both == heap \o rest
             objs == root_.index1 \cup joined
             merged == Merged(both, objs)
  <1>1. /\ root_' = [root_ EXCEPT !.index2 = joined]
        /\ heap' = Append(both, merged) /\ result' = Len(heap') /\ phase' = "done"
        /\ UNCHANGED <<geog, naRm, other_, element, round, position>>
        /\ phase # "done"
    BY DEF Finish
  <1>2. /\ other_ \in Seq(Nodes) /\ Len(other_) \in Nat /\ DOMAIN other_ = 1 .. Len(other_)
        /\ heap \in Seq(Objects) /\ Len(heap) \in Nat /\ DOMAIN heap = 1 .. Len(heap)
        /\ round \in 0 .. MaxRounds /\ MaxRounds \in Nat /\ round \in Nat
        /\ Len(geog) \in Nat /\ DOMAIN geog = 1 .. Len(geog) /\ Len(geog) <= Len(heap)
        /\ Cardinality(Present) \in Nat
    BY VectorFacts, RoundsSuffice DEF AggInv, AggTypes
  <1>3. element = Len(geog) + 1 /\ Len(other_) <= 1
    BY FewRounds
  <1>4. Present' = Present /\ Taken = Present
    <2>1. \A k \in DOMAIN geog : k < element
      BY <1>2, <1>3
    <2> QED
      BY <1>1, <2>1 DEF Present, Taken
  <1>5. \A o \in DOMAIN heap : heap[o] \in Objects /\ heap[o].depth \in Nat
    <2>1. \A o \in DOMAIN heap : heap[o] \in Objects
      BY <1>2
    <2> QED
      BY <2>1 DEF Objects
  <1>6. \A n \in DOMAIN other_ : \A o \in Indexed(other_[n]) :
          o \in DOMAIN heap /\ heap[o].depth <= round
    <2>1. \A n \in DOMAIN other_ : DepthOfNode(n) <= round /\ DepthOfNode(n) \in Int
      BY <1>2 DEF DepthOfNode
    <2> QED
      BY <1>2, <1>5, <2>1 DEF AggInv, TreeInv
  <1>7. /\ both \in Seq(Objects) /\ Len(both) \in Nat /\ Len(heap) <= Len(both)
        /\ \A o \in DOMAIN heap : o \in DOMAIN both /\ both[o] = heap[o]
        /\ \A o \in DOMAIN both : both[o].content \subseteq DOMAIN geog
        /\ joined \subseteq DOMAIN both
        /\ \A o \in joined : both[o].depth <= round + 1
        /\ \A x : (\E o \in joined : x \in both[o].content) <=>
                  \E n \in DOMAIN other_ : \E o \in Indexed(other_[n]) : x \in heap[o].content
    <2>1. CASE other_ = <<>>
      <3>1. both = heap /\ joined = {}
        BY <1>2, <2>1, ConcatEmptySeq
      <3>2. DOMAIN other_ = {}
        BY <2>1
      <3> HIDE DEF both, joined
      <3> QED
        BY <1>2, <3>1, <3>2 DEF AggInv, HeapInv
    <2>2. CASE other_ # <<>>
      <3>1. 1 \in DOMAIN other_ /\ DOMAIN other_ = {1}
        BY <1>2, <1>3, <2>2
      <3> DEFINE m == Merge(other_[1])
      <3>2. /\ m \in Objects /\ m.depth <= round + 1
            /\ m.content = UNION { heap[o].content : o \in Indexed(other_[1]) }
        <4>1. Indexed(other_[1]) \subseteq DOMAIN heap
              /\ \A o \in Indexed(other_[1]) : heap[o].depth <= round
          BY <1>6, <3>1
        <4>2. /\ Merged(heap, Indexed(other_[1])) \in Objects
              /\ Merged(heap, Indexed(other_[1])).depth <= round + 1
              /\ Merged(heap, Indexed(other_[1])).content
                   = UNION { heap[o].content : o \in Indexed(other_[1]) }
          BY <1>2, <4>1, MergedObject
        <4> QED
          BY <4>2 DEF Merge, Indexed
      <3>3. both = Append(heap, m) /\ joined = {Len(heap) + 1}
        <4> HIDE DEF m
        <4>1. both = heap \o << m >>
          BY <2>2 DEF m
        <4> QED
          BY <1>2, <2>2, <3>2, <4>1
      <3> HIDE DEF m, both, joined
      <3>4. /\ both \in Seq(Objects) /\ Len(both) = Len(heap) + 1
            /\ DOMAIN both = 1 .. Len(heap) + 1
            /\ \A o \in 1 .. Len(heap) : both[o] = heap[o]
            /\ both[Len(heap) + 1] = m
        BY <1>2, <3>2, <3>3
      <3>5. /\ \A o \in DOMAIN heap : o \in DOMAIN both /\ both[o] = heap[o]
            /\ \A o \in DOMAIN both : o \in DOMAIN heap \/ o = Len(heap) + 1
            /\ Len(heap) + 1 \in DOMAIN both /\ Len(both) \in Nat /\ Len(heap) <= Len(both)
        BY <1>2, <3>4
      <3>6. \A o \in DOMAIN both : both[o].content \subseteq DOMAIN geog
        <4>1. \A o \in DOMAIN heap : heap[o].content \subseteq DOMAIN geog
          BY DEF AggInv, HeapInv
        <4>2. m.content \subseteq DOMAIN geog
          BY <1>6, <3>1, <3>2, <4>1
        <4> QED
          BY <3>4, <3>5, <4>1, <4>2
      <3>7. ASSUME NEW x
            PROVE  (\E o \in joined : x \in both[o].content) <=>
                   \E n \in DOMAIN other_ : \E o \in Indexed(other_[n]) : x \in heap[o].content
        BY <3>1, <3>2, <3>3, <3>4
      <3> QED
        BY <3>2, <3>3, <3>4, <3>5, <3>6, <3>7
    <2> QED
      BY <2>1, <2>2
  <1> HIDE DEF both, joined
  <1>8. root_ \in Nodes /\ root_.index2 = {} /\ Indexed(root_) = root_.index1
    BY <1>1 DEF AggInv, AggTypes, ContentInv, Indexed
  <1>9. /\ merged \in Objects /\ merged.depth <= round + 2
        /\ merged.content = UNION { both[o].content : o \in objs }
    <2>1. \A o \in root_.index1 : o \in DOMAIN heap /\ heap[o].depth = 0
      BY <1>1, <1>8 DEF AggInv, TreeInv
    <2>2. objs \subseteq DOMAIN both /\ \A o \in objs : both[o].depth <= round + 1
      BY <1>2, <1>7, <2>1
    <2>3. round + 1 \in Nat /\ round + 1 + 1 = round + 2
      BY <1>2
    <2> DEFINE d == round + 1
    <2> HIDE DEF d, objs
    <2>4. d \in Nat /\ \A o \in objs : both[o].depth <= d
      BY <2>2, <2>3 DEF d
    <2>5. /\ Merged(both, objs) \in Objects /\ Merged(both, objs).depth <= d + 1
          /\ Merged(both, objs).content = UNION { both[o].content : o \in objs }
      BY <1>7, <2>2, <2>4, MergedObject
    <2> QED
      BY <2>3, <2>5 DEF d
  <1>10. /\ heap' \in Seq(Objects) /\ Len(heap') = Len(both) + 1
         /\ DOMAIN heap' = 1 .. Len(both) + 1 /\ DOMAIN both = 1 .. Len(both)
         /\ \A o \in DOMAIN both : heap'[o] = both[o]
         /\ heap'[Len(both) + 1] = merged /\ result' = Len(both) + 1
    <2> HIDE DEF merged
    <2> QED
      BY <1>1, <1>7, <1>9
  <1>11. /\ result' \in DOMAIN heap' /\ heap'[result'] = merged
         /\ \A o \in DOMAIN both : o \in DOMAIN heap'
         /\ \A o \in DOMAIN heap' : o \in DOMAIN both \/ o = Len(both) + 1
    BY <1>7, <1>10
  <1>12. \A x : x \in merged.content <=> Reached(x)
    <2>1. \A o \in root_.index1 : o \in DOMAIN heap /\ both[o] = heap[o]
      BY <1>1, <1>7, <1>8 DEF AggInv, TreeInv
    <2>2. \A x : x \in merged.content <=> \/ \E o \in root_.index1 : x \in both[o].content
                                          \/ \E o \in joined : x \in both[o].content
      BY <1>9
    <2> QED
      BY <1>7, <1>8, <2>1, <2>2 DEF Reached
  <1>13. merged.content \subseteq DOMAIN geog
    <2>1. \A o \in DOMAIN heap : heap[o].content \subseteq DOMAIN geog
      BY DEF AggInv, HeapInv
    <2>2. \A x : Reached(x) => x \in DOMAIN geog
      BY <1>1, <1>6, <2>1 DEF Reached, AggInv, TreeInv
    <2> QED
      BY <1>12, <2>2
  <1>14. merged.content = UNION { ContentOf(geog, k) : k \in Present }
    <2>1. \A x \in DOMAIN geog : Reached(x) <=> \E k \in Present : x \in ContentOf(geog, k)
      BY <1>1, <1>4 DEF AggInv, ContentInv
    <2>2. \A k \in Present : ContentOf(geog, k) \subseteq DOMAIN geog
      BY DEF Present, ContentOf
    <2> HIDE DEF merged
    <2>3. \A x : x \in merged.content <=> \E k \in Present : x \in ContentOf(geog, k)
      BY <1>12, <1>13, <2>1, <2>2
    <2> QED
      BY <2>3
  <1> HIDE DEF merged
  <1>15. AggTypes'
    <2>1. root_' \in Nodes
      <3>1. joined \in SUBSET Nat
        BY <1>7, <1>10
      <3> QED
        BY <1>1, <1>8, <3>1 DEF Nodes
    <2>2. Len(geog) <= Len(heap')
      BY <1>2, <1>7, <1>10
    <2> QED
      BY <1>1, <1>10, <2>1, <2>2 DEF AggInv, AggTypes
  <1>16. HeapInv'
    <2>1. \A k \in DOMAIN geog : k \in DOMAIN heap
      BY <1>2
    <2>2. \A k \in DOMAIN geog : heap'[k].content = ContentOf(geog, k) /\ heap'[k].depth = 0
      BY <1>7, <1>10, <2>1 DEF AggInv, HeapInv
    <2>3. \A o \in DOMAIN heap' : heap'[o].content \subseteq DOMAIN geog
      BY <1>7, <1>10, <1>11, <1>13
    <2> QED
      BY <1>1, <2>2, <2>3 DEF HeapInv
  <1>17. TreeInv'
    <2>1. \A n \in DOMAIN other_ : \A o \in Indexed(other_[n]) :
            o \in DOMAIN heap' /\ heap'[o].depth <= round
      BY <1>6, <1>7, <1>10, <1>11
    <2> QED
      BY <1>1, <2>1 DEF TreeInv, DepthOfNode
  <1>18. ContentInv' /\ CountInv'
    BY <1>1 DEF ContentInv, CountInv
  <1>19. IndexedAreAlive'
    BY <1>1, <1>4 DEF AggInv, IndexedAreAlive
  <1>20. ResultIsUnion'
    <2>1. \A k \in DOMAIN geog : geog[k] = NA => naRm
      <3>1. \A k \in DOMAIN geog : k < element
        BY <1>2, <1>3
      <3> QED
        BY <1>1, <3>1 DEF AggInv, ContentInv
    <2>2. ~(Present # DOMAIN geog /\ ~naRm)
      BY <2>1 DEF Present
    <2>3. result' \in DOMAIN heap'
          /\ heap'[result'].content = UNION { ContentOf(geog, k) : k \in Present }
      BY <1>11, <1>14
    <2> QED
      BY <1>1, <1>4, <2>2, <2>3 DEF ResultIsUnion
  <1>21. MergesAreBalanced'
    <2> DEFINE depth == heap'[result'].depth
               count == Cardinality(Present)
               most == Max({1, count})
    <2>1. depth \in Nat /\ depth <= round + 2
      BY <1>9, <1>11 DEF Objects
    <2>2. most \in Nat /\ count <= most /\ 1 <= most
      <3>1. {1, count} \subseteq 0 .. count + 1 /\ {1, count} # {} /\ count + 1 \in Nat
        BY <1>2
      <3>2. most \in {1, count} /\ \A y \in {1, count} : y <= most
        BY <3>1, MaxOfBounded
      <3> QED
        BY <1>2, <3>2
    <2> HIDE DEF depth, most
    <2>3. 2 ^ round <= most
      <3>1. CASE round = 0
        <4>1. 2 ^ round = 1
          BY <3>1, PowersOfTwo, Zenon
        <4> QED
          BY <2>2, <4>1
      <3>2. CASE 2 ^ round <= count
        <4>1. 2 ^ round \in Nat
          BY <1>2, PowersOfTwo
        <4> QED
          BY <1>2, <2>2, <3>2, <4>1
      <3> QED
        BY <3>1, <3>2, FewRounds
    <2>4. 2 ^ (round + 2) = 4 * 2 ^ round /\ 2 ^ round \in Nat
      <3>1. /\ round \in 0 .. MaxRounds + 2 /\ round + 1 \in 0 .. MaxRounds + 2
            /\ round + 1 + 1 = round + 2
        BY <1>2
      <3>2. /\ 2 ^ round \in Nat /\ 2 ^ (round + 1) = 2 * 2 ^ round
            /\ 2 ^ (round + 1 + 1) = 2 * 2 ^ (round + 1)
        BY <3>1, PowersOfTwo
      <3> QED
        BY <3>1, <3>2
    <2>5. 2 ^ depth <= 2 ^ (round + 2) /\ 2 ^ depth \in Nat
      <3>1. depth \in 0 .. MaxRounds + 2 /\ round + 2 \in 0 .. MaxRounds + 2
        BY <1>2, <2>1
      <3> QED
        BY <2>1, <3>1, PowersOfTwo
    <2>6. 4 * most >= 2 ^ depth
      BY <2>2, <2>3, <2>4, <2>5
    <2> QED
      BY <1>4, <2>6 DEF MergesAreBalanced, depth, most
  <1> QED
    BY <1>15, <1>16, <1>17, <1>18, <1>19, <1>20, <1>21 DEF AggInv

\* Every step preserves the invariant.
LEMMA NextAggInv == AggInv /\ [Next]_vars => AggInv'
  <1> SUFFICES ASSUME AggInv, [Next]_vars
               PROVE  AggInv'
    OBVIOUS
  <1>1. CASE AddMissing
    BY <1>1, AddMissingInv
  <1>2. CASE Add
    BY <1>2, AddInv
  <1>3. CASE StartRound
    BY <1>3, StartRoundInv
  <1>4. CASE MergePair
    BY <1>4, MergePairInv
  <1>5. CASE Finish
    BY <1>5, FinishInv
  <1>6. CASE UNCHANGED vars
    BY <1>6 DEF vars, AggInv, AggTypes, HeapInv, TreeInv, DepthOfNode, ContentInv, Reached, Taken,
                Present, CountInv, NoShapes, IndexedAreAlive, ResultIsUnion, MergesAreBalanced
  <1> QED
    BY <1>1, <1>2, <1>3, <1>4, <1>5, <1>6 DEF Next

\* For vectors of any length that the rounds are enough for, the aggregator
\* gives the union of the elements, in a balanced tree of merges, and no node
\* refers to a geography that is gone (S2UnionAggregator::Finalize).
THEOREM AggregateCorrect == Spec => []AggregateExact
  <1>1. AggInv => AggregateExact
    BY DEF AggInv, AggregateExact
  <1> QED
    BY <1>1, InitAggInv, NextAggInv, PTL DEF Spec
=============================================================================
