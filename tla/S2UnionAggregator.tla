--------------------------- MODULE S2UnionAggregator ---------------------------
(***************************************************************************)
(* s2_union_agg: S2UnionAggregator in src/s2geography/build.{h,cc}, driven *)
(* by cpp_s2_union_agg in src/s2-transformers.cpp.                         *)
(*                                                                         *)
(* Geographies are collected two by two in nodes, and the nodes are merged *)
(* in rounds until one is left.  An index holds references to geographies  *)
(* and does not own them; a node's data owns those that merging made.  A   *)
(* geography is an object with a content, the set of the places it covers; *)
(* the boolean operation that unites two indexes is set union.             *)
(***************************************************************************)
EXTENDS Integers, Sequences, SequencesExt, FiniteSets, FiniteSetsExt

CONSTANTS Vectors,      \* vectors of geographies, each [dim, shapes], and NA
          NA,           \* R_NilValue
          MaxRounds     \* 100

Elements == [dim : Int, shapes : Nat] \cup {NA}
ASSUME VectorsAssumption == Vectors \subseteq Seq(Elements)

\* The rounds are enough for every vector: 100 of them are for all R can hold.
ASSUME RoundsSuffice == MaxRounds \in Nat /\ \A v \in Vectors : Len(v) <= 2 ^ MaxRounds

\* What arithmetic says of the powers of two that the properties mention.
ASSUME PowersOfTwo ==
  /\ 2 ^ 0 = 1
  /\ \A n \in 0 .. MaxRounds + 2 : 2 ^ n \in Nat /\ 2 ^ (n + 1) = 2 * 2 ^ n
  /\ \A m, n \in 0 .. MaxRounds + 2 : m <= n => 2 ^ m <= 2 ^ n

VARIABLES geog,     \* the argument
          naRm,
          heap,     \* every geography object made so far, by number
          root_,    \* points and polylines, and at the end all the rest
          other_,   \* the nodes
          element,  \* the next element of geog to add
          round,    \* j in Finalize
          position, \* the inner loop's i, from 0
          phase,    \* "add", "merge" or "done"
          result    \* the object returned, NA, or NoResult

vars == <<geog, naRm, heap, root_, other_, element, round, position, phase, result>>

NoResult == 0

EmptyNode == [index1 |-> {}, index2 |-> {}, data |-> {}]

\* index.num_shapes() == 0.
NoShapes(index) == \A o \in index : heap[o].shapes = 0

\* s2_boolean_operation(..., UNION, ...) of objects of heap h.  The result has
\* shapes unless it is empty; its depth is the number of merges on the longest
\* way to it from an input.
Merged(h, objs) ==
  LET content == UNION { h[o].content : o \in objs }
  IN  [shapes |-> Cardinality(content), content |-> content,
       depth |-> 1 + Max({ h[o].depth : o \in objs } \cup {0})]

\* Node::Merge.
Merge(node) == Merged(heap, node.index1 \cup node.index2)

-----------------------------------------------------------------------------
(* Adding.                                                                 *)

\* What an element that is not empty covers: a place of its own, so that none
\* can stand in for another.
ContentOf(v, k) == IF v[k] = NA \/ v[k].shapes = 0 THEN {} ELSE {k}

Init ==
  /\ geog \in Vectors
  /\ naRm \in BOOLEAN
  /\ heap = [k \in DOMAIN geog |->
              [shapes |-> IF geog[k] = NA THEN 0 ELSE geog[k].shapes,
               content |-> ContentOf(geog, k), depth |-> 0]]
  /\ root_ = EmptyNode
  /\ other_ = <<>>
  /\ element = 1
  /\ round = 0
  /\ position = 0
  /\ phase = "add"
  /\ result = NoResult

\* The node list with geography number o added to it.
AddToNodes(o) ==
  IF other_ = <<>> THEN <<[EmptyNode EXCEPT !.index1 = {o}]>>
  ELSE LET last == Last(other_)
           n == Len(other_)
       IN  IF NoShapes(last.index1)
           THEN [other_ EXCEPT ![n].index1 = @ \cup {o}]
           ELSE IF NoShapes(last.index2)
           THEN [other_ EXCEPT ![n].index2 = @ \cup {o}]
           ELSE Append(other_, [EmptyNode EXCEPT !.index1 = {o}])

\* A missing element ends the call unless na.rm is given.
AddMissing ==
  /\ phase = "add" /\ element <= Len(geog) /\ geog[element] = NA
  /\ IF naRm THEN element' = element + 1 /\ UNCHANGED <<phase, result>>
             ELSE phase' = "done" /\ result' = NA /\ UNCHANGED element
  /\ UNCHANGED <<geog, naRm, heap, root_, other_, round, position>>

Add ==
  /\ phase = "add" /\ element <= Len(geog) /\ geog[element] # NA
  /\ IF geog[element].dim \in {0, 1}
     THEN root_' = [root_ EXCEPT !.index1 = @ \cup {element}] /\ UNCHANGED other_
     ELSE other_' = AddToNodes(element) /\ UNCHANGED root_
  /\ element' = element + 1
  /\ UNCHANGED <<geog, naRm, heap, round, position, phase, result>>

-----------------------------------------------------------------------------
(* Finalize.                                                               *)

\* Mutant of InnerLoop: position > 1.
InnerLoopShort == position > 1

InnerLoop == position >= 1

\* The start of a round, or of the first one.
StartRound ==
  /\ \/ phase = "add" /\ element > Len(geog)
     \/ phase = "merge" /\ ~InnerLoop
  /\ round < MaxRounds /\ Len(other_) > 1
  /\ phase' = "merge"
  /\ round' = round + 1
  /\ position' = Len(other_) - 1
  /\ UNCHANGED <<geog, naRm, heap, root_, other_, element, result>>

\* Mutant of MergedNode: the geographies are not kept alive.
MergedNodeUnowned(merged, merged_prev) ==
  [index1 |-> {merged}, index2 |-> {merged_prev}, data |-> {}]

MergedNode(merged, merged_prev) ==
  [index1 |-> {merged}, index2 |-> {merged_prev}, data |-> {merged, merged_prev}]

\* Mutant of NextPair: the node just made is merged again.
NextPairChained == position - 1

NextPair == position - 2

\* Merges other_[i] and other_[i - 1], which are number i + 1 and i here (i is
\* position), and puts the new node at the end.
MergePair ==
  /\ phase = "merge" /\ InnerLoop
  /\ heap' = heap \o <<Merge(other_[position + 1]), Merge(other_[position])>>
  /\ other_' = SubSeq(other_, 1, position - 1) \o SubSeq(other_, position + 2, Len(other_))
                 \o <<MergedNode(Len(heap) + 1, Len(heap) + 2)>>
  /\ position' = NextPair
  /\ UNCHANGED <<geog, naRm, root_, element, round, phase, result>>

\* The end of Finalize: the first node, if any, is merged and joins the root.
Finish ==
  /\ \/ phase = "add" /\ element > Len(geog)
     \/ phase = "merge" /\ ~InnerLoop
  /\ round = MaxRounds \/ Len(other_) <= 1
  /\ LET rest == IF other_ = <<>> THEN <<>> ELSE <<Merge(other_[1])>>
         joined == IF other_ = <<>> THEN {} ELSE {Len(heap) + 1}
     IN  /\ root_' = [root_ EXCEPT !.index2 = joined]
         /\ heap' = Append(heap \o rest, Merged(heap \o rest, root_.index1 \cup joined))
  /\ result' = Len(heap')
  /\ phase' = "done"
  /\ UNCHANGED <<geog, naRm, other_, element, round, position>>

Next ==
  \/ AddMissing
  \/ Add
  \/ StartRound
  \/ MergePair
  \/ Finish

Spec == Init /\ [][Next]_vars
-----------------------------------------------------------------------------
(* Properties.                                                             *)

Present == { k \in DOMAIN geog : geog[k] # NA }

\* The result covers what the elements of the vector cover, all of them and no
\* more, although nodes are erased and moved while the list is walked from its
\* end and a fixed number of rounds ends the walk.  A missing element gives NA
\* unless na.rm says to skip it.
ResultIsUnion ==
  phase = "done" =>
    IF Present # DOMAIN geog /\ ~naRm THEN result = NA
    ELSE /\ result \in DOMAIN heap
         /\ heap[result].content = UNION { ContentOf(geog, k) : k \in Present }

\* No index of a node refers to a geography that is gone: each one is an element
\* of the vector, which the caller keeps, or owned by the node's own data, which
\* erasing other nodes leaves alone.
IndexedAreAlive ==
  \A n \in DOMAIN other_ :
    other_[n].index1 \cup other_[n].index2 \subseteq Present \cup other_[n].data

\* The tree of merges is balanced: an element goes through about the logarithm
\* of the number of elements many merges, not through one for each other.
MergesAreBalanced ==
  phase = "done" /\ result # NA =>
    4 * Max({1, Cardinality(Present)}) >= 2 ^ heap[result].depth

\* The aggregator merges every element of the vector exactly once, in a
\* balanced tree, into the union of all, and never through an index of a
\* geography that is gone (S2UnionAggregator::Finalize).
AggregateExact ==
  /\ ResultIsUnion
  /\ IndexedAreAlive
  /\ MergesAreBalanced
=============================================================================
