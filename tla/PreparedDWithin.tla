---------------------------- MODULE PreparedDWithin ----------------------------
(***************************************************************************)
(* s2_prepared_dwithin: cpp_s2_prepared_dwithin in src/s2-predicates.cpp,  *)
(* driven by BinaryGeographyOperator in src/geography-operator.h.          *)
(*                                                                         *)
(* Pairs of features are tested one after the other.  A covering of the    *)
(* buffered y and an edge query on y are kept while y stays the same       *)
(* object; a pair whose x has no index cell in the covering is refused     *)
(* without the query.  A feature is an object (a pointer), with the set of *)
(* leaf cells it touches.                                                  *)
(***************************************************************************)
EXTENDS S2CellVector, Sequences, SequencesExt

CONSTANTS Features,     \* the RGeography objects
          RegionOf,     \* the leaf cells each of them touches
          Missing,      \* R_NilValue, or the missing logical value
          Distances,
          MaxPairs,     \* bound on the length of the vectors
          FeatureCells(_),     \* the sets of index cells a feature may have
          BufferCoverings(_)   \* the coverings that a buffered feature may get

ASSUME FeaturesTouchLeaves == \A f \in Features : RegionOf[f] \subseteq LeafIds
ASSUME MissingIsNoFeature == Missing \notin Features
ASSUME DistancesAreNat == Distances \subseteq Nat
ASSUME CellsDivideFeature ==
  \A f \in Features : \A T \in FeatureCells(RegionOf[f]) : IsTiling(T, RegionOf[f])
ASSUME CoveringsCoverBuffer ==
  \A f \in Features, d \in Distances :
    LET buffered == Buffered(RegionOf[f], d)
    IN  \A T \in BufferCoverings(buffered) : Covers(T, buffered)

VARIABLES features1, features2, distance,   \* the recycled arguments
          covering_id,    \* the y the covering is for, or Null
          covering,       \* the covering kept
          query,          \* the y of the edge query kept, or Null
          answers

dwithin_vars == <<features1, features2, distance, covering_id, covering, query, answers>>
args == <<features1, features2, distance>>

Null == Missing

Recycled(S, n) == [1 .. n -> S]

DWithinInit ==
  /\ \E n \in 1 .. MaxPairs :
       /\ features1 \in Recycled(Features \cup {Missing}, n)
       /\ features2 \in Recycled(Features \cup {Missing}, n)
       /\ distance \in Recycled(Distances, n)
  /\ covering_id = Null
  /\ covering = {}
  /\ query = Null
  /\ answers = <<>>

here == Len(answers) + 1

\* Mutant of Prepare: the query follows y, the covering is computed once only.
PrepareOnce ==
  IF features2[here] = covering_id THEN UNCHANGED <<covering_id, covering, query>>
  ELSE /\ IF covering_id = Null
          THEN covering' \in BufferCoverings(Buffered(RegionOf[features2[here]], distance[here]))
          ELSE UNCHANGED covering
       /\ query' = features2[here]
       /\ covering_id' = features2[here]

\* Updates the covering and the query if y is another object than last time.
Prepare ==
  IF features2[here] = covering_id THEN UNCHANGED <<covering_id, covering, query>>
  ELSE /\ covering' \in BufferCoverings(Buffered(RegionOf[features2[here]], distance[here]))
       /\ query' = features2[here]
       /\ covering_id' = features2[here]

MayIntersectBuffer(cells, cover) ==
  \E id \in cover : Locate(cells, id).relation # "DISJOINT"

AnswerMissing ==
  /\ here <= Len(features1)
  /\ features1[here] = Missing \/ features2[here] = Missing
  /\ answers' = Append(answers, Missing)
  /\ UNCHANGED <<args, covering_id, covering, query>>

AnswerFeature ==
  /\ here <= Len(features1)
  /\ features1[here] # Missing /\ features2[here] # Missing
  /\ Prepare
  /\ \E cells \in FeatureCells(RegionOf[features1[here]]) :
       answers' = Append(answers,
         /\ MayIntersectBuffer(cells, covering')
         /\ IsDistanceLessOrEqual(RegionOf[query'], RegionOf[features1[here]], distance[here]))
  /\ UNCHANGED args

DWithinNext == AnswerMissing \/ AnswerFeature

DWithinSpec == DWithinInit /\ [][DWithinNext]_dwithin_vars
-----------------------------------------------------------------------------
(* Properties.                                                             *)

\* Each entry of the result is what s2_dwithin gives for its own pair and
\* distance, however the pairs before it left the covering and the query.
PreparedIsPairwise ==
  \A k \in DOMAIN answers :
    answers[k] = IF features1[k] = Missing \/ features2[k] = Missing THEN Missing
                ELSE IsDistanceLessOrEqual(RegionOf[features1[k]], RegionOf[features2[k]], distance[k])
=============================================================================
