------------------------------ MODULE S2RegionCoverer ------------------------------
(***************************************************************************)
(* Approximating a region by few cells: src/s2/s2region_coverer.{h,cc}.    *)
(*                                                                         *)
(* The coverer keeps the cells it has settled on (result_) and a priority  *)
(* queue of cells that the region covers in part, each with those of its   *)
(* descendants, one step of level_mod levels further down, that still      *)
(* matter.  It divides the largest cell while the number of cells allows.  *)
(*                                                                         *)
(* A region is the leaf cells it touches and those it contains; what the   *)
(* library computes with floating point, MayIntersect, Contains and the    *)
(* bounding cap, is read off them.                                         *)
(***************************************************************************)
EXTENDS S2CellVector

CONSTANTS Regions,      \* [touch, full]: the leaf cells met and the ones inside
          OptionSets,   \* [max_cells, min_level, max_level, level_mod]
          Vectors,      \* vectors of cells given to CanonicalizeCovering
          LargeExcess   \* the 10000 of CanonicalizeCovering

ASSUME RegionsAssumption ==
  \A r \in Regions : r.full \subseteq r.touch /\ r.touch \subseteq LeafIds
ASSUME OptionsAssumption ==
  \A o \in OptionSets : /\ 0 <= o.min_level /\ o.min_level <= o.max_level
                        /\ o.max_level <= MaxLevel /\ o.level_mod \in 1 .. 3
ASSUME VectorsAssumption == \A v \in Vectors : v \in Seq(CellIds)

VARIABLES options,    \* options_
          interior,   \* interior_covering_
          region,     \* *region_
          result,     \* result_, a vector of cell ids, kept in order: Normalize
                      \* sorts it before anything depends on the order
          pq,         \* pq_: candidates [cell, children, priority]
          phase       \* "idle", "covering" or "done"

coverer == <<options, interior, region, result, pq, phase>>

-----------------------------------------------------------------------------
(* Candidates.                                                             *)

MayIntersect(cell) == Leaves(cell) \cap region.touch # {}
RegionContains(cell) == Leaves(cell) \subseteq region.full

\* NewCandidate: null where a cell at the last level is not inside the region.
AtLastLevel(cell) == level(cell) + options.level_mod > options.max_level

\* Mutant of IsCandidate: exterior coverings lose the cells of the last level too.
IsCandidateInside(cell) ==
  /\ MayIntersect(cell)
  /\ ~(level(cell) >= options.min_level /\ AtLastLevel(cell) /\ ~RegionContains(cell))

IsCandidate(cell) ==
  /\ MayIntersect(cell)
  /\ ~( /\ interior /\ level(cell) >= options.min_level
        /\ AtLastLevel(cell) /\ ~RegionContains(cell) )

IsTerminal(cell) ==
  level(cell) >= options.min_level /\ (RegionContains(cell) \/ (~interior /\ AtLastLevel(cell)))

\* ExpandChildren, one level at a time until min_level is reached.
Children(cell) ==
  LET step == IF level(cell) < options.min_level THEN 1 ELSE options.level_mod
  IN  SelectSeq(DescendantsAt(cell, level(cell) + step), IsCandidate)

Terminals(cells) == Len(SelectSeq(cells, IsTerminal))

Priority(cell, children) ==
  -((level(cell) * 4 ^ options.level_mod + Len(children)) * 4 ^ options.level_mod
      + Terminals(children))

\* AddCandidate, on s = [result, pq].  If all children are terminal the parent
\* is taken instead; a cell none of whose children matters is dropped.
AddCandidate(s, cell) ==
  LET children == Children(cell)
  IN  IF \/ IsTerminal(cell)
         \/ /\ ~interior /\ level(cell) >= options.min_level
            /\ Terminals(children) = 4 ^ options.level_mod
      THEN [s EXCEPT !.result = Sorted(Append(@, cell))]
      ELSE IF children = <<>> THEN s
      ELSE [s EXCEPT !.pq = @ \cup {[cell |-> cell, children |-> children,
                                     priority |-> Priority(cell, children)]}]

-----------------------------------------------------------------------------
(* Coverings.                                                              *)

Idle == /\ interior = FALSE /\ region = [touch |-> {}, full |-> {}]
        /\ result = <<>> /\ pq = {} /\ phase = "idle"

CovererInit == options \in OptionSets /\ Idle

\* The start of GetCoveringInternal.  AddCandidate reads interior, region and
\* options, which GetInitialCandidates finds set: the candidates are added by
\* a step of their own.
StartCovering(r, inside) ==
  /\ phase = "idle"
  /\ phase' = "initial"
  /\ region' = r
  /\ interior' = inside
  /\ UNCHANGED <<options, result, pq>>

\* Mutant of GetInitialCandidates: the cells keep the levels of the bound.
GetInitialCandidatesUnadjusted ==
  /\ phase = "initial"
  /\ \E bound \in CellUnionBounds(region.touch) :
       LET cells == SelectSeq(FastCovering(options, bound), IsCandidate)
           s == FoldLeft(AddCandidate, [result |-> <<>>, pq |-> {}], cells)
       IN  result' = s.result /\ pq' = s.pq
  /\ phase' = "covering"
  /\ UNCHANGED <<options, interior, region>>

GetInitialCandidates ==
  /\ phase = "initial"
  /\ \E bound \in CellUnionBounds(region.touch) :
       LET cells == SelectSeq(AdjustCellLevels(options, FastCovering(options, bound)),
                              IsCandidate)
           s == FoldLeft(AddCandidate, [result |-> <<>>, pq |-> {}], cells)
       IN  result' = s.result /\ pq' = s.pq
  /\ phase' = "covering"
  /\ UNCHANGED <<options, interior, region>>

IsFull(v) == interior /\ Len(v) >= options.max_cells

\* Mutant of MayExpand: the cells that wait in the queue are not counted.
MayExpandUncounted(c, rest) ==
  \/ interior
  \/ level(c.cell) < options.min_level
  \/ Len(c.children) = 1
  \/ Len(result) + Len(c.children) <= options.max_cells

\* Whether the children of c replace it, the others in the queue being rest.
MayExpand(c, rest) ==
  \/ interior
  \/ level(c.cell) < options.min_level
  \/ Len(c.children) = 1
  \/ Len(result) + Cardinality(rest) + Len(c.children) <= options.max_cells

\* The body of the loop, for a candidate of the highest priority.
ProcessTop ==
  /\ phase = "covering" /\ pq # {} /\ ~IsFull(result)
  /\ \E c \in pq :
       /\ \A d \in pq : d.priority <= c.priority
       /\ LET rest == pq \ {c}
              Add(t, id) == IF IsFull(t.result) THEN t ELSE AddCandidate(t, id)
              s == IF MayExpand(c, rest)
                   THEN FoldLeft(Add, [result |-> result, pq |-> rest], c.children)
                   ELSE [result |-> Sorted(Append(result, c.cell)), pq |-> rest]
          IN  result' = s.result /\ pq' = s.pq
  /\ UNCHANGED <<options, interior, region, phase>>

\* What follows the loop: the queue is discarded and the result normalized.
Finish ==
  /\ phase = "covering" /\ (pq = {} \/ IsFull(result))
  /\ result' = Denormalize(Normalize(result), options.min_level, options.level_mod)
  /\ pq' = {}
  /\ phase' = "done"
  /\ UNCHANGED <<options, interior, region>>

\* GetCovering and GetInteriorCovering.
GetCovering == \E r \in Regions : StartCovering(r, FALSE)
GetInteriorCovering == \E r \in Regions : StartCovering(r, TRUE)

\* CanonicalizeCovering: a vector with a large excess is a region to cover.
CanonicalizeCovering ==
  /\ phase = "idle"
  /\ \E v \in Vectors :
       LET fit == FitLevels(options, v)
           leaves == [touch |-> LeavesOf(fit), full |-> LeavesOf(fit)]
       IN  IF Excess(options, fit) * Len(fit) > LargeExcess
           THEN StartCovering(leaves, FALSE)
           ELSE /\ result' = Canonicalized(options, v)
                /\ phase' = "done"
                /\ region' = [touch |-> LeavesOf(v), full |-> {}]
                /\ UNCHANGED <<options, interior, pq>>

CoverStep == GetInitialCandidates \/ ProcessTop \/ Finish
-----------------------------------------------------------------------------
(* Properties.                                                             *)

\* At no moment does the work of an exterior covering lose a leaf cell that the
\* region touches: it is under a cell already settled or under a child that
\* waits in the queue; and no cell of an interior covering sticks out of the
\* region.  The canonical form, which replaces cells by ancestors and splits
\* them again, keeps to that.
CoveringExact ==
  /\ phase \in {"covering", "done"} /\ ~interior =>
       region.touch \subseteq LeavesOf(result) \cup
                              UNION { LeavesOf(c.children) : c \in pq }
  /\ interior => LeavesOf(result) \subseteq region.full

\* A covering satisfies every option that was asked for, as IsCanonical checks
\* (the assertion at the end of GetCoveringInternal and CanonicalizeCovering),
\* for any mix of levels, level_mod and max_cells.
CoveringCanonical == phase = "done" => IsCanonical(options, result)

\* No more than max_cells cells, unless the region meets more faces than that
\* or min_level keeps the cells small.
CoveringSmall ==
  phase = "done" /\ options.min_level = 0 =>
    Len(result) <= Max({options.max_cells,
                        Cardinality({ ParentAt(leaf, 0) : leaf \in region.touch })})

-----------------------------------------------------------------------------
(***************************************************************************)
(* Finding documents by the terms of an inverted index:                    *)
(* src/s2/s2region_term_indexer.{h,cc}.                                    *)
(*                                                                         *)
(* A document, a point or a region, is stored under terms that name cells: *)
(* an ancestor term for a cell above the document's covering, a covering   *)
(* term for a cell of it.  A query makes terms the other way round, and    *)
(* finds the documents it shares a term with.  The indexer has a coverer   *)
(* of its own, which runs for every region it is given.                    *)
(***************************************************************************)

CONSTANTS Points,             \* leaf cells of the points
          OptimizeForSpace,   \* the values of optimize_for_space
          MaxDocuments        \* how many documents the index takes

ASSUME PointsAssumption == Points \subseteq LeafIds

VARIABLES only_points,   \* index_contains_points_only
          for_space,     \* optimize_for_space
          purpose,       \* what the coverer runs for: "index" or "query"
          documents,     \* the documents: the leaf cells covered and the terms
          answer         \* the last query: the leaf cells covered and the hits

indexer == <<only_points, for_space, purpose, documents, answer>>
vars == <<coverer, indexer>>

Ancestor(id) == [type |-> "ANCESTOR", id |-> id]
Covering(id) == [type |-> "COVERING", id |-> id]

\* The levels that the coverings have, from min_level up to max_level.
Levels == { l \in options.min_level .. options.max_level :
              (l - options.min_level) % options.level_mod = 0 }

LastLevel == true_max_level(options)

\* Whether the ancestor of v[i] at level l is still to be given a term: the
\* loop over ancestors ends at the first that the cell before it also has.
FirstUnder(v, i, l) ==
  ~(i > 1 /\ level(v[i - 1]) > l /\ ParentAt(v[i - 1], l) = ParentAt(v[i], l))

\* The proper ancestors of v[i] the loop reaches, from the lowest up.
NewAncestors(v, i) ==
  { ParentAt(v[i], l) : l \in { l \in Levels :
      l < level(v[i]) /\ \A k \in Levels : l <= k /\ k < level(v[i]) => FirstUnder(v, i, k) } }

PointIndexTerms(leaf) == { Ancestor(ParentAt(leaf, l)) : l \in Levels }

\* GetIndexTermsForCanonicalCovering.
CoveringIndexTerms(v) ==
  UNION { (IF level(v[i]) < LastLevel THEN {Covering(v[i])} ELSE {})
          \cup (IF level(v[i]) = LastLevel \/ ~for_space THEN {Ancestor(v[i])} ELSE {})
          \cup { Ancestor(a) : a \in NewAncestors(v, i) } : i \in DOMAIN v }

PointQueryTerms(leaf) ==
  {Ancestor(ParentAt(leaf, LastLevel))}
    \cup IF only_points THEN {} ELSE { Covering(ParentAt(leaf, l)) : l \in Levels }

\* Mutant of CoveringQueryTerms: the cells themselves are never queried as
\* covering terms.
CoveringQueryTermsAbove(v) ==
  UNION { {Ancestor(v[i])}
          \cup IF only_points THEN {} ELSE { Covering(a) : a \in NewAncestors(v, i) } :
          i \in DOMAIN v }

\* GetQueryTermsForCanonicalCovering.
CoveringQueryTerms(v) ==
  UNION { {Ancestor(v[i])}
          \cup IF only_points THEN {}
               ELSE (IF for_space /\ level(v[i]) < LastLevel THEN {Covering(v[i])} ELSE {})
                    \cup { Covering(a) : a \in NewAncestors(v, i) } : i \in DOMAIN v }

-----------------------------------------------------------------------------
NoAnswer == [covered |-> {}, hits |-> {}]

Init ==
  /\ CovererInit
  /\ only_points \in BOOLEAN
  /\ for_space \in OptimizeForSpace
  /\ purpose = "none"
  /\ documents = {}
  /\ answer = NoAnswer

Store(covered, terms) ==
  documents' = documents \cup {[covered |-> covered, terms |-> terms]}
Search(covered, terms) ==
  answer' = [covered |-> covered, hits |-> { d \in documents : d.terms \cap terms # {} }]

MayIndex == Cardinality(documents) < MaxDocuments /\ answer = NoAnswer

\* GetIndexTerms and GetQueryTerms of a point.
IndexPoint ==
  /\ phase = "idle" /\ MayIndex
  /\ \E leaf \in Points : Store(Leaves(ParentAt(leaf, LastLevel)), PointIndexTerms(leaf))
  /\ UNCHANGED <<coverer, only_points, for_space, purpose, answer>>
QueryPoint ==
  /\ phase = "idle" /\ documents # {}
  /\ \E leaf \in Points : Search(Leaves(ParentAt(leaf, LastLevel)), PointQueryTerms(leaf))
  /\ UNCHANGED <<coverer, only_points, for_space, purpose, documents>>

\* GetIndexTerms and GetQueryTerms of a region: the covering is computed first.
IndexRegion ==
  /\ MayIndex /\ ~only_points
  /\ \E r \in Regions : StartCovering(r, FALSE)
  /\ purpose' = "index"
  /\ UNCHANGED <<only_points, for_space, documents, answer>>
QueryRegion ==
  /\ documents # {} /\ answer = NoAnswer
  /\ \E r \in Regions : StartCovering(r, FALSE)
  /\ purpose' = "query"
  /\ UNCHANGED <<only_points, for_space, documents, answer>>

\* The coverer is also used by itself.
Cover ==
  /\ documents = {} /\ only_points
  /\ GetCovering \/ GetInteriorCovering \/ CanonicalizeCovering
  /\ UNCHANGED indexer

\* The terms for the covering; the result is moved out of the coverer.
UseCovering ==
  /\ phase = "done" /\ purpose # "none"
  /\ IF purpose = "index"
     THEN Store(LeavesOf(result), CoveringIndexTerms(result)) /\ UNCHANGED answer
     ELSE Search(LeavesOf(result), CoveringQueryTerms(result)) /\ UNCHANGED documents
  /\ phase' = "idle" /\ result' = <<>> /\ purpose' = "none"
  /\ region' = [touch |-> {}, full |-> {}]
  /\ UNCHANGED <<options, interior, pq, only_points, for_space>>

Run == CoverStep /\ UNCHANGED indexer

Next == IndexPoint \/ QueryPoint \/ IndexRegion \/ QueryRegion \/ Cover \/ Run \/ UseCovering

Spec == Init /\ [][Next]_vars
-----------------------------------------------------------------------------
(* Properties.                                                             *)

\* A query shares a term with exactly the documents whose covering meets its
\* own: no document is lost to the shortcuts (ancestors already given a term,
\* cells of the last level that have no covering term, points that have none),
\* and none is found that does not touch a common cell.
TermsFindCoverings ==
  answer # NoAnswer =>
    answer.hits = { d \in documents : d.covered \cap answer.covered # {} }

\* A covering of S2RegionCoverer loses no leaf cell of the region (an interior
\* one adds none) while candidates move between the queue and the result,
\* satisfies every option, and is as small as asked where that is possible.
CoveringFits ==
  /\ CoveringExact
  /\ CoveringCanonical
  /\ CoveringSmall
=============================================================================
