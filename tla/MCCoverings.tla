------------------------------ MODULE MCCoverings ------------------------------
(* Coverings, the term indexer that asks for them, and the cell index, each   *)
(* in runs of its own: active says whose run it is.                           *)
EXTENDS S2RegionCoverer

VARIABLES active,
          ci_added, ci_tree, ci_ranges, ci_pc, ci_target, ci_it, ci_range, ci_contents,
          ci_visited, ci_read

LOCAL Leaf(k) == 2 * k + 1
LOCAL Span(first, last) == { Leaf(k) : k \in first .. last }
LOCAL Cell(l, k) == (2 * k + 1) * lsb_for_level(l)

\* The leaf cells first .. last met, all but those at the ends inside.
LOCAL Between(first, last) == [touch |-> Span(first, last), full |-> Span(first + 1, last - 1)]

MCRegions ==
  { Between(0, 3), Between(5, 18), Between(15, 16), Between(3, 60), Between(30, 100),
    [touch |-> Span(8, 8), full |-> {}],
    [touch |-> Span(2, 2) \cup Span(20, 20) \cup Span(47, 49) \cup Span(90, 90), full |-> {}],
    [touch |-> Span(16, 31) \cup Span(33, 40), full |-> Span(16, 31)],
    [touch |-> LeafIds, full |-> LeafIds] }

MCOptions ==
  { [max_cells |-> n, min_level |-> lo, max_level |-> hi, level_mod |-> mod] :
      n \in {1, 3, 5}, lo \in 0 .. 2, hi \in 2 .. 3, mod \in 1 .. 2 }
  \cup { [max_cells |-> 4, min_level |-> 0, max_level |-> 3, level_mod |-> 3] }

MCVectors ==
  { <<Cell(3, 1), Cell(3, 2), Cell(3, 17), Cell(3, 40), Cell(2, 9)>>,
    <<Cell(3, 70), Cell(1, 0), Cell(3, 16), Cell(3, 17), Cell(3, 18)>>,
    <<Cell(2, 0), Cell(2, 2), Cell(3, 12), Cell(2, 4), Cell(2, 5), Cell(2, 6)>>,
    [k \in 1 .. 12 |-> Cell(3, 5 * k)] }

MCPoints == { Leaf(8), Leaf(47) }

MCLabelledCells ==
  { [cell_id |-> c, label |-> 1] : c \in {Cell(0, 0), Cell(1, 1), Cell(3, 16)} }
  \cup { [cell_id |-> c, label |-> 2] : c \in {Cell(1, 1), Cell(2, 7)} }

MCTargets ==
  { <<>>, <<Cell(3, 16)>>, <<Cell(1, 1)>>, <<Cell(2, 4), Cell(3, 31), Cell(0, 1)>>,
    <<Cell(3, 0), Cell(3, 5), Cell(3, 9), Cell(3, 17), Cell(3, 20), Cell(3, 28)>>,
    <<Cell(0, 0), Cell(0, 1)>> }

CI == INSTANCE S2CellIndex WITH
  LabelledCells <- MCLabelledCells, MaxCells <- 3, Targets <- MCTargets, MaxRanges <- 3,
  added <- ci_added, tree <- ci_tree, ranges <- ci_ranges, pc <- ci_pc, target <- ci_target,
  it <- ci_it, range <- ci_range, contents <- ci_contents, visited <- ci_visited,
  read <- ci_read

ci_vars == <<ci_added, ci_tree, ci_ranges, ci_pc, ci_target, ci_it, ci_range, ci_contents,
             ci_visited, ci_read>>
all_vars == <<vars, ci_vars, active>>

\* While the cell index runs the indexer rests with one choice of its options.
MCInit ==
  /\ CI!Init /\ Init
  /\ \/ active = "coverings"
     \/ /\ active = "cell index" /\ ~only_points /\ ~for_space
        /\ options = CHOOSE o \in OptionSets : TRUE

MCNext ==
  /\ UNCHANGED active
  /\ \/ active = "coverings" /\ Next /\ UNCHANGED ci_vars
     \/ active = "cell index" /\ CI!Next /\ UNCHANGED vars

MCSpec == MCInit /\ [][MCNext]_all_vars

\* The ranges and the tree of S2CellIndex::Build hold every labelled cell
\* where it belongs, and the iterators and VisitIntersectingCells report every
\* cell that they should, none of them twice.
CellIndexExact == CI!CellIndexExact
=============================================================================
