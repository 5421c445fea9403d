----------------------------- MODULE S2CellIndex -----------------------------
(***************************************************************************)
(* Cells with labels, which may overlap, indexed by the leaf cells they    *)
(* contain: src/s2/s2cell_index.{h,cc}.                                    *)
(*                                                                         *)
(* Build turns the cells that were added into a tree, where a cell's       *)
(* parent is the cell pushed before it that is still open, and divides the *)
(* leaf cells into ranges with equal contents, each with the node of the   *)
(* innermost cell open there.  VisitIntersectingCells walks the ranges     *)
(* along the cells of a target; its contents iterator climbs the tree and  *)
(* stops where the walk has been before.                                   *)
(***************************************************************************)
EXTENDS S2CellVector

CONSTANTS LabelledCells,   \* [cell_id, label]
          MaxCells,        \* how many of them are added
          Targets,         \* the cell unions that are looked up
          MaxRanges        \* how many ranges a client of the iterators reads

VARIABLES added,      \* cell_tree_ before Build
          tree,       \* cell_tree_ after Build: [cell_id, label, parent]
          ranges,     \* range_nodes_: [start_id, contents]
          pc,         \* where the walk is: "none", "target", "ranges", "climb",
                      \* "end", or "client" and "read" for a use of the iterators
          target,     \* the cell union that is looked up
          it,         \* the position in target, one after its end when done
          range,      \* the position of the range iterator
          contents,   \* the contents iterator: [prev_start_id, node_cutoff,
                      \* next_node_cutoff, node], node 0 being done
          visited,    \* the nodes the visitor was called for, in order
          read        \* the ranges whose union was started, in order

index == <<added, tree, ranges>>
vars == <<added, tree, ranges, pc, target, it, range, contents, visited, read>>

\* S2CellId::Sentinel() and None(), after and before every id.
Sentinel == NumFaces * FaceSize + FaceSize
None == 0

-----------------------------------------------------------------------------
(* Build.  Nodes are numbered from 1 here, and 0 is no node.               *)

Precedes(a, b) ==
  \/ a.start_id < b.start_id
  \/ a.start_id = b.start_id /\ a.cell_id > b.cell_id
  \/ a.start_id = b.start_id /\ a.cell_id = b.cell_id /\ a.label < b.label

\* Two deltas for each cell, and one at each end of the leaf cells.
Deltas(cells) ==
  LET Push(i) == [start_id |-> range_min(cells[i].cell_id), cell_id |-> cells[i].cell_id,
                  label |-> cells[i].label]
      Pop(i) == [start_id |-> range_max(cells[i].cell_id) + 2, cell_id |-> Sentinel,
                 label |-> -1]
      Ends == << [start_id |-> 1, cell_id |-> None, label |-> -1],
                 [start_id |-> LeafEnd, cell_id |-> None, label |-> -1] >>
  IN  SortSeq([i \in DOMAIN cells |-> Push(i)] \o [i \in DOMAIN cells |-> Pop(i)] \o Ends,
              Precedes)

\* Mutant of ApplyDelta: a cell that ends leaves no cell open.
ApplyDeltaClosing(s, d) ==
  IF d.label >= 0
  THEN [s EXCEPT !.tree = Append(@, [cell_id |-> d.cell_id, label |-> d.label, parent |-> s.open]),
                 !.open = Len(s.tree) + 1]
  ELSE IF d.cell_id = Sentinel THEN [s EXCEPT !.open = 0]
  ELSE s

\* The stack of open cells is the path from s.open up the tree.
ApplyDelta(s, d) ==
  IF d.label >= 0
  THEN [s EXCEPT !.tree = Append(@, [cell_id |-> d.cell_id, label |-> d.label, parent |-> s.open]),
                 !.open = Len(s.tree) + 1]
  ELSE IF d.cell_id = Sentinel THEN [s EXCEPT !.open = s.tree[s.open].parent]
  ELSE s

\* One range for the deltas that share a start.
EmitRange(s, d) ==
  LET t == ApplyDelta(s, d)
      node == [start_id |-> d.start_id, contents |-> t.open]
      n == Len(s.ranges)
  IN  [t EXCEPT !.ranges = IF n > 0 /\ s.ranges[n].start_id = d.start_id
                           THEN [@ EXCEPT ![n] = node] ELSE Append(@, node)]

Built(cells) == FoldLeft(EmitRange, [tree |-> <<>>, ranges |-> <<>>, open |-> 0], Deltas(cells))

-----------------------------------------------------------------------------
(* The iterators.                                                          *)

ClearContents == [prev_start_id |-> None, node_cutoff |-> 0, next_node_cutoff |-> 0, node |-> 0]

\* RangeIterator::Seek: the last range that does not start after the leaf cell.
SeekRange(leaf) == Max({ i \in DOMAIN ranges : ranges[i].start_id <= leaf })

\* Mutant of StartUnion: going back does not lift the cutoff.
StartUnionForward(c, r) ==
  [c EXCEPT !.prev_start_id = ranges[r].start_id,
            !.node = IF ranges[r].contents <= c.node_cutoff THEN 0 ELSE ranges[r].contents,
            !.next_node_cutoff = ranges[r].contents]

StartUnion(c, r) ==
  LET cutoff == IF ranges[r].start_id < c.prev_start_id THEN 0 ELSE c.node_cutoff
  IN  [prev_start_id |-> ranges[r].start_id,
       node_cutoff |-> cutoff,
       node |-> IF ranges[r].contents <= cutoff THEN 0 ELSE ranges[r].contents,
       next_node_cutoff |-> ranges[r].contents]

\* Mutant of ContentsNext: the cutoff stays what it was.
ContentsNextAgain(c) ==
  IF tree[c.node].parent <= c.node_cutoff THEN [c EXCEPT !.node = 0]
  ELSE [c EXCEPT !.node = tree[c.node].parent]

ContentsNext(c) ==
  IF tree[c.node].parent <= c.node_cutoff
  THEN [c EXCEPT !.node_cutoff = c.next_node_cutoff, !.node = 0]
  ELSE [c EXCEPT !.node = tree[c.node].parent]

\* The target cell that follows position i once the ranges before r are done,
\* where lower_bound compares the ids themselves.
NextTarget(i, r) ==
  LET start == ranges[r].start_id
      next_it == i + 1
      found == Min({ k \in (next_it + 1) .. Len(target) : target[k] >= start }
                   \cup {Len(target) + 1})
  IN  IF next_it > Len(target) \/ range_max(target[next_it]) >= start THEN next_it
      ELSE IF range_max(target[found - 1]) >= start THEN found - 1
      ELSE found

-----------------------------------------------------------------------------
(* The state machine.                                                      *)

Init ==
  /\ added = <<>> /\ tree = <<>> /\ ranges = <<>>
  /\ pc = "none" /\ target = <<>> /\ it = 1 /\ range = 1
  /\ contents = ClearContents /\ visited = <<>> /\ read = <<>>

Add ==
  /\ ranges = <<>> /\ Len(added) < MaxCells
  /\ \E c \in LabelledCells : added' = Append(added, c)
  /\ UNCHANGED <<tree, ranges, pc, target, it, range, contents, visited, read>>

Build ==
  /\ ranges = <<>>
  /\ LET b == Built(added) IN tree' = b.tree /\ ranges' = b.ranges
  /\ UNCHANGED <<added, pc, target, it, range, contents, visited, read>>

\* VisitIntersectingCells: from Begin() to the last cell of the target.
VisitIntersectingCells ==
  /\ ranges # <<>> /\ pc = "none"
  /\ \E t \in Targets : target' = t /\ pc' = IF t = <<>> THEN "end" ELSE "target"
  /\ UNCHANGED <<added, tree, ranges, it, range, contents, visited, read>>

\* Seeks only where the range ends before the target cell.
EnterTarget ==
  /\ pc = "target"
  /\ range' = IF ranges[range + 1].start_id <= range_min(target[it])
              THEN SeekRange(range_min(target[it])) ELSE range
  /\ pc' = "ranges"
  /\ UNCHANGED <<added, tree, ranges, target, it, contents, visited, read>>

EnterRange ==
  /\ pc = "ranges" /\ ranges[range].start_id <= range_max(target[it])
  /\ contents' = StartUnion(contents, range)
  /\ read' = Append(read, range)
  /\ pc' = "climb"
  /\ UNCHANGED <<added, tree, ranges, target, it, range, visited>>

LeaveTarget ==
  /\ pc = "ranges" /\ ranges[range].start_id > range_max(target[it])
  /\ it' = NextTarget(it, range)
  /\ pc' = IF it' > Len(target) THEN "end" ELSE "target"
  /\ UNCHANGED <<added, tree, ranges, target, range, contents, visited, read>>

\* One call of the visitor, which may end the walk, or the end of a range.
Climb ==
  /\ pc = "climb" /\ contents.node # 0
  /\ visited' = Append(visited, contents.node)
  /\ contents' = ContentsNext(contents)
  /\ pc' \in {"climb", "stopped"}
  /\ UNCHANGED <<added, tree, ranges, target, it, range, read>>
LeaveRange ==
  /\ pc = "climb" /\ contents.node = 0
  /\ range' = range + 1
  /\ pc' = "ranges"
  /\ UNCHANGED <<added, tree, ranges, target, it, contents, visited, read>>

\* A client that reads the contents of ranges in an order of its own.
StartReading ==
  /\ ranges # <<>> /\ pc = "none"
  /\ pc' = "client"
  /\ UNCHANGED <<added, tree, ranges, target, it, range, contents, visited, read>>
ReadRange ==
  /\ pc = "client" /\ contents.node = 0 /\ Len(read) < MaxRanges
  /\ \E r \in 1 .. Len(ranges) - 1 :
       contents' = StartUnion(contents, r) /\ read' = Append(read, r)
  /\ UNCHANGED <<added, tree, ranges, pc, target, it, range, visited>>
ReadContents ==
  /\ pc = "client" /\ contents.node # 0
  /\ visited' = Append(visited, contents.node)
  /\ contents' = ContentsNext(contents)
  /\ UNCHANGED <<added, tree, ranges, pc, target, it, range, read>>

Next ==
  \/ Add
  \/ Build
  \/ VisitIntersectingCells
  \/ EnterTarget
  \/ EnterRange
  \/ LeaveTarget
  \/ Climb
  \/ LeaveRange
  \/ StartReading
  \/ ReadRange
  \/ ReadContents

Spec == Init /\ [][Next]_vars
-----------------------------------------------------------------------------
(* Properties.                                                             *)

Nodes == DOMAIN tree
PathFrom(n) == LET up[k \in 0 .. Len(tree)] == IF k = 0 THEN {} ELSE {k} \cup up[tree[k].parent]
               IN  up[n]

\* The ranges divide all leaf cells, and the path up the tree from a range's
\* node has exactly the cells, each as often as it was added, that contain the
\* leaf cells of the range: also where cells end together, start together, or
\* were added twice.
RangesExact ==
  ranges # <<>> =>
    /\ ranges[1].start_id = 1 /\ ranges[Len(ranges)].start_id = LeafEnd
    /\ \A i \in 1 .. Len(ranges) - 1 :
         /\ ranges[i].start_id < ranges[i + 1].start_id
         /\ \A c \in ToSet(added) :
              Cardinality({ n \in PathFrom(ranges[i].contents) :
                              tree[n].cell_id = c.cell_id /\ tree[n].label = c.label })
              = IF Leaves(c.cell_id) \cap { l \in LeafIds : ranges[i].start_id <= l
                                                           /\ l < ranges[i + 1].start_id } = {}
                THEN 0 ELSE Cardinality({ k \in DOMAIN added : added[k] = c })

\* VisitIntersectingCells calls the visitor once for every labelled cell that
\* intersects the target and for no other, although it jumps over ranges and
\* target cells and stops climbing where a cutoff says that the ancestors were
\* reported.
VisitsExact ==
  pc = "end" =>
    /\ ToSet(visited) = { n \in Nodes : \E i \in DOMAIN target :
                                        intersects(tree[n].cell_id, target[i]) }
    /\ Cardinality(ToSet(visited)) = Len(visited)

\* A client of the contents iterator sees every cell of the ranges it has read,
\* in whatever order; and no cell twice while it only moves forward.
UnionComplete ==
  pc = "client" /\ contents.node = 0 =>
    /\ ToSet(visited) = UNION { PathFrom(ranges[r].contents) : r \in ToSet(read) }
    /\ (\A i \in 2 .. Len(read) : read[i - 1] <= read[i]) =>
         Cardinality(ToSet(visited)) = Len(visited)

\* The ranges and the tree of S2CellIndex::Build hold every labelled cell
\* where it belongs, and the iterators and VisitIntersectingCells report every
\* cell that they should, none of them twice.
CellIndexExact ==
  /\ RangesExact
  /\ VisitsExact
  /\ UnionComplete
=============================================================================
