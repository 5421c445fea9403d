--------------------------- MODULE BatchGenerator ---------------------------
(***************************************************************************)
(* How ApplyUpdatesInternal of MutableS2ShapeIndex cuts pending updates    *)
(* into batches: GetUpdateBatches drives a BatchGenerator with the queued  *)
(* shapes, one AddShape per shape that was not released meanwhile.         *)
(*                                                                         *)
(* A position is a ShapeEdgeId <<shape_id, edge_id>>.  Memory estimates    *)
(* (kFinalBytesPerEdge, kTmpBytesPerEdge, the budget flag, kMaxBatches)    *)
(* are parameters, 8, 226, 100 MB and 100 in the code; the floating-point  *)
(* "ideal_batch_size" is kept as an exact fraction.                        *)
(***************************************************************************)
EXTENDS Integers, Sequences

CONSTANTS kFinalBytesPerEdge, kTmpBytesPerEdge,
          TmpMemoryBudget, kMaxBatches,
          ShapeIdBegin,   \* pending_additions_begin_
          QueuedShapes,   \* bound on the queued shapes
          MaxEdges,       \* bound on the edges of a shape
          MaxRemoved,     \* bound on the edges of the removed shapes
          NoShape         \* a queued shape that was released again

\* Each batch leaves less room for the next, but more than half of it.
ASSUME BytesPerEdge ==
  /\ kFinalBytesPerEdge \in Nat \ {0} /\ kTmpBytesPerEdge \in Nat
  /\ 2 * kFinalBytesPerEdge <= kTmpBytesPerEdge
ASSUME BudgetIsNat == TmpMemoryBudget \in Nat
ASSUME SeveralBatches == kMaxBatches \in Nat /\ kMaxBatches > 1
ASSUME BatchBoundsAreNat ==
  ShapeIdBegin \in Nat /\ QueuedShapes \in Nat /\ MaxEdges \in Nat /\ MaxRemoved \in Nat
ASSUME NoShapeIsNoNumber == NoShape \notin Nat

VARIABLES
  shapes,          \* num_edges of the queued shapes, by position
  removed,         \* num_edges_removed
  max_batch_sizes_,
  position,        \* loop variable of GetUpdateBatches
  gen,             \* the fields of the BatchGenerator
  finished

batch_vars == <<removed, max_batch_sizes_, position, gen, finished>>

NumEdges(i) == IF shapes[i] = NoShape THEN 0 ELSE shapes[i]

SumTo[i \in 0 .. QueuedShapes] == IF i = 0 THEN 0 ELSE SumTo[i - 1] + NumEdges(i)

Max2(a, b) == IF a >= b THEN a ELSE b

Power(base, n) ==
  LET p[i \in 0 .. n] == IF i = 0 THEN 1 ELSE base * p[i - 1] IN p[n]

\* A turn of the loop of GetMaxBatchSizes: num / den is ideal_batch_size,
\* multiplied by kTmpSpaceMultiplier after every batch.  Below one its value no
\* longer matters: each further batch holds a single edge.
SizesTurn(s) ==
  LET size == s.num \div s.den + 1
      keep == s.num < s.den
  IN  IF s.left <= 0 THEN s
      ELSE [sizes |-> Append(s.sizes, size),
            left  |-> s.left - size,
            num   |-> IF keep THEN s.num ELSE s.num * (kTmpBytesPerEdge - kFinalBytesPerEdge),
            den   |-> IF keep THEN s.den ELSE s.den * kTmpBytesPerEdge]

\* The sizes appended by the loop for left edges.
IdealSizes(left, num, den) ==
  LET after[k \in 0 .. left] ==
        IF k = 0 THEN [sizes |-> <<>>, left |-> left, num |-> num, den |-> den]
        ELSE SizesTurn(after[k - 1])
  IN  after[left].sizes

GetMaxBatchSizes(num_removed, num_added) ==
  LET total == num_removed + num_added
      final == num_added * kFinalBytesPerEdge
      q     == Power(kTmpBytesPerEdge, kMaxBatches - 1)
      d     == q - Power(kTmpBytesPerEdge - kFinalBytesPerEdge, kMaxBatches - 1)
      \* total_budget_bytes = budget / d
      budget == Max2((final + TmpMemoryBudget) * d, final * q)
      num    == budget
      den    == d * kTmpBytesPerEdge
  IN  IF total * kTmpBytesPerEdge <= TmpMemoryBudget THEN <<total>>
      ELSE IF num_removed * den > num
           THEN <<num_removed>> \o IdealSizes(num_added, num, den)
           ELSE IdealSizes(num_added + num_removed, num, den)

-----------------------------------------------------------------------------
\* max_batch_sizes_[i], its last entry duplicated; beyond that, whatever lies
\* behind the vector (here 0): "overruns" counts the times this was read.
SizeAt(i) == IF i + 1 \in DOMAIN max_batch_sizes_ THEN max_batch_sizes_[i + 1]
             ELSE 0

max_batch_size(g) == SizeAt(g.batch_index)
next_max_batch_size(g) == SizeAt(g.batch_index + 1)

\* g after it has evaluated next_max_batch_size().
LookAhead(g) ==
  [g EXCEPT !.overruns = IF g.batch_index + 2 \in DOMAIN max_batch_sizes_ THEN @ ELSE @ + 1]

\* A turn of the loop of FinishBatch that moves the size index on.
AdvanceTurn(g) ==
  IF g.edges_left >= 0 THEN g
  ELSE IF max_batch_size(g) <= 0 THEN [g EXCEPT !.overruns = @ + 1]
  ELSE [g EXCEPT !.edges_left = @ + max_batch_size(g), !.batch_index = @ + 1]

\* The current size index after the edges of a batch are used up.
AdvanceIndex(g) ==
  LET after[k \in 0 .. Len(max_batch_sizes_) + 1] ==
        IF k = 0 THEN g ELSE AdvanceTurn(after[k - 1])
  IN  after[Len(max_batch_sizes_) + 1]

ExtendBatch(g, n) == [g EXCEPT !.batch_size = @ + n]

\* Mutant of FinishBatch: the next batch begins after the end it was given.
FinishBatchSkipping(g, n, end) ==
  LET size == g.batch_size + n
      batch == [begin |-> g.batch_begin, end |-> end, num_edges |-> size]
  IN  AdvanceIndex([g EXCEPT !.batches = Append(@, batch),
                             !.batch_begin = <<end[1], end[2] + 1>>,
                             !.edges_left = @ - size,
                             !.batch_size = 0])

FinishBatch(g, n, end) ==
  LET size == g.batch_size + n
      batch == [begin |-> g.batch_begin, end |-> end, num_edges |-> size]
  IN  AdvanceIndex([g EXCEPT !.batches = Append(@, batch),
                             !.batch_begin = end,
                             !.edges_left = @ - size,
                             !.batch_size = 0])

\* A turn of the while loop of AddShape.  f has the generator, where the rest
\* of the shape begins, how many edges it has and the room in the current
\* batch.
FillTurn(f, shape_id) ==
  LET e == f.e_begin + f.remaining
      h == FinishBatch(LookAhead(f.g), f.remaining, <<shape_id, e>>)
  IN  IF f.g.overruns > 0 \/ f.remaining + next_max_batch_size(f.g) >= f.num_edges THEN f
      ELSE [g |-> h, e_begin |-> e, num_edges |-> f.num_edges - f.remaining,
            remaining |-> max_batch_size(h)]

\* Fills whole batches until the rest of the shape fits into two.  Only the
\* first of them may already be full.
FillBatches(g, shape_id, num_edges, remaining) ==
  LET after[k \in 0 .. num_edges + 1] ==
        IF k = 0
        THEN [g |-> g, e_begin |-> 0, num_edges |-> num_edges, remaining |-> remaining]
        ELSE FillTurn(after[k - 1], shape_id)
      f == after[num_edges + 1]
  IN  [f EXCEPT !.g = LookAhead(f.g)]

\* Mutant of SplitShape: the last two batches are cut one edge too late.
SplitShapeLate(g, shape_id, num_edges, remaining) ==
  LET f == FillBatches(g, shape_id, num_edges, remaining)
      n == (f.num_edges + f.remaining - next_max_batch_size(f.g)) \div 2 + 1
      h == FinishBatch(f.g, n, <<shape_id, f.e_begin + n>>)
  IN  FinishBatch(h, f.num_edges - n, <<shape_id + 1, 0>>)

\* A shape too large for the next batch, divided so that its last two batches
\* have the same amount of remaining space.
SplitShape(g, shape_id, num_edges, remaining) ==
  LET f == FillBatches(g, shape_id, num_edges, remaining)
      n == (f.num_edges + f.remaining - next_max_batch_size(f.g)) \div 2
      h == FinishBatch(f.g, n, <<shape_id, f.e_begin + n>>)
  IN  FinishBatch(h, f.num_edges - n, <<shape_id + 1, 0>>)

\* Mutant of AddShape: no look-ahead, every shape that does not fit is split.
AddShapeAlwaysSplit(g, shape_id, num_edges) ==
  LET remaining == max_batch_size(g) - g.batch_size
      h == IF num_edges <= remaining THEN ExtendBatch(g, num_edges)
           ELSE SplitShape(g, shape_id, num_edges, remaining)
  IN  [h EXCEPT !.shape_id_end = shape_id + 1]

\* Mutant of AddShape: the room left ignores what is already in the batch.
AddShapeFullRoom(g, shape_id, num_edges) ==
  LET h == IF num_edges <= max_batch_size(g) THEN ExtendBatch(g, num_edges)
           ELSE SplitShape(g, shape_id, num_edges, max_batch_size(g))
  IN  [h EXCEPT !.shape_id_end = shape_id + 1]

AddShape(g, shape_id, num_edges) ==
  LET remaining == max_batch_size(g) - g.batch_size
      h == IF num_edges <= remaining
           THEN ExtendBatch(g, num_edges)
           ELSE IF num_edges <= next_max_batch_size(g)
           THEN ExtendBatch(FinishBatch(LookAhead(g), 0, <<shape_id, 0>>), num_edges)
           ELSE SplitShape(g, shape_id, num_edges, remaining)
  IN  [h EXCEPT !.shape_id_end = shape_id + 1]

Finish(g) ==
  IF g.batches = <<>> \/ g.shape_id_end # g.batch_begin[1]
  THEN FinishBatch(g, 0, <<g.shape_id_end, 0>>)
  ELSE g

-----------------------------------------------------------------------------
InitialGen(num_removed) ==
  [batch_index  |-> 0,
   edges_left   |-> 0,
   batch_begin  |-> <<ShapeIdBegin, 0>>,
   shape_id_end |-> ShapeIdBegin,
   batch_size   |-> num_removed,
   batches      |-> <<>>,
   overruns     |-> 0]        \* reads behind max_batch_sizes_

\* The duplicated last entry simplifies next_max_batch_size().
DuplicateLast(s) == Append(s, s[Len(s)])

BatchesInit ==
  /\ shapes \in [1 .. QueuedShapes -> 0 .. MaxEdges \cup {NoShape}]
  /\ removed \in 0 .. MaxRemoved
  /\ max_batch_sizes_ = DuplicateLast(GetMaxBatchSizes(removed, SumTo[QueuedShapes]))
  /\ position = 1
  /\ gen = InitialGen(removed)
  /\ finished = FALSE

\* One turn of the loop of GetUpdateBatches.
AddNextShape ==
  /\ position <= QueuedShapes
  /\ position' = position + 1
  /\ gen' = IF shapes[position] = NoShape THEN gen
            ELSE AddShape(gen, ShapeIdBegin + position - 1, shapes[position])
  /\ UNCHANGED <<shapes, removed, max_batch_sizes_, finished>>

FinishBatches ==
  /\ position > QueuedShapes
  /\ ~finished
  /\ finished' = TRUE
  /\ gen' = Finish(gen)
  /\ UNCHANGED <<shapes, removed, max_batch_sizes_, position>>

BatchesNext == AddNextShape \/ FinishBatches

BatchesSpec == BatchesInit /\ [][BatchesNext]_<<shapes, batch_vars>>
-----------------------------------------------------------------------------
Batches == gen.batches

\* Edges of the queued shapes before a position.
EdgesBefore(pos) ==
  SumTo[IF pos[1] - ShapeIdBegin <= QueuedShapes THEN pos[1] - ShapeIdBegin
        ELSE QueuedShapes] + pos[2]

\* The batches of GetUpdateBatches follow each other without gap or overlap,
\* count exactly the edges between their ends (the removed ones in the first
\* batch), and once finished reach the end of the last queued live shape.
BatchesTile ==
  /\ \A b \in 1 .. Len(Batches) :
       /\ Batches[b].begin = IF b = 1 THEN <<ShapeIdBegin, 0>>
                             ELSE Batches[b - 1].end
       /\ Batches[b].num_edges =
            EdgesBefore(Batches[b].end) - EdgesBefore(Batches[b].begin)
              + (IF b = 1 THEN removed ELSE 0)
  /\ finished =>
       /\ Batches # <<>>
       /\ Batches[Len(Batches)].end[2] = 0
       /\ \A i \in 1 .. QueuedShapes :
            shapes[i] # NoShape =>
              ShapeIdBegin + i <= Batches[Len(Batches)].end[1]

\* "If end.edge_id != 0, it must refer to a valid edge" (BatchDescriptor), and
\* a batch that starts inside a shape holds nothing but that shape:
\* ApplyUpdatesInternal finishes a partial shape only when begin.edge_id > 0
\* and end.edge_id == 0.
PartialShapesAlone ==
  \A b \in 1 .. Len(Batches) :
    LET begin == Batches[b].begin
        end   == Batches[b].end
    IN  /\ end[2] # 0 => /\ shapes[end[1] - ShapeIdBegin + 1] # NoShape
                         /\ end[2] < shapes[end[1] - ShapeIdBegin + 1]
        /\ begin[2] > 0 => \/ end[1] = begin[1] /\ end[2] > begin[2]
                           \/ end = <<begin[1] + 1, 0>>

\* AddShape avoids "splitting shapes across batches unnecessarily": a shape
\* cut by the end of a batch is larger than one of the sizes due by then.
SplitOnlyIfNecessary ==
  \A b \in 1 .. Len(Batches) :
    Batches[b].end[2] # 0 =>
      \E i \in 1 .. b + 1 :
        max_batch_sizes_[i] < shapes[Batches[b].end[1] - ShapeIdBegin + 1]

\* No batch is larger than its turn's size allows, so that the memory budget
\* holds, and AddShape never looks ahead beyond the duplicated last entry of
\* max_batch_sizes_.
WithinBudget ==
  /\ gen.overruns = 0
  /\ \A b \in 1 .. Len(Batches) :
       \E i \in 1 .. b : Batches[b].num_edges <= max_batch_sizes_[i]
  /\ gen.batch_size <= max_batch_size(gen)

\* GetUpdateBatches cuts what is queued into batches that leave out no edge
\* and take none twice, keep to the memory budget, and split a shape only
\* where that cannot be avoided and in the way ApplyUpdatesInternal expects.
BatchesExact ==
  /\ BatchesTile
  /\ PartialShapesAlone
  /\ SplitOnlyIfNecessary
  /\ WithinBudget
=============================================================================
