-------------------------- MODULE S2ClosestCellQuery --------------------------
(***************************************************************************)
(* The cells of a cell index closest to a target:                          *)
(* src/s2/s2closest_cell_query_base.h.                                     *)
(*                                                                         *)
(* The search walks the ranges of the index (S2CellIndex) with iterators   *)
(* that pass over empty ones, and reads their cells through one contents   *)
(* iterator, whose cutoff it keeps for the whole query.                    *)
(***************************************************************************)
EXTENDS S2CellIndex, S2ClosestQuery

CONSTANTS CellQueries, kMinRangesToEnqueue, MaxCellQueries

VARIABLES covering,   \* index_covering_
          asked       \* how many queries were made

cell_vars == <<added, tree, ranges, pc, target, it, range, contents, visited, read,
               search, covering, asked>>

\* What the queries leave alone of the index.
built == <<added, tree, ranges, pc, target, it, range, visited, read>>

-----------------------------------------------------------------------------
(* NonEmptyRangeIterator: positions, the last one being done.              *)

NonEmptyFrom(r) == Min({ i \in r .. Len(ranges) : ranges[i].contents # 0 } \cup {Len(ranges)})
NonEmptySeek(leaf) == NonEmptyFrom(SeekRange(leaf))
NonEmptyBefore(r) == { i \in 1 .. r - 1 : ranges[i].contents # 0 }

\* last.Prev() where there may be no range before.
NonEmptyPrev(r) == IF NonEmptyBefore(r) = {} THEN NonEmptyFrom(1) ELSE Max(NonEmptyBefore(r))

StartId(r) == ranges[r].start_id
LastLeaf(r) == ranges[r + 1].start_id - 2

-----------------------------------------------------------------------------
(* One step of the search, on s = [limit, results, tested, queue, contents,*)
(* iter, seek].                                                            *)

NodeLeaves(n) == Leaves(tree[n].cell_id)

\* The number of a labelled cell: nodes that hold the same pair are one item.
ItemOf(n) == Min({ k \in DOMAIN tree : /\ tree[k].cell_id = tree[n].cell_id
                                       /\ tree[k].label = tree[n].label })

AddRange(s, r) ==
  LET Visit(t, i) ==
        IF t.contents.node = 0 THEN t
        ELSE [MaybeAddResult(t, ItemOf(t.contents.node), NodeLeaves(t.contents.node))
                EXCEPT !.contents = ContentsNext(@)]
  IN  FoldLeft(Visit, [s EXCEPT !.contents = StartUnion(@, r)], [i \in 1 .. Len(tree) |-> i])

\* A cell with many ranges waits in the queue, and the caller seeks; the ranges
\* of another are read, which leaves the iterator after them.
ProcessOrEnqueue(s, id, seek) ==
  LET r == IF seek THEN NonEmptySeek(range_min(id)) ELSE s.iter
      last == range_max(id)
      Many == /\ kMinRangesToEnqueue - 1 < Len(ranges) - r
              /\ StartId(r + kMinRangesToEnqueue - 1) <= last
      within == { i \in r .. Len(ranges) - 1 : StartId(i) <= last /\ ranges[i].contents # 0 }
      after == NonEmptyFrom(Max({r} \cup { i + 1 : i \in within }))
  IN  IF StartId(r) > last THEN [s EXCEPT !.iter = r, !.seek = FALSE]
      ELSE IF Many THEN [Enqueue(s, id, FALSE) EXCEPT !.iter = r, !.seek = TRUE]
      ELSE [FoldLeft(AddRange, s, InOrder(within)) EXCEPT !.iter = after, !.seek = FALSE]

\* AddInitialRange.
CommonCell(first, last) == ParentAt(first, GetCommonAncestorLevel(first, last))

\* InitCovering.  A range may reach over several of the top cells: then the
\* seek stays at it, and its common cell is added again.
InitCovering ==
  LET first == NonEmptyFrom(1)
      last == NonEmptyPrev(Len(ranges))
      last_leaf == LastLeaf(last)
      l == GetCommonAncestorLevel(StartId(first), last_leaf) + 1
      tops == InOrder({ id \in CellIds : /\ level(id) = l
                                         /\ id >= ParentAt(StartId(first), l)
                                         /\ id < ParentAt(last_leaf, l) })
      Top(s, id) ==
        LET next_it == NonEmptySeek(range_max(id) + 2)
            prev_it == NonEmptyPrev(next_it)
        IN  IF range_max(id) < StartId(s.at) THEN s
            ELSE [at |-> next_it,
                  cover |-> Append(s.cover, CommonCell(StartId(s.at), LastLeaf(prev_it)))]
      s == FoldLeft(Top, [at |-> first, cover |-> <<>>], tops)
  IN  IF NonEmptyBefore(Len(ranges)) = {} THEN <<>>
      ELSE IF first = last THEN <<CommonCell(StartId(first), last_leaf)>>
      ELSE Append(s.cover, CommonCell(StartId(s.at), last_leaf))

\* The loop over the initial cells: seeks where the range ends before the cell.
AddInitialCells(s, cells) ==
  LET Step(t, i) ==
        IF t.ended THEN t
        ELSE LET seek == i = 1 \/ range_min(cells[i]) >= ranges[t.s.iter + 1].start_id
                 u == ProcessOrEnqueue(t.s, cells[i], seek)
             IN  [s |-> u, ended |-> u.iter = Len(ranges)]
  IN  FoldLeft(Step, [s |-> s, ended |-> FALSE], [i \in DOMAIN cells |-> i]).s

-----------------------------------------------------------------------------
(* The state machine.                                                      *)

CellQueryInit == Init /\ SearchInit /\ covering = <<>> /\ asked = 0

IndexStep == (Add \/ Build) /\ UNCHANGED <<search, covering, asked>>

State == [limit |-> limit, results |-> results, tested |-> tested, queue |-> queue,
          contents |-> contents, iter |-> 1, seek |-> TRUE]

\* Mutant of FindClosestCells: the cutoff of the query before is kept.
FindClosestCellsKept ==
  /\ ranges # <<>> /\ asked < MaxCellQueries
  /\ \E query \in CellQueries :
       Begin(query, {}, query.max_distance,
             query.use_brute_force \/ Len(tree) <= query.max_brute_force_index_size)
  /\ UNCHANGED contents
  /\ asked' = asked + 1
  /\ UNCHANGED <<built, covering>>

FindClosestCells ==
  /\ ranges # <<>> /\ asked < MaxCellQueries
  /\ \E query \in CellQueries :
       Begin(query, {}, query.max_distance,
             query.use_brute_force \/ Len(tree) <= query.max_brute_force_index_size)
  /\ contents' = ClearContents
  /\ asked' = asked + 1
  /\ UNCHANGED <<built, covering>>

FindClosestCellsBruteForce ==
  /\ phase = "brute"
  /\ Keep(FoldLeft(LAMBDA s, n : MaybeAddResult(s, ItemOf(n), NodeLeaves(n)),
                   Found, [n \in DOMAIN tree |-> n]))
  /\ phase' = "done"
  /\ UNCHANGED <<built, contents, q, conservative, avoid, covering, asked>>

\* A single closest cell is first looked for at the centre of the target, and
\* before it if the range there starts later.
LookAtCenter(center) ==
  LET r == NonEmptySeek(center)
      s == AddRange(State, r)
      back == NonEmptyBefore(r)
  IN  IF s.limit # 0 /\ StartId(r) > center /\ back # {} THEN AddRange(s, Max(back)) ELSE s

InitQueue ==
  /\ phase = "init"
  /\ \E center \in q.target :
       LET s == IF q.max_results = 1 THEN LookAtCenter(center) ELSE State
           cover == IF covering = <<>> THEN InitCovering ELSE covering
       IN  IF s.limit = 0 THEN Keep(s) /\ contents' = s.contents /\ UNCHANGED covering
           ELSE /\ covering' = cover
                /\ \E near \in IF s.limit = Infinity THEN {<<>>} ELSE SearchCoverings(s.limit) :
                     LET cells == IF s.limit = Infinity THEN cover
                                  ELSE GetIntersection(cover, near)
                         t == AddInitialCells(s, cells)
                     IN  Keep(t) /\ contents' = t.contents
  /\ phase' = "search"
  /\ UNCHANGED <<built, q, conservative, avoid, asked>>

FindClosestCellsOptimized ==
  /\ phase = "search"
  /\ \E e \in queue :
       /\ IsTop(e)
       /\ LET s == FoldLeft(LAMBDA t, k : ProcessOrEnqueue(t, child(e.id, k), t.seek),
                            [State EXCEPT !.queue = @ \ {e}], <<0, 1, 2, 3>>)
          IN  Keep(s) /\ contents' = s.contents
  /\ UNCHANGED <<built, q, conservative, avoid, phase, covering, asked>>

CellQueryNext ==
  \/ IndexStep
  \/ FindClosestCells
  \/ FindClosestCellsBruteForce
  \/ InitQueue
  \/ FindClosestCellsOptimized
  \/ EndSearch /\ UNCHANGED <<built, contents, covering, asked>>
  \/ Return /\ UNCHANGED <<built, contents, covering, asked>>

CellQuerySpec == CellQueryInit /\ [][CellQueryNext]_cell_vars
-----------------------------------------------------------------------------
(* Properties.                                                             *)

\* The closest labelled cells are found although the contents iterator passes
\* over cells it has read before, ranges are read at once or deferred by how
\* many there are, and iterators are reused from one cell to the next.
CellsClosest == ClosestAmong([n \in { ItemOf(k) : k \in DOMAIN tree } |-> NodeLeaves(n)])
=============================================================================
