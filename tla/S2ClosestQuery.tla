---------------------------- MODULE S2ClosestQuery ----------------------------
(***************************************************************************)
(* What the branch and bound searches for the closest edges, cells and     *)
(* points have in common: src/s2/s2closest_{edge,cell,point}_query_base.h. *)
(*                                                                         *)
(* A search keeps the results found so far and a distance limit that sinks *)
(* with them, and a queue of cells by their distance from the target.      *)
(* Things are sets of leaf cells and distances are counted in leaf cells   *)
(* along the curve.  A query q has the options and the target:             *)
(*   target       its leaf cells                                           *)
(*   uses_error   whether the target takes max_error for itself            *)
(*                (S2DistanceTarget::set_max_error): then what it measures *)
(*                may be off by up to slack                                *)
(*   max_brute_force_index_size, use_brute_force                           *)
(*   max_results, max_distance, max_error, interiors, region (the leaf     *)
(*                cells results must meet; all of them for no region)      *)
(***************************************************************************)
EXTENDS S2CellVector

CONSTANT Infinity     \* Distance::Infinity(), more than any distance

VARIABLES q,              \* the query, kept until its results are returned
          limit,          \* distance_limit_
          results,        \* the results so far: [distance, item]
          tested,         \* tested_edges_, tested_cells_
          conservative,   \* use_conservative_cell_distance_
          avoid,          \* avoid_duplicates_
          queue,          \* queue_: [distance, id, indexed]
          phase           \* "idle", "init", "search" or "done"

search == <<q, limit, results, tested, conservative, avoid, queue, phase>>

\* Subtraction of chord angles stops at zero.
Minus(d, e) == IF d = Infinity THEN d ELSE IF d > e THEN d - e ELSE 0

DistanceTo(leaves) == Min({ Distance(a, b) : a \in q.target, b \in leaves } \cup {Infinity})

\* UpdateMinDistance: a distance below the limit that is at most slack too
\* large, or the limit where there is none.
UpdateMinDistance(leaves, bound) ==
  LET d == DistanceTo(leaves)
  IN  IF d >= bound THEN bound ELSE Min({d + q.slack, bound - 1})

Before(r, s) == r.distance < s.distance \/ (r.distance = s.distance /\ r.item < s.item)
Furthest(rs) == CHOOSE r \in rs : \A s \in rs : ~Before(r, s)

\* AddResult, on s = [limit, results, tested, queue].  The single result of
\* max_results = 1 is replaced; the vector of an unlimited query, from which
\* duplicates are removed at the end, is a set like the others.
AddResult(s, r) ==
  LET all == IF q.max_results = 1 THEN {r} ELSE s.results \cup {r}
      kept == IF Cardinality(all) > q.max_results THEN all \ {Furthest(all)} ELSE all
  IN  [s EXCEPT !.results = kept,
                !.limit = IF Cardinality(kept) = q.max_results
                          THEN Minus(Furthest(kept).distance, q.max_error) ELSE @]

\* MaybeAddResult, for an item that lies in leaves.
MaybeAddResult(s, item, leaves) ==
  LET d == UpdateMinDistance(leaves, s.limit)
      t == IF avoid THEN [s EXCEPT !.tested = @ \cup {item}] ELSE s
  IN  IF avoid /\ item \in s.tested THEN s
      ELSE IF d < s.limit /\ leaves \cap q.region # {}
      THEN AddResult(t, [distance |-> d, item |-> item])
      ELSE t

\* The end of ProcessOrEnqueue: a cell that is closer than the limit waits.
Enqueue(s, id, indexed) ==
  LET d == UpdateMinDistance(Leaves(id), s.limit)
  IN  IF d >= s.limit \/ Leaves(id) \cap q.region = {} THEN s
      ELSE [s EXCEPT !.queue = @ \cup
              {[distance |-> IF conservative THEN Minus(d, q.max_error) ELSE d,
                id |-> id, indexed |-> indexed]}]

Found == [limit |-> limit, results |-> results, tested |-> tested, queue |-> queue]
Keep(s) == limit' = s.limit /\ results' = s.results /\ tested' = s.tested /\ queue' = s.queue

\* The coverings GetFastCovering may give for what is at most bound away from
\* the target.
SearchCoverings(bound) ==
  { FastCovering([max_cells |-> 4, max_level |-> MaxLevel], b) :
      b \in CellUnionBounds(Buffered(q.target, bound)) }

NoQuery == [target |-> {}, uses_error |-> FALSE, slack |-> 0, max_brute_force_index_size |-> 0,
            use_brute_force |-> FALSE, max_results |-> 1, max_distance |-> 0,
            max_error |-> 0, interiors |-> FALSE, region |-> LeafIds]

SearchInit ==
  /\ q = NoQuery /\ limit = 0 /\ results = {} /\ tested = {} /\ queue = {}
  /\ conservative = FALSE /\ avoid = FALSE /\ phase = "idle"

\* The start of Find...Internal, which leaves the limit at bound after first
\* results; brute tells whether the index is small.
Begin(query, first, bound, brute) ==
  LET uses == query.max_error # 0 /\ query.uses_error
  IN  /\ phase = "idle"
      /\ q' = query
      /\ limit' = bound
      /\ results' = first
      /\ tested' = {}
      /\ queue' = {}
      /\ conservative' = (uses /\ (bound = Infinity \/ Minus(bound, query.max_error) > 0))
      /\ avoid' = (~brute /\ uses /\ query.max_results > 1)
      /\ phase' = IF bound = 0 THEN "done" ELSE IF brute THEN "brute" ELSE "init"

\* The loop of Find...Optimized ends at the first cell that is not below the
\* limit.
EndSearch ==
  /\ phase = "search" /\ \A e \in queue : e.distance >= limit
  /\ queue' = {}
  /\ phase' = "done"
  /\ UNCHANGED <<q, limit, results, tested, conservative, avoid>>

\* A cell that the queue may give next.
IsTop(e) == e \in queue /\ e.distance < limit /\ \A f \in queue : e.distance <= f.distance

\* The results are handed out and the containers cleared.
Return ==
  /\ phase = "done"
  /\ phase' = "idle" /\ results' = {} /\ q' = NoQuery /\ limit' = 0 /\ tested' = {}
  /\ UNCHANGED <<queue, conservative, avoid>>

-----------------------------------------------------------------------------
(* Properties.                                                             *)

\* The results of a search among things [item |-> leaves]: each at a distance
\* it has up to the error the target may make, none twice; everything below the
\* distance limit if there is room, and otherwise nothing left out that is
\* closer by more than max_error than what was taken.
ClosestAmong(things) ==
  phase = "done" =>
    LET Taken == { r.item : r \in results }
        Missed == { i \in DOMAIN things : i \notin Taken /\ things[i] \cap q.region # {} }
    IN  /\ Cardinality(Taken) = Cardinality(results)
        /\ Cardinality(results) <= q.max_results
        /\ \A r \in results : LET d == DistanceTo(things[r.item])
                              IN  d <= r.distance /\ r.distance <= d + q.slack
                                  /\ r.distance < q.max_distance
        /\ IF Cardinality(results) < q.max_results
           THEN \A i \in Missed : DistanceTo(things[i]) >= q.max_distance
           ELSE \A i \in Missed : \/ DistanceTo(things[i]) >= q.max_distance
                                  \/ \A r \in results : DistanceTo(things[i])
                                       >= r.distance - q.max_error
=============================================================================
