------------------------ MODULE MutableS2ShapeIndex ------------------------
(***************************************************************************)
(* The lazily updated shape index behind every RGeography, GeographyIndex  *)
(* and S2Polygon (src/src/s2/mutable_s2shape_index.{h,cc}).                *)
(*                                                                         *)
(* Non-const methods (Add, Release, Minimize, ReleaseAll) only queue work  *)
(* and mark the index stale.  The first const method that needs the cells  *)
(* builds them; any number of threads may call const methods at once, so   *)
(* the build is guarded by a spinlock, an atomic status and a temporary    *)
(* UpdateState that carries a mutex to wait on and a count of waiters.     *)
(*                                                                         *)
(* A shape is abstracted to its id and a cell map to the set of ids whose  *)
(* edges it holds.  MemoryLimited says whether an S2MemoryTracker may      *)
(* refuse memory; the R package never installs one.                        *)
(***************************************************************************)
EXTENDS Integers, FiniteSets

CONSTANTS Threads,        \* the threads that call const methods
          NoThread,       \* "nobody", for the owner of a lock
          MaxShapes,      \* bound on the shape ids ever live at once
          MemoryLimited   \* may an S2MemoryTracker report an error?

ASSUME ThreadsAssumption == IsFiniteSet(Threads) /\ NoThread \notin Threads
ASSUME MaxShapesAssumption == MaxShapes \in Nat
ASSUME MemoryLimitedAssumption == MemoryLimited \in BOOLEAN

VARIABLES
  num_shape_ids,            \* shapes_.size()
  live,                     \* the ids whose entry of shapes_ is not null
  cell_map_,                \* the ids whose edges are in the cells
  pending_additions_begin_,
  pending_removals_,        \* ids queued for removal ({}: the null pointer)
  mem_ok,                   \* mem_tracker_.ok()
  index_status_,
  lock_,                    \* owner of the spinlock
  update_state_,            \* is the UpdateState allocated?
  wait_mutex,               \* update_state_->wait_mutex, its owner
  num_waiting,              \* update_state_->num_waiting
  pc,                       \* where each thread is in its const method
  seen_waiting              \* UnlockAndSignal's local num_waiting

contents == <<num_shape_ids, live, cell_map_, pending_additions_begin_,
              pending_removals_, mem_ok>>
sync == <<lock_, update_state_, wait_mutex, num_waiting, pc, seen_waiting>>
vars == <<contents, index_status_, sync>>

Ids == 0 .. MaxShapes - 1

PC == {"idle",      \* outside the const methods
       "lock",      \* ApplyUpdatesThreadSafe: spinning on lock_
       "locked",    \* holds lock_, has not looked at the status yet
       "wait",      \* counted in num_waiting, blocked on wait_mutex
       "relock",    \* owns wait_mutex after waiting, spinning on lock_
       "apply",     \* ApplyUpdatesInternal, owns wait_mutex
       "finish",    \* all batches applied, spinning on lock_
       "signal",    \* UnlockAndSignal: owns lock_ and wait_mutex
       "unlock",    \* UnlockAndSignal: lock_ released, owns wait_mutex
       "free",      \* UnlockAndSignal: both released, may delete the state
       "reading"}   \* uses cell_map_ through an Iterator

TypeOK ==
  /\ num_shape_ids \in 0 .. MaxShapes
  /\ live \subseteq Ids
  /\ cell_map_ \subseteq Ids
  /\ pending_additions_begin_ \in 0 .. MaxShapes
  /\ pending_removals_ \subseteq Ids
  /\ mem_ok \in BOOLEAN
  /\ index_status_ \in {"STALE", "UPDATING", "FRESH"}
  /\ lock_ \in Threads \cup {NoThread}
  /\ update_state_ \in BOOLEAN
  /\ wait_mutex \in Threads \cup {NoThread}
  /\ num_waiting \in Nat
  /\ pc \in [Threads -> PC]
  /\ seen_waiting \in [Threads -> Nat]

Init ==
  /\ num_shape_ids = 0
  /\ live = {}
  /\ cell_map_ = {}
  /\ pending_additions_begin_ = 0
  /\ pending_removals_ = {}
  /\ mem_ok = TRUE
  /\ index_status_ = "FRESH"
  /\ lock_ = NoThread
  /\ update_state_ = FALSE
  /\ wait_mutex = NoThread
  /\ num_waiting = 0
  /\ pc = [t \in Threads |-> "idle"]
  /\ seen_waiting = [t \in Threads |-> 0]

-----------------------------------------------------------------------------
(* Non-const methods.  The caller must not run them while a const method   *)
(* runs ("the caller is required to prevent any new mutations from         *)
(* occurring while these const methods are running", UnlockAndSignal).     *)

Quiescent == \A t \in Threads : pc[t] = "idle"

\* The results a Tally of the memory tracker may leave behind.
TallyOutcomes == IF MemoryLimited THEN {mem_ok, FALSE} ELSE {mem_ok}

\* MarkIndexStale(), for a caller that leaves n entries in shapes_ and the
\* tracker in state ok.
MarkIndexStale(n, ok) ==
  index_status_' = IF index_status_ = "UPDATING" THEN index_status_
                   ELSE IF n = 0 \/ ~ok THEN "FRESH" ELSE "STALE"

\* Minimize(), without the call of MarkIndexStale it ends with.
DiscardIndex ==
  /\ cell_map_' = {}
  /\ pending_removals_' = {}
  /\ pending_additions_begin_' = 0

Add ==
  /\ Quiescent
  /\ num_shape_ids < MaxShapes
  /\ num_shape_ids' = num_shape_ids + 1
  /\ live' = live \cup {num_shape_ids}
  /\ mem_ok' \in TallyOutcomes
  /\ MarkIndexStale(num_shape_ids + 1, mem_ok')
  /\ UNCHANGED <<cell_map_, pending_additions_begin_, pending_removals_, sync>>

\* Release of a shape the index has not processed yet: nothing to undo.
ReleaseUnindexed(id) ==
  /\ Quiescent
  /\ id \in live
  /\ id >= pending_additions_begin_
  /\ live' = live \ {id}
  /\ MarkIndexStale(num_shape_ids, mem_ok)
  /\ UNCHANGED <<num_shape_ids, cell_map_, pending_additions_begin_,
                 pending_removals_, mem_ok, sync>>

\* Mutant of ReleaseIndexed: forgets that the shape may not be indexed yet.
ReleaseIndexedAlways(id) ==
  /\ Quiescent
  /\ id \in live
  /\ mem_ok \/ pending_removals_ # {}
  /\ live' = live \ {id}
  /\ pending_removals_' = pending_removals_ \cup {id}
  /\ MarkIndexStale(num_shape_ids, mem_ok)
  /\ UNCHANGED <<num_shape_ids, cell_map_, pending_additions_begin_, mem_ok,
                 sync>>

\* Mutant of ReleaseIndexed: does not mark the index stale.
ReleaseIndexedUnmarked(id) ==
  /\ Quiescent
  /\ id \in live
  /\ id < pending_additions_begin_
  /\ live' = live \ {id}
  /\ pending_removals_' = pending_removals_ \cup {id}
  /\ UNCHANGED <<num_shape_ids, cell_map_, pending_additions_begin_, mem_ok,
                 index_status_, sync>>

\* Release of an indexed shape whose edges are queued for removal.  Memory
\* already refused can still be "granted" here when no Tally is needed: the
\* queue exists, has spare capacity, and the shape has no edges.
ReleaseIndexed(id) ==
  /\ Quiescent
  /\ id \in live
  /\ id < pending_additions_begin_
  /\ mem_ok \/ pending_removals_ # {}
  /\ live' = live \ {id}
  /\ pending_removals_' = pending_removals_ \cup {id}
  /\ MarkIndexStale(num_shape_ids, mem_ok)
  /\ UNCHANGED <<num_shape_ids, cell_map_, pending_additions_begin_, mem_ok,
                 sync>>

\* Release of an indexed shape when the memory tracker refuses the queue.
ReleaseRefused(id) ==
  /\ Quiescent
  /\ id \in live
  /\ id < pending_additions_begin_
  /\ mem_ok' = FALSE
  /\ mem_ok' \in TallyOutcomes
  /\ live' = live \ {id}
  /\ DiscardIndex
  /\ MarkIndexStale(num_shape_ids, FALSE)
  /\ UNCHANGED <<num_shape_ids, sync>>

Minimize ==
  /\ Quiescent
  /\ DiscardIndex
  /\ mem_ok' \in TallyOutcomes
  /\ MarkIndexStale(num_shape_ids, mem_ok)
  /\ UNCHANGED <<num_shape_ids, live, sync>>

\* ReleaseAll(), also Clear() and the destructor.
ReleaseAll ==
  /\ Quiescent
  /\ num_shape_ids' = 0
  /\ live' = {}
  /\ DiscardIndex
  /\ mem_ok' \in TallyOutcomes
  /\ MarkIndexStale(0, mem_ok)
  /\ UNCHANGED sync

\* set_memory_tracker(): the error state is that of the new tracker; the
\* index status is not touched.
set_memory_tracker ==
  /\ Quiescent
  /\ MemoryLimited
  /\ mem_ok' \in BOOLEAN
  /\ UNCHANGED <<num_shape_ids, live, cell_map_, pending_additions_begin_,
                 pending_removals_, index_status_, sync>>

-----------------------------------------------------------------------------
(* Const methods: Iterator::Init calls MaybeApplyUpdates, which takes the  *)
(* fast path on FRESH and else runs ApplyUpdatesThreadSafe.                *)

Goto(t, label) == pc' = [pc EXCEPT ![t] = label]

\* Mutant of MaybeApplyUpdates: takes "not STALE" for FRESH.
MaybeApplyUpdatesIfStale(t) ==
  /\ pc[t] = "idle"
  /\ Goto(t, IF index_status_ # "STALE" THEN "reading" ELSE "lock")
  /\ UNCHANGED <<contents, index_status_, lock_, update_state_, wait_mutex,
                 num_waiting, seen_waiting>>

MaybeApplyUpdates(t) ==
  /\ pc[t] = "idle"
  /\ Goto(t, IF index_status_ = "FRESH" THEN "reading" ELSE "lock")
  /\ UNCHANGED <<contents, index_status_, lock_, update_state_, wait_mutex,
                 num_waiting, seen_waiting>>

Lock(t) ==
  /\ pc[t] = "lock"
  /\ lock_ = NoThread
  /\ lock_' = t
  /\ Goto(t, "locked")
  /\ UNCHANGED <<contents, index_status_, update_state_, wait_mutex,
                 num_waiting, seen_waiting>>

\* Somebody finished the update between the fast path and the spinlock.
FoundFresh(t) ==
  /\ pc[t] = "locked"
  /\ index_status_ = "FRESH"
  /\ lock_' = NoThread
  /\ Goto(t, "reading")
  /\ UNCHANGED <<contents, index_status_, update_state_, wait_mutex,
                 num_waiting, seen_waiting>>

\* Mutant of StartWaiting: the waiter is not counted.
StartWaitingUncounted(t) ==
  /\ pc[t] = "locked"
  /\ index_status_ = "UPDATING"
  /\ lock_' = NoThread
  /\ Goto(t, "wait")
  /\ UNCHANGED <<contents, index_status_, update_state_, wait_mutex,
                 num_waiting, seen_waiting>>

StartWaiting(t) ==
  /\ pc[t] = "locked"
  /\ index_status_ = "UPDATING"
  /\ num_waiting' = num_waiting + 1
  /\ lock_' = NoThread
  /\ Goto(t, "wait")
  /\ UNCHANGED <<contents, index_status_, update_state_, wait_mutex,
                 seen_waiting>>

\* Mutant of StartUpdate: lock_ is released before wait_mutex is locked.
StartUpdateUnlocked(t) ==
  /\ pc[t] = "locked"
  /\ index_status_ = "STALE"
  /\ index_status_' = "UPDATING"
  /\ update_state_' = TRUE
  /\ num_waiting' = 0
  /\ wait_mutex' = NoThread
  /\ lock_' = NoThread
  /\ Goto(t, "apply")
  /\ UNCHANGED <<contents, seen_waiting>>

\* Allocates the UpdateState and locks its mutex before lock_ is released.
StartUpdate(t) ==
  /\ pc[t] = "locked"
  /\ index_status_ = "STALE"
  /\ index_status_' = "UPDATING"
  /\ update_state_' = TRUE
  /\ num_waiting' = 0
  /\ wait_mutex' = t
  /\ lock_' = NoThread
  /\ Goto(t, "apply")
  /\ UNCHANGED <<contents, seen_waiting>>

Queued == {id \in live : id >= pending_additions_begin_}

\* shape_id_end_ of the BatchGenerator: one past the last live shape queued
\* for addition, or where the queue starts when there is none.
IsShapeIdEnd(end) ==
  IF Queued = {} THEN end = pending_additions_begin_
  ELSE end - 1 \in Queued /\ \A id \in Queued : id < end

\* Mutant of ApplyBatch: the removals stay in the cells.
ApplyBatchKeepsRemoved(t, end) ==
  /\ pc[t] = "apply"
  /\ mem_ok
  /\ IsShapeIdEnd(end) \/ \E id \in Queued : end <= id
  /\ cell_map_' = cell_map_ \cup {id \in Queued : id < end}
  /\ pending_removals_' = {}
  /\ pending_additions_begin_' = end
  /\ Goto(t, IF IsShapeIdEnd(end) THEN "finish" ELSE "apply")
  /\ UNCHANGED <<num_shape_ids, live, mem_ok, index_status_, lock_,
                 update_state_, wait_mutex, num_waiting, seen_waiting>>

\* One batch of ApplyUpdatesInternal: the removals, all of them in the first
\* batch, then the queued shapes before the shape the batch ends at (a shape
\* cut by the end of a batch counts as indexed once its last edge is).
ApplyBatch(t, end) ==
  /\ pc[t] = "apply"
  /\ mem_ok
  /\ IsShapeIdEnd(end) \/ \E id \in Queued : end <= id
  /\ cell_map_' = (cell_map_ \ pending_removals_)
                    \cup {id \in Queued : id < end}
  /\ pending_removals_' = {}
  /\ pending_additions_begin_' = end
  /\ Goto(t, IF IsShapeIdEnd(end) THEN "finish" ELSE "apply")
  /\ UNCHANGED <<num_shape_ids, live, mem_ok, index_status_, lock_,
                 update_state_, wait_mutex, num_waiting, seen_waiting>>

\* Memory is refused before or after a batch: Minimize(), whose call of
\* MarkIndexStale does nothing because the status is UPDATING.
ApplyRefused(t) ==
  /\ pc[t] = "apply"
  /\ mem_ok' = FALSE
  /\ MemoryLimited
  /\ DiscardIndex
  /\ Goto(t, "finish")
  /\ UNCHANGED <<num_shape_ids, live, index_status_, lock_, update_state_,
                 wait_mutex, num_waiting, seen_waiting>>

ApplyUpdatesInternal(t) ==
  \/ \E end \in pending_additions_begin_ .. MaxShapes : ApplyBatch(t, end)
  \/ ApplyRefused(t)

FinishUpdate(t) ==
  /\ pc[t] = "finish"
  /\ lock_ = NoThread
  /\ lock_' = t
  /\ index_status_' = "FRESH"
  /\ Goto(t, "signal")
  /\ UNCHANGED <<contents, update_state_, wait_mutex, num_waiting,
                 seen_waiting>>

WaitForMutex(t) ==
  /\ pc[t] = "wait"
  /\ wait_mutex = NoThread
  /\ wait_mutex' = t
  /\ Goto(t, "relock")
  /\ UNCHANGED <<contents, index_status_, lock_, update_state_, num_waiting,
                 seen_waiting>>

StopWaiting(t) ==
  /\ pc[t] = "relock"
  /\ lock_ = NoThread
  /\ lock_' = t
  /\ num_waiting' = num_waiting - 1
  /\ Goto(t, "signal")
  /\ UNCHANGED <<contents, index_status_, update_state_, wait_mutex,
                 seen_waiting>>

\* UnlockAndSignal(), its three separately visible effects: lock_ is released,
\* wait_mutex is released, and the last thread frees the UpdateState.
UnlockSpinlock(t) ==
  /\ pc[t] = "signal"
  /\ seen_waiting' = [seen_waiting EXCEPT ![t] = num_waiting]
  /\ lock_' = NoThread
  /\ Goto(t, "unlock")
  /\ UNCHANGED <<contents, index_status_, update_state_, wait_mutex,
                 num_waiting>>

\* Mutant of UnlockMutex: the mutex is released only by the last waiter.
UnlockMutexLast(t) ==
  /\ pc[t] = "unlock"
  /\ wait_mutex' = IF seen_waiting[t] = 0 THEN NoThread ELSE wait_mutex
  /\ Goto(t, "free")
  /\ UNCHANGED <<contents, index_status_, lock_, update_state_, num_waiting,
                 seen_waiting>>

UnlockMutex(t) ==
  /\ pc[t] = "unlock"
  /\ wait_mutex' = NoThread
  /\ Goto(t, "free")
  /\ UNCHANGED <<contents, index_status_, lock_, update_state_, num_waiting,
                 seen_waiting>>

\* Mutant of FreeUpdateState: whoever updated frees the state.
FreeUpdateStateAlways(t) ==
  /\ pc[t] = "free"
  /\ update_state_' = FALSE
  /\ Goto(t, "reading")
  /\ UNCHANGED <<contents, index_status_, lock_, wait_mutex, num_waiting,
                 seen_waiting>>

FreeUpdateState(t) ==
  /\ pc[t] = "free"
  /\ update_state_' = IF seen_waiting[t] = 0 THEN FALSE ELSE update_state_
  /\ Goto(t, "reading")
  /\ UNCHANGED <<contents, index_status_, lock_, wait_mutex, num_waiting,
                 seen_waiting>>

\* The iterator goes out of scope.
EndRead(t) ==
  /\ pc[t] = "reading"
  /\ Goto(t, "idle")
  /\ UNCHANGED <<contents, index_status_, lock_, update_state_, wait_mutex,
                 num_waiting, seen_waiting>>

-----------------------------------------------------------------------------
Mutate ==
  \/ Add
  \/ \E id \in Ids : ReleaseUnindexed(id)
  \/ \E id \in Ids : ReleaseIndexed(id)
  \/ \E id \in Ids : ReleaseRefused(id)
  \/ Minimize
  \/ ReleaseAll
  \/ set_memory_tracker

\* What a thread inside a const method does next.
Continue(t) ==
  \/ Lock(t)
  \/ FoundFresh(t)
  \/ StartWaiting(t)
  \/ StartUpdate(t)
  \/ ApplyUpdatesInternal(t)
  \/ FinishUpdate(t)
  \/ WaitForMutex(t)
  \/ StopWaiting(t)
  \/ UnlockSpinlock(t)
  \/ UnlockMutex(t)
  \/ FreeUpdateState(t)
  \/ EndRead(t)

Next == Mutate \/ \E t \in Threads : MaybeApplyUpdates(t) \/ Continue(t)

Spec == Init /\ [][Next]_vars

\* A thread inside a const method keeps being scheduled; nobody is obliged
\* to start a query or to mutate the index.
FairSpec == Spec /\ \A t \in Threads : WF_vars(Continue(t))
-----------------------------------------------------------------------------
(* Properties.                                                             *)

\* Threads inside the slow path that will still dereference update_state_.
UsesUpdateState(t) ==
  \/ pc[t] \in {"wait", "relock", "apply", "finish", "signal", "unlock"}
  \/ pc[t] = "free" /\ seen_waiting[t] = 0

\* The temporary UpdateState exists exactly as long as some thread will still
\* touch it: the unguarded reads of update_state_ in ApplyUpdatesThreadSafe
\* and UnlockAndSignal never meet a freed object, it is freed once, and it is
\* not leaked (ReleaseAll asserts update_state_ == nullptr).
UpdateStateLifetime == update_state_ <=> \E t \in Threads : UsesUpdateState(t)

\* Only one thread frees the UpdateState, and nobody else needs it by then:
\* its destructor asserts num_waiting == 0.
FreedByLast ==
  \A t \in Threads :
    (pc[t] = "free" /\ seen_waiting[t] = 0) =>
      /\ num_waiting = 0
      /\ \A u \in Threads \ {t} : ~UsesUpdateState(u)

\* A thread that gets past wait_mutex finds the index FRESH (the comment in
\* ApplyUpdatesThreadSafe guarantees it, UnlockAndSignal asserts it), and
\* the index stays FRESH until that thread has left the const method.
WokenFindsFresh ==
  \A t \in Threads :
    pc[t] \in {"relock", "signal", "unlock", "free", "reading"} =>
      index_status_ = "FRESH"

\* A reader sees every live shape and nothing else, whatever interleaving of
\* queries built the index: MaybeApplyUpdates hides the deferred work.
ReadersSeeLiveShapes ==
  ~MemoryLimited =>
    \A t \in Threads : pc[t] = "reading" => cell_map_ = live

\* "All shape ids being removed are less than all shape ids being added"
\* (is_shape_being_removed relies on it during an update); what is queued for
\* removal is still in the cells and no longer in shapes_.
RemovalsPrecedeAdditions ==
  \A id \in pending_removals_ :
    id < pending_additions_begin_ /\ id \in cell_map_ \ live

\* "If the memory limit is exceeded, ... any partially built index is
\* discarded" (set_memory_tracker): the cells that a query reads hold no shape
\* that has been released, whenever memory was refused.  MarkIndexStale calls
\* the index FRESH after a refusal, also with removals queued that nobody will
\* apply.
RefusedIndexDiscarded ==
  \A t \in Threads : pc[t] = "reading" => cell_map_ \subseteq live

\* No step changes the cells or the shapes under a thread that keeps reading
\* them through its iterator.
ReadersUndisturbed ==
  [][\A t \in Threads :
       pc[t] = "reading" /\ pc'[t] = "reading" =>
         UNCHANGED <<cell_map_, live, num_shape_ids>>]_vars

\* A const method always returns: no deadlock between lock_ and wait_mutex, no
\* lost wake-up, and no starvation on the spinlock, because once FRESH the
\* other threads no longer take it.
QueryReturns == \A t \in Threads : pc[t] # "idle" ~> pc[t] = "idle"

-----------------------------------------------------------------------------
(* The promise: const methods behave as if the index were always built.    *)

Contract == INSTANCE ShapeIndexContract
              WITH shapes <- live,
                   answer <- [t \in Threads |->
                                IF pc[t] = "reading" THEN {cell_map_} ELSE {}]

\* Without a memory limit the lazy, concurrently built index implements an
\* index that answers every query from its current shapes in one step.
ImplementsContract == Contract!Spec

-----------------------------------------------------------------------------
(* The inductive invariant, see MutableS2ShapeIndexProofs.                 *)

Updating(t) == pc[t] \in {"apply", "finish"}

Waiters == {t \in Threads : pc[t] \in {"wait", "relock"}}

LockOwner == \A t \in Threads : lock_ = t <=> pc[t] \in {"locked", "signal"}

MutexOwner ==
  \A t \in Threads :
    wait_mutex = t <=> pc[t] \in {"relock", "apply", "finish", "signal", "unlock"}

StatusOfUpdate == index_status_ = "UPDATING" <=> \E t \in Threads : Updating(t)

StaleIsUntouched ==
  index_status_ = "STALE" =>
    \A t \in Threads : pc[t] \in {"idle", "lock", "locked"}

WaitersCounted == update_state_ => num_waiting = Cardinality(Waiters)

UnlockCountExact ==
  \A t \in Threads : pc[t] = "unlock" => seen_waiting[t] = num_waiting

SyncInv ==
  /\ LockOwner
  /\ MutexOwner
  /\ StatusOfUpdate
  /\ StaleIsUntouched
  /\ WokenFindsFresh
  /\ WaitersCounted
  /\ UnlockCountExact
  /\ UpdateStateLifetime
  /\ FreedByLast

\* The cells hold every processed live shape and what is queued for removal.
CellsInv ==
  /\ live \subseteq 0 .. num_shape_ids - 1
  /\ pending_additions_begin_ <= num_shape_ids
  /\ \A id \in pending_removals_ : id < pending_additions_begin_ /\ id \notin live
  /\ cell_map_ = {id \in live : id < pending_additions_begin_}
                   \cup pending_removals_

\* Without a memory limit a FRESH index has nothing left to process; with one
\* it may (RefusedIndexDiscarded).
FreshInv ==
  ~MemoryLimited =>
    /\ mem_ok
    /\ (index_status_ = "FRESH" \/ \E t \in Threads : pc[t] = "finish") =>
          /\ pending_removals_ = {}
          /\ \A id \in live : id < pending_additions_begin_

ContentsInv == CellsInv /\ FreshInv

\* Threads that wait for an update of the index are let go one by one, find
\* the index FRESH, and the last of them frees the UpdateState
\* (UnlockAndSignal).
WaitersServed ==
  /\ FreedByLast
  /\ WokenFindsFresh
=============================================================================
