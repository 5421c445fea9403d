--------------------- MODULE MutableS2ShapeIndexProofs ---------------------
(***************************************************************************)
(* Proofs about the lazily updated shape index, for any number of threads  *)
(* and shapes.                                                             *)
(***************************************************************************)
EXTENDS MutableS2ShapeIndex, FiniteSetTheorems, TLAPS

\* The synchronisation part of the invariant together with the types.
IInv == TypeOK /\ SyncInv

\* The waiting threads are finitely many, and the count is zero exactly when
\* nobody waits.
LEMMA WaitersFinite ==
  ASSUME pc \in [Threads -> PC]
  PROVE  /\ IsFiniteSet(Waiters)
         /\ Cardinality(Waiters) \in Nat
         /\ Cardinality(Waiters) = 0 <=> Waiters = {}
  <1>1. Waiters \subseteq Threads
    BY DEF Waiters
  <1>2. IsFiniteSet(Waiters)
    BY <1>1, ThreadsAssumption, FS_Subset
  <1> QED
    BY <1>2, FS_CardinalityType, FS_EmptySet

\* An update in progress excludes every thread that is past the wait, and
\* the other way round.
LEMMA MutexExcludes ==
  ASSUME TypeOK, MutexOwner,
         NEW t \in Threads, NEW u \in Threads,
         pc[t] \in {"relock", "apply", "finish", "signal", "unlock"},
         pc[u] \in {"relock", "apply", "finish", "signal", "unlock"}
  PROVE  t = u
  BY DEF MutexOwner

\* The initial state satisfies the invariant.
LEMMA InitIInv == Init => IInv
  <1> SUFFICES ASSUME Init PROVE IInv
    OBVIOUS
  <1>1. TypeOK
    <2>1. mem_ok \in BOOLEAN /\ update_state_ \in BOOLEAN
      BY Zenon DEF Init
    <2>2. pc \in [Threads -> PC] /\ seen_waiting \in [Threads -> Nat]
      BY DEF Init, PC
    <2> QED
      BY <2>1, <2>2, MaxShapesAssumption DEF Init, TypeOK, Ids
  <1>2. \A t \in Threads : pc[t] = "idle"
    BY DEF Init
  <1>3. SyncInv
    BY <1>2, ThreadsAssumption
       DEF Init, SyncInv, LockOwner, MutexOwner, StatusOfUpdate, Updating,
           StaleIsUntouched, WokenFindsFresh, WaitersCounted,
           UnlockCountExact, UpdateStateLifetime, UsesUpdateState, FreedByLast
  <1> QED
    BY <1>1, <1>3 DEF IInv

\* A non-const method runs while every thread is idle and leaves the
\* synchronisation state alone.
LEMMA MutateIInv == IInv /\ Mutate => IInv'
  <1> SUFFICES ASSUME IInv, Mutate PROVE IInv'
    OBVIOUS
  <1> USE DEF IInv
  <1>1. Quiescent /\ UNCHANGED sync
    BY DEF Mutate, Add, ReleaseUnindexed, ReleaseIndexed, ReleaseRefused,
           Minimize, ReleaseAll, set_memory_tracker
  <1>2. index_status_ # "UPDATING"
    BY <1>1 DEF SyncInv, StatusOfUpdate, Updating, Quiescent
  <1>3. index_status_' \in {"STALE", "FRESH"}
    BY <1>2 DEF Mutate, Add, ReleaseUnindexed, ReleaseIndexed, ReleaseRefused,
                Minimize, ReleaseAll, set_memory_tracker, MarkIndexStale, TypeOK
  <1>4. TypeOK'
    <2>1. /\ num_shape_ids' \in 0 .. MaxShapes
          /\ live' \subseteq Ids
          /\ cell_map_' \subseteq Ids
          /\ pending_additions_begin_' \in 0 .. MaxShapes
          /\ pending_removals_' \subseteq Ids
      <3>1. CASE Add
        BY <3>1, MaxShapesAssumption DEF Add, TypeOK, Ids
      <3>2. CASE \E id \in Ids : ReleaseUnindexed(id)
        BY <3>2 DEF ReleaseUnindexed, TypeOK
      <3>3. CASE \E id \in Ids : ReleaseIndexed(id)
        BY <3>3 DEF ReleaseIndexed, TypeOK
      <3>4. CASE \E id \in Ids : ReleaseRefused(id)
        BY <3>4, MaxShapesAssumption DEF ReleaseRefused, DiscardIndex, TypeOK
      <3>5. CASE Minimize
        BY <3>5, MaxShapesAssumption DEF Minimize, DiscardIndex, TypeOK
      <3>6. CASE ReleaseAll
        BY <3>6, MaxShapesAssumption DEF ReleaseAll, DiscardIndex, TypeOK
      <3>7. CASE set_memory_tracker
        BY <3>7 DEF set_memory_tracker, TypeOK
      <3> QED
        BY <3>1, <3>2, <3>3, <3>4, <3>5, <3>6, <3>7 DEF Mutate
    <2>2. mem_ok' \in BOOLEAN
      <3>1. TallyOutcomes \subseteq BOOLEAN
        BY Zenon DEF TallyOutcomes, TypeOK
      <3> QED
        BY <3>1, Zenon
           DEF Mutate, Add, ReleaseUnindexed, ReleaseIndexed, ReleaseRefused,
               Minimize, ReleaseAll, set_memory_tracker, TypeOK
    <2> QED
      BY <1>1, <1>3, <2>1, <2>2 DEF TypeOK, sync
  <1>5. SyncInv'
    BY <1>1, <1>3
       DEF sync, Quiescent, SyncInv, LockOwner, MutexOwner, StatusOfUpdate,
           Updating, StaleIsUntouched, WokenFindsFresh, WaitersCounted,
           Waiters, UnlockCountExact, UpdateStateLifetime, UsesUpdateState,
           FreedByLast
  <1> QED
    BY <1>4, <1>5
\* MaybeApplyUpdates preserves the invariant.
LEMMA MaybeApplyUpdatesIInv ==
  ASSUME IInv, NEW t \in Threads, MaybeApplyUpdates(t)
  PROVE  IInv'
  <1> USE DEF IInv, MaybeApplyUpdates, Goto
  <1>1. TypeOK'
    BY MaxShapesAssumption DEF TypeOK, PC, contents, Ids
  <1>2. Waiters' = Waiters
    BY DEF Waiters, TypeOK
  <1>3. WaitersCounted'
    BY <1>2 DEF SyncInv, WaitersCounted
  <1>4. SyncInv'
    BY <1>3, ThreadsAssumption
       DEF TypeOK, PC, SyncInv, LockOwner, MutexOwner, StatusOfUpdate, Updating,
           StaleIsUntouched, WokenFindsFresh, UnlockCountExact,
           UpdateStateLifetime, UsesUpdateState, FreedByLast
  <1> QED
    BY <1>1, <1>4

\* Lock preserves the invariant.
LEMMA LockIInv ==
  ASSUME IInv, NEW t \in Threads, Lock(t)
  PROVE  IInv'
  <1> USE DEF IInv, Lock, Goto
  <1>1. TypeOK'
    BY MaxShapesAssumption DEF TypeOK, PC, contents, Ids
  <1>2. Waiters' = Waiters
    BY DEF Waiters, TypeOK
  <1>3. WaitersCounted'
    BY <1>2 DEF SyncInv, WaitersCounted
  <1>4. SyncInv'
    BY <1>3, ThreadsAssumption
       DEF TypeOK, PC, SyncInv, LockOwner, MutexOwner, StatusOfUpdate, Updating,
           StaleIsUntouched, WokenFindsFresh, UnlockCountExact,
           UpdateStateLifetime, UsesUpdateState, FreedByLast
  <1> QED
    BY <1>1, <1>4

\* FoundFresh preserves the invariant.
LEMMA FoundFreshIInv ==
  ASSUME IInv, NEW t \in Threads, FoundFresh(t)
  PROVE  IInv'
  <1> USE DEF IInv, FoundFresh, Goto
  <1>1. TypeOK'
    BY MaxShapesAssumption DEF TypeOK, PC, contents, Ids
  <1>2. Waiters' = Waiters
    BY DEF Waiters, TypeOK
  <1>3. WaitersCounted'
    BY <1>2 DEF SyncInv, WaitersCounted
  <1>4. SyncInv'
    BY <1>3, ThreadsAssumption
       DEF TypeOK, PC, SyncInv, LockOwner, MutexOwner, StatusOfUpdate, Updating,
           StaleIsUntouched, WokenFindsFresh, UnlockCountExact,
           UpdateStateLifetime, UsesUpdateState, FreedByLast
  <1> QED
    BY <1>1, <1>4

\* ApplyUpdatesInternal preserves the invariant.
LEMMA ApplyUpdatesInternalIInv ==
  ASSUME IInv, NEW t \in Threads, ApplyUpdatesInternal(t)
  PROVE  IInv'
  <1> USE DEF IInv, ApplyUpdatesInternal, ApplyBatch, ApplyRefused, DiscardIndex,
              Goto
  <1>1. TypeOK'
    <2>1. CASE ApplyRefused(t)
      <3>1. mem_ok' \in BOOLEAN
        BY <2>1, Zenon
      <3> QED
        BY <2>1, <3>1, MaxShapesAssumption DEF TypeOK, PC
    <2>2. ASSUME NEW end \in pending_additions_begin_ .. MaxShapes,
                 ApplyBatch(t, end)
          PROVE  TypeOK'
      <3>1. end \in 0 .. MaxShapes
        BY MaxShapesAssumption DEF TypeOK
      <3>2. cell_map_' \subseteq Ids
        BY <2>2 DEF TypeOK, Queued
      <3>3. pc' \in [Threads -> PC]
        BY <2>2 DEF TypeOK, PC
      <3> QED
        BY <2>2, <3>1, <3>2, <3>3 DEF TypeOK
    <2> QED
      BY <2>1, <2>2
  <1>2. Waiters' = Waiters
    BY DEF Waiters, TypeOK
  <1>3. WaitersCounted'
    BY <1>2 DEF SyncInv, WaitersCounted
  <1>4. SyncInv'
    BY <1>3, ThreadsAssumption
       DEF TypeOK, PC, SyncInv, LockOwner, MutexOwner, StatusOfUpdate, Updating,
           StaleIsUntouched, WokenFindsFresh, UnlockCountExact,
           UpdateStateLifetime, UsesUpdateState, FreedByLast
  <1> QED
    BY <1>1, <1>4

\* FinishUpdate preserves the invariant.
LEMMA FinishUpdateIInv ==
  ASSUME IInv, NEW t \in Threads, FinishUpdate(t)
  PROVE  IInv'
  <1> USE DEF IInv, FinishUpdate, Goto
  <1>1. TypeOK'
    BY MaxShapesAssumption DEF TypeOK, PC, contents, Ids
  <1>2. Waiters' = Waiters
    BY DEF Waiters, TypeOK
  <1>3. WaitersCounted'
    BY <1>2 DEF SyncInv, WaitersCounted
  <1>4. SyncInv'
    BY <1>3, ThreadsAssumption
       DEF TypeOK, PC, SyncInv, LockOwner, MutexOwner, StatusOfUpdate, Updating,
           StaleIsUntouched, WokenFindsFresh, UnlockCountExact,
           UpdateStateLifetime, UsesUpdateState, FreedByLast
  <1> QED
    BY <1>1, <1>4

\* WaitForMutex preserves the invariant.
LEMMA WaitForMutexIInv ==
  ASSUME IInv, NEW t \in Threads, WaitForMutex(t)
  PROVE  IInv'
  <1> USE DEF IInv, WaitForMutex, Goto
  <1>1. TypeOK'
    BY MaxShapesAssumption DEF TypeOK, PC, contents, Ids
  <1>2. Waiters' = Waiters
    BY DEF Waiters, TypeOK
  <1>3. WaitersCounted'
    BY <1>2 DEF SyncInv, WaitersCounted
  <1>4. SyncInv'
    BY <1>3, ThreadsAssumption
       DEF TypeOK, PC, SyncInv, LockOwner, MutexOwner, StatusOfUpdate, Updating,
           StaleIsUntouched, WokenFindsFresh, UnlockCountExact,
           UpdateStateLifetime, UsesUpdateState, FreedByLast
  <1> QED
    BY <1>1, <1>4

\* UnlockSpinlock preserves the invariant.
LEMMA UnlockSpinlockIInv ==
  ASSUME IInv, NEW t \in Threads, UnlockSpinlock(t)
  PROVE  IInv'
  <1> USE DEF IInv, UnlockSpinlock, Goto
  <1>1. TypeOK'
    BY MaxShapesAssumption DEF TypeOK, PC, contents, Ids
  <1>2. Waiters' = Waiters
    BY DEF Waiters, TypeOK
  <1>3. WaitersCounted'
    BY <1>2 DEF SyncInv, WaitersCounted
  <1>4. SyncInv'
    BY <1>3, ThreadsAssumption
       DEF TypeOK, PC, SyncInv, LockOwner, MutexOwner, StatusOfUpdate, Updating,
           StaleIsUntouched, WokenFindsFresh, UnlockCountExact,
           UpdateStateLifetime, UsesUpdateState, FreedByLast
  <1> QED
    BY <1>1, <1>4

\* FreeUpdateState preserves the invariant.
LEMMA FreeUpdateStateIInv ==
  ASSUME IInv, NEW t \in Threads, FreeUpdateState(t)
  PROVE  IInv'
  <1> USE DEF IInv, FreeUpdateState, Goto
  <1>1. TypeOK'
    BY MaxShapesAssumption DEF TypeOK, PC, contents, Ids
  <1>2. Waiters' = Waiters
    BY DEF Waiters, TypeOK
  <1>3. WaitersCounted'
    BY <1>2 DEF SyncInv, WaitersCounted
  <1>4. SyncInv'
    BY <1>3, ThreadsAssumption
       DEF TypeOK, PC, SyncInv, LockOwner, MutexOwner, StatusOfUpdate, Updating,
           StaleIsUntouched, WokenFindsFresh, UnlockCountExact,
           UpdateStateLifetime, UsesUpdateState, FreedByLast
  <1> QED
    BY <1>1, <1>4

\* EndRead preserves the invariant.
LEMMA EndReadIInv ==
  ASSUME IInv, NEW t \in Threads, EndRead(t)
  PROVE  IInv'
  <1> USE DEF IInv, EndRead, Goto
  <1>1. TypeOK'
    BY MaxShapesAssumption DEF TypeOK, PC, contents, Ids
  <1>2. Waiters' = Waiters
    BY DEF Waiters, TypeOK
  <1>3. WaitersCounted'
    BY <1>2 DEF SyncInv, WaitersCounted
  <1>4. SyncInv'
    BY <1>3, ThreadsAssumption
       DEF TypeOK, PC, SyncInv, LockOwner, MutexOwner, StatusOfUpdate, Updating,
           StaleIsUntouched, WokenFindsFresh, UnlockCountExact,
           UpdateStateLifetime, UsesUpdateState, FreedByLast
  <1> QED
    BY <1>1, <1>4
\* A thread that starts to wait is counted; the updater that it waits for
\* keeps the UpdateState allocated.
LEMMA StartWaitingIInv ==
  ASSUME IInv, NEW t \in Threads, StartWaiting(t)
  PROVE  IInv'
  <1> USE DEF IInv, StartWaiting, Goto
  <1>1. TypeOK'
    BY DEF TypeOK, PC, contents
  <1>2. PICK u \in Threads : Updating(u)
    BY DEF SyncInv, StatusOfUpdate
  <1>3. update_state_
    BY <1>2 DEF SyncInv, UpdateStateLifetime, UsesUpdateState, Updating
  <1>4. WaitersCounted'
    <2>1. Waiters' = Waiters \cup {t} /\ t \notin Waiters
      BY DEF Waiters, TypeOK
    <2>2. Cardinality(Waiters') = Cardinality(Waiters) + 1
      BY <2>1, WaitersFinite, FS_AddElement DEF TypeOK
    <2> QED
      BY <1>3, <2>2 DEF SyncInv, WaitersCounted
  <1>5. SyncInv'
    BY <1>2, <1>3, <1>4, ThreadsAssumption
       DEF TypeOK, PC, SyncInv, LockOwner, MutexOwner, StatusOfUpdate, Updating,
           StaleIsUntouched, WokenFindsFresh, UnlockCountExact,
           UpdateStateLifetime, UsesUpdateState, FreedByLast
  <1> QED
    BY <1>1, <1>5

\* A fresh UpdateState starts with nobody waiting: no thread can be past the
\* spinlock while the index is STALE.
LEMMA StartUpdateIInv ==
  ASSUME IInv, NEW t \in Threads, StartUpdate(t)
  PROVE  IInv'
  <1> USE DEF IInv, StartUpdate, Goto
  <1>1. TypeOK'
    BY DEF TypeOK, PC, contents
  <1>2. \A u \in Threads : pc[u] \in {"idle", "lock", "locked"}
    BY DEF SyncInv, StaleIsUntouched
  <1>3. WaitersCounted'
    <2>1. Waiters' = {}
      BY <1>2 DEF Waiters, TypeOK
    <2> QED
      BY <2>1, FS_EmptySet DEF WaitersCounted
  <1>4. SyncInv'
    BY <1>2, <1>3, ThreadsAssumption
       DEF TypeOK, PC, SyncInv, LockOwner, MutexOwner, StatusOfUpdate, Updating,
           StaleIsUntouched, WokenFindsFresh, UnlockCountExact,
           UpdateStateLifetime, UsesUpdateState, FreedByLast
  <1> QED
    BY <1>1, <1>4

\* A woken thread takes itself off the count.
LEMMA StopWaitingIInv ==
  ASSUME IInv, NEW t \in Threads, StopWaiting(t)
  PROVE  IInv'
  <1> USE DEF IInv, StopWaiting, Goto
  <1>1. update_state_
    BY DEF SyncInv, UpdateStateLifetime, UsesUpdateState
  <1>2. Waiters' = Waiters \ {t} /\ t \in Waiters
    BY DEF Waiters, TypeOK
  <1>3. Cardinality(Waiters') = Cardinality(Waiters) - 1
    BY <1>2, WaitersFinite, FS_RemoveElement DEF TypeOK
  <1>4. num_waiting = Cardinality(Waiters) /\ num_waiting # 0
    BY <1>1, <1>2, WaitersFinite DEF SyncInv, WaitersCounted, TypeOK
  <1>5. TypeOK'
    BY <1>4 DEF TypeOK, PC, contents
  <1>6. WaitersCounted'
    BY <1>3, <1>4 DEF WaitersCounted
  <1>7. SyncInv'
    BY <1>1, <1>6, ThreadsAssumption
       DEF TypeOK, PC, SyncInv, LockOwner, MutexOwner, StatusOfUpdate, Updating,
           StaleIsUntouched, WokenFindsFresh, UnlockCountExact,
           UpdateStateLifetime, UsesUpdateState, FreedByLast
  <1> QED
    BY <1>5, <1>7

\* The mutex is handed over: either nobody waits and the thread that unlocks
\* is the last user of the UpdateState, or a waiter remains that will be.
LEMMA UnlockMutexIInv ==
  ASSUME IInv, NEW t \in Threads, UnlockMutex(t)
  PROVE  IInv'
  <1> USE DEF IInv, UnlockMutex, Goto
  <1>1. TypeOK'
    BY DEF TypeOK, PC, contents
  <1>2. Waiters' = Waiters
    BY DEF Waiters, TypeOK
  <1>3. WaitersCounted'
    BY <1>2 DEF SyncInv, WaitersCounted
  <1>4. update_state_ /\ seen_waiting[t] = Cardinality(Waiters)
    BY DEF SyncInv, UpdateStateLifetime, UsesUpdateState, UnlockCountExact,
           WaitersCounted
  <1>5. seen_waiting[t] = 0 <=> Waiters = {}
    BY <1>4, WaitersFinite DEF TypeOK
  <1>6. UpdateStateLifetime'
    <2>1. CASE seen_waiting[t] = 0
      BY <2>1, <1>4 DEF UpdateStateLifetime, UsesUpdateState, TypeOK
    <2>2. CASE seen_waiting[t] # 0
      <3>1. PICK u \in Threads : pc[u] \in {"wait", "relock"}
        BY <2>2, <1>5 DEF Waiters
      <3> QED
        BY <3>1, <1>4 DEF UpdateStateLifetime, UsesUpdateState, TypeOK
    <2> QED
      BY <2>1, <2>2
  <1>7. FreedByLast'
    BY <1>4, <1>5
       DEF TypeOK, PC, SyncInv, MutexOwner, UnlockCountExact, FreedByLast,
           UsesUpdateState, Waiters
  <1>8. SyncInv'
    BY <1>3, <1>6, <1>7, ThreadsAssumption
       DEF TypeOK, PC, SyncInv, LockOwner, MutexOwner, StatusOfUpdate, Updating,
           StaleIsUntouched, WokenFindsFresh, UnlockCountExact
  <1> QED
    BY <1>1, <1>8

\* Every step preserves the invariant.
LEMMA NextIInv == IInv /\ [Next]_vars => IInv'
  <1> SUFFICES ASSUME IInv, [Next]_vars PROVE IInv'
    OBVIOUS
  <1>1. CASE Mutate
    BY <1>1, MutateIInv
  <1>2. ASSUME NEW t \in Threads, MaybeApplyUpdates(t) PROVE IInv'
    BY <1>2, MaybeApplyUpdatesIInv
  <1>3. ASSUME NEW t \in Threads, Continue(t) PROVE IInv'
    BY <1>3, LockIInv, FoundFreshIInv, StartWaitingIInv, StartUpdateIInv,
       ApplyUpdatesInternalIInv, FinishUpdateIInv, WaitForMutexIInv,
       StopWaitingIInv, UnlockSpinlockIInv, UnlockMutexIInv,
       FreeUpdateStateIInv, EndReadIInv DEF Continue
  <1>4. CASE UNCHANGED vars
    BY <1>4 DEF IInv, vars, contents, sync, TypeOK, SyncInv, LockOwner,
           MutexOwner, StatusOfUpdate, Updating, StaleIsUntouched,
           WokenFindsFresh, WaitersCounted, Waiters, UnlockCountExact,
           UpdateStateLifetime, UsesUpdateState, FreedByLast
  <1> QED
    BY <1>1, <1>2, <1>3, <1>4 DEF Next

\* Type correctness and the synchronisation invariant, for any number of
\* threads and shapes, with or without a memory limit: in particular the
\* UpdateState is never used after it is freed, never freed twice and never
\* leaked, and a woken thread finds the index FRESH.
THEOREM SyncCorrect == Spec => [](TypeOK /\ SyncInv)
  <1>1. Init => IInv
    BY InitIInv
  <1>2. IInv /\ [Next]_vars => IInv'
    BY NextIInv
  <1> QED
    BY <1>1, <1>2, PTL DEF Spec, IInv

\* The UpdateState of ApplyUpdatesThreadSafe lives exactly as long as some
\* thread will still touch it.
THEOREM UpdateStateSafe == Spec => []UpdateStateLifetime
  <1>1. TypeOK /\ SyncInv => UpdateStateLifetime
    BY DEF SyncInv
  <1> QED
    BY <1>1, SyncCorrect, PTL

\* The fields of the index keep their types: index_status_ is one of its three
\* values, ids stay below MaxShapes and every thread is at a known place.
THEOREM TypesCorrect == Spec => []TypeOK
  BY SyncCorrect, PTL

\* Waiting threads are let go one after the other: each of them finds the index
\* FRESH, as long as it stays in the const method, and the one that frees the
\* UpdateState is the last that needs it (UnlockAndSignal).
THEOREM WaitersLetGo == Spec => []WaitersServed
  <1>1. TypeOK /\ SyncInv => WaitersServed
    BY DEF SyncInv, WaitersServed
  <1> QED
    BY <1>1, SyncCorrect, PTL

\* Discarding the cells and forgetting what was processed leaves the index
\* consistent.
LEMMA DiscardCells ==
  ASSUME TypeOK', DiscardIndex, live' \subseteq 0 .. num_shape_ids' - 1
  PROVE  CellsInv'
  <1>1. \A id \in live' : ~(id < 0)
    BY MaxShapesAssumption DEF TypeOK, Ids
  <1>2. {id \in live' : id < pending_additions_begin_'} = {}
    BY <1>1 DEF DiscardIndex
  <1>3. pending_additions_begin_' <= num_shape_ids'
    BY DEF DiscardIndex, TypeOK
  <1> QED
    BY <1>2, <1>3 DEF CellsInv, DiscardIndex

\* What the cells hold is preserved by the non-const methods, ...
LEMMA MutateCells ==
  ASSUME IInv, CellsInv, Mutate
  PROVE  CellsInv'
  <1> USE MaxShapesAssumption DEF IInv, CellsInv, TypeOK, Ids
  <1>1. CASE Add
    BY <1>1 DEF Add
  <1>2. CASE \E id \in Ids : ReleaseUnindexed(id)
    BY <1>2 DEF ReleaseUnindexed
  <1>3. CASE \E id \in Ids : ReleaseIndexed(id)
    BY <1>3 DEF ReleaseIndexed
  <1>4. CASE \E id \in Ids : ReleaseRefused(id)
    BY <1>4, MutateIInv, DiscardCells DEF ReleaseRefused
  <1>5. CASE Minimize
    BY <1>5, MutateIInv, DiscardCells DEF Minimize
  <1>6. CASE ReleaseAll
    BY <1>6, MutateIInv, DiscardCells DEF ReleaseAll
  <1>7. CASE set_memory_tracker
    BY <1>7 DEF set_memory_tracker
  <1> QED
    BY <1>1, <1>2, <1>3, <1>4, <1>5, <1>6, <1>7 DEF Mutate

\* ... and every method that leaves the index FRESH leaves nothing queued.
LEMMA MutateFresh ==
  ASSUME IInv, ContentsInv, Mutate
  PROVE  FreshInv'
  <1> SUFFICES ASSUME ~MemoryLimited PROVE FreshInv'
    BY DEF FreshInv
  <1> USE DEF IInv, ContentsInv, FreshInv
  <1>1. Quiescent /\ UNCHANGED sync /\ mem_ok'
    <2>1. TallyOutcomes = {mem_ok}
      BY DEF TallyOutcomes
    <2> QED
      BY <2>1 DEF Mutate, Add, ReleaseUnindexed, ReleaseIndexed, ReleaseRefused,
             Minimize, ReleaseAll, set_memory_tracker
  <1>2. index_status_ # "UPDATING"
    BY <1>1 DEF SyncInv, StatusOfUpdate, Updating, Quiescent
  <1>3. \A t \in Threads : pc'[t] = "idle"
    BY <1>1 DEF Quiescent, sync
  <1>4. index_status_' = "FRESH" => num_shape_ids' = 0
    <2> USE <1>1, <1>2 DEF MarkIndexStale
    <2>1. CASE Add
      BY <2>1 DEF Add
    <2>2. CASE \E id \in Ids : ReleaseUnindexed(id) \/ ReleaseIndexed(id)
      BY <2>2 DEF ReleaseUnindexed, ReleaseIndexed
    <2>3. CASE \E id \in Ids : ReleaseRefused(id)
      BY <2>3 DEF ReleaseRefused
    <2>4. CASE Minimize
      BY <2>4 DEF Minimize
    <2>5. CASE ReleaseAll
      BY <2>5 DEF ReleaseAll
    <2> QED
      BY <2>1, <2>2, <2>3, <2>4, <2>5 DEF Mutate, set_memory_tracker
  <1>5. num_shape_ids' = 0 => live' = {} /\ pending_removals_' = {}
    <2>1. TypeOK' /\ CellsInv'
      BY MutateIInv, MutateCells
    <2> QED
      BY <2>1 DEF CellsInv, TypeOK, Ids
  <1> QED
    BY <1>1, <1>3, <1>4, <1>5

\* A batch of the update moves queued shapes into the cells and takes the
\* removed ones out; after the last one nothing is queued.
LEMMA ApplyContents ==
  ASSUME IInv, ContentsInv, NEW t \in Threads, ApplyUpdatesInternal(t)
  PROVE  ContentsInv'
  <1> USE DEF IInv, ContentsInv, CellsInv, FreshInv
  <1>1. CASE ApplyRefused(t)
    <2>1. CellsInv'
      BY <1>1, ApplyUpdatesInternalIInv, DiscardCells DEF ApplyRefused
    <2> QED
      BY <1>1, <2>1 DEF ApplyRefused
  <1>2. ASSUME NEW end \in pending_additions_begin_ .. MaxShapes,
               ApplyBatch(t, end)
        PROVE  ContentsInv'
    <2>1. \A id \in live : id \in Int /\ id < num_shape_ids
      BY DEF TypeOK, Ids
    <2>2. index_status_' = "UPDATING"
      BY <1>2 DEF ApplyBatch, SyncInv, StatusOfUpdate, Updating
    <2>3. \A u \in Threads \ {t} : pc'[u] # "finish"
      BY <1>2, MutexExcludes DEF ApplyBatch, Goto, TypeOK, SyncInv, MutexOwner
    <2>4. end <= num_shape_ids
      <3>1. CASE \E id \in Queued : end <= id
        BY <3>1, <2>1 DEF Queued, TypeOK
      <3>2. CASE IsShapeIdEnd(end)
        BY <3>2, <2>1 DEF IsShapeIdEnd, Queued, TypeOK
      <3> QED
        BY <1>2, <3>1, <3>2 DEF ApplyBatch
    <2>5. IsShapeIdEnd(end) => \A id \in live : id < end
      BY <2>1 DEF IsShapeIdEnd, Queued, TypeOK
    <2>6. cell_map_' = {id \in live : id < end}
      <3>1. cell_map_ \ pending_removals_
              = {id \in live : id < pending_additions_begin_}
        OBVIOUS
      <3>2. cell_map_' = {id \in live : id < pending_additions_begin_}
                          \cup {id \in Queued : id < end}
        BY <1>2, <3>1 DEF ApplyBatch
      <3>3. pending_additions_begin_ \in Int /\ end \in Int
              /\ pending_additions_begin_ <= end
        BY MaxShapesAssumption DEF TypeOK
      <3>4. \A id \in live :
              id < end <=> \/ id < pending_additions_begin_
                           \/ id >= pending_additions_begin_ /\ id < end
        BY <2>1, <3>3
      <3> QED
        BY <3>2, <3>4, Zenon DEF Queued
    <2>7. pc'[t] = "finish" => IsShapeIdEnd(end)
      BY <1>2 DEF ApplyBatch, Goto, TypeOK
    <2> QED
      BY <1>2, <2>2, <2>3, <2>4, <2>5, <2>6, <2>7 DEF ApplyBatch
  <1> QED
    BY <1>1, <1>2 DEF ApplyUpdatesInternal

\* The other steps of the const methods leave the contents alone and declare
\* the index FRESH only when the update is finished.
LEMMA ContinueContents ==
  ASSUME IInv, ContentsInv,
         NEW t \in Threads, MaybeApplyUpdates(t) \/ Continue(t)
  PROVE  ContentsInv'
  <1>1. CASE ApplyUpdatesInternal(t)
    BY <1>1, ApplyContents
  <1>2. CASE ~ApplyUpdatesInternal(t)
    <2>1. UNCHANGED contents
      BY <1>2 DEF Continue, MaybeApplyUpdates, Lock, FoundFresh, StartWaiting,
             StartUpdate, FinishUpdate, WaitForMutex, StopWaiting,
             UnlockSpinlock, UnlockMutex, FreeUpdateState, EndRead
    <2>2. (index_status_' = "FRESH" \/ \E u \in Threads : pc'[u] = "finish") =>
            (index_status_ = "FRESH" \/ \E u \in Threads : pc[u] = "finish")
      BY <1>2 DEF Continue, MaybeApplyUpdates, Lock, FoundFresh, StartWaiting,
             StartUpdate, FinishUpdate, WaitForMutex, StopWaiting,
             UnlockSpinlock, UnlockMutex, FreeUpdateState, EndRead, Goto,
             IInv, TypeOK
    <2> QED
      BY <2>1, <2>2 DEF ContentsInv, CellsInv, FreshInv, contents
  <1> QED
    BY <1>1, <1>2

\* The contents invariant holds in every reachable state.
THEOREM ContentsCorrect == Spec => []ContentsInv
  <1>1. Init => ContentsInv
    BY MaxShapesAssumption DEF Init, ContentsInv, CellsInv, FreshInv
  <1>2. IInv /\ ContentsInv /\ [Next]_vars => ContentsInv'
    <2> SUFFICES ASSUME IInv, ContentsInv, [Next]_vars PROVE ContentsInv'
      OBVIOUS
    <2>1. CASE UNCHANGED vars
      BY <2>1 DEF vars, contents, sync, ContentsInv, CellsInv, FreshInv
    <2>2. CASE Mutate
      BY <2>2, MutateCells, MutateFresh DEF ContentsInv
    <2> QED
      BY <2>1, <2>2, ContinueContents DEF Next
  <1> QED
    BY <1>1, <1>2, SyncCorrect, PTL DEF Spec, IInv

\* Ids queued for removal precede the ids queued for addition, with or
\* without a memory limit: is_shape_being_removed is right.
THEOREM RemovalsFirst == Spec => []RemovalsPrecedeAdditions
  <1>1. ContentsInv => RemovalsPrecedeAdditions
    BY DEF ContentsInv, CellsInv, RemovalsPrecedeAdditions
  <1> QED
    BY <1>1, ContentsCorrect, PTL

\* A FRESH index without a memory limit holds exactly the live shapes.
LEMMA FreshIsComplete ==
  ASSUME ContentsInv, ~MemoryLimited, index_status_ = "FRESH"
  PROVE  cell_map_ = live
  BY DEF ContentsInv, CellsInv, FreshInv

\* Readers see every live shape and nothing else, however many threads
\* raced to build the index.
THEOREM ReadersCorrect == Spec => []ReadersSeeLiveShapes
  <1>1. IInv /\ ContentsInv => ReadersSeeLiveShapes
    BY FreshIsComplete DEF ReadersSeeLiveShapes, IInv, SyncInv, WokenFindsFresh
  <1> QED
    BY <1>1, SyncCorrect, ContentsCorrect, PTL DEF IInv

\* No step changes the cells or the shapes under a reader.
THEOREM ReadersStable == Spec => ReadersUndisturbed
  <1> DEFINE Undisturbed ==
        \A t \in Threads :
          pc[t] = "reading" /\ pc'[t] = "reading" =>
            UNCHANGED <<cell_map_, live, num_shape_ids>>
  <1>1. IInv /\ [Next]_vars => [Undisturbed]_vars
    <2> SUFFICES ASSUME IInv, Next, NEW t \in Threads, pc[t] = "reading"
                 PROVE  UNCHANGED <<cell_map_, live, num_shape_ids>>
      BY DEF vars
    <2>1. ~Quiescent
      BY DEF Quiescent
    <2>2. CASE Mutate
      BY <2>1, <2>2 DEF Mutate, Add, ReleaseUnindexed, ReleaseIndexed,
             ReleaseRefused, Minimize, ReleaseAll, set_memory_tracker
    <2>3. ASSUME NEW u \in Threads, MaybeApplyUpdates(u) \/ Continue(u)
          PROVE  UNCHANGED <<cell_map_, live, num_shape_ids>>
      <3>1. pc[u] # "apply"
        BY DEF IInv, SyncInv, WokenFindsFresh, StatusOfUpdate, Updating
      <3> QED
        BY <2>3, <3>1
           DEF contents, Continue, MaybeApplyUpdates, Lock, FoundFresh,
               StartWaiting, StartUpdate, ApplyUpdatesInternal, ApplyBatch,
               ApplyRefused, FinishUpdate, WaitForMutex, StopWaiting,
               UnlockSpinlock, UnlockMutex, FreeUpdateState, EndRead
    <2> QED
      BY <2>2, <2>3 DEF Next
  <1> QED
    BY <1>1, SyncCorrect, PTL DEF Spec, IInv, ReadersUndisturbed
-----------------------------------------------------------------------------
\* What the contract's answer is under the refinement mapping.
Answer == [t \in Threads |-> IF pc[t] = "reading" THEN {cell_map_} ELSE {}]

\* A mutation is one step of the contract: no query is in progress, so every
\* answer is empty before and after it.
LEMMA MutateRefines ==
  ASSUME IInv, ContentsInv, Mutate
  PROVE  Contract!Next \/ UNCHANGED <<live, Answer>>
  <1>1. Quiescent /\ UNCHANGED pc
    BY DEF Mutate, Add, ReleaseUnindexed, ReleaseIndexed, ReleaseRefused,
           Minimize, ReleaseAll, set_memory_tracker, sync
  <1>2. UNCHANGED Answer /\ \A t \in Threads : Answer[t] = {}
    BY <1>1 DEF Quiescent, Answer
  <1>3. CASE Add
    <2>1. num_shape_ids \notin live /\ live' = live \cup {num_shape_ids}
      BY <1>3, MaxShapesAssumption DEF Add, IInv, TypeOK, ContentsInv, CellsInv
    <2>2. Contract!AddShape(num_shape_ids)
      BY <1>2, <2>1 DEF Contract!AddShape, Answer
    <2> QED
      BY <2>1, <2>2 DEF Contract!Next
  <1>4. CASE \E id \in Ids : \/ ReleaseUnindexed(id)
                            \/ ReleaseIndexed(id)
                            \/ ReleaseRefused(id)
    <2>1. PICK id \in live : live' = live \ {id}
      BY <1>4 DEF ReleaseUnindexed, ReleaseIndexed, ReleaseRefused
    <2>2. Contract!RemoveShapes({id})
      BY <1>2, <2>1 DEF Contract!RemoveShapes, Answer
    <2> QED
      BY <2>1, <2>2 DEF Contract!Next
  <1>5. CASE ReleaseAll
    <2>1. Contract!RemoveShapes(live)
      BY <1>2, <1>5 DEF ReleaseAll, Contract!RemoveShapes, Answer
    <2> QED
      BY <2>1 DEF Contract!Next
  <1>6. CASE Minimize \/ set_memory_tracker
    BY <1>2, <1>6 DEF Minimize, set_memory_tracker
  <1> QED
    BY <1>3, <1>4, <1>5, <1>6 DEF Mutate

\* A step of a const method that ends in "reading" is BeginRead, leaving it
\* is EndRead, and every other step, the whole update included, is invisible.
LEMMA ContinueRefines ==
  ASSUME IInv, IInv', ContentsInv, ContentsInv', ~MemoryLimited,
         NEW t \in Threads, MaybeApplyUpdates(t) \/ Continue(t)
  PROVE  Contract!Next \/ UNCHANGED <<live, Answer>>
  <1> USE DEF Answer
  <1>1. UNCHANGED live /\ \E label \in PC : pc' = [pc EXCEPT ![t] = label]
    BY DEF Continue, MaybeApplyUpdates, Lock, FoundFresh, StartWaiting,
           StartUpdate, ApplyUpdatesInternal, ApplyBatch, ApplyRefused,
           FinishUpdate, WaitForMutex, StopWaiting, UnlockSpinlock,
           UnlockMutex, FreeUpdateState, EndRead, Goto, PC, contents
  <1>2. \A u \in Threads \ {t} : pc'[u] = pc[u]
    BY <1>1 DEF IInv, TypeOK
  <1>3. \A u \in Threads : pc[u] = "reading" => index_status_ = "FRESH"
    BY DEF IInv, SyncInv, WokenFindsFresh
  <1>4. \A u \in Threads : pc'[u] = "reading" => cell_map_' = live'
    <2>1. \A u \in Threads : pc'[u] = "reading" => index_status_' = "FRESH"
      BY DEF IInv, SyncInv, WokenFindsFresh
    <2> QED
      BY <2>1 DEF ContentsInv, CellsInv, FreshInv
  <1>5. \A u \in Threads : pc[u] = "reading" => cell_map_ = live
    BY <1>3, FreshIsComplete
  <1>6. \A u \in Threads \ {t} : Answer'[u] = Answer[u]
    BY <1>1, <1>2, <1>4, <1>5
  <1>7. CASE pc[t] # "reading" /\ pc'[t] = "reading"
    <2>1. Answer[t] = {} /\ Answer'[t] = {live}
      BY <1>1, <1>4, <1>7
    <2>2. Answer' = [Answer EXCEPT ![t] = {live}]
      BY <1>6, <2>1
    <2>3. Contract!BeginRead(t)
      BY <1>1, <2>1, <2>2 DEF Contract!BeginRead
    <2> QED
      BY <2>3 DEF Contract!Next
  <1>8. CASE pc[t] = "reading" /\ pc'[t] # "reading"
    <2>1. Answer[t] # {} /\ Answer' = [Answer EXCEPT ![t] = {}]
      BY <1>6, <1>8
    <2>2. Contract!EndRead(t)
      BY <1>1, <2>1 DEF Contract!EndRead
    <2> QED
      BY <2>2 DEF Contract!Next
  <1>9. CASE (pc[t] = "reading") = (pc'[t] = "reading")
    <2>1. Answer'[t] = Answer[t]
      BY <1>1, <1>4, <1>5, <1>9
    <2> QED
      BY <1>1, <1>6, <2>1
  <1> QED
    BY <1>7, <1>8, <1>9

\* Without a memory limit the lazily and concurrently built index implements
\* its contract: queries cannot tell that indexing work was deferred.
THEOREM Refinement == ~MemoryLimited => (Spec => ImplementsContract)
  <1> SUFFICES ASSUME ~MemoryLimited PROVE Spec => ImplementsContract
    OBVIOUS
  <1>1. Init => Contract!Init
    BY DEF Init, Contract!Init
  <1>2. /\ IInv /\ ContentsInv /\ IInv' /\ ContentsInv' /\ [Next]_vars
        => [Contract!Next]_<<live, Answer>>
    <2> SUFFICES ASSUME IInv, ContentsInv, IInv', ContentsInv', [Next]_vars
                 PROVE  Contract!Next \/ UNCHANGED <<live, Answer>>
      OBVIOUS
    <2>1. CASE UNCHANGED vars
      BY <2>1 DEF vars, contents, sync, Answer
    <2> QED
      BY <2>1, MutateRefines, ContinueRefines DEF Next
  <1> QED
    BY <1>1, <1>2, SyncCorrect, ContentsCorrect, PTL
       DEF Spec, IInv, ImplementsContract, Contract!Spec, Answer
=============================================================================
