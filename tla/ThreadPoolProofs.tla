-------------------------- MODULE ThreadPoolProofs --------------------------
(***************************************************************************)
(* Safety of the thread pool for every number of tasks, every initial size *)
(* and every maximum size.                                                 *)
(***************************************************************************)
EXTENDS ThreadPool, DistinctSequences, FunctionTheorems, FiniteSetTheorems, SequenceTheorems, TLAPS

-----------------------------------------------------------------------------
(* A finite set with an element has a positive cardinality.                  *)
LEMMA CardinalityPositive ==
  ASSUME NEW A, IsFiniteSet(A), NEW x \in A
  PROVE  Cardinality(A) \in Nat /\ Cardinality(A) > 0
BY FS_CardinalityType, FS_EmptySet

(* A new element raises the cardinality of a finite set by one.              *)
LEMMA CardinalityPlusOne ==
  ASSUME NEW A, NEW B, NEW x, IsFiniteSet(A), x \notin A, B = A \cup {x}
  PROVE  IsFiniteSet(B) /\ Cardinality(B) = Cardinality(A) + 1
BY FS_AddElement

(* Removing an element lowers the cardinality of a finite set by one.        *)
LEMMA CardinalityMinusOne ==
  ASSUME NEW A, NEW B, NEW x, IsFiniteSet(A), x \in A, B = A \ {x}
  PROVE  IsFiniteSet(B) /\ Cardinality(B) = Cardinality(A) - 1
BY FS_RemoveElement

-----------------------------------------------------------------------------
(* A worker has a task exactly while it is inside task().                    *)
BusyHasTask ==
  \A w \in Worker :
    IF pc[w] = "running" THEN cur[w] \in Task ELSE cur[w] = NoTask

TypeInv == TypeOK /\ BusyHasTask

(* The constructor clips its argument to mMaxThreadNum.                      *)
LEMMA InitThreadNumType ==
  mInitThreadNum \in Nat /\ mInitThreadNum <= MaxThreadNum /\ MaxThreadNum \in Nat
BY PoolAssumption DEF mInitThreadNum

(* The workers ever started are finitely many.                               *)
LEMMA WorkerSetsFinite ==
  ASSUME TypeOK
  PROVE  /\ IsFiniteSet(IdleWorker) /\ Cardinality(IdleWorker) \in Nat
         /\ IsFiniteSet(LiveWorker) /\ Cardinality(LiveWorker) \in Nat
         /\ IsFiniteSet(Awake) /\ Cardinality(Awake) \in Nat
<1>1. IsFiniteSet(Worker)
  BY FS_Interval DEF TypeOK, Worker
<1>2. IdleWorker \in SUBSET Worker /\ LiveWorker \in SUBSET Worker /\ Awake \in SUBSET Worker
  BY DEF IdleWorker, LiveWorker, Awake
<1>3. IsFiniteSet(IdleWorker) /\ IsFiniteSet(LiveWorker) /\ IsFiniteSet(Awake)
  BY <1>1, <1>2, FS_Subset
<1>4. QED
  BY <1>3, FS_CardinalityType

(* What the step of one worker does to the sets the counters count.          *)
LEMMA WorkerMoves ==
  ASSUME TypeOK, NEW w \in Worker, NEW s,
         pc' = [pc EXCEPT ![w] = s], mThreadId' = mThreadId
  PROVE  /\ IdleWorker' = IF s \in IdleStates THEN IdleWorker \cup {w} ELSE IdleWorker \ {w}
         /\ LiveWorker' = IF s \in LiveStates THEN LiveWorker \cup {w} ELSE LiveWorker \ {w}
         /\ Awake' = IF s = "ready" THEN Awake \cup {w} ELSE Awake \ {w}
         /\ Waiting' = IF s = "waiting" THEN Waiting \cup {w} ELSE Waiting \ {w}
<1>1. Worker' = Worker /\ pc'[w] = s /\ \A v \in Worker \ {w} : pc'[v] = pc[v]
  BY DEF TypeOK, Worker
<1>2. QED
  BY <1>1 DEF IdleWorker, LiveWorker, Awake, Waiting

(* addThread starts a worker that is ready.                                  *)
LEMMA WorkerStarts ==
  ASSUME TypeOK, addThread
  PROVE  /\ mThreadId \notin Worker
         /\ IdleWorker' = IdleWorker \cup {mThreadId}
         /\ LiveWorker' = LiveWorker \cup {mThreadId}
         /\ Awake' = Awake \cup {mThreadId}
         /\ Waiting' = Waiting
<1>1. mThreadId \notin Worker /\ Worker' = Worker \cup {mThreadId}
  BY DEF TypeOK, Worker, addThread
<1>2. pc'[mThreadId] = "ready" /\ \A v \in Worker : pc'[v] = pc[v]
  BY DEF TypeOK, Worker, addThread
<1>3. QED
  BY <1>1, <1>2 DEF IdleWorker, LiveWorker, Awake, Waiting, IdleStates, LiveStates

(* The type invariant is inductive together with BusyHasTask: TaskReturns    *)
(* puts cur[w] into done, so it must be a task there.                        *)
LEMMA TypeStep == TypeInv /\ CountersExact /\ [Next]_vars => TypeInv'
<1> SUFFICES ASSUME TypeOK, BusyHasTask, CountersExact, [Next]_vars
             PROVE  TypeOK' /\ BusyHasTask'
  BY DEF TypeInv
<1> USE PoolAssumption
<1> USE DEF TypeOK, BusyHasTask, Worker, WorkerState, CallStage, poolVars
<1>1. ASSUME NEW t \in Task, ClientCall(t)
      PROVE  TypeOK' /\ BusyHasTask'
  BY <1>1 DEF ClientCall
<1>2. ASSUME NEW t \in Task, EnqueueLock(t)
      PROVE  TypeOK' /\ BusyHasTask'
  BY <1>2 DEF EnqueueLock
<1>3. ASSUME NEW t \in Task, NEW w \in mPendingRemoveThreadIds, JoinRetired(t, w)
      PROVE  TypeOK' /\ BusyHasTask'
  BY <1>3 DEF JoinRetired
<1>4. ASSUME NEW t \in Task, EnqueuePush(t)
      PROVE  TypeOK' /\ BusyHasTask'
  <2>1. mTaskQueue' \in Seq(Task) /\ stage' \in [Task -> CallStage]
    BY <1>4 DEF EnqueuePush
  <2>2. CASE addThread
    <3>1. mThreadId' \in Nat /\ 0 .. mThreadId' - 1 = 0 .. mThreadId
      BY <2>2 DEF addThread
    <3>2. \A w \in 0 .. mThreadId : w = mThreadId \/ w \in 0 .. mThreadId - 1
      OBVIOUS
    <3>3. pc' \in [0 .. mThreadId -> WorkerState]
      BY <2>2, <3>2 DEF addThread
    <3>4. cur' \in [0 .. mThreadId -> Task \cup {NoTask}]
      BY <2>2, <3>2 DEF addThread
    <3>5. mWorkers' \subseteq 0 .. mThreadId /\ mPendingRemoveThreadIds' \subseteq 0 .. mThreadId
      BY <1>4, <2>2 DEF addThread, EnqueuePush
    <3>6. \A w \in 0 .. mThreadId : IF pc'[w] = "running" THEN cur'[w] \in Task ELSE cur'[w] = NoTask
      BY <2>2, <3>2 DEF addThread
    <3>7. mIdleThreads' \in Nat /\ mActiveThreadNum' \in Nat
      BY <2>2 DEF addThread
    <3>8. UNCHANGED <<mStop, done, dtor>>
      BY <1>4 DEF EnqueuePush
    <3>9. QED
      BY <2>1, <3>1, <3>3, <3>4, <3>5, <3>6, <3>7, <3>8
  <2>3. CASE UNCHANGED <<mThreadId, mWorkers, pc, cur, mIdleThreads, mActiveThreadNum>>
    BY <1>4, <2>1, <2>3 DEF EnqueuePush
  <2>4. QED
    BY <1>4, <2>2, <2>3 DEF EnqueuePush
<1>5. ASSUME NEW t \in Task, EnqueueNotify(t)
      PROVE  TypeOK' /\ BusyHasTask'
  BY <1>5 DEF EnqueueNotify
<1>6. ASSUME NEW w \in Worker, Wait(w)
      PROVE  TypeOK' /\ BusyHasTask'
  BY <1>6 DEF Wait
<1>7. ASSUME NEW w \in Worker, SpuriousWakeup(w)
      PROVE  TypeOK' /\ BusyHasTask'
  BY <1>7 DEF SpuriousWakeup
<1>8. ASSUME NEW w \in Worker, LeaveStopped(w)
      PROVE  TypeOK' /\ BusyHasTask'
  BY <1>8 DEF LeaveStopped
<1>9. ASSUME NEW w \in Worker, TakeTask(w)
      PROVE  TypeOK' /\ BusyHasTask'
  <2>1. mIdleThreads > 0
    <3>1. w \in IdleWorker
      BY <1>9 DEF TakeTask, IdleWorker, IdleStates
    <3>2. QED
      BY <3>1, WorkerSetsFinite, CardinalityPositive DEF CountersExact
  <2>2. Head(mTaskQueue) \in Task /\ mTaskQueue' \in Seq(Task)
    BY <1>9, HeadTailProperties DEF TakeTask
  <2>3. QED
    BY <1>9, <2>1, <2>2 DEF TakeTask
<1>10. ASSUME NEW w \in Worker, NEW t \in Task, TaskCall(w, t)
      PROVE  TypeOK' /\ BusyHasTask'
  BY <1>10 DEF TaskCall
<1>11. ASSUME NEW w \in Worker, TaskReturns(w)
      PROVE  TypeOK' /\ BusyHasTask'
  BY <1>11 DEF TaskReturns
<1>12. ASSUME NEW w \in Worker, Recycle(w)
      PROVE  TypeOK' /\ BusyHasTask'
  BY <1>12 DEF Recycle
<1>13. ASSUME NEW w \in Worker, Retire(w)
      PROVE  TypeOK' /\ BusyHasTask'
  <2>1. mActiveThreadNum > 0
    <3>1. w \in LiveWorker
      BY <1>13 DEF Retire, LiveWorker, LiveStates
    <3>2. QED
      BY <3>1, WorkerSetsFinite, CardinalityPositive DEF CountersExact
  <2>2. QED
    BY <1>13, <2>1 DEF Retire
<1>14. ASSUME NEW w \in Worker, ThreadEnds(w)
      PROVE  TypeOK' /\ BusyHasTask'
  BY <1>14 DEF ThreadEnds
<1>15. CASE DtorStop
  BY <1>15 DEF DtorStop
<1>16. CASE DtorNotifyAll
  BY <1>16 DEF DtorNotifyAll
<1>17. CASE DtorJoined
  BY <1>17 DEF DtorJoined
<1>18. CASE UNCHANGED vars
  BY <1>18 DEF vars
<1>19. QED
  BY <1>1, <1>2, <1>3, <1>4, <1>5, <1>6, <1>7, <1>8, <1>9, <1>10, <1>11, <1>12,
     <1>13, <1>14, <1>15, <1>16, <1>17, <1>18
     DEF Next, EnqueueStep, WorkerStep, DtorStep, Terminated
-----------------------------------------------------------------------------
(* The counters count: one case per action that moves a worker.              *)
LEMMA CountersStep ==
  TypeInv /\ CountersExact /\ [Next]_vars => CountersExact'
<1> SUFFICES ASSUME TypeOK, CountersExact, [Next]_vars
             PROVE  CountersExact'
  BY DEF TypeInv
<1>1. /\ mIdleThreads = Cardinality(IdleWorker) /\ mActiveThreadNum = Cardinality(LiveWorker)
      /\ IsFiniteSet(IdleWorker) /\ IsFiniteSet(LiveWorker)
  BY WorkerSetsFinite DEF CountersExact
<1>3. ASSUME UNCHANGED <<mIdleThreads, mActiveThreadNum, mThreadId, pc>>
      PROVE  CountersExact'
  BY <1>3 DEF CountersExact, IdleWorker, LiveWorker, Worker
<1>4. ASSUME UNCHANGED <<mIdleThreads, mActiveThreadNum>>,
             IdleWorker' = IdleWorker, LiveWorker' = LiveWorker
      PROVE  CountersExact'
  BY <1>1, <1>4 DEF CountersExact
<1>5. ASSUME NEW t \in Task, ClientCall(t) \/ EnqueueLock(t)
      PROVE  CountersExact'
  BY <1>3, <1>5 DEF ClientCall, EnqueueLock, poolVars
<1>6. ASSUME NEW t \in Task, NEW w \in mPendingRemoveThreadIds, JoinRetired(t, w)
      PROVE  CountersExact'
  BY <1>3, <1>6 DEF JoinRetired
<1>7. ASSUME NEW t \in Task, EnqueuePush(t)
      PROVE  CountersExact'
  <2>1. CASE addThread
    <3>1. /\ Cardinality(IdleWorker') = Cardinality(IdleWorker) + 1
          /\ Cardinality(LiveWorker') = Cardinality(LiveWorker) + 1
      <4>1. mThreadId \notin IdleWorker /\ mThreadId \notin LiveWorker
        BY <2>1, WorkerStarts DEF IdleWorker, LiveWorker
      <4>2. QED
        BY <1>1, <2>1, <4>1, WorkerStarts, CardinalityPlusOne
    <3>2. QED
      BY <1>1, <2>1, <3>1 DEF addThread, CountersExact
  <2>2. CASE UNCHANGED <<mThreadId, mWorkers, pc, cur, mIdleThreads, mActiveThreadNum>>
    BY <1>3, <2>2
  <2>3. QED
    BY <1>7, <2>1, <2>2 DEF EnqueuePush
<1>8. ASSUME NEW w \in Worker, NEW s,
             UNCHANGED <<mIdleThreads, mActiveThreadNum, mThreadId>>,
             pc' = [pc EXCEPT ![w] = s],
             pc[w] \in IdleStates <=> s \in IdleStates,
             pc[w] \in LiveStates <=> s \in LiveStates
      PROVE  CountersExact'
  <2>1. IdleWorker' = IdleWorker /\ LiveWorker' = LiveWorker
    <3>1. /\ IdleWorker' = IF s \in IdleStates THEN IdleWorker \cup {w} ELSE IdleWorker \ {w}
          /\ LiveWorker' = IF s \in LiveStates THEN LiveWorker \cup {w} ELSE LiveWorker \ {w}
      BY <1>8, WorkerMoves
    <3>2. w \in IdleWorker <=> s \in IdleStates
      BY <1>8 DEF IdleWorker
    <3>3. w \in LiveWorker <=> s \in LiveStates
      BY <1>8 DEF LiveWorker
    <3>4. QED
      BY <3>1, <3>2, <3>3
  <2>2. QED
    BY <1>4, <1>8, <2>1
<1>9. ASSUME NEW t \in Task, EnqueueNotify(t)
      PROVE  CountersExact'
  BY <1>3, <1>8, <1>9 DEF EnqueueNotify, poolVars, IdleStates, LiveStates
<1>10. ASSUME NEW w \in Worker,
              \/ Wait(w) \/ SpuriousWakeup(w) \/ LeaveStopped(w)
              \/ TaskReturns(w) \/ ThreadEnds(w)
       PROVE  CountersExact'
  BY <1>8, <1>10
     DEF Wait, SpuriousWakeup, LeaveStopped, TaskReturns, ThreadEnds, poolVars,
         IdleStates, LiveStates
<1>11. ASSUME NEW w \in Worker, TakeTask(w)
       PROVE  CountersExact'
  <2>1. IdleWorker' = IdleWorker \ {w} /\ LiveWorker' = LiveWorker \cup {w}
    BY <1>11, WorkerMoves DEF TakeTask, IdleStates, LiveStates
  <2>2. w \in IdleWorker /\ w \in LiveWorker
    BY <1>11 DEF TakeTask, IdleWorker, LiveWorker, IdleStates, LiveStates
  <2>3. Cardinality(IdleWorker') = Cardinality(IdleWorker) - 1
    BY <1>1, <2>1, <2>2, CardinalityMinusOne
  <2>4. LiveWorker' = LiveWorker
    BY <2>1, <2>2
  <2>5. QED
    BY <1>1, <1>11, <2>3, <2>4 DEF TakeTask, CountersExact
<1>12. ASSUME NEW w \in Worker, NEW t \in Task, TaskCall(w, t)
       PROVE  CountersExact'
  BY <1>3, <1>12 DEF TaskCall, poolVars
<1>13. ASSUME NEW w \in Worker, Recycle(w)
       PROVE  CountersExact'
  <2>1. IdleWorker' = IdleWorker \cup {w} /\ LiveWorker' = LiveWorker \cup {w}
    BY <1>13, WorkerMoves DEF Recycle, IdleStates, LiveStates
  <2>2. w \notin IdleWorker /\ w \in LiveWorker
    BY <1>13 DEF Recycle, IdleWorker, LiveWorker, IdleStates, LiveStates
  <2>3. Cardinality(IdleWorker') = Cardinality(IdleWorker) + 1
    BY <1>1, <2>1, <2>2, CardinalityPlusOne
  <2>4. LiveWorker' = LiveWorker
    BY <2>1, <2>2
  <2>5. QED
    BY <1>1, <1>13, <2>3, <2>4 DEF Recycle, CountersExact
<1>14. ASSUME NEW w \in Worker, Retire(w)
       PROVE  CountersExact'
  <2>1. IdleWorker' = IdleWorker \ {w} /\ LiveWorker' = LiveWorker \ {w}
    BY <1>14, WorkerMoves DEF Retire, IdleStates, LiveStates
  <2>2. w \notin IdleWorker /\ w \in LiveWorker
    BY <1>14 DEF Retire, IdleWorker, LiveWorker, IdleStates, LiveStates
  <2>3. Cardinality(LiveWorker') = Cardinality(LiveWorker) - 1
    BY <1>1, <2>1, <2>2, CardinalityMinusOne
  <2>4. IdleWorker' = IdleWorker
    BY <2>1, <2>2
  <2>5. QED
    BY <1>1, <1>14, <2>3, <2>4 DEF Retire, CountersExact
<1>15. CASE DtorNotifyAll
  <2>1. IdleWorker' = IdleWorker /\ LiveWorker' = LiveWorker
    BY <1>15 DEF DtorNotifyAll, poolVars, IdleWorker, LiveWorker, IdleStates, LiveStates, Worker
  <2>2. QED
    BY <1>4, <1>15, <2>1 DEF DtorNotifyAll, poolVars
<1>16. CASE DtorStop \/ DtorJoined \/ UNCHANGED vars
  BY <1>3, <1>16 DEF DtorStop, DtorJoined, poolVars, vars
<1>17. QED
  BY <1>5, <1>6, <1>7, <1>9, <1>10, <1>11, <1>12, <1>13, <1>14, <1>15, <1>16
     DEF Next, EnqueueStep, WorkerStep, DtorStep, Terminated
-----------------------------------------------------------------------------
(* Growth and shrinking keep the queue covered and the size in range.        *)
LEMMA CapacityStep ==
  /\ TypeInv /\ CountersExact /\ QueueCovered /\ SizeInRange
  /\ [Next]_vars
  => QueueCovered' /\ SizeInRange'
<1> SUFFICES ASSUME TypeOK, CountersExact, QueueCovered, SizeInRange, [Next]_vars
             PROVE  QueueCovered' /\ SizeInRange'
  BY DEF TypeInv
<1> USE InitThreadNumType DEF QueueCovered, SizeInRange
<1>1. Len(mTaskQueue) \in Nat /\ mIdleThreads \in Nat /\ mActiveThreadNum \in Nat
  BY LenProperties DEF TypeOK
<1>2. CASE UNCHANGED <<mTaskQueue, mIdleThreads, mActiveThreadNum>>
  BY <1>2
<1>3. ASSUME NEW t \in Task, EnqueuePush(t)
      PROVE  QueueCovered' /\ SizeInRange'
  <2>1. Len(mTaskQueue') = Len(mTaskQueue) + 1
    BY <1>3 DEF EnqueuePush, TypeOK
  <2>2. QED
    BY <1>1, <1>3, <2>1 DEF EnqueuePush, addThread
<1>4. ASSUME NEW w \in Worker, TakeTask(w)
      PROVE  QueueCovered' /\ SizeInRange'
  <2>1. Len(mTaskQueue') = Len(mTaskQueue) - 1
    BY <1>4, HeadTailProperties DEF TakeTask, TypeOK
  <2>2. QED
    BY <1>1, <1>4, <2>1 DEF TakeTask
<1>5. ASSUME NEW w \in Worker, Recycle(w)
      PROVE  QueueCovered' /\ SizeInRange'
  BY <1>1, <1>5 DEF Recycle
<1>6. ASSUME NEW w \in Worker, Retire(w)
      PROVE  QueueCovered' /\ SizeInRange'
  \* The worker that leaves is live and not idle, so more than mInitThreadNum
  \* workers are live before it leaves.
  <2>1. mActiveThreadNum >= mIdleThreads + 1
    <3>1. w \notin IdleWorker /\ IdleWorker \cup {w} \in SUBSET LiveWorker
      BY <1>6 DEF Retire, IdleWorker, LiveWorker, IdleStates, LiveStates
    <3>2. Cardinality(IdleWorker \cup {w}) = Cardinality(IdleWorker) + 1
      BY <3>1, WorkerSetsFinite, CardinalityPlusOne
    <3>3. Cardinality(IdleWorker \cup {w}) <= Cardinality(LiveWorker)
      BY <3>1, WorkerSetsFinite, FS_Subset
    <3>4. QED
      BY <3>2, <3>3 DEF CountersExact
  <2>2. QED
    BY <1>1, <1>6, <2>1 DEF Retire, Redundant
<1>7. ASSUME NEW t \in Task,
             \/ ClientCall(t) \/ EnqueueLock(t) \/ EnqueueNotify(t)
             \/ \E w \in mPendingRemoveThreadIds : JoinRetired(t, w)
      PROVE  QueueCovered' /\ SizeInRange'
  BY <1>2, <1>7 DEF ClientCall, EnqueueLock, EnqueueNotify, JoinRetired, poolVars
<1>8. ASSUME NEW w \in Worker,
             \/ Wait(w) \/ SpuriousWakeup(w) \/ LeaveStopped(w)
             \/ TaskReturns(w) \/ ThreadEnds(w)
             \/ \E t \in Task : TaskCall(w, t)
      PROVE  QueueCovered' /\ SizeInRange'
  BY <1>2, <1>8
     DEF Wait, SpuriousWakeup, LeaveStopped, TaskReturns, ThreadEnds, TaskCall, poolVars
<1>9. CASE DtorStop \/ DtorNotifyAll \/ DtorJoined \/ UNCHANGED vars
  BY <1>2, <1>9 DEF DtorStop, DtorNotifyAll, DtorJoined, poolVars, vars
<1>10. QED
  BY <1>3, <1>4, <1>5, <1>6, <1>7, <1>8, <1>9
     DEF Next, EnqueueStep, WorkerStep, DtorStep, Terminated

-----------------------------------------------------------------------------
(* Joining: a worker that left is recorded, and erased only after the join.  *)
LEMMA JoinStep == TypeInv /\ RetiredAreJoined /\ [Next]_vars => RetiredAreJoined'
<1> SUFFICES ASSUME TypeOK, RetiredAreJoined, [Next]_vars
             PROVE  RetiredAreJoined'
  BY DEF TypeInv
<1> USE DEF RetiredAreJoined, Worker
<1>1. CASE UNCHANGED <<mThreadId, mWorkers, mPendingRemoveThreadIds, pc>>
  BY <1>1
<1>2. ASSUME NEW t \in Task, NEW w \in mPendingRemoveThreadIds, JoinRetired(t, w)
      PROVE  RetiredAreJoined'
  BY <1>2 DEF JoinRetired, TypeOK
<1>3. ASSUME NEW t \in Task, EnqueuePush(t)
      PROVE  RetiredAreJoined'
  <2>1. CASE addThread
    <3>1. \A w \in 0 .. mThreadId : w = mThreadId \/ w \in 0 .. mThreadId - 1
      BY DEF TypeOK
    <3>2. mThreadId \notin 0 .. mThreadId - 1 /\ 0 .. mThreadId' - 1 = 0 .. mThreadId
      BY <2>1 DEF TypeOK, addThread
    <3>3. QED
      BY <1>3, <2>1, <3>1, <3>2 DEF addThread, EnqueuePush, TypeOK
  <2>2. CASE UNCHANGED <<mThreadId, mWorkers, pc, cur, mIdleThreads, mActiveThreadNum>>
    BY <1>1, <1>3, <2>2 DEF EnqueuePush
  <2>3. QED
    BY <1>3, <2>1, <2>2 DEF EnqueuePush
<1>4. ASSUME NEW w \in Worker, NEW s \in {"ready", "waiting", "running", "returned", "stopped"},
             pc[w] \in {"ready", "waiting", "running", "returned"},
             pc' = [pc EXCEPT ![w] = s],
             UNCHANGED <<mThreadId, mWorkers, mPendingRemoveThreadIds>>
      PROVE  RetiredAreJoined'
  BY <1>4 DEF TypeOK
<1>5. ASSUME NEW w \in Worker,
             \/ Wait(w) \/ SpuriousWakeup(w) \/ LeaveStopped(w)
             \/ TakeTask(w) \/ TaskReturns(w) \/ Recycle(w)
      PROVE  RetiredAreJoined'
  BY <1>4, <1>5
     DEF Wait, SpuriousWakeup, LeaveStopped, TakeTask, TaskReturns, Recycle, poolVars
<1>6. ASSUME NEW t \in Task, EnqueueNotify(t)
      PROVE  RetiredAreJoined'
  BY <1>1, <1>4, <1>6 DEF EnqueueNotify, poolVars
<1>7. ASSUME NEW w \in Worker, Retire(w) \/ ThreadEnds(w)
      PROVE  RetiredAreJoined'
  BY <1>7 DEF Retire, ThreadEnds, poolVars, TypeOK
<1>8. CASE DtorNotifyAll
  BY <1>8 DEF DtorNotifyAll, poolVars, TypeOK
<1>9. ASSUME NEW t \in Task,
             ClientCall(t) \/ EnqueueLock(t) \/ \E w \in Worker : TaskCall(w, t)
      PROVE  RetiredAreJoined'
  BY <1>1, <1>9 DEF ClientCall, EnqueueLock, TaskCall, poolVars
<1>10. CASE DtorStop \/ DtorJoined \/ UNCHANGED vars
  BY <1>1, <1>10 DEF DtorStop, DtorJoined, poolVars, vars
<1>11. QED
  BY <1>2, <1>3, <1>5, <1>6, <1>7, <1>8, <1>9, <1>10
     DEF Next, EnqueueStep, WorkerStep, DtorStep, Terminated
-----------------------------------------------------------------------------
(* Wake-ups.  Calls that are between queueing and notifying are finitely     *)
(* many, whatever the set of tasks is.                                       *)
WakeInv == IsFiniteSet(Notifying) /\ NoLostWakeup

(* A push adds a notification before the task waits for one; TakeTask takes a *)
(* task and an awake worker together; a worker sleeps only on an empty queue. *)
LEMMA WakeStep == TypeInv /\ WakeInv /\ [Next]_vars => WakeInv'
<1> SUFFICES ASSUME TypeOK, IsFiniteSet(Notifying), NoLostWakeup, [Next]_vars
             PROVE  IsFiniteSet(Notifying') /\ NoLostWakeup'
  BY DEF TypeInv, WakeInv
<1> DEFINE Goal == IsFiniteSet(Notifying') /\ NoLostWakeup'
<1>1. /\ IsFiniteSet(Awake) /\ Cardinality(Awake) \in Nat
      /\ IsFiniteSet(Notifying) /\ Cardinality(Notifying) \in Nat
      /\ Len(mTaskQueue) \in Nat
  BY WorkerSetsFinite, FS_CardinalityType, LenProperties DEF TypeOK
<1>2. ASSUME mTaskQueue' = mTaskQueue, Notifying' = Notifying,
             Waiting' = Waiting, Awake' = Awake
      PROVE  Goal
  BY <1>1, <1>2 DEF NoLostWakeup
<1>3. ASSUME UNCHANGED <<mTaskQueue, mThreadId, pc>>, Notifying' = Notifying
      PROVE  Goal
  BY <1>2, <1>3 DEF Waiting, Awake, Worker
<1>4. ASSUME NEW t \in Task,
             ClientCall(t) \/ EnqueueLock(t) \/ \E w \in Worker : TaskCall(w, t)
      PROVE  Goal
  <2>1. Notifying' = Notifying
    BY <1>4 DEF ClientCall, EnqueueLock, TaskCall, Notifying, TypeOK
  <2>2. QED
    BY <1>3, <1>4, <2>1 DEF ClientCall, EnqueueLock, TaskCall, poolVars
<1>5. ASSUME NEW t \in Task, NEW w \in mPendingRemoveThreadIds, JoinRetired(t, w)
      PROVE  Goal
  BY <1>3, <1>5 DEF JoinRetired, Notifying
<1>6. ASSUME NEW t \in Task, EnqueuePush(t)
      PROVE  Goal
  <2>1. t \notin Notifying /\ Notifying' = Notifying \cup {t}
    BY <1>6 DEF EnqueuePush, Notifying, TypeOK
  <2>2. IsFiniteSet(Notifying') /\ Cardinality(Notifying') = Cardinality(Notifying) + 1
    BY <1>1, <2>1, CardinalityPlusOne
  <2>3. Len(mTaskQueue') = Len(mTaskQueue) + 1
    BY <1>6 DEF EnqueuePush, TypeOK
  <2>4. CASE addThread
    <3>1. Waiting' = Waiting /\ Awake' = Awake \cup {mThreadId} /\ mThreadId \notin Awake
      BY <2>4, WorkerStarts DEF Awake
    <3>2. Cardinality(Awake') = Cardinality(Awake) + 1
      BY <1>1, <3>1, CardinalityPlusOne
    <3>3. QED
      BY <1>1, <2>2, <2>3, <3>1, <3>2 DEF NoLostWakeup
  <2>5. CASE UNCHANGED <<mThreadId, mWorkers, pc, cur, mIdleThreads, mActiveThreadNum>>
    <3>1. Waiting' = Waiting /\ Awake' = Awake
      BY <2>5 DEF Waiting, Awake, Worker
    <3>2. QED
      BY <1>1, <2>2, <2>3, <3>1 DEF NoLostWakeup
  <2>6. QED
    BY <1>6, <2>4, <2>5 DEF EnqueuePush
<1>7. ASSUME NEW t \in Task, EnqueueNotify(t)
      PROVE  Goal
  <2>1. t \in Notifying /\ Notifying' = Notifying \ {t}
    BY <1>7 DEF EnqueueNotify, Notifying, TypeOK
  <2>2. IsFiniteSet(Notifying') /\ Cardinality(Notifying') = Cardinality(Notifying) - 1
    BY <1>1, <2>1, CardinalityMinusOne
  <2>3. ASSUME NEW w \in Worker, pc[w] = "waiting", pc' = [pc EXCEPT ![w] = "ready"]
        PROVE  Goal
    <3>1. Waiting # {} /\ w \notin Awake
      BY <2>3 DEF Waiting, Awake
    <3>2. Awake' = Awake \cup {w} /\ mTaskQueue' = mTaskQueue
      BY <1>7, <2>3, WorkerMoves DEF EnqueueNotify, poolVars
    <3>3. Cardinality(Awake') = Cardinality(Awake) + 1
      BY <1>1, <3>1, <3>2, CardinalityPlusOne
    <3>4. QED
      BY <1>1, <2>2, <3>1, <3>2, <3>3 DEF NoLostWakeup
  <2>4. CASE (\A w \in Worker : pc[w] # "waiting") /\ UNCHANGED pc
    <3>1. Waiting' = {}
      BY <1>7, <2>4 DEF EnqueueNotify, poolVars, Waiting, Worker
    <3>2. QED
      BY <2>2, <3>1 DEF NoLostWakeup
  <2>5. QED
    BY <1>7, <2>3, <2>4 DEF EnqueueNotify
<1>8. ASSUME NEW w \in Worker, Wait(w) \/ LeaveStopped(w)
      PROVE  Goal
  <2>1. Len(mTaskQueue') = 0 /\ Notifying' = Notifying
    BY <1>8 DEF Wait, LeaveStopped, poolVars, Notifying
  <2>2. w \in Awake /\ Awake' = Awake \ {w}
    BY <1>8, WorkerMoves DEF Wait, LeaveStopped, poolVars, Awake
  <2>3. Cardinality(Awake') \in Nat
    BY <1>1, <2>2, FS_RemoveElement, FS_CardinalityType
  <2>4. QED
    BY <1>1, <2>1, <2>3 DEF NoLostWakeup
<1>9. ASSUME NEW w \in Worker, SpuriousWakeup(w) \/ Recycle(w)
      PROVE  Goal
  <2>1. w \notin Awake /\ Awake' = Awake \cup {w} /\ Waiting' = Waiting \ {w}
    BY <1>9, WorkerMoves DEF SpuriousWakeup, Recycle, poolVars, Awake
  <2>2. Cardinality(Awake') = Cardinality(Awake) + 1
    BY <1>1, <2>1, CardinalityPlusOne
  <2>3. Notifying' = Notifying /\ mTaskQueue' = mTaskQueue
    BY <1>9 DEF SpuriousWakeup, Recycle, poolVars, Notifying
  <2>4. QED
    BY <1>1, <2>1, <2>2, <2>3 DEF NoLostWakeup
<1>10. ASSUME NEW w \in Worker, TakeTask(w)
       PROVE  Goal
  <2>1. Awake' = Awake \ {w} /\ Waiting' = Waiting \ {w}
    <3>1. pc' = [pc EXCEPT ![w] = "running"] /\ mThreadId' = mThreadId
      BY <1>10 DEF TakeTask
    <3>2. /\ Awake' = IF "running" = "ready" THEN Awake \cup {w} ELSE Awake \ {w}
          /\ Waiting' = IF "running" = "waiting" THEN Waiting \cup {w} ELSE Waiting \ {w}
      BY <3>1, WorkerMoves
    <3>3. QED
      BY <3>2
  <2>2. Cardinality(Awake') = Cardinality(Awake) - 1
    <3>1. w \in Awake
      BY <1>10 DEF TakeTask, Awake
    <3>2. QED
      BY <1>1, <2>1, <3>1, CardinalityMinusOne
  <2>3. Notifying' = Notifying /\ Len(mTaskQueue') = Len(mTaskQueue) - 1
    BY <1>10, HeadTailProperties DEF TakeTask, Notifying, TypeOK
  <2>4. QED
    BY <1>1, <2>1, <2>2, <2>3 DEF NoLostWakeup
<1>11. ASSUME NEW w \in Worker, TaskReturns(w) \/ Retire(w) \/ ThreadEnds(w)
       PROVE  Goal
  <2>1. Awake' = Awake \ {w} /\ Waiting' = Waiting \ {w}
    BY <1>11, WorkerMoves DEF TaskReturns, Retire, ThreadEnds, poolVars
  <2>2. w \notin Awake /\ w \notin Waiting
    BY <1>11 DEF TaskReturns, Retire, ThreadEnds, Awake, Waiting
  <2>3. Awake' = Awake /\ Waiting' = Waiting
    BY <2>1, <2>2
  <2>4. Notifying' = Notifying /\ mTaskQueue' = mTaskQueue
    BY <1>11 DEF TaskReturns, Retire, ThreadEnds, poolVars, Notifying
  <2>5. QED
    BY <1>2, <2>3, <2>4
<1>12. CASE DtorNotifyAll
  <2>1. Waiting' = {} /\ Notifying' = Notifying
    BY <1>12 DEF DtorNotifyAll, poolVars, Waiting, Worker, Notifying
  <2>2. QED
    BY <1>1, <2>1 DEF NoLostWakeup
<1>13. CASE DtorStop \/ DtorJoined \/ UNCHANGED vars
  BY <1>3, <1>13 DEF DtorStop, DtorJoined, poolVars, vars, Notifying
<1>14. QED
  BY <1>4, <1>5, <1>6, <1>7, <1>8, <1>9, <1>10, <1>11, <1>12, <1>13
     DEF Next, EnqueueStep, WorkerStep, DtorStep, Terminated

-----------------------------------------------------------------------------
(* The inductive invariant: the counters must be exact for them to stay      *)
(* natural numbers, and for the shrinking rule to keep the pool's minimum.   *)
IInv ==
  /\ TypeInv
  /\ CountersExact
  /\ QueueCovered
  /\ SizeInRange
  /\ RetiredAreJoined
  /\ WakeInv

(* The constructor establishes the inductive invariant.                      *)
LEMMA IInvInit == Init => IInv
<1> SUFFICES ASSUME Init PROVE IInv
  OBVIOUS
<1> USE InitThreadNumType, PoolAssumption
<1>1. TypeInv
  <2>1. /\ mThreadId \in Nat /\ mIdleThreads \in Nat /\ mActiveThreadNum \in Nat
        /\ mWorkers \subseteq Worker /\ mPendingRemoveThreadIds \subseteq Worker
    BY DEF Init, Worker
  <2>2. pc \in [Worker -> WorkerState] /\ cur \in [Worker -> Task \cup {NoTask}]
    BY DEF Init, Worker, WorkerState
  <2>3. BusyHasTask
    BY DEF Init, BusyHasTask, Worker
  <2>4. mStop \in BOOLEAN
    BY DEF Init
  <2>5. /\ mTaskQueue \in Seq(Task) /\ stage \in [Task -> CallStage]
        /\ done \subseteq Task /\ dtor \in {"none", "stopping", "joining", "destroyed"}
    BY DEF Init, CallStage
  <2>6. QED
    BY <2>1, <2>2, <2>3, <2>4, <2>5 DEF TypeInv, TypeOK
<1>2. CountersExact
  <2>1. IdleWorker = 0 .. mInitThreadNum - 1 /\ LiveWorker = 0 .. mInitThreadNum - 1
    BY DEF Init, IdleWorker, LiveWorker, IdleStates, LiveStates, Worker
  <2>2. Cardinality(0 .. mInitThreadNum - 1) = mInitThreadNum
    BY FS_Interval
  <2>3. QED
    BY <2>1, <2>2 DEF Init, CountersExact
<1>3. QueueCovered /\ SizeInRange
  BY DEF Init, QueueCovered, SizeInRange
<1>4. RetiredAreJoined
  BY DEF Init, RetiredAreJoined, Worker
<1>5. WakeInv
  <2>1. Notifying = {} /\ Waiting = {}
    BY DEF Init, Notifying, Waiting, Worker
  <2>2. QED
    BY <2>1, FS_EmptySet DEF WakeInv, NoLostWakeup
<1>6. QED
  BY <1>1, <1>2, <1>3, <1>4, <1>5 DEF IInv

(* Every step of a client, a worker or the destructor preserves it.          *)
LEMMA IInvStep == IInv /\ [Next]_vars => IInv'
BY TypeStep, CountersStep, CapacityStep, JoinStep, WakeStep DEF IInv

(* Hence it holds in every state of the pool.                                *)
LEMMA IInvAlways == Spec => []IInv
BY IInvInit, IInvStep, PTL DEF Spec

(* loop, enqueue, addThread and the destructor keep every variable in its    *)
(* type; the unsigned counters mIdleThreads and mActiveThreadNum never wrap. *)
THEOREM TypeCorrect == Spec => []TypeOK
<1>1. IInv => TypeOK
  BY DEF IInv, TypeInv
<1>2. QED
  BY <1>1, IInvAlways, PTL

(* mIdleThreads and mActiveThreadNum count the idle and the live workers.    *)
THEOREM CountersCorrect == Spec => []CountersExact
<1>1. IInv => CountersExact
  BY DEF IInv
<1>2. QED
  BY <1>1, IInvAlways, PTL

(* The rules of enqueue and loop for adding and releasing workers leave a    *)
(* task without an idle worker only when the pool has its maximum size.      *)
THEOREM CapacityCorrect == Spec => [](QueueCovered /\ SizeInRange)
<1>1. IInv => QueueCovered /\ SizeInRange
  BY DEF IInv
<1>2. QED
  BY <1>1, IInvAlways, PTL

(* Notifying after mMutex was released loses no wake-up.                     *)
THEOREM WakeupsCorrect == Spec => []NoLostWakeup
<1>1. IInv => NoLostWakeup
  BY DEF IInv, WakeInv
<1>2. QED
  BY <1>1, IInvAlways, PTL

(* Every worker that leaves is joined before its thread object is destroyed. *)
THEOREM JoinsCorrect == Spec => []RetiredAreJoined
<1>1. IInv => RetiredAreJoined
  BY DEF IInv
<1>2. QED
  BY <1>1, IInvAlways, PTL

-----------------------------------------------------------------------------
(* The pool implements TaskExecutor.                                         *)

RunningWorker == {v \in Worker : pc[v] = "running"}
Running == {cur[w] : w \in RunningWorker}

(* Each accepted task is at one place: queued once or run by one worker.     *)
PlaceInv ==
  /\ Distinct(mTaskQueue)
  /\ \A t \in Elems(mTaskQueue) \cup Running \cup done : stage[t] \in {"notify", "accepted"}
  /\ Elems(mTaskQueue) \cap Running = {}
  /\ \A v, w \in RunningWorker : cur[v] = cur[w] => v = w

(* mStop is set by the destructor alone, never while enqueue holds mMutex;   *)
(* workers that have left because of it have left no task behind.            *)
StopInv ==
  /\ mStop <=> dtor # "none"
  /\ \A t \in Task : stage[t] = "locked" => ~mStop
  /\ \A w \in Worker : pc[w] = "stopped" => mStop /\ mTaskQueue = <<>>

(* The tasks that run stay the same, and with the same workers.              *)
RunsKept ==
  RunningWorker' = RunningWorker /\ \A w \in RunningWorker : cur'[w] = cur[w]

(* It is so when one worker moves elsewhere.                                 *)
LEMMA OneMoves ==
  ASSUME TypeInv, NEW w \in Worker, NEW s, pc' = [pc EXCEPT ![w] = s], s # "running",
         pc[w] # "running", UNCHANGED <<mThreadId, cur>>
  PROVE  RunsKept
BY DEF TypeInv, TypeOK, RunsKept, RunningWorker, Worker

(* And when a worker starts.                                                 *)
LEMMA OneStarts ==
  ASSUME TypeInv, addThread
  PROVE  RunsKept
BY DEF TypeInv, TypeOK, RunsKept, RunningWorker, Worker, addThread

LEMMA SameRunning == RunsKept => Running' = Running
BY DEF RunsKept, Running


(* Only a worker that takes a task or returns from one changes what runs.    *)
LEMMA RunsStep ==
  ASSUME TypeInv, [Next]_vars, \A w \in Worker : ~TakeTask(w) /\ ~TaskReturns(w)
  PROVE  RunsKept
<1>1. ASSUME NEW t \in Task, ClientCall(t)
      PROVE  RunsKept
  BY <1>1 DEF ClientCall, poolVars, RunsKept, RunningWorker, Worker
<1>2. ASSUME NEW t \in Task, EnqueueLock(t)
      PROVE  RunsKept
  BY <1>2 DEF EnqueueLock, poolVars, RunsKept, RunningWorker, Worker
<1>3. ASSUME NEW t \in Task, NEW w \in mPendingRemoveThreadIds, JoinRetired(t, w)
      PROVE  RunsKept
  BY <1>3 DEF JoinRetired, poolVars, RunsKept, RunningWorker, Worker
<1>4. ASSUME NEW t \in Task, EnqueuePush(t)
      PROVE  RunsKept
  <2>1. CASE addThread
    BY <2>1, OneStarts
  <2>2. CASE UNCHANGED <<mThreadId, pc, cur>>
    BY <2>2 DEF RunsKept, RunningWorker, Worker
  <2>3. QED
    BY <1>4, <2>1, <2>2 DEF EnqueuePush
<1>5. ASSUME NEW t \in Task, EnqueueNotify(t)
      PROVE  RunsKept
  <2>1. CASE UNCHANGED pc
    BY <1>5, <2>1 DEF EnqueueNotify, poolVars, RunsKept, RunningWorker, Worker
  <2>2. CASE \E w \in Worker : pc[w] = "waiting" /\ pc' = [pc EXCEPT ![w] = "ready"]
    BY <1>5, <2>2, OneMoves DEF EnqueueNotify, poolVars
  <2>3. QED
    BY <1>5, <2>1, <2>2 DEF EnqueueNotify
<1>6. ASSUME NEW w \in Worker, Wait(w)
      PROVE  RunsKept
  BY <1>6, OneMoves DEF Wait, poolVars
<1>7. ASSUME NEW w \in Worker, LeaveStopped(w)
      PROVE  RunsKept
  BY <1>7, OneMoves DEF LeaveStopped, poolVars
<1>8. ASSUME NEW w \in Worker, NEW t \in Task, TaskCall(w, t)
      PROVE  RunsKept
  BY <1>8 DEF TaskCall, poolVars, RunsKept, RunningWorker, Worker
<1>9. ASSUME NEW w \in Worker, Recycle(w)
      PROVE  RunsKept
  BY <1>9, OneMoves DEF Recycle, poolVars
<1>10. ASSUME NEW w \in Worker, Retire(w)
      PROVE  RunsKept
  BY <1>10, OneMoves DEF Retire, poolVars
<1>11. ASSUME NEW w \in Worker, ThreadEnds(w)
      PROVE  RunsKept
  BY <1>11, OneMoves DEF ThreadEnds, poolVars
<1>12. ASSUME NEW w \in Worker, SpuriousWakeup(w)
      PROVE  RunsKept
  BY <1>12, OneMoves DEF SpuriousWakeup, poolVars
<1>13. ASSUME DtorStop
      PROVE  RunsKept
  BY <1>13 DEF DtorStop, poolVars, RunsKept, RunningWorker, Worker
<1>14. ASSUME DtorNotifyAll
      PROVE  RunsKept
  BY <1>14 DEF DtorNotifyAll, poolVars, RunsKept, RunningWorker, Worker, TypeInv, TypeOK
<1>15. ASSUME DtorJoined
      PROVE  RunsKept
  BY <1>15 DEF DtorJoined, poolVars, RunsKept, RunningWorker, Worker
<1>16. CASE UNCHANGED vars
  BY <1>16 DEF vars, RunsKept, RunningWorker, Worker
<1>17. QED
  BY <1>1, <1>2, <1>3, <1>4, <1>5, <1>6, <1>7, <1>8, <1>9,
     <1>10, <1>11, <1>12, <1>13, <1>14, <1>15, <1>16 DEF Next, EnqueueStep, WorkerStep, DtorStep, Terminated


(* A worker takes the head of the queue.                                     *)
LEMMA TakeFacts ==
  ASSUME TypeInv, NEW w \in Worker, TakeTask(w)
  PROVE  /\ Head(mTaskQueue) \in Task /\ w \notin RunningWorker
         /\ RunningWorker' = RunningWorker \cup {w}
         /\ cur'[w] = Head(mTaskQueue) /\ \A v \in RunningWorker : cur'[v] = cur[v]
         /\ Running' = Running \cup {Head(mTaskQueue)}
<1>1. Head(mTaskQueue) \in Task
  BY DEF TakeTask, TypeInv, TypeOK
<1>2. /\ w \notin RunningWorker /\ RunningWorker' = RunningWorker \cup {w}
      /\ cur'[w] = Head(mTaskQueue) /\ \A v \in RunningWorker : cur'[v] = cur[v]
  BY <1>1 DEF TakeTask, TypeInv, TypeOK, RunningWorker, Worker
<1>3. QED
  BY <1>1, <1>2 DEF Running

(* A worker returns from its task, which nobody else runs.                   *)
LEMMA ReturnFacts ==
  ASSUME TypeInv, PlaceInv, NEW w \in Worker, TaskReturns(w)
  PROVE  /\ w \in RunningWorker /\ cur[w] \in Running /\ cur[w] \in Task
         /\ RunningWorker' = RunningWorker \ {w}
         /\ \A v \in RunningWorker \ {w} : cur'[v] = cur[v]
         /\ Running' = Running \ {cur[w]} /\ done' = done \cup {cur[w]}
<1>1. /\ w \in RunningWorker /\ RunningWorker' = RunningWorker \ {w}
      /\ \A v \in RunningWorker \ {w} : cur'[v] = cur[v]
  BY DEF TaskReturns, TypeInv, TypeOK, RunningWorker, Worker, poolVars
<1>2. Running' = Running \ {cur[w]}
  BY <1>1 DEF Running, PlaceInv
<1>3. cur[w] \in Running /\ cur[w] \in Task /\ done' = done \cup {cur[w]}
  BY <1>1 DEF Running, RunningWorker, TaskReturns, TypeInv, BusyHasTask
<1>4. QED
  BY <1>1, <1>2, <1>3

(* A step that neither queues, starts nor ends a task.                       *)
LEMMA PlaceKept ==
  ASSUME TypeInv, PlaceInv, RunsKept, UNCHANGED <<mTaskQueue, done>>,
         \A t \in Task : stage[t] \in {"notify", "accepted"} => stage'[t] \in {"notify", "accepted"}
  PROVE  PlaceInv'
<1>1. Running' = Running /\ Elems(mTaskQueue)' = Elems(mTaskQueue)
  BY SameRunning DEF Elems
<1>2. Elems(mTaskQueue) \cup Running \cup done \subseteq Task
  BY DEF Elems, Running, RunningWorker, TypeInv, TypeOK, BusyHasTask
<1>3. QED
  BY <1>1, <1>2 DEF PlaceInv, RunsKept, Distinct


(* Nor do the other steps touch the queue.                                   *)
LEMMA OthersKeep ==
  ASSUME TypeInv, [Next]_vars, \A w \in Worker : ~TakeTask(w) /\ ~TaskReturns(w), \A t \in Task : ~EnqueuePush(t)
  PROVE  /\ UNCHANGED <<mTaskQueue, done>>
         /\ \A u \in Task : stage[u] \in {"notify", "accepted"} => stage'[u] \in {"notify", "accepted"}
<1>1. ASSUME NEW t \in Task, ClientCall(t)
      PROVE  /\ UNCHANGED <<mTaskQueue, done>>
         /\ \A u \in Task : stage[u] \in {"notify", "accepted"} => stage'[u] \in {"notify", "accepted"}
  BY <1>1 DEF ClientCall, poolVars, TypeInv, TypeOK
<1>2. ASSUME NEW t \in Task, EnqueueLock(t)
      PROVE  /\ UNCHANGED <<mTaskQueue, done>>
         /\ \A u \in Task : stage[u] \in {"notify", "accepted"} => stage'[u] \in {"notify", "accepted"}
  BY <1>2 DEF EnqueueLock, poolVars, TypeInv, TypeOK
<1>3. ASSUME NEW t \in Task, NEW w \in mPendingRemoveThreadIds, JoinRetired(t, w)
      PROVE  /\ UNCHANGED <<mTaskQueue, done>>
         /\ \A u \in Task : stage[u] \in {"notify", "accepted"} => stage'[u] \in {"notify", "accepted"}
  BY <1>3 DEF JoinRetired, poolVars, TypeInv, TypeOK
<1>4. ASSUME NEW t \in Task, EnqueueNotify(t)
      PROVE  /\ UNCHANGED <<mTaskQueue, done>>
         /\ \A u \in Task : stage[u] \in {"notify", "accepted"} => stage'[u] \in {"notify", "accepted"}
  <2>1. UNCHANGED <<mTaskQueue, done>> /\ stage[t] # "rejected" /\ stage' = [stage EXCEPT ![t] = "accepted"]
    BY <1>4 DEF EnqueueNotify, poolVars
  <2>2. QED
    BY <2>1 DEF TypeInv, TypeOK
<1>5. ASSUME NEW w \in Worker, Wait(w)
      PROVE  /\ UNCHANGED <<mTaskQueue, done>>
         /\ \A u \in Task : stage[u] \in {"notify", "accepted"} => stage'[u] \in {"notify", "accepted"}
  BY <1>5 DEF Wait, poolVars, TypeInv, TypeOK
<1>6. ASSUME NEW w \in Worker, LeaveStopped(w)
      PROVE  /\ UNCHANGED <<mTaskQueue, done>>
         /\ \A u \in Task : stage[u] \in {"notify", "accepted"} => stage'[u] \in {"notify", "accepted"}
  BY <1>6 DEF LeaveStopped, poolVars, TypeInv, TypeOK
<1>7. ASSUME NEW w \in Worker, NEW t \in Task, TaskCall(w, t)
      PROVE  /\ UNCHANGED <<mTaskQueue, done>>
         /\ \A u \in Task : stage[u] \in {"notify", "accepted"} => stage'[u] \in {"notify", "accepted"}
  BY <1>7 DEF TaskCall, poolVars, TypeInv, TypeOK
<1>8. ASSUME NEW w \in Worker, Recycle(w)
      PROVE  /\ UNCHANGED <<mTaskQueue, done>>
         /\ \A u \in Task : stage[u] \in {"notify", "accepted"} => stage'[u] \in {"notify", "accepted"}
  BY <1>8 DEF Recycle, poolVars, TypeInv, TypeOK
<1>9. ASSUME NEW w \in Worker, Retire(w)
      PROVE  /\ UNCHANGED <<mTaskQueue, done>>
         /\ \A u \in Task : stage[u] \in {"notify", "accepted"} => stage'[u] \in {"notify", "accepted"}
  BY <1>9 DEF Retire, poolVars, TypeInv, TypeOK
<1>10. ASSUME NEW w \in Worker, ThreadEnds(w)
      PROVE  /\ UNCHANGED <<mTaskQueue, done>>
         /\ \A u \in Task : stage[u] \in {"notify", "accepted"} => stage'[u] \in {"notify", "accepted"}
  BY <1>10 DEF ThreadEnds, poolVars, TypeInv, TypeOK
<1>11. ASSUME NEW w \in Worker, SpuriousWakeup(w)
      PROVE  /\ UNCHANGED <<mTaskQueue, done>>
         /\ \A u \in Task : stage[u] \in {"notify", "accepted"} => stage'[u] \in {"notify", "accepted"}
  BY <1>11 DEF SpuriousWakeup, poolVars, TypeInv, TypeOK
<1>12. ASSUME DtorStop
      PROVE  /\ UNCHANGED <<mTaskQueue, done>>
         /\ \A u \in Task : stage[u] \in {"notify", "accepted"} => stage'[u] \in {"notify", "accepted"}
  BY <1>12 DEF DtorStop, poolVars, TypeInv, TypeOK
<1>13. ASSUME DtorNotifyAll
      PROVE  /\ UNCHANGED <<mTaskQueue, done>>
         /\ \A u \in Task : stage[u] \in {"notify", "accepted"} => stage'[u] \in {"notify", "accepted"}
  BY <1>13 DEF DtorNotifyAll, poolVars, TypeInv, TypeOK
<1>14. ASSUME DtorJoined
      PROVE  /\ UNCHANGED <<mTaskQueue, done>>
         /\ \A u \in Task : stage[u] \in {"notify", "accepted"} => stage'[u] \in {"notify", "accepted"}
  BY <1>14 DEF DtorJoined, poolVars, TypeInv, TypeOK
<1>15. CASE UNCHANGED vars
  BY <1>15 DEF vars
<1>16. QED
  BY <1>1, <1>2, <1>3, <1>4, <1>5, <1>6, <1>7, <1>8, <1>9,
     <1>10, <1>11, <1>12, <1>13, <1>14, <1>15 DEF Next, EnqueueStep, WorkerStep, DtorStep, Terminated


(* Every step keeps each task at one place.                                  *)
LEMMA PlaceStep == TypeInv /\ PlaceInv /\ [Next]_vars => PlaceInv'
<1> SUFFICES ASSUME TypeInv, PlaceInv, [Next]_vars
             PROVE  PlaceInv'
  OBVIOUS
<1>1. ASSUME NEW w \in Worker, TakeTask(w)
      PROVE  PlaceInv'
  <2>1. mTaskQueue \in Seq(Task) /\ mTaskQueue # <<>> /\ mTaskQueue' = Tail(mTaskQueue)
    BY <1>1 DEF TakeTask, TypeInv, TypeOK
  <2>2. /\ Head(mTaskQueue) \in Elems(mTaskQueue) /\ Distinct(mTaskQueue')
        /\ Elems(mTaskQueue') = Elems(mTaskQueue) \ {Head(mTaskQueue)}
    BY <2>1, TailDistinct DEF PlaceInv
  <2>3. UNCHANGED <<stage, done>>
    BY <1>1 DEF TakeTask
  <2>4. \A v \in RunningWorker : cur[v] # Head(mTaskQueue)
    BY <2>2 DEF PlaceInv, Running
  <2>5. \A u, v \in RunningWorker' : cur'[u] = cur'[v] => u = v
    BY <1>1, <2>4, TakeFacts DEF PlaceInv
  <2>6. QED
    BY <1>1, <2>2, <2>3, <2>5, TakeFacts DEF PlaceInv
<1>2. ASSUME NEW w \in Worker, TaskReturns(w)
      PROVE  PlaceInv'
  <2>1. UNCHANGED <<stage, mTaskQueue>>
    BY <1>2 DEF TaskReturns, poolVars
  <2>2. Elems(mTaskQueue') = Elems(mTaskQueue) /\ Distinct(mTaskQueue')
    BY <2>1 DEF Elems, Distinct, PlaceInv
  <2>3. QED
    BY <1>2, <2>1, <2>2, ReturnFacts DEF PlaceInv
<1>3. ASSUME NEW t \in Task, EnqueuePush(t), RunsKept
      PROVE  PlaceInv'
  <2>1. /\ stage[t] = "locked" /\ stage' = [stage EXCEPT ![t] = "notify"] /\ done' = done
        /\ mTaskQueue' = Append(mTaskQueue, t) /\ mTaskQueue \in Seq(Task)
    BY <1>3 DEF EnqueuePush, TypeInv, TypeOK
  <2>2. t \notin Elems(mTaskQueue) \cup Running \cup done
    BY <2>1 DEF PlaceInv
  <2>3. Distinct(mTaskQueue') /\ Elems(mTaskQueue') = Elems(mTaskQueue) \cup {t}
    BY <2>1, <2>2, AppendDistinct DEF PlaceInv
  <2>4. Running' = Running /\ stage'[t] = "notify" /\ \A u \in Task \ {t} : stage'[u] = stage[u]
    BY <1>3, <2>1, SameRunning DEF TypeInv, TypeOK
  <2>5. Elems(mTaskQueue) \cup Running \cup done \subseteq Task
    BY DEF Elems, Running, RunningWorker, TypeInv, TypeOK, BusyHasTask
  <2>6. \A u \in Elems(mTaskQueue') \cup Running' \cup done' : stage'[u] \in {"notify", "accepted"}
    BY <2>1, <2>2, <2>3, <2>4, <2>5 DEF PlaceInv
  <2>7. Elems(mTaskQueue') \cap Running' = {}
    BY <2>2, <2>3, <2>4 DEF PlaceInv
  <2>8. \A v, w \in RunningWorker' : cur'[v] = cur'[w] => v = w
    BY <1>3 DEF PlaceInv, RunsKept
  <2>9. QED
    BY <2>3, <2>6, <2>7, <2>8 DEF PlaceInv
<1>4. ASSUME \A w \in Worker : ~TakeTask(w) /\ ~TaskReturns(w), \A t \in Task : ~EnqueuePush(t)
      PROVE  PlaceInv'
  BY <1>4, RunsStep, OthersKeep, PlaceKept
<1>5. QED
  BY <1>1, <1>2, <1>3, <1>4, RunsStep


(* Only the destructor stops the pool, and the queue is drained first.       *)
LEMMA StopStep ==
  ASSUME TypeInv, StopInv, [Next]_vars
  PROVE  StopInv'
<1>1. ASSUME NEW t \in Task, ClientCall(t)
      PROVE  StopInv'
  BY <1>1 DEF ClientCall, poolVars, MutexFree, StopInv, TypeInv, TypeOK, Worker
<1>2. ASSUME NEW t \in Task, EnqueueLock(t)
      PROVE  StopInv'
  BY <1>2 DEF EnqueueLock, poolVars, MutexFree, StopInv, TypeInv, TypeOK, Worker
<1>3. ASSUME NEW t \in Task, NEW w \in mPendingRemoveThreadIds, JoinRetired(t, w)
      PROVE  StopInv'
  BY <1>3 DEF JoinRetired, poolVars, MutexFree, StopInv, TypeInv, TypeOK, Worker
<1>4. ASSUME NEW t \in Task, EnqueuePush(t)
      PROVE  StopInv'
  <2>1. ~mStop /\ \A w \in Worker : pc[w] # "stopped"
    BY <1>4 DEF EnqueuePush, StopInv
  <2>2. \A w \in Worker' : pc'[w] # "stopped"
    BY <1>4, <2>1 DEF EnqueuePush, addThread, Worker, TypeInv, TypeOK
  <2>3. QED
    BY <1>4, <2>1, <2>2 DEF EnqueuePush, StopInv, TypeInv, TypeOK
<1>5. ASSUME NEW t \in Task, EnqueueNotify(t)
      PROVE  StopInv'
  BY <1>5 DEF EnqueueNotify, poolVars, MutexFree, StopInv, TypeInv, TypeOK, Worker
<1>6. ASSUME NEW w \in Worker, Wait(w)
      PROVE  StopInv'
  BY <1>6 DEF Wait, poolVars, MutexFree, StopInv, TypeInv, TypeOK, Worker
<1>7. ASSUME NEW w \in Worker, LeaveStopped(w)
      PROVE  StopInv'
  BY <1>7 DEF LeaveStopped, poolVars, MutexFree, StopInv, TypeInv, TypeOK, Worker
<1>8. ASSUME NEW w \in Worker, TakeTask(w)
      PROVE  StopInv'
  BY <1>8 DEF TakeTask, poolVars, MutexFree, StopInv, TypeInv, TypeOK, Worker
<1>9. ASSUME NEW w \in Worker, NEW t \in Task, TaskCall(w, t)
      PROVE  StopInv'
  BY <1>9 DEF TaskCall, poolVars, MutexFree, StopInv, TypeInv, TypeOK, Worker
<1>10. ASSUME NEW w \in Worker, TaskReturns(w)
      PROVE  StopInv'
  BY <1>10 DEF TaskReturns, poolVars, MutexFree, StopInv, TypeInv, TypeOK, Worker
<1>11. ASSUME NEW w \in Worker, Recycle(w)
      PROVE  StopInv'
  BY <1>11 DEF Recycle, poolVars, MutexFree, StopInv, TypeInv, TypeOK, Worker
<1>12. ASSUME NEW w \in Worker, Retire(w)
      PROVE  StopInv'
  BY <1>12 DEF Retire, poolVars, MutexFree, StopInv, TypeInv, TypeOK, Worker
<1>13. ASSUME NEW w \in Worker, ThreadEnds(w)
      PROVE  StopInv'
  BY <1>13 DEF ThreadEnds, poolVars, MutexFree, StopInv, TypeInv, TypeOK, Worker
<1>14. ASSUME NEW w \in Worker, SpuriousWakeup(w)
      PROVE  StopInv'
  BY <1>14 DEF SpuriousWakeup, poolVars, MutexFree, StopInv, TypeInv, TypeOK, Worker
<1>15. ASSUME DtorStop
      PROVE  StopInv'
  BY <1>15 DEF DtorStop, poolVars, MutexFree, StopInv, TypeInv, TypeOK, Worker
<1>16. ASSUME DtorNotifyAll
      PROVE  StopInv'
  BY <1>16 DEF DtorNotifyAll, poolVars, MutexFree, StopInv, TypeInv, TypeOK, Worker
<1>17. ASSUME DtorJoined
      PROVE  StopInv'
  BY <1>17 DEF DtorJoined, poolVars, MutexFree, StopInv, TypeInv, TypeOK, Worker
<1>18. CASE UNCHANGED vars
  BY <1>18 DEF vars, StopInv, Worker
<1>19. QED
  BY <1>1, <1>2, <1>3, <1>4, <1>5, <1>6, <1>7, <1>8, <1>9,
     <1>10, <1>11, <1>12, <1>13, <1>14, <1>15, <1>16, <1>17, <1>18 DEF Next, EnqueueStep, WorkerStep, DtorStep, Terminated


-----------------------------------------------------------------------------
(* Fewer than MaxThreadNum tasks run while a worker is ready.                *)
LEMMA ReadyLeavesRoom ==
  ASSUME IInv, NEW w \in Worker, pc[w] = "ready"
  PROVE  Cardinality(Running) < MaxThreadNum
<1> USE DEF IInv
<1>1. /\ IsFiniteSet(LiveWorker) /\ Cardinality(LiveWorker) \in Nat
      /\ Cardinality(LiveWorker) <= MaxThreadNum /\ w \in LiveWorker
  BY WorkerSetsFinite, InitThreadNumType
     DEF TypeInv, TypeOK, CountersExact, SizeInRange, LiveWorker, LiveStates
<1>2. RunningWorker \in SUBSET (LiveWorker \ {w})
  BY DEF RunningWorker, LiveWorker, LiveStates
<1>3. IsFiniteSet(LiveWorker \ {w}) /\ Cardinality(LiveWorker \ {w}) = Cardinality(LiveWorker) - 1
  BY <1>1, FS_RemoveElement
<1>4. /\ IsFiniteSet(RunningWorker) /\ Cardinality(RunningWorker) \in Nat
      /\ Cardinality(RunningWorker) <= Cardinality(LiveWorker) - 1
  <2>1. IsFiniteSet(RunningWorker) /\ Cardinality(RunningWorker) <= Cardinality(LiveWorker \ {w})
    BY <1>2, <1>3, FS_Subset
  <2>2. QED
    BY <1>3, <2>1, FS_CardinalityType
<1>5. IsFiniteSet(Running) /\ Cardinality(Running) <= Cardinality(RunningWorker)
  <2> DEFINE g == [v \in RunningWorker |-> cur[v]]
  <2>1. g \in [RunningWorker -> Running] /\ \A t \in Running : \E v \in RunningWorker : g[v] = t
    BY DEF Running
  <2> HIDE DEF g
  <2>2. g \in Surjection(RunningWorker, Running)
    BY <2>1, Fun_IsSurj
  <2>3. QED
    BY <1>4, <2>2, FS_Surjection
<1>6. Cardinality(Running) \in Nat
  BY <1>5, FS_CardinalityType
<1>7. QED
  BY <1>1, <1>4, <1>5, <1>6, InitThreadNumType

(* Once all threads can be joined, nothing is queued or runs.                *)
LEMMA JoinedIsDrained ==
  ASSUME IInv, StopInv, DtorJoined
  PROVE  mTaskQueue = <<>> /\ Running = {}
<1>1. \A w \in Worker : pc[w] \in {"retired", "stopped"}
  BY DEF DtorJoined, IInv, RetiredAreJoined
<1>2. Running = {}
  BY <1>1 DEF Running, RunningWorker
<1>3. CASE \E w \in Worker : pc[w] = "stopped"
  BY <1>2, <1>3 DEF StopInv
<1>4. CASE \A w \in Worker : pc[w] # "stopped"
  <2>1. IdleWorker = {} /\ LiveWorker = {}
    BY <1>1, <1>4 DEF IdleWorker, LiveWorker, IdleStates, LiveStates
  <2>2. mIdleThreads = 0 /\ mActiveThreadNum = 0
    BY <2>1, FS_EmptySet DEF IInv, CountersExact
  <2>3. Len(mTaskQueue) <= 0
    BY <2>2, PoolAssumption DEF IInv, QueueCovered
  <2>4. mTaskQueue \in Seq(Task)
    BY DEF IInv, TypeInv, TypeOK
  <2>5. QED
    BY <1>2, <2>3, <2>4, EmptySeq
<1>5. QED
  BY <1>3, <1>4

(* The state of the executor, as the pool sees it.                           *)
Refused == {t \in Task : stage[t] = "rejected"}
Phase == IF ~mStop THEN "open" ELSE IF dtor = "destroyed" THEN "closed" ELSE "closing"

(* A task in a call of enqueue has not been anywhere yet.                    *)
LEMMA FreshTask ==
  ASSUME PlaceInv, NEW t \in Task, stage[t] \in {"calling", "locked"}
  PROVE  t \notin Elems(mTaskQueue) \cup Running \cup done \cup Refused
BY DEF PlaceInv, Refused


(* The steps without a worker refuse a task, begin to close, close or are    *)
(* not seen.                                                                 *)
LEMMA OtherSteps ==
  ASSUME TypeInv, StopInv, [Next]_vars, \A w \in Worker : ~TakeTask(w) /\ ~TaskReturns(w), \A t \in Task : ~EnqueuePush(t)
  PROVE  \/ UNCHANGED <<mTaskQueue, done, Refused, Phase>>
         \/ /\ Phase = "open" /\ Phase' = "closing"
            /\ UNCHANGED <<mTaskQueue, done, Refused>>
         \/ /\ DtorJoined /\ Phase = "closing" /\ Phase' = "closed"
            /\ UNCHANGED <<mTaskQueue, done, Refused>>
         \/ \E u \in Task : /\ stage[u] = "calling" /\ Phase # "open" /\ Refused' = Refused \cup {u}
                           /\ UNCHANGED <<mTaskQueue, done, Phase>>
<1>1. ASSUME NEW t \in Task, ClientCall(t)
      PROVE  \/ UNCHANGED <<mTaskQueue, done, Refused, Phase>>
         \/ /\ Phase = "open" /\ Phase' = "closing"
            /\ UNCHANGED <<mTaskQueue, done, Refused>>
         \/ /\ DtorJoined /\ Phase = "closing" /\ Phase' = "closed"
            /\ UNCHANGED <<mTaskQueue, done, Refused>>
         \/ \E u \in Task : /\ stage[u] = "calling" /\ Phase # "open" /\ Refused' = Refused \cup {u}
                           /\ UNCHANGED <<mTaskQueue, done, Phase>>
  BY <1>1 DEF ClientCall, poolVars, Refused, Phase, TypeInv, TypeOK
<1>2. ASSUME NEW t \in Task, EnqueueLock(t)
      PROVE  \/ UNCHANGED <<mTaskQueue, done, Refused, Phase>>
         \/ /\ Phase = "open" /\ Phase' = "closing"
            /\ UNCHANGED <<mTaskQueue, done, Refused>>
         \/ /\ DtorJoined /\ Phase = "closing" /\ Phase' = "closed"
            /\ UNCHANGED <<mTaskQueue, done, Refused>>
         \/ \E u \in Task : /\ stage[u] = "calling" /\ Phase # "open" /\ Refused' = Refused \cup {u}
                           /\ UNCHANGED <<mTaskQueue, done, Phase>>
  <2>1. CASE ~mStop
    BY <1>2, <2>1 DEF EnqueueLock, poolVars, Refused, Phase, TypeInv, TypeOK
  <2>2. CASE mStop
    <3>1. stage[t] = "calling" /\ stage' = [stage EXCEPT ![t] = "rejected"] /\ UNCHANGED <<mTaskQueue, done, mStop, dtor>>
      BY <1>2, <2>2 DEF EnqueueLock, poolVars
    <3>2. Refused' = Refused \cup {t} /\ Phase' = Phase /\ Phase # "open"
      BY <2>2, <3>1 DEF Refused, Phase, TypeInv, TypeOK
    <3>3. QED
      BY <3>1, <3>2
  <2>3. QED
    BY <2>1, <2>2
<1>3. ASSUME NEW t \in Task, NEW w \in mPendingRemoveThreadIds, JoinRetired(t, w)
      PROVE  \/ UNCHANGED <<mTaskQueue, done, Refused, Phase>>
         \/ /\ Phase = "open" /\ Phase' = "closing"
            /\ UNCHANGED <<mTaskQueue, done, Refused>>
         \/ /\ DtorJoined /\ Phase = "closing" /\ Phase' = "closed"
            /\ UNCHANGED <<mTaskQueue, done, Refused>>
         \/ \E u \in Task : /\ stage[u] = "calling" /\ Phase # "open" /\ Refused' = Refused \cup {u}
                           /\ UNCHANGED <<mTaskQueue, done, Phase>>
  BY <1>3 DEF JoinRetired, poolVars, Refused, Phase, TypeInv, TypeOK
<1>4. ASSUME NEW t \in Task, EnqueueNotify(t)
      PROVE  \/ UNCHANGED <<mTaskQueue, done, Refused, Phase>>
         \/ /\ Phase = "open" /\ Phase' = "closing"
            /\ UNCHANGED <<mTaskQueue, done, Refused>>
         \/ /\ DtorJoined /\ Phase = "closing" /\ Phase' = "closed"
            /\ UNCHANGED <<mTaskQueue, done, Refused>>
         \/ \E u \in Task : /\ stage[u] = "calling" /\ Phase # "open" /\ Refused' = Refused \cup {u}
                           /\ UNCHANGED <<mTaskQueue, done, Phase>>
  <2>1. /\ UNCHANGED <<mTaskQueue, done, mStop, dtor>>
        /\ stage[t] = "notify" /\ stage' = [stage EXCEPT ![t] = "accepted"]
    BY <1>4 DEF EnqueueNotify, poolVars
  <2>2. QED
    BY <2>1 DEF Refused, Phase, TypeInv, TypeOK
<1>5. ASSUME NEW w \in Worker, Wait(w)
      PROVE  \/ UNCHANGED <<mTaskQueue, done, Refused, Phase>>
         \/ /\ Phase = "open" /\ Phase' = "closing"
            /\ UNCHANGED <<mTaskQueue, done, Refused>>
         \/ /\ DtorJoined /\ Phase = "closing" /\ Phase' = "closed"
            /\ UNCHANGED <<mTaskQueue, done, Refused>>
         \/ \E u \in Task : /\ stage[u] = "calling" /\ Phase # "open" /\ Refused' = Refused \cup {u}
                           /\ UNCHANGED <<mTaskQueue, done, Phase>>
  BY <1>5 DEF Wait, poolVars, Refused, Phase, TypeInv, TypeOK
<1>6. ASSUME NEW w \in Worker, LeaveStopped(w)
      PROVE  \/ UNCHANGED <<mTaskQueue, done, Refused, Phase>>
         \/ /\ Phase = "open" /\ Phase' = "closing"
            /\ UNCHANGED <<mTaskQueue, done, Refused>>
         \/ /\ DtorJoined /\ Phase = "closing" /\ Phase' = "closed"
            /\ UNCHANGED <<mTaskQueue, done, Refused>>
         \/ \E u \in Task : /\ stage[u] = "calling" /\ Phase # "open" /\ Refused' = Refused \cup {u}
                           /\ UNCHANGED <<mTaskQueue, done, Phase>>
  BY <1>6 DEF LeaveStopped, poolVars, Refused, Phase, TypeInv, TypeOK
<1>7. ASSUME NEW w \in Worker, NEW t \in Task, TaskCall(w, t)
      PROVE  \/ UNCHANGED <<mTaskQueue, done, Refused, Phase>>
         \/ /\ Phase = "open" /\ Phase' = "closing"
            /\ UNCHANGED <<mTaskQueue, done, Refused>>
         \/ /\ DtorJoined /\ Phase = "closing" /\ Phase' = "closed"
            /\ UNCHANGED <<mTaskQueue, done, Refused>>
         \/ \E u \in Task : /\ stage[u] = "calling" /\ Phase # "open" /\ Refused' = Refused \cup {u}
                           /\ UNCHANGED <<mTaskQueue, done, Phase>>
  BY <1>7 DEF TaskCall, poolVars, Refused, Phase, TypeInv, TypeOK
<1>8. ASSUME NEW w \in Worker, Recycle(w)
      PROVE  \/ UNCHANGED <<mTaskQueue, done, Refused, Phase>>
         \/ /\ Phase = "open" /\ Phase' = "closing"
            /\ UNCHANGED <<mTaskQueue, done, Refused>>
         \/ /\ DtorJoined /\ Phase = "closing" /\ Phase' = "closed"
            /\ UNCHANGED <<mTaskQueue, done, Refused>>
         \/ \E u \in Task : /\ stage[u] = "calling" /\ Phase # "open" /\ Refused' = Refused \cup {u}
                           /\ UNCHANGED <<mTaskQueue, done, Phase>>
  BY <1>8 DEF Recycle, poolVars, Refused, Phase, TypeInv, TypeOK
<1>9. ASSUME NEW w \in Worker, Retire(w)
      PROVE  \/ UNCHANGED <<mTaskQueue, done, Refused, Phase>>
         \/ /\ Phase = "open" /\ Phase' = "closing"
            /\ UNCHANGED <<mTaskQueue, done, Refused>>
         \/ /\ DtorJoined /\ Phase = "closing" /\ Phase' = "closed"
            /\ UNCHANGED <<mTaskQueue, done, Refused>>
         \/ \E u \in Task : /\ stage[u] = "calling" /\ Phase # "open" /\ Refused' = Refused \cup {u}
                           /\ UNCHANGED <<mTaskQueue, done, Phase>>
  BY <1>9 DEF Retire, poolVars, Refused, Phase, TypeInv, TypeOK
<1>10. ASSUME NEW w \in Worker, ThreadEnds(w)
      PROVE  \/ UNCHANGED <<mTaskQueue, done, Refused, Phase>>
         \/ /\ Phase = "open" /\ Phase' = "closing"
            /\ UNCHANGED <<mTaskQueue, done, Refused>>
         \/ /\ DtorJoined /\ Phase = "closing" /\ Phase' = "closed"
            /\ UNCHANGED <<mTaskQueue, done, Refused>>
         \/ \E u \in Task : /\ stage[u] = "calling" /\ Phase # "open" /\ Refused' = Refused \cup {u}
                           /\ UNCHANGED <<mTaskQueue, done, Phase>>
  BY <1>10 DEF ThreadEnds, poolVars, Refused, Phase, TypeInv, TypeOK
<1>11. ASSUME NEW w \in Worker, SpuriousWakeup(w)
      PROVE  \/ UNCHANGED <<mTaskQueue, done, Refused, Phase>>
         \/ /\ Phase = "open" /\ Phase' = "closing"
            /\ UNCHANGED <<mTaskQueue, done, Refused>>
         \/ /\ DtorJoined /\ Phase = "closing" /\ Phase' = "closed"
            /\ UNCHANGED <<mTaskQueue, done, Refused>>
         \/ \E u \in Task : /\ stage[u] = "calling" /\ Phase # "open" /\ Refused' = Refused \cup {u}
                           /\ UNCHANGED <<mTaskQueue, done, Phase>>
  BY <1>11 DEF SpuriousWakeup, poolVars, Refused, Phase, TypeInv, TypeOK
<1>12. ASSUME DtorStop
      PROVE  \/ UNCHANGED <<mTaskQueue, done, Refused, Phase>>
         \/ /\ Phase = "open" /\ Phase' = "closing"
            /\ UNCHANGED <<mTaskQueue, done, Refused>>
         \/ /\ DtorJoined /\ Phase = "closing" /\ Phase' = "closed"
            /\ UNCHANGED <<mTaskQueue, done, Refused>>
         \/ \E u \in Task : /\ stage[u] = "calling" /\ Phase # "open" /\ Refused' = Refused \cup {u}
                           /\ UNCHANGED <<mTaskQueue, done, Phase>>
  <2>1. /\ ~mStop /\ mStop' /\ dtor' = "stopping" /\ UNCHANGED <<mTaskQueue, done, stage>>
    BY <1>12 DEF DtorStop, poolVars, StopInv
  <2>2. QED
    BY <2>1 DEF Refused, Phase
<1>13. ASSUME DtorNotifyAll
      PROVE  \/ UNCHANGED <<mTaskQueue, done, Refused, Phase>>
         \/ /\ Phase = "open" /\ Phase' = "closing"
            /\ UNCHANGED <<mTaskQueue, done, Refused>>
         \/ /\ DtorJoined /\ Phase = "closing" /\ Phase' = "closed"
            /\ UNCHANGED <<mTaskQueue, done, Refused>>
         \/ \E u \in Task : /\ stage[u] = "calling" /\ Phase # "open" /\ Refused' = Refused \cup {u}
                           /\ UNCHANGED <<mTaskQueue, done, Phase>>
  <2>1. /\ mStop /\ dtor = "stopping" /\ dtor' = "joining" /\ UNCHANGED <<mTaskQueue, done, stage, mStop>>
    BY <1>13 DEF DtorNotifyAll, poolVars, StopInv
  <2>2. QED
    BY <2>1 DEF Refused, Phase
<1>14. ASSUME DtorJoined
      PROVE  \/ UNCHANGED <<mTaskQueue, done, Refused, Phase>>
         \/ /\ Phase = "open" /\ Phase' = "closing"
            /\ UNCHANGED <<mTaskQueue, done, Refused>>
         \/ /\ DtorJoined /\ Phase = "closing" /\ Phase' = "closed"
            /\ UNCHANGED <<mTaskQueue, done, Refused>>
         \/ \E u \in Task : /\ stage[u] = "calling" /\ Phase # "open" /\ Refused' = Refused \cup {u}
                           /\ UNCHANGED <<mTaskQueue, done, Phase>>
  <2>1. /\ mStop /\ dtor = "joining" /\ dtor' = "destroyed" /\ UNCHANGED <<mTaskQueue, done, stage, mStop>>
    BY <1>14 DEF DtorJoined, poolVars, StopInv
  <2>2. QED
    BY <1>14, <2>1 DEF Refused, Phase
<1>15. CASE UNCHANGED vars
  BY <1>15 DEF vars, Refused, Phase
<1>16. QED
  BY <1>1, <1>2, <1>3, <1>4, <1>5, <1>6, <1>7, <1>8, <1>9,
     <1>10, <1>11, <1>12, <1>13, <1>14, <1>15 DEF Next, EnqueueStep, WorkerStep, DtorStep, Terminated


(* Every step of the pool is a step of the executor, or none.                *)
LEMMA ExecutorStep ==
  ASSUME IInv, PlaceInv, StopInv, [Next]_vars
  PROVE  [Executor!Next]_(Executor!execVars)
<1> USE DEF IInv
<1>1. /\ {cur[w] : w \in {v \in Worker : pc[v] = "running"}} = Running
      /\ ({cur[w] : w \in {v \in Worker : pc[v] = "running"}})' = Running'
      /\ {t \in Task : stage[t] = "rejected"} = Refused
      /\ ({t \in Task : stage[t] = "rejected"})' = Refused'
  BY DEF Running, RunningWorker, Refused
<1>2. /\ (IF ~mStop THEN "open" ELSE IF dtor = "destroyed" THEN "closed" ELSE "closing") = Phase
      /\ (IF ~mStop THEN "open" ELSE IF dtor = "destroyed" THEN "closed" ELSE "closing")' = Phase'
  BY DEF Phase
<1>3. {mTaskQueue[i] : i \in DOMAIN mTaskQueue} = Elems(mTaskQueue)
  BY DEF Elems, TypeInv, TypeOK
<1>4. ASSUME NEW w \in Worker, TakeTask(w)
      PROVE  Executor!Start
  <2>1. /\ mTaskQueue # <<>> /\ mTaskQueue' = Tail(mTaskQueue)
        /\ UNCHANGED <<done, Refused, Phase>> /\ pc[w] = "ready"
    BY <1>4 DEF TakeTask, Refused, Phase
  <2>2. Cardinality(Running) < MaxThreadNum
    BY <2>1, ReadyLeavesRoom
  <2>3. Head(mTaskQueue) \notin Running
    <3>1. Head(mTaskQueue) \in Elems(mTaskQueue)
      BY <2>1, TailDistinct DEF PlaceInv, TypeInv, TypeOK
    <3>2. QED
      BY <3>1 DEF PlaceInv
  <2>4. Running' = Running \cup {Head(mTaskQueue)}
    BY <1>4, TakeFacts
  <2>5. Executor!Cardinality(Running) = Cardinality(Running)
    BY DEF Executor!Cardinality, Cardinality
  <2>6. QED
    BY <1>1, <1>2, <2>1, <2>2, <2>3, <2>4, <2>5 DEF Executor!Start
<1>5. ASSUME NEW w \in Worker, TaskReturns(w)
      PROVE  \E t \in Task : Executor!Finish(t)
  <2>1. UNCHANGED <<mTaskQueue, Refused, Phase>>
    BY <1>5 DEF TaskReturns, poolVars, Refused, Phase
  <2>2. PICK t \in Task : t = cur[w]
    BY <1>5, ReturnFacts
  <2>3. t \in Running /\ Running' = Running \ {t} /\ done' = done \cup {t}
    BY <1>5, <2>2, ReturnFacts
  <2>4. Executor!Finish(t)
    BY <1>1, <1>2, <2>1, <2>3 DEF Executor!Finish
  <2>5. QED
    BY <2>4
<1>6. ASSUME NEW t \in Task, EnqueuePush(t), RunsKept
      PROVE  Executor!Accept(t)
  <2>1. /\ stage[t] = "locked" /\ stage' = [stage EXCEPT ![t] = "notify"]
        /\ mTaskQueue' = Append(mTaskQueue, t) /\ UNCHANGED <<done, mStop, dtor>>
    BY <1>6 DEF EnqueuePush
  <2>2. Phase = "open" /\ Phase' = Phase /\ Refused' = Refused /\ Running' = Running
    BY <1>6, <2>1, SameRunning DEF StopInv, Phase, Refused, TypeInv, TypeOK
  <2>3. t \notin Elems(mTaskQueue) \cup Running \cup done \cup Refused
    BY <2>1, FreshTask
  <2>4. QED
    BY <1>1, <1>2, <1>3, <2>1, <2>2, <2>3 DEF Executor!Accept, Executor!Fresh, Executor!Queued
<1>7. ASSUME \A w \in Worker : ~TakeTask(w) /\ ~TaskReturns(w), \A t \in Task : ~EnqueuePush(t)
      PROVE  [Executor!Next]_(Executor!execVars)
  <2>1. Running' = Running
    BY <1>7, RunsStep, SameRunning
  <2>2. CASE UNCHANGED <<mTaskQueue, done, Refused, Phase>>
    BY <1>1, <1>2, <2>1, <2>2 DEF Executor!execVars
  <2>3. CASE Phase = "open" /\ Phase' = "closing" /\ UNCHANGED <<mTaskQueue, done, Refused>>
    BY <1>1, <1>2, <2>1, <2>3 DEF Executor!Next, Executor!BeginClose
  <2>4. CASE /\ DtorJoined /\ Phase = "closing" /\ Phase' = "closed"
             /\ UNCHANGED <<mTaskQueue, done, Refused>>
    <3>1. mTaskQueue = <<>> /\ Running = {}
      BY <2>4, JoinedIsDrained
    <3>2. QED
      BY <1>1, <1>2, <2>1, <2>4, <3>1 DEF Executor!Next, Executor!Close
  <2>5. ASSUME NEW t \in Task, stage[t] = "calling", Phase # "open", Refused' = Refused \cup {t},
               UNCHANGED <<mTaskQueue, done, Phase>>
        PROVE  Executor!Next
    <3>1. t \notin Elems(mTaskQueue) \cup Running \cup done \cup Refused
      BY <2>5, FreshTask
    <3>2. Executor!Refuse(t)
      BY <1>1, <1>2, <1>3, <2>1, <2>5, <3>1 DEF Executor!Refuse, Executor!Fresh, Executor!Queued
    <3>3. QED
      BY <3>2 DEF Executor!Next
  <2>6. QED
    BY <1>7, <2>2, <2>3, <2>4, <2>5, OtherSteps
<1>8. CASE \E w \in Worker : TakeTask(w) \/ TaskReturns(w)
  BY <1>4, <1>5, <1>8 DEF Executor!Next
<1>9. CASE \A w \in Worker : ~TakeTask(w) /\ ~TaskReturns(w)
  <2>1. RunsKept
    BY <1>9, RunsStep
  <2>2. CASE \E t \in Task : EnqueuePush(t)
    BY <1>6, <2>1, <2>2 DEF Executor!Next
  <2>3. QED
    BY <1>7, <1>9, <2>2
<1>10. QED
  BY <1>8, <1>9

(* Every behaviour of the pool, seen as its queue, the tasks its workers run *)
(* and the tasks it has finished or refused, is one of the executor: accepted *)
(* tasks start once and in order, at most MaxThreadNum run, only a closing    *)
(* pool refuses, and the destructor returns when nothing is queued or runs.   *)
THEOREM ImplementsTaskExecutor == Spec => ImplementsExecutor
<1>1. Init => PlaceInv /\ StopInv /\ Executor!Init
  <2> SUFFICES ASSUME Init PROVE PlaceInv /\ StopInv /\ Executor!Init
    OBVIOUS
  <2>1. RunningWorker = {} /\ Running = {}
    BY DEF Init, RunningWorker, Running, Worker
  <2>2. PlaceInv
    BY <2>1 DEF Init, PlaceInv, Distinct, Elems
  <2>3. StopInv
    BY DEF Init, StopInv, Worker
  <2>4. Executor!Init
    BY <2>1 DEF Init, Executor!Init, Running, RunningWorker
  <2>5. QED
    BY <2>2, <2>3, <2>4
<1>2. IInv /\ PlaceInv /\ StopInv /\ [Next]_vars => PlaceInv' /\ StopInv'
  BY PlaceStep, StopStep DEF IInv
<1>3. IInv /\ PlaceInv /\ StopInv /\ [Next]_vars => [Executor!Next]_(Executor!execVars)
  BY ExecutorStep
<1>4. QED
  BY <1>1, <1>2, <1>3, IInvAlways, PTL DEF Spec, ImplementsExecutor, Executor!Spec
=============================================================================
