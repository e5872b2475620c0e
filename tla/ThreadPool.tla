----------------------------- MODULE ThreadPool -----------------------------
(***************************************************************************)
(* The elastic thread pool of the algorithm engine                         *)
(* (mialgoengine/ThreadPool.{h,cpp}).  A pool starts with mInitThreadNum   *)
(* workers, adds one when a task arrives and no idle worker is left for    *)
(* it, and lets a worker go when too many are idle.  A worker that leaves  *)
(* cannot join itself: it records its id, and the next call of enqueue     *)
(* joins it while holding mMutex.                                          *)
(*                                                                         *)
(* Every task is submitted at most once, so a call of enqueue is named by  *)
(* the task it submits.  A task may submit further tasks and wait for      *)
(* them: Pipeline::postProcTask runs in the pool, enqueues the tasks of    *)
(* its nodes in the same pool, ignores what enqueue returns and blocks     *)
(* until they have ended.                                                  *)
(***************************************************************************)
EXTENDS Naturals, Sequences, FiniteSets

CONSTANTS
  Task,         \* the tasks ever submitted
  NoTask,       \* "this worker is running nothing"
  Subtasks,     \* Subtasks[t]: the tasks that t submits and waits for
  Threads,      \* the constructor's argument (THREAD_POOL_NUMS)
  MaxThreadNum, \* mMaxThreadNum
  MayDestroy    \* whether the owner ever destroys the pool

ASSUME PoolAssumption ==
  /\ NoTask \notin Task
  /\ Subtasks \in [Task -> SUBSET Task]
  /\ Threads \in Nat
  /\ MaxThreadNum \in Nat \ {0}
  /\ MayDestroy \in BOOLEAN

VARIABLES
  mStop,
  mTaskQueue,
  mIdleThreads,
  mActiveThreadNum,
  mThreadId,                \* the next worker id; 0 .. mThreadId-1 were started
  mWorkers,                 \* ids whose std::thread is still in the map
  mPendingRemoveThreadIds,  \* ids of the workers that left and are not joined
  pc,                       \* where each started worker is
  cur,                      \* the task each worker is running
  stage,                    \* how far the call of enqueue for each task is
  done,                     \* tasks whose function has returned
  dtor                      \* how far the destructor is

poolVars == <<mTaskQueue, mIdleThreads, mActiveThreadNum, mThreadId, mWorkers,
              mPendingRemoveThreadIds>>
vars == <<mStop, mTaskQueue, mIdleThreads, mActiveThreadNum, mThreadId, mWorkers,
          mPendingRemoveThreadIds, pc, cur, stage, done, dtor>>

-----------------------------------------------------------------------------
(* "ready": about to lock mMutex and test the wait predicate; "waiting": in  *)
(* mCond; "running": in task(); "returned": out of task(), about to lock     *)
(* mMutex; "retiring": has put its id in mPendingRemoveThreadIds, released   *)
(* mMutex, and its thread function is returning; "retired": that thread has  *)
(* ended; "stopped": left the loop because the pool stops.                   *)
WorkerState == {"ready", "waiting", "running", "returned",
                "retiring", "retired", "stopped"}

(* "calling": in enqueue, mMutex not yet held; "locked": holding mMutex;     *)
(* "notify": the task is queued and mMutex released, mCond not yet notified. *)
CallStage == {"new", "calling", "locked", "notify", "accepted", "rejected"}
InCall(t) == stage[t] \in {"calling", "locked", "notify"}

Worker == 0 .. mThreadId - 1

(* mMutex is held from one step to the next only inside enqueue: the other   *)
(* critical sections of the class are one action each.                       *)
MutexFree == \A t \in Task : stage[t] # "locked"

mInitThreadNum == IF Threads > MaxThreadNum THEN MaxThreadNum ELSE Threads

Init ==
  /\ mStop = FALSE
  /\ mTaskQueue = <<>>
  /\ mIdleThreads = mInitThreadNum
  /\ mActiveThreadNum = mInitThreadNum
  /\ mThreadId = mInitThreadNum
  /\ mWorkers = 0 .. mInitThreadNum - 1
  /\ mPendingRemoveThreadIds = {}
  /\ pc = [w \in 0 .. mInitThreadNum - 1 |-> "ready"]
  /\ cur = [w \in 0 .. mInitThreadNum - 1 |-> NoTask]
  /\ stage = [t \in Task |-> "new"]
  /\ done = {}
  /\ dtor = "none"

-----------------------------------------------------------------------------
(* enqueue                                                                   *)

(* A client outside the pool calls enqueue; it may not do so once the object *)
(* is being destroyed.                                                       *)
ClientCall(t) ==
  /\ \A p \in Task : t \notin Subtasks[p]
  /\ dtor = "none"
  /\ stage[t] = "new"
  /\ stage' = [stage EXCEPT ![t] = "calling"]
  /\ UNCHANGED <<mStop, poolVars, pc, cur, done, dtor>>

(* The task that worker w runs calls enqueue; one call at a time.            *)
TaskCall(w, t) ==
  /\ pc[w] = "running"
  /\ t \in Subtasks[cur[w]]
  /\ \A s \in Subtasks[cur[w]] : ~InCall(s)
  /\ stage[t] = "new"
  /\ stage' = [stage EXCEPT ![t] = "calling"]
  /\ UNCHANGED <<mStop, poolVars, pc, cur, done, dtor>>

EnqueueLock(t) ==
  /\ stage[t] = "calling"
  /\ MutexFree
  /\ stage' = [stage EXCEPT ![t] = IF mStop THEN "rejected" ELSE "locked"]
  /\ UNCHANGED <<mStop, poolVars, pc, cur, done, dtor>>

(* Mutated form: the map entry is erased without joining the thread.        *)
JoinRetired_unjoined(t, w) ==
  /\ stage[t] = "locked"
  /\ w \in mPendingRemoveThreadIds
  /\ mWorkers' = mWorkers \ {w}
  /\ mPendingRemoveThreadIds' = mPendingRemoveThreadIds \ {w}
  /\ UNCHANGED <<mStop, mTaskQueue, mIdleThreads, mActiveThreadNum, mThreadId,
                 pc, cur, stage, done, dtor>>

(* join() returns when the thread has ended; mMutex stays locked meanwhile.  *)
JoinRetired(t, w) ==
  /\ stage[t] = "locked"
  /\ w \in mPendingRemoveThreadIds
  /\ pc[w] = "retired"
  /\ mWorkers' = mWorkers \ {w}
  /\ mPendingRemoveThreadIds' = mPendingRemoveThreadIds \ {w}
  /\ UNCHANGED <<mStop, mTaskQueue, mIdleThreads, mActiveThreadNum, mThreadId,
                 pc, cur, stage, done, dtor>>

(* Mutated form: the new worker is not counted idle. *)
addThread_uncounted ==
  /\ mThreadId' = mThreadId + 1
  /\ mWorkers' = mWorkers \cup {mThreadId}
  /\ pc' = [w \in 0 .. mThreadId |-> IF w = mThreadId THEN "ready" ELSE pc[w]]
  /\ cur' = [w \in 0 .. mThreadId |-> IF w = mThreadId THEN NoTask ELSE cur[w]]
  /\ mActiveThreadNum' = mActiveThreadNum + 1
  /\ UNCHANGED mIdleThreads

addThread ==
  /\ mThreadId' = mThreadId + 1
  /\ mWorkers' = mWorkers \cup {mThreadId}
  /\ pc' = [w \in 0 .. mThreadId |-> IF w = mThreadId THEN "ready" ELSE pc[w]]
  /\ cur' = [w \in 0 .. mThreadId |-> IF w = mThreadId THEN NoTask ELSE cur[w]]
  /\ mIdleThreads' = mIdleThreads + 1
  /\ mActiveThreadNum' = mActiveThreadNum + 1

(* Mutated form: the number of idle workers is compared before the push. *)
EnqueuePush_stale(t) ==
  /\ stage[t] = "locked"
  /\ mPendingRemoveThreadIds = {}
  /\ mTaskQueue' = Append(mTaskQueue, t)
  /\ \/ /\ mActiveThreadNum < MaxThreadNum
        /\ Len(mTaskQueue) > mIdleThreads
        /\ addThread
     \/ /\ ~(mActiveThreadNum < MaxThreadNum /\ Len(mTaskQueue) > mIdleThreads)
        /\ UNCHANGED <<mThreadId, mWorkers, pc, cur, mIdleThreads, mActiveThreadNum>>
  /\ stage' = [stage EXCEPT ![t] = "notify"]
  /\ UNCHANGED <<mStop, mPendingRemoveThreadIds, done, dtor>>

EnqueuePush(t) ==
  /\ stage[t] = "locked"
  /\ mPendingRemoveThreadIds = {}
  /\ mTaskQueue' = Append(mTaskQueue, t)
  /\ \/ /\ mActiveThreadNum < MaxThreadNum
        /\ Len(mTaskQueue) + 1 > mIdleThreads
        /\ addThread
     \/ /\ ~(mActiveThreadNum < MaxThreadNum /\ Len(mTaskQueue) + 1 > mIdleThreads)
        /\ UNCHANGED <<mThreadId, mWorkers, pc, cur, mIdleThreads, mActiveThreadNum>>
  /\ stage' = [stage EXCEPT ![t] = "notify"]
  /\ UNCHANGED <<mStop, mPendingRemoveThreadIds, done, dtor>>

(* Mutated form: the waiting workers are not notified. *)
EnqueueNotify_silent(t) ==
  /\ stage[t] = "notify"
  /\ stage' = [stage EXCEPT ![t] = "accepted"]
  /\ UNCHANGED <<mStop, poolVars, pc, cur, done, dtor>>

(* mCond.notify_one() runs after mMutex was released.                        *)
EnqueueNotify(t) ==
  /\ stage[t] = "notify"
  /\ stage' = [stage EXCEPT ![t] = "accepted"]
  /\ \/ \E w \in Worker : /\ pc[w] = "waiting"
                          /\ pc' = [pc EXCEPT ![w] = "ready"]
     \/ /\ \A w \in Worker : pc[w] # "waiting"
        /\ UNCHANGED pc
  /\ UNCHANGED <<mStop, poolVars, cur, done, dtor>>

-----------------------------------------------------------------------------
(* loop                                                                      *)

(* The wait predicate is false: the worker blocks in mCond.                  *)
Wait(w) ==
  /\ pc[w] = "ready"
  /\ MutexFree
  /\ ~mStop /\ mTaskQueue = <<>>
  /\ pc' = [pc EXCEPT ![w] = "waiting"]
  /\ UNCHANGED <<mStop, poolVars, cur, stage, done, dtor>>

(* A condition variable may wake a thread that nobody notified.              *)
SpuriousWakeup(w) ==
  /\ pc[w] = "waiting"
  /\ pc' = [pc EXCEPT ![w] = "ready"]
  /\ UNCHANGED <<mStop, poolVars, cur, stage, done, dtor>>

(* Mutated form: a worker leaves as soon as the pool stops, queue or not. *)
LeaveStopped_undrained(w) ==
  /\ pc[w] = "ready"
  /\ MutexFree
  /\ mStop
  /\ pc' = [pc EXCEPT ![w] = "stopped"]
  /\ UNCHANGED <<mStop, poolVars, cur, stage, done, dtor>>

LeaveStopped(w) ==
  /\ pc[w] = "ready"
  /\ MutexFree
  /\ mStop /\ mTaskQueue = <<>>
  /\ pc' = [pc EXCEPT ![w] = "stopped"]
  /\ UNCHANGED <<mStop, poolVars, cur, stage, done, dtor>>

TakeTask(w) ==
  /\ pc[w] = "ready"
  /\ MutexFree
  /\ mTaskQueue # <<>>
  /\ cur' = [cur EXCEPT ![w] = Head(mTaskQueue)]
  /\ mTaskQueue' = Tail(mTaskQueue)
  /\ mIdleThreads' = mIdleThreads - 1
  /\ pc' = [pc EXCEPT ![w] = "running"]
  /\ UNCHANGED <<mStop, mActiveThreadNum, mThreadId, mWorkers,
                 mPendingRemoveThreadIds, stage, done, dtor>>

(* task() returns, for a task with subtasks once they have all ended.        *)
TaskReturns(w) ==
  /\ pc[w] = "running"
  /\ Subtasks[cur[w]] \subseteq done
  /\ \A s \in Subtasks[cur[w]] : ~InCall(s)
  /\ done' = done \cup {cur[w]}
  /\ cur' = [cur EXCEPT ![w] = NoTask]
  /\ pc' = [pc EXCEPT ![w] = "returned"]
  /\ UNCHANGED <<mStop, poolVars, stage, dtor>>

(* The worker counts itself idle again and decides whether it is redundant.  *)
Redundant ==
  /\ mIdleThreads + 1 > mInitThreadNum
  /\ mIdleThreads + 1 > 2 * Len(mTaskQueue)

Recycle(w) ==
  /\ pc[w] = "returned"
  /\ MutexFree
  /\ ~Redundant
  /\ mIdleThreads' = mIdleThreads + 1
  /\ pc' = [pc EXCEPT ![w] = "ready"]
  /\ UNCHANGED <<mStop, mTaskQueue, mActiveThreadNum, mThreadId, mWorkers,
                 mPendingRemoveThreadIds, cur, stage, done, dtor>>

(* Mutated form: the leaving worker stays counted among the idle ones. *)
Retire_counted(w) ==
  /\ pc[w] = "returned"
  /\ MutexFree
  /\ Redundant
  /\ mIdleThreads' = mIdleThreads + 1
  /\ mActiveThreadNum' = mActiveThreadNum - 1
  /\ mPendingRemoveThreadIds' = mPendingRemoveThreadIds \cup {w}
  /\ pc' = [pc EXCEPT ![w] = "retiring"]
  /\ UNCHANGED <<mStop, mTaskQueue, mThreadId, mWorkers, cur, stage, done, dtor>>

Retire(w) ==
  /\ pc[w] = "returned"
  /\ MutexFree
  /\ Redundant
  /\ mActiveThreadNum' = mActiveThreadNum - 1
  /\ mPendingRemoveThreadIds' = mPendingRemoveThreadIds \cup {w}
  /\ pc' = [pc EXCEPT ![w] = "retiring"]
  /\ UNCHANGED <<mStop, mTaskQueue, mIdleThreads, mThreadId, mWorkers,
                 cur, stage, done, dtor>>

ThreadEnds(w) ==
  /\ pc[w] = "retiring"
  /\ pc' = [pc EXCEPT ![w] = "retired"]
  /\ UNCHANGED <<mStop, poolVars, cur, stage, done, dtor>>

-----------------------------------------------------------------------------
(* ~ThreadPool                                                               *)

DtorStop ==
  /\ MayDestroy
  /\ dtor = "none"
  /\ \A t \in Task : InCall(t) => \E p \in Task : t \in Subtasks[p]
  /\ MutexFree
  /\ mStop' = TRUE
  /\ dtor' = "stopping"
  /\ UNCHANGED <<poolVars, pc, cur, stage, done>>

(* Mutated form: the destructor wakes one waiting worker instead of all. *)
DtorNotifyAll_one ==
  /\ dtor = "stopping"
  /\ dtor' = "joining"
  /\ \/ \E w \in Worker : /\ pc[w] = "waiting"
                          /\ pc' = [pc EXCEPT ![w] = "ready"]
     \/ (\A w \in Worker : pc[w] # "waiting") /\ UNCHANGED pc
  /\ UNCHANGED <<mStop, poolVars, cur, stage, done>>

DtorNotifyAll ==
  /\ dtor = "stopping"
  /\ dtor' = "joining"
  /\ pc' = [w \in Worker |-> IF pc[w] = "waiting" THEN "ready" ELSE pc[w]]
  /\ UNCHANGED <<mStop, poolVars, cur, stage, done>>

DtorJoined ==
  /\ dtor = "joining"
  /\ \A w \in mWorkers : pc[w] \in {"retired", "stopped"}
  /\ dtor' = "destroyed"
  /\ UNCHANGED <<mStop, poolVars, pc, cur, stage, done>>

(* A task that waits for one that was refused waits for ever.                *)
Stranded(t) == \E s \in Subtasks[t] : stage[s] = "rejected"

(* Where the pool may rightly come to a stop.                                *)
Terminated ==
  /\ dtor = "destroyed" \/ \E t \in Task : Stranded(t)
  /\ UNCHANGED vars

-----------------------------------------------------------------------------
EnqueueStep(t) ==
  \/ EnqueueLock(t)
  \/ \E w \in mPendingRemoveThreadIds : JoinRetired(t, w)
  \/ EnqueuePush(t)
  \/ EnqueueNotify(t)

WorkerStep(w) ==
  \/ Wait(w)
  \/ LeaveStopped(w)
  \/ TakeTask(w)
  \/ \E t \in Task : TaskCall(w, t)
  \/ TaskReturns(w)
  \/ Recycle(w)
  \/ Retire(w)
  \/ ThreadEnds(w)

DtorStep == DtorStop \/ DtorNotifyAll \/ DtorJoined

Next ==
  \/ \E t \in Task : ClientCall(t) \/ EnqueueStep(t)
  \/ \E w \in Worker : WorkerStep(w) \/ SpuriousWakeup(w)
  \/ DtorStep
  \/ Terminated

Spec == Init /\ [][Next]_vars

(* The operating system schedules every thread that can run, and a task that *)
(* waits for nothing returns.  Nobody has to call enqueue or the destructor. *)
WorkerIds == 0 .. mInitThreadNum + Cardinality(Task) - 1

Fairness ==
  /\ \A t \in Task : WF_vars(EnqueueStep(t))
  /\ \A w \in WorkerIds : WF_vars(w \in Worker /\ WorkerStep(w))
  /\ WF_vars(DtorNotifyAll \/ DtorJoined)

FairSpec == Spec /\ Fairness

-----------------------------------------------------------------------------
(* The values of the variables; in particular the unsigned counters never    *)
(* wrap below zero.                                                          *)
TypeOK ==
  /\ mStop \in BOOLEAN
  /\ mTaskQueue \in Seq(Task)
  /\ mIdleThreads \in Nat
  /\ mActiveThreadNum \in Nat
  /\ mThreadId \in Nat
  /\ mWorkers \subseteq Worker
  /\ mPendingRemoveThreadIds \subseteq Worker
  /\ pc \in [Worker -> WorkerState]
  /\ cur \in [Worker -> Task \cup {NoTask}]
  /\ stage \in [Task -> CallStage]
  /\ done \subseteq Task
  /\ dtor \in {"none", "stopping", "joining", "destroyed"}

IdleStates == {"ready", "waiting", "stopped"}
LiveStates == {"ready", "waiting", "stopped", "running", "returned"}
IdleWorker == {w \in Worker : pc[w] \in IdleStates}
LiveWorker == {w \in Worker : pc[w] \in LiveStates}

(* The two counters that drive growth and shrinking count what their names   *)
(* say, whatever the order in which workers take tasks, come back, leave and *)
(* are replaced (mIdleThreads and mActiveThreadNum in loop and addThread).   *)
CountersExact ==
  /\ mIdleThreads = Cardinality(IdleWorker)
  /\ mActiveThreadNum = Cardinality(LiveWorker)

(* Every queued task has an idle worker to take it, unless the pool is at    *)
(* its maximum size: the promise of the growth rule in enqueue, which the    *)
(* shrinking rule in loop must not break later.                              *)
QueueCovered ==
  \/ Len(mTaskQueue) <= mIdleThreads
  \/ mActiveThreadNum = MaxThreadNum

(* The pool never shrinks below its initial size nor grows past its maximum. *)
SizeInRange == mActiveThreadNum \in mInitThreadNum .. MaxThreadNum

Awake == {w \in Worker : pc[w] = "ready"}
Waiting == {w \in Worker : pc[w] = "waiting"}
Notifying == {t \in Task : stage[t] = "notify"}

(* No lost wake-up: enqueue notifies after it released mMutex, and a worker  *)
(* may come back, take the task or go to sleep in between; still, while a    *)
(* worker sleeps in mCond, every queued task has an awake worker or a        *)
(* notification on its way.                                                  *)
NoLostWakeup ==
  Waiting # {} =>
    Len(mTaskQueue) <= Cardinality(Awake) + Cardinality(Notifying)

(* The std::thread object of a worker is destroyed only after its thread was *)
(* joined (otherwise std::terminate), and a worker that left is either       *)
(* recorded for joining or already joined, so no thread object leaks.        *)
RetiredAreJoined ==
  \A w \in Worker :
    /\ w \notin mWorkers => pc[w] = "retired"
    /\ w \in mPendingRemoveThreadIds <=>
         w \in mWorkers /\ pc[w] \in {"retiring", "retired"}

(* Every task that enqueue accepted is run to its end, also when the pool is *)
(* being destroyed meanwhile, unless it waits for a task that was refused.   *)
AcceptedTasksComplete ==
  \A t \in Task : stage[t] \in {"notify", "accepted"} ~> (t \in done \/ Stranded(t))

(* The destructor's join of all workers ends, unless a worker is stranded.   *)
DestructorReturns ==
  dtor = "stopping" ~> (dtor = "destroyed" \/ \E t \in Task : Stranded(t))

-----------------------------------------------------------------------------
(* The pool implements a first-come first-served executor that runs at most  *)
(* MaxThreadNum tasks at a time and drains before it closes.                 *)
Executor == INSTANCE TaskExecutor
  WITH Capacity <- MaxThreadNum,
       queue    <- mTaskQueue,
       running  <- {cur[w] : w \in {v \in Worker : pc[v] = "running"}},
       finished <- done,
       refused  <- {t \in Task : stage[t] = "rejected"},
       phase    <- IF ~mStop THEN "open"
                   ELSE IF dtor = "destroyed" THEN "closed" ELSE "closing"

(* Detailed pool behaviours are executor behaviours: each accepted task is   *)
(* started once, in the order of the calls, at most MaxThreadNum run at the  *)
(* same time, a task is refused only after the destructor began, and the     *)
(* destructor returns only when nothing is queued or running.                *)
ImplementsExecutor == Executor!Spec
=============================================================================
