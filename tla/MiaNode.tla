------------------------------ MODULE MiaNode ------------------------------
(***************************************************************************)
(* A node object (mialgoengine/MiaNode.cpp), shared by all the pipelines   *)
(* of a session.  enqueueTask puts a pipeline into mRequestQueue and, if   *)
(* none is being served, starts processTask in the thread pool; the task   *)
(* serves pipelines until the queue is empty.  A node with CONCURRENCY_MODE *)
(* starts one task per pipeline.  quickFinish of a pipeline asks the node  *)
(* to interrupt the plugin: it raises mInPluginThreadNum and detaches a    *)
(* helper thread that flushes the plugin, and the task that is in the      *)
(* plugin may not go on before the helper is done with it.                 *)
(*                                                                         *)
(* A task is named by the pipeline whose enqueueTask started it.           *)
(***************************************************************************)
EXTENDS Integers, FiniteSets

CONSTANTS
  Request,      \* the pipelines that enqueue themselves here
  NoRequest,    \* nullptr
  Name,         \* Name[r]: the pipeline's name, from the request's metadata
  Priority,     \* Priority[r]: FIFO or LIFO priority, all different
  Concurrent,   \* the node has CONCURRENCY_MODE
  Frames,       \* plugin calls per request: 1, or more frame by frame
  Helper,       \* calls of quickFinish, and the threads they detach
  MayFail       \* whether a request may fail before its next plugin call

ASSUME NodeAssumption ==
  /\ NoRequest \notin Request \cup Helper
  /\ IsFiniteSet(Request)
  /\ Priority \in [Request -> Int]
  /\ \A r, s \in Request : Priority[r] = Priority[s] => r = s
  /\ Concurrent \in BOOLEAN /\ MayFail \in BOOLEAN
  /\ Frames \in Nat \ {0}

VARIABLES
  mRequestQueue, mPipeline, mHasProcessThread,
  mNodeThreadNum,       \* the session's count, increaseUsingThreadNum
  mInPluginThreadNum,
  mQuickFinishMux,      \* the helper that holds it, or NoRequest
  req,                  \* where each pipeline is with respect to this node
  pc, cur,              \* processTask, and the pipeline it serves
  mInputFrameNum,       \* frames of that pipeline already processed
  hpc, target           \* the calls of quickFinish, and their pipelines

queueVars == <<mRequestQueue, mPipeline, mHasProcessThread>>
taskVars == <<req, pc, cur, mInputFrameNum, mNodeThreadNum>>
helperVars == <<hpc, target, mQuickFinishMux>>
vars == <<queueVars, taskVars, helperVars, mInPluginThreadNum>>

(* "current": in mCurrentProcessNodes of the pipeline, not yet enqueued.     *)
RequestState == {"new", "current", "enqueued", "served"}

(* "queued": in the pool; "work": has a pipeline, about to get its buffers;  *)
(* "plugin": in the plugin; "leaving": out of it, about to test the wait     *)
(* predicate; "asleep": in mQuickFinishCond; "notify": about to call         *)
(* notifyNextNode; "next": about to look for another pipeline; "end": about  *)
(* to decrease the session's count.                                          *)
TaskState == {"none", "queued", "work", "plugin", "leaving", "asleep",
              "notify", "next", "end", "done"}
Alive(t) == pc[t] \notin {"none", "done"}
InPlugin(t) == pc[t] \in {"plugin", "leaving", "asleep"}

Init ==
  /\ mRequestQueue = {} /\ mPipeline = NoRequest /\ mHasProcessThread = FALSE
  /\ mNodeThreadNum = 0 /\ mInPluginThreadNum = 0
  /\ mQuickFinishMux = NoRequest
  /\ req = [r \in Request |-> "new"]
  /\ pc = [t \in Request |-> "none"]
  /\ cur = [t \in Request |-> NoRequest]
  /\ mInputFrameNum = [t \in Request |-> 0]
  /\ hpc = [h \in Helper |-> "none"]
  /\ target = [h \in Helper |-> NoRequest]

-----------------------------------------------------------------------------
(* The main loop of pipeline r records the node in mCurrentProcessNodes and  *)
(* then calls enqueueTask.                                                   *)
Record(r) ==
  /\ req[r] = "new"
  /\ req' = [req EXCEPT ![r] = "current"]
  /\ UNCHANGED <<queueVars, helperVars, mInPluginThreadNum, pc, cur,
                 mInputFrameNum, mNodeThreadNum>>

(* The top of the priority queue.                                            *)
Top(Q) == CHOOSE r \in Q : \A s \in Q : Priority[s] <= Priority[r]

StartTask(r) ==
  /\ mNodeThreadNum' = mNodeThreadNum + 1
  /\ pc' = [pc EXCEPT ![r] = "queued"]

(* Mutated form: the thread is started for any request that finds no thread, *)
(* but the flag is not set.                                                  *)
enqueueTask_unflagged(r) ==
  LET Q == mRequestQueue \cup {r}
      highest == mPipeline = NoRequest /\ r = Top(Q)
  IN  /\ req[r] = "current"
      /\ req' = [req EXCEPT ![r] = "enqueued"]
      /\ mRequestQueue' = IF highest THEN Q \ {r} ELSE Q
      /\ mPipeline' = IF highest THEN r ELSE mPipeline
      /\ IF ~mHasProcessThread THEN StartTask(r)
                               ELSE UNCHANGED <<mNodeThreadNum, pc>>
      /\ UNCHANGED <<helperVars, mHasProcessThread, mInPluginThreadNum, cur,
                     mInputFrameNum>>

(* Under mProcessLock.  Only OtherNode and SigframeNode keep mPipeline.      *)
enqueueTask(r) ==
  LET Q == mRequestQueue \cup {r}
      highest == ~Concurrent /\ mPipeline = NoRequest /\ r = Top(Q)
  IN  /\ req[r] = "current"
      /\ req' = [req EXCEPT ![r] = "enqueued"]
      /\ mRequestQueue' = IF highest THEN Q \ {r} ELSE Q
      /\ mPipeline' = IF highest THEN r ELSE mPipeline
      /\ IF Concurrent \/ (highest /\ ~mHasProcessThread)
           THEN StartTask(r) /\ mHasProcessThread' = ~Concurrent
           ELSE UNCHANGED <<mNodeThreadNum, pc, mHasProcessThread>>
      /\ UNCHANGED <<helperVars, mInPluginThreadNum, cur, mInputFrameNum>>

-----------------------------------------------------------------------------
(* processTask                                                               *)

Goto(t, p) == pc' = [pc EXCEPT ![t] = p]

(* The task reads mPipeline without a lock ...                               *)
ReadPipeline(t) ==
  /\ pc[t] = "queued" /\ ~Concurrent
  /\ cur' = [cur EXCEPT ![t] = mPipeline]
  /\ Goto(t, "work")
  /\ UNCHANGED <<queueVars, helperVars, mInPluginThreadNum, req, mInputFrameNum,
                 mNodeThreadNum>>

(* Mutated form: the request is read and left in the queue.                  *)
PopPipeline_unpopped(t) ==
  /\ pc[t] = "queued" /\ Concurrent
  /\ mRequestQueue # {}
  /\ cur' = [cur EXCEPT ![t] = Top(mRequestQueue)]
  /\ Goto(t, "work")
  /\ UNCHANGED <<queueVars, helperVars, mInPluginThreadNum, req, mInputFrameNum,
                 mNodeThreadNum>>

(* ... or, in a concurrent or virtual node, takes the top of the queue.  If  *)
(* it finds none it returns without decreasing the session's count.          *)
PopPipeline(t) ==
  /\ pc[t] = "queued" /\ Concurrent
  /\ IF mRequestQueue # {}
       THEN /\ cur' = [cur EXCEPT ![t] = Top(mRequestQueue)]
            /\ mRequestQueue' = mRequestQueue \ {Top(mRequestQueue)}
            /\ Goto(t, "work")
       ELSE Goto(t, "done") /\ UNCHANGED <<cur, mRequestQueue>>
  /\ UNCHANGED <<mPipeline, mHasProcessThread, helperVars, mInPluginThreadNum,
                 req, mInputFrameNum, mNodeThreadNum>>

(* The inputs or outputs are not there, or the request is flushed.           *)
RequestFails(t) ==
  /\ pc[t] = "work" /\ MayFail
  /\ Goto(t, "notify")
  /\ UNCHANGED <<queueVars, helperVars, mInPluginThreadNum, req, cur,
                 mInputFrameNum, mNodeThreadNum>>

EnterPlugin(t) ==
  /\ pc[t] = "work"
  /\ mInPluginThreadNum' = mInPluginThreadNum + 1
  /\ mInputFrameNum' = [mInputFrameNum EXCEPT ![t] = @ + 1]
  /\ Goto(t, "plugin")
  /\ UNCHANGED <<queueVars, helperVars, req, cur, mNodeThreadNum>>

PluginReturns(t) ==
  /\ pc[t] = "plugin"
  /\ Goto(t, "leaving")
  /\ UNCHANGED <<queueVars, helperVars, mInPluginThreadNum, req, cur,
                 mInputFrameNum, mNodeThreadNum>>

AfterPlugin(t) == IF mInputFrameNum[t] < Frames THEN "work" ELSE "notify"

(* Mutated form: the task does not wait for the helper.                      *)
LeavePlugin_hasty(t) ==
  /\ pc[t] = "leaving"
  /\ mInPluginThreadNum' = mInPluginThreadNum - 1
  /\ Goto(t, AfterPlugin(t))
  /\ UNCHANGED <<queueVars, helperVars, req, cur, mInputFrameNum,
                 mNodeThreadNum>>

(* The predicate of mQuickFinishCond.wait, under mQuickFinishMux: the last   *)
(* one inside takes itself off the count, everyone else waits for 0.         *)
LeavePlugin(t) ==
  /\ pc[t] = "leaving" /\ mQuickFinishMux = NoRequest
  /\ IF mInPluginThreadNum \in {0, 1}
       THEN mInPluginThreadNum' = 0 /\ Goto(t, AfterPlugin(t))
       ELSE Goto(t, "asleep") /\ UNCHANGED mInPluginThreadNum
  /\ UNCHANGED <<queueVars, helperVars, req, cur, mInputFrameNum,
                 mNodeThreadNum>>

SpuriousWakeup(t) ==
  /\ pc[t] = "asleep"
  /\ Goto(t, "leaving")
  /\ UNCHANGED <<queueVars, helperVars, mInPluginThreadNum, req, cur,
                 mInputFrameNum, mNodeThreadNum>>

(* notifyNextNode first takes mRecordProcessNodeLock of the pipeline, which  *)
(* a quickFinish of that pipeline holds.                                     *)
Notify(t) ==
  /\ pc[t] = "notify"
  /\ \A h \in Helper : hpc[h] = "compare" => target[h] # cur[t]
  /\ req' = [req EXCEPT ![cur[t]] = "served"]
  /\ mInputFrameNum' = [mInputFrameNum EXCEPT ![t] = 0]
  /\ Goto(t, IF Concurrent THEN "end" ELSE "next")
  /\ UNCHANGED <<queueVars, helperVars, mInPluginThreadNum, cur, mNodeThreadNum>>

(* Mutated form: the flag is reset although a request is waiting.            *)
NextRequest_dropped(t) ==
  /\ pc[t] = "next"
  /\ mPipeline' = NoRequest
  /\ mHasProcessThread' = FALSE
  /\ Goto(t, "end")
  /\ cur' = [cur EXCEPT ![t] = NoRequest]
  /\ UNCHANGED <<mRequestQueue, helperVars, mInPluginThreadNum, req,
                 mInputFrameNum, mNodeThreadNum>>

(* Under mProcessLock: serve the next pipeline or give the thread up.        *)
NextRequest(t) ==
  /\ pc[t] = "next"
  /\ cur' = [cur EXCEPT ![t] = NoRequest]
  /\ IF mRequestQueue # {}
       THEN /\ mPipeline' = Top(mRequestQueue)
            /\ mRequestQueue' = mRequestQueue \ {Top(mRequestQueue)}
            /\ Goto(t, "queued")
            /\ UNCHANGED mHasProcessThread
       ELSE /\ mPipeline' = NoRequest
            /\ mHasProcessThread' = FALSE
            /\ Goto(t, "end")
            /\ UNCHANGED mRequestQueue
  /\ UNCHANGED <<helperVars, mInPluginThreadNum, req, mInputFrameNum,
                 mNodeThreadNum>>

TaskEnds(t) ==
  /\ pc[t] = "end"
  /\ mNodeThreadNum' = mNodeThreadNum - 1
  /\ Goto(t, "done")
  /\ UNCHANGED <<queueVars, helperVars, mInPluginThreadNum, req, cur,
                 mInputFrameNum>>

TaskStep(t) ==
  \/ ReadPipeline(t) \/ PopPipeline(t) \/ RequestFails(t) \/ EnterPlugin(t)
  \/ PluginReturns(t) \/ LeavePlugin(t) \/ Notify(t) \/ NextRequest(t)
  \/ TaskEnds(t)

-----------------------------------------------------------------------------
(* quickFinish and its helper thread                                         *)

HGoto(h, p) == hpc' = [hpc EXCEPT ![h] = p]

(* Pipeline r lists the node in mCurrentProcessNodes.  The order of the      *)
(* tests is the code's: the count, then the pipeline's name, then the mask.  *)
quickFinish(h, r) ==
  /\ hpc[h] = "none" /\ mQuickFinishMux = NoRequest
  /\ req[r] \in {"current", "enqueued"}
  /\ target' = [target EXCEPT ![h] = r]
  /\ IF mInPluginThreadNum = 1
       THEN HGoto(h, "compare") /\ mQuickFinishMux' = h
       ELSE HGoto(h, "done") /\ UNCHANGED mQuickFinishMux
  /\ UNCHANGED <<queueVars, taskVars, mInPluginThreadNum>>

(* strcmp: several pipelines may have one name, or none.                     *)
SameName(r, s) == r # NoRequest /\ Name[r] = Name[s]

(* Mutated form: the helper is not counted.                                  *)
Compare_uncounted(h) ==
  /\ hpc[h] = "compare"
  /\ HGoto(h, IF SameName(mPipeline, target[h]) /\ ~Concurrent THEN "flush" ELSE "done")
  /\ mQuickFinishMux' = NoRequest
  /\ UNCHANGED <<queueVars, taskVars, target, mInPluginThreadNum>>

(* Under mProcessLock and mQuickFinishMux; a helper is counted before it is  *)
(* started.  (In a concurrent node mPipeline is nullptr, and the code reads  *)
(* its name before it looks at the mask: it would not get past the test.)    *)
Compare(h) ==
  /\ hpc[h] = "compare"
  /\ IF SameName(mPipeline, target[h]) /\ ~Concurrent
       THEN mInPluginThreadNum' = mInPluginThreadNum + 1 /\ HGoto(h, "flush")
       ELSE HGoto(h, "done") /\ UNCHANGED mInPluginThreadNum
  /\ mQuickFinishMux' = NoRequest
  /\ UNCHANGED <<queueVars, taskVars, target>>

(* The helper: flush the plugin, then decrease the count without the lock.   *)
HelperFlushed(h) ==
  /\ hpc[h] = "flush"
  /\ mInPluginThreadNum' = mInPluginThreadNum - 1
  /\ HGoto(h, "notify")
  /\ UNCHANGED <<queueVars, taskVars, target, mQuickFinishMux>>

(* Mutated form: the helper does not notify.                                 *)
HelperNotifies_silent(h) ==
  /\ hpc[h] = "notify" /\ mQuickFinishMux = NoRequest
  /\ HGoto(h, "done")
  /\ UNCHANGED <<queueVars, taskVars, target, mQuickFinishMux,
                 mInPluginThreadNum>>

HelperNotifies(h) ==
  /\ hpc[h] = "notify" /\ mQuickFinishMux = NoRequest
  /\ HGoto(h, "done")
  /\ IF \E t \in Request : pc[t] = "asleep"
       THEN \E t \in Request : pc[t] = "asleep" /\ Goto(t, "leaving")
       ELSE UNCHANGED pc
  /\ UNCHANGED <<queueVars, req, cur, mInputFrameNum, mNodeThreadNum, target,
                 mQuickFinishMux, mInPluginThreadNum>>

HelperStep(h) == Compare(h) \/ HelperFlushed(h) \/ HelperNotifies(h)

Terminated ==
  /\ \A r \in Request : req[r] = "served" /\ ~Alive(r)
  /\ \A h \in Helper : hpc[h] \in {"none", "done"}
  /\ UNCHANGED vars

Next ==
  \/ \E r \in Request : Record(r) \/ enqueueTask(r) \/ TaskStep(r)
                        \/ SpuriousWakeup(r)
  \/ \E h \in Helper : HelperStep(h) \/ \E r \in Request : quickFinish(h, r)
  \/ Terminated

Spec == Init /\ [][Next]_vars

(* The pool runs its tasks, plugins return, threads are scheduled.  Nobody   *)
(* has to submit a request or call quickFinish.                              *)
Fairness ==
  /\ \A t \in Request : WF_vars(enqueueTask(t)) /\ WF_vars(TaskStep(t))
  /\ \A h \in Helper : WF_vars(HelperStep(h))
FairSpec == Spec /\ Fairness

-----------------------------------------------------------------------------
(* Every variable has a value of its type; the counts never fall below 0.    *)
TypeOK ==
  /\ mRequestQueue \subseteq Request
  /\ mPipeline \in Request \cup {NoRequest}
  /\ mHasProcessThread \in BOOLEAN
  /\ mNodeThreadNum \in Nat /\ mInPluginThreadNum \in Nat
  /\ mQuickFinishMux \in Helper \cup {NoRequest}
  /\ req \in [Request -> RequestState]
  /\ pc \in [Request -> TaskState]
  /\ cur \in [Request -> Request \cup {NoRequest}]
  /\ mInputFrameNum \in [Request -> 0 .. Frames]
  /\ hpc \in [Helper -> {"none", "compare", "flush", "notify", "done"}]
  /\ target \in [Helper -> Request \cup {NoRequest}]

(* A waiting request always has a task that will take it: in a node that is  *)
(* not concurrent the thread's flag, mPipeline and the queue agree, so that  *)
(* `highestPriorityRequest' (MiaNode.cpp:1081, 1280) never leaves a request  *)
(* behind; in a concurrent node each queued pipeline has a task of its own.  *)
NoneStranded ==
  IF Concurrent
    THEN Cardinality({t \in Request : pc[t] = "queued"}) = Cardinality(mRequestQueue)
    ELSE /\ mHasProcessThread <=> (mPipeline # NoRequest)
         /\ mHasProcessThread <=> \E t \in Request : Alive(t) /\ pc[t] # "end"
         /\ mPipeline = NoRequest => mRequestQueue = {}

(* A helper flushes the plugin only while a request of the name that was     *)
(* asked for is inside processRequest, never another one that was started    *)
(* meanwhile.  If names are not unique it may not be the request that asked. *)
FlushesNamesake ==
  \A h \in Helper : hpc[h] = "flush" =>
    \E t \in Request : SameName(cur[t], target[h]) /\ InPlugin(t)

(* Each request is served exactly once, one at a time unless the node is     *)
(* concurrent (MiaNode.h:201).                                               *)
Server == INSTANCE RequestServer WITH
  Parallel <- Concurrent,
  waiting <- {r \in Request : req[r] = "enqueued"}
               \ {cur[t] : t \in {u \in Request : Alive(u)}},
  busy <- {cur[t] : t \in {u \in Request : pc[u] \in
             {"work", "plugin", "leaving", "asleep", "notify"}}},
  served <- {r \in Request : req[r] = "served"}
ServesEachOnce == Server!Spec

(* A request handed to the node is served, whatever else is enqueued and     *)
(* whenever quickFinish interferes.                                          *)
RequestsServed ==
  \A r \in Request : (req[r] = "current") ~> (req[r] = "served")

=============================================================================
