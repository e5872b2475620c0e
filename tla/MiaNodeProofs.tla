--------------------------- MODULE MiaNodeProofs ---------------------------
(***************************************************************************)
(* Safety of a node and the refinement of RequestServer, for every set of  *)
(* pipelines and of quickFinish calls, serial or concurrent, with any      *)
(* number of frames and with failing requests or without.                  *)
(***************************************************************************)
EXTENDS MiaNode, FiniteSetTheorems, WellFoundedInduction, TLAPS

----------------------------------------------------------------------------
(* The inductive invariant. *)

\* Inside processRequest, and inside the loop of processTask.
Serving(t) == pc[t] \in {"work", "plugin", "leaving", "asleep", "notify"}
Occupied(t) == pc[t] \notin {"none", "end", "done"}

\* A pipeline's own task exists only once the pipeline is enqueued; a task has
\* a pipeline while it serves it, and before the next one has none or one that
\* it has served.
TaskInv ==
  \A t \in Request :
    /\ req[t] \in {"new", "current"} => pc[t] = "none"
    /\ pc[t] \in {"none", "queued"} => cur[t] = NoRequest
    /\ pc[t] \in {"next", "end", "done"} /\ cur[t] # NoRequest => req[cur[t]] = "served"
    /\ pc[t] = "work" => mInputFrameNum[t] < Frames
    /\ pc[t] \in {"none", "queued", "next", "end", "done"} => mInputFrameNum[t] = 0

\* A pipeline is in the queue or with one task, never both.
ServeInv ==
  /\ \A r \in mRequestQueue : req[r] = "enqueued"
  /\ \A t \in Request : Serving(t) =>
        cur[t] \in Request /\ req[cur[t]] = "enqueued" /\ cur[t] \notin mRequestQueue
  /\ \A t, u \in Request : Serving(t) /\ Serving(u) /\ cur[t] = cur[u] => t = u

\* The tasks that the session counts, and those that have no pipeline yet.
AliveTasks == {t \in Request : Alive(t)}
QueuedTasks == {t \in Request : pc[t] = "queued"}

CountInv == mNodeThreadNum = Cardinality(AliveTasks)

\* A serial node: one task in the loop at most, exactly when the flag is set,
\* and mPipeline is its pipeline.
SerialInv ==
  ~Concurrent =>
    /\ mHasProcessThread <=> mPipeline # NoRequest
    /\ mHasProcessThread <=> \E t \in Request : Occupied(t)
    /\ \A t, u \in Request : Occupied(t) /\ Occupied(u) => t = u
    /\ mPipeline = NoRequest => mRequestQueue = {}
    /\ \A t \in Request : pc[t] = "queued" =>
          req[mPipeline] = "enqueued" /\ mPipeline \notin mRequestQueue
    /\ \A t \in Request : Serving(t) => cur[t] = mPipeline

\* A concurrent node: as many tasks without a pipeline as queued pipelines.
ConcInv ==
  Concurrent =>
    /\ mPipeline = NoRequest
    /\ \A h \in Helper : hpc[h] # "flush"
    /\ \A t \in Request : pc[t] # "next"
    /\ Cardinality(QueuedTasks) = Cardinality(mRequestQueue)

\* mInPluginThreadNum of a serial node counts the task in the plugin and the
\* helper that flushes it; a quickFinish that holds the lock keeps it at 1.
HelperInv ==
  /\ \A h \in Helper : hpc[h] = "compare" <=> mQuickFinishMux = h
  /\ \A h \in Helper : hpc[h] # "none" => target[h] \in Request
  /\ ~Concurrent =>
       /\ \A h, i \in Helper : hpc[h] = "flush" /\ hpc[i] = "flush" => h = i
       /\ (\A t \in Request : ~InPlugin(t)) => mInPluginThreadNum = 0
       /\ (\E t \in Request : InPlugin(t)) /\ (\A h \in Helper : hpc[h] # "flush")
             => mInPluginThreadNum = 1
       /\ (\E h \in Helper : hpc[h] = "flush") => mInPluginThreadNum = 2
       /\ mQuickFinishMux # NoRequest => mInPluginThreadNum = 1

IInv == /\ TypeOK /\ TaskInv /\ ServeInv /\ CountInv /\ SerialInv /\ ConcInv
        /\ HelperInv /\ FlushesNamesake

----------------------------------------------------------------------------
(* Facts about the operators. *)

\* Every non-empty set of pipelines has a top, by induction on finite sets.
LEMMA TopExists ==
  ASSUME NEW Q \in SUBSET Request, Q # {}
  PROVE  \E r \in Q : \A s \in Q : Priority[s] <= Priority[r]
<1> DEFINE HasTop(S) == \E r \in S : \A s \in S : Priority[s] <= Priority[r]
           Bad == {S \in SUBSET Request : S # {} /\ ~HasTop(S)}
<1>1. IsWellFoundedOn(StrictSubsetOrdering(Request), SUBSET Request)
  BY NodeAssumption, FS_StrictSubsetOrderingWellFounded, FS_FiniteSubsetsOfFinite
<1>2. SUFFICES ASSUME Bad # {}
               PROVE  FALSE
  OBVIOUS
<1>3. PICK S \in Bad : \A T \in Bad : ~(<<T, S>> \in StrictSubsetOrdering(Request))
  <2> HIDE DEF Bad
  <2>1. Bad \subseteq SUBSET Request
    BY DEF Bad
  <2>2. QED
    BY <1>1, <1>2, <2>1, WFMin
<1>4. PICK q \in S : TRUE
  OBVIOUS
<1>5. S \ {q} \notin Bad
  BY <1>3, <1>4 DEF StrictSubsetOrdering
<1>6. CASE S = {q}
  BY <1>6, NodeAssumption
<1>7. CASE S # {q}
  <2>1. PICK m \in S \ {q} : \A s \in S \ {q} : Priority[s] <= Priority[m]
    BY <1>4, <1>5, <1>7
  <2>2. Priority[m] \in Int /\ Priority[q] \in Int /\ \A s \in S : Priority[s] \in Int
    BY <1>4, <2>1, NodeAssumption
  <2>3. CASE Priority[q] <= Priority[m]
    BY <2>1, <2>3
  <2>4. CASE Priority[m] <= Priority[q]
    BY <1>4, <2>1, <2>2, <2>4
  <2>5. QED
    BY <2>2, <2>3, <2>4
<1>8. QED
  BY <1>6, <1>7

\* The top of a queue is in the queue; that of a single pipeline is that one.
LEMMA TopInQueue ==
  ASSUME NEW Q \in SUBSET Request, Q # {}
  PROVE  Top(Q) \in Q
BY TopExists DEF Top

LEMMA TopOfOne ==
  ASSUME NEW r \in Request
  PROVE  Top({r}) = r
BY TopInQueue

\* Sets of pipelines are finite.
LEMMA FiniteTasks ==
  /\ IsFiniteSet(AliveTasks) /\ IsFiniteSet(QueuedTasks)
  /\ AliveTasks \subseteq Request /\ QueuedTasks \subseteq Request
  /\ \A Q \in SUBSET Request : IsFiniteSet(Q)
BY NodeAssumption, FS_Subset DEF AliveTasks, QueuedTasks

----------------------------------------------------------------------------
(* What the actions with a choice do. *)

\* enqueueTask of a serial node that serves nobody takes the pipeline itself
\* and starts the task.
LEMMA EnqueueFirst ==
  ASSUME TypeOK, SerialInv, ~Concurrent, NEW r \in Request, enqueueTask(r), mPipeline = NoRequest
  PROVE  /\ mRequestQueue = {} /\ mRequestQueue' = {} /\ mPipeline' = r
         /\ mHasProcessThread = FALSE /\ mHasProcessThread' = TRUE
         /\ StartTask(r)
<1>1. mRequestQueue = {} /\ ~mHasProcessThread
  BY DEF SerialInv
<1>2. r = Top(mRequestQueue \cup {r})
  BY <1>1, TopOfOne
<1>3. QED
  BY <1>1, <1>2 DEF enqueueTask, TypeOK

\* One that serves somebody queues the pipeline.
LEMMA EnqueueNext ==
  ASSUME TypeOK, ~Concurrent, NEW r \in Request, enqueueTask(r), mPipeline # NoRequest
  PROVE  /\ mRequestQueue' = mRequestQueue \cup {r}
         /\ UNCHANGED <<mPipeline, mHasProcessThread, mNodeThreadNum, pc>>
BY DEF enqueueTask

\* A concurrent node queues the pipeline and starts a task for it.
LEMMA EnqueueConcurrent ==
  ASSUME TypeOK, Concurrent, NEW r \in Request, enqueueTask(r)
  PROVE  /\ mRequestQueue' = mRequestQueue \cup {r}
         /\ mPipeline' = mPipeline /\ StartTask(r) /\ mHasProcessThread' = FALSE
BY DEF enqueueTask

\* What enqueueTask does in every case.
LEMMA EnqueueFacts ==
  ASSUME TypeOK, SerialInv, NEW r \in Request, enqueueTask(r)
  PROVE  /\ req[r] = "current" /\ req' = [req EXCEPT ![r] = "enqueued"]
         /\ UNCHANGED <<helperVars, mInPluginThreadNum, cur, mInputFrameNum>>
         /\ mRequestQueue' \subseteq mRequestQueue \cup {r}
         /\ mRequestQueue \subseteq mRequestQueue'
         /\ StartTask(r) \/ UNCHANGED <<mNodeThreadNum, pc>>
<1>1. req[r] = "current" /\ req' = [req EXCEPT ![r] = "enqueued"]
      /\ UNCHANGED <<helperVars, mInPluginThreadNum, cur, mInputFrameNum>>
  BY DEF enqueueTask
<1>2. CASE Concurrent
  BY <1>1, <1>2, EnqueueConcurrent
<1>3. CASE ~Concurrent /\ mPipeline = NoRequest
  BY <1>1, <1>3, EnqueueFirst
<1>4. CASE ~Concurrent /\ mPipeline # NoRequest
  BY <1>1, <1>4, EnqueueNext
<1>5. QED
  BY <1>2, <1>3, <1>4, NodeAssumption

\* A notification wakes one task or finds none.
LEMMA NotifyFacts ==
  ASSUME TypeOK, NEW h \in Helper, HelperNotifies(h)
  PROVE  pc' = pc \/ \E t \in Request : pc[t] = "asleep" /\ pc' = [pc EXCEPT ![t] = "leaving"]
BY DEF HelperNotifies, Goto

----------------------------------------------------------------------------
(* Every step keeps the invariant. *)

\* Every step keeps the types.
LEMMA TypeStepInv ==
  TypeOK /\ TaskInv /\ ServeInv /\ SerialInv /\ ConcInv /\ HelperInv /\ CountInv' /\ [Next]_vars
    => TypeOK'
<1> SUFFICES ASSUME TypeOK, TaskInv, ServeInv, SerialInv, ConcInv, HelperInv, CountInv', [Next]_vars
             PROVE  TypeOK'
  OBVIOUS
<1> USE NodeAssumption DEF TypeOK, RequestState, TaskState, queueVars, taskVars, helperVars, Goto, HGoto
<1>1. ASSUME NEW r \in Request, Record(r)
      PROVE  TypeOK'
  BY <1>1 DEF Record
<1>2. ASSUME NEW r \in Request, enqueueTask(r)
      PROVE  TypeOK'
  <2>1. req' \in [Request -> RequestState] /\ pc' \in [Request -> TaskState]
    BY <1>2, EnqueueFacts DEF StartTask
  <2>2. mRequestQueue' \subseteq Request /\ UNCHANGED <<helperVars, mInPluginThreadNum, cur, mInputFrameNum>>
    BY <1>2, EnqueueFacts
  <2>3. mNodeThreadNum' \in Nat
    BY <1>2, EnqueueFacts DEF StartTask
  <2>4. mPipeline' \in Request \cup {NoRequest}
    BY <1>2 DEF enqueueTask
  <2>5. mHasProcessThread' \in BOOLEAN
    BY <1>2, EnqueueConcurrent, EnqueueFirst, EnqueueNext, NodeAssumption
  <2>6. QED
    BY <2>1, <2>2, <2>3, <2>4, <2>5
<1>3. ASSUME NEW r \in Request, ReadPipeline(r)
      PROVE  TypeOK'
  BY <1>3 DEF ReadPipeline
<1>4. ASSUME NEW r \in Request, PopPipeline(r)
      PROVE  TypeOK'
  BY <1>4, TopInQueue DEF PopPipeline
<1>5. ASSUME NEW r \in Request, RequestFails(r)
      PROVE  TypeOK'
  BY <1>5 DEF RequestFails
<1>6. ASSUME NEW r \in Request, EnterPlugin(r)
      PROVE  TypeOK'
  <2>1. mInputFrameNum[r] + 1 \in 0 .. Frames
    BY <1>6 DEF EnterPlugin, TaskInv
  <2>2. mInputFrameNum' \in [Request -> 0 .. Frames]
    BY <1>6, <2>1 DEF EnterPlugin
  <2>3. QED
    BY <1>6, <2>2 DEF EnterPlugin
<1>7. ASSUME NEW r \in Request, PluginReturns(r)
      PROVE  TypeOK'
  BY <1>7 DEF PluginReturns
<1>8. ASSUME NEW r \in Request, LeavePlugin(r)
      PROVE  TypeOK'
  <2>1. CASE mInPluginThreadNum \in {0, 1}
    <3>1. mInPluginThreadNum' = 0 /\ pc' = [pc EXCEPT ![r] = AfterPlugin(r)]
      BY <1>8, <2>1 DEF LeavePlugin
    <3>2. QED
      BY <1>8, <3>1 DEF LeavePlugin, AfterPlugin
  <2>2. CASE mInPluginThreadNum \notin {0, 1}
    <3>1. mInPluginThreadNum' = mInPluginThreadNum /\ pc' = [pc EXCEPT ![r] = "asleep"]
      BY <1>8, <2>2 DEF LeavePlugin
    <3>2. QED
      BY <1>8, <3>1 DEF LeavePlugin
  <2>3. QED
    BY <2>1, <2>2
<1>9. ASSUME NEW r \in Request, Notify(r)
      PROVE  TypeOK'
  <2>1. req' \in [Request -> RequestState]
    BY <1>9 DEF Notify
  <2>2. pc' \in [Request -> TaskState]
    BY <1>9 DEF Notify
  <2>3. mInputFrameNum' \in [Request -> 0 .. Frames]
    BY <1>9 DEF Notify
  <2>4. QED
    BY <1>9, <2>1, <2>2, <2>3 DEF Notify
<1>10. ASSUME NEW r \in Request, NextRequest(r)
      PROVE  TypeOK'
  BY <1>10, TopInQueue DEF NextRequest
<1>11. ASSUME NEW r \in Request, TaskEnds(r)
      PROVE  TypeOK'
  <2>1. mNodeThreadNum' \in Nat
    BY FiniteTasks, FS_CardinalityType, FS_Subset DEF CountInv, AliveTasks
  <2>2. QED
    BY <1>11, <2>1 DEF TaskEnds
<1>12. ASSUME NEW r \in Request, SpuriousWakeup(r)
      PROVE  TypeOK'
  BY <1>12 DEF SpuriousWakeup
<1>13. ASSUME NEW h \in Helper, Compare(h)
      PROVE  TypeOK'
  BY <1>13 DEF Compare
<1>14. ASSUME NEW h \in Helper, HelperFlushed(h)
      PROVE  TypeOK'
  <2>1. mInPluginThreadNum = 2
    BY <1>14 DEF HelperFlushed, HelperInv, ConcInv
  <2>2. QED
    BY <1>14, <2>1 DEF HelperFlushed
<1>15. ASSUME NEW h \in Helper, HelperNotifies(h)
      PROVE  TypeOK'
  BY <1>15 DEF HelperNotifies
<1>16. ASSUME NEW h \in Helper, NEW r \in Request, quickFinish(h, r)
      PROVE  TypeOK'
  BY <1>16 DEF quickFinish
<1>17. ASSUME Terminated
      PROVE  TypeOK'
  BY <1>17 DEF Terminated, vars
<1>18. CASE UNCHANGED vars
  BY <1>18 DEF vars
<1> HIDE DEF TypeOK
<1>19. QED
  BY <1>1, <1>2, <1>3, <1>4, <1>5, <1>6, <1>7, <1>8, <1>9, <1>10, <1>11, <1>12, <1>13,
     <1>14, <1>15, <1>16, <1>17, <1>18 DEF Next, TaskStep, HelperStep


\* A task has a pipeline exactly while it serves one.
LEMMA TaskStepInv == TypeOK /\ TaskInv /\ ServeInv /\ SerialInv /\ [Next]_vars => TaskInv'
<1> SUFFICES ASSUME TypeOK, TaskInv, ServeInv, SerialInv, [Next]_vars
             PROVE  TaskInv'
  OBVIOUS
<1> USE NodeAssumption DEF TypeOK, TaskInv, queueVars, taskVars, helperVars, Goto, HGoto
<1>1. ASSUME NEW r \in Request, Record(r)
      PROVE  TaskInv'
  BY <1>1 DEF Record
<1>2. ASSUME NEW r \in Request, enqueueTask(r)
      PROVE  TaskInv'
  <2>1. CASE Concurrent
    BY <1>2, <2>1, EnqueueFacts, EnqueueConcurrent DEF StartTask
  <2>2. CASE ~Concurrent /\ mPipeline = NoRequest
    BY <1>2, <2>2, EnqueueFacts, EnqueueFirst DEF StartTask
  <2>3. CASE ~Concurrent /\ mPipeline # NoRequest
    BY <1>2, <2>3, EnqueueFacts, EnqueueNext
  <2>4. QED
    BY <2>1, <2>2, <2>3, NodeAssumption
<1>3. ASSUME NEW r \in Request, ReadPipeline(r)
      PROVE  TaskInv'
  BY <1>3 DEF ReadPipeline
<1>4. ASSUME NEW r \in Request, PopPipeline(r)
      PROVE  TaskInv'
  BY <1>4 DEF PopPipeline
<1>5. ASSUME NEW r \in Request, RequestFails(r)
      PROVE  TaskInv'
  BY <1>5 DEF RequestFails
<1>6. ASSUME NEW r \in Request, EnterPlugin(r)
      PROVE  TaskInv'
  BY <1>6 DEF EnterPlugin
<1>7. ASSUME NEW r \in Request, PluginReturns(r)
      PROVE  TaskInv'
  BY <1>7 DEF PluginReturns
<1>8. ASSUME NEW r \in Request, LeavePlugin(r)
      PROVE  TaskInv'
  <2>1. CASE mInPluginThreadNum \in {0, 1}
    <3>1. mInPluginThreadNum' = 0 /\ pc' = [pc EXCEPT ![r] = AfterPlugin(r)]
      BY <1>8, <2>1 DEF LeavePlugin
    <3>2. QED
      BY <1>8, <3>1 DEF LeavePlugin, AfterPlugin
  <2>2. CASE mInPluginThreadNum \notin {0, 1}
    <3>1. mInPluginThreadNum' = mInPluginThreadNum /\ pc' = [pc EXCEPT ![r] = "asleep"]
      BY <1>8, <2>2 DEF LeavePlugin
    <3>2. QED
      BY <1>8, <3>1 DEF LeavePlugin
  <2>3. QED
    BY <2>1, <2>2
<1>9. ASSUME NEW r \in Request, Notify(r)
      PROVE  TaskInv'
  BY <1>9 DEF Notify, ServeInv, Serving
<1>10. ASSUME NEW r \in Request, NextRequest(r)
      PROVE  TaskInv'
  BY <1>10 DEF NextRequest
<1>11. ASSUME NEW r \in Request, TaskEnds(r)
      PROVE  TaskInv'
  BY <1>11 DEF TaskEnds
<1>12. ASSUME NEW r \in Request, SpuriousWakeup(r)
      PROVE  TaskInv'
  BY <1>12 DEF SpuriousWakeup
<1>13. ASSUME NEW h \in Helper, Compare(h)
      PROVE  TaskInv'
  BY <1>13 DEF Compare
<1>14. ASSUME NEW h \in Helper, HelperFlushed(h)
      PROVE  TaskInv'
  BY <1>14 DEF HelperFlushed
<1>15. ASSUME NEW h \in Helper, HelperNotifies(h)
      PROVE  TaskInv'
  BY <1>15 DEF HelperNotifies
<1>16. ASSUME NEW h \in Helper, NEW r \in Request, quickFinish(h, r)
      PROVE  TaskInv'
  BY <1>16 DEF quickFinish
<1>17. ASSUME Terminated
      PROVE  TaskInv'
  BY <1>17 DEF Terminated, vars
<1>18. CASE UNCHANGED vars
  BY <1>18 DEF vars
<1> HIDE DEF TypeOK, TaskInv
<1>19. QED
  BY <1>1, <1>2, <1>3, <1>4, <1>5, <1>6, <1>7, <1>8, <1>9, <1>10, <1>11, <1>12, <1>13,
     <1>14, <1>15, <1>16, <1>17, <1>18 DEF Next, TaskStep, HelperStep


\* A pipeline leaves the queue with the one task that takes it.
LEMMA ServeStep == TypeOK /\ TaskInv /\ ServeInv /\ SerialInv /\ [Next]_vars => ServeInv'
<1> SUFFICES ASSUME TypeOK, TaskInv, ServeInv, SerialInv, [Next]_vars
             PROVE  ServeInv'
  OBVIOUS
<1> USE NodeAssumption DEF TypeOK, ServeInv, Serving, queueVars, taskVars, helperVars, Goto, HGoto
<1>1. ASSUME NEW r \in Request, Record(r)
      PROVE  ServeInv'
  BY <1>1 DEF Record
<1>2. ASSUME NEW r \in Request, enqueueTask(r)
      PROVE  ServeInv'
  <2>1. CASE Concurrent
    BY <1>2, <2>1, EnqueueFacts, EnqueueConcurrent DEF StartTask
  <2>2. CASE ~Concurrent /\ mPipeline = NoRequest
    BY <1>2, <2>2, EnqueueFacts, EnqueueFirst DEF StartTask
  <2>3. CASE ~Concurrent /\ mPipeline # NoRequest
    BY <1>2, <2>3, EnqueueFacts, EnqueueNext
  <2>4. QED
    BY <2>1, <2>2, <2>3, NodeAssumption
<1>3. ASSUME NEW r \in Request, ReadPipeline(r)
      PROVE  ServeInv'
  <2>1. mPipeline \in Request /\ req[mPipeline] = "enqueued" /\ mPipeline \notin mRequestQueue
    BY <1>3 DEF ReadPipeline, SerialInv, Occupied
  <2>2. \A t \in Request : ~Serving(t)
    BY <1>3 DEF ReadPipeline, SerialInv, Occupied
  <2>3. QED
    BY <1>3, <2>1, <2>2 DEF ReadPipeline
<1>4. ASSUME NEW r \in Request, PopPipeline(r)
      PROVE  ServeInv'
  BY <1>4, TopInQueue DEF PopPipeline
<1>5. ASSUME NEW r \in Request, RequestFails(r)
      PROVE  ServeInv'
  BY <1>5 DEF RequestFails
<1>6. ASSUME NEW r \in Request, EnterPlugin(r)
      PROVE  ServeInv'
  BY <1>6 DEF EnterPlugin
<1>7. ASSUME NEW r \in Request, PluginReturns(r)
      PROVE  ServeInv'
  BY <1>7 DEF PluginReturns
<1>8. ASSUME NEW r \in Request, LeavePlugin(r)
      PROVE  ServeInv'
  <2>1. CASE mInPluginThreadNum \in {0, 1}
    <3>1. mInPluginThreadNum' = 0 /\ pc' = [pc EXCEPT ![r] = AfterPlugin(r)]
      BY <1>8, <2>1 DEF LeavePlugin
    <3>2. QED
      BY <1>8, <3>1 DEF LeavePlugin, AfterPlugin
  <2>2. CASE mInPluginThreadNum \notin {0, 1}
    <3>1. mInPluginThreadNum' = mInPluginThreadNum /\ pc' = [pc EXCEPT ![r] = "asleep"]
      BY <1>8, <2>2 DEF LeavePlugin
    <3>2. QED
      BY <1>8, <3>1 DEF LeavePlugin
  <2>3. QED
    BY <2>1, <2>2
<1>9. ASSUME NEW r \in Request, Notify(r)
      PROVE  ServeInv'
  BY <1>9 DEF Notify
<1>10. ASSUME NEW r \in Request, NextRequest(r)
      PROVE  ServeInv'
  BY <1>10, TopInQueue DEF NextRequest
<1>11. ASSUME NEW r \in Request, TaskEnds(r)
      PROVE  ServeInv'
  BY <1>11 DEF TaskEnds
<1>12. ASSUME NEW r \in Request, SpuriousWakeup(r)
      PROVE  ServeInv'
  BY <1>12 DEF SpuriousWakeup
<1>13. ASSUME NEW h \in Helper, Compare(h)
      PROVE  ServeInv'
  BY <1>13 DEF Compare
<1>14. ASSUME NEW h \in Helper, HelperFlushed(h)
      PROVE  ServeInv'
  BY <1>14 DEF HelperFlushed
<1>15. ASSUME NEW h \in Helper, HelperNotifies(h)
      PROVE  ServeInv'
  BY <1>15 DEF HelperNotifies
<1>16. ASSUME NEW h \in Helper, NEW r \in Request, quickFinish(h, r)
      PROVE  ServeInv'
  BY <1>16 DEF quickFinish
<1>17. ASSUME Terminated
      PROVE  ServeInv'
  BY <1>17 DEF Terminated, vars
<1>18. CASE UNCHANGED vars
  BY <1>18 DEF vars
<1> HIDE DEF TypeOK, ServeInv, Serving
<1>19. QED
  BY <1>1, <1>2, <1>3, <1>4, <1>5, <1>6, <1>7, <1>8, <1>9, <1>10, <1>11, <1>12, <1>13,
     <1>14, <1>15, <1>16, <1>17, <1>18 DEF Next, TaskStep, HelperStep


\* The flag, mPipeline, the queue and the one task of a serial node agree after every step.
LEMMA SerialStep == TypeOK /\ TaskInv /\ ServeInv /\ SerialInv /\ [Next]_vars => SerialInv'
<1> SUFFICES ASSUME TypeOK, TaskInv, ServeInv, SerialInv, [Next]_vars
             PROVE  SerialInv'
  OBVIOUS
<1> USE NodeAssumption DEF TypeOK, SerialInv, Serving, Occupied, queueVars, taskVars, helperVars, Goto, HGoto
<1>1. ASSUME NEW r \in Request, Record(r)
      PROVE  SerialInv'
  BY <1>1 DEF Record
<1>2. ASSUME NEW r \in Request, enqueueTask(r)
      PROVE  SerialInv'
  <2>1. CASE Concurrent
    BY <1>2, <2>1, EnqueueFacts, EnqueueConcurrent DEF StartTask, TaskInv
  <2>2. CASE ~Concurrent /\ mPipeline = NoRequest
    <3>1. \A t \in Request : ~Occupied(t)
      BY <2>2
    <3>2. pc' = [pc EXCEPT ![r] = "queued"] /\ req' = [req EXCEPT ![r] = "enqueued"] /\ cur' = cur
      BY <1>2, <2>2, EnqueueFacts, EnqueueFirst DEF StartTask
    <3>3. mHasProcessThread' = TRUE /\ mPipeline' = r /\ mRequestQueue' = {}
      BY <1>2, <2>2, EnqueueFirst
    <3>4. QED
      BY <3>1, <3>2, <3>3
  <2>3. CASE ~Concurrent /\ mPipeline # NoRequest
    BY <1>2, <2>3, EnqueueFacts, EnqueueNext DEF TaskInv
  <2>4. QED
    BY <2>1, <2>2, <2>3, NodeAssumption
<1>3. ASSUME NEW r \in Request, ReadPipeline(r)
      PROVE  SerialInv'
  BY <1>3 DEF ReadPipeline
<1>4. ASSUME NEW r \in Request, PopPipeline(r)
      PROVE  SerialInv'
  BY <1>4 DEF PopPipeline
<1>5. ASSUME NEW r \in Request, RequestFails(r)
      PROVE  SerialInv'
  BY <1>5 DEF RequestFails
<1>6. ASSUME NEW r \in Request, EnterPlugin(r)
      PROVE  SerialInv'
  BY <1>6 DEF EnterPlugin
<1>7. ASSUME NEW r \in Request, PluginReturns(r)
      PROVE  SerialInv'
  BY <1>7 DEF PluginReturns
<1>8. ASSUME NEW r \in Request, LeavePlugin(r)
      PROVE  SerialInv'
  <2>1. CASE mInPluginThreadNum \in {0, 1}
    <3>1. mInPluginThreadNum' = 0 /\ pc' = [pc EXCEPT ![r] = AfterPlugin(r)]
      BY <1>8, <2>1 DEF LeavePlugin
    <3>2. QED
      BY <1>8, <3>1 DEF LeavePlugin, AfterPlugin
  <2>2. CASE mInPluginThreadNum \notin {0, 1}
    <3>1. mInPluginThreadNum' = mInPluginThreadNum /\ pc' = [pc EXCEPT ![r] = "asleep"]
      BY <1>8, <2>2 DEF LeavePlugin
    <3>2. QED
      BY <1>8, <3>1 DEF LeavePlugin
  <2>3. QED
    BY <2>1, <2>2
<1>9. ASSUME NEW r \in Request, Notify(r)
      PROVE  SerialInv'
  BY <1>9 DEF Notify
<1>10. ASSUME NEW r \in Request, NextRequest(r)
      PROVE  SerialInv'
  <2>1. CASE mRequestQueue = {}
    BY <1>10, <2>1 DEF NextRequest
  <2>2. CASE mRequestQueue # {}
    <3>1. Top(mRequestQueue) \in mRequestQueue
      BY <2>2, TopInQueue
    <3>2. QED
      BY <1>10, <2>2, <3>1 DEF NextRequest, ServeInv
  <2>3. QED
    BY <2>1, <2>2
<1>11. ASSUME NEW r \in Request, TaskEnds(r)
      PROVE  SerialInv'
  BY <1>11 DEF TaskEnds
<1>12. ASSUME NEW r \in Request, SpuriousWakeup(r)
      PROVE  SerialInv'
  BY <1>12 DEF SpuriousWakeup
<1>13. ASSUME NEW h \in Helper, Compare(h)
      PROVE  SerialInv'
  BY <1>13 DEF Compare
<1>14. ASSUME NEW h \in Helper, HelperFlushed(h)
      PROVE  SerialInv'
  BY <1>14 DEF HelperFlushed
<1>15. ASSUME NEW h \in Helper, HelperNotifies(h)
      PROVE  SerialInv'
  BY <1>15 DEF HelperNotifies
<1>16. ASSUME NEW h \in Helper, NEW r \in Request, quickFinish(h, r)
      PROVE  SerialInv'
  BY <1>16 DEF quickFinish
<1>17. ASSUME Terminated
      PROVE  SerialInv'
  BY <1>17 DEF Terminated, vars
<1>18. CASE UNCHANGED vars
  BY <1>18 DEF vars
<1> HIDE DEF TypeOK, SerialInv, Serving, Occupied
<1>19. QED
  BY <1>1, <1>2, <1>3, <1>4, <1>5, <1>6, <1>7, <1>8, <1>9, <1>10, <1>11, <1>12, <1>13,
     <1>14, <1>15, <1>16, <1>17, <1>18 DEF Next, TaskStep, HelperStep


\* The count of threads in the plugin is right whoever enters or leaves.
LEMMA HelperStepInv ==
  TypeOK /\ TaskInv /\ SerialInv /\ ConcInv /\ HelperInv /\ [Next]_vars
    => HelperInv'
<1> SUFFICES ASSUME TypeOK, TaskInv, SerialInv, ConcInv, HelperInv, [Next]_vars
             PROVE  HelperInv'
  OBVIOUS
<1> USE NodeAssumption DEF TypeOK, HelperInv, InPlugin, queueVars, taskVars, helperVars, Goto, HGoto
<1>1. ASSUME NEW r \in Request, Record(r)
      PROVE  HelperInv'
  BY <1>1 DEF Record
<1>2. ASSUME NEW r \in Request, enqueueTask(r)
      PROVE  HelperInv'
  <2>1. CASE Concurrent
    BY <1>2, <2>1, EnqueueFacts, EnqueueConcurrent DEF StartTask, TaskInv
  <2>2. CASE ~Concurrent /\ mPipeline = NoRequest
    BY <1>2, <2>2, EnqueueFacts, EnqueueFirst DEF StartTask, TaskInv
  <2>3. CASE ~Concurrent /\ mPipeline # NoRequest
    BY <1>2, <2>3, EnqueueFacts, EnqueueNext DEF TaskInv
  <2>4. QED
    BY <2>1, <2>2, <2>3, NodeAssumption
<1>3. ASSUME NEW r \in Request, ReadPipeline(r)
      PROVE  HelperInv'
  BY <1>3 DEF ReadPipeline
<1>4. ASSUME NEW r \in Request, PopPipeline(r)
      PROVE  HelperInv'
  BY <1>4 DEF PopPipeline
<1>5. ASSUME NEW r \in Request, RequestFails(r)
      PROVE  HelperInv'
  BY <1>5 DEF RequestFails
<1>6. ASSUME NEW r \in Request, EnterPlugin(r)
      PROVE  HelperInv'
  <2>1. ~Concurrent => \A t \in Request : ~InPlugin(t)
    BY <1>6 DEF EnterPlugin, SerialInv, Occupied
  <2>2. QED
    BY <1>6, <2>1 DEF EnterPlugin
<1>7. ASSUME NEW r \in Request, PluginReturns(r)
      PROVE  HelperInv'
  BY <1>7 DEF PluginReturns
<1>8. ASSUME NEW r \in Request, LeavePlugin(r)
      PROVE  HelperInv'
  <2>1. CASE mInPluginThreadNum \in {0, 1}
    <3>1. mInPluginThreadNum' = 0 /\ pc' = [pc EXCEPT ![r] = AfterPlugin(r)]
      BY <1>8, <2>1 DEF LeavePlugin
    <3>2. ~Concurrent => \A t \in Request : InPlugin(t) => t = r
      BY <1>8 DEF SerialInv, Occupied, LeavePlugin
    <3>3. QED
      BY <1>8, <3>1, <3>2 DEF LeavePlugin, AfterPlugin
  <2>2. CASE mInPluginThreadNum \notin {0, 1}
    <3>1. mInPluginThreadNum' = mInPluginThreadNum /\ pc' = [pc EXCEPT ![r] = "asleep"]
      BY <1>8, <2>2 DEF LeavePlugin
    <3>2. QED
      BY <1>8, <3>1 DEF LeavePlugin
  <2>3. QED
    BY <2>1, <2>2
<1>9. ASSUME NEW r \in Request, Notify(r)
      PROVE  HelperInv'
  BY <1>9 DEF Notify
<1>10. ASSUME NEW r \in Request, NextRequest(r)
      PROVE  HelperInv'
  BY <1>10 DEF NextRequest
<1>11. ASSUME NEW r \in Request, TaskEnds(r)
      PROVE  HelperInv'
  BY <1>11 DEF TaskEnds
<1>12. ASSUME NEW r \in Request, SpuriousWakeup(r)
      PROVE  HelperInv'
  BY <1>12 DEF SpuriousWakeup
<1>13. ASSUME NEW h \in Helper, Compare(h)
      PROVE  HelperInv'
  BY <1>13 DEF Compare
<1>14. ASSUME NEW h \in Helper, HelperFlushed(h)
      PROVE  HelperInv'
  BY <1>14 DEF HelperFlushed
<1>15. ASSUME NEW h \in Helper, HelperNotifies(h)
      PROVE  HelperInv'
  BY <1>15 DEF HelperNotifies
<1>16. ASSUME NEW h \in Helper, NEW r \in Request, quickFinish(h, r)
      PROVE  HelperInv'
  BY <1>16 DEF quickFinish
<1>17. ASSUME Terminated
      PROVE  HelperInv'
  BY <1>17 DEF Terminated, vars
<1>18. CASE UNCHANGED vars
  BY <1>18 DEF vars
<1> HIDE DEF TypeOK, HelperInv, InPlugin
<1>19. QED
  BY <1>1, <1>2, <1>3, <1>4, <1>5, <1>6, <1>7, <1>8, <1>9, <1>10, <1>11, <1>12, <1>13,
     <1>14, <1>15, <1>16, <1>17, <1>18 DEF Next, TaskStep, HelperStep


\* The session's count follows the tasks.
LEMMA CountStep == TypeOK /\ TaskInv /\ SerialInv /\ ConcInv /\ CountInv /\ [Next]_vars => CountInv'
<1> SUFFICES ASSUME TypeOK, TaskInv, SerialInv, ConcInv, CountInv, [Next]_vars
             PROVE  CountInv'
  OBVIOUS
<1> USE NodeAssumption DEF CountInv, queueVars, taskVars, helperVars, Goto, HGoto
<1>1. ASSUME NEW r \in Request, Record(r)
      PROVE  CountInv'
  <2>1. AliveTasks' = AliveTasks
    BY <1>1 DEF AliveTasks, Record, Alive, TypeOK
  <2>2. QED
    BY <1>1, <2>1 DEF Record
<1>2. ASSUME NEW r \in Request, enqueueTask(r)
      PROVE  CountInv'
  <2>1. CASE UNCHANGED <<mNodeThreadNum, pc>>
    BY <2>1 DEF AliveTasks, Alive
  <2>2. CASE StartTask(r)
    <3>1. r \notin AliveTasks /\ AliveTasks' = AliveTasks \cup {r}
      BY <1>2, <2>2, EnqueueFacts DEF StartTask, AliveTasks, Alive, TaskInv, TypeOK
    <3>2. QED
      BY <2>2, <3>1, FiniteTasks, FS_AddElement DEF StartTask
  <2>3. QED
    BY <1>2, <2>1, <2>2, EnqueueFacts
<1>3. ASSUME NEW r \in Request, ReadPipeline(r)
      PROVE  CountInv'
  <2>1. AliveTasks' = AliveTasks
    BY <1>3 DEF AliveTasks, ReadPipeline, Alive, TypeOK
  <2>2. QED
    BY <1>3, <2>1 DEF ReadPipeline
<1>4. ASSUME NEW r \in Request, PopPipeline(r)
      PROVE  CountInv'
  <2>1. mRequestQueue # {}
    <3>1. Cardinality(QueuedTasks) # 0
      BY <1>4, FiniteTasks, FS_EmptySet DEF PopPipeline, QueuedTasks
    <3>2. QED
      BY <1>4, <3>1, FS_EmptySet DEF ConcInv, PopPipeline
  <2>2. AliveTasks' = AliveTasks
    BY <1>4, <2>1 DEF PopPipeline, AliveTasks, Alive, TypeOK
  <2>3. QED
    BY <1>4, <2>2 DEF PopPipeline
<1>5. ASSUME NEW r \in Request, RequestFails(r)
      PROVE  CountInv'
  <2>1. AliveTasks' = AliveTasks
    BY <1>5 DEF AliveTasks, RequestFails, Alive, TypeOK
  <2>2. QED
    BY <1>5, <2>1 DEF RequestFails
<1>6. ASSUME NEW r \in Request, EnterPlugin(r)
      PROVE  CountInv'
  <2>1. AliveTasks' = AliveTasks
    BY <1>6 DEF AliveTasks, EnterPlugin, Alive, TypeOK
  <2>2. QED
    BY <1>6, <2>1 DEF EnterPlugin
<1>7. ASSUME NEW r \in Request, PluginReturns(r)
      PROVE  CountInv'
  <2>1. AliveTasks' = AliveTasks
    BY <1>7 DEF AliveTasks, PluginReturns, Alive, TypeOK
  <2>2. QED
    BY <1>7, <2>1 DEF PluginReturns
<1>8. ASSUME NEW r \in Request, LeavePlugin(r)
      PROVE  CountInv'
  <2>1. pc' \in {[pc EXCEPT ![r] = p] : p \in {"work", "notify", "asleep"}}
    BY <1>8 DEF LeavePlugin, AfterPlugin
  <2>2. AliveTasks' = AliveTasks
    BY <1>8, <2>1 DEF LeavePlugin, AliveTasks, Alive, TypeOK
  <2>3. QED
    BY <1>8, <2>2 DEF LeavePlugin
<1>9. ASSUME NEW r \in Request, Notify(r)
      PROVE  CountInv'
  <2>1. AliveTasks' = AliveTasks
    BY <1>9 DEF AliveTasks, Notify, Alive, TypeOK
  <2>2. QED
    BY <1>9, <2>1 DEF Notify
<1>10. ASSUME NEW r \in Request, NextRequest(r)
      PROVE  CountInv'
  <2>1. AliveTasks' = AliveTasks
    BY <1>10 DEF AliveTasks, NextRequest, Alive, TypeOK
  <2>2. QED
    BY <1>10, <2>1 DEF NextRequest
<1>11. ASSUME NEW r \in Request, TaskEnds(r)
      PROVE  CountInv'
  <2>1. r \in AliveTasks /\ AliveTasks' = AliveTasks \ {r}
    BY <1>11 DEF TaskEnds, AliveTasks, Alive, TypeOK
  <2>2. QED
    BY <1>11, <2>1, FiniteTasks, FS_RemoveElement DEF TaskEnds
<1>12. ASSUME NEW r \in Request, SpuriousWakeup(r)
      PROVE  CountInv'
  <2>1. AliveTasks' = AliveTasks
    BY <1>12 DEF AliveTasks, SpuriousWakeup, Alive, TypeOK
  <2>2. QED
    BY <1>12, <2>1 DEF SpuriousWakeup
<1>13. ASSUME NEW h \in Helper, Compare(h)
      PROVE  CountInv'
  <2>1. AliveTasks' = AliveTasks
    BY <1>13 DEF AliveTasks, Compare, Alive, TypeOK
  <2>2. QED
    BY <1>13, <2>1 DEF Compare
<1>14. ASSUME NEW h \in Helper, HelperFlushed(h)
      PROVE  CountInv'
  <2>1. AliveTasks' = AliveTasks
    BY <1>14 DEF AliveTasks, HelperFlushed, Alive, TypeOK
  <2>2. QED
    BY <1>14, <2>1 DEF HelperFlushed
<1>15. ASSUME NEW h \in Helper, HelperNotifies(h)
      PROVE  CountInv'
  <2>1. AliveTasks' = AliveTasks
    BY <1>15, NotifyFacts DEF AliveTasks, Alive, TypeOK
  <2>2. QED
    BY <1>15, <2>1 DEF HelperNotifies
<1>16. ASSUME NEW h \in Helper, NEW r \in Request, quickFinish(h, r)
      PROVE  CountInv'
  <2>1. AliveTasks' = AliveTasks
    BY <1>16 DEF AliveTasks, quickFinish, Alive, TypeOK
  <2>2. QED
    BY <1>16, <2>1 DEF quickFinish
<1>17. ASSUME Terminated
      PROVE  CountInv'
  <2>1. AliveTasks' = AliveTasks
    BY <1>17 DEF AliveTasks, Terminated, Alive, TypeOK, vars
  <2>2. QED
    BY <1>17, <2>1 DEF Terminated, vars
<1>18. CASE UNCHANGED vars
  BY <1>18 DEF vars, AliveTasks, Alive
<1> HIDE DEF CountInv
<1>19. QED
  BY <1>1, <1>2, <1>3, <1>4, <1>5, <1>6, <1>7, <1>8, <1>9, <1>10, <1>11, <1>12, <1>13,
     <1>14, <1>15, <1>16, <1>17, <1>18 DEF Next, TaskStep, HelperStep


\* Every queued pipeline of a concurrent node has a task, and every such task a pipeline.
LEMMA ConcStep == TypeOK /\ TaskInv /\ ServeInv /\ SerialInv /\ ConcInv /\ [Next]_vars => ConcInv'
<1> SUFFICES ASSUME TypeOK, TaskInv, ServeInv, SerialInv, ConcInv, [Next]_vars
             PROVE  ConcInv'
  OBVIOUS
<1> USE NodeAssumption DEF ConcInv, queueVars, taskVars, helperVars, Goto, HGoto
<1> SUFFICES ASSUME Concurrent
             PROVE  ConcInv'
  OBVIOUS
<1>1. ASSUME NEW r \in Request, Record(r)
      PROVE  ConcInv'
  <2>1. QueuedTasks' = QueuedTasks
    BY <1>1 DEF QueuedTasks, Record, TypeOK
  <2>2. QED
    BY <1>1, <2>1 DEF Record, TypeOK
<1>2. ASSUME NEW r \in Request, enqueueTask(r)
      PROVE  ConcInv'
  <2>1. mRequestQueue' = mRequestQueue \cup {r} /\ r \notin mRequestQueue
    BY <1>2, EnqueueConcurrent, EnqueueFacts DEF ServeInv
  <2>2. QueuedTasks' = QueuedTasks \cup {r} /\ r \notin QueuedTasks
    <3>1. pc[r] = "none" /\ pc' = [pc EXCEPT ![r] = "queued"]
      BY <1>2, EnqueueConcurrent, EnqueueFacts DEF StartTask, TaskInv
    <3>2. QED
      BY <3>1 DEF QueuedTasks, TypeOK
  <2>3. Cardinality(QueuedTasks)' = Cardinality(mRequestQueue)'
    <3>1. IsFiniteSet(mRequestQueue) /\ IsFiniteSet(QueuedTasks)
      BY FiniteTasks DEF TypeOK
    <3>2. Cardinality(QueuedTasks \cup {r}) = Cardinality(QueuedTasks) + 1
      BY <2>2, <3>1, FS_AddElement
    <3>3. Cardinality(mRequestQueue \cup {r}) = Cardinality(mRequestQueue) + 1
      BY <2>1, <3>1, FS_AddElement
    <3>4. QED
      BY <2>1, <2>2, <3>2, <3>3
  <2>4. QED
    <3>1. pc' = [pc EXCEPT ![r] = "queued"] /\ mPipeline' = mPipeline /\ hpc' = hpc
      BY <1>2, EnqueueConcurrent, EnqueueFacts DEF StartTask
    <3>2. QED
      BY <2>3, <3>1 DEF TypeOK
<1>3. ASSUME NEW r \in Request, ReadPipeline(r)
      PROVE  ConcInv'
  <2>1. QueuedTasks' = QueuedTasks
    BY <1>3 DEF QueuedTasks, ReadPipeline, TypeOK
  <2>2. QED
    BY <1>3, <2>1 DEF ReadPipeline, TypeOK
<1>4. ASSUME NEW r \in Request, PopPipeline(r)
      PROVE  ConcInv'
  <2>1. mRequestQueue # {}
    <3>1. Cardinality(QueuedTasks) # 0
      BY <1>4, FiniteTasks, FS_EmptySet DEF PopPipeline, QueuedTasks
    <3>2. QED
      BY <1>4, <3>1, FS_EmptySet
  <2> DEFINE top == Top(mRequestQueue)
  <2>2. top \in mRequestQueue /\ mRequestQueue' = mRequestQueue \ {top}
    BY <1>4, <2>1, TopInQueue DEF PopPipeline, TypeOK
  <2>3. r \in QueuedTasks /\ QueuedTasks' = QueuedTasks \ {r}
    BY <1>4, <2>1 DEF PopPipeline, QueuedTasks, TypeOK
  <2> HIDE DEF top
  <2>4. Cardinality(QueuedTasks)' = Cardinality(mRequestQueue)'
    <3>1. IsFiniteSet(mRequestQueue) /\ IsFiniteSet(QueuedTasks)
      BY FiniteTasks DEF TypeOK
    <3>2. Cardinality(QueuedTasks \ {r}) = Cardinality(QueuedTasks) - 1
      BY <2>3, <3>1, FS_RemoveElement
    <3>3. Cardinality(mRequestQueue \ {top}) = Cardinality(mRequestQueue) - 1
      BY <2>2, <3>1, FS_RemoveElement
    <3>4. QED
      BY <2>2, <2>3, <3>2, <3>3
  <2>5. QED
    BY <1>4, <2>1, <2>4 DEF PopPipeline, TypeOK
<1>5. ASSUME NEW r \in Request, RequestFails(r)
      PROVE  ConcInv'
  <2>1. QueuedTasks' = QueuedTasks
    BY <1>5 DEF QueuedTasks, RequestFails, TypeOK
  <2>2. QED
    BY <1>5, <2>1 DEF RequestFails, TypeOK
<1>6. ASSUME NEW r \in Request, EnterPlugin(r)
      PROVE  ConcInv'
  <2>1. QueuedTasks' = QueuedTasks
    BY <1>6 DEF QueuedTasks, EnterPlugin, TypeOK
  <2>2. QED
    BY <1>6, <2>1 DEF EnterPlugin, TypeOK
<1>7. ASSUME NEW r \in Request, PluginReturns(r)
      PROVE  ConcInv'
  <2>1. QueuedTasks' = QueuedTasks
    BY <1>7 DEF QueuedTasks, PluginReturns, TypeOK
  <2>2. QED
    BY <1>7, <2>1 DEF PluginReturns, TypeOK
<1>8. ASSUME NEW r \in Request, LeavePlugin(r)
      PROVE  ConcInv'
  <2>1. pc' \in {[pc EXCEPT ![r] = p] : p \in {"work", "notify", "asleep"}}
    BY <1>8 DEF LeavePlugin, AfterPlugin
  <2>2. QueuedTasks' = QueuedTasks
    BY <1>8, <2>1 DEF LeavePlugin, QueuedTasks, TypeOK
  <2>3. QED
    BY <1>8, <2>1, <2>2 DEF LeavePlugin, TypeOK
<1>9. ASSUME NEW r \in Request, Notify(r)
      PROVE  ConcInv'
  <2>1. QueuedTasks' = QueuedTasks
    BY <1>9 DEF QueuedTasks, Notify, TypeOK
  <2>2. QED
    BY <1>9, <2>1 DEF Notify, TypeOK
<1>10. ASSUME NEW r \in Request, NextRequest(r)
      PROVE  ConcInv'
  BY <1>10 DEF NextRequest
<1>11. ASSUME NEW r \in Request, TaskEnds(r)
      PROVE  ConcInv'
  <2>1. QueuedTasks' = QueuedTasks
    BY <1>11 DEF QueuedTasks, TaskEnds, TypeOK
  <2>2. QED
    BY <1>11, <2>1 DEF TaskEnds, TypeOK
<1>12. ASSUME NEW r \in Request, SpuriousWakeup(r)
      PROVE  ConcInv'
  <2>1. QueuedTasks' = QueuedTasks
    BY <1>12 DEF QueuedTasks, SpuriousWakeup, TypeOK
  <2>2. QED
    BY <1>12, <2>1 DEF SpuriousWakeup, TypeOK
<1>13. ASSUME NEW h \in Helper, Compare(h)
      PROVE  ConcInv'
  <2>1. QueuedTasks' = QueuedTasks
    BY <1>13 DEF QueuedTasks, Compare, TypeOK
  <2>2. QED
    BY <1>13, <2>1 DEF Compare, TypeOK
<1>14. ASSUME NEW h \in Helper, HelperFlushed(h)
      PROVE  ConcInv'
  <2>1. QueuedTasks' = QueuedTasks
    BY <1>14 DEF QueuedTasks, HelperFlushed, TypeOK
  <2>2. QED
    BY <1>14, <2>1 DEF HelperFlushed, TypeOK
<1>15. ASSUME NEW h \in Helper, HelperNotifies(h)
      PROVE  ConcInv'
  <2>1. QueuedTasks' = QueuedTasks
    BY <1>15, NotifyFacts DEF QueuedTasks, TypeOK
  <2>2. QED
    BY <1>15, <2>1, NotifyFacts DEF HelperNotifies, TypeOK
<1>16. ASSUME NEW h \in Helper, NEW r \in Request, quickFinish(h, r)
      PROVE  ConcInv'
  <2>1. QueuedTasks' = QueuedTasks
    BY <1>16 DEF QueuedTasks, quickFinish, TypeOK
  <2>2. QED
    BY <1>16, <2>1 DEF quickFinish, TypeOK
<1>17. ASSUME Terminated
      PROVE  ConcInv'
  <2>1. QueuedTasks' = QueuedTasks
    BY <1>17 DEF QueuedTasks, Terminated, TypeOK, vars
  <2>2. QED
    BY <1>17, <2>1 DEF Terminated, TypeOK, vars
<1>18. CASE UNCHANGED vars
  BY <1>18 DEF vars, QueuedTasks
<1> HIDE DEF ConcInv
<1>19. QED
  BY <1>1, <1>2, <1>3, <1>4, <1>5, <1>6, <1>7, <1>8, <1>9, <1>10, <1>11, <1>12, <1>13,
     <1>14, <1>15, <1>16, <1>17, <1>18 DEF Next, TaskStep, HelperStep


\* The task stays in the plugin while a helper flushes it.
LEMMA FlushStep ==
  TypeOK /\ TaskInv /\ ServeInv /\ SerialInv /\ ConcInv /\ HelperInv /\ FlushesNamesake /\ [Next]_vars
    => FlushesNamesake'
<1> SUFFICES ASSUME TypeOK, TaskInv, ServeInv, SerialInv, ConcInv, HelperInv, FlushesNamesake, [Next]_vars
             PROVE  FlushesNamesake'
  OBVIOUS
<1> USE NodeAssumption DEF TypeOK, FlushesNamesake, SameName, InPlugin, queueVars, taskVars, helperVars, Goto, HGoto
<1>1. ASSUME NEW r \in Request, Record(r)
      PROVE  FlushesNamesake'
  BY <1>1 DEF Record
<1>2. ASSUME NEW r \in Request, enqueueTask(r)
      PROVE  FlushesNamesake'
  <2>1. pc' = pc \/ (pc' = [pc EXCEPT ![r] = "queued"] /\ pc[r] = "none")
    BY <1>2, EnqueueFacts DEF StartTask, TaskInv
  <2>2. QED
    BY <1>2, <2>1, EnqueueFacts
<1>3. ASSUME NEW r \in Request, ReadPipeline(r)
      PROVE  FlushesNamesake'
  BY <1>3 DEF ReadPipeline
<1>4. ASSUME NEW r \in Request, PopPipeline(r)
      PROVE  FlushesNamesake'
  BY <1>4 DEF PopPipeline
<1>5. ASSUME NEW r \in Request, RequestFails(r)
      PROVE  FlushesNamesake'
  BY <1>5 DEF RequestFails
<1>6. ASSUME NEW r \in Request, EnterPlugin(r)
      PROVE  FlushesNamesake'
  BY <1>6 DEF EnterPlugin
<1>7. ASSUME NEW r \in Request, PluginReturns(r)
      PROVE  FlushesNamesake'
  BY <1>7 DEF PluginReturns
<1>8. ASSUME NEW r \in Request, LeavePlugin(r)
      PROVE  FlushesNamesake'
  <2>1. CASE mInPluginThreadNum \in {0, 1}
    BY <1>8, <2>1 DEF LeavePlugin, HelperInv, ConcInv
  <2>2. CASE mInPluginThreadNum \notin {0, 1}
    BY <1>8, <2>2 DEF LeavePlugin
  <2>3. QED
    BY <2>1, <2>2
<1>9. ASSUME NEW r \in Request, Notify(r)
      PROVE  FlushesNamesake'
  BY <1>9 DEF Notify
<1>10. ASSUME NEW r \in Request, NextRequest(r)
      PROVE  FlushesNamesake'
  BY <1>10 DEF NextRequest
<1>11. ASSUME NEW r \in Request, TaskEnds(r)
      PROVE  FlushesNamesake'
  BY <1>11 DEF TaskEnds
<1>12. ASSUME NEW r \in Request, SpuriousWakeup(r)
      PROVE  FlushesNamesake'
  BY <1>12 DEF SpuriousWakeup
<1>13. ASSUME NEW h \in Helper, Compare(h)
      PROVE  FlushesNamesake'
  <2>1. CASE SameName(mPipeline, target[h]) /\ ~Concurrent
    <3>1. mInPluginThreadNum = 1
      BY <1>13, <2>1 DEF Compare, HelperInv
    <3>2. PICK t \in Request : InPlugin(t)
      BY <2>1, <3>1 DEF HelperInv
    <3>3. cur[t] = mPipeline
      BY <2>1, <3>2 DEF SerialInv, Serving
    <3>4. QED
      BY <1>13, <3>2, <3>3 DEF Compare
  <2>2. CASE ~(SameName(mPipeline, target[h]) /\ ~Concurrent)
    BY <1>13, <2>2 DEF Compare
  <2>3. QED
    BY <2>1, <2>2
<1>14. ASSUME NEW h \in Helper, HelperFlushed(h)
      PROVE  FlushesNamesake'
  BY <1>14 DEF HelperFlushed
<1>15. ASSUME NEW h \in Helper, HelperNotifies(h)
      PROVE  FlushesNamesake'
  <2>1. UNCHANGED <<cur, target>> /\ hpc' = [hpc EXCEPT ![h] = "done"]
    BY <1>15 DEF HelperNotifies
  <2>2. QED
    BY <1>15, <2>1, NotifyFacts
<1>16. ASSUME NEW h \in Helper, NEW r \in Request, quickFinish(h, r)
      PROVE  FlushesNamesake'
  BY <1>16 DEF quickFinish
<1>17. ASSUME Terminated
      PROVE  FlushesNamesake'
  BY <1>17 DEF Terminated, vars
<1>18. CASE UNCHANGED vars
  BY <1>18 DEF vars
<1> HIDE DEF TypeOK, FlushesNamesake, SameName, InPlugin
<1>19. QED
  BY <1>1, <1>2, <1>3, <1>4, <1>5, <1>6, <1>7, <1>8, <1>9, <1>10, <1>11, <1>12, <1>13,
     <1>14, <1>15, <1>16, <1>17, <1>18 DEF Next, TaskStep, HelperStep

----------------------------------------------------------------------------
(* The invariant theorems. *)

LEMMA IInvInit == Init => IInv
<1> SUFFICES ASSUME Init
             PROVE  IInv
  OBVIOUS
<1> USE NodeAssumption DEF Init
<1>1. TypeOK
  <2>1. 0 \in 0 .. Frames
    OBVIOUS
  <2>2. mInputFrameNum \in [Request -> 0 .. Frames]
    BY <2>1
  <2>3. QED
    BY <2>2 DEF TypeOK, RequestState, TaskState
<1>2. TaskInv /\ ServeInv /\ SerialInv /\ HelperInv /\ FlushesNamesake
  BY DEF TaskInv, ServeInv, Serving, SerialInv, Occupied, HelperInv, InPlugin, FlushesNamesake
<1>3. AliveTasks = {} /\ QueuedTasks = {}
  BY DEF AliveTasks, Alive, QueuedTasks
<1>4. CountInv /\ ConcInv
  BY <1>3, FS_EmptySet DEF CountInv, ConcInv
<1>5. QED
  BY <1>1, <1>2, <1>4 DEF IInv

LEMMA IInvStep == IInv /\ [Next]_vars => IInv'
<1> SUFFICES ASSUME IInv, [Next]_vars
             PROVE  IInv'
  OBVIOUS
<1>1. CountInv'
  BY CountStep DEF IInv
<1>2. TypeOK'
  BY <1>1, TypeStepInv DEF IInv
<1>3. QED
  BY <1>1, <1>2, TaskStepInv, ServeStep, SerialStep, ConcStep, HelperStepInv, FlushStep DEF IInv

LEMMA IInvAlways == Spec => []IInv
BY IInvInit, IInvStep, PTL DEF Spec

\* The types of the node's state hold in every reachable state; in particular
\* neither mNodeThreadNum nor mInPluginThreadNum falls below zero.
THEOREM TypeCorrect == Spec => []TypeOK
<1>1. IInv => TypeOK
  BY DEF IInv
<1>2. QED
  BY <1>1, IInvAlways, PTL

\* No enqueued pipeline is left without a task that will take it, whatever
\* the priorities and the number of pipelines.
THEOREM NobodyStranded == Spec => []NoneStranded
<1>1. IInv => NoneStranded
  <2> SUFFICES ASSUME IInv
               PROVE  NoneStranded
    OBVIOUS
  <2>1. CASE Concurrent
    BY <2>1 DEF IInv, ConcInv, QueuedTasks, NoneStranded
  <2>2. CASE ~Concurrent
    <3>1. \A t \in Request : Occupied(t) <=> (Alive(t) /\ pc[t] # "end")
      BY DEF Occupied, Alive
    <3>2. QED
      BY <2>2, <3>1 DEF IInv, SerialInv, NoneStranded
  <2>3. QED
    BY <2>1, <2>2, NodeAssumption
<1>2. QED
  BY <1>1, IInvAlways, PTL

\* A helper thread flushes the plugin only while it works for a pipeline of
\* the name that quickFinish was called with, with any number of calls.
THEOREM HelpersFlushNamesake == Spec => []FlushesNamesake
<1>1. IInv => FlushesNamesake
  BY DEF IInv
<1>2. QED
  BY <1>1, IInvAlways, PTL

\* The plugin works for the very pipeline whose quickFinish detached the helper.
FlushesOwnRequest ==
  \A h \in Helper : hpc[h] = "flush" => \E t \in Request : cur[t] = target[h] /\ InPlugin(t)

\* If no two pipelines of the session have one name, a helper thread flushes
\* the plugin only for the pipeline whose quickFinish detached it.
THEOREM HelpersFlushOwn ==
  ASSUME \A r, s \in Request : Name[r] = Name[s] => r = s
  PROVE  Spec => []FlushesOwnRequest
<1>1. IInv => FlushesOwnRequest
  <2> SUFFICES ASSUME IInv, NEW h \in Helper, hpc[h] = "flush"
               PROVE  \E t \in Request : cur[t] = target[h] /\ InPlugin(t)
    BY DEF FlushesOwnRequest
  <2>1. PICK t \in Request : SameName(cur[t], target[h]) /\ InPlugin(t)
    BY DEF IInv, FlushesNamesake
  <2>2. cur[t] \in Request
    BY <2>1 DEF IInv, TypeOK, SameName
  <2>3. target[h] \in Request
    BY DEF IInv, HelperInv
  <2>4. QED
    BY <2>1, <2>2, <2>3 DEF SameName
<1>2. QED
  BY <1>1, IInvAlways, PTL

----------------------------------------------------------------------------
(* The node implements RequestServer. *)

\* The refinement mapping, with the pipelines of serving tasks only.
Busy == {cur[t] : t \in {u \in Request : Serving(u)}}
Waiting == {r \in Request : req[r] = "enqueued"} \ Busy
Served == {r \in Request : req[r] = "served"}

\* A task that is not serving has no pipeline or one that it has served.
LEMMA WaitingIs ==
  IInv =>
    {r \in Request : req[r] = "enqueued"} \ {cur[t] : t \in {u \in Request : Alive(u)}} = Waiting
<1> SUFFICES ASSUME IInv
             PROVE  {r \in Request : req[r] = "enqueued"}
                      \ {cur[t] : t \in {u \in Request : Alive(u)}} = Waiting
  OBVIOUS
<1>1. ASSUME NEW t \in Request, Alive(t), cur[t] \in Request, req[cur[t]] = "enqueued"
      PROVE  Serving(t)
  BY <1>1, NodeAssumption DEF IInv, TaskInv, Serving, Alive, TypeOK, TaskState
<1>2. \A t \in Request : Serving(t) => Alive(t)
  BY DEF Serving, Alive
<1>3. QED
  BY <1>1, <1>2 DEF Waiting, Busy

\* Each step of the node is a step of the server or leaves it unchanged.
LEMMA ServerStep ==
  ASSUME IInv, [Next]_vars
  PROVE  \/ \E r \in Request : r \notin Waiting \cup Busy \cup Served
                 /\ Waiting' = Waiting \cup {r} /\ UNCHANGED <<Busy, Served>>
         \/ \E r \in Request : r \in Waiting /\ (Concurrent \/ Busy = {})
                 /\ Waiting' = Waiting \ {r} /\ Busy' = Busy \cup {r} /\ UNCHANGED Served
         \/ \E r \in Request : r \in Busy
                 /\ Busy' = Busy \ {r} /\ Served' = Served \cup {r} /\ UNCHANGED Waiting
         \/ UNCHANGED <<Waiting, Busy, Served>>
<1> DEFINE Unchanged == UNCHANGED <<Waiting, Busy, Served>>
<1> USE NodeAssumption DEF Goto
<1>0. TypeOK /\ TaskInv /\ ServeInv /\ SerialInv
  BY DEF IInv
<1>1. ASSUME NEW r \in Request, Record(r)
      PROVE  Unchanged
  BY <1>0, <1>1 DEF Record, Waiting, Busy, Served, Serving, TypeOK
<1>2. ASSUME NEW r \in Request, enqueueTask(r)
      PROVE  r \notin Waiting \cup Busy \cup Served
             /\ Waiting' = Waiting \cup {r} /\ UNCHANGED <<Busy, Served>>
  <2>1. req[r] = "current" /\ req' = [req EXCEPT ![r] = "enqueued"] /\ cur' = cur
    BY <1>0, <1>2, EnqueueFacts
  <2>2. \A t \in Request : Serving(t)' <=> Serving(t)
    BY <1>0, <1>2, EnqueueFacts DEF StartTask, Serving, TaskInv, TypeOK
  <2>3. Busy' = Busy
    BY <2>1, <2>2 DEF Busy
  <2>4. r \notin Busy
    BY <1>0, <2>1 DEF Busy, ServeInv
  <2>5. QED
    BY <1>0, <2>1, <2>3, <2>4 DEF Waiting, Served, TypeOK
<1>3. ASSUME NEW t \in Request, NEW r \in Request, pc[t] = "queued", req[r] = "enqueued",
             r \notin Busy, Concurrent \/ Busy = {}, UNCHANGED req,
             cur' = [cur EXCEPT ![t] = r], pc' = [pc EXCEPT ![t] = "work"]
      PROVE  r \in Waiting /\ (Concurrent \/ Busy = {})
             /\ Waiting' = Waiting \ {r} /\ Busy' = Busy \cup {r} /\ UNCHANGED Served
  <2>1. Busy' = Busy \cup {r}
    <3>1. ~Serving(t) /\ Serving(t)' /\ cur'[t] = r
      BY <1>0, <1>3 DEF Serving, TypeOK
    <3>2. \A u \in Request \ {t} : (Serving(u)' <=> Serving(u)) /\ cur'[u] = cur[u]
      BY <1>0, <1>3 DEF Serving, TypeOK
    <3>3. QED
      BY <3>1, <3>2 DEF Busy
  <2>2. QED
    BY <1>3, <2>1 DEF Waiting, Served
<1>4. ASSUME NEW t \in Request, ReadPipeline(t)
      PROVE  \E r \in Request : r \in Waiting /\ (Concurrent \/ Busy = {})
                 /\ Waiting' = Waiting \ {r} /\ Busy' = Busy \cup {r} /\ UNCHANGED Served
  <2>1. mPipeline \in Request /\ req[mPipeline] = "enqueued"
    BY <1>0, <1>4 DEF ReadPipeline, SerialInv, Occupied, TypeOK
  <2>2. Busy = {}
    BY <1>0, <1>4 DEF ReadPipeline, SerialInv, Occupied, Serving, Busy
  <2>3. UNCHANGED req /\ cur' = [cur EXCEPT ![t] = mPipeline] /\ pc' = [pc EXCEPT ![t] = "work"]
        /\ pc[t] = "queued"
    BY <1>4 DEF ReadPipeline
  <2>4. QED
    BY <1>3, <2>1, <2>2, <2>3
<1>5. ASSUME NEW t \in Request, PopPipeline(t)
      PROVE  \/ Unchanged
             \/ \E r \in Request : r \in Waiting /\ (Concurrent \/ Busy = {})
                   /\ Waiting' = Waiting \ {r} /\ Busy' = Busy \cup {r} /\ UNCHANGED Served
  <2>1. CASE mRequestQueue = {}
    BY <1>0, <1>5, <2>1 DEF PopPipeline, Waiting, Busy, Served, Serving, TypeOK
  <2>2. CASE mRequestQueue # {}
    <3>1. Top(mRequestQueue) \in mRequestQueue
      BY <1>0, <2>2, TopInQueue DEF TypeOK
    <3>2. PICK r \in Request : r = Top(mRequestQueue)
      BY <1>0, <3>1 DEF TypeOK
    <3>3. req[r] = "enqueued" /\ r \notin Busy
      BY <1>0, <3>1, <3>2 DEF ServeInv, Busy
    <3>4. UNCHANGED req /\ cur' = [cur EXCEPT ![t] = r] /\ pc' = [pc EXCEPT ![t] = "work"]
          /\ pc[t] = "queued" /\ Concurrent
      BY <1>5, <2>2, <3>2 DEF PopPipeline
    <3>5. QED
      BY <1>3, <3>3, <3>4
  <2>3. QED
    BY <2>1, <2>2
<1>6. ASSUME NEW t \in Request, Notify(t)
      PROVE  \E r \in Request : r \in Busy
                 /\ Busy' = Busy \ {r} /\ Served' = Served \cup {r} /\ UNCHANGED Waiting
  <2>1. PICK r \in Request : r = cur[t] /\ req[r] = "enqueued" /\ Serving(t)
    BY <1>0, <1>6 DEF Notify, ServeInv, Serving
  <2>2. req' = [req EXCEPT ![r] = "served"] /\ cur' = cur /\ ~Serving(t)'
        /\ \A u \in Request \ {t} : (Serving(u)' <=> Serving(u)) /\ (Serving(u) => cur[u] # r)
    BY <1>0, <1>6, <2>1 DEF Notify, ServeInv, Serving, TypeOK
  <2>3. r \in Busy /\ Busy' = Busy \ {r}
    BY <2>1, <2>2 DEF Busy
  <2>4. Served' = Served \cup {r} /\ Waiting' = Waiting
    BY <1>0, <2>1, <2>2, <2>3 DEF Served, Waiting, TypeOK
  <2>5. QED
    BY <2>3, <2>4
<1>7. ASSUME UNCHANGED <<req, cur>>, \A t \in Request : Serving(t)' <=> Serving(t)
      PROVE  Unchanged
  BY <1>7 DEF Waiting, Busy, Served
<1>8. ASSUME NEW t \in Request,
             RequestFails(t) \/ EnterPlugin(t) \/ PluginReturns(t) \/ TaskEnds(t) \/ SpuriousWakeup(t)
      PROVE  Unchanged
  <2>1. UNCHANGED <<req, cur>>
    BY <1>8 DEF RequestFails, EnterPlugin, PluginReturns, TaskEnds, SpuriousWakeup
  <2>2. \A u \in Request : Serving(u)' <=> Serving(u)
    BY <1>0, <1>8
       DEF RequestFails, EnterPlugin, PluginReturns, TaskEnds, SpuriousWakeup, Serving,
           TypeOK
  <2>3. QED
    BY <1>7, <2>1, <2>2
<1>9. ASSUME NEW t \in Request, LeavePlugin(t)
      PROVE  Unchanged
  <2>1. UNCHANGED <<req, cur>> /\ \E p \in {"work", "notify", "asleep"} : pc' = [pc EXCEPT ![t] = p]
    BY <1>9 DEF LeavePlugin, AfterPlugin
  <2>2. \A u \in Request : Serving(u)' <=> Serving(u)
    BY <1>0, <1>9, <2>1 DEF LeavePlugin, Serving, TypeOK
  <2>3. QED
    BY <1>7, <2>1, <2>2
<1>10. ASSUME NEW t \in Request, NextRequest(t)
       PROVE  Unchanged
  <2>1. UNCHANGED req /\ \A u \in Request : Serving(u)' <=> Serving(u)
    BY <1>0, <1>10 DEF NextRequest, Serving, TypeOK
  <2>2. \A u \in Request : Serving(u) => cur'[u] = cur[u]
    BY <1>0, <1>10 DEF NextRequest, Serving, TypeOK
  <2>3. Busy' = Busy
    BY <2>1, <2>2 DEF Busy
  <2>4. QED
    BY <2>1, <2>3 DEF Waiting, Served
<1>11. ASSUME NEW h \in Helper, HelperNotifies(h)
       PROVE  Unchanged
  <2>1. UNCHANGED <<req, cur>> /\ \A u \in Request : Serving(u)' <=> Serving(u)
    <3>1. \A u \in Request : Serving(u)' <=> Serving(u)
      BY <1>0, <1>11, NotifyFacts DEF Serving, TypeOK
    <3>2. QED
      BY <1>11, <3>1 DEF HelperNotifies
  <2>2. QED
    BY <1>7, <2>1
<1>12. CASE UNCHANGED <<req, cur, pc>>
  BY <1>7, <1>12 DEF Serving
<1>13. CASE UNCHANGED vars \/ Terminated \/ \E h \in Helper : Compare(h) \/ HelperFlushed(h) \/ \E r \in Request : quickFinish(h, r)
  BY <1>12, <1>13 DEF vars, taskVars, Terminated, Compare, HelperFlushed, quickFinish
<1> HIDE DEF Unchanged
<1>14. QED
  <2>1. CASE UNCHANGED vars
    BY <1>13, <2>1 DEF Unchanged
  <2>2. CASE Next
    BY <1>1, <1>2, <1>4, <1>5, <1>6, <1>8, <1>9, <1>10, <1>11, <1>13, <2>2
       DEF Next, TaskStep, HelperStep, Unchanged
  <2>3. QED
    BY <2>1, <2>2

\* A node serves every pipeline that enqueues itself at most once, and one at
\* a time unless it is concurrent: for any number of pipelines, priorities,
\* frames and calls of quickFinish it implements RequestServer.
THEOREM ImplementsServer == Spec => ServesEachOnce
<1>1. Init => Server!Init
  BY NodeAssumption DEF Init, Server!Init, Alive
<1>2. IInv /\ IInv' /\ [Next]_vars => [Server!Next]_(Server!serverVars)
  <2> SUFFICES ASSUME IInv, IInv', [Next]_vars
               PROVE  [Server!Next]_(Server!serverVars)
    OBVIOUS
  <2>1. {r \in Request : req[r] = "enqueued"} \ {cur[t] : t \in {u \in Request : Alive(u)}} = Waiting
    BY WaitingIs
  <2>2. ({r \in Request : req[r] = "enqueued"} \ {cur[t] : t \in {u \in Request : Alive(u)}} = Waiting)'
    BY WaitingIs, PTL
  <2>3. QED
    BY <2>1, <2>2, ServerStep DEF Server!Next, Server!Submit, Server!Serve, Server!Complete,
       Server!serverVars, Busy, Served, Serving
<1>3. QED
  BY <1>1, <1>2, IInvAlways, PTL DEF Spec, ServesEachOnce, Server!Spec

=============================================================================
