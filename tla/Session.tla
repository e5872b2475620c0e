------------------------------ MODULE Session ------------------------------
(***************************************************************************)
(* MiaOfflineSession as the camera HAL drives it.  The worker thread of a  *)
(* PostProcessor feeds images (postProcess) and cancels requests           *)
(* (quickFinish); another thread reports a dead application (quickFinish   *)
(* too); a third flushes the session and destroys it.  The two sides meet  *)
(* in mFlushFlag of the PostProcessor, in mBusyLock, and in the two        *)
(* condition variables of flush.                                           *)
(*                                                                         *)
(* The pipelines are abstract: Pipeline models their inside.  A request    *)
(* stands for itself, for the pipeline created for it and for its task.    *)
(***************************************************************************)
EXTENDS Integers, FiniteSets, Sequences

CONSTANTS Requests,
          Name,       \* file name of each request, a sequence of characters
          Total,      \* totalReqNum that the frames of each request carry
          Frames,     \* frames of each request that the camera delivers
          NodeTasks,  \* node tasks a request may have at a time, at most
          None        \* no request, nullptr

ASSUME SessionAssumption ==
    /\ Total \in [Requests -> Nat] /\ Frames \in [Requests -> Nat]
    /\ \A r \in Requests : Name[r] \in Seq(Nat) /\ Name[r] # <<>>
    /\ NodeTasks \in Nat /\ None \notin Requests

Callers == {"worker", "service"}
Names == {Name[r] : r \in Requests}
Record == [pipeline : Requests \cup {None}, frameNumNotCome : Nat]
NoRecord == [pipeline |-> None, frameNumNotCome |-> 0]

VARIABLES mFlushFlag, mFlushed,       \* PostProcessor
          tpc, cur, come,             \* its worker: position, request, frames sent
          mInputNotEnoughPipe,        \* record per name, NoRecord if there is none
          mBusyPipelines, mIdlePipeline, mNodeThreadNum,
          task,                       \* where each pipeline's task is
          mName, mFlushStatus,
          released,                   \* source queues released?
          images,                     \* images the pipeline holds
          fedBy,                      \* requests whose frames a pipeline was given
          nodes,                      \* node tasks of each request
          fpc,                        \* flush and destroy
          qpc,                        \* quickFinish of each caller
          alive                       \* in allSessions / not deleted
vars == <<mFlushFlag, mFlushed, tpc, cur, come, mInputNotEnoughPipe, mBusyPipelines,
          mIdlePipeline, mNodeThreadNum, task, mName, mFlushStatus, released, images, fedBy,
          nodes, fpc, qpc, alive>>
workerVars == <<mFlushFlag, tpc, cur, come, mInputNotEnoughPipe>>
pipeVars == <<task, mName, mFlushStatus, released, images, fedBy, nodes>>
sessionVars == <<mBusyPipelines, mIdlePipeline, mNodeThreadNum>>
flushVars == <<mFlushed, fpc, alive>>

Init ==
    /\ mFlushFlag = FALSE /\ mFlushed = FALSE
    /\ tpc = "idle" /\ cur = None /\ come = [r \in Requests |-> 0]
    /\ mInputNotEnoughPipe = [n \in Names |-> NoRecord]
    /\ mBusyPipelines = {} /\ mIdlePipeline = None /\ mNodeThreadNum = 0
    /\ task = [r \in Requests |-> "none"]
    /\ mName = [r \in Requests |-> <<>>] /\ mFlushStatus = [r \in Requests |-> "NoFlush"]
    /\ released = [r \in Requests |-> FALSE] /\ images = [r \in Requests |-> 0]
    /\ fedBy = [r \in Requests |-> {}] /\ nodes = [r \in Requests |-> 0]
    /\ fpc = "idle"
    /\ qpc = [c \in Callers |-> "idle"]
    /\ alive = TRUE

----------------------------------------------------------------------------
(* postProcess, called by the worker while it holds mFlushFlag. *)

Known(r) == mInputNotEnoughPipe[Name[r]] # NoRecord

\* Frames of one name come one request after the other.
Arrives(r) ==
    /\ come[r] < Frames[r]
    /\ \A s \in Requests \ {r} : Name[s] = Name[r] => come[s] \in {0, Frames[s]}

\* The worker takes the next frame.  Without the flag it drops it silently.
Drop(r) ==
    /\ tpc = "idle" /\ qpc["worker"] = "idle" /\ Arrives(r)
    /\ mFlushFlag
    /\ come' = [come EXCEPT ![r] = @ + 1]
    /\ UNCHANGED <<mFlushFlag, tpc, cur, mInputNotEnoughPipe>>
    /\ UNCHANGED pipeVars /\ UNCHANGED sessionVars /\ UNCHANGED flushVars /\ UNCHANGED qpc

\* A first frame without the tag is an error; the image is not given back.
RejectUntagged(r) ==
    /\ tpc = "idle" /\ qpc["worker"] = "idle" /\ Arrives(r)
    /\ ~mFlushFlag /\ ~Known(r) /\ Total[r] = 0
    /\ come' = [come EXCEPT ![r] = @ + 1]
    /\ UNCHANGED <<mFlushFlag, tpc, cur, mInputNotEnoughPipe>>
    /\ UNCHANGED pipeVars /\ UNCHANGED sessionVars /\ UNCHANGED flushVars /\ UNCHANGED qpc

NewRecord_whole(r) == [pipeline |-> None, frameNumNotCome |-> Total[r]]      \* Mutated form
NewRecord(r) == [pipeline |-> None, frameNumNotCome |-> Total[r] - 1]

postProcess(r) ==
    /\ tpc = "idle" /\ qpc["worker"] = "idle" /\ Arrives(r)
    /\ ~mFlushFlag /\ mFlushFlag' = TRUE
    /\ cur' = r /\ come' = [come EXCEPT ![r] = @ + 1]
    /\ \/ /\ Known(r) /\ tpc' = "history"
          /\ UNCHANGED mInputNotEnoughPipe
       \/ /\ ~Known(r) /\ Total[r] > 0 /\ tpc' = "insert"
          /\ mInputNotEnoughPipe' =
                IF Total[r] > 1
                THEN [mInputNotEnoughPipe EXCEPT ![Name[r]] = NewRecord(r)]
                ELSE mInputNotEnoughPipe
    /\ UNCHANGED pipeVars /\ UNCHANGED sessionVars /\ UNCHANGED flushVars /\ UNCHANGED qpc

\* new Pipeline, visible in mBusyPipelines before it has a name.
InsertBusy ==
    /\ tpc = "insert" /\ tpc' = "setup"
    /\ mBusyPipelines' = mBusyPipelines \cup {cur}
    /\ task' = [task EXCEPT ![cur] = "created"]
    /\ UNCHANGED <<mFlushFlag, cur, come, mInputNotEnoughPipe>>
    /\ UNCHANGED <<mName, mFlushStatus, released, images, fedBy, nodes>>
    /\ UNCHANGED <<mIdlePipeline, mNodeThreadNum>>
    /\ UNCHANGED flushVars /\ UNCHANGED qpc

\* setSession, setPipelineName, start.
SetUpAndStart ==
    /\ tpc = "setup" /\ tpc' = "deliver"
    /\ mName' = [mName EXCEPT ![cur] = Name[cur]]
    /\ task' = [task EXCEPT ![cur] = "queued"]
    /\ UNCHANGED <<mFlushFlag, cur, come, mInputNotEnoughPipe>>
    /\ UNCHANGED <<mFlushStatus, released, images, fedBy, nodes>>
    /\ UNCHANGED sessionVars /\ UNCHANGED flushVars /\ UNCHANGED qpc

\* enqueueSourceImage: a pipeline whose queues are released refuses the image,
\* and the session gives it back itself.
enqueueSourceImage(p) ==
    /\ images' = IF released[p] THEN images ELSE [images EXCEPT ![p] = @ + 1]
    /\ fedBy' = [fedBy EXCEPT ![p] = @ \cup {cur}]

DeliverFirst ==
    /\ tpc = "deliver" /\ tpc' = "idle" /\ cur' = None /\ mFlushFlag' = FALSE
    /\ mInputNotEnoughPipe' = IF Total[cur] = 1 THEN mInputNotEnoughPipe
                              ELSE [mInputNotEnoughPipe EXCEPT ![Name[cur]] =
                                       [pipeline |-> cur, frameNumNotCome |-> @.frameNumNotCome]]
    /\ enqueueSourceImage(cur)
    /\ UNCHANGED <<come, task, mName, mFlushStatus, released, nodes>>
    /\ UNCHANGED sessionVars /\ UNCHANGED flushVars /\ UNCHANGED qpc

DeliverNext ==
    LET rec == mInputNotEnoughPipe[Name[cur]] IN
    /\ tpc = "history" /\ tpc' = "idle" /\ cur' = None /\ mFlushFlag' = FALSE
    /\ mInputNotEnoughPipe' =
          [mInputNotEnoughPipe EXCEPT ![Name[cur]] =
              IF rec.frameNumNotCome = 1 THEN NoRecord
              ELSE [pipeline |-> rec.pipeline, frameNumNotCome |-> rec.frameNumNotCome - 1]]
    /\ enqueueSourceImage(rec.pipeline)
    /\ UNCHANGED <<come, task, mName, mFlushStatus, released, nodes>>
    /\ UNCHANGED sessionVars /\ UNCHANGED flushVars /\ UNCHANGED qpc

----------------------------------------------------------------------------
(* A pipeline, seen from the session. *)

\* releaseUnusedBuffer: nothing is accepted any more, everything is given back.
releaseUnusedBuffer(r) ==
    /\ released' = [released EXCEPT ![r] = TRUE]
    /\ images' = [images EXCEPT ![r] = 0]

\* postProcTask begins on a thread of the pool.
TaskStarts(r) ==
    /\ task[r] = "queued"
    /\ \/ /\ mFlushStatus[r] = "ForcedFlush" /\ releaseUnusedBuffer(r)
          /\ task' = [task EXCEPT ![r] = "finish"]
       \/ /\ mFlushStatus[r] # "ForcedFlush" /\ UNCHANGED <<released, images>>
          /\ task' = [task EXCEPT ![r] = "running"]
    /\ UNCHANGED <<mName, mFlushStatus, fedBy, nodes>>
    /\ UNCHANGED workerVars /\ UNCHANGED sessionVars /\ UNCHANGED flushVars /\ UNCHANGED qpc

\* A node counts its task before it starts it, and discounts it at its very
\* end, possibly after the pipeline has become idle.
NodeStarts_uncounted(r) ==              \* Mutated form: the task is not counted
    /\ task[r] = "running" /\ nodes[r] < NodeTasks
    /\ nodes' = [nodes EXCEPT ![r] = @ + 1]
    /\ UNCHANGED <<task, mName, mFlushStatus, released, images, fedBy>>
    /\ UNCHANGED sessionVars /\ UNCHANGED workerVars /\ UNCHANGED flushVars /\ UNCHANGED qpc
NodeStarts(r) ==
    /\ task[r] = "running" /\ nodes[r] < NodeTasks
    /\ nodes' = [nodes EXCEPT ![r] = @ + 1]
    /\ mNodeThreadNum' = mNodeThreadNum + 1
    /\ UNCHANGED <<task, mName, mFlushStatus, released, images, fedBy>>
    /\ UNCHANGED <<mBusyPipelines, mIdlePipeline>>
    /\ UNCHANGED workerVars /\ UNCHANGED flushVars /\ UNCHANGED qpc

\* increaseUsingThreadNum(-1): the last one wakes flush.
NodeEnds(r) ==
    /\ nodes[r] > 0
    /\ nodes' = [nodes EXCEPT ![r] = @ - 1]
    /\ mNodeThreadNum' = mNodeThreadNum - 1
    /\ fpc' = IF mNodeThreadNum = 1 /\ fpc = "nodesAsleep" THEN "nodes" ELSE fpc
    /\ UNCHANGED <<task, mName, mFlushStatus, released, images, fedBy>>
    /\ UNCHANGED <<mBusyPipelines, mIdlePipeline, mFlushed, alive>>
    /\ UNCHANGED workerVars /\ UNCHANGED qpc

\* The pipeline has seen all its frames, was cancelled, or failed.
TaskFinishes(r) ==
    /\ task[r] = "running" /\ task' = [task EXCEPT ![r] = "finish"]
    /\ releaseUnusedBuffer(r)
    /\ UNCHANGED <<mName, mFlushStatus, fedBy, nodes>>
    /\ UNCHANGED workerVars /\ UNCHANGED sessionVars /\ UNCHANGED flushVars /\ UNCHANGED qpc

\* moveToIdleQueue, first under mIdleLock ...
MoveToIdle(r) ==
    /\ task[r] = "finish" /\ task' = [task EXCEPT ![r] = "idle"]
    /\ mIdlePipeline' = r
    /\ UNCHANGED <<mName, mFlushStatus, released, images, fedBy, nodes>>
    /\ UNCHANGED <<mBusyPipelines, mNodeThreadNum>>
    /\ UNCHANGED workerVars /\ UNCHANGED flushVars /\ UNCHANGED qpc

\* ... then under mBusyLock, which flush holds from its test to its sleep.
EraseBusy_silent(r) ==                  \* Mutated form: notifies one pipeline too early
    /\ task[r] = "idle" /\ task' = [task EXCEPT ![r] = "done"]
    /\ mBusyPipelines' = mBusyPipelines \ {r}
    /\ fpc' = IF mBusyPipelines = {} /\ fpc = "asleep" THEN "awake" ELSE fpc
    /\ UNCHANGED <<mName, mFlushStatus, released, images, fedBy, nodes>>
    /\ UNCHANGED <<mIdlePipeline, mNodeThreadNum, mFlushed, alive>>
    /\ UNCHANGED workerVars /\ UNCHANGED qpc
EraseBusy(r) ==
    /\ task[r] = "idle" /\ task' = [task EXCEPT ![r] = "done"]
    /\ mBusyPipelines' = mBusyPipelines \ {r}
    /\ fpc' = IF mBusyPipelines \subseteq {r} /\ fpc = "asleep" THEN "awake" ELSE fpc
    /\ UNCHANGED <<mName, mFlushStatus, released, images, fedBy, nodes>>
    /\ UNCHANGED <<mIdlePipeline, mNodeThreadNum, mFlushed, alive>>
    /\ UNCHANGED workerVars /\ UNCHANGED qpc

----------------------------------------------------------------------------
(* PostProcessor::flush, MiaOfflineSession::flush and the destructor. *)

\* The spin on mFlushFlag, which is never cleared again.
FlushCalled ==
    /\ fpc = "idle" /\ ~mFlushFlag /\ qpc["service"] = "idle"
    /\ mFlushFlag' = TRUE /\ mFlushed' = TRUE /\ fpc' = "flush"
    /\ UNCHANGED <<tpc, cur, come, mInputNotEnoughPipe, alive>>
    /\ UNCHANGED pipeVars /\ UNCHANGED sessionVars /\ UNCHANGED qpc

\* Flush every busy pipeline and go to sleep, all under mBusyLock.
FlushBusy ==
    /\ fpc = "flush"
    /\ mFlushStatus' = [r \in Requests |->
                           IF r \in mBusyPipelines THEN "ForcedFlush" ELSE mFlushStatus[r]]
    /\ released' = [r \in Requests |-> released[r] \/ r \in mBusyPipelines]
    /\ fpc' = IF mBusyPipelines = {} THEN "nodes" ELSE "asleep"
    /\ UNCHANGED <<task, mName, images, fedBy, nodes, mFlushed, alive>>
    /\ UNCHANGED workerVars /\ UNCHANGED sessionVars /\ UNCHANGED qpc

FlushRetests ==
    /\ fpc = "awake"
    /\ fpc' = IF mBusyPipelines = {} THEN "nodes" ELSE "asleep"
    /\ UNCHANGED <<mFlushed, alive>>
    /\ UNCHANGED workerVars /\ UNCHANGED pipeVars /\ UNCHANGED sessionVars /\ UNCHANGED qpc

FlushWaitsForNodes_not ==               \* Mutated form: returns when all pipelines have ended
    /\ fpc = "nodes" /\ fpc' = "returned"
    /\ UNCHANGED <<mFlushed, alive>>
    /\ UNCHANGED workerVars /\ UNCHANGED pipeVars /\ UNCHANGED sessionVars /\ UNCHANGED qpc
FlushWaitsForNodes ==
    /\ fpc = "nodes"
    /\ fpc' = IF mNodeThreadNum = 0 THEN "returned" ELSE "nodesAsleep"
    /\ UNCHANGED <<mFlushed, alive>>
    /\ UNCHANGED workerVars /\ UNCHANGED pipeVars /\ UNCHANGED sessionVars /\ UNCHANGED qpc

\* MiaPostProc_Destroy: ~PostProcessor calls it after flush.
destroy ==
    /\ fpc = "returned" /\ fpc' = "destroyed"
    /\ alive' = FALSE /\ mIdlePipeline' = None
    /\ UNCHANGED <<mFlushed, mBusyPipelines, mNodeThreadNum>>
    /\ UNCHANGED workerVars /\ UNCHANGED pipeVars /\ UNCHANGED qpc

----------------------------------------------------------------------------
(* quickFinish.  The worker tests mFlushed first.  The thread that reports a  *)
(* dead application does not, but the manager's mAlgoMutex keeps it and flush *)
(* apart.                                                                     *)

QuickFinishCalled(c) ==
    /\ qpc[c] = "idle"
    /\ c = "worker" => tpc = "idle" /\ ~mFlushed
    /\ c = "service" => fpc = "idle"
    /\ qpc' = [qpc EXCEPT ![c] = "find"]
    /\ UNCHANGED workerVars /\ UNCHANGED pipeVars /\ UNCHANGED sessionVars /\ UNCHANGED flushVars

\* MiaPostProc_QuickFinish looks the session up under allSessionsMutex.
FindSession(c) ==
    /\ qpc[c] = "find"
    /\ qpc' = [qpc EXCEPT ![c] = IF alive THEN "use" ELSE "idle"]
    /\ UNCHANGED workerVars /\ UNCHANGED pipeVars /\ UNCHANGED sessionVars /\ UNCHANGED flushVars

\* strncmp over the length of the shorter name.
Matches(r, n) == \A i \in 1..Len(mName[r]) : i <= Len(n) => mName[r][i] = n[i]

\* The first match of mBusyPipelines, whose order is that of the addresses.
\* (If the session is deleted between the look-up and here, this reads freed
\* memory; the outcome considered is that nothing is found.)
quickFinish(c, n, needImageResult) ==
    /\ qpc[c] = "use" /\ qpc' = [qpc EXCEPT ![c] = "idle"]
    /\ c = "service" => ~needImageResult
    /\ \/ /\ alive
          /\ \E r \in mBusyPipelines :
                /\ Matches(r, n)
                /\ mFlushStatus' = [mFlushStatus EXCEPT ![r] =
                                       IF needImageResult THEN "Expediting" ELSE "ForcedFlush"]
                /\ released' = [released EXCEPT ![r] = TRUE]
       \/ /\ ~alive \/ \A r \in mBusyPipelines : ~Matches(r, n)
          /\ UNCHANGED <<mFlushStatus, released>>
    /\ UNCHANGED <<task, mName, images, fedBy, nodes>>
    /\ UNCHANGED workerVars /\ UNCHANGED sessionVars /\ UNCHANGED flushVars

----------------------------------------------------------------------------
Worker == \/ \E r \in Requests : Drop(r) \/ RejectUntagged(r) \/ postProcess(r)
          \/ InsertBusy \/ SetUpAndStart \/ DeliverFirst \/ DeliverNext
WorkerInside == InsertBusy \/ SetUpAndStart \/ DeliverFirst \/ DeliverNext
Task(r) == TaskStarts(r) \/ MoveToIdle(r) \/ EraseBusy(r)
Flushing == FlushBusy \/ FlushRetests \/ FlushWaitsForNodes
Quick(c) == FindSession(c) \/ \E n \in Names, b \in BOOLEAN : quickFinish(c, n, b)

Next ==
    \/ Worker
    \/ \E r \in Requests : Task(r) \/ TaskFinishes(r) \/ NodeStarts(r) \/ NodeEnds(r)
    \/ FlushCalled \/ Flushing \/ destroy
    \/ \E c \in Callers : QuickFinishCalled(c) \/ Quick(c)

Spec == Init /\ [][Next]_vars

\* Pipeline!QuickFinishEnds: a request that is and stays ForcedFlush ends;
\* MiaNode: node tasks end.  Nobody has to send a frame, to cancel or to flush;
\* a request that is not cancelled may wait for frames for ever, and one that
\* is only expedited for its own nodes (a frame-by-frame chain).
FairSpec ==
    /\ Spec
    /\ WF_vars(WorkerInside) /\ WF_vars(Flushing)
    /\ \A r \in Requests : /\ WF_vars(Task(r)) /\ WF_vars(NodeEnds(r))
                           /\ WF_vars(mFlushStatus[r] = "ForcedFlush" /\ TaskFinishes(r))
    /\ \A c \in Callers : WF_vars(Quick(c))

----------------------------------------------------------------------------
\* Types; in particular mNodeThreadNum never becomes negative.
TypeOK ==
    /\ {mFlushFlag, mFlushed, alive} \subseteq BOOLEAN
    /\ tpc \in {"idle", "insert", "setup", "deliver", "history"}
    /\ cur \in Requests \cup {None} /\ come \in [Requests -> Nat]
    /\ mInputNotEnoughPipe \in [Names -> Record]
    /\ mBusyPipelines \subseteq Requests /\ mIdlePipeline \in Requests \cup {None}
    /\ mNodeThreadNum \in Nat
    /\ task \in [Requests -> {"none", "created", "queued", "running", "finish", "idle", "done"}]
    /\ mName \in [Requests -> Names \cup {<<>>}]
    /\ mFlushStatus \in [Requests -> {"NoFlush", "Expediting", "ForcedFlush"}]
    /\ released \in [Requests -> BOOLEAN] /\ images \in [Requests -> Nat]
    /\ fedBy \in [Requests -> SUBSET Requests] /\ nodes \in [Requests -> 0..NodeTasks]
    /\ fpc \in {"idle", "flush", "asleep", "awake", "nodes", "nodesAsleep", "returned", "destroyed"}
    /\ qpc \in [Callers -> {"idle", "find", "use"}]

\* "flush return after all requests have ended": when flush has returned, and
\* so when the session is deleted behind it, no pipeline task, no node task
\* and no postProcess will touch the session again, and no pipeline still
\* holds an image, although requests are created, cancelled and ended by
\* other threads while flush runs.
FlushedIsQuiet ==
    fpc \in {"returned", "destroyed"} =>
        /\ mBusyPipelines = {} /\ tpc = "idle"
        /\ \A r \in Requests : task[r] \in {"none", "done"} /\ nodes[r] = 0 /\ images[r] = 0

\* The camera delivers as many frames as a request announces.
AllFramesCome == \A r \in Requests : Total[r] > 0 => Frames[r] = Total[r]

\* Frames are routed by name through mInputNotEnoughPipe, which nothing but
\* the frames themselves clears: each frame still reaches the pipeline of its
\* own request, also when that was cancelled before its last frame and when a
\* later request has the same name, provided that AllFramesCome.
FramesRouted == \A r \in Requests : fedBy[r] \subseteq {r}

\* flush returns: it cannot miss the last moveToIdleQueue or the last node,
\* and the HAL's flag keeps out requests that nobody would cancel.  Only an
\* expedite can hold it up: a quickFinish whose test of mFlushed came before
\* flush (Reprocess.cpp:609) overwrites the ForcedFlush of a request after
\* flush has marked it (MiaPipeline.cpp:743), and that request may then wait
\* for ever for a frame of its own nodes.
Expedited(r) == /\ r \in mBusyPipelines /\ task[r] = "running"
                /\ mFlushStatus[r] = "Expediting"
FlushReturns ==
    (fpc = "flush") ~> \/ fpc \in {"returned", "destroyed"}
                       \/ [](\E r \in Requests : Expedited(r))
=============================================================================
