--------------------------- MODULE PostProcessor ---------------------------
(***************************************************************************)
(* PostProcessor of the camera HAL (hal/mihal/Reprocess.cpp): one algorithm *)
(* session and, per snapshot, a RequestRecord that ties together the input *)
(* buffers given to the engine, the application's later request for the    *)
(* result (the mock camera), and the engine's callbacks.  A record leaves  *)
(* mOutputRequests for one of five reasons and is destroyed with its last  *)
(* reference; its destructor gives back what is left and answers the       *)
(* application.                                                            *)
(*                                                                         *)
(* Two mutexes matter: mRequestMutex and the one of each record.  Most     *)
(* sections are one step here; the ones that wait for a second lock, or    *)
(* call the engine, under the first are split.  The engine is external.    *)
(***************************************************************************)
EXTENDS Integers, FiniteSets, Sequences

CONSTANTS Requests,
          Frames,     \* input frames of each request
          Streams,    \* output streams of each request
          None

\* Why mRequestMutex is held, and for which request.
Holder == {"output", "died", "error", "flush"} \X (Requests \cup {None})

ASSUME PostProcessorAssumption ==
    None \notin Requests \cup Frames \cup Holder /\ Frames # {} /\ Streams # {}

VARIABLES mOutputRequests,                     \* keys of the map
          record,                              \* none, live or gone (destroyed)
          inputBuffers, outputBuffers, cameraRequest, setInfo, errorState, finishResult,
          mRequestMutex,                       \* who holds it between two steps
          mFlushFlag, mFlushed, fpc,
          queue, wpc, wr, wf,                  \* mThread: its tasks and the current one
          tasks,                               \* tasks of the singleton pool
          sent, asked,                         \* calls made by the HAL
          engine, engineIn, get,               \* the engine: state, frames, getBuffer
          released, answers                    \* buffers given back, answers to the application
vars == <<mOutputRequests, record, inputBuffers, outputBuffers, cameraRequest, setInfo, errorState,
          finishResult, mRequestMutex, mFlushFlag, mFlushed, fpc, queue, wpc, wr, wf, tasks,
          sent, asked, engine, engineIn, get, released, answers>>
recordVars == <<inputBuffers, outputBuffers, cameraRequest, setInfo, errorState, finishResult>>
workerVars == <<queue, wpc, wr, wf>>
flushVars == <<mFlushFlag, mFlushed, fpc>>
engineVars == <<engine, engineIn, get>>
callVars == <<sent, asked>>

Task == [r : Requests, type : {"Output", "Input"}, item : Streams \cup Frames,
         at : {"begin", "erase"}]
Port == Requests \X Streams

Init ==
    /\ mOutputRequests = {} /\ record = [r \in Requests |-> "none"]
    /\ inputBuffers = [r \in Requests |-> {}] /\ outputBuffers = [r \in Requests |-> {}]
    /\ cameraRequest = [r \in Requests |-> FALSE] /\ setInfo = [r \in Requests |-> FALSE]
    /\ errorState = [r \in Requests |-> FALSE] /\ finishResult = [r \in Requests |-> "NoFinish"]
    /\ mRequestMutex = None
    /\ mFlushFlag = FALSE /\ mFlushed = FALSE /\ fpc = "idle"
    /\ queue = <<>> /\ wpc = "idle" /\ wr = None /\ wf = None
    /\ tasks = {}
    /\ sent = [r \in Requests |-> {}] /\ asked = {}
    /\ engine = [r \in Requests |-> "none"] /\ engineIn = [r \in Requests |-> {}]
    /\ get = [p \in Port |-> "none"]
    /\ released = [p \in Requests \X Frames |-> 0] /\ answers = [r \in Requests |-> 0]

----------------------------------------------------------------------------
(* Locks and references. *)

RequestMutexFree == mRequestMutex = None
\* Only the worker keeps a record locked from one step to another.
RecordFree(r) == ~(wpc \in {"process", "callback"} /\ wr = r)
Referenced_weak(r) ==                     \* Mutated form: mOutputRequests keeps weak pointers
    \/ wpc # "idle" /\ wr = r
    \/ \E s \in Streams : get[<<r, s>>] \in {"found", "wait", "awake", "null"}
    \/ \E t \in tasks : t.r = r
    \/ fpc \in {"engine", "clear"}
\* Copies of the shared_ptr: the worker's, those of getBuffer, of the tasks
\* and the set rm of flush.
Referenced(r) ==
    \/ r \in mOutputRequests
    \/ wpc # "idle" /\ wr = r
    \/ \E s \in Streams : get[<<r, s>>] \in {"found", "wait", "awake", "null"}
    \/ \E t \in tasks : t.r = r
    \/ fpc \in {"engine", "clear"}

\* A notification of mCond of record r.
Woken(r, some) == [p \in Port |-> IF p[1] = r /\ p[2] \in some /\ get[p] = "wait"
                                  THEN "awake" ELSE get[p]]

\* ~RequestRecord, run by whoever drops the last reference.
destroyRecord(r) ==
    /\ record[r] = "live" /\ ~Referenced(r)
    /\ record' = [record EXCEPT ![r] = "gone"]
    /\ released' = [p \in Requests \X Frames |->
                       IF p[1] = r /\ p[2] \in inputBuffers[r] THEN released[p] + 1 ELSE released[p]]
    /\ answers' = [answers EXCEPT ![r] = IF cameraRequest[r] THEN @ + 1 ELSE @]
    /\ UNCHANGED <<mOutputRequests, mRequestMutex, tasks>>
    /\ UNCHANGED recordVars /\ UNCHANGED flushVars /\ UNCHANGED workerVars
    /\ UNCHANGED engineVars /\ UNCHANGED callVars

----------------------------------------------------------------------------
(* Calls of the HAL. *)

setInvitationInfo(r) ==
    /\ record[r] = "none" /\ sent[r] = {} /\ RequestMutexFree /\ ~mFlushed
    /\ record' = [record EXCEPT ![r] = "live"]
    /\ mOutputRequests' = mOutputRequests \cup {r}
    /\ UNCHANGED <<mRequestMutex, tasks, released, answers>>
    /\ UNCHANGED recordVars /\ UNCHANGED flushVars /\ UNCHANGED workerVars
    /\ UNCHANGED engineVars /\ UNCHANGED callVars

\* processErrorRequest gives an input buffer back at once.
processErrorRequest(r, f) == released' = [released EXCEPT ![<<r, f>>] = @ + 1]

processInputRequest(r, f) ==
    /\ record[r] # "none" /\ f \notin sent[r]
    /\ sent' = [sent EXCEPT ![r] = @ \cup {f}]
    /\ \/ mFlushed /\ processErrorRequest(r, f) /\ UNCHANGED queue
       \/ ~mFlushed /\ queue' = Append(queue, <<r, f>>) /\ UNCHANGED released
    /\ UNCHANGED <<mOutputRequests, record, mRequestMutex, tasks, asked, answers, wpc, wr, wf>>
    /\ UNCHANGED recordVars /\ UNCHANGED flushVars /\ UNCHANGED engineVars

\* The mock camera's request.  Under mRequestMutex it takes the record's lock.
processOutputRequest(r) ==
    /\ record[r] # "none" /\ r \notin asked /\ RequestMutexFree
    /\ asked' = asked \cup {r}
    /\ \/ /\ mFlushed \/ r \notin mOutputRequests
          /\ answers' = [answers EXCEPT ![r] = @ + 1] /\ UNCHANGED mRequestMutex
       \/ /\ ~mFlushed /\ r \in mOutputRequests
          /\ mRequestMutex' = <<"output", r>> /\ UNCHANGED answers
    /\ UNCHANGED <<mOutputRequests, record, tasks, sent, released>>
    /\ UNCHANGED recordVars /\ UNCHANGED flushVars /\ UNCHANGED workerVars
    /\ UNCHANGED engineVars

OutputRequestSet(r) ==
    /\ mRequestMutex = <<"output", r>> /\ RecordFree(r) /\ mRequestMutex' = None
    /\ outputBuffers' = [outputBuffers EXCEPT ![r] = Streams]
    /\ cameraRequest' = [cameraRequest EXCEPT ![r] = TRUE]
    /\ setInfo' = [setInfo EXCEPT ![r] = TRUE]
    /\ get' = Woken(r, Streams)
    /\ UNCHANGED <<mOutputRequests, record, inputBuffers, errorState, finishResult, tasks, engine,
                   engineIn, released, answers>>
    /\ UNCHANGED flushVars /\ UNCHANGED workerVars /\ UNCHANGED callVars

\* quickFinishTask runs on mThread, between two frames, and stops the input of
\* the request in the engine: it refuses the next frames, but with needResult
\* it delivers what it can make of those it has.
quickFinishTask(r) ==
    /\ ~mFlushed /\ wpc = "idle" /\ engine[r] = "run"
    /\ engine' = [engine EXCEPT ![r] = "stop"]
    /\ UNCHANGED <<mOutputRequests, record, mRequestMutex, tasks, engineIn, get, released, answers>>
    /\ UNCHANGED recordVars /\ UNCHANGED flushVars /\ UNCHANGED workerVars /\ UNCHANGED callVars

\* The code forgets whatever record it is given.  Its only caller gives one of
\* which no frame has been sent yet: Photographer.cpp:601-606 cancels the
\* others with quickFinishTask.
removeMission(r) ==
    /\ ~mFlushed /\ RequestMutexFree /\ r \in mOutputRequests
    /\ engine[r] = "none" /\ sent[r] = {}
    /\ mOutputRequests' = mOutputRequests \ {r}
    /\ UNCHANGED <<record, mRequestMutex, tasks, released, answers>>
    /\ UNCHANGED recordVars /\ UNCHANGED flushVars /\ UNCHANGED workerVars
    /\ UNCHANGED engineVars /\ UNCHANGED callVars

\* notifyBGServiceHasDied: cancels the request in the engine under both locks
\* (a record with setInfo is only locked and unlocked, and left out here).
notifyBGServiceHasDied(r) ==
    /\ RequestMutexFree /\ r \in mOutputRequests /\ ~setInfo[r]
    /\ mRequestMutex' = <<"died", r>>
    /\ UNCHANGED <<mOutputRequests, record, tasks, released, answers>>
    /\ UNCHANGED recordVars /\ UNCHANGED flushVars /\ UNCHANGED workerVars
    /\ UNCHANGED engineVars /\ UNCHANGED callVars

ServiceDied(r) ==
    /\ mRequestMutex = <<"died", r>> /\ RecordFree(r) /\ mRequestMutex' = None
    /\ setInfo' = [setInfo EXCEPT ![r] = TRUE]
    /\ engine' = [engine EXCEPT ![r] = IF @ = "run" THEN "stop" ELSE @]
    /\ get' = Woken(r, Streams)
    /\ UNCHANGED <<mOutputRequests, record, inputBuffers, outputBuffers, cameraRequest, errorState,
                   finishResult, tasks, engineIn, released, answers>>
    /\ UNCHANGED flushVars /\ UNCHANGED workerVars /\ UNCHANGED callVars

----------------------------------------------------------------------------
(* mThread: the tasks of processInputRequest. *)

WorkerDone == wpc' = "idle" /\ wr' = None /\ wf' = None

TakeInput ==
    LET r == Head(queue)[1] f == Head(queue)[2] IN
    /\ wpc = "idle" /\ queue # <<>> /\ RequestMutexFree
    /\ queue' = Tail(queue)
    /\ \/ /\ ~mFlushed /\ r \in mOutputRequests
          /\ wpc' = "lock" /\ wr' = r /\ wf' = f /\ UNCHANGED released
       \/ /\ mFlushed \/ r \notin mOutputRequests
          /\ processErrorRequest(r, f) /\ UNCHANGED <<wpc, wr, wf>>
    /\ UNCHANGED <<mOutputRequests, record, mRequestMutex, tasks, answers>>
    /\ UNCHANGED recordVars /\ UNCHANGED flushVars
    /\ UNCHANGED engineVars /\ UNCHANGED callVars

\* Lock the record and note the buffer.
NoteInput ==
    /\ wpc = "lock" /\ wpc' = "process"
    /\ inputBuffers' = [inputBuffers EXCEPT ![wr] = @ \cup {wf}]
    /\ UNCHANGED <<mOutputRequests, record, outputBuffers, cameraRequest, setInfo, errorState,
                   finishResult, mRequestMutex, tasks, queue, wr, wf, released, answers>>
    /\ UNCHANGED flushVars /\ UNCHANGED engineVars /\ UNCHANGED callVars

\* MiaPostProc_Process, with the record locked and if the flag is free.
Process ==
    /\ wpc = "process"
    /\ \/ /\ mFlushFlag /\ WorkerDone /\ UNCHANGED <<mFlushFlag, engine, engineIn>>
       \/ /\ ~mFlushFlag /\ engine[wr] # "stop" /\ WorkerDone
          /\ engine' = [engine EXCEPT ![wr] = "run"]
          /\ engineIn' = [engineIn EXCEPT ![wr] = @ \cup {wf}]
          /\ UNCHANGED mFlushFlag
       \/ /\ ~mFlushFlag /\ engine[wr] = "stop"
          /\ mFlushFlag' = TRUE /\ wpc' = "callback"
          /\ UNCHANGED <<wr, wf, engine, engineIn>>
    /\ UNCHANGED <<mOutputRequests, record, mRequestMutex, tasks, queue, mFlushed, fpc, get,
                   released, answers>>
    /\ UNCHANGED recordVars /\ UNCHANGED callVars

\* processMialgoResult: a task that holds the record, if it is still known.
processMialgoResult(r, type, item) ==
    tasks' = IF r \in mOutputRequests
             THEN tasks \cup {[r |-> r, type |-> type, item |-> item, at |-> "begin"]}
             ELSE tasks

\* The engine refused the frame and gives it back inside MiaPostProc_Process.
RefusedFrame ==
    /\ wpc = "callback" /\ RequestMutexFree
    /\ processMialgoResult(wr, "Input", wf)
    /\ mFlushFlag' = FALSE /\ WorkerDone
    /\ UNCHANGED <<mOutputRequests, record, mRequestMutex, queue, mFlushed, fpc, released, answers>>
    /\ UNCHANGED recordVars /\ UNCHANGED engineVars /\ UNCHANGED callVars

----------------------------------------------------------------------------
(* Callbacks of the engine. *)

\* BufferCallback::getBuffer and the first part of getBuffer.  The engine may
\* ask as long as something runs in it: an expedited request goes on to its
\* result, and a node that has tested for a flush before it was ordered, too.
getBuffer(r, s) ==
    /\ engine[r] # "none" /\ fpc \notin {"clear", "returned"}
    /\ get[<<r, s>>] = "none" /\ RequestMutexFree
    /\ get' = [get EXCEPT ![<<r, s>>] =
                  IF mFlushed \/ r \notin mOutputRequests THEN "failed" ELSE "found"]
    /\ UNCHANGED <<mOutputRequests, record, mRequestMutex, tasks, engine, engineIn, released, answers>>
    /\ UNCHANGED recordVars /\ UNCHANGED flushVars /\ UNCHANGED workerVars /\ UNCHANGED callVars

\* The buffer of stream s: null if the application's request lacks it.
Buffer(r, s) == IF s \in outputBuffers[r] THEN "ok" ELSE "null"

\* With the record locked: take the buffer, or invite the application (which
\* may be gone) and wait.
getBufferLocked(r, s) ==
    /\ get[<<r, s>>] = "found" /\ RecordFree(r)
    /\ \E result \in IF cameraRequest[r] THEN {Buffer(r, s)}
                     ELSE {"failed", IF setInfo[r] \/ mFlushed THEN "awake" ELSE "wait"} :
          get' = [get EXCEPT ![<<r, s>>] = result]
    /\ UNCHANGED <<mOutputRequests, record, mRequestMutex, tasks, engine, engineIn, released, answers>>
    /\ UNCHANGED recordVars /\ UNCHANGED flushVars /\ UNCHANGED workerVars /\ UNCHANGED callVars

\* The wait ends: notified, or timed out.
WaitEnds(r, s) ==
    /\ get[<<r, s>>] \in {"wait", "awake"} /\ RecordFree(r)
    /\ get' = [get EXCEPT ![<<r, s>>] =
                  IF mFlushed \/ ~setInfo[r] THEN "failed" ELSE Buffer(r, s)]
    /\ UNCHANGED <<mOutputRequests, record, mRequestMutex, tasks, engine, engineIn, released, answers>>
    /\ UNCHANGED recordVars /\ UNCHANGED flushVars /\ UNCHANGED workerVars /\ UNCHANGED callVars

\* Without a buffer the record is forgotten.
ForgetRecord(r, s) ==
    /\ get[<<r, s>>] = "null" /\ RequestMutexFree
    /\ mOutputRequests' = mOutputRequests \ {r}
    /\ get' = [get EXCEPT ![<<r, s>>] = "failed"]
    /\ UNCHANGED <<record, mRequestMutex, tasks, engine, engineIn, released, answers>>
    /\ UNCHANGED recordVars /\ UNCHANGED flushVars /\ UNCHANGED workerVars /\ UNCHANGED callVars

\* BufferCallback::release of a result, and of an input frame.
ReleaseOutput(r, s) ==
    /\ get[<<r, s>>] = "ok" /\ RequestMutexFree
    /\ get' = [get EXCEPT ![<<r, s>>] = "done"]
    /\ processMialgoResult(r, "Output", s)
    /\ UNCHANGED <<mOutputRequests, record, mRequestMutex, engine, engineIn, released, answers>>
    /\ UNCHANGED recordVars /\ UNCHANGED flushVars /\ UNCHANGED workerVars /\ UNCHANGED callVars

ReleaseInput(r, f) ==
    /\ f \in engineIn[r] /\ RequestMutexFree
    /\ engineIn' = [engineIn EXCEPT ![r] = @ \ {f}]
    /\ processMialgoResult(r, "Input", f)
    /\ UNCHANGED <<mOutputRequests, record, mRequestMutex, engine, get, released, answers>>
    /\ UNCHANGED recordVars /\ UNCHANGED flushVars /\ UNCHANGED workerVars /\ UNCHANGED callVars

\* A node of the engine fails.  setError takes both locks, and the engine stops
\* the request, and refuses its next frames, only after that callback.
EngineFails(r) ==
    /\ engine[r] = "run" /\ RequestMutexFree
    /\ \/ /\ r \in mOutputRequests /\ mRequestMutex' = <<"error", r>>
          /\ UNCHANGED engine
       \/ /\ r \notin mOutputRequests /\ engine' = [engine EXCEPT ![r] = "stop"]
          /\ UNCHANGED mRequestMutex
    /\ UNCHANGED <<mOutputRequests, record, tasks, engineIn, get, released, answers>>
    /\ UNCHANGED recordVars /\ UNCHANGED flushVars /\ UNCHANGED workerVars /\ UNCHANGED callVars

setError(r) ==
    /\ mRequestMutex = <<"error", r>> /\ RecordFree(r) /\ mRequestMutex' = None
    /\ errorState' = [errorState EXCEPT ![r] = TRUE]
    /\ engine' = [engine EXCEPT ![r] = "stop"]
    /\ UNCHANGED <<mOutputRequests, record, inputBuffers, outputBuffers, cameraRequest, setInfo,
                   finishResult, tasks, engineIn, get, released, answers>>
    /\ UNCHANGED flushVars /\ UNCHANGED workerVars /\ UNCHANGED callVars

----------------------------------------------------------------------------
(* The tasks of processMialgoResult on the singleton pool. *)

Step(t, at) == tasks' = IF at = "end" THEN tasks \ {t} ELSE 
         (tasks \ {t}) \cup {[r |-> t.r, type |-> t.type, item |-> t.item, at |-> at]}

OutputTask(t) ==
    LET r == t.r
        left == IF errorState[r] THEN {} ELSE outputBuffers[r] \ {t.item}
        result == IF errorState[r] THEN "FinishError"
                  ELSE IF left = {} THEN "FinishSuccess" ELSE finishResult[r]
    IN
    /\ t \in tasks /\ t.type = "Output" /\ t.at = "begin" /\ RecordFree(r)
    /\ \/ /\ ~cameraRequest[r] /\ Step(t, "end") /\ UNCHANGED <<outputBuffers, finishResult>>
       \/ /\ cameraRequest[r]
          /\ outputBuffers' = [outputBuffers EXCEPT ![r] = left]
          /\ finishResult' = [finishResult EXCEPT ![r] = result]
          /\ Step(t, IF result = "NoFinish" THEN "end" ELSE "erase")
    /\ UNCHANGED <<mOutputRequests, record, inputBuffers, cameraRequest, setInfo, errorState,
                   mRequestMutex, released, answers>>
    /\ UNCHANGED flushVars /\ UNCHANGED workerVars /\ UNCHANGED engineVars /\ UNCHANGED callVars

InputTask_kept(t) ==                      \* Mutated form: the buffer stays in the record
    /\ t \in tasks /\ t.type = "Input" /\ t.at = "begin" /\ RecordFree(t.r)
    /\ t.item \in inputBuffers[t.r]
    /\ released' = [released EXCEPT ![<<t.r, t.item>>] = @ + 1]
    /\ Step(t, "erase")
    /\ UNCHANGED <<mOutputRequests, record, outputBuffers, cameraRequest, setInfo, errorState,
                   inputBuffers, finishResult, mRequestMutex, answers>>
    /\ UNCHANGED flushVars /\ UNCHANGED workerVars /\ UNCHANGED engineVars /\ UNCHANGED callVars
InputTask(t) ==
    /\ t \in tasks /\ t.type = "Input" /\ t.at = "begin" /\ RecordFree(t.r)
    /\ \/ /\ t.item \in inputBuffers[t.r]
          /\ inputBuffers' = [inputBuffers EXCEPT ![t.r] = @ \ {t.item}]
          /\ released' = [released EXCEPT ![<<t.r, t.item>>] = @ + 1]
          /\ Step(t, "erase")
       \/ /\ t.item \notin inputBuffers[t.r]
          /\ Step(t, "end") /\ UNCHANGED <<inputBuffers, released>>
    /\ UNCHANGED <<mOutputRequests, record, outputBuffers, cameraRequest, setInfo, errorState,
                   finishResult, mRequestMutex, answers>>
    /\ UNCHANGED flushVars /\ UNCHANGED workerVars /\ UNCHANGED engineVars /\ UNCHANGED callVars

\* A result that is complete, or the last input of a failed request, ends the
\* record.  (The input task tests this after it has unlocked the record.)
EraseRecord_failed(t) ==                  \* Mutated form: only a failed request is erased
    /\ t \in tasks /\ t.at = "erase" /\ RequestMutexFree
    /\ mOutputRequests' = IF errorState[t.r] THEN mOutputRequests \ {t.r} ELSE mOutputRequests
    /\ Step(t, "end")
    /\ UNCHANGED <<record, mRequestMutex, released, answers>>
    /\ UNCHANGED recordVars /\ UNCHANGED flushVars /\ UNCHANGED workerVars
    /\ UNCHANGED engineVars /\ UNCHANGED callVars
EraseRecord(t) ==
    /\ t \in tasks /\ t.at = "erase" /\ RequestMutexFree
    /\ mOutputRequests' =
          IF t.type = "Output" \/ (inputBuffers[t.r] = {} /\ errorState[t.r])
          THEN mOutputRequests \ {t.r} ELSE mOutputRequests
    /\ Step(t, "end")
    /\ UNCHANGED <<record, mRequestMutex, released, answers>>
    /\ UNCHANGED recordVars /\ UNCHANGED flushVars /\ UNCHANGED workerVars
    /\ UNCHANGED engineVars /\ UNCHANGED callVars

----------------------------------------------------------------------------
(* flush. *)

\* Spin on mFlushFlag, lock, and set mFlushed ...
flush ==
    /\ fpc = "idle" /\ ~mFlushFlag /\ RequestMutexFree
    /\ mFlushFlag' = TRUE /\ mFlushed' = TRUE
    /\ fpc' = "notify" /\ mRequestMutex' = <<"flush", None>>
    /\ UNCHANGED <<mOutputRequests, record, tasks, released, answers>>
    /\ UNCHANGED recordVars /\ UNCHANGED workerVars /\ UNCHANGED engineVars /\ UNCHANGED callVars

\* ... lock each record and notify one waiter of it.
FlushNotify_locked ==                     \* Mutated form: keeps mRequestMutex
    /\ fpc = "notify" /\ fpc' = "engine"
    /\ \A r \in mOutputRequests : RecordFree(r)
    /\ engine' = [r \in Requests |-> IF engine[r] = "run" THEN "stop" ELSE engine[r]]
    /\ UNCHANGED <<mOutputRequests, record, tasks, mRequestMutex, mFlushFlag, mFlushed, engineIn,
                   get, released, answers>>
    /\ UNCHANGED recordVars /\ UNCHANGED workerVars /\ UNCHANGED callVars
FlushNotify ==
    /\ fpc = "notify" /\ fpc' = "engine"
    /\ \A r \in mOutputRequests : RecordFree(r)
    /\ mRequestMutex' = None
    /\ \E one \in [mOutputRequests -> Streams] :
          /\ \A r \in mOutputRequests :
                (\E s \in Streams : get[<<r, s>>] = "wait") => get[<<r, one[r]>>] = "wait"
          /\ get' = [p \in Port |->
                        IF p[1] \in mOutputRequests /\ one[p[1]] = p[2] /\ get[p] = "wait"
                        THEN "awake" ELSE get[p]]
    /\ engine' = [r \in Requests |-> IF engine[r] = "run" THEN "stop" ELSE engine[r]]
    /\ UNCHANGED <<mOutputRequests, record, tasks, mFlushFlag, mFlushed, engineIn, released, answers>>
    /\ UNCHANGED recordVars /\ UNCHANGED workerVars /\ UNCHANGED callVars

\* MiaPostProc_Flush returns when nothing runs in the engine (Session).
EngineFlushed ==
    /\ fpc = "engine" /\ fpc' = "clear"
    /\ \A r \in Requests : engineIn[r] = {}
    /\ \A p \in Port : get[p] \in {"none", "done", "failed"}
    /\ UNCHANGED <<mOutputRequests, record, mRequestMutex, tasks, mFlushFlag, mFlushed, released, answers>>
    /\ UNCHANGED recordVars /\ UNCHANGED workerVars /\ UNCHANGED engineVars /\ UNCHANGED callVars

ClearRecords ==
    /\ fpc = "clear" /\ fpc' = "returned" /\ RequestMutexFree
    /\ mOutputRequests' = {}
    /\ UNCHANGED <<record, mRequestMutex, tasks, mFlushFlag, mFlushed, released, answers>>
    /\ UNCHANGED recordVars /\ UNCHANGED workerVars /\ UNCHANGED engineVars /\ UNCHANGED callVars

----------------------------------------------------------------------------
Worker == TakeInput \/ NoteInput \/ Process \/ RefusedFrame
Locked(r) == OutputRequestSet(r) \/ ServiceDied(r) \/ setError(r)
GetBuffer(r, s) ==
    getBufferLocked(r, s) \/ WaitEnds(r, s) \/ ForgetRecord(r, s) \/ ReleaseOutput(r, s)
PoolTask(t) == OutputTask(t) \/ InputTask(t) \/ EraseRecord(t)
Flushing == FlushNotify \/ EngineFlushed \/ ClearRecords

System ==
    \/ Worker \/ Flushing
    \/ \E r \in Requests :
          \/ Locked(r) \/ destroyRecord(r)
          \/ \E f \in Frames : ReleaseInput(r, f)
          \/ \E s \in Streams : GetBuffer(r, s)
    \/ \E t \in tasks : PoolTask(t)

Next ==
    \/ System \/ flush
    \/ \E r \in Requests :
          \/ setInvitationInfo(r) \/ processOutputRequest(r) \/ removeMission(r)
          \/ notifyBGServiceHasDied(r) \/ quickFinishTask(r) \/ EngineFails(r)
          \/ \E f \in Frames : processInputRequest(r, f)
          \/ \E s \in Streams : getBuffer(r, s)

Spec == Init /\ [][Next]_vars

\* Threads that can run do, a wait ends (wait_for has a time-out), the engine
\* gives back its frames and results.  Nobody has to call the PostProcessor.
\* Every step can happen a bounded number of times, so that each behaviour
\* ends and fairness of the whole system is fairness of every thread.
FairSpec == Spec /\ WF_vars(System)

----------------------------------------------------------------------------
\* Types; in particular a record that mOutputRequests knows is never destroyed.
TypeOK ==
    /\ mOutputRequests \subseteq Requests /\ record \in [Requests -> {"none", "live", "gone"}]
    /\ inputBuffers \in [Requests -> SUBSET Frames] /\ outputBuffers \in [Requests -> SUBSET Streams]
    /\ {cameraRequest, setInfo, errorState} \subseteq [Requests -> BOOLEAN]
    /\ finishResult \in [Requests -> {"NoFinish", "FinishError", "FinishSuccess"}]
    /\ mRequestMutex \in Holder \cup {None} /\ {mFlushFlag, mFlushed} \subseteq BOOLEAN
    /\ queue \in Seq(Requests \X Frames) /\ tasks \subseteq Task
    /\ wpc \in {"idle", "lock", "process", "callback"}
    /\ wr \in Requests \cup {None} /\ wf \in Frames \cup {None}
    /\ sent \in [Requests -> SUBSET Frames] /\ asked \subseteq Requests
    /\ engine \in [Requests -> {"none", "run", "stop"}] /\ engineIn \in [Requests -> SUBSET Frames]
    /\ get \in [Port -> {"none", "found", "wait", "awake", "ok", "null", "failed", "done"}]
    /\ released \in [Requests \X Frames -> Nat] /\ answers \in [Requests -> Nat]
    /\ fpc \in {"idle", "notify", "engine", "clear", "returned"}
    /\ \A r \in mOutputRequests : record[r] = "live"

\* However callbacks, cancellation, time-outs and flush interleave, no input
\* buffer is given back and no request of the application answered twice; and
\* a destroyed record leaves no buffer it has noted, and no request, behind.
RecordSettled ==
    \A r \in Requests :
        /\ \A f \in Frames :
              /\ released[<<r, f>>] <= 1
              /\ (record[r] = "gone" /\ f \in inputBuffers[r]) => released[<<r, f>>] = 1
        /\ answers[r] <= 1
        /\ (record[r] = "gone" /\ r \in asked) => answers[r] = 1

\* A result that the engine has delivered in full is answered, unless the
\* worker is stuck in the callback of a refused frame (InputRequestsEnd).
ResultsAnswered ==
    \A r \in Requests :
        (\A s \in Streams : get[<<r, s>>] = "done") ~> (answers[r] = 1 \/ [](wpc = "callback"))

\* Once flush has stopped the requests it returns: the engine can call back
\* while flush waits for it.
FlushReturns == fpc = "notify" ~> fpc = "returned"

\* "Asynchronous non-blocking execute for input request": the worker gets
\* done with every frame.
InputRequestsEnd == wpc # "idle" ~> wpc = "idle"
=============================================================================
