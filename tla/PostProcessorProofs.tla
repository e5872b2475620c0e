------------------------ MODULE PostProcessorProofs ------------------------
(***************************************************************************)
(* Safety of the PostProcessor, for every set of requests, frames and      *)
(* streams: each input buffer is given back once and each request of the   *)
(* application answered once, whatever destroys the record.                *)
(***************************************************************************)
EXTENDS PostProcessor, DistinctSequences, TLAPS

----------------------------------------------------------------------------
(* The inductive invariant. *)

\* Whoever still uses a record keeps it alive; only flush unlocks what flush
\* has locked.
UseInv ==
    /\ wpc # "idle" => wr \in Requests /\ wf \in Frames /\ record[wr] = "live"
    /\ \A t \in tasks : record[t.r] = "live"
    /\ fpc = "notify" => mRequestMutex = <<"flush", None>>

\* The frame that the worker has taken and not yet noted in the record.
Taken(p) == wpc = "lock" /\ <<wr, wf>> = p
\* Frames that the HAL has sent and no record knows of yet.
Waiting(p) == p \in Elems(queue) \/ Taken(p)

\* Where frame p[2] of request p[1] is: waiting, or noted in the record, which
\* has to give it back until it is destroyed, or given back.
FrameInv(p) ==
    /\ Waiting(p) \/ p[2] \in inputBuffers[p[1]] => p[2] \in sent[p[1]]
    /\ p[2] \notin sent[p[1]] => released[p] = 0
    /\ Waiting(p) => p[2] \notin inputBuffers[p[1]] /\ released[p] = 0
    /\ p[2] \in inputBuffers[p[1]] =>
          released[p] = IF record[p[1]] = "gone" THEN 1 ELSE 0
    /\ released[p] \in {0, 1}

\* A frame waits at one place.
QueueInv == Distinct(queue) /\ \A p \in Elems(queue) : ~Taken(p)

\* Who owes the application its answer: processOutputRequest, until it has
\* left the request in the record; then the record, until it is destroyed.
AnswerInv(r) ==
    /\ r \notin asked => answers[r] = 0 /\ ~cameraRequest[r] /\ mRequestMutex # <<"output", r>>
    /\ mRequestMutex = <<"output", r>> =>
          r \in mOutputRequests /\ answers[r] = 0 /\ ~cameraRequest[r]
    /\ cameraRequest[r] => answers[r] = IF record[r] = "gone" THEN 1 ELSE 0
    /\ r \in asked /\ ~cameraRequest[r] /\ mRequestMutex # <<"output", r>> => answers[r] = 1

FramesInv == QueueInv /\ \A p \in Requests \X Frames : FrameInv(p)
AnswersInv == \A r \in Requests : AnswerInv(r)
IInv == TypeOK /\ UseInv /\ FramesInv /\ AnswersInv

----------------------------------------------------------------------------
(* What the steps with a choice do. *)

\* Counting once more is still counting.
LEMMA CountUp ==
  ASSUME NEW S, NEW g \in [S -> Nat], NEW x \in S
  PROVE  [g EXCEPT ![x] = g[x] + 1] \in [S -> Nat]
OBVIOUS

\* The worker takes a frame, or gives it back because its record is gone.
LEMMA TakeFacts ==
  ASSUME TypeOK, TakeInput
  PROVE  \E r \in Requests, f \in Frames :
            /\ Head(queue) = <<r, f>>
            /\ \/ /\ r \in mOutputRequests /\ wpc' = "lock" /\ wr' = r /\ wf' = f
                  /\ released' = released
               \/ /\ released' = [released EXCEPT ![<<r, f>>] = released[<<r, f>>] + 1]
                  /\ wpc' = wpc /\ wr' = wr /\ wf' = wf
            /\ released' \in [Requests \X Frames -> Nat]
<1>1. Head(queue) \in Requests \X Frames
  BY DEF TakeInput, TypeOK
<1>2. PICK r \in Requests, f \in Frames : Head(queue) = <<r, f>>
  BY <1>1
<1>3. Head(queue)[1] = r /\ Head(queue)[2] = f
  BY <1>2
<1>4. [released EXCEPT ![<<r, f>>] = released[<<r, f>>] + 1] \in [Requests \X Frames -> Nat]
  BY <1>1, <1>2, CountUp DEF TypeOK
<1>5. released' \in [Requests \X Frames -> Nat]
  BY <1>3, <1>4 DEF TakeInput, processErrorRequest, TypeOK
<1>6. QED
  BY <1>2, <1>3, <1>5 DEF TakeInput, processErrorRequest

\* After Process the worker is idle, or waits to hear of the refused frame.
LEMMA ProcessFacts ==
  ASSUME TypeOK, UseInv, Process
  PROVE  /\ wr \in Requests /\ wf \in Frames
         /\ (wpc' = "idle" /\ wr' = None /\ wf' = None) \/ (wpc' = "callback" /\ wr' = wr /\ wf' = wf)
         /\ mFlushFlag' \in BOOLEAN
         /\ engine' \in [Requests -> {"none", "run", "stop"}] /\ engineIn' \in [Requests -> SUBSET Frames]
<1>1. wr \in Requests /\ wf \in Frames
  BY DEF Process, UseInv
<1>2. engine' \in [Requests -> {"none", "run", "stop"}] /\ engineIn' \in [Requests -> SUBSET Frames]
  <2>1. \/ engine' = engine /\ engineIn' = engineIn
        \/ /\ engine' = [engine EXCEPT ![wr] = "run"]
           /\ engineIn' = [engineIn EXCEPT ![wr] = engineIn[wr] \cup {wf}]
    BY DEF Process
  <2>2. engine \in [Requests -> {"none", "run", "stop"}] /\ engineIn \in [Requests -> SUBSET Frames]
    BY DEF TypeOK
  <2>3. QED
    BY <1>1, <2>1, <2>2
<1>3. mFlushFlag' \in BOOLEAN
  BY DEF Process, TypeOK
<1>4. (wpc' = "idle" /\ wr' = None /\ wf' = None) \/ (wpc' = "callback" /\ wr' = wr /\ wf' = wf)
  BY DEF Process, WorkerDone
<1>5. QED
  BY <1>1, <1>2, <1>3, <1>4

\* A callback leaves a task behind only for a record that is still known.
LEMMA ResultFacts ==
  ASSUME TypeOK, NEW r \in Requests, NEW type \in {"Output", "Input"}, NEW i \in Streams \cup Frames,
         processMialgoResult(r, type, i)
  PROVE  /\ tasks' \subseteq Task
         /\ \A t \in tasks' : t \in tasks \/ (t.r = r /\ r \in mOutputRequests)
BY DEF TypeOK, processMialgoResult, Task

\* A task goes on, or ends, with the record it had.
LEMMA StepFacts ==
  ASSUME TypeOK, NEW t \in tasks, NEW at \in {"erase", "end"}, Step(t, at)
  PROVE  tasks' \subseteq Task /\ \A u \in tasks' : u \in tasks \/ u.r = t.r
BY DEF TypeOK, Step, Task

\* The task of an output: a part of the buffers is left, perhaps none.
LEMMA OutputFacts ==
  ASSUME TypeOK, NEW t \in tasks, OutputTask(t)
  PROVE  /\ t.r \in Requests /\ outputBuffers' \in [Requests -> SUBSET Streams]
         /\ finishResult' \in [Requests -> {"NoFinish", "FinishError", "FinishSuccess"}]
         /\ tasks' \subseteq Task /\ \A u \in tasks' : u \in tasks \/ u.r = t.r
<1>1. t.r \in Requests
  BY DEF TypeOK, Task
<1>2. outputBuffers' \in [Requests -> SUBSET Streams]
  <2> DEFINE left == IF errorState[t.r] THEN {} ELSE outputBuffers[t.r] \ {t.item}
  <2>1. left \in SUBSET Streams
    BY <1>1 DEF TypeOK
  <2>2. outputBuffers' = outputBuffers \/ outputBuffers' = [outputBuffers EXCEPT ![t.r] = left]
    BY DEF OutputTask
  <2> HIDE DEF left
  <2>3. QED
    BY <1>1, <2>1, <2>2 DEF TypeOK
<1>3. finishResult' \in [Requests -> {"NoFinish", "FinishError", "FinishSuccess"}]
  BY <1>1 DEF OutputTask, TypeOK
<1>4. Step(t, "end") \/ Step(t, "erase")
  BY DEF OutputTask
<1>5. QED
  BY <1>1, <1>2, <1>3, <1>4, StepFacts

\* The task of an input: the frame is given back if the record still has it.
LEMMA InputFacts ==
  ASSUME TypeOK, NEW t \in tasks, InputTask(t)
  PROVE  /\ t.r \in Requests
         /\ tasks' \subseteq Task /\ \A u \in tasks' : u \in tasks \/ u.r = t.r
         /\ \/ inputBuffers' = inputBuffers /\ released' = released
            \/ \E f \in Frames :
                 /\ f \in inputBuffers[t.r]
                 /\ inputBuffers' = [inputBuffers EXCEPT ![t.r] = inputBuffers[t.r] \ {f}]
                 /\ released' = [released EXCEPT ![<<t.r, f>>] = released[<<t.r, f>>] + 1]
         /\ inputBuffers' \in [Requests -> SUBSET Frames] /\ released' \in [Requests \X Frames -> Nat]
<1>1. t.r \in Requests
  BY DEF TypeOK, Task
<1>2. Step(t, "end") \/ Step(t, "erase")
  BY DEF InputTask
<1>3. CASE t.item \in inputBuffers[t.r]
  <2>1. t.item \in Frames
    BY <1>1, <1>3 DEF TypeOK
  <2>2. /\ inputBuffers' = [inputBuffers EXCEPT ![t.r] = inputBuffers[t.r] \ {t.item}]
        /\ released' = [released EXCEPT ![<<t.r, t.item>>] = released[<<t.r, t.item>>] + 1]
    BY <1>3 DEF InputTask
  <2>3. inputBuffers' \in [Requests -> SUBSET Frames]
    BY <1>1, <2>2 DEF TypeOK
  <2>4. released' \in [Requests \X Frames -> Nat]
    <3>1. <<t.r, t.item>> \in Requests \X Frames
      BY <1>1, <2>1
    <3>2. QED
      BY <2>2, <3>1, CountUp DEF TypeOK
  <2>5. QED
    BY <1>1, <1>2, <1>3, <2>1, <2>2, <2>3, <2>4, StepFacts
<1>4. CASE t.item \notin inputBuffers[t.r]
  <2>1. inputBuffers' = inputBuffers /\ released' = released
    BY <1>4 DEF InputTask
  <2>2. QED
    BY <1>1, <1>2, <2>1, StepFacts DEF TypeOK
<1>5. QED
  BY <1>3, <1>4

\* The HAL sends a frame, which waits or comes back at once.
LEMMA SendFacts ==
  ASSUME TypeOK, NEW r \in Requests, NEW f \in Frames, processInputRequest(r, f)
  PROVE  /\ f \notin sent[r] /\ sent' = [sent EXCEPT ![r] = sent[r] \cup {f}]
         /\ \/ /\ released' = [released EXCEPT ![<<r, f>>] = released[<<r, f>>] + 1]
               /\ queue' = queue
            \/ queue' = Append(queue, <<r, f>>) /\ released' = released
         /\ released' \in [Requests \X Frames -> Nat] /\ queue' \in Seq(Requests \X Frames)
         /\ sent' \in [Requests -> SUBSET Frames]
<1>1. <<r, f>> \in Requests \X Frames
  OBVIOUS
<1>2. [released EXCEPT ![<<r, f>>] = released[<<r, f>>] + 1] \in [Requests \X Frames -> Nat]
  BY <1>1, CountUp DEF TypeOK
<1>3. released' \in [Requests \X Frames -> Nat] /\ queue' \in Seq(Requests \X Frames)
  <2>1. CASE mFlushed
    BY <1>2, <2>1 DEF processInputRequest, processErrorRequest, TypeOK
  <2>2. CASE ~mFlushed
    <3>1. queue' = Append(queue, <<r, f>>) /\ released' = released
      BY <2>2 DEF processInputRequest
    <3>2. QED
      BY <1>1, <3>1 DEF TypeOK
  <2>3. QED
    BY <2>1, <2>2
<1>4. sent' \in [Requests -> SUBSET Frames]
  BY DEF processInputRequest, TypeOK
<1>5. QED
  BY <1>3, <1>4 DEF processInputRequest, processErrorRequest

\* The application asks, and is answered at once if its record is gone.
LEMMA AskFacts ==
  ASSUME TypeOK, NEW r \in Requests, processOutputRequest(r)
  PROVE  /\ r \notin asked /\ asked' = asked \cup {r} /\ mRequestMutex = None
         /\ \/ /\ answers' = [answers EXCEPT ![r] = answers[r] + 1]
               /\ mRequestMutex' = mRequestMutex
            \/ r \in mOutputRequests /\ mRequestMutex' = <<"output", r>> /\ answers' = answers
         /\ answers' \in [Requests -> Nat] /\ mRequestMutex' \in Holder \cup {None}
<1>1. [answers EXCEPT ![r] = answers[r] + 1] \in [Requests -> Nat]
  BY CountUp DEF TypeOK
<1>2. answers' \in [Requests -> Nat]
  BY <1>1 DEF processOutputRequest, TypeOK
<1>3. <<"output", r>> \in Holder
  BY DEF Holder
<1>4. QED
  BY <1>2, <1>3 DEF processOutputRequest, RequestMutexFree, TypeOK

----------------------------------------------------------------------------
(* Types. *)


\* Every step keeps the types.
LEMMA TypeStep == TypeOK /\ UseInv /\ [Next]_vars => TypeOK'
<1> SUFFICES ASSUME TypeOK, UseInv, [Next]_vars
             PROVE  TypeOK'
  OBVIOUS
<1> USE PostProcessorAssumption DEF TypeOK, recordVars, workerVars, flushVars, engineVars, callVars
<1>1. ASSUME TakeInput
      PROVE  TypeOK'
  <2>1. PICK r \in Requests, f \in Frames :
          /\ Head(queue) = <<r, f>>
          /\ \/ /\ r \in mOutputRequests /\ wpc' = "lock" /\ wr' = r /\ wf' = f
                /\ released' = released
             \/ /\ released' = [released EXCEPT ![<<r, f>>] = released[<<r, f>>] + 1]
                /\ wpc' = wpc /\ wr' = wr /\ wf' = wf
          /\ released' \in [Requests \X Frames -> Nat]
    BY <1>1, TakeFacts
  <2>2. queue' \in Seq(Requests \X Frames)
    BY <1>1 DEF TakeInput
  <2>3. QED
    BY <1>1, <2>1, <2>2 DEF TakeInput
<1>2. ASSUME NoteInput
      PROVE  TypeOK'
  BY <1>2 DEF NoteInput, UseInv
<1>3. ASSUME Process
      PROVE  TypeOK'
  BY <1>3, ProcessFacts DEF Process
<1>4. ASSUME RefusedFrame
      PROVE  TypeOK'
  <2>1. wr \in Requests /\ wf \in Frames /\ processMialgoResult(wr, "Input", wf)
    BY <1>4 DEF RefusedFrame, UseInv
  <2>2. tasks' \subseteq Task
    BY <2>1, ResultFacts
  <2>3. QED
    BY <1>4, <2>2 DEF RefusedFrame, WorkerDone
<1>5. ASSUME FlushNotify
      PROVE  TypeOK'
  BY <1>5 DEF FlushNotify, Port
<1>6. ASSUME EngineFlushed
      PROVE  TypeOK'
  BY <1>6 DEF EngineFlushed
<1>7. ASSUME ClearRecords
      PROVE  TypeOK'
  BY <1>7 DEF ClearRecords
<1>8. ASSUME flush
      PROVE  TypeOK'
  BY <1>8 DEF flush, Holder
<1>9. ASSUME NEW r \in Requests, OutputRequestSet(r)
      PROVE  TypeOK'
  BY <1>9 DEF OutputRequestSet, Port, Woken
<1>10. ASSUME NEW r \in Requests, ServiceDied(r)
      PROVE  TypeOK'
  BY <1>10 DEF ServiceDied, Port, Woken
<1>11. ASSUME NEW r \in Requests, setError(r)
      PROVE  TypeOK'
  BY <1>11 DEF setError, Port, Woken
<1>12. ASSUME NEW r \in Requests, destroyRecord(r)
      PROVE  TypeOK'
  <2>1. released' \in [Requests \X Frames -> Nat]
    BY <1>12 DEF destroyRecord
  <2>2. answers' \in [Requests -> Nat]
    BY <1>12 DEF destroyRecord
  <2>3. QED
    BY <1>12, <2>1, <2>2 DEF destroyRecord, Referenced
<1>13. ASSUME NEW r \in Requests, NEW f \in Frames, ReleaseInput(r, f)
      PROVE  TypeOK'
  BY <1>13, ResultFacts DEF ReleaseInput
<1>14. ASSUME NEW r \in Requests, NEW s \in Streams, getBufferLocked(r, s)
      PROVE  TypeOK'
  BY <1>14 DEF getBufferLocked, Port, Buffer
<1>15. ASSUME NEW r \in Requests, NEW s \in Streams, WaitEnds(r, s)
      PROVE  TypeOK'
  BY <1>15 DEF WaitEnds, Port, Buffer
<1>16. ASSUME NEW r \in Requests, NEW s \in Streams, ForgetRecord(r, s)
      PROVE  TypeOK'
  BY <1>16 DEF ForgetRecord, Port, Buffer
<1>17. ASSUME NEW r \in Requests, NEW s \in Streams, ReleaseOutput(r, s)
      PROVE  TypeOK'
  <2>1. tasks' \subseteq Task
    BY <1>17, ResultFacts DEF ReleaseOutput
  <2>2. QED
    BY <1>17, <2>1 DEF ReleaseOutput, Port
<1>18. ASSUME NEW r \in Requests, NEW s \in Streams, getBuffer(r, s)
      PROVE  TypeOK'
  BY <1>18 DEF getBuffer, Port, Buffer
<1>19. ASSUME NEW t \in tasks, OutputTask(t)
      PROVE  TypeOK'
  BY <1>19, OutputFacts DEF OutputTask
<1>20. ASSUME NEW t \in tasks, InputTask(t)
      PROVE  TypeOK'
  BY <1>20, InputFacts DEF InputTask
<1>21. ASSUME NEW t \in tasks, EraseRecord(t)
      PROVE  TypeOK'
  <2>1. tasks' \subseteq Task
    BY <1>21, StepFacts DEF EraseRecord
  <2>2. QED
    BY <1>21, <2>1 DEF EraseRecord
<1>22. ASSUME NEW r \in Requests, setInvitationInfo(r)
      PROVE  TypeOK'
  BY <1>22 DEF setInvitationInfo
<1>23. ASSUME NEW r \in Requests, processOutputRequest(r)
      PROVE  TypeOK'
  BY <1>23, AskFacts DEF processOutputRequest
<1>24. ASSUME NEW r \in Requests, removeMission(r)
      PROVE  TypeOK'
  BY <1>24 DEF removeMission
<1>25. ASSUME NEW r \in Requests, notifyBGServiceHasDied(r)
      PROVE  TypeOK'
  BY <1>25 DEF notifyBGServiceHasDied, Holder
<1>26. ASSUME NEW r \in Requests, quickFinishTask(r)
      PROVE  TypeOK'
  BY <1>26 DEF quickFinishTask
<1>27. ASSUME NEW r \in Requests, EngineFails(r)
      PROVE  TypeOK'
  <2>1. mRequestMutex' \in Holder \cup {None}
    BY <1>27 DEF EngineFails, Holder
  <2>2. engine' \in [Requests -> {"none", "run", "stop"}]
    BY <1>27 DEF EngineFails
  <2>3. QED
    BY <1>27, <2>1, <2>2 DEF EngineFails
<1>28. ASSUME NEW r \in Requests, NEW f \in Frames, processInputRequest(r, f)
      PROVE  TypeOK'
  BY <1>28, SendFacts DEF processInputRequest
<1>29. CASE UNCHANGED vars
  BY <1>29 DEF vars
<1> HIDE DEF TypeOK
<1>30. QED
  BY <1>1, <1>2, <1>3, <1>4, <1>5, <1>6, <1>7, <1>8, <1>9, <1>10, <1>11, <1>12, <1>13,
     <1>14, <1>15, <1>16, <1>17, <1>18, <1>19, <1>20, <1>21, <1>22, <1>23, <1>24, <1>25,
     <1>26, <1>27, <1>28, <1>29
     DEF Next, System, Worker, Locked, GetBuffer, PoolTask, Flushing

----------------------------------------------------------------------------
(* Records and locks. *)

\* What flush holds is not the empty lock.
LEMMA FlushHolder == <<"flush", None>> # None
BY PostProcessorAssumption DEF Holder

\* Nor is what processOutputRequest holds.
LEMMA OutputHolder == \A r \in Requests : <<"output", r>> # None
BY PostProcessorAssumption DEF Holder


\* Whoever uses a record keeps it alive.
LEMMA UseStep == TypeOK /\ UseInv /\ [Next]_vars => UseInv'
<1> SUFFICES ASSUME TypeOK, UseInv, [Next]_vars
             PROVE  UseInv'
  OBVIOUS
<1> USE PostProcessorAssumption DEF UseInv, recordVars, workerVars, flushVars, engineVars, callVars
<1> USE FlushHolder
<1>1. ASSUME TakeInput
      PROVE  UseInv'
  <2>1. PICK r \in Requests, f \in Frames :
          \/ r \in mOutputRequests /\ wpc' = "lock" /\ wr' = r /\ wf' = f
          \/ wpc' = wpc /\ wr' = wr /\ wf' = wf
    BY <1>1, TakeFacts
  <2>2. QED
    BY <1>1, <2>1 DEF TakeInput, TypeOK
<1>2. ASSUME NoteInput
      PROVE  UseInv'
  BY <1>2 DEF NoteInput
<1>3. ASSUME Process
      PROVE  UseInv'
  BY <1>3, ProcessFacts DEF Process
<1>4. ASSUME RefusedFrame
      PROVE  UseInv'
  <2>1. wr \in Requests /\ wf \in Frames /\ processMialgoResult(wr, "Input", wf)
    BY <1>4 DEF RefusedFrame
  <2>2. \A t \in tasks' : t \in tasks \/ record[t.r] = "live"
    BY <2>1, ResultFacts DEF TypeOK
  <2>3. QED
    BY <1>4, <2>2 DEF RefusedFrame, WorkerDone
<1>5. ASSUME FlushNotify
      PROVE  UseInv'
  BY <1>5 DEF FlushNotify
<1>6. ASSUME EngineFlushed
      PROVE  UseInv'
  BY <1>6 DEF EngineFlushed
<1>7. ASSUME ClearRecords
      PROVE  UseInv'
  BY <1>7 DEF ClearRecords
<1>8. ASSUME flush
      PROVE  UseInv'
  BY <1>8 DEF flush, RequestMutexFree
<1>9. ASSUME NEW r \in Requests, OutputRequestSet(r)
      PROVE  UseInv'
  BY <1>9 DEF OutputRequestSet, RequestMutexFree
<1>10. ASSUME NEW r \in Requests, ServiceDied(r)
      PROVE  UseInv'
  BY <1>10 DEF ServiceDied, RequestMutexFree
<1>11. ASSUME NEW r \in Requests, setError(r)
      PROVE  UseInv'
  BY <1>11 DEF setError, RequestMutexFree
<1>12. ASSUME NEW r \in Requests, destroyRecord(r)
      PROVE  UseInv'
  BY <1>12 DEF destroyRecord, Referenced, TypeOK, Task
<1>13. ASSUME NEW r \in Requests, NEW f \in Frames, ReleaseInput(r, f)
      PROVE  UseInv'
  <2>1. \A t \in tasks' : t \in tasks \/ record[t.r] = "live"
    BY <1>13, ResultFacts DEF ReleaseInput, TypeOK
  <2>2. QED
    BY <1>13, <2>1 DEF ReleaseInput
<1>14. ASSUME NEW r \in Requests, NEW s \in Streams, getBufferLocked(r, s)
      PROVE  UseInv'
  BY <1>14 DEF getBufferLocked
<1>15. ASSUME NEW r \in Requests, NEW s \in Streams, WaitEnds(r, s)
      PROVE  UseInv'
  BY <1>15 DEF WaitEnds
<1>16. ASSUME NEW r \in Requests, NEW s \in Streams, ForgetRecord(r, s)
      PROVE  UseInv'
  BY <1>16 DEF ForgetRecord
<1>17. ASSUME NEW r \in Requests, NEW s \in Streams, ReleaseOutput(r, s)
      PROVE  UseInv'
  <2>1. \A t \in tasks' : t \in tasks \/ record[t.r] = "live"
    BY <1>17, ResultFacts DEF ReleaseOutput, TypeOK
  <2>2. QED
    BY <1>17, <2>1 DEF ReleaseOutput
<1>18. ASSUME NEW r \in Requests, NEW s \in Streams, getBuffer(r, s)
      PROVE  UseInv'
  BY <1>18 DEF getBuffer
<1>19. ASSUME NEW t \in tasks, OutputTask(t)
      PROVE  UseInv'
  <2>1. \A u \in tasks' : record[u.r] = "live"
    BY <1>19, OutputFacts
  <2>2. QED
    BY <1>19, <2>1 DEF OutputTask
<1>20. ASSUME NEW t \in tasks, InputTask(t)
      PROVE  UseInv'
  <2>1. \A u \in tasks' : record[u.r] = "live"
    BY <1>20, InputFacts
  <2>2. QED
    BY <1>20, <2>1 DEF InputTask
<1>21. ASSUME NEW t \in tasks, EraseRecord(t)
      PROVE  UseInv'
  <2>1. \A u \in tasks' : record[u.r] = "live"
    BY <1>21, StepFacts DEF EraseRecord
  <2>2. QED
    BY <1>21, <2>1 DEF EraseRecord
<1>22. ASSUME NEW r \in Requests, setInvitationInfo(r)
      PROVE  UseInv'
  BY <1>22 DEF setInvitationInfo, TypeOK, Task
<1>23. ASSUME NEW r \in Requests, processOutputRequest(r)
      PROVE  UseInv'
  BY <1>23 DEF processOutputRequest, RequestMutexFree
<1>24. ASSUME NEW r \in Requests, removeMission(r)
      PROVE  UseInv'
  BY <1>24 DEF removeMission
<1>25. ASSUME NEW r \in Requests, notifyBGServiceHasDied(r)
      PROVE  UseInv'
  BY <1>25 DEF notifyBGServiceHasDied, RequestMutexFree
<1>26. ASSUME NEW r \in Requests, quickFinishTask(r)
      PROVE  UseInv'
  BY <1>26 DEF quickFinishTask
<1>27. ASSUME NEW r \in Requests, EngineFails(r)
      PROVE  UseInv'
  BY <1>27 DEF EngineFails, RequestMutexFree
<1>28. ASSUME NEW r \in Requests, NEW f \in Frames, processInputRequest(r, f)
      PROVE  UseInv'
  BY <1>28 DEF processInputRequest
<1>29. CASE UNCHANGED vars
  BY <1>29 DEF vars
<1> HIDE DEF UseInv
<1>30. QED
  BY <1>1, <1>2, <1>3, <1>4, <1>5, <1>6, <1>7, <1>8, <1>9, <1>10, <1>11, <1>12, <1>13,
     <1>14, <1>15, <1>16, <1>17, <1>18, <1>19, <1>20, <1>21, <1>22, <1>23, <1>24, <1>25,
     <1>26, <1>27, <1>28, <1>29
     DEF Next, System, Worker, Locked, GetBuffer, PoolTask, Flushing


----------------------------------------------------------------------------
(* Frames. *)

\* A frame is its request and its number.
LEMMA FrameEq ==
  \A p, q \in Requests \X Frames : p[1] = q[1] /\ p[2] = q[2] => p = q
OBVIOUS

\* A step that touches neither the frames nor the records.
LEMMA FramesUnchanged ==
  FramesInv /\ UNCHANGED <<queue, wpc, wr, wf, inputBuffers, sent, released, record>> => FramesInv'
BY DEF FramesInv, QueueInv, FrameInv, Waiting, Taken, Elems, Distinct


\* Every frame is at one place and comes back once.
LEMMA FramesStep == TypeOK /\ UseInv /\ FramesInv /\ [Next]_vars => FramesInv'
<1> SUFFICES ASSUME TypeOK, UseInv, FramesInv, [Next]_vars
             PROVE  FramesInv'
  OBVIOUS
<1> USE PostProcessorAssumption DEF recordVars, workerVars, flushVars, engineVars, callVars
<1>1. ASSUME TakeInput
      PROVE  FramesInv'
  <2>1. PICK r \in Requests, f \in Frames :
          /\ Head(queue) = <<r, f>>
          /\ \/ /\ r \in mOutputRequests /\ wpc' = "lock" /\ wr' = r /\ wf' = f
                /\ released' = released
             \/ /\ released' = [released EXCEPT ![<<r, f>>] = released[<<r, f>>] + 1]
                /\ wpc' = wpc /\ wr' = wr /\ wf' = wf
    BY <1>1, TakeFacts
  <2>2. queue \in Seq(Requests \X Frames) /\ queue # <<>> /\ queue' = Tail(queue)
    BY <1>1 DEF TakeInput, TypeOK
  <2>3. /\ Distinct(queue') /\ Elems(queue') = Elems(queue) \ {<<r, f>>} /\ <<r, f>> \in Elems(queue)
    BY <2>1, <2>2, TailDistinct DEF FramesInv, QueueInv
  <2>4. wpc = "idle" /\ UNCHANGED <<inputBuffers, sent, record>>
    BY <1>1 DEF TakeInput
  <2>5. QueueInv'
    BY <2>1, <2>3, <2>4 DEF FramesInv, QueueInv, Taken
  <2>6. ASSUME NEW p \in Requests \X Frames PROVE FrameInv(p)'
    <3>1. Waiting(p)' => Waiting(p)
      BY <2>1, <2>3, <2>4 DEF Waiting, Taken
    <3>2. CASE p # <<r, f>>
      BY <2>1, <2>4, <3>1, <3>2 DEF FramesInv, FrameInv, TypeOK
    <3>3. CASE p = <<r, f>>
      <4>1. Waiting(p) /\ FrameInv(p)
        BY <2>3, <3>3 DEF Waiting, FramesInv
      <4>2. CASE released' = released
        BY <2>4, <3>1, <4>1, <4>2 DEF FrameInv
      <4>3. CASE released' # released
        <5>1. /\ wpc' = "idle" /\ ~Waiting(p)'
              /\ released' = [released EXCEPT ![<<r, f>>] = released[<<r, f>>] + 1]
          BY <2>1, <2>3, <2>4, <3>3, <4>3 DEF Waiting, Taken
        <5>2. released'[p] = 1
          BY <3>3, <4>1, <5>1 DEF FrameInv, TypeOK
        <5>3. QED
          BY <2>4, <4>1, <5>1, <5>2 DEF FrameInv
      <4>4. QED
        BY <4>2, <4>3
    <3>4. QED
      BY <3>2, <3>3
  <2>7. QED
    BY <2>5, <2>6 DEF FramesInv
<1>2. ASSUME NoteInput
      PROVE  FramesInv'
  <2>1. PICK q \in Requests \X Frames : q = <<wr, wf>>
    BY <1>2 DEF NoteInput, UseInv
  <2>2. /\ q[1] \in Requests /\ wpc = "lock" /\ wpc' = "process" /\ record[q[1]] = "live"
        /\ inputBuffers' = [inputBuffers EXCEPT ![q[1]] = inputBuffers[q[1]] \cup {q[2]}]
        /\ UNCHANGED <<queue, wr, wf, sent, released, record>>
    BY <1>2, <2>1 DEF NoteInput, UseInv
  <2>3. QueueInv'
    BY <2>2 DEF FramesInv, QueueInv, Taken, Elems, Distinct
  <2>4. ASSUME NEW p \in Requests \X Frames PROVE FrameInv(p)'
    <3>1. Waiting(p)' <=> p \in Elems(queue)
      BY <2>2 DEF Waiting, Taken
    <3>2. CASE p = q
      <4>1. Waiting(p) /\ p \notin Elems(queue)
        BY <2>1, <2>2, <3>2 DEF Waiting, Taken, FramesInv, QueueInv
      <4>2. QED
        BY <2>2, <3>1, <3>2, <4>1 DEF FramesInv, FrameInv
    <3>3. CASE p # q
      <4>1. p[2] \in inputBuffers'[p[1]] <=> p[2] \in inputBuffers[p[1]]
        BY <2>2, <3>3, FrameEq DEF TypeOK
      <4>2. QED
        BY <2>2, <3>1, <4>1 DEF FramesInv, FrameInv, Waiting
    <3>4. QED
      BY <3>2, <3>3
  <2>5. QED
    BY <2>3, <2>4 DEF FramesInv
<1>3. ASSUME Process
      PROVE  FramesInv'
  <2>1. wpc # "lock" /\ wpc' # "lock" /\ UNCHANGED <<queue, inputBuffers, sent, released, record>>
    BY <1>3, ProcessFacts DEF Process
  <2>2. QED
    BY <2>1 DEF FramesInv, QueueInv, FrameInv, Waiting, Taken, Elems, Distinct
<1>4. ASSUME RefusedFrame
      PROVE  FramesInv'
  <2>1. wpc # "lock" /\ wpc' # "lock" /\ UNCHANGED <<queue, inputBuffers, sent, released, record>>
    BY <1>4 DEF RefusedFrame, WorkerDone
  <2>2. QED
    BY <2>1 DEF FramesInv, QueueInv, FrameInv, Waiting, Taken, Elems, Distinct
<1>5. ASSUME FlushNotify
      PROVE  FramesInv'
  BY <1>5, FramesUnchanged DEF FlushNotify
<1>6. ASSUME EngineFlushed
      PROVE  FramesInv'
  BY <1>6, FramesUnchanged DEF EngineFlushed
<1>7. ASSUME ClearRecords
      PROVE  FramesInv'
  BY <1>7, FramesUnchanged DEF ClearRecords
<1>8. ASSUME flush
      PROVE  FramesInv'
  BY <1>8, FramesUnchanged DEF flush
<1>9. ASSUME NEW r \in Requests, OutputRequestSet(r)
      PROVE  FramesInv'
  BY <1>9, FramesUnchanged DEF OutputRequestSet
<1>10. ASSUME NEW r \in Requests, ServiceDied(r)
      PROVE  FramesInv'
  BY <1>10, FramesUnchanged DEF ServiceDied
<1>11. ASSUME NEW r \in Requests, setError(r)
      PROVE  FramesInv'
  BY <1>11, FramesUnchanged DEF setError
<1>12. ASSUME NEW r \in Requests, destroyRecord(r)
      PROVE  FramesInv'
  <2>1. /\ UNCHANGED <<queue, wpc, wr, wf, inputBuffers, sent>>
        /\ record[r] = "live" /\ record' = [record EXCEPT ![r] = "gone"]
        /\ released' = [p \in Requests \X Frames |->
              IF p[1] = r /\ p[2] \in inputBuffers[r] THEN released[p] + 1 ELSE released[p]]
    BY <1>12 DEF destroyRecord
  <2>2. QueueInv'
    BY <2>1 DEF FramesInv, QueueInv, Taken, Elems, Distinct
  <2>3. ASSUME NEW p \in Requests \X Frames PROVE FrameInv(p)'
    <3>1. Waiting(p)' <=> Waiting(p)
      BY <2>1 DEF Waiting, Taken, Elems
    <3>2. QED
      BY <2>1, <3>1 DEF FramesInv, FrameInv, TypeOK
  <2>4. QED
    BY <2>2, <2>3 DEF FramesInv
<1>13. ASSUME NEW r \in Requests, NEW f \in Frames, ReleaseInput(r, f)
      PROVE  FramesInv'
  BY <1>13, FramesUnchanged DEF ReleaseInput
<1>14. ASSUME NEW r \in Requests, NEW s \in Streams, getBufferLocked(r, s)
      PROVE  FramesInv'
  BY <1>14, FramesUnchanged DEF getBufferLocked
<1>15. ASSUME NEW r \in Requests, NEW s \in Streams, WaitEnds(r, s)
      PROVE  FramesInv'
  BY <1>15, FramesUnchanged DEF WaitEnds
<1>16. ASSUME NEW r \in Requests, NEW s \in Streams, ForgetRecord(r, s)
      PROVE  FramesInv'
  BY <1>16, FramesUnchanged DEF ForgetRecord
<1>17. ASSUME NEW r \in Requests, NEW s \in Streams, ReleaseOutput(r, s)
      PROVE  FramesInv'
  BY <1>17, FramesUnchanged DEF ReleaseOutput
<1>18. ASSUME NEW r \in Requests, NEW s \in Streams, getBuffer(r, s)
      PROVE  FramesInv'
  BY <1>18, FramesUnchanged DEF getBuffer
<1>19. ASSUME NEW t \in tasks, OutputTask(t)
      PROVE  FramesInv'
  BY <1>19, FramesUnchanged DEF OutputTask
<1>20. ASSUME NEW t \in tasks, InputTask(t)
      PROVE  FramesInv'
  <2>1. UNCHANGED <<queue, wpc, wr, wf, sent, record>> /\ t.r \in Requests /\ record[t.r] = "live"
    BY <1>20, InputFacts DEF InputTask, UseInv
  <2>2. CASE inputBuffers' = inputBuffers /\ released' = released
    BY <2>1, <2>2, FramesUnchanged
  <2>3. CASE ~(inputBuffers' = inputBuffers /\ released' = released)
    <3>1. PICK q \in Requests \X Frames :
            /\ q[2] \in inputBuffers[q[1]] /\ record[q[1]] = "live"
            /\ inputBuffers' = [inputBuffers EXCEPT ![q[1]] = inputBuffers[q[1]] \ {q[2]}]
            /\ released' = [released EXCEPT ![q] = released[q] + 1]
      <4>1. PICK f \in Frames :
              /\ f \in inputBuffers[t.r]
              /\ inputBuffers' = [inputBuffers EXCEPT ![t.r] = inputBuffers[t.r] \ {f}]
              /\ released' = [released EXCEPT ![<<t.r, f>>] = released[<<t.r, f>>] + 1]
        BY <1>20, <2>3, InputFacts
      <4>2. <<t.r, f>> \in Requests \X Frames /\ <<t.r, f>>[1] = t.r /\ <<t.r, f>>[2] = f
        BY <2>1
      <4>3. QED
        BY <2>1, <4>1, <4>2
    <3>2. QueueInv'
      BY <2>1 DEF FramesInv, QueueInv, Taken, Elems, Distinct
    <3>3. ASSUME NEW p \in Requests \X Frames PROVE FrameInv(p)'
      <4>1. Waiting(p)' <=> Waiting(p)
        BY <2>1 DEF Waiting, Taken, Elems
      <4>2. CASE p = q
        <5>1. FrameInv(q) /\ released[q] = 0
          BY <3>1 DEF FramesInv, FrameInv
        <5>2. released'[q] = 1 /\ q[2] \notin inputBuffers'[q[1]]
          BY <3>1, <5>1 DEF TypeOK
        <5>3. QED
          BY <2>1, <3>1, <4>1, <4>2, <5>1, <5>2 DEF FrameInv
      <4>3. CASE p # q
        <5>1. /\ p[2] \in inputBuffers'[p[1]] <=> p[2] \in inputBuffers[p[1]]
              /\ released'[p] = released[p]
          BY <3>1, <4>3, FrameEq DEF TypeOK
        <5>2. QED
          BY <2>1, <4>1, <5>1 DEF FramesInv, FrameInv
      <4>4. QED
        BY <4>2, <4>3
    <3>4. QED
      BY <3>2, <3>3 DEF FramesInv
  <2>4. QED
    BY <2>2, <2>3
<1>21. ASSUME NEW t \in tasks, EraseRecord(t)
      PROVE  FramesInv'
  BY <1>21, FramesUnchanged DEF EraseRecord
<1>22. ASSUME NEW r \in Requests, setInvitationInfo(r)
      PROVE  FramesInv'
  <2>1. /\ UNCHANGED <<queue, wpc, wr, wf, inputBuffers, sent, released>>
        /\ \A q \in Requests : record'[q] = "gone" <=> record[q] = "gone"
    BY <1>22 DEF setInvitationInfo, TypeOK
  <2>2. QED
    BY <2>1 DEF FramesInv, QueueInv, FrameInv, Waiting, Taken, Elems, Distinct
<1>23. ASSUME NEW r \in Requests, processOutputRequest(r)
      PROVE  FramesInv'
  BY <1>23, FramesUnchanged DEF processOutputRequest
<1>24. ASSUME NEW r \in Requests, removeMission(r)
      PROVE  FramesInv'
  BY <1>24, FramesUnchanged DEF removeMission
<1>25. ASSUME NEW r \in Requests, notifyBGServiceHasDied(r)
      PROVE  FramesInv'
  BY <1>25, FramesUnchanged DEF notifyBGServiceHasDied
<1>26. ASSUME NEW r \in Requests, quickFinishTask(r)
      PROVE  FramesInv'
  BY <1>26, FramesUnchanged DEF quickFinishTask
<1>27. ASSUME NEW r \in Requests, EngineFails(r)
      PROVE  FramesInv'
  BY <1>27, FramesUnchanged DEF EngineFails
<1>28. ASSUME NEW r \in Requests, NEW f \in Frames, processInputRequest(r, f)
      PROVE  FramesInv'
  <2>1. PICK q \in Requests \X Frames :
          /\ q[2] \notin sent[q[1]] /\ sent' = [sent EXCEPT ![q[1]] = sent[q[1]] \cup {q[2]}]
          /\ \/ released' = [released EXCEPT ![q] = released[q] + 1] /\ queue' = queue
             \/ queue' = Append(queue, q) /\ released' = released
    <3>1. <<r, f>> \in Requests \X Frames /\ <<r, f>>[1] = r /\ <<r, f>>[2] = f
      OBVIOUS
    <3>2. QED
      BY <1>28, <3>1, SendFacts
  <2>2. UNCHANGED <<wpc, wr, wf, inputBuffers, record>> /\ FrameInv(q)
    BY <1>28, <2>1 DEF processInputRequest, FramesInv
  <2>3. q \notin Elems(queue) /\ ~Taken(q) /\ released[q] = 0 /\ q[2] \notin inputBuffers[q[1]]
    BY <2>1, <2>2 DEF FrameInv, Waiting
  <2>4. /\ Distinct(queue') /\ Elems(queue') \subseteq Elems(queue) \cup {q}
        /\ queue' = queue \/ released' = released
    <3>1. CASE queue' = queue
      BY <3>1 DEF FramesInv, QueueInv, Distinct, Elems
    <3>2. CASE queue' # queue
      <4>1. queue' = Append(queue, q) /\ released' = released
        BY <2>1, <3>2
      <4>2. QED
        BY <2>3, <4>1, AppendDistinct DEF FramesInv, QueueInv, TypeOK
    <3>3. QED
      BY <3>1, <3>2
  <2>5. QueueInv'
    BY <2>2, <2>3, <2>4 DEF FramesInv, QueueInv, Taken
  <2>6. ASSUME NEW p \in Requests \X Frames PROVE FrameInv(p)'
    <3>1. CASE p = q
      <4>1. ~Waiting(p)' \/ released' = released
        BY <2>2, <2>3, <2>4, <3>1 DEF Waiting, Taken, Elems
      <4>2. released'[p] \in {0, 1} /\ (released' = released => released'[p] = 0)
        BY <2>1, <2>3, <3>1 DEF TypeOK
      <4>3. p[2] \in sent'[p[1]]
        BY <2>1, <3>1 DEF TypeOK
      <4>4. QED
        BY <2>2, <2>3, <3>1, <4>1, <4>2, <4>3 DEF FrameInv
    <3>2. CASE p # q
      <4>1. Waiting(p)' => Waiting(p)
        BY <2>2, <2>4, <3>2 DEF Waiting, Taken
      <4>2. released'[p] = released[p] /\ (p[2] \in sent'[p[1]] <=> p[2] \in sent[p[1]])
        BY <2>1, <3>2, FrameEq DEF TypeOK
      <4>3. QED
        BY <2>2, <4>1, <4>2 DEF FramesInv, FrameInv
    <3>3. QED
      BY <3>1, <3>2
  <2>7. QED
    BY <2>5, <2>6 DEF FramesInv
<1>29. CASE UNCHANGED vars
  BY <1>29, FramesUnchanged DEF vars
<1>30. QED
  BY <1>1, <1>2, <1>3, <1>4, <1>5, <1>6, <1>7, <1>8, <1>9, <1>10, <1>11, <1>12, <1>13,
     <1>14, <1>15, <1>16, <1>17, <1>18, <1>19, <1>20, <1>21, <1>22, <1>23, <1>24, <1>25,
     <1>26, <1>27, <1>28, <1>29
     DEF Next, System, Worker, Locked, GetBuffer, PoolTask, Flushing


----------------------------------------------------------------------------
(* Answers. *)

\* A step that touches neither the answers nor the records, and leaves
\* processOutputRequest alone.
LEMMA AnswersUnchanged ==
  ASSUME AnswersInv, UNCHANGED <<asked, answers, cameraRequest, record>>,
         \A r \in Requests : mRequestMutex' = <<"output", r>> <=> mRequestMutex = <<"output", r>>,
         \A r \in Requests : mRequestMutex = <<"output", r>> /\ r \in mOutputRequests => r \in mOutputRequests'
  PROVE  AnswersInv'
BY DEF AnswersInv, AnswerInv


\* Every request of the application has one who owes it an answer.
LEMMA AnswersStep == TypeOK /\ UseInv /\ AnswersInv /\ [Next]_vars => AnswersInv'
<1> SUFFICES ASSUME TypeOK, UseInv, AnswersInv, [Next]_vars
             PROVE  AnswersInv'
  OBVIOUS
<1> USE PostProcessorAssumption DEF recordVars, workerVars, flushVars, engineVars, callVars
<1>1. ASSUME TakeInput
      PROVE  AnswersInv'
  BY <1>1, AnswersUnchanged, OutputHolder DEF TakeInput
<1>2. ASSUME NoteInput
      PROVE  AnswersInv'
  BY <1>2, AnswersUnchanged, OutputHolder DEF NoteInput
<1>3. ASSUME Process
      PROVE  AnswersInv'
  BY <1>3, AnswersUnchanged, OutputHolder DEF Process
<1>4. ASSUME RefusedFrame
      PROVE  AnswersInv'
  BY <1>4, AnswersUnchanged, OutputHolder DEF RefusedFrame, RequestMutexFree, UseInv
<1>5. ASSUME FlushNotify
      PROVE  AnswersInv'
  BY <1>5, AnswersUnchanged, OutputHolder DEF FlushNotify, RequestMutexFree, UseInv
<1>6. ASSUME EngineFlushed
      PROVE  AnswersInv'
  BY <1>6, AnswersUnchanged, OutputHolder DEF EngineFlushed
<1>7. ASSUME ClearRecords
      PROVE  AnswersInv'
  BY <1>7, AnswersUnchanged, OutputHolder DEF ClearRecords, RequestMutexFree, UseInv
<1>8. ASSUME flush
      PROVE  AnswersInv'
  BY <1>8, AnswersUnchanged, OutputHolder DEF flush, RequestMutexFree, UseInv
<1>9. ASSUME NEW r \in Requests, OutputRequestSet(r)
      PROVE  AnswersInv'
  <2>1. /\ mRequestMutex = <<"output", r>> /\ mRequestMutex' = None
        /\ cameraRequest' = [cameraRequest EXCEPT ![r] = TRUE]
        /\ UNCHANGED <<asked, answers, record, mOutputRequests>>
    BY <1>9 DEF OutputRequestSet
  <2>2. r \in asked /\ answers[r] = 0 /\ record[r] = "live"
    BY <2>1 DEF AnswersInv, AnswerInv, TypeOK
  <2>3. ASSUME NEW q \in Requests PROVE AnswerInv(q)'
    <3>1. CASE q = r
      BY <2>1, <2>2, <3>1, OutputHolder DEF AnswerInv, TypeOK
    <3>2. CASE q # r
      BY <2>1, <3>2, OutputHolder DEF AnswersInv, AnswerInv, TypeOK
    <3>3. QED
      BY <3>1, <3>2
  <2>4. QED
    BY <2>3 DEF AnswersInv
<1>10. ASSUME NEW r \in Requests, ServiceDied(r)
      PROVE  AnswersInv'
  BY <1>10, AnswersUnchanged, OutputHolder DEF ServiceDied, RequestMutexFree, UseInv
<1>11. ASSUME NEW r \in Requests, setError(r)
      PROVE  AnswersInv'
  BY <1>11, AnswersUnchanged, OutputHolder DEF setError, RequestMutexFree, UseInv
<1>12. ASSUME NEW r \in Requests, destroyRecord(r)
      PROVE  AnswersInv'
  <2>1. /\ record[r] = "live" /\ record' = [record EXCEPT ![r] = "gone"] /\ r \notin mOutputRequests
        /\ answers' = [answers EXCEPT ![r] = IF cameraRequest[r] THEN answers[r] + 1 ELSE answers[r]]
        /\ UNCHANGED <<asked, cameraRequest, mOutputRequests, mRequestMutex>>
    BY <1>12 DEF destroyRecord, Referenced
  <2>2. ASSUME NEW q \in Requests PROVE AnswerInv(q)'
    <3>1. CASE q = r
      <4>1. /\ record'[r] = "gone" /\ mRequestMutex # <<"output", r>>
            /\ answers'[r] = IF cameraRequest[r] THEN answers[r] + 1 ELSE answers[r]
        BY <2>1 DEF AnswersInv, AnswerInv, TypeOK
      <4>2. CASE cameraRequest[r]
        BY <2>1, <3>1, <4>1, <4>2 DEF AnswersInv, AnswerInv
      <4>3. CASE ~cameraRequest[r]
        BY <2>1, <3>1, <4>1, <4>3 DEF AnswersInv, AnswerInv
      <4>4. QED
        BY <4>2, <4>3
    <3>2. CASE q # r
      BY <2>1, <3>2 DEF AnswersInv, AnswerInv, TypeOK
    <3>3. QED
      BY <3>1, <3>2
  <2>3. QED
    BY <2>2 DEF AnswersInv
<1>13. ASSUME NEW r \in Requests, NEW f \in Frames, ReleaseInput(r, f)
      PROVE  AnswersInv'
  BY <1>13, AnswersUnchanged, OutputHolder DEF ReleaseInput
<1>14. ASSUME NEW r \in Requests, NEW s \in Streams, getBufferLocked(r, s)
      PROVE  AnswersInv'
  BY <1>14, AnswersUnchanged, OutputHolder DEF getBufferLocked
<1>15. ASSUME NEW r \in Requests, NEW s \in Streams, WaitEnds(r, s)
      PROVE  AnswersInv'
  BY <1>15, AnswersUnchanged, OutputHolder DEF WaitEnds
<1>16. ASSUME NEW r \in Requests, NEW s \in Streams, ForgetRecord(r, s)
      PROVE  AnswersInv'
  BY <1>16, AnswersUnchanged, OutputHolder DEF ForgetRecord, RequestMutexFree, UseInv
<1>17. ASSUME NEW r \in Requests, NEW s \in Streams, ReleaseOutput(r, s)
      PROVE  AnswersInv'
  BY <1>17, AnswersUnchanged, OutputHolder DEF ReleaseOutput
<1>18. ASSUME NEW r \in Requests, NEW s \in Streams, getBuffer(r, s)
      PROVE  AnswersInv'
  BY <1>18, AnswersUnchanged, OutputHolder DEF getBuffer
<1>19. ASSUME NEW t \in tasks, OutputTask(t)
      PROVE  AnswersInv'
  BY <1>19, AnswersUnchanged, OutputHolder DEF OutputTask
<1>20. ASSUME NEW t \in tasks, InputTask(t)
      PROVE  AnswersInv'
  BY <1>20, AnswersUnchanged, OutputHolder DEF InputTask
<1>21. ASSUME NEW t \in tasks, EraseRecord(t)
      PROVE  AnswersInv'
  BY <1>21, AnswersUnchanged, OutputHolder DEF EraseRecord, RequestMutexFree, UseInv
<1>22. ASSUME NEW r \in Requests, setInvitationInfo(r)
      PROVE  AnswersInv'
  <2>1. /\ UNCHANGED <<asked, answers, cameraRequest, mRequestMutex>>
        /\ mOutputRequests \subseteq mOutputRequests'
        /\ \A q \in Requests : record'[q] = "gone" <=> record[q] = "gone"
    BY <1>22 DEF setInvitationInfo, TypeOK
  <2>2. QED
    BY <2>1 DEF AnswersInv, AnswerInv
<1>23. ASSUME NEW r \in Requests, processOutputRequest(r)
      PROVE  AnswersInv'
  <2>1. /\ r \notin asked /\ asked' = asked \cup {r} /\ mRequestMutex = None
        /\ \/ /\ answers' = [answers EXCEPT ![r] = answers[r] + 1]
              /\ mRequestMutex' = mRequestMutex
           \/ r \in mOutputRequests /\ mRequestMutex' = <<"output", r>> /\ answers' = answers
    BY <1>23, AskFacts
  <2>2. UNCHANGED <<cameraRequest, record, mOutputRequests>> /\ answers[r] = 0 /\ ~cameraRequest[r]
    BY <1>23, <2>1 DEF processOutputRequest, AnswersInv, AnswerInv
  <2>3. ASSUME NEW q \in Requests PROVE AnswerInv(q)'
    <3>1. CASE q = r
      BY <2>1, <2>2, <3>1, OutputHolder DEF AnswerInv, TypeOK
    <3>2. CASE q # r
      <4>1. answers'[q] = answers[q] /\ mRequestMutex' # <<"output", q>> /\ mRequestMutex # <<"output", q>>
        BY <2>1, <3>2, OutputHolder DEF TypeOK
      <4>2. QED
        BY <2>1, <2>2, <3>2, <4>1 DEF AnswersInv, AnswerInv
    <3>3. QED
      BY <3>1, <3>2
  <2>4. QED
    BY <2>3 DEF AnswersInv
<1>24. ASSUME NEW r \in Requests, removeMission(r)
      PROVE  AnswersInv'
  BY <1>24, AnswersUnchanged, OutputHolder DEF removeMission, RequestMutexFree, UseInv
<1>25. ASSUME NEW r \in Requests, notifyBGServiceHasDied(r)
      PROVE  AnswersInv'
  BY <1>25, AnswersUnchanged, OutputHolder DEF notifyBGServiceHasDied, RequestMutexFree, UseInv
<1>26. ASSUME NEW r \in Requests, quickFinishTask(r)
      PROVE  AnswersInv'
  BY <1>26, AnswersUnchanged, OutputHolder DEF quickFinishTask
<1>27. ASSUME NEW r \in Requests, EngineFails(r)
      PROVE  AnswersInv'
  BY <1>27, AnswersUnchanged, OutputHolder DEF EngineFails, RequestMutexFree, UseInv
<1>28. ASSUME NEW r \in Requests, NEW f \in Frames, processInputRequest(r, f)
      PROVE  AnswersInv'
  BY <1>28, AnswersUnchanged, OutputHolder DEF processInputRequest
<1>29. CASE UNCHANGED vars
  BY <1>29, AnswersUnchanged DEF vars
<1>30. QED
  BY <1>1, <1>2, <1>3, <1>4, <1>5, <1>6, <1>7, <1>8, <1>9, <1>10, <1>11, <1>12, <1>13,
     <1>14, <1>15, <1>16, <1>17, <1>18, <1>19, <1>20, <1>21, <1>22, <1>23, <1>24, <1>25,
     <1>26, <1>27, <1>28, <1>29
     DEF Next, System, Worker, Locked, GetBuffer, PoolTask, Flushing


----------------------------------------------------------------------------
(* The theorems. *)

\* The four parts, together, hold always.
LEMMA Invariant == Spec => []IInv
<1>1. Init => IInv
  <2> SUFFICES ASSUME Init PROVE IInv
    OBVIOUS
  <2> USE PostProcessorAssumption DEF Init
  <2>1. TypeOK
    <3>1. queue \in Seq(Requests \X Frames) /\ tasks \subseteq Task
      OBVIOUS
    <3>2. {mFlushFlag, mFlushed} \subseteq BOOLEAN /\ {cameraRequest, setInfo, errorState} \subseteq [Requests -> BOOLEAN]
      OBVIOUS
    <3>3. released \in [Requests \X Frames -> Nat] /\ answers \in [Requests -> Nat]
      OBVIOUS
    <3>4. get \in [Port -> {"none", "found", "wait", "awake", "ok", "null", "failed", "done"}]
      OBVIOUS
    <3>5. QED
      BY <3>1, <3>2, <3>3, <3>4 DEF TypeOK
  <2>2. UseInv
    BY DEF UseInv
  <2>3. FramesInv
    BY DEF FramesInv, QueueInv, FrameInv, Waiting, Taken, Elems, Distinct
  <2>4. AnswersInv
    BY OutputHolder DEF AnswersInv, AnswerInv
  <2>5. QED
    BY <2>1, <2>2, <2>3, <2>4 DEF IInv
<1>2. IInv /\ [Next]_vars => IInv'
  BY TypeStep, UseStep, FramesStep, AnswersStep DEF IInv
<1>3. QED
  BY <1>1, <1>2, PTL DEF Spec

\* The types hold, and in particular a record that mOutputRequests knows is
\* never destroyed: every reader of the map finds live records in it.
THEOREM TypeCorrect == Spec => []TypeOK
<1>1. IInv => TypeOK
  BY DEF IInv
<1>2. QED
  BY <1>1, Invariant, PTL

\* However callbacks, cancellation, time-outs, the death of the service and
\* flush interleave, processErrorRequest, the input task and ~RequestRecord
\* give an input buffer back at most once between them, the application is
\* answered at most once, and a destroyed record owes neither.
THEOREM EachSettledOnce == Spec => []RecordSettled
<1>1. IInv => RecordSettled
  <2> SUFFICES ASSUME IInv, NEW r \in Requests
               PROVE  /\ \A f \in Frames :
                            /\ released[<<r, f>>] <= 1
                            /\ (record[r] = "gone" /\ f \in inputBuffers[r]) => released[<<r, f>>] = 1
                      /\ answers[r] <= 1
                      /\ (record[r] = "gone" /\ r \in asked) => answers[r] = 1
    BY DEF RecordSettled
  <2>1. ASSUME NEW f \in Frames
        PROVE  /\ released[<<r, f>>] <= 1
               /\ (record[r] = "gone" /\ f \in inputBuffers[r]) => released[<<r, f>>] = 1
    <3>1. FrameInv(<<r, f>>)
      BY DEF IInv, FramesInv
    <3>2. QED
      BY <3>1 DEF FrameInv
  <2>2. /\ answers[r] <= 1
        /\ (record[r] = "gone" /\ r \in asked) => answers[r] = 1
    <3>1. AnswerInv(r) /\ (r \in mOutputRequests => record[r] = "live")
      BY DEF IInv, AnswersInv, TypeOK
    <3>2. QED
      BY <3>1 DEF AnswerInv
  <2>3. QED
    BY <2>1, <2>2
<1>2. QED
  BY <1>1, Invariant, PTL
=============================================================================
