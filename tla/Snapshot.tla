------------------------------ MODULE Snapshot ------------------------------
(***************************************************************************)
(* How the HAL stops and restarts the application's snapshots               *)
(* (hal/mihal): MialgoTaskMonitor counts the tasks of every engine session,*)
(* CameraMode watches its buffers, both report to AppSnapshotController,   *)
(* whose worker mutes and activates the application.  Two timers guard     *)
(* against being muted for ever.  All timer callbacks run on one thread.   *)
(*                                                                         *)
(* Locks: mRecordMutex and mStatusMutex are leaves, held within one step.  *)
(* mCheckMialgoStatusLock and the mutex of a Timer are explicit, as the    *)
(* callback of a timer takes the former under the latter.                  *)
(***************************************************************************)
EXTENDS Integers, FiniteSets, Sequences, SequencesExt

CONSTANTS Tasks,           \* one of a Photographer each
          Sessions,        \* signatures of engine sessions
          SessionOf,       \* the session of a task
          FrameNum,        \* its framework frame number: other HAL sessions use it too
          Consumption,     \* of a task; 0 if the settings do not name its Photographer
          Category,        \* image category of a session (its "output..." suffix) ...
          NoCategory,      \* ... or that it has none
          MaxCallers,      \* bound: threads that report tasks at a time
          Modes,           \* CameraMode objects
          Capacity,        \* mMialgoSessionCapacity
          MockCameraNum    \* MOCKCAMERANUM

ASSUME SnapshotAssumption ==
    /\ SessionOf \in [Tasks -> Sessions] /\ Consumption \in [Tasks -> Nat]
    /\ Capacity \in Nat \ {0} /\ MockCameraNum \in Nat \ {0}
    /\ MaxCallers \in Nat \ {0} /\ "monitor" \notin Modes

VARIABLES mMialgoTaskStatus,         \* session -> consumption; 0 if it has no entry
          known,                     \* the sessions with an entry
          mMialgoTaskFrame,          \* the numbers that are counted, with their session
          sent, over, early,         \* history: tasks sent; those that ended then, or before
          mImageCategories, mTooManyImageCategories,
          statusLock,                \* is mCheckMialgoStatusLock held between two steps?
          callers,                   \* callers that still have to arm or cancel the timer
          mpc, mIsRetired,           \* camera modes
          mRecord, wpc, mAppStatus,
          mCommands, tempCommands,   \* the last command in each, or none
          armed, posted,             \* timers that wait; whose callback is queued
          io                         \* the timer thread: idle, or in a callback
vars == <<mMialgoTaskStatus, known, mMialgoTaskFrame, sent, over, early, mImageCategories,
          mTooManyImageCategories, statusLock, callers, mpc, mIsRetired, mRecord, mCommands,
          tempCommands, wpc, mAppStatus, armed, posted, io>>
historyVars == <<sent, over, early>>
countVars == <<mMialgoTaskStatus, known, mMialgoTaskFrame, sent, over, early>>
categoryVars == <<mImageCategories, mTooManyImageCategories>>
modeVars == <<mpc, mIsRetired>>
workerVars == <<tempCommands, wpc, mAppStatus>>
timerVars == <<armed, posted, io>>

Timers == {"app", "wake"}         \* mTimer and mForceWakeUpTimer
Objects == Modes \cup {"monitor"}

Init ==
    /\ mMialgoTaskStatus = [s \in Sessions |-> 0] /\ known = {}
    /\ mMialgoTaskFrame = {} /\ sent = {} /\ over = {} /\ early = {}
    /\ mImageCategories = <<>> /\ mTooManyImageCategories = TRUE
    /\ statusLock = FALSE /\ callers = [op \in {"arm", "cancel"} |-> 0]
    /\ mpc = [m \in Modes |-> "idle"] /\ mIsRetired = [m \in Modes |-> FALSE]
    /\ mRecord = [o \in Objects |-> TRUE]
    /\ mCommands = "none" /\ tempCommands = "none" /\ wpc = "wait" /\ mAppStatus = "ACTIVATED"
    /\ armed = {} /\ posted = {} /\ io = "idle"

----------------------------------------------------------------------------
(* AppSnapshotController. *)

\* onRecordUpdate and onRecordDelete end in onRecordChangedLocked.  An object
\* without an entry is as good as one with TRUE.
Command(rec) == IF \A o \in Objects : rec[o] THEN "CONTINUE" ELSE "MUTE"
onRecordUpdate(can, o) ==
    LET rec == [mRecord EXCEPT ![o] = can] IN
    /\ mRecord' = rec
    /\ mCommands' = Command(rec)

\* processCommandLoop: take the commands.  Merging them gives the last one,
\* whatever the status was: no other is kept here.
TakeCommands ==
    /\ wpc = "wait" /\ mCommands # "none"
    /\ tempCommands' = mCommands /\ mCommands' = "none" /\ wpc' = "merge"
    /\ UNCHANGED <<statusLock, callers, mRecord, mAppStatus>>
    /\ UNCHANGED countVars /\ UNCHANGED categoryVars /\ UNCHANGED modeVars /\ UNCHANGED timerVars

\* Under mStatusMutex: tell the application if its status changes ...
MergeCommands ==
    /\ wpc = "merge" /\ tempCommands' = "none"
    /\ mAppStatus' = IF tempCommands = "MUTE" THEN "MUTED" ELSE "ACTIVATED"
    /\ wpc' = IF mAppStatus' = mAppStatus THEN "wait"
              ELSE IF mAppStatus' = "MUTED" THEN "arm" ELSE "cancel"
    /\ UNCHANGED <<statusLock, callers, mRecord, mCommands>>
    /\ UNCHANGED countVars /\ UNCHANGED categoryVars /\ UNCHANGED modeVars /\ UNCHANGED timerVars

\* Timer: runAfter replaces a pending wait and cancel ends it; neither recalls
\* a callback that is already queued.  Both need Timer::mMutex, which a running
\* callback holds.
SetTimer(t, arm) ==
    /\ io # t
    /\ armed' = IF arm THEN armed \cup {t} ELSE armed \ {t}
    /\ UNCHANGED <<posted, io>>

\* ... and, without mStatusMutex, start or stop the timer.
SetAppTimer ==
    /\ wpc \in {"arm", "cancel"} /\ wpc' = "wait"
    /\ SetTimer("app", wpc = "arm")
    /\ UNCHANGED <<statusLock, callers, mRecord, mCommands, tempCommands, mAppStatus>>
    /\ UNCHANGED countVars /\ UNCHANGED categoryVars /\ UNCHANGED modeVars

----------------------------------------------------------------------------
(* CameraMode: onMihalBufferChanged tests mIsRetired, then reports. *)

onMihalBufferChanged(m) ==
    /\ mpc[m] = "idle" /\ ~mIsRetired[m]
    /\ mpc' = [mpc EXCEPT ![m] = "report"]
    /\ UNCHANGED <<statusLock, callers, mIsRetired, mRecord, mCommands>>
    /\ UNCHANGED countVars /\ UNCHANGED categoryVars /\ UNCHANGED workerVars /\ UNCHANGED timerVars

ReportBuffers(m) ==
    /\ mpc[m] = "report"
    /\ mpc' = [mpc EXCEPT ![m] = "idle"]
    /\ \E can \in BOOLEAN : onRecordUpdate(can, m)
    /\ UNCHANGED <<statusLock, callers, mIsRetired>>
    /\ UNCHANGED countVars /\ UNCHANGED categoryVars /\ UNCHANGED workerVars /\ UNCHANGED timerVars

\* setRetired: onRecordDelete.
setRetired_silent(m) ==                   \* Mutated form: the record goes without a command
    /\ ~mIsRetired[m]
    /\ mIsRetired' = [mIsRetired EXCEPT ![m] = TRUE]
    /\ mRecord' = [mRecord EXCEPT ![m] = TRUE]
    /\ UNCHANGED <<statusLock, callers, mpc, mCommands>>
    /\ UNCHANGED countVars /\ UNCHANGED categoryVars /\ UNCHANGED workerVars /\ UNCHANGED timerVars
setRetired(m) ==
    /\ ~mIsRetired[m]
    /\ mIsRetired' = [mIsRetired EXCEPT ![m] = TRUE]
    /\ onRecordUpdate(TRUE, m)
    /\ UNCHANGED <<statusLock, callers, mpc>>
    /\ UNCHANGED countVars /\ UNCHANGED categoryVars /\ UNCHANGED workerVars /\ UNCHANGED timerVars

----------------------------------------------------------------------------
(* MialgoTaskMonitor. *)

canMialgoHandleNextSnapshot(status) == \A s \in Sessions : status[s] < Capacity

\* checkImageCategoryCount, for a session that had no entry: mSignatureSet is
\* the set of the elements of mImageCategories.
KnownCategory(s) == Contains(mImageCategories, Category[s])
NoCamera(s) ==             \* too many categories, and s is of one of the first
    /\ KnownCategory(s) /\ Len(mImageCategories) > MockCameraNum
    /\ \E i \in 1 .. MockCameraNum : mImageCategories[i] = Category[s]
checkImageCategoryCount(s) ==
    /\ mImageCategories' = IF KnownCategory(s) \/ Category[s] = NoCategory THEN mImageCategories
                           ELSE Append(mImageCategories, Category[s])
    /\ mTooManyImageCategories' =
          CASE NoCamera(s) -> TRUE
            [] KnownCategory(s) /\ Len(mImageCategories) <= MockCameraNum -> FALSE
            [] OTHER -> mTooManyImageCategories

\* Photographer::goToDarkroom sends its task once, with its last frame; the
\* callback it leaves with PostProcessor reports the end once, and a flush
\* may do so before the last frame.
ReportTask(f, to) ==
    /\ IF to THEN f \notin sent ELSE f \notin over \cup early
    /\ sent' = IF to THEN sent \cup {f} ELSE sent
    /\ over' = IF ~to /\ f \in sent THEN over \cup {f} ELSE over
    /\ early' = IF ~to /\ f \notin sent THEN early \cup {f} ELSE early

\* The count of the task's session when the task is sent (to) or over.
TaskCount(f, to) ==
    LET n == mMialgoTaskStatus[SessionOf[f]]
    IN  IF to THEN n + Consumption[f] ELSE IF n < Consumption[f] THEN 0 ELSE n - Consumption[f]

\* A number is counted for its session.
Key_any(f) == <<FrameNum[f]>>             \* Mutated form: one set for all sessions
Key(f) == <<SessionOf[f], FrameNum[f]>>
\* Does the report change the count?  A send does if it costs something, an end
\* if its number is counted.
Counted(f, to) == (to /\ Consumption[f] # 0) \/ Key(f) \in mMialgoTaskFrame

\* The session's first task looks at its image category.
FirstTask(f) == SessionOf[f] \notin known /\ Consumption[f] > 0

\* All of it happens under mCheckMialgoStatusLock, but for the timer.
CountTask(f, to) ==
    LET s == SessionOf[f]
        status == [mMialgoTaskStatus EXCEPT ![s] = TaskCount(f, to)]
        can == canMialgoHandleNextSnapshot(status)
    IN
    /\ Counted(f, to) /\ ReportTask(f, to)
    /\ mMialgoTaskStatus' = status /\ known' = known \cup {s}
    /\ mMialgoTaskFrame' = IF to /\ Consumption[f] # 0 THEN mMialgoTaskFrame \cup {Key(f)}
                           ELSE mMialgoTaskFrame \ {Key(f)}
    /\ IF FirstTask(f) THEN checkImageCategoryCount(s) ELSE UNCHANGED categoryVars
    /\ CASE ~mTooManyImageCategories' -> onRecordUpdate(can, "monitor")
         [] FirstTask(f) /\ NoCamera(s) -> onRecordUpdate(FALSE, "monitor")
         [] OTHER -> UNCHANGED <<mRecord, mCommands>>
    /\ callers' = [callers EXCEPT ![IF mTooManyImageCategories' \/ can THEN "cancel" ELSE "arm"] = @ + 1]

onMialgoTaskNumChanged_locked(f, to) ==   \* Mutated form: the timer is set under the lock
    /\ ~statusLock /\ statusLock' = TRUE /\ CountTask(f, to)
    /\ UNCHANGED modeVars /\ UNCHANGED workerVars /\ UNCHANGED timerVars
onMialgoTaskNumChanged(f, to) ==
    /\ ~statusLock /\ UNCHANGED statusLock
    /\ callers["arm"] + callers["cancel"] < MaxCallers
    /\ CountTask(f, to)
    /\ UNCHANGED modeVars /\ UNCHANGED workerVars /\ UNCHANGED timerVars

\* The early return: a task that costs nothing, or the end of one whose number is
\* not counted (yet, or any more).
UncountedTask(f, to) ==
    LET s == SessionOf[f] IN
    /\ ~statusLock /\ ~Counted(f, to) /\ ReportTask(f, to)
    /\ known' = known \cup {s}
    /\ IF FirstTask(f) THEN checkImageCategoryCount(s) ELSE UNCHANGED categoryVars
    /\ IF FirstTask(f) /\ NoCamera(s) THEN onRecordUpdate(FALSE, "monitor")
       ELSE UNCHANGED <<mRecord, mCommands>>
    /\ UNCHANGED <<mMialgoTaskStatus, mMialgoTaskFrame, statusLock, callers>>
    /\ UNCHANGED modeVars /\ UNCHANGED workerVars /\ UNCHANGED timerVars

SetWakeTimer(op) ==
    /\ callers[op] > 0 /\ callers' = [callers EXCEPT ![op] = @ - 1]
    /\ SetTimer("wake", op = "arm")
    /\ statusLock' = FALSE
    /\ UNCHANGED <<mRecord, mCommands>>
    /\ UNCHANGED countVars /\ UNCHANGED categoryVars /\ UNCHANGED modeVars /\ UNCHANGED workerVars

\* deleteMialgoTaskSig, when a PostProcessor is destroyed, whether the session
\* has an entry or not: without the lock.  The numbers stay.
deleteMialgoTaskSig(s) ==
    LET status == [mMialgoTaskStatus EXCEPT ![s] = 0]
        left == SelectSeq(mImageCategories, LAMBDA x : x # Category[s])
        few == Category[s] # NoCategory /\ Len(left) <= MockCameraNum
    IN
    /\ mMialgoTaskStatus' = status /\ known' = known \ {s}
    /\ mImageCategories' = left
    /\ mTooManyImageCategories' = (mTooManyImageCategories /\ ~few)
    /\ IF few /\ canMialgoHandleNextSnapshot(status) THEN onRecordUpdate(TRUE, "monitor")
       ELSE UNCHANGED <<mRecord, mCommands>>
    /\ UNCHANGED <<mMialgoTaskFrame, statusLock, callers>> /\ UNCHANGED historyVars
    /\ UNCHANGED modeVars /\ UNCHANGED workerVars /\ UNCHANGED timerVars

----------------------------------------------------------------------------
(* The thread of TimerManager. *)

Expire(t) ==
    /\ io = "idle" /\ t \in armed
    /\ armed' = armed \ {t} /\ posted' = posted \cup {t}
    /\ UNCHANGED <<statusLock, callers, mRecord, mCommands, io>>
    /\ UNCHANGED countVars /\ UNCHANGED categoryVars /\ UNCHANGED modeVars /\ UNCHANGED workerVars

\* The callback locks the timer ...
CallbackStarts(t) ==
    /\ io = "idle" /\ t \in posted
    /\ io' = t /\ posted' = posted \ {t}
    /\ UNCHANGED <<statusLock, callers, mRecord, mCommands, armed>>
    /\ UNCHANGED countVars /\ UNCHANGED categoryVars /\ UNCHANGED modeVars /\ UNCHANGED workerVars

\* ... and runs the handler: activate the application,
ForceActivate ==
    /\ io = "app" /\ io' = "idle"
    /\ mAppStatus' = "ACTIVATED"
    /\ UNCHANGED <<statusLock, callers, mRecord, mCommands, tempCommands, wpc, armed, posted>>
    /\ UNCHANGED countVars /\ UNCHANGED categoryVars /\ UNCHANGED modeVars

\* or forget the tasks of full sessions.
mMialgoTimeOutHandler ==
    /\ io = "wake" /\ ~statusLock /\ io' = "idle"
    /\ mMialgoTaskStatus' =
          [s \in Sessions |-> IF mMialgoTaskStatus[s] >= Capacity THEN 0 ELSE mMialgoTaskStatus[s]]
    /\ onRecordUpdate(TRUE, "monitor")
    /\ UNCHANGED <<known, mMialgoTaskFrame, statusLock, callers, armed, posted>>
    /\ UNCHANGED historyVars
    /\ UNCHANGED categoryVars /\ UNCHANGED modeVars /\ UNCHANGED workerVars

----------------------------------------------------------------------------
TimerThread ==
    \/ \E t \in Timers : Expire(t) \/ CallbackStarts(t)
    \/ ForceActivate \/ mMialgoTimeOutHandler
Worker == TakeCommands \/ MergeCommands \/ SetAppTimer

Next ==
    \/ \E f \in Tasks, to \in BOOLEAN : onMialgoTaskNumChanged(f, to) \/ UncountedTask(f, to)
    \/ \E op \in {"arm", "cancel"} : SetWakeTimer(op)
    \/ \E s \in Sessions : deleteMialgoTaskSig(s)
    \/ \E m \in Modes : onMihalBufferChanged(m) \/ ReportBuffers(m) \/ setRetired(m)
    \/ Worker \/ TimerThread

Spec == Init /\ [][Next]_vars

\* The three kinds of threads run; nobody has to report, no task has to end.
\* The wake-up timer is armed only when a task changes, and tasks are finitely
\* many: it cannot keep the timers' thread from the other timer for ever.
FairSpec ==
    /\ Spec
    /\ WF_vars(Worker) /\ WF_vars(TimerThread)
    /\ WF_vars(\E op \in {"arm", "cancel"} : SetWakeTimer(op))

----------------------------------------------------------------------------
\* Does another task of the session have the same number?
Shared(f) == \E g \in Tasks \ {f} : SessionOf[g] = SessionOf[f] /\ FrameNum[g] = FrameNum[f]

\* The units of consumption of the tasks of session s that were sent and are
\* not over.  The end of a task is lost on the monitor if it comes before the
\* task is sent, and may be taken for another's if they share a number.
Unfinished(s) == {f \in sent : SessionOf[f] = s /\ (f \notin over \/ Shared(f))}
Outstanding(s) == UNION {{f} \X (1 .. Consumption[f]) : f \in Unfinished(s)}

\* A session never counts less than nothing or more than its tasks that are
\* not over, whatever the time-out, the deletion of the session and late
\* results have reset: a finished task keeps the application from taking
\* pictures only if its end overtook it or its number is not its own.
CountsOutstanding ==
    \A s \in Sessions : mMialgoTaskStatus[s] \in 0 .. Cardinality(Outstanding(s))

\* When the worker has caught up, a muted application is muted for a reason,
\* and a timer or its callback is there to activate it.
MutedForAReason ==
    (wpc = "wait" /\ mCommands = "none" /\ mAppStatus = "MUTED") =>
        /\ \E o \in Objects : ~mRecord[o]
        /\ "app" \in armed \cup posted \cup {io}

\* "Timer is used to reset app so that app won't be muted forever in abnormal
\* conditions" (AppSnapshotController.h), even if no task ever ends.
MutedEnds == mAppStatus = "MUTED" ~> mAppStatus = "ACTIVATED"
=============================================================================
