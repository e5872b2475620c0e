---------------------------- MODULE BufferQueue ----------------------------
(***************************************************************************)
(* The internal images of a session: MiaOfflineSession keeps one           *)
(* BufferQueueWrapper per format.  A node takes its output images from it  *)
(* (acquireOutputBuffer), hands them to the nodes behind it, which count   *)
(* as further users, and the last user gives them back (releaseBuffer).    *)
(* Meanwhile memoryMonitor, called by the timer and by postProcess, frees  *)
(* images that are not in use.  Three locks are involved, and none of them *)
(* excludes the others: mAcquireBufferMutex (held while a user sleeps in   *)
(* waitAndPop), mBufferQueueLock and mBufferReclaimMutex.                  *)
(***************************************************************************)
EXTENDS Integers, FiniteSets, Sequences

CONSTANTS Formats,    \* image formats (width, height and pixel format)
          Users,      \* node tasks, numbered along the graph: u feeds v > u
          Monitors,   \* threads that call memoryMonitor
          InitDepth,  \* mInitBufferQueueDepth
          MaxDepth,   \* MAX_BUFFER_QUEUE_DEPTH
          Threshold,  \* mThresholdValue
          MaxHeld     \* images a task holds while it acquires another, at most

MINIMUM_BUFFER_QUEUE_DEPTH == 1

ASSUME BufferAssumption ==
    /\ Formats # {} /\ Users \subseteq Nat /\ IsFiniteSet(Users)
    /\ InitDepth \in Nat \ {0} /\ MaxDepth \in Nat /\ InitDepth <= MaxDepth
    /\ Threshold \in Nat /\ MaxHeld \in Nat

VARIABLES mBufferQueueWrapperSet,  \* formats that have a queue
          mBufferQueue,            \* free images of each format
          mNumBuffers,             \* what the buffer manager counts
          mUseCount,               \* use count of each image
          held,                    \* images each user works on
          chained,                 \* do users hold images while they acquire?
          pc, want,                \* users inside acquireOutputBuffer
          mpc, todo, mfmt          \* memoryMonitor of each monitor
vars == <<mBufferQueueWrapperSet, mBufferQueue, mNumBuffers, mUseCount, held,
          chained, pc, want, mpc, todo, mfmt>>
userVars == <<pc, want>>
monitorVars == <<mpc, todo, mfmt>>

\* One index more than the code admits, so that an overrun would be seen.
Image == Formats \X (1..MaxDepth + 1)
Free(f) == {mBufferQueue[f][i] : i \in 1..Len(mBufferQueue[f])}
Held == UNION {held[u] : u \in Users}
HeldOf(f) == {i \in Held : i[1] = f}
HoldersOf(i) == {u \in Users : i \in held[u]}
\* Images the monitors have taken out and not yet subtracted from mNumBuffers.
Dying(f) == {m \in Monitors : mpc[m] = "free" /\ mfmt[m] = f}

Init ==
    /\ mBufferQueueWrapperSet = {}
    /\ mBufferQueue = [f \in Formats |-> <<>>]
    /\ mNumBuffers = [f \in Formats |-> 0]
    /\ mUseCount = [i \in Image |-> 0]
    /\ held = [u \in Users |-> {}]
    /\ chained \in BOOLEAN
    /\ pc = [u \in Users |-> "run"] /\ want = [u \in Users |-> CHOOSE f \in Formats : TRUE]
    /\ mpc = [m \in Monitors |-> "idle"] /\ todo = [m \in Monitors |-> {}]
    /\ mfmt = [m \in Monitors |-> CHOOSE f \in Formats : TRUE]

----------------------------------------------------------------------------
(* acquireOutputBuffer, for an internal image. *)

mAcquireBufferMutexFree == \A u \in Users : pc[u] = "run"

\* A node acquires its output images one by one: it holds its inputs and the
\* outputs it already has.  Only a node fed by the camera holds none.
MayAcquire(u) ==
    /\ pc[u] = "run"
    /\ Cardinality(held[u]) < IF chained THEN MaxHeld ELSE 1
    /\ mAcquireBufferMutexFree

acquireOutputBuffer(u, f) ==
    /\ MayAcquire(u) /\ f \in mBufferQueueWrapperSet
    /\ pc' = [pc EXCEPT ![u] = "dequeue"] /\ want' = [want EXCEPT ![u] = f]
    /\ UNCHANGED <<mBufferQueueWrapperSet, mBufferQueue, mNumBuffers, mUseCount, held, chained>>
    /\ UNCHANGED monitorVars

\* The first use of a format creates its queue with n images, fewer than
\* asked for when memory runs short.  (With none at all the caller gets NULL
\* and nothing changes.)
createWrapper(u, f) ==
    /\ MayAcquire(u) /\ f \notin mBufferQueueWrapperSet
    /\ mBufferQueueWrapperSet' = mBufferQueueWrapperSet \cup {f}
    /\ \E n \in 1..InitDepth :
          /\ mBufferQueue' = [mBufferQueue EXCEPT ![f] = [i \in 1..n |-> <<f, i>>]]
          /\ mNumBuffers' = [mNumBuffers EXCEPT ![f] = n]
    /\ pc' = [pc EXCEPT ![u] = "dequeue"] /\ want' = [want EXCEPT ![u] = f]
    /\ UNCHANGED <<mUseCount, held, chained>> /\ UNCHANGED monitorVars

\* dequeueBuffer: the test ...
dequeueBuffer(u) ==
    /\ pc[u] = "dequeue"
    /\ pc' = [pc EXCEPT ![u] = IF mBufferQueue[want[u]] = <<>> THEN "grow" ELSE "pop"]
    /\ UNCHANGED <<mBufferQueueWrapperSet, mBufferQueue, mNumBuffers, mUseCount, held, chained,
                   want>>
    /\ UNCHANGED monitorVars

NewImage(f) ==
    <<f, CHOOSE i \in 1..MaxDepth + 1 : /\ <<f, i>> \notin Free(f) \cup HeldOf(f)
                                        /\ \A j \in 1..i - 1 : <<f, j>> \in Free(f) \cup HeldOf(f)>>

AtMaximum_beyond(f) == mNumBuffers[f] > MaxDepth     \* Mutated form
AtMaximum(f) == mNumBuffers[f] >= MaxDepth

\* ... then one more image, unless the maximum is reached or memory is short:
\* dequeueBuffer ignores the result ...
increaseImageQueue(u) ==
    LET f == want[u] IN
    /\ pc[u] = "grow"
    /\ \/ UNCHANGED <<mBufferQueue, mNumBuffers>>
       \/ /\ ~AtMaximum(f)
          /\ mBufferQueue' = [mBufferQueue EXCEPT ![f] = Append(@, NewImage(f))]
          /\ mNumBuffers' = [mNumBuffers EXCEPT ![f] = @ + 1]
    /\ pc' = [pc EXCEPT ![u] = "pop"]
    /\ UNCHANGED <<mBufferQueueWrapperSet, mUseCount, held, chained, want>>
    /\ UNCHANGED monitorVars

\* ... then waitAndPop, which sleeps while the queue is empty.
waitAndPop(u) ==
    LET f == want[u] IN
    /\ pc[u] = "pop" /\ mBufferQueue[f] # <<>>
    /\ mBufferQueue' = [mBufferQueue EXCEPT ![f] = Tail(@)]
    /\ mUseCount' = [mUseCount EXCEPT ![Head(mBufferQueue[f])] = @ + 1]
    /\ held' = [held EXCEPT ![u] = @ \cup {Head(mBufferQueue[f])}]
    /\ pc' = [pc EXCEPT ![u] = "run"]
    /\ UNCHANGED <<mBufferQueueWrapperSet, mNumBuffers, chained, want>>
    /\ UNCHANGED monitorVars

----------------------------------------------------------------------------
(* Use and release. *)

\* The pipeline passes an output image on as the input of another node.
Share(u, v, i) ==
    /\ pc[u] = "run" /\ pc[v] = "run" /\ u < v
    /\ i \in held[u] \ held[v]
    /\ mUseCount' = [mUseCount EXCEPT ![i] = @ + 1]
    /\ held' = [held EXCEPT ![v] = @ \cup {i}]
    /\ UNCHANGED <<mBufferQueueWrapperSet, mBufferQueue, mNumBuffers, chained>>
    /\ UNCHANGED userVars /\ UNCHANGED monitorVars

\* releaseBuffer and enqueueBuffer, under mBufferQueueLock.
releaseBuffer_every(u, i) ==           \* Mutated form: pushes at every release
    /\ pc[u] = "run" /\ i \in held[u]
    /\ held' = [held EXCEPT ![u] = @ \ {i}]
    /\ mUseCount' = [mUseCount EXCEPT ![i] = @ - 1]
    /\ mBufferQueue' = [mBufferQueue EXCEPT ![i[1]] = Append(@, i)]
    /\ UNCHANGED <<mBufferQueueWrapperSet, mNumBuffers, chained>>
    /\ UNCHANGED userVars /\ UNCHANGED monitorVars
releaseBuffer(u, i) ==
    /\ pc[u] = "run" /\ i \in held[u]
    /\ held' = [held EXCEPT ![u] = @ \ {i}]
    /\ mUseCount' = [mUseCount EXCEPT ![i] = @ - 1]
    /\ mBufferQueue' = IF mUseCount[i] = 1
                       THEN [mBufferQueue EXCEPT ![i[1]] = Append(@, i)]
                       ELSE mBufferQueue
    /\ UNCHANGED <<mBufferQueueWrapperSet, mNumBuffers, chained>>
    /\ UNCHANGED userVars /\ UNCHANGED monitorVars

----------------------------------------------------------------------------
(* memoryMonitor: clearOutThresholdBuffer for every queue. *)

memoryMonitor_unlocked(m) ==           \* Mutated form: without mBufferReclaimMutex
    /\ mpc[m] = "idle"
    /\ mpc' = [mpc EXCEPT ![m] = "next"] /\ todo' = [todo EXCEPT ![m] = mBufferQueueWrapperSet]
    /\ UNCHANGED <<mBufferQueueWrapperSet, mBufferQueue, mNumBuffers, mUseCount, held, chained, mfmt>>
    /\ UNCHANGED userVars
memoryMonitor(m) ==
    /\ \A n \in Monitors : mpc[n] = "idle"      \* mBufferReclaimMutex
    /\ mpc' = [mpc EXCEPT ![m] = "next"] /\ todo' = [todo EXCEPT ![m] = mBufferQueueWrapperSet]
    /\ UNCHANGED <<mBufferQueueWrapperSet, mBufferQueue, mNumBuffers, mUseCount, held, chained, mfmt>>
    /\ UNCHANGED userVars

clearOutThresholdBuffer(m) ==
    /\ mpc[m] = "next"
    /\ \/ /\ todo[m] = {} /\ mpc' = [mpc EXCEPT ![m] = "idle"]
          /\ UNCHANGED <<todo, mfmt>>
       \/ \E f \in todo[m] :
             /\ todo' = [todo EXCEPT ![m] = @ \ {f}]
             /\ mfmt' = [mfmt EXCEPT ![m] = f]
             /\ mpc' = [mpc EXCEPT ![m] = IF mNumBuffers[f] > Threshold THEN "size" ELSE "next"]
    /\ UNCHANGED <<mBufferQueueWrapperSet, mBufferQueue, mNumBuffers, mUseCount, held, chained>>
    /\ UNCHANGED userVars

\* queueSize() and tryPop() lock the queue separately.
TooManyFree_any(f) == Len(mBufferQueue[f]) >= MINIMUM_BUFFER_QUEUE_DEPTH    \* Mutated form
TooManyFree(f) == Len(mBufferQueue[f]) > MINIMUM_BUFFER_QUEUE_DEPTH

TestQueueSize(m) ==
    /\ mpc[m] = "size"
    /\ mpc' = [mpc EXCEPT ![m] = IF TooManyFree(mfmt[m]) THEN "pop" ELSE "next"]
    /\ UNCHANGED <<mBufferQueueWrapperSet, mBufferQueue, mNumBuffers, mUseCount, held, chained,
                   todo, mfmt>>
    /\ UNCHANGED userVars

tryPop(m) ==
    LET f == mfmt[m] IN
    /\ mpc[m] = "pop"
    /\ \/ /\ mBufferQueue[f] = <<>>
          /\ mpc' = [mpc EXCEPT ![m] = "size"] /\ UNCHANGED mBufferQueue
       \/ /\ mBufferQueue[f] # <<>>
          /\ mpc' = [mpc EXCEPT ![m] = "free"]
          /\ mBufferQueue' = [mBufferQueue EXCEPT ![f] = Tail(@)]
    /\ UNCHANGED <<mBufferQueueWrapperSet, mNumBuffers, mUseCount, held, chained, todo, mfmt>>
    /\ UNCHANGED userVars

\* The destructor of the image returns its memory and then counts it.
releaseImageBuffer(m) ==
    /\ mpc[m] = "free"
    /\ mNumBuffers' = [mNumBuffers EXCEPT ![mfmt[m]] = @ - 1]
    /\ mpc' = [mpc EXCEPT ![m] = "size"]
    /\ UNCHANGED <<mBufferQueueWrapperSet, mBufferQueue, mUseCount, held, chained, todo, mfmt>>
    /\ UNCHANGED userVars

----------------------------------------------------------------------------
Acquiring(u) == dequeueBuffer(u) \/ increaseImageQueue(u) \/ waitAndPop(u)
Releasing(u) == \E i \in held[u] : releaseBuffer(u, i)
Monitoring(m) ==
    clearOutThresholdBuffer(m) \/ TestQueueSize(m) \/ tryPop(m) \/ releaseImageBuffer(m)

Next ==
    \/ \E u \in Users :
          \/ \E f \in Formats : acquireOutputBuffer(u, f) \/ createWrapper(u, f)
          \/ Acquiring(u) \/ Releasing(u)
          \/ \E v \in Users : \E i \in held[u] : Share(u, v, i)
    \/ \E m \in Monitors : memoryMonitor(m) \/ Monitoring(m)

Spec == Init /\ [][Next]_vars

\* A task that can run runs, and a plugin gives back the images it was given.
\* Nobody has to acquire, to share or to start a round of the monitor.
FairSpec ==
    /\ Spec
    /\ \A u \in Users : WF_vars(Acquiring(u)) /\ WF_vars(Releasing(u))
    /\ \A m \in Monitors : WF_vars(Monitoring(m))

----------------------------------------------------------------------------
\* Types; no queue grows past MAX_BUFFER_QUEUE_DEPTH.
TypeOK ==
    /\ mBufferQueueWrapperSet \subseteq Formats
    /\ mBufferQueue \in [Formats -> Seq(Image)]
    /\ \A f \in Formats : Free(f) \subseteq {f} \X (1..MaxDepth)
    /\ mNumBuffers \in [Formats -> 0..MaxDepth]
    /\ mUseCount \in [Image -> 0..Cardinality(Users)]
    /\ held \in [Users -> SUBSET Image]
    /\ chained \in BOOLEAN
    /\ pc \in [Users -> {"run", "dequeue", "grow", "pop"}] /\ want \in [Users -> Formats]
    /\ mpc \in [Monitors -> {"idle", "next", "size", "pop", "free"}]
    /\ todo \in [Monitors -> SUBSET Formats] /\ mfmt \in [Monitors -> Formats]

\* No image is lost, handed out twice or freed while somebody uses it: an
\* image is either in its queue, once and with use count 0, or has exactly as
\* many users as its use count says; and mNumBuffers counts them all.
BuffersConserved ==
    \A f \in Formats :
        /\ Cardinality(Free(f)) = Len(mBufferQueue[f])
        /\ Free(f) \cap HeldOf(f) = {}
        /\ \A i \in Free(f) \cup HeldOf(f) : mUseCount[i] = Cardinality(HoldersOf(i))
        /\ mNumBuffers[f] = Cardinality(Free(f)) + Cardinality(HeldOf(f)) + Cardinality(Dying(f))

\* Although the monitor's test and its tryPop are separate and users pop in
\* between, it never takes the only image of a format: a user that the stale
\* isEmpty of dequeueBuffer sent to sleep waits for an image that exists.
AnImageRemains ==
    \A f \in mBufferQueueWrapperSet : Free(f) \cup HeldOf(f) # {}

\* As long as users hold nothing while they acquire, every acquisition
\* returns: the sleep of dequeueBuffer under mAcquireBufferMutex ends, also
\* at the maximum depth, without memory and with the monitor at work.
AcquireReturns ==
    ~chained => \A u \in Users : pc[u] # "run" ~> pc[u] = "run"
=============================================================================
