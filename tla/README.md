# Verification of the Xiaomi camera algorithm engine

TLA+ models, TLC runs and TLAPS proofs for the part of `vendor_xiaomi_proprietary` that
processes the images of a capture: the algorithm engine `src/mivifwk/mialgoengine` and its
driver in the camera HAL, `src/mivifwk/hal/mihal` (post-processing and snapshot control).

## 1. The repository and what was chosen

The repository collects Xiaomi's vendor code for one Android device family: about twenty
unrelated directories, of which `mivifwk` (the camera framework) holds most of the code.
It has no design documents. Inside `mivifwk` the plugins wrap closed algorithms, `hal/mihal`
and `mizone` adapt the two chip vendors' camera HALs, and `mialgoengine` (9,100 lines) is the
common core: it takes the images of a capture, runs them through a graph of algorithm nodes on
a thread pool, and returns result images. It is where threads, locks, condition variables,
partial failures and cancellation meet, and it is the core of the project. Of `mihal` the
project models the two parts that talk to the engine and to the application across threads.
The map covers a small share of the repository's 611,000 lines, most of which are firmware
tables, register definitions, headers, vendored libraries and per-device plugins.
`PROJECT.json` lists all components, the ones left out with the reason.

### Inventory of the modelled parts

| Part | State | Operations | Interacts with |
|---|---|---|---|
| `ThreadPool` | task queue, worker map, ids of workers that left, idle and active counters | `enqueue`, `addThread`, `loop`, destructor | runs pipeline tasks and node tasks alike |
| `ThreadSafeQueue` | queue, `mRelease` | `push`, `tryPop`, `waitAndPop`, `releaseQueue` | carries images between camera, nodes and children |
| `Pipeline` (one request) | pruned graph, `mDependenceNum`, `mRunSequence`, `mRunningNodeNum`, `mCurrentProcessNodes`, `mSinkNumToReturn`, `mFlushStatus`, image queues per port | `postProcTask`, `getInputImage`, `getOutputImage`, release functions, `notifyNextNode`, `quickFinish`, `enqueueSourceImage` | its task runs in the pool and waits for node tasks of the same pool |
| `MiaNode` (shared by requests) | `mRequestQueue`, `mPipeline`, `mHasProcessThread`, `mInPluginThreadNum` | `enqueueTask`, `processTask`, `processRequest`, `quickFinish` and its helper thread | calls back into the pipeline, counts its threads in the session |
| `MiaOfflineSession` | busy pipelines, node objects, pending frames per request name, buffer queues, results per timestamp | `postProcess`, `flush`, `quickFinish`, `moveToIdleQueue`, `acquireOutputBuffer`, `releaseBuffer`, `memoryMonitor` | entry point of the application |
| `MiaImage`, `MiaBufferManager` | use counts, buffers in flight | `increaseUseCount`, `decreaseUseCount`, allocation | owned by queues of pipelines and of the session |
| `PostProcessor` (`mihal/Reprocess.cpp`) | a record per snapshot: input buffers, output buffers, the application's request, error and finish state; `mFlushFlag`, `mFlushed` | `setInvitationInfo`, `processInputRequest`, `processOutputRequest`, `getBuffer`, `processMialgoResult`, `setError`, `quickFinishTask`, `removeMission`, `notifyBGServiceHasDied`, `flush` | feeds the engine from its own thread, is called back by node tasks, answers the application |
| `MialgoTaskMonitor`, `AppSnapshotController`, `Timer` (`mihal`) | consumption per session, image categories; record per reporting object, commands, application status; pending handlers | `onMialgoTaskNumChanged`, `deleteMialgoTaskSig`, `onRecordUpdate`, `onRecordDelete`, the command loop, timer callbacks | mute and activate the application; fed by captures, results and camera modes |
| pruner, JSON, plugin loader, utilities | configuration | | called at set-up or as pure functions |

What is hard here: tasks that end before they are counted; wake-ups sent outside the lock;
a request that fails in one node while others run; images delivered while the request ends;
cancellation in three strengths (expedite, forced flush, plugin interruption) that races with
every other step; a pool whose tasks wait for each other; thread objects, nodes and buffers
that must outlive their last user; images handed out, shared and reclaimed under different
locks; a snapshot record that five paths may end; callbacks under a caller's lock; timers whose
cancellation comes too late. `PROJECT.json` lists each at its line under `hazards`, with
the properties that watch it.

## 2. Modules

| Module | Models | Role |
|---|---|---|
| `TaskExecutor` | what the pool promises: first come first served, bounded, drains before it closes | abstract specification |
| `ThreadPool` | `ThreadPool.cpp` | detailed specification, implements `TaskExecutor` |
| `Pipeline` | `MiaPipeline.cpp`, what the node classes do for one request (`MiaNode.cpp:976-1433`), `ThreadSafeQueue.h` | one request: main thread, node tasks, camera, session |
| `RequestServer` | what a node promises to the pipelines that share it | abstract specification |
| `MiaNode` | queueing, dispatch and plugin interruption of `MiaNode.cpp` | one node shared by several requests, implements `RequestServer` |
| `BufferQueue` | internal images of a session: `BufferQueueWrapper`, `acquireOutputBuffer`, `releaseBuffer`, `memoryMonitor` | node tasks and two reclaiming threads |
| `Session` | `MiaOfflineSession`, `MiaPostProcIntf.cpp`, the calls of `PostProcessor` | several requests: feeding, cancelling, flush, destruction |
| `PostProcessor` | `mihal/Reprocess.cpp` | the HAL's side: records, locks, callbacks, flush |
| `Snapshot` | `AppSnapshotController.cpp`, `MialgoTaskMonitor.cpp`, `Timer.cpp`, two functions of `CameraMode.cpp` | muting and activating the application |
| `ThreadPoolProofs`, `PipelineProofs`, `MiaNodeProofs`, `BufferQueueProofs`, `SessionProofs`, `PostProcessorProofs`, `SnapshotProofs` | | TLAPS proofs about the module of that name |
| `DistinctSequences` | | sequences without repetition, and what appending, concatenation and taking the head do to them |
| `MC*` | | constants for TLC |

The modules look at the same code from several sides: `ThreadPool` sees tasks that
may submit and wait for tasks, `Pipeline` sees one request with ideal nodes, `MiaNode` sees one
node with several requests. A step of one is abstract in the others (a pipeline's
`postProcess` hands a node over and its task starts some time later, which is what
`MiaNode!RequestsServed` and `ThreadPool!AcceptedTasksComplete` establish for a node that is not
concurrent and a pool that is large enough). In the same way `Session` takes from `Pipeline`
that a request under a forced flush ends (`QuickFinishEnds`) and uses it as fairness, and `PostProcessor`
takes from `Session` that the engine's flush returns when nothing runs (`EngineFlushed`).

### ThreadPool

Variables carry the names of the fields. `pc[w]` is where worker `w` is in `loop`, `stage[t]`
where the call of `enqueue` for task `t` is, `dtor` where the destructor is. `mMutex` is held
between steps only in `enqueue`, which joins retired workers under it (`JoinRetired` waits for
the thread to end), so `MutexFree` guards every other critical section. Condition variables may
wake spuriously; `notify_one` wakes an arbitrary waiter and is a separate step, after the mutex
was released. `Subtasks[t]` are the tasks that `t` submits and waits for: a pipeline task with
the tasks of its nodes.

### Pipeline

`mpc` is the main thread in `postProcTask`; `pc[n]` the task of node `n`; `fpc` the session in
`quickFinish`. A graph is a set of links (pairs of ends) and a mask per node, with the bits that
change the control flow. Pruning (`rebuildLinks`) chooses a graph of `Graphs`. An image is its
merge number and whether it belongs to the camera; `live` counts the references the pipeline
holds, so that `ImagesReturned` can say that each was given back. `--mSinkNumToReturn`, which
the code does without a lock, is a read and a write. `CountAndWait` is one action because the
code tests the predicate of `mCond` under the lock under which it counts the task.
A node that the session lacks (`Missing`) never has a task, so nothing erases it from
`mCurrentProcessNodes`; a forced flush then calls through a null pointer, which is `FlushCrashes` in
place of `FlushNodes`. `OutBufferNum` is `countDynamicOutBufferNum`; it gives a `FollowInput` node no
output unless it has one input and one output link on ports of the same id (`OTHERPORT` is the flag
for different ids).
`releaseInputBuffers` pops queue after queue, in any order of the queues (`PopOrders`).
Abstractions: ports are identified with links; formats, exif data and dumps are left out;
`checkInputFormat` only fails under a debug property and is covered by failing plugins;
`pluginReleaseUnneedBuffer` and `VIRTUAL_SINKNODE` are not modelled; the order of ready nodes
is one fixed order, as `std::map` fixes one.

### MiaNode

`req[r]` is where pipeline `r` is with respect to the node, `pc[t]` the task that `r = t`
started, `cur[t]` the pipeline it serves. `quickFinish` holds `mQuickFinishMux` between its two
tests (`compare`), then detaches a helper (`flush`, `notify`). The wait predicate of
`processRequest`, which decrements the count that it waits for, is `LeavePlugin`. Priorities are a
fixed ranking because requests may arrive in any order. `quickFinish` compares pipelines by name, as
`strcmp` does (`SameName`), and names need not differ.

### BufferQueue

`mBufferQueue[f]` holds the free images of format `f`, `held[u]` those a node task works on, and
`mUseCount` is the code's count. A task inside `acquireOutputBuffer` has `pc[u] # "run"`, which is
also who holds `mAcquireBufferMutex`; `dequeueBuffer` is four steps because its test, the growth
and the pop lock the queue one by one. The monitors run `memoryMonitor` one at a time
(`mBufferReclaimMutex`), testing the size, popping, freeing and counting in separate steps.
`Share` is a pipeline passing an image on. `chained` (chosen in `Init`) says whether tasks hold
images while they acquire others: nodes fed by the camera do not, all others do, and
`AcquireReturns` is about the former.

### Session

A request stands for itself, its pipeline and its task. `postProcess` is split at every point at
which another thread can look: the record in `mInputNotEnoughPipe`, the insertion into
`mBusyPipelines` (before the pipeline has a name), set-up and start, delivery. `mFlushFlag` is
the test-and-set flag the worker holds around each call and `flush` never gives back. `quickFinish` compares
names by the shorter one, as `strncmp` does, so that an unnamed pipeline matches. `fedBy` is a
history variable for `FramesRouted`. Frames of one name come one request after the other
(`Arrives`), which is how the HAL names its requests.

### PostProcessor

`mRequestMutex` names who keeps it from one step to the next (a caller that waits for a record's
mutex); a record is locked between steps only by the worker (`RecordFree`). `Referenced` lists
the copies of the record's `shared_ptr`; when none is left `destroyRecord` runs `~RequestRecord`.
`get[r, s]` is the engine's call of `getBuffer`, `tasks` are the tasks of `processMialgoResult`
on the shared pool, `released` and `answers` count what went back to the camera and to the
application. The engine is external: it refuses the frames of a stopped request inside
`MiaPostProc_Process`, gives back everything else on other threads, and may ask for buffers and
deliver results until its flush has returned, also for a request that `quickFinishTask` has
expedited or dropped. `removeMission` forgets any record it is given; its guard comes from its only
caller, which uses it when no frame of the snapshot was sent and `quickFinishTask` otherwise
(`Photographer.cpp:601-606`). The output frame number
0, which the code treats like an error, is covered by `errorState`.

### Snapshot

`mRecord` maps the monitor and each camera mode to "can take the next snapshot"; an absent entry
behaves like `TRUE`. A list of commands is its last element, because merging them gives just
that. `callers` counts the calls of `onMialgoTaskNumChanged` that have unlocked and still have to
set the wake-up timer (`MaxCallers` bounds them). A timer is `armed`, then its callback is
`posted`, then runs (`io`) with the timer's mutex held; `cancel` reaches only the first.
`Tasks` are those of Photographers; `FrameNum` is the number under which the monitor knows a task
(`mMialgoTaskFrame`, pairs of session and number) and need not be its own, since every HAL session
counts from the start. `sent`, `over` and `early` are history: a task is sent once, and its end
reported once, possibly before (a flush before the last frame). `UncountedTask` is the early return,
for a task whose consumption is 0 and for an end whose number is not counted.
The unlocked `deleteMialgoTaskSig` is atomic here.

## 3. Runs

| Run | What it shows |
|---|---|
| `pool` | 4 tasks, one of which submits another and waits for it, 2 to 3 workers, destruction at any time: `CountersExact`, `QueueCovered`, `NoLostWakeup`, `RetiredAreJoined`, the refinement `ImplementsExecutor`, and the liveness properties `AcceptedTasksComplete` and `DestructorReturns` |
| `pipeline` | four graphs (join, frame-by-frame merge with two sinks, in-place, illegal), 2 frames, all failures, expedite and forced flush in both orders: `IdleMeansQuiet`, `InputsReady`, `ImagesReturned`, `CompletionIsLast` (exactly one last image), `FailureReported` (one abnormal callback, or none), `DispatchedWhenReady`, `RequestEnds` (all frames came: the request ends) and `QuickFinishEnds` (cancelled: it ends without further frames) |
| `pipeline_chain` | a frame-by-frame chain, a virtual fork, a virtual node that takes whole sets, a node that follows its input with two outputs (and gets none) and a graph with a missing node, with failures and a forced flush: `ImagesReturned`, `QuickFinishEnds` (the request ends, or the flush meets the missing node and the process dies) |
| `pipeline_hang` (violation) | an expedited frame-by-frame chain hangs |
| `node` | 3 pipelines, two of one name, 2 frames, failures, 2 calls of `quickFinish`: `NoneStranded`, `FlushesNamesake`, refinement `ServesEachOnce`, liveness `RequestsServed` |
| `node_concurrent` | a concurrent node: the refinement `ServesEachOnce` |
| `node_stuck` (violation) | overlapping plugin calls of a concurrent node sleep for ever |
| `buffer_queue` | 2 formats, 2 node tasks, 2 reclaiming threads: `BuffersConserved`, `AnImageRemains`, liveness `AcquireReturns` |
| `session` | 3 requests (a burst and a single frame of one name, one without the tag), 2 cancelling threads, flush and destruction: `FlushedIsQuiet`, `FramesRouted`, liveness `FlushReturns` (flush returns, or an expedite that came late has taken its mark from a request) |
| `postprocessor` | a snapshot of 2 frames and 2 streams with every way to end it: `RecordSettled`, liveness `FlushReturns` and `ResultsAnswered` |
| `postprocessor_deadlock` (violation) | the worker and `processOutputRequest` wait for each other's mutex |
| `snapshot` | 2 tasks of one frame number in 2 sessions of different category for one camera, a session without category, 2 callers at a time, a camera mode, 2 timers: `CountsOutstanding`, `MutedForAReason`, liveness `MutedEnds` |

Every property of a passing run has a mutated definition (`*_...` next to the original, marked
"Mutated form") under which TLC finds it violated; `PROJECT.json` lists them. The violations are
disagreements between the code and one of its comments; `findings` quotes both. What else
the models show to go wrong, with no comment or test that says otherwise, is in `hazards` with a
note: an image that an in-place chain loses in a forced flush (`MiaPipeline.cpp:372`), a virtual
node that hands nothing to its child (`MiaNode.cpp:1424`), two sink nodes that both see the last
decrement (`MiaPipeline.cpp:635`), `quickFinish` on a concurrent node (`MiaNode.cpp:539`) and on a
pipeline that shares its name (`MiaNode.cpp:535`), a forced flush that calls through the null pointer
of a missing node (`MiaPipeline.cpp:758`), a node that follows its input and gets no output
(`MiaPipeline.cpp:964`), an expedite that overwrites a flush (`MiaPipeline.cpp:742`), and tasks that
stay counted because their end came first or their frame number is not their own
(`MialgoTaskMonitor.cpp:91`).

**Bounds.** `Threads = 2`, `MaxThreadNum = 3`: two workers may sleep at once, the pool grows and
shrinks; the code's 12 and 32 differ only in size, and the proofs cover them. Four tasks fill the pool and leave one
queued. `NumFrames`: 2 distinguishes a first, a last and a "not last" frame. Three nodes suffice for a join, a fork and a child with two
parents. Two helpers allow one `quickFinish` during another. `InitDepth = MaxDepth = 2`,
`Threshold = 1`: a queue starts with one image when memory is short, is filled to the maximum,
reclaimed and exhausted; two tasks may each hold the maximum of two. Two requests of one name show a stale record, a
third one an error. One snapshot with two streams and frames has a first and a last of each, and two waiters for
one notification; two snapshots with one frame and stream (736,000 states) pass as well and
show nothing new, as records meet only in the locks. `Capacity = 2`, `MockCameraNum = 1`: one
task fills its session, two categories exceed the cameras. In run `snapshot` `MaxCallers = 2`: one
caller may arm the wake-up timer and the other cancel it in the wrong order. Tasks that
share a number within their session, a task that costs nothing and a third session were checked in
other instances, too large for the run or with fewer properties: `CountsOutstanding` with `f1` to `f4`
in three sessions, one caller and no mode (5.5 million states, without liveness), and
`MutedForAReason` and `MutedEnds` with `f1` and `f5` (376,000 states); `CountsSound` and
`MutedHasReason` prove the two invariants for all of them. There is no state constraint: the
state spaces are finite because tasks, frames, requests and calls of `quickFinish` are. The two
sequences of `quickFinish` calls cover no call and one call too, because nobody has to make the
next one. No run uses `SYMMETRY`: the runs of interest check liveness.

**Fairness.** Weak fairness of each worker, each call of `enqueue` in progress, the main thread,
each node task and each helper: the operating system schedules threads that can run, mutexes are
not held for ever and plugins return. Nobody has to call `enqueue`, `quickFinish` or the
destructor, deliver an image or wake spuriously. In `BufferQueue` each task finishes what it
acquires and gives back what it holds, and a monitor finishes its round; nobody has to acquire.
In `Session` the worker's call in progress, flush, pipeline tasks and node tasks go on, and a
request ends if it is and stays `ForcedFlush` (`Pipeline!QuickFinishEnds`), not otherwise: an
expedited one may hang (run `pipeline_hang`). Flush ends it, unless the expedite comes last: the
worker tests `mFlushed` (`Reprocess.cpp:609`), flush marks the request, and then the worker's
`quickFinish` overwrites the mark (`MiaPipeline.cpp:743`). `FlushReturns` says that flush returns or
such a request stays expedited and running for ever. In `PostProcessor` one
weak fairness condition covers all threads: every step can happen a bounded number of times, so
each behaviour is finite and a thread that can run is not passed over for ever. In `Snapshot` the
command loop, the timer thread and callers that have to set the timer are fair; no task has to
end, which is the situation the timers are for. `CHECK_DEADLOCK FALSE` is set in the three
HAL-side runs, in which the clients may have made all their calls.

**Assumption on the caller.** A pipeline's task occupies a worker while it waits for the tasks of
its nodes, which are queued in the same pool. `AcceptedTasksComplete` holds as long as fewer
pipelines wait than `mMaxThreadNum` (32); with `MaxThreadNum` pipelines in progress TLC finds all
workers waiting. Nothing in the engine limits the number of requests, so this is an assumption.
A task that waits for one that `enqueue` refused because the pool is being destroyed waits for
ever (`Stranded`); the liveness properties of the pool exclude it. The engine itself never calls
`Singleton<ThreadPool>::DestroyInstance`; destruction is modelled because the class implements
it.

## 4. Proofs

Every safety invariant, action property and refinement that a passing run checks is proved by
TLAPS for every value of the constants; some theorems about `Pipeline` have a hypothesis on the
graphs (below). A proof module defines the inductive invariant `IInv` as a conjunction of named
parts, proves one lemma per part with one case per action that can disturb it, and ends in the
theorems. Each inductive invariant was checked by TLC on the instances of the runs before it was
proved.

| Module | Theorems | Assumptions on the constants |
|---|---|---|
| `ThreadPool` | `TypeCorrect`, `CountersCorrect`, `CapacityCorrect`, `WakeupsCorrect`, `JoinsCorrect`, refinement `ImplementsTaskExecutor` | `MaxThreadNum` positive, `NoTask` not a task |
| `Pipeline` | `QuietWhenIdle` (`IdleMeansQuiet`), `FailureReportedOnce` (`FailureReported`), `NodesStartOnce` | finitely many nodes and ports, links join them; any graphs, masks, missing nodes and flushes |
| `Pipeline` | `NodesStartReady` (`DispatchedWhenReady`), `NodesHaveInputs` (`InputsReady`), `WellTyped` (`TypeOK`) | the same, and `GraphsFlow` |
| `Pipeline` | `AllImagesReturned` (`ImagesReturned`) | the same, `GraphsFlow` and `GraphsPassWholeSets` |
| `Pipeline` | `LastImageSentOnce` (`CompletionIsLast`) | the same, `GraphsFlow` and `GraphsComplete` |
| `MiaNode` | `TypeCorrect`, `NobodyStranded` (`NoneStranded`), `HelpersFlushNamesake` (`FlushesNamesake`), refinement `ImplementsServer` (`ServesEachOnce`) | finitely many pipelines with different priorities and any names, at least one frame, `NoRequest` not a pipeline or helper |
| `MiaNode` | `HelpersFlushOwn` | the same, and no two pipelines have the same name |
| `BufferQueue` | `TypeCorrect`, `ConservesBuffers` (`BuffersConserved`), `ImageRemains` (`AnImageRemains`) | finitely many tasks, `0 < InitDepth <= MaxDepth` |
| `Session` | `TypeCorrect`, `FlushQuiet` (`FlushedIsQuiet`), `FramesReachTheirRequest` (`FramesRouted`) | names are not empty; the last theorem has the hypothesis `AllFramesCome` |
| `PostProcessor` | `TypeCorrect`, `EachSettledOnce` (`RecordSettled`) | at least one frame and stream; `None` is not a request, frame or holder |
| `Snapshot` | `CountsSound` (`CountsOutstanding`), `MutedHasReason` (`MutedForAReason`) | positive capacities; any sessions, frame numbers and consumptions |

That a marker such as `None` differs from the values it is used beside is an assumption about the
model, not about the code: it stands for a null pointer or an absent entry.

**ThreadPool.** The parts of the invariant need each other: a counter stays a natural number only
because it is exact; that the pool keeps its minimum size follows from the idle counter being
exact when a worker retires; a queue stays covered when a worker retires because the shrinking
rule keeps twice as many idle workers as tasks. The wake-up argument: `EnqueuePush` adds one task
and one pending notification; `TakeTask` removes one task and one awake worker; a worker goes to
sleep only when the queue is empty; `EnqueueNotify` turns a notification into an awake worker if
anyone sleeps. The refinement adds `PlaceInv` (a task is in the queue once, or with one worker,
and its `enqueue` has accepted it) and `StopInv` (workers leave a stopped pool only when the
queue is empty): from these, starting, ending, refusing and closing map to the steps of
`TaskExecutor`, and every other step to a stutter.

**Pipeline.** `NodeMoves` first shows that each of the twenty steps of a node task is one of five
kinds, and that it changes the schedule only by notifying a set of nodes. `CountInv` says that
`mRunningNodeNum` is the number of tasks inside, less the one that the main thread has just
started and not yet counted; it is inductive only with `DispatchInv`: a ready node is in
`mRunSequence` once, has no dependence left and was never started, because a node is appended when
its count is exactly 1, and counts only fall. `LoopInv` then makes an empty sequence at the top of
the loop mean that nothing runs. For the callback, `ReportInv` follows a failing task: whoever has
called back is still on its way to set `mHasProcessError`, so the two flags agree when no task is
left, and `abnormal` is 1 exactly when `mIsCallExternal` is set. These hold for every graph, also
for those on which requests hang.

The other theorems need what the code takes for granted about the graphs that pruning produces,
and they say which of it. `GraphsFlow`: every node has an output link (`outputLinks[0]` is taken without a
test, `MiaPipeline.cpp:874`), a virtual node takes its images one by one (for a whole set it does
not look at the result of `getInputBuffer`, `MiaNode.cpp:1424`), and a node with
`outputType = FollowInput` has one input and one output link, on ports of the same id (it gets no
output otherwise, `MiaPipeline.cpp:964`). `GraphsPassWholeSets`: whoever is
handed its parent's inputs takes them as a whole (a queue that is released meanwhile refuses
some, `MiaPipeline.cpp:372`). `GraphsComplete`: no cycle, every node has an input and an object,
and one node is before all sinks and releases them at its end, because `--mSinkNumToReturn` has no
lock and counts releases (`MiaPipeline.cpp:635`). An assumption of `MCPipeline` shows that the
graphs `Join`, `Merge`, `InPlace`, `Fork`, `Illegal` and `Chain` satisfy all three; the hazards at
these lines say what happens on other graphs.

Three more inductive invariants follow. `FlowInv` contains `IInv` and follows the images.
`NodeFrame` first shows what a step of one task leaves to the others. `TaskInv` says what a task
has at each point; `DependInv` that a node which takes whole sets waits for at least as many parents
as have not delivered, where `Delivered` is a link that `notifyNextNode` has released and counted;
`StockInv` and `SupplyInv` that a processed frame is in the output queue, in the input queue of
the child or still with a node that passes it on, so that a node without inputs to wait for has
an image on each internal link. `OverInv` and `LiveInv` are the account of the references: `live` is the number
of images in all queues (`Total` counts the places in a family of queues; its lemmas say what growing some of the
queues adds, which is why no induction over sums is needed), and once the queues are emptied they
stay empty. `LastInv` is about the end: `SinkInv` makes
`mSinkNumToReturn` the number of sink links left and gives each of them an image once a frame was
processed; `ReadyInv` and `OwedInv` are the converse of `DispatchInv` and `DependInv` (a node that
waits for nothing is ready, a node waits for no more than is to come). When the request is over, a
node that never started would have a parent that never started, and so on: `Acyclic` excludes it
without an induction, since the set of those nodes has a first element.

**MiaNode.** `SerialInv` ties `mHasProcessThread` and `mPipeline` to the one task that occupies a
serial node, and lets requests wait only while there is one. For a concurrent node there are as many queued
tasks as queued requests (`ConcInv`). `HelperInv` fixes `mInPluginThreadNum` at 0, 1 or 2
according to who is in the plugin; `FlushesNamesake` is itself a part of the invariant. With
distinct names a namesake is the request itself, which is `HelpersFlushOwn`. The
pipeline of highest priority exists because the queue is finite.

**BufferQueue.** For each format the count of the buffer manager is the number of free, held and
dying images (`QueueInv`), the use count of an image is the number of tasks that hold it
(`UseInv`), and a monitor between its test and its pop knows that there are at least two images
(`MonitorInv`), because monitors exclude each other and nobody else frees.

**Session.** One invariant for flush: the flag is held by the worker or by flush (`FlagInv`), which
keeps requests out once flush runs; `mBusyPipelines` are the requests whose task is not over, and
`mNodeThreadNum` counts their node tasks, so the two waits of flush cover everything. A second one
(`RouteInv`) for the records: between two frames the record of a name names the request that is
between its first and its last frame. It needs `AllFramesCome`, which says that the camera
delivers what it announces; without it the property is false (see the hazard at
`MiaOfflineSession.cpp:448`), and TLC shows the counterexample when a frame is left out.

**PostProcessor.** `FrameInv` says where a frame is (to be sent, with the worker, in the record,
given back), `AnswerInv` what the application is owed; both need `UseInv`, that tasks and the worker only refer
to live records, and a queue without repetitions.

**Snapshot.** `CommandInv`: the last command that is pending or being executed agrees with the
records. `TimerInv`: the timer is cancelled only after the application was activated.
`CountsOutstanding` compares a count with the number of units of consumption of the unfinished
tasks (`Outstanding`), which is their sum. It needs `KeyInv`: a task that was sent and
is not over has its number counted, unless it costs nothing or its number is not its own, so that
its end is not ignored.

Model-checked only: liveness (all `~>` properties), which is outside the prover's reach. The runs
check it under the fairness of section 3 on the instances named there.

## 5. Not modelled

In the engine: `BufferQueueWrapper::flush` and `releaseQueue`, which empty the image queues when the
session is destroyed, with the null image that a released queue returns; `pluginReleaseUnneedBuffer`, `VIRTUAL_SINKNODE`, custom buffer counts (the code only
initialises them), `preProcess`, the life time of a node whose detached `quickFinish` helper
(`MiaNode.cpp:545`) is not counted in `mNodeThreadNum`, time-outs that only log
(`timeoutDetection`), exif, dumps and statistics; the pruner, whose results are the constant
`Graphs`. In `mihal`: requests of the SDK, which bring their output buffers along, anchors,
metadata, `PostProcessorManager` beyond the lock that separates flush from a dead application, and
the capture sessions over the vendor HAL. Everything else is outside: `mizone` is a port of the
same protocols to another chip vendor's types; plugins wrap closed algorithms; display, touch and
the services are tables, device I/O and forwarding (see `components`).

Weak memory is not modelled: of the unlocked accesses, `mSinkNumToReturn` is split into a read and
a write; the unlocked `mRunSequence.empty()` of the main loop, the container
`mBufferQueueWrapperSet`, the `timestamps` of a record (searched under `mRequestMutex`, filled under
the record's) and the maps of `deleteMialgoTaskSig` are accessed atomically. Freed memory is not
modelled: `postProcTask` reads the pipeline's name for a log line after `moveToIdleQueue`
(`MiaPipeline.cpp:89`), and `MiaPostProc_QuickFinish` uses a session after it has unlocked
`allSessionsMutex` (`MiaPostProcIntf.cpp:121`), where the model finds nothing.

## 6. Plan

1. Done: `ThreadPool`, `TaskExecutor`; `Pipeline`; `MiaNode`, `RequestServer`; `BufferQueue`;
   `Session`; `PostProcessor`; `Snapshot`; proofs of all safety invariants, of the action property
   `DispatchedWhenReady` and of both refinements.
2. `Pipeline`: plugins that release images themselves, a sink that is released frame by frame.
3. The pruner as a pure operator checked against a reference definition, and with it a proof that
   its results satisfy the hypotheses on the graphs.
