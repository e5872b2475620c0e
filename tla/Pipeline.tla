------------------------------ MODULE Pipeline ------------------------------
(***************************************************************************)
(* One request of the algorithm engine (mialgoengine/MiaPipeline.cpp)      *)
(* together with the node tasks that serve it (MiaNode.cpp).  The main     *)
(* thread runs postProcTask: it asks the session for the pruned graph of   *)
(* nodes, dispatches every node whose inputs are complete, and sleeps on   *)
(* mCond until a node task makes another one ready or the last one ends.   *)
(* Meanwhile the camera feeds source images, and the session may cut the   *)
(* request short: Expediting (finish with what has arrived) or ForcedFlush *)
(* (drop it).                                                              *)
(*                                                                         *)
(* Of an image the model keeps its merge number (how many images belong to *)
(* the same set on the same port) and whether it is a source image of the  *)
(* camera.  `live' counts the references that the pipeline has taken and   *)
(* not yet given back.                                                     *)
(***************************************************************************)
EXTENDS Integers, Sequences, FiniteSets, SequencesExt

CONSTANTS
  Node, SourcePort, SinkPort,
  Graphs,      \* the graphs that pruning may produce
  NoGraph,
  NumFrames,   \* merge number of the source images of the request
  MayFail,     \* whether pruning, buffer allocation and plugins may fail
  Missing,     \* nodes of a graph whose object the session does not have
  FlushCalls   \* the possible sequences of quickFinish calls of a run

(* The bits of nodeMask that change the control flow; FOLLOWINPUT stands     *)
(* for outputType = FollowInput (one output per input), OneBuffer otherwise, *)
(* and OTHERPORT for a node whose only input and only output port have       *)
(* different ids.                                                            *)
Flag == {"INPLACE", "SIGFRAME", "SIGGETOUTPUT", "SIGRELEASEINPUT",
         "SIGRELEASEOUTPUT", "VIRTUAL", "FOLLOWINPUT", "OTHERPORT"}

(* A link is the pair of its ends.                                           *)
Link == UNION {g.links : g \in Graphs}
Image == [num : Nat, src : BOOLEAN]
FlushStatus == {"NoFlush", "Expediting", "ForcedFlush"}

ASSUME PipelineAssumption ==
  /\ Node \cap SourcePort = {} /\ Node \cap SinkPort = {}
  /\ IsFiniteSet(Node) /\ IsFiniteSet(SourcePort) /\ IsFiniteSet(SinkPort)
  /\ \A g \in Graphs :
       /\ g.links \subseteq (SourcePort \X Node) \cup (Node \X Node)
                             \cup (Node \X SinkPort)
       /\ g.mask \in [Node -> SUBSET Flag]
  /\ NoGraph \notin Graphs
  /\ NumFrames \in Nat \ {0}
  /\ MayFail \in BOOLEAN
  /\ Missing \subseteq Node
  /\ FlushCalls \subseteq Seq(FlushStatus \ {"NoFlush"})

VARIABLES
  mpc, serving,          \* the main thread, and the node it is dispatching
  graph,                 \* mPipelineInfo
  mDependenceNum, mRunSequence, mRunningNodeNum, mHasProcessError,
  mCurrentProcessNodes, mSinkNumToReturn, mIsCallExternal, mFlushStatus,
  srcQ, srcRel,          \* mSourceBufferQueueMap: images and mRelease per port
  inQ, inRel,            \* inputBuffers: images and mRelease per link
  usingQ, outQ,          \* usingInputBuffers and outputBuffers per link
  pc, ok,                \* each node task, and whether it is still successful
  mInputFrameNum,
  todo,                  \* output links that the node task has yet to release
  sink,                  \* the sink link it is releasing and the value of
                         \* mSinkNumToReturn that it has read
  fed,                   \* source images delivered by the camera, per port
  flushes, fpc,          \* quickFinish calls to come; the one in progress
  abnormal, complete,    \* callbacks made: abnormal, last sink image
  live

mainVars == <<mpc, serving>>
schedVars == <<mDependenceNum, mRunSequence, mRunningNodeNum, mHasProcessError>>
sourceVars == <<srcQ, srcRel>>
linkVars == <<inQ, inRel, usingQ, outQ>>
queueVars == <<sourceVars, linkVars, live>>
nodeVars == <<pc, ok, mInputFrameNum, todo, sink>>
clientVars == <<fed, flushes, fpc>>
resultVars == <<mIsCallExternal, abnormal, complete>>
(* What every node task finds and leaves as it is.                           *)
given == <<serving, graph, mFlushStatus, clientVars>>
(* What a step of the main thread alone, of a node task before it ends its   *)
(* request, and of the camera and the session, leave as it is.               *)
notMain == <<graph, schedVars, mCurrentProcessNodes, mSinkNumToReturn,
             mFlushStatus, queueVars, nodeVars, clientVars, resultVars>>
notNode == <<mpc, given, schedVars, mCurrentProcessNodes, mSinkNumToReturn,
             resultVars>>
notSession == <<mainVars, graph, schedVars, mCurrentProcessNodes,
                mSinkNumToReturn, nodeVars, resultVars>>
vars == <<mainVars, notMain>>

-----------------------------------------------------------------------------
InLinks(n) == {l \in graph.links : l[2] = n}
OutLinks(n) == {l \in graph.links : l[1] = n}
IsSource(l) == l[1] \in SourcePort
IsSink(l) == l[2] \in SinkPort
FirstOf(links) == CHOOSE l \in links : TRUE

Has(n, f) == f \in graph.mask[n]
SigFrame(n) == Has(n, "SIGFRAME")
isInplaceNode(n) == /\ Has(n, "INPLACE")
                    /\ Cardinality(OutLinks(n)) = 1
                    /\ \A l \in OutLinks(n) : ~IsSink(l)
(* releaseInputBuffers hands the input images of such a node to its children. *)
PassesInputsOn(n) == isInplaceNode(n) \/ Has(n, "VIRTUAL")

(* getMergeInputNumber of the image the node has just taken.                  *)
mergeInputNum(n) == Last(usingQ[FirstOf(InLinks(n))]).num

Waiting == "asleep"
Notified == IF mpc = Waiting THEN "awake" ELSE mpc

Init ==
  /\ mpc = "start" /\ serving = CHOOSE n \in Node : TRUE
  /\ graph = NoGraph
  /\ mDependenceNum = [n \in Node |-> 0]
  /\ mRunSequence = <<>>
  /\ mRunningNodeNum = 0
  /\ mHasProcessError = FALSE
  /\ mCurrentProcessNodes = {}
  /\ mSinkNumToReturn = 0
  /\ mIsCallExternal = FALSE
  /\ mFlushStatus = "NoFlush"
  /\ srcQ = [p \in SourcePort |-> <<>>]
  /\ srcRel = [p \in SourcePort |-> FALSE]
  /\ inQ = [l \in Link |-> <<>>] /\ inRel = [l \in Link |-> FALSE]
  /\ usingQ = [l \in Link |-> <<>>]
  /\ outQ = [l \in Link |-> <<>>]
  /\ pc = [n \in Node |-> "none"] /\ ok = [n \in Node |-> TRUE]
  /\ mInputFrameNum = [n \in Node |-> 0]
  /\ todo = [n \in Node |-> {}] /\ sink = [n \in Node |-> <<>>]
  /\ fed = [p \in SourcePort |-> 0]
  /\ flushes \in FlushCalls /\ fpc = "none"
  /\ abnormal = 0 /\ complete = 0
  /\ live = 0

-----------------------------------------------------------------------------
(* postProcTask                                                              *)

Start ==
  /\ mpc = "start"
  /\ mpc' = IF mFlushStatus = "ForcedFlush" THEN "release" ELSE "rebuild"
  /\ UNCHANGED <<notMain, serving>>

RebuildFails ==
  /\ mpc = "rebuild" /\ MayFail
  /\ abnormal' = abnormal + 1
  /\ mpc' = "release"
  /\ UNCHANGED <<queueVars, given, nodeVars, schedVars, mCurrentProcessNodes,
                 mSinkNumToReturn, mIsCallExternal, complete>>

InternalInputs(g, n) == {l \in g.links : l[2] = n /\ l[1] \in Node}
Consumers(g) == {l[2] : l \in {k \in g.links : ~IsSink(k)}}
SourceNodes(g) == {l[2] : l \in {k \in g.links : IsSource(k)}}
TopologyError(g) ==
  \E n \in Consumers(g) : /\ "SIGFRAME" \in g.mask[n]
                          /\ Cardinality({l \in g.links : l[2] = n}) > 1

(* Pruning has produced g.  The nodes that depend on no other node are ready *)
(* at once; the order among them is that of a std::map, here a fixed one.    *)
rebuildLinks(g) ==
  /\ mpc = "rebuild"
  /\ graph' = g
  /\ mSinkNumToReturn' = Cardinality({l \in g.links : IsSink(l)})
  /\ mDependenceNum' = [n \in Node |-> Cardinality(InternalInputs(g, n))]
  /\ IF TopologyError(g)
       THEN mpc' = "release" /\ UNCHANGED mRunSequence
       ELSE /\ mpc' = "loop"
            /\ mRunSequence' =
                 SetToSeq({n \in SourceNodes(g) : InternalInputs(g, n) = {}})
  /\ UNCHANGED <<queueVars, nodeVars, clientVars, resultVars, serving,
                 mRunningNodeNum, mHasProcessError, mCurrentProcessNodes,
                 mFlushStatus>>

PopNode ==
  /\ mpc = "loop" /\ mRunSequence # <<>>
  /\ serving' = Head(mRunSequence)
  /\ mRunSequence' = Tail(mRunSequence)
  /\ mCurrentProcessNodes' = mCurrentProcessNodes \cup {Head(mRunSequence)}
  /\ mpc' = "dispatch"
  /\ UNCHANGED <<queueVars, nodeVars, clientVars, resultVars, graph,
                 mDependenceNum, mRunningNodeNum, mHasProcessError,
                 mSinkNumToReturn, mFlushStatus>>

(* enqueueTask hands the node to the thread pool: its task may run at once,  *)
(* before the main thread has counted it.                                    *)
postProcess ==
  /\ mpc = "dispatch"
  /\ pc' = IF serving \in Missing THEN pc ELSE [pc EXCEPT ![serving] = "input"]
  /\ mpc' = "count"
  /\ UNCHANGED <<queueVars, given, schedVars, resultVars, mCurrentProcessNodes,
                 mSinkNumToReturn, ok, mInputFrameNum, todo, sink>>

(* mCond.wait goes to sleep unless a node is ready or none is running.       *)
WaitUnlessReady(running) ==
  mpc' = IF mRunSequence = <<>> /\ running # 0 THEN Waiting ELSE "loop"

(* Mutated form: the predicate sees the number before the task was counted.  *)
CountAndWait_stale ==
  /\ mpc = "count"
  /\ mRunningNodeNum' = mRunningNodeNum + IF serving \in Missing THEN 0 ELSE 1
  /\ WaitUnlessReady(mRunningNodeNum)
  /\ UNCHANGED <<queueVars, given, nodeVars, resultVars, mDependenceNum,
                 mRunSequence, mHasProcessError, mCurrentProcessNodes,
                 mSinkNumToReturn>>

(* Under mLock: count the task, then test the predicate of mCond.wait.       *)
CountAndWait ==
  /\ mpc = "count"
  /\ mRunningNodeNum' = mRunningNodeNum + IF serving \in Missing THEN 0 ELSE 1
  /\ WaitUnlessReady(mRunningNodeNum')
  /\ UNCHANGED <<queueVars, given, nodeVars, resultVars, mDependenceNum,
                 mRunSequence, mHasProcessError, mCurrentProcessNodes,
                 mSinkNumToReturn>>

SpuriousWakeup ==
  /\ mpc = Waiting
  /\ mpc' = "awake"
  /\ UNCHANGED <<notMain, serving>>

RetestPredicate ==
  /\ mpc = "awake"
  /\ WaitUnlessReady(mRunningNodeNum)
  /\ UNCHANGED <<notMain, serving>>

LoopEnds ==
  /\ mpc = "loop" /\ mRunSequence = <<>>
  /\ mpc' = "release"
  /\ UNCHANGED <<notMain, serving>>

(* The first f[x] places of the queues x \in S, and how many they are.       *)
Places(f, S) == UNION {{x} \X (1 .. f[x]) : x \in S}
Total(f, S) == Cardinality(Places(f, S))
Sizes(q) == [x \in DOMAIN q |-> Len(q[x])]

QueuedImages ==
  Total(Sizes(srcQ), SourcePort) + Total(Sizes(inQ), Link)
    + Total(Sizes(usingQ), Link) + Total(Sizes(outQ), Link)

(* Mutated form: the queues stay open.                                       *)
releaseSourceQueues_open == UNCHANGED srcRel

(* releaseQueue of every port: no image can be pushed any more, and whoever  *)
(* waits for one stops waiting.                                              *)
releaseSourceQueues == srcRel' = [p \in SourcePort |-> TRUE]

(* A port is closed before it is emptied, so no later image slips in.        *)
releaseUnusedBuffer ==
  /\ mpc = "release"
  /\ releaseSourceQueues
  /\ srcQ' = [p \in SourcePort |-> <<>>]
  /\ inQ' = [l \in Link |-> <<>>]
  /\ usingQ' = [l \in Link |-> <<>>]
  /\ outQ' = [l \in Link |-> <<>>]
  /\ live' = live - QueuedImages
  /\ mpc' = "move"
  /\ UNCHANGED <<given, nodeVars, schedVars, resultVars, mCurrentProcessNodes,
                 mSinkNumToReturn, inRel>>

(* mBusyLock, which moveToIdleQueue takes, is held during quickFinish.       *)
moveToIdleQueue ==
  /\ mpc = "move" /\ fpc = "none"
  /\ mpc' = "idle"
  /\ UNCHANGED <<notMain, serving>>

MainStep ==
  \/ Start \/ RebuildFails \/ \E g \in Graphs : rebuildLinks(g)
  \/ PopNode \/ postProcess \/ CountAndWait \/ RetestPredicate
  \/ LoopEnds \/ releaseUnusedBuffer \/ moveToIdleQueue

-----------------------------------------------------------------------------
(* processTask of OtherNode, ConcurrencyNode, SigframeNode and VirtualNode   *)

At(n, p) == pc[n] = p
Goto(n, p) == pc' = [pc EXCEPT ![n] = p]
Fail(n) == ok' = [ok EXCEPT ![n] = FALSE]

Take(l, image) ==
  /\ usingQ' = [usingQ EXCEPT ![l] = Append(@, image)]
  /\ UNCHANGED <<srcRel, inRel, outQ, live, ok, todo, sink>>

(* Where a task goes when getInputBuffer has returned one frame.  A          *)
(* VirtualNode runs no plugin: it only counts its images.                    *)
AfterFrame(n, image) ==
  IF ~Has(n, "VIRTUAL") THEN Goto(n, "check") /\ UNCHANGED mInputFrameNum
  ELSE /\ mInputFrameNum' = [mInputFrameNum EXCEPT ![n] = @ + 1]
       /\ Goto(n, IF mInputFrameNum[n] + 1 = image.num THEN "erase" ELSE "frameIn")

(* Frame by frame: one image of the only input link, waitAndPop.             *)
getFrame(n, l) ==
  /\ At(n, "input") /\ l \in InLinks(n) /\ SigFrame(n)
  /\ IF IsSource(l)
       THEN /\ srcQ[l[1]] # <<>>
            /\ srcQ' = [srcQ EXCEPT ![l[1]] = Tail(@)]
            /\ Take(l, Head(srcQ[l[1]]))
            /\ AfterFrame(n, Head(srcQ[l[1]]))
            /\ UNCHANGED inQ
       ELSE /\ inQ[l] # <<>>
            /\ inQ' = [inQ EXCEPT ![l] = Tail(@)]
            /\ Take(l, Head(inQ[l]))
            /\ AfterFrame(n, Head(inQ[l]))
            /\ UNCHANGED srcQ
  /\ UNCHANGED notNode

(* A whole set: the images of a source port arrive one by one ...            *)
SourceMissing(n) ==
  {l \in InLinks(n) : /\ IsSource(l)
                      /\ usingQ[l] = <<>> \/ Len(usingQ[l]) < Head(usingQ[l]).num}

getSourceImage(n, l) ==
  /\ At(n, "input") /\ ~SigFrame(n) /\ l \in SourceMissing(n)
  /\ srcQ[l[1]] # <<>>
  /\ srcQ' = [srcQ EXCEPT ![l[1]] = Tail(@)]
  /\ Take(l, Head(srcQ[l[1]]))
  /\ UNCHANGED <<notNode, inQ, pc, mInputFrameNum>>

(* ... and what the parents have put on the other links is there already.    *)
getInputImage(n) ==
  /\ At(n, "input") /\ ~SigFrame(n) /\ SourceMissing(n) = {}
  /\ usingQ' = [l \in Link |-> IF l \in InLinks(n) THEN usingQ[l] \o inQ[l]
                                                    ELSE usingQ[l]]
  /\ inQ' = [l \in Link |-> IF l \in InLinks(n) THEN <<>> ELSE inQ[l]]
  /\ Goto(n, IF Has(n, "VIRTUAL") THEN "erase" ELSE "check")
  /\ UNCHANGED <<notNode, sourceVars, inRel, outQ, live, ok, mInputFrameNum,
                 todo, sink>>

(* waitAndPop of a queue that is released and empty returns no image.        *)
InputEnded(n, l) ==
  /\ At(n, "input") /\ l \in InLinks(n)
  /\ SigFrame(n) \/ l \in SourceMissing(n)
  /\ IF IsSource(l) THEN srcRel[l[1]] /\ srcQ[l[1]] = <<>>
                    ELSE inRel[l] /\ inQ[l] = <<>>

(* Mutated form: the result of getInputBuffer is not looked at.              *)
InputFails_ignored(n, l) ==
  /\ InputEnded(n, l)
  /\ Goto(n, IF Has(n, "VIRTUAL") THEN "erase" ELSE "check")
  /\ UNCHANGED <<notNode, queueVars, ok, mInputFrameNum, todo, sink>>

(* A VirtualNode that takes whole sets ignores that getInputBuffer failed.   *)
InputFails(n, l) ==
  /\ InputEnded(n, l)
  /\ Goto(n, IF Has(n, "VIRTUAL") THEN "erase" ELSE "check")
  /\ ok' = [ok EXCEPT ![n] = Has(n, "VIRTUAL") /\ ~SigFrame(n)]
  /\ UNCHANGED <<notNode, queueVars, mInputFrameNum, todo, sink>>

(* mFlushStatus is read once, after the inputs.  A frame-by-frame node whose *)
(* input ended because the request is expedited ends well with what it has.  *)
checkTaskEffectiveness(n) ==
  /\ At(n, "check")
  /\ IF mFlushStatus = "ForcedFlush"
       THEN Fail(n) /\ Goto(n, "erase")
       ELSE IF ok[n] THEN Goto(n, "output") /\ UNCHANGED ok
       ELSE /\ Goto(n, "erase")
            /\ ok' = [ok EXCEPT ![n] = /\ SigFrame(n)
                                       /\ mFlushStatus = "Expediting"
                                       /\ mInputFrameNum[n] > 0]
  /\ UNCHANGED <<notNode, queueVars, mInputFrameNum, todo, sink>>

(* A frame-by-frame node without SIGGETOUTPUT takes its outputs only once.   *)
needGetOutBufferThisTime(n) ==
  SigFrame(n) => (Has(n, "SIGGETOUTPUT") \/ mInputFrameNum[n] = 0)

(* How many images each output port gets.  FollowInput is served only with   *)
(* one input and one output link, and its number is stored under the id of   *)
(* the input port and looked up under that of the output port: where the     *)
(* look-up finds nothing it yields 0, and the node gets no output at all.    *)
OneInOneOut(n) == /\ Cardinality(InLinks(n)) = 1
                  /\ Cardinality(OutLinks(n)) = 1
OutBufferNum(n) ==
  IF ~Has(n, "FOLLOWINPUT") THEN 1
  ELSE IF OneInOneOut(n) /\ ~Has(n, "OTHERPORT") THEN mergeInputNum(n) ELSE 0

(* The images that getOutputImage adds to an output link: their merge number *)
(* is how many outputs the port delivers in all.                             *)
NewOutputs(n) ==
  [i \in 1 .. (IF Has(n, "SIGGETOUTPUT") /\ OutBufferNum(n) # 0
                  THEN 1 ELSE OutBufferNum(n))
     |-> [num |-> OutBufferNum(n), src |-> FALSE]]

Acquire(n, links) ==
  /\ outQ' = [l \in Link |-> IF l \in links THEN outQ[l] \o NewOutputs(n)
                                            ELSE outQ[l]]
  /\ live' = live + Cardinality(links) * Len(NewOutputs(n))
  /\ UNCHANGED <<sourceVars, inQ, inRel, usingQ>>

getOutputImage(n) ==
  /\ At(n, "output")
  /\ Acquire(n, IF needGetOutBufferThisTime(n) /\ ~isInplaceNode(n)
                  THEN OutLinks(n) ELSE {})
  /\ mInputFrameNum' = [mInputFrameNum EXCEPT ![n] = @ + 1]
  /\ Goto(n, "plugin")
  /\ UNCHANGED <<notNode, ok, todo, sink>>

(* Some links have got their images, then no buffer is left.                 *)
OutputFails(n) ==
  /\ At(n, "output") /\ MayFail
  /\ needGetOutBufferThisTime(n) /\ ~isInplaceNode(n)
  /\ \E links \in SUBSET OutLinks(n) \ {OutLinks(n)} : Acquire(n, links)
  /\ Fail(n) /\ Goto(n, "erase")
  /\ UNCHANGED <<notNode, mInputFrameNum, todo, sink>>

PluginReturns(n) ==
  /\ At(n, "plugin")
  /\ Goto(n, IF SigFrame(n) /\ mInputFrameNum[n] # mergeInputNum(n)
               THEN "frameIn" ELSE "erase")
  /\ UNCHANGED <<notNode, queueVars, ok, mInputFrameNum, todo, sink>>

(* An error, or an abnormal result: the pipeline treats them alike.          *)
PluginFails(n) ==
  /\ At(n, "plugin") /\ MayFail
  /\ Fail(n) /\ Goto(n, "erase")
  /\ UNCHANGED <<notNode, queueVars, mInputFrameNum, todo, sink>>

(* The images at the given places, one queue after the other, each from its  *)
(* head: the orders in which a loop over a map of queues may pop them.       *)
PopOrders(places) ==
  {order \in [1 .. Cardinality(places) -> places] :
     \A i, j \in DOMAIN order : i < j =>
       /\ order[i] # order[j]
       /\ order[i][1] = order[j][1] => order[i][2] < order[j][2]
       /\ order[i][1] = order[j][1] =>
            \A h \in i .. j : order[h][1] = order[i][1]}

(* Give back the first k images in use on every input link of n; an in-place *)
(* or virtual node first pushes each of them to all of its children.  The    *)
(* use count is raised before the push, and a released queue refuses the     *)
(* image: an internal image is then freed by its destructor, a source image  *)
(* is not given back.                                                        *)
releaseInputBuffers(n, k) ==
  \E order \in PopOrders(Places(k, InLinks(n))) :
    LET gone == [i \in DOMAIN order |-> usingQ[order[i][1]][order[i][2]]]
        copies == IF PassesInputsOn(n) THEN OutLinks(n) ELSE {}
        refused == {l \in copies : inRel[l]}
    IN  /\ usingQ' = [l \in Link |-> IF l \in InLinks(n)
                        THEN SubSeq(usingQ[l], k[l] + 1, Len(usingQ[l]))
                        ELSE usingQ[l]]
        /\ inQ' = [l \in Link |-> IF l \in copies \ refused
                                    THEN inQ[l] \o gone ELSE inQ[l]]
        /\ live' = live - Len(gone) + Cardinality(copies) * Len(gone)
                    - Cardinality(refused)
                        * Cardinality({i \in DOMAIN gone : ~gone[i].src})
        /\ UNCHANGED <<sourceVars, inRel, outQ>>

(* Mutated form: any complete input makes the child ready.                   *)
NotifyChildren_any(links) ==
  LET child == {l[2] : l \in links}
  IN  IF mHasProcessError THEN UNCHANGED <<mDependenceNum, mRunSequence>>
      ELSE /\ mDependenceNum' = [m \in Node |-> mDependenceNum[m]
                                    - IF m \in child THEN 1 ELSE 0]
           /\ mRunSequence' = mRunSequence \o SetToSeq(child)

(* One input of the child is complete.  Under mLock.                         *)
NotifyChildren(links) ==
  LET child == {l[2] : l \in links}
      ready == {m \in child : mDependenceNum[m] = 1}
  IN  IF mHasProcessError THEN UNCHANGED <<mDependenceNum, mRunSequence>>
      ELSE /\ mDependenceNum' = [m \in Node |-> mDependenceNum[m]
                                    - IF m \in child THEN 1 ELSE 0]
           /\ mRunSequence' = mRunSequence \o SetToSeq(ready)

SigFrameChildren(links) ==
  {l \in links : ~IsSink(l) /\ SigFrame(l[2])}

(* releaseInputAndTryNotifyNextNode, when the mask asks for it.              *)
FrameInput(n) ==
  /\ At(n, "frameIn")
  /\ IF Has(n, "SIGRELEASEINPUT")
       THEN /\ releaseInputBuffers(n, [l \in Link |->
                                        IF usingQ[l] = <<>> THEN 0 ELSE 1])
            /\ IF PassesInputsOn(n)
                 THEN /\ NotifyChildren(SigFrameChildren(OutLinks(n)))
                      /\ mpc' = IF mRunSequence' # mRunSequence
                                  THEN Notified ELSE mpc
                 ELSE UNCHANGED <<mpc, mDependenceNum, mRunSequence>>
       ELSE UNCHANGED <<queueVars, mpc, mDependenceNum, mRunSequence>>
  /\ Goto(n, IF Has(n, "VIRTUAL") THEN "input" ELSE "frameOut")
  /\ UNCHANGED <<given, resultVars, mRunningNodeNum, mHasProcessError,
                 mCurrentProcessNodes, mSinkNumToReturn, ok, mInputFrameNum,
                 todo, sink>>

(* releaseOutputAndTryNotifyNextNode serves the first output link only.      *)
FrameOutput(n) ==
  /\ At(n, "frameOut")
  /\ IF Has(n, "SIGRELEASEOUTPUT") /\ ~isInplaceNode(n)
       THEN /\ todo' = [todo EXCEPT ![n] = {FirstOf(OutLinks(n))}]
            /\ Goto(n, "links")
       ELSE Goto(n, "input") /\ UNCHANGED todo
  /\ UNCHANGED <<notNode, queueVars, ok, mInputFrameNum, sink>>

(* notifyNextNode begins: quickFinish no longer sees the node.               *)
EraseCurrent(n) ==
  /\ At(n, "erase")
  /\ mCurrentProcessNodes' = mCurrentProcessNodes \ {n}
  /\ Goto(n, IF ok[n] THEN "release" ELSE "abnormal")
  /\ UNCHANGED <<queueVars, given, schedVars, resultVars, mpc,
                 mSinkNumToReturn, ok, mInputFrameNum, todo, sink>>

(* Mutated form: every failing node calls back.                              *)
NewCallbacks_every == 1

(* Under mIsCallExternalLock.                                                *)
NewCallbacks == IF mIsCallExternal THEN 0 ELSE 1

(* The first node that fails reports it; a failed node still gives its sink  *)
(* images back, its other images stay for releaseUnusedBuffer.               *)
AbnormalCallback(n) ==
  /\ At(n, "abnormal")
  /\ mIsCallExternal' = TRUE
  /\ abnormal' = abnormal + NewCallbacks
  /\ todo' = [todo EXCEPT ![n] = {l \in OutLinks(n) : IsSink(l)}]
  /\ Goto(n, "links")
  /\ UNCHANGED <<queueVars, given, schedVars, mpc, mCurrentProcessNodes,
                 mSinkNumToReturn, ok, mInputFrameNum, sink, complete>>

ReleaseInputs(n) ==
  /\ At(n, "release")
  /\ releaseInputBuffers(n, [l \in Link |-> Len(usingQ[l])])
  /\ todo' = [todo EXCEPT ![n] = OutLinks(n)]
  /\ Goto(n, "links")
  /\ UNCHANGED <<notNode, ok, mInputFrameNum, sink>>

(* Move the outputs of an internal link to the child (one of them while the  *)
(* request goes on, all of them at its end), then count the link.  While the *)
(* request goes on only a frame-by-frame child may start.  An image that a   *)
(* released queue refuses is freed by its destructor.                        *)
releaseOutBuffers(n, l) ==
  LET going == n \in mCurrentProcessNodes
      k == IF going /\ outQ[l] # <<>> THEN 1 ELSE Len(outQ[l])
  IN  /\ At(n, "links") /\ l \in todo[n] /\ ~IsSink(l)
      /\ outQ' = [outQ EXCEPT ![l] = SubSeq(@, k + 1, Len(@))]
      /\ inQ' = [inQ EXCEPT ![l] =
                   IF inRel[l] THEN @ ELSE @ \o SubSeq(outQ[l], 1, k)]
      /\ IF going => SigFrame(l[2])
           THEN NotifyChildren({l})
           ELSE UNCHANGED <<mDependenceNum, mRunSequence>>
      /\ mpc' = IF going /\ mRunSequence' # mRunSequence THEN Notified ELSE mpc
      /\ todo' = [todo EXCEPT ![n] = @ \ {l}]
      /\ live' = live - IF inRel[l] THEN k ELSE 0
      /\ UNCHANGED <<given, resultVars, sourceVars, mRunningNodeNum,
                     mHasProcessError, mCurrentProcessNodes, mSinkNumToReturn,
                     inRel, usingQ, pc, ok, mInputFrameNum, sink>>

(* --mSinkNumToReturn is decremented under no lock: a read and a write that  *)
(* other node tasks may come between.  It is a uint32_t and only compared    *)
(* with 0, so a negative number stands for its wrapped value.                *)
SinkRead(n, l) ==
  /\ At(n, "links") /\ l \in todo[n] /\ IsSink(l)
  /\ sink' = [sink EXCEPT ![n] = <<l, mSinkNumToReturn>>]
  /\ Goto(n, "sinkWrite")
  /\ UNCHANGED <<notNode, queueVars, ok, mInputFrameNum, todo>>

SinkWrite(n) ==
  /\ At(n, "sinkWrite")
  /\ mSinkNumToReturn' = sink[n][2] - 1
  /\ Goto(n, "sinkRelease")
  /\ UNCHANGED <<queueVars, given, schedVars, resultVars, mpc,
                 mCurrentProcessNodes, ok, mInputFrameNum, todo, sink>>

(* Mutated form: off by one in the test for the last sink.                   *)
LastSink_early == mSinkNumToReturn <= 1

LastSink == mSinkNumToReturn = 0

(* The last image of the link is the last of the request if the counter says *)
(* so; it goes back with requesetComplete.                                   *)
SinkRelease(n) ==
  LET l == sink[n][1]
  IN  /\ At(n, "sinkRelease")
      /\ complete' = complete + IF LastSink /\ outQ[l] # <<>> THEN 1 ELSE 0
      /\ outQ' = [outQ EXCEPT ![l] = <<>>]
      /\ live' = live - Len(outQ[l])
      /\ todo' = [todo EXCEPT ![n] = @ \ {l}]
      /\ sink' = [sink EXCEPT ![n] = <<>>]
      /\ Goto(n, "links")
      /\ UNCHANGED <<mpc, given, schedVars, mCurrentProcessNodes,
                     mSinkNumToReturn, sourceVars, inQ, inRel, usingQ, ok,
                     mInputFrameNum, mIsCallExternal, abnormal>>

FrameEnds(n) ==
  /\ At(n, "links") /\ todo[n] = {} /\ n \in mCurrentProcessNodes
  /\ Goto(n, "input")
  /\ UNCHANGED <<notNode, queueVars, ok, mInputFrameNum, todo, sink>>

(* The end of notifyNextNode, under mLock.                                   *)
EndRequest(n, failed, main) ==
  /\ At(n, "links") /\ todo[n] = {} /\ n \notin mCurrentProcessNodes
  /\ mHasProcessError' = (mHasProcessError \/ failed)
  /\ mRunningNodeNum' = mRunningNodeNum - 1
  /\ mpc' = main
  /\ mInputFrameNum' = [mInputFrameNum EXCEPT ![n] = 0]
  /\ Goto(n, "done")
  /\ UNCHANGED <<given, queueVars, resultVars, mDependenceNum, mRunSequence,
                 mCurrentProcessNodes, mSinkNumToReturn, ok, todo, sink>>

(* Mutated forms: mCond is not notified; the failure is not recorded.        *)
NodeEnds_silent(n) == EndRequest(n, ~ok[n], mpc)
NodeEnds_forgetful(n) == EndRequest(n, FALSE, Notified)

NodeEnds(n) == EndRequest(n, ~ok[n], Notified)

NodeStep(n) ==
  \/ \E l \in Link : \/ getFrame(n, l) \/ getSourceImage(n, l)
                      \/ InputFails(n, l) \/ releaseOutBuffers(n, l)
                      \/ SinkRead(n, l)
  \/ getInputImage(n) \/ checkTaskEffectiveness(n) \/ getOutputImage(n)
  \/ OutputFails(n) \/ PluginReturns(n) \/ PluginFails(n)
  \/ FrameInput(n) \/ FrameOutput(n) \/ FrameEnds(n)
  \/ EraseCurrent(n) \/ AbnormalCallback(n) \/ ReleaseInputs(n)
  \/ SinkWrite(n) \/ SinkRelease(n) \/ NodeEnds(n)

-----------------------------------------------------------------------------
(* The camera and the session                                                *)

(* A released queue refuses the image and the session gives it back at once. *)
enqueueSourceImage(p) ==
  /\ fed[p] < NumFrames
  /\ fed' = [fed EXCEPT ![p] = @ + 1]
  /\ IF srcRel[p] THEN UNCHANGED <<srcQ, live>>
       ELSE /\ srcQ' = [srcQ EXCEPT ![p] = Append(@, [num |-> NumFrames, src |-> TRUE])]
            /\ live' = live + 1
  /\ UNCHANGED <<notSession, linkVars, mFlushStatus, srcRel, flushes, fpc>>

(* The session calls quickFinish only on a busy pipeline.                    *)
quickFinish ==
  /\ fpc = "none" /\ flushes # <<>> /\ mpc # "idle"
  /\ mFlushStatus' = Head(flushes)
  /\ releaseSourceQueues
  /\ flushes' = Tail(flushes)
  /\ fpc' = IF Head(flushes) = "ForcedFlush" THEN "nodes" ELSE "none"
  /\ UNCHANGED <<notSession, linkVars, srcQ, live, fed>>

(* Mutated form: nobody is woken.                                            *)
NodesReleased_none == inRel

(* The input queues after releaseQueue of the first one of each node that is *)
(* being processed.                                                          *)
NodesReleased ==
  [l \in Link |-> \/ inRel[l]
                 \/ \E n \in mCurrentProcessNodes : l = FirstOf(InLinks(n))]

(* Under mRecordProcessNodeLock: wake the nodes that wait for a frame.       *)
FlushNodes ==
  /\ fpc = "nodes" /\ mCurrentProcessNodes \cap Missing = {}
  /\ inRel' = NodesReleased
  /\ fpc' = "none"
  /\ UNCHANGED <<notSession, sourceVars, mFlushStatus, inQ, usingQ, outQ, live,
                 fed, flushes>>

(* A node without an object stays in mCurrentProcessNodes, since no task     *)
(* ever erases it: getProcessNode returns a null pointer and quickFinish is  *)
(* called through it.  The process dies; the threads may still take steps    *)
(* until it is gone.                                                         *)
FlushCrashes ==
  /\ fpc = "nodes" /\ mCurrentProcessNodes \cap Missing # {}
  /\ fpc' = "crashed"
  /\ UNCHANGED <<notSession, queueVars, mFlushStatus, fed, flushes>>

(* Nothing is left to do: the request is over and the camera has stopped, or *)
(* the process is dead.                                                      *)
Terminated ==
  /\ (mpc = "idle" /\ fpc = "none") \/ fpc = "crashed"
  /\ UNCHANGED vars

Next ==
  \/ MainStep \/ SpuriousWakeup
  \/ \E n \in Node : NodeStep(n)
  \/ \E p \in SourcePort : enqueueSourceImage(p)
  \/ quickFinish \/ FlushNodes \/ FlushCrashes
  \/ Terminated

Spec == Init /\ [][Next]_vars

(* Threads are scheduled, plugins return, and a quickFinish that has begun   *)
(* goes on.  Nothing obliges the camera to deliver an image, the session to  *)
(* call quickFinish or mCond to wake up spuriously.                          *)
Fairness ==
  /\ WF_vars(MainStep)
  /\ \A n \in Node : WF_vars(NodeStep(n))
  /\ WF_vars(FlushNodes \/ FlushCrashes)
FairSpec == Spec /\ Fairness

-----------------------------------------------------------------------------
(* What the code asks of the graphs without testing it.                      *)

(* Every node has an output link, of which releaseOutputAndTryNotifyNextNode *)
(* takes the first; a virtual node takes frame by frame, since it does not   *)
(* look at what getInputBuffer returns for a whole set; and a node that      *)
(* follows its input has one input and one output, on ports of the same id,  *)
(* since countDynamicOutBufferNum gives it no output otherwise.              *)
Flows(g) ==
  /\ \A l \in g.links : ~IsSink(l) => \E k \in g.links : k[1] = l[2]
  /\ \A n \in Node : "VIRTUAL" \in g.mask[n] => "SIGFRAME" \in g.mask[n]
  /\ \A n \in Node : "FOLLOWINPUT" \in g.mask[n] =>
       /\ Cardinality({l \in g.links : l[2] = n}) = 1
       /\ Cardinality({l \in g.links : l[1] = n}) = 1
       /\ "OTHERPORT" \notin g.mask[n]
GraphsFlow == \A g \in Graphs : Flows(g)

(* Who gets its inputs handed on by an in-place or virtual node takes them   *)
(* as a whole: a queue that is released meanwhile would refuse some.         *)
PassesWholeSets(g) ==
  \A l \in g.links \cap (Node \X Node) :
    g.mask[l[1]] \cap {"INPLACE", "VIRTUAL"} # {} => "SIGFRAME" \notin g.mask[l[2]]
GraphsPassWholeSets == \A g \in Graphs : PassesWholeSets(g)

(* No cycle, no node without inputs or without an object; and one node       *)
(* before all sinks, which releases them at its end: the counter of the sink *)
(* links is decremented under no lock, and once per release.                 *)
Acyclic(g) ==
  \A S \in SUBSET Node : S # {} =>
    \E n \in S : \A l \in g.links : l[2] = n => l[1] \notin S
ServesAll(g) == \A l \in g.links : l[1] \in Node => l[1] \in Consumers(g) \ Missing
EndsInOneNode(g) ==
  \E n \in Node :
    /\ \E l \in g.links : IsSink(l)
    /\ \A l \in g.links : IsSink(l) => l[1] = n
    /\ "VIRTUAL" \notin g.mask[n]
    /\ ~({"SIGFRAME", "SIGRELEASEOUTPUT"} \subseteq g.mask[n])
Completes(g) == Acyclic(g) /\ ServesAll(g) /\ EndsInOneNode(g)
GraphsComplete == \A g \in Graphs : Completes(g)

-----------------------------------------------------------------------------
MainState == {"start", "rebuild", "loop", "dispatch", "count", Waiting, "awake",
              "release", "move", "idle"}
NodeState == {"none", "input", "check", "output", "plugin", "frameIn",
              "frameOut", "erase", "abnormal", "release", "links", "sinkWrite",
              "sinkRelease", "done"}
Active(n) == pc[n] \notin {"none", "done"}

(* Every variable has a value of its type; mSinkNumToReturn and the          *)
(* dependence counts may fall below zero, `live' and the callbacks may not.  *)
TypeOK ==
  /\ mpc \in MainState
  /\ mpc \in {"dispatch", "count"} => serving \in Node
  /\ graph \in Graphs \cup {NoGraph}
  /\ mDependenceNum \in [Node -> Int]
  /\ mRunSequence \in Seq(Node)
  /\ mRunningNodeNum \in Int
  /\ mHasProcessError \in BOOLEAN /\ mIsCallExternal \in BOOLEAN
  /\ mCurrentProcessNodes \subseteq Node
  /\ mSinkNumToReturn \in Int
  /\ mFlushStatus \in FlushStatus
  /\ srcQ \in [SourcePort -> Seq(Image)] /\ srcRel \in [SourcePort -> BOOLEAN]
  /\ {inQ, usingQ, outQ} \subseteq [Link -> Seq(Image)]
  /\ inRel \in [Link -> BOOLEAN]
  /\ pc \in [Node -> NodeState] /\ ok \in [Node -> BOOLEAN]
  /\ mInputFrameNum \in [Node -> Nat]
  /\ todo \in [Node -> SUBSET Link]
  /\ sink \in [Node -> {<<>>} \cup (Link \X Int)]
  /\ fed \in [SourcePort -> 0 .. NumFrames]
  /\ flushes \in Seq(FlushStatus) /\ fpc \in {"none", "nodes", "crashed"}
  /\ abnormal \in 0 .. 1 /\ complete \in Nat
  /\ live \in Nat

(* The main thread gives all buffers back and hands the pipeline to the idle *)
(* queue (MiaPipeline.cpp:192) only when no node task is still inside it,    *)
(* whatever order tasks start, end, fail and are counted in.                 *)
IdleMeansQuiet ==
  mpc \in {"release", "move", "idle"} =>
    /\ \A n \in Node : ~Active(n)
    /\ mCurrentProcessNodes \subseteq Missing

(* Every image that entered the pipeline has been given back to its owner    *)
(* when the pipeline is idle, including those delivered while it ended.      *)
ImagesReturned ==
  mpc = "idle" => live = 0

(* A node asks for its outputs only when it has an image on every input      *)
(* link: getOutputImage takes its parameters from the first of them.         *)
InputsReady ==
  \A n \in Node : pc[n] = "output" =>
    \A l \in InLinks(n) : usingQ[l] # <<>>

(* An image sent with requesetComplete is the last sink image of the request *)
(* (MiaPipeline.cpp:644): no sink link has or will have another one.  A      *)
(* request that ran without failure has sent exactly one when it is idle.    *)
CompletionIsLast ==
  /\ complete > 0 => \A l \in {k \in graph.links : IsSink(k)} :
       /\ outQ[l] = <<>>
       /\ pc[l[1]] \in {"links", "sinkWrite", "sinkRelease", "done"}
       /\ l[1] \notin mCurrentProcessNodes
  /\ mpc = "idle" /\ graph # NoGraph /\ ~TopologyError(graph) /\ ~mHasProcessError
       => complete = 1

(* However many nodes fail, and in whatever order they report and end, the   *)
(* application is told once, and only if a failure was recorded              *)
(* (MiaPipeline.cpp:784).                                                    *)
FailureReported ==
  mpc = "idle" /\ graph # NoGraph =>
    abnormal = IF mHasProcessError THEN 1 ELSE 0

(* A node is dispatched at most once per request, and only when its parents  *)
(* have delivered: at least one frame for a frame-by-frame node, everything  *)
(* for another one (MiaPipeline.cpp:821, 852, 884 all push ready nodes).     *)
DispatchedWhenReady ==
  [][\A n \in Node : ~Active(n) /\ pc'[n] = "input" =>
       /\ pc[n] = "none"
       /\ \A l \in InternalInputs(graph, n) :
            IF SigFrame(n) THEN inQ[l] # <<>>
                           ELSE l \notin todo[l[1]] /\ pc[l[1]] \in
                                {"links", "sinkWrite", "sinkRelease", "done"}]_vars

(* A request that is flushed or expedited reaches the idle queue even if the *)
(* camera sends nothing more: no node waits for an image for ever.  A forced *)
(* flush that meets a node without an object ends the process instead        *)
(* (MiaPipeline.cpp:758).                                                    *)
QuickFinishEnds ==
  (mFlushStatus # "NoFlush") ~> (mpc = "idle" \/ fpc = "crashed")

(* A request whose images have all come ends without being flushed, failures *)
(* or not, although notifyNextNode pushes a ready child without waking the   *)
(* main thread and a task may end before it is counted (MiaPipeline.cpp:185).*)
RequestEnds == (\A p \in SourcePort : fed[p] = NumFrames) ~> (mpc = "idle")

=============================================================================
