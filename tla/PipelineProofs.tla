--------------------------- MODULE PipelineProofs ---------------------------
(***************************************************************************)
(* TLAPS proofs about Pipeline, for every set of nodes and ports, every    *)
(* set of graphs, every choice of missing nodes and every sequence of      *)
(* quickFinish calls.  IInv is an inductive invariant about the main       *)
(* thread and the tasks (no task is inside the pipeline when it is given   *)
(* up, no node starts twice, a failure is reported exactly once), FlowInv  *)
(* one about the images on their way (nobody starts or asks for outputs    *)
(* without its inputs).  On FlowInv rest OverInv with LiveInv, about the   *)
(* references to the images (all of them are given back), and LastInv,     *)
(* about the sinks (exactly one image goes back as the last one).          *)
(***************************************************************************)
EXTENDS Pipeline, DistinctSequences, FiniteSetTheorems

(* ------------------------- the inductive invariant ---------------------- *)

(* The types of what the main thread and the node tasks share.               *)
TypeInv ==
  /\ mpc \in MainState
  /\ mpc \in {"dispatch", "count"} => serving \in Node
  /\ graph \in Graphs \cup {NoGraph}
  /\ mDependenceNum \in [Node -> Int]
  /\ mRunSequence \in Seq(Node)
  /\ mRunningNodeNum \in Int
  /\ mHasProcessError \in BOOLEAN /\ mIsCallExternal \in BOOLEAN
  /\ pc \in [Node -> NodeState] /\ ok \in [Node -> BOOLEAN]
  /\ abnormal \in Int

(* The nodes whose task is inside the pipeline.                              *)
ActiveSet == {n \in Node : Active(n)}

(* A ready node waits in mRunSequence once, has no inputs to wait for, and   *)
(* has never been started; the one being dispatched has left the sequence.   *)
DispatchInv ==
  /\ Distinct(mRunSequence)
  /\ \A n \in Elems(mRunSequence) : mDependenceNum[n] <= 0 /\ pc[n] = "none"
  /\ mpc = "dispatch" => /\ serving \notin Elems(mRunSequence)
                         /\ mDependenceNum[serving] <= 0 /\ pc[serving] = "none"
                         /\ serving \in mCurrentProcessNodes
  /\ \A n \in Node : pc[n] # "none" => mDependenceNum[n] <= 0

(* Before pruning nothing has happened; a node needs a graph.                *)
FreshInv ==
  /\ graph = NoGraph => /\ mRunSequence = <<>> /\ mRunningNodeNum = 0
                        /\ mCurrentProcessNodes = {}
                        /\ \A n \in Node : pc[n] = "none"
                        /\ ~mIsCallExternal /\ ~mHasProcessError
                        /\ mpc \notin {"loop", "dispatch", "count", Waiting, "awake"}
  /\ mpc \in {"start", "rebuild"} => graph = NoGraph /\ abnormal = 0

(* mRunningNodeNum is the number of tasks, except that the main thread has   *)
(* yet to count the one it has just started.                                 *)
Uncounted == IF mpc = "count" /\ serving \notin Missing THEN 1 ELSE 0
CountInv == mRunningNodeNum = Cardinality(ActiveSet) - Uncounted

(* The main thread leaves its loop only when nothing runs.                   *)
LoopInv ==
  mpc \in {"release", "move", "idle"} \/ (mpc = "loop" /\ mRunSequence = <<>>)
    => mRunningNodeNum = 0

(* mCurrentProcessNodes against the state of the tasks.                      *)
ProcessInv ==
  /\ \A n \in mCurrentProcessNodes :
       Active(n) \/ n \in Missing \/ (mpc = "dispatch" /\ n = serving)
  /\ mCurrentProcessNodes \subseteq Node
  /\ \A n \in Node :
       /\ pc[n] \in {"input", "check", "output", "plugin", "frameIn", "frameOut",
                     "erase"} => n \in mCurrentProcessNodes
       /\ pc[n] \in {"abnormal", "release", "done"} =>
            n \notin mCurrentProcessNodes

(* A task that has failed and reported it, on its way to the end.            *)
Reported(n) ==
  /\ pc[n] \in {"links", "sinkWrite", "sinkRelease"}
  /\ n \notin mCurrentProcessNodes /\ ~ok[n]

(* Whoever calls back is on its way to record the failure.                   *)
ReportInv ==
  /\ \A n \in Node : /\ pc[n] = "abnormal" => ~ok[n]
                     /\ pc[n] = "release" => ok[n]
                     /\ Reported(n) => mIsCallExternal
  /\ mHasProcessError => mIsCallExternal
  /\ mIsCallExternal => mHasProcessError \/ \E n \in Node : Reported(n)
  /\ graph # NoGraph => abnormal = IF mIsCallExternal THEN 1 ELSE 0

IInv == /\ TypeInv /\ DispatchInv /\ FreshInv /\ CountInv /\ LoopInv
        /\ ProcessInv /\ ReportInv

(* -------------------------- what one step does -------------------------- *)

(* What the invariant is about; the camera and the session leave it alone.   *)
seen == <<mpc, serving, graph, mDependenceNum, mRunSequence, mRunningNodeNum,
          mHasProcessError, mCurrentProcessNodes, pc, ok, mIsCallExternal,
          abnormal>>

(* The tasks before and after notifyNextNode has taken the node out of       *)
(* mCurrentProcessNodes ("links" may be either, for a frame-by-frame node).  *)
Early == {"input", "check", "output", "plugin", "frameIn", "frameOut", "erase"}
Late == {"links", "sinkWrite", "sinkRelease"}
Goes(n, From, To) ==
  pc[n] \in From /\ pc'[n] \in To /\ pc' = [pc EXCEPT ![n] = pc'[n]]

(* A node task before it ends its request: it may fail.                      *)
Works(n) ==
  /\ Goes(n, Early, Early)
  /\ ok' \in [Node -> BOOLEAN] /\ \A m \in Node \ {n} : ok'[m] = ok[m]
  /\ UNCHANGED <<mRunningNodeNum, mHasProcessError, mCurrentProcessNodes,
                 mIsCallExternal, abnormal>>

(* It hands its images on, or comes back for the next frame.                 *)
Passes(n) ==
  /\ \/ Goes(n, Late \cup {"frameOut", "release"}, Late)
     \/ Goes(n, {"links"}, {"input"}) /\ n \in mCurrentProcessNodes
  /\ UNCHANGED <<mRunningNodeNum, mHasProcessError, mCurrentProcessNodes,
                 mIsCallExternal, abnormal, ok>>

(* Some children have got an input.                                          *)
Notifies(S) ==
  /\ mDependenceNum' = [m \in Node |-> mDependenceNum[m] - IF m \in S THEN 1 ELSE 0]
  /\ mRunSequence' = mRunSequence \o SetToSeq({m \in S : mDependenceNum[m] = 1})
Schedules ==
  \/ UNCHANGED <<mDependenceNum, mRunSequence>>
  \/ \E S \in SUBSET Node : Notifies(S)

NodeMove(n) ==
  /\ Active(n) /\ graph \in Graphs
  /\ UNCHANGED <<serving, graph>>
  /\ Schedules
  /\ mpc' \in {mpc, Notified}
  /\ \/ Works(n) \/ Passes(n)
     \/ EraseCurrent(n) \/ AbnormalCallback(n) \/ NodeEnds(n)

(* ------------------------------- the lemmas ------------------------------ *)

\* The sequence made of a finite set has its elements, each once.
LEMMA SetToSeqDistinct ==
  ASSUME NEW S, IsFiniteSet(S)
  PROVE  SetToSeq(S) \in Seq(S) /\ Distinct(SetToSeq(S)) /\ Elems(SetToSeq(S)) \subseteq S
<1> DEFINE D == 1 .. Cardinality(S)
<1>1. Cardinality(S) \in Nat /\ ExistsBijection(D, S)
  BY FS_CardinalityType
<1>2. \E f \in [D -> S] : IsInjective(f)
  BY <1>1, Zenon DEF ExistsBijection, Bijection, Injection
<1>3. SetToSeq(S) \in [D -> S] /\ IsInjective(SetToSeq(S))
  BY <1>2, Zenon DEF SetToSeq
<1>4. SetToSeq(S) \in Seq(S) /\ Len(SetToSeq(S)) = Cardinality(S)
  BY <1>1, <1>3
<1>5. QED
  BY <1>1, <1>3, <1>4 DEF Distinct, Elems, IsInjective

\* A graph has finitely many links, and those that lead to no sink lead to a node.
LEMMA LinksOfAGraph ==
  ASSUME NEW g \in Graphs
  PROVE  /\ IsFiniteSet(g.links)
         /\ \A l \in g.links : ~IsSink(l) => l[2] \in Node
<1>1. /\ IsFiniteSet(SourcePort \X Node) /\ IsFiniteSet(Node \X Node)
      /\ IsFiniteSet(Node \X SinkPort)
  BY PipelineAssumption, FS_Product
<1>2. IsFiniteSet((SourcePort \X Node) \cup (Node \X Node))
  BY <1>1, FS_Union
<1>3. IsFiniteSet((SourcePort \X Node) \cup (Node \X Node) \cup (Node \X SinkPort))
  BY <1>1, <1>2, FS_Union
<1>4. g.links \subseteq (SourcePort \X Node) \cup (Node \X Node) \cup (Node \X SinkPort)
  BY PipelineAssumption
<1>5. IsFiniteSet(g.links)
  BY <1>3, <1>4, FS_Subset
<1>6. QED
  BY <1>4, <1>5 DEF IsSink

\* The nodes that start a request are nodes that wait for no other node.
LEMMA FirstNodes ==
  ASSUME NEW g \in Graphs
  PROVE  /\ [n \in Node |-> Cardinality(InternalInputs(g, n))] \in [Node -> Int]
         /\ LET first == {n \in SourceNodes(g) : InternalInputs(g, n) = {}}
            IN  /\ IsFiniteSet(first) /\ first \subseteq Node
                /\ \A n \in first : Cardinality(InternalInputs(g, n)) = 0
<1> DEFINE first == {n \in SourceNodes(g) : InternalInputs(g, n) = {}}
<1>1. \A n \in Node : Cardinality(InternalInputs(g, n)) \in Int
  <2> TAKE n \in Node
  <2>1. InternalInputs(g, n) \subseteq g.links
    BY DEF InternalInputs
  <2>2. IsFiniteSet(InternalInputs(g, n))
    BY <2>1, LinksOfAGraph, FS_Subset
  <2>3. QED
    BY <2>2, FS_CardinalityType
<1>2. ASSUME NEW l \in g.links, IsSource(l) PROVE l[2] \in Node
  BY <1>2, PipelineAssumption DEF IsSource
<1>3. first \subseteq Node
  BY <1>2 DEF SourceNodes
<1>4. IsFiniteSet(first)
  BY <1>3, PipelineAssumption, FS_Subset
<1>5. \A n \in first : Cardinality(InternalInputs(g, n)) = 0
  BY FS_EmptySet
<1>6. QED
  BY <1>1, <1>3, <1>4, <1>5

\* A link of any graph that leads to no sink leads to a node.
LEMMA LinksLead == ASSUME NEW l \in Link, ~IsSink(l) PROVE l[2] \in Node
<1>1. PICK g \in Graphs : l \in g.links
  BY DEF Link
<1>2. QED
  BY <1>1, LinksOfAGraph

\* NotifyChildren tells nodes.
LEMMA ChildrenAreNodes ==
  ASSUME NEW L, \A l \in L : l[2] \in Node, NotifyChildren(L)
  PROVE  Schedules
<1> DEFINE S == {l[2] : l \in L}
<1>1. S \in SUBSET Node
  OBVIOUS
<1>2. CASE mHasProcessError
  BY <1>2 DEF NotifyChildren, Schedules
<1>3. CASE ~mHasProcessError
  <2>1. Notifies(S)
    BY <1>3 DEF NotifyChildren, Notifies
  <2>2. QED
    BY <1>1, <2>1 DEF Schedules
<1>4. QED
  BY <1>2, <1>3

\* What a change of the schedule does: ready nodes are new, and none comes twice.
LEMMA ScheduleStep ==
  ASSUME TypeInv, DispatchInv, Schedules
  PROVE  /\ mRunSequence' \in Seq(Node) /\ mDependenceNum' \in [Node -> Int]
         /\ Distinct(mRunSequence')
         /\ \A m \in Node : mDependenceNum'[m] <= mDependenceNum[m]
         /\ Elems(mRunSequence') \subseteq Node
         /\ \A m \in Elems(mRunSequence') : m \in Elems(mRunSequence) \/ mDependenceNum[m] = 1
         /\ \A m \in Elems(mRunSequence') : mDependenceNum'[m] <= 0
         /\ mRunSequence' = <<>> => mRunSequence = <<>>
<1>0. mRunSequence \in Seq(Node) /\ mDependenceNum \in [Node -> Int] /\ Distinct(mRunSequence)
  BY DEF TypeInv, DispatchInv
<1>1. Elems(mRunSequence) \subseteq Node
  BY <1>0 DEF Elems
<1>2. \A m \in Elems(mRunSequence) : mDependenceNum[m] <= 0
  BY DEF DispatchInv
<1>3. CASE UNCHANGED <<mDependenceNum, mRunSequence>>
  BY <1>0, <1>1, <1>2, <1>3
<1>4. ASSUME NEW S \in SUBSET Node, Notifies(S)
      PROVE  /\ mRunSequence' \in Seq(Node) /\ mDependenceNum' \in [Node -> Int]
             /\ Distinct(mRunSequence')
             /\ \A m \in Node : mDependenceNum'[m] <= mDependenceNum[m]
             /\ Elems(mRunSequence') \subseteq Node
             /\ \A m \in Elems(mRunSequence') : m \in Elems(mRunSequence) \/ mDependenceNum[m] = 1
             /\ \A m \in Elems(mRunSequence') : mDependenceNum'[m] <= 0
             /\ mRunSequence' = <<>> => mRunSequence = <<>>
  <2> DEFINE ready == {m \in S : mDependenceNum[m] = 1}
             new == SetToSeq(ready)
  <2>1. /\ mDependenceNum' = [m \in Node |-> mDependenceNum[m] - IF m \in S THEN 1 ELSE 0]
        /\ mRunSequence' = mRunSequence \o new
    BY <1>4 DEF Notifies
  <2>2. IsFiniteSet(ready)
    <3>1. ready \in SUBSET Node
      OBVIOUS
    <3>2. QED
      BY <3>1, PipelineAssumption, FS_Subset
  <2>3. new \in Seq(ready) /\ Distinct(new) /\ Elems(new) \subseteq ready
    BY <2>2, SetToSeqDistinct
  <2>4. Elems(mRunSequence) \cap Elems(new) = {}
    BY <1>2, <2>3
  <2> HIDE DEF new
  <2>5. new \in Seq(Node)
    BY <2>3
  <2>6. /\ mRunSequence \o new \in Seq(Node) /\ Distinct(mRunSequence \o new)
        /\ Elems(mRunSequence \o new) = Elems(mRunSequence) \cup Elems(new)
        /\ Len(mRunSequence \o new) = Len(mRunSequence) + Len(new)
    BY <1>0, <2>3, <2>4, <2>5, ConcatDistinct
  <2>7. mDependenceNum' \in [Node -> Int] /\ \A m \in Node : mDependenceNum'[m] <= mDependenceNum[m]
    BY <1>0, <2>1
  <2>8. \A m \in Elems(mRunSequence') : m \in Elems(mRunSequence) \/ m \in ready
    BY <2>1, <2>3, <2>6
  <2>9. \A m \in Elems(mRunSequence') : mDependenceNum'[m] <= 0
    BY <1>0, <1>1, <1>2, <2>1, <2>8
  <2>10. mRunSequence' = <<>> => mRunSequence = <<>>
    BY <1>0, <2>1, <2>5, <2>6
  <2>11. QED
    BY <1>1, <2>1, <2>6, <2>7, <2>8, <2>9, <2>10
<1>5. QED
  BY <1>3, <1>4 DEF Schedules

\* Every step of a node task is a NodeMove.
LEMMA NodeMoves ==
  ASSUME TypeInv, FreshInv, NEW n \in Node, NodeStep(n)
  PROVE  NodeMove(n)
<1> USE DEF At, Goto, Fail, Goes, notNode, given, schedVars, clientVars, resultVars
<1>0. pc \in [Node -> NodeState] /\ ok \in [Node -> BOOLEAN]
  BY DEF TypeInv
<1>1. ASSUME Active(n) PROVE graph \in Graphs
  BY <1>1 DEF FreshInv, TypeInv, Active
<1>2. ASSUME UNCHANGED notNode
      PROVE  /\ UNCHANGED <<serving, graph>> /\ Schedules /\ mpc' \in {mpc, Notified}
             /\ UNCHANGED <<mRunningNodeNum, mHasProcessError, mCurrentProcessNodes,
                            mIsCallExternal, abnormal>>
  BY <1>2 DEF Schedules
<1>3. ASSUME UNCHANGED pc PROVE pc' = [pc EXCEPT ![n] = pc'[n]]
  BY <1>0, <1>3
<1>4. ASSUME NEW l \in Link, getFrame(n, l) PROVE NodeMove(n)
  <2>1. Active(n) /\ UNCHANGED notNode
    BY <1>4 DEF getFrame, Active
  <2>2. Works(n)
    BY <1>0, <1>2, <1>4, <2>1 DEF getFrame, AfterFrame, Take, Works, Passes, Early, Late
  <2>3. QED
    BY <1>1, <1>2, <2>1, <2>2 DEF NodeMove
<1>5. ASSUME NEW l \in Link, getSourceImage(n, l) PROVE NodeMove(n)
  <2>1. Active(n) /\ UNCHANGED notNode
    BY <1>5 DEF getSourceImage, Active
  <2>2. Works(n)
    BY <1>0, <1>2, <1>5, <2>1, <1>3 DEF getSourceImage, Take, Works, Passes, Early, Late
  <2>3. QED
    BY <1>1, <1>2, <2>1, <2>2 DEF NodeMove
<1>6. ASSUME NEW l \in Link, InputFails(n, l) PROVE NodeMove(n)
  <2>1. Active(n) /\ UNCHANGED notNode
    BY <1>6 DEF InputFails, Active, InputEnded
  <2>2. Works(n)
    BY <1>0, <1>2, <1>6, <2>1 DEF InputFails, InputEnded, Works, Passes, Early, Late
  <2>3. QED
    BY <1>1, <1>2, <2>1, <2>2 DEF NodeMove
<1>7. ASSUME NEW l \in Link, SinkRead(n, l) PROVE NodeMove(n)
  <2>1. Active(n) /\ UNCHANGED notNode
    BY <1>7 DEF SinkRead, Active
  <2>2. Passes(n)
    BY <1>0, <1>2, <1>7, <2>1 DEF SinkRead, Works, Passes, Early, Late
  <2>3. QED
    BY <1>1, <1>2, <2>1, <2>2 DEF NodeMove
<1>8. ASSUME getInputImage(n) PROVE NodeMove(n)
  <2>1. Active(n) /\ UNCHANGED notNode
    BY <1>8 DEF getInputImage, Active
  <2>2. Works(n)
    BY <1>0, <1>2, <1>8, <2>1 DEF getInputImage, Works, Passes, Early, Late
  <2>3. QED
    BY <1>1, <1>2, <2>1, <2>2 DEF NodeMove
<1>9. ASSUME checkTaskEffectiveness(n) PROVE NodeMove(n)
  <2>1. Active(n) /\ UNCHANGED notNode
    BY <1>9 DEF checkTaskEffectiveness, Active
  <2>2. Works(n)
    BY <1>0, <1>2, <1>9, <2>1 DEF checkTaskEffectiveness, Works, Passes, Early, Late
  <2>3. QED
    BY <1>1, <1>2, <2>1, <2>2 DEF NodeMove
<1>10. ASSUME getOutputImage(n) PROVE NodeMove(n)
  <2>1. Active(n) /\ UNCHANGED notNode
    BY <1>10 DEF getOutputImage, Active
  <2>2. Works(n)
    BY <1>0, <1>2, <1>10, <2>1 DEF getOutputImage, Works, Passes, Early, Late
  <2>3. QED
    BY <1>1, <1>2, <2>1, <2>2 DEF NodeMove
<1>11. ASSUME OutputFails(n) PROVE NodeMove(n)
  <2>1. Active(n) /\ UNCHANGED notNode
    BY <1>11 DEF OutputFails, Active
  <2>2. Works(n)
    BY <1>0, <1>2, <1>11, <2>1 DEF OutputFails, Works, Passes, Early, Late
  <2>3. QED
    BY <1>1, <1>2, <2>1, <2>2 DEF NodeMove
<1>12. ASSUME PluginReturns(n) PROVE NodeMove(n)
  <2>1. Active(n) /\ UNCHANGED notNode
    BY <1>12 DEF PluginReturns, Active
  <2>2. Works(n)
    BY <1>0, <1>2, <1>12, <2>1 DEF PluginReturns, Works, Passes, Early, Late
  <2>3. QED
    BY <1>1, <1>2, <2>1, <2>2 DEF NodeMove
<1>13. ASSUME PluginFails(n) PROVE NodeMove(n)
  <2>1. Active(n) /\ UNCHANGED notNode
    BY <1>13 DEF PluginFails, Active
  <2>2. Works(n)
    BY <1>0, <1>2, <1>13, <2>1 DEF PluginFails, Works, Passes, Early, Late
  <2>3. QED
    BY <1>1, <1>2, <2>1, <2>2 DEF NodeMove
<1>14. ASSUME FrameOutput(n) PROVE NodeMove(n)
  <2>1. Active(n) /\ UNCHANGED notNode
    BY <1>14 DEF FrameOutput, Active
  <2>2. Works(n) \/ Passes(n)
    BY <1>0, <1>2, <1>14, <2>1 DEF FrameOutput, Works, Passes, Early, Late
  <2>3. QED
    BY <1>1, <1>2, <2>1, <2>2 DEF NodeMove
<1>15. ASSUME FrameEnds(n) PROVE NodeMove(n)
  <2>1. Active(n) /\ UNCHANGED notNode
    BY <1>15 DEF FrameEnds, Active
  <2>2. Passes(n)
    BY <1>0, <1>2, <1>15, <2>1 DEF FrameEnds, Works, Passes, Early, Late
  <2>3. QED
    BY <1>1, <1>2, <2>1, <2>2 DEF NodeMove
<1>16. ASSUME ReleaseInputs(n) PROVE NodeMove(n)
  <2>1. Active(n) /\ UNCHANGED notNode
    BY <1>16 DEF ReleaseInputs, Active
  <2>2. Passes(n)
    BY <1>0, <1>2, <1>16, <2>1 DEF ReleaseInputs, Works, Passes, Early, Late
  <2>3. QED
    BY <1>1, <1>2, <2>1, <2>2 DEF NodeMove
<1>17. ASSUME NEW l \in Link, releaseOutBuffers(n, l) PROVE NodeMove(n)
  <2>1. Active(n) /\ Passes(n) /\ UNCHANGED <<serving, graph>> /\ mpc' \in {mpc, Notified}
    BY <1>0, <1>3, <1>17 DEF releaseOutBuffers, Active, Passes, Late
  <2>2. Schedules
    <3>1. ~IsSink(l) /\ (NotifyChildren({l}) \/ UNCHANGED <<mDependenceNum, mRunSequence>>)
      BY <1>17 DEF releaseOutBuffers
    <3>2. \A x \in {l} : x[2] \in Node
      BY <3>1, LinksLead
    <3>3. QED
      BY <3>1, <3>2, ChildrenAreNodes DEF Schedules
  <2>3. QED
    BY <1>1, <2>1, <2>2 DEF NodeMove
<1>18. ASSUME FrameInput(n) PROVE NodeMove(n)
  <2>1. Active(n) /\ Works(n) /\ UNCHANGED <<serving, graph>> /\ mpc' \in {mpc, Notified}
    BY <1>0, <1>18 DEF FrameInput, Active, Works, Early
  <2>2. Schedules
    <3> DEFINE L == SigFrameChildren(OutLinks(n))
    <3>1. NotifyChildren(L) \/ UNCHANGED <<mDependenceNum, mRunSequence>>
      BY <1>18 DEF FrameInput
    <3>2. \A x \in L : x[2] \in Node
      BY <1>1, <2>1, LinksOfAGraph DEF SigFrameChildren, OutLinks
    <3> HIDE DEF L
    <3>3. QED
      BY <3>1, <3>2, ChildrenAreNodes DEF Schedules
  <2>3. QED
    BY <1>1, <2>1, <2>2 DEF NodeMove
<1>19. ASSUME SinkWrite(n) PROVE NodeMove(n)
  <2>1. Active(n) /\ UNCHANGED <<serving, graph>> /\ mpc' = mpc /\ Schedules
    BY <1>19 DEF SinkWrite, Active, Schedules
  <2>2. Passes(n)
    BY <1>0, <1>19 DEF SinkWrite, Passes, Late
  <2>3. QED
    BY <1>1, <2>1, <2>2 DEF NodeMove
<1>20. ASSUME SinkRelease(n) PROVE NodeMove(n)
  <2>1. Active(n) /\ UNCHANGED <<serving, graph>> /\ mpc' = mpc /\ Schedules
    BY <1>20 DEF SinkRelease, Active, Schedules
  <2>2. Passes(n)
    BY <1>0, <1>20 DEF SinkRelease, Passes, Late
  <2>3. QED
    BY <1>1, <2>1, <2>2 DEF NodeMove
<1>21. ASSUME EraseCurrent(n) PROVE NodeMove(n)
  <2>1. Active(n) /\ UNCHANGED <<serving, graph>> /\ mpc' \in {mpc, Notified} /\ Schedules
    BY <1>21 DEF EraseCurrent, Active, Schedules
  <2>2. QED
    BY <1>1, <1>21, <2>1 DEF NodeMove
<1>22. ASSUME AbnormalCallback(n) PROVE NodeMove(n)
  <2>1. Active(n) /\ UNCHANGED <<serving, graph>> /\ mpc' \in {mpc, Notified} /\ Schedules
    BY <1>22 DEF AbnormalCallback, Active, Schedules
  <2>2. QED
    BY <1>1, <1>22, <2>1 DEF NodeMove
<1>23. ASSUME NodeEnds(n) PROVE NodeMove(n)
  <2>1. Active(n) /\ UNCHANGED <<serving, graph>> /\ mpc' \in {mpc, Notified} /\ Schedules
    BY <1>23 DEF NodeEnds, EndRequest, Active, Schedules
  <2>2. QED
    BY <1>1, <1>23, <2>1 DEF NodeMove
<1> HIDE DEF At, Goto, Fail, Goes, notNode, given, schedVars, clientVars, resultVars
<1>24. QED
  BY <1>4, <1>5, <1>6, <1>7, <1>8, <1>9, <1>10, <1>11, <1>12, <1>13, <1>14, <1>15, <1>16,
     <1>17, <1>18, <1>19, <1>20, <1>21, <1>22, <1>23 DEF NodeStep

\* Steps of the camera, the session and nobody leave alone what the invariant is about.
LEMMA OtherSteps ==
  ASSUME [Next]_vars, ~MainStep, ~SpuriousWakeup, \A n \in Node : ~NodeStep(n)
  PROVE  UNCHANGED seen
<1> USE DEF seen, mainVars, schedVars, nodeVars, resultVars
<1>1. ASSUME NEW p \in SourcePort, enqueueSourceImage(p) PROVE UNCHANGED seen
  BY <1>1 DEF enqueueSourceImage, notSession
<1>2. CASE quickFinish
  BY <1>2 DEF quickFinish, notSession
<1>3. CASE FlushNodes \/ FlushCrashes
  BY <1>3 DEF FlushNodes, FlushCrashes, notSession
<1>4. CASE UNCHANGED vars
  BY <1>4 DEF vars, notMain
<1>5. CASE Terminated
  BY <1>4, <1>5 DEF Terminated
<1> HIDE DEF seen, mainVars, schedVars, nodeVars, resultVars
<1>6. QED
  BY <1>1, <1>2, <1>3, <1>4, <1>5 DEF Next

\* The types are kept.
LEMMA TypeStep ==
  ASSUME IInv, [Next]_vars
  PROVE  TypeInv'
<1> USE DEF notMain, given, schedVars, nodeVars, clientVars, resultVars, IInv, TypeInv,
            MainState, NodeState, Waiting
<1>1. ASSUME Start PROVE TypeInv'
  BY <1>1 DEF Start
<1>2. ASSUME RebuildFails PROVE TypeInv'
  BY <1>2 DEF RebuildFails
<1>3. ASSUME NEW g \in Graphs, rebuildLinks(g) PROVE TypeInv'
  <2> DEFINE first == {n \in SourceNodes(g) : InternalInputs(g, n) = {}}
  <2>1. mDependenceNum' \in [Node -> Int]
    BY <1>3, FirstNodes DEF rebuildLinks
  <2>2. mRunSequence' \in Seq(Node)
    <3>0. IsFiniteSet(first) /\ first \subseteq Node
      BY FirstNodes
    <3> HIDE DEF first
    <3>1. SetToSeq(first) \in Seq(Node)
      <4>1. SetToSeq(first) \in Seq(first)
        BY <3>0, SetToSeqDistinct
      <4>2. QED
        BY <3>0, <4>1
    <3> USE DEF first
    <3>2. QED
      BY <1>3, <3>1 DEF rebuildLinks
  <2>3. QED
    BY <1>3, <2>1, <2>2 DEF rebuildLinks, MainState
<1>4. ASSUME PopNode PROVE TypeInv'
  <2>1. Head(mRunSequence) \in Node /\ Tail(mRunSequence) \in Seq(Node)
    BY <1>4 DEF PopNode
  <2>2. QED
    BY <1>4, <2>1 DEF PopNode, MainState
<1>5. ASSUME postProcess PROVE TypeInv'
  BY <1>5 DEF postProcess
<1>6. ASSUME CountAndWait PROVE TypeInv'
  BY <1>6 DEF CountAndWait, WaitUnlessReady
<1>7. ASSUME RetestPredicate PROVE TypeInv'
  BY <1>7 DEF RetestPredicate, WaitUnlessReady
<1>8. ASSUME LoopEnds PROVE TypeInv'
  BY <1>8 DEF LoopEnds
<1>9. ASSUME releaseUnusedBuffer PROVE TypeInv'
  BY <1>9 DEF releaseUnusedBuffer
<1>10. ASSUME moveToIdleQueue PROVE TypeInv'
  BY <1>10 DEF moveToIdleQueue
<1>11. ASSUME SpuriousWakeup PROVE TypeInv'
  BY <1>11 DEF SpuriousWakeup
<1>12. ASSUME UNCHANGED seen PROVE TypeInv'
  BY <1>12 DEF seen
<1>13. ASSUME NEW n \in Node, NodeMove(n) PROVE TypeInv'
  <2>1. mRunSequence' \in Seq(Node) /\ mDependenceNum' \in [Node -> Int]
    BY <1>13, ScheduleStep DEF NodeMove
  <2>2. mpc' \in MainState /\ serving' = serving /\ graph' = graph
        /\ (mpc' \in {"dispatch", "count"} => mpc' = mpc)
    BY <1>13 DEF NodeMove, Notified, MainState, Waiting
  <2>3. pc' \in [Node -> NodeState] /\ ok' \in [Node -> BOOLEAN]
    BY <1>13 DEF NodeMove, Works, Passes, Goes, Early, Late, EraseCurrent, AbnormalCallback,
             NodeEnds, EndRequest, Goto, NodeState
  <2>4. mRunningNodeNum' \in Int /\ abnormal' \in Int
    BY <1>13 DEF NodeMove, Works, Passes, EraseCurrent, AbnormalCallback, NewCallbacks,
             NodeEnds, EndRequest
  <2>5. \/ UNCHANGED <<mHasProcessError, mIsCallExternal>>
        \/ mIsCallExternal' = TRUE /\ UNCHANGED mHasProcessError
        \/ mHasProcessError' = (mHasProcessError \/ ~ok[n]) /\ UNCHANGED mIsCallExternal
    BY <1>13 DEF NodeMove, Works, Passes, EraseCurrent, AbnormalCallback, NodeEnds, EndRequest
  <2>6. mHasProcessError' \in BOOLEAN /\ mIsCallExternal' \in BOOLEAN
    BY <2>5
  <2>7. QED
    BY <2>1, <2>2, <2>3, <2>4, <2>6
<1> HIDE DEF notMain, given, schedVars, nodeVars, clientVars, resultVars, IInv, TypeInv,
             MainState, NodeState, Waiting
<1>14. CASE MainStep \/ SpuriousWakeup
  BY <1>14, <1>1, <1>2, <1>3, <1>4, <1>5, <1>6, <1>7, <1>8, <1>9, <1>10, <1>11 DEF MainStep
<1>15. CASE \E n \in Node : NodeStep(n)
  BY <1>15, <1>13, NodeMoves DEF IInv
<1>16. QED
  BY <1>12, <1>14, <1>15, OtherSteps

\* A node becomes ready and is dispatched once.
LEMMA DispatchStep ==
  ASSUME IInv, [Next]_vars
  PROVE  DispatchInv'
<1>0. TypeInv'
  BY TypeStep DEF IInv
<1> USE DEF notMain, given, schedVars, nodeVars, clientVars, resultVars, IInv, TypeInv,
            DispatchInv, Waiting
<1>1. ASSUME Start PROVE DispatchInv'
  BY <1>1 DEF Start
<1>2. ASSUME RebuildFails PROVE DispatchInv'
  BY <1>2 DEF RebuildFails
<1>3. ASSUME NEW g \in Graphs, rebuildLinks(g) PROVE DispatchInv'
  <2> DEFINE first == {m \in SourceNodes(g) : InternalInputs(g, m) = {}}
  <2>1. /\ IsFiniteSet(first) /\ first \subseteq Node
        /\ \A m \in first : Cardinality(InternalInputs(g, m)) = 0
    BY FirstNodes
  <2>2. mRunSequence = <<>> /\ \A m \in Node : pc[m] = "none"
    BY <1>3 DEF rebuildLinks, FreshInv
  <2>3. /\ pc' = pc /\ mpc' # "dispatch"
        /\ mDependenceNum' = [m \in Node |-> Cardinality(InternalInputs(g, m))]
        /\ mRunSequence' = mRunSequence \/ mRunSequence' = SetToSeq(first)
    BY <1>3 DEF rebuildLinks
  <2> HIDE DEF first
  <2>4. Distinct(SetToSeq(first)) /\ Elems(SetToSeq(first)) \subseteq first
    BY <2>1, SetToSeqDistinct
  <2>5. Distinct(<<>>) /\ Elems(<<>>) = {}
    BY DEF Distinct, Elems
  <2>6. Distinct(mRunSequence') /\ Elems(mRunSequence') \subseteq first
    BY <2>2, <2>3, <2>4, <2>5
  <2>7. QED
    BY <2>1, <2>2, <2>3, <2>6
<1>4. ASSUME PopNode PROVE DispatchInv'
  <2>1. /\ Distinct(Tail(mRunSequence)) /\ Head(mRunSequence) \in Elems(mRunSequence)
        /\ Elems(Tail(mRunSequence)) = Elems(mRunSequence) \ {Head(mRunSequence)}
    BY <1>4, TailDistinct DEF PopNode
  <2>2. QED
    BY <1>4, <2>1 DEF PopNode
<1>5. ASSUME postProcess PROVE DispatchInv'
  <2>1. serving \in Node /\ Elems(mRunSequence) \subseteq Node
    BY <1>5 DEF postProcess, Elems
  <2>2. QED
    BY <1>5, <2>1 DEF postProcess
<1>6. ASSUME CountAndWait PROVE DispatchInv'
  BY <1>6 DEF CountAndWait, WaitUnlessReady
<1>7. ASSUME RetestPredicate PROVE DispatchInv'
  BY <1>7 DEF RetestPredicate, WaitUnlessReady
<1>8. ASSUME LoopEnds PROVE DispatchInv'
  BY <1>8 DEF LoopEnds
<1>9. ASSUME releaseUnusedBuffer PROVE DispatchInv'
  BY <1>9 DEF releaseUnusedBuffer
<1>10. ASSUME moveToIdleQueue PROVE DispatchInv'
  BY <1>10 DEF moveToIdleQueue
<1>11. ASSUME SpuriousWakeup PROVE DispatchInv'
  BY <1>11 DEF SpuriousWakeup
<1>12. ASSUME UNCHANGED seen PROVE DispatchInv'
  BY <1>12 DEF seen
<1>13. ASSUME NEW n \in Node, NodeMove(n) PROVE DispatchInv'
  <2>1. /\ Distinct(mRunSequence') /\ Elems(mRunSequence') \subseteq Node
        /\ \A m \in Node : mDependenceNum'[m] <= mDependenceNum[m]
        /\ \A m \in Elems(mRunSequence') : m \in Elems(mRunSequence) \/ mDependenceNum[m] = 1
        /\ \A m \in Elems(mRunSequence') : mDependenceNum'[m] <= 0
    BY <1>13, ScheduleStep DEF NodeMove
  <2>2. /\ \A m \in Node : pc'[m] = "none" <=> pc[m] = "none"
        /\ \A m \in Node : pc[m] = "none" => m # n
    BY <1>13 DEF NodeMove, Active, Works, Passes, Goes, Early, Late, EraseCurrent,
             AbnormalCallback, NodeEnds, EndRequest, Goto
  <2>3. mpc' = "dispatch" => mpc = "dispatch" /\ serving' = serving
    BY <1>13 DEF NodeMove, Notified, Waiting
  <2>4. ASSUME mpc' = "dispatch" PROVE serving \in mCurrentProcessNodes'
    BY <1>13, <2>2, <2>3, <2>4 DEF NodeMove, Works, Passes, EraseCurrent, AbnormalCallback,
             NodeEnds, EndRequest
  <2>5. \A m \in Elems(mRunSequence') : pc[m] = "none"
    BY <2>1
  <2>6. ASSUME mpc' = "dispatch"
        PROVE  /\ serving' \notin Elems(mRunSequence') /\ serving' \in Node
               /\ mDependenceNum'[serving'] <= 0 /\ pc'[serving'] = "none"
    BY <2>1, <2>2, <2>3, <2>6, <1>0
  <2>7. \A m \in Node : pc'[m] # "none" => mDependenceNum'[m] <= 0
    BY <1>0, <2>1, <2>2
  <2>8. QED
    BY <2>1, <2>2, <2>3, <2>4, <2>5, <2>6, <2>7
<1> HIDE DEF notMain, given, schedVars, nodeVars, clientVars, resultVars, IInv, TypeInv,
             DispatchInv, Waiting
<1>14. CASE MainStep \/ SpuriousWakeup
  BY <1>14, <1>1, <1>2, <1>3, <1>4, <1>5, <1>6, <1>7, <1>8, <1>9, <1>10, <1>11 DEF MainStep
<1>15. CASE \E n \in Node : NodeStep(n)
  BY <1>15, <1>13, NodeMoves DEF IInv
<1>16. QED
  BY <1>12, <1>14, <1>15, OtherSteps

\* No node is started before there is a graph.
LEMMA FreshStep ==
  ASSUME IInv, [Next]_vars
  PROVE  FreshInv'
<1>0. TypeInv'
  BY TypeStep DEF IInv
<1> USE DEF notMain, given, schedVars, nodeVars, clientVars, resultVars, IInv, FreshInv,
            Waiting
<1>1. ASSUME Start PROVE FreshInv'
  BY <1>1 DEF Start
<1>2. ASSUME RebuildFails PROVE FreshInv'
  BY <1>2 DEF RebuildFails
<1>3. ASSUME NEW g \in Graphs, rebuildLinks(g) PROVE FreshInv'
  BY <1>3, PipelineAssumption DEF rebuildLinks
<1>4. ASSUME PopNode PROVE FreshInv'
  BY <1>4 DEF PopNode
<1>5. ASSUME postProcess PROVE FreshInv'
  BY <1>5 DEF postProcess
<1>6. ASSUME CountAndWait PROVE FreshInv'
  BY <1>6 DEF CountAndWait, WaitUnlessReady
<1>7. ASSUME RetestPredicate PROVE FreshInv'
  BY <1>7 DEF RetestPredicate, WaitUnlessReady
<1>8. ASSUME LoopEnds PROVE FreshInv'
  BY <1>8 DEF LoopEnds
<1>9. ASSUME releaseUnusedBuffer PROVE FreshInv'
  BY <1>9 DEF releaseUnusedBuffer
<1>10. ASSUME moveToIdleQueue PROVE FreshInv'
  BY <1>10 DEF moveToIdleQueue
<1>11. ASSUME SpuriousWakeup PROVE FreshInv'
  BY <1>11 DEF SpuriousWakeup
<1>12. ASSUME UNCHANGED seen PROVE FreshInv'
  BY <1>12 DEF seen
<1>13. ASSUME NEW n \in Node, NodeMove(n) PROVE FreshInv'
  <2>1. graph # NoGraph /\ graph' = graph
    BY <1>13, PipelineAssumption DEF NodeMove
  <2>2. mpc' \notin {"start", "rebuild"}
    BY <1>13, <2>1 DEF NodeMove, Notified
  <2>3. QED
    BY <2>1, <2>2
<1> HIDE DEF notMain, given, schedVars, nodeVars, clientVars, resultVars, IInv, FreshInv,
             Waiting
<1>14. CASE MainStep \/ SpuriousWakeup
  BY <1>14, <1>1, <1>2, <1>3, <1>4, <1>5, <1>6, <1>7, <1>8, <1>9, <1>10, <1>11 DEF MainStep
<1>15. CASE \E n \in Node : NodeStep(n)
  BY <1>15, <1>13, NodeMoves DEF IInv
<1>16. QED
  BY <1>12, <1>14, <1>15, OtherSteps

\* The tasks inside the pipeline are finitely many, and a step of one task changes
\* the set by that task at most.
LEMMA ActiveFinite == IsFiniteSet(ActiveSet) /\ Cardinality(ActiveSet) \in Nat
<1>1. ActiveSet \in SUBSET Node
  BY DEF ActiveSet
<1>2. IsFiniteSet(ActiveSet)
  BY <1>1, PipelineAssumption, FS_Subset
<1>3. QED
  BY <1>2, FS_CardinalityType

LEMMA NoneRunning ==
  ASSUME CountInv, mRunningNodeNum = 0, mpc # "count"
  PROVE  \A n \in Node : ~Active(n)
<1>1. Cardinality(ActiveSet) = 0
  BY ActiveFinite DEF CountInv, Uncounted
<1>2. ActiveSet = {}
  BY <1>1, ActiveFinite, FS_EmptySet
<1>3. QED
  BY <1>2 DEF ActiveSet

\* The count follows the tasks.
LEMMA CountStep ==
  ASSUME IInv, [Next]_vars
  PROVE  CountInv'
<1>0. TypeInv'
  BY TypeStep DEF IInv
<1> USE DEF notMain, given, schedVars, nodeVars, clientVars, resultVars, IInv, CountInv,
            Waiting
<1>1. ASSUME Start PROVE CountInv'
  <2>1. ActiveSet' = ActiveSet
    BY <1>1 DEF Start, ActiveSet, Active
  <2>2. Uncounted = 0 /\ Uncounted' = 0 /\ mRunningNodeNum' = mRunningNodeNum
    BY <1>1 DEF Start, Uncounted
  <2>3. QED
    BY <2>1, <2>2
<1>2. ASSUME RebuildFails PROVE CountInv'
  <2>1. ActiveSet' = ActiveSet
    BY <1>2 DEF RebuildFails, ActiveSet, Active
  <2>2. Uncounted = 0 /\ Uncounted' = 0 /\ mRunningNodeNum' = mRunningNodeNum
    BY <1>2 DEF RebuildFails, Uncounted
  <2>3. QED
    BY <2>1, <2>2
<1>3. ASSUME NEW g \in Graphs, rebuildLinks(g) PROVE CountInv'
  <2>1. ActiveSet' = ActiveSet
    BY <1>3 DEF rebuildLinks, ActiveSet, Active
  <2>2. Uncounted = 0 /\ Uncounted' = 0 /\ mRunningNodeNum' = mRunningNodeNum
    BY <1>3 DEF rebuildLinks, Uncounted
  <2>3. QED
    BY <2>1, <2>2
<1>4. ASSUME PopNode PROVE CountInv'
  <2>1. ActiveSet' = ActiveSet
    BY <1>4 DEF PopNode, ActiveSet, Active
  <2>2. Uncounted = 0 /\ Uncounted' = 0 /\ mRunningNodeNum' = mRunningNodeNum
    BY <1>4 DEF PopNode, Uncounted
  <2>3. QED
    BY <2>1, <2>2
<1>5. ASSUME postProcess PROVE CountInv'
  <2>0. mpc = "dispatch" /\ mpc' = "count" /\ serving \in Node /\ serving' = serving
        /\ mRunningNodeNum' = mRunningNodeNum /\ pc[serving] = "none" /\ pc \in [Node -> NodeState]
    BY <1>5 DEF postProcess, DispatchInv, TypeInv
  <2>1. CASE serving \in Missing
    <3>1. ActiveSet' = ActiveSet
      BY <1>5, <2>1 DEF postProcess, ActiveSet, Active
    <3>2. QED
      BY <2>0, <2>1, <3>1 DEF Uncounted
  <2>2. CASE serving \notin Missing
    <3>1. pc' = [pc EXCEPT ![serving] = "input"]
      BY <1>5, <2>2 DEF postProcess
    <3>2. ActiveSet' = ActiveSet \cup {serving} /\ serving \notin ActiveSet
      BY <2>0, <3>1 DEF ActiveSet, Active
    <3>3. Cardinality(ActiveSet \cup {serving}) = Cardinality(ActiveSet) + 1
      BY <3>2, ActiveFinite, FS_AddElement
    <3>4. QED
      BY <2>0, <2>2, <3>2, <3>3, ActiveFinite DEF Uncounted
  <2>3. QED
    BY <2>1, <2>2
<1>6. ASSUME CountAndWait PROVE CountInv'
  <2>1. ActiveSet' = ActiveSet
    BY <1>6 DEF CountAndWait, ActiveSet, Active
  <2>2. Uncounted' = 0 /\ mRunningNodeNum' = mRunningNodeNum + Uncounted
    BY <1>6 DEF CountAndWait, WaitUnlessReady, Uncounted
  <2>3. Uncounted \in Int
    BY DEF Uncounted
  <2>4. QED
    BY <2>1, <2>2, <2>3, ActiveFinite
<1>7. ASSUME RetestPredicate PROVE CountInv'
  <2>1. ActiveSet' = ActiveSet
    BY <1>7 DEF RetestPredicate, WaitUnlessReady, ActiveSet, Active
  <2>2. Uncounted = 0 /\ Uncounted' = 0 /\ mRunningNodeNum' = mRunningNodeNum
    BY <1>7 DEF RetestPredicate, WaitUnlessReady, Uncounted
  <2>3. QED
    BY <2>1, <2>2
<1>8. ASSUME LoopEnds PROVE CountInv'
  <2>1. ActiveSet' = ActiveSet
    BY <1>8 DEF LoopEnds, ActiveSet, Active
  <2>2. Uncounted = 0 /\ Uncounted' = 0 /\ mRunningNodeNum' = mRunningNodeNum
    BY <1>8 DEF LoopEnds, Uncounted
  <2>3. QED
    BY <2>1, <2>2
<1>9. ASSUME releaseUnusedBuffer PROVE CountInv'
  <2>1. ActiveSet' = ActiveSet
    BY <1>9 DEF releaseUnusedBuffer, ActiveSet, Active
  <2>2. Uncounted = 0 /\ Uncounted' = 0 /\ mRunningNodeNum' = mRunningNodeNum
    BY <1>9 DEF releaseUnusedBuffer, Uncounted
  <2>3. QED
    BY <2>1, <2>2
<1>10. ASSUME moveToIdleQueue PROVE CountInv'
  <2>1. ActiveSet' = ActiveSet
    BY <1>10 DEF moveToIdleQueue, ActiveSet, Active
  <2>2. Uncounted = 0 /\ Uncounted' = 0 /\ mRunningNodeNum' = mRunningNodeNum
    BY <1>10 DEF moveToIdleQueue, Uncounted
  <2>3. QED
    BY <2>1, <2>2
<1>11. ASSUME SpuriousWakeup PROVE CountInv'
  <2>1. ActiveSet' = ActiveSet
    BY <1>11 DEF SpuriousWakeup, ActiveSet, Active
  <2>2. Uncounted = 0 /\ Uncounted' = 0 /\ mRunningNodeNum' = mRunningNodeNum
    BY <1>11 DEF SpuriousWakeup, Uncounted
  <2>3. QED
    BY <2>1, <2>2
<1>12. ASSUME UNCHANGED seen PROVE CountInv'
  BY <1>12 DEF seen, ActiveSet, Active, Uncounted
<1>13. ASSUME NEW n \in Node, NodeMove(n) PROVE CountInv'
  <2>1. Uncounted' = Uncounted /\ Uncounted \in Int
    BY <1>13 DEF NodeMove, Notified, Uncounted
  <2>2. Active(n) /\ n \in ActiveSet /\ pc \in [Node -> NodeState] /\ mRunningNodeNum \in Int
    BY <1>13 DEF NodeMove, ActiveSet, TypeInv
  <2>3. CASE Works(n) \/ Passes(n) \/ EraseCurrent(n) \/ AbnormalCallback(n)
    <3>1. /\ pc' = [pc EXCEPT ![n] = pc'[n]] /\ pc'[n] \notin {"none", "done"}
          /\ mRunningNodeNum' = mRunningNodeNum
      BY <2>2, <2>3 DEF Works, Passes, Goes, Early, Late, EraseCurrent, AbnormalCallback, Goto
    <3>2. ActiveSet' = ActiveSet
      BY <2>2, <3>1 DEF ActiveSet, Active
    <3>3. QED
      BY <2>1, <3>1, <3>2
  <2>4. CASE NodeEnds(n)
    <3>1. pc' = [pc EXCEPT ![n] = "done"] /\ mRunningNodeNum' = mRunningNodeNum - 1
      BY <2>4 DEF NodeEnds, EndRequest, Goto
    <3>2. ActiveSet' = ActiveSet \ {n}
      BY <2>2, <3>1 DEF ActiveSet, Active
    <3>3. Cardinality(ActiveSet \ {n}) = Cardinality(ActiveSet) - 1
      BY <2>2, ActiveFinite, FS_RemoveElement
    <3>4. QED
      BY <2>1, <3>1, <3>2, <3>3, ActiveFinite
  <2>5. QED
    BY <1>13, <2>3, <2>4 DEF NodeMove
<1> HIDE DEF notMain, given, schedVars, nodeVars, clientVars, resultVars, IInv, CountInv,
             Waiting
<1>14. CASE MainStep \/ SpuriousWakeup
  BY <1>14, <1>1, <1>2, <1>3, <1>4, <1>5, <1>6, <1>7, <1>8, <1>9, <1>10, <1>11 DEF MainStep
<1>15. CASE \E n \in Node : NodeStep(n)
  BY <1>15, <1>13, NodeMoves DEF IInv
<1>16. QED
  BY <1>12, <1>14, <1>15, OtherSteps

\* The main thread leaves its loop only when nothing runs.
LEMMA LoopStep ==
  ASSUME IInv, [Next]_vars
  PROVE  LoopInv'
<1>0. TypeInv'
  BY TypeStep DEF IInv
<1> USE DEF notMain, given, schedVars, nodeVars, clientVars, resultVars, IInv, LoopInv, Waiting
<1>1. ASSUME Start PROVE LoopInv'
  BY <1>1 DEF Start, FreshInv
<1>2. ASSUME RebuildFails PROVE LoopInv'
  BY <1>2 DEF RebuildFails, FreshInv
<1>3. ASSUME NEW g \in Graphs, rebuildLinks(g) PROVE LoopInv'
  BY <1>3 DEF rebuildLinks, FreshInv
<1>4. ASSUME PopNode PROVE LoopInv'
  BY <1>4 DEF PopNode
<1>5. ASSUME postProcess PROVE LoopInv'
  BY <1>5 DEF postProcess
<1>6. ASSUME CountAndWait PROVE LoopInv'
  BY <1>6 DEF CountAndWait, WaitUnlessReady
<1>7. ASSUME RetestPredicate PROVE LoopInv'
  BY <1>7 DEF RetestPredicate, WaitUnlessReady
<1>8. ASSUME LoopEnds PROVE LoopInv'
  BY <1>8 DEF LoopEnds
<1>9. ASSUME releaseUnusedBuffer PROVE LoopInv'
  BY <1>9 DEF releaseUnusedBuffer
<1>10. ASSUME moveToIdleQueue PROVE LoopInv'
  BY <1>10 DEF moveToIdleQueue
<1>11. ASSUME SpuriousWakeup PROVE LoopInv'
  BY <1>11 DEF SpuriousWakeup
<1>12. ASSUME UNCHANGED seen PROVE LoopInv'
  BY <1>12 DEF seen
<1>13. ASSUME NEW n \in Node, NodeMove(n) PROVE LoopInv'
  <2>1. mRunSequence' = <<>> => mRunSequence = <<>>
    BY <1>13, ScheduleStep DEF NodeMove, DispatchInv
  <2>2. SUFFICES ASSUME mpc' \in {"release", "move", "idle"}
                          \/ (mpc' = "loop" /\ mRunSequence' = <<>>)
                 PROVE  FALSE
    OBVIOUS
  <2>3. mpc' = mpc
    BY <1>13, <2>2 DEF NodeMove, Notified
  <2>4. mRunningNodeNum = 0 /\ mpc # "count"
    BY <2>1, <2>2, <2>3
  <2>5. QED
    BY <1>13, <2>4, NoneRunning DEF NodeMove
<1> HIDE DEF notMain, given, schedVars, nodeVars, clientVars, resultVars, IInv, LoopInv,
             Waiting
<1>14. CASE MainStep \/ SpuriousWakeup
  BY <1>14, <1>1, <1>2, <1>3, <1>4, <1>5, <1>6, <1>7, <1>8, <1>9, <1>10, <1>11 DEF MainStep
<1>15. CASE \E n \in Node : NodeStep(n)
  BY <1>15, <1>13, NodeMoves DEF IInv
<1>16. QED
  BY <1>12, <1>14, <1>15, OtherSteps

\* mCurrentProcessNodes holds the nodes before notifyNextNode.
LEMMA ProcessStep ==
  ASSUME IInv, [Next]_vars
  PROVE  ProcessInv'
<1>0. TypeInv'
  BY TypeStep DEF IInv
<1> USE DEF notMain, given, schedVars, nodeVars, clientVars, resultVars, IInv, ProcessInv,
            Waiting
<1>1. ASSUME Start PROVE ProcessInv'
  BY <1>1 DEF Start, Active
<1>2. ASSUME RebuildFails PROVE ProcessInv'
  BY <1>2 DEF RebuildFails, Active
<1>3. ASSUME NEW g \in Graphs, rebuildLinks(g) PROVE ProcessInv'
  BY <1>3 DEF rebuildLinks, Active
<1>4. ASSUME PopNode PROVE ProcessInv'
  <2>1. Head(mRunSequence) \in Elems(mRunSequence) /\ Head(mRunSequence) \in Node
    BY <1>4, TailDistinct DEF PopNode, TypeInv, DispatchInv
  <2>2. pc[Head(mRunSequence)] = "none"
    BY <2>1 DEF DispatchInv
  <2>3. QED
    BY <1>4, <2>1, <2>2 DEF PopNode, Active
<1>5. ASSUME postProcess PROVE ProcessInv'
  <2>1. /\ serving \in Node /\ serving \in mCurrentProcessNodes /\ pc \in [Node -> NodeState]
        /\ pc[serving] = "none"
    BY <1>5 DEF postProcess, TypeInv, DispatchInv
  <2>2. QED
    BY <1>5, <2>1 DEF postProcess, Active
<1>6. ASSUME CountAndWait PROVE ProcessInv'
  BY <1>6 DEF CountAndWait, WaitUnlessReady, Active
<1>7. ASSUME RetestPredicate PROVE ProcessInv'
  BY <1>7 DEF RetestPredicate, WaitUnlessReady, Active
<1>8. ASSUME LoopEnds PROVE ProcessInv'
  BY <1>8 DEF LoopEnds, Active
<1>9. ASSUME releaseUnusedBuffer PROVE ProcessInv'
  BY <1>9 DEF releaseUnusedBuffer, Active
<1>10. ASSUME moveToIdleQueue PROVE ProcessInv'
  BY <1>10 DEF moveToIdleQueue, Active
<1>11. ASSUME SpuriousWakeup PROVE ProcessInv'
  BY <1>11 DEF SpuriousWakeup, Active
<1>12. ASSUME UNCHANGED seen PROVE ProcessInv'
  BY <1>12 DEF seen, Active
<1>13. ASSUME NEW n \in Node, NodeMove(n) PROVE ProcessInv'
  <2>0. pc \in [Node -> NodeState] /\ Active(n) /\ mpc' \in {mpc, Notified} /\ serving' = serving
    BY <1>13 DEF NodeMove, TypeInv
  <2>1. (mpc' = "dispatch" <=> mpc = "dispatch") /\ (mpc = "dispatch" => serving # n)
    BY <2>0 DEF Notified, Active, DispatchInv
  <2>2. CASE Works(n) \/ Passes(n)
    <3>1. /\ pc' = [pc EXCEPT ![n] = pc'[n]] /\ pc'[n] \in Early \cup Late
          /\ mCurrentProcessNodes' = mCurrentProcessNodes
          /\ pc'[n] \in Early => n \in mCurrentProcessNodes
      BY <2>0, <2>2 DEF Works, Passes, Goes, Early, Late
    <3>2. QED
      BY <2>0, <2>1, <3>1 DEF Active, Early, Late
  <2>3. CASE EraseCurrent(n)
    BY <2>0, <2>1, <2>3 DEF EraseCurrent, Goto, Active
  <2>4. CASE AbnormalCallback(n)
    BY <2>0, <2>1, <2>4 DEF AbnormalCallback, At, Goto, Active
  <2>5. CASE NodeEnds(n)
    BY <2>0, <2>1, <2>5 DEF NodeEnds, EndRequest, Goto, Active
  <2>6. QED
    BY <1>13, <2>2, <2>3, <2>4, <2>5 DEF NodeMove
<1> HIDE DEF notMain, given, schedVars, nodeVars, clientVars, resultVars, IInv, ProcessInv,
             Waiting
<1>14. CASE MainStep \/ SpuriousWakeup
  BY <1>14, <1>1, <1>2, <1>3, <1>4, <1>5, <1>6, <1>7, <1>8, <1>9, <1>10, <1>11 DEF MainStep
<1>15. CASE \E n \in Node : NodeStep(n)
  BY <1>15, <1>13, NodeMoves DEF IInv
<1>16. QED
  BY <1>12, <1>14, <1>15, OtherSteps

\* A failure is reported by the first task that fails, and then recorded.
LEMMA ReportStep ==
  ASSUME IInv, [Next]_vars
  PROVE  ReportInv'
<1>0. TypeInv'
  BY TypeStep DEF IInv
<1> USE DEF notMain, given, schedVars, nodeVars, clientVars, resultVars, IInv, ReportInv
<1>1. ASSUME Start PROVE ReportInv'
  BY <1>1 DEF Start, Reported
<1>2. ASSUME RebuildFails PROVE ReportInv'
  <2>1. graph = NoGraph /\ graph' = graph
    BY <1>2 DEF RebuildFails, FreshInv
  <2>2. \A m \in Node : Reported(m)' <=> Reported(m)
    BY <1>2 DEF RebuildFails, Reported
  <2>3. QED
    BY <1>2, <2>1, <2>2 DEF RebuildFails
<1>3. ASSUME NEW g \in Graphs, rebuildLinks(g) PROVE ReportInv'
  <2>1. ~mIsCallExternal /\ abnormal = 0 /\ ~mHasProcessError /\ \A m \in Node : pc[m] = "none"
    BY <1>3 DEF rebuildLinks, FreshInv
  <2>2. QED
    BY <1>3, <2>1 DEF rebuildLinks, Reported
<1>4. ASSUME PopNode PROVE ReportInv'
  <2>1. Head(mRunSequence) \in Elems(mRunSequence)
    BY <1>4, TailDistinct DEF PopNode, TypeInv, DispatchInv
  <2>2. pc[Head(mRunSequence)] = "none"
    BY <2>1 DEF DispatchInv
  <2>3. \A m \in Node : Reported(m)' <=> Reported(m)
    BY <1>4, <2>2 DEF PopNode, Reported
  <2>4. QED
    BY <1>4, <2>3 DEF PopNode
<1>5. ASSUME postProcess PROVE ReportInv'
  <2>1. serving \in Node /\ pc \in [Node -> NodeState] /\ pc[serving] = "none"
    BY <1>5 DEF postProcess, TypeInv, DispatchInv
  <2>2. \A m \in Node : Reported(m)' <=> Reported(m)
    BY <1>5, <2>1 DEF postProcess, Reported
  <2>3. QED
    BY <1>5, <2>1, <2>2 DEF postProcess
<1>6. ASSUME CountAndWait PROVE ReportInv'
  BY <1>6 DEF CountAndWait, WaitUnlessReady, Reported
<1>7. ASSUME RetestPredicate PROVE ReportInv'
  BY <1>7 DEF RetestPredicate, WaitUnlessReady, Reported
<1>8. ASSUME LoopEnds PROVE ReportInv'
  BY <1>8 DEF LoopEnds, Reported
<1>9. ASSUME releaseUnusedBuffer PROVE ReportInv'
  BY <1>9 DEF releaseUnusedBuffer, Reported
<1>10. ASSUME moveToIdleQueue PROVE ReportInv'
  BY <1>10 DEF moveToIdleQueue, Reported
<1>11. ASSUME SpuriousWakeup PROVE ReportInv'
  BY <1>11 DEF SpuriousWakeup, Reported
<1>12. ASSUME UNCHANGED seen PROVE ReportInv'
  BY <1>12 DEF seen, Reported
<1>13. ASSUME NEW n \in Node, NodeMove(n) PROVE ReportInv'
  <2>0. /\ pc \in [Node -> NodeState] /\ ok \in [Node -> BOOLEAN] /\ graph # NoGraph
        /\ graph' = graph /\ abnormal \in Int
    BY <1>13, PipelineAssumption DEF NodeMove, TypeInv
  <2>1. CASE Works(n)
    <3>1. /\ \A m \in Node : m # n => pc'[m] = pc[m] /\ ok'[m] = ok[m]
          /\ pc[n] \in Early /\ pc'[n] \in Early
          /\ UNCHANGED <<mHasProcessError, mCurrentProcessNodes, mIsCallExternal, abnormal>>
      BY <2>0, <2>1 DEF Works, Goes
    <3>2. \A m \in Node : Reported(m)' <=> Reported(m)
      BY <3>1 DEF Reported, Early
    <3>3. QED
      BY <2>0, <3>1, <3>2 DEF Early
  <2>2. CASE Passes(n)
    <3>1. /\ \A m \in Node : m # n => pc'[m] = pc[m]
          /\ pc[n] \in Late \cup {"frameOut", "release"} /\ pc'[n] \in Late \cup {"input"}
          /\ pc'[n] = "input" \/ pc[n] = "frameOut" => n \in mCurrentProcessNodes
          /\ UNCHANGED <<mHasProcessError, mCurrentProcessNodes, mIsCallExternal, abnormal, ok>>
      BY <2>0, <2>2 DEF Passes, Goes, Late, ProcessInv
    <3>2. \A m \in Node : Reported(m)' <=> Reported(m)
      BY <3>1 DEF Reported, Late
    <3>3. QED
      BY <2>0, <3>1, <3>2 DEF Late
  <2>3. CASE EraseCurrent(n)
    <3>1. /\ \A m \in Node : m # n => pc'[m] = pc[m]
          /\ pc[n] = "erase" /\ pc'[n] = IF ok[n] THEN "release" ELSE "abnormal"
          /\ mCurrentProcessNodes' = mCurrentProcessNodes \ {n}
          /\ UNCHANGED <<mHasProcessError, mIsCallExternal, abnormal, ok>>
      BY <2>0, <2>3 DEF EraseCurrent, At, Goto
    <3>2. \A m \in Node : Reported(m)' <=> Reported(m)
      BY <3>1 DEF Reported
    <3>3. QED
      BY <2>0, <3>1, <3>2
  <2>4. CASE AbnormalCallback(n)
    <3>1. /\ \A m \in Node : m # n => pc'[m] = pc[m]
          /\ pc[n] = "abnormal" /\ pc'[n] = "links" /\ mIsCallExternal' = TRUE
          /\ UNCHANGED <<mHasProcessError, mCurrentProcessNodes, ok>>
      BY <2>0, <2>4 DEF AbnormalCallback, At, Goto
    <3>2. abnormal' = 1
      BY <2>0, <2>4 DEF AbnormalCallback, NewCallbacks
    <3>3. Reported(n)'
      BY <3>1 DEF Reported, ProcessInv
    <3>4. QED
      BY <2>0, <3>1, <3>2, <3>3
  <2>5. CASE NodeEnds(n)
    <3>1. /\ \A m \in Node : m # n => pc'[m] = pc[m]
          /\ pc[n] = "links" /\ pc'[n] = "done" /\ n \notin mCurrentProcessNodes
          /\ mHasProcessError' = (mHasProcessError \/ ~ok[n])
          /\ UNCHANGED <<mIsCallExternal, mCurrentProcessNodes, ok, abnormal>>
      BY <2>0, <2>5 DEF NodeEnds, EndRequest, At, Goto
    <3>2. ~ok[n] => Reported(n)
      BY <3>1 DEF Reported
    <3>3. \A m \in Node : m # n => (Reported(m)' <=> Reported(m))
      BY <3>1 DEF Reported
    <3>4. ~Reported(n)'
      BY <3>1 DEF Reported
    <3>5. Reported(n) => ~ok[n]
      BY DEF Reported
    <3>6. QED
      BY <2>0, <3>1, <3>2, <3>3, <3>4, <3>5
  <2>6. QED
    BY <1>13, <2>1, <2>2, <2>3, <2>4, <2>5 DEF NodeMove
<1> HIDE DEF notMain, given, schedVars, nodeVars, clientVars, resultVars, IInv, ReportInv
<1>14. CASE MainStep \/ SpuriousWakeup
  BY <1>14, <1>1, <1>2, <1>3, <1>4, <1>5, <1>6, <1>7, <1>8, <1>9, <1>10, <1>11 DEF MainStep
<1>15. CASE \E n \in Node : NodeStep(n)
  BY <1>15, <1>13, NodeMoves DEF IInv
<1>16. QED
  BY <1>12, <1>14, <1>15, OtherSteps

(* ------------------------------- the theorems ---------------------------- *)

\* The initial states satisfy the invariant.
LEMMA InitIInv == Init => IInv
<1> SUFFICES ASSUME Init PROVE IInv
  OBVIOUS
<1>1. TypeInv
  <2>1. mpc = "start" /\ mpc \in MainState /\ graph \in Graphs \cup {NoGraph}
    BY DEF Init, MainState
  <2>2. mDependenceNum \in [Node -> Int] /\ mRunSequence \in Seq(Node) /\ mRunningNodeNum \in Int
    BY DEF Init
  <2>3. pc \in [Node -> NodeState] /\ ok \in [Node -> BOOLEAN] /\ abnormal \in Int
    BY DEF Init, NodeState
  <2>4. mHasProcessError \in BOOLEAN /\ mIsCallExternal \in BOOLEAN
    BY DEF Init
  <2>5. QED
    BY <2>1, <2>2, <2>3, <2>4 DEF TypeInv
<1>2. Elems(<<>>) = {} /\ Distinct(<<>>)
  BY DEF Elems, Distinct
<1>3. DispatchInv
  BY <1>2 DEF Init, DispatchInv
<1>4. FreshInv /\ LoopInv /\ ProcessInv
  BY DEF Init, FreshInv, LoopInv, ProcessInv, Waiting
<1>5. CountInv
  <2>1. ActiveSet = {}
    BY DEF Init, ActiveSet, Active
  <2>2. QED
    BY <2>1, FS_EmptySet DEF Init, CountInv, Uncounted
<1>6. ReportInv
  BY DEF Init, ReportInv, Reported
<1>7. QED
  BY <1>1, <1>3, <1>4, <1>5, <1>6 DEF IInv

\* The invariant holds in every reachable state.
LEMMA Invariance == Spec => []IInv
<1>1. IInv /\ [Next]_vars => IInv'
  BY TypeStep, DispatchStep, FreshStep, CountStep, LoopStep, ProcessStep, ReportStep DEF IInv
<1>2. QED
  BY InitIInv, <1>1, PTL DEF Spec

\* Whatever the graph and whatever order tasks start, end, fail and are counted in, no
\* node task is inside the pipeline when postProcTask gives its buffers back and hands it
\* to the idle queue; only nodes without an object may be left in mCurrentProcessNodes.
THEOREM QuietWhenIdle == Spec => []IdleMeansQuiet
<1>1. IInv => IdleMeansQuiet
  <2> SUFFICES ASSUME IInv, mpc \in {"release", "move", "idle"}
               PROVE  /\ \A n \in Node : ~Active(n)
                      /\ mCurrentProcessNodes \subseteq Missing
    BY DEF IdleMeansQuiet
  <2>1. \A n \in Node : ~Active(n)
    BY NoneRunning DEF IInv, LoopInv
  <2>2. QED
    BY <2>1 DEF IInv, ProcessInv
<1>2. QED
  BY Invariance, <1>1, PTL

\* Whatever the graph, a request that ran ends with one abnormal callback if a failure was
\* recorded and with none otherwise: mIsCallExternal lets one of the failing tasks call.
THEOREM FailureReportedOnce == Spec => []FailureReported
<1>1. IInv => FailureReported
  <2> SUFFICES ASSUME IInv, mpc = "idle", graph # NoGraph
               PROVE  abnormal = IF mHasProcessError THEN 1 ELSE 0
    BY DEF FailureReported
  <2>1. \A n \in Node : ~Active(n)
    BY NoneRunning DEF IInv, LoopInv
  <2>2. \A n \in Node : ~Reported(n)
    BY <2>1 DEF Reported, Active
  <2>3. mHasProcessError <=> mIsCallExternal
    BY <2>2 DEF IInv, ReportInv
  <2>4. QED
    BY <2>3 DEF IInv, ReportInv
<1>2. QED
  BY Invariance, <1>1, PTL

(* A task of a node is started only if the node was never started before,    *)
(* although three functions push ready nodes to mRunSequence.                *)
StartsOnce == [][\A n \in Node : ~Active(n) /\ pc'[n] = "input" => pc[n] = "none"]_vars

\* Whatever the graph, a node is dispatched at most once in a request.
THEOREM NodesStartOnce == Spec => StartsOnce
<1>1. ASSUME IInv, [Next]_vars, NEW n \in Node, ~Active(n), pc'[n] = "input"
      PROVE  pc[n] = "none"
  <2>1. SUFFICES ASSUME pc[n] = "done" PROVE FALSE
    BY <1>1 DEF Active
  <2>2. pc \in [Node -> NodeState]
    BY <1>1 DEF IInv, TypeInv
  <2>3. CASE MainStep \/ SpuriousWakeup
    <3>1. CASE postProcess
      BY <1>1, <2>1, <2>2, <3>1 DEF postProcess, IInv, DispatchInv, TypeInv
    <3>2. CASE ~postProcess
      <4>1. pc' = pc
        BY <2>3, <3>2 DEF MainStep, SpuriousWakeup, Start, RebuildFails, rebuildLinks, PopNode,
           CountAndWait, RetestPredicate, LoopEnds, releaseUnusedBuffer, moveToIdleQueue,
           notMain, nodeVars
      <4>2. QED
        BY <1>1, <2>1, <4>1
    <3>3. QED
      BY <3>1, <3>2
  <2>4. CASE \E m \in Node : NodeStep(m)
    <3>1. PICK m \in Node : NodeMove(m)
      BY <1>1, <2>4, NodeMoves DEF IInv
    <3>2. m # n
      BY <1>1, <3>1 DEF NodeMove
    <3>3. pc'[n] = pc[n]
      BY <2>2, <3>1, <3>2 DEF NodeMove, Works, Passes, Goes, EraseCurrent, AbnormalCallback,
         NodeEnds, EndRequest, Goto
    <3>4. QED
      BY <1>1, <2>1, <3>3
  <2>5. CASE UNCHANGED seen
    BY <1>1, <2>1, <2>5 DEF seen
  <2>6. QED
    BY <1>1, <2>3, <2>4, <2>5, OtherSteps
<1>2. IInv /\ [Next]_vars => [\A n \in Node : ~Active(n) /\ pc'[n] = "input" => pc[n] = "none"]_vars
  BY <1>1
<1>3. QED
  BY Invariance, <1>2, PTL DEF Spec, StartsOnce

(* ------------------------- how many images there are --------------------- *)

\* The places are the pairs of a queue and a position in it.
LEMMA InPlaces ==
  ASSUME NEW f, NEW S, NEW y
  PROVE  y \in Places(f, S) <=> y = <<y[1], y[2]>> /\ y[1] \in S /\ y[2] \in 1 .. f[y[1]]
<1>1. ASSUME y \in Places(f, S)
      PROVE  y = <<y[1], y[2]>> /\ y[1] \in S /\ y[2] \in 1 .. f[y[1]]
  <2>1. PICK x \in S : y \in {x} \X (1 .. f[x])
    BY <1>1 DEF Places
  <2>2. QED
    BY <2>1
<1>2. ASSUME y = <<y[1], y[2]>>, y[1] \in S, y[2] \in 1 .. f[y[1]]
      PROVE  y \in Places(f, S)
  <2>1. y \in {y[1]} \X (1 .. f[y[1]])
    BY <1>2
  <2>2. QED
    BY <1>2, <2>1 DEF Places
<1>3. QED
  BY <1>1, <1>2

\* Finitely many queues hold finitely many images.
LEMMA TotalType ==
  ASSUME NEW S, IsFiniteSet(S), NEW f \in [S -> Nat]
  PROVE  IsFiniteSet(Places(f, S)) /\ Total(f, S) \in Nat
<1> DEFINE g == [x \in S |-> {x} \X (1 .. f[x])]
           R == {{x} \X (1 .. f[x]) : x \in S}
<1>1. g \in Surjection(S, R)
  BY DEF Surjection
<1>2. IsFiniteSet(R)
  <2> HIDE DEF g, R
  <2>1. QED
    BY <1>1, FS_Surjection
<1>3. ASSUME NEW x \in S PROVE IsFiniteSet({x} \X (1 .. f[x]))
  <2>0. f[x] \in Int /\ 1 \in Int
    OBVIOUS
  <2>1. IsFiniteSet(1 .. f[x]) /\ IsFiniteSet({x})
    BY <2>0, FS_Interval, FS_Singleton
  <2>2. QED
    BY <2>1, FS_Product
<1>4. \A T \in R : IsFiniteSet(T)
  BY <1>3
<1>5. IsFiniteSet(UNION R)
  <2> HIDE DEF R
  <2>1. QED
    BY <1>2, <1>4, FS_UNION
<1>6. IsFiniteSet(Places(f, S))
  BY <1>5 DEF Places
<1>7. QED
  BY <1>6, FS_CardinalityType DEF Total

\* Totals add up, queue by queue.
LEMMA TotalSum ==
  ASSUME NEW S, IsFiniteSet(S), NEW a \in [S -> Nat], NEW b \in [S -> Nat],
         NEW c \in [S -> Nat], \A x \in S : c[x] = a[x] + b[x]
  PROVE  Total(c, S) = Total(a, S) + Total(b, S)
<1> DEFINE A == Places(a, S)
           B == Places(b, S)
           C == Places(c, S)
           h == [y \in B |-> <<y[1], a[y[1]] + y[2]>>]
<1>1. /\ \A y : y \in A <=> y = <<y[1], y[2]>> /\ y[1] \in S /\ y[2] \in 1 .. a[y[1]]
      /\ \A y : y \in B <=> y = <<y[1], y[2]>> /\ y[1] \in S /\ y[2] \in 1 .. b[y[1]]
      /\ \A y : y \in C <=> y = <<y[1], y[2]>> /\ y[1] \in S /\ y[2] \in 1 .. c[y[1]]
  BY InPlaces
<1>2. IsFiniteSet(A) /\ IsFiniteSet(B) /\ IsFiniteSet(C)
  BY TotalType
<1>3. Cardinality(A) \in Nat /\ Cardinality(B) \in Nat /\ Cardinality(C) \in Nat
  BY TotalType DEF Total
<1> HIDE DEF A, B, C
<1>4. A \subseteq C
  <2> SUFFICES ASSUME NEW y \in A PROVE y \in C
    OBVIOUS
  <2>1. y = <<y[1], y[2]>> /\ y[1] \in S /\ y[2] \in 1 .. a[y[1]]
    BY <1>1
  <2>2. a[y[1]] \in Nat /\ b[y[1]] \in Nat /\ c[y[1]] = a[y[1]] + b[y[1]]
    BY <2>1
  <2>3. y[2] \in 1 .. c[y[1]]
    BY <2>1, <2>2
  <2>4. QED
    BY <1>1, <2>1, <2>3
<1>5. h \in [B -> C \ A]
  <2> SUFFICES ASSUME NEW y \in B PROVE <<y[1], a[y[1]] + y[2]>> \in C \ A
    OBVIOUS
  <2>1. y[1] \in S /\ y[2] \in 1 .. b[y[1]]
    BY <1>1
  <2>2. a[y[1]] \in Nat /\ b[y[1]] \in Nat /\ c[y[1]] = a[y[1]] + b[y[1]]
    BY <2>1
  <2>3. a[y[1]] + y[2] \in 1 .. c[y[1]] /\ a[y[1]] + y[2] \notin 1 .. a[y[1]]
    BY <2>1, <2>2
  <2>4. QED
    BY <1>1, <2>1, <2>3
<1>6. \A y, z \in B : h[y] = h[z] => y = z
  <2> SUFFICES ASSUME NEW y \in B, NEW z \in B, h[y] = h[z] PROVE y = z
    OBVIOUS
  <2>1. y[1] = z[1] /\ a[y[1]] + y[2] = a[z[1]] + z[2]
    OBVIOUS
  <2>2. /\ y = <<y[1], y[2]>> /\ y[1] \in S /\ y[2] \in 1 .. b[y[1]]
        /\ z = <<z[1], z[2]>> /\ z[1] \in S /\ z[2] \in 1 .. b[z[1]]
    BY <1>1
  <2>3. a[y[1]] \in Nat /\ y[2] \in Int /\ z[2] \in Int
    BY <2>1, <2>2
  <2>4. y[2] = z[2]
    BY <2>1, <2>3
  <2>5. QED
    BY <2>1, <2>2, <2>4
<1>7. \A z \in C \ A : \E y \in B : h[y] = z
  <2> SUFFICES ASSUME NEW z \in C, z \notin A PROVE \E y \in B : h[y] = z
    OBVIOUS
  <2> DEFINE y == <<z[1], z[2] - a[z[1]]>>
  <2>1. z = <<z[1], z[2]>> /\ z[1] \in S /\ z[2] \in 1 .. c[z[1]]
    BY <1>1
  <2>2. a[z[1]] \in Nat /\ b[z[1]] \in Nat /\ c[z[1]] = a[z[1]] + b[z[1]]
    BY <2>1
  <2>3. z[2] \notin 1 .. a[z[1]]
    BY <1>1, <2>1
  <2>4. z[2] - a[z[1]] \in 1 .. b[z[1]] /\ a[z[1]] + (z[2] - a[z[1]]) = z[2]
    BY <2>1, <2>2, <2>3
  <2>5. y[1] = z[1] /\ y[2] = z[2] - a[z[1]]
    OBVIOUS
  <2>6. y \in B
    BY <1>1, <2>1, <2>4, <2>5
  <2>7. h[y] = z
    BY <2>1, <2>4, <2>5, <2>6
  <2>8. QED
    BY <2>6, <2>7
<1>8. ExistsBijection(B, C \ A)
  <2> HIDE DEF h
  <2>1. h \in Bijection(B, C \ A)
    BY <1>5, <1>6, <1>7 DEF Bijection, Injection, Surjection, IsInjective
  <2>2. QED
    BY <2>1 DEF ExistsBijection
<1>9. Cardinality(C \ A) = Cardinality(B)
  BY <1>2, <1>8, FS_Bijection
<1>10. Cardinality(C \ A) = Cardinality(C) - Cardinality(C \cap A)
  BY <1>2, FS_Difference
<1>11. C \cap A = A
  BY <1>4
<1>12. Total(a, S) = Cardinality(A) /\ Total(b, S) = Cardinality(B) /\ Total(c, S) = Cardinality(C)
  BY DEF Total, A, B, C
<1>13. Cardinality(B) = Cardinality(C) - Cardinality(A)
  BY <1>9, <1>10, <1>11
<1> HIDE DEF h
<1>14. QED
  BY <1>3, <1>12, <1>13

\* The same number of images in some of the queues.
LEMMA TotalEven ==
  ASSUME NEW S, IsFiniteSet(S), NEW K \in SUBSET S, NEW d \in Nat,
         NEW f \in [S -> Nat], \A x \in S : f[x] = IF x \in K THEN d ELSE 0
  PROVE  Cardinality(K) \in Nat /\ Total(f, S) = Cardinality(K) * d
<1>1. IsFiniteSet(K)
  BY FS_Subset
<1>2. ASSUME NEW y PROVE y \in Places(f, S) <=> y \in K \X (1 .. d)
  <2>1. y \in Places(f, S) <=> y = <<y[1], y[2]>> /\ y[1] \in S /\ y[2] \in 1 .. f[y[1]]
    BY InPlaces
  <2>2. ASSUME y[1] \in S, y[1] \notin K PROVE y[2] \notin 1 .. f[y[1]]
    BY <2>2
  <2>3. ASSUME y[1] \in K PROVE y[1] \in S /\ f[y[1]] = d
    BY <2>3
  <2>4. QED
    BY <2>1, <2>2, <2>3
<1>3. Places(f, S) = K \X (1 .. d)
  BY <1>2
<1>4. IsFiniteSet(1 .. d) /\ Cardinality(1 .. d) = d
  BY FS_Interval
<1>5. Cardinality(K \X (1 .. d)) = Cardinality(K) * Cardinality(1 .. d)
  BY <1>1, <1>4, FS_Product
<1>6. Cardinality(K) \in Nat
  BY <1>1, FS_CardinalityType
<1>7. QED
  BY <1>3, <1>4, <1>5, <1>6 DEF Total

\* The total over some of the queues.
LEMMA TotalPart ==
  ASSUME NEW S, NEW K \in SUBSET S, NEW k,
         NEW f \in [S -> Nat], \A x \in S : f[x] = IF x \in K THEN k[x] ELSE 0
  PROVE  Total(f, S) = Total(k, K)
<1>1. ASSUME NEW y PROVE y \in Places(f, S) <=> y \in Places(k, K)
  <2>1. /\ y \in Places(f, S) <=> y = <<y[1], y[2]>> /\ y[1] \in S /\ y[2] \in 1 .. f[y[1]]
        /\ y \in Places(k, K) <=> y = <<y[1], y[2]>> /\ y[1] \in K /\ y[2] \in 1 .. k[y[1]]
    BY InPlaces
  <2>2. ASSUME y[1] \in S, y[1] \notin K PROVE y[2] \notin 1 .. f[y[1]]
    BY <2>2
  <2>3. ASSUME y[1] \in K PROVE y[1] \in S /\ f[y[1]] = k[y[1]]
    BY <2>3
  <2>4. QED
    BY <2>1, <2>2, <2>3
<1>2. Places(f, S) = Places(k, K)
  BY <1>1
<1>3. QED
  BY <1>2 DEF Total

\* One queue has got d images more, or has d images.
LEMMA TotalOne ==
  ASSUME NEW S, IsFiniteSet(S), NEW z \in S, NEW d \in Nat,
         NEW a \in [S -> Nat], NEW c \in [S -> Nat],
         \A x \in S : c[x] = IF x = z THEN a[x] + d ELSE a[x]
  PROVE  Total(c, S) = Total(a, S) + d
<1> DEFINE b == [x \in S |-> IF x \in {z} THEN d ELSE 0]
<1>1. b \in [S -> Nat] /\ {z} \in SUBSET S /\ \A x \in S : b[x] = IF x \in {z} THEN d ELSE 0
  OBVIOUS
<1>2. \A x \in S : c[x] = a[x] + b[x]
  OBVIOUS
<1> HIDE DEF b
<1>3. Total(b, S) = Cardinality({z}) * d
  BY <1>1, TotalEven
<1>4. Cardinality({z}) = 1
  BY FS_Singleton
<1>5. Total(c, S) = Total(a, S) + Total(b, S)
  BY <1>1, <1>2, TotalSum
<1>6. QED
  BY <1>3, <1>4, <1>5

(* ---------------------- the way of the images: invariant ------------------ *)

(* An image as it travels: a set has at least one image.                     *)
Picture == [num : Nat \ {0}, src : BOOLEAN]
DataType ==
  /\ srcQ \in [SourcePort -> Seq(Picture)] /\ srcRel \in [SourcePort -> BOOLEAN]
  /\ inQ \in [Link -> Seq(Picture)] /\ inRel \in [Link -> BOOLEAN]
  /\ usingQ \in [Link -> Seq(Picture)] /\ outQ \in [Link -> Seq(Picture)]
  /\ mInputFrameNum \in [Node -> Nat] /\ todo \in [Node -> SUBSET Link]
  /\ sink \in [Node -> {<<>>} \cup (Link \X Int)]
  /\ fed \in [SourcePort -> 0 .. NumFrames]
  /\ mFlushStatus \in FlushStatus /\ flushes \in Seq(FlushStatus)
  /\ fpc \in {"none", "nodes", "crashed"}
  /\ mSinkNumToReturn \in Int /\ complete \in Nat /\ live \in Int

(* Inside a frame of a frame-by-frame node, and at the end of notifyNextNode. *)
Streaming(n) == pc[n] \in Late /\ n \in mCurrentProcessNodes
Leaving(n) == pc[n] \in Late /\ n \notin mCurrentProcessNodes

(* The plugin, or a virtual node, has seen an image.                         *)
Worked(n) ==
  \/ pc[n] \in {"plugin", "frameIn", "frameOut", "release"}
  \/ pc[n] = "erase" /\ ok[n]
  \/ Streaming(n)
  \/ Leaving(n) /\ ok[n]
HoldsInputs(n) ==
  pc[n] \in {"output", "plugin", "frameIn"} \/ (pc[n] = "check" /\ ok[n])

TaskInv(n) ==
  /\ pc[n] = "none" => mInputFrameNum[n] = 0
  /\ pc[n] \notin Late => todo[n] = {}
  /\ pc[n] # "none" => todo[n] \subseteq OutLinks(n)
  /\ pc[n] \in {"sinkWrite", "sinkRelease"} =>
       sink[n] \in todo[n] \X Int /\ IsSink(sink[n][1])
  /\ Leaving(n) /\ ~ok[n] => \A l \in todo[n] : IsSink(l)
  /\ pc[n] \in {"frameIn", "frameOut"} \/ Streaming(n) => SigFrame(n)
  /\ pc[n] \in {"check", "output", "plugin", "frameOut"} => ~Has(n, "VIRTUAL")
  /\ Streaming(n) => ~PassesInputsOn(n)
  /\ pc[n] \in {"none", "input", "output", "plugin", "frameIn", "frameOut"}
       \/ Streaming(n) => ok[n]
  /\ Worked(n) => mInputFrameNum[n] > 0
  /\ HoldsInputs(n) => \A k \in InLinks(n) : usingQ[k] # <<>>
  /\ Leaving(n) /\ ok[n] => \A k \in InLinks(n) : usingQ[k] = <<>>

(* The link has been released and counted by notifyNextNode.                 *)
Delivered(l) ==
  /\ pc[l[1]] \in Late \cup {"done"} /\ l[1] \notin mCurrentProcessNodes
  /\ ok[l[1]] /\ l \notin todo[l[1]]
Pending(m) == {l \in InternalInputs(graph, m) : ~Delivered(l)}

Reached(n) == n \in Elems(mRunSequence) \cup mCurrentProcessNodes \/ pc[n] # "none"
ReachInv ==
  /\ graph = NoGraph => \A l \in Link : ~inRel[l]
  /\ \A n \in Node : Reached(n) => InLinks(n) # {} /\ ~TopologyError(graph)
  /\ \A n \in mCurrentProcessNodes : mDependenceNum[n] <= 0
  /\ \A l \in Link : inRel[l] /\ l \in graph.links =>
       l[2] \in Node /\ mDependenceNum[l[2]] <= 0

DependInv ==
  graph # NoGraph => \A m \in Node : ~SigFrame(m) =>
     mDependenceNum[m] >= Cardinality(Pending(m))

Over == mpc \in {"release", "move", "idle"}
Stocked(l) ==
  pc[l[2]] = "none" =>
    \/ inQ[l] # <<>>
    \/ outQ[l] # <<>>
    \/ PassesInputsOn(l[1]) /\ \E k \in InLinks(l[1]) : usingQ[k] # <<>>
StockInv ==
  \A n \in Node : Active(n) /\ mInputFrameNum[n] > 0 =>
       \A l \in OutLinks(n) : ~IsSink(l) => Stocked(l)
SupplyInv ==
  /\ graph # NoGraph /\ ~Over =>
       \A m \in Node : pc[m] = "none" => \A l \in InternalInputs(graph, m) :
         /\ mDependenceNum[m] <= 0 => inQ[l] # <<>>
         /\ ~SigFrame(m) /\ Delivered(l) => inQ[l] # <<>>
  /\ \A m \in Node : pc[m] = "input" /\ ~SigFrame(m) =>
       \A l \in InternalInputs(graph, m) : inQ[l] # <<>>

FlowInv == /\ IInv /\ DataType /\ (\A n \in Node : TaskInv(n)) /\ ReachInv
           /\ DependInv /\ StockInv /\ SupplyInv

(* ------------------------------ graph lemmas ----------------------------- *)

\* The links of all graphs are finitely many pairs.
LEMMA LinksFinite ==
  /\ IsFiniteSet(Link)
  /\ \A l \in Link : /\ l = <<l[1], l[2]>>
                     /\ l[1] \in SourcePort \cup Node /\ l[2] \in Node \cup SinkPort
                     /\ ~IsSource(l) => l[1] \in Node
                     /\ ~IsSink(l) => l[2] \in Node
<1> DEFINE P == (SourcePort \X Node) \cup (Node \X Node) \cup (Node \X SinkPort)
<1>1. /\ IsFiniteSet(SourcePort \X Node) /\ IsFiniteSet(Node \X Node)
      /\ IsFiniteSet(Node \X SinkPort)
  BY PipelineAssumption, FS_Product
<1>2. IsFiniteSet((SourcePort \X Node) \cup (Node \X Node))
  BY <1>1, FS_Union
<1>3. IsFiniteSet(P)
  BY <1>1, <1>2, FS_Union
<1>4. Link \subseteq P
  BY PipelineAssumption DEF Link
<1>5. IsFiniteSet(Link)
  <2> HIDE DEF P
  <2>1. QED
    BY <1>3, <1>4, FS_Subset
<1>6. QED
  BY <1>4, <1>5, PipelineAssumption DEF IsSource, IsSink

\* The links of the graph of the request.
LEMMA LinksOfNodes ==
  ASSUME graph \in Graphs
  PROVE  /\ graph.links \subseteq Link
         /\ \A n : InLinks(n) \subseteq Link /\ OutLinks(n) \subseteq Link
         /\ \A n \in Node : InternalInputs(graph, n) \subseteq InLinks(n)
         /\ \A n \in Node : \A l \in InLinks(n) : l[2] = n /\ ~IsSink(l)
         /\ \A n \in Node : \A l \in OutLinks(n) : l[1] = n /\ ~IsSource(l)
         /\ \A n \in Node : \A l \in InLinks(n) :
              l \in InternalInputs(graph, n) <=> ~IsSource(l)
<1>1. graph.links \subseteq Link
  BY DEF Link
<1>2. \A n : InLinks(n) \subseteq Link /\ OutLinks(n) \subseteq Link
  BY <1>1 DEF InLinks, OutLinks
<1>3. QED
  BY <1>1, <1>2, LinksFinite, PipelineAssumption
     DEF InLinks, OutLinks, InternalInputs, IsSource, IsSink

\* A frame-by-frame node of a legal graph has one input link.
LEMMA OneInput ==
  ASSUME graph \in Graphs, ~TopologyError(graph), NEW n \in Node, SigFrame(n),
         NEW l \in InLinks(n)
  PROVE  InLinks(n) = {l}
<1>1. l \in graph.links /\ ~IsSink(l) /\ l[2] = n
  BY LinksOfNodes DEF InLinks
<1>2. n \in Consumers(graph)
  BY <1>1 DEF Consumers
<1>3. InLinks(n) = {k \in graph.links : k[2] = n}
  BY DEF InLinks
<1>4. ~(Cardinality(InLinks(n)) > 1)
  BY <1>2, <1>3 DEF TopologyError, SigFrame, Has
<1>5. IsFiniteSet(InLinks(n))
  BY LinksOfNodes, LinksFinite, FS_Subset
<1>6. Cardinality(InLinks(n)) \in Nat /\ Cardinality(InLinks(n)) # 0
  BY <1>5, FS_CardinalityType, FS_EmptySet
<1>7. Cardinality(InLinks(n)) = 1
  BY <1>4, <1>6
<1>8. \E x : InLinks(n) = {x}
  BY <1>5, <1>7, FS_Singleton
<1>9. QED
  BY <1>8

\* What depends only on the graph stays while the graph stays.
LEMMA SameGraph ==
  ASSUME graph' = graph
  PROVE  /\ \A n : InLinks(n)' = InLinks(n) /\ OutLinks(n)' = OutLinks(n)
         /\ \A n, f : Has(n, f)' <=> Has(n, f)
         /\ \A n : SigFrame(n)' <=> SigFrame(n)
         /\ \A n : PassesInputsOn(n)' <=> PassesInputsOn(n)
         /\ \A n : InternalInputs(graph, n)' = InternalInputs(graph, n)
         /\ TopologyError(graph)' <=> TopologyError(graph)
BY DEF InLinks, OutLinks, Has, SigFrame, PassesInputsOn, isInplaceNode, InternalInputs,
       TopologyError, Consumers

(* What releaseInputBuffers leaves: gone are the images that n gave back,     *)
(* `lost' those of them that no one will.                                     *)
Copies(n) == IF PassesInputsOn(n) THEN OutLinks(n) ELSE {}
Refused(n) == {l \in Copies(n) : inRel[l]}
Released(n, k, gone, lost) ==
  /\ usingQ' = [l \in Link |-> IF l \in InLinks(n)
                  THEN SubSeq(usingQ[l], k[l] + 1, Len(usingQ[l])) ELSE usingQ[l]]
  /\ inQ' = [l \in Link |-> IF l \in Copies(n) \ Refused(n)
                              THEN inQ[l] \o gone ELSE inQ[l]]
  /\ live' = live - Len(gone) + Cardinality(Copies(n) \ Refused(n)) * Len(gone) + lost
  /\ Refused(n) = {} => lost = 0
  /\ UNCHANGED <<srcQ, srcRel, inRel, outQ>>

\* Whatever order releaseInputBuffers takes the images in, it pops k[l] of each input link,
\* and hands them on to every open queue of a child if the node passes its inputs on.
LEMMA ReleaseEffect ==
  ASSUME DataType, graph \in Graphs, NEW n \in Node, NEW k \in [Link -> Nat],
         \A l \in Link : k[l] <= Len(usingQ[l]), releaseInputBuffers(n, k)
  PROVE  \E gone \in Seq(Picture), lost \in Nat :
           /\ Released(n, k, gone, lost)
           /\ Len(gone) = Total(k, InLinks(n))
           /\ gone = <<>> <=> \A l \in InLinks(n) : k[l] = 0
<1> DEFINE P == Places(k, InLinks(n))
<1>1. PICK order \in PopOrders(P) :
        LET gone == [i \in DOMAIN order |-> usingQ[order[i][1]][order[i][2]]]
        IN  /\ usingQ' = [l \in Link |-> IF l \in InLinks(n)
                            THEN SubSeq(usingQ[l], k[l] + 1, Len(usingQ[l]))
                            ELSE usingQ[l]]
            /\ inQ' = [l \in Link |-> IF l \in Copies(n) \ Refused(n)
                                        THEN inQ[l] \o gone ELSE inQ[l]]
            /\ live' = live - Len(gone) + Cardinality(Copies(n)) * Len(gone)
                        - Cardinality(Refused(n))
                            * Cardinality({i \in DOMAIN gone : ~gone[i].src})
            /\ UNCHANGED <<sourceVars, inRel, outQ>>
  BY DEF releaseInputBuffers, Copies, Refused
<1> DEFINE gone == [i \in DOMAIN order |-> usingQ[order[i][1]][order[i][2]]]
           own == {i \in DOMAIN gone : ~gone[i].src}
           N == Cardinality(P)
<1>2. order \in [1 .. N -> P]
  BY DEF PopOrders
<1>3. InLinks(n) \subseteq Link /\ IsFiniteSet(InLinks(n)) /\ k \in [Link -> Nat]
  BY LinksOfNodes, LinksFinite, FS_Subset
<1>4. IsFiniteSet(P) /\ N \in Nat
  <2> DEFINE f == [x \in InLinks(n) |-> k[x]]
  <2>1. f \in [InLinks(n) -> Nat]
    BY <1>3
  <2>2. Places(f, InLinks(n)) = P
    BY DEF Places
  <2> HIDE DEF f, P
  <2>3. IsFiniteSet(P)
    BY <1>3, <2>1, <2>2, TotalType
  <2>4. QED
    BY <2>3, FS_CardinalityType
<1>5. \A y : y \in P <=> y = <<y[1], y[2]>> /\ y[1] \in InLinks(n) /\ y[2] \in 1 .. k[y[1]]
  BY InPlaces
<1> HIDE DEF P, N
<1>6. ASSUME NEW i \in 1 .. N PROVE usingQ[order[i][1]][order[i][2]] \in Picture
  <2>1. order[i] \in P
    BY <1>2
  <2>2. order[i][1] \in Link /\ order[i][2] \in 1 .. k[order[i][1]]
    BY <1>3, <1>5, <2>1
  <2>3. usingQ[order[i][1]] \in Seq(Picture) /\ k[order[i][1]] \in Nat
        /\ k[order[i][1]] <= Len(usingQ[order[i][1]])
    BY <1>3, <2>2 DEF DataType
  <2>4. order[i][2] \in 1 .. Len(usingQ[order[i][1]])
    BY <2>2, <2>3
  <2>5. QED
    BY <2>3, <2>4
<1>7. gone \in [1 .. N -> Picture]
  BY <1>2, <1>6
<1>8. gone \in Seq(Picture) /\ Len(gone) = N /\ DOMAIN gone = 1 .. N
  <2> HIDE DEF gone
  <2>1. QED
    BY <1>4, <1>7
<1>9. Cardinality(own) \in Nat /\ Cardinality(own) <= N
  <2>1. IsFiniteSet(1 .. N) /\ Cardinality(1 .. N) = N
    BY <1>4, FS_Interval
  <2>2. own \in SUBSET (1 .. N)
    BY <1>8
  <2> HIDE DEF own
  <2>3. IsFiniteSet(own) /\ Cardinality(own) <= N
    BY <2>1, <2>2, FS_Subset
  <2>4. QED
    BY <2>3, FS_CardinalityType
<1>10. /\ Cardinality(Refused(n)) \in Nat /\ Cardinality(Copies(n) \ Refused(n)) \in Nat
       /\ Cardinality(Copies(n)) = Cardinality(Copies(n) \ Refused(n)) + Cardinality(Refused(n))
       /\ Refused(n) = {} => Cardinality(Refused(n)) = 0
  <2>1. Copies(n) \subseteq Link /\ Refused(n) \subseteq Copies(n)
    BY LinksOfNodes DEF Copies, Refused
  <2>2. IsFiniteSet(Copies(n)) /\ IsFiniteSet(Refused(n)) /\ IsFiniteSet(Copies(n) \ Refused(n))
    <3>1. IsFiniteSet(Copies(n))
      BY <2>1, LinksFinite, FS_Subset
    <3>2. Copies(n) \ Refused(n) \in SUBSET Copies(n)
      OBVIOUS
    <3>3. QED
      BY <2>1, <3>1, <3>2, FS_Subset
  <2>3. Cardinality(Copies(n) \ Refused(n))
          = Cardinality(Copies(n)) - Cardinality(Copies(n) \cap Refused(n))
    BY <2>2, FS_Difference
  <2>4. Copies(n) \cap Refused(n) = Refused(n)
    BY <2>1
  <2>5. /\ Cardinality(Refused(n)) \in Nat /\ Cardinality(Copies(n) \ Refused(n)) \in Nat
        /\ Cardinality(Copies(n)) \in Nat
    BY <2>2, FS_CardinalityType
  <2>6. Cardinality(Copies(n) \ Refused(n)) = Cardinality(Copies(n)) - Cardinality(Refused(n))
    BY <2>3, <2>4
  <2>7. Refused(n) = {} => Cardinality(Refused(n)) = 0
    BY FS_EmptySet
  <2>8. QED
    BY <2>5, <2>6, <2>7
<1> DEFINE lost == Cardinality(Refused(n)) * (N - Cardinality(own))
<1>11. lost \in Nat /\ (Refused(n) = {} => lost = 0)
  <2> HIDE DEF own
  <2>1. N - Cardinality(own) \in Nat
    BY <1>4, <1>9
  <2>2. \A x, y \in Nat : x * y \in Nat
    OBVIOUS
  <2>3. lost \in Nat
    BY <1>10, <2>1, <2>2
  <2>4. 0 * (N - Cardinality(own)) = 0
    BY <2>1
  <2>5. QED
    BY <1>10, <2>3, <2>4
<1>12. live' = live - Len(gone) + Cardinality(Copies(n) \ Refused(n)) * Len(gone) + lost
  <2>1. live' = live - N + Cardinality(Copies(n)) * N - Cardinality(Refused(n)) * Cardinality(own)
    BY <1>1, <1>8
  <2>2. live \in Int
    BY DEF DataType
  <2> HIDE DEF own
  <2>3. \A c, r, a, o \in Int : (c + r) * a - r * o = c * a + r * (a - o)
    OBVIOUS
  <2>4. Cardinality(Copies(n)) * N - Cardinality(Refused(n)) * Cardinality(own)
          = Cardinality(Copies(n) \ Refused(n)) * N + lost
    BY <1>4, <1>9, <1>10, <2>3
  <2>5. /\ Cardinality(Copies(n)) * N \in Int
        /\ Cardinality(Refused(n)) * Cardinality(own) \in Int
        /\ Cardinality(Copies(n) \ Refused(n)) * N \in Int
    <3>1. \A x, y \in Int : x * y \in Int
      OBVIOUS
    <3>2. /\ Cardinality(Copies(n)) \in Int /\ N \in Int /\ Cardinality(Refused(n)) \in Int
          /\ Cardinality(own) \in Int /\ Cardinality(Copies(n) \ Refused(n)) \in Int
      BY <1>4, <1>9, <1>10
    <3>3. QED
      BY <3>1, <3>2
  <2> DEFINE u == Cardinality(Copies(n)) * N
             v == Cardinality(Refused(n)) * Cardinality(own)
             w == Cardinality(Copies(n) \ Refused(n)) * N
  <2> HIDE DEF u, v, w, lost
  <2>6. live' = live - N + u - v /\ u - v = w + lost /\ u \in Int /\ v \in Int /\ w \in Int
    BY <2>1, <2>4, <2>5 DEF u, v, w
  <2>7. live' = live - N + w + lost
    BY <1>4, <1>11, <2>2, <2>6
  <2>8. QED
    BY <1>8, <2>7 DEF w
<1>13. Released(n, k, gone, lost)
  BY <1>1, <1>11, <1>12 DEF Released, sourceVars
<1>14. gone = <<>> <=> \A l \in InLinks(n) : k[l] = 0
  <2>1. gone = <<>> <=> N = 0
    <3> HIDE DEF gone
    <3>1. QED
      BY <1>4, <1>8
  <2>2. N = 0 <=> P = {}
    BY <1>4, FS_EmptySet DEF N
  <2>3. ASSUME P = {}, NEW l \in InLinks(n) PROVE k[l] = 0
    <3>1. k[l] \in Nat
      BY <1>3
    <3>2. <<l, 1>> \notin P
      BY <2>3
    <3>3. 1 \notin 1 .. k[l]
      BY <1>5, <3>2
    <3>4. QED
      BY <3>1, <3>3
  <2>4. ASSUME \A l \in InLinks(n) : k[l] = 0 PROVE P = {}
    <3> SUFFICES ASSUME NEW y \in P PROVE FALSE
      OBVIOUS
    <3>1. y[1] \in InLinks(n) /\ y[2] \in 1 .. k[y[1]]
      BY <1>5
    <3>2. QED
      BY <2>4, <3>1
  <2>5. QED
    BY <2>1, <2>2, <2>3, <2>4
<1>15. Len(gone) = Total(k, InLinks(n))
  BY <1>8 DEF Total, N, P
<1> HIDE DEF gone, lost
<1>16. QED
  BY <1>8, <1>11, <1>13, <1>14, <1>15

\* The images that getOutputImage takes for a node that holds its inputs.
LEMMA OutputsTaken ==
  ASSUME GraphsFlow, DataType, graph \in Graphs, NEW n \in Node, InLinks(n) # {},
         \A l \in InLinks(n) : usingQ[l] # <<>>
  PROVE  NewOutputs(n) \in Seq(Picture) /\ Len(NewOutputs(n)) \in Nat \ {0}
<1>1. FirstOf(InLinks(n)) \in InLinks(n)
  BY DEF FirstOf
<1>2. FirstOf(InLinks(n)) \in Link
  BY <1>1, LinksOfNodes
<1> DEFINE q == usingQ[FirstOf(InLinks(n))]
<1>3. q \in Seq(Picture) /\ q # <<>>
  BY <1>1, <1>2 DEF DataType
<1>4. Len(q) \in 1 .. Len(q)
  BY <1>3
<1>5. Last(q) \in Picture
  BY <1>3, <1>4 DEF Last
<1>6. mergeInputNum(n) \in Nat \ {0}
  BY <1>5 DEF mergeInputNum, Picture
<1>61. Has(n, "FOLLOWINPUT") => OneInOneOut(n) /\ ~Has(n, "OTHERPORT")
  BY DEF GraphsFlow, Flows, OneInOneOut, Has, InLinks, OutLinks
<1>7. OutBufferNum(n) \in Nat \ {0}
  BY <1>6, <1>61 DEF OutBufferNum
<1> DEFINE N == IF Has(n, "SIGGETOUTPUT") /\ OutBufferNum(n) # 0
                  THEN 1 ELSE OutBufferNum(n)
<1>8. N \in Nat \ {0} /\ NewOutputs(n) \in [1 .. N -> Picture]
  BY <1>7 DEF NewOutputs, Picture
<1> HIDE DEF N
<1>9. QED
  BY <1>8

(* What a step of the task of n leaves to the other tasks.                   *)
Frame(n) ==
  /\ UNCHANGED <<graph, inRel, srcRel>>
  /\ \A m \in Node : m # n =>
       /\ pc'[m] = pc[m] /\ ok'[m] = ok[m] /\ todo'[m] = todo[m] /\ sink'[m] = sink[m]
       /\ mInputFrameNum'[m] = mInputFrameNum[m]
       /\ m \in mCurrentProcessNodes' <=> m \in mCurrentProcessNodes
  /\ \A l \in Link : /\ l[2] # n => usingQ'[l] = usingQ[l]
                     /\ l[1] # n => outQ'[l] = outQ[l]
                     /\ l[1] # n /\ l[2] # n => inQ'[l] = inQ[l]
                     /\ l[2] # n /\ inQ[l] # <<>> => inQ'[l] # <<>>

\* FrameInput gives back at most one image per link, ReleaseInputs all of them.
LEMMA HowMany ==
  ASSUME DataType
  PROVE  /\ LET k == [l \in Link |-> IF usingQ[l] = <<>> THEN 0 ELSE 1]
            IN  k \in [Link -> Nat] /\ \A l \in Link : k[l] <= Len(usingQ[l])
         /\ LET k == [l \in Link |-> Len(usingQ[l])]
            IN  k \in [Link -> Nat] /\ \A l \in Link : k[l] <= Len(usingQ[l])
BY DEF DataType

\* A task touches its own state, the images of its links, and what it hands on.
LEMMA NodeFrame ==
  ASSUME FlowInv, NEW n \in Node, NodeStep(n)
  PROVE  Frame(n)
<1>01. /\ pc \in [Node -> NodeState] /\ ok \in [Node -> BOOLEAN]
       /\ mInputFrameNum \in [Node -> Nat] /\ todo \in [Node -> SUBSET Link]
       /\ sink \in [Node -> {<<>>} \cup (Link \X Int)]
       /\ srcQ \in [SourcePort -> Seq(Picture)]
       /\ inQ \in [Link -> Seq(Picture)]
       /\ usingQ \in [Link -> Seq(Picture)] /\ outQ \in [Link -> Seq(Picture)]
       /\ TaskInv(n)
  BY DEF FlowInv, IInv, TypeInv, DataType
<1>02. Active(n) /\ graph \in Graphs
  BY NodeMoves DEF FlowInv, IInv, NodeMove
<1>03. /\ \A x \in InLinks(n) : x \in Link /\ x[2] = n
       /\ \A x \in OutLinks(n) : x \in Link /\ x[1] = n
  BY <1>02, LinksOfNodes
<1> USE DEF At, Goto, Fail, notNode, given, schedVars, clientVars, resultVars, queueVars,
            sourceVars, linkVars
<1>1. ASSUME NEW l \in Link, getFrame(n, l) PROVE Frame(n)
  <2>1. /\ UNCHANGED <<graph, inRel, srcRel>>
        /\ \A m \in Node : m # n =>
             /\ pc'[m] = pc[m] /\ ok'[m] = ok[m] /\ todo'[m] = todo[m] /\ sink'[m] = sink[m]
             /\ mInputFrameNum'[m] = mInputFrameNum[m]
             /\ m \in mCurrentProcessNodes' <=> m \in mCurrentProcessNodes
    BY <1>01, <1>1 DEF getFrame, AfterFrame, Take
  <2>2. /\ \A x \in Link : x[2] # n => usingQ'[x] = usingQ[x]
        /\ \A x \in Link : x[1] # n => outQ'[x] = outQ[x]
        /\ \A x \in Link : x[1] # n /\ x[2] # n => inQ'[x] = inQ[x]
        /\ \A x \in Link : x[2] # n /\ inQ[x] # <<>> => inQ'[x] # <<>>
    BY <1>01, <1>03, <1>1 DEF getFrame, AfterFrame, Take, SourceMissing
  <2>3. QED
    BY <2>1, <2>2 DEF Frame
<1>2. ASSUME NEW l \in Link, getSourceImage(n, l) PROVE Frame(n)
  <2>1. /\ UNCHANGED <<graph, inRel, srcRel>>
        /\ \A m \in Node : m # n =>
             /\ pc'[m] = pc[m] /\ ok'[m] = ok[m] /\ todo'[m] = todo[m] /\ sink'[m] = sink[m]
             /\ mInputFrameNum'[m] = mInputFrameNum[m]
             /\ m \in mCurrentProcessNodes' <=> m \in mCurrentProcessNodes
    BY <1>01, <1>2 DEF getSourceImage, Take
  <2>2. /\ \A x \in Link : x[2] # n => usingQ'[x] = usingQ[x]
        /\ \A x \in Link : x[1] # n => outQ'[x] = outQ[x]
        /\ \A x \in Link : x[1] # n /\ x[2] # n => inQ'[x] = inQ[x]
        /\ \A x \in Link : x[2] # n /\ inQ[x] # <<>> => inQ'[x] # <<>>
    BY <1>01, <1>03, <1>2 DEF getSourceImage, Take, SourceMissing
  <2>3. QED
    BY <2>1, <2>2 DEF Frame
<1>3. ASSUME NEW l \in Link, InputFails(n, l) PROVE Frame(n)
  <2>1. UNCHANGED <<graph, inRel, srcRel, inQ, usingQ, outQ>>
    BY <1>3 DEF InputFails, InputEnded
  <2>2. \A m \in Node : m # n =>
          /\ pc'[m] = pc[m] /\ ok'[m] = ok[m] /\ todo'[m] = todo[m] /\ sink'[m] = sink[m]
          /\ mInputFrameNum'[m] = mInputFrameNum[m]
          /\ m \in mCurrentProcessNodes' <=> m \in mCurrentProcessNodes
    BY <1>01, <1>3 DEF InputFails, InputEnded
  <2>3. QED
    BY <2>1, <2>2 DEF Frame
<1>4. ASSUME NEW l \in Link, releaseOutBuffers(n, l) PROVE Frame(n)
  <2>1. /\ UNCHANGED <<graph, inRel, srcRel>>
        /\ \A m \in Node : m # n =>
             /\ pc'[m] = pc[m] /\ ok'[m] = ok[m] /\ todo'[m] = todo[m] /\ sink'[m] = sink[m]
             /\ mInputFrameNum'[m] = mInputFrameNum[m]
             /\ m \in mCurrentProcessNodes' <=> m \in mCurrentProcessNodes
    BY <1>01, <1>4 DEF releaseOutBuffers
  <2>2. l[1] = n
    BY <1>01, <1>02, <1>03, <1>4 DEF releaseOutBuffers, TaskInv, Active
  <2> DEFINE k == IF n \in mCurrentProcessNodes /\ outQ[l] # <<>> THEN 1 ELSE Len(outQ[l])
  <2>3. /\ outQ' = [outQ EXCEPT ![l] = SubSeq(@, k + 1, Len(@))]
        /\ inQ' = [inQ EXCEPT ![l] = IF inRel[l] THEN @ ELSE @ \o SubSeq(outQ[l], 1, k)]
        /\ usingQ' = usingQ
    BY <1>4 DEF releaseOutBuffers
  <2>4. SubSeq(outQ[l], 1, k) \in Seq(Picture)
    BY <1>01
  <2> HIDE DEF k
  <2>5. \A x \in Link : inQ[x] # <<>> => inQ'[x] # <<>>
    BY <1>01, <2>3, <2>4
  <2>6. /\ \A x \in Link : x[2] # n => usingQ'[x] = usingQ[x]
        /\ \A x \in Link : x[1] # n => outQ'[x] = outQ[x]
        /\ \A x \in Link : x[1] # n /\ x[2] # n => inQ'[x] = inQ[x]
        /\ \A x \in Link : x[2] # n /\ inQ[x] # <<>> => inQ'[x] # <<>>
    BY <1>01, <2>2, <2>3, <2>5
  <2>7. QED
    BY <2>1, <2>6 DEF Frame
<1>5. ASSUME NEW l \in Link, SinkRead(n, l) PROVE Frame(n)
  <2>1. UNCHANGED <<graph, inRel, srcRel, inQ, usingQ, outQ>>
    BY <1>5 DEF SinkRead
  <2>2. \A m \in Node : m # n =>
          /\ pc'[m] = pc[m] /\ ok'[m] = ok[m] /\ todo'[m] = todo[m] /\ sink'[m] = sink[m]
          /\ mInputFrameNum'[m] = mInputFrameNum[m]
          /\ m \in mCurrentProcessNodes' <=> m \in mCurrentProcessNodes
    BY <1>01, <1>5 DEF SinkRead
  <2>3. QED
    BY <2>1, <2>2 DEF Frame
<1>6. ASSUME getInputImage(n) PROVE Frame(n)
  <2>1. /\ UNCHANGED <<graph, inRel, srcRel>>
        /\ \A m \in Node : m # n =>
             /\ pc'[m] = pc[m] /\ ok'[m] = ok[m] /\ todo'[m] = todo[m] /\ sink'[m] = sink[m]
             /\ mInputFrameNum'[m] = mInputFrameNum[m]
             /\ m \in mCurrentProcessNodes' <=> m \in mCurrentProcessNodes
    BY <1>01, <1>6 DEF getInputImage
  <2>2. /\ \A x \in Link : x[2] # n => usingQ'[x] = usingQ[x]
        /\ \A x \in Link : x[1] # n => outQ'[x] = outQ[x]
        /\ \A x \in Link : x[1] # n /\ x[2] # n => inQ'[x] = inQ[x]
        /\ \A x \in Link : x[2] # n /\ inQ[x] # <<>> => inQ'[x] # <<>>
    BY <1>01, <1>03, <1>6 DEF getInputImage, SourceMissing
  <2>3. QED
    BY <2>1, <2>2 DEF Frame
<1>7. ASSUME checkTaskEffectiveness(n) PROVE Frame(n)
  <2>1. UNCHANGED <<graph, inRel, srcRel, inQ, usingQ, outQ>>
    BY <1>7 DEF checkTaskEffectiveness
  <2>2. \A m \in Node : m # n =>
          /\ pc'[m] = pc[m] /\ ok'[m] = ok[m] /\ todo'[m] = todo[m] /\ sink'[m] = sink[m]
          /\ mInputFrameNum'[m] = mInputFrameNum[m]
          /\ m \in mCurrentProcessNodes' <=> m \in mCurrentProcessNodes
    BY <1>01, <1>7 DEF checkTaskEffectiveness
  <2>3. QED
    BY <2>1, <2>2 DEF Frame
<1>8. ASSUME getOutputImage(n) PROVE Frame(n)
  <2>1. /\ UNCHANGED <<graph, inRel, srcRel>>
        /\ \A m \in Node : m # n =>
             /\ pc'[m] = pc[m] /\ ok'[m] = ok[m] /\ todo'[m] = todo[m] /\ sink'[m] = sink[m]
             /\ mInputFrameNum'[m] = mInputFrameNum[m]
             /\ m \in mCurrentProcessNodes' <=> m \in mCurrentProcessNodes
    BY <1>01, <1>8 DEF getOutputImage, Acquire
  <2>2. /\ \A x \in Link : x[2] # n => usingQ'[x] = usingQ[x]
        /\ \A x \in Link : x[1] # n => outQ'[x] = outQ[x]
        /\ \A x \in Link : x[1] # n /\ x[2] # n => inQ'[x] = inQ[x]
        /\ \A x \in Link : x[2] # n /\ inQ[x] # <<>> => inQ'[x] # <<>>
    BY <1>01, <1>03, <1>8 DEF getOutputImage, Acquire, SourceMissing
  <2>3. QED
    BY <2>1, <2>2 DEF Frame
<1>9. ASSUME OutputFails(n) PROVE Frame(n)
  <2>1. /\ UNCHANGED <<graph, inRel, srcRel>>
        /\ \A m \in Node : m # n =>
             /\ pc'[m] = pc[m] /\ ok'[m] = ok[m] /\ todo'[m] = todo[m] /\ sink'[m] = sink[m]
             /\ mInputFrameNum'[m] = mInputFrameNum[m]
             /\ m \in mCurrentProcessNodes' <=> m \in mCurrentProcessNodes
    BY <1>01, <1>9 DEF OutputFails, Acquire
  <2>2. /\ \A x \in Link : x[2] # n => usingQ'[x] = usingQ[x]
        /\ \A x \in Link : x[1] # n => outQ'[x] = outQ[x]
        /\ \A x \in Link : x[1] # n /\ x[2] # n => inQ'[x] = inQ[x]
        /\ \A x \in Link : x[2] # n /\ inQ[x] # <<>> => inQ'[x] # <<>>
    BY <1>01, <1>03, <1>9 DEF OutputFails, Acquire, SourceMissing
  <2>3. QED
    BY <2>1, <2>2 DEF Frame
<1>10. ASSUME PluginReturns(n) PROVE Frame(n)
  <2>1. UNCHANGED <<graph, inRel, srcRel, inQ, usingQ, outQ>>
    BY <1>10 DEF PluginReturns
  <2>2. \A m \in Node : m # n =>
          /\ pc'[m] = pc[m] /\ ok'[m] = ok[m] /\ todo'[m] = todo[m] /\ sink'[m] = sink[m]
          /\ mInputFrameNum'[m] = mInputFrameNum[m]
          /\ m \in mCurrentProcessNodes' <=> m \in mCurrentProcessNodes
    BY <1>01, <1>10 DEF PluginReturns
  <2>3. QED
    BY <2>1, <2>2 DEF Frame
<1>11. ASSUME PluginFails(n) PROVE Frame(n)
  <2>1. UNCHANGED <<graph, inRel, srcRel, inQ, usingQ, outQ>>
    BY <1>11 DEF PluginFails
  <2>2. \A m \in Node : m # n =>
          /\ pc'[m] = pc[m] /\ ok'[m] = ok[m] /\ todo'[m] = todo[m] /\ sink'[m] = sink[m]
          /\ mInputFrameNum'[m] = mInputFrameNum[m]
          /\ m \in mCurrentProcessNodes' <=> m \in mCurrentProcessNodes
    BY <1>01, <1>11 DEF PluginFails
  <2>3. QED
    BY <2>1, <2>2 DEF Frame
<1>12. ASSUME FrameInput(n) PROVE Frame(n)
  <2> DEFINE k == [x \in Link |-> IF usingQ[x] = <<>> THEN 0 ELSE 1]
  <2>0. k \in [Link -> Nat] /\ \A x \in Link : k[x] <= Len(usingQ[x])
    BY HowMany DEF FlowInv
  <2>1. /\ UNCHANGED graph
        /\ \A m \in Node : m # n =>
             /\ pc'[m] = pc[m] /\ ok'[m] = ok[m] /\ todo'[m] = todo[m] /\ sink'[m] = sink[m]
             /\ mInputFrameNum'[m] = mInputFrameNum[m]
             /\ m \in mCurrentProcessNodes' <=> m \in mCurrentProcessNodes
    BY <1>01, <1>12 DEF FrameInput
  <2>2. ASSUME releaseInputBuffers(n, k)
        PROVE  /\ UNCHANGED <<inRel, srcRel>>
               /\ \A x \in Link : x[2] # n => usingQ'[x] = usingQ[x]
               /\ \A x \in Link : x[1] # n => outQ'[x] = outQ[x]
               /\ \A x \in Link : x[1] # n /\ x[2] # n => inQ'[x] = inQ[x]
               /\ \A x \in Link : x[2] # n /\ inQ[x] # <<>> => inQ'[x] # <<>>
    <3> HIDE DEF k
    <3>1. PICK gone \in Seq(Picture), lost \in Nat : Released(n, k, gone, lost)
      BY <1>02, <2>0, <2>2, ReleaseEffect DEF FlowInv
    <3>2. \A x \in Copies(n) : x[1] = n
      BY <1>03 DEF Copies
    <3>3. /\ \A x \in Link : x[2] # n => usingQ'[x] = usingQ[x]
          /\ \A x \in Link : x[1] # n => outQ'[x] = outQ[x]
          /\ \A x \in Link : x[1] # n /\ x[2] # n => inQ'[x] = inQ[x]
      BY <1>01, <1>03, <3>1, <3>2 DEF Released
    <3>4. ASSUME NEW x \in Link, inQ[x] # <<>> PROVE inQ'[x] # <<>>
      <4>1. inQ'[x] = inQ[x] \/ inQ'[x] = inQ[x] \o gone
        BY <3>1 DEF Released
      <4>2. QED
        BY <1>01, <3>1, <3>4, <4>1
    <3>5. UNCHANGED <<inRel, srcRel>>
      BY <3>1 DEF Released
    <3>6. QED
      BY <3>3, <3>4, <3>5
  <2>3. releaseInputBuffers(n, k) \/ UNCHANGED queueVars
    BY <1>12 DEF FrameInput
  <2>4. QED
    BY <2>1, <2>2, <2>3 DEF Frame
<1>13. ASSUME FrameOutput(n) PROVE Frame(n)
  <2>1. UNCHANGED <<graph, inRel, srcRel, inQ, usingQ, outQ>>
    BY <1>13 DEF FrameOutput
  <2>2. \A m \in Node : m # n =>
          /\ pc'[m] = pc[m] /\ ok'[m] = ok[m] /\ todo'[m] = todo[m] /\ sink'[m] = sink[m]
          /\ mInputFrameNum'[m] = mInputFrameNum[m]
          /\ m \in mCurrentProcessNodes' <=> m \in mCurrentProcessNodes
    BY <1>01, <1>13 DEF FrameOutput
  <2>3. QED
    BY <2>1, <2>2 DEF Frame
<1>14. ASSUME FrameEnds(n) PROVE Frame(n)
  <2>1. UNCHANGED <<graph, inRel, srcRel, inQ, usingQ, outQ>>
    BY <1>14 DEF FrameEnds
  <2>2. \A m \in Node : m # n =>
          /\ pc'[m] = pc[m] /\ ok'[m] = ok[m] /\ todo'[m] = todo[m] /\ sink'[m] = sink[m]
          /\ mInputFrameNum'[m] = mInputFrameNum[m]
          /\ m \in mCurrentProcessNodes' <=> m \in mCurrentProcessNodes
    BY <1>01, <1>14 DEF FrameEnds
  <2>3. QED
    BY <2>1, <2>2 DEF Frame
<1>15. ASSUME EraseCurrent(n) PROVE Frame(n)
  <2>1. UNCHANGED <<graph, inRel, srcRel, inQ, usingQ, outQ>>
    BY <1>15 DEF EraseCurrent
  <2>2. \A m \in Node : m # n =>
          /\ pc'[m] = pc[m] /\ ok'[m] = ok[m] /\ todo'[m] = todo[m] /\ sink'[m] = sink[m]
          /\ mInputFrameNum'[m] = mInputFrameNum[m]
          /\ m \in mCurrentProcessNodes' <=> m \in mCurrentProcessNodes
    BY <1>01, <1>15 DEF EraseCurrent
  <2>3. QED
    BY <2>1, <2>2 DEF Frame
<1>16. ASSUME AbnormalCallback(n) PROVE Frame(n)
  <2>1. UNCHANGED <<graph, inRel, srcRel, inQ, usingQ, outQ>>
    BY <1>16 DEF AbnormalCallback
  <2>2. \A m \in Node : m # n =>
          /\ pc'[m] = pc[m] /\ ok'[m] = ok[m] /\ todo'[m] = todo[m] /\ sink'[m] = sink[m]
          /\ mInputFrameNum'[m] = mInputFrameNum[m]
          /\ m \in mCurrentProcessNodes' <=> m \in mCurrentProcessNodes
    BY <1>01, <1>16 DEF AbnormalCallback
  <2>3. QED
    BY <2>1, <2>2 DEF Frame
<1>17. ASSUME ReleaseInputs(n) PROVE Frame(n)
  <2> DEFINE k == [x \in Link |-> Len(usingQ[x])]
  <2>0. k \in [Link -> Nat] /\ \A x \in Link : k[x] <= Len(usingQ[x])
    BY HowMany DEF FlowInv
  <2>1. /\ UNCHANGED graph
        /\ \A m \in Node : m # n =>
             /\ pc'[m] = pc[m] /\ ok'[m] = ok[m] /\ todo'[m] = todo[m] /\ sink'[m] = sink[m]
             /\ mInputFrameNum'[m] = mInputFrameNum[m]
             /\ m \in mCurrentProcessNodes' <=> m \in mCurrentProcessNodes
    BY <1>01, <1>17 DEF ReleaseInputs
  <2>2. releaseInputBuffers(n, k)
    BY <1>17 DEF ReleaseInputs
  <2>3. /\ UNCHANGED <<inRel, srcRel>>
        /\ \A x \in Link : x[2] # n => usingQ'[x] = usingQ[x]
        /\ \A x \in Link : x[1] # n => outQ'[x] = outQ[x]
        /\ \A x \in Link : x[1] # n /\ x[2] # n => inQ'[x] = inQ[x]
        /\ \A x \in Link : x[2] # n /\ inQ[x] # <<>> => inQ'[x] # <<>>
    <3> HIDE DEF k
    <3>1. PICK gone \in Seq(Picture), lost \in Nat : Released(n, k, gone, lost)
      BY <1>02, <2>0, <2>2, ReleaseEffect DEF FlowInv
    <3>2. \A x \in Copies(n) : x[1] = n
      BY <1>03 DEF Copies
    <3>3. /\ \A x \in Link : x[2] # n => usingQ'[x] = usingQ[x]
          /\ \A x \in Link : x[1] # n => outQ'[x] = outQ[x]
          /\ \A x \in Link : x[1] # n /\ x[2] # n => inQ'[x] = inQ[x]
      BY <1>01, <1>03, <3>1, <3>2 DEF Released
    <3>4. ASSUME NEW x \in Link, inQ[x] # <<>> PROVE inQ'[x] # <<>>
      <4>1. inQ'[x] = inQ[x] \/ inQ'[x] = inQ[x] \o gone
        BY <3>1 DEF Released
      <4>2. QED
        BY <1>01, <3>1, <3>4, <4>1
    <3>5. UNCHANGED <<inRel, srcRel>>
      BY <3>1 DEF Released
    <3>6. QED
      BY <3>3, <3>4, <3>5
  <2>4. QED
    BY <2>1, <2>3 DEF Frame
<1>18. ASSUME SinkWrite(n) PROVE Frame(n)
  <2>1. UNCHANGED <<graph, inRel, srcRel, inQ, usingQ, outQ>>
    BY <1>18 DEF SinkWrite
  <2>2. \A m \in Node : m # n =>
          /\ pc'[m] = pc[m] /\ ok'[m] = ok[m] /\ todo'[m] = todo[m] /\ sink'[m] = sink[m]
          /\ mInputFrameNum'[m] = mInputFrameNum[m]
          /\ m \in mCurrentProcessNodes' <=> m \in mCurrentProcessNodes
    BY <1>01, <1>18 DEF SinkWrite
  <2>3. QED
    BY <2>1, <2>2 DEF Frame
<1>19. ASSUME SinkRelease(n) PROVE Frame(n)
  <2>1. /\ UNCHANGED <<graph, inRel, srcRel>>
        /\ \A m \in Node : m # n =>
             /\ pc'[m] = pc[m] /\ ok'[m] = ok[m] /\ todo'[m] = todo[m] /\ sink'[m] = sink[m]
             /\ mInputFrameNum'[m] = mInputFrameNum[m]
             /\ m \in mCurrentProcessNodes' <=> m \in mCurrentProcessNodes
    BY <1>01, <1>19 DEF SinkRelease
  <2>2. sink[n][1] \in OutLinks(n)
    BY <1>01, <1>19 DEF SinkRelease, TaskInv
  <2>3. /\ \A x \in Link : x[2] # n => usingQ'[x] = usingQ[x]
        /\ \A x \in Link : x[1] # n => outQ'[x] = outQ[x]
        /\ \A x \in Link : x[1] # n /\ x[2] # n => inQ'[x] = inQ[x]
        /\ \A x \in Link : x[2] # n /\ inQ[x] # <<>> => inQ'[x] # <<>>
    BY <1>01, <1>03, <2>2, <1>19 DEF SinkRelease
  <2>4. QED
    BY <2>1, <2>3 DEF Frame
<1>20. ASSUME NodeEnds(n) PROVE Frame(n)
  <2>1. UNCHANGED <<graph, inRel, srcRel, inQ, usingQ, outQ>>
    BY <1>20 DEF NodeEnds, EndRequest
  <2>2. \A m \in Node : m # n =>
          /\ pc'[m] = pc[m] /\ ok'[m] = ok[m] /\ todo'[m] = todo[m] /\ sink'[m] = sink[m]
          /\ mInputFrameNum'[m] = mInputFrameNum[m]
          /\ m \in mCurrentProcessNodes' <=> m \in mCurrentProcessNodes
    BY <1>01, <1>20 DEF NodeEnds, EndRequest
  <2>3. QED
    BY <2>1, <2>2 DEF Frame
<1> HIDE DEF At, Goto, Fail, notNode, given, schedVars, clientVars, resultVars, queueVars,
             sourceVars, linkVars
<1>21. QED
  BY <1>1, <1>2, <1>3, <1>4, <1>5, <1>6, <1>7, <1>8, <1>9, <1>10, <1>11, <1>12, <1>13,
     <1>14, <1>15, <1>16, <1>17, <1>18, <1>19, <1>20 DEF NodeStep

\* Nothing comes after the last element.
LEMMA NothingLeft ==
  ASSUME NEW S, NEW q \in Seq(S)
  PROVE  SubSeq(q, Len(q) + 1, Len(q)) = <<>>
<1>1. Len(q) \in Nat
  OBVIOUS
<1>2. SubSeq(q, Len(q) + 1, Len(q)) \in Seq(S) /\ Len(SubSeq(q, Len(q) + 1, Len(q))) = 0
  BY <1>1
<1>3. QED
  BY <1>2

\* A step of a task keeps what is known of that task.
LEMMA TaskOwnStep ==
  ASSUME GraphsFlow, FlowInv, NEW n \in Node, NodeStep(n)
  PROVE  TaskInv(n)'
<1>01. /\ pc \in [Node -> NodeState] /\ ok \in [Node -> BOOLEAN]
       /\ mInputFrameNum \in [Node -> Nat] /\ todo \in [Node -> SUBSET Link]
       /\ sink \in [Node -> {<<>>} \cup (Link \X Int)]
       /\ srcQ \in [SourcePort -> Seq(Picture)]
       /\ inQ \in [Link -> Seq(Picture)]
       /\ usingQ \in [Link -> Seq(Picture)] /\ outQ \in [Link -> Seq(Picture)]
       /\ TaskInv(n)
  BY DEF FlowInv, IInv, TypeInv, DataType
<1>02. Active(n) /\ graph \in Graphs
  BY NodeMoves DEF FlowInv, IInv, NodeMove
<1>03. /\ \A x \in InLinks(n) : x \in Link /\ x[2] = n
       /\ \A x \in OutLinks(n) : x \in Link /\ x[1] = n
  BY <1>02, LinksOfNodes
<1>00. TaskInv(n) /\ ok[n] \in BOOLEAN /\ ok'[n] \in BOOLEAN
  BY TypeStep, <1>01 DEF FlowInv, IInv, TypeInv, Next, vars
<1>040. graph' = graph
  BY NodeFrame DEF Frame
<1>04. /\ graph' = graph
       /\ InLinks(n)' = InLinks(n) /\ OutLinks(n)' = OutLinks(n)
       /\ \A f : Has(n, f)' <=> Has(n, f)
       /\ SigFrame(n)' <=> SigFrame(n)
       /\ PassesInputsOn(n)' <=> PassesInputsOn(n)
  BY <1>040, SameGraph
<1>05. /\ pc[n] \in Early => n \in mCurrentProcessNodes
       /\ pc[n] \in {"abnormal", "release", "done"} => n \notin mCurrentProcessNodes
       /\ pc[n] = "abnormal" => ~ok[n]
       /\ pc[n] = "release" => ok[n]
  BY DEF FlowInv, IInv, ProcessInv, ReportInv, Early
<1>06. InLinks(n) # {} /\ ~TopologyError(graph)
  BY <1>02 DEF FlowInv, ReachInv, Reached, Active
<1>07. Has(n, "VIRTUAL") => SigFrame(n)
  BY <1>02 DEF GraphsFlow, Flows, Has, SigFrame
<1>08. mSinkNumToReturn \in Int
  BY DEF FlowInv, DataType
<1> USE DEF At, Goto, Fail, notNode, given, schedVars, clientVars, resultVars, queueVars,
            sourceVars, linkVars
<1>1. ASSUME NEW l \in Link, getFrame(n, l) PROVE TaskInv(n)'
  <2>1. /\ pc[n] = "input" /\ ok[n] /\ todo[n] = {} /\ n \in mCurrentProcessNodes
    BY <1>00, <1>05, <1>1 DEF getFrame, AfterFrame, Take, TaskInv, Early, Late
  <2>2. InLinks(n) = {l} /\ SigFrame(n)
    BY <1>02, <1>06, <1>1, OneInput DEF getFrame
  <2>3. PICK image : /\ usingQ' = [usingQ EXCEPT ![l] = Append(@, image)]
                     /\ AfterFrame(n, image)
                     /\ UNCHANGED <<ok, todo, sink, mCurrentProcessNodes>>
    BY <1>1 DEF getFrame, Take
  <2>4. usingQ'[l] # <<>>
    <3>1. usingQ'[l] = Append(usingQ[l], image) /\ usingQ[l] \in Seq(Picture)
      BY <1>01, <2>3
    <3>2. Append(usingQ[l], image) # <<>>
      <4>1. Len(Append(usingQ[l], image)) = Len(usingQ[l]) + 1 /\ Len(usingQ[l]) \in Nat
        BY <3>1
      <4>2. QED
        BY <4>1
    <3>3. QED
      BY <3>1, <3>2
  <2>5. \/ pc'[n] = "check" /\ ~Has(n, "VIRTUAL")
        \/ pc'[n] \in {"erase", "frameIn"} /\ mInputFrameNum'[n] > 0
    BY <1>01, <2>3 DEF AfterFrame
  <2>6. QED
    BY <1>00, <1>04, <2>1, <2>2, <2>3, <2>4, <2>5
       DEF TaskInv, Worked, HoldsInputs, Streaming, Leaving, Early, Late
<1>2. ASSUME NEW l \in Link, getSourceImage(n, l) PROVE TaskInv(n)'
  <2>1. /\ pc[n] = "input" /\ pc'[n] = "input"
        /\ usingQ' \in [Link -> Seq(Picture)] \/ TRUE
        /\ ok'[n] = ok[n]
        /\ todo'[n] = todo[n]
        /\ sink'[n] = sink[n]
        /\ mInputFrameNum'[n] = mInputFrameNum[n]
        /\ (n \in mCurrentProcessNodes' <=> n \in mCurrentProcessNodes)
    BY <1>01, <1>05, <1>2 DEF getSourceImage, Take
  <2>2. QED
    BY <1>00, <1>04, <1>05, <2>1 DEF TaskInv, Worked, HoldsInputs, Streaming, Leaving, Early, Late
<1>3. ASSUME NEW l \in Link, InputFails(n, l) PROVE TaskInv(n)'
  <2>1. /\ pc[n] = "input" /\ pc'[n] \in {"check", "erase"} /\ ~ok'[n]
        /\ pc'[n] = "check" => ~Has(n, "VIRTUAL")
        /\ todo'[n] = todo[n]
        /\ sink'[n] = sink[n]
        /\ mInputFrameNum'[n] = mInputFrameNum[n]
        /\ (n \in mCurrentProcessNodes' <=> n \in mCurrentProcessNodes)
        /\ usingQ' = usingQ
    BY <1>01, <1>07, <1>3 DEF InputFails, InputEnded
  <2>2. QED
    BY <1>00, <1>04, <1>05, <2>1 DEF TaskInv, Worked, HoldsInputs, Streaming, Leaving, Early, Late
<1>4. ASSUME NEW l \in Link, releaseOutBuffers(n, l) PROVE TaskInv(n)'
  <2>1. /\ pc[n] = "links" /\ pc'[n] = "links"
        /\ todo'[n] = todo[n] \ {l}
        /\ ok'[n] = ok[n]
        /\ sink'[n] = sink[n]
        /\ mInputFrameNum'[n] = mInputFrameNum[n]
        /\ (n \in mCurrentProcessNodes' <=> n \in mCurrentProcessNodes)
        /\ usingQ' = usingQ
    BY <1>01, <1>05, <1>4 DEF releaseOutBuffers
  <2>2. QED
    BY <1>00, <1>04, <1>05, <2>1 DEF TaskInv, Worked, HoldsInputs, Streaming, Leaving, Early, Late
<1>5. ASSUME NEW l \in Link, SinkRead(n, l) PROVE TaskInv(n)'
  <2>1. /\ pc[n] = "links" /\ pc'[n] = "sinkWrite"
        /\ l \in todo[n] /\ IsSink(l)
        /\ sink'[n] \in todo[n] \X Int /\ sink'[n][1] = l
        /\ ok'[n] = ok[n]
        /\ todo'[n] = todo[n]
        /\ mInputFrameNum'[n] = mInputFrameNum[n]
        /\ (n \in mCurrentProcessNodes' <=> n \in mCurrentProcessNodes)
        /\ usingQ' = usingQ
    BY <1>01, <1>08, <1>5 DEF SinkRead
  <2>2. QED
    BY <1>00, <1>04, <1>05, <2>1 DEF TaskInv, Worked, HoldsInputs, Streaming, Leaving, Early, Late
<1>6. ASSUME getInputImage(n) PROVE TaskInv(n)'
  <2>1. /\ pc[n] = "input" /\ ~SigFrame(n) /\ ok[n] /\ todo[n] = {}
    BY <1>01, <1>6 DEF getInputImage, TaskInv, Late
  <2>2. ~Has(n, "VIRTUAL") /\ n \in mCurrentProcessNodes
    BY <1>05, <1>07, <2>1 DEF Early
  <2>3. ASSUME NEW x \in InLinks(n) PROVE usingQ'[x] # <<>>
    <3>1. x \in Link /\ usingQ'[x] = usingQ[x] \o inQ[x]
      BY <1>03, <1>6 DEF getInputImage
    <3>2. CASE IsSource(x)
      <4>1. usingQ[x] # <<>>
        BY <3>2, <1>6 DEF getInputImage, SourceMissing
      <4>2. QED
        BY <1>01, <3>1, <4>1
    <3>3. CASE ~IsSource(x)
      <4>1. x \in InternalInputs(graph, n)
        BY <1>02, <3>3, LinksOfNodes
      <4>2. inQ[x] # <<>>
        BY <2>1, <4>1 DEF FlowInv, SupplyInv
      <4>3. QED
        BY <1>01, <3>1, <4>2
    <3>4. QED
      BY <3>2, <3>3
  <2>4. /\ pc'[n] = "check"
        /\ UNCHANGED <<ok, todo, sink, mInputFrameNum, mCurrentProcessNodes>>
    BY <1>01, <2>2, <1>6 DEF getInputImage
  <2>5. QED
    BY <1>00, <1>04, <2>1, <2>2, <2>3, <2>4
       DEF TaskInv, Worked, HoldsInputs, Streaming, Leaving, Early, Late
<1>7. ASSUME checkTaskEffectiveness(n) PROVE TaskInv(n)'
  <2>1. /\ pc[n] = "check" /\ pc'[n] \in {"output", "erase"}
        /\ pc'[n] = "output" => ok[n] /\ ok'[n]
        /\ pc'[n] = "erase" /\ ok'[n] => mInputFrameNum[n] > 0
        /\ todo'[n] = todo[n]
        /\ sink'[n] = sink[n]
        /\ mInputFrameNum'[n] = mInputFrameNum[n]
        /\ (n \in mCurrentProcessNodes' <=> n \in mCurrentProcessNodes)
        /\ usingQ' = usingQ
    BY <1>01, <1>05, <1>7 DEF checkTaskEffectiveness
  <2>2. QED
    BY <1>00, <1>04, <1>05, <2>1 DEF TaskInv, Worked, HoldsInputs, Streaming, Leaving, Early, Late
<1>8. ASSUME getOutputImage(n) PROVE TaskInv(n)'
  <2>1. /\ pc[n] = "output" /\ pc'[n] = "plugin"
        /\ mInputFrameNum'[n] > 0
        /\ ok'[n] = ok[n]
        /\ todo'[n] = todo[n]
        /\ sink'[n] = sink[n]
        /\ (n \in mCurrentProcessNodes' <=> n \in mCurrentProcessNodes)
        /\ usingQ' = usingQ
    BY <1>01, <1>05, <1>8 DEF getOutputImage, Acquire
  <2>2. QED
    BY <1>00, <1>04, <1>05, <2>1 DEF TaskInv, Worked, HoldsInputs, Streaming, Leaving, Early, Late
<1>9. ASSUME OutputFails(n) PROVE TaskInv(n)'
  <2>1. /\ pc[n] = "output" /\ pc'[n] = "erase"
        /\ ~ok'[n]
        /\ todo'[n] = todo[n]
        /\ sink'[n] = sink[n]
        /\ mInputFrameNum'[n] = mInputFrameNum[n]
        /\ (n \in mCurrentProcessNodes' <=> n \in mCurrentProcessNodes)
        /\ usingQ' = usingQ
    BY <1>01, <1>05, <1>9 DEF OutputFails, Acquire
  <2>2. QED
    BY <1>00, <1>04, <1>05, <2>1 DEF TaskInv, Worked, HoldsInputs, Streaming, Leaving, Early, Late
<1>10. ASSUME PluginReturns(n) PROVE TaskInv(n)'
  <2>1. /\ pc[n] = "plugin" /\ pc'[n] \in {"frameIn", "erase"}
        /\ pc'[n] = "frameIn" => SigFrame(n)
        /\ ok'[n] = ok[n]
        /\ todo'[n] = todo[n]
        /\ sink'[n] = sink[n]
        /\ mInputFrameNum'[n] = mInputFrameNum[n]
        /\ (n \in mCurrentProcessNodes' <=> n \in mCurrentProcessNodes)
        /\ usingQ' = usingQ
    BY <1>01, <1>05, <1>10 DEF PluginReturns
  <2>2. QED
    BY <1>00, <1>04, <1>05, <2>1 DEF TaskInv, Worked, HoldsInputs, Streaming, Leaving, Early, Late
<1>11. ASSUME PluginFails(n) PROVE TaskInv(n)'
  <2>1. /\ pc[n] = "plugin" /\ pc'[n] = "erase"
        /\ ~ok'[n]
        /\ todo'[n] = todo[n]
        /\ sink'[n] = sink[n]
        /\ mInputFrameNum'[n] = mInputFrameNum[n]
        /\ (n \in mCurrentProcessNodes' <=> n \in mCurrentProcessNodes)
        /\ usingQ' = usingQ
    BY <1>01, <1>05, <1>11 DEF PluginFails
  <2>2. QED
    BY <1>00, <1>04, <1>05, <2>1 DEF TaskInv, Worked, HoldsInputs, Streaming, Leaving, Early, Late
<1>12. ASSUME FrameInput(n) PROVE TaskInv(n)'
  <2>1. /\ pc[n] = "frameIn" /\ pc'[n] \in {"input", "frameOut"}
        /\ pc'[n] = "frameOut" => ~Has(n, "VIRTUAL")
        /\ ok'[n] = ok[n]
        /\ todo'[n] = todo[n]
        /\ sink'[n] = sink[n]
        /\ mInputFrameNum'[n] = mInputFrameNum[n]
        /\ (n \in mCurrentProcessNodes' <=> n \in mCurrentProcessNodes)
    BY <1>01, <1>05, <1>12 DEF FrameInput
  <2>2. QED
    BY <1>00, <1>04, <1>05, <2>1 DEF TaskInv, Worked, HoldsInputs, Streaming, Leaving, Early, Late
<1>13. ASSUME FrameOutput(n) PROVE TaskInv(n)'
  <2>1. FirstOf(OutLinks(n)) \in OutLinks(n)
    <3>1. PICK x \in InLinks(n) : TRUE
      BY <1>06
    <3>2. x \in graph.links /\ x[2] = n /\ ~IsSink(x)
      BY <1>02, LinksOfNodes DEF InLinks
    <3>3. PICK y \in graph.links : y[1] = n
      BY <1>02, <3>2 DEF GraphsFlow, Flows
    <3>4. OutLinks(n) # {}
      BY <3>3 DEF OutLinks
    <3>5. QED
      BY <3>4 DEF FirstOf
  <2>2. /\ pc[n] = "frameOut" /\ pc'[n] \in {"input", "links"}
        /\ pc'[n] = "input" => todo'[n] = todo[n]
        /\ pc'[n] = "links" => ~isInplaceNode(n) /\ todo'[n] = {FirstOf(OutLinks(n))}
        /\ ok'[n] = ok[n]
        /\ sink'[n] = sink[n]
        /\ mInputFrameNum'[n] = mInputFrameNum[n]
        /\ (n \in mCurrentProcessNodes' <=> n \in mCurrentProcessNodes)
        /\ usingQ' = usingQ
    BY <1>01, <1>13 DEF FrameOutput
  <2>3. SigFrame(n) /\ ok[n] /\ ~Has(n, "VIRTUAL") /\ mInputFrameNum[n] > 0 /\ todo[n] = {}
        /\ n \in mCurrentProcessNodes
    BY <1>01, <1>05, <2>2 DEF TaskInv, Worked, Early, Late
  <2>4. pc'[n] = "links" => ~PassesInputsOn(n)'
    BY <1>04, <2>2, <2>3 DEF PassesInputsOn
  <2>5. QED
    BY <1>00, <1>04, <2>1, <2>2, <2>3, <2>4
       DEF TaskInv, Worked, HoldsInputs, Streaming, Leaving, Early, Late
<1>14. ASSUME FrameEnds(n) PROVE TaskInv(n)'
  <2>1. /\ pc[n] = "links" /\ pc'[n] = "input" /\ todo[n] = {} /\ n \in mCurrentProcessNodes
        /\ ok'[n] = ok[n]
        /\ todo'[n] = todo[n]
        /\ sink'[n] = sink[n]
        /\ mInputFrameNum'[n] = mInputFrameNum[n]
        /\ (n \in mCurrentProcessNodes' <=> n \in mCurrentProcessNodes)
        /\ usingQ' = usingQ
    BY <1>01, <1>05, <1>14 DEF FrameEnds
  <2>2. QED
    BY <1>00, <1>04, <1>05, <2>1 DEF TaskInv, Worked, HoldsInputs, Streaming, Leaving, Early, Late
<1>15. ASSUME EraseCurrent(n) PROVE TaskInv(n)'
  <2>1. /\ pc[n] = "erase" /\ pc'[n] = IF ok[n] THEN "release" ELSE "abnormal"
        /\ n \notin mCurrentProcessNodes'
        /\ ok'[n] = ok[n]
        /\ todo'[n] = todo[n]
        /\ sink'[n] = sink[n]
        /\ mInputFrameNum'[n] = mInputFrameNum[n]
        /\ usingQ' = usingQ
    BY <1>01, <1>05, <1>15 DEF EraseCurrent
  <2>2. QED
    BY <1>00, <1>04, <1>05, <2>1 DEF TaskInv, Worked, HoldsInputs, Streaming, Leaving, Early, Late
<1>16. ASSUME AbnormalCallback(n) PROVE TaskInv(n)'
  <2>1. /\ pc[n] = "abnormal" /\ pc'[n] = "links"
        /\ todo'[n] = {x \in OutLinks(n) : IsSink(x)}
        /\ ok'[n] = ok[n]
        /\ sink'[n] = sink[n]
        /\ mInputFrameNum'[n] = mInputFrameNum[n]
        /\ (n \in mCurrentProcessNodes' <=> n \in mCurrentProcessNodes)
        /\ usingQ' = usingQ
    BY <1>01, <1>05, <1>16 DEF AbnormalCallback
  <2>2. QED
    BY <1>00, <1>04, <1>05, <2>1 DEF TaskInv, Worked, HoldsInputs, Streaming, Leaving, Early, Late
<1>17. ASSUME ReleaseInputs(n) PROVE TaskInv(n)'
  <2> DEFINE k == [x \in Link |-> Len(usingQ[x])]
  <2>1. k \in [Link -> Nat] /\ \A x \in Link : k[x] <= Len(usingQ[x])
    BY HowMany DEF FlowInv
  <2>2. releaseInputBuffers(n, k)
    BY <1>17 DEF ReleaseInputs
  <2>3. ASSUME NEW x \in InLinks(n) PROVE usingQ'[x] = <<>>
    <3>1. PICK gone \in Seq(Picture), lost \in Nat : Released(n, k, gone, lost)
      <4> HIDE DEF k
      <4>1. QED
        BY <1>02, <2>1, <2>2, ReleaseEffect DEF FlowInv
    <3>2. usingQ'[x] = SubSeq(usingQ[x], k[x] + 1, Len(usingQ[x])) /\ usingQ[x] \in Seq(Picture)
      BY <1>01, <1>03, <3>1 DEF Released
    <3>3. k[x] = Len(usingQ[x])
      BY <1>03
    <3>4. usingQ'[x] = SubSeq(usingQ[x], Len(usingQ[x]) + 1, Len(usingQ[x]))
      BY <3>2, <3>3
    <3>5. QED
      BY <3>2, <3>4, NothingLeft
  <2>4. /\ pc[n] = "release" /\ pc'[n] = "links"
        /\ todo'[n] = OutLinks(n)
        /\ ok'[n] = ok[n]
        /\ sink'[n] = sink[n]
        /\ mInputFrameNum'[n] = mInputFrameNum[n]
        /\ (n \in mCurrentProcessNodes' <=> n \in mCurrentProcessNodes)
    BY <1>01, <1>17 DEF ReleaseInputs
  <2>5. mInputFrameNum[n] > 0 /\ ok[n] /\ n \notin mCurrentProcessNodes
    BY <1>01, <1>05, <2>4 DEF TaskInv, Worked
  <2>6. QED
    BY <1>00, <1>04, <2>3, <2>4, <2>5
       DEF TaskInv, Worked, HoldsInputs, Streaming, Leaving, Early, Late
<1>18. ASSUME SinkWrite(n) PROVE TaskInv(n)'
  <2>1. /\ pc[n] = "sinkWrite" /\ pc'[n] = "sinkRelease"
        /\ ok'[n] = ok[n]
        /\ todo'[n] = todo[n]
        /\ sink'[n] = sink[n]
        /\ mInputFrameNum'[n] = mInputFrameNum[n]
        /\ (n \in mCurrentProcessNodes' <=> n \in mCurrentProcessNodes)
        /\ usingQ' = usingQ
    BY <1>01, <1>05, <1>18 DEF SinkWrite
  <2>2. QED
    BY <1>00, <1>04, <1>05, <2>1 DEF TaskInv, Worked, HoldsInputs, Streaming, Leaving, Early, Late
<1>19. ASSUME SinkRelease(n) PROVE TaskInv(n)'
  <2>1. /\ pc[n] = "sinkRelease" /\ pc'[n] = "links"
        /\ todo'[n] \subseteq todo[n]
        /\ ok'[n] = ok[n]
        /\ mInputFrameNum'[n] = mInputFrameNum[n]
        /\ (n \in mCurrentProcessNodes' <=> n \in mCurrentProcessNodes)
        /\ usingQ' = usingQ
    BY <1>01, <1>05, <1>19 DEF SinkRelease
  <2>2. QED
    BY <1>00, <1>04, <1>05, <2>1 DEF TaskInv, Worked, HoldsInputs, Streaming, Leaving, Early, Late
<1>20. ASSUME NodeEnds(n) PROVE TaskInv(n)'
  <2>1. /\ pc[n] = "links" /\ pc'[n] = "done" /\ todo[n] = {}
        /\ ok'[n] = ok[n]
        /\ todo'[n] = todo[n]
        /\ sink'[n] = sink[n]
        /\ (n \in mCurrentProcessNodes' <=> n \in mCurrentProcessNodes)
        /\ usingQ' = usingQ
    BY <1>01, <1>05, <1>20 DEF NodeEnds, EndRequest
  <2>2. QED
    BY <1>00, <1>04, <1>05, <2>1 DEF TaskInv, Worked, HoldsInputs, Streaming, Leaving, Early, Late
<1> HIDE DEF At, Goto, Fail, notNode, given, schedVars, clientVars, resultVars, queueVars,
             sourceVars, linkVars
<1>21. QED
  BY <1>1, <1>2, <1>3, <1>4, <1>5, <1>6, <1>7, <1>8, <1>9, <1>10, <1>11, <1>12, <1>13,
     <1>14, <1>15, <1>16, <1>17, <1>18, <1>19, <1>20 DEF NodeStep

(* ---------------------------- kinds of steps ----------------------------- *)

(* What the flow of images is about; most steps of the main thread, of the   *)
(* camera and of the session leave it alone.                                 *)
flow == <<graph, pc, ok, todo, sink, mInputFrameNum, mCurrentProcessNodes, usingQ, inQ,
          outQ, mDependenceNum, mRunSequence, mSinkNumToReturn, mHasProcessError, complete>>
Calm ==
  /\ UNCHANGED flow /\ (inRel' = inRel \/ FlushNodes)
  /\ mpc = "dispatch" => UNCHANGED <<mpc, serving>>
  /\ Over => Over'
  /\ Over' => Over \/ mpc \in {"start", "rebuild"} \/ mRunSequence = <<>>

\* Every step is one of a task, one of four steps of the main thread, or calm.
LEMMA Steps ==
  ASSUME [Next]_vars
  PROVE  \/ \E n \in Node : NodeStep(n)
         \/ \E g \in Graphs : rebuildLinks(g)
         \/ PopNode \/ postProcess \/ releaseUnusedBuffer \/ Calm
<1> USE DEF flow, mainVars, schedVars, nodeVars, resultVars, queueVars, sourceVars, linkVars,
            given, notSession, notMain
<1>1. ASSUME NEW p \in SourcePort, enqueueSourceImage(p) PROVE Calm
  BY <1>1 DEF enqueueSourceImage, Calm, Over
<1>2. CASE quickFinish
  BY <1>2 DEF quickFinish, Calm, Over
<1>3. CASE FlushNodes \/ FlushCrashes
  BY <1>3 DEF FlushNodes, FlushCrashes, Calm, Over
<1>4. ASSUME UNCHANGED vars PROVE Calm
  BY <1>4 DEF vars, Calm, Over
<1>5. CASE Terminated
  BY <1>4, <1>5 DEF Terminated
<1>6. ASSUME Start PROVE Calm
  BY <1>6 DEF Start, Calm, Over
<1>7. ASSUME RebuildFails PROVE Calm
  BY <1>7 DEF RebuildFails, Calm, Over
<1>8. ASSUME CountAndWait PROVE Calm
  BY <1>8 DEF CountAndWait, WaitUnlessReady, Waiting, Calm, Over
<1>9. ASSUME RetestPredicate PROVE Calm
  BY <1>9 DEF RetestPredicate, WaitUnlessReady, Waiting, Calm, Over
<1>10. ASSUME LoopEnds PROVE Calm
  BY <1>10 DEF LoopEnds, Calm, Over
<1>11. ASSUME moveToIdleQueue PROVE Calm
  BY <1>11 DEF moveToIdleQueue, Calm, Over
<1>12. ASSUME SpuriousWakeup PROVE Calm
  BY <1>12 DEF SpuriousWakeup, Calm, Over, Waiting
<1> HIDE DEF flow, mainVars, schedVars, nodeVars, resultVars, queueVars, sourceVars, linkVars,
            given, notSession, notMain
<1>13. QED
  BY <1>1, <1>2, <1>3, <1>4, <1>5, <1>6, <1>7, <1>8, <1>9, <1>10, <1>11, <1>12
     DEF Next, MainStep

\* Once the main thread has left its loop no task runs, so no task steps.
LEMMA NobodyLeft ==
  ASSUME IInv
  PROVE  /\ Over => \A n \in Node : ~Active(n)
         /\ \A n \in Node : Active(n) => ~Over /\ graph \in Graphs
<1>1. ASSUME Over PROVE \A n \in Node : ~Active(n)
  BY <1>1, NoneRunning DEF IInv, LoopInv, Over
<1>2. ASSUME NEW n \in Node, Active(n) PROVE graph \in Graphs
  BY <1>2 DEF IInv, TypeInv, FreshInv, Active
<1>3. QED
  BY <1>1, <1>2

\* What the main thread does with the node it dispatches.
LEMMA Dispatching ==
  ASSUME FlowInv, PopNode
  PROVE  /\ Head(mRunSequence) \in Node /\ Head(mRunSequence) \in Elems(mRunSequence)
         /\ Elems(mRunSequence') \subseteq Elems(mRunSequence)
         /\ pc[Head(mRunSequence)] = "none" /\ mDependenceNum[Head(mRunSequence)] <= 0
         /\ mCurrentProcessNodes' = mCurrentProcessNodes \cup {Head(mRunSequence)}
         /\ UNCHANGED <<graph, pc, ok, todo, sink, mInputFrameNum, usingQ, inQ, outQ, inRel,
                        mDependenceNum>>
         /\ ~Over /\ ~Over'
<1>1. mRunSequence \in Seq(Node) /\ mRunSequence # <<>> /\ Distinct(mRunSequence)
  BY DEF PopNode, FlowInv, IInv, TypeInv, DispatchInv
<1>2. /\ Head(mRunSequence) \in Elems(mRunSequence)
      /\ Elems(Tail(mRunSequence)) \subseteq Elems(mRunSequence)
  BY <1>1, TailDistinct
<1>3. Head(mRunSequence) \in Node
  BY <1>1
<1>4. pc[Head(mRunSequence)] = "none" /\ mDependenceNum[Head(mRunSequence)] <= 0
  BY <1>2 DEF FlowInv, IInv, DispatchInv
<1>5. QED
  BY <1>2, <1>3, <1>4 DEF PopNode, queueVars, sourceVars, linkVars, nodeVars, clientVars, Over

\* What the start of a task finds, and what it leaves.
LEMMA Starting ==
  ASSUME FlowInv, postProcess
  PROVE  /\ serving \in Node /\ pc[serving] = "none" /\ mDependenceNum[serving] <= 0
         /\ serving \in mCurrentProcessNodes
         /\ pc' = IF serving \in Missing THEN pc ELSE [pc EXCEPT ![serving] = "input"]
         /\ UNCHANGED <<graph, ok, todo, sink, mInputFrameNum, usingQ, inQ, outQ, inRel,
                        mDependenceNum, mRunSequence, mCurrentProcessNodes>>
         /\ ~Over /\ ~Over'
BY DEF postProcess, FlowInv, IInv, TypeInv, DispatchInv, queueVars, sourceVars, linkVars,
       given, schedVars, Over

\* A graph is built before any task exists.
LEMMA Building ==
  ASSUME FlowInv, NEW g \in Graphs, rebuildLinks(g)
  PROVE  /\ graph = NoGraph /\ graph' = g
         /\ \A n \in Node : pc[n] = "none"
         /\ mCurrentProcessNodes = {} /\ \A l \in Link : ~inRel[l]
         /\ mDependenceNum' = [n \in Node |-> Cardinality(InternalInputs(g, n))]
         /\ \A n \in Node : n \in Elems(mRunSequence') =>
              n \in SourceNodes(g) /\ ~TopologyError(g)
         /\ UNCHANGED <<pc, ok, todo, sink, mInputFrameNum, usingQ, inQ, outQ, inRel,
                        mCurrentProcessNodes>>
<1> DEFINE first == {n \in SourceNodes(g) : InternalInputs(g, n) = {}}
<1>1. graph = NoGraph
  BY DEF rebuildLinks, FlowInv, IInv, FreshInv
<1>2. /\ mRunSequence = <<>> /\ mCurrentProcessNodes = {}
      /\ \A n \in Node : pc[n] = "none"
      /\ \A l \in Link : ~inRel[l]
  BY <1>1 DEF FlowInv, IInv, FreshInv, ReachInv
<1>3. \/ TopologyError(g) /\ mRunSequence' = mRunSequence
      \/ ~TopologyError(g) /\ mRunSequence' = SetToSeq(first)
  BY DEF rebuildLinks
<1>4. Elems(SetToSeq(first)) \subseteq first
  <2>1. IsFiniteSet(first)
    BY FirstNodes
  <2> HIDE DEF first
  <2>2. QED
    BY <2>1, SetToSeqDistinct
<1>5. Elems(<<>>) = {}
  BY DEF Elems
<1>6. \A n \in Node : n \in Elems(mRunSequence') => n \in SourceNodes(g) /\ ~TopologyError(g)
  <2>1. \A n \in first : n \in SourceNodes(g)
    OBVIOUS
  <2> HIDE DEF first
  <2>2. QED
    BY <1>2, <1>3, <1>4, <1>5, <2>1
<1>7. QED
  BY <1>1, <1>2, <1>6 DEF rebuildLinks, queueVars, sourceVars, linkVars, nodeVars, clientVars

\* What the end of the request leaves.
LEMMA Ending ==
  ASSUME FlowInv, releaseUnusedBuffer
  PROVE  /\ \A n \in Node : ~Active(n)
         /\ UNCHANGED <<graph, pc, ok, todo, sink, mInputFrameNum, inRel, mDependenceNum,
                        mRunSequence, mCurrentProcessNodes>>
         /\ Over /\ Over'
<1>1. Over
  BY DEF releaseUnusedBuffer, Over
<1>2. \A n \in Node : ~Active(n)
  BY <1>1, NobodyLeft DEF FlowInv
<1>3. QED
  BY <1>1, <1>2 DEF releaseUnusedBuffer, given, nodeVars, schedVars, Over

\* What is known of a task that does not step, or of one that has not begun or is over.
LEMMA TaskKept ==
  ASSUME NEW m \in Node, TaskInv(m), graph' = graph,
         pc'[m] = pc[m], ok'[m] = ok[m], todo'[m] = todo[m], sink'[m] = sink[m],
         mInputFrameNum'[m] = mInputFrameNum[m],
         m \in mCurrentProcessNodes' <=> m \in mCurrentProcessNodes,
         \A k \in InLinks(m) : usingQ'[k] = usingQ[k]
  PROVE  TaskInv(m)'
<1>1. /\ InLinks(m)' = InLinks(m) /\ OutLinks(m)' = OutLinks(m)
      /\ \A f : Has(m, f)' <=> Has(m, f)
      /\ SigFrame(m)' <=> SigFrame(m)
      /\ PassesInputsOn(m)' <=> PassesInputsOn(m)
  BY SameGraph
<1>2. QED
  BY <1>1 DEF TaskInv, Worked, HoldsInputs, Streaming, Leaving, Late

\* What is known of a task that has not begun, whatever happens to the queues.
LEMMA TaskIdle ==
  ASSUME NEW m \in Node, TaskInv(m), graph' = graph \/ pc[m] = "none",
         pc[m] \in {"none", "done"}, pc'[m] = pc[m], ok'[m] = ok[m], todo'[m] = todo[m],
         mInputFrameNum'[m] = mInputFrameNum[m]
  PROVE  TaskInv(m)'
<1>1. todo[m] = {}
  BY DEF TaskInv, Late
<1>2. QED
  BY <1>1 DEF TaskInv, Worked, HoldsInputs, Streaming, Leaving, Late

\* Every step keeps what is known of every task.
LEMMA TaskStep ==
  ASSUME GraphsFlow, FlowInv, [Next]_vars
  PROVE  \A m \in Node : TaskInv(m)'
<1> SUFFICES ASSUME NEW m \in Node PROVE TaskInv(m)'
  OBVIOUS
<1>0. TaskInv(m) /\ pc \in [Node -> NodeState]
  BY DEF FlowInv, IInv, TypeInv
<1>1. ASSUME NEW n \in Node, NodeStep(n) PROVE TaskInv(m)'
  <2>1. CASE n = m
    BY <1>1, <2>1, TaskOwnStep
  <2>2. CASE n # m
    <3>1. Frame(n) /\ graph \in Graphs
      BY <1>1, NodeFrame, NodeMoves, NobodyLeft DEF FlowInv, IInv, NodeMove
    <3>2. \A k \in InLinks(m) : k \in Link /\ k[2] = m
      BY <3>1, LinksOfNodes
    <3>3. QED
      BY <1>0, <2>2, <3>1, <3>2, TaskKept DEF Frame
  <2>3. QED
    BY <2>1, <2>2
<1>2. ASSUME NEW g \in Graphs, rebuildLinks(g) PROVE TaskInv(m)'
  BY <1>0, <1>2, Building, TaskIdle
<1>3. CASE PopNode
  <2>1. CASE m = Head(mRunSequence)
    BY <1>0, <1>3, <2>1, Dispatching, TaskIdle
  <2>2. CASE m # Head(mRunSequence)
    BY <1>0, <1>3, <2>2, Dispatching, TaskKept
  <2>3. QED
    BY <2>1, <2>2
<1>4. CASE postProcess
  <2>1. CASE m = serving /\ serving \notin Missing
    <3>1. pc'[m] = "input" /\ pc[m] = "none" /\ todo'[m] = todo[m] /\ ok'[m] = ok[m]
      BY <1>0, <1>4, <2>1, Starting
    <3>2. QED
      BY <1>0, <3>1 DEF TaskInv, Worked, HoldsInputs, Streaming, Leaving, Late
  <2>2. CASE ~(m = serving /\ serving \notin Missing)
    <3>1. pc'[m] = pc[m]
      BY <1>0, <1>4, <2>2, Starting
    <3>2. QED
      BY <1>0, <1>4, <3>1, Starting, TaskKept
  <2>3. QED
    BY <2>1, <2>2
<1>5. CASE releaseUnusedBuffer
  <2>1. pc[m] \in {"none", "done"}
    BY <1>5, Ending DEF Active
  <2>2. QED
    BY <1>0, <1>5, <2>1, Ending, TaskIdle
<1>6. CASE Calm
  BY <1>0, <1>6, TaskKept DEF Calm, flow
<1>7. QED
  BY <1>1, <1>2, <1>3, <1>4, <1>5, <1>6, Steps

(* ----------------------------- notifications ----------------------------- *)

(* The task of n tells the children on the links L that an input has come: a *)
(* frame for a frame-by-frame child, or everything.                          *)
Tells(n, L) ==
  /\ L \subseteq OutLinks(n) /\ \A l \in L : ~IsSink(l)
  /\ Notifies({l[2] : l \in L})
  /\ \/ /\ FrameInput(n) /\ Has(n, "SIGRELEASEINPUT") /\ PassesInputsOn(n)
        /\ \A l \in L : SigFrame(l[2])
     \/ \E l \in L : /\ L = {l} /\ releaseOutBuffers(n, l)
                     /\ n \notin mCurrentProcessNodes \/ SigFrame(l[2])
Hears(n) ==
  \/ UNCHANGED <<mDependenceNum, mRunSequence>>
  \/ \E L \in SUBSET OutLinks(n) : Tells(n, L)

\* Whom a step of a task notifies.
LEMMA Notifying ==
  ASSUME FlowInv, NEW n \in Node, NodeStep(n)
  PROVE  Hears(n)
<1>01. todo[n] \subseteq OutLinks(n)
  <2>1. Active(n)
    BY NodeMoves DEF FlowInv, IInv, NodeMove
  <2>2. QED
    BY <2>1 DEF FlowInv, TaskInv, Active
<1> USE DEF notNode, schedVars
<1>1. ASSUME NEW l \in Link, getFrame(n, l) PROVE Hears(n)
  <2>1. UNCHANGED <<mDependenceNum, mRunSequence>>
    BY <1>1 DEF getFrame, AfterFrame, Take
  <2>2. QED
    BY <2>1 DEF Hears
<1>2. ASSUME NEW l \in Link, getSourceImage(n, l) PROVE Hears(n)
  <2>1. UNCHANGED <<mDependenceNum, mRunSequence>>
    BY <1>2 DEF getSourceImage, Take
  <2>2. QED
    BY <2>1 DEF Hears
<1>3. ASSUME NEW l \in Link, InputFails(n, l) PROVE Hears(n)
  <2>1. UNCHANGED <<mDependenceNum, mRunSequence>>
    BY <1>3 DEF InputFails, InputEnded
  <2>2. QED
    BY <2>1 DEF Hears
<1>4. ASSUME NEW l \in Link, releaseOutBuffers(n, l) PROVE Hears(n)
  <2>1. \/ UNCHANGED <<mDependenceNum, mRunSequence>>
        \/ NotifyChildren({l}) /\ (n \notin mCurrentProcessNodes \/ SigFrame(l[2]))
    BY <1>4 DEF releaseOutBuffers
  <2>2. l \in todo[n] /\ ~IsSink(l)
    BY <1>4 DEF releaseOutBuffers
  <2>3. {l} \in SUBSET OutLinks(n)
    BY <1>01, <2>2
  <2>4. ASSUME NotifyChildren({l}), ~UNCHANGED <<mDependenceNum, mRunSequence>>
        PROVE  Notifies({k[2] : k \in {l}})
    BY <2>4 DEF NotifyChildren, Notifies
  <2>5. QED
    BY <1>4, <2>1, <2>2, <2>3, <2>4 DEF Hears, Tells
<1>5. ASSUME NEW l \in Link, SinkRead(n, l) PROVE Hears(n)
  <2>1. UNCHANGED <<mDependenceNum, mRunSequence>>
    BY <1>5 DEF SinkRead
  <2>2. QED
    BY <2>1 DEF Hears
<1>6. ASSUME getInputImage(n) PROVE Hears(n)
  <2>1. UNCHANGED <<mDependenceNum, mRunSequence>>
    BY <1>6 DEF getInputImage
  <2>2. QED
    BY <2>1 DEF Hears
<1>7. ASSUME checkTaskEffectiveness(n) PROVE Hears(n)
  <2>1. UNCHANGED <<mDependenceNum, mRunSequence>>
    BY <1>7 DEF checkTaskEffectiveness
  <2>2. QED
    BY <2>1 DEF Hears
<1>8. ASSUME getOutputImage(n) PROVE Hears(n)
  <2>1. UNCHANGED <<mDependenceNum, mRunSequence>>
    BY <1>8 DEF getOutputImage, Acquire
  <2>2. QED
    BY <2>1 DEF Hears
<1>9. ASSUME OutputFails(n) PROVE Hears(n)
  <2>1. UNCHANGED <<mDependenceNum, mRunSequence>>
    BY <1>9 DEF OutputFails, Acquire
  <2>2. QED
    BY <2>1 DEF Hears
<1>10. ASSUME PluginReturns(n) PROVE Hears(n)
  <2>1. UNCHANGED <<mDependenceNum, mRunSequence>>
    BY <1>10 DEF PluginReturns
  <2>2. QED
    BY <2>1 DEF Hears
<1>11. ASSUME PluginFails(n) PROVE Hears(n)
  <2>1. UNCHANGED <<mDependenceNum, mRunSequence>>
    BY <1>11 DEF PluginFails
  <2>2. QED
    BY <2>1 DEF Hears
<1>12. ASSUME FrameInput(n) PROVE Hears(n)
  <2> DEFINE L == SigFrameChildren(OutLinks(n))
  <2>1. \/ UNCHANGED <<mDependenceNum, mRunSequence>>
        \/ NotifyChildren(L) /\ Has(n, "SIGRELEASEINPUT") /\ PassesInputsOn(n)
    BY <1>12 DEF FrameInput
  <2>2. L \in SUBSET OutLinks(n) /\ \A l \in L : ~IsSink(l) /\ SigFrame(l[2])
    BY DEF SigFrameChildren
  <2> HIDE DEF L
  <2>3. ASSUME NotifyChildren(L), ~UNCHANGED <<mDependenceNum, mRunSequence>> PROVE Notifies({l[2] : l \in L})
    BY <2>3 DEF NotifyChildren, Notifies
  <2>4. QED
    BY <1>12, <2>1, <2>2, <2>3 DEF Hears, Tells
<1>13. ASSUME FrameOutput(n) PROVE Hears(n)
  <2>1. UNCHANGED <<mDependenceNum, mRunSequence>>
    BY <1>13 DEF FrameOutput
  <2>2. QED
    BY <2>1 DEF Hears
<1>14. ASSUME FrameEnds(n) PROVE Hears(n)
  <2>1. UNCHANGED <<mDependenceNum, mRunSequence>>
    BY <1>14 DEF FrameEnds
  <2>2. QED
    BY <2>1 DEF Hears
<1>15. ASSUME EraseCurrent(n) PROVE Hears(n)
  <2>1. UNCHANGED <<mDependenceNum, mRunSequence>>
    BY <1>15 DEF EraseCurrent
  <2>2. QED
    BY <2>1 DEF Hears
<1>16. ASSUME AbnormalCallback(n) PROVE Hears(n)
  <2>1. UNCHANGED <<mDependenceNum, mRunSequence>>
    BY <1>16 DEF AbnormalCallback
  <2>2. QED
    BY <2>1 DEF Hears
<1>17. ASSUME ReleaseInputs(n) PROVE Hears(n)
  <2>1. UNCHANGED <<mDependenceNum, mRunSequence>>
    BY <1>17 DEF ReleaseInputs
  <2>2. QED
    BY <2>1 DEF Hears
<1>18. ASSUME SinkWrite(n) PROVE Hears(n)
  <2>1. UNCHANGED <<mDependenceNum, mRunSequence>>
    BY <1>18 DEF SinkWrite
  <2>2. QED
    BY <2>1 DEF Hears
<1>19. ASSUME SinkRelease(n) PROVE Hears(n)
  <2>1. UNCHANGED <<mDependenceNum, mRunSequence>>
    BY <1>19 DEF SinkRelease
  <2>2. QED
    BY <2>1 DEF Hears
<1>20. ASSUME NodeEnds(n) PROVE Hears(n)
  <2>1. UNCHANGED <<mDependenceNum, mRunSequence>>
    BY <1>20 DEF NodeEnds, EndRequest
  <2>2. QED
    BY <2>1 DEF Hears
<1> HIDE DEF notNode, schedVars
<1>21. QED
  BY <1>1, <1>2, <1>3, <1>4, <1>5, <1>6, <1>7, <1>8, <1>9, <1>10, <1>11, <1>12, <1>13,
     <1>14, <1>15, <1>16, <1>17, <1>18, <1>19, <1>20 DEF NodeStep

\* Whoever becomes ready has been told, and is told once by each parent.
LEMMA Told ==
  ASSUME FlowInv, NEW n \in Node, graph \in Graphs, NEW L \in SUBSET OutLinks(n), Tells(n, L)
  PROVE  /\ \A m \in Elems(mRunSequence') :
              m \in Elems(mRunSequence) \/ \E l \in L : l[2] = m
         /\ \A m \in Node : mDependenceNum'[m] = mDependenceNum[m]
                              - IF \E l \in L : l[2] = m THEN 1 ELSE 0
         /\ \A m \in Node : mDependenceNum'[m] <= mDependenceNum[m]
<1> DEFINE S == {l[2] : l \in L}
           ready == {m \in S : mDependenceNum[m] = 1}
           new == SetToSeq(ready)
<1>1. /\ mDependenceNum' = [m \in Node |-> mDependenceNum[m] - IF m \in S THEN 1 ELSE 0]
      /\ mRunSequence' = mRunSequence \o new
  BY DEF Tells, Notifies
<1>2. \A l \in L : l[2] \in Node
  BY LinksOfNodes, LinksFinite DEF Tells
<1>3. ready \in SUBSET Node
  BY <1>2
<1>4. IsFiniteSet(ready)
  BY <1>3, PipelineAssumption, FS_Subset
<1>5. new \in Seq(ready) /\ Elems(new) \subseteq ready /\ Distinct(new)
  BY <1>4, SetToSeqDistinct
<1>6. /\ mRunSequence \in Seq(Node) /\ Distinct(mRunSequence)
      /\ mDependenceNum \in [Node -> Int]
      /\ \A m \in Elems(mRunSequence) : mDependenceNum[m] <= 0
  BY DEF FlowInv, IInv, TypeInv, DispatchInv
<1>7. Elems(mRunSequence) \cap Elems(new) = {}
  BY <1>5, <1>6
<1>8. new \in Seq(Node)
  <2> HIDE DEF new
  <2>1. QED
    BY <1>3, <1>5
<1>9. Elems(mRunSequence \o new) = Elems(mRunSequence) \cup Elems(new)
  <2> HIDE DEF new
  <2>1. QED
    BY <1>5, <1>6, <1>7, <1>8, ConcatDistinct
<1>10. \A m \in Elems(mRunSequence') :
         m \in Elems(mRunSequence) \/ \E l \in L : l[2] = m
  BY <1>1, <1>5, <1>9
<1>11. \A m \in Node : m \in S <=> \E l \in L : l[2] = m
  OBVIOUS
<1>12. \A m \in Node : mDependenceNum'[m] = mDependenceNum[m]
                        - IF \E l \in L : l[2] = m THEN 1 ELSE 0
  <2> HIDE DEF S
  <2>1. QED
    BY <1>1, <1>11
<1>13. \A m \in Node : mDependenceNum'[m] <= mDependenceNum[m]
  BY <1>6, <1>12
<1>14. QED
  BY <1>10, <1>12, <1>13

\* Nodes are reached along the links of a legal graph.
LEMMA ReachStep ==
  ASSUME FlowInv, [Next]_vars
  PROVE  ReachInv'
<1>0. /\ ReachInv
      /\ graph \in Graphs \cup {NoGraph} /\ NoGraph \notin Graphs
      /\ mDependenceNum \in [Node -> Int] /\ pc \in [Node -> NodeState]
      /\ inRel \in [Link -> BOOLEAN] /\ mCurrentProcessNodes \subseteq Node
  BY PipelineAssumption DEF FlowInv, IInv, TypeInv, DataType, ProcessInv
<1>1. ASSUME NEW n \in Node, NodeStep(n) PROVE ReachInv'
  <2>1. /\ graph \in Graphs /\ UNCHANGED <<graph, inRel>> /\ pc[n] # "none"
        /\ \A m \in Node : m # n => pc'[m] = pc[m]
        /\ \A m \in mCurrentProcessNodes' : m \in mCurrentProcessNodes
    <3>1. NodeMove(n) /\ Frame(n)
      BY <1>1, NodeMoves, NodeFrame DEF FlowInv, IInv
    <3>2. mCurrentProcessNodes' \subseteq mCurrentProcessNodes
      BY <3>1 DEF NodeMove, Works, Passes, EraseCurrent, AbnormalCallback, NodeEnds, EndRequest
    <3>3. QED
      BY <3>1, <3>2 DEF NodeMove, Frame, Active
  <2>2. InLinks(n) # {} /\ ~TopologyError(graph)
    BY <1>0, <2>1 DEF ReachInv, Reached
  <2>3. /\ \A m \in Elems(mRunSequence') :
              m \in Elems(mRunSequence) \/ \E l \in OutLinks(n) : l[2] = m
        /\ \A m \in Node : mDependenceNum'[m] <= mDependenceNum[m] /\ mDependenceNum'[m] \in Int
    <3>1. CASE UNCHANGED <<mDependenceNum, mRunSequence>>
      BY <1>0, <3>1
    <3>2. ASSUME NEW L \in SUBSET OutLinks(n), Tells(n, L)
          PROVE  /\ \A m \in Elems(mRunSequence') :
                       m \in Elems(mRunSequence) \/ \E l \in OutLinks(n) : l[2] = m
                 /\ \A m \in Node : mDependenceNum'[m] <= mDependenceNum[m]
                                    /\ mDependenceNum'[m] \in Int
      BY <1>0, <2>1, <3>2, Told
    <3>3. QED
      BY <1>1, <3>1, <3>2, Notifying DEF Hears
  <2>4. \A m \in Node : InLinks(m)' = InLinks(m)
    BY <2>1, SameGraph
  <2>5. TopologyError(graph)' <=> TopologyError(graph)
    BY <2>1, SameGraph
  <2>6. \A m \in Node : Reached(m)' => InLinks(m) # {}
    <3> SUFFICES ASSUME NEW m \in Node, Reached(m)' PROVE InLinks(m) # {}
      OBVIOUS
    <3>1. Reached(m) \/ \E l \in OutLinks(n) : l[2] = m
      BY <2>1, <2>3 DEF Reached
    <3>2. QED
      BY <1>0, <3>1 DEF ReachInv, OutLinks, InLinks
  <2>7. QED
    BY <1>0, <2>1, <2>2, <2>3, <2>4, <2>5, <2>6 DEF ReachInv
<1>2. ASSUME NEW g \in Graphs, rebuildLinks(g) PROVE ReachInv'
  <2>1. /\ graph' = g /\ g # NoGraph /\ \A n \in Node : pc'[n] = "none"
        /\ mCurrentProcessNodes' = {} /\ \A l \in Link : ~inRel'[l]
        /\ \A n \in Node : n \in Elems(mRunSequence') => n \in SourceNodes(g) /\ ~TopologyError(g)
    BY <1>0, <1>2, Building
  <2>2. \A n \in SourceNodes(g) : \E l \in g.links : l[2] = n
    BY DEF SourceNodes
  <2>3. \A n \in Node : Reached(n)' => InLinks(n)' # {} /\ ~TopologyError(graph)'
    <3> SUFFICES ASSUME NEW n \in Node, Reached(n)'
                 PROVE  InLinks(n)' # {} /\ ~TopologyError(graph)'
      OBVIOUS
    <3>1. n \in Elems(mRunSequence')
      BY <2>1 DEF Reached
    <3>2. ~TopologyError(g) /\ n \in SourceNodes(g)
      BY <2>1, <3>1
    <3>3. QED
      BY <2>1, <2>2, <3>2 DEF InLinks, TopologyError, Consumers
  <2>4. QED
    BY <2>1, <2>3 DEF ReachInv
<1>3. CASE PopNode
  <2>1. \A n \in Node : Reached(n)' => Reached(n)
    BY <1>3, Dispatching DEF Reached
  <2>2. UNCHANGED <<graph, inRel, mDependenceNum>>
    BY <1>3, Dispatching
  <2>3. \A n \in mCurrentProcessNodes' : mDependenceNum'[n] <= 0
    BY <1>0, <1>3, Dispatching DEF ReachInv
  <2>4. QED
    BY <1>0, <2>1, <2>2, <2>3, SameGraph DEF ReachInv
<1>4. CASE postProcess
  <2>1. \A n \in Node : Reached(n)' => Reached(n)
    BY <1>0, <1>4, Starting DEF Reached
  <2>2. UNCHANGED <<graph, inRel, mDependenceNum, mCurrentProcessNodes>>
    BY <1>4, Starting
  <2>3. QED
    BY <1>0, <2>1, <2>2, SameGraph DEF ReachInv
<1>5. ASSUME UNCHANGED <<graph, pc, mRunSequence, mCurrentProcessNodes, mDependenceNum>>,
             inRel' = inRel \/ FlushNodes
      PROVE  ReachInv'
  <2>1. \A n \in Node : Reached(n)' => Reached(n)
    BY <1>5 DEF Reached
  <2>2. CASE inRel' = inRel
    BY <1>0, <1>5, <2>1, <2>2, SameGraph DEF ReachInv
  <2>3. CASE FlushNodes
    <3>1. \A l \in Link : inRel'[l] =>
            inRel[l] \/ \E n \in mCurrentProcessNodes : l = FirstOf(InLinks(n))
      BY <2>3 DEF FlushNodes, NodesReleased
    <3>2. graph = NoGraph => mCurrentProcessNodes = {}
      BY DEF FlowInv, IInv, FreshInv
    <3>3. ASSUME NEW n \in mCurrentProcessNodes
          PROVE  FirstOf(InLinks(n))[2] = n /\ n \in Node /\ mDependenceNum[n] <= 0
      <4>1. InLinks(n) # {} /\ n \in Node /\ mDependenceNum[n] <= 0
        BY <1>0, <3>3 DEF ReachInv, Reached
      <4>2. FirstOf(InLinks(n)) \in InLinks(n)
        BY <4>1 DEF FirstOf
      <4>3. QED
        BY <4>1, <4>2 DEF InLinks
    <3>4. graph' = NoGraph => \A l \in Link : ~inRel'[l]
      BY <1>0, <1>5, <3>1, <3>2 DEF ReachInv
    <3>5. \A l \in Link : inRel'[l] /\ l \in graph'.links =>
            l[2] \in Node /\ mDependenceNum'[l[2]] <= 0
      BY <1>0, <1>5, <3>1, <3>3 DEF ReachInv
    <3>6. \A n \in Node : Reached(n)' => InLinks(n)' # {} /\ ~TopologyError(graph)'
      BY <1>0, <1>5, <2>1, SameGraph DEF ReachInv
    <3>7. \A n \in mCurrentProcessNodes' : mDependenceNum'[n] <= 0
      BY <1>0, <1>5 DEF ReachInv
    <3>8. QED
      BY <3>4, <3>5, <3>6, <3>7 DEF ReachInv
  <2>4. QED
    BY <1>5, <2>2, <2>3
<1>6. CASE releaseUnusedBuffer
  BY <1>5, <1>6, Ending
<1>7. CASE Calm
  BY <1>5, <1>7 DEF Calm, flow
<1>8. QED
  BY <1>1, <1>2, <1>3, <1>4, <1>6, <1>7, Steps

(* ------------------------------ delivery --------------------------------- *)

(* How the links that a task has yet to release change.                      *)
TodoMove(n) ==
  /\ pc[n] = "release" => todo'[n] = OutLinks(n)
  /\ pc[n] \in Late =>
       \/ todo'[n] = todo[n]
       \/ \E l \in todo[n] : /\ todo'[n] = todo[n] \ {l}
                             /\ IsSink(l) \/ releaseOutBuffers(n, l)

\* A task that ends takes every output link, and drops them one by one.
LEMMA TodoMoves ==
  ASSUME FlowInv, NEW n \in Node, NodeStep(n)
  PROVE  TodoMove(n)
<1>01. /\ pc \in [Node -> NodeState] /\ todo \in [Node -> SUBSET Link]
       /\ pc[n] \in {"sinkWrite", "sinkRelease"} =>
            sink[n] \in todo[n] \X Int /\ IsSink(sink[n][1])
  BY DEF FlowInv, IInv, TypeInv, DataType, TaskInv
<1> USE DEF At, Goto, Fail, notNode, given, schedVars, clientVars, resultVars, queueVars,
            sourceVars, linkVars
<1>1. ASSUME NEW l \in Link, getFrame(n, l) PROVE TodoMove(n)
  BY <1>01, <1>1 DEF getFrame, AfterFrame, Take, TodoMove, Late
<1>2. ASSUME NEW l \in Link, getSourceImage(n, l) PROVE TodoMove(n)
  BY <1>01, <1>2 DEF getSourceImage, Take, TodoMove, Late
<1>3. ASSUME NEW l \in Link, InputFails(n, l) PROVE TodoMove(n)
  BY <1>01, <1>3 DEF InputFails, InputEnded, TodoMove, Late
<1>4. ASSUME NEW l \in Link, releaseOutBuffers(n, l) PROVE TodoMove(n)
  <2>1. pc[n] = "links" /\ l \in todo[n] /\ todo'[n] = todo[n] \ {l}
    BY <1>01, <1>4 DEF releaseOutBuffers
  <2>2. QED
    BY <1>4, <2>1 DEF TodoMove
<1>5. ASSUME NEW l \in Link, SinkRead(n, l) PROVE TodoMove(n)
  BY <1>01, <1>5 DEF SinkRead, TodoMove, Late
<1>6. ASSUME getInputImage(n) PROVE TodoMove(n)
  BY <1>01, <1>6 DEF getInputImage, TodoMove, Late
<1>7. ASSUME checkTaskEffectiveness(n) PROVE TodoMove(n)
  BY <1>01, <1>7 DEF checkTaskEffectiveness, TodoMove, Late
<1>8. ASSUME getOutputImage(n) PROVE TodoMove(n)
  BY <1>01, <1>8 DEF getOutputImage, Acquire, TodoMove, Late
<1>9. ASSUME OutputFails(n) PROVE TodoMove(n)
  BY <1>01, <1>9 DEF OutputFails, Acquire, TodoMove, Late
<1>10. ASSUME PluginReturns(n) PROVE TodoMove(n)
  BY <1>01, <1>10 DEF PluginReturns, TodoMove, Late
<1>11. ASSUME PluginFails(n) PROVE TodoMove(n)
  BY <1>01, <1>11 DEF PluginFails, TodoMove, Late
<1>12. ASSUME FrameInput(n) PROVE TodoMove(n)
  BY <1>01, <1>12 DEF FrameInput, TodoMove, Late
<1>13. ASSUME FrameOutput(n) PROVE TodoMove(n)
  BY <1>01, <1>13 DEF FrameOutput, TodoMove, Late
<1>14. ASSUME FrameEnds(n) PROVE TodoMove(n)
  BY <1>01, <1>14 DEF FrameEnds, TodoMove, Late
<1>15. ASSUME EraseCurrent(n) PROVE TodoMove(n)
  BY <1>01, <1>15 DEF EraseCurrent, TodoMove, Late
<1>16. ASSUME AbnormalCallback(n) PROVE TodoMove(n)
  BY <1>01, <1>16 DEF AbnormalCallback, TodoMove, Late
<1>17. ASSUME ReleaseInputs(n) PROVE TodoMove(n)
  BY <1>01, <1>17 DEF ReleaseInputs, TodoMove, Late
<1>18. ASSUME SinkWrite(n) PROVE TodoMove(n)
  BY <1>01, <1>18 DEF SinkWrite, TodoMove, Late
<1>19. ASSUME SinkRelease(n) PROVE TodoMove(n)
  <2>1. pc[n] = "sinkRelease" /\ todo'[n] = todo[n] \ {sink[n][1]}
    BY <1>01, <1>19 DEF SinkRelease
  <2>2. sink[n][1] \in todo[n] /\ IsSink(sink[n][1])
    BY <1>01, <2>1
  <2>3. QED
    BY <2>1, <2>2 DEF TodoMove
<1>20. ASSUME NodeEnds(n) PROVE TodoMove(n)
  BY <1>01, <1>20 DEF NodeEnds, EndRequest, TodoMove, Late
<1> HIDE DEF At, Goto, Fail, notNode, given, schedVars, clientVars, resultVars, queueVars,
             sourceVars, linkVars
<1>21. QED
  BY <1>1, <1>2, <1>3, <1>4, <1>5, <1>6, <1>7, <1>8, <1>9, <1>10, <1>11, <1>12, <1>13,
     <1>14, <1>15, <1>16, <1>17, <1>18, <1>19, <1>20 DEF NodeStep

\* What has been delivered stays so, and a delivery is a step of releaseOutBuffers.
LEMMA Delivering ==
  ASSUME FlowInv, NEW n \in Node, NodeStep(n)
  PROVE  \A l \in Link : l[1] \in Node /\ ~IsSink(l) /\ (l[1] = n => l \in OutLinks(n)) =>
           /\ Delivered(l) => Delivered(l)'
           /\ Delivered(l)' /\ ~Delivered(l) =>
                l[1] = n /\ releaseOutBuffers(n, l) /\ n \notin mCurrentProcessNodes
<1> SUFFICES ASSUME NEW l \in Link, l[1] \in Node, ~IsSink(l), l[1] = n => l \in OutLinks(n)
             PROVE  /\ Delivered(l) => Delivered(l)'
                    /\ Delivered(l)' /\ ~Delivered(l) =>
                         l[1] = n /\ releaseOutBuffers(n, l) /\ n \notin mCurrentProcessNodes
  OBVIOUS
<1>0. /\ NodeMove(n) /\ Frame(n) /\ TodoMove(n)
      /\ pc \in [Node -> NodeState] /\ ok \in [Node -> BOOLEAN]
  BY NodeMoves, NodeFrame, TodoMoves DEF FlowInv, IInv, TypeInv
<1>1. CASE l[1] # n
  BY <1>0, <1>1 DEF Frame, Delivered
<1>2. CASE l[1] = n
  <2>0. /\ l \in OutLinks(n) /\ Active(n)
        /\ pc[n] \in Early => n \in mCurrentProcessNodes
        /\ pc[n] = "abnormal" => ~ok[n]
        /\ pc[n] \in Late => todo'[n] \subseteq todo[n]
    BY <1>0, <1>2 DEF FlowInv, IInv, ProcessInv, ReportInv, Early, NodeMove, TodoMove
  <2>1. CASE Works(n)
    BY <1>0, <1>2, <2>0, <2>1 DEF Works, Goes, Delivered, Early, Late
  <2>2. CASE Passes(n)
    <3>1. ASSUME Delivered(l) PROVE Delivered(l)'
      BY <1>0, <1>2, <2>0, <2>2, <3>1 DEF Passes, Goes, Delivered, Late, Active
    <3>2. ASSUME Delivered(l)', ~Delivered(l)
          PROVE  releaseOutBuffers(n, l) /\ n \notin mCurrentProcessNodes
      <4>1. /\ n \notin mCurrentProcessNodes /\ ok[n] /\ l \notin todo'[n]
            /\ pc[n] \in Late \cup {"frameOut", "release"}
        BY <1>0, <1>2, <2>2, <3>2 DEF Passes, Goes, Delivered, Late
      <4>2. pc[n] \in Late /\ l \in todo[n]
        BY <1>0, <1>2, <2>0, <3>2, <4>1 DEF TodoMove, Delivered, Early
      <4>3. QED
        BY <1>0, <4>1, <4>2 DEF TodoMove
    <3>3. QED
      BY <1>2, <3>1, <3>2
  <2>3. CASE EraseCurrent(n)
    BY <1>0, <1>2, <2>3 DEF EraseCurrent, At, Goto, Delivered, Late
  <2>4. CASE AbnormalCallback(n)
    BY <1>0, <1>2, <2>0, <2>4 DEF AbnormalCallback, At, Goto, Delivered, Late
  <2>5. CASE NodeEnds(n)
    BY <1>0, <1>2, <2>5 DEF NodeEnds, EndRequest, At, Goto, Delivered, Late
  <2>6. QED
    BY <1>0, <2>1, <2>2, <2>3, <2>4, <2>5 DEF NodeMove
<1>3. QED
  BY <1>1, <1>2

\* The internal links that a node waits for are finitely many links of the graph.
LEMMA PendingFinite ==
  ASSUME graph \in Graphs, NEW m \in Node
  PROVE  /\ IsFiniteSet(Pending(m)) /\ Cardinality(Pending(m)) \in Nat
         /\ IsFiniteSet(InternalInputs(graph, m))
         /\ \A l \in InternalInputs(graph, m) :
              /\ l \in Link /\ l[2] = m /\ l[1] \in Node /\ ~IsSink(l)
              /\ l \in OutLinks(l[1]) /\ l \in InLinks(m)
<1>1. /\ Pending(m) \subseteq InternalInputs(graph, m)
      /\ InternalInputs(graph, m) \subseteq Link
  BY LinksOfNodes DEF Pending
<1>2. IsFiniteSet(InternalInputs(graph, m))
  BY <1>1, LinksFinite, FS_Subset
<1>3. IsFiniteSet(Pending(m))
  BY <1>1, <1>2, FS_Subset
<1>4. Cardinality(Pending(m)) \in Nat
  BY <1>3, FS_CardinalityType
<1>5. \A l \in InternalInputs(graph, m) :
        /\ l \in Link /\ l[2] = m /\ l[1] \in Node /\ ~IsSink(l)
        /\ l \in OutLinks(l[1]) /\ l \in InLinks(m)
  BY <1>1, PipelineAssumption DEF InternalInputs, OutLinks, InLinks, IsSink
<1>6. QED
  BY <1>2, <1>3, <1>4, <1>5

\* A smaller set has fewer elements.
LEMMA Fewer ==
  ASSUME NEW S, IsFiniteSet(S), NEW T, T \subseteq S
  PROVE  /\ Cardinality(T) \in Nat /\ Cardinality(S) \in Nat
         /\ Cardinality(T) <= Cardinality(S)
         /\ \A x \in S : x \notin T => Cardinality(T) <= Cardinality(S) - 1
<1>1. /\ IsFiniteSet(T) /\ Cardinality(T) <= Cardinality(S)
      /\ Cardinality(S) = Cardinality(T) => S = T
  BY FS_Subset
<1>2. Cardinality(T) \in Nat /\ Cardinality(S) \in Nat
  BY <1>1, FS_CardinalityType
<1>3. QED
  BY <1>1, <1>2

\* A node that takes whole sets waits for as many parents as have not delivered.
LEMMA DependStep ==
  ASSUME FlowInv, [Next]_vars
  PROVE  DependInv'
<1>0. /\ DependInv /\ graph \in Graphs \cup {NoGraph}
      /\ mDependenceNum \in [Node -> Int] /\ pc \in [Node -> NodeState]
  BY DEF FlowInv, IInv, TypeInv
<1>1. ASSUME NEW n \in Node, NodeStep(n) PROVE DependInv'
  <2>1. Frame(n) /\ graph \in Graphs /\ graph' = graph
    BY <1>1, NodeFrame, NodeMoves DEF FlowInv, IInv, NodeMove, Frame
  <2> SUFFICES ASSUME NEW m \in Node, ~SigFrame(m)
               PROVE  mDependenceNum'[m] >= Cardinality(Pending(m)')
    BY <2>1, SameGraph DEF DependInv
  <2>2. InternalInputs(graph, m)' = InternalInputs(graph, m)
    BY <2>1, SameGraph
  <2>3. Pending(m)' \subseteq Pending(m)
    <3> SUFFICES ASSUME NEW l \in InternalInputs(graph, m), Delivered(l) PROVE Delivered(l)'
      BY <2>2 DEF Pending
    <3>1. l \in Link /\ l[1] \in Node /\ ~IsSink(l) /\ l \in OutLinks(l[1])
      BY <2>1, PendingFinite
    <3>2. QED
      BY <1>1, <3>1, Delivering
  <2>4. IsFiniteSet(Pending(m)) /\ mDependenceNum[m] >= Cardinality(Pending(m))
    BY <1>0, <2>1, PendingFinite, PipelineAssumption DEF DependInv
  <2>5. /\ Cardinality(Pending(m)') \in Nat /\ Cardinality(Pending(m)) \in Nat
        /\ Cardinality(Pending(m)') <= Cardinality(Pending(m))
        /\ \A x \in Pending(m) : x \notin Pending(m)' =>
             Cardinality(Pending(m)') <= Cardinality(Pending(m)) - 1
    BY <2>3, <2>4, Fewer
  <2>6. CASE mDependenceNum' = mDependenceNum
    BY <1>0, <2>4, <2>5, <2>6
  <2>7. ASSUME NEW L \in SUBSET OutLinks(n), Tells(n, L)
        PROVE  mDependenceNum'[m] >= Cardinality(Pending(m)')
    <3>1. mDependenceNum'[m] = mDependenceNum[m] - IF \E l \in L : l[2] = m THEN 1 ELSE 0
      BY <2>1, <2>7, Told
    <3>2. CASE ~\E l \in L : l[2] = m
      BY <1>0, <2>4, <2>5, <3>1, <3>2
    <3>3. ASSUME NEW l \in L, l[2] = m PROVE mDependenceNum'[m] >= Cardinality(Pending(m)')
      <4>1. releaseOutBuffers(n, l) /\ n \notin mCurrentProcessNodes /\ ~IsSink(l)
        BY <2>7, <3>3 DEF Tells
      <4>2. l \in Link /\ l[1] = n /\ l \in graph.links
        BY <2>1, LinksOfNodes DEF OutLinks
      <4>3. l \in InternalInputs(graph, m)
        BY <3>3, <4>2 DEF InternalInputs
      <4>4. pc[n] = "links" /\ l \in todo[n] /\ TaskInv(n) /\ todo \in [Node -> SUBSET Link]
        BY <4>1 DEF releaseOutBuffers, At, FlowInv, DataType
      <4>5. ok[n]
        BY <4>1, <4>4 DEF TaskInv, Leaving, Late
      <4>6. l \in Pending(m)
        BY <4>2, <4>3, <4>4 DEF Pending, Delivered
      <4>7. /\ UNCHANGED <<pc, ok, mCurrentProcessNodes>> /\ l \notin todo'[n]
        BY <4>1, <4>4 DEF releaseOutBuffers
      <4>8. Delivered(l)'
        BY <4>1, <4>2, <4>4, <4>5, <4>7 DEF Delivered, Late
      <4>9. l \notin Pending(m)'
        BY <4>8 DEF Pending
      <4>10. Cardinality(Pending(m)') <= Cardinality(Pending(m)) - 1
        BY <2>5, <4>6, <4>9
      <4>11. QED
        BY <1>0, <2>4, <2>5, <3>1, <3>3, <4>10
    <3>4. QED
      BY <3>2, <3>3
  <2>8. QED
    BY <1>1, <2>6, <2>7, Notifying DEF Hears
<1>2. ASSUME NEW g \in Graphs, rebuildLinks(g) PROVE DependInv'
  <2>1. /\ graph' = g
        /\ mDependenceNum' = [n \in Node |-> Cardinality(InternalInputs(g, n))]
        /\ \A n \in Node : pc'[n] = "none"
    BY <1>2, Building
  <2>2. ASSUME NEW m \in Node PROVE Pending(m)' = InternalInputs(g, m)
    <3>1. InternalInputs(graph, m)' = InternalInputs(g, m)
      BY <2>1 DEF InternalInputs
    <3>2. \A l \in InternalInputs(g, m) : ~Delivered(l)'
      BY <2>1 DEF InternalInputs, Delivered, Late
    <3>3. QED
      BY <3>1, <3>2 DEF Pending
  <2>3. \A m \in Node : Cardinality(InternalInputs(g, m)) \in Int
    BY FirstNodes
  <2>4. QED
    BY <2>1, <2>2, <2>3 DEF DependInv
<1>3. ASSUME UNCHANGED <<graph, mDependenceNum>>,
             \A l \in Link : l[1] \in Node => (Delivered(l)' <=> Delivered(l))
      PROVE  DependInv'
  <2> SUFFICES ASSUME graph # NoGraph, NEW m \in Node, ~SigFrame(m)
               PROVE  mDependenceNum[m] >= Cardinality(Pending(m)')
    BY <1>3, SameGraph DEF DependInv
  <2>1. Pending(m)' = Pending(m)
    <3>1. InternalInputs(graph, m)' = InternalInputs(graph, m)
      BY <1>3, SameGraph
    <3>2. \A l \in InternalInputs(graph, m) : l \in Link /\ l[1] \in Node
      BY <1>0, PendingFinite
    <3>3. QED
      BY <1>3, <3>1, <3>2 DEF Pending
  <2>2. QED
    BY <1>0, <2>1 DEF DependInv
<1>4. CASE PopNode
  <2>1. \A l \in Link : l[1] \in Node => (Delivered(l)' <=> Delivered(l))
    BY <1>4, Dispatching DEF Delivered, Late
  <2>2. QED
    BY <1>3, <1>4, <2>1, Dispatching
<1>5. CASE postProcess
  <2>1. \A l \in Link : l[1] \in Node => (Delivered(l)' <=> Delivered(l))
    BY <1>0, <1>5, Starting DEF Delivered, Late
  <2>2. QED
    BY <1>3, <1>5, <2>1, Starting
<1>6. CASE releaseUnusedBuffer
  <2>1. \A l \in Link : l[1] \in Node => (Delivered(l)' <=> Delivered(l))
    BY <1>6, Ending DEF Delivered
  <2>2. QED
    BY <1>3, <1>6, <2>1, Ending
<1>7. CASE Calm
  <2>1. \A l \in Link : l[1] \in Node => (Delivered(l)' <=> Delivered(l))
    BY <1>7 DEF Calm, flow, Delivered
  <2>2. QED
    BY <1>3, <1>7, <2>1 DEF Calm, flow
<1>8. QED
  BY <1>1, <1>2, <1>4, <1>5, <1>6, <1>7, Steps

(* ------------------------------- supply ---------------------------------- *)

\* More images after some images.
LEMMA MoreImages ==
  ASSUME NEW S, NEW q \in Seq(S), NEW r \in Seq(S)
  PROVE  /\ q \o r \in Seq(S) /\ Len(q \o r) = Len(q) + Len(r)
         /\ Len(q) \in Nat /\ Len(r) \in Nat
         /\ q # <<>> => q \o r # <<>>
         /\ r # <<>> => q \o r # <<>>
<1>1. q \o r \in Seq(S) /\ Len(q \o r) = Len(q) + Len(r) /\ Len(q) \in Nat /\ Len(r) \in Nat
  OBVIOUS
<1>2. (q # <<>> => Len(q) > 0) /\ (r # <<>> => Len(r) > 0)
  OBVIOUS
<1>3. (Len(q) > 0 \/ Len(r) > 0) => Len(q \o r) > 0
  BY <1>1
<1>4. Len(q \o r) > 0 => q \o r # <<>>
  BY <1>1
<1>5. QED
  BY <1>1, <1>2, <1>3, <1>4

\* A child that may start, or whose queue is closed, has images on the link already.
LEMMA ClosedHasImages ==
  ASSUME FlowInv, graph \in Graphs, ~Over, NEW n \in Node, NEW l \in OutLinks(n), ~IsSink(l),
         pc[l[2]] = "none", inRel[l]
  PROVE  inQ[l] # <<>>
<1>1. l \in Link /\ l \in graph.links /\ l[1] = n /\ l[2] \in Node
  BY LinksOfNodes, LinksFinite DEF OutLinks
<1>2. l \in InternalInputs(graph, l[2])
  BY <1>1 DEF InternalInputs
<1>3. mDependenceNum[l[2]] <= 0
  BY <1>1 DEF FlowInv, ReachInv
<1>4. graph # NoGraph
  BY PipelineAssumption
<1>5. QED
  BY <1>1, <1>2, <1>3, <1>4 DEF FlowInv, SupplyInv

\* releaseOutBuffers leaves an image for a child that has not begun.
LEMMA DeliveryFills ==
  ASSUME FlowInv, NEW n \in Node, NEW l \in Link, releaseOutBuffers(n, l), pc[l[2]] = "none"
  PROVE  inQ'[l] # <<>>
<1>0. pc[n] = "links" /\ Active(n)
  BY DEF releaseOutBuffers, At, Active
<1>1. graph \in Graphs /\ ~Over
  BY <1>0, NobodyLeft DEF FlowInv
<1>2. TaskInv(n)
  BY DEF FlowInv
<1>3. l \in todo[n] /\ l \in OutLinks(n) /\ ~IsSink(l) /\ l[1] = n
  BY <1>0, <1>1, <1>2, LinksOfNodes DEF releaseOutBuffers, TaskInv
<1>4. /\ inQ \in [Link -> Seq(Picture)] /\ outQ \in [Link -> Seq(Picture)]
  BY DEF FlowInv, DataType
<1>5. CASE inRel[l]
  <2>1. inQ'[l] = inQ[l]
    BY <1>4, <1>5 DEF releaseOutBuffers
  <2>2. QED
    BY <1>1, <1>3, <1>5, <2>1, ClosedHasImages
<1>6. CASE ~inRel[l]
  <2>1. mInputFrameNum[n] > 0
    BY <1>0, <1>2, <1>3 DEF TaskInv, Worked, Streaming, Leaving, Late
  <2>2. Stocked(l)
    BY <1>0, <1>3, <2>1 DEF FlowInv, StockInv
  <2>3. ~(PassesInputsOn(n) /\ \E k \in InLinks(n) : usingQ[k] # <<>>)
    BY <1>0, <1>2, <1>3 DEF TaskInv, Streaming, Leaving, Late
  <2>4. inQ[l] # <<>> \/ outQ[l] # <<>>
    BY <1>3, <2>2, <2>3 DEF Stocked
  <2>5. PICK k \in 0 .. Len(outQ[l]) : (inQ'[l] = inQ[l] \o SubSeq(outQ[l], 1, k))
                                     /\ (outQ[l] # <<>> => k > 0)
    <3> DEFINE k == IF n \in mCurrentProcessNodes /\ outQ[l] # <<>> THEN 1 ELSE Len(outQ[l])
    <3>1. inQ'[l] = inQ[l] \o SubSeq(outQ[l], 1, k)
      BY <1>4, <1>6 DEF releaseOutBuffers
    <3>2. Len(outQ[l]) \in Nat /\ (outQ[l] # <<>> => Len(outQ[l]) > 0)
      BY <1>4
    <3>3. k \in 0 .. Len(outQ[l]) /\ (outQ[l] # <<>> => k > 0)
      BY <3>2
    <3> HIDE DEF k
    <3>4. QED
      BY <3>1, <3>3
  <2>6. /\ SubSeq(outQ[l], 1, k) \in Seq(Picture) /\ inQ[l] \in Seq(Picture)
        /\ outQ[l] # <<>> => SubSeq(outQ[l], 1, k) # <<>>
    <3>1. outQ[l] \in Seq(Picture) /\ inQ[l] \in Seq(Picture)
      BY <1>4
    <3>2. SubSeq(outQ[l], 1, k) \in Seq(Picture) /\ Len(SubSeq(outQ[l], 1, k)) = k
      BY <3>1
    <3>3. k > 0 => SubSeq(outQ[l], 1, k) # <<>>
      BY <3>2
    <3>4. QED
      BY <2>5, <3>1, <3>2, <3>3
  <2>7. inQ[l] # <<>> \/ SubSeq(outQ[l], 1, k) # <<>>
    BY <2>4, <2>6
  <2>8. inQ[l] \o SubSeq(outQ[l], 1, k) # <<>>
    BY <2>6, <2>7, MoreImages
  <2>9. QED
    BY <2>5, <2>8
<1>7. QED
  BY <1>5, <1>6

\* releaseInputBuffers of an in-place or virtual node leaves an image for such a child.
LEMMA PassingFills ==
  ASSUME FlowInv, NEW n \in Node, Active(n), PassesInputsOn(n), NEW k \in [Link -> Nat],
         \A l \in Link : k[l] <= Len(usingQ[l]), releaseInputBuffers(n, k),
         \E l \in InLinks(n) : k[l] # 0,
         NEW l \in OutLinks(n), ~IsSink(l), pc[l[2]] = "none"
  PROVE  inQ'[l] # <<>>
<1>1. graph \in Graphs /\ ~Over /\ DataType
  BY NobodyLeft DEF FlowInv
<1>2. PICK gone \in Seq(Picture), lost \in Nat :
        /\ Released(n, k, gone, lost)
        /\ gone = <<>> <=> \A x \in InLinks(n) : k[x] = 0
  BY <1>1, ReleaseEffect
<1>3. gone # <<>>
  BY <1>2
<1>4. l \in Link /\ l \in Copies(n) /\ inQ[l] \in Seq(Picture)
  BY <1>1, LinksOfNodes DEF Copies, DataType
<1>5. CASE inRel[l]
  <2>1. inQ'[l] = inQ[l]
    BY <1>2, <1>4, <1>5 DEF Released, Refused
  <2>2. QED
    BY <1>1, <1>5, <2>1, ClosedHasImages
<1>6. CASE ~inRel[l]
  <2>1. inQ'[l] = inQ[l] \o gone
    BY <1>2, <1>4, <1>6 DEF Released, Refused
  <2>2. QED
    BY <1>3, <1>4, <2>1, MoreImages
<1>7. QED
  BY <1>5, <1>6

\* Whoever is told has got an image, if it has not begun yet.
LEMMA TellingFills ==
  ASSUME FlowInv, NEW n \in Node, graph \in Graphs, NEW L \in SUBSET OutLinks(n), Tells(n, L),
         NEW l \in L, pc[l[2]] = "none"
  PROVE  inQ'[l] # <<>>
<1>1. l \in Link /\ ~IsSink(l)
  BY LinksOfNodes DEF Tells
<1>2. CASE releaseOutBuffers(n, l)
  BY <1>1, <1>2, DeliveryFills
<1>3. CASE FrameInput(n) /\ Has(n, "SIGRELEASEINPUT") /\ PassesInputsOn(n)
  <2> DEFINE k == [x \in Link |-> IF usingQ[x] = <<>> THEN 0 ELSE 1]
  <2>1. releaseInputBuffers(n, k) /\ pc[n] = "frameIn"
    BY <1>3 DEF FrameInput, At
  <2>2. k \in [Link -> Nat] /\ \A x \in Link : k[x] <= Len(usingQ[x])
    BY HowMany DEF FlowInv
  <2>3. InLinks(n) # {} /\ \A x \in InLinks(n) : usingQ[x] # <<>> /\ x \in Link
    BY <2>1, LinksOfNodes DEF FlowInv, ReachInv, Reached, TaskInv, HoldsInputs
  <2>4. \E x \in InLinks(n) : k[x] # 0
    BY <2>3
  <2>5. Active(n)
    BY <2>1 DEF Active
  <2> HIDE DEF k
  <2>6. QED
    BY <1>1, <1>3, <2>1, <2>2, <2>4, <2>5, PassingFills
<1>4. QED
  BY <1>2, <1>3 DEF Tells

\* Nobody can start without an image on every internal link.
LEMMA SupplyStep ==
  ASSUME FlowInv, [Next]_vars
  PROVE  SupplyInv'
<1>0. /\ SupplyInv /\ graph \in Graphs \cup {NoGraph} /\ NoGraph \notin Graphs
      /\ mDependenceNum \in [Node -> Int] /\ pc \in [Node -> NodeState]
  BY PipelineAssumption DEF FlowInv, IInv, TypeInv
<1>1. ASSUME NEW n \in Node, NodeStep(n) PROVE SupplyInv'
  <2>1. /\ Frame(n) /\ NodeMove(n) /\ Active(n) /\ graph \in Graphs /\ graph' = graph /\ ~Over
        /\ graph # NoGraph
    BY <1>0, <1>1, NodeFrame, NodeMoves, NobodyLeft DEF FlowInv, IInv, NodeMove, Frame
  <2>2. pc'[n] # "none" /\ pc[n] # "none"
    BY <1>0, <2>1 DEF NodeMove, Works, Passes, Goes, EraseCurrent, AbnormalCallback, NodeEnds,
          EndRequest, At, Goto, Early, Late, Active
  <2>3. \A m \in Node : /\ InternalInputs(graph, m)' = InternalInputs(graph, m)
                       /\ SigFrame(m)' <=> SigFrame(m)
    BY <2>1, SameGraph
  <2>4. ASSUME NEW m \in Node, m # n, NEW l \in InternalInputs(graph, m), inQ[l] # <<>>
        PROVE  inQ'[l] # <<>>
    <3>1. l \in Link /\ l[2] = m
      BY <2>1, PendingFinite
    <3>2. QED
      BY <2>1, <2>4, <3>1 DEF Frame
  <2>5. ASSUME NEW m \in Node, pc'[m] = "none", NEW l \in InternalInputs(graph, m),
               ~SigFrame(m), Delivered(l)'
        PROVE  inQ'[l] # <<>>
    <3>1. m # n /\ pc[m] = "none"
      BY <2>1, <2>2, <2>5 DEF Frame
    <3>2. l \in Link /\ l[2] = m /\ l[1] \in Node /\ ~IsSink(l) /\ l \in OutLinks(l[1])
      BY <2>1, PendingFinite
    <3>3. CASE Delivered(l)
      <4>1. inQ[l] # <<>>
        BY <1>0, <2>1, <2>5, <3>1, <3>3 DEF SupplyInv
      <4>2. QED
        BY <2>4, <3>1, <4>1
    <3>4. CASE ~Delivered(l)
      <4>1. releaseOutBuffers(n, l)
        BY <1>1, <2>5, <3>2, <3>4, Delivering
      <4>2. QED
        BY <3>1, <3>2, <4>1, DeliveryFills
    <3>5. QED
      BY <3>3, <3>4
  <2>6. ASSUME NEW m \in Node, pc'[m] = "none", NEW l \in InternalInputs(graph, m),
               mDependenceNum'[m] <= 0
        PROVE  inQ'[l] # <<>>
    <3>0. InternalInputs(graph, m)' = InternalInputs(graph, m)
      BY <2>1, SameGraph
    <3>1. m # n /\ pc[m] = "none"
      BY <2>1, <2>2, <2>6 DEF Frame
    <3>2. l \in Link /\ l[2] = m /\ l[1] \in Node /\ ~IsSink(l) /\ l \in OutLinks(l[1])
          /\ l \in InLinks(m)
      BY <2>1, PendingFinite
    <3>3. CASE mDependenceNum[m] <= 0
      <4>1. inQ[l] # <<>>
        BY <1>0, <2>1, <3>1, <3>3 DEF SupplyInv
      <4>2. QED
        BY <2>4, <3>1, <4>1
    <3>4. CASE ~SigFrame(m)
      <4>1. Cardinality(Pending(m)') <= 0
        <5>1. DependInv' /\ TypeInv'
          BY DependStep, TypeStep DEF FlowInv
        <5>2. (graph \in Graphs)' /\ graph' # NoGraph /\ ~SigFrame(m)'
          BY <2>1, <2>3, <3>4
        <5>3. mDependenceNum'[m] >= Cardinality(Pending(m)')
          BY <5>1, <5>2 DEF DependInv
        <5>4. Cardinality(Pending(m)') \in Nat /\ mDependenceNum'[m] \in Int
          <6>1. IsFiniteSet(InternalInputs(graph, m))
            BY <2>1, PendingFinite
          <6>2. Pending(m)' \subseteq InternalInputs(graph, m)
            BY <3>0 DEF Pending
          <6>3. QED
            BY <5>1, <6>1, <6>2, Fewer DEF TypeInv
        <5>5. QED
          BY <2>6, <5>3, <5>4
      <4>2. Pending(m)' = {}
        <5>1. IsFiniteSet(InternalInputs(graph, m))
          BY <2>1, PendingFinite
        <5>2. Pending(m)' \subseteq InternalInputs(graph, m)
          BY <3>0 DEF Pending
        <5>3. IsFiniteSet(Pending(m)') /\ Cardinality(Pending(m)') \in Nat
          BY <5>1, <5>2, FS_Subset, FS_CardinalityType
        <5>4. Cardinality(Pending(m)') = 0
          BY <4>1, <5>3
        <5>5. QED
          BY <5>3, <5>4, FS_EmptySet
      <4>3. Delivered(l)'
        BY <3>0, <4>2 DEF Pending
      <4>4. QED
        BY <2>5, <2>6, <3>4, <4>3
    <3>5. CASE SigFrame(m) /\ ~(mDependenceNum[m] <= 0)
      <4>1. PICK L \in SUBSET OutLinks(n) : Tells(n, L)
        BY <1>1, <2>6, <3>5, Notifying DEF Hears
      <4>2. PICK x \in L : x[2] = m
        BY <1>0, <2>1, <2>6, <3>5, <4>1, Told
      <4>3. x \in InLinks(m)
        BY <4>2 DEF OutLinks, InLinks
      <4>4. ~TopologyError(graph)
        BY <2>2 DEF FlowInv, ReachInv, Reached
      <4>5. x = l
        BY <2>1, <3>2, <3>5, <4>3, <4>4, OneInput
      <4>6. QED
        BY <2>1, <3>1, <4>1, <4>2, <4>5, TellingFills
    <3>6. QED
      BY <3>3, <3>4, <3>5
  <2>7. ASSUME NEW m \in Node, pc'[m] = "input", ~SigFrame(m), NEW l \in InternalInputs(graph, m)
        PROVE  inQ'[l] # <<>>
    <3>1. CASE m # n
      <4>1. pc[m] = "input"
        BY <2>1, <2>7, <3>1 DEF Frame
      <4>2. inQ[l] # <<>>
        BY <1>0, <2>7, <4>1 DEF SupplyInv
      <4>3. QED
        BY <2>4, <3>1, <4>2
    <3>2. CASE m = n
      <4>1. pc[n] = "input" /\ inQ' = inQ
        <5>1. TaskInv(n)
          BY DEF FlowInv
        <5>2. ~(pc[n] \in {"frameIn", "frameOut"} \/ Streaming(n))
          BY <2>7, <3>2, <5>1 DEF TaskInv
        <5>3. pc \in [Node -> NodeState] /\ pc'[n] = "input"
          BY <1>0, <2>7, <3>2
        <5> USE DEF At, Goto, Late, Streaming
        <5>4. \/ \E k \in Link : getFrame(n, k) \/ getSourceImage(n, k)
              \/ FrameInput(n) \/ FrameOutput(n) \/ FrameEnds(n)
              \/ \E k \in Link : releaseOutBuffers(n, k) /\ FALSE
          BY <1>1, <5>3 DEF NodeStep, InputFails, releaseOutBuffers, SinkRead, getInputImage,
                checkTaskEffectiveness, getOutputImage, OutputFails, PluginReturns, PluginFails,
                EraseCurrent, AbnormalCallback, ReleaseInputs, SinkWrite, SinkRelease, NodeEnds,
                EndRequest, InputEnded
        <5>5. \E k \in Link : getSourceImage(n, k)
          BY <2>7, <3>2, <5>2, <5>4 DEF getFrame, FrameInput, FrameOutput, FrameEnds
        <5>6. QED
          BY <5>5 DEF getSourceImage
      <4>2. QED
        BY <1>0, <2>7, <3>2, <4>1 DEF SupplyInv
    <3>3. QED
      BY <3>1, <3>2
  <2>8. QED
    BY <2>1, <2>5, <2>6, <2>7 DEF SupplyInv, InternalInputs, SigFrame, Has
<1>2. ASSUME NEW g \in Graphs, rebuildLinks(g) PROVE SupplyInv'
  <2>1. /\ graph' = g
        /\ mDependenceNum' = [n \in Node |-> Cardinality(InternalInputs(g, n))]
        /\ \A n \in Node : pc'[n] = "none"
    BY <1>2, Building
  <2>2. ASSUME NEW m \in Node, NEW l \in InternalInputs(g, m)
        PROVE  mDependenceNum'[m] > 0 /\ ~Delivered(l)'
    <3>1. Cardinality(InternalInputs(g, m)) > 0
      <4>1. InternalInputs(g, m) \subseteq g.links /\ IsFiniteSet(g.links)
        BY LinksOfAGraph DEF InternalInputs
      <4>2. IsFiniteSet(InternalInputs(g, m))
        BY <4>1, FS_Subset
      <4>3. Cardinality(InternalInputs(g, m)) \in Nat /\ Cardinality(InternalInputs(g, m)) # 0
        BY <4>2, FS_CardinalityType, FS_EmptySet
      <4>4. QED
        BY <4>3
    <3>2. l[1] \in Node
      BY DEF InternalInputs
    <3>3. QED
      BY <2>1, <3>1, <3>2 DEF Delivered, Late
  <2>3. \A m \in Node : InternalInputs(graph, m)' = InternalInputs(g, m)
    BY <2>1 DEF InternalInputs
  <2>4. \A m \in Node : mDependenceNum'[m] \in Int
    BY <2>1, FirstNodes
  <2>5. \A m \in Node : \A l \in InternalInputs(graph, m)' :
          ~(mDependenceNum'[m] <= 0) /\ ~Delivered(l)'
    BY <2>2, <2>3, <2>4
  <2>6. QED
    BY <2>1, <2>5 DEF SupplyInv
<1>3. ASSUME UNCHANGED <<graph, mDependenceNum, inQ>>, Over => Over',
             \A m \in Node : pc'[m] = pc[m] \/ (pc[m] = "none" /\ mDependenceNum[m] <= 0 /\ ~Over
                                                 /\ pc'[m] # "none"),
             \A l \in Link : l[1] \in Node => (Delivered(l)' => Delivered(l))
      PROVE  SupplyInv'
  <2>1. \A m \in Node : /\ InternalInputs(graph, m)' = InternalInputs(graph, m)
                       /\ SigFrame(m)' <=> SigFrame(m)
    BY <1>3, SameGraph
  <2>2. graph # NoGraph => \A m \in Node : \A l \in InternalInputs(graph, m) : l \in Link /\ l[1] \in Node
    BY <1>0, PendingFinite
  <2>3. \A m \in Node : pc'[m] = "none" => pc[m] = "none"
    BY <1>3
  <2>4. \A m \in Node : pc[m] # "none" => graph # NoGraph
    BY DEF FlowInv, IInv, FreshInv
  <2>5. ASSUME NEW m \in Node, pc'[m] = "input", ~SigFrame(m), NEW l \in InternalInputs(graph, m)
        PROVE  inQ[l] # <<>>
    <3>1. CASE pc[m] = "input"
      BY <1>0, <2>5, <3>1 DEF SupplyInv
    <3>2. CASE pc[m] # "input"
      <4>1. pc[m] = "none" /\ mDependenceNum[m] <= 0 /\ ~Over
        BY <1>3, <2>5, <3>2
      <4>2. graph # NoGraph
        BY <1>3, <2>5, <2>4, <4>1, FreshStep DEF FlowInv, IInv, FreshInv
      <4>3. QED
        BY <1>0, <2>5, <4>1, <4>2 DEF SupplyInv
    <3>3. QED
      BY <3>1, <3>2
  <2>6. ASSUME graph' # NoGraph, ~Over', NEW m \in Node, pc'[m] = "none",
               NEW l \in InternalInputs(graph, m),
               (mDependenceNum'[m] <= 0) \/ (~SigFrame(m) /\ Delivered(l)')
        PROVE  inQ[l] # <<>>
    <3>1. graph # NoGraph /\ ~Over /\ pc[m] = "none" /\ l \in Link /\ l[1] \in Node
      BY <1>3, <2>2, <2>3, <2>6
    <3>2. (mDependenceNum[m] <= 0) \/ (~SigFrame(m) /\ Delivered(l))
      BY <1>3, <2>6, <3>1
    <3>3. QED
      BY <1>0, <2>6, <3>1, <3>2 DEF SupplyInv
  <2>7. QED
    BY <1>3, <2>1, <2>5, <2>6 DEF SupplyInv
<1>4. CASE PopNode
  <2>1. \A l \in Link : l[1] \in Node => (Delivered(l)' => Delivered(l))
    BY <1>4, Dispatching DEF Delivered, Late
  <2>2. QED
    BY <1>3, <1>4, <2>1, Dispatching
<1>5. CASE postProcess
  <2>1. \A l \in Link : l[1] \in Node => (Delivered(l)' => Delivered(l))
    BY <1>0, <1>5, Starting DEF Delivered, Late
  <2>2. \A m \in Node : pc'[m] = pc[m] \/ (pc[m] = "none" /\ mDependenceNum[m] <= 0 /\ ~Over
                                            /\ pc'[m] # "none")
    BY <1>0, <1>5, Starting
  <2>3. QED
    BY <1>3, <1>5, <2>1, <2>2, Starting
<1>6. CASE releaseUnusedBuffer
  BY <1>6, Ending DEF SupplyInv, Active
<1>7. CASE Calm
  <2>1. \A l \in Link : l[1] \in Node => (Delivered(l)' => Delivered(l))
    BY <1>7 DEF Calm, flow, Delivered
  <2>2. QED
    BY <1>3, <1>7, <2>1 DEF Calm, flow
<1>8. QED
  BY <1>1, <1>2, <1>4, <1>5, <1>6, <1>7, Steps

(* --------------------------------- stock --------------------------------- *)

(* After a step of its task, a node that has worked still has an image for   *)
(* every child that has not begun.                                           *)
StockKept(n) ==
  \A l \in OutLinks(n) : ~IsSink(l) /\ pc'[l[2]] = "none" /\ mInputFrameNum'[n] > 0 =>
    \/ inQ'[l] # <<>> \/ outQ'[l] # <<>>
    \/ PassesInputsOn(n) /\ \E k \in InLinks(n) : usingQ'[k] # <<>>

\* A step of a task keeps an image for its children.
LEMMA StockOwnStep ==
  ASSUME GraphsFlow, FlowInv, NEW n \in Node, NodeStep(n)
  PROVE  StockKept(n)
<1>01. /\ pc \in [Node -> NodeState] /\ ok \in [Node -> BOOLEAN]
       /\ mInputFrameNum \in [Node -> Nat] /\ todo \in [Node -> SUBSET Link]
       /\ sink \in [Node -> {<<>>} \cup (Link \X Int)]
       /\ srcQ \in [SourcePort -> Seq(Picture)]
       /\ inQ \in [Link -> Seq(Picture)]
       /\ usingQ \in [Link -> Seq(Picture)] /\ outQ \in [Link -> Seq(Picture)]
       /\ TaskInv(n)
  BY DEF FlowInv, IInv, TypeInv, DataType
<1>02. Active(n) /\ graph \in Graphs
  BY NodeMoves DEF FlowInv, IInv, NodeMove
<1>03. /\ \A x \in InLinks(n) : x \in Link /\ x[2] = n
       /\ \A x \in OutLinks(n) : x \in Link /\ x[1] = n
  BY <1>02, LinksOfNodes
<1>04. mInputFrameNum[n] > 0 =>
         \A x \in OutLinks(n) : ~IsSink(x) /\ pc[x[2]] = "none" =>
           \/ inQ[x] # <<>> \/ outQ[x] # <<>>
           \/ PassesInputsOn(n) /\ \E k \in InLinks(n) : usingQ[k] # <<>>
  BY <1>02, <1>03 DEF FlowInv, StockInv, Stocked
<1>05. \A x \in OutLinks(n) : ~IsSink(x) /\ pc'[x[2]] = "none" =>
         x \in Link /\ pc[x[2]] = "none" /\ (inQ[x] # <<>> => inQ'[x] # <<>>)
  <2> SUFFICES ASSUME NEW x \in OutLinks(n), ~IsSink(x), pc'[x[2]] = "none"
               PROVE  x \in Link /\ pc[x[2]] = "none" /\ (inQ[x] # <<>> => inQ'[x] # <<>>)
    OBVIOUS
  <2>1. Frame(n) /\ NodeMove(n) /\ x \in Link /\ x[2] \in Node
    BY <1>03, NodeFrame, NodeMoves, LinksFinite DEF FlowInv, IInv
  <2>2. pc'[n] # "none"
    BY <1>01, <2>1 DEF NodeMove, Works, Passes, Goes, EraseCurrent, AbnormalCallback, NodeEnds,
          EndRequest, At, Goto, Early, Late
  <2>3. QED
    BY <2>1, <2>2 DEF Frame
<1>06. InLinks(n) # {} /\ ~TopologyError(graph)
  BY <1>02 DEF FlowInv, ReachInv, Reached, Active
<1> USE DEF At, Goto, Fail, notNode, given, schedVars, clientVars, resultVars, queueVars,
            sourceVars, linkVars
<1>1. ASSUME NEW l \in Link, getFrame(n, l) PROVE StockKept(n)
  <2>0. \A image : /\ usingQ[l] \in Seq(Picture)
                   /\ Append(usingQ[l], image) # <<>>
    <3>1. usingQ[l] \in Seq(Picture)
      BY <1>01
    <3>2. \A image : Len(Append(usingQ[l], image)) = Len(usingQ[l]) + 1 /\ Len(usingQ[l]) \in Nat
      BY <3>1
    <3>3. QED
      BY <3>1, <3>2
  <2>1. PICK image : /\ usingQ' = [usingQ EXCEPT ![l] = Append(@, image)]
                     /\ AfterFrame(n, image) /\ outQ' = outQ /\ l \in InLinks(n)
    BY <1>1 DEF getFrame, Take
  <2>2. usingQ'[l] # <<>> /\ l \in InLinks(n)
    BY <1>01, <2>0, <2>1
  <2>3. Has(n, "VIRTUAL") => PassesInputsOn(n)
    BY DEF PassesInputsOn
  <2>4. ~Has(n, "VIRTUAL") => mInputFrameNum'[n] = mInputFrameNum[n]
    BY <2>1 DEF AfterFrame
  <2>5. QED
    BY <1>04, <1>05, <2>1, <2>2, <2>3, <2>4 DEF StockKept
<1>2. ASSUME NEW l \in Link, getSourceImage(n, l) PROVE StockKept(n)
  <2>0. \A image : /\ usingQ[l] \in Seq(Picture)
                   /\ Append(usingQ[l], image) # <<>>
    <3>1. usingQ[l] \in Seq(Picture)
      BY <1>01
    <3>2. \A image : Len(Append(usingQ[l], image)) = Len(usingQ[l]) + 1 /\ Len(usingQ[l]) \in Nat
      BY <3>1
    <3>3. QED
      BY <3>1, <3>2
  <2>1. PICK image : /\ usingQ' = [usingQ EXCEPT ![l] = Append(@, image)]
                     /\ outQ' = outQ /\ mInputFrameNum' = mInputFrameNum
    BY <1>2 DEF getSourceImage, Take
  <2>2. \A x \in InLinks(n) : usingQ[x] # <<>> => usingQ'[x] # <<>>
    BY <1>01, <1>03, <2>0, <2>1
  <2>3. QED
    BY <1>04, <1>05, <2>1, <2>2 DEF StockKept
<1>3. ASSUME NEW l \in Link, InputFails(n, l) PROVE StockKept(n)
  <2>1. /\ mInputFrameNum'[n] = mInputFrameNum[n]
        /\ \A x \in OutLinks(n) : ~IsSink(x) /\ outQ[x] # <<>> => outQ'[x] # <<>>
        /\ \A x \in InLinks(n) : usingQ[x] # <<>> => usingQ'[x] # <<>>
    BY <1>01, <1>03, <1>3 DEF InputFails, InputEnded
  <2>2. QED
    BY <1>04, <1>05, <2>1 DEF StockKept
<1>4. ASSUME NEW l \in Link, releaseOutBuffers(n, l) PROVE StockKept(n)
  <2>1. /\ mInputFrameNum' = mInputFrameNum /\ usingQ' = usingQ
        /\ \A x \in Link : x # l => outQ'[x] = outQ[x]
    BY <1>01, <1>4 DEF releaseOutBuffers
  <2>2. pc[l[2]] = "none" => inQ'[l] # <<>>
    BY <1>4, DeliveryFills
  <2>3. QED
    BY <1>04, <1>05, <2>1, <2>2 DEF StockKept
<1>5. ASSUME NEW l \in Link, SinkRead(n, l) PROVE StockKept(n)
  <2>1. /\ mInputFrameNum'[n] = mInputFrameNum[n]
        /\ \A x \in OutLinks(n) : ~IsSink(x) /\ outQ[x] # <<>> => outQ'[x] # <<>>
        /\ \A x \in InLinks(n) : usingQ[x] # <<>> => usingQ'[x] # <<>>
    BY <1>01, <1>03, <1>5 DEF SinkRead
  <2>2. QED
    BY <1>04, <1>05, <2>1 DEF StockKept
<1>6. ASSUME getInputImage(n) PROVE StockKept(n)
  <2>1. \A x \in InLinks(n) : usingQ'[x] = usingQ[x] \o inQ[x]
    BY <1>03, <1>6 DEF getInputImage
  <2>2. \A x \in InLinks(n) : usingQ[x] # <<>> => usingQ'[x] # <<>>
    BY <1>01, <1>03, <2>1, MoreImages
  <2>3. outQ' = outQ /\ mInputFrameNum' = mInputFrameNum
    BY <1>6 DEF getInputImage
  <2>4. QED
    BY <1>04, <1>05, <2>2, <2>3 DEF StockKept
<1>7. ASSUME checkTaskEffectiveness(n) PROVE StockKept(n)
  <2>1. /\ mInputFrameNum'[n] = mInputFrameNum[n]
        /\ \A x \in OutLinks(n) : ~IsSink(x) /\ outQ[x] # <<>> => outQ'[x] # <<>>
        /\ \A x \in InLinks(n) : usingQ[x] # <<>> => usingQ'[x] # <<>>
    BY <1>01, <1>03, <1>7 DEF checkTaskEffectiveness
  <2>2. QED
    BY <1>04, <1>05, <2>1 DEF StockKept
<1>8. ASSUME getOutputImage(n) PROVE StockKept(n)
  <2>1. pc[n] = "output" /\ usingQ' = usingQ /\ \A x \in InLinks(n) : usingQ[x] # <<>>
    BY <1>01, <1>8 DEF getOutputImage, Acquire, TaskInv, HoldsInputs
  <2>2. CASE isInplaceNode(n)
    BY <1>06, <2>1, <2>2 DEF StockKept, PassesInputsOn
  <2>3. CASE needGetOutBufferThisTime(n) /\ ~isInplaceNode(n)
    <3>1. NewOutputs(n) \in Seq(Picture) /\ NewOutputs(n) # <<>>
      BY <1>02, <1>06, <2>1, OutputsTaken DEF FlowInv
    <3>2. \A x \in OutLinks(n) : outQ'[x] = outQ[x] \o NewOutputs(n)
      BY <1>03, <2>3, <1>8 DEF getOutputImage, Acquire
    <3>3. \A x \in OutLinks(n) : outQ'[x] # <<>>
      BY <1>01, <1>03, <3>1, <3>2, MoreImages
    <3>4. QED
      BY <3>3 DEF StockKept
  <2>4. CASE ~needGetOutBufferThisTime(n)
    <3>1. \A x \in OutLinks(n) : outQ'[x] = outQ[x]
      BY <1>03, <2>4, <1>8 DEF getOutputImage, Acquire
    <3>2. mInputFrameNum[n] > 0
      BY <1>01, <2>4 DEF needGetOutBufferThisTime
    <3>3. QED
      BY <1>04, <1>05, <2>1, <3>1, <3>2 DEF StockKept
  <2>5. QED
    BY <2>2, <2>3, <2>4
<1>9. ASSUME OutputFails(n) PROVE StockKept(n)
  <2>1. PICK links \in SUBSET OutLinks(n) : Acquire(n, links)
    BY <1>9 DEF OutputFails
  <2>2. pc[n] = "output" /\ usingQ' = usingQ /\ mInputFrameNum' = mInputFrameNum
    BY <1>9 DEF OutputFails, Acquire
  <2>3. NewOutputs(n) \in Seq(Picture)
    BY <1>01, <1>02, <1>06, <2>2, OutputsTaken DEF FlowInv, TaskInv, HoldsInputs
  <2>4. \A x \in OutLinks(n) : outQ'[x] = outQ[x] \/ outQ'[x] = outQ[x] \o NewOutputs(n)
    BY <1>03, <2>1 DEF Acquire
  <2>5. \A x \in OutLinks(n) : outQ[x] # <<>> => outQ'[x] # <<>>
    <3>1. \A x \in OutLinks(n) : outQ[x] # <<>> => outQ[x] \o NewOutputs(n) # <<>>
      BY <1>01, <1>03, <2>3, MoreImages
    <3>2. QED
      BY <2>4, <3>1
  <2>6. QED
    BY <1>04, <1>05, <2>2, <2>5 DEF StockKept
<1>10. ASSUME PluginReturns(n) PROVE StockKept(n)
  <2>1. /\ mInputFrameNum'[n] = mInputFrameNum[n]
        /\ \A x \in OutLinks(n) : ~IsSink(x) /\ outQ[x] # <<>> => outQ'[x] # <<>>
        /\ \A x \in InLinks(n) : usingQ[x] # <<>> => usingQ'[x] # <<>>
    BY <1>01, <1>03, <1>10 DEF PluginReturns
  <2>2. QED
    BY <1>04, <1>05, <2>1 DEF StockKept
<1>11. ASSUME PluginFails(n) PROVE StockKept(n)
  <2>1. /\ mInputFrameNum'[n] = mInputFrameNum[n]
        /\ \A x \in OutLinks(n) : ~IsSink(x) /\ outQ[x] # <<>> => outQ'[x] # <<>>
        /\ \A x \in InLinks(n) : usingQ[x] # <<>> => usingQ'[x] # <<>>
    BY <1>01, <1>03, <1>11 DEF PluginFails
  <2>2. QED
    BY <1>04, <1>05, <2>1 DEF StockKept
<1>12. ASSUME FrameInput(n) PROVE StockKept(n)
  <2> DEFINE k == [x \in Link |-> IF usingQ[x] = <<>> THEN 0 ELSE 1]
  <2>2. k \in [Link -> Nat] /\ \A x \in Link : k[x] <= Len(usingQ[x])
    BY HowMany DEF FlowInv
  <2>3. \A x \in Link : usingQ[x] # <<>> => k[x] # 0
    BY <1>01
  <2>4. ASSUME releaseInputBuffers(n, k), outQ' = outQ, mInputFrameNum' = mInputFrameNum
        PROVE  StockKept(n)
    <3> HIDE DEF k
    <3> SUFFICES ASSUME NEW x \in OutLinks(n), ~IsSink(x), pc'[x[2]] = "none",
                        mInputFrameNum'[n] > 0, inQ[x] = <<>>, outQ[x] = <<>>
                 PROVE  inQ'[x] # <<>>
      BY <1>05, <2>4 DEF StockKept
    <3>1. pc[x[2]] = "none"
      BY <1>05
    <3>2. PassesInputsOn(n) /\ \E y \in InLinks(n) : usingQ[y] # <<>>
      BY <1>04, <2>4, <3>1
    <3>3. \E y \in InLinks(n) : k[y] # 0
      BY <1>03, <2>3, <3>2
    <3>4. QED
      BY <1>02, <2>2, <2>4, <3>1, <3>2, <3>3, PassingFills
  <2>5. CASE UNCHANGED queueVars
    <3>1. UNCHANGED <<usingQ, outQ, mInputFrameNum>>
      BY <2>5, <1>12 DEF FrameInput
    <3>2. QED
      BY <1>04, <1>05, <3>1 DEF StockKept
  <2>6. CASE releaseInputBuffers(n, k)
    <3>1. outQ' = outQ /\ mInputFrameNum' = mInputFrameNum
      BY <2>6, <1>12 DEF FrameInput, releaseInputBuffers
    <3>2. QED
      BY <2>4, <2>6, <3>1
  <2>7. QED
    BY <2>5, <2>6, <1>12 DEF FrameInput
<1>13. ASSUME FrameOutput(n) PROVE StockKept(n)
  <2>1. /\ mInputFrameNum'[n] = mInputFrameNum[n]
        /\ \A x \in OutLinks(n) : ~IsSink(x) /\ outQ[x] # <<>> => outQ'[x] # <<>>
        /\ \A x \in InLinks(n) : usingQ[x] # <<>> => usingQ'[x] # <<>>
    BY <1>01, <1>03, <1>13 DEF FrameOutput
  <2>2. QED
    BY <1>04, <1>05, <2>1 DEF StockKept
<1>14. ASSUME FrameEnds(n) PROVE StockKept(n)
  <2>1. /\ mInputFrameNum'[n] = mInputFrameNum[n]
        /\ \A x \in OutLinks(n) : ~IsSink(x) /\ outQ[x] # <<>> => outQ'[x] # <<>>
        /\ \A x \in InLinks(n) : usingQ[x] # <<>> => usingQ'[x] # <<>>
    BY <1>01, <1>03, <1>14 DEF FrameEnds
  <2>2. QED
    BY <1>04, <1>05, <2>1 DEF StockKept
<1>15. ASSUME EraseCurrent(n) PROVE StockKept(n)
  <2>1. /\ mInputFrameNum'[n] = mInputFrameNum[n]
        /\ \A x \in OutLinks(n) : ~IsSink(x) /\ outQ[x] # <<>> => outQ'[x] # <<>>
        /\ \A x \in InLinks(n) : usingQ[x] # <<>> => usingQ'[x] # <<>>
    BY <1>01, <1>03, <1>15 DEF EraseCurrent
  <2>2. QED
    BY <1>04, <1>05, <2>1 DEF StockKept
<1>16. ASSUME AbnormalCallback(n) PROVE StockKept(n)
  <2>1. /\ mInputFrameNum'[n] = mInputFrameNum[n]
        /\ \A x \in OutLinks(n) : ~IsSink(x) /\ outQ[x] # <<>> => outQ'[x] # <<>>
        /\ \A x \in InLinks(n) : usingQ[x] # <<>> => usingQ'[x] # <<>>
    BY <1>01, <1>03, <1>16 DEF AbnormalCallback
  <2>2. QED
    BY <1>04, <1>05, <2>1 DEF StockKept
<1>17. ASSUME ReleaseInputs(n) PROVE StockKept(n)
  <2> DEFINE k == [x \in Link |-> Len(usingQ[x])]
  <2>2. k \in [Link -> Nat] /\ \A x \in Link : k[x] <= Len(usingQ[x])
    BY HowMany DEF FlowInv
  <2>3. \A x \in Link : usingQ[x] # <<>> => k[x] # 0
    BY <1>01
  <2>4. ASSUME releaseInputBuffers(n, k), outQ' = outQ, mInputFrameNum' = mInputFrameNum
        PROVE  StockKept(n)
    <3> HIDE DEF k
    <3> SUFFICES ASSUME NEW x \in OutLinks(n), ~IsSink(x), pc'[x[2]] = "none",
                        mInputFrameNum'[n] > 0, inQ[x] = <<>>, outQ[x] = <<>>
                 PROVE  inQ'[x] # <<>>
      BY <1>05, <2>4 DEF StockKept
    <3>1. pc[x[2]] = "none"
      BY <1>05
    <3>2. PassesInputsOn(n) /\ \E y \in InLinks(n) : usingQ[y] # <<>>
      BY <1>04, <2>4, <3>1
    <3>3. \E y \in InLinks(n) : k[y] # 0
      BY <1>03, <2>3, <3>2
    <3>4. QED
      BY <1>02, <2>2, <2>4, <3>1, <3>2, <3>3, PassingFills
  <2>5. releaseInputBuffers(n, k) /\ mInputFrameNum' = mInputFrameNum
    BY <1>17 DEF ReleaseInputs
  <2>6. outQ' = outQ
    BY <2>5 DEF releaseInputBuffers
  <2>7. QED
    BY <2>4, <2>5, <2>6
<1>18. ASSUME SinkWrite(n) PROVE StockKept(n)
  <2>1. /\ mInputFrameNum'[n] = mInputFrameNum[n]
        /\ \A x \in OutLinks(n) : ~IsSink(x) /\ outQ[x] # <<>> => outQ'[x] # <<>>
        /\ \A x \in InLinks(n) : usingQ[x] # <<>> => usingQ'[x] # <<>>
    BY <1>01, <1>03, <1>18 DEF SinkWrite
  <2>2. QED
    BY <1>04, <1>05, <2>1 DEF StockKept
<1>19. ASSUME SinkRelease(n) PROVE StockKept(n)
  <2>1. IsSink(sink[n][1])
    BY <1>01, <1>19 DEF SinkRelease, TaskInv
  <2>2. /\ mInputFrameNum' = mInputFrameNum /\ usingQ' = usingQ
        /\ \A x \in Link : ~IsSink(x) => outQ'[x] = outQ[x]
    BY <1>01, <2>1, <1>19 DEF SinkRelease
  <2>3. QED
    BY <1>04, <1>05, <2>2 DEF StockKept
<1>20. ASSUME NodeEnds(n) PROVE StockKept(n)
  <2>1. ~(mInputFrameNum'[n] > 0)
    BY <1>01, <1>20 DEF NodeEnds, EndRequest
  <2>2. QED
    BY <2>1 DEF StockKept
<1> HIDE DEF At, Goto, Fail, notNode, given, schedVars, clientVars, resultVars, queueVars,
             sourceVars, linkVars
<1>21. QED
  BY <1>1, <1>2, <1>3, <1>4, <1>5, <1>6, <1>7, <1>8, <1>9, <1>10, <1>11, <1>12, <1>13,
     <1>14, <1>15, <1>16, <1>17, <1>18, <1>19, <1>20 DEF NodeStep

\* A node that has worked has an image for every child that has not begun.
LEMMA StockStep ==
  ASSUME GraphsFlow, FlowInv, [Next]_vars
  PROVE  StockInv'
<1>0. StockInv /\ graph \in Graphs \cup {NoGraph} /\ pc \in [Node -> NodeState]
  BY DEF FlowInv, IInv, TypeInv
<1>1. ASSUME NEW n \in Node, NodeStep(n) PROVE StockInv'
  <2>1. /\ Frame(n) /\ graph \in Graphs /\ graph' = graph /\ Active(n) /\ StockKept(n)
    BY <1>1, NodeFrame, NodeMoves, StockOwnStep DEF FlowInv, IInv, NodeMove, Frame
  <2>2. \A m \in Node : /\ InLinks(m)' = InLinks(m) /\ OutLinks(m)' = OutLinks(m)
                        /\ PassesInputsOn(m)' <=> PassesInputsOn(m)
    BY <2>1, SameGraph
  <2>3. ASSUME NEW m \in Node, Active(m)', mInputFrameNum'[m] > 0,
               NEW l \in OutLinks(m), ~IsSink(l), pc'[l[2]] = "none"
        PROVE  \/ inQ'[l] # <<>> \/ outQ'[l] # <<>>
               \/ PassesInputsOn(m) /\ \E k \in InLinks(m) : usingQ'[k] # <<>>
    <3>1. CASE m = n
      BY <2>1, <2>3, <3>1 DEF StockKept
    <3>2. CASE m # n
      <4>1. Active(m) /\ mInputFrameNum[m] > 0
        BY <2>1, <2>3, <3>2 DEF Frame, Active
      <4>2. l \in Link /\ l[1] = m /\ l[2] \in Node
        BY <2>1, <2>3, LinksOfNodes, LinksFinite
      <4>3. l[2] # n /\ pc[l[2]] = "none"
        <5>1. NodeMove(n)
          BY <1>1, NodeMoves DEF FlowInv, IInv
        <5>2. pc'[n] # "none"
          BY <1>0, <5>1 DEF NodeMove, Works, Passes, Goes, EraseCurrent, AbnormalCallback,
                NodeEnds, EndRequest, At, Goto, Early, Late
        <5>3. QED
          BY <2>1, <2>3, <4>2, <5>2 DEF Frame
      <4>4. \/ inQ[l] # <<>> \/ outQ[l] # <<>>
            \/ PassesInputsOn(m) /\ \E k \in InLinks(m) : usingQ[k] # <<>>
        BY <1>0, <2>3, <4>1, <4>2, <4>3 DEF StockInv, Stocked
      <4>5. \A k \in InLinks(m) : usingQ'[k] = usingQ[k]
        BY <2>1, <3>2, LinksOfNodes DEF Frame
      <4>6. outQ'[l] = outQ[l] /\ (inQ[l] # <<>> => inQ'[l] # <<>>)
        BY <2>1, <3>2, <4>2, <4>3 DEF Frame
      <4>7. QED
        BY <4>4, <4>5, <4>6
    <3>3. QED
      BY <3>1, <3>2
  <2>4. ASSUME NEW m \in Node, NEW l \in OutLinks(m) PROVE l[1] = m
    BY <2>4 DEF OutLinks
  <2>5. ASSUME NEW m \in Node, Active(m)', mInputFrameNum'[m] > 0,
               NEW l \in OutLinks(m)', ~IsSink(l)
        PROVE  Stocked(l)'
    <3>1. l \in OutLinks(m) /\ l[1] = m
      BY <2>1, <2>4, <2>5, SameGraph
    <3>2. InLinks(m)' = InLinks(m) /\ (PassesInputsOn(m)' <=> PassesInputsOn(m))
      BY <2>1, SameGraph
    <3>3. ASSUME pc'[l[2]] = "none"
          PROVE  \/ inQ'[l] # <<>> \/ outQ'[l] # <<>>
                 \/ PassesInputsOn(m)' /\ \E k \in InLinks(m)' : usingQ'[k] # <<>>
      BY <2>3, <2>5, <3>1, <3>2, <3>3
    <3>4. QED
      BY <3>1, <3>3 DEF Stocked
  <2>6. QED
    BY <2>5 DEF StockInv
<1>2. ASSUME \A n \in Node : ~Active(n)' PROVE StockInv'
  BY <1>2 DEF StockInv
<1>3. ASSUME NEW g \in Graphs, rebuildLinks(g) PROVE StockInv'
  BY <1>2, <1>3, Building DEF Active
<1>4. CASE releaseUnusedBuffer
  BY <1>2, <1>4, Ending DEF Active
<1>5. ASSUME UNCHANGED <<graph, inQ, outQ, usingQ, mInputFrameNum>>,
             \A m \in Node : /\ pc'[m] = "none" => pc[m] = "none"
                             /\ Active(m)' => Active(m) \/ mInputFrameNum[m] = 0
      PROVE  StockInv'
  <2> SUFFICES ASSUME NEW m \in Node, Active(m)', mInputFrameNum'[m] > 0,
                      NEW l \in OutLinks(m)', ~IsSink(l)
               PROVE  Stocked(l)'
    BY DEF StockInv
  <2>1. /\ l \in OutLinks(m) /\ l[1] = m /\ InLinks(m)' = InLinks(m)
        /\ PassesInputsOn(m)' <=> PassesInputsOn(m)
    BY <1>5, SameGraph DEF OutLinks
  <2>2. Active(m) /\ mInputFrameNum[m] > 0
    BY <1>5
  <2>3. graph \in Graphs
    BY <2>2, NobodyLeft DEF FlowInv
  <2>4. l[2] \in Node
    BY <2>1, <2>3, LinksOfNodes, LinksFinite
  <2>5. Stocked(l)
    BY <1>0, <2>1, <2>2 DEF StockInv
  <2>6. QED
    BY <1>5, <2>1, <2>4, <2>5 DEF Stocked
<1>6. CASE PopNode
  BY <1>5, <1>6, Dispatching DEF Active
<1>7. CASE postProcess
  <2>1. mInputFrameNum[serving] = 0
    BY <1>7, Starting DEF FlowInv, TaskInv
  <2>2. \A m \in Node : /\ pc'[m] = "none" => pc[m] = "none"
                        /\ Active(m)' => Active(m) \/ mInputFrameNum[m] = 0
    BY <1>0, <1>7, <2>1, Starting DEF Active
  <2>3. QED
    BY <1>5, <1>7, <2>2, Starting
<1>8. CASE Calm
  BY <1>5, <1>8 DEF Calm, flow, Active
<1>9. QED
  BY <1>1, <1>3, <1>4, <1>6, <1>7, <1>8, Steps

(* --------------------------------- types --------------------------------- *)

\* What is taken from a queue, and what stays in it.
LEMMA Parts ==
  ASSUME NEW S, NEW q \in Seq(S)
  PROVE  /\ Len(q) \in Nat
         /\ q # <<>> => /\ Head(q) \in S /\ Tail(q) \in Seq(S) /\ Len(q) > 0
                        /\ Len(Tail(q)) = Len(q) - 1
         /\ \A k \in 0 .. Len(q) : /\ SubSeq(q, k + 1, Len(q)) \in Seq(S)
                                   /\ Len(SubSeq(q, k + 1, Len(q))) = Len(q) - k
                                   /\ SubSeq(q, 1, k) \in Seq(S)
                                   /\ Len(SubSeq(q, 1, k)) = k
         /\ \A x \in S : Append(q, x) \in Seq(S) /\ Len(Append(q, x)) = Len(q) + 1
<1>1. Len(q) \in Nat /\ (q # <<>> => Len(q) > 0)
  OBVIOUS
<1>2. q # <<>> => Head(q) \in S /\ Tail(q) \in Seq(S) /\ Len(Tail(q)) = Len(q) - 1
  OBVIOUS
<1>3. ASSUME NEW k \in 0 .. Len(q)
      PROVE  /\ SubSeq(q, k + 1, Len(q)) \in Seq(S)
             /\ Len(SubSeq(q, k + 1, Len(q))) = Len(q) - k
             /\ SubSeq(q, 1, k) \in Seq(S)
             /\ Len(SubSeq(q, 1, k)) = k
  BY <1>1
<1>4. \A x \in S : Append(q, x) \in Seq(S) /\ Len(Append(q, x)) = Len(q) + 1
  OBVIOUS
<1>5. QED
  BY <1>1, <1>2, <1>3, <1>4

\* The product of two integers is one.
LEMMA ProductType == ASSUME NEW a \in Int, NEW b \in Int PROVE a * b \in Int
OBVIOUS

\* A step of a task keeps the types.
LEMMA DataOwnStep ==
  ASSUME GraphsFlow, FlowInv, NEW n \in Node, NodeStep(n)
  PROVE  DataType'
<1>01. /\ pc \in [Node -> NodeState] /\ ok \in [Node -> BOOLEAN]
       /\ mInputFrameNum \in [Node -> Nat] /\ todo \in [Node -> SUBSET Link]
       /\ sink \in [Node -> {<<>>} \cup (Link \X Int)]
       /\ srcQ \in [SourcePort -> Seq(Picture)]
       /\ inQ \in [Link -> Seq(Picture)]
       /\ usingQ \in [Link -> Seq(Picture)] /\ outQ \in [Link -> Seq(Picture)]
       /\ TaskInv(n)
  BY DEF FlowInv, IInv, TypeInv, DataType
<1>02. Active(n) /\ graph \in Graphs
  BY NodeMoves DEF FlowInv, IInv, NodeMove
<1>03. /\ \A x \in InLinks(n) : x \in Link /\ x[2] = n
       /\ \A x \in OutLinks(n) : x \in Link /\ x[1] = n
  BY <1>02, LinksOfNodes
<1>04. /\ srcRel \in [SourcePort -> BOOLEAN] /\ inRel \in [Link -> BOOLEAN]
       /\ fed \in [SourcePort -> 0 .. NumFrames] /\ mFlushStatus \in FlushStatus
       /\ flushes \in Seq(FlushStatus) /\ fpc \in {"none", "nodes", "crashed"}
       /\ mSinkNumToReturn \in Int /\ complete \in Nat /\ live \in Int
  BY DEF FlowInv, DataType
<1>05. InLinks(n) # {}
  BY <1>02 DEF FlowInv, ReachInv, Reached, Active
<1> USE DEF At, Goto, Fail, notNode, given, schedVars, clientVars, resultVars, queueVars,
            sourceVars, linkVars
<1>1. ASSUME NEW l \in Link, getFrame(n, l) PROVE DataType'
  <2>1. UNCHANGED <<srcRel, inRel, fed, mFlushStatus, flushes, fpc>>
    BY <1>1 DEF getFrame, Take
  <2>2. /\ mInputFrameNum' \in [Node -> Nat] /\ todo' \in [Node -> SUBSET Link]
        /\ sink' \in [Node -> {<<>>} \cup (Link \X Int)]
        /\ mSinkNumToReturn' \in Int /\ complete' \in Nat
    <3>1. PICK image : AfterFrame(n, image)
      BY <1>1 DEF getFrame
    <3>2. mInputFrameNum' \in [Node -> Nat]
      <4>1. \/ mInputFrameNum' = mInputFrameNum
            \/ mInputFrameNum' = [mInputFrameNum EXCEPT ![n] = @ + 1]
        BY <3>1, Zenon DEF AfterFrame
      <4>2. mInputFrameNum \in [Node -> Nat]
        BY <1>01
      <4>3. QED
        BY <4>1, <4>2
    <3>3. UNCHANGED <<todo, sink, mSinkNumToReturn, complete>>
      BY <1>1 DEF getFrame, Take
    <3>4. QED
      BY <1>01, <1>04, <3>2, <3>3
  <2>3. /\ srcQ' \in [SourcePort -> Seq(Picture)] /\ inQ' \in [Link -> Seq(Picture)]
        /\ usingQ' \in [Link -> Seq(Picture)] /\ outQ' \in [Link -> Seq(Picture)]
        /\ live' \in Int
    <3>1. CASE IsSource(l)
      <4>1. l[1] \in SourcePort /\ srcQ[l[1]] # <<>> /\ srcQ[l[1]] \in Seq(Picture)
        BY <1>01, <3>1, <1>1 DEF getFrame, IsSource
      <4>2. /\ Head(srcQ[l[1]]) \in Picture /\ Tail(srcQ[l[1]]) \in Seq(Picture)
            /\ Append(usingQ[l], Head(srcQ[l[1]])) \in Seq(Picture)
        BY <1>01, <4>1, Parts
      <4>3. QED
        BY <1>01, <1>04, <3>1, <4>2, <1>1 DEF getFrame, Take
    <3>2. CASE ~IsSource(l)
      <4>1. inQ[l] # <<>> /\ inQ[l] \in Seq(Picture)
        BY <1>01, <3>2, <1>1 DEF getFrame
      <4>2. /\ Head(inQ[l]) \in Picture /\ Tail(inQ[l]) \in Seq(Picture)
            /\ Append(usingQ[l], Head(inQ[l])) \in Seq(Picture)
        BY <1>01, <4>1, Parts
      <4>3. QED
        BY <1>01, <1>04, <3>2, <4>2, <1>1 DEF getFrame, Take
    <3>3. QED
      BY <3>1, <3>2
  <2>4. QED
    BY <1>04, <2>1, <2>2, <2>3 DEF DataType
<1>2. ASSUME NEW l \in Link, getSourceImage(n, l) PROVE DataType'
  <2>1. UNCHANGED <<srcRel, inRel, fed, mFlushStatus, flushes, fpc>>
    BY <1>2 DEF getSourceImage, Take
  <2>2. /\ mInputFrameNum' \in [Node -> Nat] /\ todo' \in [Node -> SUBSET Link]
        /\ sink' \in [Node -> {<<>>} \cup (Link \X Int)]
        /\ mSinkNumToReturn' \in Int /\ complete' \in Nat
    BY <1>01, <1>04, <1>2 DEF getSourceImage, Take
  <2>3. /\ srcQ' \in [SourcePort -> Seq(Picture)] /\ inQ' \in [Link -> Seq(Picture)]
        /\ usingQ' \in [Link -> Seq(Picture)] /\ outQ' \in [Link -> Seq(Picture)]
        /\ live' \in Int
    <3>1. l[1] \in SourcePort /\ srcQ[l[1]] # <<>> /\ srcQ[l[1]] \in Seq(Picture)
      BY <1>01, <1>2 DEF getSourceImage, IsSource, SourceMissing
    <3>2. /\ Head(srcQ[l[1]]) \in Picture /\ Tail(srcQ[l[1]]) \in Seq(Picture)
          /\ Append(usingQ[l], Head(srcQ[l[1]])) \in Seq(Picture)
      BY <1>01, <3>1, Parts
    <3>3. QED
      BY <1>01, <1>04, <3>2, <1>2 DEF getSourceImage, Take
  <2>4. QED
    BY <1>04, <2>1, <2>2, <2>3 DEF DataType
<1>3. ASSUME NEW l \in Link, InputFails(n, l) PROVE DataType'
  <2>1. UNCHANGED <<srcRel, inRel, fed, mFlushStatus, flushes, fpc>>
    BY <1>3 DEF InputFails, InputEnded
  <2>2. /\ mInputFrameNum' \in [Node -> Nat] /\ todo' \in [Node -> SUBSET Link]
        /\ sink' \in [Node -> {<<>>} \cup (Link \X Int)]
        /\ mSinkNumToReturn' \in Int /\ complete' \in Nat
    BY <1>01, <1>04, <1>3 DEF InputFails, InputEnded
  <2>3. /\ srcQ' \in [SourcePort -> Seq(Picture)] /\ inQ' \in [Link -> Seq(Picture)]
        /\ usingQ' \in [Link -> Seq(Picture)] /\ outQ' \in [Link -> Seq(Picture)]
        /\ live' \in Int
    BY <1>01, <1>04, <1>3 DEF InputFails, InputEnded
  <2>4. QED
    BY <1>04, <2>1, <2>2, <2>3 DEF DataType
<1>4. ASSUME NEW l \in Link, releaseOutBuffers(n, l) PROVE DataType'
  <2>1. UNCHANGED <<srcRel, inRel, fed, mFlushStatus, flushes, fpc>>
    BY <1>4 DEF releaseOutBuffers
  <2>2. /\ mInputFrameNum' \in [Node -> Nat] /\ todo' \in [Node -> SUBSET Link]
        /\ sink' \in [Node -> {<<>>} \cup (Link \X Int)]
        /\ mSinkNumToReturn' \in Int /\ complete' \in Nat
    BY <1>01, <1>04, <1>4 DEF releaseOutBuffers
  <2>3. /\ srcQ' \in [SourcePort -> Seq(Picture)] /\ inQ' \in [Link -> Seq(Picture)]
        /\ usingQ' \in [Link -> Seq(Picture)] /\ outQ' \in [Link -> Seq(Picture)]
        /\ live' \in Int
    <3> DEFINE k == IF n \in mCurrentProcessNodes /\ outQ[l] # <<>> THEN 1 ELSE Len(outQ[l])
    <3>1. outQ[l] \in Seq(Picture) /\ inQ[l] \in Seq(Picture)
      BY <1>01
    <3>2. k \in 0 .. Len(outQ[l])
      BY <3>1, Parts
    <3>3. /\ outQ' = [outQ EXCEPT ![l] = SubSeq(@, k + 1, Len(@))]
          /\ inQ' = [inQ EXCEPT ![l] = IF inRel[l] THEN @ ELSE @ \o SubSeq(outQ[l], 1, k)]
          /\ live' = live - IF inRel[l] THEN k ELSE 0
          /\ UNCHANGED <<srcQ, usingQ>>
      BY <1>4 DEF releaseOutBuffers
    <3> HIDE DEF k
    <3>4. SubSeq(outQ[l], k + 1, Len(outQ[l])) \in Seq(Picture) /\ SubSeq(outQ[l], 1, k) \in Seq(Picture)
      BY <3>1, <3>2, Parts
    <3>5. inQ[l] \o SubSeq(outQ[l], 1, k) \in Seq(Picture)
      BY <3>1, <3>4, MoreImages
    <3>6. outQ' \in [Link -> Seq(Picture)] /\ inQ' \in [Link -> Seq(Picture)]
      BY <1>01, <3>3, <3>4, <3>5
    <3>7. live' \in Int
      BY <1>04, <3>2, <3>3
    <3>8. QED
      BY <1>01, <3>3, <3>6, <3>7
  <2>4. QED
    BY <1>04, <2>1, <2>2, <2>3 DEF DataType
<1>5. ASSUME NEW l \in Link, SinkRead(n, l) PROVE DataType'
  <2>1. UNCHANGED <<srcRel, inRel, fed, mFlushStatus, flushes, fpc>>
    BY <1>5 DEF SinkRead
  <2>2. /\ mInputFrameNum' \in [Node -> Nat] /\ todo' \in [Node -> SUBSET Link]
        /\ sink' \in [Node -> {<<>>} \cup (Link \X Int)]
        /\ mSinkNumToReturn' \in Int /\ complete' \in Nat
    BY <1>01, <1>04, <1>5 DEF SinkRead
  <2>3. /\ srcQ' \in [SourcePort -> Seq(Picture)] /\ inQ' \in [Link -> Seq(Picture)]
        /\ usingQ' \in [Link -> Seq(Picture)] /\ outQ' \in [Link -> Seq(Picture)]
        /\ live' \in Int
    BY <1>01, <1>04, <1>5 DEF SinkRead
  <2>4. QED
    BY <1>04, <2>1, <2>2, <2>3 DEF DataType
<1>6. ASSUME getInputImage(n) PROVE DataType'
  <2>1. UNCHANGED <<srcRel, inRel, fed, mFlushStatus, flushes, fpc>>
    BY <1>6 DEF getInputImage
  <2>2. /\ mInputFrameNum' \in [Node -> Nat] /\ todo' \in [Node -> SUBSET Link]
        /\ sink' \in [Node -> {<<>>} \cup (Link \X Int)]
        /\ mSinkNumToReturn' \in Int /\ complete' \in Nat
    BY <1>01, <1>04, <1>6 DEF getInputImage
  <2>3. /\ srcQ' \in [SourcePort -> Seq(Picture)] /\ inQ' \in [Link -> Seq(Picture)]
        /\ usingQ' \in [Link -> Seq(Picture)] /\ outQ' \in [Link -> Seq(Picture)]
        /\ live' \in Int
    <3>1. \A x \in Link : usingQ[x] \o inQ[x] \in Seq(Picture)
      BY <1>01
    <3>2. <<>> \in Seq(Picture)
      OBVIOUS
    <3>3. QED
      BY <1>01, <1>04, <3>1, <3>2, <1>6 DEF getInputImage
  <2>4. QED
    BY <1>04, <2>1, <2>2, <2>3 DEF DataType
<1>7. ASSUME checkTaskEffectiveness(n) PROVE DataType'
  <2>1. UNCHANGED <<srcRel, inRel, fed, mFlushStatus, flushes, fpc>>
    BY <1>7 DEF checkTaskEffectiveness
  <2>2. /\ mInputFrameNum' \in [Node -> Nat] /\ todo' \in [Node -> SUBSET Link]
        /\ sink' \in [Node -> {<<>>} \cup (Link \X Int)]
        /\ mSinkNumToReturn' \in Int /\ complete' \in Nat
    BY <1>01, <1>04, <1>7 DEF checkTaskEffectiveness
  <2>3. /\ srcQ' \in [SourcePort -> Seq(Picture)] /\ inQ' \in [Link -> Seq(Picture)]
        /\ usingQ' \in [Link -> Seq(Picture)] /\ outQ' \in [Link -> Seq(Picture)]
        /\ live' \in Int
    BY <1>01, <1>04, <1>7 DEF checkTaskEffectiveness
  <2>4. QED
    BY <1>04, <2>1, <2>2, <2>3 DEF DataType
<1>8. ASSUME getOutputImage(n) PROVE DataType'
  <2>1. UNCHANGED <<srcRel, inRel, fed, mFlushStatus, flushes, fpc>>
    BY <1>8 DEF getOutputImage, Acquire
  <2>2. /\ mInputFrameNum' \in [Node -> Nat] /\ todo' \in [Node -> SUBSET Link]
        /\ sink' \in [Node -> {<<>>} \cup (Link \X Int)]
        /\ mSinkNumToReturn' \in Int /\ complete' \in Nat
    BY <1>01, <1>04, <1>8 DEF getOutputImage, Acquire
  <2>3. /\ srcQ' \in [SourcePort -> Seq(Picture)] /\ inQ' \in [Link -> Seq(Picture)]
        /\ usingQ' \in [Link -> Seq(Picture)] /\ outQ' \in [Link -> Seq(Picture)]
        /\ live' \in Int
    <3>1. PICK links \in SUBSET OutLinks(n) : Acquire(n, links)
      BY <1>8 DEF getOutputImage
    <3>2. /\ NewOutputs(n) \in Seq(Picture) /\ Len(NewOutputs(n)) \in Nat
      <4>1. pc[n] = "output"
        BY <1>8 DEF getOutputImage
      <4>2. QED
        BY <1>01, <1>02, <1>05, <4>1, OutputsTaken DEF FlowInv, TaskInv, HoldsInputs
    <3>3. \A x \in Link : outQ[x] \o NewOutputs(n) \in Seq(Picture)
      BY <1>01, <3>2, MoreImages
    <3>4. Cardinality(links) \in Nat
      <4>1. links \subseteq Link
        BY <1>03
      <4>2. QED
        BY <4>1, LinksFinite, Fewer
    <3>5. Cardinality(links) * Len(NewOutputs(n)) \in Int
      BY <3>2, <3>4, ProductType
    <3>6. live' \in Int
      BY <1>04, <3>1, <3>5 DEF Acquire
    <3>7. outQ' \in [Link -> Seq(Picture)]
      BY <1>01, <3>1, <3>3 DEF Acquire
    <3>8. QED
      BY <1>01, <3>1, <3>6, <3>7 DEF Acquire
  <2>4. QED
    BY <1>04, <2>1, <2>2, <2>3 DEF DataType
<1>9. ASSUME OutputFails(n) PROVE DataType'
  <2>1. UNCHANGED <<srcRel, inRel, fed, mFlushStatus, flushes, fpc>>
    BY <1>9 DEF OutputFails, Acquire
  <2>2. /\ mInputFrameNum' \in [Node -> Nat] /\ todo' \in [Node -> SUBSET Link]
        /\ sink' \in [Node -> {<<>>} \cup (Link \X Int)]
        /\ mSinkNumToReturn' \in Int /\ complete' \in Nat
    BY <1>01, <1>04, <1>9 DEF OutputFails, Acquire
  <2>3. /\ srcQ' \in [SourcePort -> Seq(Picture)] /\ inQ' \in [Link -> Seq(Picture)]
        /\ usingQ' \in [Link -> Seq(Picture)] /\ outQ' \in [Link -> Seq(Picture)]
        /\ live' \in Int
    <3>1. PICK links \in SUBSET OutLinks(n) : Acquire(n, links)
      BY <1>9 DEF OutputFails
    <3>2. /\ NewOutputs(n) \in Seq(Picture) /\ Len(NewOutputs(n)) \in Nat
      <4>1. pc[n] = "output"
        BY <1>9 DEF OutputFails
      <4>2. QED
        BY <1>01, <1>02, <1>05, <4>1, OutputsTaken DEF FlowInv, TaskInv, HoldsInputs
    <3>3. \A x \in Link : outQ[x] \o NewOutputs(n) \in Seq(Picture)
      BY <1>01, <3>2, MoreImages
    <3>4. Cardinality(links) \in Nat
      <4>1. links \subseteq Link
        BY <1>03
      <4>2. QED
        BY <4>1, LinksFinite, Fewer
    <3>5. Cardinality(links) * Len(NewOutputs(n)) \in Int
      BY <3>2, <3>4, ProductType
    <3>6. live' \in Int
      BY <1>04, <3>1, <3>5 DEF Acquire
    <3>7. outQ' \in [Link -> Seq(Picture)]
      BY <1>01, <3>1, <3>3 DEF Acquire
    <3>8. QED
      BY <1>01, <3>1, <3>6, <3>7 DEF Acquire
  <2>4. QED
    BY <1>04, <2>1, <2>2, <2>3 DEF DataType
<1>10. ASSUME PluginReturns(n) PROVE DataType'
  <2>1. UNCHANGED <<srcRel, inRel, fed, mFlushStatus, flushes, fpc>>
    BY <1>10 DEF PluginReturns
  <2>2. /\ mInputFrameNum' \in [Node -> Nat] /\ todo' \in [Node -> SUBSET Link]
        /\ sink' \in [Node -> {<<>>} \cup (Link \X Int)]
        /\ mSinkNumToReturn' \in Int /\ complete' \in Nat
    BY <1>01, <1>04, <1>10 DEF PluginReturns
  <2>3. /\ srcQ' \in [SourcePort -> Seq(Picture)] /\ inQ' \in [Link -> Seq(Picture)]
        /\ usingQ' \in [Link -> Seq(Picture)] /\ outQ' \in [Link -> Seq(Picture)]
        /\ live' \in Int
    BY <1>01, <1>04, <1>10 DEF PluginReturns
  <2>4. QED
    BY <1>04, <2>1, <2>2, <2>3 DEF DataType
<1>11. ASSUME PluginFails(n) PROVE DataType'
  <2>1. UNCHANGED <<srcRel, inRel, fed, mFlushStatus, flushes, fpc>>
    BY <1>11 DEF PluginFails
  <2>2. /\ mInputFrameNum' \in [Node -> Nat] /\ todo' \in [Node -> SUBSET Link]
        /\ sink' \in [Node -> {<<>>} \cup (Link \X Int)]
        /\ mSinkNumToReturn' \in Int /\ complete' \in Nat
    BY <1>01, <1>04, <1>11 DEF PluginFails
  <2>3. /\ srcQ' \in [SourcePort -> Seq(Picture)] /\ inQ' \in [Link -> Seq(Picture)]
        /\ usingQ' \in [Link -> Seq(Picture)] /\ outQ' \in [Link -> Seq(Picture)]
        /\ live' \in Int
    BY <1>01, <1>04, <1>11 DEF PluginFails
  <2>4. QED
    BY <1>04, <2>1, <2>2, <2>3 DEF DataType
<1>12. ASSUME FrameInput(n) PROVE DataType'
  <2>1. UNCHANGED <<srcRel, inRel, fed, mFlushStatus, flushes, fpc>>
    BY <1>12 DEF FrameInput, releaseInputBuffers
  <2>2. /\ mInputFrameNum' \in [Node -> Nat] /\ todo' \in [Node -> SUBSET Link]
        /\ sink' \in [Node -> {<<>>} \cup (Link \X Int)]
        /\ mSinkNumToReturn' \in Int /\ complete' \in Nat
    BY <1>01, <1>04, <1>12 DEF FrameInput
  <2>3. /\ srcQ' \in [SourcePort -> Seq(Picture)] /\ inQ' \in [Link -> Seq(Picture)]
        /\ usingQ' \in [Link -> Seq(Picture)] /\ outQ' \in [Link -> Seq(Picture)]
        /\ live' \in Int
    <3> DEFINE k == [x \in Link |-> IF usingQ[x] = <<>> THEN 0 ELSE 1]
    <3>1. k \in [Link -> Nat] /\ \A x \in Link : k[x] <= Len(usingQ[x])
      BY HowMany DEF FlowInv
    <3>2. ASSUME releaseInputBuffers(n, k)
          PROVE  /\ srcQ' \in [SourcePort -> Seq(Picture)] /\ inQ' \in [Link -> Seq(Picture)]
                 /\ usingQ' \in [Link -> Seq(Picture)] /\ outQ' \in [Link -> Seq(Picture)]
                 /\ live' \in Int
      <4> HIDE DEF k
      <4>1. PICK gone \in Seq(Picture), lost \in Nat : Released(n, k, gone, lost)
        BY <1>02, <3>1, <3>2, ReleaseEffect DEF FlowInv
      <4>2. \A x \in Link : inQ[x] \o gone \in Seq(Picture)
        BY <1>01, MoreImages
      <4>3. \A x \in Link : k[x] \in 0 .. Len(usingQ[x])
        BY <1>01, <3>1, Parts
      <4>4. \A x \in Link : SubSeq(usingQ[x], k[x] + 1, Len(usingQ[x])) \in Seq(Picture)
        BY <1>01, <4>3, Parts
      <4>5. inQ' \in [Link -> Seq(Picture)] /\ usingQ' \in [Link -> Seq(Picture)]
        BY <1>01, <4>1, <4>2, <4>4 DEF Released
      <4>6. live' \in Int
        <5>1. Copies(n) \ Refused(n) \subseteq Link
          BY <1>03 DEF Copies
        <5>2. Cardinality(Copies(n) \ Refused(n)) \in Int /\ Len(gone) \in Int
          BY <5>1, LinksFinite, Fewer
        <5>3. Cardinality(Copies(n) \ Refused(n)) * Len(gone) \in Int
          BY <5>2, ProductType
        <5>4. QED
          BY <1>04, <4>1, <5>2, <5>3 DEF Released
      <4>7. QED
        BY <1>01, <4>1, <4>5, <4>6 DEF Released
    <3>3. CASE UNCHANGED queueVars
      BY <1>01, <1>04, <3>3
    <3>4. QED
      BY <3>2, <3>3, <1>12 DEF FrameInput
  <2>4. QED
    BY <1>04, <2>1, <2>2, <2>3 DEF DataType
<1>13. ASSUME FrameOutput(n) PROVE DataType'
  <2>1. UNCHANGED <<srcRel, inRel, fed, mFlushStatus, flushes, fpc>>
    BY <1>13 DEF FrameOutput
  <2>2. /\ mInputFrameNum' \in [Node -> Nat] /\ todo' \in [Node -> SUBSET Link]
        /\ sink' \in [Node -> {<<>>} \cup (Link \X Int)]
        /\ mSinkNumToReturn' \in Int /\ complete' \in Nat
    <3>1. TaskInv(n)' /\ graph' = graph
      BY TaskOwnStep, NodeFrame DEF Frame
    <3>2. todo'[n] \subseteq OutLinks(n)'
      BY <1>01, <3>1, <1>13 DEF FrameOutput, TaskInv
    <3>3. OutLinks(n)' \subseteq Link
      BY <1>03, <3>1, SameGraph
    <3>4. \A m \in Node : m # n => todo'[m] = todo[m]
      BY NodeFrame DEF Frame
    <3>5. DOMAIN todo' = Node
      BY <1>01, <1>13 DEF FrameOutput
    <3>6. todo' = [m \in Node |-> todo'[m]]
      BY <1>01, <1>13 DEF FrameOutput
    <3>7. todo' \in [Node -> SUBSET Link]
      BY <1>01, <3>2, <3>3, <3>4, <3>6
    <3>8. QED
      BY <1>01, <1>04, <3>7, <1>13 DEF FrameOutput
  <2>3. /\ srcQ' \in [SourcePort -> Seq(Picture)] /\ inQ' \in [Link -> Seq(Picture)]
        /\ usingQ' \in [Link -> Seq(Picture)] /\ outQ' \in [Link -> Seq(Picture)]
        /\ live' \in Int
    BY <1>01, <1>04, <1>13 DEF FrameOutput
  <2>4. QED
    BY <1>04, <2>1, <2>2, <2>3 DEF DataType
<1>14. ASSUME FrameEnds(n) PROVE DataType'
  <2>1. UNCHANGED <<srcRel, inRel, fed, mFlushStatus, flushes, fpc>>
    BY <1>14 DEF FrameEnds
  <2>2. /\ mInputFrameNum' \in [Node -> Nat] /\ todo' \in [Node -> SUBSET Link]
        /\ sink' \in [Node -> {<<>>} \cup (Link \X Int)]
        /\ mSinkNumToReturn' \in Int /\ complete' \in Nat
    BY <1>01, <1>04, <1>14 DEF FrameEnds
  <2>3. /\ srcQ' \in [SourcePort -> Seq(Picture)] /\ inQ' \in [Link -> Seq(Picture)]
        /\ usingQ' \in [Link -> Seq(Picture)] /\ outQ' \in [Link -> Seq(Picture)]
        /\ live' \in Int
    BY <1>01, <1>04, <1>14 DEF FrameEnds
  <2>4. QED
    BY <1>04, <2>1, <2>2, <2>3 DEF DataType
<1>15. ASSUME EraseCurrent(n) PROVE DataType'
  <2>1. UNCHANGED <<srcRel, inRel, fed, mFlushStatus, flushes, fpc>>
    BY <1>15 DEF EraseCurrent
  <2>2. /\ mInputFrameNum' \in [Node -> Nat] /\ todo' \in [Node -> SUBSET Link]
        /\ sink' \in [Node -> {<<>>} \cup (Link \X Int)]
        /\ mSinkNumToReturn' \in Int /\ complete' \in Nat
    BY <1>01, <1>04, <1>15 DEF EraseCurrent
  <2>3. /\ srcQ' \in [SourcePort -> Seq(Picture)] /\ inQ' \in [Link -> Seq(Picture)]
        /\ usingQ' \in [Link -> Seq(Picture)] /\ outQ' \in [Link -> Seq(Picture)]
        /\ live' \in Int
    BY <1>01, <1>04, <1>15 DEF EraseCurrent
  <2>4. QED
    BY <1>04, <2>1, <2>2, <2>3 DEF DataType
<1>16. ASSUME AbnormalCallback(n) PROVE DataType'
  <2>1. UNCHANGED <<srcRel, inRel, fed, mFlushStatus, flushes, fpc>>
    BY <1>16 DEF AbnormalCallback
  <2>2. /\ mInputFrameNum' \in [Node -> Nat] /\ todo' \in [Node -> SUBSET Link]
        /\ sink' \in [Node -> {<<>>} \cup (Link \X Int)]
        /\ mSinkNumToReturn' \in Int /\ complete' \in Nat
    BY <1>01, <1>03, <1>04, <1>16 DEF AbnormalCallback
  <2>3. /\ srcQ' \in [SourcePort -> Seq(Picture)] /\ inQ' \in [Link -> Seq(Picture)]
        /\ usingQ' \in [Link -> Seq(Picture)] /\ outQ' \in [Link -> Seq(Picture)]
        /\ live' \in Int
    BY <1>01, <1>04, <1>16 DEF AbnormalCallback
  <2>4. QED
    BY <1>04, <2>1, <2>2, <2>3 DEF DataType
<1>17. ASSUME ReleaseInputs(n) PROVE DataType'
  <2>1. UNCHANGED <<srcRel, inRel, fed, mFlushStatus, flushes, fpc>>
    BY <1>17 DEF ReleaseInputs, releaseInputBuffers
  <2>2. /\ mInputFrameNum' \in [Node -> Nat] /\ todo' \in [Node -> SUBSET Link]
        /\ sink' \in [Node -> {<<>>} \cup (Link \X Int)]
        /\ mSinkNumToReturn' \in Int /\ complete' \in Nat
    BY <1>01, <1>03, <1>04, <1>17 DEF ReleaseInputs
  <2>3. /\ srcQ' \in [SourcePort -> Seq(Picture)] /\ inQ' \in [Link -> Seq(Picture)]
        /\ usingQ' \in [Link -> Seq(Picture)] /\ outQ' \in [Link -> Seq(Picture)]
        /\ live' \in Int
    <3> DEFINE k == [x \in Link |-> Len(usingQ[x])]
    <3>1. k \in [Link -> Nat] /\ \A x \in Link : k[x] <= Len(usingQ[x])
      BY HowMany DEF FlowInv
    <3>2. ASSUME releaseInputBuffers(n, k)
          PROVE  /\ srcQ' \in [SourcePort -> Seq(Picture)] /\ inQ' \in [Link -> Seq(Picture)]
                 /\ usingQ' \in [Link -> Seq(Picture)] /\ outQ' \in [Link -> Seq(Picture)]
                 /\ live' \in Int
      <4> HIDE DEF k
      <4>1. PICK gone \in Seq(Picture), lost \in Nat : Released(n, k, gone, lost)
        BY <1>02, <3>1, <3>2, ReleaseEffect DEF FlowInv
      <4>2. \A x \in Link : inQ[x] \o gone \in Seq(Picture)
        BY <1>01, MoreImages
      <4>3. \A x \in Link : k[x] \in 0 .. Len(usingQ[x])
        BY <1>01, <3>1, Parts
      <4>4. \A x \in Link : SubSeq(usingQ[x], k[x] + 1, Len(usingQ[x])) \in Seq(Picture)
        BY <1>01, <4>3, Parts
      <4>5. inQ' \in [Link -> Seq(Picture)] /\ usingQ' \in [Link -> Seq(Picture)]
        BY <1>01, <4>1, <4>2, <4>4 DEF Released
      <4>6. live' \in Int
        <5>1. Copies(n) \ Refused(n) \subseteq Link
          BY <1>03 DEF Copies
        <5>2. Cardinality(Copies(n) \ Refused(n)) \in Int /\ Len(gone) \in Int
          BY <5>1, LinksFinite, Fewer
        <5>3. Cardinality(Copies(n) \ Refused(n)) * Len(gone) \in Int
          BY <5>2, ProductType
        <5>4. QED
          BY <1>04, <4>1, <5>2, <5>3 DEF Released
      <4>7. QED
        BY <1>01, <4>1, <4>5, <4>6 DEF Released
    <3>3. QED
      BY <3>2, <1>17 DEF ReleaseInputs
  <2>4. QED
    BY <1>04, <2>1, <2>2, <2>3 DEF DataType
<1>18. ASSUME SinkWrite(n) PROVE DataType'
  <2>1. UNCHANGED <<srcRel, inRel, fed, mFlushStatus, flushes, fpc>>
    BY <1>18 DEF SinkWrite
  <2>2. /\ mInputFrameNum' \in [Node -> Nat] /\ todo' \in [Node -> SUBSET Link]
        /\ sink' \in [Node -> {<<>>} \cup (Link \X Int)]
        /\ mSinkNumToReturn' \in Int /\ complete' \in Nat
    <3>1. sink[n] \in todo[n] \X Int
      BY <1>01, <1>18 DEF SinkWrite, TaskInv
    <3>2. sink[n][1] \in Link /\ sink[n][2] \in Int
      BY <1>01, <3>1
    <3>3. QED
      BY <1>01, <1>04, <3>2, <1>18 DEF SinkWrite
  <2>3. /\ srcQ' \in [SourcePort -> Seq(Picture)] /\ inQ' \in [Link -> Seq(Picture)]
        /\ usingQ' \in [Link -> Seq(Picture)] /\ outQ' \in [Link -> Seq(Picture)]
        /\ live' \in Int
    BY <1>01, <1>04, <1>18 DEF SinkWrite
  <2>4. QED
    BY <1>04, <2>1, <2>2, <2>3 DEF DataType
<1>19. ASSUME SinkRelease(n) PROVE DataType'
  <2>1. UNCHANGED <<srcRel, inRel, fed, mFlushStatus, flushes, fpc>>
    BY <1>19 DEF SinkRelease
  <2>2. /\ mInputFrameNum' \in [Node -> Nat] /\ todo' \in [Node -> SUBSET Link]
        /\ sink' \in [Node -> {<<>>} \cup (Link \X Int)]
        /\ mSinkNumToReturn' \in Int /\ complete' \in Nat
    BY <1>01, <1>04, <1>19 DEF SinkRelease
  <2>3. /\ srcQ' \in [SourcePort -> Seq(Picture)] /\ inQ' \in [Link -> Seq(Picture)]
        /\ usingQ' \in [Link -> Seq(Picture)] /\ outQ' \in [Link -> Seq(Picture)]
        /\ live' \in Int
    <3>1. sink[n] \in todo[n] \X Int
      BY <1>01, <1>19 DEF SinkRelease, TaskInv
    <3>2. sink[n][1] \in Link /\ sink[n][2] \in Int
      BY <1>01, <3>1
    <3>3. <<>> \in Seq(Picture) /\ Len(outQ[sink[n][1]]) \in Int
      BY <1>01, <3>2, Parts
    <3>4. /\ outQ' = [outQ EXCEPT ![sink[n][1]] = <<>>]
          /\ live' = live - Len(outQ[sink[n][1]])
          /\ UNCHANGED <<srcQ, inQ, usingQ>>
      BY <1>19 DEF SinkRelease
    <3>5. outQ' \in [Link -> Seq(Picture)]
      BY <1>01, <3>3, <3>4
    <3>6. live' \in Int
      BY <1>04, <3>3, <3>4
    <3>7. QED
      BY <1>01, <3>4, <3>5, <3>6
  <2>4. QED
    BY <1>04, <2>1, <2>2, <2>3 DEF DataType
<1>20. ASSUME NodeEnds(n) PROVE DataType'
  <2>1. UNCHANGED <<srcRel, inRel, fed, mFlushStatus, flushes, fpc>>
    BY <1>20 DEF NodeEnds, EndRequest
  <2>2. /\ mInputFrameNum' \in [Node -> Nat] /\ todo' \in [Node -> SUBSET Link]
        /\ sink' \in [Node -> {<<>>} \cup (Link \X Int)]
        /\ mSinkNumToReturn' \in Int /\ complete' \in Nat
    BY <1>01, <1>04, <1>20 DEF NodeEnds, EndRequest
  <2>3. /\ srcQ' \in [SourcePort -> Seq(Picture)] /\ inQ' \in [Link -> Seq(Picture)]
        /\ usingQ' \in [Link -> Seq(Picture)] /\ outQ' \in [Link -> Seq(Picture)]
        /\ live' \in Int
    BY <1>01, <1>04, <1>20 DEF NodeEnds, EndRequest
  <2>4. QED
    BY <1>04, <2>1, <2>2, <2>3 DEF DataType
<1> HIDE DEF At, Goto, Fail, notNode, given, schedVars, clientVars, resultVars, queueVars,
             sourceVars, linkVars
<1>21. QED
  BY <1>1, <1>2, <1>3, <1>4, <1>5, <1>6, <1>7, <1>8, <1>9, <1>10, <1>11, <1>12, <1>13,
     <1>14, <1>15, <1>16, <1>17, <1>18, <1>19, <1>20 DEF NodeStep

\* An image of the camera.
LEMMA SourcePicture == [num |-> NumFrames, src |-> TRUE] \in Picture
BY PipelineAssumption DEF Picture

\* Every step keeps the types.
LEMMA DataStep ==
  ASSUME GraphsFlow, FlowInv, [Next]_vars
  PROVE  DataType'
<1>0. DataType
  BY DEF FlowInv
<1> USE DEF mainVars, schedVars, nodeVars, resultVars, queueVars, sourceVars, linkVars,
            clientVars, given, notSession, notMain
<1>1. ASSUME NEW n \in Node, NodeStep(n) PROVE DataType'
  BY <1>1, DataOwnStep
<1>2. ASSUME NEW g \in Graphs, rebuildLinks(g) PROVE DataType'
  <2>1. Cardinality({l \in g.links : IsSink(l)}) \in Int
    <3>1. {l \in g.links : IsSink(l)} \subseteq g.links
      OBVIOUS
    <3>2. QED
      BY <3>1, LinksOfAGraph, Fewer
  <2>2. QED
    BY <1>0, <1>2, <2>1 DEF rebuildLinks, DataType
<1>3. CASE PopNode
  BY <1>0, <1>3 DEF PopNode, DataType
<1>4. CASE postProcess
  BY <1>0, <1>4 DEF postProcess, DataType
<1>5. CASE releaseUnusedBuffer
  <2>1. QueuedImages \in Nat
    <3>1. /\ Sizes(srcQ) \in [SourcePort -> Nat] /\ Sizes(inQ) \in [Link -> Nat]
          /\ Sizes(usingQ) \in [Link -> Nat] /\ Sizes(outQ) \in [Link -> Nat]
      BY <1>0 DEF Sizes, DataType
    <3>2. /\ Total(Sizes(srcQ), SourcePort) \in Nat /\ Total(Sizes(inQ), Link) \in Nat
          /\ Total(Sizes(usingQ), Link) \in Nat /\ Total(Sizes(outQ), Link) \in Nat
      BY <3>1, TotalType, LinksFinite, PipelineAssumption
    <3>3. QED
      BY <3>2 DEF QueuedImages
  <2>2. live' \in Int
    BY <1>0, <1>5, <2>1 DEF releaseUnusedBuffer, DataType
  <2>3. <<>> \in Seq(Picture)
    OBVIOUS
  <2>4. QED
    BY <1>0, <1>5, <2>2, <2>3 DEF releaseUnusedBuffer, DataType, releaseSourceQueues
<1>6. ASSUME NEW p \in SourcePort, enqueueSourceImage(p) PROVE DataType'
  <2>1. Append(srcQ[p], [num |-> NumFrames, src |-> TRUE]) \in Seq(Picture)
    BY <1>0, SourcePicture DEF DataType
  <2>2. srcQ' \in [SourcePort -> Seq(Picture)] /\ live' \in Int
    <3>1. \/ UNCHANGED <<srcQ, live>>
          \/ /\ srcQ' = [srcQ EXCEPT ![p] = Append(@, [num |-> NumFrames, src |-> TRUE])]
             /\ live' = live + 1
      BY <1>6 DEF enqueueSourceImage
    <3>2. srcQ \in [SourcePort -> Seq(Picture)] /\ live \in Int
      BY <1>0 DEF DataType
    <3>3. srcQ' \in [SourcePort -> Seq(Picture)]
      BY <2>1, <3>1, <3>2
    <3>4. live' \in Int
      BY <3>1, <3>2
    <3>5. QED
      BY <3>3, <3>4
  <2>3. fed' \in [SourcePort -> 0 .. NumFrames]
    BY <1>0, <1>6, PipelineAssumption DEF enqueueSourceImage, DataType
  <2>4. QED
    BY <1>0, <1>6, <2>2, <2>3 DEF enqueueSourceImage, DataType
<1>7. CASE quickFinish
  <2>1. flushes # <<>> /\ flushes \in Seq(FlushStatus)
    BY <1>0, <1>7 DEF quickFinish, DataType
  <2>2. Head(flushes) \in FlushStatus /\ Tail(flushes) \in Seq(FlushStatus)
    BY <2>1
  <2>3. QED
    BY <1>0, <1>7, <2>2 DEF quickFinish, DataType, releaseSourceQueues
<1>8. CASE FlushNodes \/ FlushCrashes
  BY <1>0, <1>8 DEF FlushNodes, FlushCrashes, DataType, NodesReleased
<1>9. ASSUME UNCHANGED vars PROVE DataType'
  BY <1>0, <1>9 DEF vars, DataType
<1>10. CASE Start
  BY <1>0, <1>10 DEF Start, DataType
<1>11. CASE RebuildFails
  BY <1>0, <1>11 DEF RebuildFails, DataType
<1>12. CASE CountAndWait
  BY <1>0, <1>12 DEF CountAndWait, DataType
<1>13. CASE RetestPredicate
  BY <1>0, <1>13 DEF RetestPredicate, DataType
<1>14. CASE LoopEnds
  BY <1>0, <1>14 DEF LoopEnds, DataType
<1>15. CASE moveToIdleQueue
  BY <1>0, <1>15 DEF moveToIdleQueue, DataType
<1>16. CASE SpuriousWakeup
  BY <1>0, <1>16 DEF SpuriousWakeup, DataType
<1>17. CASE Terminated
  BY <1>9, <1>17 DEF Terminated
<1>18. QED
  BY <1>1, <1>2, <1>3, <1>4, <1>5, <1>6, <1>7, <1>8, <1>9, <1>10, <1>11, <1>12, <1>13,
     <1>14, <1>15, <1>16, <1>17 DEF Next, MainStep

\* Before the request starts nothing flows.
LEMMA InitFlow == Init => FlowInv
<1> SUFFICES ASSUME Init PROVE FlowInv
  OBVIOUS
<1>1. IInv
  BY InitIInv
<1>2. DataType
  <2>1. <<>> \in Seq(Picture)
    OBVIOUS
  <2>2. /\ srcQ \in [SourcePort -> Seq(Picture)] /\ srcRel \in [SourcePort -> BOOLEAN]
        /\ inQ \in [Link -> Seq(Picture)] /\ inRel \in [Link -> BOOLEAN]
        /\ usingQ \in [Link -> Seq(Picture)] /\ outQ \in [Link -> Seq(Picture)]
    BY <2>1 DEF Init
  <2>3. /\ mInputFrameNum \in [Node -> Nat] /\ todo \in [Node -> SUBSET Link]
        /\ sink \in [Node -> {<<>>} \cup (Link \X Int)]
    BY DEF Init
  <2>4. fed \in [SourcePort -> 0 .. NumFrames]
    BY PipelineAssumption DEF Init
  <2>5. flushes \in Seq(FlushStatus)
    <3>1. flushes \in Seq(FlushStatus \ {"NoFlush"})
      BY PipelineAssumption DEF Init
    <3>2. QED
      BY <3>1
  <2>6. /\ mFlushStatus \in FlushStatus /\ fpc \in {"none", "nodes", "crashed"}
        /\ mSinkNumToReturn \in Int /\ complete \in Nat /\ live \in Int
    BY DEF Init, FlushStatus
  <2>7. QED
    BY <2>2, <2>3, <2>4, <2>5, <2>6 DEF DataType
<1>3. \A n \in Node : TaskInv(n)
  BY DEF Init, TaskInv, Worked, HoldsInputs, Streaming, Leaving, Late
<1>4. ReachInv
  <2>1. Elems(<<>>) = {}
    BY DEF Elems
  <2>2. \A n \in Node : ~Reached(n)
    BY <2>1 DEF Init, Reached
  <2>3. \A l \in Link : ~inRel[l]
    BY DEF Init
  <2>4. QED
    BY <2>2, <2>3 DEF Init, ReachInv
<1>5. DependInv /\ StockInv /\ SupplyInv
  BY DEF Init, DependInv, StockInv, SupplyInv, Active
<1>6. QED
  BY <1>1, <1>2, <1>3, <1>4, <1>5 DEF FlowInv

\* The invariant of the flow holds in every reachable state.
LEMMA FlowInvariance ==
  ASSUME GraphsFlow
  PROVE  Spec => []FlowInv
<1>1. ASSUME FlowInv, [Next]_vars PROVE FlowInv'
  <2>1. IInv'
    BY <1>1, TypeStep, DispatchStep, FreshStep, CountStep, LoopStep, ProcessStep, ReportStep
       DEF IInv, FlowInv
  <2>2. DataType' /\ \A n \in Node : TaskInv(n)'
    BY <1>1, DataStep, TaskStep
  <2>3. ReachInv' /\ DependInv' /\ StockInv' /\ SupplyInv'
    BY <1>1, ReachStep, DependStep, StockStep, SupplyStep
  <2>4. QED
    BY <2>1, <2>2, <2>3 DEF FlowInv
<1>2. FlowInv /\ [Next]_vars => FlowInv'
  BY <1>1
<1>3. QED
  BY InitFlow, <1>2, PTL DEF Spec

\* On every graph that flows, whatever fails, is flushed or expedited and in whatever order
\* the tasks run: when a task reaches getOutputImage, which takes the parameters of the
\* outputs from the first input image, it holds an image on every input link.
THEOREM NodesHaveInputs ==
  ASSUME GraphsFlow
  PROVE  Spec => []InputsReady
<1>1. FlowInv => InputsReady
  BY DEF FlowInv, TaskInv, HoldsInputs, InputsReady
<1>2. QED
  BY FlowInvariance, <1>1, PTL

\* Who is ready has everything.
LEMMA ReadyHasInputs ==
  ASSUME FlowInv, graph \in Graphs, ~Over, NEW n \in Node, pc[n] = "none",
         mDependenceNum[n] <= 0, NEW l \in InternalInputs(graph, n)
  PROVE  /\ inQ[l] # <<>>
         /\ ~SigFrame(n) => l \notin todo[l[1]] /\ pc[l[1]] \in Late \cup {"done"}
<1>1. graph # NoGraph
  BY PipelineAssumption
<1>2. inQ[l] # <<>>
  BY <1>1 DEF FlowInv, SupplyInv
<1>3. ASSUME ~SigFrame(n) PROVE Delivered(l)
  <2>1. mDependenceNum[n] >= Cardinality(Pending(n)) /\ mDependenceNum[n] \in Int
    BY <1>1, <1>3 DEF FlowInv, DependInv, IInv, TypeInv
  <2>2. IsFiniteSet(Pending(n)) /\ Cardinality(Pending(n)) \in Nat
    BY PendingFinite
  <2>3. Cardinality(Pending(n)) = 0
    BY <2>1, <2>2
  <2>4. Pending(n) = {}
    BY <2>2, <2>3, FS_EmptySet
  <2>5. QED
    BY <2>4 DEF Pending
<1>4. QED
  BY <1>2, <1>3 DEF Delivered

\* On every graph that flows a node is dispatched at most once, and only when its parents
\* have delivered: one frame to a frame-by-frame node, everything to another one, although
\* notifyNextNode and the two frame-by-frame notifications all push to mRunSequence.
THEOREM NodesStartReady ==
  ASSUME GraphsFlow
  PROVE  Spec => DispatchedWhenReady
<1> DEFINE Ready(n) ==
             /\ pc[n] = "none"
             /\ \A l \in InternalInputs(graph, n) :
                  IF SigFrame(n) THEN inQ[l] # <<>>
                                 ELSE l \notin todo[l[1]] /\ pc[l[1]] \in
                                      {"links", "sinkWrite", "sinkRelease", "done"}
<1>1. ASSUME FlowInv, [Next]_vars, NEW n \in Node, ~Active(n), pc'[n] = "input"
      PROVE  Ready(n)
  <2>1. pc \in [Node -> NodeState] /\ pc'[n] # pc[n]
    BY <1>1 DEF FlowInv, IInv, TypeInv, Active
  <2>2. CASE postProcess
    <3>1. n = serving /\ pc[n] = "none" /\ mDependenceNum[n] <= 0 /\ ~Over
      BY <1>1, <2>1, <2>2, Starting
    <3>2. graph \in Graphs
      BY <1>1, <2>2 DEF FlowInv, IInv, TypeInv, FreshInv, postProcess
    <3>3. QED
      BY <1>1, <3>1, <3>2, ReadyHasInputs DEF Late
  <2>3. ASSUME NEW m \in Node, NodeStep(m) PROVE FALSE
    <3>1. Frame(m) /\ Active(m)
      BY <1>1, <2>3, NodeFrame, NodeMoves DEF FlowInv, IInv, NodeMove
    <3>2. QED
      BY <1>1, <2>1, <3>1 DEF Frame
  <2>4. CASE \E g \in Graphs : rebuildLinks(g)
    BY <1>1, <2>1, <2>4, Building
  <2>5. CASE PopNode
    BY <1>1, <2>1, <2>5, Dispatching
  <2>6. CASE releaseUnusedBuffer
    BY <1>1, <2>1, <2>6, Ending
  <2>7. CASE Calm
    BY <2>1, <2>7 DEF Calm, flow
  <2>8. QED
    BY <1>1, <2>2, <2>3, <2>4, <2>5, <2>6, <2>7, Steps
<1>2. FlowInv /\ [Next]_vars => [\A n \in Node : ~Active(n) /\ pc'[n] = "input" => Ready(n)]_vars
  BY <1>1
<1>3. QED
  BY FlowInvariance, <1>2, PTL DEF Spec, DispatchedWhenReady

(* ------------------------------ the balance ------------------------------ *)

(* The images that the queues of S hold.                                     *)
Held(q, S) == Total(Sizes(q), S)

(* Each queue x of K gets k[x] images, resp. d images, or z alone d images.  *)
Grown(S, q, c, K, k) ==
  /\ IsFiniteSet(S) /\ q \in [S -> Seq(Picture)] /\ c \in [S -> Seq(Picture)]
  /\ K \in SUBSET S /\ k \in [S -> Nat]
  /\ \A x \in K : Len(c[x]) = Len(q[x]) + k[x]
  /\ \A x \in S \ K : c[x] = q[x]
GrownEvenly(S, q, c, K, d) ==
  /\ IsFiniteSet(S) /\ q \in [S -> Seq(Picture)] /\ c \in [S -> Seq(Picture)]
  /\ K \in SUBSET S /\ d \in Nat
  /\ \A x \in K : Len(c[x]) = Len(q[x]) + d
  /\ \A x \in S \ K : c[x] = q[x]
GrownOne(S, q, c, z, d) ==
  /\ IsFiniteSet(S) /\ q \in [S -> Seq(Picture)] /\ c \in [S -> Seq(Picture)]
  /\ z \in S /\ d \in Nat
  /\ Len(c[z]) = Len(q[z]) + d
  /\ \A x \in S : x # z => c[x] = q[x]

\* How many images finitely many queues hold.
LEMMA HeldType ==
  ASSUME NEW S, IsFiniteSet(S), NEW q \in [S -> Seq(Picture)]
  PROVE  /\ Sizes(q) \in [S -> Nat] /\ \A x \in S : Sizes(q)[x] = Len(q[x])
         /\ Held(q, S) \in Nat
<1>1. Sizes(q) \in [S -> Nat] /\ \A x \in S : Sizes(q)[x] = Len(q[x])
  BY DEF Sizes
<1>2. QED
  BY <1>1, TotalType DEF Held

\* Queues that get images hold more by their sum.
LEMMA HeldMore ==
  ASSUME NEW S, NEW q, NEW c, NEW K, NEW k, Grown(S, q, c, K, k)
  PROVE  /\ Total(k, K) \in Nat
         /\ Held(c, S) = Held(q, S) + Total(k, K)
         /\ Held(q, S) = Held(c, S) - Total(k, K)
<1> DEFINE a == Sizes(q)
           b == Sizes(c)
           f == [x \in S |-> IF x \in K THEN k[x] ELSE 0]
<1>0. /\ IsFiniteSet(S) /\ q \in [S -> Seq(Picture)] /\ c \in [S -> Seq(Picture)]
      /\ K \in SUBSET S /\ k \in [S -> Nat]
  BY DEF Grown
<1>1. /\ a \in [S -> Nat] /\ b \in [S -> Nat]
      /\ \A x \in S : a[x] = Len(q[x]) /\ b[x] = Len(c[x])
  BY <1>0, HeldType
<1>2. Held(q, S) = Total(a, S) /\ Held(c, S) = Total(b, S)
  BY DEF Held
<1>3. Held(q, S) \in Nat /\ Held(c, S) \in Nat
  BY <1>0, HeldType
<1>4. f \in [S -> Nat] /\ \A x \in S : f[x] = IF x \in K THEN k[x] ELSE 0
  BY <1>0
<1> HIDE DEF a, b, f
<1>5. \A x \in S : b[x] = a[x] + f[x]
  <2> SUFFICES ASSUME NEW x \in S PROVE b[x] = a[x] + f[x]
    OBVIOUS
  <2>1. a[x] \in Nat /\ a[x] = Len(q[x]) /\ b[x] = Len(c[x])
    BY <1>1
  <2>2. CASE x \in K
    <3>1. f[x] = k[x] /\ Len(c[x]) = Len(q[x]) + k[x]
      BY <1>4, <2>2 DEF Grown
    <3>2. QED
      BY <2>1, <3>1
  <2>3. CASE x \notin K
    <3>1. f[x] = 0 /\ c[x] = q[x]
      BY <1>4, <2>3 DEF Grown
    <3>2. QED
      BY <2>1, <3>1
  <2>4. QED
    BY <2>2, <2>3
<1>6. Total(b, S) = Total(a, S) + Total(f, S)
  <2>1. IsFiniteSet(S) /\ a \in [S -> Nat] /\ b \in [S -> Nat] /\ f \in [S -> Nat]
    BY <1>0, <1>1, <1>4
  <2>2. QED
    BY <1>5, <2>1, TotalSum
<1>7. Total(f, S) = Total(k, K) /\ Total(f, S) \in Nat
  BY <1>0, <1>4, TotalPart, TotalType
<1>8. QED
  BY <1>2, <1>3, <1>6, <1>7

\* Queues of K that get d images each hold |K| * d more.
LEMMA HeldSome ==
  ASSUME NEW S, NEW q, NEW c, NEW K, NEW d, GrownEvenly(S, q, c, K, d)
  PROVE  /\ Cardinality(K) * d \in Nat
         /\ Held(c, S) = Held(q, S) + Cardinality(K) * d
         /\ Held(q, S) = Held(c, S) - Cardinality(K) * d
<1> DEFINE k == [x \in S |-> d]
           f == [x \in S |-> IF x \in K THEN d ELSE 0]
<1>0. IsFiniteSet(S) /\ K \in SUBSET S /\ d \in Nat
  BY DEF GrownEvenly
<1>1. k \in [S -> Nat] /\ \A x \in S : k[x] = d
  BY <1>0
<1>2. f \in [S -> Nat] /\ \A x \in S : f[x] = IF x \in K THEN d ELSE 0
  BY <1>0
<1>3. \A x \in S : f[x] = IF x \in K THEN k[x] ELSE 0
  OBVIOUS
<1> HIDE DEF k, f
<1>4. Grown(S, q, c, K, k)
  BY <1>0, <1>1 DEF Grown, GrownEvenly
<1>5. /\ Total(k, K) \in Nat /\ Held(c, S) = Held(q, S) + Total(k, K)
      /\ Held(q, S) = Held(c, S) - Total(k, K)
  BY <1>4, HeldMore
<1>6. Total(f, S) = Total(k, K)
  BY <1>0, <1>1, <1>2, <1>3, TotalPart
<1>7. Total(f, S) = Cardinality(K) * d
  BY <1>0, <1>2, TotalEven
<1>8. Total(k, K) = Cardinality(K) * d
  BY <1>6, <1>7
<1>9. QED
  BY <1>5, <1>8

\* One queue gets d images.
LEMMA HeldOne ==
  ASSUME NEW S, NEW q, NEW c, NEW z, NEW d, GrownOne(S, q, c, z, d)
  PROVE  /\ Held(c, S) = Held(q, S) + d
         /\ Held(q, S) = Held(c, S) - d
<1> DEFINE K == {z}
<1>1. Cardinality(K) = 1 /\ d \in Nat
  BY FS_Singleton DEF GrownOne
<1>2. Cardinality(K) * d = d
  BY <1>1
<1>3. GrownEvenly(S, q, c, K, d)
  BY DEF GrownOne, GrownEvenly
<1> HIDE DEF K
<1>4. QED
  BY <1>2, <1>3, HeldSome

\* One image leaves a queue.
LEMMA HeldTail ==
  ASSUME NEW S, IsFiniteSet(S), NEW q \in [S -> Seq(Picture)], NEW z \in S, q[z] # <<>>
  PROVE  Held([q EXCEPT ![z] = Tail(@)], S) = Held(q, S) - 1
<1> DEFINE c == [q EXCEPT ![z] = Tail(@)]
<1>1. q[z] \in Seq(Picture) /\ Tail(q[z]) \in Seq(Picture) /\ Len(Tail(q[z])) = Len(q[z]) - 1
      /\ Len(q[z]) \in Nat
  BY Parts
<1>2. c \in [S -> Seq(Picture)] /\ c[z] = Tail(q[z]) /\ \A x \in S : x # z => q[x] = c[x]
  BY <1>1
<1> HIDE DEF c
<1>3. Len(q[z]) = Len(c[z]) + 1
  BY <1>1, <1>2
<1>4. GrownOne(S, c, q, z, 1)
  BY <1>2, <1>3 DEF GrownOne
<1>5. Held(c, S) = Held(q, S) - 1
  BY <1>4, HeldOne
<1>6. QED
  BY <1>5 DEF c

\* One image enters a queue.
LEMMA HeldAppend ==
  ASSUME NEW S, IsFiniteSet(S), NEW q \in [S -> Seq(Picture)], NEW z \in S, NEW i \in Picture
  PROVE  Held([q EXCEPT ![z] = Append(@, i)], S) = Held(q, S) + 1
<1> DEFINE c == [q EXCEPT ![z] = Append(@, i)]
<1>1. q[z] \in Seq(Picture) /\ Append(q[z], i) \in Seq(Picture)
      /\ Len(Append(q[z], i)) = Len(q[z]) + 1
  BY Parts
<1>2. c \in [S -> Seq(Picture)] /\ c[z] = Append(q[z], i) /\ \A x \in S : x # z => c[x] = q[x]
  BY <1>1
<1> HIDE DEF c
<1>3. Len(c[z]) = Len(q[z]) + 1
  BY <1>1, <1>2
<1>4. GrownOne(S, q, c, z, 1)
  BY <1>2, <1>3 DEF GrownOne
<1>5. Held(c, S) = Held(q, S) + 1
  BY <1>4, HeldOne
<1>6. QED
  BY <1>5 DEF c

(* A step gives back as many references as it takes images out of the queues, *)
(* but for `lost' ones; none is lost if whole sets are passed on.             *)
Balanced ==
  \E lost \in Nat :
    /\ live' = live + (Held(srcQ', SourcePort) - Held(srcQ, SourcePort))
                + (Held(inQ', Link) - Held(inQ, Link))
                + (Held(usingQ', Link) - Held(usingQ, Link))
                + (Held(outQ', Link) - Held(outQ, Link)) + lost
    /\ GraphsPassWholeSets => lost = 0

\* The queues hold numbers of images.
LEMMA HeldTypes ==
  ASSUME DataType
  PROVE  /\ IsFiniteSet(Link) /\ IsFiniteSet(SourcePort)
         /\ Held(srcQ, SourcePort) \in Nat /\ Held(inQ, Link) \in Nat
         /\ Held(usingQ, Link) \in Nat /\ Held(outQ, Link) \in Nat
BY LinksFinite, PipelineAssumption, HeldType DEF DataType

\* Nothing happens to the images.
LEMMA StillBalanced ==
  ASSUME DataType, UNCHANGED <<srcQ, inQ, usingQ, outQ, live>>
  PROVE  Balanced
<1>1. /\ Held(srcQ, SourcePort) \in Nat /\ Held(inQ, Link) \in Nat
      /\ Held(usingQ, Link) \in Nat /\ Held(outQ, Link) \in Nat /\ live \in Int
  BY HeldTypes DEF DataType
<1>2. live' = live + (Held(srcQ', SourcePort) - Held(srcQ, SourcePort))
               + (Held(inQ', Link) - Held(inQ, Link))
               + (Held(usingQ', Link) - Held(usingQ, Link))
               + (Held(outQ', Link) - Held(outQ, Link)) + 0
  BY <1>1
<1>3. QED
  BY <1>2 DEF Balanced

\* No queue of a child refuses what an in-place or virtual node passes on as a whole.
LEMMA NobodyRefuses ==
  ASSUME FlowInv, GraphsPassWholeSets, NEW n \in Node, graph \in Graphs,
         pc[n] \in {"frameIn", "release"}
  PROVE  Refused(n) = {}
<1> SUFFICES ASSUME NEW l \in Refused(n) PROVE FALSE
  OBVIOUS
<1>1. PassesInputsOn(n) /\ l \in OutLinks(n) /\ inRel[l]
  BY DEF Refused, Copies
<1>2. l \in graph.links /\ l \in Link /\ l[1] = n
  BY <1>1, LinksOfNodes DEF OutLinks
<1>3. l[2] \in Node /\ mDependenceNum[l[2]] <= 0
  BY <1>1, <1>2 DEF FlowInv, ReachInv
<1>4. l = <<l[1], l[2]>>
  BY <1>2, LinksFinite
<1>5. l \in Node \X Node
  BY <1>2, <1>3, <1>4
<1>6. graph.mask[n] \cap {"INPLACE", "VIRTUAL"} # {}
  BY <1>1 DEF PassesInputsOn, isInplaceNode, Has
<1>7. ~SigFrame(l[2])
  BY <1>2, <1>5, <1>6 DEF GraphsPassWholeSets, PassesWholeSets, SigFrame, Has
<1>8. l \in Pending(l[2])
  BY <1>2 DEF Pending, InternalInputs, Delivered, Late
<1>9. mDependenceNum[l[2]] >= Cardinality(Pending(l[2])) /\ mDependenceNum[l[2]] \in Int
  BY <1>3, <1>7, PipelineAssumption DEF FlowInv, DependInv, IInv, TypeInv
<1>10. IsFiniteSet(Pending(l[2])) /\ Cardinality(Pending(l[2])) \in Nat
  BY <1>3, PendingFinite
<1>11. Cardinality(Pending(l[2])) # 0
  BY <1>8, <1>10, FS_EmptySet
<1>12. QED
  BY <1>3, <1>9, <1>10, <1>11

\* An image moves into a usingQ.
LEMMA TakeBalanced ==
  ASSUME DataType, NEW l \in Link, UNCHANGED <<outQ, live>>,
         NEW i \in Picture, usingQ' = [usingQ EXCEPT ![l] = Append(@, i)],
         \/ /\ l[1] \in SourcePort /\ srcQ[l[1]] # <<>> /\ UNCHANGED inQ
            /\ srcQ' = [srcQ EXCEPT ![l[1]] = Tail(@)]
         \/ /\ inQ[l] # <<>> /\ UNCHANGED srcQ
            /\ inQ' = [inQ EXCEPT ![l] = Tail(@)]
  PROVE  Balanced
<1>1. /\ IsFiniteSet(Link) /\ IsFiniteSet(SourcePort)
      /\ Held(srcQ, SourcePort) \in Nat /\ Held(inQ, Link) \in Nat
      /\ Held(usingQ, Link) \in Nat /\ Held(outQ, Link) \in Nat /\ live \in Int
  BY HeldTypes DEF DataType
<1>2. Held(usingQ', Link) = Held(usingQ, Link) + 1
  <2>1. usingQ \in [Link -> Seq(Picture)]
    BY DEF DataType
  <2>2. Held([usingQ EXCEPT ![l] = Append(@, i)], Link) = Held(usingQ, Link) + 1
    BY <1>1, <2>1, HeldAppend
  <2>3. QED
    BY <2>2
<1>3. /\ Held(outQ', Link) = Held(outQ, Link)
      /\ inQ' = inQ => Held(inQ', Link) = Held(inQ, Link)
      /\ srcQ' = srcQ => Held(srcQ', SourcePort) = Held(srcQ, SourcePort)
  OBVIOUS
<1>4. \/ /\ Held(srcQ', SourcePort) = Held(srcQ, SourcePort) - 1
         /\ Held(inQ', Link) = Held(inQ, Link)
      \/ /\ Held(inQ', Link) = Held(inQ, Link) - 1
         /\ Held(srcQ', SourcePort) = Held(srcQ, SourcePort)
  <2>1. inQ \in [Link -> Seq(Picture)] /\ srcQ \in [SourcePort -> Seq(Picture)]
    BY DEF DataType
  <2>2. inQ[l] # <<>> => Held([inQ EXCEPT ![l] = Tail(@)], Link) = Held(inQ, Link) - 1
    BY <1>1, <2>1, HeldTail
  <2>3. l[1] \in SourcePort /\ srcQ[l[1]] # <<>> =>
          Held([srcQ EXCEPT ![l[1]] = Tail(@)], SourcePort) = Held(srcQ, SourcePort) - 1
    BY <1>1, <2>1, HeldTail
  <2>4. QED
    BY <1>3, <2>2, <2>3
<1>5. live' = live + (Held(srcQ', SourcePort) - Held(srcQ, SourcePort))
               + (Held(inQ', Link) - Held(inQ, Link))
               + (Held(usingQ', Link) - Held(usingQ, Link))
               + (Held(outQ', Link) - Held(outQ, Link)) + 0
  BY <1>1, <1>2, <1>3, <1>4
<1>6. QED
  BY <1>5 DEF Balanced

\* getOutputImage takes as many images for each link that it serves.
LEMMA AcquireBalanced ==
  ASSUME GraphsFlow, FlowInv, NEW n \in Node, graph \in Graphs, pc[n] = "output", InLinks(n) # {},
         DataType',
         NEW links \in SUBSET OutLinks(n), Acquire(n, links)
  PROVE  Balanced
<1> DEFINE new == NewOutputs(n)
<1>0. DataType /\ IsFiniteSet(Link)
  BY LinksFinite DEF FlowInv
<1>1. new \in Seq(Picture) /\ Len(new) \in Nat
  <2>1. HoldsInputs(n) /\ TaskInv(n)
    BY DEF FlowInv, HoldsInputs
  <2>2. \A l \in InLinks(n) : usingQ[l] # <<>>
    BY <2>1 DEF TaskInv
  <2>3. QED
    BY <1>0, <2>2, OutputsTaken
<1>2. links \in SUBSET Link
  BY LinksOfNodes
<1>3. /\ outQ' = [l \in Link |-> IF l \in links THEN outQ[l] \o new ELSE outQ[l]]
      /\ live' = live + Cardinality(links) * Len(new)
      /\ UNCHANGED <<srcQ, inQ, usingQ>>
  BY DEF Acquire, sourceVars
<1> HIDE DEF new
<1> DEFINE d == Len(new)
<1>4. /\ \A x \in links : Len(outQ'[x]) = Len(outQ[x]) + d
      /\ \A x \in Link \ links : outQ'[x] = outQ[x]
  <2>1. ASSUME NEW x \in links PROVE Len(outQ'[x]) = Len(outQ[x]) + d
    <3>1. outQ[x] \in Seq(Picture) /\ outQ'[x] = outQ[x] \o new
      BY <1>0, <1>2, <1>3 DEF DataType
    <3>2. QED
      BY <1>1, <3>1, MoreImages
  <2>2. QED
    BY <1>2, <1>3, <2>1
<1>5. outQ \in [Link -> Seq(Picture)] /\ outQ' \in [Link -> Seq(Picture)] /\ d \in Nat
  BY <1>0, <1>1 DEF DataType
<1> HIDE DEF d
<1>6. Cardinality(links) * d \in Nat /\ Held(outQ', Link) = Held(outQ, Link) + Cardinality(links) * d
  <2>1. GrownEvenly(Link, outQ, outQ', links, d)
    BY <1>0, <1>2, <1>4, <1>5 DEF GrownEvenly
  <2>2. QED
    BY <2>1, HeldSome
<1> DEFINE w == Cardinality(links) * d
<1>7. w \in Nat /\ Held(outQ', Link) = Held(outQ, Link) + w /\ live' = live + w
  BY <1>3, <1>6 DEF d
<1> HIDE DEF w
<1>8. /\ Held(srcQ, SourcePort) \in Nat /\ Held(inQ, Link) \in Nat
      /\ Held(usingQ, Link) \in Nat /\ Held(outQ, Link) \in Nat /\ live \in Int
  BY <1>0, HeldTypes DEF DataType
<1>9. /\ Held(srcQ', SourcePort) = Held(srcQ, SourcePort) /\ Held(inQ', Link) = Held(inQ, Link)
      /\ Held(usingQ', Link) = Held(usingQ, Link)
  BY <1>3
<1>10. live' = live + (Held(srcQ', SourcePort) - Held(srcQ, SourcePort))
               + (Held(inQ', Link) - Held(inQ, Link))
               + (Held(usingQ', Link) - Held(usingQ, Link))
               + (Held(outQ', Link) - Held(outQ, Link)) + 0
  BY <1>7, <1>8, <1>9
<1>11. QED
  BY <1>10 DEF Balanced

\* releaseInputBuffers gives an image back or hands it on.
LEMMA ReleaseBalanced ==
  ASSUME FlowInv, NEW n \in Node, graph \in Graphs, pc[n] \in {"frameIn", "release"}, DataType',
         NEW k \in [Link -> Nat], \A l \in Link : k[l] <= Len(usingQ[l]),
         releaseInputBuffers(n, k)
  PROVE  Balanced
<1>0. DataType /\ IsFiniteSet(Link)
  BY LinksFinite DEF FlowInv
<1>1. PICK gone \in Seq(Picture), lost \in Nat :
        Released(n, k, gone, lost) /\ Len(gone) = Total(k, InLinks(n))
  BY <1>0, ReleaseEffect
<1> DEFINE to == Copies(n) \ Refused(n)
           from == InLinks(n)
           d == Len(gone)
<1>2. from \in SUBSET Link /\ to \in SUBSET Link /\ d \in Nat
  BY LinksOfNodes DEF Copies
<1>3. /\ usingQ' = [l \in Link |-> IF l \in from
                      THEN SubSeq(usingQ[l], k[l] + 1, Len(usingQ[l])) ELSE usingQ[l]]
      /\ inQ' = [l \in Link |-> IF l \in to THEN inQ[l] \o gone ELSE inQ[l]]
      /\ live' = live - d + Cardinality(to) * d + lost
      /\ UNCHANGED <<srcQ, outQ>>
      /\ d = Total(k, from)
  BY <1>1 DEF Released
<1>4. GraphsPassWholeSets => lost = 0
  BY <1>1, NobodyRefuses DEF Released
<1>5. /\ usingQ \in [Link -> Seq(Picture)] /\ usingQ' \in [Link -> Seq(Picture)]
      /\ inQ \in [Link -> Seq(Picture)] /\ inQ' \in [Link -> Seq(Picture)]
  BY <1>0 DEF DataType
<1> HIDE DEF to, from
<1>6. ASSUME NEW x \in from PROVE Len(usingQ[x]) = Len(usingQ'[x]) + k[x]
  <2>1. x \in Link /\ usingQ[x] \in Seq(Picture) /\ k[x] \in Nat /\ k[x] <= Len(usingQ[x])
    BY <1>2, <1>5
  <2>2. Len(usingQ[x]) \in Nat
    BY <2>1, Parts
  <2>3. k[x] \in 0 .. Len(usingQ[x])
    BY <2>1, <2>2
  <2>4. Len(SubSeq(usingQ[x], k[x] + 1, Len(usingQ[x]))) = Len(usingQ[x]) - k[x]
    BY <2>1, <2>3, Parts
  <2>5. usingQ'[x] = SubSeq(usingQ[x], k[x] + 1, Len(usingQ[x]))
    BY <1>3, <2>1
  <2>6. Len(usingQ'[x]) = Len(usingQ[x]) - k[x]
    BY <2>4, <2>5
  <2>7. QED
    BY <2>1, <2>2, <2>6
<1>7. \A x \in Link \ from : usingQ[x] = usingQ'[x]
  BY <1>3
<1>8. Held(usingQ', Link) = Held(usingQ, Link) - Total(k, from)
  <2>1. Grown(Link, usingQ', usingQ, from, k)
    BY <1>0, <1>2, <1>5, <1>6, <1>7 DEF Grown
  <2>2. QED
    BY <2>1, HeldMore
<1>9. ASSUME NEW x \in to PROVE Len(inQ'[x]) = Len(inQ[x]) + d
  <2>1. inQ[x] \in Seq(Picture) /\ inQ'[x] = inQ[x] \o gone
    BY <1>2, <1>3, <1>5
  <2>2. QED
    BY <2>1, MoreImages
<1>10. \A x \in Link \ to : inQ'[x] = inQ[x]
  BY <1>3
<1> HIDE DEF d
<1>11. Cardinality(to) * d \in Nat /\ Held(inQ', Link) = Held(inQ, Link) + Cardinality(to) * d
  <2>1. GrownEvenly(Link, inQ, inQ', to, d)
    BY <1>0, <1>2, <1>5, <1>9, <1>10 DEF GrownEvenly
  <2>2. QED
    BY <2>1, HeldSome
<1> DEFINE w == Cardinality(to) * d
<1>12. /\ w \in Nat /\ Held(inQ', Link) = Held(inQ, Link) + w
       /\ Held(usingQ', Link) = Held(usingQ, Link) - d
       /\ live' = live - d + w + lost /\ d \in Nat
  BY <1>2, <1>3, <1>8, <1>11
<1> HIDE DEF w
<1>13. /\ Held(srcQ, SourcePort) \in Nat /\ Held(inQ, Link) \in Nat
       /\ Held(usingQ, Link) \in Nat /\ Held(outQ, Link) \in Nat /\ live \in Int
  BY <1>0, HeldTypes DEF DataType
<1>14. Held(srcQ', SourcePort) = Held(srcQ, SourcePort) /\ Held(outQ', Link) = Held(outQ, Link)
  BY <1>3
<1>15. live' = live + (Held(srcQ', SourcePort) - Held(srcQ, SourcePort))
               + (Held(inQ', Link) - Held(inQ, Link))
               + (Held(usingQ', Link) - Held(usingQ, Link))
               + (Held(outQ', Link) - Held(outQ, Link)) + lost
  BY <1>12, <1>13, <1>14
<1>16. QED
  BY <1>4, <1>15 DEF Balanced

\* releaseOutBuffers moves k images of one link, or frees them.
LEMMA DeliverBalanced ==
  ASSUME DataType, DataType', NEW n \in Node, NEW l \in Link, releaseOutBuffers(n, l)
  PROVE  Balanced
<1> DEFINE k == IF n \in mCurrentProcessNodes /\ outQ[l] # <<>> THEN 1 ELSE Len(outQ[l])
<1>0. /\ IsFiniteSet(Link) /\ outQ \in [Link -> Seq(Picture)] /\ outQ' \in [Link -> Seq(Picture)]
      /\ inQ \in [Link -> Seq(Picture)] /\ inQ' \in [Link -> Seq(Picture)]
  BY LinksFinite DEF DataType
<1>1. outQ[l] \in Seq(Picture) /\ inQ[l] \in Seq(Picture)
  BY <1>0
<1>2. k \in 0 .. Len(outQ[l])
  BY <1>1, Parts
<1>3. /\ outQ' = [outQ EXCEPT ![l] = SubSeq(@, k + 1, Len(@))]
      /\ inQ' = [inQ EXCEPT ![l] = IF inRel[l] THEN @ ELSE @ \o SubSeq(outQ[l], 1, k)]
      /\ live' = live - IF inRel[l] THEN k ELSE 0
      /\ UNCHANGED <<srcQ, usingQ>>
  BY DEF releaseOutBuffers, sourceVars
<1> HIDE DEF k
<1>4. /\ Len(SubSeq(outQ[l], k + 1, Len(outQ[l]))) = Len(outQ[l]) - k
      /\ SubSeq(outQ[l], 1, k) \in Seq(Picture) /\ Len(SubSeq(outQ[l], 1, k)) = k
      /\ Len(outQ[l]) \in Nat /\ k \in Nat
  BY <1>1, <1>2, Parts
<1>5. /\ outQ'[l] = SubSeq(outQ[l], k + 1, Len(outQ[l]))
      /\ \A x \in Link : x # l => outQ[x] = outQ'[x]
      /\ \A x \in Link : x # l => inQ'[x] = inQ[x]
      /\ inQ'[l] = IF inRel[l] THEN inQ[l] ELSE inQ[l] \o SubSeq(outQ[l], 1, k)
  BY <1>0, <1>3
<1>6. Len(outQ[l]) = Len(outQ'[l]) + k
  BY <1>4, <1>5
<1>7. Held(outQ', Link) = Held(outQ, Link) - k
  <2>1. GrownOne(Link, outQ', outQ, l, k)
    BY <1>0, <1>4, <1>5, <1>6 DEF GrownOne
  <2>2. QED
    BY <2>1, HeldOne
<1>8. /\ Held(srcQ, SourcePort) \in Nat /\ Held(inQ, Link) \in Nat
      /\ Held(usingQ, Link) \in Nat /\ Held(outQ, Link) \in Nat /\ live \in Int
  BY HeldTypes DEF DataType
<1>9. /\ Held(srcQ', SourcePort) = Held(srcQ, SourcePort)
      /\ Held(usingQ', Link) = Held(usingQ, Link)
      /\ inQ' = inQ => Held(inQ', Link) = Held(inQ, Link)
  BY <1>3
<1>10. CASE inRel[l]
  <2>1. inQ' = inQ /\ live' = live - k
    BY <1>0, <1>3, <1>10
  <2>2. live' = live + (Held(srcQ', SourcePort) - Held(srcQ, SourcePort))
               + (Held(inQ', Link) - Held(inQ, Link))
               + (Held(usingQ', Link) - Held(usingQ, Link))
               + (Held(outQ', Link) - Held(outQ, Link)) + 0
    BY <1>4, <1>7, <1>8, <1>9, <2>1
  <2>3. QED
    BY <2>2 DEF Balanced
<1>11. CASE ~inRel[l]
  <2>1. Len(inQ'[l]) = Len(inQ[l]) + k
    BY <1>1, <1>4, <1>5, <1>11, MoreImages
  <2>2. Held(inQ', Link) = Held(inQ, Link) + k
    <3>1. GrownOne(Link, inQ, inQ', l, k)
      BY <1>0, <1>4, <1>5, <2>1 DEF GrownOne
    <3>2. QED
      BY <3>1, HeldOne
  <2>3. live' = live - 0
    BY <1>3, <1>11
  <2>4. live' = live + (Held(srcQ', SourcePort) - Held(srcQ, SourcePort))
               + (Held(inQ', Link) - Held(inQ, Link))
               + (Held(usingQ', Link) - Held(usingQ, Link))
               + (Held(outQ', Link) - Held(outQ, Link)) + 0
    BY <1>4, <1>7, <1>8, <1>9, <2>2, <2>3
  <2>5. QED
    BY <2>4 DEF Balanced
<1>12. QED
  BY <1>10, <1>11

\* A sink link gives all its images back.
LEMMA SinkBalanced ==
  ASSUME FlowInv, DataType', NEW n \in Node, SinkRelease(n)
  PROVE  Balanced
<1> DEFINE z == sink[n][1]
           d == Len(outQ[z])
<1>0. /\ IsFiniteSet(Link) /\ outQ \in [Link -> Seq(Picture)] /\ outQ' \in [Link -> Seq(Picture)]
      /\ DataType /\ todo[n] \in SUBSET Link
  BY LinksFinite DEF FlowInv, DataType
<1>1. z \in Link
  BY <1>0 DEF SinkRelease, At, FlowInv, TaskInv
<1>2. /\ outQ' = [outQ EXCEPT ![z] = <<>>] /\ live' = live - d
      /\ UNCHANGED <<srcQ, inQ, usingQ>>
  BY DEF SinkRelease, sourceVars
<1> HIDE DEF z
<1>3. /\ d \in Nat /\ outQ'[z] = <<>> /\ Len(<<>>) = 0
      /\ \A x \in Link : x # z => outQ[x] = outQ'[x]
  BY <1>0, <1>1, <1>2
<1>4. Len(outQ[z]) = Len(outQ'[z]) + d
  BY <1>3
<1> HIDE DEF d
<1>5. Held(outQ', Link) = Held(outQ, Link) - d
  <2>1. GrownOne(Link, outQ', outQ, z, d)
    BY <1>0, <1>1, <1>3, <1>4 DEF GrownOne
  <2>2. QED
    BY <2>1, HeldOne
<1>6. /\ Held(srcQ, SourcePort) \in Nat /\ Held(inQ, Link) \in Nat
      /\ Held(usingQ, Link) \in Nat /\ Held(outQ, Link) \in Nat /\ live \in Int
  BY <1>0, HeldTypes DEF DataType
<1>7. /\ Held(srcQ', SourcePort) = Held(srcQ, SourcePort) /\ Held(inQ', Link) = Held(inQ, Link)
      /\ Held(usingQ', Link) = Held(usingQ, Link)
  BY <1>2
<1>8. live' = live + (Held(srcQ', SourcePort) - Held(srcQ, SourcePort))
               + (Held(inQ', Link) - Held(inQ, Link))
               + (Held(usingQ', Link) - Held(usingQ, Link))
               + (Held(outQ', Link) - Held(outQ, Link)) + 0
  BY <1>2, <1>3, <1>5, <1>6, <1>7
<1>9. QED
  BY <1>8 DEF Balanced

\* A step of a task keeps the balance.
LEMMA BalanceOwnStep ==
  ASSUME GraphsFlow, FlowInv, NEW n \in Node, NodeStep(n)
  PROVE  Balanced
<1>1. DataType /\ DataType' /\ Active(n) /\ graph \in Graphs
  BY DataOwnStep, NodeMoves DEF FlowInv, IInv, NodeMove
<1>2. InLinks(n) # {}
  BY <1>1 DEF FlowInv, ReachInv, Reached, Active
<1>3. ASSUME NEW l \in Link, getFrame(n, l) \/ getSourceImage(n, l) PROVE Balanced
  <2>1. \/ /\ l[1] \in SourcePort /\ srcQ[l[1]] # <<>> /\ UNCHANGED inQ
           /\ srcQ' = [srcQ EXCEPT ![l[1]] = Tail(@)]
           /\ usingQ' = [usingQ EXCEPT ![l] = Append(@, Head(srcQ[l[1]]))]
        \/ /\ inQ[l] # <<>> /\ UNCHANGED srcQ
           /\ inQ' = [inQ EXCEPT ![l] = Tail(@)]
           /\ usingQ' = [usingQ EXCEPT ![l] = Append(@, Head(inQ[l]))]
    BY <1>3 DEF getFrame, getSourceImage, Take, IsSource, SourceMissing
  <2>2. UNCHANGED <<outQ, live>>
    BY <1>3 DEF getFrame, getSourceImage, Take
  <2>3. inQ[l] \in Seq(Picture) /\ (l[1] \in SourcePort => srcQ[l[1]] \in Seq(Picture))
    BY <1>1 DEF DataType
  <2>4. /\ inQ[l] # <<>> => Head(inQ[l]) \in Picture
        /\ l[1] \in SourcePort /\ srcQ[l[1]] # <<>> => Head(srcQ[l[1]]) \in Picture
    BY <2>3, Parts
  <2>5. QED
    BY <1>1, <2>1, <2>2, <2>4, TakeBalanced
<1>4. ASSUME NEW l \in Link, releaseOutBuffers(n, l) PROVE Balanced
  BY <1>1, <1>4, DeliverBalanced
<1>5. ASSUME getInputImage(n) PROVE Balanced
  <2>1. /\ usingQ \in [Link -> Seq(Picture)] /\ usingQ' \in [Link -> Seq(Picture)]
        /\ inQ \in [Link -> Seq(Picture)] /\ inQ' \in [Link -> Seq(Picture)] /\ IsFiniteSet(Link)
    BY <1>1, LinksFinite DEF DataType
  <2> DEFINE k == Sizes(inQ)
             from == InLinks(n)
  <2>2. k \in [Link -> Nat] /\ \A x \in Link : k[x] = Len(inQ[x])
    BY <2>1, HeldType
  <2>3. from \in SUBSET Link
    BY <1>1, LinksOfNodes
  <2>4. /\ usingQ' = [x \in Link |-> IF x \in from THEN usingQ[x] \o inQ[x] ELSE usingQ[x]]
        /\ inQ' = [x \in Link |-> IF x \in from THEN <<>> ELSE inQ[x]]
        /\ UNCHANGED <<srcQ, outQ, live>>
    BY <1>5 DEF getInputImage, sourceVars
  <2> HIDE DEF k, from
  <2>5. /\ \A x \in from : Len(usingQ'[x]) = Len(usingQ[x]) + k[x]
        /\ \A x \in Link \ from : usingQ'[x] = usingQ[x]
    <3>1. ASSUME NEW x \in from PROVE Len(usingQ'[x]) = Len(usingQ[x]) + k[x]
      <4>1. /\ usingQ[x] \in Seq(Picture) /\ inQ[x] \in Seq(Picture)
            /\ usingQ'[x] = usingQ[x] \o inQ[x] /\ k[x] = Len(inQ[x])
        BY <2>1, <2>2, <2>3, <2>4
      <4>2. QED
        BY <4>1, MoreImages
    <3>2. QED
      BY <2>4, <3>1
  <2>6. /\ \A x \in from : Len(inQ[x]) = Len(inQ'[x]) + k[x]
        /\ \A x \in Link \ from : inQ[x] = inQ'[x]
    <3>1. ASSUME NEW x \in from PROVE Len(inQ[x]) = Len(inQ'[x]) + k[x]
      <4>1. inQ'[x] = <<>> /\ k[x] = Len(inQ[x]) /\ k[x] \in Nat
        BY <2>2, <2>3, <2>4
      <4>2. QED
        BY <4>1
    <3>2. QED
      BY <2>4, <3>1
  <2> DEFINE t == Total(k, from)
  <2>7. t \in Nat /\ Held(usingQ', Link) = Held(usingQ, Link) + t
    <3>1. Grown(Link, usingQ, usingQ', from, k)
      BY <2>1, <2>2, <2>3, <2>5 DEF Grown
    <3>2. QED
      BY <3>1, HeldMore
  <2>8. Held(inQ', Link) = Held(inQ, Link) - t
    <3>1. Grown(Link, inQ', inQ, from, k)
      BY <2>1, <2>2, <2>3, <2>6 DEF Grown
    <3>2. QED
      BY <3>1, HeldMore
  <2> HIDE DEF t
  <2>9. /\ Held(srcQ, SourcePort) \in Nat /\ Held(inQ, Link) \in Nat
        /\ Held(usingQ, Link) \in Nat /\ Held(outQ, Link) \in Nat /\ live \in Int
    BY <1>1, HeldTypes DEF DataType
  <2>10. Held(srcQ', SourcePort) = Held(srcQ, SourcePort) /\ Held(outQ', Link) = Held(outQ, Link)
         /\ live' = live
    BY <2>4
  <2>11. live' = live + (Held(srcQ', SourcePort) - Held(srcQ, SourcePort))
                + (Held(inQ', Link) - Held(inQ, Link))
                + (Held(usingQ', Link) - Held(usingQ, Link))
                + (Held(outQ', Link) - Held(outQ, Link)) + 0
    BY <2>7, <2>8, <2>9, <2>10
  <2>12. QED
    BY <2>11 DEF Balanced
<1>6. ASSUME getOutputImage(n) \/ OutputFails(n) PROVE Balanced
  <2>1. pc[n] = "output" /\ \E links \in SUBSET OutLinks(n) : Acquire(n, links)
    BY <1>6 DEF getOutputImage, OutputFails, At
  <2>2. QED
    BY <1>1, <1>2, <2>1, AcquireBalanced
<1>7. ASSUME FrameInput(n) PROVE Balanced
  <2> DEFINE k == [x \in Link |-> IF usingQ[x] = <<>> THEN 0 ELSE 1]
  <2>1. k \in [Link -> Nat] /\ \A x \in Link : k[x] <= Len(usingQ[x])
    BY <1>1, HowMany
  <2>2. pc[n] = "frameIn"
    BY <1>7 DEF FrameInput, At
  <2>3. \/ releaseInputBuffers(n, k)
        \/ UNCHANGED <<srcQ, inQ, usingQ, outQ, live>>
    BY <1>7 DEF FrameInput, queueVars, sourceVars, linkVars
  <2> HIDE DEF k
  <2>4. QED
    BY <1>1, <2>1, <2>2, <2>3, ReleaseBalanced, StillBalanced
<1>8. ASSUME ReleaseInputs(n) PROVE Balanced
  <2> DEFINE k == [x \in Link |-> Len(usingQ[x])]
  <2>1. k \in [Link -> Nat] /\ \A x \in Link : k[x] <= Len(usingQ[x])
    BY <1>1, HowMany
  <2>2. pc[n] = "release" /\ releaseInputBuffers(n, k)
    BY <1>8 DEF ReleaseInputs, At
  <2> HIDE DEF k
  <2>3. QED
    BY <1>1, <2>1, <2>2, ReleaseBalanced
<1>9. ASSUME SinkRelease(n) PROVE Balanced
  BY <1>1, <1>9, SinkBalanced
<1>10. ASSUME \/ \E l \in Link : InputFails(n, l) \/ SinkRead(n, l)
              \/ checkTaskEffectiveness(n) \/ PluginReturns(n) \/ PluginFails(n)
              \/ FrameOutput(n) \/ FrameEnds(n) \/ EraseCurrent(n) \/ AbnormalCallback(n)
              \/ SinkWrite(n) \/ NodeEnds(n)
       PROVE  Balanced
  <2>1. UNCHANGED <<srcQ, inQ, usingQ, outQ, live>>
    BY <1>10
       DEF InputFails, InputEnded, SinkRead, checkTaskEffectiveness, PluginReturns,
           PluginFails,
       FrameOutput, FrameEnds, EraseCurrent, AbnormalCallback, SinkWrite, NodeEnds, EndRequest,
       queueVars, sourceVars, linkVars
  <2>2. QED
    BY <1>1, <2>1, StillBalanced
<1>11. QED
  BY <1>3, <1>4, <1>5, <1>6, <1>7, <1>8, <1>9, <1>10 DEF NodeStep

(* Once the buffers have been given back nothing comes in again.             *)
OverInv ==
  mpc \in {"move", "idle"} =>
    /\ \A p \in SourcePort : srcRel[p] /\ srcQ[p] = <<>>
    /\ \A l \in Link : inQ[l] = <<>> /\ usingQ[l] = <<>> /\ outQ[l] = <<>>

(* The pipeline owes at least the images it holds, and no others if whole    *)
(* sets are passed on.                                                       *)
LiveInv ==
  /\ live >= QueuedImages
  /\ GraphsPassWholeSets => live = QueuedImages

\* Empty queues hold nothing.
LEMMA HeldNone ==
  ASSUME NEW S, NEW q \in [S -> Seq(Picture)], \A x \in S : q[x] = <<>>
  PROVE  Held(q, S) = 0
<1> DEFINE f == Sizes(q)
<1>1. \A x \in S : f[x] = 0
  BY DEF Sizes
<1> HIDE DEF f
<1>2. ASSUME NEW y \in Places(f, S) PROVE FALSE
  <2>1. y[1] \in S /\ y[2] \in 1 .. f[y[1]]
    BY InPlaces
  <2>2. QED
    BY <1>1, <2>1
<1>3. Cardinality(Places(f, S)) = 0
  BY <1>2, FS_EmptySet
<1>4. QED
  BY <1>3 DEF Held, Total, f

\* All the images.
LEMMA HeldInAll ==
  ASSUME DataType
  PROVE  /\ QueuedImages = Held(srcQ, SourcePort) + Held(inQ, Link)
                            + Held(usingQ, Link) + Held(outQ, Link)
         /\ QueuedImages \in Nat
<1>1. QueuedImages = Held(srcQ, SourcePort) + Held(inQ, Link)
                      + Held(usingQ, Link) + Held(outQ, Link)
  BY DEF QueuedImages, Held
<1>2. QED
  BY <1>1, HeldTypes

\* A balanced step keeps the account.
LEMMA BalancedLive ==
  ASSUME DataType, DataType', LiveInv, Balanced
  PROVE  LiveInv'
<1> DEFINE A == Held(srcQ, SourcePort)
           B == Held(inQ, Link)
           C == Held(usingQ, Link)
           D == Held(outQ, Link)
           E == Held(srcQ', SourcePort)
           F == Held(inQ', Link)
           G == Held(usingQ', Link)
           H == Held(outQ', Link)
<1>1. PICK lost \in Nat : /\ live' = live + (E - A) + (F - B) + (G - C) + (H - D) + lost
                          /\ GraphsPassWholeSets => lost = 0
  BY DEF Balanced
<1>2. /\ A \in Nat /\ B \in Nat /\ C \in Nat /\ D \in Nat
      /\ QueuedImages = A + B + C + D /\ live \in Int
  BY HeldTypes, HeldInAll DEF DataType
<1>3. /\ IsFiniteSet(Link) /\ IsFiniteSet(SourcePort)
  BY HeldTypes
<1>4. E \in Nat /\ F \in Nat /\ G \in Nat /\ H \in Nat
  BY <1>3, HeldType DEF DataType
<1>5. QueuedImages' = E + F + G + H
  BY DEF QueuedImages, Held
<1>6. /\ live >= A + B + C + D
      /\ GraphsPassWholeSets => live = A + B + C + D
  BY <1>2 DEF LiveInv
<1> HIDE DEF A, B, C, D, E, F, G, H
<1>7. /\ live' >= E + F + G + H
      /\ GraphsPassWholeSets => live' = E + F + G + H
  BY <1>1, <1>2, <1>4, <1>6
<1>8. QED
  BY <1>5, <1>7 DEF LiveInv

\* Every step keeps the account.
LEMMA LiveStep ==
  ASSUME GraphsFlow, FlowInv, DataType', LiveInv, [Next]_vars
  PROVE  LiveInv'
<1>0. DataType /\ IsFiniteSet(Link) /\ IsFiniteSet(SourcePort)
  BY LinksFinite, PipelineAssumption DEF FlowInv
<1>1. ASSUME NEW n \in Node, NodeStep(n) PROVE LiveInv'
  BY <1>0, <1>1, BalanceOwnStep, BalancedLive
<1>2. CASE releaseUnusedBuffer
  <2>1. /\ srcQ' = [p \in SourcePort |-> <<>>] /\ inQ' = [l \in Link |-> <<>>]
        /\ usingQ' = [l \in Link |-> <<>>] /\ outQ' = [l \in Link |-> <<>>]
        /\ live' = live - QueuedImages
    BY <1>2 DEF releaseUnusedBuffer
  <2>2. /\ srcQ' \in [SourcePort -> Seq(Picture)] /\ inQ' \in [Link -> Seq(Picture)]
        /\ usingQ' \in [Link -> Seq(Picture)] /\ outQ' \in [Link -> Seq(Picture)]
    BY DEF DataType
  <2>3. /\ \A p \in SourcePort : srcQ'[p] = <<>>
        /\ \A l \in Link : inQ'[l] = <<>> /\ usingQ'[l] = <<>> /\ outQ'[l] = <<>>
    BY <2>1
  <2>4. /\ Held(srcQ', SourcePort) = 0 /\ Held(inQ', Link) = 0
        /\ Held(usingQ', Link) = 0 /\ Held(outQ', Link) = 0
    BY <2>2, <2>3, HeldNone
  <2>5. QueuedImages' = Held(srcQ', SourcePort) + Held(inQ', Link)
                         + Held(usingQ', Link) + Held(outQ', Link)
    BY DEF QueuedImages, Held
  <2>6. QueuedImages' = 0
    BY <2>4, <2>5
  <2>7. QueuedImages \in Nat /\ live \in Int
    BY <1>0, HeldInAll DEF DataType
  <2>8. /\ live >= QueuedImages
        /\ GraphsPassWholeSets => live = QueuedImages
    BY DEF LiveInv
  <2>9. /\ live - QueuedImages >= 0
        /\ GraphsPassWholeSets => live - QueuedImages = 0
    BY <2>7, <2>8
  <2>10. QED
    BY <2>1, <2>6, <2>9 DEF LiveInv
<1>3. ASSUME NEW p \in SourcePort, enqueueSourceImage(p) PROVE LiveInv'
  <2> DEFINE i == [num |-> NumFrames, src |-> TRUE]
  <2>1. \/ UNCHANGED <<srcQ, inQ, usingQ, outQ, live>>
        \/ /\ srcQ' = [srcQ EXCEPT ![p] = Append(@, i)] /\ live' = live + 1
           /\ UNCHANGED <<inQ, usingQ, outQ>>
    BY <1>3 DEF enqueueSourceImage, linkVars
  <2>2. i \in Picture
    BY SourcePicture
  <2> HIDE DEF i
  <2>3. CASE UNCHANGED <<srcQ, inQ, usingQ, outQ, live>>
    BY <1>0, <2>3, StillBalanced, BalancedLive
  <2>4. CASE /\ srcQ' = [srcQ EXCEPT ![p] = Append(@, i)] /\ live' = live + 1
             /\ UNCHANGED <<inQ, usingQ, outQ>>
    <3>1. srcQ \in [SourcePort -> Seq(Picture)]
      BY <1>0 DEF DataType
    <3>2. Held([srcQ EXCEPT ![p] = Append(@, i)], SourcePort) = Held(srcQ, SourcePort) + 1
      BY <1>0, <2>2, <3>1, HeldAppend
    <3>3. /\ Held(srcQ', SourcePort) = Held(srcQ, SourcePort) + 1 /\ live' = live + 1
          /\ Held(inQ', Link) = Held(inQ, Link)
          /\ Held(usingQ', Link) = Held(usingQ, Link) /\ Held(outQ', Link) = Held(outQ, Link)
      BY <2>4, <3>2
    <3>4. /\ Held(srcQ, SourcePort) \in Nat /\ Held(inQ, Link) \in Nat
          /\ Held(usingQ, Link) \in Nat /\ Held(outQ, Link) \in Nat /\ live \in Int
      BY <1>0, HeldTypes DEF DataType
    <3>5. live' = live + (Held(srcQ', SourcePort) - Held(srcQ, SourcePort))
                   + (Held(inQ', Link) - Held(inQ, Link))
                   + (Held(usingQ', Link) - Held(usingQ, Link))
                   + (Held(outQ', Link) - Held(outQ, Link)) + 0
      BY <3>3, <3>4
    <3>6. Balanced
      BY <3>5 DEF Balanced
    <3>7. QED
      BY <1>0, <3>6, BalancedLive
  <2>5. QED
    BY <2>1, <2>3, <2>4
<1>4. ASSUME \/ \E g \in Graphs : rebuildLinks(g)
             \/ Start \/ RebuildFails \/ PopNode \/ postProcess \/ CountAndWait
             \/ RetestPredicate \/ LoopEnds \/ moveToIdleQueue \/ SpuriousWakeup
             \/ quickFinish \/ FlushNodes \/ FlushCrashes \/ UNCHANGED vars
      PROVE  LiveInv'
  <2>1. UNCHANGED <<srcQ, inQ, usingQ, outQ, live>>
    BY <1>4 DEF rebuildLinks, Start, RebuildFails, PopNode, postProcess, CountAndWait,
       RetestPredicate, LoopEnds, moveToIdleQueue, SpuriousWakeup, quickFinish, FlushNodes,
       FlushCrashes, vars, notMain, queueVars, sourceVars, linkVars
  <2>2. QED
    BY <1>0, <2>1, StillBalanced, BalancedLive
<1>5. QED
  BY <1>1, <1>2, <1>3, <1>4 DEF Next, MainStep, Terminated

\* Every step keeps what is given back away.
LEMMA OverStep ==
  ASSUME FlowInv, OverInv, [Next]_vars
  PROVE  OverInv'
<1>1. ASSUME NEW n \in Node, NodeStep(n) PROVE OverInv'
  <2>1. NodeMove(n) /\ Active(n)
    BY <1>1, NodeMoves DEF FlowInv, IInv, NodeMove
  <2>2. ~Over
    BY <2>1, NobodyLeft DEF FlowInv
  <2>3. mpc' \in {mpc, "awake"}
    BY <2>1 DEF NodeMove, Notified
  <2>4. QED
    BY <2>2, <2>3 DEF OverInv, Over
<1>2. CASE releaseUnusedBuffer
  BY <1>2 DEF releaseUnusedBuffer, releaseSourceQueues, OverInv
<1>3. ASSUME NEW p \in SourcePort, enqueueSourceImage(p) PROVE OverInv'
  <2>1. /\ UNCHANGED <<mpc, srcRel, inQ, usingQ, outQ>>
        /\ srcRel[p] => UNCHANGED srcQ
    BY <1>3 DEF enqueueSourceImage, notSession, mainVars, linkVars
  <2>2. CASE mpc \in {"move", "idle"}
    <3>1. srcRel[p]
      BY <2>2 DEF OverInv
    <3>2. QED
      BY <2>1, <3>1 DEF OverInv
  <2>3. CASE mpc \notin {"move", "idle"}
    BY <2>1, <2>3 DEF OverInv
  <2>4. QED
    BY <2>2, <2>3
<1>4. CASE quickFinish
  BY <1>4 DEF quickFinish, releaseSourceQueues, notSession, mainVars, linkVars, OverInv
<1>5. CASE moveToIdleQueue \/ FlushNodes \/ FlushCrashes \/ UNCHANGED vars
  <2>1. /\ UNCHANGED <<srcQ, srcRel, inQ, usingQ, outQ>>
        /\ mpc' \in {"move", "idle"} => mpc \in {"move", "idle"}
    BY <1>5 DEF moveToIdleQueue, FlushNodes, FlushCrashes, vars, notMain, notSession, mainVars, queueVars,
       sourceVars, linkVars
  <2>2. QED
    BY <2>1 DEF OverInv
<1>6. CASE \/ \E g \in Graphs : rebuildLinks(g)
           \/ Start \/ RebuildFails \/ PopNode \/ postProcess \/ CountAndWait
           \/ RetestPredicate \/ LoopEnds \/ SpuriousWakeup
  <2>1. mpc' \notin {"move", "idle"}
    BY <1>6 DEF rebuildLinks, Start, RebuildFails, PopNode, postProcess, CountAndWait,
       RetestPredicate, LoopEnds, SpuriousWakeup, WaitUnlessReady, Waiting
  <2>2. QED
    BY <2>1 DEF OverInv
<1>7. QED
  BY <1>1, <1>2, <1>3, <1>4, <1>5, <1>6 DEF Next, MainStep, Terminated

\* Before the request starts the pipeline owes nothing.
LEMMA InitLive == Init => OverInv /\ LiveInv
<1> SUFFICES ASSUME Init PROVE OverInv /\ LiveInv
  OBVIOUS
<1>1. OverInv
  BY DEF Init, OverInv
<1>2. DataType
  BY InitFlow DEF FlowInv
<1>3. /\ srcQ \in [SourcePort -> Seq(Picture)] /\ inQ \in [Link -> Seq(Picture)]
      /\ usingQ \in [Link -> Seq(Picture)] /\ outQ \in [Link -> Seq(Picture)]
  BY <1>2 DEF DataType
<1>4. /\ \A p \in SourcePort : srcQ[p] = <<>>
      /\ \A l \in Link : inQ[l] = <<>> /\ usingQ[l] = <<>> /\ outQ[l] = <<>>
      /\ live = 0
  BY DEF Init
<1>5. /\ Held(srcQ, SourcePort) = 0 /\ Held(inQ, Link) = 0
      /\ Held(usingQ, Link) = 0 /\ Held(outQ, Link) = 0
  BY <1>3, <1>4, HeldNone
<1>6. QueuedImages = 0
  BY <1>2, <1>5, HeldInAll
<1>7. QED
  BY <1>1, <1>4, <1>6 DEF LiveInv

\* The account holds in every reachable state.
LEMMA LiveInvariance ==
  ASSUME GraphsFlow
  PROVE  Spec => [](FlowInv /\ OverInv /\ LiveInv)
<1> DEFINE Inv == OverInv /\ LiveInv
<1>1. Init => Inv
  BY InitLive
<1>2. ASSUME FlowInv, Inv, [Next]_vars PROVE Inv'
  <2>1. DataType'
    BY <1>2, DataStep
  <2>2. QED
    BY <1>2, <2>1, OverStep, LiveStep
<1>3. FlowInv /\ Inv /\ [Next]_vars => Inv'
  BY <1>2
<1> HIDE DEF Inv
<1>4. Spec => []Inv
  BY FlowInvariance, <1>1, <1>3, PTL DEF Spec
<1>5. FlowInv /\ Inv => FlowInv /\ OverInv /\ LiveInv
  BY DEF Inv
<1>6. QED
  BY FlowInvariance, <1>4, <1>5, PTL

\* The application is told of a failure at most once, of one before any task runs too.
LEMMA ToldOnce == Spec => [](abnormal \in 0 .. 1)
<1> DEFINE Once == abnormal \in 0 .. 1
<1>1. Init => Once
  BY DEF Init
<1>2. ASSUME IInv, IInv', Once, [Next]_vars PROVE Once'
  <2>1. CASE graph' # NoGraph
    BY <1>2, <2>1 DEF IInv, ReportInv
  <2>2. CASE graph' = NoGraph
    <3>1. \/ MainStep \/ SpuriousWakeup
          \/ \E n \in Node : NodeMove(n)
          \/ UNCHANGED seen
      BY <1>2, OtherSteps, NodeMoves DEF IInv
    <3>2. ASSUME NEW n \in Node, NodeMove(n) PROVE FALSE
      BY <2>2, <3>2, PipelineAssumption DEF NodeMove
    <3>3. CASE UNCHANGED seen
      BY <1>2, <3>3 DEF seen
    <3>4. CASE RebuildFails
      <4>1. abnormal = 0 /\ abnormal' = abnormal + 1
        BY <1>2, <3>4 DEF RebuildFails, IInv, FreshInv
      <4>2. QED
        BY <4>1
    <3>5. CASE (MainStep \/ SpuriousWakeup) /\ ~RebuildFails
      <4>1. abnormal' = abnormal
        BY <3>5 DEF MainStep, SpuriousWakeup, Start, rebuildLinks, PopNode, postProcess,
           CountAndWait, RetestPredicate, LoopEnds, releaseUnusedBuffer, moveToIdleQueue,
           notMain, resultVars
      <4>2. QED
        BY <1>2, <4>1
    <3>6. QED
      BY <3>1, <3>2, <3>3, <3>4, <3>5
  <2>3. QED
    BY <2>1, <2>2
<1>3. IInv /\ IInv' /\ Once /\ [Next]_vars => Once'
  BY <1>2
<1> HIDE DEF Once
<1>4. Spec => []Once
  BY Invariance, <1>1, <1>3, PTL DEF Spec
<1>5. QED
  BY <1>4, PTL DEF Once

\* On every graph that flows every variable keeps its type.  In particular no reference is
\* given back twice (`live' never falls below zero, even if a released queue refuses images
\* that an in-place node hands on), and at most one abnormal callback is made.
THEOREM WellTyped ==
  ASSUME GraphsFlow
  PROVE  Spec => []TypeOK
<1>1. ASSUME FlowInv, LiveInv, abnormal \in 0 .. 1 PROVE TypeOK
  <2>1. /\ TypeInv /\ DataType /\ mCurrentProcessNodes \subseteq Node
    BY <1>1 DEF FlowInv, IInv, ProcessInv
  <2>2. Picture \subseteq Image
    BY DEF Picture, Image
  <2>3. \A q : q \in Seq(Picture) => q \in Seq(Image)
    BY <2>2
  <2>4. /\ srcQ \in [SourcePort -> Seq(Image)] /\ {inQ, usingQ, outQ} \subseteq [Link -> Seq(Image)]
    BY <2>1, <2>3 DEF DataType
  <2>5. live \in Nat
    <3>1. QueuedImages \in Nat /\ live \in Int /\ live >= QueuedImages
      BY <1>1, <2>1, HeldInAll DEF DataType, LiveInv
    <3>2. QED
      BY <3>1
  <2>6. QED
    BY <1>1, <2>1, <2>4, <2>5 DEF TypeInv, DataType, TypeOK
<1>2. FlowInv /\ OverInv /\ LiveInv /\ abnormal \in 0 .. 1 => TypeOK
  BY <1>1
<1>3. QED
  BY LiveInvariance, ToldOnce, <1>2, PTL

\* On every graph that flows and hands whole sets on, every image that entered the pipeline
\* has been given back when it goes to the idle queue, those that arrive while it ends too:
\* releaseUnusedBuffer finds every reference that the tasks have not given back themselves.
THEOREM AllImagesReturned ==
  ASSUME GraphsFlow, GraphsPassWholeSets
  PROVE  Spec => []ImagesReturned
<1>1. ASSUME FlowInv, OverInv, LiveInv, mpc = "idle" PROVE live = 0
  <2>1. DataType /\ live = QueuedImages
    BY <1>1 DEF FlowInv, LiveInv
  <2>2. /\ srcQ \in [SourcePort -> Seq(Picture)] /\ inQ \in [Link -> Seq(Picture)]
        /\ usingQ \in [Link -> Seq(Picture)] /\ outQ \in [Link -> Seq(Picture)]
    BY <2>1 DEF DataType
  <2>3. /\ \A p \in SourcePort : srcQ[p] = <<>>
        /\ \A l \in Link : inQ[l] = <<>> /\ usingQ[l] = <<>> /\ outQ[l] = <<>>
    BY <1>1 DEF OverInv
  <2>4. /\ Held(srcQ, SourcePort) = 0 /\ Held(inQ, Link) = 0
        /\ Held(usingQ, Link) = 0 /\ Held(outQ, Link) = 0
    BY <2>2, <2>3, HeldNone
  <2>5. QED
    BY <2>1, <2>4, HeldInAll
<1>2. FlowInv /\ OverInv /\ LiveInv => ImagesReturned
  BY <1>1 DEF ImagesReturned
<1>3. QED
  BY LiveInvariance, <1>2, PTL

(* ------------------------- the last image: invariant --------------------- *)

(* The sink links of a node, and those it has yet to release at its end.     *)
Sinks(n) == {l \in OutLinks(n) : IsSink(l)}
Left(n) == IF Leaving(n) THEN {l \in todo[n] : IsSink(l)}
           ELSE IF pc[n] = "done" THEN {} ELSE Sinks(n)

(* The one node before the sinks: the counter says how many links are left,  *)
(* a link that is left has its images once a frame was processed, and the    *)
(* last image is sent when none is left.                                     *)
SinkInv(n) ==
  /\ ~Streaming(n)
  /\ mSinkNumToReturn = Cardinality(Left(n)) - IF pc[n] = "sinkRelease" THEN 1 ELSE 0
  /\ pc[n] = "sinkWrite" => sink[n][2] = mSinkNumToReturn
  /\ \A l \in Sinks(n) : l \notin Left(n) => outQ[l] = <<>>
  /\ complete = 0 \/ (complete = 1 /\ Left(n) = {})
  /\ ok[n] /\ Left(n) = {} => complete = 1
  /\ Active(n) /\ mInputFrameNum[n] > 0 => \A l \in Left(n) : outQ[l] # <<>>
EndInv ==
  /\ graph = NoGraph => complete = 0
  /\ graph # NoGraph => \A n \in Node : Sinks(n) # {} => SinkInv(n)

(* A node without inputs to wait for is ready, and a node waits only for     *)
(* parents that have not delivered, as long as nobody has failed.            *)
Started(m) ==
  \/ m \in Elems(mRunSequence) \/ pc[m] # "none" \/ m \in Missing
  \/ mpc = "dispatch" /\ serving = m
ReadyInv ==
  /\ graph # NoGraph /\ ~TopologyError(graph) =>
       \A m \in Consumers(graph) : mDependenceNum[m] <= 0 => Started(m)
  /\ Over => mRunSequence = <<>>
OwedInv ==
  graph # NoGraph /\ ~mHasProcessError =>
    \A m \in Node : mDependenceNum[m] <= Cardinality(Pending(m))
DoneInv == \A n \in Node : pc[n] = "done" /\ ~mHasProcessError => ok[n]

LastInv == EndInv /\ ReadyInv /\ OwedInv /\ DoneInv

(* ------------------------------- the sinks ------------------------------- *)

\* The node before the sinks of a graph is one, and no virtual or streaming one.
LEMMA OneEnd ==
  ASSUME GraphsComplete, graph \in Graphs, NEW n \in Node, Sinks(n) # {}
  PROVE  /\ Sinks(n) = {l \in graph.links : IsSink(l)}
         /\ \A m \in Node : m # n => Sinks(m) = {}
         /\ ~Has(n, "VIRTUAL") /\ ~(SigFrame(n) /\ Has(n, "SIGRELEASEOUTPUT"))
         /\ ~isInplaceNode(n)
         /\ IsFiniteSet(Sinks(n)) /\ Sinks(n) \subseteq Link
<1>1. EndsInOneNode(graph)
  BY DEF GraphsComplete, Completes
<1>2. PICK e \in Node : /\ \A l \in graph.links : IsSink(l) => l[1] = e
                        /\ "VIRTUAL" \notin graph.mask[e]
                        /\ ~({"SIGFRAME", "SIGRELEASEOUTPUT"} \subseteq graph.mask[e])
  BY <1>1 DEF EndsInOneNode
<1>3. \A m \in Node : \A l \in Sinks(m) : l \in graph.links /\ IsSink(l) /\ l[1] = m
  BY DEF Sinks, OutLinks
<1>4. n = e
  BY <1>2, <1>3
<1>5. Sinks(n) = {l \in graph.links : IsSink(l)}
  BY <1>2, <1>4 DEF Sinks, OutLinks
<1>6. \A m \in Node : m # n => Sinks(m) = {}
  BY <1>2, <1>3, <1>4
<1>7. ~Has(n, "VIRTUAL") /\ ~(SigFrame(n) /\ Has(n, "SIGRELEASEOUTPUT"))
  BY <1>2, <1>4 DEF Has, SigFrame
<1>8. ~isInplaceNode(n)
  BY DEF isInplaceNode, Sinks
<1>9. Sinks(n) \subseteq Link
  BY LinksOfNodes DEF Sinks
<1>10. IsFiniteSet(Sinks(n))
  BY <1>9, LinksFinite, FS_Subset
<1>11. QED
  BY <1>5, <1>6, <1>7, <1>8, <1>9, <1>10

\* Only a task that releases a sink link counts it or sends the last image.
LEMMA SinkCounter ==
  ASSUME FlowInv, NEW n \in Node, NodeStep(n)
  PROVE  /\ UNCHANGED <<mSinkNumToReturn, complete>> \/ SinkWrite(n) \/ SinkRelease(n)
         /\ Sinks(n) = {} => UNCHANGED <<mSinkNumToReturn, complete>>
<1>1. UNCHANGED <<mSinkNumToReturn, complete>> \/ SinkWrite(n) \/ SinkRelease(n)
  BY DEF NodeStep, getFrame, getSourceImage, InputFails, releaseOutBuffers, SinkRead,
     getInputImage, checkTaskEffectiveness, getOutputImage, OutputFails, PluginReturns,
     PluginFails, FrameInput, FrameOutput, FrameEnds, EraseCurrent, AbnormalCallback,
     ReleaseInputs, NodeEnds, EndRequest, notNode, resultVars
<1>2. ASSUME SinkWrite(n) \/ SinkRelease(n) PROVE Sinks(n) # {}
  <2>1. pc[n] \in {"sinkWrite", "sinkRelease"} /\ TaskInv(n)
    BY <1>2 DEF SinkWrite, SinkRelease, At, FlowInv
  <2>2. sink[n] \in todo[n] \X Int /\ IsSink(sink[n][1]) /\ todo[n] \subseteq OutLinks(n)
    BY <2>1 DEF TaskInv
  <2>3. QED
    BY <2>2 DEF Sinks
<1>3. QED
  BY <1>1, <1>2

\* A step of the node before the sinks.
LEMMA SinkOwnStep ==
  ASSUME GraphsComplete, GraphsFlow, FlowInv, NEW n \in Node, NodeStep(n), Sinks(n) # {},
         SinkInv(n)
  PROVE  SinkInv(n)'
<1>01. /\ pc \in [Node -> NodeState] /\ ok \in [Node -> BOOLEAN]
       /\ mInputFrameNum \in [Node -> Nat] /\ todo \in [Node -> SUBSET Link]
       /\ sink \in [Node -> {<<>>} \cup (Link \X Int)]
       /\ outQ \in [Link -> Seq(Picture)]
       /\ mSinkNumToReturn \in Int
       /\ TaskInv(n)
  BY DEF FlowInv, IInv, TypeInv, DataType
<1>02. Active(n) /\ graph \in Graphs /\ graph' = graph
  BY NodeMoves DEF FlowInv, IInv, NodeMove
<1>03. /\ ~Has(n, "VIRTUAL") /\ ~(SigFrame(n) /\ Has(n, "SIGRELEASEOUTPUT"))
       /\ ~isInplaceNode(n)
       /\ IsFiniteSet(Sinks(n)) /\ Sinks(n) \subseteq Link /\ Sinks(n) \subseteq OutLinks(n)
       /\ \A l \in Sinks(n) : IsSink(l)
  BY <1>02, OneEnd DEF Sinks
<1>04. Sinks(n)' = Sinks(n)
  BY <1>02, SameGraph DEF Sinks
<1>05. UNCHANGED <<mSinkNumToReturn, complete>> \/ SinkWrite(n) \/ SinkRelease(n)
  BY SinkCounter
<1>06. /\ pc[n] \in Early => n \in mCurrentProcessNodes
       /\ pc[n] \in {"abnormal", "release"} => n \notin mCurrentProcessNodes
  BY DEF FlowInv, IInv, ProcessInv, Early
<1>07. ASSUME pc[n] \notin Late, pc[n] # "done"
       PROVE  /\ Left(n) = Sinks(n) /\ complete = 0
              /\ mSinkNumToReturn = Cardinality(Sinks(n))
              /\ mInputFrameNum[n] > 0 => \A l \in Sinks(n) : outQ[l] # <<>>
  <2>1. Left(n) = Sinks(n) /\ pc[n] # "sinkRelease"
    BY <1>07 DEF Left, Leaving, Late
  <2>2. complete = 0 /\ mSinkNumToReturn = Cardinality(Sinks(n))
    <3>1. Cardinality(Sinks(n)) \in Nat
      BY <1>03, FS_CardinalityType
    <3>2. QED
      BY <2>1, <3>1 DEF SinkInv
  <2>3. QED
    BY <1>02, <2>1, <2>2 DEF SinkInv
<1>08. ASSUME pc[n] \notin Late, pc[n] # "done", pc'[n] \notin Late, pc'[n] # "done",
              UNCHANGED <<mSinkNumToReturn, complete>>,
              mInputFrameNum'[n] > 0 => \A l \in Sinks(n) : outQ'[l] # <<>>
       PROVE  SinkInv(n)'
  <2>1. Left(n)' = Sinks(n) /\ ~Streaming(n)' /\ pc'[n] \notin {"sinkWrite", "sinkRelease"}
    BY <1>04, <1>08 DEF Left, Leaving, Streaming, Late
  <2>2. complete' = 0 /\ mSinkNumToReturn' = Cardinality(Sinks(n))
    BY <1>07, <1>08
  <2>3. Cardinality(Sinks(n)) \in Nat
    BY <1>03, FS_CardinalityType
  <2>4. QED
    BY <1>04, <1>08, <2>1, <2>2, <2>3 DEF SinkInv
<1>09. ASSUME pc[n] \notin Late, pc[n] # "done", pc'[n] \notin Late, pc'[n] # "done",
              UNCHANGED <<mSinkNumToReturn, complete, outQ>>,
              mInputFrameNum'[n] = mInputFrameNum[n]
       PROVE  SinkInv(n)'
  BY <1>07, <1>08, <1>09
<1> USE DEF At, Goto, Fail, notNode, given, schedVars, clientVars, resultVars, queueVars,
            sourceVars, linkVars
<1>1. ASSUME NEW l \in Link, getFrame(n, l) PROVE SinkInv(n)'
  <2>1. /\ pc[n] = "input" /\ pc'[n] = "check"
        /\ UNCHANGED <<mSinkNumToReturn, complete, outQ, mInputFrameNum>>
    BY <1>01, <1>03, <1>1 DEF getFrame, AfterFrame, Take
  <2>2. QED
    BY <1>09, <2>1 DEF Late
<1>2. ASSUME NEW l \in Link, getSourceImage(n, l) PROVE SinkInv(n)'
  BY <1>01, <1>09, <1>2 DEF getSourceImage, Take, Late
<1>3. ASSUME NEW l \in Link, InputFails(n, l) PROVE SinkInv(n)'
  <2>1. /\ pc[n] = "input" /\ pc'[n] = "check"
        /\ UNCHANGED <<mSinkNumToReturn, complete, outQ, mInputFrameNum>>
    BY <1>01, <1>03, <1>3 DEF InputFails, InputEnded
  <2>2. QED
    BY <1>09, <2>1 DEF Late
<1>4. ASSUME getInputImage(n) PROVE SinkInv(n)'
  <2>1. /\ pc[n] = "input" /\ pc'[n] = "check"
        /\ UNCHANGED <<mSinkNumToReturn, complete, outQ, mInputFrameNum>>
    BY <1>01, <1>03, <1>4 DEF getInputImage
  <2>2. QED
    BY <1>09, <2>1 DEF Late
<1>5. ASSUME checkTaskEffectiveness(n) PROVE SinkInv(n)'
  <2>1. /\ pc[n] = "check" /\ pc'[n] \in {"erase", "output"}
        /\ UNCHANGED <<mSinkNumToReturn, complete, outQ, mInputFrameNum>>
    BY <1>01, <1>5 DEF checkTaskEffectiveness
  <2>2. QED
    BY <1>09, <2>1 DEF Late
<1>6. ASSUME getOutputImage(n) \/ OutputFails(n) PROVE SinkInv(n)'
  <2>1. /\ pc[n] = "output" /\ pc'[n] \in {"plugin", "erase"}
        /\ UNCHANGED <<mSinkNumToReturn, complete>>
    BY <1>01, <1>6 DEF getOutputImage, OutputFails, Acquire
  <2>2. InLinks(n) # {} /\ \A l \in InLinks(n) : usingQ[l] # <<>>
    BY <1>01, <2>1 DEF FlowInv, ReachInv, Reached, TaskInv, HoldsInputs
  <2>3. NewOutputs(n) \in Seq(Picture) /\ Len(NewOutputs(n)) \in Nat \ {0}
    BY <1>02, <2>2, OutputsTaken DEF FlowInv
  <2>4. \A l \in Link : /\ outQ[l] \in Seq(Picture)
                        /\ outQ[l] \o NewOutputs(n) # <<>>
    <3> SUFFICES ASSUME NEW l \in Link
                 PROVE  outQ[l] \in Seq(Picture) /\ outQ[l] \o NewOutputs(n) # <<>>
      OBVIOUS
    <3>1. outQ[l] \in Seq(Picture)
      BY <1>01
    <3>2. Len(outQ[l] \o NewOutputs(n)) = Len(outQ[l]) + Len(NewOutputs(n)) /\ Len(outQ[l]) \in Nat
      BY <2>3, <3>1
    <3>3. Len(outQ[l] \o NewOutputs(n)) # 0
      BY <2>3, <3>2
    <3>4. QED
      BY <3>1, <3>3
  <2>5. ASSUME getOutputImage(n), mInputFrameNum[n] = 0
        PROVE  \A l \in Sinks(n) : outQ'[l] # <<>>
    <3>1. needGetOutBufferThisTime(n)
      BY <2>5 DEF needGetOutBufferThisTime
    <3>2. outQ' = [l \in Link |-> IF l \in OutLinks(n) THEN outQ[l] \o NewOutputs(n) ELSE outQ[l]]
      BY <1>03, <2>5, <3>1 DEF getOutputImage, Acquire
    <3>3. QED
      BY <1>03, <2>4, <3>2
  <2>6. ASSUME NEW l \in Sinks(n), outQ[l] # <<>> PROVE outQ'[l] # <<>>
    <3>1. outQ'[l] \in {outQ[l], outQ[l] \o NewOutputs(n)}
      BY <1>03, <1>6 DEF getOutputImage, OutputFails, Acquire
    <3>2. QED
      BY <1>03, <2>4, <2>6, <3>1
  <2>7. getOutputImage(n) \/ mInputFrameNum' = mInputFrameNum
    BY <1>6 DEF OutputFails
  <2>8. mInputFrameNum'[n] > 0 => \A l \in Sinks(n) : outQ'[l] # <<>>
    BY <1>01, <1>07, <2>1, <2>5, <2>6, <2>7 DEF Late
  <2>9. QED
    BY <1>08, <2>1, <2>8 DEF Late
<1>7. ASSUME PluginReturns(n) \/ PluginFails(n) PROVE SinkInv(n)'
  <2>1. /\ pc[n] = "plugin" /\ pc'[n] \in {"frameIn", "erase"}
        /\ UNCHANGED <<mSinkNumToReturn, complete, outQ, mInputFrameNum>>
    BY <1>01, <1>7 DEF PluginReturns, PluginFails
  <2>2. QED
    BY <1>09, <2>1 DEF Late
<1>8. ASSUME FrameInput(n) PROVE SinkInv(n)'
  <2>1. /\ pc[n] = "frameIn" /\ pc'[n] = "frameOut"
        /\ UNCHANGED <<mSinkNumToReturn, complete, mInputFrameNum>>
    BY <1>01, <1>03, <1>8 DEF FrameInput
  <2>2. UNCHANGED outQ
    BY <1>8 DEF FrameInput, releaseInputBuffers
  <2>3. QED
    BY <1>09, <2>1, <2>2 DEF Late
<1>9. ASSUME FrameOutput(n) PROVE SinkInv(n)'
  <2>1. pc[n] = "frameOut" /\ SigFrame(n)
    BY <1>01, <1>9 DEF FrameOutput, TaskInv
  <2>2. pc'[n] = "input" /\ UNCHANGED <<mSinkNumToReturn, complete, outQ, mInputFrameNum>>
    BY <1>01, <1>03, <1>9, <2>1 DEF FrameOutput
  <2>3. QED
    BY <1>09, <2>1, <2>2 DEF Late
<1>10. ASSUME FrameEnds(n) PROVE SinkInv(n)'
  BY <1>10 DEF FrameEnds, SinkInv, Streaming, Late
<1>11. ASSUME EraseCurrent(n) PROVE SinkInv(n)'
  <2>1. /\ pc[n] = "erase" /\ pc'[n] \in {"release", "abnormal"}
        /\ UNCHANGED <<mSinkNumToReturn, complete, outQ, mInputFrameNum>>
    BY <1>01, <1>11 DEF EraseCurrent
  <2>2. QED
    BY <1>09, <2>1 DEF Late
<1>12. ASSUME AbnormalCallback(n) \/ ReleaseInputs(n) PROVE SinkInv(n)'
  <2>1. /\ pc[n] \in {"abnormal", "release"} /\ pc'[n] = "links"
        /\ UNCHANGED <<mSinkNumToReturn, complete, mInputFrameNum, mCurrentProcessNodes>>
        /\ todo'[n] = Sinks(n) \/ todo'[n] = OutLinks(n)
    BY <1>01, <1>12 DEF AbnormalCallback, ReleaseInputs, Sinks
  <2>2. UNCHANGED outQ
    BY <1>12 DEF AbnormalCallback, ReleaseInputs, releaseInputBuffers
  <2>3. {l \in todo'[n] : IsSink(l)} = Sinks(n)
    BY <2>1 DEF Sinks
  <2>4. Leaving(n)' /\ ~Streaming(n)'
    BY <1>06, <2>1 DEF Leaving, Streaming, Late
  <2>5. Left(n)' = Sinks(n)
    BY <2>3, <2>4 DEF Left
  <2>6. /\ complete' = 0 /\ mSinkNumToReturn' = Cardinality(Sinks(n))
        /\ mInputFrameNum'[n] > 0 => \A l \in Sinks(n) : outQ'[l] # <<>>
    BY <1>07, <2>1, <2>2 DEF Late
  <2>7. Cardinality(Sinks(n)) \in Nat
    BY <1>03, FS_CardinalityType
  <2>8. QED
    BY <1>04, <2>1, <2>4, <2>5, <2>6, <2>7 DEF SinkInv
<1>13. ASSUME pc[n] \in Late
       PROVE  /\ Leaving(n) /\ Left(n) = {l \in todo[n] : IsSink(l)}
              /\ Left(n) \subseteq Sinks(n) /\ IsFiniteSet(Left(n))
              /\ Cardinality(Left(n)) \in Nat
  <2>1. Leaving(n)
    BY <1>13 DEF SinkInv, Streaming, Leaving
  <2>2. Left(n) = {l \in todo[n] : IsSink(l)} /\ todo[n] \subseteq OutLinks(n)
    BY <1>01, <1>13, <2>1 DEF Left, TaskInv, Late
  <2>3. Left(n) \subseteq Sinks(n)
    BY <2>2 DEF Sinks
  <2>4. QED
    BY <1>03, <2>1, <2>2, <2>3, FS_Subset, FS_CardinalityType
<1>14. ASSUME NEW l \in Link, releaseOutBuffers(n, l) PROVE SinkInv(n)'
  <2>1. /\ pc[n] = "links" /\ UNCHANGED <<pc, ok, mInputFrameNum, mCurrentProcessNodes>>
        /\ UNCHANGED <<mSinkNumToReturn, complete>>
        /\ todo'[n] = todo[n] \ {l} /\ ~IsSink(l)
        /\ \A k \in Link : k # l => outQ'[k] = outQ[k]
    BY <1>01, <1>14 DEF releaseOutBuffers
  <2>2. Leaving(n)' /\ ~Streaming(n)'
    BY <1>13, <2>1 DEF Leaving, Streaming, Late
  <2>3. Left(n)' = Left(n)
    BY <1>13, <2>1, <2>2 DEF Left, Late
  <2>4. \A k \in Sinks(n) : outQ'[k] = outQ[k]
    BY <1>03, <2>1
  <2>5. Left(n) \subseteq Sinks(n)
    BY <1>13, <2>1 DEF Late
  <2>6. QED
    BY <1>04, <2>1, <2>2, <2>3, <2>4, <2>5 DEF SinkInv, Active
<1>15. ASSUME NEW l \in Link, SinkRead(n, l) PROVE SinkInv(n)'
  <2>1. /\ pc[n] = "links" /\ pc'[n] = "sinkWrite" /\ sink'[n][2] = mSinkNumToReturn
        /\ UNCHANGED <<ok, mInputFrameNum, mCurrentProcessNodes, todo, outQ>>
        /\ UNCHANGED <<mSinkNumToReturn, complete>>
    BY <1>01, <1>15 DEF SinkRead
  <2>2. Leaving(n)' /\ ~Streaming(n)'
    BY <1>13, <2>1 DEF Leaving, Streaming, Late
  <2>3. Left(n)' = Left(n)
    BY <1>13, <2>1, <2>2 DEF Left, Late
  <2>4. QED
    BY <1>02, <1>04, <2>1, <2>2, <2>3 DEF SinkInv
<1>16. ASSUME SinkWrite(n) PROVE SinkInv(n)'
  <2>1. /\ pc[n] = "sinkWrite" /\ pc'[n] = "sinkRelease"
        /\ mSinkNumToReturn' = sink[n][2] - 1 /\ complete' = complete
        /\ UNCHANGED <<ok, mInputFrameNum, mCurrentProcessNodes, todo, outQ>>
    BY <1>01, <1>16 DEF SinkWrite
  <2>2. Leaving(n)' /\ ~Streaming(n)'
    BY <1>13, <2>1 DEF Leaving, Streaming, Late
  <2>3. Left(n)' = Left(n)
    BY <1>13, <2>1, <2>2 DEF Left, Late
  <2>4. mSinkNumToReturn' = Cardinality(Left(n)) - 1
    BY <1>13, <2>1 DEF SinkInv, Late
  <2>5. QED
    BY <1>02, <1>04, <2>1, <2>2, <2>3, <2>4 DEF SinkInv
<1>17. ASSUME SinkRelease(n) PROVE SinkInv(n)'
  <2> DEFINE l == sink[n][1]
  <2>1. /\ pc[n] = "sinkRelease" /\ pc'[n] = "links"
        /\ UNCHANGED <<mSinkNumToReturn, ok, mInputFrameNum, mCurrentProcessNodes>>
        /\ todo'[n] = todo[n] \ {l}
        /\ complete' = complete + IF mSinkNumToReturn = 0 /\ outQ[l] # <<>> THEN 1 ELSE 0
    BY <1>01, <1>17 DEF SinkRelease, LastSink
  <2>2. l \in todo[n] /\ IsSink(l)
    BY <1>01, <2>1 DEF TaskInv
  <2>3. Leaving(n)' /\ ~Streaming(n)' /\ Leaving(n)
    BY <1>13, <2>1 DEF Leaving, Streaming, Late
  <2>4. l \in Left(n) /\ Left(n)' = Left(n) \ {l} /\ l \in Sinks(n)
    BY <1>13, <2>1, <2>2, <2>3 DEF Left, Late
  <2>5. outQ'[l] = <<>> /\ \A k \in Link : k # l => outQ'[k] = outQ[k]
    BY <1>01, <1>03, <1>17, <2>4 DEF SinkRelease
  <2> HIDE DEF l
  <2>6. /\ Cardinality(Left(n)') = Cardinality(Left(n)) - 1
        /\ Cardinality(Left(n)) \in Nat /\ IsFiniteSet(Left(n)')
    BY <1>13, <2>1, <2>4, FS_RemoveElement DEF Late
  <2>7. mSinkNumToReturn' = Cardinality(Left(n)')
    BY <2>1, <2>6 DEF SinkInv
  <2>8. Left(n)' = {} <=> mSinkNumToReturn = 0
    BY <2>1, <2>6, <2>7, FS_EmptySet
  <2>9. complete = 0
    BY <2>4 DEF SinkInv
  <2>10. complete' = 0 \/ (complete' = 1 /\ Left(n)' = {})
    BY <2>1, <2>8, <2>9
  <2>11. ASSUME ok'[n], Left(n)' = {} PROVE complete' = 1
    <3>1. ok[n] /\ mInputFrameNum[n] > 0
      BY <1>01, <2>1, <2>3, <2>11 DEF TaskInv, Worked
    <3>2. outQ[l] # <<>>
      BY <1>02, <2>4, <3>1 DEF SinkInv
    <3>3. QED
      BY <2>1, <2>8, <2>9, <2>11, <3>2
  <2>12. \A k \in Sinks(n) : k \notin Left(n)' => outQ'[k] = <<>>
    BY <1>03, <2>4, <2>5 DEF SinkInv
  <2>13. Active(n)' /\ mInputFrameNum'[n] > 0 => \A k \in Left(n)' : outQ'[k] # <<>>
    <3>1. Left(n) \subseteq Link
      BY <1>03, <1>13, <2>1 DEF Late
    <3>2. QED
      BY <1>02, <2>1, <2>4, <2>5, <3>1 DEF SinkInv
  <2>14. QED
    BY <1>04, <2>1, <2>3, <2>6, <2>7, <2>10, <2>11, <2>12, <2>13 DEF SinkInv
<1>18. ASSUME NodeEnds(n) PROVE SinkInv(n)'
  <2>1. /\ pc[n] = "links" /\ pc'[n] = "done" /\ todo[n] = {}
        /\ UNCHANGED <<mSinkNumToReturn, complete, ok, outQ>>
    BY <1>01, <1>18 DEF NodeEnds, EndRequest
  <2>2. Left(n) = {} /\ Left(n)' = {} /\ ~Streaming(n)' /\ ~Active(n)'
    BY <1>13, <2>1 DEF Left, Leaving, Streaming, Late, Active
  <2>3. QED
    BY <1>04, <2>1, <2>2 DEF SinkInv
<1> HIDE DEF At, Goto, Fail, notNode, given, schedVars, clientVars, resultVars, queueVars,
             sourceVars, linkVars
<1>19. QED
  BY <1>1, <1>2, <1>3, <1>4, <1>5, <1>6, <1>7, <1>8, <1>9, <1>10, <1>11, <1>12, <1>14,
     <1>15, <1>16, <1>17, <1>18 DEF NodeStep

\* What is known of the sinks of a node that does not step.
LEMMA SinkKept ==
  ASSUME NEW n \in Node, SinkInv(n), graph' = graph,
         pc'[n] = pc[n], ok'[n] = ok[n], todo'[n] = todo[n], sink'[n] = sink[n],
         mInputFrameNum'[n] = mInputFrameNum[n],
         n \in mCurrentProcessNodes' <=> n \in mCurrentProcessNodes,
         UNCHANGED <<mSinkNumToReturn, complete>>,
         \A l \in OutLinks(n) : outQ'[l] = outQ[l],
         Left(n) \subseteq OutLinks(n)
  PROVE  SinkInv(n)'
<1>1. OutLinks(n)' = OutLinks(n)
  BY SameGraph
<1>2. Sinks(n)' = Sinks(n) /\ Sinks(n) \subseteq OutLinks(n)
  BY <1>1 DEF Sinks
<1>3. Left(n)' = Left(n)
  BY <1>2 DEF Left, Leaving
<1>4. QED
  BY <1>2, <1>3 DEF SinkInv, Streaming, Active

\* What is known of the sinks of a node whose task has not begun or is over.
LEMMA SinkIdle ==
  ASSUME NEW n \in Node, SinkInv(n), graph' = graph,
         pc[n] \in {"none", "done"}, pc'[n] = pc[n] \/ (pc[n] = "none" /\ pc'[n] = "input"),
         ok'[n] = ok[n], mInputFrameNum'[n] = mInputFrameNum[n],
         pc[n] = "none" => mInputFrameNum[n] = 0,
         UNCHANGED <<mSinkNumToReturn, complete>>,
         \A l \in Sinks(n) : outQ'[l] = outQ[l] \/ outQ'[l] = <<>>
  PROVE  SinkInv(n)'
<1>1. OutLinks(n)' = OutLinks(n)
  BY SameGraph
<1>2. Sinks(n)' = Sinks(n)
  BY <1>1 DEF Sinks
<1>3. Left(n)' = Left(n)
  BY <1>2 DEF Left, Leaving, Late
<1>4. /\ ~Streaming(n)' /\ pc'[n] \notin {"sinkWrite", "sinkRelease"}
      /\ pc[n] \notin {"sinkWrite", "sinkRelease"}
      /\ ~(Active(n)' /\ mInputFrameNum'[n] > 0)
  BY DEF Streaming, Active, Late
<1>5. QED
  BY <1>2, <1>3, <1>4 DEF SinkInv

\* Every step keeps what is known of the node before the sinks.
LEMMA EndStep ==
  ASSUME GraphsComplete, GraphsFlow, FlowInv, EndInv, [Next]_vars
  PROVE  EndInv'
<1>0. /\ graph \in Graphs \cup {NoGraph} /\ NoGraph \notin Graphs
      /\ pc \in [Node -> NodeState]
      /\ \A m \in Node : TaskInv(m)
  BY PipelineAssumption DEF FlowInv, IInv, TypeInv
<1>00. ASSUME graph \in Graphs, NEW m \in Node
       PROVE  /\ Left(m) \subseteq OutLinks(m) /\ OutLinks(m) \subseteq Link
              /\ \A l \in OutLinks(m) : l[1] = m
  <2>1. OutLinks(m) \subseteq Link /\ \A l \in OutLinks(m) : l[1] = m
    BY <1>00, LinksOfNodes
  <2>2. TaskInv(m)
    BY <1>0
  <2>3. QED
    BY <2>1, <2>2 DEF Left, Sinks, TaskInv, Leaving, Late
<1>1. ASSUME NEW n \in Node, NodeStep(n) PROVE EndInv'
  <2>1. Frame(n) /\ graph \in Graphs /\ graph' = graph
    BY <1>1, NodeFrame, NodeMoves DEF FlowInv, IInv, NodeMove, Frame
  <2> SUFFICES ASSUME NEW m \in Node, Sinks(m) # {} PROVE SinkInv(m)'
    <3>1. \A m \in Node : Sinks(m)' = Sinks(m)
      BY <2>1, SameGraph DEF Sinks
    <3>2. QED
      BY <1>0, <2>1, <3>1 DEF EndInv
  <2>2. SinkInv(m)
    BY <1>0, <2>1 DEF EndInv
  <2>3. CASE m = n
    BY <1>1, <2>2, <2>3, SinkOwnStep
  <2>4. CASE m # n
    <3>1. Sinks(n) = {}
      BY <2>1, <2>4, OneEnd
    <3>2. UNCHANGED <<mSinkNumToReturn, complete>>
      BY <1>1, <3>1, SinkCounter
    <3>3. /\ pc'[m] = pc[m] /\ ok'[m] = ok[m] /\ todo'[m] = todo[m] /\ sink'[m] = sink[m]
          /\ mInputFrameNum'[m] = mInputFrameNum[m]
          /\ m \in mCurrentProcessNodes' <=> m \in mCurrentProcessNodes
          /\ \A l \in OutLinks(m) : outQ'[l] = outQ[l]
      BY <1>00, <2>1, <2>4 DEF Frame
    <3>4. QED
      BY <1>00, <2>1, <2>2, <3>2, <3>3, SinkKept
  <2>5. QED
    BY <2>3, <2>4
<1>2. ASSUME NEW g \in Graphs, rebuildLinks(g) PROVE EndInv'
  <2>1. /\ graph' = g /\ graph = NoGraph /\ \A m \in Node : pc'[m] = "none"
        /\ mSinkNumToReturn' = Cardinality({l \in g.links : IsSink(l)})
        /\ complete' = complete
    BY <1>2, Building DEF rebuildLinks, resultVars
  <2>2. complete' = 0
    BY <2>1 DEF EndInv
  <2>3. EndsInOneNode(g) /\ IsFiniteSet(g.links)
    BY LinksOfAGraph DEF GraphsComplete, Completes
  <2>4. ASSUME NEW m \in Node, Sinks(m)' # {} PROVE SinkInv(m)'
    <3>1. Sinks(m)' = {l \in g.links : l[1] = m /\ IsSink(l)}
      BY <2>1 DEF Sinks, OutLinks
    <3>2. Sinks(m)' = {l \in g.links : IsSink(l)}
      BY <2>3, <2>4, <3>1 DEF EndsInOneNode
    <3>3. /\ Left(m)' = Sinks(m)' /\ ~Streaming(m)' /\ ~Active(m)'
          /\ pc'[m] \notin {"sinkWrite", "sinkRelease"}
      BY <2>1 DEF Left, Leaving, Streaming, Active, Late
    <3>4. Cardinality(Sinks(m)') \in Nat
      <4>1. Sinks(m)' \subseteq g.links
        BY <3>1
      <4>2. QED
        BY <2>3, <4>1, FS_Subset, FS_CardinalityType
    <3>5. mSinkNumToReturn' = Cardinality(Left(m)')
      BY <2>1, <3>2, <3>3
    <3>6. QED
      BY <2>2, <2>4, <3>3, <3>4, <3>5 DEF SinkInv
  <2>5. QED
    BY <1>0, <2>1, <2>4 DEF EndInv
<1>3. ASSUME graph' = graph, UNCHANGED <<mSinkNumToReturn, complete>>,
             \A m \in Node : Sinks(m) # {} /\ SinkInv(m) /\ graph \in Graphs => SinkInv(m)'
      PROVE  EndInv'
  <2>1. \A m \in Node : Sinks(m)' = Sinks(m)
    BY <1>3, SameGraph DEF Sinks
  <2>2. QED
    BY <1>0, <1>3, <2>1 DEF EndInv
<1>4. CASE PopNode
  <2>1. UNCHANGED <<mSinkNumToReturn, complete>>
    BY <1>4 DEF PopNode, resultVars
  <2>2. ASSUME NEW m \in Node, SinkInv(m), graph \in Graphs PROVE SinkInv(m)'
    <3>1. CASE m = Head(mRunSequence)
      <4>1. pc[m] = "none" /\ mInputFrameNum[m] = 0
        BY <1>0, <1>4, <3>1, Dispatching DEF TaskInv
      <4>2. QED
        BY <1>4, <2>1, <2>2, <4>1, Dispatching, SinkIdle
    <3>2. CASE m # Head(mRunSequence)
      BY <1>00, <1>4, <2>1, <2>2, <3>2, Dispatching, SinkKept
    <3>3. QED
      BY <3>1, <3>2
  <2>3. QED
    BY <1>3, <1>4, <2>1, <2>2, Dispatching
<1>5. CASE postProcess
  <2>1. UNCHANGED <<mSinkNumToReturn, complete>>
    BY <1>5 DEF postProcess, resultVars
  <2>2. ASSUME NEW m \in Node, SinkInv(m), graph \in Graphs PROVE SinkInv(m)'
    <3>1. CASE m = serving
      <4>1. /\ pc[m] = "none" /\ mInputFrameNum[m] = 0
            /\ pc'[m] = pc[m] \/ pc'[m] = "input"
        BY <1>0, <1>5, <3>1, Starting DEF TaskInv
      <4>2. QED
        BY <1>5, <2>1, <2>2, <4>1, Starting, SinkIdle
    <3>2. CASE m # serving
      <4>1. pc'[m] = pc[m]
        BY <1>0, <1>5, <3>2, Starting
      <4>2. QED
        BY <1>00, <1>5, <2>1, <2>2, <4>1, Starting, SinkKept
    <3>3. QED
      BY <3>1, <3>2
  <2>3. QED
    BY <1>3, <1>5, <2>1, <2>2, Starting
<1>6. CASE releaseUnusedBuffer
  <2>1. UNCHANGED <<mSinkNumToReturn, complete>> /\ outQ' = [l \in Link |-> <<>>]
    BY <1>6 DEF releaseUnusedBuffer, resultVars
  <2>2. ASSUME NEW m \in Node, SinkInv(m), graph \in Graphs PROVE SinkInv(m)'
    <3>1. /\ pc[m] \in {"none", "done"}
          /\ pc[m] = "none" => mInputFrameNum[m] = 0
      BY <1>0, <1>6, Ending DEF TaskInv, Active
    <3>2. \A l \in Sinks(m) : outQ'[l] = <<>>
      BY <1>00, <2>1, <2>2 DEF Sinks
    <3>3. QED
      BY <1>6, <2>1, <2>2, <3>1, <3>2, Ending, SinkIdle
  <2>3. QED
    BY <1>3, <1>6, <2>1, <2>2, Ending
<1>7. CASE Calm
  <2>1. /\ UNCHANGED <<mSinkNumToReturn, complete, graph>>
        /\ \A m \in Node :
            /\ pc'[m] = pc[m] /\ ok'[m] = ok[m] /\ todo'[m] = todo[m] /\ sink'[m] = sink[m]
            /\ mInputFrameNum'[m] = mInputFrameNum[m]
            /\ m \in mCurrentProcessNodes' <=> m \in mCurrentProcessNodes
            /\ \A l \in OutLinks(m) : outQ'[l] = outQ[l]
    BY <1>7 DEF Calm, flow
  <2>2. ASSUME NEW m \in Node, SinkInv(m), graph \in Graphs PROVE SinkInv(m)'
    BY <1>00, <2>1, <2>2, SinkKept
  <2>3. QED
    BY <1>3, <2>1, <2>2
<1>8. QED
  BY <1>1, <1>2, <1>4, <1>5, <1>6, <1>7, Steps

(* ------------------------------ readiness -------------------------------- *)

\* The sequence made of a finite set has all of its elements.
LEMMA SetToSeqAll ==
  ASSUME NEW S, IsFiniteSet(S)
  PROVE  S \subseteq Elems(SetToSeq(S))
<1> DEFINE D == 1 .. Cardinality(S)
<1>1. Cardinality(S) \in Nat /\ ExistsBijection(D, S)
  BY FS_CardinalityType
<1>2. \E f \in [D -> S] : IsInjective(f)
  BY <1>1, Zenon DEF ExistsBijection, Bijection, Injection
<1>3. SetToSeq(S) \in [D -> S] /\ IsInjective(SetToSeq(S))
  BY <1>2, Zenon DEF SetToSeq
<1>4. Cardinality(D) = Cardinality(S)
  <2>1. Cardinality(D) = IF 1 > Cardinality(S) THEN 0 ELSE Cardinality(S) - 1 + 1
    BY <1>1, FS_Interval
  <2>2. QED
    BY <1>1, <2>1
<1>5. SetToSeq(S) \in Injection(D, S)
  BY <1>3, Zenon DEF Injection
<1>6. SetToSeq(S) \in Surjection(D, S)
  BY <1>4, <1>5, FS_Injection
<1>7. \A x \in S : \E i \in D : SetToSeq(S)[i] = x
  BY <1>6, Zenon DEF Surjection
<1>8. Len(SetToSeq(S)) = Cardinality(S)
  BY <1>1, <1>3
<1>9. QED
  BY <1>7, <1>8 DEF Elems

\* Nobody leaves the sequence by a notification, and who has no input to wait for joins it.
LEMMA Readied ==
  ASSUME IInv, Schedules
  PROVE  /\ Elems(mRunSequence) \subseteq Elems(mRunSequence')
         /\ \A m \in Node : mDependenceNum'[m] <= 0 =>
              mDependenceNum[m] <= 0 \/ m \in Elems(mRunSequence')
<1>0. /\ mRunSequence \in Seq(Node) /\ mDependenceNum \in [Node -> Int]
      /\ Distinct(mRunSequence)
      /\ \A m \in Elems(mRunSequence) : mDependenceNum[m] <= 0
  BY DEF IInv, TypeInv, DispatchInv
<1>1. CASE UNCHANGED <<mDependenceNum, mRunSequence>>
  BY <1>1
<1>2. ASSUME NEW S \in SUBSET Node, Notifies(S)
      PROVE  /\ Elems(mRunSequence) \subseteq Elems(mRunSequence')
             /\ \A m \in Node : mDependenceNum'[m] <= 0 =>
                  mDependenceNum[m] <= 0 \/ m \in Elems(mRunSequence')
  <2> DEFINE ready == {m \in S : mDependenceNum[m] = 1}
             new == SetToSeq(ready)
  <2>1. /\ mDependenceNum' = [m \in Node |-> mDependenceNum[m] - IF m \in S THEN 1 ELSE 0]
        /\ mRunSequence' = mRunSequence \o new
    BY <1>2 DEF Notifies
  <2>2. ready \in SUBSET Node /\ IsFiniteSet(ready)
    BY PipelineAssumption, FS_Subset
  <2>3. new \in Seq(ready) /\ Elems(new) \subseteq ready /\ Distinct(new)
    BY <2>2, SetToSeqDistinct
  <2>4. ready \subseteq Elems(new)
    BY <2>2, SetToSeqAll
  <2>5. Elems(mRunSequence) \cap Elems(new) = {}
    BY <1>0, <2>3
  <2>6. new \in Seq(Node)
    <3> HIDE DEF new
    <3>1. QED
      BY <2>2, <2>3
  <2>7. Elems(mRunSequence') = Elems(mRunSequence) \cup Elems(new)
    <3> HIDE DEF new
    <3>1. QED
      BY <1>0, <2>1, <2>3, <2>5, <2>6, ConcatDistinct
  <2>8. ASSUME NEW m \in Node, mDependenceNum'[m] <= 0, ~(mDependenceNum[m] <= 0)
        PROVE  m \in ready
    <3>1. mDependenceNum[m] \in Int
      BY <1>0
    <3>2. QED
      BY <2>1, <2>8, <3>1
  <2> HIDE DEF new, ready
  <2>9. QED
    BY <2>4, <2>7, <2>8
<1>3. QED
  BY <1>1, <1>2 DEF Schedules

\* Every step keeps it that a node without inputs to wait for is ready.
LEMMA ReadyStep ==
  ASSUME FlowInv, ReadyInv, [Next]_vars
  PROVE  ReadyInv'
<1>0. /\ graph \in Graphs \cup {NoGraph} /\ NoGraph \notin Graphs
      /\ pc \in [Node -> NodeState]
  BY PipelineAssumption DEF FlowInv, IInv, TypeInv
<1>1. ASSUME graph \in Graphs PROVE Consumers(graph) \subseteq Node
  BY <1>1, LinksOfAGraph DEF Consumers
<1>2. ASSUME graph' = graph,
             \A m \in Node : Started(m) => Started(m)',
             \A m \in Node : mDependenceNum'[m] <= 0 => mDependenceNum[m] <= 0 \/ Started(m)',
             Over' => mRunSequence' = <<>>
      PROVE  ReadyInv'
  <2>1. TopologyError(graph)' <=> TopologyError(graph)
    BY <1>2, SameGraph
  <2>2. Consumers(graph)' = Consumers(graph)
    BY <1>2
  <2>3. QED
    BY <1>0, <1>1, <1>2, <2>1, <2>2 DEF ReadyInv
<1>3. ASSUME NEW n \in Node, NodeStep(n) PROVE ReadyInv'
  <2>1. NodeMove(n) /\ Frame(n) /\ Active(n)
    BY <1>3, NodeMoves, NodeFrame DEF FlowInv, IInv, NodeMove
  <2>2. /\ Elems(mRunSequence) \subseteq Elems(mRunSequence')
        /\ \A m \in Node : mDependenceNum'[m] <= 0 =>
             mDependenceNum[m] <= 0 \/ m \in Elems(mRunSequence')
    BY <2>1, Readied DEF FlowInv, NodeMove
  <2>3. /\ UNCHANGED serving /\ (mpc = "dispatch" => mpc' = "dispatch")
        /\ mpc' \in {mpc, "awake"}
    BY <2>1 DEF NodeMove, Notified, Waiting
  <2>4. pc'[n] # "none"
    BY <1>0, <2>1 DEF NodeMove, Works, Passes, Goes, EraseCurrent, AbnormalCallback, NodeEnds,
       EndRequest, Goto, Early, Late
  <2>5. \A m \in Node : pc[m] # "none" => pc'[m] # "none"
    BY <2>1, <2>4 DEF Frame
  <2>6. ~Over /\ ~Over'
    BY <2>1, <2>3, NobodyLeft DEF FlowInv, Over
  <2>7. \A m \in Node : Started(m) => Started(m)'
    BY <2>2, <2>3, <2>5 DEF Started
  <2>8. \A m \in Node : m \in Elems(mRunSequence') => Started(m)'
    BY DEF Started
  <2>9. graph' = graph
    BY <2>1 DEF NodeMove
  <2>10. QED
    BY <1>2, <2>2, <2>6, <2>7, <2>8, <2>9
<1>4. ASSUME NEW g \in Graphs, rebuildLinks(g) PROVE ReadyInv'
  <2>1. /\ graph' = g /\ graph = NoGraph
        /\ mDependenceNum' = [n \in Node |-> Cardinality(InternalInputs(g, n))]
    BY <1>4, Building
  <2> DEFINE first == {n \in SourceNodes(g) : InternalInputs(g, n) = {}}
  <2>2. /\ TopologyError(g) => mRunSequence' = mRunSequence
        /\ ~TopologyError(g) => mRunSequence' = SetToSeq(first) /\ mpc' = "loop"
    BY <1>4 DEF rebuildLinks
  <2>3. mRunSequence = <<>>
    BY <2>1 DEF FlowInv, IInv, FreshInv
  <2>4. IsFiniteSet(first)
    BY FirstNodes
  <2>5. first \subseteq Elems(SetToSeq(first))
    <3> HIDE DEF first
    <3>1. QED
      BY <2>4, SetToSeqAll
  <2>6. ASSUME NEW m \in Consumers(g), mDependenceNum'[m] <= 0 PROVE m \in first
    <3>1. PICK l \in g.links : ~IsSink(l) /\ l[2] = m
      BY DEF Consumers
    <3>2. m \in Node
      BY <3>1, LinksOfAGraph
    <3>3. InternalInputs(g, m) \subseteq g.links
      BY DEF InternalInputs
    <3>4. IsFiniteSet(InternalInputs(g, m))
      BY <3>3, LinksOfAGraph, FS_Subset
    <3>5. Cardinality(InternalInputs(g, m)) \in Nat /\ Cardinality(InternalInputs(g, m)) <= 0
      BY <2>1, <2>6, <3>2, <3>4, FS_CardinalityType
    <3>6. InternalInputs(g, m) = {}
      BY <3>4, <3>5, FS_EmptySet
    <3>7. IsSource(l)
      BY <3>1, <3>6, PipelineAssumption DEF InternalInputs, IsSource, IsSink
    <3>8. m \in SourceNodes(g)
      BY <3>1, <3>7 DEF SourceNodes
    <3>9. QED
      BY <3>6, <3>8
  <2>7. Over' => mRunSequence' = <<>>
    BY <2>2, <2>3 DEF Over
  <2>8. TopologyError(graph)' <=> TopologyError(g)
    BY <2>1
  <2>9. Consumers(graph)' = Consumers(g)
    BY <2>1
  <2> HIDE DEF first
  <2>10. QED
    BY <2>1, <2>2, <2>5, <2>6, <2>7, <2>8, <2>9 DEF ReadyInv, Started
<1>5. CASE PopNode
  <2>1. mRunSequence \in Seq(Node) /\ mRunSequence # <<>> /\ Distinct(mRunSequence)
    BY <1>5 DEF PopNode, FlowInv, IInv, TypeInv, DispatchInv
  <2>2. Elems(mRunSequence') = Elems(mRunSequence) \ {Head(mRunSequence)}
    BY <1>5, <2>1, TailDistinct DEF PopNode
  <2>3. /\ mpc = "loop" /\ mpc' = "dispatch" /\ serving' = Head(mRunSequence)
        /\ UNCHANGED <<graph, pc, mDependenceNum>>
    BY <1>5, Dispatching DEF PopNode
  <2>4. \A m \in Node : Started(m) => Started(m)'
    BY <2>2, <2>3 DEF Started
  <2>5. ~Over'
    BY <2>3 DEF Over
  <2>6. QED
    BY <1>2, <2>3, <2>4, <2>5
<1>6. CASE postProcess
  <2>1. \A m \in Node : Started(m) => Started(m)'
    BY <1>0, <1>6, Starting DEF Started
  <2>2. QED
    BY <1>2, <1>6, <2>1, Starting
<1>7. CASE releaseUnusedBuffer
  <2>1. \A m \in Node : Started(m) => Started(m)'
    BY <1>7, Ending DEF Started, releaseUnusedBuffer
  <2>2. mRunSequence' = <<>>
    BY <1>7, Ending DEF ReadyInv
  <2>3. QED
    BY <1>2, <1>7, <2>1, <2>2, Ending
<1>8. CASE Calm
  <2>1. UNCHANGED <<graph, mDependenceNum, mRunSequence, pc>>
    BY <1>8 DEF Calm, flow
  <2>2. \A m \in Node : Started(m) => Started(m)'
    BY <1>8, <2>1 DEF Started, Calm
  <2>3. Over' => mRunSequence = <<>>
    <3>1. mpc \in {"start", "rebuild"} => mRunSequence = <<>>
      BY DEF FlowInv, IInv, FreshInv
    <3>2. QED
      BY <1>8, <3>1 DEF Calm, ReadyInv
  <2>4. QED
    BY <1>2, <2>1, <2>2, <2>3
<1>9. QED
  BY <1>3, <1>4, <1>5, <1>6, <1>7, <1>8, Steps

(* ------------------------------- deliveries ------------------------------ *)

\* Every step keeps it that a node waits for no more inputs than are to come.
LEMMA OwedStep ==
  ASSUME FlowInv, OwedInv, [Next]_vars
  PROVE  OwedInv'
<1>0. /\ graph \in Graphs \cup {NoGraph} /\ NoGraph \notin Graphs
      /\ mDependenceNum \in [Node -> Int] /\ pc \in [Node -> NodeState]
      /\ mHasProcessError \in BOOLEAN
  BY PipelineAssumption DEF FlowInv, IInv, TypeInv
<1>1. ASSUME NEW n \in Node, NodeStep(n) PROVE OwedInv'
  <2>1. NodeMove(n) /\ graph \in Graphs /\ graph' = graph
    BY <1>1, NodeMoves DEF FlowInv, IInv, NodeMove
  <2>2. ~mHasProcessError' => ~mHasProcessError
    BY <2>1 DEF NodeMove, Works, Passes, EraseCurrent, AbnormalCallback, NodeEnds, EndRequest,
       schedVars
  <2> SUFFICES ASSUME ~mHasProcessError, NEW m \in Node
               PROVE  mDependenceNum'[m] <= Cardinality(Pending(m)')
    BY <2>2 DEF OwedInv
  <2>3. InternalInputs(graph, m)' = InternalInputs(graph, m)
    BY <2>1, SameGraph
  <2>4. /\ IsFiniteSet(Pending(m)) /\ Cardinality(Pending(m)) \in Nat
        /\ mDependenceNum[m] \in Int /\ mDependenceNum[m] <= Cardinality(Pending(m))
    BY <1>0, <2>1, PendingFinite DEF OwedInv
  <2>5. mDependenceNum'[m] <= mDependenceNum[m] /\ mDependenceNum'[m] \in Int
    BY <2>1, ScheduleStep DEF NodeMove, FlowInv, IInv
  <2>6. ASSUME NEW l \in InternalInputs(graph, m)
        PROVE  /\ Delivered(l) => Delivered(l)'
               /\ Delivered(l)' /\ ~Delivered(l) =>
                    releaseOutBuffers(n, l) /\ n \notin mCurrentProcessNodes
    <3>1. l \in Link /\ l[1] \in Node /\ ~IsSink(l) /\ l \in OutLinks(l[1])
      BY <2>1, PendingFinite
    <3>2. QED
      BY <1>1, <3>1, Delivering
  <2>7. CASE \A l \in Pending(m) : ~Delivered(l)'
    <3>1. Pending(m)' = Pending(m)
      BY <2>3, <2>6, <2>7 DEF Pending
    <3>2. QED
      BY <2>4, <2>5, <3>1
  <2>8. ASSUME NEW l \in Pending(m), Delivered(l)'
        PROVE  mDependenceNum'[m] <= Cardinality(Pending(m)')
    <3>1. l \in InternalInputs(graph, m) /\ ~Delivered(l)
      BY DEF Pending
    <3>2. releaseOutBuffers(n, l) /\ n \notin mCurrentProcessNodes
      BY <2>6, <2>8, <3>1
    <3>3. l[2] = m /\ todo \in [Node -> SUBSET Link]
      BY <2>1, <3>1, PendingFinite DEF FlowInv, DataType
    <3>4. l \in todo[n] /\ todo'[n] = todo[n] \ {l}
      BY <3>2, <3>3 DEF releaseOutBuffers
    <3>5. ASSUME NEW k \in InternalInputs(graph, m), Delivered(k)', ~Delivered(k) PROVE k = l
      <4>1. releaseOutBuffers(n, k)
        BY <2>6, <3>5
      <4>2. k \in todo[n] /\ todo'[n] = todo[n] \ {k}
        BY <3>3, <4>1 DEF releaseOutBuffers
      <4>3. QED
        BY <3>4, <4>2
    <3>6. Pending(m)' = Pending(m) \ {l}
      BY <2>3, <2>6, <2>8, <3>1, <3>5 DEF Pending
    <3>7. Cardinality(Pending(m)') = Cardinality(Pending(m)) - 1
      BY <2>4, <3>6, FS_RemoveElement
    <3>8. NotifyChildren({l})
      BY <3>2 DEF releaseOutBuffers
    <3>9. mDependenceNum'[m] = mDependenceNum[m] - 1
      <4>1. m \in {k[2] : k \in {l}}
        BY <3>3
      <4>2. QED
        BY <3>8, <4>1 DEF NotifyChildren
    <3>10. QED
      BY <2>4, <3>7, <3>9
  <2>9. QED
    BY <2>7, <2>8
<1>2. ASSUME NEW g \in Graphs, rebuildLinks(g) PROVE OwedInv'
  <2>1. /\ graph' = g
        /\ mDependenceNum' = [n \in Node |-> Cardinality(InternalInputs(g, n))]
        /\ \A n \in Node : pc'[n] = "none"
    BY <1>2, Building
  <2>2. ASSUME NEW m \in Node PROVE Pending(m)' = InternalInputs(g, m)
    <3>1. InternalInputs(graph, m)' = InternalInputs(g, m)
      BY <2>1 DEF InternalInputs
    <3>2. \A l \in InternalInputs(g, m) : ~Delivered(l)'
      BY <2>1 DEF InternalInputs, Delivered, Late
    <3>3. QED
      BY <3>1, <3>2 DEF Pending
  <2>3. \A m \in Node : Cardinality(InternalInputs(g, m)) \in Int
    BY FirstNodes
  <2>4. QED
    BY <2>1, <2>2, <2>3 DEF OwedInv
<1>3. ASSUME UNCHANGED <<graph, mDependenceNum, mHasProcessError>>,
             \A l \in Link : l[1] \in Node => (Delivered(l)' <=> Delivered(l))
      PROVE  OwedInv'
  <2> SUFFICES ASSUME graph # NoGraph, ~mHasProcessError, NEW m \in Node
               PROVE  mDependenceNum[m] <= Cardinality(Pending(m)')
    BY <1>3 DEF OwedInv
  <2>1. Pending(m)' = Pending(m)
    <3>1. InternalInputs(graph, m)' = InternalInputs(graph, m)
      BY <1>3, SameGraph
    <3>2. \A l \in InternalInputs(graph, m) : l \in Link /\ l[1] \in Node
      BY <1>0, PendingFinite
    <3>3. QED
      BY <1>3, <3>1, <3>2 DEF Pending
  <2>2. QED
    BY <1>0, <2>1 DEF OwedInv
<1>4. CASE PopNode
  <2>1. \A l \in Link : l[1] \in Node => (Delivered(l)' <=> Delivered(l))
    BY <1>4, Dispatching DEF Delivered, Late
  <2>2. UNCHANGED mHasProcessError
    BY <1>4 DEF PopNode
  <2>3. QED
    BY <1>3, <1>4, <2>1, <2>2, Dispatching
<1>5. CASE postProcess
  <2>1. \A l \in Link : l[1] \in Node => (Delivered(l)' <=> Delivered(l))
    BY <1>0, <1>5, Starting DEF Delivered, Late
  <2>2. UNCHANGED mHasProcessError
    BY <1>5 DEF postProcess, schedVars
  <2>3. QED
    BY <1>3, <1>5, <2>1, <2>2, Starting
<1>6. CASE releaseUnusedBuffer
  <2>1. \A l \in Link : l[1] \in Node => (Delivered(l)' <=> Delivered(l))
    BY <1>6, Ending DEF Delivered
  <2>2. UNCHANGED mHasProcessError
    BY <1>6 DEF releaseUnusedBuffer, schedVars
  <2>3. QED
    BY <1>3, <1>6, <2>1, <2>2, Ending
<1>7. CASE Calm
  <2>1. \A l \in Link : l[1] \in Node => (Delivered(l)' <=> Delivered(l))
    BY <1>7 DEF Calm, flow, Delivered
  <2>2. QED
    BY <1>3, <1>7, <2>1 DEF Calm, flow
<1>8. QED
  BY <1>1, <1>2, <1>4, <1>5, <1>6, <1>7, Steps

\* A task that fails records it when it ends.
LEMMA DoneStep ==
  ASSUME FlowInv, DoneInv, [Next]_vars
  PROVE  DoneInv'
<1>0. pc \in [Node -> NodeState] /\ ok \in [Node -> BOOLEAN] /\ mHasProcessError \in BOOLEAN
  BY DEF FlowInv, IInv, TypeInv
<1>1. ASSUME NEW n \in Node, NodeStep(n) PROVE DoneInv'
  <2>1. NodeMove(n) /\ Frame(n)
    BY <1>1, NodeMoves, NodeFrame DEF FlowInv, IInv
  <2>2. ~mHasProcessError' => ~mHasProcessError
    BY <2>1 DEF NodeMove, Works, Passes, EraseCurrent, AbnormalCallback, NodeEnds, EndRequest,
       schedVars
  <2>3. pc'[n] = "done" /\ ~mHasProcessError' => ok'[n]
    <3>1. CASE NodeEnds(n)
      BY <1>0, <3>1 DEF NodeEnds, EndRequest
    <3>2. CASE ~NodeEnds(n)
      BY <1>0, <2>1, <3>2 DEF NodeMove, Works, Passes, Goes, EraseCurrent, AbnormalCallback,
         Goto, Early, Late
    <3>3. QED
      BY <3>1, <3>2
  <2>4. QED
    BY <2>1, <2>2, <2>3 DEF DoneInv, Frame
<1>2. ASSUME UNCHANGED <<ok, mHasProcessError>>,
             \A n \in Node : pc'[n] = "done" => pc[n] = "done"
      PROVE  DoneInv'
  BY <1>2 DEF DoneInv
<1>3. ASSUME NEW g \in Graphs, rebuildLinks(g) PROVE DoneInv'
  BY <1>2, <1>3 DEF rebuildLinks, nodeVars
<1>4. CASE PopNode
  BY <1>2, <1>4 DEF PopNode, nodeVars
<1>5. CASE postProcess
  BY <1>0, <1>2, <1>5 DEF postProcess, schedVars
<1>6. CASE releaseUnusedBuffer
  BY <1>2, <1>6 DEF releaseUnusedBuffer, nodeVars, schedVars
<1>7. CASE Calm
  BY <1>2, <1>7 DEF Calm, flow
<1>8. QED
  BY <1>1, <1>3, <1>4, <1>5, <1>6, <1>7, Steps

(* ------------------------------ completion ------------------------------- *)

\* What is known of the sinks and of readiness holds in every reachable state.
LEMMA LastInvariance ==
  ASSUME GraphsFlow, GraphsComplete
  PROVE  Spec => [](FlowInv /\ LastInv)
<1>1. Init => LastInv
  <2> SUFFICES ASSUME Init PROVE LastInv
    OBVIOUS
  <2>1. graph = NoGraph /\ NoGraph \notin Graphs
    BY PipelineAssumption DEF Init
  <2>2. EndInv /\ ReadyInv /\ OwedInv /\ DoneInv
    BY <2>1 DEF Init, EndInv, ReadyInv, OwedInv, DoneInv
  <2>3. QED
    BY <2>2 DEF LastInv
<1>2. ASSUME FlowInv, LastInv, [Next]_vars PROVE LastInv'
  BY <1>2, EndStep, ReadyStep, OwedStep, DoneStep DEF LastInv
<1>3. FlowInv /\ LastInv /\ [Next]_vars => LastInv'
  BY <1>2
<1>4. QED
  BY FlowInvariance, <1>1, <1>3, PTL DEF Spec

\* The sink images that are sent last are the last.
LEMMA NoneAfterTheLast ==
  ASSUME FlowInv, EndInv, complete > 0, NEW l \in graph.links, IsSink(l)
  PROVE  /\ outQ[l] = <<>>
         /\ pc[l[1]] \in {"links", "sinkWrite", "sinkRelease", "done"}
         /\ l[1] \notin mCurrentProcessNodes
<1>1. graph \in Graphs
  BY DEF FlowInv, IInv, TypeInv, EndInv
<1>2. l[1] \in Node
  BY <1>1, PipelineAssumption DEF IsSink
<1> DEFINE n == l[1]
<1>3. l \in Sinks(n)
  BY DEF Sinks, OutLinks
<1> HIDE DEF n
<1>4. SinkInv(n)
  BY <1>1, <1>2, <1>3, PipelineAssumption DEF EndInv, n
<1>5. Left(n) = {} /\ outQ[l] = <<>>
  BY <1>3, <1>4 DEF SinkInv
<1>6. Leaving(n) \/ pc[n] = "done"
  BY <1>3, <1>5 DEF Left
<1>7. pc[n] = "done" => n \notin mCurrentProcessNodes
  BY <1>2 DEF FlowInv, IInv, ProcessInv, n
<1>8. QED
  BY <1>5, <1>6, <1>7 DEF Leaving, Late, n

\* When a request ends without a failure every node of its graph has ended.
LEMMA AllServed ==
  ASSUME GraphsComplete, FlowInv, LastInv, Over, graph # NoGraph, ~TopologyError(graph),
         ~mHasProcessError
  PROVE  \A m \in Consumers(graph) \ Missing : m \in Node /\ pc[m] = "done"
<1>1. graph \in Graphs /\ Completes(graph)
  BY DEF FlowInv, IInv, TypeInv, GraphsComplete
<1>2. Consumers(graph) \subseteq Node
  BY <1>1, LinksOfAGraph DEF Consumers
<1>3. /\ \A m \in Node : pc[m] \in {"none", "done"}
      /\ mRunSequence = <<>> /\ mpc # "dispatch"
  <2>1. \A m \in Node : ~Active(m)
    BY NobodyLeft DEF FlowInv
  <2>2. QED
    BY <2>1 DEF LastInv, ReadyInv, Over, Active
<1> DEFINE S == {m \in Consumers(graph) \ Missing : pc[m] = "none"}
<1>4. SUFFICES S = {}
  BY <1>2, <1>3
<1>5. SUFFICES ASSUME S # {} PROVE FALSE
  OBVIOUS
<1>6. S \in SUBSET Node
  BY <1>2
<1> HIDE DEF S
<1>7. PICK m \in S : \A l \in graph.links : l[2] = m => l[1] \notin S
  BY <1>1, <1>5, <1>6 DEF Completes, Acyclic
<1>8. m \in Node /\ m \in Consumers(graph) /\ pc[m] = "none" /\ m \notin Missing
  BY <1>6 DEF S
<1>9. ~(mDependenceNum[m] <= 0)
  <2>1. ~Started(m)
    BY <1>3, <1>8 DEF Started, Elems
  <2>2. QED
    BY <1>8, <2>1 DEF LastInv, ReadyInv
<1>10. \A l \in Pending(m) : FALSE
  <2> SUFFICES ASSUME NEW l \in Pending(m) PROVE FALSE
    OBVIOUS
  <2>1. l \in graph.links /\ l[2] = m /\ l[1] \in Node /\ ~Delivered(l)
    BY DEF Pending, InternalInputs
  <2>2. l[1] \in Consumers(graph) \ Missing /\ l[1] \notin S
    BY <1>1, <1>7, <2>1 DEF Completes, ServesAll
  <2>3. pc[l[1]] = "done"
    BY <1>3, <2>1, <2>2 DEF S
  <2>4. ok[l[1]] /\ l[1] \notin mCurrentProcessNodes /\ todo[l[1]] = {}
    BY <2>1, <2>3 DEF LastInv, DoneInv, FlowInv, IInv, ProcessInv, TaskInv, Late
  <2>5. QED
    BY <2>1, <2>3, <2>4 DEF Delivered
<1>11. Cardinality(Pending(m)) = 0
  BY <1>10, FS_EmptySet
<1>12. mDependenceNum[m] <= Cardinality(Pending(m))
  BY <1>8 DEF LastInv, OwedInv
<1>13. QED
  BY <1>9, <1>11, <1>12

\* An image sent with requesetComplete is the last sink image of the request, and a request
\* that ends without a failure has sent one (releaseOutBuffers, MiaPipeline.cpp:635),
\* if all sinks hang on one node.
THEOREM LastImageSentOnce ==
  ASSUME GraphsFlow, GraphsComplete
  PROVE  Spec => []CompletionIsLast
<1>1. ASSUME FlowInv, LastInv PROVE CompletionIsLast
  <2>1. complete > 0 => \A l \in {k \in graph.links : IsSink(k)} :
          /\ outQ[l] = <<>>
          /\ pc[l[1]] \in {"links", "sinkWrite", "sinkRelease", "done"}
          /\ l[1] \notin mCurrentProcessNodes
    BY <1>1, NoneAfterTheLast DEF LastInv
  <2>2. ASSUME mpc = "idle", graph # NoGraph, ~TopologyError(graph), ~mHasProcessError
        PROVE  complete = 1
    <3>1. graph \in Graphs /\ Completes(graph)
      BY <1>1, <2>2 DEF FlowInv, IInv, TypeInv, GraphsComplete
    <3>2. PICK n \in Node : /\ \E l \in graph.links : IsSink(l)
                            /\ \A l \in graph.links : IsSink(l) => l[1] = n
      BY <3>1 DEF Completes, EndsInOneNode
    <3>3. PICK l \in graph.links : IsSink(l) /\ l[1] = n
      BY <3>2
    <3>4. n \in Consumers(graph) \ Missing
      BY <3>1, <3>3 DEF Completes, ServesAll
    <3>5. Over
      BY <2>2 DEF Over
    <3>6. pc[n] = "done"
      BY <1>1, <2>2, <3>4, <3>5, AllServed
    <3>7. ok[n] /\ Left(n) = {} /\ l \in Sinks(n)
      BY <1>1, <2>2, <3>3, <3>6 DEF LastInv, DoneInv, Left, Leaving, Late, Sinks, OutLinks
    <3>8. SinkInv(n)
      BY <1>1, <2>2, <3>7 DEF LastInv, EndInv
    <3>9. QED
      BY <3>7, <3>8 DEF SinkInv
  <2>3. QED
    BY <2>1, <2>2 DEF CompletionIsLast
<1>2. FlowInv /\ LastInv => CompletionIsLast
  BY <1>1
<1>3. QED
  BY LastInvariance, <1>2, PTL

=============================================================================
