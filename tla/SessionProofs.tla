--------------------------- MODULE SessionProofs ---------------------------
(***************************************************************************)
(* Safety of a session and of the HAL's use of it, for every set of        *)
(* requests, every number of frames and every number of node tasks.        *)
(***************************************************************************)
EXTENDS Session, FiniteSetTheorems, TLAPS

----------------------------------------------------------------------------
(* The inductive invariant of flush. *)

\* mFlushFlag keeps the worker's postProcess and flush apart.
FlagInv ==
    /\ tpc # "idle" => mFlushFlag /\ fpc = "idle" /\ cur \in Requests
    /\ fpc # "idle" => mFlushFlag
    /\ mFlushFlag => tpc # "idle" \/ fpc # "idle"

\* mBusyPipelines holds the pipelines between their creation and EraseBusy.
BusyInv ==
    \A r \in Requests :
        r \in mBusyPipelines <=> task[r] \in {"created", "queued", "running", "finish", "idle"}

\* mNodeThreadNum counts the node tasks of all requests.
NodeTaskSet == {p \in Requests \X (1..NodeTasks) : p[2] <= nodes[p[1]]}
CountInv == IsFiniteSet(NodeTaskSet) /\ mNodeThreadNum = Cardinality(NodeTaskSet)

\* What flush has waited for stays as it is.
WaitedInv ==
    /\ fpc \in {"nodes", "nodesAsleep", "returned", "destroyed"} => mBusyPipelines = {}
    /\ fpc \in {"returned", "destroyed"} => \A r \in Requests : nodes[r] = 0

\* A pipeline holds images only between its creation and releaseUnusedBuffer.
ImageInv ==
    /\ \A r \in Requests :
          /\ task[r] \in {"none", "finish", "idle", "done"} => images[r] = 0
          /\ task[r] \in {"finish", "idle", "done"} => released[r]
    /\ tpc = "setup" => task[cur] = "created"
    /\ tpc = "deliver" => task[cur] # "none"
    /\ \A n \in Names : LET p == mInputNotEnoughPipe[n].pipeline
                        IN  p \in Requests => task[p] # "none"

\* A record waits for at least one frame, and is there when that frame comes.
RecordInv ==
    /\ \A n \in Names : mInputNotEnoughPipe[n] # NoRecord => mInputNotEnoughPipe[n].frameNumNotCome > 0
    /\ tpc = "history" => Known(cur)
    /\ tpc \in {"insert", "setup", "deliver"} /\ Total[cur] # 1 => Known(cur)

IInv == TypeOK /\ FlagInv /\ RecordInv /\ BusyInv /\ CountInv /\ WaitedInv /\ ImageInv

----------------------------------------------------------------------------
(* Facts about the values that postProcess computes. *)

\* A new record, and one whose frame has come, are records that wait for a frame.
LEMMA NewRecords ==
    /\ NoRecord \in Record
    /\ \A r \in Requests : Total[r] > 1 =>
          NewRecord(r) \in Record /\ NewRecord(r).pipeline = None /\ NewRecord(r).frameNumNotCome > 0
BY SessionAssumption DEF Record, NoRecord, NewRecord

LEMMA NextRecord ==
    ASSUME NEW rec \in Record, rec # NoRecord, rec.frameNumNotCome > 0, rec.frameNumNotCome # 1
    PROVE  LET next == [pipeline |-> rec.pipeline, frameNumNotCome |-> rec.frameNumNotCome - 1]
           IN  next \in Record /\ next.frameNumNotCome > 0
BY DEF Record

LEMMA FirstRecord ==
    ASSUME NEW rec \in Record, NEW r \in Requests
    PROVE  LET first == [pipeline |-> r, frameNumNotCome |-> rec.frameNumNotCome]
           IN  /\ first \in Record /\ first # NoRecord
               /\ first.frameNumNotCome = rec.frameNumNotCome
BY SessionAssumption DEF Record, NoRecord

\* enqueueSourceImage keeps images and fedBy well-typed, whatever p is.
LEMMA EnqueueType ==
    ASSUME NEW p, enqueueSourceImage(p), cur \in Requests,
           images \in [Requests -> Nat], fedBy \in [Requests -> SUBSET Requests]
    PROVE  images' \in [Requests -> Nat] /\ fedBy' \in [Requests -> SUBSET Requests]
<1>1. images' = IF released[p] THEN images ELSE [images EXCEPT ![p] = @ + 1]
  BY DEF enqueueSourceImage
<1>2. fedBy' = [fedBy EXCEPT ![p] = @ \cup {cur}]
  BY DEF enqueueSourceImage
<1>3. images' \in [Requests -> Nat]
  <2>1. CASE released[p]
    BY <1>1, <2>1
  <2>2. CASE ~released[p]
    <3>1. images' = [images EXCEPT ![p] = @ + 1]
      BY <1>1, <2>2
    <3>2. CASE p \in Requests
      BY <3>1, <3>2
    <3>3. CASE p \notin Requests
      BY <3>1, <3>3
    <3>4. QED
      BY <3>2, <3>3
  <2>3. QED
    BY <2>1, <2>2
<1>4. fedBy' \in [Requests -> SUBSET Requests]
  BY <1>2
<1>5. QED
  BY <1>3, <1>4

\* The name of a request is a name.
LEMMA NameType == \A r \in Requests : Name[r] \in Names
BY DEF Names

\* A node task that starts or ends moves the count by one.
LEMMA CountStep == TypeOK /\ CountInv /\ [Next]_vars => CountInv'
<1> SUFFICES ASSUME TypeOK, CountInv, [Next]_vars
             PROVE  CountInv'
  OBVIOUS
<1> USE SessionAssumption
<1>1. ASSUME NEW r \in Requests, NodeStarts(r)
      PROVE  CountInv'
  <2>1. nodes[r] \in 0..NodeTasks /\ nodes[r] + 1 \in 1..NodeTasks
    BY <1>1 DEF NodeStarts, TypeOK
  <2>2. nodes' = [nodes EXCEPT ![r] = nodes[r] + 1] /\ nodes \in [Requests -> 0..NodeTasks]
    BY <1>1 DEF NodeStarts, TypeOK
  <2>3. NodeTaskSet' = NodeTaskSet \cup {<<r, nodes[r] + 1>>}
    BY <2>1, <2>2 DEF NodeTaskSet
  <2>4. <<r, nodes[r] + 1>> \notin NodeTaskSet
    BY <2>1 DEF NodeTaskSet
  <2>5. QED
    BY <1>1, <2>3, <2>4, FS_AddElement, FS_CardinalityType DEF CountInv, NodeStarts
<1>2. ASSUME NEW r \in Requests, NodeEnds(r)
      PROVE  CountInv'
  <2>1. nodes[r] \in 1..NodeTasks
    BY <1>2 DEF NodeEnds, TypeOK
  <2>2. nodes' = [nodes EXCEPT ![r] = nodes[r] - 1] /\ nodes \in [Requests -> 0..NodeTasks]
    BY <1>2 DEF NodeEnds, TypeOK
  <2>3. NodeTaskSet' = NodeTaskSet \ {<<r, nodes[r]>>}
    BY <2>1, <2>2 DEF NodeTaskSet
  <2>4. <<r, nodes[r]>> \in NodeTaskSet
    BY <2>1 DEF NodeTaskSet
  <2>5. QED
    BY <1>2, <2>3, <2>4, FS_RemoveElement, FS_CardinalityType DEF CountInv, NodeEnds
<1>3. CASE UNCHANGED <<nodes, mNodeThreadNum>>
  BY <1>3 DEF CountInv, NodeTaskSet
<1>4. QED
  BY <1>1, <1>2, <1>3 DEF Next, vars, workerVars, pipeVars, sessionVars, flushVars,
     Worker, Drop, RejectUntagged, postProcess, InsertBusy, SetUpAndStart, DeliverFirst,
     DeliverNext, Task, TaskStarts, TaskFinishes, MoveToIdle, EraseBusy, FlushCalled,
     Flushing, FlushBusy, FlushRetests, FlushWaitsForNodes, destroy, QuickFinishCalled,
     Quick, FindSession, quickFinish

\* Every step keeps the types; that node tasks are counted keeps mNodeThreadNum natural.
LEMMA TypeStep == TypeOK /\ FlagInv /\ RecordInv /\ CountInv' /\ [Next]_vars => TypeOK'
<1> SUFFICES ASSUME TypeOK, FlagInv, RecordInv, CountInv', [Next]_vars
             PROVE  TypeOK'
  OBVIOUS
<1> USE SessionAssumption DEF TypeOK, FlagInv, workerVars, pipeVars, sessionVars, flushVars
<1>1. ASSUME NEW r \in Requests, Drop(r)
      PROVE  TypeOK'
  <2>1. come' \in [Requests -> Nat]
    BY <1>1 DEF Drop
  <2>2. QED
    BY <1>1, <2>1 DEF Drop
<1>2. ASSUME NEW r \in Requests, RejectUntagged(r)
      PROVE  TypeOK'
  <2>1. come' \in [Requests -> Nat]
    BY <1>2 DEF RejectUntagged
  <2>2. QED
    BY <1>2, <2>1 DEF RejectUntagged
<1>3. ASSUME NEW r \in Requests, postProcess(r)
      PROVE  TypeOK'
  <2>1. come' \in [Requests -> Nat]
    BY <1>3 DEF postProcess
  <2>2. mInputNotEnoughPipe' \in [Names -> Record]
    BY <1>3, NewRecords DEF postProcess
  <2>3. QED
    BY <1>3, <2>1, <2>2 DEF postProcess
<1>4. ASSUME InsertBusy
      PROVE  TypeOK'
  BY <1>4 DEF InsertBusy
<1>5. ASSUME SetUpAndStart
      PROVE  TypeOK'
  <2>1. mName' \in [Requests -> Names \cup {<<>>}]
    BY <1>5, NameType DEF SetUpAndStart
  <2>2. QED
    BY <1>5, <2>1 DEF SetUpAndStart
<1>6. ASSUME DeliverFirst
      PROVE  TypeOK'
  <2>1. mInputNotEnoughPipe' \in [Names -> Record]
    BY <1>6, FirstRecord, NameType DEF DeliverFirst
  <2>2. images' \in [Requests -> Nat] /\ fedBy' \in [Requests -> SUBSET Requests]
    BY <1>6, EnqueueType DEF DeliverFirst
  <2>3. QED
    BY <1>6, <2>1, <2>2 DEF DeliverFirst
<1>7. ASSUME DeliverNext
      PROVE  TypeOK'
  <2> DEFINE rec == mInputNotEnoughPipe[Name[cur]]
  <2>1. mInputNotEnoughPipe' \in [Names -> Record]
    <3>1. rec \in Record /\ rec # NoRecord /\ rec.frameNumNotCome > 0
      BY <1>7, NameType DEF DeliverNext, RecordInv, Known
    <3>2. QED
      BY <1>7, <3>1, NextRecord, NewRecords DEF DeliverNext
  <2>2. images' \in [Requests -> Nat] /\ fedBy' \in [Requests -> SUBSET Requests]
    BY <1>7, EnqueueType DEF DeliverNext
  <2>3. QED
    BY <1>7, <2>1, <2>2 DEF DeliverNext
<1>8. ASSUME NEW r \in Requests, TaskStarts(r)
      PROVE  TypeOK'
  <2>1. CASE mFlushStatus[r] = "ForcedFlush"
    <3>1. releaseUnusedBuffer(r) /\ task' = [task EXCEPT ![r] = "finish"]
      BY <1>8, <2>1 DEF TaskStarts
    <3>2. QED
      BY <1>8, <3>1 DEF TaskStarts, releaseUnusedBuffer
  <2>2. CASE mFlushStatus[r] # "ForcedFlush"
    <3>1. released' = released /\ images' = images /\ task' = [task EXCEPT ![r] = "running"]
      BY <1>8, <2>2 DEF TaskStarts
    <3>2. QED
      BY <1>8, <3>1 DEF TaskStarts
  <2>3. QED
    BY <2>1, <2>2
<1>9. ASSUME NEW r \in Requests, MoveToIdle(r)
      PROVE  TypeOK'
  BY <1>9 DEF MoveToIdle
<1>10. ASSUME NEW r \in Requests, EraseBusy(r)
      PROVE  TypeOK'
  BY <1>10 DEF EraseBusy
<1>11. ASSUME NEW r \in Requests, TaskFinishes(r)
      PROVE  TypeOK'
  BY <1>11 DEF TaskFinishes, releaseUnusedBuffer
<1>12. ASSUME NEW r \in Requests, NodeStarts(r)
      PROVE  TypeOK'
  <2>1. nodes[r] + 1 \in 0..NodeTasks /\ nodes' \in [Requests -> 0..NodeTasks]
    <3>1. nodes[r] + 1 \in 0..NodeTasks
      BY <1>12 DEF NodeStarts
    <3>2. QED
      BY <1>12, <3>1 DEF NodeStarts
  <2>2. mNodeThreadNum' \in Nat
    BY <1>12 DEF NodeStarts
  <2>3. QED
    BY <1>12, <2>1, <2>2 DEF NodeStarts
<1>13. ASSUME NEW r \in Requests, NodeEnds(r)
      PROVE  TypeOK'
  <2>1. nodes[r] - 1 \in 0..NodeTasks
    BY <1>13 DEF NodeEnds
  <2>2. nodes' \in [Requests -> 0..NodeTasks]
    BY <1>13, <2>1 DEF NodeEnds
  <2>3. mNodeThreadNum' \in Nat
    BY FS_CardinalityType DEF CountInv
  <2>4. QED
    BY <1>13, <2>2, <2>3 DEF NodeEnds
<1>14. ASSUME FlushCalled
      PROVE  TypeOK'
  BY <1>14 DEF FlushCalled
<1>15. ASSUME FlushBusy
      PROVE  TypeOK'
  BY <1>15 DEF FlushBusy
<1>16. ASSUME FlushRetests
      PROVE  TypeOK'
  BY <1>16 DEF FlushRetests
<1>17. ASSUME FlushWaitsForNodes
      PROVE  TypeOK'
  BY <1>17 DEF FlushWaitsForNodes
<1>18. ASSUME destroy
      PROVE  TypeOK'
  BY <1>18 DEF destroy
<1>19. ASSUME NEW c \in Callers, QuickFinishCalled(c)
      PROVE  TypeOK'
  BY <1>19 DEF QuickFinishCalled
<1>20. ASSUME NEW c \in Callers, FindSession(c)
      PROVE  TypeOK'
  BY <1>20 DEF FindSession
<1>21. ASSUME NEW c \in Callers, NEW n \in Names, NEW b \in BOOLEAN, quickFinish(c, n, b)
      PROVE  TypeOK'
  BY <1>21 DEF quickFinish
<1>22. CASE UNCHANGED vars
  BY <1>22 DEF vars
<1> HIDE DEF TypeOK, FlagInv
<1>23. QED
  BY <1>1, <1>2, <1>3, <1>4, <1>5, <1>6, <1>7, <1>8, <1>9, <1>10, <1>11, <1>12, <1>13,
     <1>14, <1>15, <1>16, <1>17, <1>18, <1>19, <1>20, <1>21, <1>22
     DEF Next, Worker, Task, Flushing, Quick


\* mFlushFlag has one owner at a time: postProcess or flush.
LEMMA FlagStep == TypeOK /\ FlagInv /\ [Next]_vars => FlagInv'
<1> SUFFICES ASSUME TypeOK, FlagInv, [Next]_vars
             PROVE  FlagInv'
  OBVIOUS
<1> USE SessionAssumption DEF TypeOK, FlagInv, workerVars, pipeVars, sessionVars, flushVars
<1>1. ASSUME NEW r \in Requests, Drop(r)
      PROVE  FlagInv'
  BY <1>1 DEF Drop
<1>2. ASSUME NEW r \in Requests, RejectUntagged(r)
      PROVE  FlagInv'
  BY <1>2 DEF RejectUntagged
<1>3. ASSUME NEW r \in Requests, postProcess(r)
      PROVE  FlagInv'
  BY <1>3 DEF postProcess
<1>4. ASSUME InsertBusy
      PROVE  FlagInv'
  BY <1>4 DEF InsertBusy
<1>5. ASSUME SetUpAndStart
      PROVE  FlagInv'
  BY <1>5 DEF SetUpAndStart
<1>6. ASSUME DeliverFirst
      PROVE  FlagInv'
  BY <1>6 DEF DeliverFirst
<1>7. ASSUME DeliverNext
      PROVE  FlagInv'
  BY <1>7 DEF DeliverNext
<1>8. ASSUME NEW r \in Requests, TaskStarts(r)
      PROVE  FlagInv'
  BY <1>8 DEF TaskStarts
<1>9. ASSUME NEW r \in Requests, MoveToIdle(r)
      PROVE  FlagInv'
  BY <1>9 DEF MoveToIdle
<1>10. ASSUME NEW r \in Requests, EraseBusy(r)
      PROVE  FlagInv'
  BY <1>10 DEF EraseBusy
<1>11. ASSUME NEW r \in Requests, TaskFinishes(r)
      PROVE  FlagInv'
  BY <1>11 DEF TaskFinishes
<1>12. ASSUME NEW r \in Requests, NodeStarts(r)
      PROVE  FlagInv'
  BY <1>12 DEF NodeStarts
<1>13. ASSUME NEW r \in Requests, NodeEnds(r)
      PROVE  FlagInv'
  BY <1>13 DEF NodeEnds
<1>14. ASSUME FlushCalled
      PROVE  FlagInv'
  BY <1>14 DEF FlushCalled
<1>15. ASSUME FlushBusy
      PROVE  FlagInv'
  BY <1>15 DEF FlushBusy
<1>16. ASSUME FlushRetests
      PROVE  FlagInv'
  BY <1>16 DEF FlushRetests
<1>17. ASSUME FlushWaitsForNodes
      PROVE  FlagInv'
  BY <1>17 DEF FlushWaitsForNodes
<1>18. ASSUME destroy
      PROVE  FlagInv'
  BY <1>18 DEF destroy
<1>19. ASSUME NEW c \in Callers, QuickFinishCalled(c)
      PROVE  FlagInv'
  BY <1>19 DEF QuickFinishCalled
<1>20. ASSUME NEW c \in Callers, FindSession(c)
      PROVE  FlagInv'
  BY <1>20 DEF FindSession
<1>21. ASSUME NEW c \in Callers, NEW n \in Names, NEW b \in BOOLEAN, quickFinish(c, n, b)
      PROVE  FlagInv'
  BY <1>21 DEF quickFinish
<1>22. CASE UNCHANGED vars
  BY <1>22 DEF vars
<1>23. QED
  BY <1>1, <1>2, <1>3, <1>4, <1>5, <1>6, <1>7, <1>8, <1>9, <1>10, <1>11, <1>12, <1>13,
     <1>14, <1>15, <1>16, <1>17, <1>18, <1>19, <1>20, <1>21, <1>22
     DEF Next, Worker, Task, Flushing, Quick


\* A record is dropped with its last frame, never earlier or later.
LEMMA RecordStep == TypeOK /\ FlagInv /\ RecordInv /\ [Next]_vars => RecordInv'
<1> SUFFICES ASSUME TypeOK, FlagInv, RecordInv, [Next]_vars
             PROVE  RecordInv'
  OBVIOUS
<1> USE SessionAssumption DEF TypeOK, FlagInv, RecordInv, Known, workerVars, pipeVars, sessionVars, flushVars
<1>1. ASSUME NEW r \in Requests, Drop(r)
      PROVE  RecordInv'
  BY <1>1 DEF Drop
<1>2. ASSUME NEW r \in Requests, RejectUntagged(r)
      PROVE  RecordInv'
  BY <1>2 DEF RejectUntagged
<1>3. ASSUME NEW r \in Requests, postProcess(r)
      PROVE  RecordInv'
  <2>1. \A n \in Names : \/ mInputNotEnoughPipe'[n] = mInputNotEnoughPipe[n]
                         \/ mInputNotEnoughPipe'[n].frameNumNotCome > 0
    BY <1>3, NewRecords DEF postProcess
  <2>2. cur' = r /\ tpc' \in {"history", "insert"}
    BY <1>3 DEF postProcess
  <2>3. tpc' = "history" => Known(r)'
    BY <1>3 DEF postProcess
  <2>4. tpc' = "insert" /\ Total[r] # 1 => Known(r)'
    <3>1. Total[r] > 1 => NewRecord(r) # NoRecord
      BY DEF NewRecord, NoRecord
    <3>2. QED
      BY <1>3, <3>1, NameType DEF postProcess
  <2>5. QED
    BY <2>1, <2>2, <2>3, <2>4
<1>4. ASSUME InsertBusy
      PROVE  RecordInv'
  BY <1>4 DEF InsertBusy
<1>5. ASSUME SetUpAndStart
      PROVE  RecordInv'
  BY <1>5 DEF SetUpAndStart
<1>6. ASSUME DeliverFirst
      PROVE  RecordInv'
  BY <1>6, FirstRecord, NameType DEF DeliverFirst
<1>7. ASSUME DeliverNext
      PROVE  RecordInv'
  <2> DEFINE rec == mInputNotEnoughPipe[Name[cur]]
  <2>1. rec \in Record /\ rec # NoRecord /\ rec.frameNumNotCome > 0
    BY <1>7, NameType DEF DeliverNext
  <2>2. QED
    BY <1>7, <2>1, NextRecord DEF DeliverNext
<1>8. ASSUME NEW r \in Requests, TaskStarts(r)
      PROVE  RecordInv'
  BY <1>8 DEF TaskStarts
<1>9. ASSUME NEW r \in Requests, MoveToIdle(r)
      PROVE  RecordInv'
  BY <1>9 DEF MoveToIdle
<1>10. ASSUME NEW r \in Requests, EraseBusy(r)
      PROVE  RecordInv'
  BY <1>10 DEF EraseBusy
<1>11. ASSUME NEW r \in Requests, TaskFinishes(r)
      PROVE  RecordInv'
  BY <1>11 DEF TaskFinishes
<1>12. ASSUME NEW r \in Requests, NodeStarts(r)
      PROVE  RecordInv'
  BY <1>12 DEF NodeStarts
<1>13. ASSUME NEW r \in Requests, NodeEnds(r)
      PROVE  RecordInv'
  BY <1>13 DEF NodeEnds
<1>14. ASSUME FlushCalled
      PROVE  RecordInv'
  BY <1>14 DEF FlushCalled
<1>15. ASSUME FlushBusy
      PROVE  RecordInv'
  BY <1>15 DEF FlushBusy
<1>16. ASSUME FlushRetests
      PROVE  RecordInv'
  BY <1>16 DEF FlushRetests
<1>17. ASSUME FlushWaitsForNodes
      PROVE  RecordInv'
  BY <1>17 DEF FlushWaitsForNodes
<1>18. ASSUME destroy
      PROVE  RecordInv'
  BY <1>18 DEF destroy
<1>19. ASSUME NEW c \in Callers, QuickFinishCalled(c)
      PROVE  RecordInv'
  BY <1>19 DEF QuickFinishCalled
<1>20. ASSUME NEW c \in Callers, FindSession(c)
      PROVE  RecordInv'
  BY <1>20 DEF FindSession
<1>21. ASSUME NEW c \in Callers, NEW n \in Names, NEW b \in BOOLEAN, quickFinish(c, n, b)
      PROVE  RecordInv'
  BY <1>21 DEF quickFinish
<1>22. CASE UNCHANGED vars
  BY <1>22 DEF vars
<1>23. QED
  BY <1>1, <1>2, <1>3, <1>4, <1>5, <1>6, <1>7, <1>8, <1>9, <1>10, <1>11, <1>12, <1>13,
     <1>14, <1>15, <1>16, <1>17, <1>18, <1>19, <1>20, <1>21, <1>22
     DEF Next, Worker, Task, Flushing, Quick


\* A pipeline enters mBusyPipelines with its creation and leaves it with EraseBusy.
LEMMA BusyStep == TypeOK /\ FlagInv /\ BusyInv /\ ImageInv /\ [Next]_vars => BusyInv'
<1> SUFFICES ASSUME TypeOK, FlagInv, BusyInv, ImageInv, [Next]_vars
             PROVE  BusyInv'
  OBVIOUS
<1> USE SessionAssumption DEF TypeOK, FlagInv, BusyInv, workerVars, pipeVars, sessionVars, flushVars
<1>1. ASSUME NEW r \in Requests, Drop(r)
      PROVE  BusyInv'
  BY <1>1 DEF Drop
<1>2. ASSUME NEW r \in Requests, RejectUntagged(r)
      PROVE  BusyInv'
  BY <1>2 DEF RejectUntagged
<1>3. ASSUME NEW r \in Requests, postProcess(r)
      PROVE  BusyInv'
  BY <1>3 DEF postProcess
<1>4. ASSUME InsertBusy
      PROVE  BusyInv'
  BY <1>4 DEF InsertBusy
<1>5. ASSUME SetUpAndStart
      PROVE  BusyInv'
  BY <1>5 DEF SetUpAndStart, ImageInv
<1>6. ASSUME DeliverFirst
      PROVE  BusyInv'
  BY <1>6 DEF DeliverFirst
<1>7. ASSUME DeliverNext
      PROVE  BusyInv'
  BY <1>7 DEF DeliverNext
<1>8. ASSUME NEW r \in Requests, TaskStarts(r)
      PROVE  BusyInv'
  BY <1>8 DEF TaskStarts
<1>9. ASSUME NEW r \in Requests, MoveToIdle(r)
      PROVE  BusyInv'
  BY <1>9 DEF MoveToIdle
<1>10. ASSUME NEW r \in Requests, EraseBusy(r)
      PROVE  BusyInv'
  BY <1>10 DEF EraseBusy
<1>11. ASSUME NEW r \in Requests, TaskFinishes(r)
      PROVE  BusyInv'
  BY <1>11 DEF TaskFinishes
<1>12. ASSUME NEW r \in Requests, NodeStarts(r)
      PROVE  BusyInv'
  BY <1>12 DEF NodeStarts
<1>13. ASSUME NEW r \in Requests, NodeEnds(r)
      PROVE  BusyInv'
  BY <1>13 DEF NodeEnds
<1>14. ASSUME FlushCalled
      PROVE  BusyInv'
  BY <1>14 DEF FlushCalled
<1>15. ASSUME FlushBusy
      PROVE  BusyInv'
  BY <1>15 DEF FlushBusy
<1>16. ASSUME FlushRetests
      PROVE  BusyInv'
  BY <1>16 DEF FlushRetests
<1>17. ASSUME FlushWaitsForNodes
      PROVE  BusyInv'
  BY <1>17 DEF FlushWaitsForNodes
<1>18. ASSUME destroy
      PROVE  BusyInv'
  BY <1>18 DEF destroy
<1>19. ASSUME NEW c \in Callers, QuickFinishCalled(c)
      PROVE  BusyInv'
  BY <1>19 DEF QuickFinishCalled
<1>20. ASSUME NEW c \in Callers, FindSession(c)
      PROVE  BusyInv'
  BY <1>20 DEF FindSession
<1>21. ASSUME NEW c \in Callers, NEW n \in Names, NEW b \in BOOLEAN, quickFinish(c, n, b)
      PROVE  BusyInv'
  BY <1>21 DEF quickFinish
<1>22. CASE UNCHANGED vars
  BY <1>22 DEF vars
<1>23. QED
  BY <1>1, <1>2, <1>3, <1>4, <1>5, <1>6, <1>7, <1>8, <1>9, <1>10, <1>11, <1>12, <1>13,
     <1>14, <1>15, <1>16, <1>17, <1>18, <1>19, <1>20, <1>21, <1>22
     DEF Next, Worker, Task, Flushing, Quick


\* Once flush has seen no busy pipeline and no node task, none comes back.
LEMMA WaitedStep ==
  TypeOK /\ FlagInv /\ BusyInv /\ CountInv /\ WaitedInv /\ [Next]_vars
    => WaitedInv'
<1> SUFFICES ASSUME TypeOK, FlagInv, BusyInv, CountInv, WaitedInv, [Next]_vars
             PROVE  WaitedInv'
  OBVIOUS
<1> USE SessionAssumption DEF TypeOK, FlagInv, BusyInv, WaitedInv, workerVars, pipeVars, sessionVars, flushVars
<1>1. ASSUME NEW r \in Requests, Drop(r)
      PROVE  WaitedInv'
  BY <1>1 DEF Drop
<1>2. ASSUME NEW r \in Requests, RejectUntagged(r)
      PROVE  WaitedInv'
  BY <1>2 DEF RejectUntagged
<1>3. ASSUME NEW r \in Requests, postProcess(r)
      PROVE  WaitedInv'
  BY <1>3 DEF postProcess
<1>4. ASSUME InsertBusy
      PROVE  WaitedInv'
  BY <1>4 DEF InsertBusy
<1>5. ASSUME SetUpAndStart
      PROVE  WaitedInv'
  BY <1>5 DEF SetUpAndStart
<1>6. ASSUME DeliverFirst
      PROVE  WaitedInv'
  BY <1>6 DEF DeliverFirst
<1>7. ASSUME DeliverNext
      PROVE  WaitedInv'
  BY <1>7 DEF DeliverNext
<1>8. ASSUME NEW r \in Requests, TaskStarts(r)
      PROVE  WaitedInv'
  BY <1>8 DEF TaskStarts
<1>9. ASSUME NEW r \in Requests, MoveToIdle(r)
      PROVE  WaitedInv'
  BY <1>9 DEF MoveToIdle
<1>10. ASSUME NEW r \in Requests, EraseBusy(r)
      PROVE  WaitedInv'
  BY <1>10 DEF EraseBusy
<1>11. ASSUME NEW r \in Requests, TaskFinishes(r)
      PROVE  WaitedInv'
  BY <1>11 DEF TaskFinishes
<1>12. ASSUME NEW r \in Requests, NodeStarts(r)
      PROVE  WaitedInv'
  BY <1>12 DEF NodeStarts
<1>13. ASSUME NEW r \in Requests, NodeEnds(r)
      PROVE  WaitedInv'
  BY <1>13 DEF NodeEnds
<1>14. ASSUME FlushCalled
      PROVE  WaitedInv'
  BY <1>14 DEF FlushCalled
<1>15. ASSUME FlushBusy
      PROVE  WaitedInv'
  BY <1>15 DEF FlushBusy
<1>16. ASSUME FlushRetests
      PROVE  WaitedInv'
  BY <1>16 DEF FlushRetests
<1>17. ASSUME FlushWaitsForNodes
      PROVE  WaitedInv'
  <2>1. CASE mNodeThreadNum = 0
    <3>1. NodeTaskSet = {}
      BY <2>1, FS_EmptySet DEF CountInv
    <3>2. ASSUME NEW r \in Requests PROVE nodes[r] = 0
      <4>1. nodes[r] \in 0..NodeTasks /\ <<r, nodes[r]>> \notin NodeTaskSet
        BY <3>1
      <4>2. QED
        BY <4>1 DEF NodeTaskSet
    <3>3. QED
      BY <1>17, <3>2 DEF FlushWaitsForNodes
  <2>2. CASE mNodeThreadNum # 0
    BY <1>17, <2>2 DEF FlushWaitsForNodes
  <2>3. QED
    BY <2>1, <2>2
<1>18. ASSUME destroy
      PROVE  WaitedInv'
  BY <1>18 DEF destroy
<1>19. ASSUME NEW c \in Callers, QuickFinishCalled(c)
      PROVE  WaitedInv'
  BY <1>19 DEF QuickFinishCalled
<1>20. ASSUME NEW c \in Callers, FindSession(c)
      PROVE  WaitedInv'
  BY <1>20 DEF FindSession
<1>21. ASSUME NEW c \in Callers, NEW n \in Names, NEW b \in BOOLEAN, quickFinish(c, n, b)
      PROVE  WaitedInv'
  BY <1>21 DEF quickFinish
<1>22. CASE UNCHANGED vars
  BY <1>22 DEF vars
<1>23. QED
  BY <1>1, <1>2, <1>3, <1>4, <1>5, <1>6, <1>7, <1>8, <1>9, <1>10, <1>11, <1>12, <1>13,
     <1>14, <1>15, <1>16, <1>17, <1>18, <1>19, <1>20, <1>21, <1>22
     DEF Next, Worker, Task, Flushing, Quick


\* Images enter a pipeline that has begun, and leave it before it is idle.
LEMMA ImageStep == TypeOK /\ FlagInv /\ BusyInv /\ ImageInv /\ [Next]_vars => ImageInv'
<1> SUFFICES ASSUME TypeOK, FlagInv, BusyInv, ImageInv, [Next]_vars
             PROVE  ImageInv'
  OBVIOUS
<1> USE SessionAssumption DEF TypeOK, FlagInv, ImageInv, workerVars, pipeVars, sessionVars, flushVars
<1>1. ASSUME NEW r \in Requests, Drop(r)
      PROVE  ImageInv'
  BY <1>1 DEF Drop
<1>2. ASSUME NEW r \in Requests, RejectUntagged(r)
      PROVE  ImageInv'
  BY <1>2 DEF RejectUntagged
<1>3. ASSUME NEW r \in Requests, postProcess(r)
      PROVE  ImageInv'
  <2>1. \A n \in Names : \/ mInputNotEnoughPipe'[n] = mInputNotEnoughPipe[n]
                         \/ mInputNotEnoughPipe'[n].pipeline = None
    BY <1>3 DEF postProcess, NewRecord
  <2>2. QED
    BY <1>3, <2>1 DEF postProcess
<1>4. ASSUME InsertBusy
      PROVE  ImageInv'
  BY <1>4 DEF InsertBusy
<1>5. ASSUME SetUpAndStart
      PROVE  ImageInv'
  BY <1>5 DEF SetUpAndStart
<1>6. ASSUME DeliverFirst
      PROVE  ImageInv'
  <2>1. \A n \in Names : \/ mInputNotEnoughPipe'[n] = mInputNotEnoughPipe[n]
                         \/ mInputNotEnoughPipe'[n].pipeline = cur
    BY <1>6 DEF DeliverFirst
  <2>2. QED
    BY <1>6, <2>1 DEF DeliverFirst, enqueueSourceImage
<1>7. ASSUME DeliverNext
      PROVE  ImageInv'
  <2> DEFINE p == mInputNotEnoughPipe[Name[cur]].pipeline
  <2>1. \A n \in Names : \/ mInputNotEnoughPipe'[n].pipeline = mInputNotEnoughPipe[n].pipeline
                         \/ mInputNotEnoughPipe'[n].pipeline = None
    BY <1>7 DEF DeliverNext, NoRecord
  <2>2. images' = IF released[p] THEN images ELSE [images EXCEPT ![p] = @ + 1]
    BY <1>7 DEF DeliverNext, enqueueSourceImage
  <2>3. p \in Requests => task[p] # "none"
    BY <1>7 DEF DeliverNext, Names
  <2> HIDE DEF p
  <2>4. QED
    BY <1>7, <2>1, <2>2, <2>3 DEF DeliverNext
<1>8. ASSUME NEW r \in Requests, TaskStarts(r)
      PROVE  ImageInv'
  <2>1. CASE mFlushStatus[r] = "ForcedFlush"
    <3>1. releaseUnusedBuffer(r) /\ task' = [task EXCEPT ![r] = "finish"]
      BY <1>8, <2>1 DEF TaskStarts
    <3>2. QED
      BY <1>8, <3>1 DEF TaskStarts, releaseUnusedBuffer
  <2>2. CASE mFlushStatus[r] # "ForcedFlush"
    <3>1. released' = released /\ images' = images /\ task' = [task EXCEPT ![r] = "running"]
      BY <1>8, <2>2 DEF TaskStarts
    <3>2. QED
      BY <1>8, <3>1 DEF TaskStarts
  <2>3. QED
    BY <2>1, <2>2
<1>9. ASSUME NEW r \in Requests, MoveToIdle(r)
      PROVE  ImageInv'
  BY <1>9 DEF MoveToIdle
<1>10. ASSUME NEW r \in Requests, EraseBusy(r)
      PROVE  ImageInv'
  BY <1>10 DEF EraseBusy
<1>11. ASSUME NEW r \in Requests, TaskFinishes(r)
      PROVE  ImageInv'
  BY <1>11 DEF TaskFinishes, releaseUnusedBuffer
<1>12. ASSUME NEW r \in Requests, NodeStarts(r)
      PROVE  ImageInv'
  BY <1>12 DEF NodeStarts
<1>13. ASSUME NEW r \in Requests, NodeEnds(r)
      PROVE  ImageInv'
  BY <1>13 DEF NodeEnds
<1>14. ASSUME FlushCalled
      PROVE  ImageInv'
  BY <1>14 DEF FlushCalled
<1>15. ASSUME FlushBusy
      PROVE  ImageInv'
  BY <1>15 DEF FlushBusy
<1>16. ASSUME FlushRetests
      PROVE  ImageInv'
  BY <1>16 DEF FlushRetests
<1>17. ASSUME FlushWaitsForNodes
      PROVE  ImageInv'
  BY <1>17 DEF FlushWaitsForNodes
<1>18. ASSUME destroy
      PROVE  ImageInv'
  BY <1>18 DEF destroy
<1>19. ASSUME NEW c \in Callers, QuickFinishCalled(c)
      PROVE  ImageInv'
  BY <1>19 DEF QuickFinishCalled
<1>20. ASSUME NEW c \in Callers, FindSession(c)
      PROVE  ImageInv'
  BY <1>20 DEF FindSession
<1>21. ASSUME NEW c \in Callers, NEW n \in Names, NEW b \in BOOLEAN, quickFinish(c, n, b)
      PROVE  ImageInv'
  BY <1>21 DEF quickFinish
<1>22. CASE UNCHANGED vars
  BY <1>22 DEF vars
<1>23. QED
  BY <1>1, <1>2, <1>3, <1>4, <1>5, <1>6, <1>7, <1>8, <1>9, <1>10, <1>11, <1>12, <1>13,
     <1>14, <1>15, <1>16, <1>17, <1>18, <1>19, <1>20, <1>21, <1>22
     DEF Next, Worker, Task, Flushing, Quick

----------------------------------------------------------------------------
(* The inductive invariant of the routing of frames. *)

\* Some but not all frames of r have come.
Between(r) == 0 < come[r] /\ come[r] < Total[r]

\* Outside postProcess a record belongs to the one request of its name whose
\* frames are coming, and says how many are missing.
Settled(n) ==
    IF mInputNotEnoughPipe[n] = NoRecord
    THEN \A r \in Requests : Name[r] = n => ~Between(r)
    ELSE \E r \in Requests :
            /\ Name[r] = n /\ Between(r)
            /\ mInputNotEnoughPipe[n] =
                  [pipeline |-> r, frameNumNotCome |-> Total[r] - come[r]]

\* Inside, the record of the current frame is about to be corrected.
InFirst ==
    /\ come[cur] = 1 /\ Total[cur] > 0
    /\ mInputNotEnoughPipe[Name[cur]] = IF Total[cur] > 1 THEN NewRecord(cur) ELSE NoRecord
InNext ==
    /\ 1 < come[cur] /\ come[cur] <= Total[cur]
    /\ mInputNotEnoughPipe[Name[cur]] =
          [pipeline |-> cur, frameNumNotCome |-> Total[cur] - come[cur] + 1]

\* After flush has begun no frame is delivered any more.
RouteInv ==
    fpc = "idle" =>
        /\ \A n \in Names : (tpc = "idle" \/ Name[cur] # n) => Settled(n)
        /\ tpc # "idle" =>
              \A s \in Requests \ {cur} : Name[s] = Name[cur] => ~Between(s)
        /\ tpc \in {"insert", "setup", "deliver"} => InFirst
        /\ tpc = "history" => InNext

\* Only the worker's own steps touch what RouteInv speaks of.
LEMMA RouteStep == AllFramesCome /\ TypeOK /\ FlagInv /\ RouteInv /\ [Next]_vars => RouteInv'
<1> SUFFICES ASSUME AllFramesCome, TypeOK, FlagInv, RouteInv, [Next]_vars, fpc' = "idle"
             PROVE  RouteInv'
  BY DEF RouteInv
<1> DEFINE routeVars == <<tpc, cur, come, mInputNotEnoughPipe>>
<1> USE SessionAssumption DEF workerVars, pipeVars, sessionVars, flushVars
<1>1. ASSUME NEW r \in Requests, Drop(r)
      PROVE  RouteInv'
  BY <1>1 DEF Drop, FlagInv
<1>2. ASSUME NEW r \in Requests, RejectUntagged(r)
      PROVE  RouteInv'
  <2>1. Total[r] = 0 /\ \A s \in Requests \ {r} : come'[s] = come[s]
    BY <1>2 DEF RejectUntagged, TypeOK
  <2>2. \A s \in Requests : Between(s)' <=> Between(s)
    <3>1. come[r] \in Nat /\ come'[r] \in Nat /\ Total[r] = 0
      BY <1>2, <2>1 DEF RejectUntagged, TypeOK
    <3>2. ~Between(r) /\ ~Between(r)'
      BY <3>1 DEF Between
    <3>3. \A s \in Requests \ {r} : Between(s)' <=> Between(s)
      BY <2>1 DEF Between
    <3>4. QED
      BY <3>2, <3>3
  <2>3. \A s \in Requests : Between(s) => come'[s] = come[s]
    BY <1>2, <2>1 DEF RejectUntagged, Between, TypeOK
  <2>4. fpc = "idle" /\ tpc = "idle" /\ tpc' = "idle" /\ mInputNotEnoughPipe' = mInputNotEnoughPipe
    BY <1>2 DEF RejectUntagged
  <2>5. ASSUME NEW n \in Names PROVE Settled(n)'
    <3>1. Settled(n)
      BY <2>4, <2>5 DEF RouteInv
    <3>2. CASE mInputNotEnoughPipe[n] = NoRecord
      BY <2>2, <2>4, <3>1, <3>2 DEF Settled
    <3>3. CASE mInputNotEnoughPipe[n] # NoRecord
      BY <2>2, <2>3, <2>4, <3>1, <3>3 DEF Settled
    <3>4. QED
      BY <3>2, <3>3
  <2>6. QED
    BY <2>4, <2>5 DEF RouteInv
<1>3. ASSUME NEW r \in Requests, postProcess(r)
      PROVE  RouteInv'
  <2> DEFINE rec == mInputNotEnoughPipe[Name[r]]
  <2>1. /\ fpc = "idle" /\ tpc = "idle" /\ tpc' \in {"history", "insert"} /\ cur' = r
        /\ come' = [come EXCEPT ![r] = come[r] + 1] /\ come[r] \in Nat
        /\ Settled(Name[r])
    BY <1>3, NameType DEF postProcess, TypeOK, RouteInv
  <2>2. \A s \in Requests \ {r} : come'[s] = come[s]
    BY <2>1 DEF TypeOK
  <2>3. \A s \in Requests \ {r} : Name[s] = Name[r] => ~Between(s)
    BY <1>3 DEF postProcess, Arrives, Between, AllFramesCome
  <2>4. \A s \in Requests \ {r} : Between(s)' <=> Between(s)
    BY <2>2 DEF Between
  <2>5. ASSUME NEW n \in Names, n # Name[r] PROVE Settled(n)'
    <3>1. mInputNotEnoughPipe'[n] = mInputNotEnoughPipe[n] /\ Settled(n)
      BY <1>3, <2>1, <2>5 DEF postProcess, RouteInv, TypeOK
    <3>2. QED
      BY <2>2, <2>4, <2>5, <3>1 DEF Settled
  <2>6. CASE tpc' = "history"
    <3>1. rec # NoRecord /\ mInputNotEnoughPipe' = mInputNotEnoughPipe
      BY <1>3, <2>6 DEF postProcess, Known
    <3>2. Between(r) /\ rec = [pipeline |-> r, frameNumNotCome |-> Total[r] - come[r]]
      BY <2>1, <2>3, <3>1 DEF Settled
    <3>3. Total[r] - come[r] = Total[r] - (come[r] + 1) + 1 /\ come'[r] = come[r] + 1
      BY <2>1 DEF TypeOK
    <3>4. InNext'
      BY <2>1, <3>1, <3>2, <3>3 DEF InNext, Between
    <3>5. QED
      BY <2>1, <2>3, <2>4, <2>5, <2>6, <3>4 DEF RouteInv
  <2>7. CASE tpc' = "insert"
    <3>1. rec = NoRecord /\ Total[r] > 0 /\ come[r] < Total[r]
      BY <1>3, <2>7 DEF postProcess, Known, Arrives, AllFramesCome
    <3>2. come[r] = 0 /\ come'[r] = 1
      <4>1. ~Between(r)
        BY <2>1, <3>1 DEF Settled
      <4>2. come'[r] = come[r] + 1 /\ come[r] = 0
        BY <2>1, <3>1, <4>1 DEF Between, TypeOK
      <4>3. QED
        BY <4>2
    <3>3. mInputNotEnoughPipe'[Name[r]] = IF Total[r] > 1 THEN NewRecord(r) ELSE NoRecord
      BY <1>3, <2>7, <3>1, NameType DEF postProcess, TypeOK
    <3>4. NewRecord(r)' = NewRecord(r)
      BY DEF NewRecord
    <3>5. InFirst'
      BY <2>1, <3>1, <3>2, <3>3, <3>4 DEF InFirst
    <3>6. QED
      BY <2>1, <2>3, <2>4, <2>5, <2>7, <3>5 DEF RouteInv
  <2>8. QED
    BY <2>1, <2>6, <2>7
<1>4. CASE InsertBusy \/ SetUpAndStart
  <2>1. /\ fpc = "idle" /\ UNCHANGED <<cur, come, mInputNotEnoughPipe>>
        /\ tpc \in {"insert", "setup"} /\ tpc' \in {"setup", "deliver"}
    BY <1>4 DEF InsertBusy, SetUpAndStart
  <2>2. (\A n \in Names : Settled(n)' <=> Settled(n)) /\ (InFirst' <=> InFirst)
        /\ \A s \in Requests : Between(s)' <=> Between(s)
    BY <2>1 DEF Settled, InFirst, Between, NewRecord
  <2>3. QED
    BY <2>1, <2>2 DEF RouteInv
<1>5. CASE DeliverFirst
  <2>1. fpc = "idle" /\ tpc = "deliver" /\ tpc' = "idle" /\ come' = come /\ cur \in Requests /\ InFirst
    BY <1>5 DEF DeliverFirst, FlagInv, RouteInv
  <2>2. \A s \in Requests : Between(s)' <=> Between(s)
    BY <2>1 DEF Between
  <2>3. ASSUME NEW n \in Names, n # Name[cur] PROVE Settled(n)'
    <3>1. mInputNotEnoughPipe'[n] = mInputNotEnoughPipe[n] /\ Settled(n)
      BY <1>5, <2>1, <2>3 DEF DeliverFirst, RouteInv, TypeOK
    <3>2. QED
      BY <2>1, <2>2, <3>1 DEF Settled
  <2>4. CASE Total[cur] = 1
    <3>1. mInputNotEnoughPipe'[Name[cur]] = NoRecord /\ ~Between(cur)
      BY <1>5, <2>1, <2>4 DEF DeliverFirst, InFirst, Between
    <3>2. ASSUME NEW n \in Names, n = Name[cur] PROVE Settled(n)'
      <4>1. \A s \in Requests : Name[s] = n => ~Between(s)
        BY <2>1, <3>1, <3>2 DEF RouteInv
      <4>2. QED
        BY <2>2, <3>1, <3>2, <4>1 DEF Settled
    <3>3. QED
      BY <2>1, <2>3, <3>2 DEF RouteInv
  <2>5. CASE Total[cur] # 1
    <3>1. Total[cur] > 1 /\ come[cur] = 1
      BY <2>1, <2>5 DEF InFirst
    <3>2. mInputNotEnoughPipe[Name[cur]].frameNumNotCome = Total[cur] - come[cur]
      BY <2>1, <3>1 DEF InFirst, NewRecord
    <3>3. mInputNotEnoughPipe'[Name[cur]] =
             [pipeline |-> cur, frameNumNotCome |-> Total[cur] - come[cur]]
      BY <1>5, <2>1, <2>5, <3>2, NameType DEF DeliverFirst, TypeOK
    <3>4. mInputNotEnoughPipe'[Name[cur]] # NoRecord
      BY <2>1, <3>3 DEF NoRecord
    <3>5. ASSUME NEW n \in Names, n = Name[cur] PROVE Settled(n)'
      <4>1. Between(cur)
        BY <3>1 DEF Between
      <4>2. QED
        BY <2>1, <2>2, <3>3, <3>4, <3>5, <4>1 DEF Settled
    <3>6. QED
      BY <2>1, <2>3, <3>5 DEF RouteInv
  <2>6. QED
    BY <2>4, <2>5
<1>6. CASE DeliverNext
  <2> DEFINE rec == mInputNotEnoughPipe[Name[cur]]
  <2>1. fpc = "idle" /\ tpc = "history" /\ tpc' = "idle" /\ come' = come /\ cur \in Requests /\ InNext
    BY <1>6 DEF DeliverNext, FlagInv, RouteInv
  <2>2. \A s \in Requests : Between(s)' <=> Between(s)
    BY <2>1 DEF Between
  <2>3. ASSUME NEW n \in Names, n # Name[cur] PROVE Settled(n)'
    <3>1. mInputNotEnoughPipe'[n] = mInputNotEnoughPipe[n] /\ Settled(n)
      BY <1>6, <2>1, <2>3 DEF DeliverNext, RouteInv, TypeOK
    <3>2. QED
      BY <2>1, <2>2, <3>1 DEF Settled
  <2>4. rec.pipeline = cur /\ rec.frameNumNotCome = Total[cur] - come[cur] + 1
    BY <2>1 DEF InNext
  <2>5. CASE come[cur] = Total[cur]
    <3>1. rec.frameNumNotCome = 1 /\ ~Between(cur)
      BY <2>1, <2>4, <2>5 DEF Between, TypeOK
    <3>2. mInputNotEnoughPipe'[Name[cur]] = NoRecord
      BY <1>6, <2>1, <3>1, NameType DEF DeliverNext, TypeOK
    <3>3. ASSUME NEW n \in Names, n = Name[cur] PROVE Settled(n)'
      <4>1. \A s \in Requests : Name[s] = n => ~Between(s)
        BY <2>1, <3>1, <3>3 DEF RouteInv
      <4>2. QED
        BY <2>2, <3>2, <3>3, <4>1 DEF Settled
    <3>4. QED
      BY <2>1, <2>3, <3>3 DEF RouteInv
  <2>6. CASE come[cur] # Total[cur]
    <3>1. rec.frameNumNotCome # 1 /\ Between(cur)
      BY <2>1, <2>4, <2>6 DEF Between, TypeOK, InNext
    <3>2. rec.frameNumNotCome - 1 = Total[cur] - come[cur]
      BY <2>1, <2>4 DEF TypeOK
    <3>3. mInputNotEnoughPipe'[Name[cur]] =
             [pipeline |-> cur, frameNumNotCome |-> Total[cur] - come[cur]]
      BY <1>6, <2>1, <2>4, <3>1, <3>2, NameType DEF DeliverNext, TypeOK
    <3>4. mInputNotEnoughPipe'[Name[cur]] # NoRecord
      BY <2>1, <3>3 DEF NoRecord
    <3>5. ASSUME NEW n \in Names, n = Name[cur] PROVE Settled(n)'
      BY <2>1, <2>2, <3>1, <3>3, <3>4, <3>5 DEF Settled
    <3>6. QED
      BY <2>1, <2>3, <3>5 DEF RouteInv
  <2>7. QED
    BY <2>5, <2>6
<1>7. CASE UNCHANGED routeVars /\ fpc = "idle"
  <2>1. (\A n \in Names : Settled(n)' <=> Settled(n)) /\ (InFirst' <=> InFirst) /\ (InNext' <=> InNext)
        /\ \A s \in Requests : Between(s)' <=> Between(s)
    BY <1>7 DEF Settled, InFirst, InNext, Between, NewRecord
  <2>2. QED
    BY <1>7, <2>1 DEF RouteInv
<1>8. QED
  BY <1>1, <1>2, <1>3, <1>4, <1>5, <1>6, <1>7 DEF Next, vars, Worker, Task, TaskStarts,
     TaskFinishes, MoveToIdle, EraseBusy, NodeStarts, NodeEnds, FlushCalled, Flushing, FlushBusy,
     FlushRetests, FlushWaitsForNodes, destroy, QuickFinishCalled, Quick, FindSession, quickFinish


\* A frame goes to the pipeline of its own request.
LEMMA RoutedStep == TypeOK /\ FlagInv /\ RouteInv /\ FramesRouted /\ [Next]_vars => FramesRouted'
<1> SUFFICES ASSUME TypeOK, FlagInv, RouteInv, FramesRouted, [Next]_vars
             PROVE  FramesRouted'
  OBVIOUS
<1> USE SessionAssumption DEF TypeOK, FlagInv, FramesRouted, workerVars, pipeVars, sessionVars, flushVars
<1>1. ASSUME NEW r \in Requests, Drop(r)
      PROVE  FramesRouted'
  BY <1>1 DEF Drop
<1>2. ASSUME NEW r \in Requests, RejectUntagged(r)
      PROVE  FramesRouted'
  BY <1>2 DEF RejectUntagged
<1>3. ASSUME NEW r \in Requests, postProcess(r)
      PROVE  FramesRouted'
  BY <1>3 DEF postProcess
<1>4. ASSUME InsertBusy
      PROVE  FramesRouted'
  BY <1>4 DEF InsertBusy
<1>5. ASSUME SetUpAndStart
      PROVE  FramesRouted'
  BY <1>5 DEF SetUpAndStart
<1>6. ASSUME DeliverFirst
      PROVE  FramesRouted'
  BY <1>6 DEF DeliverFirst, enqueueSourceImage
<1>7. ASSUME DeliverNext
      PROVE  FramesRouted'
  <2>1. mInputNotEnoughPipe[Name[cur]].pipeline = cur
    BY <1>7 DEF DeliverNext, RouteInv, InNext
  <2>2. QED
    BY <1>7, <2>1 DEF DeliverNext, enqueueSourceImage
<1>8. ASSUME NEW r \in Requests, TaskStarts(r)
      PROVE  FramesRouted'
  BY <1>8 DEF TaskStarts
<1>9. ASSUME NEW r \in Requests, MoveToIdle(r)
      PROVE  FramesRouted'
  BY <1>9 DEF MoveToIdle
<1>10. ASSUME NEW r \in Requests, EraseBusy(r)
      PROVE  FramesRouted'
  BY <1>10 DEF EraseBusy
<1>11. ASSUME NEW r \in Requests, TaskFinishes(r)
      PROVE  FramesRouted'
  BY <1>11 DEF TaskFinishes
<1>12. ASSUME NEW r \in Requests, NodeStarts(r)
      PROVE  FramesRouted'
  BY <1>12 DEF NodeStarts
<1>13. ASSUME NEW r \in Requests, NodeEnds(r)
      PROVE  FramesRouted'
  BY <1>13 DEF NodeEnds
<1>14. ASSUME FlushCalled
      PROVE  FramesRouted'
  BY <1>14 DEF FlushCalled
<1>15. ASSUME FlushBusy
      PROVE  FramesRouted'
  BY <1>15 DEF FlushBusy
<1>16. ASSUME FlushRetests
      PROVE  FramesRouted'
  BY <1>16 DEF FlushRetests
<1>17. ASSUME FlushWaitsForNodes
      PROVE  FramesRouted'
  BY <1>17 DEF FlushWaitsForNodes
<1>18. ASSUME destroy
      PROVE  FramesRouted'
  BY <1>18 DEF destroy
<1>19. ASSUME NEW c \in Callers, QuickFinishCalled(c)
      PROVE  FramesRouted'
  BY <1>19 DEF QuickFinishCalled
<1>20. ASSUME NEW c \in Callers, FindSession(c)
      PROVE  FramesRouted'
  BY <1>20 DEF FindSession
<1>21. ASSUME NEW c \in Callers, NEW n \in Names, NEW b \in BOOLEAN, quickFinish(c, n, b)
      PROVE  FramesRouted'
  BY <1>21 DEF quickFinish
<1>22. CASE UNCHANGED vars
  BY <1>22 DEF vars
<1> HIDE DEF TypeOK, FlagInv, FramesRouted
<1>23. QED
  BY <1>1, <1>2, <1>3, <1>4, <1>5, <1>6, <1>7, <1>8, <1>9, <1>10, <1>11, <1>12, <1>13,
     <1>14, <1>15, <1>16, <1>17, <1>18, <1>19, <1>20, <1>21, <1>22
     DEF Next, Worker, Task, Flushing, Quick

----------------------------------------------------------------------------
(* The theorems. *)

LEMMA IInvInit == Init => IInv
<1> SUFFICES ASSUME Init
             PROVE  IInv
  OBVIOUS
<1> USE SessionAssumption DEF Init
<1>1. TypeOK
  <2>1. mInputNotEnoughPipe \in [Names -> Record]
    BY NewRecords
  <2>2. come \in [Requests -> Nat] /\ images \in [Requests -> Nat]
        /\ nodes \in [Requests -> 0..NodeTasks] /\ fedBy \in [Requests -> SUBSET Requests]
    OBVIOUS
  <2>3. mName \in [Requests -> Names \cup {<<>>}]
    OBVIOUS
  <2>4. released \in [Requests -> BOOLEAN] /\ {mFlushFlag, mFlushed, alive} \subseteq BOOLEAN
    OBVIOUS
  <2>5. QED
    BY <2>1, <2>2, <2>3, <2>4 DEF TypeOK
<1>2. FlagInv /\ BusyInv /\ WaitedInv
  BY DEF FlagInv, BusyInv, WaitedInv
<1>3. RecordInv /\ ImageInv
  BY DEF RecordInv, ImageInv, NoRecord
<1>4. CountInv
  <2>1. NodeTaskSet = {}
    BY DEF NodeTaskSet
  <2>2. QED
    BY <2>1, FS_EmptySet DEF CountInv
<1>5. QED
  BY <1>1, <1>2, <1>3, <1>4 DEF IInv

LEMMA IInvStep == IInv /\ [Next]_vars => IInv'
BY CountStep, TypeStep, FlagStep, RecordStep, BusyStep, WaitedStep, ImageStep DEF IInv

LEMMA IInvAlways == Spec => []IInv
BY IInvInit, IInvStep, PTL DEF Spec

\* The types of the session's state hold in every reachable state; in
\* particular increaseUsingThreadNum never takes mNodeThreadNum below zero.
THEOREM TypeCorrect == Spec => []TypeOK
<1>1. IInv => TypeOK
  BY DEF IInv
<1>2. QED
  BY <1>1, IInvAlways, PTL

\* When flush has returned nothing of any request is left in the session, so
\* that ~PostProcessor may delete it: with any number of requests, frames and
\* node tasks, whoever cancels what while flush runs.
THEOREM FlushQuiet == Spec => []FlushedIsQuiet
<1>1. IInv => FlushedIsQuiet
  <2> SUFFICES ASSUME IInv, fpc \in {"returned", "destroyed"}
               PROVE  /\ mBusyPipelines = {} /\ tpc = "idle"
                      /\ \A r \in Requests : task[r] \in {"none", "done"} /\ nodes[r] = 0 /\ images[r] = 0
    BY DEF FlushedIsQuiet
  <2>1. mBusyPipelines = {} /\ tpc = "idle" /\ \A r \in Requests : nodes[r] = 0
    BY DEF IInv, WaitedInv, FlagInv
  <2>2. \A r \in Requests : task[r] \in {"none", "done"}
    BY <2>1 DEF IInv, BusyInv, TypeOK
  <2>3. QED
    BY <2>1, <2>2 DEF IInv, ImageInv
<1>2. QED
  BY <1>1, IInvAlways, PTL

\* Frames are routed to their own request for every assignment of names to
\* requests, equal ones included, as long as the camera delivers the frames
\* that a request announces.
THEOREM FramesReachTheirRequest == AllFramesCome => (Spec => []FramesRouted)
<1> SUFFICES ASSUME AllFramesCome
             PROVE  Spec => []FramesRouted
  OBVIOUS
<1> DEFINE J == IInv /\ RouteInv /\ FramesRouted
<1>1. Init => J
  <2> SUFFICES ASSUME Init
               PROVE  RouteInv /\ FramesRouted
    BY IInvInit
  <2>1. \A n \in Names : Settled(n)
    BY DEF Init, Settled, Between
  <2>2. QED
    BY <2>1 DEF Init, RouteInv, FramesRouted
<1>2. J /\ [Next]_vars => J'
  BY IInvStep, RouteStep, RoutedStep DEF IInv
<1>3. J => FramesRouted
  OBVIOUS
<1> HIDE DEF J
<1>4. QED
  BY <1>1, <1>2, <1>3, PTL DEF Spec

=============================================================================
