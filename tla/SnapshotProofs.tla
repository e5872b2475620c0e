--------------------------- MODULE SnapshotProofs ---------------------------
(***************************************************************************)
(* Safety of the snapshot control, for every set of tasks, sessions and    *)
(* camera modes, and every capacity.                                       *)
(***************************************************************************)
EXTENDS Snapshot, FiniteSetTheorems, TLAPS

----------------------------------------------------------------------------
(* The inductive invariant. *)

\* What the worker, the timers and the counts range over.
TypeInv ==
    /\ mMialgoTaskStatus \in [Sessions -> Nat] /\ sent \subseteq Tasks /\ over \subseteq sent
    /\ mRecord \in [Objects -> BOOLEAN] /\ mCommands \in {"none", "CONTINUE", "MUTE"}
    /\ wpc \in {"wait", "merge", "arm", "cancel"} /\ mAppStatus \in {"ACTIVATED", "MUTED"}

\* Where the command that fits the records is: still in mCommands, taken by
\* the worker, or already obeyed.
CommandInv ==
    /\ mCommands # "none" => mCommands = Command(mRecord)
    /\ mCommands = "none" /\ wpc = "merge" => tempCommands = Command(mRecord)
    /\ mCommands = "none" /\ wpc # "merge" /\ mAppStatus = "MUTED" => Command(mRecord) = "MUTE"

\* A muted application has its timer, or the worker is about to set it; the
\* worker cancels the timer of an active one only.
TimerInv ==
    /\ wpc = "cancel" => mAppStatus = "ACTIVATED"
    /\ mAppStatus = "MUTED" => wpc = "arm" \/ "app" \in armed \cup posted \cup {io}

\* Finitely many units are outstanding at any time.
FiniteInv == \A s \in Sessions : IsFiniteSet(Outstanding(s))

\* A task that is sent and not over is counted, unless it costs nothing or its
\* number is not its own: only then is its end ignored.
KeyInv ==
    \A f \in sent \ over : Consumption[f] # 0 /\ ~Shared(f) => Key(f) \in mMialgoTaskFrame

CountInv == FiniteInv /\ CountsOutstanding /\ KeyInv

IInv == TypeInv /\ CountInv /\ CommandInv /\ TimerInv

----------------------------------------------------------------------------
(* The units of consumption of a set of tasks. *)

Units(F, s) == UNION {{f} \X (1 .. Consumption[f]) : f \in {g \in F : SessionOf[g] = s}}

\* One task has as many units as it consumes.
LEMMA UnitsOfTask ==
  ASSUME NEW f \in Tasks
  PROVE  /\ IsFiniteSet({f} \X (1 .. Consumption[f]))
         /\ Cardinality({f} \X (1 .. Consumption[f])) = Consumption[f]
<1>1. Consumption[f] \in Nat
  BY SnapshotAssumption
<1>2. IsFiniteSet({f}) /\ Cardinality({f}) = 1
  BY FS_Singleton
<1>3. IsFiniteSet(1 .. Consumption[f]) /\ Cardinality(1 .. Consumption[f]) = Consumption[f]
  BY <1>1, FS_Interval
<1>4. /\ IsFiniteSet({f} \X (1 .. Consumption[f]))
      /\ Cardinality({f} \X (1 .. Consumption[f])) = Cardinality({f}) * Cardinality(1 .. Consumption[f])
  <2>1. ASSUME NEW S, IsFiniteSet(S), NEW T, IsFiniteSet(T)
        PROVE  IsFiniteSet(S \X T) /\ Cardinality(S \X T) = Cardinality(S) * Cardinality(T)
    BY <2>1, FS_Product
  <2>2. QED
    BY <1>2, <1>3, <2>1
<1>5. QED
  BY <1>1, <1>2, <1>3, <1>4

\* A further task adds its units to its session, and to no other.
LEMMA UnitsAdded ==
  ASSUME NEW F \in SUBSET Tasks, NEW f \in Tasks, f \notin F, NEW s \in Sessions,
         IsFiniteSet(Units(F, s))
  PROVE  /\ IsFiniteSet(Units(F \cup {f}, s)) /\ Cardinality(Units(F, s)) \in Nat
         /\ Cardinality(Units(F \cup {f}, s)) =
              Cardinality(Units(F, s)) + (IF s = SessionOf[f] THEN Consumption[f] ELSE 0)
<1> DEFINE U == Units(F, s)
           T == {f} \X (1 .. Consumption[f])
<1>1. CASE s = SessionOf[f]
  <2>1. Units(F \cup {f}, s) = U \cup T
    BY <1>1 DEF Units
  <2>2. U \cap T = {}
    BY DEF Units
  <2>3. IsFiniteSet(T) /\ Cardinality(T) = Consumption[f] /\ Consumption[f] \in Nat
    BY UnitsOfTask, SnapshotAssumption
  <2> HIDE DEF T, U
  <2>4. IsFiniteSet(U) /\ Cardinality(U) \in Nat
    BY FS_CardinalityType DEF U
  <2>5. IsFiniteSet(U \cup T) /\ Cardinality(U \cup T) = Cardinality(U) + Cardinality(T) - Cardinality({})
    BY <2>2, <2>3, <2>4, FS_Union
  <2>6. Cardinality({}) = 0
    BY FS_EmptySet
  <2>7. Cardinality(U \cup T) = Cardinality(U) + Consumption[f]
    BY <2>3, <2>4, <2>5, <2>6
  <2>8. QED
    BY <1>1, <2>1, <2>4, <2>5, <2>7 DEF U
<1>2. CASE s # SessionOf[f]
  <2>1. Units(F \cup {f}, s) = U
    BY <1>2 DEF Units
  <2>2. Cardinality(U) \in Nat
    BY FS_CardinalityType
  <2>3. QED
    BY <1>2, <2>1, <2>2
<1>3. QED
  BY <1>1, <1>2

\* And takes them away when it is over.
LEMMA UnitsRemoved ==
  ASSUME NEW F \in SUBSET Tasks, NEW f \in F, NEW s \in Sessions, IsFiniteSet(Units(F, s))
  PROVE  /\ IsFiniteSet(Units(F \ {f}, s)) /\ Cardinality(Units(F \ {f}, s)) \in Nat
         /\ Cardinality(Units(F, s)) =
              Cardinality(Units(F \ {f}, s)) + (IF s = SessionOf[f] THEN Consumption[f] ELSE 0)
<1>1. Units(F \ {f}, s) \in SUBSET Units(F, s)
  BY DEF Units
<1>2. IsFiniteSet(Units(F \ {f}, s))
  BY <1>1, FS_Subset
<1>3. (F \ {f}) \cup {f} = F /\ F \ {f} \in SUBSET Tasks /\ f \notin F \ {f} /\ f \in Tasks
  OBVIOUS
<1> DEFINE G == F \ {f}
<1>4. /\ Cardinality(Units(G, s)) \in Nat
      /\ Cardinality(Units(G \cup {f}, s)) =
           Cardinality(Units(G, s)) + (IF s = SessionOf[f] THEN Consumption[f] ELSE 0)
  <2> HIDE DEF G
  <2>1. G \in SUBSET Tasks /\ f \in Tasks /\ f \notin G /\ IsFiniteSet(Units(G, s))
    BY <1>2, <1>3 DEF G
  <2>2. QED
    BY <2>1, UnitsAdded
<1>5. QED
  BY <1>2, <1>3, <1>4

----------------------------------------------------------------------------
(* What the steps do to the records. *)

\* A report leaves the command that fits the records.
Reported ==
    /\ mRecord' \in [Objects -> BOOLEAN]
    /\ UNCHANGED <<mRecord, mCommands>> \/ (mCommands' # "none" /\ mCommands' = Command(mRecord'))

\* A command is to go on or to stop.
LEMMA CommandType == \A rec : Command(rec) \in {"CONTINUE", "MUTE"}
BY DEF Command

\* onRecordUpdate reports.
LEMMA UpdateFacts ==
  ASSUME TypeInv, NEW can \in BOOLEAN, NEW o \in Objects, onRecordUpdate(can, o)
  PROVE  Reported
BY CommandType DEF TypeInv, onRecordUpdate, Reported

\* A task that starts or ends reports, unless there are too many categories.
LEMMA CountFacts ==
  ASSUME TypeInv, NEW f \in Tasks, NEW to \in BOOLEAN, CountTask(f, to)
  PROVE  Reported
<1>1. "monitor" \in Objects
  BY DEF Objects
<1>2. \/ \E can \in BOOLEAN : onRecordUpdate(can, "monitor")
      \/ UNCHANGED <<mRecord, mCommands>>
  BY DEF CountTask, canMialgoHandleNextSnapshot
<1>3. QED
  BY <1>1, <1>2, UpdateFacts DEF Reported, TypeInv

\* Every step reports, or takes the commands and leaves the records.
LEMMA RecordStep ==
  TypeInv /\ [Next]_vars => Reported \/ (TakeCommands /\ UNCHANGED mRecord)
<1> SUFFICES ASSUME TypeInv, [Next]_vars
             PROVE  Reported \/ (TakeCommands /\ UNCHANGED mRecord)
  OBVIOUS
<1> USE SnapshotAssumption
<1>1. ASSUME UNCHANGED <<mRecord, mCommands>> PROVE Reported
  BY <1>1 DEF Reported, TypeInv
<1>2. ASSUME NEW o \in Objects, NEW can \in BOOLEAN, onRecordUpdate(can, o) PROVE Reported
  BY <1>2, UpdateFacts
<1>3. ASSUME NEW f \in Tasks, NEW to \in BOOLEAN, onMialgoTaskNumChanged(f, to)
      PROVE  Reported
  BY <1>3, CountFacts DEF onMialgoTaskNumChanged
<1>4. ASSUME NEW f \in Tasks, NEW to \in BOOLEAN, UncountedTask(f, to) PROVE Reported
  BY <1>1, <1>2, <1>4 DEF UncountedTask, Objects
<1>5. ASSUME NEW s \in Sessions, deleteMialgoTaskSig(s) PROVE Reported
  BY <1>1, <1>2, <1>5 DEF deleteMialgoTaskSig, Objects
<1>6. ASSUME NEW m \in Modes, ReportBuffers(m) \/ setRetired(m) PROVE Reported
  BY <1>2, <1>6 DEF ReportBuffers, setRetired, Objects
<1>7. ASSUME mMialgoTimeOutHandler PROVE Reported
  BY <1>2, <1>7 DEF mMialgoTimeOutHandler, Objects
<1>8. QED
  BY <1>1, <1>3, <1>4, <1>5, <1>6, <1>7
     DEF Next, vars, Worker, TimerThread, SetWakeTimer, onMihalBufferChanged, TakeCommands,
         MergeCommands, SetAppTimer, Expire, CallbackStarts, ForceActivate

----------------------------------------------------------------------------
(* Types and counts. *)

\* The new count of a session is a number.
LEMMA TaskCountType ==
  ASSUME TypeInv, NEW f \in Tasks, NEW to \in BOOLEAN
  PROVE  /\ SessionOf[f] \in Sessions /\ Consumption[f] \in Nat /\ TaskCount(f, to) \in Nat
         /\ to => TaskCount(f, to) = mMialgoTaskStatus[SessionOf[f]] + Consumption[f]
         /\ ~to /\ mMialgoTaskStatus[SessionOf[f]] < Consumption[f] => TaskCount(f, to) = 0
         /\ ~to /\ mMialgoTaskStatus[SessionOf[f]] >= Consumption[f] =>
              TaskCount(f, to) = mMialgoTaskStatus[SessionOf[f]] - Consumption[f]
<1>1. SessionOf[f] \in Sessions /\ Consumption[f] \in Nat
  BY SnapshotAssumption
<1>2. mMialgoTaskStatus[SessionOf[f]] \in Nat
  BY <1>1 DEF TypeInv
<1>3. QED
  BY <1>1, <1>2 DEF TaskCount


\* Every step keeps the types.
LEMMA TypeStep == TypeInv /\ [Next]_vars => TypeInv'
<1> SUFFICES ASSUME TypeInv, [Next]_vars
             PROVE  TypeInv'
  OBVIOUS
<1> USE SnapshotAssumption DEF countVars, historyVars, categoryVars, modeVars, workerVars, timerVars
<1> DEFINE RecordType == mRecord' \in [Objects -> BOOLEAN] /\ mCommands' \in {"none", "CONTINUE", "MUTE"}
<1>0. RecordType
  BY RecordStep, CommandType DEF Reported, TypeInv, TakeCommands
<1> USE DEF TypeInv
<1>1. ASSUME NEW f \in Tasks, NEW to \in BOOLEAN, onMialgoTaskNumChanged(f, to)
      PROVE  TypeInv'
  <2>1. SessionOf[f] \in Sessions /\ TaskCount(f, to) \in Nat
    BY TaskCountType
  <2>2. /\ mMialgoTaskStatus' \in [Sessions -> Nat]
        /\ sent' \subseteq Tasks /\ over' \subseteq sent'
    BY <1>1, <2>1 DEF onMialgoTaskNumChanged, CountTask, ReportTask
  <2>3. QED
    BY <1>1, <1>0, <2>2 DEF onMialgoTaskNumChanged
<1>2. ASSUME NEW f \in Tasks, NEW to \in BOOLEAN, UncountedTask(f, to)
      PROVE  TypeInv'
  BY <1>2, <1>0 DEF UncountedTask, ReportTask
<1>3. ASSUME NEW op \in {"arm", "cancel"}, SetWakeTimer(op)
      PROVE  TypeInv'
  BY <1>3, <1>0 DEF SetWakeTimer
<1>4. ASSUME NEW s \in Sessions, deleteMialgoTaskSig(s)
      PROVE  TypeInv'
  BY <1>4, <1>0 DEF deleteMialgoTaskSig
<1>5. ASSUME NEW m \in Modes, onMihalBufferChanged(m)
      PROVE  TypeInv'
  BY <1>5, <1>0 DEF onMihalBufferChanged
<1>6. ASSUME NEW m \in Modes, ReportBuffers(m)
      PROVE  TypeInv'
  BY <1>6, <1>0 DEF ReportBuffers
<1>7. ASSUME NEW m \in Modes, setRetired(m)
      PROVE  TypeInv'
  BY <1>7, <1>0 DEF setRetired
<1>8. ASSUME TakeCommands
      PROVE  TypeInv'
  BY <1>8, <1>0 DEF TakeCommands
<1>9. ASSUME MergeCommands
      PROVE  TypeInv'
  BY <1>9, <1>0 DEF MergeCommands
<1>10. ASSUME SetAppTimer
      PROVE  TypeInv'
  BY <1>10, <1>0 DEF SetAppTimer
<1>11. ASSUME NEW t \in Timers, Expire(t)
      PROVE  TypeInv'
  BY <1>11, <1>0 DEF Expire
<1>12. ASSUME NEW t \in Timers, CallbackStarts(t)
      PROVE  TypeInv'
  BY <1>12, <1>0 DEF CallbackStarts
<1>13. ASSUME ForceActivate
      PROVE  TypeInv'
  BY <1>13, <1>0 DEF ForceActivate
<1>14. ASSUME mMialgoTimeOutHandler
      PROVE  TypeInv'
  BY <1>14, <1>0 DEF mMialgoTimeOutHandler
<1>15. CASE UNCHANGED vars
  BY <1>15 DEF vars
<1> HIDE DEF TypeInv
<1>16. QED
  BY <1>1, <1>2, <1>3, <1>4, <1>5, <1>6, <1>7, <1>8, <1>9, <1>10, <1>11, <1>12, <1>13,
     <1>14, <1>15 DEF Next, Worker, TimerThread


\* A step that leaves the tasks alone, and no count higher.
LEMMA CountsNotRaised ==
  ASSUME TypeInv, CountInv, UNCHANGED <<sent, over, mMialgoTaskFrame>>,
         \A s \in Sessions : mMialgoTaskStatus'[s] \in {0, mMialgoTaskStatus[s]}
  PROVE  CountInv'
<1>1. \A s \in Sessions : Outstanding(s)' = Outstanding(s)
  BY DEF Outstanding, Unfinished
<1>2. \A s \in Sessions : Cardinality(Outstanding(s)) \in Nat
  BY FS_CardinalityType DEF CountInv, FiniteInv
<1>3. (FiniteInv /\ CountsOutstanding)'
  BY <1>1, <1>2 DEF CountInv, FiniteInv, CountsOutstanding
<1>4. KeyInv'
  BY DEF CountInv, KeyInv
<1>5. QED
  BY <1>3, <1>4 DEF CountInv


\* The tasks whose units may be counted.
Live == {f \in sent : f \notin over \/ Shared(f)}

\* Their units are what is outstanding.
LEMMA LiveUnits ==
  /\ \A s : Outstanding(s) = Units(Live, s)
  /\ \A s : Outstanding(s)' = Units(Live', s)
  /\ TypeInv => Live \in SUBSET Tasks
<1>1. \A s : Unfinished(s) = {f \in Live : SessionOf[f] = s}
  BY DEF Unfinished, Live
<1>2. \A s : Unfinished(s)' = {f \in Live' : SessionOf[f] = s}
  BY DEF Unfinished, Live, Shared
<1>3. QED
  BY <1>1, <1>2 DEF Outstanding, Units, Live, TypeInv

\* A report keeps the counts below what is outstanding if it raises them only
\* for a task that is sent, and lowers them for one that is over.
LEMMA ReportKeepsCounts ==
  ASSUME TypeInv, CountInv, NEW f \in Tasks, NEW to \in BOOLEAN, ReportTask(f, to),
         NEW n \in Nat, mMialgoTaskStatus' = [mMialgoTaskStatus EXCEPT ![SessionOf[f]] = n],
         to => n = mMialgoTaskStatus[SessionOf[f]] + Consumption[f],
         ~to => n = 0 \/ n <= mMialgoTaskStatus[SessionOf[f]],
         ~to /\ f \in sent /\ ~Shared(f) => n = 0 \/ n = mMialgoTaskStatus[SessionOf[f]] - Consumption[f]
  PROVE  (FiniteInv /\ CountsOutstanding)'
<1>1. SessionOf[f] \in Sessions /\ Consumption[f] \in Nat
  BY SnapshotAssumption
<1>2. ASSUME NEW s \in Sessions
      PROVE  IsFiniteSet(Outstanding(s)') /\ mMialgoTaskStatus'[s] \in 0 .. Cardinality(Outstanding(s)')
  <2> DEFINE F == Live
             k == Cardinality(Units(F, s))
  <2>1. /\ Outstanding(s) = Units(F, s) /\ Outstanding(s)' = Units(Live', s)
        /\ F \in SUBSET Tasks
    BY LiveUnits
  <2>2. IsFiniteSet(Units(F, s)) /\ mMialgoTaskStatus[s] \in Nat /\ mMialgoTaskStatus[s] \in 0 .. k
    BY <2>1 DEF CountInv, FiniteInv, CountsOutstanding, TypeInv
  <2>3. k \in Nat
    BY <2>2, FS_CardinalityType
  <2>4. mMialgoTaskStatus'[s] = IF s = SessionOf[f] THEN n ELSE mMialgoTaskStatus[s]
    BY <1>1 DEF TypeInv
  <2>5. CASE to
    <3>1. f \notin F /\ Live' = F \cup {f}
      BY <2>5 DEF ReportTask, Live, Shared, TypeInv
    <3>2. /\ IsFiniteSet(Units(F \cup {f}, s))
          /\ Cardinality(Units(F \cup {f}, s)) = k + (IF s = SessionOf[f] THEN Consumption[f] ELSE 0)
      BY <2>1, <2>2, <3>1, UnitsAdded
    <3> HIDE DEF F, k
    <3>3. QED
      BY <1>1, <2>1, <2>2, <2>3, <2>4, <2>5, <3>1, <3>2
  <2>6. CASE ~to /\ f \in sent /\ ~Shared(f)
    <3>1. f \in F /\ Live' = F \ {f}
      BY <2>6 DEF ReportTask, Live, Shared
    <3>2. /\ IsFiniteSet(Units(F \ {f}, s)) /\ Cardinality(Units(F \ {f}, s)) \in Nat
          /\ k = Cardinality(Units(F \ {f}, s)) + (IF s = SessionOf[f] THEN Consumption[f] ELSE 0)
      BY <2>1, <2>2, <3>1, UnitsRemoved
    <3> HIDE DEF F, k
    <3>3. QED
      BY <1>1, <2>1, <2>2, <2>3, <2>4, <2>6, <3>1, <3>2
  <2>7. CASE ~to /\ ~(f \in sent /\ ~Shared(f))
    <3>1. Live' = F
      BY <2>7 DEF ReportTask, Live, Shared
    <3> HIDE DEF F, k
    <3>2. QED
      BY <1>1, <2>1, <2>2, <2>3, <2>4, <2>7, <3>1 DEF k
  <2>8. QED
    BY <2>5, <2>6, <2>7
<1>3. QED
  BY <1>2 DEF FiniteInv, CountsOutstanding

\* A report takes no number away from a task that is still to end.
LEMMA ReportKeepsKeys ==
  ASSUME TypeInv, KeyInv, NEW f \in Tasks, NEW to \in BOOLEAN, ReportTask(f, to),
         to /\ Consumption[f] # 0 => Key(f) \in mMialgoTaskFrame',
         mMialgoTaskFrame \ {Key(f)} \subseteq mMialgoTaskFrame'
  PROVE  KeyInv'
<1> SUFFICES ASSUME NEW g \in (sent \ over)', Consumption[g] # 0, ~Shared(g)
             PROVE  Key(g) \in mMialgoTaskFrame'
  BY DEF KeyInv, Key, Shared
<1>1. CASE g = f
  BY <1>1 DEF ReportTask, TypeInv
<1>2. CASE g # f
  <2>1. g \in sent \ over /\ g \in Tasks
    BY <1>2 DEF ReportTask, TypeInv
  <2>2. Key(g) # Key(f)
    BY <1>2, <2>1 DEF Shared, Key
  <2>3. QED
    BY <2>1, <2>2 DEF KeyInv
<1>3. QED
  BY <1>1, <1>2


\* No count exceeds what is outstanding.
LEMMA CountsStep == TypeInv /\ CountInv /\ [Next]_vars => CountInv'
<1> SUFFICES ASSUME TypeInv, CountInv, [Next]_vars
             PROVE  CountInv'
  OBVIOUS
<1> USE SnapshotAssumption DEF countVars, historyVars, categoryVars, modeVars, workerVars, timerVars
<1>1. ASSUME NEW f \in Tasks, NEW to \in BOOLEAN, onMialgoTaskNumChanged(f, to)
      PROVE  CountInv'
  <2>1. /\ ReportTask(f, to)
        /\ mMialgoTaskStatus' = [mMialgoTaskStatus EXCEPT ![SessionOf[f]] = TaskCount(f, to)]
    BY <1>1 DEF onMialgoTaskNumChanged, CountTask
  <2>2. mMialgoTaskStatus[SessionOf[f]] \in Nat /\ Consumption[f] \in Nat
    BY TaskCountType DEF TypeInv
  <2>3. /\ TaskCount(f, to) \in Nat
        /\ to => TaskCount(f, to) = mMialgoTaskStatus[SessionOf[f]] + Consumption[f]
        /\ ~to => \/ TaskCount(f, to) = 0
                  \/ TaskCount(f, to) = mMialgoTaskStatus[SessionOf[f]] - Consumption[f]
    BY <2>2, TaskCountType
  <2>4. ~to => TaskCount(f, to) = 0 \/ TaskCount(f, to) <= mMialgoTaskStatus[SessionOf[f]]
    BY <2>2, <2>3
  <2>5. (FiniteInv /\ CountsOutstanding)'
    BY <2>1, <2>3, <2>4, ReportKeepsCounts
  <2>6. /\ to /\ Consumption[f] # 0 => Key(f) \in mMialgoTaskFrame'
        /\ mMialgoTaskFrame \ {Key(f)} \subseteq mMialgoTaskFrame'
    BY <1>1 DEF onMialgoTaskNumChanged, CountTask
  <2>7. KeyInv'
    BY <2>1, <2>6, ReportKeepsKeys DEF CountInv
  <2>8. QED
    BY <2>5, <2>7 DEF CountInv
<1>2. ASSUME NEW f \in Tasks, NEW to \in BOOLEAN, UncountedTask(f, to)
      PROVE  CountInv'
  <2> DEFINE n == mMialgoTaskStatus[SessionOf[f]]
  <2>1. ReportTask(f, to) /\ UNCHANGED <<mMialgoTaskStatus, mMialgoTaskFrame>> /\ ~Counted(f, to)
    BY <1>2 DEF UncountedTask
  <2>2. n \in Nat /\ SessionOf[f] \in Sessions /\ Consumption[f] \in Nat
    BY TaskCountType DEF TypeInv
  <2>3. mMialgoTaskStatus' = [mMialgoTaskStatus EXCEPT ![SessionOf[f]] = n]
    BY <2>1, <2>2 DEF TypeInv
  <2>4. to => Consumption[f] = 0
    BY <2>1 DEF Counted
  <2>5. ~to /\ f \in sent /\ ~Shared(f) => Consumption[f] = 0
    BY <2>1 DEF Counted, CountInv, KeyInv, ReportTask
  <2>6. (FiniteInv /\ CountsOutstanding)'
    <3> HIDE DEF n
    <3>1. /\ to => n = n + Consumption[f]
          /\ ~to => n = 0 \/ n <= n
          /\ ~to /\ f \in sent /\ ~Shared(f) => n = 0 \/ n = n - Consumption[f]
      BY <2>2, <2>4, <2>5
    <3>2. n = mMialgoTaskStatus[SessionOf[f]]
      BY DEF n
    <3>3. QED
      BY <2>1, <2>2, <2>3, <3>1, <3>2, ReportKeepsCounts
  <2>7. KeyInv'
    BY <2>1, <2>4, ReportKeepsKeys DEF CountInv
  <2>8. QED
    BY <2>6, <2>7 DEF CountInv
<1>3. ASSUME NEW op \in {"arm", "cancel"}, SetWakeTimer(op)
      PROVE  CountInv'
  BY <1>3, CountsNotRaised DEF SetWakeTimer, TypeInv
<1>4. ASSUME NEW s \in Sessions, deleteMialgoTaskSig(s)
      PROVE  CountInv'
  BY <1>4, CountsNotRaised DEF deleteMialgoTaskSig, TypeInv
<1>5. ASSUME NEW m \in Modes, onMihalBufferChanged(m)
      PROVE  CountInv'
  BY <1>5, CountsNotRaised DEF onMihalBufferChanged, TypeInv
<1>6. ASSUME NEW m \in Modes, ReportBuffers(m)
      PROVE  CountInv'
  BY <1>6, CountsNotRaised DEF ReportBuffers, TypeInv
<1>7. ASSUME NEW m \in Modes, setRetired(m)
      PROVE  CountInv'
  BY <1>7, CountsNotRaised DEF setRetired, TypeInv
<1>8. ASSUME TakeCommands
      PROVE  CountInv'
  BY <1>8, CountsNotRaised DEF TakeCommands, TypeInv
<1>9. ASSUME MergeCommands
      PROVE  CountInv'
  BY <1>9, CountsNotRaised DEF MergeCommands, TypeInv
<1>10. ASSUME SetAppTimer
      PROVE  CountInv'
  BY <1>10, CountsNotRaised DEF SetAppTimer, TypeInv
<1>11. ASSUME NEW t \in Timers, Expire(t)
      PROVE  CountInv'
  BY <1>11, CountsNotRaised DEF Expire, TypeInv
<1>12. ASSUME NEW t \in Timers, CallbackStarts(t)
      PROVE  CountInv'
  BY <1>12, CountsNotRaised DEF CallbackStarts, TypeInv
<1>13. ASSUME ForceActivate
      PROVE  CountInv'
  BY <1>13, CountsNotRaised DEF ForceActivate, TypeInv
<1>14. ASSUME mMialgoTimeOutHandler
      PROVE  CountInv'
  BY <1>14, CountsNotRaised DEF mMialgoTimeOutHandler, TypeInv
<1>15. CASE UNCHANGED vars
  BY <1>15, CountsNotRaised DEF vars
<1>16. QED
  BY <1>1, <1>2, <1>3, <1>4, <1>5, <1>6, <1>7, <1>8, <1>9, <1>10, <1>11, <1>12, <1>13,
     <1>14, <1>15 DEF Next, Worker, TimerThread


----------------------------------------------------------------------------
(* Commands and the timer. *)

\* A step of another thread, whatever it reports.
LEMMA OthersKeepCommands ==
  ASSUME TypeInv, CommandInv, Reported, UNCHANGED <<wpc, tempCommands>>,
         mAppStatus' \in {mAppStatus, "ACTIVATED"}
  PROVE  CommandInv'
<1>1. CASE UNCHANGED <<mRecord, mCommands>>
  BY <1>1 DEF CommandInv
<1>2. CASE mCommands' # "none" /\ mCommands' = Command(mRecord')
  BY <1>2 DEF CommandInv
<1>3. QED
  BY <1>1, <1>2 DEF Reported


\* The command that fits the records is not lost.
LEMMA CommandStep == TypeInv /\ CommandInv /\ [Next]_vars => CommandInv'
<1> SUFFICES ASSUME TypeInv, CommandInv, [Next]_vars
             PROVE  CommandInv'
  OBVIOUS
<1> USE SnapshotAssumption DEF countVars, historyVars, categoryVars, modeVars, workerVars, timerVars
<1>0. Reported \/ TakeCommands
  BY RecordStep
<1>1. ASSUME NEW f \in Tasks, NEW to \in BOOLEAN, onMialgoTaskNumChanged(f, to)
      PROVE  CommandInv'
  <2>1. wpc' = wpc /\ tempCommands' = tempCommands /\ mAppStatus' \in {mAppStatus, "ACTIVATED"}
    BY <1>1 DEF onMialgoTaskNumChanged
  <2>2. ~TakeCommands
    BY <2>1 DEF TakeCommands
  <2>3. QED
    BY <1>0, <2>1, <2>2, OthersKeepCommands
<1>2. ASSUME NEW f \in Tasks, NEW to \in BOOLEAN, UncountedTask(f, to)
      PROVE  CommandInv'
  <2>1. wpc' = wpc /\ tempCommands' = tempCommands /\ mAppStatus' \in {mAppStatus, "ACTIVATED"}
    BY <1>2 DEF UncountedTask
  <2>2. ~TakeCommands
    BY <2>1 DEF TakeCommands
  <2>3. QED
    BY <1>0, <2>1, <2>2, OthersKeepCommands
<1>3. ASSUME NEW op \in {"arm", "cancel"}, SetWakeTimer(op)
      PROVE  CommandInv'
  <2>1. wpc' = wpc /\ tempCommands' = tempCommands /\ mAppStatus' \in {mAppStatus, "ACTIVATED"}
    BY <1>3 DEF SetWakeTimer
  <2>2. ~TakeCommands
    BY <2>1 DEF TakeCommands
  <2>3. QED
    BY <1>0, <2>1, <2>2, OthersKeepCommands
<1>4. ASSUME NEW s \in Sessions, deleteMialgoTaskSig(s)
      PROVE  CommandInv'
  <2>1. wpc' = wpc /\ tempCommands' = tempCommands /\ mAppStatus' \in {mAppStatus, "ACTIVATED"}
    BY <1>4 DEF deleteMialgoTaskSig
  <2>2. ~TakeCommands
    BY <2>1 DEF TakeCommands
  <2>3. QED
    BY <1>0, <2>1, <2>2, OthersKeepCommands
<1>5. ASSUME NEW m \in Modes, onMihalBufferChanged(m)
      PROVE  CommandInv'
  <2>1. wpc' = wpc /\ tempCommands' = tempCommands /\ mAppStatus' \in {mAppStatus, "ACTIVATED"}
    BY <1>5 DEF onMihalBufferChanged
  <2>2. ~TakeCommands
    BY <2>1 DEF TakeCommands
  <2>3. QED
    BY <1>0, <2>1, <2>2, OthersKeepCommands
<1>6. ASSUME NEW m \in Modes, ReportBuffers(m)
      PROVE  CommandInv'
  <2>1. wpc' = wpc /\ tempCommands' = tempCommands /\ mAppStatus' \in {mAppStatus, "ACTIVATED"}
    BY <1>6 DEF ReportBuffers
  <2>2. ~TakeCommands
    BY <2>1 DEF TakeCommands
  <2>3. QED
    BY <1>0, <2>1, <2>2, OthersKeepCommands
<1>7. ASSUME NEW m \in Modes, setRetired(m)
      PROVE  CommandInv'
  <2>1. wpc' = wpc /\ tempCommands' = tempCommands /\ mAppStatus' \in {mAppStatus, "ACTIVATED"}
    BY <1>7 DEF setRetired
  <2>2. ~TakeCommands
    BY <2>1 DEF TakeCommands
  <2>3. QED
    BY <1>0, <2>1, <2>2, OthersKeepCommands
<1>8. ASSUME TakeCommands
      PROVE  CommandInv'
  <2>1. /\ tempCommands' = mCommands /\ mCommands # "none" /\ mCommands' = "none" /\ wpc' = "merge"
        /\ mRecord' = mRecord
    BY <1>8 DEF TakeCommands
  <2>2. QED
    BY <2>1 DEF CommandInv
<1>9. ASSUME MergeCommands
      PROVE  CommandInv'
  <2>1. /\ wpc = "merge" /\ wpc' # "merge" /\ UNCHANGED <<mRecord, mCommands>>
        /\ mAppStatus' = "MUTED" => tempCommands = "MUTE"
    BY <1>9 DEF MergeCommands
  <2>2. QED
    BY <2>1 DEF CommandInv
<1>10. ASSUME SetAppTimer
      PROVE  CommandInv'
  <2>1. wpc # "merge" /\ wpc' # "merge" /\ UNCHANGED <<mRecord, mCommands, mAppStatus>>
    BY <1>10 DEF SetAppTimer
  <2>2. QED
    BY <2>1 DEF CommandInv
<1>11. ASSUME NEW t \in Timers, Expire(t)
      PROVE  CommandInv'
  <2>1. wpc' = wpc /\ tempCommands' = tempCommands /\ mAppStatus' \in {mAppStatus, "ACTIVATED"}
    BY <1>11 DEF Expire
  <2>2. ~TakeCommands
    BY <2>1 DEF TakeCommands
  <2>3. QED
    BY <1>0, <2>1, <2>2, OthersKeepCommands
<1>12. ASSUME NEW t \in Timers, CallbackStarts(t)
      PROVE  CommandInv'
  <2>1. wpc' = wpc /\ tempCommands' = tempCommands /\ mAppStatus' \in {mAppStatus, "ACTIVATED"}
    BY <1>12 DEF CallbackStarts
  <2>2. ~TakeCommands
    BY <2>1 DEF TakeCommands
  <2>3. QED
    BY <1>0, <2>1, <2>2, OthersKeepCommands
<1>13. ASSUME ForceActivate
      PROVE  CommandInv'
  <2>1. wpc' = wpc /\ tempCommands' = tempCommands /\ mAppStatus' \in {mAppStatus, "ACTIVATED"}
    BY <1>13 DEF ForceActivate
  <2>2. ~TakeCommands
    BY <2>1 DEF TakeCommands
  <2>3. QED
    BY <1>0, <2>1, <2>2, OthersKeepCommands
<1>14. ASSUME mMialgoTimeOutHandler
      PROVE  CommandInv'
  <2>1. wpc' = wpc /\ tempCommands' = tempCommands /\ mAppStatus' \in {mAppStatus, "ACTIVATED"}
    BY <1>14 DEF mMialgoTimeOutHandler
  <2>2. ~TakeCommands
    BY <2>1 DEF TakeCommands
  <2>3. QED
    BY <1>0, <2>1, <2>2, OthersKeepCommands
<1>15. CASE UNCHANGED vars
  BY <1>15 DEF vars, CommandInv
<1>16. QED
  BY <1>1, <1>2, <1>3, <1>4, <1>5, <1>6, <1>7, <1>8, <1>9, <1>10, <1>11, <1>12, <1>13,
     <1>14, <1>15 DEF Next, Worker, TimerThread


\* A muted application has its timer.
LEMMA TimerStep == TypeInv /\ TimerInv /\ [Next]_vars => TimerInv'
<1> SUFFICES ASSUME TypeInv, TimerInv, [Next]_vars
             PROVE  TimerInv'
  OBVIOUS
<1> USE SnapshotAssumption DEF countVars, historyVars, categoryVars, modeVars, workerVars, timerVars
<1>1. ASSUME NEW f \in Tasks, NEW to \in BOOLEAN, onMialgoTaskNumChanged(f, to)
      PROVE  TimerInv'
  BY <1>1 DEF onMialgoTaskNumChanged, TypeInv, TimerInv, SetTimer, Timers
<1>2. ASSUME NEW f \in Tasks, NEW to \in BOOLEAN, UncountedTask(f, to)
      PROVE  TimerInv'
  BY <1>2 DEF UncountedTask, TypeInv, TimerInv, SetTimer, Timers
<1>3. ASSUME NEW op \in {"arm", "cancel"}, SetWakeTimer(op)
      PROVE  TimerInv'
  BY <1>3 DEF SetWakeTimer, TypeInv, TimerInv, SetTimer, Timers
<1>4. ASSUME NEW s \in Sessions, deleteMialgoTaskSig(s)
      PROVE  TimerInv'
  BY <1>4 DEF deleteMialgoTaskSig, TypeInv, TimerInv, SetTimer, Timers
<1>5. ASSUME NEW m \in Modes, onMihalBufferChanged(m)
      PROVE  TimerInv'
  BY <1>5 DEF onMihalBufferChanged, TypeInv, TimerInv, SetTimer, Timers
<1>6. ASSUME NEW m \in Modes, ReportBuffers(m)
      PROVE  TimerInv'
  BY <1>6 DEF ReportBuffers, TypeInv, TimerInv, SetTimer, Timers
<1>7. ASSUME NEW m \in Modes, setRetired(m)
      PROVE  TimerInv'
  BY <1>7 DEF setRetired, TypeInv, TimerInv, SetTimer, Timers
<1>8. ASSUME TakeCommands
      PROVE  TimerInv'
  BY <1>8 DEF TakeCommands, TypeInv, TimerInv, SetTimer, Timers
<1>9. ASSUME MergeCommands
      PROVE  TimerInv'
  BY <1>9 DEF MergeCommands, TypeInv, TimerInv, SetTimer, Timers
<1>10. ASSUME SetAppTimer
      PROVE  TimerInv'
  BY <1>10 DEF SetAppTimer, TypeInv, TimerInv, SetTimer, Timers
<1>11. ASSUME NEW t \in Timers, Expire(t)
      PROVE  TimerInv'
  BY <1>11 DEF Expire, TypeInv, TimerInv, SetTimer, Timers
<1>12. ASSUME NEW t \in Timers, CallbackStarts(t)
      PROVE  TimerInv'
  BY <1>12 DEF CallbackStarts, TypeInv, TimerInv, SetTimer, Timers
<1>13. ASSUME ForceActivate
      PROVE  TimerInv'
  BY <1>13 DEF ForceActivate, TypeInv, TimerInv, SetTimer, Timers
<1>14. ASSUME mMialgoTimeOutHandler
      PROVE  TimerInv'
  BY <1>14 DEF mMialgoTimeOutHandler, TypeInv, TimerInv, SetTimer, Timers
<1>15. CASE UNCHANGED vars
  BY <1>15 DEF vars, TimerInv
<1>16. QED
  BY <1>1, <1>2, <1>3, <1>4, <1>5, <1>6, <1>7, <1>8, <1>9, <1>10, <1>11, <1>12, <1>13,
     <1>14, <1>15 DEF Next, Worker, TimerThread


----------------------------------------------------------------------------
(* The theorems. *)

\* All parts of the invariant, together, hold always.
LEMMA Invariant == Spec => []IInv
<1>1. Init => IInv
  <2> SUFFICES ASSUME Init PROVE IInv
    OBVIOUS
  <2>1. TypeInv /\ CommandInv /\ TimerInv
    BY DEF Init, TypeInv, CommandInv, TimerInv
  <2>2. \A s \in Sessions : Outstanding(s) = {} /\ mMialgoTaskStatus[s] = 0
    BY DEF Init, Outstanding, Unfinished
  <2>3. IsFiniteSet({}) /\ Cardinality({}) = 0
    BY FS_EmptySet
  <2>4. FiniteInv /\ CountsOutstanding
    <3>1. ASSUME NEW s \in Sessions
          PROVE  IsFiniteSet(Outstanding(s)) /\ Cardinality(Outstanding(s)) = 0
      BY <2>2, <2>3
    <3>2. ASSUME NEW s \in Sessions
          PROVE  mMialgoTaskStatus[s] \in 0 .. Cardinality(Outstanding(s))
      BY <2>2, <3>1
    <3>3. QED
      BY <3>1, <3>2 DEF FiniteInv, CountsOutstanding
  <2>5. KeyInv
    BY DEF Init, KeyInv
  <2>6. QED
    BY <2>1, <2>4, <2>5 DEF IInv, CountInv
<1>2. IInv /\ [Next]_vars => IInv'
  BY TypeStep, CountsStep, CommandStep, TimerStep DEF IInv
<1>3. QED
  BY <1>1, <1>2, PTL DEF Spec

\* What MialgoTaskMonitor counts for a session never exceeds what its tasks
\* that are not over consume, and never falls below zero, although the
\* time-out and the end of a session reset it under running tasks; tasks that
\* ended before they were sent, or whose frame number another task of the
\* session has, may stay counted, and no others.
THEOREM CountsSound == Spec => []CountsOutstanding
<1>1. IInv => CountsOutstanding
  BY DEF IInv, CountInv
<1>2. QED
  BY <1>1, Invariant, PTL

\* When the worker of AppSnapshotController has caught up, the application is
\* muted only because some record says so, and the timer that activates it is
\* armed, due or running.
THEOREM MutedHasReason == Spec => []MutedForAReason
<1>1. IInv => MutedForAReason
  BY DEF IInv, CommandInv, TimerInv, MutedForAReason, Command
<1>2. QED
  BY <1>1, Invariant, PTL
=============================================================================
