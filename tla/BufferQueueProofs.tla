------------------------- MODULE BufferQueueProofs -------------------------
(***************************************************************************)
(* Safety of the image queues, for every set of formats, of node tasks and *)
(* of monitor threads and for every depth.                                 *)
(***************************************************************************)
EXTENDS BufferQueue, DistinctSequences, FiniteSetTheorems, FunctionTheorems,
        WellFoundedInduction, TLAPS

----------------------------------------------------------------------------
(* The inductive invariant. *)

\* An image in use belongs to a queue, and the use counts are exact.
UseInv ==
    /\ \A u \in Users : \A i \in held[u] : i[1] \in mBufferQueueWrapperSet /\ i[2] \in 1..MaxDepth
    /\ \A i \in Image : mUseCount[i] = Cardinality(HoldersOf(i))
    /\ \A u \in Users : pc[u] # "run" => want[u] \in mBufferQueueWrapperSet

\* One format: its images are free once, in use or being freed, and all counted.
QueueInv(f) ==
    /\ Distinct(mBufferQueue[f]) /\ Cardinality(Free(f)) = Len(mBufferQueue[f])
    /\ Free(f) \cap HeldOf(f) = {}
    /\ mNumBuffers[f] = Cardinality(Free(f)) + Cardinality(HeldOf(f)) + Cardinality(Dying(f))
    /\ f \notin mBufferQueueWrapperSet => mBufferQueue[f] = <<>> /\ mNumBuffers[f] = 0
    /\ f \in mBufferQueueWrapperSet => mNumBuffers[f] >= 1

\* mBufferReclaimMutex lets one monitor work at a time, so that nobody else
\* frees an image between its test of the queue and its count.
MonitorInv ==
    /\ \A m, n \in Monitors : mpc[m] # "idle" /\ mpc[n] # "idle" => m = n
    /\ \A m \in Monitors :
          /\ todo[m] \subseteq mBufferQueueWrapperSet
          /\ mpc[m] \in {"size", "pop", "free"} => mfmt[m] \in mBufferQueueWrapperSet
          /\ mpc[m] \in {"pop", "free"} => mNumBuffers[mfmt[m]] >= 2

IInv == TypeOK /\ UseInv /\ (\A k \in Formats : QueueInv(k)) /\ MonitorInv

----------------------------------------------------------------------------
(* The images of a format. *)

\* The images 1 to n of a format are n.
LEMMA ImagesUpTo ==
  ASSUME NEW f, NEW n \in Nat
  PROVE  /\ IsFiniteSet({<<f, i>> : i \in 1..n})
         /\ Cardinality({<<f, i>> : i \in 1..n}) = n
<1> DEFINE T == {<<f, i>> : i \in 1..n}
           b == [i \in 1..n |-> <<f, i>>]
<1>1. /\ b \in [1..n -> T]
      /\ \A i, j \in 1..n : b[i] = b[j] => i = j
      /\ \A t \in T : \E i \in 1..n : b[i] = t
  OBVIOUS
<1>2. ExistsBijection(1..n, T)
  <2> HIDE DEF T, b
  <2>1. b \in Bijection(1..n, T)
    BY <1>1, Fun_IsBij
  <2>2. QED
    BY <2>1, Fun_ExistsBij
<1>3. IsFiniteSet(1..n) /\ Cardinality(1..n) = n
  BY FS_Interval
<1> HIDE DEF T
<1>4. IsFiniteSet(T) /\ Cardinality(T) = n
  BY <1>2, <1>3, FS_Bijection
<1>5. QED
  BY <1>4 DEF T

\* A new queue holds the images 1 to n once.
LEMMA FreshQueue ==
  ASSUME NEW f \in Formats, NEW n \in 1..MaxDepth
  PROVE  LET q == [i \in 1..n |-> <<f, i>>]
         IN  /\ q \in Seq(Image) /\ Len(q) = n /\ Distinct(q)
             /\ Elems(q) = {<<f, i>> : i \in 1..n}
<1> DEFINE q == [i \in 1..n |-> <<f, i>>]
<1>1. MaxDepth \in Nat /\ n \in Nat
  BY BufferAssumption
<1>2. \A i \in 1..n : <<f, i>> \in Image
  BY <1>1 DEF Image
<1>3. q \in Seq(Image) /\ Len(q) = n
  BY <1>1, <1>2
<1>4. QED
  BY <1>3 DEF Elems, Distinct

----------------------------------------------------------------------------
(* The sets that count the images of a format. *)

\* Who holds what.
LEMMA HeldOfIs ==
  \A f, i : i \in HeldOf(f) <=> i[1] = f /\ \E u \in Users : i \in held[u]
BY DEF HeldOf, Held

\* They are finite.
LEMMA FiniteImages ==
  ASSUME TypeOK, UseInv, NEW f \in Formats
  PROVE  /\ IsFiniteSet(Free(f)) /\ IsFiniteSet(HeldOf(f)) /\ \A i : IsFiniteSet(HoldersOf(i))
         /\ Free(f) \cup HeldOf(f) \subseteq {<<f, i>> : i \in 1..MaxDepth}
<1>1. IsFiniteSet({<<f, i>> : i \in 1..MaxDepth})
  BY ImagesUpTo, BufferAssumption
<1>2. Free(f) \subseteq {<<f, i>> : i \in 1..MaxDepth}
  BY DEF TypeOK
<1>3. HeldOf(f) \subseteq {<<f, i>> : i \in 1..MaxDepth}
  BY HeldOfIs DEF UseInv, TypeOK, Image
<1>4. \A i : IsFiniteSet(HoldersOf(i))
  BY FS_Subset, BufferAssumption DEF HoldersOf
<1>5. QED
  BY <1>1, <1>2, <1>3, <1>4, FS_Subset

\* At most one image is being freed.
LEMMA DyingIs ==
  ASSUME MonitorInv, NEW f
  PROVE  /\ IsFiniteSet(Dying(f)) /\ Cardinality(Dying(f)) \in {0, 1}
         /\ \A m \in Dying(f) : Dying(f) = {m} /\ Cardinality(Dying(f)) = 1
<1>1. CASE Dying(f) = {}
  BY <1>1, FS_EmptySet
<1>2. ASSUME NEW m \in Dying(f)
      PROVE  Dying(f) = {m}
  BY <1>2 DEF Dying, MonitorInv
<1>3. QED
  BY <1>1, <1>2, FS_Singleton

\* While the count is below the maximum there is an index for a new image.
LEMMA NewImageIs ==
  ASSUME TypeOK, UseInv, MonitorInv, NEW f \in Formats, QueueInv(f), ~AtMaximum(f)
  PROVE  /\ NewImage(f) \in {f} \X (1..MaxDepth) /\ NewImage(f) \in Image
         /\ NewImage(f) \notin Free(f) \cup HeldOf(f)
<1> DEFINE S == Free(f) \cup HeldOf(f)
           Index == {i \in 1..MaxDepth : <<f, i>> \notin S}
           Below == {1..i : i \in Index}
<1>0. MaxDepth \in Nat
  BY BufferAssumption
<1>1. Index # {}
  <2> SUFFICES ASSUME Index = {}
               PROVE  FALSE
    OBVIOUS
  <2>1. {<<f, i>> : i \in 1..MaxDepth} \subseteq S
    OBVIOUS
  <2>2. IsFiniteSet(Free(f)) /\ IsFiniteSet(HeldOf(f))
    BY FiniteImages
  <2>3. IsFiniteSet(S) /\ Cardinality(S) <= Cardinality(Free(f)) + Cardinality(HeldOf(f))
    <3>1. IsFiniteSet(Free(f) \cap HeldOf(f))
      BY <2>2, FS_Intersection
    <3>2. Cardinality(S) = Cardinality(Free(f)) + Cardinality(HeldOf(f)) - Cardinality(Free(f) \cap HeldOf(f))
      BY <2>2, FS_Union
    <3>3. IsFiniteSet(S)
      BY <2>2, FS_Union
    <3> HIDE DEF S
    <3>4. QED
      BY <2>2, <3>1, <3>2, <3>3, FS_CardinalityType
  <2>4. MaxDepth <= Cardinality(S)
    <3> HIDE DEF S
    <3>1. Cardinality({<<f, i>> : i \in 1..MaxDepth}) = MaxDepth
      BY <1>0, ImagesUpTo
    <3>2. QED
      BY <2>1, <2>3, <3>1, FS_Subset
  <2>5. Cardinality(Free(f)) + Cardinality(HeldOf(f)) <= mNumBuffers[f]
    <3>1. Cardinality(Free(f)) \in Nat /\ Cardinality(HeldOf(f)) \in Nat
      BY <2>2, FS_CardinalityType
    <3>2. mNumBuffers[f] \in Nat
      BY <1>0 DEF TypeOK
    <3>3. Cardinality(Dying(f)) \in Nat
      BY DyingIs
    <3>4. QED
      BY <3>1, <3>2, <3>3 DEF QueueInv
  <2>6. mNumBuffers[f] < MaxDepth
    BY <1>0 DEF AtMaximum, TypeOK
  <2> HIDE DEF S
  <2>7. QED
    BY <1>0, <2>2, <2>3, <2>4, <2>5, <2>6, FS_CardinalityType DEF TypeOK
<1>2. \E i \in Index : \A j \in 1..i - 1 : <<f, j>> \in S
  <2>1. IsWellFoundedOn(StrictSubsetOrdering(1..MaxDepth), SUBSET (1..MaxDepth))
    <3>1. IsFiniteSet(1..MaxDepth)
      BY <1>0, FS_Interval
    <3>2. QED
      BY <3>1, FS_StrictSubsetOrderingWellFounded, FS_FiniteSubsetsOfFinite
  <2>2. Below \subseteq SUBSET (1..MaxDepth) /\ Below # {}
    <3> HIDE DEF S
    <3>1. \A i \in Index : 1..i \subseteq 1..MaxDepth
      BY <1>0
    <3>2. QED
      BY <1>1, <3>1
  <2>3. PICK B \in Below : \A C \in Below : ~(<<C, B>> \in StrictSubsetOrdering(1..MaxDepth))
    <3> HIDE DEF Below
    <3>1. QED
      BY <2>1, <2>2, WFMin
  <2>4. PICK i \in Index : B = 1..i
    BY <2>3
  <2>5. ASSUME NEW j \in 1..i - 1, <<f, j>> \notin S
        PROVE  FALSE
    <3>1. j \in Index /\ 1..j \in Below
      BY <1>0, <2>4, <2>5
    <3>2. 1..j \subseteq 1..i /\ i \in 1..i /\ i \notin 1..j
      BY <2>4, <2>5
    <3>3. <<1..j, 1..i>> \in StrictSubsetOrdering(1..MaxDepth)
      BY <1>0, <2>4, <3>1, <3>2 DEF StrictSubsetOrdering
    <3>4. QED
      BY <2>3, <2>4, <3>1, <3>3
  <2>6. QED
    BY <2>4, <2>5
<1> DEFINE P(i) == <<f, i>> \notin S /\ \A j \in 1..i - 1 : <<f, j>> \in S
           new == CHOOSE i \in 1..MaxDepth + 1 : P(i)
<1>3. \E i \in 1..MaxDepth + 1 : P(i)
  BY <1>0, <1>2
<1>4. new \in 1..MaxDepth + 1 /\ P(new)
  <2> HIDE DEF P
  <2>1. QED
    BY <1>3
<1>5. NewImage(f) = <<f, new>>
  BY DEF NewImage
<1>6. new \in 1..MaxDepth
  <2>1. new # MaxDepth + 1
    <3> SUFFICES ASSUME new = MaxDepth + 1
                 PROVE  FALSE
      OBVIOUS
    <3>1. \A j \in 1..new - 1 : <<f, j>> \in S
      BY <1>4
    <3> HIDE DEF new, S
    <3>2. new - 1 = MaxDepth
      BY <1>0
    <3>3. QED
      BY <1>1, <3>1, <3>2
  <2> HIDE DEF new
  <2>2. QED
    BY <1>0, <1>4, <2>1
<1> HIDE DEF new
<1>7. QED
  BY <1>0, <1>4, <1>5, <1>6 DEF Image

----------------------------------------------------------------------------
(* Every step keeps the invariant. *)

\* A further user of an image, and one less.
LEMMA OneMoreUser ==
  ASSUME TypeOK, UseInv, NEW u \in Users, NEW x \in Image, x \notin held[u],
         held' = [held EXCEPT ![u] = @ \cup {x}], mUseCount' = [mUseCount EXCEPT ![x] = @ + 1]
  PROVE  \A i \in Image : mUseCount'[i] = Cardinality(HoldersOf(i)')
<1>1. HoldersOf(x)' = HoldersOf(x) \cup {u} /\ u \notin HoldersOf(x)
  BY DEF HoldersOf, TypeOK
<1>2. \A i \in Image \ {x} : HoldersOf(i)' = HoldersOf(i)
  BY DEF HoldersOf, TypeOK
<1>3. IsFiniteSet(HoldersOf(x))
  BY FS_Subset, BufferAssumption DEF HoldersOf
<1>4. Cardinality(HoldersOf(x)') = Cardinality(HoldersOf(x)) + 1
  BY <1>1, <1>3, FS_AddElement
<1>5. QED
  BY <1>2, <1>4 DEF UseInv, TypeOK

LEMMA OneUserLess ==
  ASSUME TypeOK, UseInv, NEW u \in Users, NEW x \in held[u],
         held' = [held EXCEPT ![u] = @ \ {x}], mUseCount' = [mUseCount EXCEPT ![x] = @ - 1]
  PROVE  \A i \in Image : mUseCount'[i] = Cardinality(HoldersOf(i)')
<1>0. x \in Image
  BY DEF TypeOK
<1>1. HoldersOf(x)' = HoldersOf(x) \ {u} /\ u \in HoldersOf(x)
  BY DEF HoldersOf, TypeOK
<1>2. \A i \in Image \ {x} : HoldersOf(i)' = HoldersOf(i)
  BY DEF HoldersOf, TypeOK
<1>3. IsFiniteSet(HoldersOf(x))
  BY FS_Subset, BufferAssumption DEF HoldersOf
<1>4. Cardinality(HoldersOf(x)') = Cardinality(HoldersOf(x)) - 1
  BY <1>1, <1>3, FS_RemoveElement
<1>5. QED
  BY <1>0, <1>2, <1>4 DEF UseInv, TypeOK

\* The image that waitAndPop takes is free and nobody's.
LEMMA PopFacts ==
  ASSUME TypeOK, UseInv, NEW f \in Formats, QueueInv(f), mBufferQueue[f] # <<>>
  PROVE  LET q == mBufferQueue[f]
         IN  /\ Head(q) \in Free(f) /\ Head(q) \in Image
             /\ Head(q)[1] = f /\ Head(q)[2] \in 1..MaxDepth
             /\ \A u \in Users : Head(q) \notin held[u]
             /\ Tail(q) \in Seq(Image) /\ Len(Tail(q)) = Len(q) - 1 /\ Len(q) \in Nat
             /\ Distinct(Tail(q)) /\ Elems(Tail(q)) = Free(f) \ {Head(q)}
<1> DEFINE q == mBufferQueue[f]
<1>1. q \in Seq(Image) /\ q # <<>> /\ Distinct(q) /\ Elems(q) = Free(f)
  BY DEF TypeOK, QueueInv, Elems, Free
<1>2. Head(q) \in Free(f) /\ Tail(q) \in Seq(Image) /\ Len(Tail(q)) = Len(q) - 1
      /\ Distinct(Tail(q)) /\ Elems(Tail(q)) = Free(f) \ {Head(q)}
  BY <1>1, TailDistinct
<1>3. Len(q) \in Nat
  BY <1>1
<1>4. Head(q) \in {f} \X (1..MaxDepth)
  BY <1>2 DEF TypeOK
<1> HIDE DEF q
<1>5. Head(q)[1] = f /\ Head(q)[2] \in 1..MaxDepth
  BY <1>4
<1>6. Head(q) \in Image
  BY <1>4, BufferAssumption DEF Image
<1>7. \A u \in Users : Head(q) \notin held[u]
  BY <1>2, <1>5, HeldOfIs DEF QueueInv
<1>8. QED
  BY <1>2, <1>3, <1>5, <1>6, <1>7 DEF q


\* The use counts follow the users.
LEMMA UseStep == TypeOK /\ UseInv /\ (\A k \in Formats : QueueInv(k)) /\ [Next]_vars => UseInv'
<1> SUFFICES ASSUME TypeOK, UseInv, (\A k \in Formats : QueueInv(k)), [Next]_vars
             PROVE  UseInv'
  OBVIOUS
<1> USE BufferAssumption DEF TypeOK, userVars, monitorVars
<1>1. ASSUME NEW u \in Users, NEW f \in Formats, acquireOutputBuffer(u, f)
      PROVE  UseInv'
  <2>1. \A j \in Image : mUseCount'[j] = Cardinality(HoldersOf(j)')
    BY <1>1 DEF acquireOutputBuffer, HoldersOf, UseInv
  <2>2. QED
    BY <1>1, <2>1 DEF acquireOutputBuffer, UseInv
<1>2. ASSUME NEW u \in Users, NEW f \in Formats, createWrapper(u, f)
      PROVE  UseInv'
  <2>1. /\ UNCHANGED <<held, mUseCount>>
        /\ mBufferQueueWrapperSet' = mBufferQueueWrapperSet \cup {f}
        /\ pc' = [pc EXCEPT ![u] = "dequeue"] /\ want' = [want EXCEPT ![u] = f]
    BY <1>2 DEF createWrapper
  <2>2. \A j \in Image : mUseCount'[j] = Cardinality(HoldersOf(j)')
    BY <2>1 DEF HoldersOf, UseInv
  <2>3. QED
    BY <2>1, <2>2 DEF UseInv
<1>3. ASSUME NEW u \in Users, dequeueBuffer(u)
      PROVE  UseInv'
  <2>1. \A j \in Image : mUseCount'[j] = Cardinality(HoldersOf(j)')
    BY <1>3 DEF dequeueBuffer, HoldersOf, UseInv
  <2>2. QED
    BY <1>3, <2>1 DEF dequeueBuffer, UseInv
<1>4. ASSUME NEW u \in Users, increaseImageQueue(u)
      PROVE  UseInv'
  <2>1. \A j \in Image : mUseCount'[j] = Cardinality(HoldersOf(j)')
    BY <1>4 DEF increaseImageQueue, HoldersOf, UseInv
  <2>2. QED
    BY <1>4, <2>1 DEF increaseImageQueue, UseInv
<1>5. ASSUME NEW u \in Users, waitAndPop(u)
      PROVE  UseInv'
  <2> DEFINE x == Head(mBufferQueue[want[u]])
  <2>1. want[u] \in Formats /\ want[u] \in mBufferQueueWrapperSet /\ mBufferQueue[want[u]] # <<>>
    BY <1>5 DEF waitAndPop, UseInv
  <2>2. x \in Image /\ x \notin held[u] /\ x[1] = want[u] /\ x[2] \in 1..MaxDepth
    BY <2>1, PopFacts
  <2> HIDE DEF x
  <2>3. held' = [held EXCEPT ![u] = @ \cup {x}] /\ mUseCount' = [mUseCount EXCEPT ![x] = @ + 1]
    BY <1>5 DEF waitAndPop, x
  <2>4. \A j \in Image : mUseCount'[j] = Cardinality(HoldersOf(j)')
    BY <2>2, <2>3, OneMoreUser
  <2>5. QED
    BY <1>5, <2>1, <2>2, <2>3, <2>4 DEF waitAndPop, UseInv
<1>6. ASSUME NEW u \in Users, NEW i \in held[u], releaseBuffer(u, i)
      PROVE  UseInv'
  <2>1. \A j \in Image : mUseCount'[j] = Cardinality(HoldersOf(j)')
    BY <1>6, OneUserLess DEF releaseBuffer
  <2>2. QED
    BY <1>6, <2>1 DEF releaseBuffer, UseInv
<1>7. ASSUME NEW u \in Users, NEW v \in Users, NEW i \in held[u], Share(u, v, i)
      PROVE  UseInv'
  <2>1. \A j \in Image : mUseCount'[j] = Cardinality(HoldersOf(j)')
    BY <1>7, OneMoreUser DEF Share
  <2>2. QED
    BY <1>7, <2>1 DEF Share, UseInv
<1>8. ASSUME NEW m \in Monitors, memoryMonitor(m)
      PROVE  UseInv'
  <2>1. \A j \in Image : mUseCount'[j] = Cardinality(HoldersOf(j)')
    BY <1>8 DEF memoryMonitor, HoldersOf, UseInv
  <2>2. QED
    BY <1>8, <2>1 DEF memoryMonitor, UseInv
<1>9. ASSUME NEW m \in Monitors, clearOutThresholdBuffer(m)
      PROVE  UseInv'
  <2>1. \A j \in Image : mUseCount'[j] = Cardinality(HoldersOf(j)')
    BY <1>9 DEF clearOutThresholdBuffer, HoldersOf, UseInv
  <2>2. QED
    BY <1>9, <2>1 DEF clearOutThresholdBuffer, UseInv
<1>10. ASSUME NEW m \in Monitors, TestQueueSize(m)
      PROVE  UseInv'
  <2>1. \A j \in Image : mUseCount'[j] = Cardinality(HoldersOf(j)')
    BY <1>10 DEF TestQueueSize, HoldersOf, UseInv
  <2>2. QED
    BY <1>10, <2>1 DEF TestQueueSize, UseInv
<1>11. ASSUME NEW m \in Monitors, tryPop(m)
      PROVE  UseInv'
  <2>1. \A j \in Image : mUseCount'[j] = Cardinality(HoldersOf(j)')
    BY <1>11 DEF tryPop, HoldersOf, UseInv
  <2>2. QED
    BY <1>11, <2>1 DEF tryPop, UseInv
<1>12. ASSUME NEW m \in Monitors, releaseImageBuffer(m)
      PROVE  UseInv'
  <2>1. \A j \in Image : mUseCount'[j] = Cardinality(HoldersOf(j)')
    BY <1>12 DEF releaseImageBuffer, HoldersOf, UseInv
  <2>2. QED
    BY <1>12, <2>1 DEF releaseImageBuffer, UseInv
<1>13. CASE UNCHANGED vars
  BY <1>13 DEF vars, UseInv, HoldersOf
<1> HIDE DEF TypeOK
<1>14. QED
  BY <1>1, <1>2, <1>3, <1>4, <1>5, <1>6, <1>7, <1>8, <1>9, <1>10, <1>11, <1>12, <1>13
     DEF Next, Acquiring, Releasing, Monitoring


\* A monitor is alone, and its format has two images when it takes one.
LEMMA MonitorStep ==
  TypeOK /\ UseInv /\ MonitorInv /\ (\A k \in Formats : QueueInv(k)) /\ [Next]_vars
    => MonitorInv'
<1> SUFFICES ASSUME TypeOK, UseInv, MonitorInv, (\A k \in Formats : QueueInv(k)), [Next]_vars
             PROVE  MonitorInv'
  OBVIOUS
<1> USE BufferAssumption DEF TypeOK, MonitorInv, userVars, monitorVars
<1>1. ASSUME NEW u \in Users, NEW f \in Formats, acquireOutputBuffer(u, f)
      PROVE  MonitorInv'
  BY <1>1 DEF acquireOutputBuffer
<1>2. ASSUME NEW u \in Users, NEW f \in Formats, createWrapper(u, f)
      PROVE  MonitorInv'
  <2>1. \A n \in Monitors : mpc[n] \in {"pop", "free"} => mfmt[n] # f
    <3>1. f \notin mBufferQueueWrapperSet
      BY <1>2 DEF createWrapper
    <3>2. QED
      BY <3>1
  <2>2. \A g \in Formats \ {f} : mNumBuffers'[g] = mNumBuffers[g]
    BY <1>2 DEF createWrapper
  <2>3. QED
    BY <1>2, <2>1, <2>2 DEF createWrapper
<1>3. ASSUME NEW u \in Users, dequeueBuffer(u)
      PROVE  MonitorInv'
  BY <1>3 DEF dequeueBuffer
<1>4. ASSUME NEW u \in Users, increaseImageQueue(u)
      PROVE  MonitorInv'
  <2>1. \A g \in Formats : mNumBuffers'[g] >= mNumBuffers[g]
    <3>1. mNumBuffers' = mNumBuffers \/ mNumBuffers' = [mNumBuffers EXCEPT ![want[u]] = @ + 1]
      BY <1>4 DEF increaseImageQueue
    <3>2. mNumBuffers \in [Formats -> Int]
      OBVIOUS
    <3> HIDE DEF TypeOK, MonitorInv
    <3>3. \A g \in Formats : mNumBuffers'[g] \in {mNumBuffers[g], mNumBuffers[g] + 1}
      BY <3>1, <3>2
    <3>4. QED
      BY <3>2, <3>3
  <2>2. UNCHANGED <<mBufferQueueWrapperSet, mpc, todo, mfmt>>
    BY <1>4 DEF increaseImageQueue
  <2>3. \A g \in Formats : mNumBuffers[g] >= 2 => mNumBuffers'[g] >= 2
    <3>1. \A g \in Formats : mNumBuffers[g] \in Int /\ mNumBuffers'[g] \in Int
      BY <1>4 DEF increaseImageQueue
    <3>2. QED
      BY <2>1, <3>1
  <2>4. QED
    BY <2>2, <2>3
<1>5. ASSUME NEW u \in Users, waitAndPop(u)
      PROVE  MonitorInv'
  BY <1>5 DEF waitAndPop
<1>6. ASSUME NEW u \in Users, NEW i \in held[u], releaseBuffer(u, i)
      PROVE  MonitorInv'
  BY <1>6 DEF releaseBuffer
<1>7. ASSUME NEW u \in Users, NEW v \in Users, NEW i \in held[u], Share(u, v, i)
      PROVE  MonitorInv'
  BY <1>7 DEF Share
<1>8. ASSUME NEW m \in Monitors, memoryMonitor(m)
      PROVE  MonitorInv'
  BY <1>8 DEF memoryMonitor
<1>9. ASSUME NEW m \in Monitors, clearOutThresholdBuffer(m)
      PROVE  MonitorInv'
  <2>1. CASE todo[m] = {} /\ mpc' = [mpc EXCEPT ![m] = "idle"] /\ UNCHANGED <<todo, mfmt>>
    BY <1>9, <2>1 DEF clearOutThresholdBuffer
  <2>2. ASSUME NEW f \in todo[m], todo' = [todo EXCEPT ![m] = @ \ {f}], mfmt' = [mfmt EXCEPT ![m] = f],
               mpc' = [mpc EXCEPT ![m] = IF mNumBuffers[f] > Threshold THEN "size" ELSE "next"]
        PROVE  MonitorInv'
    <3>1. \E p \in {"size", "next"} : mpc' = [mpc EXCEPT ![m] = p]
      BY <2>2
    <3>2. UNCHANGED <<mBufferQueueWrapperSet, mNumBuffers>> /\ mpc[m] = "next"
      BY <1>9 DEF clearOutThresholdBuffer
    <3>3. QED
      BY <2>2, <3>1, <3>2
  <2>3. QED
    BY <1>9, <2>1, <2>2 DEF clearOutThresholdBuffer
<1>10. ASSUME NEW m \in Monitors, TestQueueSize(m)
      PROVE  MonitorInv'
  <2>1. TooManyFree(mfmt[m]) => mNumBuffers[mfmt[m]] >= 2
    <3> DEFINE f == mfmt[m]
    <3>1. f \in Formats /\ QueueInv(f) /\ mNumBuffers[f] \in Nat /\ mBufferQueue[f] \in Seq(Image)
      OBVIOUS
    <3>2. Cardinality(HeldOf(f)) \in Nat /\ Cardinality(Dying(f)) \in {0, 1}
      BY <3>1, FiniteImages, DyingIs, FS_CardinalityType
    <3> HIDE DEF f
    <3>3. TooManyFree(f) => mNumBuffers[f] >= 2
      BY <3>1, <3>2 DEF QueueInv, TooManyFree, MINIMUM_BUFFER_QUEUE_DEPTH
    <3>4. QED
      BY <3>3 DEF f
  <2>2. QED
    BY <1>10, <2>1 DEF TestQueueSize
<1>11. ASSUME NEW m \in Monitors, tryPop(m)
      PROVE  MonitorInv'
  BY <1>11 DEF tryPop
<1>12. ASSUME NEW m \in Monitors, releaseImageBuffer(m)
      PROVE  MonitorInv'
  BY <1>12 DEF releaseImageBuffer
<1>13. CASE UNCHANGED vars
  BY <1>13 DEF vars
<1> HIDE DEF TypeOK, MonitorInv
<1>14. QED
  BY <1>1, <1>2, <1>3, <1>4, <1>5, <1>6, <1>7, <1>8, <1>9, <1>10, <1>11, <1>12, <1>13
     DEF Next, Acquiring, Releasing, Monitoring


\* A format that a step does not touch.
LEMMA QueueFrame ==
  ASSUME NEW g \in Formats, QueueInv(g), mBufferQueue'[g] = mBufferQueue[g],
         mNumBuffers'[g] = mNumBuffers[g], HeldOf(g)' = HeldOf(g), Dying(g)' = Dying(g),
         g \in mBufferQueueWrapperSet' <=> g \in mBufferQueueWrapperSet
  PROVE  QueueInv(g)'
<1>1. Free(g)' = Free(g)
  BY DEF Free
<1>2. QED
  BY <1>1 DEF QueueInv

\* What has to be shown of a format with a queue that a step does touch.
LEMMA QueueMoved ==
  ASSUME NEW f \in Formats, f \in mBufferQueueWrapperSet', Distinct(mBufferQueue[f])',
         Cardinality(Free(f))' = Len(mBufferQueue[f])', Free(f)' \cap HeldOf(f)' = {},
         mNumBuffers'[f] = Cardinality(Free(f))' + Cardinality(HeldOf(f))' + Cardinality(Dying(f))',
         mNumBuffers'[f] >= 1
  PROVE  QueueInv(f)'
BY DEF QueueInv

\* The numbers are naturals.
LEMMA Counts ==
  ASSUME TypeOK, UseInv, MonitorInv, NEW f \in Formats
  PROVE  /\ Cardinality(Free(f)) \in Nat /\ Cardinality(HeldOf(f)) \in Nat
         /\ Cardinality(Dying(f)) \in {0, 1} /\ mNumBuffers[f] \in Nat
BY FiniteImages, DyingIs, FS_CardinalityType, BufferAssumption DEF TypeOK

\* An image is pushed, or popped.
LEMMA Pushed ==
  ASSUME TypeOK, UseInv, NEW f \in Formats, QueueInv(f), NEW x \in Image, x \notin Free(f),
         mBufferQueue' = [mBufferQueue EXCEPT ![f] = Append(@, x)]
  PROVE  /\ Distinct(mBufferQueue[f])' /\ Free(f)' = Free(f) \cup {x}
         /\ Cardinality(Free(f))' = Cardinality(Free(f)) + 1
         /\ Cardinality(Free(f))' = Len(mBufferQueue[f])'
<1> DEFINE q == mBufferQueue[f]
<1>1. q \in Seq(Image) /\ Distinct(q) /\ Elems(q) = Free(f) /\ Cardinality(Free(f)) = Len(q)
  BY DEF TypeOK, QueueInv, Elems, Free
<1>2. mBufferQueue'[f] = Append(q, x)
  BY DEF TypeOK
<1>3. Free(f)' = Elems(Append(q, x))
  BY <1>2 DEF Free, Elems
<1> HIDE DEF q
<1>4. Len(Append(q, x)) = Len(q) + 1 /\ Distinct(Append(q, x)) /\ Elems(Append(q, x)) = Free(f) \cup {x}
  BY <1>1, AppendDistinct
<1>5. Cardinality(Free(f) \cup {x}) = Cardinality(Free(f)) + 1
  BY FiniteImages, FS_AddElement
<1>6. QED
  BY <1>1, <1>2, <1>3, <1>4, <1>5

LEMMA Popped ==
  ASSUME TypeOK, UseInv, NEW f \in Formats, QueueInv(f), mBufferQueue[f] # <<>>,
         mBufferQueue' = [mBufferQueue EXCEPT ![f] = Tail(@)]
  PROVE  /\ Distinct(mBufferQueue[f])' /\ Free(f)' = Free(f) \ {Head(mBufferQueue[f])}
         /\ Cardinality(Free(f))' = Cardinality(Free(f)) - 1
         /\ Cardinality(Free(f))' = Len(mBufferQueue[f])'
<1> DEFINE q == mBufferQueue[f]
           x == Head(q)
<1>1. x \in Free(f) /\ Len(Tail(q)) = Len(q) - 1 /\ Distinct(Tail(q)) /\ Elems(Tail(q)) = Free(f) \ {x}
  BY PopFacts
<1>2. mBufferQueue'[f] = Tail(q) /\ Cardinality(Free(f)) = Len(q)
  BY DEF TypeOK, QueueInv
<1>3. Free(f)' = Elems(Tail(q))
  BY <1>2 DEF Free, Elems
<1> HIDE DEF q, x
<1>4. Cardinality(Free(f) \ {x}) = Cardinality(Free(f)) - 1
  BY <1>1, FiniteImages, FS_RemoveElement
<1>5. QED
  BY <1>1, <1>2, <1>3, <1>4 DEF q, x


\* Images move between the queue, the users and the monitor, and none is lost.
LEMMA QueueStep ==
  TypeOK /\ UseInv /\ MonitorInv /\ (\A k \in Formats : QueueInv(k)) /\ [Next]_vars
    => (\A k \in Formats : QueueInv(k))'
<1> SUFFICES ASSUME TypeOK, UseInv, MonitorInv, (\A k \in Formats : QueueInv(k)), [Next]_vars
             PROVE  (\A k \in Formats : QueueInv(k))'
  OBVIOUS
<1> USE BufferAssumption DEF userVars, monitorVars
<1>1. ASSUME NEW u \in Users, NEW f \in Formats, acquireOutputBuffer(u, f)
      PROVE  (\A k \in Formats : QueueInv(k))'
  <2>1. \A g \in Formats : mBufferQueue'[g] = mBufferQueue[g] /\ mNumBuffers'[g] = mNumBuffers[g]
    BY <1>1 DEF acquireOutputBuffer
  <2>2. \A g \in Formats : HeldOf(g)' = HeldOf(g)
    BY <1>1 DEF acquireOutputBuffer, HeldOf, Held, TypeOK
  <2>3. \A g \in Formats : Dying(g)' = Dying(g)
    BY <1>1 DEF acquireOutputBuffer, Dying, TypeOK
  <2>4. mBufferQueueWrapperSet' = mBufferQueueWrapperSet
    BY <1>1 DEF acquireOutputBuffer
  <2>5. QED
    BY <2>1, <2>2, <2>3, <2>4, QueueFrame
<1>2. ASSUME NEW u \in Users, NEW f \in Formats, createWrapper(u, f)
      PROVE  (\A k \in Formats : QueueInv(k))'
  <2>1. ASSUME NEW g \in Formats \ {f} PROVE QueueInv(g)'
    <3>1. mBufferQueue'[g] = mBufferQueue[g] /\ mNumBuffers'[g] = mNumBuffers[g]
      BY <1>2, <2>1 DEF createWrapper, TypeOK
    <3>2. HeldOf(g)' = HeldOf(g)
      BY <1>2, <2>1 DEF createWrapper, HeldOf, Held, TypeOK
    <3>3. Dying(g)' = Dying(g)
      BY <1>2, <2>1 DEF createWrapper, Dying, TypeOK
    <3>4. g \in mBufferQueueWrapperSet' <=> g \in mBufferQueueWrapperSet
      BY <1>2, <2>1 DEF createWrapper
    <3>5. QED
      BY <3>1, <3>2, <3>3, <3>4, QueueFrame
  <2>2. PICK n \in 1..InitDepth : /\ mBufferQueue' = [mBufferQueue EXCEPT ![f] = [i \in 1..n |-> <<f, i>>]]
                                  /\ mNumBuffers' = [mNumBuffers EXCEPT ![f] = n]
    BY <1>2 DEF createWrapper
  <2> DEFINE q == [i \in 1..n |-> <<f, i>>]
  <2>3. f \notin mBufferQueueWrapperSet /\ held' = held /\ mpc' = mpc /\ mfmt' = mfmt
        /\ f \in mBufferQueueWrapperSet'
    BY <1>2 DEF createWrapper
  <2>4. HeldOf(f)' = {} /\ Dying(f)' = {}
    BY <2>3 DEF UseInv, HeldOf, Held, MonitorInv, Dying
  <2>5. n \in 1..MaxDepth /\ n \in Nat /\ n >= 1
    OBVIOUS
  <2>6. Distinct(q) /\ Len(q) = n /\ Elems(q) = {<<f, i>> : i \in 1..n}
    BY <2>5, FreshQueue
  <2> HIDE DEF q
  <2>7. mBufferQueue'[f] = q /\ mNumBuffers'[f] = n
    BY <2>2 DEF q, TypeOK
  <2>8. Free(f)' = Elems(q)
    BY <2>7 DEF Free, Elems
  <2>9. Cardinality(Free(f))' = n
    <3>1. Cardinality({<<f, i>> : i \in 1..n}) = n
      BY <2>5, ImagesUpTo
    <3>2. QED
      BY <2>6, <2>8, <3>1
  <2>10. QueueInv(f)'
    BY <2>3, <2>4, <2>5, <2>6, <2>7, <2>9, FS_EmptySet DEF QueueInv
  <2>11. QED
    BY <2>1, <2>10
<1>3. ASSUME NEW u \in Users, dequeueBuffer(u)
      PROVE  (\A k \in Formats : QueueInv(k))'
  <2>1. \A g \in Formats : mBufferQueue'[g] = mBufferQueue[g] /\ mNumBuffers'[g] = mNumBuffers[g]
    BY <1>3 DEF dequeueBuffer
  <2>2. \A g \in Formats : HeldOf(g)' = HeldOf(g)
    BY <1>3 DEF dequeueBuffer, HeldOf, Held, TypeOK
  <2>3. \A g \in Formats : Dying(g)' = Dying(g)
    BY <1>3 DEF dequeueBuffer, Dying, TypeOK
  <2>4. mBufferQueueWrapperSet' = mBufferQueueWrapperSet
    BY <1>3 DEF dequeueBuffer
  <2>5. QED
    BY <2>1, <2>2, <2>3, <2>4, QueueFrame
<1>4. ASSUME NEW u \in Users, increaseImageQueue(u)
      PROVE  (\A k \in Formats : QueueInv(k))'
  <2>1. PICK f \in Formats : f = want[u] /\ f \in mBufferQueueWrapperSet
    BY <1>4 DEF increaseImageQueue, UseInv, MonitorInv, TypeOK
  <2>2. UNCHANGED <<held, mpc, mfmt, mBufferQueueWrapperSet>>
    BY <1>4 DEF increaseImageQueue
  <2>3. \A g \in Formats : HeldOf(g)' = HeldOf(g) /\ Dying(g)' = Dying(g)
    BY <2>2 DEF HeldOf, Held, Dying
  <2>4. CASE UNCHANGED <<mBufferQueue, mNumBuffers>>
    BY <2>2, <2>3, <2>4, QueueFrame
  <2>5. CASE /\ ~AtMaximum(f)
             /\ mBufferQueue' = [mBufferQueue EXCEPT ![f] = Append(@, NewImage(f))]
             /\ mNumBuffers' = [mNumBuffers EXCEPT ![f] = @ + 1]
    <3>1. NewImage(f) \in Image /\ NewImage(f) \notin Free(f) \cup HeldOf(f)
      BY <2>5, NewImageIs
    <3>2. /\ Distinct(mBufferQueue[f])' /\ Free(f)' = Free(f) \cup {NewImage(f)}
          /\ Cardinality(Free(f))' = Cardinality(Free(f)) + 1
          /\ Cardinality(Free(f))' = Len(mBufferQueue[f])'
      BY <2>5, <3>1, Pushed
    <3>3. mNumBuffers'[f] = mNumBuffers[f] + 1
      BY <2>5 DEF TypeOK
    <3>4. QueueInv(f)'
      <4>1. (Free(f) \cap HeldOf(f) = {})'
        BY <2>3, <3>1, <3>2 DEF QueueInv
      <4>2. /\ mNumBuffers[f] >= 1
            /\ mNumBuffers[f] = Cardinality(Free(f)) + Cardinality(HeldOf(f)) + Cardinality(Dying(f))
        BY <2>1, <2>2 DEF QueueInv
      <4>3. /\ mNumBuffers'[f] >= 1
            /\ mNumBuffers'[f] = Cardinality(Free(f))' + Cardinality(HeldOf(f))' + Cardinality(Dying(f))'
        <5>1. /\ Cardinality(Free(f)) \in Nat /\ Cardinality(HeldOf(f)) \in Nat
              /\ Cardinality(Dying(f)) \in Nat /\ mNumBuffers[f] \in Nat
          BY Counts
        <5>2. QED
          BY <2>1, <2>2, <2>3, <3>2, <3>3, <4>2, <5>1
      <4>4. QED
        BY <2>1, <2>2, <2>3, <3>2, <3>3, <4>1, <4>3, QueueMoved
    <3>5. \A g \in Formats \ {f} : mBufferQueue'[g] = mBufferQueue[g] /\ mNumBuffers'[g] = mNumBuffers[g]
      BY <2>5 DEF TypeOK
    <3>6. \A g \in Formats \ {f} : QueueInv(g)'
      BY <2>2, <2>3, <3>5, QueueFrame
    <3>7. QED
      BY <3>4, <3>6
  <2>6. QED
    BY <1>4, <2>1, <2>4, <2>5 DEF increaseImageQueue
<1>5. ASSUME NEW u \in Users, waitAndPop(u)
      PROVE  (\A k \in Formats : QueueInv(k))'
  <2>1. PICK f \in Formats : f = want[u] /\ f \in mBufferQueueWrapperSet
    BY <1>5 DEF waitAndPop, UseInv, MonitorInv, TypeOK
  <2> DEFINE x == Head(mBufferQueue[f])
  <2>2. /\ mBufferQueue[f] # <<>> /\ mBufferQueue' = [mBufferQueue EXCEPT ![f] = Tail(@)]
        /\ held' = [held EXCEPT ![u] = @ \cup {x}]
        /\ UNCHANGED <<mpc, mfmt, mBufferQueueWrapperSet, mNumBuffers>>
    BY <1>5, <2>1 DEF waitAndPop
  <2>3. x \in Free(f) /\ x[1] = f /\ x \notin HeldOf(f)
    BY <2>2, PopFacts DEF QueueInv
  <2>4. /\ Distinct(mBufferQueue[f])' /\ Free(f)' = Free(f) \ {x}
        /\ Cardinality(Free(f))' = Cardinality(Free(f)) - 1
        /\ Cardinality(Free(f))' = Len(mBufferQueue[f])'
    BY <2>2, Popped
  <2> HIDE DEF x
  <2>5. Held' = Held \cup {x}
    BY <2>2 DEF Held, TypeOK
  <2>6. HeldOf(f)' = HeldOf(f) \cup {x} /\ \A g \in Formats \ {f} : HeldOf(g)' = HeldOf(g)
    BY <2>3, <2>5 DEF HeldOf
  <2>7. Cardinality(HeldOf(f))' = Cardinality(HeldOf(f)) + 1
    BY <2>3, <2>6, FiniteImages, FS_AddElement
  <2>8. \A g \in Formats : Dying(g)' = Dying(g)
    BY <2>2 DEF Dying
  <2>9. QueueInv(f)'
    <3>1. (Free(f) \cap HeldOf(f) = {})'
      BY <2>3, <2>4, <2>6 DEF QueueInv
    <3>2. /\ mNumBuffers[f] >= 1
          /\ mNumBuffers[f] = Cardinality(Free(f)) + Cardinality(HeldOf(f)) + Cardinality(Dying(f))
      BY <2>1, <2>2 DEF QueueInv
    <3>3. /\ mNumBuffers'[f] >= 1
          /\ mNumBuffers'[f] = Cardinality(Free(f))' + Cardinality(HeldOf(f))' + Cardinality(Dying(f))'
      <4>1. /\ Cardinality(Free(f)) \in Nat /\ Cardinality(HeldOf(f)) \in Nat
            /\ Cardinality(Dying(f)) \in Nat /\ mNumBuffers[f] \in Nat
        BY Counts
      <4>2. QED
        BY <2>1, <2>2, <2>4, <2>7, <2>8, <3>2, <4>1
    <3>4. QED
      BY <2>1, <2>2, <2>4, <2>7, <2>8, <3>1, <3>3, QueueMoved
  <2>10. \A g \in Formats \ {f} : mBufferQueue'[g] = mBufferQueue[g]
    BY <2>2 DEF TypeOK
  <2>11. \A g \in Formats \ {f} : QueueInv(g)'
    BY <2>2, <2>6, <2>8, <2>10, QueueFrame
  <2>12. QED
    BY <2>9, <2>11
<1>6. ASSUME NEW u \in Users, NEW i \in held[u], releaseBuffer(u, i)
      PROVE  (\A k \in Formats : QueueInv(k))'
  <2>1. i \in Image /\ i[1] \in mBufferQueueWrapperSet /\ i[2] \in 1..MaxDepth
    BY DEF UseInv, TypeOK
  <2>2. PICK f \in Formats : f = i[1]
    BY <2>1 DEF TypeOK
  <2>3. i \in HeldOf(f) /\ i \notin Free(f)
    BY <2>2, HeldOfIs DEF QueueInv
  <2>4. held' = [held EXCEPT ![u] = @ \ {i}] /\ UNCHANGED <<mpc, mfmt, mBufferQueueWrapperSet, mNumBuffers>>
    BY <1>6 DEF releaseBuffer
  <2>5. \A g \in Formats : Dying(g)' = Dying(g)
    BY <2>4 DEF Dying
  <2>6. \A g \in Formats \ {f} : HeldOf(g)' = HeldOf(g)
    <3>1. \A j : j # i => (j \in Held' <=> j \in Held)
      BY <2>4 DEF Held, TypeOK
    <3>2. QED
      BY <2>2, <3>1 DEF HeldOf
  <2>7. CASE mUseCount[i] = 1
    <3>1. HoldersOf(i) = {u}
      <4>1. Cardinality(HoldersOf(i)) = 1 /\ u \in HoldersOf(i)
        BY <2>1, <2>7 DEF UseInv, HoldersOf
      <4>2. IsFiniteSet(HoldersOf(i))
        BY FS_Subset DEF HoldersOf
      <4>3. QED
        BY <4>1, <4>2, FS_Singleton
    <3>2. HeldOf(f)' = HeldOf(f) \ {i}
      <4>1. \A v \in Users : i \notin held'[v]
        BY <2>4, <3>1 DEF HoldersOf, TypeOK
      <4>2. Held' = Held \ {i}
        BY <2>4, <4>1 DEF Held, TypeOK
      <4>3. QED
        BY <4>2 DEF HeldOf
    <3>3. mBufferQueue' = [mBufferQueue EXCEPT ![f] = Append(@, i)]
      BY <1>6, <2>2, <2>7 DEF releaseBuffer
    <3>4. /\ Distinct(mBufferQueue[f])' /\ Free(f)' = Free(f) \cup {i}
          /\ Cardinality(Free(f))' = Cardinality(Free(f)) + 1
          /\ Cardinality(Free(f))' = Len(mBufferQueue[f])'
      BY <2>1, <2>3, <3>3, Pushed
    <3>5. Cardinality(HeldOf(f))' = Cardinality(HeldOf(f)) - 1
      BY <2>3, <3>2, FiniteImages, FS_RemoveElement
    <3>6. QueueInv(f)'
      <4>1. (Free(f) \cap HeldOf(f) = {})'
        BY <3>2, <3>4 DEF QueueInv
      <4>2. QED
        BY <2>1, <2>2, <2>4, <2>5, <3>4, <3>5, <4>1, Counts DEF QueueInv
    <3>7. \A g \in Formats \ {f} : mBufferQueue'[g] = mBufferQueue[g]
      BY <3>3 DEF TypeOK
    <3>8. \A g \in Formats \ {f} : QueueInv(g)'
      BY <2>4, <2>5, <2>6, <3>7, QueueFrame
    <3>9. QED
      BY <3>6, <3>8
  <2>8. CASE mUseCount[i] # 1
    <3>1. \E v \in Users \ {u} : i \in held[v]
      <4>1. HoldersOf(i) # {u}
        BY <2>1, <2>8, FS_Singleton DEF UseInv
      <4>2. QED
        BY <4>1 DEF HoldersOf
    <3>2. Held' = Held
      BY <2>4, <3>1 DEF Held, TypeOK
    <3>3. HeldOf(f)' = HeldOf(f) /\ mBufferQueue' = mBufferQueue
      BY <1>6, <2>8, <3>2 DEF HeldOf, releaseBuffer
    <3>4. QED
      BY <2>4, <2>5, <2>6, <3>3, QueueFrame
  <2>9. QED
    BY <2>7, <2>8
<1>7. ASSUME NEW u \in Users, NEW v \in Users, NEW i \in held[u], Share(u, v, i)
      PROVE  (\A k \in Formats : QueueInv(k))'
  <2>1. \A g \in Formats : mBufferQueue'[g] = mBufferQueue[g] /\ mNumBuffers'[g] = mNumBuffers[g]
    BY <1>7 DEF Share
  <2>2. \A g \in Formats : HeldOf(g)' = HeldOf(g)
    <3>1. held' = [held EXCEPT ![v] = @ \cup {i}]
      BY <1>7 DEF Share
    <3>2. Held' = Held
      BY <1>7, <3>1 DEF Held, TypeOK
    <3>3. QED
      BY <3>2 DEF HeldOf
  <2>3. \A g \in Formats : Dying(g)' = Dying(g)
    BY <1>7 DEF Share, Dying, TypeOK
  <2>4. mBufferQueueWrapperSet' = mBufferQueueWrapperSet
    BY <1>7 DEF Share
  <2>5. QED
    BY <2>1, <2>2, <2>3, <2>4, QueueFrame
<1>8. ASSUME NEW m \in Monitors, memoryMonitor(m)
      PROVE  (\A k \in Formats : QueueInv(k))'
  <2>1. \A g \in Formats : mBufferQueue'[g] = mBufferQueue[g] /\ mNumBuffers'[g] = mNumBuffers[g]
    BY <1>8 DEF memoryMonitor
  <2>2. \A g \in Formats : HeldOf(g)' = HeldOf(g)
    BY <1>8 DEF memoryMonitor, HeldOf, Held, TypeOK
  <2>3. \A g \in Formats : Dying(g)' = Dying(g)
    BY <1>8 DEF memoryMonitor, Dying, TypeOK
  <2>4. mBufferQueueWrapperSet' = mBufferQueueWrapperSet
    BY <1>8 DEF memoryMonitor
  <2>5. QED
    BY <2>1, <2>2, <2>3, <2>4, QueueFrame
<1>9. ASSUME NEW m \in Monitors, clearOutThresholdBuffer(m)
      PROVE  (\A k \in Formats : QueueInv(k))'
  <2>1. \A g \in Formats : mBufferQueue'[g] = mBufferQueue[g] /\ mNumBuffers'[g] = mNumBuffers[g]
    BY <1>9 DEF clearOutThresholdBuffer
  <2>2. \A g \in Formats : HeldOf(g)' = HeldOf(g)
    BY <1>9 DEF clearOutThresholdBuffer, HeldOf, Held, TypeOK
  <2>3. \A g \in Formats : Dying(g)' = Dying(g)
    <3>1. mpc[m] = "next" /\ \E p \in {"idle", "size", "next"} : mpc' = [mpc EXCEPT ![m] = p]
      BY <1>9 DEF clearOutThresholdBuffer
    <3>2. \A n \in Monitors \ {m} : mfmt'[n] = mfmt[n]
      BY <1>9 DEF clearOutThresholdBuffer, TypeOK
    <3>3. QED
      BY <3>1, <3>2 DEF Dying, TypeOK
  <2>4. mBufferQueueWrapperSet' = mBufferQueueWrapperSet
    BY <1>9 DEF clearOutThresholdBuffer
  <2>5. QED
    BY <2>1, <2>2, <2>3, <2>4, QueueFrame
<1>10. ASSUME NEW m \in Monitors, TestQueueSize(m)
      PROVE  (\A k \in Formats : QueueInv(k))'
  <2>1. \A g \in Formats : mBufferQueue'[g] = mBufferQueue[g] /\ mNumBuffers'[g] = mNumBuffers[g]
    BY <1>10 DEF TestQueueSize
  <2>2. \A g \in Formats : HeldOf(g)' = HeldOf(g)
    BY <1>10 DEF TestQueueSize, HeldOf, Held, TypeOK
  <2>3. \A g \in Formats : Dying(g)' = Dying(g)
    BY <1>10 DEF TestQueueSize, Dying, TypeOK
  <2>4. mBufferQueueWrapperSet' = mBufferQueueWrapperSet
    BY <1>10 DEF TestQueueSize
  <2>5. QED
    BY <2>1, <2>2, <2>3, <2>4, QueueFrame
<1>11. ASSUME NEW m \in Monitors, tryPop(m)
      PROVE  (\A k \in Formats : QueueInv(k))'
  <2>1. PICK f \in Formats : f = mfmt[m] /\ f \in mBufferQueueWrapperSet
    BY <1>11 DEF tryPop, UseInv, MonitorInv, TypeOK
  <2>2. UNCHANGED <<held, mfmt, mBufferQueueWrapperSet, mNumBuffers>> /\ mpc[m] = "pop"
    BY <1>11 DEF tryPop
  <2>3. \A g \in Formats : HeldOf(g)' = HeldOf(g)
    BY <2>2 DEF HeldOf, Held
  <2>4. CASE mBufferQueue[f] = <<>> /\ mpc' = [mpc EXCEPT ![m] = "size"] /\ UNCHANGED mBufferQueue
    <3>1. \A g \in Formats : Dying(g)' = Dying(g)
      BY <2>2, <2>4 DEF Dying, TypeOK
    <3>2. QED
      BY <2>2, <2>3, <2>4, <3>1, QueueFrame
  <2>5. CASE mBufferQueue[f] # <<>> /\ mpc' = [mpc EXCEPT ![m] = "free"]
             /\ mBufferQueue' = [mBufferQueue EXCEPT ![f] = Tail(@)]
    <3>1. Dying(f) = {} /\ Dying(f)' = {m} /\ \A g \in Formats \ {f} : Dying(g)' = Dying(g)
      <4>1. \A n \in Monitors \ {m} : mpc[n] = "idle" /\ mpc'[n] = "idle"
        BY <2>2, <2>5 DEF MonitorInv, TypeOK
      <4>2. mpc[m] # "free" /\ mpc'[m] = "free" /\ mfmt[m] = f /\ mfmt'[m] = f
        BY <2>1, <2>2, <2>5 DEF TypeOK
      <4>3. QED
        BY <4>1, <4>2 DEF Dying
    <3>2. /\ Distinct(mBufferQueue[f])' /\ Free(f)' = Free(f) \ {Head(mBufferQueue[f])}
          /\ Cardinality(Free(f))' = Cardinality(Free(f)) - 1
          /\ Cardinality(Free(f))' = Len(mBufferQueue[f])'
      BY <2>5, Popped
    <3>3. QueueInv(f)'
      <4>1. (Free(f) \cap HeldOf(f) = {})'
        BY <2>3, <3>2 DEF QueueInv
      <4>2. Cardinality(Dying(f)) = 0 /\ Cardinality(Dying(f))' = 1
        BY <3>1, FS_EmptySet, FS_Singleton
      <4>3. /\ mNumBuffers[f] >= 1
            /\ mNumBuffers[f] = Cardinality(Free(f)) + Cardinality(HeldOf(f)) + Cardinality(Dying(f))
        BY <2>1, <2>2 DEF QueueInv
      <4>4. /\ mNumBuffers'[f] >= 1
            /\ mNumBuffers'[f] = Cardinality(Free(f))' + Cardinality(HeldOf(f))' + Cardinality(Dying(f))'
        <5>1. /\ Cardinality(Free(f)) \in Nat /\ Cardinality(HeldOf(f)) \in Nat
              /\ Cardinality(Dying(f)) \in Nat /\ mNumBuffers[f] \in Nat
          BY Counts
        <5>2. QED
          BY <2>1, <2>2, <2>3, <3>2, <4>2, <4>3, <5>1
      <4>5. QED
        BY <2>1, <2>2, <2>3, <3>2, <4>2, <4>1, <4>4, QueueMoved
    <3>4. \A g \in Formats \ {f} : mBufferQueue'[g] = mBufferQueue[g]
      BY <2>5 DEF TypeOK
    <3>5. \A g \in Formats \ {f} : QueueInv(g)'
      BY <2>2, <2>3, <3>1, <3>4, QueueFrame
    <3>6. QED
      BY <3>3, <3>5
  <2>6. QED
    BY <1>11, <2>1, <2>4, <2>5 DEF tryPop
<1>12. ASSUME NEW m \in Monitors, releaseImageBuffer(m)
      PROVE  (\A k \in Formats : QueueInv(k))'
  <2>1. PICK f \in Formats : f = mfmt[m] /\ f \in mBufferQueueWrapperSet
    BY <1>12 DEF releaseImageBuffer, UseInv, MonitorInv, TypeOK
  <2>2. UNCHANGED <<held, mfmt, mBufferQueueWrapperSet, mBufferQueue>> /\ mpc[m] = "free"
        /\ mpc' = [mpc EXCEPT ![m] = "size"] /\ mNumBuffers' = [mNumBuffers EXCEPT ![f] = @ - 1]
    BY <1>12, <2>1 DEF releaseImageBuffer
  <2>3. \A g \in Formats : HeldOf(g)' = HeldOf(g) /\ Free(g)' = Free(g)
    BY <2>2 DEF HeldOf, Held, Free
  <2>4. m \in Dying(f) /\ Dying(f)' = {} /\ \A g \in Formats \ {f} : Dying(g)' = Dying(g)
    <3>1. \A n \in Monitors \ {m} : mpc[n] = "idle" /\ mpc'[n] = "idle"
      BY <2>2 DEF MonitorInv, TypeOK
    <3>2. mpc'[m] = "size" /\ mfmt[m] = f
      BY <2>1, <2>2 DEF TypeOK
    <3>3. QED
      BY <2>2, <3>1, <3>2 DEF Dying
  <2>5. mNumBuffers[f] >= 2 /\ mNumBuffers'[f] = mNumBuffers[f] - 1
    BY <2>1, <2>2 DEF MonitorInv, TypeOK
  <2>6. QueueInv(f)'
    <3>1. Cardinality(Dying(f)) = 1 /\ Cardinality(Dying(f))' = 0
      BY <2>4, DyingIs, FS_EmptySet
    <3>2. QED
      BY <2>1, <2>2, <2>3, <2>5, <3>1, Counts DEF QueueInv
  <2>7. \A g \in Formats \ {f} : mNumBuffers'[g] = mNumBuffers[g]
    BY <2>2 DEF TypeOK
  <2>8. \A g \in Formats \ {f} : QueueInv(g)'
    BY <2>2, <2>3, <2>4, <2>7, QueueFrame
  <2>9. QED
    BY <2>6, <2>8
<1>13. CASE UNCHANGED vars
  BY <1>13, QueueFrame DEF vars, HeldOf, Held, Dying
<1>14. QED
  BY <1>1, <1>2, <1>3, <1>4, <1>5, <1>6, <1>7, <1>8, <1>9, <1>10, <1>11, <1>12, <1>13
     DEF Next, Acquiring, Releasing, Monitoring


\* The types of everything but the images.
ControlOK ==
    /\ mBufferQueueWrapperSet \subseteq Formats /\ chained \in BOOLEAN
    /\ pc \in [Users -> {"run", "dequeue", "grow", "pop"}] /\ want \in [Users -> Formats]
    /\ mpc \in [Monitors -> {"idle", "next", "size", "pop", "free"}]
    /\ todo \in [Monitors -> SUBSET Formats] /\ mfmt \in [Monitors -> Formats]


\* Every step keeps the types of the control state.
LEMMA ControlStep == ControlOK /\ [Next]_vars => ControlOK'
<1> SUFFICES ASSUME ControlOK, [Next]_vars
             PROVE  ControlOK'
  OBVIOUS
<1> USE BufferAssumption DEF ControlOK, userVars, monitorVars
<1>1. ASSUME NEW u \in Users, NEW f \in Formats, acquireOutputBuffer(u, f)
      PROVE  ControlOK'
  BY <1>1 DEF acquireOutputBuffer
<1>2. ASSUME NEW u \in Users, NEW f \in Formats, createWrapper(u, f)
      PROVE  ControlOK'
  <2>1. mBufferQueueWrapperSet' = mBufferQueueWrapperSet \cup {f} /\ UNCHANGED <<chained, mpc, todo, mfmt>>
        /\ pc' = [pc EXCEPT ![u] = "dequeue"] /\ want' = [want EXCEPT ![u] = f]
    BY <1>2 DEF createWrapper
  <2>2. QED
    BY <2>1
<1>3. ASSUME NEW u \in Users, dequeueBuffer(u)
      PROVE  ControlOK'
  BY <1>3 DEF dequeueBuffer
<1>4. ASSUME NEW u \in Users, increaseImageQueue(u)
      PROVE  ControlOK'
  BY <1>4 DEF increaseImageQueue
<1>5. ASSUME NEW u \in Users, waitAndPop(u)
      PROVE  ControlOK'
  BY <1>5 DEF waitAndPop
<1>6. ASSUME NEW u \in Users, NEW i \in held[u], releaseBuffer(u, i)
      PROVE  ControlOK'
  BY <1>6 DEF releaseBuffer
<1>7. ASSUME NEW u \in Users, NEW v \in Users, NEW i \in held[u], Share(u, v, i)
      PROVE  ControlOK'
  BY <1>7 DEF Share
<1>8. ASSUME NEW m \in Monitors, memoryMonitor(m)
      PROVE  ControlOK'
  BY <1>8 DEF memoryMonitor
<1>9. ASSUME NEW m \in Monitors, clearOutThresholdBuffer(m)
      PROVE  ControlOK'
  <2>1. UNCHANGED <<mBufferQueueWrapperSet, chained, pc, want>>
    BY <1>9 DEF clearOutThresholdBuffer
  <2>2. CASE mpc' = [mpc EXCEPT ![m] = "idle"] /\ UNCHANGED <<todo, mfmt>>
    BY <2>1, <2>2
  <2>3. ASSUME NEW f \in todo[m], todo' = [todo EXCEPT ![m] = @ \ {f}], mfmt' = [mfmt EXCEPT ![m] = f],
               mpc' = [mpc EXCEPT ![m] = IF mNumBuffers[f] > Threshold THEN "size" ELSE "next"]
        PROVE  ControlOK'
    BY <2>1, <2>3
  <2>4. QED
    BY <1>9, <2>2, <2>3 DEF clearOutThresholdBuffer
<1>10. ASSUME NEW m \in Monitors, TestQueueSize(m)
      PROVE  ControlOK'
  BY <1>10 DEF TestQueueSize
<1>11. ASSUME NEW m \in Monitors, tryPop(m)
      PROVE  ControlOK'
  BY <1>11 DEF tryPop
<1>12. ASSUME NEW m \in Monitors, releaseImageBuffer(m)
      PROVE  ControlOK'
  BY <1>12 DEF releaseImageBuffer
<1>13. CASE UNCHANGED vars
  BY <1>13 DEF vars
<1> HIDE DEF ControlOK
<1>14. QED
  BY <1>1, <1>2, <1>3, <1>4, <1>5, <1>6, <1>7, <1>8, <1>9, <1>10, <1>11, <1>12, <1>13
     DEF Next, Acquiring, Releasing, Monitoring


\* The types of the images.
ImagesOK ==
    /\ mBufferQueue \in [Formats -> Seq(Image)]
    /\ \A f \in Formats : Free(f) \subseteq {f} \X (1..MaxDepth)
    /\ mNumBuffers \in [Formats -> 0..MaxDepth]
    /\ held \in [Users -> SUBSET Image]

LEMMA ImagesType == TypeOK => ImagesOK
BY DEF TypeOK, ImagesOK

\* A queue that is replaced by one of the right images.
LEMMA QueueType ==
  ASSUME ImagesOK, NEW f \in Formats, NEW q \in Seq(Image), Elems(q) \subseteq {f} \X (1..MaxDepth),
         mBufferQueue' = [mBufferQueue EXCEPT ![f] = q]
  PROVE  /\ mBufferQueue' \in [Formats -> Seq(Image)]
         /\ \A g \in Formats : Free(g)' \subseteq {g} \X (1..MaxDepth)
<1>1. mBufferQueue' \in [Formats -> Seq(Image)] /\ mBufferQueue'[f] = q
      /\ \A g \in Formats \ {f} : mBufferQueue'[g] = mBufferQueue[g]
  BY DEF ImagesOK
<1>2. Free(f)' = Elems(q) /\ \A g \in Formats \ {f} : Free(g)' = Free(g)
  BY <1>1 DEF Free, Elems
<1>3. QED
  BY <1>1, <1>2 DEF ImagesOK

\* The tail and the extension of a queue.
LEMMA QueueElems ==
  ASSUME TypeOK, NEW f \in Formats
  PROVE  /\ mBufferQueue[f] \in Seq(Image) /\ Elems(mBufferQueue[f]) = Free(f)
         /\ Free(f) \subseteq {f} \X (1..MaxDepth) /\ ImagesOK
BY DEF TypeOK, Elems, Free, ImagesOK


\* Every step keeps the types of the images.
LEMMA ImagesStep ==
  TypeOK /\ UseInv /\ MonitorInv /\ (\A k \in Formats : QueueInv(k)) /\ [Next]_vars
    => ImagesOK'
<1> SUFFICES ASSUME TypeOK, UseInv, MonitorInv, (\A k \in Formats : QueueInv(k)), [Next]_vars
             PROVE  ImagesOK'
  OBVIOUS
<1> USE BufferAssumption DEF userVars, monitorVars
<1>1. ASSUME NEW u \in Users, NEW f \in Formats, acquireOutputBuffer(u, f)
      PROVE  ImagesOK'
  <2>1. UNCHANGED <<mBufferQueue, mNumBuffers>> /\ held' \in [Users -> SUBSET Image]
    BY <1>1 DEF acquireOutputBuffer, TypeOK
  <2>2. QED
    BY <2>1, ImagesType DEF ImagesOK, Free
<1>2. ASSUME NEW u \in Users, NEW f \in Formats, createWrapper(u, f)
      PROVE  ImagesOK'
  <2>1. PICK n \in 1..InitDepth : /\ mBufferQueue' = [mBufferQueue EXCEPT ![f] = [i \in 1..n |-> <<f, i>>]]
                                  /\ mNumBuffers' = [mNumBuffers EXCEPT ![f] = n]
    BY <1>2 DEF createWrapper
  <2> DEFINE q == [i \in 1..n |-> <<f, i>>]
  <2>2. n \in 1..MaxDepth /\ n \in 0..MaxDepth
    OBVIOUS
  <2>3. q \in Seq(Image) /\ Elems(q) = {<<f, i>> : i \in 1..n}
    BY <2>2, FreshQueue
  <2>4. Elems(q) \subseteq {f} \X (1..MaxDepth)
    BY <2>2, <2>3
  <2> HIDE DEF q
  <2>5. mBufferQueue' = [mBufferQueue EXCEPT ![f] = q]
    BY <2>1 DEF q
  <2>6. mNumBuffers' \in [Formats -> 0..MaxDepth] /\ held' \in [Users -> SUBSET Image]
    BY <1>2, <2>1, <2>2 DEF createWrapper, TypeOK
  <2>7. QED
    BY <2>3, <2>4, <2>5, <2>6, QueueType, QueueElems DEF ImagesOK
<1>3. ASSUME NEW u \in Users, dequeueBuffer(u)
      PROVE  ImagesOK'
  <2>1. UNCHANGED <<mBufferQueue, mNumBuffers>> /\ held' \in [Users -> SUBSET Image]
    BY <1>3 DEF dequeueBuffer, TypeOK
  <2>2. QED
    BY <2>1, ImagesType DEF ImagesOK, Free
<1>4. ASSUME NEW u \in Users, increaseImageQueue(u)
      PROVE  ImagesOK'
  <2>1. PICK f \in Formats : f = want[u]
    BY <1>4 DEF TypeOK
  <2>2. held' = held
    BY <1>4 DEF increaseImageQueue
  <2>3. CASE UNCHANGED <<mBufferQueue, mNumBuffers>>
    BY <2>2, <2>3, ImagesType DEF ImagesOK, Free
  <2>4. CASE /\ ~AtMaximum(f)
             /\ mBufferQueue' = [mBufferQueue EXCEPT ![f] = Append(@, NewImage(f))]
             /\ mNumBuffers' = [mNumBuffers EXCEPT ![f] = @ + 1]
    <3> DEFINE q == Append(mBufferQueue[f], NewImage(f))
    <3>1. NewImage(f) \in Image /\ NewImage(f) \in {f} \X (1..MaxDepth) /\ NewImage(f) \notin Free(f)
      BY <2>4, NewImageIs
    <3>2. q \in Seq(Image) /\ Elems(q) = Free(f) \cup {NewImage(f)}
      BY <3>1, QueueElems, AppendDistinct DEF QueueInv
    <3> HIDE DEF q
    <3>3. Elems(q) \subseteq {f} \X (1..MaxDepth)
      BY <3>1, <3>2, QueueElems
    <3>4. mBufferQueue' = [mBufferQueue EXCEPT ![f] = q]
      BY <2>4 DEF q
    <3>5. mNumBuffers[f] + 1 \in 0..MaxDepth
      BY <2>4 DEF AtMaximum, TypeOK
    <3>6. mNumBuffers' \in [Formats -> 0..MaxDepth]
      BY <2>4, <3>5 DEF TypeOK
    <3>7. QED
      BY <2>2, <3>2, <3>3, <3>4, <3>6, QueueType, QueueElems DEF ImagesOK, TypeOK
  <2>5. QED
    BY <1>4, <2>1, <2>3, <2>4 DEF increaseImageQueue
<1>5. ASSUME NEW u \in Users, waitAndPop(u)
      PROVE  ImagesOK'
  <2>1. PICK f \in Formats : f = want[u]
    BY <1>5 DEF TypeOK
  <2> DEFINE x == Head(mBufferQueue[f])
  <2>2. /\ mBufferQueue[f] # <<>> /\ mBufferQueue' = [mBufferQueue EXCEPT ![f] = Tail(mBufferQueue[f])]
        /\ held' = [held EXCEPT ![u] = @ \cup {x}] /\ UNCHANGED mNumBuffers
    BY <1>5, <2>1 DEF waitAndPop
  <2>3. x \in Image
    BY <2>2, PopFacts
  <2>4. Tail(mBufferQueue[f]) \in Seq(Image) /\ Elems(Tail(mBufferQueue[f])) \subseteq {f} \X (1..MaxDepth)
    BY <2>2, PopFacts, QueueElems
  <2> HIDE DEF x
  <2>5. held' \in [Users -> SUBSET Image]
    BY <2>2, <2>3 DEF TypeOK
  <2>6. QED
    BY <2>2, <2>4, <2>5, QueueType, QueueElems DEF ImagesOK
<1>6. ASSUME NEW u \in Users, NEW i \in held[u], releaseBuffer(u, i)
      PROVE  ImagesOK'
  <2>1. i \in Image /\ i[1] \in Formats /\ i[2] \in 1..MaxDepth
    BY DEF UseInv, TypeOK
  <2>2. PICK f \in Formats : f = i[1]
    BY <2>1
  <2>3. i \in {f} \X (1..MaxDepth) /\ i \notin Free(f)
    <3>1. i \notin Free(f)
      BY <2>2, HeldOfIs DEF QueueInv
    <3>2. QED
      BY <2>1, <2>2, <3>1 DEF Image
  <2>4. held' \in [Users -> SUBSET Image] /\ mNumBuffers' = mNumBuffers
    BY <1>6 DEF releaseBuffer, TypeOK
  <2>5. CASE UNCHANGED mBufferQueue
    BY <2>4, <2>5, QueueElems DEF ImagesOK, Free
  <2>6. CASE mBufferQueue' = [mBufferQueue EXCEPT ![f] = Append(@, i)]
    <3> DEFINE q == Append(mBufferQueue[f], i)
    <3>1. q \in Seq(Image) /\ Elems(q) = Free(f) \cup {i}
      BY <2>1, <2>3, QueueElems, AppendDistinct DEF QueueInv
    <3> HIDE DEF q
    <3>2. Elems(q) \subseteq {f} \X (1..MaxDepth)
      BY <2>3, <3>1, QueueElems
    <3>3. mBufferQueue' = [mBufferQueue EXCEPT ![f] = q]
      BY <2>6 DEF q
    <3>4. QED
      BY <2>4, <3>1, <3>2, <3>3, QueueType, QueueElems DEF ImagesOK
  <2>7. QED
    BY <1>6, <2>2, <2>5, <2>6 DEF releaseBuffer
<1>7. ASSUME NEW u \in Users, NEW v \in Users, NEW i \in held[u], Share(u, v, i)
      PROVE  ImagesOK'
  <2>1. UNCHANGED <<mBufferQueue, mNumBuffers>> /\ held' \in [Users -> SUBSET Image]
    BY <1>7 DEF Share, TypeOK
  <2>2. QED
    BY <2>1, ImagesType DEF ImagesOK, Free
<1>8. ASSUME NEW m \in Monitors, memoryMonitor(m)
      PROVE  ImagesOK'
  <2>1. UNCHANGED <<mBufferQueue, mNumBuffers>> /\ held' \in [Users -> SUBSET Image]
    BY <1>8 DEF memoryMonitor, TypeOK
  <2>2. QED
    BY <2>1, ImagesType DEF ImagesOK, Free
<1>9. ASSUME NEW m \in Monitors, clearOutThresholdBuffer(m)
      PROVE  ImagesOK'
  <2>1. UNCHANGED <<mBufferQueue, mNumBuffers>> /\ held' \in [Users -> SUBSET Image]
    BY <1>9 DEF clearOutThresholdBuffer, TypeOK
  <2>2. QED
    BY <2>1, ImagesType DEF ImagesOK, Free
<1>10. ASSUME NEW m \in Monitors, TestQueueSize(m)
      PROVE  ImagesOK'
  <2>1. UNCHANGED <<mBufferQueue, mNumBuffers>> /\ held' \in [Users -> SUBSET Image]
    BY <1>10 DEF TestQueueSize, TypeOK
  <2>2. QED
    BY <2>1, ImagesType DEF ImagesOK, Free
<1>11. ASSUME NEW m \in Monitors, tryPop(m)
      PROVE  ImagesOK'
  <2>1. PICK f \in Formats : f = mfmt[m]
    BY <1>11 DEF TypeOK
  <2>2. held' = held /\ mNumBuffers' = mNumBuffers
    BY <1>11 DEF tryPop
  <2>3. CASE UNCHANGED mBufferQueue
    BY <2>2, <2>3, ImagesType DEF ImagesOK, Free
  <2>4. CASE mBufferQueue[f] # <<>> /\ mBufferQueue' = [mBufferQueue EXCEPT ![f] = Tail(mBufferQueue[f])]
    <3>1. Tail(mBufferQueue[f]) \in Seq(Image) /\ Elems(Tail(mBufferQueue[f])) \subseteq {f} \X (1..MaxDepth)
      BY <2>4, PopFacts, QueueElems
    <3>2. QED
      BY <2>2, <2>4, <3>1, QueueType, QueueElems DEF ImagesOK
  <2>5. QED
    BY <1>11, <2>1, <2>3, <2>4 DEF tryPop
<1>12. ASSUME NEW m \in Monitors, releaseImageBuffer(m)
      PROVE  ImagesOK'
  <2>1. mfmt[m] \in Formats /\ mNumBuffers[mfmt[m]] >= 2
    BY <1>12 DEF releaseImageBuffer, MonitorInv, TypeOK
  <2>2. mNumBuffers[mfmt[m]] - 1 \in 0..MaxDepth
    BY <2>1 DEF TypeOK
  <2>3. mNumBuffers' \in [Formats -> 0..MaxDepth] /\ held' = held /\ mBufferQueue' = mBufferQueue
    BY <1>12, <2>2 DEF releaseImageBuffer, TypeOK
  <2>4. QED
    BY <2>3, QueueElems DEF ImagesOK, Free
<1>13. CASE UNCHANGED vars
  BY <1>13, QueueElems DEF vars, ImagesOK, Free
<1>14. QED
  BY <1>1, <1>2, <1>3, <1>4, <1>5, <1>6, <1>7, <1>8, <1>9, <1>10, <1>11, <1>12, <1>13
     DEF Next, Acquiring, Releasing, Monitoring


LEMMA UseTypeStep ==
  TypeOK /\ UseInv' /\ [Next]_vars => mUseCount' \in [Image -> 0..Cardinality(Users)]
<1> SUFFICES ASSUME TypeOK, UseInv', [Next]_vars
             PROVE  mUseCount' \in [Image -> 0..Cardinality(Users)]
  OBVIOUS
<1>1. \A j \in Image : mUseCount'[j] \in 0..Cardinality(Users)
  <2>1. \A T \in SUBSET Users : Cardinality(T) \in 0..Cardinality(Users)
    <3> SUFFICES ASSUME NEW T \in SUBSET Users
                 PROVE  Cardinality(T) \in 0..Cardinality(Users)
      OBVIOUS
    <3>1. IsFiniteSet(T) /\ Cardinality(T) <= Cardinality(Users)
      BY BufferAssumption, FS_Subset
    <3>2. QED
      BY <3>1, BufferAssumption, FS_CardinalityType
  <2>2. \A j \in Image : HoldersOf(j)' \in SUBSET Users
    BY DEF HoldersOf
  <2>3. QED
    BY <2>1, <2>2 DEF UseInv
<1>2. mUseCount' = [j \in Image |-> mUseCount'[j]]
  <2>1. \/ mUseCount' = mUseCount
        \/ \E x : mUseCount' = [mUseCount EXCEPT ![x] = @ + 1]
        \/ \E x : mUseCount' = [mUseCount EXCEPT ![x] = @ - 1]
    BY DEF Next, vars, Acquiring, Releasing, Monitoring, acquireOutputBuffer, createWrapper,
       dequeueBuffer, increaseImageQueue, waitAndPop, Share, releaseBuffer, memoryMonitor,
       clearOutThresholdBuffer, TestQueueSize, tryPop, releaseImageBuffer
  <2>2. QED
    BY <2>1 DEF TypeOK
<1>3. QED
  BY <1>1, <1>2

----------------------------------------------------------------------------
(* The theorems. *)

LEMMA IInvInit == Init => IInv
<1> SUFFICES ASSUME Init
             PROVE  IInv
  OBVIOUS
<1> USE BufferAssumption DEF Init
<1>1. \A i : HoldersOf(i) = {}
  BY DEF HoldersOf
<1>2. \A f \in Formats : Free(f) = {} /\ HeldOf(f) = {} /\ Dying(f) = {}
  BY DEF Free, HeldOf, Held, Dying
<1>3. UseInv /\ MonitorInv
  BY <1>1, FS_EmptySet DEF UseInv, MonitorInv
<1>4. \A f \in Formats : QueueInv(f)
  <2>1. \A f \in Formats : mBufferQueue[f] = <<>> /\ mNumBuffers[f] = 0 /\ f \notin mBufferQueueWrapperSet
    OBVIOUS
  <2>2. Cardinality({}) = 0
    BY FS_EmptySet
  <2>3. Len(<<>>) = 0 /\ Distinct(<<>>)
    BY DEF Distinct
  <2> HIDE DEF Init
  <2>4. ASSUME NEW f \in Formats PROVE QueueInv(f)
    <3>1. Cardinality(Free(f)) = 0 /\ Cardinality(HeldOf(f)) = 0 /\ Cardinality(Dying(f)) = 0
      BY <1>2, <2>2
    <3>2. Len(mBufferQueue[f]) = 0 /\ Distinct(mBufferQueue[f])
      BY <2>1, <2>3
    <3>3. QED
      BY <1>2, <2>1, <3>1, <3>2 DEF QueueInv
  <2>5. QED
    BY <2>4
<1>5. TypeOK
  <2>1. Cardinality(Users) \in Nat /\ 0 \in 0..MaxDepth /\ 0 \in 0..Cardinality(Users)
    BY FS_CardinalityType
  <2>2. (CHOOSE f \in Formats : TRUE) \in Formats
    OBVIOUS
  <2>3. want \in [Users -> Formats] /\ mfmt \in [Monitors -> Formats]
    BY <2>2
  <2>4. mBufferQueue \in [Formats -> Seq(Image)] /\ mNumBuffers \in [Formats -> 0..MaxDepth]
        /\ mUseCount \in [Image -> 0..Cardinality(Users)]
    BY <2>1
  <2>5. QED
    BY <1>2, <2>3, <2>4 DEF TypeOK
<1>6. QED
  BY <1>3, <1>4, <1>5 DEF IInv

LEMMA IInvStep == IInv /\ [Next]_vars => IInv'
<1> SUFFICES ASSUME IInv, [Next]_vars
             PROVE  IInv'
  OBVIOUS
<1>1. UseInv' /\ MonitorInv' /\ (\A k \in Formats : QueueInv(k))'
  BY UseStep, MonitorStep, QueueStep DEF IInv
<1>2. ControlOK' /\ ImagesOK'
  BY ControlStep, ImagesStep DEF IInv, TypeOK, ControlOK
<1>3. mUseCount' \in [Image -> 0..Cardinality(Users)]
  BY <1>1, UseTypeStep DEF IInv
<1>4. TypeOK'
  BY <1>2, <1>3 DEF TypeOK, ControlOK, ImagesOK
<1>5. QED
  BY <1>1, <1>4 DEF IInv

LEMMA IInvAlways == Spec => []IInv
BY IInvInit, IInvStep, PTL DEF Spec

\* The types hold in every reachable state; in particular no queue grows past
\* MAX_BUFFER_QUEUE_DEPTH and no use count or buffer count falls below zero.
THEOREM TypeCorrect == Spec => []TypeOK
<1>1. IInv => TypeOK
  BY DEF IInv
<1>2. QED
  BY <1>1, IInvAlways, PTL

\* No image is lost, handed out twice or freed while in use, with any number
\* of node tasks and of threads that call memoryMonitor.
THEOREM ConservesBuffers == Spec => []BuffersConserved
<1>1. IInv => BuffersConserved
  <2> SUFFICES ASSUME IInv, NEW f \in Formats
               PROVE  /\ Cardinality(Free(f)) = Len(mBufferQueue[f])
                      /\ Free(f) \cap HeldOf(f) = {}
                      /\ \A i \in Free(f) \cup HeldOf(f) : mUseCount[i] = Cardinality(HoldersOf(i))
                      /\ mNumBuffers[f] = Cardinality(Free(f)) + Cardinality(HeldOf(f)) + Cardinality(Dying(f))
    BY DEF BuffersConserved
  <2>1. QueueInv(f)
    BY DEF IInv
  <2>2. Free(f) \cup HeldOf(f) \subseteq Image
    <3>1. Free(f) \cup HeldOf(f) \subseteq {<<f, i>> : i \in 1..MaxDepth}
      BY FiniteImages DEF IInv
    <3>2. QED
      BY <3>1, BufferAssumption DEF Image
  <2>3. QED
    BY <2>1, <2>2 DEF QueueInv, IInv, UseInv
<1>2. QED
  BY <1>1, IInvAlways, PTL

\* Reclaiming never takes the only image of a format.
THEOREM ImageRemains == Spec => []AnImageRemains
<1>1. IInv => AnImageRemains
  <2> SUFFICES ASSUME IInv, NEW f \in mBufferQueueWrapperSet, Free(f) = {}, HeldOf(f) = {}
               PROVE  FALSE
    BY DEF AnImageRemains
  <2>1. f \in Formats /\ QueueInv(f) /\ MonitorInv /\ mNumBuffers[f] >= 1
    BY DEF IInv, TypeOK, QueueInv
  <2>2. mNumBuffers[f] = Cardinality(Dying(f))
    <3>1. Cardinality(Free(f)) = 0 /\ Cardinality(HeldOf(f)) = 0 /\ Cardinality(Dying(f)) \in {0, 1}
      BY <2>1, DyingIs, FS_EmptySet
    <3>2. QED
      BY <2>1, <3>1 DEF QueueInv
  <2>3. Cardinality(Dying(f)) # 0
    BY <2>1, <2>2
  <2>4. PICK m \in Dying(f) : TRUE
    BY <2>3, FS_EmptySet
  <2>5. mNumBuffers[f] = 1
    BY <2>1, <2>2, <2>4, DyingIs
  <2>6. mNumBuffers[f] >= 2
    BY <2>1, <2>4 DEF Dying, MonitorInv
  <2>7. QED
    BY <2>5, <2>6
<1>2. QED
  BY <1>1, IInvAlways, PTL

=============================================================================
