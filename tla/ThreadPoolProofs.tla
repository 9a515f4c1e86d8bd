--------------------------- MODULE ThreadPoolProofs ---------------------------
(***************************************************************************)
(* The POSIX pool, for any number of workers and callers, any queue size   *)
(* and any use of it: it never leaves a queued job to sleeping workers, it *)
(* implements JobPool, and it runs every job it accepts exactly once:      *)
(* TPool_free leaves none behind, and TPool_jobsCompleted returns only when*)
(* all have been run.                                                      *)
(***************************************************************************)
EXTENDS ThreadPoolUse, FiniteSetTheorems, TLAPS

\* The provers of a leaf that names none.
USE ZenonT(60), SMTT(60)

-----------------------------------------------------------------------------
(* The inductive invariant                                                 *)

\* Slots between queueHead and queueTail.
InUse(i) == IF queueHead <= queueTail THEN queueHead <= i /\ i < queueTail
            ELSE queueHead <= i \/ i < queueTail

FlagAgrees == queueEmpty <=> queueHead = queueTail
SleepersLoop == \A w \in popWaiters : pc[w] = "loop"
BusyCounted == numThreadsBusy = Cardinality(Busy)

\* Before TPool_create sets the limits nobody uses the pool, so a worker that
\* waits because threadLimit is still 0 leaves no job behind.
ClosedIsEmpty ==
    /\ threadLimit # nbThreads =>
          queueHead = queueTail /\ Busy = {} /\ \A t \in Callers : call[t] # "submit"
    /\ owner = "ready" => threadLimit = nbThreads

\* What is queued, run or about to be queued was requested.
Requested ==
    /\ \A i \in 0..QueueSize : InUse(i) => queue[i] \in requested
    /\ \A t \in Callers : call[t] = "submit" => arg[t] \in requested
    /\ \A w \in Workers : pc[w] = "run" => job[w] \in requested

IInv == /\ UseTypeOK /\ FlagAgrees /\ SleepersLoop /\ BusyCounted
        /\ ClosedIsEmpty /\ Requested /\ NoSleeperMissesAJob

-----------------------------------------------------------------------------
(* Sequences                                                               *)

LEMMA EmptyQueue ==
    ASSUME NEW S
    PROVE  /\ <<>> \in Seq(S) /\ Len(<<>>) = 0
           /\ \A s \in Seq(S) : Len(s) \in Nat /\ (s # <<>> => Len(s) > 0)
OBVIOUS

LEMMA SameSeq ==
    ASSUME NEW S, NEW s \in Seq(S), NEW r \in Seq(S), Len(s) = Len(r),
           \A i \in 1..Len(s) : s[i] = r[i]
    PROVE  s = r
OBVIOUS

LEMMA WiderSeq ==
    ASSUME NEW S, NEW R, S \subseteq R
    PROVE  Seq(S) \subseteq Seq(R)
OBVIOUS

LEMMA Appended ==
    ASSUME NEW S, NEW s \in Seq(S), NEW e \in S
    PROVE  /\ Append(s, e) \in Seq(S) /\ Append(s, e) # <<>> /\ Len(Append(s, e)) = Len(s) + 1
           /\ \A i \in 1..Len(s) : Append(s, e)[i] = s[i]
           /\ Append(s, e)[Len(s) + 1] = e
OBVIOUS

LEMMA HeadTaken ==
    ASSUME NEW S, NEW s \in Seq(S), s # <<>>
    PROVE  /\ Head(s) \in S /\ Tail(s) \in Seq(S) /\ Len(Tail(s)) = Len(s) - 1
           /\ \A i \in 1..Len(Tail(s)) : Tail(s)[i] = s[i + 1]
OBVIOUS

-----------------------------------------------------------------------------
(* The circular buffer                                                     *)

\* The next slot of the ring.
LEMMA NextSlot ==
    ASSUME NEW i \in 0..QueueSize
    PROVE  (i + 1) % RingSize = IF i = QueueSize THEN 0 ELSE i + 1
BY PoolAssumption DEF RingSize

\* QueueLen without the remainder, for the indices of this state or the next.
LEMMA RingDistance ==
    ASSUME NEW h \in 0..QueueSize, NEW t \in 0..QueueSize
    PROVE  (t - h + RingSize) % RingSize = IF h <= t THEN t - h
                                           ELSE t - h + QueueSize + 1
<1> DEFINE d == t - h + RingSize
<1>1. CASE h <= t
  <2>1. d \in RingSize..(2 * RingSize - 1) /\ RingSize \in Nat \ {0}
    BY <1>1, PoolAssumption DEF RingSize
  <2>2. d % RingSize = d - RingSize
    <3> HIDE DEF d
    <3> QED BY <2>1
  <2> QED BY <1>1, <2>1, <2>2, PoolAssumption DEF RingSize
<1>2. CASE h > t
  <2>1. d \in 0..(RingSize - 1) /\ RingSize \in Nat \ {0}
    BY <1>2, PoolAssumption DEF RingSize
  <2>2. d % RingSize = d
    <3> HIDE DEF d
    <3> QED BY <2>1
  <2> QED BY <1>2, <2>1, <2>2, PoolAssumption DEF RingSize
<1> QED BY <1>1, <1>2, PoolAssumption

\* A set of workers is finite and has at most nbThreads members.
LEMMA WorkerSets ==
    /\ nbThreads \in Nat \ {0}
    /\ \A S \in SUBSET Workers : /\ IsFiniteSet(S)
                                 /\ Cardinality(S) \in 0..nbThreads
                                 /\ Cardinality(S) = nbThreads => S = Workers
<1>1. IsFiniteSet(Workers) /\ nbThreads \in Nat \ {0}
  BY PoolAssumption, FS_CardinalityType, FS_EmptySet DEF nbThreads
<1>2. ASSUME NEW S \in SUBSET Workers
      PROVE  /\ IsFiniteSet(S) /\ Cardinality(S) <= nbThreads
             /\ Cardinality(S) = nbThreads => S = Workers
  BY <1>1, FS_Subset DEF nbThreads
<1>3. ASSUME NEW S \in SUBSET Workers PROVE Cardinality(S) \in Nat
  BY <1>2, FS_CardinalityType
<1> QED BY <1>1, <1>2, <1>3

\* The ranges the counters need.
LEMMA Types ==
    ASSUME TypeOK
    PROVE  /\ queueHead \in 0..QueueSize /\ queueTail \in 0..QueueSize
           /\ QueueSize \in Nat \ {0} /\ nbThreads \in Nat \ {0} /\ QueueLen \in Nat
           /\ QueueLen = 0 <=> queueHead = queueTail
           /\ IsFiniteSet(Busy) /\ IsFiniteSet(Idle)
           /\ Cardinality(Busy) \in 0..nbThreads /\ Cardinality(Idle) \in 0..nbThreads
<1>1. queueHead \in 0..QueueSize /\ queueTail \in 0..QueueSize
  BY DEF TypeOK
<1>2. QueueLen = IF queueHead <= queueTail THEN queueTail - queueHead
                 ELSE queueTail - queueHead + QueueSize + 1
  BY <1>1, RingDistance DEF QueueLen
<1>3. QueueLen \in Nat /\ QueueSize \in Nat \ {0} /\ (QueueLen = 0 <=> queueHead = queueTail)
  BY <1>1, <1>2, PoolAssumption
<1>4. Busy \in SUBSET Workers /\ Idle \in SUBSET Workers
  BY DEF Busy, Idle
<1> QED BY <1>1, <1>3, <1>4, WorkerSets

\* A worker joins or leaves a set of workers.
LEMMA OneMore ==
    ASSUME NEW S, IsFiniteSet(S), NEW x, x \notin S
    PROVE  /\ IsFiniteSet(S \cup {x}) /\ Cardinality(S \cup {x}) = Cardinality(S) + 1
           /\ Cardinality(S) \in Nat
BY FS_AddElement, FS_CardinalityType

\* And the converse.
LEMMA OneLess ==
    ASSUME NEW S, IsFiniteSet(S), NEW x \in S
    PROVE  /\ IsFiniteSet(S \ {x}) /\ Cardinality(S \ {x}) = Cardinality(S) - 1
           /\ Cardinality(S) \in Nat
BY FS_RemoveElement, FS_CardinalityType

-----------------------------------------------------------------------------
(* The invariant holds initially and is kept by every action               *)

\* The context TPool_create allocates.
LEMMA InitIInv == Init => IInv
<1> SUFFICES ASSUME Init PROVE IInv
  OBVIOUS
<1> USE DEF Init, PoolInit, Fresh
<1>1. nbThreads \in Nat \ {0} /\ QueueSize \in Nat \ {0} /\ NoJob \notin Jobs
  BY PoolAssumption, FS_CardinalityType, FS_EmptySet DEF nbThreads
<1>2. UseTypeOK
  <2>1. TypeOK
    BY <1>1 DEF TypeOK
  <2>2. accepted \in Seq(requested)
    BY EmptyQueue
  <2> QED BY <2>1, <2>2 DEF UseTypeOK
<1>3. Busy = {} /\ Cardinality(Busy) = 0
  BY FS_EmptySet DEF Busy
<1>4. FlagAgrees /\ SleepersLoop /\ BusyCounted /\ ClosedIsEmpty /\ Requested
  BY <1>1, <1>3 DEF FlagAgrees, SleepersLoop, BusyCounted, ClosedIsEmpty, Requested, InUse
<1>5. NoSleeperMissesAJob
  BY DEF NoSleeperMissesAJob
<1> QED BY <1>2, <1>4, <1>5 DEF IInv

\* An action that leaves the queue and the jobs' history alone keeps what is
\* said of them.
LEMMA QueueFrame ==
    ASSUME IInv, UNCHANGED <<queue, queueHead, queueTail, queueEmpty, accepted,
                             requested, arg, job>>,
           \A w \in Workers : pc'[w] = "run" => pc[w] = "run",
           \A t \in Callers : call'[t] = "submit" => call[t] = "submit"
    PROVE  /\ FlagAgrees' /\ Requested' /\ QueueLen' = QueueLen
           /\ accepted' \in Seq(requested')
<1>1. QueueLen' = QueueLen
  BY DEF QueueLen, RingSize
<1>2. FlagAgrees'
  BY DEF IInv, FlagAgrees
<1>3. Requested'
  BY DEF IInv, Requested, InUse
<1> QED BY <1>1, <1>2, <1>3 DEF IInv, UseTypeOK

\* TPool_create starts a thread.
LEMMA CreateThreadStep ==
    ASSUME IInv, NEW w \in Workers, CreateThread(w), UNCHANGED useVars
    PROVE  IInv'
<1> USE DEF IInv, CreateThread, useVars, queueVars, limits, waiters
<1>1. pc \in [Workers -> {"none", "loop", "run", "exited"}] /\ popWaiters \subseteq Workers
  BY DEF UseTypeOK, TypeOK
<1>2. UseTypeOK'
  BY <1>1 DEF UseTypeOK, TypeOK
<1>3. Busy' = Busy /\ Idle' = Idle \cup {w} /\ w \notin Idle /\ w \notin popWaiters
  BY <1>1 DEF Busy, Idle, SleepersLoop
<1>4. FlagAgrees' /\ Requested' /\ QueueLen' = QueueLen
  BY <1>1, QueueFrame
<1>5. SleepersLoop' /\ BusyCounted' /\ ClosedIsEmpty'
  BY <1>1, <1>3 DEF SleepersLoop, BusyCounted, ClosedIsEmpty, nbThreads
<1>6. NoSleeperMissesAJob'
  <2>1. IsFiniteSet(Idle) /\ QueueLen \in Nat
    BY Types DEF UseTypeOK
  <2>2. Cardinality(Idle') = Cardinality(Idle) + 1 /\ Cardinality(Idle) \in Nat
    BY <1>3, <2>1, OneMore
  <2> QED BY <1>4, <2>1, <2>2 DEF NoSleeperMissesAJob
<1> QED BY <1>2, <1>4, <1>5, <1>6

\* The owner's other steps: they change the limits, shutdown and the owner's
\* place, and shutdown wakes everyone.
LEMMA OwnerStep ==
    ASSUME IInv, UNCHANGED useVars,
           CreateReturns \/ CreateFails \/ FreeCalled \/ ShutdownSet
             \/ ShutdownBroadcasts \/ ShutdownJoins
    PROVE  IInv'
<1> USE DEF IInv, CreateReturns, CreateFails, FreeCalled, ShutdownSet,
            ShutdownBroadcasts, ShutdownJoins, useVars, queueVars, limits, waiters
<1>1. nbThreads \in Nat \ {0} /\ IsFiniteSet(Workers)
  BY PoolAssumption, Types DEF UseTypeOK
<1>2. Cardinality({w \in Workers : pc[w] # "none"}) \in 0..nbThreads
  BY <1>1, FS_Subset, FS_CardinalityType, SMTT(60) DEF nbThreads
<1>3. pc' = pc /\ popWaiters' \subseteq popWaiters /\ Busy' = Busy
      /\ numThreadsBusy' = numThreadsBusy /\ job' = job
      /\ (popWaiters' = popWaiters \/ popWaiters' = {})
  BY DEF Busy
<1>4. UseTypeOK'
  <2>1. TypeOK'
    <3>1. TypeOK
      BY DEF UseTypeOK
    <3>2. CASE CreateReturns
      BY <1>1, <3>1, <3>2, SMTT(60) DEF TypeOK
    <3>3. CASE CreateFails
      BY <1>2, <3>1, <3>3 DEF TypeOK
    <3>4. CASE FreeCalled \/ ShutdownSet
      BY <3>1, <3>4 DEF TypeOK
    <3>5. CASE ShutdownBroadcasts \/ ShutdownJoins
      BY <3>1, <3>5 DEF TypeOK
    <3> QED BY <3>2, <3>3, <3>4, <3>5
  <2> QED BY <2>1 DEF UseTypeOK
<1>5. FlagAgrees' /\ Requested' /\ QueueLen' = QueueLen
  BY <1>3, QueueFrame
<1>6. SleepersLoop' /\ BusyCounted'
  BY <1>3 DEF SleepersLoop, BusyCounted
<1>7. ClosedIsEmpty'
  BY <1>1, <1>3 DEF ClosedIsEmpty, nbThreads
<1>8. NoSleeperMissesAJob'
  BY <1>3, <1>5 DEF NoSleeperMissesAJob, Idle
<1> QED BY <1>4, <1>5, <1>6, <1>7, <1>8

\* A worker that has to wait, or to leave, has not seen a job it could run: the
\* queue is empty, or all workers are busy, or the pool is not yet open.
LEMMA NothingToRun ==
    ASSUME IInv, NEW w \in Workers, Awake(w), MustWait
    PROVE  QueueLen = 0
<1> USE DEF IInv
<1>1. CASE queueEmpty
  BY <1>1, Types DEF FlagAgrees, UseTypeOK
<1>2. CASE threadLimit # nbThreads
  BY <1>2, Types DEF ClosedIsEmpty, UseTypeOK
<1>3. CASE numThreadsBusy >= threadLimit /\ threadLimit = nbThreads
  <2>1. Busy \in SUBSET Workers /\ w \notin Busy
    BY DEF Busy, Awake
  <2>2. Cardinality(Busy) <= nbThreads /\ Cardinality(Busy) \in Nat
        /\ Cardinality(Busy) >= nbThreads /\ nbThreads \in Nat
    BY <1>3, Types, SMTT(60) DEF BusyCounted, UseTypeOK
  <2>3. Cardinality(Busy) # Cardinality(Workers)
    BY <2>1, FS_Subset, PoolAssumption
  <2> QED BY <2>2, <2>3 DEF nbThreads
<1> QED BY <1>1, <1>2, <1>3 DEF MustWait

\* A worker goes to sleep.
LEMMA WaitStep ==
    ASSUME IInv, NEW w \in Workers, WorkerWaits(w), UNCHANGED useVars
    PROVE  IInv'
<1> USE DEF IInv, WorkerWaits, useVars, queueVars, limits
<1>1. UseTypeOK'
  BY DEF UseTypeOK, TypeOK
<1>2. FlagAgrees' /\ Requested' /\ QueueLen' = QueueLen
  BY QueueFrame
<1>3. Busy' = Busy
  BY DEF Busy
<1>4. SleepersLoop' /\ BusyCounted' /\ ClosedIsEmpty'
  BY <1>3 DEF SleepersLoop, BusyCounted, ClosedIsEmpty, Awake, nbThreads
<1>5. NoSleeperMissesAJob'
  <2>1. QueueLen' = 0
    BY <1>2, NothingToRun
  <2>2. Idle' \in SUBSET Workers
    BY DEF Idle
  <2>3. Cardinality(Idle') \in Nat
    BY <2>2, WorkerSets, SMTT(60)
  <2> QED BY <2>1, <2>3 DEF NoSleeperMissesAJob
<1> QED BY <1>1, <1>2, <1>4, <1>5

\* A worker leaves.
LEMMA ExitStep ==
    ASSUME IInv, NEW w \in Workers, WorkerExits(w), UNCHANGED useVars
    PROVE  IInv'
<1> USE DEF IInv, WorkerExits, useVars, queueVars, limits, waiters
<1>0. pc \in [Workers -> {"none", "loop", "run", "exited"}] /\ popWaiters \subseteq Workers
  BY DEF UseTypeOK, TypeOK
<1>1. UseTypeOK'
  BY <1>0 DEF UseTypeOK, TypeOK
<1>2. FlagAgrees' /\ Requested' /\ QueueLen' = QueueLen
  BY <1>0, QueueFrame
<1>3. Busy' = Busy /\ w \notin popWaiters
  BY <1>0 DEF Busy, Awake
<1>4. SleepersLoop' /\ BusyCounted' /\ ClosedIsEmpty'
  BY <1>0, <1>3 DEF SleepersLoop, BusyCounted, ClosedIsEmpty, nbThreads
<1>5. NoSleeperMissesAJob'
  <2>1. QueueLen' = 0
    BY <1>2, NothingToRun
  <2>2. Idle' \in SUBSET Workers
    BY DEF Idle
  <2>3. Cardinality(Idle') \in Nat
    BY <2>2, WorkerSets, SMTT(60)
  <2> QED BY <2>1, <2>3 DEF NoSleeperMissesAJob
<1> QED BY <1>1, <1>2, <1>4, <1>5

\* A signal wakes one sleeper, if there is any.
LEMMA SignalOne ==
    ASSUME NEW A, NEW B \in Signal(A)
    PROVE  B \subseteq A /\ (A # {} => \E t \in A : B = A \ {t})
BY DEF Signal

\* A worker takes the oldest job: both the queue and the idle workers lose one.
LEMMA PopStep ==
    ASSUME IInv, NEW w \in Workers, WorkerPops(w), UNCHANGED useVars
    PROVE  IInv'
<1> USE DEF IInv
<1>1. /\ pc[w] = "loop" /\ w \notin popWaiters /\ ~queueEmpty
      /\ numThreadsBusy < threadLimit
      /\ job' = [job EXCEPT ![w] = queue[queueHead]]
      /\ queueHead' = (queueHead + 1) % RingSize
      /\ numThreadsBusy' = numThreadsBusy + 1
      /\ queueEmpty' = (queueHead' = queueTail)
      /\ pushWaiters' \in Signal(pushWaiters)
      /\ pc' = [pc EXCEPT ![w] = "run"]
      /\ queue' = queue /\ queueTail' = queueTail /\ threadLimit' = threadLimit
      /\ threadCapacity' = threadCapacity /\ shutdown' = shutdown
      /\ popWaiters' = popWaiters /\ owner' = owner
      /\ call' = call /\ arg' = arg /\ requested' = requested /\ accepted' = accepted
      /\ finished' = finished
  <2>1. TypeOK /\ nbThreads \in Nat
    BY WorkerSets DEF UseTypeOK
  <2> QED BY <2>1, SMTT(60) DEF WorkerPops, Awake, MustWait, limits, useVars, TypeOK
<1>2. TypeOK /\ UseTypeOK /\ queueHead # queueTail /\ requested \subseteq Jobs
  BY <1>1 DEF UseTypeOK, FlagAgrees
<1>3. /\ queueHead \in 0..QueueSize /\ queueTail \in 0..QueueSize /\ QueueSize \in Nat
      /\ queueHead' = (IF queueHead = QueueSize THEN 0 ELSE queueHead + 1)
      /\ queueHead' \in 0..QueueSize
  BY <1>1, <1>2, NextSlot, PoolAssumption, SMTT(60) DEF TypeOK
<1>4. InUse(queueHead) /\ \A i \in 0..QueueSize : InUse(i)' => InUse(i)
  BY <1>1, <1>2, <1>3 DEF InUse
<1>5. QueueLen' = QueueLen - 1
  <2>1. /\ QueueLen = IF queueHead <= queueTail THEN queueTail - queueHead
                      ELSE queueTail - queueHead + QueueSize + 1
        /\ QueueLen' = IF queueHead' <= queueTail THEN queueTail - queueHead'
                       ELSE queueTail - queueHead' + QueueSize + 1
    BY <1>1, <1>3, RingDistance DEF QueueLen, RingSize
  <2> QED BY <1>2, <1>3, <2>1
<1>6. queue[queueHead] \in requested
  BY <1>3, <1>4 DEF Requested
<1>7. /\ pc \in [Workers -> {"none", "loop", "run", "exited"}]
      /\ job \in [Workers -> Jobs \cup {NoJob}]
  BY <1>2 DEF TypeOK
<1>8. Busy' = Busy \cup {w} /\ w \notin Busy /\ Idle' = Idle \ {w} /\ w \in Idle
  BY <1>1, <1>7 DEF Busy, Idle
<1>9. Cardinality(Busy') = Cardinality(Busy) + 1 /\ Cardinality(Idle') = Cardinality(Idle) - 1
      /\ Cardinality(Idle) \in Nat /\ QueueLen \in Nat /\ Cardinality(Busy') \in 0..nbThreads
  <2>1. Busy' \in SUBSET Workers /\ IsFiniteSet(Busy) /\ IsFiniteSet(Idle) /\ QueueLen \in Nat
    BY <1>2, Types DEF Busy
  <2> QED BY <1>8, <2>1, OneMore, OneLess, WorkerSets
<1>10. BusyCounted'
  BY <1>1, <1>9 DEF BusyCounted
<1>11. UseTypeOK'
  <2>1. TypeOK'
    <3>1. numThreadsBusy' \in 0..nbThreads
      BY <1>9, <1>10 DEF BusyCounted
    <3>2. pushWaiters' \subseteq pushWaiters
      BY <1>1, SignalOne
    <3>3. /\ pc' \in [Workers -> {"none", "loop", "run", "exited"}]
          /\ job' \in [Workers -> Jobs \cup {NoJob}]
      BY <1>1, <1>2, <1>6, <1>7
    <3>4. queueEmpty' \in BOOLEAN
      BY <1>1
    <3> QED BY <1>1, <1>2, <1>3, <3>1, <3>2, <3>3, <3>4 DEF TypeOK
  <2> QED BY <1>1, <1>2, <2>1 DEF UseTypeOK
<1>12. FlagAgrees' /\ SleepersLoop'
  <2>1. FlagAgrees'
    BY <1>1 DEF FlagAgrees
  <2>2. SleepersLoop'
    BY <1>1, <1>2, <1>7 DEF SleepersLoop, TypeOK
  <2> QED BY <2>1, <2>2
<1>13. ClosedIsEmpty'
  BY <1>1, <1>2 DEF ClosedIsEmpty, nbThreads
<1>14. Requested'
  BY <1>1, <1>4, <1>6, <1>7 DEF Requested
<1>15. NoSleeperMissesAJob'
  BY <1>1, <1>5, <1>9 DEF NoSleeperMissesAJob
<1> QED BY <1>10, <1>11, <1>12, <1>13, <1>14, <1>15

\* A job returns: its worker is on its way to the queue again.
LEMMA FinishStep ==
    ASSUME IInv, NEW w \in Workers, Finish(w)
    PROVE  IInv'
<1> USE DEF IInv
<1>1. /\ pc[w] = "run" /\ numThreadsBusy' = numThreadsBusy - 1
      /\ pushWaiters' \in Signal(pushWaiters)
      /\ pc' = [pc EXCEPT ![w] = "loop"] /\ job' = [job EXCEPT ![w] = NoJob]
      /\ queue' = queue /\ queueHead' = queueHead /\ queueTail' = queueTail
      /\ queueEmpty' = queueEmpty
      /\ threadLimit' = threadLimit /\ threadCapacity' = threadCapacity
      /\ shutdown' = shutdown /\ popWaiters' = popWaiters /\ owner' = owner
      /\ finished' = finished \cup {job[w]}
      /\ call' = call /\ arg' = arg /\ requested' = requested /\ accepted' = accepted
  BY DEF Finish, WorkerFinishes, queueVars, limits
<1>2. TypeOK /\ UseTypeOK /\ job[w] \in requested
  BY <1>1 DEF UseTypeOK, Requested
<1>3. /\ pc \in [Workers -> {"none", "loop", "run", "exited"}]
      /\ job \in [Workers -> Jobs \cup {NoJob}]
  BY <1>2 DEF TypeOK
<1>4. Busy' = Busy \ {w} /\ w \in Busy /\ w \notin popWaiters
      /\ Idle' = Idle \cup {w} /\ w \notin Idle
  BY <1>1, <1>3 DEF Busy, Idle, SleepersLoop
<1>5. Cardinality(Busy') = Cardinality(Busy) - 1 /\ Cardinality(Idle') = Cardinality(Idle) + 1
      /\ Cardinality(Idle) \in Nat /\ QueueLen \in Nat /\ Cardinality(Busy') \in 0..nbThreads
  <2>1. Busy' \in SUBSET Workers /\ IsFiniteSet(Busy) /\ IsFiniteSet(Idle) /\ QueueLen \in Nat
    BY <1>2, Types DEF Busy
  <2> QED BY <1>4, <2>1, OneMore, OneLess, WorkerSets
<1>6. BusyCounted'
  BY <1>1, <1>5 DEF BusyCounted
<1>7. UseTypeOK'
  <2>1. TypeOK'
    <3>1. numThreadsBusy' \in 0..nbThreads
      BY <1>5, <1>6 DEF BusyCounted
    <3>2. pushWaiters' \subseteq pushWaiters
      BY <1>1, SignalOne
    <3>3. /\ pc' \in [Workers -> {"none", "loop", "run", "exited"}]
          /\ job' \in [Workers -> Jobs \cup {NoJob}]
      BY <1>1, <1>3
    <3> QED BY <1>1, <1>2, <3>1, <3>2, <3>3 DEF TypeOK
  <2> QED BY <1>1, <1>2, <2>1 DEF UseTypeOK
<1>8. QueueLen' = QueueLen /\ FlagAgrees' /\ SleepersLoop'
  BY <1>1, <1>3, SMTT(60) DEF QueueLen, RingSize, FlagAgrees, SleepersLoop
<1>9. ClosedIsEmpty'
  BY <1>1, <1>4 DEF ClosedIsEmpty, nbThreads
<1>10. Requested'
  BY <1>1, <1>3 DEF Requested, InUse
<1>11. NoSleeperMissesAJob'
  BY <1>1, <1>5, <1>8 DEF NoSleeperMissesAJob
<1> QED BY <1>6, <1>7, <1>8, <1>9, <1>10, <1>11

\* Sleepers come or go without a change to the queue: the ones on queuePopCond
\* may only wake up.
LEMMA WakeStep ==
    ASSUME IInv, UNCHANGED useVars,
           UNCHANGED <<queueVars, numThreadsBusy, limits, shutdown, pc, job, owner>>,
           popWaiters' \subseteq popWaiters, pushWaiters' \subseteq Callers
    PROVE  IInv'
<1> USE DEF IInv, queueVars, limits, useVars
<1>1. UseTypeOK'
  BY DEF UseTypeOK, TypeOK
<1>2. FlagAgrees' /\ Requested' /\ QueueLen' = QueueLen
  BY QueueFrame
<1>3. Busy' = Busy
  BY DEF Busy
<1>4. SleepersLoop' /\ BusyCounted' /\ ClosedIsEmpty'
  BY <1>3 DEF SleepersLoop, BusyCounted, ClosedIsEmpty, nbThreads
<1>5. NoSleeperMissesAJob'
  <2>1. Idle \subseteq Idle' /\ Idle' \in SUBSET Workers
    BY DEF Idle
  <2>2. Cardinality(Idle) <= Cardinality(Idle')
    BY <2>1, WorkerSets, FS_Subset
  <2>3. Cardinality(Idle) \in Nat /\ Cardinality(Idle') \in Nat /\ QueueLen \in Nat
    BY <2>1, WorkerSets, Types, SMTT(60) DEF UseTypeOK
  <2> QED BY <1>2, <2>2, <2>3 DEF NoSleeperMissesAJob
<1> QED BY <1>1, <1>2, <1>4, <1>5

\* A job is queued: the queue has one more, and so have the idle workers if there
\* was a sleeper to signal.
LEMMA EnqueueStep ==
    ASSUME IInv, NEW t \in Callers, call[t] = "submit", SubmitEnqueues(arg[t]), Return(t),
           accepted' = Append(accepted, arg[t]), UNCHANGED <<requested, finished>>
    PROVE  IInv'
<1> USE DEF IInv
<1>1. /\ ~isQueueFull /\ queueEmpty' = FALSE
      /\ queue' = [queue EXCEPT ![queueTail] = arg[t]]
      /\ queueTail' = (queueTail + 1) % RingSize
      /\ popWaiters' \in Signal(popWaiters)
      /\ queueHead' = queueHead /\ numThreadsBusy' = numThreadsBusy
      /\ threadLimit' = threadLimit /\ threadCapacity' = threadCapacity
      /\ shutdown' = shutdown /\ pushWaiters' = pushWaiters
      /\ pc' = pc /\ job' = job /\ owner' = owner
      /\ call' = [call EXCEPT ![t] = "none"] /\ arg' = [arg EXCEPT ![t] = NoJob]
      /\ requested' = requested /\ finished' = finished
  BY DEF SubmitEnqueues, Return, limits
<1>2. TypeOK /\ UseTypeOK /\ arg[t] \in requested /\ requested \subseteq Jobs
  BY DEF UseTypeOK, Requested
<1>3. /\ queueHead \in 0..QueueSize /\ queueTail \in 0..QueueSize /\ QueueSize \in Nat
      /\ queueTail' = (IF queueTail = QueueSize THEN 0 ELSE queueTail + 1)
      /\ queueTail' \in 0..QueueSize /\ queueHead # queueTail'
  <2>1. queueHead \in 0..QueueSize /\ queueTail \in 0..QueueSize /\ QueueSize \in Nat
    BY <1>2, PoolAssumption DEF TypeOK
  <2>2. queueTail' = (queueTail + 1) % RingSize /\ queueHead # (queueTail + 1) % RingSize
    BY <1>1 DEF isQueueFull
  <2>3. (queueTail + 1) % RingSize = IF queueTail = QueueSize THEN 0 ELSE queueTail + 1
    BY <2>1, NextSlot
  <2> HIDE DEF IInv
  <2> QED BY <2>1, <2>2, <2>3
<1>4. \A i \in 0..QueueSize : InUse(i)' => InUse(i) \/ i = queueTail
  <2>1. queueHead' = queueHead
    BY <1>1
  <2> HIDE DEF IInv
  <2>2. CASE queueTail = QueueSize
    BY <1>3, <2>1, <2>2 DEF InUse
  <2>3. CASE queueTail # QueueSize
    BY <1>3, <2>1, <2>3 DEF InUse
  <2> QED BY <2>2, <2>3
<1>5. QueueLen' = QueueLen + 1 /\ QueueLen \in Nat
  <2>1. /\ QueueLen = IF queueHead <= queueTail THEN queueTail - queueHead
                      ELSE queueTail - queueHead + QueueSize + 1
        /\ QueueLen' = IF queueHead <= queueTail' THEN queueTail' - queueHead
                       ELSE queueTail' - queueHead + QueueSize + 1
    BY <1>1, <1>3, RingDistance DEF QueueLen, RingSize
  <2>2. CASE queueTail = QueueSize
    BY <1>3, <2>1, <2>2
  <2>3. CASE queueTail # QueueSize /\ queueHead <= queueTail
    BY <1>3, <2>1, <2>3
  <2>4. CASE queueTail # QueueSize /\ queueHead > queueTail
    BY <1>3, <2>1, <2>4
  <2> QED BY <1>3, <2>2, <2>3, <2>4
<1>6. popWaiters' \subseteq popWaiters /\ Busy' = Busy
  BY <1>1, SignalOne DEF Busy
<1>7. UseTypeOK'
  <2>1. TypeOK'
    <3>1. queue' \in [0..QueueSize -> Jobs \cup {NoJob}]
      BY <1>1, <1>2, <1>3 DEF TypeOK
    <3> QED BY <1>1, <1>2, <1>3, <1>6, <3>1 DEF TypeOK
  <2>2. accepted' \in Seq(requested')
    BY <1>1, <1>2, SMTT(60) DEF UseTypeOK
  <2> QED BY <1>1, <1>2, <2>1, <2>2 DEF UseTypeOK
<1>8. FlagAgrees' /\ SleepersLoop' /\ BusyCounted'
  BY <1>1, <1>3, <1>6 DEF FlagAgrees, SleepersLoop, BusyCounted
<1>9. ClosedIsEmpty'
  BY <1>1 DEF ClosedIsEmpty, nbThreads
<1>10. Requested'
  <2>1. queue \in [0..QueueSize -> Jobs \cup {NoJob}] /\ call \in [Callers -> {"none", "submit", "completed"}]
        /\ arg \in [Callers -> Jobs \cup {NoJob}]
    BY <1>2 DEF UseTypeOK, TypeOK
  <2> QED BY <1>1, <1>2, <1>3, <1>4, <2>1 DEF Requested
<1>11. NoSleeperMissesAJob'
  <2> SUFFICES ASSUME popWaiters' # {} PROVE QueueLen' <= Cardinality(Idle')
    BY DEF NoSleeperMissesAJob
  <2>1. PICK v \in popWaiters : popWaiters' = popWaiters \ {v}
    BY <1>1, <1>6, SignalOne
  <2>2. v \in Workers /\ pc[v] = "loop"
    BY <1>2 DEF TypeOK, SleepersLoop
  <2>3. Idle' = Idle \cup {v} /\ v \notin Idle
    BY <1>1, <2>1, <2>2 DEF Idle
  <2>4. Cardinality(Idle') = Cardinality(Idle) + 1 /\ Cardinality(Idle) \in Nat
    BY <1>2, <2>3, Types, OneMore
  <2> QED BY <1>5, <2>1, <2>4 DEF NoSleeperMissesAJob
<1> QED BY <1>7, <1>8, <1>9, <1>10, <1>11

\* A call that does not touch the pool: a thread enters or leaves a function.
LEMMA CallStep ==
    ASSUME IInv, UNCHANGED poolVars, UNCHANGED <<accepted, finished>>,
           requested \subseteq requested', requested' \subseteq Jobs,
           call' \in [Callers -> {"none", "submit", "completed"}],
           arg' \in [Callers -> Jobs \cup {NoJob}],
           \A t \in Callers : call'[t] = "submit" =>
               arg'[t] \in requested' /\ (call[t] = "submit" \/ threadLimit = nbThreads)
    PROVE  IInv'
<1> USE DEF IInv, poolVars
<1>1. UseTypeOK'
  <2>1. accepted \in Seq(requested')
    BY WiderSeq DEF UseTypeOK
  <2> QED BY <2>1 DEF UseTypeOK, TypeOK
<1>2. FlagAgrees' /\ SleepersLoop' /\ BusyCounted' /\ NoSleeperMissesAJob'
  BY DEF FlagAgrees, SleepersLoop, BusyCounted, Busy, NoSleeperMissesAJob, Idle, QueueLen, RingSize
<1>3. ClosedIsEmpty'
  BY DEF ClosedIsEmpty, nbThreads, Busy
<1>4. Requested'
  BY DEF Requested, InUse
<1> QED BY <1>1, <1>2, <1>3, <1>4

\* Every step keeps the invariant.
LEMMA NextIInv == IInv /\ [Next]_vars => IInv'
<1> SUFFICES ASSUME IInv, [Next]_vars PROVE IInv'
  OBVIOUS
<1>1. CASE Create /\ UNCHANGED useVars
  BY <1>1, CreateThreadStep, OwnerStep DEF Create
<1>2. ASSUME NEW w \in Workers, Worker(w) PROVE IInv'
  BY <1>2, WaitStep, ExitStep, PopStep, FinishStep DEF Worker
<1>types. /\ call \in [Callers -> {"none", "submit", "completed"}]
          /\ arg \in [Callers -> Jobs \cup {NoJob}]
          /\ requested \subseteq Jobs /\ pushWaiters \subseteq Callers
          /\ \A t \in Callers : call[t] = "submit" => arg[t] \in requested
  BY DEF IInv, UseTypeOK, TypeOK, Requested
<1>return. ASSUME NEW t \in Callers, UNCHANGED poolVars, Return(t),
                  UNCHANGED <<requested, accepted, finished>>
           PROVE  IInv'
  <2>1. /\ call' = [call EXCEPT ![t] = "none"] /\ arg' = [arg EXCEPT ![t] = NoJob]
        /\ requested' = requested
    BY <1>return DEF Return
  <2>2. /\ call' \in [Callers -> {"none", "submit", "completed"}]
        /\ arg' \in [Callers -> Jobs \cup {NoJob}]
        /\ \A s \in Callers : call'[s] = "submit" => arg'[s] \in requested' /\ call[s] = "submit"
    BY <1>types, <2>1
  <2> QED BY <1>types, <1>return, <2>1, <2>2, CallStep
<1>3. ASSUME NEW t \in Callers, Submit(t) PROVE IInv'
  <2>1. CASE SubmitBlocks(t) /\ UNCHANGED useVars
    BY <1>types, <2>1, WakeStep DEF SubmitBlocks
  <2>2. CASE SubmitEnqueues(arg[t]) /\ Return(t) /\ accepted' = Append(accepted, arg[t])
             /\ UNCHANGED <<requested, finished>>
    BY <1>3, <2>2, EnqueueStep DEF Submit, Inside
  <2>3. CASE SubmitDrops /\ Return(t) /\ UNCHANGED <<requested, accepted, finished>>
    BY <2>3, <1>return DEF SubmitDrops
  <2> QED BY <1>3, <2>1, <2>2, <2>3 DEF Submit
<1>4. ASSUME NEW t \in Callers, Completed(t) PROVE IInv'
  <2>1. CASE CompletedBlocks(t) /\ UNCHANGED useVars
    BY <1>types, <2>1, WakeStep DEF CompletedBlocks
  <2>2. CASE CompletedReturns /\ Return(t) /\ UNCHANGED <<requested, accepted, finished>>
    BY <2>2, <1>return DEF CompletedReturns
  <2> QED BY <1>4, <2>1, <2>2 DEF Completed
<1>5. ASSUME NEW t \in Callers, CallCompleted(t) PROVE IInv'
  <2>1. call' = [call EXCEPT ![t] = "completed"] /\ arg' = arg /\ requested' = requested
        /\ UNCHANGED poolVars /\ UNCHANGED <<accepted, finished>>
    BY <1>5 DEF CallCompleted
  <2>2. /\ call' \in [Callers -> {"none", "submit", "completed"}]
        /\ \A s \in Callers : call'[s] = "submit" => arg'[s] \in requested' /\ call[s] = "submit"
    BY <1>types, <2>1
  <2> QED BY <1>types, <2>1, <2>2, CallStep
<1>6. ASSUME NEW t \in Callers, NEW j \in Jobs, CallSubmit(t, j) PROVE IInv'
  <2>1. call' = [call EXCEPT ![t] = "submit"] /\ arg' = [arg EXCEPT ![t] = j]
        /\ requested' = requested \cup {j}
        /\ UNCHANGED poolVars /\ UNCHANGED <<accepted, finished>> /\ MaySubmit(t, j)
    BY <1>6 DEF CallSubmit
  <2>2. threadLimit = nbThreads
    BY <2>1 DEF MaySubmit, IInv, ClosedIsEmpty, Busy
  <2>3. /\ call' \in [Callers -> {"none", "submit", "completed"}]
        /\ arg' \in [Callers -> Jobs \cup {NoJob}]
        /\ requested \subseteq requested' /\ requested' \subseteq Jobs
        /\ \A s \in Callers : call'[s] = "submit" => arg'[s] \in requested'
    BY <1>types, <2>1
  <2> QED BY <2>1, <2>2, <2>3, CallStep
<1>7. CASE Free
  BY <1>7, OwnerStep DEF Free
<1>8. CASE Shutdown /\ UNCHANGED useVars
  BY <1>8, OwnerStep DEF Shutdown
<1>9. CASE SpuriousWakeup /\ UNCHANGED useVars
  BY <1>types, <1>9, WakeStep DEF SpuriousWakeup
<1>10. CASE UNCHANGED vars
  BY <1>types, <1>10, CallStep DEF vars, useVars
<1> QED BY <1>1, <1>2, <1>3, <1>4, <1>5, <1>6, <1>7, <1>8, <1>9, <1>10 DEF Next

\* The one pthread_cond_signal per submission is enough: in every reachable state,
\* if a worker is asleep on queuePopCond then at least as many workers are on their
\* way to the queue as it holds jobs.
THEOREM WorkersNeverMissAJob == Spec => [](UseTypeOK /\ NoSleeperMissesAJob)
<1>1. IInv => UseTypeOK /\ NoSleeperMissesAJob
  BY DEF IInv
<1> QED BY InitIInv, NextIInv, <1>1, PTL DEF Spec

-----------------------------------------------------------------------------
(* The ring as a sequence                                                  *)

\* The slot k places behind slot h.
LEMMA SlotBehind ==
    ASSUME NEW h \in 0..QueueSize, NEW k \in 0..QueueSize
    PROVE  (h + k) % RingSize = IF h + k <= QueueSize THEN h + k ELSE h + k - RingSize
<1> DEFINE d == h + k
<1>1. CASE d <= QueueSize
  <2>1. d \in 0..(RingSize - 1) /\ RingSize \in Nat \ {0}
    BY <1>1, PoolAssumption DEF RingSize
  <2>2. d % RingSize = d
    <3> HIDE DEF d
    <3> QED BY <2>1
  <2> QED BY <1>1, <2>2
<1>2. CASE d > QueueSize
  <2>1. d \in RingSize..(2 * RingSize - 1) /\ RingSize \in Nat \ {0}
    BY <1>2, PoolAssumption DEF RingSize
  <2>2. d % RingSize = d - RingSize
    <3> HIDE DEF d
    <3> QED BY <2>1
  <2> QED BY <1>2, <2>1, <2>2, PoolAssumption DEF RingSize
<1> QED BY <1>1, <1>2, PoolAssumption

\* What a ring f holds from slot h up to slot t: QueueLen and PendingJobs for any state.
Distance(h, t) == (t - h + RingSize) % RingSize
Contents(f, h, t) == [i \in 1..Distance(h, t) |-> f[(h + i - 1) % RingSize]]

\* It is a sequence.
LEMMA RingIsSeq ==
    ASSUME NEW f \in [0..QueueSize -> Jobs \cup {NoJob}],
           NEW h \in 0..QueueSize, NEW t \in 0..QueueSize
    PROVE  /\ Contents(f, h, t) \in Seq(Jobs \cup {NoJob})
           /\ Len(Contents(f, h, t)) = Distance(h, t) /\ Distance(h, t) \in 0..QueueSize
           /\ \A i \in 1..Distance(h, t) :
                 Contents(f, h, t)[i] = f[IF h + i - 1 <= QueueSize THEN h + i - 1
                                          ELSE h + i - 1 - RingSize]
<1> DEFINE n == Distance(h, t)
           s == Contents(f, h, t)
<1>1. QueueSize \in Nat \ {0}
  BY PoolAssumption
<1>2. n \in 0..QueueSize
  <2>1. n = IF h <= t THEN t - h ELSE t - h + QueueSize + 1
    BY RingDistance DEF Distance
  <2> HIDE DEF n
  <2> QED BY <1>1, <2>1, SMTT(60)
<1>3. ASSUME NEW i \in 1..n
      PROVE  /\ (h + i - 1) % RingSize = IF h + i - 1 <= QueueSize THEN h + i - 1
                                         ELSE h + i - 1 - RingSize
             /\ (h + i - 1) % RingSize \in 0..QueueSize
  <2> HIDE DEF n
  <2>1. i - 1 \in 0..QueueSize /\ h + i - 1 = h + (i - 1)
    BY <1>1, <1>2, SMTT(60)
  <2>2. (h + (i - 1)) % RingSize = IF h + (i - 1) <= QueueSize THEN h + (i - 1)
                                   ELSE h + (i - 1) - RingSize
    BY <1>1, <2>1, SlotBehind
  <2> QED BY <1>1, <2>1, <2>2, SMTT(60) DEF RingSize
<1>4. s = [i \in 1..n |-> f[(h + i - 1) % RingSize]]
  BY DEF Contents
<1> HIDE DEF n, s
<1>5. s \in [1..n -> Jobs \cup {NoJob}]
  BY <1>1, <1>3, <1>4
<1>6. s \in Seq(Jobs \cup {NoJob}) /\ Len(s) = n
  BY <1>2, <1>5
<1>7. \A i \in 1..n : s[i] = f[IF h + i - 1 <= QueueSize THEN h + i - 1 ELSE h + i - 1 - RingSize]
  BY <1>3, <1>4
<1> QED BY <1>2, <1>6, <1>7 DEF n, s

\* PendingJobs is a sequence of QueueLen jobs, in this state and in the next.
LEMMA PendingIsSeq ==
    ASSUME TypeOK, TypeOK'
    PROVE  /\ PendingJobs \in Seq(Jobs \cup {NoJob}) /\ Len(PendingJobs) = QueueLen
           /\ \A i \in 1..QueueLen :
                 PendingJobs[i] = queue[IF queueHead + i - 1 <= QueueSize THEN queueHead + i - 1
                                        ELSE queueHead + i - 1 - RingSize]
           /\ PendingJobs' \in Seq(Jobs \cup {NoJob}) /\ Len(PendingJobs') = QueueLen'
           /\ \A i \in 1..QueueLen' :
                 PendingJobs'[i] = queue'[IF queueHead' + i - 1 <= QueueSize THEN queueHead' + i - 1
                                          ELSE queueHead' + i - 1 - RingSize]
<1>1. /\ queue \in [0..QueueSize -> Jobs \cup {NoJob}]
      /\ queueHead \in 0..QueueSize /\ queueTail \in 0..QueueSize
      /\ queue' \in [0..QueueSize -> Jobs \cup {NoJob}]
      /\ queueHead' \in 0..QueueSize /\ queueTail' \in 0..QueueSize
  BY DEF TypeOK
<1>2. /\ QueueLen = Distance(queueHead, queueTail)
      /\ PendingJobs = Contents(queue, queueHead, queueTail)
  BY DEF QueueLen, PendingJobs, Distance, Contents
<1>3. /\ QueueLen' = Distance(queueHead', queueTail')
      /\ PendingJobs' = Contents(queue', queueHead', queueTail')
  BY DEF QueueLen, PendingJobs, Distance, Contents, RingSize
<1>4. /\ PendingJobs \in Seq(Jobs \cup {NoJob}) /\ Len(PendingJobs) = QueueLen
      /\ \A i \in 1..QueueLen :
            PendingJobs[i] = queue[IF queueHead + i - 1 <= QueueSize THEN queueHead + i - 1
                                   ELSE queueHead + i - 1 - RingSize]
  <2>1. /\ Contents(queue, queueHead, queueTail) \in Seq(Jobs \cup {NoJob})
        /\ Len(Contents(queue, queueHead, queueTail)) = Distance(queueHead, queueTail)
        /\ \A i \in 1..Distance(queueHead, queueTail) :
              Contents(queue, queueHead, queueTail)[i]
                = queue[IF queueHead + i - 1 <= QueueSize THEN queueHead + i - 1
                       ELSE queueHead + i - 1 - RingSize]
    BY <1>1, RingIsSeq
  <2> QED BY <1>2, <2>1
<1>5. /\ PendingJobs' \in Seq(Jobs \cup {NoJob}) /\ Len(PendingJobs') = QueueLen'
      /\ \A i \in 1..QueueLen' :
            PendingJobs'[i] = queue'[IF queueHead' + i - 1 <= QueueSize THEN queueHead' + i - 1
                                     ELSE queueHead' + i - 1 - RingSize]
  <2>1. /\ Contents(queue', queueHead', queueTail') \in Seq(Jobs \cup {NoJob})
        /\ Len(Contents(queue', queueHead', queueTail')) = Distance(queueHead', queueTail')
        /\ \A i \in 1..Distance(queueHead', queueTail') :
              Contents(queue', queueHead', queueTail')[i]
                = queue'[IF queueHead' + i - 1 <= QueueSize THEN queueHead' + i - 1
                       ELSE queueHead' + i - 1 - RingSize]
    BY <1>1, RingIsSeq
  <2> QED BY <1>3, <2>1
<1> QED BY <1>4, <1>5

\* A job is put behind the others (SubmitEnqueues).
LEMMA Pushed ==
    ASSUME TypeOK, TypeOK', NEW j \in Jobs, ~isQueueFull,
           queue' = [queue EXCEPT ![queueTail] = j],
           queueTail' = (queueTail + 1) % RingSize, queueHead' = queueHead
    PROVE  Len(PendingJobs) < QueueSize /\ PendingJobs' = Append(PendingJobs, j)
<1> DEFINE slot(i) == IF queueHead + i - 1 <= QueueSize THEN queueHead + i - 1
                      ELSE queueHead + i - 1 - RingSize
           p == PendingJobs
           q == PendingJobs'
<1>1. /\ queue \in [0..QueueSize -> Jobs \cup {NoJob}] /\ queueHead \in 0..QueueSize
      /\ queueTail \in 0..QueueSize /\ QueueSize \in Nat \ {0} /\ RingSize = QueueSize + 1
  BY PoolAssumption DEF TypeOK, RingSize
<1>2. /\ queueTail' = (IF queueTail = QueueSize THEN 0 ELSE queueTail + 1)
      /\ queueHead # queueTail'
  BY <1>1, NextSlot DEF isQueueFull
<1>3. /\ QueueLen = IF queueHead <= queueTail THEN queueTail - queueHead
                    ELSE queueTail - queueHead + QueueSize + 1
      /\ QueueLen' = IF queueHead <= queueTail' THEN queueTail' - queueHead
                     ELSE queueTail' - queueHead + QueueSize + 1
  <2>1. queueTail' \in 0..QueueSize
    BY <1>1, <1>2, SMTT(60)
  <2> QED BY <1>1, <2>1, RingDistance DEF QueueLen, RingSize
<1>4. QueueLen \in 0..(QueueSize - 1) /\ QueueLen' = QueueLen + 1
  <2>1. CASE queueTail = QueueSize
    BY <1>1, <1>2, <1>3, <2>1
  <2>2. CASE queueTail # QueueSize /\ queueHead <= queueTail
    BY <1>1, <1>2, <1>3, <2>2
  <2>3. CASE queueTail # QueueSize /\ queueHead > queueTail
    BY <1>1, <1>2, <1>3, <2>3
  <2> QED BY <1>1, <2>1, <2>2, <2>3
<1>5. /\ \A i \in 1..QueueLen : slot(i) \in 0..QueueSize /\ slot(i) # queueTail
      /\ slot(QueueLen + 1) = queueTail
  <2>1. CASE queueHead <= queueTail
    BY <1>1, <1>3, <1>4, <2>1, SMTT(60)
  <2>2. CASE queueHead > queueTail
    BY <1>1, <1>3, <1>4, <2>2, SMTT(60)
  <2> QED BY <1>1, <2>1, <2>2
<1>6. /\ p \in Seq(Jobs \cup {NoJob}) /\ Len(p) = QueueLen
      /\ \A i \in 1..QueueLen : p[i] = queue[slot(i)]
  BY PendingIsSeq
<1>7. /\ q \in Seq(Jobs \cup {NoJob}) /\ Len(q) = QueueLen + 1
      /\ \A i \in 1..(QueueLen + 1) : q[i] = queue'[slot(i)]
  BY <1>4, PendingIsSeq
<1> HIDE DEF slot, p, q
<1>8. ASSUME NEW i \in 1..QueueLen PROVE q[i] = p[i]
  <2>1. i \in 1..(QueueLen + 1)
    BY <1>4, SMTT(60)
  <2>2. queue'[slot(i)] = queue[slot(i)]
    BY <1>1, <1>5
  <2> QED BY <1>6, <1>7, <2>1, <2>2
<1>9. q[QueueLen + 1] = j
  BY <1>1, <1>4, <1>5, <1>7, SMTT(60)
<1>10. q = Append(p, j)
  <2>1. /\ Append(p, j) \in Seq(Jobs \cup {NoJob}) /\ Len(Append(p, j)) = Len(p) + 1
        /\ \A i \in 1..Len(p) : Append(p, j)[i] = p[i]
        /\ Append(p, j)[Len(p) + 1] = j
    BY <1>6, Appended, SMTT(60)
  <2>2. \A i \in 1..Len(q) : q[i] = Append(p, j)[i]
    BY <1>4, <1>6, <1>7, <1>8, <1>9, <2>1, SMTT(60)
  <2> QED BY <1>6, <1>7, <2>1, <2>2, SameSeq
<1> QED BY <1>1, <1>4, <1>6, <1>10, SMTT(60) DEF p, q

\* The oldest job is taken (WorkerPops).
LEMMA Popped ==
    ASSUME TypeOK, TypeOK', queueHead # queueTail,
           queueHead' = (queueHead + 1) % RingSize, queue' = queue, queueTail' = queueTail
    PROVE  /\ PendingJobs # <<>> /\ Head(PendingJobs) = queue[queueHead]
           /\ PendingJobs' = Tail(PendingJobs)
<1> DEFINE slot(h, i) == IF h + i - 1 <= QueueSize THEN h + i - 1 ELSE h + i - 1 - RingSize
           p == PendingJobs
           q == PendingJobs'
<1>1. /\ queueHead \in 0..QueueSize /\ queueTail \in 0..QueueSize
      /\ QueueSize \in Nat \ {0} /\ RingSize = QueueSize + 1
  BY PoolAssumption DEF TypeOK, RingSize
<1>2. queueHead' = IF queueHead = QueueSize THEN 0 ELSE queueHead + 1
  BY <1>1, NextSlot
<1>3. QueueLen \in 1..QueueSize /\ QueueLen' = QueueLen - 1
  <2>1. queueHead' \in 0..QueueSize
    BY <1>1, <1>2
  <2>2. /\ QueueLen = IF queueHead <= queueTail THEN queueTail - queueHead
                      ELSE queueTail - queueHead + QueueSize + 1
        /\ QueueLen' = IF queueHead' <= queueTail THEN queueTail - queueHead'
                       ELSE queueTail - queueHead' + QueueSize + 1
    BY <1>1, <2>1, RingDistance DEF QueueLen, RingSize
  <2> QED BY <1>1, <1>2, <2>2
<1>4. /\ slot(queueHead, 1) = queueHead
      /\ \A i \in 1..QueueLen' : slot(queueHead', i) = slot(queueHead, i + 1)
  BY <1>1, <1>2, <1>3
<1>5. /\ p \in Seq(Jobs \cup {NoJob}) /\ Len(p) = QueueLen
      /\ \A i \in 1..QueueLen : p[i] = queue[slot(queueHead, i)]
  BY PendingIsSeq
<1>6. /\ q \in Seq(Jobs \cup {NoJob}) /\ Len(q) = QueueLen'
      /\ \A i \in 1..QueueLen' : q[i] = queue[slot(queueHead', i)]
  BY PendingIsSeq
<1> HIDE DEF slot, p, q
<1>7. p # <<>> /\ Head(p) = queue[queueHead]
  BY <1>3, <1>4, <1>5, SMTT(60)
<1>8. q = Tail(p)
  <2>1. /\ Tail(p) \in Seq(Jobs \cup {NoJob}) /\ Len(Tail(p)) = Len(p) - 1
        /\ \A i \in 1..Len(Tail(p)) : Tail(p)[i] = p[i + 1]
    BY <1>5, <1>7, HeadTaken
  <2>2. \A i \in 1..Len(q) : q[i] = Tail(p)[i]
    BY <1>3, <1>4, <1>5, <1>6, <2>1, SMTT(60)
  <2> QED BY <1>3, <1>5, <1>6, <2>1, <2>2, SameSeq
<1> QED BY <1>7, <1>8 DEF p, q

-----------------------------------------------------------------------------
(* The refinement                                                          *)

\* Between jobs a worker's local `job' is none.
IdleHasNoJob == \A w \in Workers : pc[w] # "run" => job[w] = NoJob

RInv == IInv /\ IdleHasNoJob

\* The steps that neither queue, nor take, nor end a job.
Elsewhere == /\ UNCHANGED <<queue, queueHead, queueTail, job>>
             /\ \A w \in Workers : pc'[w] = "run" <=> pc[w] = "run"

\* They cannot be seen.
LEMMA ElsewhereHidden ==
    ASSUME RInv, Elsewhere
    PROVE  IdleHasNoJob' /\ UNCHANGED Promise!poolVars
<1>1. IdleHasNoJob'
  BY DEF RInv, IdleHasNoJob, Elsewhere
<1>2. PendingJobs' = PendingJobs
  BY DEF Elsewhere, PendingJobs, QueueLen, RingSize
<1> QED BY <1>1, <1>2 DEF Elsewhere, Promise!poolVars

\* A worker takes a job.
LEMMA PopRefines ==
    ASSUME RInv, TypeOK', NEW w \in Workers, WorkerPops(w)
    PROVE  IdleHasNoJob' /\ Promise!Start(w)
<1>1. /\ pc[w] = "loop" /\ ~queueEmpty /\ pc' = [pc EXCEPT ![w] = "run"]
      /\ job' = [job EXCEPT ![w] = queue[queueHead]]
      /\ queueHead' = (queueHead + 1) % RingSize /\ queue' = queue /\ queueTail' = queueTail
  <2>1. queueEmpty \in BOOLEAN
    BY DEF RInv, IInv, UseTypeOK, TypeOK
  <2> QED BY <2>1 DEF WorkerPops, Awake, MustWait
<1>2. TypeOK /\ queueHead # queueTail /\ job[w] = NoJob
  BY <1>1 DEF RInv, IInv, UseTypeOK, FlagAgrees, IdleHasNoJob
<1>3. /\ pc \in [Workers -> {"none", "loop", "run", "exited"}]
      /\ job \in [Workers -> Jobs \cup {NoJob}]
  BY <1>2 DEF TypeOK
<1>4. IdleHasNoJob'
  BY <1>1, <1>3 DEF RInv, IdleHasNoJob
<1>5. /\ PendingJobs # <<>> /\ Head(PendingJobs) = queue[queueHead]
      /\ PendingJobs' = Tail(PendingJobs)
  BY <1>1, <1>2, Popped
<1> QED BY <1>1, <1>2, <1>4, <1>5 DEF Promise!Start

\* A job ends.
LEMMA FinishRefines ==
    ASSUME RInv, NEW w \in Workers, Finish(w)
    PROVE  IdleHasNoJob' /\ Promise!Finish(w)
<1>1. /\ pc[w] = "run" /\ pc' = [pc EXCEPT ![w] = "loop"] /\ job' = [job EXCEPT ![w] = NoJob]
      /\ UNCHANGED <<queue, queueHead, queueTail>>
  BY DEF Finish, WorkerFinishes, queueVars
<1>2. /\ pc \in [Workers -> {"none", "loop", "run", "exited"}]
      /\ job \in [Workers -> Jobs \cup {NoJob}]
      /\ job[w] # NoJob
  BY <1>1, PoolAssumption DEF RInv, IInv, UseTypeOK, TypeOK, Requested
<1>3. IdleHasNoJob'
  BY <1>1, <1>2 DEF RInv, IdleHasNoJob
<1>4. PendingJobs' = PendingJobs
  BY <1>1 DEF PendingJobs, QueueLen, RingSize
<1> QED BY <1>1, <1>2, <1>3, <1>4 DEF Promise!Finish

\* A job is queued.
LEMMA EnqueueRefines ==
    ASSUME RInv, TypeOK', NEW t \in Callers, call[t] = "submit", SubmitEnqueues(arg[t])
    PROVE  IdleHasNoJob' /\ \E j \in Jobs : Promise!Submit(j)
<1>1. /\ ~isQueueFull /\ queue' = [queue EXCEPT ![queueTail] = arg[t]]
      /\ queueTail' = (queueTail + 1) % RingSize /\ queueHead' = queueHead
      /\ UNCHANGED <<pc, job>>
  BY DEF SubmitEnqueues
<1>2. TypeOK /\ arg[t] \in Jobs
  BY DEF RInv, IInv, UseTypeOK, Requested
<1>3. Len(PendingJobs) < QueueSize /\ PendingJobs' = Append(PendingJobs, arg[t])
  BY <1>1, <1>2, Pushed
<1>4. IdleHasNoJob'
  BY <1>1 DEF RInv, IdleHasNoJob
<1> QED BY <1>1, <1>2, <1>3, <1>4 DEF Promise!Submit

\* Every step of the pool is a step of JobPool or cannot be seen.
LEMMA NextRefines ==
    RInv /\ [Next]_vars => RInv' /\ [Promise!Next]_(Promise!poolVars)
<1> SUFFICES ASSUME RInv, [Next]_vars
             PROVE  IdleHasNoJob' /\ [Promise!Next]_(Promise!poolVars)
  BY NextIInv DEF RInv
<1>1. IInv' /\ TypeOK'
  BY NextIInv DEF RInv, IInv, UseTypeOK
<1>2. pc \in [Workers -> {"none", "loop", "run", "exited"}]
  BY DEF RInv, IInv, UseTypeOK, TypeOK
<1>3. CASE Create /\ UNCHANGED useVars
  <2>1. Elsewhere
    BY <1>2, <1>3 DEF Create, CreateThread, CreateReturns, CreateFails, Elsewhere, queueVars
  <2> QED BY <2>1, ElsewhereHidden
<1>4. ASSUME NEW w \in Workers, Worker(w)
      PROVE  IdleHasNoJob' /\ [Promise!Next]_(Promise!poolVars)
  <2>1. CASE WorkerWaits(w) \/ WorkerExits(w)
    <3>1. Elsewhere
      BY <1>2, <2>1 DEF WorkerWaits, WorkerExits, Awake, Elsewhere, queueVars
    <3> QED BY <3>1, ElsewhereHidden
  <2>2. CASE WorkerPops(w)
    BY <1>1, <2>2, PopRefines DEF Promise!Next
  <2>3. CASE Finish(w)
    BY <2>3, FinishRefines DEF Promise!Next
  <2> QED BY <1>4, <2>1, <2>2, <2>3 DEF Worker
<1>5. ASSUME NEW t \in Callers, Submit(t)
      PROVE  IdleHasNoJob' /\ [Promise!Next]_(Promise!poolVars)
  <2>1. CASE SubmitBlocks(t) \/ SubmitDrops
    <3>1. Elsewhere
      BY <2>1 DEF SubmitBlocks, SubmitDrops, Elsewhere, queueVars, poolVars
    <3> QED BY <3>1, ElsewhereHidden
  <2>2. CASE SubmitEnqueues(arg[t])
    <3>1. call[t] = "submit"
      BY <1>5 DEF Submit, Inside
    <3> QED BY <1>1, <2>2, <3>1, EnqueueRefines DEF Promise!Next
  <2> QED BY <1>5, <2>1, <2>2 DEF Submit
<1>6. CASE \/ \E t \in Callers : Completed(t) \/ CallCompleted(t)
           \/ \E t \in Callers, j \in Jobs : CallSubmit(t, j)
  <2>1. Elsewhere
    BY <1>6 DEF Completed, CompletedBlocks, CompletedReturns, CallCompleted, CallSubmit,
                Elsewhere, queueVars, poolVars
  <2> QED BY <2>1, ElsewhereHidden
<1>7. CASE Free \/ (Shutdown /\ UNCHANGED useVars) \/ (SpuriousWakeup /\ UNCHANGED useVars)
  <2>1. Elsewhere
    BY <1>7 DEF Free, FreeCalled, Shutdown, ShutdownSet, ShutdownBroadcasts, ShutdownJoins,
                SpuriousWakeup, Elsewhere, queueVars
  <2> QED BY <2>1, ElsewhereHidden
<1>8. CASE UNCHANGED vars
  <2>1. Elsewhere
    BY <1>8 DEF vars, poolVars, Elsewhere
  <2> QED BY <2>1, ElsewhereHidden
<1> QED BY <1>3, <1>4, <1>5, <1>6, <1>7, <1>8 DEF Next

\* The pool is what threadpool.h promises, however many workers, callers and slots it has and
\* whoever submits: jobs wait in a FIFO of at most QueueSize, a worker runs one at a time, the
\* oldest first and each once (TPool_thread, TPool_submitJob, over the ring with one wasted slot).
THEOREM PoolKeepsItsPromise == Spec => ImplementsJobPool
<1>1. Init => RInv /\ Promise!Init
  <2> SUFFICES ASSUME Init PROVE RInv /\ Promise!Init
    OBVIOUS
  <2>1. RInv
    BY InitIInv DEF RInv, IdleHasNoJob, Init, PoolInit, Fresh
  <2>2. QueueLen = 0
    BY <2>1, Types DEF RInv, IInv, UseTypeOK, Init, PoolInit, Fresh
  <2>3. PendingJobs = <<>>
    BY <2>2 DEF PendingJobs
  <2> QED BY <2>1, <2>3 DEF Promise!Init, Init, PoolInit, Fresh
<1>2. RInv /\ [Next]_vars => RInv' /\ [Promise!Next]_(Promise!poolVars)
  BY NextRefines
<1> QED BY <1>1, <1>2, PTL DEF Spec, ImplementsJobPool, Promise!Spec

-----------------------------------------------------------------------------
(* What the pool does with its jobs: the invariant                         *)

\* Jobs that were popped: all but the last QueueLen accepted ones.
WasPopped(j) == \E i \in 1..(Len(accepted) - QueueLen) : accepted[i] = j
Submits(t) == call[t] = "submit"

\* The ring holds the last of the accepted jobs, in order.
RingInv ==
    /\ QueueLen <= Len(accepted)
    /\ \A i \in 1..QueueLen : PendingJobs[i] = accepted[Len(accepted) - QueueLen + i]

\* No job is accepted twice: one that is being submitted was not accepted before, and
\* nobody else submits it.
FreshInv ==
    /\ \A i, k \in 1..Len(accepted) : accepted[i] = accepted[k] => i = k
    /\ \A t \in Callers, i \in 1..Len(accepted) : Submits(t) => accepted[i] # arg[t]
    /\ \A s, t \in Callers : Submits(s) /\ Submits(t) /\ arg[s] = arg[t] => s = t

\* A popped job has been run or is run by one worker.
RunInv ==
    /\ \A j \in Jobs : WasPopped(j) <=> j \in finished \/ \E w \in Busy : job[w] = j
    /\ \A w \in Busy : job[w] \notin finished
    /\ \A v, w \in Busy : job[v] = job[w] => v = w

\* Workers leave only when the queue is empty for good, and TPool_free waits for all that
\* were started; a worker calls from its job, a client while the pool is open.
DrainInv ==
    /\ \A w \in Workers : pc[w] = "exited" => shutdown /\ QueueLen = 0
    /\ threadLimit = nbThreads => \A w \in Workers : pc[w] # "none"
    /\ owner # "create" => threadCapacity = Cardinality({w \in Workers : pc[w] # "none"})
    /\ owner = "freed" => \A w \in Workers : pc[w] \in {"none", "exited"}
    /\ \A w \in Workers : call[w] # "none" => pc[w] = "run"
    /\ owner # "ready" => \A c \in Clients : call[c] = "none"

OInv == RInv /\ RingInv /\ FreshInv /\ RunInv /\ DrainInv

\* The types the steps use.
LEMMA OTypes ==
    ASSUME OInv
    PROVE  /\ TypeOK /\ IInv /\ accepted \in Seq(Jobs) /\ Len(accepted) \in Nat
           /\ QueueLen \in Nat /\ requested \subseteq Jobs
           /\ pc \in [Workers -> {"none", "loop", "run", "exited"}]
           /\ job \in [Workers -> Jobs \cup {NoJob}]
           /\ call \in [Callers -> {"none", "submit", "completed"}]
           /\ arg \in [Callers -> Jobs \cup {NoJob}]
           /\ \A t \in Callers : Submits(t) => arg[t] \in Jobs
           /\ \A w \in Busy : job[w] \in Jobs
           /\ \A i \in 1..Len(accepted) : accepted[i] \in requested
<1>1. UseTypeOK /\ Requested /\ IInv /\ TypeOK
  BY DEF OInv, RInv, IInv, UseTypeOK
<1>2. accepted \in Seq(Jobs) /\ accepted \in Seq(requested) /\ Len(accepted) \in Nat
  BY <1>1, WiderSeq DEF UseTypeOK
<1>3. QueueLen \in Nat
  BY <1>1, Types
<1>4. \A i \in 1..Len(accepted) : accepted[i] \in requested
  BY <1>2
<1> QED BY <1>1, <1>2, <1>3, <1>4 DEF UseTypeOK, TypeOK, Requested, Submits, Busy

-----------------------------------------------------------------------------
(* Its preservation, but for DrainInv                                      *)

\* Steps that leave the ring, the history and the running jobs alone, and in which no
\* submission begins.
LEMMA JobsFrame ==
    ASSUME OInv, Elsewhere, UNCHANGED <<accepted, finished>>,
           \A t \in Callers : Submits(t)' => Submits(t) /\ arg'[t] = arg[t]
    PROVE  RingInv' /\ FreshInv' /\ RunInv' /\ QueueLen' = QueueLen
<1>1. PendingJobs' = PendingJobs /\ QueueLen' = QueueLen
  BY DEF Elsewhere, PendingJobs, QueueLen, RingSize
<1>2. Busy' = Busy /\ job' = job
  BY DEF Elsewhere, Busy
<1>3. RingInv'
  BY <1>1 DEF OInv, RingInv
<1>4. FreshInv'
  BY DEF OInv, FreshInv
<1>5. RunInv'
  BY <1>1, <1>2 DEF OInv, RunInv, WasPopped
<1> QED BY <1>1, <1>3, <1>4, <1>5

\* A worker takes the oldest job, which nobody runs or has run.
LEMMA PopJobs ==
    ASSUME OInv, TypeOK', NEW w \in Workers, WorkerPops(w), UNCHANGED useVars
    PROVE  RingInv' /\ FreshInv' /\ RunInv'
<1> DEFINE n == Len(accepted) - QueueLen
           j == accepted[n + 1]
<1>1. /\ pc[w] = "loop" /\ ~queueEmpty /\ pc' = [pc EXCEPT ![w] = "run"]
      /\ job' = [job EXCEPT ![w] = queue[queueHead]]
      /\ queueHead' = (queueHead + 1) % RingSize /\ queue' = queue /\ queueTail' = queueTail
      /\ UNCHANGED <<call, arg, requested, accepted, finished>>
  <2>1. queueEmpty \in BOOLEAN
    BY OTypes DEF TypeOK
  <2> QED BY <2>1 DEF WorkerPops, Awake, MustWait, useVars
<1>2. TypeOK /\ queueHead # queueTail
  BY <1>1, OTypes DEF IInv, FlagAgrees
<1>3. /\ PendingJobs # <<>> /\ Head(PendingJobs) = queue[queueHead]
      /\ PendingJobs' = Tail(PendingJobs)
  BY <1>1, <1>2, Popped
<1>4. /\ PendingJobs \in Seq(Jobs \cup {NoJob}) /\ Len(PendingJobs) = QueueLen
      /\ Len(PendingJobs') = QueueLen'
  BY <1>2, PendingIsSeq
<1>5. /\ QueueLen >= 1 /\ QueueLen' = QueueLen - 1 /\ PendingJobs[1] = queue[queueHead]
      /\ \A i \in 1..QueueLen' : PendingJobs'[i] = PendingJobs[i + 1]
  BY <1>3, <1>4, HeadTaken
<1>6. Len(accepted) \in Nat /\ QueueLen \in Nat /\ n \in Nat /\ n + 1 \in 1..Len(accepted)
  BY <1>5, OTypes, SMTT(60) DEF OInv, RingInv
<1>7. RingInv'
  <2>1. RingInv /\ accepted' = accepted
    BY <1>1 DEF OInv
  <2>2. ASSUME NEW i \in 1..QueueLen'
        PROVE  PendingJobs'[i] = accepted[Len(accepted) - QueueLen' + i]
    <3>1. /\ i \in Nat /\ i + 1 \in 1..QueueLen
          /\ Len(accepted) - QueueLen + (i + 1) = Len(accepted) - QueueLen' + i
      BY <1>5, <1>6, SMTT(60)
    <3>2. PendingJobs[i + 1] = accepted[Len(accepted) - QueueLen + (i + 1)]
      BY <2>1, <3>1 DEF RingInv
    <3> QED BY <1>5, <3>1, <3>2
  <2>3. QueueLen' <= Len(accepted)
    BY <2>1, <1>5, <1>6, SMTT(60) DEF RingInv
  <2> QED BY <2>1, <2>2, <2>3 DEF RingInv
<1>8. FreshInv'
  BY <1>1 DEF OInv, FreshInv, Submits
<1>9. queue[queueHead] = j /\ j \in Jobs
  BY <1>5, <1>6, OTypes, SMTT(60) DEF OInv, RingInv
<1>10. ~WasPopped(j)
  BY <1>6, SMTT(60) DEF OInv, FreshInv, WasPopped
<1>11. \A k \in Jobs : WasPopped(k)' <=> WasPopped(k) \/ k = j
  BY <1>1, <1>5, <1>6, SMTT(60) DEF WasPopped
<1>12. /\ Busy' = Busy \cup {w} /\ w \notin Busy /\ job'[w] = j
       /\ \A v \in Busy : job'[v] = job[v] /\ job[v] \in Jobs
  BY <1>1, <1>9, OTypes DEF Busy
<1>13. j \notin finished /\ \A v \in Busy : job[v] # j
  BY <1>9, <1>10 DEF OInv, RunInv
<1>14. RunInv'
  <2> HIDE DEF j
  <2>1. RunInv /\ finished' = finished
    BY <1>1 DEF OInv
  <2>2. ASSUME NEW k \in Jobs
        PROVE  WasPopped(k)' <=> k \in finished' \/ \E v \in Busy' : job'[v] = k
    BY <1>11, <1>12, <2>1 DEF RunInv
  <2>3. \A v \in Busy' : job'[v] \notin finished'
    BY <1>12, <1>13, <2>1 DEF RunInv
  <2>4. \A u, v \in Busy' : job'[u] = job'[v] => u = v
    BY <1>12, <1>13, <2>1, SMTT(60) DEF RunInv
  <2> QED BY <2>2, <2>3, <2>4 DEF RunInv
<1> QED BY <1>7, <1>8, <1>14

\* A job ends.
LEMMA FinishJobs ==
    ASSUME OInv, NEW w \in Workers, Finish(w)
    PROVE  RingInv' /\ FreshInv' /\ RunInv' /\ QueueLen' = QueueLen
<1>1. /\ pc[w] = "run" /\ pc' = [pc EXCEPT ![w] = "loop"] /\ job' = [job EXCEPT ![w] = NoJob]
      /\ finished' = finished \cup {job[w]}
      /\ UNCHANGED <<queue, queueHead, queueTail, call, arg, accepted>>
  BY DEF Finish, WorkerFinishes, queueVars
<1>2. PendingJobs' = PendingJobs /\ QueueLen' = QueueLen
  BY <1>1 DEF PendingJobs, QueueLen, RingSize
<1>3. RingInv'
  BY <1>1, <1>2 DEF OInv, RingInv
<1>4. FreshInv'
  BY <1>1 DEF OInv, FreshInv, Submits
<1>5. /\ w \in Busy /\ Busy' = Busy \ {w} /\ \A v \in Busy' : job'[v] = job[v]
  BY <1>1, OTypes DEF Busy
<1>6. \A k \in Jobs : WasPopped(k)' <=> WasPopped(k)
  BY <1>1, <1>2 DEF WasPopped
<1>7. RunInv'
  <2>1. RunInv
    BY DEF OInv
  <2>2. ASSUME NEW k \in Jobs
        PROVE  WasPopped(k)' <=> k \in finished' \/ \E v \in Busy' : job'[v] = k
    BY <1>1, <1>5, <1>6, <2>1 DEF RunInv
  <2>3. \A v \in Busy' : job'[v] \notin finished'
    BY <1>1, <1>5, <2>1, SMTT(60) DEF RunInv
  <2>4. \A u, v \in Busy' : job'[u] = job'[v] => u = v
    BY <1>5, <2>1 DEF RunInv
  <2> QED BY <2>2, <2>3, <2>4 DEF RunInv
<1> QED BY <1>2, <1>3, <1>4, <1>7

\* A job is queued: it is the last of the accepted ones.
LEMMA EnqueueJobs ==
    ASSUME OInv, TypeOK', NEW t \in Callers, Submits(t), SubmitEnqueues(arg[t]), Return(t),
           accepted' = Append(accepted, arg[t]), UNCHANGED <<requested, finished>>
    PROVE  RingInv' /\ FreshInv' /\ RunInv'
<1> DEFINE j == arg[t]
           m == Len(accepted)
<1>1. /\ ~isQueueFull /\ queue' = [queue EXCEPT ![queueTail] = j]
      /\ queueTail' = (queueTail + 1) % RingSize /\ queueHead' = queueHead
      /\ UNCHANGED <<pc, job>>
      /\ call' = [call EXCEPT ![t] = "none"] /\ arg' = [arg EXCEPT ![t] = NoJob]
  BY DEF SubmitEnqueues, Return
<1>2. TypeOK /\ j \in Jobs /\ m \in Nat /\ QueueLen \in Nat /\ accepted \in Seq(Jobs)
  BY OTypes
<1>3. PendingJobs' = Append(PendingJobs, j)
  BY <1>1, <1>2, Pushed
<1>4. /\ PendingJobs \in Seq(Jobs \cup {NoJob}) /\ Len(PendingJobs) = QueueLen
      /\ Len(PendingJobs') = QueueLen'
  BY <1>2, PendingIsSeq
<1>5. /\ QueueLen' = QueueLen + 1 /\ PendingJobs'[QueueLen + 1] = j
      /\ \A i \in 1..QueueLen : PendingJobs'[i] = PendingJobs[i]
  BY <1>2, <1>3, <1>4, Appended, SMTT(60)
<1>6. /\ Len(accepted') = m + 1 /\ accepted'[m + 1] = j
      /\ \A i \in 1..m : accepted'[i] = accepted[i]
  BY <1>2, Appended, SMTT(60)
<1>7. \A s \in Callers : Submits(s)' => s # t /\ Submits(s) /\ arg'[s] = arg[s]
  BY <1>1, OTypes DEF Submits
<1> HIDE DEF j, m
<1>8. QueueLen <= m /\ \A i \in 1..QueueLen : PendingJobs[i] = accepted[m - QueueLen + i]
  BY DEF OInv, RingInv, m
<1>9. RingInv'
  <2>1. QueueLen' <= Len(accepted')
    BY <1>2, <1>5, <1>6, <1>8
  <2>2. ASSUME NEW i \in 1..QueueLen'
        PROVE  PendingJobs'[i] = accepted'[Len(accepted') - QueueLen' + i]
    <3>1. Len(accepted') - QueueLen' + i = m - QueueLen + i
      BY <1>2, <1>5, <1>6
    <3>2. CASE i = QueueLen + 1
      BY <1>2, <1>5, <1>6, <3>1, <3>2, SMTT(60)
    <3>3. CASE i \in 1..QueueLen
      <4>1. m - QueueLen + i \in 1..m
        BY <1>2, <1>8, <3>3
      <4> QED BY <1>5, <1>6, <1>8, <3>1, <3>3, <4>1
    <3>4. i \in 1..(QueueLen + 1) /\ QueueLen \in Nat
      BY <1>2, <1>5
    <3>5. i = QueueLen + 1 \/ i \in 1..QueueLen
      BY ONLY <3>4, SMT
    <3> QED BY <3>2, <3>3, <3>5
  <2> QED BY <2>1, <2>2 DEF RingInv
<1>10. FreshInv'
  <2>1. FreshInv /\ Submits(t) /\ j = arg[t] /\ m = Len(accepted)
    BY DEF OInv, j, m
  <2>2. \A i \in 1..m : accepted[i] # j
    BY <2>1 DEF FreshInv
  <2>3. \A i, k \in 1..Len(accepted') : accepted'[i] = accepted'[k] => i = k
    BY <1>2, <1>6, <2>1, <2>2, SMTT(60) DEF FreshInv
  <2>4. \A s \in Callers, i \in 1..Len(accepted') : Submits(s)' => accepted'[i] # arg'[s]
    BY <1>2, <1>6, <1>7, <2>1, SMTT(60) DEF FreshInv
  <2>5. \A s, u \in Callers : Submits(s)' /\ Submits(u)' /\ arg'[s] = arg'[u] => s = u
    BY <1>7, <2>1 DEF FreshInv
  <2> QED BY <2>3, <2>4, <2>5 DEF FreshInv
<1>11. RunInv'
  <2>1. \A k \in Jobs : WasPopped(k)' <=> WasPopped(k)
    <3>1. Len(accepted') - QueueLen' = Len(accepted) - QueueLen
      BY <1>2, <1>5, <1>6 DEF m
    <3>2. \A i \in 1..(Len(accepted) - QueueLen) : i \in 1..m
      BY <1>2, <1>8 DEF m
    <3>3. \A i \in 1..(Len(accepted) - QueueLen) : accepted'[i] = accepted[i]
      BY <1>6, <3>2
    <3> QED BY <3>1, <3>3 DEF WasPopped
  <2>2. Busy' = Busy /\ job' = job
    BY <1>1 DEF Busy
  <2> QED BY <2>1, <2>2 DEF OInv, RunInv
<1> QED BY <1>9, <1>10, <1>11

\* A submission begins, of a job that was not requested before.
LEMMA CallJobs ==
    ASSUME OInv, NEW t \in Callers, NEW j \in Jobs, CallSubmit(t, j)
    PROVE  RingInv' /\ FreshInv' /\ RunInv' /\ QueueLen' = QueueLen
<1>1. /\ j \notin requested /\ call' = [call EXCEPT ![t] = "submit"]
      /\ arg' = [arg EXCEPT ![t] = j] /\ UNCHANGED poolVars /\ UNCHANGED <<accepted, finished>>
  BY DEF CallSubmit
<1>2. PendingJobs' = PendingJobs /\ QueueLen' = QueueLen /\ Busy' = Busy /\ job' = job
  BY <1>1 DEF poolVars, PendingJobs, QueueLen, RingSize, Busy
<1>3. RingInv'
  BY <1>1, <1>2 DEF OInv, RingInv
<1>4. RunInv'
  BY <1>1, <1>2 DEF OInv, RunInv, WasPopped
<1>5. /\ Submits(t)' /\ arg'[t] = j
      /\ \A s \in Callers : s # t => (Submits(s)' <=> Submits(s)) /\ arg'[s] = arg[s]
  BY <1>1, OTypes DEF Submits
<1>6. /\ \A s \in Callers : Submits(s) => arg[s] # j
      /\ \A i \in 1..Len(accepted) : accepted[i] # j
  BY <1>1, OTypes DEF IInv, Requested, Submits
<1>7. FreshInv'
  <2>1. FreshInv /\ accepted' = accepted
    BY <1>1 DEF OInv
  <2>2. \A s \in Callers, i \in 1..Len(accepted) : Submits(s)' => accepted[i] # arg'[s]
    BY <1>5, <1>6, <2>1 DEF FreshInv
  <2>3. \A s, u \in Callers : Submits(s)' /\ Submits(u)' /\ arg'[s] = arg'[u] => s = u
    BY <1>5, <1>6, <2>1 DEF FreshInv
  <2> QED BY <2>1, <2>2, <2>3 DEF FreshInv
<1> QED BY <1>2, <1>3, <1>4, <1>7

-----------------------------------------------------------------------------
(* DrainInv: what is said of the threads                                   *)

\* Steps in which threads only go to sleep, wake up, enter a call or leave it.
LEMMA CallDrain ==
    ASSUME OInv, UNCHANGED <<pc, threadLimit, threadCapacity, shutdown, owner>>,
           ~shutdown \/ QueueLen' = QueueLen,
           \A t \in Callers : call'[t] # "none" =>
               \/ call[t] # "none"
               \/ t \in Clients /\ owner = "ready"
               \/ t \in Workers /\ pc[t] = "run"
    PROVE  DrainInv'
<1>1. DrainInv /\ Clients \subseteq Callers /\ Workers \subseteq Callers /\ Clients \cap Workers = {}
  BY UseAssumption DEF OInv
<1>2. \A w \in Workers : pc'[w] = "exited" => shutdown' /\ QueueLen' = 0
  BY <1>1 DEF DrainInv
<1>3. \A w \in Workers : call'[w] # "none" => pc'[w] = "run"
  BY <1>1 DEF DrainInv
<1>4. owner' # "ready" => \A c \in Clients : call'[c] = "none"
  BY <1>1 DEF DrainInv
<1> QED BY <1>1, <1>2, <1>3, <1>4 DEF DrainInv

\* A worker that is in no call goes on.
LEMMA WorkerDrain ==
    ASSUME OInv, NEW w \in Workers, pc[w] \in {"loop", "run"}, call[w] = "none", call' = call,
           pc'[w] \in {"loop", "run", "exited"}, \A v \in Workers : v # w => pc'[v] = pc[v],
           UNCHANGED <<threadLimit, threadCapacity, shutdown, owner>>,
           \A v \in Workers : pc'[v] = "exited" => shutdown /\ QueueLen' = 0
    PROVE  DrainInv'
<1>1. DrainInv /\ pc \in [Workers -> {"none", "loop", "run", "exited"}]
  BY OTypes DEF OInv
<1>2. \A v \in Workers : pc'[v] = "none" <=> pc[v] = "none"
  BY <1>1
<1>3. {v \in Workers : pc'[v] # "none"} = {v \in Workers : pc[v] # "none"}
  BY <1>2
<1>4. owner # "freed"
  BY <1>1 DEF DrainInv
<1>5. \A v \in Workers : call'[v] # "none" => pc'[v] = "run"
  BY <1>1 DEF DrainInv
<1> QED BY <1>1, <1>2, <1>3, <1>4, <1>5 DEF DrainInv

\* TPool_create starts a thread.
LEMMA CreateThreadDrain ==
    ASSUME OInv, NEW w \in Workers, CreateThread(w), UNCHANGED useVars
    PROVE  DrainInv'
<1>1. /\ owner = "create" /\ pc[w] = "none" /\ pc' = [pc EXCEPT ![w] = "loop"]
      /\ UNCHANGED <<queueHead, queueTail, threadLimit, threadCapacity, shutdown, owner, call>>
  BY DEF CreateThread, useVars, queueVars, limits
<1>2. DrainInv /\ pc \in [Workers -> {"none", "loop", "run", "exited"}]
  BY OTypes DEF OInv
<1>3. QueueLen' = QueueLen
  BY <1>1 DEF QueueLen, RingSize
<1>4. \A v \in Workers : pc'[v] = IF v = w THEN "loop" ELSE pc[v]
  BY <1>1, <1>2
<1>5. \A v \in Workers : pc'[v] = "exited" => shutdown' /\ QueueLen' = 0
  BY <1>1, <1>2, <1>3, <1>4 DEF DrainInv
<1>6. \A v \in Workers : call'[v] # "none" => pc'[v] = "run"
  BY <1>1, <1>2, <1>4 DEF DrainInv
<1> QED BY <1>1, <1>2, <1>4, <1>5, <1>6 DEF DrainInv

\* The owner's steps: the threads that were started are counted when TPool_create ends, and
\* as many have exited when TPool_free returns.
LEMMA OwnerDrain ==
    ASSUME OInv, UNCHANGED useVars,
           CreateReturns \/ CreateFails \/ (FreeCalled /\ \A c \in Clients : call[c] = "none")
             \/ ShutdownSet \/ ShutdownBroadcasts \/ ShutdownJoins
    PROVE  DrainInv'
<1> DEFINE started == {w \in Workers : pc[w] # "none"}
           left == {w \in Workers : pc[w] = "exited"}
<1>1. /\ DrainInv /\ pc' = pc /\ call' = call /\ QueueLen' = QueueLen
      /\ shutdown => shutdown'
  BY DEF OInv, CreateReturns, CreateFails, FreeCalled, ShutdownSet, ShutdownBroadcasts,
         ShutdownJoins, useVars, queueVars, QueueLen, RingSize
<1>2. /\ \A w \in Workers : pc'[w] = "exited" => shutdown' /\ QueueLen' = 0
      /\ \A w \in Workers : call'[w] # "none" => pc'[w] = "run"
  BY <1>1 DEF DrainInv
<1>3. IsFiniteSet(started) /\ left \subseteq started
      /\ Cardinality(started) \in Nat /\ Cardinality(left) \in Nat
  BY WorkerSets
<1>4. threadLimit' = nbThreads => \A w \in Workers : pc'[w] # "none"
  <2>1. CASE CreateReturns
    BY <1>1, <2>1 DEF CreateReturns
  <2>2. CASE threadLimit' = threadLimit
    BY <1>1, <2>2 DEF DrainInv
  <2> QED BY <2>1, <2>2 DEF CreateFails, FreeCalled, ShutdownSet, ShutdownBroadcasts,
                            ShutdownJoins, limits
<1>5. owner' # "create" => threadCapacity' = Cardinality({w \in Workers : pc'[w] # "none"})
  <2>1. CASE CreateReturns
    <3>1. \A w \in Workers : pc[w] # "none"
      BY <2>1 DEF CreateReturns
    <3>2. started = Workers
      BY <3>1
    <3> QED BY <1>1, <2>1, <3>2 DEF CreateReturns, nbThreads
  <2>2. CASE CreateFails
    BY <1>1, <2>2 DEF CreateFails
  <2>3. CASE owner # "create" /\ threadCapacity' = threadCapacity
    BY <1>1, <2>3 DEF DrainInv
  <2> QED BY <2>1, <2>2, <2>3 DEF FreeCalled, ShutdownSet, ShutdownBroadcasts, ShutdownJoins, limits
<1>6. owner' = "freed" => \A w \in Workers : pc'[w] \in {"none", "exited"}
  <2> SUFFICES ASSUME owner' = "freed" PROVE \A w \in Workers : pc[w] \in {"none", "exited"}
    BY <1>1
  <2>1. owner = "join" /\ Cardinality(left) >= threadCapacity
    BY DEF CreateReturns, CreateFails, FreeCalled, ShutdownSet, ShutdownBroadcasts, ShutdownJoins
  <2>2. threadCapacity = Cardinality(started)
    BY <1>1, <2>1 DEF DrainInv
  <2>3. left = started
    BY <1>3, <2>1, <2>2, FS_Subset, SMTT(60)
  <2> QED BY <2>3
<1>7. owner' # "ready" => \A c \in Clients : call'[c] = "none"
  BY <1>1 DEF DrainInv, CreateReturns, CreateFails, FreeCalled, ShutdownSet, ShutdownBroadcasts,
              ShutdownJoins
<1> QED BY <1>2, <1>4, <1>5, <1>6, <1>7 DEF DrainInv

-----------------------------------------------------------------------------
(* The steps                                                               *)

\* A worker's steps.
LEMMA WorkerKeeps ==
    ASSUME OInv, IInv', NEW w \in Workers, Worker(w)
    PROVE  RingInv' /\ FreshInv' /\ RunInv' /\ DrainInv'
<1>1. pc \in [Workers -> {"none", "loop", "run", "exited"}] /\ IInv /\ TypeOK /\ DrainInv
  BY OTypes DEF OInv
<1>2. TypeOK'
  BY DEF IInv, UseTypeOK
<1>3. CASE WorkerWaits(w) /\ UNCHANGED useVars
  <2>1. Elsewhere /\ UNCHANGED useVars /\ UNCHANGED <<pc, threadLimit, threadCapacity, shutdown, owner>>
    BY <1>3 DEF WorkerWaits, Elsewhere, queueVars, limits
  <2>2. RingInv' /\ FreshInv' /\ RunInv' /\ QueueLen' = QueueLen
    BY <2>1, JobsFrame DEF useVars, Submits
  <2> QED BY <2>1, <2>2, CallDrain DEF useVars
<1>4. CASE WorkerExits(w) /\ UNCHANGED useVars
  <2>1. /\ pc[w] = "loop" /\ shutdown /\ pc' = [pc EXCEPT ![w] = "exited"] /\ UNCHANGED useVars
        /\ UNCHANGED <<queue, queueHead, queueTail, job, threadLimit, threadCapacity, shutdown, owner>>
    BY <1>4 DEF WorkerExits, Awake, queueVars, limits
  <2>2. Elsewhere
    BY <1>1, <2>1 DEF Elsewhere
  <2>3. RingInv' /\ FreshInv' /\ RunInv' /\ QueueLen' = QueueLen
    BY <2>1, <2>2, JobsFrame DEF useVars, Submits
  <2>4. QueueLen = 0
    BY <1>1, <1>4, NothingToRun DEF WorkerExits
  <2>5. call[w] = "none" /\ pc'[w] = "exited" /\ \A v \in Workers : v # w => pc'[v] = pc[v]
    BY <1>1, <2>1 DEF DrainInv
  <2>6. call' = call /\ \A v \in Workers : pc'[v] = "exited" => shutdown /\ QueueLen' = 0
    BY <2>1, <2>3, <2>4 DEF useVars
  <2> QED BY <2>1, <2>3, <2>5, <2>6, WorkerDrain
<1>5. CASE WorkerPops(w) /\ UNCHANGED useVars
  <2>1. /\ pc[w] = "loop" /\ pc' = [pc EXCEPT ![w] = "run"] /\ call' = call /\ ~queueEmpty
        /\ UNCHANGED <<threadLimit, threadCapacity, shutdown, owner>>
    BY <1>1, <1>5 DEF WorkerPops, Awake, MustWait, limits, useVars
  <2>2. QueueLen # 0
    BY <1>1, <2>1, Types DEF IInv, FlagAgrees
  <2>3. \A v \in Workers : pc'[v] # "exited"
    BY <1>1, <2>1, <2>2 DEF DrainInv
  <2>4. call[w] = "none" /\ pc'[w] = "run" /\ \A v \in Workers : v # w => pc'[v] = pc[v]
    BY <1>1, <2>1 DEF DrainInv
  <2>5. DrainInv'
    BY <2>1, <2>3, <2>4, WorkerDrain
  <2> QED BY <1>2, <1>5, <2>5, PopJobs
<1>6. CASE Finish(w)
  <2>1. /\ pc[w] = "run" /\ pc' = [pc EXCEPT ![w] = "loop"] /\ call' = call /\ call[w] = "none"
        /\ UNCHANGED <<threadLimit, threadCapacity, shutdown, owner>>
    BY <1>6 DEF Finish, WorkerFinishes, limits
  <2>2. RingInv' /\ FreshInv' /\ RunInv' /\ QueueLen' = QueueLen
    BY <1>6, FinishJobs
  <2>3. \A v \in Workers : pc'[v] = "exited" => shutdown /\ QueueLen' = 0
    BY <1>1, <2>1, <2>2 DEF DrainInv
  <2>4. pc'[w] = "loop" /\ \A v \in Workers : v # w => pc'[v] = pc[v]
    BY <1>1, <2>1
  <2> QED BY <2>1, <2>2, <2>3, <2>4, WorkerDrain
<1> QED BY <1>3, <1>4, <1>5, <1>6 DEF Worker

\* A caller's steps.
LEMMA CallerKeeps ==
    ASSUME OInv, IInv', NEW t \in Callers,
           Submit(t) \/ Completed(t) \/ CallCompleted(t) \/ \E j \in Jobs : CallSubmit(t, j)
    PROVE  RingInv' /\ FreshInv' /\ RunInv' /\ DrainInv'
<1>1. /\ call \in [Callers -> {"none", "submit", "completed"}]
      /\ arg \in [Callers -> Jobs \cup {NoJob}]
  BY OTypes
<1>2. TypeOK'
  BY DEF IInv, UseTypeOK
<1>3. CASE (SubmitBlocks(t) \/ CompletedBlocks(t)) /\ UNCHANGED useVars
  <2>1. Elsewhere /\ UNCHANGED useVars /\ UNCHANGED <<pc, threadLimit, threadCapacity, shutdown, owner>>
    BY <1>3 DEF SubmitBlocks, CompletedBlocks, Elsewhere, queueVars, limits
  <2>2. RingInv' /\ FreshInv' /\ RunInv' /\ QueueLen' = QueueLen
    BY <2>1, JobsFrame DEF useVars, Submits
  <2> QED BY <2>1, <2>2, CallDrain DEF useVars
<1>4. CASE Submits(t) /\ SubmitEnqueues(arg[t]) /\ Return(t) /\ accepted' = Append(accepted, arg[t])
           /\ UNCHANGED <<requested, finished>>
  <2>1. RingInv' /\ FreshInv' /\ RunInv'
    BY <1>2, <1>4, EnqueueJobs
  <2>2. ~shutdown /\ UNCHANGED <<pc, threadLimit, threadCapacity, shutdown, owner>>
    BY <1>4 DEF SubmitEnqueues, limits
  <2>3. \A s \in Callers : call'[s] # "none" => call[s] # "none"
    BY <1>1, <1>4 DEF Return
  <2> QED BY <2>1, <2>2, <2>3, CallDrain
<1>5. CASE UNCHANGED poolVars /\ Return(t) /\ UNCHANGED <<requested, accepted, finished>>
  <2>1. Elsewhere /\ UNCHANGED <<pc, threadLimit, threadCapacity, shutdown, owner>>
    BY <1>5 DEF poolVars, Elsewhere
  <2>2. \A s \in Callers : call'[s] # "none" => call'[s] = call[s] /\ arg'[s] = arg[s]
    BY <1>1, <1>5 DEF Return
  <2>3. RingInv' /\ FreshInv' /\ RunInv' /\ QueueLen' = QueueLen
    BY <1>5, <2>1, <2>2, JobsFrame DEF Submits
  <2> QED BY <2>1, <2>2, <2>3, CallDrain
<1>6. CASE CallCompleted(t)
  <2>1. Elsewhere /\ UNCHANGED <<pc, threadLimit, threadCapacity, shutdown, owner>>
    BY <1>6 DEF CallCompleted, poolVars, Elsewhere
  <2>2. /\ t \in Clients /\ owner = "ready" /\ arg' = arg
        /\ \A s \in Callers : s # t => call'[s] = call[s]
        /\ call'[t] = "completed"
    BY <1>1, <1>6 DEF CallCompleted
  <2>3. RingInv' /\ FreshInv' /\ RunInv' /\ QueueLen' = QueueLen
    <3>1. \A s \in Callers : Submits(s)' => Submits(s) /\ arg'[s] = arg[s]
      BY <2>2 DEF Submits
    <3> QED BY <1>6, <2>1, <3>1, JobsFrame DEF CallCompleted
  <2> QED BY <2>1, <2>2, <2>3, CallDrain
<1>7. ASSUME NEW j \in Jobs, CallSubmit(t, j)
      PROVE  RingInv' /\ FreshInv' /\ RunInv' /\ DrainInv'
  <2>1. RingInv' /\ FreshInv' /\ RunInv' /\ QueueLen' = QueueLen
    BY <1>7, CallJobs
  <2>2. UNCHANGED <<pc, threadLimit, threadCapacity, shutdown, owner>>
    BY <1>7 DEF CallSubmit, poolVars
  <2>3. /\ \A s \in Callers : s # t => call'[s] = call[s]
        /\ (t \in Clients /\ owner = "ready") \/ (t \in Workers /\ pc[t] = "run")
    BY <1>1, <1>7 DEF CallSubmit, MaySubmit
  <2> QED BY <2>1, <2>2, <2>3, CallDrain
<1> QED BY <1>3, <1>4, <1>5, <1>6, <1>7
        DEF Submit, Completed, Inside, Submits, SubmitDrops, CompletedReturns

\* The owner's steps, and threads that wake up by themselves.
LEMMA OwnerKeeps ==
    ASSUME OInv,
           ((Create \/ Shutdown \/ SpuriousWakeup) /\ UNCHANGED useVars) \/ Free \/ UNCHANGED vars
    PROVE  RingInv' /\ FreshInv' /\ RunInv' /\ DrainInv'
<1>1. pc \in [Workers -> {"none", "loop", "run", "exited"}]
  BY OTypes
<1>2. Elsewhere /\ UNCHANGED useVars
  BY <1>1 DEF Create, CreateThread, CreateReturns, CreateFails, Free, FreeCalled, Shutdown,
              ShutdownSet, ShutdownBroadcasts, ShutdownJoins, SpuriousWakeup, vars, poolVars,
              Elsewhere, queueVars
<1>3. RingInv' /\ FreshInv' /\ RunInv' /\ QueueLen' = QueueLen
  BY <1>2, JobsFrame DEF useVars, Submits
<1>4. CASE SpuriousWakeup \/ UNCHANGED vars
  <2>1. UNCHANGED <<pc, threadLimit, threadCapacity, shutdown, owner>>
    BY <1>4 DEF SpuriousWakeup, limits, vars, poolVars
  <2> QED BY <1>2, <1>3, <2>1, CallDrain DEF useVars
<1>5. CASE Create \/ Shutdown \/ Free
  BY <1>2, <1>3, <1>5, CreateThreadDrain, OwnerDrain DEF Create, Shutdown, Free
<1> QED BY <1>4, <1>5

\* The invariant is inductive.
LEMMA NextOInv == OInv /\ [Next]_vars => OInv'
<1> SUFFICES ASSUME OInv, [Next]_vars PROVE OInv'
  OBVIOUS
<1>1. RInv' /\ IInv'
  BY NextRefines DEF OInv, RInv
<1>2. RingInv' /\ FreshInv' /\ RunInv' /\ DrainInv'
  BY <1>1, WorkerKeeps, CallerKeeps, OwnerKeeps DEF Next
<1> QED BY <1>1, <1>2 DEF OInv

\* And holds of the context TPool_create allocates.
LEMMA InitOInv == Init => OInv
<1> SUFFICES ASSUME Init PROVE OInv
  OBVIOUS
<1> USE DEF Init, PoolInit, Fresh
<1>1. RInv /\ TypeOK
  BY InitIInv DEF RInv, IdleHasNoJob, IInv, UseTypeOK
<1>2. QueueLen = 0 /\ nbThreads # 0
  BY <1>1, Types
<1>3. RingInv /\ FreshInv
  BY <1>2 DEF RingInv, FreshInv, Submits
<1>4. RunInv
  BY <1>2 DEF RunInv, WasPopped, Busy
<1>5. DrainInv
  BY <1>2, UseAssumption DEF DrainInv
<1> QED BY <1>1, <1>3, <1>4, <1>5 DEF OInv

-----------------------------------------------------------------------------
(* What the invariant says                                                 *)

\* A part of a sequence of jobs.
LEMMA Part ==
    ASSUME NEW s \in Seq(Jobs), NEW m \in Nat, NEW n \in Nat, 1 <= m, m <= n + 1, n <= Len(s)
    PROVE  /\ SubSeq(s, m, n) \in Seq(Jobs) /\ Len(SubSeq(s, m, n)) = n - m + 1
           /\ \A i \in 1..(n - m + 1) : SubSeq(s, m, n)[i] = s[m + i - 1]
OBVIOUS

\* The ring is the rest of the accepted jobs.
LEMMA RingIsFifo ==
    ASSUME OInv
    PROVE  QueueIsFifo
<1> DEFINE m == Len(accepted) - QueueLen + 1
           n == Len(accepted)
           s == SubSeq(accepted, m, n)
<1>1. /\ TypeOK /\ accepted \in Seq(Jobs) /\ Len(accepted) \in Nat /\ QueueLen \in Nat
      /\ QueueLen <= Len(accepted)
  BY OTypes DEF OInv, RingInv
<1>2. queueEmpty <=> QueueLen = 0
  BY <1>1, OTypes, Types DEF IInv, FlagAgrees
<1>3. PendingJobs \in Seq(Jobs \cup {NoJob}) /\ Len(PendingJobs) = QueueLen
  <2>1. /\ QueueLen = Distance(queueHead, queueTail)
        /\ PendingJobs = Contents(queue, queueHead, queueTail)
    BY DEF QueueLen, PendingJobs, Distance, Contents
  <2>2. /\ queue \in [0..QueueSize -> Jobs \cup {NoJob}]
        /\ queueHead \in 0..QueueSize /\ queueTail \in 0..QueueSize
    BY <1>1 DEF TypeOK
  <2>3. /\ Contents(queue, queueHead, queueTail) \in Seq(Jobs \cup {NoJob})
        /\ Len(Contents(queue, queueHead, queueTail)) = Distance(queueHead, queueTail)
    BY <2>2, RingIsSeq
  <2> QED BY <2>1, <2>3
<1>4. /\ m \in Nat /\ n \in Nat /\ 1 <= m /\ m <= n + 1 /\ n - m + 1 = QueueLen
      /\ \A i \in 1..QueueLen : m + i - 1 = Len(accepted) - QueueLen + i
  BY <1>1
<1>5. /\ s \in Seq(Jobs) /\ Len(s) = QueueLen
      /\ \A i \in 1..QueueLen : s[i] = accepted[m + i - 1]
  <2> HIDE DEF m, n
  <2> QED BY <1>1, <1>4, Part, SMTT(60) DEF n
<1> HIDE DEF s, m, n
<1>6. \A i \in 1..QueueLen : s[i] = PendingJobs[i]
  BY <1>4, <1>5 DEF OInv, RingInv
<1>7. s \in Seq(Jobs \cup {NoJob})
  BY <1>5
<1>8. PendingJobs = s
  BY <1>3, <1>5, <1>6, <1>7, SameSeq
<1> QED BY <1>1, <1>2, <1>8 DEF QueueIsFifo, s, m, n

\* A popped job has been run, or is run by one worker.
LEMMA RunsOnce ==
    ASSUME OInv
    PROVE  ExactlyOnce
<1> DEFINE n == Len(accepted) - QueueLen
<1>1. /\ accepted \in Seq(Jobs) /\ n \in Nat /\ n <= Len(accepted) /\ finished \subseteq Jobs
      /\ \A w \in Busy : job[w] \in Jobs
  BY OTypes, SMTT(60) DEF OInv, RingInv, IInv, UseTypeOK
<1>2. /\ Started \in Seq(Jobs) /\ Len(Started) = n
      /\ \A i \in 1..n : Started[i] = accepted[i]
  <2>1. Started = SubSeq(accepted, 1, n)
    BY DEF Started
  <2> HIDE DEF n
  <2>2. /\ SubSeq(accepted, 1, n) \in Seq(Jobs) /\ Len(SubSeq(accepted, 1, n)) = n - 1 + 1
        /\ \A i \in 1..(n - 1 + 1) : SubSeq(accepted, 1, n)[i] = accepted[1 + i - 1]
    BY <1>1, Part, SMTT(60)
  <2> QED BY <1>1, <2>1, <2>2
<1>3. \A j : j \in Range(Started) <=> j \in Jobs /\ WasPopped(j)
  <2>1. DOMAIN Started = 1..n /\ \A i \in 1..n : Started[i] = accepted[i] /\ accepted[i] \in Jobs
    BY <1>1, <1>2
  <2> QED BY <2>1 DEF Range, WasPopped
<1>4. Range(Started) = {job[w] : w \in Busy} \cup finished
  BY <1>1, <1>3, SMTT(60) DEF OInv, RunInv
<1> QED BY <1>4, OTypes DEF OInv, RunInv, ExactlyOnce, IInv, BusyCounted

\* With an empty queue and nobody at work, everything that was accepted has been run.
LEMMA QuietMeansDone ==
    ASSUME OInv, QueueLen = 0, Busy = {}
    PROVE  Range(accepted) = finished
<1>1. /\ accepted \in Seq(Jobs) /\ Len(accepted) \in Nat /\ finished \subseteq Jobs
  BY OTypes DEF IInv, UseTypeOK
<1>2. \A j : j \in Range(accepted) <=> j \in Jobs /\ WasPopped(j)
  <2>1. DOMAIN accepted = 1..Len(accepted) /\ \A i \in 1..Len(accepted) : accepted[i] \in Jobs
    BY <1>1
  <2>2. Len(accepted) - QueueLen = Len(accepted)
    BY <1>1
  <2> QED BY <2>1, <2>2 DEF Range, WasPopped
<1>3. \A j : j \in Range(accepted) <=> j \in finished
  BY <1>1, <1>2 DEF OInv, RunInv
<1> QED BY <1>3

\* A pool that was freed is quiet.
LEMMA FreedIsDrained ==
    ASSUME OInv
    PROVE  FreedMeansDrained
<1> SUFFICES ASSUME owner = "freed"
             PROVE  /\ \A w \in Workers : pc[w] \in {"none", "exited"}
                    /\ \A t \in Callers : call[t] = "none"
                    /\ Range(accepted) = finished
  BY DEF FreedMeansDrained
<1>1. DrainInv /\ TypeOK /\ IInv
  BY OTypes DEF OInv
<1>2. \A w \in Workers : pc[w] \in {"none", "exited"}
  BY <1>1 DEF DrainInv
<1>3. \A t \in Callers : call[t] = "none"
  BY <1>1, <1>2, UseAssumption DEF DrainInv
<1>4. Busy = {}
  BY <1>2 DEF Busy
<1>5. QueueLen = 0
  <2>1. CASE \E w \in Workers : pc[w] = "exited"
    BY <1>1, <2>1 DEF DrainInv
  <2>2. CASE \A w \in Workers : pc[w] = "none"
    <3>1. threadLimit # nbThreads
      BY <1>1, <2>2, PoolAssumption DEF DrainInv
    <3> QED BY <1>1, <3>1, Types DEF IInv, ClosedIsEmpty
  <2> QED BY <1>2, <2>1, <2>2
<1> QED BY <1>2, <1>3, <1>4, <1>5, QuietMeansDone

\* TPool_jobsCompleted returns from a quiet pool.
LEMMA CompletionStep ==
    ASSUME OInv, [Next]_vars
    PROVE  CompletionIsQuiescent
<1> SUFFICES ASSUME NEW c \in Clients, call[c] = "completed", call'[c] = "none"
             PROVE  Range(accepted) = finished
  BY DEF CompletionIsQuiescent
<1>1. /\ call \in [Callers -> {"none", "submit", "completed"}] /\ c \in Callers
      /\ TypeOK /\ IInv
  BY OTypes, UseAssumption
<1>2. CompletedReturns
  <2>1. call' # call
    OBVIOUS
  <2>2. ASSUME NEW t \in Callers, Submit(t), ~UNCHANGED useVars PROVE FALSE
    <3>1. call[t] = "submit" /\ call' = [call EXCEPT ![t] = "none"]
      BY <2>2 DEF Submit, Inside, Return
    <3> QED BY <1>1, <3>1
  <2>3. ASSUME NEW t \in Callers, CallCompleted(t) \/ \E j \in Jobs : CallSubmit(t, j) PROVE FALSE
    BY <1>1, <2>3 DEF CallCompleted, CallSubmit
  <2> QED BY <2>1, <2>2, <2>3 DEF Next, Worker, Finish, Free, Completed, useVars, vars
<1>3. queueEmpty /\ ~(numThreadsBusy > 0)
  BY <1>1, <1>2 DEF CompletedReturns, JobsRemain, TypeOK
<1>4. QueueLen = 0
  BY <1>1, <1>3, Types DEF IInv, FlagAgrees
<1>5. Busy = {}
  <2>1. Cardinality(Busy) = 0 /\ IsFiniteSet(Busy)
    BY <1>1, <1>3, Types DEF IInv, BusyCounted
  <2> QED BY <2>1, FS_EmptySet
<1> QED BY <1>4, <1>5, QuietMeansDone

\* Whatever the pool's size and use, each accepted job waits its turn in the ring and is run by
\* one worker, once; none is left when TPool_free returns, or when TPool_jobsCompleted does.
THEOREM JobsRunExactlyOnce == Spec => []JobsRunOnce /\ JobsComplete
<1>1. OInv => JobsRunOnce
  BY RingIsFifo, RunsOnce, FreedIsDrained DEF JobsRunOnce
<1>2. OInv /\ [Next]_vars => CompletionIsQuiescent
  BY CompletionStep
<1>3. OInv' => JobsRunOnce'
  BY <1>1, PTL
<1>4. OInv /\ [Next]_vars => [JobsRunOnce' /\ CompletionIsQuiescent]_vars
  BY <1>2, <1>3, NextOInv
<1> QED BY InitOInv, NextOInv, <1>1, <1>4, PTL DEF Spec, JobsComplete
=============================================================================
