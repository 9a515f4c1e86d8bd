-------------------------- MODULE WinThreadPoolProofs --------------------------
(***************************************************************************)
(* What the Windows pool keeps straight without a lock, proved for any     *)
(* number of workers, clients and jobs: JobsAndSlots, and, as long as      *)
(* WaitForMultipleObjects accepts the workers, FreedMeansStopped.          *)
(***************************************************************************)
EXTENDS WinThreadPool, FiniteSetTheorems, TLAPS

\* The provers of a leaf that names none.
USE ZenonT(60), SMTT(60)

-----------------------------------------------------------------------------
(* The inductive invariant                                                 *)

\* No job is in the port twice (NULL packets are).
PortInv == \A i, k \in 1..Len(port) : port[i] = port[k] /\ port[i] # NoJob => i = k

\* A job being submitted is not in the port yet, and nobody else submits it.
InSubmit(t) == call[t] \in {"slot", "reset", "increment", "post"}
ArgInv == \A t \in Threads : InSubmit(t) =>
    /\ arg[t] \in requested \ posted
    /\ \A u \in Threads : InSubmit(u) /\ arg[u] = arg[t] => u = t

IInv == /\ TypeOK /\ PortInv /\ ArgInv /\ IsFiniteSet(posted)
        /\ OneCopy /\ PendingCounted /\ SlotsConserved

-----------------------------------------------------------------------------
(* Finite sets and sequences                                               *)

LEMMA Added ==
    ASSUME NEW S, IsFiniteSet(S), NEW x, x \notin S, NEW T, T = S \cup {x}
    PROVE  IsFiniteSet(T) /\ Cardinality(S) \in Nat /\ Cardinality(T) = Cardinality(S) + 1
  BY FS_AddElement, FS_CardinalityType

LEMMA Removed ==
    ASSUME NEW S, IsFiniteSet(S), NEW x \in S, NEW T, T = S \ {x}
    PROVE  /\ IsFiniteSet(T) /\ Cardinality(T) = Cardinality(S) - 1
           /\ Cardinality(S) \in Nat \ {0}
<1>1. IsFiniteSet(T) /\ Cardinality(T) = Cardinality(S) - 1
  BY FS_RemoveElement
<1>2. Cardinality(S) \in Nat /\ Cardinality(S) # 0
  BY FS_CardinalityType, FS_EmptySet
<1> QED BY <1>1, <1>2

\* The sets that are counted are finite.
LEMMA Counts ==
    ASSUME WinAssumption, TypeOK, IsFiniteSet(posted), OneCopy
    PROVE  /\ IsFiniteSet(InPort) /\ IsFiniteSet(Holders) /\ IsFiniteSet(Submitting)
           /\ IsFiniteSet(Posting) /\ IsFiniteSet(posted \ finished)
           /\ Cardinality(InPort) \in Nat /\ Cardinality(Holders) \in Nat
           /\ Cardinality(Submitting) \in Nat /\ Cardinality(Posting) \in Nat
           /\ Cardinality(posted \ finished) \in Nat
           /\ nbWorkers \in Nat /\ QueueSize \in Nat \ {0}
           /\ InPort \subseteq posted /\ NoJob \notin posted
<1>1. IsFiniteSet(Threads) /\ IsFiniteSet(Workers)
  BY FS_Union DEF WinAssumption, Threads
<1>2. InPort \subseteq posted /\ NoJob \notin posted
  BY DEF OneCopy, TypeOK, WinAssumption
<1>3. IsFiniteSet(Holders) /\ IsFiniteSet(Submitting) /\ IsFiniteSet(Posting)
  BY <1>1, FS_Subset DEF Holders, Submitting, Posting
<1>4. IsFiniteSet(InPort) /\ IsFiniteSet(posted \ finished)
  BY <1>2, FS_Subset
<1>5. nbWorkers \in Nat
  BY <1>1, FS_CardinalityType DEF nbWorkers
<1>6. QueueSize \in Nat \ {0}
  BY DEF WinAssumption
<1> QED BY <1>2, <1>3, <1>4, <1>5, <1>6, FS_CardinalityType

\* A packet behind the others.
LEMMA PortAppended ==
    ASSUME NEW S, port \in Seq(S), NEW x \in S, port' = Append(port, x)
    PROVE  /\ port' \in Seq(S) /\ Len(port') = Len(port) + 1 /\ Len(port) \in Nat
           /\ \A i \in 1..Len(port) : port'[i] = port[i]
           /\ port'[Len(port) + 1] = x
  BY SMTT(60)

\* A packet from the front.
LEMMA PortTaken ==
    ASSUME NEW S, port \in Seq(S), port # <<>>, port' = Tail(port)
    PROVE  /\ port' \in Seq(S) /\ Len(port') = Len(port) - 1 /\ Len(port) \in Nat \ {0}
           /\ Head(port) \in S /\ Head(port) = port[1]
           /\ \A i \in 1..Len(port') : port'[i] = port[i + 1]
  BY SMTT(60)

\* The semaphore's count stays within its maximum.
LEMMA SlotRange ==
    ASSUME NEW a \in Nat, NEW b \in Nat, NEW c \in Nat, NEW s \in Int, NEW n \in Nat,
           s + a + b + c = n, s >= 0
    PROVE  s \in 0..n
  BY SMTT(60)
\* One thread goes on in its call, the others stay where they are.
LEMMA CallMoved ==
    ASSUME TypeOK, NEW t \in Threads, NEW to, call' = [call EXCEPT ![t] = to],
           to \in {"none", "slot", "reset", "increment", "post", "completed"}
    PROVE  /\ call' \in [Threads -> {"none", "slot", "reset", "increment", "post", "completed"}]
           /\ call'[t] = to /\ \A u \in Threads : u # t => call'[u] = call[u]
  BY DEF TypeOK

-----------------------------------------------------------------------------
(* The invariant holds initially and is kept by every action               *)

LEMMA InitIInv == ASSUME WinAssumption, Init PROVE IInv
<1>1. /\ InPort = {} /\ Running = {} /\ Holders = {} /\ Submitting = {} /\ Posting = {}
      /\ posted = {} /\ finished = {} /\ port = <<>>
  <2>1. port = <<>> /\ Len(port) = 0 /\ posted = {} /\ finished = {}
    BY DEF Init
  <2>2. 1..Len(port) = {}
    BY <2>1, SMTT(60)
  <2>3. InPort = {}
    BY <2>2 DEF InPort
  <2>4. Running = {} /\ Holders = {} /\ Submitting = {} /\ Posting = {}
    BY DEF Init, Running, Holders, Submitting, Posting
  <2> QED BY <2>1, <2>3, <2>4
<1>2. IsFiniteSet({}) /\ Cardinality({}) = 0
  BY FS_EmptySet
<1>3. nbWorkers \in Nat /\ QueueSize \in Nat \ {0}
  BY FS_CardinalityType DEF WinAssumption, nbWorkers
<1>4. TypeOK
  <2>1. port \in Seq(Jobs \cup {NoJob}) /\ nbPendingJobs \in Nat
    BY DEF Init
  <2>2. jobSlotAvail \in 0..(QueueSize + nbWorkers) /\ nulls \in 0..nbWorkers
    BY <1>3, SMTT(60) DEF Init
  <2> QED BY <2>1, <2>2 DEF Init, TypeOK
<1>5. PortInv
  BY <1>1, SMTT(60) DEF PortInv
<1>6. ArgInv
  BY DEF Init, ArgInv, InSubmit
<1>7. OneCopy
  BY <1>1 DEF OneCopy
<1>8. posted \ finished = {}
  BY <1>1
<1>9. PendingCounted
  BY <1>1, <1>2, <1>8, SMTT(60) DEF PendingCounted, Init
<1>10. SlotsConserved
  BY <1>1, <1>2, <1>3, SMTT(60) DEF SlotsConserved, Init
<1> QED BY <1>1, <1>2, <1>4, <1>5, <1>6, <1>7, <1>9, <1>10 DEF IInv

\* A worker takes the packet at the front; a job goes from the port to the worker, and
\* the slot with it.
LEMMA GetPacketStep ==
    ASSUME WinAssumption, IInv, NEW w \in Workers, GetPacket(w)
    PROVE  IInv'
<1> DEFINE j == Head(port)
<1>1. /\ TypeOK /\ PortInv /\ ArgInv /\ IsFiniteSet(posted) /\ OneCopy /\ PendingCounted /\ SlotsConserved
  BY DEF IInv
<1>2. /\ pc[w] = "get" /\ port # <<>> /\ port' = Tail(port) /\ job' = [job EXCEPT ![w] = j]
      /\ pc' = [pc EXCEPT ![w] = IF j = NoJob THEN "exited" ELSE "run"]
      /\ UNCHANGED <<nbPendingJobs, jobSlotAvail, allJobsCompleted, call, arg, owner, nulls,
                     requested, posted, finished, fresh>>
  BY DEF GetPacket, history
<1>3. /\ port' \in Seq(Jobs \cup {NoJob}) /\ Len(port') = Len(port) - 1 /\ Len(port) \in Nat \ {0}
      /\ j \in Jobs \cup {NoJob} /\ j = port[1]
      /\ \A i \in 1..Len(port') : port'[i] = port[i + 1]
  BY <1>1, <1>2, PortTaken DEF TypeOK
<1> HIDE DEF j
<1>4. \A i \in 1..Len(port') : i + 1 \in 1..Len(port) /\ i + 1 # 1 /\ port'[i] = port[i + 1]
  BY <1>3, SMTT(60)
<1>5. \A k \in 1..Len(port) : k # 1 => k - 1 \in 1..Len(port') /\ port'[k - 1] = port[k]
  BY <1>3, SMTT(60)
<1>6. 1 \in 1..Len(port) /\ \A i, k \in 1..Len(port') : i + 1 = k + 1 => i = k
  BY <1>3, SMTT(60)
<1>7. PortInv'
  BY <1>1, <1>4, <1>6 DEF PortInv
<1>8. InPort' = InPort \ {j} /\ (j # NoJob => j \in InPort)
  <2>1. ASSUME NEW x \in InPort' PROVE x \in InPort \ {j}
    <3>1. PICK i \in 1..Len(port') : x = port'[i]
      BY DEF InPort
    <3>2. x # NoJob
      BY DEF InPort
    <3>3. x = port[i + 1] /\ i + 1 \in 1..Len(port) /\ i + 1 # 1
      BY <3>1, <1>4
    <3>4. x # j
      BY <3>2, <3>3, <1>1, <1>3, <1>6 DEF PortInv
    <3> QED BY <3>2, <3>3, <3>4 DEF InPort
  <2>2. ASSUME NEW x \in InPort \ {j} PROVE x \in InPort'
    <3>1. PICK k \in 1..Len(port) : x = port[k]
      BY DEF InPort
    <3>2. k # 1 /\ x # NoJob
      BY <3>1, <1>3 DEF InPort
    <3> QED BY <3>1, <3>2, <1>5 DEF InPort
  <2>3. j # NoJob => j \in InPort
    BY <1>3, <1>6 DEF InPort
  <2> QED BY <2>1, <2>2, <2>3
<1>9. /\ pc' \in [Workers -> {"get", "run", "set", "release", "exited"}]
      /\ pc'[w] = (IF j = NoJob THEN "exited" ELSE "run") /\ \A v \in Workers : v # w => pc'[v] = pc[v]
      /\ job' \in [Workers -> Jobs \cup {NoJob}]
      /\ job'[w] = j /\ \A v \in Workers : v # w => job'[v] = job[v]
  BY <1>1, <1>2, <1>3 DEF TypeOK
<1>10. TypeOK'
  BY <1>1, <1>2, <1>3, <1>9 DEF TypeOK
<1>11. ArgInv' /\ IsFiniteSet(posted') /\ Submitting' = Submitting /\ Posting' = Posting
  BY <1>1, <1>2 DEF ArgInv, InSubmit, Submitting, Posting
<1>12. PendingCounted'
  BY <1>1, <1>2, <1>11 DEF PendingCounted
<1>13. w \notin Running /\ w \notin Holders
  BY <1>2 DEF Running, Holders
<1>14. CASE j = NoJob
  <2>1. InPort' = InPort
    BY <1>8, <1>14 DEF InPort
  <2>2. Running' = Running /\ Holders' = Holders
    BY <1>9, <1>13, <1>14 DEF Running, Holders
  <2>3. \A v \in Running : job'[v] = job[v]
    BY <1>9, <1>13 DEF Running
  <2>4. OneCopy'
    BY <1>1, <1>2, <2>1, <2>2, <2>3, SMTT(60) DEF OneCopy
  <2>5. SlotsConserved'
    BY <1>1, <1>2, <1>11, <2>1, <2>2 DEF SlotsConserved
  <2> QED BY <1>7, <1>10, <1>11, <1>12, <2>4, <2>5 DEF IInv
<1>15. CASE j # NoJob
  <2>1. Running' = Running \cup {w} /\ Holders' = Holders \cup {w}
    BY <1>9, <1>15 DEF Running, Holders
  <2>2. \A v \in Running : job'[v] = job[v]
    BY <1>9, <1>13 DEF Running
  <2>3. OneCopy'
    <3>1. posted' = InPort' \cup {job'[v] : v \in Running'} \cup finished'
      BY <1>1, <1>2, <1>8, <1>9, <1>15, <2>1, <2>2, SMTT(60) DEF OneCopy
    <3>2. InPort' \cap finished' = {}
      BY <1>1, <1>2, <1>8 DEF OneCopy
    <3>3. \A v \in Running' : job'[v] \notin InPort' \cup finished'
      BY <1>1, <1>2, <1>8, <1>9, <1>15, <2>1, <2>2, SMTT(60) DEF OneCopy
    <3>4. \A u, v \in Running' : job'[u] = job'[v] => u = v
      BY <1>1, <1>8, <1>9, <1>15, <2>1, <2>2, SMTT(60) DEF OneCopy
    <3> QED BY <3>1, <3>2, <3>3, <3>4 DEF OneCopy
  <2>4. /\ Cardinality(InPort') = Cardinality(InPort) - 1 /\ Cardinality(InPort) \in Nat
        /\ Cardinality(Holders') = Cardinality(Holders) + 1 /\ Cardinality(Holders) \in Nat
        /\ Cardinality(Submitting) \in Nat
    BY <1>1, <1>8, <1>13, <1>15, <2>1, Counts, Added, Removed
  <2>5. SlotsConserved'
    BY <1>1, <1>2, <1>11, <2>4, SMTT(60) DEF SlotsConserved, TypeOK
  <2> QED BY <1>7, <1>10, <1>11, <1>12, <2>3, <2>5 DEF IInv
<1> QED BY <1>14, <1>15
\* The job has returned: it is counted no more, and its worker keeps the slot.
LEMMA DecrementStep ==
    ASSUME WinAssumption, IInv, NEW w \in Workers, Decrement(w)
    PROVE  IInv'
<1>1. /\ TypeOK /\ PortInv /\ ArgInv /\ IsFiniteSet(posted) /\ OneCopy /\ PendingCounted /\ SlotsConserved
  BY DEF IInv
<1>2. /\ pc[w] = "run" /\ nbPendingJobs' = nbPendingJobs - 1
      /\ pc' = [pc EXCEPT ![w] = IF nbPendingJobs = 1 THEN "set" ELSE "release"]
      /\ finished' = finished \cup {job[w]}
      /\ UNCHANGED <<port, jobSlotAvail, allJobsCompleted, job, call, arg, owner, nulls,
                     requested, posted, fresh>>
  BY DEF Decrement
<1>3. w \in Running /\ job[w] \in posted \ finished
  BY <1>1, <1>2 DEF Running, OneCopy
<1>4. /\ pc' \in [Workers -> {"get", "run", "set", "release", "exited"}]
      /\ pc'[w] \in {"set", "release"} /\ \A v \in Workers : v # w => pc'[v] = pc[v]
  BY <1>1, <1>2 DEF TypeOK
<1>5. Running' = Running \ {w} /\ Holders' = Holders /\ InPort' = InPort
  BY <1>2, <1>4, SMTT(60) DEF Running, Holders, InPort
<1>6. PortInv' /\ ArgInv' /\ IsFiniteSet(posted') /\ Submitting' = Submitting /\ Posting' = Posting
  BY <1>1, <1>2 DEF PortInv, ArgInv, InSubmit, Submitting, Posting
<1>7. posted' \ finished' = (posted \ finished) \ {job[w]}
  BY <1>2
<1>8. /\ Cardinality(posted' \ finished') = Cardinality(posted \ finished) - 1
      /\ Cardinality(posted \ finished) \in Nat \ {0} /\ Cardinality(Posting) \in Nat
  BY <1>1, <1>3, <1>7, Counts, Removed
<1>9. PendingCounted' /\ nbPendingJobs' \in Nat
  <2>1. nbPendingJobs = Cardinality(posted \ finished) + Cardinality(Posting)
    BY <1>1 DEF PendingCounted
  <2>2. /\ nbPendingJobs' = Cardinality(posted' \ finished') + Cardinality(Posting)
        /\ nbPendingJobs' \in Nat
    BY <1>2, <1>8, <2>1, SMTT(60)
  <2> QED BY <1>6, <2>2 DEF PendingCounted
<1>10. finished' \subseteq posted'
  BY <1>1, <1>2, <1>3 DEF TypeOK
<1>11. TypeOK'
  BY <1>1, <1>2, <1>4, <1>9, <1>10 DEF TypeOK
<1>12. OneCopy'
  <2>1. posted' = InPort' \cup {job'[v] : v \in Running'} \cup finished'
    BY <1>1, <1>2, <1>3, <1>5 DEF OneCopy
  <2>2. InPort' \cap finished' = {}
    BY <1>1, <1>2, <1>3, <1>5 DEF OneCopy
  <2>3. \A v \in Running' : job'[v] \notin InPort' \cup finished'
    BY <1>1, <1>2, <1>3, <1>5 DEF OneCopy
  <2>4. \A u, v \in Running' : job'[u] = job'[v] => u = v
    BY <1>1, <1>2, <1>5 DEF OneCopy
  <2> QED BY <2>1, <2>2, <2>3, <2>4 DEF OneCopy
<1>13. SlotsConserved'
  BY <1>1, <1>2, <1>5, <1>6 DEF SlotsConserved
<1> QED BY <1>6, <1>9, <1>11, <1>12, <1>13 DEF IInv

\* SetEvent, and ReleaseSemaphore, which gives the slot back.
LEMMA AfterJobStep ==
    ASSUME WinAssumption, IInv, NEW w \in Workers, Set(w) \/ Release(w)
    PROVE  IInv'
<1>1. /\ TypeOK /\ PortInv /\ ArgInv /\ IsFiniteSet(posted) /\ OneCopy /\ PendingCounted /\ SlotsConserved
  BY DEF IInv
<1>2. /\ pc[w] \in {"set", "release"}
      /\ UNCHANGED <<port, nbPendingJobs, call, arg, owner, nulls, requested, posted, finished, fresh>>
  BY DEF Set, Release, history
<1>3. /\ pc' \in [Workers -> {"get", "run", "set", "release", "exited"}]
      /\ pc'[w] = (IF pc[w] = "set" THEN "release" ELSE "get")
      /\ \A v \in Workers : v # w => pc'[v] = pc[v]
      /\ job' \in [Workers -> Jobs \cup {NoJob}] /\ \A v \in Workers : v # w => job'[v] = job[v]
      /\ allJobsCompleted' \in BOOLEAN
  BY <1>1 DEF TypeOK, Set, Release
<1>4. /\ w \notin Running /\ Running' = Running /\ InPort' = InPort
      /\ Submitting' = Submitting /\ Posting' = Posting
  BY <1>2, <1>3 DEF Running, InPort, Submitting, Posting
<1>5. \A v \in Running : job'[v] = job[v]
  BY <1>3, <1>4 DEF Running
<1>6. PortInv' /\ ArgInv' /\ IsFiniteSet(posted')
  BY <1>1, <1>2 DEF PortInv, ArgInv, InSubmit
<1>7. OneCopy' /\ PendingCounted'
  BY <1>1, <1>2, <1>4, <1>5, SMTT(60) DEF OneCopy, PendingCounted
<1>8. SlotsConserved' /\ jobSlotAvail' \in 0..(QueueSize + nbWorkers)
  <2>1. CASE pc[w] = "set"
    <3>1. jobSlotAvail' = jobSlotAvail /\ Holders' = Holders
      BY <2>1, <1>3 DEF Set, Release, Holders
    <3> QED BY <3>1, <1>1, <1>4 DEF SlotsConserved, TypeOK
  <2>2. CASE pc[w] = "release"
    <3>1. jobSlotAvail' = jobSlotAvail + 1 /\ Holders' = Holders \ {w} /\ w \in Holders
      BY <2>2, <1>3 DEF Set, Release, Holders
    <3>2. /\ Cardinality(Holders') = Cardinality(Holders) - 1 /\ Cardinality(Holders) \in Nat \ {0}
          /\ Cardinality(Submitting) \in Nat /\ Cardinality(InPort) \in Nat
          /\ nbWorkers \in Nat /\ QueueSize \in Nat
      BY <1>1, <3>1, Counts, Removed
    <3>3. jobSlotAvail \in Nat /\ jobSlotAvail' \in Int /\ jobSlotAvail' >= 0 /\ QueueSize + nbWorkers \in Nat
      BY <1>1, <3>1, <3>2, SMTT(60) DEF TypeOK
    <3>4. jobSlotAvail + Cardinality(InPort) + Cardinality(Holders) + Cardinality(Submitting)
            = QueueSize + nbWorkers
      BY <1>1 DEF SlotsConserved
    <3>5. /\ jobSlotAvail' + Cardinality(InPort) + Cardinality(Holders') + Cardinality(Submitting)
               = QueueSize + nbWorkers
          /\ Cardinality(Holders') \in Nat
      <4>1. jobSlotAvail' = jobSlotAvail + 1
        BY <3>1
      <4> QED BY <4>1, <3>2, <3>3, <3>4, SMTT(60)
    <3>6. SlotsConserved'
      BY <1>4, <3>5 DEF SlotsConserved
    <3> QED BY <3>2, <3>3, <3>5, <3>6, SlotRange
  <2> QED BY <2>1, <2>2, <1>2
<1>9. TypeOK'
  BY <1>1, <1>2, <1>3, <1>8 DEF TypeOK
<1> QED BY <1>6, <1>7, <1>8, <1>9 DEF IInv

\* A call begins, waits or ends without touching jobs, slots or the count.
LEMMA CallStep ==
    ASSUME WinAssumption, IInv, NEW t \in Threads,
           \/ \E j \in Jobs : CallSubmit(t, j)
           \/ Reset(t)
           \/ CallCompleted(t)
           \/ Completed(t)
    PROVE  IInv'
<1>1. /\ TypeOK /\ PortInv /\ ArgInv /\ IsFiniteSet(posted) /\ OneCopy /\ PendingCounted /\ SlotsConserved
  BY DEF IInv
<1>2. UNCHANGED <<port, nbPendingJobs, jobSlotAvail, pc, job, owner, nulls, posted, finished>>
  BY DEF CallSubmit, Reset, CallCompleted, Completed, poolVars, history
<1>3. PICK to \in {"none", "slot", "increment", "completed"} :
        /\ call' = [call EXCEPT ![t] = to]
        /\ to = "increment" <=> call[t] = "reset"
        /\ to = "increment" \/ call[t] \in {"none", "completed"}
        /\ to = "slot" => \E j \in Jobs : CallSubmit(t, j)
        /\ to # "slot" => arg' = arg /\ requested' = requested
  BY DEF CallSubmit, Reset, CallCompleted, Completed, history
<1>4. /\ call' \in [Threads -> {"none", "slot", "reset", "increment", "post", "completed"}]
      /\ call'[t] = to /\ \A u \in Threads : u # t => call'[u] = call[u]
  BY <1>1, <1>3, CallMoved
<1>5. /\ InPort' = InPort /\ Running' = Running /\ Holders' = Holders
      /\ Submitting' = Submitting /\ Posting' = Posting
  <2>1. InPort' = InPort /\ Running' = Running /\ Holders' = Holders
    BY <1>2 DEF InPort, Running, Holders
  <2>2. \A u \in Threads : /\ call'[u] = "post" <=> call[u] = "post"
                           /\ call'[u] \in {"reset", "increment", "post"}
                                <=> call[u] \in {"reset", "increment", "post"}
    BY <1>3, <1>4
  <2> QED BY <2>1, <2>2 DEF Submitting, Posting
<1>6. PortInv' /\ IsFiniteSet(posted') /\ OneCopy' /\ PendingCounted' /\ SlotsConserved'
  BY <1>1, <1>2, <1>5, SMTT(60) DEF PortInv, OneCopy, PendingCounted, SlotsConserved
<1>7. CASE to # "slot"
  <2>1. \A u \in Threads : InSubmit(u)' => InSubmit(u)
    BY <1>3, <1>4, <1>7 DEF InSubmit
  <2>2. ArgInv'
    BY <1>1, <1>2, <1>3, <1>7, <2>1 DEF ArgInv
  <2>3. allJobsCompleted' \in BOOLEAN /\ fresh' \subseteq Clients
    BY <1>1, <1>3, <1>7 DEF TypeOK, CallSubmit, Reset, CallCompleted, Completed, poolVars, history
  <2>4. TypeOK'
    BY <1>1, <1>2, <1>3, <1>4, <1>7, <2>3 DEF TypeOK
  <2> QED BY <1>6, <2>2, <2>4 DEF IInv
<1>8. CASE to = "slot"
  <2>1. PICK j \in Jobs : CallSubmit(t, j)
    BY <1>3, <1>8
  <2>2. /\ j \notin requested /\ arg' = [arg EXCEPT ![t] = j] /\ requested' = requested \cup {j}
        /\ allJobsCompleted' = allJobsCompleted /\ fresh' = fresh \cup ({t} \cap Clients)
    BY <2>1 DEF CallSubmit, poolVars
  <2>3. /\ arg' \in [Threads -> Jobs \cup {NoJob}] /\ arg'[t] = j
        /\ \A u \in Threads : u # t => arg'[u] = arg[u]
    BY <1>1, <2>2 DEF TypeOK
  <2>4. TypeOK'
    BY <1>1, <1>2, <1>4, <2>2, <2>3 DEF TypeOK
  <2>5. \A u \in Threads : u # t /\ InSubmit(u)' => InSubmit(u) /\ arg[u] # j
    BY <1>1, <1>4, <2>2 DEF InSubmit, ArgInv
  <2>6. j \in requested' \ posted'
    BY <1>1, <1>2, <2>2 DEF TypeOK
  <2>7. ArgInv'
    <3> SUFFICES ASSUME NEW u \in Threads, InSubmit(u)'
                 PROVE  /\ arg'[u] \in requested' \ posted'
                        /\ \A v \in Threads : InSubmit(v)' /\ arg'[v] = arg'[u] => v = u
      BY DEF ArgInv
    <3>1. CASE u = t
      BY <3>1, <2>3, <2>5, <2>6
    <3>2. CASE u # t
      BY <3>2, <1>1, <1>2, <2>2, <2>3, <2>5 DEF ArgInv
    <3> QED BY <3>1, <3>2
  <2> QED BY <1>6, <2>4, <2>7 DEF IInv
<1> QED BY <1>7, <1>8
\* WaitForSingleObject on the semaphore, and InterlockedIncrement.
LEMMA TakeStep ==
    ASSUME WinAssumption, IInv, NEW t \in Threads, TakeSlot(t) \/ Increment(t)
    PROVE  IInv'
<1>1. /\ TypeOK /\ PortInv /\ ArgInv /\ IsFiniteSet(posted) /\ OneCopy /\ PendingCounted /\ SlotsConserved
  BY DEF IInv
<1>2. /\ call[t] \in {"slot", "increment"}
      /\ call' = [call EXCEPT ![t] = IF call[t] = "slot" THEN "reset" ELSE "post"]
      /\ UNCHANGED <<port, allJobsCompleted, pc, job, arg, owner, nulls, requested, posted, finished, fresh>>
  BY DEF TakeSlot, Increment, history
<1>3. /\ call' \in [Threads -> {"none", "slot", "reset", "increment", "post", "completed"}]
      /\ call'[t] = (IF call[t] = "slot" THEN "reset" ELSE "post")
      /\ \A u \in Threads : u # t => call'[u] = call[u]
  BY <1>1, <1>2, CallMoved
<1>4. \A u \in Threads : InSubmit(u)' <=> InSubmit(u)
  BY <1>2, <1>3 DEF InSubmit
<1>5. PortInv' /\ ArgInv' /\ IsFiniteSet(posted')
  BY <1>1, <1>2, <1>4 DEF PortInv, ArgInv
<1>6. InPort' = InPort /\ Running' = Running /\ Holders' = Holders
  BY <1>2 DEF InPort, Running, Holders
<1>7. OneCopy'
  BY <1>1, <1>2, <1>6 DEF OneCopy
<1>8. /\ Cardinality(Holders) \in Nat /\ Cardinality(Submitting) \in Nat /\ Cardinality(InPort) \in Nat
      /\ Cardinality(Posting) \in Nat /\ Cardinality(posted \ finished) \in Nat
      /\ IsFiniteSet(Submitting) /\ IsFiniteSet(Posting)
      /\ nbWorkers \in Nat /\ QueueSize \in Nat /\ jobSlotAvail \in Nat
  BY <1>1, Counts, SMTT(60) DEF TypeOK
<1>9. CASE call[t] = "slot"
  <2>1. /\ jobSlotAvail > 0 /\ jobSlotAvail' = jobSlotAvail - 1 /\ nbPendingJobs' = nbPendingJobs
    BY <1>9 DEF TakeSlot, Increment
  <2>2. Posting' = Posting /\ Submitting' = Submitting \cup {t} /\ t \notin Submitting
    BY <1>3, <1>9 DEF Posting, Submitting
  <2>3. Cardinality(Submitting') = Cardinality(Submitting) + 1
    BY <1>8, <2>2, Added
  <2>4. SlotsConserved'
    BY <1>1, <1>6, <1>8, <2>1, <2>3, SMTT(60) DEF SlotsConserved
  <2>5. jobSlotAvail' \in 0..(QueueSize + nbWorkers)
    BY <1>1, <1>8, <2>1, SMTT(60) DEF TypeOK
  <2>6. TypeOK' /\ PendingCounted'
    BY <1>1, <1>2, <1>3, <2>1, <2>2, <2>5 DEF TypeOK, PendingCounted
  <2> QED BY <1>5, <1>7, <2>4, <2>6 DEF IInv
<1>10. CASE call[t] = "increment"
  <2>1. nbPendingJobs' = nbPendingJobs + 1 /\ jobSlotAvail' = jobSlotAvail
    BY <1>10 DEF TakeSlot, Increment
  <2>2. Posting' = Posting \cup {t} /\ t \notin Posting /\ Submitting' = Submitting
    BY <1>3, <1>10 DEF Posting, Submitting
  <2>3. Cardinality(Posting') = Cardinality(Posting) + 1
    BY <1>8, <2>2, Added
  <2>4. PendingCounted' /\ nbPendingJobs' \in Nat
    BY <1>1, <1>2, <1>8, <2>1, <2>3, SMTT(60) DEF PendingCounted
  <2>5. TypeOK' /\ SlotsConserved'
    BY <1>1, <1>2, <1>3, <1>6, <2>1, <2>2, <2>4 DEF TypeOK, SlotsConserved
  <2> QED BY <1>5, <1>7, <2>4, <2>5 DEF IInv
<1> QED BY <1>2, <1>9, <1>10

\* PostQueuedCompletionStatus: the job and its slot go to the port.
LEMMA PostStep ==
    ASSUME WinAssumption, IInv, NEW t \in Threads, Post(t)
    PROVE  IInv'
<1> DEFINE j == arg[t]
<1>1. /\ TypeOK /\ PortInv /\ ArgInv /\ IsFiniteSet(posted) /\ OneCopy /\ PendingCounted /\ SlotsConserved
  BY DEF IInv
<1>2. /\ call[t] = "post" /\ port' = Append(port, j) /\ posted' = posted \cup {j}
      /\ call' = [call EXCEPT ![t] = "none"] /\ arg' = [arg EXCEPT ![t] = NoJob]
      /\ UNCHANGED <<nbPendingJobs, jobSlotAvail, allJobsCompleted, pc, job, owner, nulls,
                     requested, finished, fresh>>
  BY DEF Post
<1>3. /\ j \in requested \ posted /\ j \in Jobs /\ j # NoJob /\ j \notin finished
      /\ \A u \in Threads : u # t /\ InSubmit(u) => arg[u] # j
  BY <1>1, <1>2 DEF ArgInv, InSubmit, TypeOK, WinAssumption
<1>4. /\ call' \in [Threads -> {"none", "slot", "reset", "increment", "post", "completed"}]
      /\ call'[t] = "none" /\ \A u \in Threads : u # t => call'[u] = call[u]
  BY <1>1, <1>2, CallMoved
<1>5. /\ arg' \in [Threads -> Jobs \cup {NoJob}] /\ \A u \in Threads : u # t => arg'[u] = arg[u]
  BY <1>1, <1>2 DEF TypeOK
<1>6. /\ port' \in Seq(Jobs \cup {NoJob}) /\ Len(port') = Len(port) + 1 /\ Len(port) \in Nat
      /\ \A i \in 1..Len(port) : port'[i] = port[i]
      /\ port'[Len(port) + 1] = j
  BY <1>1, <1>2, <1>3, PortAppended DEF TypeOK
<1> HIDE DEF j
<1>7. /\ \A i \in 1..Len(port') : i \in 1..Len(port) \/ i = Len(port) + 1
      /\ \A i \in 1..Len(port) : i \in 1..Len(port')
      /\ Len(port) + 1 \in 1..Len(port')
  BY <1>6, SMTT(60)
<1>8. j \notin InPort /\ \A i \in 1..Len(port) : port[i] # j
  <2>1. j \notin InPort
    BY <1>1, <1>3, Counts
  <2> QED BY <2>1, <1>3 DEF InPort
<1>9. PortInv'
  BY <1>1, <1>6, <1>7, <1>8 DEF PortInv
<1>10. InPort' = InPort \cup {j}
  BY <1>3, <1>6, <1>7 DEF InPort
<1>11. ArgInv'
  <2>1. \A u \in Threads : InSubmit(u)' => InSubmit(u) /\ u # t
    BY <1>4 DEF InSubmit
  <2> QED BY <1>1, <1>2, <1>3, <1>5, <2>1 DEF ArgInv
<1>12. TypeOK'
  BY <1>1, <1>2, <1>3, <1>4, <1>5, <1>6 DEF TypeOK
<1>13. Running' = Running /\ Holders' = Holders
  BY <1>2 DEF Running, Holders
<1>14. OneCopy'
  <2>1. \A v \in Running : job[v] # j
    BY <1>1, <1>3 DEF OneCopy
  <2> QED BY <1>1, <1>2, <1>3, <1>10, <1>13, <2>1 DEF OneCopy
<1>15. /\ Submitting' = Submitting \ {t} /\ t \in Submitting
       /\ Posting' = Posting \ {t} /\ t \in Posting
  BY <1>2, <1>4 DEF Submitting, Posting
<1>16. /\ posted' \ finished' = (posted \ finished) \cup {j} /\ j \notin posted \ finished
  BY <1>2, <1>3
<1>17. /\ Cardinality(Submitting') = Cardinality(Submitting) - 1 /\ Cardinality(Submitting) \in Nat
       /\ Cardinality(Posting') = Cardinality(Posting) - 1 /\ Cardinality(Posting) \in Nat
       /\ Cardinality(InPort') = Cardinality(InPort) + 1 /\ Cardinality(InPort) \in Nat
  BY <1>1, <1>8, <1>10, <1>15, Counts, Added, Removed
<1>18. /\ Cardinality(posted' \ finished') = Cardinality(posted \ finished) + 1
       /\ Cardinality(posted \ finished) \in Nat /\ Cardinality(Holders) \in Nat /\ IsFiniteSet(posted')
  BY <1>1, <1>2, <1>3, <1>16, Counts, Added
<1>19. PendingCounted'
  <2>1. nbPendingJobs = Cardinality(posted \ finished) + Cardinality(Posting)
    BY <1>1 DEF PendingCounted
  <2>2. nbPendingJobs = Cardinality(posted' \ finished') + Cardinality(Posting')
    BY <1>17, <1>18, <2>1, SMTT(60)
  <2> QED BY <1>2, <2>2 DEF PendingCounted
<1>20. SlotsConserved'
  <2>1. /\ jobSlotAvail + Cardinality(InPort) + Cardinality(Holders) + Cardinality(Submitting)
             = QueueSize + nbWorkers
        /\ jobSlotAvail \in 0..(QueueSize + nbWorkers)
    BY <1>1 DEF SlotsConserved, TypeOK
  <2>2. jobSlotAvail + Cardinality(InPort') + Cardinality(Holders) + Cardinality(Submitting')
          = QueueSize + nbWorkers
    BY <1>17, <1>18, <2>1, SMTT(60)
  <2> QED BY <1>2, <1>13, <2>2 DEF SlotsConserved
<1> QED BY <1>9, <1>11, <1>12, <1>14, <1>18, <1>19, <1>20 DEF IInv

\* TPool_free: the NULL packets are no jobs.
LEMMA FreeStep ==
    ASSUME WinAssumption, IInv, PostNull \/ WaitThreads
    PROVE  IInv'
<1>1. /\ TypeOK /\ PortInv /\ ArgInv /\ IsFiniteSet(posted) /\ OneCopy /\ PendingCounted /\ SlotsConserved
  BY DEF IInv
<1>2. /\ owner' \in {"free", "freed"}
      /\ UNCHANGED <<nbPendingJobs, jobSlotAvail, allJobsCompleted, pc, job, call, arg,
                     requested, posted, finished, fresh>>
  BY DEF PostNull, WaitThreads, poolVars, history
<1>3. nulls' \in 0..nbWorkers
  <2>1. nulls \in 0..nbWorkers /\ nbWorkers \in Nat
    BY <1>1, Counts DEF TypeOK
  <2> QED BY <2>1, SMTT(60) DEF PostNull, WaitThreads
<1>4. port' \in Seq(Jobs \cup {NoJob}) /\ InPort' = InPort /\ PortInv'
  <2>1. CASE PostNull
    <3>1. /\ port' \in Seq(Jobs \cup {NoJob}) /\ Len(port') = Len(port) + 1 /\ Len(port) \in Nat
          /\ \A i \in 1..Len(port) : port'[i] = port[i]
          /\ port'[Len(port) + 1] = NoJob
      <4>1. port \in Seq(Jobs \cup {NoJob}) /\ NoJob \in Jobs \cup {NoJob} /\ port' = Append(port, NoJob)
        BY <1>1, <2>1 DEF TypeOK, PostNull
      <4> QED BY <4>1, PortAppended
    <3>2. /\ \A i \in 1..Len(port') : i \in 1..Len(port) \/ i = Len(port) + 1
          /\ \A i \in 1..Len(port) : i \in 1..Len(port')
      BY <3>1, SMTT(60)
    <3>3. PortInv'
      BY <1>1, <3>1, <3>2 DEF PortInv
    <3>4. InPort' = InPort
      BY <3>1, <3>2 DEF InPort
    <3> QED BY <3>1, <3>3, <3>4
  <2>2. CASE WaitThreads
    BY <1>1, <2>2 DEF WaitThreads, poolVars, InPort, PortInv, TypeOK
  <2> QED BY <2>1, <2>2
<1>5. TypeOK'
  BY <1>1, <1>2, <1>3, <1>4 DEF TypeOK
<1>6. /\ Running' = Running /\ Holders' = Holders /\ Submitting' = Submitting /\ Posting' = Posting
  BY <1>2 DEF Running, Holders, Submitting, Posting
<1>7. ArgInv' /\ IsFiniteSet(posted') /\ OneCopy' /\ PendingCounted' /\ SlotsConserved'
  BY <1>1, <1>2, <1>4, <1>6, SMTT(60) DEF ArgInv, InSubmit, OneCopy, PendingCounted, SlotsConserved
<1> QED BY <1>4, <1>5, <1>7 DEF IInv

LEMMA NextIInv == ASSUME WinAssumption, IInv, [Next]_vars PROVE IInv'
<1>1. ASSUME NEW w \in Workers, WorkerStep(w) PROVE IInv'
  BY <1>1, GetPacketStep, DecrementStep, AfterJobStep DEF WorkerStep
<1>2. ASSUME NEW t \in Threads, SubmitStep(t) \/ (\E j \in Jobs : CallSubmit(t, j)) PROVE IInv'
  BY <1>2, TakeStep, PostStep, CallStep DEF SubmitStep
<1>3. ASSUME NEW c \in Clients, CallCompleted(c) \/ Completed(c) PROVE IInv'
  <2>1. c \in Threads
    BY DEF Threads
  <2> QED BY <1>3, <2>1, CallStep
<1>4. CASE PostNull \/ WaitThreads
  BY <1>4, FreeStep
<1>5. CASE UNCHANGED vars
  <2>1. UNCHANGED <<port, nbPendingJobs, jobSlotAvail, allJobsCompleted, pc, job, call, arg, owner, nulls,
                    requested, posted, finished, fresh>>
    BY <1>5 DEF vars, poolVars, history
  <2>2. TypeOK' /\ PortInv' /\ ArgInv' /\ IsFiniteSet(posted')
    BY <2>1 DEF IInv, TypeOK, PortInv, ArgInv, InSubmit
  <2>3. OneCopy' /\ PendingCounted' /\ SlotsConserved'
    BY <2>1 DEF IInv, OneCopy, PendingCounted, SlotsConserved, InPort, Running, Holders, Submitting, Posting
  <2> QED BY <2>2, <2>3 DEF IInv
<1> QED BY <1>1, <1>2, <1>3, <1>4, <1>5 DEF Next

-----------------------------------------------------------------------------
(* The theorems                                                            *)

\* For any number of workers, clients and jobs: the completion port, nbPendingJobs and the
\* semaphore agree at every step of every thread, so that no job is lost or run twice, the
\* count never goes below zero and no slot is lost or created (JobsAndSlots).
THEOREM WindowsPoolKeepsCount ==
    ASSUME WinAssumption PROVE Spec => []JobsAndSlots
<1>1. Init => IInv
  BY InitIInv
<1>2. IInv /\ [Next]_vars => IInv'
  BY NextIInv
<1>3. IInv => JobsAndSlots
  BY DEF IInv, JobsAndSlots
<1> QED BY <1>1, <1>2, <1>3, PTL DEF Spec

\* A worker that has left stays out.
LEMMA ExitedStays ==
    ASSUME TypeOK, [Next]_vars, NEW w \in Workers, pc[w] = "exited"
    PROVE  pc'[w] = "exited"
<1>1. ASSUME NEW v \in Workers, WorkerStep(v) PROVE pc'[w] = "exited"
  <2>1. pc[v] # "exited" /\ \E to \in {"get", "run", "set", "release", "exited"} : pc' = [pc EXCEPT ![v] = to]
    BY <1>1 DEF WorkerStep, GetPacket, Decrement, Set, Release
  <2> QED BY <2>1 DEF TypeOK
<1>2. ASSUME NEW t \in Threads, SubmitStep(t) \/ (\E j \in Jobs : CallSubmit(t, j)) PROVE pc' = pc
  BY <1>2 DEF SubmitStep, TakeSlot, Reset, Increment, Post, CallSubmit
<1>3. ASSUME NEW c \in Clients, CallCompleted(c) \/ Completed(c) PROVE pc' = pc
  BY <1>3 DEF CallCompleted, Completed
<1>4. PostNull \/ WaitThreads \/ UNCHANGED vars => pc' = pc
  BY DEF PostNull, WaitThreads, vars
<1> QED BY <1>1, <1>2, <1>3, <1>4 DEF Next

\* TPool_free returns only when every worker has left, provided that WaitForMultipleObjects
\* accepts as many handles as there are workers (FreedMeansStopped).
THEOREM WindowsFreeWaits ==
    ASSUME WinAssumption, nbWorkers <= MAXIMUM_WAIT_OBJECTS PROVE Spec => []FreedMeansStopped
<1>1. Init => IInv /\ FreedMeansStopped
  BY InitIInv DEF Init, FreedMeansStopped
<1>2. IInv /\ FreedMeansStopped /\ [Next]_vars => IInv' /\ FreedMeansStopped'
  <2> SUFFICES ASSUME IInv, FreedMeansStopped, [Next]_vars PROVE IInv' /\ FreedMeansStopped'
    OBVIOUS
  <2>1. IInv' /\ TypeOK
    BY NextIInv DEF IInv
  <2>2. ASSUME owner' = "freed" PROVE \A w \in Workers : pc[w] = "exited"
    <3>1. owner = "freed" \/ WaitThreads
      BY <2>2 DEF Next, WorkerStep, GetPacket, Decrement, Set, Release, SubmitStep, TakeSlot, Reset,
                  Increment, Post, CallSubmit, CallCompleted, Completed, PostNull, vars
    <3> QED BY <3>1 DEF FreedMeansStopped, WaitThreads
  <2> QED BY <2>1, <2>2, ExitedStays DEF FreedMeansStopped
<1> QED BY <1>1, <1>2, PTL DEF Spec
=============================================================================
