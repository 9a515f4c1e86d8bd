------------------------- MODULE DaemonLifecycleProofs -------------------------
(***************************************************************************)
(* What the lock on the pid file guarantees, proved for any number of      *)
(* daemons and stop commands: LockGuardsDaemon, RefusalIsRight and         *)
(* RestartWorks of DaemonLifecycle.                                        *)
(***************************************************************************)
EXTENDS DaemonLifecycle, TLAPS

\* The provers of a leaf that names none.
USE ZenonT(60), SMTT(60)

-----------------------------------------------------------------------------
(* The inductive invariant                                                 *)

\* Where a daemon holds the lock: from flock() to remove_pidfile.
Holding == {"locked", "init", "unlinkSock", "bind", "run", "serve", "cleanup", "unlock"}

\* A daemon has a pid file open from open() on; the lock of that file is its own while
\* it is in Holding, and it has no other.
LockInv == \A d \in Daemons :
    /\ fd[d] # None <=> stage[d] \in Holding \cup {"open"}
    /\ stage[d] \in Holding => flocked[fd[d]] = d
    /\ \A i \in Daemons : flocked[i] = d => stage[d] \in Holding /\ fd[d] = i

\* The pid file was unlinked: by a daemon that ended, or by a stop command.  Unlike
\* PidFileRemoved this never becomes false again: a daemon that is killed in
\* remove_pidfile leaves the file.
Unlinked ==
    \/ \E d \in Daemons : stage[d] = "exited"
    \/ \E s \in Stops : stop[s] = "unlinkSock" \/ (stop[s] = "done" /\ target[s] # None)

\* Until then all daemons have opened the same file,
FileInv == Unlinked \/ \A d \in Daemons : fd[d] # None => fd[d] = pidPath

\* and nobody touches the socket of the one that is bound.
SocketInv == Unlinked \/ \A d \in Daemons : stage[d] \in {"run", "serve"} => sockPath = d

\* Two daemons alive together are in `overlapped', and one that is not finds the path free.
OverlapInv ==
    /\ \A d, e \in Daemons : d # e /\ Alive(d) /\ Alive(e) => d \in overlapped
    /\ \A d \in Daemons : stage[d] = "bind" /\ d \notin overlapped => sockPath = None

IInv == TypeOK /\ LockInv /\ FileInv /\ SocketInv /\ OverlapInv

-----------------------------------------------------------------------------
(* Lemmas                                                                  *)

\* One daemon goes to another stage, the others stay where they are.
LEMMA Moved ==
    ASSUME TypeOK, NEW d \in Daemons, NEW to \in Stages, stage' = [stage EXCEPT ![d] = to]
    PROVE  /\ stage' \in [Daemons -> Stages] /\ stage'[d] = to
           /\ \A e \in Daemons : e # d => stage'[e] = stage[e]
  BY DEF TypeOK

\* As long as the pid file was not unlinked one daemon at most is in Holding.
LEMMA OneHolds ==
    ASSUME None \notin Daemons, LockInv, FileInv, ~Unlinked,
           NEW d \in Daemons, NEW e \in Daemons, stage[d] \in Holding, stage[e] \in Holding
    PROVE  d = e
<1>1. fd[d] = pidPath /\ fd[e] = pidPath
  BY DEF LockInv, FileInv
<1> QED BY <1>1, SMTT(60) DEF LockInv

\* A daemon's progress within Holding, its files untouched, keeps what is known of the lock.
LEMMA LockSame ==
    ASSUME TypeOK, LockInv, NEW d \in Daemons, NEW to \in Holding, stage[d] \in Holding,
           stage' = [stage EXCEPT ![d] = to], UNCHANGED <<fd, flocked>>
    PROVE  LockInv'
<1>1. stage'[d] = to /\ \A e \in Daemons : e # d => stage'[e] = stage[e]
  BY DEF TypeOK
<1>2. \A e \in Daemons : /\ stage'[e] \in Holding <=> stage[e] \in Holding
                         /\ stage'[e] = "open" <=> stage[e] = "open"
  BY <1>1 DEF Holding
<1> QED BY <1>2 DEF LockInv

\* A live daemon that goes on without exiting leaves it open whether the file was unlinked.
LEMMA UnlinkedSame ==
    ASSUME TypeOK, NEW d \in Daemons, NEW to \in Stages, to # "exited", stage[d] # "exited",
           stage' = [stage EXCEPT ![d] = to], UNCHANGED <<stop, target>>
    PROVE  Unlinked' = Unlinked
<1>1. stage'[d] = to /\ \A e \in Daemons : e # d => stage'[e] = stage[e]
  BY DEF TypeOK
<1>2. \A e \in Daemons : stage'[e] = "exited" <=> stage[e] = "exited"
  BY <1>1
<1>3. Unlinked' <=> Unlinked
  BY <1>2 DEF Unlinked
<1> QED BY <1>3 DEF Unlinked

\* Nobody becomes alive but by open(), so `overlapped' stays right.
LEMMA OverlapSame ==
    ASSUME TypeOK, OverlapInv, NEW d \in Daemons, NEW to \in Stages, Alive(d),
           stage' = [stage EXCEPT ![d] = to], overlapped' = overlapped
    PROVE  \A e, f \in Daemons : e # f /\ Alive(e)' /\ Alive(f)' => e \in overlapped'
<1>1. stage'[d] = to /\ \A e \in Daemons : e # d => stage'[e] = stage[e]
  BY DEF TypeOK
<1>2. \A e \in Daemons : Alive(e)' => Alive(e)
  BY <1>1 DEF Alive
<1> QED BY <1>2 DEF OverlapInv

\* A daemon that holds the lock goes on holding it: what it does to the socket disturbs
\* no other.
LEMMA Advance ==
    ASSUME None \notin Daemons, IInv, NEW d \in Daemons, NEW to \in Holding, stage[d] \in Holding,
           stage' = [stage EXCEPT ![d] = to],
           to \in {"run", "serve"} => sockPath' = d \/ (stage[d] = "run" /\ sockPath' = sockPath),
           to = "bind" => sockPath' = None,
           UNCHANGED <<pidPath, fd, flocked, overlapped, stop, target>>
    PROVE  LockInv' /\ FileInv' /\ SocketInv' /\ OverlapInv'
<1>1. /\ TypeOK /\ LockInv /\ FileInv /\ SocketInv /\ OverlapInv
      /\ to \in Stages /\ to # "exited" /\ stage[d] # "exited" /\ Alive(d)
  BY DEF IInv, Holding, Stages, Alive, Over
<1>2. /\ stage' \in [Daemons -> Stages] /\ stage'[d] = to
      /\ \A e \in Daemons : e # d => stage'[e] = stage[e]
  BY <1>1, Moved
<1>3. LockInv'
  BY <1>1, LockSame
<1>4. Unlinked' = Unlinked
  BY <1>1, UnlinkedSame
<1>5. FileInv'
  BY <1>1, <1>4 DEF FileInv
<1>6. SocketInv'
  <2> SUFFICES ASSUME ~Unlinked, NEW e \in Daemons, stage'[e] \in {"run", "serve"}
               PROVE  sockPath' = e
    BY <1>4 DEF SocketInv
  <2>1. CASE e = d
    <3>1. stage[d] = "run" => sockPath = d
      BY <1>1 DEF SocketInv
    <3> QED BY <2>1, <3>1, <1>2
  <2>2. CASE e # d
    <3>1. stage[e] \in Holding
      BY <2>2, <1>2 DEF Holding
    <3> QED BY <2>2, <3>1, <1>1, OneHolds
  <2> QED BY <2>1, <2>2
<1>7. OverlapInv'
  <2>1. \A e, f \in Daemons : e # f /\ Alive(e)' /\ Alive(f)' => e \in overlapped'
    BY <1>1, OverlapSame
  <2>2. ASSUME NEW e \in Daemons, stage'[e] = "bind", e \notin overlapped' PROVE sockPath' = None
    <3>1. CASE e = d
      BY <2>2, <3>1, <1>2
    <3>2. CASE e # d
      <4>1. Alive(e)
        BY <2>2, <3>2, <1>2 DEF Alive, Over
      <4> QED BY <2>2, <3>2, <4>1, <1>1 DEF OverlapInv
    <3> QED BY <3>1, <3>2
  <2> QED BY <2>1, <2>2 DEF OverlapInv
<1> QED BY <1>3, <1>5, <1>6, <1>7

\* A process ends: the kernel gives back its lock and no other.
LEMMA Ended ==
    ASSUME None \notin Daemons, IInv, NEW d \in Daemons, Alive(d),
           NEW how \in {"refused", "failed", "killed"}, End(d, how), Unlinked => Unlinked',
           UNCHANGED <<pidPath, sockPath, overlapped>>
    PROVE  /\ stage' \in [Daemons -> Stages] /\ fd' \in [Daemons -> Daemons \cup {None}]
           /\ flocked' \in [Daemons -> Daemons \cup {None}]
           /\ LockInv' /\ FileInv' /\ SocketInv' /\ OverlapInv'
<1>1. TypeOK /\ LockInv /\ FileInv /\ SocketInv /\ OverlapInv /\ how \in Stages
  BY DEF IInv, Stages
<1>2. /\ stage' \in [Daemons -> Stages] /\ stage'[d] = how
      /\ \A e \in Daemons : e # d => stage'[e] = stage[e]
  BY <1>1, Moved DEF End
<1>3. /\ fd' \in [Daemons -> Daemons \cup {None}] /\ fd'[d] = None
      /\ \A e \in Daemons : e # d => fd'[e] = fd[e]
  BY <1>1 DEF End, TypeOK
<1>4. /\ flocked' \in [Daemons -> Daemons \cup {None}]
      /\ \A i \in Daemons : flocked'[i] = IF flocked[i] = d THEN None ELSE flocked[i]
  BY <1>1 DEF End, TypeOK
<1>5. stage'[d] \notin Holding \cup {"open"} /\ ~Alive(d)' /\ stage'[d] \notin {"run", "serve", "bind"}
  BY <1>2 DEF Holding, Alive, Over
<1>6. LockInv'
  <2> SUFFICES ASSUME NEW e \in Daemons
               PROVE  /\ fd'[e] # None <=> stage'[e] \in Holding \cup {"open"}
                      /\ stage'[e] \in Holding => flocked'[fd'[e]] = e
                      /\ \A i \in Daemons : flocked'[i] = e => stage'[e] \in Holding /\ fd'[e] = i
    BY DEF LockInv
  <2>1. CASE e = d
    BY <2>1, <1>3, <1>4, <1>5
  <2>2. CASE e # d
    <3>1. fd'[e] = fd[e] /\ stage'[e] = stage[e]
      BY <2>2, <1>2, <1>3
    <3>2. \A i \in Daemons : flocked'[i] = e <=> flocked[i] = e
      BY <2>2, <1>4
    <3>3. stage[e] \in Holding => fd[e] \in Daemons
      BY <1>1, SMTT(60) DEF LockInv, TypeOK
    <3> QED BY <3>1, <3>2, <3>3, <1>1, SMTT(60) DEF LockInv
  <2> QED BY <2>1, <2>2
<1>7. FileInv'
  BY <1>1, <1>3 DEF FileInv
<1>8. SocketInv'
  BY <1>1, <1>2, <1>5 DEF SocketInv
<1>9. OverlapInv'
  <2>1. \A e, f \in Daemons : e # f /\ Alive(e)' /\ Alive(f)' => e \in overlapped'
    BY <1>1, OverlapSame DEF End
  <2>2. \A e \in Daemons : stage'[e] = "bind" /\ e \notin overlapped' => sockPath' = None
    BY <1>1, <1>2, <1>5 DEF OverlapInv
  <2> QED BY <2>1, <2>2 DEF OverlapInv
<1> QED BY <1>2, <1>3, <1>4, <1>6, <1>7, <1>8, <1>9
-----------------------------------------------------------------------------
(* The invariant holds initially and is kept by every step                 *)

LEMMA InitIInv == ASSUME None \notin Daemons, Init PROVE IInv
<1>1. TypeOK
  BY DEF Init, TypeOK, Stages
<1>2. LockInv
  BY DEF Init, LockInv, Holding
<1>3. FileInv /\ SocketInv
  BY DEF Init, FileInv, SocketInv
<1>4. OverlapInv
  BY DEF Init, OverlapInv, Alive
<1> QED BY <1>1, <1>2, <1>3, <1>4 DEF IInv

\* open(): the first daemon creates the file, later ones open the same.
LEMMA OpenStep ==
    ASSUME None \notin Daemons, IInv, NEW d \in Daemons, Open(d)
    PROVE  IInv'
<1>1. /\ TypeOK /\ LockInv /\ FileInv /\ SocketInv /\ OverlapInv
      /\ stage[d] = "new" /\ stage' = [stage EXCEPT ![d] = "open"] /\ "open" \in Stages
      /\ UNCHANGED <<content, flocked, sockPath, handler, running, stop, target>>
  BY DEF IInv, Open, At, Stages
<1>2. /\ stage' \in [Daemons -> Stages] /\ stage'[d] = "open"
      /\ \A e \in Daemons : e # d => stage'[e] = stage[e]
  BY <1>1, Moved
<1>3. /\ pidPath' \in Daemons /\ (pidPath # None => pidPath' = pidPath)
      /\ fd' \in [Daemons -> Daemons \cup {None}] /\ fd'[d] = pidPath'
      /\ \A e \in Daemons : e # d => fd'[e] = fd[e]
  <2>1. pidPath' \in Daemons /\ (pidPath # None => pidPath' = pidPath)
    BY <1>1 DEF Open, TypeOK
  <2> QED BY <2>1, <1>1 DEF Open, TypeOK
<1>4. /\ overlapped' \subseteq Daemons /\ overlapped \subseteq overlapped'
      /\ \A e \in Daemons : Alive(e) => e \in overlapped' /\ d \in overlapped'
  BY <1>1 DEF Open, TypeOK
<1>5. Unlinked' = Unlinked
  BY <1>1, UnlinkedSame
<1>6. TypeOK'
  BY <1>1, <1>2, <1>3, <1>4 DEF TypeOK
<1>7. LockInv'
  <2> SUFFICES ASSUME NEW e \in Daemons
               PROVE  /\ fd'[e] # None <=> stage'[e] \in Holding \cup {"open"}
                      /\ stage'[e] \in Holding => flocked'[fd'[e]] = e
                      /\ \A i \in Daemons : flocked'[i] = e => stage'[e] \in Holding /\ fd'[e] = i
    BY DEF LockInv
  <2>1. CASE e = d
    <3>1. \A i \in Daemons : flocked[i] # d
      BY <1>1 DEF LockInv, Holding
    <3> QED BY <2>1, <3>1, <1>1, <1>2, <1>3 DEF Holding
  <2>2. CASE e # d
    BY <2>2, <1>1, <1>2, <1>3, SMTT(60) DEF LockInv
  <2> QED BY <2>1, <2>2
<1>8. FileInv'
  <2>1. ASSUME ~Unlinked, NEW e \in Daemons, fd'[e] # None PROVE fd'[e] = pidPath'
    <3>1. CASE e = d
      BY <3>1, <1>3
    <3>2. CASE e # d
      BY <2>1, <3>2, <1>1, <1>3 DEF FileInv
    <3> QED BY <3>1, <3>2
  <2> QED BY <2>1, <1>5 DEF FileInv
<1>9. SocketInv'
  BY <1>1, <1>2, <1>5 DEF SocketInv
<1>10. OverlapInv'
  <2>1. \A e \in Daemons : e # d /\ Alive(e)' => Alive(e)
    BY <1>2 DEF Alive
  <2>2. ASSUME NEW e \in Daemons, NEW f \in Daemons, e # f, Alive(e)', Alive(f)'
        PROVE  e \in overlapped'
    <3>1. CASE e = d
      BY <2>2, <3>1, <2>1, <1>4
    <3>2. CASE e # d
      BY <2>2, <3>2, <2>1, <1>4
    <3> QED BY <3>1, <3>2
  <2>3. ASSUME NEW e \in Daemons, stage'[e] = "bind", e \notin overlapped' PROVE sockPath' = None
    <3>1. e # d
      BY <2>3, <1>2
    <3> QED BY <2>3, <3>1, <1>1, <1>2, <1>4 DEF OverlapInv
  <2> QED BY <2>2, <2>3 DEF OverlapInv
<1> QED BY <1>6, <1>7, <1>8, <1>9, <1>10 DEF IInv

\* flock(): it is granted only when nobody has the file's lock.
LEMMA FlockStep ==
    ASSUME None \notin Daemons, IInv, NEW d \in Daemons, Flock(d)
    PROVE  IInv'
<1>1. /\ TypeOK /\ LockInv /\ FileInv /\ SocketInv /\ OverlapInv /\ stage[d] = "open"
      /\ UNCHANGED <<pidPath, content, sockPath, handler, running, stop, target, overlapped>>
  BY DEF IInv, Flock
<1>2. fd[d] \in Daemons /\ Alive(d) /\ stage[d] # "exited"
  BY <1>1, SMTT(60) DEF LockInv, TypeOK, Alive, Over
<1>3. CASE End(d, "refused")
  <2>1. Unlinked => Unlinked'
    BY <1>1, <1>2, <1>3, UnlinkedSame DEF End, Stages
  <2>2. /\ stage' \in [Daemons -> Stages] /\ fd' \in [Daemons -> Daemons \cup {None}]
        /\ flocked' \in [Daemons -> Daemons \cup {None}]
        /\ LockInv' /\ FileInv' /\ SocketInv' /\ OverlapInv'
    BY <1>1, <1>2, <1>3, <2>1, Ended
  <2> QED BY <2>2, <1>1 DEF IInv, TypeOK
<1>4. CASE /\ flocked[fd[d]] = None /\ flocked' = [flocked EXCEPT ![fd[d]] = d]
           /\ stage' = [stage EXCEPT ![d] = "locked"] /\ fd' = fd
  <2>1. /\ stage' \in [Daemons -> Stages] /\ stage'[d] = "locked"
        /\ \A e \in Daemons : e # d => stage'[e] = stage[e]
    BY <1>1, <1>4, Moved DEF Stages
  <2>2. /\ flocked' \in [Daemons -> Daemons \cup {None}] /\ flocked'[fd[d]] = d
        /\ \A i \in Daemons : i # fd[d] => flocked'[i] = flocked[i]
    BY <1>1, <1>2, <1>4 DEF TypeOK
  <2>3. Unlinked' = Unlinked
    BY <1>1, <1>2, <1>4, UnlinkedSame DEF Stages
  <2>4. TypeOK'
    BY <1>1, <1>4, <2>1, <2>2 DEF TypeOK
  <2>5. LockInv'
    <3> SUFFICES ASSUME NEW e \in Daemons
                 PROVE  /\ fd'[e] # None <=> stage'[e] \in Holding \cup {"open"}
                        /\ stage'[e] \in Holding => flocked'[fd'[e]] = e
                        /\ \A i \in Daemons : flocked'[i] = e => stage'[e] \in Holding /\ fd'[e] = i
      BY DEF LockInv
    <3>1. CASE e = d
      <4>1. \A i \in Daemons : flocked[i] # d
        BY <1>1 DEF LockInv, Holding
      <4> QED BY <3>1, <4>1, <1>2, <1>4, <2>1, <2>2 DEF Holding
    <3>2. CASE e # d
      <4>1. stage[e] \in Holding => fd[e] \in Daemons /\ fd[e] # fd[d]
        BY <1>1, <1>4, SMTT(60) DEF LockInv, TypeOK
      <4>2. \A i \in Daemons : flocked'[i] = e => flocked[i] = e
        BY <3>2, <2>2
      <4> QED BY <3>2, <4>1, <4>2, <1>1, <1>4, <2>1, <2>2, SMTT(60) DEF LockInv
    <3> QED BY <3>1, <3>2
  <2>6. FileInv'
    BY <1>1, <1>4, <2>3 DEF FileInv
  <2>7. SocketInv'
    BY <1>1, <2>1, <2>3 DEF SocketInv
  <2>8. OverlapInv'
    <3>1. \A e, f \in Daemons : e # f /\ Alive(e)' /\ Alive(f)' => e \in overlapped'
      BY <1>1, <1>2, <1>4, OverlapSame DEF Stages
    <3>2. \A e \in Daemons : stage'[e] = "bind" /\ e \notin overlapped' => sockPath' = None
      BY <1>1, <2>1 DEF OverlapInv
    <3> QED BY <3>1, <3>2 DEF OverlapInv
  <2> QED BY <2>4, <2>5, <2>6, <2>7, <2>8 DEF IInv
<1> QED BY <1>3, <1>4 DEF Flock
\* From the pid file to the end of cleanup_resources a daemon keeps the lock, or ends.
LEMMA HoldStep ==
    ASSUME None \notin Daemons, IInv, NEW d \in Daemons,
           \/ WritePid(d) \/ InitResources(d) \/ UnlinkSocket(d) \/ Bind(d)
           \/ Run(d) \/ Leave(d) \/ Cleanup(d)
    PROVE  IInv'
<1>1. /\ TypeOK /\ LockInv /\ stage[d] \in Holding /\ stage[d] # "exited" /\ Alive(d)
      /\ UNCHANGED <<pidPath, stop, target, overlapped>>
  BY DEF IInv, WritePid, InitResources, UnlinkSocket, Bind, Run, Leave, Cleanup, At, Holding,
         Alive, Over, pathVars
<1>2. fd[d] \in Daemons
  BY <1>1, SMTT(60) DEF LockInv, TypeOK
<1>3. /\ content' \in [Daemons -> Daemons \cup {None}] /\ sockPath' \in Daemons \cup {None}
      /\ handler' \in [Daemons -> BOOLEAN] /\ running' \in [Daemons -> BOOLEAN]
  <2>1. /\ content' = content \/ content' = [content EXCEPT ![fd[d]] = d]
        /\ sockPath' \in {sockPath, None, d}
        /\ handler' = handler \/ handler' = [handler EXCEPT ![d] = TRUE]
        /\ running' = running \/ running' = [running EXCEPT ![d] = TRUE]
    BY DEF WritePid, InitResources, UnlinkSocket, Bind, Run, Leave, Cleanup, At, pathVars
  <2>2. content' \in [Daemons -> Daemons \cup {None}]
    <3>1. content \in [Daemons -> Daemons \cup {None}]
      BY <1>1 DEF TypeOK
    <3> QED BY <1>2, <2>1, <3>1
  <2>3. sockPath' \in Daemons \cup {None}
    BY <1>1, <2>1 DEF TypeOK
  <2>4. handler' \in [Daemons -> BOOLEAN]
    BY <1>1, <2>1 DEF TypeOK
  <2>5. running' \in [Daemons -> BOOLEAN]
    BY <1>1, <2>1 DEF TypeOK
  <2> QED BY <2>2, <2>3, <2>4, <2>5
<1>4. CASE End(d, "failed") /\ sockPath' = sockPath
  <2>1. Unlinked => Unlinked'
    BY <1>1, <1>4, UnlinkedSame DEF End, Stages
  <2>2. /\ stage' \in [Daemons -> Stages] /\ fd' \in [Daemons -> Daemons \cup {None}]
        /\ flocked' \in [Daemons -> Daemons \cup {None}]
        /\ LockInv' /\ FileInv' /\ SocketInv' /\ OverlapInv'
    BY <1>1, <1>4, <2>1, Ended
  <2> QED BY <2>2, <1>1, <1>3 DEF IInv, TypeOK
<1>5. ASSUME NEW to \in Holding, stage' = [stage EXCEPT ![d] = to], UNCHANGED <<fd, flocked>>,
             to \in {"run", "serve"} => sockPath' = d \/ (stage[d] = "run" /\ sockPath' = sockPath),
             to = "bind" => sockPath' = None
      PROVE  IInv'
  <2>1. LockInv' /\ FileInv' /\ SocketInv' /\ OverlapInv'
    BY <1>1, <1>5, Advance
  <2>2. stage' \in [Daemons -> Stages]
    BY <1>1, <1>5, Moved DEF Holding, Stages
  <2> QED BY <1>1, <1>3, <1>5, <2>1, <2>2 DEF IInv, TypeOK
<1>6. CASE WritePid(d)
  BY <1>5, <1>6 DEF WritePid, At, Holding
<1>7. CASE InitResources(d)
  BY <1>4, <1>5, <1>7 DEF InitResources, At, Holding
<1>8. CASE UnlinkSocket(d)
  BY <1>5, <1>8 DEF UnlinkSocket, At, Holding
<1>9. CASE Bind(d)
  BY <1>4, <1>5, <1>9 DEF Bind, At, Holding
<1>10. CASE Run(d)
  BY <1>5, <1>10 DEF Run, At, Holding, pathVars
<1>11. CASE Leave(d)
  BY <1>5, <1>11 DEF Leave, At, Holding, pathVars
<1>12. CASE Cleanup(d)
  BY <1>5, <1>12 DEF Cleanup, At, Holding
<1> QED BY <1>6, <1>7, <1>8, <1>9, <1>10, <1>11, <1>12

\* remove_pidfile gives the lock back first,
LEMMA UnlockStep ==
    ASSUME None \notin Daemons, IInv, NEW d \in Daemons, Unlock(d)
    PROVE  IInv'
<1>1. /\ TypeOK /\ LockInv /\ FileInv /\ SocketInv /\ OverlapInv
      /\ stage[d] = "unlock" /\ stage' = [stage EXCEPT ![d] = "unlinkPid"] /\ "unlinkPid" \in Stages
      /\ flocked' = [flocked EXCEPT ![fd[d]] = None] /\ fd' = [fd EXCEPT ![d] = None]
      /\ UNCHANGED <<pidPath, content, sockPath, handler, running, stop, target, overlapped>>
  BY DEF IInv, Unlock, At, Stages
<1>2. fd[d] \in Daemons /\ flocked[fd[d]] = d /\ Alive(d) /\ stage[d] # "exited"
  BY <1>1, SMTT(60) DEF LockInv, TypeOK, Alive, Over, Holding
<1>3. /\ stage' \in [Daemons -> Stages] /\ stage'[d] = "unlinkPid"
      /\ \A e \in Daemons : e # d => stage'[e] = stage[e]
  BY <1>1, Moved
<1>4. /\ flocked' \in [Daemons -> Daemons \cup {None}] /\ flocked'[fd[d]] = None
      /\ \A i \in Daemons : i # fd[d] => flocked'[i] = flocked[i]
  BY <1>1, <1>2 DEF TypeOK
<1>5. /\ fd' \in [Daemons -> Daemons \cup {None}] /\ fd'[d] = None
      /\ \A e \in Daemons : e # d => fd'[e] = fd[e]
  BY <1>1 DEF TypeOK
<1>6. Unlinked' = Unlinked
  BY <1>1, <1>2, UnlinkedSame
<1>7. TypeOK'
  BY <1>1, <1>3, <1>4, <1>5 DEF TypeOK
<1>8. LockInv'
  <2> SUFFICES ASSUME NEW e \in Daemons
               PROVE  /\ fd'[e] # None <=> stage'[e] \in Holding \cup {"open"}
                      /\ stage'[e] \in Holding => flocked'[fd'[e]] = e
                      /\ \A i \in Daemons : flocked'[i] = e => stage'[e] \in Holding /\ fd'[e] = i
    BY DEF LockInv
  <2>1. CASE e = d
    <3>1. \A i \in Daemons : flocked'[i] # d
      BY <1>1, <1>2, <1>4, SMTT(60) DEF LockInv
    <3> QED BY <2>1, <3>1, <1>3, <1>5 DEF Holding
  <2>2. CASE e # d
    <3>1. stage[e] \in Holding => fd[e] \in Daemons /\ fd[e] # fd[d]
      BY <2>2, <1>1, <1>2, SMTT(60) DEF LockInv, TypeOK
    <3>2. \A i \in Daemons : flocked'[i] = e => flocked[i] = e
      BY <2>2, <1>4
    <3> QED BY <2>2, <3>1, <3>2, <1>1, <1>3, <1>4, <1>5, SMTT(60) DEF LockInv
  <2> QED BY <2>1, <2>2
<1>9. FileInv' /\ SocketInv'
  BY <1>1, <1>3, <1>5, <1>6 DEF FileInv, SocketInv
<1>10. OverlapInv'
  <2>1. \A e, f \in Daemons : e # f /\ Alive(e)' /\ Alive(f)' => e \in overlapped'
    BY <1>1, <1>2, OverlapSame
  <2>2. \A e \in Daemons : stage'[e] = "bind" /\ e \notin overlapped' => sockPath' = None
    BY <1>1, <1>3 DEF OverlapInv
  <2> QED BY <2>1, <2>2 DEF OverlapInv
<1> QED BY <1>7, <1>8, <1>9, <1>10 DEF IInv

\* and then removes what is at the path.
LEMMA UnlinkPidStep ==
    ASSUME None \notin Daemons, IInv, NEW d \in Daemons, UnlinkPid(d)
    PROVE  IInv'
<1>1. /\ TypeOK /\ LockInv /\ OverlapInv
      /\ stage[d] = "unlinkPid" /\ stage' = [stage EXCEPT ![d] = "exited"] /\ "exited" \in Stages
      /\ pidPath' = None
      /\ UNCHANGED <<content, flocked, sockPath, fd, handler, running, stop, target, overlapped>>
  BY DEF IInv, UnlinkPid, At, Stages
<1>2. /\ stage' \in [Daemons -> Stages] /\ stage'[d] = "exited"
      /\ \A e \in Daemons : e # d => stage'[e] = stage[e]
  BY <1>1, Moved
<1>3. TypeOK'
  BY <1>1, <1>2 DEF TypeOK
<1>4. \A e \in Daemons : /\ stage'[e] \in Holding <=> stage[e] \in Holding
                         /\ stage'[e] = "open" <=> stage[e] = "open"
  BY <1>1, <1>2 DEF Holding
<1>5. LockInv'
  BY <1>1, <1>4 DEF LockInv
<1>6. FileInv' /\ SocketInv'
  BY <1>2 DEF FileInv, SocketInv, Unlinked
<1>7. OverlapInv'
  <2>1. Alive(d)
    BY <1>1 DEF Alive, Over
  <2>2. \A e, f \in Daemons : e # f /\ Alive(e)' /\ Alive(f)' => e \in overlapped'
    BY <1>1, <2>1, OverlapSame
  <2>3. \A e \in Daemons : stage'[e] = "bind" /\ e \notin overlapped' => sockPath' = None
    BY <1>1, <1>2 DEF OverlapInv
  <2> QED BY <2>2, <2>3 DEF OverlapInv
<1> QED BY <1>3, <1>5, <1>6, <1>7 DEF IInv
\* A signal, from the terminal or from a stop command on its way.
LEMMA TermStep ==
    ASSUME None \notin Daemons, IInv, NEW d \in Daemons, Term(d),
           stop' \in [Stops -> {"new", "kill", "unlinkPid", "unlinkSock", "done"}],
           \A s \in Stops : stop[s] \in {"new", "unlinkSock", "done"} => stop'[s] = stop[s],
           UNCHANGED <<pidPath, content, sockPath, target, overlapped>>
    PROVE  IInv'
<1>1. TypeOK /\ LockInv /\ FileInv /\ SocketInv /\ OverlapInv
  BY DEF IInv
<1>2. \A s \in Stops : stop'[s] \in {"new", "done"} \/ target'[s] # None
  BY <1>1 DEF TypeOK
<1>3. CASE UNCHANGED <<stage, fd, flocked>>
  <2>1. handler' \in [Daemons -> BOOLEAN] /\ running' \in [Daemons -> BOOLEAN]
    BY <1>1, <1>3 DEF TypeOK, Term
  <2>2. TypeOK'
    BY <1>1, <1>2, <1>3, <2>1 DEF TypeOK
  <2>3. Unlinked => Unlinked'
    BY <1>3 DEF Unlinked
  <2>4. LockInv' /\ FileInv' /\ SocketInv'
    BY <1>1, <1>3, <2>3 DEF LockInv, FileInv, SocketInv
  <2>5. OverlapInv'
    BY <1>1, <1>3 DEF OverlapInv, Alive
  <2> QED BY <2>2, <2>4, <2>5 DEF IInv
<1>4. CASE Alive(d) /\ End(d, "killed") /\ UNCHANGED <<handler, running>>
  <2>1. Unlinked => Unlinked'
    <3>1. \A e \in Daemons : stage[e] = "exited" => stage'[e] = "exited"
      BY <1>1, <1>4 DEF End, TypeOK, Alive, Over
    <3> QED BY <3>1 DEF Unlinked
  <2>2. /\ stage' \in [Daemons -> Stages] /\ fd' \in [Daemons -> Daemons \cup {None}]
        /\ flocked' \in [Daemons -> Daemons \cup {None}]
        /\ LockInv' /\ FileInv' /\ SocketInv' /\ OverlapInv'
    BY <1>4, <2>1, Ended
  <2> QED BY <2>2, <1>1, <1>2, <1>4 DEF IInv, TypeOK
<1> QED BY <1>3, <1>4 DEF Term

\* stop_daemon_cmd: what it unlinks counts as unlinked.
LEMMA StopStep ==
    ASSUME None \notin Daemons, IInv, NEW s \in Stops, Stop(s)
    PROVE  IInv'
<1>1. TypeOK /\ LockInv /\ FileInv /\ SocketInv /\ OverlapInv
  BY DEF IInv
<1>2. CASE ReadPid(s)
  <2>1. /\ stop[s] = "new" /\ UNCHANGED <<pathVars, stage, fd, handler, running, overlapped>>
        /\ \/ stop' = [stop EXCEPT ![s] = "done"] /\ target' = target
           \/ /\ pidPath # None /\ content[pidPath] # None /\ stop' = [stop EXCEPT ![s] = "kill"]
              /\ target' = [target EXCEPT ![s] = content[pidPath]]
    BY <1>2 DEF ReadPid
  <2>2. TypeOK'
    <3>1. pidPath # None => content[pidPath] \in Daemons \cup {None}
      BY <1>1 DEF TypeOK
    <3>2. /\ stop' \in [Stops -> {"new", "kill", "unlinkPid", "unlinkSock", "done"}]
          /\ target' \in [Stops -> Daemons \cup {None}]
          /\ \A x \in Stops : stop'[x] \in {"new", "done"} \/ target'[x] # None
      BY <1>1, <2>1, <3>1 DEF TypeOK
    <3> QED BY <1>1, <2>1, <3>2 DEF TypeOK, pathVars
  <2>3. Unlinked => Unlinked'
    <3>1. \A x \in Stops : x # s => stop'[x] = stop[x] /\ target'[x] = target[x]
      BY <1>1, <2>1 DEF TypeOK
    <3> QED BY <2>1, <3>1 DEF Unlinked
  <2>4. LockInv' /\ FileInv' /\ SocketInv'
    BY <1>1, <2>1, <2>3 DEF LockInv, FileInv, SocketInv, pathVars
  <2>5. OverlapInv'
    BY <1>1, <2>1 DEF OverlapInv, Alive, pathVars
  <2> QED BY <2>2, <2>4, <2>5 DEF IInv
<1>3. CASE Kill(s)
  <2>1. target[s] \in Daemons
    BY <1>1, <1>3 DEF Kill, TypeOK
  <2>2. /\ stop' \in [Stops -> {"new", "kill", "unlinkPid", "unlinkSock", "done"}]
        /\ \A x \in Stops : stop[x] \in {"new", "unlinkSock", "done"} => stop'[x] = stop[x]
    BY <1>1, <1>3 DEF Kill, TypeOK
  <2> QED BY <1>3, <2>1, <2>2, TermStep DEF Kill
<1>4. CASE StopUnlinkPid(s) \/ StopUnlinkSocket(s)
  <2>1. /\ pidPath' \in Daemons \cup {None} /\ sockPath' \in {sockPath, None}
        /\ stop[s] \in {"unlinkPid", "unlinkSock"}
        /\ stop' = [stop EXCEPT ![s] = "unlinkSock"] \/ stop' = [stop EXCEPT ![s] = "done"]
        /\ UNCHANGED <<content, flocked, stage, fd, handler, running, target, overlapped>>
    BY <1>1, <1>4 DEF StopUnlinkPid, StopUnlinkSocket, TypeOK
  <2>2. /\ stop' \in [Stops -> {"new", "kill", "unlinkPid", "unlinkSock", "done"}]
        /\ stop'[s] \in {"unlinkSock", "done"} /\ target[s] # None
        /\ \A x \in Stops : x # s => stop'[x] = stop[x]
    BY <1>1, <2>1 DEF TypeOK
  <2>3. TypeOK'
    BY <1>1, <2>1, <2>2 DEF TypeOK
  <2>4. Unlinked'
    BY <2>1, <2>2 DEF Unlinked
  <2>5. LockInv'
    BY <1>1, <2>1 DEF LockInv
  <2>6. OverlapInv'
    BY <1>1, <2>1 DEF OverlapInv, Alive
  <2> QED BY <2>3, <2>4, <2>5, <2>6 DEF IInv, FileInv, SocketInv
<1> QED BY <1>2, <1>3, <1>4 DEF Stop

LEMMA NextIInv == ASSUME None \notin Daemons, IInv, [Next]_vars PROVE IInv'
<1>1. ASSUME NEW d \in Daemons, Daemon(d) PROVE IInv'
  BY <1>1, OpenStep, FlockStep, HoldStep, UnlockStep, UnlinkPidStep DEF Daemon
<1>2. ASSUME NEW d \in Daemons, Interrupt(d) PROVE IInv'
  <2>1. stop' = stop /\ stop \in [Stops -> {"new", "kill", "unlinkPid", "unlinkSock", "done"}]
    BY <1>2 DEF Interrupt, IInv, TypeOK
  <2> QED BY <1>2, <2>1, TermStep DEF Interrupt
<1>3. ASSUME NEW s \in Stops, Stop(s) PROVE IInv'
  BY <1>3, StopStep
<1>4. CASE UNCHANGED vars
  <2>1. UNCHANGED <<pidPath, content, flocked, sockPath, stage, fd, handler, running, stop, target,
                    overlapped>>
    BY <1>4 DEF vars, pathVars
  <2>2. TypeOK' /\ LockInv' /\ FileInv' /\ SocketInv'
    BY <2>1 DEF IInv, TypeOK, LockInv, FileInv, SocketInv, Unlinked
  <2>3. OverlapInv'
    BY <2>1 DEF IInv, OverlapInv, Alive
  <2> QED BY <2>2, <2>3 DEF IInv
<1> QED BY <1>1, <1>2, <1>3, <1>4 DEF Next

\* But for being killed a daemon changes its stage only by a step of its own.
LEMMA OwnStep ==
    ASSUME TypeOK, Next, NEW d \in Daemons, stage'[d] # stage[d], stage'[d] # "killed"
    PROVE  Daemon(d)
<1>1. ASSUME NEW e \in Daemons, Daemon(e) PROVE e = d
  <2>1. \E to \in Stages : stage' = [stage EXCEPT ![e] = to]
    BY <1>1 DEF Daemon, Open, Flock, WritePid, InitResources, UnlinkSocket, Bind, Run, Leave, Cleanup,
                Unlock, UnlinkPid, At, End, Stages
  <2> QED BY <2>1 DEF TypeOK
<1>2. ASSUME NEW e \in Daemons \cup {None}, Term(e) PROVE FALSE
  <2>1. stage' = stage \/ stage' = [stage EXCEPT ![e] = "killed"]
    BY <1>2 DEF Term, End
  <2> QED BY <2>1 DEF TypeOK
<1>3. ASSUME NEW s \in Stops, Stop(s) PROVE FALSE
  <2>1. stage' = stage \/ Term(target[s])
    BY <1>3 DEF Stop, ReadPid, Kill, StopUnlinkPid, StopUnlinkSocket
  <2> QED BY <2>1, <1>2 DEF TypeOK
<1> QED BY <1>1, <1>2, <1>3 DEF Next, Interrupt

-----------------------------------------------------------------------------
(* The theorems                                                            *)

LEMMA IInvIsEnough == ASSUME None \notin Daemons, IInv PROVE LockGuardsDaemon
<1>1. TypeOK /\ LockInv /\ FileInv /\ SocketInv
  BY DEF IInv
<1>2. LocksAreLive
  <2> SUFFICES ASSUME NEW i \in Daemons, flocked[i] # None
               PROVE  Alive(flocked[i]) /\ fd[flocked[i]] = i
    BY DEF LocksAreLive
  <2>1. flocked[i] \in Daemons
    BY <1>1 DEF TypeOK
  <2>2. stage[flocked[i]] \in Holding /\ fd[flocked[i]] = i
    BY <1>1, <2>1 DEF LockInv
  <2> QED BY <2>2 DEF Holding, Alive, Over
<1>3. Unlinked => PidFileRemoved
  BY DEF Unlinked, PidFileRemoved
<1>4. \A d \in Daemons : Started(d) => stage[d] \in Holding
  BY DEF Started, Holding
<1>5. ASSUME ~Unlinked PROVE \A d, e \in Daemons : Started(d) /\ Started(e) => d = e
  BY <1>1, <1>4, <1>5, OneHolds
<1>6. ASSUME ~Unlinked
      PROVE  \A d \in Daemons : stage[d] = "serve" /\ running[d] /\ handler[d] => sockPath = d
  BY <1>1, <1>6 DEF SocketInv
<1> QED BY <1>1, <1>2, <1>3, <1>5, <1>6 DEF LockGuardsDaemon, OneDaemon

\* For any number of daemons and stop commands, killed, failing or stopped at any point: a
\* lock on the pid file belongs to a live daemon, and until the file is removed at most one
\* daemon has got past create_pidfile, and clients reach it (LockGuardsDaemon).
THEOREM LockKeepsDaemonsApart ==
    ASSUME None \notin Daemons PROVE Spec => []LockGuardsDaemon
<1>1. Init => IInv
  BY InitIInv
<1>2. IInv /\ [Next]_vars => IInv'
  BY NextIInv
<1>3. IInv => LockGuardsDaemon
  BY IInvIsEnough
<1> QED BY <1>1, <1>2, <1>3, PTL DEF Spec

\* "Daemon already running" is said only while another daemon is alive, and a daemon that
\* was alive together with no other gets its socket (RefusalIsRight, RestartWorks): what
\* killed, failed and stopped daemons leave at the two paths stops nobody.
THEOREM NothingLeftStopsADaemon ==
    ASSUME None \notin Daemons PROVE Spec => [][RefusalIsRight /\ RestartWorks]_vars
<1>1. Init => IInv
  BY InitIInv
<1>2. IInv /\ [Next]_vars => IInv'
  BY NextIInv
<1>3. IInv /\ [Next]_vars => [RefusalIsRight /\ RestartWorks]_vars
  <2> SUFFICES ASSUME IInv, Next PROVE RefusalIsRight /\ RestartWorks
    OBVIOUS
  <2>1. TypeOK /\ LockInv /\ OverlapInv
    BY DEF IInv
  <2>2. ASSUME NEW d \in Daemons, stage[d] = "open", stage'[d] = "refused"
        PROVE  flocked[fd[d]] # None
    <3>1. Flock(d)
      BY <2>1, <2>2, OwnStep DEF Daemon, Open, WritePid, InitResources, UnlinkSocket, Bind, Run, Leave,
                                 Cleanup, Unlock, UnlinkPid, At
    <3> QED BY <2>1, <2>2, <3>1 DEF Flock, TypeOK
  <2>3. ASSUME NEW d \in Daemons, stage[d] = "bind", stage'[d] = "failed"
        PROVE  sockPath # None
    <3>1. Bind(d)
      BY <2>1, <2>3, OwnStep DEF Daemon, Open, Flock, WritePid, InitResources, UnlinkSocket, Run, Leave,
                                 Cleanup, Unlock, UnlinkPid, At
    <3> QED BY <2>1, <2>3, <3>1 DEF Bind, At, TypeOK
  <2>4. RefusalIsRight
    <3> SUFFICES ASSUME NEW d \in Daemons, stage[d] = "open", stage'[d] = "refused"
                 PROVE  \E e \in Daemons \ {d} : Alive(e)
      BY DEF RefusalIsRight
    <3>1. fd[d] \in Daemons
      BY <2>1, SMTT(60) DEF LockInv, TypeOK
    <3>2. flocked[fd[d]] \in Daemons
      BY <2>1, <2>2, <3>1 DEF TypeOK
    <3>3. stage[flocked[fd[d]]] \in Holding
      BY <2>1, <3>1, <3>2 DEF LockInv
    <3> QED BY <3>2, <3>3 DEF Holding, Alive, Over
  <2>5. RestartWorks
    BY <2>1, <2>3 DEF OverlapInv, RestartWorks
  <2> QED BY <2>4, <2>5
<1> QED BY <1>1, <1>2, <1>3, PTL DEF Spec
=============================================================================
