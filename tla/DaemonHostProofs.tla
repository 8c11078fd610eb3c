--------------------------- MODULE DaemonHostProofs ---------------------------
(***************************************************************************)
(* Proofs about the daemon as a process: one daemon serves and the spawn   *)
(* lock excludes, for any number of daemons, clients, takeovers and kills, *)
(* whatever the versions are and whoever compares them.                    *)
(***************************************************************************)
EXTENDS DaemonHost, TLAPS

\* A daemon has the WSS port from ListenWss to CloseListener.
PortHeld ==
    \A d \in Daemons : stage[d] \in {"clear", "bind", "serving", "closing"} => port = d

\* A daemon that got as far as acquirePidfile's loop body has an attempt left.
TakeoversLeft ==
    \A d \in Daemons :
        stage[d] \in {"write", "conflict", "takeover"} => takeovers[d] < MaxTakeovers

\* While nobody died with it, whoever is between taking and removing the spawn lock
\* created the file that is there, and nobody is about to reclaim it.
SomeoneCrashed == \E c \in Clients : pc[c] = "crashed"
LockHeld ==
    SomeoneCrashed
    \/ \A c \in Clients : pc[c] # "reclaim" /\ (pc[c] \in Critical => lock = c)

\* LockExcludes says nothing of the file, and OneServer nothing of a daemon that is about
\* to serve: the file's creator and the port's owner make them inductive.
IInv == TypeOK /\ PortHeld /\ TakeoversLeft /\ LockHeld
-----------------------------------------------------------------------------
(***************************************************************************)
(* Pieces of the actions.                                                  *)
(***************************************************************************)

\* Moving one daemon on keeps the stages' type.
LEMMA ToTyped ==
    ASSUME TypeOK, NEW d, NEW s \in Stages, To(d, s)
    PROVE  stage' \in [Daemons -> Stages]
  BY DEF TypeOK, To

\* Moving one client on keeps the type of the clients' steps.
LEMMA GoTyped ==
    ASSUME TypeOK, NEW c, NEW p \in PCs, Go(c, p)
    PROVE  pc' \in [Clients -> PCs]
  BY DEF TypeOK, Go

\* shutdown() moves a daemon that serves to closing, where it still has its port, and
\* drops its sessions; of another it changes nothing.
LEMMA ShutDownKeeps ==
    ASSUME IInv, NEW d \in Daemons, ShutDown(d), UNCHANGED <<port, takeovers>>
    PROVE  /\ stage' \in [Daemons -> Stages] /\ live' \in [Daemons -> BOOLEAN]
           /\ \A e \in Daemons : live'[e] => stage'[e] = "serving"
           /\ PortHeld' /\ TakeoversLeft'
<1>1. \A e \in Daemons : stage'[e] # stage[e] => stage[e] = "serving" /\ stage'[e] = "closing"
  BY DEF IInv, TypeOK, ShutDown
<1>2. stage' \in [Daemons -> Stages] /\ live' \in [Daemons -> BOOLEAN]
  BY DEF IInv, TypeOK, ShutDown, Stages, Closing
<1>3. \A e \in Daemons : live'[e] => stage'[e] = "serving"
  BY DEF IInv, TypeOK, ShutDown
<1>4. PortHeld'
  BY <1>1 DEF IInv, PortHeld
<1>5. TakeoversLeft'
  BY <1>1 DEF IInv, TakeoversLeft
<1> QED  BY <1>2, <1>3, <1>4, <1>5

\* A daemon's step does not concern the spawn lock.
LEMMA LockAside ==
    ASSUME IInv, UNCHANGED <<lock, pc>>
    PROVE  LockHeld'
  BY DEF IInv, LockHeld, SomeoneCrashed

\* Nobody comes back from the dead: a client that has crashed takes no step, so that a
\* step of c keeps LockHeld if it does where nobody has crashed.
LEMMA LockUnlessCrashed ==
    ASSUME TypeOK, NEW c \in Clients, NEW p, Go(c, p), pc[c] # "crashed",
           ~SomeoneCrashed => LockHeld'
    PROVE  LockHeld'
  BY DEF TypeOK, Go, SomeoneCrashed, LockHeld

\* A step of c that leaves the lock alone and takes c neither into the critical section
\* nor to reclaiming keeps LockHeld.
LEMMA LockOutside ==
    ASSUME IInv, NEW c \in Clients, NEW p, Go(c, p), UNCHANGED lock,
           pc[c] # "crashed", p # "reclaim", p \in Critical => pc[c] \in Critical
    PROVE  LockHeld'
<1>1. ASSUME ~SomeoneCrashed PROVE LockHeld'
  BY <1>1 DEF IInv, TypeOK, Go, SomeoneCrashed, LockHeld
<1> QED  BY <1>1, LockUnlessCrashed DEF IInv
-----------------------------------------------------------------------------
(***************************************************************************)
(* The inductive invariant.                                                *)
(***************************************************************************)

\* Before the first command: an older daemon has the port if it serves.
LEMMA InitIInv == Init => IInv
<1> SUFFICES ASSUME Init PROVE IInv
  OBVIOUS
<1> USE HostSentinels
<1>1. PICK was \in {"unborn", "serving", "killed"} :
        /\ stage = [d \in Daemons |-> IF d = Veteran THEN was ELSE "unborn"]
        /\ version = [d \in Daemons |-> IF d = Veteran /\ was # "unborn" THEN 1 ELSE 0]
        /\ pidfile = IF was = "unborn" THEN NoFile ELSE [owner |-> Veteran, written |-> TRUE]
        /\ port = IF was = "serving" THEN Veteran ELSE NoDaemon
  BY DEF Init
<1>2. pidfile \in Pidfiles /\ sock \in Daemons \union {NoDaemon}
  BY <1>1 DEF Init, Pidfiles, NoFile
<1>3. stage \in [Daemons -> Stages] /\ version \in [Daemons -> Nat]
  BY <1>1 DEF Stages
<1>4. /\ pc \in [Clients -> PCs] /\ goal \in [Clients -> Goals]
      /\ takeovers \in [Daemons -> 0..MaxTakeovers] /\ kills \in 0..MaxKills
  BY DEF Init, PCs, Goals
<1>5. TypeOK
  BY <1>1, <1>2, <1>3, <1>4 DEF Init, TypeOK
<1>6. PortHeld /\ TakeoversLeft
  BY <1>1 DEF PortHeld, TakeoversLeft
<1>7. LockHeld
  BY DEF Init, LockHeld, Critical
<1> QED  BY <1>5, <1>6, <1>7 DEF IInv

\* Starting: acquirePidfile with its takeovers, the listener, the RPC server, and what a
\* start that fails undoes (daemon/daemon.ts startDaemon).
LEMMA StartIInv ==
    ASSUME IInv, NEW d \in Daemons, Start(d)
    PROVE  IInv'
<1> USE HostSentinels DEF IInv, TypeOK, PortHeld, TakeoversLeft
<1>1. LockHeld'
  <2>1. UNCHANGED <<lock, pc>>
    BY DEF Start, CreatePidfile, PidfileContended, WritePidfile, JudgePidfile, RemoveStalePidfile,
           RemoveStaleSocket, ListenWss, ClearSocketPath, BindSocket, FailListener, FailRelease,
           files, clientVars
  <2> QED  BY <2>1, LockAside
<1>2. CASE CreatePidfile(d)
  <2>1. pidfile' \in Pidfiles
    <3>1. pidfile' = pidfile \/ pidfile' = [owner |-> d, written |-> FALSE]
      BY <1>2 DEF CreatePidfile
    <3>2. [owner |-> d, written |-> FALSE] \in Pidfiles
      BY DEF Pidfiles
    <3> QED  BY <3>1, <3>2
  <2>2. PICK s \in {"write", "conflict"} : To(d, s)
    BY <1>2 DEF CreatePidfile
  <2> QED  BY <1>1, <1>2, <2>1, <2>2 DEF CreatePidfile, To, Stages, Starting, clientVars
<1>3. CASE PidfileContended(d)
  BY <1>1, <1>3 DEF PidfileContended, To, Stages, files, clientVars
<1>4. CASE WritePidfile(d)
  BY <1>1, <1>4 DEF WritePidfile, To, NoFile, Pidfiles, Stages, Starting, clientVars
<1>5. CASE JudgePidfile(d)
  BY <1>1, <1>5 DEF JudgePidfile, To, Stages, Starting, files, clientVars
<1>6. CASE RemoveStalePidfile(d)
  BY <1>1, <1>6 DEF RemoveStalePidfile, To, NoFile, Pidfiles, Stages, Starting, clientVars
<1>7. CASE RemoveStaleSocket(d)
  BY <1>1, <1>7 DEF RemoveStaleSocket, To, Stages, Starting, clientVars
<1>8. CASE ListenWss(d)
  BY <1>1, <1>8 DEF ListenWss, To, Stages, Starting, Failing, clientVars
<1>9. CASE ClearSocketPath(d)
  BY <1>1, <1>9 DEF ClearSocketPath, To, Stages, Starting, clientVars
<1>10. CASE BindSocket(d)
  BY <1>1, <1>10 DEF BindSocket, To, Stages, Failing, clientVars
<1>11. CASE FailListener(d)
  BY <1>1, <1>11 DEF FailListener, To, Stages, Failing, clientVars
<1>12. CASE FailRelease(d)
  BY <1>1, <1>12 DEF FailRelease, To, NoFile, Pidfiles, Stages, clientVars
<1> QED  BY <1>2, <1>3, <1>4, <1>5, <1>6, <1>7, <1>8, <1>9, <1>10, <1>11, <1>12 DEF Start

\* Shutting down, in the order of shutdown(), sessions that come and go, and being killed.
LEMMA RestOfLifeIInv ==
    ASSUME IInv, NEW d \in Daemons, TearDown(d) \/ ChangeLive(d) \/ KillDaemon(d)
    PROVE  IInv'
<1> USE HostSentinels DEF IInv, TypeOK, PortHeld, TakeoversLeft
<1>1. LockHeld'
  <2>1. UNCHANGED <<lock, pc>>
    BY DEF TearDown, CloseListener, CloseRpcServer, ReleasePidfile, RemoveSocket, ChangeLive,
           KillDaemon, files, clientVars
  <2> QED  BY <2>1, LockAside
<1>2. CASE CloseListener(d)
  BY <1>1, <1>2 DEF CloseListener, To, Stages, Closing, clientVars
<1>3. CASE CloseRpcServer(d)
  BY <1>1, <1>3 DEF CloseRpcServer, To, Stages, Closing, clientVars
<1>4. CASE ReleasePidfile(d)
  BY <1>1, <1>4 DEF ReleasePidfile, To, NoFile, Pidfiles, Stages, Closing, clientVars
<1>5. CASE RemoveSocket(d)
  BY <1>1, <1>5 DEF RemoveSocket, To, Stages, clientVars
<1>6. CASE ChangeLive(d)
  BY <1>1, <1>6 DEF ChangeLive, files, clientVars
<1>7. CASE KillDaemon(d)
  BY <1>1, <1>7 DEF KillDaemon, MayKill, To, Stages, clientVars
<1> QED  BY <1>2, <1>3, <1>4, <1>5, <1>6, <1>7 DEF TearDown

\* `appduct daemon stop`, by RPC or by signal.
LEMMA StopIInv ==
    ASSUME IInv, StopByRpc \/ StopBySignal
    PROVE  IInv'
<1>1. LockHeld'
  <2>1. UNCHANGED <<lock, pc>>
    BY DEF StopByRpc, StopBySignal, files, clientVars
  <2> QED  BY <2>1, LockAside
<1>2. CASE StopByRpc
  <2>1. PICK d \in Daemons : ShutDown(d)
    BY <1>2 DEF StopByRpc
  <2> QED  BY <1>1, <1>2, <2>1, ShutDownKeeps DEF StopByRpc, IInv, TypeOK, files, clientVars
<1>3. CASE StopBySignal
  <2>1. PidInFile \in Daemons
    BY <1>3 DEF StopBySignal, Alive
  <2>2. CASE stage[PidInFile] \in Starting \union Failing
    <3>1. /\ To(PidInFile, "killed") /\ port' = IF port = PidInFile THEN NoDaemon ELSE port
          /\ UNCHANGED <<pidfile, sock, lock, live, takeovers, version, clientVars, kills>>
      BY <1>3, <2>2 DEF StopBySignal
    <3>2. stage[PidInFile] # "serving"
      BY <2>2 DEF Starting, Failing
    <3>3. TypeOK'
      BY <2>1, <3>1, <3>2 DEF IInv, TypeOK, To, Stages, clientVars
    <3>4. PortHeld' /\ TakeoversLeft'
      BY <2>1, <3>1, HostSentinels DEF IInv, TypeOK, To, PortHeld, TakeoversLeft
    <3> QED  BY <1>1, <3>3, <3>4 DEF IInv
  <2>3. CASE stage[PidInFile] \notin Starting \union Failing
    <3>1. /\ ShutDown(PidInFile)
          /\ UNCHANGED <<pidfile, sock, port, lock, takeovers, version, clientVars, kills>>
      BY <1>3, <2>3 DEF StopBySignal
    <3> QED  BY <1>1, <2>1, <3>1, ShutDownKeeps DEF IInv, TypeOK, clientVars
  <2> QED  BY <2>2, <2>3
<1> QED  BY <1>2, <1>3

\* What a read of daemon.status comes to is one of the steps that its caller allows for.
LEMMA StatusReadGoes ==
    ASSUME NEW c, NEW judged, NEW nobody, StatusRead(c, judged, nobody)
    PROVE  \E p \in {judged[d] : d \in Daemons} \union {nobody}
                    \union {IF pc[c] \in Critical THEN "abort" ELSE "failed"} : Go(c, p)
  BY DEF StatusRead

\* A client's step that leaves daemons and files alone keeps what concerns only them.
LEMMA HostAside ==
    ASSUME IInv, UNCHANGED <<pidfile, port, stage, takeovers, version, live>>
    PROVE  /\ pidfile' \in Pidfiles /\ port' \in Daemons \union {NoDaemon}
           /\ stage' \in [Daemons -> Stages] /\ takeovers' \in [Daemons -> 0..MaxTakeovers]
           /\ version' \in [Daemons -> Nat] /\ live' \in [Daemons -> BOOLEAN]
           /\ \A d \in Daemons : live'[d] => stage'[d] = "serving"
           /\ PortHeld' /\ TakeoversLeft'
  BY DEF IInv, TypeOK, PortHeld, TakeoversLeft

\* A step outside the critical section, or one that stays in it, which changes nothing
\* but the client's own notes.
LEMMA ClientAside ==
    ASSUME IInv, NEW c \in Clients, NEW p \in PCs, Go(c, p),
           UNCHANGED <<files, daemonVars, kills>>,
           goal' \in [Clients -> Goals], retried' \in [Clients -> BOOLEAN],
           pidBefore' \in [Clients -> Daemons \union {NoDaemon}],
           timedOut' \in [Clients -> BOOLEAN],
           pc[c] # "crashed", p # "reclaim", p \in Critical => pc[c] \in Critical
    PROVE  IInv'
<1>1. pc' \in [Clients -> PCs]
  BY GoTyped DEF IInv
<1>2. LockHeld'
  BY LockOutside DEF files
<1> QED  BY <1>1, <1>2, HostAside DEF IInv, TypeOK, files, daemonVars

\* A step that reads daemon.status, and that notes what it waits for if it has to spawn.
LEMMA ReadersIInv ==
    ASSUME IInv, NEW c \in Clients,
           ReadStatus(c) \/ Recheck(c) \/ VerifyReplacement(c) \/ SendRequest(c)
    PROVE  IInv'
<1> USE DEF IInv, TypeOK
<1>1. CASE ReadStatus(c)
  <2>1. PICK p \in {"request", "pid", "failed", "lock"} : Go(c, p)
    BY <1>1, StatusReadGoes DEF ReadStatus, JudgeVersion, Critical
  <2>2. goal' \in [Clients -> Goals] /\ retried' \in [Clients -> BOOLEAN]
    BY <1>1 DEF ReadStatus, TakeLockFor, Goals
  <2> QED  BY <1>1, <2>1, <2>2, ClientAside DEF ReadStatus, PCs, Stopped, Critical
<1>2. CASE Recheck(c)
  <2>1. PICK p \in {"unlock", "shutdown", "abort", "read"} : Go(c, p)
    BY <1>2, StatusReadGoes DEF Recheck, JudgeAgain, Critical
  <2> QED  BY <1>2, <2>1, ClientAside DEF Recheck, PCs, Critical
<1>3. CASE VerifyReplacement(c)
  <2>1. PICK p \in {"request", "failed"} : Go(c, p)
    BY <1>3, StatusReadGoes DEF VerifyReplacement, Critical
  <2> QED  BY <1>3, <2>1, ClientAside DEF VerifyReplacement, PCs, Stopped, Critical
<1>4. CASE SendRequest(c)
  <2>1. PICK p \in {"done", "lock", "failed"} : Go(c, p)
    BY <1>4, StatusReadGoes DEF SendRequest, Critical
  <2>2. goal' \in [Clients -> Goals] /\ retried' \in [Clients -> BOOLEAN]
    BY <1>4 DEF SendRequest, TakeLockFor, Goals
  <2> QED  BY <1>4, <2>1, <2>2, ClientAside DEF SendRequest, PCs, Stopped, Critical
<1> QED  BY <1>1, <1>2, <1>3, <1>4

\* Taking the spawn lock, looking how old it is and reclaiming it, and removing it
\* (rpc/client.ts acquireSpawnLock).
LEMMA LockersIInv ==
    ASSUME IInv, NEW c \in Clients,
           CreateLock(c) \/ StatLock(c) \/ ReclaimLock(c) \/ Unlock(c)
    PROVE  IInv'
<1> USE HostSentinels DEF IInv, TypeOK
<1>1. CASE CreateLock(c)
  <2>1. PICK p \in {"recheck", "read", "stat"} :
          Go(c, p) /\ (p # "stat" => lock = NoClient /\ lock' = c) /\ (p = "stat" => UNCHANGED lock)
    BY <1>1 DEF CreateLock
  <2>2. pc' \in [Clients -> PCs]
    BY <2>1, GoTyped DEF PCs, Critical
  <2>3. LockHeld'
    <3>1. CASE p = "stat"
      BY <1>1, <2>1, <3>1, LockOutside DEF CreateLock, Critical
    <3>2. CASE p # "stat"
      <4>1. ~SomeoneCrashed => LockHeld'
        BY <2>1, <3>2 DEF LockHeld, SomeoneCrashed, Go
      <4> QED  BY <1>1, <2>1, <4>1, LockUnlessCrashed DEF CreateLock
    <3> QED  BY <3>1, <3>2
  <2>4. lock' \in Clients \union {NoClient}
    BY <2>1
  <2> QED  BY <1>1, <2>2, <2>3, <2>4, HostAside DEF CreateLock, daemonVars
<1>2. CASE StatLock(c)
  <2>1. PICK p \in {"await", "poll", "lock", "reclaim"} :
          Go(c, p) /\ (p = "reclaim" => Abandoned)
    BY <1>2 DEF StatLock, Beaten
  <2>2. retried' \in [Clients -> BOOLEAN]
    BY <1>2 DEF StatLock
  <2>3. pc' \in [Clients -> PCs]
    BY <2>1, GoTyped DEF PCs
  <2>4. LockHeld'
    <3>1. CASE p = "reclaim"
      <4>1. SomeoneCrashed
        BY <2>1, <3>1 DEF Abandoned, SomeoneCrashed
      <4> QED  BY <1>2, <2>1, <4>1, LockUnlessCrashed DEF StatLock
    <3>2. CASE p # "reclaim"
      BY <1>2, <2>1, <3>2, LockOutside DEF StatLock, files, Critical
    <3> QED  BY <3>1, <3>2
  <2> QED  BY <1>2, <2>2, <2>3, <2>4, HostAside DEF StatLock, files, daemonVars
<1>3. CASE ReclaimLock(c)
  <2>1. PICK p \in {"await", "poll", "lock"} : Go(c, p)
    BY <1>3 DEF ReclaimLock, Beaten
  <2>2. retried' \in [Clients -> BOOLEAN]
    BY <1>3 DEF ReclaimLock
  <2>3. pc' \in [Clients -> PCs]
    BY <2>1, GoTyped DEF PCs
  <2>4. SomeoneCrashed
    BY <1>3 DEF ReclaimLock, LockHeld
  <2>5. LockHeld'
    BY <1>3, <2>1, <2>4, LockUnlessCrashed DEF ReclaimLock
  <2> QED  BY <1>3, <2>2, <2>3, <2>5, HostAside DEF ReclaimLock, daemonVars
<1>4. CASE Unlock(c)
  <2>1. PICK p \in {"poll", "failed"} : Go(c, p)
    BY <1>4 DEF Unlock
  <2>2. pc' \in [Clients -> PCs]
    BY <2>1, GoTyped DEF PCs, Stopped
  <2>3. ~SomeoneCrashed => LockHeld'
    BY <1>4, <2>1 DEF Unlock, LockHeld, SomeoneCrashed, Go, Critical
  <2>4. LockHeld'
    BY <1>4, <2>1, <2>3, LockUnlessCrashed DEF Unlock
  <2> QED  BY <1>4, <2>2, <2>4, HostAside DEF Unlock, daemonVars
<1> QED  BY <1>1, <1>2, <1>3, <1>4

\* What a client does to daemons and files between: stopping the daemon it has outgrown,
\* removing a socket that looks stale, spawning.
LEMMA ReplacersIInv ==
    ASSUME IInv, NEW c \in Clients, SendShutdown(c) \/ UnlinkStaleSocket(c) \/ Spawn(c)
    PROVE  IInv'
<1> USE DEF IInv, TypeOK
<1>1. CASE SendShutdown(c)
  <2>1. PICK p \in {"gone", "abort"} : Go(c, p)
    BY <1>1 DEF SendShutdown
  <2>2. pc' \in [Clients -> PCs]
    BY <2>1, GoTyped DEF PCs, Critical
  <2>3. LockHeld'
    BY <1>1, <2>1, LockOutside DEF SendShutdown, files, Critical
  <2>4. CASE \E d \in Daemons : ShutDown(d)
    BY <1>1, <2>2, <2>3, <2>4, ShutDownKeeps DEF SendShutdown, files
  <2>5. CASE UNCHANGED <<stage, live>>
    BY <1>1, <2>2, <2>3, <2>5, HostAside DEF SendShutdown, files
  <2> QED  BY <1>1, <2>4, <2>5 DEF SendShutdown
<1>2. CASE UnlinkStaleSocket(c)
  <2>1. pc' \in [Clients -> PCs]
    BY <1>2, GoTyped DEF UnlinkStaleSocket, PCs, Critical
  <2>2. LockHeld'
    BY <1>2, LockOutside DEF UnlinkStaleSocket, Critical
  <2> QED  BY <1>2, <2>1, <2>2, HostAside DEF UnlinkStaleSocket, daemonVars
<1>3. CASE Spawn(c)
  <2>1. pc' \in [Clients -> PCs]
    BY <1>3, GoTyped DEF Spawn, PCs, Critical
  <2>2. LockHeld'
    BY <1>3, LockOutside DEF Spawn, files, Critical
  <2>3. CASE UNCHANGED <<stage, version>>
    BY <1>3, <2>1, <2>2, <2>3, HostAside DEF Spawn, files
  <2>4. ASSUME NEW d \in Daemons, stage[d] = "unborn", To(d, "start"),
               version' = [version EXCEPT ![d] = ClientVersion[c]]
        PROVE  IInv'
    <3>1. stage' \in [Daemons -> Stages] /\ version' \in [Daemons -> Nat]
      BY <2>4, ToTyped, HostSentinels DEF Stages, Starting
    <3>2. \A e \in Daemons : live[e] => stage'[e] = "serving"
      BY <2>4 DEF To
    <3>3. PortHeld' /\ TakeoversLeft'
      BY <1>3, <2>4 DEF Spawn, To, PortHeld, TakeoversLeft, files
    <3> QED  BY <1>3, <2>1, <2>2, <3>1, <3>2, <3>3 DEF Spawn, files
  <2> QED  BY <1>3, <2>3, <2>4 DEF Spawn
<1> QED  BY <1>1, <1>2, <1>3

\* A client begins, waits, looks at files or dies.
LEMMA OthersIInv ==
    ASSUME IInv, NEW c \in Clients,
           \/ Begin(c) \/ NotePid(c) \/ AwaitLock(c) \/ AwaitGone(c) \/ ReadPidfile(c)
           \/ PollSocket(c) \/ JudgeWait(c) \/ CrashClient(c)
    PROVE  IInv'
<1> USE DEF IInv, TypeOK
<1>1. CASE Begin(c)
  BY <1>1, ClientAside DEF Begin, PCs, Critical
<1>2. CASE NotePid(c)
  <2>1. PidInFile \in Daemons \union {NoDaemon}
    BY DEF PidInFile, Pidfiles, NoFile
  <2>2. /\ goal' \in [Clients -> Goals] /\ retried' \in [Clients -> BOOLEAN]
        /\ pidBefore' \in [Clients -> Daemons \union {NoDaemon}]
    BY <1>2, <2>1 DEF NotePid, TakeLockFor, Goals
  <2> QED  BY <1>2, <2>2, ClientAside DEF NotePid, PCs, Critical
<1>3. CASE AwaitLock(c)
  <2>1. timedOut' \in [Clients -> BOOLEAN]
    BY <1>3 DEF AwaitLock
  <2> QED  BY <1>3, <2>1, ClientAside DEF AwaitLock, PCs, Critical
<1>4. CASE AwaitGone(c)
  BY <1>4, ClientAside DEF AwaitGone, PCs, Critical
<1>5. CASE ReadPidfile(c)
  BY <1>5, ClientAside DEF ReadPidfile, PCs, Critical
<1>6. CASE PollSocket(c)
  <2>1. goal[c] \in Goals
    OBVIOUS
  <2>2. PICK p \in {"failed"} \union Goals : Go(c, p)
    BY <1>6, <2>1 DEF PollSocket
  <2> QED  BY <1>6, <2>2, ClientAside DEF PollSocket, PCs, Goals, Stopped, Critical
<1>7. CASE JudgeWait(c)
  BY <1>7, ClientAside DEF JudgeWait, PCs, Stopped, Critical
<1>8. CASE CrashClient(c)
  <2>1. pc' \in [Clients -> PCs]
    BY <1>8, GoTyped DEF CrashClient, PCs, Stopped
  <2>2. kills' \in 0..MaxKills
    BY <1>8, HostSentinels DEF CrashClient, MayKill
  <2>3. LockHeld'
    BY <1>8 DEF CrashClient, Go, LockHeld, SomeoneCrashed
  <2> QED  BY <1>8, <2>1, <2>2, <2>3, HostAside DEF CrashClient, files, daemonVars
<1> QED  BY <1>1, <1>2, <1>3, <1>4, <1>5, <1>6, <1>7, <1>8

\* Every step of the host keeps the invariant, a stutter included.
LEMMA NextIInv == IInv /\ [Next]_vars => IInv'
<1> SUFFICES ASSUME IInv, [Next]_vars PROVE IInv'
  OBVIOUS
<1>1. ASSUME NEW d \in Daemons, Start(d) \/ TearDown(d) \/ ChangeLive(d) \/ KillDaemon(d)
      PROVE  IInv'
  BY <1>1, StartIInv, RestOfLifeIInv
<1>2. ASSUME NEW c \in Clients, Begin(c) \/ Client(c) \/ CrashClient(c)
      PROVE  IInv'
  BY <1>2, ReadersIInv, LockersIInv, ReplacersIInv, OthersIInv DEF Client
<1>3. CASE StopByRpc \/ StopBySignal
  BY <1>3, StopIInv
<1>4. CASE UNCHANGED vars
  BY <1>4 DEF vars, files, daemonVars, clientVars, IInv, TypeOK, PortHeld, TakeoversLeft, LockHeld,
              SomeoneCrashed
<1> QED  BY <1>1, <1>2, <1>3, <1>4 DEF Next
-----------------------------------------------------------------------------
\* The inductive invariant holds in every state: the port belongs to whoever serves or is
\* about to, and the lock file to whoever is in the critical section, unless a client died.
THEOREM SpecIInv == Spec => []IInv
  BY InitIInv, NextIInv, PTL DEF Spec

\* Single instance (docs/ARCHITECTURE.md, section 4): no two daemons serve one state
\* directory, although a pidfile that is not yet written is taken for a stale one.
THEOREM SpecOneServer == Spec => []OneServer
<1>1. IInv => OneServer
  BY DEF IInv, PortHeld, OneServer
<1> QED  BY <1>1, SpecIInv, PTL

\* The spawn lock (rpc/client.ts acquireSpawnLock) excludes as long as no client dies
\* with it, although nobody looks whose file he removes.
THEOREM SpecLockExcludes == Spec => []LockExcludes
<1>1. IInv => LockExcludes
  BY DEF IInv, LockHeld, SomeoneCrashed, LockExcludes
<1> QED  BY <1>1, SpecIInv, PTL

\* The host as a whole, as a run checks it for two clients and three daemons.
THEOREM SpecHostSound == Spec => []HostSound
<1>1. IInv => TypeOK
  BY DEF IInv
<1> QED  BY <1>1, SpecIInv, SpecOneServer, SpecLockExcludes, PTL DEF HostSound
===============================================================================
