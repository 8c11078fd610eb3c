------------------------------ MODULE DaemonHost ------------------------------
(***************************************************************************)
(* The daemon as a process of its host: how daemons start and stop over    *)
(* the files of one state directory (daemon/daemon.ts, daemon/pidfile.ts,  *)
(* daemon/rpc-server.ts), and how the RPC client of the CLI and of the MCP *)
(* server finds, spawns and replaces one (rpc/client.ts).                  *)
(*                                                                         *)
(* Every await of the code that reads or changes a file is a step of its   *)
(* own: what a process read may be out of date when it acts on it.         *)
(***************************************************************************)
EXTENDS Naturals, FiniteSets

CONSTANTS
    Daemons,        \* processes that run `daemon run` (a bound: ids are not reused)
    Clients,        \* CLI or MCP processes, each issuing one command
    ClientVersion,  \* ClientVersion[c]: the version of c's build
    Checks,         \* clients that compare versions (the test SDK does not)
    Forced,         \* clients run with --daemon-restart
    MaxTakeovers,   \* attempts of acquirePidfile (5 in the source)
    MaxKills,       \* bound: processes that are killed
    Veteran,        \* the daemon that may have run before
    Spare,          \* bound: daemons for behaviours in which Veteran was killed before
    NoDaemon, NoClient

ASSUME HostSentinels ==
    /\ Veteran \in Daemons /\ Spare \subseteq Daemons \ {Veteran} /\ NoDaemon \notin Daemons /\ NoClient \notin Clients
    /\ ClientVersion \in [Clients -> Nat \ {0}]
    /\ Checks \subseteq Clients /\ Forced \subseteq Checks
    /\ MaxTakeovers \in Nat \ {0} /\ MaxKills \in Nat

VARIABLES
    pidfile,    \* who created daemon.pid, and whether the pid was written yet
    sock,       \* the daemon whose listener bound the file daemon.sock
    port,       \* the daemon that listens on the WSS port
    lock,       \* who created daemon.spawn.lock
    stage,      \* stage[d]: how far d is into its life
    takeovers,  \* takeovers[d]: stale pidfiles that d has removed
    version,    \* version[d]: the version of d's build
    live,       \* live[d]: d has a session or a claimable link
    pc,         \* pc[c]: what c does next
    goal,       \* goal[c]: where c resumes after it spawned or awaited a daemon
    retried,    \* retried[c]: acquireSpawnLock is at its second attempt
    pidBefore,  \* pidBefore[c]: the pid in the pidfile before c's restart
    timedOut,   \* timedOut[c]: somebody else held the lock for all of c's wait
    kills       \* processes killed so far

files == <<pidfile, sock, port, lock>>
daemonVars == <<stage, takeovers, version, live>>
clientVars == <<pc, goal, retried, pidBefore, timedOut>>
vars == <<files, daemonVars, clientVars, kills>>

NoFile == [owner |-> NoDaemon, written |-> FALSE]
Pidfiles == [owner : Daemons, written : BOOLEAN] \union {NoFile}

Starting == {"start", "write", "conflict", "takeover", "unlink", "listen", "clear", "bind"}
Closing == {"closing", "portless", "released", "forgotten"}
Failing == {"failing", "failed"}
Stages == {"unborn", "serving", "exited", "killed"}
    \union Starting \union Closing \union Failing

Alive(d) == d \in Daemons /\ stage[d] \notin {"unborn", "exited", "killed"}
\* A connection to daemon.sock is accepted, by daemon d.
Connectable(d) == d \in Daemons /\ sock = d /\ stage[d] \in {"serving", "closing", "portless"}
Unreachable == \A d \in Daemons : ~Connectable(d)
\* The pid in the pidfile, NoDaemon when there is no readable one.
PidInFile == IF pidfile.written THEN pidfile.owner ELSE NoDaemon

Stopped == {"done", "failed", "crashed"}
Critical == {"recheck", "shutdown", "gone", "read", "unlink", "spawn", "unlock", "abort"}
PCs == Stopped \union Critical \union
    {"idle", "status", "pid", "lock", "stat", "reclaim", "await", "poll",
     "restatus", "after", "verify", "request", "rerequest"}
\* What follows once the socket is ready.
Goals == {"restatus", "after", "rerequest"}

-----------------------------------------------------------------------------
(* A daemon's life. *)

To(d, s) == stage' = [stage EXCEPT ![d] = s]

\* The file handle is open(path, "wx"): the pid is written in a later step.
CreatePidfile(d) ==
    /\ stage[d] = "start" /\ takeovers[d] < MaxTakeovers
    /\ IF pidfile = NoFile
       THEN pidfile' = [owner |-> d, written |-> FALSE] /\ To(d, "write")
       ELSE UNCHANGED pidfile /\ To(d, "conflict")
    /\ UNCHANGED <<sock, port, lock, takeovers, version, live, clientVars, kills>>

PidfileContended(d) ==
    /\ stage[d] = "start" /\ takeovers[d] = MaxTakeovers
    /\ To(d, "exited")
    /\ UNCHANGED <<files, takeovers, version, live, clientVars, kills>>

\* Written to the file that was opened, which may no longer be at the path.
WritePidfile(d) ==
    /\ stage[d] = "write"
    /\ pidfile' = IF pidfile.owner = d THEN [pidfile EXCEPT !.written = TRUE] ELSE pidfile
    /\ To(d, "listen")
    /\ UNCHANGED <<sock, port, lock, takeovers, version, live, clientVars, kills>>

\* mutant: any pid in the file is taken for a live one
JudgeByPidAlone(d) ==
    /\ stage[d] = "conflict"
    /\ To(d, IF PidInFile # NoDaemon THEN "exited" ELSE "takeover")
    /\ UNCHANGED <<files, takeovers, version, live, clientVars, kills>>

\* A pidfile is stale unless it names a live process: a pid not yet written
\* reads like a dead one.
JudgePidfile(d) ==
    /\ stage[d] = "conflict"
    /\ To(d, IF Alive(PidInFile) THEN "exited" ELSE "takeover")
    /\ UNCHANGED <<files, takeovers, version, live, clientVars, kills>>

RemoveStalePidfile(d) ==
    /\ stage[d] = "takeover"
    /\ pidfile' = NoFile /\ To(d, "unlink")
    /\ takeovers' = [takeovers EXCEPT ![d] = @ + 1]
    /\ UNCHANGED <<sock, port, lock, version, live, clientVars, kills>>

\* onStaleTakeover
RemoveStaleSocket(d) ==
    /\ stage[d] = "unlink"
    /\ sock' = NoDaemon /\ To(d, "start")
    /\ UNCHANGED <<pidfile, port, lock, takeovers, version, live, clientVars, kills>>

\* mutant: a port in use does not fail the start
ListenRegardless(d) ==
    /\ stage[d] = "listen"
    /\ port' = d /\ To(d, "clear")
    /\ UNCHANGED <<pidfile, sock, lock, takeovers, version, live, clientVars, kills>>

\* The WSS listener comes before the RPC server, and its port has one owner.
ListenWss(d) ==
    /\ stage[d] = "listen"
    /\ IF port = NoDaemon THEN port' = d /\ To(d, "clear") ELSE UNCHANGED port /\ To(d, "failing")
    /\ UNCHANGED <<pidfile, sock, lock, takeovers, version, live, clientVars, kills>>

ClearSocketPath(d) ==
    /\ stage[d] = "clear"
    /\ sock' = NoDaemon /\ To(d, "bind")
    /\ UNCHANGED <<pidfile, port, lock, takeovers, version, live, clientVars, kills>>

BindSocket(d) ==
    /\ stage[d] = "bind"
    /\ IF sock = NoDaemon THEN sock' = d /\ To(d, "serving") ELSE UNCHANGED sock /\ To(d, "failing")
    /\ UNCHANGED <<pidfile, port, lock, takeovers, version, live, clientVars, kills>>

\* Nothing half-acquired is left behind when the start fails.
FailListener(d) ==
    /\ stage[d] = "failing"
    /\ port' = IF port = d THEN NoDaemon ELSE port
    /\ To(d, "failed")
    /\ UNCHANGED <<pidfile, sock, lock, takeovers, version, live, clientVars, kills>>

FailRelease(d) ==
    /\ stage[d] = "failed"
    /\ pidfile' = NoFile /\ To(d, "exited")
    /\ UNCHANGED <<sock, port, lock, takeovers, version, live, clientVars, kills>>

\* Sessions and links come and go.
ChangeLive(d) ==
    /\ stage[d] = "serving"
    /\ live' = [live EXCEPT ![d] = ~@]
    /\ UNCHANGED <<files, stage, takeovers, version, clientVars, kills>>

\* shutdown() runs once: on daemon.shutdown, SIGINT or SIGTERM.
ShutDown(d) ==
    /\ stage' = [stage EXCEPT ![d] = IF @ = "serving" THEN "closing" ELSE @]
    /\ live' = [live EXCEPT ![d] = FALSE]

CloseListener(d) ==
    /\ stage[d] = "closing"
    /\ port' = NoDaemon /\ To(d, "portless")
    /\ UNCHANGED <<pidfile, sock, lock, takeovers, version, live, clientVars, kills>>

\* Closing a pipe server unlinks the path it bound.
CloseRpcServer(d) ==
    /\ stage[d] = "portless"
    /\ sock' = NoDaemon /\ To(d, "released")
    /\ UNCHANGED <<pidfile, port, lock, takeovers, version, live, clientVars, kills>>

ReleasePidfile(d) ==
    /\ stage[d] = "released"
    /\ pidfile' = NoFile /\ To(d, "forgotten")
    /\ UNCHANGED <<sock, port, lock, takeovers, version, live, clientVars, kills>>

RemoveSocket(d) ==
    /\ stage[d] = "forgotten"
    /\ sock' = NoDaemon /\ To(d, "exited")
    /\ UNCHANGED <<pidfile, port, lock, takeovers, version, live, clientVars, kills>>

\* The bounds: where the veteran was killed before all this, nobody is killed since and
\* spare daemons may be spawned.
KilledBefore == stage[Veteran] = "killed" /\ kills = 0
MayKill == ~KilledBefore /\ kills < MaxKills
MaySpawn(d) == d \in Spare => KilledBefore

\* Killed: its files stay, its port does not.
KillDaemon(d) ==
    /\ Alive(d) /\ MayKill /\ kills' = kills + 1
    /\ To(d, "killed")
    /\ port' = IF port = d THEN NoDaemon ELSE port
    /\ live' = [live EXCEPT ![d] = FALSE]
    /\ UNCHANGED <<pidfile, sock, lock, takeovers, version, clientVars>>

-----------------------------------------------------------------------------
(* `appduct daemon stop`. *)

StopByRpc ==
    /\ \E d \in Daemons : Connectable(d) /\ stage[d] = "serving" /\ ShutDown(d)
    /\ UNCHANGED <<files, takeovers, version, clientVars, kills>>

\* No answer: SIGTERM to whoever the pidfile names, whose handler is
\* installed once the start has succeeded.
StopBySignal ==
    /\ Unreachable /\ Alive(PidInFile)
    /\ IF stage[PidInFile] \in Starting \union Failing
       THEN /\ To(PidInFile, "killed")
            /\ port' = IF port = PidInFile THEN NoDaemon ELSE port
            /\ UNCHANGED live
       ELSE ShutDown(PidInFile) /\ UNCHANGED port
    /\ UNCHANGED <<pidfile, sock, lock, takeovers, version, clientVars, kills>>

-----------------------------------------------------------------------------
(* A client: the version check, then the request, spawning where nobody    *)
(* listens.                                                                *)

Go(c, p) == pc' = [pc EXCEPT ![c] = p]
Serves(d) == Connectable(d) /\ stage[d] = "serving"
\* A daemon that shuts down destroys the connection, or answers just before.
Dropped == \E d \in Daemons : Connectable(d) /\ stage[d] # "serving"

Begin(c) ==
    /\ pc[c] = "idle"
    /\ Go(c, IF c \in Checks THEN "status" ELSE "request")
    /\ UNCHANGED <<files, daemonVars, goal, retried, pidBefore, timedOut, kills>>

TakeLockFor(c, next) ==
    /\ goal' = [goal EXCEPT ![c] = next]
    /\ retried' = [retried EXCEPT ![c] = FALSE]

Restartable(c, d) == ~live[d] \/ c \in Forced

\* runVersionCheck: only a client that has outgrown the daemon replaces it.
JudgeVersion(c, d) ==
    IF version[d] >= ClientVersion[c] THEN "request"
    ELSE IF Restartable(c, d) THEN "pid" ELSE "failed"

\* What a daemon.status read comes to: an answer, a dropped connection, or
\* nobody to connect to.
StatusRead(c, judged, nobody) ==
    \/ \E d \in Daemons : Connectable(d) /\ Go(c, judged[d])
    \/ Dropped /\ Go(c, IF pc[c] \in Critical THEN "abort" ELSE "failed")
    \/ Unreachable /\ Go(c, nobody)

ReadStatus(c) ==
    /\ pc[c] \in {"status", "restatus"}
    /\ StatusRead(c, [d \in Daemons |-> JudgeVersion(c, d)],
                  IF pc[c] = "status" THEN "lock" ELSE "failed")
    /\ IF pc'[c] = "lock" THEN TakeLockFor(c, "restatus") ELSE UNCHANGED <<goal, retried>>
    /\ UNCHANGED <<files, daemonVars, pidBefore, timedOut, kills>>

NotePid(c) ==
    /\ pc[c] = "pid" /\ Go(c, "lock")
    /\ pidBefore' = [pidBefore EXCEPT ![c] = PidInFile]
    /\ TakeLockFor(c, "after")
    /\ UNCHANGED <<files, daemonVars, timedOut, kills>>

CreateLock(c) ==
    /\ pc[c] = "lock"
    /\ IF lock = NoClient
       THEN lock' = c /\ Go(c, IF goal[c] = "after" THEN "recheck" ELSE "read")
       ELSE UNCHANGED lock /\ Go(c, "stat")
    /\ UNCHANGED <<pidfile, sock, port, daemonVars, goal, retried, pidBefore, timedOut, kills>>

\* mutant: a lock is taken for abandoned at once
AbandonedAtOnce == lock \in Clients

\* Held for more than 30 s: the waits under the lock add up to less than
\* half of that, so its holder is dead.
Abandoned == lock \in Clients /\ pc[lock] = "crashed"
Beaten(c) == Go(c, IF goal[c] = "after" THEN "await" ELSE "poll")

StatLock(c) ==
    /\ pc[c] = "stat"
    /\ \/ /\ lock = NoClient
          /\ IF retried[c] THEN Beaten(c) ELSE Go(c, "lock")
          /\ retried' = [retried EXCEPT ![c] = TRUE]
       \/ lock # NoClient /\ Beaten(c) /\ UNCHANGED retried
       \/ Abandoned /\ Go(c, "reclaim") /\ UNCHANGED retried
    /\ UNCHANGED <<files, daemonVars, goal, pidBefore, timedOut, kills>>

ReclaimLock(c) ==
    /\ pc[c] = "reclaim"
    /\ lock' = NoClient
    /\ IF retried[c] THEN Beaten(c) ELSE Go(c, "lock")
    /\ retried' = [retried EXCEPT ![c] = TRUE]
    /\ UNCHANGED <<pidfile, sock, port, daemonVars, goal, pidBefore, timedOut, kills>>

AwaitLock(c) ==
    /\ pc[c] = "await" /\ Go(c, "poll")
    /\ timedOut' = [timedOut EXCEPT ![c] = lock # NoClient]
    /\ UNCHANGED <<files, daemonVars, goal, retried, pidBefore, kills>>

\* beforeSpawn looks again, now that it holds the lock.
JudgeAgain(c, d) ==
    IF version[d] = ClientVersion[c] THEN "unlock"
    ELSE IF Restartable(c, d) THEN "shutdown" ELSE "abort"

Recheck(c) ==
    /\ pc[c] = "recheck"
    /\ StatusRead(c, [d \in Daemons |-> JudgeAgain(c, d)], "read")
    /\ UNCHANGED <<files, daemonVars, goal, retried, pidBefore, timedOut, kills>>

\* An acknowledgement that does not come in time ends the restart.
SendShutdown(c) ==
    /\ pc[c] = "shutdown"
    /\ \/ \E d \in Daemons : Connectable(d) /\ ShutDown(d) /\ \E p \in {"gone", "abort"} : Go(c, p)
       \/ Unreachable /\ Go(c, "gone") /\ UNCHANGED <<stage, live>>
    /\ UNCHANGED <<files, takeovers, version, goal, retried, pidBefore, timedOut, kills>>

IsDaemonGone == Unreachable /\ ~Alive(PidInFile)

AwaitGone(c) ==
    /\ pc[c] = "gone"
    /\ Go(c, IF IsDaemonGone THEN "read" ELSE "abort")
    /\ UNCHANGED <<files, daemonVars, goal, retried, pidBefore, timedOut, kills>>

ReadPidfile(c) ==
    /\ pc[c] = "read"
    /\ Go(c, IF Alive(PidInFile) THEN "spawn" ELSE "unlink")
    /\ UNCHANGED <<files, daemonVars, goal, retried, pidBefore, timedOut, kills>>

UnlinkStaleSocket(c) ==
    /\ pc[c] = "unlink" /\ Go(c, "spawn")
    /\ sock' = NoDaemon
    /\ UNCHANGED <<pidfile, port, lock, daemonVars, goal, retried, pidBefore, timedOut, kills>>

\* The child may also die before it touches a file.
Spawn(c) ==
    /\ pc[c] = "spawn" /\ Go(c, "unlock")
    /\ \/ \E d \in Daemons :
            /\ stage[d] = "unborn" /\ MaySpawn(d) /\ To(d, "start")
            /\ version' = [version EXCEPT ![d] = ClientVersion[c]]
       \/ UNCHANGED <<stage, version>>
    /\ UNCHANGED <<files, takeovers, live, goal, retried, pidBefore, timedOut, kills>>

\* The finally clause removes the file, whoever created it.
Unlock(c) ==
    /\ pc[c] \in {"unlock", "abort"}
    /\ Go(c, IF pc[c] = "unlock" THEN "poll" ELSE "failed")
    /\ lock' = NoClient
    /\ UNCHANGED <<pidfile, sock, port, daemonVars, goal, retried, pidBefore, timedOut, kills>>

PollSocket(c) ==
    /\ pc[c] = "poll"
    /\ Go(c, IF Unreachable THEN "failed" ELSE goal[c])
    /\ UNCHANGED <<files, daemonVars, goal, retried, pidBefore, timedOut, kills>>

\* restartDaemon: someone else held the lock, and nothing was replaced.
JudgeWait(c) ==
    /\ pc[c] = "after"
    /\ Go(c, IF timedOut[c] /\ PidInFile = pidBefore[c] THEN "failed" ELSE "verify")
    /\ UNCHANGED <<files, daemonVars, goal, retried, pidBefore, timedOut, kills>>

VerifyReplacement(c) ==
    /\ pc[c] = "verify"
    /\ StatusRead(c, [d \in Daemons |->
                        IF version[d] >= ClientVersion[c] THEN "request" ELSE "failed"], "failed")
    /\ UNCHANGED <<files, daemonVars, goal, retried, pidBefore, timedOut, kills>>

SendRequest(c) ==
    /\ pc[c] \in {"request", "rerequest"}
    /\ StatusRead(c, [d \in Daemons |-> "done"], IF pc[c] = "request" THEN "lock" ELSE "failed")
    /\ IF pc'[c] = "lock" THEN TakeLockFor(c, "rerequest") ELSE UNCHANGED <<goal, retried>>
    /\ UNCHANGED <<files, daemonVars, pidBefore, timedOut, kills>>

\* Killed while it holds the lock; elsewhere it leaves no trace.
CrashClient(c) ==
    /\ pc[c] \in Critical /\ MayKill /\ kills' = kills + 1
    /\ Go(c, "crashed")
    /\ UNCHANGED <<files, daemonVars, goal, retried, pidBefore, timedOut>>

-----------------------------------------------------------------------------

\* An older daemon is running, or was killed, or none ever was.
Init ==
    /\ \E was \in {"unborn", "serving", "killed"} :
        /\ stage = [d \in Daemons |-> IF d = Veteran THEN was ELSE "unborn"]
        /\ version = [d \in Daemons |-> IF d = Veteran /\ was # "unborn" THEN 1 ELSE 0]
        /\ pidfile = IF was = "unborn" THEN NoFile ELSE [owner |-> Veteran, written |-> TRUE]
        /\ port = IF was = "serving" THEN Veteran ELSE NoDaemon
    /\ sock = pidfile.owner
    /\ lock = NoClient
    /\ takeovers = [d \in Daemons |-> 0]
    /\ live = [d \in Daemons |-> FALSE]
    /\ pc = [c \in Clients |-> "idle"]
    /\ goal = [c \in Clients |-> "restatus"]
    /\ retried = [c \in Clients |-> FALSE]
    /\ pidBefore = [c \in Clients |-> NoDaemon]
    /\ timedOut = [c \in Clients |-> FALSE]
    /\ kills = 0

Start(d) ==
    \/ CreatePidfile(d) \/ PidfileContended(d) \/ WritePidfile(d) \/ JudgePidfile(d)
    \/ RemoveStalePidfile(d) \/ RemoveStaleSocket(d) \/ ListenWss(d)
    \/ ClearSocketPath(d) \/ BindSocket(d) \/ FailListener(d) \/ FailRelease(d)

TearDown(d) ==
    CloseListener(d) \/ CloseRpcServer(d) \/ ReleasePidfile(d) \/ RemoveSocket(d)

Client(c) ==
    \/ ReadStatus(c) \/ NotePid(c) \/ CreateLock(c) \/ StatLock(c) \/ ReclaimLock(c)
    \/ AwaitLock(c) \/ Recheck(c) \/ SendShutdown(c) \/ AwaitGone(c) \/ ReadPidfile(c)
    \/ UnlinkStaleSocket(c) \/ Spawn(c) \/ Unlock(c) \/ PollSocket(c)
    \/ JudgeWait(c) \/ VerifyReplacement(c) \/ SendRequest(c)

Next ==
    \/ \E d \in Daemons : Start(d) \/ TearDown(d) \/ ChangeLive(d) \/ KillDaemon(d)
    \/ \E c \in Clients : Begin(c) \/ Client(c) \/ CrashClient(c)
    \/ StopByRpc \/ StopBySignal

Spec == Init /\ [][Next]_vars

\* A daemon that starts and is not killed keeps running.
FairSpec == Spec /\ \A d \in Daemons : WF_vars(Start(d))
-----------------------------------------------------------------------------

\* Every variable has its type, and only a daemon that serves holds sessions.
TypeOK ==
    /\ pidfile \in Pidfiles
    /\ sock \in Daemons \union {NoDaemon} /\ port \in Daemons \union {NoDaemon}
    /\ lock \in Clients \union {NoClient}
    /\ stage \in [Daemons -> Stages] /\ takeovers \in [Daemons -> 0..MaxTakeovers]
    /\ version \in [Daemons -> Nat] /\ live \in [Daemons -> BOOLEAN]
    /\ pc \in [Clients -> PCs] /\ goal \in [Clients -> Goals]
    /\ retried \in [Clients -> BOOLEAN] /\ timedOut \in [Clients -> BOOLEAN]
    /\ pidBefore \in [Clients -> Daemons \union {NoDaemon}]
    /\ kills \in 0..MaxKills
    /\ \A d \in Daemons : live[d] => stage[d] = "serving"

\* Single instance (ARCHITECTURE.md, section 4): no two daemons serve the same
\* state directory.  The pidfile alone does not give this, for a daemon takes
\* over a pidfile whose pid is not written yet; the WSS port, which a daemon
\* takes before it binds the socket and gives up before it releases the
\* pidfile, does.
OneServer ==
    \A d, e \in Daemons : stage[d] = "serving" /\ stage[e] = "serving" => d = e

\* The spawn lock is exclusive: while no client died with it, no two clients
\* are between taking and removing it, although each removes the file
\* without looking whose it is.
LockExcludes ==
    \A a, b \in Clients :
        pc[a] \in Critical /\ pc[b] \in Critical =>
            a = b \/ \E c \in Clients : pc[c] = "crashed"

\* A daemon that starts while no other is alive gets to serve, whatever
\* pidfile, socket and lock the processes killed before it left behind.
Alone(d) == \A e \in Daemons \ {d} : ~Alive(e)
StartsOverLeftovers ==
    \A d \in Daemons :
        stage[d] = "start" /\ takeovers[d] = 0 /\ Alone(d)
            ~> Serves(d) \/ stage[d] = "killed" \/ ~Alone(d)

\* ARCHITECTURE.md, section 4: "A newer daemon already serves everything an
\* older client asks for, and replacing it would downgrade the daemon out from
\* under whichever newer install started it": the version check shuts down
\* only daemons that its client has outgrown.
\* The code does not keep this: README, section 10.
NoDowngrade ==
    [][\A c \in Clients, d \in Daemons :
        pc[c] = "shutdown" /\ pc'[c] # "shutdown" /\ Serves(d) /\ stage'[d] = "closing"
            => version[d] < ClientVersion[c]]_vars

\* ARCHITECTURE.md, section 4: "A stale socket file with a dead pid is unlinked
\* before spawning": no step of another process removes the socket file of a
\* daemon that serves.
\* The code does not keep this: README, section 10.
OnlyStaleSocketsUnlinked ==
    [][\A d \in Daemons : Serves(d) /\ stage'[d] = "serving" => sock' = d]_vars

\* The host as a whole: one daemon serves a state directory, and one client at a time
\* is about to spawn one.
HostSound == TypeOK /\ OneServer /\ LockExcludes
===============================================================================
