---------------------------- MODULE LogRotation ----------------------------
(***************************************************************************)
(* The rotation of daemon.log (packages/appduct/src/daemon/log-rotation.ts) *)
(* on the way to a new daemon (rpc/client.ts, defaultSpawn): one process at *)
(* a time, which holds the spawn lock (DaemonHost), looks at the log and    *)
(* for a daemon that may be writing it, moves the log aside and spawns a    *)
(* daemon that appends to what is then called daemon.log. From the first    *)
(* look at the log to the spawn every await is a step, and daemons start,   *)
(* hang, shut down and die between two of them.                             *)
(*                                                                          *)
(* A file is its number; a name of a file is log or backup, and a daemon    *)
(* writes to the file it was given, whatever that is called by now.         *)
(***************************************************************************)
EXTENDS Naturals

CONSTANTS
  Daemons,   \* bound: the daemons that are spawned
  Files,     \* bound: the files that there may be
  MaxBytes,  \* the cap, in what a daemon writes while it starts
  None

\* Assumed of the constants.
RotationConstants ==
  /\ None \notin Files \union Daemons
  /\ 1 \in Files
  /\ MaxBytes \in Nat

VARIABLES
  log, backup,  \* the files of these names
  size,         \* the size of each file, up to one more than the cap
  daemon,       \* the stage of each daemon and the file it writes to
  pidfile,      \* the daemon that the pidfile names
  bound,        \* the daemon whose socket the path leads to
  spawner,      \* where the process with the lock is
  watched,      \* history: daemons to be seen ever since the rotation looked
  overlooked    \* history: daemons whose log was moved while they were not to be seen
disk == <<log, backup, size>>
host == <<daemon, pidfile, bound>>
rotationVars == <<disk, host, spawner, watched, overlooked>>

-----------------------------------------------------------------------------
Spawning == {"idle", "ready", "over", "unnamed", "free", "rotated"}
Living == {"booting", "held", "serving", "wedged", "closing", "leaving"}
Fresh == [stage |-> "unspawned", file |-> None]

RotationInit ==
  /\ log \in {None, 1}
  /\ backup = None
  /\ size = [f \in Files |-> 0]
  /\ daemon = [d \in Daemons |-> Fresh]
  /\ pidfile = None
  /\ bound = None
  /\ spawner = "idle"
  /\ watched = {}
  /\ overlooked = {}

(* isDaemonHoldingLog, isSocketConnectable.                                 *)
Named == pidfile # None /\ daemon[pidfile].stage \in Living
Answers == bound # None /\ daemon[bound].stage = "serving"

(* The daemons that one of the two questions finds.                         *)
Visible ==
  {d \in Daemons : \/ d = pidfile /\ daemon[d].stage \in Living
                   \/ d = bound /\ daemon[d].stage = "serving"}

-----------------------------------------------------------------------------
(* The daemons.                                                             *)

Goes(d, from, to) ==
  /\ daemon[d].stage = from
  /\ daemon' = [daemon EXCEPT ![d].stage = to]

(* acquirePidfile: a daemon that finds another one alive leaves.            *)
TakePidfile(d) ==
  /\ Goes(d, "booting", IF Named THEN "gone" ELSE "held")
  /\ IF Named THEN UNCHANGED <<pidfile, bound>>
     ELSE pidfile' = d /\ bound' = IF pidfile = None THEN bound ELSE None
  /\ UNCHANGED <<disk, spawner>>

Bind(d) ==
  /\ Goes(d, "held", "serving")
  /\ bound' = d
  /\ UNCHANGED <<disk, pidfile, spawner>>

(* A daemon that does not answer, and one that does again.                  *)
Hangs(d) ==
  /\ Goes(d, "serving", "wedged") \/ Goes(d, "wedged", "serving")
  /\ UNCHANGED <<disk, pidfile, bound, spawner>>

ClosesSocket(d) ==
  /\ Goes(d, "serving", "closing")
  /\ UNCHANGED <<disk, pidfile, bound, spawner>>

ReleasesPidfile(d) ==
  /\ Goes(d, "closing", "leaving")
  /\ pidfile' = IF pidfile = d THEN None ELSE pidfile
  /\ bound' = None
  /\ UNCHANGED <<disk, spawner>>

Ends(d) ==
  /\ \E from \in Living : Goes(d, from, "gone")
  /\ UNCHANGED <<disk, pidfile, bound, spawner>>

(* Somebody removes the pidfile by hand.                                    *)
PidfileRemoved ==
  /\ pidfile # None
  /\ pidfile' = None
  /\ UNCHANGED <<disk, daemon, bound, spawner>>

(* A daemon writes. One that has only been spawned writes a line.           *)
Grown(f) == [size EXCEPT ![f] = IF @ > MaxBytes THEN @ ELSE @ + 1]

Writes(d) ==
  /\ daemon[d].stage \in Living \ {"booting"}
  /\ size' = Grown(daemon[d].file)
  /\ UNCHANGED <<log, backup, host, spawner>>

-----------------------------------------------------------------------------
(* The process with the lock.                                               *)

At(from, to) == spawner = from /\ spawner' = to

(* Nothing answered when it asked, which may be a while ago: it takes the   *)
(* lock and removes the socket of a daemon that is not there.               *)
Begin ==
  /\ At("idle", "ready")
  /\ \E d \in Daemons : daemon[d] = Fresh
  /\ bound' = IF Named THEN bound ELSE None
  /\ UNCHANGED <<disk, daemon, pidfile>>

(* rotateDaemonLogIfNeeded: a missing log and one within the cap stay.      *)
Measure ==
  /\ spawner = "ready"
  /\ spawner' = IF log # None /\ size[log] > MaxBytes THEN "over" ELSE "rotated"
  /\ UNCHANGED <<disk, host>>

\* A variant that asks the socket only.
AsksSocketOnly ==
  /\ At("over", "unnamed")
  /\ UNCHANGED <<disk, host>>

AsksPidfile ==
  /\ spawner = "over"
  /\ spawner' = IF Named THEN "rotated" ELSE "unnamed"
  /\ UNCHANGED <<disk, host>>

AsksSocket ==
  /\ spawner = "unnamed"
  /\ spawner' = IF Answers THEN "rotated" ELSE "free"
  /\ UNCHANGED <<disk, host>>

Rename ==
  /\ At("free", "rotated")
  /\ backup' = log
  /\ log' = None
  /\ UNCHANGED <<size, host>>

(* The rename may fail, which is not the end of it.                         *)
RenameFails ==
  /\ At("free", "rotated")
  /\ UNCHANGED <<disk, host>>

(* The log is opened, or made, and handed to the daemon.                    *)
Unused == {f \in Files : f \notin {log, backup} /\ \A d \in Daemons : daemon[d].file # f}

(* Which of the daemons it is makes no difference.                          *)
NextSpawned(d) == d = CHOOSE x \in Daemons : daemon[x] = Fresh

Spawn(d) ==
  /\ At("rotated", "idle")
  /\ daemon[d] = Fresh /\ NextSpawned(d)
  /\ \E f \in IF log = None THEN Unused ELSE {log} :
       /\ log' = f
       /\ size' = Grown(f)
       /\ daemon' = [daemon EXCEPT ![d] = [stage |-> "booting", file |-> f]]
  /\ UNCHANGED <<backup, pidfile, bound>>

SpawnerDies ==
  /\ spawner # "idle"
  /\ spawner' = "idle"
  /\ UNCHANGED <<disk, host>>

RotationNext ==
  /\ \/ \E d \in Daemons :
          \/ TakePidfile(d) \/ Bind(d) \/ Hangs(d) \/ ClosesSocket(d)
          \/ ReleasesPidfile(d) \/ Ends(d) \/ Writes(d) \/ Spawn(d)
     \/ PidfileRemoved
     \/ Begin \/ Measure \/ AsksPidfile \/ AsksSocket \/ Rename \/ RenameFails
     \/ SpawnerDies
  /\ watched' = IF spawner = "ready" THEN Visible \intersect Visible'
                ELSE watched \intersect Visible'
  /\ overlooked' = IF log # None /\ log' = None
                   THEN overlooked \union ({d \in Daemons : daemon[d].file = log} \ watched)
                   ELSE overlooked

RotationSpec == RotationInit /\ [][RotationNext]_rotationVars

-----------------------------------------------------------------------------
RotationTypeOK ==
  /\ log \in Files \union {None}
  /\ backup \in Files \union {None}
  /\ log # None => log # backup
  /\ size \in [Files -> 0..(MaxBytes + 1)]
  /\ \A d \in Daemons : daemon[d].stage \in Living => daemon[d].file \in Files
  /\ spawner \in Spawning

(* A daemon that the pidfile names or whose socket answers, be it only one  *)
(* of the two, and that did so from the first look of a rotation to the     *)
(* end, goes on writing to daemon.log, also when it hangs and everybody who *)
(* asks it for something spawns another one: a rotation moves the log of    *)
(* those only that were not to be seen for a moment (log-rotation.ts:103).  *)
MovedUnseenOnly ==
  \A d \in Daemons :
    daemon[d].stage \in Living => daemon[d].file = log \/ d \in overlooked

(* Both, as a run checks them.                                              *)
RotationSound == RotationTypeOK /\ MovedUnseenOnly
=============================================================================
