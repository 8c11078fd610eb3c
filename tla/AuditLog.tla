------------------------------ MODULE AuditLog ------------------------------
(***************************************************************************)
(* The audit log (packages/appduct/src/daemon/audit.ts): the queue on which *)
(* records are written and old day files are pruned, one job after the      *)
(* other, and the measuring of the directory for `daemon status`, which     *)
(* waits for nobody. Calls are recorded, days go by and the disk fails      *)
(* between any two steps.                                                   *)
(***************************************************************************)
EXTENDS Integers, FiniteSets, Sequences, SequencesExt

CONSTANTS
  Records,        \* the calls to record
  LastDay,        \* bound: the last day of the calendar
  RetentionDays,  \* auditRetentionDays
  MaxPrunes,      \* bound: how often the interval fires
  None

VARIABLES
  today,         \* the UTC day
  made,          \* history: the day each record was made, None before
  queue,         \* the jobs not begun
  job,           \* the job at work
  files,         \* the lines of the file of each day, None where there is no file
  failedWrites,
  failedPrunes,
  aged,       \* history: the records that went with a pruned file
  status,        \* the measuring for daemon.status
  prunes
auditVars == <<today, made, queue, job, files, failedWrites, failedPrunes, aged, status, prunes>>

-----------------------------------------------------------------------------
Days == 0 .. LastDay
Writings == [kind : {"record"}, record : Records, day : Days, stage : {"open", "append", "chmod"}]
Prunings == [kind : {"prune"}, on : Days, stage : {"list", "delete"}, left : SUBSET Days]
Statuses ==
  [left : SUBSET Days, counted : SUBSET Days, stayed : SUBSET Days, refused : SUBSET Days,
   readable : BOOLEAN]

\* Assumed of the constants.
AuditConstants ==
  /\ LastDay \in Nat /\ RetentionDays \in Nat \ {0} /\ MaxPrunes \in Nat
  /\ None \notin Days /\ None \notin Seq(Records)
  /\ None \notin Writings /\ None \notin Prunings /\ None \notin Statuses

OnDisk == UNION {Range(files[d]) : d \in {x \in Days : files[x] # None}}
DayFiles == {d \in Days : files[d] # None}
Waiting == {queue[i].record : i \in {x \in DOMAIN queue : queue[x].kind = "record"}}

(* A directory with files from before this daemon started.                  *)
AuditInit ==
  /\ today \in 1 .. LastDay
  /\ files \in [Days -> {None, <<>>}]
  /\ \A d \in Days : d > today => files[d] = None
  /\ made = [r \in Records |-> None]
  /\ queue = <<[kind |-> "prune"]>>
  /\ job = None
  /\ failedWrites = 0
  /\ failedPrunes = 0
  /\ aged = {}
  /\ status = None
  /\ prunes = 0

Midnight ==
  /\ today < LastDay
  /\ today' \in today + 1 .. LastDay
  /\ UNCHANGED <<made, queue, job, files, failedWrites, failedPrunes, aged, status, prunes>>

(* record: the line and the file it goes to are settled at once. Which of   *)
(* the records it is makes no difference.                                   *)
Record(r) ==
  /\ made[r] = None /\ r = CHOOSE x \in Records : made[x] = None
  /\ made' = [made EXCEPT ![r] = today]
  /\ queue' = Append(queue, [kind |-> "record", record |-> r, day |-> today])
  /\ UNCHANGED <<today, job, files, failedWrites, failedPrunes, aged, status, prunes>>

PruneIsDue ==
  /\ prunes < MaxPrunes
  /\ prunes' = prunes + 1
  /\ queue' = Append(queue, [kind |-> "prune"])
  /\ UNCHANGED <<today, made, job, files, failedWrites, failedPrunes, aged, status>>

-----------------------------------------------------------------------------
(* The queue: a job is begun when the one before it is over, however that   *)
(* ended.                                                                   *)

\* A variant that works out the file when it gets to the record.
TargetNow(j) == today

Target(j) == j.day

Begin ==
  /\ job = None
  /\ queue # <<>>
  /\ queue' = Tail(queue)
  /\ job' = IF Head(queue).kind = "record"
            THEN [kind |-> "record", record |-> Head(queue).record, day |-> Target(Head(queue)),
                  stage |-> "open"]
            ELSE [kind |-> "prune", on |-> today, stage |-> "list", left |-> {}]
  /\ UNCHANGED <<today, made, files, failedWrites, failedPrunes, aged, status, prunes>>

Writing(stage) == job # None /\ job.kind = "record" /\ job.stage = stage

(* open creates the file.                                                   *)
Open ==
  /\ Writing("open")
  /\ files' = [files EXCEPT ![job.day] = IF @ = None THEN <<>> ELSE @]
  /\ job' = [job EXCEPT !.stage = "append"]
  /\ UNCHANGED <<today, made, queue, failedWrites, failedPrunes, aged, status, prunes>>

AppendLine ==
  /\ Writing("append")
  /\ files' = [files EXCEPT ![job.day] = Append(@, job.record)]
  /\ job' = [job EXCEPT !.stage = "chmod"]
  /\ UNCHANGED <<today, made, queue, failedWrites, failedPrunes, aged, status, prunes>>

Written ==
  /\ Writing("chmod")
  /\ job' = None
  /\ UNCHANGED <<today, made, queue, files, failedWrites, failedPrunes, aged, status, prunes>>

\* A variant in which a failure rejects the queue.
WriteFailsForAll ==
  /\ job # None /\ job.kind = "record"
  /\ failedWrites' = failedWrites + 1
  /\ queue' = <<>>
  /\ job' = None
  /\ UNCHANGED <<today, made, files, failedPrunes, aged, status, prunes>>

(* mkdir, open, the append or the chmod after it failed.                    *)
WriteFails ==
  /\ job # None /\ job.kind = "record"
  /\ failedWrites' = failedWrites + 1
  /\ job' = None
  /\ UNCHANGED <<today, made, queue, files, failedPrunes, aged, status, prunes>>

-----------------------------------------------------------------------------
(* prune.                                                                   *)

Pruning(stage) == job # None /\ job.kind = "prune" /\ job.stage = stage

\* A variant that is one day off.
TooOldEarly(d) == d # job.on /\ d <= job.on - RetentionDays

TooOld(d) == d # job.on /\ d < job.on - RetentionDays

List ==
  /\ Pruning("list")
  /\ job' = [job EXCEPT !.stage = "delete", !.left = {d \in DayFiles : TooOld(d)}]
  /\ UNCHANGED <<today, made, queue, files, failedWrites, failedPrunes, aged, status, prunes>>

ListFails ==
  /\ Pruning("list")
  /\ failedPrunes' = failedPrunes + 1
  /\ job' = None
  /\ UNCHANGED <<today, made, queue, files, failedWrites, aged, status, prunes>>

Delete(d) ==
  /\ Pruning("delete")
  /\ d \in job.left
  /\ job' = [job EXCEPT !.left = @ \ {d}]
  /\ \/ /\ files' = [files EXCEPT ![d] = None]
        /\ aged' = aged \union Range(files[d])
        /\ UNCHANGED failedPrunes
     \/ /\ failedPrunes' = failedPrunes + 1
        /\ UNCHANGED <<files, aged>>
  /\ UNCHANGED <<today, made, queue, failedWrites, status, prunes>>

Pruned ==
  /\ Pruning("delete")
  /\ job.left = {}
  /\ job' = None
  /\ UNCHANGED <<today, made, queue, files, failedWrites, failedPrunes, aged, status, prunes>>

-----------------------------------------------------------------------------
(* stats, for daemon.status: the directory is listed, then one file after   *)
(* the other is measured. "stayed" and "refused" are history: the files     *)
(* listed that have been there since, and those that stat failed for.       *)

AskStatus ==
  /\ status = None
  /\ status' = [left |-> DayFiles, counted |-> {}, stayed |-> DayFiles, refused |-> {},
              readable |-> TRUE]
  /\ UNCHANGED <<today, made, queue, job, files, failedWrites, failedPrunes, aged, prunes>>

AskUnreadable ==
  /\ status = None
  /\ status' = [left |-> {}, counted |-> {}, stayed |-> DayFiles, refused |-> {},
              readable |-> FALSE]
  /\ UNCHANGED <<today, made, queue, job, files, failedWrites, failedPrunes, aged, prunes>>

\* A variant that gives up at the first file that is gone.
CountUntilGone(d) ==
  IF files[d] # None
  THEN [status EXCEPT !.left = @ \ {d}, !.counted = @ \union {d}]
  ELSE [status EXCEPT !.left = {}]

Count(d) ==
  IF files[d] # None
  THEN [status EXCEPT !.left = @ \ {d}, !.counted = @ \union {d}]
  ELSE [status EXCEPT !.left = @ \ {d}]

Measure(d) ==
  /\ status # None
  /\ d \in status.left
  /\ status' = [Count(d) EXCEPT !.stayed = @ \intersect DayFiles]
  /\ UNCHANGED <<today, made, queue, job, files, failedWrites, failedPrunes, aged, prunes>>

(* stat fails for a file that is there, in a directory without search       *)
(* permission for each of them: any error is taken for a file that is gone. *)
MeasureFails(d) ==
  /\ status # None
  /\ d \in status.left \intersect DayFiles
  /\ status' = [status EXCEPT !.left = @ \ {d}, !.refused = @ \union {d},
                              !.stayed = @ \intersect DayFiles]
  /\ UNCHANGED <<today, made, queue, job, files, failedWrites, failedPrunes, aged, prunes>>

Reported == status # None /\ status.left = {}

Report ==
  /\ Reported
  /\ status' = None
  /\ UNCHANGED <<today, made, queue, job, files, failedWrites, failedPrunes, aged, prunes>>

AuditNext ==
  \/ Midnight
  \/ PruneIsDue
  \/ Begin
  \/ Open \/ AppendLine \/ Written \/ WriteFails
  \/ List \/ ListFails \/ Pruned
  \/ \E d \in Days : Delete(d)
  \/ AskStatus \/ AskUnreadable \/ Report
  \/ \E d \in Days : Measure(d) \/ MeasureFails(d)
  \/ \E r \in Records : Record(r)

AuditSpec == AuditInit /\ [][AuditNext]_auditVars

-----------------------------------------------------------------------------
AuditTypeOK ==
  /\ today \in Days
  /\ made \in [Records -> Days \union {None}]
  /\ \A d \in Days : files[d] = None \/ files[d] \in Seq(Records)
  /\ failedWrites \in Nat
  /\ failedPrunes \in Nat
  /\ aged \subseteq Records

(* No call's record vanishes without a trace: it waits, is being written,   *)
(* is in a file, went with a file that was too old, or is one of the failed *)
(* writes that the status tells of (audit.ts:301).                          *)
RecordsAccounted ==
  LET writing == IF job # None /\ job.kind = "record" THEN {job.record} ELSE {}
      missing == {r \in Records : made[r] # None} \ (Waiting \union writing \union OnDisk \union aged)
  IN Cardinality(missing) <= failedWrites

(* A line is in the file of the day on which the call was recorded, once,   *)
(* however long it waited for the disk (audit.ts:293).                      *)
FiledByDay ==
  \A d \in DayFiles :
    /\ IsInjective(files[d])
    /\ \A i \in DOMAIN files[d] : made[files[d][i]] = d

(* A day's file goes only when it is out of the window that auditRetention- *)
(* Days asks to keep, even when the day changes while the pruning is under  *)
(* way (audit.ts:275).                                                      *)
RetainedStay ==
  [][\A d \in DayFiles : files'[d] = None => d < today - RetentionDays]_auditVars

(* The status counts every file that was there from its listing to its end, *)
(* though others are pruned meanwhile, unless stat failed for it; of a      *)
(* directory that it could not list it says nothing (audit.ts:339, 353).    *)
StatusCountsWhatStays ==
  Reported /\ status.readable =>
    (status.stayed \intersect DayFiles) \ status.refused \subseteq status.counted

(* "\"we could not measure it\" and \"it is empty\" are different facts and    *)
(* `daemon.status` reports them differently" (audit.ts:70): a status that   *)
(* counts no files is of a directory with none that stayed. The code does   *)
(* not keep this: README, section 10.                                       *)
NoneMeansEmpty ==
  Reported /\ status.readable /\ status.counted = {} => status.stayed \intersect DayFiles = {}

(* The log as a whole: no record is lost, each is in the file of its day,   *)
(* and the status counts the files that stay and can be looked at.          *)
AuditSound == AuditTypeOK /\ RecordsAccounted /\ FiledByDay /\ StatusCountsWhatStays
=============================================================================
