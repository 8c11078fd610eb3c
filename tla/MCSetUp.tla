----------------------------- MODULE MCSetUp -------------------------------
(***************************************************************************)
(* What surrounds the sessions: the scheme of links, the devices they are   *)
(* opened on, and the files the daemon writes. Four models side by side: a  *)
(* behaviour is one of one of them, its scene, while the variables of the   *)
(* others rest; they share no state and do not interact.                    *)
(***************************************************************************)
EXTENDS Integers, TLC

CONSTANTS
  None,
  Simulators, Androids, Phones,                                          \* Delivery
  Schemes, s1, s2, MaxMoves,                                             \* SchemeSetup
  Records, LastDay, RetentionDays, MaxPrunes,                            \* AuditLog
  Daemons, Files, MaxBytes                                               \* LogRotation

VARIABLES
  scene,
  request, settings, present, unready, gone, stage, listed, target, links, forwards, opened,
  result,
  configs, sources, blessed, last, moves,
  today, made, queue, job, files, failedWrites, failedPrunes, aged, status, prunes,
  log, backup, size, daemon, pidfile, bound, spawner, watched, overlooked
deliveryVars ==
  <<request, settings, present, unready, gone, stage, listed, target, links, forwards, opened,
    result>>
setupVars == <<configs, sources, blessed, last, moves>>
auditVars ==
  <<today, made, queue, job, files, failedWrites, failedPrunes, aged, status, prunes>>
rotationVars == <<log, backup, size, daemon, pidfile, bound, spawner, watched, overlooked>>
vars == <<scene, deliveryVars, setupVars, auditVars, rotationVars>>

-----------------------------------------------------------------------------
D == INSTANCE Delivery

(* SchemeSetup: the Info.plist of a dependency and two of the app.          *)
Plists == <<"Pods/Info.plist", "ios/App/Info.plist", "ios/Info.plist">>
Depth == [p \in {"Pods/Info.plist", "ios/App/Info.plist", "ios/Info.plist"} |->
            IF p = "ios/App/Info.plist" THEN 2 ELSE 1]
Vendored == {"Pods/Info.plist"}
Asked == {None, s1, "bad"}
Exported == {None, s2}

S == INSTANCE SchemeSetup

U == INSTANCE AuditLog

L == INSTANCE LogRotation

ASSUME SetUpConstants ==
  D!DeliveryConstants /\ S!SetupConstants /\ U!AuditConstants /\ L!RotationConstants

-----------------------------------------------------------------------------
DeliveryAtRest ==
  /\ request = CHOOSE r \in D!Requests : D!Malformed(r)
  /\ settings = CHOOSE s \in D!Settings : D!Reads(request, s)
  /\ present = {}
AuditAtRest == today = 1 /\ files = [d \in U!Days |-> None]
RotationAtRest == log = None

Init ==
  /\ scene \in {"delivery", "scheme", "audit", "rotation"}
  /\ scene # "delivery" => DeliveryAtRest
  /\ scene # "audit" => AuditAtRest
  /\ scene # "rotation" => RotationAtRest
  /\ D!DeliveryInit
  /\ S!SetupInit
  /\ U!AuditInit
  /\ L!RotationInit

Next ==
  /\ UNCHANGED scene
  /\ \/ /\ scene = "delivery" /\ D!DeliveryNext
        /\ UNCHANGED <<setupVars, auditVars, rotationVars>>
     \/ /\ scene = "scheme" /\ S!SetupNext
        /\ UNCHANGED <<deliveryVars, auditVars, rotationVars>>
     \/ /\ scene = "audit" /\ U!AuditNext
        /\ UNCHANGED <<deliveryVars, setupVars, rotationVars>>
     \/ /\ scene = "rotation" /\ L!RotationNext
        /\ UNCHANGED <<deliveryVars, setupVars, auditVars>>

Spec == Init /\ [][Next]_vars

-----------------------------------------------------------------------------
(* The properties of the parts, where each of them is explained.            *)

(* A link fits where it is opened, and is made only when it can be.         *)
DeliverySound == scene = "delivery" => D!DeliverySound

(* What init reported is what links use, and no link is a guess.            *)
SetupSound == scene = "scheme" => S!SetupSound

(* A recorded scheme is replaced only by force.                             *)
RecordedStands == S!RecordedStands

(* No audit record is lost, and each is filed under its day.                *)
AuditSound == scene = "audit" => U!AuditSound

(* No file of the window goes.                                              *)
RetainedStay == U!RetainedStay

(* The log of a daemon that was to be seen is not moved.                    *)
RotationSound == scene = "rotation" => L!RotationSound
=============================================================================
