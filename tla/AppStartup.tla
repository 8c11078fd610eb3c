----------------------------- MODULE AppStartup -----------------------------
(***************************************************************************)
(* What importing @appduct/react-native/auto sets going: the listener for   *)
(* deep links, the recovery of the session that the process's lease holds,  *)
(* and the link the app was launched with (auto.ts, deep-link-install.ts).  *)
(*                                                                          *)
(* The native client is as much of AppCore as links and leases need: one    *)
(* claim or resume at a time, answered at once or not at all, and the       *)
(* socket that the manager has, for it opens no other beside it. A          *)
(* JavaScript runtime is replaced at any time (a Metro reload, an activity  *)
(* that is started again); process, lease and launch link live on.          *)
(***************************************************************************)
EXTENDS Naturals

CONSTANTS
  Links,        \* the sessions that operators made links for
  MaxRuntimes,  \* bound: how often a runtime starts
  None

\* Assumed of the constants.
StartupConstants == None \notin Links /\ MaxRuntimes \in Nat

VARIABLES
  linked,     \* the native module is in the build
  launch,     \* the link that the activity was started with
  runtime,    \* the JavaScript side
  started,    \* how many runtimes there were
  client,     \* the native client: its state, the session it holds or claims, its socket
  lease,      \* the process's resume lease
  used,       \* the links that the daemon has let an app claim
  expired,    \* the links whose payload has run out
  wanted,     \* history: the link that started this runtime's activity, while no other followed
  obstructed  \* history: the links that were not claimed because of an earlier session's socket
startupVars ==
  <<linked, launch, runtime, started, client, lease, used, expired, wanted, obstructed>>

-----------------------------------------------------------------------------
Stages == {"down", "restoring", "settled", "over"}
Down == [stage |-> "down", listens |-> FALSE, initial |-> None, known |-> FALSE, answer |-> FALSE]

\* A socket is the "own" one of the session, dialled or open, or an "old" one that the client
\* has done with and the manager still has.
NoClient == [state |-> "idle", session |-> None, socket |-> "none"]
Closed(s) == [state |-> "closed", session |-> None, socket |-> s]

StartupInit ==
  /\ linked \in BOOLEAN
  /\ launch = None
  /\ runtime = Down
  /\ started = 0
  /\ client = NoClient
  /\ lease = None
  /\ used = {}
  /\ expired = {}
  /\ wanted = None
  /\ obstructed = {}

-----------------------------------------------------------------------------
(* The native client.                                                       *)

(* handleUrl: a payload that has run out is reported and a link for the     *)
(* session held is ignored. Any other supersedes what is held, claimed or   *)
(* recovered: the lease is dropped, a socket is closed, and the next is     *)
(* dialled without waiting for that. With nothing to supersede, a socket    *)
(* that is still there is an error.                                         *)
Holds == client.state \in {"connecting", "active"}
Ignored(l) == l \in expired \/ (Holds /\ client.session = l)
Dials == client.socket = "none" \/ Holds \/ client.state = "reconnecting"

HandleUrl(l) ==
  \/ /\ Ignored(l)
     /\ UNCHANGED <<client, lease, obstructed>>
  \/ /\ ~Ignored(l) /\ Dials
     /\ client' = [state |-> "connecting", session |-> l,
                   socket |-> IF client.socket = "none" THEN "own" ELSE "old"]
     /\ lease' = None
     /\ UNCHANGED obstructed
  \/ /\ ~Ignored(l) /\ ~Dials
     /\ obstructed' = obstructed \union {l}
     /\ UNCHANGED <<client, lease>>

ClaimAnswered ==
  /\ client.state = "connecting"
  /\ client.socket = "own"
  /\ IF client.session \in used
     THEN client' = Closed("none") /\ UNCHANGED <<lease, used>>
     ELSE /\ client' = [client EXCEPT !.state = "active"]
          /\ lease' = client.session
          /\ used' = used \union {client.session}
  /\ UNCHANGED <<linked, launch, runtime, started, expired, wanted, obstructed>>

(* The manager refuses to dial while it has a socket. If that one has       *)
(* closed just before, its close event, which comes while the new attempt   *)
(* waits, is taken for the end of it; what it dialled goes on, and the      *)
(* daemon may let it claim.                                                 *)
ClaimObstructed ==
  /\ client.state = "connecting"
  /\ client.socket = "old"
  /\ client' = Closed("old")
  /\ used' \in {used, used \union {client.session}}
  /\ obstructed' = obstructed \union {client.session}
  /\ UNCHANGED <<linked, launch, runtime, started, lease, expired, wanted>>

OldSocketCloses ==
  /\ client.state = "closed"
  /\ client.socket = "old"
  /\ client' = Closed("none")
  /\ UNCHANGED <<linked, launch, runtime, started, lease, used, expired, wanted, obstructed>>

(* A resume is tried again and again, and a try may fail.                   *)
ResumeTried ==
  /\ client.state = "reconnecting"
  /\ client' = [client EXCEPT !.socket = IF @ = "none" THEN "own" ELSE "none"]
  /\ UNCHANGED <<linked, launch, runtime, started, lease, used, expired, wanted, obstructed>>

ResumeAnswered ==
  /\ client.state = "reconnecting"
  /\ client.socket = "own"
  /\ client' = [client EXCEPT !.state = "active"]
  /\ UNCHANGED <<linked, launch, runtime, started, lease, used, expired, wanted, obstructed>>

SocketDrops ==
  /\ client.state = "active"
  /\ client' = [client EXCEPT !.state = "reconnecting", !.socket = "none"]
  /\ UNCHANGED <<linked, launch, runtime, started, lease, used, expired, wanted, obstructed>>

(* The session is given up, and not the socket that a resume was dialling.  *)
GraceEnds ==
  /\ client.state = "reconnecting"
  /\ client' = Closed(IF client.socket = "own" THEN "old" ELSE "none")
  /\ lease' = None
  /\ UNCHANGED <<linked, launch, runtime, started, used, expired, wanted, obstructed>>

-----------------------------------------------------------------------------
(* The JavaScript side.                                                     *)

(* The first look for the native module stands for the runtime.             *)
Available == linked

(* noopIfNativeUnavailable: without the module, nothing is installed.       *)
Inert == [Down EXCEPT !.stage = "over"]

(* installAppductDeepLinkBootstrap, up to its first await: addEventListener *)
(* may throw.                                                               *)
Installed == {[Down EXCEPT !.stage = "restoring", !.listens = b] : b \in BOOLEAN}

Install ==
  /\ runtime.stage = "down"
  /\ started < MaxRuntimes
  /\ started' = started + 1
  /\ runtime' \in IF Available THEN Installed ELSE {Inert}
  /\ UNCHANGED <<linked, launch, client, lease, used, expired, wanted, obstructed>>

(* restoreSession answers once a resume has begun, or that there is none;   *)
(* the client keeps no state between runtimes, so that an older session is  *)
(* in the lease only.                                                       *)
Restored ==
  /\ runtime.stage = "restoring"
  /\ IF client = NoClient /\ lease # None
     THEN /\ client' = [state |-> "reconnecting", session |-> lease, socket |-> "none"]
          /\ runtime' = [runtime EXCEPT !.stage = "settled", !.answer = TRUE]
     ELSE /\ runtime' = [runtime EXCEPT !.stage = "settled"]
          /\ UNCHANGED client
  /\ UNCHANGED <<linked, launch, started, lease, used, expired, wanted, obstructed>>

RestoreFails ==
  /\ runtime.stage = "restoring"
  /\ runtime' = [runtime EXCEPT !.stage = "settled"]
  /\ UNCHANGED <<linked, launch, started, client, lease, used, expired, wanted, obstructed>>

(* getInitialURL, which may fail.                                           *)
InitialUrl ==
  /\ runtime.stage \in {"restoring", "settled"}
  /\ ~runtime.known
  /\ \E url \in {launch, None} :
       runtime' = [runtime EXCEPT !.known = TRUE, !.initial = url]
  /\ wanted' = IF runtime'.initial = launch THEN wanted ELSE None
  /\ UNCHANGED <<linked, launch, started, client, lease, used, expired, obstructed>>

\* A variant that takes a restored session for an answer.
ConsidersUnlessRestored == IF runtime.answer THEN None ELSE runtime.initial

Considers == runtime.initial

HandleInitial ==
  /\ runtime.stage = "settled"
  /\ runtime.known
  /\ runtime' = [runtime EXCEPT !.stage = "over"]
  /\ IF Considers = None THEN UNCHANGED <<client, lease, obstructed>> ELSE HandleUrl(Considers)
  /\ UNCHANGED <<linked, launch, started, used, expired, wanted>>

-----------------------------------------------------------------------------
(* The platform.                                                            *)

(* A link starts the activity, in a process that may have run it before.    *)
Launch(l) ==
  /\ runtime.stage = "down"
  /\ l \notin used \union expired
  /\ launch' = l
  /\ wanted' = l
  /\ obstructed' = obstructed \ {l}
  /\ UNCHANGED <<linked, runtime, started, client, lease, used, expired>>

(* A link comes to the running app.                                         *)
Deliver(l) ==
  /\ runtime.listens
  /\ l \notin used
  /\ HandleUrl(l)
  /\ wanted' = None
  /\ UNCHANGED <<linked, launch, runtime, started, used, expired>>

(* The runtime goes, and with it the client (invalidate). A handshake that  *)
(* was under way is over.                                                   *)
Reload ==
  /\ runtime.stage # "down"
  /\ runtime' = Down
  /\ client' = NoClient
  /\ wanted' = None
  /\ UNCHANGED <<linked, launch, started, lease, used, expired, obstructed>>

RunsOut(l) ==
  /\ l \notin expired
  /\ expired' = expired \union {l}
  /\ wanted' = IF l = wanted THEN None ELSE wanted
  /\ UNCHANGED <<linked, launch, runtime, started, client, lease, used, obstructed>>

StartupNext ==
  \/ Install \/ Restored \/ RestoreFails \/ InitialUrl \/ HandleInitial
  \/ ClaimAnswered \/ ClaimObstructed \/ OldSocketCloses
  \/ ResumeTried \/ ResumeAnswered \/ SocketDrops \/ GraceEnds \/ Reload
  \/ \E l \in Links : Launch(l) \/ Deliver(l) \/ RunsOut(l)

StartupSpec == StartupInit /\ [][StartupNext]_startupVars

-----------------------------------------------------------------------------
StartupTypeOK ==
  /\ runtime.stage \in Stages
  /\ runtime.initial \in Links \union {None}
  /\ client.state \in {"idle", "connecting", "active", "reconnecting", "closed"}
  /\ client.session \in Links \union {None}
  /\ client.socket \in {"none", "own", "old"}
  /\ obstructed \subseteq Links
  /\ lease \in Links \union {None}
  /\ ~linked => client = NoClient

(* The link an operator launched the app with, just made and good, is not   *)
(* left unclaimed for a session that the process remembered: once startup   *)
(* is over the app claims it, holds it, or lost it since                    *)
(* (deep-link-install.ts:81). The one thing that may have come in its way   *)
(* is a socket of that session, open or being dialled (obstructed).         *)
LaunchLinkWins ==
  linked /\ wanted # None /\ runtime.stage = "over"
    => client.session = wanted \/ wanted \in used \union obstructed

(* "A link delivered to launch this app is newer intent than a session      *)
(* recovered from process memory ... a different id supersedes it" (there): *)
(* nothing comes in its way. The code does not keep this: README,           *)
(* section 10.                                                              *)
LaunchLinkSupersedes ==
  linked /\ wanted # None /\ runtime.stage = "over"
    => client.session = wanted \/ wanted \in used

(* A link that names the session held already is ignored when it is         *)
(* delivered again: the client does not trade a session it has for another  *)
(* claim of it (docs/ARCHITECTURE.md:629).                                  *)
RedeliveryIgnored ==
  [][client'.state = "connecting" /\ client.state # "connecting"
       => client'.session # client.session]_startupVars

(* The start as a whole: types, and the launch link is not left aside.      *)
StartupSound == StartupTypeOK /\ LaunchLinkWins
=============================================================================
