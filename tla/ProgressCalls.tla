----------------------------- MODULE ProgressCalls -----------------------------
(***************************************************************************)
(* Calls whose progress an MCP client asked for (mcp/server.ts             *)
(* callProxiedTool): each on a connection of its own, on which it is told  *)
(* of every call of the session, and from which it has to learn which is   *)
(* its own before it can pass on progress or cancel.  A call goes by its   *)
(* caller; all are calls to one session.                                   *)
(***************************************************************************)
EXTENDS Naturals, Sequences, FiniteSets

CONSTANTS
    Callers,        \* calls with a progress token, on one session
    ToolOf,         \* the tool that each calls
    NoCall          \* callId before it is learned

\* Assumed of the constants.
ProgressAssumption == NoCall \notin Callers

VARIABLES
    phase,          \* of the caller: "aside", "subscribing", "calling" or "over"
    aborted,        \* its MCP client sent notifications/cancelled
    learned,        \* callId
    forwarded,      \* whose progress it passed on to its MCP client
    resuming,       \* the answer to events.subscribe is read, what follows has not run
    toDaemon,       \* requests on the caller's connection
    fromDaemon,     \* answers and events on it
    listed,         \* connections with an event subscription
    running,        \* calls under way at the app
    progressed,     \* bound: a call reports progress once
    cancelled       \* calls that the daemon was told to cancel

callerVars == <<phase, aborted, learned, forwarded, resuming>>
daemonSideVars == <<listed, running, progressed, cancelled>>
progressVars == <<callerVars, toDaemon, fromDaemon, daemonSideVars>>

ProgressInit ==
    /\ phase = [c \in Callers |-> "aside"]
    /\ aborted = [c \in Callers |-> FALSE]
    /\ learned = [c \in Callers |-> NoCall]
    /\ forwarded = [c \in Callers |-> {}]
    /\ resuming = {}
    /\ toDaemon = [c \in Callers |-> <<>>]
    /\ fromDaemon = [c \in Callers |-> <<>>]
    /\ listed = {} /\ running = {} /\ progressed = {} /\ cancelled = {}

Line(what, call) == [what |-> what, call |-> call]
Ask(c, what, call) == toDaemon' = [toDaemon EXCEPT ![c] = Append(@, Line(what, call))]

\* The fan-out: everyone who subscribed to this session is told.
Told(what, call) ==
    [c \in Callers |-> IF c \in listed THEN Append(fromDaemon[c], Line(what, call))
                       ELSE fromDaemon[c]]

-----------------------------------------------------------------------------
(* The caller. *)

Proxy(c) ==
    /\ phase[c] = "aside"
    /\ phase' = [phase EXCEPT ![c] = "subscribing"]
    /\ Ask(c, "subscribe", NoCall)
    /\ UNCHANGED <<aborted, learned, forwarded, resuming, fromDaemon, daemonSideVars>>

\* maybeCancel, once both the id is known and the client has given up.
Cancels(c, id) == Ask(c, "cancel", id)

Abort(c) ==
    /\ phase[c] \in {"aside", "subscribing", "calling"} /\ ~aborted[c]
    /\ aborted' = [aborted EXCEPT ![c] = TRUE]
    /\ IF learned[c] # NoCall THEN Cancels(c, learned[c]) ELSE UNCHANGED toDaemon
    /\ UNCHANGED <<phase, learned, forwarded, resuming, fromDaemon, daemonSideVars>>

Reads(c, what) ==
    /\ fromDaemon[c] # <<>> /\ Head(fromDaemon[c]).what = what
    /\ fromDaemon' = [fromDaemon EXCEPT ![c] = Tail(@)]

HearSubscribed(c) ==
    /\ Reads(c, "subscribed")
    /\ resuming' = resuming \union {c}
    /\ UNCHANGED <<phase, aborted, learned, forwarded, toDaemon, daemonSideVars>>

\* After the await: the listener is added and the call is made.
Call(c) ==
    /\ c \in resuming /\ resuming' = resuming \ {c}
    /\ phase' = [phase EXCEPT ![c] = "calling"]
    /\ Ask(c, "call", NoCall)
    /\ UNCHANGED <<aborted, learned, forwarded, fromDaemon, daemonSideVars>>

\* Events in the chunk of that answer find no listener.
HearTooEarly(c) ==
    /\ c \in resuming
    /\ \E what \in {"started", "progress"} : Reads(c, what)
    /\ UNCHANGED <<callerVars, toDaemon, daemonSideVars>>

\* A variant that takes any call that starts for its own, and one that does not
\* look at aborts from before it knew the id.
IsMine(c, call) == learned[c] = NoCall
TakenFor(c, call) == learned[c] = NoCall /\ ToolOf[call] = ToolOf[c]

LearnOnly(c, id) == learned' = [learned EXCEPT ![c] = id] /\ UNCHANGED toDaemon
Learn(c, id) ==
    /\ learned' = [learned EXCEPT ![c] = id]
    /\ IF aborted[c] THEN Cancels(c, id) ELSE UNCHANGED toDaemon

HearStarted(c) ==
    /\ phase[c] = "calling"
    /\ Reads(c, "started")
    /\ LET call == Head(fromDaemon[c]).call
       IN IF TakenFor(c, call) THEN Learn(c, call) ELSE UNCHANGED <<learned, toDaemon>>
    /\ UNCHANGED <<phase, aborted, forwarded, resuming, daemonSideVars>>

\* A variant that passes on whatever progress it hears of, once it knows its id.
AnyProgress(c, call) == learned[c] # NoCall
MyProgress(c, call) == learned[c] = call

HearProgress(c) ==
    /\ phase[c] = "calling"
    /\ Reads(c, "progress")
    /\ LET call == Head(fromDaemon[c]).call
       IN forwarded' = IF MyProgress(c, call)
                       THEN [forwarded EXCEPT ![c] = @ \union {call}] ELSE forwarded
    /\ UNCHANGED <<phase, aborted, learned, resuming, toDaemon, daemonSideVars>>

\* The answer to tools.call; the stream is closed, and a cancel that is still on
\* its way may or may not be read.
HearResult(c) ==
    /\ Reads(c, "result")
    /\ phase' = [phase EXCEPT ![c] = "over"]
    /\ \/ toDaemon' = [toDaemon EXCEPT ![c] = <<>>]
       \/ toDaemon # [toDaemon EXCEPT ![c] = <<>>] /\ UNCHANGED toDaemon
    /\ listed' = listed \ {c}
    /\ UNCHANGED <<aborted, learned, forwarded, resuming, running, progressed, cancelled>>

-----------------------------------------------------------------------------
(* The daemon. *)

\* A variant that answers but keeps the entry.
FinishedKept(c) ==
    /\ UNCHANGED running
    /\ fromDaemon' = IF phase[c] = "over" THEN fromDaemon
                     ELSE [fromDaemon EXCEPT ![c] = Append(@, Line("result", c))]

Finished(c) ==
    /\ running' = running \ {c}
    /\ fromDaemon' = IF phase[c] = "over" THEN fromDaemon
                     ELSE [fromDaemon EXCEPT ![c] = Append(@, Line("result", c))]

Take(c, what) ==
    /\ toDaemon[c] # <<>> /\ Head(toDaemon[c]).what = what
    /\ toDaemon' = [toDaemon EXCEPT ![c] = Tail(@)]

Subscribe(c) ==
    /\ Take(c, "subscribe")
    /\ listed' = listed \union {c}
    /\ fromDaemon' = [fromDaemon EXCEPT ![c] = Append(@, Line("subscribed", NoCall))]
    /\ UNCHANGED <<callerVars, running, progressed, cancelled>>

Start(c) ==
    /\ Take(c, "call")
    /\ running' = running \union {c}
    /\ fromDaemon' = Told("started", c)
    /\ UNCHANGED <<callerVars, listed, progressed, cancelled>>

\* Policy, the session or the registry refuses it: there is no start.
Refuse(c) ==
    /\ Take(c, "call")
    /\ fromDaemon' = [fromDaemon EXCEPT ![c] = Append(@, Line("result", c))]
    /\ UNCHANGED <<callerVars, daemonSideVars>>

\* tools.cancel goes by the id alone; who made the call is not asked.  The app is
\* told, and the call ends when it answers.
CancelCall(c) ==
    /\ Take(c, "cancel")
    /\ cancelled' = cancelled \union ({Head(toDaemon[c]).call} \intersect running)
    /\ UNCHANGED <<callerVars, fromDaemon, listed, running, progressed>>

Progress(c) ==
    /\ c \in running \ progressed
    /\ progressed' = progressed \union {c}
    /\ fromDaemon' = Told("progress", c)
    /\ UNCHANGED <<callerVars, toDaemon, listed, running, cancelled>>

\* The app answers, with a result or tool_cancelled, or the deadline passes.
Finish(c) ==
    /\ c \in running
    /\ Finished(c)
    /\ UNCHANGED <<callerVars, toDaemon, listed, progressed, cancelled>>

ProgressNext ==
    \E c \in Callers :
        \/ Proxy(c) \/ Abort(c)
        \/ HearSubscribed(c) \/ Call(c) \/ HearTooEarly(c)
        \/ HearStarted(c) \/ HearProgress(c) \/ HearResult(c)
        \/ Subscribe(c) \/ Start(c) \/ Refuse(c) \/ CancelCall(c)
        \/ Progress(c) \/ Finish(c)

ProgressSpec == ProgressInit /\ [][ProgressNext]_progressVars

-----------------------------------------------------------------------------
(* Properties. *)

ProgressTypeOK ==
    /\ \A c \in Callers : phase[c] \in {"aside", "subscribing", "calling", "over"}
    /\ \A c \in Callers : learned[c] \in Callers \union {NoCall} /\ forwarded[c] \subseteq Callers
    /\ resuming \subseteq {c \in Callers : phase[c] = "subscribing"}
    /\ progressed \subseteq Callers /\ cancelled \subseteq Callers
    \* A call runs for a caller that waits for it, on a connection that is there.
    /\ \A c \in running : phase[c] = "calling" /\ c \in listed

Delivered == \A c \in Callers : toDaemon[c] = <<>> /\ fromDaemon[c] = <<>>

\* No other caller calls the same tool: then what it learns is its own call's id.
Alone(c) == \A d \in Callers \ {c} : ToolOf[d] # ToolOf[c]

\* An MCP client that gives up on its call is heard, before the call has an id,
\* while the start is on its way, or later: the app is told of every aborted call
\* that runs, or, if callers share the tool, of the call that was taken for it.
AbortGetsThrough ==
    Delivered => \A c \in running : aborted[c] =>
        /\ learned[c] # NoCall
        /\ learned[c] \in running => learned[c] \in cancelled
        /\ Alone(c) => c \in cancelled

\* A call is cancelled for a caller that gave up and calls the same tool: for the
\* caller itself, if it is alone with its tool.
CancelledForItsTool ==
    \A c \in cancelled : \E d \in Callers : aborted[d] /\ ToolOf[d] = ToolOf[c] /\ learned[d] = c

\* What is passed on as the progress of a call is that of one call, of its tool.
ProgressOfOneCall ==
    \A c \in Callers : \A d \in forwarded[c] :
        d = learned[c] /\ ToolOf[d] = ToolOf[c] /\ (Alone(c) => d = c)

\* Calls with progress, of the same tool or of others, as a whole: an abort reaches
\* the call it is for, whenever it comes, and none of another tool; the same of
\* the progress that is told.
ProgressSound ==
    ProgressTypeOK /\ AbortGetsThrough /\ CancelledForItsTool /\ ProgressOfOneCall

\* Nobody else's call is cancelled for an abort: "the first `tool_call_started` it
\* sees for this tool name is unambiguously this call" (mcp/server.ts).  The code
\* does not keep this when two calls are of one tool: README, section 10.
OnlyOwnCancelled == \A c \in cancelled : aborted[c]
===============================================================================
