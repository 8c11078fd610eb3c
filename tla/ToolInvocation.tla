-------------------------- MODULE ToolInvocation --------------------------
(***************************************************************************)
(* A tool call inside the app, from the frame to the answer: the native     *)
(* invoker and its coroutine per call (AppductToolInvoker.kt), the bridge   *)
(* that suspends that coroutine on a reply from JavaScript                  *)
(* (NativeAppductModule.kt), and the handler of the JavaScript client       *)
(* (packages/react-native/src/client/tool-invocation.ts and index.ts).      *)
(* A reply is a result or an error, whatever the error's type.              *)
(*                                                                          *)
(* The native dispatcher is one thread with a queue of tasks: frames,       *)
(* coroutines to start and coroutines to resume. JavaScript is another,     *)
(* with a queue of native events. One tool is registered and unregistered;  *)
(* a name that is registered is in both maps (RegistrySync).                *)
(***************************************************************************)
EXTENDS Naturals, Sequences, SequencesExt

CONSTANTS Calls

VARIABLES
  registered,  \* whether the tool is registered, natively and in JavaScript
  asked,       \* calls the daemon has sent
  told,        \* calls the daemon has sent a tool_cancel for
  suspended,   \* the socket has closed
  tasks,       \* the native dispatcher's queue
  job,         \* the coroutine of each call
  cause,       \* why it is being cancelled
  inFlight,    \* the invoker's map of jobs
  pending,     \* the bridge's map of calls that wait for a reply
  reply,       \* what JavaScript replied to each call
  answers,     \* the frames sent for each call
  events,      \* native events on their way to JavaScript
  alive,       \* the client has not been destroyed
  handler,     \* what handleToolCall is doing about each call
  running,     \* the client's map of abort controllers
  aborted      \* calls whose signal has been aborted
nativeVars == <<tasks, job, cause, inFlight, pending, answers>>
jsVars == <<alive, handler, running, aborted>>
daemonVars == <<asked, told, suspended>>
invocationVars == <<registered, daemonVars, nativeVars, reply, events, jsVars>>

InvocationInit ==
  /\ registered = TRUE
  /\ asked = {}
  /\ told = {}
  /\ suspended = FALSE
  /\ tasks = <<>>
  /\ job = [c \in Calls |-> "none"]
  /\ cause = [c \in Calls |-> "none"]
  /\ inFlight = {}
  /\ pending = {}
  /\ reply = [c \in Calls |-> "none"]
  /\ answers = [c \in Calls |-> <<>>]
  /\ events = <<>>
  /\ alive = TRUE
  /\ handler = [c \in Calls |-> "none"]
  /\ running = {}
  /\ aborted = {}

-----------------------------------------------------------------------------
(* What comes from the daemon and from the socket, each a task.             *)

Post(todo, c) == tasks' = Append(tasks, [task |-> todo, call |-> c])
KeepNative == UNCHANGED <<job, cause, inFlight, pending, answers>>

DaemonCalls(c) ==
  /\ c \notin asked
  /\ ~suspended
  /\ asked' = asked \union {c}
  /\ Post("call", c)
  /\ KeepNative
  /\ UNCHANGED <<registered, told, suspended, reply, events, jsVars>>

(* calls.cancel: a frame, and the call stays pending in the daemon.         *)
DaemonCancels(c) ==
  /\ c \in asked \ told
  /\ ~suspended
  /\ answers[c] = <<>>
  /\ told' = told \union {c}
  /\ Post("cancel", c)
  /\ KeepNative
  /\ UNCHANGED <<registered, asked, suspended, reply, events, jsVars>>

SocketCloses ==
  /\ ~suspended
  /\ suspended' = TRUE
  /\ tasks' = Append(tasks, [task |-> "abort"])
  /\ KeepNative
  /\ UNCHANGED <<registered, asked, told, reply, events, jsVars>>

-----------------------------------------------------------------------------
(* The native dispatcher.                                                   *)

Answer(c, type) == answers' = [answers EXCEPT ![c] = Append(@, type)]
Emit(kind, c) == events' = IF alive THEN Append(events, [event |-> kind, call |-> c])
                           ELSE events
Take(todo) ==
  /\ tasks # <<>>
  /\ Head(tasks).task = todo

(* A task that puts others at the end of the queue.                         *)
Then(more) == tasks' = Tail(tasks) \o more
Resumption(c) == [task |-> "resume", call |-> c]

(* The coroutine is created, entered in the map and only then started.      *)
RunCall ==
  /\ Take("call")
  /\ LET c == Head(tasks).call
     IN IF registered
        THEN /\ job' = [job EXCEPT ![c] = "created"]
             /\ inFlight' = inFlight \union {c}
             /\ Then(<<[task |-> "start", call |-> c]>>)
             /\ UNCHANGED answers
        ELSE /\ Answer(c, "tool_not_found")
             /\ Then(<<>>)
             /\ UNCHANGED <<job, inFlight>>
  /\ UNCHANGED <<registered, daemonVars, cause, pending, reply, events, jsVars>>

(* A coroutine cancelled before its first dispatch never runs its body, the *)
(* finally that would clear the map included.                               *)
RunStart ==
  /\ Take("start")
  /\ Then(<<>>)
  /\ LET c == Head(tasks).call
     IN IF cause[c] = "none"
        THEN /\ job' = [job EXCEPT ![c] = "waiting"]
             /\ pending' = pending \union {c}
             /\ Emit("toolCall", c)
        ELSE /\ job' = [job EXCEPT ![c] = "over"]
             /\ UNCHANGED <<pending, events>>
  /\ UNCHANGED <<registered, daemonVars, cause, inFlight, answers, reply, jsVars>>

(* Cancelling a job records why once; a waiting coroutine is resumed with   *)
(* it unless a reply has already resumed it.                                *)
Cancellable(C) == {c \in C : job[c] \in {"created", "waiting"} /\ cause[c] = "none"}
Cancelled(C, why) ==
  cause' = [c \in Calls |-> IF c \in Cancellable(C) THEN why ELSE cause[c]]

\* A variant that resumes whatever waits, resumed already or not.
WakesAgain(c) == job[c] = "waiting"
Wakes(c) == job[c] = "waiting" /\ cause[c] = "none" /\ reply[c] = "none"

RunCancel ==
  /\ Take("cancel")
  /\ LET c == Head(tasks).call
         found == inFlight \intersect {c}
     IN /\ Cancelled(found, "tool_cancelled")
        /\ Then(IF c \in found /\ Wakes(c) THEN <<Resumption(c)>> ELSE <<>>)
  /\ UNCHANGED <<registered, daemonVars, job, inFlight, pending, answers, reply,
                 events, jsVars>>

(* abortAllInFlight, job after job.                                         *)
RunAbort ==
  /\ Take("abort")
  /\ Cancelled(inFlight, "tool_cancelled")
  /\ Then(SetToSeq({Resumption(c) : c \in {d \in inFlight : Wakes(d)}}))
  /\ UNCHANGED <<registered, daemonVars, job, inFlight, pending, answers, reply,
                 events, jsVars>>

\* A variant whose timer lives in JavaScript.
OverdueInJavaScript(c) == alive /\ job[c] = "waiting" /\ cause[c] = "none"
Overdue(c) == job[c] = "waiting" /\ cause[c] = "none"

(* The declared or the default timeout of a call whose body runs.           *)
TimesOut(c) ==
  /\ Overdue(c)
  /\ Cancelled({c}, "tool_timeout")
  /\ tasks' = IF Wakes(c) THEN Append(tasks, Resumption(c)) ELSE tasks
  /\ UNCHANGED <<registered, daemonVars, job, inFlight, pending, answers, reply,
                 events, jsVars>>

(* The coroutine goes on: a cancellation wins over a reply that had not     *)
(* been picked up, is told to JavaScript, and is answered for by native.    *)
RunResume ==
  /\ Take("resume")
  /\ Then(<<>>)
  /\ LET c == Head(tasks).call
     IN /\ job' = [job EXCEPT ![c] = "over"]
        /\ pending' = pending \ {c}
        /\ inFlight' = inFlight \ {c}
        /\ IF cause[c] = "none"
           THEN Answer(c, reply[c]) /\ UNCHANGED events
           ELSE Answer(c, cause[c]) /\ Emit("toolCancel", c)
  /\ UNCHANGED <<registered, daemonVars, cause, reply, jsVars>>

Dispatch == RunCall \/ RunStart \/ RunCancel \/ RunAbort \/ RunResume

-----------------------------------------------------------------------------
(* JavaScript.                                                              *)

KeepDaemon == UNCHANGED <<registered, daemonVars>>

(* respondToToolCall: the first reply to a call that waits for one counts.  *)
Respond(c, type) ==
  IF c \in pending /\ reply[c] = "none"
  THEN /\ reply' = [reply EXCEPT ![c] = type]
       /\ tasks' = IF Wakes(c) THEN Append(tasks, Resumption(c)) ELSE tasks
  ELSE UNCHANGED <<reply, tasks>>

Silent == UNCHANGED <<reply, tasks>>

(* The controller is in the map before the handler first awaits.            *)
HearToolCall ==
  /\ alive
  /\ events # <<>>
  /\ Head(events).event = "toolCall"
  /\ events' = Tail(events)
  /\ LET c == Head(events).call
     IN IF registered
        THEN /\ handler' = [handler EXCEPT ![c] = "validating"]
             /\ running' = running \union {c}
             /\ Silent
        ELSE /\ Respond(c, "error")
             /\ UNCHANGED <<handler, running>>
  /\ KeepDaemon
  /\ KeepNative
  /\ UNCHANGED <<alive, aborted>>

\* A variant that enters the controller in the map once the input is validated.
SignalsOnceHandling(c) == {d \in running \intersect {c} : handler[d] = "handling"}
Signals(c) == running \intersect {c}

HearToolCancel ==
  /\ alive
  /\ events # <<>>
  /\ Head(events).event = "toolCancel"
  /\ events' = Tail(events)
  /\ aborted' = aborted \union Signals(Head(events).call)
  /\ KeepDaemon
  /\ KeepNative
  /\ Silent
  /\ UNCHANGED <<alive, handler, running>>

(* A step of handleToolCall: on to the next stage, or a reply and its end.  *)
Proceed(c, from, to) ==
  /\ handler[c] = from
  /\ handler' = [handler EXCEPT ![c] = to]
  /\ KeepDaemon
  /\ KeepNative
  /\ Silent
  /\ UNCHANGED <<events, alive, running, aborted>>

Conclude(c, from, type) ==
  /\ handler[c] = from
  /\ handler' = [handler EXCEPT ![c] = "over"]
  /\ running' = running \ {c}
  /\ Respond(c, type)
  /\ KeepDaemon
  /\ KeepNative
  /\ UNCHANGED <<events, alive, aborted>>

Validated(c) ==
  \/ Proceed(c, "validating", "handling")
  \/ Conclude(c, "validating", "error")
HandlerEnds(c) ==
  \/ Proceed(c, "handling", "checking")
  \/ Conclude(c, "handling", "error")
Checked(c) == \E type \in {"result", "error"} : Conclude(c, "checking", type)

(* destroy: every signal is aborted and no event is heard any more.         *)
Destroy ==
  /\ alive
  /\ alive' = FALSE
  /\ aborted' = aborted \union running
  /\ running' = {}
  /\ events' = <<>>
  /\ KeepDaemon
  /\ KeepNative
  /\ Silent
  /\ UNCHANGED handler

(* registerTool and the disposer, on the JavaScript thread.                 *)
Toggle ==
  /\ alive
  /\ registered' = ~registered
  /\ KeepNative
  /\ Silent
  /\ UNCHANGED <<daemonVars, events, jsVars>>

InvocationNext ==
  \/ \E c \in Calls : DaemonCalls(c) \/ DaemonCancels(c) \/ TimesOut(c)
  \/ SocketCloses
  \/ Dispatch
  \/ HearToolCall
  \/ HearToolCancel
  \/ \E c \in Calls : Validated(c) \/ HandlerEnds(c) \/ Checked(c)
  \/ Destroy
  \/ Toggle

InvocationSpec == InvocationInit /\ [][InvocationNext]_invocationVars

(* The dispatcher runs what is posted to it and timers fire; a handler may  *)
(* run for ever.                                                            *)
FairInvocationSpec ==
  /\ InvocationSpec
  /\ WF_invocationVars(Dispatch)
  /\ \A c \in Calls : WF_invocationVars(TimesOut(c))

-----------------------------------------------------------------------------
(* The types: only a call in the bridge's map can have a reply to resume    *)
(* with, and no answer is made up by the bridge.                             *)
InvocationTypeOK ==
  /\ registered \in BOOLEAN
  /\ told \subseteq asked /\ asked \subseteq Calls
  /\ suspended \in BOOLEAN
  /\ job \in [Calls -> {"none", "created", "waiting", "over"}]
  /\ cause \in [Calls -> {"none", "tool_cancelled", "tool_timeout"}]
  /\ inFlight \subseteq asked
  /\ pending = {c \in Calls : job[c] = "waiting"}
  /\ reply \in [Calls -> {"none", "result", "error"}]
  /\ alive \in BOOLEAN
  /\ handler \in [Calls -> {"none", "validating", "handling", "checking", "over"}]
  /\ running \subseteq asked
  /\ aborted \subseteq asked

(* A call is answered at most once: the reply, the timeout, a tool_cancel   *)
(* and the loss of the socket race, and one of them answers.                *)
OneAnswer == \A c \in Calls : Len(answers[c]) <= 1

(* When native has given a call up, its handler is told: once the events    *)
(* are heard, a handler that still runs for a call answered as cancelled or *)
(* timed out has an aborted signal, so no cancel overtakes the call.        *)
GivenUpIsAborted ==
  \A c \in Calls :
    /\ events = <<>>
    /\ answers[c] \in {<<"tool_cancelled">>, <<"tool_timeout">>}
    /\ handler[c] \in {"validating", "handling", "checking"}
    => c \in aborted

(* The invoker forgets a call whose body ran, so a late cancel finds none.  *)
(* What a handler that never returns leaves behind is the handler.          *)
StartedIsAnswered ==
  \A c \in Calls : job[c] = "waiting" ~> answers[c] # <<>>

(* PROTOCOL.md on tool_cancel: the app replies tool_cancelled, or answers   *)
(* as it would have; a call that is over has been answered. The code does   *)
(* not keep this: README, section 10.                                       *)
OverIsAnswered == \A c \in Calls : job[c] = "over" => answers[c] # <<>>

(* The invoker as a whole: no call is answered twice, and a handler that    *)
(* was given up has been told to stop.                                      *)
InvocationSound == InvocationTypeOK /\ OneAnswer /\ GivenUpIsAborted
=============================================================================
