-------------------------------- MODULE AppCore --------------------------------
(***************************************************************************)
(* The app's side of a session, as the Android core has it: AppductClient  *)
(* (claim and resume attempts, reconnects, grace) over                     *)
(* AppductConnectionManager (one WebSocket, the process's resume lease).   *)
(*                                                                         *)
(* The client runs on a dispatcher of one thread, the manager on an        *)
(* executor of one thread, and OkHttp calls back from threads of its own.  *)
(* What one thread does between two suspension points is one action.       *)
(* `outbox` is the executor's queue, `inbox` the dispatcher's: events of   *)
(* the manager and continuations of suspended coroutines, in order.        *)
(* Callers, timers and OkHttp come in between at any time.                 *)
(***************************************************************************)
EXTENDS Naturals, Sequences, FiniteSets

CONSTANTS
    Sessions,       \* ids that deep links name
    Attempts,       \* handshake coroutines at a time; one that ended is reused
    LinkTrust,      \* the build pins nothing itself: a link carries the pin to trust
    MaxQueue,       \* bound: queued work under which callers add more and sockets end
    NoSession, NoAttempt

ASSUME AppAssumption ==
    /\ NoSession \notin Sessions
    /\ NoAttempt \notin Attempts
    /\ LinkTrust \in BOOLEAN
    /\ MaxQueue \in Nat

VARIABLES
    \* AppductClient
    clientState,    \* what listeners are told
    held,           \* heldSession
    connectingId,   \* connectingSessionId
    graceJob,       \* graceJob is armed
    jobs,           \* delayed reconnects of this epoch
    reconnectJob,   \* reconnectJob refers to one of them
    resumeInFlight, backgrounded,
    pendingAttempt, \* the attempt whose deferred an ack or a close settles
    attempt,        \* attempt[a]: where its coroutine is, what it is after
    inbox,
    \* AppductConnectionManager and its lease store
    transport,      \* its state
    socket,         \* the current WebSocket
    options,        \* pendingOptions' session
    activeSession,  \* activeSessionId
    connectCall,    \* the attempt whose pendingConnectCompletion is kept
    lease,          \* the process's resume lease
    outbox

timerVars == <<graceJob, jobs, reconnectJob>>
clientVars == <<clientState, held, connectingId, timerVars, resumeInFlight, backgrounded>>
attemptVars == <<pendingAttempt, attempt>>
managerVars == <<transport, socket, options, activeSession, connectCall>>
vars == <<clientVars, attemptVars, inbox, managerVars, lease, outbox>>

ClientStates == {"idle", "connecting", "active", "reconnecting", "closed"}
TransportStates == {"idle", "connecting", "active", "closed", "error"}

\* 1008 is terminal, 1000 a revocation; any other code and none at all may be retried.
CloseCodes == {"1000", "1008", "other"}

\* What a deferred completes with, or an event of the manager carries.
Plain(type) == [type |-> type, session |-> NoSession]
Ack(s) == [type |-> "ack", session |-> s]
Unsettled == Plain("none")

\* "closing": in closeTransport; "launched": queued; "connecting": in
\* connectTransport; "waiting": in deferred.await.  `fresh`: its epoch is the client's.
Steps == {"free", "launched", "closing", "connecting", "waiting"}
Free == [step |-> "free", kind |-> "claim", goal |-> NoSession, fresh |-> FALSE,
         reply |-> Unsettled]

\* heldSession and the lease: `lost` is disconnectedAtMs # null, `over` that grace_s
\* have passed since then (of a lost lease that is found out only when it is read).
NoHeld == [session |-> NoSession, lost |-> FALSE, over |-> FALSE]
NewHeld(s) == [session |-> s, lost |-> FALSE, over |-> FALSE]
NoSocket == [phase |-> "none", closing |-> FALSE]

\* An item of either queue.
Item(what, a) == [type |-> what, of |-> a, body |-> Unsettled]
Event(body) == [type |-> "event", of |-> NoAttempt, body |-> body]

Init ==
    /\ clientState = "idle" /\ held = NoHeld /\ connectingId = NoSession
    /\ graceJob = FALSE /\ jobs = 0 /\ reconnectJob = FALSE
    /\ resumeInFlight = FALSE /\ backgrounded = FALSE
    /\ pendingAttempt = NoAttempt
    /\ attempt = [a \in Attempts |-> Free]
    /\ inbox = <<>>
    /\ transport = "idle" /\ socket = NoSocket
    /\ options = NoSession /\ activeSession = NoSession /\ connectCall = NoAttempt
    /\ lease = NoHeld
    /\ outbox = <<>>
-------------------------------------------------------------------------------
(***************************************************************************)
(* Pieces that several segments share.  `f` is what the segment has made   *)
(* of `attempt` so far, `queue` what is left of the inbox without the      *)
(* segment's own item.                                                     *)
(***************************************************************************)
Busy == transport \in {"connecting", "active"}

\* "continue" marks an attempt that goes on without suspending: nothing else of the
\* client runs before it.
Idle == inbox # <<>> => Head(inbox).type # "continue"
Work == Len(inbox) + Len(outbox)
Calm == Idle /\ Work < MaxQueue

NewEpoch(f, a) == [x \in Attempts |-> [f[x] EXCEPT !.fresh = (x = a)]]

\* settlePendingAttempt: whoever is pending.  One that awaits is queued.
Settle(f, body) ==
    IF pendingAttempt = NoAttempt THEN f ELSE [f EXCEPT ![pendingAttempt].reply = body]
Woken ==
    IF pendingAttempt # NoAttempt /\ attempt[pendingAttempt].step = "waiting"
    THEN <<Item("wake", pendingAttempt)>> ELSE <<>>

\* A new epoch's timers: what is left of an older epoch's does nothing.
NoTimers == graceJob' = FALSE /\ jobs' = 0 /\ reconnectJob' = FALSE

\* clearReconnectJob cancels the job referred to, and no other.
JobsUnreferred == IF reconnectJob THEN jobs - 1 ELSE jobs
ClearReconnectJob == jobs' = JobsUnreferred /\ reconnectJob' = FALSE

\* Mutant: listeners are not told.
FinalizeSilently(f, queue) ==
    /\ attempt' = Settle(NewEpoch(f, NoAttempt), Plain("failed"))
    /\ pendingAttempt' = NoAttempt
    /\ inbox' = queue \o Woken
    /\ NoTimers
    /\ held' = NoHeld
    /\ resumeInFlight' = FALSE
    /\ lease' = NoHeld
    /\ UNCHANGED <<clientState, connectingId, managerVars, outbox>>

FinalizeSessionLost(f, queue) ==
    /\ attempt' = Settle(NewEpoch(f, NoAttempt), Plain("failed"))
    /\ pendingAttempt' = NoAttempt
    /\ inbox' = queue \o Woken
    /\ NoTimers
    /\ held' = NoHeld
    /\ resumeInFlight' = FALSE
    /\ lease' = NoHeld
    /\ clientState' = "closed"
    /\ UNCHANGED <<connectingId, managerVars, outbox>>

\* scheduleReconnectAttempt, with a session held.
ScheduleReconnect ==
    /\ clientState' = "reconnecting"
    /\ jobs' = (IF backgrounded THEN jobs ELSE jobs + 1)
    /\ reconnectJob' = (reconnectJob \/ ~backgrounded)

\* performHandshake, up to connectTransport's suspension.
PerformHandshake(a, f) ==
    /\ pendingAttempt' = a
    /\ attempt' = [f EXCEPT ![a].step = "connecting"]
    /\ outbox' = Append(outbox, Item("connect", a))

ResumeOfHeld ==
    [step |-> "connecting", kind |-> "resume", goal |-> held.session, fresh |-> TRUE,
     reply |-> Unsettled]

\* Mutant: every attempt restarts the grace.
AttemptRestartsGrace(a, queue, jobsLeft, jobReferred) ==
    /\ held' = [held EXCEPT !.lost = TRUE, !.over = FALSE]
    /\ resumeInFlight' = TRUE
    /\ PerformHandshake(a, [attempt EXCEPT ![a] = ResumeOfHeld])
    /\ inbox' = queue
    /\ jobs' = jobsLeft
    /\ reconnectJob' = jobReferred
    /\ UNCHANGED <<clientState, connectingId, graceJob, managerVars, lease>>

\* attemptResume, with a session held and no resume in flight.
AttemptResume(a, queue, jobsLeft, jobReferred) ==
    IF held.over
    THEN FinalizeSessionLost([attempt EXCEPT ![a] = Free], queue)
    ELSE /\ held' = [held EXCEPT !.lost = TRUE]
         /\ resumeInFlight' = TRUE
         /\ PerformHandshake(a, [attempt EXCEPT ![a] = ResumeOfHeld])
         /\ inbox' = queue
         /\ jobs' = jobsLeft
         /\ reconnectJob' = jobReferred
         /\ UNCHANGED <<clientState, connectingId, graceJob, managerVars, lease>>
-------------------------------------------------------------------------------
(***************************************************************************)
(* AppductClient: what callers ask for.                                    *)
(***************************************************************************)
ClaimOf(s) ==
    [step |-> "closing", kind |-> "claim", goal |-> s, fresh |-> TRUE, reply |-> Unsettled]

ConnectInternal(a, s, supersede) ==
    LET superseding == clientState = "reconnecting" \/ supersede
        epoch == NewEpoch(IF superseding THEN Settle(attempt, Plain("failed")) ELSE attempt, a)
        claim == [epoch EXCEPT ![a] = ClaimOf(s)]
    IN  /\ Calm
        /\ attempt[a].step = "free"
        /\ Busy => superseding
        /\ NoTimers
        /\ held' = NoHeld
        /\ connectingId' = s
        /\ resumeInFlight' = FALSE
        /\ lease' = NoHeld
        /\ inbox' = (IF superseding THEN inbox \o Woken ELSE inbox)
        /\ IF Busy
           THEN /\ attempt' = claim
                /\ pendingAttempt' = NoAttempt
                /\ outbox' = Append(outbox, Item("close", a))
                /\ UNCHANGED clientState
           ELSE /\ PerformHandshake(a, claim)
                /\ clientState' = "connecting"
        /\ UNCHANGED <<backgrounded, managerVars>>

\* A link for the session that is already held or being claimed is ignored.
HandleUrl(a, s) ==
    LET holds == clientState \in {"connecting", "active"}
        current == IF held.session # NoSession THEN held.session ELSE connectingId
    IN  /\ ~ (holds /\ current = s)
        /\ ConnectInternal(a, s, holds)

Connect(a, s) == ConnectInternal(a, s, FALSE)

Disconnect ==
    /\ Calm
    /\ NoTimers
    /\ held' = NoHeld
    /\ connectingId' = NoSession
    /\ resumeInFlight' = FALSE
    /\ lease' = NoHeld
    /\ attempt' = Settle(NewEpoch(attempt, NoAttempt), Plain("failed"))
    /\ pendingAttempt' = NoAttempt
    /\ inbox' = inbox \o Woken
    /\ clientState' = "closed"
    /\ outbox' = Append(outbox, Item("close", NoAttempt))
    /\ UNCHANGED <<backgrounded, managerVars>>

MayRestore == Calm /\ held = NoHeld /\ clientState \in {"idle", "closed"}

RestoreExpired ==
    /\ MayRestore
    /\ lease.lost
    /\ lease' = NoHeld
    /\ UNCHANGED <<clientVars, attemptVars, inbox, managerVars, outbox>>

RestoreSession(a) ==
    /\ MayRestore
    /\ attempt[a].step = "free"
    /\ lease # NoHeld
    /\ ~Busy
    /\ attempt' = [NewEpoch(attempt, a) EXCEPT ![a].step = "launched"]
    /\ held' = [lease EXCEPT !.lost = TRUE]
    /\ clientState' = "reconnecting"
    /\ graceJob' = TRUE /\ jobs' = 0 /\ reconnectJob' = FALSE
    /\ inbox' = Append(inbox, Item("launch", a))
    /\ UNCHANGED <<connectingId, resumeInFlight, backgrounded, pendingAttempt, managerVars,
                   lease, outbox>>

EnterBackground ==
    /\ Idle /\ ~backgrounded
    /\ backgrounded' = TRUE
    /\ ClearReconnectJob
    /\ UNCHANGED <<clientState, held, connectingId, graceJob, resumeInFlight, attemptVars, inbox,
                   managerVars, lease, outbox>>

\* Mutant: the state is compared with the wrong one.
ResumesIfActive == held # NoHeld /\ clientState = "active" /\ ~resumeInFlight

ResumesInForeground == held # NoHeld /\ clientState = "reconnecting" /\ ~resumeInFlight

EnterForeground ==
    /\ Idle /\ backgrounded
    /\ ~ResumesInForeground
    /\ backgrounded' = FALSE
    /\ UNCHANGED <<clientState, held, connectingId, timerVars, resumeInFlight, attemptVars, inbox,
                   managerVars, lease, outbox>>

EnterForegroundResuming(a) ==
    /\ Idle /\ backgrounded
    /\ ResumesInForeground
    /\ attempt[a].step = "free"
    /\ backgrounded' = FALSE
    /\ AttemptResume(a, inbox, JobsUnreferred, FALSE)

\* markCurrentLeaseDisconnected, with s as pendingOptions' session.
CurrentLeaseLost(s) ==
    LET current == IF activeSession # NoSession THEN activeSession ELSE s
    IN  IF lease # NoHeld /\ lease.session = current THEN [lease EXCEPT !.lost = TRUE] ELSE lease

\* cleanup
CleanUp == socket' = NoSocket /\ options' = NoSession /\ activeSession' = NoSession

\* The client and its manager are destroyed and made anew (a Metro reload); the
\* process and its lease live on.  (The old executor's queue is drained first.)
Reload ==
    /\ outbox = <<>>
    /\ lease' = CurrentLeaseLost(options)
    /\ CleanUp
    /\ transport' = "idle"
    /\ connectCall' = NoAttempt
    /\ clientState' = "idle"
    /\ held' = NoHeld
    /\ connectingId' = NoSession
    /\ NoTimers
    /\ resumeInFlight' = FALSE
    /\ pendingAttempt' = NoAttempt
    /\ attempt' = [a \in Attempts |-> Free]
    /\ backgrounded' = FALSE
    /\ inbox' = <<>>
    /\ UNCHANGED outbox
-------------------------------------------------------------------------------
(***************************************************************************)
(* AppductClient: timers.                                                  *)
(***************************************************************************)
GraceElapses ==
    /\ held.lost /\ ~held.over
    /\ held' = [held EXCEPT !.over = TRUE]
    /\ UNCHANGED <<clientState, connectingId, timerVars, resumeInFlight, backgrounded,
                   attemptVars, inbox, managerVars, lease, outbox>>

GraceJobFires ==
    /\ Idle
    /\ graceJob /\ held.over
    /\ FinalizeSessionLost(attempt, inbox)
    /\ UNCHANGED backgrounded

ReconnectJobFires(a) ==
    /\ Idle
    /\ jobs > 0 /\ ~resumeInFlight
    /\ attempt[a].step = "free"
    /\ AttemptResume(a, inbox, jobs - 1, FALSE)
    /\ UNCHANGED backgrounded

ReconnectJobInVain ==
    /\ Idle
    /\ jobs > 0 /\ resumeInFlight
    /\ jobs' = jobs - 1
    /\ reconnectJob' = FALSE
    /\ UNCHANGED <<clientState, held, connectingId, graceJob, resumeInFlight, backgrounded,
                   attemptVars, inbox, managerVars, lease, outbox>>
-------------------------------------------------------------------------------
(***************************************************************************)
(* AppductClient: the dispatcher's queue.                                  *)
(***************************************************************************)
Due(what) == inbox # <<>> /\ Head(inbox).type = what
At == Head(inbox).of

\* attemptResume, launched by restoreSession.
Launched ==
    /\ Due("launch")
    /\ attempt[At].fresh /\ held # NoHeld /\ ~resumeInFlight
    /\ AttemptResume(At, Tail(inbox), jobs, reconnectJob)
    /\ UNCHANGED backgrounded

LaunchedInVain ==
    /\ Due("launch")
    /\ ~attempt[At].fresh \/ held = NoHeld \/ resumeInFlight
    /\ attempt' = [attempt EXCEPT ![At] = Free]
    /\ inbox' = Tail(inbox)
    /\ UNCHANGED <<clientVars, pendingAttempt, managerVars, lease, outbox>>

\* closeTransport returns: connectInternal goes on, whatever its epoch.
TransportClosed ==
    /\ Due("closed")
    /\ clientState' = "connecting"
    /\ PerformHandshake(At, attempt)
    /\ inbox' = Tail(inbox)
    /\ UNCHANGED <<held, connectingId, timerVars, resumeInFlight, backgrounded, managerVars, lease>>

\* connectTransport has returned or thrown: the attempt awaits its deferred, or goes
\* on at once if that is settled.
Await(a, f, queue) ==
    /\ attempt' = [f EXCEPT ![a].step = "waiting"]
    /\ inbox' = IF f[a].reply = Unsettled THEN queue ELSE <<Item("continue", a)>> \o queue
    /\ UNCHANGED <<clientVars, managerVars, lease, outbox>>

Connected ==
    /\ Due("connected")
    /\ Await(At, attempt, Tail(inbox))
    /\ UNCHANGED pendingAttempt

\* connectTransport throws: whoever is pending is failed.
ConnectFailed ==
    /\ Due("failed")
    /\ Await(At, Settle(attempt, Plain("failed")), Tail(inbox) \o Woken)
    /\ pendingAttempt' = NoAttempt

\* onAckReceived
AckReceived(ack) ==
    /\ graceJob' = FALSE
    /\ ClearReconnectJob
    /\ resumeInFlight' = FALSE
    /\ held' = NewHeld(ack.session)
    /\ clientState' = "active"

Resumes(kind) == (Due("wake") \/ Due("continue")) /\ attempt[At].kind = kind
Reply == attempt[At].reply
Ended == [attempt EXCEPT ![At] = Free]
EndsWithoutSideEffects ==
    /\ attempt' = Ended
    /\ inbox' = Tail(inbox)
    /\ UNCHANGED <<backgrounded, pendingAttempt, managerVars, lease, outbox>>

\* The rest of connectInternal.
ClaimSuperseded ==
    /\ Resumes("claim") /\ ~attempt[At].fresh
    /\ EndsWithoutSideEffects
    /\ UNCHANGED <<clientState, held, connectingId, timerVars, resumeInFlight>>

ClaimAcked ==
    /\ Resumes("claim") /\ attempt[At].fresh /\ Reply.type = "ack"
    /\ AckReceived(Reply)
    /\ connectingId' = NoSession
    /\ EndsWithoutSideEffects

ClaimFails ==
    /\ Resumes("claim") /\ attempt[At].fresh /\ Reply.type # "ack"
    /\ clientState' = "closed"
    /\ connectingId' = NoSession
    /\ EndsWithoutSideEffects
    /\ UNCHANGED <<held, timerVars, resumeInFlight>>

\* The rest of attemptResume.
ResumeSuperseded ==
    /\ Resumes("resume") /\ ~attempt[At].fresh
    /\ resumeInFlight' = FALSE
    /\ EndsWithoutSideEffects
    /\ UNCHANGED <<clientState, held, connectingId, timerVars>>

ResumeAcked ==
    /\ Resumes("resume") /\ attempt[At].fresh /\ Reply.type = "ack"
    /\ AckReceived(Reply)
    /\ EndsWithoutSideEffects
    /\ UNCHANGED connectingId

ResumeRejected ==
    /\ Resumes("resume") /\ attempt[At].fresh /\ Reply.type = "1008"
    /\ FinalizeSessionLost(Ended, Tail(inbox))
    /\ UNCHANGED backgrounded

\* Mutant: the flag is not reset.
ResumeFailsInFlight ==
    /\ Resumes("resume") /\ attempt[At].fresh /\ Reply.type \notin {"ack", "1008"}
    /\ ScheduleReconnect
    /\ EndsWithoutSideEffects
    /\ UNCHANGED <<held, connectingId, graceJob, resumeInFlight>>

ResumeFails ==
    /\ Resumes("resume") /\ attempt[At].fresh /\ Reply.type \notin {"ack", "1008"}
    /\ resumeInFlight' = FALSE
    /\ ScheduleReconnect
    /\ EndsWithoutSideEffects
    /\ UNCHANGED <<held, connectingId, graceJob>>

\* onTransportMessage with a session_ack, onTransportClose of a pending attempt.
EventSettles ==
    /\ Due("event")
    /\ pendingAttempt # NoAttempt
    /\ attempt' = Settle(attempt, Head(inbox).body)
    /\ pendingAttempt' = NoAttempt
    /\ inbox' = Tail(inbox) \o Woken
    /\ UNCHANGED <<clientVars, managerVars, lease, outbox>>

\* An ack that nobody waits for is dropped.
AckDropped ==
    /\ Due("event")
    /\ pendingAttempt = NoAttempt /\ Head(inbox).body.type = "ack"
    /\ inbox' = Tail(inbox)
    /\ UNCHANGED <<clientVars, attemptVars, managerVars, lease, outbox>>

\* onSocketLost
LossSeen == Due("event") /\ pendingAttempt = NoAttempt /\ Head(inbox).body.type # "ack"
Unresumable == Head(inbox).body.type \in {"1000", "1008"} \/ held.over

SocketLostWithoutSession ==
    /\ LossSeen /\ held = NoHeld
    /\ clientState' = "closed"
    /\ inbox' = Tail(inbox)
    /\ UNCHANGED <<held, connectingId, timerVars, resumeInFlight, backgrounded, attemptVars,
                   managerVars, lease, outbox>>

SocketLostForGood ==
    /\ LossSeen /\ held # NoHeld /\ Unresumable
    /\ FinalizeSessionLost(attempt, Tail(inbox))
    /\ UNCHANGED backgrounded

SocketLost ==
    /\ LossSeen /\ held # NoHeld /\ ~Unresumable
    /\ held' = [held EXCEPT !.lost = TRUE]
    /\ graceJob' = TRUE
    /\ ScheduleReconnect
    /\ inbox' = Tail(inbox)
    /\ UNCHANGED <<connectingId, resumeInFlight, backgrounded, attemptVars, managerVars,
                   lease, outbox>>
-------------------------------------------------------------------------------
(***************************************************************************)
(* AppductConnectionManager: the executor's queue.                         *)
(***************************************************************************)
Queued(what) == outbox # <<>> /\ Head(outbox).type = what
Caller == Head(outbox).of

\* A completion: the coroutine that waits for it is queued.
Complete(a, what) == IF a = NoAttempt THEN <<>> ELSE <<Item(what, a)>>

PerformConnectRefused ==
    /\ Queued("connect")
    /\ Busy
    /\ inbox' = inbox \o Complete(Caller, "failed")
    /\ outbox' = Tail(outbox)
    /\ UNCHANGED <<clientVars, attemptVars, managerVars, lease>>

\* The configuration, the link's expiry or its address is not acceptable.  A resume
\* passes those its claim has passed, but it carries no pin.
PerformConnectInvalid ==
    /\ Queued("connect")
    /\ ~Busy
    /\ attempt[Caller].kind = "claim" \/ LinkTrust
    /\ inbox' = inbox \o Complete(Caller, "failed")
    /\ outbox' = Tail(outbox)
    /\ UNCHANGED <<clientVars, attemptVars, managerVars, lease>>

Dialable == Queued("connect") /\ ~Busy /\ (attempt[Caller].kind = "resume" => ~LinkTrust)

\* (A socket that an error left behind is cancelled.)
PerformConnect ==
    /\ Dialable
    /\ socket' = [phase |-> "dialing", closing |-> FALSE]
    /\ options' = attempt[Caller].goal
    /\ activeSession' = NoSession
    /\ connectCall' = Caller
    /\ transport' = "connecting"
    /\ outbox' = Tail(outbox)
    /\ UNCHANGED <<clientVars, attemptVars, inbox, lease>>

\* Mutant: the error rejects the call and resets nothing.
ThrowsWithoutReset ==
    /\ Dialable
    /\ transport' = "connecting"
    /\ CleanUp
    /\ connectCall' = NoAttempt
    /\ inbox' = inbox \o Complete(Caller, "failed")
    /\ outbox' = Tail(outbox)
    /\ UNCHANGED <<clientVars, attemptVars, lease>>

\* No socket can be made.
PerformConnectThrows ==
    /\ Dialable
    /\ transport' = "error"
    /\ CleanUp
    /\ lease' = IF lease # NoHeld /\ lease.session = attempt[Caller].goal
                THEN [lease EXCEPT !.lost = TRUE] ELSE lease
    /\ connectCall' = NoAttempt
    /\ inbox' = inbox \o Complete(Caller, "failed")
    /\ outbox' = Tail(outbox)
    /\ UNCHANGED <<clientVars, attemptVars>>

PerformCloseWithoutSocket ==
    /\ Queued("close")
    /\ socket = NoSocket
    /\ lease' = NoHeld
    /\ CleanUp
    /\ transport' = "closed"
    /\ inbox' = inbox \o <<Event(Plain("other"))>> \o Complete(Caller, "closed")
    /\ outbox' = Tail(outbox)
    /\ UNCHANGED <<clientVars, attemptVars, connectCall>>

\* Mutant: the connect in flight is dropped without an answer.
CloseForgetsConnect ==
    /\ Queued("close")
    /\ socket # NoSocket
    /\ lease' = NoHeld
    /\ socket' = [socket EXCEPT !.closing = TRUE]
    /\ inbox' = inbox \o Complete(Caller, "closed")
    /\ connectCall' = NoAttempt
    /\ outbox' = Tail(outbox)
    /\ UNCHANGED <<clientVars, attemptVars, transport, options, activeSession>>

\* The close handshake begins; the state stays what it is and the caller goes on.
PerformClose ==
    /\ Queued("close")
    /\ socket # NoSocket
    /\ lease' = NoHeld
    /\ socket' = [socket EXCEPT !.closing = TRUE]
    /\ inbox' = inbox \o Complete(connectCall, "failed") \o Complete(Caller, "closed")
    /\ connectCall' = NoAttempt
    /\ outbox' = Tail(outbox)
    /\ UNCHANGED <<clientVars, attemptVars, transport, options, activeSession>>
-------------------------------------------------------------------------------
(***************************************************************************)
(* AppductConnectionManager: callbacks of the current WebSocket.           *)
(***************************************************************************)
\* handleOpen: the first frame is sent, unless a close was queued before it.
SocketOpens ==
    /\ socket.phase = "dialing"
    /\ socket' = [socket EXCEPT !.phase = "open"]
    /\ transport' = IF socket.closing THEN "error" ELSE transport
    /\ inbox' = inbox \o Complete(connectCall, IF socket.closing THEN "failed" ELSE "connected")
    /\ connectCall' = NoAttempt
    /\ UNCHANGED <<clientVars, attemptVars, options, activeSession, lease, outbox>>

\* handleIncomingMessage with the session_ack: the lease first, then the state, then
\* the event.
AckArrives ==
    /\ socket.phase = "open"
    /\ transport = "connecting"
    /\ lease' = NewHeld(options)
    /\ activeSession' = options
    /\ options' = NoSession
    /\ transport' = "active"
    /\ inbox' = Append(inbox, Event(Ack(options)))
    /\ UNCHANGED <<clientVars, attemptVars, socket, connectCall, outbox>>

\* A message is refused (binary, malformed, of another session, an invalid ack), or
\* one cannot be sent.
SocketBreaks ==
    /\ socket.phase = "open"
    /\ transport # "error"
    /\ transport' = "error"
    /\ socket' = [socket EXCEPT !.closing = TRUE]
    /\ UNCHANGED <<clientVars, attemptVars, inbox, options, activeSession, connectCall, lease, outbox>>

MayEnd == jobs + Work < MaxQueue

\* handleClosed
SocketCloses(code) ==
    /\ MayEnd
    /\ socket.phase = "open"
    /\ lease' = IF code = "1000" THEN NoHeld ELSE CurrentLeaseLost(options)
    /\ CleanUp
    /\ transport' = IF transport = "error" THEN "error" ELSE "closed"
    /\ inbox' = Append(inbox, Event(Plain(code)))
    /\ UNCHANGED <<clientVars, attemptVars, connectCall, outbox>>

\* handleFailure: connect()'s completion first, then the event.
SocketFails ==
    /\ MayEnd
    /\ socket # NoSocket
    /\ transport' = "error"
    /\ lease' = CurrentLeaseLost(options)
    /\ CleanUp
    /\ inbox' = inbox \o Complete(connectCall, "failed") \o <<Event(Plain("other"))>>
    /\ connectCall' = NoAttempt
    /\ UNCHANGED <<clientVars, attemptVars, outbox>>
-------------------------------------------------------------------------------
Callers ==
    \/ \E a \in Attempts, s \in Sessions : HandleUrl(a, s) \/ Connect(a, s)
    \/ \E a \in Attempts : RestoreSession(a) \/ EnterForegroundResuming(a)
    \/ Disconnect \/ RestoreExpired \/ EnterBackground \/ EnterForeground \/ Reload

Timers ==
    \/ GraceElapses \/ GraceJobFires \/ ReconnectJobInVain
    \/ \E a \in Attempts : ReconnectJobFires(a)

Dispatcher ==
    \/ Launched \/ LaunchedInVain \/ TransportClosed \/ Connected \/ ConnectFailed
    \/ ClaimSuperseded \/ ClaimAcked \/ ClaimFails
    \/ ResumeSuperseded \/ ResumeAcked \/ ResumeRejected \/ ResumeFails
    \/ EventSettles \/ AckDropped
    \/ SocketLostWithoutSession \/ SocketLostForGood \/ SocketLost

Executor ==
    \/ PerformConnectRefused \/ PerformConnectInvalid \/ PerformConnect \/ PerformConnectThrows
    \/ PerformCloseWithoutSocket \/ PerformClose

Peer ==
    \/ SocketOpens \/ AckArrives \/ SocketBreaks \/ SocketFails
    \/ \E code \in CloseCodes : SocketCloses(code)

Next == Callers \/ Timers \/ Dispatcher \/ Executor \/ Peer

Spec == Init /\ [][Next]_vars

\* OkHttp's connect timeout ends a dial; a daemon answers a first frame or closes the
\* socket, and a close that was begun ends, if only by OkHttp's cancellation.
DialEnds == SocketOpens \/ (socket.phase = "dialing" /\ SocketFails)
HandshakeEnds ==
    /\ transport = "connecting" \/ socket.closing
    /\ AckArrives \/ \E code \in CloseCodes : SocketCloses(code)

\* Both threads run what is queued, and the clock moves on.
FairSpec ==
    /\ Spec
    /\ WF_vars(Dispatcher) /\ WF_vars(Executor)
    /\ WF_vars(GraceElapses) /\ WF_vars(GraceJobFires)
    /\ WF_vars(ReconnectJobInVain) /\ WF_vars(\E a \in Attempts : ReconnectJobFires(a))
    /\ WF_vars(DialEnds) /\ WF_vars(HandshakeEnds)
-------------------------------------------------------------------------------
Records == [session : Sessions \union {NoSession}, lost : BOOLEAN, over : BOOLEAN]

\* The variables have their types, a reference to a reconnect is to one that is
\* armed, and the grace job is armed for a session that is held and lost.
TypeOK ==
    /\ clientState \in ClientStates /\ transport \in TransportStates
    /\ held \in Records /\ lease \in Records
    /\ jobs \in Nat /\ (reconnectJob => jobs > 0)
    /\ graceJob => held.lost
    /\ \A a \in Attempts : attempt[a].step \in Steps

\* Every connectTransport and closeTransport returns exactly once: a coroutine that
\* is suspended in one is in one queue or is the kept completion, and one that was
\* answered is queued once, whatever close, failure or error met on the way.
Count(queue, a) == Cardinality({i \in 1..Len(queue) : queue[i].of = a})
Places(a) == Count(inbox, a) + Count(outbox, a) + (IF connectCall = a THEN 1 ELSE 0)

InTransport(a) == attempt[a].step \in {"launched", "closing", "connecting"}
Answered(a) == attempt[a].step = "waiting" /\ attempt[a].reply # Unsettled

OneCompletion ==
    \A a \in Attempts : Places(a) = IF InTransport(a) \/ Answered(a) THEN 1 ELSE 0

\* The attempt that the next ack or close is given to still waits for one: a deferred
\* is not settled twice.
PendingIsUnsettled ==
    pendingAttempt # NoAttempt =>
        /\ attempt[pendingAttempt].step \in {"connecting", "waiting"}
        /\ attempt[pendingAttempt].reply = Unsettled

\* The manager is never wedged in "connecting" or "active" with no socket that could
\* bring it out of there, and keeps a connect's completion only while it dials.
NeverWedged ==
    /\ Busy => socket # NoSocket
    /\ connectCall # NoAttempt => socket.phase = "dialing" /\ ~socket.closing

\* A client that tells its listeners it is active or reconnecting holds a session,
\* unless a link has taken it and the old socket is being closed.
HeldIsTold ==
    clientState \in {"active", "reconnecting"} =>
        held # NoHeld \/ \E a \in Attempts : attempt[a].step = "closing"

\* A client in the foreground that is reconnecting has a retry armed or an attempt
\* of its own epoch under way.
ReconnectUnderWay ==
    clientState = "reconnecting" /\ ~backgrounded =>
        jobs > 0 \/ \E a \in Attempts : attempt[a].fresh /\ attempt[a].step # "free"

\* resumeInFlight, which makes every retry a no-op, is never left set: there is a
\* resume attempt that will reset it.
NoPhantomResume ==
    resumeInFlight =>
        \E a \in Attempts : attempt[a].kind = "resume" /\ attempt[a].step # "free"

\* What a client that has lost its socket needs in order to come back: the session,
\* something under way in its own epoch, and no resume that it waits for in vain.
RecoverySound == HeldIsTold /\ ReconnectUnderWay /\ NoPhantomResume

\* Reconnecting ends, by a resume or when the grace is over, unless the app is in the
\* background (where a retry that was dropped there waits for the foreground).
ReconnectingEnds == clientState = "reconnecting" ~> clientState # "reconnecting" \/ backgrounded

\* docs/ARCHITECTURE.md section 9, "On socket loss, auto-reconnect": with nothing of
\* the client in progress, a client that is active has a socket to be active on.
ActiveHasSocket ==
    clientState = "active" /\ inbox = <<>> /\ (\A a \in Attempts : attempt[a].step = "free") =>
        socket # NoSocket

\* The same sentence: only the loss of the socket takes a client from active to
\* reconnecting.
\* The code does not keep this: README, section 10.
ReconnectOnlyOnLoss ==
    [][clientState = "active" /\ clientState' = "reconnecting" => transport # "active"]_vars

\* handleUrl: "A parsed, valid payload supersedes whatever session is currently held or
\* being claimed".  A claim is not refused on account of a socket that its own client
\* has closed.
\* The code does not keep this: README, section 10.
ClosedSocketIsNoObstacle ==
    [][~ (PerformConnectRefused /\ socket.closing /\ attempt[Caller].kind = "claim"
            /\ attempt[Caller].fresh)]_vars

\* The same sentence as for ActiveHasSocket: a resume that finds the transport free
\* opens a connection.
\* The code does not keep this: README, section 10.
ResumeOpensConnection ==
    [][Queued("connect") /\ outbox' = Tail(outbox) /\ ~Busy /\ attempt[Caller].kind = "resume"
        => transport' \in {"connecting", "error"}]_vars
===============================================================================
