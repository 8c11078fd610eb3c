---------------------------- MODULE AppCoreProofs ----------------------------
(***************************************************************************)
(* Proofs about the app's core, for any number of links and of handshakes  *)
(* at a time, any length of the queues, and both kinds of trust.           *)
(***************************************************************************)
EXTENDS AppCore, FiniteSetTheorems, SequenceTheorems, TLAPS

SomeSession == Sessions \union {NoSession}
SomeAttempt == Attempts \union {NoAttempt}
Answers == [type : {"ack", "failed"} \union CloseCodes, session : SomeSession]
Bodies == Answers \union {Unsettled}
AttemptRecords ==
    [step : Steps, kind : {"claim", "resume"}, goal : SomeSession, fresh : BOOLEAN,
     reply : Bodies]

\* Only events, and closes that nobody waits for, belong to no attempt.
InboxItems ==
    [type : {"launch", "closed", "connected", "failed", "wake", "continue"}, of : Attempts,
     body : Bodies]
    \union [type : {"event"}, of : {NoAttempt}, body : Answers]
OutboxItems ==
    [type : {"connect"}, of : Attempts, body : Bodies]
    \union [type : {"close"}, of : SomeAttempt, body : Bodies]

Sockets == [phase : {"none", "dialing", "open"}, closing : BOOLEAN]

ClientTyped ==
    /\ clientState \in ClientStates
    /\ held \in Records
    /\ graceJob \in BOOLEAN /\ reconnectJob \in BOOLEAN /\ jobs \in Nat
    /\ reconnectJob => jobs > 0
    /\ graceJob => held.lost

AttemptsTyped ==
    /\ pendingAttempt \in SomeAttempt
    /\ attempt \in [Attempts -> AttemptRecords]

QueuesTyped == inbox \in Seq(InboxItems) /\ outbox \in Seq(OutboxItems)

ManagerTyped ==
    /\ transport \in TransportStates
    /\ socket \in Sockets
    /\ options \in SomeSession /\ activeSession \in SomeSession
    /\ connectCall \in SomeAttempt
    /\ lease \in Records

\* What TypeOK needs to be inductive: the contents of the queues and of the attempts,
\* from which what the client and the manager hold is taken.
Typed == ClientTyped /\ AttemptsTyped /\ QueuesTyped /\ ManagerTyped

IInv == Typed /\ NeverWedged
-------------------------------------------------------------------------------
(***************************************************************************)
(* What the shared pieces of a segment return.                             *)
(***************************************************************************)
LEMMA PlainTyped == \A type \in {"failed"} \union CloseCodes : Plain(type) \in Answers
  BY DEF Plain, Answers, SomeSession

LEMMA AckTyped == \A s \in SomeSession : Ack(s) \in Answers
  BY DEF Ack, Answers

LEMMA UnsettledTyped == Unsettled \in Bodies /\ Unsettled \notin Answers
  BY DEF Unsettled, Plain, Bodies, Answers, CloseCodes

LEMMA FreeTyped == Free \in AttemptRecords
  BY UnsettledTyped DEF Free, AttemptRecords, Steps, SomeSession

LEMMA InboxItemTyped ==
    ASSUME NEW what \in {"launch", "closed", "connected", "failed", "wake", "continue"},
           NEW a \in Attempts
    PROVE  Item(what, a) \in InboxItems
  BY UnsettledTyped DEF Item, InboxItems

LEMMA EventTyped == \A body \in Answers : Event(body) \in InboxItems
  BY DEF Event, InboxItems

LEMMA OutboxItemTyped ==
    /\ \A a \in Attempts : Item("connect", a) \in OutboxItems
    /\ \A a \in SomeAttempt : Item("close", a) \in OutboxItems
  BY UnsettledTyped DEF Item, OutboxItems

LEMMA NewEpochTyped ==
    ASSUME NEW f \in [Attempts -> AttemptRecords], NEW a
    PROVE  NewEpoch(f, a) \in [Attempts -> AttemptRecords]
  BY DEF NewEpoch, AttemptRecords

LEMMA SettleTyped ==
    ASSUME AttemptsTyped, NEW f \in [Attempts -> AttemptRecords], NEW body \in Bodies
    PROVE  Settle(f, body) \in [Attempts -> AttemptRecords]
  BY DEF Settle, AttemptRecords, AttemptsTyped, SomeAttempt

LEMMA WokenTyped ==
    ASSUME AttemptsTyped
    PROVE  Woken \in Seq(InboxItems)
<1>1. CASE pendingAttempt # NoAttempt
  <2>1. Item("wake", pendingAttempt) \in InboxItems
    BY <1>1, InboxItemTyped DEF AttemptsTyped, SomeAttempt
  <2> QED  BY <2>1 DEF Woken
<1>2. CASE pendingAttempt = NoAttempt
  BY <1>2 DEF Woken
<1> QED  BY <1>1, <1>2

LEMMA CompleteTyped ==
    ASSUME NEW a \in SomeAttempt, NEW what \in {"closed", "connected", "failed"}
    PROVE  Complete(a, what) \in Seq(InboxItems)
<1>1. CASE a # NoAttempt
  <2>1. Item(what, a) \in InboxItems
    BY <1>1, InboxItemTyped DEF SomeAttempt
  <2> QED  BY <1>1, <2>1 DEF Complete
<1>2. CASE a = NoAttempt
  BY <1>2 DEF Complete
<1> QED  BY <1>1, <1>2

LEMMA QueueConcat ==
    ASSUME NEW q \in Seq(InboxItems), NEW r \in Seq(InboxItems)
    PROVE  q \o r \in Seq(InboxItems)
  BY ConcatProperties

LEMMA InboxHead ==
    ASSUME QueuesTyped, inbox # <<>>
    PROVE  /\ Head(inbox) \in InboxItems
           /\ Tail(inbox) \in Seq(InboxItems)
  BY HeadTailProperties DEF QueuesTyped

LEMMA OutboxHead ==
    ASSUME QueuesTyped, outbox # <<>>
    PROVE  /\ Head(outbox) \in OutboxItems
           /\ Tail(outbox) \in Seq(OutboxItems)
  BY HeadTailProperties DEF QueuesTyped

LEMMA NoHeldTyped == NoHeld \in Records /\ ~NoHeld.lost
  BY DEF NoHeld, Records

LEMMA NewHeldTyped == \A s \in SomeSession : NewHeld(s) \in Records
  BY DEF NewHeld, Records, SomeSession

LEMMA LeaseLostTyped ==
    ASSUME ManagerTyped, NEW s
    PROVE  CurrentLeaseLost(s) \in Records
  BY DEF CurrentLeaseLost, ManagerTyped, Records

LEMMA JobsUnreferredTyped ==
    ASSUME ClientTyped
    PROVE  JobsUnreferred \in Nat
  BY DEF ClientTyped, JobsUnreferred

\* Only the lease is shared by both threads.
LEMMA ManagerKept ==
    ASSUME IInv, UNCHANGED managerVars, lease' \in Records
    PROVE  ManagerTyped' /\ NeverWedged'
  BY DEF IInv, Typed, ManagerTyped, managerVars, NeverWedged, Busy
-------------------------------------------------------------------------------
(***************************************************************************)
(* Segments that end in a shared piece.                                    *)
(***************************************************************************)
\* finalizeSessionLost keeps the invariant, whatever the segment did before it.
LEMMA FinalizeIInv ==
    ASSUME IInv, NEW f \in [Attempts -> AttemptRecords], NEW queue \in Seq(InboxItems),
           FinalizeSessionLost(f, queue)
    PROVE  IInv'
<1> USE DEF IInv, Typed, FinalizeSessionLost
<1>1. ClientTyped'
  BY NoHeldTyped DEF ClientTyped, NoTimers, ClientStates
<1>2. AttemptsTyped'
  <2>1. Plain("failed") \in Bodies
    BY PlainTyped DEF Bodies
  <2>2. attempt' \in [Attempts -> AttemptRecords]
    BY <2>1, NewEpochTyped, SettleTyped
  <2> QED  BY <2>2 DEF AttemptsTyped, SomeAttempt
<1>3. QueuesTyped'
  <2>1. inbox' \in Seq(InboxItems)
    BY WokenTyped, QueueConcat
  <2> QED  BY <2>1 DEF QueuesTyped
<1>4. ManagerTyped' /\ NeverWedged'
  BY NoHeldTyped DEF ManagerTyped, managerVars, NeverWedged, Busy
<1> QED  BY <1>1, <1>2, <1>3, <1>4

\* performHandshake queues a connect of its own attempt.
LEMMA HandshakeTyped ==
    ASSUME Typed, NEW a \in Attempts, NEW f \in [Attempts -> AttemptRecords],
           PerformHandshake(a, f)
    PROVE  AttemptsTyped' /\ outbox' \in Seq(OutboxItems)
<1>1. AttemptsTyped'
  <2>1. attempt' \in [Attempts -> AttemptRecords]
    BY SMTT(30) DEF PerformHandshake, AttemptRecords, Steps
  <2> QED  BY <2>1 DEF AttemptsTyped, PerformHandshake, SomeAttempt
<1>2. outbox' \in Seq(OutboxItems)
  BY OutboxItemTyped, AppendProperties DEF Typed, QueuesTyped, PerformHandshake
<1> QED  BY <1>1, <1>2

LEMMA AttemptResumeIInv ==
    ASSUME IInv, NEW a \in Attempts, NEW queue \in Seq(InboxItems), NEW jobsLeft \in Nat,
           NEW jobReferred \in BOOLEAN, jobReferred => jobsLeft > 0,
           AttemptResume(a, queue, jobsLeft, jobReferred)
    PROVE  IInv'
<1>1. CASE held.over
  <2>1. [attempt EXCEPT ![a] = Free] \in [Attempts -> AttemptRecords]
    BY FreeTyped DEF IInv, Typed, AttemptsTyped
  <2> QED  BY <1>1, <2>1, FinalizeIInv DEF AttemptResume
<1>2. CASE ~held.over
  <2>1. ResumeOfHeld \in AttemptRecords
    BY UnsettledTyped DEF IInv, Typed, ClientTyped, Records, ResumeOfHeld, AttemptRecords, Steps,
                          SomeSession
  <2>2. [attempt EXCEPT ![a] = ResumeOfHeld] \in [Attempts -> AttemptRecords]
    BY <2>1 DEF IInv, Typed, AttemptsTyped
  <2>3. AttemptsTyped' /\ QueuesTyped'
    BY <1>2, <2>2, HandshakeTyped DEF IInv, AttemptResume, QueuesTyped
  <2>4. ClientTyped'
    BY <1>2 DEF IInv, Typed, ClientTyped, AttemptResume, Records
  <2>5. ManagerTyped' /\ NeverWedged'
    BY <1>2 DEF IInv, Typed, ManagerTyped, AttemptResume, managerVars, NeverWedged, Busy
  <2> QED  BY <2>3, <2>4, <2>5 DEF IInv, Typed
<1> QED  BY <1>1, <1>2
-------------------------------------------------------------------------------
(***************************************************************************)
(* One lemma per group of actions, one step per action.                    *)
(***************************************************************************)
LEMMA InitIInv == Init => IInv
<1> SUFFICES ASSUME Init PROVE IInv
  OBVIOUS
<1>1. ClientTyped
  BY NoHeldTyped DEF Init, ClientTyped, ClientStates
<1>2. AttemptsTyped
  BY FreeTyped DEF Init, AttemptsTyped, SomeAttempt
<1>3. QueuesTyped
  BY DEF Init, QueuesTyped
<1>4. ManagerTyped /\ NeverWedged
  BY NoHeldTyped DEF Init, ManagerTyped, NeverWedged, Busy, TransportStates, Sockets, NoSocket,
                     SomeSession, SomeAttempt
<1> QED  BY <1>1, <1>2, <1>3, <1>4 DEF IInv, Typed

LEMMA ConnectInternalIInv ==
    ASSUME IInv, NEW a \in Attempts, NEW s \in Sessions, NEW supersede \in BOOLEAN,
           ConnectInternal(a, s, supersede)
    PROVE  IInv'
<1> DEFINE superseding == clientState = "reconnecting" \/ supersede
           settled == IF superseding THEN Settle(attempt, Plain("failed")) ELSE attempt
           claim == [NewEpoch(settled, a) EXCEPT ![a] = ClaimOf(s)]
<1>1. claim \in [Attempts -> AttemptRecords]
  <2>1. Plain("failed") \in Bodies
    BY PlainTyped DEF Bodies
  <2>2. settled \in [Attempts -> AttemptRecords]
    BY <2>1, SettleTyped DEF IInv, Typed, AttemptsTyped
  <2>3. ClaimOf(s) \in AttemptRecords
    BY UnsettledTyped DEF ClaimOf, AttemptRecords, Steps, SomeSession
  <2> HIDE DEF settled
  <2> QED  BY <2>2, <2>3, NewEpochTyped
<1>2. ClientTyped' /\ ManagerTyped' /\ NeverWedged'
  <2>1. /\ graceJob' = FALSE /\ jobs' = 0 /\ reconnectJob' = FALSE
        /\ held' = NoHeld /\ lease' = NoHeld
        /\ clientState' \in {clientState, "connecting"}
        /\ UNCHANGED managerVars
    BY DEF ConnectInternal, NoTimers
  <2> QED  BY <2>1, NoHeldTyped DEF IInv, Typed, ClientTyped, ClientStates, ManagerTyped,
                                    managerVars, NeverWedged, Busy
<1>3. inbox' \in Seq(InboxItems)
  <2>1. inbox' \in {inbox, inbox \o Woken}
    BY DEF ConnectInternal
  <2> QED  BY <2>1, WokenTyped, QueueConcat DEF IInv, Typed, QueuesTyped
<1>4. CASE Busy
  <2>1. attempt' = claim /\ pendingAttempt' = NoAttempt
        /\ outbox' = Append(outbox, Item("close", a))
    BY <1>4 DEF ConnectInternal
  <2>2. AttemptsTyped'
    BY <1>1, <2>1 DEF AttemptsTyped, SomeAttempt
  <2>3. outbox' \in Seq(OutboxItems)
    BY <2>1, OutboxItemTyped, AppendProperties DEF IInv, Typed, QueuesTyped, SomeAttempt
  <2> QED  BY <1>2, <1>3, <2>2, <2>3 DEF IInv, Typed, QueuesTyped
<1>5. CASE ~Busy
  <2>1. PerformHandshake(a, claim)
    BY <1>5 DEF ConnectInternal
  <2> HIDE DEF claim
  <2>2. AttemptsTyped' /\ outbox' \in Seq(OutboxItems)
    BY <1>1, <2>1, HandshakeTyped DEF IInv
  <2> QED  BY <1>2, <1>3, <2>2 DEF IInv, Typed, QueuesTyped
<1> QED  BY <1>4, <1>5

LEMMA CallersIInv == IInv /\ Callers => IInv'
<1> SUFFICES ASSUME IInv, Callers PROVE IInv'
  OBVIOUS
<1>1. ASSUME NEW a \in Attempts, NEW s \in Sessions, HandleUrl(a, s) \/ Connect(a, s)
      PROVE  IInv'
  <2> DEFINE holds == clientState \in {"connecting", "active"}
  <2>1. CASE HandleUrl(a, s)
    <3>1. ConnectInternal(a, s, holds) /\ holds \in BOOLEAN
      BY <2>1 DEF HandleUrl
    <3> QED  BY <3>1, ConnectInternalIInv
  <2>2. CASE Connect(a, s)
    BY <2>2, ConnectInternalIInv DEF Connect
  <2> QED  BY <1>1, <2>1, <2>2
<1>2. ASSUME NEW a \in Attempts, RestoreSession(a)
      PROVE  IInv'
  <2>1. ClientTyped'
    BY <1>2 DEF IInv, Typed, ClientTyped, ManagerTyped, RestoreSession, Records, ClientStates
  <2>2. AttemptsTyped'
    <3>1. NewEpoch(attempt, a) \in [Attempts -> AttemptRecords]
      BY NewEpochTyped DEF IInv, Typed, AttemptsTyped
    <3>2. attempt' = [NewEpoch(attempt, a) EXCEPT ![a].step = "launched"]
      BY <1>2 DEF RestoreSession
    <3>3. attempt' \in [Attempts -> AttemptRecords]
      BY <3>1, <3>2 DEF AttemptRecords, Steps
    <3> QED  BY <1>2, <3>3 DEF IInv, Typed, AttemptsTyped, RestoreSession
  <2>3. QueuesTyped'
    BY <1>2, InboxItemTyped, AppendProperties DEF IInv, Typed, QueuesTyped, RestoreSession
  <2>4. ManagerTyped' /\ NeverWedged'
    BY <1>2 DEF IInv, Typed, ManagerTyped, RestoreSession, managerVars, NeverWedged, Busy
  <2> QED  BY <2>1, <2>2, <2>3, <2>4 DEF IInv, Typed
<1>3. ASSUME NEW a \in Attempts, EnterForegroundResuming(a)
      PROVE  IInv'
  BY <1>3, AttemptResumeIInv, JobsUnreferredTyped
     DEF EnterForegroundResuming, IInv, Typed, QueuesTyped
<1>4. CASE Disconnect
  <2>1. ClientTyped' /\ ManagerTyped' /\ NeverWedged'
    BY <1>4, NoHeldTyped DEF IInv, Typed, ClientTyped, ManagerTyped, Disconnect, NoTimers,
                             ClientStates, managerVars, NeverWedged, Busy
  <2>2. AttemptsTyped'
    <3>1. Plain("failed") \in Bodies
      BY PlainTyped DEF Bodies
    <3>2. attempt' \in [Attempts -> AttemptRecords]
      BY <1>4, <3>1, NewEpochTyped, SettleTyped DEF IInv, Typed, AttemptsTyped, Disconnect
    <3> QED  BY <1>4, <3>2 DEF AttemptsTyped, Disconnect, SomeAttempt
  <2>3. QueuesTyped'
    BY <1>4, WokenTyped, QueueConcat, OutboxItemTyped, AppendProperties
       DEF IInv, Typed, QueuesTyped, Disconnect, SomeAttempt
  <2> QED  BY <2>1, <2>2, <2>3 DEF IInv, Typed
<1>5. CASE RestoreExpired
  BY <1>5, NoHeldTyped
     DEF RestoreExpired, IInv, Typed, ClientTyped, AttemptsTyped, QueuesTyped, ManagerTyped,
         clientVars, timerVars, attemptVars, managerVars, NeverWedged, Busy
<1>6. CASE EnterBackground
  BY <1>6, JobsUnreferredTyped
     DEF EnterBackground, ClearReconnectJob, IInv, Typed, ClientTyped, AttemptsTyped, QueuesTyped,
         ManagerTyped, attemptVars, managerVars, NeverWedged, Busy
<1>7. CASE EnterForeground
  BY <1>7
     DEF EnterForeground, IInv, Typed, ClientTyped, AttemptsTyped, QueuesTyped, ManagerTyped,
         timerVars, attemptVars, managerVars, NeverWedged, Busy
<1>8. CASE Reload
  <2>1. ClientTyped'
    BY <1>8, NoHeldTyped DEF Reload, NoTimers, ClientTyped, ClientStates
  <2>2. AttemptsTyped' /\ QueuesTyped'
    BY <1>8, FreeTyped DEF Reload, IInv, Typed, AttemptsTyped, QueuesTyped, SomeAttempt
  <2>3. ManagerTyped' /\ NeverWedged'
    BY <1>8, LeaseLostTyped DEF Reload, CleanUp, IInv, Typed, ManagerTyped, TransportStates,
          Sockets, NoSocket, SomeSession, SomeAttempt, NeverWedged, Busy
  <2> QED  BY <2>1, <2>2, <2>3 DEF IInv, Typed
<1> QED  BY <1>1, <1>2, <1>3, <1>4, <1>5, <1>6, <1>7, <1>8 DEF Callers

LEMMA TimersIInv == IInv /\ Timers => IInv'
<1> SUFFICES ASSUME IInv, Timers PROVE IInv'
  OBVIOUS
<1>1. CASE GraceElapses
  BY <1>1
     DEF GraceElapses, IInv, Typed, ClientTyped, AttemptsTyped, QueuesTyped, ManagerTyped,
         timerVars, attemptVars, managerVars, NeverWedged, Busy, Records
<1>2. CASE GraceJobFires
  BY <1>2, FinalizeIInv DEF GraceJobFires, IInv, Typed, AttemptsTyped, QueuesTyped
<1>3. CASE ReconnectJobInVain
  <2>1. ClientTyped'
    <3>1. jobs' \in Nat /\ reconnectJob' = FALSE /\ UNCHANGED <<clientState, held, graceJob>>
      BY <1>3 DEF ReconnectJobInVain, IInv, Typed, ClientTyped
    <3> QED  BY <3>1 DEF IInv, Typed, ClientTyped
  <2>2. AttemptsTyped' /\ QueuesTyped'
    BY <1>3 DEF ReconnectJobInVain, IInv, Typed, AttemptsTyped, QueuesTyped, attemptVars
  <2>3. ManagerTyped' /\ NeverWedged'
    BY <1>3, ManagerKept DEF ReconnectJobInVain, IInv, Typed, ManagerTyped
  <2> QED  BY <2>1, <2>2, <2>3 DEF IInv, Typed
<1>4. ASSUME NEW a \in Attempts, ReconnectJobFires(a)
      PROVE  IInv'
  <2>1. jobs - 1 \in Nat
    BY <1>4 DEF ReconnectJobFires, IInv, Typed, ClientTyped
  <2> QED  BY <1>4, <2>1, AttemptResumeIInv DEF ReconnectJobFires, IInv, Typed, QueuesTyped
<1> QED  BY <1>1, <1>2, <1>3, <1>4 DEF Timers
\* The item that a segment of the dispatcher belongs to.
LEMMA DueTyped ==
    ASSUME IInv, NEW what, Due(what)
    PROVE  /\ Tail(inbox) \in Seq(InboxItems)
           /\ what # "event" => At \in Attempts
           /\ what = "event" =>
                Head(inbox).of = NoAttempt /\ Head(inbox).body \in Answers
  BY InboxHead DEF IInv, Typed, Due, At, InboxItems

LEMMA AwaitTyped ==
    ASSUME IInv, NEW a \in Attempts, NEW f \in [Attempts -> AttemptRecords],
           NEW queue \in Seq(InboxItems), Await(a, f, queue), pendingAttempt' \in SomeAttempt
    PROVE  IInv'
<1>1. ClientTyped'
  BY DEF IInv, Typed, Await, ClientTyped, clientVars, timerVars
<1>2. AttemptsTyped'
  BY DEF Await, AttemptsTyped, AttemptRecords, Steps
<1>3. QueuesTyped'
  <2>1. <<Item("continue", a)>> \in Seq(InboxItems)
    BY InboxItemTyped
  <2>2. inbox' \in {queue, <<Item("continue", a)>> \o queue}
    BY DEF Await
  <2>3. inbox' \in Seq(InboxItems)
    BY <2>1, <2>2, QueueConcat
  <2> QED  BY <2>3 DEF IInv, Typed, QueuesTyped, Await
<1>4. ManagerTyped' /\ NeverWedged'
  BY ManagerKept DEF IInv, Typed, ManagerTyped, Await
<1> QED  BY <1>1, <1>2, <1>3, <1>4 DEF IInv, Typed

\* A coroutine that runs to its end leaves the manager alone.
LEMMA EndsTyped ==
    ASSUME IInv, NEW kind, Resumes(kind)
    PROVE  /\ At \in Attempts /\ Tail(inbox) \in Seq(InboxItems)
           /\ Ended \in [Attempts -> AttemptRecords]
           /\ Reply \in Bodies
           /\ EndsWithoutSideEffects =>
                AttemptsTyped' /\ QueuesTyped' /\ ManagerTyped' /\ NeverWedged'
<1>1. At \in Attempts /\ Tail(inbox) \in Seq(InboxItems)
  BY DueTyped DEF Resumes
<1>2. Ended \in [Attempts -> AttemptRecords]
  BY FreeTyped DEF IInv, Typed, AttemptsTyped, Ended
<1>3. Reply \in Bodies
  BY <1>1 DEF IInv, Typed, AttemptsTyped, AttemptRecords, Reply
<1>4. ASSUME EndsWithoutSideEffects
      PROVE  AttemptsTyped' /\ QueuesTyped' /\ ManagerTyped' /\ NeverWedged'
  BY <1>1, <1>2, <1>4, ManagerKept
     DEF IInv, Typed, AttemptsTyped, QueuesTyped, EndsWithoutSideEffects, ManagerTyped
<1> QED  BY <1>1, <1>2, <1>3, <1>4

LEMMA AckReceivedTyped ==
    ASSUME NEW ack \in Bodies, AckReceived(ack), ClientTyped
    PROVE  ClientTyped'
<1>1. ack.session \in SomeSession
  BY DEF Bodies, Answers, Unsettled, Plain, SomeSession
<1> QED  BY <1>1, NewHeldTyped, JobsUnreferredTyped
            DEF AckReceived, ClearReconnectJob, ClientTyped, ClientStates

LEMMA ScheduleReconnectTyped ==
    ASSUME ClientTyped, ScheduleReconnect, held' \in Records, graceJob' \in BOOLEAN,
           graceJob' => held'.lost
    PROVE  ClientTyped'
<1>1. jobs' \in Nat /\ reconnectJob' \in BOOLEAN /\ (reconnectJob' => jobs' > 0)
  BY DEF ClientTyped, ScheduleReconnect
<1> QED  BY <1>1 DEF ClientTyped, ScheduleReconnect, ClientStates

LEMMA HandshakeStepsIInv ==
    IInv /\ (Launched \/ LaunchedInVain \/ TransportClosed \/ Connected \/ ConnectFailed)
        => IInv'
<1> SUFFICES ASSUME IInv,
                    Launched \/ LaunchedInVain \/ TransportClosed \/ Connected \/ ConnectFailed
             PROVE  IInv'
  OBVIOUS
<1>1. CASE Launched
  <2>1. At \in Attempts /\ Tail(inbox) \in Seq(InboxItems)
    BY <1>1, DueTyped DEF Launched
  <2>2. jobs \in Nat /\ reconnectJob \in BOOLEAN /\ (reconnectJob => jobs > 0)
    BY DEF IInv, Typed, ClientTyped
  <2>3. AttemptResume(At, Tail(inbox), jobs, reconnectJob)
    BY <1>1 DEF Launched
  <2> QED  BY <2>1, <2>2, <2>3, AttemptResumeIInv
<1>2. CASE LaunchedInVain
  <2>1. ClientTyped'
    BY <1>2 DEF LaunchedInVain, IInv, Typed, ClientTyped, clientVars, timerVars
  <2>2. AttemptsTyped' /\ QueuesTyped'
    BY <1>2, DueTyped, FreeTyped DEF LaunchedInVain, IInv, Typed, AttemptsTyped, QueuesTyped
  <2>3. ManagerTyped' /\ NeverWedged'
    BY <1>2, ManagerKept DEF LaunchedInVain, IInv, Typed, ManagerTyped
  <2> QED  BY <2>1, <2>2, <2>3 DEF IInv, Typed
<1>3. CASE TransportClosed
  <2>1. AttemptsTyped' /\ outbox' \in Seq(OutboxItems)
    BY <1>3, DueTyped, HandshakeTyped DEF TransportClosed, IInv, Typed, AttemptsTyped
  <2>2. inbox' \in Seq(InboxItems)
    BY <1>3, DueTyped DEF TransportClosed
  <2>3. ClientTyped'
    BY <1>3 DEF TransportClosed, IInv, Typed, ClientTyped, timerVars, ClientStates
  <2>4. ManagerTyped' /\ NeverWedged'
    BY <1>3, ManagerKept DEF TransportClosed, IInv, Typed, ManagerTyped
  <2> QED  BY <2>1, <2>2, <2>3, <2>4 DEF IInv, Typed, QueuesTyped
<1>4. CASE Connected
  <2>1. At \in Attempts /\ Tail(inbox) \in Seq(InboxItems)
    BY <1>4, DueTyped DEF Connected
  <2>2. attempt \in [Attempts -> AttemptRecords] /\ pendingAttempt' \in SomeAttempt
    BY <1>4 DEF Connected, IInv, Typed, AttemptsTyped
  <2>3. Await(At, attempt, Tail(inbox))
    BY <1>4 DEF Connected
  <2> QED  BY <2>1, <2>2, <2>3, AwaitTyped
<1>5. CASE ConnectFailed
  <2>1. Plain("failed") \in Bodies
    BY PlainTyped DEF Bodies
  <2>2. Settle(attempt, Plain("failed")) \in [Attempts -> AttemptRecords]
    BY <2>1, SettleTyped DEF IInv, Typed, AttemptsTyped
  <2>3. At \in Attempts /\ Tail(inbox) \in Seq(InboxItems)
    BY <1>5, DueTyped DEF ConnectFailed
  <2>4. Tail(inbox) \o Woken \in Seq(InboxItems)
    BY <2>3, WokenTyped, QueueConcat DEF IInv, Typed
  <2>5. pendingAttempt' \in SomeAttempt
    BY <1>5 DEF ConnectFailed, SomeAttempt
  <2> QED  BY <1>5, <2>2, <2>3, <2>4, <2>5, AwaitTyped DEF ConnectFailed
<1> QED  BY <1>1, <1>2, <1>3, <1>4, <1>5

LEMMA EndStepsIInv ==
    IInv /\ (\/ ClaimSuperseded \/ ClaimAcked \/ ClaimFails
             \/ ResumeSuperseded \/ ResumeAcked \/ ResumeRejected \/ ResumeFails)
        => IInv'
<1> SUFFICES ASSUME IInv,
                    \/ ClaimSuperseded \/ ClaimAcked \/ ClaimFails
                    \/ ResumeSuperseded \/ ResumeAcked \/ ResumeRejected \/ ResumeFails
             PROVE  IInv'
  OBVIOUS
<1>1. CASE ClaimSuperseded \/ ClaimFails \/ ResumeSuperseded
  <2>1. ClientTyped'
    BY <1>1 DEF ClaimSuperseded, ClaimFails, ResumeSuperseded, IInv, Typed, ClientTyped, timerVars,
                ClientStates
  <2> QED  BY <1>1, <2>1, EndsTyped DEF ClaimSuperseded, ClaimFails, ResumeSuperseded, IInv, Typed
<1>2. CASE ClaimAcked \/ ResumeAcked
  <2>1. ClientTyped'
    BY <1>2, EndsTyped, AckReceivedTyped DEF ClaimAcked, ResumeAcked, IInv, Typed
  <2> QED  BY <1>2, <2>1, EndsTyped DEF ClaimAcked, ResumeAcked, IInv, Typed
<1>3. CASE ResumeRejected
  BY <1>3, EndsTyped, FinalizeIInv DEF ResumeRejected
<1>4. CASE ResumeFails
  <2>1. ClientTyped'
    BY <1>4, ScheduleReconnectTyped DEF ResumeFails, IInv, Typed, ClientTyped
  <2> QED  BY <1>4, <2>1, EndsTyped DEF ResumeFails, IInv, Typed
<1> QED  BY <1>1, <1>2, <1>3, <1>4

LEMMA EventStepsIInv ==
    IInv /\ (\/ EventSettles \/ AckDropped
             \/ SocketLostWithoutSession \/ SocketLostForGood \/ SocketLost)
        => IInv'
<1> SUFFICES ASSUME IInv,
                    \/ EventSettles \/ AckDropped
                    \/ SocketLostWithoutSession \/ SocketLostForGood \/ SocketLost
             PROVE  IInv'
  OBVIOUS
<1>1. CASE EventSettles
  <2>1. ClientTyped'
    BY <1>1 DEF EventSettles, IInv, Typed, ClientTyped, clientVars, timerVars
  <2>2. AttemptsTyped'
    <3>1. attempt' \in [Attempts -> AttemptRecords]
      <4>1. Head(inbox).body \in Bodies
        BY <1>1, DueTyped DEF EventSettles, Bodies
      <4> QED  BY <1>1, <4>1, SettleTyped DEF EventSettles, IInv, Typed, AttemptsTyped
    <3> QED  BY <1>1, <3>1 DEF EventSettles, AttemptsTyped, SomeAttempt
  <2>3. QueuesTyped'
    BY <1>1, DueTyped, WokenTyped, QueueConcat DEF EventSettles, IInv, Typed, QueuesTyped
  <2>4. ManagerTyped' /\ NeverWedged'
    BY <1>1, ManagerKept DEF EventSettles, IInv, Typed, ManagerTyped
  <2> QED  BY <2>1, <2>2, <2>3, <2>4 DEF IInv, Typed
<1>2. CASE AckDropped
  <2>1. ClientTyped'
    BY <1>2 DEF AckDropped, IInv, Typed, ClientTyped, clientVars, timerVars
  <2>2. AttemptsTyped' /\ QueuesTyped'
    BY <1>2, DueTyped DEF AckDropped, IInv, Typed, AttemptsTyped, QueuesTyped, attemptVars
  <2>3. ManagerTyped' /\ NeverWedged'
    BY <1>2, ManagerKept DEF AckDropped, IInv, Typed, ManagerTyped
  <2> QED  BY <2>1, <2>2, <2>3 DEF IInv, Typed
<1>3. CASE SocketLostWithoutSession
  <2>1. ClientTyped'
    BY <1>3 DEF SocketLostWithoutSession, IInv, Typed, ClientTyped, timerVars, ClientStates
  <2>2. AttemptsTyped' /\ QueuesTyped'
    BY <1>3, DueTyped DEF SocketLostWithoutSession, LossSeen, IInv, Typed, AttemptsTyped,
                          QueuesTyped, attemptVars
  <2>3. ManagerTyped' /\ NeverWedged'
    BY <1>3, ManagerKept DEF SocketLostWithoutSession, IInv, Typed, ManagerTyped
  <2> QED  BY <2>1, <2>2, <2>3 DEF IInv, Typed
<1>4. CASE SocketLostForGood
  BY <1>4, DueTyped, FinalizeIInv DEF SocketLostForGood, LossSeen, IInv, Typed, AttemptsTyped
<1>5. CASE SocketLost
  <2>1. held' \in Records /\ held'.lost
    BY <1>5 DEF SocketLost, IInv, Typed, ClientTyped, Records
  <2>2. ClientTyped'
    BY <1>5, <2>1, ScheduleReconnectTyped DEF SocketLost, IInv, Typed
  <2>3. AttemptsTyped' /\ QueuesTyped'
    BY <1>5, DueTyped DEF SocketLost, LossSeen, IInv, Typed, AttemptsTyped, QueuesTyped,
                          attemptVars
  <2>4. ManagerTyped' /\ NeverWedged'
    BY <1>5, ManagerKept DEF SocketLost, IInv, Typed, ManagerTyped
  <2> QED  BY <2>2, <2>3, <2>4 DEF IInv, Typed
<1> QED  BY <1>1, <1>2, <1>3, <1>4, <1>5

LEMMA DispatcherIInv == IInv /\ Dispatcher => IInv'
  BY HandshakeStepsIInv, EndStepsIInv, EventStepsIInv DEF Dispatcher
LEMMA ExecutorIInv == IInv /\ Executor => IInv'
<1> SUFFICES ASSUME IInv, Executor, outbox # <<>>, outbox' = Tail(outbox),
                    UNCHANGED <<clientVars, attemptVars>>
             PROVE  IInv'
  BY DEF Executor, PerformConnectRefused, PerformConnectInvalid, PerformConnect,
         PerformConnectThrows, PerformCloseWithoutSocket, PerformClose, Queued, Dialable
<1>1. ClientTyped' /\ AttemptsTyped' /\ outbox' \in Seq(OutboxItems)
  BY OutboxHead DEF IInv, Typed, ClientTyped, AttemptsTyped, clientVars, timerVars, attemptVars
<1>2. Caller \in SomeAttempt /\ (Queued("connect") => Caller \in Attempts)
  BY OutboxHead DEF IInv, Typed, Caller, Queued, OutboxItems, SomeAttempt
<1>3. /\ Complete(Caller, "failed") \in Seq(InboxItems)
      /\ Complete(Caller, "closed") \in Seq(InboxItems)
      /\ Complete(connectCall, "failed") \in Seq(InboxItems)
  BY <1>2, CompleteTyped DEF IInv, Typed, ManagerTyped
<1>4. inbox \in Seq(InboxItems)
  BY DEF IInv, Typed, QueuesTyped
<1>5. CASE PerformConnectRefused \/ PerformConnectInvalid
  <2>1. inbox' \in Seq(InboxItems)
    BY <1>3, <1>4, <1>5, QueueConcat DEF PerformConnectRefused, PerformConnectInvalid
  <2>2. ManagerTyped' /\ NeverWedged'
    BY <1>5, ManagerKept DEF PerformConnectRefused, PerformConnectInvalid, IInv, Typed, ManagerTyped
  <2> QED  BY <1>1, <2>1, <2>2 DEF IInv, Typed, QueuesTyped
<1>6. CASE PerformConnect
  <2>1. attempt[Caller].goal \in SomeSession
    BY <1>2, <1>6 DEF PerformConnect, Dialable, IInv, Typed, AttemptsTyped, AttemptRecords
  <2>2. inbox' = inbox
    BY <1>6 DEF PerformConnect
  <2>3. ManagerTyped' /\ NeverWedged'
    BY <1>2, <1>6, <2>1 DEF PerformConnect, IInv, Typed, ManagerTyped, NeverWedged, Busy, Sockets,
          NoSocket, TransportStates, SomeSession
  <2> QED  BY <1>1, <1>4, <2>2, <2>3 DEF IInv, Typed, QueuesTyped
<1>7. CASE PerformConnectThrows
  <2>1. inbox' \in Seq(InboxItems)
    BY <1>3, <1>4, <1>7, QueueConcat DEF PerformConnectThrows
  <2>2. lease' \in Records
    BY <1>7 DEF PerformConnectThrows, IInv, Typed, ManagerTyped, Records
  <2>3. ManagerTyped' /\ NeverWedged'
    BY <1>7, <2>2 DEF PerformConnectThrows, CleanUp, IInv, Typed, ManagerTyped, NeverWedged, Busy,
          Sockets, NoSocket, TransportStates, SomeSession, SomeAttempt
  <2> QED  BY <1>1, <2>1, <2>3 DEF IInv, Typed, QueuesTyped
<1>8. CASE PerformCloseWithoutSocket
  <2>1. <<Event(Plain("other"))>> \in Seq(InboxItems)
    BY PlainTyped, EventTyped DEF CloseCodes
  <2>2. inbox' \in Seq(InboxItems)
    BY <1>3, <1>4, <1>8, <2>1, QueueConcat DEF PerformCloseWithoutSocket
  <2>3. ManagerTyped' /\ NeverWedged'
    BY <1>8, NoHeldTyped DEF PerformCloseWithoutSocket, CleanUp, IInv, Typed, ManagerTyped,
          NeverWedged, Busy, Sockets, NoSocket, TransportStates, SomeSession
  <2> QED  BY <1>1, <2>2, <2>3 DEF IInv, Typed, QueuesTyped
<1>9. CASE PerformClose
  <2>1. inbox' \in Seq(InboxItems)
    BY <1>3, <1>4, <1>9, QueueConcat DEF PerformClose
  <2>2. ManagerTyped' /\ NeverWedged'
    BY <1>9, NoHeldTyped DEF PerformClose, IInv, Typed, ManagerTyped, NeverWedged, Busy, Sockets,
          NoSocket, SomeAttempt
  <2> QED  BY <1>1, <2>1, <2>2 DEF IInv, Typed, QueuesTyped
<1> QED  BY <1>5, <1>6, <1>7, <1>8, <1>9 DEF Executor

LEMMA PeerIInv == IInv /\ Peer => IInv'
<1> SUFFICES ASSUME IInv, Peer, UNCHANGED <<clientVars, attemptVars, outbox>>
             PROVE  IInv'
  BY DEF Peer, SocketOpens, AckArrives, SocketBreaks, SocketFails, SocketCloses
<1>1. ClientTyped' /\ AttemptsTyped' /\ outbox' \in Seq(OutboxItems)
  BY DEF IInv, Typed, ClientTyped, AttemptsTyped, QueuesTyped, clientVars, timerVars, attemptVars
<1>2. /\ Complete(connectCall, "failed") \in Seq(InboxItems)
      /\ Complete(connectCall, "connected") \in Seq(InboxItems)
  BY CompleteTyped DEF IInv, Typed, ManagerTyped
<1>3. inbox \in Seq(InboxItems)
  BY DEF IInv, Typed, QueuesTyped
<1>4. \A s : CurrentLeaseLost(s) \in Records
  BY LeaseLostTyped DEF IInv, Typed
<1>5. CASE SocketOpens
  <2>1. inbox' \in Seq(InboxItems)
    BY <1>2, <1>3, <1>5, QueueConcat DEF SocketOpens
  <2>2. ManagerTyped' /\ NeverWedged'
    BY <1>5 DEF SocketOpens, IInv, Typed, ManagerTyped, NeverWedged, Busy, Sockets, NoSocket,
          TransportStates, SomeAttempt
  <2> QED  BY <1>1, <2>1, <2>2 DEF IInv, Typed, QueuesTyped
<1>6. CASE AckArrives
  <2>1. Event(Ack(options)) \in InboxItems
    BY AckTyped, EventTyped DEF IInv, Typed, ManagerTyped
  <2>2. inbox' \in Seq(InboxItems)
    BY <1>3, <1>6, <2>1, AppendProperties DEF AckArrives
  <2>3. ManagerTyped' /\ NeverWedged'
    BY <1>6, NewHeldTyped DEF AckArrives, IInv, Typed, ManagerTyped, NeverWedged, Busy, NoSocket,
          TransportStates, SomeSession
  <2> QED  BY <1>1, <2>2, <2>3 DEF IInv, Typed, QueuesTyped
<1>7. CASE SocketBreaks
  <2>1. ManagerTyped' /\ NeverWedged'
    BY <1>7 DEF SocketBreaks, IInv, Typed, ManagerTyped, NeverWedged, Busy, Sockets, NoSocket,
          TransportStates
  <2>2. inbox' = inbox
    BY <1>7 DEF SocketBreaks
  <2> QED  BY <1>1, <1>3, <2>1, <2>2 DEF IInv, Typed, QueuesTyped
<1>8. ASSUME NEW code \in CloseCodes, SocketCloses(code)
      PROVE  IInv'
  <2>1. Event(Plain(code)) \in InboxItems
    BY PlainTyped, EventTyped
  <2>2. inbox' \in Seq(InboxItems)
    BY <1>3, <1>8, <2>1, AppendProperties DEF SocketCloses
  <2>3. lease' \in Records
    BY <1>4, <1>8, NoHeldTyped DEF SocketCloses
  <2>4. ManagerTyped' /\ NeverWedged'
    BY <1>8, <2>3 DEF SocketCloses, CleanUp, IInv, Typed, ManagerTyped, NeverWedged, Busy, Sockets,
          NoSocket, TransportStates, SomeSession
  <2> QED  BY <1>1, <2>2, <2>4 DEF IInv, Typed, QueuesTyped
<1>9. CASE SocketFails
  <2>1. <<Event(Plain("other"))>> \in Seq(InboxItems)
    BY PlainTyped, EventTyped DEF CloseCodes
  <2>2. inbox' \in Seq(InboxItems)
    BY <1>2, <1>3, <1>9, <2>1, QueueConcat DEF SocketFails
  <2>3. ManagerTyped' /\ NeverWedged'
    BY <1>4, <1>9 DEF SocketFails, CleanUp, IInv, Typed, ManagerTyped, NeverWedged, Busy, Sockets,
          NoSocket, TransportStates, SomeSession, SomeAttempt
  <2> QED  BY <1>1, <2>2, <2>3 DEF IInv, Typed, QueuesTyped
<1> QED  BY <1>5, <1>6, <1>7, <1>8, <1>9 DEF Peer

LEMMA NextIInv == IInv /\ [Next]_vars => IInv'
<1> SUFFICES ASSUME IInv, [Next]_vars PROVE IInv'
  OBVIOUS
<1>1. CASE Next
  BY <1>1, CallersIInv, TimersIInv, DispatcherIInv, ExecutorIInv, PeerIInv DEF Next
<1>2. CASE UNCHANGED vars
  BY <1>2 DEF vars, clientVars, timerVars, attemptVars, managerVars, IInv, Typed, ClientTyped,
              AttemptsTyped, QueuesTyped, ManagerTyped, NeverWedged, Busy
<1> QED  BY <1>1, <1>2
-------------------------------------------------------------------------------
\* The inductive invariant holds in every state: the contents of both queues, of every
\* attempt and of the manager's fields are what the segments that read them expect.
THEOREM SpecIInv == Spec => []IInv
  BY InitIInv, NextIInv, PTL DEF Spec

\* The variables have their types, a reference to a reconnect job is to one that is
\* armed, and the grace job is armed for a session that is held and lost.
THEOREM SpecTypeOK == Spec => []TypeOK
<1>1. IInv => TypeOK
  BY DEF IInv, Typed, ClientTyped, AttemptsTyped, ManagerTyped, AttemptRecords, TypeOK
<1> QED  BY <1>1, SpecIInv, PTL

\* performConnect's claim about itself: the manager is never wedged in connecting with
\* no socket to bring it out, and keeps connect()'s completion only while it dials.
THEOREM SpecNeverWedged == Spec => []NeverWedged
<1>1. IInv => NeverWedged
  BY DEF IInv
<1> QED  BY <1>1, SpecIInv, PTL
-------------------------------------------------------------------------------
(***************************************************************************)
(* Every suspended coroutine of the app's core is resumed exactly once: a  *)
(* proof for any number of links, handshakes and queued items.             *)
(*                                                                         *)
(* A segment takes an attempt out of the place that keeps it (one of the   *)
(* queues, or the kept completion of connect()) and gives it to another.   *)
(* `Consistent` says that places and steps agree, `ConsistentBut` that     *)
(* they do but for one attempt, which is in no place at the moment; the    *)
(* lemmas about taking and giving lead from one to the other.              *)
(***************************************************************************)

\* How many places keep an attempt with record r.
Wanted(r) ==
    IF \/ r.step \in {"launched", "closing", "connecting"}
       \/ r.step = "waiting" /\ r.reply # Unsettled
    THEN 1 ELSE 0

\* What waits for item `it` is suspended where it awaits just that.
Fits(it, r) ==
    /\ it.type = "launch" => r.step = "launched"
    /\ it.type \in {"close", "closed"} => r.step = "closing"
    /\ it.type \in {"connect", "connected", "failed"} => r.step = "connecting"
    /\ it.type \in {"wake", "continue"} => r.step = "waiting"
Agrees(queue, f) ==
    \A i \in 1..Len(queue) : queue[i].of \in Attempts => Fits(queue[i], f[queue[i].of])

Kept(call, a) == IF call = a THEN 1 ELSE 0
Everywhere(in, out, call, a) == Count(in, a) + Count(out, a) + Kept(call, a)

\* One that closes has not been answered, the one that is pending neither.
Replies(f, pending, others) ==
    /\ \A x \in others : f[x].step = "closing" => f[x].reply = Unsettled
    /\ pending \in others =>
         f[pending].step \in {"connecting", "waiting"} /\ f[pending].reply = Unsettled

Consistent(f, in, out, call, pending) ==
    /\ \A x \in Attempts : Everywhere(in, out, call, x) = Wanted(f[x])
    /\ Agrees(in, f) /\ Agrees(out, f)
    /\ call \in Attempts => f[call].step = "connecting"
    /\ Replies(f, pending, Attempts)

ConsistentBut(a, f, in, out, call, pending) ==
    /\ \A x \in Attempts \ {a} : Everywhere(in, out, call, x) = Wanted(f[x])
    /\ Count(in, a) = 0 /\ Count(out, a) = 0 /\ call # a
    /\ Agrees(in, f) /\ Agrees(out, f)
    /\ call \in Attempts => f[call].step = "connecting"
    /\ Replies(f, pending, Attempts \ {a})

CInv == Consistent(attempt, inbox, outbox, connectCall, pendingAttempt)

AttemptMaps == [Attempts -> AttemptRecords]
Items == InboxItems \union OutboxItems
Queues == Seq(Items)
-------------------------------------------------------------------------------
(***************************************************************************)
(* Counting the items of a queue.                                          *)
(***************************************************************************)
\* The positions in q of the items of a.
Positions(q, a) == {i \in 1..Len(q) : q[i].of = a}

LEMMA CountFinite ==
    ASSUME NEW q \in Queues, NEW a
    PROVE  IsFiniteSet(Positions(q, a)) /\ Count(q, a) = Cardinality(Positions(q, a))
<1>1. Len(q) \in Nat
  BY LenProperties DEF Queues
<1>2. IsFiniteSet(1..Len(q)) /\ Positions(q, a) \in SUBSET (1..Len(q))
  BY <1>1, FS_Interval DEF Positions
<1> QED  BY <1>2, FS_Subset DEF Count, Positions

LEMMA CountNat ==
    ASSUME NEW q \in Queues, NEW a
    PROVE  /\ Count(q, a) \in Nat
           /\ \A i \in 1..Len(q) : q[i].of = a => Count(q, a) # 0
<1>1. Count(q, a) \in Nat
  BY CountFinite, FS_CardinalityType
<1>2. Count(q, a) = 0 => Positions(q, a) = {}
  BY CountFinite, FS_EmptySet
<1> QED  BY <1>1, <1>2 DEF Positions

LEMMA CountEmpty == \A a : Count(<<>>, a) = 0
<1> TAKE a
<1>1. {i \in 1..Len(<<>>) : <<>>[i].of = a} = {}
  OBVIOUS
<1> QED  BY <1>1, FS_EmptySet DEF Count

LEMMA CountOne ==
    ASSUME NEW it \in Items, NEW a
    PROVE  Count(<<it>>, a) = IF it.of = a THEN 1 ELSE 0
<1>1. CASE it.of = a
  <2>1. {i \in 1..Len(<<it>>) : <<it>>[i].of = a} = {1}
    BY <1>1
  <2> QED  BY <1>1, <2>1, FS_Singleton DEF Count
<1>2. CASE it.of # a
  <2>1. {i \in 1..Len(<<it>>) : <<it>>[i].of = a} = {}
    BY <1>2
  <2> QED  BY <1>2, <2>1, FS_EmptySet DEF Count
<1> QED  BY <1>1, <1>2

LEMMA CountConcat ==
    ASSUME NEW s \in Queues, NEW t \in Queues, NEW a
    PROVE  Count(s \o t, a) = Count(s, a) + Count(t, a)
<1> DEFINE n == Len(s)
           m == Len(t)
           late == {i \in (n + 1)..(n + m) : t[i - n].of = a}
           shift == [i \in Positions(t, a) |-> i + n]
<1>1. n \in Nat /\ m \in Nat
  BY LenProperties DEF Queues
<1>2. /\ s \o t \in Queues
      /\ Len(s \o t) = n + m
      /\ \A i \in 1..n + m : (s \o t)[i] = IF i <= n THEN s[i] ELSE t[i - n]
  BY ConcatProperties DEF Queues
<1>3. Positions(s \o t, a) = Positions(s, a) \union late
  BY <1>1, <1>2 DEF Positions
<1>4. Positions(s, a) \intersect late = {}
  BY <1>1 DEF Positions
<1>5. shift \in Bijection(Positions(t, a), late)
  <2>1. shift \in [Positions(t, a) -> late]
    BY <1>1 DEF Positions
  <2>2. \A i, j \in Positions(t, a) : shift[i] = shift[j] => i = j
    BY <1>1 DEF Positions
  <2>3. \A i \in late : i - n \in Positions(t, a) /\ shift[i - n] = i
    BY <1>1 DEF Positions
  <2> HIDE DEF shift, late
  <2> QED  BY <2>1, <2>2, <2>3, Zenon DEF Bijection, Injection, Surjection, IsInjective
<1>6. IsFiniteSet(late) /\ Cardinality(late) = Count(t, a)
  BY <1>5, CountFinite, FS_Bijection DEF ExistsBijection
<1>7. Cardinality(Positions(s, a) \union late) = Cardinality(Positions(s, a)) + Cardinality(late)
  <2>1. Cardinality(Positions(s, a)) \in Nat /\ Cardinality(late) \in Nat
    BY <1>6, CountFinite, FS_CardinalityType
  <2>2. Cardinality(Positions(s, a) \union late)
          = Cardinality(Positions(s, a)) + Cardinality(late)
            - Cardinality(Positions(s, a) \intersect late)
    BY <1>6, CountFinite, FS_Union
  <2>3. Cardinality(Positions(s, a) \intersect late) = 0
    BY <1>4, FS_EmptySet
  <2> HIDE DEF late
  <2> QED  BY <2>1, <2>2, <2>3
<1> QED  BY <1>2, <1>3, <1>6, <1>7, CountFinite

LEMMA HeadAndTail ==
    ASSUME NEW q \in Queues, q # <<>>
    PROVE  /\ Head(q) \in Items /\ Tail(q) \in Queues /\ q = <<Head(q)>> \o Tail(q)
           /\ Len(q) \in Nat \ {0} /\ Head(q) = q[1]
<1>1. /\ Head(q) \in Items /\ Tail(q) \in Queues
      /\ Len(Tail(q)) = Len(q) - 1
      /\ \A i \in 1..Len(Tail(q)) : Tail(q)[i] = q[i + 1]
  BY HeadTailProperties DEF Queues
<1>2. Len(q) \in Nat \ {0} /\ Head(q) = q[1]
  BY EmptySeq DEF Queues
<1>3. <<Head(q)>> \in Queues /\ Len(<<Head(q)>>) = 1 /\ <<Head(q)>>[1] = Head(q)
  BY <1>1 DEF Queues
<1> DEFINE r == <<Head(q)>> \o Tail(q)
           h == <<Head(q)>>
<1>4. /\ r \in Queues
      /\ Len(r) = 1 + Len(Tail(q))
      /\ \A i \in 1..1 + Len(Tail(q)) : r[i] = IF i <= 1 THEN h[i] ELSE Tail(q)[i - 1]
  BY <1>1, <1>3, ConcatProperties DEF Queues
<1>5. Len(r) = Len(q) /\ \A i \in 1..Len(q) : q[i] = r[i]
  BY <1>1, <1>2, <1>3, <1>4
<1>6. q = r
  BY <1>4, <1>5, SeqEqual DEF Queues
<1> QED  BY <1>1, <1>2, <1>6

LEMMA TailOfConcat ==
    ASSUME NEW q \in Queues, NEW r \in Queues, q # <<>>
    PROVE  q \o r # <<>> /\ Head(q \o r) = Head(q) /\ Tail(q \o r) = Tail(q) \o r
<1> DEFINE h == <<Head(q)>>
           t == Tail(q)
           v == q \o r
<1>1. h \in Queues /\ t \in Queues /\ q = h \o t /\ Len(q) \in Nat \ {0} /\ Head(q) = q[1]
  BY HeadAndTail DEF Queues
<1>2. v \in Queues /\ v # <<>> /\ v[1] = q[1]
  <2>1. v \in Queues /\ Len(v) = Len(q) + Len(r) /\ Len(r) \in Nat
        /\ \A i \in 1..Len(q) + Len(r) : v[i] = IF i <= Len(q) THEN q[i] ELSE r[i - Len(q)]
    BY ConcatProperties, LenProperties DEF Queues
  <2>2. v # <<>>
    BY ConcatEqualIffEmpty DEF Queues
  <2> HIDE DEF v
  <2> QED  BY <1>1, <2>1, <2>2
<1>3. Head(v) = Head(q) /\ Tail(v) \in Queues /\ v = <<Head(v)>> \o Tail(v)
  <2> HIDE DEF v
  <2> QED  BY <1>1, <1>2, HeadAndTail
<1>4. v = h \o (t \o r) /\ t \o r \in Queues
  <2> HIDE DEF h, t
  <2>1. h \in Seq(Items) /\ t \in Seq(Items) /\ r \in Seq(Items)
    BY <1>1 DEF Queues
  <2>2. (h \o t) \o r = h \o (t \o r)
    BY <2>1, ConcatAssociative
  <2>3. t \o r \in Queues
    BY <2>1, ConcatProperties DEF Queues
  <2> QED  BY <1>1, <2>2, <2>3, Zenon
<1>5. h \o Tail(v) = h \o (t \o r)
  BY <1>3, <1>4
<1>6. Tail(v) = t \o r
  <2> HIDE DEF h, t, v
  <2> DEFINE u == Tail(v)
             w == t \o r
  <2>1. h \in Seq(Items) /\ u \in Seq(Items) /\ w \in Seq(Items) /\ h \o u = h \o w
    BY <1>1, <1>3, <1>4, <1>5 DEF Queues
  <2> HIDE DEF u, w
  <2>2. u = w
    BY <2>1, ConcatSimplifications
  <2> QED  BY <2>2 DEF u, w
<1> QED  BY <1>2, <1>3, <1>6

LEMMA CountTail ==
    ASSUME NEW q \in Queues, q # <<>>, NEW a
    PROVE  Count(q, a) = Count(Tail(q), a) + (IF Head(q).of = a THEN 1 ELSE 0)
<1>1. <<Head(q)>> \in Queues
  BY HeadAndTail DEF Queues
<1> DEFINE h == <<Head(q)>>
           t == Tail(q)
<1>2. Count(q, a) = Count(h, a) + Count(t, a)
  <2>1. h \in Queues /\ t \in Queues /\ q = h \o t
    BY <1>1, HeadAndTail
  <2> HIDE DEF h, t
  <2>2. Count(h \o t, a) = Count(h, a) + Count(t, a)
    BY <2>1, CountConcat
  <2> QED  BY <2>1, <2>2
<1>3. Count(Tail(q), a) \in Nat
  BY HeadAndTail, CountNat
<1> QED  BY <1>2, <1>3, HeadAndTail, CountOne
\* A queue with an item more at either end.
LEMMA CountPush ==
    ASSUME NEW q \in Queues, NEW it \in Items, NEW a
    PROVE  LET more == IF it.of = a THEN 1 ELSE 0
           IN  /\ q \o <<it>> \in Queues /\ <<it>> \o q \in Queues
               /\ Append(q, it) = q \o <<it>>
               /\ Count(q \o <<it>>, a) = Count(q, a) + more
               /\ Count(<<it>> \o q, a) = Count(q, a) + more
<1> DEFINE one == <<it>>
<1>1. one \in Queues
  BY DEF Queues
<1>2. Count(one, a) = IF it.of = a THEN 1 ELSE 0
  BY CountOne
<1>3. Append(q, it) = q \o one
  BY AppendIsConcat DEF Queues
<1>4. Count(q, a) \in Nat
  BY CountNat
<1> HIDE DEF one
<1>5. q \o one \in Queues /\ one \o q \in Queues
  BY <1>1, ConcatProperties DEF Queues
<1>6. /\ Count(q \o one, a) = Count(q, a) + Count(one, a)
      /\ Count(one \o q, a) = Count(one, a) + Count(q, a)
  BY <1>1, CountConcat
<1>7. LET more == IF it.of = a THEN 1 ELSE 0
      IN  /\ q \o one \in Queues /\ one \o q \in Queues
          /\ Append(q, it) = q \o one
          /\ Count(q \o one, a) = Count(q, a) + more
          /\ Count(one \o q, a) = Count(q, a) + more
  BY <1>2, <1>3, <1>4, <1>5, <1>6
<1> QED  BY <1>7 DEF one
-------------------------------------------------------------------------------
(***************************************************************************)
(* What fits.                                                              *)
(***************************************************************************)
LEMMA AgreesTail ==
    ASSUME NEW q \in Queues, q # <<>>, NEW f, Agrees(q, f)
    PROVE  /\ Agrees(Tail(q), f)
           /\ Head(q).of \in Attempts => Fits(Head(q), f[Head(q).of])
<1>1. /\ Len(Tail(q)) = Len(q) - 1
      /\ \A i \in 1..Len(Tail(q)) : Tail(q)[i] = q[i + 1]
  BY HeadTailProperties DEF Queues
<1> QED  BY <1>1, HeadAndTail DEF Agrees

LEMMA AgreesPush ==
    ASSUME NEW q \in Queues, NEW it \in Items, NEW f, Agrees(q, f),
           it.of \in Attempts => Fits(it, f[it.of])
    PROVE  Agrees(q \o <<it>>, f) /\ Agrees(<<it>> \o q, f)
<1> DEFINE one == <<it>>
<1>1. one \in Queues /\ Len(one) = 1 /\ one[1] = it
  BY DEF Queues
<1> HIDE DEF one
<1>2. Len(q) \in Nat
  BY LenProperties DEF Queues
<1>3. /\ Len(q \o one) = Len(q) + Len(one)
      /\ \A i \in 1..Len(q) + Len(one) :
           (q \o one)[i] = IF i <= Len(q) THEN q[i] ELSE one[i - Len(q)]
  BY <1>1, ConcatProperties DEF Queues
<1>4. /\ Len(one \o q) = Len(one) + Len(q)
      /\ \A i \in 1..Len(one) + Len(q) :
           (one \o q)[i] = IF i <= Len(one) THEN one[i] ELSE q[i - Len(one)]
  BY <1>1, ConcatProperties DEF Queues
<1>5. Agrees(q \o one, f)
  <2> SUFFICES ASSUME NEW i \in 1..Len(q \o one), (q \o one)[i].of \in Attempts
               PROVE  Fits((q \o one)[i], f[(q \o one)[i].of])
    BY DEF Agrees
  <2>1. CASE i <= Len(q)
    <3>1. (q \o one)[i] = q[i] /\ i \in 1..Len(q)
      BY <1>2, <1>3, <2>1
    <3> QED  BY <3>1 DEF Agrees
  <2>2. CASE ~ (i <= Len(q))
    <3>1. (q \o one)[i] = it
      BY <1>1, <1>2, <1>3, <2>2
    <3> QED  BY <3>1
  <2> QED  BY <2>1, <2>2
<1>6. Agrees(one \o q, f)
  <2> SUFFICES ASSUME NEW i \in 1..Len(one \o q), (one \o q)[i].of \in Attempts
               PROVE  Fits((one \o q)[i], f[(one \o q)[i].of])
    BY DEF Agrees
  <2>1. CASE i <= 1
    <3>1. (one \o q)[i] = it
      BY <1>1, <1>2, <1>4, <2>1
    <3> QED  BY <3>1
  <2>2. CASE ~ (i <= 1)
    <3>1. (one \o q)[i] = q[i - Len(one)]
      BY <1>1, <1>2, <1>4, <2>2
    <3>2. i - Len(one) \in 1..Len(q)
      BY <1>1, <1>2, <1>4, <2>2
    <3> QED  BY <3>1, <3>2 DEF Agrees
  <2> QED  BY <2>1, <2>2
<1> QED  BY <1>5, <1>6 DEF one

\* An attempt without items may step as it likes.
LEMMA AgreesWithout ==
    ASSUME NEW q \in Queues, NEW f, NEW g, NEW a, Agrees(q, f), Count(q, a) = 0,
           \A x \in Attempts \ {a} : g[x].step = f[x].step
    PROVE  Agrees(q, g)
<1>1. \A i \in 1..Len(q) : q[i].of # a
  BY CountNat
<1> QED  BY <1>1 DEF Agrees, Fits

LEMMA AgreesSameSteps ==
    ASSUME NEW q, NEW f, NEW g, Agrees(q, f), \A x \in Attempts : g[x].step = f[x].step
    PROVE  Agrees(q, g)
  BY DEF Agrees, Fits
-------------------------------------------------------------------------------
(***************************************************************************)
(* Taking an attempt from its place.                                       *)
(***************************************************************************)
LEMMA WantedIsOne == \A r : Wanted(r) \in {0, 1}
  BY DEF Wanted

LEMMA TakeFromInbox ==
    ASSUME NEW f \in AttemptMaps, NEW q \in Queues, NEW o \in Queues, NEW c, NEW p,
           Consistent(f, q, o, c, p), q # <<>>, Head(q).of \in Attempts
    PROVE  /\ ConsistentBut(Head(q).of, f, Tail(q), o, c, p)
           /\ Fits(Head(q), f[Head(q).of])
           /\ Wanted(f[Head(q).of]) = 1
<1> DEFINE a == Head(q).of
<1>1. Tail(q) \in Queues
  BY HeadAndTail
<1>2. \A x : /\ Count(Tail(q), x) \in Nat /\ Count(o, x) \in Nat
             /\ Count(q, x) = Count(Tail(q), x) + (IF a = x THEN 1 ELSE 0)
  BY <1>1, CountNat, CountTail
<1>3. /\ Count(Tail(q), a) = 0 /\ Count(o, a) = 0 /\ c # a
      /\ Wanted(f[a]) = 1
  BY <1>2, WantedIsOne DEF Consistent, Everywhere, Kept
<1>4. \A x \in Attempts \ {a} : Everywhere(Tail(q), o, c, x) = Wanted(f[x])
  BY <1>2 DEF Consistent, Everywhere
<1> QED  BY <1>3, <1>4, AgreesTail DEF Consistent, ConsistentBut, Replies

LEMMA TakeFromOutbox ==
    ASSUME NEW f \in AttemptMaps, NEW q \in Queues, NEW o \in Queues, NEW c, NEW p,
           Consistent(f, q, o, c, p), o # <<>>, Head(o).of \in Attempts
    PROVE  /\ ConsistentBut(Head(o).of, f, q, Tail(o), c, p)
           /\ Fits(Head(o), f[Head(o).of])
           /\ Wanted(f[Head(o).of]) = 1
<1> DEFINE a == Head(o).of
<1>1. Tail(o) \in Queues
  BY HeadAndTail
<1>2. \A x : /\ Count(Tail(o), x) \in Nat /\ Count(q, x) \in Nat
             /\ Count(o, x) = Count(Tail(o), x) + (IF a = x THEN 1 ELSE 0)
  BY <1>1, CountNat, CountTail
<1>3. /\ Count(Tail(o), a) = 0 /\ Count(q, a) = 0 /\ c # a
      /\ Wanted(f[a]) = 1
  BY <1>2, WantedIsOne DEF Consistent, Everywhere, Kept
<1>4. \A x \in Attempts \ {a} : Everywhere(q, Tail(o), c, x) = Wanted(f[x])
  BY <1>2 DEF Consistent, Everywhere
<1> QED  BY <1>3, <1>4, AgreesTail DEF Consistent, ConsistentBut, Replies

LEMMA TakeKept ==
    ASSUME NEW f \in AttemptMaps, NEW q \in Queues, NEW o \in Queues, NEW a \in Attempts, NEW p,
           Consistent(f, q, o, a, p)
    PROVE  ConsistentBut(a, f, q, o, NoAttempt, p) /\ f[a].step = "connecting"
<1>1. \A x : Count(q, x) \in Nat /\ Count(o, x) \in Nat
  BY CountNat
<1>2. Count(q, a) = 0 /\ Count(o, a) = 0 /\ f[a].step = "connecting"
  BY <1>1, WantedIsOne DEF Consistent, Everywhere, Kept
<1>3. \A x \in Attempts \ {a} : Everywhere(q, o, NoAttempt, x) = Wanted(f[x])
  BY AppAssumption DEF Consistent, Everywhere, Kept
<1> QED  BY <1>2, <1>3, AppAssumption DEF Consistent, ConsistentBut, Replies

\* A coroutine that has ended, and one that awaits an answer, are in no place.
LEMMA TakeNowhere ==
    ASSUME NEW f \in AttemptMaps, NEW q \in Queues, NEW o \in Queues, NEW a \in Attempts, NEW c,
           NEW p, Consistent(f, q, o, c, p), Wanted(f[a]) = 0
    PROVE  ConsistentBut(a, f, q, o, c, p)
<1>1. Count(q, a) \in Nat /\ Count(o, a) \in Nat
  BY CountNat
<1>2. Count(q, a) = 0 /\ Count(o, a) = 0 /\ c # a
  BY <1>1 DEF Consistent, Everywhere, Kept
<1> QED  BY <1>2 DEF Consistent, ConsistentBut, Replies

\* Items that belong to no attempt come and go.
LEMMA TakeNobody ==
    ASSUME NEW f \in AttemptMaps, NEW q \in Queues, NEW o \in Queues, NEW c, NEW p,
           Consistent(f, q, o, c, p)
    PROVE  /\ q # <<>> /\ Head(q).of \notin Attempts => Consistent(f, Tail(q), o, c, p)
           /\ o # <<>> /\ Head(o).of \notin Attempts => Consistent(f, q, Tail(o), c, p)
<1>1. ASSUME NEW r \in Queues, r # <<>>, Head(r).of \notin Attempts, Agrees(r, f)
      PROVE  Agrees(Tail(r), f) /\ \A x \in Attempts : Count(Tail(r), x) = Count(r, x)
  <2>1. Tail(r) \in Queues
    BY <1>1, HeadAndTail
  <2>2. \A x \in Attempts : Count(Tail(r), x) = Count(r, x)
    BY <1>1, <2>1, CountTail, CountNat
  <2>3. Agrees(Tail(r), f)
    BY <1>1, AgreesTail
  <2> QED  BY <2>2, <2>3
<1>2. ASSUME q # <<>>, Head(q).of \notin Attempts
      PROVE  Consistent(f, Tail(q), o, c, p)
  <2> DEFINE t == Tail(q)
  <2>1. Agrees(t, f) /\ \A x \in Attempts : Count(t, x) = Count(q, x)
    BY <1>1, <1>2 DEF Consistent
  <2> HIDE DEF t
  <2>2. Consistent(f, t, o, c, p)
    BY <2>1 DEF Consistent, Everywhere
  <2> QED  BY <2>2 DEF t
<1>3. ASSUME o # <<>>, Head(o).of \notin Attempts
      PROVE  Consistent(f, q, Tail(o), c, p)
  <2> DEFINE t == Tail(o)
  <2>1. Agrees(t, f) /\ \A x \in Attempts : Count(t, x) = Count(o, x)
    BY <1>1, <1>3 DEF Consistent
  <2> HIDE DEF t
  <2>2. Consistent(f, q, t, c, p)
    BY <2>1 DEF Consistent, Everywhere
  <2> QED  BY <2>2 DEF t
<1> QED  BY <1>2, <1>3
-------------------------------------------------------------------------------
(***************************************************************************)
(* Giving it a place, with a record that the place fits.                   *)
(***************************************************************************)
\* While it has no place its record may change, and it may become the pending one.
LEMMA GiveRecord ==
    ASSUME NEW f, NEW g, NEW q \in Queues, NEW o \in Queues, NEW c, NEW p, NEW a \in Attempts,
           ConsistentBut(a, f, q, o, c, p),
           \A x \in Attempts \ {a} : g[x].step = f[x].step /\ g[x].reply = f[x].reply,
           NEW p2 \in {p, a, NoAttempt}
    PROVE  ConsistentBut(a, g, q, o, c, p2)
<1>1. Agrees(q, g) /\ Agrees(o, g)
  BY AgreesWithout DEF ConsistentBut
<1>2. \A x \in Attempts \ {a} : Everywhere(q, o, c, x) = Wanted(g[x])
  BY DEF ConsistentBut, Wanted
<1>3. Replies(g, p2, Attempts \ {a})
  BY AppAssumption DEF ConsistentBut, Replies
<1> QED  BY <1>1, <1>2, <1>3 DEF ConsistentBut

\* Nothing that counts has changed.
LEMMA SameSteps ==
    ASSUME NEW f, NEW g, NEW q, NEW o, NEW c, NEW p, Consistent(f, q, o, c, p),
           \A x \in Attempts : g[x].step = f[x].step /\ g[x].reply = f[x].reply
    PROVE  Consistent(g, q, o, c, p)
<1>1. Agrees(q, g) /\ Agrees(o, g)
  BY AgreesSameSteps DEF Consistent
<1>2. \A x \in Attempts : Everywhere(q, o, c, x) = Wanted(g[x])
  BY DEF Consistent, Wanted
<1> QED  BY <1>1, <1>2 DEF Consistent, Replies

RepliesAt(f, a, p) ==
    /\ f[a].step = "closing" => f[a].reply = Unsettled
    /\ p = a => f[a].step \in {"connecting", "waiting"} /\ f[a].reply = Unsettled

LEMMA RepliesJoin ==
    ASSUME NEW f, NEW p, NEW a \in Attempts, Replies(f, p, Attempts \ {a}), RepliesAt(f, a, p)
    PROVE  Replies(f, p, Attempts)
  BY DEF Replies, RepliesAt

LEMMA GiveNothing ==
    ASSUME NEW f, NEW q \in Queues, NEW o \in Queues, NEW c, NEW p, NEW a \in Attempts,
           ConsistentBut(a, f, q, o, c, p), Wanted(f[a]) = 0, RepliesAt(f, a, p)
    PROVE  Consistent(f, q, o, c, p)
<1>1. Everywhere(q, o, c, a) = 0
  BY DEF ConsistentBut, Everywhere, Kept
<1> QED  BY <1>1, RepliesJoin DEF Consistent, ConsistentBut

LEMMA GiveKept ==
    ASSUME NEW f, NEW q \in Queues, NEW o \in Queues, NEW p, NEW a \in Attempts,
           ConsistentBut(a, f, q, o, NoAttempt, p), f[a].step = "connecting", RepliesAt(f, a, p)
    PROVE  Consistent(f, q, o, a, p)
<1>1. Everywhere(q, o, a, a) = 1
  BY DEF ConsistentBut, Everywhere, Kept
<1>2. \A x \in Attempts \ {a} : Everywhere(q, o, a, x) = Wanted(f[x])
  BY AppAssumption DEF ConsistentBut, Everywhere, Kept
<1>3. Wanted(f[a]) = 1
  BY DEF Wanted
<1> QED  BY <1>1, <1>2, <1>3, RepliesJoin DEF Consistent, ConsistentBut

LEMMA GiveItem ==
    ASSUME NEW f, NEW q \in Queues, NEW o \in Queues, NEW c, NEW p, NEW a \in Attempts,
           NEW it \in Items, it.of = a, Fits(it, f[a]),
           ConsistentBut(a, f, q, o, c, p), Wanted(f[a]) = 1, RepliesAt(f, a, p)
    PROVE  /\ Consistent(f, q \o <<it>>, o, c, p)
           /\ Consistent(f, <<it>> \o q, o, c, p)
           /\ Consistent(f, q, o \o <<it>>, c, p)
<1>1. ASSUME NEW r \in {q \o <<it>>, <<it>> \o q}
      PROVE  /\ Agrees(r, f)
             /\ \A x : Count(r, x) = Count(q, x) + (IF x = a THEN 1 ELSE 0)
  <2>1. Agrees(r, f)
    BY AgreesPush DEF ConsistentBut
  <2>2. \A x : /\ Count(q \o <<it>>, x) = Count(q, x) + (IF x = a THEN 1 ELSE 0)
               /\ Count(<<it>> \o q, x) = Count(q, x) + (IF x = a THEN 1 ELSE 0)
    BY CountPush
  <2> QED  BY <2>1, <2>2, Zenon
<1>2. /\ Agrees(o \o <<it>>, f)
      /\ \A x : Count(o \o <<it>>, x) = Count(o, x) + (IF x = a THEN 1 ELSE 0)
  <2>1. Agrees(o \o <<it>>, f)
    BY AgreesPush DEF ConsistentBut
  <2>2. \A x : Count(o \o <<it>>, x) = Count(o, x) + (IF x = a THEN 1 ELSE 0)
    BY CountPush
  <2> QED  BY <2>1, <2>2
<1>3. \A x : Count(q, x) \in Nat /\ Count(o, x) \in Nat
  BY CountNat
<1>4. ASSUME NEW r \in {q \o <<it>>, <<it>> \o q}
      PROVE  Consistent(f, r, o, c, p)
  <2>1. Agrees(r, f) /\ \A x : Count(r, x) = Count(q, x) + (IF x = a THEN 1 ELSE 0)
    BY <1>1
  <2>2. \A x \in Attempts : Everywhere(r, o, c, x) = Wanted(f[x])
    BY <2>1, <1>3 DEF ConsistentBut, Everywhere, Kept
  <2> QED  BY <2>1, <2>2, RepliesJoin DEF Consistent, ConsistentBut
<1>5. Consistent(f, q, o \o <<it>>, c, p)
  <2> DEFINE r == o \o <<it>>
  <2> HIDE DEF r
  <2>1. \A x \in Attempts : Everywhere(q, r, c, x) = Wanted(f[x])
    BY <1>2, <1>3 DEF ConsistentBut, Everywhere, Kept, r
  <2> QED  BY <1>2, <2>1, RepliesJoin DEF Consistent, ConsistentBut, r
<1> QED  BY <1>4, <1>5

LEMMA AddNobody ==
    ASSUME NEW f, NEW q \in Queues, NEW o \in Queues, NEW c, NEW p,
           NEW it \in Items, it.of = NoAttempt, Consistent(f, q, o, c, p)
    PROVE  /\ Consistent(f, q \o <<it>>, o, c, p)
           /\ Consistent(f, q, o \o <<it>>, c, p)
<1>1. ASSUME NEW r \in Queues, Agrees(r, f)
      PROVE  Agrees(r \o <<it>>, f) /\ \A x \in Attempts : Count(r \o <<it>>, x) = Count(r, x)
  <2>1. \A x : Count(r, x) \in Nat
    BY CountNat
  <2>2. Agrees(r \o <<it>>, f)
    BY <1>1, AgreesPush, AppAssumption
  <2> QED  BY <2>1, <2>2, CountPush, AppAssumption
<1>2. Consistent(f, q \o <<it>>, o, c, p)
  <2> DEFINE r == q \o <<it>>
  <2>1. Agrees(r, f) /\ \A x \in Attempts : Count(r, x) = Count(q, x)
    BY <1>1 DEF Consistent
  <2> HIDE DEF r
  <2>2. Consistent(f, r, o, c, p)
    BY <2>1 DEF Consistent, Everywhere
  <2> QED  BY <2>2 DEF r
<1>3. Consistent(f, q, o \o <<it>>, c, p)
  <2> DEFINE r == o \o <<it>>
  <2>1. Agrees(r, f) /\ \A x \in Attempts : Count(r, x) = Count(o, x)
    BY <1>1 DEF Consistent
  <2> HIDE DEF r
  <2>2. Consistent(f, q, r, c, p)
    BY <2>1 DEF Consistent, Everywhere
  <2> QED  BY <2>2 DEF r
<1> QED  BY <1>2, <1>3
-------------------------------------------------------------------------------
(***************************************************************************)
(* What the shared pieces of a segment do to places.                       *)
(***************************************************************************)
LEMMA QueuesItems ==
    /\ \A a \in Attempts : Item("launch", a) \in Items /\ Item("closed", a) \in Items
    /\ \A a \in Attempts : Item("connected", a) \in Items /\ Item("failed", a) \in Items
    /\ \A a \in Attempts : Item("wake", a) \in Items /\ Item("continue", a) \in Items
    /\ \A a \in Attempts : Item("connect", a) \in Items
    /\ \A a \in SomeAttempt : Item("close", a) \in Items
    /\ \A body \in Answers : Event(body) \in Items
  BY InboxItemTyped, EventTyped, OutboxItemTyped DEF Items

LEMMA QueuesTypedAsQueues ==
    ASSUME QueuesTyped
    PROVE  inbox \in Queues /\ outbox \in Queues
  BY DEF QueuesTyped, Queues, Items

LEMMA ConcatQueues == \A q, r \in Queues : q \o r \in Queues
  BY ConcatProperties DEF Queues

LEMMA ConcatNothing == \A q \in Queues : q \o <<>> = q
  BY ConcatEmptySeq DEF Queues

\* What `Item` makes fits the step that it is made for.
LEMMA ItemFits ==
    ASSUME NEW r, NEW a
    PROVE  /\ \A what : Item(what, a).of = a
           /\ r.step = "launched" => Fits(Item("launch", a), r)
           /\ r.step = "closing" => Fits(Item("close", a), r) /\ Fits(Item("closed", a), r)
           /\ r.step = "connecting" => /\ Fits(Item("connect", a), r)
                                       /\ Fits(Item("connected", a), r)
                                       /\ Fits(Item("failed", a), r)
           /\ r.step = "waiting" => Fits(Item("wake", a), r) /\ Fits(Item("continue", a), r)
  BY DEF Item, Fits

\* settlePendingAttempt: one that awaits is queued, one that does not is not.
LEMMA SettleConsistent ==
    ASSUME AttemptsTyped, NEW f \in AttemptMaps, NEW q \in Queues, NEW o \in Queues, NEW c,
           NEW body \in Answers, Consistent(f, q, o, c, pendingAttempt),
           pendingAttempt # NoAttempt => f[pendingAttempt].step = attempt[pendingAttempt].step
    PROVE  Consistent(Settle(f, body), q \o Woken, o, c, NoAttempt)
<1> DEFINE p == pendingAttempt
           g == Settle(f, body)
<1>1. CASE p = NoAttempt
  <2>1. g = f /\ q \o Woken = q
    BY <1>1, ConcatNothing DEF Settle, Woken
  <2> QED  BY <1>1, <2>1
<1>2. CASE p # NoAttempt
  <2>1. p \in Attempts
    BY <1>2 DEF AttemptsTyped, SomeAttempt
  <2>2. /\ f[p].step \in {"connecting", "waiting"}
        /\ f[p].reply = Unsettled
    BY <2>1 DEF Consistent, Replies
  <2>3. g = [f EXCEPT ![p].reply = body]
    BY <1>2 DEF Settle
  <2>4. \A x \in Attempts \ {p} : g[x] = f[x]
    BY <2>3 DEF AttemptMaps
  <2>5. g[p].step = f[p].step /\ g[p].reply = body
    BY <2>1, <2>3 DEF AttemptMaps, AttemptRecords
  <2>6. body # Unsettled
    BY UnsettledTyped
  <2> HIDE DEF g, p
  <2>7. CASE f[p].step = "waiting"
    <3>1. Woken = <<Item("wake", p)>>
      BY <1>2, <2>7 DEF Woken, p
    <3>2. ConsistentBut(p, f, q, o, c, p)
      BY <2>1, <2>2, <2>7, TakeNowhere DEF Wanted, p
    <3>3. ConsistentBut(p, g, q, o, c, NoAttempt)
      BY <2>1, <2>4, <3>2, GiveRecord
    <3>4. Wanted(g[p]) = 1 /\ RepliesAt(g, p, NoAttempt)
      BY <2>1, <2>5, <2>6, <2>7, AppAssumption DEF Wanted, RepliesAt
    <3>5. /\ Item("wake", p) \in Items /\ Item("wake", p).of = p
          /\ Fits(Item("wake", p), g[p])
      BY <2>1, <2>5, <2>7, QueuesItems, ItemFits
    <3> QED  BY <2>1, <3>1, <3>3, <3>4, <3>5, GiveItem DEF g
  <2>8. CASE f[p].step = "connecting"
    <3>1. q \o Woken = q
      BY <2>8, ConcatNothing DEF Woken, p
    <3>2. \A x \in Attempts : g[x].step = f[x].step /\ Wanted(g[x]) = Wanted(f[x])
      BY <2>4, <2>5, <2>8 DEF Wanted
    <3>3. Agrees(q, g) /\ Agrees(o, g)
      BY <3>2, AgreesSameSteps DEF Consistent
    <3>4. Replies(g, NoAttempt, Attempts)
      BY <2>4, <2>5, <2>8, AppAssumption DEF Consistent, Replies
    <3>5. Consistent(g, q, o, c, NoAttempt)
      BY <3>2, <3>3, <3>4 DEF Consistent
    <3> QED  BY <3>1, <3>5 DEF g
  <2> QED  BY <2>2, <2>7, <2>8
<1> QED  BY <1>1, <1>2

LEMMA NewEpochConsistent ==
    ASSUME NEW f \in AttemptMaps, NEW a, NEW q, NEW o, NEW c, NEW p, Consistent(f, q, o, c, p)
    PROVE  /\ Consistent(NewEpoch(f, a), q, o, c, p)
           /\ NewEpoch(f, a) \in AttemptMaps
           /\ \A x \in Attempts : /\ NewEpoch(f, a)[x].step = f[x].step
                                  /\ NewEpoch(f, a)[x].reply = f[x].reply
<1>1. \A x \in Attempts : /\ NewEpoch(f, a)[x].step = f[x].step
                          /\ NewEpoch(f, a)[x].reply = f[x].reply
  BY DEF NewEpoch, AttemptMaps, AttemptRecords
<1>2. Consistent(NewEpoch(f, a), q, o, c, p)
  BY <1>1, SameSteps
<1> QED  BY <1>1, <1>2, NewEpochTyped DEF AttemptMaps

\* finalizeSessionLost
LEMMA FinalizeCInv ==
    ASSUME AttemptsTyped, QueuesTyped, NEW f \in AttemptMaps, NEW q \in Queues,
           Consistent(f, q, outbox, connectCall, pendingAttempt),
           pendingAttempt # NoAttempt => f[pendingAttempt].step = attempt[pendingAttempt].step,
           FinalizeSessionLost(f, q)
    PROVE  CInv'
<1> DEFINE g == NewEpoch(f, NoAttempt)
<1>1. /\ Consistent(g, q, outbox, connectCall, pendingAttempt)
      /\ g \in AttemptMaps
      /\ \A x \in Attempts : g[x].step = f[x].step
  BY NewEpochConsistent
<1>2. pendingAttempt # NoAttempt => g[pendingAttempt].step = attempt[pendingAttempt].step
  BY <1>1 DEF AttemptsTyped, SomeAttempt
<1>3. Plain("failed") \in Answers
  BY PlainTyped
<1> HIDE DEF g
<1>4. Consistent(Settle(g, Plain("failed")), q \o Woken, outbox, connectCall, NoAttempt)
  BY <1>1, <1>2, <1>3, QueuesTypedAsQueues, SettleConsistent
<1> QED  BY <1>4 DEF FinalizeSessionLost, CInv, g, managerVars

\* performHandshake
LEMMA HandshakeConsistent ==
    ASSUME QueuesTyped, NEW f \in AttemptMaps, NEW a \in Attempts, NEW q \in Queues, NEW c, NEW p,
           ConsistentBut(a, f, q, outbox, c, p), f[a].reply = Unsettled,
           PerformHandshake(a, f)
    PROVE  Consistent(attempt', q, outbox', c, pendingAttempt')
<1> DEFINE g == [f EXCEPT ![a].step = "connecting"]
           it == Item("connect", a)
<1>1. g[a].step = "connecting" /\ g[a].reply = Unsettled
  BY DEF AttemptMaps, AttemptRecords
<1>2. \A x \in Attempts \ {a} : g[x] = f[x]
  BY DEF AttemptMaps
<1> HIDE DEF g
<1>3. it \in Items /\ it.of = a /\ Fits(it, g[a])
  BY <1>1, QueuesItems, ItemFits
<1>4. Wanted(g[a]) = 1 /\ RepliesAt(g, a, a)
  BY <1>1 DEF Wanted, RepliesAt
<1> HIDE DEF it
<1>5. outbox \in Queues
  BY QueuesTypedAsQueues
<1>6. ConsistentBut(a, g, q, outbox, c, a)
  BY <1>2, <1>5, GiveRecord
<1>7. Consistent(g, q, outbox \o <<it>>, c, a)
  BY <1>3, <1>4, <1>5, <1>6, GiveItem
<1>8. outbox' = outbox \o <<it>>
  BY <1>3, <1>5, CountPush DEF PerformHandshake, it
<1> QED  BY <1>7, <1>8 DEF PerformHandshake, g

\* attemptResume, by a coroutine that is in no place.
LEMMA AttemptResumeCInv ==
    ASSUME ClientTyped, AttemptsTyped, QueuesTyped, NEW a \in Attempts, NEW q \in Queues,
           NEW m, NEW n,
           ConsistentBut(a, attempt, q, outbox, connectCall, pendingAttempt),
           pendingAttempt # a, AttemptResume(a, q, m, n)
    PROVE  CInv'
<1>1. attempt \in AttemptMaps /\ outbox \in Queues
  BY QueuesTypedAsQueues DEF AttemptsTyped, AttemptMaps
<1>2. CASE held.over
  <2> DEFINE f == [attempt EXCEPT ![a] = Free]
  <2>1. f \in AttemptMaps /\ f[a] = Free /\ \A x \in Attempts \ {a} : f[x] = attempt[x]
    BY <1>1, FreeTyped DEF AttemptMaps
  <2> HIDE DEF f
  <2>2. ConsistentBut(a, f, q, outbox, connectCall, pendingAttempt)
    BY <1>1, <2>1, GiveRecord
  <2>3. Wanted(f[a]) = 0 /\ RepliesAt(f, a, pendingAttempt)
    BY <2>1 DEF Wanted, RepliesAt, Free
  <2>4. Consistent(f, q, outbox, connectCall, pendingAttempt)
    BY <1>1, <2>2, <2>3, GiveNothing
  <2>5. pendingAttempt # NoAttempt => f[pendingAttempt].step = attempt[pendingAttempt].step
    BY <2>1 DEF AttemptsTyped, SomeAttempt
  <2>6. FinalizeSessionLost(f, q)
    BY <1>2 DEF AttemptResume, f
  <2> QED  BY <2>1, <2>4, <2>5, <2>6, FinalizeCInv
<1>3. CASE ~held.over
  <2> DEFINE f == [attempt EXCEPT ![a] = ResumeOfHeld]
  <2>1. PerformHandshake(a, f)
    BY <1>3 DEF AttemptResume
  <2>2. inbox' = q /\ connectCall' = connectCall
    BY <1>3 DEF AttemptResume, managerVars
  <2>3. ResumeOfHeld \in AttemptRecords /\ ResumeOfHeld.reply = Unsettled
    BY UnsettledTyped
    DEF ResumeOfHeld, AttemptRecords, ClientTyped, Records, Steps, SomeSession
  <2>4. f \in AttemptMaps /\ f[a].reply = Unsettled /\ \A x \in Attempts \ {a} : f[x] = attempt[x]
    BY <1>1, <2>3 DEF AttemptMaps
  <2> HIDE DEF f
  <2>5. ConsistentBut(a, f, q, outbox, connectCall, pendingAttempt)
    BY <1>1, <2>4, GiveRecord
  <2>6. Consistent(attempt', q, outbox', connectCall, pendingAttempt')
    BY <2>1, <2>4, <2>5, HandshakeConsistent
  <2> QED  BY <2>2, <2>6 DEF CInv
<1> QED  BY <1>2, <1>3

\* A coroutine ends, or one awaits its deferred.
LEMMA EndConsistent ==
    ASSUME NEW f \in AttemptMaps, NEW q \in Queues, NEW o \in Queues, NEW c, NEW p,
           NEW a \in Attempts, ConsistentBut(a, f, q, o, c, p), p # a
    PROVE  /\ Consistent([f EXCEPT ![a] = Free], q, o, c, p)
           /\ [f EXCEPT ![a] = Free] \in AttemptMaps
<1> DEFINE g == [f EXCEPT ![a] = Free]
<1>1. g \in AttemptMaps /\ g[a] = Free /\ \A x \in Attempts \ {a} : g[x] = f[x]
  BY FreeTyped DEF AttemptMaps
<1> HIDE DEF g
<1>2. ConsistentBut(a, g, q, o, c, p)
  BY <1>1, GiveRecord
<1>3. Wanted(g[a]) = 0 /\ RepliesAt(g, a, p)
  BY <1>1 DEF Wanted, RepliesAt, Free
<1>4. Consistent(g, q, o, c, p)
  BY <1>2, <1>3, GiveNothing
<1> QED  BY <1>1, <1>4 DEF g

LEMMA AwaitConsistent ==
    ASSUME QueuesTyped, NEW f \in AttemptMaps, NEW a \in Attempts, NEW q \in Queues, NEW p,
           ConsistentBut(a, f, q, outbox, connectCall, p), p = a => f[a].reply = Unsettled,
           Await(a, f, q)
    PROVE  Consistent(attempt', inbox', outbox', connectCall', p)
<1> DEFINE g == [f EXCEPT ![a].step = "waiting"]
<1>1. /\ g[a].step = "waiting" /\ g[a].reply = f[a].reply
      /\ \A x \in Attempts \ {a} : g[x] = f[x]
  BY DEF AttemptMaps, AttemptRecords
<1>2. attempt' = g /\ outbox' = outbox /\ connectCall' = connectCall
  BY DEF Await, managerVars
<1> HIDE DEF g
<1>3. outbox \in Queues
  BY QueuesTypedAsQueues
<1>4. ConsistentBut(a, g, q, outbox, connectCall, p)
  BY <1>1, <1>3, GiveRecord
<1>5. RepliesAt(g, a, p)
  BY <1>1 DEF RepliesAt
<1>6. CASE f[a].reply = Unsettled
  <2>1. Wanted(g[a]) = 0
    BY <1>1, <1>6 DEF Wanted
  <2>2. Consistent(g, q, outbox, connectCall, p)
    BY <1>3, <1>4, <1>5, <2>1, GiveNothing
  <2> QED  BY <1>2, <1>6, <2>2 DEF Await
<1>7. CASE f[a].reply # Unsettled
  <2> DEFINE it == Item("continue", a)
  <2>1. Wanted(g[a]) = 1
    BY <1>1, <1>7 DEF Wanted
  <2>2. it \in Items /\ it.of = a /\ Fits(it, g[a])
    BY <1>1, QueuesItems, ItemFits
  <2>3. inbox' = <<it>> \o q
    BY <1>7 DEF Await
  <2> HIDE DEF it
  <2>4. Consistent(g, <<it>> \o q, outbox, connectCall, p)
    BY <1>3, <1>4, <1>5, <2>1, <2>2, GiveItem
  <2> QED  BY <1>2, <2>3, <2>4
<1> QED  BY <1>6, <1>7

\* The kept completion of connect() is called, if there is one.
LEMMA CompleteKept ==
    ASSUME NEW f \in AttemptMaps, NEW q \in Queues, NEW o \in Queues, NEW c \in SomeAttempt, NEW p,
           Consistent(f, q, o, c, p), NEW what \in {"connected", "failed"}
    PROVE  /\ Consistent(f, q \o Complete(c, what), o, NoAttempt, p)
           /\ q \o Complete(c, what) \in Queues
<1>1. CASE c = NoAttempt
  BY <1>1, ConcatNothing DEF Complete
<1>2. CASE c # NoAttempt
  <2> DEFINE it == Item(what, c)
  <2>1. c \in Attempts
    BY <1>2 DEF SomeAttempt
  <2>2. ConsistentBut(c, f, q, o, NoAttempt, p) /\ f[c].step = "connecting"
    BY <2>1, TakeKept
  <2>3. Wanted(f[c]) = 1 /\ RepliesAt(f, c, p)
    BY <2>1, <2>2 DEF Wanted, RepliesAt, Consistent, Replies
  <2>4. it \in Items /\ it.of = c /\ Fits(it, f[c])
    BY <2>1, <2>2, QueuesItems, ItemFits
  <2>5. Complete(c, what) = <<it>>
    BY <1>2 DEF Complete
  <2> HIDE DEF it
  <2>6. Consistent(f, q \o <<it>>, o, NoAttempt, p)
    BY <2>1, <2>2, <2>3, <2>4, GiveItem
  <2> QED  BY <2>4, <2>5, <2>6, CountPush
<1> QED  BY <1>1, <1>2

\* What the head of the executor's queue waits for is called.
LEMMA CompleteCaller ==
    ASSUME NEW f \in AttemptMaps, NEW q \in Queues, NEW o \in Queues, NEW c, NEW p,
           Consistent(f, q, o, c, p), o # <<>>, NEW what \in {"closed", "failed"},
           Head(o).of \in SomeAttempt,
           what = "closed" => Head(o).type = "close",
           what = "failed" => Head(o).type = "connect"
    PROVE  Consistent(f, q \o Complete(Head(o).of, what), Tail(o), c, p)
<1> DEFINE a == Head(o).of
           it == Item(what, a)
<1>1. Tail(o) \in Queues
  BY HeadAndTail
<1>2. CASE a = NoAttempt
  BY <1>2, ConcatNothing, TakeNobody, AppAssumption DEF Complete
<1>3. CASE a # NoAttempt
  <2>1. a \in Attempts
    BY <1>3 DEF SomeAttempt
  <2>2. ConsistentBut(a, f, q, Tail(o), c, p) /\ Fits(Head(o), f[a]) /\ Wanted(f[a]) = 1
    BY <2>1, TakeFromOutbox
  <2>3. RepliesAt(f, a, p)
    BY <2>1 DEF RepliesAt, Consistent, Replies
  <2>4. it \in Items /\ it.of = a /\ Fits(it, f[a])
    BY <2>1, <2>2, QueuesItems, ItemFits DEF Fits
  <2>5. Complete(a, what) = <<it>>
    BY <1>3 DEF Complete
  <2> HIDE DEF it, a
  <2>6. Consistent(f, q \o <<it>>, Tail(o), c, p)
    BY <1>1, <2>1, <2>2, <2>3, <2>4, GiveItem
  <2> QED  BY <2>5, <2>6 DEF a
<1> QED  BY <1>2, <1>3
-------------------------------------------------------------------------------
(***************************************************************************)
(* One lemma per group of actions, one step per action.                    *)
(***************************************************************************)
\* A coroutine that is kept as connect()'s completion is one that the manager dials
\* for: performConnect overwrites none.
KeptWhileConnecting == connectCall # NoAttempt => transport = "connecting"

PInv == IInv /\ KeptWhileConnecting /\ CInv

LEMMA PInvTyped ==
    ASSUME PInv
    PROVE  /\ ClientTyped /\ AttemptsTyped /\ QueuesTyped /\ ManagerTyped /\ NeverWedged
           /\ attempt \in AttemptMaps /\ inbox \in Queues /\ outbox \in Queues
           /\ pendingAttempt \in SomeAttempt /\ connectCall \in SomeAttempt
           /\ Consistent(attempt, inbox, outbox, connectCall, pendingAttempt)
  BY QueuesTypedAsQueues
  DEF PInv, IInv, Typed, AttemptsTyped, AttemptMaps, ManagerTyped, CInv

\* Nothing waits and nothing is queued.
LEMMA NothingConsistent ==
    Consistent([a \in Attempts |-> Free], <<>>, <<>>, NoAttempt, NoAttempt)
<1> DEFINE f == [a \in Attempts |-> Free]
<1>1. \A x \in Attempts : Everywhere(<<>>, <<>>, NoAttempt, x) = 0
  BY CountEmpty, AppAssumption DEF Everywhere, Kept
<1>2. \A x \in Attempts : Wanted(f[x]) = 0
  BY DEF Free, Wanted
<1>3. Agrees(<<>>, f)
  BY DEF Agrees
<1>4. Replies(f, NoAttempt, Attempts)
  BY AppAssumption DEF Replies, Free
<1> HIDE DEF f
<1>5. Consistent(f, <<>>, <<>>, NoAttempt, NoAttempt)
  BY <1>1, <1>2, <1>3, <1>4, AppAssumption DEF Consistent
<1> QED  BY <1>5 DEF f

LEMMA InitPInv == Init => PInv
  BY InitIInv, NothingConsistent DEF Init, PInv, CInv, KeptWhileConnecting

LEMMA ConnectInternalCInv ==
    ASSUME PInv, NEW a \in Attempts, NEW s \in Sessions, NEW supersede \in BOOLEAN,
           ConnectInternal(a, s, supersede)
    PROVE  CInv'
<1> DEFINE superseding == clientState = "reconnecting" \/ supersede
           settled == IF superseding THEN Settle(attempt, Plain("failed")) ELSE attempt
           queue == IF superseding THEN inbox \o Woken ELSE inbox
           p == IF superseding THEN NoAttempt ELSE pendingAttempt
           claim == [NewEpoch(settled, a) EXCEPT ![a] = ClaimOf(s)]
<1>1. attempt[a].step = "free" /\ inbox' = queue /\ connectCall' = connectCall
  BY DEF ConnectInternal, managerVars
<1>2. Plain("failed") \in Answers
  BY PlainTyped
<1>3. /\ Consistent(settled, queue, outbox, connectCall, p)
      /\ settled \in AttemptMaps
      /\ queue \in Queues
  <2>1. CASE superseding
    <3>1. Consistent(Settle(attempt, Plain("failed")), inbox \o Woken, outbox, connectCall,
                     NoAttempt)
      BY <1>2, PInvTyped, SettleConsistent
    <3>2. Settle(attempt, Plain("failed")) \in AttemptMaps
      BY <1>2, PInvTyped, SettleTyped DEF AttemptMaps, Bodies
    <3>3. inbox \o Woken \in Queues
      BY PInvTyped, WokenTyped, ConcatQueues DEF Queues, Items
    <3> QED  BY <2>1, <3>1, <3>2, <3>3
  <2>2. CASE ~superseding
    BY <2>2, PInvTyped
  <2> QED  BY <2>1, <2>2
<1>4. settled[a].step = "free"
  BY <1>1, PInvTyped DEF Settle, AttemptMaps, AttemptRecords
<1> HIDE DEF settled, queue, p
<1>5. ConsistentBut(a, NewEpoch(settled, a), queue, outbox, connectCall, p)
  BY <1>3, <1>4, NewEpochConsistent, TakeNowhere, PInvTyped DEF Wanted
<1>6. /\ claim \in AttemptMaps
      /\ claim[a] = ClaimOf(s)
      /\ \A x \in Attempts \ {a} : claim[x] = NewEpoch(settled, a)[x]
  <2>1. ClaimOf(s) \in AttemptRecords
    BY UnsettledTyped DEF ClaimOf, AttemptRecords, Steps, SomeSession
  <2>2. NewEpoch(settled, a) \in AttemptMaps
    BY <1>3, NewEpochTyped DEF AttemptMaps
  <2> QED  BY <2>1, <2>2 DEF AttemptMaps
<1> HIDE DEF claim
<1>7. ConsistentBut(a, claim, queue, outbox, connectCall, p)
  BY <1>3, <1>5, <1>6, GiveRecord, PInvTyped
<1>8. claim[a].step = "closing" /\ claim[a].reply = Unsettled
  BY <1>6 DEF ClaimOf
<1>9. CASE Busy
  <2> DEFINE it == Item("close", a)
  <2>1. attempt' = claim /\ pendingAttempt' = NoAttempt /\ outbox' = Append(outbox, it)
    BY <1>9 DEF ConnectInternal, claim, settled
  <2>2. it \in Items /\ it.of = a /\ Fits(it, claim[a])
    BY <1>8, QueuesItems, ItemFits DEF SomeAttempt
  <2>3. Wanted(claim[a]) = 1 /\ RepliesAt(claim, a, NoAttempt)
    BY <1>8, AppAssumption DEF Wanted, RepliesAt
  <2> HIDE DEF it
  <2>4. outbox' = outbox \o <<it>>
    BY <2>1, <2>2, CountPush, PInvTyped
  <2>5. ConsistentBut(a, claim, queue, outbox, connectCall, NoAttempt)
    BY <1>3, <1>7, GiveRecord, PInvTyped
  <2>6. Consistent(claim, queue, outbox \o <<it>>, connectCall, NoAttempt)
    BY <1>3, <2>2, <2>3, <2>5, GiveItem, PInvTyped
  <2> QED  BY <1>1, <2>1, <2>4, <2>6 DEF CInv
<1>10. CASE ~Busy
  <2>1. PerformHandshake(a, claim)
    BY <1>10 DEF ConnectInternal, claim, settled
  <2>2. Consistent(attempt', queue, outbox', connectCall, pendingAttempt')
    BY <1>3, <1>6, <1>7, <1>8, <2>1, HandshakeConsistent, PInvTyped
  <2> QED  BY <1>1, <2>2 DEF CInv
<1> QED  BY <1>9, <1>10

\* One that neither handshakes nor awaits is not pending.
LEMMA NotPending ==
    ASSUME PInv, NEW a \in Attempts, attempt[a].step \notin {"connecting", "waiting"}
    PROVE  pendingAttempt # a
  BY PInvTyped DEF Consistent, Replies

LEMMA CallersCInv == PInv /\ Callers => CInv'
<1> SUFFICES ASSUME PInv, Callers PROVE CInv'
  OBVIOUS
<1>1. ASSUME NEW a \in Attempts, NEW s \in Sessions, HandleUrl(a, s) \/ Connect(a, s)
      PROVE  CInv'
  <2> DEFINE holds == clientState \in {"connecting", "active"}
  <2>1. CASE HandleUrl(a, s)
    <3>1. ConnectInternal(a, s, holds) /\ holds \in BOOLEAN
      BY <2>1 DEF HandleUrl
    <3> QED  BY <3>1, ConnectInternalCInv
  <2>2. CASE Connect(a, s)
    BY <2>2, ConnectInternalCInv DEF Connect
  <2> QED  BY <1>1, <2>1, <2>2
<1>2. ASSUME NEW a \in Attempts, RestoreSession(a)
      PROVE  CInv'
  <2> DEFINE f == NewEpoch(attempt, a)
             g == [f EXCEPT ![a].step = "launched"]
             it == Item("launch", a)
  <2>1. /\ attempt' = g /\ inbox' = Append(inbox, it)
        /\ UNCHANGED <<outbox, connectCall, pendingAttempt>>
    BY <1>2 DEF RestoreSession, managerVars
  <2>2. attempt[a].step = "free" /\ pendingAttempt # a
    BY <1>2, NotPending DEF RestoreSession
  <2>3. /\ Consistent(f, inbox, outbox, connectCall, pendingAttempt)
        /\ f \in AttemptMaps /\ f[a].step = "free"
    BY <2>2, NewEpochConsistent, PInvTyped
  <2> HIDE DEF f
  <2>4. /\ g[a].step = "launched"
        /\ \A x \in Attempts \ {a} : g[x] = f[x]
    BY <2>3 DEF AttemptMaps, AttemptRecords
  <2>5. it \in Items /\ it.of = a /\ Fits(it, g[a])
    BY <2>4, QueuesItems, ItemFits
  <2> HIDE DEF g, it
  <2>6. ConsistentBut(a, f, inbox, outbox, connectCall, pendingAttempt)
    BY <2>3, TakeNowhere, PInvTyped DEF Wanted
  <2>7. ConsistentBut(a, g, inbox, outbox, connectCall, pendingAttempt)
    BY <2>4, <2>6, GiveRecord, PInvTyped
  <2>8. Wanted(g[a]) = 1 /\ RepliesAt(g, a, pendingAttempt)
    BY <2>2, <2>4 DEF Wanted, RepliesAt
  <2>9. Consistent(g, inbox \o <<it>>, outbox, connectCall, pendingAttempt)
    BY <2>5, <2>7, <2>8, GiveItem, PInvTyped
  <2>10. inbox' = inbox \o <<it>>
    BY <2>1, <2>5, CountPush, PInvTyped
  <2> QED  BY <2>1, <2>9, <2>10 DEF CInv
<1>3. ASSUME NEW a \in Attempts, EnterForegroundResuming(a)
      PROVE  CInv'
  <2>1. attempt[a].step = "free" /\ AttemptResume(a, inbox, JobsUnreferred, FALSE)
    BY <1>3 DEF EnterForegroundResuming
  <2>2. ConsistentBut(a, attempt, inbox, outbox, connectCall, pendingAttempt)
    BY <2>1, TakeNowhere, PInvTyped DEF Wanted
  <2> QED  BY <2>1, <2>2, NotPending, AttemptResumeCInv, PInvTyped
<1>4. CASE Disconnect
  <2> DEFINE f == NewEpoch(attempt, NoAttempt)
             it == Item("close", NoAttempt)
  <2>1. /\ attempt' = Settle(f, Plain("failed")) /\ inbox' = inbox \o Woken
        /\ outbox' = Append(outbox, it)
        /\ pendingAttempt' = NoAttempt /\ connectCall' = connectCall
    BY <1>4 DEF Disconnect, managerVars
  <2>2. /\ Consistent(f, inbox, outbox, connectCall, pendingAttempt)
        /\ f \in AttemptMaps
        /\ \A x \in Attempts : f[x].step = attempt[x].step
    BY NewEpochConsistent, PInvTyped
  <2>3. pendingAttempt # NoAttempt => f[pendingAttempt].step = attempt[pendingAttempt].step
    BY <2>2, PInvTyped DEF SomeAttempt
  <2>4. it \in Items /\ it.of = NoAttempt
    BY QueuesItems, ItemFits DEF SomeAttempt
  <2>5. inbox \o Woken \in Queues
    BY PInvTyped, WokenTyped, ConcatQueues DEF Queues, Items
  <2> HIDE DEF f, it
  <2>6. Consistent(Settle(f, Plain("failed")), inbox \o Woken, outbox, connectCall, NoAttempt)
    BY <2>2, <2>3, PlainTyped, SettleConsistent, PInvTyped
  <2>7. Consistent(Settle(f, Plain("failed")), inbox \o Woken, outbox \o <<it>>, connectCall,
                   NoAttempt)
    BY <2>4, <2>5, <2>6, AddNobody, PInvTyped
  <2>8. outbox' = outbox \o <<it>>
    BY <2>1, <2>4, CountPush, PInvTyped
  <2> QED  BY <2>1, <2>7, <2>8 DEF CInv
<1>5. CASE RestoreExpired \/ EnterBackground \/ EnterForeground
  BY <1>5, PInvTyped
  DEF RestoreExpired, EnterBackground, EnterForeground, attemptVars, managerVars, CInv
<1>6. CASE Reload
  BY <1>6, NothingConsistent DEF Reload, CInv
<1> QED  BY <1>1, <1>2, <1>3, <1>4, <1>5, <1>6 DEF Callers

LEMMA TimersCInv == PInv /\ Timers => CInv'
<1> SUFFICES ASSUME PInv, Timers PROVE CInv'
  OBVIOUS
<1>1. CASE GraceElapses \/ ReconnectJobInVain
  BY <1>1, PInvTyped DEF GraceElapses, ReconnectJobInVain, attemptVars, managerVars, CInv
<1>2. CASE GraceJobFires
  BY <1>2, FinalizeCInv, PInvTyped DEF GraceJobFires
<1>3. ASSUME NEW a \in Attempts, ReconnectJobFires(a)
      PROVE  CInv'
  <2>1. attempt[a].step = "free" /\ AttemptResume(a, inbox, jobs - 1, FALSE)
    BY <1>3 DEF ReconnectJobFires
  <2>2. ConsistentBut(a, attempt, inbox, outbox, connectCall, pendingAttempt)
    BY <2>1, TakeNowhere, PInvTyped DEF Wanted
  <2> QED  BY <2>1, <2>2, NotPending, AttemptResumeCInv, PInvTyped
<1> QED  BY <1>1, <1>2, <1>3 DEF Timers

\* The dispatcher takes its item: an attempt's leaves it in no place, an event none.
LEMMA DueConsistent ==
    ASSUME PInv, NEW what, Due(what)
    PROVE  /\ Tail(inbox) \in Queues /\ inbox # <<>> /\ Head(inbox).type = what
           /\ what # "event" =>
                /\ At \in Attempts
                /\ ConsistentBut(At, attempt, Tail(inbox), outbox, connectCall, pendingAttempt)
                /\ Fits(Head(inbox), attempt[At])
                /\ Wanted(attempt[At]) = 1
           /\ what = "event" =>
                /\ Consistent(attempt, Tail(inbox), outbox, connectCall, pendingAttempt)
                /\ Head(inbox).body \in Answers
<1>1. inbox # <<>> /\ Head(inbox).type = what /\ Tail(inbox) \in Queues
  BY HeadAndTail, PInvTyped DEF Due
<1>2. /\ what # "event" => At \in Attempts
      /\ what = "event" => Head(inbox).of = NoAttempt /\ Head(inbox).body \in Answers
  BY DueTyped DEF PInv
<1>3. ASSUME what # "event"
      PROVE  /\ ConsistentBut(At, attempt, Tail(inbox), outbox, connectCall, pendingAttempt)
             /\ Fits(Head(inbox), attempt[At])
             /\ Wanted(attempt[At]) = 1
  BY <1>1, <1>2, <1>3, TakeFromInbox, PInvTyped DEF At
<1>4. ASSUME what = "event"
      PROVE  Consistent(attempt, Tail(inbox), outbox, connectCall, pendingAttempt)
  BY <1>1, <1>2, <1>4, TakeNobody, PInvTyped, AppAssumption
<1> QED  BY <1>1, <1>2, <1>3, <1>4

LEMMA HandshakeStepsCInv ==
    PInv /\ (Launched \/ LaunchedInVain \/ TransportClosed \/ Connected \/ ConnectFailed)
        => CInv'
<1> SUFFICES ASSUME PInv,
                    Launched \/ LaunchedInVain \/ TransportClosed \/ Connected \/ ConnectFailed
             PROVE  CInv'
  OBVIOUS
<1>1. CASE Launched \/ LaunchedInVain
  <2>1. /\ Tail(inbox) \in Queues /\ At \in Attempts
        /\ ConsistentBut(At, attempt, Tail(inbox), outbox, connectCall, pendingAttempt)
        /\ attempt[At].step = "launched"
    BY <1>1, DueConsistent DEF Launched, LaunchedInVain, Fits
  <2>2. pendingAttempt # At
    BY <2>1, NotPending
  <2>3. CASE Launched
    <3>1. AttemptResume(At, Tail(inbox), jobs, reconnectJob)
      BY <2>3 DEF Launched
    <3> QED  BY <2>1, <2>2, <3>1, AttemptResumeCInv, PInvTyped
  <2>4. CASE LaunchedInVain
    <3>1. Consistent([attempt EXCEPT ![At] = Free], Tail(inbox), outbox, connectCall,
                     pendingAttempt)
      BY <2>1, <2>2, EndConsistent, PInvTyped
    <3> QED  BY <2>4, <3>1 DEF LaunchedInVain, managerVars, CInv
  <2> QED  BY <1>1, <2>3, <2>4
<1>2. CASE TransportClosed
  <2>1. /\ Tail(inbox) \in Queues /\ At \in Attempts
        /\ ConsistentBut(At, attempt, Tail(inbox), outbox, connectCall, pendingAttempt)
        /\ attempt[At].step = "closing"
    BY <1>2, DueConsistent DEF TransportClosed, Fits
  <2>2. attempt[At].reply = Unsettled
    BY <2>1, PInvTyped DEF Consistent, Replies
  <2>3. PerformHandshake(At, attempt) /\ inbox' = Tail(inbox) /\ connectCall' = connectCall
    BY <1>2 DEF TransportClosed, managerVars
  <2>4. Consistent(attempt', Tail(inbox), outbox', connectCall, pendingAttempt')
    BY <2>1, <2>2, <2>3, HandshakeConsistent, PInvTyped
  <2> QED  BY <2>3, <2>4 DEF CInv
<1>3. CASE Connected
  <2>1. /\ Tail(inbox) \in Queues /\ At \in Attempts
        /\ ConsistentBut(At, attempt, Tail(inbox), outbox, connectCall, pendingAttempt)
    BY <1>3, DueConsistent DEF Connected
  <2>2. pendingAttempt = At => attempt[At].reply = Unsettled
    BY <2>1, PInvTyped DEF Consistent, Replies
  <2>3. Await(At, attempt, Tail(inbox)) /\ pendingAttempt' = pendingAttempt
    BY <1>3 DEF Connected
  <2> QED  BY <2>1, <2>2, <2>3, AwaitConsistent, PInvTyped DEF CInv
<1>4. CASE ConnectFailed
  <2> DEFINE f == Settle(attempt, Plain("failed"))
             queue == inbox \o Woken
  <2>1. inbox # <<>> /\ At \in Attempts
    BY <1>4, DueConsistent DEF ConnectFailed
  <2>2. Woken \in Queues /\ queue \in Queues
    BY PInvTyped, WokenTyped, ConcatQueues DEF Queues, Items
  <2>3. f \in AttemptMaps
    BY PInvTyped, PlainTyped, SettleTyped DEF AttemptMaps, Bodies
  <2>4. Consistent(f, queue, outbox, connectCall, NoAttempt)
    BY PlainTyped, SettleConsistent, PInvTyped
  <2>5. queue # <<>> /\ Head(queue) = Head(inbox) /\ Tail(queue) = Tail(inbox) \o Woken
    BY <2>1, <2>2, TailOfConcat, PInvTyped
  <2>6. Await(At, f, Tail(inbox) \o Woken) /\ pendingAttempt' = NoAttempt
    BY <1>4 DEF ConnectFailed
  <2> HIDE DEF f, queue
  <2>7. ConsistentBut(At, f, Tail(queue), outbox, connectCall, NoAttempt)
    BY <2>1, <2>2, <2>3, <2>4, <2>5, TakeFromInbox, PInvTyped DEF At
  <2>8. Tail(queue) \in Queues
    BY <2>2, <2>5, HeadAndTail
  <2>9. Consistent(attempt', inbox', outbox', connectCall', NoAttempt)
    BY <2>1, <2>3, <2>5, <2>6, <2>7, <2>8, AwaitConsistent, PInvTyped, AppAssumption
  <2> QED  BY <2>6, <2>9 DEF CInv
<1> QED  BY <1>1, <1>2, <1>3, <1>4

LEMMA EndStepsCInv ==
    PInv /\ (\/ ClaimSuperseded \/ ClaimAcked \/ ClaimFails
             \/ ResumeSuperseded \/ ResumeAcked \/ ResumeRejected \/ ResumeFails)
        => CInv'
<1> SUFFICES ASSUME PInv, NEW kind, Resumes(kind),
                    EndsWithoutSideEffects \/ FinalizeSessionLost(Ended, Tail(inbox))
             PROVE  CInv'
  BY DEF ClaimSuperseded, ClaimAcked, ClaimFails, ResumeSuperseded, ResumeAcked, ResumeRejected,
         ResumeFails
<1>1. /\ Tail(inbox) \in Queues /\ At \in Attempts
      /\ ConsistentBut(At, attempt, Tail(inbox), outbox, connectCall, pendingAttempt)
      /\ attempt[At].step = "waiting" /\ Wanted(attempt[At]) = 1
  BY DueConsistent DEF Resumes, Fits
<1>2. pendingAttempt # At
  BY <1>1, PInvTyped DEF Wanted, Consistent, Replies
<1>3. Consistent(Ended, Tail(inbox), outbox, connectCall, pendingAttempt) /\ Ended \in AttemptMaps
  BY <1>1, <1>2, EndConsistent, PInvTyped DEF Ended
<1>4. pendingAttempt # NoAttempt => Ended[pendingAttempt].step = attempt[pendingAttempt].step
  BY <1>2, PInvTyped DEF Ended, AttemptMaps, SomeAttempt
<1>5. CASE EndsWithoutSideEffects
  BY <1>3, <1>5 DEF EndsWithoutSideEffects, managerVars, CInv
<1>6. CASE FinalizeSessionLost(Ended, Tail(inbox))
  BY <1>1, <1>3, <1>4, <1>6, FinalizeCInv, PInvTyped
<1> QED  BY <1>5, <1>6

LEMMA EventStepsCInv ==
    PInv /\ (\/ EventSettles \/ AckDropped
             \/ SocketLostWithoutSession \/ SocketLostForGood \/ SocketLost)
        => CInv'
<1> SUFFICES ASSUME PInv,
                    \/ EventSettles \/ AckDropped
                    \/ SocketLostWithoutSession \/ SocketLostForGood \/ SocketLost
             PROVE  CInv'
  OBVIOUS
<1>1. /\ Tail(inbox) \in Queues
      /\ Consistent(attempt, Tail(inbox), outbox, connectCall, pendingAttempt)
      /\ Head(inbox).body \in Answers
  BY DueConsistent
  DEF EventSettles, AckDropped, SocketLostWithoutSession, SocketLostForGood, SocketLost, LossSeen
<1>2. CASE EventSettles
  <2>1. Consistent(Settle(attempt, Head(inbox).body), Tail(inbox) \o Woken, outbox, connectCall,
                   NoAttempt)
    BY <1>1, SettleConsistent, PInvTyped
  <2> QED  BY <1>2, <2>1 DEF EventSettles, managerVars, CInv
<1>3. CASE AckDropped \/ SocketLostWithoutSession \/ SocketLost
  BY <1>1, <1>3
  DEF AckDropped, SocketLostWithoutSession, SocketLost, attemptVars, managerVars, CInv
<1>4. CASE SocketLostForGood
  BY <1>1, <1>4, FinalizeCInv, PInvTyped DEF SocketLostForGood
<1> QED  BY <1>2, <1>3, <1>4

LEMMA ExecutorCInv == PInv /\ Executor => CInv'
<1> SUFFICES ASSUME PInv, Executor, outbox # <<>>, outbox' = Tail(outbox),
                    UNCHANGED <<clientVars, attemptVars>>
             PROVE  CInv'
  BY DEF Executor, PerformConnectRefused, PerformConnectInvalid, PerformConnect,
         PerformConnectThrows, PerformCloseWithoutSocket, PerformClose, Queued, Dialable
<1>1. Caller \in SomeAttempt /\ (Queued("connect") => Caller \in Attempts)
  BY OutboxHead, PInvTyped DEF Caller, Queued, OutboxItems, SomeAttempt
<1>2. attempt' = attempt /\ pendingAttempt' = pendingAttempt
  BY DEF attemptVars
<1>3. ASSUME PerformConnectRefused \/ PerformConnectInvalid \/ PerformConnectThrows
      PROVE  CInv'
  <2>1. Head(outbox).type = "connect" /\ inbox' = inbox \o Complete(Caller, "failed")
    BY <1>3
    DEF PerformConnectRefused, PerformConnectInvalid, PerformConnectThrows, Dialable, Queued
  <2>2. connectCall' = connectCall
    BY <1>3 DEF PerformConnectRefused, PerformConnectInvalid, PerformConnectThrows, managerVars,
                Dialable, Busy, PInv, KeptWhileConnecting
  <2>3. Consistent(attempt, inbox \o Complete(Caller, "failed"), Tail(outbox), connectCall,
                   pendingAttempt)
    BY <1>1, <2>1, CompleteCaller, PInvTyped DEF Caller
  <2> QED  BY <1>2, <2>1, <2>2, <2>3 DEF CInv
<1>4. CASE PerformConnect
  <2>1. /\ connectCall = NoAttempt /\ connectCall' = Caller /\ inbox' = inbox
        /\ Caller \in Attempts /\ Head(outbox).type = "connect"
    BY <1>1, <1>4 DEF PerformConnect, Dialable, Queued, Busy, PInv, KeptWhileConnecting
  <2>2. /\ ConsistentBut(Caller, attempt, inbox, Tail(outbox), NoAttempt, pendingAttempt)
        /\ attempt[Caller].step = "connecting"
    BY <2>1, TakeFromOutbox, PInvTyped DEF Caller, Fits
  <2>3. RepliesAt(attempt, Caller, pendingAttempt)
    BY <2>1, PInvTyped DEF Consistent, Replies, RepliesAt
  <2>4. Tail(outbox) \in Queues
    BY HeadAndTail, PInvTyped
  <2>5. Consistent(attempt, inbox, Tail(outbox), Caller, pendingAttempt)
    BY <2>1, <2>2, <2>3, <2>4, GiveKept, PInvTyped
  <2> QED  BY <1>2, <2>1, <2>5 DEF CInv
<1>5. CASE PerformCloseWithoutSocket
  <2> DEFINE it == Event(Plain("other"))
  <2>1. /\ Head(outbox).type = "close" /\ connectCall' = connectCall
        /\ inbox' = inbox \o <<it>> \o Complete(Caller, "closed")
    BY <1>5 DEF PerformCloseWithoutSocket, Queued
  <2>2. it \in Items /\ it.of = NoAttempt
    BY PlainTyped, QueuesItems DEF CloseCodes, Event
  <2> HIDE DEF it
  <2>3. inbox \o <<it>> \in Queues
    BY <2>2, CountPush, PInvTyped
  <2>4. Consistent(attempt, inbox \o <<it>>, outbox, connectCall, pendingAttempt)
    BY <2>2, AddNobody, PInvTyped
  <2>5. Consistent(attempt, inbox \o <<it>> \o Complete(Caller, "closed"), Tail(outbox),
                   connectCall, pendingAttempt)
    BY <1>1, <2>1, <2>3, <2>4, CompleteCaller, PInvTyped DEF Caller
  <2> QED  BY <1>2, <2>1, <2>5 DEF CInv
<1>6. CASE PerformClose
  <2> DEFINE queue == inbox \o Complete(connectCall, "failed")
  <2>1. /\ Head(outbox).type = "close" /\ connectCall' = NoAttempt
        /\ inbox' = queue \o Complete(Caller, "closed")
    BY <1>6 DEF PerformClose, Queued
  <2>2. Consistent(attempt, queue, outbox, NoAttempt, pendingAttempt) /\ queue \in Queues
    BY CompleteKept, PInvTyped
  <2> HIDE DEF queue
  <2>3. Consistent(attempt, queue \o Complete(Caller, "closed"), Tail(outbox), NoAttempt,
                   pendingAttempt)
    BY <1>1, <2>1, <2>2, CompleteCaller, PInvTyped DEF Caller
  <2> QED  BY <1>2, <2>1, <2>3 DEF CInv
<1> QED  BY <1>3, <1>4, <1>5, <1>6 DEF Executor

LEMMA PeerCInv == PInv /\ Peer => CInv'
<1> SUFFICES ASSUME PInv, Peer, UNCHANGED <<clientVars, attemptVars, outbox>>
             PROVE  CInv'
  BY DEF Peer, SocketOpens, AckArrives, SocketBreaks, SocketFails, SocketCloses
<1>1. attempt' = attempt /\ pendingAttempt' = pendingAttempt /\ outbox' = outbox
  BY DEF attemptVars
<1>2. CASE SocketOpens
  <2> DEFINE what == IF socket.closing THEN "failed" ELSE "connected"
  <2>1. inbox' = inbox \o Complete(connectCall, what) /\ connectCall' = NoAttempt
    BY <1>2 DEF SocketOpens
  <2>2. Consistent(attempt, inbox \o Complete(connectCall, what), outbox, NoAttempt, pendingAttempt)
    BY CompleteKept, PInvTyped
  <2> QED  BY <1>1, <2>1, <2>2 DEF CInv
<1>3. ASSUME NEW body \in Answers, inbox' = Append(inbox, Event(body)), connectCall' = connectCall
      PROVE  CInv'
  <2> DEFINE it == Event(body)
  <2>1. it \in Items /\ it.of = NoAttempt
    BY QueuesItems DEF Event
  <2>2. inbox' = inbox \o <<it>>
    BY <1>3, <2>1, CountPush, PInvTyped
  <2> HIDE DEF it
  <2>3. Consistent(attempt, inbox \o <<it>>, outbox, connectCall, pendingAttempt)
    BY <2>1, AddNobody, PInvTyped
  <2> QED  BY <1>1, <1>3, <2>2, <2>3 DEF CInv
<1>4. CASE AckArrives
  <2>1. Ack(options) \in Answers
    BY AckTyped, PInvTyped DEF ManagerTyped
  <2> QED  BY <1>3, <1>4, <2>1 DEF AckArrives
<1>5. CASE SocketBreaks
  BY <1>1, <1>5, PInvTyped DEF SocketBreaks, CInv
<1>6. ASSUME NEW code \in CloseCodes, SocketCloses(code)
      PROVE  CInv'
  <2>1. Plain(code) \in Answers
    BY PlainTyped
  <2> QED  BY <1>3, <1>6, <2>1 DEF SocketCloses
<1>7. CASE SocketFails
  <2> DEFINE queue == inbox \o Complete(connectCall, "failed")
             it == Event(Plain("other"))
  <2>1. inbox' = queue \o <<it>> /\ connectCall' = NoAttempt
    BY <1>7 DEF SocketFails
  <2>2. Consistent(attempt, queue, outbox, NoAttempt, pendingAttempt) /\ queue \in Queues
    BY CompleteKept, PInvTyped
  <2>3. it \in Items /\ it.of = NoAttempt
    BY PlainTyped, QueuesItems DEF CloseCodes, Event
  <2> HIDE DEF queue, it
  <2>4. Consistent(attempt, queue \o <<it>>, outbox, NoAttempt, pendingAttempt)
    BY <2>2, <2>3, AddNobody, PInvTyped
  <2> QED  BY <1>1, <2>1, <2>4 DEF CInv
<1> QED  BY <1>2, <1>4, <1>5, <1>6, <1>7 DEF Peer

\* performConnect is refused while a completion is kept, and what takes the manager out
\* of "connecting" calls it.
LEMMA NextKept == PInv /\ [Next]_vars => KeptWhileConnecting'
<1> SUFFICES ASSUME PInv, [Next]_vars PROVE KeptWhileConnecting'
  OBVIOUS
<1>1. connectCall # NoAttempt => /\ transport = "connecting" /\ socket # NoSocket
                                 /\ socket.phase = "dialing"
  BY PInvTyped DEF PInv, KeptWhileConnecting, NeverWedged, Busy
<1>2. ASSUME UNCHANGED managerVars
      PROVE  KeptWhileConnecting'
  BY <1>1, <1>2 DEF managerVars, KeptWhileConnecting
<1>3. ASSUME NEW f, NEW q, FinalizeSessionLost(f, q)
      PROVE  KeptWhileConnecting'
  BY <1>2, <1>3 DEF FinalizeSessionLost
<1>4. ASSUME NEW a, NEW q, NEW m, NEW n, AttemptResume(a, q, m, n)
      PROVE  KeptWhileConnecting'
  BY <1>2, <1>3, <1>4 DEF AttemptResume
<1>5. CASE Callers
  <2>1. CASE Reload
    BY <2>1 DEF Reload, KeptWhileConnecting
  <2>2. CASE ~Reload
    BY <1>2, <1>4, <1>5, <2>2
    DEF Callers, HandleUrl, Connect, ConnectInternal, RestoreSession, EnterForegroundResuming,
        Disconnect, RestoreExpired, EnterBackground, EnterForeground
  <2> QED  BY <2>1, <2>2
<1>6. CASE Timers
  BY <1>2, <1>3, <1>4, <1>6
  DEF Timers, GraceElapses, GraceJobFires, ReconnectJobInVain, ReconnectJobFires
<1>7. CASE Dispatcher
  BY <1>2, <1>3, <1>4, <1>7
  DEF Dispatcher, Launched, LaunchedInVain, TransportClosed, Connected, ConnectFailed, Await,
      ClaimSuperseded, ClaimAcked, ClaimFails, ResumeSuperseded, ResumeAcked, ResumeRejected,
      ResumeFails, EndsWithoutSideEffects, EventSettles, AckDropped, SocketLostWithoutSession,
      SocketLostForGood, SocketLost
<1>8. CASE Executor
  BY <1>1, <1>2, <1>8
  DEF Executor, PerformConnectRefused, PerformConnectInvalid, PerformConnect,
      PerformConnectThrows, PerformCloseWithoutSocket, PerformClose, KeptWhileConnecting
<1>9. CASE Peer
  <2>1. socket.phase = "open" => connectCall = NoAttempt
    BY <1>1
  <2> QED  BY <1>9, <2>1
           DEF Peer, SocketOpens, AckArrives, SocketBreaks, SocketCloses, SocketFails,
               KeptWhileConnecting
<1>10. CASE UNCHANGED vars
  BY <1>2, <1>10 DEF vars
<1> QED  BY <1>5, <1>6, <1>7, <1>8, <1>9, <1>10 DEF Next

LEMMA NextPInv == PInv /\ [Next]_vars => PInv'
<1> SUFFICES ASSUME PInv, [Next]_vars PROVE PInv'
  OBVIOUS
<1>1. IInv'
  BY NextIInv DEF PInv
<1>2. ASSUME Next PROVE CInv'
  BY <1>2, CallersCInv, TimersCInv, HandshakeStepsCInv, EndStepsCInv, EventStepsCInv, ExecutorCInv,
     PeerCInv DEF Next, Dispatcher
<1>3. ASSUME UNCHANGED vars PROVE CInv'
  BY <1>3 DEF vars, attemptVars, managerVars, PInv, CInv
<1>4. CInv'
  BY <1>2, <1>3
<1> QED  BY <1>1, <1>4, NextKept DEF PInv

\* In every state, what is queued for a coroutine agrees with where the coroutine is
\* suspended, and performConnect never overwrites a completion it keeps.
THEOREM SpecPInv == Spec => []PInv
  BY InitPInv, NextPInv, PTL DEF Spec

\* Every connectTransport and closeTransport returns exactly once, and an answered
\* coroutine is resumed once, whatever close, failure or reload met on the way.
THEOREM SpecOneCompletion == Spec => []OneCompletion
<1>1. PInv => OneCompletion
  <2> SUFFICES ASSUME PInv, NEW a \in Attempts
               PROVE  Places(a) = IF InTransport(a) \/ Answered(a) THEN 1 ELSE 0
    BY DEF OneCompletion
  <2>1. Places(a) = Everywhere(inbox, outbox, connectCall, a)
    BY DEF Places, Everywhere, Kept
  <2>2. Wanted(attempt[a]) = IF InTransport(a) \/ Answered(a) THEN 1 ELSE 0
    BY DEF Wanted, InTransport, Answered
  <2> QED  BY <2>1, <2>2, PInvTyped DEF Consistent
<1> QED  BY <1>1, SpecPInv, PTL

\* settlePendingAttempt never settles a deferred twice: who is pending has not been
\* answered and still goes to wait.
THEOREM SpecPendingIsUnsettled == Spec => []PendingIsUnsettled
<1>1. PInv => PendingIsUnsettled
  BY PInvTyped DEF PendingIsUnsettled, Consistent, Replies, SomeAttempt
<1> QED  BY <1>1, SpecPInv, PTL
-------------------------------------------------------------------------------
(***************************************************************************)
(* A client that has lost its socket can come back.                        *)
(*                                                                         *)
(* What is fresh belongs to the current epoch, and an epoch begins whenever *)
(* the session is given up: so a fresh resume, a retry that is armed and a  *)
(* resume in flight each imply that a session is held, and a retry is a     *)
(* no-op only while a fresh resume is under way.  The sessions that are     *)
(* held, remembered or acknowledged are sessions that some link named.      *)
(***************************************************************************)
Named(r) == r = NoHeld \/ r.session \in Sessions
Genuine(body) == body.type = "ack" => body.session \in Sessions
GenuineItems == {it \in InboxItems : Genuine(it.body)}
NamedIn(f) ==
    \A a \in Attempts :
        /\ Genuine(f[a].reply)
        /\ f[a].step \in {"closing", "connecting", "waiting"} => f[a].goal \in Sessions

SessionsNamed ==
    /\ Named(held) /\ Named(lease)
    /\ transport = "connecting" => options \in Sessions
    /\ NamedIn(attempt)
    /\ inbox \in Seq(GenuineItems)

Resuming(r) == r.fresh /\ r.kind = "resume" /\ r.step \in {"connecting", "waiting"}
Closing(r) == r.fresh /\ r.step = "closing"

\* HeldIsTold and NoPhantomResume, of the client's own epoch.
ClosingUnlessHeld ==
    clientState \in {"active", "reconnecting"} =>
        held # NoHeld \/ \E a \in Attempts : Closing(attempt[a])
InFlightIsFresh == resumeInFlight => \E a \in Attempts : Resuming(attempt[a])
FreshOfHeld ==
    /\ \A a \in Attempts :
        attempt[a].fresh /\ (attempt[a].kind = "resume" \/ attempt[a].step = "launched")
            => held # NoHeld
    /\ jobs > 0 => held # NoHeld

UnderWay == ClosingUnlessHeld /\ ReconnectUnderWay /\ InFlightIsFresh /\ FreshOfHeld

RInv == SessionsNamed /\ UnderWay

\* A step that changes nothing for recovery.
SameCourse(r, s) ==
    /\ s.fresh = r.fresh /\ s.kind = r.kind
    /\ s.step = r.step \/ (r.step = "connecting" /\ s.step = "waiting")

LEMMA KeptUnderWay ==
    ASSUME UnderWay, UNCHANGED clientVars,
           \A a \in Attempts : SameCourse(attempt[a], attempt'[a])
    PROVE  UnderWay'
<1> USE DEF clientVars, timerVars, SameCourse
<1>1. ClosingUnlessHeld'
  BY DEF UnderWay, ClosingUnlessHeld, Closing
<1>2. ReconnectUnderWay'
  BY DEF UnderWay, ReconnectUnderWay
<1>3. InFlightIsFresh'
  BY DEF UnderWay, InFlightIsFresh, Resuming
<1>4. FreshOfHeld'
  BY DEF UnderWay, FreshOfHeld
<1> QED  BY <1>1, <1>2, <1>3, <1>4 DEF UnderWay

LEMMA GenuinePlain ==
    /\ Genuine(Unsettled)
    /\ \A type \in {"failed"} \union CloseCodes : Genuine(Plain(type))
    /\ \A s \in Sessions : Genuine(Ack(s))
  BY DEF Genuine, Unsettled, Plain, Ack, CloseCodes

LEMMA GenuineItem ==
    ASSUME NEW what \in {"launch", "closed", "connected", "failed", "wake", "continue"},
           NEW a \in Attempts
    PROVE  Item(what, a) \in GenuineItems
<1>1. Item(what, a) \in InboxItems
  BY InboxItemTyped
<1>2. Item(what, a).body = Unsettled
  BY DEF Item
<1> QED  BY <1>1, <1>2, GenuinePlain DEF GenuineItems

LEMMA GenuineEvent ==
    ASSUME NEW body \in Answers, Genuine(body)
    PROVE  Event(body) \in GenuineItems
<1>1. Event(body) \in InboxItems /\ Event(body).body = body
  BY EventTyped DEF Event
<1> QED  BY <1>1 DEF GenuineItems

LEMMA GenuineWoken ==
    ASSUME AttemptsTyped
    PROVE  Woken \in Seq(GenuineItems)
<1>1. CASE pendingAttempt # NoAttempt
  <2>1. Item("wake", pendingAttempt) \in GenuineItems
    BY <1>1, GenuineItem DEF AttemptsTyped, SomeAttempt
  <2> QED  BY <2>1 DEF Woken
<1>2. CASE pendingAttempt = NoAttempt
  BY <1>2 DEF Woken
<1> QED  BY <1>1, <1>2

LEMMA GenuineComplete ==
    ASSUME NEW a \in SomeAttempt, NEW what \in {"closed", "connected", "failed"}
    PROVE  Complete(a, what) \in Seq(GenuineItems)
<1>1. CASE a # NoAttempt
  <2>1. Item(what, a) \in GenuineItems
    BY <1>1, GenuineItem DEF SomeAttempt
  <2> QED  BY <1>1, <2>1 DEF Complete
<1>2. CASE a = NoAttempt
  BY <1>2 DEF Complete
<1> QED  BY <1>1, <1>2

LEMMA GenuineConcat ==
    ASSUME NEW q \in Seq(GenuineItems), NEW r \in Seq(GenuineItems)
    PROVE  q \o r \in Seq(GenuineItems)
  BY ConcatProperties

LEMMA GenuineAppend ==
    ASSUME NEW q \in Seq(GenuineItems), NEW it \in GenuineItems
    PROVE  Append(q, it) \in Seq(GenuineItems)
  BY AppendProperties

LEMMA GenuineTail ==
    ASSUME SessionsNamed, inbox # <<>>
    PROVE  Tail(inbox) \in Seq(GenuineItems) /\ Genuine(Head(inbox).body)
<1>1. Head(inbox) \in GenuineItems /\ Tail(inbox) \in Seq(GenuineItems)
  BY HeadTailProperties DEF SessionsNamed
<1> QED  BY <1>1 DEF GenuineItems

LEMMA NewEpochFresh ==
    ASSUME NEW f \in AttemptMaps, NEW a
    PROVE  /\ NewEpoch(f, a) \in AttemptMaps
           /\ \A x \in Attempts :
                LET r == NewEpoch(f, a)[x]
                IN  /\ x = a => r.fresh = TRUE
                    /\ x # a => r.fresh = FALSE
                    /\ r.step = f[x].step /\ r.kind = f[x].kind /\ r.goal = f[x].goal
                    /\ r.reply = f[x].reply
           /\ NamedIn(f) => NamedIn(NewEpoch(f, a))
<1>1. NewEpoch(f, a) \in AttemptMaps
  BY NewEpochTyped DEF AttemptMaps
<1>2. ASSUME NEW x \in Attempts
      PROVE  /\ x = a => NewEpoch(f, a)[x] = [f[x] EXCEPT !.fresh = TRUE]
             /\ x # a => NewEpoch(f, a)[x] = [f[x] EXCEPT !.fresh = FALSE]
             /\ f[x] \in AttemptRecords
  <2>1. NewEpoch(f, a)[x] = [f[x] EXCEPT !.fresh = (x = a)]
    BY DEF NewEpoch
  <2>2. x = a => (x = a) = TRUE
    OBVIOUS
  <2>3. x # a => (x = a) = FALSE
    OBVIOUS
  <2> QED  BY <2>1, <2>2, <2>3, Zenon DEF AttemptMaps
<1>3. \A x \in Attempts :
        LET r == NewEpoch(f, a)[x]
        IN  /\ x = a => r.fresh = TRUE
            /\ x # a => r.fresh = FALSE
            /\ r.step = f[x].step /\ r.kind = f[x].kind /\ r.goal = f[x].goal
            /\ r.reply = f[x].reply
  <2> TAKE x \in Attempts
  <2> DEFINE r == NewEpoch(f, a)[x]
  <2>1. f[x] \in AttemptRecords
    BY <1>2
  <2>2. CASE x = a
    <3>1. r = [f[x] EXCEPT !.fresh = TRUE]
      BY <1>2, <2>2
    <3> HIDE DEF r
    <3>2. /\ r.fresh = TRUE
          /\ r.step = f[x].step /\ r.kind = f[x].kind /\ r.goal = f[x].goal
          /\ r.reply = f[x].reply
      BY <2>1, <3>1 DEF AttemptRecords
    <3> QED  BY <2>2, <3>2 DEF r
  <2>3. CASE x # a
    <3>1. r = [f[x] EXCEPT !.fresh = FALSE]
      BY <1>2, <2>3
    <3> HIDE DEF r
    <3>2. /\ r.fresh = FALSE
          /\ r.step = f[x].step /\ r.kind = f[x].kind /\ r.goal = f[x].goal
          /\ r.reply = f[x].reply
      BY <2>1, <3>1 DEF AttemptRecords
    <3> QED  BY <2>3, <3>2 DEF r
  <2> QED  BY <2>2, <2>3
<1>4. NamedIn(f) => NamedIn(NewEpoch(f, a))
  BY <1>3 DEF NamedIn
<1> QED  BY <1>1, <1>3, <1>4

LEMMA SettleFresh ==
    ASSUME AttemptsTyped, NEW f \in AttemptMaps, NEW body \in Answers
    PROVE  /\ Settle(f, body) \in AttemptMaps
           /\ \A x \in Attempts :
                LET r == Settle(f, body)[x]
                IN  /\ r.fresh = f[x].fresh
                    /\ r.step = f[x].step /\ r.kind = f[x].kind /\ r.goal = f[x].goal
                    /\ r.reply \in {f[x].reply, body}
           /\ NamedIn(f) /\ Genuine(body) => NamedIn(Settle(f, body))
<1>1. Settle(f, body) \in AttemptMaps
  BY SettleTyped DEF AttemptMaps, Bodies
<1>2. \A x \in Attempts :
        LET r == Settle(f, body)[x]
        IN  /\ r.fresh = f[x].fresh
            /\ r.step = f[x].step /\ r.kind = f[x].kind /\ r.goal = f[x].goal
            /\ r.reply \in {f[x].reply, body}
  BY DEF Settle, AttemptMaps, AttemptRecords
<1>3. NamedIn(f) /\ Genuine(body) => NamedIn(Settle(f, body))
  BY <1>2 DEF NamedIn
<1> QED  BY <1>1, <1>2, <1>3

\* finalizeSessionLost begins an epoch with nothing in it.
LEMMA FinalizeRInv ==
    ASSUME PInv, RInv, NEW f \in AttemptMaps, NamedIn(f), NEW q \in Seq(GenuineItems),
           FinalizeSessionLost(f, q)
    PROVE  RInv'
<1> DEFINE g == NewEpoch(f, NoAttempt)
<1>0. Plain("failed") \in Answers /\ Genuine(Plain("failed"))
  BY PlainTyped, GenuinePlain
<1>1. g \in AttemptMaps /\ NamedIn(g) /\ \A x \in Attempts : g[x].fresh = FALSE
  <2>1. \A x \in Attempts : x # NoAttempt
    BY AppAssumption
  <2>2. g \in AttemptMaps /\ NamedIn(g)
    BY NewEpochFresh
  <2>3. ASSUME NEW x \in Attempts, x # NoAttempt
        PROVE  NewEpoch(f, NoAttempt)[x].fresh = FALSE
    BY <2>3, NewEpochFresh
  <2> QED  BY <2>1, <2>2, <2>3
<1> HIDE DEF g
<1>2. attempt' = Settle(g, Plain("failed"))
  BY DEF FinalizeSessionLost, g
<1>3. NamedIn(attempt') /\ \A x \in Attempts : attempt'[x].fresh = FALSE
  BY <1>0, <1>1, <1>2, SettleFresh, PInvTyped
<1>4. inbox' \in Seq(GenuineItems)
  BY GenuineWoken, GenuineConcat, PInvTyped DEF FinalizeSessionLost
<1>5. SessionsNamed'
  BY <1>3, <1>4 DEF RInv, SessionsNamed, FinalizeSessionLost, Named, managerVars
<1>6. UnderWay'
  BY <1>3 DEF FinalizeSessionLost, NoTimers, UnderWay, ClosingUnlessHeld, ReconnectUnderWay,
              InFlightIsFresh, FreshOfHeld
<1> QED  BY <1>5, <1>6 DEF RInv

\* performHandshake: what the attempt becomes.
LEMMA HandshakeRecord ==
    ASSUME NEW f \in AttemptMaps, NEW a \in Attempts, PerformHandshake(a, f)
    PROVE  /\ attempt'[a] = [f[a] EXCEPT !.step = "connecting"]
           /\ attempt'[a].step = "connecting" /\ attempt'[a].fresh = f[a].fresh
           /\ attempt'[a].kind = f[a].kind /\ attempt'[a].goal = f[a].goal
           /\ attempt'[a].reply = f[a].reply
           /\ \A x \in Attempts \ {a} : attempt'[x] = f[x]
  BY DEF PerformHandshake, AttemptMaps, AttemptRecords

\* attemptResume, by a coroutine that is not resuming yet.
LEMMA AttemptResumeRInv ==
    ASSUME PInv, RInv, held # NoHeld, ~resumeInFlight,
           NEW a \in Attempts, attempt[a].step \in {"free", "launched"},
           NEW q \in Seq(GenuineItems), NEW m, NEW n,
           AttemptResume(a, q, m, n)
    PROVE  RInv'
<1>1. CASE held.over
  <2> DEFINE f == [attempt EXCEPT ![a] = Free]
  <2>1. f \in AttemptMaps /\ NamedIn(f)
    <3>1. f \in AttemptMaps
      BY PInvTyped, FreeTyped DEF AttemptMaps
    <3>2. f[a] = Free /\ \A x \in Attempts \ {a} : f[x] = attempt[x]
      BY PInvTyped DEF AttemptMaps
    <3>3. Genuine(Free.reply) /\ Free.step = "free"
      BY GenuinePlain DEF Free
    <3> QED  BY <3>1, <3>2, <3>3 DEF RInv, SessionsNamed, NamedIn
  <2>2. FinalizeSessionLost(f, q)
    BY <1>1 DEF AttemptResume
  <2> HIDE DEF f
  <2> QED  BY <2>1, <2>2, FinalizeRInv
<1>2. CASE ~held.over
  <2> DEFINE f == [attempt EXCEPT ![a] = ResumeOfHeld]
  <2>1. held.session \in Sessions /\ held \in Records
    BY PInvTyped DEF RInv, SessionsNamed, Named, ClientTyped
  <2>2. ResumeOfHeld \in AttemptRecords
    BY <2>1, UnsettledTyped DEF ResumeOfHeld, AttemptRecords, Steps, SomeSession
  <2>3. f \in AttemptMaps /\ f[a] = ResumeOfHeld /\ \A x \in Attempts \ {a} : f[x] = attempt[x]
    BY <2>2, PInvTyped DEF AttemptMaps
  <2>4. PerformHandshake(a, f)
    BY <1>2 DEF AttemptResume
  <2> HIDE DEF f
  <2>5. /\ attempt'[a].step = "connecting" /\ attempt'[a].fresh = TRUE
        /\ attempt'[a].kind = "resume" /\ attempt'[a].goal = held.session
        /\ attempt'[a].reply = Unsettled
        /\ \A x \in Attempts \ {a} : attempt'[x] = attempt[x]
    BY <2>3, <2>4, HandshakeRecord DEF ResumeOfHeld
  <2>6. /\ held' = [held EXCEPT !.lost = TRUE] /\ resumeInFlight' = TRUE /\ inbox' = q
        /\ UNCHANGED <<clientState, transport, options, lease>>
    BY <1>2 DEF AttemptResume, managerVars
  <2>7. held'.session = held.session /\ held'.lost = TRUE /\ held' # NoHeld
    BY <2>1, <2>6 DEF Records, NoHeld
  <2>8. SessionsNamed'
    <3>1. NamedIn(attempt')
      BY <2>1, <2>5, GenuinePlain DEF RInv, SessionsNamed, NamedIn
    <3> QED  BY <2>1, <2>6, <2>7, <3>1 DEF RInv, SessionsNamed, Named
  <2>9. UnderWay'
    BY <2>5, <2>6, <2>7 DEF UnderWay, ClosingUnlessHeld, ReconnectUnderWay, InFlightIsFresh,
                            FreshOfHeld, Resuming
  <2> QED  BY <2>8, <2>9 DEF RInv
<1> QED  BY <1>1, <1>2

LEMMA InitRInv == Init => RInv
<1> SUFFICES ASSUME Init PROVE RInv
  OBVIOUS
<1>1. \A a \in Attempts : attempt[a] = Free
  BY DEF Init
<1>2. NamedIn(attempt)
  BY <1>1, GenuinePlain DEF NamedIn, Free
<1>3. SessionsNamed
  BY <1>2 DEF Init, SessionsNamed, Named
<1>4. UnderWay
  BY <1>1 DEF Init, UnderWay, ClosingUnlessHeld, ReconnectUnderWay, InFlightIsFresh, FreshOfHeld,
              Free
<1> QED  BY <1>3, <1>4 DEF RInv

LEMMA ConnectInternalRInv ==
    ASSUME PInv, RInv, NEW a \in Attempts, NEW s \in Sessions, NEW supersede \in BOOLEAN,
           ConnectInternal(a, s, supersede)
    PROVE  RInv'
<1> DEFINE superseding == clientState = "reconnecting" \/ supersede
           settled == IF superseding THEN Settle(attempt, Plain("failed")) ELSE attempt
           epoch == NewEpoch(settled, a)
           claim == [epoch EXCEPT ![a] = ClaimOf(s)]
<1>0. Plain("failed") \in Answers /\ Genuine(Plain("failed"))
  BY PlainTyped, GenuinePlain
<1>1. settled \in AttemptMaps /\ NamedIn(settled)
  <2>1. attempt \in AttemptMaps /\ NamedIn(attempt)
    BY PInvTyped DEF RInv, SessionsNamed
  <2>2. /\ Settle(attempt, Plain("failed")) \in AttemptMaps
        /\ NamedIn(Settle(attempt, Plain("failed")))
    BY <1>0, <2>1, SettleFresh, PInvTyped
  <2> QED  BY <2>1, <2>2
<1> HIDE DEF settled
<1>2. epoch \in AttemptMaps /\ NamedIn(epoch) /\ \A x \in Attempts \ {a} : epoch[x].fresh = FALSE
  BY <1>1, NewEpochFresh
<1> HIDE DEF epoch
<1>3. ClaimOf(s) \in AttemptRecords
  BY UnsettledTyped DEF ClaimOf, AttemptRecords, Steps, SomeSession
<1>4. claim \in AttemptMaps /\ claim[a] = ClaimOf(s) /\ \A x \in Attempts \ {a} : claim[x] = epoch[x]
  BY <1>2, <1>3 DEF AttemptMaps
<1> HIDE DEF claim
<1>5. inbox' \in Seq(GenuineItems)
  <2>1. inbox' \in {inbox, inbox \o Woken} /\ inbox \in Seq(GenuineItems)
    BY DEF ConnectInternal, RInv, SessionsNamed
  <2> QED  BY <2>1, GenuineWoken, GenuineConcat, PInvTyped
<1>6. /\ held' = NoHeld /\ lease' = NoHeld /\ resumeInFlight' = FALSE /\ jobs' = 0
      /\ UNCHANGED <<transport, options, backgrounded>>
  BY DEF ConnectInternal, NoTimers, managerVars
<1>7. /\ \A x \in Attempts \ {a} : attempt'[x] = epoch[x]
      /\ attempt'[a].fresh = TRUE /\ attempt'[a].kind = "claim" /\ attempt'[a].goal = s
      /\ attempt'[a].reply = Unsettled
      /\ attempt'[a].step \in {"closing", "connecting"}
      /\ attempt'[a].step = "closing" \/ clientState' = "connecting"
  <2>0. /\ ClaimOf(s).fresh = TRUE /\ ClaimOf(s).kind = "claim" /\ ClaimOf(s).goal = s
        /\ ClaimOf(s).reply = Unsettled /\ ClaimOf(s).step = "closing"
    BY DEF ClaimOf
  <2>1. CASE Busy
    <3>1. attempt' = claim
      BY <2>1 DEF ConnectInternal, claim, epoch, settled
    <3> QED  BY <1>4, <2>0, <3>1
  <2>2. CASE ~Busy
    <3>1. PerformHandshake(a, claim) /\ clientState' = "connecting"
      BY <2>2 DEF ConnectInternal, claim, epoch, settled
    <3>2. /\ attempt'[a].step = "connecting" /\ attempt'[a].fresh = claim[a].fresh
          /\ attempt'[a].kind = claim[a].kind /\ attempt'[a].goal = claim[a].goal
          /\ attempt'[a].reply = claim[a].reply
          /\ \A x \in Attempts \ {a} : attempt'[x] = claim[x]
      BY <1>4, <3>1, HandshakeRecord
    <3> QED  BY <1>4, <2>0, <3>1, <3>2
  <2> QED  BY <2>1, <2>2
<1>8. SessionsNamed'
  <2>1. NamedIn(attempt')
    BY <1>2, <1>7, GenuinePlain DEF NamedIn
  <2> QED  BY <1>5, <1>6, <2>1 DEF RInv, SessionsNamed, Named
<1>9. UnderWay'
  BY <1>2, <1>6, <1>7 DEF UnderWay, ClosingUnlessHeld, ReconnectUnderWay, InFlightIsFresh,
                          FreshOfHeld, Closing
<1> QED  BY <1>8, <1>9 DEF RInv

LEMMA CallersRInv == PInv /\ RInv /\ Callers => RInv'
<1> SUFFICES ASSUME PInv, RInv, Callers PROVE RInv'
  OBVIOUS
<1> USE DEF RInv
<1>1. ASSUME NEW a \in Attempts, NEW s \in Sessions, HandleUrl(a, s) \/ Connect(a, s)
      PROVE  RInv'
  <2> DEFINE holds == clientState \in {"connecting", "active"}
  <2>1. CASE HandleUrl(a, s)
    <3>1. ConnectInternal(a, s, holds) /\ holds \in BOOLEAN
      BY <2>1 DEF HandleUrl
    <3> QED  BY <3>1, ConnectInternalRInv
  <2>2. CASE Connect(a, s)
    BY <2>2, ConnectInternalRInv DEF Connect
  <2> QED  BY <1>1, <2>1, <2>2
<1>2. ASSUME NEW a \in Attempts, RestoreSession(a)
      PROVE  RInv'
  <2> DEFINE f == NewEpoch(attempt, a)
  <2>1. /\ attempt' = [f EXCEPT ![a].step = "launched"]
        /\ inbox' = Append(inbox, Item("launch", a))
        /\ held' = [lease EXCEPT !.lost = TRUE] /\ lease # NoHeld
        /\ clientState' = "reconnecting" /\ jobs' = 0
        /\ held = NoHeld /\ clientState \in {"idle", "closed"}
        /\ UNCHANGED <<resumeInFlight, backgrounded, lease, transport, options>>
    BY <1>2 DEF RestoreSession, MayRestore, managerVars
  <2>2. f \in AttemptMaps /\ NamedIn(f)
    BY NewEpochFresh, PInvTyped DEF SessionsNamed
  <2>3. f[a].fresh = TRUE /\ \A x \in Attempts \ {a} : f[x].fresh = FALSE
    BY NewEpochFresh, PInvTyped
  <2> HIDE DEF f
  <2>4. /\ attempt'[a].step = "launched" /\ attempt'[a].fresh = TRUE
        /\ attempt'[a].reply = f[a].reply
        /\ \A x \in Attempts \ {a} : attempt'[x] = f[x]
    BY <2>1, <2>2, <2>3 DEF AttemptMaps, AttemptRecords
  <2>5. held' # NoHeld /\ held'.session = lease.session /\ lease.session \in Sessions
    BY <2>1, PInvTyped DEF SessionsNamed, Named, ManagerTyped, Records, NoHeld
  <2>6. ~resumeInFlight
    BY <2>1 DEF UnderWay, InFlightIsFresh, FreshOfHeld, Resuming
  <2>7. SessionsNamed'
    <3>1. NamedIn(attempt')
      BY <2>2, <2>4 DEF NamedIn
    <3>2. inbox' \in Seq(GenuineItems)
      BY <2>1, GenuineItem, GenuineAppend DEF SessionsNamed
    <3> QED  BY <2>1, <2>5, <3>1, <3>2 DEF SessionsNamed, Named
  <2>8. UnderWay'
    BY <2>1, <2>3, <2>4, <2>5, <2>6
    DEF UnderWay, ClosingUnlessHeld, ReconnectUnderWay, InFlightIsFresh, FreshOfHeld
  <2> QED  BY <2>7, <2>8
<1>3. ASSUME NEW a \in Attempts, EnterForegroundResuming(a)
      PROVE  RInv'
  <2>1. /\ attempt[a].step = "free" /\ AttemptResume(a, inbox, JobsUnreferred, FALSE)
        /\ held # NoHeld /\ ~resumeInFlight
        /\ inbox \in Seq(GenuineItems)
    BY <1>3 DEF EnterForegroundResuming, ResumesInForeground, SessionsNamed
  <2> QED  BY <2>1, AttemptResumeRInv
<1>4. CASE Disconnect
  <2> DEFINE f == NewEpoch(attempt, NoAttempt)
  <2>0. Plain("failed") \in Answers /\ Genuine(Plain("failed"))
    BY PlainTyped, GenuinePlain
  <2>1. f \in AttemptMaps /\ NamedIn(f)
    BY NewEpochFresh, PInvTyped DEF SessionsNamed
  <2>2. \A x \in Attempts : f[x].fresh = FALSE
    <3> TAKE x \in Attempts
    <3>1. x # NoAttempt /\ attempt \in AttemptMaps
      BY PInvTyped, AppAssumption
    <3> QED  BY <3>1, NewEpochFresh
  <2> HIDE DEF f
  <2>3. attempt' = Settle(f, Plain("failed"))
    BY <1>4 DEF Disconnect, f
  <2>4. NamedIn(attempt') /\ \A x \in Attempts : attempt'[x].fresh = FALSE
    BY <2>0, <2>1, <2>2, <2>3, SettleFresh, PInvTyped
  <2>5. /\ held' = NoHeld /\ lease' = NoHeld /\ jobs' = 0 /\ resumeInFlight' = FALSE
        /\ clientState' = "closed"
        /\ inbox' = inbox \o Woken
        /\ UNCHANGED <<transport, options>>
    BY <1>4 DEF Disconnect, NoTimers, managerVars
  <2>6. SessionsNamed'
    BY <2>4, <2>5, GenuineWoken, GenuineConcat, PInvTyped DEF SessionsNamed, Named
  <2>7. UnderWay'
    BY <2>4, <2>5 DEF UnderWay, ClosingUnlessHeld, ReconnectUnderWay, InFlightIsFresh, FreshOfHeld
  <2> QED  BY <2>6, <2>7
<1>5. CASE RestoreExpired
  <2>1. /\ lease' = NoHeld
        /\ UNCHANGED <<clientVars, attempt, inbox, transport, options>>
    BY <1>5 DEF RestoreExpired, attemptVars, managerVars
  <2>2. SessionsNamed'
    BY <2>1 DEF SessionsNamed, Named, clientVars, timerVars, NamedIn
  <2>3. UnderWay'
    BY <2>1, KeptUnderWay DEF SameCourse
  <2> QED  BY <2>2, <2>3
<1>6. CASE EnterBackground
  <2>1. /\ backgrounded' = TRUE /\ jobs' = JobsUnreferred
        /\ UNCHANGED <<clientState, held, resumeInFlight, attempt, inbox, transport, options, lease>>
    BY <1>6 DEF EnterBackground, ClearReconnectJob, attemptVars, managerVars
  <2>2. jobs' > 0 => jobs > 0
    BY <2>1, PInvTyped DEF JobsUnreferred, ClientTyped
  <2>3. SessionsNamed'
    BY <2>1 DEF SessionsNamed, Named, NamedIn
  <2>4. UnderWay'
    BY <2>1, <2>2 DEF UnderWay, ClosingUnlessHeld, ReconnectUnderWay, InFlightIsFresh, FreshOfHeld,
                      Closing, Resuming
  <2> QED  BY <2>3, <2>4
<1>7. CASE EnterForeground
  <2>1. UNCHANGED <<clientState, held, resumeInFlight, attempt, inbox, transport, options, lease,
                    jobs>>
    BY <1>7 DEF EnterForeground, timerVars, attemptVars, managerVars
  <2>2. SessionsNamed'
    BY <2>1 DEF SessionsNamed, Named, NamedIn
  <2>3. held = NoHeld \/ clientState # "reconnecting" \/ resumeInFlight
    BY <1>7 DEF EnterForeground, ResumesInForeground
  <2>4. clientState = "reconnecting" => \E a \in Attempts : attempt[a].fresh /\ attempt[a].step # "free"
    BY <2>3 DEF UnderWay, ClosingUnlessHeld, InFlightIsFresh, Closing, Resuming
  <2>5. UnderWay'
    BY <2>1, <2>4 DEF UnderWay, ClosingUnlessHeld, ReconnectUnderWay, InFlightIsFresh, FreshOfHeld,
                      Closing, Resuming
  <2> QED  BY <2>2, <2>5
<1>8. CASE Reload
  <2>1. /\ attempt' = [a \in Attempts |-> Free] /\ inbox' = <<>>
        /\ held' = NoHeld /\ jobs' = 0 /\ resumeInFlight' = FALSE /\ clientState' = "idle"
        /\ transport' = "idle" /\ lease' = CurrentLeaseLost(options)
    BY <1>8 DEF Reload, NoTimers, CleanUp
  <2>2. Named(lease')
    BY <2>1, PInvTyped DEF CurrentLeaseLost, SessionsNamed, Named, ManagerTyped, Records
  <2>3. \A a \in Attempts : attempt'[a] = Free
    BY <2>1
  <2>4. <<>> \in Seq(GenuineItems)
    OBVIOUS
  <2>5. SessionsNamed'
    BY <2>1, <2>2, <2>3, <2>4, GenuinePlain DEF SessionsNamed, Named, NamedIn, Free
  <2>6. UnderWay'
    BY <2>1, <2>3 DEF UnderWay, ClosingUnlessHeld, ReconnectUnderWay, InFlightIsFresh, FreshOfHeld,
                      Free
  <2> QED  BY <2>5, <2>6
<1> QED  BY <1>1, <1>2, <1>3, <1>4, <1>5, <1>6, <1>7, <1>8 DEF Callers

LEMMA TimersRInv == PInv /\ RInv /\ Timers => RInv'
<1> SUFFICES ASSUME PInv, RInv, Timers PROVE RInv'
  OBVIOUS
<1> USE DEF RInv
<1>1. CASE GraceElapses
  <2>1. /\ held.lost /\ held' = [held EXCEPT !.over = TRUE]
        /\ UNCHANGED <<clientState, jobs, resumeInFlight, backgrounded, attempt, inbox, transport,
                       options, lease>>
    BY <1>1 DEF GraceElapses, timerVars, attemptVars, managerVars
  <2>2. held # NoHeld /\ held' # NoHeld /\ held'.session = held.session
    BY <2>1, PInvTyped DEF ClientTyped, Records, NoHeld
  <2>3. SessionsNamed'
    BY <2>1, <2>2 DEF SessionsNamed, Named, NamedIn
  <2>4. UnderWay'
    BY <2>1, <2>2 DEF UnderWay, ClosingUnlessHeld, ReconnectUnderWay, InFlightIsFresh, FreshOfHeld,
                      Resuming
  <2> QED  BY <2>3, <2>4
<1>2. CASE GraceJobFires
  <2>1. attempt \in AttemptMaps /\ NamedIn(attempt) /\ inbox \in Seq(GenuineItems)
    BY PInvTyped DEF SessionsNamed
  <2> QED  BY <1>2, <2>1, FinalizeRInv DEF GraceJobFires
<1>3. CASE ReconnectJobInVain
  <2>1. /\ resumeInFlight /\ jobs > 0 /\ jobs' = jobs - 1
        /\ UNCHANGED <<clientState, held, resumeInFlight, backgrounded, attempt, inbox, transport,
                       options, lease>>
    BY <1>3 DEF ReconnectJobInVain, attemptVars, managerVars
  <2>2. SessionsNamed'
    BY <2>1 DEF SessionsNamed, Named, NamedIn
  <2>3. \E a \in Attempts : attempt[a].fresh /\ attempt[a].step # "free"
    BY <2>1 DEF UnderWay, InFlightIsFresh, Resuming
  <2>4. UnderWay'
    BY <2>1, <2>3 DEF UnderWay, ClosingUnlessHeld, ReconnectUnderWay, InFlightIsFresh, FreshOfHeld,
                      Closing, Resuming
  <2> QED  BY <2>2, <2>4
<1>4. ASSUME NEW a \in Attempts, ReconnectJobFires(a)
      PROVE  RInv'
  <2>1. /\ attempt[a].step = "free" /\ AttemptResume(a, inbox, jobs - 1, FALSE)
        /\ ~resumeInFlight /\ jobs > 0
        /\ inbox \in Seq(GenuineItems)
    BY <1>4 DEF ReconnectJobFires, SessionsNamed
  <2>2. held # NoHeld
    BY <2>1 DEF UnderWay, FreshOfHeld
  <2> QED  BY <2>1, <2>2, AttemptResumeRInv
<1> QED  BY <1>1, <1>2, <1>3, <1>4 DEF Timers

\* What the dispatcher's item says of the coroutine that it is for.
LEMMA DueStep ==
    ASSUME PInv, NEW what, Due(what), what # "event"
    PROVE  /\ At \in Attempts
           /\ what = "launch" => attempt[At].step = "launched"
           /\ what = "closed" => attempt[At].step = "closing"
           /\ what \in {"connected", "failed"} => attempt[At].step = "connecting"
           /\ what \in {"wake", "continue"} => attempt[At].step = "waiting"
  BY DueConsistent DEF Fits

LEMMA DueRest ==
    ASSUME RInv, NEW what, Due(what)
    PROVE  Tail(inbox) \in Seq(GenuineItems) /\ Genuine(Head(inbox).body)
  BY GenuineTail DEF Due, RInv

\* connectTransport has returned or thrown.
LEMMA AwaitRInv ==
    ASSUME PInv, RInv, NEW a \in Attempts, attempt[a].step = "connecting",
           NEW f \in AttemptMaps, NamedIn(f),
           \A x \in Attempts : /\ f[x].fresh = attempt[x].fresh /\ f[x].step = attempt[x].step
                               /\ f[x].kind = attempt[x].kind,
           NEW q \in Seq(GenuineItems), Await(a, f, q)
    PROVE  RInv'
<1>1. /\ attempt' = [f EXCEPT ![a].step = "waiting"]
      /\ UNCHANGED <<clientVars, transport, options, lease>>
  BY DEF Await, managerVars
<1>2. /\ attempt'[a].step = "waiting" /\ attempt'[a].fresh = f[a].fresh
      /\ attempt'[a].kind = f[a].kind /\ attempt'[a].goal = f[a].goal
      /\ attempt'[a].reply = f[a].reply
      /\ \A x \in Attempts \ {a} : attempt'[x] = f[x]
  BY <1>1 DEF AttemptMaps, AttemptRecords
<1>3. inbox' \in Seq(GenuineItems)
  <2>1. <<Item("continue", a)>> \in Seq(GenuineItems)
    BY GenuineItem
  <2>2. inbox' \in {q, <<Item("continue", a)>> \o q}
    BY DEF Await
  <2> QED  BY <2>1, <2>2, GenuineConcat
<1>4. NamedIn(attempt')
  BY <1>2 DEF NamedIn
<1>5. SessionsNamed'
  BY <1>1, <1>3, <1>4 DEF RInv, SessionsNamed, Named, clientVars
<1>6. \A x \in Attempts : SameCourse(attempt[x], attempt'[x])
  BY <1>2 DEF SameCourse
<1>7. UnderWay'
  BY <1>1, <1>6, KeptUnderWay DEF RInv
<1> QED  BY <1>5, <1>7 DEF RInv

\* A coroutine ends: what the others are stays.
LEMMA EndedRecords ==
    ASSUME PInv, RInv, At \in Attempts
    PROVE  /\ Ended \in AttemptMaps /\ NamedIn(Ended)
           /\ Ended[At] = Free /\ \A x \in Attempts \ {At} : Ended[x] = attempt[x]
<1>1. Ended \in AttemptMaps /\ Ended[At] = Free /\ \A x \in Attempts \ {At} : Ended[x] = attempt[x]
  BY PInvTyped, FreeTyped DEF Ended, AttemptMaps
<1>2. Genuine(Free.reply) /\ Free.step = "free"
  BY GenuinePlain DEF Free
<1> QED  BY <1>1, <1>2 DEF RInv, SessionsNamed, NamedIn

LEMMA HandshakeStepsRInv ==
    PInv /\ RInv /\ (Launched \/ LaunchedInVain \/ TransportClosed \/ Connected \/ ConnectFailed)
        => RInv'
<1> SUFFICES ASSUME PInv, RInv,
                    Launched \/ LaunchedInVain \/ TransportClosed \/ Connected \/ ConnectFailed
             PROVE  RInv'
  OBVIOUS
<1> USE DEF RInv
<1>0. attempt \in AttemptMaps /\ NamedIn(attempt)
  BY PInvTyped DEF SessionsNamed
<1>1. CASE Launched
  <2>1. /\ At \in Attempts /\ attempt[At].step = "launched"
        /\ Tail(inbox) \in Seq(GenuineItems)
    BY <1>1, DueStep, DueRest DEF Launched
  <2>2. AttemptResume(At, Tail(inbox), jobs, reconnectJob) /\ held # NoHeld /\ ~resumeInFlight
    BY <1>1 DEF Launched
  <2> QED  BY <2>1, <2>2, AttemptResumeRInv
<1>2. CASE LaunchedInVain
  <2>1. /\ At \in Attempts /\ attempt[At].step = "launched"
        /\ Tail(inbox) \in Seq(GenuineItems)
    BY <1>2, DueStep, DueRest DEF LaunchedInVain
  <2>2. /\ attempt' = Ended /\ inbox' = Tail(inbox)
        /\ UNCHANGED <<clientVars, transport, options, lease>>
    BY <1>2 DEF LaunchedInVain, Ended, managerVars
  <2>3. NamedIn(attempt') /\ \A x \in Attempts \ {At} : attempt'[x] = attempt[x]
    BY <2>1, <2>2, EndedRecords
  <2>4. attempt'[At].fresh = FALSE
    BY <2>1, <2>2, EndedRecords DEF Free
  <2>5. SessionsNamed'
    BY <2>1, <2>2, <2>3 DEF SessionsNamed, Named, clientVars
  <2>6. \A x \in Attempts : Closing(attempt[x]) \/ Resuming(attempt[x]) => attempt'[x] = attempt[x]
    BY <2>1, <2>3 DEF Closing, Resuming
  <2>7. ClosingUnlessHeld' /\ InFlightIsFresh' /\ FreshOfHeld'
    BY <2>2, <2>3, <2>4, <2>6
    DEF UnderWay, ClosingUnlessHeld, InFlightIsFresh, FreshOfHeld, clientVars, timerVars
  <2>8. ReconnectUnderWay'
    <3>1. CASE ~attempt[At].fresh
      BY <2>2, <2>3, <3>1 DEF UnderWay, ReconnectUnderWay, clientVars, timerVars
    <3>2. CASE resumeInFlight
      <4>1. PICK x \in Attempts : Resuming(attempt[x])
        BY <3>2 DEF UnderWay, InFlightIsFresh
      <4> QED  BY <2>6, <4>1 DEF Resuming, ReconnectUnderWay
    <3>3. CASE held = NoHeld
      BY <3>1, <3>3, <2>1 DEF UnderWay, FreshOfHeld
    <3> QED  BY <1>2, <3>1, <3>2, <3>3 DEF LaunchedInVain
  <2> QED  BY <2>5, <2>7, <2>8 DEF UnderWay
<1>3. CASE TransportClosed
  <2>1. /\ At \in Attempts /\ attempt[At].step = "closing"
        /\ Tail(inbox) \in Seq(GenuineItems)
    BY <1>3, DueStep, DueRest DEF TransportClosed
  <2>2. /\ clientState' = "connecting" /\ PerformHandshake(At, attempt) /\ inbox' = Tail(inbox)
        /\ UNCHANGED <<held, jobs, resumeInFlight, transport, options, lease>>
    BY <1>3 DEF TransportClosed, timerVars, managerVars
  <2>3. /\ attempt'[At].step = "connecting" /\ attempt'[At].fresh = attempt[At].fresh
        /\ attempt'[At].kind = attempt[At].kind /\ attempt'[At].goal = attempt[At].goal
        /\ attempt'[At].reply = attempt[At].reply
        /\ \A x \in Attempts \ {At} : attempt'[x] = attempt[x]
    BY <1>0, <2>1, <2>2, HandshakeRecord
  <2>4. NamedIn(attempt')
    BY <1>0, <2>1, <2>3 DEF NamedIn
  <2>5. SessionsNamed'
    BY <2>1, <2>2, <2>4 DEF SessionsNamed, Named
  <2>6. UnderWay'
    BY <2>1, <2>2, <2>3 DEF UnderWay, ClosingUnlessHeld, ReconnectUnderWay, InFlightIsFresh,
                            FreshOfHeld, Resuming
  <2> QED  BY <2>5, <2>6
<1>4. CASE Connected
  <2>1. /\ At \in Attempts /\ attempt[At].step = "connecting"
        /\ Tail(inbox) \in Seq(GenuineItems) /\ Await(At, attempt, Tail(inbox))
    BY <1>4, DueStep, DueRest DEF Connected
  <2> QED  BY <1>0, <2>1, AwaitRInv
<1>5. CASE ConnectFailed
  <2> DEFINE f == Settle(attempt, Plain("failed"))
  <2>1. /\ At \in Attempts /\ attempt[At].step = "connecting"
        /\ Tail(inbox) \in Seq(GenuineItems) /\ Await(At, f, Tail(inbox) \o Woken)
    BY <1>5, DueStep, DueRest DEF ConnectFailed
  <2>2. Tail(inbox) \o Woken \in Seq(GenuineItems)
    BY <2>1, GenuineWoken, GenuineConcat, PInvTyped
  <2>3. Plain("failed") \in Answers /\ Genuine(Plain("failed"))
    BY PlainTyped, GenuinePlain
  <2>4. /\ f \in AttemptMaps /\ NamedIn(f)
        /\ \A x \in Attempts : /\ f[x].fresh = attempt[x].fresh /\ f[x].step = attempt[x].step
                               /\ f[x].kind = attempt[x].kind
    BY <1>0, <2>3, SettleFresh, PInvTyped
  <2> HIDE DEF f
  <2> QED  BY <2>1, <2>2, <2>4, AwaitRInv
<1> QED  BY <1>1, <1>2, <1>3, <1>4, <1>5

\* An answered coroutine that is fresh and a resume holds the session it resumes.
LEMMA EndStepsRInv ==
    PInv /\ RInv /\ (\/ ClaimSuperseded \/ ClaimAcked \/ ClaimFails
                     \/ ResumeSuperseded \/ ResumeAcked \/ ResumeRejected \/ ResumeFails)
        => RInv'
<1> SUFFICES ASSUME PInv, RInv,
                    \/ ClaimSuperseded \/ ClaimAcked \/ ClaimFails
                    \/ ResumeSuperseded \/ ResumeAcked \/ ResumeRejected \/ ResumeFails
             PROVE  RInv'
  OBVIOUS
<1> USE DEF RInv
<1>1. Due("wake") \/ Due("continue")
  BY DEF ClaimSuperseded, ClaimAcked, ClaimFails, ResumeSuperseded, ResumeAcked, ResumeRejected,
         ResumeFails, Resumes
<1>2. At \in Attempts /\ attempt[At].step = "waiting"
  BY <1>1, DueStep
<1>3. Tail(inbox) \in Seq(GenuineItems)
  BY <1>1, DueRest
<1>4. /\ Ended \in AttemptMaps /\ NamedIn(Ended)
      /\ Ended[At].fresh = FALSE /\ \A x \in Attempts \ {At} : Ended[x] = attempt[x]
  BY <1>2, EndedRecords DEF Free
<1>5. CASE ResumeRejected
  BY <1>3, <1>4, <1>5, FinalizeRInv DEF ResumeRejected
<1>6. ASSUME ~ResumeRejected
      PROVE  /\ attempt' = Ended /\ inbox' = Tail(inbox)
             /\ UNCHANGED <<backgrounded, transport, options, lease>>
  BY <1>6 DEF ClaimSuperseded, ClaimAcked, ClaimFails, ResumeSuperseded, ResumeAcked, ResumeFails,
              EndsWithoutSideEffects, managerVars
<1>7. CASE ClaimSuperseded \/ ResumeSuperseded
  <2>1. ~ResumeRejected /\ ~attempt[At].fresh
    BY <1>7 DEF ClaimSuperseded, ResumeSuperseded, ResumeRejected
  <2>2. /\ UNCHANGED <<clientState, held, jobs>> /\ resumeInFlight' \in {resumeInFlight, FALSE}
    BY <1>7 DEF ClaimSuperseded, ResumeSuperseded, timerVars
  <2>3. SessionsNamed'
    BY <1>3, <1>4, <1>6, <2>1, <2>2 DEF SessionsNamed, Named
  <2>4. \A x \in Attempts : attempt[x].fresh => attempt'[x] = attempt[x]
    BY <1>4, <1>6, <2>1
  <2>5. \A x \in Attempts : attempt'[x].fresh => attempt'[x] = attempt[x]
    BY <1>4, <1>6, <2>1
  <2>6. ClosingUnlessHeld'
    BY <2>2, <2>4 DEF UnderWay, ClosingUnlessHeld, Closing
  <2>7. ReconnectUnderWay'
    BY <1>6, <2>1, <2>2, <2>4 DEF UnderWay, ReconnectUnderWay
  <2>8. InFlightIsFresh'
    BY <2>2, <2>4 DEF UnderWay, InFlightIsFresh, Resuming
  <2>9. FreshOfHeld'
    BY <2>2, <2>5 DEF UnderWay, FreshOfHeld
  <2> QED  BY <2>3, <2>6, <2>7, <2>8, <2>9 DEF UnderWay
<1>8. CASE ClaimAcked \/ ResumeAcked
  <2>1. ~ResumeRejected /\ AckReceived(Reply) /\ Reply.type = "ack"
    BY <1>8 DEF ClaimAcked, ResumeAcked, ResumeRejected
  <2>2. Reply.session \in Sessions
    BY <1>2, <2>1 DEF SessionsNamed, NamedIn, Genuine, Reply
  <2>3. held' = NewHeld(Reply.session) /\ resumeInFlight' = FALSE /\ clientState' = "active"
    BY <2>1 DEF AckReceived
  <2>4. held'.session \in Sessions /\ held' # NoHeld
    BY <2>2, <2>3, AppAssumption DEF NewHeld, NoHeld
  <2>5. SessionsNamed'
    BY <1>3, <1>4, <1>6, <2>1, <2>4 DEF SessionsNamed, Named
  <2>6. UnderWay'
    BY <2>3, <2>4 DEF UnderWay, ClosingUnlessHeld, ReconnectUnderWay, InFlightIsFresh, FreshOfHeld
  <2> QED  BY <2>5, <2>6
<1>9. CASE ClaimFails
  <2>1. /\ ~ResumeRejected /\ attempt[At].kind = "claim"
        /\ clientState' = "closed" /\ UNCHANGED <<held, jobs, resumeInFlight>>
    BY <1>9 DEF ClaimFails, ResumeRejected, Resumes, timerVars
  <2>2. SessionsNamed'
    BY <1>3, <1>4, <1>6, <2>1 DEF SessionsNamed, Named
  <2>3. \A x \in Attempts : Resuming(attempt[x]) => attempt'[x] = attempt[x]
    BY <1>4, <1>6, <2>1 DEF Resuming
  <2>4. \A x \in Attempts : attempt'[x].fresh => attempt'[x] = attempt[x]
    BY <1>4, <1>6, <2>1
  <2>5. UnderWay'
    BY <2>1, <2>3, <2>4 DEF UnderWay, ClosingUnlessHeld, ReconnectUnderWay, InFlightIsFresh,
                            FreshOfHeld
  <2> QED  BY <2>2, <2>5
<1>10. CASE ResumeFails
  <2>1. /\ ~ResumeRejected /\ attempt[At].kind = "resume" /\ attempt[At].fresh
        /\ ScheduleReconnect /\ resumeInFlight' = FALSE /\ UNCHANGED held
    BY <1>10 DEF ResumeFails, ResumeRejected, Resumes
  <2>2. held # NoHeld
    BY <1>2, <2>1 DEF UnderWay, FreshOfHeld
  <2>3. SessionsNamed'
    BY <1>3, <1>4, <1>6, <2>1 DEF SessionsNamed, Named
  <2>4. jobs \in Nat
    BY PInvTyped DEF ClientTyped
  <2>5. ~backgrounded => jobs' > 0
    BY <2>1, <2>4 DEF ScheduleReconnect
  <2>6. backgrounded' = backgrounded
    BY <1>6, <2>1
  <2>7. UnderWay'
    BY <2>1, <2>2, <2>5, <2>6 DEF UnderWay, ClosingUnlessHeld, ReconnectUnderWay, InFlightIsFresh,
                                  FreshOfHeld
  <2> QED  BY <2>3, <2>7
<1> QED  BY <1>5, <1>7, <1>8, <1>9, <1>10

LEMMA EventStepsRInv ==
    PInv /\ RInv /\ (\/ EventSettles \/ AckDropped
                     \/ SocketLostWithoutSession \/ SocketLostForGood \/ SocketLost)
        => RInv'
<1> SUFFICES ASSUME PInv, RInv,
                    \/ EventSettles \/ AckDropped
                    \/ SocketLostWithoutSession \/ SocketLostForGood \/ SocketLost
             PROVE  RInv'
  OBVIOUS
<1> USE DEF RInv
<1>0. attempt \in AttemptMaps /\ NamedIn(attempt)
  BY PInvTyped DEF SessionsNamed
<1>1. Due("event")
  BY DEF EventSettles, AckDropped, SocketLostWithoutSession, SocketLostForGood, SocketLost, LossSeen
<1>2. /\ Tail(inbox) \in Seq(GenuineItems) /\ Genuine(Head(inbox).body)
      /\ Head(inbox).body \in Answers
  BY <1>1, DueRest, DueConsistent
<1>3. CASE EventSettles
  <2>1. /\ attempt' = Settle(attempt, Head(inbox).body) /\ inbox' = Tail(inbox) \o Woken
        /\ UNCHANGED <<clientVars, transport, options, lease>>
    BY <1>3 DEF EventSettles, managerVars
  <2>2. /\ NamedIn(attempt')
        /\ \A x \in Attempts : /\ attempt'[x].fresh = attempt[x].fresh
                               /\ attempt'[x].step = attempt[x].step
                               /\ attempt'[x].kind = attempt[x].kind
    BY <1>0, <1>2, <2>1, SettleFresh, PInvTyped
  <2>3. inbox' \in Seq(GenuineItems)
    BY <1>2, <2>1, GenuineWoken, GenuineConcat, PInvTyped
  <2>4. SessionsNamed'
    BY <2>1, <2>2, <2>3 DEF SessionsNamed, Named, clientVars
  <2>5. UnderWay'
    BY <2>1, <2>2, KeptUnderWay DEF SameCourse
  <2> QED  BY <2>4, <2>5
<1>4. CASE AckDropped
  <2>1. /\ inbox' = Tail(inbox) /\ UNCHANGED <<clientVars, attempt, transport, options, lease>>
    BY <1>4 DEF AckDropped, attemptVars, managerVars
  <2>2. SessionsNamed'
    BY <1>2, <2>1 DEF SessionsNamed, Named, clientVars, NamedIn
  <2>3. UnderWay'
    BY <2>1, KeptUnderWay DEF SameCourse
  <2> QED  BY <2>2, <2>3
<1>5. CASE SocketLostWithoutSession
  <2>1. /\ inbox' = Tail(inbox) /\ clientState' = "closed"
        /\ UNCHANGED <<held, jobs, resumeInFlight, attempt, transport, options, lease>>
    BY <1>5 DEF SocketLostWithoutSession, attemptVars, managerVars, timerVars
  <2>2. SessionsNamed'
    BY <1>2, <2>1 DEF SessionsNamed, Named, NamedIn
  <2>3. UnderWay'
    BY <2>1 DEF UnderWay, ClosingUnlessHeld, ReconnectUnderWay, InFlightIsFresh, FreshOfHeld,
                Resuming
  <2> QED  BY <2>2, <2>3
<1>6. CASE SocketLostForGood
  BY <1>0, <1>2, <1>6, FinalizeRInv DEF SocketLostForGood
<1>7. CASE SocketLost
  <2>1. /\ held # NoHeld /\ held' = [held EXCEPT !.lost = TRUE] /\ ScheduleReconnect
        /\ inbox' = Tail(inbox)
        /\ UNCHANGED <<resumeInFlight, backgrounded, attempt, transport, options, lease>>
    BY <1>7 DEF SocketLost, attemptVars, managerVars
  <2>2. held' # NoHeld /\ held'.session = held.session
    BY <2>1, PInvTyped DEF ClientTyped, Records, NoHeld
  <2>3. SessionsNamed'
    BY <1>2, <2>1, <2>2 DEF SessionsNamed, Named, NamedIn
  <2>4. jobs \in Nat
    BY PInvTyped DEF ClientTyped
  <2>5. ~backgrounded => jobs' > 0
    BY <2>1, <2>4 DEF ScheduleReconnect
  <2>6. UnderWay'
    BY <2>1, <2>2, <2>5 DEF UnderWay, ClosingUnlessHeld, ReconnectUnderWay, InFlightIsFresh,
                            FreshOfHeld, Resuming
  <2> QED  BY <2>3, <2>6
<1> QED  BY <1>3, <1>4, <1>5, <1>6, <1>7

\* Neither the executor nor the peer does anything to the client but queue for it.
LEMMA ManagerStepsUnderWay ==
    ASSUME RInv, UNCHANGED <<clientVars, attemptVars>>, Named(lease'),
           transport' = "connecting" => options' \in Sessions,
           inbox' \in Seq(GenuineItems)
    PROVE  RInv'
<1>1. UnderWay'
  BY KeptUnderWay DEF RInv, attemptVars, SameCourse
<1> QED  BY <1>1 DEF RInv, SessionsNamed, Named, NamedIn, attemptVars, clientVars

LEMMA CallerOfConnect ==
    ASSUME PInv, RInv, Queued("connect")
    PROVE  Caller \in Attempts /\ attempt[Caller].goal \in Sessions
<1>1. /\ Caller \in Attempts /\ outbox # <<>> /\ outbox \in Queues
      /\ Head(outbox).type = "connect"
  BY OutboxHead, PInvTyped DEF Queued, Caller, OutboxItems
<1>2. 1 \in 1..Len(outbox) /\ outbox[1] = Head(outbox)
  BY <1>1 DEF Queues
<1>3. Fits(Head(outbox), attempt[Caller])
  BY <1>1, <1>2, PInvTyped DEF Consistent, Agrees, Caller
<1>4. attempt[Caller].step = "connecting"
  BY <1>1, <1>3 DEF Fits
<1> QED  BY <1>1, <1>4 DEF RInv, SessionsNamed, NamedIn

LEMMA ExecutorRInv == PInv /\ RInv /\ Executor => RInv'
<1> SUFFICES ASSUME PInv, RInv, Executor PROVE RInv'
  OBVIOUS
<1>1. Executor => UNCHANGED <<clientVars, attemptVars>>
  BY DEF Executor, PerformConnectRefused, PerformConnectInvalid, PerformConnect,
         PerformConnectThrows, PerformCloseWithoutSocket, PerformClose
<1>2. Caller \in SomeAttempt /\ inbox \in Seq(GenuineItems) /\ connectCall \in SomeAttempt
  <2>1. outbox # <<>>
    BY DEF Executor, PerformConnectRefused, PerformConnectInvalid, PerformConnect, Dialable,
           PerformConnectThrows, PerformCloseWithoutSocket, PerformClose, Queued
  <2>2. Caller \in SomeAttempt
    BY <2>1, OutboxHead, PInvTyped DEF Caller, OutboxItems, SomeAttempt
  <2> QED  BY <2>2, PInvTyped DEF RInv, SessionsNamed
<1>3. /\ Complete(Caller, "failed") \in Seq(GenuineItems)
      /\ Complete(Caller, "closed") \in Seq(GenuineItems)
      /\ Complete(connectCall, "failed") \in Seq(GenuineItems)
  BY <1>2, GenuineComplete
<1>4. inbox' \in Seq(GenuineItems)
  <2>1. CASE PerformConnectRefused \/ PerformConnectInvalid \/ PerformConnectThrows
    <3>1. inbox' = inbox \o Complete(Caller, "failed")
      BY <2>1 DEF PerformConnectRefused, PerformConnectInvalid, PerformConnectThrows
    <3> QED  BY <1>2, <1>3, <3>1, GenuineConcat
  <2>2. CASE PerformConnect
    BY <1>2, <2>2 DEF PerformConnect
  <2>3. CASE PerformCloseWithoutSocket
    <3>1. inbox' = inbox \o <<Event(Plain("other"))>> \o Complete(Caller, "closed")
      BY <2>3 DEF PerformCloseWithoutSocket
    <3>2. Event(Plain("other")) \in GenuineItems
      BY PlainTyped, GenuinePlain, GenuineEvent DEF CloseCodes
    <3>3. inbox \o <<Event(Plain("other"))>> \in Seq(GenuineItems)
      BY <1>2, <3>2, GenuineConcat
    <3> QED  BY <1>3, <3>1, <3>3, GenuineConcat
  <2>4. CASE PerformClose
    <3>1. inbox' = inbox \o Complete(connectCall, "failed") \o Complete(Caller, "closed")
      BY <2>4 DEF PerformClose
    <3> QED  BY <1>2, <1>3, <3>1, GenuineConcat
  <2> QED  BY <2>1, <2>2, <2>3, <2>4 DEF Executor
<1>5. Named(lease')
  <2>1. Named(lease) /\ lease \in Records
    BY PInvTyped DEF RInv, SessionsNamed, ManagerTyped
  <2>2. \/ lease' \in {lease, NoHeld}
        \/ lease # NoHeld /\ lease' = [lease EXCEPT !.lost = TRUE]
    BY DEF Executor, PerformConnectRefused, PerformConnectInvalid, PerformConnect,
           PerformConnectThrows, PerformCloseWithoutSocket, PerformClose
  <2> QED  BY <2>1, <2>2 DEF Named, Records
<1>6. transport' = "connecting" => options' \in Sessions
  <2>1. CASE PerformConnect
    <3>1. Queued("connect") /\ options' = attempt[Caller].goal
      BY <2>1 DEF PerformConnect, Dialable
    <3> QED  BY <3>1, CallerOfConnect
  <2>2. CASE ~PerformConnect
    <3>1. transport' = "connecting" => UNCHANGED <<transport, options>>
      BY <2>2 DEF Executor, PerformConnectRefused, PerformConnectInvalid, PerformConnectThrows,
                  PerformCloseWithoutSocket, PerformClose, managerVars
    <3> QED  BY <3>1 DEF RInv, SessionsNamed
  <2> QED  BY <2>1, <2>2
<1> QED  BY <1>1, <1>4, <1>5, <1>6, ManagerStepsUnderWay

LEMMA PeerRInv == PInv /\ RInv /\ Peer => RInv'
<1> SUFFICES ASSUME PInv, RInv, Peer PROVE RInv'
  OBVIOUS
<1>1. /\ inbox \in Seq(GenuineItems) /\ Named(lease) /\ lease \in Records
      /\ connectCall \in SomeAttempt
      /\ transport = "connecting" => options \in Sessions
  BY PInvTyped DEF RInv, SessionsNamed, ManagerTyped
<1>2. /\ Complete(connectCall, "failed") \in Seq(GenuineItems)
      /\ Complete(connectCall, "connected") \in Seq(GenuineItems)
  BY <1>1, GenuineComplete
<1>3. Named(CurrentLeaseLost(options))
  BY <1>1 DEF CurrentLeaseLost, Named, Records
<1>4. \A code \in CloseCodes : Event(Plain(code)) \in GenuineItems
  BY PlainTyped, GenuinePlain, GenuineEvent
<1>5. CASE SocketOpens
  <2>1. inbox' \in {inbox \o Complete(connectCall, "failed"),
                    inbox \o Complete(connectCall, "connected")}
    BY <1>5 DEF SocketOpens
  <2>2. inbox' \in Seq(GenuineItems)
    BY <1>1, <1>2, <2>1, GenuineConcat
  <2>3. /\ UNCHANGED <<clientVars, attemptVars>> /\ lease' = lease /\ options' = options
        /\ transport' \in {transport, "error"}
    BY <1>5 DEF SocketOpens
  <2> QED  BY <1>1, <2>2, <2>3, ManagerStepsUnderWay
<1>6. CASE AckArrives
  <2>1. /\ options \in Sessions /\ lease' = NewHeld(options) /\ transport' = "active"
        /\ inbox' = Append(inbox, Event(Ack(options)))
        /\ UNCHANGED <<clientVars, attemptVars>>
    BY <1>1, <1>6 DEF AckArrives
  <2>2. Ack(options) \in Answers /\ Genuine(Ack(options))
    BY <2>1, AckTyped, GenuinePlain DEF SomeSession
  <2>3. inbox' \in Seq(GenuineItems)
    BY <1>1, <2>1, <2>2, GenuineEvent, GenuineAppend
  <2>4. Named(lease')
    BY <2>1 DEF NewHeld, Named
  <2> QED  BY <2>1, <2>3, <2>4, ManagerStepsUnderWay
<1>7. CASE SocketBreaks
  <2>1. transport' = "error" /\ UNCHANGED <<clientVars, attemptVars, inbox, lease>>
    BY <1>7 DEF SocketBreaks
  <2> QED  BY <1>1, <2>1, ManagerStepsUnderWay
<1>8. ASSUME NEW code \in CloseCodes, SocketCloses(code)
      PROVE  RInv'
  <2>1. /\ lease' \in {NoHeld, CurrentLeaseLost(options)} /\ transport' \in {"error", "closed"}
        /\ inbox' = Append(inbox, Event(Plain(code)))
        /\ UNCHANGED <<clientVars, attemptVars>>
    BY <1>8 DEF SocketCloses
  <2>2. inbox' \in Seq(GenuineItems)
    BY <1>1, <1>4, <2>1, GenuineAppend
  <2>3. Named(lease')
    BY <1>3, <2>1 DEF Named
  <2> QED  BY <2>1, <2>2, <2>3, ManagerStepsUnderWay
<1>9. CASE SocketFails
  <2>1. /\ lease' = CurrentLeaseLost(options) /\ transport' = "error"
        /\ inbox' = inbox \o Complete(connectCall, "failed") \o <<Event(Plain("other"))>>
        /\ UNCHANGED <<clientVars, attemptVars>>
    BY <1>9 DEF SocketFails
  <2>2. <<Event(Plain("other"))>> \in Seq(GenuineItems)
    BY <1>4 DEF CloseCodes
  <2>3. inbox \o Complete(connectCall, "failed") \in Seq(GenuineItems)
    BY <1>1, <1>2, GenuineConcat
  <2>4. inbox' \in Seq(GenuineItems)
    BY <2>1, <2>2, <2>3, GenuineConcat
  <2> QED  BY <1>3, <2>1, <2>4, ManagerStepsUnderWay
<1> QED  BY <1>5, <1>6, <1>7, <1>8, <1>9 DEF Peer

LEMMA NextRInv == PInv /\ RInv /\ [Next]_vars => RInv'
<1> SUFFICES ASSUME PInv, RInv, [Next]_vars PROVE RInv'
  OBVIOUS
<1>1. CASE Next
  BY <1>1, CallersRInv, TimersRInv, HandshakeStepsRInv, EndStepsRInv, EventStepsRInv, ExecutorRInv,
     PeerRInv DEF Next, Dispatcher
<1>2. CASE UNCHANGED vars
  <2>1. UNCHANGED <<clientVars, attemptVars, lease, transport, options, inbox>>
    BY <1>2 DEF vars, managerVars
  <2> QED  BY <2>1, ManagerStepsUnderWay DEF RInv, SessionsNamed
<1> QED  BY <1>1, <1>2

\* Whatever of links, retries, timers, losses, backgrounding and reloads meets: a client
\* that says it is active or reconnecting holds a session or is closing the old socket for a
\* link that took it; in the foreground, one that is reconnecting has a retry armed or an
\* attempt under way; and a resume that makes the retries no-ops is there to end
\* (AppductClient, scheduleReconnectAttempt and attemptResume).
THEOREM SpecRecoverySound == Spec => []RecoverySound
<1>1. RInv => RecoverySound
  <2> SUFFICES ASSUME RInv PROVE RecoverySound
    OBVIOUS
  <2>1. HeldIsTold
    BY DEF RInv, UnderWay, ClosingUnlessHeld, HeldIsTold, Closing
  <2>2. ReconnectUnderWay
    BY DEF RInv, UnderWay
  <2>3. NoPhantomResume
    BY DEF RInv, UnderWay, InFlightIsFresh, NoPhantomResume, Resuming
  <2> QED  BY <2>1, <2>2, <2>3 DEF RecoverySound
<1>2. Spec => []RInv
  BY InitRInv, SpecPInv, NextRInv, PTL DEF Spec
<1> QED  BY <1>1, <1>2, PTL
===============================================================================
