--------------------------- MODULE ToolCallsProofs ---------------------------
(***************************************************************************)
(* Proofs about tool invocation, for any number of sessions, sockets,      *)
(* clients and calls.                                                      *)
(***************************************************************************)
EXTENDS ToolCalls, SequenceTheorems, TLAPS

\* The events about a call that is not finished yet.
Unfinished == {<<"started">>, <<"started", "progress">>}

\* What each stage of an attempt says about the rest of its record.
StagesAgree ==
    \A c \in Calls :
        /\ stage[c] = "unused" =>
             /\ callEvents[c] = <<>>
             /\ ~closeHook[c]
             /\ client[c] = NoClient
        /\ stage[c] # "unused" =>
             /\ target[c] \in Sessions /\ client[c] \in Clients
             /\ phase[target[c]] \in {"active", "suspended", "over"}
        /\ stage[c] \in {"pending", "settled"} =>
             callEvents[c] \in Unfinished
        /\ outcome[c] = "none" <=> stage[c] \in {"unused", "pending"}
        /\ audit[c] = "none" <=> stage[c] # "done"

\* While a client's requests are being worked off, what is settled was settled
\* by a revocation; so is what is settled against a session that is over.
SettledByRevocation ==
    \A c \in Calls : stage[c] = "settled" =>
        /\ turn \in Clients => outcome[c] = "unknown_session"
        /\ daemon = "up" /\ phase[target[c]] = "over" => outcome[c] = "unknown_session"

\* After shutdown no session is live, and after the exit nothing is under way.
NothingAfterShutdown ==
    /\ daemon # "up" => Live = {}
    /\ daemon = "stopped" => Quiet /\ \A p \in Clients : ~rpcOpen[p]

IInv ==
    /\ TypeOK
    /\ StagesAgree
    /\ PendingOnlyWhileActive
    /\ OrphansAreCancelled
    /\ HooksOfUnfinished
    /\ SettledByRevocation
    /\ NothingAfterShutdown
    /\ LeftoverHistory

\* Appending to a sequence of one or two elements writes it out.
LEMMA AppendToOne ==
    ASSUME NEW a, NEW b
    PROVE  Append(<<a>>, b) = <<a, b>>
<1> DEFINE u == Append(<<a>>, b)
           v == <<a, b>>
<1>1. <<a>> \in Seq({a, b}) /\ v \in Seq({a, b})
  OBVIOUS
<1>2. u \in Seq({a, b}) /\ Len(u) = 2 /\ u[1] = a /\ u[2] = b
  BY <1>1, AppendProperties, Len(<<a>>) = 1, <<a>>[1] = a
<1>3. Len(v) = 2 /\ v[1] = a /\ v[2] = b
  OBVIOUS
<1> HIDE DEF u, v
<1>4. u = v
  BY <1>1, <1>2, <1>3, SeqEqual
<1>5. QED
  BY <1>4 DEF u, v

\* (The same for two.)
LEMMA AppendToTwo ==
    ASSUME NEW a, NEW b, NEW c
    PROVE  Append(<<a, b>>, c) = <<a, b, c>>
<1> DEFINE u == Append(<<a, b>>, c)
           v == <<a, b, c>>
<1>1. <<a, b>> \in Seq({a, b, c}) /\ v \in Seq({a, b, c})
  OBVIOUS
<1>2. u \in Seq({a, b, c}) /\ Len(u) = 3 /\ u[1] = a /\ u[2] = b /\ u[3] = c
  BY <1>1, AppendProperties, Len(<<a, b>>) = 2, <<a, b>>[1] = a, <<a, b>>[2] = b
<1>3. Len(v) = 3 /\ v[1] = a /\ v[2] = b /\ v[3] = c
  OBVIOUS
<1> HIDE DEF u, v
<1>4. u = v
  BY <1>1, <1>2, <1>3, SeqEqual
<1>5. QED
  BY <1>4 DEF u, v

\* An event may be appended to the events about a call that is not finished yet.
LEMMA NextEvent ==
    ASSUME NEW order \in Unfinished
    PROVE  /\ Append(order, "finished") \in CallEventOrders
           /\ (IF order # <<>> /\ order[Len(order)] = "progress"
               THEN order ELSE Append(order, "progress")) \in Unfinished
<1>1. CASE order = <<"started">>
  BY <1>1, AppendToOne DEF Unfinished, CallEventOrders
<1>2. CASE order = <<"started", "progress">>
  BY <1>2, AppendToTwo DEF Unfinished, CallEventOrders
<1>3. QED
  BY <1>1, <1>2 DEF Unfinished

\* At startup nothing is called, held or retained.
LEMMA InitIInv == Init => IInv
  BY CallSentinels
  DEF Init, LifecycleInit, IInv, TypeOK, StagesAgree, PendingOnlyWhileActive,
      OrphansAreCancelled, HooksOfUnfinished, SettledByRevocation, NothingAfterShutdown,
      LeftoverHistory, Pending, Live, Quiet, Phases, Stages, Outcomes, AuditOutcomes,
      CallEventOrders, Unfinished

\* LeftoverHistory is kept by a step that adds no history of an id that is over.
LEMMA LeftoverKept ==
    ASSUME LeftoverHistory, daemon' = daemon,
           \A t \in Sessions : phase'[t] = "over" /\ retained'[t]
                                  => phase[t] = "over" /\ retained[t],
           \A c \in Calls : outcome[c] = "unknown_session"
                                  => outcome'[c] = "unknown_session" /\ target'[c] = target[c]
    PROVE  LeftoverHistory'
  BY DEF LeftoverHistory

\* The life of sessions, and what it does to their calls, keeps the invariant.
LEMMA SessionStepIInv == IInv /\ SessionStep => IInv'
<1> SUFFICES ASSUME IInv, SessionStep
             PROVE  IInv'
  OBVIOUS
<1> USE CallSentinels
    DEF IInv, TypeOK, StagesAgree, PendingOnlyWhileActive,
        OrphansAreCancelled, HooksOfUnfinished, SettledByRevocation, NothingAfterShutdown,
        LeftoverHistory, Pending, Live, Phases, Stages, callVars, lifecycleVars
<1>1. ASSUME NEW s \in Sessions, LinkCreated(s)
      PROVE  IInv'
  BY <1>1 DEF LinkCreated, Mint, Retain, Quiet
<1>2. ASSUME NEW s \in Sessions, LinkDiscarded(s)
      PROVE  IInv'
  <2> USE <1>2 DEF LinkDiscarded, End, Discard, Quiet
  <2>1. TypeOK'
    OBVIOUS
  <2>2. StagesAgree'
    OBVIOUS
  <2>3. PendingOnlyWhileActive' /\ OrphansAreCancelled' /\ HooksOfUnfinished'
    OBVIOUS
  <2>4. SettledByRevocation'
    OBVIOUS
  <2>5. NothingAfterShutdown'
    OBVIOUS
  <2>6. LeftoverHistory'
    <3>1. \A t \in Sessions : phase'[t] = "over" /\ retained'[t]
                                 => phase[t] = "over" /\ retained[t]
      OBVIOUS
    <3>2. QED
      BY <3>1, LeftoverKept
  <2>7. QED
    BY <2>1, <2>2, <2>3, <2>4, <2>5, <2>6
<1>3. ASSUME NEW s \in Sessions, SessionExpires(s)
      PROVE  IInv'
  <2> USE <1>3 DEF SessionExpires, EndWithEvent, End, Discard, RejectSession, Settle,
                    Quiet, Runs, Outcomes
  <2>1. TypeOK'
    OBVIOUS
  <2>2. StagesAgree'
    OBVIOUS
  <2>3. PendingOnlyWhileActive' /\ OrphansAreCancelled' /\ HooksOfUnfinished'
    OBVIOUS
  <2>4. SettledByRevocation'
    OBVIOUS
  <2>5. NothingAfterShutdown'
    OBVIOUS
  <2>6. LeftoverHistory'
    <3>1. \A t \in Sessions : phase'[t] = "over" /\ retained'[t]
                                 => phase[t] = "over" /\ retained[t]
      OBVIOUS
    <3>2. \A c \in Calls : outcome[c] = "unknown_session" => outcome'[c] = "unknown_session"
      OBVIOUS
    <3>3. QED
      BY <3>1, <3>2, LeftoverKept
  <2>7. QED
    BY <2>1, <2>2, <2>3, <2>4, <2>5, <2>6
<1>4. ASSUME NEW s \in Sessions, NEW k \in Sockets, SessionAdopted(s, k)
      PROVE  IInv'
  BY <1>4 DEF SessionAdopted, Adopt, Retain, Quiet
<1>5. ASSUME NEW lost \in SUBSET Sessions, KeepaliveSuspends(lost)
      PROVE  IInv'
  BY <1>5 DEF KeepaliveSuspends, Lose, Retain, RejectSession, Settle, Quiet, Runs, Outcomes
<1>6. ASSUME NEW k \in Sockets, SocketCloses(k)
      PROVE  IInv'
  BY <1>6 DEF SocketCloses, SocketGone, HeldBy, Lose, Retain, RejectSession, Settle, Quiet, Runs, Outcomes
<1>7. QED
  BY <1>1, <1>2, <1>3, <1>4, <1>5, <1>6 DEF SessionStep

\* Attempts that are refused, that start, that time out, that finish
\* (daemon.ts tools.call, calls.ts call) keep the invariant.
LEMMA CallStepIInv == IInv /\ CallStep => IInv'
<1> SUFFICES ASSUME IInv, CallStep
             PROVE  IInv'
  OBVIOUS
<1> USE CallSentinels
    DEF IInv, TypeOK, StagesAgree, PendingOnlyWhileActive,
        OrphansAreCancelled, HooksOfUnfinished, SettledByRevocation, NothingAfterShutdown,
        LeftoverHistory, Pending, Live, Phases, Stages, callVars, lifecycleVars, Quiet
<1>1. ASSUME NEW c \in Calls, NEW p \in Clients, NEW s \in Sessions, CallInactive(c, p, s)
      PROVE  IInv'
  BY <1>1
  DEF CallInactive, Resolved, Refuse, MayRun, Outcomes, AuditOutcomes
<1>2. ASSUME NEW c \in Calls, NEW p \in Clients, NEW s \in Sessions, CallUnknownTool(c, p, s)
      PROVE  IInv'
  BY <1>2
  DEF CallUnknownTool, Resolved, Refuse, MayRun, Outcomes, AuditOutcomes
<1>3. ASSUME NEW c \in Calls, NEW p \in Clients, NEW s \in Sessions, CallDenied(c, p, s)
      PROVE  IInv'
  BY <1>3
  DEF CallDenied, Resolved, Refuse, MayRun, Retain, Outcomes, AuditOutcomes, CallEventOrders
<1>4. ASSUME NEW c \in Calls, NEW p \in Clients, NEW s \in Sessions, CallStarts(c, p, s)
      PROVE  IInv'
  BY <1>4
  DEF CallStarts, Resolved, MayRun, Retain, CallEventOrders, Unfinished
<1>5. ASSUME NEW c \in Calls, CallTimesOut(c)
      PROVE  IInv'
  BY <1>5
  DEF CallTimesOut, Settle, Runs, Outcomes
<1>6. ASSUME NEW c \in Calls, Continue(c)
      PROVE  IInv'
  <2>0. Append(callEvents[c], "finished") \in CallEventOrders
    BY <1>6, NextEvent DEF Continue
  <2> USE <1>6, <2>0 DEF Continue, Retain, DropHook, AuditOutcome, AuditOutcomes
  <2>1. TypeOK'
    OBVIOUS
  <2>2. StagesAgree'
    OBVIOUS
  <2>3. PendingOnlyWhileActive' /\ OrphansAreCancelled' /\ HooksOfUnfinished'
    OBVIOUS
  <2>4. SettledByRevocation'
    OBVIOUS
  <2>5. NothingAfterShutdown'
    OBVIOUS
  <2>6. LeftoverHistory'
    OBVIOUS
  <2>7. QED
    BY <2>1, <2>2, <2>3, <2>4, <2>5, <2>6
<1>7. QED
  BY <1>1, <1>2, <1>3, <1>4, <1>5, <1>6 DEF CallStep

\* Frames of the app keep the invariant, whichever socket they come over.
LEMMA FrameStepIInv == IInv /\ FrameStep => IInv'
<1> SUFFICES ASSUME IInv, FrameStep
             PROVE  IInv'
  OBVIOUS
<1> USE CallSentinels
    DEF IInv, TypeOK, StagesAgree, PendingOnlyWhileActive,
        OrphansAreCancelled, HooksOfUnfinished, SettledByRevocation, NothingAfterShutdown,
        LeftoverHistory, Pending, Live, Phases, Stages, callVars, lifecycleVars, Quiet
<1>1. ASSUME NEW k \in Sockets, NEW c \in Calls, NEW answer \in AppAnswers, ToolAnswer(k, c, answer)
      PROVE  IInv'
  BY <1>1
  DEF ToolAnswer, FrameFor, MayRun, Settle, Runs, Outcomes, AppAnswers
<1>2. ASSUME NEW k \in Sockets, NEW c \in Calls, ToolProgress(k, c)
      PROVE  IInv'
  <2>0. callEvents'[c] \in Unfinished /\ \A d \in Calls \ {c} : callEvents'[d] = callEvents[d]
    BY <1>2, NextEvent DEF ToolProgress, AnnounceProgress
  <2> USE <1>2, <2>0 DEF ToolProgress, AnnounceProgress, FrameFor, CallEventOrders, Unfinished
  <2>1. TypeOK'
    OBVIOUS
  <2>2. StagesAgree'
    OBVIOUS
  <2>3. PendingOnlyWhileActive' /\ OrphansAreCancelled' /\ HooksOfUnfinished'
    OBVIOUS
  <2>4. SettledByRevocation'
    OBVIOUS
  <2>5. NothingAfterShutdown'
    OBVIOUS
  <2>6. LeftoverHistory'
    OBVIOUS
  <2>7. QED
    BY <2>1, <2>2, <2>3, <2>4, <2>5, <2>6
<1>3. QED
  BY <1>1, <1>2 DEF FrameStep

\* Cancellations, revocations, connections that close and the shutdown keep the
\* invariant.
LEMMA RpcStepIInv == IInv /\ RpcStep => IInv'
<1> SUFFICES ASSUME IInv, RpcStep
             PROVE  IInv'
  OBVIOUS
<1> USE CallSentinels
    DEF IInv, TypeOK, StagesAgree, PendingOnlyWhileActive,
        OrphansAreCancelled, HooksOfUnfinished, SettledByRevocation, NothingAfterShutdown,
        LeftoverHistory, Pending, Live, Phases, Stages, callVars, lifecycleVars, Quiet
<1>1. ASSUME NEW p \in Clients, NEW c \in Calls, ToolsCancel(p, c)
      PROVE  IInv'
  BY <1>1
  DEF ToolsCancel, Cancel, MayRun
<1>2. ASSUME NEW p \in Clients, NEW s \in Sessions, SessionsRevoke(p, s)
      PROVE  IInv'
  <2> USE <1>2 DEF SessionsRevoke, EndWithEvent, End, Discard, RejectSession, Settle, MayRun, Runs, Outcomes
  <2>1. TypeOK'
    OBVIOUS
  <2>2. StagesAgree'
    OBVIOUS
  <2>3. PendingOnlyWhileActive' /\ OrphansAreCancelled' /\ HooksOfUnfinished'
    OBVIOUS
  <2>4. SettledByRevocation'
    OBVIOUS
  <2>5. NothingAfterShutdown'
    OBVIOUS
  <2>6. LeftoverHistory'
    <3>1. \A t \in Sessions : phase'[t] = "over" /\ retained'[t]
                                 => phase[t] = "over" /\ retained[t]
      OBVIOUS
    <3>2. \A c \in Calls : outcome[c] = "unknown_session" => outcome'[c] = "unknown_session"
      OBVIOUS
    <3>3. QED
      BY <3>1, <3>2, LeftoverKept
  <2>7. QED
    BY <2>1, <2>2, <2>3, <2>4, <2>5, <2>6
<1>3. ASSUME NEW p \in Clients, RpcCloses(p)
      PROVE  IInv'
  <2> USE <1>3 DEF RpcCloses, Cancel, MayRun
  <2>1. TypeOK' /\ StagesAgree'
    OBVIOUS
  <2>2. PendingOnlyWhileActive' /\ OrphansAreCancelled' /\ HooksOfUnfinished'
    OBVIOUS
  <2>3. SettledByRevocation' /\ NothingAfterShutdown' /\ LeftoverHistory'
    OBVIOUS
  <2>4. QED
    BY <2>1, <2>2, <2>3
<1>4. ASSUME Shutdown
      PROVE  IInv'
  BY <1>4
  DEF Shutdown, DisposeOfCalls, RejectSession, Settle, End, Discard, Runs, Outcomes
<1>5. ASSUME ServerCloses
      PROVE  IInv'
  BY <1>5
  DEF ServerCloses, Cancel
<1>6. QED
  BY <1>1, <1>2, <1>3, <1>4, <1>5 DEF RpcStep

\* Every step keeps the invariant, a stutter included.
LEMMA NextIInv == IInv /\ [Next]_vars => IInv'
<1> SUFFICES ASSUME IInv, [Next]_vars
             PROVE  IInv'
  OBVIOUS
<1>1. CASE UNCHANGED vars
  BY <1>1
  DEF vars, callVars, lifecycleVars, IInv, TypeOK, StagesAgree, PendingOnlyWhileActive,
      OrphansAreCancelled, HooksOfUnfinished, SettledByRevocation, NothingAfterShutdown,
      LeftoverHistory, Pending, Live, Quiet
<1>2. CASE Next
  BY <1>2, SessionStepIInv, CallStepIInv, FrameStepIInv, RpcStepIInv DEF Next
<1>3. QED
  BY <1>1, <1>2

\* The inductive invariant holds in every behaviour.
THEOREM SpecIInv == Spec => []IInv
  BY InitIInv, NextIInv, PTL DEF Spec

\* The type invariant, with the order of the events about each call.
THEOREM SpecTypeOK == Spec => []TypeOK
  BY SpecIInv, PTL DEF IInv

\* No call stays in the pending map of a session that is not active
\* (calls.ts rejectSession, on the events of sessions.ts).
THEOREM SpecPendingOnlyWhileActive == Spec => []PendingOnlyWhileActive
  BY SpecIInv, PTL DEF IInv

\* When a connection closes, the app is told to cancel what it was running for
\* it (daemon.ts tools.call, context.onClose).
THEOREM SpecOrphansAreCancelled == Spec => []OrphansAreCancelled
  BY SpecIInv, PTL DEF IInv

\* No close callback outlives its call (daemon.ts unregisterOnClose).
THEOREM SpecHooksOfUnfinished == Spec => []HooksOfUnfinished
  BY SpecIInv, PTL DEF IInv

\* While the daemon runs, history is left over only by sessions that were
\* revoked, or expired, under a pending call.
THEOREM SpecLeftoverHistory == Spec => []LeftoverHistory
  BY SpecIInv, PTL DEF IInv

\* Shutdown leaves no call without an audit record (daemon.ts shutdown).
THEOREM SpecAllAuditedAtExit == Spec => []AllAuditedAtExit
<1>1. IInv => AllAuditedAtExit
  BY DEF IInv, TypeOK, Stages, StagesAgree, PendingOnlyWhileActive, NothingAfterShutdown,
         AllAuditedAtExit, Pending, Live, Quiet
<1>2. QED
  BY <1>1, SpecIInv, PTL

\* A step that settles leaves alone what is settled.
LEMMA SettleOnce ==
    ASSUME IInv, NEW cs, NEW result, Settle(cs, result), NEW c \in Calls, outcome[c] # "none"
    PROVE  outcome'[c] = outcome[c]
  BY DEF IInv, StagesAgree, Settle, Pending

\* A step that answers an unused attempt leaves the others alone.
LEMMA RefuseOnce ==
    ASSUME IInv, NEW d \in Calls, stage[d] = "unused", NEW result, NEW record,
           Refuse(d, result, record), NEW c \in Calls, outcome[c] # "none"
    PROVE  outcome'[c] = outcome[c]
  BY DEF IInv, TypeOK, StagesAgree, Refuse

\* The first answer is the one that counts (calls.ts takePending), against
\* answers that come later, the timeout and the loss of the session.
THEOREM SpecFirstAnswerWins == Spec => FirstAnswerWins
<1>1. IInv /\ [Next]_vars
        => [\A c \in Calls : outcome[c] # "none" => outcome'[c] = outcome[c]]_vars
  <2> SUFFICES ASSUME IInv, Next, NEW c \in Calls, outcome[c] # "none"
               PROVE  outcome'[c] = outcome[c]
    OBVIOUS
  <2>1. CASE SessionStep
    BY <2>1, SettleOnce
    DEF SessionStep, LinkCreated, LinkDiscarded, SessionExpires, EndWithEvent,
        SessionAdopted, KeepaliveSuspends, SocketCloses, RejectSession, callVars
  <2>2. CASE CallStep
    <3>1. ASSUME NEW d \in Calls, NEW p \in Clients, NEW s \in Sessions,
                 \/ CallInactive(d, p, s)
                 \/ CallUnknownTool(d, p, s)
                 \/ CallDenied(d, p, s)
                 \/ CallStarts(d, p, s)
          PROVE  outcome'[c] = outcome[c]
      BY <3>1, RefuseOnce DEF CallInactive, CallUnknownTool, CallDenied, CallStarts, Resolved
    <3>2. ASSUME NEW d \in Calls, CallTimesOut(d) \/ Continue(d)
          PROVE  outcome'[c] = outcome[c]
      BY <3>2, SettleOnce DEF CallTimesOut, Continue
    <3>3. QED
      BY <2>2, <3>1, <3>2 DEF CallStep
  <2>3. CASE FrameStep
    BY <2>3, SettleOnce DEF FrameStep, ToolAnswer, ToolProgress
  <2>4. CASE RpcStep
    BY <2>4, SettleOnce
    DEF RpcStep, ToolsCancel, SessionsRevoke, EndWithEvent, RpcCloses, Shutdown,
        DisposeOfCalls, RejectSession, ServerCloses
  <2>5. QED
    BY <2>1, <2>2, <2>3, <2>4 DEF Next
<1>2. QED
  BY <1>1, SpecIInv, PTL DEF Spec, FirstAnswerWins

\* The sessions of this module live the life that SessionEngine is proved to
\* give them: it asks nothing of sessions that the engine does not do.
THEOREM SpecLifecycle == Spec => Lifecycle
<1>1. Init => LifecycleInit
  BY DEF Init
<1>2. [Next]_vars => [LifecycleNext]_lifecycleVars
  <2> SUFFICES ASSUME Next
               PROVE  LifecycleNext \/ UNCHANGED lifecycleVars
    BY DEF vars
  <2>1. CASE SessionStep
    BY <2>1
    DEF SessionStep, LinkCreated, LinkDiscarded, SessionExpires, EndWithEvent,
        SessionAdopted, KeepaliveSuspends, SocketCloses, HeldBy, LifecycleNext
  <2>2. CASE CallStep
    BY ZenonT(60), <2>2
    DEF CallStep, CallInactive, CallUnknownTool, CallDenied, CallStarts, Refuse,
        CallTimesOut, Continue
  <2>3. CASE FrameStep
    BY <2>3 DEF FrameStep, ToolAnswer, ToolProgress
  <2>4. CASE RpcStep
    BY <2>4
    DEF RpcStep, ToolsCancel, SessionsRevoke, EndWithEvent, RpcCloses, Shutdown,
        ServerCloses, LifecycleNext
  <2>5. QED
    BY <2>1, <2>2, <2>3, <2>4 DEF Next
<1>3. QED
  BY <1>1, <1>2, PTL DEF Spec, Lifecycle
===============================================================================
