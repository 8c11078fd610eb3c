------------------------------- MODULE ToolCalls -------------------------------
(***************************************************************************)
(* Tool invocation: the tools.call and tools.cancel handlers (daemon.ts),  *)
(* the pending map of the calls manager (daemon/calls.ts), RPC connections *)
(* that close under their calls (daemon/rpc-server.ts), and the history    *)
(* that the event bus retains (daemon/event-bus.ts).                       *)
(*                                                                         *)
(* Sessions are taken from SessionLifecycle, which SessionEngine is shown  *)
(* to implement: every action on a session here is one of its steps with   *)
(* what the step does to the calls.                                        *)
(*                                                                         *)
(* Settling a call only resolves a promise; the rest of its handler runs   *)
(* as a microtask, an action of its own.  Microtasks wait for the callback *)
(* in progress to return, and one callback may work off several requests,  *)
(* or several frames, that arrived together: see MayRun.                   *)
(***************************************************************************)
EXTENDS SessionLifecycle, Sequences, Naturals

CONSTANTS
    Calls,      \* attempts at tools.call (a call id is random, never reused)
    Clients,    \* RPC connections
    NoSession, NoClient,
    Idle        \* no callback is in progress

ASSUME CallSentinels ==
    /\ NoSession \notin Sessions
    /\ NoClient \notin Clients
    /\ NoSocket \notin Sockets
    /\ Idle \notin Clients \union Sockets
    /\ Clients \intersect Sockets = {}

VARIABLES
    daemon,     \* "up", "closing" (shutdown has disposed of calls and sessions), "stopped"
    turn,       \* whose input the callback that settled a call is still working off
    claimedId,  \* claimedId[k]: the session whose frames socket k may carry
    rpcOpen,    \* rpcOpen[p]: connection p has not closed
    stage,      \* stage[c]: where attempt c stands
    target,     \* target[c]: the session that c's selector resolved to
    client,     \* client[c]: the connection that c arrived on
    outcome,    \* outcome[c]: what the promise settled with, or why c was refused
    closeHook,  \* closeHook[c]: c's onClose callback is registered with its connection
    cancelSent, \* cancelSent[c]: a tool_cancel for c was written to the app
    callEvents, \* callEvents[c]: the kinds of event emitted about c, repeats dropped
    audit,      \* audit[c]: the outcome in c's audit record
    retained    \* retained[s]: the event bus holds a buffer or a cursor for s

callVars == <<stage, target, client, outcome, closeHook, cancelSent, callEvents, audit>>
vars == <<lifecycleVars, daemon, turn, claimedId, rpcOpen, callVars, retained>>

\* "settled": the promise is settled, its continuation still queued.
Stages == {"unused", "pending", "settled", "done"}
AppAnswers == {"ok", "tool_execution_error", "tool_cancelled"}
Outcomes == AppAnswers \union
    {"none", "tool_timeout", "session_suspended", "unknown_session",
     "tool_not_found", "policy_denied"}
AuditOutcomes == {"none", "ok", "error", "cancelled", "denied"}
CallEventOrders ==
    {<<>>, <<"started">>, <<"started", "progress">>, <<"started", "finished">>,
     <<"started", "progress", "finished">>, <<"finished">>}

Live == {s \in Sessions : phase[s] \in {"active", "suspended"}}

\* No continuation is queued: the event loop may take the next callback.
Quiet == \A c \in Calls : stage[c] # "settled"

\* The input of connection i is handled by a callback of its own, or by the one
\* that is in progress and has settled a call.
MayRun(i) == Quiet \/ turn = i
Runs(i) == turn' = IF \E c \in Calls : stage'[c] = "settled" THEN i ELSE Idle

Init ==
    /\ LifecycleInit
    /\ daemon = "up"
    /\ turn = Idle
    /\ claimedId = [k \in Sockets |-> NoSession]
    /\ rpcOpen = [p \in Clients |-> TRUE]
    /\ stage = [c \in Calls |-> "unused"]
    /\ target = [c \in Calls |-> NoSession]
    /\ client = [c \in Calls |-> NoClient]
    /\ outcome = [c \in Calls |-> "none"]
    /\ closeHook = [c \in Calls |-> FALSE]
    /\ cancelSent = [c \in Calls |-> FALSE]
    /\ callEvents = [c \in Calls |-> <<>>]
    /\ audit = [c \in Calls |-> "none"]
    /\ retained = [s \in Sessions |-> FALSE]
-------------------------------------------------------------------------------
(***************************************************************************)
(* Pieces that several handlers share.                                     *)
(***************************************************************************)
Pending(c) == stage[c] = "pending"

\* Defect: the entry is looked up but stays in the map, so it settles again.
SettleRepeatedly(cs, result) ==
    /\ stage' = [c \in Calls |-> IF c \in cs /\ stage[c] # "unused" THEN "settled" ELSE stage[c]]
    /\ outcome' = [c \in Calls |-> IF c \in cs /\ stage[c] # "unused" THEN result ELSE outcome[c]]

\* takePending, then resolve or reject: calls of `cs` that are not in the map
\* any more are left alone.
Settle(cs, result) ==
    /\ stage' = [c \in Calls |-> IF c \in cs /\ Pending(c) THEN "settled" ELSE stage[c]]
    /\ outcome' = [c \in Calls |-> IF c \in cs /\ Pending(c) THEN result ELSE outcome[c]]

\* Defect: only the end of a session rejects its calls.
RejectSessionAtEnd(ids, errorType) ==
    Settle({c \in Calls : target[c] \in ids /\ errorType = "unknown_session"}, errorType)

\* rejectSession, from the calls manager's listener on the event bus.
RejectSession(ids, errorType) == Settle({c \in Calls : target[c] \in ids}, errorType)

\* An event of a session is buffered; a terminal one discards the buffer.
Retain(ids) == retained' = [s \in Sessions |-> s \in ids \/ retained[s]]

Discard(ids) == retained' = [s \in Sessions |-> s \notin ids /\ retained[s]]

\* Defect: a connection that closes leaves its calls to their timeouts.
CancelNone(cs) == UNCHANGED cancelSent

\* cancel: a tool_cancel goes out for a call that is pending, if its session
\* has a socket to send it on.
Cancel(cs) ==
    cancelSent' = [c \in Calls |-> \/ cancelSent[c]
                                   \/ /\ c \in cs /\ Pending(c)
                                      /\ phase[target[c]] = "active"]

\* The sockets of `ids`, replaced ones included, can still deliver frames; only
\* a closed socket is forgotten.
SocketGone(k) == claimedId' = [claimedId EXCEPT ![k] = NoSession]

AuditOutcome(result) ==
    CASE result = "ok" -> "ok"
      [] result = "tool_cancelled" -> "cancelled"
      [] OTHER -> "error"
-------------------------------------------------------------------------------
(***************************************************************************)
(* Sessions.  Each transition emits its event inside the transition, and   *)
(* the calls manager reacts to the event before emit returns.              *)
(***************************************************************************)
LinkCreated(s) ==
    /\ daemon # "stopped"
    /\ Mint(s)
    /\ Retain({s})
    /\ UNCHANGED <<daemon, turn, claimedId, rpcOpen, callVars>>

\* The many quiet ends of a pending link: bad claims, a late claim, its timers.
LinkDiscarded(s) ==
    /\ Quiet /\ daemon # "stopped"
    /\ phase[s] = "pending"
    /\ End({s})
    /\ Discard({s})
    /\ UNCHANGED <<daemon, turn, claimedId, rpcOpen, callVars>>

\* A claim or a resume.  A resume of an active session leaves the calls that
\* were sent over the replaced socket pending.
SessionAdopted(s, k) ==
    /\ Quiet /\ daemon = "up"
    /\ claimedId[k] = NoSession
    /\ Adopt(s, k)
    /\ claimedId' = [claimedId EXCEPT ![k] = s]
    /\ Retain({s})
    /\ UNCHANGED <<daemon, turn, rpcOpen, callVars>>

\* Keepalive gives up on the sockets of `lost`: they are terminated, their
\* 'close' is still to come.
KeepaliveSuspends(lost) ==
    /\ Quiet /\ daemon = "up"
    /\ lost # {}
    /\ Lose(lost)
    /\ Retain(lost)
    /\ RejectSession(lost, "session_suspended")
    /\ Runs(Idle)
    /\ UNCHANGED <<daemon, claimedId, rpcOpen, target, client, closeHook,
                   cancelSent, callEvents, audit>>

HeldBy(k) == {s \in Sessions : holder[s] = k}

SocketCloses(k) ==
    /\ Quiet /\ daemon = "up"
    /\ claimedId[k] # NoSession
    /\ SocketGone(k)
    /\ Lose(HeldBy(k))
    /\ Retain(HeldBy(k))
    /\ RejectSession(HeldBy(k), "session_suspended")
    /\ Runs(Idle)
    /\ UNCHANGED <<daemon, rpcOpen, target, client, closeHook, cancelSent, callEvents, audit>>

\* session_expired and session_revoked: the bus forgets, then the calls fall.
EndWithEvent(s) ==
    /\ End({s})
    /\ Discard({s})
    /\ RejectSession({s}, "unknown_session")
    /\ UNCHANGED <<daemon, claimedId, rpcOpen, target, client, closeHook,
                   cancelSent, callEvents, audit>>

SessionExpires(s) ==
    /\ Quiet /\ daemon = "up"
    /\ phase[s] = "suspended"
    /\ EndWithEvent(s)
    /\ Runs(Idle)

SessionsRevoke(p, s) ==
    /\ MayRun(p) /\ rpcOpen[p]
    /\ EndWithEvent(s)
    /\ Runs(p)
-------------------------------------------------------------------------------
(***************************************************************************)
(* tools.call, one action per outcome of its synchronous part.  A selector *)
(* that resolves to no session changes nothing.                            *)
(***************************************************************************)
Resolved(c, p, s) ==
    /\ MayRun(p) /\ rpcOpen[p]
    /\ stage[c] = "unused"
    /\ s \in Live
    /\ target' = [target EXCEPT ![c] = s]
    /\ client' = [client EXCEPT ![c] = p]

\* Answered with an error and audited; the app never hears of it.
Refuse(c, result, record) ==
    /\ stage' = [stage EXCEPT ![c] = "done"]
    /\ outcome' = [outcome EXCEPT ![c] = result]
    /\ audit' = [audit EXCEPT ![c] = record]
    /\ UNCHANGED <<lifecycleVars, daemon, turn, claimedId, rpcOpen, closeHook, cancelSent>>

CallInactive(c, p, s) ==
    /\ Resolved(c, p, s)
    /\ phase[s] # "active"
    /\ Refuse(c, "session_suspended", "error")
    /\ UNCHANGED <<callEvents, retained>>

CallUnknownTool(c, p, s) ==
    /\ Resolved(c, p, s)
    /\ phase[s] = "active"
    /\ Refuse(c, "tool_not_found", "error")
    /\ UNCHANGED <<callEvents, retained>>

\* Policy says deny, or prompt and the caller carries no consent.
CallDenied(c, p, s) ==
    /\ Resolved(c, p, s)
    /\ phase[s] = "active"
    /\ Refuse(c, "policy_denied", "denied")
    /\ callEvents' = [callEvents EXCEPT ![c] = <<"finished">>]
    /\ Retain({s})

\* Sent, registered, announced; then the handler awaits the result.
CallStarts(c, p, s) ==
    /\ Resolved(c, p, s)
    /\ phase[s] = "active"
    /\ stage' = [stage EXCEPT ![c] = "pending"]
    /\ closeHook' = [closeHook EXCEPT ![c] = TRUE]
    /\ callEvents' = [callEvents EXCEPT ![c] = <<"started">>]
    /\ Retain({s})
    /\ UNCHANGED <<lifecycleVars, daemon, turn, claimedId, rpcOpen, outcome, cancelSent, audit>>

\* Defect: cancelling a call disarms its timer, as if the app were sure to answer.
TimesOutUnlessCancelled(c) ==
    /\ Quiet
    /\ Pending(c) /\ ~cancelSent[c]
    /\ Settle({c}, "tool_timeout")
    /\ Runs(Idle)
    /\ UNCHANGED <<lifecycleVars, daemon, claimedId, rpcOpen, target, client,
                   closeHook, cancelSent, callEvents, audit, retained>>

CallTimesOut(c) ==
    /\ Quiet
    /\ Pending(c)
    /\ Settle({c}, "tool_timeout")
    /\ Runs(Idle)
    /\ UNCHANGED <<lifecycleVars, daemon, claimedId, rpcOpen, target, client,
                   closeHook, cancelSent, callEvents, audit, retained>>

DropHook(c) == closeHook' = [closeHook EXCEPT ![c] = FALSE]

\* The continuation of `await callResult`, in its try, catch and finally.
Continue(c) ==
    /\ stage[c] = "settled"
    /\ stage' = [stage EXCEPT ![c] = "done"]
    /\ callEvents' = [callEvents EXCEPT ![c] = Append(@, "finished")]
    /\ Retain({target[c]})
    /\ audit' = [audit EXCEPT ![c] = AuditOutcome(outcome[c])]
    /\ DropHook(c)
    /\ turn' = Idle
    /\ UNCHANGED <<lifecycleVars, daemon, claimedId, rpcOpen, target, client,
                   outcome, cancelSent>>
-------------------------------------------------------------------------------
(***************************************************************************)
(* Frames of the app.  It may send any, of any call of its session, twice, *)
(* late, or over a socket that a resume has replaced.                      *)
(***************************************************************************)
\* Frames carry the session of the socket they arrive on, and are dropped when
\* that session is gone.
FrameFor(k, c) ==
    /\ MayRun(k) /\ daemon = "up"
    /\ claimedId[k] \in Live
    /\ stage[c] # "unused" /\ target[c] = claimedId[k]

ToolAnswer(k, c, answer) ==
    /\ FrameFor(k, c)
    /\ Settle({c}, answer)
    /\ Runs(k)
    /\ UNCHANGED <<lifecycleVars, daemon, claimedId, rpcOpen, target, client,
                   closeHook, cancelSent, callEvents, audit, retained>>

\* Progress of a call that is not pending is dropped.
AnnounceProgress(c) == Pending(c)

ToolProgress(k, c) ==
    /\ FrameFor(k, c)
    /\ AnnounceProgress(c)
    /\ callEvents' = [callEvents EXCEPT ![c] =
                        IF @ # <<>> /\ @[Len(@)] = "progress" THEN @ ELSE Append(@, "progress")]
    /\ UNCHANGED <<lifecycleVars, daemon, turn, claimedId, rpcOpen, stage, target, client,
                   outcome, closeHook, cancelSent, audit, retained>>
-------------------------------------------------------------------------------
(***************************************************************************)
(* RPC connections and the end of the daemon.                              *)
(***************************************************************************)
\* tools.cancel: any connection may cancel a call of a session it can name.
ToolsCancel(p, c) ==
    /\ MayRun(p) /\ rpcOpen[p]
    /\ Pending(c)
    /\ Cancel({c})
    /\ UNCHANGED <<lifecycleVars, daemon, turn, claimedId, rpcOpen, stage, target, client,
                   outcome, closeHook, callEvents, audit, retained>>

RpcCloses(p) ==
    /\ MayRun(p) /\ rpcOpen[p]
    /\ rpcOpen' = [rpcOpen EXCEPT ![p] = FALSE]
    /\ Cancel({c \in Calls : client[c] = p /\ closeHook[c]})
    /\ closeHook' = [c \in Calls |-> client[c] # p /\ closeHook[c]]
    /\ UNCHANGED <<lifecycleVars, daemon, turn, claimedId, stage, target, client, outcome,
                   callEvents, audit, retained>>

\* Defect: shutdown takes the sockets away under the calls.
DisposeOfNoCalls == UNCHANGED <<stage, outcome>>

\* disposeAll of the calls manager.
DisposeOfCalls == RejectSession(Sessions, "unknown_session")

\* shutdown, up to its first await: calls first, then sessions (without events)
\* and their sockets.  A pending link's history is dropped, a session's stays.
Shutdown ==
    /\ Quiet /\ daemon = "up"
    /\ daemon' = "closing"
    /\ DisposeOfCalls
    /\ Runs(Idle)
    /\ End({s \in Sessions : phase[s] \in {"pending", "active", "suspended"}})
    /\ Discard({s \in Sessions : phase[s] = "pending"})
    /\ claimedId' = [k \in Sockets |-> NoSession]
    /\ UNCHANGED <<rpcOpen, target, client, closeHook, cancelSent, callEvents, audit>>

\* server.close destroys every connection; then the audit queue is flushed.
ServerCloses ==
    /\ Quiet /\ daemon = "closing"
    /\ daemon' = "stopped"
    /\ rpcOpen' = [p \in Clients |-> FALSE]
    /\ Cancel({c \in Calls : closeHook[c]})
    /\ closeHook' = [c \in Calls |-> FALSE]
    /\ UNCHANGED <<lifecycleVars, turn, claimedId, stage, target, client, outcome,
                   callEvents, audit, retained>>
-------------------------------------------------------------------------------
SessionStep ==
    \/ \E s \in Sessions : LinkCreated(s) \/ LinkDiscarded(s) \/ SessionExpires(s)
    \/ \E s \in Sessions, k \in Sockets : SessionAdopted(s, k)
    \/ \E lost \in SUBSET Sessions : KeepaliveSuspends(lost)
    \/ \E k \in Sockets : SocketCloses(k)

CallStep ==
    \/ \E c \in Calls, p \in Clients, s \in Sessions :
        \/ CallInactive(c, p, s)
        \/ CallUnknownTool(c, p, s)
        \/ CallDenied(c, p, s)
        \/ CallStarts(c, p, s)
    \/ \E c \in Calls : CallTimesOut(c) \/ Continue(c)

FrameStep ==
    \E k \in Sockets, c \in Calls :
        \/ \E answer \in AppAnswers : ToolAnswer(k, c, answer)
        \/ ToolProgress(k, c)

RpcStep ==
    \/ \E p \in Clients, c \in Calls : ToolsCancel(p, c)
    \/ \E p \in Clients, s \in Sessions : SessionsRevoke(p, s)
    \/ \E p \in Clients : RpcCloses(p)
    \/ Shutdown
    \/ ServerCloses

Next == SessionStep \/ CallStep \/ FrameStep \/ RpcStep

Spec == Init /\ [][Next]_vars

\* A call's timer fires and queued continuations run.  Apps, clients, the
\* network and the operator owe nothing.
Fairness == \A c \in Calls : WF_vars(CallTimesOut(c)) /\ WF_vars(Continue(c))

FairSpec == Spec /\ Fairness
-------------------------------------------------------------------------------
(***************************************************************************)
(* Properties.                                                             *)
(***************************************************************************)
\* Every variable has its type; the events about one call come in order:
\* started, then progress, then finished, and nothing once it is finished.
TypeOK ==
    /\ phase \in [Sessions -> Phases]
    /\ holder \in [Sessions -> Sockets \union {NoSocket}]
    /\ daemon \in {"up", "closing", "stopped"}
    /\ turn \in Clients \union Sockets \union {Idle}
    /\ claimedId \in [Sockets -> Sessions \union {NoSession}]
    /\ rpcOpen \in [Clients -> BOOLEAN]
    /\ stage \in [Calls -> Stages]
    /\ target \in [Calls -> Sessions \union {NoSession}]
    /\ client \in [Calls -> Clients \union {NoClient}]
    /\ outcome \in [Calls -> Outcomes]
    /\ closeHook \in [Calls -> BOOLEAN]
    /\ cancelSent \in [Calls -> BOOLEAN]
    /\ callEvents \in [Calls -> CallEventOrders]
    /\ audit \in [Calls -> AuditOutcomes]
    /\ retained \in [Sessions -> BOOLEAN]

\* No caller waits for a session that is not there: as soon as a session is
\* suspended, revoked, expired or swept away by a shutdown, none of its calls is
\* in the pending map.
PendingOnlyWhileActive ==
    \A c \in Calls : Pending(c) => phase[target[c]] = "active"

\* The app is told to stop working for a caller that is gone.
OrphansAreCancelled ==
    \A c \in Calls : Pending(c) /\ ~rpcOpen[client[c]] => cancelSent[c]

\* A connection holds close callbacks for its unfinished calls and for no other,
\* however many calls it has made.
HooksOfUnfinished ==
    \A c \in Calls : closeHook[c] <=> /\ stage[c] \in {"pending", "settled"}
                                      /\ rpcOpen[client[c]]

\* The first answer wins: an answer, a timeout and the loss of the session race,
\* and what settles a call first is what the caller, the event and the audit
\* record say, whatever arrives later.
FirstAnswerWins ==
    [][\A c \in Calls : outcome[c] # "none" => outcome'[c] = outcome[c]]_vars

\* A daemon that has flushed its audit log leaves no call unaccounted for.
AllAuditedAtExit ==
    daemon = "stopped" =>
        \A c \in Calls : stage[c] # "unused" => audit[c] # "none"

\* While the daemon runs, an id that is over has history only if it ended under a
\* call that was pending on it.
LeftoverHistory ==
    daemon = "up" =>
        \A s \in Sessions : phase[s] = "over" /\ retained[s] =>
            \E c \in Calls : target[c] = s /\ outcome[c] = "unknown_session"

\* docs/ARCHITECTURE.md section 5: "A session's buffer is discarded the instant it
\* hits a terminal event".
\* The code does not keep this: README, section 10.
DiscardedAtTerminalEvent ==
    daemon = "up" => \A s \in Sessions : phase[s] = "over" => ~retained[s]

\* Every call that started is answered, if only by its timeout.
EveryCallFinishes == \A c \in Calls : Pending(c) ~> stage[c] = "done"
===============================================================================
