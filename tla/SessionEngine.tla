---------------------------- MODULE SessionEngine ----------------------------
(***************************************************************************)
(* The daemon's session engine: pending links (daemon/links.ts), live      *)
(* sessions (daemon/sessions.ts) and the sockets of the wss listener       *)
(* (daemon/listener.ts), with what the event bus retains for each id       *)
(* (daemon/event-bus.ts).                                                  *)
(*                                                                         *)
(* Node runs each callback to completion, so one callback is one action:   *)
(* a frame, a timer, a socket 'close' or 'pong' event, an RPC.  Apps,      *)
(* network and clock are the environment: they may open sockets, send any  *)
(* credential, fall silent, or close, at any time.                         *)
(***************************************************************************)
EXTENDS Integers, FiniteSets

CONSTANTS
    Sessions,           \* ids that link.create may mint
    Sockets,            \* slots for connections; a slot is reused once its socket closed
    Slugs,              \* slugified device models
    AliasName,          \* AliasName[<<slug, n>>]: slug when n = 1, "slug-n" after
    Aliases,            \* every name AliasName produces
    MaxSuffix,          \* highest suffix dedupeAlias can need
    MaxAttempts,        \* MAX_FAILED_CLAIM_ATTEMPTS (5 in the source)
    MaxTokens,          \* bound: resume tokens issued to one session
    NoSession, NoSocket, NoAlias, NoSelector

ASSUME SentinelAssumption ==
    NoSession \notin Sessions /\ NoSocket \notin Sockets /\ NoAlias \notin Aliases

ASSUME BoundAssumption ==
    /\ MaxSuffix \in Nat \ {0}
    /\ MaxAttempts \in Nat \ {0}
    /\ MaxTokens \in Nat \ {0}

\* Sessions that are live at once never outnumber the suffixes to choose from.
ASSUME AliasAssumption ==
    /\ IsFiniteSet(Sessions)
    /\ Cardinality(Sessions) <= MaxSuffix
    /\ AliasName \in [Slugs \X (1..MaxSuffix) -> Aliases]
    /\ \A b \in Slugs : \A m, n \in 1..MaxSuffix :
            AliasName[<<b, m>>] = AliasName[<<b, n>>] => m = n

VARIABLES
    minted,         \* minted[s]: link.create has drawn the id
    linkTimer,      \* linkTimer[s]: which timer s's link record holds ("none": no record)
    pastTtl,        \* pastTtl[s]: the clock has reached the link's expiresAt
    attempts,       \* attempts[s]: failed claims recorded against the link
    state,          \* state[s]: LiveSession.state ("none": not in the sessions map)
    socket,         \* socket[s]: LiveSession.socket
    graceTimer,     \* graceTimer[s]: the grace timer is armed
    resumeToken,    \* resumeToken[s]: ordinal of the current resume token
    missedPongs,    \* missedPongs[s]
    alias,          \* alias[s]
    conn,           \* conn[k]: what has become of socket k
    claimedId,      \* claimedId[k]: the listener's claimedSessionId for socket k
    preClaimTimer,  \* preClaimTimer[k]: the pre-claim timer is armed
    admittedBy,     \* admittedBy[k]: which credential let k in (0: the link token)
    pings,          \* pings[k]: pings that k's peer may still answer
    lastEvent,      \* lastEvent[s]: the last lifecycle event a subscriber saw for s
    retained        \* retained[s]: the event bus holds a buffer or a cursor for s

linkVars == <<minted, linkTimer, pastTtl, attempts>>
sessionVars == <<state, socket, graceTimer, resumeToken, missedPongs, alias>>
connVars == <<conn, claimedId, preClaimTimer, admittedBy, pings>>
busVars == <<lastEvent, retained>>
vars == <<linkVars, sessionVars, connVars, busVars>>

\* "silent": open as far as the daemon can tell, but its peer is gone.
\* "closing": closed or terminated here, 'close' not emitted yet; frames that
\* had arrived are still dispatched.
ConnStates == {"free", "open", "silent", "closing"}
LinkTimers == {"none", "ttl", "free"}
SessionStates == {"none", "active", "suspended"}
EventKinds == {"none", "link_created", "link_expired", "session_claimed",
               "session_suspended", "session_resumed", "session_expired",
               "session_revoked"}
TerminalEvents == {"session_expired", "session_revoked"}

Live == {s \in Sessions : state[s] # "none"}
HasLink(s) == linkTimer[s] # "none"

Init ==
    /\ minted = [s \in Sessions |-> FALSE]
    /\ linkTimer = [s \in Sessions |-> "none"]
    /\ pastTtl = [s \in Sessions |-> FALSE]
    /\ attempts = [s \in Sessions |-> 0]
    /\ state = [s \in Sessions |-> "none"]
    /\ socket = [s \in Sessions |-> NoSocket]
    /\ graceTimer = [s \in Sessions |-> FALSE]
    /\ resumeToken = [s \in Sessions |-> 0]
    /\ missedPongs = [s \in Sessions |-> 0]
    /\ alias = [s \in Sessions |-> NoAlias]
    /\ conn = [k \in Sockets |-> "free"]
    /\ claimedId = [k \in Sockets |-> NoSession]
    /\ preClaimTimer = [k \in Sockets |-> FALSE]
    /\ admittedBy = [k \in Sockets |-> 0]
    /\ pings = [k \in Sockets |-> 0]
    /\ lastEvent = [s \in Sessions |-> "none"]
    /\ retained = [s \in Sessions |-> FALSE]
-------------------------------------------------------------------------------
(***************************************************************************)
(* Pieces that several handlers share.                                     *)
(***************************************************************************)
\* Defect: the bus keeps a finished session's buffer and cursor.
EmitRetainsTerminal(ids, kind) ==
    /\ lastEvent' = [s \in Sessions |-> IF s \in ids THEN kind ELSE lastEvent[s]]
    /\ retained' = [s \in Sessions |-> s \in ids \/ retained[s]]

\* eventBus.emit for each id of `ids`: a terminal event discards what is retained.
Emit(ids, kind) ==
    /\ lastEvent' = [s \in Sessions |-> IF s \in ids THEN kind ELSE lastEvent[s]]
    /\ retained' = [s \in Sessions |->
                        IF s \in ids THEN kind \notin TerminalEvents ELSE retained[s]]

\* eventBus.drop
Drop(s) ==
    /\ retained' = [retained EXCEPT ![s] = FALSE]
    /\ UNCHANGED lastEvent

\* Defect: the record stays, so the token can be claimed again.
RemoveLinkKeepsRecord(s) == UNCHANGED <<linkTimer, pastTtl, attempts>>

\* records.delete and the end of the record's timer (consume, discard).
RemoveLink(s) ==
    /\ linkTimer' = [linkTimer EXCEPT ![s] = "none"]
    /\ pastTtl' = [pastTtl EXCEPT ![s] = FALSE]
    /\ attempts' = [attempts EXCEPT ![s] = 0]

\* close() or terminate() on each socket of `ks`; a no-op on one that is closing.
LocalClose(ks) ==
    conn' = [k \in Sockets |-> IF k \in ks /\ conn[k] \in {"open", "silent"}
                               THEN "closing" ELSE conn[k]]

\* Defect: a suspended session gets no grace timer.
SuspendWithoutTimer(ids) ==
    /\ state' = [s \in Sessions |-> IF s \in ids THEN "suspended" ELSE state[s]]
    /\ socket' = [s \in Sessions |-> IF s \in ids THEN NoSocket ELSE socket[s]]
    /\ Emit(ids, "session_suspended")
    /\ UNCHANGED <<graceTimer, resumeToken, alias>>

\* Defect: the transition is made without its event.
SuspendUnannounced(ids) ==
    /\ state' = [s \in Sessions |-> IF s \in ids THEN "suspended" ELSE state[s]]
    /\ socket' = [s \in Sessions |-> IF s \in ids THEN NoSocket ELSE socket[s]]
    /\ graceTimer' = [s \in Sessions |-> s \in ids \/ graceTimer[s]]
    /\ UNCHANGED <<resumeToken, alias, busVars>>

\* suspend(), for each id of `ids`; missedPongs is the caller's.
Suspend(ids) ==
    /\ state' = [s \in Sessions |-> IF s \in ids THEN "suspended" ELSE state[s]]
    /\ socket' = [s \in Sessions |-> IF s \in ids THEN NoSocket ELSE socket[s]]
    /\ graceTimer' = [s \in Sessions |-> s \in ids \/ graceTimer[s]]
    /\ Emit(ids, "session_suspended")
    /\ UNCHANGED <<resumeToken, alias>>

\* sessions.delete, and the grace timer with it.
Forget(ids) ==
    /\ state' = [s \in Sessions |-> IF s \in ids THEN "none" ELSE state[s]]
    /\ socket' = [s \in Sessions |-> IF s \in ids THEN NoSocket ELSE socket[s]]
    /\ graceTimer' = [s \in Sessions |-> s \notin ids /\ graceTimer[s]]
    /\ resumeToken' = [s \in Sessions |-> IF s \in ids THEN 0 ELSE resumeToken[s]]
    /\ missedPongs' = [s \in Sessions |-> IF s \in ids THEN 0 ELSE missedPongs[s]]
    /\ alias' = [s \in Sessions |-> IF s \in ids THEN NoAlias ELSE alias[s]]

\* dedupeAlias: the first suffix whose name no session holds.
DedupeAlias(base, existing) ==
    AliasName[<<base, CHOOSE n \in 1..MaxSuffix :
                        /\ AliasName[<<base, n>>] \notin existing
                        /\ \A m \in 1..(n - 1) : AliasName[<<base, m>>] \in existing>>]

\* Defect: the alias of a suspended session counts as free.
AssignAliasOverActive(base) ==
    DedupeAlias(base, {alias[s] : s \in {t \in Sessions : state[t] = "active"}})

AssignAlias(base) == DedupeAlias(base, {alias[s] : s \in Live})

AttemptsExhausted(n) == n >= MaxAttempts

\* Defect: resume hands out the token it was given.
SameToken(s) == resumeToken[s]

\* randomBytes: a value never issued before.
RotatedToken(s) == resumeToken[s] + 1

PongsOnAdoption(s) == 0

\* Defect: every ping starts the count anew.
MissesRestart(s) == 1

MissesAfterPing(s) == missedPongs[s] + 1

\* resolveSession: the sessions a selector names (empty: the call is an error).
ResolveSession(selector) ==
    IF selector = NoSelector
    THEN IF Cardinality(Live) = 1 THEN Live ELSE {}
    ELSE {s \in Live : s = selector \/ alias[s] = selector}
-------------------------------------------------------------------------------
(***************************************************************************)
(* Pending links.                                                          *)
(***************************************************************************)
CreateLink(s) ==
    /\ ~minted[s]
    /\ minted' = [minted EXCEPT ![s] = TRUE]
    /\ linkTimer' = [linkTimer EXCEPT ![s] = "ttl"]
    /\ Emit({s}, "link_created")
    /\ UNCHANGED <<pastTtl, attempts, sessionVars, connVars>>

\* The clock reaches expiresAt.  The TTL timer was armed for the same instant:
\* it does not fire earlier, and may fire any time later.
ClockPassesTtl(s) ==
    /\ HasLink(s)
    /\ ~pastTtl[s]
    /\ pastTtl' = [pastTtl EXCEPT ![s] = TRUE]
    /\ UNCHANGED <<minted, linkTimer, attempts, sessionVars, connVars, busVars>>

\* Defect: the TTL timer announces the expiry and arms no second timer.
TtlTimerNotRearmed(s) ==
    /\ linkTimer[s] = "ttl"
    /\ pastTtl[s]
    /\ Emit({s}, "link_expired")
    /\ UNCHANGED <<linkVars, sessionVars, connVars>>

\* The record outlives its TTL by an equal window, in which a claim is told
\* "expired" rather than "unknown".
TtlTimerFires(s) ==
    /\ linkTimer[s] = "ttl"
    /\ pastTtl[s]
    /\ linkTimer' = [linkTimer EXCEPT ![s] = "free"]
    /\ Emit({s}, "link_expired")
    /\ UNCHANGED <<minted, pastTtl, attempts, sessionVars, connVars>>

FreeTimerFires(s) ==
    /\ linkTimer[s] = "free"
    /\ RemoveLink(s)
    /\ Drop(s)
    /\ UNCHANGED <<minted, sessionVars, connVars>>
-------------------------------------------------------------------------------
(***************************************************************************)
(* Sockets before their claim.                                             *)
(***************************************************************************)
\* A frame from k reaches the listener's message handler.
Deliverable(k) == conn[k] \in {"open", "closing"}
Unclaimed(k) == claimedId[k] = NoSession

Connect(k) ==
    /\ conn[k] = "free"
    /\ conn' = [conn EXCEPT ![k] = "open"]
    /\ preClaimTimer' = [preClaimTimer EXCEPT ![k] = TRUE]
    /\ UNCHANGED <<claimedId, admittedBy, pings, linkVars, sessionVars, busVars>>

\* Defect: the condition is the wrong way round.
PreClaimTimeoutOfClaimed(k) ==
    /\ preClaimTimer[k]
    /\ preClaimTimer' = [preClaimTimer EXCEPT ![k] = FALSE]
    /\ LocalClose(IF Unclaimed(k) THEN {} ELSE {k})
    /\ UNCHANGED <<claimedId, admittedBy, pings, linkVars, sessionVars, busVars>>

PreClaimTimeout(k) ==
    /\ preClaimTimer[k]
    /\ preClaimTimer' = [preClaimTimer EXCEPT ![k] = FALSE]
    /\ LocalClose(IF Unclaimed(k) THEN {k} ELSE {})
    /\ UNCHANGED <<claimedId, admittedBy, pings, linkVars, sessionVars, busVars>>

\* A binary frame, bad JSON, a first message that is neither claim nor resume,
\* an unknown type, a foreign session_id, a frame that fails its guard.
RejectFrame(k) ==
    /\ Deliverable(k)
    /\ LocalClose({k})
    /\ UNCHANGED <<claimedId, preClaimTimer, admittedBy, pings,
                   linkVars, sessionVars, busVars>>

\* The listener's bookkeeping when a claim or a resume let k in.
Admit(k, s, credential) ==
    /\ claimedId' = [claimedId EXCEPT ![k] = s]
    /\ preClaimTimer' = [preClaimTimer EXCEPT ![k] = FALSE]
    /\ admittedBy' = [admittedBy EXCEPT ![k] = credential]
    /\ UNCHANGED pings

(***************************************************************************)
(* handleClaim, one action per outcome.                                    *)
(***************************************************************************)
\* No record: already_claimed or unknown_session, k is closed either way.
ClaimWithoutLink(k, s) ==
    /\ Deliverable(k) /\ Unclaimed(k)
    /\ ~HasLink(s)
    /\ LocalClose({k})
    /\ UNCHANGED <<claimedId, preClaimTimer, admittedBy, pings,
                   linkVars, sessionVars, busVars>>

ClaimExpiredLink(k, s) ==
    /\ Deliverable(k) /\ Unclaimed(k)
    /\ HasLink(s) /\ pastTtl[s]
    /\ RemoveLink(s)
    /\ Drop(s)
    /\ LocalClose({k})
    /\ UNCHANGED <<minted, claimedId, preClaimTimer, admittedBy, pings, sessionVars>>

ClaimBadToken(k, s) ==
    /\ Deliverable(k) /\ Unclaimed(k)
    /\ HasLink(s) /\ ~pastTtl[s]
    /\ IF AttemptsExhausted(attempts[s] + 1)
       THEN RemoveLink(s) /\ Drop(s)
       ELSE /\ attempts' = [attempts EXCEPT ![s] = @ + 1]
            /\ UNCHANGED <<linkTimer, pastTtl, busVars>>
    /\ LocalClose({k})
    /\ UNCHANGED <<minted, claimedId, preClaimTimer, admittedBy, pings, sessionVars>>

\* consume, assignAlias, sessions.set, attachSocketHandlers, sendAck, emit.
\* Nothing looks at whether k is still open.
ClaimAccepted(k, s, base) ==
    /\ Deliverable(k) /\ Unclaimed(k)
    /\ HasLink(s) /\ ~pastTtl[s]
    /\ RemoveLink(s)
    /\ state' = [state EXCEPT ![s] = "active"]
    /\ socket' = [socket EXCEPT ![s] = k]
    /\ resumeToken' = [resumeToken EXCEPT ![s] = 1]
    /\ missedPongs' = [missedPongs EXCEPT ![s] = 0]
    /\ alias' = [alias EXCEPT ![s] = AssignAlias(base)]
    /\ Admit(k, s, 0)
    /\ Emit({s}, "session_claimed")
    /\ UNCHANGED <<minted, graceTimer, conn>>
-------------------------------------------------------------------------------
(***************************************************************************)
(* handleResume, one action per outcome.                                   *)
(***************************************************************************)
\* unknown_session, or a token that is not the current one.
ResumeRejected(k, s, token) ==
    /\ Deliverable(k) /\ Unclaimed(k)
    /\ s \notin Live \/ token # resumeToken[s]
    /\ LocalClose({k})
    /\ UNCHANGED <<claimedId, preClaimTimer, admittedBy, pings,
                   linkVars, sessionVars, busVars>>

\* An active session swaps sockets: the old one is closed, its 'close' event
\* still to come.  The grace timer is cleared, the token rotated.
ResumeAccepted(k, s, token) ==
    /\ Deliverable(k) /\ Unclaimed(k)
    /\ s \in Live /\ token = resumeToken[s] /\ token < MaxTokens
    /\ LocalClose(IF state[s] = "active" THEN {socket[s]} ELSE {})
    /\ state' = [state EXCEPT ![s] = "active"]
    /\ socket' = [socket EXCEPT ![s] = k]
    /\ graceTimer' = [graceTimer EXCEPT ![s] = FALSE]
    /\ resumeToken' = [resumeToken EXCEPT ![s] = RotatedToken(s)]
    /\ missedPongs' = [missedPongs EXCEPT ![s] = PongsOnAdoption(s)]
    /\ Admit(k, s, token)
    /\ Emit({s}, "session_resumed")
    /\ UNCHANGED <<linkVars, alias>>
-------------------------------------------------------------------------------
(***************************************************************************)
(* Claimed sockets: frames, keepalive, loss.                               *)
(***************************************************************************)
\* handlePostClaimMessage for a session that is gone; frames of a live session
\* change the registry and the calls, which are not part of this module.
FrameForDeadSession(k) ==
    /\ Deliverable(k) /\ ~Unclaimed(k)
    /\ claimedId[k] \notin Live
    /\ LocalClose({k})
    /\ UNCHANGED <<claimedId, preClaimTimer, admittedBy, pings,
                   linkVars, sessionVars, busVars>>

\* A write fails (ack, tool_call, tool_cancel): closeSocket(socket, 1011).
SendFails(k) ==
    /\ conn[k] \in {"open", "silent"} /\ ~Unclaimed(k)
    /\ LocalClose({k})
    /\ UNCHANGED <<claimedId, preClaimTimer, admittedBy, pings,
                   linkVars, sessionVars, busVars>>

\* The 'pong' listener belongs to the session, whichever of its sockets speaks.
Pong(k) ==
    /\ Deliverable(k) /\ ~Unclaimed(k)
    /\ pings[k] > 0
    /\ pings' = [pings EXCEPT ![k] = @ - 1]
    /\ missedPongs' = [missedPongs EXCEPT ![claimedId[k]] = 0]
    /\ UNCHANGED <<conn, claimedId, preClaimTimer, admittedBy, state, socket,
                   graceTimer, resumeToken, alias, linkVars, busVars>>

\* One pass of the keepalive interval over the sessions map.
KeepaliveTick ==
    LET pinged == {s \in Sessions : state[s] = "active" /\ missedPongs[s] < 2}
        lost == {s \in Sessions : state[s] = "active" /\ missedPongs[s] >= 2}
        pingedSockets == {socket[s] : s \in pinged}
    IN  /\ Suspend(lost)
        /\ missedPongs' = [s \in Sessions |-> IF s \in lost THEN 0
                                              ELSE IF s \in pinged THEN MissesAfterPing(s)
                                              ELSE missedPongs[s]]
        /\ LocalClose({socket[s] : s \in lost})
        \* A peer answers the latest ping only, so two outstanding ones are enough.
        /\ pings' = [k \in Sockets |-> IF k \in pingedSockets /\ pings[k] < 2
                                       THEN pings[k] + 1 ELSE pings[k]]
        /\ UNCHANGED <<claimedId, preClaimTimer, admittedBy, linkVars>>

\* Half-open connection: nothing arrives from the peer any more.
FallSilent(k) ==
    /\ conn[k] = "open"
    /\ conn' = [conn EXCEPT ![k] = "silent"]
    /\ UNCHANGED <<claimedId, preClaimTimer, admittedBy, pings,
                   linkVars, sessionVars, busVars>>

\* Defect: any socket of the session suspends it, the replaced one included.
LostBySocketOfSession(k) == {s \in Sessions : s = claimedId[k] /\ state[s] = "active"}

\* Defect: only the socket of the claim has a 'close' listener.
LostByFirstSocket(k) ==
    {s \in Sessions : s = claimedId[k] /\ socket[s] = k /\ admittedBy[k] = 0}

\* The session whose current socket k is: session.socket === socket.
LostBy(k) == {s \in Sessions : s = claimedId[k] /\ socket[s] = k}

\* 'close': the peer closed an open socket, or a local close completed.
SocketCloses(k) ==
    /\ conn[k] \in {"open", "closing"}
    /\ Suspend(LostBy(k))
    /\ missedPongs' = [s \in Sessions |-> IF s \in LostBy(k) THEN 0 ELSE missedPongs[s]]
    /\ conn' = [conn EXCEPT ![k] = "free"]
    /\ claimedId' = [claimedId EXCEPT ![k] = NoSession]
    /\ preClaimTimer' = [preClaimTimer EXCEPT ![k] = FALSE]
    /\ admittedBy' = [admittedBy EXCEPT ![k] = 0]
    /\ pings' = [pings EXCEPT ![k] = 0]
    /\ UNCHANGED linkVars

GraceExpires(s) ==
    /\ graceTimer[s]
    /\ state[s] = "suspended"
    /\ Forget({s})
    /\ Emit({s}, "session_expired")
    /\ UNCHANGED <<linkVars, connVars>>
-------------------------------------------------------------------------------
(***************************************************************************)
(* sessions.revoke and the end of the process.                             *)
(***************************************************************************)
\* Defect: the link is discarded like one that nobody announces.
RevokeLinkUnannounced(s) ==
    /\ s \notin Live
    /\ HasLink(s)
    /\ RemoveLink(s)
    /\ Drop(s)
    /\ UNCHANGED <<minted, sessionVars, connVars>>

\* A pending link is revoked by its id only.
RevokeLink(s) ==
    /\ s \notin Live
    /\ HasLink(s)
    /\ RemoveLink(s)
    /\ Emit({s}, "session_revoked")
    /\ UNCHANGED <<minted, sessionVars, connVars>>

RevokeSession(selector) ==
    \E s \in ResolveSession(selector) :
        /\ LocalClose({socket[s]})
        /\ Forget({s})
        /\ Emit({s}, "session_revoked")
        /\ UNCHANGED <<linkVars, claimedId, preClaimTimer, admittedBy, pings>>

\* Shutdown (disposeAll, then the listener terminates its clients) or a crash,
\* and a new daemon: nothing of the engine is on disk.
Restart ==
    /\ linkTimer' = [s \in Sessions |-> "none"]
    /\ pastTtl' = [s \in Sessions |-> FALSE]
    /\ attempts' = [s \in Sessions |-> 0]
    /\ Forget(Sessions)
    /\ conn' = [k \in Sockets |-> "free"]
    /\ claimedId' = [k \in Sockets |-> NoSession]
    /\ preClaimTimer' = [k \in Sockets |-> FALSE]
    /\ admittedBy' = [k \in Sockets |-> 0]
    /\ pings' = [k \in Sockets |-> 0]
    /\ lastEvent' = [s \in Sessions |-> "none"]
    /\ retained' = [s \in Sessions |-> FALSE]
    /\ UNCHANGED minted
-------------------------------------------------------------------------------
LinkStep ==
    \E s \in Sessions :
        \/ CreateLink(s)
        \/ ClockPassesTtl(s)
        \/ TtlTimerFires(s)
        \/ FreeTimerFires(s)

HandshakeStep ==
    \E k \in Sockets, s \in Sessions :
        \/ ClaimWithoutLink(k, s)
        \/ ClaimExpiredLink(k, s)
        \/ ClaimBadToken(k, s)
        \/ \E base \in Slugs : ClaimAccepted(k, s, base)
        \/ \E token \in 1..MaxTokens : ResumeRejected(k, s, token)
        \/ \E token \in 1..MaxTokens : ResumeAccepted(k, s, token)

SocketStep ==
    \E k \in Sockets :
        \/ Connect(k)
        \/ PreClaimTimeout(k)
        \/ RejectFrame(k)
        \/ FrameForDeadSession(k)
        \/ SendFails(k)
        \/ Pong(k)
        \/ FallSilent(k)
        \/ SocketCloses(k)

OperatorStep ==
    \/ \E s \in Sessions : RevokeLink(s)
    \/ \E selector \in Sessions \union Aliases \union {NoSelector} : RevokeSession(selector)
    \/ Restart

Next ==
    \/ LinkStep
    \/ HandshakeStep
    \/ SocketStep
    \/ KeepaliveTick
    \/ \E s \in Sessions : GraceExpires(s)
    \/ OperatorStep

Spec == Init /\ [][Next]_vars

(***************************************************************************)
(* Node's timers fire, and a socket closed on this side emits 'close' at   *)
(* the latest when ws gives up on the close handshake.  Nothing is assumed *)
(* of apps, of the network or of the operator.                             *)
(***************************************************************************)
Fairness ==
    /\ \A s \in Sessions :
        /\ WF_vars(ClockPassesTtl(s))
        /\ WF_vars(TtlTimerFires(s))
        /\ WF_vars(FreeTimerFires(s))
        /\ WF_vars(GraceExpires(s))
    /\ \A k \in Sockets :
        /\ WF_vars(PreClaimTimeout(k))
        /\ WF_vars(SocketCloses(k) /\ conn[k] = "closing")
    /\ WF_vars(KeepaliveTick)

FairSpec == Spec /\ Fairness
-------------------------------------------------------------------------------
(***************************************************************************)
(* Properties.                                                             *)
(***************************************************************************)
\* Every variable has its type; a link that exists has failures to spare
\* (the failure that reaches the limit discards it).
TypeOK ==
    /\ minted \in [Sessions -> BOOLEAN]
    /\ linkTimer \in [Sessions -> LinkTimers]
    /\ pastTtl \in [Sessions -> BOOLEAN]
    /\ attempts \in [Sessions -> 0..(MaxAttempts - 1)]
    /\ state \in [Sessions -> SessionStates]
    /\ socket \in [Sessions -> Sockets \union {NoSocket}]
    /\ graceTimer \in [Sessions -> BOOLEAN]
    /\ resumeToken \in [Sessions -> 0..MaxTokens]
    /\ missedPongs \in [Sessions -> 0..2]
    /\ alias \in [Sessions -> Aliases \union {NoAlias}]
    /\ conn \in [Sockets -> ConnStates]
    /\ claimedId \in [Sockets -> Sessions \union {NoSession}]
    /\ preClaimTimer \in [Sockets -> BOOLEAN]
    /\ admittedBy \in [Sockets -> 0..MaxTokens]
    /\ pings \in [Sockets -> 0..2]
    /\ lastEvent \in [Sessions -> EventKinds]
    /\ retained \in [Sessions -> BOOLEAN]

\* A link token works once: as soon as its session is live, or was, there is
\* no record left that another claim could consume.
LinkSingleUse ==
    \A s \in Sessions : HasLink(s) =>
        /\ minted[s]
        /\ s \notin Live
        /\ \A k \in Sockets : claimedId[k] # s

\* A live session's alias is a name of its own, so a selector never names two
\* sessions, a suspended one that comes back included.
AliasUnique ==
    \A s, t \in Live : alias[s] = alias[t] => s = t

\* No credential lets two sockets in: a resume token that was presented once is
\* worthless to a second connection, even while the first one is still closing.
OneSocketPerToken ==
    \A j, k \in Sockets :
        j # k /\ claimedId[j] # NoSession /\ claimedId[j] = claimedId[k]
            => admittedBy[j] # admittedBy[k]

\* A session is active exactly when it has a socket, that socket was admitted
\* for it and has not closed, and its grace timer is not armed.
ActiveHasSocket ==
    \A s \in Sessions :
        /\ state[s] = "active" <=> socket[s] # NoSocket
        /\ state[s] = "active" => /\ claimedId[socket[s]] = s
                                  /\ conn[socket[s]] # "free"

\* The grace timer is armed exactly for suspended sessions: none waits for
\* ever, and no timer of an earlier suspension is left to expire a session
\* that resumed.
GraceTimerIffSuspended ==
    \A s \in Sessions : graceTimer[s] <=> state[s] = "suspended"

\* The pongs a session is charged with missing are pongs of its present socket:
\* it never goes down for the silence of a socket that it replaced.
PongsAreOfThisSocket ==
    \A s \in Sessions : state[s] = "active" => missedPongs[s] <= pings[socket[s]]

\* Who follows the event stream knows the state of every session, and of a link
\* that exists whether its expiry was announced.  The converse does not hold of
\* links, some of which end without an event (LinkEndTold).
EventsTellState ==
    \A s \in Sessions :
        /\ state[s] = "active" <=> lastEvent[s] \in {"session_claimed", "session_resumed"}
        /\ state[s] = "suspended" <=> lastEvent[s] = "session_suspended"
        /\ linkTimer[s] = "ttl" => lastEvent[s] = "link_created"
        /\ linkTimer[s] = "free" => lastEvent[s] = "link_expired"

\* A link ends untold in two cases only, a claim that finds it expired before the
\* timer that announces it has fired, and the failed claim that reaches the limit
\* of attempts.  Otherwise its end is an event, or its expiry has been announced.
\* (A new daemon, which has no links, has said nothing yet.)
LinkEndTold ==
    [][\A s \in Sessions : HasLink(s) /\ ~HasLink(s)' =>
        \/ lastEvent'[s] \in {"session_claimed", "session_revoked", "none"}
        \/ lastEvent[s] = "link_expired"
        \/ linkTimer[s] = "ttl" /\ pastTtl[s]
        \/ AttemptsExhausted(attempts[s] + 1)]_vars

\* PROTOCOL.md, on the event link_expired: "a pending link's TTL elapsed with no
\* claim".  Does not hold: the claim that comes after the TTL and before its timer
\* discards the record, and the timer with it (sessions.ts handleClaim).
ExpiryAnnounced ==
    [][\A s \in Sessions : HasLink(s) /\ pastTtl[s] /\ ~HasLink(s)' =>
        lastEvent'[s] \in {"link_expired", "session_revoked", "none"}]_vars

\* As far as the engine's own events go, the event bus retains history for a
\* pending link or a live session and for nothing else: each of the many ways an
\* id can end, announced or silent, drops it.  (ToolCalls adds the events of
\* calls, which come later.)
HistoryOnlyForLive ==
    \A s \in Sessions : retained[s] <=> (HasLink(s) \/ s \in Live)

\* A session is suspended only when the socket it was using is lost, never
\* because another socket, replaced long ago, finally closed.
SuspendOnlyOnLoss ==
    [][\A s \in Sessions :
        state[s] = "active" /\ state'[s] = "suspended"
            => conn'[socket[s]] \in {"closing", "free"}]_vars

\* The engine implements the life of a session id.
Phase(s) ==
    CASE HasLink(s) -> "pending"
      [] s \in Live -> state[s]
      [] ~minted[s] -> "unminted"
      [] OTHER -> "over"

Promise == INSTANCE SessionLifecycle WITH
    phase <- [s \in Sessions |-> Phase(s)],
    holder <- socket

RefinesLifecycle == Promise!Lifecycle

\* A suspended session does not stay suspended: it resumes, expires or is revoked.
SuspensionEnds ==
    \A s \in Sessions : state[s] = "suspended" ~> state[s] # "suspended"

\* A pending link goes away even if nobody ever touches it.
LinkEnds ==
    \A s \in Sessions : HasLink(s) ~> ~HasLink(s)

\* An app that vanished without closing its socket does not keep a session
\* active: keepalive notices.
SilentPeerNoticed ==
    \A s \in Sessions, k \in Sockets :
        (socket[s] = k /\ conn[k] = "silent") ~> socket[s] # k

\* A connection that claims nothing does not hold its socket for ever.
UnclaimedSocketCloses ==
    \A k \in Sockets :
        (conn[k] = "open" /\ Unclaimed(k)) ~> (conn[k] = "free" \/ ~Unclaimed(k))
===============================================================================
