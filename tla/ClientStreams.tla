----------------------------- MODULE ClientStreams -----------------------------
(***************************************************************************)
(* Clients of the daemon that wait for something on a stream of their own  *)
(* (rpc/client.ts openDaemonStream), with the event bus and its retention  *)
(* on the other end: wait_for_event and wait_for_session of the MCP server, *)
(* waitForEvent, waitForSession and events of the test client, and the     *)
(* events command.  All of them piece together what has happened already,  *)
(* which they ask for, and what happens from now on, which they are sent.  *)
(* One client and one session are enough: clients share nothing.           *)
(***************************************************************************)
EXTENDS Naturals, Sequences, FiniteSets, SequencesExt, FiniteSetsExt

CONSTANTS
    Roles,          \* the clients to consider
    RingSize,       \* eventBufferSize
    PageSize,       \* the limit the pager asks for
    MaxCursor,      \* bound: events of the session
    Nothing         \* no answer, no outcome

EventRoles == {"event tool", "event client"}
SessionRoles == {"session tool", "session client"}

\* Kinds of events of the session: two app_events, of which one is waited for,
\* tool_call_progress, which is not retained, and any other.
AppKinds == {"wanted", "unwanted"}
Kinds == AppKinds \union {"tick", "other"}
Events == [seq : 1..MaxCursor + 1, kind : Kinds \union {"claimed", "over"}]
Numbers == 0..MaxCursor + 1

\* Assumed of the constants.
StreamAssumption ==
    /\ Roles \subseteq EventRoles \union SessionRoles \union {"pager", "events command"}
    /\ {RingSize, PageSize, MaxCursor} \subseteq Nat \ {0}
    /\ Nothing \notin {"event", "claimed", "timeout", "failed"}
    /\ Nothing \notin [is : {"answer"}, ok : BOOLEAN, page : [events : SUBSET Events, cursor : Numbers]]

VARIABLES
    role,
    session,        \* "pending" as a link, "live" once claimed, or "over"
    cursor,         \* the seq of its last event
    ring,           \* what is retained of them
    subscribed,     \* events.subscribe was served on this connection
    asked,          \* a request the daemon has not served
    wire,           \* answers and events on their way to the client
    since,          \* the cursor the caller starts from
    step,           \* which request of its script the client is at
    answer,         \* an answer that is read and whose continuation has not run
    midChunk,       \* more of the chunk may be read before it runs
    early,          \* earlyEvents
    highest,        \* highestConsideredSeq
    timer,          \* the client's own timeout is armed
    outcome,        \* how the wait ended
    got,            \* the events the caller has been given
    due             \* the events it must be given (a history variable)

busVars == <<session, cursor, ring>>
lineVars == <<subscribed, asked, wire>>
clientVars == <<role, since, step, answer, midChunk, early, highest, timer, outcome, got>>
streamVars == <<busVars, lineVars, clientVars, due>>

-----------------------------------------------------------------------------
(* The clients' scripts: the requests each makes before it merely waits.   *)

\* A variant of wait_for_session that does not catch up after it subscribed.
ScriptCatchesUpFirst ==
    CASE role = "event tool"     -> <<"describe", "subscribe", "since">>
      [] role = "event client"   -> <<"subscribe", "since">>
      [] role = "session tool"   -> <<"describe", "subscribe">>
      [] role = "session client" -> <<"describe", "subscribe">>
      [] role = "pager"          -> <<"since">>
      [] role = "events command" -> <<"subscribe">>

Script == CASE role = "event tool"     -> <<"describe", "subscribe", "since">>
            [] role = "event client"   -> <<"subscribe", "since">>
            [] role = "session tool"   -> <<"subscribe", "describe">>
            [] role = "session client" -> <<"describe", "subscribe">>
            [] role = "pager"          -> <<"since">>
            [] role = "events command" -> <<"subscribe">>

Waiting == step > Len(Script)
AtRequest(what) == step \in 1..Len(Script) /\ Script[step] = what

\* What events.subscribe is asked to send to each.
Hears(kind) == CASE role \in EventRoles   -> kind \in AppKinds
                 [] role \in SessionRoles -> kind = "claimed"
                 [] OTHER                 -> TRUE

\* Its listener is there before it subscribes, but for one.
Listening == IF role = "events command" THEN Waiting ELSE TRUE

StreamInit ==
    /\ role \in Roles
    /\ session \in {"pending", "live"}
    /\ cursor = 0 /\ ring = <<>>
    /\ subscribed = FALSE /\ asked = FALSE /\ wire = <<>>
    /\ since = 0
    /\ step = 0
    /\ answer = Nothing /\ midChunk = FALSE
    /\ early = {} /\ highest = 0
    /\ timer = FALSE
    /\ outcome = Nothing
    /\ got = {} /\ due = {}

-----------------------------------------------------------------------------
(* The daemon: event-bus.ts and the handlers that read it.                 *)

\* While a continuation is due nothing reaches the client; when it has ended
\* nothing matters any more.
Undisturbed == answer = Nothing /\ outcome = Nothing

\* A variant that makes room only when the ring is beyond its size.
RetainedOneMore(e) ==
    IF e.kind = "tick" THEN ring
    ELSE IF Len(ring) > RingSize THEN Append(Tail(ring), e) ELSE Append(ring, e)

Retained(e) ==
    IF e.kind = "tick" THEN ring
    ELSE LET all == Append(ring, e)
         IN IF Len(all) > RingSize THEN Tail(all) ELSE all

\* emit: a number, the ring, and the fan-out to the connection.
Emit(kind) ==
    LET e == [seq |-> cursor + 1, kind |-> kind]
    IN /\ cursor < MaxCursor
       /\ cursor' = e.seq
       /\ ring' = Retained(e)
       /\ wire' = IF subscribed /\ Hears(kind) THEN Append(wire, [is |-> "event", event |-> e])
                  ELSE wire
       /\ due' = IF subscribed /\ (role = "events command" \/ kind = "wanted")
                 THEN due \union {e.seq} ELSE due

Happens(kind) ==
    /\ Undisturbed
    /\ session = "live" /\ kind \in Kinds
    /\ Emit(kind)
    /\ UNCHANGED <<session, subscribed, asked, clientVars>>

Claimed ==
    /\ Undisturbed
    /\ session = "pending"
    /\ session' = "live"
    /\ Emit("claimed")
    /\ UNCHANGED <<subscribed, asked, clientVars>>

\* session_revoked or session_expired: the terminal event is sent, the ring is
\* discarded and the numbers begin anew.
Over ==
    /\ Undisturbed
    /\ session = "live"
    /\ session' = "over"
    /\ cursor' = 0 /\ ring' = <<>>
    /\ wire' = IF subscribed /\ Hears("over")
               THEN Append(wire, [is |-> "event", event |-> [seq |-> cursor + 1, kind |-> "over"]])
               ELSE wire
    /\ due' = IF subscribed /\ role = "events command" THEN due \union {cursor + 1} ELSE due
    /\ UNCHANGED <<subscribed, asked, clientVars>>

\* A page is a set of events: their numbers are their order.
Oldest(S) == CHOOSE e \in S : \A d \in S : e.seq <= d.seq
Newest(S) == CHOOSE e \in S : \A d \in S : d.seq <= e.seq

\* A variant that keeps the newest when a page is too small.
NewestFirst(S, n) == {e \in S : Cardinality({d \in S : d.seq > e.seq}) < n}
OldestFirst(S, n) == {e \in S : Cardinality({d \in S : d.seq < e.seq}) < n}

\* since(): the retained app_events beyond a cursor, the oldest of them if there
\* is a limit, which only the pager gives, and the cursor to go on from.
Since(from) ==
    LET events == {e \in ToSet(ring) : e.seq > from /\ e.kind \in AppKinds}
        page   == IF role = "pager" THEN OldestFirst(events, PageSize) ELSE events
    IN [events |-> page, cursor |-> IF page # {} THEN Newest(page).seq ELSE cursor]

NoPage == [events |-> {}, cursor |-> 0]
Reply(ok, page) == [is |-> "answer", ok |-> ok, page |-> page]

Send(m) == wire' = Append(wire, m) /\ asked' = FALSE

ServeDescribe ==
    /\ AtRequest("describe")
    /\ Send(Reply(session = "live", NoPage))
    /\ UNCHANGED <<subscribed, due>>

ServeSubscribe ==
    /\ AtRequest("subscribe")
    /\ subscribed' = TRUE
    /\ Send(Reply(TRUE, NoPage))
    /\ UNCHANGED due

ServeSince ==
    /\ AtRequest("since")
    /\ LET retained == {e.seq : e \in {x \in ToSet(ring) : x.seq > since /\ x.kind = "wanted"}}
       IN IF session = "live"
          THEN Send(Reply(TRUE, Since(since))) /\ due' = due \union retained
          ELSE Send(Reply(FALSE, NoPage)) /\ UNCHANGED due
    /\ UNCHANGED subscribed

ServeStream ==
    /\ Undisturbed
    /\ asked
    /\ ServeDescribe \/ ServeSubscribe \/ ServeSince
    /\ UNCHANGED <<busVars, clientVars>>

-----------------------------------------------------------------------------
(* The client. *)

ClientAsks == asked' = TRUE
Settle(how) == outcome' = how /\ timer' = FALSE

\* The stream is open; a caller that passes a cursor has it from earlier, and
\* was given what came before it.
Begin ==
    /\ step = 0
    /\ step' = 1
    /\ since' \in 0..cursor
    /\ timer' = (role \in {"event client", "session tool"})
    /\ got' = IF role = "pager" THEN 1..since' ELSE {}
    /\ ClientAsks
    /\ UNCHANGED <<busVars, subscribed, wire, role, answer, midChunk, early, highest, outcome, due>>

MayReadLine == wire # <<>> /\ outcome = Nothing /\ (midChunk \/ answer = Nothing)

HearAnswerLine ==
    /\ MayReadLine
    /\ Head(wire).is = "answer"
    /\ answer' = Head(wire)
    /\ midChunk' = TRUE
    /\ wire' = Tail(wire)
    /\ UNCHANGED <<busVars, subscribed, asked, role, since, step, early, highest, timer, outcome,
                   got, due>>

\* A variant in which the listener is added when the answer has been awaited.
KeepEarlyUnlessAnswered(e) == early' = IF answer = Nothing THEN early \union {e} ELSE early
KeepEarly(e) == early' = early \union {e}

HearLine ==
    /\ MayReadLine
    /\ Head(wire).is = "event"
    /\ wire' = Tail(wire)
    /\ LET e == Head(wire).event
       IN \/ /\ ~Listening \/ role = "pager"
             /\ UNCHANGED <<early, timer, outcome, got>>
          \/ /\ role = "events command" /\ Listening
             /\ got' = got \union {e.seq}
             /\ UNCHANGED <<early, timer, outcome>>
          \/ /\ role \in SessionRoles
             /\ Settle("claimed")
             /\ UNCHANGED <<early, got>>
          \/ /\ role \in EventRoles /\ ~Waiting
             /\ KeepEarly(e)
             /\ UNCHANGED <<timer, outcome, got>>
          \/ /\ role \in EventRoles /\ Waiting
             /\ IF e.seq > highest /\ e.kind = "wanted"
                THEN Settle("event") /\ got' = {e.seq}
                ELSE UNCHANGED <<timer, outcome, got>>
             /\ UNCHANGED early
    /\ UNCHANGED <<busVars, subscribed, asked, role, since, step, answer, midChunk, highest, due>>

\* Both sources, in the order of their numbers.
Backlog == answer.page.events \union early

\* After the last request of an event role: what has happened already decides,
\* or the wait begins.
Scan ==
    LET wanted == {e \in Backlog : e.kind = "wanted"}
    IN IF wanted # {}
       THEN Settle("event") /\ got' = {Oldest(wanted).seq} /\ UNCHANGED highest
       ELSE /\ highest' = IF Backlog # {} THEN Newest(Backlog).seq ELSE answer.page.cursor
            /\ timer' = TRUE
            /\ UNCHANGED <<outcome, got>>

\* The continuation of a request that succeeded.
GoOn ==
    /\ answer # Nothing /\ answer.ok
    /\ answer' = Nothing /\ midChunk' = FALSE
    /\ \/ /\ role \in SessionRoles /\ AtRequest("describe")
          /\ Settle("claimed")
          /\ UNCHANGED <<asked, since, step, highest, got>>
       \/ /\ ~(role \in SessionRoles /\ AtRequest("describe")) /\ step < Len(Script)
          /\ step' = step + 1
          /\ ClientAsks
          /\ UNCHANGED <<since, highest, timer, outcome, got>>
       \/ /\ role \in EventRoles /\ AtRequest("since")
          /\ step' = step + 1
          /\ Scan
          /\ UNCHANGED <<asked, since>>
       \/ /\ step = Len(Script) /\ AtRequest("subscribe")
          /\ step' = step + 1
          /\ UNCHANGED <<asked, since, highest, timer, outcome, got>>
       \/ /\ role = "pager"
          /\ got' = got \union {e.seq : e \in answer.page.events}
          /\ since' = answer.page.cursor
          /\ ClientAsks
          /\ UNCHANGED <<step, highest, timer, outcome>>
    /\ UNCHANGED <<busVars, subscribed, wire, role, early, due>>

\* A variant that arms no timer before it waits.
UnclaimedUntimed ==
    /\ answer # Nothing /\ ~answer.ok
    /\ role \in SessionRoles
    /\ answer' = Nothing /\ midChunk' = FALSE
    /\ step' = step + 1
    /\ asked' = (step < Len(Script))
    /\ UNCHANGED <<busVars, subscribed, wire, role, since, early, highest, timer, outcome, got, due>>

\* Of one that failed: unknown_session is what the wait for a session expects.
Unclaimed ==
    /\ answer # Nothing /\ ~answer.ok
    /\ role \in SessionRoles
    /\ answer' = Nothing /\ midChunk' = FALSE
    /\ step' = step + 1
    /\ timer' = TRUE
    /\ asked' = (step < Len(Script))
    /\ UNCHANGED <<busVars, subscribed, wire, role, since, early, highest, outcome, got, due>>

Refused ==
    /\ answer # Nothing /\ ~answer.ok
    /\ role \notin SessionRoles
    /\ answer' = Nothing /\ midChunk' = FALSE
    /\ Settle("failed")
    /\ UNCHANGED <<busVars, lineVars, role, since, step, early, highest, got, due>>

\* The client's own timeout.
TimesOut ==
    /\ Undisturbed /\ timer
    /\ Settle("timeout")
    /\ UNCHANGED <<busVars, lineVars, role, since, step, answer, midChunk, early, highest, got, due>>

\* The stream's time limit for one request; its answer would find nobody.
RequestTimesOut ==
    /\ Undisturbed /\ step \in 1..Len(Script)
    /\ Settle("failed")
    /\ UNCHANGED <<busVars, lineVars, role, since, step, answer, midChunk, early, highest, got, due>>

\* The daemon ends, or drops a reader that is too slow (notify): what is pending
\* rejects, and whoever waits is told by onClose.
StreamLost ==
    /\ Undisturbed /\ step > 0
    /\ Settle("failed")
    /\ wire' = <<>> /\ asked' = FALSE /\ subscribed' = FALSE
    /\ UNCHANGED <<busVars, role, since, step, answer, midChunk, early, highest, got, due>>

ClientSteps == HearAnswerLine \/ HearLine \/ GoOn \/ Unclaimed \/ Refused

StreamNext ==
    \/ \E kind \in Kinds : Happens(kind)
    \/ Claimed \/ Over
    \/ ServeStream
    \/ Begin
    \/ ClientSteps
    \/ TimesOut \/ RequestTimesOut \/ StreamLost

StreamSpec == StreamInit /\ [][StreamNext]_streamVars

\* The client's process runs, and its timers fire; nothing is asked of the daemon.
StreamFairness ==
    WF_streamVars(ClientSteps) /\ WF_streamVars(TimesOut) /\ WF_streamVars(RequestTimesOut)

FairStreamSpec == StreamSpec /\ StreamFairness

-----------------------------------------------------------------------------
(* Properties. *)

StreamTypeOK ==
    /\ role \in Roles
    /\ session \in {"pending", "live", "over"}
    /\ cursor \in 0..MaxCursor
    /\ Len(ring) <= RingSize
    /\ \A i \in 1..Len(ring) : ring[i] \in Events /\ ring[i].seq <= cursor
    /\ \A i, k \in 1..Len(ring) : i < k => ring[i].seq < ring[k].seq
    /\ {subscribed, asked, midChunk, timer} \subseteq BOOLEAN
    /\ step \in 0..Len(Script) + 1
    /\ early \subseteq Events
    /\ {since, highest} \subseteq Numbers
    /\ outcome \in {Nothing, "event", "claimed", "timeout", "failed"}
    /\ got \subseteq Numbers /\ due \subseteq Numbers
    \* A request is under way exactly while the script is not through.
    /\ outcome = Nothing =>
          Cardinality({i \in 1..Len(wire) : wire[i].is = "answer"})
          + (IF asked THEN 1 ELSE 0) + (IF answer # Nothing THEN 1 ELSE 0)
          = IF step \in 1..Len(Script) THEN 1 ELSE 0

Quiescent == outcome = Nothing /\ wire = <<>> /\ answer = Nothing

\* waitForEvent and wait_for_event give their caller the oldest event that was
\* there to be given, retained when they asked or sent since they subscribed,
\* although the two sources overlap and arrive in either order.
FirstDueWins == role \in EventRoles /\ outcome = "event" => got = {Min(due)}

\* And once they merely wait, with nothing on its way, there was none: an event
\* that came with the answer to events.since, in the same chunk, was not lost.
NoEventMissed == role \in EventRoles /\ Quiescent /\ Waiting => due = {}

ClaimNoticedBy(r) == role = r /\ Quiescent /\ Waiting => session # "live"

\* A wait_for_session that still waits, with nothing on its way, waits for a
\* claim that has not happened: one before it began, or between its requests, is
\* not missed.
ToolSeesClaim == ClaimNoticedBy("session tool")

\* The same of waitForSession: "resolves immediately if it's already claimed"
\* (client/bootstrap.ts).
\* The code does not keep this: README, section 10.
ClientSeesClaim == ClaimNoticedBy("session client")

\* Whoever pages with since, limit and the returned cursor is given every event
\* of the kinds it asked for that is still retained, whatever else takes numbers
\* in between or is evicted.
PagerSkipsNothing ==
    role = "pager" /\ outcome = Nothing =>
        \A e \in ToSet(ring) : e.kind \in AppKinds /\ e.seq <= since => e.seq \in got

\* client/app-client.ts:73 of that cursor: "The highest `seq` currently retained for this
\* session (not just among the returned events)". A pager that was given that one would skip
\* what its limit cut off.
\* The code does not keep this: README, section 10.
CursorIsNewestRetained ==
    asked /\ AtRequest("since") /\ session = "live" =>
        \A e \in ToSet(ring) : e.seq <= Since(since).cursor

\* commands/events.ts: "each event is written as it arrives".
\* The code does not keep this: README, section 10.
EveryEventWritten == role = "events command" /\ Quiescent /\ Waiting => due \subseteq got

\* Every wait ends, whatever the daemon does: there is no stage at which neither
\* the client's own timeout nor that of a request is running.
Settles == (step > 0 /\ role \in EventRoles \union SessionRoles) ~> outcome # Nothing

\* Waiting as a whole: a waiting client's answer is the first event that was due to it,
\* and one that came while it subscribed or drained the buffer is not lost.
StreamsSound == StreamTypeOK /\ FirstDueWins /\ NoEventMissed /\ ToolSeesClaim
===============================================================================
