------------------------------- MODULE McpTools -------------------------------
(***************************************************************************)
(* The MCP server (mcp/server.ts) as a proxy of the daemon's tools: the    *)
(* listing an agent asks for, the list_changed it is sent, and a call with *)
(* the consent that a "prompt" policy asks of a human.  The server and the *)
(* daemon are two processes with one connection between them, on which     *)
(* requests, answers and events travel in order.  Sessions go by their     *)
(* aliases, as they do in every request made here, and one tool name is    *)
(* enough: what may go wrong is which session, and which version of the    *)
(* tool, the name stands for by the time it is used.                       *)
(***************************************************************************)
EXTENDS Naturals, Sequences, FiniteSets, SequencesExt

CONSTANTS
    Aliases,           \* what sessions are called; free again when one is over
    Jobs,              \* requests and refreshes the server may be busy with
    Starts,            \* what the daemon may have when the server starts
    Override,          \* policy.tools: [Aliases -> Decisions \union {NoOverride}]
    PolicyDefault,     \* policy.default
    PolicyDestructive, \* policy.destructive
    MaxChanges,        \* bound: how often the daemon's tools change, or requests time out
    NoOverride, NoTool, Bare

Decisions == {"allow", "prompt", "deny"}
Descriptors == {"plain", "destructive"}
Channels == {"elicitation", "flag", "none"}

\* An entry of a listing; a listing is kept as <<entries>>, or there is none yet.
Entry == [name : Aliases \union {Bare}, selector : Aliases, tool : Descriptors,
          policy : Decisions]
NoListing == <<>>

\* Assumed of the constants.
McpAssumption ==
    /\ \A start \in Starts :
        /\ start.live \in Seq(Aliases) /\ IsInjective(start.live)
        /\ start.tool \in [Aliases -> Descriptors \union {NoTool}]
        /\ \A a \in Aliases \ ToSet(start.live) : start.tool[a] = NoTool
    /\ Override \in [Aliases -> Decisions \union {NoOverride}]
    /\ {PolicyDefault, PolicyDestructive} \subseteq Decisions
    /\ NoOverride \notin Decisions
    /\ NoTool \notin Descriptors
    /\ Bare \notin Aliases
    /\ MaxChanges \in Nat

VARIABLES
    live,           \* the daemon's sessions by alias, in the order of their claims
    tool,           \* the registered tool of each
    suspended,      \* sessions without a socket
    changes,        \* how often any of this has changed or a request was given up
    requests,       \* from the server to the daemon
    replies,        \* from the daemon: answers and events
    open,           \* the server's one connection to the daemon
    jobs,           \* what the server is busy with
    woken,          \* jobs whose answer is read and whose continuation has not run
    reading,        \* more of the chunk that woke them may be read before they run
    older,          \* the refreshes under way that began before each of them
    overtaken,      \* those of them than which a younger one was done earlier
    keyBehind,      \* history: the last one that was done had been overtaken, or one failed
                    \* since that no younger one made good
    lastKey,        \* lastSnapshotKey
    emitted,        \* emittedRequiresUserInteraction
    channel,        \* the consent channel the MCP client offers
    listing,        \* the last listing the agent was given
    notified,       \* list_changed was sent since the agent last asked for one
    ran             \* the last call that reached an app, with what it rested on

daemonVars == <<live, tool, suspended, changes>>
wireVars == <<requests, replies, open>>
refreshVars == <<older, overtaken, keyBehind>>
serverVars == <<jobs, woken, reading, refreshVars, lastKey, emitted>>
agentVars == <<channel, listing, notified, ran>>
mcpVars == <<daemonVars, wireVars, serverVars, agentVars>>

-----------------------------------------------------------------------------
(* Tools and their names. *)

LiveSet == {live[i] : i \in 1..Len(live)}

\* evaluate: an override wins, then the hint of the tool, then the default.
PolicyOf(a, d) ==
    IF Override[a] # NoOverride THEN Override[a]
    ELSE IF d = "destructive" THEN PolicyDestructive ELSE PolicyDefault

\* tools.list of one session; of one that is over, an error, taken for no tools.
ToolsOf(a) == [selector |-> a, tool |-> IF a \in LiveSet THEN tool[a] ELSE NoTool]

\* buildNamespacedTools, over what was fetched for each alias that was listed.
Namespaced(fetched) ==
    {[name     |-> IF Len(fetched) > 1 THEN fetched[i].selector ELSE Bare,
      selector |-> fetched[i].selector,
      tool     |-> fetched[i].tool,
      policy   |-> PolicyOf(fetched[i].selector, fetched[i].tool)] :
        i \in {k \in 1..Len(fetched) : fetched[k].tool # NoTool}}

\* What a listing would say at this moment.
Current == Namespaced([i \in 1..Len(live) |-> ToolsOf(live[i])])

\* The names a listing marks with requiresUserInteraction, for this client.
Flagged(entries) == {e.name : e \in {x \in entries : channel = "flag" /\ x.policy = "prompt"}}

Idle == [doing |-> "nothing", step |-> "idle", listed |-> <<>>, fetched |-> <<>>,
         wanted |-> Bare]
Started(doing, wanted) ==
    [Idle EXCEPT !.doing = doing, !.step = "sessions", !.wanted = wanted]

\* What has timed out: the answer, when it comes after all, is nobody's.
Late == [Idle EXCEPT !.step = "late"]

IdleJobs == {j \in Jobs : jobs[j] = Idle}
Refreshing == {j \in Jobs : jobs[j].doing = "refresh"}

Event == [says |-> "event"]
Asks(j, what, alias, consent, shown) ==
    [job |-> j, asks |-> what, of |-> alias, consent |-> consent, shown |-> shown]
AskSessions(j) == Asks(j, "sessions", Bare, "none", {})

\* Bound: n more events are sent only while there are jobs to handle them all.
Room(n) ==
    Cardinality({i \in 1..Len(replies) : replies[i] = Event}) + n <= Cardinality(IdleJobs)

McpInit ==
    /\ \E start \in Starts : live = start.live /\ tool = start.tool
    /\ suspended = {}
    /\ changes = 0
    /\ \E j \in Jobs :
        /\ jobs = [i \in Jobs |-> IF i = j THEN Started("refresh", Bare) ELSE Idle]
        /\ requests = <<AskSessions(j)>>
    /\ older = [j \in Jobs |-> {}]
    /\ overtaken = {} /\ keyBehind = FALSE
    /\ replies = <<>> /\ open = TRUE
    /\ woken = <<>> /\ reading = FALSE
    /\ lastKey = NoListing
    /\ emitted = {}
    /\ channel \in Channels
    /\ listing = NoListing
    /\ notified = FALSE
    /\ ran = {}

-----------------------------------------------------------------------------
(* What changes the daemon's tools; each change is announced by an event.  *)

Announce(n) ==
    /\ woken = <<>> /\ Room(n)
    /\ changes < MaxChanges /\ changes' = changes + 1
    /\ replies' = IF open THEN replies \o [i \in 1..n |-> Event] ELSE replies
    /\ UNCHANGED <<requests, open, serverVars, agentVars>>

Claim(a) ==
    /\ a \notin LiveSet
    /\ live' = Append(live, a)
    /\ Announce(1)
    /\ UNCHANGED <<tool, suspended>>

\* A snapshot or an upsert: onChange fires whether or not anything differs.
Upsert(a, d) ==
    /\ a \in LiveSet \ suspended
    /\ tool' = [tool EXCEPT ![a] = d]
    /\ Announce(1)
    /\ UNCHANGED <<live, suspended>>

\* A delta that removes the tool; onChange fires only if it was there.
RemoveTool(a) ==
    /\ a \in LiveSet \ suspended
    /\ tool[a] # NoTool
    /\ tool' = [tool EXCEPT ![a] = NoTool]
    /\ Announce(1)
    /\ UNCHANGED <<live, suspended>>

\* The socket is lost, or the app is back; the registry is kept.
Blink(a) ==
    /\ a \in LiveSet
    /\ suspended' = IF a \in suspended THEN suspended \ {a} ELSE suspended \union {a}
    /\ Announce(1)
    /\ UNCHANGED <<live, tool>>

\* One session is revoked or expires, or all are revoked in one callback.
End(S) ==
    /\ S # {}
    /\ \/ S = LiveSet /\ live' = <<>>
       \/ \E i \in 1..Len(live) : S = {live[i]} /\ live' = RemoveAt(live, i)
    /\ tool' = [a \in Aliases |-> IF a \in S THEN NoTool ELSE tool[a]]
    /\ suspended' = suspended \ S
    /\ Announce(Cardinality(S))

-----------------------------------------------------------------------------
(* The daemon works off the requests and answers each in the same turn.    *)

\* A variant that leaves the policy to whoever asks.
RunsAsAsked(r) == r.of \in LiveSet \ suspended /\ tool[r.of] # NoTool

\* tools.call: the policy is judged anew, against the tool as it is now.
Runs(r) ==
    /\ r.of \in LiveSet \ suspended
    /\ tool[r.of] # NoTool
    /\ \/ PolicyOf(r.of, tool[r.of]) = "allow"
       \/ PolicyOf(r.of, tool[r.of]) = "prompt" /\ r.consent # "none"

Run(r) == [of |-> r.of, policy |-> PolicyOf(r.of, tool[r.of]),
           consent |-> r.consent, shown |-> r.shown]

Answer(r) ==
    CASE r.asks = "sessions" -> [says |-> "sessions", job |-> r.job, aliases |-> live]
      [] r.asks = "tools" -> [says |-> "tools", job |-> r.job, tools |-> ToolsOf(r.of)]
      [] r.asks = "call" -> [says |-> "result", job |-> r.job]

Serve ==
    /\ woken = <<>>
    /\ requests # <<>>
    /\ requests' = Tail(requests)
    /\ replies' = Append(replies, Answer(Head(requests)))
    /\ ran' = IF Head(requests).asks = "call" /\ Runs(Head(requests))
              THEN {Run(Head(requests))} ELSE ran
    /\ UNCHANGED <<daemonVars, open, serverVars, channel, listing, notified>>

-----------------------------------------------------------------------------
(* The server reads what the daemon wrote.  Listeners run as an event is   *)
(* read; what an answer wakes runs when the chunk is through, and before   *)
(* anything that is not in the chunk can be read: so nothing else happens  *)
(* while woken holds a job.                                                *)

MayRead == open /\ replies # <<>> /\ (reading \/ woken = <<>>)

\* A variant in which a refresh that is under way is taken to see the change.
HearEventOnce ==
    /\ MayRead
    /\ Head(replies) = Event
    /\ IF Refreshing # {}
       THEN UNCHANGED <<jobs, requests, older>>
       ELSE \E j \in IdleJobs :
            /\ jobs' = [jobs EXCEPT ![j] = Started("refresh", Bare)]
            /\ requests' = Append(requests, AskSessions(j))
            /\ older' = [older EXCEPT ![j] = Refreshing]
    /\ replies' = Tail(replies)
    /\ UNCHANGED <<daemonVars, open, woken, reading, overtaken, keyBehind, lastKey, emitted,
                   agentVars>>

HearEvent ==
    /\ MayRead
    /\ Head(replies) = Event
    /\ \E j \in IdleJobs :
        /\ jobs' = [jobs EXCEPT ![j] = Started("refresh", Bare)]
        /\ requests' = Append(requests, AskSessions(j))
        /\ older' = [older EXCEPT ![j] = Refreshing]
    /\ replies' = Tail(replies)
    /\ UNCHANGED <<daemonVars, open, woken, reading, overtaken, keyBehind, lastKey, emitted,
                   agentVars>>

HearAnswer ==
    /\ MayRead
    /\ Head(replies) # Event
    /\ jobs[Head(replies).job] # Late
    /\ LET m == Head(replies)
       IN /\ woken' = Append(woken, m.job)
          /\ jobs' = CASE m.says = "sessions" ->
                            [jobs EXCEPT ![m.job].listed = m.aliases]
                       [] m.says = "tools" ->
                            [jobs EXCEPT ![m.job].fetched = Append(@, m.tools)]
                       [] m.says = "result" -> [jobs EXCEPT ![m.job].step = "done"]
    /\ reading' = TRUE
    /\ replies' = Tail(replies)
    /\ UNCHANGED <<daemonVars, requests, open, refreshVars, lastKey, emitted, agentVars>>

\* No call is pending under the id of a late answer. Bound: a job is used again
\* only then.
HearLate ==
    /\ MayRead
    /\ Head(replies) # Event
    /\ jobs[Head(replies).job] = Late
    /\ jobs' = [jobs EXCEPT ![Head(replies).job] = Idle]
    /\ replies' = Tail(replies)
    /\ ran' = IF Head(replies).says = "result" THEN {} ELSE ran
    /\ UNCHANGED <<daemonVars, requests, open, woken, reading, refreshVars, lastKey, emitted,
                   channel, listing, notified>>

\* Every continuation that is due runs before anything else is read.
Continue(j) == woken # <<>> /\ j = Head(woken) /\ woken' = Tail(woken) /\ reading' = FALSE

Fetched(j) == Len(jobs[j].fetched) = Len(jobs[j].listed)
Entries(j) == Namespaced(jobs[j].fetched)

\* fetchEffectiveTools: one session after the other.
FetchNext(j) ==
    /\ Continue(j)
    /\ jobs[j].step \in {"sessions", "tools"} /\ ~Fetched(j)
    /\ jobs' = [jobs EXCEPT ![j].step = "tools"]
    /\ requests' = Append(requests,
            Asks(j, "tools", jobs[j].listed[Len(jobs[j].fetched) + 1], "none", {}))
    /\ UNCHANGED <<daemonVars, replies, open, refreshVars, lastKey, emitted, agentVars>>

HasFetched(j, what) ==
    /\ Continue(j)
    /\ jobs[j].step \in {"sessions", "tools"} /\ Fetched(j) /\ jobs[j].doing = what

\* refreshAndMaybeNotifyListChanged; the first one only sets the key.
Refreshed(j) ==
    /\ HasFetched(j, "refresh")
    /\ jobs' = [jobs EXCEPT ![j] = Idle]
    /\ older' = [k \in Jobs |-> IF k = j THEN {} ELSE older[k] \ {j}]
    /\ overtaken' = (overtaken \union older[j]) \ {j}
    /\ keyBehind' = (j \in overtaken)
    /\ lastKey' = <<Entries(j)>>
    /\ notified' = (notified \/ (lastKey # NoListing /\ lastKey # <<Entries(j)>>))
    /\ UNCHANGED <<daemonVars, wireVars, emitted, channel, listing, ran>>

\* The tools/list handler: what is flagged is what this listing flags.
Listed(j) ==
    /\ HasFetched(j, "list")
    /\ jobs' = [jobs EXCEPT ![j] = Idle]
    /\ emitted' = Flagged(Entries(j))
    /\ listing' = <<Entries(j)>>
    /\ UNCHANGED <<daemonVars, wireVars, refreshVars, lastKey, channel, notified, ran>>

\* The tools/call handler with no tool of that name.
NotFound(j) ==
    /\ HasFetched(j, "call")
    /\ \A e \in Entries(j) : e.name # jobs[j].wanted
    /\ jobs' = [jobs EXCEPT ![j] = Idle]
    /\ UNCHANGED <<daemonVars, wireVars, refreshVars, lastKey, emitted, agentVars>>

\* What the agent's last listing showed as flagged under a name.
ShownAs(name) ==
    IF listing = NoListing THEN {}
    ELSE {e.selector : e \in {x \in listing[1] : x.name = name /\ name \in Flagged(listing[1])}}

\* resolveToolCallConsent without an elicitation.
Consent(e) ==
    IF e.policy = "prompt" /\ channel = "flag" /\ e.name \in emitted
    THEN "client" ELSE "none"

Found(j, e) == HasFetched(j, "call") /\ e \in Entries(j) /\ e.name = jobs[j].wanted

SendCall(j, e, consent, shown) ==
    /\ jobs' = [jobs EXCEPT ![j] = [Idle EXCEPT !.doing = "call", !.step = "result"]]
    /\ requests' = Append(requests, Asks(j, "call", e.selector, consent, shown))
    /\ UNCHANGED <<daemonVars, replies, open, refreshVars, lastKey, emitted, agentVars>>

CallAtOnce(j) ==
    \E e \in Entries(j) :
        /\ Found(j, e)
        /\ e.policy # "prompt" \/ channel # "elicitation"
        /\ SendCall(j, e, Consent(e), IF Consent(e) = "client" THEN ShownAs(e.name) ELSE {})

AskHuman(j) ==
    \E e \in Entries(j) :
        /\ Found(j, e)
        /\ e.policy = "prompt" /\ channel = "elicitation"
        /\ jobs' = [jobs EXCEPT ![j].step = "human"]
        /\ UNCHANGED <<daemonVars, wireVars, refreshVars, lastKey, emitted, agentVars>>

\* The human accepts, or the client rejects the elicitation it had offered.
HumanAnswers(j, accepts) ==
    /\ jobs[j].step = "human"
    /\ woken = <<>> /\ open
    /\ \E e \in Entries(j) :
        /\ e.name = jobs[j].wanted
        /\ IF accepts THEN SendCall(j, e, "elicitation", {e.selector})
           ELSE SendCall(j, e, "none", {})
    /\ UNCHANGED <<woken, reading>>

\* The human declines, cancels or lets it time out, or the connection is gone.
HumanDeclines(j) ==
    /\ jobs[j].step = "human"
    /\ woken = <<>>
    /\ jobs' = [jobs EXCEPT ![j] = Idle]
    /\ UNCHANGED <<daemonVars, wireVars, woken, reading, refreshVars, lastKey, emitted, agentVars>>

CallDone(j) ==
    /\ Continue(j)
    /\ jobs[j].step = "done"
    /\ jobs' = [jobs EXCEPT ![j] = Idle]
    /\ ran' = {}
    /\ UNCHANGED <<daemonVars, wireVars, refreshVars, lastKey, emitted, channel, listing, notified>>

-----------------------------------------------------------------------------
(* A request is given up when its answer is too late, while the daemon may  *)
(* still do what it asks.  A server that has no baseline yet does not start *)
(* at all then, so that is left out.                                        *)

GivenUp(j) ==
    /\ open /\ woken = <<>>
    /\ lastKey # NoListing
    /\ jobs[j].step \in {"sessions", "tools", "result"}
    /\ jobs' = [jobs EXCEPT ![j] = Late]
    /\ changes < MaxChanges /\ changes' = changes + 1
    /\ UNCHANGED <<live, tool, suspended, wireVars, woken, reading, lastKey, emitted, agentVars>>

\* A listing or a call fails, and the agent is told so.
RequestTimesOut(j) ==
    /\ jobs[j].doing # "refresh"
    /\ GivenUp(j)
    /\ UNCHANGED refreshVars

\* A refresh that fails is logged, and the key stays what it was.
RefreshTimesOut(j) ==
    /\ jobs[j].doing = "refresh"
    /\ GivenUp(j)
    /\ older' = [k \in Jobs |-> IF k = j THEN {} ELSE older[k] \ {j}]
    /\ overtaken' = (overtaken \union older[j]) \ {j}
    /\ keyBehind' = (keyBehind \/ j \notin overtaken)

-----------------------------------------------------------------------------
(* The agent, and the end of the connection. *)

\* The server serves once its baseline is set.
AgentAsks(doing, wanted) ==
    /\ open /\ woken = <<>> /\ Room(1)
    /\ lastKey # NoListing
    /\ \E j \in IdleJobs :
        /\ jobs' = [jobs EXCEPT ![j] = Started(doing, wanted)]
        /\ requests' = Append(requests, AskSessions(j))
    /\ UNCHANGED <<daemonVars, replies, open, woken, reading, refreshVars, lastKey, emitted,
                   channel, listing, ran>>

AgentLists == AgentAsks("list", Bare) /\ notified' = FALSE

\* Bound: an agent calls what it was told of.
AgentCalls(name) ==
    /\ listing # NoListing /\ \E e \in listing[1] : e.name = name
    /\ AgentAsks("call", name)
    /\ UNCHANGED notified

\* A variant that forgets to reject what is pending.
LostKeepsPending ==
    /\ open /\ woken = <<>>
    /\ open' = FALSE
    /\ requests' = <<>> /\ replies' = <<>>
    /\ UNCHANGED <<daemonVars, woken, reading, jobs, older, overtaken, keyBehind, lastKey,
                   emitted, agentVars>>

\* The daemon is gone or drops a reader that is too slow: what is pending
\* rejects, and nothing opens the connection again.
ConnectionLost ==
    /\ open /\ woken = <<>>
    /\ open' = FALSE
    /\ requests' = <<>> /\ replies' = <<>>
    /\ jobs' = [j \in Jobs |-> IF jobs[j].step = "human" THEN jobs[j] ELSE Idle]
    /\ older' = [j \in Jobs |-> {}] /\ overtaken' = {}
    /\ UNCHANGED <<daemonVars, woken, reading, keyBehind, lastKey, emitted, agentVars>>

McpNext ==
    \/ \E a \in Aliases : Claim(a) \/ RemoveTool(a) \/ Blink(a)
    \/ \E a \in Aliases, d \in Descriptors : Upsert(a, d)
    \/ \E S \in SUBSET Aliases : End(S)
    \/ Serve
    \/ HearEvent \/ HearAnswer \/ HearLate
    \/ \E j \in Jobs :
        \/ FetchNext(j) \/ Refreshed(j) \/ Listed(j) \/ NotFound(j)
        \/ CallAtOnce(j) \/ AskHuman(j) \/ HumanDeclines(j) \/ CallDone(j)
        \/ RequestTimesOut(j) \/ RefreshTimesOut(j)
        \/ \E accepts \in BOOLEAN : HumanAnswers(j, accepts)
    \/ AgentLists
    \/ \E name \in Aliases \union {Bare} : AgentCalls(name)
    \/ ConnectionLost

McpSpec == McpInit /\ [][McpNext]_mcpVars

-----------------------------------------------------------------------------
(* Properties. *)

InFlight(j) ==
    Cardinality({i \in 1..Len(requests) : requests[i].job = j})
    + Cardinality({i \in 1..Len(replies) : replies[i] # Event /\ replies[i].job = j})
    + Cardinality({i \in 1..Len(woken) : woken[i] = j})

\* Types; and a job waits for exactly one answer, or for the human, and one that
\* was given up for the answer that is nobody's.
McpTypeOK ==
    /\ live \in Seq(Aliases) /\ IsInjective(live)
    /\ tool \in [Aliases -> Descriptors \union {NoTool}]
    /\ \A a \in Aliases : a \notin LiveSet => tool[a] = NoTool
    /\ suspended \subseteq LiveSet
    /\ changes \in 0..MaxChanges
    /\ open \in BOOLEAN /\ reading \in BOOLEAN
    /\ \A j \in Jobs :
        /\ jobs[j].step \in {"idle", "sessions", "tools", "human", "result", "done", "late"}
        /\ InFlight(j) = IF jobs[j].step \in {"idle", "human"} THEN 0 ELSE 1
    /\ older \in [Jobs -> SUBSET Refreshing] /\ overtaken \subseteq Refreshing
    /\ keyBehind \in BOOLEAN
    /\ {lastKey, listing} \subseteq Seq(SUBSET Entry) /\ Len(lastKey) <= 1 /\ Len(listing) <= 1
    /\ emitted \subseteq Aliases \union {Bare}
    /\ channel \in Channels
    /\ notified \in BOOLEAN

Quiet == open /\ requests = <<>> /\ replies = <<>> /\ Refreshing = {}

\* Once every event has been followed up, the key that the next change is
\* compared with is that of the tools the daemon has, unless the refresh that
\* set it had been overtaken by a younger one, or one has timed out since that
\* no younger one made good: refreshes overlap, each reading one session after
\* the other (refreshAndMaybeNotifyListChanged), and only the order in which
\* they end, or a failure, can leave an older key behind.
KeyIsCurrent == Quiet /\ lastKey # NoListing /\ ~keyBehind => lastKey = <<Current>>

\* server.ts:736: after a failed refresh "the next qualifying event ... will
\* simply see the current state", so it must after one that succeeded.
\* The code does not keep this: README, section 10.
NoOlderKey == Quiet /\ lastKey # NoListing => lastKey = <<Current>>

\* A call of a tool whose policy is "prompt", as the daemon judges it when the
\* call arrives, ran only if a human was asked about the very name that was
\* called, or the agent's last listing flagged it: the policy may have changed
\* since the server fetched it, and listings may have been answered meanwhile.
GateBeforeRun == \A r \in ran : r.policy = "prompt" => r.shown # {}

\* ARCHITECTURE.md section 12: consent "client" only for a tool that the last
\* listing flagged.
\* The code does not keep this: README, section 10.
FlaggedAsListed == \A r \in ran : r.policy = "prompt" => r.of \in r.shown

\* ARCHITECTURE.md section 9: the agent's tool list tracks the device, if the
\* agent asks again whenever it is told to.
\* The code does not keep this: README, section 10.
ListTracksDevice ==
    Quiet /\ (\A j \in Jobs : jobs[j] = Idle) /\ listing # NoListing /\ ~notified
        => listing = <<Current>>

\* The tool list as a whole: types, and what the next change is compared with.
McpSound == McpTypeOK /\ KeyIsCurrent
===============================================================================
