# Appduct, specified

TLA+ specifications of the Appduct daemon and of what it talks to, the TLC
configurations that model-check them, and TLAPS proofs. Paths are relative to the
repository (`src/` in `PROJECT.json`). `PROJECT.json` maps every definition to the lines
it models; this file says what the parts are, what is claimed of them and on what
grounds.

## 1. The system

A developer's machine runs one **daemon** per user. An app on a phone or simulator opens
a wss connection to it after a deep link handed it a session id and a one-time claim
token; CLI and MCP processes talk to the daemon over a unix socket and call the tools
that the app registered.

| Component | State it keeps | Operations | Talks to |
| --- | --- | --- | --- |
| Pending links (`daemon/links.ts`) | one record per minted id: token hash, expiry, failed attempts, a timer | create, validate, recordFailedAttempt, consume, discard | sessions, event bus |
| Session engine (`daemon/sessions.ts`) | live sessions: state, socket, grace timer, resume token hash, missed pongs, alias | claim, resume, suspend, expire, revoke, keepalive, disposeAll | links, listener, registry, calls, bus |
| WSS listener (`daemon/listener.ts`) | per connection: claimed session id, pre-claim timer | connection, message, close | session engine |
| Calls manager (`daemon/calls.ts`) | pending map: call, resolver, timer | call, handle result/error/progress, cancel, rejectSession, disposeAll | sessions, bus |
| RPC handlers (`daemon/daemon.ts`) | subscriptions, the shutdown promise | tools.call, tools.cancel, sessions.revoke, link.create, events.*, shutdown | everything above |
| RPC server (`daemon/rpc-server.ts`) | connections and their close callbacks | request, close | RPC handlers |
| Event bus (`daemon/event-bus.ts`) | per id: sequence cursor, ring buffer | emit, subscribe, since, drop | all emitters |
| Tool registry (`daemon/registry.ts`, `AppductToolRegistry.kt`) | tools of one session | snapshot, upsert, remove | session engine, app core |
| Policy, audit log | rules; append queue and retained files | evaluate; append, prune, measure | tools.call |
| Process lifecycle (`daemon/pidfile.ts`, `daemon/daemon.ts`) | pidfile, socket file, port | acquire, take over, release, start, shutdown | RPC client |
| RPC client (`rpc/client.ts`, `daemon/log-rotation.ts`) | spawn lock, streams | ensure daemon, version check, restart, rotate the log, stream | process lifecycle |
| MCP server (`mcp/*`) | last listing and key, progress streams | list, call with consent, wait_for_event, wait_for_session, connect | RPC handlers |
| App core (`native/android`, `native/ios`) | resume lease, held session, epoch, timers, socket | connect, resume, disconnect, background, invalidate | listener |
| Tool invoker and bridge (`AppductToolInvoker.kt`, `NativeAppductModule.kt`) | jobs in flight, continuations that wait for a reply | call, cancel, suspend, answer | app core, React Native SDK |
| React Native SDK (`packages/react-native`) | handlers, abort controllers, hooks' refs | register, unregister, handle a call, start up, schemas | app core |
| Scripting client (`src/client`) | one stream | waitForSession, waitForEvent, call | RPC handlers |
| Delivery (`cli/open-target.ts`, `commands/link.ts`, `mcp/connect-tool.ts`) | none of its own: devices and forwards | choose a target, check, mint, forward, open | devices, link.create |
| Set-up (`commands/init.ts`, `scheme.ts`, `native-scheme.ts`) | config.json files | init, discover, resolve | the project's files |

The daemon is one Node process: a callback runs to completion, so what is hard is not
data races but *orders*: of frames, timers, socket closes, RPC requests and the
microtasks that continue an `await` between them. The app core confines its state to one
thread and has the same trouble with suspended coroutines; JavaScript in the app is a
second thread with a queue between the two. Between app and daemon there is a connection
that may die silently, in either direction, at any time. Between processes there are
files (pidfile, spawn lock, socket, log) and no common lock but the spawn lock.

What must be right, per component, is the list of `hazards` in `PROJECT.json`, each at
its line with the properties that cover it.

## 2. Modules

| Module | Models | Checked by run | Proved in |
| --- | --- | --- | --- |
| `SessionLifecycle` | the promise: one session id, from minting to its end | `session_engine`, as a property of `SessionEngine` | - |
| `SessionEngine` | links.ts, sessions.ts, listener.ts, what the bus retains | `session_engine`, `session_liveness` | `SessionEngineProofs` |
| `ToolCalls` | tools.call, tools.cancel, calls.ts, rpc-server.ts, shutdown; EXTENDS `SessionLifecycle` | `tool_calls` | `ToolCallsProofs` |
| `AppCore` | AppductClient.kt, AppductConnectionManager.kt and the lease store, on Android | `app_core`, `loss_after_ack` | `AppCoreProofs` |
| `DaemonHost` | the daemon as a process: pidfile.ts, startup and shutdown of daemon.ts, and rpc/client.ts that finds, spawns and replaces it | `daemon_host` | `DaemonHostProofs` |
| `ClientStreams` | event-bus.ts and everything that waits on a stream: MCP wait_for_event and wait_for_session, the scripting client, `events` | `clients` | `ClientProofs` |
| `ProgressCalls` | calls of the MCP server with progress and abort | `clients` | `ClientProofs` |
| `RpcStream` | one connection of the control plane, both ends: bytes, lines, answers, events | `clients` | `ClientProofs` |
| `VersionOrder` | the comparison of versions that decides a restart | `clients` | `ClientProofs` |
| `ToolInvocation` | a call inside the app, from frame to answer | `clients` | `ClientProofs` |
| `McpTools` | listing, list_changed, policy and consent of the MCP server | `agent_tools` | `AgentToolProofs` |
| `ToolShape` | schemas, descriptors, deadlines and results from app to agent | `agent_tools` | `AgentToolProofs` |
| `RegistrySync` | hooks, handlers, native registry, frames, the daemon's registry | `app_tools`, `late_frame` | `AppToolProofs` |
| `AppStartup` | auto.ts, deep-link-install.ts: links, leases and reloads | `app_tools`, `reclaimed_link` | `AppToolProofs` |
| `Delivery` | making a link and opening it on a device | `set_up` | `SetUpProofs` |
| `SchemeSetup` | where the scheme comes from; init | `set_up` | `SetUpProofs` |
| `AuditLog` | audit.ts | `set_up` | `SetUpProofs` |
| `LogRotation` | log-rotation.ts and who spawns the next daemon | `set_up` | `SetUpProofs` |

*Composition.* `ToolCalls` is composed with the engine through `SessionLifecycle`: its
sessions make exactly the steps of the abstract life that `SessionEngine` is proved to
implement (`SpecRefinesLifecycle`), and theorem `SpecLifecycle` says it assumes nothing
else of them. `ClientStreams` has clients and the bus in one module, `RegistrySync` the
app, its sockets and the daemon, `McpTools` the agent, the MCP server and the daemon,
`DaemonHost` clients and daemons. `LogRotation` takes from `DaemonHost` that one process
at a time holds the spawn lock (`LockExcludes`).

*Scenes.* Four MC modules (`MCClients`, `MCAgentTools`, `MCAppTools`, `MCSetUp`) hold
several component modules side by side. A behaviour of such a module is a behaviour of
one of its parts, named by the variable `scene`, while the variables of the others rest:
the parts do not interact in the code, and the run is the disjoint union of the runs of
its parts, not their product. An invariant of a part is stated for its scene, and so is
its theorem: `McpSpecSound`, say, is about `McpTools` alone, for any behaviour of its own
specification, and `SpecMcpSound` carries it over to the run's module. `MCAppStartup`
holds one part alone, and so does a cfg that gives the other part of its scene nothing to
do (`late_frame`).

*Names.* A property called `...Sound` is the conjunction of a module's invariants, each
of which is a definition of its own with a comment (`DeliverySound` for instance is
`AddressSuitsTarget`, `RefusedBeforeMinting` and so on, with the types). A definition
that a comment calls "A variant" is a plausible mistake in the code it stands next to;
with it in place of the code, the property that the comment is about is violated.
`PROJECT.json` lists one per property.

## 3. Session engine

*State.* `linkTimer`, `pastTtl`, `attempts` are a record of links.ts (`linkTimer =
"none"`: no record). `state`, `socket`, `graceTimer`, `resumeToken`, `missedPongs`,
`alias` are the fields of `LiveSession`. `conn`, `claimedId`, `preClaimTimer` are what
the listener's closure and ws know of a connection; `admittedBy` remembers the
credential that let it in, `pings` how many pings it may still answer. `lastEvent` and
`retained` are the bus as a subscriber, and as the heap, see it.

*Actions.* One per callback: `CreateLink`; the clock, the TTL timer and the free timer
of a link; `Connect`, `PreClaimTimeout`, `RejectFrame`; the four outcomes of a claim and
two of a resume; frames for a dead session, a failing send, pongs, one keepalive pass
over all sessions, a peer that falls silent, `SocketCloses`, `GraceExpires`; revocation
of a link or by selector; `Restart` (shutdown or crash, then a new daemon with empty
memory).

A socket in "closing" still delivers frames that had arrived: `ws` emits them until
'close', and nothing in the code checks. A slot for a connection is reused when its
socket has closed.

*Runs.*
- `session_engine` (2 ids, 2 sockets, 2 failed attempts instead of 5, 3 resume tokens,
  slugs "pixel" and "pixel-2"; 37 thousand states). Two sockets are what a takeover
  needs (the old one closing while the new one is in use), two ids what aliases need,
  and the two slugs collide after a suffix is added. Three tokens allow a claim, a
  resume and a resume after that. A third socket (238 thousand states) has been checked
  by hand and adds nothing.
- `session_liveness` (1 id, 2 sockets) under `FairSpec`: fair are the clock, the
  daemon's timers (TTL, free, pre-claim, grace, keepalive) and the 'close' that `ws`
  emits at the latest 30 s after a local close or terminate. Nothing is assumed of apps,
  network and operator, so each property is what the daemon does on its own: a
  suspension ends, a silent peer is found out, and what nobody claims, a link or a
  connection, goes away (`UnclaimedEnds`).

`EventsTellState`: the last event about an id tells whether its session is active or
suspended, and of a link that exists whether its expiry was announced. Links may end
without an event; `LinkEndTold` says when: a claim comes past the link's time but before
the timer that would announce it (`ExpiryAnnounced`, section 10), or fails for the last
time allowed. `TypeOK`, `LinkSingleUse`, `GraceTimerIffSuspended` and
`PongsAreOfThisSocket` are proved and not repeated in a run.

*Proofs* (`SessionEngineProofs`). `IInv` strengthens the run's invariants with what ties
them together: tokens of a session are above the credentials its sockets were admitted
by, a socket's `claimedId` has been minted and is not a pending link, pings cover missed
pongs, the alias of every live session is a real one. It is needed because, for
instance, `OneSocketPerToken` alone says nothing of the token a resume is about to
spend. `AliasUnique` rests on `DedupeAliasFresh`: among as many suffixes as there are
sessions one is always free (pigeonhole, by `FiniteSetTheorems`), which is why
`AliasAssumption` asks `Cardinality(Sessions) <= MaxSuffix`. Refinement is proved action
by action from `PhaseTable`, a quantifier-free reading of `Phase`.

## 4. Tool calls

*State.* `stage`, `target`, `client`, `outcome` are an attempt at tools.call and its
promise; `closeHook` its `context.onClose` registration; `callEvents` the events about
it; `audit` its record; `daemon` the progress of shutdown; `turn` the connection whose
input the current callback is still working off.

*Microtasks.* Resolving a promise does not run its continuation: that happens when the
callback returns, and before the next callback. `Continue` is therefore an action of its
own, other callbacks wait for it (`Quiet`), and only further input of the *same*
connection, handled in the same callback because it arrived in the same chunk, may come
between (`MayRun`). Without this the model would either miss the order that the finding
is about or have orders that Node never produces.

*Run.* `tool_calls` (1 id, 2 sockets, 2 calls, 2 clients; 261 thousand states): every
race of answers, timeouts, cancellations, suspensions, revocations, closing connections
and shutdown. Two calls are what one needs to see that an answer or a lost client
settles the right one, and two sockets that a call outlives a takeover. It runs under
`FairSpec`: fair are the calls' timers and the event loop, nothing else, and every call
that starts is finished (`EveryCallFinishes`). The daemon may stop, so deadlock is not
checked. With 2 ids and no fairness (398 thousand states) the safety properties have
been checked by hand.

`TypeOK`, `HooksOfUnfinished` and `LeftoverHistory` are proved and not repeated in a
run. The last says which history of a dead id the daemon keeps (section 10).

*Proofs* (`ToolCallsProofs`). `IInv` adds to the type invariant, for each call, which of
stage, outcome, events, hook, audit record and session agree at which point, and for
each session that history of an id that is over needs a call it ended under.
`AppendToOne`, `AppendToTwo` and `NextEvent` are the facts about sequences needed to
keep `callEvents` in order.

## 5. App core

*Threads.* `AppductClient` runs on a dispatcher of one thread, the connection manager on
an executor of one thread; each has a queue, and the models' actions are what a thread
does between two suspension points. `outbox` is the executor's queue (connects and
closes that the client asked for), `inbox` the dispatcher's (completions, events of the
manager, coroutines to be resumed), in order, because both `executor.execute` and a
single-thread dispatcher keep the order. What a caller or a timer launches is not put in
the queue: that it runs before what is queued now only means that it was launched
earlier, so it may run at any time.

*State.* `clientState`, `held`, `connectingId`, `resumeInFlight`, `backgrounded` and
`pendingAttempt` are fields of the client. `attempt[a]` is a coroutine in
performHandshake: where it is suspended, for what, and whether its epoch is still the
client's (`fresh`: the code compares `myEpoch` with `epoch`). The job that
`reconnectJob` refers to is one of `jobs`; the others can no longer be cancelled. The
clock appears as `over`: grace_s have passed since the loss. `transport`, `socket`,
`options`, `activeSession` and `connectCall` are fields of the manager, `lease` the
entry of the process-wide store.

*Actions.* A deep link, `connect`, `disconnect`, `restoreSession`, the two directions of
backgrounding, a Metro reload; the grace and retry timers; one action per way in which a
coroutine goes on, and per event of the manager; performConnect's four outcomes,
performClose's two; OkHttp's onOpen, an ack, a broken message, onClosed with its code,
onFailure. What an active session carries (tool calls, registry frames) changes none of
this state and is left out.

*Run.* `app_core` under `FairSpec` (2 links, 2 coroutines, `MaxQueue` 1; 76 thousand
states). Two coroutines are what superseding needs, two links what tells them apart.
`MaxQueue` bounds how much work callers and ending sockets add to what is queued; what
the client's own steps queue is not bounded. With `MaxQueue` 2 and no fairness (675
thousand states) the invariants have been checked by hand. Fair are the two threads, the
timers, the end of a dial (OkHttp's connect timeout of 15 s) and the end of a handshake
or of a close that has begun (the daemon's pre-claim timeout, OkHttp's cancellation
after 60 s). Not assumed: that any dial succeeds, that the app comes back to the
foreground, that the user does anything. Deadlock is not checked: a client that nobody
calls rests.

`OneCompletion`: each coroutine that waits is answered exactly once. `NeverWedged`: the
manager can always be used again. `RecoverySound`: a client that reports active or
reconnecting holds a session (`HeldIsTold`), while it reconnects in the foreground a
retry or an attempt of its own epoch is under way (`ReconnectUnderWay`), and
`resumeInFlight`, which makes every retry a no-op, is never left set
(`NoPhantomResume`). `ReconnectingEnds`: it ends, unless the app is in the background.
`TypeOK` and `PendingIsUnsettled` are proved and not repeated in the run.
`loss_after_ack` (violation) is in section 10.

*Proofs.* `AppCoreProofs` proves `TypeOK` and `NeverWedged`. What a client or a manager
comes to hold it takes out of a queue or a coroutine's record (an ack's session, a
caller's attempt, the reply it was given), so `IInv` types the contents of both queues
and of every record, as far as the actions tell items apart: only an event belongs to no
attempt and carries an answer, and only a close may have no caller. With that each
action preserves `IInv`. `OneCompletion` and `PendingIsUnsettled` follow with `PInv`, which adds that an item agrees with the step its
coroutine is suspended in (`Agrees`), that a coroutine which still closes has no answer
yet, and that a kept completion belongs to a manager that is connecting. Without the
first an item might resume a coroutine that is suspended elsewhere, without the last
performConnect might overwrite a completion. The argument is one of bookkeeping: lemmas
about taking a coroutine from its place (`TakeFromInbox`, `TakeKept`, ...) lead from
`Consistent` to `ConsistentBut`, those about giving it a place (`GiveItem`, `GiveKept`,
...) lead back, and each action is a take followed by a give. `RecoverySound` needs `RInv` on
top of that. Its part `UnderWay` says which attempts may count on the session being held:
an epoch begins whenever the session is given up (`FreshOfHeld`, `ClosingUnlessHeld`), so
a fresh resume, an armed retry and a resume in flight each imply that a session is held,
and `resumeInFlight` implies that the resume it stands for is there and fresh
(`InFlightIsFresh`). `SessionsNamed` says that a session held, remembered or acked is one
that some link named.

## 6. Daemon host

*State.* `pidfile`, `sock`, `port` and `lock` are what processes see of each other: who
created daemon.pid and whether its content is written, whose listener bound daemon.sock
and the WSS port, who holds daemon.spawn.lock. `stage[d]` is how far a daemon is into
its start or shutdown, `pc[c]` what a client does next, with the results of its earlier
reads (`goal`, `pidBefore`, `timedOut`).

*Actions.* Every await that reads or changes a file, asks the socket or waits is a step:
what a process read may be out of date when it acts. A daemon creates the pidfile
exclusively, and if it exists judges the owner, takes it over when the owner is dead and
tries again; listens, removes a stale socket, binds it; a failing start undoes what it
did; shutdown closes the port, the socket, the pidfile and at last removes the socket
file. A client asks for the daemon, takes the spawn lock (or breaks one that is older
than 30 s: its owner died, for the waits under the lock are shorter), spawns, waits,
compares versions and restarts an older daemon if it has no sessions or
`--daemon-restart` was given. The operator stops daemons, and any process may be killed.

*Run.* `daemon_host` (2 clients of one build, one of which compares versions, 2
takeovers instead of 5; 478 thousand states). A daemon of an older build is running, or
was killed and left its files, or none ever was. Where none was killed before, one
process is killed (`MaxKills`) and there are 2 daemons: what a conflict over files
needs, the survivor finding what the other left behind. Where one was killed, there is a
third (`Spare`), for then two contend for what is left, and one of them may find a new
pidfile each time it tries. `HostSound`: at most one daemon serves, which is owed to the
port and not to the pidfile alone, for a pidfile whose pid is not written yet is taken
over; and, while no client died with it, the spawn lock is held by one client at a time,
although each removes it without looking whose it is. `StartsOverLeftovers`: a daemon
that is alone in starting comes to serve, whatever files a dead process left. The only
fairness is that a daemon that is starting goes on. Clients with different builds
(`MCTwoBuilds`) are what `NoDowngrade` needs (section 10). Deadlock is not checked: all
clients may be done.

*Proofs.* `DaemonHostProofs` proves `HostSound` for any number of daemons, clients,
takeovers and kills and any builds. `OneServer` says nothing of a daemon that is about to
serve, and `LockExcludes` nothing of the file that others would remove, so neither is
inductive. The invariant `IInv` adds what each is owed to: `PortHeld` (from the listener's
bind to its close the port is the daemon's own, and a port has one owner) and `LockHeld`
(while no client died, whoever is under the lock created the file that is there, and
nobody is about to reclaim it, for only the lock of a dead client is old enough).
`TakeoversLeft` is needed by the types. The pidfile has no part in it: beyond its type, no
proof step uses what it holds.

## 7. Clients of the daemon

The run `clients` (615 thousand states) has five parts.

`ClientStreams`: one client and one session, for each of six kinds of client (the tools
wait_for_event and wait_for_session, the scripting client's two, a caller that pages
with events.since, and the `events` command). The bus has its ring, its cursor and its
fan-out; the wire is one ordered line of answers and notifications, read in chunks. An
answer that is read does not run its continuation before the rest of the chunk has been
handled (`midChunk`), which is where clients that add their listener late lose events. A
ring of 2 with 4 events wraps twice, and a page of 1 makes the pager ask again while
events are added and evicted. `FirstDueWins`: wait_for_event answers with the oldest
event that is due, retained or sent, although the two overlap. `NoEventMissed`,
`ToolSeesClaim`: nothing falls between asking, subscribing and listening.
`PagerSkipsNothing`: who follows the cursor is given every retained event. `Settles`: a
wait of one of the four that have a timeout ends, with the client's process and its
timers fair; the daemon may never answer.

`ProgressCalls`: two callers on one session, each on a connection of its own that hears
of both calls; their tools differ (18 thousand states). That they share one has been
checked by hand (36 thousand states), and is proved.
`AbortGetsThrough`: whenever an abort comes, the call that its caller took for its own is
cancelled, if it runs; that is its own call for whoever is alone with its tool (`Alone`).
`CancelledForItsTool`, `ProgressOfOneCall`: nothing is cancelled but for an aborted caller
that took it, and progress is passed on of one call, of the same tool. That the call is
always one's own is not so (`OnlyOwnCancelled`, section 10).

`ToolInvocation`: one call through two threads, with tool_cancel, a timeout, a lost
socket, an unregistered tool, a destroyed client and a handler that ignores its signal.
`OneAnswer`: the daemon is sent at most one answer. `GivenUpIsAborted`: a handler whose
call was given up is told, before or after it started. `StartedIsAnswered`: with the
native dispatcher and the call's timer fair, a call that JavaScript was asked to run is
answered even if the handler never returns. Calls share nothing but the maps they are
entered in under their ids; one is enough. (The run has `Settles` and
`StartedIsAnswered` as one property, `WaitsEnd`.)

`RpcStream`: one connection between the daemon's RPC server and a stream of the client,
from bytes upwards. A request is a short line, one of two bytes that are one character,
one that has just the length of the cap and ends in such a character, or one that is
over it; the daemon reads it in chunks that are cut anywhere, decodes each chunk by
itself, splits what it has buffered and destroys the connection over a line above the
cap. A decoded text keeps the positions of its bytes: a character of two bytes is "wide"
and "rest", half of one is "garbled" and counts three. Handlers answer when they like,
with a result below or above `MaxNotifyBuffered`; answers and events share one queue,
which is flushed line by line; an event that finds too much in it destroys the
connection. Calls time out, either side may close, and a call may be made on a stream
that is closed. `LinesAsSent`: handlers are given the requests, whole, in order and
once. `CapIsOnLines`: the cap is on a line and not on a chunk; what is refused is the
first line that was not handled, and it is over the cap, or would be if the character it
ends in were cut in two (`CapIsOnWhatWasWritten`, section 10). `OwnAnswer`: a call is
given its own result. `NoGap`: a subscriber is dropped rather than made to miss an event
and go on. `QueueBounded`: events alone do not back the daemon up. `NoneLeftWaiting`:
when the stream is closed all calls that were written are settled. Two calls can be
answered in the other order and two events make a gap visible; a cap of 6 bytes is what
the garbled character of a short line needs, so that of lines with a wide character some
are refused and some are not, and what is buffered of two requests exceeds it.
Characters cut in two are in section 10.

`VersionOrder`: `compareVersions` on 124 versions with each other, which have one or two
numbers and no, one or two identifiers of a prerelease (numbers, one of which has two
digits, and words). `AsSemver`: the code's comparison is the lexicographic order of
semver section 11, stated independently. `NoTurns`: of two installs at most one restarts
the other's daemon. The reference order compares keys, in which a version has `Longest`
numbers (missing ones are 0) before its identifiers, of rank at most `Largest`; these
constants are bounds of that order and not of the code, which any finite set of versions
has. This property is why `DaemonHost` may have a number for a version.

*Proofs* (`ClientProofs`), of the safety of all five parts:

- `VersionsSound`, for any set of versions that follow semver. Both comparisons stop at
  the same position, the least one at which the versions differ (the naturals are
  well-founded), and what differs there is ordered one way (`NoTurns`). That position is
  also the first at which the keys differ, and there the code and the key order agree
  (`AsSemver`). `WellWritten` is needed because of numeric identifiers with leading zeros:
  of `rc.1` and `rc.01` the code takes each for the larger one.
- `ProgressSound`, for any number of callers of any tools. That an abort gets
  through says nothing of a caller that does not know its call's id yet. `ProgressIInv`
  adds that each request, start, report and answer is on its way at most once, and only in
  the phase of the call it belongs to, and that a call under way is known to its caller or
  the event of its start is still on the way to it (`KnownOrAnnounced`): this is what a
  waiting abort is owed to. Where tools are shared the call that is known may be another
  caller's, so `AbortsAreSent` relates several callers: whoever knows of a call, or will,
  knows of one that has begun and cannot begin again, and a cancel for it was sent or its
  sender's own call is over.
- `InvocationSound`, for any number of calls. `InvocationIInv` adds that at most one task
  on the native dispatcher is a call's own turn (it arrives, starts or resumes), and that
  it finds the job as it was left (`TurnsInOrder`); and that of a call which was given up
  the cancel is on its way to JavaScript, behind the call itself, or was delivered, or no
  handler runs or will (`CancelOnTheWay`).
- `StreamsSound` and `PagerSkipsNothing`, for any ring, page and number of events. What a
  client will conclude depends on what is on the line when it concludes it, so
  `StreamIInv` is about the line: ring and line are in the order of the numbers, and a
  page precedes every event that is sent after it (`Numbered`); while its script lasts a
  client is under exactly one request, unserved, answered or read (`UnderRequest`); what
  is due to it is what it kept, what is on the line and what the page on its way holds,
  no more and no less (`Owed`); a claim after the tool subscribed is on the line
  (`ClaimComing`); and an answered page leaves out nothing that is retained up to its
  cursor (`PageFollows`). The number of the highest event a page was searched for is what
  makes the overlap of page and line harmless: everything on the line is above it.
- `RpcSound`, for any caps, any numbers of calls and events and any cuts. `LinesAsSent`
  says nothing of a line that is half read. `BytesInLine` does: there is a function `e`
  such that the line of call `c` ends at `e[c]` of the buffered text and the bytes on
  their way, which together are exactly the requests not yet handled, and the buffer reads
  as the beginning of the first of them (`ReadsAs`: a wide character was read whole or in
  halves). So every line break the server finds is the end of a request (`BreaksAre`,
  `LinesAre`, `TextSplits`), and a text without one is part of one request, which is why
  the cap is not met by several together. What is buffered of a request is over the cap
  only if a reading of the whole request is (`TooLongRead`): a text has no more bytes than
  one that goes on, and two replacement characters for one wide one are the worst case
  (`ReadCut`). An invariant of its own is that a connection that is open was not refused.
  `NothingSkipped` adds to `NoGap` that the events heard, flushed and queued are
  consecutive, and `AnswersOnlyBeyond` states `QueueBounded` with the sums as a function,
  which `Total` is by `TotalIs` (of two functions that satisfy its equations there is no
  least argument at which they differ).

## 8. Tools between app and agent

The run `agent_tools` (1.16 million states) has two parts.

`McpTools`: an MCP server, the daemon and an agent, over two sessions that go by alias
and one tool name, whose versions, order and names change. Two requests or refreshes are
under way at a time, symmetric; requests, answers and events are in order on the one
connection. A request is given up after 10 s (`client.ts:1188`), while the daemon may
still do what it asks and answer to nobody: a listing or a call then fails
(`RequestTimesOut`), a refresh is logged and leaves the key as it was
(`RefreshTimesOut`, `server.ts:728`). A job's slot is taken again only when the late
answer has been read. A server that fails to get its first listing does not start, and
is left out. `MaxChanges` 2 bounds changes and timeouts together: two changes overtake
each other, a change and a timeout leave a refresh that failed; three of them together
(5.2 million states), and two changes with any number of timeouts (3.4 million), have
been checked by hand. `KeyIsCurrent`: when no refresh is under way, the key that the
next one is compared with is of the list the daemon has, unless a younger refresh was
done before the one that set it, or the last one timed out and no younger one made good
for it (section 10). `GateBeforeRun`: no tool that the policy, judged when the call
arrives, says to prompt for runs unless a human was asked about, or the agent's last
listing flagged, the name that was called.

`ToolShape`: a tool registered, listed and called, with every kind of schema that the
SDK distinguishes in either slot and timeouts between, at and beyond the limits (4 to
12, default 8, slack 2, in halves of a millisecond so that fractions exist; the clamping
only compares, so the scale is immaterial). `MaxMoves` 3 allows a registration, another
and a call between. `OddTimeoutIsHarmless`: no timeout, however odd, makes native refuse
a tool. `TroubleIsTold`, `DegradedIsTold`: no schema is dropped or degraded in silence.
`ResultFitsListing`: a result is structured where an output schema was listed, and
refused for no other. `OneDeadline`: without a timeout of the caller's, app and daemon
use the same, and the caller's watchdog never goes off before the daemon's.

*Proofs* (`AgentToolProofs`). `McpTools` remembers three things the code has no variable
for: `older`, the refreshes that were under way when one began, and `overtaken` and
`keyBehind`, which refreshes a younger one has been ahead of, and whether the key may be
older than the list for that, or for a refresh that timed out. `KeyIsCurrent` speaks of
moments of rest only, so it is inductive only together with what holds on the way there.
`McpIInv` adds that each message fits the step of the job it is for (`MessagesFit`),
that each job that waits has one request, answer or continuation on its way and no other
has any (`OneAnswerEach`, counted over both queues and the microtasks), and `Followed`:
on an open connection with no event unread, the youngest refresh, if none overtook it,
is `Fresh`, that is, all it has been told so far is still what the daemon has; or else
every refresh under way is overtaken, and the key is current or was itself set by one
that was. `FetchedIsCurrent` turns a fresh refresh that has everything into the daemon's
list. `GateBeforeRun` is inductive with the types of requests: a call that carries
consent was shown to a human or flagged by the listing. `ShapeIInv` adds to the parts of
`ShapesSound` that everything registered was classified and what it lacks was told
(`Told`), that what `warnOnce` remembers was printed (`Printed`), and what the call
under way has computed so far (`CallInv`).

The run `app_tools` (5.9 million states) has two parts.

`RegistrySync`: two hooks (`useAppductTool`) of two tool names that mount, re-render
with new objects and unmount (2 commits), React's effects one by one, the native
dispatcher's tasks, two sockets one after the other with their frames, and the daemon's
registry. The daemon goes on hearing the first socket after the session has left it. Two
of the three objects are interchangeable. Three commits without a connection (86 thousand
states) have been checked by hand.
`LastRegistrationStands`: nobody else's cleanup removes the last registration of a name.
`HookKeepsUp`: what is registered is what the component's latest render describes,
although a hook registers again only when a derived key changed.
`RegistryConverges`: with all queues empty on an active session, the daemon lists what
the app has. It says nothing of a name whose last writer in the daemon was a frame of the
socket left (`outdated`): that nothing of the kind happens is what the documents say, and
`late_frame` refutes (section 10).

`AppStartup`: two links and three runtimes of one process. A client has no socket, one
of its own attempt, or one of an earlier attempt that is still there ("old"): a link
that supersedes a session dials at once, and the manager refuses while it has a socket.
`LaunchLinkWins`: the session is of the link the app was launched with, unless one came
later, or the socket of an earlier session was in its way (`obstructed`). That nothing
is ever in its way does not hold (`LaunchLinkSupersedes`), nor that a link delivered
again is ignored (`reclaimed_link`); both are in section 10.

*Proofs* (`AppToolProofs`). `RegistrySound` follows from `HookIInv`: what is left of a
commit's effects, in their order (`InTurn`), is the difference between what each hook
renders and what it holds (`DifferencePending`), and an entry that a hook has under its
name is its registration (`EntryIsHeld`). `RegistryConverges` is a claim about empty
queues; `LastWord` says what it means while they are not: for each name, the last task,
frame of the current socket or, if there is none, entry of the daemon's registry that
speaks of it says what the native registry has, the entry only if no frame of a left
socket was the last to write it. It is proved for any number of sockets, hooks and
definitions. `StartupSound` follows from `StartupIInv`: a link is claimed once
(`ClaimedOnce`), and the link that was wanted is still to be found by the runtime, or
found, or its session's, or was refused a socket (`WantedIsLaunch`).

No fairness is assumed in these runs. Deadlock is not checked: apps and agents may stop
acting.

## 9. Around the sessions

The run `set_up` (2.01 million states) has four parts.

`Delivery` (1 simulator, 2 Androids, 1 iPhone): devices come, get ready and go between
any two commands, and any command fails. `AddressSuitsTarget`: a link names an address
that its target can reach. `RefusedBeforeMinting`: what is refused for its arguments
leaves no link behind. `FallsBackIffUnnamed`: who named no target gets a link whatever
the devices do, who named one never gets a QR code instead. `ForwardedBeforeOpening`: on
Android the port is forwarded on the device that the link is opened on, if the request
or the environment names it. Two Androids are what an unnamed device needs to be
ambiguous.

`SchemeSetup`: three nested directories, the files discovery reads, edits between
commands, 3 moves. `InitIsObeyed`: what init reported is what a link uses.
`NeverGuesses`: a scheme that nobody chose is used only when the app's files name no
other. That only force replaces a recorded scheme (`RecordedStands`) is proved and not
repeated in the run. Schemes appear as values and files as what their reader makes of
them.

`AuditLog` (2 records, days 0 to 3, retention of 1 day, 1 pruning by the interval):
appends, prunings, measurings, midnight and a failing disk in every order.
`RecordsAccounted`: each record is queued, on disk, gone with its old day, or among the
failed writes that the status counts. `FiledByDay`: a line is in the file of the day it
was made, once. `StatusCountsWhatStays`: measuring counts every file that stays while
others go, but for one that stat failed for (`NoneMeansEmpty`, section 10).
`RetainedStay`: pruning touches no day of the window.

`LogRotation` (3 daemons, 4 files, a cap of 1 unit): from the look at the log to the
spawn, while daemons hang, stop and die. One spawner at a time, by the lock. A boot
writes at most one unit. `MovedUnseenOnly`: the log of a daemon that answered, or that
the pidfile named, throughout the rotation is not moved. Output is lost only when two
rotations overlook the same hanging daemon, which four files would show.

*Proofs* (`SetUpProofs`), for any devices, schemes, records, days, daemons and files. Each
part's invariant adds how far an operation is and what it has read by then.
`DeliveryIInv`: which step knows which target, and what is minted by it (`Decision`,
`Progress`); that the device which was named is among those forwarded or gone
(`StillForwarded`) is what carries `ForwardedBeforeOpening` from the forward to the open.
`SetupIInv`: the scheme that init reported is the one recorded (`Blessed`). `AuditIInv`:
records that are neither queued nor on disk nor gone with their day are at most as many as
the failed writes (`Accounted`, a statement on cardinalities, for one write loses at most
one record), what a pruning is about to delete was too old when it began, and so still is
(`OldOnly`), and what a status has counted, or seen leave, covers what stayed and
stat did not refuse (`Counted`).
`RotationIInv`: the two questions of a rotation rule out, one after the other, that who is
watched is the daemon the pidfile names and the one whose socket answers
(`NobodyWatched`). `RecordedStands` and `RetainedStay` are action properties and follow
from the same invariants.

No fairness is assumed: these commands end or fail. Deadlock is not checked.
That a re-run of init always works does not hold (`RerunIsSafe`, section 10).

## 10. Where code and documents differ

Three runs show a disagreement; `PROJECT.json` quotes both sides under `findings`.

- `loss_after_ack`: the socket closes just after its ack. The close event overtakes the
  coroutine that the ack woke, and the client reports active on no socket, for good.
- `late_frame`: a delta on its way over the socket that a resume replaced is applied over
  the snapshot that came after the resume, and stays.
- `reclaimed_link`: after a reload or the loss of its socket, while the session
  reconnects, the launch link is delivered again; the client drops the session to claim it
  with a token that is used up.

The following were met while modelling. The named property is defined in its module with
the sentence it takes from the documents; naming it in the cfg reproduces the
counterexample.

| Property | What happens | Code | Said in |
| --- | --- | --- | --- |
| `SessionEngine.ExpiryAnnounced` | A claim that comes after a link's time but before the callback of its timer discards the link and the timer: no `link_expired` is sent, and to a subscriber the link stays pending | `daemon/sessions.ts:383` | `PROTOCOL.md:372`, `daemon/links.ts:132` |
| `ToolCalls.DiscardedAtTerminalEvent` | With a call in flight, revocation discards the buffer and then `tool_call_finished` opens a new one for the dead id, which nothing removes. `LeftoverHistory`, proved, says this is the only such leak | `daemon/daemon.ts:677` | `ARCHITECTURE.md:308` |
| `AppCore.ReconnectOnlyOnLoss` | A failed dial schedules a retry twice; the one that is lost track of disturbs the session that the other has resumed | `AppductClient.kt:638` | `ARCHITECTURE.md:604` |
| `AppCore.ClosedSocketIsNoObstacle` | A link that supersedes a connected session dials while the old socket is still closing, and the manager refuses it | `AppductConnectionManager.kt:709` | `AppductClient.kt:229` |
| `AppCore.ResumeOpensConnection`, with `LinkTrust = TRUE` | In a link-trusting build a resume carries no pin, so no reconnect ever dials | `AppductClient.kt:595` | `ARCHITECTURE.md:604` |
| `ClientStreams.CursorIsNewestRetained` | The cursor of a page is that of its last event, below what `limit` or a filter left out. The code is right: with the cursor of the comment, whoever goes on from it would skip what was cut off (`PagerSkipsNothing`) | `daemon/event-bus.ts:155` | `client/app-client.ts:73` |
| `ClientStreams.ClientSeesClaim` | `waitForSession` asks before it subscribes: a claim between the two is not seen | `client/bootstrap.ts:104` | `client/bootstrap.ts:84` |
| `ClientStreams.EveryEventWritten` | `events` adds its listener after it awaited the answer to its subscription: an event in the same chunk is lost | `commands/events.ts` | `commands/events.ts:4` |
| `DaemonHost.NoDowngrade`, with `MCTwoBuilds` | Under the lock the version is only compared for equality, so a newer daemon that appeared meanwhile is shut down | `rpc/client.ts:812` | `ARCHITECTURE.md:168` |
| `DaemonHost.OnlyStaleSocketsUnlinked` | Shutdown removes the socket file after it released the pidfile; a successor that bound it meanwhile serves and cannot be reached | `daemon/daemon.ts:375` | `ARCHITECTURE.md:154` |
| `McpTools.ListTracksDevice` | The first refresh only records its key: a change between the agent's listing and that refresh is never announced | `mcp/server.ts:717` | `ARCHITECTURE.md:429` |
| `McpTools.NoOlderKey` | Of two refreshes that overlap the older may be done last, having more sessions to ask, and leaves its key: two sessions were live when it began, one has ended. A next change that happens to bring that key back is not announced | `mcp/server.ts:717` | `mcp/server.ts:736` |
| `McpTools.FlaggedAsListed`, with `MaxChanges = 3` | The flag is remembered by name: a name that has come to mean another session's tool carries the consent | `mcp/server.ts` | `ARCHITECTURE.md:444`, `781` |
| `AppStartup.LaunchLinkSupersedes` | Launched with a link while it has, or dials, a socket of the session it remembers, the app gives that session up and dials for the link; the old socket is still closing and the manager refuses: it has neither | `AppductConnectionManager.kt:603` | `deep-link-install.ts:81` |
| `ProgressCalls.OnlyOwnCancelled`, with callers that share a tool | Each connection hears of all calls of the session; of two calls of one tool the abort of one cancels the one that started first, which may be the other | `mcp/server.ts:540` | `mcp/server.ts:500` |
| `RpcStream.CapIsOnWhatWasWritten` | A request within the cap of 1 MiB is refused, and its connection destroyed, if a chunk ends inside one of its characters: the halves are decoded to more bytes than the character had | `daemon/rpc-server.ts:209` | `daemon/rpc-server.ts:11` |
| `SchemeSetup.RerunIsSafe` | init fails in a project that has its scheme recorded, once two native files have come to disagree: discovery throws before what is recorded is looked at, also with --scheme | `commands/init.ts:196` | `ARCHITECTURE.md:508` |
| `AuditLog.NoneMeansEmpty` | Any error of stat is taken for a file that has gone: of a directory that may be listed and not searched, or on a failing disk, `daemon status` reports 0 files and 0 bytes while they are there | `daemon/audit.ts:355` | `daemon/audit.ts:70` |
| `ToolInvocation.OverIsAnswered` | A call whose job is cancelled before its coroutine began is over and never answered. (One that has begun is answered `tool_cancelled` at once, also when its handler ignores the signal and returns a result later) | `AppductToolInvoker.kt:181`, `187` | `PROTOCOL.md:224` |

`RpcStream.TextIntact` does not hold either, though no document speaks of it: a chunk is
decoded by itself (`rpc-server.ts:207`, and `rpc/client.ts:1112` in the other direction),
so a character that two chunks share is replaced by U+FFFD in the arguments or the result
of a call.

Four more have no property: of two overlapping `connect()` calls the second overwrites
what the first waits for, which then waits for ever (`AppductClient.kt:382`); a link
that is delivered at run time while recovery is pending is superseded by the older
launch link; and an unnamed Android device is looked up again for each command, so that
the link may be opened without the forward when devices swap between the two
(`cli/open-target.ts:505`; `ForwardedBeforeOpening` is about devices that are named); and
`audit.ts:101` says that a directory which cannot be read is reported as
`{ files: 0, bytes: 0 }`, while the code (342) and `PROTOCOL.md:366` leave both out.

## 11. What the checks and proofs rest on

*Proved for all values of the constants*: every invariant and action property that a
passing run checks; that the engine implements `SessionLifecycle` and that
`ToolCalls` assumes no more of sessions; and the invariants that are proved and not
repeated in a run (`TypeOK` of several modules, `LinkSingleUse`, `HooksOfUnfinished`,
`LeftoverHistory`, `PendingIsUnsettled`, `RecordedStands` and others). Assumed are:

- `SentinelAssumption`, `CallSentinels`, `AppAssumption`, `HostSentinels`: the values for
  "none" are none of the others;
- `BoundAssumption`: limits are positive numbers; `AliasAssumption`: there are enough
  suffixes for an alias;
- `AgentToolsConstants`, `AppToolsConstants`, `ClientsConstants`, `SetUpConstants`: the same
  of the modules that a scene composes, each of which describes its constants in a
  definition "Assumed of the constants" (limits in their order, sets that are finite,
  values for "none"). They include `VersionAssumption` (versions follow semver and fit the
  reference order).

TLC evaluates each of them on the constants of the runs.

*Model-checked only*: liveness, for fairness and ENABLED are outside the prover
(`SuspensionEnds`, `UnclaimedEnds`, `SilentPeerNoticed`, `EveryCallFinishes`,
`ReconnectingEnds`, `StartsOverLeftovers`, `WaitsEnd`). The runs that expect a violation
show the disagreements of section 10 on their instances. No operator is declared
RECURSIVE: `DedupeAlias` is a bounded choice of a suffix, and `Total`, the one sum, a
recursive function. What is filtered is a set (`ClientStreams` takes a page and a backlog
as sets of numbered events, of which the oldest or newest is taken), for of `SelectSeq`
and `FoldLeft` the prover has no facts that could be cited.

*Abstractions.* Tokens are numbers or sockets' credentials, not hashes; frames are the
outcome of their validation; time is the order in which timers fire, each at any time
after it was armed, except in `ToolShape`, where deadlines are compared, and in
`AuditLog`, whose clock counts days. Sessions' ids are never reused (they are random 128
bits), nor are pids. The daemon's state is lost in a crash, as in the code, which
persists none of it.

## 12. Plan

| Step | Module | Question |
| --- | --- | --- |
| 1 | `ResumeHandshake` | app core's lease and the engine's tokens together, over a lossy connection: from a lost ack, a reload or a second manager the app recovers or learns that the session is lost (ARCHITECTURE.md section 1); needs tokens and owner generations in the lease |

*Not modelled, and why*: the iOS core (actors with their own reentrancy would need a
module of their own; its control is otherwise that of the Kotlin core), the backoff (a
pure function; `AppCore` lets a retry fire at any time), TLS identity, certificates and
pins (cryptography), build checks (one-shot inspection of archives), the parsing of
arguments, addresses and URLs and the text of frames, links and results (conversions
without state), launching an app under a test runner, and what `daemon status` prints.
Hazards without a property are listed in `PROJECT.json` with the reason.
