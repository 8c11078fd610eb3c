----------------------------- MODULE MCClients -----------------------------
(***************************************************************************)
(* Who waits for something, and what may end the wait: models side by side. *)
(* A behaviour is one of one of them, its scene, while the variables of the *)
(* others rest; they share no state and do not interact. The names that two *)
(* of them have are apart here (askedOfApp, controllers, ...).              *)
(***************************************************************************)
EXTENDS Integers, TLC

CONSTANTS
  Roles, RingSize, PageSize, MaxCursor, Nothing,  \* ClientStreams
  Callers, c1, c2, ToolOf, NoCall,                \* ProgressCalls
  Calls,                                          \* ToolInvocation
  MaxCalls, MaxLineBytes, MaxNotifyBuffered, MaxEvents, \* RpcStream
  Versions, Longest, Largest                      \* VersionOrder

VARIABLES
  scene,
  role, session, cursor, ring, subscribed, asked, wire, since, step, answer, midChunk,
  early, highest, timer, outcome, got, due,
  phase, aborted, learned, forwarded, resuming, toDaemon, fromDaemon, listed, running,
  progressed, cancelled,
  registered, askedOfApp, told, suspended, tasks, job, cause, inFlight, pending, reply,
  answers, events, alive, handler, controllers, signalled,
  made, request, unanswered, ended, heard, sock, bytes, buffer, handled, handlers, conn,
  refused, out, flushed, occurred,
  own, other
streamVars ==
  <<role, session, cursor, ring, subscribed, asked, wire, since, step, answer, midChunk,
    early, highest, timer, outcome, got, due>>
progressVars ==
  <<phase, aborted, learned, forwarded, resuming, toDaemon, fromDaemon, listed, running,
    progressed, cancelled>>
invocationVars ==
  <<registered, askedOfApp, told, suspended, tasks, job, cause, inFlight, pending, reply,
    answers, events, alive, handler, controllers, signalled>>
rpcVars ==
  <<made, request, unanswered, ended, heard, sock, bytes, buffer, handled, handlers, conn,
    refused, out, flushed, occurred>>
versionVars == <<own, other>>

(* Two calls of different tools.                                            *)
TwoTools == (c1 :> "t1") @@ (c2 :> "t2")

(* Spellings of versions, from <<1>> to <<1, 1>>-10.b, and "nightly".       *)
Number(n) == [numeric |-> TRUE, rank |-> n, zeros |-> 0]
Word(n) == [numeric |-> FALSE, rank |-> n, zeros |-> 0]
Identifiers == {Number(1), Number(2), Number(10), Word(1), Word(2)}
SomeVersions ==
  [numbers : {<<>>, <<1>>, <<1, 0>>, <<1, 1>>},
   prerelease : {<<>>} \union [1..1 -> Identifiers] \union [1..2 -> Identifiers]]
Nightly == [numbers |-> <<>>, prerelease |-> <<>>]

S == INSTANCE ClientStreams
P == INSTANCE ProgressCalls
I == INSTANCE ToolInvocation
       WITH asked <- askedOfApp, running <- controllers, aborted <- signalled
R == INSTANCE RpcStream
       WITH pending <- unanswered, got <- ended, running <- handlers,
            toDaemon <- bytes, fromDaemon <- flushed
V == INSTANCE VersionOrder

ASSUME ClientsConstants ==
  /\ S!StreamAssumption
  /\ P!ProgressAssumption
  /\ R!RpcAssumption
  /\ V!VersionAssumption

vars == <<scene, streamVars, progressVars, invocationVars, rpcVars, versionVars>>

AtRest == role = "event tool" /\ session = "pending"

Init ==
  /\ scene \in {"streams", "progress", "invocation", "connection", "versions"}
  /\ scene # "streams" => AtRest
  /\ S!StreamInit
  /\ P!ProgressInit
  /\ I!InvocationInit
  /\ R!RpcInit
  /\ IF scene = "versions" THEN V!VersionInit ELSE own = Nightly /\ other = Nightly

InStreams ==
  scene = "streams" /\ UNCHANGED <<scene, progressVars, invocationVars, rpcVars, versionVars>>
InProgress ==
  scene = "progress" /\ UNCHANGED <<scene, streamVars, invocationVars, rpcVars, versionVars>>
InInvocation ==
  scene = "invocation" /\ UNCHANGED <<scene, streamVars, progressVars, rpcVars, versionVars>>
OnConnection ==
  scene = "connection" /\ UNCHANGED <<scene, streamVars, progressVars, invocationVars, versionVars>>

Next ==
  \/ InStreams /\ S!StreamNext
  \/ InProgress /\ P!ProgressNext
  \/ InInvocation /\ I!InvocationNext
  \/ OnConnection /\ R!RpcNext

Spec == Init /\ [][Next]_vars

(* The fairness of the parts (StreamFairness, FairInvocationSpec).          *)
Fairness ==
  /\ WF_vars(InStreams /\ S!ClientSteps)
  /\ WF_vars(InStreams /\ S!TimesOut)
  /\ WF_vars(InStreams /\ S!RequestTimesOut)
  /\ WF_vars(InInvocation /\ I!Dispatch)
  /\ \A c \in Calls : WF_vars(InInvocation /\ I!TimesOut(c))

FairSpec == Spec /\ Fairness

-----------------------------------------------------------------------------
(* The properties of the parts, where each of them is explained.            *)

(* What a waiting client is given, and that it misses nothing.              *)
StreamsSound == scene = "streams" => S!StreamsSound

(* A pager is given everything that is still retained.                      *)
PagerSkipsNothing == scene = "streams" => S!PagerSkipsNothing

(* Calls with progress: aborts and progress reach the call they are of.     *)
ProgressSound == scene = "progress" => P!ProgressSound

(* The app answers a call once, and a handler that was given up is told.    *)
InvocationSound == scene = "invocation" => I!InvocationSound

(* A connection of the control plane: requests, answers and events on it.   *)
RpcSound == scene = "connection" => R!RpcSound

(* Versions are ordered as semver has them.                                 *)
VersionsSound == scene = "versions" => V!VersionsSound

(* A wait for an event or a session that has begun ends, and a call that    *)
(* JavaScript was asked to run is answered.                                 *)
WaitsEnd == S!Settles /\ I!StartedIsAnswered
=============================================================================
