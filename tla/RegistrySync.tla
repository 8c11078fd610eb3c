--------------------------- MODULE RegistrySync ---------------------------
(***************************************************************************)
(* How a tool that a component of the app declares gets into the daemon's   *)
(* registry: the hook useAppductTool and its effects, the client's map of   *)
(* handlers, the native registry, the tasks posted to the native            *)
(* dispatcher, the frames on each socket of the session, and the registry   *)
(* of the session in the daemon (packages/react-native/src,                 *)
(* AppductToolRegistry.kt, AppductClient.kt, daemon/registry.ts).           *)
(*                                                                          *)
(* The JavaScript thread runs one effect at a time, with the native         *)
(* dispatcher, the sockets and the daemon free to act between two of them.  *)
(* A tool's schema is its published shape; a schema that exports no shape   *)
(* (Shapeless) is told from another only by the object it is, and an        *)
(* Invalid one is refused by registerTool.                                  *)
(***************************************************************************)
EXTENDS Naturals, FiniteSets, Sequences, SequencesExt

CONSTANTS
  Hooks,        \* the mounted components that call useAppductTool
  ToolNames,    \* the names they give their tools
  Shapes,       \* what the definitions publish, without the two below
  Objects,      \* the schema objects a component may pass
  Definitions,  \* the definitions they render
  Shapeless,    \* no JSON Schema is exported
  Invalid,      \* registerTool throws
  Off,          \* the hook is disabled, or its component unmounted
  NoTool,       \* no entry under a name
  NoHook,       \* nobody
  MaxCommits,   \* bound: commits of the component tree and unregisterTool calls
  MaxSockets    \* bound: sockets the app opens

\* Assumed of the constants.
RegistryConstants ==
  /\ MaxCommits \in Nat
  /\ MaxSockets \in Nat
  /\ Definitions \subseteq [name : ToolNames, shape : Shapes \union {Shapeless, Invalid},
                            object : Objects]
  /\ IsFiniteSet(Hooks)
  /\ Off \notin Definitions
  /\ NoHook \notin Hooks
  /\ NoTool \notin [by : Hooks, def : Definitions]

VARIABLES
  wanted,     \* the definition each hook rendered last: definitionRef.current
  holds,      \* the registration each hook's cleanup would remove
  effects,    \* the effects of the last commit still to run
  tools,      \* the client's map: the entry under each name
  last,       \* who registered a name last, unless it was unregistered by name
  native,     \* the native registry: the shape published under each name
  posted,     \* tasks of the native dispatcher: deltas and snapshots
  link,       \* the app's client state
  socket,     \* the app's socket
  wires,      \* the registry frames on each socket
  daemon,     \* the daemon's registry of the session
  outdated,   \* history: names that a frame of a socket left behind was the last to write
  commits
hookVars == <<wanted, holds, effects, tools, last, native, commits>>
linkVars == <<link, socket, wires, daemon, outdated>>
registryVars == <<hookVars, posted, linkVars>>

Nothing == [n \in ToolNames |-> NoTool]

RegistryInit ==
  /\ wanted = [h \in Hooks |-> Off]
  /\ holds = [h \in Hooks |-> Off]
  /\ effects = <<>>
  /\ tools = Nothing
  /\ last = [n \in ToolNames |-> NoHook]
  /\ native = Nothing
  /\ posted = <<>>
  /\ link = "idle"
  /\ socket = 0
  /\ wires = [s \in 1..MaxSockets |-> <<>>]
  /\ daemon = Nothing
  /\ outdated = {}
  /\ commits = 0

-----------------------------------------------------------------------------
(* The hook.                                                                *)

\* A variant for which all schemas without a shape are alike.
KeyByShape(d) == IF d = Off THEN <<"off">> ELSE <<d.name, d.shape>>

(* What the effect depends on: the name, the exported shape, and for a      *)
(* schema that exports none the object itself (schemaKey).                  *)
Key(d) ==
  IF d = Off THEN <<"off">>
  ELSE IF d.shape = Shapeless THEN <<d.name, d.shape, d.object>>
  ELSE <<d.name, d.shape>>

(* The effects of a commit: the cleanups of every hook whose key changed,   *)
(* then their registrations.                                                *)
Work(before, after) ==
  LET changed == {h \in Hooks : Key(before[h]) # Key(after[h])}
      leaving == SetToSeq({h \in changed : before[h] # Off})
      coming == SetToSeq({h \in changed : after[h] # Off})
  IN [i \in DOMAIN leaving |-> [do |-> "remove", hook |-> leaving[i]]]
       \o [i \in DOMAIN coming |-> [do |-> "register", hook |-> coming[i]]]

Commit ==
  /\ effects = <<>>
  /\ commits < MaxCommits
  /\ \E w \in [Hooks -> Definitions \union {Off}] :
       /\ w # wanted
       /\ wanted' = w
       /\ effects' = Work(wanted, w)
  /\ commits' = commits + 1
  /\ UNCHANGED <<holds, tools, last, native, posted, linkVars>>

Delta(n) == [task |-> "delta", name |-> n, shape |-> native'[n]]

\* A variant in which native takes what it is given.
NoneRefused(d) == FALSE
Refused(d) == d.shape = Invalid

(* registerTool: native refuses an invalid descriptor before the client's   *)
(* own entry is written, and the throw takes the component down.            *)
RegisterTool ==
  /\ effects # <<>>
  /\ Head(effects).do = "register"
  /\ effects' = Tail(effects)
  /\ LET h == Head(effects).hook
         d == wanted[h]
     IN IF Refused(d)
        THEN /\ wanted' = [wanted EXCEPT ![h] = Off]
             /\ UNCHANGED <<holds, tools, last, native, posted>>
        ELSE /\ native' = [native EXCEPT ![d.name] = d.shape]
             /\ posted' = Append(posted, Delta(d.name))
             /\ tools' = [tools EXCEPT ![d.name] = [by |-> h, def |-> d]]
             /\ last' = [last EXCEPT ![d.name] = h]
             /\ holds' = [holds EXCEPT ![h] = d]
             /\ UNCHANGED wanted
  /\ UNCHANGED <<commits, linkVars>>

\* A variant whose disposer goes by the name alone.
RemovesByName(h, n) == tools[n] # NoTool

(* The disposer of a registration that a newer one under the same name has  *)
(* replaced does nothing.                                                   *)
Removes(h, n) == tools[n] # NoTool /\ tools[n].by = h

Unregister(n) ==
  /\ tools' = [tools EXCEPT ![n] = NoTool]
  /\ native' = [native EXCEPT ![n] = NoTool]
  /\ posted' = Append(posted, Delta(n))

RemoveTool ==
  /\ effects # <<>>
  /\ Head(effects).do = "remove"
  /\ effects' = Tail(effects)
  /\ LET h == Head(effects).hook
         d == holds[h]
     IN /\ holds' = [holds EXCEPT ![h] = Off]
        /\ IF d # Off /\ Removes(h, d.name)
           THEN Unregister(d.name)
           ELSE UNCHANGED <<tools, native, posted>>
  /\ UNCHANGED <<wanted, last, commits, linkVars>>

(* The app's own unregisterTool(name), whoever registered it.               *)
UnregisterByName(n) ==
  /\ effects = <<>>
  /\ commits < MaxCommits
  /\ tools[n] # NoTool
  /\ Unregister(n)
  /\ last' = [last EXCEPT ![n] = NoHook]
  /\ commits' = commits + 1
  /\ UNCHANGED <<wanted, holds, effects, linkVars>>

-----------------------------------------------------------------------------
(* The native core.                                                         *)

(* A task of the dispatcher: a delta says what it was posted with, a        *)
(* snapshot what the registry holds when it runs; both are dropped unless   *)
(* the session is active.                                                   *)
Frame(t) == IF t.task = "snapshot" THEN [task |-> "snapshot", all |-> native] ELSE t

RunPosted ==
  /\ posted # <<>>
  /\ posted' = Tail(posted)
  /\ wires' = IF link = "active"
              THEN [wires EXCEPT ![socket] = Append(@, Frame(Head(posted)))]
              ELSE wires
  /\ UNCHANGED <<hookVars, link, socket, daemon, outdated>>

(* The socket closes under the app, with what it had not delivered.         *)
Disconnect ==
  /\ link = "active"
  /\ link' = "reconnecting"
  /\ \E k \in 0..Len(wires[socket]) :
       wires' = [wires EXCEPT ![socket] = SubSeq(@, 1, k)]
  /\ UNCHANGED <<hookVars, posted, socket, daemon, outdated>>

Snapshot == [task |-> "snapshot"]

\* A variant that sends the snapshot on the first socket only.
AdmittedSilently ==
  /\ socket < MaxSockets
  /\ socket' = socket + 1
  /\ link' = "active"
  /\ posted' = IF socket = 0 THEN Append(posted, Snapshot) ELSE posted

(* A new socket is admitted and the app hears the ack.                      *)
Admitted ==
  /\ socket < MaxSockets
  /\ socket' = socket + 1
  /\ link' = "active"
  /\ posted' = Append(posted, Snapshot)

(* A resume keeps the daemon's registry until the snapshot arrives. Frames  *)
(* that are on their way on the socket it replaces may still be read.       *)
Resume ==
  /\ link = "reconnecting"
  /\ Admitted
  /\ outdated' = {}
  /\ UNCHANGED <<hookVars, wires, daemon>>

SessionLost ==
  /\ link = "reconnecting"
  /\ link' = "idle"
  /\ UNCHANGED <<hookVars, posted, socket, wires, daemon, outdated>>

(* A claim is another session: its registry is empty, and frames of the     *)
(* old session's sockets go to the old session.                             *)
Claim ==
  /\ link = "idle"
  /\ Admitted
  /\ wires' = [s \in 1..MaxSockets |-> <<>>]
  /\ daemon' = Nothing
  /\ outdated' = {}
  /\ UNCHANGED hookVars

-----------------------------------------------------------------------------
(* The daemon: whichever admitted socket a registry frame comes on.         *)

Applied(f) ==
  IF f.task = "snapshot" THEN f.all ELSE [daemon EXCEPT ![f.name] = f.shape]

Written(f) == IF f.task = "snapshot" THEN ToolNames ELSE {f.name}

DaemonReads(s) ==
  /\ wires[s] # <<>>
  /\ wires' = [wires EXCEPT ![s] = Tail(@)]
  /\ daemon' = Applied(Head(wires[s]))
  /\ outdated' = IF s = socket THEN outdated \ Written(Head(wires[s]))
                 ELSE outdated \union Written(Head(wires[s]))
  /\ UNCHANGED <<hookVars, posted, link, socket>>

RegistryNext ==
  \/ Commit
  \/ RegisterTool
  \/ RemoveTool
  \/ \E n \in ToolNames : UnregisterByName(n)
  \/ RunPosted
  \/ Disconnect
  \/ Resume
  \/ SessionLost
  \/ Claim
  \/ \E s \in 1..MaxSockets : DaemonReads(s)

RegistrySpec == RegistryInit /\ [][RegistryNext]_registryVars

-----------------------------------------------------------------------------
Published == Shapes \union {Shapeless, NoTool}
Deltas == [task : {"delta"}, name : ToolNames, shape : Published]

(* The types: what is registered and published is never an invalid          *)
(* definition, and no frame is on a socket the app has not opened.          *)
RegistryTypeOK ==
  /\ wanted \in [Hooks -> Definitions \union {Off}]
  /\ \A h \in Hooks :
       holds[h] # Off => holds[h] \in Definitions /\ holds[h].shape # Invalid
  /\ \A i \in DOMAIN effects :
       effects[i] \in [do : {"remove", "register"}, hook : Hooks]
  /\ \A n \in ToolNames :
       tools[n] # NoTool => tools[n] \in [by : Hooks, def : Definitions]
  /\ last \in [ToolNames -> Hooks \union {NoHook}]
  /\ native \in [ToolNames -> Published]
  /\ \A i \in DOMAIN posted : posted[i] \in Deltas \union {Snapshot}
  /\ link \in {"idle", "active", "reconnecting"}
  /\ socket \in 0..MaxSockets
  /\ \A s \in 1..MaxSockets : s > socket => wires[s] = <<>>
  /\ daemon \in [ToolNames -> Published]
  /\ outdated \subseteq ToolNames
  /\ commits \in 0..MaxCommits

(* The last registration of a name stands until its own cleanup or          *)
(* unregisterTool removes it: remounts, renames and the cleanup of another  *)
(* hook that had the name before never take it away (useAppductTool's       *)
(* "identity-safe disposer").                                               *)
LastRegistrationStands ==
  \A n \in ToolNames, h \in Hooks :
    last[n] = h /\ holds[h] # Off /\ holds[h].name = n =>
      tools[n] # NoTool /\ tools[n].by = h /\ native[n] = holds[h].shape

(* Between commits, the entry of a hook that registered its name last is    *)
(* the one its latest render describes, although the hook re-registers only *)
(* when the derived key changed: the same shape, and for a schema without a *)
(* shape the very object the calls are to be validated against.             *)
HookKeepsUp ==
  effects = <<>> =>
    \A h \in Hooks :
      wanted[h] # Off /\ last[wanted[h].name] = h =>
        LET entry == tools[wanted[h].name]
        IN /\ entry # NoTool
           /\ entry.def.shape = wanted[h].shape
           /\ wanted[h].shape = Shapeless => entry.def.object = wanted[h].object

Settled ==
  /\ link = "active"
  /\ effects = <<>>
  /\ posted = <<>>
  /\ \A s \in 1..MaxSockets : wires[s] = <<>>

(* Once nothing is under way, the daemon of an active session has of each   *)
(* tool what the app has: deltas sent before, during or after a reconnect   *)
(* and the snapshot that follows it add up, whatever the disconnect lost.   *)
(* The one exception is a tool that a frame of a socket the session had     *)
(* left was the last to write, after the snapshot (outdated).               *)
RegistryConverges ==
  Settled => \A n \in ToolNames \ outdated : daemon[n] = native[n]

(* "After resume the app re-sends a full `tool_registry_snapshot`           *)
(* (authoritative; replaces the retained registry)" (ARCHITECTURE.md): the  *)
(* daemon lists exactly the tools the app has. A frame of the replaced      *)
(* socket may undo that: README, section 10.                                *)
SnapshotIsAuthoritative == Settled => daemon = native

(* The app's side as a whole: the handler and definition of a name are      *)
(* those of the last registration that stands, and a hook publishes what    *)
(* its component asks for.                                                  *)
RegistrySound == RegistryTypeOK /\ LastRegistrationStands /\ HookKeepsUp
=============================================================================
