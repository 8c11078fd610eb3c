----------------------------- MODULE MCAppTools ----------------------------
(***************************************************************************)
(* The React Native side: the tools that hooks register and the daemon      *)
(* lists, and the start of the app. Two models side by side: a behaviour is *)
(* one of one of them, its scene, while the variables of the other rest;    *)
(* they share no state and do not interact.                                 *)
(***************************************************************************)
EXTENDS Integers, TLC

CONSTANTS
  None,
  n1, n2, o1, o2, o3, shapeA, Hooks, ToolNames, Shapes, Objects,         \* RegistrySync
  Shapeless, Definitions, Invalid, Off, NoTool, NoHook, MaxCommits, MaxSockets,
  Links, MaxRuntimes                                                     \* AppStartup

VARIABLES
  scene,
  shown, holds, effects, tools, last, native, posted, link, socket, wires, daemon,
  outdated, commits,
  linked, launch, runtime, started, client, lease, used, expired, wanted,
  obstructed
registryVars ==
  <<shown, holds, effects, tools, last, native, posted, link, socket, wires, daemon, outdated,
    commits>>
startupVars ==
  <<linked, launch, runtime, started, client, lease, used, expired, wanted, obstructed>>
vars == <<scene, registryVars, startupVars>>

-----------------------------------------------------------------------------
(* RegistrySync: the definitions that hooks render. What tells o1 from o2    *)
(* is only that they are different objects.                                 *)
Tool(n, s, o) == [name |-> n, shape |-> s, object |-> o]
SomeDefinitions ==
  {Tool(n1, Shapeless, o1), Tool(n1, Shapeless, o2), Tool(n1, Invalid, o3), Tool(n2, shapeA, o3)}
Interchangeable == Permutations({o1, o2})

R == INSTANCE RegistrySync WITH wanted <- shown

A == INSTANCE AppStartup

ASSUME AppToolsConstants == R!RegistryConstants /\ A!StartupConstants

-----------------------------------------------------------------------------
StartupAtRest == linked = TRUE

Init ==
  /\ scene \in {"registry", "startup"}
  /\ scene # "startup" => StartupAtRest
  /\ R!RegistryInit
  /\ A!StartupInit

Next ==
  /\ UNCHANGED scene
  /\ \/ scene = "registry" /\ R!RegistryNext /\ UNCHANGED startupVars
     \/ scene = "startup" /\ A!StartupNext /\ UNCHANGED registryVars

Spec == Init /\ [][Next]_vars

-----------------------------------------------------------------------------
(* The properties of the parts, where each of them is explained.            *)

(* The last registration of a name stands, and a hook keeps up.             *)
RegistrySound == scene = "registry" => R!RegistrySound

(* Daemon and app come to list the same tools, but for frames that are late. *)
RegistryConverges == scene = "registry" => R!RegistryConverges

(* The same without the exception: README, section 10.                     *)
SnapshotIsAuthoritative == scene = "registry" => R!SnapshotIsAuthoritative

(* The link an app was launched with is not left for an older session.      *)
StartupSound == scene = "startup" => A!StartupSound
=============================================================================
