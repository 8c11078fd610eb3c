---------------------------- MODULE MCAgentTools ---------------------------
(***************************************************************************)
(* What an agent is offered: the tool list of the MCP server, and what      *)
(* becomes of a tool's definition on the way to it. Two models side by      *)
(* side: a behaviour is one of one of them, its scene, while the variables  *)
(* of the other rest; they share no state and do not interact.              *)
(***************************************************************************)
EXTENDS Integers, TLC

CONSTANTS
  None,
  x, y, Aliases, Jobs, PolicyDefault, PolicyDestructive,             \* McpTools
  MaxChanges, NoOverride, NoTool, Bare,
  Tools, MinTimeout, MaxTimeout, DefaultTimeout, Slack, MaxNotices,  \* ToolShape
  MaxMoves, NaN

VARIABLES
  scene,
  live, tool, suspended, changes, requests, replies, open, jobs, woken, reading, older,
  overtaken, keyBehind, lastKey, emitted, channel, listing, notified, ran,
  build, entries, refused, descriptors, warnedAbout, hinted, remembered, printed, catalog,
  served, moves
mcpVars ==
  <<live, tool, suspended, changes, requests, replies, open, jobs, woken, reading, older,
    overtaken, keyBehind, lastKey, emitted, channel, listing, notified, ran>>
shapeVars ==
  <<build, entries, refused, descriptors, warnedAbout, hinted, remembered, printed, catalog,
    served, moves>>
vars == <<scene, mcpVars, shapeVars>>

-----------------------------------------------------------------------------
(* McpTools: one session has a tool of its own, or two have one of the same *)
(* name; a human decides about those of y whatever their descriptors say.   *)
Override == (x :> NoOverride) @@ (y :> "prompt")
Alone == [live |-> <<x>>, tool |-> (x :> "destructive") @@ (y :> NoTool)]
Starts == {Alone, [live |-> <<x, y>>, tool |-> (x :> "plain") @@ (y :> "plain")]}

M == INSTANCE McpTools

(* ToolShape: a schema of each kind in either slot, and odd timeouts.       *)
Timeouts == {-3, 7, 40}
Plain == {"object", "odd", "other"}
Values ==
  [form : {"standard"}, gives : Plain \union {"junk", "throws", "missing"}]
    \union [form : {"converter"}, gives : Plain \union {"junk", "throws"}]
    \union [form : {"paired", "raw"}, gives : Plain \union {"junk"}]
    \union [form : {"broken", "halfpair"}, gives : {"junk"}]
Outputs ==
  [form : {"standard"}, gives : Plain \union {"missing"}]
    \union [form : {"raw"}, gives : {"object"}]
Def(in, out, timeout, named) ==
  [input |-> in, output |-> out, timeout |-> timeout, named |-> named]
V(form, gives) == [form |-> form, gives |-> gives]
Definitions ==
  {Def(v, None, None, TRUE) : v \in Values}
    \union {Def(None, v, None, TRUE) : v \in Outputs}
    \union {Def(None, None, t, TRUE) : t \in {-1, 0, 3, 5, 20, NaN}}
    \union {Def(V("standard", "missing"), V("standard", "throws"), None, TRUE),
            Def(V("raw", "odd"), V("raw", "other"), None, TRUE),
            Def(None, None, None, FALSE)}

T == INSTANCE ToolShape

ASSUME AgentToolsConstants == M!McpAssumption /\ T!ToolShapeConstants

-----------------------------------------------------------------------------
McpAtRest == live = Alone.live /\ tool = Alone.tool /\ channel = "none"
ShapeAtRest == build = "dev"

Init ==
  /\ scene \in {"server", "shape"}
  /\ scene # "server" => McpAtRest
  /\ scene # "shape" => ShapeAtRest
  /\ M!McpInit
  /\ T!ShapeInit

Next ==
  /\ UNCHANGED scene
  /\ \/ scene = "server" /\ M!McpNext /\ UNCHANGED shapeVars
     \/ scene = "shape" /\ T!ShapeNext /\ UNCHANGED mcpVars

Spec == Init /\ [][Next]_vars

Interchangeable == Permutations(Jobs)

-----------------------------------------------------------------------------
(* The properties of the parts, where each of them is explained.            *)

(* The server compares the next change with the tools the daemon has.       *)
McpSound == scene = "server" => M!McpSound

(* No tool that a human has to approve runs without that.                   *)
GateBeforeRun == scene = "server" => M!GateBeforeRun

(* No schema is dropped in silence, and there is one deadline.              *)
ShapesSound == scene = "shape" => T!ShapesSound
=============================================================================
