SPECIFICATION Spec
CONSTANTS
  None = None
  n1 = n1
  n2 = n2
  o1 = o1
  o2 = o2
  o3 = o3
  shapeA = shapeA
  Hooks = {h1, h2}
  ToolNames = {n1, n2}
  Shapes = {shapeA}
  Objects = {o1, o2, o3}
  Shapeless = Shapeless
  Definitions <- SomeDefinitions
  Invalid = Invalid
  Off = Off
  NoTool = NoTool
  NoHook = NoHook
  MaxCommits = 2
  MaxSockets = 2
  Links = {}
  MaxRuntimes = 0
INVARIANTS
  SnapshotIsAuthoritative
CHECK_DEADLOCK FALSE
