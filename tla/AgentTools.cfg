SPECIFICATION Spec
CONSTANTS
  None = None
  x = x
  y = y
  Aliases = {x, y}
  Jobs = {j1, j2}
  PolicyDefault = "allow"
  PolicyDestructive = "prompt"
  MaxChanges = 2
  NoOverride = NoOverride
  NoTool = NoTool
  Bare = Bare
  Tools = {t1}
  MinTimeout = 4
  MaxTimeout = 12
  DefaultTimeout = 8
  Slack = 2
  MaxNotices = 1
  MaxMoves = 3
  NaN = NaN
SYMMETRY Interchangeable
INVARIANTS
  McpSound
  GateBeforeRun
  ShapesSound
CHECK_DEADLOCK FALSE
