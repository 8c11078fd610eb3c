SPECIFICATION FairSpec
CONSTANTS
  Roles = {"event tool", "event client", "session tool", "session client", "pager", "events command"}
  RingSize = 2
  PageSize = 1
  MaxCursor = 4
  Nothing = Nothing
  c1 = c1
  c2 = c2
  Callers = {c1, c2}
  ToolOf <- TwoTools
  NoCall = NoCall
  Calls = {c1}
  MaxCalls = 2
  MaxLineBytes = 6
  MaxNotifyBuffered = 1
  MaxEvents = 2
  Versions <- SomeVersions
  Longest = 4
  Largest = 10
INVARIANTS
  StreamsSound
  PagerSkipsNothing
  ProgressSound
  InvocationSound
  RpcSound
  VersionsSound
PROPERTIES
  WaitsEnd
CHECK_DEADLOCK FALSE
