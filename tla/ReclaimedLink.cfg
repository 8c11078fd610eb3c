SPECIFICATION StartupSpec
CONSTANTS
  Links = {l1, l2}
  MaxRuntimes = 3
  None = None
PROPERTY RedeliveryIgnored
CHECK_DEADLOCK FALSE
