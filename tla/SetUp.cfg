SPECIFICATION Spec
CONSTANTS
  None = None
  Simulators = {sim1}
  Androids = {and1, and2}
  Phones = {phone1}
  Schemes = {s1, s2}
  s1 = s1
  s2 = s2
  MaxMoves = 3
  Records = {r1, r2}
  LastDay = 3
  RetentionDays = 1
  MaxPrunes = 1
  Daemons = {d1, d2, d3}
  Files = {1, 2, 3, 4}
  MaxBytes = 1
INVARIANTS
  DeliverySound
  SetupSound
  AuditSound
  RotationSound
PROPERTIES
  RetainedStay
CHECK_DEADLOCK FALSE
