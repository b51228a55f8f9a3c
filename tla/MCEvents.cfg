CONSTANTS
  u1 = u1
  m1 = m1
  s1 = s1
  s2 = s2
  None = None
  Users = {u1}
  Markets = {m1}
  Streams = {s1, s2}
  Callers <- MCCallers
  Limit <- MCLimit
  Window <- MCWindow
  MaxWindow = 2
  MaxTime = 3
  Capacity = 2
  MaxEvents = 3
  MaxShutdowns = 1
CHECK_DEADLOCK FALSE
SPECIFICATION Spec
CONSTRAINT Bounds
INVARIANTS LimitIsExact NoGaps
PROPERTIES ShutdownEnds NoLeak
