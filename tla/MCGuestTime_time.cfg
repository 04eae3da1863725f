\* A wrap of 6 counts, a guest that sets COUNT at boot only, three wraps.
SPECIFICATION Spec
CONSTANTS
  W = 6
  Starts = {2}
  Values = {0, 2, 5}
  Latency = 1
  Spend = 1
  Horizon = 18
  LateWrites = FALSE
  Noted = {TRUE}
  KeptFlags = FALSE
INVARIANTS TypeOK ArtificialCount ArmedForCompare WithinWrap
PROPERTY KeepsTime
CHECK_DEADLOCK FALSE
