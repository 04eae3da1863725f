\* A guest that sets COUNT at boot only, COUNT going on inside MTC0 COUNT, timer
\* IRQs noted either way, and debug restarts.
SPECIFICATION Spec
CONSTANTS
  W = 6
  Starts = {2}
  Values = {0, 2, 5}
  Latency = 1
  Spend = 1
  Horizon = 14
  LateWrites = FALSE
  Noted = {TRUE, FALSE}
  KeptFlags = TRUE
INVARIANTS TypeOK WithinWrap
CHECK_DEADLOCK FALSE
