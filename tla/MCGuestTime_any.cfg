\* A guest that sets COUNT whenever it likes, COUNT going on inside MTC0 COUNT,
\* and timer IRQs that insert_IRQ notes before GHFC.
SPECIFICATION Spec
CONSTANTS
  W = 6
  Starts = {2}
  Values = {0, 2, 5}
  Latency = 1
  Spend = 1
  Horizon = 14
  LateWrites = TRUE
  Noted = {TRUE, FALSE}
  KeptFlags = FALSE
INVARIANTS ArmedForCompare ArtificialCount
CHECK_DEADLOCK FALSE
