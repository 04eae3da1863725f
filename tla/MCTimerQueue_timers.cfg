\* Two guests' timers, the tick and the function timer, over a wrap of COUNT.
SPECIFICATION Spec
CONSTANTS
  Guests <- TwoGuests
  Tick = "tick"
  Func = "func"
  Q = "timerQ"
  TickTime = 17
  FirstTime = 17
  FuncTime = 34
  Mult = 2
  Margin = 2
  Start = 3
  Wrap = 16
  Delays = {0, 5}
  Latency = 1
  Spend = 1
  Pause = 2
  Horizon = 28
INVARIANTS TypeOK QueueIsSorted HeadIsArmed FiresInTime
PROPERTY NeverEarly
CHECK_DEADLOCK FALSE
