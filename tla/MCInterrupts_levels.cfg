\* Two guests; guest 2 owns two devices of different levels.  Guests hide IRQs by
\* their IPL, wait, are switched, continued and restarted.
SPECIFICATION FairSpec
CONSTANTS
  Guests = {1, 2}
  PassThrough = {"d1", "d2"}
  Soft = {"sw0"}
  Timer = "timer"
  ConRx = "rx"
  ConTx = "tx"
  Owner <- MCOwner2
  Ipl <- MCIpl2
  Words = {{"d1", "d2"}}
  Polling = {}
  Levels = {0, 5}
  WriteOps = {"CLR", "SET"}
  SelfRaised = {}
  Commands = {"c", "r"}
  Debugged = {}
  TxUsed = FALSE
  NoIrq = "none"
PROPERTIES DeviceServed
