\* Two guests with a software IRQ each, and a device of guest 2, less urgent, in the
\* same word.  The root console stops, continues and restarts them.
SPECIFICATION FairSpec
CONSTANTS
  Guests = {1, 2}
  PassThrough = {"d2"}
  Soft = {"sw0"}
  Timer = "timer"
  ConRx = "rx"
  ConTx = "tx"
  Owner <- MCOwner
  Ipl <- MCIplSoft
  Words = {{"d2", "sw0"}}
  Polling = {}
  Levels = {0}
  WriteOps = {"CLR", "SET"}
  SelfRaised = {"sw0"}
  Commands = {"s", "c", "r"}
  Debugged = {}
  TxUsed = FALSE
  NoIrq = "none"
PROPERTIES DeviceServed
INVARIANTS NoLostInterrupt
