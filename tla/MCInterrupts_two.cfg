\* Two guests with a device each; guest 1 polls, guest 2 has handlers.
SPECIFICATION Spec
CONSTANTS
  Guests = {1, 2}
  PassThrough = {"d1", "d2"}
  Soft = {"sw0"}
  Timer = "timer"
  ConRx = "rx"
  ConTx = "tx"
  Owner <- MCOwner
  Ipl <- MCIpl
  Words = {{"d1", "d2"}}
  Polling = {1}
  Levels = {0, 5}
  WriteOps = {"WR", "CLR", "SET"}
  SelfRaised = {"d1", "d2"}
  Commands = {"r"}
  Debugged = {}
  TxUsed = FALSE
  NoIrq = "none"
INVARIANTS TypeOK RequestIsOwn NoStuckMask NoLostInterrupt TakenIsTracked IntStatIsTaken
