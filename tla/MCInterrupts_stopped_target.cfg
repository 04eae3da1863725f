\* A guest is stopped and its device goes on; guests use their IPL.
SPECIFICATION Spec
CONSTANTS
  Guests = {1, 2}
  PassThrough = {"d2"}
  Soft = {"sw0"}
  Timer = "timer"
  ConRx = "rx"
  ConTx = "tx"
  Owner <- MCOwner
  Ipl <- MCIpl
  Words = {{"d2"}}
  Polling = {}
  Levels = {0, 5}
  WriteOps = {"WR", "CLR", "SET"}
  SelfRaised = {"d2"}
  Commands = {"s"}
  Debugged = {}
  TxUsed = FALSE
  NoIrq = "none"
INVARIANTS
  RequestIsOwn
