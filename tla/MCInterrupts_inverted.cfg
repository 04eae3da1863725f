\* A guest that uses the INV address of its IEC register.
SPECIFICATION Spec
CONSTANTS
  Guests = {1}
  PassThrough = {"d1"}
  Soft = {"sw0"}
  Timer = "timer"
  ConRx = "rx"
  ConTx = "tx"
  Owner <- MCOwner1
  Ipl <- MCIpl
  Words = {{"d1"}}
  Polling = {}
  Levels = {0, 5}
  WriteOps = {"SET", "INV"}
  SelfRaised = {}
  Commands = {"r"}
  Debugged = {}
  TxUsed = FALSE
  NoIrq = "none"
INVARIANTS
  InjectedIsPending
