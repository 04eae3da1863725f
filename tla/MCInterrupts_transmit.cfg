\* A guest that enables the receive IRQ of its UART while it transmits.
SPECIFICATION Spec
CONSTANTS
  Guests = {1}
  PassThrough = {"d1"}
  Soft = {"sw0"}
  Timer = "timer"
  ConRx = "rx"
  ConTx = "tx"
  Owner <- MCOwner1
  Ipl <- MCIpl
  Words = {{"rx", "tx"}}
  Polling = {}
  Levels = {0, 5}
  WriteOps = {"WR", "CLR", "SET"}
  SelfRaised = {}
  Commands = {"r"}
  Debugged = {}
  TxUsed = TRUE
  NoIrq = "none"
INVARIANTS
  NoLostInterrupt
