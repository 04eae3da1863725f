\* One guest with its CP0 timer and the emulated UART, transmitter included; the
\* root console stops, continues and restarts it in debug mode.  A store by WR reaches
\* what CLR and SET do.
SPECIFICATION Spec
CONSTANTS
  Guests = {1}
  PassThrough = {"d1"}
  Soft = {"sw0"}
  Timer = "timer"
  ConRx = "rx"
  ConTx = "tx"
  Owner <- MCOwner1
  Ipl <- MCIpl
  Words = {{"timer", "rx", "tx"}}
  Polling = {}
  Levels = {0, 5}
  WriteOps = {"WR"}
  SelfRaised = {"rx", "tx"}
  Commands = {"s", "c", "r"}
  Debugged = {1}
  TxUsed = TRUE
  NoIrq = "none"
INVARIANTS InjectedIsPending NoLostTimer TransmitterAsks SleeperHasNothing
