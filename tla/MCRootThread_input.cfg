\* Two characters may come in one UART interrupt.
SPECIFICATION FairSpec
CONSTANTS
  Guests <- NoGuest
  Raising <- NoGuest
  Commands = {"s"}
  MaxTyped = 2
  Early = FALSE
  RingSize = 2
PROPERTIES InputServed
