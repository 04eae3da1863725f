\* Two guests that raise their IPL while nothing is typed; three characters, every
\* command; liveness.
SPECIFICATION FairSpec
CONSTANTS
  Guests <- GuestTwo
  Raising <- GuestTwo
  Commands = {"s", "c", "r"}
  MaxTyped = 3
  Early = TRUE
  RingSize = 2
INVARIANTS TypeOK FramesAreOwn
PROPERTIES GuestsGetCpu
