\* Guest 1 may raise its IPL above that of its own IRQs.
SPECIFICATION Spec
CONSTANTS
  Guests <- GuestTwo
  Raising <- GuestOne
  Commands = {"s", "c", "r"}
  MaxTyped = 3
  Early = FALSE
  RingSize = 2
INVARIANTS FramesAreOwn
