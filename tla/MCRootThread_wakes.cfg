\* One guest that need not wait; a character is typed at the root.
SPECIFICATION FairSpec
CONSTANTS
  Guests <- GuestOne
  Raising <- NoGuest
  Commands = {"s"}
  MaxTyped = 2
  Early = FALSE
  RingSize = 2
PROPERTIES InputWakesRoot
