\* The guest acknowledges its receive IRQ when it likes.
SPECIFICATION Spec
CONSTANTS
  Vms <- RootAndOne
  MaxThread = 2
  Size = 3
  Chars <- Digits
  Number <- Numbers
  Esc = "esc"
  NoChar = "none"
  Careless <- NoVm
INVARIANTS InputAsks
