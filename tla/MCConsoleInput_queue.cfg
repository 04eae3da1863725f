\* Root and one guest, rings of two characters, two characters.
SPECIFICATION Spec
CONSTANTS
  Vms <- RootAndOne
  MaxThread = 2
  Size = 3
  Chars <- Digits
  Number <- Numbers
  Esc = "esc"
  NoChar = "none"
  Careless <- NoVm
INVARIANTS TypeOK
PROPERTIES IsQueue
