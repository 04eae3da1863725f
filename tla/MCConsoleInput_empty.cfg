\* The guest reads its receive register without looking at the status first.
SPECIFICATION Spec
CONSTANTS
  Vms <- RootAndOne
  MaxThread = 2
  Size = 3
  Chars <- Digits
  Number <- Numbers
  Esc = "esc"
  NoChar = "none"
  Careless <- GuestOne
PROPERTIES IsQueue
