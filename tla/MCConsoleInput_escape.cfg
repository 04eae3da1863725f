\* Any character may follow the escape.
SPECIFICATION Spec
CONSTANTS
  Vms <- RootAndOne
  MaxThread = 2
  Size = 3
  Chars <- Letters
  Number <- AnyNumbers
  Esc = "esc"
  NoChar = "none"
  Careless <- NoVm
INVARIANTS InputGoesToVm
