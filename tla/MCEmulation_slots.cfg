\* Every trapping instruction, alone and in the slot of every branch.
SPECIFICATION Spec
CONSTANTS
  Word = 16
  Half = 4
  Byte = 2
  Region = 8
  Regs <- Registers
  Link = 2
  Units <- ExactUnits
  NoUnit = NoUnit
  Shadow = FALSE
INVARIANTS TypeOK
PROPERTIES AsExecuted
CHECK_DEADLOCK FALSE
