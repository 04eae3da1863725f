\* Whole pages only.
SPECIFICATION ScriptSpec
CONSTANTS
  Sizes <- ThreeSizes
  Base = 16
  Space = 256
  None = None
  Vms <- OneVm
  Devices <- Emulators
  Configurations <- PageConfigurations
INVARIANTS OthersRefused
CHECK_DEADLOCK FALSE
