\* Register blocks that cross a boundary of their page size.  The same holds of
\* OddConfigurations and SplitConfigurations.
SPECIFICATION ScriptSpec
CONSTANTS
  Sizes <- ThreeSizes
  Base = 16
  Space = 256
  None = None
  Vms <- OneVm
  Devices <- Emulators
  Configurations <- BlockConfigurations
INVARIANTS RegionsReached
CHECK_DEADLOCK FALSE
