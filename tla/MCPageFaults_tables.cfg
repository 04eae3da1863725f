\* Configurations of all kinds through script and table walks; one guest on its tables.
SPECIFICATION RunSpec
CONSTANTS
  Sizes <- ThreeSizes
  Base = 16
  Space = 256
  None = None
  Vms <- TwoVms
  Devices <- Emulators
  Configurations <- TablesAndRun
  Running <- MixedOnce
  Accessed <- Some
  Ways <- TwoWays
  Hash <- HashBlock
  HashSmall <- HashBit
INVARIANTS RegionsReached DirectIsConfigured GuestsApart CachesAreTransparent
CHECK_DEADLOCK FALSE
