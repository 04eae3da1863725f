\* Two guests with different pages at the same guest addresses.
SPECIFICATION RunSpec
CONSTANTS
  Sizes <- ThreeSizes
  Base = 16
  Space = 256
  None = None
  Vms <- TwoVms
  Devices <- Emulators
  Configurations <- MixedTwice
  Running <- MixedTwice
  Accessed <- Few
  Ways <- TwoWays
  Hash <- HashBlock
  HashSmall <- HashBit
INVARIANTS CachesAreTransparent
CHECK_DEADLOCK FALSE
