\* A ring of four places, a FIFO of two; printing, direct lines and the IRQ.
SPECIFICATION FairSpec
CONSTANTS
  Size = 4
  Depth = 2
  Lines <- MCLines
  Direct <- MCDirect
  LineFeed = "nl"
  Return = "cr"
  NoChar = "none"
INVARIANTS TypeOK
PROPERTIES IsTranscript TextGoesOut
