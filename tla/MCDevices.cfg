SPECIFICATION MCSpec
CONSTANTS
  IrqCount = 2
  Icw1s <- AllIcw1s
  Ocw2s <- AllOcw2s
  Ocw3s <- MaskOcw3s
  DataBytes <- AllBytes
  Bases = {0}
  BiosBase = 0
  None = None
INVARIANTS NoLostIrq TimerIsExact
PROPERTIES AcknowledgeNests EdgesAreReal TimerKeepsTicking
