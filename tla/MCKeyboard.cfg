SPECIFICATION MCSpec
CONSTANTS
  Slots = 3
  ScanBytes <- MCScanBytes
  StoredKeys <- MCStoredKeys
  HostShifts <- MCHostShifts
  MaxReads = 2
INVARIANTS ScansAreWhole ReadersAreWoken PathsAgree
PROPERTIES TrafficDrains QueueIsKept
