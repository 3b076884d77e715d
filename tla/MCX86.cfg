SPECIFICATION MCSpec
CONSTANTS
  Carrier = 16
  Samples = 6
  Changes <- MCChanges
  Images <- MCImages
  Queries <- MCQueries
  FlagReads <- MCFlagReads
  MaxUpdates = 2
  MaxExits = 1
  Size = 3
  Widths = {1, 2, 3}
  ByteValues = {0, 1}
  Spans <- FieldSpans
INVARIANTS IntegersAreExact FieldsAreMemory
PROPERTY X87IsKept
