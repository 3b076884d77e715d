SPECIFICATION FilesSpec
CONSTANTS
  FirstSegment = 1
  EndSegment = 5
  Environments = {1}
  Junk = Junk
  Functions = {"01", "02", "06", "07", "0A", "0B", "33", "3D", "3F", "40", "4C"}
  Keys = {"ctrl_c", "enter"}
  MaxFrames = 3
  MaxKeys = 1
  MaxEvents = 5
  Dtas = {one, two}
INVARIANT NamesAreLive
PROPERTY CallsAreContained
SYMMETRY DtaSymmetry
