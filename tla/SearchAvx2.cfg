CONSTANTS
  Calls <- Avx2Calls
  Needles <- SearchNeedles
  Hays <- SearchHays
  TwoWayMin = 512
SPECIFICATION Spec
INVARIANTS Correct
