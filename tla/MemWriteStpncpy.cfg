CONSTANTS
  Fns = {"stpncpy"}
  Dests = {1024}
  Deltas <- PassDeltas
  SetSizes = {0}
  WSizes = {0}
  CopySizes = {0}
  NSizes = {130}
  Terms = {128}
  CopyStreamMin = 256
  SetStreamMin = 8
  SizeBits = 24
  AvxWideWmemset = FALSE
  StpncpyBugs = TRUE
SPECIFICATION Spec
PROPERTY WriteRefines
