CONSTANTS
  Fns = {"memset", "wmemset", "memcpy", "memmove",
         "stpcpy", "wcpcpy", "stpncpy", "memccpy"}
  Dests = {1024, 1025, 1028, 1039, 1040, 1041, 1052, 1055, 1084, 1100, 1151}
  Deltas <- PassDeltas
  SetSizes = {0, 1, 2, 3, 6, 7, 8, 12, 27, 28, 29, 33, 40, 64, 65, 100, 200}
  WSizes = {0, 1, 2, 3, 6, 7, 8, 12, 16, 17, 30, 60}
  CopySizes = {0, 1, 15, 16, 17, 63, 64, 100, 127, 128, 129, 200, 300, 400}
  NSizes = {0, 1, 16, 17, 40, 64, 100, 127, 128, 129, 150, 300}
  Terms = {0, 1, 15, 16, 17, 31, 33, 48, 64, 80, 140, 290}
  CopyStreamMin = 256
  SetStreamMin = 8
  SizeBits = 24
  AvxWideWmemset = FALSE
  StpncpyBugs = FALSE
SPECIFICATION Spec
INVARIANTS TypeOK StoresInDest AlignedStores FencedReturn
PROPERTY WriteRefines
