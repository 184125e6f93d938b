CONSTANTS
  Tiers = {"fallback", "sse2", "avx2"}
  SizeT = 4
  Line = 128
  Sizes = {0, 1, 3, 4, 7, 8, 15, 16, 17, 31, 32, 33, 63, 64, 65, 127, 128, 129, 192}
  Beyond = {FALSE, TRUE}
SPECIFICATION Spec
INVARIANTS TypeOK Correct InBounds AlignedLoads
