CONSTANTS
  Fns = {"memcmp", "wmemcmp"}
  Tiers = {"sse2"}
  Builds = {FALSE, TRUE}
  Sizes = {0, 1, 15, 16, 17, 31, 32, 33, 48, 63, 64, 65, 96, 127, 128, 129, 160, 255, 256, 257, 384, 511, 512, 520}
  WSizes = {0, 1, 3, 4, 5, 7, 8, 9, 15, 16, 17, 31, 32, 33, 48, 63, 64, 65, 96, 128, 130}
  Beyond = {FALSE, TRUE}
  Far = 256
  Sse2Fourth = TRUE
SPECIFICATION Spec
INVARIANTS Correct
