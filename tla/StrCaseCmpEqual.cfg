CONSTANTS
  Fns = {"strcasecmp"}
  Sizes = {0}
  EqualStrcasecmp = TRUE
  Tiers = {"naive", "sse2", "avx2"}
  Starts1 = {0, 5}
  Starts2 = {0, 77}
  MaxK = 20
  Kinds1 = {"term", "fold"}
  Gaps = {1, 3}
  Kinds2 = {"term"}
SPECIFICATION Spec
INVARIANTS Correct
