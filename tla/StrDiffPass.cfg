CONSTANTS
  Fns = {"strcasecmp", "strncasecmp", "strncmp"}
  Sizes = {0, 1, 70, 140}
  Tiers = {"naive", "sse2", "avx2"}
  Starts1 = {0, 1, 100}
  Starts2 = {0, 1, 63}
  MaxK = 150
  Kinds1 = {"fold", "diff", "term"}
  Gaps = {1, 70}
  Kinds2 = {"diff", "term"}
  EqualStrcasecmp = FALSE
SPECIFICATION Spec
INVARIANTS TypeOK Correct NeverPassesStop DiffExact BoundedNoOverread
