CONSTANTS
  Threads = {t1, t2}
  Fns <- MCFns
  CPUs <- MCCPUs
  Compiled = {}
  MaxCalls = 2
  ProbeFirst = TRUE
SPECIFICATION Spec
SYMMETRY MCSymmetry
INVARIANTS SupportedTier
PROPERTIES DispatchRefines
