CONSTANTS
  Cases <- PassCases
  Line = 128
  MaxK = 104
  Gaps = {0, 9}
  TailHits = {FALSE, TRUE}
  BeyondHits = {FALSE, TRUE}
  Needles = {"ascii"}
  Residues = {0, 1}
  Sames = {FALSE}
SPECIFICATION Spec
INVARIANTS TypeOK Correct AlignedLoads VectorNoOverread NeverPassesHit
