CONSTANTS
  Cases <- StrrchrCases
  Line = 128
  MaxK = 100
  Gaps = {0}
  TailHits = {FALSE}
  BeyondHits = {FALSE, TRUE}
  Needles = {"nul"}
  Residues = {0, 1, 2, 3}
  Sames = {FALSE}
SPECIFICATION Spec
INVARIANT Correct
