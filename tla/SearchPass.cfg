CONSTANTS
  Calls <- PassCalls
  Needles <- SearchNeedles
  Hays <- SearchHays
  TwoWayMin = 12
SPECIFICATION Spec
INVARIANTS TypeOK Correct WindowTracks StrstrNoOverread NeverSkips MemPrefix
