\* Two harts; step(2) with counters of 3 bits.
SPECIFICATION Spec
CONSTANTS
  NProcs = 2
  INTERLEAVE = 2
  SizeWrap = 8
PROPERTIES IdleAdvancesTime
