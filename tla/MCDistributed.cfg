SPECIFICATION FairSpec
CONSTANTS
  Ranks = {1, 2, 3}
  Topologies <- MCTopologies
  Infinity = 100
  Bounds = {1, 100}
  Extra = {0}
  Steps = {1}
  MaxTime = 4
  MaxEvents = 2
INVARIANTS NoMessageInThePast WindowSound EndsTogether
PROPERTIES Terminates
CHECK_DEADLOCK FALSE
