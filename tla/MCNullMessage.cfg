SPECIFICATION FairSpec
CONSTANTS
  Ranks = {1, 2, 3}
  Programs <- MCPrograms
  Channels = {1, 2}
  TxTimes = {1, 2}
  Steps = {0, 1}
INVARIANTS NothingInThePast GuaranteeKept BundlesSound EndsComplete
PROPERTIES Terminates
CHECK_DEADLOCK FALSE
