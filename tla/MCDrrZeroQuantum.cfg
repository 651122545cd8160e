SPECIFICATION FairSpec
CONSTANTS
  NoItem = NoItem
  Flows = {f1, f2}
  Sizes = {1}
  Quantum = 0
  MaxQueueSize = 3
  ChildLimit = 4
  Int32Half = 16
  MaxReceived = 3
PROPERTY DequeueReturns
