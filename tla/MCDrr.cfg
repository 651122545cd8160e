SPECIFICATION FairnessSpec
CONSTANTS
  NoItem = NoItem
  Flows = {f1, f2, f3}
  Sizes = {1, 3}
  Quantum = 2
  MaxQueueSize = 3
  ChildLimit = 2
  Int32Half = 16
  MaxReceived = 5
INVARIANTS TypeOK ActiveListSound BooksBalance CapacityRespected FlowOrder ServiceFair
PROPERTIES ImplementsDisc
