SPECIFICATION FairnessSpec
CONSTANTS
  NoItem = NoItem
  Flows = {f1, f2, f3}
  Sizes = {1, 3}
  MaxSize = 3
  ChildLimit = 2
  MaxReceived = 5
INVARIANTS SfqInv PacketsAlternate
PROPERTIES DropsFromLongest ImplementsDisc
