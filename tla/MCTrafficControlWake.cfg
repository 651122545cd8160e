SPECIFICATION Spec
CONSTANTS
  NoItem = NoItem
  q1 = q1
  q2 = q2
  Configurations <- MCOneDevice
  Sizes = {1, 3}
  Mtu = 3
  DiscLimit = 3
  Word = 24
  MaxObject = 4
  MinLimit = 0
  MaxLimit = 6
  Garbage = {0, 20}
  MaxOffered = 3
INVARIANT WakeFindsCallback
CHECK_DEADLOCK FALSE
