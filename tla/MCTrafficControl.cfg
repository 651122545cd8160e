SPECIFICATION FairSpec
CONSTANTS
  NoItem = NoItem
  q1 = q1
  q2 = q2
  Configurations <- MCDevices
  Sizes = {1, 3}
  Mtu = 3
  DiscLimit = 2
  Word = 24
  MaxObject = 4
  MinLimit = 0
  MaxLimit = 6
  Garbage = {0, 20}
  MaxOffered = 7
INVARIANTS FlowControlSound BacklogWillRun PacketsSafe
PROPERTIES Drains
CHECK_DEADLOCK FALSE
