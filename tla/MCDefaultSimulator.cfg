SPECIFICATION Spec
CONSTANTS
  Delays = {0, 1}
  MaxEvents = 3
  MaxPosts = 2
  MaxRuns = 2
INVARIANTS EventsSound PostsSound
PROPERTIES KeysIncrease
CHECK_DEADLOCK FALSE
