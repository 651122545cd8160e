SPECIFICATION FairSpec
CONSTANTS
  Workers = {w1, w2}
  MaxJobs = 3
INVARIANTS JobsSafe ExitCodeTrue 
PROPERTIES Terminates
CHECK_DEADLOCK FALSE
