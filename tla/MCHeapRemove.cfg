SPECIFICATION Spec
CONSTANTS
  Times = {0, 1, 3, 8}
  MaxInserts = 6
  MaxBuckets = 4
INVARIANT HeapKeptSorted
CHECK_DEADLOCK FALSE
