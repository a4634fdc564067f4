SPECIFICATION Spec
CONSTANTS
  Patterns = {1}
  Lookups = {l1, l2}
  Readers = {r1, r2}
  MappingURL = 3
  InsertionMax = 3
  Free = Free
INVARIANTS
  MuxInv
  CleanIsSorted
  UndisturbedListing
PROPERTY CleanIsStable
