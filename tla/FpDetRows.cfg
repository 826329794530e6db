SPECIFICATION Spec
CONSTANTS
  Prime = 5
  Dimensions = {2}
  Base = 3
  AddressSpace = 14
  RAM_WORDS = 4
  ROWS = 1
  Entries = {1, 2}
  MaxPending = 2
  MaxStalls = 0
INVARIANT DeterminantRight
