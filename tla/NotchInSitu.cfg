SPECIFICATION Spec
CONSTANTS
  FIFO_DEPTH = 4
  ALMOST_FULL = 2
  NO_SAMPLES = 5
  AddressSpace = 8
  Bases = {1}
  Registers = {0}
  MaxPending = 2
INVARIANT InSitu
