SPECIFICATION FairSpec
CONSTANTS
  Prime = 5
  Dimensions = {2, 3}
  Base = 3
  AddressSpace = 14
  RAM_WORDS = 10
  ROWS = 3
  Entries = {1, 2}
  MaxPending = 2
  MaxStalls = 1
INVARIANTS LoadedExactly FactorsAndResult PortsKeepPace
PROPERTY ImplementsLiveService
