SPECIFICATION FairSpec
CONSTANTS
  FIFO_DEPTH = 4
  ALMOST_FULL = 2
  NO_SAMPLES = 7
  AddressSpace = 10
  Bases = {2}
  Registers = {0}
  MaxPending = 3
INVARIANTS FifosLossless PipelineInOrder QuietOutsideRuns StartsAnswered
PROPERTIES BusStable ImplementsLiveStream
