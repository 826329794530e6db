SPECIFICATION HostFairSpec
CONSTANTS
  FIFO_DEPTH = 4
  ALMOST_FULL = 2
  NO_SAMPLES = 3
  AddressSpace = 8
  Bases = {2}
  Registers = {0, 1}
  MaxPending = 2
  DiagnosticLoads = 2
INVARIANT RunHandedOver
PROPERTIES HandshakeKept DoneUnlessDisturbed
