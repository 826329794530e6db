SPECIFICATION KernelSpec
CONSTANTS
  Word = 2
  Limit = 12
  StackCheck = TRUE
  ExceptionStack = FALSE
  Sizes = {0, 2, 4, 6}
  None = None
  MaxCalls = 3
  Irqs = {0, 1}
  Handlers = {"h1", "h2"}
  Null = "none"
  MaxRaises = 2
  Withdraws = {}
  InitAgain = FALSE
  Builds <- StartBuilds
  BufferSize = 3
  MaxPrint = 5
  LineSize = 2
  DLines = 2
  ILines = 2
  Size = 6
  FlushAddress = TRUE
  NoLine = NoLine
  WholeLines = TRUE
  Called = {"dcache_flush", "no_writeback", "remap_uncached", "icache_flush", "load"}
  MaxRange = 6
  ProgramArcs <- SomeArcs
  HandlerArcs <- HandlersArcs
  InitArc <- StartArc
  Slab = 2
  Memory = 20
  TextBytes = 4
  BinBytes = 2
  MaxMcounts = 6
INVARIANTS MaskAndHandlers StartupRight BlocksApart StackRight
  ArcsKnown
PROPERTIES ServedAndEnded CachesRight
\* Programs end, devices fall silent.
CHECK_DEADLOCK FALSE
