SPECIFICATION LineSpec
CONSTANTS
  BUF_LEN = 3
  HwDepth = 2
  HwMargin = 0
  INT_MAX = 3
  DEFAULT_TIMEOUT = 1
  HoistLoads = FALSE
  Counts = {3}
  Spaces = {3}
  Timeouts = {0}
  TxNumbers = 4
  RxNumbers = 3
  Few = 1
INVARIANTS TxWakeup RxWakeup
PROPERTIES TxDelivered RxDelivered CallsReturn
\* Without an alarm a write waits for an absent host for good.
CHECK_DEADLOCK FALSE
