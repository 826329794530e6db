SPECIFICATION SystemTimeSpec
CONSTANTS
  Period = 3
  IsrLatency = 1
  MaxTime = 12
INVARIANT ResetStarts
