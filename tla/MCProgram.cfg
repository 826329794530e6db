SPECIFICATION ProgramSpec
CONSTANTS
  Prime = 5
  Finite = {0, 1, 2, 3}
  Styles = {{"blocking"}, {"interrupt"}, {"blocking", "interrupt"}}
  Dimensions = {3}
  Chains = {{"interrupt"}}
  MaxCalls = 4
  Period = 3
  IsrLatency = 1
  MaxTime = 10
  Irqs = {0, 1}
  Program <- Faults
  Isr <- HandlerFaults
  Builds = {{"Api", "ExtraInfo", "Emulates"}, {"Api", "Emulates", "Enables"}}
  MaxRaises = 3
  MaxReissues = 1
  MaxDepth = 2
INVARIANTS ResultTaken OwnDeterminants MeasuredTime ExceptionsUnseen
PROPERTIES AsCalculated CallsEnd
\* The determinant, the loop, the calls and the output come to an end.
CHECK_DEADLOCK FALSE
