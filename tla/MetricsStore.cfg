SPECIFICATION Spec
CONSTANTS
  loop = loop
  worker = worker
  f1 = f1
  f2 = f2
  NoThread = NoThread
  Threads <- MCThreads
  Features <- TwoFeatures
  Latencies <- MCLatencies
  MaxLatency = 3
  MaxCalls = 3
  SwitchAnywhere = TRUE
INVARIANTS TypeOK ObservedRateSane ObservedAverageSane
PROPERTIES CountsEveryOutcomeOnce LockIsReleased
