SPECIFICATION Spec
CONSTANTS
  loop = loop
  worker = worker
  f1 = f1
  f2 = f2
  NoThread = NoThread
  Threads <- MCThreads
  Features <- OneFeature
  Latencies <- MCLatencies
  MaxLatency = 3
  MaxCalls = 3
  SwitchAnywhere = FALSE
INVARIANT ScoreIsOfOneState
