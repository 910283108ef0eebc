\* Progress when the application keeps its receive buffers until its data requests
\* complete.
CONSTANTS
  CtlReqs = {}
  DataReqs = {d1}
  DataCredits = 1
  RxBuffers = 1
  FifoSize = 1
  MaxRx = 1
  DevSources = {}
  CoreSleeps = FALSE
  Queries = TRUE
  HoldsBuffers = TRUE
  NoReq = NoReq
SPECIFICATION FairSpec
INVARIANT NoLostWakeup
PROPERTIES RequestsComplete PacketsReceived
