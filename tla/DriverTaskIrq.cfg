\* The driver task against the device: all interrupt sources, a core that sleeps,
\* one data request with two credits, so that the write buffer fills up.
CONSTANTS
  CtlReqs = {}
  DataReqs = {d1}
  DataCredits = 2
  RxBuffers = 1
  FifoSize = 1
  MaxRx = 1
  DevSources = {"CPU", "ERROR"}
  CoreSleeps = TRUE
  Queries = FALSE
  HoldsBuffers = FALSE
  NoReq = NoReq
SPECIFICATION Spec
INVARIANTS MasksRight InterruptNotLost
