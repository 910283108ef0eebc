\* The driver task against its users: one control and one data request with a
\* credit each, one receive buffer, a write buffer of one packet.
CONSTANTS
  CtlReqs = {c1}
  DataReqs = {d1}
  DataCredits = 1
  RxBuffers = 1
  FifoSize = 1
  MaxRx = 1
  DevSources = {}
  CoreSleeps = FALSE
  Queries = FALSE
  HoldsBuffers = FALSE
  NoReq = NoReq
SPECIFICATION Spec
INVARIANTS NothingLost DeviceViewAgrees
PROPERTIES ControlNotDropped KeepsCreditWindow
