SPECIFICATION LiveSpec
CONSTANTS
  u1 = u1
  u2 = u2
  NoBuf = NoBuf
  Users = {u1, u2}
  Socks = {1, 2, 3}
  Streams = {1, 2}
  Bufs = {b1, b2, b3}
  Settings <- MCSettings
INVARIANTS DataAccounted UsersAreTold
PROPERTIES ReserveKept WaitsEnd
CHECK_DEADLOCK FALSE
