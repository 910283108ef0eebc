SPECIFICATION Spec
CONSTANTS
  u1 = u1
  u2 = u2
  Users = {u1, u2}
  Nobody = Nobody
  NSocks = 2
  Handles = {1, 2, 3}
  Ssls = {1, 2}
  Bufs = {b1, b2}
  NoBuf = NoBuf
  MaxInbox = 2
  Settings <- MCSettings
INVARIANTS AnswersRight ContextsSound NothingLeaks
SYMMETRY Sym
CHECK_DEADLOCK FALSE
