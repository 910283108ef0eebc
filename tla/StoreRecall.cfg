SPECIFICATION FairSpec
CONSTANTS
  u1 = u1
  u2 = u2
  Users = {u1, u2}
  Settings <- MCSettings
  MaxCycles = 2
  MAX_DSET_SIZE = 2
  DSET_STORE_RECALL = {900, 901}
  MAX_EVENT_SIZE = 2
  Words = {"a", "b", "header", "NULL", "junk"}
  Junk = "junk"
INVARIANTS ContextKept RecallOrdered PowerRight
PROPERTY NothingForgotten
CHECK_DEADLOCK FALSE
