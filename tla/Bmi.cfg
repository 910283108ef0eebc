SPECIFICATION FairSpec
CONSTANTS
  t1 = t1
  t2 = t2
  Tasks = {t1, t2}
  Ops = {"done", "info", "read", "write", "exec", "readsoc", "writesoc"}
  ReadLengths = {0, 8}
  WriteLengths = {1, 8, 11, 12}
  Chunk = 8
  Polls = 2
  MaxCalls = 2
  MaxBoots = 2
  Settings <- MCSettings
INVARIANTS MemoryExact ProtocolKept
PROPERTY CallsEnd
CHECK_DEADLOCK FALSE
