SPECIFICATION FairSpec
CONSTANTS
  Users = {"u1", "u2"}
  BootMode = "NORMAL"
  MaxTries = 2
  Settings <- MCSettings
INVARIANTS ChipAsAsked ProgrammingTrue
PROPERTY CallsEnd
CHECK_DEADLOCK FALSE
