SPECIFICATION LiveSpec
CONSTANTS
  u1 = u1
  u2 = u2
  Users = {u1, u2}
  Driver = Driver
  Nobody = Nobody
  NDevices = 2
  Settings <- MCSettings
INVARIANTS WaitsAnswered StateKept 
 
