\* Counters of range 3 wrap after three credits; ep[2] is lent 1 credit before
\* and 2 after the device has announced its own count, 2 being the most a byte
\* counter of this range can tell apart.
SPECIFICATION FairSpec
CONSTANTS
  CounterMod = 3
  DefaultCreditCount = 3
  DevCreditCounts = {4}
  TxIds = {1, 2, 3}
INVARIANTS TypeOK NoDeviceOverrun CreditsConserved DryEndpointHasAsked
PROPERTIES ImplementsCreditWindow HeadIsSent
