SPECIFICATION FairSpec
CONSTANTS
  Claims = {c1, c2}
  Devices = {1, 2}
  Paths = {p1, p2}
  NoPath = NoPath
  NoDevice = NoDevice
  NoUser = NoUser
  MaxMoves = 1
  MaxRestarts = 1
  MaxFaults = 1
INVARIANTS TypeOK GrantedDeviceIsAllocated UsedStaysFenced
PROPERTIES ReplacementScrubbed AllocatedPrepares
