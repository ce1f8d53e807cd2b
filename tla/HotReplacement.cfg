SPECIFICATION FairSpec
CONSTANTS
  Claims = {c1}
  Devices = {1, 2}
  Paths = {p1}
  NoPath = NoPath
  NoDevice = NoDevice
  NoUser = NoUser
  MaxMoves = 1
  MaxRestarts = 1
  MaxFaults = 0

PROPERTY ReplacementPrepares
