SPECIFICATION FairSpec
CONSTANTS
  Claims = {c1, c2}
  Devices = {d1}
  NoOwner = NoOwner
  Agents = {a1}
  NoAgent = NoAgent
  ForcedDeletion = TRUE
  MaxFaults = 1
  MaxCrashes = 1
  MaxPlugs = 0
  MaxCorruptions = 1
INVARIANTS TypeOK IntentRecorded GrantOwned ExposedOwned GrantClean PreparedExclusive GrantExposed DirtyFenced
PROPERTIES NoResurrection ReleaseCompletes IdleRecovers
