SPECIFICATION Spec
CONSTANTS
  MaxNodes = 2
  MaxEndpoints = 4
  MaxFabrics = 2
  Nodes = {1, 2, 3}
  Observations <- MCObservations
  Workloads <- MCWorkloads
  Reservations <- MCReservations
  MaxRanks = 2
  MaxDevices = 4
  MaxChanges = 1
INVARIANTS TypeOK ReportedIsSole NoneIsNone StartIrrelevant FoundIsFirst ValidFabricUnordered RingChangeSeen OtherChangeIgnored
