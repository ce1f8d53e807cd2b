SPECIFICATION Spec
CONSTANTS
  Claims = {c1, c2}
  Devices = {d1, d2}
  NoOwner = NoOwner
  Agents = {a1}
  NoAgent = NoAgent
  ForcedDeletion = FALSE
  MaxFaults = 0
  MaxCrashes = 1
  MaxPlugs = 1
  MaxCorruptions = 0
SYMMETRY Symmetry
INVARIANTS RunningUndisturbed InFlightMarked
PROPERTY ImplementsCustody
