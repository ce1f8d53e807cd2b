SPECIFICATION Spec
CONSTANTS
  Claims = {c1, c2}
  Devices = {d1, d2}
  NoOwner = NoOwner
  Agents = {a1, a2}
  NoAgent = NoAgent
  ForcedDeletion = FALSE
  MaxFaults = 0
  MaxCrashes = 0
  MaxPlugs = 0
  MaxCorruptions = 0
SYMMETRY Symmetry
INVARIANT RunningUndisturbed
