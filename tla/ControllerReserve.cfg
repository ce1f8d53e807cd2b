SPECIFICATION Spec
CONSTANTS
  Workloads = {w1, w2}
  Devices = {1, 2}
  NumRanks = 1
  Specs = {"a", "bad"}
  ValidSpecs = {"a"}
  FabricKey = FabricKey
  MaxWorkloads = 2
  LostReplies = FALSE
  Budgets <- ReserveBudgets
SYMMETRY Symmetry
INVARIANTS TypeOK FirstPlacementsDisjoint
PROPERTY TerminalFinal
