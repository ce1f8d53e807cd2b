SPECIFICATION Spec
CONSTANTS
  Workloads = {w1, w2}
  Devices = {1, 2}
  NumRanks = 1
  Specs = {"a"}
  ValidSpecs = {"a"}
  FabricKey = FabricKey
  MaxWorkloads = 1
  LostReplies = TRUE
  Budgets <- ScaleBudgets
SYMMETRY Symmetry
INVARIANT ScaleKept
