SPECIFICATION Spec
CONSTANTS
  Workloads = {w1}
  Devices = {1, 2, 3}
  NumRanks = 2
  Specs = {"a"}
  ValidSpecs = {"a"}
  FabricKey = FabricKey
  MaxWorkloads = 1
  LostReplies = TRUE
  Budgets <- SettleBudgets
INVARIANT SettledConsistent
