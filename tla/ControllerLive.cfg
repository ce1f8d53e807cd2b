SPECIFICATION FairSpec
CONSTANTS
  Workloads = {w1}
  Devices = {1}
  NumRanks = 1
  Specs = {"a"}
  ValidSpecs = {"a"}
  FabricKey = FabricKey
  MaxWorkloads = 1
  LostReplies = TRUE
  Budgets <- LiveBudgets
PROPERTIES TerminalCleans WaitersPlaced
