SPECIFICATION FairSpec
CONSTANT
  MaxDisturbances = 2
INVARIANTS TypeOK TaintMatchesCondition ReportedSafeIsStored CleanupLeavesNothing
PROPERTIES DeadAgentFenced HealthyServed
CHECK_DEADLOCK FALSE
