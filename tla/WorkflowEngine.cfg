SPECIFICATION FairSpec
CONSTANTS
  Replicas = {p1, p2}
  NoReplica = NoReplica
  Sources = {"cron", "webhook"}
  Targets = {"workflow", "routine"}
  Keys = {k1}
  AutoDisableAfter = 2
  MaxCalls = 2
  MaxAttempts = 2
  MaxRuns = 2
  MaxFires = 3
  MaxInputs = 3
INVARIANTS OneExecutor  
PROPERTIES FiresResolve 
CHECK_DEADLOCK FALSE
