CONSTANTS
  Newest = 3
  KeepNewest = 2
  MaxFaults = 1
  Clients = {a}
  Second = 2
  Burst = 4
  Cost = 2
  IdleTime = 4
SPECIFICATION HostSpec
INVARIANTS DeployTypeOK RollbackTargetHasServed CurrentIsWhole LimiterTypeOK WaitIsEnough
PROPERTIES MigrationsAreBackedUp ServiceComesBack SweepingIsInvisible
