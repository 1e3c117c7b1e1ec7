SPECIFICATION FairSpec
CONSTANTS
  Instance = {i1, i2, i3}
  Tables <- MCTables
  SeedUser = {alice, bob}
  MaxRetries = 2
  Faults = {"db", "crash"}
INVARIANTS
  TypeOK
  OneRowPerUser
  ServingIsSeeded
  NotAllLose
PROPERTY
  StartEnds
