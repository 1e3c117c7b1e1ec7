SPECIFICATION FairSpec
CONSTANTS
  Job = {j1, j2, j3}
  User = {alice, bob}
  h1 = h1
  h2 = h2
  Hash <- MCHash
  Batches <- Mixed
  Faults = {"db", "token", "halt"}
INVARIANTS
  TypeOK
  OwnRequestsOnly
  RefusedForAReason
  SingleIsThere
  RecordedIsThere
PROPERTIES
  KeepsLedger
  JobsEnd
