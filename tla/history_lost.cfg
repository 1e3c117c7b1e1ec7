SPECIFICATION Spec
CONSTANTS
  Job = {j1, j2}
  User = {alice}
  h1 = h1
  h2 = h2
  Hash <- MCHash
  Batches <- Plain
  Faults = {}
INVARIANT
  AllIsThere
