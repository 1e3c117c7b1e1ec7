SPECIFICATION Spec
CONSTANTS
  Req = {r1}
  EnvKeys <- Keys
  Envs <- OneEnv
  Password <- Passwords
  Lifetime = 1
  MaxTime = 0
  Bodies <- OneLogin
  Queries <- Lists
  Codes <- TextItems
  h1 = h1
  h2 = h2
  Pattern = {h1, h2}
  HexEncode <- Strings
  Forged <- None
  Faults = {}
INVARIANT
  RlpNamesTransactions
