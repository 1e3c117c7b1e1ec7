SPECIFICATION FairSpec
CONSTANTS
  Req = {r1, r2}
  EnvKeys <- Keys
  Envs <- AllEnvs
  Password <- Passwords
  Lifetime = 1
  MaxTime = 2
  Bodies <- SomeBodies
  Queries <- Lists
  Codes <- Items
  h1 = h1
  h2 = h2
  Pattern = {h1, h2}
  HexEncode <- Strings
  Forged <- Strangers
  Faults = {"start", "port", "close", "db"}
INVARIANTS
  TypeOK
  MyNeedsLogin
  LoginLasts
  AnsweredOnce
PROPERTIES
  KeepsLifecycle
  EndsWhenTold
