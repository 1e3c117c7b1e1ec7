SPECIFICATION Spec
CONSTANTS
  Req = {r1, r2}
  Block = {b1, b2}
  h1 = h1
  h2 = h2
  a1 = a1
  Canonical <- MCCanonical
  Hash <- MCHash
  HexToHash <- MCHexToHash
  Lists <- Mixed
  Faults = {"db", "node", "halt"}
INVARIANTS
  TypeOK
  EveryHashAccounted
  CacheAgrees
  CachedWasMined
  SingleIsCached
  RefusedForAReason
  OneRecordEach
PROPERTY
  KeepsPromise
