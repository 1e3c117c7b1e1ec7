SPECIFICATION Spec
CONSTANTS
  Req = {r1, r2}
  My = {m1}
  User = {alice, bob}
  Tokens = {alice, bob, "stranger", "anonymous"}
  Block = {b1, b2}
  h1 = h1
  h2 = h2
  Canonical <- One
  Hash <- One
  HexToHash <- Identity
  Lists <- OneList
  Faults = {"token", "crash"}
SYMMETRY Symmetry
INVARIANTS
  TypeOK
  MyShowsOwn
  HistoryWasReturned
  MyNeverShrinks
