SPECIFICATION Spec
CONSTANTS
  Req = {r1, r2}
  My = {m1}
  User = {alice}
  Tokens = {alice}
  Block = {b1}
  h1 = h1
  h2 = h2
  Canonical <- Two
  Hash <- Two
  HexToHash <- Identity
  Lists <- TwoLists
  Faults = {}
INVARIANT
  HistoryIsShown
