SPECIFICATION Spec
CONSTANTS
  Hash = {h0, h1}
  h0 = h0
  h1 = h1
  tx1 = tx1
  Program <- SomeFail
INVARIANT
  FirstHashFails
CHECK_DEADLOCK FALSE
