SPECIFICATION SilentNodeSpec
CONSTANTS
  N = 2
  Block = {b1, b2}
INVARIANTS
  TypeOK
  NoSendOnClosed
  HeardOnce
  NoGoroutineLeft
  RecordIsFresh
PROPERTIES
  KeepsPromise
  FetchReturns
  CancelEndsFetch
