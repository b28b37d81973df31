CONSTANTS
  c1 = c1
  c2 = c2
  NoCallback = NoCallback
  Callbacks = {c1, c2}
  Params <- Limits
  DefaultBss = 0
  MaxInits = 2
  MaxScans = 2
  MaxFound = 2
  Batch = 1
SPECIFICATION FairSpec
INVARIANTS
  TypeOK
  LiveRequests
  Settled
  ExactResults
  OwnCallback
PROPERTIES
  FinalNull
