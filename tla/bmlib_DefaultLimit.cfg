CONSTANTS
  c1 = c1
  c2 = c2
  NoCallback = NoCallback
  Callbacks = {c1, c2}
  Params <- LimitOrNothing
  DefaultBss = 0
  MaxInits = 1
  MaxScans = 2
  MaxFound = 2
  Batch = 1
SPECIFICATION Spec
INVARIANT DefaultLimit
