CONSTANTS
  Typed <- Entered
  Channels = {36}
  MaxChanged = 1
SPECIFICATION Spec
INVARIANTS
  OneTestAtATime

