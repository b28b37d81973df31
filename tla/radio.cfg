CONSTANTS
  Typed <- Entered
  Channels = {36}
  MaxChanged = 2
SPECIFICATION Spec
INVARIANTS
  TypeOK
  RunningIsKnown
  OneTest
  StableTransmission
PROPERTIES
  InitRecovers
