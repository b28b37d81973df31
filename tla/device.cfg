CONSTANTS
  SrCoex = TRUE
  MaxItems = 1
  NoItem = NoItem
  Gens = {1, 2}
  MaxEvents = 2
SPECIFICATION FairSpec
CHECK_DEADLOCK FALSE
INVARIANTS
  TypeOK
  ContextReachable
  InterruptOnLiveDevice
  TaskletOnLiveDevice
  SuppliesOff
  PinsReleased
  NothingLeaks
PROPERTIES
  InterruptServed
  EventsHandled
