CONSTANTS
  OtpFields = {"REGION_PROTECT", "REGION_DEFAULTS", "MAC0_ADDR"}
  PlatAddrs = {0, 36860, 36864, 262144, 786432, 1048576, 700000}
  PlatLens = {4, 8}
  HalAddrs = {0, 36860, 262144, 524288, 786428, 786432, 1310720, 700000}
  HalCounts = {0, 3, 4, 6}
  MaxSize = 12
  max_channels = 3
  Numbers = {0, 1, 2, 5, 36, 44, 257}
  MaxStrings = 4
  Rdsr1Tries = 10
  Rdsr2Tries = 2
SPECIFICATION SeqSpec
CHECK_DEADLOCK FALSE
INVARIANTS
  SeqTypeOK
  AccessInMode
  PlatformReadsRight
  HalReadsRight
  CopyFits
  WordTransfers
  StoredAsDenoted
  AcceptedFits
  WokenStaysAwake
PROPERTIES
  FlagAfterField
  LockedStays
