CONSTANTS
  t1 = t1
  t2 = t2
  t3 = t3
  None = None
  Threads = {t1, t2}
  Ops = {"read", "write", "hl_read", "read_reg", "write_reg", "RDSR1", "RDSR2", "wakeup", "sleep", "encrypt"}
  Faults = {"init", "xfer", "cmd", "dma_encrypt", "mem"}
  LowPower = FALSE
  Tries = 2
  MaxCount = 3
SPECIFICATION FairSpec
INVARIANTS
  BusExclusive
  CompletionIsOwn
  HonestStatus
PROPERTIES
  SemReleased
