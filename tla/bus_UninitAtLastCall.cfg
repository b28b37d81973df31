CONSTANTS
  t1 = t1
  t2 = t2
  t3 = t3
  None = None
  Threads = {t1}
  Ops = {"read", "write", "hl_read", "read_reg", "write_reg", "RDSR1", "RDSR2", "wakeup", "sleep"}
  Faults = {"init"}
  LowPower = TRUE
  Tries = 10
  MaxCount = 2
SPECIFICATION Spec
INVARIANT UninitAtLastCall
