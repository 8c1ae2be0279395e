SPECIFICATION SchedSpec
CONSTANTS
  Pids = {t1, t2}
  Cpus = {c1, c2}
  Swapper = swapper
  NameKeys = {t1, t2, swapper}
  WakeupCap = 2
  MaxLatency = 4
  TimeMod = 16
  MaxClock = 6
  NoTracepoint = NoTracepoint
  NoSample = NoSample
INVARIANT WaitIsMeasured
CHECK_DEADLOCK FALSE
