SPECIFICATION SchedSpec
CONSTANTS
  Pids = {t1}
  Cpus = {c1, c2}
  Swapper = swapper
  NameKeys = {t1}
  WakeupCap = 2
  MaxLatency = 4
  TimeMod = 16
  MaxClock = 6
  NoTracepoint = NoTracepoint
  NoSample = NoSample
INVARIANT CpuTimeIsMeasured
CHECK_DEADLOCK FALSE
