SPECIFICATION NodeSpec
CONSTANTS
  Pids = {t1, t2}
  Cpus = {c1, c2}
  Swapper = swapper
  NameKeys = {t1, t2, swapper}
  WakeupCap = 2
  MaxLatency = 4
  TimeMod = 16
  MaxClock = 5
  NoTracepoint = NoTracepoint
  NoSample = NoSample
  Sockets = {k1}
  Loads <- MCLoads
  Rtts = {0, 1, 3, 4}
  RttLimit = 3
  MaxRetrans = 1
  Socks = {k1, k2}
  Sources <- MCSources
  Targets <- MCTargets
  Processes = {1, 2}
  ConnKey <- MakeConnKey
  AddrBits = 2
  PortBits = 1
  ConnectCap = 2
  MaxConnects = 3
  IoThreads = {t1, t2}
  Attachments <- MCAttachments
  IoCap = 1
  DepthMod = 8
  MaxStarts = 3
  NoDepth = NoDepth
  NoIoEvent = NoIoEvent
INVARIANTS
  NodeTypeOK
  ReportedOnce
  OwnNumbers
  ConnectsMeasuredOnce
  CallNeverOverstated
PROPERTIES
  MeasuresLastStart
CHECK_DEADLOCK FALSE
