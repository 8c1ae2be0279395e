SPECIFICATION FlowSpec
CONSTANTS
  Threads = {t1, t2}
  Pods = {p1}
  Subscribers = {s1, s2}
  StartCap = 1
  RingCap = 2
  ChanCap = 1
  MaxSends = 3
  Connections = {k1}
  SourceOf <- MCSourceOf
  DestOf <- MCDestOf
  a1 = a1
  a2 = a2
  IPs = {a1, a2}
  PodKeys = {p1}
  NoPod = NoPod
  EventCap = 1
  StaleTicks = 2
  Collectors = {g1, g2}
  Procs = {1}
  RunningPods = {q1, q2}
  HostPods = {q2}
  Host = Host
  Gone = Gone
  CacheTicks = 1
  NoLookup = NoLookup
  NoAnswer = NoAnswer
  Clients = {c1, c2}
  SendCap = 2
  BroadcastCap = 2
  MaxMessages = 4
  Sources = {m1}
  Conns = {w1}
  Pushers = {p1, p2}
  MaxVersion = 2
  NoPush = NoPush
INVARIANTS
  FlowTypeOK
  NoSendOnClosed
  PodsWereMapped
  NoPanic
  NoGaps
  NothingMissed
PROPERTIES
  RingDrains
  MeasuresLastSend
  ClosedAreNotEstablished
  AnswersConverge
  ClientsLeave
  EvictedAreClosed
  ClientsConverge
  ClosedConnsLeave
CHECK_DEADLOCK FALSE
