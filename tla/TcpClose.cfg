SPECIFICATION TcpSpec
CONSTANTS
  Sockets = {k1}
  Loads = {{"set_state", "retransmit", "rtt_estimator", "connect", "close"}}
  Rtts = {0, 1, 3, 4}
  RttLimit = 3
  MaxRetrans = 1
INVARIANT ClosedAreForgotten
CHECK_DEADLOCK FALSE
