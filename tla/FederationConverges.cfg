SPECIFICATION FairSpec
CONSTANTS
  Nodes = {n1, n2}
  Outside = {}
  FilePeers = {}
  Payloads = {0, 1, 2}
  Slots = {n1, n2}
  MaxRestarts = 1
  MaxVersion = 2
  Identified = {n1}
  NoSend = NoSend
INVARIANT NobodyKnowsMore
PROPERTY ViewsConverge
