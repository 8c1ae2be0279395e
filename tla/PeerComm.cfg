SPECIFICATION FairSpec
CONSTANTS
  Nodes = {n1, n2}
  Outside = {nobody}
  n1 = n1
  n2 = n2
  nobody = nobody
  FilePeers <- MCFilePeers
  Payloads <- MCPayloads
  NoSend = NoSend
  Slots = {s1, s2}
  MaxRestarts = 1
  MaxLog = 1
  MaxSends = 2
  Requested <- MCRequested
INVARIANTS
  TypeOK
  ReportsAreTrue
  LogMatchesStats
PROPERTY SendsEnd
