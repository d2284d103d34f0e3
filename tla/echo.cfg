SPECIFICATION ChatSpec
CONSTANTS
  a = a
  b = b
  a1 = a1
  a2 = a2
  b1 = b1
  b2 = b2
  app = app
  NoAddr = NoAddr
  Absent = Absent
  Offline = Offline
  RendezvousServer = RendezvousServer
  AppPort = app
  Ports = {app}
  Names = {a, b}
  Addresses = {a1, a2, b1, b2}
  Visible = {a1, a2, b1, b2}
  Homes <- MCOneMobile
  PeerOf <- MCPeerOf
  DnsNames = {a, b}
  PeekLens = {"full"}
  Failing = {}
  MaxSockets = 9
  MaxAttempts = 0
  Chatting = {a, b}
  Lossy = FALSE
  InOrder = FALSE
  MoveRule = "settled"
  MaxMoves = 0
  Restarting = {}
  MaxRestarts = 0
  MaxCrashes = 0
  Interruptible = {}
INVARIANT CopiesAreResends
INVARIANT PeekedIsTaken
PROPERTY KeywordReturns
CHECK_DEADLOCK FALSE
