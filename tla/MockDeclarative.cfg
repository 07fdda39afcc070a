\* A table of declarative behaviours, a random packet, and a peer whose sessions come and go.
SPECIFICATION SafetySpec
CONSTANTS
  p1 = p1
  p2 = p2
  None = None
  Peers = {p1}
  Mode = "Declarative"
  Script <- NoScript
  Declarative <- AnsweringTable
  RecvCap = 1
  SendCap = 1
  UdpCap = 1
  SendFails = FALSE
  PeerBodies = {"Ping"}
  PeerEnrSeq = 1
  MaxRequests = 2
  MaxRetries = 2
  MaxRandoms = 1
INVARIANTS
  NonceNeverReused
  LatestChallengeIsHeld
CHECK_DEADLOCK FALSE
