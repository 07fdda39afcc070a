\* A script that challenges twice, two peers that may answer either challenge, and sends that fail.
SPECIFICATION Spec
CONSTANTS
  p1 = p1
  p2 = p2
  None = None
  Peers = {p1, p2}
  Mode = "Sequential"
  Script <- RechallengeScript
  Declarative <- SandboxTable
  RecvCap = 1
  SendCap = 1
  UdpCap = 2
  SendFails = TRUE
  PeerBodies = {"Ping"}
  PeerEnrSeq = 1
  MaxRequests = 1
  MaxRetries = 1
  MaxRandoms = 0
INVARIANTS
  TypeOK
  KeyAgreement
PROPERTIES
  ImplementsScript
  GivesItsAnswers
  BacklogDrains
CHECK_DEADLOCK FALSE
