\* A PING of discv5's own, a sleep that may be too short, and a socket that may refuse to send.
SPECIFICATION TimeoutSpec
CONSTANTS
  node1 = node1
  node2 = node2
  None = None
  Instances = {node1, node2}
  Node1 = node1
  Node2 = node2
  Peers = {node1}
  States = {"state_network_configured", "state_discv5_started", "state_sent_random_packet", "state_finished"}
  Mode = "Sequential"
  Script <- TestScript
  Declarative <- NoTable
  RecvCap = 1
  SendCap = 1
  UdpCap = 1
  SendFails = TRUE
  PeerBodies = {"Ping", "FindNode"}
  PeerEnrSeq = 1
  OwnRequests = 1
  MaxRequests = 3
  MaxRetries = 1
  MaxRandoms = 1
INVARIANTS
  WhoAreYouTimeoutTypeOK
  ScriptStartsAsPlanned
PROPERTIES
  TimeoutEnds
CHECK_DEADLOCK FALSE
