\* Requests that may fail, the first one included.
SPECIFICATION Spec
CONSTANTS
  node1 = node1
  node2 = node2
  Instances = {node1, node2}
  Node1 = node1
  Node2 = node2
  States = {"state_network_configured", "state_connected", "state_completed"}
  Requests = {1, 2}
  SESSION_TIMEOUT_NODE2 = 5
  OwnTraffic = 2
INVARIANTS
  TypeOK
  OutcomesTellRequests
  Node2OutlivesRequests
PROPERTIES
  RequestsMeetExpiry
  EveryInstanceRecords
CHECK_DEADLOCK FALSE
