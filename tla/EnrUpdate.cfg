\* Two votes needed, three nodes that may give them, and connections that may fail.
SPECIFICATION Spec
CONSTANTS
  n1 = n1
  n2 = n2
  n3 = n3
  n4 = n4
  Instances = {n1, n2, n3, n4}
  Node1 = n1
  States = {"state_network_configured", "state_completed_establish_connections", "state_completed"}
  UpdateMin = 2
  ConnectFails = TRUE
INVARIANTS
  TypeOK
  UpdateReachesTheTest
  SuccessMeansUpdated
PROPERTIES
  ConnectionsEndTheTest
CHECK_DEADLOCK FALSE
