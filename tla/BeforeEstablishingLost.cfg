\* Requests that outrun the event stream of node 2.
SPECIFICATION Spec
CONSTANTS
  node1 = node1
  node2 = node2
  Instances = {node1, node2}
  Node1 = node1
  Node2 = node2
  States = {"state_network_configured", "discv5_started", "finished"}
  Requests = {1, 2}
  MaxRetries = 1
PROPERTIES
  EveryRequestCompletes
CHECK_DEADLOCK FALSE
