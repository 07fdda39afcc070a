\* Either of the two test cases, with requests that are sent again once.
SPECIFICATION SuiteSpec
CONSTANTS
  node1 = node1
  node2 = node2
  Instances = {node1, node2}
  Node1 = node1
  Node2 = node2
  States = {"state_network_configured", "state_ready_to_start_sim", "state_finished", "discv5_started", "finished"}
  Requests = {1, 2}
  TheRequest = 1
  MaxRetries = 1
INVARIANTS
  SuiteTypeOK
  TalkSucceedsTruly
  ExchangeSucceedsTruly
PROPERTIES
  TalkEnds
  ExchangeEnds
CHECK_DEADLOCK FALSE
