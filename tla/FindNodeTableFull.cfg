\* More nodes in one bucket than it has entries.
SPECIFICATION Spec
CONSTANTS
  n1 = n1
  n2 = n2
  n3 = n3
  Instances = {n1, n2, n3}
  Bootstrap = n1
  States = {"state_network_configured", "collect_instance_information", "build_topology", "run_find_node_query"}
  Buckets = {1, 2}
  BucketSize = 1
  QueriesFail = FALSE
PROPERTIES
  StarIsBuilt
CHECK_DEADLOCK FALSE
