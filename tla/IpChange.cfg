\* Every placement of three instances in a subnet of seven addresses.
SPECIFICATION Spec
CONSTANTS
  n1 = n1
  n2 = n2
  n3 = n3
  Instances = {n1, n2, n3}
  Node1 = n1
  States = {"state_network_configured", "state_completed_to_connect", "ip_change"}
  SubnetSize = 7
  DurationBefore = 2
  DurationAfter = 5
  Lag = 1
INVARIANTS
  TypeOK
  AddressesStayApart
  ChangeIsObserved
PROPERTIES
  EveryInstanceSucceeds
CHECK_DEADLOCK FALSE
