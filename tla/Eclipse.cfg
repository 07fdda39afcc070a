\* Every limit on incoming nodes, and queries that may end before they reach the victim.
SPECIFICATION Spec
CONSTANTS
  Instances <- Participants
  States = {"state_network_configured", "completed_to_collect", "attackers_sent_query", "done"}
  Attackers = 2
  BucketSize = 2
INVARIANTS
  TypeOK
  VictimLooksLast
  OutcomeTellsVulnerability
PROPERTIES
  EveryInstanceRecords
CHECK_DEADLOCK FALSE
