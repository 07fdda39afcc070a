-------------------------------- MODULE FindNode --------------------------------
(* The find-node test case, src/find_node/mod.rs: the instances form a star     *)
(* around the bootstrap node and query it for each other.                       *)
EXTENDS TestCase

CONSTANTS
  Bootstrap,    \* the instance with sequence number 1
  Buckets,      \* the buckets of a routing table that node ids may fall into
  BucketSize,   \* the entries of a bucket (16 in discv5)
  QueriesFail   \* whether a query may err, or end without its target

Others == Instances \ {Bootstrap}

Collect == "collect_instance_information"
Topology == "build_topology"
Query == "run_find_node_query"

ASSUME FindNodeAssumption ==
  /\ Bootstrap \in Instances
  /\ States = {Configured, Collect, Topology, Query}
  /\ BucketSize \in Nat \ {0} /\ QueriesFail \in BOOLEAN

Locations ==
  {"signal_collect", "await_collect", "topology", "await_topology",
   "query", "signal_query", "await_query", "record"}

VARIABLES
  to_add,     \* by instance: the ENRs it has yet to add to its table
  table,      \* by instance: the ENRs in its routing table (discv5)
  bucket_of,  \* the bucket of each node id in the bootstrap node's table
  targets,    \* by instance: the targets it has yet to query
  failed      \* by instance: whether a query did not find its target

findVars == <<to_add, table, bucket_of, targets, failed>>
vars == <<runVars, findVars>>

TypeOK ==
  /\ RunTypeOK(Locations)
  /\ to_add \in [Instances -> SUBSET Instances]
  /\ table \in [Instances -> SUBSET Instances]
  /\ bucket_of \in [Others -> Buckets]
  /\ targets \in [Instances -> SUBSET Instances]
  /\ failed \in [Instances -> BOOLEAN]

Init ==
  /\ RunInit
  /\ to_add = [i \in Instances |-> {}]
  /\ table = [i \in Instances |-> {}]
  /\ bucket_of \in [Others -> Buckets]
  /\ targets = [i \in Instances |-> {}]
  /\ failed = [i \in Instances |-> FALSE]
--------------------------------------------------------------------------------
(* collect_other_instance_info: all that was collected, without oneself.        *)
OtherInstances(i) == participants[i] \ {i}

SignalCollected(i) ==
  /\ SignalAt(i, "signal_collect", Collect, "await_collect")
  /\ UNCHANGED findVars

(* Past the barrier the bootstrap node goes to add everyone's ENR, and every    *)
(* other node the bootstrap node's, which it expects among those it collected   *)
(* and which is always there: whoever has collected has collected everyone.     *)
AwaitCollected(i) ==
  /\ AwaitAt(i, "await_collect", Collect, "topology")
  /\ to_add' = [to_add EXCEPT ![i] =
                  IF i = Bootstrap THEN OtherInstances(i)
                  ELSE OtherInstances(i) \cap {Bootstrap}]
  /\ UNCHANGED <<table, bucket_of, targets, failed>>

(* The entries of the bootstrap node's table in the bucket of a node.           *)
Bucket(j) == {k \in table[Bootstrap] : bucket_of[k] = bucket_of[j]}

(* Discv5::add_enr inserts an entry, or errs with "Table full".                 *)
Fits(i, j) == i = Bootstrap => Cardinality(Bucket(j)) < BucketSize

AddEnr(i, j) ==
  /\ pc[i] = "topology"
  /\ Fits(i, j)
  /\ table' = [table EXCEPT ![i] = @ \cup {j}]
  /\ to_add' = [to_add EXCEPT ![i] = @ \ {j}]
  /\ UNCHANGED <<runVars, bucket_of, targets, failed>>

(* The "?" after add_enr.                                                       *)
TableFull(i, j) ==
  /\ ~Fits(i, j)
  /\ Move(i, "topology", "exited")
  /\ UNCHANGED findVars

SignalTopology(i) ==
  /\ to_add[i] = {}
  /\ SignalAt(i, "topology", Topology, "await_topology")
  /\ UNCHANGED findVars

(* The bootstrap node skips the queries.                                        *)
AwaitTopology(i) ==
  /\ AwaitAt(i, "await_topology", Topology,
             IF i = Bootstrap THEN "signal_query" ELSE "query")
  /\ targets' = [targets EXCEPT ![i] =
                   IF i = Bootstrap THEN {} ELSE OtherInstances(i) \ {Bootstrap}]
  /\ UNCHANGED <<to_add, table, bucket_of, failed>>
--------------------------------------------------------------------------------
(* Querying for a target (external) comes down to asking the bootstrap node:    *)
(* the target is among the answers if that node is up and has it.               *)
Findable(j) == Up(Bootstrap) /\ j \in table[Bootstrap]

QueryDone(i, j) ==
  /\ pc[i] = "query"
  /\ targets' = [targets EXCEPT ![i] = @ \ {j}]
  /\ UNCHANGED <<runVars, to_add, bucket_of>>

(* find_enr has the target already: no query.                                   *)
SkipKnown(i, j) ==
  /\ j \in table[i]
  /\ QueryDone(i, j)
  /\ UNCHANGED <<table, failed>>

(* The nodes found may enter the table of the node that asked, and it theirs.   *)
FindTarget(i, j) ==
  /\ j \notin table[i]
  /\ Findable(j)
  /\ QueryDone(i, j)
  /\ \E learns \in BOOLEAN :
       table' = IF learns
                THEN [table EXCEPT ![i] = @ \cup {j},
                                   ![j] = IF Up(j) THEN @ \cup {i} ELSE @]
                ELSE table
  /\ UNCHANGED failed

(* "Found no ENRs", or "Couldn't find the target": it was not there to be       *)
(* found, or the query ended without it.                                        *)
MissTarget(i, j) ==
  /\ j \notin table[i]
  /\ ~Findable(j) \/ QueriesFail
  /\ QueryDone(i, j)
  /\ failed' = [failed EXCEPT ![i] = TRUE]
  /\ UNCHANGED table

(* find_node returns an error, and the expect panics.                           *)
QueryPanics(i, j) ==
  /\ QueriesFail
  /\ j \notin table[i]
  /\ Move(i, "query", "exited")
  /\ UNCHANGED findVars

EndQueries(i) ==
  /\ targets[i] = {}
  /\ Move(i, "query", "signal_query")
  /\ UNCHANGED findVars

SignalQuery(i) ==
  /\ SignalAt(i, "signal_query", Query, "await_query")
  /\ UNCHANGED findVars

AwaitQuery(i) ==
  /\ AwaitAt(i, "await_query", Query, "record")
  /\ UNCHANGED findVars

RecordOutcome(i) ==
  /\ Record(i, "record", IF failed[i] THEN "failure" ELSE "success")
  /\ UNCHANGED findVars

Step(i) ==
  \/ Prelude(i, "signal_collect") /\ UNCHANGED findVars
  \/ SignalCollected(i) \/ AwaitCollected(i)
  \/ \E j \in to_add[i] : AddEnr(i, j) \/ TableFull(i, j)
  \/ SignalTopology(i) \/ AwaitTopology(i)
  \/ \E j \in targets[i] :
       SkipKnown(i, j) \/ FindTarget(i, j) \/ MissTarget(i, j) \/ QueryPanics(i, j)
  \/ EndQueries(i) \/ SignalQuery(i) \/ AwaitQuery(i) \/ RecordOutcome(i)

Next == \E i \in Instances : Step(i)

(* Every instance is a process that runs on as long as nothing holds it up.     *)
Fairness == \A i \in Instances : WF_vars(Step(i))

Spec == Init /\ [][Next]_vars /\ Fairness
--------------------------------------------------------------------------------
(* A query runs only while it can succeed: the bootstrap node is up and knows   *)
(* everyone.  Two barriers stand behind this, one that no instance passes       *)
(* before the star is built, and one that keeps the bootstrap node up to the    *)
(* last query ("the bootstrap node knows all the nodes in our star topology").  *)
QueriesMeetTheStar ==
  \A i \in Instances : pc[i] = "query" =>
    Up(Bootstrap) /\ Others \subseteq table[Bootstrap]

(* An instance records an outcome only when every instance has run all of its   *)
(* queries, so none of them is cut off by another one's end.                    *)
OutcomesComeLast ==
  \A i, j \in Instances : verdict[i] # "none" =>
    pc[j] \in {"await_query", "record", "done"} /\ targets[j] = {}

(* README: "Initially, the bootstrap node's routing table contains all the      *)
(* nodes' ENR in the test, and each node's routing table contains the bootstrap *)
(* node's ENR only."                                                            *)
StarIsBuilt ==
  <>(table[Bootstrap] = Others /\ \A i \in Others : Bootstrap \in table[i])

(* Unless an instance exits early (a full table, a query that errs), the test   *)
(* case comes to an end on every instance, and its outcome tells whether all of *)
(* its queries found their targets.                                             *)
OutcomesTellQueries ==
  \/ <>(\E i \in Instances : pc[i] = "exited")
  \/ <>(\A i \in Instances :
         verdict[i] = IF failed[i] THEN "failure" ELSE "success")
================================================================================
