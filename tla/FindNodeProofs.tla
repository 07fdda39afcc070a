----------------------------- MODULE FindNodeProofs -----------------------------
(* The barriers of find-node do their work for any number of instances, any     *)
(* table and whatever becomes of the queries: nobody queries before the star is *)
(* built or after its centre has left, and nobody records an outcome before the *)
(* last query has ended.                                                        *)
EXTENDS FindNode, TestCaseProofs

(* The instances that may have signalled the end of the topology, or of their   *)
(* queries.  A "?" ends the bootstrap node before its signals; any other node   *)
(* exits only in its queries, past the first signal and before the second.      *)
AfterTopology == {"await_topology", "query", "signal_query", "await_query", "record", "done"}
AfterQueries == {"await_query", "record", "done"}

BuiltTopology == {i \in Instances : pc[i] \in AfterTopology \/ (pc[i] = "exited" /\ i # Bootstrap)}
RanQueries == {i \in Instances : pc[i] \in AfterQueries}

(* No barrier is passed by one instance before all have signalled.              *)
BarrierInv ==
  /\ signals[Topology] <= Cardinality(BuiltTopology)
  /\ signals[Query] <= Cardinality(RanQueries)
  /\ \A i \in Instances : pc[i] \in AfterTopology \ {"await_topology"} => BuiltTopology = Instances
  /\ \A i \in Instances : pc[i] \in {"record", "done"} => RanQueries = Instances
  /\ \A i \in Instances : verdict[i] # "none" => pc[i] = "done"

(* The bootstrap node has everyone in its table by its first signal, and does   *)
(* not query.  What is left to add, or to query, is only touched on the way.    *)
StarInv ==
  /\ pc[Bootstrap] # "query"
  /\ pc[Bootstrap] = "topology" => Others \subseteq table[Bootstrap] \cup to_add[Bootstrap]
  /\ pc[Bootstrap] \in AfterTopology => Others \subseteq table[Bootstrap]
  /\ \A i \in Instances : pc[i] \in AfterTopology \ {"await_topology", "query"} => targets[i] = {}

IInv == TypeOK /\ CollectInv /\ BarrierInv /\ StarInv

(* The names of the states differ, and the service counts each of them.         *)
LEMMA StateNames ==
  /\ {Configured, Collect, Topology, Query} = States
  /\ Topology \notin {Configured, Collect, Query} /\ Query \notin {Configured, Collect}
  BY FindNodeAssumption DEF Configured, Collect, Topology, Query

(* Where the steps of find-node itself begin and end.                           *)
LEMMA LaterLocations ==
  Locations \cap BeforeCollecting = {} /\ {"done", "exited"} \cap BeforeCollecting = {}
  BY DEF Locations, BeforeCollecting, BeforePublishing

LEMMA InitIInv == Init => IInv
<1> SUFFICES ASSUME Init PROVE IInv
  OBVIOUS
<1>1. RunTypeOK(Locations) /\ CollectInv
  BY CollectInit DEF Init
<1>2. TypeOK
  BY <1>1 DEF Init, TypeOK
<1>3. /\ pc = [i \in Instances |-> "configure"] /\ verdict = [i \in Instances |-> "none"]
      /\ signals = [s \in States |-> 0]
  BY DEF Init, RunInit, SyncInit
<1>4. BuiltTopology \in SUBSET Instances /\ RanQueries \in SUBSET Instances
  BY DEF BuiltTopology, RanQueries
<1>5. Cardinality(BuiltTopology) \in Nat /\ Cardinality(RanQueries) \in Nat
  BY <1>4, InstancesAssumption, FS_Subset, FS_CardinalityType
<1>6. BarrierInv
  BY <1>3, <1>5, StateNames DEF BarrierInv, AfterTopology, AfterQueries
<1>7. StarInv
  BY <1>3, FindNodeAssumption DEF StarInv, AfterTopology
<1> QED
  BY <1>1, <1>2, <1>6, <1>7 DEF IInv
--------------------------------------------------------------------------------
(* An instance that moves on counts towards a barrier when it signals, goes on  *)
(* counting afterwards, and passes the barrier only when all have signalled.    *)
LEMMA BarrierStep ==
  ASSUME TypeOK, BarrierInv, NEW i \in Instances, NEW from, NEW to, Goto(i, from, to),
         from \notin {"done", "exited"},
         from \in AfterTopology =>
           to \in AfterTopology \/ (to = "exited" /\ i # Bootstrap),
         from \in AfterQueries => to \in AfterQueries,
         signals'[Topology] = signals[Topology]
           \/ /\ signals'[Topology] = signals[Topology] + 1
              /\ from \notin AfterTopology /\ to \in AfterTopology,
         signals'[Query] = signals[Query]
           \/ /\ signals'[Query] = signals[Query] + 1
              /\ from \notin AfterQueries /\ to \in AfterQueries,
         to \in AfterTopology \ {"await_topology"} =>
           from \in AfterTopology \ {"await_topology"} \/ BuiltTopology = Instances,
         to \in {"record", "done"} => from \in {"record", "done"} \/ RanQueries = Instances,
         \A j \in Instances : verdict'[j] = verdict[j] \/ (j = i /\ to = "done")
  PROVE  BarrierInv'
<1>1. /\ pc \in [Instances -> Locations \cup
           {"configure", "await_configured", "publish", "collect", "done", "exited"}]
      /\ signals \in [States -> Nat]
      /\ pc[i] = from /\ pc' = [pc EXCEPT ![i] = to]
  BY DEF TypeOK, RunTypeOK, SyncTypeOK, Goto
<1>2. /\ BuiltTopology \in SUBSET Instances /\ BuiltTopology' \in SUBSET Instances
      /\ RanQueries \in SUBSET Instances /\ RanQueries' \in SUBSET Instances
  BY DEF BuiltTopology, RanQueries
<1>3. BuiltTopology \subseteq BuiltTopology' /\ RanQueries \subseteq RanQueries'
  BY <1>1 DEF BuiltTopology, RanQueries
<1>4. signals[Topology] \in Nat /\ signals[Query] \in Nat
  BY <1>1, StateNames
<1>5. signals'[Topology] <= Cardinality(BuiltTopology')
  <2>1. CASE signals'[Topology] = signals[Topology]
    BY <1>2, <1>3, <1>4, <2>1, SignalsCounted DEF BarrierInv
  <2>2. CASE from \notin AfterTopology /\ to \in AfterTopology
    <3>1. i \in BuiltTopology' /\ i \notin BuiltTopology
      BY <1>1, <2>2 DEF BuiltTopology
    <3>2. signals[Topology] + 1 <= Cardinality(BuiltTopology')
      BY <1>2, <1>3, <1>4, <3>1, SignalsCounted DEF BarrierInv
    <3>3. signals[Topology] <= Cardinality(BuiltTopology')
      BY <1>2, <1>3, <1>4, SignalsCounted DEF BarrierInv
    <3> QED
      BY <3>2, <3>3
  <2> QED
    BY <2>1, <2>2
<1>6. signals'[Query] <= Cardinality(RanQueries')
  <2>1. CASE signals'[Query] = signals[Query]
    BY <1>2, <1>3, <1>4, <2>1, SignalsCounted DEF BarrierInv
  <2>2. CASE from \notin AfterQueries /\ to \in AfterQueries
    <3>1. i \in RanQueries' /\ i \notin RanQueries
      BY <1>1, <2>2 DEF RanQueries
    <3>2. signals[Query] + 1 <= Cardinality(RanQueries')
      BY <1>2, <1>3, <1>4, <3>1, SignalsCounted DEF BarrierInv
    <3>3. signals[Query] <= Cardinality(RanQueries')
      BY <1>2, <1>3, <1>4, SignalsCounted DEF BarrierInv
    <3> QED
      BY <3>2, <3>3
  <2> QED
    BY <2>1, <2>2
<1>7. \A j \in Instances : pc'[j] \in AfterTopology \ {"await_topology"} =>
        BuiltTopology' = Instances
  BY <1>1, <1>2, <1>3 DEF BarrierInv
<1>8. \A j \in Instances : pc'[j] \in {"record", "done"} => RanQueries' = Instances
  BY <1>1, <1>2, <1>3 DEF BarrierInv
<1>9. \A j \in Instances : verdict'[j] # "none" => pc'[j] = "done"
  BY <1>1 DEF BarrierInv
<1> QED
  BY <1>5, <1>6, <1>7, <1>8, <1>9 DEF BarrierInv

(* A step that only touches tables, and what is left to do, disturbs neither    *)
(* the barriers nor what has been collected.                                    *)
LEMMA QuietStep ==
  ASSUME RunTypeOK(Locations), CollectInv, BarrierInv, UNCHANGED runVars
  PROVE  RunTypeOK(Locations)' /\ CollectInv' /\ BarrierInv'
<1> USE DEF runVars, syncVars
<1>1. Published' = Published /\ BuiltTopology' = BuiltTopology /\ RanQueries' = RanQueries
  BY DEF Published, BuiltTopology, RanQueries
<1> QED
  BY <1>1 DEF RunTypeOK, SyncTypeOK, CollectInv, BarrierInv
--------------------------------------------------------------------------------
(* Where the barriers stand when an instance is at the calls around them.       *)
LEMMA PassTopology ==
  ASSUME TypeOK, BarrierInv, Reached(Topology, Everyone)
  PROVE  BuiltTopology = Instances
<1>1. signals[Topology] \in Nat /\ BuiltTopology \in SUBSET Instances
  BY StateNames DEF TypeOK, RunTypeOK, SyncTypeOK, BuiltTopology
<1> QED
  BY <1>1, BarrierNeedsAll DEF BarrierInv, Reached, Everyone

LEMMA PassQuery ==
  ASSUME TypeOK, BarrierInv, Reached(Query, Everyone)
  PROVE  RanQueries = Instances
<1>1. signals[Query] \in Nat /\ RanQueries \in SUBSET Instances
  BY StateNames DEF TypeOK, RunTypeOK, SyncTypeOK, RanQueries
<1> QED
  BY <1>1, BarrierNeedsAll DEF BarrierInv, Reached, Everyone

(* The steps before the topology.                                               *)
LEMMA BeforeStep ==
  ASSUME IInv, NEW i \in Instances,
         \/ Prelude(i, "signal_collect") /\ UNCHANGED findVars
         \/ SignalCollected(i)
  PROVE  IInv'
<1> USE DEF IInv
<1>1. RunTypeOK(Locations)' /\ CollectInv'
  <2>1. CASE Prelude(i, "signal_collect")
    BY <2>1, PreludeStep DEF TypeOK, Locations, BeforeCollecting, BeforePublishing
  <2>2. CASE SignalCollected(i)
    <3>1. /\ "signal_collect" \in Locations /\ "await_collect" \in Locations
          /\ Collect \in States /\ SignalAt(i, "signal_collect", Collect, "await_collect")
      BY <2>2, StateNames DEF SignalCollected, Locations
    <3> QED
      BY <3>1, LaterLocations, SignalStep DEF TypeOK
  <2> QED
    BY <2>1, <2>2
<1>2. UNCHANGED findVars /\ UNCHANGED verdict
  BY DEF SignalCollected, Prelude, SignalAt, AwaitAt, Move, PublishInfo, CollectInfo
<1>3. TypeOK'
  BY <1>1, <1>2 DEF TypeOK, findVars
<1>4. \E from, to \in {"configure", "await_configured", "publish", "collect",
                       "signal_collect", "await_collect"} : Goto(i, from, to)
  BY DEF SignalCollected, Prelude, SignalAt, AwaitAt, Move, PublishInfo, CollectInfo
<1>5. signals'[Topology] = signals[Topology] /\ signals'[Query] = signals[Query]
  <2>1. signals \in [States -> Nat]
    BY DEF TypeOK, RunTypeOK, SyncTypeOK
  <2>2. \/ UNCHANGED signals
        \/ \E s \in {Configured, Collect} : signals' = [signals EXCEPT ![s] = @ + 1]
    BY DEF SignalCollected, Prelude, SignalAt, AwaitAt, Move, PublishInfo, CollectInfo,
           Signal, Publish, syncVars
  <2> QED
    BY <2>1, <2>2, StateNames
<1>6. PICK from, to \in {"configure", "await_configured", "publish", "collect",
                         "signal_collect", "await_collect"} : Goto(i, from, to)
  BY <1>4
<1>7. BarrierInv'
  BY <1>2, <1>5, <1>6, BarrierStep DEF AfterTopology, AfterQueries
<1>8. StarInv'
  BY <1>2, <1>6 DEF StarInv, AfterTopology, findVars, Goto, TypeOK, RunTypeOK
<1> QED
  BY <1>1, <1>3, <1>7, <1>8

(* What the bootstrap node has to add is everyone it has collected, and that is *)
(* everyone.                                                                    *)
LEMMA AwaitCollectedStep ==
  ASSUME IInv, NEW i \in Instances, AwaitCollected(i)
  PROVE  IInv'
<1> USE DEF IInv
<1>1. RunTypeOK(Locations)' /\ CollectInv'
  <2>1. /\ "await_collect" \in Locations /\ "topology" \in Locations
        /\ AwaitAt(i, "await_collect", Collect, "topology")
    BY DEF AwaitCollected, Locations
  <2> QED
    BY <2>1, LaterLocations, AwaitStep DEF TypeOK
<1>2. /\ Goto(i, "await_collect", "topology") /\ UNCHANGED <<signals, verdict>>
      /\ UNCHANGED <<table, bucket_of, targets, failed>>
  BY DEF AwaitCollected, AwaitAt, Move, syncVars
<1>3. to_add' = [to_add EXCEPT ![i] = IF i = Bootstrap THEN Others
                                      ELSE OtherInstances(i) \cap {Bootstrap}]
  BY <1>2 DEF AwaitCollected, OtherInstances, Others, CollectInv, Goto,
              BeforeCollecting, BeforePublishing
<1>4. TypeOK'
  BY <1>1, <1>2, <1>3, FindNodeAssumption DEF TypeOK, Others
<1>5. BarrierInv'
  BY <1>2, BarrierStep DEF AfterTopology, AfterQueries
<1>6. StarInv'
  BY <1>2, <1>3 DEF StarInv, AfterTopology, Goto, TypeOK, RunTypeOK
<1> QED
  BY <1>1, <1>4, <1>5, <1>6

LEMMA AddEnrStep ==
  ASSUME IInv, NEW i \in Instances, NEW j \in to_add[i], AddEnr(i, j)
  PROVE  IInv'
<1> USE DEF IInv
<1>1. RunTypeOK(Locations)' /\ CollectInv' /\ BarrierInv'
  BY QuietStep DEF AddEnr, TypeOK
<1>2. /\ pc[i] = "topology" /\ UNCHANGED <<pc, bucket_of, targets, failed>>
      /\ table' = [table EXCEPT ![i] = @ \cup {j}]
      /\ to_add' = [to_add EXCEPT ![i] = @ \ {j}]
  BY DEF AddEnr, runVars
<1>3. j \in Instances
  BY DEF TypeOK
<1>4. TypeOK'
  BY <1>1, <1>2, <1>3 DEF TypeOK
<1>5. StarInv'
  BY <1>2 DEF StarInv, AfterTopology, TypeOK
<1> QED
  BY <1>1, <1>4, <1>5

(* Only the bootstrap node can find its table full.                             *)
LEMMA TableFullStep ==
  ASSUME IInv, NEW i \in Instances, NEW j \in to_add[i], TableFull(i, j)
  PROVE  IInv'
<1> USE DEF IInv
<1>1. RunTypeOK(Locations)' /\ CollectInv'
  <2>1. "topology" \in Locations /\ Move(i, "topology", "exited")
    BY DEF TableFull, Locations
  <2> QED
    BY <2>1, LaterLocations, MoveStep DEF TypeOK
<1>2. Goto(i, "topology", "exited") /\ UNCHANGED <<signals, verdict>> /\ UNCHANGED findVars
  BY DEF TableFull, Move, syncVars
<1>3. TypeOK'
  BY <1>1, <1>2 DEF TypeOK, findVars
<1>4. BarrierInv'
  BY <1>2, BarrierStep DEF AfterTopology, AfterQueries
<1>5. StarInv'
  BY <1>2 DEF StarInv, AfterTopology, findVars, Goto, TypeOK, RunTypeOK
<1> QED
  BY <1>1, <1>3, <1>4, <1>5

(* Nothing left to add: the star is complete when its centre signals.           *)
LEMMA SignalTopologyStep ==
  ASSUME IInv, NEW i \in Instances, SignalTopology(i)
  PROVE  IInv'
<1> USE DEF IInv
<1>1. RunTypeOK(Locations)' /\ CollectInv'
  <2>1. /\ "topology" \in Locations /\ "await_topology" \in Locations
        /\ Topology \in States /\ SignalAt(i, "topology", Topology, "await_topology")
    BY StateNames DEF SignalTopology, Locations
  <2> QED
    BY <2>1, LaterLocations, SignalStep DEF TypeOK
<1>2. /\ Goto(i, "topology", "await_topology") /\ to_add[i] = {}
      /\ signals' = [signals EXCEPT ![Topology] = @ + 1]
      /\ UNCHANGED verdict /\ UNCHANGED findVars
  BY DEF SignalTopology, SignalAt, Signal
<1>3. TypeOK'
  BY <1>1, <1>2 DEF TypeOK, findVars
<1>4. signals'[Topology] = signals[Topology] + 1 /\ signals'[Query] = signals[Query]
  BY <1>2, StateNames DEF TypeOK, RunTypeOK, SyncTypeOK
<1>5. BarrierInv'
  BY <1>2, <1>4, BarrierStep DEF AfterTopology, AfterQueries
<1>6. StarInv'
  BY <1>2 DEF StarInv, AfterTopology, findVars, Goto, TypeOK, RunTypeOK
<1> QED
  BY <1>1, <1>3, <1>5, <1>6

LEMMA AwaitTopologyStep ==
  ASSUME IInv, NEW i \in Instances, AwaitTopology(i)
  PROVE  IInv'
<1> USE DEF IInv
<1> DEFINE to == IF i = Bootstrap THEN "signal_query" ELSE "query"
<1>1. RunTypeOK(Locations)' /\ CollectInv'
  <2>1. /\ "await_topology" \in Locations /\ to \in Locations
        /\ AwaitAt(i, "await_topology", Topology, to)
    BY DEF AwaitTopology, Locations
  <2> HIDE DEF to
  <2> QED
    BY <2>1, LaterLocations, AwaitStep DEF TypeOK
<1>2. /\ Goto(i, "await_topology", to) /\ UNCHANGED <<signals, verdict>>
      /\ UNCHANGED <<to_add, table, bucket_of, failed>>
      /\ targets' = [targets EXCEPT ![i] =
                       IF i = Bootstrap THEN {} ELSE OtherInstances(i) \ {Bootstrap}]
  BY DEF AwaitTopology, AwaitAt, Move, syncVars
<1>3. BuiltTopology = Instances
  BY PassTopology DEF AwaitTopology, AwaitAt
<1>4. TypeOK'
  BY <1>1, <1>2 DEF TypeOK, OtherInstances, RunTypeOK
<1>5. BarrierInv'
  BY <1>2, <1>3, BarrierStep DEF AfterTopology, AfterQueries
<1>6. StarInv'
  BY <1>2 DEF StarInv, AfterTopology, Goto, TypeOK, RunTypeOK
<1> QED
  BY <1>1, <1>4, <1>5, <1>6

(* A query takes one target off the list and may add to tables.                 *)
LEMMA QueryStep ==
  ASSUME IInv, NEW i \in Instances, NEW j \in targets[i],
         SkipKnown(i, j) \/ FindTarget(i, j) \/ MissTarget(i, j)
  PROVE  IInv'
<1> USE DEF IInv
<1>1. /\ pc[i] = "query" /\ UNCHANGED runVars /\ UNCHANGED <<to_add, bucket_of>>
      /\ targets' = [targets EXCEPT ![i] = @ \ {j}]
  BY DEF SkipKnown, FindTarget, MissTarget, QueryDone
<1>2. RunTypeOK(Locations)' /\ CollectInv' /\ BarrierInv'
  BY <1>1, QuietStep DEF TypeOK
<1>3. failed' \in [Instances -> BOOLEAN]
  BY DEF SkipKnown, FindTarget, MissTarget, TypeOK
<1>4. j \in Instances
  BY DEF TypeOK
<1>5. /\ table \in [Instances -> SUBSET Instances]
      /\ UNCHANGED table \/ FindTarget(i, j)
  BY DEF SkipKnown, MissTarget, TypeOK
<1>6. table' \in [Instances -> SUBSET Instances]
      /\ \A k \in Instances : table[k] \subseteq table'[k]
  <2>1. CASE UNCHANGED table
    BY <1>5, <2>1
  <2>2. CASE FindTarget(i, j)
    <3>1. PICK learns \in BOOLEAN :
            table' = IF learns
                     THEN [table EXCEPT ![i] = @ \cup {j},
                                        ![j] = IF Up(j) THEN @ \cup {i} ELSE @]
                     ELSE table
      BY <2>2 DEF FindTarget
    <3>2. CASE learns
      BY <1>4, <1>5, <3>1, <3>2
    <3>3. CASE ~learns
      BY <1>5, <3>1, <3>3
    <3> QED
      BY <3>2, <3>3
  <2> QED
    BY <1>5, <2>1, <2>2
<1>7. TypeOK'
  BY <1>1, <1>2, <1>3, <1>6 DEF TypeOK
<1>8. pc' = pc
  BY <1>1 DEF runVars
<1>9. StarInv'
  BY <1>1, <1>6, <1>8, FindNodeAssumption DEF StarInv, AfterTopology, TypeOK
<1> QED
  BY <1>2, <1>7, <1>9

LEMMA QueryPanicsStep ==
  ASSUME IInv, NEW i \in Instances, NEW j \in targets[i], QueryPanics(i, j)
  PROVE  IInv'
<1> USE DEF IInv
<1>1. RunTypeOK(Locations)' /\ CollectInv'
  <2>1. "query" \in Locations /\ Move(i, "query", "exited")
    BY DEF QueryPanics, Locations
  <2> QED
    BY <2>1, LaterLocations, MoveStep DEF TypeOK
<1>2. Goto(i, "query", "exited") /\ UNCHANGED <<signals, verdict>> /\ UNCHANGED findVars
  BY DEF QueryPanics, Move, syncVars
<1>3. TypeOK'
  BY <1>1, <1>2 DEF TypeOK, findVars
<1>4. i # Bootstrap
  BY <1>2 DEF StarInv, Goto
<1>5. BarrierInv'
  BY <1>2, <1>4, BarrierStep DEF AfterTopology, AfterQueries
<1>6. StarInv'
  BY <1>2, <1>4 DEF StarInv, AfterTopology, findVars, Goto, TypeOK, RunTypeOK
<1> QED
  BY <1>1, <1>3, <1>5, <1>6

(* From the last query to the outcome.                                          *)
LEMMA AfterStep ==
  ASSUME IInv, NEW i \in Instances,
         EndQueries(i) \/ SignalQuery(i) \/ AwaitQuery(i) \/ RecordOutcome(i)
  PROVE  IInv'
<1> USE DEF IInv
<1>1. UNCHANGED findVars
  BY DEF EndQueries, SignalQuery, AwaitQuery, RecordOutcome
<1>2. RunTypeOK(Locations)' /\ CollectInv'
  <2> USE DEF TypeOK
  <2>0. {"query", "signal_query", "await_query", "record"} \subseteq Locations
    BY DEF Locations
  <2>1. CASE EndQueries(i)
    <3>1. Move(i, "query", "signal_query")
      BY <2>1 DEF EndQueries
    <3> QED
      BY <2>0, <3>1, LaterLocations, MoveStep
  <2>2. CASE SignalQuery(i)
    <3>1. SignalAt(i, "signal_query", Query, "await_query") /\ Query \in States
      BY <2>2, StateNames DEF SignalQuery
    <3> QED
      BY <2>0, <3>1, LaterLocations, SignalStep
  <2>3. CASE AwaitQuery(i)
    <3>1. AwaitAt(i, "await_query", Query, "record")
      BY <2>3 DEF AwaitQuery
    <3> QED
      BY <2>0, <3>1, LaterLocations, AwaitStep
  <2>4. CASE RecordOutcome(i)
    <3>1. PICK outcome \in {"success", "failure"} : Record(i, "record", outcome)
      BY <2>4 DEF RecordOutcome
    <3> QED
      BY <2>0, <3>1, LaterLocations, RecordStep
  <2> QED
    BY <2>1, <2>2, <2>3, <2>4
<1>3. TypeOK'
  BY <1>1, <1>2 DEF TypeOK, findVars
<1>4. BarrierInv'
  <2> USE DEF AfterTopology, AfterQueries
  <2>1. CASE EndQueries(i)
    <3>1. Goto(i, "query", "signal_query") /\ UNCHANGED <<signals, verdict>>
      BY <2>1 DEF EndQueries, Move, syncVars
    <3> QED
      BY <3>1, BarrierStep
  <2>2. CASE SignalQuery(i)
    <3>1. /\ Goto(i, "signal_query", "await_query") /\ UNCHANGED verdict
          /\ signals' = [signals EXCEPT ![Query] = @ + 1]
      BY <2>2 DEF SignalQuery, SignalAt, Signal
    <3>2. signals'[Topology] = signals[Topology] /\ signals'[Query] = signals[Query] + 1
      BY <3>1, StateNames DEF TypeOK, RunTypeOK, SyncTypeOK
    <3> QED
      BY <3>1, <3>2, BarrierStep
  <2>3. CASE AwaitQuery(i)
    <3>1. Goto(i, "await_query", "record") /\ UNCHANGED <<signals, verdict>>
          /\ RanQueries = Instances
      BY <2>3, PassQuery DEF AwaitQuery, AwaitAt, Move, syncVars
    <3> QED
      BY <3>1, BarrierStep
  <2>4. CASE RecordOutcome(i)
    <3>1. /\ Goto(i, "record", "done") /\ UNCHANGED signals
          /\ \A j \in Instances : verdict'[j] = verdict[j] \/ j = i
      BY <2>4 DEF RecordOutcome, Record, syncVars, TypeOK, RunTypeOK
    <3> QED
      BY <3>1, BarrierStep
  <2> QED
    BY <2>1, <2>2, <2>3, <2>4
<1>5. StarInv'
  <2>1. \/ Goto(i, "query", "signal_query") /\ targets[i] = {}
        \/ Goto(i, "signal_query", "await_query")
        \/ Goto(i, "await_query", "record")
        \/ Goto(i, "record", "done")
    BY DEF EndQueries, SignalQuery, AwaitQuery, RecordOutcome, Move, SignalAt, AwaitAt, Record
  <2>2. pc \in [Instances -> Locations \cup {"configure", "await_configured", "publish",
                                              "collect", "done", "exited"}]
    BY DEF TypeOK, RunTypeOK
  <2>3. /\ pc[i] \in AfterTopology /\ pc'[i] \in AfterTopology \ {"query"}
        /\ \A j \in Instances \ {i} : pc'[j] = pc[j]
    BY <2>1, <2>2 DEF Goto, AfterTopology
  <2>4. pc'[i] \in AfterTopology \ {"await_topology", "query"} /\ targets[i] = {}
    BY <2>1, <2>2 DEF Goto, AfterTopology, StarInv
  <2>5. i = Bootstrap => pc'[Bootstrap] \notin {"query", "topology"}
    BY <2>4 DEF AfterTopology
  <2> QED
    BY <1>1, <2>3, <2>4, <2>5, FindNodeAssumption DEF StarInv, findVars
<1> QED
  BY <1>2, <1>3, <1>4, <1>5
--------------------------------------------------------------------------------
(* The invariant is inductive.                                                  *)
LEMMA NextIInv == IInv /\ [Next]_vars => IInv'
<1> SUFFICES ASSUME IInv, [Next]_vars PROVE IInv'
  OBVIOUS
<1>1. CASE UNCHANGED vars
  <2>1. RunTypeOK(Locations)' /\ CollectInv' /\ BarrierInv'
    <3>1. UNCHANGED runVars
      BY <1>1 DEF vars
    <3> QED
      BY <3>1, QuietStep DEF IInv, TypeOK
  <2> QED
    BY <1>1, <2>1 DEF IInv, TypeOK, StarInv, vars, runVars, findVars
<1>2. CASE Next
  <2> PICK i \in Instances : Step(i)
    BY <1>2 DEF Next
  <2> QED
    BY BeforeStep, AwaitCollectedStep, AddEnrStep, TableFullStep, SignalTopologyStep,
       AwaitTopologyStep, QueryStep, QueryPanicsStep, AfterStep DEF Step
<1> QED
  BY <1>1, <1>2

LEMMA Invariance == Spec => []IInv
  BY InitIInv, NextIInv, PTL DEF Spec

(* The state of find-node keeps its type, for any number of instances, any      *)
(* buckets and any failures.                                                    *)
THEOREM FindNodeTypeCorrect == Spec => []TypeOK
<1>1. IInv => TypeOK
  BY DEF IInv
<1> QED
  BY <1>1, Invariance, PTL

(* No query runs before the star is complete or after its centre has left.      *)
THEOREM QueriesMeetTheStarAlways == Spec => []QueriesMeetTheStar
<1>1. IInv => QueriesMeetTheStar
  <2> SUFFICES ASSUME IInv, NEW i \in Instances, pc[i] = "query"
               PROVE  Up(Bootstrap) /\ Others \subseteq table[Bootstrap]
    BY DEF QueriesMeetTheStar
  <2>1. Bootstrap \in Instances /\ BuiltTopology = Instances /\ RanQueries # Instances
    BY FindNodeAssumption DEF IInv, BarrierInv, AfterTopology, RanQueries, AfterQueries
  <2>2. pc[Bootstrap] \in AfterTopology
    BY <2>1 DEF BuiltTopology
  <2>3. pc[Bootstrap] # "done"
    BY <2>1 DEF IInv, BarrierInv
  <2> QED
    BY <2>2, <2>3 DEF IInv, StarInv, Up, AfterTopology
<1> QED
  BY <1>1, Invariance, PTL

(* No outcome is recorded before every instance has ended its last query.       *)
THEOREM OutcomesComeLastAlways == Spec => []OutcomesComeLast
<1>1. IInv => OutcomesComeLast
  <2> SUFFICES ASSUME IInv, NEW i \in Instances, NEW j \in Instances, verdict[i] # "none"
               PROVE  pc[j] \in {"await_query", "record", "done"} /\ targets[j] = {}
    BY DEF OutcomesComeLast
  <2>1. RanQueries = Instances
    BY DEF IInv, BarrierInv
  <2> QED
    BY <2>1 DEF RanQueries, AfterQueries, IInv, StarInv, AfterTopology
<1> QED
  BY <1>1, Invariance, PTL
================================================================================
