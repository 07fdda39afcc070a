-------------------------------- MODULE TestCase --------------------------------
(* What all test cases have in common.  An instance is one task that runs its   *)
(* test from top to bottom: it configures its network (main.rs), publishes and  *)
(* collects information, signals and waits, records an outcome and ends.  A "?" *)
(* or a panic ends its process early, and its discv5 node goes with it.         *)
EXTENDS Sync

VARIABLES
  pc,            \* by instance: the call it makes next; "exited" is an early end
  participants,  \* by instance: those whose information it has collected
  verdict        \* by instance: the outcome that it has recorded, or "none"

runVars == <<syncVars, pc, participants, verdict>>

Configured == "state_network_configured"

ASSUME TestCaseAssumption == Configured \in States

RunTypeOK(locations) ==
  /\ SyncTypeOK
  /\ pc \in [Instances -> locations \cup
       {"configure", "await_configured", "publish", "collect", "done", "exited"}]
  /\ participants \in [Instances -> SUBSET Instances]
  /\ verdict \in [Instances -> {"none", "success", "failure"}]

RunInit ==
  /\ SyncInit
  /\ pc = [i \in Instances |-> "configure"]
  /\ participants = [i \in Instances |-> {}]
  /\ verdict = [i \in Instances |-> "none"]

(* The process of an instance, and so its discv5 node, is still there.          *)
Up(i) == pc[i] \notin {"done", "exited"}

Goto(i, from, to) == pc[i] = from /\ pc' = [pc EXCEPT ![i] = to]

Move(i, from, to) ==
  /\ Goto(i, from, to)
  /\ UNCHANGED <<syncVars, participants, verdict>>

SignalAt(i, from, state, to) ==
  /\ Goto(i, from, to)
  /\ Signal(state)
  /\ UNCHANGED <<participants, verdict>>

(* The target of every barrier but one: run_parameters.test_instance_count.     *)
AllButOne == InstanceCount - 1
Everyone == InstanceCount

AwaitAt(i, from, state, to) ==
  /\ Reached(state, Everyone)
  /\ Move(i, from, to)

PublishInfo(i) ==
  /\ Goto(i, "publish", "collect")
  /\ Publish(i)
  /\ UNCHANGED <<participants, verdict>>

CollectInfo(i, to) ==
  /\ Goto(i, "collect", to)
  /\ Collectable(InstanceCount)
  /\ participants' = [participants EXCEPT ![i] = Collected(InstanceCount)]
  /\ UNCHANGED <<syncVars, verdict>>

(* How every test case begins.  The call to configure_network waits until the   *)
(* sidecars have configured the network of all instances.                       *)
Prelude(i, to) ==
  \/ SignalAt(i, "configure", Configured, "await_configured")
  \/ AwaitAt(i, "await_configured", Configured, "publish")
  \/ PublishInfo(i)
  \/ CollectInfo(i, to)

(* record_success or record_failure, and the end of the process.                *)
Record(i, from, outcome) ==
  /\ Goto(i, from, "done")
  /\ verdict' = [verdict EXCEPT ![i] = outcome]
  /\ UNCHANGED <<syncVars, participants>>
================================================================================
