---------------------------------- MODULE Sync ----------------------------------
(* What the scenarios use of Testground's sync service: signals that are        *)
(* counted by state and awaited with a target, and one topic that every         *)
(* instance publishes its information on and reads from the beginning.  The     *)
(* service is not part of this repository; publish_and_collect is (utils.rs).   *)
EXTENDS Naturals, FiniteSets, Sequences

CONSTANTS
  Instances,  \* the instances of the test case
  States      \* the names of the states that they signal

ASSUME InstancesAssumption == IsFiniteSet(Instances) /\ Instances # {}

VARIABLES
  signals,  \* by state: how often it has been signalled
  topic     \* the instances whose information has been published, in order

syncVars == <<signals, topic>>

SyncTypeOK ==
  /\ signals \in [States -> Nat]
  /\ topic \in Seq(Instances)

SyncInit ==
  /\ signals = [s \in States |-> 0]
  /\ topic = <<>>

(* run_parameters.test_instance_count                                           *)
InstanceCount == Cardinality(Instances)

Signal(state) ==
  /\ signals' = [signals EXCEPT ![state] = @ + 1]
  /\ UNCHANGED topic

(* The second half of signal_and_wait, and the whole of barrier.                *)
Reached(state, target) == signals[state] >= target

Publish(i) ==
  /\ topic' = Append(topic, i)
  /\ UNCHANGED signals

(* The collecting loop of publish_and_collect reads as many entries as there    *)
(* are instances, and waits for those that are missing.                         *)
CollectableEarly(count) == Len(topic) >= count - 1
CollectableLate(count) == Len(topic) >= count + 1
Collectable(count) == Len(topic) >= count

CollectedPositions(count) == {j \in DOMAIN topic : j <= count}
Collected(count) == {topic[k] : k \in {j \in DOMAIN topic : j <= count}}
================================================================================
