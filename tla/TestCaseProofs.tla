----------------------------- MODULE TestCaseProofs -----------------------------
(* What holds of every test case, for any number of instances: a barrier that   *)
(* counts as many signals as there are instances is passed by all or by none,   *)
(* and an instance that has collected information has collected everyone's.     *)
EXTENDS TestCase, FiniteSetTheorems, SequenceTheorems, TLAPS

(* The number of instances is a natural number.                                 *)
LEMMA InstanceCountType == InstanceCount \in Nat
  BY InstancesAssumption, FS_CardinalityType DEF InstanceCount

(* A barrier whose signals come from different instances needs all of them.     *)
LEMMA BarrierNeedsAll ==
  ASSUME NEW P \in SUBSET Instances, NEW n \in Nat,
         n <= Cardinality(P), n >= InstanceCount
  PROVE  P = Instances
<1>1. Cardinality(P) \in Nat /\ Cardinality(P) <= Cardinality(Instances)
      /\ (Cardinality(Instances) = Cardinality(P) => Instances = P)
  BY InstancesAssumption, FS_Subset, FS_CardinalityType
<1>2. Cardinality(Instances) \in Nat
  BY InstancesAssumption, FS_CardinalityType
<1> QED
  BY <1>1, <1>2 DEF InstanceCount

(* A count of signals stays below the number of instances that may have given   *)
(* one when these become more, and grows by one with a newcomer among them.     *)
LEMMA SignalsCounted ==
  ASSUME NEW P \in SUBSET Instances, NEW Q \in SUBSET Instances, P \subseteq Q,
         NEW n \in Nat, n <= Cardinality(P)
  PROVE  /\ n <= Cardinality(Q)
         /\ \A x \in Q : x \notin P => n + 1 <= Cardinality(Q)
<1>1. IsFiniteSet(Q) /\ IsFiniteSet(P)
  BY InstancesAssumption, FS_Subset
<1>2. Cardinality(P) \in Nat /\ Cardinality(Q) \in Nat /\ Cardinality(P) <= Cardinality(Q)
  BY <1>1, FS_Subset, FS_CardinalityType
<1>3. ASSUME NEW x \in Q, x \notin P PROVE n + 1 <= Cardinality(Q)
  <2>1. Cardinality(P \cup {x}) = Cardinality(P) + 1
    BY <1>1, <1>3, FS_AddElement
  <2>2. P \cup {x} \in SUBSET Q
    BY <1>3
  <2>3. Cardinality(P \cup {x}) <= Cardinality(Q)
    BY <1>1, <2>2, FS_Subset
  <2> QED
    BY <1>2, <2>1, <2>3
<1> QED
  BY <1>2, <1>3
--------------------------------------------------------------------------------
BeforePublishing == {"configure", "await_configured", "publish"}
BeforeCollecting == BeforePublishing \cup {"collect"}

Published == {topic[k] : k \in DOMAIN topic}

(* No instance publishes twice, so the topic is as long as it has authors; and  *)
(* who has collected has waited for all of them.                                *)
CollectInv ==
  /\ Len(topic) <= Cardinality(Published)
  /\ \A i \in Published : pc[i] \notin BeforePublishing
  /\ \A i \in Instances : pc[i] \notin BeforeCollecting => participants[i] = Instances

(* No test case has begun with anything collected.                              *)
LEMMA CollectInit ==
  ASSUME NEW locations, RunInit
  PROVE  RunTypeOK(locations) /\ CollectInv
<1>1. Published = {} /\ Len(topic) = 0
  BY DEF RunInit, SyncInit, Published
<1>2. Cardinality({}) = 0
  BY FS_EmptySet
<1>3. CollectInv
  BY <1>1, <1>2 DEF CollectInv, RunInit, BeforePublishing, BeforeCollecting
<1>4. RunTypeOK(locations)
  BY DEF RunInit, RunTypeOK, SyncInit, SyncTypeOK
<1> QED
  BY <1>3, <1>4

(* The published entries are a finite set of instances.                         *)
LEMMA PublishedType ==
  ASSUME topic \in Seq(Instances)
  PROVE  Published \in SUBSET Instances /\ IsFiniteSet(Published)
<1>1. Published \in SUBSET Instances
  BY ElementOfSeq DEF Published
<1> QED
  BY <1>1, InstancesAssumption, FS_Subset

(* When the topic holds as many entries as there are instances, the first so    *)
(* many of them are everyone's.                                                 *)
LEMMA CollectedEveryone ==
  ASSUME topic \in Seq(Instances), Len(topic) <= Cardinality(Published),
         Collectable(InstanceCount)
  PROVE  Collected(InstanceCount) = Instances
<1>1. Len(topic) \in Nat /\ DOMAIN topic = 1..Len(topic)
  BY LenProperties
<1>2. Published = Instances
  BY <1>1, PublishedType, BarrierNeedsAll DEF Collectable
<1>3. Len(topic) <= InstanceCount
  BY <1>2 DEF InstanceCount
<1>4. {j \in DOMAIN topic : j <= InstanceCount} = DOMAIN topic
  BY <1>1, <1>3, InstanceCountType
<1> QED
  BY <1>2, <1>4 DEF Collected, Published
--------------------------------------------------------------------------------
(* A step of an instance that has already collected keeps what it knows.        *)
LEMMA LaterStep ==
  ASSUME NEW locations, RunTypeOK(locations), CollectInv,
         NEW i \in Instances, NEW from, NEW to \in locations \cup {"done", "exited"},
         from \notin BeforeCollecting, to \notin BeforeCollecting,
         Goto(i, from, to), UNCHANGED <<topic, participants>>,
         signals' \in [States -> Nat],
         verdict' \in [Instances -> {"none", "success", "failure"}]
  PROVE  RunTypeOK(locations)' /\ CollectInv'
<1>1. RunTypeOK(locations)'
  BY DEF RunTypeOK, SyncTypeOK, Goto
<1>2. \A j \in Instances : pc[j] \in BeforeCollecting \/ pc'[j] \in BeforeCollecting
        => pc'[j] = pc[j]
  BY DEF Goto, RunTypeOK
<1>3. Published' = Published /\ Published \in SUBSET Instances
  BY PublishedType DEF Published, RunTypeOK, SyncTypeOK
<1>4. CollectInv'
  BY <1>2, <1>3 DEF CollectInv, BeforeCollecting
<1> QED
  BY <1>1, <1>4

(* The four ways in which an instance goes on after it has collected.           *)
LEMMA MoveStep ==
  ASSUME NEW locations, RunTypeOK(locations), CollectInv,
         NEW i \in Instances, NEW from, NEW to \in locations \cup {"done", "exited"},
         from \notin BeforeCollecting, to \notin BeforeCollecting, Move(i, from, to)
  PROVE  RunTypeOK(locations)' /\ CollectInv'
<1>1. Goto(i, from, to) /\ UNCHANGED <<signals, topic, participants, verdict>>
  BY DEF Move, syncVars
<1>2. signals' \in [States -> Nat] /\ verdict' \in [Instances -> {"none", "success", "failure"}]
  BY <1>1 DEF RunTypeOK, SyncTypeOK
<1> QED
  BY <1>1, <1>2, LaterStep

LEMMA SignalStep ==
  ASSUME NEW locations, RunTypeOK(locations), CollectInv,
         NEW i \in Instances, NEW from, NEW to \in locations \cup {"done", "exited"},
         NEW state \in States,
         from \notin BeforeCollecting, to \notin BeforeCollecting, SignalAt(i, from, state, to)
  PROVE  RunTypeOK(locations)' /\ CollectInv'
<1>1. /\ Goto(i, from, to) /\ UNCHANGED <<topic, participants, verdict>>
      /\ signals' = [signals EXCEPT ![state] = @ + 1]
  BY DEF SignalAt, Signal
<1>2. signals' \in [States -> Nat] /\ verdict' \in [Instances -> {"none", "success", "failure"}]
  BY <1>1 DEF RunTypeOK, SyncTypeOK
<1> QED
  BY <1>1, <1>2, LaterStep

LEMMA AwaitStep ==
  ASSUME NEW locations, RunTypeOK(locations), CollectInv,
         NEW i \in Instances, NEW from, NEW to \in locations \cup {"done", "exited"},
         NEW state,
         from \notin BeforeCollecting, to \notin BeforeCollecting, AwaitAt(i, from, state, to)
  PROVE  RunTypeOK(locations)' /\ CollectInv'
  BY MoveStep DEF AwaitAt

LEMMA RecordStep ==
  ASSUME NEW locations, RunTypeOK(locations), CollectInv,
         NEW i \in Instances, NEW from, NEW outcome \in {"success", "failure"},
         from \notin BeforeCollecting, Record(i, from, outcome)
  PROVE  RunTypeOK(locations)' /\ CollectInv'
<1>1. /\ Goto(i, from, "done") /\ UNCHANGED <<signals, topic, participants>>
      /\ verdict' = [verdict EXCEPT ![i] = outcome]
  BY DEF Record, syncVars
<1>2. signals' \in [States -> Nat] /\ verdict' \in [Instances -> {"none", "success", "failure"}]
  BY <1>1 DEF RunTypeOK, SyncTypeOK
<1>3. "done" \notin BeforeCollecting
  BY DEF BeforeCollecting, BeforePublishing
<1> QED
  BY <1>1, <1>2, <1>3, LaterStep

(* The steps that every test case begins with establish it.                     *)
LEMMA PreludeStep ==
  ASSUME NEW locations, RunTypeOK(locations), CollectInv,
         NEW i \in Instances, NEW to \in locations, to \notin BeforeCollecting,
         Prelude(i, to)
  PROVE  RunTypeOK(locations)' /\ CollectInv'
<1> USE DEF BeforeCollecting, BeforePublishing
<1>0. /\ topic \in Seq(Instances) /\ signals \in [States -> Nat]
      /\ pc \in [Instances -> locations \cup
           {"configure", "await_configured", "publish", "collect", "done", "exited"}]
      /\ Published \in SUBSET Instances /\ IsFiniteSet(Published)
  BY PublishedType DEF RunTypeOK, SyncTypeOK
<1>1. CASE \/ SignalAt(i, "configure", Configured, "await_configured")
           \/ AwaitAt(i, "await_configured", Configured, "publish")
  <2>1. /\ UNCHANGED <<topic, participants, verdict>> /\ signals' \in [States -> Nat]
        /\ \/ pc[i] = "configure" /\ pc' = [pc EXCEPT ![i] = "await_configured"]
           \/ pc[i] = "await_configured" /\ pc' = [pc EXCEPT ![i] = "publish"]
    BY <1>0, <1>1, TestCaseAssumption DEF SignalAt, AwaitAt, Goto, Move, Signal, syncVars
  <2>2. RunTypeOK(locations)'
    BY <1>0, <2>1 DEF RunTypeOK, SyncTypeOK
  <2>3. i \notin Published /\ Published' = Published
    BY <2>1 DEF CollectInv, Published
  <2>4. CollectInv'
    BY <1>0, <2>1, <2>3 DEF CollectInv
  <2> QED
    BY <2>2, <2>4
<1>2. CASE PublishInfo(i)
  <2>1. /\ topic' = Append(topic, i) /\ UNCHANGED <<signals, participants, verdict>>
        /\ pc[i] = "publish" /\ pc' = [pc EXCEPT ![i] = "collect"]
    BY <1>2 DEF PublishInfo, Goto, Publish
  <2>2. RunTypeOK(locations)'
    BY <1>0, <2>1, AppendProperties DEF RunTypeOK, SyncTypeOK
  <2>3. i \notin Published
    BY <2>1 DEF CollectInv
  <2>4. /\ Len(topic) \in Nat /\ DOMAIN topic = 1..Len(topic)
        /\ Len(topic') = Len(topic) + 1 /\ DOMAIN topic' = 1..(Len(topic) + 1)
        /\ topic'[Len(topic) + 1] = i
        /\ \A k \in 1..Len(topic) : topic'[k] = topic[k]
    BY <1>0, <2>1, LenProperties, AppendProperties
  <2>5. Published' = Published \cup {i}
    BY <2>4 DEF Published
  <2>6. Cardinality(Published') = Cardinality(Published) + 1
        /\ Cardinality(Published) \in Nat
    BY <1>0, <2>3, <2>5, FS_AddElement, FS_CardinalityType
  <2>7. Len(topic') <= Cardinality(Published')
    BY <2>4, <2>6 DEF CollectInv
  <2>8. \A j \in Published' : pc'[j] \notin BeforePublishing
    BY <1>0, <2>1, <2>5 DEF CollectInv
  <2>9. \A j \in Instances : pc'[j] \notin BeforeCollecting => participants'[j] = Instances
    BY <1>0, <2>1 DEF CollectInv
  <2> QED
    BY <2>2, <2>7, <2>8, <2>9 DEF CollectInv
<1>3. CASE CollectInfo(i, to)
  <2>1. /\ UNCHANGED <<topic, signals, verdict>>
        /\ participants' = [participants EXCEPT ![i] = Instances]
        /\ pc[i] = "collect" /\ pc' = [pc EXCEPT ![i] = to]
    BY <1>0, <1>3, CollectedEveryone DEF CollectInfo, Goto, CollectInv, syncVars
  <2>2. RunTypeOK(locations)'
    BY <1>0, <2>1 DEF RunTypeOK, SyncTypeOK
  <2>3. Published' = Published
    BY <2>1 DEF Published
  <2>4. CollectInv'
    BY <1>0, <2>1, <2>3 DEF CollectInv, RunTypeOK
  <2> QED
    BY <2>2, <2>4
<1> QED
  BY <1>1, <1>2, <1>3 DEF Prelude
--------------------------------------------------------------------------------
(* A barrier at the end of a test case: those that have signalled it.           *)
AtEnd(wait) == {wait, "record", "done"}
SignalledEnd(wait) == {i \in Instances : pc[i] \in AtEnd(wait)}

(* None passes it before all have signalled, and none records an outcome but    *)
(* behind it.                                                                   *)
EndBarrier(state, wait) ==
  /\ signals[state] <= Cardinality(SignalledEnd(wait))
  /\ \A i \in Instances : pc[i] \in {"record", "done"} => SignalledEnd(wait) = Instances
  /\ \A i \in Instances : verdict[i] # "none" => pc[i] = "done"

(* No test case begins behind its last barrier.                                 *)
LEMMA EndBarrierInit ==
  ASSUME RunInit, NEW state \in States, NEW wait
  PROVE  EndBarrier(state, wait)
<1>1. /\ pc = [i \in Instances |-> "configure"] /\ verdict = [i \in Instances |-> "none"]
      /\ signals[state] = 0
  BY DEF RunInit, SyncInit
<1>2. SignalledEnd(wait) \in SUBSET Instances
  BY DEF SignalledEnd
<1>3. Cardinality(SignalledEnd(wait)) \in Nat
  BY <1>2, InstancesAssumption, FS_Subset, FS_CardinalityType
<1> QED
  BY <1>1, <1>3 DEF EndBarrier

(* An instance counts towards the barrier from its signal on, and passes it     *)
(* only when all have signalled.                                                *)
LEMMA EndBarrierStep ==
  ASSUME NEW locations, RunTypeOK(locations),
         NEW state \in States, NEW wait, EndBarrier(state, wait),
         NEW i \in Instances, NEW from, NEW to, Goto(i, from, to),
         from \in AtEnd(wait) => to \in AtEnd(wait), from # "done",
         signals'[state] = signals[state]
           \/ /\ signals'[state] = signals[state] + 1
              /\ from \notin AtEnd(wait) /\ to \in AtEnd(wait),
         to \in {"record", "done"} => from = "record" \/ SignalledEnd(wait) = Instances,
         \A j \in Instances : verdict'[j] = verdict[j] \/ (j = i /\ to = "done")
  PROVE  EndBarrier(state, wait)'
<1> DEFINE P == SignalledEnd(wait)
<1>1. /\ pc \in [Instances -> locations \cup
           {"configure", "await_configured", "publish", "collect", "done", "exited"}]
      /\ signals[state] \in Nat
      /\ pc[i] = from /\ pc' = [pc EXCEPT ![i] = to]
  BY DEF RunTypeOK, SyncTypeOK, Goto
<1>2. P \in SUBSET Instances /\ P' \in SUBSET Instances /\ P \subseteq P'
  BY <1>1 DEF SignalledEnd
<1>3. signals[state] <= Cardinality(P')
  BY <1>1, <1>2, SignalsCounted DEF EndBarrier
<1>4. signals'[state] <= Cardinality(P')
  <2>1. CASE from \notin AtEnd(wait) /\ to \in AtEnd(wait)
    <3>1. i \in P' /\ i \notin P
      BY <1>1, <2>1 DEF SignalledEnd
    <3>2. signals[state] + 1 <= Cardinality(P')
      BY <1>1, <1>2, <3>1, SignalsCounted DEF EndBarrier
    <3> QED
      BY <1>3, <3>2
  <2> QED
    BY <1>3, <2>1
<1>5. \A j \in Instances : pc'[j] \in {"record", "done"} => P' = Instances
  BY <1>1, <1>2 DEF EndBarrier
<1>6. \A j \in Instances : verdict'[j] # "none" => pc'[j] = "done"
  BY <1>1 DEF EndBarrier
<1> QED
  BY <1>4, <1>5, <1>6 DEF EndBarrier

(* Whoever passes it has all the signals before him.                            *)
LEMMA EndBarrierPassed ==
  ASSUME NEW locations, RunTypeOK(locations),
         NEW state \in States, NEW wait, EndBarrier(state, wait), Reached(state, Everyone)
  PROVE  SignalledEnd(wait) = Instances
<1>1. signals[state] \in Nat /\ SignalledEnd(wait) \in SUBSET Instances
  BY DEF RunTypeOK, SyncTypeOK, SignalledEnd
<1> QED
  BY <1>1, BarrierNeedsAll DEF EndBarrier, Reached, Everyone

(* A step that moves no instance leaves barriers and information alone.         *)
LEMMA EndQuietStep ==
  ASSUME NEW locations, RunTypeOK(locations), CollectInv,
         NEW state \in States, NEW wait, EndBarrier(state, wait), UNCHANGED runVars
  PROVE  RunTypeOK(locations)' /\ CollectInv' /\ EndBarrier(state, wait)'
<1> USE DEF runVars, syncVars
<1>1. Published' = Published /\ SignalledEnd(wait)' = SignalledEnd(wait)
  BY DEF Published, SignalledEnd
<1> QED
  BY <1>1 DEF RunTypeOK, SyncTypeOK, CollectInv, EndBarrier

(* Nor do the steps that every test case begins with: none of them is at the    *)
(* end, and none signals the end.                                               *)
LEMMA EndPreludeStep ==
  ASSUME NEW locations, RunTypeOK(locations), CollectInv,
         NEW state \in States, state # Configured, NEW wait, wait \notin BeforeCollecting,
         EndBarrier(state, wait),
         NEW i \in Instances, NEW to \in locations, to \notin AtEnd(wait), Prelude(i, to)
  PROVE  EndBarrier(state, wait)'
<1>1. PICK from, next \in BeforeCollecting \cup {to} :
        from \in BeforeCollecting /\ Goto(i, from, next)
  BY DEF Prelude, SignalAt, AwaitAt, Move, PublishInfo, CollectInfo,
         BeforeCollecting, BeforePublishing
<1>2. signals'[state] = signals[state] /\ UNCHANGED verdict
  <2>1. signals \in [States -> Nat]
    BY DEF RunTypeOK, SyncTypeOK
  <2>2. /\ UNCHANGED signals \/ signals' = [signals EXCEPT ![Configured] = @ + 1]
        /\ UNCHANGED verdict
    BY DEF Prelude, SignalAt, AwaitAt, Move, PublishInfo, CollectInfo, Signal, Publish, syncVars
  <2> QED
    BY <2>1, <2>2
<1>3. from \notin AtEnd(wait) /\ next \notin AtEnd(wait) /\ from # "done"
  BY <1>1 DEF AtEnd, BeforeCollecting, BeforePublishing
<1>4. next \notin {"record", "done"}
  BY <1>3 DEF AtEnd
<1> QED
  BY <1>1, <1>2, <1>3, <1>4, EndBarrierStep
================================================================================
