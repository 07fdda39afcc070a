------------------------------ MODULE EclipseProofs -----------------------------
(* The victim looks at its table after the last attack, and its outcome tells   *)
(* whether it is vulnerable, for any number of attackers and any bucket: the    *)
(* 18 attackers and 16 entries of the code are out of a model checker's reach.  *)
EXTENDS Eclipse, TestCaseProofs

(* Where an attacker has started its query, and where it has signalled its end. *)
Sent == {"signal_done"} \cup AtEnd("await_done")
Attacking == {"query", "signal_sent"} \cup Sent

SentQuery == {a \in Group : pc[a] \in Sent}
Shaken == {a \in Group : pc[a] \in Attacking /\ a \notin arriving}
KeysOf(attackers) == {Key(a) : a \in attackers}

(* The victim's barrier is passed when all attackers have signalled, the last   *)
(* one when everyone has.                                                       *)
BarrierInv ==
  /\ EndBarrier(Done, "await_done")
  /\ signals[AttackersSentQuery] <= Cardinality(SentQuery)
  /\ pc[Victim] = "add_honest" => SentQuery = Group

(* A handshake that is on its way is an attacker's, and one that is late has    *)
(* been noted.                                                                  *)
ArrivalInv ==
  /\ \A a \in arriving : pc[a] \in Attacking
  /\ ~missed => \A a \in arriving : pc[a] = "query"

(* Until the victim looks, its bucket holds the attackers that have arrived,    *)
(* all of them unless the limit has been reached.                               *)
BucketInv ==
  result = "none" =>
    /\ bucket \subseteq KeysOf(Shaken)
    /\ Cardinality(bucket) <= incoming_bucket_limit
    /\ Cardinality(bucket) < incoming_bucket_limit => bucket = KeysOf(Shaken)

Vulnerable == Attackers >= BucketSize /\ incoming_bucket_limit = BucketSize

ResultInv ==
  /\ pc[Victim] \in Sent <=> result # "none"
  /\ result # "none" /\ ~missed => (result = "table_full" <=> Vulnerable)
  /\ verdict[Victim] # "none" => (verdict[Victim] = "failure" <=> result = "table_full")

IInv == TypeOK /\ CollectInv /\ BarrierInv /\ ArrivalInv /\ BucketInv /\ ResultInv

(* The names of the states differ, and the service counts each of them.         *)
LEMMA StateNames ==
  /\ {Configured, Collect, AttackersSentQuery, Done} = States
  /\ Done \notin {Configured, Collect, AttackersSentQuery}
  /\ AttackersSentQuery \notin {Configured, Collect}
  BY EclipseAssumption DEF Configured, Collect, AttackersSentQuery, Done

(* Where the steps of eclipse itself begin and end.                             *)
LEMMA LaterLocations ==
  /\ Locations \cap BeforeCollecting = {} /\ {"done", "exited"} \cap BeforeCollecting = {}
  /\ "await_done" \notin BeforeCollecting
  BY DEF Locations, BeforeCollecting, BeforePublishing

(* The groups of instances are disjoint.                                        *)
LEMMA Groups ==
  /\ Victim \in Instances /\ Honest \in Instances /\ Group \in SUBSET Instances
  /\ Victim \notin Group /\ Honest \notin Group /\ Victim # Honest
  BY EclipseAssumption DEF Victim, Honest, Group

(* The attackers take the keys behind the honest node's, one each.              *)
LEMMA Keys ==
  /\ \A a \in Group : Key(a) \in 2..Attackers + 1
  /\ Key(Honest) = 1
  /\ KeysOf(Group) = 2..Attackers + 1
<1>1. ASSUME NEW a \in Group PROVE Key(a) = a[2] + 1 /\ a[2] \in 1..Attackers
  BY EclipseAssumption, <1>1 DEF Group, Key, Offset
<1>2. Key(Honest) = 1
  BY DEF Honest, Key, Offset
<1>3. \A k \in 2..Attackers + 1 : \E a \in Group : Key(a) = k
  <2> SUFFICES ASSUME NEW k \in 2..Attackers + 1 PROVE \E a \in Group : Key(a) = k
    OBVIOUS
  <2>1. <<"attackers", k - 1>> \in Group
    BY EclipseAssumption DEF Group
  <2>2. Key(<<"attackers", k - 1>>) = k
    BY <1>1, <2>1
  <2> QED
    BY <2>1, <2>2
<1>4. \A a \in Group : Key(a) \in 2..Attackers + 1
  BY <1>1, EclipseAssumption
<1> QED
  BY <1>2, <1>3, <1>4 DEF KeysOf

(* As many keys as attackers.                                                   *)
LEMMA KeysCounted ==
  /\ Cardinality(KeysOf(Group)) = Attackers
  /\ \A S \in SUBSET KeysOf(Group) :
       IsFiniteSet(S) /\ Cardinality(S) \in Nat /\ Cardinality(S) <= Attackers
<1>1. IsFiniteSet(2..Attackers + 1) /\ Cardinality(2..Attackers + 1) = Attackers
  <2>1. Attackers \in Nat /\ Attackers + 1 \in Int /\ 2 \in Int
    BY EclipseAssumption
  <2>2. /\ IsFiniteSet(2..Attackers + 1)
        /\ Cardinality(2..Attackers + 1) = IF 2 > Attackers + 1 THEN 0 ELSE (Attackers + 1) - 2 + 1
    BY <2>1, FS_Interval
  <2> QED
    BY <2>1, <2>2
<1> QED
  BY <1>1, Keys, FS_Subset, FS_CardinalityType

LEMMA InitIInv == Init => IInv
<1> SUFFICES ASSUME Init PROVE IInv
  OBVIOUS
<1>1. RunTypeOK(Locations) /\ CollectInv
  BY CollectInit DEF Init
<1>2. TypeOK
  BY <1>1 DEF Init, TypeOK
<1>3. /\ pc = [i \in Instances |-> "configure"] /\ verdict = [i \in Instances |-> "none"]
      /\ signals[AttackersSentQuery] = 0
  BY StateNames DEF Init, RunInit, SyncInit
<1>4. SentQuery = {} /\ Shaken = {} /\ Cardinality({}) = 0
  BY <1>3, Groups, FS_EmptySet DEF SentQuery, Shaken, Sent, Attacking, AtEnd
<1>5. BarrierInv
  BY <1>3, <1>4, Groups, StateNames, EndBarrierInit DEF Init, BarrierInv
<1>6. ArrivalInv
  BY DEF ArrivalInv, Init
<1>7. BucketInv
  BY <1>4 DEF BucketInv, KeysOf, Init
<1>8. ResultInv
  BY <1>3, Groups DEF ResultInv, Init, Sent, AtEnd
<1> QED
  BY <1>1, <1>2, <1>5, <1>6, <1>7, <1>8 DEF IInv
--------------------------------------------------------------------------------
(* Where an instance is after it has gone on, and where the others stay.        *)
LEMMA Arrives ==
  ASSUME TypeOK, NEW i \in Instances, NEW from, NEW to, Goto(i, from, to)
  PROVE  /\ pc[i] = from /\ pc'[i] = to
         /\ \A j \in Instances : j # i => pc'[j] = pc[j]
  BY DEF TypeOK, RunTypeOK, Goto

(* The victim's barrier counts attackers that have signalled.                   *)
LEMMA BarrierStep ==
  ASSUME TypeOK, BarrierInv, NEW i \in Instances, NEW from, NEW to, Goto(i, from, to),
         EndBarrier(Done, "await_done")', from \in Sent => to \in Sent,
         signals'[AttackersSentQuery] = signals[AttackersSentQuery]
           \/ /\ signals'[AttackersSentQuery] = signals[AttackersSentQuery] + 1
              /\ i \in Group /\ from \notin Sent /\ to \in Sent,
         i = Victim /\ to = "add_honest" => SentQuery = Group
  PROVE  BarrierInv'
<1>1. SentQuery \in SUBSET Instances /\ SentQuery' \in SUBSET Instances
      /\ SentQuery \subseteq SentQuery'
  BY Groups, Arrives DEF SentQuery
<1>2. signals[AttackersSentQuery] \in Nat
  BY StateNames DEF TypeOK, RunTypeOK, SyncTypeOK
<1>3. signals[AttackersSentQuery] <= Cardinality(SentQuery')
  BY <1>1, <1>2, SignalsCounted DEF BarrierInv
<1>4. signals'[AttackersSentQuery] <= Cardinality(SentQuery')
  <2>1. CASE i \in Group /\ from \notin Sent /\ to \in Sent
    <3>1. i \in SentQuery' /\ i \notin SentQuery
      BY <2>1, Arrives DEF SentQuery
    <3>2. signals[AttackersSentQuery] + 1 <= Cardinality(SentQuery')
      BY <1>1, <1>2, <3>1, SignalsCounted DEF BarrierInv
    <3> QED
      BY <1>3, <3>2
  <2> QED
    BY <1>3, <2>1
<1>5. pc'[Victim] = "add_honest" => SentQuery' = Group
  <2>1. SentQuery' \subseteq Group
    BY DEF SentQuery
  <2> QED
    BY <1>1, <2>1, Groups, Arrives DEF BarrierInv
<1> QED
  BY <1>4, <1>5 DEF BarrierInv

(* A step of the test that leaves what belongs to the attack alone: no attacker *)
(* starts or ends its query, and the victim does not look at its table.         *)
LEMMA PlainStep ==
  ASSUME IInv, NEW i \in Instances, NEW from, NEW to, Goto(i, from, to),
         UNCHANGED testVars, RunTypeOK(Locations)', CollectInv', BarrierInv',
         i \in Group => (from \in Attacking <=> to \in Attacking) /\ from # "query",
         i = Victim => (from \in Sent <=> to \in Sent),
         \A j \in Instances : verdict'[j] = verdict[j]
           \/ (j = i /\ verdict'[j] = IF i = Victim /\ result = "table_full"
                                      THEN "failure" ELSE "success")
  PROVE  IInv'
<1> USE DEF IInv
<1>1. TypeOK'
  BY DEF TypeOK, testVars
<1>2. Shaken' = Shaken
  BY Groups, Arrives DEF Shaken, testVars
<1>3. ArrivalInv'
  <2>1. \A a \in arriving : a \in Group /\ a \in Instances
    BY Groups DEF TypeOK
  <2>2. \A a \in arriving : pc'[a] \in Attacking
    BY <2>1, Arrives DEF ArrivalInv
  <2>3. ~missed => \A a \in arriving : pc'[a] = "query"
    BY <2>1, Arrives DEF ArrivalInv
  <2> QED
    BY <2>2, <2>3 DEF ArrivalInv, testVars
<1>4. BucketInv'
  BY <1>2 DEF BucketInv, testVars, KeysOf
<1>5. pc'[Victim] \in Sent <=> pc[Victim] \in Sent
  BY Groups, Arrives
<1>6. ResultInv'
  BY <1>5, Groups DEF ResultInv, Vulnerable, testVars
<1> QED
  BY <1>1, <1>3, <1>4, <1>6

(* A move within the test touches neither signals nor outcomes.                 *)
LEMMA InnerMove ==
  ASSUME TypeOK, CollectInv, BarrierInv, NEW i \in Instances,
         NEW from \in Locations \ AtEnd("await_done"),
         NEW to \in (Locations \cup {"exited"}) \ AtEnd("await_done"), Move(i, from, to),
         from \in Sent => to \in Sent,
         i = Victim /\ to = "add_honest" => SentQuery = Group
  PROVE  /\ RunTypeOK(Locations)' /\ CollectInv' /\ BarrierInv'
         /\ Goto(i, from, to) /\ verdict' = verdict
<1>1. RunTypeOK(Locations)' /\ CollectInv'
  BY LaterLocations, MoveStep DEF TypeOK
<1>2. Goto(i, from, to) /\ UNCHANGED <<signals, verdict>>
  BY DEF Move, syncVars
<1>3. EndBarrier(Done, "await_done")'
  <2>1. to \notin {"record", "done"} /\ from # "done"
    BY DEF AtEnd
  <2> QED
    BY <1>2, <2>1, StateNames, EndBarrierStep DEF TypeOK, BarrierInv
<1>4. BarrierInv'
  BY <1>2, <1>3, BarrierStep
<1> QED
  BY <1>1, <1>2, <1>4

(* A step that moves no instance.                                               *)
LEMMA QuietStep ==
  ASSUME TypeOK, CollectInv, BarrierInv, UNCHANGED runVars
  PROVE  RunTypeOK(Locations)' /\ CollectInv' /\ BarrierInv' /\ pc' = pc /\ verdict' = verdict
<1>1. RunTypeOK(Locations)' /\ CollectInv' /\ EndBarrier(Done, "await_done")'
  BY StateNames, EndQuietStep DEF TypeOK, BarrierInv
<1>2. pc' = pc /\ verdict' = verdict /\ signals' = signals
  BY DEF runVars, syncVars
<1> QED
  BY <1>1, <1>2 DEF BarrierInv, SentQuery
--------------------------------------------------------------------------------
(* The steps before the first barrier of the test, where an instance may also   *)
(* find that a group is missing.                                                *)
LEMMA BeforeStep ==
  ASSUME IInv, NEW i \in Instances,
         \/ Prelude(i, "signal_collect") /\ UNCHANGED testVars
         \/ SignalCollected(i)
  PROVE  IInv'
<1> USE DEF IInv
<1>1. "signal_collect" \in Locations /\ "await_collect" \in Locations
      /\ {"signal_collect", "await_collect", "exited"} \cap (Attacking \cup Sent) = {}
      /\ {"signal_collect", "await_collect", "exited"} \cap AtEnd("await_done") = {}
      /\ BeforeCollecting \cap (Attacking \cup Sent) = {}
  BY DEF Locations, Attacking, Sent, AtEnd, BeforeCollecting, BeforePublishing
<1>2. CASE Prelude(i, "signal_collect") /\ UNCHANGED testVars
  <2>1. RunTypeOK(Locations)' /\ CollectInv'
    BY <1>1, <1>2, LaterLocations, PreludeStep DEF TypeOK
  <2>2. EndBarrier(Done, "await_done")'
    BY <1>1, <1>2, StateNames, LaterLocations, EndPreludeStep DEF TypeOK, BarrierInv
  <2>3. PICK from, next \in BeforeCollecting \cup {"signal_collect"} :
          from \in BeforeCollecting /\ Goto(i, from, next)
    BY <1>2 DEF Prelude, SignalAt, AwaitAt, Move, PublishInfo, CollectInfo,
                BeforeCollecting, BeforePublishing
  <2>4. UNCHANGED verdict /\ signals'[AttackersSentQuery] = signals[AttackersSentQuery]
    <3>1. signals \in [States -> Nat]
      BY DEF TypeOK, RunTypeOK, SyncTypeOK
    <3>2. /\ UNCHANGED signals \/ signals' = [signals EXCEPT ![Configured] = @ + 1]
          /\ UNCHANGED verdict
      BY <1>2 DEF Prelude, SignalAt, AwaitAt, Move, PublishInfo, CollectInfo, Signal, Publish,
                  syncVars
    <3> QED
      BY <3>1, <3>2, StateNames
  <2>5. from \notin Attacking \cup Sent /\ next \notin Attacking \cup Sent
        /\ from # "query" /\ next # "add_honest"
    BY <1>1, <2>3 DEF Attacking, BeforeCollecting, BeforePublishing
  <2>6. BarrierInv'
    BY <2>2, <2>3, <2>4, <2>5, BarrierStep
  <2> QED
    BY <1>2, <2>1, <2>3, <2>4, <2>5, <2>6, PlainStep
<1>3. CASE SignalCollected(i)
  <2>1. UNCHANGED testVars
    BY <1>3 DEF SignalCollected
  <2>2. CASE Move(i, "signal_collect", "exited")
    BY <1>1, <2>1, <2>2, InnerMove, PlainStep
  <2>3. CASE SignalAt(i, "signal_collect", Collect, "await_collect")
    <3>1. RunTypeOK(Locations)' /\ CollectInv'
      BY <1>1, <2>3, StateNames, LaterLocations, SignalStep DEF TypeOK
    <3>2. /\ Goto(i, "signal_collect", "await_collect") /\ UNCHANGED verdict
          /\ signals'[Done] = signals[Done]
          /\ signals'[AttackersSentQuery] = signals[AttackersSentQuery]
      BY <2>3, StateNames DEF SignalAt, Signal, TypeOK, RunTypeOK, SyncTypeOK
    <3>3. EndBarrier(Done, "await_done")'
      BY <1>1, <3>2, StateNames, EndBarrierStep DEF TypeOK, BarrierInv, AtEnd
    <3>4. BarrierInv'
      BY <1>1, <3>2, <3>3, BarrierStep
    <3> QED
      BY <1>1, <2>1, <3>1, <3>2, <3>4, PlainStep
  <2> QED
    BY <1>3, <2>2, <2>3 DEF SignalCollected
<1> QED
  BY <1>2, <1>3

(* Everyone plays its role.                                                     *)
LEMMA AwaitCollectedStep ==
  ASSUME IInv, NEW i \in Instances, AwaitCollected(i)
  PROVE  IInv'
<1> USE DEF IInv
<1> DEFINE to == CASE i = Victim -> "await_attack"
                   [] i = Honest -> "signal_done"
                   [] OTHER      -> "attack"
<1>1. /\ to \in {"await_attack", "signal_done", "attack"}
      /\ i = Victim => to = "await_attack"
      /\ i \in Group => to = "attack"
  BY Groups
<1>2. Move(i, "await_collect", to) /\ UNCHANGED testVars
  BY DEF AwaitCollected, AwaitAt
<1> HIDE DEF to
<1>3. "await_collect" \in Locations \ AtEnd("await_done") /\ to \in Locations \ AtEnd("await_done")
      /\ "await_collect" \notin Sent \cup Attacking /\ to # "add_honest"
  BY <1>1 DEF Locations, AtEnd, Sent, Attacking
<1>4. /\ i = Victim => to \notin Sent
      /\ i \in Group => to \notin Attacking
  BY <1>1 DEF Sent, Attacking, AtEnd
<1>5. RunTypeOK(Locations)' /\ CollectInv' /\ BarrierInv'
      /\ Goto(i, "await_collect", to) /\ verdict' = verdict
  BY <1>2, <1>3, InnerMove
<1> QED
  BY <1>2, <1>3, <1>4, <1>5, PlainStep

(* An attacker that starts its query has not arrived yet.                       *)
LEMMA AttackStep ==
  ASSUME IInv, NEW a \in Group, Attack(a)
  PROVE  IInv'
<1> USE DEF IInv
<1>1. /\ Move(a, "attack", "query") /\ arriving' = arriving \cup {a} /\ a \in Instances
      /\ UNCHANGED <<incoming_bucket_limit, bucket, result, missed>>
  BY Groups DEF Attack
<1>2. RunTypeOK(Locations)' /\ CollectInv' /\ BarrierInv'
      /\ Goto(a, "attack", "query") /\ verdict' = verdict
  BY <1>1, InnerMove DEF Locations, AtEnd, Sent
<1>3. /\ pc[a] = "attack" /\ pc'[a] = "query"
      /\ \A j \in Instances : j # a => pc'[j] = pc[j]
  BY <1>1, <1>2, Arrives
<1>4. TypeOK'
  BY <1>1, <1>2 DEF TypeOK
<1>5. "query" \in Attacking /\ "attack" \notin Attacking
  BY DEF Attacking, Sent, AtEnd
<1>6. Shaken' = Shaken
  BY <1>1, <1>3, <1>5, Groups DEF Shaken
<1>7. ArrivalInv'
  BY <1>1, <1>3, <1>5, Groups DEF ArrivalInv, TypeOK
<1>8. BucketInv'
  BY <1>1, <1>6 DEF BucketInv, KeysOf
<1>9. ResultInv'
  BY <1>1, <1>2, <1>3, Groups DEF ResultInv, Vulnerable
<1> QED
  BY <1>2, <1>4, <1>7, <1>8, <1>9

(* A query that has not reached the victim is noted as it ends.                 *)
LEMMA QueryEndsStep ==
  ASSUME IInv, NEW a \in Group, QueryEnds(a)
  PROVE  IInv'
<1> USE DEF IInv
<1>1. /\ Move(a, "query", "signal_sent") /\ missed' = (missed \/ a \in arriving) /\ a \in Instances
      /\ UNCHANGED <<incoming_bucket_limit, bucket, arriving, result>>
  BY Groups DEF QueryEnds
<1>2. RunTypeOK(Locations)' /\ CollectInv' /\ BarrierInv'
      /\ Goto(a, "query", "signal_sent") /\ verdict' = verdict
  BY <1>1, InnerMove DEF Locations, AtEnd, Sent
<1>3. /\ pc[a] = "query" /\ pc'[a] = "signal_sent"
      /\ \A j \in Instances : j # a => pc'[j] = pc[j]
  BY <1>1, <1>2, Arrives
<1>4. TypeOK'
  BY <1>1, <1>2 DEF TypeOK
<1>5. "query" \in Attacking /\ "signal_sent" \in Attacking
  BY DEF Attacking
<1>6. Shaken' = Shaken
  BY <1>1, <1>3, <1>5, Groups DEF Shaken
<1>7. ArrivalInv'
  <2>1. \A x \in arriving : x \in Instances /\ pc'[x] \in Attacking
    BY <1>3, <1>5, Groups DEF ArrivalInv, TypeOK
  <2>2. ~missed' => ~missed /\ a \notin arriving
    BY <1>1
  <2>3. ~missed' => \A x \in arriving : pc'[x] = "query"
    BY <1>3, <2>1, <2>2 DEF ArrivalInv
  <2> QED
    BY <1>1, <2>1, <2>3 DEF ArrivalInv
<1>8. BucketInv'
  BY <1>1, <1>6 DEF BucketInv, KeysOf
<1>9. ~missed' => ~missed
  BY <1>1
<1>10. ResultInv'
  BY <1>1, <1>2, <1>3, <1>9, Groups DEF ResultInv, Vulnerable
<1> QED
  BY <1>2, <1>4, <1>7, <1>8, <1>10

(* An attacker signals once, behind its query.                                  *)
LEMMA SignalSentStep ==
  ASSUME IInv, NEW a \in Group, SignalSent(a)
  PROVE  IInv'
<1> USE DEF IInv
<1>1. /\ SignalAt(a, "signal_sent", AttackersSentQuery, "signal_done")
      /\ UNCHANGED testVars /\ a \in Instances /\ a # Victim
  BY Groups DEF SignalSent
<1>2. RunTypeOK(Locations)' /\ CollectInv'
  <2>1. "signal_sent" \in Locations /\ "signal_done" \in Locations
    BY DEF Locations
  <2> QED
    BY <1>1, <2>1, StateNames, LaterLocations, SignalStep DEF TypeOK
<1>3. /\ Goto(a, "signal_sent", "signal_done") /\ UNCHANGED verdict
      /\ signals'[Done] = signals[Done]
      /\ signals'[AttackersSentQuery] = signals[AttackersSentQuery] + 1
  BY <1>1, StateNames DEF SignalAt, Signal, TypeOK, RunTypeOK, SyncTypeOK
<1>4. EndBarrier(Done, "await_done")'
  BY <1>1, <1>3, StateNames, EndBarrierStep DEF TypeOK, BarrierInv, AtEnd
<1>5. "signal_sent" \notin Sent /\ "signal_done" \in Sent
      /\ "signal_sent" \in Attacking /\ "signal_done" \in Attacking
  BY DEF Sent, Attacking, AtEnd
<1>6. BarrierInv'
  BY <1>1, <1>3, <1>4, <1>5, BarrierStep
<1> QED
  BY <1>1, <1>2, <1>3, <1>5, <1>6, PlainStep

(* The victim has collected all attackers and waits for as many signals.        *)
LEMMA AwaitAttackStep ==
  ASSUME IInv, AwaitAttack
  PROVE  IInv'
<1> USE DEF IInv
<1>1. /\ Reached(AttackersSentQuery, AttackersLen) /\ Move(Victim, "await_attack", "add_honest")
      /\ UNCHANGED testVars
  BY DEF AwaitAttack
<1>2. pc[Victim] = "await_attack"
  BY <1>1 DEF Move, Goto
<1>3. participants[Victim] \cap Group = Group
  BY <1>2, Groups DEF CollectInv, BeforeCollecting, BeforePublishing
<1>4. SentQuery = Group
  <2>1. IsFiniteSet(Group) /\ SentQuery \in SUBSET Group
    BY Groups, InstancesAssumption, FS_Subset DEF SentQuery
  <2>2. Cardinality(SentQuery) \in Nat /\ Cardinality(Group) \in Nat
        /\ Cardinality(SentQuery) <= Cardinality(Group)
        /\ (Cardinality(Group) = Cardinality(SentQuery) => Group = SentQuery)
    BY <2>1, FS_Subset, FS_CardinalityType
  <2>3. signals[AttackersSentQuery] \in Nat /\ signals[AttackersSentQuery] >= Cardinality(Group)
    BY <1>1, <1>3, StateNames DEF Reached, AttackersLen, TypeOK, RunTypeOK, SyncTypeOK
  <2> QED
    BY <2>2, <2>3 DEF BarrierInv
<1>5. RunTypeOK(Locations)' /\ CollectInv' /\ BarrierInv'
      /\ Goto(Victim, "await_attack", "add_honest") /\ verdict' = verdict
  BY <1>1, <1>4, Groups, InnerMove DEF Locations, AtEnd, Sent
<1>6. {"await_attack", "add_honest"} \cap Sent = {}
  BY DEF Sent, AtEnd
<1> QED
  BY <1>1, <1>5, <1>6, Groups, PlainStep

(* The victim looks when no handshake is on its way any more but those that     *)
(* have been noted as missed.                                                   *)
LEMMA AddHonestStep ==
  ASSUME IInv, AddHonest
  PROVE  IInv'
<1> USE DEF IInv
<1>1. /\ Move(Victim, "add_honest", "signal_done")
      /\ UNCHANGED <<incoming_bucket_limit, arriving, missed>>
  BY DEF AddHonest
<1>2. RunTypeOK(Locations)' /\ CollectInv' /\ BarrierInv'
      /\ Goto(Victim, "add_honest", "signal_done") /\ verdict' = verdict
  BY <1>1, Groups, InnerMove DEF Locations, AtEnd, Sent
<1>3. /\ pc[Victim] = "add_honest" /\ pc'[Victim] = "signal_done"
      /\ \A j \in Instances : j # Victim => pc'[j] = pc[j]
  BY <1>2, Groups, Arrives
<1>4. result = "none" /\ SentQuery = Group /\ verdict[Victim] = "none"
  BY <1>3, Groups DEF ResultInv, BarrierInv, EndBarrier, Sent, AtEnd
<1>5. /\ bucket \subseteq KeysOf(Group) /\ Cardinality(bucket) <= incoming_bucket_limit
      /\ Cardinality(bucket) < incoming_bucket_limit => bucket = KeysOf(Shaken)
  BY <1>4 DEF BucketInv, KeysOf, Shaken
<1>6. /\ Cardinality(bucket) \in Nat /\ Cardinality(bucket) <= Attackers
      /\ Key(Honest) \notin bucket /\ Attackers \in Nat /\ BucketSize \in Nat
      /\ incoming_bucket_limit \in Nat /\ incoming_bucket_limit <= BucketSize
  BY <1>5, Keys, KeysCounted, EclipseAssumption DEF TypeOK
<1>7. ~missed => Shaken = Group
  <2>1. "query" \notin Sent /\ Sent \subseteq Attacking
    BY DEF Sent, Attacking, AtEnd
  <2>2. \A a \in Group : pc[a] \in Sent
    BY <1>4 DEF SentQuery
  <2>3. ~missed => arriving = {}
    BY <2>1, <2>2 DEF ArrivalInv, TypeOK
  <2> QED
    BY <2>1, <2>2, <2>3 DEF Shaken
<1>8. ~missed => (Cardinality(bucket) < BucketSize <=> ~Vulnerable)
  <2>1. ~missed /\ Cardinality(bucket) < incoming_bucket_limit
          => Cardinality(bucket) = Attackers
    BY <1>5, <1>7, KeysCounted
  <2> QED
    BY <1>5, <1>6, <2>1 DEF Vulnerable
<1>9. IF Cardinality(bucket) < BucketSize
      THEN bucket' = bucket \cup {1} /\ result' = "ok"
      ELSE UNCHANGED bucket /\ result' = "table_full"
  BY <1>6, Keys DEF AddHonest
<1>10. TypeOK'
  <2>1. 1 \in 0..Attackers + 1
    BY <1>6
  <2>2. bucket' \in SUBSET (0..Attackers + 1) /\ result' \in {"none", "ok", "table_full"}
    BY <1>9, <2>1 DEF TypeOK
  <2> QED
    BY <1>1, <1>2, <2>2 DEF TypeOK
<1>11. ArrivalInv'
  BY <1>1, <1>3, Groups DEF ArrivalInv, TypeOK
<1>12. BucketInv'
  BY <1>9 DEF BucketInv
<1>13. ResultInv'
  <2>1. pc'[Victim] \in Sent /\ result' # "none"
    BY <1>3, <1>9 DEF Sent
  <2>2. Vulnerable' <=> Vulnerable
    BY <1>1 DEF Vulnerable
  <2>3. ~missed' => (result' = "table_full" <=> Vulnerable)
    BY <1>1, <1>8, <1>9
  <2>4. verdict'[Victim] = "none"
    BY <1>2, <1>4
  <2> QED
    BY <2>1, <2>2, <2>3, <2>4 DEF ResultInv
<1> QED
  BY <1>2, <1>10, <1>11, <1>12, <1>13

(* A handshake arrives, and there is room for one more or there is not.         *)
LEMMA HandshakeStep ==
  ASSUME IInv, NEW a \in Group, Handshake(a)
  PROVE  IInv'
<1> USE DEF IInv
<1>1. /\ a \in arriving /\ arriving' = arriving \ {a} /\ UNCHANGED runVars
      /\ UNCHANGED <<incoming_bucket_limit, result, missed>>
  BY DEF Handshake
<1>2. RunTypeOK(Locations)' /\ CollectInv' /\ BarrierInv' /\ pc' = pc /\ verdict' = verdict
  BY <1>1, QuietStep
<1>3. bucket' = bucket \cup {Key(a)} \/ bucket' = bucket
  BY DEF Handshake
<1>4. TypeOK'
  <2>1. Key(a) \in 0..Attackers + 1
    BY Keys, EclipseAssumption
  <2>2. bucket' \in SUBSET (0..Attackers + 1)
    BY <1>3, <2>1 DEF TypeOK
  <2> QED
    BY <1>1, <1>2, <2>2 DEF TypeOK
<1>5. ArrivalInv'
  BY <1>1, <1>2 DEF ArrivalInv
<1>6. Shaken' = Shaken \cup {a}
  BY <1>1, <1>2 DEF Shaken, ArrivalInv
<1>7. KeysOf(Shaken)' = KeysOf(Shaken) \cup {Key(a)}
  BY <1>6 DEF KeysOf
<1>8. ASSUME result = "none"
      PROVE  /\ bucket' \subseteq KeysOf(Shaken)'
             /\ Cardinality(bucket') <= incoming_bucket_limit
             /\ Cardinality(bucket') < incoming_bucket_limit => bucket' = KeysOf(Shaken)'
  <2>1. /\ bucket \subseteq KeysOf(Shaken) /\ Cardinality(bucket) <= incoming_bucket_limit
        /\ Cardinality(bucket) < incoming_bucket_limit => bucket = KeysOf(Shaken)
    BY <1>8 DEF BucketInv
  <2>2. bucket \in SUBSET KeysOf(Group)
    BY <2>1 DEF KeysOf, Shaken
  <2>3. IsFiniteSet(bucket) /\ Cardinality(bucket) \in Nat /\ Key(Honest) \notin bucket
        /\ incoming_bucket_limit \in Nat /\ BucketSize \in Nat
        /\ incoming_bucket_limit <= BucketSize
    BY <2>2, Keys, KeysCounted, EclipseAssumption DEF TypeOK
  <2>4. Incoming = bucket
    BY <2>3 DEF Incoming
  <2>5. CASE Cardinality(bucket) < incoming_bucket_limit
    <3>1. bucket' = bucket \cup {Key(a)}
      BY <2>3, <2>4, <2>5 DEF Handshake, IncomingLimit
    <3>2. Cardinality(bucket') <= Cardinality(bucket) + 1 /\ Cardinality(bucket') \in Nat
      <4> DEFINE more == bucket \cup {Key(a)}
      <4>1. IsFiniteSet(more) /\ (Cardinality(more) = Cardinality(bucket)
                                 \/ Cardinality(more) = Cardinality(bucket) + 1)
        BY <2>3, FS_AddElement
      <4>2. bucket' = more
        BY <3>1
      <4> QED
        BY <2>3, <4>1, <4>2
    <3>3. bucket' = KeysOf(Shaken)'
      BY <1>7, <2>1, <2>5, <3>1
    <3> QED
      BY <2>3, <2>5, <3>2, <3>3
  <2>6. CASE ~(Cardinality(bucket) < incoming_bucket_limit)
    <3>1. bucket' = bucket
      BY <2>3, <2>4, <2>6 DEF Handshake, IncomingLimit
    <3> QED
      BY <1>7, <2>1, <2>6, <3>1
  <2> QED
    BY <2>5, <2>6
<1>9. BucketInv'
  BY <1>1, <1>8 DEF BucketInv
<1>10. ResultInv'
  BY <1>1, <1>2 DEF ResultInv, Vulnerable
<1> QED
  BY <1>2, <1>4, <1>5, <1>9, <1>10

(* From the last barrier to the outcomes.                                       *)
LEMMA DoneStep ==
  ASSUME IInv, NEW i \in Instances, SignalDone(i) \/ AwaitDone(i) \/ RecordResult(i)
  PROVE  IInv'
<1> USE DEF IInv
<1>1. {"signal_done", "await_done", "record"} \subseteq Locations
  BY DEF Locations
<1>2. /\ {"signal_done", "await_done", "record", "done"} \subseteq Sent
      /\ {"signal_done", "await_done", "record", "done"} \subseteq Attacking
  BY DEF Sent, Attacking, AtEnd
<1>3. UNCHANGED testVars
  BY DEF SignalDone, AwaitDone, RecordResult
<1>4. CASE SignalDone(i)
  <2>1. SignalAt(i, "signal_done", Done, "await_done")
    BY <1>4 DEF SignalDone
  <2>2. RunTypeOK(Locations)' /\ CollectInv'
    BY <1>1, <2>1, StateNames, LaterLocations, SignalStep DEF TypeOK
  <2>3. /\ Goto(i, "signal_done", "await_done") /\ UNCHANGED verdict
        /\ signals'[Done] = signals[Done] + 1
        /\ signals'[AttackersSentQuery] = signals[AttackersSentQuery]
    BY <2>1, StateNames DEF SignalAt, Signal, TypeOK, RunTypeOK, SyncTypeOK
  <2>4. EndBarrier(Done, "await_done")'
    BY <2>3, StateNames, EndBarrierStep DEF TypeOK, BarrierInv, AtEnd
  <2>5. BarrierInv'
    BY <1>2, <2>3, <2>4, BarrierStep
  <2> QED
    BY <1>2, <1>3, <2>2, <2>3, <2>5, PlainStep
<1>5. CASE AwaitDone(i)
  <2>1. AwaitAt(i, "await_done", Done, "record")
    BY <1>5 DEF AwaitDone
  <2>2. RunTypeOK(Locations)' /\ CollectInv'
    BY <1>1, <2>1, LaterLocations, AwaitStep DEF TypeOK
  <2>3. /\ Goto(i, "await_done", "record") /\ UNCHANGED <<signals, verdict>>
        /\ SignalledEnd("await_done") = Instances
    BY <2>1, StateNames, EndBarrierPassed DEF TypeOK, BarrierInv, AwaitAt, Move, syncVars
  <2>4. EndBarrier(Done, "await_done")'
    BY <2>3, StateNames, EndBarrierStep DEF TypeOK, BarrierInv, AtEnd
  <2>5. BarrierInv'
    BY <1>2, <2>3, <2>4, BarrierStep
  <2> QED
    BY <1>2, <1>3, <2>2, <2>3, <2>5, PlainStep
<1>6. CASE RecordResult(i)
  <2>1. PICK outcome \in {"success", "failure"} :
          /\ Record(i, "record", outcome)
          /\ outcome = IF i = Victim /\ result = "table_full" THEN "failure" ELSE "success"
    BY <1>6 DEF RecordResult
  <2>2. RunTypeOK(Locations)' /\ CollectInv'
    BY <1>1, <2>1, LaterLocations, RecordStep DEF TypeOK
  <2>3. /\ Goto(i, "record", "done") /\ UNCHANGED signals
        /\ verdict' = [verdict EXCEPT ![i] = outcome]
    BY <2>1 DEF Record, syncVars
  <2>4. \A j \in Instances : verdict'[j] = verdict[j] \/ (j = i /\ verdict'[j] = outcome)
    BY <2>3 DEF TypeOK, RunTypeOK
  <2>5. EndBarrier(Done, "await_done")'
    BY <2>3, <2>4, StateNames, EndBarrierStep DEF TypeOK, BarrierInv, AtEnd
  <2>6. BarrierInv'
    BY <1>2, <2>3, <2>5, BarrierStep
  <2> QED
    BY <1>2, <1>3, <2>1, <2>2, <2>3, <2>4, <2>6, PlainStep
<1> QED
  BY <1>4, <1>5, <1>6
--------------------------------------------------------------------------------
(* The invariant is inductive.                                                  *)
LEMMA NextIInv == IInv /\ [Next]_vars => IInv'
<1> SUFFICES ASSUME IInv, [Next]_vars PROVE IInv'
  OBVIOUS
<1>1. CASE UNCHANGED vars
  <2>1. UNCHANGED runVars /\ UNCHANGED testVars
    BY <1>1 DEF vars
  <2>2. RunTypeOK(Locations)' /\ CollectInv' /\ BarrierInv' /\ pc' = pc /\ verdict' = verdict
    BY <2>1, QuietStep DEF IInv
  <2>3. Shaken' = Shaken
    BY <2>1, <2>2 DEF Shaken, testVars
  <2> QED
    BY <2>1, <2>2, <2>3
       DEF IInv, TypeOK, ArrivalInv, BucketInv, KeysOf, ResultInv, Vulnerable, testVars
<1>2. CASE \E i \in Instances : Step(i)
  <2> PICK i \in Instances : Step(i)
    BY <1>2
  <2> QED
    BY BeforeStep, AwaitCollectedStep, AttackStep, QueryEndsStep, SignalSentStep,
       AwaitAttackStep, AddHonestStep, DoneStep DEF Step
<1>3. CASE \E a \in Group : Handshake(a)
  BY <1>3, HandshakeStep
<1> QED
  BY <1>1, <1>2, <1>3 DEF Next

LEMMA Invariance == Spec => []IInv
  BY InitIInv, NextIInv, PTL DEF Spec

(* The state of eclipse keeps its type, for any number of attackers and any     *)
(* size of the bucket.                                                          *)
THEOREM EclipseTypeCorrect == Spec => []TypeOK
<1>1. IInv => TypeOK
  BY DEF IInv
<1> QED
  BY <1>1, Invariance, PTL

(* The victim adds the honest node when all attackers have ended their queries, *)
(* and none of them has left.                                                   *)
THEOREM VictimLooksLastAlways == Spec => []VictimLooksLast
<1>1. IInv => VictimLooksLast
  <2> SUFFICES ASSUME IInv, pc[Victim] = "add_honest", NEW a \in Group
               PROVE  pc[a] \in {"signal_done", "await_done"}
    BY DEF VictimLooksLast
  <2>1. pc[a] \in Sent
    BY DEF IInv, BarrierInv, SentQuery
  <2>2. SignalledEnd("await_done") # Instances
    BY Groups DEF SignalledEnd, AtEnd
  <2>3. pc[a] \notin {"record", "done"}
    BY <2>2, Groups DEF IInv, BarrierInv, EndBarrier
  <2> QED
    BY <2>1, <2>3 DEF Sent, AtEnd
<1> QED
  BY <1>1, Invariance, PTL

(* When all queries reach the victim, it reports the eclipse exactly if the     *)
(* attackers are enough to fill the bucket and the limit lets them.             *)
THEOREM OutcomeTellsVulnerabilityAlways == Spec => []OutcomeTellsVulnerability
<1>1. IInv => OutcomeTellsVulnerability
  <2> SUFFICES ASSUME IInv, ~missed, verdict[Victim] # "none"
               PROVE  verdict[Victim] = "failure" <=>
                        Attackers >= BucketSize /\ incoming_bucket_limit = BucketSize
    BY DEF OutcomeTellsVulnerability
  <2>1. pc[Victim] = "done"
    BY Groups DEF IInv, BarrierInv, EndBarrier
  <2>2. result # "none"
    BY <2>1 DEF IInv, ResultInv, Sent, AtEnd
  <2> QED
    BY <2>2 DEF IInv, ResultInv, Vulnerable
<1> QED
  BY <1>1, Invariance, PTL
================================================================================
