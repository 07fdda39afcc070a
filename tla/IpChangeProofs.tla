----------------------------- MODULE IpChangeProofs -----------------------------
(* The address that node 1 moves to is free, and the others are there to see    *)
(* it, for any subnet with room, any number of instances, any durations and any *)
(* lateness below the first of them.                                            *)
EXTENDS IpChange, TestCaseProofs, WellFoundedInduction

(* The one barrier of the test.                                                 *)
PastConnected == {"before", "change", "await_change", "after", "done"}
SignalledConnected ==
  {i \in Instances : pc[i] \in {"await_connected"} \cup PastConnected}

BarrierInv ==
  /\ signals[Connected] <= Cardinality(SignalledConnected)
  /\ \A i \in Instances : pc[i] \in PastConnected => Reached(Connected, Everyone)
  /\ \A i \in Instances : pc[i] # "exited"
  /\ \A i \in Instances : pc[i] \in {"change", "await_change"} => i = Node1

(* Nobody but node 1 moves, and it moves once, to a free address.               *)
AddressInv ==
  /\ \A i, j \in Instances : i # j => enr_ip[i] # enr_ip[j]
  /\ \A i \in Instances : i # Node1 => ip[i] = enr_ip[i]
  /\ ip[Node1] \in Usable
  /\ IF pc[Node1] \in {"await_change", "after", "done"}
     THEN \A i \in Instances : ip[Node1] # enr_ip[i]
     ELSE ip[Node1] = enr_ip[Node1]

(* The ticks that an instance will stay for at least.                           *)
Stays(i) ==
  IF pc[i] = "before" THEN timer[i] + DurationAfter
  ELSE IF pc[i] = "after" THEN timer[i]
  ELSE IF pc[i] = "done" THEN 0
  ELSE DurationBefore + DurationAfter

(* The ticks since the barrier could be passed, as many as node 1 may have      *)
(* taken at most to where it is now.                                            *)
Taken ==
  IF pc[Node1] = "await_connected" THEN late[Node1]
  ELSE IF pc[Node1] = "before"
  THEN Lag + (IF timer[Node1] > 0 THEN DurationBefore - timer[Node1]
              ELSE DurationBefore + late[Node1])
  ELSE IF pc[Node1] = "change" THEN 2 * Lag + DurationBefore + late[Node1]
  ELSE IF pc[Node1] \in {"await_change", "after", "done"} THEN 3 * Lag + DurationBefore + since
  ELSE 0

(* What others will stay for covers what node 1 has yet to take; an instance    *)
(* that still waits at the barrier has been late for as long as node 1 sleeps;  *)
(* and node 1 itself stays until duration_after has passed.                     *)
TimeInv ==
  /\ \A i \in Instances \ {Node1} : Stays(i) + Taken >= DurationBefore + DurationAfter
  /\ \A i \in Instances : pc[i] \notin PastConnected =>
       /\ pc[Node1] \notin PastConnected \ {"before"}
       /\ pc[Node1] = "before" => late[i] + timer[Node1] >= DurationBefore
  /\ pc[Node1] \notin {"await_change", "after", "done"} => since = 0
  /\ pc[Node1] = "after" => timer[Node1] + since >= DurationAfter
  /\ pc[Node1] = "done" => since = DurationAfter

IInv == TypeOK /\ CollectInv /\ BarrierInv /\ AddressInv /\ TimeInv

(* The names of the states differ, and the service counts each of them.         *)
LEMMA StateNames ==
  /\ {Configured, Connected, IpChanged} = States
  /\ Connected \notin {Configured, IpChanged}
  BY IpChangeAssumption DEF Configured, Connected, IpChanged

(* Where the steps of ip-change itself begin and end.                           *)
LEMMA LaterLocations ==
  /\ Locations \cap BeforeCollecting = {} /\ {"done", "exited"} \cap BeforeCollecting = {}
  BY DEF Locations, BeforeCollecting, BeforePublishing

LEMMA ConstantTypes ==
  /\ Node1 \in Instances /\ SubnetSize \in Nat
  /\ DurationBefore \in Nat /\ DurationAfter \in Nat /\ Lag \in Nat /\ Lag < DurationBefore
  BY IpChangeAssumption

(* Of the addresses left over there is a smallest one, and with room in the     *)
(* subnet it can be used.                                                       *)
LEMMA NewIpIsFree ==
  ASSUME enr_ip \in [Instances -> Usable], participants[Node1] = Instances
  PROVE  NewIp \in Usable /\ \A i \in Instances : NewIp # enr_ip[i]
<1> DEFINE Used == {enr_ip[p] : p \in Instances}
<1>1. enr_ip \in Surjection(Instances, Used)
  BY DEF Surjection
<1>2. IsFiniteSet(Used) /\ Cardinality(Used) <= Cardinality(Instances)
  BY <1>1, InstancesAssumption, FS_Surjection
<1>3. PICK a \in Usable : a \notin Used
  <2> HIDE DEF Used
  <2> SUFFICES ASSUME Usable \subseteq Used PROVE FALSE
    OBVIOUS
  <2>1. Cardinality(Usable) <= Cardinality(Used) /\ IsFiniteSet(Usable)
    <3>1. Usable \in SUBSET Used
      OBVIOUS
    <3> QED
      BY <1>2, <3>1, FS_Subset
  <2>2. /\ Cardinality(Usable) \in Nat /\ Cardinality(Used) \in Nat
        /\ Cardinality(Instances) \in Nat
    BY <1>2, <2>1, InstancesAssumption, FS_CardinalityType
  <2> QED
    BY <1>2, <2>1, <2>2, IpChangeAssumption
<1>4. Unused = SkipTwo \ Used
  BY DEF Unused
<1>5. Unused \subseteq Nat /\ a \in Unused
  BY <1>3, <1>4, ConstantTypes DEF Usable, SkipTwo
<1>6. PICK m \in Unused : \A b \in Unused : m <= b
  <2>1. PICK m \in Unused : \A b \in Unused : ~(<<b, m>> \in OpToRel(<, Nat))
    BY <1>5, NatLessThanWellFounded, WFMin
  <2>2. ASSUME NEW b \in Unused, b < m PROVE <<b, m>> \in OpToRel(<, Nat)
    <3> DEFINE pair == <<b, m>>
    <3>1. pair \in Nat \X Nat /\ pair[1] < pair[2]
      BY <1>5, <2>2
    <3> HIDE DEF pair
    <3>2. pair \in OpToRel(<, Nat)
      BY <3>1, Zenon DEF OpToRel
    <3> QED
      BY <3>2 DEF pair
  <2>3. \A b \in Unused : b \in Nat /\ m \in Nat /\ ~(b < m)
    BY <1>5, <2>1, <2>2
  <2> QED
    BY <2>3
<1>7. NewIp \in Unused /\ \A b \in Unused : NewIp <= b
  BY <1>6 DEF NewIp
<1>8. NewIp <= a /\ NewIp \in SkipTwo /\ a \in 2..SubnetSize - 2
  BY <1>3, <1>4, <1>5, <1>7 DEF Usable
<1>9. NewIp \in Usable
  BY <1>8, ConstantTypes DEF Usable, SkipTwo
<1> QED
  BY <1>4, <1>7, <1>9

LEMMA InitIInv == Init => IInv
<1> SUFFICES ASSUME Init PROVE IInv
  OBVIOUS
<1>1. RunTypeOK(Locations) /\ CollectInv
  BY CollectInit DEF Init
<1>2. /\ pc = [i \in Instances |-> "configure"] /\ verdict = [i \in Instances |-> "none"]
      /\ signals[Connected] = 0
  BY StateNames DEF Init, RunInit, SyncInit
<1>3. TypeOK
  <2>1. /\ enr_ip \in [Instances -> Usable] /\ ip = enr_ip /\ since = 0
        /\ timer = [i \in Instances |-> 0] /\ late = [i \in Instances |-> 0]
    BY DEF Init
  <2>2. /\ 0 \in 0..DurationBefore + DurationAfter /\ 0 \in 0..Lag /\ 0 \in 0..DurationAfter
        /\ Usable \subseteq 0..SubnetSize - 1
    BY ConstantTypes DEF Usable
  <2> QED
    BY <1>1, <2>1, <2>2 DEF TypeOK
<1>4. SignalledConnected = {} /\ Cardinality({}) = 0
  BY <1>2, FS_EmptySet DEF SignalledConnected, PastConnected
<1>5. BarrierInv
  BY <1>2, <1>4 DEF BarrierInv, PastConnected
<1>6. AddressInv
  BY <1>2, ConstantTypes DEF AddressInv, Init
<1>7. TimeInv
  <2>1. \A i \in Instances : pc[i] = "configure"
    BY <1>2
  <2>2. Taken = 0 /\ \A i \in Instances : Stays(i) = DurationBefore + DurationAfter
    BY <2>1, ConstantTypes DEF Taken, Stays
  <2> QED
    BY <2>1, <2>2, ConstantTypes DEF TimeInv, PastConnected, Init
<1> QED
  BY <1>1, <1>3, <1>5, <1>6, <1>7 DEF IInv
--------------------------------------------------------------------------------
(* Where an instance is after it has gone on, and where the others stay.        *)
LEMMA Arrives ==
  ASSUME TypeOK, NEW i \in Instances, NEW from, NEW to, Goto(i, from, to)
  PROVE  /\ pc[i] = from /\ pc'[i] = to
         /\ \A j \in Instances : j # i => pc'[j] = pc[j]
  BY DEF TypeOK, RunTypeOK, Goto

(* The barrier counts those that have signalled, and whoever is past it leaves  *)
(* nobody before it.                                                            *)
LEMMA BarrierStep ==
  ASSUME TypeOK, BarrierInv, NEW i \in Instances, NEW from, NEW to, Goto(i, from, to),
         to # "exited", to \in {"change", "await_change"} => i = Node1,
         from \in {"await_connected"} \cup PastConnected => to \in PastConnected,
         signals'[Connected] = signals[Connected]
           \/ /\ signals'[Connected] = signals[Connected] + 1
              /\ from \notin {"await_connected"} \cup PastConnected /\ to = "await_connected",
         to \in PastConnected => from \in PastConnected \/ Reached(Connected, Everyone)
  PROVE  BarrierInv'
<1>1. SignalledConnected \in SUBSET Instances /\ SignalledConnected' \in SUBSET Instances
      /\ SignalledConnected \subseteq SignalledConnected'
  BY Arrives DEF SignalledConnected
<1>2. signals[Connected] \in Nat /\ InstanceCount \in Nat
  BY StateNames, InstanceCountType DEF TypeOK, RunTypeOK, SyncTypeOK
<1>3. signals[Connected] <= Cardinality(SignalledConnected')
  BY <1>1, <1>2, SignalsCounted DEF BarrierInv
<1>4. signals'[Connected] <= Cardinality(SignalledConnected')
  <2>1. CASE from \notin {"await_connected"} \cup PastConnected /\ to = "await_connected"
    <3>1. i \in SignalledConnected' /\ i \notin SignalledConnected
      BY <2>1, Arrives DEF SignalledConnected
    <3>2. signals[Connected] + 1 <= Cardinality(SignalledConnected')
      BY <1>1, <1>2, <3>1, SignalsCounted DEF BarrierInv
    <3> QED
      BY <1>3, <3>2
  <2> QED
    BY <1>3, <2>1
<1>5. Reached(Connected, Everyone) => Reached(Connected, Everyone)'
  BY <1>2 DEF Reached, Everyone
<1>6. \A j \in Instances : pc'[j] \in PastConnected => Reached(Connected, Everyone)'
  BY <1>5, Arrives DEF BarrierInv
<1>7. /\ \A j \in Instances : pc'[j] # "exited"
      /\ \A j \in Instances : pc'[j] \in {"change", "await_change"} => j = Node1
  BY Arrives DEF BarrierInv
<1> QED
  BY <1>4, <1>6, <1>7 DEF BarrierInv

LEMMA NobodyBehind ==
  ASSUME TypeOK, BarrierInv, Reached(Connected, Everyone)
  PROVE  \A i \in Instances : pc[i] \in {"await_connected"} \cup PastConnected
<1>1. signals[Connected] \in Nat /\ SignalledConnected \in SUBSET Instances
  BY StateNames DEF TypeOK, RunTypeOK, SyncTypeOK, SignalledConnected
<1>2. SignalledConnected = Instances
  BY <1>1, BarrierNeedsAll DEF BarrierInv, Reached, Everyone
<1> QED
  BY <1>2 DEF SignalledConnected
--------------------------------------------------------------------------------
(* The steps of an instance that is still in front of the barrier.              *)
LEMMA BehindStep ==
  ASSUME IInv, NEW i \in Instances,
         \/ Prelude(i, IF i = Node1 THEN "connect" ELSE "signal_connected") /\ UNCHANGED testVars
         \/ i = Node1 /\ Connect
         \/ SignalConnected(i)
  PROVE  IInv'
<1> USE DEF IInv
<1> DEFINE first == IF i = Node1 THEN "connect" ELSE "signal_connected"
           Behind == BeforeCollecting \cup {"connect", "signal_connected"}
<1>1. /\ "signal_connected" \in Locations /\ "await_connected" \in Locations
      /\ "connect" \in Locations /\ first \in Locations /\ first \in Behind
  BY DEF Locations
<1>2. UNCHANGED testVars
  BY DEF Connect, SignalConnected
<1>3. /\ RunTypeOK(Locations)' /\ CollectInv'
      /\ \E from \in Behind, to \in Behind \cup {"await_connected"} :
           /\ Goto(i, from, to)
           /\ \/ signals'[Connected] = signals[Connected]
              \/ signals'[Connected] = signals[Connected] + 1 /\ to = "await_connected"
  <2>0. signals \in [States -> Nat]
    BY DEF TypeOK, RunTypeOK, SyncTypeOK
  <2> HIDE DEF first
  <2>1. CASE Prelude(i, first)
    <3>1. RunTypeOK(Locations)' /\ CollectInv'
      BY <1>1, <2>1, LaterLocations, PreludeStep DEF TypeOK
    <3>2. \E from, to \in Behind : Goto(i, from, to)
      BY <1>1, <2>1 DEF Prelude, SignalAt, AwaitAt, Move, PublishInfo, CollectInfo,
                        BeforeCollecting, BeforePublishing
    <3>3. UNCHANGED signals \/ signals' = [signals EXCEPT ![Configured] = @ + 1]
      BY <2>1 DEF Prelude, SignalAt, AwaitAt, Move, PublishInfo, CollectInfo, Signal, Publish,
                  syncVars
    <3>4. signals'[Connected] = signals[Connected]
      BY <2>0, <3>3, StateNames
    <3> QED
      BY <3>1, <3>2, <3>4
  <2>2. CASE i = Node1 /\ Connect
    <3>1. Move(i, "connect", "signal_connected")
      BY <2>2 DEF Connect
    <3>2. RunTypeOK(Locations)' /\ CollectInv'
      BY <1>1, <3>1, LaterLocations, MoveStep DEF TypeOK
    <3> QED
      BY <3>1, <3>2 DEF Move, syncVars
  <2>3. CASE SignalConnected(i)
    <3>1. SignalAt(i, "signal_connected", Connected, "await_connected")
      BY <2>3 DEF SignalConnected
    <3>2. RunTypeOK(Locations)' /\ CollectInv'
      BY <1>1, <3>1, StateNames, LaterLocations, SignalStep DEF TypeOK
    <3>3. signals'[Connected] = signals[Connected] + 1
      BY <2>0, <3>1, StateNames DEF SignalAt, Signal
    <3> QED
      BY <3>1, <3>2, <3>3 DEF SignalAt
  <2> QED
    BY <2>1, <2>2, <2>3 DEF first
<1>4. PICK from \in Behind, to \in Behind \cup {"await_connected"} :
        /\ Goto(i, from, to)
        /\ \/ signals'[Connected] = signals[Connected]
           \/ signals'[Connected] = signals[Connected] + 1 /\ to = "await_connected"
  BY <1>3
<1> HIDE DEF first
<1>5. /\ from \notin {"await_connected"} \cup PastConnected
      /\ to \notin PastConnected /\ to # "exited"
      /\ to \notin {"change", "await_change"}
  BY <1>4 DEF PastConnected, BeforeCollecting, BeforePublishing
<1>6. BarrierInv'
  BY <1>4, <1>5, BarrierStep
<1>7. TypeOK'
  BY <1>2, <1>3 DEF TypeOK, testVars
<1>8. /\ pc[i] = from /\ pc'[i] = to
      /\ \A j \in Instances : j # i => pc'[j] = pc[j]
  BY <1>4, Arrives
<1>9. \A j \in Instances : pc[j] \notin PastConnected /\ pc'[j] \notin PastConnected
  BY <1>5, <1>8, NobodyBehind DEF BarrierInv
<1>10. AddressInv'
  BY <1>2, <1>9, ConstantTypes DEF AddressInv, testVars, PastConnected
<1>11. TimeInv'
  <2>1. late[Node1] \in Nat /\ UNCHANGED <<timer, late, since>> /\ since = 0
    BY <1>2, <1>9, ConstantTypes DEF testVars, TypeOK, TimeInv, PastConnected
  <2>2. \A j \in Instances : Stays(j)' = DurationBefore + DurationAfter
    BY <1>9 DEF Stays, PastConnected
  <2>3. Taken' \in Nat
    BY <1>9, <2>1, ConstantTypes DEF Taken, PastConnected
  <2> QED
    BY <1>9, <2>1, <2>2, <2>3, ConstantTypes DEF TimeInv, PastConnected
<1> QED
  BY <1>3, <1>6, <1>7, <1>10, <1>11

(* A move past the barrier, or through it.                                      *)
LEMMA OnwardMove ==
  ASSUME TypeOK, CollectInv, BarrierInv, NEW i \in Instances,
         NEW from \in Locations, NEW to \in Locations, Move(i, from, to),
         from \in {"await_connected"} \cup PastConnected, to \in PastConnected,
         to \in {"change", "await_change"} => i = Node1,
         from \in PastConnected \/ Reached(Connected, Everyone)
  PROVE  /\ RunTypeOK(Locations)' /\ CollectInv' /\ BarrierInv'
         /\ pc[i] = from /\ pc'[i] = to
         /\ \A j \in Instances : j # i => pc'[j] = pc[j]
<1>1. RunTypeOK(Locations)' /\ CollectInv'
  BY LaterLocations, MoveStep DEF TypeOK
<1>2. Goto(i, from, to) /\ UNCHANGED signals
  BY DEF Move, syncVars
<1>3. to # "exited"
  BY DEF PastConnected
<1>4. BarrierInv'
  BY <1>2, <1>3, BarrierStep
<1> QED
  BY <1>1, <1>2, <1>4, Arrives

LEMMA AwaitConnectedStep ==
  ASSUME IInv, NEW i \in Instances, AwaitConnected(i)
  PROVE  IInv'
<1> USE DEF IInv
<1>1. /\ Move(i, "await_connected", "before") /\ Reached(Connected, Everyone)
      /\ timer' = [timer EXCEPT ![i] = DurationBefore] /\ late' = [late EXCEPT ![i] = 0]
      /\ UNCHANGED <<enr_ip, ip, since>>
  BY DEF AwaitConnected, AwaitAt, Sleep, Before, OnTime
<1>2. /\ RunTypeOK(Locations)' /\ CollectInv' /\ BarrierInv'
      /\ pc[i] = "await_connected" /\ pc'[i] = "before"
      /\ \A j \in Instances : j # i => pc'[j] = pc[j]
  BY <1>1, OnwardMove DEF Locations, PastConnected
<1>3. /\ timer \in [Instances -> 0..DurationBefore + DurationAfter]
      /\ late \in [Instances -> 0..Lag] /\ since \in 0..DurationAfter
  BY DEF TypeOK
<1>4. /\ timer' \in [Instances -> 0..DurationBefore + DurationAfter]
      /\ late' \in [Instances -> 0..Lag]
  BY <1>1, <1>3, ConstantTypes
<1>5. TypeOK'
  BY <1>1, <1>2, <1>4 DEF TypeOK
<1>6. AddressInv'
  BY <1>1, <1>2, ConstantTypes DEF AddressInv
<1>7. \A j \in Instances : j # i => timer'[j] = timer[j] /\ late'[j] = late[j]
  BY <1>1, <1>3
<1>8. timer'[i] = DurationBefore /\ late'[i] = 0
  BY <1>1, <1>3
<1>9. \A j \in Instances : Stays(j)' = Stays(j)
  BY <1>2, <1>7, <1>8 DEF Stays
<1>10. Taken' = IF i = Node1 THEN Lag ELSE Taken
  BY <1>1, <1>2, <1>7, <1>8, ConstantTypes DEF Taken
<1>11. Taken' >= Taken /\ Taken \in Int /\ Taken' \in Int
         /\ \A j \in Instances : Stays(j) \in Int
  BY <1>2, <1>3, <1>10, ConstantTypes DEF Taken, Stays
<1>12. \A j \in Instances \ {Node1} : Stays(j)' + Taken' >= DurationBefore + DurationAfter
  BY <1>9, <1>11, ConstantTypes DEF TimeInv
<1>13. TimeInv'
  <2>1. CASE i = Node1
    BY <1>1, <1>2, <1>3, <1>7, <1>8, <1>12, <2>1, ConstantTypes DEF TimeInv, PastConnected
  <2>2. CASE i # Node1
    BY <1>1, <1>2, <1>3, <1>7, <1>8, <1>12, <2>2, ConstantTypes DEF TimeInv, PastConnected
  <2> QED
    BY <2>1, <2>2
<1> QED
  BY <1>2, <1>5, <1>6, <1>13

(* Node 1 has slept for longer than anyone may be late, so nobody is still at   *)
(* the barrier when it wakes.                                                   *)
LEMMA WakeToChangeStep ==
  ASSUME IInv, WakeToChange
  PROVE  IInv'
<1> USE DEF IInv
<1>1. /\ Move(Node1, "before", "change") /\ timer[Node1] = 0
      /\ late' = [late EXCEPT ![Node1] = 0] /\ UNCHANGED <<enr_ip, ip, timer, since>>
  BY DEF WakeToChange, OnTime
<1>2. /\ RunTypeOK(Locations)' /\ CollectInv' /\ BarrierInv'
      /\ pc[Node1] = "before" /\ pc'[Node1] = "change"
      /\ \A j \in Instances : j # Node1 => pc'[j] = pc[j]
  BY <1>1, ConstantTypes, OnwardMove DEF Locations, PastConnected
<1>3. /\ timer \in [Instances -> 0..DurationBefore + DurationAfter]
      /\ late \in [Instances -> 0..Lag] /\ since \in 0..DurationAfter
  BY DEF TypeOK
<1>4. late' \in [Instances -> 0..Lag] /\ late'[Node1] = 0
  BY <1>1, <1>3, ConstantTypes
<1>5. TypeOK'
  BY <1>1, <1>2, <1>4 DEF TypeOK
<1>6. AddressInv'
  BY <1>1, <1>2, ConstantTypes DEF AddressInv
<1>7. \A j \in Instances \ {Node1} : Stays(j)' = Stays(j) /\ Stays(j) \in Int
  BY <1>1, <1>2, <1>3, ConstantTypes DEF Stays
<1>8. Taken' >= Taken /\ Taken \in Int /\ Taken' \in Int
  BY <1>1, <1>2, <1>3, <1>4, ConstantTypes DEF Taken
<1>9. \A j \in Instances \ {Node1} : Stays(j)' + Taken' >= DurationBefore + DurationAfter
  BY <1>7, <1>8, ConstantTypes DEF TimeInv
<1>10. \A j \in Instances : pc[j] \in PastConnected
  BY <1>1, <1>2, <1>3, ConstantTypes DEF TimeInv
<1>11. \A j \in Instances : pc'[j] \in PastConnected
  BY <1>2, <1>10 DEF PastConnected
<1>12. TimeInv'
  BY <1>1, <1>2, <1>9, <1>11 DEF TimeInv
<1> QED
  BY <1>2, <1>5, <1>6, <1>12

LEMMA WakeToWatchStep ==
  ASSUME IInv, NEW i \in Instances, WakeToWatch(i)
  PROVE  IInv'
<1> USE DEF IInv
<1>1. /\ Move(i, "before", "after") /\ timer[i] = 0 /\ i # Node1
      /\ timer' = [timer EXCEPT ![i] = DurationAfter] /\ late' = [late EXCEPT ![i] = 0]
      /\ UNCHANGED <<enr_ip, ip, since>>
  BY DEF WakeToWatch, OnTime, Sleep
<1>2. /\ RunTypeOK(Locations)' /\ CollectInv' /\ BarrierInv'
      /\ pc[i] = "before" /\ pc'[i] = "after"
      /\ \A j \in Instances : j # i => pc'[j] = pc[j]
  BY <1>1, OnwardMove DEF Locations, PastConnected
<1>3. /\ timer \in [Instances -> 0..DurationBefore + DurationAfter]
      /\ late \in [Instances -> 0..Lag] /\ since \in 0..DurationAfter
  BY DEF TypeOK
<1>4. /\ timer' \in [Instances -> 0..DurationBefore + DurationAfter]
      /\ late' \in [Instances -> 0..Lag] /\ timer'[i] = DurationAfter
      /\ \A j \in Instances : j # i => timer'[j] = timer[j] /\ late'[j] = late[j]
  BY <1>1, <1>3, ConstantTypes
<1>5. TypeOK'
  BY <1>1, <1>2, <1>4 DEF TypeOK
<1>6. AddressInv'
  BY <1>1, <1>2, ConstantTypes DEF AddressInv
<1>7. \A j \in Instances : Stays(j)' = Stays(j)
  BY <1>1, <1>2, <1>3, <1>4, ConstantTypes DEF Stays
<1>8. Taken' = Taken
  BY <1>1, <1>2, <1>4, ConstantTypes DEF Taken
<1>9. \A j \in Instances \ {Node1} : Stays(j)' + Taken' >= DurationBefore + DurationAfter
  BY <1>7, <1>8 DEF TimeInv
<1>10. TimeInv'
  BY <1>1, <1>2, <1>4, <1>9, ConstantTypes DEF TimeInv, PastConnected
<1> QED
  BY <1>2, <1>5, <1>6, <1>10

(* Node 1 has collected everyone, and so the address is nobody's.               *)
LEMMA ChangeIpStep ==
  ASSUME IInv, ChangeIp
  PROVE  IInv'
<1> USE DEF IInv
<1>1. /\ SignalAt(Node1, "change", IpChanged, "await_change")
      /\ ip' = [ip EXCEPT ![Node1] = NewIp] /\ late' = [late EXCEPT ![Node1] = 0]
      /\ UNCHANGED <<enr_ip, timer, since>>
  BY DEF ChangeIp, OnTime
<1>2. RunTypeOK(Locations)' /\ CollectInv'
  <2>1. "change" \in Locations /\ "await_change" \in Locations
    BY DEF Locations
  <2> QED
    BY <1>1, <2>1, StateNames, ConstantTypes, LaterLocations, SignalStep DEF TypeOK
<1>3. Goto(Node1, "change", "await_change") /\ signals'[Connected] = signals[Connected]
  BY <1>1, StateNames DEF SignalAt, Signal, TypeOK, RunTypeOK, SyncTypeOK
<1>4. BarrierInv'
  BY <1>3, ConstantTypes, BarrierStep DEF PastConnected
<1>5. /\ pc[Node1] = "change" /\ pc'[Node1] = "await_change"
      /\ \A j \in Instances : j # Node1 => pc'[j] = pc[j]
  BY <1>3, ConstantTypes, Arrives
<1>6. NewIp \in Usable /\ \A j \in Instances : NewIp # enr_ip[j]
  BY <1>5, ConstantTypes, NewIpIsFree DEF CollectInv, BeforeCollecting, BeforePublishing, TypeOK
<1>7. /\ timer \in [Instances -> 0..DurationBefore + DurationAfter]
      /\ late \in [Instances -> 0..Lag] /\ late' \in [Instances -> 0..Lag]
      /\ late'[Node1] = 0
  BY <1>1, ConstantTypes DEF TypeOK
<1>8. Usable \subseteq 0..SubnetSize - 1
  BY ConstantTypes DEF Usable
<1>9. ip' \in [Instances -> 0..SubnetSize - 1] /\ ip'[Node1] = NewIp
      /\ \A j \in Instances : j # Node1 => ip'[j] = ip[j]
  BY <1>1, <1>6, <1>8, ConstantTypes DEF TypeOK
<1>10. TypeOK'
  BY <1>1, <1>2, <1>7, <1>9 DEF TypeOK
<1>11. AddressInv'
  BY <1>1, <1>5, <1>6, <1>9 DEF AddressInv
<1>12. \A j \in Instances \ {Node1} : Stays(j)' = Stays(j) /\ Stays(j) \in Int
  BY <1>1, <1>5, <1>7, ConstantTypes DEF Stays
<1>13. since = 0
  BY <1>5 DEF TimeInv
<1>14. Taken' >= Taken /\ Taken \in Int /\ Taken' \in Int
  BY <1>1, <1>5, <1>7, <1>13, ConstantTypes DEF Taken
<1>15. \A j \in Instances \ {Node1} : Stays(j)' + Taken' >= DurationBefore + DurationAfter
  BY <1>12, <1>14, ConstantTypes DEF TimeInv
<1>16. TimeInv'
  BY <1>1, <1>5, <1>15 DEF TimeInv, PastConnected
<1> QED
  BY <1>2, <1>4, <1>10, <1>11, <1>16

LEMMA AwaitChangeStep ==
  ASSUME IInv, AwaitChange
  PROVE  IInv'
<1> USE DEF IInv
<1>1. /\ Move(Node1, "await_change", "after")
      /\ timer' = [timer EXCEPT ![Node1] = DurationAfter] /\ late' = [late EXCEPT ![Node1] = 0]
      /\ UNCHANGED <<enr_ip, ip, since>>
  BY DEF AwaitChange, OnTime, Sleep
<1>2. /\ RunTypeOK(Locations)' /\ CollectInv' /\ BarrierInv'
      /\ pc[Node1] = "await_change" /\ pc'[Node1] = "after"
      /\ \A j \in Instances : j # Node1 => pc'[j] = pc[j]
  BY <1>1, ConstantTypes, OnwardMove DEF Locations, PastConnected
<1>3. /\ timer' \in [Instances -> 0..DurationBefore + DurationAfter]
      /\ late' \in [Instances -> 0..Lag] /\ timer'[Node1] = DurationAfter
      /\ \A j \in Instances : j # Node1 => timer'[j] = timer[j] /\ late'[j] = late[j]
  BY <1>1, ConstantTypes DEF TypeOK
<1>4. TypeOK'
  BY <1>1, <1>2, <1>3 DEF TypeOK
<1>5. AddressInv'
  BY <1>1, <1>2, ConstantTypes DEF AddressInv
<1>6. \A j \in Instances \ {Node1} : Stays(j)' = Stays(j)
  BY <1>2, <1>3 DEF Stays
<1>7. Taken' = Taken
  BY <1>1, <1>2 DEF Taken
<1>8. timer'[Node1] + since' >= DurationAfter
  BY <1>1, <1>3, ConstantTypes DEF TypeOK
<1>9. TimeInv'
  BY <1>1, <1>2, <1>6, <1>7, <1>8 DEF TimeInv, PastConnected
<1> QED
  BY <1>2, <1>4, <1>5, <1>9

LEMMA RecordSuccessStep ==
  ASSUME IInv, NEW i \in Instances, RecordSuccess(i)
  PROVE  IInv'
<1> USE DEF IInv
<1>1. /\ Record(i, "after", "success") /\ timer[i] = 0
      /\ late' = [late EXCEPT ![i] = 0] /\ UNCHANGED <<enr_ip, ip, timer, since>>
  BY DEF RecordSuccess, OnTime
<1>2. RunTypeOK(Locations)' /\ CollectInv'
  <2>1. "after" \in Locations
    BY DEF Locations
  <2> QED
    BY <1>1, <2>1, LaterLocations, RecordStep DEF TypeOK
<1>3. Goto(i, "after", "done") /\ UNCHANGED signals
  BY <1>1 DEF Record, syncVars
<1>4. BarrierInv'
  BY <1>3, BarrierStep DEF PastConnected
<1>5. /\ pc[i] = "after" /\ pc'[i] = "done"
      /\ \A j \in Instances : j # i => pc'[j] = pc[j]
  BY <1>3, Arrives
<1>6. late' \in [Instances -> 0..Lag]
      /\ \A j \in Instances : j # i => late'[j] = late[j]
  BY <1>1, ConstantTypes DEF TypeOK
<1>7. TypeOK'
  BY <1>1, <1>2, <1>6 DEF TypeOK
<1>8. AddressInv'
  BY <1>1, <1>5, ConstantTypes DEF AddressInv
<1>9. \A j \in Instances : Stays(j)' = Stays(j)
  BY <1>1, <1>5 DEF Stays
<1>10. Taken' = Taken
  BY <1>1, <1>5, <1>6, ConstantTypes DEF Taken
<1>11. i = Node1 => since = DurationAfter
  BY <1>1, <1>5, ConstantTypes DEF TimeInv, TypeOK
<1>12. \A j \in Instances \ {Node1} : Stays(j)' + Taken' >= DurationBefore + DurationAfter
  BY <1>9, <1>10 DEF TimeInv
<1>13. TimeInv'
  BY <1>1, <1>5, <1>6, <1>11, <1>12, ConstantTypes DEF TimeInv, PastConnected
<1> QED
  BY <1>2, <1>4, <1>7, <1>8, <1>13

(* A tick takes no more than one from what an instance stays for, and it counts *)
(* for node 1, which sleeps, is late, or has moved.                             *)
LEMMA TickStep ==
  ASSUME IInv, Tick
  PROVE  IInv'
<1> USE DEF IInv
<1>1. /\ \A i \in Instances : Ready(i) => late[i] < Lag
      /\ late' = [i \in Instances |-> IF Ready(i) THEN late[i] + 1 ELSE 0]
      /\ timer' = [i \in Instances |-> IF timer[i] > 0 THEN timer[i] - 1 ELSE 0]
      /\ since' = IF Moved /\ since < DurationAfter THEN since + 1 ELSE since
      /\ UNCHANGED runVars /\ UNCHANGED <<enr_ip, ip>>
  BY DEF Tick
<1>2. /\ pc' = pc /\ signals' = signals /\ topic' = topic
      /\ participants' = participants /\ verdict' = verdict
  BY <1>1 DEF runVars, syncVars
<1>3. /\ timer \in [Instances -> 0..DurationBefore + DurationAfter]
      /\ late \in [Instances -> 0..Lag] /\ since \in 0..DurationAfter
  BY DEF TypeOK
<1>4. late' \in [Instances -> 0..Lag]
  BY <1>1, <1>3, ConstantTypes
<1>5. timer' \in [Instances -> 0..DurationBefore + DurationAfter]
  BY <1>1, <1>3, ConstantTypes
<1>6. since' \in 0..DurationAfter
  BY <1>1, <1>3, ConstantTypes
<1>7. TypeOK'
  BY <1>1, <1>2, <1>4, <1>5, <1>6 DEF TypeOK, RunTypeOK, SyncTypeOK
<1>8. CollectInv'
  BY <1>2 DEF CollectInv, Published
<1>9. BarrierInv'
  BY <1>2 DEF BarrierInv, SignalledConnected, Reached
<1>10. AddressInv'
  BY <1>1, <1>2 DEF AddressInv
<1>11. Moved <=> pc[Node1] \in {"await_change", "after", "done"}
  BY ConstantTypes DEF Moved, AddressInv
<1>12. \A i \in Instances : timer'[i] = IF timer[i] > 0 THEN timer[i] - 1 ELSE 0
  BY <1>1
<1>13. \A i \in Instances : late'[i] = IF Ready(i) THEN late[i] + 1 ELSE 0
  BY <1>1
<1>14. \A i \in Instances : /\ Stays(i) \in Nat /\ Stays(i)' \in Nat
                            /\ Stays(i)' >= Stays(i) - 1
  BY <1>2, <1>3, <1>12, ConstantTypes DEF Stays
<1>15. Taken \in Int /\ Taken' \in Int
  BY <1>2, <1>3, <1>4, <1>5, <1>6, ConstantTypes DEF Taken
<1>16. ASSUME NEW i \in Instances \ {Node1}
       PROVE  Stays(i)' + Taken' >= DurationBefore + DurationAfter
  <2>1. i \in Instances /\ Node1 \in Instances
    BY ConstantTypes
  <2>2. PICK stays \in Nat, left \in Nat :
          stays = Stays(i) /\ left = Stays(i)' /\ left >= stays - 1
    BY <1>14, <2>1
  <2>3. PICK taken \in Int, more \in Int : taken = Taken /\ more = Taken'
    BY <1>15
  <2>4. stays + taken >= DurationBefore + DurationAfter
    BY <2>2, <2>3 DEF TimeInv
  <2>5. left + more >= DurationBefore + DurationAfter
    <3>1. CASE ~Reached(Connected, Everyone)
      <4>1. pc[i] \notin PastConnected /\ pc[Node1] \notin PastConnected
        BY <2>1, <3>1 DEF BarrierInv
      <4>2. left = DurationBefore + DurationAfter
        BY <1>2, <2>2, <4>1 DEF Stays, PastConnected
      <4>3. late'[Node1] >= 0
        BY <1>4, <2>1, ConstantTypes
      <4>4. more >= 0
        BY <1>2, <2>3, <4>1, <4>3 DEF Taken, PastConnected
      <4> QED
        BY <4>2, <4>4, ConstantTypes
    <3>2. CASE Reached(Connected, Everyone) /\ Moved /\ since = DurationAfter
      <4>1. pc[Node1] \in {"await_change", "after", "done"} /\ since' = DurationAfter
        BY <1>1, <1>11, <3>2, ConstantTypes
      <4>2. more = 3 * Lag + DurationBefore + DurationAfter
        BY <1>2, <2>3, <4>1 DEF Taken
      <4> QED
        BY <4>2, ConstantTypes
    <3>3. CASE Reached(Connected, Everyone) /\ ~(Moved /\ since = DurationAfter)
      <4>1. pc[Node1] \in {"await_connected"} \cup PastConnected
        BY <2>1, <3>3, NobodyBehind
      <4>2. late[Node1] \in Nat /\ timer[Node1] \in Nat /\ since \in Nat
        BY <1>3, <2>1, ConstantTypes
      <4>3. Ready(Node1) => late'[Node1] = late[Node1] + 1
        BY <1>13, <2>1
      <4>4. more = taken + 1
        <5>1. CASE pc[Node1] = "await_connected"
          BY <1>2, <2>3, <3>3, <4>2, <4>3, <5>1 DEF Taken, Ready
        <5>2. CASE pc[Node1] = "before" /\ timer[Node1] > 0
          <6>1. timer'[Node1] = timer[Node1] - 1
            BY <1>12, <2>1, <5>2
          <6>2. taken = Lag + (DurationBefore - timer[Node1])
            BY <2>3, <5>2 DEF Taken
          <6>3. pc'[Node1] = "before" /\ late'[Node1] = 0
            <7>1. ~Ready(Node1)
              BY <4>2, <5>2 DEF Ready
            <7> QED
              BY <1>2, <1>13, <2>1, <5>2, <7>1
          <6>4. more = Lag + (DurationBefore - (timer[Node1] - 1))
            <7>1. more = Lag + (IF timer'[Node1] > 0 THEN DurationBefore - timer'[Node1]
                                ELSE DurationBefore + late'[Node1])
              BY <2>3, <6>3 DEF Taken
            <7> QED
              BY <4>2, <5>2, <6>1, <6>3, <7>1, ConstantTypes
          <6> QED
            BY <4>2, <6>2, <6>4, ConstantTypes
        <5>3. CASE pc[Node1] = "before" /\ ~(timer[Node1] > 0)
          <6>1. timer'[Node1] = 0 /\ timer[Node1] = 0
            BY <1>12, <2>1, <4>2, <5>3
          <6>2. late'[Node1] = late[Node1] + 1
            BY <4>3, <5>3, <6>1 DEF Ready
          <6> QED
            BY <1>2, <2>3, <4>2, <5>3, <6>1, <6>2, ConstantTypes DEF Taken
        <5>4. CASE pc[Node1] = "change"
          BY <1>2, <2>3, <4>2, <4>3, <5>4, ConstantTypes DEF Taken, Ready
        <5>5. CASE pc[Node1] \in {"await_change", "after", "done"}
          <6>1. since' = since + 1
            BY <1>1, <1>3, <1>11, <3>3, <5>5, ConstantTypes
          <6> QED
            BY <1>2, <2>3, <4>2, <5>5, <6>1, ConstantTypes DEF Taken
        <5> QED
          BY <4>1, <5>1, <5>2, <5>3, <5>4, <5>5 DEF PastConnected
      <4> QED
        BY <2>2, <2>4, <4>4, ConstantTypes
    <3> QED
      BY <3>1, <3>2, <3>3
  <2> QED
    BY <2>2, <2>3, <2>5
<1>17. ASSUME NEW i \in Instances, pc'[i] \notin PastConnected
       PROVE  /\ pc'[Node1] \notin PastConnected \ {"before"}
              /\ pc'[Node1] = "before" => late'[i] + timer'[Node1] >= DurationBefore
  <2>1. /\ pc[i] \notin PastConnected /\ pc[Node1] \notin PastConnected \ {"before"}
        /\ pc[Node1] = "before" => late[i] + timer[Node1] >= DurationBefore
    BY <1>2, <1>17 DEF TimeInv
  <2>2. ASSUME pc[Node1] = "before" PROVE late'[i] + timer'[Node1] >= DurationBefore
    <3>1. Reached(Connected, Everyone)
      BY <2>2, ConstantTypes DEF BarrierInv, PastConnected
    <3>2. pc[i] \in {"await_connected"} \cup PastConnected
      BY <3>1, NobodyBehind
    <3>3. pc[i] = "await_connected"
      BY <2>1, <3>2
    <3>4. late'[i] = late[i] + 1
      BY <1>13, <3>1, <3>3 DEF Ready
    <3>5. /\ late[i] \in Nat /\ timer[Node1] \in Nat
          /\ timer'[Node1] = IF timer[Node1] > 0 THEN timer[Node1] - 1 ELSE 0
      BY <1>3, <1>12, ConstantTypes
    <3>6. late[i] + timer[Node1] >= DurationBefore
      BY <2>1, <2>2
    <3> QED
      BY <3>4, <3>5, <3>6, ConstantTypes
  <2>3. pc'[Node1] = pc[Node1]
    BY <1>2
  <2> QED
    BY <2>1, <2>2, <2>3
<1>18. /\ pc'[Node1] \notin {"await_change", "after", "done"} => since' = 0
       /\ pc'[Node1] = "after" => timer'[Node1] + since' >= DurationAfter
       /\ pc'[Node1] = "done" => since' = DurationAfter
  <2>1. CASE pc[Node1] = "after"
    BY <1>1, <1>2, <1>3, <1>11, <1>12, <2>1, ConstantTypes DEF TimeInv
  <2>2. CASE pc[Node1] # "after"
    BY <1>1, <1>2, <1>3, <1>11, <2>2, ConstantTypes DEF TimeInv
  <2> QED
    BY <2>1, <2>2
<1>19. TimeInv'
  BY <1>16, <1>17, <1>18 DEF TimeInv
<1> QED
  BY <1>7, <1>8, <1>9, <1>10, <1>19
--------------------------------------------------------------------------------
(* The invariant is inductive.                                                  *)
LEMMA NextIInv == IInv /\ [Next]_vars => IInv'
<1> SUFFICES ASSUME IInv, [Next]_vars PROVE IInv'
  OBVIOUS
<1>1. CASE UNCHANGED vars
  <2>1. /\ UNCHANGED testVars /\ pc' = pc /\ signals' = signals /\ topic' = topic
        /\ participants' = participants /\ verdict' = verdict
    BY <1>1 DEF vars, runVars, syncVars
  <2>2. TypeOK' /\ CollectInv' /\ BarrierInv' /\ AddressInv'
    BY <2>1 DEF IInv, TypeOK, RunTypeOK, SyncTypeOK, CollectInv, Published, BarrierInv,
                SignalledConnected, Reached, AddressInv, testVars
  <2>3. Taken' = Taken /\ \A i \in Instances : Stays(i)' = Stays(i)
    BY <2>1 DEF Taken, Stays, testVars
  <2>4. TimeInv'
    BY <2>1, <2>3 DEF IInv, TimeInv, testVars
  <2> QED
    BY <2>2, <2>4 DEF IInv
<1>2. CASE \E i \in Instances : Test(i)
  <2> PICK i \in Instances : Test(i)
    BY <1>2
  <2> QED
    BY BehindStep, AwaitConnectedStep, WakeToChangeStep, WakeToWatchStep, ChangeIpStep,
       AwaitChangeStep, RecordSuccessStep DEF Test
<1>3. CASE Tick
  BY <1>3, TickStep
<1> QED
  BY <1>1, <1>2, <1>3 DEF Next

LEMMA Invariance == Spec => []IInv
  BY InitIInv, NextIInv, PTL DEF Spec

(* The state of ip-change keeps its type, in any subnet and with any durations. *)
THEOREM IpChangeTypeCorrect == Spec => []TypeOK
<1>1. IInv => TypeOK
  BY DEF IInv
<1> QED
  BY <1>1, Invariance, PTL

(* The address that node 1 moves to can be used and is nobody else's.           *)
THEOREM AddressesStayApartAlways == Spec => []AddressesStayApart
<1>1. IInv => AddressesStayApart
  <2> SUFFICES ASSUME IInv PROVE AddressesStayApart
    OBVIOUS
  <2>1. \A i \in Instances : i # Node1 => ip[i] = enr_ip[i] /\ ip[i] # ip[Node1]
    BY ConstantTypes DEF IInv, AddressInv
  <2>2. \A i \in Instances : ip[i] \in Usable
    BY <2>1 DEF IInv, AddressInv, TypeOK
  <2>3. \A i, j \in Instances : i # j => ip[i] # ip[j]
    BY <2>1 DEF IInv, AddressInv
  <2> QED
    BY <2>2, <2>3 DEF AddressesStayApart
<1> QED
  BY <1>1, Invariance, PTL

(* When node 1 moves everyone has begun to watch, and goes on for all but three *)
(* delays of duration_after.                                                    *)
THEOREM ChangeIsObservedAlways == Spec => []ChangeIsObserved
<1>1. IInv => ChangeIsObserved
  <2> SUFFICES ASSUME IInv, Moved, NEW i \in Instances
               PROVE  /\ pc[i] \in {"before", "await_change", "after", "done"}
                      /\ since < DurationAfter - 3 * Lag => Up(i)
    BY DEF ChangeIsObserved
  <2>1. pc[Node1] \in {"await_change", "after", "done"}
    BY DEF IInv, AddressInv, Moved
  <2>2. pc[i] \in PastConnected
    BY <2>1 DEF IInv, TimeInv, PastConnected
  <2>3. pc[i] # "change" /\ pc[i] # "exited"
    BY <2>1, <2>2 DEF IInv, BarrierInv, PastConnected
  <2>4. since \in Nat /\ Lag \in Nat /\ DurationAfter \in Nat
    BY ConstantTypes DEF IInv, TypeOK
  <2>5. ASSUME pc[i] = "done" PROVE ~(since < DurationAfter - 3 * Lag)
    <3>1. CASE i = Node1
      BY <2>4, <2>5, <3>1 DEF IInv, TimeInv
    <3>2. CASE i # Node1
      <4>1. Stays(i) + Taken >= DurationBefore + DurationAfter
        BY <3>2 DEF IInv, TimeInv
      <4>2. Stays(i) = 0 /\ Taken = 3 * Lag + DurationBefore + since
        BY <2>1, <2>5 DEF Stays, Taken
      <4> QED
        BY <2>4, <4>1, <4>2, ConstantTypes
    <3> QED
      BY <3>1, <3>2
  <2> QED
    BY <2>2, <2>3, <2>5 DEF PastConnected, Up
<1> QED
  BY <1>1, Invariance, PTL
================================================================================
