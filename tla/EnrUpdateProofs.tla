----------------------------- MODULE EnrUpdateProofs ----------------------------
(* The news of the updated ENR reaches the test, and all outcomes wait for it,  *)
(* for any number of instances, votes and failed connections.                   *)
EXTENDS EnrUpdate, TestCaseProofs

(* No instance passes the last barrier before all have signalled.               *)
BarrierInv == EndBarrier(Completed, "await_completed")

(* The way of the event.  Nobody votes before node 1 has connected to him, and  *)
(* it does so with the stream open; what enters the stream then stays there for *)
(* the task, which sends it on once, and node 1 signals when it has received it.*)
EventInv ==
  /\ votes \subseteq connections
  /\ task = "none" => connections = {} /\ ~updated /\ channel = "empty"
  /\ task = "listening" => channel = "empty" /\ (updated => stream)
  /\ task = "ended" => updated /\ channel # "empty"
  /\ stream => updated /\ task = "listening"
  /\ pc[Node1] \in BeforeCollecting \cup {"subscribe"} => task = "none"
  /\ pc[Node1] = "connect" => task # "none"
  /\ pc[Node1] \in {"signal_completed"} \cup AtEnd("await_completed") => channel = "received"

IInv == TypeOK /\ CollectInv /\ BarrierInv /\ EventInv

(* The names of the states differ, and the service counts each of them.         *)
LEMMA StateNames ==
  /\ {Configured, Connections, Completed} = States
  /\ Completed \notin {Configured, Connections}
  BY EnrUpdateAssumption DEF Configured, Connections, Completed

(* Where the steps of enr-update itself begin and end.                          *)
LEMMA LaterLocations ==
  Locations \cap BeforeCollecting = {} /\ "done" \notin BeforeCollecting
  BY DEF Locations, BeforeCollecting, BeforePublishing

LEMMA InitIInv == Init => IInv
<1> SUFFICES ASSUME Init PROVE IInv
  OBVIOUS
<1>1. RunTypeOK(Locations) /\ CollectInv
  BY CollectInit DEF Init
<1>2. TypeOK
  BY <1>1 DEF Init, TypeOK
<1>3. BarrierInv
  BY StateNames, EndBarrierInit DEF Init, BarrierInv
<1>4. EventInv
  BY EnrUpdateAssumption DEF EventInv, Init, RunInit, AtEnd
<1> QED
  BY <1>1, <1>2, <1>3, <1>4 DEF IInv
--------------------------------------------------------------------------------
(* The steps of the event task and of discv5.                                   *)
LEMMA EventStep ==
  ASSUME IInv, EventTask \/ UpdateSocket \/ \E p \in Others : Vote(p)
  PROVE  IInv'
<1> USE DEF IInv
<1>1. UNCHANGED runVars
  BY DEF EventTask, UpdateSocket, Vote
<1>2. RunTypeOK(Locations)' /\ CollectInv' /\ BarrierInv'
  BY <1>1, StateNames, EndQuietStep DEF TypeOK, BarrierInv
<1>3. TypeOK'
  BY <1>2 DEF TypeOK, EventTask, UpdateSocket, StreamOpen, Vote
<1>4. pc' = pc
  BY <1>1 DEF runVars
<1>5. EventInv'
  <2>1. CASE EventTask
    BY <1>4, <2>1 DEF EventTask, EventInv, AtEnd, TypeOK
  <2>2. CASE UpdateSocket
    <3>1. votes # {}
      BY <2>2, FS_EmptySet, EnrUpdateAssumption DEF UpdateSocket
    <3>2. task # "none" /\ task # "ended"
      BY <2>2, <3>1 DEF UpdateSocket, EventInv
    <3> QED
      BY <1>4, <2>2, <3>2 DEF UpdateSocket, StreamOpen, EventInv, TypeOK
  <2>3. CASE \E p \in Others : Vote(p)
    BY <1>4, <2>3 DEF Vote, EventInv
  <2> QED
    BY <2>1, <2>2, <2>3
<1> QED
  BY <1>2, <1>3, <1>5

(* Connecting to a node moves no instance either.                               *)
LEMMA ConnectStep ==
  ASSUME IInv, NEW p \in to_connect, Connect(p)
  PROVE  IInv'
<1> USE DEF IInv
<1>1. UNCHANGED runVars /\ UNCHANGED <<votes, updated, stream, task, channel>>
  BY DEF Connect
<1>2. RunTypeOK(Locations)' /\ CollectInv' /\ BarrierInv'
  BY <1>1, StateNames, EndQuietStep DEF TypeOK, BarrierInv
<1>3. TypeOK'
  BY <1>2 DEF TypeOK, Connect
<1>4. pc' = pc /\ pc[Node1] = "connect"
  BY <1>1 DEF runVars, Connect
<1>5. EventInv'
  BY <1>1, <1>4 DEF EventInv, Connect
<1> QED
  BY <1>2, <1>3, <1>5
--------------------------------------------------------------------------------
(* The steps before the barriers of the test.                                   *)
LEMMA BeforeStep ==
  ASSUME IInv, NEW i \in Instances, UNCHANGED testVars,
         Prelude(i, IF i = Node1 THEN "subscribe" ELSE "signal_connections")
  PROVE  IInv'
<1> USE DEF IInv
<1> DEFINE to == IF i = Node1 THEN "subscribe" ELSE "signal_connections"
<1>1. RunTypeOK(Locations)' /\ CollectInv'
  <2>1. to \in Locations
    BY DEF Locations
  <2>2. Prelude(i, to)
    OBVIOUS
  <2> HIDE DEF to
  <2> QED
    BY <2>1, <2>2, LaterLocations, PreludeStep DEF TypeOK
<1>2. TypeOK'
  BY <1>1 DEF TypeOK, testVars
<1>3. BarrierInv'
  <2>1. to \in Locations /\ to \notin AtEnd("await_completed") /\ Prelude(i, to)
    BY DEF Locations, AtEnd
  <2>2. "await_completed" \notin BeforeCollecting /\ Completed # Configured
    BY StateNames DEF BeforeCollecting, BeforePublishing
  <2> HIDE DEF to
  <2> QED
    BY <2>1, <2>2, StateNames, EndPreludeStep DEF TypeOK, BarrierInv
<1>4. PICK from, next \in BeforeCollecting \cup {to} :
        from \in BeforeCollecting /\ Goto(i, from, next)
  BY DEF Prelude, SignalAt, AwaitAt, Move, PublishInfo, CollectInfo,
         BeforeCollecting, BeforePublishing
<1>5. \/ /\ pc[Node1] \in BeforeCollecting
         /\ pc'[Node1] \in BeforeCollecting \cup {"subscribe"}
      \/ pc'[Node1] = pc[Node1]
  BY <1>4, EnrUpdateAssumption DEF Goto, TypeOK, RunTypeOK
<1>6. EventInv'
  BY <1>5 DEF EventInv, testVars, AtEnd, BeforeCollecting, BeforePublishing
<1> QED
  BY <1>1, <1>2, <1>3, <1>6

(* Node 1 opens the stream before it connects to the first node.                *)
LEMMA SubscribeStep ==
  ASSUME IInv, Subscribe
  PROVE  IInv'
<1> USE DEF IInv
<1>1. Node1 \in Instances /\ Move(Node1, "subscribe", "connect")
  BY EnrUpdateAssumption DEF Subscribe
<1>2. RunTypeOK(Locations)' /\ CollectInv'
  <2>1. "subscribe" \in Locations /\ "connect" \in Locations
    BY DEF Locations
  <2> QED
    BY <1>1, <2>1, LaterLocations, MoveStep DEF TypeOK
<1>3. Goto(Node1, "subscribe", "connect") /\ UNCHANGED <<signals, verdict>>
  BY <1>1 DEF Move, syncVars
<1>4. TypeOK'
  BY <1>1, <1>2 DEF TypeOK, RunTypeOK, Subscribe, Others
<1>5. BarrierInv'
  BY <1>1, <1>3, StateNames, EndBarrierStep DEF TypeOK, BarrierInv, AtEnd
<1>6. pc[Node1] = "subscribe" /\ pc'[Node1] = "connect"
  BY <1>1, <1>3 DEF Goto, TypeOK, RunTypeOK
<1>7. EventInv'
  BY <1>6 DEF EventInv, Subscribe, AtEnd, BeforeCollecting, BeforePublishing
<1> QED
  BY <1>2, <1>4, <1>5, <1>7

(* What is received has been sent.                                              *)
LEMMA ReceiveStep ==
  ASSUME IInv, Receive
  PROVE  IInv'
<1> USE DEF IInv
<1>1. Node1 \in Instances /\ Move(Node1, "receive", "signal_completed")
  BY EnrUpdateAssumption DEF Receive
<1>2. RunTypeOK(Locations)' /\ CollectInv'
  <2>1. "receive" \in Locations /\ "signal_completed" \in Locations
    BY DEF Locations
  <2> QED
    BY <1>1, <2>1, LaterLocations, MoveStep DEF TypeOK
<1>3. Goto(Node1, "receive", "signal_completed") /\ UNCHANGED <<signals, verdict>>
  BY <1>1 DEF Move, syncVars
<1>4. TypeOK'
  BY <1>2 DEF TypeOK, Receive
<1>5. BarrierInv'
  BY <1>1, <1>3, StateNames, EndBarrierStep DEF TypeOK, BarrierInv, AtEnd
<1>6. pc'[Node1] = "signal_completed"
  BY <1>1, <1>3 DEF Goto, TypeOK, RunTypeOK
<1>7. EventInv'
  BY <1>6 DEF EventInv, Receive, TypeOK, BeforeCollecting, BeforePublishing
<1> QED
  BY <1>2, <1>4, <1>5, <1>7

(* The steps to, through and past the first barrier of the test.                *)
LEMMA ConnectionsStep ==
  ASSUME IInv, NEW i \in Instances,
         (i = Node1 /\ EndConnecting) \/ SignalConnections(i) \/ AwaitConnections(i)
  PROVE  IInv'
<1> USE DEF IInv
<1> DEFINE next == IF i = Node1 THEN "receive" ELSE "signal_completed"
<1>1. {"connect", "signal_connections", "await_connections", next} \subseteq Locations
  BY DEF Locations
<1>2. UNCHANGED testVars
  BY DEF EndConnecting, SignalConnections, AwaitConnections
<1>3. /\ RunTypeOK(Locations)' /\ CollectInv'
      /\ \E from, to \in Locations :
           /\ Goto(i, from, to) /\ UNCHANGED verdict
           /\ <<from, to>> \in {<<"connect", "signal_connections">>,
                                <<"signal_connections", "await_connections">>,
                                <<"await_connections", next>>}
      /\ signals'[Completed] = signals[Completed]
  <2> HIDE DEF next
  <2>1. CASE i = Node1 /\ EndConnecting
    <3>1. Move(i, "connect", "signal_connections")
      BY <2>1 DEF EndConnecting
    <3>2. RunTypeOK(Locations)' /\ CollectInv'
      BY <1>1, <3>1, LaterLocations, MoveStep DEF TypeOK
    <3> QED
      BY <1>1, <3>1, <3>2 DEF Move, syncVars
  <2>2. CASE SignalConnections(i)
    <3>1. SignalAt(i, "signal_connections", Connections, "await_connections")
      BY <2>2 DEF SignalConnections
    <3>2. RunTypeOK(Locations)' /\ CollectInv'
      BY <1>1, <3>1, StateNames, LaterLocations, SignalStep DEF TypeOK
    <3>3. signals'[Completed] = signals[Completed]
      BY <3>1, StateNames DEF SignalAt, Signal, TypeOK, RunTypeOK, SyncTypeOK
    <3> QED
      BY <1>1, <3>1, <3>2, <3>3 DEF SignalAt
  <2>3. CASE AwaitConnections(i)
    <3>1. AwaitAt(i, "await_connections", Connections, next)
      BY <2>3 DEF AwaitConnections, next
    <3>2. RunTypeOK(Locations)' /\ CollectInv'
      BY <1>1, <3>1, LaterLocations, AwaitStep DEF TypeOK
    <3> QED
      BY <1>1, <3>1, <3>2 DEF AwaitAt, Move, syncVars
  <2> QED
    BY <2>1, <2>2, <2>3
<1>4. TypeOK'
  BY <1>2, <1>3 DEF TypeOK, testVars
<1>5. PICK from, to \in Locations :
        /\ Goto(i, from, to) /\ UNCHANGED verdict
        /\ <<from, to>> \in {<<"connect", "signal_connections">>,
                             <<"signal_connections", "await_connections">>,
                             <<"await_connections", next>>}
  BY <1>3
<1>6. BarrierInv'
  BY <1>3, <1>5, StateNames, EndBarrierStep DEF TypeOK, BarrierInv, AtEnd
<1>7. pc'[Node1] = pc[Node1] \/ pc'[Node1] \in {"signal_connections", "await_connections", "receive"}
  BY <1>5, EnrUpdateAssumption DEF Goto, TypeOK, RunTypeOK
<1>8. EventInv'
  BY <1>2, <1>7 DEF EventInv, testVars, AtEnd, BeforeCollecting, BeforePublishing
<1> QED
  BY <1>3, <1>4, <1>6, <1>8

(* The steps at the last barrier.                                               *)
LEMMA CompletedStep ==
  ASSUME IInv, NEW i \in Instances,
         SignalCompleted(i) \/ AwaitCompleted(i) \/ RecordSuccess(i)
  PROVE  IInv'
<1> USE DEF IInv
<1>1. {"signal_completed", "await_completed", "record"} \subseteq Locations
  BY DEF Locations
<1>2. UNCHANGED testVars
  BY DEF SignalCompleted, AwaitCompleted, RecordSuccess
<1>3. /\ RunTypeOK(Locations)' /\ CollectInv' /\ BarrierInv'
      /\ \/ Goto(i, "signal_completed", "await_completed")
         \/ Goto(i, "await_completed", "record")
         \/ Goto(i, "record", "done")
  <2> USE DEF AtEnd
  <2>1. CASE SignalCompleted(i)
    <3>1. SignalAt(i, "signal_completed", Completed, "await_completed")
      BY <2>1 DEF SignalCompleted
    <3>2. RunTypeOK(Locations)' /\ CollectInv'
      BY <1>1, <3>1, StateNames, LaterLocations, SignalStep DEF TypeOK
    <3>3. /\ Goto(i, "signal_completed", "await_completed") /\ UNCHANGED verdict
          /\ signals'[Completed] = signals[Completed] + 1
      BY <3>1, StateNames DEF SignalAt, Signal, TypeOK, RunTypeOK, SyncTypeOK
    <3> QED
      BY <3>2, <3>3, StateNames, EndBarrierStep DEF TypeOK, BarrierInv
  <2>2. CASE AwaitCompleted(i)
    <3>1. AwaitAt(i, "await_completed", Completed, "record")
      BY <2>2 DEF AwaitCompleted
    <3>2. RunTypeOK(Locations)' /\ CollectInv'
      BY <1>1, <3>1, LaterLocations, AwaitStep DEF TypeOK
    <3>3. /\ Goto(i, "await_completed", "record") /\ UNCHANGED <<signals, verdict>>
          /\ SignalledEnd("await_completed") = Instances
      BY <3>1, StateNames, EndBarrierPassed DEF TypeOK, BarrierInv, AwaitAt, Move, syncVars
    <3> QED
      BY <3>2, <3>3, StateNames, EndBarrierStep DEF TypeOK, BarrierInv
  <2>3. CASE RecordSuccess(i)
    <3>1. Record(i, "record", "success")
      BY <2>3 DEF RecordSuccess
    <3>2. RunTypeOK(Locations)' /\ CollectInv'
      BY <1>1, <3>1, LaterLocations, RecordStep DEF TypeOK
    <3>3. /\ Goto(i, "record", "done") /\ UNCHANGED signals
          /\ \A j \in Instances : verdict'[j] = verdict[j] \/ j = i
      BY <3>1 DEF Record, syncVars, TypeOK, RunTypeOK
    <3> QED
      BY <3>2, <3>3, StateNames, EndBarrierStep DEF TypeOK, BarrierInv
  <2> QED
    BY <2>1, <2>2, <2>3
<1>4. TypeOK'
  BY <1>2, <1>3 DEF TypeOK, testVars
<1>5. \/ pc'[Node1] = pc[Node1]
      \/ pc[Node1] \in {"signal_completed"} \cup AtEnd("await_completed") /\ pc'[Node1] \in AtEnd("await_completed")
  BY <1>3, EnrUpdateAssumption DEF Goto, TypeOK, RunTypeOK, AtEnd
<1>6. EventInv'
  BY <1>2, <1>5 DEF EventInv, testVars, AtEnd, BeforeCollecting, BeforePublishing
<1> QED
  BY <1>3, <1>4, <1>6
--------------------------------------------------------------------------------
(* The invariant is inductive.                                                  *)
LEMMA NextIInv == IInv /\ [Next]_vars => IInv'
<1> SUFFICES ASSUME IInv, [Next]_vars PROVE IInv'
  OBVIOUS
<1>1. CASE UNCHANGED vars
  <2>1. UNCHANGED runVars /\ UNCHANGED testVars /\ pc' = pc
    BY <1>1 DEF vars, runVars
  <2>2. RunTypeOK(Locations)' /\ CollectInv' /\ BarrierInv'
    BY <2>1, StateNames, EndQuietStep DEF IInv, TypeOK, BarrierInv
  <2> QED
    BY <2>1, <2>2 DEF IInv, TypeOK, EventInv, testVars
<1>2. CASE \E i \in Instances : Test(i)
  <2> PICK i \in Instances : Test(i)
    BY <1>2
  <2> QED
    BY BeforeStep, SubscribeStep, ConnectStep, ConnectionsStep, ReceiveStep, CompletedStep
       DEF Test
<1>3. CASE EventTask \/ UpdateSocket \/ \E p \in Others : Vote(p)
  BY <1>3, EventStep
<1> QED
  BY <1>1, <1>2, <1>3 DEF Next

LEMMA Invariance == Spec => []IInv
  BY InitIInv, NextIInv, PTL DEF Spec

(* The state of enr-update keeps its type, for any number of instances.         *)
THEOREM EnrUpdateTypeCorrect == Spec => []TypeOK
<1>1. IInv => TypeOK
  BY DEF IInv
<1> QED
  BY <1>1, Invariance, PTL

(* The one event that tells of the update is in the stream, in the channel, or  *)
(* has been received; it is never lost.                                         *)
THEOREM UpdateReachesTheTestAlways == Spec => []UpdateReachesTheTest
<1>1. IInv => UpdateReachesTheTest
  BY DEF IInv, TypeOK, EventInv, UpdateReachesTheTest
<1> QED
  BY <1>1, Invariance, PTL

(* Success on any instance means that node 1 has seen its ENR updated: all wait *)
(* at a barrier that node 1 reaches behind the channel.                         *)
THEOREM SuccessMeansUpdatedAlways == Spec => []SuccessMeansUpdated
<1>1. IInv => SuccessMeansUpdated
  <2> SUFFICES ASSUME IInv, NEW i \in Instances, verdict[i] = "success"
               PROVE  updated /\ channel = "received"
    BY DEF SuccessMeansUpdated
  <2>1. SignalledEnd("await_completed") = Instances
    BY DEF IInv, BarrierInv, EndBarrier
  <2>2. pc[Node1] \in AtEnd("await_completed")
    BY <2>1, EnrUpdateAssumption DEF SignalledEnd
  <2> QED
    BY <2>2 DEF IInv, EventInv, TypeOK
<1> QED
  BY <1>1, Invariance, PTL
================================================================================
