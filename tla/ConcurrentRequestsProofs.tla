------------------------ MODULE ConcurrentRequestsProofs ------------------------
(* The sleeps and the last barrier of concurrent-requests do their work for any *)
(* session timeout and any number of requests: the parallel requests meet an    *)
(* expired session, none of them is cut off, and the outcomes tell of them.     *)
EXTENDS ConcurrentRequests, TestCaseProofs

(* No instance passes the last barrier before both have signalled, and none     *)
(* leaves in any other way.                                                     *)
BarrierInv ==
  /\ EndBarrier(Completed, "await_completed")
  /\ \A i \in Instances : pc[i] # "exited"

(* Node 1 goes on when every request has ended, and knows what became of them.  *)
AfterRequests == {"settle", "signal_completed"} \cup AtEnd("await_completed")

RequestsInv ==
  /\ pc[Node1] \in AfterRequests =>
       \A r \in Requests : requests[r] \in {"answered", "failed"}
  /\ pc[Node1] \in AfterRequests => (succeeded <=> NoneFailed)
  /\ pc[Node1] \notin AfterRequests \cup {"act"} =>
       \A r \in Requests : requests[r] = "unsent"
  /\ verdict[Node1] = "success" => succeeded
  /\ verdict[Node1] = "failure" => ~succeeded
  /\ verdict[Node2] # "failure"

(* discv5's own traffic ends within two seconds from connecting, so that node   *)
(* 2's session is idle for all but two of the seconds that node 1 sleeps.       *)
SleepInv ==
  /\ ~connected => age = 0 /\ idle = 0
  /\ connected => pc[Node1] \notin BeforeCollecting \cup {"connect"}
  /\ connected /\ (\A r \in Requests : requests[r] = "unsent") => age <= idle + 2
  /\ connected /\ pc[Node1] = "sleep" => timer[Node1] + age >= Horizon
  /\ connected /\ pc[Node1] = "act" => age = Horizon

IInv == TypeOK /\ CollectInv /\ BarrierInv /\ RequestsInv /\ SleepInv

(* The names of the states differ, and the service counts each of them.         *)
LEMMA StateNames ==
  /\ {Configured, Connected, Completed} = States
  /\ Completed \notin {Configured, Connected}
  BY ConcurrentRequestsAssumption DEF Configured, Connected, Completed

(* Where the steps of the test case itself begin and end.                       *)
LEMMA LaterLocations ==
  /\ Locations \cap BeforeCollecting = {} /\ "done" \notin BeforeCollecting
  /\ "await_completed" \notin BeforeCollecting /\ "exited" \notin Locations
  BY DEF Locations, BeforeCollecting, BeforePublishing

(* The bounds are natural numbers, and the nodes are instances.                 *)
LEMMA ConstantTypes ==
  /\ SESSION_TIMEOUT_NODE2 \in Nat /\ SESSION_TIMEOUT_NODE2 >= 1
  /\ OwnTraffic \in {0, 1, 2} /\ Horizon = SESSION_TIMEOUT_NODE2 + 2
  /\ SleepTime = Horizon /\ SettleTime = 3
  /\ Node1 \in Instances /\ Node2 \in Instances /\ Node1 # Node2
  /\ Instances = {Node1, Node2}
  BY ConcurrentRequestsAssumption DEF Horizon, SleepTime, SettleTime

LEMMA InitIInv == Init => IInv
<1> SUFFICES ASSUME Init PROVE IInv
  OBVIOUS
<1>1. RunTypeOK(Locations) /\ CollectInv
  BY CollectInit DEF Init
<1>2. TypeOK
  <2>1. 0 \in 0..Horizon /\ 0 \in 0..Horizon + SettleTime
    BY ConstantTypes
  <2> QED
    BY <1>1, <2>1 DEF Init, TypeOK
<1>3. pc = [i \in Instances |-> "configure"] /\ verdict = [i \in Instances |-> "none"]
  BY DEF Init, RunInit
<1>4. BarrierInv
  BY <1>3, StateNames, EndBarrierInit DEF Init, BarrierInv
<1>5. RequestsInv
  <2>1. pc[Node1] = "configure" /\ verdict[Node1] = "none" /\ verdict[Node2] = "none"
    BY <1>3, ConstantTypes
  <2>2. \A r \in Requests : requests[r] = "unsent"
    BY DEF Init
  <2>3. pc[Node1] \notin AfterRequests
    BY <2>1 DEF AfterRequests, AtEnd
  <2> QED
    BY <2>1, <2>2, <2>3 DEF RequestsInv
<1>6. SleepInv
  BY DEF SleepInv, Init
<1> QED
  BY <1>1, <1>2, <1>4, <1>5, <1>6 DEF IInv
--------------------------------------------------------------------------------
(* What the moves of an instance within the test case leave alone.              *)
LEMMA InnerMove ==
  ASSUME TypeOK, CollectInv, BarrierInv, NEW i \in Instances,
         NEW from \in Locations \ AtEnd("await_completed"),
         NEW to \in Locations \ AtEnd("await_completed"), Move(i, from, to)
  PROVE  RunTypeOK(Locations)' /\ CollectInv' /\ BarrierInv'
<1>1. RunTypeOK(Locations)' /\ CollectInv'
  BY LaterLocations, MoveStep DEF TypeOK
<1>2. Goto(i, from, to) /\ UNCHANGED <<signals, verdict>>
  BY DEF Move, syncVars
<1>3. EndBarrier(Completed, "await_completed")'
  <2>1. to \notin {"record", "done"} /\ from # "done"
    BY DEF AtEnd
  <2> QED
    BY <1>2, <2>1, StateNames, EndBarrierStep DEF TypeOK, BarrierInv
<1>4. \A j \in Instances : pc'[j] # "exited"
  BY <1>2, LaterLocations DEF BarrierInv, Goto, TypeOK, RunTypeOK
<1> QED
  BY <1>1, <1>3, <1>4 DEF BarrierInv

(* Where an instance is after it has gone on, and where the other one stays.    *)
LEMMA Arrives ==
  ASSUME TypeOK, NEW i \in Instances, NEW from, NEW to, Goto(i, from, to)
  PROVE  /\ pc[i] = from /\ pc'[i] = to
         /\ \A j \in Instances : j # i => pc'[j] = pc[j]
  BY DEF TypeOK, RunTypeOK, Goto

(* A step that moves no instance.                                               *)
LEMMA QuietStep ==
  ASSUME TypeOK, CollectInv, BarrierInv, UNCHANGED runVars
  PROVE  RunTypeOK(Locations)' /\ CollectInv' /\ BarrierInv' /\ pc' = pc /\ verdict' = verdict
<1>1. RunTypeOK(Locations)' /\ CollectInv' /\ EndBarrier(Completed, "await_completed")'
  BY StateNames, EndQuietStep DEF TypeOK, BarrierInv
<1>2. pc' = pc /\ verdict' = verdict
  BY DEF runVars
<1> QED
  BY <1>1, <1>2 DEF BarrierInv
--------------------------------------------------------------------------------
(* Time passes: what is left of node 1's sleep and the age of the session add   *)
(* up, and age and idleness grow together.                                      *)
LEMMA TickStep ==
  ASSUME IInv, Tick
  PROVE  IInv'
<1> USE DEF IInv
<1>1. UNCHANGED runVars /\ UNCHANGED <<connected, requests, succeeded>>
  BY DEF Tick
<1>2. RunTypeOK(Locations)' /\ CollectInv' /\ BarrierInv' /\ pc' = pc /\ verdict' = verdict
  BY <1>1, QuietStep
<1>3. timer' \in [Instances -> 0..Horizon + SettleTime]
  BY ConstantTypes DEF Tick, TypeOK
<1>4. /\ age \in 0..Horizon /\ idle \in 0..Horizon
      /\ age' = IF connected THEN Later(age) ELSE age
      /\ idle' = IF connected THEN Later(idle) ELSE idle
  BY DEF Tick, TypeOK
<1>5. age' \in 0..Horizon /\ idle' \in 0..Horizon
  BY <1>4, ConstantTypes DEF Later
<1>6. TypeOK'
  BY <1>1, <1>2, <1>3, <1>5 DEF TypeOK
<1>7. RequestsInv'
  BY <1>1, <1>2 DEF RequestsInv, NoneFailed
<1>8. /\ timer[Node1] \in Nat
      /\ timer'[Node1] = IF timer[Node1] > 0 THEN timer[Node1] - 1 ELSE 0
  BY ConstantTypes DEF Tick, TypeOK
<1>9. SleepInv'
  <2>1. connected /\ age <= idle + 2 => age' <= idle' + 2
    BY <1>4, ConstantTypes DEF Later
  <2>2. connected /\ timer[Node1] + age >= Horizon => timer'[Node1] + age' >= Horizon
    BY <1>4, <1>8, ConstantTypes DEF Later
  <2>3. connected /\ age = Horizon => age' = Horizon
    BY <1>4, ConstantTypes DEF Later
  <2>4. ~connected' => age' = 0 /\ idle' = 0
    <3>1. CASE connected
      BY <1>1, <3>1
    <3>2. CASE ~connected
      BY <1>4, <3>2 DEF SleepInv
    <3> QED
      BY <3>1, <3>2
  <2> QED
    BY <1>1, <1>2, <2>1, <2>2, <2>3, <2>4 DEF SleepInv
<1> QED
  BY <1>2, <1>6, <1>7, <1>9

(* What becomes of a request that is pending, which only happens at "act".      *)
LEMMA RequestStep ==
  ASSUME IInv, NEW r \in Requests,
         Answer(r) \/ Fail(r) \/ SendRequest(r)
  PROVE  IInv'
<1> USE DEF IInv
<1>1. /\ UNCHANGED runVars /\ UNCHANGED <<timer, connected, age, succeeded>>
      /\ idle' \in {idle, 0}
      /\ \E outcome \in {"pending", "answered", "failed"} :
           requests' = [requests EXCEPT ![r] = outcome]
  BY DEF Answer, Fail, SendRequest
<1>2. RunTypeOK(Locations)' /\ CollectInv' /\ BarrierInv' /\ pc' = pc /\ verdict' = verdict
  BY <1>1, QuietStep
<1>3. TypeOK'
  BY <1>1, <1>2, ConstantTypes DEF TypeOK
<1>4. pc[Node1] = "act"
  BY DEF Answer, Fail, SendRequest, RequestsInv
<1>5. requests'[r] # "unsent"
  BY <1>1 DEF TypeOK
<1>6. RequestsInv'
  BY <1>1, <1>2, <1>4 DEF RequestsInv, AfterRequests, AtEnd
<1>7. ~connected' => age' = 0 /\ idle' = 0
  <2>1. CASE connected
    BY <1>1, <2>1
  <2>2. CASE ~connected
    BY <1>1, <2>2 DEF SleepInv
  <2> QED
    BY <2>1, <2>2
<1>8. SleepInv'
  BY <1>1, <1>2, <1>4, <1>5, <1>7 DEF SleepInv, BeforeCollecting, BeforePublishing
<1> QED
  BY <1>2, <1>3, <1>6, <1>8

(* discv5's own use of the session, while it is young.                          *)
LEMMA UseSessionStep ==
  ASSUME IInv, UseSession
  PROVE  IInv'
<1> USE DEF IInv
<1>1. /\ UNCHANGED runVars /\ UNCHANGED <<timer, connected, age, requests, succeeded>>
      /\ idle' = 0 /\ age < OwnTraffic
  BY DEF UseSession
<1>2. RunTypeOK(Locations)' /\ CollectInv' /\ BarrierInv' /\ pc' = pc /\ verdict' = verdict
  BY <1>1, QuietStep
<1>3. TypeOK'
  BY <1>1, <1>2, ConstantTypes DEF TypeOK
<1>4. RequestsInv'
  BY <1>1, <1>2 DEF RequestsInv, NoneFailed
<1>5. age' <= idle' + 2
  BY <1>1, ConstantTypes DEF TypeOK
<1>6. connected
  BY DEF UseSession
<1>7. SleepInv'
  BY <1>1, <1>2, <1>5, <1>6 DEF SleepInv
<1> QED
  BY <1>2, <1>3, <1>4, <1>7
--------------------------------------------------------------------------------
(* The steps before the first barrier of the test case.                         *)
LEMMA BeforeStep ==
  ASSUME IInv, NEW i \in Instances, Prelude(i, "connect"), UNCHANGED testVars
  PROVE  IInv'
<1> USE DEF IInv
<1>1. RunTypeOK(Locations)' /\ CollectInv'
  BY LaterLocations, PreludeStep DEF TypeOK, Locations
<1>2. TypeOK'
  BY <1>1 DEF TypeOK, testVars
<1>3. PICK from, next \in BeforeCollecting \cup {"connect"} :
        from \in BeforeCollecting /\ Goto(i, from, next)
  BY DEF Prelude, SignalAt, AwaitAt, Move, PublishInfo, CollectInfo,
         BeforeCollecting, BeforePublishing
<1>4. EndBarrier(Completed, "await_completed")'
  <2>1. "connect" \in Locations /\ "connect" \notin AtEnd("await_completed")
    BY DEF Locations, AtEnd
  <2> QED
    BY <2>1, StateNames, LaterLocations, EndPreludeStep DEF TypeOK, BarrierInv
<1>5. \A j \in Instances : pc'[j] # "exited"
  BY <1>3 DEF BarrierInv, Goto, TypeOK, RunTypeOK, BeforeCollecting, BeforePublishing
<1>6. UNCHANGED verdict
  BY DEF Prelude, SignalAt, AwaitAt, Move, PublishInfo, CollectInfo
<1>7. \/ pc'[Node1] = pc[Node1]
      \/ pc[Node1] \in BeforeCollecting /\ pc'[Node1] \in BeforeCollecting \cup {"connect"}
  BY <1>3, ConstantTypes DEF Goto, TypeOK, RunTypeOK
<1>8. BeforeCollecting \cap (AfterRequests \cup {"act"}) = {}
      /\ "connect" \notin AfterRequests \cup {"act"}
  BY DEF AfterRequests, AtEnd, BeforeCollecting, BeforePublishing
<1>9. RequestsInv'
  BY <1>6, <1>7, <1>8 DEF RequestsInv, testVars, NoneFailed
<1>10. SleepInv'
  BY <1>7 DEF SleepInv, testVars, BeforeCollecting, BeforePublishing
<1> QED
  BY <1>1, <1>2, <1>4, <1>5, <1>9, <1>10 DEF BarrierInv

(* Node 1's moves.                                                              *)
LEMMA Node1Step ==
  ASSUME IInv, Connect \/ JoinRequests
  PROVE  IInv'
<1> USE DEF IInv
<1>1. CASE Connect
  <2>1. Move(Node1, "connect", "signal_connected") /\ Node1 \in Instances
    BY <1>1, ConstantTypes DEF Connect
  <2>2. RunTypeOK(Locations)' /\ CollectInv' /\ BarrierInv'
    BY <2>1, InnerMove DEF Locations, AtEnd
  <2>3. /\ pc[Node1] = "connect" /\ pc'[Node1] = "signal_connected"
        /\ UNCHANGED verdict
    BY <2>1, Arrives DEF Move
  <2>4. TypeOK'
    BY <1>1, <2>2 DEF TypeOK, Connect
  <2>5. RequestsInv'
    BY <1>1, <2>3 DEF RequestsInv, Connect, AfterRequests, AtEnd
  <2>6. age = 0 /\ idle = 0
    BY <2>3 DEF SleepInv
  <2>7. age' = 0 /\ idle' = 0 /\ age' <= idle' + 2
    BY <1>1, <2>6, ConstantTypes DEF Connect
  <2>8. SleepInv'
    BY <1>1, <2>3, <2>7 DEF SleepInv, Connect, BeforeCollecting, BeforePublishing
  <2> QED
    BY <2>2, <2>4, <2>5, <2>8
<1>2. CASE JoinRequests
  <2>1. Move(Node1, "act", "settle") /\ Node1 \in Instances
    BY <1>2, ConstantTypes DEF JoinRequests
  <2>2. RunTypeOK(Locations)' /\ CollectInv' /\ BarrierInv'
    BY <2>1, InnerMove DEF Locations, AtEnd
  <2>3. pc[Node1] = "act" /\ pc'[Node1] = "settle" /\ UNCHANGED verdict
    BY <2>1, Arrives DEF Move
  <2>4. SettleTime \in 0..Horizon + SettleTime
    BY ConstantTypes
  <2>5. TypeOK'
    BY <1>2, <2>2, <2>4 DEF TypeOK, JoinRequests, NoneFailed
  <2>6. verdict[Node1] = "none"
    <3>1. SignalledEnd("await_completed") # Instances
      BY <2>1, <2>3 DEF SignalledEnd, AtEnd
    <3> QED
      BY <2>1, <3>1 DEF BarrierInv, EndBarrier
  <2>7. RequestsInv'
    BY <1>2, <2>3, <2>6 DEF RequestsInv, JoinRequests, AfterRequests, AtEnd, NoneFailed
  <2>8. SleepInv'
    BY <1>2, <2>3 DEF SleepInv, JoinRequests, BeforeCollecting, BeforePublishing
  <2> QED
    BY <2>2, <2>5, <2>7, <2>8
<1> QED
  BY <1>1, <1>2

(* Node 2's moves, which node 1 does not notice.                                *)
LEMMA Node2Step ==
  ASSUME IInv, SkipConnect \/ SkipRequests
  PROVE  IInv'
<1> USE DEF IInv
<1>1. Node2 \in Instances /\ Node1 # Node2 /\ Node1 \in Instances
  BY ConstantTypes
<1>2. RunTypeOK(Locations)' /\ CollectInv' /\ BarrierInv'
      /\ pc'[Node1] = pc[Node1] /\ UNCHANGED verdict
  <2>1. CASE SkipConnect
    <3>1. Move(Node2, "connect", "signal_connected")
      BY <2>1 DEF SkipConnect
    <3> QED
      BY <1>1, <3>1, InnerMove, Arrives DEF Locations, AtEnd, Move
  <2>2. CASE SkipRequests
    <3>1. Move(Node2, "act", "settle")
      BY <2>2 DEF SkipRequests
    <3> QED
      BY <1>1, <3>1, InnerMove, Arrives DEF Locations, AtEnd, Move
  <2> QED
    BY <2>1, <2>2
<1>3. /\ UNCHANGED <<connected, age, idle, requests, succeeded>>
      /\ timer' \in {timer, [timer EXCEPT ![Node2] = SettleTime]}
  BY DEF SkipConnect, SkipRequests, testVars
<1>4. SettleTime \in 0..Horizon + SettleTime
  BY ConstantTypes
<1>5. TypeOK' /\ timer'[Node1] = timer[Node1]
  BY <1>1, <1>2, <1>3, <1>4 DEF TypeOK
<1>6. RequestsInv' /\ SleepInv'
  BY <1>2, <1>3, <1>5 DEF RequestsInv, SleepInv, NoneFailed
<1> QED
  BY <1>2, <1>5, <1>6

(* The first barrier and the sleep behind it.                                   *)
LEMMA ConnectedStep ==
  ASSUME IInv, NEW i \in Instances, SignalConnected(i) \/ AwaitConnected(i)
  PROVE  IInv'
<1> USE DEF IInv
<1>1. {"signal_connected", "await_connected", "sleep"}
        \subseteq Locations \ AtEnd("await_completed")
  BY DEF Locations, AtEnd
<1>2. CASE SignalConnected(i)
  <2>1. SignalAt(i, "signal_connected", Connected, "await_connected") /\ UNCHANGED testVars
    BY <1>2 DEF SignalConnected
  <2>2. RunTypeOK(Locations)' /\ CollectInv'
    BY <1>1, <2>1, StateNames, LaterLocations, SignalStep DEF TypeOK
  <2>3. /\ Goto(i, "signal_connected", "await_connected") /\ UNCHANGED verdict
        /\ signals'[Completed] = signals[Completed]
    BY <2>1, StateNames DEF SignalAt, Signal, TypeOK, RunTypeOK, SyncTypeOK
  <2>4. EndBarrier(Completed, "await_completed")'
    BY <2>3, StateNames, EndBarrierStep DEF TypeOK, BarrierInv, AtEnd
  <2>5. \A j \in Instances : pc'[j] # "exited"
    BY <2>3, Arrives DEF BarrierInv
  <2>6. \/ pc'[Node1] = pc[Node1]
        \/ pc[Node1] = "signal_connected" /\ pc'[Node1] = "await_connected"
    BY <2>3, Arrives, ConstantTypes
  <2>7. TypeOK' /\ RequestsInv' /\ SleepInv'
    BY <2>1, <2>2, <2>3, <2>6
       DEF TypeOK, RequestsInv, SleepInv, NoneFailed, testVars, AfterRequests, AtEnd,
           BeforeCollecting, BeforePublishing
  <2> QED
    BY <2>2, <2>4, <2>5, <2>7 DEF BarrierInv
<1>3. CASE AwaitConnected(i)
  <2>1. Move(i, "await_connected", "sleep") /\ timer' = [timer EXCEPT ![i] = SleepTime]
        /\ UNCHANGED <<connected, age, idle, requests, succeeded>>
    BY <1>3 DEF AwaitConnected, AwaitAt
  <2>2. RunTypeOK(Locations)' /\ CollectInv' /\ BarrierInv'
    BY <1>1, <2>1, InnerMove
  <2>3. SleepTime \in 0..Horizon + SettleTime
    BY ConstantTypes
  <2>4. TypeOK'
    BY <2>1, <2>2, <2>3 DEF TypeOK
  <2>5. /\ UNCHANGED verdict
        /\ \/ pc'[Node1] = pc[Node1] /\ timer'[Node1] = timer[Node1]
           \/ /\ pc[Node1] = "await_connected" /\ pc'[Node1] = "sleep"
              /\ timer'[Node1] = SleepTime
    BY <2>1, Arrives, ConstantTypes DEF Move, TypeOK
  <2>6. SleepTime + age >= Horizon
    BY ConstantTypes DEF TypeOK
  <2>7. RequestsInv' /\ SleepInv'
    BY <2>1, <2>5, <2>6
       DEF RequestsInv, SleepInv, NoneFailed, AfterRequests, AtEnd,
           BeforeCollecting, BeforePublishing
  <2> QED
    BY <2>2, <2>4, <2>7
<1> QED
  BY <1>2, <1>3

(* The ends of the two sleeps.                                                  *)
LEMMA WakeStep ==
  ASSUME IInv, NEW i \in Instances, Wake(i) \/ Settle(i)
  PROVE  IInv'
<1> USE DEF IInv
<1>1. {"sleep", "act", "settle", "signal_completed"} \subseteq Locations \ AtEnd("await_completed")
  BY DEF Locations, AtEnd
<1>2. /\ timer[i] = 0 /\ UNCHANGED testVars
      /\ Move(i, "sleep", "act") \/ Move(i, "settle", "signal_completed")
  BY DEF Wake, Settle
<1>3. RunTypeOK(Locations)' /\ CollectInv' /\ BarrierInv'
  BY <1>1, <1>2, InnerMove
<1>4. /\ UNCHANGED verdict
      /\ \/ pc'[Node1] = pc[Node1]
         \/ pc[Node1] = "sleep" /\ pc'[Node1] = "act" /\ timer[Node1] = 0
         \/ pc[Node1] = "settle" /\ pc'[Node1] = "signal_completed"
  BY <1>2, Arrives, ConstantTypes DEF Move
<1>5. TypeOK'
  BY <1>2, <1>3 DEF TypeOK, testVars
<1>6. RequestsInv'
  BY <1>2, <1>4 DEF RequestsInv, NoneFailed, testVars, AfterRequests, AtEnd
<1>7. timer[Node1] = 0 /\ timer[Node1] + age >= Horizon => age = Horizon
  BY ConstantTypes DEF TypeOK
<1>8. SleepInv'
  BY <1>2, <1>4, <1>7 DEF SleepInv, testVars, BeforeCollecting, BeforePublishing
<1> QED
  BY <1>3, <1>5, <1>6, <1>8

(* The last barrier and the outcomes behind it.                                 *)
LEMMA CompletedStep ==
  ASSUME IInv, NEW i \in Instances,
         SignalCompleted(i) \/ AwaitCompleted(i) \/ RecordResult(i)
  PROVE  IInv'
<1> USE DEF IInv
<1>1. {"signal_completed", "await_completed", "record"} \subseteq Locations
  BY DEF Locations
<1>2. UNCHANGED testVars
  BY DEF SignalCompleted, AwaitCompleted, RecordResult
<1>3. /\ RunTypeOK(Locations)' /\ CollectInv' /\ EndBarrier(Completed, "await_completed")'
      /\ \/ Goto(i, "signal_completed", "await_completed") /\ UNCHANGED verdict
         \/ Goto(i, "await_completed", "record") /\ UNCHANGED verdict
         \/ /\ Goto(i, "record", "done")
            /\ verdict' = [verdict EXCEPT ![i] =
                             IF i = Node2 \/ succeeded THEN "success" ELSE "failure"]
  <2>1. CASE SignalCompleted(i)
    <3>1. SignalAt(i, "signal_completed", Completed, "await_completed")
      BY <2>1 DEF SignalCompleted
    <3>2. RunTypeOK(Locations)' /\ CollectInv'
      BY <1>1, <3>1, StateNames, LaterLocations, SignalStep DEF TypeOK
    <3>3. /\ Goto(i, "signal_completed", "await_completed") /\ UNCHANGED verdict
          /\ signals'[Completed] = signals[Completed] + 1
      BY <3>1, StateNames DEF SignalAt, Signal, TypeOK, RunTypeOK, SyncTypeOK
    <3> QED
      BY <3>2, <3>3, StateNames, EndBarrierStep DEF TypeOK, BarrierInv, AtEnd
  <2>2. CASE AwaitCompleted(i)
    <3>1. AwaitAt(i, "await_completed", Completed, "record")
      BY <2>2 DEF AwaitCompleted
    <3>2. RunTypeOK(Locations)' /\ CollectInv'
      BY <1>1, <3>1, LaterLocations, AwaitStep DEF TypeOK
    <3>3. /\ Goto(i, "await_completed", "record") /\ UNCHANGED <<signals, verdict>>
          /\ SignalledEnd("await_completed") = Instances
      BY <3>1, StateNames, EndBarrierPassed DEF TypeOK, BarrierInv, AwaitAt, Move, syncVars
    <3> QED
      BY <3>2, <3>3, StateNames, EndBarrierStep DEF TypeOK, BarrierInv, AtEnd
  <2>3. CASE RecordResult(i)
    <3>1. PICK outcome \in {"success", "failure"} :
            /\ Record(i, "record", outcome)
            /\ outcome = IF i = Node2 \/ succeeded THEN "success" ELSE "failure"
      BY <2>3 DEF RecordResult
    <3>2. RunTypeOK(Locations)' /\ CollectInv'
      BY <1>1, <3>1, LaterLocations, RecordStep DEF TypeOK
    <3>3. /\ Goto(i, "record", "done") /\ UNCHANGED signals
          /\ verdict' = [verdict EXCEPT ![i] = outcome]
      BY <3>1 DEF Record, syncVars
    <3>4. \A j \in Instances : verdict'[j] = verdict[j] \/ j = i
      BY <3>3 DEF TypeOK, RunTypeOK
    <3>5. EndBarrier(Completed, "await_completed")'
      BY <3>3, <3>4, StateNames, EndBarrierStep DEF TypeOK, BarrierInv, AtEnd
    <3> QED
      BY <3>1, <3>2, <3>3, <3>5
  <2> QED
    BY <2>1, <2>2, <2>3
<1>4. TypeOK'
  BY <1>2, <1>3 DEF TypeOK, testVars
<1>5. \A j \in Instances : pc'[j] # "exited"
  BY <1>3, Arrives DEF BarrierInv
<1>6. \/ pc'[Node1] = pc[Node1]
      \/ pc[Node1] \in AfterRequests /\ pc'[Node1] \in AfterRequests \ {"settle"}
  BY <1>3, Arrives, ConstantTypes DEF AfterRequests, AtEnd
<1>7. /\ verdict'[Node1] = "success" => succeeded
      /\ verdict'[Node1] = "failure" => ~succeeded
      /\ verdict'[Node2] # "failure"
  BY <1>3, ConstantTypes DEF RequestsInv, TypeOK, RunTypeOK
<1>8. RequestsInv'
  BY <1>2, <1>6, <1>7 DEF RequestsInv, NoneFailed, testVars
<1>9. SleepInv'
  BY <1>2, <1>6 DEF SleepInv, testVars, AfterRequests, AtEnd, BeforeCollecting, BeforePublishing
<1> QED
  BY <1>3, <1>4, <1>5, <1>8, <1>9 DEF BarrierInv
--------------------------------------------------------------------------------
(* The invariant is inductive.                                                  *)
LEMMA NextIInv == IInv /\ [Next]_vars => IInv'
<1> SUFFICES ASSUME IInv, [Next]_vars PROVE IInv'
  OBVIOUS
<1>1. CASE UNCHANGED vars
  <2>1. UNCHANGED runVars /\ UNCHANGED testVars
    BY <1>1 DEF vars
  <2>2. RunTypeOK(Locations)' /\ CollectInv' /\ BarrierInv' /\ pc' = pc /\ verdict' = verdict
    BY <2>1, QuietStep DEF IInv
  <2> QED
    BY <2>1, <2>2 DEF IInv, TypeOK, RequestsInv, NoneFailed, SleepInv, testVars
<1>2. CASE \E i \in Instances : Test(i)
  <2> PICK i \in Instances : Test(i)
    BY <1>2
  <2> QED
    BY BeforeStep, Node1Step, Node2Step, RequestStep, ConnectedStep, WakeStep, CompletedStep
       DEF Test
<1>3. CASE UseSession \/ Tick
  BY <1>3, UseSessionStep, TickStep
<1>4. CASE \E r \in Requests : Answer(r) \/ Fail(r)
  BY <1>4, RequestStep
<1> QED
  BY <1>1, <1>2, <1>3, <1>4 DEF Next

LEMMA Invariance == Spec => []IInv
  BY InitIInv, NextIInv, PTL DEF Spec

(* The state of concurrent-requests keeps its type, for any session timeout and *)
(* any number of requests.                                                      *)
THEOREM ConcurrentTypeCorrect == Spec => []TypeOK
<1>1. IInv => TypeOK
  BY DEF IInv
<1> QED
  BY <1>1, Invariance, PTL

(* Outcomes come after the requests, and tell of them: node 1 records a success *)
(* if all of them were answered and a failure if one of them was not, and node  *)
(* 2 records no failure.                                                        *)
THEOREM OutcomesTellRequestsAlways == Spec => []OutcomesTellRequests
<1>1. IInv => OutcomesTellRequests
  <2> SUFFICES ASSUME IInv PROVE OutcomesTellRequests
    OBVIOUS
  <2>1. ASSUME NEW i \in Instances, verdict[i] # "none"
        PROVE  pc[Node1] \in AfterRequests
    <3>1. SignalledEnd("await_completed") = Instances
      BY <2>1 DEF IInv, BarrierInv, EndBarrier
    <3> QED
      BY <3>1, ConstantTypes DEF SignalledEnd, AfterRequests
  <2>2. \A i \in Instances : verdict[i] # "none" =>
          \A r \in Requests : requests[r] \in {"answered", "failed"}
    BY <2>1 DEF IInv, RequestsInv
  <2>3. ASSUME verdict[Node1] # "none"
        PROVE  verdict[Node1] = "success" <=> \A r \in Requests : requests[r] = "answered"
    <3>1. succeeded <=> NoneFailed
      BY <2>1, <2>3, ConstantTypes DEF IInv, RequestsInv
    <3>2. verdict[Node1] = "success" <=> succeeded
      BY <2>3, ConstantTypes DEF IInv, RequestsInv, TypeOK, RunTypeOK
    <3>3. NoneFailed <=> \A r \in Requests : requests[r] = "answered"
      BY <2>2, <2>3, ConstantTypes DEF NoneFailed
    <3> QED
      BY <3>1, <3>2, <3>3
  <2>4. verdict[Node2] # "failure"
    BY DEF IInv, RequestsInv
  <2> QED
    BY <2>2, <2>3, <2>4 DEF OutcomesTellRequests
<1> QED
  BY <1>1, Invariance, PTL

(* While a request is pending, node 2 has not passed the last barrier.          *)
THEOREM Node2OutlivesRequestsAlways == Spec => []Node2OutlivesRequests
<1>1. IInv => Node2OutlivesRequests
  <2> SUFFICES ASSUME IInv, NEW r \in Requests, requests[r] = "pending"
               PROVE  Up(Node2)
    BY DEF Node2OutlivesRequests
  <2>1. pc[Node1] = "act"
    BY DEF IInv, RequestsInv
  <2>2. SignalledEnd("await_completed") # Instances
    BY <2>1, ConstantTypes DEF SignalledEnd, AtEnd
  <2> QED
    BY <2>2, ConstantTypes DEF IInv, BarrierInv, EndBarrier, Up
<1> QED
  BY <1>1, Invariance, PTL

(* The first of the parallel requests meets an expired session: the sleep is    *)
(* longer than the timeout by as much as discv5's own traffic may put off its   *)
(* end.                                                                         *)
THEOREM RequestsMeetExpiryAlways == Spec => RequestsMeetExpiry
<1> DEFINE Meets ==
      (/\ \A r \in Requests : requests[r] = "unsent"
       /\ \E r \in Requests : requests'[r] = "pending"
       /\ connected)
      => Expired
<1>1. IInv /\ [Next]_vars => [Meets]_vars
  <2> SUFFICES ASSUME IInv, Next, connected,
                      \A r \in Requests : requests[r] = "unsent",
                      \E r \in Requests : requests'[r] = "pending"
               PROVE  Expired
    BY DEF Meets
  <2>1. requests' # requests
    OBVIOUS
  <2>2. \E r \in Requests : SendRequest(r) \/ Answer(r) \/ Fail(r)
    BY <2>1 DEF Next, Test, testVars, Connect, SkipConnect, SignalConnected, AwaitConnected,
                Wake, JoinRequests, SkipRequests, Settle, SignalCompleted, AwaitCompleted,
                RecordResult, UseSession, Tick
  <2>3. pc[Node1] = "act"
    BY <2>2 DEF SendRequest, Answer, Fail
  <2>4. age = Horizon /\ age <= idle + 2
    BY <2>3 DEF IInv, SleepInv
  <2> QED
    BY <2>4, ConstantTypes DEF Expired, IInv, TypeOK
<1>2. RequestsMeetExpiry <=> [][Meets]_vars
  BY DEF RequestsMeetExpiry
<1> QED
  BY <1>1, <1>2, Invariance, PTL DEF Spec
================================================================================
