--------------------------- MODULE ConcurrentRequests ---------------------------
(* The concurrent-requests test case, src/concurrent_requests/mod.rs: node 1    *)
(* connects to node 2, both sleep until node 2's session has expired, and node  *)
(* 1 sends requests in parallel.  Time is counted in seconds.                   *)
EXTENDS TestCase

CONSTANTS
  Node1, Node2,    \* the instances with sequence numbers 1 and 2
  Requests,        \* the requests of the second half
  SESSION_TIMEOUT_NODE2,
  OwnTraffic       \* the seconds for which discv5's own requests (a PING to a
                   \* new peer) may use a session after it was established

Connected == "state_connected"
Completed == "state_completed"

ASSUME ConcurrentRequestsAssumption ==
  /\ Node1 # Node2 /\ Instances = {Node1, Node2}
  /\ States = {Configured, Connected, Completed}
  /\ SESSION_TIMEOUT_NODE2 \in Nat \ {0} /\ OwnTraffic \in 0..2

Locations ==
  {"connect", "signal_connected", "await_connected", "sleep", "act",
   "settle", "signal_completed", "await_completed", "record"}

VARIABLES
  timer,     \* by instance: what is left of its sleep
  connected, \* whether node 1's first request has established a session
  age,       \* the seconds since then
  idle,      \* the seconds since node 2 last used its session
  requests,  \* by request: "unsent", "pending", "answered" or "failed"
  succeeded  \* node 1: no request has failed

testVars == <<timer, connected, age, idle, requests, succeeded>>
vars == <<runVars, testVars>>

SleepWithoutMargin == SESSION_TIMEOUT_NODE2
SleepTime == SESSION_TIMEOUT_NODE2 + 2
SettleTime == 3

Horizon == SESSION_TIMEOUT_NODE2 + 2  \* bound: ages are not told apart above it

TypeOK ==
  /\ RunTypeOK(Locations)
  /\ timer \in [Instances -> 0..Horizon + SettleTime]
  /\ connected \in BOOLEAN /\ age \in 0..Horizon /\ idle \in 0..Horizon
  /\ requests \in [Requests -> {"unsent", "pending", "answered", "failed"}]
  /\ succeeded \in BOOLEAN

Init ==
  /\ RunInit
  /\ timer = [i \in Instances |-> 0]
  /\ connected = FALSE /\ age = 0 /\ idle = 0
  /\ requests = [r \in Requests |-> "unsent"]
  /\ succeeded = TRUE
--------------------------------------------------------------------------------
(* Node 1's first request; what becomes of it is ignored.                       *)
Connect ==
  /\ Move(Node1, "connect", "signal_connected")
  /\ connected' \in BOOLEAN
  /\ UNCHANGED <<timer, age, idle, requests, succeeded>>

SkipConnect ==
  /\ Move(Node2, "connect", "signal_connected")
  /\ UNCHANGED testVars

SignalConnected(i) ==
  /\ SignalAt(i, "signal_connected", Connected, "await_connected")
  /\ UNCHANGED testVars

AwaitConnected(i) ==
  /\ AwaitAt(i, "await_connected", Connected, "sleep")
  /\ timer' = [timer EXCEPT ![i] = SleepTime]
  /\ UNCHANGED <<connected, age, idle, requests, succeeded>>

Wake(i) ==
  /\ timer[i] = 0
  /\ Move(i, "sleep", "act")
  /\ UNCHANGED testVars

SendRequest(r) ==
  /\ pc[Node1] = "act"
  /\ requests[r] = "unsent"
  /\ requests' = [requests EXCEPT ![r] = "pending"]
  /\ UNCHANGED <<runVars, timer, connected, age, idle, succeeded>>

(* Every handle is joined, and the second sleep begins.                         *)
SomeAnswered == \E r \in Requests : requests[r] = "answered"
NoneFailed == \A r \in Requests : requests[r] # "failed"

JoinRequests ==
  /\ \A r \in Requests : requests[r] \in {"answered", "failed"}
  /\ Move(Node1, "act", "settle")
  /\ succeeded' = NoneFailed
  /\ timer' = [timer EXCEPT ![Node1] = SettleTime]
  /\ UNCHANGED <<connected, age, idle, requests>>

SkipRequests ==
  /\ Move(Node2, "act", "settle")
  /\ timer' = [timer EXCEPT ![Node2] = SettleTime]
  /\ UNCHANGED <<connected, age, idle, requests, succeeded>>

Settle(i) ==
  /\ timer[i] = 0
  /\ Move(i, "settle", "signal_completed")
  /\ UNCHANGED testVars

SignalCompleted(i) ==
  /\ SignalAt(i, "signal_completed", Completed, "await_completed")
  /\ UNCHANGED testVars

AwaitCompleted(i) ==
  /\ AwaitAt(i, "await_completed", Completed, "record")
  /\ UNCHANGED testVars

RecordResult(i) ==
  /\ Record(i, "record", IF i = Node2 \/ succeeded THEN "success" ELSE "failure")
  /\ UNCHANGED testVars

Test(i) ==
  \/ Prelude(i, "connect") /\ UNCHANGED testVars
  \/ i = Node1 /\ (Connect \/ (\E r \in Requests : SendRequest(r)) \/ JoinRequests)
  \/ i = Node2 /\ (SkipConnect \/ SkipRequests)
  \/ SignalConnected(i) \/ AwaitConnected(i) \/ Wake(i) \/ Settle(i)
  \/ SignalCompleted(i) \/ AwaitCompleted(i) \/ RecordResult(i)
--------------------------------------------------------------------------------
(* discv5 (external).                                                           *)

(* Each use of a session puts off its end.                                      *)
UseSession ==
  /\ connected /\ age < OwnTraffic
  /\ idle' = 0
  /\ UNCHANGED <<runVars, timer, connected, age, requests, succeeded>>

Expired == idle >= SESSION_TIMEOUT_NODE2

(* Node 2 answers under its session, or under a new one after a WHOAREYOU.      *)
Answer(r) ==
  /\ requests[r] = "pending" /\ Up(Node2)
  /\ requests' = [requests EXCEPT ![r] = "answered"]
  /\ idle' = 0
  /\ UNCHANGED <<runVars, timer, connected, age, succeeded>>

Fail(r) ==
  /\ requests[r] = "pending"
  /\ requests' = [requests EXCEPT ![r] = "failed"]
  /\ UNCHANGED <<runVars, timer, connected, age, idle, succeeded>>

Later(n) == IF n < Horizon THEN n + 1 ELSE n

Tick ==
  /\ timer' = [i \in Instances |-> IF timer[i] > 0 THEN timer[i] - 1 ELSE 0]
  /\ IF connected THEN age' = Later(age) /\ idle' = Later(idle)
     ELSE UNCHANGED <<age, idle>>
  /\ UNCHANGED <<runVars, connected, requests, succeeded>>

Next ==
  \/ \E i \in Instances : Test(i)
  \/ UseSession \/ Tick
  \/ \E r \in Requests : Answer(r) \/ Fail(r)

(* The tests run on, time passes, and every request is answered or fails.       *)
Fairness ==
  /\ \A i \in Instances : WF_vars(Test(i))
  /\ WF_vars(Tick)
  /\ \A r \in Requests : WF_vars(Answer(r) \/ Fail(r))

Spec == Init /\ [][Next]_vars /\ Fairness
--------------------------------------------------------------------------------
(* The case that the test is there for: when the first of the parallel requests *)
(* is sent, node 2's session has expired.  The margin of two seconds covers     *)
(* what discv5 itself still sends after connecting.                             *)
RequestsMeetExpiry ==
  [][(/\ \A r \in Requests : requests[r] = "unsent"
      /\ \E r \in Requests : requests'[r] = "pending"
      /\ connected)
     => Expired]_vars

(* Outcomes tell what became of the requests: no instance records anything      *)
(* before all have ended, node 1 succeeds if and only if all were answered, and *)
(* node 2, which made none, always does.                                        *)
OutcomesTellRequests ==
  /\ \A i \in Instances : verdict[i] # "none" =>
       \A r \in Requests : requests[r] \in {"answered", "failed"}
  /\ verdict[Node1] # "none" =>
       (verdict[Node1] = "success" <=> \A r \in Requests : requests[r] = "answered")
  /\ verdict[Node2] # "failure"

(* Node 2 has nothing to do after its sleeps, but waits at the last barrier     *)
(* with its discv5 up: no request fails because it has left.                    *)
Node2OutlivesRequests ==
  \A r \in Requests : requests[r] = "pending" => Up(Node2)

(* Whatever becomes of the requests, the test case comes to its end.            *)
EveryInstanceRecords == <>(\A i \in Instances : verdict[i] # "none")
================================================================================
