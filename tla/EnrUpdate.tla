-------------------------------- MODULE EnrUpdate -------------------------------
(* The enr-update test case, src/enr_update/mod.rs: node 1 starts without an    *)
(* address in its ENR, connects to all others, and waits for discv5 to learn    *)
(* the address from their PONGs.  An event task hands the news to the test      *)
(* through a oneshot channel.                                                   *)
EXTENDS TestCase

CONSTANTS
  Node1,        \* the instance with sequence number 1
  UpdateMin,    \* the votes that discv5 asks for (enr_peer_update_min, 10)
  ConnectFails  \* whether the request that connects to a node may fail

Others == Instances \ {Node1}

Connections == "state_completed_establish_connections"
Completed == "state_completed"

ASSUME EnrUpdateAssumption ==
  /\ Node1 \in Instances
  /\ States = {Configured, Connections, Completed}
  /\ UpdateMin \in Nat \ {0} /\ ConnectFails \in BOOLEAN

Locations ==
  {"subscribe", "connect", "signal_connections", "await_connections", "receive",
   "signal_completed", "await_completed", "record"}

VARIABLES
  to_connect,   \* node 1: the nodes it has yet to connect to
  connections,  \* the nodes that it has connected to
  votes,        \* those of them whose PONG has told node 1's address
  updated,      \* whether discv5 has updated the address in the ENR
  stream,       \* whether SocketUpdated waits in the event stream
  task,         \* the event task: "none", "listening" or "ended"
  channel       \* the oneshot channel: "empty", "sent" or "received"

testVars == <<to_connect, connections, votes, updated, stream, task, channel>>
vars == <<runVars, testVars>>

TypeOK ==
  /\ RunTypeOK(Locations)
  /\ to_connect \subseteq Others /\ connections \subseteq Others
  /\ votes \subseteq Others
  /\ updated \in BOOLEAN /\ stream \in BOOLEAN
  /\ task \in {"none", "listening", "ended"}
  /\ channel \in {"empty", "sent", "received"}

Init ==
  /\ RunInit
  /\ to_connect = {} /\ connections = {} /\ votes = {}
  /\ updated = FALSE /\ stream = FALSE
  /\ task = "none" /\ channel = "empty"
--------------------------------------------------------------------------------
(* event_stream, and the task that is spawned to read it.                       *)
Subscribe ==
  /\ Move(Node1, "subscribe", "connect")
  /\ task' = "listening"
  /\ to_connect' = participants[Node1] \ {Node1}
  /\ UNCHANGED <<connections, votes, updated, stream, channel>>

(* One node after the other; a failure is logged.                               *)
Connect(p) ==
  /\ pc[Node1] = "connect"
  /\ to_connect' = to_connect \ {p}
  /\ \/ connections' = connections \cup {p}
     \/ ConnectFails /\ UNCHANGED connections
  /\ UNCHANGED <<runVars, votes, updated, stream, task, channel>>

EndConnecting ==
  /\ to_connect = {}
  /\ Move(Node1, "connect", "signal_connections")
  /\ UNCHANGED testVars

SignalConnections(i) ==
  /\ SignalAt(i, "signal_connections", Connections, "await_connections")
  /\ UNCHANGED testVars

AwaitConnections(i) ==
  /\ AwaitAt(i, "await_connections", Connections,
             IF i = Node1 THEN "receive" ELSE "signal_completed")
  /\ UNCHANGED testVars

(* The sender lives until it has sent, so receiver.await returns no error.      *)
Receive ==
  /\ channel = "sent"
  /\ Move(Node1, "receive", "signal_completed")
  /\ channel' = "received"
  /\ UNCHANGED <<to_connect, connections, votes, updated, stream, task>>

SignalCompleted(i) ==
  /\ SignalAt(i, "signal_completed", Completed, "await_completed")
  /\ UNCHANGED testVars

AwaitCompleted(i) ==
  /\ AwaitAt(i, "await_completed", Completed, "record")
  /\ UNCHANGED testVars

RecordSuccess(i) ==
  /\ Record(i, "record", "success")
  /\ UNCHANGED testVars

Test(i) ==
  \/ /\ Prelude(i, IF i = Node1 THEN "subscribe" ELSE "signal_connections")
     /\ UNCHANGED testVars
  \/ /\ i = Node1
     /\ \/ Subscribe \/ EndConnecting \/ Receive
        \/ \E p \in to_connect : Connect(p)
  \/ SignalConnections(i) \/ AwaitConnections(i)
  \/ SignalCompleted(i) \/ AwaitCompleted(i) \/ RecordSuccess(i)

(* The event task skips other events, and ends with the one that it sends on.   *)
EventTask ==
  /\ task = "listening" /\ stream
  /\ stream' = FALSE /\ task' = "ended" /\ channel' = "sent"
  /\ UNCHANGED <<runVars, to_connect, connections, votes, updated>>
--------------------------------------------------------------------------------
(* discv5 (external).                                                           *)

(* A connected node that is up answers a PING; an address gets a vote. discv5   *)
(* remembers a vote for an interval only, which this test leaves at its         *)
(* default; here votes do not expire, which assumes that those needed come      *)
(* within one interval.                                                         *)
Vote(p) ==
  /\ Up(Node1) /\ Up(p)
  /\ p \in connections \ votes
  /\ votes' = votes \cup {p}
  /\ UNCHANGED <<runVars, to_connect, connections, updated, stream, task, channel>>

StreamOnceConnected ==
  task # "none" /\ pc[Node1] \notin {"connect", "signal_connections", "await_connections"}
StreamOpen == task # "none"

(* An event that finds no stream is lost.                                       *)
UpdateSocket ==
  /\ ~updated /\ Cardinality(votes) >= UpdateMin
  /\ updated' = TRUE
  /\ stream' = StreamOpen
  /\ UNCHANGED <<runVars, to_connect, connections, votes, task, channel>>

Next ==
  \/ \E i \in Instances : Test(i)
  \/ EventTask \/ UpdateSocket
  \/ \E p \in Others : Vote(p)

(* The tests and the event task run on; discv5 pings its peers again and again. *)
Fairness ==
  /\ \A i \in Instances : WF_vars(Test(i))
  /\ WF_vars(EventTask) /\ WF_vars(UpdateSocket)
  /\ \A p \in Others : WF_vars(Vote(p))

Spec == Init /\ [][Next]_vars /\ Fairness
--------------------------------------------------------------------------------
(* The one SocketUpdated event is never lost between discv5, the event task and *)
(* the test, however early the votes come: the stream is opened before node 1   *)
(* connects to anyone.                                                          *)
UpdateReachesTheTest == updated => stream \/ channel # "empty"

(* No instance records success before node 1 has seen the update, although the  *)
(* others do nothing but wait: they wait at the last barrier.                   *)
SuccessMeansUpdated ==
  \A i \in Instances : verdict[i] = "success" => updated /\ channel = "received"

(* With enough connections the wait without a timeout comes to its end, and the *)
(* test with it: the nodes that node 1 connected to stay until they have voted, *)
(* and no vote expires before the last one has come.                            *)
ConnectionsEndTheTest ==
  <>(Cardinality(connections) >= UpdateMin) => <>(\A i \in Instances : verdict[i] = "success")
================================================================================
