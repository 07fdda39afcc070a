-------------------------------- MODULE MockTest --------------------------------
(* What the two test cases with a mock have in common: node 1 runs discv5 and   *)
(* makes two requests to node 2, where the test starts the mock.  The mock of   *)
(* MockSystem and its one peer, both tied to the processes of their tests: a    *)
(* test that ends takes its discv5 node, or the mock's tasks, with it.          *)
EXTENDS MockSystem, TestCase

CONSTANTS
  Node1, Node2,  \* the instances with sequence numbers 1 and 2
  OwnRequests    \* bound: PINGs that discv5 sends of its own accord

(* Requests in all is what bounds the peer in MockSystem.                       *)
Parallel == 2

(* The mock of a test is sequential, and node 1 its only peer.                  *)
TestSetting ==
  /\ Node1 # Node2 /\ Instances = {Node1, Node2} /\ Peers = {Node1}
  /\ Mode = "Sequential"
  /\ {"Ping", "FindNode"} \subseteq PeerBodies
  /\ OwnRequests \in Nat /\ MaxRequests = Parallel + OwnRequests

Started == "state_discv5_started"
Finished == "state_finished"

ASSUME MockTestAssumption == {Started, Finished} \subseteq States

VARIABLES
  asked,   \* the ids of the test's requests that have gone out
  failed   \* those of them that have returned an error

testVars == <<vars, runVars, asked, failed>>

TestTypeOK(locations) ==
  /\ TypeOK
  /\ RunTypeOK(locations)
  /\ asked \subseteq Ids /\ failed \subseteq asked

MockTestInit == Init /\ RunInit /\ asked = {} /\ failed = {}

Active == {r.packet.id : r \in active[Node1]}

(* The tests do nothing but move on, or ask something of the mock.              *)
TestOnly == UNCHANGED <<vars, asked, failed>>

(* Both tests begin and end with a barrier that is passed by both instances.    *)
SignalStarted(n) ==
  /\ SignalAt(n, "started", Started, "await_started")
  /\ TestOnly

AwaitStarted(n, to) ==
  /\ AwaitAt(n, "await_started", Started, to)
  /\ TestOnly

SignalFinished(n) ==
  /\ SignalAt(n, "finished", Finished, "await_finished")
  /\ TestOnly

AwaitFinished(n) ==
  /\ AwaitAt(n, "await_finished", Finished, "record")
  /\ TestOnly

(* A spawned request goes out when the library sends it, which may be after     *)
(* another one has led to a session, or after a challenge has expired.          *)
AskRequest(body) ==
  /\ pc[Node1] = "join"
  /\ Cardinality(asked) < Parallel
  /\ PeerSendsRequest(Node1, body)
  /\ asked' = asked \cup {[peer |-> Node1, n |-> next_id[Node1]]}
  /\ UNCHANGED <<runVars, failed>>

(* Node 1 joins the handles of its requests; an error is only logged.           *)
JoinAnswered(to) ==
  /\ Cardinality(asked) = Parallel /\ asked \cap Active = {} /\ failed = {}
  /\ Move(Node1, "join", to)
  /\ TestOnly

JoinRequests(to) ==
  /\ Cardinality(asked) = Parallel /\ asked \cap Active = {}
  /\ Move(Node1, "join", to)
  /\ TestOnly
--------------------------------------------------------------------------------
(* The mock's tasks run as long as the test on node 2 does.                     *)
MockTask(task) == Up(Node2) /\ task /\ UNCHANGED <<runVars, asked, failed>>

MockHandles == MockTask(Handler)
MockReceives == MockTask(RecvHandler)
MockSends == MockTask(SendHandler)
MockSendPanics == MockTask(SendHandlerPanics)

(* A node that has established a session sends a PING over it.                  *)
OwnPing ==
  /\ Up(Node1)
  /\ peer_session[Node1] # None
  /\ next_id[Node1] - Cardinality(asked) < OwnRequests
  /\ PeerSendsRequest(Node1, "Ping")
  /\ UNCHANGED <<runVars, asked, failed>>

(* Whatever else ends a request than its response is an error for its handle.   *)
Discv5Receives ==
  /\ Up(Node1)
  /\ \/ PeerReceivesResponse(Node1) /\ UNCHANGED failed
     \/ /\ PeerReceivesWhoAreYou(Node1) \/ PeerRefusesWhoAreYou(Node1)
           \/ PeerReceivesUnreadable(Node1)
        /\ failed' = failed \cup ((asked \cap Active) \ {r.packet.id : r \in active'[Node1]})
  /\ UNCHANGED <<runVars, asked>>

Discv5TimesOut ==
  /\ Up(Node1)
  /\ \E r \in active[Node1] :
       \/ PeerRetries(Node1, r) /\ UNCHANGED failed
       \/ /\ PeerGivesUp(Node1, r)
          /\ failed' = failed \cup ({r.packet.id} \cap asked)
  /\ UNCHANGED <<runVars, asked>>

Surroundings ==
  \/ MockHandles \/ MockReceives \/ MockSends \/ MockSendPanics
  \/ OwnPing \/ Discv5Receives \/ Discv5TimesOut

(* The runtime polls the tasks that can go on.  discv5 reads its socket, sends  *)
(* the requests it is given and fails those that stay without an answer; its    *)
(* own PINGs are nothing to count on.                                           *)
SurroundingsFairness ==
  /\ WF_testVars(MockHandles) /\ WF_testVars(MockReceives) /\ WF_testVars(MockSends)
  /\ WF_testVars(Discv5Receives) /\ WF_testVars(Discv5TimesOut)
================================================================================
