--------------------------- MODULE BeforeEstablishing ---------------------------
(* The test case concurrent-requests_before-establishing-session,               *)
(* src/concurrent_requests/before_establishing_session.rs: node 1 sends two     *)
(* TALK requests in parallel, node 2 answers what its event stream brings.      *)
EXTENDS TestCase, TalkRequests

CONSTANTS Node1, Node2  \* the instances with sequence numbers 1 and 2

Started == "discv5_started"
Finished == "finished"

ASSUME BeforeEstablishingAssumption ==
  /\ Node1 # Node2 /\ Instances = {Node1, Node2}
  /\ {Configured, Started, Finished} \subseteq States

Locations ==
  {"start", "await_started", "act", "listen", "signal_finished",
   "await_finished", "record"}

VARIABLE req_count  \* node 2: requests received

vars == <<runVars, talkVars, req_count>>

TypeOK ==
  /\ RunTypeOK(Locations)
  /\ TalkTypeOK
  /\ req_count \in 0..Cardinality(Requests)

Init == RunInit /\ TalkInit /\ req_count = 0
--------------------------------------------------------------------------------
(* discv5 starts before the signal, and so receives from then on.               *)
StartAndSignal(n) ==
  /\ SignalAt(n, "start", Started, "await_started")
  /\ UNCHANGED <<talkVars, req_count>>

AwaitStarted(n) ==
  /\ AwaitAt(n, "await_started", Started, "act")
  /\ UNCHANGED <<talkVars, req_count>>

(* The task spawned for a request.                                              *)
SendRequest(r) ==
  /\ pc[Node1] = "act"
  /\ TalkReq(r)
  /\ UNCHANGED <<runVars, req_count>>

(* Every handle has been joined; a failed request is only logged.               *)
JoinRequests ==
  /\ \A r \in Requests : requests[r] \in Ended
  /\ Move(Node1, "act", "signal_finished")
  /\ UNCHANGED <<talkVars, req_count>>

(* event_stream, called once node 2 has passed the barrier.                     *)
Subscribe ==
  /\ Move(Node2, "act", "listen")
  /\ UNCHANGED <<talkVars, req_count>>

(* The stream is a local of node 2's part of the match, and goes with its end.  *)
Subscribed == pc[Node2] = "listen"
Listened == pc[Node2] \in {"signal_finished", "await_finished", "record", "done"}

EnoughOneTooMany(count) == count = Cardinality(Requests) + 1
Enough(count) == count = Cardinality(Requests)

(* A TalkRequest event is counted and answered; the last one ends the loop.     *)
ReceiveEvent ==
  /\ req_count' = req_count + 1
  /\ \/ /\ ~Enough(req_count + 1)
        /\ RespondToEvent
        /\ Move(Node2, "listen", "listen")
     \/ /\ Enough(req_count + 1)
        /\ RespondToLastEvent
        /\ Move(Node2, "listen", "signal_finished")

SignalFinished(n) ==
  /\ SignalAt(n, "signal_finished", Finished, "await_finished")
  /\ UNCHANGED <<talkVars, req_count>>

AwaitFinished(n) ==
  /\ AwaitAt(n, "await_finished", Finished, "record")
  /\ UNCHANGED <<talkVars, req_count>>

RecordSuccess(n) ==
  /\ Record(n, "record", "success")
  /\ UNCHANGED <<talkVars, req_count>>

Test(n) ==
  \/ Prelude(n, "start") /\ UNCHANGED <<talkVars, req_count>>
  \/ StartAndSignal(n) \/ AwaitStarted(n)
  \/ n = Node1 /\ ((\E r \in Requests : SendRequest(r)) \/ JoinRequests)
  \/ n = Node2 /\ (Subscribe \/ ReceiveEvent)
  \/ SignalFinished(n) \/ AwaitFinished(n) \/ RecordSuccess(n)

Discv5Delivers ==
  /\ Deliver(Subscribed, Listened, Up(Node2))
  /\ UNCHANGED <<runVars, req_count>>

Discv5TimesOut(r) == TimeOut(r) /\ UNCHANGED <<runVars, req_count>>

Next ==
  \/ \E n \in Instances : Test(n)
  \/ Discv5Delivers
  \/ \E r \in Requests : Discv5TimesOut(r)

(* The tests run on, discv5 and the network deliver, and every request times    *)
(* out in the end unless it is answered.                                        *)
Fairness ==
  /\ \A n \in Instances : WF_vars(Test(n))
  /\ WF_vars(Discv5Delivers)
  /\ \A r \in Requests : WF_vars(Discv5TimesOut(r))

Spec == Init /\ [][Next]_vars /\ Fairness
--------------------------------------------------------------------------------
(* A success is recorded only after node 2 has answered as many requests as     *)
(* node 1 makes, and after node 1 has seen the end of every one of them.        *)
SuccessAfterExchange ==
  \A n \in Instances : verdict[n] = "success" =>
    /\ req_count = Cardinality(Requests)
    /\ \A r \in Requests : requests[r] \in Ended

(* If no request outruns node 2's event stream, both tests come to their end:   *)
(* the two conditions that they wait on do not wait on each other.              *)
HeardRequestsEndTheTest ==
  [](~lost) => <>(\A n \in Instances : verdict[n] = "success")

(* README: "The request (id:1) completed", and so on for each of the requests,  *)
(* on a network that is fast enough for none of them to time out.               *)
EveryRequestCompletes ==
  [](\A r \in Requests : retries[r] = 0 /\ requests[r] # "failed")
  => <>(\A r \in Requests : requests[r] = "answered")
================================================================================
