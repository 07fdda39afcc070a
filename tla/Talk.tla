---------------------------------- MODULE Talk ----------------------------------
(* The talk test case, src/talk/mod.rs: node 1 makes one TALK request, node 2   *)
(* answers the first one that its event stream brings.  Requests is the set of  *)
(* that one request.                                                            *)
EXTENDS TestCase, TalkRequests

CONSTANTS Node1, Node2  \* the instances with sequence numbers 1 and 2

Ready == "state_ready_to_start_sim"
Finished == "state_finished"

Locations ==
  {"ready", "await_ready", "act", "listen", "finished", "await_finished", "record"}

vars == <<runVars, talkVars>>

TypeOK == RunTypeOK(Locations) /\ TalkTypeOK

Init == RunInit /\ TalkInit
--------------------------------------------------------------------------------
(* discv5 has been started before the information was published.                *)
SignalReady(n) ==
  /\ SignalAt(n, "ready", Ready, "await_ready")
  /\ UNCHANGED talkVars

AwaitReady(n) ==
  /\ AwaitAt(n, "await_ready", Ready, "act")
  /\ UNCHANGED talkVars

SendTalkReq(r) ==
  /\ pc[Node1] = "act"
  /\ TalkReq(r)
  /\ UNCHANGED runVars

(* talk_req has returned, with a response or an error.                          *)
TalkReqReturns ==
  /\ \A r \in Requests : requests[r] \in Ended
  /\ Move(Node1, "act", "finished")
  /\ UNCHANGED talkVars

Subscribe ==
  /\ Move(Node2, "act", "listen")
  /\ UNCHANGED talkVars

(* The stream is a local of node 2's part of the match, and goes with its end.  *)
Subscribed == pc[Node2] = "listen"
Listened == pc[Node2] \in {"finished", "await_finished", "record", "done"}

(* Other events are skipped; the first TalkRequest is answered and ends the     *)
(* loop.  It has the protocol and the body that node 1 sends, and a node that   *)
(* is up can respond, so node 2 has nothing to fail on.                         *)
RespondTalk ==
  /\ Move(Node2, "listen", "finished")
  /\ RespondToLastEvent

SignalFinished(n) ==
  /\ SignalAt(n, "finished", Finished, "await_finished")
  /\ UNCHANGED talkVars

AwaitFinished(n) ==
  /\ AwaitAt(n, "await_finished", Finished, "record")
  /\ UNCHANGED talkVars

(* Node 1 compares the response with the one that it expects; an empty one is   *)
(* invalid.                                                                     *)
ReturnedResult == \A r \in Requests : requests[r] \in {"answered", "empty"}
TestResult == \A r \in Requests : requests[r] = "answered"

RecordResult(n) ==
  /\ Record(n, "record", IF n = Node2 \/ TestResult THEN "success" ELSE "failure")
  /\ UNCHANGED talkVars

Test(n) ==
  \/ Prelude(n, "ready") /\ UNCHANGED talkVars
  \/ SignalReady(n) \/ AwaitReady(n)
  \/ n = Node1 /\ ((\E r \in Requests : SendTalkReq(r)) \/ TalkReqReturns)
  \/ n = Node2 /\ (Subscribe \/ RespondTalk)
  \/ SignalFinished(n) \/ AwaitFinished(n) \/ RecordResult(n)

Discv5Delivers == Deliver(Subscribed, Listened, Up(Node2)) /\ UNCHANGED runVars
Discv5TimesOut(r) == TimeOut(r) /\ UNCHANGED runVars

Next ==
  \/ \E n \in Instances : Test(n)
  \/ Discv5Delivers
  \/ \E r \in Requests : Discv5TimesOut(r)

(* As in BeforeEstablishing.                                                    *)
Fairness ==
  /\ \A n \in Instances : WF_vars(Test(n))
  /\ WF_vars(Discv5Delivers)
  /\ \A r \in Requests : WF_vars(Discv5TimesOut(r))

Spec == Init /\ [][Next]_vars /\ Fairness
--------------------------------------------------------------------------------
(* A request that finds the event stream is answered and both nodes succeed,    *)
(* unless the answer comes after node 1's last retry.  The last barrier keeps   *)
(* node 2 there until node 1 has the response, and a copy that comes when the   *)
(* stream is gone, and gets an empty response, comes after the answer.          *)
HeardRequestSucceeds ==
  [](~lost /\ ~late) => <>(\A n \in Instances : verdict[n] = "success")

(* Node 1's success stands for the whole exchange: it is recorded only when     *)
(* node 2 has taken the request from its stream and responded, not when the     *)
(* request was dropped with an empty response.  Node 1 may fail all the same    *)
(* while node 2 succeeds, when the response is late.                            *)
SuccessMeansTalk ==
  verdict[Node1] = "success" =>
    /\ \A r \in Requests : requests[r] = "answered"
    /\ pc[Node2] \in {"await_finished", "record", "done"}
================================================================================
