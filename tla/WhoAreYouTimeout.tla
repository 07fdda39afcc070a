---------------------------- MODULE WhoAreYouTimeout ----------------------------
(* The concurrent-requests_whoareyou-timeout test case,                         *)
(* src/concurrent_requests/whoareyou_timeout.rs.  The mock sends node 1 a       *)
(* random packet and discards its WHOAREYOU; node 1 then makes two FINDNODE     *)
(* requests in parallel.                                                        *)
EXTENDS MockTest

VARIABLE hasty  \* history: the sleep was over before the round trip it stands for

SentRandom == "state_sent_random_packet"

ASSUME WhoAreYouTimeoutAssumption == SentRandom \in States

TimeoutLocations ==
  {"started", "await_started", "random", "sleep", "sent_random",
   "await_sent_random", "join", "finished", "await_finished", "record"}

WhoAreYouTimeoutTypeOK == TestTypeOK(TimeoutLocations) /\ hasty \in BOOLEAN
--------------------------------------------------------------------------------
(* An error would be logged, but the handler cannot be gone: nothing has        *)
(* reached it yet.                                                              *)
AskForRandomPacket ==
  /\ Goto(Node2, "random", "sleep")
  /\ SendRandomPacket(Node1)
  /\ UNCHANGED <<syncVars, participants, verdict, asked, failed>>

(* The packet or the WHOAREYOU that it provokes is still on its way.            *)
RoundTrip ==
  \/ from_mock # <<>> \/ send_ch # <<>> \/ wire[Node1] # <<>>
  \/ udp_in # <<>>

(* One second, for the packet and the WHOAREYOU to arrive; nothing makes sure   *)
(* that it is long enough.                                                      *)
Sleep ==
  /\ Move(Node2, "sleep", "sent_random")
  /\ hasty' = RoundTrip
  /\ TestOnly

SignalSentRandom(n) ==
  /\ SignalAt(n, "sent_random", SentRandom, "await_sent_random")
  /\ TestOnly

AwaitSentRandom(n) ==
  /\ AwaitAt(n, "await_sent_random", SentRandom,
             IF n = Node1 THEN "join" ELSE "finished")
  /\ TestOnly

RecordSuccess(n) ==
  /\ Record(n, "record", "success")
  /\ TestOnly

TimeoutTest(n) ==
  \/ Prelude(n, "started") /\ TestOnly
  \/ SignalStarted(n)
  \/ AwaitStarted(n, IF n = Node2 THEN "random" ELSE "sent_random")
  \/ n = Node2 /\ AskForRandomPacket
  \/ SignalSentRandom(n) \/ AwaitSentRandom(n)
  \/ n = Node1 /\ (AskRequest("FindNode") \/ JoinRequests("finished"))
  \/ SignalFinished(n) \/ AwaitFinished(n) \/ RecordSuccess(n)

TimeoutNext ==
  \/ (Surroundings \/ \E n \in Instances : TimeoutTest(n)) /\ UNCHANGED hasty
  \/ Sleep

(* Every test is a task that goes on whenever it can.                           *)
TimeoutSpec ==
  /\ MockTestInit /\ hasty = FALSE /\ [][TimeoutNext]_<<testVars, hasty>>
  /\ SurroundingsFairness
  /\ WF_testVars(Sleep) /\ \A n \in Instances : WF_testVars(TimeoutTest(n))
--------------------------------------------------------------------------------
(* What that takes of a script: it discards a WHOAREYOU, and then expects a     *)
(* message of a node without a session.                                         *)
ScriptAwaitsWhoAreYou ==
  /\ Len(Script) >= 2
  /\ Script[1].expect.kind = "WhoAreYou"
  /\ \A k \in DOMAIN Script[1].actions : Script[1].actions[k].op = "Ignore"
  /\ Script[2].expect.kind = "MessageWithoutSession"

(* The barrier after the random packet does its work: if the sleep was long     *)
(* enough and the socket sends, the mock meets node 1's first request when it   *)
(* has served the WHOAREYOU, so it gets as far as the challenge.  What follows  *)
(* may kill the handler: a request that is sent again, a handshake before the   *)
(* second request, a PING.                                                      *)
ScriptStartsAsPlanned ==
  ~hasty /\ sender = "running" /\ handler = "panicked" => Len(served) >= 2

(* Both FINDNODE requests fail and the handler may die at any point of the      *)
(* script, but every instance gets through all barriers and reports success.    *)
TimeoutEnds == <>(\A n \in Instances : verdict[n] = "success")
================================================================================
