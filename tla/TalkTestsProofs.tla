----------------------------- MODULE TalkTestsProofs -----------------------------
(* Success in the two test cases with TALK requests stands for the exchange:    *)
(* for any number of requests, and however often each of them is sent again.    *)
EXTENDS TalkTests, TestCaseProofs

--------------------------------------------------------------------------------
(* The traffic of the requests R, which are those of either test case.          *)
TrafficTypeOK(R) ==
  /\ requests \in [R -> {"unsent", "pending"} \cup Ended]
  /\ retries \in [R -> 0..MaxRetries]
  /\ incoming \in Seq(R)
  /\ stream \in Seq(R)
  /\ answers \in Seq(R \X {"answered", "empty"})
  /\ lost \in BOOLEAN /\ late \in BOOLEAN

(* A request that has ended keeps its outcome.                                  *)
EndsStay(R) == \A r \in R : requests[r] \in Ended => requests'[r] = requests[r]

LEMMA TrafficInit ==
  ASSUME NEW R, requests = [r \in R |-> "unsent"], retries = [r \in R |-> 0],
         incoming = <<>>, stream = <<>>, answers = <<>>, lost = FALSE, late = FALSE
  PROVE  TrafficTypeOK(R)
<1>1. MaxRetries \in Nat
  BY TalkAssumption
<1>2. requests \in [R -> {"unsent", "pending"} \cup Ended]
  OBVIOUS
<1>3. retries \in [R -> 0..MaxRetries]
  BY <1>1
<1>4. <<>> \in Seq(R) /\ <<>> \in Seq(R \X {"answered", "empty"})
  OBVIOUS
<1> QED
  BY <1>2, <1>3, <1>4 DEF TrafficTypeOK

(* What the test cases do with requests.                                        *)
LEMMA TrafficQuiet ==
  ASSUME NEW R, TrafficTypeOK(R), UNCHANGED talkVars
  PROVE  TrafficTypeOK(R)' /\ EndsStay(R)
  BY DEF TrafficTypeOK, EndsStay, talkVars

LEMMA TrafficAsk ==
  ASSUME NEW R, TrafficTypeOK(R), NEW r \in R, TalkReq(r)
  PROVE  TrafficTypeOK(R)' /\ EndsStay(R)
<1>1. incoming' \in Seq(R)
  BY AppendProperties DEF TrafficTypeOK, TalkReq
<1>2. EndsStay(R)
  BY DEF TrafficTypeOK, TalkReq, EndsStay, Ended
<1> QED
  BY <1>1, <1>2 DEF TrafficTypeOK, TalkReq

(* Responses and dropped requests add to the answers.                           *)
LEMMA DroppedType ==
  ASSUME NEW R, NEW rs \in Seq(R)
  PROVE  Dropped(rs) \in Seq(R \X {"answered", "empty"})
<1>1. DOMAIN rs = 1..Len(rs) /\ Len(rs) \in Nat /\ \A k \in 1..Len(rs) : rs[k] \in R
  BY LenProperties
<1>2. Dropped(rs) \in [1..Len(rs) -> R \X {"answered", "empty"}]
  BY <1>1 DEF Dropped
<1> QED
  BY <1>1, <1>2

LEMMA TrafficRespond ==
  ASSUME NEW R, TrafficTypeOK(R), RespondToEvent \/ RespondToLastEvent
  PROVE  TrafficTypeOK(R)' /\ EndsStay(R) /\ R # {}
<1>1. Head(stream) \in R /\ Tail(stream) \in Seq(R)
  BY HeadTailProperties DEF TrafficTypeOK, RespondToEvent, RespondToLastEvent
<1>2. UNCHANGED <<requests, retries, incoming, lost, late>>
  BY DEF RespondToEvent, RespondToLastEvent
<1>3. stream' \in Seq(R)
  BY <1>1, EmptySeq DEF RespondToEvent, RespondToLastEvent
<1>4. <<Head(stream), "answered">> \in R \X {"answered", "empty"}
  BY <1>1
<1>5. Append(answers, <<Head(stream), "answered">>) \in Seq(R \X {"answered", "empty"})
  BY <1>4, AppendProperties DEF TrafficTypeOK
<1>6. answers' \in Seq(R \X {"answered", "empty"})
  <2>1. CASE RespondToEvent
    BY <1>5, <2>1 DEF RespondToEvent
  <2>2. CASE RespondToLastEvent
    BY <1>1, <1>5, <2>2, DroppedType, ConcatProperties DEF RespondToLastEvent
  <2> QED
    BY <2>1, <2>2
<1> QED
  BY <1>1, <1>2, <1>3, <1>6 DEF TrafficTypeOK, EndsStay

(* What the network and the timers of discv5 do with them.                      *)
LEMMA TrafficDeliver ==
  ASSUME NEW R, TrafficTypeOK(R), NEW subscribed, NEW listened, NEW up,
         Deliver(subscribed, listened, up)
  PROVE  TrafficTypeOK(R)' /\ EndsStay(R)
<1>1. CASE ArriveInStream(subscribed)
  <2>1. Head(incoming) \in R /\ incoming' \in Seq(R)
    BY <1>1, HeadTailProperties DEF TrafficTypeOK, ArriveInStream
  <2>2. stream' \in Seq(R)
    BY <1>1, <2>1, AppendProperties DEF TrafficTypeOK, ArriveInStream
  <2> QED
    BY <1>1, <2>1, <2>2 DEF TrafficTypeOK, ArriveInStream, EndsStay
<1>2. CASE ArriveUnheard(subscribed, listened, up)
  <2>1. Head(incoming) \in R /\ incoming' \in Seq(R)
    BY <1>2, HeadTailProperties DEF TrafficTypeOK, ArriveUnheard
  <2>2. answers' \in Seq(R \X {"answered", "empty"})
    <3>1. <<Head(incoming)>> \in Seq(R)
      BY <2>1
    <3>2. answers \o Dropped(<<Head(incoming)>>) \in Seq(R \X {"answered", "empty"})
      BY <3>1, DroppedType, ConcatProperties DEF TrafficTypeOK
    <3> QED
      BY <1>2, <3>2 DEF TrafficTypeOK, ArriveUnheard
  <2>3. lost' \in BOOLEAN
    BY <1>2 DEF ArriveUnheard
  <2> QED
    BY <1>2, <2>1, <2>2, <2>3 DEF TrafficTypeOK, ArriveUnheard, EndsStay
<1>3. CASE ReceiveAnswer
  <2> DEFINE a == Head(answers)
  <2>1. a \in R \X {"answered", "empty"} /\ answers' \in Seq(R \X {"answered", "empty"})
    BY <1>3, HeadTailProperties DEF TrafficTypeOK, ReceiveAnswer
  <2>2. a[1] \in R /\ a[2] \in Ended
    BY <2>1 DEF Ended
  <2>3. requests' = [requests EXCEPT ![a[1]] = IF @ = "pending" THEN a[2] ELSE @]
    BY <1>3 DEF ReceiveAnswer
  <2>4. requests' \in [R -> {"unsent", "pending"} \cup Ended] /\ EndsStay(R)
    <3> HIDE DEF a
    <3> QED
      BY <2>2, <2>3 DEF TrafficTypeOK, EndsStay, Ended
  <2> QED
    BY <1>3, <2>1, <2>4 DEF TrafficTypeOK, ReceiveAnswer
<1>4. CASE LoseAnswer(up)
  <2>1. Len(answers) \in Nat /\ \A k \in 1..Len(answers) - 1 : answers[k] \in R \X {"answered", "empty"}
    BY LenProperties, ElementOfSeq DEF TrafficTypeOK
  <2>2. answers' \in Seq(R \X {"answered", "empty"})
    BY <1>4, <2>1, SubSeqProperties DEF LoseAnswer
  <2> QED
    BY <1>4, <2>2 DEF TrafficTypeOK, LoseAnswer, EndsStay
<1> QED
  BY <1>1, <1>2, <1>3, <1>4 DEF Deliver

LEMMA TrafficTimesOut ==
  ASSUME NEW R, TrafficTypeOK(R), NEW r \in R, TimeOut(r)
  PROVE  TrafficTypeOK(R)' /\ EndsStay(R)
<1>1. late' \in BOOLEAN /\ requests[r] = "pending"
  BY DEF TrafficTypeOK, TimeOut, Retry, Fail
<1>2. CASE Retry(r)
  <2>1. incoming' \in Seq(R)
    BY <1>2, AppendProperties DEF TrafficTypeOK, Retry
  <2>2. retries' \in [R -> 0..MaxRetries]
    BY <1>2, TalkAssumption DEF TrafficTypeOK, Retry
  <2> QED
    BY <1>1, <1>2, <2>1, <2>2 DEF TrafficTypeOK, Retry, EndsStay
<1>3. CASE Fail(r)
  BY <1>1, <1>3 DEF TrafficTypeOK, Fail, EndsStay, Ended
<1> QED
  BY <1>2, <1>3 DEF TimeOut
--------------------------------------------------------------------------------
(* The way of the instances, which is that of either test case: locations are   *)
(* its own ones, and the signal "last" is the one before its last barrier.      *)
RunInv(locations, last) ==
  /\ RunTypeOK(locations) /\ CollectInv
  /\ EndBarrier(last, "await_finished")

Inner(locations) == locations \ AtEnd("await_finished")

TestOf(locations, last) ==
  /\ locations \cap BeforeCollecting = {} /\ {"await_finished", "record"} \subseteq locations
  /\ last \in States /\ last # Configured

(* An instance goes on, and the others stay where they are.                     *)
Goes(i, from, to) ==
  /\ pc[i] = from /\ pc'[i] = to
  /\ \A j \in Instances : j # i => pc'[j] = pc[j]

LEMMA GotoGoes ==
  ASSUME NEW locations, RunTypeOK(locations), NEW i \in Instances,
         NEW from, NEW to, Goto(i, from, to)
  PROVE  Goes(i, from, to)
  BY DEF RunTypeOK, Goto, Goes

LEMMA RunQuiet ==
  ASSUME NEW locations, NEW last, TestOf(locations, last), RunInv(locations, last),
         UNCHANGED runVars
  PROVE  RunInv(locations, last)' /\ pc' = pc /\ verdict' = verdict
<1>1. pc' = pc /\ verdict' = verdict
  BY DEF runVars
<1> QED
  BY <1>1, EndQuietStep DEF RunInv, TestOf

LEMMA RunPrelude ==
  ASSUME NEW locations, NEW last, TestOf(locations, last), RunInv(locations, last),
         NEW i \in Instances, NEW to \in Inner(locations), Prelude(i, to)
  PROVE  /\ RunInv(locations, last)' /\ verdict' = verdict
         /\ \E from \in BeforeCollecting, next \in BeforeCollecting \cup {to} :
              Goes(i, from, next)
<1>1. /\ to \in locations /\ to \notin AtEnd("await_finished") /\ to \notin BeforeCollecting
      /\ "await_finished" \notin BeforeCollecting
  BY DEF Inner, TestOf, BeforeCollecting, BeforePublishing
<1>2. RunTypeOK(locations)' /\ CollectInv'
  BY <1>1, PreludeStep DEF RunInv
<1>3. EndBarrier(last, "await_finished")'
  BY <1>1, EndPreludeStep DEF RunInv, TestOf
<1>4. PICK from, next \in BeforeCollecting \cup {to} :
        from \in BeforeCollecting /\ Goto(i, from, next)
  BY DEF Prelude, SignalAt, AwaitAt, Move, PublishInfo, CollectInfo,
         BeforeCollecting, BeforePublishing
<1>5. verdict' = verdict
  BY DEF Prelude, SignalAt, AwaitAt, Move, PublishInfo, CollectInfo
<1> QED
  BY <1>2, <1>3, <1>4, <1>5, GotoGoes DEF RunInv

(* Within the test case, before its last barrier.                               *)
LEMMA RunInner ==
  ASSUME NEW locations, NEW last, TestOf(locations, last), RunInv(locations, last),
         NEW i \in Instances, NEW from \in Inner(locations), NEW to \in Inner(locations),
         NEW state \in States, state # last,
         Move(i, from, to) \/ SignalAt(i, from, state, to) \/ AwaitAt(i, from, state, to)
  PROVE  RunInv(locations, last)' /\ verdict' = verdict /\ Goes(i, from, to)
<1>1. from \in locations /\ to \in locations /\ from \notin BeforeCollecting /\ to \notin BeforeCollecting
  BY DEF Inner, TestOf
<1>2. RunTypeOK(locations)' /\ CollectInv'
  BY <1>1, MoveStep, SignalStep, AwaitStep DEF RunInv
<1>3. Goto(i, from, to) /\ verdict' = verdict
  BY DEF SignalAt, AwaitAt, Move
<1>4. signals'[last] = signals[last]
  <2>1. signals' = signals \/ signals' = [signals EXCEPT ![state] = @ + 1]
    BY DEF SignalAt, AwaitAt, Move, Signal, syncVars
  <2> QED
    BY <2>1 DEF RunInv, RunTypeOK, SyncTypeOK, TestOf
<1>5. EndBarrier(last, "await_finished")'
  <2>1. from \notin AtEnd("await_finished") /\ to \notin AtEnd("await_finished")
        /\ RunTypeOK(locations) /\ last \in States
    BY DEF Inner, RunInv, TestOf
  <2>2. from \notin {"done"} /\ to \notin {"record", "done"}
    BY <2>1 DEF AtEnd
  <2> QED
    BY <1>3, <1>4, <2>1, <2>2, EndBarrierStep DEF RunInv
<1> QED
  BY <1>2, <1>3, <1>5, GotoGoes DEF RunInv

(* To the last barrier, through it, and to the outcome.                         *)
LEMMA RunLast ==
  ASSUME NEW locations, NEW last, TestOf(locations, last), RunInv(locations, last),
         NEW i \in Instances, NEW from \in locations, NEW to \in AtEnd("await_finished"),
         NEW outcome \in {"success", "failure"},
         \/ /\ from \in Inner(locations) /\ to = "await_finished"
            /\ SignalAt(i, from, last, to)
         \/ /\ from = "await_finished" /\ to = "record" /\ AwaitAt(i, from, last, to)
         \/ from = "record" /\ to = "done" /\ Record(i, from, outcome)
  PROVE  /\ RunInv(locations, last)' /\ Goes(i, from, to)
         /\ \/ verdict' = verdict
            \/ from = "record" /\ verdict' = [verdict EXCEPT ![i] = outcome]
<1> USE DEF AtEnd
<1>1. from \notin BeforeCollecting /\ to \notin BeforeCollecting /\ last \in States
      /\ RunTypeOK(locations) /\ CollectInv /\ EndBarrier(last, "await_finished")
  BY DEF TestOf, RunInv, BeforeCollecting, BeforePublishing
<1>2. CASE SignalAt(i, from, last, to) /\ from \in Inner(locations) /\ to = "await_finished"
  <2>1. RunTypeOK(locations)' /\ CollectInv'
    BY <1>1, <1>2, SignalStep DEF TestOf
  <2>2. /\ Goto(i, from, to) /\ UNCHANGED verdict
        /\ signals'[last] = signals[last] + 1
    BY <1>1, <1>2 DEF SignalAt, Signal, RunTypeOK, SyncTypeOK
  <2>3. from \notin AtEnd("await_finished")
    BY <1>2 DEF Inner
  <2>4. EndBarrier(last, "await_finished")'
    BY <1>1, <1>2, <2>2, <2>3, EndBarrierStep
  <2>5. Goes(i, from, to)
    BY <1>1, <2>2, GotoGoes
  <2> QED
    BY <2>1, <2>2, <2>4, <2>5 DEF RunInv
<1>3. CASE AwaitAt(i, from, last, to) /\ from = "await_finished" /\ to = "record"
  <2>1. RunTypeOK(locations)' /\ CollectInv'
    BY <1>1, <1>3, AwaitStep DEF TestOf
  <2>2. /\ Goto(i, from, to) /\ UNCHANGED <<signals, verdict>>
        /\ SignalledEnd("await_finished") = Instances
    BY <1>1, <1>3, EndBarrierPassed DEF AwaitAt, Move, syncVars
  <2>3. EndBarrier(last, "await_finished")'
    BY <1>1, <1>3, <2>2, EndBarrierStep
  <2>4. Goes(i, from, to)
    BY <1>1, <2>2, GotoGoes
  <2> QED
    BY <2>1, <2>2, <2>3, <2>4 DEF RunInv
<1>4. CASE Record(i, from, outcome) /\ from = "record" /\ to = "done"
  <2>1. RunTypeOK(locations)' /\ CollectInv'
    BY <1>1, <1>4, RecordStep
  <2>2. /\ Goto(i, from, to) /\ UNCHANGED signals
        /\ verdict' = [verdict EXCEPT ![i] = outcome]
    BY <1>4 DEF Record, syncVars
  <2>3. \A j \in Instances : verdict'[j] = verdict[j] \/ j = i
    BY <1>1, <2>2 DEF RunTypeOK
  <2>4. EndBarrier(last, "await_finished")'
    BY <1>1, <1>4, <2>2, <2>3, EndBarrierStep
  <2> QED
    BY <1>1, <1>4, <2>1, <2>2, <2>4, GotoGoes DEF RunInv
<1> QED
  BY <1>2, <1>3, <1>4
--------------------------------------------------------------------------------
(* before-establishing-session: node 1 has seen the end of all requests when it *)
(* goes to the last barrier, and node 2 has counted as many.                    *)
Behind == {"signal_finished"} \cup AtEnd("await_finished")

ExchangeInv ==
  /\ pc[Node1] \in Behind => \A r \in Requests : requests[r] \in Ended
  /\ pc[Node2] \in Behind => req_count = Cardinality(Requests)
  /\ pc[Node2] \notin Behind /\ Requests # {} => req_count < Cardinality(Requests)

ExchangeIInv ==
  /\ RunInv(Locations, Finished) /\ TrafficTypeOK(Requests)
  /\ req_count \in 0..Cardinality(Requests)
  /\ ExchangeInv

(* The two nodes, the names of the signals and the number of requests.          *)
LEMMA ExchangeConstants ==
  /\ TestOf(Locations, Finished) /\ Started \in States /\ Started # Finished
  /\ Node1 \in Instances /\ Node2 \in Instances /\ Node1 # Node2
  /\ Cardinality(Requests) \in Nat
<1>1. Cardinality(Requests) \in Nat
  BY TalkAssumption, FS_CardinalityType
<1>2. TestOf(Locations, Finished) /\ Started \in States /\ Started # Finished
  BY BeforeEstablishingAssumption
     DEF TestOf, Locations, BeforeCollecting, BeforePublishing, Finished, Started, Configured
<1> QED
  BY <1>1, <1>2, BeforeEstablishingAssumption

LEMMA RequestsNumber == Requests # {} => Cardinality(Requests) >= 1
<1>1. Cardinality(Requests) = 0 <=> Requests = {}
  BY TalkAssumption, FS_EmptySet
<1> QED
  BY <1>1, ExchangeConstants

(* Its locations are the ends of its moves.                                     *)
LEMMA ExchangeLocations ==
  /\ {"start", "await_started", "act", "listen", "signal_finished"} \subseteq Inner(Locations)
  /\ {"await_finished", "record"} \subseteq Locations
  /\ {"await_finished", "record", "done"} \subseteq AtEnd("await_finished")
  /\ Inner(Locations) \subseteq Locations
  BY DEF Inner, Locations, AtEnd

LEMMA ExchangeInit == Init => ExchangeIInv
<1> SUFFICES ASSUME Init PROVE ExchangeIInv
  OBVIOUS
<1>1. RunInv(Locations, Finished)
  BY CollectInit, EndBarrierInit, ExchangeConstants DEF Init, RunInv, TestOf
<1>2. TrafficTypeOK(Requests)
  BY TrafficInit DEF Init, TalkInit
<1>3. req_count = 0 /\ pc[Node1] = "configure" /\ pc[Node2] = "configure"
  BY ExchangeConstants DEF Init, RunInit
<1>4. ExchangeInv
  BY <1>3, RequestsNumber, ExchangeConstants DEF ExchangeInv, Behind, AtEnd
<1> QED
  BY <1>1, <1>2, <1>3, <1>4, ExchangeConstants DEF ExchangeIInv

(* Steps that leave the count of node 2 alone, and move an instance to the last *)
(* barrier only when its part is done.                                          *)
LEMMA ExchangeKept ==
  ASSUME ExchangeIInv, RunInv(Locations, Finished)', TrafficTypeOK(Requests)',
         EndsStay(Requests), UNCHANGED req_count,
         \/ pc' = pc
         \/ \E n \in Instances : \E from, to :
              /\ Goes(n, from, to)
              /\ from \in Behind => to \in Behind
              /\ n = Node1 /\ to \in Behind =>
                   from \in Behind \/ \A r \in Requests : requests[r] \in Ended
              /\ n = Node2 /\ to \in Behind => from \in Behind
  PROVE  ExchangeIInv'
<1>1. \/ pc'[Node1] \notin Behind \/ pc[Node1] \in Behind
      \/ \A r \in Requests : requests[r] \in Ended
  BY ExchangeConstants DEF Goes
<1>2. pc'[Node2] \in Behind <=> pc[Node2] \in Behind
  BY ExchangeConstants DEF Goes
<1>3. \A r \in Requests : requests[r] \in Ended => requests'[r] \in Ended
  BY DEF EndsStay
<1>4. ExchangeInv'
  BY <1>1, <1>2, <1>3 DEF ExchangeIInv, ExchangeInv
<1> QED
  BY <1>4 DEF ExchangeIInv

LEMMA ExchangeBegins ==
  ASSUME ExchangeIInv, NEW n \in Instances, Prelude(n, "start"),
         UNCHANGED <<talkVars, req_count>>
  PROVE  ExchangeIInv'
<1>1. PICK from \in BeforeCollecting, next \in BeforeCollecting \cup {"start"} :
        Goes(n, from, next)
  BY ExchangeConstants, ExchangeLocations, RunPrelude DEF ExchangeIInv
<1>2. RunInv(Locations, Finished)'
  BY ExchangeConstants, ExchangeLocations, RunPrelude DEF ExchangeIInv
<1>3. next \notin Behind
  BY DEF Behind, AtEnd, BeforeCollecting, BeforePublishing
<1>4. from \notin Behind
  BY DEF Behind, AtEnd, BeforeCollecting, BeforePublishing
<1> QED
  BY <1>1, <1>2, <1>3, <1>4, ExchangeKept, TrafficQuiet DEF ExchangeIInv

LEMMA ExchangeActs ==
  ASSUME ExchangeIInv, NEW n \in Instances,
         \/ StartAndSignal(n) \/ AwaitStarted(n)
         \/ n = Node1 /\ JoinRequests
         \/ n = Node2 /\ Subscribe
  PROVE  ExchangeIInv'
<1> USE DEF ExchangeIInv
<1>1. UNCHANGED <<talkVars, req_count>>
  BY DEF StartAndSignal, AwaitStarted, JoinRequests, Subscribe
<1>2. TrafficTypeOK(Requests)' /\ EndsStay(Requests)
  BY <1>1, TrafficQuiet
<1>3. PICK from \in Inner(Locations), to \in Inner(Locations) :
        /\ \/ Move(n, from, to) \/ SignalAt(n, from, Started, to)
           \/ AwaitAt(n, from, Started, to)
        /\ from \notin Behind
        /\ to \in Behind => n = Node1 /\ \A r \in Requests : requests[r] \in Ended
  BY ExchangeLocations DEF StartAndSignal, AwaitStarted, JoinRequests, Subscribe, Behind, AtEnd
<1>4. RunInv(Locations, Finished)' /\ Goes(n, from, to)
  BY <1>3, ExchangeConstants, RunInner
<1>5. n = Node2 => to \notin Behind
  BY <1>3, ExchangeConstants
<1> QED
  BY <1>1, <1>2, <1>3, <1>4, <1>5, ExchangeKept

LEMMA ExchangeEndsTest ==
  ASSUME ExchangeIInv, NEW n \in Instances,
         SignalFinished(n) \/ AwaitFinished(n) \/ RecordSuccess(n)
  PROVE  ExchangeIInv'
<1> USE DEF ExchangeIInv
<1>1. UNCHANGED <<talkVars, req_count>>
  BY DEF SignalFinished, AwaitFinished, RecordSuccess
<1>2. TrafficTypeOK(Requests)' /\ EndsStay(Requests)
  BY <1>1, TrafficQuiet
<1>3. PICK from \in Locations, to \in AtEnd("await_finished") :
        /\ from \in Behind
        /\ \/ /\ from \in Inner(Locations) /\ to = "await_finished"
              /\ SignalAt(n, from, Finished, to)
           \/ /\ from = "await_finished" /\ to = "record" /\ AwaitAt(n, from, Finished, to)
           \/ from = "record" /\ to = "done" /\ Record(n, from, "success")
  BY ExchangeLocations DEF SignalFinished, AwaitFinished, RecordSuccess, Behind
<1>4. RunInv(Locations, Finished)' /\ Goes(n, from, to)
  BY <1>3, ExchangeConstants, RunLast
<1>5. to \in Behind
  BY DEF Behind
<1> QED
  BY <1>1, <1>2, <1>3, <1>4, <1>5, ExchangeKept

LEMMA ExchangeRequests ==
  ASSUME ExchangeIInv,
         \/ \E r \in Requests : SendRequest(r) \/ Discv5TimesOut(r)
         \/ Discv5Delivers
  PROVE  ExchangeIInv'
<1> USE DEF ExchangeIInv
<1>1. UNCHANGED runVars /\ UNCHANGED req_count
  BY DEF SendRequest, Discv5TimesOut, Discv5Delivers
<1>2. RunInv(Locations, Finished)' /\ pc' = pc
  BY <1>1, ExchangeConstants, RunQuiet
<1>3. TrafficTypeOK(Requests)' /\ EndsStay(Requests)
  BY TrafficAsk, TrafficTimesOut, TrafficDeliver
     DEF SendRequest, Discv5TimesOut, Discv5Delivers
<1> QED
  BY <1>1, <1>2, <1>3, ExchangeKept

(* Node 2 counts one more; with the last one it leaves its loop.                *)
LEMMA ExchangeEvent ==
  ASSUME ExchangeIInv, ReceiveEvent
  PROVE  ExchangeIInv'
<1> USE DEF ExchangeIInv
<1> DEFINE to == IF Enough(req_count + 1) THEN "signal_finished" ELSE "listen"
<1>1. to \in Inner(Locations) /\ Move(Node2, "listen", to)
  BY ExchangeLocations DEF ReceiveEvent
<1>2. RunInv(Locations, Finished)' /\ Goes(Node2, "listen", to)
  <2> HIDE DEF to
  <2> QED
    BY <1>1, ExchangeConstants, ExchangeLocations, RunInner DEF TestOf
<1>3. TrafficTypeOK(Requests)' /\ EndsStay(Requests) /\ Requests # {}
  BY TrafficRespond DEF ReceiveEvent
<1>4. /\ req_count \in Nat /\ req_count < Cardinality(Requests)
      /\ req_count' = req_count + 1
  BY <1>2, <1>3, ExchangeConstants DEF ExchangeInv, Goes, Behind, AtEnd, ReceiveEvent
<1>5. /\ pc'[Node2] = to /\ pc'[Node1] = pc[Node1]
      /\ to \in Behind <=> req_count' = Cardinality(Requests)
  BY <1>2, <1>4, ExchangeConstants DEF Goes, Enough, Behind, AtEnd
<1>6. req_count' \in 0..Cardinality(Requests)
  BY <1>4, ExchangeConstants
<1>7. pc'[Node1] \in Behind => \A r \in Requests : requests'[r] \in Ended
  BY <1>3, <1>5 DEF ExchangeInv, EndsStay
<1>8. ExchangeInv'
  BY <1>4, <1>5, <1>6, <1>7, ExchangeConstants DEF ExchangeInv
<1> QED
  BY <1>2, <1>3, <1>6, <1>8

LEMMA ExchangeNext ==
  ASSUME ExchangeIInv, Next
  PROVE  ExchangeIInv'
  BY ExchangeBegins, ExchangeActs, ExchangeEndsTest, ExchangeRequests, ExchangeEvent
     DEF Next, Test
--------------------------------------------------------------------------------
(* talk is a module of its own: its operators are those of TestCase and         *)
(* TalkRequests, over the one request that it makes.                            *)
LEMMA SameMoves ==
  ASSUME NEW n, NEW from, NEW to, NEW state, NEW outcome
  PROVE  /\ SimpleTalk!Prelude(n, to) <=> Prelude(n, to)
         /\ SimpleTalk!Move(n, from, to) <=> Move(n, from, to)
         /\ SimpleTalk!SignalAt(n, from, state, to) <=> SignalAt(n, from, state, to)
         /\ SimpleTalk!AwaitAt(n, from, state, to) <=> AwaitAt(n, from, state, to)
         /\ SimpleTalk!Record(n, from, outcome) <=> Record(n, from, outcome)
         /\ SimpleTalk!Up(n) <=> Up(n)
<1>1. \A m, a, b : SimpleTalk!Move(m, a, b) <=> Move(m, a, b)
  BY DEF SimpleTalk!Move, SimpleTalk!Goto, SimpleTalk!syncVars, Move, Goto, syncVars
<1>2. \A m, a, s, b : SimpleTalk!SignalAt(m, a, s, b) <=> SignalAt(m, a, s, b)
  BY DEF SimpleTalk!SignalAt, SimpleTalk!Signal, SimpleTalk!Goto, SignalAt, Signal, Goto
<1>3. SimpleTalk!InstanceCount = InstanceCount
  BY DEF SimpleTalk!InstanceCount, SimpleTalk!Cardinality, InstanceCount, Cardinality
<1>4. \A m, a, s, b : SimpleTalk!AwaitAt(m, a, s, b) <=> AwaitAt(m, a, s, b)
  BY <1>1, <1>3 DEF SimpleTalk!AwaitAt, SimpleTalk!Reached, SimpleTalk!Everyone,
                    AwaitAt, Reached, Everyone
<1>5. SimpleTalk!Record(n, from, outcome) <=> Record(n, from, outcome)
  BY DEF SimpleTalk!Record, SimpleTalk!Goto, SimpleTalk!syncVars, Record, Goto, syncVars
<1>6. SimpleTalk!PublishInfo(n) <=> PublishInfo(n)
  BY DEF SimpleTalk!PublishInfo, SimpleTalk!Publish, SimpleTalk!Goto, PublishInfo, Publish, Goto
<1>7. SimpleTalk!CollectInfo(n, to) <=> CollectInfo(n, to)
  BY <1>3 DEF SimpleTalk!CollectInfo, SimpleTalk!Goto, SimpleTalk!Collectable,
              SimpleTalk!Collected, SimpleTalk!syncVars,
              CollectInfo, Goto, Collectable, Collected, syncVars
<1>8. SimpleTalk!Configured = Configured
  BY DEF SimpleTalk!Configured, Configured
<1>9. SimpleTalk!Prelude(n, to) <=> Prelude(n, to)
  BY <1>2, <1>4, <1>6, <1>7, <1>8 DEF SimpleTalk!Prelude, Prelude
<1>10. SimpleTalk!Up(n) <=> Up(n)
  BY DEF SimpleTalk!Up, Up
<1> QED
  BY <1>1, <1>2, <1>4, <1>5, <1>9, <1>10

LEMMA SameTraffic ==
  ASSUME NEW r, NEW subscribed, NEW listened, NEW up
  PROVE  /\ SimpleTalk!TalkReq(r) <=> TalkReq(r)
         /\ SimpleTalk!RespondToLastEvent <=> RespondToLastEvent
         /\ SimpleTalk!Deliver(subscribed, listened, up) <=> Deliver(subscribed, listened, up)
         /\ SimpleTalk!TimeOut(r) <=> TimeOut(r)
<1>1. SimpleTalk!TalkReq(r) <=> TalkReq(r)
  BY DEF SimpleTalk!TalkReq, TalkReq
<1>2. SimpleTalk!RespondToLastEvent <=> RespondToLastEvent
  BY DEF SimpleTalk!RespondToLastEvent, SimpleTalk!Dropped, RespondToLastEvent, Dropped
<1>3. SimpleTalk!Deliver(subscribed, listened, up) <=> Deliver(subscribed, listened, up)
  BY DEF SimpleTalk!Deliver, SimpleTalk!ArriveInStream, SimpleTalk!ArriveUnheard,
         SimpleTalk!ReceiveAnswer, SimpleTalk!LoseAnswer, SimpleTalk!Dropped,
         Deliver, ArriveInStream, ArriveUnheard, ReceiveAnswer, LoseAnswer, Dropped
<1>4. SimpleTalk!TimeOut(r) <=> TimeOut(r)
  BY DEF SimpleTalk!TimeOut, SimpleTalk!Retry, SimpleTalk!Fail, SimpleTalk!Due,
         TimeOut, Retry, Fail, Due
<1> QED
  BY <1>1, <1>2, <1>3, <1>4

LEMMA SameState ==
  /\ SimpleTalk!RunTypeOK(SimpleTalk!Locations) <=> RunTypeOK(SimpleTalk!Locations)
  /\ SimpleTalk!TalkTypeOK <=> TrafficTypeOK({TheRequest})
  /\ SimpleTalk!Init => RunInit /\ TrafficTypeOK({TheRequest})
  /\ UNCHANGED SimpleTalk!talkVars <=> UNCHANGED talkVars
  /\ UNCHANGED SimpleTalk!runVars <=> UNCHANGED runVars
<1>1. SimpleTalk!RunTypeOK(SimpleTalk!Locations) <=> RunTypeOK(SimpleTalk!Locations)
  BY DEF SimpleTalk!RunTypeOK, SimpleTalk!SyncTypeOK, RunTypeOK, SyncTypeOK
<1>2. SimpleTalk!TalkTypeOK <=> TrafficTypeOK({TheRequest})
  BY DEF SimpleTalk!TalkTypeOK, SimpleTalk!Ended, TrafficTypeOK, Ended
<1>3. SimpleTalk!RunInit => RunInit
  BY DEF SimpleTalk!RunInit, SimpleTalk!SyncInit, RunInit, SyncInit
<1>4. SimpleTalk!TalkInit => TrafficTypeOK({TheRequest})
  BY TrafficInit DEF SimpleTalk!TalkInit
<1>5. UNCHANGED SimpleTalk!talkVars <=> UNCHANGED talkVars
  BY DEF SimpleTalk!talkVars, talkVars
<1>6. UNCHANGED SimpleTalk!runVars <=> UNCHANGED runVars
  BY DEF SimpleTalk!runVars, SimpleTalk!syncVars, runVars, syncVars
<1> QED
  BY <1>1, <1>2, <1>3, <1>4, <1>5, <1>6 DEF SimpleTalk!Init
--------------------------------------------------------------------------------
(* talk: node 1 records a success for the answer that it has.                   *)
AnsweredInv == verdict[Node1] = "success" => requests[TheRequest] = "answered"

TalkIInv ==
  /\ RunInv(SimpleTalk!Locations, SimpleTalk!Finished) /\ TrafficTypeOK({TheRequest})
  /\ AnsweredInv

LEMMA TalkConstants ==
  /\ TestOf(SimpleTalk!Locations, SimpleTalk!Finished)
  /\ SimpleTalk!Ready \in States /\ SimpleTalk!Ready # SimpleTalk!Finished
  /\ Node1 \in Instances /\ Node2 \in Instances /\ Node1 # Node2
<1>1. SimpleTalk!Locations \cap BeforeCollecting = {}
  BY DEF SimpleTalk!Locations, BeforeCollecting, BeforePublishing
<1>2. {"await_finished", "record"} \subseteq SimpleTalk!Locations
  BY DEF SimpleTalk!Locations
<1>3. SimpleTalk!Finished # Configured /\ SimpleTalk!Ready # SimpleTalk!Finished
  BY DEF SimpleTalk!Finished, SimpleTalk!Ready, Configured
<1> QED
  BY <1>1, <1>2, <1>3, TalkTestsAssumption, BeforeEstablishingAssumption DEF TestOf

LEMMA TalkLocations ==
  /\ {"ready", "await_ready", "act", "listen", "finished"} \subseteq Inner(SimpleTalk!Locations)
  /\ {"await_finished", "record"} \subseteq SimpleTalk!Locations
  /\ {"await_finished", "record", "done"} \subseteq AtEnd("await_finished")
  BY DEF Inner, SimpleTalk!Locations, AtEnd

LEMMA TalkInitially == SimpleTalk!Init => TalkIInv
<1> SUFFICES ASSUME SimpleTalk!Init PROVE TalkIInv
  OBVIOUS
<1>1. RunInit /\ TrafficTypeOK({TheRequest})
  BY SameState
<1>2. RunInv(SimpleTalk!Locations, SimpleTalk!Finished)
  BY <1>1, CollectInit, EndBarrierInit, TalkConstants DEF RunInv, TestOf
<1>3. verdict[Node1] = "none"
  BY <1>1, TalkConstants DEF RunInit
<1> QED
  BY <1>1, <1>2, <1>3 DEF TalkIInv, AnsweredInv

(* What has been recorded is kept, and so is the answer that it was for.        *)
LEMMA TalkKept ==
  ASSUME TalkIInv, RunInv(SimpleTalk!Locations, SimpleTalk!Finished)',
         TrafficTypeOK({TheRequest})', EndsStay({TheRequest}), verdict' = verdict
  PROVE  TalkIInv'
  BY DEF TalkIInv, AnsweredInv, EndsStay, Ended

LEMMA TalkBegins ==
  ASSUME TalkIInv, NEW n \in Instances,
         SimpleTalk!Prelude(n, "ready"), UNCHANGED SimpleTalk!talkVars
  PROVE  TalkIInv'
<1>1. Prelude(n, "ready") /\ UNCHANGED talkVars
  BY SameMoves, SameState
<1>2. RunInv(SimpleTalk!Locations, SimpleTalk!Finished)' /\ verdict' = verdict
  BY <1>1, TalkConstants, TalkLocations, RunPrelude DEF TalkIInv
<1> QED
  BY <1>1, <1>2, TalkKept, TrafficQuiet DEF TalkIInv

LEMMA TalkActs ==
  ASSUME TalkIInv, NEW n \in Instances,
         \/ SimpleTalk!SignalReady(n) \/ SimpleTalk!AwaitReady(n)
         \/ n = Node1 /\ SimpleTalk!TalkReqReturns
         \/ n = Node2 /\ (SimpleTalk!Subscribe \/ SimpleTalk!RespondTalk)
  PROVE  TalkIInv'
<1>1. PICK from \in Inner(SimpleTalk!Locations), to \in Inner(SimpleTalk!Locations) :
        \/ Move(n, from, to) \/ SignalAt(n, from, SimpleTalk!Ready, to)
        \/ AwaitAt(n, from, SimpleTalk!Ready, to)
  BY TalkLocations, SameMoves
     DEF SimpleTalk!SignalReady, SimpleTalk!AwaitReady, SimpleTalk!TalkReqReturns,
         SimpleTalk!Subscribe, SimpleTalk!RespondTalk
<1>2. RunInv(SimpleTalk!Locations, SimpleTalk!Finished)' /\ verdict' = verdict
  BY <1>1, TalkConstants, RunInner DEF TalkIInv
<1>3. UNCHANGED talkVars \/ RespondToLastEvent
  BY SameState, SameTraffic
     DEF SimpleTalk!SignalReady, SimpleTalk!AwaitReady, SimpleTalk!TalkReqReturns,
         SimpleTalk!Subscribe, SimpleTalk!RespondTalk
<1> QED
  BY <1>2, <1>3, TalkKept, TrafficQuiet, TrafficRespond DEF TalkIInv

LEMMA TalkMessages ==
  ASSUME TalkIInv,
         \/ \E r \in {TheRequest} : SimpleTalk!SendTalkReq(r) \/ SimpleTalk!Discv5TimesOut(r)
         \/ SimpleTalk!Discv5Delivers
  PROVE  TalkIInv'
<1>1. UNCHANGED runVars
  BY SameState DEF SimpleTalk!SendTalkReq, SimpleTalk!Discv5TimesOut, SimpleTalk!Discv5Delivers
<1>2. RunInv(SimpleTalk!Locations, SimpleTalk!Finished)' /\ verdict' = verdict
  BY <1>1, TalkConstants, RunQuiet DEF TalkIInv
<1>3. \/ TalkReq(TheRequest) \/ TimeOut(TheRequest)
      \/ Deliver(SimpleTalk!Subscribed, SimpleTalk!Listened, SimpleTalk!Up(Node2))
  BY SameTraffic DEF SimpleTalk!SendTalkReq, SimpleTalk!Discv5TimesOut, SimpleTalk!Discv5Delivers
<1>4. TrafficTypeOK({TheRequest})' /\ EndsStay({TheRequest})
  BY <1>3, TrafficAsk, TrafficTimesOut, TrafficDeliver DEF TalkIInv
<1> QED
  BY <1>2, <1>4, TalkKept

(* The success of node 1 is recorded for an answer.                             *)
LEMMA TalkEndsTest ==
  ASSUME TalkIInv, NEW n \in Instances,
         \/ SimpleTalk!SignalFinished(n) \/ SimpleTalk!AwaitFinished(n)
         \/ SimpleTalk!RecordResult(n)
  PROVE  TalkIInv'
<1>1. UNCHANGED talkVars
  BY SameState DEF SimpleTalk!SignalFinished, SimpleTalk!AwaitFinished, SimpleTalk!RecordResult
<1>2. TrafficTypeOK({TheRequest})' /\ EndsStay({TheRequest})
  BY <1>1, TrafficQuiet DEF TalkIInv
<1>3. PICK from \in SimpleTalk!Locations, to \in AtEnd("await_finished"),
           outcome \in {"success", "failure"} :
        /\ \/ /\ from \in Inner(SimpleTalk!Locations) /\ to = "await_finished"
              /\ SignalAt(n, from, SimpleTalk!Finished, to)
           \/ /\ from = "await_finished" /\ to = "record"
              /\ AwaitAt(n, from, SimpleTalk!Finished, to)
           \/ from = "record" /\ to = "done" /\ Record(n, from, outcome)
        /\ outcome = "success" => n = Node2 \/ SimpleTalk!TestResult
  <2>1. CASE SimpleTalk!SignalFinished(n)
    <3>1. SignalAt(n, "finished", SimpleTalk!Finished, "await_finished")
      BY <2>1, SameMoves DEF SimpleTalk!SignalFinished
    <3> QED
      BY <3>1, TalkLocations DEF Inner
  <2>2. CASE SimpleTalk!AwaitFinished(n)
    <3>1. AwaitAt(n, "await_finished", SimpleTalk!Finished, "record")
      BY <2>2, SameMoves DEF SimpleTalk!AwaitFinished
    <3> QED
      BY <3>1, TalkLocations
  <2>3. CASE SimpleTalk!RecordResult(n)
    <3>1. Record(n, "record", IF n = Node2 \/ SimpleTalk!TestResult THEN "success" ELSE "failure")
      BY <2>3, SameMoves DEF SimpleTalk!RecordResult
    <3> QED
      BY <3>1, TalkLocations
  <2> QED
    BY <2>1, <2>2, <2>3
<1>4. /\ RunInv(SimpleTalk!Locations, SimpleTalk!Finished)'
      /\ verdict' = verdict \/ verdict' = [verdict EXCEPT ![n] = outcome]
  BY <1>3, TalkConstants, RunLast DEF TalkIInv
<1>5. verdict \in [Instances -> {"none", "success", "failure"}]
  BY DEF TalkIInv, RunInv, RunTypeOK
<1>6. \/ verdict'[Node1] = verdict[Node1] \/ verdict'[Node1] = "failure"
      \/ requests[TheRequest] = "answered"
  BY <1>3, <1>4, <1>5, TalkConstants DEF SimpleTalk!TestResult
<1>7. AnsweredInv'
  BY <1>2, <1>6 DEF TalkIInv, AnsweredInv, EndsStay, Ended
<1> QED
  BY <1>2, <1>4, <1>7 DEF TalkIInv

LEMMA TalkNext ==
  ASSUME TalkIInv, SimpleTalk!Next
  PROVE  TalkIInv'
  BY TalkBegins, TalkActs, TalkMessages, TalkEndsTest DEF SimpleTalk!Next, SimpleTalk!Test
--------------------------------------------------------------------------------
(* Either test case keeps to its invariant.                                     *)
SuiteIInv ==
  /\ IsTalk \/ IsBeforeEstablishing
  /\ IsTalk => TalkIInv
  /\ IsBeforeEstablishing => ExchangeIInv

LEMMA SuiteInitially == SuiteInit => SuiteIInv
  BY TalkInitially, ExchangeInit DEF SuiteInit, SuiteIInv, IsTalk, IsBeforeEstablishing

LEMMA SuiteStutters ==
  ASSUME SuiteIInv, UNCHANGED suiteVars
  PROVE  SuiteIInv'
<1>1. /\ UNCHANGED runVars /\ UNCHANGED talkVars /\ UNCHANGED req_count
      /\ UNCHANGED test_case
  BY DEF suiteVars, vars
<1>2. IsTalk' = IsTalk /\ IsBeforeEstablishing' = IsBeforeEstablishing
  BY <1>1 DEF IsTalk, IsBeforeEstablishing
<1>3. ASSUME IsTalk PROVE TalkIInv'
  <2>1. TalkIInv
    BY <1>3 DEF SuiteIInv
  <2>2. RunInv(SimpleTalk!Locations, SimpleTalk!Finished)' /\ verdict' = verdict
    BY <1>1, <2>1, TalkConstants, RunQuiet DEF TalkIInv
  <2> QED
    BY <1>1, <2>1, <2>2, TalkKept, TrafficQuiet DEF TalkIInv
<1>4. ASSUME IsBeforeEstablishing PROVE ExchangeIInv'
  <2>1. ExchangeIInv
    BY <1>4 DEF SuiteIInv
  <2>2. RunInv(Locations, Finished)' /\ pc' = pc
    BY <1>1, <2>1, ExchangeConstants, RunQuiet DEF ExchangeIInv
  <2> QED
    BY <1>1, <2>1, <2>2, ExchangeKept, TrafficQuiet DEF ExchangeIInv
<1> QED
  BY <1>2, <1>3, <1>4 DEF SuiteIInv

LEMMA SuiteStep == SuiteIInv /\ [SuiteNext]_suiteVars => SuiteIInv'
<1> SUFFICES ASSUME SuiteIInv, [SuiteNext]_suiteVars PROVE SuiteIInv'
  OBVIOUS
<1>1. CASE RunsTalk(SimpleTalk!Next)
  BY <1>1, TalkNext DEF RunsTalk, SuiteIInv, IsTalk, IsBeforeEstablishing
<1>2. CASE RunsBeforeEstablishing(Next)
  BY <1>2, ExchangeNext DEF RunsBeforeEstablishing, SuiteIInv, IsTalk, IsBeforeEstablishing
<1>3. CASE UNCHANGED suiteVars
  BY <1>3, SuiteStutters
<1> QED
  BY <1>1, <1>2, <1>3 DEF SuiteNext

LEMMA SuiteInvariance == SuiteSpec => []SuiteIInv
  BY SuiteInitially, SuiteStep, PTL DEF SuiteSpec

(* The state of either test case keeps its type: nothing is counted, sent again *)
(* or answered that was not asked for.                                          *)
THEOREM SuiteTypeCorrect == SuiteSpec => []SuiteTypeOK
<1>1. SuiteIInv => SuiteTypeOK
  <2>1. ExchangeIInv => TypeOK
    BY DEF ExchangeIInv, RunInv, TrafficTypeOK, TypeOK, TalkTypeOK
  <2>2. TalkIInv => SimpleTalk!TypeOK
    BY SameState DEF TalkIInv, RunInv, SimpleTalk!TypeOK
  <2> QED
    BY <2>1, <2>2 DEF SuiteIInv, SuiteTypeOK
<1> QED
  BY <1>1, SuiteInvariance, PTL

(* When node 1 of talk records a success, its one request has been answered     *)
(* from node 2's event stream and node 2 is behind its own work: node 1 got     *)
(* here by a barrier that node 2 signals after it has responded.                *)
THEOREM TalkSucceedsTrulyAlways == SuiteSpec => []TalkSucceedsTruly
<1>1. SuiteIInv => TalkSucceedsTruly
  <2> SUFFICES ASSUME SuiteIInv, IsTalk, verdict[Node1] = "success"
               PROVE  /\ \A r \in {TheRequest} : requests[r] = "answered"
                      /\ pc[Node2] \in {"await_finished", "record", "done"}
    BY DEF TalkSucceedsTruly, SimpleTalk!SuccessMeansTalk
  <2>1. TalkIInv
    BY DEF SuiteIInv
  <2>2. SignalledEnd("await_finished") = Instances
    BY <2>1, TalkConstants DEF TalkIInv, RunInv, EndBarrier
  <2>3. pc[Node2] \in AtEnd("await_finished")
    BY <2>2, TalkConstants DEF SignalledEnd
  <2> QED
    BY <2>1, <2>3 DEF TalkIInv, AnsweredInv, AtEnd
<1> QED
  BY <1>1, SuiteInvariance, PTL

(* A success in before-establishing-session, on either node, is recorded after  *)
(* node 2 has answered as many requests as node 1 makes and all of node 1's     *)
(* requests have ended: both are conditions for going to the last barrier.      *)
THEOREM ExchangeSucceedsTrulyAlways == SuiteSpec => []ExchangeSucceedsTruly
<1>1. SuiteIInv => ExchangeSucceedsTruly
  <2> SUFFICES ASSUME SuiteIInv, IsBeforeEstablishing,
                      NEW n \in Instances, verdict[n] = "success"
               PROVE  /\ req_count = Cardinality(Requests)
                      /\ \A r \in Requests : requests[r] \in Ended
    BY DEF ExchangeSucceedsTruly, SuccessAfterExchange
  <2>1. ExchangeIInv
    BY DEF SuiteIInv
  <2>2. SignalledEnd("await_finished") = Instances
    BY <2>1 DEF ExchangeIInv, RunInv, EndBarrier
  <2>3. pc[Node1] \in Behind /\ pc[Node2] \in Behind
    BY <2>2, ExchangeConstants DEF SignalledEnd, Behind
  <2> QED
    BY <2>1, <2>3 DEF ExchangeIInv, ExchangeInv
<1> QED
  BY <1>1, SuiteInvariance, PTL
================================================================================
