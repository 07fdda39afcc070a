------------------------------ MODULE TalkRequests ------------------------------
(* TALK requests as two discv5 nodes carry them (external: the library under    *)
(* test).  Node 1 makes the requests; node 2 hands them to its event stream, if *)
(* the test has one, and sends the responses.  Nothing overtakes on the way.    *)
(* The session that the first of them establishes shows here only as time that  *)
(* passes.                                                                      *)
EXTENDS Naturals, FiniteSets, Sequences

CONSTANTS
  Requests,   \* the requests that node 1 makes
  MaxRetries  \* bound: retransmissions of a request (request_retries)

ASSUME TalkAssumption == IsFiniteSet(Requests) /\ MaxRetries \in Nat

VARIABLES
  requests,  \* by request: "unsent", "pending", "answered", "empty" or "failed"
  retries,   \* by request: how often it has been sent again
  incoming,  \* the requests on their way to node 2, in order
  stream,    \* the requests that wait in node 2's event stream
  answers,   \* the responses on their way to node 1, in order: request and content
  lost,      \* history: some request reached node 2 before its event stream
  late       \* history: some request failed while its answer was due

talkVars == <<requests, retries, incoming, stream, answers, lost, late>>

Ended == {"answered", "empty", "failed"}

TalkTypeOK ==
  /\ requests \in [Requests -> {"unsent", "pending"} \cup Ended]
  /\ retries \in [Requests -> 0..MaxRetries]
  /\ incoming \in Seq(Requests)
  /\ stream \in Seq(Requests)
  /\ answers \in Seq(Requests \X {"answered", "empty"})
  /\ lost \in BOOLEAN /\ late \in BOOLEAN

TalkInit ==
  /\ requests = [r \in Requests |-> "unsent"]
  /\ retries = [r \in Requests |-> 0]
  /\ incoming = <<>> /\ stream = <<>> /\ answers = <<>>
  /\ lost = FALSE /\ late = FALSE

(* Discv5::talk_req                                                             *)
TalkReq(r) ==
  /\ requests[r] = "unsent"
  /\ requests' = [requests EXCEPT ![r] = "pending"]
  /\ incoming' = Append(incoming, r)
  /\ UNCHANGED <<retries, stream, answers, lost, late>>

(* The next event of the stream, which is answered with "respond".              *)
RespondToEvent ==
  /\ stream # <<>>
  /\ stream' = Tail(stream)
  /\ answers' = Append(answers, <<Head(stream), "answered">>)
  /\ UNCHANGED <<requests, retries, incoming, lost, late>>

(* A request that is dropped sends an empty response.                           *)
Dropped(rs) == [k \in DOMAIN rs |-> <<rs[k], "empty">>]

(* The event after which the test has done with its stream: the stream goes out *)
(* of scope, and what is left in it is dropped.                                 *)
RespondToLastEvent ==
  /\ stream # <<>>
  /\ stream' = <<>>
  /\ answers' = Append(answers, <<Head(stream), "answered">>) \o Dropped(Tail(stream))
  /\ UNCHANGED <<requests, retries, incoming, lost, late>>

ArriveInStream(subscribed) ==
  /\ incoming # <<>>
  /\ subscribed
  /\ incoming' = Tail(incoming)
  /\ stream' = Append(stream, Head(incoming))
  /\ UNCHANGED <<requests, retries, answers, lost, late>>

(* Without an event stream, which the test does not have yet or any more, a     *)
(* request is dropped; without a process it is not even received.               *)
ArriveUnheard(subscribed, listened, up) ==
  /\ incoming # <<>>
  /\ ~subscribed
  /\ incoming' = Tail(incoming)
  /\ answers' = IF up THEN answers \o Dropped(<<Head(incoming)>>) ELSE answers
  /\ lost' = (lost \/ ~listened)
  /\ UNCHANGED <<requests, retries, stream, late>>

(* A response to a request that has ended is ignored.                           *)
ReceiveAnswer ==
  /\ answers # <<>>
  /\ answers' = Tail(answers)
  /\ LET a == Head(answers)
     IN  requests' = [requests EXCEPT ![a[1]] = IF @ = "pending" THEN a[2] ELSE @]
  /\ UNCHANGED <<retries, incoming, stream, lost, late>>

(* What node 2 has not sent yet is lost when its process ends.                  *)
LoseAnswer(up) ==
  /\ ~up
  /\ answers # <<>>
  /\ answers' = SubSeq(answers, 1, Len(answers) - 1)
  /\ UNCHANGED <<requests, retries, incoming, stream, lost, late>>

(* The request, its event or its response is still on its way.                  *)
Due(r) ==
  \/ \E k \in DOMAIN incoming : incoming[k] = r
  \/ \E k \in DOMAIN stream : stream[k] = r
  \/ \E k \in DOMAIN answers : answers[k][1] = r

(* request_timeout: the request is sent again, and fails after the last retry.  *)
Retry(r) ==
  /\ requests[r] = "pending"
  /\ retries[r] < MaxRetries
  /\ retries' = [retries EXCEPT ![r] = @ + 1]
  /\ incoming' = Append(incoming, r)
  /\ UNCHANGED <<requests, stream, answers, lost, late>>

Fail(r) ==
  /\ requests[r] = "pending"
  /\ retries[r] = MaxRetries
  /\ late' = (late \/ Due(r))
  /\ requests' = [requests EXCEPT ![r] = "failed"]
  /\ UNCHANGED <<retries, incoming, stream, answers, lost>>

Deliver(subscribed, listened, up) ==
  \/ ArriveInStream(subscribed) \/ ArriveUnheard(subscribed, listened, up)
  \/ ReceiveAnswer \/ LoseAnswer(up)

TimeOut(r) == Retry(r) \/ Fail(r)
================================================================================
