------------------------------ MODULE MockHandler ------------------------------
(* The handler task of the mock node, src/mock/handler.rs: one tokio task that  *)
(* owns the challenges, the sessions and the captured requests, takes one       *)
(* packet at a time from its channels, and runs the actions that its behaviours *)
(* prescribe for that packet to the end before it takes the next one.           *)
(*                                                                              *)
(* Every panic!, unwrap, expect, todo! and unreachable! of the code kills this  *)
(* task alone: the rest of the process goes on without it.                      *)
(*                                                                              *)
(* A definition is preceded, where a property is tested against a wrong version *)
(* of it, by that wrong version (IdleWithoutAwait, MapGet and so on): no other   *)
(* definition uses it.                                                          *)
EXTENDS MockSession, Sequences

CONSTANTS
  Mode,         \* the variant of Behaviours: "Declarative" or "Sequential"
  Declarative,  \* DeclarativeBehaviour: from a class of packets to actions
  Script,       \* the queue of behaviours a sequential mock starts with
  RecvCap,      \* capacity of the channel from RecvHandler (30 in the code)
  SendCap       \* capacity of the channel to SendHandler (30 in the code)

Classes == {"whoareyou", "handshake", "message", "message_without_session"}
Requests == {"Ping", "FindNode", "Talk"}

(* The capturing index of a custom response is 0-based, as in the code; "ids"   *)
(* lists the responses of a SendResponse(Custom(..)) and is empty elsewhere.    *)
Actions ==
  [op : {"Ignore", "SendWhoAreYou", "EstablishSession", "RespondDefault",
         "CaptureRequest"}, ids : {<<>>}]
  \cup [op : {"RespondCustom"}, ids : Seq(Nat) \ {<<>>}]

Expects ==
  [kind : {"WhoAreYou", "MessageWithoutSession"}, request : {None}]
  \cup [kind : {"Handshake", "Message"}, request : {"Ping", "FindNode"}]

ASSUME ModeAssumption == Mode \in {"Declarative", "Sequential"}
ASSUME DeclarativeAssumption == Declarative \in [Classes -> Seq(Actions)]
ASSUME ScriptAssumption ==
  Script \in Seq([expect : Expects, actions : Seq(Actions)])
ASSUME CapAssumption == RecvCap \in Nat \ {0} /\ SendCap \in Nat \ {0}

VARIABLES
  handler,            \* "running", or "panicked" once the task has died
  behaviours,         \* what is left of the script
  active_challenges,  \* by peer: the last WHOAREYOU it has not answered, or None
  sessions,           \* by peer: the session established with it, or None
  captured_requests,  \* ids of the requests captured so far
  turn,               \* the packet being handled and its actions to do, or None
  from_mock,          \* requests of the scenario: random packets to send
  recv_ch,            \* inbound packets, from RecvHandler
  send_ch,            \* outbound packets, to SendHandler
  sender,             \* SendHandler: "running" or "panicked"
  next_challenge,     \* id-nonces drawn so far: each draw is fresh
  sent,               \* history: every packet put on send_ch
  served              \* history: the sources of the packets the script accepted

handlerVars == <<handler, behaviours, active_challenges, sessions,
                 captured_requests, turn, from_mock, recv_ch, send_ch, sender,
                 next_challenge, sent, served>>

Ids == [peer : Peers, n : Nat]

(* One record for the three kinds of inbound packets.  "id" names the request   *)
(* and the nonce of the packet; "ephem" and "enr" (whether a record came with   *)
(* it) matter to a handshake, and "key" is None for bytes that were not sealed. *)
InboundPackets ==
  [src : Peers, kind : {"Message", "WhoAreYou", "Handshake"}, id : Ids,
   ephem : Nat, enr : BOOLEAN, key : Keys \cup {None},
   body : Requests \cup {"Response"}]

(* A WHOAREYOU echoes the id of the packet it answers and carries a challenge;  *)
(* a response carries the id of the request and the nonce it was sealed with.   *)
OutboundPackets ==
  [kind : {"Random"}, dst : Peers]
  \cup [kind : {"WhoAreYou"}, dst : Peers, id : Ids, challenge : Nat,
        enr_seq : {0}]
  \cup [kind : {"Response"}, dst : Peers, id : Ids, key : Keys, counter : Nat]

Turns == [packet : InboundPackets, actions : Seq(Actions) \ {<<>>}]

ASSUME TurnAssumption == None \notin Turns

HandlerTypeOK ==
  /\ handler \in {"running", "panicked"}
  /\ behaviours \in Seq([expect : Expects, actions : Seq(Actions)])
  /\ active_challenges \in [Peers -> Nat \cup {None}]
  /\ sessions \in [Peers -> Session \cup {None}]
  /\ captured_requests \in Seq(Ids)
  /\ turn \in Turns \cup {None}
  /\ from_mock \in Seq(Peers)
  /\ recv_ch \in Seq(InboundPackets)
  /\ send_ch \in Seq(OutboundPackets)
  /\ sender \in {"running", "panicked"}
  /\ next_challenge \in Nat
  /\ sent \in Seq(OutboundPackets)
  /\ served \in Seq(Peers)

HandlerInit ==
  /\ handler = "running"
  /\ behaviours = IF Mode = "Sequential" THEN Script ELSE <<>>
  /\ active_challenges = [p \in Peers |-> None]
  /\ sessions = [p \in Peers |-> None]
  /\ captured_requests = <<>>
  /\ turn = None
  /\ from_mock = <<>> /\ recv_ch = <<>> /\ send_ch = <<>>
  /\ sender = "running"
  /\ next_challenge = 0
  /\ sent = <<>> /\ served = <<>>
--------------------------------------------------------------------------------
(* HashMap::insert and HashMap::remove.                                         *)
MapInsertIfAbsent(map, key, value) ==
  IF map[key] = None THEN [map EXCEPT ![key] = value] ELSE map
MapInsert(map, key, value) == [map EXCEPT ![key] = value]

MapGet(map, key) == map
MapRemove(map, key) == [map EXCEPT ![key] = None]

(* A send on the channel of a dead SendHandler fails at once.                   *)
NeverClosed == FALSE
SendClosed == sender = "panicked"

(* Sending awaits a place in the channel to SendHandler.                        *)
Send(packet) ==
  /\ sender = "running"
  /\ Len(send_ch) < SendCap
  /\ send_ch' = Append(send_ch, packet)
  /\ sent' = Append(sent, packet)

(* A panic drops the Handler, and with it the receiving ends of its channels.   *)
(* SendHandler keeps what it was given.                                         *)
Panic ==
  /\ handler' = "panicked"
  /\ turn' = None
  /\ from_mock' = <<>>
  /\ recv_ch' = <<>>
  /\ UNCHANGED <<behaviours, active_challenges, sessions, captured_requests,
                 send_ch, sender, next_challenge, sent, served>>

IdleWithoutAwait == handler = "running"
Idle == handler = "running" /\ turn = None

BeginWithoutEnd(packet, actions) ==
  turn' = [packet |-> packet, actions |-> actions]
Begin(packet, actions) ==
  turn' = IF actions = <<>> THEN None
          ELSE [packet |-> packet, actions |-> actions]

(* The action at hand is done: the turn goes on with the next one, or ends.     *)
NextAction == Begin(turn.packet, Tail(turn.actions))
--------------------------------------------------------------------------------
(* A request of the scenario.  A dead SendHandler costs a warning here.         *)
ProcessHandlerRequest ==
  /\ Idle
  /\ from_mock # <<>>
  /\ from_mock' = Tail(from_mock)
  /\ \/ Send([kind |-> "Random", dst |-> Head(from_mock)])
     \/ SendClosed /\ UNCHANGED <<send_ch, sent>>
  /\ UNCHANGED <<handler, behaviours, active_challenges, sessions,
                 captured_requests, turn, recv_ch, sender, next_challenge, served>>

Class(packet) ==
  CASE packet.kind = "WhoAreYou" -> "whoareyou"
    [] packet.kind = "Handshake" -> "handshake"
    [] OTHER -> IF sessions[packet.src] # None THEN "message"
                ELSE "message_without_session"

ProcessDeclarative ==
  /\ Mode = "Declarative"
  /\ Idle
  /\ recv_ch # <<>>
  /\ recv_ch' = Tail(recv_ch)
  /\ Begin(Head(recv_ch), Declarative[Class(Head(recv_ch))])
  /\ UNCHANGED <<handler, behaviours, active_challenges, sessions,
                 captured_requests, from_mock, send_ch, sender, next_challenge,
                 sent, served>>

(* The temporary session of the handshake arm, made from the active challenge.  *)
Candidate(packet) ==
  EstablishFromChallenge(packet.src, active_challenges[packet.src], packet.ephem)

(* A handshake must answer an active challenge, bring the peer's record and     *)
(* seal the request that the script expects under the keys it leads to.         *)
HandshakeFitsUnread(packet, expect) ==
  /\ packet.kind = "Handshake" /\ expect.kind = "Handshake"
  /\ active_challenges[packet.src] # None
  /\ packet.body = expect.request

HandshakeFits(packet, expect) ==
  /\ packet.kind = "Handshake" /\ expect.kind = "Handshake"
  /\ active_challenges[packet.src] # None
  /\ packet.enr
  /\ Opens(Candidate(packet), packet)
  /\ packet.body = expect.request

MessageFits(packet, expect) ==
  /\ packet.kind = "Message" /\ expect.kind = "Message"
  /\ sessions[packet.src] # None
  /\ Opens(sessions[packet.src], packet)
  /\ packet.body = expect.request

Fits(packet, expect) ==
  \/ packet.kind = "WhoAreYou" /\ expect.kind = "WhoAreYou"
  \/ HandshakeFits(packet, expect)
  \/ /\ packet.kind = "Message" /\ expect.kind = "MessageWithoutSession"
     /\ sessions[packet.src] = None
  \/ MessageFits(packet, expect)

ProcessSequential ==
  /\ Mode = "Sequential"
  /\ Idle
  /\ recv_ch # <<>> /\ behaviours # <<>>
  /\ Fits(Head(recv_ch), Head(behaviours).expect)
  /\ recv_ch' = Tail(recv_ch)
  /\ behaviours' = Tail(behaviours)
  /\ served' = Append(served, Head(recv_ch).src)
  /\ Begin(Head(recv_ch), Head(behaviours).actions)
  /\ UNCHANGED <<handler, active_challenges, sessions, captured_requests,
                 from_mock, send_ch, sender, next_challenge, sent>>

(* Any packet the script does not expect next, and any packet after its end.    *)
(* The entry that was popped for the packet dies with the handler.              *)
RejectSequential ==
  /\ Mode = "Sequential"
  /\ Idle
  /\ recv_ch # <<>>
  /\ behaviours # <<>> => ~Fits(Head(recv_ch), Head(behaviours).expect)
  /\ Panic
--------------------------------------------------------------------------------
(* do_actions: the loop body, one step for each action and one for each custom  *)
(* response.                                                                    *)
Acts(op) == handler = "running" /\ turn # None /\ Head(turn.actions).op = op

Ignore ==
  /\ Acts("Ignore")
  /\ NextAction
  /\ UNCHANGED <<handler, behaviours, active_challenges, sessions,
                 captured_requests, from_mock, recv_ch, send_ch, sender,
                 next_challenge, sent, served>>

(* Drawn, sent, and only then entered as the active challenge of the peer, in   *)
(* place of any earlier one.  The WHOAREYOU asks for the peer's record.         *)
SendChallenge ==
  /\ Acts("SendWhoAreYou")
  /\ turn.packet.kind # "WhoAreYou"
  /\ Send([kind |-> "WhoAreYou", dst |-> turn.packet.src, id |-> turn.packet.id,
           challenge |-> next_challenge, enr_seq |-> 0])
  /\ next_challenge' = next_challenge + 1
  /\ active_challenges' = MapInsert(active_challenges, turn.packet.src, next_challenge)
  /\ NextAction
  /\ UNCHANGED <<handler, behaviours, sessions, captured_requests, from_mock,
                 recv_ch, sender, served>>

(* The challenge is used up, and replaced by the session it led to.             *)
EstablishSession ==
  /\ Acts("EstablishSession")
  /\ turn.packet.kind = "Handshake"
  /\ active_challenges[turn.packet.src] # None
  /\ turn.packet.enr
  /\ active_challenges' = MapRemove(active_challenges, turn.packet.src)
  /\ sessions' = MapInsert(sessions, turn.packet.src, Candidate(turn.packet))
  /\ NextAction
  /\ UNCHANGED <<handler, behaviours, captured_requests, from_mock, recv_ch,
                 send_ch, sender, next_challenge, sent, served>>

(* The packet's request can be read with the session of its source.             *)
ReadsRequest(packet) ==
  /\ packet.kind # "WhoAreYou"
  /\ sessions[packet.src] # None
  /\ Opens(sessions[packet.src], packet)
  /\ packet.body # "Response"

CaptureRequest ==
  /\ Acts("CaptureRequest")
  /\ ReadsRequest(turn.packet)
  /\ captured_requests' = Append(captured_requests, turn.packet.id)
  /\ NextAction
  /\ UNCHANGED <<handler, behaviours, active_challenges, sessions, from_mock,
                 recv_ch, send_ch, sender, next_challenge, sent, served>>

(* encrypt_message advances the session in the map, then the packet is sent.    *)
SendResponse(peer, id) ==
  LET session == Advanced(sessions[peer])
  IN  /\ sessions' = [sessions EXCEPT ![peer] = session]
      /\ Send([kind |-> "Response", dst |-> peer, id |-> id,
               key |-> session.encryption_key, counter |-> session.counter])
      /\ UNCHANGED <<handler, behaviours, active_challenges, captured_requests,
                     from_mock, recv_ch, sender, next_challenge, served>>

(* Only a PING has a default response.                                          *)
SendDefaultResponse ==
  /\ Acts("RespondDefault")
  /\ ReadsRequest(turn.packet)
  /\ turn.packet.body = "Ping"
  /\ SendResponse(turn.packet.src, turn.packet.id)
  /\ NextAction

(* The request a custom response answers is looked up by its capturing index.   *)
CapturedIdFromEnd(index) == captured_requests[Len(captured_requests) - index]
CapturedId(index) == captured_requests[index + 1]

SendCustomResponse ==
  /\ Acts("RespondCustom")
  /\ ReadsRequest(turn.packet)
  /\ Head(Head(turn.actions).ids) < Len(captured_requests)
  /\ SendResponse(turn.packet.src, CapturedId(Head(Head(turn.actions).ids)))
  /\ LET rest == Tail(Head(turn.actions).ids)
     IN  IF rest = <<>> THEN NextAction
         ELSE Begin(turn.packet,
                    <<[op |-> "RespondCustom", ids |-> rest]>> \o Tail(turn.actions))

(* What makes the action at hand panic: a packet kind it is unreachable! for, a *)
(* missing challenge, record, session or captured request, a message that does  *)
(* not open, a response where a request is due, a request without a default     *)
(* response (todo!), or a SendHandler that is gone.                             *)
ActionPanics(action, packet) ==
  \/ action.op # "Ignore" /\ packet.kind = "WhoAreYou"
  \/ /\ action.op = "EstablishSession"
     /\ \/ packet.kind # "Handshake"
        \/ active_challenges[packet.src] = None
        \/ ~packet.enr
  \/ /\ action.op \in {"RespondDefault", "RespondCustom", "CaptureRequest"}
     /\ ~ReadsRequest(packet)
  \/ action.op = "RespondDefault" /\ packet.body # "Ping"
  \/ action.op = "RespondCustom" /\ Head(action.ids) >= Len(captured_requests)
  \/ /\ action.op \in {"SendWhoAreYou", "RespondDefault", "RespondCustom"}
     /\ SendClosed

PanicInTurn ==
  /\ handler = "running"
  /\ turn # None
  /\ ActionPanics(Head(turn.actions), turn.packet)
  /\ Panic

DoAction ==
  \/ Ignore \/ SendChallenge \/ EstablishSession \/ CaptureRequest
  \/ SendDefaultResponse \/ SendCustomResponse \/ PanicInTurn

HandlerStep ==
  \/ ProcessHandlerRequest
  \/ ProcessDeclarative \/ ProcessSequential \/ RejectSequential
  \/ DoAction
================================================================================
