------------------------------- MODULE MockProofs -------------------------------
(* Type correctness of MockSystem; that no key of the mock seals two responses  *)
(* with one counter; that the mock keeps the latest challenge of each peer, and *)
(* only sessions whose keys the peer has derived as well, for every script that *)
(* establishes before it challenges; that a sequential mock implements the peer *)
(* that its script describes, and answers no request twice unless the script    *)
(* asks for it: for every set of peers, every script or table of behaviours,    *)
(* and every capacity and bound.  Then the two test cases with a mock: that     *)
(* they are runs of MockSystem; their types; what success means in the sandbox, *)
(* and that the script of whoareyou-timeout starts as planned.                  *)
EXTENDS Sandbox, WhoAreYouTimeout, TestCaseProofs, SequenceTheorems, TLAPS

(* Sessions made from a challenge, and sessions advanced, are sessions.         *)
LEMMA SessionTypes ==
  /\ \A p \in Peers, c \in Nat, e \in Nat : EstablishFromChallenge(p, c, e) \in Session
  /\ \A s \in Session : Advanced(s) \in Session /\ Advanced(s).encryption_key \in Keys
                        /\ Advanced(s).counter \in Nat
  BY SMT DEF EstablishFromChallenge, Session, Keys, Secrets, InitiatorKey,
             RecipientKey, Advanced

(* The fields of an inbound packet.                                             *)
LEMMA InboundFields ==
  ASSUME NEW packet \in InboundPackets
  PROVE  /\ packet.src \in Peers /\ packet.id \in Ids /\ packet.ephem \in Nat
         /\ packet.body \in Requests \cup {"Response"}
  BY DEF InboundPackets

(* The three packets that the mock makes are outbound packets.                  *)
LEMMA OutboundFields ==
  /\ \A p \in OutboundPackets : p.dst \in Peers
  /\ \A p \in Peers : [kind |-> "Random", dst |-> p] \in OutboundPackets
  /\ \A p \in Peers, id \in Ids, c \in Nat :
       [kind |-> "WhoAreYou", dst |-> p, id |-> id, challenge |-> c, enr_seq |-> 0]
         \in OutboundPackets
  /\ \A p \in Peers, id \in Ids, k \in Keys, n \in Nat :
       [kind |-> "Response", dst |-> p, id |-> id, key |-> k, counter |-> n]
         \in OutboundPackets
  BY DEF OutboundPackets

(* A custom response that has given its first answer is one still.              *)
LEMMA ActionFields ==
  ASSUME NEW a \in Actions, a.op = "RespondCustom"
  PROVE  /\ Head(a.ids) \in Nat
         /\ Tail(a.ids) # <<>> =>
              [op |-> "RespondCustom", ids |-> Tail(a.ids)] \in Actions
<1>1. a.ids \in Seq(Nat) /\ a.ids # <<>>
  BY DEF Actions
<1>2. Head(a.ids) \in Nat /\ Tail(a.ids) \in Seq(Nat)
  BY <1>1, HeadTailProperties
<1> QED
  BY <1>2 DEF Actions

(* A turn starts, or goes on, with a list of actions: it has a type either way. *)
LEMMA BeginType ==
  ASSUME NEW packet \in InboundPackets, NEW actions \in Seq(Actions),
         Begin(packet, actions)
  PROVE  turn' \in Turns \cup {None}
  BY DEF Begin, Turns

(* A turn that goes on is a turn, or ends.                                      *)
LEMMA NextActionType ==
  ASSUME turn \in Turns, NextAction
  PROVE  turn' \in Turns \cup {None}
<1>1. turn.packet \in InboundPackets /\ turn.actions \in Seq(Actions)
      /\ turn.actions # <<>>
  BY DEF Turns
<1>2. Tail(turn.actions) \in Seq(Actions)
  BY <1>1, HeadTailProperties
<1> QED
  BY <1>1, <1>2, BeginType DEF NextAction

(* Sending adds an outbound packet to the channel and to the history.           *)
LEMMA SendType ==
  ASSUME HandlerTypeOK, NEW packet \in OutboundPackets, Send(packet)
  PROVE  send_ch' \in Seq(OutboundPackets) /\ sent' \in Seq(OutboundPackets)
  BY AppendProperties DEF Send, HandlerTypeOK

(* The initial state has the type.                                              *)
LEMMA InitType == Init => TypeOK
  BY ScriptAssumption DEF Init, HandlerInit, TypeOK, HandlerTypeOK
--------------------------------------------------------------------------------
(* So has the state after a panic.                                              *)
LEMMA PanicType == TypeOK /\ Panic /\ UNCHANGED <<udp_in, wire, peerVars, randoms>> => TypeOK'
  BY DEF TypeOK, HandlerTypeOK, Panic, peerVars

(* The packet in hand, when a turn is under way.                                *)
LEMMA TurnFields ==
  ASSUME HandlerTypeOK, turn # None
  PROVE  /\ turn \in Turns /\ turn.packet \in InboundPackets
         /\ turn.packet.src \in Peers /\ turn.packet.id \in Ids
         /\ turn.packet.ephem \in Nat
         /\ turn.actions \in Seq(Actions) /\ turn.actions # <<>>
         /\ Head(turn.actions) \in Actions /\ Tail(turn.actions) \in Seq(Actions)
<1>1. turn \in Turns
  BY DEF HandlerTypeOK
<1>2. turn.packet \in InboundPackets /\ turn.actions \in Seq(Actions)
      /\ turn.actions # <<>>
  BY <1>1 DEF Turns
<1>3. Head(turn.actions) \in Actions /\ Tail(turn.actions) \in Seq(Actions)
  BY <1>2, HeadTailProperties
<1> QED
  BY <1>1, <1>2, <1>3, InboundFields
--------------------------------------------------------------------------------
(* Each step of the handler preserves the types of the handler's variables.     *)
LEMMA TakeRequestType ==
  ASSUME HandlerTypeOK, ProcessHandlerRequest
  PROVE  HandlerTypeOK'
<1>1. Head(from_mock) \in Peers /\ from_mock' \in Seq(Peers)
  BY HeadTailProperties DEF HandlerTypeOK, ProcessHandlerRequest
<1>2. send_ch' \in Seq(OutboundPackets) /\ sent' \in Seq(OutboundPackets)
  <2>1. [kind |-> "Random", dst |-> Head(from_mock)] \in OutboundPackets
    BY <1>1, OutboundFields
  <2> QED
    BY <2>1, SendType DEF ProcessHandlerRequest, HandlerTypeOK
<1> QED
  BY <1>1, <1>2 DEF HandlerTypeOK, ProcessHandlerRequest

(* Taking a packet for a turn, by a table or by the script (start).             *)
LEMMA TakePacketType ==
  ASSUME HandlerTypeOK, ProcessDeclarative \/ ProcessSequential
  PROVE  HandlerTypeOK'
<1>1. Head(recv_ch) \in InboundPackets /\ recv_ch' \in Seq(InboundPackets)
  BY HeadTailProperties DEF HandlerTypeOK, ProcessDeclarative, ProcessSequential
<1>2. CASE ProcessDeclarative
  <2>1. Class(Head(recv_ch)) \in Classes
    BY DEF Class, Classes
  <2>2. Declarative[Class(Head(recv_ch))] \in Seq(Actions)
    BY <2>1, DeclarativeAssumption
  <2>3. turn' \in Turns \cup {None}
    BY <1>1, <1>2, <2>2, BeginType DEF ProcessDeclarative
  <2> QED
    BY <1>1, <1>2, <2>3 DEF HandlerTypeOK, ProcessDeclarative
<1>3. CASE ProcessSequential
  <2> DEFINE Entries == [expect : Expects, actions : Seq(Actions)]
  <2>1. behaviours \in Seq(Entries) /\ behaviours # <<>>
    BY <1>3 DEF HandlerTypeOK, ProcessSequential
  <2>2. Head(behaviours) \in Entries /\ behaviours' \in Seq(Entries)
    BY <2>1, <1>3, HeadTailProperties DEF ProcessSequential
  <2>3. turn' \in Turns \cup {None}
    <3>1. Head(behaviours).actions \in Seq(Actions)
      BY <2>2
    <3> QED
      BY <1>1, <1>3, <3>1, BeginType DEF ProcessSequential
  <2>4. served' \in Seq(Peers)
    <3>1. Head(recv_ch).src \in Peers
      BY <1>1, InboundFields
    <3> QED
      BY <1>3, <3>1, AppendProperties DEF HandlerTypeOK, ProcessSequential
  <2> QED
    BY <1>1, <1>3, <2>2, <2>3, <2>4 DEF HandlerTypeOK, ProcessSequential
<1> QED
  BY <1>2, <1>3

(* send_response, with the session it advances.                                 *)
LEMMA SendResponseType ==
  ASSUME HandlerTypeOK, NEW p \in Peers, NEW id \in Ids, sessions[p] # None,
         SendResponse(p, id), turn' \in Turns \cup {None}
  PROVE  HandlerTypeOK'
<1> DEFINE s == Advanced(sessions[p])
           packet == [kind |-> "Response", dst |-> p, id |-> id,
                      key |-> s.encryption_key, counter |-> s.counter]
<1>1. sessions[p] \in Session
  BY DEF HandlerTypeOK
<1>2. s \in Session /\ packet \in OutboundPackets
  BY <1>1, SessionTypes, OutboundFields
<1>3. sessions' \in [Peers -> Session \cup {None}]
  BY <1>2 DEF HandlerTypeOK, SendResponse
<1>4. send_ch' \in Seq(OutboundPackets) /\ sent' \in Seq(OutboundPackets)
  BY <1>2, SendType DEF SendResponse
<1> QED
  BY <1>3, <1>4 DEF HandlerTypeOK, SendResponse

(* Each of the actions of do_actions.                                           *)
LEMMA DoActionType ==
  ASSUME HandlerTypeOK, DoAction, ~PanicInTurn
  PROVE  HandlerTypeOK'
<1>1. turn # None
  BY DEF DoAction, Ignore, SendChallenge, EstablishSession, CaptureRequest,
         SendDefaultResponse, SendCustomResponse, Acts
<1> DEFINE p == turn.packet.src
<1>2. /\ turn \in Turns /\ turn.packet \in InboundPackets
      /\ p \in Peers /\ turn.packet.id \in Ids /\ turn.packet.ephem \in Nat
      /\ turn.actions \in Seq(Actions) /\ turn.actions # <<>>
      /\ Head(turn.actions) \in Actions /\ Tail(turn.actions) \in Seq(Actions)
  BY <1>1, TurnFields
<1> HIDE DEF p
<1>3. ASSUME Ignore PROVE HandlerTypeOK'
  BY <1>2, <1>3, NextActionType DEF Ignore, HandlerTypeOK
<1>4. ASSUME SendChallenge PROVE HandlerTypeOK'
  <2> DEFINE w == [kind |-> "WhoAreYou", dst |-> p, id |-> turn.packet.id,
                   challenge |-> next_challenge, enr_seq |-> 0]
  <2>1. next_challenge \in Nat /\ next_challenge' \in Nat
    BY <1>4 DEF HandlerTypeOK, SendChallenge
  <2>2. send_ch' \in Seq(OutboundPackets) /\ sent' \in Seq(OutboundPackets)
    <3>1. w \in OutboundPackets
      BY <1>2, <2>1, OutboundFields
    <3> QED
      BY <1>4, <3>1, SendType DEF SendChallenge, p
  <2>3. active_challenges' \in [Peers -> Nat \cup {None}]
    BY <1>2, <1>4, <2>1 DEF HandlerTypeOK, SendChallenge, MapInsert
  <2>4. turn' \in Turns \cup {None}
    BY <1>2, <1>4, NextActionType DEF SendChallenge
  <2> QED
    BY <1>4, <2>1, <2>2, <2>3, <2>4 DEF HandlerTypeOK, SendChallenge
<1>5. ASSUME EstablishSession PROVE HandlerTypeOK'
  <2>1. active_challenges[p] \in Nat
    BY <1>2, <1>5 DEF HandlerTypeOK, EstablishSession, p
  <2>2. Candidate(turn.packet) \in Session
    BY <1>2, <2>1, SessionTypes DEF Candidate, p
  <2>3. /\ active_challenges' \in [Peers -> Nat \cup {None}]
        /\ sessions' \in [Peers -> Session \cup {None}]
    BY <1>5, <2>2 DEF HandlerTypeOK, EstablishSession, MapRemove, MapInsert
  <2>4. turn' \in Turns \cup {None}
    BY <1>2, <1>5, NextActionType DEF EstablishSession
  <2> QED
    BY <1>5, <2>3, <2>4 DEF HandlerTypeOK, EstablishSession
<1>6. ASSUME CaptureRequest PROVE HandlerTypeOK'
  <2>1. captured_requests' \in Seq(Ids)
    BY <1>2, <1>6, AppendProperties DEF HandlerTypeOK, CaptureRequest
  <2> QED
    BY <1>2, <1>6, <2>1, NextActionType DEF HandlerTypeOK, CaptureRequest
<1>7. ASSUME SendDefaultResponse PROVE HandlerTypeOK'
  <2>1. turn' \in Turns \cup {None} /\ sessions[p] # None
    BY <1>2, <1>7, NextActionType DEF SendDefaultResponse, ReadsRequest, p
  <2> QED
    BY <1>2, <1>7, <2>1, SendResponseType DEF SendDefaultResponse, p
<1>8. ASSUME SendCustomResponse PROVE HandlerTypeOK'
  <2> DEFINE ids == Head(turn.actions).ids
  <2>1. Head(turn.actions).op = "RespondCustom" /\ sessions[p] # None
    BY <1>8 DEF SendCustomResponse, Acts, ReadsRequest, p
  <2>2. /\ Head(ids) \in Nat
        /\ Tail(ids) # <<>> => [op |-> "RespondCustom", ids |-> Tail(ids)] \in Actions
    BY <1>2, <2>1, ActionFields
  <2>3. CapturedId(Head(ids)) \in Ids
    <3>1. captured_requests \in Seq(Ids) /\ Head(ids) < Len(captured_requests)
      BY <1>8 DEF HandlerTypeOK, SendCustomResponse
    <3> HIDE DEF ids
    <3>2. Head(ids) + 1 \in 1..Len(captured_requests)
      BY <2>2, <3>1
    <3> QED
      BY <3>1, <3>2 DEF CapturedId
  <2>4. turn' \in Turns \cup {None}
    <3>1. CASE Tail(ids) = <<>>
      BY <1>2, <1>8, <3>1, NextActionType DEF SendCustomResponse
    <3>2. CASE Tail(ids) # <<>>
      <4> DEFINE again == <<[op |-> "RespondCustom", ids |-> Tail(ids)]>>
      <4>1. again \in Seq(Actions)
        BY <2>2, <3>2
      <4>2. again \o Tail(turn.actions) \in Seq(Actions)
        BY <1>2, <4>1, ConcatProperties
      <4>3. Begin(turn.packet, again \o Tail(turn.actions))
        BY <1>8, <3>2 DEF SendCustomResponse
      <4> QED
        BY <1>2, <4>2, <4>3, BeginType
    <3> QED
      BY <3>1, <3>2
  <2> QED
    BY <1>2, <1>8, <2>1, <2>3, <2>4, SendResponseType DEF SendCustomResponse, p
<1> QED
  BY <1>3, <1>4, <1>5, <1>6, <1>7, <1>8 DEF DoAction
--------------------------------------------------------------------------------
(* The steps of the socket tasks and of the peers.                              *)
LEMMA TransmitType ==
  ASSUME udp_in \in Seq(InboundPackets), NEW packet \in InboundPackets,
         Transmit(packet)
  PROVE  udp_in' \in Seq(InboundPackets)
  BY AppendProperties DEF Transmit

(* A packet that arrives at a peer, and what is left on its way.                *)
LEMMA TakenType ==
  ASSUME wire \in [Peers -> Seq(OutboundPackets)], NEW p \in Peers, NEW kind,
         Arrives(p, kind)
  PROVE  /\ Head(wire[p]) \in OutboundPackets
         /\ Taken(p) => wire' \in [Peers -> Seq(OutboundPackets)]
<1>1. wire[p] \in Seq(OutboundPackets) /\ wire[p] # <<>>
  BY DEF Arrives
<1>2. Head(wire[p]) \in OutboundPackets /\ Tail(wire[p]) \in Seq(OutboundPackets)
  BY <1>1, HeadTailProperties
<1> QED
  BY <1>2 DEF Taken

(* The packets that the peers make are inbound packets.                         *)
LEMMA PacketType ==
  ASSUME NEW p \in Peers, NEW kind \in {"Message", "WhoAreYou", "Handshake"},
         NEW id \in Ids, NEW ephem \in Nat, NEW enr \in BOOLEAN,
         NEW key \in Keys \cup {None}, NEW body \in Requests \cup {"Response"}
  PROVE  Packet(p, kind, id, ephem, enr, key, body) \in InboundPackets
  BY DEF Packet, InboundPackets

(* The steps of the two socket tasks.                                           *)
LEMMA SocketType ==
  ASSUME TypeOK, RecvHandler \/ SendHandler \/ SendHandlerPanics
  PROVE  TypeOK'
<1>1. CASE RecvHandler
  <2>1. Head(udp_in) \in InboundPackets /\ udp_in' \in Seq(InboundPackets)
    BY <1>1, HeadTailProperties DEF TypeOK, RecvHandler
  <2>2. recv_ch' \in Seq(InboundPackets)
    <3>1. recv_ch' = recv_ch \/ recv_ch' = Append(recv_ch, Head(udp_in))
      BY <1>1 DEF RecvHandler
    <3>2. recv_ch \in Seq(InboundPackets)
      BY DEF TypeOK, HandlerTypeOK
    <3> QED
      BY <2>1, <3>1, <3>2, AppendProperties
  <2> QED
    BY <1>1, <2>1, <2>2 DEF TypeOK, HandlerTypeOK, RecvHandler, peerVars
<1>2. CASE SendHandler
  <2>1. Head(send_ch) \in OutboundPackets /\ send_ch' \in Seq(OutboundPackets)
    BY <1>2, HeadTailProperties DEF TypeOK, HandlerTypeOK, SendHandler
  <2>2. \A p \in Peers : Append(wire[p], Head(send_ch)) \in Seq(OutboundPackets)
    BY <2>1, AppendProperties DEF TypeOK
  <2>3. wire' \in [Peers -> Seq(OutboundPackets)]
    BY <1>2, <2>2 DEF TypeOK, SendHandler
  <2> QED
    BY <1>2, <2>1, <2>3 DEF TypeOK, HandlerTypeOK, SendHandler, peerVars
<1>3. CASE SendHandlerPanics
  BY <1>3 DEF TypeOK, HandlerTypeOK, SendHandlerPanics, peerVars
<1> QED
  BY <1>1, <1>2, <1>3

(* The fields of an active request.                                             *)
LEMMA ActiveFields ==
  ASSUME TypeOK, NEW p \in Peers, NEW r \in active[p]
  PROVE  /\ r \in ActiveRequests /\ r.packet \in InboundPackets
         /\ r.packet.id \in Ids /\ r.packet.body \in Requests \cup {"Response"}
<1>1. r \in ActiveRequests
  BY DEF TypeOK
<1>2. r.packet \in InboundPackets
  BY <1>1 DEF ActiveRequests
<1> QED
  BY <1>1, <1>2, InboundFields

(* A peer's new request.                                                        *)
LEMMA PeerSendsType ==
  ASSUME TypeOK, NEW p \in Peers, NEW body \in PeerBodies, PeerSendsRequest(p, body)
  PROVE  TypeOK'
<1> DEFINE id == [peer |-> p, n |-> next_id[p]]
           key == IF peer_session[p] = None THEN None
                  ELSE InitiatorKey(peer_session[p])
           packet == Packet(p, "Message", id, 0, FALSE, key, body)
           r == [packet |-> packet, retries |-> 0]
<1>1. id \in Ids /\ next_id' \in [Peers -> Nat]
  BY DEF TypeOK, Ids, PeerSendsRequest
<1>2. key \in Keys \cup {None}
  BY DEF TypeOK, Keys, InitiatorKey
<1>3. packet \in InboundPackets
  BY <1>1, <1>2, PacketType, SystemAssumption DEF Requests
<1>4. udp_in' \in Seq(InboundPackets)
  BY <1>3, TransmitType DEF TypeOK, PeerSendsRequest
<1>5. r \in ActiveRequests
  <2> HIDE DEF packet
  <2> QED
    BY <1>3, SystemAssumption DEF ActiveRequests
<1>6. active' \in [Peers -> SUBSET ActiveRequests]
  BY <1>5 DEF TypeOK, PeerSendsRequest
<1> QED
  BY <1>1, <1>4, <1>6 DEF TypeOK, HandlerTypeOK, PeerSendsRequest, handlerVars

(* A peer's retransmission, or its last timeout.                                *)
LEMMA PeerTimesOutType ==
  ASSUME TypeOK, NEW p \in Peers, NEW r \in active[p],
         PeerRetries(p, r) \/ PeerGivesUp(p, r)
  PROVE  TypeOK'
<1>1. r \in ActiveRequests /\ r.packet \in InboundPackets
  BY ActiveFields
<1>2. CASE PeerRetries(p, r)
  <2>1. udp_in' \in Seq(InboundPackets)
    BY <1>1, <1>2, TransmitType DEF TypeOK, PeerRetries
  <2>2. [r EXCEPT !.retries = @ + 1] \in ActiveRequests
    BY <1>1, <1>2, SystemAssumption DEF ActiveRequests, PeerRetries
  <2>3. active' \in [Peers -> SUBSET ActiveRequests]
    BY <1>2, <2>2 DEF TypeOK, PeerRetries
  <2> QED
    BY <1>2, <2>1, <2>3 DEF TypeOK, HandlerTypeOK, PeerRetries, handlerVars
<1>3. CASE PeerGivesUp(p, r)
  BY <1>3 DEF TypeOK, HandlerTypeOK, PeerGivesUp, handlerVars
<1> QED
  BY <1>2, <1>3

(* A peer's handshake.                                                          *)
LEMMA PeerAnswersType ==
  ASSUME TypeOK, NEW p \in Peers, PeerReceivesWhoAreYou(p)
  PROVE  TypeOK'
<1> DEFINE w == Head(wire[p])
           ephem == Len(derived[p])
           secret == [peer |-> p, challenge |-> w.challenge, ephem |-> ephem]
           packet(r) == Packet(p, "Handshake", w.id, ephem, w.enr_seq < PeerEnrSeq,
                               InitiatorKey(secret), r.packet.body)
<1>1. PICK r \in active[p] :
        /\ active' = [active EXCEPT ![p] =
                        (@ \ {r}) \cup {[r EXCEPT !.packet = packet(r)]}]
        /\ derived' = [derived EXCEPT ![p] = Append(@, secret)]
        /\ peer_session' = [peer_session EXCEPT ![p] = secret]
        /\ Transmit(packet(r))
  BY DEF PeerReceivesWhoAreYou
<1>2. w \in OutboundPackets /\ w.kind = "WhoAreYou"
      /\ wire' \in [Peers -> Seq(OutboundPackets)]
  BY TakenType DEF TypeOK, PeerReceivesWhoAreYou, Arrives
<1>3. w.id \in Ids /\ w.challenge \in Nat
  <2> HIDE DEF w
  <2> QED
    BY <1>2 DEF OutboundPackets
<1>4. secret \in Secrets
  BY <1>3 DEF TypeOK, Secrets
<1>5. packet(r) \in InboundPackets
  <2>1. InitiatorKey(secret) \in Keys
    BY <1>4 DEF Keys, InitiatorKey
  <2>2. ephem \in Nat /\ r.packet.body \in Requests \cup {"Response"}
    BY ActiveFields DEF TypeOK
  <2>3. (w.enr_seq < PeerEnrSeq) \in BOOLEAN
    OBVIOUS
  <2> QED
    BY <1>3, <2>1, <2>2, <2>3, PacketType
<1>6. [r EXCEPT !.packet = packet(r)] \in ActiveRequests
  BY <1>5, ActiveFields DEF ActiveRequests
<1> HIDE DEF packet, secret
<1>7. active' \in [Peers -> SUBSET ActiveRequests]
  BY <1>1, <1>6 DEF TypeOK
<1>8. /\ derived' \in [Peers -> Seq(Secrets)]
      /\ peer_session' \in [Peers -> Secrets \cup {None}]
  BY <1>1, <1>4, AppendProperties DEF TypeOK
<1>9. udp_in' \in Seq(InboundPackets)
  BY <1>1, <1>5, TransmitType DEF TypeOK
<1> QED
  BY <1>2, <1>7, <1>8, <1>9
  DEF TypeOK, HandlerTypeOK, PeerReceivesWhoAreYou, handlerVars

(* Whatever else a peer receives.                                               *)
LEMMA PeerReceivesType ==
  ASSUME TypeOK, NEW p \in Peers,
         \/ PeerRefusesWhoAreYou(p) \/ PeerReceivesResponse(p)
         \/ PeerReceivesUnreadable(p)
  PROVE  TypeOK'
<1>1. wire' \in [Peers -> Seq(OutboundPackets)]
  BY TakenType DEF TypeOK, PeerRefusesWhoAreYou, PeerReceivesResponse,
                   PeerReceivesUnreadable
<1>2. CASE PeerRefusesWhoAreYou(p)
  BY <1>1, <1>2 DEF TypeOK, HandlerTypeOK, PeerRefusesWhoAreYou, handlerVars
<1>3. CASE PeerReceivesResponse(p)
  BY <1>1, <1>3 DEF TypeOK, HandlerTypeOK, PeerReceivesResponse, handlerVars
<1>4. CASE PeerReceivesUnreadable(p)
  <2>1. Packet(p, "WhoAreYou", [peer |-> p, n |-> 0], 0, FALSE, None, "Ping")
          \in InboundPackets
    BY PacketType DEF Ids, Requests
  <2>2. udp_in' \in Seq(InboundPackets)
    BY <1>4, <2>1, TransmitType DEF TypeOK, PeerReceivesUnreadable
  <2> QED
    BY <1>1, <1>4, <2>2 DEF TypeOK, HandlerTypeOK, PeerReceivesUnreadable, handlerVars
<1> QED
  BY <1>2, <1>3, <1>4

(* Every step of the mock, of its sockets and of the peers keeps the types.     *)
LEMMA TypeStep == TypeOK /\ [Next]_vars => TypeOK'
<1> SUFFICES ASSUME TypeOK, [Next]_vars PROVE TypeOK'
  OBVIOUS
<1>1. CASE Handler
  <2>1. CASE RejectSequential \/ PanicInTurn
    BY <1>1, <2>1, PanicType DEF Handler, RejectSequential, PanicInTurn
  <2>2. CASE ~(RejectSequential \/ PanicInTurn)
    <3>1. HandlerTypeOK'
      BY <1>1, <2>2, TakeRequestType, TakePacketType, DoActionType
      DEF Handler, HandlerStep, TypeOK
    <3> QED
      BY <1>1, <3>1 DEF Handler, TypeOK, peerVars
  <2> QED
    BY <2>1, <2>2
<1>2. CASE RecvHandler \/ SendHandler \/ SendHandlerPanics
  BY <1>2, SocketType
<1>3. ASSUME NEW p \in Peers, SendRandomPacket(p) PROVE TypeOK'
  BY <1>3, AppendProperties DEF TypeOK, HandlerTypeOK, SendRandomPacket, peerVars
<1>4. ASSUME NEW p \in Peers, PeerStep(p) PROVE TypeOK'
  BY <1>4, PeerSendsType, PeerTimesOutType, PeerAnswersType, PeerReceivesType
  DEF PeerStep
<1>5. CASE UNCHANGED vars
  BY <1>5 DEF TypeOK, HandlerTypeOK, vars, handlerVars, peerVars
<1> QED
  BY <1>1, <1>2, <1>3, <1>4, <1>5 DEF Next

(* Every variable keeps its type: every record that the mock takes from a map   *)
(* or a queue is there and has the fields that the code reads from it.          *)
THEOREM TypeCorrect == Spec => []TypeOK
  BY InitType, TypeStep, PTL DEF Spec, SafetySpec
--------------------------------------------------------------------------------
(* NonceNeverReused.  It is not inductive by itself: a session could be left at *)
(* a counter that its key has already been used with, or be established anew    *)
(* from the challenge of an earlier one.  What excludes this is the life of a   *)
(* challenge: drawn fresh, held by one peer, and gone once it has become a key. *)
ChallengesAreFresh ==
  /\ \A p \in Peers : active_challenges[p] # None => active_challenges[p] < next_challenge
  /\ \A p \in Peers : sessions[p] # None =>
       /\ sessions[p].encryption_key.secret.peer = p
       /\ sessions[p].encryption_key.secret.challenge < next_challenge
       /\ sessions[p].encryption_key.secret.challenge # active_challenges[p]
  /\ \A i \in DOMAIN sent : sent[i].kind = "Response" =>
       /\ sent[i].key.secret.challenge < next_challenge
       /\ \A p \in Peers : sent[i].key.secret.peer = p =>
            sent[i].key.secret.challenge # active_challenges[p]

CountersCoverSent ==
  \A i \in DOMAIN sent, p \in Peers :
    /\ sent[i].kind = "Response"
    /\ sessions[p] # None
    /\ sent[i].key = sessions[p].encryption_key
    => sent[i].counter <= sessions[p].counter

NonceInv == ChallengesAreFresh /\ CountersCoverSent /\ NonceNeverReused

(* What a longer history holds: what it held before, and the packet just sent.  *)
LEMMA SentGrows ==
  ASSUME HandlerTypeOK, NEW packet \in OutboundPackets, Send(packet)
  PROVE  \A i \in DOMAIN sent' : \/ i \in DOMAIN sent /\ sent'[i] = sent[i]
                                 \/ i = Len(sent) + 1 /\ sent'[i] = packet
<1>1. sent \in Seq(OutboundPackets) /\ sent' = Append(sent, packet)
  BY DEF HandlerTypeOK, Send
<1>2. DOMAIN sent' = 1..(Len(sent) + 1) /\ DOMAIN sent = 1..Len(sent)
  BY <1>1, AppendProperties, LenProperties
<1> QED
  BY <1>1, <1>2, AppendProperties

(* The fields of a response in the history.                                     *)
LEMMA SentFields ==
  ASSUME HandlerTypeOK, NEW i \in DOMAIN sent, sent[i].kind = "Response"
  PROVE  /\ sent[i].key \in Keys /\ sent[i].key.secret.challenge \in Nat
         /\ sent[i].counter \in Nat
<1>1. sent[i] \in OutboundPackets
  BY LenProperties DEF HandlerTypeOK
<1>2. sent[i].key \in Keys /\ sent[i].counter \in Nat
  BY <1>1 DEF OutboundPackets
<1> QED
  BY <1>2 DEF Keys, Secrets

(* The fields of a session in the table.                                        *)
LEMMA SessionFields ==
  ASSUME HandlerTypeOK, NEW p \in Peers, sessions[p] # None
  PROVE  /\ sessions[p] \in Session /\ sessions[p].counter \in Nat
         /\ sessions[p].encryption_key \in Keys
         /\ sessions[p].encryption_key.secret.challenge \in Nat
<1>1. sessions[p] \in Session
  BY DEF HandlerTypeOK
<1>2. sessions[p].encryption_key \in Keys /\ sessions[p].counter \in Nat
  BY <1>1 DEF Session
<1> QED
  BY <1>1, <1>2 DEF Keys, Secrets

(* Steps that leave challenges, sessions and history alone.                     *)
LEMMA NonceUnchanged ==
  NonceInv /\ UNCHANGED <<active_challenges, sessions, next_challenge, sent>> => NonceInv'
  BY DEF NonceInv, ChallengesAreFresh, CountersCoverSent, NonceNeverReused

(* A packet that is not a response adds no use of a key.                        *)
LEMMA NonceOtherSent ==
  ASSUME HandlerTypeOK, NonceInv, NEW packet \in OutboundPackets, Send(packet),
         packet.kind # "Response", UNCHANGED sessions
  PROVE  CountersCoverSent' /\ NonceNeverReused'
  BY SentGrows DEF NonceInv, CountersCoverSent, NonceNeverReused

(* A random packet is no response.                                              *)
LEMMA NonceRandom ==
  ASSUME TypeOK, NonceInv, ProcessHandlerRequest
  PROVE  NonceInv'
<1>1. UNCHANGED <<active_challenges, sessions, next_challenge>>
  BY DEF ProcessHandlerRequest
<1>2. CASE UNCHANGED sent
  BY <1>1, <1>2, NonceUnchanged
<1>3. CASE ~UNCHANGED sent
  <2> DEFINE packet == [kind |-> "Random", dst |-> Head(from_mock)]
  <2>1. Send(packet)
    BY <1>3 DEF ProcessHandlerRequest
  <2>2. packet \in OutboundPackets /\ packet.kind # "Response"
    BY HeadTailProperties, OutboundFields
    DEF ProcessHandlerRequest, TypeOK, HandlerTypeOK
  <2> HIDE DEF packet
  <2>3. HandlerTypeOK
    BY DEF TypeOK
  <2>4. ChallengesAreFresh'
    BY <1>1, <2>1, <2>2, <2>3, SentGrows DEF NonceInv, ChallengesAreFresh
  <2> QED
    BY <1>1, <2>1, <2>2, <2>3, <2>4, NonceOtherSent DEF NonceInv
<1> QED
  BY <1>2, <1>3

(* A new challenge is unlike every one that a key was made from.                *)
LEMMA NonceSendChallenge ==
  ASSUME TypeOK, NonceInv, SendChallenge
  PROVE  NonceInv'
<1> DEFINE p == turn.packet.src
           packet == [kind |-> "WhoAreYou", dst |-> p, id |-> turn.packet.id,
                      challenge |-> next_challenge, enr_seq |-> 0]
<1>1. HandlerTypeOK /\ turn # None
  BY DEF TypeOK, SendChallenge, Acts
<1>2. p \in Peers /\ turn.packet.id \in Ids
  BY <1>1, TurnFields
<1>3. /\ next_challenge \in Nat /\ next_challenge' = next_challenge + 1
      /\ active_challenges' = [active_challenges EXCEPT ![p] = next_challenge]
      /\ UNCHANGED sessions /\ Send(packet)
  BY <1>1 DEF HandlerTypeOK, SendChallenge, MapInsert
<1>4. packet \in OutboundPackets /\ packet.kind # "Response"
  BY <1>2, <1>3, OutboundFields
<1> HIDE DEF p, packet
<1>5. CountersCoverSent' /\ NonceNeverReused'
  BY <1>1, <1>3, <1>4, NonceOtherSent
<1>6. \A q \in Peers : active_challenges'[q] = next_challenge
                       \/ active_challenges'[q] = active_challenges[q]
  BY <1>1, <1>3 DEF HandlerTypeOK
<1>7. ChallengesAreFresh'
  <2>1. \A q \in Peers : active_challenges'[q] # None =>
          active_challenges'[q] < next_challenge'
    BY <1>1, <1>3, <1>6 DEF NonceInv, ChallengesAreFresh, HandlerTypeOK
  <2>2. \A q \in Peers : sessions'[q] # None =>
          /\ sessions'[q].encryption_key.secret.peer = q
          /\ sessions'[q].encryption_key.secret.challenge < next_challenge'
          /\ sessions'[q].encryption_key.secret.challenge # active_challenges'[q]
    BY <1>1, <1>3, <1>6, SessionFields DEF NonceInv, ChallengesAreFresh
  <2>3. \A i \in DOMAIN sent : sent[i].kind = "Response" =>
          /\ sent[i].key.secret.challenge < next_challenge'
          /\ \A q \in Peers : sent[i].key.secret.peer = q =>
               sent[i].key.secret.challenge # active_challenges'[q]
    BY <1>1, <1>3, <1>6, SentFields DEF NonceInv, ChallengesAreFresh
  <2> QED
    BY <1>1, <1>3, <1>4, <2>1, <2>2, <2>3, SentGrows DEF ChallengesAreFresh
<1> QED
  BY <1>5, <1>7 DEF NonceInv

(* A new session's key has sealed nothing yet: its challenge was still active.  *)
LEMMA NonceEstablish ==
  ASSUME TypeOK, NonceInv, EstablishSession
  PROVE  NonceInv'
<1> DEFINE p == turn.packet.src
           c == active_challenges[p]
           key == RecipientKey([peer |-> p, challenge |-> c, ephem |-> turn.packet.ephem])
<1>1. HandlerTypeOK /\ turn # None
  BY DEF TypeOK, EstablishSession, Acts
<1>2. p \in Peers
  BY <1>1, TurnFields
<1>3. /\ c # None /\ c \in Nat
      /\ active_challenges' = [active_challenges EXCEPT ![p] = None]
      /\ sessions' = [sessions EXCEPT ![p] = Candidate(turn.packet)]
      /\ UNCHANGED <<next_challenge, sent>>
  BY <1>1, <1>2 DEF HandlerTypeOK, EstablishSession, MapInsert, MapRemove
<1>4. /\ Candidate(turn.packet).encryption_key = key
      /\ Candidate(turn.packet).counter = 0
      /\ key.secret.peer = p /\ key.secret.challenge = c
  BY DEF Candidate, EstablishFromChallenge, RecipientKey
<1> HIDE DEF p, c, key
<1>5. c < next_challenge
  BY <1>2, <1>3 DEF NonceInv, ChallengesAreFresh, c
<1>6. /\ sessions'[p] = Candidate(turn.packet) /\ active_challenges'[p] = None
      /\ \A q \in Peers \ {p} : /\ sessions'[q] = sessions[q]
                                /\ active_challenges'[q] = active_challenges[q]
  BY <1>1, <1>2, <1>3 DEF HandlerTypeOK
<1>7. c # None
  BY <1>3
<1>8. ChallengesAreFresh'
  <2>1. \A i \in DOMAIN sent : sent[i].kind = "Response" =>
          sent[i].key.secret.challenge # None
    BY <1>1, SentFields, NoneAssumption
  <2> QED
    BY <1>2, <1>3, <1>4, <1>5, <1>6, <1>7, <2>1 DEF NonceInv, ChallengesAreFresh
<1>9. \A i \in DOMAIN sent : sent[i].kind = "Response" => sent[i].key # key
  BY <1>2, <1>4 DEF NonceInv, ChallengesAreFresh, c
<1>10. CountersCoverSent'
  BY <1>2, <1>3, <1>4, <1>6, <1>9 DEF NonceInv, CountersCoverSent
<1> QED
  BY <1>3, <1>8, <1>10 DEF NonceInv, NonceNeverReused

(* A response takes a counter above all those used under its key.               *)
LEMMA NonceSendResponse ==
  ASSUME TypeOK, NonceInv, NEW p \in Peers, NEW id \in Ids, sessions[p] # None,
         SendResponse(p, id)
  PROVE  NonceInv'
<1> DEFINE s == Advanced(sessions[p])
           packet == [kind |-> "Response", dst |-> p, id |-> id,
                      key |-> s.encryption_key, counter |-> s.counter]
<1>1. HandlerTypeOK
  BY DEF TypeOK
<1>2. /\ sessions[p] \in Session /\ sessions[p].counter \in Nat
      /\ sessions[p].encryption_key \in Keys
      /\ sessions[p].encryption_key.secret.challenge \in Nat
  BY <1>1, SessionFields
<1>3. /\ s.encryption_key = sessions[p].encryption_key
      /\ s.counter = sessions[p].counter + 1
  BY <1>2, SMT DEF Advanced, Session
<1>4. /\ sessions' = [sessions EXCEPT ![p] = s]
      /\ UNCHANGED <<active_challenges, next_challenge>> /\ Send(packet)
  BY DEF SendResponse
<1>5. packet \in OutboundPackets
  BY <1>2, <1>3, OutboundFields
<1>6. /\ packet.kind = "Response" /\ packet.key = sessions[p].encryption_key
      /\ packet.counter = sessions[p].counter + 1
  BY <1>3
<1> HIDE DEF packet, s
<1>7. sessions'[p] = s /\ \A q \in Peers \ {p} : sessions'[q] = sessions[q]
  BY <1>1, <1>4 DEF HandlerTypeOK
<1>8. \A i \in DOMAIN sent : sent[i].kind = "Response" => sent[i].counter \in Nat
  BY <1>1, SentFields
<1>9. ChallengesAreFresh'
  BY <1>1, <1>3, <1>4, <1>5, <1>6, <1>7, SentGrows DEF NonceInv, ChallengesAreFresh
<1>10. \A q \in Peers \ {p} : sessions[q] # None =>
         sessions[q].encryption_key # sessions[p].encryption_key
  BY DEF NonceInv, ChallengesAreFresh
<1>11. CountersCoverSent'
  BY <1>1, <1>2, <1>3, <1>4, <1>5, <1>6, <1>7, <1>8, <1>10, SentGrows
  DEF NonceInv, CountersCoverSent
<1>12. NonceNeverReused'
  <2>1. \A i \in DOMAIN sent :
          sent[i].kind = "Response" /\ sent[i].key = packet.key =>
            sent[i].counter # packet.counter
    BY <1>2, <1>6, <1>8 DEF NonceInv, CountersCoverSent
  <2> QED
    BY <1>1, <1>4, <1>5, <2>1, SentGrows DEF NonceInv, NonceNeverReused
<1> QED
  BY <1>9, <1>11, <1>12 DEF NonceInv

(* Whatever the peers send, however often, and in whichever order it arrives:   *)
(* no key of the mock seals two responses with one counter.                     *)
THEOREM NonceSafe == Spec => []NonceNeverReused
<1>1. Init => NonceInv
  BY NoneAssumption DEF Init, HandlerInit, NonceInv, ChallengesAreFresh,
                        CountersCoverSent, NonceNeverReused
<1>2. TypeOK /\ NonceInv /\ [Next]_vars => NonceInv'
  <2> SUFFICES ASSUME TypeOK, NonceInv, [Next]_vars PROVE NonceInv'
    OBVIOUS
  <2>1. CASE Handler
    <3>1. CASE ProcessHandlerRequest
      BY <3>1, NonceRandom
    <3>2. CASE \/ ProcessDeclarative \/ ProcessSequential \/ RejectSequential
               \/ Ignore \/ CaptureRequest \/ PanicInTurn
      BY <3>2, NonceUnchanged
      DEF ProcessDeclarative, ProcessSequential, RejectSequential, Ignore,
          CaptureRequest, PanicInTurn, Panic
    <3>3. CASE SendChallenge
      BY <3>3, NonceSendChallenge
    <3>4. CASE EstablishSession
      BY <3>4, NonceEstablish
    <3>5. ASSUME SendDefaultResponse \/ SendCustomResponse PROVE NonceInv'
      <4>1. turn # None /\ sessions[turn.packet.src] # None
        BY <3>5 DEF SendDefaultResponse, SendCustomResponse, Acts, ReadsRequest
      <4>2. /\ turn.packet.src \in Peers /\ turn.packet.id \in Ids
            /\ Head(turn.actions) \in Actions
        BY <4>1, TurnFields DEF TypeOK
      <4>3. CASE SendDefaultResponse
        BY <4>1, <4>2, <4>3, NonceSendResponse DEF SendDefaultResponse
      <4>4. CASE SendCustomResponse
        <5> DEFINE index == Head(Head(turn.actions).ids)
        <5>1. index \in Nat
          BY <4>2, <4>4, ActionFields DEF SendCustomResponse, Acts
        <5>2. captured_requests \in Seq(Ids) /\ index < Len(captured_requests)
          BY <4>4 DEF SendCustomResponse, TypeOK, HandlerTypeOK
        <5> HIDE DEF index
        <5>3. index + 1 \in 1..Len(captured_requests)
          BY <5>1, <5>2
        <5>4. CapturedId(index) \in Ids
          BY <5>2, <5>3 DEF CapturedId
        <5>5. SendResponse(turn.packet.src, CapturedId(index))
          BY <4>4 DEF SendCustomResponse, index
        <5> QED
          BY <4>1, <4>2, <5>4, <5>5, NonceSendResponse
      <4> QED
        BY <3>5, <4>3, <4>4
    <3> QED
      BY <2>1, <3>1, <3>2, <3>3, <3>4, <3>5 DEF Handler, HandlerStep, DoAction
  <2>2. CASE ~Handler
    BY <2>2, NonceUnchanged
    DEF Next, vars, handlerVars, RecvHandler, SendHandler, SendHandlerPanics,
        SendRandomPacket, PeerStep, PeerSendsRequest, PeerRetries, PeerGivesUp,
        PeerReceivesWhoAreYou, PeerRefusesWhoAreYou, PeerReceivesResponse,
        PeerReceivesUnreadable
  <2> QED
    BY <2>1, <2>2
<1>3. NonceInv => NonceNeverReused
  BY DEF NonceInv
<1> QED
  BY <1>1, <1>2, <1>3, TypeCorrect, PTL DEF Spec, SafetySpec
--------------------------------------------------------------------------------
(* A sent packet is added at the end of the history; the others stay.           *)
LEMMA SentKeeps ==
  ASSUME HandlerTypeOK, NEW packet \in OutboundPackets, Send(packet)
  PROVE  /\ DOMAIN sent \subseteq DOMAIN sent'
         /\ \A i \in DOMAIN sent : sent'[i] = sent[i] /\ i < Len(sent) + 1 /\ i \in Nat
         /\ Len(sent) + 1 \in DOMAIN sent' /\ sent'[Len(sent) + 1] = packet
         /\ \A i \in DOMAIN sent' : i \in DOMAIN sent \/ i = Len(sent) + 1
<1>1. sent \in Seq(OutboundPackets) /\ sent' = Append(sent, packet)
  BY DEF HandlerTypeOK, Send
<1>2. DOMAIN sent' = 1..(Len(sent) + 1) /\ DOMAIN sent = 1..Len(sent) /\ Len(sent) \in Nat
  BY <1>1, AppendProperties, LenProperties
<1> QED
  BY <1>1, <1>2, AppendProperties

(* Every packet in the history is an outbound packet.                           *)
LEMMA SentIsOutbound ==
  ASSUME HandlerTypeOK, NEW i \in DOMAIN sent
  PROVE  /\ sent[i] \in OutboundPackets /\ sent[i].dst \in Peers
         /\ sent[i].kind = "WhoAreYou" => sent[i].challenge \in Nat
<1>1. sent[i] \in OutboundPackets
  BY LenProperties DEF HandlerTypeOK
<1> QED
  BY <1>1 DEF OutboundPackets
--------------------------------------------------------------------------------
(* LatestChallengeIsHeld.  The challenge in the table is the latest one, not    *)
(* just any: only so does a session that is made from it come from the latest.  *)
Latest(i) ==
  /\ sent[i].kind = "WhoAreYou"
  /\ \A j \in DOMAIN sent : sent[j].kind = "WhoAreYou" /\ sent[j].dst = sent[i].dst => j <= i

Held(p, c) ==
  IF active_challenges[p] # None
  THEN active_challenges[p] = c
  ELSE sessions[p] # None /\ sessions[p].decryption_key.secret.challenge = c

ChallengeInv == \A i \in DOMAIN sent : Latest(i) => Held(sent[i].dst, sent[i].challenge)

(* Another packet than a WHOAREYOU leaves the latest one where it was.          *)
LEMMA LatestKept ==
  ASSUME HandlerTypeOK, NEW packet \in OutboundPackets, Send(packet)
  PROVE  \A i \in DOMAIN sent' :
           Latest(i)' => \/ /\ i \in DOMAIN sent /\ sent'[i] = sent[i] /\ Latest(i)
                            /\ packet.kind = "WhoAreYou" => sent[i].dst # packet.dst
                         \/ packet.kind = "WhoAreYou" /\ sent'[i] = packet
<1> SUFFICES ASSUME NEW i \in DOMAIN sent', Latest(i)'
             PROVE  \/ /\ i \in DOMAIN sent /\ sent'[i] = sent[i] /\ Latest(i)
                       /\ packet.kind = "WhoAreYou" => sent[i].dst # packet.dst
                    \/ packet.kind = "WhoAreYou" /\ sent'[i] = packet
  OBVIOUS
<1>1. /\ sent'[i].kind = "WhoAreYou"
      /\ \A j \in DOMAIN sent' :
           sent'[j].kind = "WhoAreYou" /\ sent'[j].dst = sent'[i].dst => j <= i
  BY DEF Latest
<1>2. CASE i = Len(sent) + 1
  BY <1>1, <1>2, SentKeeps
<1>3. CASE i \in DOMAIN sent
  <2>1. sent'[i] = sent[i] /\ ~(Len(sent) + 1 <= i)
    BY <1>3, SentKeeps, LenProperties DEF HandlerTypeOK
  <2>2. Latest(i)
    BY <1>1, <2>1, SentKeeps DEF Latest
  <2>3. packet.kind = "WhoAreYou" => sent[i].dst # packet.dst
    BY <1>1, <2>1, SentKeeps
  <2> QED
    BY <1>3, <2>1, <2>2, <2>3
<1> QED
  BY <1>2, <1>3, SentKeeps

(* Steps that leave challenges, sessions and history alone.                     *)
LEMMA ChallengeUnchanged ==
  ChallengeInv /\ UNCHANGED <<active_challenges, sessions, sent>> => ChallengeInv'
  BY DEF ChallengeInv, Latest, Held

(* A random packet is no challenge.                                             *)
LEMMA ChallengeRandom ==
  ASSUME TypeOK, ChallengeInv, ProcessHandlerRequest
  PROVE  ChallengeInv'
<1>1. UNCHANGED <<active_challenges, sessions>>
  BY DEF ProcessHandlerRequest
<1>2. CASE UNCHANGED sent
  BY <1>1, <1>2, ChallengeUnchanged
<1>3. CASE ~UNCHANGED sent
  <2> DEFINE packet == [kind |-> "Random", dst |-> Head(from_mock)]
  <2>1. Send(packet)
    BY <1>3 DEF ProcessHandlerRequest
  <2>2. packet \in OutboundPackets /\ packet.kind # "WhoAreYou" /\ HandlerTypeOK
    BY HeadTailProperties, OutboundFields
    DEF ProcessHandlerRequest, TypeOK, HandlerTypeOK
  <2> HIDE DEF packet
  <2> QED
    BY <1>1, <2>1, <2>2, LatestKept DEF ChallengeInv, Held
<1> QED
  BY <1>2, <1>3

(* A new challenge is the latest of its peer, and takes the place of the last.  *)
LEMMA ChallengeSend ==
  ASSUME TypeOK, ChallengeInv, SendChallenge
  PROVE  ChallengeInv'
<1> DEFINE p == turn.packet.src
           packet == [kind |-> "WhoAreYou", dst |-> p, id |-> turn.packet.id,
                      challenge |-> next_challenge, enr_seq |-> 0]
<1>1. HandlerTypeOK /\ turn # None
  BY DEF TypeOK, SendChallenge, Acts
<1>2. p \in Peers /\ turn.packet.id \in Ids
  BY <1>1, TurnFields
<1>3. /\ next_challenge \in Nat
      /\ active_challenges' = [active_challenges EXCEPT ![p] = next_challenge]
      /\ UNCHANGED sessions /\ Send(packet)
  BY <1>1 DEF HandlerTypeOK, SendChallenge, MapInsert
<1>4. packet \in OutboundPackets
  BY <1>2, <1>3, OutboundFields
<1>5. packet.kind = "WhoAreYou" /\ packet.dst = p /\ packet.challenge = next_challenge
  OBVIOUS
<1> HIDE DEF p, packet
<1>6. /\ active_challenges'[p] = next_challenge /\ next_challenge # None
      /\ \A q \in Peers \ {p} : active_challenges'[q] = active_challenges[q]
  BY <1>1, <1>2, <1>3, NoneAssumption DEF HandlerTypeOK
<1> SUFFICES ASSUME NEW i \in DOMAIN sent', Latest(i)'
             PROVE  Held(sent[i].dst, sent[i].challenge)'
  BY DEF ChallengeInv
<1>7. CASE sent'[i] = packet
  BY <1>5, <1>6, <1>7 DEF Held
<1>8. CASE /\ i \in DOMAIN sent /\ sent'[i] = sent[i] /\ Latest(i) /\ sent[i].dst # p
  <2>1. sent[i].dst \in Peers \ {p} /\ Held(sent[i].dst, sent[i].challenge)
    BY <1>1, <1>8, SentIsOutbound DEF ChallengeInv
  <2> QED
    BY <1>3, <1>6, <1>8, <2>1 DEF Held
<1> QED
  BY <1>1, <1>3, <1>4, <1>5, <1>7, <1>8, LatestKept

(* A session comes from the challenge in the table, the latest of its peer.     *)
LEMMA ChallengeEstablish ==
  ASSUME TypeOK, ChallengeInv, EstablishSession
  PROVE  ChallengeInv'
<1> DEFINE p == turn.packet.src
           c == active_challenges[p]
<1>1. HandlerTypeOK /\ turn # None
  BY DEF TypeOK, EstablishSession, Acts
<1>2. p \in Peers
  BY <1>1, TurnFields
<1>3. /\ c # None
      /\ active_challenges' = [active_challenges EXCEPT ![p] = None]
      /\ sessions' = [sessions EXCEPT ![p] = Candidate(turn.packet)]
      /\ UNCHANGED sent
  BY DEF EstablishSession, MapInsert, MapRemove
<1>4. /\ Candidate(turn.packet).decryption_key.secret.challenge = c
      /\ Candidate(turn.packet) # None
  <2>1. c \in Nat /\ turn.packet.ephem \in Nat
    BY <1>1, <1>2, <1>3, TurnFields DEF HandlerTypeOK
  <2>2. Candidate(turn.packet) \in Session
    BY <1>2, <2>1, SessionTypes DEF Candidate
  <2>3. Candidate(turn.packet) # None
    BY <2>2, NoneAssumption
  <2> QED
    BY <2>3 DEF Candidate, EstablishFromChallenge, InitiatorKey
<1>5. c = active_challenges[p]
  OBVIOUS
<1> HIDE DEF p, c
<1>6. /\ sessions'[p] = Candidate(turn.packet) /\ active_challenges'[p] = None
      /\ \A q \in Peers \ {p} : /\ sessions'[q] = sessions[q]
                                /\ active_challenges'[q] = active_challenges[q]
  BY <1>1, <1>2, <1>3 DEF HandlerTypeOK
<1> SUFFICES ASSUME NEW i \in DOMAIN sent, Latest(i)
             PROVE  Held(sent[i].dst, sent[i].challenge)'
  BY <1>3 DEF ChallengeInv, Latest
<1>7. sent[i].dst \in Peers /\ Held(sent[i].dst, sent[i].challenge)
  BY <1>1, SentIsOutbound DEF ChallengeInv
<1>8. CASE sent[i].dst = p
  BY <1>3, <1>4, <1>5, <1>6, <1>7, <1>8 DEF Held
<1>9. CASE sent[i].dst # p
  BY <1>3, <1>6, <1>7, <1>9 DEF Held
<1> QED
  BY <1>8, <1>9

(* A response advances a session, which keeps the key it came with.             *)
LEMMA ResponseKeepsKey ==
  ASSUME TypeOK, NEW p \in Peers, NEW id \in Ids, sessions[p] # None, SendResponse(p, id)
  PROVE  /\ UNCHANGED active_challenges
         /\ \A q \in Peers : /\ sessions'[q] # None <=> sessions[q] # None
                             /\ sessions'[q].decryption_key = sessions[q].decryption_key
         /\ \E packet \in OutboundPackets : Send(packet) /\ packet.kind = "Response"
<1> DEFINE s == Advanced(sessions[p])
           packet == [kind |-> "Response", dst |-> p, id |-> id,
                      key |-> s.encryption_key, counter |-> s.counter]
<1>1. HandlerTypeOK /\ sessions[p] \in Session
  BY SessionFields DEF TypeOK
<1>2. /\ s \in Session /\ s.encryption_key \in Keys /\ s.counter \in Nat
      /\ s.decryption_key = sessions[p].decryption_key
  <2>1. s.decryption_key = sessions[p].decryption_key
    BY <1>1, SMT DEF Advanced, Session
  <2> QED
    BY <1>1, <2>1, SessionTypes
<1>3. /\ sessions' = [sessions EXCEPT ![p] = s]
      /\ UNCHANGED active_challenges /\ Send(packet)
  BY DEF SendResponse
<1>4. packet \in OutboundPackets /\ packet.kind = "Response"
  BY <1>2, OutboundFields
<1>5. s # None
  BY <1>2, NoneAssumption
<1> HIDE DEF s, packet
<1>6. sessions'[p] = s /\ \A q \in Peers \ {p} : sessions'[q] = sessions[q]
  BY <1>1, <1>3 DEF HandlerTypeOK
<1> QED
  BY <1>2, <1>3, <1>4, <1>5, <1>6

LEMMA ChallengeSendResponse ==
  ASSUME TypeOK, ChallengeInv, NEW p \in Peers, NEW id \in Ids, sessions[p] # None,
         SendResponse(p, id)
  PROVE  ChallengeInv'
<1>1. PICK packet \in OutboundPackets : Send(packet) /\ packet.kind = "Response"
  BY ResponseKeepsKey
<1> SUFFICES ASSUME NEW i \in DOMAIN sent', Latest(i)'
             PROVE  Held(sent[i].dst, sent[i].challenge)'
  BY DEF ChallengeInv
<1>2. i \in DOMAIN sent /\ sent'[i] = sent[i] /\ Latest(i)
  BY <1>1, LatestKept DEF TypeOK
<1>3. sent[i].dst \in Peers /\ Held(sent[i].dst, sent[i].challenge)
  BY <1>2, SentIsOutbound DEF ChallengeInv, TypeOK
<1> QED
  BY <1>2, <1>3, ResponseKeepsKey DEF Held

(* Either kind of response is a packet to the source of the one in hand.        *)
LEMMA ResponseToSource ==
  ASSUME TypeOK, SendDefaultResponse \/ SendCustomResponse
  PROVE  /\ turn # None /\ turn.packet.src \in Peers /\ sessions[turn.packet.src] # None
         /\ \E id \in Ids : SendResponse(turn.packet.src, id)
<1>1. turn # None /\ sessions[turn.packet.src] # None
  BY DEF SendDefaultResponse, SendCustomResponse, Acts, ReadsRequest
<1>2. /\ turn.packet.src \in Peers /\ turn.packet.id \in Ids
      /\ Head(turn.actions) \in Actions
  BY <1>1, TurnFields DEF TypeOK
<1>3. CASE SendDefaultResponse
  BY <1>1, <1>2, <1>3 DEF SendDefaultResponse
<1>4. CASE SendCustomResponse
  <2> DEFINE index == Head(Head(turn.actions).ids)
  <2>1. index \in Nat
    BY <1>2, <1>4, ActionFields DEF SendCustomResponse, Acts
  <2>2. captured_requests \in Seq(Ids) /\ index < Len(captured_requests)
    BY <1>4 DEF SendCustomResponse, TypeOK, HandlerTypeOK
  <2>3. SendResponse(turn.packet.src, CapturedId(index))
    BY <1>4 DEF SendCustomResponse
  <2> HIDE DEF index
  <2>4. index + 1 \in 1..Len(captured_requests)
    BY <2>1, <2>2
  <2>5. CapturedId(index) \in Ids
    BY <2>2, <2>4 DEF CapturedId
  <2> QED
    BY <1>1, <1>2, <2>3, <2>5
<1> QED
  BY <1>3, <1>4

(* Whatever is scripted and whatever the peers send, the last WHOAREYOU to each *)
(* peer can be answered, or has led to its session.                             *)
THEOREM LatestChallengeHeld == Spec => []LatestChallengeIsHeld
<1>1. Init => ChallengeInv
  BY DEF Init, HandlerInit, ChallengeInv
<1>2. TypeOK /\ ChallengeInv /\ [Next]_vars => ChallengeInv'
  <2> SUFFICES ASSUME TypeOK, ChallengeInv, [Next]_vars PROVE ChallengeInv'
    OBVIOUS
  <2>1. CASE Handler
    <3>1. CASE ProcessHandlerRequest
      BY <3>1, ChallengeRandom
    <3>2. CASE \/ ProcessDeclarative \/ ProcessSequential \/ RejectSequential
               \/ Ignore \/ CaptureRequest \/ PanicInTurn
      BY <3>2, ChallengeUnchanged
      DEF ProcessDeclarative, ProcessSequential, RejectSequential, Ignore,
          CaptureRequest, PanicInTurn, Panic
    <3>3. CASE SendChallenge
      BY <3>3, ChallengeSend
    <3>4. CASE EstablishSession
      BY <3>4, ChallengeEstablish
    <3>5. CASE SendDefaultResponse \/ SendCustomResponse
      BY <3>5, ResponseToSource, ChallengeSendResponse
    <3> QED
      BY <2>1, <3>1, <3>2, <3>3, <3>4, <3>5 DEF Handler, HandlerStep, DoAction
  <2>2. CASE ~Handler
    BY <2>2, ChallengeUnchanged
    DEF Next, vars, handlerVars, RecvHandler, SendHandler, SendHandlerPanics,
        SendRandomPacket, PeerStep, PeerSendsRequest, PeerRetries, PeerGivesUp,
        PeerReceivesWhoAreYou, PeerRefusesWhoAreYou, PeerReceivesResponse,
        PeerReceivesUnreadable
  <2> QED
    BY <2>1, <2>2
<1>3. TypeOK /\ ChallengeInv => LatestChallengeIsHeld
  <2> SUFFICES ASSUME TypeOK, ChallengeInv, NEW i \in DOMAIN sent,
                      sent[i].kind = "WhoAreYou",
                      \A j \in DOMAIN sent :
                        sent[j].kind = "WhoAreYou" /\ sent[j].dst = sent[i].dst => j <= i
               PROVE  \/ active_challenges[sent[i].dst] = sent[i].challenge
                      \/ /\ sessions[sent[i].dst] # None
                         /\ sessions[sent[i].dst].decryption_key.secret.challenge
                              = sent[i].challenge
    BY DEF LatestChallengeIsHeld
  <2> QED
    BY DEF ChallengeInv, Latest, Held
<1> QED
  BY <1>1, <1>2, <1>3, TypeCorrect, PTL DEF Spec, SafetySpec
--------------------------------------------------------------------------------
(* KeyAgreement.  Every key that a peer seals with is one that it has derived;  *)
(* so whatever a handshake opens under has been derived by the peer.            *)
DerivedBy(d, p) == {d[p][i] : i \in DOMAIN d[p]}

Sealed(d, packet) ==
  packet.key = None \/ \E s \in DerivedBy(d, packet.src) : packet.key = InitiatorKey(s)

SealInv ==
  /\ \A p \in Peers : peer_session[p] # None => peer_session[p] \in DerivedBy(derived, p)
  /\ \A p \in Peers : \A r \in active[p] :
       r.packet.src = p /\ Sealed(derived, r.packet)
  /\ \A i \in DOMAIN udp_in : Sealed(derived, udp_in[i])
  /\ \A i \in DOMAIN recv_ch : Sealed(derived, recv_ch[i])
  /\ turn # None => Sealed(derived, turn.packet)

(* The turn of a handshake reads it under the challenge that is active until    *)
(* the session is established.                                                  *)
Establishes(actions) == \E k \in DOMAIN actions : actions[k].op = "EstablishSession"

ReadInv ==
  /\ \A i \in DOMAIN behaviours : EstablishesFirst(behaviours[i].actions)
  /\ turn # None =>
       /\ EstablishesFirst(turn.actions)
       /\ /\ turn.packet.kind = "Handshake" /\ Establishes(turn.actions)
          /\ active_challenges[turn.packet.src] # None
          => Opens(Candidate(turn.packet), turn.packet)

SessionsDerived ==
  \A p \in Peers : sessions[p] # None => sessions[p].decryption_key.secret \in DerivedBy(derived, p)

AgreeInv == SealInv /\ (Mode = "Sequential" => ReadInv /\ SessionsDerived)

(* The rest of a sequence holds what the sequence held, and its head did too.   *)
LEMMA TailElements ==
  ASSUME NEW S, NEW s \in Seq(S), s # <<>>
  PROVE  /\ 1 \in DOMAIN s /\ Head(s) = s[1]
         /\ \A i \in DOMAIN Tail(s) : i \in Nat /\ i + 1 \in DOMAIN s /\ Tail(s)[i] = s[i + 1]
<1>1. /\ Tail(s) \in Seq(S) /\ Len(Tail(s)) = Len(s) - 1 /\ Len(s) \in Nat
      /\ \A i \in 1..Len(Tail(s)) : Tail(s)[i] = s[i + 1]
  BY HeadTailProperties, LenProperties
<1>2. DOMAIN s = 1..Len(s) /\ DOMAIN Tail(s) = 1..Len(Tail(s)) /\ Len(s) > 0
  BY <1>1, LenProperties, EmptySeq
<1> QED
  BY <1>1, <1>2

LEMMA AppendElements ==
  ASSUME NEW S, NEW s \in Seq(S), NEW e \in S
  PROVE  \A i \in DOMAIN Append(s, e) :
           (i \in DOMAIN s /\ Append(s, e)[i] = s[i]) \/ Append(s, e)[i] = e
  BY AppendProperties, LenProperties

(* A turn that goes on with the rest of its actions keeps their order.          *)
LEMMA OrderOfTail ==
  ASSUME NEW actions \in Seq(Actions), actions # <<>>, EstablishesFirst(actions)
  PROVE  /\ EstablishesFirst(Tail(actions))
         /\ Establishes(Tail(actions)) => Establishes(actions)
         /\ Head(actions).op = "SendWhoAreYou" => ~Establishes(Tail(actions))
         /\ Head(actions).op = "EstablishSession" => Establishes(actions)
<1>1. \A i \in DOMAIN Tail(actions) :
        i \in Nat /\ i + 1 \in DOMAIN actions /\ Tail(actions)[i] = actions[i + 1]
  BY TailElements
<1>2. 1 \in DOMAIN actions /\ Head(actions) = actions[1]
  BY TailElements
<1>3. EstablishesFirst(Tail(actions))
  <2> SUFFICES ASSUME NEW j \in DOMAIN Tail(actions), NEW k \in DOMAIN Tail(actions),
                      Tail(actions)[j].op = "SendWhoAreYou",
                      Tail(actions)[k].op = "EstablishSession"
               PROVE  k < j
    BY DEF EstablishesFirst
  <2>1. k + 1 < j + 1 /\ k \in Nat /\ j \in Nat
    BY <1>1 DEF EstablishesFirst
  <2> QED
    BY <2>1
<1>4. Establishes(Tail(actions)) => Establishes(actions)
  BY <1>1 DEF Establishes
<1>5. ASSUME Head(actions).op = "SendWhoAreYou" PROVE ~Establishes(Tail(actions))
  <2> SUFFICES ASSUME NEW k \in DOMAIN Tail(actions),
                      Tail(actions)[k].op = "EstablishSession"
               PROVE  FALSE
    BY DEF Establishes
  <2>1. k + 1 < 1 /\ k \in Nat
    BY <1>1, <1>2, <1>5 DEF EstablishesFirst
  <2> QED
    BY <2>1
<1> QED
  BY <1>2, <1>3, <1>4, <1>5 DEF Establishes
--------------------------------------------------------------------------------
(* What a peer sends is sealed as its active requests are.                      *)
LEMMA SealTransmit ==
  ASSUME TypeOK, SealInv, NEW packet \in InboundPackets, Sealed(derived, packet), Transmit(packet)
  PROVE  \A i \in DOMAIN udp_in' : Sealed(derived, udp_in'[i])
<1>1. udp_in \in Seq(InboundPackets)
  BY DEF TypeOK
<1>2. udp_in' = udp_in \/ udp_in' = Append(udp_in, packet)
  BY DEF Transmit
<1> QED
  BY <1>1, <1>2, AppendElements DEF SealInv

(* A secret that is derived adds to those before it.                            *)
LEMMA DerivedGrows ==
  ASSUME TypeOK, NEW p \in Peers, NEW secret \in Secrets,
         derived' = [derived EXCEPT ![p] = Append(@, secret)]
  PROVE  /\ \A q \in Peers : DerivedBy(derived, q) \subseteq DerivedBy(derived', q)
         /\ secret \in DerivedBy(derived', p)
         /\ \A q \in Peers \ {p} : DerivedBy(derived', q) = DerivedBy(derived, q)
<1>1. /\ derived[p] \in Seq(Secrets) /\ derived'[p] = Append(derived[p], secret)
      /\ \A q \in Peers \ {p} : derived'[q] = derived[q]
  BY DEF TypeOK
<1>2. /\ DOMAIN derived'[p] = 1..Len(derived[p]) + 1 /\ DOMAIN derived[p] = 1..Len(derived[p])
      /\ Len(derived[p]) \in Nat
      /\ \A i \in 1..Len(derived[p]) : derived'[p][i] = derived[p][i]
      /\ derived'[p][Len(derived[p]) + 1] = secret
  <2> DEFINE old == derived[p]
             new == derived'[p]
  <2>1. old \in Seq(Secrets) /\ new = Append(old, secret)
    BY <1>1
  <2> HIDE DEF old, new
  <2>2. new \in Seq(Secrets) /\ Len(new) = Len(old) + 1 /\ Len(old) \in Nat
        /\ DOMAIN new = 1..Len(new) /\ DOMAIN old = 1..Len(old)
    BY <2>1, AppendProperties, LenProperties
  <2>3. new[Len(old) + 1] = secret /\ \A i \in 1..Len(old) : new[i] = old[i]
    BY <2>1, AppendProperties
  <2> QED
    BY <2>2, <2>3 DEF old, new
<1>3. DerivedBy(derived, p) \subseteq DerivedBy(derived', p) /\ secret \in DerivedBy(derived', p)
  BY <1>2 DEF DerivedBy
<1>4. \A q \in Peers \ {p} : DerivedBy(derived', q) = DerivedBy(derived, q)
  BY <1>1 DEF DerivedBy
<1> QED
  BY <1>3, <1>4

(* Steps that leave alone what is sealed and what has been derived.             *)
LEMMA SealUnchanged ==
  SealInv /\ UNCHANGED <<turn, recv_ch, udp_in, active, peer_session, derived>> => SealInv'
  BY DEF SealInv, Sealed, DerivedBy

(* The steps of the mock hand packets on, from the socket to the turn.          *)
LEMMA SealRecv ==
  ASSUME TypeOK, SealInv, RecvHandler
  PROVE  SealInv'
<1>1. /\ udp_in \in Seq(InboundPackets) /\ recv_ch \in Seq(InboundPackets) /\ udp_in # <<>>
      /\ udp_in' = Tail(udp_in)
      /\ recv_ch' = recv_ch \/ recv_ch' = Append(recv_ch, Head(udp_in))
      /\ UNCHANGED <<turn, active, peer_session, derived>>
  BY DEF RecvHandler, TypeOK, HandlerTypeOK, peerVars
<1>2. Head(udp_in) \in InboundPackets /\ Sealed(derived, Head(udp_in))
  BY <1>1, HeadTailProperties, TailElements DEF SealInv
<1>3. \A i \in DOMAIN udp_in' : Sealed(derived, udp_in'[i])
  BY <1>1, TailElements DEF SealInv
<1>4. \A i \in DOMAIN recv_ch' : Sealed(derived, recv_ch'[i])
  <2>1. recv_ch' = Append(recv_ch, Head(udp_in)) =>
          \A i \in DOMAIN recv_ch' :
            \/ i \in DOMAIN recv_ch /\ recv_ch'[i] = recv_ch[i]
            \/ recv_ch'[i] = Head(udp_in)
    BY <1>1, <1>2, AppendElements
  <2> QED
    BY <1>1, <1>2, <2>1 DEF SealInv
<1> QED
  BY <1>1, <1>3, <1>4 DEF SealInv, Sealed, DerivedBy

LEMMA SealTake ==
  ASSUME TypeOK, SealInv, NEW actions, Begin(Head(recv_ch), actions),
         recv_ch # <<>>, recv_ch' = Tail(recv_ch),
         UNCHANGED <<udp_in, active, peer_session, derived>>
  PROVE  SealInv'
<1>1. recv_ch \in Seq(InboundPackets)
  BY DEF TypeOK, HandlerTypeOK
<1>2. Sealed(derived, Head(recv_ch))
  BY <1>1, TailElements DEF SealInv
<1>3. \A i \in DOMAIN recv_ch' : Sealed(derived, recv_ch'[i])
  BY <1>1, TailElements DEF SealInv
<1>4. turn' # None => turn'.packet = Head(recv_ch)
  BY DEF Begin
<1> QED
  BY <1>2, <1>3, <1>4 DEF SealInv, Sealed, DerivedBy

LEMMA SealAct ==
  ASSUME SealInv, turn # None, turn' # None => turn'.packet = turn.packet,
         recv_ch' = recv_ch \/ recv_ch' = <<>>,
         UNCHANGED <<udp_in, active, peer_session, derived>>
  PROVE  SealInv'
<1>1. (DOMAIN recv_ch' = DOMAIN recv_ch /\ recv_ch' = recv_ch) \/ DOMAIN recv_ch' = {}
  OBVIOUS
<1>2. \A i \in DOMAIN recv_ch' : Sealed(derived, recv_ch'[i])
  BY <1>1 DEF SealInv
<1>3. turn' # None => Sealed(derived, turn'.packet)
  BY DEF SealInv
<1> QED
  BY <1>2, <1>3 DEF SealInv, Sealed, DerivedBy
--------------------------------------------------------------------------------
(* The steps of a peer: it seals with the key of its session, which it has      *)
(* derived, or not at all.                                                      *)
LEMMA SealPeerSends ==
  ASSUME TypeOK, SealInv, NEW p \in Peers, NEW body \in PeerBodies,
         PeerSendsRequest(p, body)
  PROVE  SealInv'
<1> DEFINE id == [peer |-> p, n |-> next_id[p]]
           key == IF peer_session[p] = None THEN None ELSE InitiatorKey(peer_session[p])
           packet == Packet(p, "Message", id, 0, FALSE, key, body)
<1>1. /\ active' = [active EXCEPT ![p] = @ \cup {[packet |-> packet, retries |-> 0]}]
      /\ Transmit(packet)
      /\ UNCHANGED <<turn, recv_ch, peer_session, derived>>
  BY DEF PeerSendsRequest, handlerVars
<1>2. packet \in InboundPackets
  <2>1. id \in Ids /\ key \in Keys \cup {None} /\ body \in Requests
    BY SystemAssumption DEF TypeOK, Ids, InitiatorKey, Keys
  <2> QED
    BY <2>1 DEF Packet, InboundPackets
<1>3. packet.src = p /\ packet.key = key
  BY DEF Packet
<1>4. Sealed(derived, packet)
  BY <1>3 DEF Sealed, SealInv
<1> HIDE DEF packet, key, id
<1>5. \A i \in DOMAIN udp_in' : Sealed(derived, udp_in'[i])
  BY <1>1, <1>2, <1>4, SealTransmit
<1>6. \A q \in Peers : \A r \in active'[q] :
        r \in active[q] \/ (q = p /\ r.packet = packet)
  <2> DEFINE new == [packet |-> packet, retries |-> 0]
  <2>1. new.packet = packet /\ active' = [active EXCEPT ![p] = active[p] \cup {new}]
    BY <1>1
  <2> HIDE DEF new
  <2> QED
    BY <2>1 DEF TypeOK
<1>7. \A q \in Peers : \A r \in active'[q] :
        r.packet.src = q /\ Sealed(derived, r.packet)
  BY <1>3, <1>4, <1>6 DEF SealInv, Sealed
<1> QED
  BY <1>1, <1>5, <1>7 DEF SealInv, Sealed, DerivedBy

LEMMA SealPeerTimesOut ==
  ASSUME TypeOK, SealInv, NEW p \in Peers, NEW r \in active[p],
         PeerRetries(p, r) \/ PeerGivesUp(p, r)
  PROVE  SealInv'
<1>1. r \in ActiveRequests /\ r.packet \in InboundPackets
  BY DEF TypeOK, ActiveRequests
<1>2. Sealed(derived, r.packet)
  BY DEF SealInv, Sealed
<1>3. CASE PeerRetries(p, r)
  <2>1. /\ active' = [active EXCEPT ![p] = (@ \ {r}) \cup {[r EXCEPT !.retries = @ + 1]}]
        /\ Transmit(r.packet)
        /\ UNCHANGED <<turn, recv_ch, peer_session, derived>>
    BY <1>3 DEF PeerRetries, handlerVars
  <2>2. \A i \in DOMAIN udp_in' : Sealed(derived, udp_in'[i])
    BY <1>1, <1>2, <2>1, SealTransmit
  <2>3. [r EXCEPT !.retries = @ + 1].packet = r.packet
    BY <1>1 DEF ActiveRequests
  <2>4. \A q \in Peers : \A s \in active'[q] :
          s \in active[q] \/ (q = p /\ s.packet = r.packet)
    <3> DEFINE new == [r EXCEPT !.retries = @ + 1]
    <3>1. new.packet = r.packet /\ active' = [active EXCEPT ![p] = (active[p] \ {r}) \cup {new}]
      BY <2>1, <2>3
    <3> HIDE DEF new
    <3> QED
      BY <3>1 DEF TypeOK
  <2>5. \A q \in Peers : \A s \in active'[q] :
          s.packet.src = q /\ Sealed(derived, s.packet)
    BY <2>4 DEF SealInv
  <2> QED
    BY <2>1, <2>2, <2>5 DEF SealInv, Sealed, DerivedBy
<1>4. CASE PeerGivesUp(p, r)
  <2>1. /\ \A q \in Peers : active'[q] \subseteq active[q]
        /\ \A q \in Peers : peer_session'[q] \in {peer_session[q], None}
        /\ UNCHANGED <<turn, recv_ch, udp_in, derived>>
    BY <1>4 DEF PeerGivesUp, TypeOK, handlerVars
  <2> QED
    BY <2>1 DEF SealInv, Sealed, DerivedBy
<1> QED
  BY <1>3, <1>4

(* A handshake is sealed with the key of the secret that is derived for it.     *)
LEMMA SealPeerAnswers ==
  ASSUME TypeOK, SealInv, NEW p \in Peers, PeerReceivesWhoAreYou(p)
  PROVE  SealInv'
<1> DEFINE w == Head(wire[p])
           secret == [peer |-> p, challenge |-> w.challenge, ephem |-> Len(derived[p])]
<1>1. PICK r \in active[p] :
        LET packet == Packet(p, "Handshake", w.id, Len(derived[p]), w.enr_seq < PeerEnrSeq,
                             InitiatorKey(secret), r.packet.body)
        IN  /\ active' = [active EXCEPT ![p] = (@ \ {r}) \cup {[r EXCEPT !.packet = packet]}]
            /\ derived' = [derived EXCEPT ![p] = Append(@, secret)]
            /\ peer_session' = [peer_session EXCEPT ![p] = secret]
            /\ Transmit(packet)
  BY DEF PeerReceivesWhoAreYou
<1> DEFINE packet == Packet(p, "Handshake", w.id, Len(derived[p]), w.enr_seq < PeerEnrSeq,
                            InitiatorKey(secret), r.packet.body)
<1>2. /\ active' = [active EXCEPT ![p] = (@ \ {r}) \cup {[r EXCEPT !.packet = packet]}]
      /\ derived' = [derived EXCEPT ![p] = Append(@, secret)]
      /\ peer_session' = [peer_session EXCEPT ![p] = secret]
      /\ Transmit(packet) /\ UNCHANGED <<turn, recv_ch>>
  BY <1>1 DEF PeerReceivesWhoAreYou, handlerVars
<1>3. secret \in Secrets
  <2>1. wire[p] \in Seq(OutboundPackets) /\ wire[p] # <<>> /\ w.kind = "WhoAreYou"
    BY DEF TypeOK, PeerReceivesWhoAreYou, Arrives
  <2>2. w \in OutboundPackets
    BY <2>1, HeadTailProperties
  <2>3. w.challenge \in Nat
    BY <2>1, <2>2 DEF OutboundPackets
  <2>4. derived[p] \in Seq(Secrets)
    BY DEF TypeOK
  <2>5. Len(derived[p]) \in Nat
    BY <2>4, LenProperties
  <2> QED
    BY <2>3, <2>5 DEF Secrets
<1>4. packet.src = p /\ packet.key = InitiatorKey(secret)
  BY DEF Packet
<1>5. [r EXCEPT !.packet = packet].packet = packet
  <2>1. r \in ActiveRequests
    BY DEF TypeOK
  <2> QED
    BY <2>1 DEF ActiveRequests
<1> HIDE DEF w, secret, packet
<1>6. /\ \A q \in Peers : DerivedBy(derived, q) \subseteq DerivedBy(derived', q)
      /\ secret \in DerivedBy(derived', p)
  BY <1>2, <1>3, DerivedGrows
<1>7. \A q \in Peers : peer_session'[q] # None => peer_session'[q] \in DerivedBy(derived', q)
  BY <1>2, <1>6 DEF SealInv, TypeOK
<1>8. \A q \in Peers : \A s \in active'[q] :
        s \in active[q] \/ (q = p /\ s.packet = packet)
  <2> DEFINE new == [r EXCEPT !.packet = packet]
  <2>1. new.packet = packet /\ active' = [active EXCEPT ![p] = (active[p] \ {r}) \cup {new}]
    BY <1>2, <1>5
  <2> HIDE DEF new
  <2> QED
    BY <2>1 DEF TypeOK
<1>9. \A q \in Peers : \A s \in active'[q] :
        s.packet.src = q /\ Sealed(derived', s.packet)
  BY <1>4, <1>6, <1>8 DEF SealInv, Sealed
<1>10. \A x \in InboundPackets : Sealed(derived, x) => Sealed(derived', x)
  BY <1>6, InboundFields DEF Sealed
<1>11. /\ udp_in \in Seq(InboundPackets) /\ recv_ch \in Seq(InboundPackets)
       /\ turn # None => turn.packet \in InboundPackets
  <2>1. HandlerTypeOK
    BY DEF TypeOK
  <2>2. turn # None => turn.packet \in InboundPackets
    BY <2>1, TurnFields
  <2> QED
    BY <2>1, <2>2 DEF TypeOK, HandlerTypeOK
<1>12. \A x : x = packet => Sealed(derived', x)
  BY <1>4, <1>6 DEF Sealed
<1>13. udp_in' = udp_in \/ udp_in' = Append(udp_in, packet)
  BY <1>2 DEF Transmit
<1>14. packet \in InboundPackets
  <2>1. r \in ActiveRequests
    BY DEF TypeOK
  <2>2. r.packet.body \in Requests \cup {"Response"}
    BY <2>1, InboundFields DEF ActiveRequests
  <2>3. w.id \in Ids
    <3>1. wire[p] \in Seq(OutboundPackets) /\ wire[p] # <<>> /\ w.kind = "WhoAreYou"
      BY DEF TypeOK, PeerReceivesWhoAreYou, Arrives, w
    <3>2. w \in OutboundPackets
      BY <3>1, HeadTailProperties DEF w
    <3> QED
      BY <3>1, <3>2 DEF OutboundPackets
  <2>4. derived[p] \in Seq(Secrets) /\ InitiatorKey(secret) \in Keys
    BY <1>3 DEF TypeOK, InitiatorKey, Keys
  <2>5. Len(derived[p]) \in Nat
    BY <2>4, LenProperties
  <2> QED
    BY <2>2, <2>3, <2>4, <2>5 DEF packet, Packet, InboundPackets
<1>15. \A i \in DOMAIN udp_in' : udp_in'[i] = packet \/ \E j \in DOMAIN udp_in : udp_in'[i] = udp_in[j]
  BY <1>11, <1>13, <1>14, AppendElements
<1>16. \A i \in DOMAIN udp_in' : Sealed(derived', udp_in'[i])
  <2>1. \A j \in DOMAIN udp_in : udp_in[j] \in InboundPackets
    BY <1>11, LenProperties
  <2> QED
    BY <1>10, <1>12, <1>15, <2>1 DEF SealInv
<1>17. \A i \in DOMAIN recv_ch' : Sealed(derived', recv_ch'[i])
  <2>1. \A j \in DOMAIN recv_ch : recv_ch[j] \in InboundPackets
    BY <1>11, LenProperties
  <2> QED
    BY <1>2, <1>10, <2>1 DEF SealInv
<1>18. turn' # None => Sealed(derived', turn'.packet)
  BY <1>2, <1>10, <1>11 DEF SealInv
<1> QED
  BY <1>7, <1>9, <1>16, <1>17, <1>18 DEF SealInv, Sealed

(* What else a peer receives costs it requests and its session at most, and it  *)
(* answers with bytes that are not sealed.                                      *)
LEMMA SealPeerReceives ==
  ASSUME TypeOK, SealInv, NEW p \in Peers,
         PeerRefusesWhoAreYou(p) \/ PeerReceivesResponse(p) \/ PeerReceivesUnreadable(p)
  PROVE  SealInv'
<1> DEFINE packet == Packet(p, "WhoAreYou", [peer |-> p, n |-> 0], 0, FALSE, None, "Ping")
<1>1. /\ \A q \in Peers : active'[q] \subseteq active[q]
      /\ UNCHANGED <<turn, recv_ch, derived>>
  BY DEF PeerRefusesWhoAreYou, PeerReceivesResponse, PeerReceivesUnreadable, TypeOK, handlerVars
<1>2. \A q \in Peers : peer_session'[q] \in {peer_session[q], None}
  <2>1. CASE PeerRefusesWhoAreYou(p)
    BY <2>1 DEF PeerRefusesWhoAreYou, TypeOK
  <2>2. CASE PeerReceivesResponse(p)
    BY <2>2 DEF PeerReceivesResponse
  <2>3. CASE PeerReceivesUnreadable(p)
    BY <2>3 DEF PeerReceivesUnreadable, TypeOK
  <2> QED
    BY <2>1, <2>2, <2>3
<1>3. \A i \in DOMAIN udp_in' : Sealed(derived, udp_in'[i])
  <2>1. CASE UNCHANGED udp_in
    BY <2>1 DEF SealInv
  <2>2. CASE ~UNCHANGED udp_in
    <3>1. Transmit(packet)
      BY <2>2 DEF PeerRefusesWhoAreYou, PeerReceivesResponse, PeerReceivesUnreadable
    <3>2. packet \in InboundPackets /\ packet.key = None
      BY DEF Packet, InboundPackets, Ids, Requests
    <3> HIDE DEF packet
    <3> QED
      BY <3>1, <3>2, SealTransmit DEF Sealed
  <2> QED
    BY <2>1, <2>2
<1> QED
  BY <1>1, <1>2, <1>3 DEF SealInv, Sealed

(* The actions of a turn do not change its packet.                              *)
LEMMA SealHandler ==
  ASSUME TypeOK, SealInv, Handler
  PROVE  SealInv'
<1>1. UNCHANGED <<udp_in, active, peer_session, derived>>
  BY DEF Handler, peerVars
<1>2. CASE ProcessHandlerRequest
  BY <1>1, <1>2, SealUnchanged DEF ProcessHandlerRequest
<1>3. CASE ProcessDeclarative \/ ProcessSequential
  BY <1>1, <1>3, SealTake DEF ProcessDeclarative, ProcessSequential
<1>4. CASE RejectSequential
  <2>1. turn' = None /\ recv_ch' = <<>>
    BY <1>4 DEF RejectSequential, Panic
  <2>2. DOMAIN recv_ch' = {}
    BY <2>1
  <2> QED
    BY <1>1, <2>1, <2>2 DEF SealInv, Sealed
<1>5. CASE DoAction
  <2>1. turn # None
    BY <1>5 DEF DoAction, Ignore, SendChallenge, EstablishSession, CaptureRequest,
                SendDefaultResponse, SendCustomResponse, PanicInTurn, Acts
  <2>2. recv_ch' = recv_ch \/ recv_ch' = <<>>
    BY <1>5 DEF DoAction, Ignore, SendChallenge, EstablishSession, CaptureRequest,
                SendDefaultResponse, SendCustomResponse, SendResponse, PanicInTurn, Panic
  <2>3. turn' # None => turn'.packet = turn.packet
    BY <1>5 DEF DoAction, Ignore, SendChallenge, EstablishSession, CaptureRequest,
                SendDefaultResponse, SendCustomResponse, PanicInTurn, Panic,
                NextAction, Begin
  <2> QED
    BY <1>1, <2>1, <2>2, <2>3, SealAct
<1> QED
  BY <1>2, <1>3, <1>4, <1>5 DEF Handler, HandlerStep

LEMMA SealStep ==
  ASSUME TypeOK, SealInv, [Next]_vars
  PROVE  SealInv'
<1>1. CASE Handler
  BY <1>1, SealHandler
<1>2. CASE RecvHandler
  BY <1>2, SealRecv
<1>3. CASE SendHandler \/ SendHandlerPanics \/ UNCHANGED vars
  BY <1>3, SealUnchanged DEF SendHandler, SendHandlerPanics, vars, handlerVars, peerVars
<1>4. ASSUME NEW p \in Peers, SendRandomPacket(p) PROVE SealInv'
  BY <1>4, SealUnchanged DEF SendRandomPacket, peerVars
<1>5. ASSUME NEW p \in Peers, PeerStep(p) PROVE SealInv'
  BY <1>5, SealPeerSends, SealPeerTimesOut, SealPeerAnswers, SealPeerReceives DEF PeerStep
<1> QED
  BY <1>1, <1>2, <1>3, <1>4, <1>5 DEF Next
--------------------------------------------------------------------------------
(* The steps of the handler on what a turn has read.                            *)
ReadSame == UNCHANGED <<behaviours, turn, active_challenges>>

LEMMA ReadUnchanged == ReadInv /\ ReadSame => ReadInv'
  BY DEF ReadInv, ReadSame, EstablishesFirst, Establishes, Opens, Candidate

(* A turn goes on with the rest of its actions: if the session is not yet       *)
(* established the challenge is the one that the packet was read under.         *)
LEMMA ReadGoesOn ==
  ASSUME TypeOK, ReadInv, turn # None, NextAction, UNCHANGED behaviours,
         \/ UNCHANGED active_challenges
         \/ Head(turn.actions).op = "SendWhoAreYou"
         \/ active_challenges'[turn.packet.src] = None
  PROVE  ReadInv'
<1> DEFINE rest == Tail(turn.actions)
<1>1. turn.actions \in Seq(Actions) /\ turn.actions # <<>>
  BY TurnFields DEF TypeOK
<1>2. /\ EstablishesFirst(rest)
      /\ Establishes(rest) => Establishes(turn.actions)
      /\ Head(turn.actions).op = "SendWhoAreYou" => ~Establishes(rest)
  BY <1>1, OrderOfTail DEF ReadInv
<1>3. turn' # None => turn'.packet = turn.packet /\ turn'.actions = rest
  BY DEF NextAction, Begin
<1> HIDE DEF rest
<1>4. \A i \in DOMAIN behaviours' : EstablishesFirst(behaviours'[i].actions)
  BY DEF ReadInv
<1>5. turn' # None => EstablishesFirst(turn'.actions)
  BY <1>2, <1>3
<1>6. ASSUME turn' # None, turn'.packet.kind = "Handshake", Establishes(turn'.actions),
             active_challenges'[turn'.packet.src] # None
      PROVE  /\ active_challenges' = active_challenges
             /\ Opens(Candidate(turn.packet), turn.packet)
  <2>1. UNCHANGED active_challenges
    BY <1>2, <1>3, <1>6
  <2> QED
    BY <1>2, <1>3, <1>6, <2>1 DEF ReadInv
<1> QED
  BY <1>3, <1>4, <1>5, <1>6 DEF ReadInv, Opens, Candidate

(* A handshake is taken only when it opens under the active challenge, and with *)
(* actions in the order that the script has.                                    *)
LEMMA ReadTake ==
  ASSUME TypeOK, ReadInv, ProcessSequential
  PROVE  ReadInv'
<1> DEFINE packet == Head(recv_ch)
           entry == Head(behaviours)
<1>1. /\ behaviours # <<>> /\ behaviours' = Tail(behaviours)
      /\ Begin(packet, entry.actions) /\ UNCHANGED active_challenges
      /\ Fits(packet, entry.expect)
  BY DEF ProcessSequential
<1>2. EstablishesFirst(entry.actions)
  BY <1>1, TailElements DEF ReadInv, TypeOK, HandlerTypeOK
<1>3. \A i \in DOMAIN behaviours' : EstablishesFirst(behaviours'[i].actions)
  <2>1. behaviours \in Seq([expect : Expects, actions : Seq(Actions)])
    BY DEF TypeOK, HandlerTypeOK
  <2>2. \A i \in DOMAIN Tail(behaviours) :
          i + 1 \in DOMAIN behaviours /\ Tail(behaviours)[i] = behaviours[i + 1]
    BY <1>1, <2>1, TailElements
  <2> QED
    BY <1>1, <2>2 DEF ReadInv
<1>4. packet.kind = "Handshake" => Opens(Candidate(packet), packet)
  BY <1>1 DEF Fits, HandshakeFits, MessageFits
<1> HIDE DEF packet, entry
<1>5. turn' # None => turn'.packet = packet /\ turn'.actions = entry.actions
  BY <1>1 DEF Begin
<1> QED
  BY <1>1, <1>2, <1>3, <1>4, <1>5 DEF ReadInv, Opens, Candidate

(* A custom response that has more to answer stays in front of the rest.        *)
LEMMA ReadCustom ==
  ASSUME TypeOK, ReadInv, SendCustomResponse
  PROVE  ReadInv'
<1> DEFINE ids == Tail(Head(turn.actions).ids)
           again == [op |-> "RespondCustom", ids |-> ids]
           rest == Tail(turn.actions)
<1>1. turn # None /\ UNCHANGED <<behaviours, active_challenges>>
  BY DEF SendCustomResponse, Acts, SendResponse
<1>2. CASE NextAction
  BY <1>1, <1>2, ReadGoesOn
<1>3. CASE ~NextAction
  <2>1. turn.actions \in Seq(Actions) /\ turn.actions # <<>> /\ Head(turn.actions) \in Actions
        /\ Head(turn.actions).op = "RespondCustom"
    BY <1>1, TurnFields DEF TypeOK, SendCustomResponse, Acts
  <2>2. ids # <<>> /\ Begin(turn.packet, <<again>> \o rest)
    BY <1>3 DEF SendCustomResponse
  <2>3. again \in Actions /\ rest \in Seq(Actions)
    BY <2>1, <2>2, ActionFields, HeadTailProperties
  <2>4. EstablishesFirst(rest) /\ (Establishes(rest) => Establishes(turn.actions))
    BY <1>1, <2>1, OrderOfTail DEF ReadInv
  <2>5. again.op = "RespondCustom"
    OBVIOUS
  <2> DEFINE actions == <<again>> \o rest
  <2> HIDE DEF again, rest, ids
  <2>6. \A i \in DOMAIN actions :
          \/ actions[i] = again
          \/ i - 1 \in DOMAIN rest /\ actions[i] = rest[i - 1] /\ i \in Nat
    <3>1. <<again>> \in Seq(Actions) /\ Len(<<again>>) = 1 /\ <<again>>[1] = again
      BY <2>3
    <3>2. /\ DOMAIN actions = 1..Len(actions) /\ Len(actions) = 1 + Len(rest)
          /\ DOMAIN rest = 1..Len(rest) /\ Len(rest) \in Nat
          /\ \A i \in 1..Len(actions) :
               actions[i] = IF i <= 1 THEN <<again>>[i] ELSE rest[i - 1]
      BY <2>3, <3>1, ConcatProperties, LenProperties
    <3> HIDE DEF actions
    <3> QED
      BY <3>1, <3>2
  <2>7. turn' # None => turn'.packet = turn.packet /\ turn'.actions = actions
    BY <2>2 DEF Begin
  <2> HIDE DEF actions
  <2>8. EstablishesFirst(actions)
    <3> SUFFICES ASSUME NEW j \in DOMAIN actions, NEW k \in DOMAIN actions,
                        actions[j].op = "SendWhoAreYou", actions[k].op = "EstablishSession"
                 PROVE  k < j
      BY DEF EstablishesFirst
    <3>1. /\ j - 1 \in DOMAIN rest /\ rest[j - 1].op = "SendWhoAreYou" /\ j \in Nat
          /\ k - 1 \in DOMAIN rest /\ rest[k - 1].op = "EstablishSession" /\ k \in Nat
      BY <2>5, <2>6
    <3>2. k - 1 < j - 1
      BY <2>4, <3>1 DEF EstablishesFirst
    <3> QED
      BY <3>1, <3>2
  <2>9. Establishes(actions) => Establishes(turn.actions)
    BY <2>4, <2>5, <2>6 DEF Establishes
  <2> QED
    BY <1>1, <2>7, <2>8, <2>9 DEF ReadInv, Opens, Candidate
<1> QED
  BY <1>2, <1>3

LEMMA ReadStep ==
  ASSUME TypeOK, ReadInv, Mode = "Sequential", [Next]_vars
  PROVE  ReadInv'
<1>1. CASE Handler
  <2>1. CASE ProcessHandlerRequest
    BY <2>1, ReadUnchanged DEF ProcessHandlerRequest, ReadSame
  <2>2. CASE ProcessSequential
    BY <2>2, ReadTake
  <2>3. CASE RejectSequential \/ PanicInTurn
    BY <2>3 DEF RejectSequential, PanicInTurn, Panic, ReadInv
  <2>4. CASE Ignore \/ CaptureRequest \/ SendDefaultResponse
    BY <2>4, ReadGoesOn DEF Ignore, CaptureRequest, SendDefaultResponse, SendResponse, Acts
  <2>5. CASE SendChallenge
    BY <2>5, ReadGoesOn DEF SendChallenge, Acts
  <2>6. CASE EstablishSession
    <3>1. turn # None /\ turn.packet.src \in Peers
      BY <2>6, TurnFields DEF EstablishSession, Acts, TypeOK
    <3>2. active_challenges'[turn.packet.src] = None
      BY <2>6, <3>1 DEF EstablishSession, MapRemove, TypeOK, HandlerTypeOK
    <3> QED
      BY <2>6, <3>1, <3>2, ReadGoesOn DEF EstablishSession
  <2>7. CASE SendCustomResponse
    BY <2>7, ReadCustom
  <2>8. ~ProcessDeclarative
    BY DEF ProcessDeclarative
  <2> QED
    BY <1>1, <2>1, <2>2, <2>3, <2>4, <2>5, <2>6, <2>7, <2>8 DEF Handler, HandlerStep, DoAction
<1>2. CASE ~Handler
  <2>1. ReadSame
    BY <1>2 DEF Next, ReadSame, vars, handlerVars, RecvHandler, SendHandler,
        SendHandlerPanics, SendRandomPacket, PeerStep, PeerSendsRequest, PeerRetries,
        PeerGivesUp, PeerReceivesWhoAreYou, PeerRefusesWhoAreYou, PeerReceivesResponse,
        PeerReceivesUnreadable
  <2> QED
    BY <2>1, ReadUnchanged
<1> QED
  BY <1>1, <1>2
--------------------------------------------------------------------------------
(* What has been derived stays so, whoever takes a step.                        *)
LEMMA DerivedStays ==
  ASSUME TypeOK, [Next]_vars
  PROVE  \A q \in Peers : DerivedBy(derived, q) \subseteq DerivedBy(derived', q)
<1>1. CASE UNCHANGED derived
  BY <1>1
<1>2. ASSUME NEW p \in Peers, PeerReceivesWhoAreYou(p)
      PROVE  \A q \in Peers : DerivedBy(derived, q) \subseteq DerivedBy(derived', q)
  <2> DEFINE w == Head(wire[p])
             secret == [peer |-> p, challenge |-> w.challenge, ephem |-> Len(derived[p])]
  <2>1. derived' = [derived EXCEPT ![p] = Append(@, secret)]
    BY <1>2 DEF PeerReceivesWhoAreYou
  <2>2. wire[p] \in Seq(OutboundPackets) /\ wire[p] # <<>> /\ w.kind = "WhoAreYou"
    BY <1>2 DEF TypeOK, PeerReceivesWhoAreYou, Arrives
  <2>3. w \in OutboundPackets
    BY <2>2, HeadTailProperties
  <2>4. w.challenge \in Nat
    BY <2>2, <2>3 DEF OutboundPackets
  <2>5. derived[p] \in Seq(Secrets)
    BY DEF TypeOK
  <2>6. Len(derived[p]) \in Nat
    BY <2>5, LenProperties
  <2>7. secret \in Secrets
    BY <2>4, <2>6 DEF Secrets
  <2> HIDE DEF secret
  <2> QED
    BY <2>1, <2>7, DerivedGrows
<1> QED
  BY <1>1, <1>2
  DEF Next, vars, peerVars, handlerVars, Handler, RecvHandler, SendHandler,
      SendHandlerPanics, SendRandomPacket, PeerStep, PeerSendsRequest, PeerRetries,
      PeerGivesUp, PeerRefusesWhoAreYou, PeerReceivesResponse, PeerReceivesUnreadable

(* The key that a handshake opens under is one that its source has derived.     *)
LEMMA OpensDerived ==
  ASSUME TypeOK, SealInv, turn # None, active_challenges[turn.packet.src] # None,
         Opens(Candidate(turn.packet), turn.packet)
  PROVE  Candidate(turn.packet).decryption_key.secret
           \in DerivedBy(derived, turn.packet.src)
<1> DEFINE key == Candidate(turn.packet).decryption_key
<1>1. turn.packet.src \in Peers /\ turn.packet.ephem \in Nat
  BY TurnFields DEF TypeOK
<1>2. active_challenges[turn.packet.src] \in Nat
  BY <1>1 DEF TypeOK, HandlerTypeOK
<1>3. key \in Keys
  <2>1. Candidate(turn.packet) \in Session
    BY <1>1, <1>2, SessionTypes DEF Candidate
  <2> QED
    BY <2>1 DEF Session
<1>4. turn.packet.key = key /\ key # None
  BY <1>3, NoneAssumption DEF Opens
<1> HIDE DEF key
<1>5. PICK s \in DerivedBy(derived, turn.packet.src) : key = InitiatorKey(s)
  BY <1>4 DEF SealInv, Sealed
<1>6. key.secret = s
  BY <1>5 DEF InitiatorKey
<1> QED
  BY <1>5, <1>6 DEF key

LEMMA SessionsStep ==
  ASSUME TypeOK, SealInv, ReadInv, SessionsDerived, [Next]_vars
  PROVE  SessionsDerived'
<1>1. CASE UNCHANGED sessions
  BY <1>1, DerivedStays DEF SessionsDerived
<1>2. CASE EstablishSession
  <2>1. /\ turn # None /\ turn.packet.kind = "Handshake"
        /\ active_challenges[turn.packet.src] # None
        /\ Head(turn.actions).op = "EstablishSession"
        /\ sessions' = [sessions EXCEPT ![turn.packet.src] = Candidate(turn.packet)]
    BY <1>2 DEF EstablishSession, Acts, MapInsert
  <2>2. /\ turn.actions \in Seq(Actions) /\ turn.actions # <<>>
        /\ turn.packet.src \in Peers
    BY <2>1, TurnFields DEF TypeOK
  <2>3. Establishes(turn.actions)
    BY <2>1, <2>2, OrderOfTail DEF ReadInv
  <2>4. Candidate(turn.packet).decryption_key.secret
          \in DerivedBy(derived, turn.packet.src)
    BY <2>1, <2>3, OpensDerived DEF ReadInv
  <2>5. /\ sessions'[turn.packet.src] = Candidate(turn.packet)
        /\ \A q \in Peers \ {turn.packet.src} : sessions'[q] = sessions[q]
    BY <2>1, <2>2 DEF TypeOK, HandlerTypeOK
  <2> QED
    BY <2>2, <2>4, <2>5, DerivedStays DEF SessionsDerived
<1>3. CASE SendDefaultResponse \/ SendCustomResponse
  BY <1>3, ResponseToSource, ResponseKeepsKey, DerivedStays DEF SessionsDerived
<1>4. UNCHANGED sessions \/ EstablishSession \/ SendDefaultResponse \/ SendCustomResponse
  BY DEF Next, vars, handlerVars, Handler, HandlerStep, DoAction, ProcessHandlerRequest,
      ProcessDeclarative, ProcessSequential, RejectSequential, Ignore, SendChallenge,
      CaptureRequest, PanicInTurn, Panic, RecvHandler, SendHandler,
      SendHandlerPanics, SendRandomPacket, PeerStep, PeerSendsRequest, PeerRetries,
      PeerGivesUp, PeerReceivesWhoAreYou, PeerRefusesWhoAreYou, PeerReceivesResponse,
      PeerReceivesUnreadable
<1> QED
  BY <1>1, <1>2, <1>3, <1>4

(* A sequential mock keeps no session that its peer could not have, whatever is *)
(* lost, repeated or late, when no entry of the script establishes a session    *)
(* after it has challenged.                                                     *)
THEOREM KeysAgree ==
  ASSUME ScriptEstablishesFirst
  PROVE  Spec => []KeyAgreement
<1>1. Init => AgreeInv
  <2> SUFFICES ASSUME Init PROVE AgreeInv
    OBVIOUS
  <2>1. /\ turn = None /\ udp_in = <<>> /\ recv_ch = <<>>
        /\ \A p \in Peers : active[p] = {} /\ peer_session[p] = None /\ sessions[p] = None
        /\ Mode = "Sequential" => behaviours = Script
    BY DEF Init, HandlerInit
  <2>2. DOMAIN udp_in = {} /\ DOMAIN recv_ch = {}
    BY <2>1
  <2> QED
    BY <2>1, <2>2 DEF AgreeInv, SealInv, ReadInv, SessionsDerived, ScriptEstablishesFirst
<1>2. TypeOK /\ AgreeInv /\ [Next]_vars => AgreeInv'
  BY SealStep, ReadStep, SessionsStep DEF AgreeInv
<1>3. AgreeInv => KeyAgreement
  BY DEF AgreeInv, SessionsDerived, DerivedBy, KeyAgreement
<1> QED
  BY <1>1, <1>2, <1>3, TypeCorrect, PTL DEF Spec, SafetySpec
--------------------------------------------------------------------------------
(* ImplementsScript.  What the mock still has to send is not written down in    *)
(* its state: it has to be read off the actions that are left, against the      *)
(* entry that they come from.  So the invariant relates the three: the script's *)
(* remaining entries are what follows the entries served, and the turn's        *)
(* actions are the end of the entry served last, with the first of them a       *)
(* custom response that has lost the answers already given.                     *)
Entry == Script[Len(served)].actions
Done == Len(Entry) - Len(turn.actions)
Given == Len(AnswersOf(Entry[Done + 1])) - Len(AnswersOf(Head(turn.actions)))

QueueInv ==
  /\ Len(served) + Len(behaviours) = Len(Script)
  /\ \A i \in DOMAIN behaviours : behaviours[i] = Script[Len(served) + i]

TurnInv ==
  turn # None =>
    /\ served # <<>> /\ served[Len(served)] = turn.packet.src
    /\ Len(turn.actions) <= Len(Entry)
    /\ \A i \in 2..Len(turn.actions) : turn.actions[i] = Entry[Done + i]
    /\ Head(turn.actions).op = Entry[Done + 1].op
    /\ Given \in Nat

ScriptInv == QueueInv /\ TurnInv

(* The answers of a list of actions that are due when n of the actions are done *)
(* and g answers of the next one given.                                         *)
DueFrom(actions, n, g) ==
  UNION {{a} \X {k \in DOMAIN AnswersOf(actions[a]) : k > (IF a = n + 1 THEN g ELSE 0)} :
           a \in {b \in DOMAIN actions : b > n}}

(* The answers of an action.                                                    *)
LEMMA AnswersType ==
  ASSUME NEW a \in Actions
  PROVE  /\ AnswersOf(a) \in Seq({"WhoAreYou", "Response"})
         /\ Len(AnswersOf(a)) \in Nat /\ DOMAIN AnswersOf(a) = 1..Len(AnswersOf(a))
         /\ a.op = "SendWhoAreYou" => AnswersOf(a) = <<"WhoAreYou">>
         /\ a.op = "RespondDefault" => AnswersOf(a) = <<"Response">>
         /\ a.op = "RespondCustom" =>
              /\ Len(AnswersOf(a)) = Len(a.ids)
              /\ \A k \in 1..Len(AnswersOf(a)) : AnswersOf(a)[k] = "Response"
         /\ a.op \in {"Ignore", "EstablishSession", "CaptureRequest"} => AnswersOf(a) = <<>>
<1>1. CASE a.op = "RespondCustom"
  <2>1. a.ids \in Seq(Nat)
    BY <1>1 DEF Actions
  <2>2. Len(a.ids) \in Nat /\ DOMAIN a.ids = 1..Len(a.ids)
    BY <2>1, LenProperties
  <2>3. AnswersOf(a) = [j \in 1..Len(a.ids) |-> "Response"]
    BY <1>1, <2>2 DEF AnswersOf
  <2>4. AnswersOf(a) \in Seq({"WhoAreYou", "Response"}) /\ Len(AnswersOf(a)) = Len(a.ids)
    BY <2>2, <2>3
  <2> QED
    BY <1>1, <2>2, <2>3, <2>4
<1>2. CASE a.op # "RespondCustom"
  <2>1. a.op \in {"Ignore", "SendWhoAreYou", "EstablishSession", "RespondDefault",
                  "CaptureRequest"}
    BY <1>2 DEF Actions
  <2>2. \/ AnswersOf(a) = <<>> /\ a.op \in {"Ignore", "EstablishSession", "CaptureRequest"}
        \/ AnswersOf(a) = <<"WhoAreYou">> /\ a.op = "SendWhoAreYou"
        \/ AnswersOf(a) = <<"Response">> /\ a.op = "RespondDefault"
    BY <2>1 DEF AnswersOf
  <2>3. CASE AnswersOf(a) = <<>> /\ a.op \in {"Ignore", "EstablishSession", "CaptureRequest"}
    BY <1>2, <2>3
  <2>4. CASE AnswersOf(a) = <<"WhoAreYou">> /\ a.op = "SendWhoAreYou"
    BY <1>2, <2>4
  <2>5. CASE AnswersOf(a) = <<"Response">> /\ a.op = "RespondDefault"
    BY <1>2, <2>5
  <2> QED
    BY <2>2, <2>3, <2>4, <2>5
<1> QED
  BY <1>1, <1>2

(* An answer is due when its action is not done, or at hand and it not given.   *)
LEMMA DueMember ==
  ASSUME NEW actions \in Seq(Actions), NEW n \in Nat, NEW g \in Nat, NEW s
  PROVE  s \in DueFrom(actions, n, g) <=>
           \E a \in 1..Len(actions) : \E k \in 1..Len(AnswersOf(actions[a])) :
             s = <<a, k>> /\ a > n /\ (a = n + 1 => k > g)
<1>1. DOMAIN actions = 1..Len(actions)
  BY LenProperties
<1>2. \A a \in 1..Len(actions) : actions[a] \in Actions
  BY ElementOfSeq
<1>3. \A a \in 1..Len(actions) :
        DOMAIN AnswersOf(actions[a]) = 1..Len(AnswersOf(actions[a]))
        /\ Len(AnswersOf(actions[a])) \in Nat
  BY <1>2, AnswersType
<1> QED
  BY <1>1, <1>3 DEF DueFrom

(* At the start all answers are due, and at the end none.                       *)
LEMMA DueEnds ==
  ASSUME NEW actions \in Seq(Actions)
  PROVE  /\ DueFrom(actions, Len(actions), 0) = {}
         /\ Scripted!Due([a \in DOMAIN actions |-> AnswersOf(actions[a])])
              = DueFrom(actions, 0, 0)
<1>1. Len(actions) \in Nat /\ DOMAIN actions = 1..Len(actions)
  BY LenProperties
<1>2. ASSUME NEW s PROVE s \notin DueFrom(actions, Len(actions), 0)
  BY <1>1, DueMember
<1>3. \A a \in 1..Len(actions) :
        DOMAIN AnswersOf(actions[a]) = 1..Len(AnswersOf(actions[a]))
        /\ Len(AnswersOf(actions[a])) \in Nat
  BY ElementOfSeq, AnswersType
<1>4. ASSUME NEW s
      PROVE  s \in Scripted!Due([a \in DOMAIN actions |-> AnswersOf(actions[a])]) <=>
             \E a \in 1..Len(actions) : \E k \in 1..Len(AnswersOf(actions[a])) : s = <<a, k>>
  BY <1>1, <1>3 DEF Scripted!Due
<1>5. ASSUME NEW s
      PROVE  s \in DueFrom(actions, 0, 0) <=>
             \E a \in 1..Len(actions) : \E k \in 1..Len(AnswersOf(actions[a])) : s = <<a, k>>
  <2>1. s \in DueFrom(actions, 0, 0) <=>
          \E a \in 1..Len(actions) : \E k \in 1..Len(AnswersOf(actions[a])) :
            s = <<a, k>> /\ a > 0 /\ (a = 0 + 1 => k > 0)
    BY DueMember
  <2>2. \A a \in 1..Len(actions) : a > 0 /\ \A k \in 1..Len(AnswersOf(actions[a])) : k > 0
    BY <1>1, <1>3
  <2> QED
    BY <2>1, <2>2
<1> QED
  BY <1>2, <1>4, <1>5

(* An action that has given all its answers is done.                            *)
LEMMA DueDone ==
  ASSUME NEW actions \in Seq(Actions), NEW n \in Nat, n + 1 \in 1..Len(actions)
  PROVE  DueFrom(actions, n, Len(AnswersOf(actions[n + 1]))) = DueFrom(actions, n + 1, 0)
<1> DEFINE g == Len(AnswersOf(actions[n + 1]))
<1>1. g \in Nat
  BY ElementOfSeq, AnswersType
<1>2. \A a \in 1..Len(actions) : Len(AnswersOf(actions[a])) \in Nat
  BY ElementOfSeq, AnswersType
<1> HIDE DEF g
<1>3. ASSUME NEW s, s \in DueFrom(actions, n, g) PROVE s \in DueFrom(actions, n + 1, 0)
  <2>a. PICK a \in 1..Len(actions) : \E k \in 1..Len(AnswersOf(actions[a])) :
          s = <<a, k>> /\ a > n /\ (a = n + 1 => k > g)
    BY <1>1, <1>3, DueMember
  <2>1. PICK k \in 1..Len(AnswersOf(actions[a])) : s = <<a, k>> /\ a > n /\ (a = n + 1 => k > g)
    BY <2>a
  <2>2. a > n + 1 /\ k > 0
    BY <1>2, <2>1 DEF g
  <2> QED
    BY <2>1, <2>2, DueMember
<1>4. ASSUME NEW s, s \in DueFrom(actions, n + 1, 0) PROVE s \in DueFrom(actions, n, g)
  <2>a. PICK a \in 1..Len(actions) : \E k \in 1..Len(AnswersOf(actions[a])) :
          s = <<a, k>> /\ a > n + 1
    BY <1>4, DueMember
  <2>1. PICK k \in 1..Len(AnswersOf(actions[a])) : s = <<a, k>> /\ a > n + 1
    BY <2>a
  <2> QED
    BY <1>1, <2>1, DueMember
<1> QED
  BY <1>3, <1>4 DEF g

(* The next answer comes before all others that are due, and giving it leaves   *)
(* those.                                                                       *)
LEMMA DueNext ==
  ASSUME NEW actions \in Seq(Actions), NEW n \in Nat, NEW g \in Nat,
         n + 1 \in 1..Len(actions), g < Len(AnswersOf(actions[n + 1]))
  PROVE  /\ <<n + 1, g + 1>> \in DueFrom(actions, n, g)
         /\ \A t \in DueFrom(actions, n, g) \ {<<n + 1, g + 1>>} :
              Scripted!Before(<<n + 1, g + 1>>, t)
         /\ DueFrom(actions, n, g) \ {<<n + 1, g + 1>>} = DueFrom(actions, n, g + 1)
<1>1. \A a \in 1..Len(actions) : Len(AnswersOf(actions[a])) \in Nat
  BY ElementOfSeq, AnswersType
<1>2. <<n + 1, g + 1>> \in DueFrom(actions, n, g)
  <2>1. g + 1 \in 1..Len(AnswersOf(actions[n + 1]))
    BY <1>1
  <2> QED
    BY <2>1, DueMember
<1>3. ASSUME NEW t \in DueFrom(actions, n, g) \ {<<n + 1, g + 1>>}
      PROVE  Scripted!Before(<<n + 1, g + 1>>, t) /\ t \in DueFrom(actions, n, g + 1)
  <2>a. PICK a \in 1..Len(actions) : \E k \in 1..Len(AnswersOf(actions[a])) :
          t = <<a, k>> /\ a > n /\ (a = n + 1 => k > g)
    BY DueMember
  <2>1. PICK k \in 1..Len(AnswersOf(actions[a])) : t = <<a, k>> /\ a > n /\ (a = n + 1 => k > g)
    BY <2>a
  <2>2. a = n + 1 => k > g + 1
    BY <1>1, <2>1
  <2>3. t \in DueFrom(actions, n, g + 1)
    BY <2>1, <2>2, DueMember
  <2>4. Scripted!Before(<<n + 1, g + 1>>, <<a, k>>)
    BY <1>1, <2>1, <2>2 DEF Scripted!Before
  <2> QED
    BY <2>1, <2>3, <2>4
<1>4. ASSUME NEW t \in DueFrom(actions, n, g + 1)
      PROVE  t \in DueFrom(actions, n, g) \ {<<n + 1, g + 1>>}
  <2>a. PICK a \in 1..Len(actions) : \E k \in 1..Len(AnswersOf(actions[a])) :
          t = <<a, k>> /\ a > n /\ (a = n + 1 => k > g + 1)
    BY <1>4, DueMember
  <2>1. PICK k \in 1..Len(AnswersOf(actions[a])) : t = <<a, k>> /\ a > n /\ (a = n + 1 => k > g + 1)
    BY <2>a
  <2>2. t \in DueFrom(actions, n, g)
    BY <1>1, <2>1, DueMember
  <2>3. t # <<n + 1, g + 1>>
    BY <1>1, <2>1
  <2> QED
    BY <2>2, <2>3
<1> QED
  BY <1>2, <1>3, <1>4
--------------------------------------------------------------------------------
(* What a turn has left to send, by its place in its entry.                     *)
LEMMA DueOfTurn == turn # None => StillDue = DueFrom(Entry, Done, Given)
<1> SUFFICES ASSUME turn # None PROVE StillDue = DueFrom(Entry, Done, Given)
  OBVIOUS
<1>1. StillDue =
        UNION {{a} \X {k \in DOMAIN AnswersOf(Entry[a]) :
                         k > (IF a = Done + 1 THEN Len(AnswersOf(Entry[a]))
                                                   - Len(AnswersOf(Head(turn.actions)))
                              ELSE 0)} :
                 a \in {b \in DOMAIN Entry : b > Done}}
  BY DEF StillDue, Entry, Done
<1>2. \A a : (IF a = Done + 1 THEN Len(AnswersOf(Entry[a]))
                                  - Len(AnswersOf(Head(turn.actions)))
              ELSE 0)
             = (IF a = Done + 1 THEN Given ELSE 0)
  BY DEF Given
<1> QED
  BY <1>1, <1>2 DEF DueFrom

LEMMA DueOfNextTurn == (turn # None => StillDue = DueFrom(Entry, Done, Given))'
  BY DueOfTurn, PTL

(* Where a turn stands in its entry.                                            *)
LEMMA TurnPlace ==
  ASSUME TypeOK, ScriptInv, turn # None
  PROVE  /\ Len(served) \in 1..Len(Script)
         /\ Entry \in Seq(Actions) /\ Done \in Nat /\ Done + 1 \in 1..Len(Entry)
         /\ Len(turn.actions) \in Nat /\ Done + Len(turn.actions) = Len(Entry)
         /\ Entry[Done + 1] \in Actions /\ Head(turn.actions) \in Actions
         /\ Given \in Nat
         /\ Given + Len(AnswersOf(Head(turn.actions))) = Len(AnswersOf(Entry[Done + 1]))
         /\ Len(AnswersOf(Head(turn.actions))) \in Nat
         /\ StillDue = DueFrom(Entry, Done, Given)
<1>1. /\ turn.actions \in Seq(Actions) /\ turn.actions # <<>>
      /\ Head(turn.actions) \in Actions
  BY TurnFields DEF TypeOK
<1>2. Len(served) \in 1..Len(Script)
  <2>1. served \in Seq(Peers) /\ served # <<>>
    BY DEF ScriptInv, TurnInv, TypeOK, HandlerTypeOK
  <2>2. Len(served) \in Nat \ {0}
    BY <2>1, EmptySeq
  <2>3. Len(behaviours) \in Nat /\ Len(Script) \in Nat
    BY ScriptAssumption, LenProperties DEF TypeOK, HandlerTypeOK
  <2>4. Len(served) + Len(behaviours) = Len(Script)
    BY DEF ScriptInv, QueueInv
  <2> QED
    BY <2>2, <2>3, <2>4
<1>3. Entry \in Seq(Actions)
  <2>1. Script[Len(served)] \in [expect : Expects, actions : Seq(Actions)]
    BY <1>2, ScriptAssumption, ElementOfSeq
  <2> QED
    BY <2>1 DEF Entry
<1>4. Len(turn.actions) \in Nat \ {0} /\ Len(Entry) \in Nat
  BY <1>1, <1>3, EmptySeq, LenProperties
<1>5. Len(turn.actions) <= Len(Entry) /\ Given \in Nat
  BY DEF ScriptInv, TurnInv
<1>6. Done \in Nat /\ Done + 1 \in 1..Len(Entry) /\ Done + Len(turn.actions) = Len(Entry)
  BY <1>4, <1>5 DEF Done
<1>7. Entry[Done + 1] \in Actions
  BY <1>3, <1>6, ElementOfSeq
<1>8. Len(AnswersOf(Entry[Done + 1])) \in Nat /\ Len(AnswersOf(Head(turn.actions))) \in Nat
  BY <1>1, <1>7, AnswersType
<1> QED
  BY <1>1, <1>2, <1>3, <1>4, <1>5, <1>6, <1>7, <1>8, DueOfTurn DEF Given

(* The next action leaves what is due after this one, and keeps the place.      *)
LEMMA TurnGoesOn ==
  ASSUME TypeOK, ScriptInv, turn # None, NextAction, UNCHANGED <<served, behaviours>>
  PROVE  ScriptInv' /\ StillDue' = DueFrom(Entry, Done + 1, 0)
<1> DEFINE rest == Tail(turn.actions)
<1>1. /\ turn.actions \in Seq(Actions) /\ turn.actions # <<>> /\ rest \in Seq(Actions)
  BY TurnFields DEF TypeOK
<1>2. /\ Len(rest) = Len(turn.actions) - 1
      /\ \A i \in 1..Len(rest) : rest[i] = turn.actions[i + 1]
  BY <1>1, HeadTailProperties
<1>3. /\ Entry \in Seq(Actions) /\ Done \in Nat /\ Done + 1 \in 1..Len(Entry)
      /\ Done + Len(turn.actions) = Len(Entry) /\ Len(turn.actions) \in Nat
      /\ Len(Entry) \in Nat
  BY TurnPlace, LenProperties
<1>4. Entry' = Entry
  BY DEF Entry
<1>5. QueueInv'
  BY DEF ScriptInv, QueueInv
<1> HIDE DEF rest
<1>6. CASE rest = <<>>
  <2>1. turn' = None
    BY <1>6 DEF NextAction, Begin, rest
  <2>2. StillDue' = {}
    BY <2>1 DEF StillDue
  <2>3. Len(rest) = 0
    BY <1>6
  <2>4. Done + 1 = Len(Entry)
    BY <1>2, <1>3, <2>3
  <2>5. DueFrom(Entry, Len(Entry), 0) = {}
    BY <1>3, DueEnds
  <2> QED
    BY <1>5, <2>1, <2>2, <2>4, <2>5 DEF ScriptInv, TurnInv
<1>7. CASE rest # <<>>
  <2>1. turn' # None /\ turn'.packet = turn.packet /\ turn'.actions = rest
    <3>1. turn' = [packet |-> turn.packet, actions |-> rest]
      BY <1>7 DEF NextAction, Begin, rest
    <3>2. turn' \in Turns
      BY <1>1, <1>7, <3>1, TurnFields DEF Turns, TypeOK
    <3> QED
      BY <3>1, <3>2, TurnAssumption
  <2>2. Len(rest) \in Nat \ {0} /\ Head(rest) = rest[1]
    BY <1>1, <1>7, EmptySeq, TailElements
  <2>3. Done' = Done + 1
    <3>1. Len(Entry') = Len(Entry) /\ Len(turn'.actions) = Len(turn.actions) - 1
      BY <1>2, <1>4, <2>1
    <3>2. Len(Entry) \in Nat /\ Len(turn.actions) \in Nat
      BY <1>3
    <3>3. Done' = Len(Entry') - Len(turn'.actions)
      BY DEF Done
    <3> QED
      BY <3>1, <3>2, <3>3 DEF Done
  <2>a. \A i \in 1..Len(rest) : rest[i] = Entry'[Done' + i] /\ Done + 1 + i \in 1..Len(Entry)
    <3> SUFFICES ASSUME NEW i \in 1..Len(rest)
                 PROVE  rest[i] = Entry'[Done' + i] /\ Done + 1 + i \in 1..Len(Entry)
      OBVIOUS
    <3>1. rest[i] = turn.actions[i + 1] /\ i + 1 \in 2..Len(turn.actions)
      BY <1>2, <1>3
    <3>2. turn.actions[i + 1] = Entry[Done + (i + 1)]
      BY <3>1 DEF ScriptInv, TurnInv
    <3>3. Done + (i + 1) = Done + 1 + i /\ Done + 1 + i \in 1..Len(Entry)
      BY <1>2, <1>3
    <3> QED
      BY <1>4, <2>3, <3>1, <3>2, <3>3
  <2>4. Head(turn'.actions) = Entry'[Done' + 1] /\ Done' + 1 \in 1..Len(Entry)
    BY <2>1, <2>2, <2>3, <2>a
  <2>5. Given' = 0
    <3>1. Entry[Done' + 1] \in Actions
      BY <1>3, <2>4, ElementOfSeq
    <3>2. Len(AnswersOf(Entry'[Done' + 1])) \in Nat
      BY <1>4, <3>1, AnswersType
    <3>3. Given' = Len(AnswersOf(Entry'[Done' + 1])) - Len(AnswersOf(Head(turn'.actions)))
      BY DEF Given
    <3> QED
      BY <2>4, <3>2, <3>3
  <2>6. ScriptInv'
    <3>1. \A i \in 2..Len(turn'.actions) : turn'.actions[i] = Entry'[Done' + i]
      BY <2>1, <2>2, <2>a
    <3>2. Len(turn'.actions) <= Len(Entry')
      BY <1>2, <1>3, <1>4, <2>1
    <3> QED
      BY <1>5, <2>1, <2>4, <2>5, <3>1, <3>2 DEF ScriptInv, TurnInv
  <2>7. StillDue' = DueFrom(Entry, Done + 1, 0)
    BY <1>4, <2>1, <2>3, <2>5, DueOfNextTurn
  <2> QED
    BY <2>6, <2>7
<1> QED
  BY <1>6, <1>7
--------------------------------------------------------------------------------
(* What the script's peer sees of the packets sent.                             *)
Seen(packets) == [i \in DOMAIN packets |-> [dst |-> packets[i].dst, kind |-> packets[i].kind]]

LEMMA SeenAppend ==
  ASSUME NEW packets \in Seq(OutboundPackets), NEW packet \in OutboundPackets
  PROVE  Seen(Append(packets, packet))
           = Append(Seen(packets), [dst |-> packet.dst, kind |-> packet.kind])
<1> DEFINE Sights == {[dst |-> p.dst, kind |-> p.kind] : p \in OutboundPackets}
           n == Len(packets)
           more == Append(packets, packet)
           seen == [dst |-> packet.dst, kind |-> packet.kind]
<1>1. n \in Nat /\ DOMAIN packets = 1..n /\ \A i \in 1..n : packets[i] \in OutboundPackets
  BY LenProperties, ElementOfSeq
<1>2. more \in Seq(OutboundPackets) /\ Len(more) = n + 1 /\ DOMAIN more = 1..(n + 1)
      /\ (\A i \in 1..n : more[i] = packets[i]) /\ more[n + 1] = packet
  BY AppendProperties, LenProperties
<1>3. Seen(packets) \in Seq(Sights) /\ Len(Seen(packets)) = n
      /\ \A i \in 1..n : Seen(packets)[i] = [dst |-> packets[i].dst, kind |-> packets[i].kind]
  BY <1>1 DEF Seen
<1>4. seen \in Sights
  OBVIOUS
<1> HIDE DEF Sights, more, seen
<1>5. Append(Seen(packets), seen) \in Seq(Sights) /\ Len(Append(Seen(packets), seen)) = n + 1
      /\ (\A i \in 1..n : Append(Seen(packets), seen)[i] = Seen(packets)[i])
      /\ Append(Seen(packets), seen)[n + 1] = seen
  BY <1>1, <1>3, <1>4, AppendProperties
<1>6. /\ \A i \in 1..(n + 1) : more[i] \in OutboundPackets
      /\ \A i \in 1..(n + 1) : i \in 1..n \/ i = n + 1
  BY <1>1, <1>2
<1>7. Seen(more) = [i \in 1..(n + 1) |-> [dst |-> more[i].dst, kind |-> more[i].kind]]
  BY <1>2 DEF Seen
<1>8. Seen(more) \in Seq(Sights) /\ Len(Seen(more)) = n + 1
  BY <1>1, <1>6, <1>7 DEF Sights
<1>9. \A i \in 1..(n + 1) : Seen(more)[i] = Append(Seen(packets), seen)[i]
  BY <1>2, <1>3, <1>5, <1>6, <1>7 DEF seen
<1> QED
  BY <1>1, <1>5, <1>8, <1>9, SeqEqual DEF more, seen

(* The mapping, with its parts named, for each action of the script's peer.     *)
LEMMA ServeMaps ==
  ASSUME NEW p \in Peers, handler = "running", UNCHANGED <<handler, sent>>,
         StillDue = {}, Len(served) \in Nat, Len(served) < Len(Script),
         served' = Append(served, p),
         StillDue' = Scripted!Due([a \in DOMAIN Script[Len(served) + 1].actions |->
                                     AnswersOf(Script[Len(served) + 1].actions[a])])
  PROVE  Scripted!Next
<1> DEFINE answers == [i \in DOMAIN Script |->
              [a \in DOMAIN Script[i].actions |-> AnswersOf(Script[i].actions[a])]]
<1>1. DOMAIN Script = 1..Len(Script) /\ Len(Script) \in Nat
  BY ScriptAssumption, LenProperties
<1>2. Len(answers) = Len(Script) /\ Len(served) + 1 \in DOMAIN Script
  BY <1>1
<1>3. Scripted!Serve(p)
  BY <1>2 DEF Scripted!Serve
<1> QED
  BY <1>3 DEF Scripted!Next

LEMMA ReplyMaps ==
  ASSUME NEW s \in StillDue, handler = "running", UNCHANGED <<handler, served>>,
         \A t \in StillDue \ {s} : Scripted!Before(s, t),
         StillDue' = StillDue \ {s}, Len(served) \in DOMAIN Script,
         s[1] \in DOMAIN Script[Len(served)].actions,
         Seen(sent)' = Append(Seen(sent),
                              [dst  |-> served[Len(served)],
                               kind |-> AnswersOf(Script[Len(served)].actions[s[1]])[s[2]]])
  PROVE  Scripted!Next
<1>1. Scripted!Reply
  BY DEF Scripted!Reply, Seen
<1> QED
  BY <1>1 DEF Scripted!Next

LEMMA VolunteerMaps ==
  ASSUME NEW p \in Peers, handler = "running", UNCHANGED <<handler, served>>,
         StillDue = {}, StillDue' = {},
         Seen(sent)' = Append(Seen(sent), [dst |-> p, kind |-> "Random"])
  PROVE  Scripted!Next
<1>1. Scripted!Volunteer(p)
  BY DEF Scripted!Volunteer, Seen
<1> QED
  BY <1>1 DEF Scripted!Next

LEMMA DieMaps ==
  ASSUME handler = "running", handler' # "running", StillDue' = {},
         UNCHANGED <<served, sent>>
  PROVE  Scripted!Next
<1>1. Scripted!Die
  BY DEF Scripted!Die
<1> QED
  BY <1>1 DEF Scripted!Next

LEMMA StutterMaps ==
  ASSUME UNCHANGED <<handler, served, sent, StillDue>>
  PROVE  UNCHANGED Scripted!vars
  BY DEF Scripted!vars
--------------------------------------------------------------------------------
ScriptStep == ScriptInv' /\ [Scripted!Next]_(Scripted!vars)

(* Steps that leave the script and the turn alone, and send nothing.            *)
LEMMA ScriptUnchanged ==
  ASSUME ScriptInv, UNCHANGED <<handler, behaviours, turn, served, sent>>
  PROVE  ScriptStep
<1>1. Entry' = Entry /\ Done' = Done /\ Given' = Given
  BY DEF Entry, Done, Given
<1>2. ScriptInv'
  BY <1>1 DEF ScriptInv, QueueInv, TurnInv
<1>3. UNCHANGED StillDue
  BY DEF StillDue
<1> QED
  BY <1>2, <1>3, StutterMaps DEF ScriptStep

(* A packet is taken: its entry is the next of the script, and the turn starts  *)
(* at its first action.                                                         *)
LEMMA ScriptTake ==
  ASSUME TypeOK, ScriptInv, ProcessSequential
  PROVE  ScriptStep
<1> DEFINE packet == Head(recv_ch)
           entry == Head(behaviours)
           n == Len(served)
<1>1. /\ handler = "running" /\ turn = None /\ recv_ch # <<>> /\ behaviours # <<>>
      /\ behaviours' = Tail(behaviours) /\ served' = Append(served, packet.src)
      /\ Begin(packet, entry.actions) /\ UNCHANGED <<handler, sent>>
  BY DEF ProcessSequential, Idle
<1>2. packet \in InboundPackets /\ packet.src \in Peers
  <2>1. packet \in InboundPackets
    BY <1>1, HeadTailProperties DEF TypeOK, HandlerTypeOK
  <2> QED
    BY <2>1, InboundFields
<1> HIDE DEF packet
<1>3. /\ n \in Nat /\ served' # <<>> /\ Len(served') = n + 1 /\ served'[n + 1] = packet.src
  <2>1. served \in Seq(Peers)
    BY DEF TypeOK, HandlerTypeOK
  <2>2. Append(served, packet.src) # <<>>
    BY <1>2, <2>1, AppendProperties
  <2> QED
    BY <1>1, <1>2, <2>1, <2>2, AppendProperties, LenProperties
<1>4. /\ 1 \in DOMAIN behaviours /\ entry = behaviours[1]
      /\ \A i \in DOMAIN Tail(behaviours) :
           i \in Nat /\ i + 1 \in DOMAIN behaviours /\ Tail(behaviours)[i] = behaviours[i + 1]
      /\ Len(behaviours) \in Nat \ {0} /\ Len(Tail(behaviours)) = Len(behaviours) - 1
  <2>1. behaviours \in Seq([expect : Expects, actions : Seq(Actions)])
    BY DEF TypeOK, HandlerTypeOK
  <2> QED
    BY <1>1, <2>1, TailElements, HeadTailProperties, EmptySeq
<1>5. entry = Script[n + 1] /\ n < Len(Script) /\ n + 1 \in 1..Len(Script)
  <2>1. n + Len(behaviours) = Len(Script) /\ behaviours[1] = Script[n + 1]
    BY <1>4 DEF ScriptInv, QueueInv
  <2>2. Len(Script) \in Nat
    BY ScriptAssumption, LenProperties
  <2> QED
    BY <1>3, <1>4, <2>1, <2>2
<1> HIDE DEF entry
<1>6. entry.actions \in Seq(Actions) /\ Len(entry.actions) \in Nat
  <2>1. entry \in [expect : Expects, actions : Seq(Actions)]
    BY <1>5, ScriptAssumption, ElementOfSeq
  <2> QED
    BY <2>1, LenProperties
<1>7. QueueInv'
  <2>1. \A i \in DOMAIN Tail(behaviours) : Tail(behaviours)[i] = Script[n + (i + 1)]
    BY <1>4 DEF ScriptInv, QueueInv
  <2>2. \A i \in DOMAIN behaviours' : behaviours'[i] = Script[Len(served') + i]
    BY <1>1, <1>3, <1>4, <2>1
  <2>3. Len(served') + Len(behaviours') = Len(Script)
    <3>1. n + Len(behaviours) = Len(Script)
      BY DEF ScriptInv, QueueInv
    <3> QED
      BY <1>1, <1>3, <1>4, <3>1
  <2> QED
    BY <2>2, <2>3 DEF QueueInv
<1>8. Entry' = entry.actions
  BY <1>3, <1>5 DEF Entry
<1> HIDE DEF n
<1>9. TurnInv' /\ StillDue' = DueFrom(entry.actions, 0, 0)
  <2>1. CASE entry.actions = <<>>
    <3>1. turn' = None
      BY <1>1, <2>1 DEF Begin
    <3>2. StillDue' = {}
      BY <3>1 DEF StillDue
    <3>3. DueFrom(entry.actions, 0, 0) = {}
      BY <1>6, <2>1, DueEnds
    <3> QED
      BY <3>1, <3>2, <3>3 DEF TurnInv
  <2>2. CASE entry.actions # <<>>
    <3>1. turn' # None /\ turn'.packet = packet /\ turn'.actions = entry.actions
      <4>1. turn' = [packet |-> packet, actions |-> entry.actions]
        BY <1>1, <2>2 DEF Begin
      <4>2. turn' \in Turns
        BY <1>2, <1>6, <2>2, <4>1 DEF Turns
      <4> QED
        BY <4>1, <4>2, TurnAssumption
    <3>2. Done' = 0
      <4>1. Done' = Len(Entry') - Len(turn'.actions)
        BY DEF Done
      <4> QED
        BY <1>6, <1>8, <3>1, <4>1
    <3>3. 1 \in DOMAIN entry.actions /\ Head(entry.actions) = entry.actions[1]
          /\ DOMAIN entry.actions = 1..Len(entry.actions)
      BY <1>6, <2>2, TailElements, LenProperties
    <3>4. Head(turn'.actions) = Entry'[Done' + 1]
      BY <1>8, <3>1, <3>2, <3>3
    <3>5. Given' = 0
      <4>1. entry.actions[1] \in Actions
        BY <1>6, <3>3, ElementOfSeq
      <4>2. Len(AnswersOf(Entry'[Done' + 1])) \in Nat
        BY <1>8, <3>2, <4>1, AnswersType
      <4>3. Given' = Len(AnswersOf(Entry'[Done' + 1])) - Len(AnswersOf(Head(turn'.actions)))
        BY DEF Given
      <4> QED
        BY <3>4, <4>2, <4>3
    <3>6. \A i \in 2..Len(turn'.actions) : turn'.actions[i] = Entry'[Done' + i]
      BY <1>6, <1>8, <3>1, <3>2
    <3>7. Len(turn'.actions) <= Len(Entry')
      BY <1>6, <1>8, <3>1
    <3>8. TurnInv'
      BY <1>3, <3>1, <3>4, <3>5, <3>6, <3>7 DEF TurnInv, n
    <3> QED
      BY <1>8, <3>1, <3>2, <3>5, <3>8, DueOfNextTurn
  <2> QED
    BY <2>1, <2>2
<1>10. Scripted!Next
  <2>1. StillDue' = Scripted!Due([a \in DOMAIN entry.actions |-> AnswersOf(entry.actions[a])])
    BY <1>6, <1>9, DueEnds
  <2>2. StillDue = {}
    BY <1>1 DEF StillDue
  <2> QED
    BY <1>1, <1>2, <1>3, <1>5, <2>1, <2>2, ServeMaps DEF n
<1> QED
  BY <1>7, <1>9, <1>10 DEF ScriptStep, ScriptInv

(* A random packet, which is no answer.                                         *)
LEMMA ScriptRandom ==
  ASSUME TypeOK, ScriptInv, ProcessHandlerRequest
  PROVE  ScriptStep
<1>1. /\ handler = "running" /\ turn = None /\ from_mock # <<>>
      /\ UNCHANGED <<handler, behaviours, turn, served>>
  BY DEF ProcessHandlerRequest, Idle
<1>2. CASE UNCHANGED sent
  BY <1>1, <1>2, ScriptUnchanged
<1>3. CASE Send([kind |-> "Random", dst |-> Head(from_mock)])
  <2> DEFINE packet == [kind |-> "Random", dst |-> Head(from_mock)]
  <2>1. Head(from_mock) \in Peers
    BY <1>1, HeadTailProperties DEF TypeOK, HandlerTypeOK
  <2>2. packet \in OutboundPackets
    BY <2>1, OutboundFields
  <2>3. packet.dst = Head(from_mock) /\ packet.kind = "Random"
    OBVIOUS
  <2> HIDE DEF packet
  <2>4. Seen(sent') = Append(Seen(sent), [dst |-> Head(from_mock), kind |-> "Random"])
    <3>1. sent' = Append(sent, packet)
      BY <1>3 DEF Send, packet
    <3>2. Seen(Append(sent, packet))
            = Append(Seen(sent), [dst |-> packet.dst, kind |-> packet.kind])
      BY <2>2, SeenAppend DEF TypeOK, HandlerTypeOK
    <3> QED
      BY <2>3, <3>1, <3>2
  <2>5. StillDue = {} /\ StillDue' = {}
    BY <1>1 DEF StillDue
  <2>6. Scripted!Next
    BY <1>1, <2>1, <2>4, <2>5, VolunteerMaps DEF Seen
  <2>7. ScriptInv'
    BY <1>1 DEF ScriptInv, QueueInv, TurnInv
  <2> QED
    BY <2>6, <2>7 DEF ScriptStep
<1> QED
  BY <1>2, <1>3 DEF ProcessHandlerRequest

(* The death of the handler.                                                    *)
LEMMA ScriptDies ==
  ASSUME ScriptInv, handler = "running", Panic
  PROVE  ScriptStep
<1>1. /\ handler' # "running" /\ turn' = None /\ UNCHANGED <<behaviours, served, sent>>
  BY DEF Panic
<1>2. StillDue' = {}
  BY <1>1 DEF StillDue
<1>3. ScriptInv'
  BY <1>1 DEF ScriptInv, QueueInv, TurnInv
<1> QED
  BY <1>1, <1>2, <1>3, DieMaps DEF ScriptStep

(* An action without an answer.                                                 *)
LEMMA ScriptSilent ==
  ASSUME TypeOK, ScriptInv, turn # None, NextAction,
         UNCHANGED <<handler, behaviours, served, sent>>,
         Head(turn.actions).op \in {"Ignore", "EstablishSession", "CaptureRequest"}
  PROVE  ScriptStep
<1>1. /\ Entry \in Seq(Actions) /\ Done \in Nat /\ Done + 1 \in 1..Len(Entry)
      /\ Entry[Done + 1] \in Actions /\ StillDue = DueFrom(Entry, Done, Given)
      /\ Given + Len(AnswersOf(Head(turn.actions))) = Len(AnswersOf(Entry[Done + 1]))
      /\ Given \in Nat /\ Head(turn.actions) \in Actions
  BY TurnPlace
<1>2. AnswersOf(Head(turn.actions)) = <<>>
  BY <1>1, AnswersType
<1>3. Given = Len(AnswersOf(Entry[Done + 1]))
  BY <1>1, <1>2
<1>4. ScriptInv' /\ StillDue' = StillDue
  BY <1>1, <1>3, TurnGoesOn, DueDone
<1> QED
  BY <1>4, StutterMaps DEF ScriptStep

(* An answer goes out, to the source of the packet and of the kind that is due. *)
LEMMA ScriptAnswer ==
  ASSUME TypeOK, ScriptInv, turn # None, handler = "running",
         UNCHANGED <<handler, behaviours, served>>, ScriptInv',
         NEW packet \in OutboundPackets, sent' = Append(sent, packet),
         packet.dst = turn.packet.src,
         Given < Len(AnswersOf(Entry[Done + 1])),
         packet.kind = AnswersOf(Entry[Done + 1])[Given + 1],
         StillDue' = DueFrom(Entry, Done, Given + 1)
  PROVE  ScriptStep
<1> DEFINE s == <<Done + 1, Given + 1>>
<1>1. /\ Entry \in Seq(Actions) /\ Done \in Nat /\ Done + 1 \in 1..Len(Entry)
      /\ StillDue = DueFrom(Entry, Done, Given) /\ Given \in Nat
      /\ Len(served) \in 1..Len(Script)
  BY TurnPlace
<1>2. /\ s \in StillDue /\ StillDue' = StillDue \ {s}
      /\ \A t \in StillDue \ {s} : Scripted!Before(s, t)
  BY <1>1, DueNext
<1>3. Seen(sent') = Append(Seen(sent), [dst |-> packet.dst, kind |-> packet.kind])
  BY SeenAppend DEF TypeOK, HandlerTypeOK
<1>4. s[1] = Done + 1 /\ s[2] = Given + 1
  OBVIOUS
<1>5. /\ Len(served) \in DOMAIN Script /\ Done + 1 \in DOMAIN Script[Len(served)].actions
      /\ DOMAIN Script = 1..Len(Script)
  BY <1>1, ScriptAssumption, LenProperties DEF Entry
<1> HIDE DEF s
<1>6. Seen(sent)' = Append(Seen(sent),
          [dst  |-> served[Len(served)],
           kind |-> AnswersOf(Script[Len(served)].actions[s[1]])[s[2]]])
  <2>1. Seen(sent)' = Seen(sent')
    BY DEF Seen
  <2>2. packet.dst = served[Len(served)]
    BY DEF ScriptInv, TurnInv
  <2> QED
    BY <1>3, <1>4, <2>1, <2>2 DEF Entry
<1>7. Scripted!Next
  BY <1>2, <1>4, <1>5, <1>6, ReplyMaps
<1> QED
  BY <1>7 DEF ScriptStep
(* The only, or the last, answer of an action.                                  *)
LEMMA ScriptLastAnswer ==
  ASSUME TypeOK, ScriptInv, turn # None, handler = "running", NextAction,
         UNCHANGED <<handler, behaviours, served>>,
         NEW packet \in OutboundPackets, sent' = Append(sent, packet),
         packet.dst = turn.packet.src,
         Len(AnswersOf(Head(turn.actions))) = 1,
         packet.kind = AnswersOf(Entry[Done + 1])[Given + 1]
  PROVE  ScriptStep
<1>1. /\ Entry \in Seq(Actions) /\ Done \in Nat /\ Done + 1 \in 1..Len(Entry)
      /\ Given \in Nat
      /\ Given + Len(AnswersOf(Head(turn.actions))) = Len(AnswersOf(Entry[Done + 1]))
  BY TurnPlace
<1>2. Given + 1 = Len(AnswersOf(Entry[Done + 1])) /\ Given < Len(AnswersOf(Entry[Done + 1]))
  <2>1. Len(AnswersOf(Head(turn.actions))) = 1
    OBVIOUS
  <2>2. Len(AnswersOf(Entry[Done + 1])) = Given + 1
    BY <1>1, <2>1
  <2> QED
    BY <1>1, <2>2
<1>3. ScriptInv' /\ StillDue' = DueFrom(Entry, Done, Given + 1)
  BY <1>1, <1>2, TurnGoesOn, DueDone
<1> QED
  BY <1>2, <1>3, ScriptAnswer

(* A challenge.                                                                 *)
LEMMA ScriptChallenges ==
  ASSUME TypeOK, ScriptInv, SendChallenge
  PROVE  ScriptStep
<1> DEFINE packet == [kind |-> "WhoAreYou", dst |-> turn.packet.src, id |-> turn.packet.id,
                      challenge |-> next_challenge, enr_seq |-> 0]
<1>1. /\ turn # None /\ handler = "running" /\ Head(turn.actions).op = "SendWhoAreYou"
      /\ NextAction /\ UNCHANGED <<handler, behaviours, served>>
      /\ sent' = Append(sent, packet)
  BY DEF SendChallenge, Acts, Send
<1>2. packet \in OutboundPackets
  <2>1. turn.packet.src \in Peers /\ turn.packet.id \in Ids /\ next_challenge \in Nat
    BY <1>1, TurnFields DEF TypeOK, HandlerTypeOK
  <2> QED
    BY <2>1, OutboundFields
<1>3. packet.dst = turn.packet.src /\ packet.kind = "WhoAreYou"
  OBVIOUS
<1> HIDE DEF packet
<1>4. /\ Head(turn.actions) \in Actions /\ Entry[Done + 1] \in Actions /\ Given \in Nat
      /\ Given + Len(AnswersOf(Head(turn.actions))) = Len(AnswersOf(Entry[Done + 1]))
      /\ Entry[Done + 1].op = "SendWhoAreYou"
  BY <1>1, TurnPlace DEF ScriptInv, TurnInv
<1>5. AnswersOf(Head(turn.actions)) = <<"WhoAreYou">> /\ AnswersOf(Entry[Done + 1]) = <<"WhoAreYou">>
  BY <1>1, <1>4, AnswersType
<1>6. Len(AnswersOf(Head(turn.actions))) = 1 /\ Given + 1 = 1
      /\ AnswersOf(Entry[Done + 1])[1] = "WhoAreYou"
  <2>1. Len(<<"WhoAreYou">>) = 1 /\ <<"WhoAreYou">>[1] = "WhoAreYou"
    OBVIOUS
  <2>2. Given = 0
    <3>1. Len(AnswersOf(Head(turn.actions))) = 1 /\ Len(AnswersOf(Entry[Done + 1])) = 1
      BY <1>5, <2>1
    <3>2. Given \in Nat /\ Given + 1 = 1
      <4>1. Given \in Nat
        BY <1>4
      <4>2. Given + Len(AnswersOf(Head(turn.actions))) = Len(AnswersOf(Entry[Done + 1]))
        BY <1>4
      <4> QED
        BY <3>1, <4>1, <4>2, Zenon
    <3> QED
      BY <3>2
  <2> QED
    BY <1>5, <2>1, <2>2
<1> QED
  BY <1>1, <1>2, <1>3, <1>6, ScriptLastAnswer

(* What a response is to the script.                                            *)
LEMMA ResponseSent ==
  ASSUME TypeOK, NEW p \in Peers, NEW id \in Ids, sessions[p] # None, SendResponse(p, id)
  PROVE  /\ UNCHANGED <<handler, behaviours, served>>
         /\ \E packet \in OutboundPackets :
              sent' = Append(sent, packet) /\ packet.dst = p /\ packet.kind = "Response"
<1> DEFINE s == Advanced(sessions[p])
           packet == [kind |-> "Response", dst |-> p, id |-> id,
                      key |-> s.encryption_key, counter |-> s.counter]
<1>1. sessions[p] \in Session
  BY DEF TypeOK, HandlerTypeOK
<1>2. packet \in OutboundPackets
  BY <1>1, SessionTypes, OutboundFields
<1>3. packet.dst = p /\ packet.kind = "Response"
  OBVIOUS
<1>4. sent' = Append(sent, packet) /\ UNCHANGED <<handler, behaviours, served>>
  BY DEF SendResponse, Send
<1> QED
  BY <1>2, <1>3, <1>4

LEMMA ScriptDefault ==
  ASSUME TypeOK, ScriptInv, SendDefaultResponse
  PROVE  ScriptStep
<1>1. /\ turn # None /\ handler = "running" /\ Head(turn.actions).op = "RespondDefault"
      /\ NextAction /\ SendResponse(turn.packet.src, turn.packet.id)
      /\ sessions[turn.packet.src] # None
  BY DEF SendDefaultResponse, Acts, ReadsRequest
<1>2. turn.packet.src \in Peers /\ turn.packet.id \in Ids
  BY <1>1, TurnFields DEF TypeOK
<1>3. UNCHANGED <<handler, behaviours, served>>
  BY <1>1, <1>2, ResponseSent
<1>4. PICK packet \in OutboundPackets :
        sent' = Append(sent, packet) /\ packet.dst = turn.packet.src /\ packet.kind = "Response"
  BY <1>1, <1>2, ResponseSent
<1>5. /\ Head(turn.actions) \in Actions /\ Entry[Done + 1] \in Actions /\ Given \in Nat
      /\ Given + Len(AnswersOf(Head(turn.actions))) = Len(AnswersOf(Entry[Done + 1]))
      /\ Entry[Done + 1].op = "RespondDefault"
  BY <1>1, TurnPlace DEF ScriptInv, TurnInv
<1>6. AnswersOf(Head(turn.actions)) = <<"Response">> /\ AnswersOf(Entry[Done + 1]) = <<"Response">>
  BY <1>1, <1>5, AnswersType
<1>7. Len(AnswersOf(Head(turn.actions))) = 1 /\ Given + 1 = 1
      /\ AnswersOf(Entry[Done + 1])[1] = "Response"
  <2>1. Len(<<"Response">>) = 1 /\ <<"Response">>[1] = "Response"
    OBVIOUS
  <2>2. Given = 0
    <3>1. Len(AnswersOf(Head(turn.actions))) = 1 /\ Len(AnswersOf(Entry[Done + 1])) = 1
      BY <1>6, <2>1
    <3>2. Given \in Nat /\ Given + 1 = 1
      <4>1. Given \in Nat
        BY <1>5
      <4>2. Given + Len(AnswersOf(Head(turn.actions))) = Len(AnswersOf(Entry[Done + 1]))
        BY <1>5
      <4> QED
        BY <3>1, <4>1, <4>2, Zenon
    <3> QED
      BY <3>2
  <2> QED
    BY <1>6, <2>1, <2>2
<1> QED
  BY <1>1, <1>3, <1>4, <1>7, ScriptLastAnswer

(* A custom response that has more answers to give stays in front of the rest.  *)
LEMMA TurnStays ==
  ASSUME TypeOK, ScriptInv, turn # None, UNCHANGED <<served, behaviours>>,
         NEW again \in Actions, again.op = Head(turn.actions).op,
         Len(AnswersOf(again)) + 1 = Len(AnswersOf(Head(turn.actions))),
         Begin(turn.packet, <<again>> \o Tail(turn.actions))
  PROVE  ScriptInv' /\ StillDue' = DueFrom(Entry, Done, Given + 1)
<1> DEFINE rest == Tail(turn.actions)
           actions == <<again>> \o rest
<1>1. /\ turn.actions \in Seq(Actions) /\ turn.actions # <<>> /\ rest \in Seq(Actions)
      /\ turn.packet \in InboundPackets
  BY TurnFields DEF TypeOK
<1>2. /\ Len(rest) = Len(turn.actions) - 1 /\ Len(rest) \in Nat /\ Len(turn.actions) \in Nat
      /\ \A i \in 1..Len(rest) : rest[i] = turn.actions[i + 1]
  BY <1>1, HeadTailProperties, LenProperties
<1>3. /\ Entry \in Seq(Actions) /\ Done \in Nat /\ Done + 1 \in 1..Len(Entry)
      /\ Len(Entry) \in Nat /\ Entry[Done + 1] \in Actions /\ Given \in Nat
      /\ Given + Len(AnswersOf(Head(turn.actions))) = Len(AnswersOf(Entry[Done + 1]))
  BY TurnPlace, LenProperties
<1>4. Len(AnswersOf(again)) \in Nat
  BY AnswersType
<1>5. /\ actions \in Seq(Actions) /\ Len(actions) = Len(turn.actions)
      /\ actions[1] = again /\ actions # <<>>
      /\ \A i \in 2..Len(actions) : actions[i] = turn.actions[i]
  <2>1. <<again>> \in Seq(Actions) /\ Len(<<again>>) = 1 /\ <<again>>[1] = again
    OBVIOUS
  <2> HIDE DEF rest
  <2>2. /\ actions \in Seq(Actions) /\ Len(actions) = 1 + Len(rest)
        /\ \A i \in 1..(1 + Len(rest)) :
             actions[i] = IF i <= 1 THEN <<again>>[i] ELSE rest[i - 1]
    BY <1>1, <2>1, ConcatProperties
  <2> HIDE DEF actions
  <2>3. Len(actions) = Len(turn.actions) /\ actions[1] = again /\ actions # <<>>
    BY <1>2, <2>1, <2>2
  <2>4. ASSUME NEW i \in 2..Len(actions) PROVE actions[i] = turn.actions[i]
    <3>1. actions[i] = rest[i - 1] /\ i - 1 \in 1..Len(rest) /\ (i - 1) + 1 = i
      BY <1>2, <2>2
    <3> QED
      BY <1>2, <3>1
  <2> QED
    BY <2>2, <2>3, <2>4
<1>6. Head(actions) = again
  BY <1>5, TailElements
<1>7. Begin(turn.packet, actions)
  OBVIOUS
<1> HIDE DEF actions, rest
<1>8. turn' # None /\ turn'.packet = turn.packet /\ turn'.actions = actions
  <2>1. turn' = [packet |-> turn.packet, actions |-> actions]
    BY <1>5, <1>7 DEF Begin
  <2>2. turn' \in Turns
    BY <1>1, <1>5, <2>1 DEF Turns
  <2> QED
    BY <2>1, <2>2, TurnAssumption
<1>9. Entry' = Entry
  BY DEF Entry
<1>10. Done' = Done
  BY <1>5, <1>8, <1>9 DEF Done
<1>11. Given' = Given + 1
  <2>1. Given' = Len(AnswersOf(Entry'[Done' + 1])) - Len(AnswersOf(Head(turn'.actions)))
    BY DEF Given
  <2> QED
    BY <1>3, <1>4, <1>6, <1>8, <1>9, <1>10, <2>1
<1>12. ScriptInv'
  <2>1. QueueInv'
    BY DEF ScriptInv, QueueInv
  <2>2. \A i \in 2..Len(turn'.actions) : turn'.actions[i] = Entry'[Done' + i]
    BY <1>5, <1>8, <1>9, <1>10 DEF ScriptInv, TurnInv
  <2>3. TurnInv'
    BY <1>3, <1>5, <1>6, <1>8, <1>9, <1>10, <1>11, <2>2 DEF ScriptInv, TurnInv
  <2> QED
    BY <2>1, <2>3 DEF ScriptInv
<1> QED
  BY <1>8, <1>9, <1>10, <1>11, <1>12, DueOfNextTurn

(* A custom response: one answer, and the turn goes on with what is left of it  *)
(* or with the next action.                                                     *)
LEMMA ScriptCustom ==
  ASSUME TypeOK, ScriptInv, SendCustomResponse
  PROVE  ScriptStep
<1> DEFINE action == Head(turn.actions)
           left == Tail(action.ids)
           again == [op |-> "RespondCustom", ids |-> left]
<1>1. /\ turn # None /\ handler = "running" /\ action.op = "RespondCustom"
      /\ SendResponse(turn.packet.src, CapturedId(Head(action.ids)))
      /\ sessions[turn.packet.src] # None
      /\ Head(action.ids) < Len(captured_requests)
      /\ IF left = <<>> THEN NextAction
         ELSE Begin(turn.packet, <<again>> \o Tail(turn.actions))
  BY DEF SendCustomResponse, Acts, ReadsRequest
<1>2. turn.packet.src \in Peers /\ action \in Actions
  BY <1>1, TurnFields DEF TypeOK
<1>3. /\ Head(action.ids) \in Nat /\ left \in Seq(Nat)
      /\ Len(action.ids) = Len(left) + 1 /\ Len(left) \in Nat
      /\ left # <<>> => again \in Actions
  <2>1. action.ids \in Seq(Nat) /\ action.ids # <<>>
    BY <1>1, <1>2 DEF Actions
  <2>2. Head(action.ids) \in Nat /\ left \in Seq(Nat) /\ Len(left) = Len(action.ids) - 1
        /\ Len(action.ids) \in Nat /\ Len(left) \in Nat
    BY <2>1, HeadTailProperties, LenProperties
  <2> QED
    <3>1. left # <<>> => again \in Actions
      BY <1>1, <1>2, ActionFields
    <3>2. Len(action.ids) = Len(left) + 1
      BY <2>2
    <3> QED
      BY <2>2, <3>1, <3>2
<1>4. CapturedId(Head(action.ids)) \in Ids
  <2>1. captured_requests \in Seq(Ids) /\ Len(captured_requests) \in Nat
    BY LenProperties DEF TypeOK, HandlerTypeOK
  <2>2. Head(action.ids) + 1 \in 1..Len(captured_requests)
    <3>1. Head(action.ids) < Len(captured_requests) /\ Head(action.ids) \in Nat
      BY <1>1, <1>3
    <3> HIDE DEF action
    <3> QED
      BY <2>1, <3>1
  <2> QED
    BY <2>1, <2>2, ElementOfSeq DEF CapturedId
<1>5. again.op = "RespondCustom" /\ again.ids = left
  OBVIOUS
<1> HIDE DEF action, left, again
<1>6. UNCHANGED <<handler, behaviours, served>>
  BY <1>1, <1>2, <1>4, ResponseSent
<1>7. PICK packet \in OutboundPackets :
        sent' = Append(sent, packet) /\ packet.dst = turn.packet.src /\ packet.kind = "Response"
  BY <1>1, <1>2, <1>4, ResponseSent
<1>8. /\ Entry[Done + 1] \in Actions /\ Given \in Nat
      /\ Given + Len(AnswersOf(action)) = Len(AnswersOf(Entry[Done + 1]))
      /\ Entry[Done + 1].op = "RespondCustom"
  BY <1>1, TurnPlace DEF ScriptInv, TurnInv, action
<1>9. /\ Len(AnswersOf(action)) = Len(left) + 1
      /\ \A k \in 1..Len(AnswersOf(Entry[Done + 1])) :
           AnswersOf(Entry[Done + 1])[k] = "Response"
  BY <1>1, <1>2, <1>3, <1>8, AnswersType
<1>10. /\ Given < Len(AnswersOf(Entry[Done + 1]))
       /\ packet.kind = AnswersOf(Entry[Done + 1])[Given + 1]
  <2>1. Given + 1 \in 1..Len(AnswersOf(Entry[Done + 1]))
    BY <1>3, <1>8, <1>9
  <2> QED
    BY <1>3, <1>7, <1>8, <1>9, <2>1
<1>11. CASE left = <<>>
  <2>1. Len(AnswersOf(Head(turn.actions))) = 1
    BY <1>9, <1>11 DEF action
  <2> QED
    BY <1>1, <1>6, <1>7, <1>10, <1>11, <2>1, ScriptLastAnswer
<1>12. CASE left # <<>>
  <2>1. again \in Actions /\ Len(AnswersOf(again)) + 1 = Len(AnswersOf(action))
    BY <1>3, <1>5, <1>9, <1>12, AnswersType
  <2>2. ScriptInv' /\ StillDue' = DueFrom(Entry, Done, Given + 1)
    BY <1>1, <1>5, <1>6, <1>12, <2>1, TurnStays DEF action
  <2> QED
    BY <1>1, <1>6, <1>7, <1>10, <2>2, ScriptAnswer
<1> QED
  BY <1>11, <1>12

(* Every step of the system is one of the script's peer, or none.               *)
LEMMA ScriptNext ==
  ASSUME TypeOK, ScriptInv, Mode = "Sequential", [Next]_vars
  PROVE  ScriptStep
<1>1. CASE Handler
  <2>1. CASE ProcessHandlerRequest
    BY <2>1, ScriptRandom
  <2>2. CASE ProcessSequential
    BY <2>2, ScriptTake
  <2>3. CASE RejectSequential \/ PanicInTurn
    BY <2>3, ScriptDies DEF RejectSequential, PanicInTurn, Idle
  <2>4. CASE Ignore \/ EstablishSession \/ CaptureRequest
    BY <2>4, ScriptSilent DEF Ignore, EstablishSession, CaptureRequest, Acts
  <2>5. CASE SendChallenge
    BY <2>5, ScriptChallenges
  <2>6. CASE SendDefaultResponse
    BY <2>6, ScriptDefault
  <2>7. CASE SendCustomResponse
    BY <2>7, ScriptCustom
  <2>8. ~ProcessDeclarative
    BY DEF ProcessDeclarative
  <2> QED
    BY <1>1, <2>1, <2>2, <2>3, <2>4, <2>5, <2>6, <2>7, <2>8 DEF Handler, HandlerStep, DoAction
<1>2. CASE ~Handler
  <2>1. UNCHANGED <<handler, behaviours, turn, served, sent>>
    BY <1>2 DEF Next, vars, handlerVars, RecvHandler, SendHandler,
        SendHandlerPanics, SendRandomPacket, PeerStep, PeerSendsRequest, PeerRetries,
        PeerGivesUp, PeerReceivesWhoAreYou, PeerRefusesWhoAreYou, PeerReceivesResponse,
        PeerReceivesUnreadable
  <2> QED
    BY <2>1, ScriptUnchanged
<1> QED
  BY <1>1, <1>2

LEMMA ScriptStart ==
  ASSUME Mode = "Sequential", Init
  PROVE  ScriptInv /\ Scripted!Init
<1>1. /\ turn = None /\ served = <<>> /\ sent = <<>> /\ behaviours = Script
      /\ handler = "running"
  BY DEF Init, HandlerInit
<1>2. StillDue = {}
  BY <1>1 DEF StillDue
<1>3. Len(served) = 0 /\ Len(Script) \in Nat /\ DOMAIN Script = 1..Len(Script)
  BY <1>1, ScriptAssumption, LenProperties
<1>4. ScriptInv
  BY <1>1, <1>3 DEF ScriptInv, QueueInv, TurnInv
<1>5. Scripted!Init
  BY <1>1, <1>2 DEF Scripted!Init
<1> QED
  BY <1>4, <1>5

LEMMA ScriptInvariance ==
  ASSUME Mode = "Sequential"
  PROVE  SafetySpec => []ScriptInv /\ ImplementsScript
<1>1. Init => TypeOK /\ ScriptInv /\ Scripted!Init
  BY InitType, ScriptStart
<1>2. TypeOK /\ ScriptInv /\ [Next]_vars
        => (TypeOK /\ ScriptInv)' /\ [Scripted!Next]_(Scripted!vars)
  BY TypeStep, ScriptNext DEF ScriptStep
<1> QED
  BY <1>1, <1>2, PTL DEF SafetySpec, ImplementsScript, Scripted!SafetySpec

(* A sequential mock implements the peer that its script describes: one packet  *)
(* at a time, in the order of the script, each with exactly the answers that    *)
(* its actions call for, in their order and to its source, and nothing in       *)
(* between; whatever the peers, the network and the scenario do.                *)
THEOREM ScriptImplemented ==
  ASSUME Mode = "Sequential"
  PROVE  Spec => ImplementsScript
  BY ScriptInvariance, PTL DEF Spec
--------------------------------------------------------------------------------
(* EachRequestAnsweredOnce.  A response names a captured request by an index    *)
(* that no other response uses, so the point is that no request is captured     *)
(* twice.  A node sends a request again, unchanged, as often as its retries     *)
(* allow, and turns it into a handshake once: what excludes the second capture  *)
(* is that a handshake answers one challenge, that challenges only grow, and    *)
(* that a message with the handshake's id is sealed under an older one.         *)
Node == CHOOSE p \in Peers : Peers = {p}

Elements(s) == {s[i] : i \in DOMAIN s}

(* The packets that may still come to be handled, or are: with the node, in the *)
(* mock's channels, in the handler's hands.                                     *)
Pending == {r.packet : r \in active[Node]}
InHand == IF turn = None THEN {} ELSE {turn.packet}
Underway == Elements(udp_in) \cup Elements(recv_ch) \cup Pending \cup InHand
Messages == {q \in Underway : q.kind = "Message"}
Handshakes == {q \in Underway : q.kind = "Handshake"}

ChallengeOf(packet) == packet.key.secret.challenge

(* What the node has under way: one handshake for a request at most, however    *)
(* often it is sent, and no message any more once there is one, but those that  *)
(* are sealed under an earlier challenge.                                       *)
RequestInv ==
  /\ \A q \in Pending : q.kind \in {"Message", "Handshake"}
  /\ \A q \in Messages \cup Handshakes : q.id.n < next_id[Node]
  /\ \A h \in Handshakes : h.key # None
  /\ \A h, g \in Handshakes : h.id = g.id => h.key = g.key
  /\ \A h \in Handshakes, m \in Messages :
       h.id = m.id => m.key = None \/ ChallengeOf(m) < ChallengeOf(h)
  /\ \A h \in Handshakes, m \in Pending : m.kind = "Message" => m.id # h.id
  /\ \A r, q \in active[Node] : r.packet.id = q.packet.id => r = q

(* The WHOAREYOUs on their way to the node: later ones have higher challenges,  *)
(* and all have higher ones than those the node has answered.                   *)
Flow == wire[Node] \o send_ch

FlowInv ==
  /\ \A i, j \in DOMAIN Flow :
       i < j /\ Flow[i].kind = "WhoAreYou" /\ Flow[j].kind = "WhoAreYou"
         => Flow[i].challenge < Flow[j].challenge
  /\ \A i \in DOMAIN Flow : Flow[i].kind = "WhoAreYou" =>
       /\ Flow[i].challenge < next_challenge
       /\ \A s \in DerivedBy(derived, Node) : s.challenge < Flow[i].challenge
  /\ \A s \in DerivedBy(derived, Node) : s.challenge < next_challenge

(* The session is from an earlier challenge than the one that is held.          *)
Agreed == sessions[Node].decryption_key.secret.challenge

HeldInv ==
  /\ active_challenges[Node] # None => active_challenges[Node] < next_challenge
  /\ sessions[Node] # None => Agreed < next_challenge
  /\ active_challenges[Node] # None /\ sessions[Node] # None =>
       Agreed < active_challenges[Node]

(* A captured request that cannot be captured again: nothing under way with its *)
(* id fits the next challenge, or opens under this session or a later one.      *)
Settled(id) ==
  /\ id.n < next_id[Node]
  /\ sessions[Node] # None
  /\ \A h \in Handshakes : h.id = id => ChallengeOf(h) <= Agreed
  /\ \A m \in Messages : m.id = id => m.key = None \/ ChallengeOf(m) < Agreed
  /\ \A m \in Pending : m.kind = "Message" => m.id # id

CapturesLeft ==
  \/ turn # None /\ Captures(turn.actions)
  \/ \E i \in DOMAIN behaviours : Captures(behaviours[i].actions)

CaptureInv ==
  /\ CapturesLeft => \A id \in Elements(captured_requests) : Settled(id)
  /\ turn # None /\ turn.packet.kind = "Handshake" /\ Captures(turn.actions) =>
       turn.packet.id \notin Elements(captured_requests)
  /\ \A i, j \in DOMAIN captured_requests :
       i # j => captured_requests[i] # captured_requests[j]

(* What is left of the script has the shape of the whole.                       *)
QueueLeft ==
  /\ QueueAnswersOnce(behaviours)
  /\ turn # None =>
       /\ AnswersOnce(turn.actions)
       /\ \A i \in DOMAIN behaviours :
            /\ Indices(turn.actions) \cap Indices(behaviours[i].actions) = {}
            /\ CapturesLast(turn.packet.kind, turn.actions, behaviours[i].actions)

(* The script's indices that are still to be used; the responses sent have used *)
(* others.                                                                      *)
StillToUse(index) ==
  \/ turn # None /\ index \in Indices(turn.actions)
  \/ \E i \in DOMAIN behaviours : index \in Indices(behaviours[i].actions)

ResponseInv ==
  /\ \A index \in Nat : StillToUse(index) => index \in ScriptIndices
  /\ \A i \in DOMAIN sent : sent[i].kind = "Response" =>
       \E c \in DOMAIN captured_requests :
         /\ sent[i].id = captured_requests[c]
         /\ c - 1 \in ScriptIndices /\ ~StillToUse(c - 1)
  /\ \A i, j \in DOMAIN sent :
       i # j /\ sent[i].kind = "Response" /\ sent[j].kind = "Response"
         => sent[i].id # sent[j].id

AnswerInv == RequestInv /\ FlowInv /\ HeldInv /\ QueueLeft /\ CaptureInv /\ ResponseInv

LEMMA OneNode ==
  ASSUME ScriptAnswersOnce
  PROVE  Node \in Peers /\ Peers = {Node}
<1>1. \E p \in Peers : Peers = {p}
  BY DEF ScriptAnswersOnce
<1> QED
  BY <1>1 DEF Node

(* What sequences hold.                                                         *)
LEMMA ElementsFacts ==
  /\ \A S : \A s \in Seq(S) : Elements(s) \subseteq S
  /\ \A S : \A s \in Seq(S) : s # <<>> =>
       Elements(Tail(s)) \subseteq Elements(s) /\ Head(s) \in Elements(s)
  /\ \A S : \A s \in Seq(S) : \A e \in S :
       Elements(Append(s, e)) = Elements(s) \cup {e}
  /\ Elements(<<>>) = {}
<1>1. ASSUME NEW S, NEW s \in Seq(S) PROVE Elements(s) \subseteq S
  BY LenProperties DEF Elements
<1>2. ASSUME NEW S, NEW s \in Seq(S), s # <<>>
      PROVE  Elements(Tail(s)) \subseteq Elements(s) /\ Head(s) \in Elements(s)
  BY <1>2, TailElements DEF Elements
<1>3. ASSUME NEW S, NEW s \in Seq(S), NEW e \in S
      PROVE  Elements(Append(s, e)) = Elements(s) \cup {e}
  <2> DEFINE t == Append(s, e)
  <2>1. /\ DOMAIN s = 1..Len(s) /\ Len(s) \in Nat /\ DOMAIN t = 1..(Len(s) + 1)
        /\ (\A i \in 1..Len(s) : t[i] = s[i]) /\ t[Len(s) + 1] = e
    BY AppendProperties, LenProperties
  <2> HIDE DEF t
  <2>2. \A i \in 1..(Len(s) + 1) : i \in 1..Len(s) \/ i = Len(s) + 1
    BY <2>1
  <2>3. \A i \in 1..Len(s) : i \in 1..(Len(s) + 1)
    BY <2>1
  <2>4. Len(s) + 1 \in 1..(Len(s) + 1)
    BY <2>1
  <2> QED
    BY <2>1, <2>2, <2>3, <2>4 DEF Elements, t
<1>4. Elements(<<>>) = {}
  BY DEF Elements
<1> QED
  BY <1>1, <1>2, <1>3, <1>4

(* What is under way is inbound packets of the node.                            *)
LEMMA UnderwayType ==
  ASSUME TypeOK, ScriptAnswersOnce
  PROVE  /\ Underway \subseteq InboundPackets /\ Pending \subseteq Underway
         /\ \A q \in Underway :
              q \in InboundPackets /\ q.src = Node /\ q.id \in Ids /\ q.id.peer = Node
<1>1. Elements(udp_in) \subseteq InboundPackets /\ Elements(recv_ch) \subseteq InboundPackets
  BY ElementsFacts DEF TypeOK, HandlerTypeOK
<1>2. Pending \subseteq InboundPackets
  BY OneNode, ActiveFields DEF Pending
<1>3. InHand \subseteq InboundPackets
  BY TurnFields DEF InHand, TypeOK
<1>4. Underway \subseteq InboundPackets /\ Pending \subseteq Underway
  BY <1>1, <1>2, <1>3 DEF Underway
<1> QED
  BY <1>4, OneNode, InboundFields DEF Ids
--------------------------------------------------------------------------------
(* The steps that bring nothing new under way.                                  *)
Distinct(requests) == \A r, q \in requests : r.packet.id = q.packet.id => r = q

Quiet ==
  /\ Messages' \subseteq Messages /\ Handshakes' \subseteq Handshakes
  /\ Pending' \subseteq Pending
  /\ UNCHANGED next_id /\ Distinct(active'[Node])

LEMMA RequestQuiet == RequestInv /\ Quiet => RequestInv'
  BY DEF RequestInv, Quiet, Distinct, ChallengeOf

(* The mock hands packets on, or drops them.                                    *)
LEMMA TakeUnderway ==
  ASSUME TypeOK, recv_ch # <<>>, recv_ch' = Tail(recv_ch),
         turn' # None => turn'.packet = Head(recv_ch), UNCHANGED <<udp_in, active>>
  PROVE  Underway' \subseteq Underway
<1>1. recv_ch \in Seq(InboundPackets)
  BY DEF TypeOK, HandlerTypeOK
<1>2. Elements(recv_ch') \subseteq Elements(recv_ch) /\ Head(recv_ch) \in Elements(recv_ch)
  BY <1>1, ElementsFacts
<1>3. Pending' = Pending /\ Elements(udp_in') = Elements(udp_in)
  BY DEF Pending
<1>4. InHand' \subseteq {Head(recv_ch)}
  BY DEF InHand
<1>5. Underway' = Elements(udp_in') \cup Elements(recv_ch') \cup Pending' \cup InHand'
  BY DEF Underway, Elements
<1> QED
  BY <1>2, <1>3, <1>4, <1>5 DEF Underway

LEMMA ActUnderway ==
  ASSUME recv_ch' = recv_ch \/ recv_ch' = <<>>,
         turn' # None => turn # None /\ turn'.packet = turn.packet,
         UNCHANGED <<udp_in, active>>
  PROVE  Underway' \subseteq Underway
<1>1. Elements(recv_ch') \subseteq Elements(recv_ch)
  BY ElementsFacts
<1>2. Pending' = Pending /\ Elements(udp_in') = Elements(udp_in)
  BY DEF Pending
<1>3. InHand' \subseteq InHand
  BY DEF InHand
<1>4. Underway' = Elements(udp_in') \cup Elements(recv_ch') \cup Pending' \cup InHand'
  BY DEF Underway, Elements
<1> QED
  BY <1>1, <1>2, <1>3, <1>4 DEF Underway

LEMMA HandlerUnderway ==
  ASSUME TypeOK, Handler
  PROVE  Underway' \subseteq Underway
<1>1. UNCHANGED <<udp_in, active>>
  BY DEF Handler, peerVars
<1>2. CASE ProcessHandlerRequest
  BY <1>1, <1>2, ActUnderway DEF ProcessHandlerRequest
<1>3. CASE ProcessDeclarative \/ ProcessSequential
  BY <1>1, <1>3, TakeUnderway DEF ProcessDeclarative, ProcessSequential, Begin
<1>4. CASE RejectSequential
  BY <1>1, <1>4, ActUnderway DEF RejectSequential, Panic
<1>5. CASE DoAction
  <2>1. turn # None
    BY <1>5 DEF DoAction, Ignore, SendChallenge, EstablishSession, CaptureRequest,
                SendDefaultResponse, SendCustomResponse, PanicInTurn, Acts
  <2>2. recv_ch' = recv_ch \/ recv_ch' = <<>>
    BY <1>5 DEF DoAction, Ignore, SendChallenge, EstablishSession, CaptureRequest,
                SendDefaultResponse, SendCustomResponse, SendResponse, PanicInTurn, Panic
  <2>3. turn' # None => turn'.packet = turn.packet
    BY <1>5 DEF DoAction, Ignore, SendChallenge, EstablishSession, CaptureRequest,
                SendDefaultResponse, SendCustomResponse, PanicInTurn, Panic,
                NextAction, Begin
  <2> QED
    BY <1>1, <2>1, <2>2, <2>3, ActUnderway
<1> QED
  BY <1>2, <1>3, <1>4, <1>5 DEF Handler, HandlerStep

LEMMA RecvUnderway ==
  ASSUME TypeOK, RecvHandler
  PROVE  Underway' \subseteq Underway
<1>1. /\ udp_in \in Seq(InboundPackets) /\ recv_ch \in Seq(InboundPackets) /\ udp_in # <<>>
      /\ udp_in' = Tail(udp_in)
      /\ recv_ch' = recv_ch \/ recv_ch' = Append(recv_ch, Head(udp_in))
      /\ UNCHANGED <<turn, active>>
  BY DEF RecvHandler, TypeOK, HandlerTypeOK, peerVars
<1>2. /\ Head(udp_in) \in InboundPackets /\ Head(udp_in) \in Elements(udp_in)
      /\ Elements(udp_in') \subseteq Elements(udp_in)
  BY <1>1, HeadTailProperties, ElementsFacts
<1>3. Elements(recv_ch') \subseteq Elements(recv_ch) \cup Elements(udp_in)
  <2>1. Elements(Append(recv_ch, Head(udp_in))) = Elements(recv_ch) \cup {Head(udp_in)}
    BY <1>1, <1>2, ElementsFacts
  <2> QED
    BY <1>1, <1>2, <2>1
<1>4. Pending' = Pending /\ InHand' = InHand
  BY <1>1 DEF Pending, InHand
<1>5. Underway' = Elements(udp_in') \cup Elements(recv_ch') \cup Pending' \cup InHand'
  BY DEF Underway, Elements
<1> QED
  BY <1>2, <1>3, <1>4, <1>5 DEF Underway

LEMMA MockQuiet ==
  ASSUME TypeOK, RequestInv,
         \/ Handler \/ RecvHandler \/ SendHandler \/ SendHandlerPanics
         \/ \E p \in Peers : SendRandomPacket(p)
  PROVE  Quiet
<1>1. UNCHANGED <<active, next_id>>
  BY DEF Handler, RecvHandler, SendHandler, SendHandlerPanics, SendRandomPacket, peerVars
<1>2. Underway' \subseteq Underway
  <2>1. CASE ~Handler /\ ~RecvHandler
    <3>1. UNCHANGED <<udp_in, active, recv_ch, turn>>
      BY <2>1 DEF SendHandler, SendHandlerPanics, SendRandomPacket, peerVars
    <3> QED
      BY <3>1, ActUnderway
  <2> QED
    BY <2>1, HandlerUnderway, RecvUnderway
<1>3. Pending' = Pending /\ Distinct(active'[Node])
  BY <1>1 DEF Pending, RequestInv, Distinct
<1>4. Messages' \subseteq Messages /\ Handshakes' \subseteq Handshakes
  BY <1>2 DEF Messages, Handshakes
<1> QED
  BY <1>1, <1>3, <1>4 DEF Quiet

(* A datagram that a peer sends is under way, or lost.                          *)
LEMMA TransmitUnderway ==
  ASSUME TypeOK, NEW packet \in InboundPackets, Transmit(packet),
         UNCHANGED <<recv_ch, turn>>
  PROVE  Underway' \subseteq Underway \cup Pending' \cup {packet}
<1>1. udp_in \in Seq(InboundPackets)
  BY DEF TypeOK
<1>2. udp_in' = udp_in \/ udp_in' = Append(udp_in, packet)
  BY DEF Transmit
<1>3. Elements(udp_in') \subseteq Elements(udp_in) \cup {packet}
  <2>1. Elements(Append(udp_in, packet)) = Elements(udp_in) \cup {packet}
    BY <1>1, ElementsFacts
  <2> QED
    BY <1>2, <2>1
<1>4. Elements(recv_ch') = Elements(recv_ch) /\ InHand' = InHand
  BY DEF InHand
<1>5. Underway' = Elements(udp_in') \cup Elements(recv_ch') \cup Pending' \cup InHand'
  BY DEF Underway, Elements
<1> QED
  BY <1>3, <1>4, <1>5 DEF Underway

(* A request that is sent again is the same packet; one that is given up goes.  *)
LEMMA TimesOutQuiet ==
  ASSUME TypeOK, ScriptAnswersOnce, RequestInv, NEW r \in active[Node],
         PeerRetries(Node, r) \/ PeerGivesUp(Node, r)
  PROVE  Quiet
<1>1. Node \in Peers /\ r \in ActiveRequests /\ r.packet \in InboundPackets
  BY OneNode, ActiveFields
<1>2. r.packet \in Pending /\ Pending \subseteq Underway
  BY UnderwayType DEF Pending
<1>3. Distinct(active[Node])
  BY DEF RequestInv, Distinct
<1>4. CASE PeerRetries(Node, r)
  <2> DEFINE new == [r EXCEPT !.retries = @ + 1]
  <2>1. /\ active' = [active EXCEPT ![Node] = (active[Node] \ {r}) \cup {new}]
        /\ Transmit(r.packet) /\ UNCHANGED <<recv_ch, turn, next_id>>
    BY <1>4 DEF PeerRetries, handlerVars
  <2>2. new.packet = r.packet
    BY <1>1 DEF ActiveRequests
  <2> HIDE DEF new
  <2>3. active'[Node] = (active[Node] \ {r}) \cup {new}
    BY <1>1, <2>1 DEF TypeOK
  <2>4. Pending' \subseteq Pending
    BY <1>2, <2>2, <2>3 DEF Pending
  <2>5. Distinct(active'[Node])
    BY <1>3, <2>2, <2>3 DEF Distinct
  <2>6. Underway' \subseteq Underway
    BY <1>1, <1>2, <2>1, <2>4, TransmitUnderway
  <2> QED
    BY <2>1, <2>4, <2>5, <2>6 DEF Quiet, Messages, Handshakes
<1>5. CASE PeerGivesUp(Node, r)
  <2>1. /\ active' = [active EXCEPT ![Node] = active[Node] \ {r}]
        /\ UNCHANGED <<recv_ch, turn, next_id, udp_in>>
    BY <1>5 DEF PeerGivesUp, handlerVars
  <2>2. active'[Node] = active[Node] \ {r}
    BY <1>1, <2>1 DEF TypeOK
  <2>3. Pending' \subseteq Pending /\ Distinct(active'[Node])
    BY <1>3, <2>2 DEF Pending, Distinct
  <2>4. Underway' \subseteq Underway
    BY <2>1, <2>3 DEF Underway, InHand
  <2> QED
    BY <2>1, <2>3, <2>4 DEF Quiet, Messages, Handshakes
<1> QED
  BY <1>4, <1>5

(* What else the node receives costs it requests at most; its WHOAREYOU is      *)
(* neither a message nor a handshake.                                           *)
LEMMA ReceivesQuiet ==
  ASSUME TypeOK, ScriptAnswersOnce, RequestInv,
         \/ PeerRefusesWhoAreYou(Node) \/ PeerReceivesResponse(Node)
         \/ PeerReceivesUnreadable(Node)
  PROVE  Quiet
<1> DEFINE packet == Packet(Node, "WhoAreYou", [peer |-> Node, n |-> 0], 0, FALSE, None, "Ping")
<1>1. Node \in Peers
  BY OneNode
<1>2. active'[Node] \subseteq active[Node] /\ UNCHANGED <<turn, recv_ch, next_id>>
  BY <1>1 DEF PeerRefusesWhoAreYou, PeerReceivesResponse, PeerReceivesUnreadable, TypeOK, handlerVars
<1>3. Pending' \subseteq Pending /\ Distinct(active'[Node])
  BY <1>2 DEF RequestInv, Pending, Distinct
<1>4. packet.kind = "WhoAreYou" /\ packet \in InboundPackets
  BY <1>1 DEF Packet, InboundPackets, Ids, Requests
<1> HIDE DEF packet
<1>5. Underway' \subseteq Underway \cup {packet}
  <2>1. CASE UNCHANGED udp_in
    BY <1>2, <1>3, <2>1 DEF Underway, InHand
  <2>2. CASE ~UNCHANGED udp_in
    <3>1. Transmit(packet)
      BY <2>2 DEF PeerRefusesWhoAreYou, PeerReceivesResponse, PeerReceivesUnreadable, packet
    <3>2. Underway' \subseteq Underway \cup Pending' \cup {packet}
      BY <1>2, <1>4, <3>1, TransmitUnderway
    <3> QED
      BY <1>3, <3>2, UnderwayType
  <2> QED
    BY <2>1, <2>2
<1> QED
  BY <1>2, <1>3, <1>4, <1>5 DEF Quiet, Messages, Handshakes
--------------------------------------------------------------------------------
(* The steps that bring something new under way: a request, with an id of its   *)
(* own, and a handshake, in place of the message with its id.                   *)
NewRequest(m) ==
  /\ m \in InboundPackets /\ m.kind = "Message" /\ m.id.n = next_id[Node]
  /\ next_id'[Node] = next_id[Node] + 1
  /\ Underway' \subseteq Underway \cup {m} /\ Pending' \subseteq Pending \cup {m}

NewHandshake(r, h) ==
  /\ r \in active[Node] /\ r.packet.kind = "Message"
  /\ h \in InboundPackets /\ h.kind = "Handshake" /\ h.id = r.packet.id /\ h.key \in Keys
  /\ \A s \in DerivedBy(derived, Node) : s.challenge < ChallengeOf(h)
  /\ UNCHANGED next_id
  /\ Underway' \subseteq Underway \cup {h}
  /\ Pending' \subseteq {q.packet : q \in active[Node] \ {r}} \cup {h}

LEMMA SendsNew ==
  ASSUME TypeOK, ScriptAnswersOnce, NEW body \in PeerBodies, PeerSendsRequest(Node, body)
  PROVE  \E m : /\ NewRequest(m)
                /\ active'[Node] = active[Node] \cup {[packet |-> m, retries |-> 0]}
<1> DEFINE id == [peer |-> Node, n |-> next_id[Node]]
           key == IF peer_session[Node] = None THEN None ELSE InitiatorKey(peer_session[Node])
           m == Packet(Node, "Message", id, 0, FALSE, key, body)
           new == [packet |-> m, retries |-> 0]
<1>1. /\ active' = [active EXCEPT ![Node] = active[Node] \cup {new}]
      /\ next_id' = [next_id EXCEPT ![Node] = next_id[Node] + 1]
      /\ Transmit(m) /\ UNCHANGED <<turn, recv_ch>>
  BY DEF PeerSendsRequest, handlerVars
<1>2. Node \in Peers
  BY OneNode
<1>3. m \in InboundPackets
  <2>1. id \in Ids /\ key \in Keys \cup {None} /\ body \in Requests
    BY <1>2, SystemAssumption DEF TypeOK, Ids, InitiatorKey, Keys
  <2> QED
    BY <1>2, <2>1 DEF Packet, InboundPackets
<1>4. m.kind = "Message" /\ m.id.n = next_id[Node]
  BY DEF Packet
<1> HIDE DEF m
<1>5. new.packet = m
  OBVIOUS
<1>6. active'[Node] = active[Node] \cup {new} /\ next_id'[Node] = next_id[Node] + 1
  BY <1>1, <1>2 DEF TypeOK
<1>7. Pending' = Pending \cup {m}
  BY <1>5, <1>6 DEF Pending
<1>8. Underway' \subseteq Underway \cup {m}
  <2>1. Underway' \subseteq Underway \cup Pending' \cup {m}
    BY <1>1, <1>3, TransmitUnderway
  <2> QED
    BY <1>7, <2>1, UnderwayType
<1> QED
  BY <1>3, <1>4, <1>6, <1>7, <1>8 DEF NewRequest

LEMMA RequestSends ==
  ASSUME TypeOK, ScriptAnswersOnce, RequestInv, NEW body \in PeerBodies,
         PeerSendsRequest(Node, body)
  PROVE  RequestInv'
<1>1. PICK m : /\ NewRequest(m)
               /\ active'[Node] = active[Node] \cup {[packet |-> m, retries |-> 0]}
  BY SendsNew
<1>2. /\ Messages' \subseteq Messages \cup {m} /\ Handshakes' \subseteq Handshakes
      /\ m.kind = "Message" /\ m.id.n = next_id[Node] /\ next_id[Node] \in Nat
      /\ next_id'[Node] = next_id[Node] + 1 /\ Pending' \subseteq Pending \cup {m}
  BY <1>1, OneNode DEF NewRequest, Messages, Handshakes, TypeOK
<1>3. /\ \A q \in Messages \cup Handshakes : q.id.n < next_id[Node] /\ q.id.n \in Nat
      /\ Pending \subseteq Messages \cup Handshakes
  BY UnderwayType DEF RequestInv, Messages, Handshakes, Ids
<1>4. \A q \in Messages' \cup Handshakes' : q.id.n < next_id'[Node]
  BY <1>2, <1>3
<1>5. \A q \in Messages \cup Handshakes : q.id # m.id
  BY <1>2, <1>3
<1>6. \A r, q \in active'[Node] : r.packet.id = q.packet.id => r = q
  <2> DEFINE new == [packet |-> m, retries |-> 0]
  <2>1. new.packet = m /\ active'[Node] = active[Node] \cup {new}
    BY <1>1
  <2>2. \A r \in active[Node] : r.packet.id # m.id
    BY <1>3, <1>5 DEF Pending
  <2> HIDE DEF new
  <2> QED
    BY <2>1, <2>2 DEF RequestInv
<1>7. \A h \in Handshakes', q \in Messages' :
        h.id = q.id => q.key = None \/ ChallengeOf(q) < ChallengeOf(h)
  BY <1>2, <1>5 DEF RequestInv
<1>8. \A h \in Handshakes', q \in Pending' : q.kind = "Message" => q.id # h.id
  BY <1>2, <1>5 DEF RequestInv
<1> QED
  BY <1>2, <1>4, <1>6, <1>7, <1>8 DEF RequestInv, ChallengeOf

(* The WHOAREYOU that arrives is the first of the flow.                         *)
LEMMA FlowType ==
  ASSUME TypeOK, ScriptAnswersOnce
  PROVE  /\ wire[Node] \in Seq(OutboundPackets) /\ send_ch \in Seq(OutboundPackets)
         /\ Flow \in Seq(OutboundPackets) /\ Len(Flow) = Len(wire[Node]) + Len(send_ch)
         /\ Len(wire[Node]) \in Nat /\ Len(send_ch) \in Nat
         /\ DOMAIN Flow = 1..(Len(wire[Node]) + Len(send_ch))
         /\ \A i \in 1..(Len(wire[Node]) + Len(send_ch)) :
              Flow[i] = IF i <= Len(wire[Node]) THEN wire[Node][i]
                        ELSE send_ch[i - Len(wire[Node])]
<1>1. wire[Node] \in Seq(OutboundPackets) /\ send_ch \in Seq(OutboundPackets)
  BY OneNode DEF TypeOK, HandlerTypeOK
<1> QED
  BY <1>1, ConcatProperties, LenProperties DEF Flow

LEMMA FirstOfFlow ==
  ASSUME TypeOK, ScriptAnswersOnce, FlowInv, wire[Node] # <<>>,
         Head(wire[Node]).kind = "WhoAreYou"
  PROVE  /\ Head(wire[Node]) \in OutboundPackets
         /\ Head(wire[Node]).challenge \in Nat /\ Head(wire[Node]).id \in Ids
         /\ Head(wire[Node]).challenge < next_challenge
         /\ \A s \in DerivedBy(derived, Node) : s.challenge < Head(wire[Node]).challenge
         /\ \A j \in DOMAIN Flow : j # 1 /\ Flow[j].kind = "WhoAreYou" =>
              Head(wire[Node]).challenge < Flow[j].challenge
<1> DEFINE w == Head(wire[Node])
<1>1. wire[Node] \in Seq(OutboundPackets)
  BY FlowType
<1>2. w \in OutboundPackets /\ w = wire[Node][1] /\ Len(wire[Node]) \in Nat \ {0}
  BY <1>1, HeadTailProperties, TailElements, EmptySeq
<1> HIDE DEF w
<1>3. w.challenge \in Nat /\ w.id \in Ids
  BY <1>2 DEF OutboundPackets, w
<1>4. 1 \in DOMAIN Flow /\ Flow[1] = w
  BY <1>2, FlowType
<1>5. \A j \in DOMAIN Flow : j # 1 => 1 < j
  BY FlowType
<1> QED
  BY <1>2, <1>3, <1>4, <1>5 DEF FlowInv, w

(* What a WHOAREYOU leads to.                                                   *)
LEMMA AnswersNew ==
  ASSUME TypeOK, ScriptAnswersOnce, FlowInv, PeerReceivesWhoAreYou(Node)
  PROVE  \E r, h : \E secret \in Secrets :
           /\ NewHandshake(r, h)
           /\ \E new : new.packet = h /\ active'[Node] = (active[Node] \ {r}) \cup {new}
           /\ secret.challenge = Head(wire[Node]).challenge
           /\ derived' = [derived EXCEPT ![Node] = Append(@, secret)]
<1> DEFINE w == Head(wire[Node])
           secret == [peer |-> Node, challenge |-> w.challenge, ephem |-> Len(derived[Node])]
<1>1. PICK r \in active[Node] :
        LET packet == Packet(Node, "Handshake", w.id, Len(derived[Node]),
                             w.enr_seq < PeerEnrSeq, InitiatorKey(secret), r.packet.body)
        IN  /\ r.packet.id = w.id /\ r.packet.kind = "Message"
            /\ active' = [active EXCEPT ![Node] = (@ \ {r}) \cup {[r EXCEPT !.packet = packet]}]
            /\ derived' = [derived EXCEPT ![Node] = Append(@, secret)]
            /\ Transmit(packet)
  BY DEF PeerReceivesWhoAreYou
<1> DEFINE h == Packet(Node, "Handshake", w.id, Len(derived[Node]), w.enr_seq < PeerEnrSeq,
                       InitiatorKey(secret), r.packet.body)
           new == [r EXCEPT !.packet = h]
<1>2. /\ active' = [active EXCEPT ![Node] = (active[Node] \ {r}) \cup {new}]
      /\ derived' = [derived EXCEPT ![Node] = Append(@, secret)]
      /\ r.packet.id = w.id /\ r.packet.kind = "Message"
      /\ Transmit(h) /\ UNCHANGED <<turn, recv_ch, next_id>>
  BY <1>1 DEF PeerReceivesWhoAreYou, handlerVars
<1>3. Node \in Peers
  BY OneNode
<1>4. /\ w.challenge \in Nat /\ w.id \in Ids
      /\ \A s \in DerivedBy(derived, Node) : s.challenge < w.challenge
  BY FirstOfFlow DEF PeerReceivesWhoAreYou, Arrives
<1>5. secret \in Secrets /\ secret.challenge = w.challenge /\ Len(derived[Node]) \in Nat
  <2>1. derived[Node] \in Seq(Secrets)
    BY <1>3 DEF TypeOK
  <2>2. Len(derived[Node]) \in Nat
    BY <2>1, LenProperties
  <2> QED
    BY <1>3, <1>4, <2>2 DEF Secrets
<1> HIDE DEF w, secret
<1>6. InitiatorKey(secret) \in Keys /\ InitiatorKey(secret).secret = secret
  BY <1>5 DEF InitiatorKey, Keys
<1>7. r \in ActiveRequests /\ r.packet.body \in Requests \cup {"Response"}
  BY <1>3, ActiveFields
<1>8. h \in InboundPackets
  BY <1>3, <1>4, <1>5, <1>6, <1>7 DEF Packet, InboundPackets
<1>9. h.kind = "Handshake" /\ h.id = w.id /\ h.key = InitiatorKey(secret)
  BY DEF Packet
<1> HIDE DEF h
<1>10. new.packet = h
  BY <1>7 DEF ActiveRequests
<1> HIDE DEF new
<1>11. active'[Node] = (active[Node] \ {r}) \cup {new}
  BY <1>2, <1>3 DEF TypeOK
<1>12. Pending' = {q.packet : q \in active[Node] \ {r}} \cup {h}
  BY <1>10, <1>11 DEF Pending
<1>13. Underway' \subseteq Underway \cup {h}
  <2>1. Underway' \subseteq Underway \cup Pending' \cup {h}
    BY <1>2, <1>8, TransmitUnderway
  <2>2. Pending' \subseteq Pending \cup {h} /\ Pending \subseteq Underway
    BY <1>12, UnderwayType DEF Pending
  <2> QED
    BY <2>1, <2>2
<1>14. NewHandshake(r, h)
  BY <1>2, <1>4, <1>5, <1>6, <1>8, <1>9, <1>12, <1>13 DEF NewHandshake, ChallengeOf
<1> QED
  BY <1>2, <1>5, <1>10, <1>11, <1>14 DEF w

(* Whatever is under way is sealed under a secret that the node has derived.    *)
LEMMA UnderwaySealed ==
  ASSUME TypeOK, ScriptAnswersOnce, SealInv, NEW q \in Underway
  PROVE  q.key = None \/ \E s \in DerivedBy(derived, Node) : q.key.secret = s
<1>1. \A x \in Underway : Sealed(derived, x)
  <2>1. \A x \in Elements(udp_in) \cup Elements(recv_ch) : Sealed(derived, x)
    BY DEF Elements, SealInv
  <2>2. \A x \in Pending : Sealed(derived, x)
    BY OneNode DEF Pending, SealInv
  <2>3. \A x \in InHand : Sealed(derived, x)
    BY DEF InHand, SealInv
  <2> QED
    BY <2>1, <2>2, <2>3 DEF Underway
<1>2. q.src = Node /\ Sealed(derived, q)
  BY <1>1, UnderwayType
<1>3. CASE q.key # None
  <2>1. PICK s \in DerivedBy(derived, Node) : q.key = InitiatorKey(s)
    BY <1>2, <1>3 DEF Sealed
  <2>2. q.key.secret = s
    BY <2>1 DEF InitiatorKey
  <2> QED
    BY <2>1, <2>2
<1> QED
  BY <1>3

LEMMA RequestAnswers ==
  ASSUME TypeOK, ScriptAnswersOnce, SealInv, FlowInv, RequestInv, PeerReceivesWhoAreYou(Node)
  PROVE  RequestInv'
<1>1. PICK r, h :
        /\ NewHandshake(r, h)
        /\ \E new : new.packet = h /\ active'[Node] = (active[Node] \ {r}) \cup {new}
  BY AnswersNew
<1>2. PICK new : new.packet = h /\ active'[Node] = (active[Node] \ {r}) \cup {new}
  BY <1>1
<1>3. /\ r \in active[Node] /\ r.packet.kind = "Message"
      /\ h.kind = "Handshake" /\ h.id = r.packet.id /\ h.key \in Keys
      /\ \A s \in DerivedBy(derived, Node) : s.challenge < ChallengeOf(h)
      /\ UNCHANGED next_id
      /\ Messages' \subseteq Messages /\ Handshakes' \subseteq Handshakes \cup {h}
      /\ Pending' \subseteq {q.packet : q \in active[Node] \ {r}} \cup {h}
  BY <1>1 DEF NewHandshake, Messages, Handshakes
<1>4. r.packet \in Pending /\ r.packet \in Messages /\ Pending \subseteq Underway
  BY <1>3, UnderwayType DEF Pending, Messages
<1>5. \A q \in Pending' : q.kind \in {"Message", "Handshake"}
  BY <1>3 DEF RequestInv, Pending
<1>6. \A q \in Messages' \cup Handshakes' : q.id.n < next_id'[Node]
  BY <1>3, <1>4 DEF RequestInv
<1>7. \A g \in Handshakes : g.id # h.id
  BY <1>3, <1>4 DEF RequestInv
<1>8. \A g, k \in Handshakes' : g.id = k.id => g.key = k.key
  BY <1>3, <1>7 DEF RequestInv
<1>9. h.key # None
  BY <1>3, NoneAssumption
<1>10. \A m \in Messages : m.key = None \/ ChallengeOf(m) < ChallengeOf(h)
  BY <1>3, UnderwaySealed DEF Messages, ChallengeOf
<1>11. \A g \in Handshakes', m \in Messages' :
         g.id = m.id => m.key = None \/ ChallengeOf(m) < ChallengeOf(g)
  BY <1>3, <1>10 DEF RequestInv
<1>12. \A q \in active[Node] \ {r} : q.packet.id # h.id
  BY <1>3 DEF RequestInv
<1>13. \A g \in Handshakes', m \in Pending' : m.kind = "Message" => m.id # g.id
  BY <1>3, <1>12 DEF RequestInv, Pending
<1>14. \A q, p \in active'[Node] : q.packet.id = p.packet.id => q = p
  BY <1>2, <1>12 DEF RequestInv
<1> QED
  BY <1>3, <1>5, <1>6, <1>8, <1>9, <1>11, <1>13, <1>14 DEF RequestInv, ChallengeOf

(* Every step is quiet, or one of the two.                                      *)
LEMMA StepKinds ==
  ASSUME TypeOK, ScriptAnswersOnce, RequestInv, [Next]_vars
  PROVE  \/ Quiet
         \/ \E body \in PeerBodies : PeerSendsRequest(Node, body)
         \/ PeerReceivesWhoAreYou(Node)
<1>1. CASE \/ Handler \/ RecvHandler \/ SendHandler \/ SendHandlerPanics
           \/ \E p \in Peers : SendRandomPacket(p)
  BY <1>1, MockQuiet
<1>2. CASE PeerStep(Node)
  BY <1>2, TimesOutQuiet, ReceivesQuiet DEF PeerStep
<1>3. CASE UNCHANGED vars
  <2>1. UNCHANGED <<udp_in, recv_ch, turn, active, next_id>>
    BY <1>3 DEF vars, handlerVars, peerVars
  <2>2. Underway' = Underway /\ Pending' = Pending
    BY <2>1 DEF Underway, Pending, InHand, Elements
  <2> QED
    BY <2>1, <2>2 DEF Quiet, Messages, Handshakes, RequestInv, Distinct
<1> QED
  BY <1>1, <1>2, <1>3, OneNode DEF Next

LEMMA RequestStep ==
  ASSUME TypeOK, ScriptAnswersOnce, SealInv, FlowInv, RequestInv, [Next]_vars
  PROVE  RequestInv'
  BY StepKinds, RequestQuiet, RequestSends, RequestAnswers
--------------------------------------------------------------------------------
(* The challenges on their way.                                                 *)
LEMMA FlowUnchanged ==
  ASSUME FlowInv, Flow' = Flow, UNCHANGED <<next_challenge, derived>>
  PROVE  FlowInv'
  BY DEF FlowInv, DerivedBy

(* A packet that is put on the channel is the last of the flow; SendHandler     *)
(* moves a packet on within it; what a node receives is the first.              *)
LEMMA SplitHead ==
  ASSUME NEW S, NEW s \in Seq(S), s # <<>>
  PROVE  Head(s) \in S /\ Tail(s) \in Seq(S) /\ <<Head(s)>> \in Seq(S)
         /\ s = <<Head(s)>> \o Tail(s)
<1>1. Len(s) \in Nat \ {0}
  BY EmptySeq
<1>2. 1 \in 1..Len(s) /\ Len(s) \in 1..Len(s)
  BY <1>1
<1>3. SubSeq(s, 1, Len(s)) = <<s[1]>> \o SubSeq(s, 2, Len(s))
  BY <1>2, SubSeqRecursiveFirst
<1>4. Tail(s) = SubSeq(s, 2, Len(s)) /\ SubSeq(s, 1, Len(s)) = s
  BY TailIsSubSeq, SubSeqFull
<1>5. Head(s) = s[1] /\ Head(s) \in S /\ Tail(s) \in Seq(S)
  BY HeadTailProperties, TailElements
<1> QED
  BY <1>3, <1>4, <1>5

LEMMA ConcatAppend ==
  ASSUME NEW S, NEW s \in Seq(S), NEW t \in Seq(S), NEW e \in S
  PROVE  s \o Append(t, e) = Append(s \o t, e)
<1>1. <<e>> \in Seq(S) /\ s \o t \in Seq(S)
  BY ConcatProperties
<1>2. Append(t, e) = t \o <<e>> /\ Append(s \o t, e) = (s \o t) \o <<e>>
  BY <1>1, AppendIsConcat
<1> QED
  BY <1>1, <1>2, ConcatAssociative

LEMMA ConcatMoves ==
  ASSUME NEW S, NEW s \in Seq(S), NEW t \in Seq(S), t # <<>>
  PROVE  Append(s, Head(t)) \o Tail(t) = s \o t
<1>1. Head(t) \in S /\ Tail(t) \in Seq(S) /\ <<Head(t)>> \in Seq(S) /\ t = <<Head(t)>> \o Tail(t)
  BY SplitHead
<1>2. Append(s, Head(t)) = s \o <<Head(t)>>
  BY <1>1, AppendIsConcat
<1> QED
  BY <1>1, <1>2, ConcatAssociative

LEMMA ConcatTail ==
  ASSUME NEW S, NEW s \in Seq(S), NEW t \in Seq(S), s # <<>>
  PROVE  Tail(s) \o t = Tail(s \o t) /\ s \o t # <<>>
<1> DEFINE w == s \o t
           rest == Tail(s) \o t
<1>1. Head(s) \in S /\ Tail(s) \in Seq(S) /\ <<Head(s)>> \in Seq(S) /\ s = <<Head(s)>> \o Tail(s)
  BY SplitHead
<1>2. w \in Seq(S) /\ rest \in Seq(S) /\ w # <<>>
  BY <1>1, ConcatProperties, ConcatEqualIffEmpty
<1>3. w = <<Head(s)>> \o rest
  BY <1>1, ConcatAssociative
<1>4. w = <<Head(w)>> \o Tail(w) /\ Tail(w) \in Seq(S) /\ <<Head(w)>> \in Seq(S)
  BY <1>2, SplitHead
<1>5. Head(w) = Head(s)
  <2>1. Head(w) = w[1] /\ Head(s) = s[1]
    BY <1>2, TailElements
  <2>2. Len(s) \in Nat \ {0} /\ Len(t) \in Nat
    BY EmptySeq, LenProperties
  <2>3. 1 \in 1..(Len(s) + Len(t)) /\ 1 <= Len(s)
    BY <2>2
  <2>4. w[1] = s[1]
    BY <2>3, ConcatProperties
  <2> QED
    BY <2>1, <2>4
<1> HIDE DEF w, rest
<1>6. rest = Tail(w)
  <2>1. <<Head(s)>> \o rest = <<Head(s)>> \o Tail(w)
    BY <1>3, <1>4, <1>5
  <2> QED
    BY <1>1, <1>2, <1>4, <2>1, ConcatSimplifications
<1> QED
  BY <1>2, <1>6 DEF w, rest

LEMMA FlowAppends ==
  ASSUME TypeOK, ScriptAnswersOnce, NEW packet \in OutboundPackets, Send(packet),
         UNCHANGED wire
  PROVE  Flow' = Append(Flow, packet)
<1>1. wire[Node] \in Seq(OutboundPackets) /\ send_ch \in Seq(OutboundPackets)
  BY FlowType
<1>2. Flow' = wire[Node] \o Append(send_ch, packet)
  BY DEF Flow, Send
<1>3. \A s \in Seq(OutboundPackets) : s \o Append(send_ch, packet) = Append(s \o send_ch, packet)
  BY <1>1, ConcatAppend
<1> QED
  BY <1>1, <1>2, <1>3 DEF Flow

LEMMA FlowSend ==
  ASSUME TypeOK, ScriptAnswersOnce, FlowInv, NEW packet \in OutboundPackets, Send(packet),
         UNCHANGED <<wire, derived>>, next_challenge' \in Nat,
         next_challenge <= next_challenge',
         packet.kind = "WhoAreYou" =>
           packet.challenge = next_challenge /\ next_challenge < next_challenge'
  PROVE  FlowInv'
<1> DEFINE n == Len(Flow)
           new == Append(Flow, packet)
<1>1. Flow \in Seq(OutboundPackets) /\ n \in Nat /\ DOMAIN Flow = 1..n
  BY FlowType, LenProperties
<1>2. Flow' = new
  BY FlowAppends
<1>3. DOMAIN new = 1..(n + 1) /\ new[n + 1] = packet /\ \A i \in 1..n : new[i] = Flow[i]
  <2>1. new \in Seq(OutboundPackets) /\ Len(new) = n + 1
    BY <1>1, AppendProperties
  <2> QED
    BY <1>1, <2>1, AppendProperties, LenProperties
<1>4. \A i \in 1..n : Flow[i].kind = "WhoAreYou" => Flow[i].challenge \in Nat
  <2>1. \A i \in 1..n : Flow[i] \in OutboundPackets
    BY <1>1, ElementOfSeq
  <2> QED
    BY <2>1 DEF OutboundPackets
<1>5. next_challenge \in Nat
  BY DEF TypeOK, HandlerTypeOK
<1>6. \A s \in DerivedBy(derived, Node) : s.challenge \in Nat /\ s.challenge < next_challenge
  <2>1. derived[Node] \in Seq(Secrets)
    BY OneNode DEF TypeOK
  <2>2. \A s \in DerivedBy(derived, Node) : s \in Secrets
    BY <2>1, LenProperties DEF DerivedBy
  <2> QED
    BY <2>2 DEF FlowInv, Secrets
<1>7. \A i \in 1..n : Flow[i].kind = "WhoAreYou" =>
        /\ Flow[i].challenge < next_challenge
        /\ \A s \in DerivedBy(derived, Node) : s.challenge < Flow[i].challenge
  BY <1>1 DEF FlowInv
<1>8. \A i, j \in 1..n : i < j /\ Flow[i].kind = "WhoAreYou" /\ Flow[j].kind = "WhoAreYou"
        => Flow[i].challenge < Flow[j].challenge
  BY <1>1 DEF FlowInv
<1> HIDE DEF n, new
<1>9. \A i \in 1..(n + 1) : i \in 1..n \/ i = n + 1
  BY <1>1
<1>10. \A i, j \in 1..(n + 1) : i < j /\ new[i].kind = "WhoAreYou" /\ new[j].kind = "WhoAreYou"
         => new[i].challenge < new[j].challenge
  <2> SUFFICES ASSUME NEW i \in 1..(n + 1), NEW j \in 1..(n + 1), i < j,
                      new[i].kind = "WhoAreYou", new[j].kind = "WhoAreYou"
               PROVE  new[i].challenge < new[j].challenge
    OBVIOUS
  <2>1. i \in 1..n
    BY <1>1
  <2>2. CASE j \in 1..n
    BY <1>3, <1>8, <2>1, <2>2
  <2>3. CASE j = n + 1
    BY <1>3, <1>7, <2>1, <2>3
  <2> QED
    BY <1>9, <2>2, <2>3
<1>11. \A i \in 1..(n + 1) : new[i].kind = "WhoAreYou" =>
         /\ new[i].challenge < next_challenge'
         /\ \A s \in DerivedBy(derived, Node) : s.challenge < new[i].challenge
  <2> SUFFICES ASSUME NEW i \in 1..(n + 1), new[i].kind = "WhoAreYou"
               PROVE  /\ new[i].challenge < next_challenge'
                      /\ \A s \in DerivedBy(derived, Node) : s.challenge < new[i].challenge
    OBVIOUS
  <2>1. CASE i \in 1..n
    <3>1. new[i] = Flow[i] /\ Flow[i].challenge \in Nat /\ Flow[i].challenge < next_challenge
      BY <1>3, <1>4, <1>7, <2>1
    <3>2. \A s \in DerivedBy(derived, Node) : s.challenge < Flow[i].challenge
      BY <1>3, <1>7, <2>1
    <3> QED
      BY <1>5, <3>1, <3>2
  <2>2. CASE i = n + 1
    BY <1>3, <1>6, <2>2
  <2> QED
    BY <1>9, <2>1, <2>2
<1>12. \A s \in DerivedBy(derived, Node) : s.challenge < next_challenge'
  BY <1>5, <1>6
<1>13. DerivedBy(derived', Node) = DerivedBy(derived, Node)
  BY DEF DerivedBy
<1> QED
  BY <1>2, <1>3, <1>10, <1>11, <1>12, <1>13 DEF FlowInv

(* SendHandler puts the head of the channel at the end of the wire; when it     *)
(* dies, what is in the channel is lost.                                        *)
LEMMA FlowMoves ==
  ASSUME TypeOK, ScriptAnswersOnce, FlowInv, SendHandler
  PROVE  FlowInv'
<1>1. /\ send_ch \in Seq(OutboundPackets) /\ send_ch # <<>> /\ send_ch' = Tail(send_ch)
      /\ wire[Node] \in Seq(OutboundPackets)
      /\ UNCHANGED <<next_challenge, derived>>
  BY FlowType DEF SendHandler, peerVars
<1>2. Head(send_ch).dst = Node
  <2>1. Head(send_ch) \in OutboundPackets
    BY <1>1, HeadTailProperties
  <2> QED
    BY <2>1, OneNode, OutboundFields
<1>3. wire'[Node] = Append(wire[Node], Head(send_ch))
  BY <1>2, OneNode DEF SendHandler, TypeOK
<1>4. \A s \in Seq(OutboundPackets) :
        Append(s, Head(send_ch)) \o Tail(send_ch) = s \o send_ch
  BY <1>1, ConcatMoves
<1>5. Flow' = Flow
  BY <1>1, <1>3, <1>4 DEF Flow
<1> QED
  BY <1>1, <1>5, FlowUnchanged

LEMMA FlowCut ==
  ASSUME TypeOK, ScriptAnswersOnce, FlowInv, SendHandlerPanics
  PROVE  FlowInv'
<1>1. /\ send_ch' = <<>> /\ UNCHANGED <<wire, next_challenge, derived>>
  BY DEF SendHandlerPanics, peerVars
<1>2. Flow' = wire[Node]
  <2>1. wire[Node] \in Seq(OutboundPackets)
    BY FlowType
  <2>2. \A s \in Seq(OutboundPackets) : s \o <<>> = s
    BY ConcatEmptySeq
  <2> QED
    BY <1>1, <2>1, <2>2 DEF Flow
<1> DEFINE new == Flow'
           n == Len(wire[Node])
<1>3. DOMAIN new = 1..n /\ n \in Nat /\ \A i \in 1..n : i \in DOMAIN Flow /\ new[i] = Flow[i]
  <2>1. /\ DOMAIN Flow = 1..(n + Len(send_ch)) /\ n \in Nat /\ Len(send_ch) \in Nat
        /\ \A i \in 1..(n + Len(send_ch)) : i <= n => Flow[i] = wire[Node][i]
    BY FlowType
  <2>2. DOMAIN wire[Node] = 1..n
    BY FlowType, LenProperties
  <2> HIDE DEF n
  <2>3. \A i \in 1..n : i \in 1..(n + Len(send_ch)) /\ i <= n
    BY <2>1
  <2> QED
    BY <1>2, <2>1, <2>2, <2>3
<1>4. DerivedBy(derived', Node) = DerivedBy(derived, Node)
  BY <1>1 DEF DerivedBy
<1> HIDE DEF n
<1> QED
  BY <1>1, <1>3, <1>4 DEF FlowInv

(* A node that takes a packet may derive a secret from its challenge.           *)
LEMMA FlowTaken ==
  ASSUME TypeOK, ScriptAnswersOnce, FlowInv, wire[Node] # <<>>, Taken(Node),
         UNCHANGED <<send_ch, next_challenge>>,
         \A s \in DerivedBy(derived', Node) :
           \/ s \in DerivedBy(derived, Node)
           \/ /\ Head(wire[Node]).kind = "WhoAreYou"
              /\ s.challenge = Head(wire[Node]).challenge
  PROVE  FlowInv'
<1> DEFINE w == Head(wire[Node])
           new == Tail(Flow)
<1>1. wire[Node] \in Seq(OutboundPackets) /\ send_ch \in Seq(OutboundPackets)
      /\ Flow \in Seq(OutboundPackets)
  BY FlowType
<1>2. wire'[Node] = Tail(wire[Node])
  BY OneNode DEF Taken, TypeOK
<1>3. \A s \in Seq(OutboundPackets) : s # <<>> =>
        Tail(s) \o send_ch = Tail(s \o send_ch) /\ s \o send_ch # <<>>
  BY <1>1, ConcatTail
<1>4. Flow' = new /\ Flow # <<>>
  BY <1>1, <1>2, <1>3 DEF Flow
<1>5. \A i \in DOMAIN new : i \in Nat /\ i + 1 \in DOMAIN Flow /\ new[i] = Flow[i + 1]
  BY <1>1, <1>4, TailElements
<1>6. w.kind = "WhoAreYou" =>
        /\ w.challenge < next_challenge
        /\ \A j \in DOMAIN Flow : j # 1 /\ Flow[j].kind = "WhoAreYou" =>
             w.challenge < Flow[j].challenge
  BY FirstOfFlow
<1>7. \A i \in DOMAIN new : i \in Nat /\ i \in 1..Len(new)
  BY <1>1, <1>4, HeadTailProperties, LenProperties
<1> HIDE DEF w, new
<1>8. \A i, j \in DOMAIN new :
        i < j /\ new[i].kind = "WhoAreYou" /\ new[j].kind = "WhoAreYou"
          => new[i].challenge < new[j].challenge
  <2> SUFFICES ASSUME NEW i \in DOMAIN new, NEW j \in DOMAIN new, i < j,
                      new[i].kind = "WhoAreYou", new[j].kind = "WhoAreYou"
               PROVE  new[i].challenge < new[j].challenge
    OBVIOUS
  <2>1. i + 1 < j + 1
    BY <1>5
  <2> QED
    BY <1>5, <2>1 DEF FlowInv
<1>9. \A i \in DOMAIN new : i + 1 # 1
  BY <1>7
<1>10. \A i \in DOMAIN new : new[i].kind = "WhoAreYou" =>
         /\ new[i].challenge < next_challenge
         /\ \A s \in DerivedBy(derived', Node) : s.challenge < new[i].challenge
  BY <1>5, <1>6, <1>9 DEF FlowInv, w
<1>11. \A s \in DerivedBy(derived', Node) : s.challenge < next_challenge
  BY <1>6 DEF FlowInv, w
<1> QED
  BY <1>4, <1>8, <1>10, <1>11 DEF FlowInv

LEMMA FlowReceives ==
  ASSUME TypeOK, ScriptAnswersOnce, FlowInv,
         \/ PeerReceivesWhoAreYou(Node) \/ PeerRefusesWhoAreYou(Node)
         \/ PeerReceivesResponse(Node) \/ PeerReceivesUnreadable(Node)
  PROVE  FlowInv'
<1>1. wire[Node] # <<>> /\ Taken(Node) /\ UNCHANGED <<send_ch, next_challenge>>
  BY DEF PeerReceivesWhoAreYou, PeerRefusesWhoAreYou, PeerReceivesResponse,
         PeerReceivesUnreadable, Arrives, handlerVars
<1>2. CASE ~PeerReceivesWhoAreYou(Node)
  <2>1. UNCHANGED derived
    BY <1>2 DEF PeerRefusesWhoAreYou, PeerReceivesResponse, PeerReceivesUnreadable
  <2>2. DerivedBy(derived', Node) = DerivedBy(derived, Node)
    BY <2>1 DEF DerivedBy
  <2> QED
    BY <1>1, <2>2, FlowTaken
<1>3. CASE PeerReceivesWhoAreYou(Node)
  <2>1. PICK secret \in Secrets :
          /\ secret.challenge = Head(wire[Node]).challenge
          /\ derived' = [derived EXCEPT ![Node] = Append(@, secret)]
    BY <1>3, AnswersNew
  <2>2. derived[Node] \in Seq(Secrets) /\ derived'[Node] = Append(derived[Node], secret)
    BY <2>1, OneNode DEF TypeOK
  <2>3. \A s \in DerivedBy(derived', Node) : s \in DerivedBy(derived, Node) \/ s = secret
    <3>1. \A d \in Seq(Secrets) : \A i \in DOMAIN Append(d, secret) :
            (i \in DOMAIN d /\ Append(d, secret)[i] = d[i]) \/ Append(d, secret)[i] = secret
      BY AppendElements
    <3> QED
      BY <2>2, <3>1 DEF DerivedBy
  <2>4. Head(wire[Node]).kind = "WhoAreYou"
    BY <1>3 DEF PeerReceivesWhoAreYou, Arrives
  <2> QED
    BY <1>1, <2>1, <2>3, <2>4, FlowTaken
<1> QED
  BY <1>2, <1>3

LEMMA FlowHandler ==
  ASSUME TypeOK, ScriptAnswersOnce, FlowInv, Handler
  PROVE  FlowInv'
<1>1. UNCHANGED <<wire, derived>> /\ next_challenge \in Nat
  BY DEF Handler, peerVars, TypeOK, HandlerTypeOK
<1>2. CASE UNCHANGED <<send_ch, next_challenge>>
  BY <1>1, <1>2, FlowUnchanged DEF Flow
<1>3. CASE ProcessHandlerRequest /\ ~UNCHANGED send_ch
  <2> DEFINE packet == [kind |-> "Random", dst |-> Head(from_mock)]
  <2>1. Send(packet) /\ UNCHANGED next_challenge
    BY <1>3 DEF ProcessHandlerRequest
  <2>2. packet \in OutboundPackets /\ packet.kind # "WhoAreYou"
    BY <1>3, HeadTailProperties, OutboundFields DEF ProcessHandlerRequest, TypeOK, HandlerTypeOK
  <2> HIDE DEF packet
  <2> QED
    BY <1>1, <2>1, <2>2, FlowSend
<1>4. CASE SendChallenge
  <2> DEFINE packet == [kind |-> "WhoAreYou", dst |-> turn.packet.src, id |-> turn.packet.id,
                        challenge |-> next_challenge, enr_seq |-> 0]
  <2>1. turn # None /\ Send(packet) /\ next_challenge' = next_challenge + 1
    BY <1>4 DEF SendChallenge, Acts
  <2>2. turn.packet.src \in Peers /\ turn.packet.id \in Ids
    BY <2>1, TurnFields DEF TypeOK
  <2>3. packet \in OutboundPackets /\ packet.challenge = next_challenge
    BY <1>1, <2>2, OutboundFields
  <2> HIDE DEF packet
  <2>4. next_challenge' \in Nat /\ next_challenge < next_challenge' /\ next_challenge <= next_challenge'
    BY <1>1, <2>1
  <2> QED
    BY <1>1, <2>1, <2>3, <2>4, FlowSend
<1>5. CASE SendDefaultResponse \/ SendCustomResponse
  <2>1. PICK packet \in OutboundPackets : Send(packet) /\ packet.kind = "Response"
    BY <1>5, ResponseToSource, ResponseKeepsKey
  <2>2. UNCHANGED next_challenge
    BY <1>5 DEF SendDefaultResponse, SendCustomResponse, SendResponse
  <2> QED
    BY <1>1, <2>1, <2>2, FlowSend
<1> QED
  BY <1>2, <1>3, <1>4, <1>5
  DEF Handler, HandlerStep, DoAction, ProcessHandlerRequest, ProcessDeclarative,
      ProcessSequential, RejectSequential, Ignore, EstablishSession, CaptureRequest,
      PanicInTurn, Panic

LEMMA FlowStep ==
  ASSUME TypeOK, ScriptAnswersOnce, FlowInv, [Next]_vars
  PROVE  FlowInv'
<1>1. CASE Handler
  BY <1>1, FlowHandler
<1>2. CASE SendHandler
  BY <1>2, FlowMoves
<1>3. CASE SendHandlerPanics
  BY <1>3, FlowCut
<1>4. CASE \/ RecvHandler \/ UNCHANGED vars \/ \E p \in Peers : SendRandomPacket(p)
           \/ \E body \in PeerBodies : PeerSendsRequest(Node, body)
           \/ \E r \in active[Node] : PeerRetries(Node, r) \/ PeerGivesUp(Node, r)
  <2>1. UNCHANGED <<wire, send_ch, next_challenge, derived>>
    BY <1>4 DEF RecvHandler, vars, handlerVars, peerVars, SendRandomPacket, PeerSendsRequest,
                PeerRetries, PeerGivesUp
  <2> QED
    BY <2>1, FlowUnchanged DEF Flow
<1>5. CASE \/ PeerReceivesWhoAreYou(Node) \/ PeerRefusesWhoAreYou(Node)
           \/ PeerReceivesResponse(Node) \/ PeerReceivesUnreadable(Node)
  BY <1>5, FlowReceives
<1> QED
  BY <1>1, <1>2, <1>3, <1>4, <1>5, OneNode DEF Next, PeerStep
--------------------------------------------------------------------------------
(* The challenge that is held, and the one that the session came from.          *)
LEMMA HeldType ==
  ASSUME TypeOK, ScriptAnswersOnce
  PROVE  /\ next_challenge \in Nat
         /\ active_challenges[Node] # None => active_challenges[Node] \in Nat
         /\ sessions[Node] # None => Agreed \in Nat /\ sessions[Node].decryption_key \in Keys
<1>1. next_challenge \in Nat /\ active_challenges[Node] \in Nat \cup {None}
      /\ sessions[Node] \in Session \cup {None}
  BY OneNode DEF TypeOK, HandlerTypeOK
<1>2. sessions[Node] # None => sessions[Node].decryption_key \in Keys
  BY <1>1 DEF Session
<1>3. sessions[Node] # None => Agreed \in Nat
  BY <1>2 DEF Keys, Secrets, Agreed
<1> QED
  BY <1>1, <1>2, <1>3

(* What a step does with them: a session stays, and what replaces it is later.  *)
SessionKept ==
  sessions[Node] # None => /\ sessions'[Node] # None
                           /\ Agreed' \in Nat /\ Agreed <= Agreed'

LEMMA HeldStep ==
  ASSUME TypeOK, ScriptAnswersOnce, HeldInv, [Next]_vars
  PROVE  HeldInv' /\ SessionKept
<1>1. /\ next_challenge \in Nat
      /\ active_challenges[Node] # None => active_challenges[Node] \in Nat
      /\ sessions[Node] # None => Agreed \in Nat
  BY HeldType
<1>2. CASE UNCHANGED <<active_challenges, sessions, next_challenge>>
  BY <1>1, <1>2 DEF HeldInv, Agreed, SessionKept
<1>3. CASE SendChallenge
  <2>1. /\ turn # None /\ next_challenge' = next_challenge + 1 /\ UNCHANGED sessions
        /\ active_challenges' = [active_challenges EXCEPT ![turn.packet.src] = next_challenge]
    BY <1>3 DEF SendChallenge, Acts, MapInsert
  <2>2. turn.packet.src = Node
    BY <2>1, OneNode, TurnFields DEF TypeOK
  <2>3. active_challenges'[Node] = next_challenge
    BY <2>1, <2>2, OneNode DEF TypeOK, HandlerTypeOK
  <2>4. Agreed' = Agreed
    BY <2>1 DEF Agreed
  <2> QED
    BY <1>1, <2>1, <2>3, <2>4 DEF HeldInv, SessionKept
<1>4. CASE EstablishSession
  <2> DEFINE c == active_challenges[Node]
  <2>1. /\ turn # None /\ active_challenges[turn.packet.src] # None /\ UNCHANGED next_challenge
        /\ active_challenges' = [active_challenges EXCEPT ![turn.packet.src] = None]
        /\ sessions' = [sessions EXCEPT ![turn.packet.src] = Candidate(turn.packet)]
    BY <1>4 DEF EstablishSession, Acts, MapInsert, MapRemove
  <2>2. turn.packet.src = Node /\ turn.packet.ephem \in Nat
    BY <2>1, OneNode, TurnFields DEF TypeOK
  <2>3. active_challenges'[Node] = None /\ sessions'[Node] = Candidate(turn.packet)
    BY <2>1, <2>2, OneNode DEF TypeOK, HandlerTypeOK
  <2>4. c \in Nat
    BY <1>1, <2>1, <2>2
  <2>5. Candidate(turn.packet) \in Session /\ Candidate(turn.packet) # None
    BY <2>2, <2>4, OneNode, SessionTypes, NoneAssumption DEF Candidate
  <2>6. Agreed' = c
    <3>1. Candidate(turn.packet).decryption_key.secret.challenge = active_challenges[turn.packet.src]
      BY DEF Candidate, EstablishFromChallenge, InitiatorKey
    <3> QED
      BY <2>2, <2>3, <3>1 DEF Agreed
  <2>7. sessions[Node] # None => Agreed < c
    BY <2>1, <2>2 DEF HeldInv
  <2>8. c < next_challenge
    BY <2>1, <2>2 DEF HeldInv
  <2> HIDE DEF c
  <2> QED
    BY <1>1, <2>1, <2>3, <2>4, <2>5, <2>6, <2>7, <2>8 DEF HeldInv, SessionKept
<1>5. CASE SendDefaultResponse \/ SendCustomResponse
  <2>1. UNCHANGED next_challenge
    BY <1>5 DEF SendDefaultResponse, SendCustomResponse, SendResponse
  <2>2. /\ UNCHANGED active_challenges
        /\ sessions'[Node] # None <=> sessions[Node] # None
        /\ sessions'[Node].decryption_key = sessions[Node].decryption_key
    BY <1>5, OneNode, ResponseToSource, ResponseKeepsKey
  <2>3. Agreed' = Agreed
    BY <2>2 DEF Agreed
  <2> QED
    BY <1>1, <2>1, <2>2, <2>3 DEF HeldInv, SessionKept
<1> QED
  BY <1>2, <1>3, <1>4, <1>5
  DEF Next, vars, handlerVars, Handler, HandlerStep, DoAction, ProcessHandlerRequest,
      ProcessDeclarative, ProcessSequential, RejectSequential, Ignore,
      CaptureRequest, PanicInTurn, Panic, RecvHandler, SendHandler,
      SendHandlerPanics, SendRandomPacket, PeerStep, PeerSendsRequest, PeerRetries,
      PeerGivesUp, PeerReceivesWhoAreYou, PeerRefusesWhoAreYou, PeerReceivesResponse,
      PeerReceivesUnreadable
--------------------------------------------------------------------------------
(* What is left of a list of actions: all but the first of them (d = 1), or all *)
(* but the first answer of the first (d = 0).                                   *)
Place(a, j, d) == IF a = 1 THEN j + 1 - d ELSE j

LeftOf(new, old, d) ==
  \A a \in DOMAIN new :
    /\ a \in Nat \ {0} /\ a + d \in DOMAIN old /\ new[a].op = old[a + d].op
    /\ \A j \in DOMAIN new[a].ids :
         /\ j \in Nat \ {0} /\ Place(a, j, d) \in DOMAIN old[a + d].ids
         /\ new[a].ids[j] = old[a + d].ids[Place(a, j, d)]

LEMMA LeftFacts ==
  ASSUME NEW new, NEW old, NEW d \in {0, 1}, LeftOf(new, old, d), AnswersOnce(old)
  PROVE  /\ AnswersOnce(new)
         /\ Indices(new) \subseteq Indices(old)
         /\ Captures(new) => Captures(old)
         /\ d = 1 /\ 1 \in DOMAIN old /\ old[1].op = "CaptureRequest" => ~Captures(new)
         /\ 1 \in DOMAIN old /\ 1 \in DOMAIN old[1].ids => old[1].ids[1] \notin Indices(new)
<1>1. \A a \in DOMAIN new :
        /\ a \in Nat \ {0} /\ a + d \in DOMAIN old /\ new[a].op = old[a + d].op
        /\ \A j \in DOMAIN new[a].ids :
             /\ j \in Nat \ {0} /\ Place(a, j, d) \in DOMAIN old[a + d].ids
             /\ new[a].ids[j] = old[a + d].ids[Place(a, j, d)]
  BY DEF LeftOf
<1>2. /\ \A a \in DOMAIN old : old[a].op # "RespondDefault"
      /\ \A a, b \in DOMAIN old :
           \A j \in DOMAIN old[a].ids, k \in DOMAIN old[b].ids :
             old[a].ids[j] = old[b].ids[k] => a = b /\ j = k
      /\ \A a, b \in DOMAIN old :
           old[a].op = "CaptureRequest" /\ old[b].op = "CaptureRequest" => a = b
  BY DEF AnswersOnce
<1>3. \A a, b \in Nat : a + d = b + d => a = b
  OBVIOUS
<1>4. \A a, j, k \in Nat : Place(a, j, d) = Place(a, k, d) => j = k
  BY DEF Place
<1>5. \A a, j \in Nat \ {0} : ~(a + d = 1 /\ Place(a, j, d) = 1)
  BY DEF Place
<1>6. \A a \in DOMAIN new : new[a].op # "RespondDefault"
  BY <1>1, <1>2
<1>7. ASSUME NEW a \in DOMAIN new, NEW b \in DOMAIN new,
             NEW j \in DOMAIN new[a].ids, NEW k \in DOMAIN new[b].ids,
             new[a].ids[j] = new[b].ids[k]
      PROVE  a = b /\ j = k
  <2>1. a + d = b + d /\ Place(a, j, d) = Place(b, k, d)
    BY <1>1, <1>2, <1>7
  <2>2. a = b
    BY <1>1, <1>3, <2>1
  <2> QED
    BY <1>1, <1>4, <2>1, <2>2
<1>8. ASSUME NEW a \in DOMAIN new, NEW b \in DOMAIN new,
             new[a].op = "CaptureRequest", new[b].op = "CaptureRequest"
      PROVE  a = b
  BY <1>1, <1>2, <1>3, <1>8
<1>9. AnswersOnce(new)
  BY <1>6, <1>7, <1>8 DEF AnswersOnce
<1>10. ASSUME NEW x \in Indices(new)
       PROVE  \E a \in DOMAIN old : \E j \in DOMAIN old[a].ids :
                x = old[a].ids[j] /\ ~(a = 1 /\ j = 1)
  <2>1. PICK a \in DOMAIN new : x \in {new[a].ids[j] : j \in DOMAIN new[a].ids}
    BY <1>10 DEF Indices
  <2>2. PICK j \in DOMAIN new[a].ids : x = new[a].ids[j]
    BY <2>1
  <2> QED
    BY <1>1, <1>5, <2>2
<1>11. Indices(new) \subseteq Indices(old)
  BY <1>10 DEF Indices
<1>12. Captures(new) => Captures(old)
  BY <1>1 DEF Captures
<1>13. d = 1 /\ 1 \in DOMAIN old /\ old[1].op = "CaptureRequest" => ~Captures(new)
  <2> SUFFICES ASSUME d = 1, 1 \in DOMAIN old, old[1].op = "CaptureRequest",
                      NEW a \in DOMAIN new, new[a].op = "CaptureRequest"
               PROVE  FALSE
    BY DEF Captures
  <2>1. a + 1 \in DOMAIN old /\ old[a + 1].op = "CaptureRequest" /\ a \in Nat \ {0}
    BY <1>1
  <2>2. a + 1 = 1
    BY <1>2, <2>1
  <2> QED
    BY <2>1, <2>2
<1>14. 1 \in DOMAIN old /\ 1 \in DOMAIN old[1].ids => old[1].ids[1] \notin Indices(new)
  BY <1>2, <1>10
<1> QED
  BY <1>9, <1>11, <1>12, <1>13, <1>14

(* A turn that goes on is left with the rest of its actions.                    *)
LEMMA IdsType ==
  ASSUME NEW action \in Actions
  PROVE  /\ action.ids \in Seq(Nat)
         /\ DOMAIN action.ids \subseteq Nat \ {0}
<1>1. action.ids \in Seq(Nat)
  BY EmptySeq DEF Actions
<1>2. DOMAIN action.ids = 1..Len(action.ids) /\ Len(action.ids) \in Nat
  BY <1>1, LenProperties
<1> QED
  BY <1>1, <1>2

LEMMA TailLeft ==
  ASSUME NEW actions \in Seq(Actions), actions # <<>>
  PROVE  LeftOf(Tail(actions), actions, 1)
<1> DEFINE rest == Tail(actions)
<1>1. rest \in Seq(Actions) /\ DOMAIN rest = 1..Len(rest) /\ Len(rest) \in Nat
  BY HeadTailProperties, LenProperties
<1>2. \A a \in DOMAIN rest : a + 1 \in DOMAIN actions /\ rest[a] = actions[a + 1]
  BY TailElements
<1>3. \A a \in DOMAIN rest : rest[a] \in Actions /\ a \in Nat \ {0}
  BY <1>1, ElementOfSeq
<1> HIDE DEF rest
<1>4. \A a \in DOMAIN rest : \A j \in DOMAIN rest[a].ids : j \in Nat \ {0} /\ Place(a, j, 1) = j
  BY <1>3, IdsType DEF Place
<1> QED
  BY <1>2, <1>3, <1>4 DEF LeftOf, rest

LEMMA CustomLeft ==
  ASSUME NEW actions \in Seq(Actions), actions # <<>>, NEW ids \in Seq(Nat),
         Head(actions).op = "RespondCustom", ids = Tail(Head(actions).ids), ids # <<>>
  PROVE  LeftOf(<<[op |-> "RespondCustom", ids |-> ids]>> \o Tail(actions), actions, 0)
<1> DEFINE again == [op |-> "RespondCustom", ids |-> ids]
           rest == Tail(actions)
           new == <<again>> \o rest
<1>1. again \in Actions /\ again.op = "RespondCustom" /\ again.ids = ids
  BY DEF Actions
<1>2. /\ rest \in Seq(Actions) /\ Head(actions) \in Actions
      /\ 1 \in DOMAIN actions /\ actions[1] = Head(actions)
      /\ \A a \in DOMAIN rest : a \in Nat /\ a + 1 \in DOMAIN actions /\ rest[a] = actions[a + 1]
  BY HeadTailProperties, TailElements
<1>3. /\ Head(actions).ids \in Seq(Nat) /\ Head(actions).ids # <<>>
  BY <1>2 DEF Actions
<1>4. \A j \in DOMAIN ids : j \in Nat /\ j + 1 \in DOMAIN Head(actions).ids
                            /\ ids[j] = Head(actions).ids[j + 1]
  BY <1>3, TailElements
<1>5. DOMAIN ids \subseteq Nat \ {0}
  BY <1>1, IdsType
<1> HIDE DEF again, rest
<1>6. \A a \in DOMAIN new :
        \/ a = 1 /\ new[a] = again
        \/ a \in Nat \ {0, 1} /\ a - 1 \in DOMAIN rest /\ new[a] = rest[a - 1]
  <2>1. <<again>> \in Seq(Actions) /\ Len(<<again>>) = 1 /\ <<again>>[1] = again
    BY <1>1
  <2>2. /\ DOMAIN new = 1..Len(new) /\ Len(new) = 1 + Len(rest)
        /\ DOMAIN rest = 1..Len(rest) /\ Len(rest) \in Nat
        /\ \A i \in 1..Len(new) : new[i] = IF i <= 1 THEN <<again>>[i] ELSE rest[i - 1]
    BY <1>2, <2>1, ConcatProperties, LenProperties
  <2> DEFINE n == Len(rest)
             one == <<again>>
  <2>3. /\ DOMAIN new = 1..(1 + n) /\ DOMAIN rest = 1..n /\ n \in Nat
        /\ \A i \in 1..(1 + n) : new[i] = IF i <= 1 THEN one[i] ELSE rest[i - 1]
    BY <2>2
  <2>4. one[1] = again
    BY <2>1
  <2> HIDE DEF new, n, one
  <2>5. \A i \in 1..(1 + n) : i = 1 \/ (i \in Nat \ {0, 1} /\ i - 1 \in 1..n /\ ~(i <= 1))
    BY <2>3
  <2>6. ASSUME NEW a \in 1..(1 + n), a = 1 PROVE new[a] = again
    <3>1. a <= 1
      BY <2>6
    <3>2. new[a] = one[a]
      BY <2>3, <3>1
    <3> QED
      BY <2>4, <2>6, <3>2
  <2>7. ASSUME NEW a \in 1..(1 + n), a # 1
        PROVE  a \in Nat \ {0, 1} /\ a - 1 \in DOMAIN rest /\ new[a] = rest[a - 1]
    <3>1. a \in Nat \ {0, 1} /\ a - 1 \in 1..n /\ ~(a <= 1)
      BY <2>5, <2>7
    <3> QED
      BY <2>3, <3>1
  <2> QED
    BY <2>3, <2>6, <2>7
<1> HIDE DEF new
<1>7. ASSUME NEW a \in DOMAIN new, a = 1
      PROVE  /\ a \in Nat \ {0} /\ a + 0 \in DOMAIN actions /\ new[a].op = actions[a + 0].op
             /\ \A j \in DOMAIN new[a].ids :
                  /\ j \in Nat \ {0} /\ Place(a, j, 0) \in DOMAIN actions[a + 0].ids
                  /\ new[a].ids[j] = actions[a + 0].ids[Place(a, j, 0)]
  <2>1. new[a] = again /\ a + 0 = 1 /\ actions[a + 0] = Head(actions)
        /\ a + 0 \in DOMAIN actions /\ a \in Nat \ {0}
    BY <1>2, <1>6, <1>7
  <2>2. \A j \in Nat : Place(a, j, 0) = j + 1
    BY <1>7 DEF Place
  <2>3. new[a].op = "RespondCustom" /\ new[a].ids = ids
    BY <1>1, <2>1
  <2>4. \A j \in DOMAIN ids :
          /\ j \in Nat \ {0} /\ Place(a, j, 0) \in DOMAIN Head(actions).ids
          /\ ids[j] = Head(actions).ids[Place(a, j, 0)]
    BY <1>4, <1>5, <2>2
  <2> QED
    BY <2>1, <2>3, <2>4
<1>8. ASSUME NEW a \in DOMAIN new, a # 1
      PROVE  /\ a \in Nat \ {0} /\ a + 0 \in DOMAIN actions /\ new[a].op = actions[a + 0].op
             /\ \A j \in DOMAIN new[a].ids :
                  /\ j \in Nat \ {0} /\ Place(a, j, 0) \in DOMAIN actions[a + 0].ids
                  /\ new[a].ids[j] = actions[a + 0].ids[Place(a, j, 0)]
  <2>1. a \in Nat \ {0, 1} /\ a - 1 \in DOMAIN rest /\ new[a] = rest[a - 1]
    BY <1>6, <1>8
  <2>2. a + 0 = a /\ (a - 1) + 1 = a
    <3>1. a \in Nat
      BY <2>1
    <3> QED
      BY <3>1
  <2>3. a \in DOMAIN actions /\ new[a] = actions[a]
    BY <1>2, <2>1, <2>2
  <2>4. DOMAIN actions = 1..Len(actions)
    BY LenProperties
  <2>5. actions[a] \in Actions
    BY <2>3, <2>4, ElementOfSeq
  <2>6. \A j \in DOMAIN actions[a].ids : j \in Nat \ {0} /\ Place(a, j, 0) = j
    BY <1>8, <2>5, IdsType DEF Place
  <2> QED
    BY <2>1, <2>2, <2>3, <2>6
<1> QED
  BY <1>7, <1>8 DEF LeftOf, new, again, rest

LEMMA TurnLeft ==
  ASSUME TypeOK, DoAction, ~PanicInTurn
  PROVE  /\ turn # None /\ UNCHANGED behaviours
         /\ turn' # None =>
              /\ turn'.packet = turn.packet
              /\ \E d \in {0, 1} : /\ LeftOf(turn'.actions, turn.actions, d)
                                   /\ d = 0 => SendCustomResponse
<1>1. turn # None /\ UNCHANGED behaviours
  BY DEF DoAction, Ignore, SendChallenge, EstablishSession, CaptureRequest,
         SendDefaultResponse, SendCustomResponse, SendResponse, Acts
<1>2. turn.actions \in Seq(Actions) /\ turn.actions # <<>> /\ Head(turn.actions) \in Actions
  BY <1>1, TurnFields DEF TypeOK
<1>3. CASE NextAction
  <2>1. turn' # None => turn'.packet = turn.packet /\ turn'.actions = Tail(turn.actions)
    BY <1>3 DEF NextAction, Begin
  <2>2. LeftOf(Tail(turn.actions), turn.actions, 1)
    BY <1>2, TailLeft
  <2> QED
    BY <1>1, <2>1, <2>2
<1>4. CASE ~NextAction
  <2> DEFINE ids == Tail(Head(turn.actions).ids)
             new == <<[op |-> "RespondCustom", ids |-> ids]>> \o Tail(turn.actions)
  <2>1. SendCustomResponse
    BY <1>4 DEF DoAction, Ignore, SendChallenge, EstablishSession, CaptureRequest,
                SendDefaultResponse
  <2>2. /\ Head(turn.actions).op = "RespondCustom" /\ ids # <<>> /\ Begin(turn.packet, new)
    BY <1>4, <2>1 DEF SendCustomResponse, Acts
  <2>3. ids \in Seq(Nat)
    <3>1. Head(turn.actions).ids \in Seq(Nat) /\ Head(turn.actions).ids # <<>>
      BY <1>2, <2>2 DEF Actions
    <3> QED
      BY <3>1, HeadTailProperties
  <2>4. LeftOf(new, turn.actions, 0)
    BY <1>2, <2>2, <2>3, CustomLeft
  <2>5. turn' # None => turn'.packet = turn.packet /\ turn'.actions = new
    BY <2>2 DEF Begin
  <2> HIDE DEF new, ids
  <2> QED
    BY <1>1, <2>1, <2>4, <2>5
<1> QED
  BY <1>3, <1>4
--------------------------------------------------------------------------------
(* The steps of the handler on what is left of the script: nothing is added.    *)
Remains ==
  /\ CapturesLeft' => CapturesLeft
  /\ \A index : StillToUse(index)' => StillToUse(index)

LEMMA QueueSame ==
  ASSUME QueueLeft, UNCHANGED behaviours, turn' = turn \/ turn' = None
  PROVE  QueueLeft' /\ Remains
<1>1. QueueAnswersOnce(behaviours')
  BY DEF QueueLeft
<1>2. turn' # None => turn' = turn /\ turn # None
  OBVIOUS
<1> QED
  BY <1>1, <1>2 DEF QueueLeft, Remains, CapturesLeft, StillToUse

LEMMA QueueGoesOn ==
  ASSUME TypeOK, QueueLeft, DoAction, ~PanicInTurn
  PROVE  QueueLeft' /\ Remains
<1>1. turn # None /\ UNCHANGED behaviours
  BY TurnLeft
<1>2. CASE turn' = None
  BY <1>1, <1>2, QueueSame
<1>3. CASE turn' # None
  <2>1. PICK d \in {0, 1} : LeftOf(turn'.actions, turn.actions, d)
    BY <1>3, TurnLeft
  <2>2. turn'.packet = turn.packet /\ AnswersOnce(turn.actions)
    BY <1>1, <1>3, TurnLeft DEF QueueLeft
  <2> DEFINE new == turn'.actions
             old == turn.actions
  <2>3. AnswersOnce(new) /\ Indices(new) \subseteq Indices(old) /\ (Captures(new) => Captures(old))
    BY <2>1, <2>2, LeftFacts
  <2>4. \A i \in DOMAIN behaviours :
          /\ Indices(old) \cap Indices(behaviours[i].actions) = {}
          /\ CapturesLast(turn.packet.kind, old, behaviours[i].actions)
    BY <1>1 DEF QueueLeft
  <2>5. QueueAnswersOnce(behaviours')
    BY <1>1 DEF QueueLeft
  <2> HIDE DEF new, old
  <2>6. \A i \in DOMAIN behaviours :
          /\ Indices(new) \cap Indices(behaviours[i].actions) = {}
          /\ CapturesLast(turn.packet.kind, new, behaviours[i].actions)
    BY <2>3, <2>4 DEF CapturesLast
  <2> QED
    BY <1>1, <1>3, <2>2, <2>3, <2>5, <2>6 DEF QueueLeft, Remains, CapturesLeft, StillToUse, new, old
<1> QED
  BY <1>2, <1>3

(* The entry that is taken: what it says of the entries after it is true of the *)
(* turn, which has a handshake in hand only when the entry expects one.         *)
LEMMA QueueTake ==
  ASSUME TypeOK, QueueLeft, ProcessSequential
  PROVE  QueueLeft' /\ Remains
<1> DEFINE packet == Head(recv_ch)
           entry == Head(behaviours)
<1>1. /\ behaviours # <<>> /\ behaviours' = Tail(behaviours) /\ turn = None
      /\ Begin(packet, entry.actions)
      /\ Fits(packet, entry.expect)
  BY DEF ProcessSequential, Idle
<1>2. behaviours \in Seq([expect : Expects, actions : Seq(Actions)])
  BY DEF TypeOK, HandlerTypeOK
<1>3. /\ 1 \in DOMAIN behaviours /\ entry = behaviours[1]
      /\ \A i \in DOMAIN behaviours' :
           i \in Nat /\ i + 1 \in DOMAIN behaviours /\ behaviours'[i] = behaviours[i + 1]
  BY <1>1, <1>2, TailElements
<1>4. DOMAIN behaviours' \subseteq Nat \ {0}
  <2>1. behaviours' \in Seq([expect : Expects, actions : Seq(Actions)])
    BY <1>1, <1>2, HeadTailProperties
  <2>2. DOMAIN behaviours' = 1..Len(behaviours') /\ Len(behaviours') \in Nat
    BY <2>1, LenProperties
  <2> QED
    BY <2>2
<1>5. packet.kind # "Handshake" => entry.expect.kind # "Handshake"
  BY <1>1 DEF Fits, HandshakeFits, MessageFits
<1>6. turn' # None => turn'.packet = packet /\ turn'.actions = entry.actions
  BY <1>1 DEF Begin
<1> HIDE DEF packet, entry
<1>7. /\ \A i \in DOMAIN behaviours : AnswersOnce(behaviours[i].actions)
      /\ \A i, j \in DOMAIN behaviours :
           /\ i # j => Indices(behaviours[i].actions) \cap Indices(behaviours[j].actions) = {}
           /\ i < j => CapturesLast(behaviours[i].expect.kind, behaviours[i].actions,
                                    behaviours[j].actions)
  BY DEF QueueLeft, QueueAnswersOnce
<1>8. QueueAnswersOnce(behaviours')
  <2>1. \A i \in DOMAIN behaviours' : AnswersOnce(behaviours'[i].actions)
    BY <1>3, <1>7
  <2>2. \A i, j \in DOMAIN behaviours' : (i # j => i + 1 # j + 1) /\ (i < j => i + 1 < j + 1)
    BY <1>4
  <2> QED
    BY <1>3, <1>7, <2>1, <2>2 DEF QueueAnswersOnce
<1>9. \A i \in DOMAIN behaviours' : 1 < i + 1 /\ 1 # i + 1
  BY <1>4
<1>10. \A i \in DOMAIN behaviours' :
         /\ Indices(entry.actions) \cap Indices(behaviours'[i].actions) = {}
         /\ CapturesLast(packet.kind, entry.actions, behaviours'[i].actions)
  <2>1. \A i \in DOMAIN behaviours' :
          /\ Indices(entry.actions) \cap Indices(behaviours'[i].actions) = {}
          /\ CapturesLast(entry.expect.kind, entry.actions, behaviours'[i].actions)
    BY <1>3, <1>7, <1>9
  <2> QED
    BY <1>5, <2>1 DEF CapturesLast
<1>11. AnswersOnce(entry.actions)
  BY <1>3, <1>7
<1>12. QueueLeft'
  BY <1>6, <1>8, <1>10, <1>11 DEF QueueLeft
<1> QED
  BY <1>1, <1>3, <1>6, <1>12 DEF Remains, CapturesLeft, StillToUse

LEMMA QueueStep ==
  ASSUME TypeOK, QueueLeft, Mode = "Sequential", [Next]_vars
  PROVE  QueueLeft' /\ Remains
<1>1. CASE DoAction /\ ~PanicInTurn
  BY <1>1, QueueGoesOn
<1>2. CASE ProcessSequential
  BY <1>2, QueueTake
<1>3. CASE RejectSequential \/ PanicInTurn
  BY <1>3, QueueSame DEF RejectSequential, PanicInTurn, Panic
<1>4. CASE ~DoAction /\ ~ProcessSequential /\ ~RejectSequential
  <2>1. UNCHANGED <<behaviours, turn>>
    BY <1>4 DEF Next, vars, handlerVars, Handler, HandlerStep, ProcessHandlerRequest,
        ProcessDeclarative, RecvHandler, SendHandler, SendHandlerPanics,
        SendRandomPacket, PeerStep, PeerSendsRequest, PeerRetries, PeerGivesUp,
        PeerReceivesWhoAreYou, PeerRefusesWhoAreYou, PeerReceivesResponse,
        PeerReceivesUnreadable
  <2> QED
    BY <2>1, QueueSame
<1> QED
  BY <1>1, <1>2, <1>3, <1>4
--------------------------------------------------------------------------------
(* A settled request stays settled.                                             *)
LEMMA ChallengeType ==
  ASSUME TypeOK, ScriptAnswersOnce, NEW q \in Underway, q.key # None
  PROVE  q.key \in Keys /\ ChallengeOf(q) \in Nat
<1>1. q.key \in Keys
  BY UnderwayType DEF InboundPackets
<1> QED
  BY <1>1 DEF ChallengeOf, Keys, Secrets

(* What a step brings under way has another id than a settled request.          *)
LEMMA SettledApart ==
  ASSUME TypeOK, ScriptAnswersOnce, SealInv, FlowInv, RequestInv, [Next]_vars,
         NEW id \in Ids, Settled(id)
  PROVE  /\ \A h \in Handshakes' : h.id = id => h \in Handshakes
         /\ \A m \in Messages' : m.id = id => m \in Messages
         /\ \A m \in Pending' : m.id = id => m \in Pending
         /\ id.n < next_id'[Node]
<1>1. CASE Quiet
  BY <1>1 DEF Quiet, Settled
<1>2. CASE \E body \in PeerBodies : PeerSendsRequest(Node, body)
  <2>1. PICK m : NewRequest(m)
    BY <1>2, SendsNew
  <2>2. id.n < next_id[Node] /\ next_id[Node] \in Nat /\ id.n \in Nat
    BY OneNode DEF Settled, TypeOK, Ids
  <2>3. m.id.n = next_id[Node] /\ next_id'[Node] = next_id[Node] + 1
        /\ Underway' \subseteq Underway \cup {m} /\ Pending' \subseteq Pending \cup {m}
        /\ m \in InboundPackets
    BY <2>1 DEF NewRequest
  <2>4. m.id # id
    BY <2>2, <2>3
  <2>5. id.n < next_id'[Node]
    BY <2>2, <2>3
  <2> QED
    BY <2>3, <2>4, <2>5 DEF Messages, Handshakes
<1>3. CASE PeerReceivesWhoAreYou(Node)
  <2>1. PICK r, h : NewHandshake(r, h)
    BY <1>3, AnswersNew
  <2>2. r.packet.id # id
    BY <2>1 DEF NewHandshake, Settled, Pending
  <2> QED
    BY <2>1, <2>2 DEF NewHandshake, Messages, Handshakes, Pending, Settled
<1> QED
  BY <1>1, <1>2, <1>3, StepKinds

LEMMA SettledKeeps ==
  ASSUME TypeOK, ScriptAnswersOnce, SealInv, FlowInv, RequestInv, HeldInv, [Next]_vars,
         NEW id \in Ids, Settled(id)
  PROVE  Settled(id)'
<1>1. /\ sessions[Node] # None /\ sessions'[Node] # None /\ Agreed \in Nat
      /\ Agreed' \in Nat /\ Agreed <= Agreed'
  BY HeldStep, HeldType DEF Settled, SessionKept
<1>2. \A h \in Handshakes : h.key # None /\ ChallengeOf(h) \in Nat
  BY ChallengeType DEF RequestInv, Handshakes
<1>3. \A m \in Messages : m.key # None => ChallengeOf(m) \in Nat
  BY ChallengeType DEF Messages
<1>4. \A h \in Handshakes' : h.id = id => ChallengeOf(h) <= Agreed'
  <2> SUFFICES ASSUME NEW h \in Handshakes', h.id = id PROVE ChallengeOf(h) <= Agreed'
    OBVIOUS
  <2>1. h \in Handshakes /\ ChallengeOf(h) <= Agreed
    BY SettledApart DEF Settled
  <2> QED
    BY <1>1, <1>2, <2>1
<1>5. \A m \in Messages' : m.id = id => m.key = None \/ ChallengeOf(m) < Agreed'
  <2> SUFFICES ASSUME NEW m \in Messages', m.id = id, m.key # None
               PROVE  ChallengeOf(m) < Agreed'
    OBVIOUS
  <2>1. m \in Messages /\ ChallengeOf(m) < Agreed
    BY SettledApart DEF Settled
  <2> QED
    BY <1>1, <1>3, <2>1
<1>6. \A m \in Pending' : m.kind = "Message" => m.id # id
  BY SettledApart DEF Settled
<1>7. id.n < next_id'[Node]
  BY SettledApart
<1> QED
  BY <1>1, <1>4, <1>5, <1>6, <1>7 DEF Settled, ChallengeOf

(* The packet in hand reads as a request of the session: it is sealed under the *)
(* challenge that the session came from.                                        *)
LEMMA InHandUnderway ==
  ASSUME TypeOK, ScriptAnswersOnce, turn # None
  PROVE  /\ turn.packet \in Underway /\ turn.packet \in InboundPackets
         /\ turn.packet.src = Node /\ turn.packet.id \in Ids
<1>1. turn.packet \in Underway
  BY DEF Underway, InHand
<1> QED
  BY <1>1, UnderwayType

LEMMA OpensAgreed ==
  ASSUME TypeOK, ScriptAnswersOnce, turn # None, ReadsRequest(turn.packet)
  PROVE  /\ sessions[Node] # None /\ Agreed \in Nat
         /\ turn.packet.key # None /\ ChallengeOf(turn.packet) = Agreed
         /\ turn.packet.kind # "WhoAreYou"
<1>1. /\ sessions[Node] # None /\ turn.packet.key = sessions[Node].decryption_key
      /\ turn.packet.kind # "WhoAreYou"
  BY InHandUnderway DEF ReadsRequest, Opens
<1>2. Agreed \in Nat /\ sessions[Node].decryption_key \in Keys
  BY <1>1, HeldType
<1> QED
  BY <1>1, <1>2, NoneAssumption DEF ChallengeOf, Agreed

LEMMA CaptureSettles ==
  ASSUME TypeOK, ScriptAnswersOnce, RequestInv, QueueLeft, CaptureInv, CaptureRequest
  PROVE  /\ turn.packet.id \notin Elements(captured_requests)
         /\ CapturesLeft' => Settled(turn.packet.id)
<1> DEFINE q == turn.packet
<1>1. turn # None /\ ReadsRequest(q) /\ Head(turn.actions).op = "CaptureRequest"
  BY DEF CaptureRequest, Acts
<1>2. /\ q \in Underway /\ q \in InboundPackets /\ q.id \in Ids
      /\ sessions[Node] # None /\ Agreed \in Nat
      /\ q.key # None /\ ChallengeOf(q) = Agreed /\ q.kind # "WhoAreYou"
  BY <1>1, InHandUnderway, OpensAgreed
<1>3. q.kind = "Message" \/ q.kind = "Handshake"
  BY <1>2 DEF InboundPackets
<1>4. /\ turn.actions \in Seq(Actions) /\ turn.actions # <<>>
      /\ 1 \in DOMAIN turn.actions /\ turn.actions[1].op = "CaptureRequest"
  BY <1>1, TurnFields, TailElements DEF TypeOK
<1>5. Captures(turn.actions)
  BY <1>4 DEF Captures
<1>6. CapturesLeft
  BY <1>1, <1>5 DEF CapturesLeft
<1>7. q.id \notin Elements(captured_requests)
  <2>1. CASE q.kind = "Handshake"
    BY <1>1, <1>5, <2>1 DEF CaptureInv
  <2>2. CASE q.kind = "Message"
    <3>1. q \in Messages
      BY <1>2, <2>2 DEF Messages
    <3>2. ~(ChallengeOf(q) < Agreed)
      BY <1>2
    <3>3. ~Settled(q.id)
      BY <1>2, <3>1, <3>2 DEF Settled
    <3> QED
      BY <1>6, <3>3 DEF CaptureInv
  <2> QED
    BY <1>3, <2>1, <2>2
<1>8. ASSUME CapturesLeft' PROVE Settled(q.id)
  <2>1. \E i \in DOMAIN behaviours : Captures(behaviours[i].actions)
    <3>1. /\ UNCHANGED behaviours
          /\ turn' # None => LeftOf(turn'.actions, turn.actions, 1)
      <4>1. DoAction /\ ~PanicInTurn /\ ~SendCustomResponse
        <5>1. ~PanicInTurn
          BY <1>1 DEF PanicInTurn, ActionPanics, CaptureRequest, Panic, ReadsRequest
        <5> QED
          BY <1>1, <5>1 DEF DoAction, SendCustomResponse, Acts
      <4> QED
        BY <4>1, TurnLeft
    <3>2. turn' # None => ~Captures(turn'.actions)
      BY <1>1, <1>4, <3>1, LeftFacts DEF QueueLeft
    <3> QED
      BY <1>8, <3>1, <3>2 DEF CapturesLeft
  <2>2. q.kind = "Handshake"
    BY <1>1, <1>3, <1>5, <2>1 DEF QueueLeft, CapturesLast
  <2>3. q \in Handshakes
    BY <1>2, <2>2 DEF Handshakes
  <2>4. \A h \in Handshakes : h.id = q.id => ChallengeOf(h) = Agreed
    BY <1>2, <2>3 DEF RequestInv, ChallengeOf
  <2>5. \A m \in Messages : m.id = q.id => m.key = None \/ ChallengeOf(m) < Agreed
    BY <1>2, <2>3 DEF RequestInv
  <2>6. \A m \in Pending : m.kind = "Message" => m.id # q.id
    BY <2>3 DEF RequestInv
  <2>7. q.id.n < next_id[Node]
    BY <2>3 DEF RequestInv
  <2>8. \A h \in Handshakes : h.id = q.id => ChallengeOf(h) <= Agreed
    BY <1>2, <2>4
  <2> QED
    BY <1>2, <2>5, <2>6, <2>7, <2>8 DEF Settled
<1> QED
  BY <1>7, <1>8

(* A handshake is taken only when it answers the challenge that is held, which  *)
(* is later than that of any settled request.                                   *)
LEMMA TakesUnsettled ==
  ASSUME TypeOK, ScriptAnswersOnce, RequestInv, HeldInv, CaptureInv, ProcessSequential,
         turn' # None, turn'.packet.kind = "Handshake", Captures(turn'.actions)
  PROVE  turn'.packet.id \notin Elements(captured_requests)
<1> DEFINE q == Head(recv_ch)
           entry == Head(behaviours)
           c == active_challenges[Node]
<1>1. /\ recv_ch # <<>> /\ behaviours # <<>>
      /\ Begin(q, entry.actions) /\ Fits(q, entry.expect)
  BY DEF ProcessSequential
<1>2. turn'.packet = q /\ turn'.actions = entry.actions
  BY <1>1 DEF Begin
<1>3. /\ recv_ch \in Seq(InboundPackets)
      /\ behaviours \in Seq([expect : Expects, actions : Seq(Actions)])
  BY DEF TypeOK, HandlerTypeOK
<1>4. q \in Elements(recv_ch)
  BY <1>1, <1>3, ElementsFacts
<1>5. q \in Underway /\ q.src = Node /\ q.ephem \in Nat
  <2>1. q \in Underway
    BY <1>4 DEF Underway
  <2> QED
    BY <2>1, UnderwayType, InboundFields
<1>6. CapturesLeft
  <2>1. 1 \in DOMAIN behaviours /\ entry = behaviours[1]
    BY <1>1, <1>3, TailElements
  <2> QED
    BY <1>2, <2>1 DEF CapturesLeft
<1> HIDE DEF q, entry
<1>7. HandshakeFits(q, entry.expect)
  BY <1>1, <1>2 DEF Fits, MessageFits
<1>8. c # None /\ c \in Nat /\ q.key = Candidate(q).decryption_key
  BY <1>5, <1>7, HeldType DEF HandshakeFits, Opens
<1>9. Candidate(q).decryption_key.secret.challenge = active_challenges[q.src]
  BY DEF Candidate, EstablishFromChallenge, InitiatorKey
<1>10. ChallengeOf(q) = c
  BY <1>5, <1>8, <1>9 DEF ChallengeOf
<1>11. q \in Handshakes
  BY <1>2, <1>5 DEF Handshakes
<1>12. sessions[Node] # None => Agreed < c /\ Agreed \in Nat
  BY <1>8, HeldType DEF HeldInv
<1> HIDE DEF c
<1>13. ~Settled(q.id)
  <2> SUFFICES ASSUME Settled(q.id) PROVE FALSE
    OBVIOUS
  <2>1. sessions[Node] # None /\ ChallengeOf(q) <= Agreed
    BY <1>11 DEF Settled
  <2> QED
    BY <1>8, <1>10, <1>12, <2>1
<1> QED
  BY <1>2, <1>6, <1>13 DEF CaptureInv

LEMMA CaptureStep ==
  ASSUME TypeOK, ScriptAnswersOnce, Mode = "Sequential", SealInv, FlowInv, RequestInv,
         HeldInv, QueueLeft, CaptureInv, [Next]_vars
  PROVE  CaptureInv'
<1>1. captured_requests \in Seq(Ids) /\ Elements(captured_requests) \subseteq Ids
  BY ElementsFacts DEF TypeOK, HandlerTypeOK
<1>2. CapturesLeft' => CapturesLeft
  BY QueueStep DEF Remains
<1>3. CapturesLeft' => \A id \in Elements(captured_requests) : Settled(id)'
  BY <1>1, <1>2, SettledKeeps DEF CaptureInv
<1>4. ASSUME turn' # None, turn'.packet.kind = "Handshake", Captures(turn'.actions)
      PROVE  /\ turn'.packet.id \notin Elements(captured_requests)
             /\ ~CaptureRequest
  <2>1. CASE ProcessSequential
    BY <1>4, <2>1, TakesUnsettled DEF ProcessSequential, CaptureRequest, Idle, Acts
  <2>2. CASE ~ProcessSequential /\ ~DoAction
    <3>1. turn' = turn
      BY <1>4, <2>2 DEF Next, vars, handlerVars, Handler, HandlerStep, ProcessHandlerRequest,
        ProcessDeclarative, RejectSequential, Panic, RecvHandler, SendHandler, SendHandlerPanics,
        SendRandomPacket, PeerStep, PeerSendsRequest, PeerRetries, PeerGivesUp,
        PeerReceivesWhoAreYou, PeerRefusesWhoAreYou, PeerReceivesResponse,
        PeerReceivesUnreadable
    <3> QED
      BY <1>4, <2>2, <3>1 DEF CaptureInv, DoAction
  <2>3. CASE DoAction
    <3>1. ~PanicInTurn
      BY <1>4 DEF PanicInTurn, Panic
    <3>2. PICK d \in {0, 1} : /\ LeftOf(turn'.actions, turn.actions, d)
                              /\ d = 0 => SendCustomResponse
      BY <1>4, <2>3, <3>1, TurnLeft
    <3>3. turn # None /\ turn'.packet = turn.packet /\ AnswersOnce(turn.actions)
      BY <1>4, <2>3, <3>1, TurnLeft DEF QueueLeft
    <3>4. Captures(turn.actions)
      BY <1>4, <3>2, <3>3, LeftFacts
    <3>5. ~CaptureRequest
      <4> SUFFICES ASSUME CaptureRequest PROVE FALSE
        OBVIOUS
      <4>1. Head(turn.actions).op = "CaptureRequest" /\ turn.actions \in Seq(Actions)
            /\ turn.actions # <<>>
        BY <3>3, TurnFields DEF CaptureRequest, Acts, TypeOK
      <4>2. 1 \in DOMAIN turn.actions /\ turn.actions[1].op = "CaptureRequest"
        BY <4>1, TailElements
      <4>3. d = 1
        BY <3>2, <4>1 DEF SendCustomResponse, Acts
      <4> QED
        BY <1>4, <3>2, <3>3, <4>2, <4>3, LeftFacts
    <3> QED
      BY <1>4, <3>3, <3>4, <3>5 DEF CaptureInv
  <2> QED
    BY <2>1, <2>2, <2>3
<1>5. CASE CaptureRequest
  <2>0. PICK id \in Ids : id = turn.packet.id
    BY <1>5, TurnFields DEF CaptureRequest, Acts, TypeOK
  <2> DEFINE new == captured_requests'
             n == Len(captured_requests)
  <2>1. /\ id \in Ids /\ new = Append(captured_requests, id)
        /\ id \notin Elements(captured_requests)
        /\ CapturesLeft' => Settled(id)
    BY <1>5, <2>0, CaptureSettles DEF CaptureRequest
  <2>2. CapturesLeft' => Settled(id)'
    BY <2>1, SettledKeeps
  <2>3. Elements(new) = Elements(captured_requests) \cup {id}
    BY <1>1, <2>1, ElementsFacts
  <2>4. /\ n \in Nat /\ DOMAIN new = 1..(n + 1) /\ DOMAIN captured_requests = 1..n
        /\ new[n + 1] = id /\ \A i \in 1..n : new[i] = captured_requests[i]
    <3>1. new \in Seq(Ids) /\ Len(new) = n + 1
      BY <1>1, <2>1, AppendProperties
    <3> QED
      BY <1>1, <2>1, <3>1, AppendProperties, LenProperties
  <2>5. /\ \A i \in 1..n : captured_requests[i] # id
        /\ \A i, j \in 1..n : i # j => captured_requests[i] # captured_requests[j]
    BY <2>1, <2>4 DEF Elements, CaptureInv
  <2> HIDE DEF new, n
  <2>6. \A i \in 1..(n + 1) : i \in 1..n \/ i = n + 1
    BY <2>4
  <2>7. \A i, j \in 1..(n + 1) : i # j => new[i] # new[j]
    BY <2>4, <2>5, <2>6
  <2>8. \A i, j \in DOMAIN new : i # j => new[i] # new[j]
    BY <2>4, <2>7
  <2>9. CapturesLeft' => \A x \in Elements(new) : Settled(x)'
    BY <1>3, <2>2, <2>3
  <2>10. Elements(captured_requests)' = Elements(new)
    BY DEF Elements, new
  <2> QED
    BY <1>4, <1>5, <2>8, <2>9, <2>10 DEF CaptureInv, new
<1>6. CASE ~CaptureRequest
  <2>1. UNCHANGED captured_requests
    BY <1>6 DEF Next, vars, handlerVars, Handler, HandlerStep, DoAction, ProcessHandlerRequest,
      ProcessDeclarative, ProcessSequential, RejectSequential, Ignore, SendChallenge,
      EstablishSession, SendDefaultResponse, SendCustomResponse, SendResponse,
      PanicInTurn, Panic, RecvHandler, SendHandler,
      SendHandlerPanics, SendRandomPacket, PeerStep, PeerSendsRequest, PeerRetries,
      PeerGivesUp, PeerReceivesWhoAreYou, PeerRefusesWhoAreYou, PeerReceivesResponse,
      PeerReceivesUnreadable
  <2>2. Elements(captured_requests)' = Elements(captured_requests)
    BY <2>1 DEF Elements
  <2> QED
    BY <1>3, <1>4, <2>1, <2>2 DEF CaptureInv
<1> QED
  BY <1>5, <1>6
--------------------------------------------------------------------------------
(* The responses.  What has been captured keeps its place.                      *)
LEMMA CapturedStays ==
  ASSUME TypeOK, [Next]_vars
  PROVE  \A c \in DOMAIN captured_requests :
           c \in DOMAIN captured_requests' /\ captured_requests'[c] = captured_requests[c]
<1>1. CASE CaptureRequest
  <2>1. captured_requests \in Seq(Ids) /\ turn.packet.id \in Ids
        /\ captured_requests' = Append(captured_requests, turn.packet.id)
    BY <1>1, TurnFields DEF CaptureRequest, Acts, TypeOK, HandlerTypeOK
  <2> DEFINE n == Len(captured_requests)
             new == captured_requests'
  <2>2. /\ n \in Nat /\ DOMAIN captured_requests = 1..n /\ DOMAIN new = 1..(n + 1)
        /\ \A c \in 1..n : new[c] = captured_requests[c]
    <3>1. new \in Seq(Ids) /\ Len(new) = n + 1
      BY <2>1, AppendProperties
    <3> QED
      BY <2>1, <3>1, AppendProperties, LenProperties
  <2> HIDE DEF n, new
  <2>3. \A c \in 1..n : c \in 1..(n + 1)
    BY <2>2
  <2> QED
    BY <2>2, <2>3 DEF new
<1>2. CASE ~CaptureRequest
  BY <1>2 DEF Next, vars, handlerVars, Handler, HandlerStep, DoAction, ProcessHandlerRequest,
      ProcessDeclarative, ProcessSequential, RejectSequential, Ignore, SendChallenge,
      EstablishSession, SendDefaultResponse, SendCustomResponse, SendResponse,
      PanicInTurn, Panic, RecvHandler, SendHandler,
      SendHandlerPanics, SendRandomPacket, PeerStep, PeerSendsRequest, PeerRetries,
      PeerGivesUp, PeerReceivesWhoAreYou, PeerRefusesWhoAreYou, PeerReceivesResponse,
      PeerReceivesUnreadable
<1> QED
  BY <1>1, <1>2

LEMMA ResponsesKept ==
  ASSUME TypeOK, QueueLeft, Mode = "Sequential", ResponseInv, [Next]_vars
  PROVE  /\ \A index \in Nat : StillToUse(index)' => index \in ScriptIndices
         /\ \A i \in DOMAIN sent : sent[i].kind = "Response" =>
              \E c \in DOMAIN captured_requests' :
                /\ sent[i].id = captured_requests'[c]
                /\ c - 1 \in ScriptIndices /\ ~StillToUse(c - 1)'
<1>1. \A index : StillToUse(index)' => StillToUse(index)
  BY QueueStep DEF Remains
<1>2. \A c : ~StillToUse(c - 1) => ~StillToUse(c - 1)'
  BY <1>1
<1> QED
  BY <1>1, <1>2, CapturedStays DEF ResponseInv

(* The index that a custom response looks up is not left for any other.         *)
LEMMA CustomUses ==
  ASSUME TypeOK, QueueLeft, SendCustomResponse
  PROVE  \E index \in Nat : \E packet \in OutboundPackets :
           /\ index + 1 \in DOMAIN captured_requests
           /\ Send(packet) /\ packet.id = captured_requests[index + 1]
           /\ StillToUse(index) /\ ~StillToUse(index)'
           /\ UNCHANGED captured_requests
<1> DEFINE action == Head(turn.actions)
           key == Advanced(sessions[turn.packet.src])
           packet == [kind |-> "Response", dst |-> turn.packet.src,
                      id |-> CapturedId(Head(action.ids)),
                      key |-> key.encryption_key, counter |-> key.counter]
<1>1. /\ turn # None /\ action.op = "RespondCustom" /\ sessions[turn.packet.src] # None
      /\ Head(action.ids) < Len(captured_requests)
      /\ Send(packet) /\ UNCHANGED captured_requests
  BY DEF SendCustomResponse, Acts, ReadsRequest, SendResponse
<1>2. /\ turn.actions \in Seq(Actions) /\ turn.actions # <<>> /\ action \in Actions
      /\ turn.packet.src \in Peers
  BY <1>1, TurnFields DEF TypeOK
<1>3. action.ids \in Seq(Nat) /\ action.ids # <<>>
  BY <1>1, <1>2 DEF Actions
<1>4. PICK index \in Nat : index = Head(action.ids)
  BY <1>3, HeadTailProperties
<1>5. /\ 1 \in DOMAIN turn.actions /\ turn.actions[1] = action
      /\ 1 \in DOMAIN action.ids /\ action.ids[1] = index
  BY <1>2, <1>3, <1>4, TailElements
<1> HIDE DEF action
<1>6. captured_requests \in Seq(Ids)
  BY DEF TypeOK, HandlerTypeOK
<1>7. index + 1 \in 1..Len(captured_requests) /\ DOMAIN captured_requests = 1..Len(captured_requests)
  <2>1. index < Len(captured_requests) /\ Len(captured_requests) \in Nat
    BY <1>1, <1>4, <1>6, LenProperties
  <2> QED
    BY <1>6, <2>1, LenProperties
<1>8. captured_requests[index + 1] \in Ids
  BY <1>6, <1>7, ElementOfSeq
<1>9. packet.id = captured_requests[index + 1]
  BY <1>4 DEF CapturedId
<1>10. packet \in OutboundPackets
  <2>1. sessions[turn.packet.src] \in Session
    BY <1>1, <1>2, SessionFields DEF TypeOK
  <2>2. key.encryption_key \in Keys /\ key.counter \in Nat
    BY <2>1, SessionTypes
  <2>3. CapturedId(Head(action.ids)) \in Ids
    BY <1>8, <1>9
  <2> HIDE DEF key
  <2> QED
    BY <1>2, <2>2, <2>3, OutboundFields
<1>11. index \in Indices(turn.actions)
  BY <1>5 DEF Indices
<1>12. ~StillToUse(index)'
  <2>1. /\ UNCHANGED behaviours
        /\ turn' # None => \E d \in {0, 1} : LeftOf(turn'.actions, turn.actions, d)
    <3>1. ~PanicInTurn
      <4> SUFFICES ASSUME PanicInTurn PROVE FALSE
        OBVIOUS
      <4>1. UNCHANGED sent /\ sent' = Append(sent, packet)
        BY <1>1 DEF PanicInTurn, Panic, Send
      <4>2. sent \in Seq(OutboundPackets)
        BY DEF TypeOK, HandlerTypeOK
      <4>3. Len(sent') = Len(sent) + 1 /\ Len(sent) \in Nat
        BY <1>10, <4>1, <4>2, AppendProperties, LenProperties
      <4> QED
        BY <4>1, <4>3
    <3> QED
      BY <3>1, TurnLeft DEF DoAction
  <2>2. turn' # None => index \notin Indices(turn'.actions)
    BY <1>1, <1>5, <2>1, LeftFacts DEF QueueLeft
  <2>3. \A i \in DOMAIN behaviours' : index \notin Indices(behaviours'[i].actions)
    BY <1>1, <1>11, <2>1 DEF QueueLeft
  <2> QED
    BY <2>2, <2>3 DEF StillToUse
<1>13. StillToUse(index)
  BY <1>1, <1>11 DEF StillToUse
<1> HIDE DEF packet
<1> QED
  BY <1>1, <1>7, <1>9, <1>10, <1>12, <1>13

LEMMA ResponseUnchanged ==
  ASSUME TypeOK, QueueLeft, Mode = "Sequential", ResponseInv, [Next]_vars,
         \/ UNCHANGED sent
         \/ \E packet \in OutboundPackets : Send(packet) /\ packet.kind # "Response"
  PROVE  ResponseInv'
<1>1. \A i \in DOMAIN sent' : sent'[i].kind = "Response" =>
        i \in DOMAIN sent /\ sent'[i] = sent[i]
  BY SentGrows DEF TypeOK
<1>2. \A i \in DOMAIN sent' : sent'[i].kind = "Response" =>
        \E c \in DOMAIN captured_requests' :
          /\ sent'[i].id = captured_requests'[c]
          /\ c - 1 \in ScriptIndices /\ ~StillToUse(c - 1)'
  BY <1>1, ResponsesKept
<1>3. \A i, j \in DOMAIN sent' :
        i # j /\ sent'[i].kind = "Response" /\ sent'[j].kind = "Response"
          => sent'[i].id # sent'[j].id
  BY <1>1 DEF ResponseInv
<1> QED
  BY <1>2, <1>3, ResponsesKept DEF ResponseInv

LEMMA ResponseCustom ==
  ASSUME TypeOK, QueueLeft, Mode = "Sequential", CaptureInv, ResponseInv, [Next]_vars,
         SendCustomResponse
  PROVE  ResponseInv'
<1>1. PICK index \in Nat :
        \E packet \in OutboundPackets :
          /\ index + 1 \in DOMAIN captured_requests
          /\ Send(packet) /\ packet.id = captured_requests[index + 1]
          /\ StillToUse(index) /\ ~StillToUse(index)'
          /\ UNCHANGED captured_requests
  BY CustomUses
<1>2. PICK packet \in OutboundPackets :
        /\ index + 1 \in DOMAIN captured_requests
        /\ Send(packet) /\ packet.id = captured_requests[index + 1]
        /\ StillToUse(index) /\ ~StillToUse(index)'
        /\ UNCHANGED captured_requests
  BY <1>1
<1>3. \A i \in DOMAIN sent' : (i \in DOMAIN sent /\ sent'[i] = sent[i])
                              \/ (i = Len(sent) + 1 /\ sent'[i] = packet)
  BY <1>2, SentGrows DEF TypeOK
<1>4. (index + 1) - 1 = index
  BY <1>1
<1>5. \A i \in DOMAIN sent' : sent'[i].kind = "Response" =>
        \E c \in DOMAIN captured_requests' :
          /\ sent'[i].id = captured_requests'[c]
          /\ c - 1 \in ScriptIndices /\ ~StillToUse(c - 1)'
  <2> SUFFICES ASSUME NEW i \in DOMAIN sent', sent'[i].kind = "Response"
               PROVE  \E c \in DOMAIN captured_requests' :
                        /\ sent'[i].id = captured_requests'[c]
                        /\ c - 1 \in ScriptIndices /\ ~StillToUse(c - 1)'
    OBVIOUS
  <2>1. CASE i \in DOMAIN sent /\ sent'[i] = sent[i]
    BY <2>1, ResponsesKept
  <2>2. CASE sent'[i] = packet
    <3>1. (index + 1) - 1 \in ScriptIndices /\ ~StillToUse((index + 1) - 1)'
      BY <1>2, <1>4 DEF ResponseInv
    <3> QED
      BY <1>2, <2>2, <3>1
  <2> QED
    BY <1>3, <2>1, <2>2
<1>6. \A i \in DOMAIN sent : sent[i].kind = "Response" => sent[i].id # packet.id
  <2> SUFFICES ASSUME NEW i \in DOMAIN sent, sent[i].kind = "Response"
               PROVE  sent[i].id # packet.id
    OBVIOUS
  <2>1. PICK c \in DOMAIN captured_requests :
          sent[i].id = captured_requests[c] /\ ~StillToUse(c - 1)
    BY DEF ResponseInv
  <2>2. c # index + 1
    BY <1>2, <1>4, <2>1
  <2> QED
    BY <1>2, <2>1, <2>2 DEF CaptureInv
<1>7. \A i, j \in DOMAIN sent' :
        i # j /\ sent'[i].kind = "Response" /\ sent'[j].kind = "Response"
          => sent'[i].id # sent'[j].id
  BY <1>3, <1>6 DEF ResponseInv
<1> QED
  BY <1>5, <1>7, ResponsesKept DEF ResponseInv

LEMMA ResponseStep ==
  ASSUME TypeOK, QueueLeft, Mode = "Sequential", CaptureInv, ResponseInv, [Next]_vars
  PROVE  ResponseInv'
<1>1. CASE SendCustomResponse
  BY <1>1, ResponseCustom
<1>2. CASE SendDefaultResponse
  <2>1. turn # None /\ Head(turn.actions).op = "RespondDefault"
    BY <1>2 DEF SendDefaultResponse, Acts
  <2>2. turn.actions \in Seq(Actions) /\ turn.actions # <<>>
    BY <2>1, TurnFields DEF TypeOK
  <2>3. 1 \in DOMAIN turn.actions /\ turn.actions[1].op = "RespondDefault"
    BY <2>1, <2>2, TailElements
  <2> QED
    BY <2>1, <2>3 DEF QueueLeft, AnswersOnce
<1>3. CASE SendChallenge
  <2> DEFINE packet == [kind |-> "WhoAreYou", dst |-> turn.packet.src, id |-> turn.packet.id,
                        challenge |-> next_challenge, enr_seq |-> 0]
  <2>1. turn # None /\ Send(packet) /\ next_challenge \in Nat
    BY <1>3 DEF SendChallenge, Acts, TypeOK, HandlerTypeOK
  <2>2. turn.packet.src \in Peers /\ turn.packet.id \in Ids
    BY <2>1, TurnFields DEF TypeOK
  <2>3. packet \in OutboundPackets /\ packet.kind # "Response"
    BY <2>1, <2>2, OutboundFields
  <2> HIDE DEF packet
  <2> QED
    BY <2>1, <2>3, ResponseUnchanged
<1>4. CASE ProcessHandlerRequest /\ ~UNCHANGED sent
  <2> DEFINE packet == [kind |-> "Random", dst |-> Head(from_mock)]
  <2>1. Send(packet)
    BY <1>4 DEF ProcessHandlerRequest
  <2>2. packet \in OutboundPackets /\ packet.kind # "Response"
    BY <1>4, HeadTailProperties, OutboundFields DEF ProcessHandlerRequest, TypeOK, HandlerTypeOK
  <2> HIDE DEF packet
  <2> QED
    BY <2>1, <2>2, ResponseUnchanged
<1>5. \/ UNCHANGED sent \/ ProcessHandlerRequest \/ SendChallenge
      \/ SendDefaultResponse \/ SendCustomResponse
  BY DEF Next, vars, handlerVars, Handler, HandlerStep, DoAction,
      ProcessDeclarative, ProcessSequential, RejectSequential, Ignore,
      EstablishSession, CaptureRequest, PanicInTurn, Panic, RecvHandler, SendHandler,
      SendHandlerPanics, SendRandomPacket, PeerStep, PeerSendsRequest, PeerRetries,
      PeerGivesUp, PeerReceivesWhoAreYou, PeerRefusesWhoAreYou, PeerReceivesResponse,
      PeerReceivesUnreadable
<1> QED
  BY <1>1, <1>2, <1>3, <1>4, <1>5, ResponseUnchanged
--------------------------------------------------------------------------------
(* The mock begins with nothing under way and the whole script to do.           *)
LEMMA AnswerStart ==
  ASSUME ScriptAnswersOnce, Mode = "Sequential", Init
  PROVE  SealInv /\ AnswerInv
<1>1. Node \in Peers
  BY OneNode
<1>2. /\ udp_in = <<>> /\ recv_ch = <<>> /\ turn = None /\ active[Node] = {}
      /\ captured_requests = <<>> /\ sent = <<>> /\ behaviours = Script
      /\ wire[Node] = <<>> /\ send_ch = <<>> /\ derived[Node] = <<>>
      /\ sessions[Node] = None /\ active_challenges[Node] = None
  BY <1>1 DEF Init, HandlerInit
<1>3. Underway = {} /\ Pending = {}
  BY <1>2 DEF Underway, Pending, InHand, Elements
<1>4. RequestInv
  BY <1>2, <1>3 DEF RequestInv, Messages, Handshakes
<1>5. FlowInv
  <2>1. Flow = <<>>
    <3>1. <<>> \in Seq(OutboundPackets)
      BY EmptySeq
    <3> QED
      BY <1>2, <3>1, ConcatEmptySeq DEF Flow
  <2>2. DOMAIN Flow = {} /\ DerivedBy(derived, Node) = {}
    BY <1>2, <2>1 DEF DerivedBy
  <2> QED
    BY <2>2 DEF FlowInv
<1>6. HeldInv
  BY <1>2 DEF HeldInv
<1>7. QueueLeft
  BY <1>2 DEF QueueLeft, ScriptAnswersOnce
<1>8. CaptureInv
  BY <1>2 DEF CaptureInv, Elements
<1>9. ResponseInv
  BY <1>2 DEF ResponseInv, StillToUse, ScriptIndices
<1>10. SealInv
  <2>1. \A p \in Peers : active[p] = {} /\ peer_session[p] = None
    BY DEF Init
  <2>2. DOMAIN udp_in = {} /\ DOMAIN recv_ch = {}
    BY <1>2
  <2> QED
    BY <1>2, <2>1, <2>2 DEF SealInv
<1> QED
  BY <1>4, <1>5, <1>6, <1>7, <1>8, <1>9, <1>10 DEF AnswerInv

LEMMA AnswerStep ==
  ASSUME TypeOK, ScriptAnswersOnce, Mode = "Sequential", SealInv, AnswerInv, [Next]_vars
  PROVE  AnswerInv'
  BY RequestStep, FlowStep, HeldStep, QueueStep, CaptureStep, ResponseStep DEF AnswerInv

LEMMA AnswerInvariance ==
  ASSUME ScriptAnswersOnce, Mode = "Sequential"
  PROVE  SafetySpec => [](TypeOK /\ SealInv /\ AnswerInv)
<1>1. Init => TypeOK /\ SealInv /\ AnswerInv
  BY InitType, AnswerStart
<1>2. TypeOK /\ SealInv /\ AnswerInv /\ [Next]_vars => (TypeOK /\ SealInv /\ AnswerInv)'
  BY TypeStep, SealStep, AnswerStep
<1> QED
  BY <1>1, <1>2, PTL DEF SafetySpec

LEMMA AnsweredOnceSafely ==
  ASSUME ScriptAnswersOnce
  PROVE  SafetySpec => []EachRequestAnsweredOnce
<1>1. CASE Mode = "Sequential"
  <2>1. TypeOK /\ AnswerInv => EachRequestAnsweredOnce
    <3> SUFFICES ASSUME TypeOK, AnswerInv, NEW i \in DOMAIN sent, sent[i].kind = "Response"
                 PROVE  sent[i].id.peer = sent[i].dst
      BY DEF EachRequestAnsweredOnce, AnswerInv, ResponseInv
    <3>1. sent[i] \in OutboundPackets
      BY SentIsOutbound DEF TypeOK
    <3>2. sent[i].dst \in Peers /\ sent[i].id.peer \in Peers
      BY <3>1 DEF OutboundPackets, Ids
    <3> QED
      BY <3>2, OneNode
  <2> QED
    BY <1>1, <2>1, AnswerInvariance, PTL
<1>2. CASE Mode # "Sequential"
  <2>1. EachRequestAnsweredOnce
    BY <1>2 DEF EachRequestAnsweredOnce
  <2> QED
    BY <2>1, PTL
<1> QED
  BY <1>1, <1>2

(* A sequential mock that talks to one node answers no request of it twice,     *)
(* however often the node sends a request or a handshake again and whatever is  *)
(* lost or late, when its script uses no index of a captured request twice and  *)
(* captures nothing more once it has captured from an ordinary message.         *)
THEOREM RequestsAnsweredOnce ==
  ASSUME ScriptAnswersOnce
  PROVE  Spec => []EachRequestAnsweredOnce
  BY AnsweredOnceSafely, PTL DEF Spec
--------------------------------------------------------------------------------
(* The two test cases with a mock.  What they do to the mock and to node 1 are  *)
(* steps of MockSystem: what holds of that, holds of the tests.                 *)
LEMMA Node1IsThePeer ==
  ASSUME TestSetting
  PROVE  /\ Node1 \in Peers /\ Peers = {Node1} /\ Node1 \in Instances /\ Node2 \in Instances
         /\ "Ping" \in PeerBodies /\ "FindNode" \in PeerBodies
         /\ Node1 # Node2 /\ Mode = "Sequential"
  BY DEF TestSetting

LEMMA PeerSteps ==
  ASSUME TestSetting, PeerStep(Node1)
  PROVE  Next
  BY Node1IsThePeer DEF Next

LEMMA SurroundingsAreSteps ==
  ASSUME TestSetting, Surroundings
  PROVE  Next /\ UNCHANGED <<runVars, asked>>
<1>1. CASE MockHandles \/ MockReceives \/ MockSends \/ MockSendPanics
  BY <1>1 DEF MockHandles, MockReceives, MockSends, MockSendPanics, MockTask, Next
<1>2. CASE OwnPing
  <2>1. PeerSendsRequest(Node1, "Ping")
    BY <1>2 DEF OwnPing
  <2>2. PeerStep(Node1)
    BY <2>1, Node1IsThePeer DEF PeerStep
  <2> QED
    BY <1>2, <2>2, PeerSteps DEF OwnPing
<1>3. CASE Discv5Receives
  <2>1. PeerStep(Node1)
    BY <1>3 DEF Discv5Receives, PeerStep
  <2> QED
    BY <1>3, <2>1, PeerSteps DEF Discv5Receives
<1>4. CASE Discv5TimesOut
  <2>1. PeerStep(Node1)
    BY <1>4 DEF Discv5TimesOut, PeerStep
  <2> QED
    BY <1>4, <2>1, PeerSteps DEF Discv5TimesOut
<1> QED
  BY <1>1, <1>2, <1>3, <1>4 DEF Surroundings

LEMMA AskingIsAStep ==
  ASSUME TestSetting, NEW body \in {"Ping", "FindNode"}, AskRequest(body)
  PROVE  Next
<1>1. PeerSendsRequest(Node1, body)
  BY DEF AskRequest
<1>2. PeerStep(Node1)
  BY <1>1, Node1IsThePeer DEF PeerStep
<1> QED
  BY <1>2, PeerSteps

LEMMA SandboxSteps ==
  ASSUME TestSetting, [SandboxNext]_testVars
  PROVE  [Next]_vars
<1>1. CASE Surroundings
  BY <1>1, SurroundingsAreSteps
<1>2. CASE AskRequest("Ping")
  BY <1>2, AskingIsAStep
<1>3. \/ Surroundings \/ AskRequest("Ping") \/ UNCHANGED vars
  BY DEF SandboxNext, SandboxTest, TestOnly, SignalStarted, AwaitStarted, JoinRequests,
         SignalFinished, AwaitFinished, RecordOutcome, testVars
<1> QED
  BY <1>1, <1>2, <1>3

LEMMA TimeoutSteps ==
  ASSUME TestSetting, [TimeoutNext]_<<testVars, hasty>>
  PROVE  [Next]_vars
<1>1. CASE Surroundings
  BY <1>1, SurroundingsAreSteps
<1>2. CASE AskRequest("FindNode")
  BY <1>2, AskingIsAStep
<1>3. CASE AskForRandomPacket
  BY <1>3, Node1IsThePeer DEF AskForRandomPacket, Next
<1>4. \/ Surroundings \/ AskRequest("FindNode") \/ AskForRandomPacket \/ UNCHANGED vars
  BY DEF TimeoutNext, TimeoutTest, TestOnly, SignalStarted, AwaitStarted, JoinRequests,
         SignalSentRandom, AwaitSentRandom, Sleep,
         SignalFinished, AwaitFinished, RecordSuccess, testVars
<1> QED
  BY <1>1, <1>2, <1>3, <1>4

(* A run of the sandbox test case is a run of the mock's system.                *)
THEOREM SandboxIsMockSystem ==
  ASSUME TestSetting
  PROVE  SandboxSpec => SafetySpec
<1>1. MockTestInit => Init
  BY DEF MockTestInit
<1>2. [SandboxNext]_testVars => [Next]_vars
  BY SandboxSteps
<1> QED
  BY <1>1, <1>2, PTL DEF SandboxSpec, SafetySpec

(* So is a run of concurrent-requests_whoareyou-timeout.                        *)
THEOREM TimeoutIsMockSystem ==
  ASSUME TestSetting
  PROVE  TimeoutSpec => SafetySpec
<1>1. MockTestInit => Init
  BY DEF MockTestInit
<1>2. [TimeoutNext]_<<testVars, hasty>> => [Next]_vars
  BY TimeoutSteps
<1> QED
  BY <1>1, <1>2, PTL DEF TimeoutSpec, SafetySpec
--------------------------------------------------------------------------------
(* The steps that both tests make.                                              *)
CommonLocations ==
  {"started", "await_started", "join", "finished", "await_finished", "record"}

RunInv(locations) == RunTypeOK(locations) /\ CollectInv

LEMMA TestLocations ==
  /\ CommonLocations \subseteq SandboxLocations /\ CommonLocations \subseteq TimeoutLocations
  /\ \A l \in SandboxLocations \cup TimeoutLocations \cup {"done", "exited"} :
       l \notin BeforeCollecting
  BY DEF CommonLocations, SandboxLocations, TimeoutLocations, BeforeCollecting,
         BeforePublishing

LEMMA CommonStep ==
  ASSUME NEW locations, RunInv(locations), CommonLocations \subseteq locations,
         \A l \in locations \cup {"done", "exited"} : l \notin BeforeCollecting,
         NEW n \in Instances, NEW to \in locations,
         \/ Prelude(n, "started") \/ SignalStarted(n) \/ AwaitStarted(n, to)
         \/ n = Node1 /\ JoinRequests("finished")
         \/ SignalFinished(n) \/ AwaitFinished(n)
  PROVE  RunInv(locations)'
<1> USE DEF RunInv
<1>1. {"started", "await_started", "join", "finished", "await_finished", "record"}
        \subseteq locations
  BY DEF CommonLocations
<1>2. Started \in States /\ Finished \in States
  BY MockTestAssumption
<1>3. CASE Prelude(n, "started")
  BY <1>1, <1>3, PreludeStep
<1>4. CASE SignalStarted(n)
  <2>1. SignalAt(n, "started", Started, "await_started")
    BY <1>4 DEF SignalStarted
  <2> QED
    BY <1>1, <1>2, <2>1, SignalStep
<1>5. CASE AwaitStarted(n, to)
  <2>1. AwaitAt(n, "await_started", Started, to)
    BY <1>5 DEF AwaitStarted
  <2> QED
    BY <1>1, <2>1, AwaitStep
<1>6. CASE n = Node1 /\ JoinRequests("finished")
  <2>1. Move(n, "join", "finished")
    BY <1>6 DEF JoinRequests
  <2> QED
    BY <1>1, <2>1, MoveStep
<1>7. CASE SignalFinished(n)
  <2>1. SignalAt(n, "finished", Finished, "await_finished")
    BY <1>7 DEF SignalFinished
  <2> QED
    BY <1>1, <1>2, <2>1, SignalStep
<1>8. CASE AwaitFinished(n)
  <2>1. AwaitAt(n, "await_finished", Finished, "record")
    BY <1>8 DEF AwaitFinished
  <2> QED
    BY <1>1, <2>1, AwaitStep
<1> QED
  BY <1>3, <1>4, <1>5, <1>6, <1>7, <1>8

LEMMA RunQuiet ==
  ASSUME NEW locations, RunInv(locations), UNCHANGED runVars
  PROVE  RunInv(locations)'
<1>1. Published' = Published
  BY DEF Published, runVars, syncVars
<1> QED
  BY <1>1 DEF RunInv, RunTypeOK, SyncTypeOK, CollectInv, runVars, syncVars

LEMMA SandboxRun ==
  ASSUME TestSetting, RunInv(SandboxLocations), [SandboxNext]_testVars
  PROVE  RunInv(SandboxLocations)'
<1>1. CASE Surroundings \/ AskRequest("Ping") \/ UNCHANGED testVars
  <2>1. UNCHANGED runVars
    BY <1>1, SurroundingsAreSteps DEF AskRequest, testVars
  <2> QED
    BY <2>1, RunQuiet
<1>2. ASSUME NEW n \in Instances, RecordOutcome(n) PROVE RunInv(SandboxLocations)'
  <2> DEFINE outcome == IF n = Node2 \/ Succeeded THEN "success" ELSE "failure"
  <2>1. Record(n, "record", outcome) /\ outcome \in {"success", "failure"}
    BY <1>2 DEF RecordOutcome
  <2> HIDE DEF outcome
  <2>2. "record" \notin BeforeCollecting
    BY TestLocations DEF SandboxLocations
  <2> QED
    BY <2>1, <2>2, RecordStep DEF RunInv
<1>3. ASSUME NEW n \in Instances,
             \/ Prelude(n, "started") \/ SignalStarted(n)
             \/ AwaitStarted(n, IF n = Node1 THEN "join" ELSE "finished")
             \/ n = Node1 /\ JoinRequests("finished")
             \/ SignalFinished(n) \/ AwaitFinished(n)
      PROVE  RunInv(SandboxLocations)'
  <2> DEFINE to == IF n = Node1 THEN "join" ELSE "finished"
  <2>1. to \in SandboxLocations
    BY DEF SandboxLocations
  <2>2. \/ Prelude(n, "started") \/ SignalStarted(n) \/ AwaitStarted(n, to)
        \/ n = Node1 /\ JoinRequests("finished")
        \/ SignalFinished(n) \/ AwaitFinished(n)
    BY <1>3
  <2> HIDE DEF to
  <2> QED
    BY <2>1, <2>2, CommonStep, TestLocations
<1> QED
  BY <1>1, <1>2, <1>3 DEF SandboxNext, SandboxTest

LEMMA TimeoutRun ==
  ASSUME TestSetting, RunInv(TimeoutLocations), [TimeoutNext]_<<testVars, hasty>>
  PROVE  RunInv(TimeoutLocations)'
<1>1. CASE Surroundings \/ AskRequest("FindNode") \/ UNCHANGED testVars
  <2>1. UNCHANGED runVars
    BY <1>1, SurroundingsAreSteps DEF AskRequest, testVars
  <2> QED
    BY <2>1, RunQuiet
<1>2. ASSUME NEW n \in Instances,
             \/ Prelude(n, "started") \/ SignalStarted(n)
             \/ AwaitStarted(n, IF n = Node2 THEN "random" ELSE "sent_random")
             \/ n = Node1 /\ JoinRequests("finished")
             \/ SignalFinished(n) \/ AwaitFinished(n)
      PROVE  RunInv(TimeoutLocations)'
  <2> DEFINE to == IF n = Node2 THEN "random" ELSE "sent_random"
  <2>1. to \in TimeoutLocations
    BY DEF TimeoutLocations
  <2>2. \/ Prelude(n, "started") \/ SignalStarted(n) \/ AwaitStarted(n, to)
        \/ n = Node1 /\ JoinRequests("finished")
        \/ SignalFinished(n) \/ AwaitFinished(n)
    BY <1>2
  <2> HIDE DEF to
  <2> QED
    BY <2>1, <2>2, CommonStep, TestLocations
<1>3. {"random", "sleep", "sent_random", "await_sent_random", "join", "finished", "record"}
        \subseteq TimeoutLocations
  BY DEF TimeoutLocations
<1>4. CASE AskForRandomPacket
  <2>1. Goto(Node2, "random", "sleep") /\ UNCHANGED <<signals, topic, participants, verdict>>
    BY <1>4 DEF AskForRandomPacket, syncVars
  <2>2. signals' \in [States -> Nat] /\ verdict' \in [Instances -> {"none", "success", "failure"}]
    BY <2>1 DEF RunInv, RunTypeOK, SyncTypeOK
  <2> QED
    BY <1>3, <2>1, <2>2, Node1IsThePeer, TestLocations, LaterStep DEF RunInv
<1>5. CASE Sleep
  <2>1. Move(Node2, "sleep", "sent_random")
    BY <1>5 DEF Sleep
  <2> QED
    BY <1>3, <2>1, Node1IsThePeer, TestLocations, MoveStep DEF RunInv
<1>6. ASSUME NEW n \in Instances, SignalSentRandom(n) PROVE RunInv(TimeoutLocations)'
  <2>1. SignalAt(n, "sent_random", SentRandom, "await_sent_random")
    BY <1>6 DEF SignalSentRandom
  <2>2. SentRandom \in States
    BY WhoAreYouTimeoutAssumption
  <2> QED
    BY <1>3, <2>1, <2>2, TestLocations, SignalStep DEF RunInv
<1>7. ASSUME NEW n \in Instances, AwaitSentRandom(n) PROVE RunInv(TimeoutLocations)'
  <2> DEFINE to == IF n = Node1 THEN "join" ELSE "finished"
  <2>1. AwaitAt(n, "await_sent_random", SentRandom, to) /\ to \in TimeoutLocations
    BY <1>3, <1>7 DEF AwaitSentRandom
  <2> HIDE DEF to
  <2> QED
    BY <1>3, <2>1, TestLocations, AwaitStep DEF RunInv
<1>8. ASSUME NEW n \in Instances, RecordSuccess(n) PROVE RunInv(TimeoutLocations)'
  <2>1. Record(n, "record", "success")
    BY <1>8 DEF RecordSuccess
  <2> QED
    BY <1>3, <2>1, TestLocations, RecordStep DEF RunInv
<1> QED
  BY <1>1, <1>2, <1>4, <1>5, <1>6, <1>7, <1>8 DEF TimeoutNext, TimeoutTest
--------------------------------------------------------------------------------
(* The test's requests are requests of node 1, and only they fail for it.       *)
AskedType == asked \subseteq Ids /\ failed \subseteq asked

LEMMA SurroundingsFail ==
  ASSUME Surroundings
  PROVE  failed' \subseteq failed \cup asked
  BY DEF Surroundings, MockHandles, MockReceives, MockSends, MockSendPanics, MockTask,
         OwnPing, Discv5Receives, Discv5TimesOut

LEMMA AskedStep ==
  ASSUME TestSetting, TypeOK, AskedType,
         [SandboxNext]_testVars \/ [TimeoutNext]_<<testVars, hasty>>
  PROVE  AskedType'
<1>1. CASE Surroundings
  BY <1>1, SurroundingsFail, SurroundingsAreSteps DEF AskedType
<1>2. ASSUME NEW body, AskRequest(body) PROVE AskedType'
  <2>1. [peer |-> Node1, n |-> next_id[Node1]] \in Ids
    BY Node1IsThePeer DEF TypeOK, Ids
  <2> QED
    BY <1>2, <2>1 DEF AskedType, AskRequest
<1>3. CASE UNCHANGED <<asked, failed>>
  BY <1>3 DEF AskedType
<1> QED
  BY <1>1, <1>2, <1>3
     DEF SandboxNext, SandboxTest, TimeoutNext, TimeoutTest, TestOnly, SignalStarted,
         AwaitStarted, JoinRequests, AskForRandomPacket, SignalSentRandom, AwaitSentRandom,
         Sleep, SignalFinished, AwaitFinished, RecordOutcome, RecordSuccess, testVars

LEMMA MockTestStart ==
  ASSUME NEW locations, MockTestInit
  PROVE  TypeOK /\ RunInv(locations) /\ AskedType
  BY InitType, CollectInit DEF MockTestInit, RunInv, AskedType

LEMMA SandboxInvariance ==
  ASSUME TestSetting
  PROVE  SandboxSpec => [](TypeOK /\ RunInv(SandboxLocations) /\ AskedType)
<1>1. MockTestInit => TypeOK /\ RunInv(SandboxLocations) /\ AskedType
  BY MockTestStart
<1>2. TypeOK /\ RunInv(SandboxLocations) /\ AskedType /\ [SandboxNext]_testVars
        => (TypeOK /\ RunInv(SandboxLocations) /\ AskedType)'
  BY SandboxSteps, TypeStep, SandboxRun, AskedStep
<1> QED
  BY <1>1, <1>2, PTL DEF SandboxSpec

LEMMA TimeoutInvariance ==
  ASSUME TestSetting
  PROVE  TimeoutSpec => [](TypeOK /\ RunInv(TimeoutLocations) /\ AskedType)
<1>1. MockTestInit => TypeOK /\ RunInv(TimeoutLocations) /\ AskedType
  BY MockTestStart
<1>2. TypeOK /\ RunInv(TimeoutLocations) /\ AskedType /\ [TimeoutNext]_<<testVars, hasty>>
        => (TypeOK /\ RunInv(TimeoutLocations) /\ AskedType)'
  BY TimeoutSteps, TypeStep, TimeoutRun, AskedStep
<1> QED
  BY <1>1, <1>2, PTL DEF TimeoutSpec

(* The state of the sandbox test case keeps its type: the requests that fail    *)
(* are the test's own, and its mock's state is one of MockSystem.               *)
THEOREM SandboxTypeCorrect ==
  ASSUME TestSetting
  PROVE  SandboxSpec => []SandboxTypeOK
<1>1. TypeOK /\ RunInv(SandboxLocations) /\ AskedType => SandboxTypeOK
  BY DEF RunInv, AskedType, SandboxTypeOK, TestTypeOK
<1> QED
  BY <1>1, SandboxInvariance, PTL

(* So does that of concurrent-requests_whoareyou-timeout.                       *)
THEOREM TimeoutTypeCorrect ==
  ASSUME TestSetting
  PROVE  TimeoutSpec => []WhoAreYouTimeoutTypeOK
<1>1. hasty \in BOOLEAN /\ [TimeoutNext]_<<testVars, hasty>> => (hasty \in BOOLEAN)'
  BY DEF TimeoutNext, Sleep, RoundTrip
<1>2. TypeOK /\ RunInv(TimeoutLocations) /\ AskedType /\ hasty \in BOOLEAN
        => WhoAreYouTimeoutTypeOK
  BY DEF RunInv, AskedType, WhoAreYouTimeoutTypeOK, TestTypeOK
<1>3. hasty = FALSE => hasty \in BOOLEAN
  OBVIOUS
<1> QED
  BY <1>1, <1>2, <1>3, TimeoutInvariance, PTL DEF TimeoutSpec
--------------------------------------------------------------------------------
(* SuccessMeansScriptServed.  Success says that none of the test's requests has *)
(* failed, and that none is active any more.  A request ends in no other way    *)
(* than by a response that the mock has sent, or by an error for its handle; so *)
(* the mock has answered both of them.  Each answer has used an index of the    *)
(* script of its own, and the script has no more than two: nothing else has     *)
(* been answered, and nothing of the script is left.                            *)
Answered == {sent[i].id : i \in {j \in DOMAIN sent : sent[j].kind = "Response"}}

Over == {"finished", "await_finished", "record", "done"}

(* What is on its way to node 1 has been sent.                                  *)
WireInv ==
  \A q \in Elements(wire[Node1]) \cup Elements(send_ch) :
    q.kind = "Response" => q.id \in Answered

AskInv ==
  /\ IsFiniteSet(asked)
  /\ \A id \in asked : id.n < next_id[Node1]
  /\ asked \subseteq Active \cup failed \cup Answered
  /\ pc[Node1] \in Over => Cardinality(asked) = Parallel /\ asked \cap Active = {}
  /\ verdict[Node1] = "success" => pc[Node1] = "done" /\ failed = {}

LEMMA AnsweredGrows ==
  ASSUME TypeOK, UNCHANGED sent \/ \E packet \in OutboundPackets : Send(packet)
  PROVE  /\ Answered \subseteq Answered'
         /\ \A packet : Send(packet) /\ packet \in OutboundPackets /\ packet.kind = "Response"
              => packet.id \in Answered'
<1>1. CASE UNCHANGED sent /\ ~\E packet \in OutboundPackets : Send(packet)
  BY <1>1 DEF Answered
<1>2. ASSUME NEW packet \in OutboundPackets, Send(packet)
      PROVE  /\ Answered \subseteq Answered'
             /\ packet.kind = "Response" => packet.id \in Answered'
  <2>1. /\ DOMAIN sent \subseteq DOMAIN sent' /\ \A i \in DOMAIN sent : sent'[i] = sent[i]
        /\ Len(sent) + 1 \in DOMAIN sent' /\ sent'[Len(sent) + 1] = packet
    BY <1>2, SentKeeps DEF TypeOK
  <2> QED
    BY <2>1 DEF Answered
<1> QED
  BY <1>1, <1>2

LEMMA HandlerSends ==
  ASSUME TypeOK, Handler
  PROVE  UNCHANGED <<send_ch, sent>> \/ \E packet \in OutboundPackets : Send(packet)
<1>1. CASE ProcessHandlerRequest /\ ~UNCHANGED <<send_ch, sent>>
  BY <1>1, HeadTailProperties, OutboundFields DEF ProcessHandlerRequest, TypeOK, HandlerTypeOK
<1>2. CASE SendChallenge
  <2> DEFINE packet == [kind |-> "WhoAreYou", dst |-> turn.packet.src, id |-> turn.packet.id,
                        challenge |-> next_challenge, enr_seq |-> 0]
  <2>1. turn # None /\ Send(packet)
    BY <1>2 DEF SendChallenge, Acts
  <2>2. turn.packet.src \in Peers /\ turn.packet.id \in Ids /\ next_challenge \in Nat
    BY <2>1, TurnFields DEF TypeOK, HandlerTypeOK
  <2>3. packet \in OutboundPackets
    BY <2>2, OutboundFields
  <2> QED
    BY <2>1, <2>3
<1>3. CASE SendDefaultResponse \/ SendCustomResponse
  BY <1>3, ResponseToSource, ResponseKeepsKey
<1> QED
  BY <1>1, <1>2, <1>3
  DEF Handler, HandlerStep, DoAction, ProcessHandlerRequest, ProcessDeclarative,
      ProcessSequential, RejectSequential, Ignore, EstablishSession, CaptureRequest,
      PanicInTurn, Panic

LEMMA NextSends ==
  ASSUME TypeOK, [Next]_vars
  PROVE  UNCHANGED sent \/ \E packet \in OutboundPackets : Send(packet)
<1>1. CASE Handler
  BY <1>1, HandlerSends
<1>2. CASE ~Handler
  BY <1>2 DEF Next, vars, handlerVars, RecvHandler, SendHandler, SendHandlerPanics,
      SendRandomPacket, PeerStep, PeerSendsRequest, PeerRetries, PeerGivesUp,
      PeerReceivesWhoAreYou, PeerRefusesWhoAreYou, PeerReceivesResponse,
      PeerReceivesUnreadable
<1> QED
  BY <1>1, <1>2

LEMMA WireStep ==
  ASSUME TestSetting, TypeOK, WireInv, [Next]_vars
  PROVE  WireInv'
<1>1. /\ wire[Node1] \in Seq(OutboundPackets) /\ send_ch \in Seq(OutboundPackets)
      /\ wire \in [Peers -> Seq(OutboundPackets)]
  BY Node1IsThePeer DEF TypeOK, HandlerTypeOK
<1>2. Answered \subseteq Answered'
  BY NextSends, AnsweredGrows
<1>3. CASE Handler
  <2>1. UNCHANGED wire
    BY <1>3 DEF Handler
  <2>2. CASE UNCHANGED send_ch
    BY <1>2, <2>1, <2>2 DEF WireInv, Elements
  <2>3. ASSUME NEW packet \in OutboundPackets, Send(packet) PROVE WireInv'
    <3>1. Elements(send_ch)' = Elements(send_ch) \cup {packet}
      <4>1. Elements(Append(send_ch, packet)) = Elements(send_ch) \cup {packet}
        BY <1>1, ElementsFacts
      <4>2. send_ch' = Append(send_ch, packet)
        BY <2>3 DEF Send
      <4>3. Elements(send_ch)' = Elements(send_ch')
        BY DEF Elements
      <4> QED
        BY <4>1, <4>2, <4>3
    <3>2. packet.kind = "Response" => packet.id \in Answered'
      BY <2>3, AnsweredGrows
    <3>3. Elements(wire[Node1])' = Elements(wire[Node1])
      BY <2>1 DEF Elements
    <3> QED
      BY <1>2, <3>1, <3>2, <3>3 DEF WireInv
  <2> QED
    BY <1>3, <2>2, <2>3, HandlerSends
<1>4. CASE SendHandler
  <2>1. Elements(send_ch)' \subseteq Elements(send_ch) /\ Head(send_ch) \in Elements(send_ch)
        /\ Head(send_ch) \in OutboundPackets
    BY <1>1, <1>4, ElementsFacts, HeadTailProperties DEF SendHandler, Elements
  <2>2. wire'[Node1] = wire[Node1] \/ wire'[Node1] = Append(wire[Node1], Head(send_ch))
    BY <1>1, <1>4, Node1IsThePeer DEF SendHandler
  <2>3. Elements(wire[Node1])' \subseteq Elements(wire[Node1]) \cup {Head(send_ch)}
    <3>1. Elements(Append(wire[Node1], Head(send_ch))) = Elements(wire[Node1]) \cup {Head(send_ch)}
      BY <1>1, <2>1, ElementsFacts
    <3>2. Elements(wire[Node1])' = Elements(wire'[Node1])
      BY DEF Elements
    <3> QED
      BY <2>2, <3>1, <3>2
  <2> QED
    BY <1>2, <2>1, <2>3 DEF WireInv
<1>5. CASE SendHandlerPanics
  <2>1. Elements(send_ch)' = {} /\ Elements(wire[Node1])' = Elements(wire[Node1])
    BY <1>5 DEF SendHandlerPanics, Elements
  <2> QED
    BY <1>2, <2>1 DEF WireInv
<1>6. CASE \/ PeerReceivesWhoAreYou(Node1) \/ PeerRefusesWhoAreYou(Node1)
           \/ PeerReceivesResponse(Node1) \/ PeerReceivesUnreadable(Node1)
  <2>1. wire[Node1] # <<>> /\ wire'[Node1] = Tail(wire[Node1]) /\ UNCHANGED send_ch
    BY <1>1, <1>6, Node1IsThePeer
       DEF PeerReceivesWhoAreYou, PeerRefusesWhoAreYou, PeerReceivesResponse,
           PeerReceivesUnreadable, Arrives, Taken, handlerVars
  <2>2. Elements(wire[Node1])' \subseteq Elements(wire[Node1])
    BY <1>1, <2>1, ElementsFacts DEF Elements
  <2> QED
    BY <1>2, <2>1, <2>2 DEF WireInv, Elements
<1>7. CASE UNCHANGED <<wire, send_ch>>
  BY <1>2, <1>7 DEF WireInv, Elements
<1>8. \/ Handler \/ SendHandler \/ SendHandlerPanics
      \/ PeerReceivesWhoAreYou(Node1) \/ PeerRefusesWhoAreYou(Node1)
      \/ PeerReceivesResponse(Node1) \/ PeerReceivesUnreadable(Node1)
      \/ UNCHANGED <<wire, send_ch>>
  BY Node1IsThePeer DEF Next, vars, handlerVars, RecvHandler, SendRandomPacket, PeerStep,
     PeerSendsRequest, PeerRetries, PeerGivesUp
<1> QED
  BY <1>3, <1>4, <1>5, <1>6, <1>7, <1>8

(* A new request has a number that no request has had.                          *)
LEMMA RequestIsNew ==
  ASSUME TestSetting, TypeOK, NEW body \in PeerBodies, PeerSendsRequest(Node1, body)
  PROVE  /\ Active' = Active \cup {[peer |-> Node1, n |-> next_id[Node1]]}
         /\ next_id'[Node1] = next_id[Node1] + 1
<1> DEFINE fresh(key) ==
      [packet |-> Packet(Node1, "Message", [peer |-> Node1, n |-> next_id[Node1]], 0, FALSE,
                         key, body),
       retries |-> 0]
<1>1. \E key : active' = [active EXCEPT ![Node1] = @ \cup {fresh(key)}]
  BY DEF PeerSendsRequest
<1>2. \A key : fresh(key).packet.id = [peer |-> Node1, n |-> next_id[Node1]]
  BY DEF Packet
<1> HIDE DEF fresh
<1>3. PICK key : active'[Node1] = active[Node1] \cup {fresh(key)}
  BY <1>1, Node1IsThePeer DEF TypeOK
<1>4. Active' = Active \cup {fresh(key).packet.id}
  BY <1>3 DEF Active
<1>5. next_id'[Node1] = next_id[Node1] + 1
  BY Node1IsThePeer DEF PeerSendsRequest, TypeOK
<1> QED
  BY <1>2, <1>4, <1>5

(* A request that ends otherwise than by its response has failed.               *)
LEMMA ReceivesEnds ==
  ASSUME TestSetting, TypeOK, WireInv, Discv5Receives
  PROVE  /\ Active' \subseteq Active /\ UNCHANGED next_id
         /\ asked \cap Active \subseteq Active' \cup failed' \cup Answered
         /\ failed \subseteq failed' /\ Up(Node1)
<1>1. Up(Node1) /\ failed \subseteq failed'
  BY DEF Discv5Receives
<1>2. Active' = {q.packet.id : q \in active'[Node1]} /\ active \in [Peers -> SUBSET ActiveRequests]
  BY DEF Active, TypeOK
<1>3. CASE PeerReceivesResponse(Node1)
  <2> DEFINE response == Head(wire[Node1])
  <2>1. /\ wire[Node1] # <<>> /\ response.kind = "Response" /\ UNCHANGED next_id
        /\ active' = [active EXCEPT ![Node1] = {r \in @ : r.packet.id # response.id}]
    BY <1>3 DEF PeerReceivesResponse, Arrives
  <2>2. response.id \in Answered
    <3>1. wire[Node1] \in Seq(OutboundPackets)
      BY Node1IsThePeer DEF TypeOK
    <3>2. response \in Elements(wire[Node1])
      BY <2>1, <3>1, ElementsFacts
    <3> QED
      BY <2>1, <3>2 DEF WireInv
  <2> HIDE DEF response
  <2>3. active'[Node1] = {r \in active[Node1] : r.packet.id # response.id}
    BY <1>2, <2>1, Node1IsThePeer
  <2>4. Active' \subseteq Active /\ Active \subseteq Active' \cup {response.id}
    BY <1>2, <2>3 DEF Active
  <2> QED
    BY <1>1, <2>1, <2>2, <2>4
<1>4. CASE PeerReceivesWhoAreYou(Node1)
  <2>1. PICK r, packet :
          /\ r \in active[Node1] /\ r.packet.id = packet.id
          /\ active' = [active EXCEPT ![Node1] = (@ \ {r}) \cup {[r EXCEPT !.packet = packet]}]
    BY <1>4 DEF PeerReceivesWhoAreYou, Packet
  <2>2. [r EXCEPT !.packet = packet].packet = packet
    BY <1>2, Node1IsThePeer DEF ActiveRequests
  <2>3. active'[Node1] = (active[Node1] \ {r}) \cup {[r EXCEPT !.packet = packet]}
    BY <1>2, <2>1, Node1IsThePeer
  <2>4. Active' = Active
    BY <1>2, <2>1, <2>2, <2>3 DEF Active
  <2> QED
    BY <1>1, <1>4, <2>4 DEF PeerReceivesWhoAreYou
<1>5. CASE PeerRefusesWhoAreYou(Node1) \/ PeerReceivesUnreadable(Node1)
  <2>1. active'[Node1] \subseteq active[Node1] /\ UNCHANGED next_id
    BY <1>2, <1>5, Node1IsThePeer DEF PeerRefusesWhoAreYou, PeerReceivesUnreadable
  <2>2. Active' \subseteq Active
    BY <1>2, <2>1 DEF Active
  <2>3. CASE failed' = failed \cup ((asked \cap Active) \ {q.packet.id : q \in active'[Node1]})
    BY <1>1, <1>2, <2>1, <2>2, <2>3
  <2> QED
    BY <1>3, <1>5, <2>3 DEF Discv5Receives
<1> QED
  BY <1>3, <1>4, <1>5 DEF Discv5Receives

LEMMA TimesOutEnds ==
  ASSUME TestSetting, TypeOK, Discv5TimesOut
  PROVE  /\ Active' \subseteq Active /\ UNCHANGED next_id
         /\ asked \cap Active \subseteq Active' \cup failed'
         /\ failed \subseteq failed' /\ Up(Node1)
<1>1. PICK r \in active[Node1] :
        \/ PeerRetries(Node1, r) /\ UNCHANGED failed
        \/ PeerGivesUp(Node1, r) /\ failed' = failed \cup ({r.packet.id} \cap asked)
  BY DEF Discv5TimesOut
<1>2. Active' = {q.packet.id : q \in active'[Node1]} /\ active \in [Peers -> SUBSET ActiveRequests]
  BY DEF Active, TypeOK
<1>3. Up(Node1)
  BY DEF Discv5TimesOut
<1>4. CASE PeerRetries(Node1, r) /\ UNCHANGED failed
  <2> DEFINE q == [r EXCEPT !.retries = @ + 1]
  <2>1. q.packet = r.packet
    BY <1>2, Node1IsThePeer DEF ActiveRequests
  <2>2. active' = [active EXCEPT ![Node1] = (@ \ {r}) \cup {q}] /\ UNCHANGED next_id
    BY <1>4 DEF PeerRetries
  <2> HIDE DEF q
  <2>3. active'[Node1] = (active[Node1] \ {r}) \cup {q}
    BY <1>2, <2>2, Node1IsThePeer
  <2>4. Active' = Active
    BY <1>2, <2>1, <2>3 DEF Active
  <2> QED
    BY <1>3, <1>4, <2>2, <2>4
<1>5. CASE PeerGivesUp(Node1, r) /\ failed' = failed \cup ({r.packet.id} \cap asked)
  <2>1. active'[Node1] = active[Node1] \ {r} /\ UNCHANGED next_id
    BY <1>2, <1>5, Node1IsThePeer DEF PeerGivesUp
  <2>2. Active' \subseteq Active /\ Active \subseteq Active' \cup {r.packet.id}
    BY <1>2, <2>1 DEF Active
  <2> QED
    BY <1>3, <1>5, <2>1, <2>2
<1> QED
  BY <1>1, <1>4, <1>5

(* What the test does of itself: node 1 joins its requests when none is active, *)
(* and success is recorded when none has failed.                                *)
LEMMA SandboxMoves ==
  ASSUME TestSetting, RunInv(SandboxLocations), NEW n \in Instances,
         \/ (Prelude(n, "started") /\ TestOnly) \/ SignalStarted(n)
         \/ AwaitStarted(n, IF n = Node1 THEN "join" ELSE "finished")
         \/ n = Node1 /\ JoinRequests("finished")
         \/ SignalFinished(n) \/ AwaitFinished(n) \/ RecordOutcome(n)
  PROVE  /\ TestOnly
         /\ pc'[Node1] \in Over =>
              \/ pc[Node1] \in Over
              \/ Cardinality(asked) = Parallel /\ asked \cap Active = {}
         /\ pc[Node1] = "done" => pc'[Node1] = "done"
         /\ verdict'[Node1] = "success" =>
              verdict[Node1] = "success" \/ (pc'[Node1] = "done" /\ failed = {})
<1> DEFINE locations == SandboxLocations \cup
             {"configure", "await_configured", "publish", "collect", "done", "exited"}
<1>1. pc \in [Instances -> locations] /\ verdict \in [Instances -> {"none", "success", "failure"}]
  BY DEF RunInv, RunTypeOK
<1> HIDE DEF locations
<1>2. TestOnly
  BY DEF SignalStarted, AwaitStarted, JoinRequests, SignalFinished, AwaitFinished, RecordOutcome
<1>3. ASSUME NEW from, NEW to, Goto(n, from, to), UNCHANGED verdict, from # "done",
             to \in Over => n # Node1 \/ from \in Over
      PROVE  /\ pc'[Node1] \in Over => pc[Node1] \in Over
             /\ pc[Node1] = "done" => pc'[Node1] = "done"
             /\ verdict'[Node1] = verdict[Node1]
  BY <1>1, <1>3, Node1IsThePeer DEF Goto
<1>4. CASE Prelude(n, "started") /\ TestOnly
  <2>1. PICK from \in {"configure", "await_configured", "publish", "collect"},
             to \in {"await_configured", "publish", "collect", "started"} :
          Goto(n, from, to) /\ UNCHANGED verdict
    BY <1>4 DEF Prelude, SignalAt, AwaitAt, Move, PublishInfo, CollectInfo
  <2>2. from # "done" /\ to \notin Over
    BY DEF Over
  <2> QED
    BY <1>2, <1>3, <2>1, <2>2
<1>5. CASE SignalStarted(n)
  <2>1. Goto(n, "started", "await_started") /\ UNCHANGED verdict
    BY <1>5 DEF SignalStarted, SignalAt
  <2>2. "await_started" \notin Over /\ "started" # "done"
    BY DEF Over
  <2> QED
    BY <1>2, <1>3, <2>1, <2>2
<1>6. CASE SignalFinished(n)
  <2>1. Goto(n, "finished", "await_finished") /\ UNCHANGED verdict
    BY <1>6 DEF SignalFinished, SignalAt
  <2>2. "finished" \in Over /\ "finished" # "done"
    BY DEF Over
  <2> QED
    BY <1>2, <1>3, <2>1, <2>2
<1>7. CASE AwaitStarted(n, IF n = Node1 THEN "join" ELSE "finished")
  <2>1. Goto(n, "await_started", IF n = Node1 THEN "join" ELSE "finished") /\ UNCHANGED verdict
    BY <1>7 DEF AwaitStarted, AwaitAt, Move
  <2>2. /\ n = Node1 => (IF n = Node1 THEN "join" ELSE "finished") \notin Over
        /\ "await_started" # "done"
    BY DEF Over
  <2> QED
    BY <1>2, <1>3, <2>1, <2>2
<1>8. CASE AwaitFinished(n)
  <2>1. Goto(n, "await_finished", "record") /\ UNCHANGED verdict
    BY <1>8 DEF AwaitFinished, AwaitAt, Move
  <2>2. "await_finished" \in Over /\ "await_finished" # "done"
    BY DEF Over
  <2> QED
    BY <1>2, <1>3, <2>1, <2>2
<1>9. CASE n = Node1 /\ JoinRequests("finished")
  <2>1. /\ Cardinality(asked) = Parallel /\ asked \cap Active = {}
        /\ pc[Node1] = "join" /\ UNCHANGED verdict
    BY <1>9 DEF JoinRequests, Move, Goto
  <2> QED
    BY <1>2, <2>1
<1>10. CASE RecordOutcome(n)
  <2>1. /\ pc[n] = "record" /\ pc' = [pc EXCEPT ![n] = "done"]
        /\ verdict' = [verdict EXCEPT ![n] =
                         IF n = Node2 \/ failed = {} THEN "success" ELSE "failure"]
    BY <1>10 DEF RecordOutcome, Succeeded, Record, Goto
  <2>2. CASE n = Node1
    <3>1. pc'[Node1] = "done" /\ verdict'[Node1] = (IF failed = {} THEN "success" ELSE "failure")
      BY <1>1, <2>1, <2>2, Node1IsThePeer
    <3>2. pc[Node1] \in Over
      BY <2>1, <2>2 DEF Over
    <3> QED
      BY <1>2, <3>1, <3>2
  <2>3. CASE n # Node1
    <3>1. pc'[Node1] = pc[Node1] /\ verdict'[Node1] = verdict[Node1]
      BY <1>1, <2>1, <2>3, Node1IsThePeer
    <3> QED
      BY <1>2, <3>1
  <2> QED
    BY <2>2, <2>3
<1> QED
  BY <1>2, <1>4, <1>5, <1>6, <1>7, <1>8, <1>9, <1>10

LEMMA AskStep ==
  ASSUME TestSetting, TypeOK, RunInv(SandboxLocations), AskedType, WireInv, AskInv,
         [SandboxNext]_testVars
  PROVE  AskInv'
<1>1. Answered \subseteq Answered'
  BY SandboxSteps, NextSends, AnsweredGrows
<1>2. next_id[Node1] \in Nat
  BY Node1IsThePeer DEF TypeOK
<1>3. \A id \in asked : id.n \in Nat
  BY DEF AskedType, Ids
<1>4. CASE MockHandles \/ MockReceives \/ MockSends \/ MockSendPanics \/ UNCHANGED testVars
  <2>1. UNCHANGED <<runVars, asked, failed, active, next_id>>
    BY <1>4 DEF MockHandles, MockReceives, MockSends, MockSendPanics, MockTask, Handler,
                RecvHandler, SendHandler, SendHandlerPanics, peerVars, testVars, vars
  <2> QED
    BY <1>1, <2>1 DEF AskInv, Active, runVars
<1>5. CASE OwnPing
  <2>1. PeerSendsRequest(Node1, "Ping") /\ UNCHANGED <<runVars, asked, failed>>
    BY <1>5 DEF OwnPing
  <2>2. Active' = Active \cup {[peer |-> Node1, n |-> next_id[Node1]]}
        /\ next_id'[Node1] = next_id[Node1] + 1
    BY <2>1, RequestIsNew, Node1IsThePeer
  <2>3. [peer |-> Node1, n |-> next_id[Node1]] \notin asked
    BY <1>2, <1>3 DEF AskInv
  <2>4. asked \cap Active' = asked \cap Active /\ Active \subseteq Active'
    BY <2>2, <2>3
  <2>5. \A id \in asked : id.n < next_id'[Node1]
    BY <1>2, <1>3, <2>2 DEF AskInv
  <2> QED
    BY <1>1, <2>1, <2>4, <2>5 DEF AskInv, runVars
<1>6. CASE Discv5Receives \/ Discv5TimesOut
  <2>1. /\ Active' \subseteq Active /\ UNCHANGED next_id
        /\ asked \cap Active \subseteq Active' \cup failed' \cup Answered
        /\ failed \subseteq failed' /\ Up(Node1)
    BY <1>6, ReceivesEnds, TimesOutEnds
  <2>2. UNCHANGED <<runVars, asked>>
    BY <1>6 DEF Discv5Receives, Discv5TimesOut
  <2>3. pc[Node1] # "done"
    BY <2>1 DEF Up
  <2> QED
    BY <1>1, <2>1, <2>2, <2>3 DEF AskInv, runVars
<1>7. CASE AskRequest("Ping")
  <2> DEFINE id == [peer |-> Node1, n |-> next_id[Node1]]
  <2>1. /\ PeerSendsRequest(Node1, "Ping") /\ asked' = asked \cup {id}
        /\ UNCHANGED <<runVars, failed>> /\ pc[Node1] = "join"
    BY <1>7 DEF AskRequest
  <2>2. Active' = Active \cup {id} /\ next_id'[Node1] = next_id[Node1] + 1
    BY <2>1, RequestIsNew, Node1IsThePeer
  <2>3. id.n = next_id[Node1]
    OBVIOUS
  <2> HIDE DEF id
  <2>4. IsFiniteSet(asked')
    BY <2>1, FS_AddElement DEF AskInv
  <2>5. \A x \in asked' : x.n < next_id'[Node1]
    BY <1>2, <1>3, <2>1, <2>2, <2>3 DEF AskInv
  <2>6. asked' \subseteq Active' \cup failed' \cup Answered'
    BY <1>1, <2>1, <2>2 DEF AskInv
  <2>7. pc'[Node1] \notin Over /\ verdict'[Node1] # "success"
    BY <2>1 DEF AskInv, Over, runVars
  <2> QED
    BY <2>4, <2>5, <2>6, <2>7 DEF AskInv
<1>8. ASSUME NEW n \in Instances,
             \/ (Prelude(n, "started") /\ TestOnly) \/ SignalStarted(n)
             \/ AwaitStarted(n, IF n = Node1 THEN "join" ELSE "finished")
             \/ n = Node1 /\ JoinRequests("finished")
             \/ SignalFinished(n) \/ AwaitFinished(n) \/ RecordOutcome(n)
      PROVE  AskInv'
  <2>1. /\ TestOnly
        /\ pc'[Node1] \in Over =>
             \/ pc[Node1] \in Over
             \/ Cardinality(asked) = Parallel /\ asked \cap Active = {}
        /\ pc[Node1] = "done" => pc'[Node1] = "done"
        /\ verdict'[Node1] = "success" =>
             verdict[Node1] = "success" \/ (pc'[Node1] = "done" /\ failed = {})
    BY <1>8, SandboxMoves
  <2>2. UNCHANGED <<Active, next_id, asked, failed>>
    BY <2>1 DEF TestOnly, Active, vars, peerVars
  <2> QED
    BY <1>1, <2>1, <2>2 DEF AskInv
<1> QED
  BY <1>4, <1>5, <1>6, <1>7, <1>8 DEF SandboxNext, SandboxTest, Surroundings

(* Two requests answered with two indices leave neither another answer nor an   *)
(* index to use.                                                                *)
LEMMA AllServed ==
  ASSUME TestSetting, ScriptAnswersTheTest, TypeOK, ResponseInv, QueueInv,
         asked \subseteq Answered, Cardinality(asked) = Parallel
  PROVE  behaviours = <<>> /\ asked = Answered
<1> DEFINE V == {x \in ScriptIndices : x + 1 \in DOMAIN captured_requests /\ ~StillToUse(x)}
           f == [x \in V |-> captured_requests[x + 1]]
           R == {f[x] : x \in V}
<1>1. ScriptIndices = 0..1 /\ Parallel = 2
  BY DEF ScriptAnswersTheTest, Parallel
<1>2. IsFiniteSet(0..1) /\ Cardinality(0..1) = 2
  <2>1. /\ IsFiniteSet(0..1)
        /\ Cardinality(0..1) = IF 0 > 1 THEN 0 ELSE 1 - 0 + 1
    <3>1. 0 \in Int /\ 1 \in Int
      OBVIOUS
    <3> QED
      BY <3>1, FS_Interval, Zenon
  <2> QED
    BY <2>1
<1>3. IsFiniteSet(V) /\ Cardinality(V) <= 2 /\ (Cardinality(V) = 2 => V = ScriptIndices)
  BY <1>1, <1>2, FS_Subset
<1>4. f \in Surjection(V, R)
  BY DEF Surjection
<1>5. Answered \subseteq R
  <2> SUFFICES ASSUME NEW i \in DOMAIN sent, sent[i].kind = "Response"
               PROVE  sent[i].id \in R
    BY DEF Answered
  <2>1. PICK c \in DOMAIN captured_requests :
          /\ sent[i].id = captured_requests[c]
          /\ c - 1 \in ScriptIndices /\ ~StillToUse(c - 1)
    BY DEF ResponseInv
  <2>2. (c - 1) + 1 = c
    <3>1. captured_requests \in Seq(Ids)
      BY DEF TypeOK, HandlerTypeOK
    <3>2. c \in Nat
      BY <3>1, LenProperties
    <3> QED
      BY <3>2
  <2>3. c - 1 \in V
    BY <2>1, <2>2
  <2>4. f[c - 1] = sent[i].id
    BY <2>1, <2>2, <2>3
  <2> QED
    BY <2>3, <2>4
<1> HIDE DEF f, R
<1>6. IsFiniteSet(R) /\ Cardinality(R) <= Cardinality(V)
  BY <1>3, <1>4, FS_Surjection
<1>7. IsFiniteSet(asked) /\ asked \in SUBSET R
  BY <1>5, <1>6, FS_Subset
<1>8. Cardinality(asked) <= Cardinality(R) /\ (Cardinality(R) = Cardinality(asked) => R = asked)
  BY <1>6, <1>7, FS_Subset
<1>9. Cardinality(V) \in Nat /\ Cardinality(R) \in Nat
  BY <1>3, <1>6, FS_CardinalityType
<1>10. Cardinality(R) = 2 /\ Cardinality(V) = 2
  BY <1>1, <1>3, <1>6, <1>8, <1>9
<1>11. asked = Answered /\ V = ScriptIndices
  BY <1>1, <1>3, <1>5, <1>8, <1>10
<1>12. ASSUME behaviours # <<>> PROVE FALSE
  <2>1. /\ Len(behaviours) \in DOMAIN behaviours /\ Len(behaviours) \in Nat
        /\ Len(served) \in Nat /\ Len(Script) \in DOMAIN Script
    <3>1. behaviours \in Seq([expect : Expects, actions : Seq(Actions)]) /\ served \in Seq(Peers)
      BY DEF TypeOK, HandlerTypeOK
    <3>2. Len(Script) \in Nat /\ DOMAIN Script = 1..Len(Script) /\ Script # <<>>
      BY ScriptAssumption, LenProperties DEF ScriptAnswersTheTest
    <3>3. Len(Script) # 0
      BY <3>2, ScriptAssumption, EmptySeq
    <3>4. Len(behaviours) # 0
      BY <1>12, <3>1, EmptySeq
    <3> QED
      BY <3>1, <3>2, <3>3, <3>4, LenProperties
  <2>2. behaviours[Len(behaviours)] = Script[Len(Script)]
    BY <2>1 DEF QueueInv
  <2>3. PICK x : x \in Indices(Script[Len(Script)].actions)
    BY DEF ScriptAnswersTheTest
  <2>4. x \in ScriptIndices /\ StillToUse(x)
    BY <2>1, <2>2, <2>3 DEF ScriptIndices, StillToUse
  <2> QED
    BY <1>11, <2>4
<1> QED
  BY <1>11, <1>12

(* Success at node 1 means that its two PINGs, and nothing else, are what the   *)
(* mock's script served, whatever discv5 retries or sends of its own accord,    *)
(* whatever is lost, and whether the mock's tasks survive or not.               *)
THEOREM SandboxSuccess ==
  ASSUME TestSetting, ScriptAnswersTheTest
  PROVE  SandboxSpec => []SuccessMeansScriptServed
<1> DEFINE Inv == TypeOK /\ RunInv(SandboxLocations) /\ AskedType
<1>1. MockTestInit => WireInv /\ AskInv
  <2> SUFFICES ASSUME MockTestInit PROVE WireInv /\ AskInv
    OBVIOUS
  <2>1. /\ asked = {} /\ wire[Node1] = <<>> /\ send_ch = <<>>
        /\ pc[Node1] = "configure" /\ verdict[Node1] = "none"
    BY Node1IsThePeer DEF MockTestInit, Init, HandlerInit, RunInit
  <2>2. Elements(wire[Node1]) \cup Elements(send_ch) = {}
    BY <2>1, ElementsFacts
  <2> QED
    BY <2>1, <2>2, FS_EmptySet DEF WireInv, AskInv, Over
<1>2. Inv /\ WireInv /\ AskInv /\ [SandboxNext]_testVars => (WireInv /\ AskInv)'
  BY SandboxSteps, WireStep, AskStep
<1>3. Inv /\ AskInv /\ AnswerInv /\ ScriptInv => SuccessMeansScriptServed
  <2> SUFFICES ASSUME Inv, AskInv, AnswerInv, ScriptInv, verdict[Node1] = "success"
               PROVE  behaviours = <<>> /\ asked = Answered
    BY DEF SuccessMeansScriptServed, Answered
  <2>1. pc[Node1] \in Over /\ failed = {}
    BY DEF AskInv, Over
  <2>2. asked \subseteq Answered /\ Cardinality(asked) = Parallel
    BY <2>1 DEF AskInv
  <2> QED
    BY <2>2, AllServed DEF AnswerInv, ScriptInv
<1>4. ScriptAnswersOnce /\ Mode = "Sequential"
  BY DEF ScriptAnswersTheTest, TestSetting
<1>5. SandboxSpec => [](AnswerInv /\ ScriptInv)
  BY <1>4, SandboxIsMockSystem, AnswerInvariance, ScriptInvariance, PTL
<1> QED
  BY <1>1, <1>2, <1>3, <1>5, SandboxInvariance, PTL DEF SandboxSpec

(* No PING of the test is answered twice, and none of another node's.           *)
THEOREM SandboxAnswersOnce ==
  ASSUME TestSetting, ScriptAnswersOnce
  PROVE  SandboxSpec => []EachRequestAnsweredOnce
  BY SandboxIsMockSystem, AnsweredOnceSafely, PTL
--------------------------------------------------------------------------------
(* ScriptStartsAsPlanned.  Up to the barrier after the sleep node 1 has no      *)
(* session and nothing to ask, so the random packet and the WHOAREYOU that it   *)
(* provokes have the way for themselves; a sleep that was long enough ends with *)
(* the WHOAREYOU in the mock's hands, before any request.  What follows it is   *)
(* messages of a node without a session, and the first of them fits the entry   *)
(* that the script expects next.                                                *)
Early == {"configure", "await_configured", "publish", "collect", "started",
          "await_started", "random"}
Behind == {"await_sent_random", "join", "finished", "await_finished", "record", "done"}
Entered == {"join", "finished", "await_finished", "record", "done"}

(* Nobody enters the second part of the test before both have signalled.        *)
BarrierInv ==
  /\ signals[SentRandom] <= Cardinality({i \in Instances : pc[i] \in Behind})
  /\ pc[Node1] \in Entered => pc[Node2] \in Behind

OnlyMessages(s) == \A q \in Elements(s) : q.kind = "Message"

(* Node 1 and the handler while the first two entries are being served.         *)
Calm ==
  /\ handler = "running" /\ sessions[Node1] = None /\ peer_session[Node1] = None
  /\ \A r \in active[Node1] : r.packet.kind = "Message"

(* Before the mock asks for the random packet, while it or the WHOAREYOU is on  *)
(* its way, and from the moment on at which the WHOAREYOU has arrived.          *)
Untouched == served = <<>> /\ recv_ch = <<>> /\ turn = None /\ active[Node1] = {}

Still ==
  /\ Untouched
  /\ from_mock = <<>> /\ send_ch = <<>> /\ wire[Node1] = <<>> /\ udp_in = <<>>

Random == [kind |-> "Random", dst |-> Node1]

Travelling ==
  /\ Untouched
  /\ \/ from_mock = <<Node1>> /\ send_ch = <<>> /\ wire[Node1] = <<>> /\ udp_in = <<>>
     \/ from_mock = <<>> /\ send_ch = <<Random>> /\ wire[Node1] = <<>> /\ udp_in = <<>>
     \/ from_mock = <<>> /\ send_ch = <<>> /\ wire[Node1] = <<Random>> /\ udp_in = <<>>
     \/ /\ from_mock = <<>> /\ send_ch = <<>> /\ wire[Node1] = <<>>
        /\ \E q : q.kind = "WhoAreYou" /\ udp_in = <<q>>

Waiting ==
  /\ served = <<>> /\ turn = None
  /\ recv_ch # <<>> /\ Head(recv_ch).kind = "WhoAreYou" /\ OnlyMessages(Tail(recv_ch))

Discarding ==
  /\ Len(served) = 1 /\ OnlyMessages(recv_ch)
  /\ turn # None => \A a \in Elements(turn.actions) : a.op = "Ignore"

Arrived ==
  /\ from_mock = <<>> /\ send_ch = <<>> /\ wire[Node1] = <<>> /\ OnlyMessages(udp_in)
  /\ Waiting \/ Discarding

(* The plan is followed as long as the sleep suffices and the socket sends.     *)
OnPlan == ~hasty /\ sender = "running" /\ Len(served) < 2

PlanInv ==
  /\ pc[Node2] \in Early \cup {"sleep"} => ~hasty
  /\ OnPlan =>
       /\ Calm
       /\ pc[Node1] \notin Entered => active[Node1] = {}
       /\ pc[Node2] \in Early => Still
       /\ pc[Node2] \notin Early => Arrived \/ (Travelling /\ pc[Node2] = "sleep")
--------------------------------------------------------------------------------
(* What the mock and discv5 do while node 1 has no session and asks nothing.    *)
Onward ==
  \/ Handler \/ RecvHandler \/ SendHandler \/ SendHandlerPanics
  \/ \E r \in active[Node1] : PeerRetries(Node1, r) \/ PeerGivesUp(Node1, r)
  \/ PeerReceivesWhoAreYou(Node1) \/ PeerRefusesWhoAreYou(Node1)
  \/ PeerReceivesResponse(Node1) \/ PeerReceivesUnreadable(Node1)

LEMMA GoesOnward ==
  ASSUME Surroundings, peer_session[Node1] = None
  PROVE  Onward
  BY DEF Surroundings, MockHandles, MockReceives, MockSends, MockSendPanics, MockTask,
         OwnPing, Discv5Receives, Discv5TimesOut, Onward

(* An idle handler without a packet has nothing to do but send random packets.  *)
LEMMA IdleHandler ==
  ASSUME Mode = "Sequential", turn = None, recv_ch = <<>>, Handler
  PROVE  ProcessHandlerRequest
  BY DEF Handler, HandlerStep, DoAction, ProcessDeclarative, ProcessSequential,
         RejectSequential, Ignore, SendChallenge, EstablishSession, CaptureRequest,
         SendDefaultResponse, SendCustomResponse, PanicInTurn, Acts

LEMMA OneLong ==
  \A e : /\ <<e>> # <<>> /\ Head(<<e>>) = e /\ Tail(<<e>>) = <<>> /\ Len(<<e>>) = 1
         /\ Append(<<>>, e) = <<e>>
  OBVIOUS

LEMMA StillStep ==
  ASSUME TestSetting, Still, Onward
  PROVE  FALSE
<1>1. /\ turn = None /\ recv_ch = <<>> /\ active[Node1] = {} /\ from_mock = <<>>
      /\ send_ch = <<>> /\ wire[Node1] = <<>> /\ udp_in = <<>>
  BY DEF Still, Untouched
<1>2. CASE Handler
  BY <1>1, <1>2, IdleHandler, Node1IsThePeer DEF ProcessHandlerRequest
<1>3. CASE RecvHandler \/ SendHandler \/ SendHandlerPanics
  BY <1>1, <1>3 DEF RecvHandler, SendHandler, SendHandlerPanics
<1>4. CASE \/ PeerReceivesWhoAreYou(Node1) \/ PeerRefusesWhoAreYou(Node1)
           \/ PeerReceivesResponse(Node1) \/ PeerReceivesUnreadable(Node1)
  BY <1>1, <1>4 DEF PeerReceivesWhoAreYou, PeerRefusesWhoAreYou, PeerReceivesResponse,
     PeerReceivesUnreadable, Arrives
<1> QED
  BY <1>1, <1>2, <1>3, <1>4 DEF Onward

LEMMA RandomStep ==
  ASSUME TestSetting, Calm, Still, SendRandomPacket(Node1)
  PROVE  Calm' /\ Travelling'
<1>1. from_mock' = <<Node1>>
  BY OneLong DEF Still, SendRandomPacket
<1> QED
  BY <1>1 DEF Still, Untouched, Calm, Travelling, SendRandomPacket, peerVars

LEMMA TravelStep ==
  ASSUME TestSetting, TypeOK, Calm, Travelling, Onward, sender' = "running"
  PROVE  Calm' /\ (Travelling' \/ Arrived') /\ active'[Node1] = {}
<1>1. /\ turn = None /\ recv_ch = <<>> /\ active[Node1] = {} /\ served = <<>>
      /\ handler = "running" /\ sessions[Node1] = None /\ peer_session[Node1] = None
  BY DEF Travelling, Untouched, Calm
<1>2. ~SendHandlerPanics
  BY DEF SendHandlerPanics
<1>3. sender = "running" /\ Len(<<>>) = 0
  BY <1>1, IdleHandler, Node1IsThePeer
     DEF Onward, RecvHandler, SendHandler, SendHandlerPanics,
         ProcessHandlerRequest, PeerReceivesWhoAreYou, PeerRefusesWhoAreYou,
         PeerReceivesResponse, PeerReceivesUnreadable, handlerVars
<1>4. CASE from_mock = <<Node1>> /\ send_ch = <<>> /\ wire[Node1] = <<>> /\ udp_in = <<>>
  <2>1. Handler
    BY <1>1, <1>2, <1>4 DEF Onward, RecvHandler, SendHandler, PeerReceivesWhoAreYou,
       PeerRefusesWhoAreYou, PeerReceivesResponse, PeerReceivesUnreadable, Arrives
  <2>2. ProcessHandlerRequest /\ UNCHANGED <<udp_in, wire, peerVars>>
    BY <1>1, <2>1, IdleHandler, Node1IsThePeer DEF Handler
  <2>3. from_mock' = <<>> /\ send_ch' = <<Random>>
    BY <1>3, <1>4, <2>2, OneLong DEF ProcessHandlerRequest, Send, SendClosed, Random
  <2> QED
    BY <1>1, <1>4, <2>2, <2>3
       DEF ProcessHandlerRequest, Calm, Travelling, Untouched, peerVars
<1>5. CASE from_mock = <<>> /\ send_ch = <<Random>> /\ wire[Node1] = <<>> /\ udp_in = <<>>
  <2>1. SendHandler
    BY <1>1, <1>2, <1>5, IdleHandler, Node1IsThePeer
       DEF Onward, RecvHandler, ProcessHandlerRequest, PeerReceivesWhoAreYou,
       PeerRefusesWhoAreYou, PeerReceivesResponse, PeerReceivesUnreadable, Arrives
  <2>2. send_ch' = <<>> /\ wire' = [wire EXCEPT ![Random.dst] = Append(@, Random)]
    BY <1>5, <2>1, OneLong DEF SendHandler
  <2>3. wire'[Node1] = <<Random>>
    <3>1. Random.dst = Node1
      BY DEF Random
    <3>2. wire'[Node1] = Append(wire[Node1], Random)
      BY <2>2, <3>1, Node1IsThePeer DEF TypeOK
    <3> QED
      BY <1>5, <3>2, OneLong
  <2> QED
    BY <1>1, <1>5, <2>1, <2>2, <2>3 DEF SendHandler, Calm, Travelling, Untouched, peerVars
<1>6. CASE from_mock = <<>> /\ send_ch = <<>> /\ wire[Node1] = <<Random>> /\ udp_in = <<>>
  <2> DEFINE q == Packet(Node1, "WhoAreYou", [peer |-> Node1, n |-> 0], 0, FALSE, None, "Ping")
  <2>1. Head(wire[Node1]).kind = "Random" /\ Tail(wire[Node1]) = <<>>
    BY <1>6, OneLong DEF Random
  <2>2. PeerReceivesUnreadable(Node1)
    BY <1>1, <1>2, <1>6, <2>1, IdleHandler, Node1IsThePeer
       DEF Onward, RecvHandler, SendHandler, ProcessHandlerRequest, PeerReceivesWhoAreYou,
       PeerRefusesWhoAreYou, PeerReceivesResponse, Arrives
  <2>3. q.kind = "WhoAreYou"
    BY DEF Packet
  <2>4. Transmit(q) /\ Taken(Node1) /\ UNCHANGED <<handlerVars, active>>
        /\ peer_session' = [peer_session EXCEPT ![Node1] = None]
    BY <2>2 DEF PeerReceivesUnreadable
  <2> HIDE DEF q
  <2>5. udp_in' = <<q>>
    BY <1>3, <1>6, <2>4, OneLong, SystemAssumption DEF Transmit
  <2>6. wire'[Node1] = <<>> /\ peer_session'[Node1] = None
    BY <2>1, <2>4, Node1IsThePeer DEF Taken, TypeOK
  <2> QED
    BY <1>1, <1>6, <2>3, <2>4, <2>5, <2>6 DEF Calm, Travelling, Untouched, handlerVars
<1>7. ASSUME from_mock = <<>>, send_ch = <<>>, wire[Node1] = <<>>,
             NEW q, q.kind = "WhoAreYou", udp_in = <<q>>
      PROVE  Calm' /\ (Travelling' \/ Arrived') /\ active'[Node1] = {}
  <2>1. RecvHandler
    BY <1>1, <1>2, <1>7, IdleHandler, Node1IsThePeer
       DEF Onward, SendHandler, ProcessHandlerRequest, PeerReceivesWhoAreYou,
       PeerRefusesWhoAreYou, PeerReceivesResponse, PeerReceivesUnreadable, Arrives
  <2>2. udp_in' = <<>> /\ recv_ch' = <<q>>
    BY <1>1, <1>7, <2>1, OneLong DEF RecvHandler
  <2>3. Head(recv_ch') = q /\ Tail(recv_ch') = <<>> /\ recv_ch' # <<>>
    BY <2>2, OneLong
  <2>4. OnlyMessages(udp_in)' /\ OnlyMessages(Tail(recv_ch))'
    BY <2>2, <2>3 DEF OnlyMessages, Elements
  <2>5. Waiting'
    BY <1>1, <1>7, <2>1, <2>3, <2>4 DEF Waiting, RecvHandler
  <2> QED
    BY <1>1, <1>7, <2>1, <2>4, <2>5 DEF Calm, Arrived, RecvHandler, peerVars
<1> QED
  BY <1>4, <1>5, <1>6, <1>7 DEF Travelling

(* What an arriving packet leaves of the messages in the socket's buffer.       *)
LEMMA OnlyMessagesKept ==
  \A S : \A s \in Seq(S) : OnlyMessages(s) =>
    /\ s # <<>> => OnlyMessages(Tail(s)) /\ Head(s).kind = "Message"
    /\ \A e \in S : e.kind = "Message" => OnlyMessages(Append(s, e))
  BY ElementsFacts DEF OnlyMessages

LEMMA MessageArrives ==
  ASSUME TypeOK, OnlyMessages(udp_in), NEW q \in InboundPackets, q.kind = "Message",
         Transmit(q)
  PROVE  OnlyMessages(udp_in')
<1>1. udp_in \in Seq(InboundPackets)
  BY DEF TypeOK
<1> QED
  BY <1>1, OnlyMessagesKept DEF Transmit

(* The first two entries of the script fit what arrives.                        *)
LEMMA NextEntry ==
  ASSUME ScriptAwaitsWhoAreYou, TypeOK, QueueInv, Len(served) = 0 \/ Len(served) = 1
  PROVE  behaviours # <<>> /\ Head(behaviours) = Script[Len(served) + 1]
<1>1. behaviours \in Seq([expect : Expects, actions : Seq(Actions)]) /\ Len(Script) \in Nat
  BY ScriptAssumption, LenProperties DEF TypeOK, HandlerTypeOK
<1>2. Len(behaviours) \in Nat
  BY <1>1, LenProperties
<1>3. Len(behaviours) # 0
  <2>1. Len(served) + Len(behaviours) = Len(Script) /\ Len(Script) >= 2
    BY DEF QueueInv, ScriptAwaitsWhoAreYou
  <2>2. \A k, n, m \in Nat : (k = 0 \/ k = 1) /\ k + n = m /\ m >= 2 => n # 0
    OBVIOUS
  <2>3. Len(served) \in Nat
    OBVIOUS
  <2> QED
    BY <1>1, <1>2, <2>1, <2>2, <2>3, Zenon
<1>4. behaviours # <<>>
  BY <1>3
<1>5. 1 \in DOMAIN behaviours /\ Head(behaviours) = behaviours[1]
  BY <1>1, <1>4, TailElements
<1> QED
  BY <1>4, <1>5 DEF QueueInv

(* The mock serves the WHOAREYOU, discards it, and takes a message.             *)
LEMMA ArrivedHandler ==
  ASSUME TestSetting, ScriptAwaitsWhoAreYou, TypeOK, QueueInv, Calm, Arrived, Handler
  PROVE  Calm' /\ UNCHANGED active /\ (Arrived' \/ Len(served') = 2)
<1>1. /\ from_mock = <<>> /\ handler = "running" /\ sessions[Node1] = None
      /\ Mode = "Sequential" /\ served \in Seq(Peers) /\ Len(<<>>) = 0
      /\ recv_ch \in Seq(InboundPackets)
  BY Node1IsThePeer DEF Arrived, Calm, TypeOK, HandlerTypeOK
<1>2. ~ProcessHandlerRequest /\ ~ProcessDeclarative
  BY <1>1 DEF ProcessHandlerRequest, ProcessDeclarative
<1>3. CASE turn # None
  <2>1. Discarding
    BY <1>3 DEF Arrived, Waiting
  <2>2. turn.actions \in Seq(Actions) /\ turn.actions # <<>>
    BY <1>3, TurnFields DEF TypeOK
  <2>3. Head(turn.actions).op = "Ignore"
        /\ \A a \in Elements(Tail(turn.actions)) : a.op = "Ignore"
    BY <1>3, <2>1, <2>2, ElementsFacts DEF Discarding
  <2>4. Ignore
    BY <1>2, <1>3, <2>3
       DEF Handler, HandlerStep, DoAction, ProcessSequential, RejectSequential, Idle, Acts,
           SendChallenge, EstablishSession, CaptureRequest, SendDefaultResponse,
           SendCustomResponse, PanicInTurn, ActionPanics
  <2>5. turn' # None => turn'.actions = Tail(turn.actions)
    BY <2>4 DEF Ignore, NextAction, Begin
  <2>6. /\ UNCHANGED <<handler, sessions, from_mock, recv_ch, send_ch, served>>
        /\ UNCHANGED <<udp_in, wire, peerVars>>
    BY <2>4 DEF Ignore, Handler
  <2>7. Discarding'
    BY <2>1, <2>3, <2>5, <2>6 DEF Discarding, OnlyMessages
  <2> QED
    BY <2>6, <2>7 DEF Arrived, Calm, OnlyMessages, peerVars
<1>4. CASE turn = None
  <2>1. recv_ch # <<>> /\ (ProcessSequential \/ RejectSequential)
    BY <1>2, <1>4
       DEF Handler, HandlerStep, DoAction, ProcessSequential, RejectSequential, Ignore,
           SendChallenge, EstablishSession, CaptureRequest, SendDefaultResponse,
           SendCustomResponse, PanicInTurn, Acts
  <2>2. behaviours # <<>> /\ Head(behaviours) = Script[Len(served) + 1]
    BY <1>1, NextEntry DEF Arrived, Waiting, Discarding
  <2>3. CASE Waiting
    <3>1. Len(served) = 0 /\ Head(recv_ch).kind = "WhoAreYou"
      BY <1>1, <2>3 DEF Waiting
    <3>2. Fits(Head(recv_ch), Head(behaviours).expect)
      BY <2>2, <3>1 DEF Fits, ScriptAwaitsWhoAreYou
    <3>3. ProcessSequential
      BY <2>1, <2>2, <3>2 DEF RejectSequential
    <3>4. Head(behaviours) = Script[1]
      BY <2>2, <3>1
    <3>5. /\ turn' # None => turn'.actions = Script[1].actions
          /\ recv_ch' = Tail(recv_ch) /\ served' = Append(served, Head(recv_ch).src)
          /\ UNCHANGED <<handler, sessions, from_mock, send_ch>>
          /\ UNCHANGED <<udp_in, wire, peerVars>>
      BY <3>3, <3>4 DEF ProcessSequential, Begin, Handler
    <3>6. Len(served') = 1
      <4>1. Head(recv_ch).src \in Peers
        BY <1>1, <2>1, HeadTailProperties, InboundFields
      <4> QED
        BY <1>1, <3>1, <3>5, <4>1, AppendProperties
    <3>7. \A a \in Elements(Script[1].actions) : a.op = "Ignore"
      BY DEF ScriptAwaitsWhoAreYou, Elements
    <3>8. OnlyMessages(recv_ch')
      BY <2>3, <3>5 DEF Waiting
    <3>9. Discarding'
      BY <3>5, <3>6, <3>7, <3>8 DEF Discarding, OnlyMessages
    <3> QED
      BY <3>5, <3>9 DEF Arrived, Calm, OnlyMessages, peerVars
  <2>4. CASE Discarding
    <3>1. Len(served) = 1 /\ Head(recv_ch).kind = "Message" /\ Head(recv_ch).src = Node1
      <4>1. Head(recv_ch) \in InboundPackets
        BY <1>1, <2>1, HeadTailProperties
      <4> QED
        BY <1>1, <2>1, <2>4, <4>1, InboundFields, OnlyMessagesKept, Node1IsThePeer
        DEF Discarding
    <3>2. Fits(Head(recv_ch), Head(behaviours).expect)
      <4>1. Head(behaviours) = Script[2]
        BY <2>2, <3>1
      <4> QED
        BY <1>1, <3>1, <4>1 DEF Fits, ScriptAwaitsWhoAreYou
    <3>3. ProcessSequential
      BY <2>1, <2>2, <3>2 DEF RejectSequential
    <3>4. /\ served' = Append(served, Node1)
          /\ UNCHANGED <<handler, sessions>> /\ UNCHANGED peerVars
      BY <3>1, <3>3 DEF ProcessSequential, Handler
    <3>5. Len(served') = 2
      <4>1. Len(Append(served, Node1)) = Len(served) + 1
        BY <1>1, Node1IsThePeer, AppendProperties
      <4> QED
        BY <3>1, <3>4, <4>1
    <3> QED
      BY <3>4, <3>5 DEF Calm, peerVars
  <2> QED
    BY <2>3, <2>4 DEF Arrived
<1> QED
  BY <1>3, <1>4

LEMMA ArrivedStep ==
  ASSUME TestSetting, ScriptAwaitsWhoAreYou, TypeOK, QueueInv, Calm, Arrived, Onward
  PROVE  /\ Calm' /\ (Arrived' \/ Len(served') = 2)
         /\ active[Node1] = {} => active'[Node1] = {}
<1>1. /\ from_mock = <<>> /\ send_ch = <<>> /\ wire[Node1] = <<>> /\ OnlyMessages(udp_in)
      /\ Waiting \/ Discarding
      /\ udp_in \in Seq(InboundPackets) /\ recv_ch \in Seq(InboundPackets)
      /\ peer_session \in [Peers -> Secrets \cup {None}]
      /\ active \in [Peers -> SUBSET ActiveRequests]
  BY DEF Arrived, TypeOK, HandlerTypeOK
<1>2. CASE Handler
  BY <1>2, ArrivedHandler
<1>3. CASE RecvHandler
  <2> DEFINE q == Head(udp_in)
  <2>1. /\ udp_in # <<>> /\ udp_in' = Tail(udp_in) /\ recv_ch' = Append(recv_ch, q)
        /\ UNCHANGED <<handler, sessions, turn, from_mock, send_ch, served, wire>>
        /\ UNCHANGED peerVars
    BY <1>3 DEF RecvHandler, Calm
  <2>2. q \in InboundPackets /\ q.kind = "Message" /\ OnlyMessages(udp_in')
    BY <1>1, <2>1, HeadTailProperties, OnlyMessagesKept
  <2> HIDE DEF q
  <2>3. CASE Waiting
    <3>1. recv_ch # <<>> /\ Tail(recv_ch) \in Seq(InboundPackets) /\ OnlyMessages(Tail(recv_ch))
      BY <1>1, <2>3, HeadTailProperties DEF Waiting
    <3>2. Head(recv_ch') = Head(recv_ch) /\ Tail(recv_ch') = Append(Tail(recv_ch), q)
      BY <1>1, <2>1, <3>1, HeadTailAppend
    <3>3. OnlyMessages(Tail(recv_ch'))
      BY <2>2, <3>1, <3>2, OnlyMessagesKept
    <3>4. recv_ch' # <<>>
      BY <1>1, <2>1, <2>2, AppendProperties
    <3> QED
      BY <2>1, <2>3, <3>2, <3>3, <3>4, <2>2, <1>1
         DEF Waiting, Arrived, Calm, OnlyMessages, peerVars
  <2>4. CASE Discarding
    <3>1. OnlyMessages(recv_ch')
      BY <1>1, <2>1, <2>2, <2>4, OnlyMessagesKept DEF Discarding
    <3>2. Discarding'
      BY <2>1, <2>4, <3>1 DEF Discarding, OnlyMessages
    <3> QED
      BY <1>1, <2>1, <2>2, <3>2 DEF Arrived, Calm, OnlyMessages, peerVars
  <2> QED
    BY <1>1, <2>3, <2>4
<1>4. ASSUME NEW r \in active[Node1], PeerRetries(Node1, r)
      PROVE  /\ Calm' /\ Arrived' /\ active[Node1] # {}
  <2>1. r.packet \in InboundPackets /\ r.packet.kind = "Message" /\ r \in ActiveRequests
    BY <1>4, ActiveFields, Node1IsThePeer DEF Calm
  <2>2. [r EXCEPT !.retries = @ + 1].packet = r.packet
    BY <2>1 DEF ActiveRequests
  <2>3. active'[Node1] = (active[Node1] \ {r}) \cup {[r EXCEPT !.retries = @ + 1]}
    BY <1>1, <1>4, Node1IsThePeer DEF PeerRetries
  <2>4. Transmit(r.packet) /\ UNCHANGED <<handlerVars, wire, peer_session>>
    BY <1>4 DEF PeerRetries
  <2>5. OnlyMessages(udp_in')
    BY <1>1, <2>1, <2>4, MessageArrives
  <2>6. Calm'
    BY <2>1, <2>2, <2>3, <2>4 DEF Calm, handlerVars
  <2> QED
    BY <1>1, <2>4, <2>5, <2>6 DEF Arrived, Waiting, Discarding, OnlyMessages, handlerVars
<1>5. ASSUME NEW r \in active[Node1], PeerGivesUp(Node1, r)
      PROVE  /\ Calm' /\ Arrived' /\ active[Node1] # {}
  <2>1. active'[Node1] = active[Node1] \ {r} /\ peer_session'[Node1] = None
    BY <1>1, <1>5, Node1IsThePeer DEF PeerGivesUp
  <2>2. UNCHANGED <<handlerVars, udp_in, wire>>
    BY <1>5 DEF PeerGivesUp
  <2>3. Calm'
    BY <2>1, <2>2 DEF Calm, handlerVars
  <2> QED
    BY <1>1, <2>2, <2>3 DEF Arrived, Waiting, Discarding, OnlyMessages, handlerVars
<1>6. ~(SendHandler \/ SendHandlerPanics \/ PeerReceivesWhoAreYou(Node1)
        \/ PeerRefusesWhoAreYou(Node1) \/ PeerReceivesResponse(Node1)
        \/ PeerReceivesUnreadable(Node1))
  BY <1>1 DEF SendHandler, SendHandlerPanics, PeerReceivesWhoAreYou, PeerRefusesWhoAreYou,
     PeerReceivesResponse, PeerReceivesUnreadable, Arrives
<1>7. CASE \E r \in active[Node1] : PeerRetries(Node1, r) \/ PeerGivesUp(Node1, r)
  BY <1>4, <1>5, <1>7
<1>8. Handler \/ RecvHandler => UNCHANGED active
  BY DEF Handler, RecvHandler, peerVars
<1> QED
  BY <1>2, <1>3, <1>6, <1>7, <1>8 DEF Onward

(* A request of a node without a session is a message that cannot be read.      *)
LEMMA AskOnPlan ==
  ASSUME TestSetting, TypeOK, Calm, Arrived, NEW body \in PeerBodies,
         PeerSendsRequest(Node1, body)
  PROVE  Calm' /\ Arrived'
<1> DEFINE q == Packet(Node1, "Message", [peer |-> Node1, n |-> next_id[Node1]], 0, FALSE,
                       None, body)
<1>1. /\ active' = [active EXCEPT ![Node1] = @ \cup {[packet |-> q, retries |-> 0]}]
      /\ Transmit(q) /\ UNCHANGED <<handlerVars, wire, peer_session>>
  BY DEF PeerSendsRequest, Calm
<1>2. q \in InboundPackets
  <2>1. [peer |-> Node1, n |-> next_id[Node1]] \in Ids /\ body \in Requests
    BY Node1IsThePeer, SystemAssumption DEF TypeOK, Ids
  <2> QED
    BY <2>1, Node1IsThePeer, PacketType
<1>3. q.kind = "Message"
  BY DEF Packet
<1> HIDE DEF q
<1>4. active'[Node1] = active[Node1] \cup {[packet |-> q, retries |-> 0]}
  BY <1>1, Node1IsThePeer DEF TypeOK
<1>5. Calm'
  BY <1>1, <1>3, <1>4 DEF Calm, handlerVars
<1>6. OnlyMessages(udp_in')
  BY <1>1, <1>2, <1>3, MessageArrives DEF Arrived
<1> QED
  BY <1>1, <1>5, <1>6 DEF Arrived, Waiting, Discarding, OnlyMessages, handlerVars
--------------------------------------------------------------------------------
(* The locations of the test, as far as the barrier after the sleep goes.       *)
Moves(n, from, to) ==
  /\ from \in Behind => to \in Behind
  /\ from \in Entered => to \in Entered
  /\ \/ signals'[SentRandom] = signals[SentRandom]
     \/ /\ signals'[SentRandom] = signals[SentRandom] + 1
        /\ from \notin Behind /\ to \in Behind
  /\ n = Node1 /\ to \in Entered => from \in Entered \/ Reached(SentRandom, Everyone)
  /\ n = Node2 => (from \in Early <=> to \in Early) /\ from # "sleep" /\ to # "sleep"

OwnStep(n) ==
  \/ (Prelude(n, "started") /\ TestOnly)
  \/ SignalStarted(n) \/ AwaitStarted(n, IF n = Node2 THEN "random" ELSE "sent_random")
  \/ SignalSentRandom(n) \/ AwaitSentRandom(n)
  \/ (n = Node1 /\ JoinRequests("finished"))
  \/ SignalFinished(n) \/ AwaitFinished(n) \/ RecordSuccess(n)

LEMMA OwnStepMoves ==
  ASSUME TestSetting, RunInv(TimeoutLocations), NEW n \in Instances, OwnStep(n)
  PROVE  TestOnly /\ \E from, to : Goto(n, from, to) /\ Moves(n, from, to)
<1> USE DEF Behind, Entered, Early
<1>1. TestOnly
  BY DEF OwnStep, SignalStarted, AwaitStarted, SignalSentRandom, AwaitSentRandom,
     JoinRequests, SignalFinished, AwaitFinished, RecordSuccess
<1>2. signals \in [States -> Nat] /\ SentRandom \in States /\ Node1 # Node2
  BY WhoAreYouTimeoutAssumption, Node1IsThePeer DEF RunInv, RunTypeOK, SyncTypeOK
<1>3. ASSUME NEW from, NEW to, NEW state \in {Configured, Started, Finished},
             SignalAt(n, from, state, to)
      PROVE  Goto(n, from, to) /\ signals'[SentRandom] = signals[SentRandom]
  <2>1. Goto(n, from, to) /\ signals' = [signals EXCEPT ![state] = @ + 1]
    BY <1>3 DEF SignalAt, Signal
  <2>2. state # SentRandom
    BY DEF Configured, Started, Finished, SentRandom
  <2> QED
    BY <1>2, <2>1, <2>2
<1>4. ASSUME NEW from, NEW to, NEW state, AwaitAt(n, from, state, to)
      PROVE  /\ Goto(n, from, to) /\ signals'[SentRandom] = signals[SentRandom]
             /\ Reached(state, Everyone)
  BY <1>4 DEF AwaitAt, Move, syncVars
<1>5. CASE Prelude(n, "started") /\ TestOnly
  <2>1. CASE SignalAt(n, "configure", Configured, "await_configured")
    <3>1. Moves(n, "configure", "await_configured")
      BY <1>3, <2>1 DEF Moves
    <3> QED
      BY <1>1, <1>3, <2>1, <3>1
  <2>2. CASE AwaitAt(n, "await_configured", Configured, "publish")
    <3>1. Moves(n, "await_configured", "publish")
      BY <1>4, <2>2 DEF Moves
    <3> QED
      BY <1>1, <1>4, <2>2, <3>1
  <2>3. CASE PublishInfo(n)
    <3>1. Goto(n, "publish", "collect") /\ signals'[SentRandom] = signals[SentRandom]
      BY <2>3 DEF PublishInfo, Publish
    <3>2. Moves(n, "publish", "collect")
      BY <3>1 DEF Moves
    <3> QED
      BY <1>1, <3>1, <3>2
  <2>4. CASE CollectInfo(n, "started")
    <3>1. Goto(n, "collect", "started") /\ signals'[SentRandom] = signals[SentRandom]
      BY <2>4 DEF CollectInfo, syncVars
    <3>2. Moves(n, "collect", "started")
      BY <3>1 DEF Moves
    <3> QED
      BY <1>1, <3>1, <3>2
  <2> QED
    BY <1>5, <2>1, <2>2, <2>3, <2>4 DEF Prelude
<1>6. CASE SignalStarted(n)
  <2>1. SignalAt(n, "started", Started, "await_started")
    BY <1>6 DEF SignalStarted
  <2>2. Moves(n, "started", "await_started")
    BY <1>3, <2>1 DEF Moves
  <2> QED
    BY <1>1, <1>3, <2>1, <2>2
<1>7. CASE AwaitStarted(n, IF n = Node2 THEN "random" ELSE "sent_random")
  <2> DEFINE to == IF n = Node2 THEN "random" ELSE "sent_random"
  <2>1. AwaitAt(n, "await_started", Started, to)
    BY <1>7 DEF AwaitStarted
  <2>2. Moves(n, "await_started", to)
    BY <1>4, <2>1 DEF Moves
  <2> QED
    BY <1>1, <1>4, <2>1, <2>2
<1>8. CASE SignalSentRandom(n)
  <2>1. SignalAt(n, "sent_random", SentRandom, "await_sent_random")
    BY <1>8 DEF SignalSentRandom
  <2>2. Goto(n, "sent_random", "await_sent_random")
        /\ signals'[SentRandom] = signals[SentRandom] + 1
    BY <1>2, <2>1 DEF SignalAt, Signal
  <2>3. Moves(n, "sent_random", "await_sent_random")
    BY <2>2 DEF Moves
  <2> QED
    BY <1>1, <2>2, <2>3
<1>9. CASE AwaitSentRandom(n)
  <2> DEFINE to == IF n = Node1 THEN "join" ELSE "finished"
  <2>1. AwaitAt(n, "await_sent_random", SentRandom, to)
    BY <1>9 DEF AwaitSentRandom
  <2>2. Moves(n, "await_sent_random", to)
    BY <1>4, <2>1 DEF Moves
  <2> QED
    BY <1>1, <1>4, <2>1, <2>2
<1>10. CASE n = Node1 /\ JoinRequests("finished")
  <2>1. Goto(n, "join", "finished") /\ signals'[SentRandom] = signals[SentRandom]
    BY <1>10 DEF JoinRequests, Move, syncVars
  <2>2. Moves(n, "join", "finished")
    BY <1>2, <1>10, <2>1 DEF Moves
  <2> QED
    BY <1>1, <2>1, <2>2
<1>11. CASE SignalFinished(n)
  <2>1. SignalAt(n, "finished", Finished, "await_finished")
    BY <1>11 DEF SignalFinished
  <2>2. Moves(n, "finished", "await_finished")
    BY <1>3, <2>1 DEF Moves
  <2> QED
    BY <1>1, <1>3, <2>1, <2>2
<1>12. CASE AwaitFinished(n)
  <2>1. AwaitAt(n, "await_finished", Finished, "record")
    BY <1>12 DEF AwaitFinished
  <2>2. Moves(n, "await_finished", "record")
    BY <1>4, <2>1 DEF Moves
  <2> QED
    BY <1>1, <1>4, <2>1, <2>2
<1>13. CASE RecordSuccess(n)
  <2>1. Goto(n, "record", "done") /\ signals'[SentRandom] = signals[SentRandom]
    BY <1>13 DEF RecordSuccess, Record, syncVars
  <2>2. Moves(n, "record", "done")
    BY <2>1 DEF Moves
  <2> QED
    BY <1>1, <2>1, <2>2
<1> QED
  BY <1>5, <1>6, <1>7, <1>8, <1>9, <1>10, <1>11, <1>12, <1>13 DEF OwnStep

(* The steps of the test on node 2 between two barriers.                        *)
LEMMA TimeoutStepKinds ==
  ASSUME TestSetting, [TimeoutNext]_<<testVars, hasty>>
  PROVE  \/ Surroundings /\ UNCHANGED hasty
         \/ AskRequest("FindNode") /\ UNCHANGED hasty
         \/ AskForRandomPacket /\ UNCHANGED hasty
         \/ Sleep
         \/ (\E n \in Instances : OwnStep(n)) /\ UNCHANGED hasty
         \/ UNCHANGED <<testVars, hasty>>
  BY DEF TimeoutNext, TimeoutTest, OwnStep

LEMMA BarrierMoves ==
  ASSUME TestSetting, RunInv(TimeoutLocations), BarrierInv, signals' \in [States -> Nat],
         NEW n \in Instances, NEW from, NEW to, Goto(n, from, to),
         from \in Behind => to \in Behind,
         \/ signals'[SentRandom] = signals[SentRandom]
         \/ /\ signals'[SentRandom] = signals[SentRandom] + 1
            /\ from \notin Behind /\ to \in Behind,
         n = Node1 /\ to \in Entered => from \in Entered \/ Reached(SentRandom, Everyone)
  PROVE  BarrierInv'
<1> DEFINE P == {i \in Instances : pc[i] \in Behind}
           locations == TimeoutLocations \cup
             {"configure", "await_configured", "publish", "collect", "done", "exited"}
<1>1. /\ pc \in [Instances -> locations] /\ pc[n] = from /\ pc' = [pc EXCEPT ![n] = to]
      /\ signals[SentRandom] \in Nat
  BY WhoAreYouTimeoutAssumption DEF RunInv, RunTypeOK, SyncTypeOK, Goto
<1> HIDE DEF locations
<1>2. P \in SUBSET Instances /\ P' \in SUBSET Instances /\ P \subseteq P'
  BY <1>1
<1>3. signals[SentRandom] <= Cardinality(P)
  BY DEF BarrierInv
<1>4. from \notin Behind /\ to \in Behind => n \in P' /\ n \notin P
  BY <1>1
<1> HIDE DEF P
<1>5. /\ signals[SentRandom] <= Cardinality(P')
      /\ n \in P' /\ n \notin P => signals[SentRandom] + 1 <= Cardinality(P')
  BY <1>1, <1>2, <1>3, SignalsCounted
<1>6. signals'[SentRandom] <= Cardinality(P')
  BY <1>4, <1>5
<1>7. Reached(SentRandom, Everyone) => P = Instances
  BY <1>1, <1>2, <1>3, BarrierNeedsAll DEF Reached, Everyone
<1>8. pc'[Node1] \in Entered => pc'[Node2] \in Behind
  BY <1>1, <1>7, Node1IsThePeer DEF BarrierInv, P
<1> QED
  BY <1>6, <1>8 DEF BarrierInv, P

LEMMA BarrierStep ==
  ASSUME TestSetting, RunInv(TimeoutLocations), RunInv(TimeoutLocations)', BarrierInv,
         [TimeoutNext]_<<testVars, hasty>>
  PROVE  BarrierInv'
<1>1. signals' \in [States -> Nat]
  BY DEF RunInv, RunTypeOK, SyncTypeOK
<1>2. CASE Surroundings \/ AskRequest("FindNode") \/ UNCHANGED <<testVars, hasty>>
  <2>1. UNCHANGED <<pc, signals>>
    BY <1>2, SurroundingsAreSteps DEF AskRequest, testVars, runVars, syncVars
  <2> QED
    BY <2>1 DEF BarrierInv
<1>3. CASE AskForRandomPacket \/ Sleep
  <2>1. /\ Goto(Node2, "random", "sleep") \/ Goto(Node2, "sleep", "sent_random")
        /\ signals'[SentRandom] = signals[SentRandom]
    BY <1>3 DEF AskForRandomPacket, Sleep, Move, syncVars
  <2>2. "random" \notin Behind /\ "sleep" \notin Behind
    BY DEF Behind
  <2> QED
    BY <1>1, <2>1, <2>2, BarrierMoves, Node1IsThePeer
<1>4. ASSUME NEW n \in Instances, OwnStep(n) PROVE BarrierInv'
  <2>1. PICK from, to : Goto(n, from, to) /\ Moves(n, from, to)
    BY <1>4, OwnStepMoves
  <2> QED
    BY <1>1, <2>1, BarrierMoves DEF Moves
<1> QED
  BY <1>2, <1>3, <1>4, TimeoutStepKinds
--------------------------------------------------------------------------------
(* A task that has died stays dead, and what is served is served.               *)
LEMMA PlanGoesOn ==
  ASSUME TestSetting, TypeOK, [Next]_vars, sender' = "running"
  PROVE  sender = "running" /\ Len(served) <= Len(served') /\ Len(served) \in Nat
<1>1. served \in Seq(Peers) /\ Len(served) \in Nat
  BY LenProperties DEF TypeOK, HandlerTypeOK
<1>2. CASE Handler
  <2>1. sender' = sender
    BY <1>2 DEF Handler, HandlerStep, ProcessHandlerRequest, ProcessDeclarative,
       ProcessSequential, RejectSequential, DoAction, Ignore, SendChallenge,
       EstablishSession, CaptureRequest, SendDefaultResponse, SendCustomResponse,
       SendResponse, Send, PanicInTurn, Panic
  <2>2. UNCHANGED served \/ ProcessSequential
    BY <1>2 DEF Handler, HandlerStep, ProcessHandlerRequest, ProcessDeclarative,
       RejectSequential, DoAction, Ignore, SendChallenge, EstablishSession, CaptureRequest,
       SendDefaultResponse, SendCustomResponse, SendResponse, PanicInTurn, Panic
  <2>3. CASE ProcessSequential
    <3>1. served' = Append(served, Head(recv_ch).src) /\ recv_ch # <<>>
      BY <2>3 DEF ProcessSequential
    <3>2. Head(recv_ch).src \in Peers
      BY <3>1, HeadTailProperties, InboundFields DEF TypeOK, HandlerTypeOK
    <3>3. Len(served') = Len(served) + 1
      BY <1>1, <3>1, <3>2, AppendProperties
    <3> QED
      BY <1>1, <2>1, <3>3
  <2> QED
    BY <1>1, <2>1, <2>2, <2>3
<1>3. CASE ~Handler
  <2>1. UNCHANGED served /\ (sender' = sender \/ sender' = "panicked")
    BY <1>3 DEF Next, vars, handlerVars, RecvHandler, SendHandler, SendHandlerPanics,
        SendRandomPacket, PeerStep, PeerSendsRequest, PeerRetries, PeerGivesUp,
        PeerReceivesWhoAreYou, PeerRefusesWhoAreYou, PeerReceivesResponse,
        PeerReceivesUnreadable
  <2> QED
    BY <1>1, <2>1
<1> QED
  BY <1>2, <1>3

LEMMA PlanStart ==
  ASSUME TestSetting, MockTestInit, hasty = FALSE
  PROVE  BarrierInv /\ PlanInv
<1>1. /\ pc[Node1] = "configure" /\ pc[Node2] = "configure" /\ signals[SentRandom] = 0
      /\ pc = [i \in Instances |-> "configure"]
  BY Node1IsThePeer, WhoAreYouTimeoutAssumption DEF MockTestInit, RunInit, SyncInit
<1>2. {i \in Instances : pc[i] \in Behind} = {}
  BY <1>1 DEF Behind
<1>3. BarrierInv
  BY <1>1, <1>2, FS_EmptySet DEF BarrierInv, Entered
<1>4. Calm /\ Still
  BY Node1IsThePeer DEF MockTestInit, Init, HandlerInit, Calm, Still, Untouched
<1>5. PlanInv
  BY <1>1, <1>4 DEF PlanInv, Early, Still, Untouched
<1> QED
  BY <1>3, <1>5

LEMMA PlanStep ==
  ASSUME TestSetting, ScriptAwaitsWhoAreYou, TypeOK, RunInv(TimeoutLocations),
         QueueInv, BarrierInv, PlanInv, [TimeoutNext]_<<testVars, hasty>>
  PROVE  PlanInv'
<1>1. Early \cap Behind = {} /\ "sleep" \notin Early \cup Behind /\ Entered \subseteq Behind
  BY DEF Early, Behind, Entered
<1>2. pc[Node1] \in Entered => pc[Node2] \notin Early /\ pc[Node2] # "sleep"
  BY <1>1 DEF BarrierInv
<1>3. pc \in [Instances -> TimeoutLocations \cup
           {"configure", "await_configured", "publish", "collect", "done", "exited"}]
  BY DEF RunInv, RunTypeOK
<1>4. UNCHANGED hasty /\ OnPlan' => OnPlan
  <2>1. sender' = "running" => sender = "running" /\ Len(served) <= Len(served')
                               /\ Len(served) \in Nat
    BY TimeoutSteps, PlanGoesOn
  <2>2. Len(served') \in Nat
    BY TimeoutSteps, TypeStep, LenProperties DEF TypeOK, HandlerTypeOK
  <2> QED
    BY <2>1, <2>2 DEF OnPlan
<1>5. CASE Surroundings /\ UNCHANGED hasty
  <2>1. UNCHANGED pc
    BY <1>5, SurroundingsAreSteps DEF runVars
  <2> SUFFICES ASSUME OnPlan'
               PROVE  /\ Calm'
                      /\ pc[Node1] \notin Entered => active'[Node1] = {}
                      /\ pc[Node2] \in Early => Still'
                      /\ pc[Node2] \notin Early =>
                           Arrived' \/ (Travelling' /\ pc[Node2] = "sleep")
    BY <1>5, <2>1 DEF PlanInv
  <2>2. OnPlan /\ sender' = "running" /\ Len(served') # 2
    BY <1>4, <1>5 DEF OnPlan
  <2>3. Calm /\ Onward
    BY <1>5, <2>2, GoesOnward DEF PlanInv, Calm
  <2>4. pc[Node2] \notin Early
    BY <2>2, <2>3, StillStep DEF PlanInv
  <2>5. CASE Travelling /\ pc[Node2] = "sleep"
    <3>1. Calm' /\ (Travelling' \/ Arrived') /\ active'[Node1] = {}
      BY <2>2, <2>3, <2>5, TravelStep
    <3> QED
      BY <2>4, <2>5, <3>1
  <2>6. CASE Arrived
    <3>1. /\ Calm' /\ (Arrived' \/ Len(served') = 2)
          /\ active[Node1] = {} => active'[Node1] = {}
      BY <2>3, <2>6, ArrivedStep
    <3>2. pc[Node1] \notin Entered => active[Node1] = {}
      BY <2>2 DEF PlanInv
    <3> QED
      BY <2>2, <2>4, <3>1, <3>2
  <2> QED
    BY <2>2, <2>4, <2>5, <2>6 DEF PlanInv
<1>6. CASE AskRequest("FindNode") /\ UNCHANGED hasty
  <2>1. /\ PeerSendsRequest(Node1, "FindNode") /\ UNCHANGED pc /\ pc[Node1] \in Entered
    BY <1>6 DEF AskRequest, runVars, Entered
  <2>2. pc[Node2] \notin Early /\ pc[Node2] # "sleep"
    BY <1>2, <2>1
  <2>3. OnPlan' => Calm' /\ Arrived'
    <3> SUFFICES ASSUME OnPlan' PROVE Calm' /\ Arrived'
      OBVIOUS
    <3>1. Calm /\ Arrived
      BY <1>4, <1>6, <2>2 DEF PlanInv
    <3> QED
      BY <2>1, <3>1, AskOnPlan, Node1IsThePeer
  <2> QED
    BY <2>1, <2>2, <2>3 DEF PlanInv
<1>7. CASE AskForRandomPacket /\ UNCHANGED hasty
  <2>1. /\ pc[Node2] = "random" /\ pc' = [pc EXCEPT ![Node2] = "sleep"]
        /\ SendRandomPacket(Node1)
    BY <1>7 DEF AskForRandomPacket, Goto
  <2>2. pc[Node2] \in Early /\ pc'[Node2] = "sleep" /\ pc'[Node1] = pc[Node1] /\ ~hasty
    BY <1>3, <2>1, Node1IsThePeer DEF PlanInv, Early
  <2>3. OnPlan' => Calm' /\ Travelling'
    BY <1>4, <1>7, <2>1, <2>2, RandomStep DEF PlanInv
  <2>4. Travelling' => active'[Node1] = {}
    BY DEF Travelling, Untouched
  <2> QED
    BY <1>1, <1>7, <2>2, <2>3, <2>4 DEF PlanInv
<1>8. CASE Sleep
  <2>1. /\ pc[Node2] = "sleep" /\ pc' = [pc EXCEPT ![Node2] = "sent_random"]
        /\ UNCHANGED vars /\ hasty' = RoundTrip
    BY <1>8 DEF Sleep, Move, Goto, TestOnly
  <2>2. pc'[Node2] = "sent_random" /\ pc'[Node1] = pc[Node1] /\ ~hasty
    BY <1>3, <2>1, Node1IsThePeer DEF PlanInv
  <2>3. "sent_random" \notin Early \cup {"sleep"}
    BY DEF Early
  <2>4. Travelling => RoundTrip
    BY OneLong DEF Travelling, RoundTrip
  <2>5. OnPlan' => OnPlan /\ Calm /\ Arrived
    BY <1>1, <2>1, <2>2, <2>4 DEF OnPlan, PlanInv, vars, handlerVars
  <2>6. Calm' = Calm /\ Arrived' = Arrived /\ UNCHANGED active
    BY <2>1 DEF vars, handlerVars, peerVars, Calm, Arrived, Waiting, Discarding,
                OnlyMessages, Elements
  <2> QED
    BY <2>2, <2>3, <2>5, <2>6 DEF PlanInv
<1>9. ASSUME NEW n \in Instances, OwnStep(n), UNCHANGED hasty PROVE PlanInv'
  <2>1. UNCHANGED vars
    BY <1>9, OwnStepMoves DEF TestOnly
  <2>2. PICK from, to : Goto(n, from, to) /\ Moves(n, from, to)
    BY <1>9, OwnStepMoves
  <2>3. pc[n] = from /\ pc' = [pc EXCEPT ![n] = to]
    BY <2>2 DEF Goto
  <2>4. /\ pc[Node1] \in Entered => pc'[Node1] \in Entered
        /\ pc[Node2] \in Early <=> pc'[Node2] \in Early
        /\ pc[Node2] = "sleep" <=> pc'[Node2] = "sleep"
    BY <1>3, <2>2, <2>3, Node1IsThePeer DEF Moves
  <2>5. /\ Calm' = Calm /\ Arrived' = Arrived /\ Still' = Still /\ Travelling' = Travelling
        /\ UNCHANGED <<active, sender, served>>
    BY <2>1 DEF vars, handlerVars, peerVars, Calm, Arrived, Waiting, Discarding,
                OnlyMessages, Elements, Still, Travelling, Untouched
  <2> QED
    BY <1>9, <2>4, <2>5 DEF PlanInv, OnPlan
<1>10. CASE UNCHANGED <<testVars, hasty>>
  <2>1. UNCHANGED vars /\ UNCHANGED hasty /\ UNCHANGED pc
    BY <1>10 DEF testVars, runVars
  <2>2. /\ Calm' = Calm /\ Arrived' = Arrived /\ Still' = Still /\ Travelling' = Travelling
        /\ UNCHANGED <<active, sender, served>>
    BY <2>1 DEF vars, handlerVars, peerVars, Calm, Arrived, Waiting, Discarding,
                OnlyMessages, Elements, Still, Travelling, Untouched
  <2> QED
    BY <2>1, <2>2 DEF PlanInv, OnPlan
<1> QED
  BY <1>5, <1>6, <1>7, <1>8, <1>9, <1>10, TimeoutStepKinds

(* If the sleep is long enough and the socket sends, the handler does not die   *)
(* before it has served the WHOAREYOU and node 1's first request, whatever      *)
(* requests are sent again or given up.                                         *)
THEOREM TimeoutStartsAsPlanned ==
  ASSUME TestSetting, ScriptAwaitsWhoAreYou
  PROVE  TimeoutSpec => []ScriptStartsAsPlanned
<1> DEFINE Inv == TypeOK /\ RunInv(TimeoutLocations) /\ AskedType
<1>1. MockTestInit /\ hasty = FALSE => BarrierInv /\ PlanInv
  BY PlanStart
<1>2. Inv /\ Inv' /\ QueueInv /\ BarrierInv /\ PlanInv /\ [TimeoutNext]_<<testVars, hasty>>
        => (BarrierInv /\ PlanInv)'
  BY BarrierStep, PlanStep
<1>3. Inv /\ PlanInv => ScriptStartsAsPlanned
  <2> SUFFICES ASSUME Inv, PlanInv, ~hasty, sender = "running", handler = "panicked",
                      ~(Len(served) >= 2)
               PROVE  FALSE
    BY DEF ScriptStartsAsPlanned
  <2>1. Len(served) \in Nat
    BY LenProperties DEF TypeOK, HandlerTypeOK
  <2>2. Len(served) < 2
    BY <2>1
  <2> QED
    BY <2>2 DEF PlanInv, OnPlan, Calm
<1>4. Mode = "Sequential"
  BY DEF TestSetting
<1>5. ScriptInv => QueueInv
  BY DEF ScriptInv
<1>6. TimeoutSpec => []QueueInv
  BY <1>4, <1>5, TimeoutIsMockSystem, ScriptInvariance, PTL
<1> QED
  BY <1>1, <1>2, <1>3, <1>6, TimeoutInvariance, PTL DEF TimeoutSpec
================================================================================
