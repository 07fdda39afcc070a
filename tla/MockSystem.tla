------------------------------- MODULE MockSystem -------------------------------
(* The mock node in its surroundings: its handler task, the two socket tasks of *)
(* src/mock/socket.rs, the scenario that holds the Mock, and the discv5 nodes   *)
(* that talk to it.  The discv5 nodes are the library under test, not part of   *)
(* this repository: they appear with what the mock can see of them, a request   *)
(* that is sent, answered to a WHOAREYOU, sent again after a timeout, given up. *)
EXTENDS MockHandler

CONSTANTS
  UdpCap,       \* datagrams that the mock's UDP socket buffers
  SendFails,    \* whether the operating system may refuse to send a datagram
  PeerBodies,   \* the requests that the peers make
  PeerEnrSeq,   \* the sequence number of a peer's record: 1 or more
  MaxRequests,  \* bound: requests per peer
  MaxRetries,   \* bound: retransmissions per request (request_retries of discv5)
  MaxRandoms    \* bound: random packets the scenario asks for

ASSUME SystemAssumption ==
  /\ UdpCap \in Nat \ {0} /\ SendFails \in BOOLEAN
  /\ PeerBodies \subseteq Requests /\ PeerEnrSeq \in Nat
  /\ MaxRequests \in Nat /\ MaxRetries \in Nat /\ MaxRandoms \in Nat

VARIABLES
  udp_in,        \* the datagrams in the mock's UDP receive buffer
  wire,          \* by peer: the packets on their way to it
  next_id,       \* by peer: the number of requests it has made
  active,        \* by peer: its requests that are neither answered nor given up
  peer_session,  \* by peer: the secret of its session with the mock, or None
  derived,       \* by peer: the secrets it has derived, in order
  randoms        \* random packets asked for so far

peerVars == <<next_id, active, peer_session, derived>>
vars == <<handlerVars, udp_in, wire, peerVars, randoms>>

(* An active request and the packet that carries it: sealed in a message or a   *)
(* handshake, or bytes without a key while there is no session.                 *)
ActiveRequests == [packet : InboundPackets, retries : 0..MaxRetries]

TypeOK ==
  /\ HandlerTypeOK
  /\ udp_in \in Seq(InboundPackets)
  /\ wire \in [Peers -> Seq(OutboundPackets)]
  /\ next_id \in [Peers -> Nat]
  /\ active \in [Peers -> SUBSET ActiveRequests]
  /\ peer_session \in [Peers -> Secrets \cup {None}]
  /\ derived \in [Peers -> Seq(Secrets)]
  /\ randoms \in Nat

Init ==
  /\ HandlerInit
  /\ udp_in = <<>>
  /\ wire = [p \in Peers |-> <<>>]
  /\ next_id = [p \in Peers |-> 0]
  /\ active = [p \in Peers |-> {}]
  /\ peer_session = [p \in Peers |-> None]
  /\ derived = [p \in Peers |-> <<>>]
  /\ randoms = 0
--------------------------------------------------------------------------------
(* The socket tasks.                                                            *)

(* A datagram is decoded and handed over when the channel has a place; once the *)
(* handler is gone it is dropped with a warning.                                *)
RecvHandler ==
  /\ udp_in # <<>>
  /\ udp_in' = Tail(udp_in)
  /\ \/ /\ handler = "running" /\ Len(recv_ch) < RecvCap
        /\ recv_ch' = Append(recv_ch, Head(udp_in))
     \/ handler = "panicked" /\ UNCHANGED recv_ch
  /\ UNCHANGED <<handler, behaviours, active_challenges, sessions,
                 captured_requests, turn, from_mock, send_ch, sender,
                 next_challenge, sent, served, wire, peerVars, randoms>>

SendHandler ==
  /\ sender = "running"
  /\ send_ch # <<>>
  /\ send_ch' = Tail(send_ch)
  /\ wire' = [wire EXCEPT ![Head(send_ch).dst] = Append(@, Head(send_ch))]
  /\ UNCHANGED <<handler, behaviours, active_challenges, sessions,
                 captured_requests, turn, from_mock, recv_ch, sender,
                 next_challenge, sent, served, udp_in, peerVars, randoms>>

(* The unwrap of send_to: the task dies, and its channel with what is in it.    *)
SendHandlerPanics ==
  /\ SendFails
  /\ sender = "running"
  /\ send_ch # <<>>
  /\ sender' = "panicked"
  /\ send_ch' = <<>>
  /\ UNCHANGED <<handler, behaviours, active_challenges, sessions,
                 captured_requests, turn, from_mock, recv_ch, next_challenge,
                 sent, served, udp_in, wire, peerVars, randoms>>

(* Mock::send_random_packet.  With the handler gone it only returns an error.   *)
SendRandomPacket(p) ==
  /\ handler = "running"
  /\ randoms < MaxRandoms
  /\ randoms' = randoms + 1
  /\ from_mock' = Append(from_mock, p)
  /\ UNCHANGED <<handler, behaviours, active_challenges, sessions,
                 captured_requests, turn, recv_ch, send_ch, sender,
                 next_challenge, sent, served, udp_in, wire, peerVars>>
--------------------------------------------------------------------------------
(* The discv5 nodes (external).                                                 *)

(* A datagram that meets a full receive buffer is lost.                         *)
Transmit(packet) ==
  udp_in' = IF Len(udp_in) < UdpCap THEN Append(udp_in, packet) ELSE udp_in

Packet(p, kind, id, ephem, enr, key, body) ==
  [src |-> p, kind |-> kind, id |-> id, ephem |-> ephem, enr |-> enr,
   key |-> key, body |-> body]

(* Without a session a request is announced by bytes that nobody can read.      *)
PeerSendsRequest(p, body) ==
  /\ next_id[p] < MaxRequests
  /\ LET id == [peer |-> p, n |-> next_id[p]]
         key == IF peer_session[p] = None THEN None
                ELSE InitiatorKey(peer_session[p])
         packet == Packet(p, "Message", id, 0, FALSE, key, body)
     IN  /\ active' = [active EXCEPT ![p] = @ \cup {[packet |-> packet, retries |-> 0]}]
         /\ Transmit(packet)
  /\ next_id' = [next_id EXCEPT ![p] = @ + 1]
  /\ UNCHANGED <<handlerVars, wire, peer_session, derived, randoms>>

(* Sent again as it is, a request that became a handshake as that handshake.    *)
PeerRetries(p, r) ==
  /\ r.retries < MaxRetries
  /\ active' = [active EXCEPT ![p] = (@ \ {r}) \cup {[r EXCEPT !.retries = @ + 1]}]
  /\ Transmit(r.packet)
  /\ UNCHANGED <<handlerVars, wire, next_id, peer_session, derived, randoms>>

(* With its last retry a request fails, and takes the session along.            *)
PeerGivesUp(p, r) ==
  /\ r.retries = MaxRetries
  /\ active' = [active EXCEPT ![p] = @ \ {r}]
  /\ peer_session' = [peer_session EXCEPT ![p] = None]
  /\ UNCHANGED <<handlerVars, udp_in, wire, next_id, derived, randoms>>

Arrives(p, kind) == wire[p] # <<>> /\ Head(wire[p]).kind = kind
Taken(p) == wire' = [wire EXCEPT ![p] = Tail(@)]

(* The request that the WHOAREYOU refers to goes out again inside a handshake.  *)
PeerReceivesWhoAreYou(p) ==
  /\ Arrives(p, "WhoAreYou")
  /\ Taken(p)
  /\ \E r \in active[p] :
       LET w == Head(wire[p])
           ephem == Len(derived[p])
           secret == [peer |-> p, challenge |-> w.challenge, ephem |-> ephem]
           packet == Packet(p, "Handshake", w.id, ephem, w.enr_seq < PeerEnrSeq,
                            InitiatorKey(secret), r.packet.body)
       IN  /\ r.packet.id = w.id /\ r.packet.kind = "Message"
           /\ active' = [active EXCEPT ![p] = (@ \ {r}) \cup {[r EXCEPT !.packet = packet]}]
           /\ derived' = [derived EXCEPT ![p] = Append(@, secret)]
           /\ peer_session' = [peer_session EXCEPT ![p] = secret]
           /\ Transmit(packet)
  /\ UNCHANGED <<handlerVars, next_id, randoms>>

(* A WHOAREYOU for a request already in a handshake fails that request and the  *)
(* session; one for no active request is ignored.                               *)
PeerRefusesWhoAreYou(p) ==
  /\ Arrives(p, "WhoAreYou")
  /\ Taken(p)
  /\ LET meant == {r \in active[p] : r.packet.id = Head(wire[p]).id}
     IN  /\ \A r \in meant : r.packet.kind = "Handshake"
         /\ active' = [active EXCEPT ![p] = @ \ meant]
         /\ peer_session' = [peer_session EXCEPT ![p] = IF meant = {} THEN @ ELSE None]
  /\ UNCHANGED <<handlerVars, udp_in, next_id, derived, randoms>>

Readable(p, response) ==
  peer_session[p] # None /\ response.key = RecipientKey(peer_session[p])

PeerReceivesResponse(p) ==
  /\ Arrives(p, "Response")
  /\ Readable(p, Head(wire[p]))
  /\ Taken(p)
  /\ active' = [active EXCEPT ![p] = {r \in @ : r.packet.id # Head(wire[p]).id}]
  /\ UNCHANGED <<handlerVars, udp_in, next_id, peer_session, derived, randoms>>

(* What a node cannot read it answers with a WHOAREYOU of its own.              *)
PeerReceivesUnreadable(p) ==
  /\ \/ Arrives(p, "Random")
     \/ Arrives(p, "Response") /\ ~Readable(p, Head(wire[p]))
  /\ Taken(p)
  /\ Transmit(Packet(p, "WhoAreYou", [peer |-> p, n |-> 0], 0, FALSE, None, "Ping"))
  /\ peer_session' = [peer_session EXCEPT ![p] = None]
  /\ UNCHANGED <<handlerVars, next_id, active, derived, randoms>>

PeerStep(p) ==
  \/ \E body \in PeerBodies : PeerSendsRequest(p, body)
  \/ \E r \in active[p] : PeerRetries(p, r) \/ PeerGivesUp(p, r)
  \/ PeerReceivesWhoAreYou(p) \/ PeerRefusesWhoAreYou(p)
  \/ PeerReceivesResponse(p) \/ PeerReceivesUnreadable(p)
--------------------------------------------------------------------------------
Handler == HandlerStep /\ UNCHANGED <<udp_in, wire, peerVars, randoms>>

Next ==
  \/ Handler
  \/ RecvHandler \/ SendHandler \/ SendHandlerPanics
  \/ \E p \in Peers : SendRandomPacket(p) \/ PeerStep(p)

(* The runtime polls each of the mock's three tasks again as long as it has     *)
(* something to do.  Nothing is assumed of the peers or of the scenario.        *)
Fairness ==
  /\ WF_vars(Handler)
  /\ WF_vars(RecvHandler)
  /\ WF_vars(SendHandler)

SafetySpec == Init /\ [][Next]_vars
Spec == SafetySpec /\ Fairness
--------------------------------------------------------------------------------
(* Correctness.                                                                 *)

(* The same key never seals two responses with the same counter.  A session is  *)
(* left with a counter of 0 (establish_session), so this takes the advance in   *)
(* encrypt_message and, across retransmitted handshakes, a challenge that is    *)
(* used up by the session it leads to.                                          *)
NonceNeverReused ==
  \A i, j \in DOMAIN sent :
    /\ i # j
    /\ sent[i].kind = "Response" /\ sent[j].kind = "Response"
    /\ sent[i].key = sent[j].key
    => sent[i].counter # sent[j].counter

(* The last WHOAREYOU sent to a peer can be answered, or has been: the mock     *)
(* still holds its challenge, or the peer's session came from it (send_challenge *)
(* overwrites, EstablishSession removes).                                       *)
LatestChallengeIsHeld ==
  \A i \in DOMAIN sent :
    LET p == sent[i].dst
        c == sent[i].challenge
    IN  /\ sent[i].kind = "WhoAreYou"
        /\ \A j \in DOMAIN sent :
             sent[j].kind = "WhoAreYou" /\ sent[j].dst = p => j <= i
        => \/ active_challenges[p] = c
           \/ sessions[p] # None /\ sessions[p].decryption_key.secret.challenge = c

(* No entry of the script establishes a session after it has challenged: its    *)
(* handshake would have been read under the challenge before.                   *)
EstablishesFirst(actions) ==
  \A j, k \in DOMAIN actions :
    actions[j].op = "SendWhoAreYou" /\ actions[k].op = "EstablishSession" => k < j

ScriptEstablishesFirst == \A i \in DOMAIN Script : EstablishesFirst(Script[i].actions)

(* A sequential mock only keeps a session whose keys its peer derived too: the  *)
(* handshake arm reads the handshake under the active challenge before the      *)
(* script's actions may establish the session.                                  *)
KeyAgreement ==
  Mode = "Sequential" =>
    \A p \in Peers : sessions[p] # None =>
      \E i \in DOMAIN derived[p] : derived[p][i] = sessions[p].decryption_key.secret

(* No two responses of a sequential mock answer the same request, and each one  *)
(* answers a request of the node it is sent to.  The ids come from the requests *)
(* captured so far, whoever they came from, by the fixed indices of the script. *)
EachRequestAnsweredOnce ==
  Mode = "Sequential" =>
    \A i, j \in DOMAIN sent :
      sent[i].kind = "Response" /\ sent[j].kind = "Response" =>
        /\ sent[i].id.peer = sent[i].dst
        /\ i # j => sent[i].id # sent[j].id

Captures(actions) == \E k \in DOMAIN actions : actions[k].op = "CaptureRequest"

Indices(actions) ==
  UNION {{actions[a].ids[k] : k \in DOMAIN actions[a].ids} : a \in DOMAIN actions}

ScriptIndices == UNION {Indices(Script[i].actions) : i \in DOMAIN Script}

(* No default response, no capturing index twice, and at most one capture.      *)
AnswersOnce(actions) ==
  /\ \A a \in DOMAIN actions : actions[a].op # "RespondDefault"
  /\ \A a, b \in DOMAIN actions :
       \A j \in DOMAIN actions[a].ids, k \in DOMAIN actions[b].ids :
         actions[a].ids[j] = actions[b].ids[k] => a = b /\ j = k
  /\ \A a, b \in DOMAIN actions :
       actions[a].op = "CaptureRequest" /\ actions[b].op = "CaptureRequest" => a = b

(* Once a request is captured from an ordinary message nothing more is.  It may *)
(* come again, as a message or, challenged, as a handshake.                     *)
CapturesLast(expect, actions, later) ==
  expect # "Handshake" /\ Captures(actions) => ~Captures(later)

QueueAnswersOnce(queue) ==
  /\ \A i \in DOMAIN queue : AnswersOnce(queue[i].actions)
  /\ \A i, j \in DOMAIN queue :
       /\ i # j => Indices(queue[i].actions) \cap Indices(queue[j].actions) = {}
       /\ i < j => CapturesLast(queue[i].expect.kind, queue[i].actions, queue[j].actions)

(* What a script has to be like for EachRequestAnsweredOnce to hold of a mock   *)
(* that talks to one node, as the sandbox's does.                               *)
ScriptAnswersOnce == QueueAnswersOnce(Script) /\ \E p \in Peers : Peers = {p}

(* The work in the mock's channels and in its hands is done again and again,    *)
(* whichever of its tasks has died: no send awaits a place for ever.            *)
BacklogDrains ==
  []<>(udp_in = <<>> /\ recv_ch = <<>> /\ send_ch = <<>> /\ turn = None)

(* The kinds of the packets that an action answers with.                        *)
AnswersOf(action) ==
  CASE action.op = "SendWhoAreYou"  -> <<"WhoAreYou">>
    [] action.op = "RespondDefault" -> <<"Response">>
    [] action.op = "RespondCustom"  -> [j \in DOMAIN action.ids |-> "Response"]
    [] OTHER                        -> <<>>

(* What the turn still has to send: all that is called for by the actions after *)
(* the one at hand, and what is left of this one.                               *)
StillDue ==
  IF turn = None THEN {}
  ELSE LET entry == Script[Len(served)].actions
           done == Len(entry) - Len(turn.actions)
           left == Len(AnswersOf(Head(turn.actions)))
           Given(a) == IF a = done + 1 THEN Len(AnswersOf(entry[a])) - left ELSE 0
       IN  UNION {{a} \X {k \in DOMAIN AnswersOf(entry[a]) : k > Given(a)} :
                    a \in {b \in DOMAIN entry : b > done}}

Scripted == INSTANCE ScriptedPeer
  WITH Answers <- [i \in DOMAIN Script |->
                     [a \in DOMAIN Script[i].actions |-> AnswersOf(Script[i].actions[a])]],
       due <- StillDue,
       out <- [i \in DOMAIN sent |-> [dst |-> sent[i].dst, kind |-> sent[i].kind]],
       alive <- (handler = "running")

(* A sequential mock implements the peer that its script describes, and gives   *)
(* every answer in the end unless it dies.                                      *)
ImplementsScript == Scripted!SafetySpec
GivesItsAnswers == Scripted!Fairness
================================================================================
