------------------------------ MODULE MockSession ------------------------------
(* The session keys of the mock node: src/mock/session.rs, src/mock/crypto.rs   *)
(* and src/mock/ecdh.rs.                                                        *)
(*                                                                              *)
(* Cryptography is symbolic.  Two keys are equal exactly when they were derived *)
(* from the same inputs, and a message opens under a key exactly when it was    *)
(* sealed under that key.  The 12-byte message nonce is reduced to its first    *)
(* four bytes, the session counter; the random rest only adds to uniqueness.    *)
EXTENDS Naturals

CONSTANTS
  Peers,  \* the remote nodes, each with one socket address and one node id
  None    \* the value of an Option that holds nothing

(* What HKDF mixes into a session's keys: the two node ids (the mock's own is   *)
(* fixed), the id-nonce of the WHOAREYOU packet and the remote ephemeral key.   *)
Secrets == [peer : Peers, challenge : Nat, ephem : Nat]

Keys == [role : {"initiator", "recipient"}, secret : Secrets]

(* HKDF expands a secret into one key for each direction.                       *)
InitiatorKey(secret) == [role |-> "initiator", secret |-> secret]
RecipientKey(secret) == [role |-> "recipient", secret |-> secret]

Session == [encryption_key : Keys, decryption_key : Keys, counter : Nat]

ASSUME NoneAssumption == None \notin Nat \cup Session \cup Keys

(* The mock answers handshakes, so it is always the recipient.                  *)
EstablishFromChallenge(peer, challenge, ephem) ==
  LET secret == [peer |-> peer, challenge |-> challenge, ephem |-> ephem]
  IN  [encryption_key |-> RecipientKey(secret),
       decryption_key |-> InitiatorKey(secret),
       counter        |-> 0]

(* encrypt_message advances the counter before it takes a nonce from it.  The   *)
(* counter is a u32 that no run of the program brings near its limit, so it is  *)
(* left unbounded here.                                                         *)
Advanced(session) == [session EXCEPT !.counter = @ + 1]

(* decrypt_message succeeds on what was sealed under the decryption key.        *)
Opens(session, packet) == packet.key = session.decryption_key
================================================================================
