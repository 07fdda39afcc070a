--------------------------------- MODULE MCMock ---------------------------------
(* Instances of MockSystem for TLC: the scripts of the scenarios, and a table   *)
(* of declarative behaviours.                                                   *)
EXTENDS MockSystem

CONSTANTS p1, p2

Do(op) == [op |-> op, ids |-> <<>>]
RespondCustom(ids) == [op |-> "RespondCustom", ids |-> ids]
On(kind, request, actions) ==
  [expect |-> [kind |-> kind, request |-> request], actions |-> actions]

(* A script that challenges twice, either the same node again or both nodes,    *)
(* gives two responses to one request (as in the commented-out script of        *)
(* src/sandbox/mod.rs), and a default response.                                 *)
RechallengeScript ==
  << On("MessageWithoutSession", None, <<Do("SendWhoAreYou")>>),
     On("MessageWithoutSession", None, <<Do("SendWhoAreYou")>>),
     On("Handshake", "Ping",
        <<Do("EstablishSession"), Do("CaptureRequest"), RespondCustom(<<0, 0>>)>>),
     On("Handshake", "Ping", <<Do("EstablishSession"), Do("RespondDefault")>>) >>

NoScript == <<>>

(* A table that challenges every message and answers what it can, so that       *)
(* sessions come and go.                                                        *)
AnsweringTable ==
  [whoareyou               |-> <<Do("Ignore")>>,
   handshake               |-> <<Do("EstablishSession"), Do("RespondDefault")>>,
   message                 |-> <<Do("SendWhoAreYou"), Do("RespondDefault")>>,
   message_without_session |-> <<Do("SendWhoAreYou")>>]

(* The unused table of src/sandbox/mod.rs.                                      *)
SandboxTable ==
  [whoareyou               |-> <<>>,
   handshake               |-> <<Do("Ignore")>>,
   message                 |-> <<Do("SendWhoAreYou")>>,
   message_without_session |-> <<Do("SendWhoAreYou")>>]

(* What the theorem on KeyAgreement assumes of a script.                        *)
ASSUME ScriptAgrees == ScriptEstablishesFirst
================================================================================
