--------------------------- MODULE MCWhoAreYouTimeout ---------------------------
(* Instances of WhoAreYouTimeout for TLC, with the script that the test gives   *)
(* its mock.                                                                    *)
EXTENDS WhoAreYouTimeout

CONSTANTS node1, node2

On(kind, request, ops) ==
  [expect |-> [kind |-> kind, request |-> request],
   actions |-> [i \in DOMAIN ops |-> [op |-> ops[i], ids |-> <<>>]]]

(* src/concurrent_requests/whoareyou_timeout.rs, run_mock.                      *)
TestScript ==
  << On("WhoAreYou", None, <<"Ignore">>),
     On("MessageWithoutSession", None, <<"SendWhoAreYou">>),
     On("MessageWithoutSession", None, <<"Ignore">>),
     On("Handshake", "FindNode", <<"EstablishSession", "Ignore">>) >>

NoTable == [class \in Classes |-> <<>>]

(* What the theorems on KeyAgreement and ScriptStartsAsPlanned assume of a      *)
(* script.                                                                      *)
ASSUME ScriptAgrees == ScriptEstablishesFirst
ASSUME ScriptAwaits == ScriptAwaitsWhoAreYou

(* What the theorems on the test assume of its instances.                       *)
ASSUME SettingHolds == TestSetting
================================================================================
