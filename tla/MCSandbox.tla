-------------------------------- MODULE MCSandbox --------------------------------
(* Instances of Sandbox for TLC, with the script that the test gives its mock.  *)
EXTENDS Sandbox

CONSTANTS node1, node2

Do(op) == [op |-> op, ids |-> <<>>]
On(kind, request, actions) ==
  [expect |-> [kind |-> kind, request |-> request], actions |-> actions]
RespondTo(index) == [op |-> "RespondCustom", ids |-> <<index>>]

(* src/sandbox/mod.rs, run_mock.                                                *)
TestScript ==
  << On("MessageWithoutSession", None, <<Do("SendWhoAreYou")>>),
     On("Handshake", "Ping",
        <<Do("EstablishSession"), Do("CaptureRequest"), RespondTo(0)>>),
     On("Message", "Ping", <<Do("CaptureRequest"), RespondTo(1)>>) >>

NoTable == [class \in Classes |-> <<>>]

(* What the theorems on KeyAgreement, on EachRequestAnsweredOnce and on         *)
(* SuccessMeansScriptServed assume of a script.                                 *)
ASSUME ScriptAgrees == ScriptEstablishesFirst
ASSUME ScriptAnswers == ScriptAnswersTheTest

(* What the theorems on the test assume of its instances.                       *)
ASSUME SettingHolds == TestSetting
================================================================================
