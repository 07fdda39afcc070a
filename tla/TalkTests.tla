-------------------------------- MODULE TalkTests --------------------------------
(* The two test cases in which one plain discv5 node sends TALK requests to     *)
(* another.  All instances of a run are given the same test case, and main.rs   *)
(* dispatches on its name.                                                      *)
EXTENDS BeforeEstablishing

CONSTANT TheRequest  \* the only request of the talk test case

VARIABLE test_case

suiteVars == <<vars, test_case>>

SimpleTalk == INSTANCE Talk WITH Requests <- {TheRequest}

ASSUME TalkTestsAssumption == {SimpleTalk!Ready, SimpleTalk!Finished} \subseteq States

IsTalk == test_case = "talk"
IsBeforeEstablishing == test_case = "concurrent-requests_before-establishing-session"

SuiteTypeOK ==
  /\ IsTalk \/ IsBeforeEstablishing
  /\ IsTalk => SimpleTalk!TypeOK
  /\ IsBeforeEstablishing => TypeOK

SuiteInit ==
  \/ test_case = "talk" /\ SimpleTalk!Init /\ req_count = 0
  \/ test_case = "concurrent-requests_before-establishing-session" /\ Init

RunsTalk(step) == IsTalk /\ step /\ UNCHANGED <<req_count, test_case>>
RunsBeforeEstablishing(step) ==
  IsBeforeEstablishing /\ step /\ UNCHANGED test_case

SuiteNext ==
  \/ RunsTalk(SimpleTalk!Next)
  \/ RunsBeforeEstablishing(Next)

(* As in each of the two.                                                       *)
SuiteFairness ==
  /\ \A n \in Instances :
       /\ WF_suiteVars(RunsTalk(SimpleTalk!Test(n)))
       /\ WF_suiteVars(RunsBeforeEstablishing(Test(n)))
  /\ WF_suiteVars(RunsTalk(SimpleTalk!Discv5Delivers))
  /\ WF_suiteVars(RunsBeforeEstablishing(Discv5Delivers))
  /\ WF_suiteVars(RunsTalk(SimpleTalk!Discv5TimesOut(TheRequest)))
  /\ \A r \in Requests : WF_suiteVars(RunsBeforeEstablishing(Discv5TimesOut(r)))

SuiteSpec == SuiteInit /\ [][SuiteNext]_suiteVars /\ SuiteFairness
--------------------------------------------------------------------------------
(* Success at node 1 of the talk test case stands for a request that node 2     *)
(* took from its stream and answered.                                           *)
TalkSucceedsTruly == IsTalk => SimpleTalk!SuccessMeansTalk

(* Both nodes of the talk test case end with success if the request finds the   *)
(* event stream and its answer is in time.                                      *)
TalkEnds == IsTalk => SimpleTalk!HeardRequestSucceeds

(* Success in the other test case is recorded only after the whole exchange.    *)
ExchangeSucceedsTruly == IsBeforeEstablishing => SuccessAfterExchange

(* And it ends on both nodes if no request outruns the event stream.            *)
ExchangeEnds == IsBeforeEstablishing => HeardRequestsEndTheTest
================================================================================
