------------------------------- MODULE MCTalkTests -------------------------------
(* Instances of TalkTests for TLC.                                              *)
EXTENDS TalkTests

CONSTANTS node1, node2
================================================================================
