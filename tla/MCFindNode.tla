------------------------------- MODULE MCFindNode -------------------------------
(* Instances of FindNode for TLC.                                               *)
EXTENDS FindNode

CONSTANTS n1, n2, n3
================================================================================
