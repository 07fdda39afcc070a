------------------------------- MODULE MCEnrUpdate ------------------------------
(* Instances of EnrUpdate for TLC.                                              *)
EXTENDS EnrUpdate

CONSTANTS n1, n2, n3, n4
================================================================================
