-------------------------- MODULE MCBeforeEstablishing --------------------------
(* Instances of BeforeEstablishing for TLC.                                     *)
EXTENDS BeforeEstablishing

CONSTANTS node1, node2
================================================================================
