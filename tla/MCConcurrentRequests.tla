-------------------------- MODULE MCConcurrentRequests --------------------------
(* Instances of ConcurrentRequests for TLC.                                     *)
EXTENDS ConcurrentRequests

CONSTANTS node1, node2
================================================================================
