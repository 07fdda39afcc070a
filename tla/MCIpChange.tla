------------------------------- MODULE MCIpChange -------------------------------
(* Instances of IpChange for TLC.                                               *)
EXTENDS IpChange

CONSTANTS n1, n2, n3
================================================================================
