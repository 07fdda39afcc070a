-------------------------------- MODULE MCEclipse -------------------------------
(* Instances of Eclipse for TLC.                                                *)
EXTENDS Eclipse

Participants == {Victim, Honest} \cup Group
================================================================================
