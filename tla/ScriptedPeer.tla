------------------------------ MODULE ScriptedPeer ------------------------------
(* What a sequential mock promises the scenario that scripts it: it serves the  *)
(* packets that the script expects one at a time, answers each of them with     *)
(* exactly the packets that the script's actions call for, in that order and to *)
(* its source, before it does anything else, and never does anything after it   *)
(* has met what the script does not foresee.                                    *)
EXTENDS Naturals, Sequences

CONSTANTS
  Peers,   \* the nodes that may talk to the mock
  Answers  \* by entry of the script and action: the kinds of the packets to send

VARIABLES
  served,  \* the sources of the packets served so far
  due,     \* the answers that the last of them is still to get
  out,     \* the packets sent so far
  alive    \* FALSE once the mock has given up

vars == <<served, due, out, alive>>

(* An answer is named by the action that calls for it and its number there.     *)
Due(actions) == UNION {{a} \X DOMAIN actions[a] : a \in DOMAIN actions}
Before(s, t) == s[1] < t[1] \/ (s[1] = t[1] /\ s[2] < t[2])

Init == served = <<>> /\ due = {} /\ out = <<>> /\ alive = TRUE

Serve(p) ==
  /\ alive
  /\ due = {}
  /\ Len(served) < Len(Answers)
  /\ served' = Append(served, p)
  /\ due' = Due(Answers[Len(served) + 1])
  /\ UNCHANGED <<out, alive>>

Reply ==
  /\ alive
  /\ \E s \in due :
       /\ \A t \in due \ {s} : Before(s, t)
       /\ due' = due \ {s}
       /\ out' = Append(out, [dst  |-> served[Len(served)],
                              kind |-> Answers[Len(served)][s[1]][s[2]]])
  /\ UNCHANGED <<served, alive>>

(* A random packet, which the scenario asks for and no packet calls for.        *)
Volunteer(p) ==
  /\ alive
  /\ due = {}
  /\ out' = Append(out, [dst |-> p, kind |-> "Random"])
  /\ UNCHANGED <<served, due, alive>>

(* What is still due dies with the mock.                                        *)
Die == alive /\ alive' = FALSE /\ due' = {} /\ UNCHANGED <<served, out>>

Next == (\E p \in Peers : Serve(p) \/ Volunteer(p)) \/ Reply \/ Die

SafetySpec == Init /\ [][Next]_vars

(* A living mock does not keep an answer that is due to itself for ever.        *)
Fairness == WF_vars(Reply)

Spec == SafetySpec /\ Fairness
================================================================================
