--------------------------------- MODULE Eclipse --------------------------------
(* The eclipse test case, src/eclipse/mod.rs: attackers whose node ids fall     *)
(* into one bucket of the victim's routing table try to fill it before the      *)
(* victim adds an honest node.  An instance is its group and its number in it.  *)
EXTENDS TestCase

CONSTANTS
  Attackers,  \* the number of attackers (18)
  BucketSize  \* the entries of a bucket (16 in discv5)

Victim == <<"victim", 1>>
Honest == <<"honest", 1>>
Group == {"attackers"} \X (1..Attackers)

Collect == "completed_to_collect"
AttackersSentQuery == "attackers_sent_query"
Done == "done"

ASSUME EclipseAssumption ==
  /\ Attackers \in Nat /\ Instances = {Victim, Honest} \cup Group
  /\ States = {Configured, Collect, AttackersSentQuery, Done}
  /\ BucketSize \in Nat \ {0}

Locations ==
  {"signal_collect", "await_collect", "await_attack", "add_honest", "attack",
   "query", "signal_sent", "signal_done", "await_done", "record"}

VARIABLES
  incoming_bucket_limit,  \* the parameter of the run
  bucket,    \* the keys in the bucket of the victim's table that all fall into
  arriving,  \* the attackers whose handshake is on its way to the victim
  result,    \* the victim: whether add_enr failed
  missed     \* history: some query ended without having reached the victim

testVars == <<incoming_bucket_limit, bucket, arriving, result, missed>>
vars == <<runVars, testVars>>

(* generate_deterministic_keypair makes 20 keys; each instance takes the one at *)
(* its place: the victim, the honest node, then the attackers.                  *)
Offset(role) == CASE role = "victim" -> 0 [] role = "honest" -> 1 [] OTHER -> 2
OffsetOfVictimOnly(i) == i[2] + (IF i[1] = "victim" THEN 0 ELSE 1) - 1
OffsetFromOne(i) == i[2] + Offset(i[1])
Key(i) == i[2] + Offset(i[1]) - 1

DefaultLimit == BucketSize
IncomingLimit == incoming_bucket_limit

TypeOK ==
  /\ RunTypeOK(Locations)
  /\ incoming_bucket_limit \in 1..BucketSize
  /\ bucket \in SUBSET (0..Attackers + 1)
  /\ arriving \in SUBSET Group
  /\ result \in {"none", "ok", "table_full"}
  /\ missed \in BOOLEAN

Init ==
  /\ RunInit
  /\ incoming_bucket_limit \in 1..BucketSize
  /\ bucket = {} /\ arriving = {} /\ result = "none" /\ missed = FALSE
--------------------------------------------------------------------------------
(* collect_instance_info asserts one victim, one honest node and 18 attackers.  *)
CollectedGroups(i) ==
  /\ Victim \in participants[i] /\ Honest \in participants[i]
  /\ Cardinality(participants[i] \cap Group) = Attackers

SignalCollected(i) ==
  /\ IF CollectedGroups(i)
     THEN SignalAt(i, "signal_collect", Collect, "await_collect")
     ELSE Move(i, "signal_collect", "exited")
  /\ UNCHANGED testVars

(* Play the role.                                                               *)
AwaitCollected(i) ==
  /\ AwaitAt(i, "await_collect", Collect,
             CASE i = Victim -> "await_attack"
               [] i = Honest -> "signal_done"
               [] OTHER      -> "attack")
  /\ UNCHANGED testVars

(* play_attacker adds the victim's ENR to an empty table, which cannot fail,    *)
(* and queries.  Its first packets lead to a handshake with the victim.         *)
Attack(a) ==
  /\ Move(a, "attack", "query")
  /\ arriving' = arriving \cup {a}
  /\ UNCHANGED <<incoming_bucket_limit, bucket, result, missed>>

(* The query ends when the victim has answered, and so has seen the handshake,  *)
(* or without it; an error is only noted.                                       *)
QueryEnds(a) ==
  /\ Move(a, "query", "signal_sent")
  /\ missed' = (missed \/ a \in arriving)
  /\ UNCHANGED <<incoming_bucket_limit, bucket, arriving, result>>

(* A signal that the attacker itself does not wait on.                          *)
SignalSent(a) ==
  /\ SignalAt(a, "signal_sent", AttackersSentQuery, "signal_done")
  /\ UNCHANGED testVars

AllButOneAttacker == Cardinality(participants[Victim] \cap Group) - 1
AttackersLen == Cardinality(participants[Victim] \cap Group)

(* play_victim: the barrier, and add_enr of the honest node.                    *)
AwaitAttack ==
  /\ Reached(AttackersSentQuery, AttackersLen)
  /\ Move(Victim, "await_attack", "add_honest")
  /\ UNCHANGED testVars

AddHonest ==
  /\ Move(Victim, "add_honest", "signal_done")
  /\ IF Key(Honest) \in bucket \/ Cardinality(bucket) < BucketSize
     THEN bucket' = bucket \cup {Key(Honest)} /\ result' = "ok"
     ELSE UNCHANGED bucket /\ result' = "table_full"
  /\ UNCHANGED <<incoming_bucket_limit, arriving, missed>>

SignalDone(i) ==
  /\ SignalAt(i, "signal_done", Done, "await_done")
  /\ UNCHANGED testVars

AwaitDone(i) ==
  /\ AwaitAt(i, "await_done", Done, "record")
  /\ UNCHANGED testVars

RecordResult(i) ==
  /\ Record(i, "record", IF i = Victim /\ result = "table_full" THEN "failure" ELSE "success")
  /\ UNCHANGED testVars

Step(i) ==
  \/ Prelude(i, "signal_collect") /\ UNCHANGED testVars
  \/ SignalCollected(i) \/ AwaitCollected(i)
  \/ i \in Group /\ (Attack(i) \/ QueryEnds(i) \/ SignalSent(i))
  \/ i = Victim /\ (AwaitAttack \/ AddHonest)
  \/ SignalDone(i) \/ AwaitDone(i) \/ RecordResult(i)
--------------------------------------------------------------------------------
(* The victim's discv5 (external): an attacker that has shaken hands enters the *)
(* bucket as an incoming node, up to the limit of those and to the bucket's.    *)
Incoming == bucket \ {Key(Honest)}

Handshake(a) ==
  /\ a \in arriving /\ Up(Victim)
  /\ arriving' = arriving \ {a}
  /\ bucket' = IF Cardinality(Incoming) < IncomingLimit /\ Cardinality(bucket) < BucketSize
               THEN bucket \cup {Key(a)} ELSE bucket
  /\ UNCHANGED <<runVars, incoming_bucket_limit, result, missed>>

Next ==
  \/ \E i \in Instances : Step(i)
  \/ \E a \in Group : Handshake(a)

(* The instances run on, and the handshakes arrive.                             *)
Fairness ==
  /\ \A i \in Instances : WF_vars(Step(i))
  /\ \A a \in Group : WF_vars(Handshake(a))

Spec == Init /\ [][Next]_vars /\ Fairness
--------------------------------------------------------------------------------
(* The victim adds the honest node only when the query of every attacker has    *)
(* ended, and while every attacker is still there: the victim's barrier counts  *)
(* signals, one for each attacker that it has collected, and none signals twice.*)
VictimLooksLast ==
  pc[Victim] = "add_honest" =>
    \A a \in Group : pc[a] \in {"signal_done", "await_done"}

(* README: success when the incoming nodes per bucket are limited, "Table full" *)
(* and failure when they may fill the bucket.  The victim's outcome depends on  *)
(* the parameter alone, in whatever order the attackers arrive, as long as      *)
(* their queries reach the victim.                                              *)
OutcomeTellsVulnerability ==
  ~missed /\ verdict[Victim] # "none" =>
    (verdict[Victim] = "failure" <=>
       Attackers >= BucketSize /\ incoming_bucket_limit = BucketSize)

(* Whatever becomes of the queries, the test ends on every instance: the        *)
(* attackers signal before they wait for the victim, which waits for them.      *)
EveryInstanceRecords == <>(\A i \in Instances : verdict[i] # "none")
================================================================================
