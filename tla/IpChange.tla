-------------------------------- MODULE IpChange --------------------------------
(* The ip-change test case, src/ip_change/mod.rs: all instances connect, node 1 *)
(* moves to an address that nobody uses while the others stay to observe it.    *)
(* Addresses are offsets in the subnet, time is counted in ticks.               *)
EXTENDS TestCase

CONSTANTS
  Node1,           \* the instance with sequence number 1
  SubnetSize,      \* the addresses of the data network
  DurationBefore,  \* the parameters duration_before and duration_after
  DurationAfter,
  Lag              \* ticks by which an instance may be late with a step that
                   \* it can take once all are connected

Connected == "state_completed_to_connect"
IpChanged == "ip_change"

(* Address 0 names the network, 1 is reserved by Testground (a comment in the   *)
(* code says so), the last one is the broadcast address.                        *)
Usable == 2..SubnetSize - 2

ASSUME IpChangeAssumption ==
  /\ Node1 \in Instances
  /\ States = {Configured, Connected, IpChanged}
  /\ SubnetSize \in Nat /\ Cardinality(Usable) > Cardinality(Instances)
  /\ DurationBefore \in Nat /\ DurationAfter \in Nat /\ Lag \in Nat
  /\ Lag < DurationBefore

Locations ==
  {"connect", "signal_connected", "await_connected", "before", "change",
   "await_change", "after"}

VARIABLES
  enr_ip,  \* by instance: the address in its ENR, where the test put it
  ip,      \* by instance: the address that it has
  timer,   \* by instance: what is left of its sleep
  late,    \* by instance: the ticks for which it could have gone on
  since    \* the ticks since node 1 has moved

testVars == <<enr_ip, ip, timer, late, since>>
vars == <<runVars, testVars>>

TypeOK ==
  /\ RunTypeOK(Locations)
  /\ enr_ip \in [Instances -> Usable]
  /\ ip \in [Instances -> 0..SubnetSize - 1]
  /\ timer \in [Instances -> 0..DurationBefore + DurationAfter]
  /\ late \in [Instances -> 0..Lag]
  /\ since \in 0..DurationAfter

Init ==
  /\ RunInit
  /\ enr_ip \in {f \in [Instances -> Usable] :
                   \A i, j \in Instances : i # j => f[i] # f[j]}
  /\ ip = enr_ip
  /\ timer = [i \in Instances |-> 0]
  /\ late = [i \in Instances |-> 0]
  /\ since = 0

OnTime(i) == late' = [late EXCEPT ![i] = 0]
Sleep(i, duration) == timer' = [timer EXCEPT ![i] = duration]
--------------------------------------------------------------------------------
(* Node 1 makes a request to every other node and ignores what becomes of it.   *)
Connect ==
  /\ Move(Node1, "connect", "signal_connected")
  /\ UNCHANGED testVars

SignalConnected(i) ==
  /\ SignalAt(i, "signal_connected", Connected, "await_connected")
  /\ UNCHANGED testVars

BeforeOfNode1(i) == IF i = Node1 THEN DurationBefore ELSE 0
Before(i) == DurationBefore

AwaitConnected(i) ==
  /\ AwaitAt(i, "await_connected", Connected, "before")
  /\ Sleep(i, Before(i)) /\ OnTime(i)
  /\ UNCHANGED <<enr_ip, ip, since>>

WakeToChange ==
  /\ timer[Node1] = 0
  /\ Move(Node1, "before", "change")
  /\ OnTime(Node1)
  /\ UNCHANGED <<enr_ip, ip, timer, since>>

WakeToWatch(i) ==
  /\ i # Node1 /\ timer[i] = 0
  /\ Move(i, "before", "after")
  /\ Sleep(i, DurationAfter) /\ OnTime(i)
  /\ UNCHANGED <<enr_ip, ip, since>>

(* change_ip: subnet.iter() without its first two addresses, and of the rest    *)
(* the first one that no participant has in its ENR.                            *)
SkipOne == 1..SubnetSize - 1
SkipTwo == 2..SubnetSize - 1

Unused == SkipTwo \ {enr_ip[p] : p \in participants[Node1]}
NewIp == CHOOSE a \in Unused : \A b \in Unused : a <= b

(* The sidecar configures the network and signals the callback state, of which  *)
(* one signal is enough.                                                        *)
ChangeIp ==
  /\ SignalAt(Node1, "change", IpChanged, "await_change")
  /\ ip' = [ip EXCEPT ![Node1] = NewIp]
  /\ OnTime(Node1)
  /\ UNCHANGED <<enr_ip, timer, since>>

AwaitChange ==
  /\ Reached(IpChanged, 1)
  /\ Move(Node1, "await_change", "after")
  /\ Sleep(Node1, DurationAfter) /\ OnTime(Node1)
  /\ UNCHANGED <<enr_ip, ip, since>>

(* There is no barrier at the end.                                              *)
RecordSuccess(i) ==
  /\ timer[i] = 0
  /\ Record(i, "after", "success")
  /\ OnTime(i)
  /\ UNCHANGED <<enr_ip, ip, timer, since>>

Test(i) ==
  \/ /\ Prelude(i, IF i = Node1 THEN "connect" ELSE "signal_connected")
     /\ UNCHANGED testVars
  \/ i = Node1 /\ (Connect \/ WakeToChange \/ ChangeIp \/ AwaitChange)
  \/ SignalConnected(i) \/ AwaitConnected(i) \/ WakeToWatch(i) \/ RecordSuccess(i)

(* Time goes on while no instance that can take its next step is late.          *)
Ready(i) ==
  \/ pc[i] = "await_connected" /\ Reached(Connected, Everyone)
  \/ pc[i] \in {"before", "after"} /\ timer[i] = 0
  \/ pc[i] \in {"change", "await_change"}

Moved == ip[Node1] # enr_ip[Node1]

Tick ==
  /\ \E i \in Instances : pc[i] \in {"await_connected", "before", "change",
                                     "await_change", "after"}
  /\ \A i \in Instances : Ready(i) => late[i] < Lag
  /\ late' = [i \in Instances |-> IF Ready(i) THEN late[i] + 1 ELSE 0]
  /\ timer' = [i \in Instances |-> IF timer[i] > 0 THEN timer[i] - 1 ELSE 0]
  /\ since' = IF Moved /\ since < DurationAfter THEN since + 1 ELSE since
  /\ UNCHANGED <<runVars, enr_ip, ip>>

Next == (\E i \in Instances : Test(i)) \/ Tick

Fairness == WF_vars(Tick) /\ \A i \in Instances : WF_vars(Test(i))

Spec == Init /\ [][Next]_vars /\ Fairness
--------------------------------------------------------------------------------
(* The address that node 1 moves to can be used and is nobody else's, wherever  *)
(* in the subnet the instances are.  Node 1 knows the addresses of all of them  *)
(* because it has collected all information; a subnet with less room would end  *)
(* in the broadcast address.                                                    *)
AddressesStayApart ==
  /\ \A i \in Instances : ip[i] \in Usable
  /\ \A i, j \in Instances : i # j => ip[i] # ip[j]

(* Without a barrier around it, the change is still seen: when node 1 moves,    *)
(* every other instance has begun to wait for it, and none leaves until         *)
(* duration_after less three delays (at the barrier, on waking, in the change)  *)
(* has passed.                                                                  *)
ChangeIsObserved ==
  Moved =>
    \A i \in Instances :
      /\ pc[i] \in {"before", "await_change", "after", "done"}
      /\ since < DurationAfter - 3 * Lag => Up(i)

(* Every instance ends by its own timers, with success.                         *)
EveryInstanceSucceeds == <>(\A i \in Instances : verdict[i] = "success")
================================================================================
