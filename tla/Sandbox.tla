--------------------------------- MODULE Sandbox ---------------------------------
(* The sandbox test case as it stands, src/sandbox/mod.rs, with one mock: two   *)
(* PINGs in parallel, which the mock's script answers one after the other.      *)
EXTENDS MockTest

SandboxLocations ==
  {"started", "await_started", "join", "finished", "await_finished", "record"}

SandboxTypeOK == TestTypeOK(SandboxLocations)
--------------------------------------------------------------------------------
(* One error is enough for a failure, whichever handle it came from.            *)
SomeSucceeded == failed # asked
Succeeded == failed = {}

RecordOutcome(n) ==
  /\ Record(n, "record", IF n = Node2 \/ Succeeded THEN "success" ELSE "failure")
  /\ TestOnly

(* Node 1 sleeps before it signals the end, so that stray packets do not meet   *)
(* an ended mock.                                                               *)
SandboxTest(n) ==
  \/ Prelude(n, "started") /\ TestOnly
  \/ SignalStarted(n) \/ AwaitStarted(n, IF n = Node1 THEN "join" ELSE "finished")
  \/ n = Node1 /\ (AskRequest("Ping") \/ JoinRequests("finished"))
  \/ SignalFinished(n) \/ AwaitFinished(n) \/ RecordOutcome(n)

SandboxNext == Surroundings \/ \E n \in Instances : SandboxTest(n)

(* Every test is a task that goes on whenever it can.                           *)
SandboxSpec ==
  /\ MockTestInit /\ [][SandboxNext]_testVars
  /\ SurroundingsFairness /\ \A n \in Instances : WF_testVars(SandboxTest(n))
--------------------------------------------------------------------------------
(* What a script has to be like for that success to mean anything: it answers   *)
(* the first request that it captures and the second, and has not ended before. *)
ScriptAnswersTheTest ==
  /\ ScriptAnswersOnce
  /\ ScriptIndices = 0 .. (Parallel - 1)
  /\ Script # <<>> /\ Indices(Script[Len(Script)].actions) # {}

(* Success at node 1 means that its two PINGs, and no PING of discv5's own,     *)
(* are what the mock's script served, each with a response of its own.          *)
SuccessMeansScriptServed ==
  verdict[Node1] = "success" =>
    /\ behaviours = <<>>
    /\ asked = {sent[i].id : i \in {j \in DOMAIN sent : sent[j].kind = "Response"}}

(* The test ends on both instances, whatever becomes of the PINGs, the handler  *)
(* or the mock's SendHandler; the mock's instance always reports success.       *)
SandboxEnds == <>(verdict[Node1] # "none" /\ verdict[Node2] = "success")
================================================================================
