# Verification of discv5-testground

This directory holds TLA+ modules for [discv5-testground](../src/README.md), a Testground
test plan for the Rust implementation of Discovery v5, together with the TLC instances that
check them and the TLAPS proofs about them. `PROJECT.json` names, for every definition, the
lines of the program that it stands for. Paths below are relative to `src/src/`.

Check an instance with `tlc -config Sandbox.cfg MCSandbox`, the proofs of a module with
`tlapm EclipseProofs.tla`.

## 1. The system

One binary runs every test case. Each Testground instance is a process that configures its
network (`main.rs`), publishes what others need to know of it, runs one test case from top to
bottom, and reports an outcome. Instances meet in two ways: through Testground's sync service
(signals counted by state, barriers, one topic) and through UDP, by way of `discv5` (the library
under test) or of a *mock* node that this repository implements itself.

| component | state | operations | what makes it correct |
|---|---|---|---|
| **mock handler** `mock/handler.rs` | active challenges, sessions, captured requests, the rest of the script | take a request of the scenario, take a packet; ignore, challenge, establish, capture, respond; panic | it does what its behaviours say, in order; never reuses a nonce; its keys agree with the peer's |
| **mock session, crypto** `mock/session.rs`, `crypto.rs`, `ecdh.rs` | two keys and a counter | derive from a challenge, encrypt, decrypt | one counter value per key and message |
| **mock socket** `mock/socket.rs` | two channels of 30, a UDP socket | receive, send | no packet and no task waits for ever |
| **mock interface** `mock/mod.rs` | a channel to the handler | start, send a random packet; the behaviours | - |
| **publish and collect** `utils.rs` | one topic | publish, collect as many entries as there are instances | whoever collects knows everyone, and goes on |
| **main** `main.rs` | a barrier of its own | configure, dispatch, report | - |
| **find-node** `find_node/mod.rs` | table, targets, outcome | three barriers, build a star, query | queries run only while the star stands |
| **before-establishing-session** `concurrent_requests/before_establishing_session.rs` | requests, event stream, count | two barriers, two parallel requests, an event loop | it ends, and outcomes follow the exchange |
| **talk** `talk/mod.rs` | one request, an event stream | two barriers, TALK request and response | the request is heard, success means that it was answered |
| **whoareyou-timeout** `concurrent_requests/whoareyou_timeout.rs` | the mock's script, barriers | one discv5 node, one mock | the script meets its packets as planned; the test ends whatever becomes of the mock |
| **sandbox** `sandbox/mod.rs` | the mock's script, barriers | one discv5 node, one or two mocks | success means that the script was served |
| **concurrent-requests** `concurrent_requests/mod.rs` | sleeps, requests | two barriers, parallel requests after a sleep | the requests meet an expired session and a node that is up |
| **eclipse** `eclipse/mod.rs` | roles, keys, the victim's table | attackers attack and signal, the victim looks, the others wait | the outcome tells whether the victim can be eclipsed |
| **enr-update** `enr_update/` | event task, oneshot channel | connect, wait for the new socket address | the update reaches the test however early it comes |
| **ip-change** `ip_change/` | addresses, sleeps | pick an unused address, move, watch | the address is free, and everyone is there to see the change |
| manifest, compositions, CI, Docker | - | - | not modelled |

Interaction: a scenario calls the mock through an unbounded channel (`Mock::send_random_packet`).
The handler task owns all of the mock's tables and handles one packet, with all its actions, at
a time; it is fed by `RecvHandler` and feeds `SendHandler` through bounded channels. Test cases
know of each other only by the sync service and by what discv5 delivers. A test case that ends,
by an outcome, a `?` or a panic, takes its process and so its discv5 node or its mock with it.

What is hard here:

* **concurrency**: three tasks per mock, several processes per test, requests sent in parallel;
  an `await` in the middle of a list of actions;
* **ordering**: event streams that open after the barrier that lets the other side send,
  scripts that expect packets in one order, challenges that overwrite each other, instances that
  have nothing left to do but must not leave;
* **timeouts and retries**: discv5 retransmits requests and handshakes; sleeps stand for events
  that nothing waits for;
* **failure**: an `unwrap`, `expect`, `todo!` or `panic!` kills one task of the mock, while its
  process and its test case go on; a `?` or a panic in a test case ends an instance on which
  others wait at a barrier.

Testground is asked for no loss, no reordering and no duplication (`main.rs`, 45-53). The
models follow that on the wire; datagrams are lost only at a full receive buffer, and repeated
only because discv5 repeats them.

## 2. Modules

| module | models | state |
|---|---|---|
| `MockSession` | `session.rs`, `crypto.rs`, `ecdh.rs` | none: keys and sessions as values |
| `MockHandler` | `handler.rs` | the handler's tables, the turn in progress, its channels |
| `MockSystem` | `socket.rs`, `Mock`, the mock's discv5 peers | receive buffer, wires, requests of the peers |
| `ScriptedPeer` | abstract: what a sequential mock promises | packets served, answers due, answers given |
| `Sync` | the sync service and `publish_and_collect` | signals, topic |
| `TestCase` | `main.rs`: what every test case begins and ends with | a program counter per instance, participants, outcomes |
| `FindNode` | `find_node/mod.rs` | tables, targets |
| `TalkRequests` | TALK requests between two discv5 nodes | requests, their packets, the event stream |
| `BeforeEstablishing`, `Talk` | the two test cases with TALK requests | a count of events |
| `TalkTests` | both of them, dispatched on by name | the name of the test case |
| `ConcurrentRequests` | `concurrent_requests/mod.rs` | sleeps, the age of a session, requests |
| `Eclipse` | `eclipse/mod.rs` | the bucket of the victim, the handshakes to come |
| `EnrUpdate` | `enr_update/mod.rs` | event task, oneshot channel, votes |
| `IpChange` | `ip_change/mod.rs` | addresses, sleeps |
| `MockTest` | what the two test cases with a mock share: `MockSystem` and `TestCase` composed | requests of the test, their errors |
| `WhoAreYouTimeout`, `Sandbox` | the two test cases with a mock | - |
| `MC...` | instances for TLC | - |
| `TestCaseProofs` | lemmas about `Sync` and `TestCase` | - |
| `MockProofs` | theorems about `MockSystem`, and about `Sandbox` and `WhoAreYouTimeout`, which run it | - |
| `TalkTestsProofs` | theorems about both test cases with TALK requests | - |
| `FindNodeProofs`, `EnrUpdateProofs`, `ConcurrentRequestsProofs`, `EclipseProofs`, `IpChangeProofs` | theorems about the modules they are named for | - |

**MockHandler.** `handler.rs` is one task, and a packet is handled in one call chain, but the
sends inside it are `await`s: other tasks run while one of them waits. The chain is therefore
cut at its actions. `ProcessDeclarative` and `ProcessSequential` take a packet from the channel
and set `turn` to the packet and its actions; each action of `do_actions` (`SendChallenge`,
`EstablishSession`, ...) is one step that ends by moving `turn` on; `Idle` is the `select!` of
`start`, which is reached only when no turn is under way. A custom response sends several
packets and takes one step for each. Everything that can panic does: `RejectSequential` gathers
the checks made before the actions (a packet of an unexpected kind, an empty script, a
handshake without an active challenge or a record, a message that does not open, another
request than expected), and `ActionPanics` those of the actions. A panic drops the handler with
the receiving ends of its channels, and nothing else.

`Mode`, `Declarative` and `Script` are constants, so what is checked for one script is stated,
and proved, for all of them. `sent` and `served` are history variables.

**MockSession.** Keys are symbolic: a key is the record of what HKDF derives it from, and a
message opens under exactly the key it was sealed with. The nonce is its first four bytes, the
session counter. The rest is random and could only make a nonce differ; the counter is a u32
that is left unbounded, a run of 2^32 messages being out of reach.

**MockSystem.** `RecvHandler` and `SendHandler` wait for a place in their channels; a full UDP
buffer loses datagrams; `SendHandlerPanics` is the `unwrap` of `send_to`. A peer is a discv5
node as the mock sees it: it announces a request by unreadable bytes when it has no session,
answers a WHOAREYOU with a handshake that carries the request, repeats a packet on a timeout,
gives up and forgets the session, answers what it cannot read with a WHOAREYOU of its own. The
peers are external: they are modelled from how the mock uses and meets them.

**ScriptedPeer** is the promise of a sequential mock: packets are served one at a time, each is
answered with exactly the packets that the script's actions call for, in order and to its
source, before the next is served; a random packet is sent only in between; what is due when the
mock dies is not given; and an answer that is due is given, unless the mock dies. `due` holds the
answers still to come, each named by its action and its number there. `MockSystem` implements it
under `due <- StillDue` (read off the actions left in `turn` against the entry served last),
`out <- ` what was sent with its kind and addressee, `alive <- handler = "running"`. The safety
part is the property `ImplementsScript`, the fairness of the replies `GivesItsAnswers`.

**Sync and TestCase.** `signal_and_wait` is two steps, `SignalAt` and `AwaitAt`, because other
instances run in between. `pc` names the next call of each instance, `Prelude` is what `main.rs`
and `publish_and_collect` do before a test case (a barrier, one entry in the topic, as many
entries read as there are instances), `Record` and the location `"exited"` are the two ways in
which a process ends; `Up` is a process that has not. Each test case adds its locations, its own
variables, and one action for each `await`.

**FindNode.** A `?` and a panic lead to `"exited"`. `add_enr` errs when the bucket of a node is
full; which nodes share a bucket is chosen in `Init`, since node ids are random. A query can find
its target when the bootstrap node is up and has it, and may fail or panic anyway when
`QueriesFail`.

**TalkRequests, BeforeEstablishing, Talk.** A request is sent, may be sent again, reaches node 2,
is answered or dropped, and times out at last; requests and responses keep their order on the way.
Node 2's event stream is a local of its part of the `match`: it is there from `Subscribe` to the
event that ends the loop (`Subscribed`), and goes out of scope before the last barrier
(`before_establishing_session.rs:120`, `talk/mod.rs:112`). A request that discv5 drops sends an
empty response: one that comes before the stream, a copy left in the stream when the loop ends
(`RespondToLastEvent`), and one that comes after that (`Listened`), so that a request whose place
in the count was taken by a copy ends with an empty response. `lost` and `late` are histories:
some request came before the event stream was opened; some request failed while it, its event or
its response was still under way. `TalkTests` composes the two test cases as `main.rs` does; only one of them
runs, so their variables are shared.

**MockTest, WhoAreYouTimeout, Sandbox.** `TestSetting` says what a test makes of the constants of
`MockSystem`: a sequential mock, and node 1 for its only peer. The peer of `MockSystem` becomes the discv5 node of
node 1, and the mock's tasks run as long as the process of node 2 is up. The two parallel
requests go out in any order with what discv5 does itself (a PING over a new session, bounded by
`OwnRequests`). In `WhoAreYouTimeout` the sleep that stands for "the WHOAREYOU has arrived" may
end before it has; the history `hasty` remembers this.

**ConcurrentRequests and IpChange** have sleeps that matter, and count time in ticks. In
`ConcurrentRequests` a tick is a second; a test may wake as late as it likes, and `age` and
`idle`, which the property compares with the timeout, are not told apart above the time of the
sleep. discv5's own traffic may use the session for `OwnTraffic` seconds, at most the margin of
the code. In `IpChange` an instance may be late by at most `Lag` ticks with any step that it
could take, which is what "the clocks of the instances go alike" comes to.

**Eclipse.** An instance is its group and its number in it; `Key` is the index into the list of
keys that both the code and the model derive from role and number. The keys of the attackers and
of the honest node fall into one bucket of the victim's table, as the comment on the seed says.
A handshake of an attacker adds it to the bucket when it has a place and the limit on incoming
nodes allows; queries may end before they reach the victim (history `missed`).

**EnrUpdate.** The event task and the `oneshot` channel are as in the code: the task forwards the
first `SocketUpdated`, the test reads it after its barrier. Votes come from nodes that node 1 has
a session with, `UpdateMin` of them make discv5 raise the event once. discv5 remembers a vote only
for an interval (`vote_duration`, which `manifest.toml:75` explains for ip-change and enr-update
leaves at its default). In the model votes do not expire, an assumption of `ConnectionsEndTheTest`:
the votes that are needed come within one interval. The safety properties do not need it, since a
vote that has gone could only keep `UpdateSocket` from being taken.

Some definitions are preceded by a wrong version of themselves (`IdleWithoutAwait` before
`Idle`, `AllButOne` before `Everyone`, `SkipOne` before `SkipTwo`, ...). Nothing uses these: put
in the place of the right one, each makes the properties that it is paired with in `PROJECT.json`
fail.

## 3. What is checked

| run | instance | shows |
|---|---|---|
| `MockRechallenge` | a script with two challenges, two custom responses to one request and a default one; 2 peers, 1 request each, 1 retry, sends that fail | `TypeOK`; `KeyAgreement`: a session the mock keeps was derived by its peer too, also when an old challenge is answered late; `ImplementsScript` and `GivesItsAnswers`: refinement of `ScriptedPeer`, its steps and its fairness; `BacklogDrains`: no task of the mock waits for ever, whichever of them has died |
| `MockDeclarative` | a table that challenges and answers everything, 1 peer, 2 requests, 2 retries, a random packet | `NonceNeverReused` over retransmitted handshakes and renewed sessions; `LatestChallengeIsHeld` |
| `Sandbox` | the test's script; 2 PINGs in parallel and one of discv5's own, 1 retry, sends that fail | `SuccessMeansScriptServed`; `EachRequestAnsweredOnce`: the capturing indices name each request once; `SandboxEnds` although any task of the mock may die |
| `WhoAreYouTimeout` | the test's script, 2 FINDNODE requests and a PING of discv5's own, 1 retry, a sleep that may be too short, sends that fail | `ScriptStartsAsPlanned`: the mock gets to the challenge unless the sleep was too short; `TimeoutEnds` |
| `FindNodeErrors` | 3 nodes, 2 buckets of 1, queries that miss or panic | `QueriesMeetTheStar`, `OutcomesComeLast`, `OutcomesTellQueries` |
| `FindNodeTableFull` | 3 nodes, buckets of 1 | `StarIsBuilt` is **violated** |
| `TalkTests` | either test case, 1 and 2 requests, 1 retry each | `TalkSucceedsTruly`, `ExchangeSucceedsTruly`: success stands for the exchange; `TalkEnds`, `ExchangeEnds`: tests whose requests find the event stream open, or come when node 2 has done with it, end |
| `BeforeEstablishingLost` | 2 requests, 1 retry | `EveryRequestCompletes` is **violated** |
| `ConcurrentRequests` | 2 requests that may fail, a timeout of 5 s, own traffic for 2 s | `RequestsMeetExpiry` (action property); `OutcomesTellRequests`: node 1 succeeds if and only if all requests were answered; `Node2OutlivesRequests`, `EveryInstanceRecords` |
| `Eclipse` | 2 attackers, a bucket of 2, every limit on incoming nodes, queries that miss the victim | `VictimLooksLast`, `OutcomeTellsVulnerability`, `EveryInstanceRecords` |
| `EnrUpdate` | 4 instances, 2 votes needed, connections that fail | `UpdateReachesTheTest`, `SuccessMeansUpdated`, `ConnectionsEndTheTest` |
| `IpChange` | every placement of 3 instances in a subnet of 7 addresses, a lag of 1 tick | `AddressesStayApart`, `ChangeIsObserved`, `EveryInstanceSucceeds` |

**Two disagreements.**

1. `FindNodeTableFull`. The README (line 52) says that the bootstrap node's table contains all
   the nodes. A bucket has 16 places, node ids are random, and the manifest admits 100
   instances: `add_enr` then fails, the `?` at `find_node/mod.rs:97` ends the bootstrap node, and
   the others wait at the next barrier for ever. A comment in `ci.yml` (line 101) knows of it.
2. `BeforeEstablishingLost`. Node 2 calls `event_stream`
   (`before_establishing_session.rs:98`) after the barrier that lets node 1 send. A request that
   is faster is not counted; node 1 at best gets the empty response of a dropped request, node 2
   waits for a request that does not come, and node 1 waits for node 2 at the last barrier. The
   README's diagram (287-289) has every request answered and completed. The property is stated for
   a network on which no request times out, so that no copy is to blame. The talk test case has
   the same order of calls at `talk/mod.rs:92`; its properties are stated for requests that find
   the event stream.

**Bounds.** Channels of one place (30 in the code) reach back pressure in every run with a mock.
One or two peers are enough for sessions to interfere: the handler keys its tables by node and
shares only the script, the captured requests and the channels. A retry of a request meets a
second challenge with an old handshake; two requests let a session be replaced while an answer of
the last one is under way. In `Sandbox` and `WhoAreYouTimeout` the numbers of instances and
requests are the test's own. Three nodes of find-node are the bootstrap node and two that share a
bucket or do not. Two attackers and a bucket of two are the smallest instance in which the bucket
can be full, full only with the honest node, or kept open by the limit (three attackers make
more than a million and a half states); 18 attackers and a bucket of 16 are covered by the
theorem. Four instances of enr-update are node 1 and three others, one vote more than needed. Of
the subnet of seven addresses four can be used: all instances, and one address to move to (a full
subnet, in which the code would take the broadcast address, is excluded by assumption); the
durations leave room for three delays.

**Deadlock** is not checked: a test case ends, a script runs out and a mock dies, and each of
these stops the model as it stops the program. That nothing stops too early is what the liveness
properties say.

**Fairness.** The runtime polls each of the three tasks of the mock as long as it can go on, so
each is weakly fair; a dead task is never enabled. Every instance is a process of its own that
goes on when nothing holds it up: the steps of each are weakly fair together. Where a test waits
for discv5, the network delivers (no loss is configured) and discv5's timers end every request
that is not answered, so delivery, answers and timeouts are weakly fair; its own PINGs and
its use of a session are nothing to count on. Nothing at all is assumed of the peers and of the
scenario in `MockSystem`. Time passes (`Tick`) in `ConcurrentRequests` and `IpChange`.
`ScriptedPeer` is weakly fair on its replies.

## 4. What is proved

All theorems hold for every value of the constants that the named assumptions of the modules
admit. Each rests on an inductive invariant (`IInv` in the modules about test cases), which was
first checked by TLC.

**The mock** (`MockProofs`): any set of peers, script, table, capacities. `TurnAssumption` says that
`None` is not itself a turn.

* `TypeCorrect`. Beyond the shapes of the records this says that no step takes from a map or a
  queue what is not there.
* `NonceSafe`. `NonceNeverReused` is not inductive: a session is created with counter 0, so a
  second session with the same keys would repeat nonces. `NonceInv` adds
  - `ChallengesAreFresh`: challenges, and those that keys and responses were made from, are
    among the nonces drawn so far; and no session or response was made from a challenge that is
    still active. This is what removing the challenge in `EstablishSession` gives;
  - `CountersCoverSent`: the counter of a session is at least that of every response sealed
    under its key. This is what advancing before use gives.
* `LatestChallengeHeld`. `ChallengeInv` says more than the property: a challenge that is in the
  table *is* the latest one. Without this a session could be made from an older challenge.
* `KeysAgree`, under `ScriptEstablishesFirst`: no entry of the script establishes a session
  after it has challenged, since its handshake would have been read under another challenge. The
  scripts of all runs have this (the `MC` modules assume it, and TLC evaluates it). The argument
  follows a key from the peer to the session: all packets, from a peer's requests to the turn,
  are sealed under secrets that their source has derived (`SealInv`), and the packet in hand
  opens under the active challenge until its session is established (`ReadInv`).

  The freshness of challenges (a random 16-byte id-nonce) and the symbolic keys are assumptions
  of the model.
* `ScriptImplemented`: `Spec => ImplementsScript` for a sequential mock. The mapping reads what is
  due off two things that the code keeps apart, the actions left in hand and the script, of which
  only the rest is kept. `ScriptInv` ties them together: the remaining entries are what follows
  the entries served, and the actions in hand are the end of the entry served last, its first one
  with fewer answers if it is a custom response under way. Every action of the mock is then one
  step of `ScriptedPeer` (`Serve`, `Reply`, `Volunteer`, `Die`) or a stutter; those of the sockets
  and the peers are stutters.
* `RequestsAnsweredOnce`, under `ScriptAnswersOnce`: one peer, no index of a captured request
  twice, no default response, at most one capture per entry, and no capture after one from an
  ordinary message. Without the last condition the property is false: a message that is sent
  again would fit the second entry too. Since the indices differ, what has to be
  shown is that no request is *captured* twice, although a peer repeats its packets as they are
  and makes a handshake of a request that had gone out as a message. `AnswerInv` has it from three
  facts: all handshakes that carry one request answer the same challenge; the challenge in the table is never
  older than the one a session came from (challenges only grow), and goes when the session
  is made, so a handshake that was read does not fit again; and a message which carries the
  request of a handshake is sealed under an older challenge than the handshake answers, so that
  the session made from it does not open the message.

**The test cases.** `TestCaseProofs` proves the lemma on which all of them rest: each instance
signals a state at most once, so a count that has reached the number of instances means that all
of them have signalled (`SignalsCounted`, `BarrierNeedsAll`), and who is past a barrier leaves
nobody before it (`EndBarrier...`); and whoever has collected knows everyone (`CollectInv`).

* `FindNodeProofs`: `QueriesMeetTheStar` and `OutcomesComeLast` from three barriers, for any
  number of instances and any buckets.
* `EnrUpdateProofs`: `UpdateReachesTheTest` from `EventInv`, which says where an update is on its
  way through stream, task and channel, and `SuccessMeansUpdated` from it and the last barrier.
* `ConcurrentRequestsProofs`: `OutcomesTellRequests`, both ways (`RequestsInv` ties node 1's flag
  to the requests, and its outcome to the flag), `Node2OutlivesRequests`, and the action property
  `RequestsMeetExpiry` from `SleepInv`: what is left of the sleep and the age of the session make
  up the whole sleep, and the session is idle for all but two seconds of its age.
* `EclipseProofs`: `VictimLooksLast` from the barriers; `OutcomeTellsVulnerability` from
  `BucketInv` and `ArrivalInv`, which account for every handshake: it is to come, in the bucket,
  or was refused, and refused only when the bucket or the limit was full.
* `IpChangeProofs`: `AddressesStayApart` from a counting lemma (`NewIpIsFree`: in a subnet with
  room the first unused address is not the last one); `ChangeIsObserved` from `TimeInv`, which
  balances what every instance will stay for (`Stays`) against the time that node 1 can have
  taken to where it is (`Taken`).

* `TalkTestsProofs`: `TalkSucceedsTruly` and `ExchangeSucceedsTruly`, for any number of requests and
  retries, over both dispatches of `main.rs`. One set of lemmas about the traffic (an ended
  request keeps its outcome, responses and dropped requests carry node 1's requests) serves both
  test cases; what is left is that node 1 comes to its last barrier only with all requests ended,
  and node 2 only with its count full.

**The test cases with a mock** (in `MockProofs`, since they rest on its invariants), under
`TestSetting`, for every script, any number of PINGs of discv5's own, any capacities and retries.

* `SandboxIsMockSystem`, `TimeoutIsMockSystem`: a run of either test is a run of `MockSystem`, step by
  step, so every theorem on the mock holds in the tests; `SandboxAnswersOnce` is one of these.
  `SandboxTypeCorrect` and `TimeoutTypeCorrect` add the types of the test's own variables.
* `SandboxSuccess`: `SuccessMeansScriptServed` for a script that meets `ScriptAnswersTheTest` (it
  answers two captured requests, each once, and the second in its last entry). No request of the
  test leaves discv5's table but by a response that the mock has sent or by an error
  (`AskInv`, `WireInv`); so success means two answers to the test's two requests. An answer uses
  up an index of the script and the script has two: no other request was answered, and the last
  entry has been served.
* `TimeoutStartsAsPlanned`: `ScriptStartsAsPlanned` for a script that meets `ScriptAwaitsWhoAreYou`.
  `BarrierInv` keeps node 1 from asking before node 2 has signalled the end of its sleep, and
  `PlanInv` follows the one packet that is under way until then: nothing sent (`Still`), the random
  packet or its WHOAREYOU somewhere between handler, socket and wire (`Travelling`), the WHOAREYOU
  at the head of the mock's queue with nothing but first messages behind it (`Arrived`).

The conditions on scripts and instances are assumed by the `MC` modules of the runs as well, where
TLC evaluates them with the tests' own scripts: no theorem is about scripts that do not exist.

**Model-checked only.** All safety properties of the passing runs are proved. What stays with TLC is
liveness, which is out of the prover's reach: `GivesItsAnswers` (the fairness of the refinement),
`BacklogDrains`, `SandboxEnds`, `TimeoutEnds`, `TalkEnds`, `ExchangeEnds`, `OutcomesTellQueries`,
`EveryInstanceRecords`, `ConnectionsEndTheTest` and `EveryInstanceSucceeds`. So are ENABLED, induction
over data and RECURSIVE operators, and so no proof uses them: the mapping of `ScriptedPeer` is
defined by sets and quantifiers and needs no fold. The two violations (section 3) are TLC's as well.

## 5. Not modelled

* `manifest.toml`, the compositions, CI and Docker: configuration. The numbers of instances that
  the manifest admits inform the bounds.
* The contents of responses, records and requests beyond what a check of the code reads.
* Datagrams that do not decode (dropped by `RecvHandler`) and invalid ephemeral keys (a panic):
  discv5 sends neither.
* `record_metric` and `record_message`, the parsing of parameters (`get_param`, `params.rs`), and
  errors of the sync service itself.
* The second mock of the sandbox: a copy that shares nothing with the first. The ten seconds that
  the sandbox sleeps before its last barrier: any step of the model may take any time.
* That the seed of the eclipse test yields keys which fall into one bucket: a fact about
  hashes, taken as the comment states it.
* The spinning of a task whose channel is closed: `SendHandler` polls a closed channel in a loop
  after the handler has died, which costs time and changes no state.
* Whether a node without an address can enter a table (`enr_update/mod.rs:120`), which is decided
  inside discv5; and the expiry of votes there.

## 6. Order of work, and what is left

The mock came first (`MockSession`, `MockHandler`, `MockSystem`, `ScriptedPeer`), being the
repository's own protocol node; then the sync service with find-node and before-establishing-session,
which showed the two disagreements; then `TestCase`, which all test cases now share, with talk,
concurrent-requests, eclipse, enr-update and ip-change; then the two compositions of a test case
with the mock. Every source file that changes state is modelled. What could still be added:

* the structure that liveness rests on, as theorems: that a test case which does not stand still
  has a step to take, stated by the enabling conditions of its actions rather than by ENABLED;
* `EachRequestAnsweredOnce` for a mock with several peers, which needs the captured requests kept
  apart by peer in the invariant;
* instances of the sandbox with both mocks, should they come to share anything.
