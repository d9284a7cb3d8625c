# V2X World Simulator: TLA+ verification project

TLA+ models of the V2X World Simulator (the Rust workspace under `crates/` and the
stream client under `ui/packages/protocol/`), TLC configurations that check them on
small instances, and TLAPS proofs of what holds for every instance. `PROJECT.json`
lists the components, the runs, the source lines behind every definition, the
mutants, the hazards and the theorems.

## 1. Inventory

A run is one deterministic discrete-event kernel that drives models of vehicles,
radio, network, security and attacks. A server runs the kernel on a thread of its
own, keeps a window of the steps it produces, and streams them to browsers over a
binary protocol (VWP, `docs/protocol/vwp-v1.md`) on sockets that may come and go.
A second front end runs sweeps of experiments and resumes them from a journal.

| Component | State it keeps | Operations | Interacts with | Hard behaviour |
|---|---|---|---|---|
| Event scheduler (`v2xw-core/event.rs`) | heap of keys, live handles, dead counter, clock, last key, reentrant debt | schedule, schedule_after, schedule_reentrant, cancel, pop, peek_time, peek_key, clear | called by the engine only | lazy cancellation with compaction; hand-kept counters; same-instant order |
| Live run (`v2xw-server/live.rs`) | kernel thread, stop flag, bounded channel, retained window, stream position, seek goal, run state | step, seek, extend_to, control (start, pause, resume, stop), shutdown | kernel thread to engine by channel; callers through the run's lock | a thread racing callers; shutdown against a full channel; computing ahead while the stream runs |
| Run and producer (`run.rs`, `http.rs`) | lock, generation, broadcast channel, producer task, pacing | tick, control, seek, notify_state, run.speed | producer and every connection | work done after the lock is released; errors that end the producer |
| Session registry (`resume.rs`, `http.rs`) | token to claim channel, parked stamps | register, claim, park, expire, remove_if, forget | ownership of a session moves between tasks by message | timeouts, evictions and closes race with a hand-over |
| Resume ring and send queue (`ring.rs`) | frames kept for a replay; frames of one step | push, can_resume, replay_from; enqueue | owned by a session | eviction by count and bytes; dropped deltas |
| Session stream (`session.rs`, `rpc.rs`, `client.ts`) | next seq, encoder base, symbol table and marks, ring; the client's next seq, view, table | greet, regreet, encode_step, encode_seek, drain_pending, reattach | steps from the broadcast channel, calls of clients, frames to one client | lost sockets, replays, lags, restarts and seeks in any order |
| Experiment runner (`v2xw-experiment`) | journal on disk, finished runs, results table | open, record, run_experiment, status | worker threads per chunk | kills and failed writes between two writes; a changed plan |
| Reassembly (`v2xw-net/frag.rs`) | open and completed sets with deadlines | accept, expire | engine's fragment groups | bounded memory, duplicates, timeouts |
| Fragment groups (`v2xw-engine/run.rs`, `frag.rs`) | open groups, memory of resolved ones, timers | on_fragment, on_reassembly_timer, resolve_in_flight | reassembly buffer of the receiver | two records of one message that must agree at their deadlines |
| Node receive path (`v2xw-engine/run.rs`, `v2xw-node`) | inbox, pending attempts, one pending wake; parse and verify queues, server banks, checks in progress | on_phy_end, step, wake, outage, despawn | scheduler events | wakes that replace one another; shared servers; switching off with work in hand |
| Medium access (`v2xw-radio/mac.rs`, `v2xw-engine/run.rs`) | queue, backoff, busy flag, busy meter; frames on the air, timers | hand_down_app, on_mac_timer, start_frame; enqueue, on_cca, poll | nodes through the medium | carrier sense sampled at timers; same-instant decisions; hidden nodes |
| Credential management (`v2xw-proto`, `v2xw-engine/phase2.rs`) | requests, jobs, chains, the open case, lists; vehicles' credentials and held lists | provision, top up, report, open a case, publish, broadcast, poll | engine steps drive one protocol kernel | multi-party flows without correlation of answers; lists of several versions in flight |
| Radio access, other tiers (`v2xw-radio/sps.rs`, `dcc.rs`) | reservations, counters, DCC state | tick, reselect, gate | node runtime | timers and counters |
| Misbehaviour authority (`v2xw-threat/ma.rs`) | reports and evidence by subject, revoked set | ingest, correlate_all | node runtime | thresholds over duplicate reporters |
| Physics, maps, codecs, cryptography, metrics, user interface | | | | numeric or data conversion |

What makes the modelled components correct:

- **Scheduler**: it behaves like a calendar in which a cancelled event is gone at
  once; time never goes back; the heap stays bounded; the counters are exact.
- **Live run**: the window is contiguous, bounded and holds the step its index says;
  the stream neither skips a step nor ends early; stop and start never deadlock;
  runs and seeks end.
- **Registry**: a session has one owner and is not lost; an attached session is not
  evicted; the parked bound holds; claims and evicted tasks end.
- **Stream**: every delta meets the base it was computed from; sequence numbers have
  no gap; both ends number strings alike; frames of one run never reach a client of
  another; replies come after the frames they promise; a quiet client shows the
  run's position.
- **Experiment runner**: the journal holds a prefix of the plan, each entry with its
  outputs, all of one plan; finished work is never lost; repeated starts finish the sweep.
- **Reassembly and fragment groups**: a message completes from fragments of one timeout
  only and once per timeout; every message a fragment of which arrived gets one fate, in
  time, and "delivered" means that all of it was decoded.
- **Node receive path**: every decoded frame is in one place until it has its one fate;
  nothing finished or arrived is left without a wake; messages are handed over in order
  and when their check ends.
- **Medium access**: a waiting frame is always going to be looked at in time; a node
  never sends over what it hears; frames go out once, in order, at their slot, after
  the AIFS they owe; the busy meter counts what was heard and nothing else.
- **Credential management**: whatever waits has something armed that will move it; every
  certificate leads back to its vehicle; an entry revokes the vehicle it is about;
  lists only grow; what was decided is carried out and reaches the vehicles.

## 2. Plan

Done: `SessionRegistry`, `EventCalendar` and `Scheduler`, `LiveRun`, `ExperimentJournal`,
`Reassembly` with `ReassemblyBuffer` and `FragGroups`, `NodeReceive`, `MediumAccess`, and
`ScmsProvisioning` with `ScmsRevocation`, each with a proofs module; `ResumeRing` and
`VwpStream` (model-checked).

Models that would come next: a kernel thread that panics without reporting
(`LiveRun`); a regreet that reads generation and descriptor apart, and two restarts
(`VwpStream`); the thresholds of `MisbehaviourAuthority`, which `ScmsRevocation` takes as a free
choice; the sidelink tier (`sps.rs`) and congestion control (`dcc.rs`).

Abstract specifications: `EventCalendar` is the scheduler's. In the other modules history
variables play that part (`heard` and `doneAt` in `ReassemblyBuffer`; `got`, `whole`
and `fates` in `FragGroups`; `fate` and `handed` in `NodeReceive`; `air` in
`MediumAccess`): the properties say from them, without the component's own bookkeeping,
what should have happened.

## 3. Modules

| Module | Models | Notes |
|---|---|---|
| `SessionRegistry` | `resume.rs`, the connection tasks of `http.rs` | one action per stretch of code between two awaits or lock releases |
| `EventCalendar` | what callers rely on from the scheduler | abstract specification |
| `Scheduler` | `event.rs` | `BinaryHeap` as a set of keys with a least element; instance of `EventCalendar` |
| `LiveRun` | `live.rs` (host, engine), `run.rs`, the producer of `http.rs`, `run.*` of `rpc.rs` | the lock is the variable `op`; only the kernel thread runs while it is held |
| `ResumeRing` | `ring.rs` | constant-level operators on sequences of frames |
| `VwpStream` | `session.rs`, `rpc.rs`, both owners of a session, `client.ts` | one session, one client; other clients are actions on the run |
| `ExperimentJournal` | `journal.rs`, `runner.rs` | the file is a sequence of records that do or do not have their newline |
| `Reassembly` | `ReassemblyBuffer` of `frag.rs` | operators on the buffer's two maps, used by the next two |
| `ReassemblyBuffer` | the buffer alone | any fragment at any time; its specification is `WatchSpec`, so that `ReassemblyProofs` can extend it and `FragGroups` |
| `FragGroups` | the engine's groups on top of the buffer | one receiver, one strategy (`generic-sdu`) |
| `NodeReceive` | the receive path of `run.rs`, `runtime.rs`, `queue.rs`, `server.rs` | one node; its configuration is chosen in `Init` |
| `ScmsProvisioning` | provisioning flows of `scms/run.rs`, `phase2.rs` | operators and actions on one kernel heap |
| `ScmsRevocation` | reports, cases, lists, the engine's step | extends `ScmsProvisioning`; the two share the kernel |
| `MediumAccess` | `mac.rs`, carrier sense of `phy.rs`, the engine's MAC handlers | several nodes over a matrix of powers |
| `*Proofs` | | TLAPS proofs about the module they extend (`ReassemblyProofs`: about `ReassemblyBuffer` and `FragGroups`) |
| `MC*` | | constants for TLC |

### Correspondence

**SessionRegistry.** `registered` and `parked` are the keys of `Sessions::entries` and
those with `parked_at`; `age` counts wall-clock ticks since the stamp and saturates at
`ResumeTtl`; `claims[t]` is the mpsc channel of a session, a sequence of reply slots;
a slot whose claimant stopped waiting is `Gone`. `pc` says where a connection task is:
in `claim` before the send, waiting for the answer, past its timeout with the slot not yet
dropped (`late`), holding an answer that came then and is lost with the slot (`missed`),
holding the answer before it clears `parked_at`, attached, or handing over. A token nobody refers to stands for the next
one the server mints, so the set of tokens is finite without losing behaviours.

**Scheduler.** The state is that of the struct, `peak` is a history variable. `Pop`
includes the purge of dead heads and the bookkeeping of `check_dispatch_order`;
`Cancel` includes the compaction it may trigger. Time saturates at `MaxTime` as the
code's addition saturates at `u64::MAX`.

**LiveRun.** Time is a step index. `kernel` is the recorder on the kernel's thread:
`KernelArms` looks at the stop flag, `KernelSends` sends, `KernelParks` waits for room,
so a shutdown can come between any two. `op` names the operation holding the run's lock;
`Take` is one message absorbed by whichever operation pumps. Ticks take the lock, emit,
release it, broadcast and notify in separate actions. `seeker` is a connection that
computes ahead slice by slice with the lock free in between, and lands on the last step
of the target's GOP that is held, up to the target. `sync` is the pacing `run.speed`
selects and `behind` says that a connection has a backlog at the high-water mark; a paced
producer that finds one sleeps and looks again, for as long as it lasts. `shown` is a
history variable: the last step emitted or sought. Which calls clients make in a behaviour
is chosen in `Init` from `Workloads`.

**VwpStream.** A frame carries what its bytes were computed from: run, step, the step a
delta is relative to, the length of the symbol table. `EncodeStep` is all of
`Session::encode_step`: staleness check, encoder, sequence number, ring, table marks,
send queue. `run` abstracts `LiveRun` to its generation, position and state, and `held`
is a step emitted and not yet broadcast. `chan` and `lost` are this session's receiver
of the broadcast channel. `owner` abstracts `SessionRegistry`. A step has as many companion frames
(telemetry, events, metrics) as one of `Companions`, up to three. `loose` and `astray` are
history: the numbers of frames the ring never got (`encode_seek`'s telemetry), and whether
the client was resumed without having read the `Hello` of its run, or a call drained a step
of another run into its stream. A session's workload, the kinds of
events that happen in it and the bound on its numbers, is chosen in `Init` from
`Workloads`, so that one run covers seeks and restarts without their product.

**ExperimentJournal.** `pc` walks through `run_experiment`: open, header, plan document,
chunks, records, table. `write_line` is two actions because it is two writes. `Kill`
stops the process between any two actions, keeps what is on disk and, in the middle of a
line, leaves a torn record; a failed write (`WriteFails`) does the same and ends the
invocation with an error. The plan document, the results table and a run's metrics are
whole-file writes that a kill or a full disk may leave cut short (`DocumentsCutShort`). `Edit` changes the scenario between invocations. `worker[r]`
is the thread of run `r`: threads end in any order, the results are taken in plan order.

**Reassembly, ReassemblyBuffer, FragGroups.** `Accept` has one disjunct per answer of
`accept`, after the purge. A key is a pair of peer and SDU by its rank in key order,
which is what the eviction of the memory breaks ties by. `FragGroups` has the receiver's
buffer and beside it the engine's `groups` and `resolved`; `tasks` separates the
receptions of an instant from its node tasks, as the event classes do; `timers` holds
the scheduled reassembly timers, which are never cancelled.

**NodeReceive.** The handler of a step or a wake is unrolled: `TakeInbox`, `ParseFrame`,
the loop that starts and finishes checks (`StartCheck`, `DeliverVerified`), `Decide`,
`Generate`, `ScheduleWake`. `pc` is "idle" between handlers, and only then is another event
dispatched, so the unrolling adds no interleaving. `stage` is the class of the last
event of the instant. Several wakes at one instant are one. `Generate`
charges up to `MaxSigned` signatures. `Priority` is the rank the prioritized policy computes
for a frame; as in the code nothing reads it but the property about it. Left out: the node's clock
error, the verdict of a check, and the neighbour table; the on-demand policy's skip of
a known signer is a free choice.

**ScmsProvisioning, ScmsRevocation.** `heap` is the schedule of the protocol kernel as a
set of messages without delays: any may be next, which covers every choice of latencies
and of the Location Obscurer's shuffles. `Provision` runs a spawning vehicle's flow to
its end on the scratch kernel, over the same service state, as `phase2.rs` does. `pc`
walks through the engine's step: deliver what is due (`Kernel`, any number of
deliveries), take the reports (`Ingest`), open cases, note and poll (`StepEnds`, only
vehicles of `Cellular`). `FlowTimer` hands the frames of the broadcast list down, `PerFrame`
entries each; `air` keeps every frame that was ever handed down, and `Hear` is the reception
of any of them at any later time, so that frames of several versions are lost, repeated and
overtake each other. An entry reaches `MaxForward` periods ahead. A certificate stands for
those of its period.

**MediumAccess.** `mac[n]` and `meter[n]` are `NodeState` and its `CbrMeter`; `air` lists
every transmission with the receivers it was registered at; `timers` counts the
`MacTimer` events of a node at each instant. `MacTimer` is the whole handler: sample, enqueue what is signed, up to
`MaxGrants` grants which start at once, next timers. `HandDown` may come at any instant: from
a step, a flow timer or a report. `draw` gives each frame the backoff
it will draw if it has to. The engine uses one access category and so does the model;
frames have one air time, there is no jammer and no oversized frame. The order of the
timers of one instant is free (the code's follows their sequence numbers).

## 4. Runs

All are exhaustive within their bounds, and all pass:

| Run | Checks | Instance, and why it is enough |
|---|---|---|
| `registry` | `SingleOwner`; `InUseKept`: nobody else removes an entry in use; `OnlyDroppedSessionsLeak`: a session is lost by a failed attach or by an answer in the instant of a timeout, and by nothing else; `OnlyStuckOwnerBlocks`: a claim ends, unless a connection that never comes back owns the session and the channel is full; `EvictedTaskEnds` | 2 sockets, 2 tokens, 1 parked, 2 claim slots, 1 lost session, no fairness on connections: a claimant and the owner it supersedes, an eviction of a session being claimed, a queued claim whose claimant gave up; the theorems cover the safety part for any sets |
| `scheduler` | `HeapBounded`, `DispatchAssertion`, and `CalendarSpec`, the refinement | 4 schedules over 2 instants and 3 priorities, compaction floor 1: reentrant schedules, compaction and saturation all occur |
| `live_run` | `WindowSound`, `StreamFollowsWindow`, `OnlyLastStepMissed`: a run that ends by itself has emitted all its steps, or all but the last | 3 steps, a duration that is a multiple of the step, a window of 2, a channel of 1: the window slides, the kernel waits for room, a seek computes ahead; pauses, single steps, one restart, aborts and failed builds; in a second workload seeks and a stop |
| `live_progress` | `ShutdownEnds`, `RunEnds`, `SeekEnds` | 2 steps, aborts and failed builds, three workloads: seek with stop, seek with start, start with `run.speed` and a connection that falls behind |
| `stream_follow` | `ResumeSound`: no number is missed but those of a seek's telemetry, and the newest keyframe is not given up before `min_frames` frames have followed it; `TablesAgree`; `ShowsPosition`, where nobody seeks | 5 steps in GOPs of 2, none or three companion frames a step, so that a GOP has more frames than the ring must keep. Two workloads: lost and expired sockets, lags (channel of 2) and pauses over fifteen numbers; lost sockets and seeks with telemetry over four |
| `stream_moves` | `DeltaOnItsBase`, `SeekIsComplete`, `OneRunAtATime` | two workloads of five numbers. Seeks of this and another client, single steps, lost sockets; or a restart by this or another client with pauses, single steps, lost sockets and steps of the old run in the channel. The send queue cannot hold a step's frames |
| `journal` | `JournalSound`: plan order, outputs of what is recorded, plan document, table; `FinishedStays`; `SweepEnds` | 4 runs in chunks of 2, 2 plans, 4 faults of any kind: a kill or a failure in every write, documents included, a rerun that is killed again, an edit in between |
| `reassembly` | `BufferSound`: bounds, and completions remembered for a timeout; `CompleteIsFresh` | 2 keys for 1 slot, sets of 2 and 3 with contradicting counts, 4 instants with a timeout of 2: eviction, refusal, expiry, re-opening |
| `fragments` | `FatesSound`: one fate, and delivered means whole; `GroupAgreesWithBuffer`; `ResolvedByDeadline` | 2 messages of 2 and 3 fragments for 1 slot, a horizon of 6: a refused group, fragments after the timeout, the end of the run with groups open |
| `node_receive` | `FramesSound`: every frame in one place, under its own name, until its fate; `WokenForAll`; `InArrivalOrder`, for the policies that keep the order of arrival; `VerifierSound`: servers shared, messages not before their check ends where parsing is free, at that instant where the bank is the verifier's own, and less than a step later elsewhere | 3 frames, up to two signatures a step, one outage, 7 instants with a step every 4; six configurations: shared and own servers, two servers, a prioritized queue of two, no room, slow parse, no cost |
| `revocation` | `CasesSound`: nothing waits unarmed, certificates traceable, one case, entries of their subjects and never twice; `NewestIsWhole`: who counts itself at the newest list has all of it; `DecisionsCarriedOut`; `ListReachesVehicles`, those that poll | 2 vehicles, one of them cellular, one top-up, 2 reports against one of them, cadence on, one entry a frame: two cases for certificates of one vehicle, a preload between them, a download overtaken by a broadcast, a frame of the first list heard after those of the second |
| `medium_access` | `TimersSound`: woken in time by few timers; `OverlapsAreHidden`; `SentInTurn`: AIFS after busy, at the slot, as reported, once, in order; `LoadIsReal` | 3 nodes, 3 frames in single or double messages, 10 instants; two of the nodes are hidden from each other and hear the third, which hears neither alone and both together: deferral, also to a sum of faint frames, frozen and resumed backoffs, same-instant timers, a full queue, a departure |

The invariants named ...`Sound` are conjunctions of named parts, the module's `TypeOK` first among them;
each part is stated and commented next to its conjunction. `TypeOK` and the smaller
invariants of `SessionRegistry`, `Scheduler` and `LiveRun` are left to their theorems.

Where the code has an exception to a property, the exception is in the formula, and the
runs reach it: the last step of a duration that is a multiple of the step
(`OnlyLastStepMissed`), the telemetry of a seek (`OnlySeekDataMissed`, of `ResumeSound`), a
client whose `Hello` was lost unread or whose call drained a foreign step (`astray`, in
`OneRunAtATime` and `DeltaOnItsBase`), a connection that stays behind and a producer that is
gone (`RunEnds`), an owner that never returns (`OnlyStuckOwnerBlocks`), a parse that costs time
(`NotBeforeFinish`, of `VerifierSound`), the prioritized policy (`InArrivalOrder`), vehicles
that do not poll (`ListReachesVehicles`), faint frames that have added up (`AddsUp`, in
`TimersSound` and `LoadIsReal`), a journal that does not parse (`SweepEnds`). What the code or
a document says without the exception is a definition of its own, and TLC refutes it: see
the next table. Three properties are checked on a part of the instances only:
`ShowsPosition` without seeks, `TablesAgree` when the send queue holds a step's frames, and
`OneFate` (of `FatesSound`) when the fragments of a message are at most a timeout apart.

Deadlock is checked except where the system may stop: a stream that was delivered or is
at the bound on its numbers, a clock at its horizon.

Every property has a mutant, the conjunctions one for each part that says something:
a definition next to the one it changes, with a comment that says which slip it stands
for, under which TLC refutes the property.

### Disagreements seen while modelling

Each is a definition of its module that TLC refutes on the instance given. Constants not
named are those of the module's first run above. For `LiveRun` and `VwpStream` there is one
workload, with the calls or events named; for `LiveRun`, `EndIndex` is `LastIndex + 1` and
there is no fault unless one is named; for `VwpStream`, `MaxGen` is 1 with start and there are
eight numbers. They have no run of their own.

| Definition | Instance | Behaviour, and what the code or a document says |
|---|---|---|
| `FinishesAtEnd` | `LastIndex` 1 = `EndIndex`, `Retain` 2, no calls | `live.rs:3710`: when the duration is a multiple of the step, a tick that finds the last step late sets the state to finished before it was emitted; `vwp-v1.md:219` has the server mark the last frame and publish the notice |
| `RestartedRunEnds` | `FairSpec`, `LastIndex` 0, `Retain` 1, pause, start; `Faults` build | `http.rs:1060`: the producer looks and ticks under two acquisitions; a failed build in between ends it for good, though `live.rs:3224` says that "pressing Run again runs the last scenario that built" |
| `NeverAcrossRuns` | `LastStep` 2, events start, drop | `http.rs:445`: a session counts as greeted when its `Hello` is built; when the socket dies with it in flight, the client is resumed across runs, which `http.rs:313` rules out ("never a resume across runs") |
| `ShowsSoughtPosition` | `LastStep` 3, events seek | `rpc.rs:515`: steps broadcast before a backward seek are encoded after it; `vwp-v1.md:1880`: "the scene is now at `t_ns`" |
| `AttachedIsRegistered` | `registry` | another task expires or evicts an entry between the hand-over of its session and the clearing of its stamp; the socket being resumed is then attached without an entry and sees its channel close |
| `ClaimEnds` | `registry`, 1 slot | `resume.rs:162`: the send of a claim is outside its timeout: an owner stuck in a write keeps every later claimant waiting, though `claim` is to give up when the owner "did not answer within" `CLAIM_TIMEOUT` |
| `DebtIsPending` | `scheduler` | a cancelled reentrant event leaves its debt behind, and the debug assertion stays relaxed |
| `BroadcastIsCurrent` | pause, step; `Retain` 3 | producer and `run.step` release the lock before they broadcast, and overtake each other |
| `NoticeNamesItsRun` | start; `LastIndex` 1 | the "finished" notice is built after a `run.start` and names the next run |
| `GoalIsWaitedFor` | seek; `Retain` 3 | a seek whose socket goes away leaves `seek_goal` set, and the next ticks run past the lead |
| `StreamSkipsNothing` | seek; `Retain` 1 | the window slides past the stream while a seek computes ahead |
| `FinalDigestCoversRun` | `Faults` abort, no calls | `finish` fills an aborted run up to its horizon with empty steps |
| `WindowHoldsItsSteps` | stop, seek; `LastIndex` 3, `Lookahead` 2, `Retain` 4 | the drain of a stop takes a step away and a later seek absorbs the one sent after it under another index |
| `NeverAcrossRuns` | `LastStep` 2, events start, pause | `drain_pending` encodes steps without looking at their generation |
| `TakenIsEncoded` | events other_seek; `LastStep` 4 | after another client's backward seek the session drops steps as stale |
| `PauseIsComplete` | events pause | a step emitted and not yet broadcast is missing when the reply to `run.pause` names it |
| `NoSeqGap` | events drop, seek, data | the companion frame of a seek takes a number and is not in the ring, so a replay over it has a gap (`vwp-v1.md`, 1.4: "no `seq` gap") |
| `LatestGopKept` | events data, fifteen numbers | `session.rs:333`: `min_frames` counts one snapshot frame per step and not the companion frames, so by bytes the ring may evict the newest keyframe, although it "holds at least two GOPs" (`ring.rs:12`) |
| `TablesAgree` | events data, the buffers of `stream_moves` | the session numbers the strings of a provenance frame before the send queue sheds that frame, and later frames name entries the client does not have; the code's queue is that small only for a step of more than 8 MiB |
| `FoundRecorded` | `NumRuns` 2, `Concurrency` 1, one plan, `Faults` kill, `MaxFaults` 1 | `journal.rs:245`: a kill between a line and its newline leaves a line that parses; the rerun appends to the same line and the journal no longer opens ("an interruption one instant later still finds it recorded") |
| `OneFate` | `MaxSpread` 3, a timeout and one instant | `run.rs:5634`: the memory of resolved groups is cleaned, and a later fragment opens a group that was given its fate |
| `DeliveredIsReassembled` | `fragments` | a last fragment at the deadline's own instant: the group counts it, the buffer retires the set |
| `NeverHandedOverLate` | `node_receive` | `runtime.rs:772`: a frame that waits for a server busy with a signature gives no completion to wake for, so it waits for the next step; the comment at `run.rs:2292` promises "the instant the check finishes" |
| `NeverHandedOverEarly` | `node_receive` | `runtime.rs:984`: with a parse cost the verifier is advanced to the parse's end, past `now`, and a check that ends in the future is handed over already, although a message is to be delivered when its check finishes (`runtime.rs:705`) |
| `PriorityFirst` | `node_receive` | `runtime.rs:945`: the priority of the decision is discarded and the frame is queued last; `policy.rs:15` and `docs/design/06-node-models.md:64` have the prioritized policy order its queue by relevance and distance |
| `OffHoldsNothing` | `node_receive` | `runtime.rs:785`: a node that is switched off keeps what its verify queue held, although "everything a switched-off node was handed" is to be reported |
| `PreloadGivesPool` | `revocation` | a vehicle preloaded while the shuffle is armed on the other kernel gets no certificates ("exactly what the in-run flows would have left") |
| `OneEntryCoversDevice` | `revocation` | a top-up draws new chains, so an entry revokes the certificates of one request only ("one entry revokes every certificate of the device") |
| `CaseEntryIsItsOwn` | `revocation` | `phase2.rs:1481`: the case takes the last entry of the list for its own |
| `VersionMeansEntries` | one vehicle without cellular access, a pool of 3, `MaxPeriod` 2, `MaxForward` 0, no top-up, 3 reports, `OnCadence` false | `phase2.rs:1971`: a vehicle that has heard e2 and e3 from the third list and then a late frame of the second counts two entries and takes itself for one at version 2, without e1 |
| `BroadcastKeptUp` | `revocation` | `run.rs:4447`: the roadside timer stops when it finds no list; a store that is reached a step before the broadcast path leaves it stopped ("A newly published list starts the roadside broadcast") |
| `DefersExactly` | `medium_access` | carrier sense sums energies, `medium_idle_at` (`run.rs:3431`) compares each frame alone: a node that defers to two faint frames gets no timer and waits for its next message, although "a node defers for exactly as long as the medium is occupied" (`run.rs:3174`, and `run.rs:3381`) |
| `OnlyBusyCounted` | `medium_access` | the same node samples the medium busy, is not woken when it clears, and its meter counts the idle instants until its next timer as busy; `mac.rs:40` has it accumulate busy intervals |
| `AtOnceMeansIdle` | `medium_access` | `mac.rs:427`: `idle_since` is that of the last timer; a frame heard and gone between two timers is not seen, and the next one goes out without an AIFS |
| `OwnLoadCounted` | `medium_access` | the engine never calls `on_tx_done`, so the node's own frames are not in its busy ratio ("the node's own transmissions count as busy too") |
| `HeardLoadCounted` | `medium_access` | `mac.rs:139`: a frame noted at its start prunes as of its end, so intervals still in the window are dropped ("pruned as they fall out of it") |

### Bounds

`MaxSeq` (scheduler) bounds the schedules of a behaviour, `MaxGen` the restarts,
`MaxLeaked` the lost sessions, `maxSeq` of a workload and `NetCap` the numbers of a
session and the frames in flight. Code constants are scaled down together: the ring keeps
`2 * (Period + 1)` frames at least, as `MIN_GOPS` GOPs do in the code, whatever companion
frames a step has; `Lookahead` is both
the lead and the channel's capacity, as in `spawn_host`; 64 dead entries become
`CompactFloor`, 120 s become `ResumeTtl` ticks, 50 idle slices become `StallLimit`.

`MaxFaults` bounds the kills, failures and edits of a sweep, `MaxTime` and `Horizon` the clock,
`MaxSpread` how far apart the fragments of a message arrive (more than a timeout reaches
`OneFate`'s counterexample), `MaxFrames`, `MaxOutages`, `MaxDelay` and `MaxSigned` the input
of a node, `MaxPeriod`, `MaxTopups`, `MaxPolls`, `Suspects`, `MaxReports` and `Listeners` the
credential runs (`MaxPolls` is 0 there: a device whose batch is not ready gives up, as it does
after `max_download_polls` in the code; the theorems hold for any number); `MaxBurst` and `SignTimes` the messages handed to the MAC, `StepPeriod` when actors leave. Of
the radio's constants the proportions are kept: an AIFS is longer than a slot, a frame
longer than either, the meter's window longer than a frame. Reassembly buffers of 64 slots and
node queues have one slot, so that every arrival meets the limit.

### Fairness

- **Registry.** `ClaimFairness` is what the runtime gives: ready tasks are polled and
  timers fire (WF), and tokio's channel semaphore is first come first served, so a
  sender that finds room again and again gets in (SF). Nothing is assumed of a connection
  task, which may wait in a socket write for ever.
- **LiveRun.** The kernel is an operating-system thread, and what holds the lock runs
  to its end (WF). The lock is a `parking_lot` mutex, which is eventually fair, so a
  ticker or a seek that finds it free again and again gets it (SF); a seek's peer reads
  the progress it is sent. Fairness of the producer says that it looks again and again and
  nothing about what it finds: paced by a connection that stays behind it sleeps for ever.
  Clients are under no obligation: no fairness on pause, resume, stop, start, `run.speed`, nor
  on catching up.
- **ExperimentJournal.** A process that runs goes on and its threads end (WF), and the
  operator starts a stopped sweep again (WF on the start). Faults are bounded, not fair.
- **ScmsRevocation.** The engine steps for ever (WF on the parts of its step); a step
  delivers what is due, so a message is not put off for ever although steps may deliver
  nothing (SF on the kernel); a vehicle with cellular access is back in coverage and polls
  again, and its download arrives (SF). Nothing is assumed of broadcasts, which may always
  be lost, so nothing is promised to a vehicle that relies on them.

## 5. Proofs

Every theorem holds for every value of the constants that satisfies the module's
`ASSUME`. Each rests on an inductive invariant `IInv`; TLC checked its parts first.
26 of the 40 properties of the runs are proved so.

**SessionRegistryProofs.** `IInv` adds to the properties that tasks in a claim or owning
a session name a real token, and that parked entries are registered. `OneOwner` needs
`SlotsAreSound`: ownership moves to whoever waits in a slot, so two slots of one
claimant, or a slot whose claimant has moved on, would give a session away twice.
Theorems: `TypeCorrect`, `OneOwner`, `SlotsSound`, `ParkedBounded`, and two action
properties: `InUseIsKept`, and `NothingElseLeaks`, for which a hand-over must find its
claimant waiting for that very session, before its timeout or between it and the drop of
the slot.

**SchedulerProofs.** `IInv` says that sequence numbers name entries, nothing pending is
in the past, the counters equal the cardinalities they stand for, and the debt covers
every pending event behind the last key. The last part is why the assertion cannot fire
although the debt may be too large (`DebtIsPending`). Theorems: `TypeCorrect` (no counter
goes below zero), `DeadExact`, `HeapIsBounded`, `AssertionHolds`, `ClockNeverGoesBack`,
`OrderedDispatch`, `ImplementsCalendar` (the refinement of `EventCalendar`).

**LiveRunProofs.** Until a stop, `Unbroken` says that the window, the channel and the
recorder hold consecutive steps, so nothing is lost between them and the end is
reported behind the last step; `Position` ties the cursor to what clients were shown.
After a stop only the order of the steps and the bounds survive, which is what
`WindowHoldsItsSteps` fails on. Theorems: `TypeCorrect`, `WindowIsSound`, `RetentionHolds`,
`LeadHolds`, `FollowsWindow`, `NoEarlyFinish` (for every duration, a multiple of the step or
not), and under a stated assumption `NothingIsSkipped` (`Retain > LastIndex`).

**ExperimentJournalProofs.** `IInv` says what the open journal holds at each point of
`run_experiment`: the lines of the file are one header and a prefix of the plan in its
order, a line without its newline is the last one, the outputs of a run exist before its
line is written, and the invocation's own lists (finished, chunk, results) agree with
the file. A kill may come at any of those points, which is why they are all named.
Theorems: `JournalIsSound`, `FinishedRunsStay` (an action property: a recorded run is
not executed again).

**ReassemblyProofs.** For the buffer, `WatchInv` ties the two maps to the history of what was heard:
every held fragment was heard before its set's deadline, deadlines lie at most a timeout
ahead, and the memory is bounded with its oldest entry first to go. Theorems:
`BufferIsSound`, `CompletesFromFresh` (an action property, from the same invariant).

For the groups, the invariant is about two records of one message that are kept
apart: while a group is open its fragments and deadline are those of the buffer's set,
or the set was refused; a group that was closed is remembered as resolved until no
fragment of its message can come; what was given up stays so. The last part holds only
when the fragments of a message are on the air within one timeout, so `FatesAreSound`
and `GroupsAgree` state `MaxSpread <= Timeout` as their hypothesis. It cannot be
weakened: with `MaxSpread = Timeout + 1` TLC refutes both properties (see the table
above). `GroupsHaveTimers` needs no such hypothesis.

**NodeReceiveProofs.** `IInv` has three parts, proved action by action. `FramesInv`: the
tokens of the pending attempts are partitioned among inbox, frames taken, current
frame, queue and checks, with the metadata in step with the queue; the count of started
checks is bounded by the frames that have begun one, which bounds `verifySeq`.
`WakesOK`: the pending wake is in the heap and no later than any finish or arrival
between handlers, and a handler ends with nothing left to do at its own instant.
`OrderInv`: handed-over messages, checks, queue, current frame and frames taken stand in
arrival order; the parses end in that order; and a check in progress started no later
than the server or the parse of the next one allows, which is what keeps finishes in
order on several servers that are also charged for parses and signatures. Theorems:
`FramesAreSound`, `WokenInTime`, `OrderIsKept`. `StillWaiting` follows the `pop_front`
loop of `receive`: it stops at the first parse that has not started.

`VerifierIsSound` needs a second invariant, `PaceInv`, inductive under `IInv`; TLC checked
it on the run's six configurations. `ServersOK`: the checks in progress can be assigned
to servers so that two on one server do not overlap and no server is free before its last
check ends; with that, checks at one instant are an injection into the servers. `StepsOK`:
there is an instant `S`, the last periodic step, no more than a period ago, by which the
node has started every check that could start, unless it was off; a message handed over
late was therefore waiting for a step. `OwnOK`: where the bank serves only checks and there
was no outage, a busy server is busy with a check in progress and a frame waits only while
all are, so the wake at the next finish is always the right one. `EarlyInv` says that without
a parse cost no message is handed over before its check ends.

**ScmsRevocationProofs.** `IInv` has three parts, and each of the deliveries and of the
engine's steps keeps one of them and leaves the others alone (`CasesKept`, `FlowsKept`,
`StagesKept`, `ListsKept`, `WindowsKept`). `ProvisioningInv`: every chain an authority
allocated belongs to one request and carries its vehicle; a job counts the chains its
request has; periods are asked for one after the other, so a top-up under way is for a
period nobody has asked for before; certificates in repository, device and vehicle were
issued to that vehicle. `CaseInv`: one stage of the open case is in flight, and each
stage asks about the case's own certificate, which the list does not cover; of the
stages only the seed requests are two at once, one per authority, and only while that
authority's seed is missing. That is why an answer needs no check of its case, and why
the second seed makes one entry. `ListInv`: store and broadcast path hold the Generator's
list of an earlier instant, every frame and download carries entries of it, and a vehicle
counts no more entries than it holds, in whatever order they came. That is enough for the
newest list (`NewestIsWhole`): as many entries as it has, out of its own, are all of them. For
an older one it is not, which is what refutes `VersionMeansEntries`. Theorems:
`InductiveInvariant`, `CasesAreSound`, `NewestListsAreWhole`, for every finite fleet, with or
without a cadence; the one assumption on the bounds is `Pool <= MaxPeriod + 1`, that the
last period of the model is not before the last one of the pool.

**MediumAccessProofs.** `IInv` says of every node what its timers rely on. `QueueOK` and
`PendingOK`: the queue holds signed frames in order, and whatever is pending comes after
them and has a timer for when it is signed. `BackoffOK` and `SplitOK`: a backoff is armed exactly when
something is queued, does not end in the past, and the AIFS and slots it will report fit
into the time since its frame was signed. `PollTimer`: a timer stands at its end. `WaitOK`: what was signed while another frame was heard does not end before that
frame and an AIFS. `AirOK` and `Access` carry the same facts over to what is on the air. A
grant is then an event of one kind: the end of the backoff of the first frame, at a node
that has just sensed the medium idle; and the second grant of a timer never happens, for
its backoff ends an air time later. Theorems: `OverlapsStayHidden`, `FramesGoInTurn`.

For the timers and the meter, `LoadInv` is inductive under `IInv`. The medium is busy at a
node while it sends or hears a single frame at the threshold (`Loud`), or while frames below
it reach it together (`AddsUp`). The engine schedules for the first only, so the invariant says
of every instant why a node that found the medium busy at `from` still counts it
(`Explained`): it is loud, or faint frames have added up since `from`. A node that found the
medium busy has a timer before the first instant that is not explained (`ClearTimer`), an open
interval of the meter began at a sample and has been explained since (`OpenFor`), and a noted
interval is one frame. Theorems: `TimersAreSound`, `LoadStaysReal` and `TimersStayFew` (a timer
leaves at most one behind). None of the theorems assumes anything of the powers.

The loops of the handler (`FoldLeft` over the signed frames and over the grants), the sums
(`MapThenSumSet`) and the sort of `note_busy` and `pending_tx` are data of any size. The
library's induction theorems take an operator, which the provers cannot instantiate; the
first sections of the module derive from the least element of a set of numbers
(`LeastNumber`) the same principles with a set in its place, and from them what a fold, a
sum and a sort return for every input.

**Only model-checked**:

- liveness (`OnlyStuckOwnerBlocks`, `EvictedTaskEnds`, `ShutdownEnds`, `RunEnds`, `SeekEnds`,
  `SweepEnds`, `DecisionsCarriedOut`, `ListReachesVehicles`): TLAPS does not reach fairness;
- `VwpStream` and `ResumeRing` (`ResumeSound`, `TablesAgree`, `ShowsPosition`,
  `DeltaOnItsBase`, `SeekIsComplete`, `OneRunAtATime`): what an encoder's base, a replay or
  the symbol table is comes out of folds over the frames sent, with the client's and the
  session's state in the accumulator, and out of `SelectSeq`, of which the provers know
  nothing (it cannot be expanded either). The lemmas of `MediumAccessProofs` would carry the
  folds; the inductive invariant over the frames in flight, in the ring and in the send
  queue has not been worked out.

## 6. Not modelled

Most of the code by lines is not a protocol: map import (`osm.rs`, `sumo.rs`,
`model.rs`), car following, propagation, fading and error rates, ASN.1 and recording
formats, metrics, figures, the user interface and the language bindings convert data or
compute in floating point, from one caller, without steps that could interleave. A TLA+
definition of them would restate them and TLC could only run it. The map therefore
covers the state machines, a few per cent of the lines.

- In the engine: mobility and sensing steps, what a frame contains, reception and
  interference, the access leg of reports, jamming, the sidelink and abstract tiers.
- In the node: the content of checks, certificate store, generation rules, safety
  applications, clock error.
- In the SCMS: enrolment (nothing reads its result), the two-report investigation and the
  vehicle's own CRL download over the kernel (called by tests only), the ETSI
  deployment, pseudonym change, message sizes and service times. Which reports make the
  authority decide is a free choice.
- In the radio: semi-persistent scheduling and congestion control; access categories
  other than the one the engine uses.
- In the server: recorded runs (`replay.rs`), introspection and scenario calls,
  subscriptions and the node-only profile, the speed of `run.speed` (its pacing is modelled).
- In the stream: `run.stop`, which leaves the connection open and sends no step (what it does
  to the run is in `LiveRun`); frames larger than the queue's
  8 MiB; `queue_p0`, which nothing calls. A step yields at most six frames and the queue
  is drained after each, so shedding happens by bytes only.
- A panic of the kernel thread, of a connection task or of the server process: sessions
  are not persisted.
- In the experiment runner: `status` and `rebuild_table`, which read the journal, and the
  expansion of a plan, a pure enumeration.
