------------------------------- MODULE LiveRun -------------------------------
(***************************************************************************)
(* A live run of the VWP server: the kernel thread and its step recorder,  *)
(* the LiveEngine that collects the steps (crates/v2xw-server/src/live.rs), *)
(* the Run that guards it with a lock and broadcasts what it emits         *)
(* (run.rs), the producer task and the run.* calls of the connections      *)
(* (http.rs, rpc.rs).                                                      *)
(*                                                                         *)
(* Time is a step index.  An operation of the engine holds the run's lock  *)
(* (op) from its first step to its last; only the kernel thread runs        *)
(* meanwhile.  A wait for the kernel that times out is an operation that    *)
(* ends while the channel is empty.                                        *)
(***************************************************************************)
EXTENDS Integers, Sequences

CONSTANTS
    LastIndex,   \* index of the last step: duration / mobility_step
    EndIndex,    \* first index whose instant is at or past the duration
    Lookahead,   \* lookahead_steps, also the capacity of the step channel
    Retain,      \* retain_steps
    Gop,         \* per_gop: steps from one keyframe to the next
    StallLimit,  \* slices without progress after which a seek gives up (50)
    Exporters,   \* whether the scenario names an exporter
    Workloads,   \* sets of run.* calls: the clients of a behaviour make those of one
    Faults,      \* what may go wrong: "abort" of the kernel, "build" of the next one
    MaxGen       \* bound on the number of run.start calls

ASSUME LiveRunAssumption ==
    /\ LastIndex \in Nat
    /\ EndIndex \in {LastIndex, LastIndex + 1}
    /\ Lookahead \in Nat \ {0}
    /\ Retain \in Nat \ {0}
    /\ Gop \in Nat \ {0}
    /\ StallLimit \in Nat
    /\ Exporters \in BOOLEAN
    /\ Workloads \subseteq SUBSET {"pause", "step", "seek", "stop", "start", "speed"}
    /\ Faults \subseteq {"abort", "build"}
    /\ MaxGen \in Nat

VARIABLES
    kernel,    \* the kernel thread and its StepRecorder
    stop,      \* the flag that asks the kernel to stop
    chan,      \* the bounded channel of HostMsg
    timeline,  \* the retained steps, by index
    base,      \* base_index
    cursor,    \* the next step the stream emits
    produced,  \* one past the highest step produced
    goal,      \* seek_goal
    state,     \* RunState
    report,    \* whether the kernel reported the end of its run
    failure,   \* whether the run failed
    gen,       \* the run's generation
    op,        \* the operation holding the lock
    draining,  \* whether a shutdown is emptying the channel
    pc,        \* where each caller of Run::tick is
    out,       \* the step each of them is about to broadcast
    seeker,    \* the connection serving a run.seek
    sync,      \* client_sync: the producer waits for connections that are behind
    behind,    \* whether one is: step_backlog is at SYNC_HIGH_WATER_STEPS
    calls,     \* the run.* calls of this behaviour
    shown      \* history: the last step emitted or sought

kernelVars == <<kernel, stop, chan>>
window     == <<timeline, base, cursor, produced>>
engineVars == <<timeline, base, cursor, produced, goal, state, report, failure>>
callerVars == <<op, draining, pc, out, seeker>>
clients    == <<sync, behind, calls>>
vars == <<kernelVars, engineVars, gen, callerVars, clients, shown>>

None == -1

Index   == 0 .. LastIndex
Tickers == {"producer", "stepper"}

(* Where a caller of tick goes when it has nothing left to do.             *)
Home(p) == IF p = "producer" THEN "check" ELSE "idle"

Larger(a, b)  == IF a >= b THEN a ELSE b
Smaller(a, b) == IF a <= b THEN a ELSE b

Step(i) == [kind |-> "step", index |-> i]
Done    == [kind |-> "done", index |-> None]
Failed  == [kind |-> "failed", index |-> None]
Export  == [kind |-> "exported", index |-> None]

NoStep == [gen |-> None, index |-> None]

IdleSeeker == [phase |-> "idle", target |-> 0, last |-> 0, stalled |-> 0]

FreshKernel == [phase |-> "run", outcome |-> "done", current |-> None,
                emitted |-> None, handing |-> None, armed |-> FALSE]

HostMsg == {Step(i) : i \in Index} \cup {Done, Failed, Export}

KernelStates == [phase   : {"run", "hand", "finish", "export", "report", "ended"},
                 outcome : {"done", "failed"},
                 current : Index \cup {None},
                 emitted : Index \cup {None},
                 handing : Index \cup {None},
                 armed   : BOOLEAN]

SeekerStates == [phase   : {"idle", "ahead", "more", "done", "check", "seek"},
                 target  : Index,
                 last    : Index,
                 stalled : 0 .. StallLimit]

TypeOK ==
    /\ kernel \in KernelStates
    /\ stop \in BOOLEAN
    /\ chan \in Seq(HostMsg) /\ Len(chan) <= Lookahead
    /\ timeline \in Seq(Index)
    /\ base \in Nat /\ cursor \in Nat /\ produced \in Nat
    /\ goal \in Index \cup {None}
    /\ state \in {"running", "paused", "finished", "error"}
    /\ report \in BOOLEAN /\ failure \in BOOLEAN
    /\ gen \in 0 .. MaxGen
    /\ op \in {"none", "producer", "stepper", "extend", "seek", "stop", "start"}
    /\ draining \in BOOLEAN
    /\ pc \in [Tickers -> {"check", "free", "paced", "idle", "tick", "send", "notify", "dead"}]
    /\ out \in [Tickers -> [gen : Nat \cup {None}, index : Index \cup {None}]]
    /\ seeker \in SeekerStates
    /\ sync \in BOOLEAN /\ behind \in BOOLEAN
    /\ calls \in Workloads
    /\ shown \in Index \cup {None}

FreshEngine(s) ==
    /\ timeline = <<>> /\ base = 0 /\ cursor = 0 /\ produced = 0
    /\ goal = None /\ report = FALSE /\ failure = FALSE
    /\ state = s

Init ==
    /\ kernel = FreshKernel /\ stop = FALSE /\ chan = <<>>
    /\ \E s \in {"running", "paused"} : FreshEngine(s)
    /\ gen = 0
    /\ op = "none" /\ draining = FALSE
    /\ pc = [p \in Tickers |-> Home(p)]
    /\ out = [p \in Tickers |-> NoStep]
    /\ seeker = IdleSeeker
    /\ sync = FALSE /\ behind = FALSE
    /\ calls \in Workloads
    /\ shown = None

-----------------------------------------------------------------------------
(* The kernel thread.                                                      *)

HasRoom == Len(chan) < Lookahead

(* A record of a later step closes the one being accumulated.              *)
KernelRecords(i) ==
    /\ kernel.phase = "run" /\ ~stop
    /\ i > kernel.current
    /\ kernel' = IF kernel.current = None
                 THEN [kernel EXCEPT !.current = i]
                 ELSE [kernel EXCEPT !.current = i, !.handing = kernel.current,
                                     !.phase = "hand"]
    /\ UNCHANGED <<stop, chan, engineVars, gen, callerVars, shown, clients>>

(* engine.run returned: the horizon is reached, or a phase failed.  Either *)
(* way finish hands the current step over and fills up to the horizon.     *)
KernelRunEnds(o) ==
    /\ kernel.phase = "run" /\ ~stop
    /\ o = "failed" => "abort" \in Faults
    /\ kernel' = [kernel EXCEPT !.phase = "finish", !.outcome = o, !.handing = LastIndex]
    /\ UNCHANGED <<stop, chan, engineVars, gen, callerVars, shown, clients>>

(* hand_over and finish send every step up to the one handed over.         *)
NextSent == kernel.emitted + 1

(* The flag is looked at before every attempt.                             *)
KernelArms ==
    /\ kernel.phase \in {"hand", "finish"} /\ ~kernel.armed /\ ~stop
    /\ kernel.emitted < kernel.handing
    /\ kernel' = [kernel EXCEPT !.armed = TRUE]
    /\ UNCHANGED <<stop, chan, engineVars, gen, callerVars, shown, clients>>

KernelSends ==
    /\ kernel.armed /\ HasRoom
    /\ chan' = Append(chan, Step(NextSent))
    /\ kernel' = [kernel EXCEPT !.emitted = NextSent, !.armed = FALSE]
    /\ UNCHANGED <<stop, engineVars, gen, callerVars, shown, clients>>

KernelParks ==
    /\ kernel.armed /\ ~HasRoom
    /\ kernel' = [kernel EXCEPT !.armed = FALSE]
    /\ UNCHANGED <<stop, chan, engineVars, gen, callerVars, shown, clients>>

KernelHandedOver ==
    /\ kernel.phase \in {"hand", "finish"}
    /\ kernel.emitted = kernel.handing
    /\ kernel' = [kernel EXCEPT !.phase =
                    CASE kernel.phase = "hand" -> "run"
                      [] kernel.phase = "finish" /\ kernel.outcome = "done" /\ Exporters /\ ~stop
                           -> "export"
                      [] OTHER -> "report"]
    /\ UNCHANGED <<stop, chan, engineVars, gen, callerVars, shown, clients>>

(* A recorder that sees the flag sends no more steps, and the kernel stops  *)
(* at its next event.                                                      *)
KernelCancelled ==
    /\ kernel.phase \in {"run", "hand", "finish"} /\ ~kernel.armed /\ stop
    /\ kernel' = [kernel EXCEPT !.phase = "report"]
    /\ UNCHANGED <<stop, chan, engineVars, gen, callerVars, shown, clients>>

(* The last messages are sent without looking at the flag.                 *)
KernelReports ==
    /\ HasRoom
    /\ \/ /\ kernel.phase = "export"
          /\ chan' = Append(chan, Export)
          /\ kernel' = [kernel EXCEPT !.phase = "report"]
       \/ /\ kernel.phase = "report"
          /\ chan' = Append(chan, IF kernel.outcome = "done" THEN Done ELSE Failed)
          /\ kernel' = [kernel EXCEPT !.phase = "ended"]
    /\ UNCHANGED <<stop, engineVars, gen, callerVars, shown, clients>>

KernelStep ==
    \/ \E i \in Index : KernelRecords(i)
    \/ \E o \in {"done", "failed"} : KernelRunEnds(o)
    \/ KernelArms \/ KernelSends \/ KernelParks
    \/ KernelHandedOver
    \/ KernelCancelled
    \/ KernelReports

-----------------------------------------------------------------------------
(* The engine: collecting steps.                                           *)

Has(i) == i >= base /\ i < base + Len(timeline)

(* seek_range, in steps.                                                   *)
RangeMax == Larger(Larger(produced - 1, 0), base)

(* pump takes a message while the lead and the retention allow it, or a    *)
(* seek waits further ahead.                                               *)
Seeking == goal # None /\ produced <= goal

(* Mutant: a lead of zero steps is not raised to one. *)
MayTakeLess ==
    \/ Seeking
    \/ /\ ~(Len(timeline) >= Retain /\ base >= cursor)
       /\ produced + 1 < cursor + Lookahead

MayTake ==
    \/ Seeking
    \/ /\ ~(Len(timeline) >= Retain /\ base >= cursor)
       /\ produced < cursor + Lookahead

PumpStops == chan = <<>> \/ ~MayTake

(* How many of the oldest steps go once the window holds len of them.      *)
Dropped(len, b) ==
    IF goal # None THEN Larger(len - Retain, 0)
    ELSE Larger(Smaller(len - Retain, cursor - b), 0)

(* Mutant: the oldest steps are dropped and base_index stays behind. *)
AbsorbStepForgetsBase(i) ==
    LET first == IF timeline = <<>> THEN i ELSE base
        held  == Append(timeline, i)
        n     == Dropped(Len(held), first)
    IN  /\ timeline' = SubSeq(held, n + 1, Len(held))
        /\ base' = first
        /\ produced' = i + 1
        /\ cursor' = Larger(cursor, first)
        /\ UNCHANGED <<report, failure, state>>

AbsorbStep(i) ==
    LET first == IF timeline = <<>> THEN i ELSE base
        held  == Append(timeline, i)
        n     == Dropped(Len(held), first)
    IN  /\ timeline' = SubSeq(held, n + 1, Len(held))
        /\ base' = first + n
        /\ produced' = i + 1
        /\ cursor' = Larger(cursor, first + n)
        /\ UNCHANGED <<report, failure, state>>

(* One message taken by pump, or by a wait of pump_blocking or extend_to.  *)
Take ==
    /\ op \in {"producer", "stepper", "extend", "seek"}
    /\ chan # <<>> /\ MayTake
    /\ chan' = Tail(chan)
    /\ LET m == Head(chan) IN
         \/ m.kind = "step" /\ AbsorbStep(m.index)
         \/ m.kind = "done" /\ report' = TRUE /\ UNCHANGED <<window, failure, state>>
         \/ m.kind = "exported" /\ UNCHANGED <<window, report, failure, state>>
         \/ /\ m.kind = "failed"
            /\ failure' = TRUE /\ state' = "error"
            /\ UNCHANGED <<window, report>>
    /\ UNCHANGED <<kernel, stop, goal, gen, callerVars, shown, clients>>

-----------------------------------------------------------------------------
(* Run::tick, called by the producer task and by run.step.                 *)

(* The producer looks at the pace and then at the state before it ticks.   *)
(* With run.speed {sync: "client"} it sleeps while a connection is behind. *)
ProducerReads ==
    /\ op = "none" /\ pc["producer"] = "check"
    /\ pc' = [pc EXCEPT !["producer"] = IF sync THEN "paced" ELSE "free"]
    /\ UNCHANGED <<kernelVars, engineVars, gen, op, draining, out, seeker, shown, clients>>

ProducerChecks ==
    /\ op = "none" /\ pc["producer"] \in {"free", "paced"}
    /\ LET waits == state # "running" \/ (pc["producer"] = "paced" /\ behind)
       IN  pc' = [pc EXCEPT !["producer"] = IF waits THEN "check" ELSE "tick"]
    /\ UNCHANGED <<kernelVars, engineVars, gen, op, draining, out, seeker, shown, clients>>

(* run.step is refused while the run is moving.                            *)
StepRequest ==
    /\ op = "none" /\ pc["stepper"] = "idle"
    /\ state # "running"
    /\ pc' = [pc EXCEPT !["stepper"] = "tick"]
    /\ UNCHANGED <<kernelVars, engineVars, gen, op, draining, out, seeker, shown, clients>>

TickBegins(p) ==
    /\ op = "none" /\ pc[p] = "tick" /\ ~failure
    /\ op' = p
    /\ UNCHANGED <<kernelVars, engineVars, gen, draining, pc, out, seeker, shown, clients>>

(* A failed engine refuses the tick; the producer task returns for good.   *)
TickFails(p) ==
    /\ op = "none" /\ pc[p] = "tick" /\ failure
    /\ pc' = [pc EXCEPT ![p] = IF p = "producer" THEN "dead" ELSE "idle"]
    /\ UNCHANGED <<kernelVars, engineVars, gen, op, draining, out, seeker, shown, clients>>

(* Mutant: a kernel that is merely late counts as finished. *)
TickFindsNothingEnds(p) ==
    /\ op = p /\ PumpStops /\ ~Has(cursor)
    /\ state' = "finished"
    /\ op' = "none"
    /\ pc' = [pc EXCEPT ![p] = Home(p)]
    /\ UNCHANGED <<kernelVars, window, goal, report, failure, gen, draining, out, seeker, shown, clients>>

TickFindsNothing(p) ==
    /\ op = p /\ PumpStops /\ ~Has(cursor)
    /\ state' = IF report \/ cursor >= EndIndex THEN "finished" ELSE state
    /\ op' = "none"
    /\ pc' = [pc EXCEPT ![p] = Home(p)]
    /\ UNCHANGED <<kernelVars, window, goal, report, failure, gen, draining, out, seeker, shown, clients>>

(* The lock is released before the step is broadcast.                      *)
TickEmits(p) ==
    /\ op = p /\ PumpStops /\ Has(cursor)
    /\ LET i == timeline[cursor - base + 1] IN
         /\ out' = [out EXCEPT ![p] = [gen |-> gen, index |-> i]]
         /\ shown' = i
         /\ state' = IF i >= LastIndex THEN "finished" ELSE state
    /\ cursor' = cursor + 1
    /\ op' = "none"
    /\ pc' = [pc EXCEPT ![p] = "send"]
    /\ UNCHANGED <<kernelVars, timeline, base, produced, goal, report, failure, gen,
                   draining, seeker, clients>>

(* A step more may put the slowest connection at the high-water mark (which *)
(* is looked at only where a client asks for it).                          *)
Broadcast(p) ==
    /\ pc[p] = "send"
    /\ \/ /\ out[p].index >= LastIndex
          /\ pc' = [pc EXCEPT ![p] = "notify"]
          /\ UNCHANGED out
       \/ /\ out[p].index < LastIndex
          /\ \E next \in {Home(p)} \cup (IF p = "stepper" THEN {"tick"} ELSE {}) :
                pc' = [pc EXCEPT ![p] = next]
          /\ out' = [out EXCEPT ![p] = NoStep]
    /\ behind' \in IF "speed" \in calls THEN {behind, TRUE} ELSE {behind}
    /\ UNCHANGED <<kernelVars, engineVars, gen, op, draining, seeker, shown, sync, calls>>

(* notify_state tells every connection, naming the run as it is now.       *)
NotifyFinished(p) ==
    /\ pc[p] = "notify"
    /\ pc' = [pc EXCEPT ![p] = Home(p)]
    /\ out' = [out EXCEPT ![p] = NoStep]
    /\ UNCHANGED <<kernelVars, engineVars, gen, op, draining, seeker, shown, clients>>

-----------------------------------------------------------------------------
(* run.pause, run.resume, run.stop and run.start.                          *)

Pause ==
    /\ op = "none" /\ state = "running"
    /\ state' = "paused"
    /\ UNCHANGED <<kernelVars, window, goal, report, failure, gen, callerVars, shown, clients>>

Resume ==
    /\ op = "none" /\ state = "paused"
    /\ state' = "running"
    /\ UNCHANGED <<kernelVars, window, goal, report, failure, gen, callerVars, shown, clients>>

(* run.speed.                                                              *)
SetSync ==
    /\ op = "none"
    /\ sync' = ~sync
    /\ UNCHANGED <<kernelVars, engineVars, gen, callerVars, behind, calls, shown>>

(* The slowest connection takes its steps, or goes away.                   *)
CatchUp ==
    /\ behind
    /\ behind' = FALSE
    /\ UNCHANGED <<kernelVars, engineVars, gen, callerVars, sync, calls, shown>>

ShutdownBegins(o) ==
    /\ op = "none"
    /\ \/ o = "stop"
       \/ o = "start" /\ state # "running" /\ gen < MaxGen
    /\ op' = o
    /\ stop' = TRUE
    /\ UNCHANGED <<kernel, chan, engineVars, gen, draining, pc, out, seeker, shown, clients>>

(* shutdown looks whether the thread has ended, and if it has not, empties *)
(* the channel before it looks again.                                      *)
DrainBegins ==
    /\ op \in {"stop", "start"} /\ ~draining /\ kernel.phase # "ended"
    /\ draining' = TRUE
    /\ UNCHANGED <<kernelVars, engineVars, gen, op, pc, out, seeker, shown, clients>>

(* Mutant: shutdown waits for the thread without emptying the channel. *)
DrainNothing == draining /\ chan # <<>> /\ UNCHANGED vars

Drain ==
    /\ draining /\ chan # <<>>
    /\ chan' = Tail(chan)
    /\ UNCHANGED <<kernel, stop, engineVars, gen, callerVars, shown, clients>>

DrainEnds ==
    /\ draining /\ chan = <<>>
    /\ draining' = FALSE
    /\ UNCHANGED <<kernelVars, engineVars, gen, op, pc, out, seeker, shown, clients>>

StopEnds ==
    /\ op = "stop" /\ ~draining /\ kernel.phase = "ended"
    /\ state' = "finished"
    /\ op' = "none"
    /\ UNCHANGED <<kernelVars, window, goal, report, failure, gen, draining, pc, out, seeker, shown, clients>>

(* restart: a fresh kernel, engine and generation.                         *)
StartEnds ==
    /\ op = "start" /\ ~draining /\ kernel.phase = "ended"
    /\ kernel' = FreshKernel /\ stop' = FALSE /\ chan' = <<>>
    /\ timeline' = <<>> /\ base' = 0 /\ cursor' = 0 /\ produced' = 0
    /\ goal' = None /\ report' = FALSE /\ failure' = FALSE
    /\ state' \in {"running", "paused"}
    /\ gen' = gen + 1
    /\ shown' = None
    /\ op' = "none"
    /\ UNCHANGED <<draining, pc, out, seeker, clients>>

(* The next scenario does not build: what was streamed is kept.            *)
StartFails ==
    /\ op = "start" /\ ~draining /\ kernel.phase = "ended"
    /\ "build" \in Faults
    /\ failure' = TRUE /\ state' = "error"
    /\ op' = "none"
    /\ UNCHANGED <<kernelVars, window, goal, report, gen, draining, pc, out, seeker, shown, clients>>

-----------------------------------------------------------------------------
(* run.seek on a connection: compute_ahead when the target is past what    *)
(* the kernel has produced, then run_seek.                                 *)

SeekRequest(t) ==
    /\ op = "none" /\ seeker.phase = "idle"
    /\ seeker' = [phase |-> IF t > RangeMax THEN "ahead" ELSE "check",
                  target |-> t, stalled |-> 0,
                  last |-> IF t > RangeMax THEN RangeMax ELSE 0]
    /\ UNCHANGED <<kernelVars, engineVars, gen, op, draining, pc, out, shown, clients>>

ExtendBegins ==
    /\ op = "none" /\ seeker.phase = "ahead"
    /\ goal' = IF Has(seeker.target) \/ report \/ failure THEN goal ELSE seeker.target
    /\ op' = "extend"
    /\ UNCHANGED <<kernelVars, window, state, report, failure, gen, draining, pc, out, seeker, shown, clients>>

(* Mutant: the connection never gives up. *)
ExtendEndsOrRepeats ==
    /\ op = "extend" /\ PumpStops
    /\ op' = "none"
    /\ seeker' = [seeker EXCEPT !.phase = IF RangeMax >= seeker.target THEN "done" ELSE "more"]
    /\ UNCHANGED <<kernelVars, engineVars, gen, draining, pc, out, shown, clients>>

(* A slice ends.  The connection asks for another until the target is       *)
(* produced or StallLimit slices in a row have made no progress.           *)
ExtendEnds ==
    LET reached == RangeMax
        stalls  == IF reached = seeker.last THEN seeker.stalled + 1 ELSE 0
    IN  /\ op = "extend" /\ PumpStops
        /\ op' = "none"
        /\ seeker' = IF reached >= seeker.target \/ stalls >= StallLimit
                     THEN [seeker EXCEPT !.phase = "done", !.last = 0, !.stalled = 0]
                     ELSE [seeker EXCEPT !.phase = "more", !.last = reached, !.stalled = stalls]
        /\ UNCHANGED <<kernelVars, engineVars, gen, draining, pc, out, shown, clients>>

(* Progress is reported after every slice.                                 *)
ProgressSent ==
    /\ seeker.phase \in {"more", "done"}
    /\ seeker' = [seeker EXCEPT !.phase = IF seeker.phase = "more" THEN "ahead" ELSE "check"]
    /\ UNCHANGED <<kernelVars, engineVars, gen, op, draining, pc, out, shown, clients>>

(* The socket goes away under that report.                                 *)
SeekerGone ==
    /\ seeker.phase \in {"more", "done"}
    /\ seeker' = IdleSeeker
    /\ UNCHANGED <<kernelVars, engineVars, gen, op, draining, pc, out, shown, clients>>

(* run_seek refuses a target out of range before it touches the run.       *)
SeekChecked ==
    /\ op = "none" /\ seeker.phase = "check"
    /\ seeker' = IF seeker.target \in base .. RangeMax
                 THEN [seeker EXCEPT !.phase = "seek"] ELSE IdleSeeker
    /\ UNCHANGED <<kernelVars, engineVars, gen, op, draining, pc, out, shown, clients>>

SeekBegins ==
    /\ op = "none" /\ seeker.phase = "seek"
    /\ goal' = None
    /\ op' = "seek"
    /\ UNCHANGED <<kernelVars, window, state, report, failure, gen, draining, pc, out, seeker, shown, clients>>

(* The GOP of the target, as far as the window holds it: seek lands when   *)
(* any of its steps up to the target is there, and on the target.          *)
GopStart(t) == Larger(t - (t % Gop), base)

Seekable(t) ==
    /\ t \in base .. RangeMax
    /\ GopStart(t) < base + Len(timeline)

SeekRefused ==
    /\ op = "seek" /\ PumpStops /\ ~Seekable(seeker.target)
    /\ op' = "none"
    /\ seeker' = IdleSeeker
    /\ UNCHANGED <<kernelVars, engineVars, gen, draining, pc, out, shown, clients>>

(* The last step a seek sends.                                              *)
LastSought(t) == timeline[Smaller(t - base + 1, Len(timeline))]

(* Mutant: the stream emits the step sought once more. *)
SeekLandsOnTarget ==
    /\ op = "seek" /\ PumpStops /\ Seekable(seeker.target)
    /\ cursor' = seeker.target
    /\ shown' = LastSought(seeker.target)
    /\ state' = IF state = "running" THEN "paused" ELSE state
    /\ op' = "none"
    /\ seeker' = IdleSeeker
    /\ UNCHANGED <<kernelVars, timeline, base, produced, goal, report, failure, gen, draining, pc, out,
                   clients>>

(* A seek pauses a run that is moving.                                     *)
SeekLands ==
    /\ op = "seek" /\ PumpStops /\ Seekable(seeker.target)
    /\ cursor' = seeker.target + 1
    /\ shown' = LastSought(seeker.target)
    /\ state' = IF state = "running" THEN "paused" ELSE state
    /\ op' = "none"
    /\ seeker' = IdleSeeker
    /\ UNCHANGED <<kernelVars, timeline, base, produced, goal, report, failure, gen, draining, pc, out,
                   clients>>

-----------------------------------------------------------------------------
ProducerStep == ProducerReads \/ ProducerChecks

TickStep(p) ==
    \/ TickBegins(p) \/ TickFails(p) \/ TickFindsNothing(p) \/ TickEmits(p)
    \/ Broadcast(p) \/ NotifyFinished(p)

SeekStep ==
    \/ ExtendBegins \/ ExtendEnds \/ ProgressSent
    \/ SeekChecked \/ SeekBegins \/ SeekRefused \/ SeekLands

ShutdownStep == DrainBegins \/ Drain \/ DrainEnds \/ StopEnds \/ StartEnds \/ StartFails

ClientStep ==
    \/ "step" \in calls /\ StepRequest
    \/ "pause" \in calls /\ (Pause \/ Resume)
    \/ \E o \in {"stop", "start"} \cap calls : ShutdownBegins(o)
    \/ "seek" \in calls /\ \E t \in Index : SeekRequest(t)
    \/ "speed" \in calls /\ SetSync
    \/ CatchUp
    \/ SeekerGone

Next ==
    \/ KernelStep
    \/ Take
    \/ ProducerStep
    \/ \E p \in Tickers : TickStep(p)
    \/ ShutdownStep
    \/ SeekStep
    \/ ClientStep

Spec == Init /\ [][Next]_vars

(* Every thread and task runs, and the lock is handed to whoever waits.    *)
(* That the producer looks again and again says nothing about what it finds. *)
Fairness ==
    /\ WF_vars(KernelStep) /\ WF_vars(Take) /\ WF_vars(ShutdownStep)
    /\ SF_vars(ProducerStep)
    /\ \A p \in Tickers : SF_vars(TickStep(p))
    /\ SF_vars(SeekStep)

FairSpec == Spec /\ Fairness

-----------------------------------------------------------------------------
(* The window is what its fields say: base_index is the index of its first  *)
(* step, the steps follow each other, produced is one past the last, and   *)
(* the stream position lies inside it.  (Until the kernel is told to stop.) *)
WindowSound ==
    /\ base <= cursor /\ cursor <= produced
    /\ ~stop => /\ produced = base + Len(timeline)
                /\ \A j \in 1 .. Len(timeline) : timeline[j] = base + j - 1

(* retain_steps bounds the window, seeks that compute ahead included.      *)
RetentionBounded == Len(timeline) <= Retain

(* Until a stop, a step is only taken past the lead for a waiting seek.    *)
LeadBounded ==
    [][produced' > produced /\ ~stop => produced' <= cursor + Lookahead \/ Seeking]_vars

(* Until a stop, the stream goes on where it was started or sought: it emits *)
(* the step after the last one shown, or the oldest one held when a seek     *)
(* that computed ahead made the window slide past that step.               *)
StreamFollowsWindow ==
    [][\A p \in Tickers : pc[p] # "send" /\ pc'[p] = "send" /\ ~stop =>
          out'[p].index = Larger(shown + 1, base)]_vars

(* A run that finishes by itself has emitted its last step, with one        *)
(* exception: when the duration is a multiple of the step, a tick that      *)
(* finds everything but the last step emitted, and that one not there yet,  *)
(* takes the run for finished.  No seek, pause, abort or late kernel makes  *)
(* it end earlier.                                                          *)
OnlyLastStepMissed ==
    [][state' = "finished" /\ state # "finished" /\ ~stop =>
          \/ shown' = LastIndex
          \/ EndIndex = LastIndex /\ shown' = LastIndex - 1 /\ ~Has(LastIndex)]_vars

(* Stop and start never wait for a kernel that waits for them.             *)
ShutdownEnds == op \in {"stop", "start"} ~> op = "none"

(* A run that is moving comes to an end or is paused, as long as the        *)
(* connections keep up where a client asked the producer to wait for them:  *)
(* whoever holds the lock, seeks and restarts do not keep it from moving.   *)
(* The one other way not to end is a producer that is gone: it returns when *)
(* the engine fails between its look at the state and its tick.             *)
KeepUp == ~(sync /\ behind)

RunEnds == <>[]KeepUp => []<>(state # "running" \/ pc["producer"] = "dead")

(* Every seek is answered.                                                 *)
SeekEnds == seeker.phase # "idle" ~> seeker.phase = "idle"

-----------------------------------------------------------------------------
(* What comments in the code say and the code does not keep.  The README    *)
(* gives the behaviours that refute each.                                  *)

(* vwp-v1.md, 1.5: the server marks the last frame and says that the run is *)
(* finished.  A run that finishes by itself has emitted its last step.      *)
FinishesAtEnd ==
    [][state' = "finished" /\ state # "finished" /\ ~stop => shown' = LastIndex]_vars

(* restart, "pressing Run again runs the last scenario that built": a run   *)
(* that is moving comes to an end or is paused, after a failed build too.   *)
RestartedRunEnds == <>[]KeepUp => []<>(state # "running")

(* has, "True if step `index` is in the retained window", after a stop too:  *)
(* the step found under an index is the step of that index.               *)
WindowHoldsItsSteps == \A i \in Index : Has(i) => timeline[i - base + 1] = i

(* Until a stop, the stream emits every step, in order, from where it was   *)
(* started or sought.                                                      *)
StreamSkipsNothing ==
    [][\A p \in Tickers : pc[p] # "send" /\ pc'[p] = "send" /\ ~stop =>
          out'[p].index = shown + 1]_vars

(* A tick is one operation: what it broadcasts is still the stream's        *)
(* position when it does.                                                  *)
BroadcastIsCurrent ==
    [][\A p \in Tickers : pc[p] = "send" /\ pc'[p] # "send" =>
          out[p] = [gen |-> gen, index |-> shown]]_vars

(* A "finished" notice names the run that finished.                        *)
NoticeNamesItsRun ==
    [][\A p \in Tickers : pc[p] = "notify" /\ pc'[p] # "notify" => out[p].gen = gen]_vars

(* seek_goal is the step a seek is waiting for.                            *)
GoalIsWaitedFor == goal # None => seeker.phase # "idle"

(* digest_final is set once the digest covers the whole run.               *)
FinalDigestCoversRun == produced = LastIndex + 1 => kernel.outcome = "done"
==============================================================================
