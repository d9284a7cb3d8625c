----------------------------- MODULE NodeReceive -----------------------------
(***************************************************************************)
(* How a received frame reaches one node's applications: the engine hands  *)
(* decoded frames to the node's inbox and wakes the node                   *)
(* (crates/v2xw-engine/src/run.rs), and the node's runtime parses them,    *)
(* applies its verification policy, queues them, charges the signature     *)
(* check to a bank of servers and delivers each message when its check     *)
(* finishes (crates/v2xw-node/src/runtime.rs, queue.rs, server.rs).        *)
(*                                                                         *)
(* A step or a wake of the node is one handler of the code.  Its two       *)
(* nested loops are unrolled here: pc says where the handler stands, and   *)
(* while it is not "idle" no other event is dispatched.  The node's clock  *)
(* is taken as exact, so its believed time is now.  What a frame says,     *)
(* the verdict on it and the neighbour table are left out: they never      *)
(* decide whether or when a frame is settled, except that the on-demand    *)
(* policy may skip a frame whose signer it knows, which is a free choice.  *)
(***************************************************************************)
EXTENDS Integers, Sequences, FiniteSets

CONSTANTS Profiles,    \* the node configurations the run is started with
          Banks,       \* the node's server banks: "cpu", "hsm", "accel"
          Priority,    \* the priority the prioritized policy gives each frame
          StepPeriod,  \* instants between two periodic steps of the node
          MaxDelay,    \* the longest propagation delay
          MaxFrames,   \* how many frames the radio decodes
          MaxSigned,   \* how many messages one step of the node may sign
          MaxOutages,  \* how often the node is switched off
          Horizon      \* the run's last instant

(***************************************************************************)
(* A configuration: policy, the receive and the verification queue's       *)
(* capacities, the cost of a parse, a check and a signature (NoCost where  *)
(* the hardware profile has none), where checks and signatures run, and    *)
(* how many servers each bank has.                                         *)
(***************************************************************************)
NoCost == 0

ProfileType ==
  [policy : {"verify-all", "on-demand", "prioritized"},
   rxCapacity : Nat, capacity : Nat, parse : Nat, verify : Nat, sign : Nat,
   verifyOn : Banks, signOn : Banks, servers : [Banks -> Nat \ {0}]]

ASSUME NodeReceiveAssumption ==
  /\ "cpu" \in Banks
  /\ Profiles \subseteq ProfileType
  /\ StepPeriod \in Nat \ {0} /\ MaxDelay \in Nat /\ MaxFrames \in Nat
  /\ Priority \in [1..MaxFrames -> Nat] /\ MaxSigned \in Nat
  /\ MaxOutages \in Nat /\ Horizon \in Nat

VARIABLES
  profile,      \* the configuration, fixed for the run
  now, stage,   \* the instant, and the class of the last event dispatched at it
  stepDue,      \* the periodic step of this instant is still to come
  node,         \* "active", "off" (an outage) or "gone" (its actor despawned)
  inbox,        \* frames decoded and not yet taken by the node
  pending,      \* the engine's rx_pending: attempts that still have no fate
  wakes,        \* the instants a Deliver task is scheduled for in the heap
  nodeWake,     \* the engine's node_wake: the pending wake, if any
  pc,           \* where the node's handler stands; "idle" between handlers
  isWake,       \* the handler is a wake, not a periodic step
  frames,       \* what is left of the inbox the handler took
  current,      \* the frame between its parse and the policy's decision
  until,        \* the instant the verifier is being advanced to
  parseStarts,  \* when each frame waiting for its parse will start it
  queue,        \* queues[1]: frames waiting for their signature check
  verifyMeta,   \* beside each of them, its token and instants
  verifying,    \* checks charged to a server and not handed over yet
  verifySeq,    \* the start order, which breaks ties between finish instants
  freeAt,       \* when each server of each bank is free
  signed,       \* messages signed in this step so far
  fate,         \* the record each attempt was given ("none" before)
  handed,       \* verified messages handed over, oldest first
  outages, onAt \* outages so far, and when the last one ended

vars == <<profile, now, stage, stepDue, node, inbox, pending, wakes, nodeWake,
          pc, isWake, frames, current, until, parseStarts, queue, verifyMeta,
          verifying, verifySeq, freeAt, signed, fate, handed, outages, onAt>>

engineVars == <<now, stage, stepDue, node, inbox, wakes, nodeWake, outages, onAt>>
serverVars == <<queue, verifyMeta, verifying, verifySeq, freeAt>>

Tokens == 1..MaxFrames
Instants == 0..Horizon
Larger(a, b) == IF a >= b THEN a ELSE b

\* The instants a frame or a server may reach: past the horizon, work goes on.
Times == Nat
Fates == {"none", "delivered", "dropped", "node-off", "in-flight"}

(***************************************************************************)
(* The classes of events the node is exposed to, in the order the          *)
(* calendar dispatches them within one instant.                            *)
(***************************************************************************)
Control == 0
MobilityStep == 1
PhyEnd == 2
NodeTask == 3

Dispatch(class) == /\ pc = "idle" /\ stage <= class
                   /\ stage' = class
-----------------------------------------------------------------------------
Init ==
  /\ profile \in Profiles
  /\ now = 0 /\ stage = Control /\ stepDue = TRUE
  /\ node = "active" /\ outages = 0 /\ onAt = 0
  /\ inbox = {} /\ pending = {} /\ wakes = {} /\ nodeWake = {}
  /\ pc = "idle" /\ isWake = FALSE /\ frames = {} /\ current = {} /\ until = 0
  /\ parseStarts = <<>> /\ queue = <<>> /\ verifyMeta = <<>>
  /\ verifying = {} /\ verifySeq = 0
  /\ freeAt = [b \in Banks |-> [s \in 1..profile.servers[b] |-> 0]]
  /\ signed = 0
  /\ fate = [t \in Tokens |-> "none"] /\ handed = <<>>

\* ServerBank: the server that frees up first, the lowest-numbered of several.
FirstFree(b) ==
  CHOOSE s \in DOMAIN freeAt[b] :
    \A o \in DOMAIN freeAt[b] :
      freeAt[b][s] < freeAt[b][o] \/ (freeAt[b][s] = freeAt[b][o] /\ s <= o)

EarliestFree(b) == freeAt[b][FirstFree(b)]

\* ServerBank::submit: when a task offered at `arrival` starts.
StartOf(b, arrival) == Larger(arrival, EarliestFree(b))

\* Bug: the server is charged from the task's arrival, not from its start.
ChargedFromArrival(b, arrival, cost) ==
  [freeAt EXCEPT ![b][FirstFree(b)] = arrival + cost]

\* submit: the server that takes the task is busy until it is done.
Charged(b, arrival, cost) ==
  [freeAt EXCEPT ![b][FirstFree(b)] = StartOf(b, arrival) + cost]

\* The engine joins each report to its attempt; an attempt gets one fate.
Settle(tokens, what) ==
  /\ pending' = pending \ tokens
  /\ fate' = [t \in Tokens |-> IF t \in tokens \cap pending THEN what ELSE fate[t]]

\* request_wake: one pending wake, at the earliest instant anything is wanted.
WakeWanted(heap, wake, at) ==
  IF at > Horizon \/ \E t \in wake : t <= at
  THEN [heap |-> heap, wake |-> wake]
  ELSE [heap |-> heap \cup {at}, wake |-> {at}]
-----------------------------------------------------------------------------
(***************************************************************************)
(* Events of the run that reach the node.                                  *)
(***************************************************************************)

\* A frame the PHY decoded: on_phy_end gives it a token, puts it in the node's
\* inbox and asks for a wake when it arrives.  A node that no longer exists has
\* no inbox: the attempt is lost at once.
DecodeFrame(delay) ==
  /\ Dispatch(PhyEnd)
  /\ \E t \in {n \in Tokens : fate[n] = "none" /\ n \notin pending} :
       /\ \A n \in Tokens : fate[n] = "none" /\ n \notin pending => t <= n
       /\ IF node = "gone"
          THEN /\ fate' = [fate EXCEPT ![t] = "node-off"]
               /\ UNCHANGED <<pending, inbox, wakes, nodeWake>>
          ELSE /\ pending' = pending \cup {t}
               /\ inbox' = inbox \cup {[token |-> t, at |-> now + delay]}
               /\ \E w \in {WakeWanted(wakes, nodeWake, now + delay)} :
                    wakes' = w.heap /\ nodeWake' = w.wake
               /\ UNCHANGED fate
  /\ UNCHANGED <<profile, now, stepDue, node, pc, isWake, frames, current, until,
                 parseStarts, serverVars, handed, outages, onAt, signed>>

\* on_control, TimelineKind::Outage: the node is switched off, and later on.
Outage ==
  /\ Dispatch(Control)
  /\ \/ /\ node = "active" /\ outages < MaxOutages
        /\ node' = "off" /\ outages' = outages + 1 /\ UNCHANGED onAt
     \/ /\ node = "off"
        /\ node' = "active" /\ onAt' = now /\ UNCHANGED outages
  /\ UNCHANGED <<profile, now, stepDue, inbox, pending, wakes, nodeWake, pc, isWake,
                 frames, current, until, parseStarts, serverVars, fate, handed, signed>>

\* The node's actor despawns: the node, its inbox and its wake are removed, and
\* each attempt it had not reported is settled.  Scheduled tasks stay in the heap.
Despawn ==
  /\ Dispatch(MobilityStep)
  /\ node # "gone"
  /\ node' = "gone"
  /\ inbox' = {} /\ nodeWake' = {}
  /\ queue' = <<>> /\ verifyMeta' = <<>> /\ verifying' = {} /\ parseStarts' = <<>>
  /\ Settle(pending, "node-off")
  /\ UNCHANGED <<profile, now, stepDue, wakes, pc, isWake, frames, current, until,
                 verifySeq, freeAt, handed, outages, onAt, signed>>

(***************************************************************************)
(* The node's handler: step_timed or wake_timed, called by run_nodes.      *)
(***************************************************************************)

\* Bug: a node that is off forgets its checks without reporting them.
SwitchedOffForgets(ready) ==
  /\ Settle({f.token : f \in ready}, "node-off")
  /\ verifying' = {}

\* switched_off: the frames handed over and the checks in progress are reported.
SwitchedOff(ready) ==
  /\ Settle({f.token : f \in ready \cup verifying}, "node-off")
  /\ verifying' = {}

\* run_nodes takes the frames that have arrived by now and the node receives
\* them.  A node that is off reports them and does nothing else.
TakeInbox(wake) ==
  \E ready \in {{f \in inbox : f.at <= now}} :
    /\ isWake' = wake
    /\ inbox' = inbox \ ready
    /\ until' = now
    /\ \/ /\ node = "off"
          /\ SwitchedOff(ready)
          /\ frames' = {}
          /\ pc' = "schedule"
       \/ /\ node = "active"
          /\ frames' = ready
          /\ pc' = "frame"
          /\ UNCHANGED <<pending, fate, verifying>>

\* on_node_phase: the periodic step, for a node that still exists.
PeriodicStep ==
  /\ Dispatch(NodeTask)
  /\ stepDue /\ stepDue' = FALSE
  /\ \/ /\ node # "gone" /\ TakeInbox(FALSE)
     \/ /\ node = "gone"
        /\ UNCHANGED <<isWake, inbox, until, pending, fate, verifying, frames, pc>>
  /\ UNCHANGED <<profile, now, node, wakes, nodeWake, current, parseStarts, queue,
                 verifyMeta, verifySeq, freeAt, handed, outages, onAt, signed>>

\* on_node_wake: the task due now is taken off the heap.
Wake ==
  /\ Dispatch(NodeTask)
  /\ now \in wakes /\ wakes' = wakes \ {now}
  /\ nodeWake' = nodeWake \ {now}
  /\ \/ /\ node # "gone" /\ TakeInbox(TRUE)
     \/ /\ node = "gone"
        /\ UNCHANGED <<isWake, inbox, until, pending, fate, verifying, frames, pc>>
  /\ UNCHANGED <<profile, now, stepDue, node, current, parseStarts, queue, verifyMeta,
                 verifySeq, freeAt, handed, outages, onAt, signed>>

\* The frames are taken in arrival order, those of one instant as they were put.
IsNext(f) == /\ f \in frames
             /\ \A g \in frames : f.at < g.at \/ (f.at = g.at /\ f.token <= g.token)

\* The frames at the front whose parse has started by `at` leave the receive queue;
\* there is one way to stop.
StillWaiting(at) ==
  {SubSeq(parseStarts, n + 1, Len(parseStarts)) :
     n \in {n \in 0..Len(parseStarts) :
              /\ \A i \in 1..n : parseStarts[i] <= at
              /\ n < Len(parseStarts) => parseStarts[n + 1] > at}}

\* The receive queue and the parse of the next frame.
ParseFrame ==
  /\ pc = "frame"
  /\ \E f \in frames :
       /\ IsNext(f)
       /\ frames' = frames \ {f}
       /\ \/ /\ profile.parse = NoCost
             /\ until' = f.at
             /\ current' = {[token |-> f.token, arrived |-> f.at, parsed |-> f.at]}
             /\ pc' = "advance"
             /\ UNCHANGED <<parseStarts, freeAt, pending, fate, signed>>
          \/ /\ profile.parse # NoCost
             /\ \E waiting \in StillWaiting(f.at) :
                  /\ Len(waiting) >= profile.rxCapacity
                  /\ parseStarts' = waiting
             /\ Settle({f.token}, "dropped")
             /\ UNCHANGED <<until, current, pc, freeAt>>
          \/ /\ profile.parse # NoCost
             /\ \E waiting \in StillWaiting(f.at), start \in {StartOf("cpu", f.at)} :
                  /\ Len(waiting) < profile.rxCapacity
                  /\ parseStarts' = IF start > f.at THEN Append(waiting, start) ELSE waiting
                  /\ until' = start + profile.parse
                  /\ current' = {[token |-> f.token, arrived |-> f.at,
                                  parsed |-> start + profile.parse]}
             /\ freeAt' = Charged("cpu", f.at, profile.parse)
             /\ pc' = "advance"
             /\ UNCHANGED <<pending, fate>>
  /\ UNCHANGED <<profile, engineVars, isWake, queue, verifyMeta, verifying, verifySeq,
                 handed, signed>>

\* Bug: only a wake advances the verifier to its own instant.
NoMoreFramesInStep ==
  /\ pc = "frame" /\ frames = {}
  /\ until' = now
  /\ pc' = IF isWake THEN "advance" ELSE "generate"
  /\ UNCHANGED <<profile, engineVars, pending, isWake, frames, current, parseStarts,
                 serverVars, fate, handed, signed>>

\* After the last frame the verifier is advanced to the handler's own instant.
NoMoreFrames ==
  /\ pc = "frame" /\ frames = {}
  /\ until' = now
  /\ pc' = "advance"
  /\ UNCHANGED <<profile, engineVars, pending, isWake, frames, current, parseStarts,
                 serverVars, fate, handed, signed>>

CanStart ==
  /\ profile.verify # NoCost
  /\ queue # <<>>
  /\ StartOf(profile.verifyOn, Head(queue).enqueuedAt) <= until

\* advance_verifications, one turn: the head of the queue starts its check.
StartCheck ==
  /\ pc = "advance" /\ CanStart
  /\ \E start \in {StartOf(profile.verifyOn, Head(queue).enqueuedAt)} :
       verifying' = verifying \cup
         {[token |-> Head(verifyMeta).token, arrived |-> Head(verifyMeta).arrived,
           start |-> start, finish |-> start + profile.verify, seq |-> verifySeq]}
  /\ freeAt' = Charged(profile.verifyOn, Head(queue).enqueuedAt, profile.verify)
  /\ verifySeq' = verifySeq + 1
  /\ queue' = Tail(queue) /\ verifyMeta' = Tail(verifyMeta)
  /\ UNCHANGED <<profile, engineVars, pending, pc, isWake, frames, current, until,
                 parseStarts, fate, handed, signed>>

NoneCanStart ==
  /\ pc = "advance" /\ ~CanStart
  /\ pc' = "complete"
  /\ UNCHANGED <<profile, engineVars, pending, isWake, frames, current, until,
                 parseStarts, serverVars, fate, handed, signed>>

\* Bug: checks that finish together come out last started first.
FirstFinishedAnyOrder(v) ==
  /\ v \in verifying
  /\ \A w \in verifying : v.finish < w.finish \/ (v.finish = w.finish /\ v.seq >= w.seq)

\* The first entry of the map of checks in progress, keyed by finish and order.
FirstFinished(v) ==
  /\ v \in verifying
  /\ \A w \in verifying : v.finish < w.finish \/ (v.finish = w.finish /\ v.seq <= w.seq)

\* Bug: a message is handed over when its check starts.
FinishedAtStart(v) == v.start <= until

\* A check the server is done with.
Finished(v) == v.finish <= until

\* complete_verifications, one turn: a finished check is handed over.
DeliverVerified ==
  /\ pc = "complete"
  /\ \E v \in verifying :
       /\ FirstFinished(v) /\ Finished(v)
       /\ verifying' = verifying \ {v}
       /\ handed' = Append(handed, [token |-> v.token, arrived |-> v.arrived,
                                    start |-> v.start, done |-> v.finish, at |-> now])
       /\ Settle({v.token}, "delivered")
  /\ UNCHANGED <<profile, engineVars, pc, isWake, frames, current, until, parseStarts,
                 queue, verifyMeta, verifySeq, freeAt, signed>>

\* Then the policy decides about the current frame; after the last frame the
\* receive is over.
NoneFinished ==
  /\ pc = "complete"
  /\ \A v \in verifying : ~Finished(v)
  /\ pc' = IF current = {} THEN "generate" ELSE "decide"
  /\ UNCHANGED <<profile, engineVars, pending, isWake, frames, current, until,
                 parseStarts, serverVars, fate, handed, signed>>

\* verify-all and on-demand drop a frame themselves when the queue is full; only
\* prioritized leaves that to the queue, which then evicts its oldest entry.
Full == Len(queue) >= profile.capacity
DropsItself == profile.policy # "prioritized" /\ Full

\* NodeQueue::push_evicting and push: who leaves, and what the line becomes.
QueuePush(q, item) ==
  IF ~Full THEN Append(q, item)
  ELSE IF q = <<>> THEN q ELSE Append(Tail(q), item)

\* The token the admission reports as an overflow, if any: the evicted frame's,
\* or the newcomer's where a queue without any room refuses it.
Overflowed(f) ==
  IF ~Full THEN {} ELSE IF queue = <<>> THEN {f.token} ELSE {Head(verifyMeta).token}

\* Bug: an eviction leaves the evicted frame's metadata in place.
EnqueueKeepsMeta(f) ==
  /\ queue' = QueuePush(queue, [token |-> f.token, enqueuedAt |-> f.parsed])
  /\ verifyMeta' = IF Full /\ queue = <<>> THEN verifyMeta ELSE Append(verifyMeta, f)
  /\ Settle(Overflowed(f), "dropped")

\* The frame is offered to the queue, and its metadata follows what became of it.
EnqueueFrame(f) ==
  /\ queue' = QueuePush(queue, [token |-> f.token, enqueuedAt |-> f.parsed])
  /\ verifyMeta' = QueuePush(verifyMeta, f)
  /\ Settle(Overflowed(f), "dropped")

\* The policy's decision on the current frame, and what follows from it.
Decide ==
  /\ pc = "decide"
  /\ \E f \in current :
       \/ /\ profile.policy = "on-demand"
          /\ Settle({f.token}, "delivered")
          /\ UNCHANGED <<queue, verifyMeta>>
       \/ /\ DropsItself
          /\ Settle({f.token}, "dropped")
          /\ UNCHANGED <<queue, verifyMeta>>
       \/ /\ ~DropsItself
          /\ EnqueueFrame(f)
  /\ current' = {}
  /\ pc' = "frame"
  /\ UNCHANGED <<profile, engineVars, isWake, frames, until, parseStarts, verifying,
                 verifySeq, freeAt, handed, signed>>

\* The rest of a periodic step: the messages that are due are signed one after another,
\* each on the server that frees up first.  A wake generates nothing.
Generate ==
  /\ pc = "generate"
  /\ \/ /\ ~isWake /\ profile.sign # NoCost /\ signed < MaxSigned
        /\ freeAt' = Charged(profile.signOn, now, profile.sign)
        /\ signed' = signed + 1
        /\ UNCHANGED pc
     \/ /\ pc' = "schedule"
        /\ signed' = 0
        /\ UNCHANGED freeAt
  /\ UNCHANGED <<profile, engineVars, pending, isWake, frames, current, until,
                 parseStarts, queue, verifyMeta, verifying, verifySeq, fate, handed>>

\* Bug: the wake is asked for strictly after the finish.
NextCompletionAfter == {Larger(v.finish, now) + 1 : v \in verifying}

\* next_completion_after, never at this instant or before it.
NextCompletion == {Larger(v.finish, now + 1) : v \in verifying}

\* Bug: frames still on their way are not looked at.
NextArrivalForgotten == {}

\* The arrivals of the frames the handler left in the inbox.
NextArrival == {f.at : f \in inbox}

EarliestOf(S) == {t \in S : \A u \in S : t <= u}

\* The end of run_nodes: a wake is asked for at the next finish, then at the next
\* arrival.
RequestFor(w, S) ==
  IF S = {} THEN w ELSE WakeWanted(w.heap, w.wake, CHOOSE t \in EarliestOf(S) : TRUE)

ScheduleWake ==
  /\ pc = "schedule"
  /\ \E w \in {RequestFor(RequestFor([heap |-> wakes, wake |-> nodeWake],
                                     NextCompletion), NextArrival)} :
       wakes' = w.heap /\ nodeWake' = w.wake
  /\ pc' = "idle"
  /\ UNCHANGED <<profile, now, stage, stepDue, node, inbox, pending, isWake, frames,
                 current, until, parseStarts, serverVars, fate, handed, outages, onAt, signed>>

\* The calendar advances once every event of this instant has been dispatched.
Tick ==
  /\ pc = "idle" /\ ~stepDue /\ now \notin wakes
  /\ now < Horizon
  /\ now' = now + 1
  /\ stage' = Control
  /\ stepDue' = ((now + 1) % StepPeriod = 0)
  /\ UNCHANGED <<profile, node, inbox, pending, wakes, nodeWake, pc, isWake, frames,
                 current, until, parseStarts, serverVars, fate, handed, outages, onAt, signed>>

\* resolve_in_flight: what the run's end finds unsettled is recorded in flight.
EndRun ==
  /\ pc = "idle" /\ ~stepDue /\ now \notin wakes
  /\ now = Horizon
  /\ Settle(pending, "in-flight")
  /\ pc' = "ended"
  /\ UNCHANGED <<profile, engineVars, isWake, frames, current, until, parseStarts,
                 serverVars, handed, signed>>

Next ==
  \/ \E delay \in 0..MaxDelay : DecodeFrame(delay)
  \/ Outage \/ Despawn \/ PeriodicStep \/ Wake
  \/ ParseFrame \/ NoMoreFrames \/ StartCheck \/ NoneCanStart
  \/ DeliverVerified \/ NoneFinished \/ Decide \/ Generate \/ ScheduleWake
  \/ Tick \/ EndRun

Spec == Init /\ [][Next]_vars
-----------------------------------------------------------------------------
(***************************************************************************)
(* Properties.                                                             *)
(***************************************************************************)
FrameType == [token : Tokens, at : Times]
MetaType == [token : Tokens, arrived : Times, parsed : Times]

\* Types of the node's and the engine's state, with the bounds of the two queues
\* and of the one pending wake.
TypeOK ==
  /\ profile \in Profiles
  /\ now \in Instants /\ stage \in Control..NodeTask /\ stepDue \in BOOLEAN
  /\ node \in {"active", "off", "gone"} /\ outages \in 0..MaxOutages /\ onAt \in Instants
  /\ inbox \subseteq FrameType /\ frames \subseteq FrameType
  /\ current \subseteq MetaType /\ Cardinality(current) <= 1
  /\ pending \subseteq Tokens /\ wakes \subseteq Instants
  /\ nodeWake \subseteq Instants /\ Cardinality(nodeWake) <= 1
  /\ pc \in {"idle", "frame", "advance", "complete", "decide", "generate", "schedule",
             "ended"}
  /\ isWake \in BOOLEAN /\ until \in Times
  /\ parseStarts \in Seq(Times) /\ Len(parseStarts) <= profile.rxCapacity
  /\ queue \in Seq([token : Tokens, enqueuedAt : Times])
  /\ verifyMeta \in Seq(MetaType)
  /\ Len(queue) <= profile.capacity
  /\ verifying \subseteq [token : Tokens, arrived : Times, start : Times, finish : Times,
                          seq : Nat]
  /\ verifySeq \in 0..MaxFrames
  /\ DOMAIN freeAt = Banks
  /\ \A b \in Banks : freeAt[b] \in [1..profile.servers[b] -> Times]
  /\ signed \in 0..MaxSigned
  /\ fate \in [Tokens -> Fates]
  /\ handed \in Seq([token : Tokens, arrived : Times, start : Times, done : Times,
                     at : Times])

\* The frames of the verification queue and the metadata kept beside it name the
\* same frames in the same order, through every refusal and eviction: a report
\* never carries another frame's token (receive, advance_verifications).
MetaInStep ==
  /\ Len(queue) = Len(verifyMeta)
  /\ \A i \in 1..Len(queue) : /\ queue[i].token = verifyMeta[i].token
                              /\ queue[i].enqueuedAt = verifyMeta[i].parsed

TokensOf(S) == {x.token : x \in S}
InQueue == {queue[i].token : i \in 1..Len(queue)}

\* Every attempt without a fate is in exactly one place between the radio and the
\* applications, so that "each phy.rx attempt has exactly one node.rx fate"
\* (resolve_in_flight): no path of the handler drops a frame silently.
EveryFrameAccounted ==
  /\ pc # "ended" =>
       /\ pending = TokensOf(inbox) \cup TokensOf(frames) \cup TokensOf(current)
                      \cup InQueue \cup TokensOf(verifying)
       /\ Cardinality(pending) = Cardinality(inbox) + Cardinality(frames)
            + Cardinality(current) + Len(queue) + Cardinality(verifying)
  /\ pc = "ended" => pending = {}
  /\ \A t \in pending : fate[t] = "none"

\* Wherever the handler stands, no frame is lost, doubled or taken for another.
FramesSound == TypeOK /\ MetaInStep /\ EveryFrameAccounted

\* Between two handlers no check in progress is past its finish: the single wake
\* kept per node always fires in time, or switches the check off (request_wake,
\* schedule_wake, next_completion_after).
NoFinishedCheckHeld ==
  pc = "idle" => \A v \in verifying : v.finish >= now

\* No decoded frame lies in the inbox past its arrival: an arrival too has its
\* wake, although only one is kept per node (on_phy_end, run_nodes).
NoArrivedFrameLeft ==
  pc = "idle" => \A f \in inbox : f.at >= now

\* The one wake that a node keeps is never later than what it has to do.
WokenForAll == NoFinishedCheckHeld /\ NoArrivedFrameLeft

\* "verify-all (FIFO)", and what on-demand checks of its own accord: verified messages
\* reach the applications in the order their frames arrived, also when several servers
\* work in parallel, finish at the same instant or lie idle through an outage (the
\* (finish, seq) key of verifying).  The prioritized policy promises another order.
InArrivalOrder ==
  profile.policy # "prioritized" =>
    \A i, j \in 1..Len(handed) : i < j =>
      \/ handed[i].arrived < handed[j].arrived
      \/ handed[i].arrived = handed[j].arrived /\ handed[i].token < handed[j].token

\* No more checks run at once than the bank has servers.
ChecksFitServers ==
  \A t \in {v.start : v \in verifying} :
    Cardinality({v \in verifying : v.start <= t /\ t < v.finish})
      <= profile.servers[profile.verifyOn]

\* The verifier does nothing but checks, and parsing takes no time.
OwnBank == profile.verifyOn # profile.signOn /\ profile.parse = NoCost

\* Where nothing else uses the verifier's bank, a message is handed over at the
\* very instant its check finishes (complete_verifications, wake_timed).
HandedOverAtFinish ==
  OwnBank /\ outages = 0 => \A i \in 1..Len(handed) : handed[i].at = handed[i].done

\* "A message reaches the applications when its check finishes", not before it, where
\* parsing takes no time.
NotBeforeFinish ==
  profile.parse = NoCost => \A i \in 1..Len(handed) : handed[i].done <= handed[i].at

\* How late a message can be on a profile where signatures or parses share the
\* verifier's bank, which the comment of request_wake leaves out: less than one periodic
\* step after the finish of its check, or after the outage that held it up.
LateByLessThanStep ==
  \A i \in 1..Len(handed) :
    handed[i].at < Larger(handed[i].done, onAt) + StepPeriod

\* Checks share the verifier's servers.  A message is handed over at the finish of its
\* check where the verifier's bank is its own, not before it where parsing takes no
\* time, and less than a periodic step after it anywhere.
VerifierSound ==
  ChecksFitServers /\ HandedOverAtFinish /\ NotBeforeFinish /\ LateByLessThanStep

(***************************************************************************)
(* What the repository says of the node and the code does not do.          *)
(***************************************************************************)

\* What request_wake's comment says: a receiver "hands it to its applications the
\* instant the check finishes" on every profile, never a step later.  A frame that waits
\* for a server busy with a signature has no check in progress and no wake.
NeverHandedOverLate ==
  outages = 0 => \A i \in 1..Len(handed) : handed[i].at <= handed[i].done

\* What step_timed's comment says of every profile: a message is delivered when its
\* check finishes, so never before.  With a parse cost receive advances the verifier to
\* the end of the parse, which lies after the instant of the handler.
NeverHandedOverEarly == \A i \in 1..Len(handed) : handed[i].done <= handed[i].at

\* What policy.rs says of the prioritized policy, "orders the queue by relevance and
\* proximity": no check starts while a frame of higher priority waits.  receive discards
\* the priority of the decision and appends the frame.
PriorityFirst ==
  profile.policy = "prioritized" =>
    \A v \in verifying, i \in 1..Len(queue) :
      queue[i].enqueuedAt <= v.start => Priority[queue[i].token] <= Priority[v.token]

\* What switched_off's comment says: "everything a switched-off node was handed"
\* is reported as reaching a node that was off.
OffHoldsNothing == node = "off" /\ pc = "schedule" => queue = <<>>
=============================================================================
