---------------------------- MODULE MediumAccess ----------------------------
(***************************************************************************)
(* How frames get on the air: the 802.11p access state machine of           *)
(* v2xw-radio/src/mac.rs (EdcaOcbMac with its CbrMeter) and the engine that *)
(* drives it by timers (hand_down_app, on_mac_timer, medium_idle_at and     *)
(* start_frame of v2xw-engine/src/run.rs).                                 *)
(*                                                                         *)
(* Carrier sense is sampled when a timer of the node fires, never reported  *)
(* as it changes.  All frames use one access category, as the engine's do,  *)
(* and have one air time.  Received powers are small numbers.              *)
(***************************************************************************)
EXTENDS Integers, Sequences, FiniteSetsExt, SequencesExt

CONSTANTS
    Nodes,
    Vehicles,    \* the nodes that ride an actor; the others are roadside units
    Power,       \* Power[tx][rx]: the power of tx's frames at rx, 0 for none
    Threshold,   \* CcaConfig::cca_threshold_dbm and the CBR threshold
    Slot,        \* SLOT_TIME
    Aifs,        \* the category's AIFS
    Air,         \* air_time of a frame
    Cw,          \* cw_min
    QueueDepth,  \* EdcaOcbMac::queue_depth
    MaxGrants,   \* MAX_GRANTS_PER_TIMER
    Window,      \* T_CBR
    StepPeriod,  \* actors leave at its multiples
    SignTimes,   \* how long a signature and the hand-off jitter take
    MaxBurst,    \* fragments of one message
    MaxFrames,   \* bound on the frames of a behaviour
    Horizon      \* the end of the run

ASSUME MediumAssumption ==
    /\ Power \in [Nodes -> [Nodes -> Nat]]
    /\ {Threshold, Slot, Aifs, Air, QueueDepth, MaxGrants, Window, StepPeriod, Horizon}
           \subseteq Nat \ {0}
    /\ SignTimes \subseteq Nat \ {0}
    /\ {Cw, MaxBurst, MaxFrames} \subseteq Nat
    /\ Vehicles \subseteq Nodes

VARIABLES
    now,      \* Scheduler::now
    here,     \* the nodes whose actor is in the world
    frames,   \* frames[f]: the node that made frame f, and when it is signed
    pending,  \* pending_tx: the frames handed down and not queued yet
    mac,      \* mac[n]: the NodeState of n
    meter,    \* meter[n]: its CbrMeter
    air,      \* the transmissions so far, in the order they began
    timers    \* timers[n][t]: the MacTimer events of n to come at t

vars == <<now, here, frames, pending, mac, meter, air, timers>>

NoTime == -1
NoBackoff == [armed |-> FALSE, remaining |-> 0, drawn |-> 0, resume |-> NoTime, aifs |-> 0]

Init ==
    /\ now = 0
    /\ here = Nodes
    /\ frames = <<>>
    /\ pending = {}
    /\ mac = [n \in Nodes |->
                 [queue |-> <<>>, backoff |-> NoBackoff, busy |-> FALSE, idleSince |-> NoTime]]
    /\ meter = [n \in Nodes |-> [busy |-> <<>>, open |-> NoTime]]
    /\ air = <<>>
    /\ timers = [n \in Nodes |-> [t \in 0 .. Horizon |-> 0]]

-----------------------------------------------------------------------------
(* The medium at a node, by its own energy detector.                       *)

Covers(x, t) == x.start <= t /\ t < x.end
OnAir == {air[i] : i \in DOMAIN air}

(* The frames energy_dbm sums at an instant.                               *)
Arrivals(n, t) == {x \in OnAir : n \in x.to /\ Covers(x, t)}
Energy(n, t) == MapThenSumSet(LAMBDA x : Power[x.tx][n], Arrivals(n, t))
Transmits(n, t) == \E x \in OnAir : x.tx = n /\ Covers(x, t)

(* OfdmPhy::cca: a transmitting radio does not listen.                     *)
Busy(n, t) == Transmits(n, t) \/ Energy(n, t) >= Threshold

(* Mutant: only received frames are looked at.                             *)
MediumIdleIgnoresOwn(n) ==
    Max({now} \cup {x.end : x \in {y \in OnAir : n \in y.to /\ Power[y.tx][n] >= Threshold}})

(* Engine::medium_idle_at: the end of the last frame that reaches the       *)
(* threshold by itself, or of the node's own that the engine still holds.   *)
MediumIdleAt(n) ==
    Max({now} \cup {x.end : x \in {y \in OnAir :
            \/ n \in y.to /\ Power[y.tx][n] >= Threshold
            \/ y.tx = n /\ y.end <= Horizon}})

-----------------------------------------------------------------------------
(* CbrMeter.                                                               *)

(* prune: intervals go from the front, up to the first that is still in the *)
(* window that ends at t.                                                  *)
Pruned(busy, t) ==
    LET kept == {i \in DOMAIN busy : busy[i].to > t - Window}
    IN  IF kept = {} THEN <<>> ELSE SubSeq(busy, Min(kept), Len(busy))

BusyFrom(c, t) == IF c.open = NoTime THEN [c EXCEPT !.open = t] ELSE c

(* Mutant: the open interval is recorded and stays open.                   *)
IdleAtStaysOpen(c, t) ==
    IF c.open # NoTime /\ t > c.open
    THEN [c EXCEPT !.busy = Pruned(Append(@, [from |-> c.open, to |-> t]), t)]
    ELSE c

IdleAt(c, t) ==
    IF c.open # NoTime /\ t > c.open
    THEN [busy |-> Pruned(Append(c.busy, [from |-> c.open, to |-> t]), t), open |-> NoTime]
    ELSE [c EXCEPT !.open = NoTime]

(* sort_unstable: the elements of s, by the order `before`.                 *)
Sorted(s, before(_, _)) ==
    LET p == CHOOSE q \in [DOMAIN s -> DOMAIN s] :
                 /\ IsInjective(q)
                 /\ \A i, j \in DOMAIN s : i < j => ~before(s[q[j]], s[q[i]])
    IN  [i \in DOMAIN s |-> s[p[i]]]

(* note_busy: sorted by start, then pruned as of the interval's end.        *)
NoteBusy(c, from, to) ==
    LET before(a, b) == a.from < b.from \/ (a.from = b.from /\ a.to < b.to)
        all == Append(c.busy, [from |-> from, to |-> to])
    IN  [c EXCEPT !.busy = Pruned(Sorted(all, before), to)]

(* The instants busy_ns counts.                                            *)
Counted(c, t) ==
    {i \in Max({0, t - Window}) .. (t - 1) :
        \/ \E k \in DOMAIN c.busy : c.busy[k].from <= i /\ i < c.busy[k].to
        \/ c.open # NoTime /\ c.open <= i}

-----------------------------------------------------------------------------
(* EdcaOcbMac.                                                             *)

Due(b) == b.resume + b.remaining * Slot

Since(m) == IF m.idleSince = NoTime THEN 0 ELSE m.idleSince
AifsMet(m) == ~m.busy /\ now - Since(m) >= Aifs

AtOnce == [armed |-> TRUE, remaining |-> 0, drawn |-> 0, resume |-> now, aifs |-> 0]

(* The backoff of a frame that does not find the medium idle for an AIFS.   *)
Contend(m, slots) ==
    LET resume == IF m.busy THEN NoTime ELSE Max({Since(m), now - Aifs}) + Aifs
    IN  [armed |-> TRUE, remaining |-> slots, drawn |-> slots, resume |-> resume,
         aifs |-> IF m.busy THEN Aifs ELSE resume - now]

(* Mutant: a frame sent at once reports an AIFS it did not wait.           *)
EnqueueClaimsAifs(m, f, slots) ==
    IF Len(m.queue) >= QueueDepth THEN m
    ELSE [m EXCEPT !.queue = Append(@, f),
                   !.backoff = IF @.armed THEN @
                               ELSE IF AifsMet(m) THEN [AtOnce EXCEPT !.aifs = Aifs]
                               ELSE Contend(m, slots)]

(* Mac::enqueue.                                                           *)
Enqueue(m, f, slots) ==
    IF Len(m.queue) >= QueueDepth THEN m
    ELSE [m EXCEPT !.queue = Append(@, f),
                   !.backoff = IF @.armed THEN @
                               ELSE IF AifsMet(m) THEN AtOnce ELSE Contend(m, slots)]

(* Mutant: a busy report is not acted on.                                  *)
OnCcaRunsOn(m, busy) ==
    IF ~busy /\ m.idleSince = NoTime THEN [m EXCEPT !.idleSince = now] ELSE m

(* Mutant: a countdown resumes the moment the medium is clear.             *)
OnCcaSkipsAifs(m, busy) ==
    CASE busy /\ ~m.busy ->
            [m EXCEPT !.busy = TRUE, !.idleSince = NoTime, !.backoff.resume = NoTime]
      [] ~busy /\ m.busy ->
            [m EXCEPT !.busy = FALSE, !.idleSince = now,
                      !.backoff.resume = IF m.backoff.armed THEN now ELSE NoTime]
      [] ~busy /\ ~m.busy /\ m.idleSince = NoTime -> [m EXCEPT !.idleSince = now]
      [] OTHER -> m

(* Mac::on_cca: a busy medium freezes the countdown, an idle one resumes it *)
(* an AIFS later.                                                          *)
OnCca(m, busy) ==
    CASE busy /\ ~m.busy ->
            [m EXCEPT !.busy = TRUE, !.idleSince = NoTime, !.backoff.resume = NoTime]
      [] ~busy /\ m.busy ->
            [m EXCEPT !.busy = FALSE, !.idleSince = now,
                      !.backoff.resume = IF m.backoff.armed THEN now + Aifs ELSE NoTime]
      [] ~busy /\ ~m.busy /\ m.idleSince = NoTime -> [m EXCEPT !.idleSince = now]
      [] OTHER -> m

MeterOnCca(c, m, busy) ==
    CASE busy /\ ~m.busy -> BusyFrom(c, now)
      [] ~busy /\ m.busy -> IdleAt(c, now)
      [] OTHER -> c

(* The category is counting down: poll looks at it.                        *)
Counting(m) ==
    ~m.busy /\ m.queue # <<>> /\ m.backoff.armed /\ m.backoff.resume # NoTime
        /\ now >= m.backoff.resume

(* A poll before the countdown ends takes the whole slots that have passed. *)
CountedDown(m) ==
    LET ticks == (now - m.backoff.resume) \div Slot
    IN  [m EXCEPT !.backoff.remaining = @ - ticks, !.backoff.resume = @ + ticks * Slot]

(* Mutant: the next frame contends with the medium as it was.              *)
RearmedAtDue(m, draw) ==
    LET rest == Tail(m.queue)
    IN  [m EXCEPT !.queue = rest,
                  !.backoff = IF rest = <<>> THEN NoBackoff
                              ELSE [armed |-> TRUE, remaining |-> draw[Head(rest)],
                                    drawn |-> draw[Head(rest)], resume |-> Due(@),
                                    aifs |-> Aifs]]

(* Mutant: the granted frame stays in the queue.                           *)
GrantedAndKept(m, draw) ==
    [m EXCEPT !.backoff = [armed |-> TRUE, remaining |-> draw[Head(m.queue)],
                           drawn |-> draw[Head(m.queue)], resume |-> Due(@) + Air + Aifs,
                           aifs |-> Aifs]]

(* What a grant leaves: the next frame of the queue starts a backoff of its *)
(* own, an AIFS after the granted one leaves the air.                      *)
Granted(m, draw) ==
    LET rest == Tail(m.queue)
    IN  [m EXCEPT !.queue = rest,
                  !.backoff = IF rest = <<>> THEN NoBackoff
                              ELSE [armed |-> TRUE, remaining |-> draw[Head(rest)],
                                    drawn |-> draw[Head(rest)], resume |-> Due(@) + Air + Aifs,
                                    aifs |-> Aifs]]

(* Mac::poll, once per turn of the grant loop.                             *)
Poll(acc, draw) ==
    LET m == acc.mac
    IN  CASE ~Counting(m) -> acc
          [] Counting(m) /\ now < Due(m.backoff) -> [acc EXCEPT !.mac = CountedDown(m)]
          [] OTHER -> [mac  |-> Granted(m, draw),
                       sent |-> Append(acc.sent,
                                   [frame |-> Head(m.queue), due |-> Due(m.backoff),
                                    aifs |-> m.backoff.aifs, slots |-> m.backoff.drawn])]

(* Mac::next_poll_at.                                                      *)
NextPollAt(m) ==
    IF m.busy \/ m.queue = <<>> \/ ~m.backoff.armed \/ m.backoff.resume = NoTime
    THEN NoTime
    ELSE Due(m.backoff)

-----------------------------------------------------------------------------
(* The engine.                                                             *)

(* The timers with one more for n at t, unless the run is over by then.     *)
Scheduled(ts, n, t) == IF t <= Horizon THEN [ts EXCEPT ![n][t] = @ + 1] ELSE ts

(* Engine::hand_down_app: the frames of one message, and one timer for when *)
(* it is signed.  Steps call it, and flow timers and reports at any instant. *)
HandDown(n, count, signing) ==
    LET ready == now + signing
        ids == (Len(frames) + 1) .. (Len(frames) + count)
    IN  /\ n \in here
        /\ Len(frames) + count <= MaxFrames
        /\ ready <= Horizon
        /\ frames' = frames \o [i \in 1 .. count |-> [node |-> n, ready |-> ready]]
        /\ pending' = pending \cup ids
        /\ timers' = Scheduled(timers, n, ready)
        /\ UNCHANGED <<now, here, mac, meter, air>>

(* Mutant: frames are queued by number.                                    *)
ReadyByNumber(n) ==
    LET ready == {f \in pending : frames[f].node = n /\ frames[f].ready <= now}
    IN  Sorted(SetToSeq(ready), LAMBDA f, g : f > g)

(* Frame f comes before g: by the instant it is signed, then by number.     *)
Earlier(f, g) ==
    \/ frames[f].ready < frames[g].ready
    \/ frames[f].ready = frames[g].ready /\ f < g

(* The signed frames of pending_tx, in order.                              *)
Ready(n) ==
    LET ready == {f \in pending : frames[f].node = n /\ frames[f].ready <= now}
    IN  Sorted(SetToSeq(ready), Earlier)

(* Engine::start_frame: a frame of a node that has left is gone, and one    *)
(* that would end after the run reaches nobody.                            *)
Started(n, s) ==
    [frame |-> s.frame, tx |-> n, start |-> now, end |-> now + Air,
     to |-> IF now + Air > Horizon THEN {}
            ELSE {r \in here \ {n} : Power[n][r] > 0},
     due |-> s.due, aifs |-> s.aifs, slots |-> s.slots]

Transmissions(n, sent) ==
    IF n \in here THEN [i \in DOMAIN sent |-> Started(n, sent[i])] ELSE <<>>

(* The receivers' meters after the frames a timer started.                 *)
Noted(meters, begun) ==
    FoldLeft(LAMBDA acc, x : [r \in Nodes |->
                 IF r \in x.to /\ Power[x.tx][r] >= Threshold
                 THEN NoteBusy(acc[r], x.start, x.end) ELSE acc[r]],
             meters, begun)

(* Mutant: the engine polls on a coarser grid than the slots.              *)
NextTimerCoarse(ts, n, m, busy) ==
    IF busy /\ MediumIdleAt(n) > now THEN Scheduled(ts, n, MediumIdleAt(n))
    ELSE IF ~busy /\ NextPollAt(m) # NoTime
    THEN Scheduled(ts, n, Max({NextPollAt(m), now + 1}) + 1)
    ELSE ts

(* Mutant: a node that waits polls again at once as well.                  *)
NextTimerTwice(ts, n, m, busy) ==
    IF busy /\ MediumIdleAt(n) > now
    THEN Scheduled(Scheduled(ts, n, MediumIdleAt(n)), n, now + 1)
    ELSE IF NextPollAt(m) # NoTime THEN Scheduled(ts, n, Max({NextPollAt(m), now + 1}))
    ELSE ts

(* The timers a timer leaves: when the medium clears, and when the MAC says. *)
NextTimer(ts, n, m, busy) ==
    LET cleared == IF busy /\ MediumIdleAt(n) > now
                   THEN Scheduled(ts, n, MediumIdleAt(n)) ELSE ts
    IN  IF NextPollAt(m) # NoTime
        THEN Scheduled(cleared, n, Max({NextPollAt(m), now + 1})) ELSE cleared

(* Engine::on_mac_timer: sample the medium, queue what is signed, take the  *)
(* grants and put them on the air, schedule the next timer.  draw is the    *)
(* backoff a frame draws if it has to.                                     *)
MacTimer(n, draw) ==
    LET busy   == Busy(n, now)
        queued == FoldLeft(LAMBDA m, f : Enqueue(m, f, draw[f]), OnCca(mac[n], busy), Ready(n))
        polled == FoldLeft(LAMBDA acc, i : Poll(acc, draw), [mac |-> queued, sent |-> <<>>],
                           [i \in 1 .. MaxGrants |-> i])
        begun  == Transmissions(n, polled.sent)
    IN  /\ timers[n][now] > 0
        /\ pending' = pending \ ToSet(Ready(n))
        /\ mac' = [mac EXCEPT ![n] = polled.mac]
        /\ meter' = Noted([meter EXCEPT ![n] = MeterOnCca(@, mac[n], busy)], begun)
        /\ air' = air \o begun
        /\ timers' = NextTimer([timers EXCEPT ![n][now] = @ - 1], n, polled.mac, busy)
        /\ UNCHANGED <<now, here, frames>>

(* The backoffs the frames of n may draw.                                  *)
Draws(n) == [{f \in DOMAIN frames : frames[f].node = n
                 /\ (f \in pending \/ f \in ToSet(mac[n].queue))} -> 0 .. Cw]

(* The node's actor leaves the world; its MAC state and frames stay.        *)
Despawn(n) ==
    /\ n \in here
    /\ now % StepPeriod = 0
    /\ here' = here \ {n}
    /\ UNCHANGED <<now, frames, pending, mac, meter, air, timers>>

(* The next instant, once every event of this one has been dispatched.      *)
Tick ==
    /\ now < Horizon
    /\ \A n \in Nodes, t \in 0 .. now : timers[n][t] = 0
    /\ now' = now + 1
    /\ UNCHANGED <<here, frames, pending, mac, meter, air, timers>>

Next ==
    \/ \E n \in Nodes, count \in 1 .. MaxBurst, signing \in SignTimes :
           HandDown(n, count, signing)
    \/ \E n \in Nodes : \E draw \in Draws(n) : MacTimer(n, draw)
    \/ \E n \in Vehicles : Despawn(n)
    \/ Tick

Spec == Init /\ [][Next]_vars

-----------------------------------------------------------------------------
Times == NoTime .. (Horizon + Air + Aifs + Cw * Slot)
Ids == DOMAIN frames

BackoffType ==
    [armed : BOOLEAN, remaining : 0 .. Cw, drawn : 0 .. Cw, resume : Times, aifs : 0 .. Aifs]
MacType ==
    [queue : Seq(Ids), backoff : BackoffType, busy : BOOLEAN, idleSince : Times]
MeterType == [busy : Seq([from : 0 .. Horizon, to : 0 .. Horizon]), open : Times]
TransmissionType ==
    [frame : Ids, tx : Nodes, start : 0 .. Horizon, end : Times, to : SUBSET Nodes,
     due : Times, aifs : 0 .. Aifs, slots : 0 .. Cw]

(* Every variable keeps its type, and a queue its depth.                   *)
TypeOK ==
    /\ now \in 0 .. Horizon
    /\ here \in SUBSET Nodes
    /\ frames \in Seq([node : Nodes, ready : 0 .. Horizon])
    /\ pending \in SUBSET Ids
    /\ mac \in [Nodes -> MacType]
    /\ \A n \in Nodes : Len(mac[n].queue) <= QueueDepth
    /\ meter \in [Nodes -> MeterType]
    /\ air \in Seq(TransmissionType)
    /\ timers \in [Nodes -> [0 .. Horizon -> Nat]]

(* The first instant from now on at which nothing on the air makes the       *)
(* medium busy at n.                                                       *)
ClearAt(n) == CHOOSE t \in now .. (now + Air) :
    ~Busy(n, t) /\ \A s \in now .. (t - 1) : Busy(n, s)

(* Frames that n cannot defer to one by one reach the threshold together at  *)
(* t: its detector is busy with nothing for medium_idle_at to wait for.      *)
AddsUp(n, t) ==
    MapThenSumSet(LAMBDA x : Power[x.tx][n],
                  {x \in Arrivals(n, t) : Power[x.tx][n] < Threshold}) >= Threshold

TimerBy(n, t) == \E s \in 0 .. Horizon : s <= t /\ timers[n][s] > 0

(* on_mac_timer, "a deferring node has to be woken when the medium clears,   *)
(* or its frame waits until the next one becomes ready": a frame that is     *)
(* handed down or queued always has a timer, early enough for its slot or    *)
(* for the end of what it defers to, whoever else starts to transmit.  Only  *)
(* frames that added up while the node was deferring can leave it without.   *)
WokenInTime ==
    /\ \A f \in pending : TimerBy(frames[f].node, frames[f].ready)
    /\ \A n \in Nodes :
           mac[n].queue # <<>> /\ ~mac[n].busy /\ Due(mac[n].backoff) <= Horizon =>
               TimerBy(n, Due(mac[n].backoff))
    /\ \A n \in Nodes :
           mac[n].queue # <<>> /\ mac[n].busy /\ ClearAt(n) <= Horizon =>
               \/ TimerBy(n, ClearAt(n))
               \/ \E s \in meter[n].open .. ClearAt(n) : AddsUp(n, s)

(* Timers fire, reschedule themselves and are never cancelled: they do not   *)
(* multiply, a node has no more of them than messages handed down.          *)
TimersDontMultiply ==
    \A n \in Nodes :
        MapThenSumSet(LAMBDA t : timers[n][t], 0 .. Horizon)
            <= Cardinality({f \in Ids : frames[f].node = n})

(* There is a timer for all that waits, but where faint frames added up, and *)
(* there are no more than that.                                            *)
TimersSound == TypeOK /\ WokenInTime /\ TimersDontMultiply

Overlap(x, y) == x.start < y.end /\ y.start < x.end

(* One timer may grant several frames and a node may have several timers at  *)
(* one instant: still its own frames are never on the air together.         *)
OwnFramesApart ==
    \A i, j \in DOMAIN air : i # j /\ air[i].tx = air[j].tx => ~Overlap(air[i], air[j])

(* start_frame inside the MAC handler, "registering the transmission here    *)
(* closes that": a frame begins over one that is on the air, even of the     *)
(* same instant, only where its sender cannot hear it.                      *)
CollisionsAreHidden ==
    \A i, j \in DOMAIN air :
        i < j /\ air[i].tx # air[j].tx /\ Overlap(air[i], air[j])
              /\ air[j].tx \in air[i].to =>
            Power[air[i].tx][air[j].tx] < Threshold

(* Two frames share the air only where the second sender cannot know.       *)
OverlapsAreHidden == OwnFramesApart /\ CollisionsAreHidden

(* A frame signed while its node hears another waits a whole AIFS after it,   *)
(* whatever timers fire in between and wherever it is in the queue.          *)
WaitsAfterBusy ==
    \A x, y \in OnAir :
        /\ y.start < frames[x.frame].ready /\ frames[x.frame].ready < y.end
        /\ x.tx \in y.to /\ Power[y.tx][x.tx] >= Threshold
        => x.start >= y.end + Aifs

(* Mac::poll, "an engine that schedules its MacTimer from next_poll_at sees   *)
(* at == now": every frame goes out at the instant its backoff ended.        *)
SentAtItsSlot == \A x \in OnAir : x.due = x.start

(* The parts of the access delay that a grant reports fit into the delay:    *)
(* the frame really waited its AIFS and its slots.                          *)
DelaySplitFits ==
    \A x \in OnAir : x.aifs + x.slots * Slot <= x.start - frames[x.frame].ready

(* The frames of a node go out by the instant they were signed, then by      *)
(* number, through the pending list and the queue.                          *)
InSignedOrder ==
    \A i, j \in DOMAIN air :
        i < j /\ air[i].tx = air[j].tx => Earlier(air[i].frame, air[j].frame)

(* "A broadcast frame is granted once": no path transmits a frame again or    *)
(* queues one that went out.                                               *)
SentOnce ==
    /\ \A i, j \in DOMAIN air : i # j => air[i].frame # air[j].frame
    /\ \A n \in Nodes, x \in OnAir : x.frame \notin ToSet(mac[n].queue) \cup pending

(* Access is by the rules: every frame goes out once, in order, at the end of *)
(* the AIFS and the slots it owes and reports.                             *)
SentInTurn ==
    /\ WaitsAfterBusy
    /\ SentAtItsSlot
    /\ DelaySplitFits
    /\ InSignedOrder
    /\ SentOnce

(* An instant the meter counts as busy is one at which the node's detector    *)
(* was busy: samples, noted frames and what was pruned never add load that   *)
(* was not there.  Only a stretch that the meter has counted as busy ever     *)
(* since faint frames added up can be longer than the load.                 *)
LoadIsReal ==
    \A n \in Nodes : \A t \in Counted(meter[n], now) :
        \/ Busy(n, t)
        \/ \E s \in 0 .. t :
              AddsUp(n, s) /\ \A u \in s .. t : u >= now - Window => u \in Counted(meter[n], now)

-----------------------------------------------------------------------------
(* What comments in the code say and the code does not keep.  The README    *)
(* gives the behaviours that refute each.                                  *)

(* medium_idle_at, "a node defers for exactly as long as the medium is        *)
(* occupied": whatever made its detector busy, a node that defers has a       *)
(* timer for when the medium clears.                                        *)
DefersExactly ==
    \A n \in Nodes :
        mac[n].queue # <<>> /\ mac[n].busy /\ ClearAt(n) <= Horizon => TimerBy(n, ClearAt(n))

(* CbrMeter, "accumulates busy intervals and reports T_busy / T_CBR": every   *)
(* instant the meter counts is one at which the detector was busy.          *)
OnlyBusyCounted == \A n \in Nodes : \A t \in Counted(meter[n], now) : Busy(n, t)

(* "On enqueue with idle medium for AIFS, transmit immediately": a frame     *)
(* that goes out at once found the medium idle for an AIFS.                 *)
AtOnceMeansIdle ==
    \A x \in OnAir : x.start = frames[x.frame].ready =>
        \A t \in Max({0, x.start - Aifs}) .. (x.start - 1) : ~Busy(x.tx, t)

(* "The node's own transmissions count as busy too": the meter counts every   *)
(* instant of the window at which the node transmitted.                     *)
OwnLoadCounted ==
    \A n \in Nodes, t \in Max({0, now - Window}) .. (now - 1) :
        Transmits(n, t) => t \in Counted(meter[n], now)

(* "Intervals older than the window are pruned as they fall out of it": the   *)
(* meter counts every instant of the window at which the node heard a frame. *)
HeardLoadCounted ==
    \A n \in Nodes, t \in Max({0, now - Window}) .. (now - 1) :
        (\E x \in Arrivals(n, t) : Power[x.tx][n] >= Threshold) =>
            t \in Counted(meter[n], now)

=============================================================================
