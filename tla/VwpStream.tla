------------------------------ MODULE VwpStream ------------------------------
(***************************************************************************)
(* The stream of one VWP session: the steps a run broadcasts, the session   *)
(* that encodes them for one client (crates/v2xw-server/src/session.rs),    *)
(* the connection and the parked task that own the session in turn          *)
(* (http.rs, resume.rs), the calls that move the stream (rpc.rs), and the   *)
(* client that applies the frames (ui/packages/protocol/src/client.ts).     *)
(*                                                                         *)
(* A step is its index, 1 .. LastStep; 0 is "none yet".  A frame says what  *)
(* its bytes were computed from: the run and step it shows, the step a      *)
(* delta is a difference to, and the length of the symbol table it extends. *)
(* Who owns a session, and for how long, is SessionRegistry; how the run    *)
(* produces steps is LiveRun.                                              *)
(***************************************************************************)
EXTENDS ResumeRing, SequencesExt

CONSTANTS
    LastStep,  \* the last step of a run
    Period,    \* steps in a keyframe period (max_deltas_per_gop)
    ChanCap,   \* STEP_CHANNEL_CAPACITY
    Workloads, \* what may happen besides the run's own progress, and maxSeq, the
               \* bound on the sequence numbers a session hands out
    Companions, \* how many companion frames a step may have: telemetry, events, metrics
    MaxGen,    \* bound on the number of run.start calls
    NetCap     \* bound on the frames in flight to the client

EventNames == {"drop", "expire", "pause", "step", "seek", "other_seek", "start", "data"}

ASSUME StreamAssumption ==
    /\ LastStep \in Nat \ {0} /\ Period \in Nat \ {0}
    /\ ChanCap \in Nat \ {0}
    /\ Workloads \subseteq [events : SUBSET EventNames, maxSeq : Nat]
    /\ MinFrames = 2 * (Period + 1)
    /\ Companions \subseteq 0 .. 3
    /\ MaxGen \in Nat /\ NetCap \in Nat \ {0}

VARIABLES
    workload,  \* the one of this behaviour
    run,     \* the run: its generation, the last step it emitted, its state
    held,    \* a step emitted but not broadcast yet
    chan,    \* the broadcast steps this session has not taken
    lost,    \* whether the channel overwrote some of them
    sess,    \* the session; loose is history, the numbers of frames never retained
    owner,   \* who owns it: its "socket", the "parked" task, or nobody ("gone")
    cgen,    \* Detached::client_generation
    net,     \* what the server has sent and the client not yet received
    client   \* the client's stream state; astray is history, see Astray

runVars  == <<run, held>>
chanVars == <<chan, lost>>
vars == <<workload, runVars, chanVars, sess, owner, cgen, net, client>>

Events == workload.events

None == 0
NoResume == -1
Table == 1  \* length of the symbol table of a non-resumed Hello

Frame(kind, seq, g, step, base, table) ==
    [kind |-> kind, seq |-> seq, gen |-> g, step |-> step, base |-> base, table |-> table]

Reply(call, t) == Frame(call, 0, run.gen, t, None, 0)

-----------------------------------------------------------------------------
(* Session::new and bind.                                                  *)
NewSession(g) ==
    [gen |-> g, seq |-> 0, last |-> None, lastKey |-> None, resync |-> FALSE,
     owed |-> TRUE, table |-> Table, marks |-> <<>>, ring |-> <<>>, loose |-> {}]

(* Mutant: the keyframe period runs on.                                    *)
EncoderKeepsPeriod(s) == [s EXCEPT !.last = None]

(* SnapshotEncoder::new.                                                   *)
FreshEncoder(s) == [s EXCEPT !.last = None, !.lastKey = None]

(* Session::can_resume.                                                    *)
CanResume(s, seq) == seq = s.seq \/ RingCanResume(s.ring, seq)

(* Mutant: a resumed Hello carries the table as it is now.                 *)
TableLenNow(s, seq) == s.table

(* Session::table_len_at.                                                  *)
TableLenAt(s, seq) ==
    LET later == SelectSeq(s.marks, LAMBDA m : m.seq >= seq)
    IN  IF later = <<>> THEN s.table ELSE later[1].len

(* The canonical half of Session::push: the frame is retained, and the      *)
(* marks of frames the ring has lost go.                                   *)
Retained(s, f) ==
    LET ring == RingPush(s.ring, f)
    IN  [s EXCEPT !.ring = ring,
                  !.marks = SelectSeq(@, LAMBDA m : m.seq >= ring[1].seq)]

(* SnapshotEncoder::encode: the frame that shows step o, and the encoder    *)
(* after it.                                                               *)
WantsKeyframe(s, o) == s.resync \/ s.lastKey = None \/ o.step - s.lastKey >= Period

Snapshot(s, o) ==
    IF WantsKeyframe(s, o)
    THEN Frame("key", s.seq, o.gen, o.step, None, 0)
    ELSE Frame("delta", s.seq, o.gen, o.step, s.last, 0)

Encoded(s, f) ==
    [s EXCEPT !.seq = @ + 1, !.last = f.step,
              !.lastKey = IF f.kind = "key" THEN f.step ELSE @]

(* Session::push for a step's frames in turn: ring, queue, and the resync   *)
(* a dropped delta makes owed.                                             *)
Pushed(s, r) == [sess |-> [s EXCEPT !.resync = @ \/ r.resync], queue |-> r.items]

Push(acc, f) == Pushed(Retained(acc.sess, f), Enqueue(acc.queue, f))

(* provenance_frame: the strings it appends are mirrored in the session.    *)
PushProvenance(acc) ==
    LET s == acc.sess
        f == Frame("prov", s.seq, s.gen, None, None, s.table)
    IN  Push([acc EXCEPT !.sess = [s EXCEPT !.owed = FALSE, !.seq = @ + 1, !.table = @ + 1,
                                            !.marks = Append(@, [seq |-> s.seq, len |-> s.table])]],
             f)

(* telemetry_frame, event_frames and metric_frame: companion frames.        *)
DataFrame(s, o) == Frame("data", s.seq, o.gen, o.step, None, s.table)

PushData(acc, o) ==
    LET s == acc.sess
    IN  Push([acc EXCEPT !.sess.seq = @ + 1], DataFrame(s, o))

(* Mutant: the step right after the last one counts as covered.            *)
StaleByOne(s, o) == s.last # None /\ o.step <= s.last + 1

(* A step at or before the last one encoded: skipped in the session's own   *)
(* run, an error of the encoder in another.                                *)
Stale(s, o) == s.last # None /\ o.step <= s.last

(* The frames of step o in the order they are pushed: the snapshot f, the   *)
(* provenance a keyframe owes, the n companion frames.                     *)
PushStep(s, f, o, n) ==
    LET WithProvenance(acc) == IF f.kind = "key" /\ s.owed THEN PushProvenance(acc) ELSE acc
        WithData(acc)       == FoldLeft(LAMBDA a, i : PushData(a, o), acc, [i \in 1 .. n |-> i])
        enc == [Encoded(s, f) EXCEPT !.resync = FALSE]
    IN  WithData(WithProvenance(Push([sess |-> enc, queue |-> <<>>], f)))

Taken(acc) == [sess |-> acc.sess, frames |-> acc.queue, err |-> FALSE]

(* Session::encode_step: the session after it, the frames to send, and      *)
(* whether the encoder refused the step.                                   *)
EncodeStep(s, o, n) ==
    IF Stale(s, o)
    THEN [sess |-> s, frames |-> <<>>, err |-> o.gen # s.gen]
    ELSE Taken(PushStep(s, Snapshot(s, o), o, n))

(* hello_frame_with_nodes and finish_hello, for a session that asks to       *)
(* resume at seq on the run r: it keeps everything if it can, and starts    *)
(* its table anew, owing a resync keyframe, if not.                        *)
Hello(s, seq, r) ==
    IF seq # NoResume /\ CanResume(s, seq)
    THEN [sess  |-> s,
          frame |-> Frame("resumed", seq, r.gen, None, None, TableLenAt(s, seq))]
    ELSE [sess  |-> [s EXCEPT !.table = Table, !.marks = <<>>, !.owed = TRUE, !.resync = TRUE],
          frame |-> Frame("hello", s.seq, r.gen, None, None, Table)]

(* Session::encode_current: the state at r's position, with a new encoder.  *)
EncodeCurrent(s, r, n) ==
    EncodeStep(FreshEncoder(s), [gen |-> r.gen, step |-> r.pos], n)

(* Session::greet: the Hello and, unless it resumes or the run is moving,   *)
(* the state at the run's position.                                        *)
Greeting(h, r, n) ==
    IF h.frame.kind = "resumed" \/ r.state = "running" \/ r.pos = None
    THEN [sess |-> h.sess, frames |-> <<h.frame>>]
    ELSE LET view == EncodeCurrent(h.sess, r, n)
         IN  [sess |-> view.sess, frames |-> <<h.frame>> \o view.frames]

Greet(s, seq, r, n) == Greeting(Hello(s, seq, r), r, n)

(* Session::regreet: a session for the run's current generation.           *)
Regreet(r, n) == Greet(NewSession(r.gen), NoResume, r, n)

(* encode_step after the greeting g, whose frames go first.                *)
EncodeAfter(g, o, n) == [EncodeStep(g.sess, o, n) EXCEPT !.frames = g.frames \o @]

(* Mutant: steps of an earlier run are not skipped.                        *)
TakeAnyStep(s, o, n) ==
    IF o.gen > s.gen THEN EncodeAfter(Regreet(run, n), o, n) ELSE EncodeStep(s, o, n)

(* What an owner does with a step: nothing with one of an earlier run, a    *)
(* regreet before one of a later run, then encode_step.                    *)
TakeStep(s, o, n) ==
    CASE o.gen < s.gen -> [sess |-> s, frames |-> <<>>, err |-> FALSE]
      [] o.gen = s.gen -> EncodeStep(s, o, n)
      [] o.gen > s.gen -> EncodeAfter(Regreet(run, n), o, n)

(* rpc.rs drain_pending: every step waiting in the channel, up to a lag or  *)
(* the first one the encoder refuses.                                      *)
DrainOne(acc, o, n) ==
    LET e == EncodeStep(acc.sess, o, n)
    IN  IF acc.err
        THEN [acc EXCEPT !.rest = Append(@, o)]
        ELSE [sess |-> e.sess, frames |-> acc.frames \o e.frames, err |-> e.err, rest |-> <<>>]

DrainPending(ch, lag, n) ==
    LET start == [sess |-> sess, frames |-> <<>>, err |-> FALSE, rest |-> <<>>]
    IN  IF lag THEN [start EXCEPT !.rest = ch]
               ELSE FoldLeft(LAMBDA acc, o : DrainOne(acc, o, n), start, ch)

-----------------------------------------------------------------------------
Init ==
    /\ workload \in Workloads
    /\ run = [gen |-> 0, pos |-> None, state |-> "running"]
    /\ held = <<>> /\ chan = <<>> /\ lost = FALSE
    /\ sess = [NewSession(0) EXCEPT !.resync = TRUE]
    /\ owner = "socket" /\ cgen = 0
    /\ net = <<>>
    /\ client = [gen |-> 0, next |-> 0, view |-> None, table |-> Table, token |-> TRUE,
                 astray |-> FALSE]

DataChoices == IF "data" \in Events THEN Companions ELSE {0}

MayEncode == sess.seq < workload.maxSeq
MaySend   == owner = "socket" /\ Len(net) < NetCap /\ MayEncode

(* broadcast::Sender::send, as the session's receiver sees it.             *)
Overwrites == Len(chan) = ChanCap
Sent(o) == IF Overwrites THEN Append(Tail(chan), o) ELSE Append(chan, o)

(* LiveEngine::step: the next step, and the end of the run with the last.   *)
Advanced ==
    [run EXCEPT !.pos = @ + 1, !.state = IF run.pos + 1 = LastStep THEN "finished" ELSE @]

(* Run::tick, from the producer or another client's run.step: the step is   *)
(* emitted under the lock and broadcast after it.                          *)
TickEmits ==
    /\ run.state = "running" \/ "step" \in Events
    /\ held = <<>> /\ run.pos < LastStep
    /\ run' = Advanced
    /\ held' = <<[gen |-> run.gen, step |-> run.pos + 1]>>
    /\ UNCHANGED <<chanVars, sess, owner, cgen, net, client>>

TickBroadcasts ==
    /\ held # <<>>
    /\ held' = <<>>
    /\ chan' = Sent(held[1])
    /\ lost' = (lost \/ Overwrites)
    /\ UNCHANGED <<run, sess, owner, cgen, net, client>>

(* run.pause, run.resume, run.seek and run.start of another client.        *)
OtherPauses ==
    /\ run.state = "running"
    /\ run' = [run EXCEPT !.state = "paused"]
    /\ UNCHANGED <<held, chanVars, sess, owner, cgen, net, client>>

Resumes ==
    /\ run.state = "paused"
    /\ run' = [run EXCEPT !.state = "running"]
    /\ UNCHANGED <<held, chanVars, sess, owner, cgen, net, client>>

Sought(t) ==
    [run EXCEPT !.pos = t, !.state = IF @ = "running" THEN "paused" ELSE @]

OtherSeeks(t) ==
    /\ "other_seek" \in Events
    /\ run' = Sought(t)
    /\ UNCHANGED <<held, chanVars, sess, owner, cgen, net, client>>

Started(paused) ==
    [gen |-> run.gen + 1, pos |-> None, state |-> IF paused THEN "paused" ELSE "running"]

MayStart == "start" \in Events /\ run.state # "running" /\ run.gen < MaxGen

OtherStarts(paused) ==
    /\ MayStart
    /\ run' = Started(paused)
    /\ UNCHANGED <<held, chanVars, sess, owner, cgen, net, client>>

-----------------------------------------------------------------------------
(* The connection loop of the socket that owns the session.                *)

(* The session as r leaves it, and what is sent: first, then r's frames.   *)
Deliver(first, r) == sess' = r.sess /\ net' = net \o first \o r.frames

(* A session whose encoder refuses a step is given up.                     *)
ConnectionTakes(n) ==
    /\ MaySend /\ chan # <<>> /\ ~lost
    /\ chan' = Tail(chan)
    /\ \E r \in {TakeStep(sess, Head(chan), n)} :
          /\ Deliver(<<>>, r)
          /\ owner' = IF r.err THEN "gone" ELSE owner
    /\ UNCHANGED <<runVars, lost, cgen, client>>

ConnectionLags ==
    /\ owner = "socket" /\ lost
    /\ lost' = FALSE
    /\ sess' = [sess EXCEPT !.resync = TRUE]
    /\ UNCHANGED <<runVars, chan, owner, cgen, net, client>>

GenerationChanges(n) ==
    /\ MaySend /\ sess.gen # run.gen
    /\ Deliver(<<>>, Regreet(run, n))
    /\ UNCHANGED <<runVars, chanVars, owner, cgen, client>>

(* The session s, greeted anew if the run is no longer the one it streams. *)
Current(s, r, n) ==
    IF s.gen # r.gen THEN Regreet(r, n) ELSE [sess |-> s, frames |-> <<>>]

(* Mutant: the reply overtakes the frames it promises.                     *)
AnswerFirst(s, frames, reply, r, n) == Deliver(<<reply>> \o frames, Current(s, r, n))

(* handle_text after a call that succeeded: the frames it promised, the     *)
(* reply, and a fresh Hello if the run was replaced.                       *)
Answer(s, frames, reply, r, n) == Deliver(Append(frames, reply), Current(s, r, n))

(* History: whether the client's stream has gone astray, because a call      *)
(* drained a step of another run into it or its socket was lost with the    *)
(* Hello of a new run unread.                                              *)
Astray(now) == [client EXCEPT !.astray = @ \/ now]

(* A call that drains the channel ch, as left by the run r, before its      *)
(* reply.  An encoder error refuses the call; what was encoded is not sent. *)
DrainAndAnswer(ch, lag, r, reply, n) ==
    /\ run' = r
    /\ \E d \in {DrainPending(ch, lag, n)} :
          /\ chan' = d.rest /\ lost' = FALSE
          /\ IF d.err THEN sess' = d.sess /\ UNCHANGED net
                      ELSE Answer(d.sess, d.frames, reply, r, n)
    /\ client' = Astray(~lag /\ \E i \in DOMAIN ch : ch[i].gen # sess.gen)
    /\ UNCHANGED <<held, owner, cgen>>

(* run.pause of this client.                                               *)
RunPause(n) ==
    /\ "pause" \in Events /\ MaySend /\ run.state = "running"
    /\ DrainAndAnswer(chan, lost, [run EXCEPT !.state = "paused"],
                      Reply("pause", run.pos), n)

(* run.step of this client.                                                *)
RunStep(n) ==
    LET o == [gen |-> run.gen, step |-> run.pos + 1]
    IN  /\ "step" \in Events /\ MaySend /\ run.state # "running" /\ run.pos < LastStep
        /\ DrainAndAnswer(Sent(o), lost \/ Overwrites, Advanced,
                          Reply("step", run.pos + 1), n)

(* LiveEngine::seek returns the steps from the start of the target's GOP.   *)
SeekOutputs(t) ==
    LET first == t - ((t - 1) % Period)
    IN  [i \in 1 .. t - first + 1 |-> [gen |-> run.gen, step |-> first + i - 1]]

(* Session::encode_seek: a fresh encoder, every frame to the ring, and the  *)
(* telemetry frame to the socket only.                                     *)
EncodeOne(acc, o) ==
    LET f == Snapshot(acc.sess, o)
        s == Encoded(acc.sess, f)
    IN  [sess |-> [s EXCEPT !.ring = RingPush(@, f)], frames |-> Append(acc.frames, f)]

EncodeSeek(s, outputs, n) ==
    LET first == EncodeOne([sess |-> [FreshEncoder(s) EXCEPT !.resync = FALSE], frames |-> <<>>],
                           Head(outputs))
        gop   == FoldLeft(EncodeOne, first, Tail(outputs))
        end   == [gop.sess EXCEPT !.resync = s.resync]
    IN  IF n = 0
        THEN [sess |-> end, frames |-> gop.frames]
        ELSE [sess |-> [end EXCEPT !.seq = @ + 1, !.loose = @ \cup {end.seq}],
              frames |-> Append(gop.frames, DataFrame(end, outputs[Len(outputs)]))]

(* run.seek of this client: the run is moved even when the session turns    *)
(* out to be of an earlier run.                                            *)
RunSeek(t, n) ==
    /\ "seek" \in Events /\ MaySend
    /\ run' = Sought(t)
    /\ IF sess.gen # run.gen
       THEN UNCHANGED <<sess, net>>
       ELSE \E e \in {EncodeSeek(sess, SeekOutputs(t), n)} :
               Answer(e.sess, e.frames, Reply("seek", t), run, n)
    /\ UNCHANGED <<held, chanVars, owner, cgen, client>>

(* run.start of this client.                                               *)
RunStart(paused, n) ==
    /\ MayStart /\ MaySend
    /\ run' = Started(paused)
    /\ Answer(sess, <<>>, Reply("start", None), Started(paused), n)
    /\ UNCHANGED <<held, chanVars, owner, cgen, client>>

-----------------------------------------------------------------------------
(* The socket goes away with what is in flight, and the session is parked.  *)
SocketDies ==
    /\ "drop" \in Events /\ owner = "socket"
    /\ owner' = "parked"
    /\ cgen' = sess.gen
    /\ net' = <<>>
    /\ client' = Astray(\E i \in DOMAIN net : net[i].kind = "hello" /\ net[i].gen # client.gen)
    /\ UNCHANGED <<runVars, chanVars, sess>>

(* parked_task.                                                            *)
ParkedTakes(n) ==
    /\ owner = "parked" /\ MayEncode /\ chan # <<>> /\ ~lost
    /\ chan' = Tail(chan)
    /\ \E r \in {TakeStep(sess, Head(chan), n)} :
          /\ sess' = r.sess
          /\ owner' = IF r.err THEN "gone" ELSE owner
    /\ UNCHANGED <<runVars, lost, cgen, net, client>>

ParkedLags ==
    /\ owner = "parked" /\ lost
    /\ lost' = FALSE
    /\ sess' = [sess EXCEPT !.resync = TRUE]
    /\ UNCHANGED <<runVars, chan, owner, cgen, net, client>>

(* Mutant: a session that moved to a new run while parked is resumed.      *)
ReattachAcross(n) ==
    /\ owner = "parked" /\ client.token /\ MayEncode
    /\ owner' = "socket"
    /\ \E g \in {IF sess.gen # run.gen THEN Regreet(run, n) ELSE Greet(sess, client.next, run, n)} :
          /\ sess' = g.sess
          /\ net' = IF Head(g.frames).kind = "resumed"
                    THEN g.frames \o ReplayFrom(sess.ring, client.next) ELSE g.frames
    /\ UNCHANGED <<runVars, chanVars, cgen, client>>

(* attach, for a client whose token names the parked session.  A resumed    *)
(* Hello is the only frame of its greeting; the replay follows it.         *)
Reattach(n) ==
    LET seq == IF cgen = sess.gen THEN client.next ELSE NoResume
        greeting == IF sess.gen # run.gen THEN Regreet(run, n)
                                          ELSE Greet(sess, seq, run, n)
    IN  /\ owner = "parked" /\ client.token /\ MayEncode
        /\ owner' = "socket"
        /\ \E g \in {greeting} :
              /\ sess' = g.sess
              /\ net' = IF Head(g.frames).kind = "resumed"
                        THEN g.frames \o ReplayFrom(sess.ring, seq) ELSE g.frames
        /\ UNCHANGED <<runVars, chanVars, cgen, client>>

(* attach, for a client whose session the server does not hold.            *)
AttachFresh(n) ==
    /\ owner = "gone" \/ (owner = "parked" /\ ("expire" \in Events \/ ~client.token))
    /\ owner' = "socket"
    /\ \E g \in {Regreet(run, n)} : sess' = g.sess /\ net' = g.frames
    /\ chan' = <<>> /\ lost' = FALSE
    /\ client' = [client EXCEPT !.token = FALSE]
    /\ UNCHANGED <<runVars, cgen>>

(* client.ts handleBinaryFrame.                                            *)
Applied(f) ==
    CASE f.kind = "hello" ->
            [client EXCEPT !.gen = f.gen, !.next = f.seq, !.view = None, !.table = f.table,
                           !.token = TRUE]
      [] f.kind = "resumed" ->
            [client EXCEPT !.gen = f.gen, !.next = f.seq, !.table = Max({@, f.table})]
      [] f.kind \in {"key", "delta"} ->
            [client EXCEPT !.next = f.seq + 1, !.view = f.step]
      [] f.kind = "prov" ->
            [client EXCEPT !.next = f.seq + 1, !.table = @ + 1]
      [] f.kind = "data" ->
            [client EXCEPT !.next = f.seq + 1]
      [] OTHER -> client

ClientReceives ==
    /\ net # <<>>
    /\ client' = Applied(Head(net))
    /\ net' = Tail(net)
    /\ UNCHANGED <<runVars, chanVars, sess, owner, cgen>>

Moves ==
    \/ TickEmits \/ TickBroadcasts \/ OtherPauses \/ Resumes
    \/ \E t \in 1 .. LastStep : OtherSeeks(t)
    \/ \E paused \in BOOLEAN : OtherStarts(paused)
    \/ ConnectionLags \/ SocketDies \/ ParkedLags \/ ClientReceives
    \/ \E n \in DataChoices :
          \/ ConnectionTakes(n) \/ GenerationChanges(n)
          \/ RunPause(n) \/ RunStep(n)
          \/ \E t \in 1 .. LastStep : RunSeek(t, n)
          \/ \E paused \in BOOLEAN : RunStart(paused, n)
          \/ ParkedTakes(n) \/ Reattach(n) \/ AttachFresh(n)

Next == Moves /\ UNCHANGED workload

Spec == Init /\ [][Next]_vars

-----------------------------------------------------------------------------
FrameKinds == Kinds \cup {"hello", "resumed", "pause", "step", "seek", "start"}
Steps == 0 .. LastStep

FrameType ==
    [kind : FrameKinds, seq : Nat, gen : 0 .. MaxGen, step : Steps, base : Steps, table : Nat]

SessionType ==
    [gen : 0 .. MaxGen, seq : Nat, last : Steps, lastKey : Steps, resync : BOOLEAN,
     owed : BOOLEAN, table : Nat, marks : Seq([seq : Nat, len : Nat]), ring : Seq(FrameType),
     loose : SUBSET Nat]

(* Every variable keeps its type, and the bounded buffers their bounds.     *)
TypeOK ==
    /\ workload \in Workloads
    /\ run \in [gen : 0 .. MaxGen, pos : Steps, state : {"running", "paused", "finished"}]
    /\ held \in Seq([gen : 0 .. MaxGen, step : Steps]) /\ Len(held) <= 1
    /\ chan \in Seq([gen : 0 .. MaxGen, step : Steps]) /\ Len(chan) <= ChanCap
    /\ lost \in BOOLEAN
    /\ sess \in SessionType /\ Len(sess.ring) <= RingFrames
    /\ owner \in {"socket", "parked", "gone"}
    /\ cgen \in 0 .. MaxGen
    /\ net \in Seq(FrameType)
    /\ client \in [gen : 0 .. MaxGen, next : Nat, view : Steps, table : Nat, token : BOOLEAN,
                    astray : BOOLEAN]

Canonical(f) == f.kind \in Kinds

(* SnapshotEncoder writes a delta against the step it encoded last: it      *)
(* reaches a client that shows that very step, whatever was shed, lost,     *)
(* replayed or sought in between, unless the client's stream went astray.  *)
DeltaOnItsBase ==
    net # <<>> /\ Head(net).kind = "delta" /\ ~client.astray =>
        /\ client.view # None
        /\ client.view = Head(net).base

(* Where the queue sheds nothing, a canonical frame carries the sequence     *)
(* number the client expects, replays included.  The only numbers it may    *)
(* miss are those of telemetry frames sent after a seek, which are not      *)
(* retained.                                                               *)
OnlySeekDataMissed ==
    net # <<>> /\ Canonical(Head(net)) =>
        /\ client.next <= Head(net).seq
        /\ client.next .. Head(net).seq - 1 \subseteq sess.loose

(* The client's symbol table is as long as the server's was when it encoded *)
(* a frame that appends to it or names its entries: ids mean the same       *)
(* strings on both sides, across replays and resumed Hellos.               *)
TablesAgree ==
    net # <<>> /\ Head(net).kind \in {"prov", "data"} => client.table = Head(net).table

(* run.rs, "never encode one run's step against another run's tables": no   *)
(* frame of one run reaches a client last greeted for another, and no       *)
(* resume crosses runs, unless the client's stream went astray.  A session  *)
(* that the parked task moved to a new run is not resumed, and steps of the *)
(* old run still in the channel are skipped.                               *)
OneRunAtATime ==
    net # <<>> /\ (Canonical(Head(net)) \/ Head(net).kind = "resumed") /\ ~client.astray =>
        Head(net).gen = client.gen

(* The newest keyframe leaves the ring only when min_frames frames or more  *)
(* have followed it: with fewer, a client that has just dropped can resume  *)
(* whatever the frames weigh.                                              *)
NewestKeyKept ==
    sess.lastKey # None =>
        \/ Len(sess.ring) >= MinFrames
        \/ \E i \in DOMAIN sess.ring :
              sess.ring[i].kind = "key" /\ sess.ring[i].step = sess.lastKey

(* What a resume rests on: the buffers keep their types and bounds, a replay *)
(* misses no retained number, and the newest keyframe is not given up        *)
(* early, whatever was lost, evicted, sought or expired.                     *)
ResumeSound == TypeOK /\ OnlySeekDataMissed /\ NewestKeyKept

(* Nothing is in flight, in the channel or owed to the client.              *)
Quiet ==
    /\ held = <<>> /\ chan = <<>> /\ ~lost /\ net = <<>>
    /\ owner = "socket" /\ sess.gen = run.gen /\ ~sess.resync

(* Where no client seeks: when nothing is in flight or owed, the client      *)
(* shows the run's position.  Every step the connection took was encoded,    *)
(* or covered by a greeting.                                                *)
ShowsPosition ==
    Events \cap {"seek", "other_seek"} = {} /\ Quiet => client.view = run.pos

(* When the reply to run.seek arrives, the client shows the instant the      *)
(* reply names: run_seek sends every frame of the target's GOP first.       *)
SeekIsComplete  == net # <<>> /\ Head(net).kind = "seek" => client.view = Head(net).step

-----------------------------------------------------------------------------
(* What comments in the code say and the code does not keep.  The README    *)
(* gives the behaviours that refute each.                                  *)

(* vwp-v1.md 1.4, a resumed stream has "no `seq` gap".                      *)
NoSeqGap == net # <<>> /\ Canonical(Head(net)) => Head(net).seq = client.next

(* ring.rs, MIN_GOPS, "The ring holds at least two GOPs": the newest keyframe *)
(* stays in it.                                                            *)
LatestGopKept ==
    sess.lastKey # None => \E i \in DOMAIN sess.ring :
        sess.ring[i].kind = "key" /\ sess.ring[i].step = sess.lastKey

(* attach, "never a resume across runs", and drain_pending: whatever was     *)
(* lost or drained, no frame of one run reaches a client greeted for another. *)
NeverAcrossRuns ==
    net # <<>> /\ (Canonical(Head(net)) \/ Head(net).kind = "resumed") =>
        Head(net).gen = client.gen

(* When nothing is in flight or owed, the client shows the run's position,   *)
(* seeks included.                                                          *)
ShowsSoughtPosition == Quiet => client.view = run.pos

(* Where no greeting has shown a later state, a step the connection takes   *)
(* from its own run is encoded.                                            *)
TakenIsEncoded ==
    [][chan # <<>> /\ chan' = Tail(chan) /\ Head(chan).gen = sess.gen =>
          sess'.last = Head(chan).step]_vars

(* When the reply to run.pause arrives, the client shows the instant the     *)
(* reply names: run_pause drains the session's steps before it answers.     *)
PauseIsComplete == net # <<>> /\ Head(net).kind = "pause" => client.view = Head(net).step

=============================================================================
