------------------------------ MODULE ResumeRing ------------------------------
(***************************************************************************)
(* The two bounded buffers of a session (crates/v2xw-server/src/ring.rs):   *)
(* the resume ring of the frames it produced and the send queue of one      *)
(* step's frames.  Both are sequences of frames with a kind and a size;     *)
(* Bytes gives the size of a frame of each kind.                           *)
(***************************************************************************)
EXTENDS Integers, Sequences, FiniteSetsExt

CONSTANTS
    Bytes,       \* size of a frame, by kind
    MinFrames,   \* min_frames: MIN_GOPS * frames per GOP
    RingFrames,  \* MAX_RING_FRAMES
    RingBytes,   \* MAX_RING_BYTES
    QueueFrames, \* DEFAULT_MAX_FRAMES
    QueueBytes   \* DEFAULT_MAX_BYTES

Kinds == {"key", "delta", "prov", "data"}

ASSUME BufferAssumption ==
    /\ Bytes \in [Kinds -> Nat \ {0}]
    /\ MinFrames \in Nat /\ MinFrames >= 2
    /\ RingFrames \in Nat \ {0} /\ RingBytes \in Nat \ {0}
    /\ QueueFrames \in Nat \ {0} /\ QueueBytes \in Nat \ {0}

SizeOf(s) == MapThenSumSet(LAMBDA i : Bytes[s[i].kind], DOMAIN s)

LastOf(s, n) == SubSeq(s, Len(s) - n + 1, Len(s))

-----------------------------------------------------------------------------
(* Mutant: no floor of min_frames.                                         *)
KeptByCapsOnly(s) ==
    Max({n \in 0 .. Len(s) : n <= RingFrames /\ SizeOf(LastOf(s, n)) <= RingBytes})

(* ResumeRing::push keeps as many of the newest frames as both caps allow,  *)
(* and min_frames of them whatever their size.                             *)
Kept(s) ==
    LET fits(n) == n <= MinFrames \/ (n <= RingFrames /\ SizeOf(LastOf(s, n)) <= RingBytes)
    IN  Min({RingFrames, Max({n \in 0 .. Len(s) : fits(n)})})

RingPush(ring, f) == LET s == Append(ring, f) IN LastOf(s, Kept(s))

RingSeqs(ring) == {ring[i].seq : i \in DOMAIN ring}

(* ResumeRing::can_resume: the frame and a keyframe at or before it.       *)
RingCanResume(ring, seq) ==
    \E i \in DOMAIN ring :
        /\ ring[i].seq = seq
        /\ \E j \in 1 .. i : ring[j].kind = "key"

(* Mutant: the frame asked for is not replayed.                            *)
ReplayAfter(ring, seq) == SelectSeq(ring, LAMBDA f : f.seq > seq)

(* ResumeRing::replay_from.                                                *)
ReplayFrom(ring, seq) == SelectSeq(ring, LAMBDA f : f.seq >= seq)

-----------------------------------------------------------------------------
(* SendQueue::enqueue, for the frames that reach it: a keyframe is P1, a    *)
(* delta P2, anything else P3.                                             *)
Droppable(f) == f.kind \notin {"key", "delta"}

Exceeds(q, f) == Len(q) + 1 > QueueFrames \/ SizeOf(q) + Bytes[f.kind] > QueueBytes

(* The oldest P3 frames go until the new one fits or none is left.         *)
ShedOldest(q, f) ==
    LET p3 == {q[i].seq : i \in {j \in DOMAIN q : Droppable(q[j])}}
        without(n) == SelectSeq(q, LAMBDA g :
                          Droppable(g) => Cardinality({s \in p3 : s <= g.seq}) > n)
        enough == {n \in 0 .. Cardinality(p3) : ~Exceeds(without(n), f)}
    IN  without(IF enough = {} THEN Cardinality(p3) ELSE Min(enough))

(* A frame that still does not fit is dropped itself.                      *)
Admit(q, f) == IF Exceeds(q, f) THEN q ELSE Append(q, f)

(* Mutant: deltas are dropped and no keyframe is owed.                     *)
EnqueueForgetsResync(q, f) ==
    LET calm == IF Exceeds(q, f) THEN SelectSeq(q, LAMBDA g : g.kind # "delta") ELSE q
    IN  [items |-> Admit(ShedOldest(calm, f), f), resync |-> FALSE]

(* The queue after enqueue, and whether it shed a delta, which makes the     *)
(* session owe a resync keyframe.                                          *)
Enqueue(q, f) ==
    LET coalesced == IF f.kind = "key" THEN SelectSeq(q, LAMBDA g : g.kind # "key") ELSE q
        calm      == IF Exceeds(coalesced, f)
                     THEN SelectSeq(coalesced, LAMBDA g : g.kind # "delta")
                     ELSE coalesced
    IN  [items  |-> Admit(ShedOldest(calm, f), f),
         resync |-> Len(calm) < Len(coalesced)]

=============================================================================
