--------------------------- MODULE SchedulerProofs ---------------------------
(***************************************************************************)
(* Proofs about Scheduler for every horizon, priority table, compaction    *)
(* floor and build.                                                        *)
(***************************************************************************)
EXTENDS Scheduler, FiniteSetTheorems, TLAPS

(* Sequence numbers are handed out once, so they name heap entries.        *)
SeqsAreFresh ==
    /\ \A e \in heap : e.seq < nextSeq
    /\ \A e, f \in heap : e.seq = f.seq => e = f
    /\ \A s \in live : \E e \in heap : e.seq = s
    /\ lastKey.seq < nextSeq

(* Nothing pending lies in the past.                                       *)
NothingPast ==
    /\ lastKey.time = now
    /\ \A e \in Pending : e.time >= now

Behind == {e \in Pending : KeyLess(e, lastKey)}

(* The counters that the code keeps instead of counting.                   *)
Counts ==
    /\ IsFiniteSet(heap)
    /\ IsFiniteSet(live)
    /\ Cardinality(live) = Cardinality(Pending)
    /\ dead = Cardinality(heap \ Pending)
    /\ Cardinality(live) <= peak
    /\ dead <= Larger(CompactFloor, peak)

DebtCovers == Cardinality(Behind) <= debt

IInv == TypeOK /\ SeqsAreFresh /\ NothingPast /\ Counts /\ DebtCovers

USE DEF Time, Priority, EventKey, NoKey, Calendar!NoKey, Calendar!Time,
        Calendar!Priority, Calendar!EventKey

(* The order of keys, as the prover needs it.                              *)
LEMMA KeyOrder ==
    ASSUME NEW a \in EventKey \cup {NoKey}, NEW b \in EventKey \cup {NoKey},
           NEW c \in EventKey \cup {NoKey}
    PROVE  /\ ~KeyLess(a, a)
           /\ KeyLess(a, b) => ~KeyLess(b, a)
           /\ KeyLess(a, b) /\ KeyLess(b, c) => KeyLess(a, c)
           /\ KeyLess(a, b) => a.time <= b.time
  <1>1. /\ a.time \in Int /\ a.priority \in Int /\ a.seq \in Int
        /\ b.time \in Int /\ b.priority \in Int /\ b.seq \in Int
        /\ c.time \in Int /\ c.priority \in Int /\ c.seq \in Int
    BY SchedulerAssumption
  <1> QED BY <1>1 DEF KeyLess, Calendar!KeyLess

LEMMA InitInv == Init => IInv
  <1> SUFFICES ASSUME Init PROVE IInv
    OBVIOUS
  <1>1. TypeOK
    BY SchedulerAssumption DEF Init, TypeOK
  <1>2. SeqsAreFresh /\ NothingPast
    BY DEF Init, SeqsAreFresh, NothingPast, Pending
  <1>3. Pending = {} /\ Behind = {} /\ heap \ Pending = {}
    BY DEF Init, Pending, Behind
  <1>4. Counts /\ DebtCovers
    BY <1>3, FS_EmptySet, SchedulerAssumption DEF Init, Counts, DebtCovers, Larger
  <1> QED BY <1>1, <1>2, <1>4 DEF IInv

(* What the invariant says of the finite sets the counters stand for.      *)
LEMMA FiniteParts ==
    ASSUME IInv
    PROVE  /\ IsFiniteSet(heap) /\ IsFiniteSet(live) /\ IsFiniteSet(Pending)
           /\ IsFiniteSet(heap \ Pending) /\ IsFiniteSet(Behind)
           /\ Cardinality(heap) \in Nat /\ Cardinality(live) \in Nat
           /\ Cardinality(Pending) \in Nat /\ Cardinality(heap \ Pending) \in Nat
           /\ Cardinality(Behind) \in Nat
           /\ Cardinality(heap) = Cardinality(Pending) + Cardinality(heap \ Pending)
  <1>1. IsFiniteSet(heap) /\ IsFiniteSet(live)
    BY DEF IInv, Counts
  <1>2. Pending \in SUBSET heap /\ Behind \in SUBSET heap /\ heap \ Pending \in SUBSET heap
    BY DEF Pending, Behind
  <1>3. IsFiniteSet(Pending) /\ IsFiniteSet(Behind) /\ IsFiniteSet(heap \ Pending)
    BY <1>1, <1>2, FS_Subset
  <1>4. heap \cap Pending = Pending
    BY <1>2
  <1>5. /\ Cardinality(heap) \in Nat /\ Cardinality(live) \in Nat
        /\ Cardinality(Pending) \in Nat /\ Cardinality(heap \ Pending) \in Nat
        /\ Cardinality(Behind) \in Nat
    BY <1>1, <1>3, FS_CardinalityType
  <1>6. Cardinality(heap \ Pending) = Cardinality(heap) - Cardinality(heap \cap Pending)
    BY <1>1, FS_Difference
  <1>7. Cardinality(heap \ Pending) = Cardinality(heap) - Cardinality(Pending)
    BY <1>4, <1>6
  <1>8. Cardinality(heap) = Cardinality(Pending) + Cardinality(heap \ Pending)
    BY <1>5, <1>7
  <1> QED BY <1>1, <1>3, <1>5, <1>8

(* A new event is pending, and the debt covers it when it goes back.       *)
LEMMA PushStep ==
    ASSUME IInv, NEW t \in Time, NEW p \in Priority, t >= now, Push(t, p),
           debt' = IF NotBefore(t, p, lastKey) THEN debt ELSE debt + 1
    PROVE  /\ IInv'
           /\ Pending' = Pending \cup {[time |-> t, priority |-> p, seq |-> nextSeq]}
  <1> DEFINE k == [time |-> t, priority |-> p, seq |-> nextSeq]
  <1>0. TypeOK /\ SeqsAreFresh /\ NothingPast /\ Counts /\ DebtCovers
    BY DEF IInv
  <1>1. /\ heap' = heap \cup {k} /\ live' = live \cup {nextSeq} /\ nextSeq' = nextSeq + 1
        /\ peak' = Larger(peak, Cardinality(live) + 1)
        /\ dead' = dead /\ now' = now /\ lastKey' = lastKey
    BY DEF Push
  <1>2. k \in EventKey /\ k.seq = nextSeq /\ k.time = t /\ k.priority = p
    BY <1>0 DEF TypeOK
  <1> HIDE DEF k
  <1>3. k \notin heap /\ nextSeq \notin live /\ \A e \in heap : e.seq # nextSeq
    BY <1>0, <1>2 DEF SeqsAreFresh, TypeOK
  <1>4. Pending' = Pending \cup {k} /\ k \notin Pending
    BY <1>1, <1>2, <1>3 DEF Pending
  <1>5. heap' \ Pending' = heap \ Pending
    BY <1>1, <1>3, <1>4
  <1>6. TypeOK'
    <2>1. Cardinality(live) \in Nat
      BY FiniteParts
    <2>2. peak' \in Nat /\ debt' \in Nat
      BY <1>0, <1>1, <2>1 DEF Larger, TypeOK
    <2>3. nextSeq' \in Nat /\ live' \in SUBSET Nat /\ heap' \in SUBSET EventKey
      BY <1>0, <1>1, <1>2 DEF TypeOK
    <2> QED BY <1>0, <1>1, <2>2, <2>3 DEF TypeOK
  <1>7. SeqsAreFresh'
    <2>1. \A e \in heap' : e.seq < nextSeq'
      BY <1>0, <1>1, <1>2 DEF SeqsAreFresh, TypeOK
    <2>2. \A e, f \in heap' : e.seq = f.seq => e = f
      BY <1>0, <1>1, <1>2, <1>3 DEF SeqsAreFresh
    <2>3. \A s \in live' : \E e \in heap' : e.seq = s
      BY <1>0, <1>1, <1>2 DEF SeqsAreFresh
    <2>4. lastKey.seq \in Int
      BY <1>0 DEF TypeOK
    <2>5. lastKey'.seq < nextSeq'
      BY <1>0, <1>1, <2>4 DEF SeqsAreFresh, TypeOK
    <2> QED BY <2>1, <2>2, <2>3, <2>5 DEF SeqsAreFresh
  <1>8. NothingPast'
    BY <1>0, <1>1, <1>2, <1>4 DEF NothingPast
  <1>9. Counts'
    <2>1. /\ IsFiniteSet(heap') /\ IsFiniteSet(live')
          /\ Cardinality(live') = Cardinality(live) + 1
          /\ Cardinality(Pending') = Cardinality(Pending) + 1
      BY <1>1, <1>3, <1>4, FiniteParts, FS_AddElement
    <2>2. Cardinality(live) \in Nat
      BY FiniteParts
    <2>3. Cardinality(live') <= peak' /\ dead' <= Larger(CompactFloor, peak')
      BY <1>0, <1>1, <2>1, <2>2, SchedulerAssumption DEF Counts, Larger, TypeOK
    <2> QED BY <1>0, <1>1, <1>5, <2>1, <2>3 DEF Counts
  <1>10. DebtCovers'
    <2>1. Cardinality(Behind) \in Nat /\ IsFiniteSet(Behind) /\ debt \in Nat
      BY <1>0, FiniteParts DEF TypeOK
    <2>2. CASE NotBefore(t, p, lastKey)
      <3>1. /\ lastKey.time \in Int /\ lastKey.priority \in Int /\ lastKey.seq \in Int
            /\ t \in Int /\ p \in Int /\ nextSeq \in Int
        BY <1>0, SchedulerAssumption DEF TypeOK
      <3>2. ~KeyLess(k, lastKey)
        BY <1>0, <1>2, <2>2, <3>1 DEF SeqsAreFresh, NotBefore, KeyLess,
             Calendar!NotBefore, Calendar!KeyLess
      <3>3. Behind' = Behind
        BY <1>1, <1>4, <3>2 DEF Behind
      <3> QED BY <1>0, <2>2, <3>3 DEF DebtCovers
    <2>3. CASE ~NotBefore(t, p, lastKey)
      <3>1. Behind' \in SUBSET (Behind \cup {k})
        BY <1>1, <1>4 DEF Behind
      <3>0. /\ IsFiniteSet(Behind \cup {k})
            /\ \/ Cardinality(Behind \cup {k}) = Cardinality(Behind)
               \/ Cardinality(Behind \cup {k}) = Cardinality(Behind) + 1
        BY <2>1, FS_AddElement
      <3>2. /\ IsFiniteSet(Behind \cup {k})
            /\ Cardinality(Behind \cup {k}) <= Cardinality(Behind) + 1
            /\ Cardinality(Behind \cup {k}) \in Nat
        BY <2>1, <3>0
      <3>3. Cardinality(Behind') <= Cardinality(Behind \cup {k}) /\ IsFiniteSet(Behind')
        BY <3>1, <3>2, FS_Subset
      <3>4. Cardinality(Behind') \in Nat
        BY <3>3, FS_CardinalityType
      <3> QED BY <1>0, <2>1, <2>3, <3>2, <3>3, <3>4 DEF DebtCovers
    <2> QED BY <2>2, <2>3
  <1> QED BY <1>4, <1>6, <1>7, <1>8, <1>9, <1>10 DEF IInv, k

(* Removing heap entries that are not pending, and removing live handles,  *)
(* keeps what the invariant says of sequence numbers.                      *)
LEMMA ShrinkSeqs ==
    ASSUME IInv, heap' \in SUBSET heap, live' \in SUBSET live, Pending' \in SUBSET heap',
           \A e \in Pending : e.seq \in live' => e \in heap',
           nextSeq' = nextSeq, lastKey' \in heap \cup {lastKey}
    PROVE  SeqsAreFresh'
  <1>0. TypeOK /\ SeqsAreFresh
    BY DEF IInv
  <1>1. \A e \in heap' : e.seq < nextSeq'
    BY <1>0 DEF SeqsAreFresh
  <1>2. \A e, f \in heap' : e.seq = f.seq => e = f
    BY <1>0 DEF SeqsAreFresh
  <1>3. \A s \in live' : \E e \in heap' : e.seq = s
    <2> SUFFICES ASSUME NEW s \in live' PROVE \E e \in heap' : e.seq = s
      OBVIOUS
    <2>1. PICK e \in heap : e.seq = s
      BY <1>0 DEF SeqsAreFresh
    <2>2. e \in Pending
      BY <2>1 DEF Pending
    <2> QED BY <2>1, <2>2
  <1>4. lastKey'.seq < nextSeq'
    BY <1>0 DEF SeqsAreFresh
  <1> QED BY <1>1, <1>2, <1>3, <1>4 DEF SeqsAreFresh

(* A live handle names one pending entry; without them there is one less    *)
(* of both.                                                                *)
LEMMA RemoveOne ==
    ASSUME IInv, NEW e \in Pending
    PROVE  /\ IsFiniteSet(live \ {e.seq}) /\ IsFiniteSet(Pending \ {e})
           /\ Cardinality(live \ {e.seq}) = Cardinality(live) - 1
           /\ Cardinality(Pending \ {e}) = Cardinality(Pending) - 1
           /\ Cardinality(live) \in Nat /\ Cardinality(live) > 0
  <1>1. e.seq \in live
    BY DEF Pending
  <1>2. IsFiniteSet(live) /\ IsFiniteSet(Pending)
    BY FiniteParts
  <1>3. /\ IsFiniteSet(live \ {e.seq}) /\ IsFiniteSet(Pending \ {e})
        /\ Cardinality(live \ {e.seq}) = Cardinality(live) - 1
        /\ Cardinality(Pending \ {e}) = Cardinality(Pending) - 1
    BY <1>1, <1>2, FS_RemoveElement
  <1>4. Cardinality(live \ {e.seq}) \in Nat /\ Cardinality(live) \in Nat
    BY <1>2, <1>3, FS_CardinalityType
  <1> QED BY <1>3, <1>4

(* cancel forgets one pending event; compaction keeps the others.          *)
LEMMA CancelStep ==
    ASSUME IInv, NEW s \in live, Cancel(s)
    PROVE  IInv' /\ \E e \in Pending : Pending' = Pending \ {e}
  <1>0. TypeOK /\ SeqsAreFresh /\ NothingPast /\ Counts /\ DebtCovers
    BY DEF IInv
  <1>1. PICK e \in heap : e.seq = s
    BY <1>0 DEF SeqsAreFresh
  <1>2. e \in Pending
    BY <1>1 DEF Pending
  <1>3. /\ live' = live \ {e.seq} /\ nextSeq' = nextSeq /\ now' = now
        /\ lastKey' = lastKey /\ debt' = debt /\ peak' = peak
    BY <1>1 DEF Cancel
  <1>4. \/ /\ NeedsCompaction(dead + 1, heap)
           /\ heap' = {f \in heap : f.seq \in live'} /\ dead' = 0
        \/ /\ ~NeedsCompaction(dead + 1, heap)
           /\ heap' = heap /\ dead' = dead + 1
    BY DEF Cancel
  <1>5. Pending' = Pending \ {e}
    <2>1. \A f \in heap : f.seq \in live' <=> f.seq \in live /\ f # e
      BY <1>0, <1>3 DEF SeqsAreFresh
    <2> QED BY <1>4, <2>1 DEF Pending
  <1>6. TypeOK'
    <2>1. dead' \in Nat
      BY <1>0, <1>4 DEF TypeOK
    <2>2. heap' \in SUBSET EventKey /\ live' \in SUBSET Nat
      BY <1>0, <1>3, <1>4 DEF TypeOK
    <2> QED BY <1>0, <1>3, <2>1, <2>2 DEF TypeOK
  <1>7. SeqsAreFresh'
    <2>1. heap' \in SUBSET heap /\ live' \in SUBSET live
      BY <1>3, <1>4
    <2>2. \A f \in Pending : f.seq \in live' => f \in heap'
      BY <1>4 DEF Pending
    <2>3. Pending' \in SUBSET heap'
      BY DEF Pending
    <2> QED BY <1>3, <2>1, <2>2, <2>3, ShrinkSeqs
  <1>8. NothingPast'
    BY <1>0, <1>3, <1>5 DEF NothingPast
  <1>9. Counts'
    <2>1. IsFiniteSet(heap')
      BY <1>4, FiniteParts, FS_Subset
    <2>2. /\ IsFiniteSet(live') /\ Cardinality(live') = Cardinality(live) - 1
          /\ Cardinality(Pending') = Cardinality(Pending) - 1
          /\ Cardinality(live) \in Nat
      BY <1>2, <1>3, <1>5, RemoveOne
    <2>3. Cardinality(live') <= peak' /\ Cardinality(live') = Cardinality(Pending')
      BY <1>0, <1>3, <2>2 DEF Counts, TypeOK
    <2>4. CASE NeedsCompaction(dead + 1, heap)
      <3>1. heap' \ Pending' = {}
        BY <1>4, <2>4 DEF Pending
      <3>2. dead' = Cardinality(heap' \ Pending') /\ dead' = 0
        BY <1>4, <2>4, <3>1, FS_EmptySet
      <3>3. dead' <= Larger(CompactFloor, peak')
        BY <1>6, <3>2, SchedulerAssumption DEF Larger, TypeOK
      <3> QED BY <2>1, <2>2, <2>3, <3>2, <3>3 DEF Counts
    <2>5. CASE ~NeedsCompaction(dead + 1, heap)
      <3>1. heap' = heap /\ dead' = dead + 1
        BY <1>4, <2>5
      <3>2. heap' \ Pending' = (heap \ Pending) \cup {e} /\ e \notin heap \ Pending
        BY <1>1, <1>2, <1>5, <3>1
      <3>3. Cardinality(heap' \ Pending') = Cardinality(heap \ Pending) + 1
        BY <3>2, FiniteParts, FS_AddElement
      <3>4. dead' = Cardinality(heap' \ Pending')
        BY <1>0, <3>1, <3>3 DEF Counts
      <3>5. /\ Cardinality(heap) = Cardinality(live) + dead
            /\ Cardinality(heap) \in Nat
        BY <1>0, FiniteParts DEF Counts
      <3>6. dead' <= CompactFloor \/ 2 * dead' <= Cardinality(live) + dead
        BY <1>0, <2>5, <3>1, <3>5, SchedulerAssumption DEF NeedsCompaction, TypeOK
      <3>7. dead' <= Larger(CompactFloor, peak')
        BY <1>0, <1>3, <2>2, <3>1, <3>6, SchedulerAssumption DEF Larger, TypeOK, Counts
      <3> QED BY <2>1, <2>2, <2>3, <3>4, <3>7 DEF Counts
    <2> QED BY <2>4, <2>5
  <1>10. DebtCovers'
    <2>1. Behind' \in SUBSET Behind
      BY <1>3, <1>5 DEF Behind
    <2>2. Cardinality(Behind') <= Cardinality(Behind) /\ IsFiniteSet(Behind')
      BY <2>1, FiniteParts, FS_Subset
    <2>3. Cardinality(Behind') \in Nat /\ Cardinality(Behind) \in Nat
      BY <2>2, FiniteParts, FS_CardinalityType
    <2> QED BY <1>0, <1>3, <2>2, <2>3 DEF DebtCovers, TypeOK
  <1> QED BY <1>2, <1>5, <1>6, <1>7, <1>8, <1>9, <1>10 DEF IInv

(* What peek and pop throw away is dead, and counted.                      *)
LEMMA PurgeCounts ==
    ASSUME IInv
    PROVE  /\ DeadHead \in SUBSET (heap \ Pending)
           /\ IsFiniteSet(heap \ DeadHead)
           /\ dead - Cardinality(DeadHead) \in Nat
           /\ dead - Cardinality(DeadHead) <= dead
           /\ Cardinality((heap \ Pending) \ DeadHead) = dead - Cardinality(DeadHead)
  <1>0. TypeOK /\ Counts
    BY DEF IInv
  <1>1. DeadHead \in SUBSET (heap \ Pending)
    BY DEF DeadHead
  <1>2. IsFiniteSet(heap) /\ IsFiniteSet(heap \ Pending)
    BY FiniteParts
  <1>3. IsFiniteSet(heap \ DeadHead) /\ IsFiniteSet((heap \ Pending) \ DeadHead)
        /\ IsFiniteSet(DeadHead)
    BY <1>1, <1>2, FS_Subset
  <1>4. (heap \ Pending) \cap DeadHead = DeadHead
    BY <1>1
  <1>5. Cardinality((heap \ Pending) \ DeadHead)
          = Cardinality(heap \ Pending) - Cardinality((heap \ Pending) \cap DeadHead)
    BY <1>2, FS_Difference
  <1>6. Cardinality((heap \ Pending) \ DeadHead) = dead - Cardinality(DeadHead)
    BY <1>0, <1>4, <1>5 DEF Counts
  <1>7. Cardinality((heap \ Pending) \ DeadHead) \in Nat /\ Cardinality(DeadHead) \in Nat
    BY <1>3, FS_CardinalityType
  <1>8. dead - Cardinality(DeadHead) <= dead
    BY <1>0, <1>7 DEF TypeOK
  <1> QED BY <1>1, <1>3, <1>6, <1>7, <1>8

(* peek, and a pop that finds nothing, change nothing that is pending.     *)
LEMMA PurgeStep ==
    ASSUME IInv, heap' = heap \ DeadHead, dead' = dead - Cardinality(DeadHead),
           UNCHANGED <<live, nextSeq, now, lastKey, debt, peak>>
    PROVE  IInv' /\ Pending' = Pending
  <1>0. TypeOK /\ SeqsAreFresh /\ NothingPast /\ Counts /\ DebtCovers
    BY DEF IInv
  <1>1. DeadHead \in SUBSET (heap \ Pending) /\ dead' \in Nat /\ dead' <= dead
        /\ IsFiniteSet(heap')
        /\ Cardinality((heap \ Pending) \ DeadHead) = dead'
    BY PurgeCounts
  <1>2. Pending' = Pending
    BY <1>1 DEF Pending
  <1>3. heap' \ Pending' = (heap \ Pending) \ DeadHead
    BY <1>2
  <1>4. TypeOK'
    BY <1>0, <1>1 DEF TypeOK
  <1>5. SeqsAreFresh'
    BY <1>1, <1>2, ShrinkSeqs DEF Pending
  <1>6. NothingPast' /\ DebtCovers'
    BY <1>0, <1>2 DEF NothingPast, DebtCovers, Behind
  <1>7. dead' <= Larger(CompactFloor, peak')
    BY <1>0, <1>1, SchedulerAssumption DEF Counts, TypeOK, Larger
  <1>8. Counts'
    BY <1>0, <1>1, <1>2, <1>3, <1>7 DEF Counts
  <1> QED BY <1>2, <1>4, <1>5, <1>6, <1>8 DEF IInv

(* pop takes the first pending event; nothing pending lies before it, so    *)
(* the debt that is left need cover nothing.                               *)
LEMMA PopStep ==
    ASSUME IInv, NEW e \in heap, Pop(e)
    PROVE  IInv' /\ e \in Pending /\ Pending' = Pending \ {e}
  <1>0. TypeOK /\ SeqsAreFresh /\ NothingPast /\ Counts /\ DebtCovers
    BY DEF IInv
  <1>1. /\ e \in Pending /\ \A f \in Pending \ {e} : KeyLess(e, f)
        /\ heap' = heap \ (DeadHead \cup {e}) /\ dead' = dead - Cardinality(DeadHead)
        /\ live' = live \ {e.seq} /\ now' = e.time /\ lastKey' = e /\ debt' = Repaid(e)
        /\ nextSeq' = nextSeq /\ peak' = peak
    BY DEF Pop, IsNext
  <1>2. DeadHead \in SUBSET (heap \ Pending) /\ dead' \in Nat /\ dead' <= dead
        /\ IsFiniteSet(heap \ DeadHead)
        /\ Cardinality((heap \ Pending) \ DeadHead) = dead'
    BY <1>1, PurgeCounts
  <1>3. \A f \in heap : f.seq \in live' <=> f.seq \in live /\ f # e
    BY <1>0, <1>1 DEF SeqsAreFresh
  <1>4. Pending' = Pending \ {e}
    BY <1>1, <1>2, <1>3 DEF Pending
  <1>5. heap' \ Pending' = (heap \ Pending) \ DeadHead
    BY <1>1, <1>4
  <1>6. Behind' = {}
    <2>1. \A f \in Pending \ {e} : ~KeyLess(f, e)
      <3> TAKE f \in Pending \ {e}
      <3>1. e \in EventKey /\ f \in EventKey
        BY <1>0 DEF TypeOK, Pending
      <3>2. KeyLess(e, f)
        BY <1>1
      <3> QED BY <3>1, <3>2, KeyOrder
    <2> QED BY <1>1, <1>4, <2>1 DEF Behind
  <1>7. debt' \in Nat
    <2>1. CASE KeyLess(e, lastKey)
      <3>1. e \in Behind
        BY <1>1, <2>1 DEF Behind
      <3>2. Cardinality(Behind) # 0 /\ Cardinality(Behind) \in Nat
        BY <3>1, FiniteParts, FS_EmptySet
      <3> QED BY <1>0, <1>1, <3>2 DEF DebtCovers, Repaid, TypeOK
    <2>2. CASE ~KeyLess(e, lastKey)
      BY <1>0, <1>1, <2>2 DEF Repaid, TypeOK
    <2> QED BY <2>1, <2>2
  <1>8. TypeOK'
    BY <1>0, <1>1, <1>2, <1>7 DEF TypeOK
  <1>9. SeqsAreFresh'
    <2>1. heap' \in SUBSET heap /\ live' \in SUBSET live /\ Pending' \in SUBSET heap'
      BY <1>1 DEF Pending
    <2>2. \A f \in Pending : f \in heap
      BY DEF Pending
    <2>3. \A f \in Pending : f.seq \in live' => f \in heap'
      BY <1>1, <1>2, <1>3, <2>2
    <2> QED BY <1>1, <2>1, <2>3, ShrinkSeqs
  <1>10. NothingPast'
    <2>1. \A f \in Pending \ {e} : f.time >= e.time
      <3> TAKE f \in Pending \ {e}
      <3>1. e \in EventKey /\ f \in EventKey
        BY <1>0 DEF TypeOK, Pending
      <3>2. KeyLess(e, f)
        BY <1>1
      <3> QED BY <3>1, <3>2, KeyOrder, SchedulerAssumption
    <2>2. \A f \in Pending' : f.time >= now'
      BY <1>1, <1>4, <2>1
    <2> QED BY <1>1, <2>2 DEF NothingPast
  <1>11. Counts'
    <2>1. IsFiniteSet(heap')
      BY <1>1, <1>2, FS_Subset
    <2>2. /\ IsFiniteSet(live') /\ Cardinality(live') = Cardinality(live) - 1
          /\ Cardinality(Pending') = Cardinality(Pending) - 1
          /\ Cardinality(live) \in Nat
      BY <1>1, <1>4, RemoveOne
    <2>3. Cardinality(live') <= peak' /\ Cardinality(live') = Cardinality(Pending')
      BY <1>0, <1>1, <2>2 DEF Counts, TypeOK
    <2>4. dead' <= Larger(CompactFloor, peak')
      BY <1>0, <1>1, <1>2, SchedulerAssumption DEF Counts, TypeOK, Larger
    <2> QED BY <1>2, <1>5, <2>1, <2>2, <2>3, <2>4 DEF Counts
  <1>12. DebtCovers'
    BY <1>6, <1>7, FS_EmptySet DEF DebtCovers
  <1> QED BY <1>1, <1>4, <1>8, <1>9, <1>10, <1>11, <1>12 DEF IInv

LEMMA ClearStep ==
    ASSUME IInv, Clear
    PROVE  IInv' /\ Pending' = {}
  <1>0. TypeOK /\ SeqsAreFresh /\ NothingPast /\ Counts /\ DebtCovers
    BY DEF IInv
  <1>1. /\ heap' = {} /\ live' = {} /\ dead' = 0 /\ nextSeq' = nextSeq /\ now' = now
        /\ lastKey' = lastKey /\ debt' = debt /\ peak' = peak
    BY DEF Clear
  <1>2. Pending' = {} /\ Behind' = {} /\ heap' \ Pending' = {}
    BY <1>1 DEF Pending, Behind
  <1>3. TypeOK'
    BY <1>0, <1>1 DEF TypeOK
  <1>4. SeqsAreFresh' /\ NothingPast'
    BY <1>0, <1>1, <1>2 DEF SeqsAreFresh, NothingPast
  <1>5. Counts' /\ DebtCovers'
    BY <1>0, <1>1, <1>2, FS_EmptySet, SchedulerAssumption DEF Counts, DebtCovers, Larger, TypeOK
  <1> QED BY <1>2, <1>3, <1>4, <1>5 DEF IInv

-----------------------------------------------------------------------------
(* Every step of the scheduler is a step of the calendar, and keeps the    *)
(* invariant.                                                              *)
LEMMA StepIsCalendarStep ==
    ASSUME IInv, [Next]_vars
    PROVE  IInv' /\ [Calendar!Next]_(Calendar!vars)
  <1>1. CASE \E t \in Time, p \in Priority :
                Schedule(t, p) \/ ScheduleAfter(t, p) \/ ScheduleReentrant(t, p)
    <2>1. PICK t \in Time, p \in Priority :
             Schedule(t, p) \/ ScheduleAfter(t, p) \/ ScheduleReentrant(t, p)
      BY <1>1
    <2>2. PICK u \in Time : Schedule(u, p) \/ ScheduleReentrant(u, p)
      <3>1. now \in Time
        BY DEF IInv, TypeOK
      <3>2. Smaller(now + t, MaxTime) \in Time
        BY <3>1, SchedulerAssumption DEF Smaller
      <3> QED BY <2>1, <3>2 DEF ScheduleAfter
    <2>3. u >= now /\ Push(u, p)
          /\ debt' = IF NotBefore(u, p, lastKey) THEN debt ELSE debt + 1
      BY <2>2 DEF Schedule, ScheduleReentrant
    <2>4. IInv' /\ Pending' = Pending \cup {[time |-> u, priority |-> p, seq |-> nextSeq]}
      BY <2>3, PushStep
    <2>5. Calendar!Schedule(u, p)
      BY <2>3, <2>4 DEF Calendar!Schedule, Push
    <2> QED BY <2>4, <2>5 DEF Calendar!Next
  <1>2. CASE \E s \in live : Cancel(s)
    <2>1. PICK s \in live : Cancel(s)
      BY <1>2
    <2>2. IInv' /\ \E e \in Pending : Pending' = Pending \ {e}
      BY <2>1, CancelStep
    <2>3. \E e \in Pending : Calendar!Cancel(e)
      BY <2>1, <2>2 DEF Calendar!Cancel, Cancel
    <2> QED BY <2>2, <2>3 DEF Calendar!Next
  <1>3. CASE \E e \in heap : Pop(e)
    <2>1. PICK e \in heap : Pop(e)
      BY <1>3
    <2>2. IInv' /\ e \in Pending /\ Pending' = Pending \ {e}
      BY <2>1, PopStep
    <2>3. Calendar!Dispatch(e)
      BY <2>1, <2>2 DEF Calendar!Dispatch, Pop, IsNext, KeyLess
    <2> QED BY <2>2, <2>3 DEF Calendar!Next
  <1>4. CASE Peek \/ PopNone
    <2>1. IInv' /\ Pending' = Pending
      BY <1>4, PurgeStep DEF Peek, PopNone
    <2>2. UNCHANGED Calendar!vars
      BY <1>4, <2>1 DEF Peek, PopNone, Calendar!vars
    <2> QED BY <2>1, <2>2
  <1>5. CASE Clear
    <2>1. IInv' /\ Pending' = {}
      BY <1>5, ClearStep
    <2>2. Calendar!Clear
      BY <1>5, <2>1 DEF Calendar!Clear, Clear
    <2> QED BY <2>1, <2>2 DEF Calendar!Next
  <1>6. CASE UNCHANGED vars
    <2>1. /\ heap' = heap /\ live' = live /\ dead' = dead /\ nextSeq' = nextSeq
          /\ now' = now /\ lastKey' = lastKey /\ debt' = debt /\ peak' = peak
      BY <1>6 DEF vars
    <2>2. Pending' = Pending
      BY <2>1 DEF Pending
    <2>3. Behind' = Behind
      BY <2>1, <2>2 DEF Behind
    <2>4. TypeOK' /\ SeqsAreFresh' /\ NothingPast' /\ Counts' /\ DebtCovers'
      BY <2>1, <2>2, <2>3 DEF IInv, TypeOK, SeqsAreFresh, NothingPast, Counts, DebtCovers
    <2> QED BY <2>1, <2>2, <2>4 DEF IInv, Calendar!vars
  <1> QED BY <1>1, <1>2, <1>3, <1>4, <1>5, <1>6 DEF Next

(* Every reachable state of the scheduler satisfies the strengthened       *)
(* invariant: the bookkeeping of push, cancel, pop and purge_head agrees   *)
(* with the heap.                                                          *)
THEOREM Inductive == Spec => []IInv
  <1>1. IInv /\ [Next]_vars => IInv'
    BY StepIsCalendarStep
  <1> QED BY InitInv, <1>1, PTL DEF Spec

(* No counter of the scheduler ever goes below zero, whatever the horizon. *)
THEOREM TypeCorrect == Spec => []TypeOK
  <1>1. IInv => TypeOK
    BY DEF IInv
  <1> QED BY Inductive, <1>1, PTL

(* The dead counter and the set of live handles are exact, so lazy          *)
(* cancellation never leaves a handle without its entry.                   *)
THEOREM DeadExact == Spec => []DeadIsExact
  <1>1. ASSUME IInv PROVE DeadIsExact
    <2>1. dead = Cardinality(heap \ Pending)
      BY <1>1 DEF IInv, Counts
    <2>2. \A s \in live : \E e \in Pending : e.seq = s
      BY <1>1 DEF IInv, SeqsAreFresh, Pending
    <2>3. \A e \in Pending : e.seq \in live
      BY DEF Pending
    <2> QED BY <2>1, <2>2, <2>3 DEF DeadIsExact
  <1> QED BY Inductive, <1>1, PTL

(* The heap stays within twice the most events that were ever pending      *)
(* together, or that plus the compaction floor.                            *)
THEOREM HeapIsBounded == Spec => []HeapBounded
  <1>1. ASSUME IInv PROVE HeapBounded
    <2>1. /\ Cardinality(heap) = Cardinality(live) + dead
          /\ Cardinality(live) \in Nat
      BY <1>1, FiniteParts DEF IInv, Counts
    <2>2. Cardinality(live) <= peak /\ dead <= Larger(CompactFloor, peak)
      BY <1>1 DEF IInv, Counts
    <2>3. dead \in Nat /\ peak \in Nat
      BY <1>1 DEF IInv, TypeOK
    <2> QED BY <2>1, <2>2, <2>3, SchedulerAssumption DEF HeapBounded, Larger
  <1> QED BY Inductive, <1>1, PTL

(* The debug assertion of check_dispatch_order cannot fire.                *)
THEOREM AssertionHolds == Spec => []DispatchAssertion
  <1>1. ASSUME IInv PROVE DispatchAssertion
    <2> SUFFICES ASSUME NEW e \in Pending, KeyLess(e, lastKey) PROVE debt > 0
      BY DEF DispatchAssertion
    <2>1. e \in Behind
      BY DEF Behind
    <2>2. Cardinality(Behind) # 0 /\ Cardinality(Behind) \in Nat
      BY <1>1, <2>1, FiniteParts, FS_EmptySet
    <2> QED BY <1>1, <2>2 DEF IInv, DebtCovers, TypeOK
  <1> QED BY Inductive, <1>1, PTL

(* Lazy cancellation, purging and compaction implement the calendar.       *)
THEOREM ImplementsCalendar == Spec => CalendarSpec
  <1>1. Init => Calendar!Init
    BY DEF Init, Calendar!Init, Pending
  <1>2. IInv /\ [Next]_vars => [Calendar!Next]_(Calendar!vars)
    BY StepIsCalendarStep
  <1> QED BY Inductive, <1>1, <1>2, PTL DEF Spec, CalendarSpec, Calendar!Spec

(* Simulated time never goes backwards.                                    *)
THEOREM ClockNeverGoesBack == Spec => ClockMonotone
  <1>1. ASSUME IInv, [Next]_vars PROVE [now' >= now]_vars
    <2>1. now \in Int
      BY <1>1, SchedulerAssumption DEF IInv, TypeOK
    <2>2. CASE \E e \in heap : Pop(e)
      <3>1. PICK e \in heap : Pop(e)
        BY <2>2
      <3>2. now' = e.time /\ e \in Pending
        BY <3>1 DEF Pop, IsNext
      <3> QED BY <1>1, <3>2 DEF IInv, NothingPast
    <2>3. CASE now' = now
      BY <2>1, <2>3
    <2>4. CASE ~ \E e \in heap : Pop(e)
      <3>1. now' = now
        BY <1>1, <2>4 DEF Next, Schedule, ScheduleAfter, ScheduleReentrant, Push, Cancel,
             Peek, PopNone, Clear, vars
      <3> QED BY <2>3, <3>1
    <2> QED BY <2>2, <2>4
  <1> QED BY Inductive, <1>1, PTL DEF Spec, ClockMonotone

(* Without outstanding reentrant schedules, keys are dispatched in order.  *)
THEOREM OrderedDispatch == Spec => DispatchInOrder
  <1>1. ASSUME IInv, [Next]_vars PROVE [debt = 0 => ~KeyLess(lastKey', lastKey)]_vars
    <2>1. TypeOK /\ DebtCovers
      BY <1>1 DEF IInv
    <2>2. CASE \E e \in heap : Pop(e)
      <3>1. PICK e \in heap : Pop(e)
        BY <2>2
      <3>2. lastKey' = e /\ e \in Pending
        BY <3>1 DEF Pop, IsNext
      <3>3. ASSUME debt = 0, KeyLess(e, lastKey) PROVE FALSE
        <4>1. e \in Behind
          BY <3>2, <3>3 DEF Behind
        <4>2. Cardinality(Behind) # 0 /\ Cardinality(Behind) \in Nat
          BY <1>1, <4>1, FiniteParts, FS_EmptySet
        <4> QED BY <2>1, <3>3, <4>2 DEF DebtCovers
      <3> QED BY <3>2, <3>3
    <2>3. CASE ~ \E e \in heap : Pop(e)
      <3>1. lastKey' = lastKey
        BY <1>1, <2>3 DEF Next, Schedule, ScheduleAfter, ScheduleReentrant, Push, Cancel,
             Peek, PopNone, Clear, vars
      <3>2. ~KeyLess(lastKey, lastKey)
        BY <2>1, KeyOrder DEF TypeOK
      <3> QED BY <3>1, <3>2
    <2> QED BY <2>2, <2>3
  <1> QED BY Inductive, <1>1, PTL DEF Spec, DispatchInOrder
==============================================================================
