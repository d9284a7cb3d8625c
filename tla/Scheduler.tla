------------------------------ MODULE Scheduler ------------------------------
(***************************************************************************)
(* The deterministic event scheduler of the simulation kernel              *)
(* (crates/v2xw-core/src/event.rs).                                        *)
(*                                                                         *)
(* One heap holds every event, ordered by (time, priority, seq).           *)
(* Cancellation is lazy: cancel only forgets the handle, pop and peek skip *)
(* the entries whose handle is no longer live, and cancel rebuilds the     *)
(* heap when dead entries outnumber the live ones.  The heap itself        *)
(* (std::collections::BinaryHeap) is a set of keys with a least element:    *)
(* keys are unique because seq is.                                         *)
(***************************************************************************)
EXTENDS Integers, FiniteSets

CONSTANTS
    MaxTime,       \* the last instant; stands for u64::MAX, where time saturates
    MaxPriority,   \* the latest of the class priorities (9 in the code)
    MaxSeq,        \* bound on the number of schedules of a behaviour
    CompactFloor,  \* dead entries tolerated whatever the heap's size (64)
    DebugBuild     \* cfg!(debug_assertions)

ASSUME SchedulerAssumption ==
    /\ MaxTime \in Nat
    /\ MaxPriority \in Nat
    /\ MaxSeq \in Nat
    /\ CompactFloor \in Nat
    /\ DebugBuild \in BOOLEAN

VARIABLES
    heap,     \* the keys physically in the heap
    live,     \* sequence numbers still scheduled
    dead,     \* count of heap entries that are no longer live
    nextSeq,
    now,      \* time of the last popped event
    lastKey,  \* key of the last popped event
    debt,     \* reentrant_debt
    peak      \* history: the most events ever pending at once

vars == <<heap, live, dead, nextSeq, now, lastKey, debt, peak>>

(* The events scheduled and neither fired nor cancelled.                   *)
Pending == {e \in heap : e.seq \in live}

Calendar == INSTANCE EventCalendar WITH pending <- Pending

Time     == 0 .. MaxTime
Priority == 0 .. MaxPriority
EventKey == [time : Time, priority : Priority, seq : Nat]
NoKey    == Calendar!NoKey

KeyLess(a, b)      == Calendar!KeyLess(a, b)
NotBefore(t, p, k) == Calendar!NotBefore(t, p, k)

Larger(a, b)  == IF a >= b THEN a ELSE b
Smaller(a, b) == IF a <= b THEN a ELSE b

TypeOK ==
    /\ heap \in SUBSET EventKey
    /\ live \in SUBSET Nat
    /\ dead \in Nat
    /\ nextSeq \in Nat
    /\ now \in Time
    /\ lastKey \in EventKey \cup {NoKey}
    /\ debt \in Nat
    /\ peak \in Nat

Init ==
    /\ heap = {}
    /\ live = {}
    /\ dead = 0
    /\ nextSeq = 0
    /\ now = 0
    /\ lastKey = NoKey
    /\ debt = 0
    /\ peak = 0

-----------------------------------------------------------------------------
(* The part schedule and schedule_reentrant share.                         *)
Push(t, p) ==
    /\ nextSeq < MaxSeq
    /\ heap' = heap \cup {[time |-> t, priority |-> p, seq |-> nextSeq]}
    /\ live' = live \cup {nextSeq}
    /\ nextSeq' = nextSeq + 1
    /\ peak' = Larger(peak, Cardinality(live) + 1)
    /\ UNCHANGED <<dead, now, lastKey>>

(* schedule asserts that the event lies neither in the past nor, at the    *)
(* current instant, before the priority being dispatched.                  *)
Schedule(t, p) ==
    /\ t >= now
    /\ NotBefore(t, p, lastKey)
    /\ Push(t, p)
    /\ UNCHANGED debt

(* schedule_after adds a delay to the current instant, saturating.         *)
ScheduleAfter(d, p) == Schedule(Smaller(now + d, MaxTime), p)

(* Mutant: the schedule that goes back is not remembered. *)
ScheduleReentrantForgets(t, p) ==
    /\ t >= now
    /\ Push(t, p)
    /\ UNCHANGED debt

(* schedule_reentrant may go back in priority, and remembers that it did.  *)
ScheduleReentrant(t, p) ==
    /\ t >= now
    /\ Push(t, p)
    /\ debt' = IF NotBefore(t, p, lastKey) THEN debt ELSE debt + 1

-----------------------------------------------------------------------------
(* cancel, with the compaction it ends in.                                 *)
NeedsCompaction(d, h) == d > CompactFloor /\ 2 * d > Cardinality(h)

(* Mutant: cancel never compacts. *)
CancelNeverCompacts(s) ==
    /\ s \in live
    /\ live' = live \ {s}
    /\ heap' = heap
    /\ dead' = dead + 1
    /\ UNCHANGED <<nextSeq, now, lastKey, debt, peak>>

Cancel(s) ==
    /\ s \in live
    /\ live' = live \ {s}
    /\ IF NeedsCompaction(dead + 1, heap)
       THEN heap' = {e \in heap : e.seq \in live'} /\ dead' = 0
       ELSE heap' = heap /\ dead' = dead + 1
    /\ UNCHANGED <<nextSeq, now, lastKey, debt, peak>>

(* The dead entries that sit in the heap before the first live one.        *)
DeadHead == {e \in heap \ Pending : \A f \in Pending : KeyLess(e, f)}

(* peek_time and peek_key discard them.                                    *)
Peek ==
    /\ heap' = heap \ DeadHead
    /\ dead' = dead - Cardinality(DeadHead)
    /\ UNCHANGED <<live, nextSeq, now, lastKey, debt, peak>>

(* pop discards them too and takes the first live entry, if there is one.  *)
(* check_dispatch_order pays a unit of debt for a key that goes back.      *)
(* Mutant: pop does not look whether the handle is live. *)
IsNextOfHeap(e) == \A f \in heap \ {e} : KeyLess(e, f)

IsNext(e) == e \in Pending /\ \A f \in Pending \ {e} : KeyLess(e, f)

Repaid(e) == IF DebugBuild /\ KeyLess(e, lastKey) THEN debt - 1 ELSE debt

Pop(e) ==
    /\ IsNext(e)
    /\ heap' = heap \ (DeadHead \cup {e})
    /\ dead' = dead - Cardinality(DeadHead)
    /\ live' = live \ {e.seq}
    /\ now' = e.time
    /\ lastKey' = e
    /\ debt' = Repaid(e)
    /\ UNCHANGED <<nextSeq, peak>>

PopNone ==
    /\ Pending = {}
    /\ heap' = heap \ DeadHead
    /\ dead' = dead - Cardinality(DeadHead)
    /\ UNCHANGED <<live, nextSeq, now, lastKey, debt, peak>>

Clear ==
    /\ heap' = {}
    /\ live' = {}
    /\ dead' = 0
    /\ UNCHANGED <<nextSeq, now, lastKey, debt, peak>>

-----------------------------------------------------------------------------
Next ==
    \/ \E t \in Time, p \in Priority :
          Schedule(t, p) \/ ScheduleAfter(t, p) \/ ScheduleReentrant(t, p)
    \/ \E s \in live : Cancel(s)
    \/ \E e \in heap : Pop(e)
    \/ Peek
    \/ PopNone
    \/ Clear

Spec == Init /\ [][Next]_vars

-----------------------------------------------------------------------------
(* The dead counter is exact, so `self.dead -= 1` in pop and purge_head    *)
(* never goes below zero and every live handle has its entry.              *)
DeadIsExact ==
    /\ dead = Cardinality(heap \ Pending)
    /\ live = {e.seq : e \in Pending}

(* "a run that cancels a far-future timer on every tick" does not grow the *)
(* heap for the whole run: the heap never holds more dead entries than the *)
(* floor or the most events that were ever pending at once.                *)
HeapBounded == Cardinality(heap) <= peak + Larger(CompactFloor, peak)

(* check_dispatch_order never fails in a debug build: whenever the next    *)
(* event lies before the last one dispatched, there is debt to pay.        *)
DispatchAssertion ==
    \A e \in Pending : DebugBuild /\ KeyLess(e, lastKey) => debt > 0

(* Simulated time never goes backwards, reentrant schedules included.      *)
ClockMonotone == [][now' >= now]_vars

(* Without outstanding reentrant schedules the keys come out in            *)
(* non-decreasing order, which recorders and keyframes rely on.            *)
DispatchInOrder == [][debt = 0 => ~KeyLess(lastKey', lastKey)]_vars

(* Lazy cancellation, purging and compaction are invisible: the scheduler  *)
(* behaves like a calendar from which a cancelled event is gone at once.   *)
CalendarSpec == Calendar!Spec

-----------------------------------------------------------------------------
(* What comments in the code say and the code does not keep.  The README    *)
(* gives the behaviours that refute each.                                  *)

(* The comment on reentrant_debt: "schedules deliberately requested ... and *)
(* not yet dispatched".                                                    *)
DebtIsPending == debt <= Cardinality(live)

==============================================================================
