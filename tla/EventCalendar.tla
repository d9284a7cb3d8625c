--------------------------- MODULE EventCalendar ---------------------------
(***************************************************************************)
(* What the simulation kernel relies on from its event scheduler           *)
(* (crates/v2xw-core/src/event.rs): a calendar of pending events, totally   *)
(* ordered by (time, priority, seq), from which a cancelled event is gone   *)
(* at once and the earliest event is dispatched next.                      *)
(***************************************************************************)
EXTENDS Integers

CONSTANTS MaxTime, MaxPriority

VARIABLES
    pending,   \* the events scheduled and neither dispatched nor cancelled
    now,       \* the current simulated instant
    lastKey,   \* the key of the event being dispatched
    nextSeq    \* the sequence number of the next schedule

Time     == 0 .. MaxTime
Priority == 0 .. MaxPriority
EventKey == [time : Time, priority : Priority, seq : Nat]

(* None, before the first dispatch: below every key there can be.          *)
NoKey == [time |-> 0, priority |-> 0, seq |-> -1]

(* (at, class.priority()) >= (k.time, k.priority)                          *)
NotBefore(t, p, k) == t > k.time \/ (t = k.time /\ p >= k.priority)

KeyLess(a, b) ==
    \/ a.time < b.time
    \/ a.time = b.time /\ a.priority < b.priority
    \/ a.time = b.time /\ a.priority = b.priority /\ a.seq < b.seq

Init ==
    /\ pending = {}
    /\ now = 0
    /\ lastKey = NoKey
    /\ nextSeq = 0

Schedule(t, p) ==
    /\ t >= now
    /\ pending' = pending \cup {[time |-> t, priority |-> p, seq |-> nextSeq]}
    /\ nextSeq' = nextSeq + 1
    /\ UNCHANGED <<now, lastKey>>

Cancel(e) ==
    /\ pending' = pending \ {e}
    /\ UNCHANGED <<now, lastKey, nextSeq>>

Dispatch(e) ==
    /\ \A f \in pending \ {e} : KeyLess(e, f)
    /\ pending' = pending \ {e}
    /\ now' = e.time
    /\ lastKey' = e
    /\ UNCHANGED nextSeq

Clear ==
    /\ pending' = {}
    /\ UNCHANGED <<now, lastKey, nextSeq>>

Next ==
    \/ \E t \in Time, p \in Priority : Schedule(t, p)
    \/ \E e \in pending : Cancel(e) \/ Dispatch(e)
    \/ Clear

vars == <<pending, now, lastKey, nextSeq>>

Spec == Init /\ [][Next]_vars
============================================================================
