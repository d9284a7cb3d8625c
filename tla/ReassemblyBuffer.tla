--------------------------- MODULE ReassemblyBuffer ---------------------------
(***************************************************************************)
(* The reassembly buffer on its own, against a sender and a medium that    *)
(* deliver any fragment at any time: out of order, again, with another     *)
(* count, malformed.  heard, doneAt and argued are history variables from  *)
(* which the properties say, without the buffer's own bookkeeping, when an *)
(* SDU is complete and how long its completion is remembered.              *)
(***************************************************************************)
EXTENDS Reassembly

CONSTANTS
    Fragments,  \* the <<index, count>> that fragments claim
    MaxTime     \* bound on the clock

ASSUME InputAssumption == Fragments \subseteq Nat \X Nat
ASSUME MaxTimeAssumption == MaxTime \in Nat

VARIABLES
    watched, \* the <<key, count>> this behaviour keeps the arrivals of
    heard,   \* fragment index of watched -> when it last arrived
    doneAt,  \* key -> when it was last completed, for a timeout
    argued   \* keys whose memory a fragment of another count dropped

watchVars == <<now, open, done, watched, heard, doneAt, argued>>

WatchInit ==
    /\ BufferInit
    /\ watched \in Keys \X (2..MaxFragments)
    /\ heard = <<>>
    /\ doneAt = <<>>
    /\ argued = {}

\* A fragment of key k arrives.
Arrive(k, i, n) ==
    \E o \in {Current(open)}, d \in {Current(done)}, ans \in Answers :
        /\ Accept(o, d, k, i, n, ans)
        /\ heard' = IF watched = <<k, n>> /\ i < n THEN With(heard, i, now) ELSE heard
        /\ doneAt' = IF ans = "complete" /\ n > 1 THEN With(doneAt, k, now) ELSE doneAt
        /\ argued' = CASE ans = "complete" /\ n > 1 -> argued \ {k}
                       [] ans = "mismatch" /\ k \in DOMAIN d -> argued \union {k}
                       [] OTHER -> argued
        /\ UNCHANGED <<now, watched>>

\* The receiver's timer.
Expire ==
    /\ Stale # {}
    /\ Purge
    /\ UNCHANGED <<now, watched, heard, doneAt, argued>>

\* Fragments and completions older than a timeout no longer matter to the properties.
WatchTick ==
    /\ now < MaxTime
    /\ now' = now + 1
    /\ heard' = Restrict(heard, {i \in DOMAIN heard : heard[i] + Timeout > now + 1})
    /\ doneAt' = Restrict(doneAt, {k \in DOMAIN doneAt : doneAt[k] + Timeout > now + 1})
    /\ argued' = argued \intersect DOMAIN doneAt'
    /\ UNCHANGED <<open, done, watched>>

WatchNext ==
    \/ \E k \in Keys, f \in Fragments : Arrive(k, f[1], f[2])
    \/ Expire
    \/ WatchTick

WatchSpec == WatchInit /\ [][WatchNext]_watchVars

WatchTypeOK ==
    /\ BufferTypeOK
    /\ DOMAIN doneAt \subseteq Keys
    /\ argued \subseteq Keys

\* An SDU completes only if every one of its fragments arrived less than a timeout ago: a
\* set past its deadline contributes nothing, in whatever order fragments, repetitions and
\* other counts came.
CompleteIsFresh ==
    [][\A k \in DOMAIN done' :
          /\ k \notin DOMAIN done \/ done'[k] # done[k]
          /\ watched = <<k, done'[k].segments>>
          => DOMAIN heard' = 0..(watched[2] - 1)]_watchVars

\* "A completed (peer, SDU) is remembered for one timeout": until then a repetition is a
\* duplicate and opens no set, unless MaxOpen other SDUs were completed since or a
\* fragment of another count dropped the memory.
RememberedForTimeout ==
    \A k \in DOMAIN doneAt \ argued :
        doneAt[k] + Timeout > now =>
            \/ k \in DOMAIN done /\ k \notin DOMAIN open
            \/ Cardinality({j \in DOMAIN doneAt \ {k} : doneAt[j] >= doneAt[k]}) >= MaxOpen

\* A set is open or remembered, never both; neither map outgrows max_open; a set that is
\* open lacks a fragment.
BufferBounded ==
    /\ DOMAIN open \intersect DOMAIN done = {}
    /\ Cardinality(DOMAIN open) <= MaxOpen
    /\ Cardinality(DOMAIN done) <= MaxOpen
    /\ \A k \in DOMAIN open :
          /\ open[k].seen \subseteq 0..(open[k].want - 1)
          /\ Cardinality(open[k].seen) \in 1..(open[k].want - 1)

\* The buffer's two maps stay small, apart and true to what was received: nothing is
\* delivered twice within a timeout and no full set lies unanswered.
BufferSound == WatchTypeOK /\ BufferBounded /\ RememberedForTimeout
===============================================================================
