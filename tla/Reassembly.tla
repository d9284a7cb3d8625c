------------------------------ MODULE Reassembly ------------------------------
(***************************************************************************)
(* The reassembly buffer of one receiver (v2xw-net/src/frag.rs,            *)
(* ReassemblyBuffer): the sets of fragments partly received and the memory *)
(* of the sets completed, both keyed by (peer, SDU) and both with a        *)
(* deadline.  A key is its position in key order.  Payload bytes are left  *)
(* out: the buffer only adds them up.                                      *)
(***************************************************************************)
EXTENDS Naturals, FiniteSets, Functions

CONSTANTS
    NumKeys,       \* the (peer, SDU) pairs that may arrive
    MaxFragments,  \* REASSEMBLY_MAX_FRAGMENTS
    MaxOpen,       \* max_open: the capacity
    Timeout        \* the reassembly timeout

ASSUME KeysAssumption == NumKeys \in Nat \ {0}
ASSUME FragmentsAssumption == MaxFragments \in Nat \ {0, 1}
ASSUME OpenAssumption == MaxOpen \in Nat \ {0}
ASSUME TimeoutAssumption == Timeout \in Nat \ {0}

VARIABLES
    now,   \* the instant of the call
    open,  \* entries: key -> [want, seen, deadline]
    done   \* completed: key -> [segments, deadline]

Keys == 1..NumKeys
Entry == [want : 2..MaxFragments, seen : SUBSET (0..MaxFragments - 1), deadline : Nat]
Completed == [segments : 2..MaxFragments, deadline : Nat]

\* What accept answers about a fragment's own SDU.
Answers == {"pending", "complete", "duplicate", "malformed", "mismatch", "full"}

BufferInit ==
    /\ now = 0
    /\ open = <<>>
    /\ done = <<>>

Without(f, k) == Restrict(f, DOMAIN f \ {k})
With(f, k, v) == [x \in DOMAIN f \union {k} |-> IF x = k THEN v ELSE f[x]]

\* Bug: a set or a memory lives on at its deadline.
CurrentAtDeadline(f) == Restrict(f, {k \in DOMAIN f : f[k].deadline >= now})

\* purge: what has not reached its deadline stays.
Current(f) == Restrict(f, {k \in DOMAIN f : f[k].deadline > now})
Stale == {k \in DOMAIN open : open[k].deadline <= now}

\* The memory that goes when a completion finds it full: the earliest deadline, then
\* the lowest key.
Oldest(d) ==
    {k \in DOMAIN d : \A j \in DOMAIN d \ {k} :
        \/ d[k].deadline < d[j].deadline
        \/ d[k].deadline = d[j].deadline /\ k < j}

\* Bug: the memory ends a step early.
RememberBriefly(d, k, n) ==
    With(IF Cardinality(DOMAIN d) >= MaxOpen /\ k \notin DOMAIN d
         THEN Restrict(d, DOMAIN d \ Oldest(d))
         ELSE d,
         k, [segments |-> n, deadline |-> now + Timeout - 1])

\* remember: the completed key is kept for one timeout.
Remember(d, k, n) ==
    With(IF Cardinality(DOMAIN d) >= MaxOpen /\ k \notin DOMAIN d
         THEN Restrict(d, DOMAIN d \ Oldest(d))
         ELSE d,
         k, [segments |-> n, deadline |-> now + Timeout])

\* The set of key k gains a fragment.
Marked(o, k, i) == [o EXCEPT ![k].seen = @ \union {i}]

\* A fragment that cannot be one.
Malformed(i, n) == n = 0 \/ i >= n \/ n > MaxFragments

\* accept: fragment i of n of key k arrives when o and d are current; ans is the
\* answer.  One disjunct per way out of the function.
Accept(o, d, k, i, n, ans) ==
    \/ /\ Malformed(i, n)
       /\ ans = "malformed"
       /\ open' = o /\ done' = d
    \/ /\ ~Malformed(i, n) /\ n = 1
       /\ ans = "complete"
       /\ open' = o /\ done' = d
    \/ /\ ~Malformed(i, n) /\ n > 1
       /\ \/ /\ k \in DOMAIN o /\ o[k].want # n
             /\ ans = "mismatch"
             /\ open' = Without(o, k) /\ done' = d
          \/ /\ k \in DOMAIN o /\ o[k].want = n /\ i \in o[k].seen
             /\ ans = "pending"
             /\ open' = o /\ done' = d
          \/ /\ k \in DOMAIN o /\ o[k].want = n /\ i \notin o[k].seen
             /\ Cardinality(o[k].seen) + 1 < n
             /\ ans = "pending"
             /\ open' = Marked(o, k, i) /\ done' = d
          \/ /\ k \in DOMAIN o /\ o[k].want = n /\ i \notin o[k].seen
             /\ Cardinality(o[k].seen) + 1 = n
             /\ ans = "complete"
             /\ open' = Without(o, k) /\ done' = Remember(d, k, n)
          \/ /\ k \notin DOMAIN o /\ k \in DOMAIN d /\ d[k].segments = n
             /\ ans = "duplicate"
             /\ open' = o /\ done' = d
          \/ /\ k \notin DOMAIN o /\ k \in DOMAIN d /\ d[k].segments # n
             /\ ans = "mismatch"
             /\ open' = o /\ done' = Without(d, k)
          \/ /\ k \notin DOMAIN o \union DOMAIN d
             /\ Cardinality(DOMAIN o) >= MaxOpen
             /\ ans = "full"
             /\ open' = o /\ done' = d
          \/ /\ k \notin DOMAIN o \union DOMAIN d
             /\ Cardinality(DOMAIN o) < MaxOpen
             /\ ans = "pending"
             /\ open' = With(o, k, [want |-> n, seen |-> {i}, deadline |-> now + Timeout])
             /\ done' = d

\* expire: the stale sets are retired on a timer.
Purge ==
    /\ open' = Current(open)
    /\ done' = Current(done)

BufferTypeOK ==
    /\ now \in Nat
    /\ DOMAIN open \subseteq Keys /\ \A k \in DOMAIN open : open[k] \in Entry
    /\ DOMAIN done \subseteq Keys /\ \A k \in DOMAIN done : done[k] \in Completed
===============================================================================
