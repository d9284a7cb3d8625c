------------------------------ MODULE FragGroups ------------------------------
(***************************************************************************)
(* Fragmented SDUs in the run path: how the engine (v2xw-engine/src/run.rs *)
(* and frag.rs) follows the fragments of an SDU at one receiver to one     *)
(* fate, beside the reassembly buffer of that receiver.  A key stands for  *)
(* an SDU.  Within an instant receptions are dispatched before node tasks, *)
(* as the scheduler's classes say.  The strategy is generic-sdu.           *)
(***************************************************************************)
EXTENDS Reassembly, Sequences

CONSTANTS
    Count,      \* Count[k]: the fragments SDU k was split into
    Horizon,    \* the end of the run
    MaxSpread   \* how long after the first fragment of an SDU its last is on the air

ASSUME CountAssumption == Count \in [Keys -> 2..MaxFragments]
ASSUME HorizonAssumption == Horizon \in Nat
ASSUME SpreadAssumption == MaxSpread \in Nat

VARIABLES
    groups,    \* frag_groups: key -> [decoded, lost, opened, deadline]
    resolved,  \* frag_resolved: key -> until
    timers,    \* instants of scheduled reassembly timers
    tasks,     \* node tasks of this instant have begun
    ended,     \* resolve_in_flight has run
    air,       \* fragments <<k, i>> that have not reached the receiver
    first,     \* history: key -> when its first fragment reached the receiver
    got,       \* history: fragments <<k, i>> decoded
    whole,     \* history: keys the buffer answered complete for
    fates      \* history: fates[k], the node.rx fates of SDU k in order

vars == <<now, open, done, groups, resolved, timers, tasks, ended, air, first, got,
          whole, fates>>
buffer == <<open, done>>

Pieces(k) == 0..(Count[k] - 1)
Group == [decoded : SUBSET (0..MaxFragments - 1), lost : BOOLEAN, opened : BOOLEAN,
          deadline : Nat]

Init ==
    /\ BufferInit
    /\ groups = <<>>
    /\ resolved = <<>>
    /\ timers = {}
    /\ tasks = FALSE
    /\ ended = FALSE
    /\ air = UNION {{k} \X Pieces(k) : k \in Keys}
    /\ first = <<>>
    /\ got = {}
    /\ whole = {}
    /\ fates = [k \in Keys |-> <<>>]

\* Bug: the last fragment is not waited for.
IsWholeButOne(k, g) == Cardinality(g.decoded) + 1 >= Count[k]

\* FragGroup::complete
IsWhole(k, g) == g.decoded = Pieces(k)

\* Bug: a timer at the horizon is not scheduled.
TimerBeforeHorizon(at) == {at} \intersect {t \in 0..Horizon : t < Horizon}

\* schedule_reassembly: nothing is scheduled past the horizon.
Timer(at) == {at} \intersect 0..Horizon

\* The group of an SDU none of whose fragments has been seen.
NewGroup == [decoded |-> {}, lost |-> FALSE, opened |-> FALSE, deadline |-> now + Timeout]

\* The group as on_fragment finds or opens it.
GroupAt(k) == IF k \in DOMAIN groups THEN groups[k] ELSE NewGroup

\* Bug: the fate of a group is not remembered.
ResolveForgets(k, fate) ==
    /\ groups' = Without(groups, k)
    /\ fates' = [fates EXCEPT ![k] = Append(@, fate)]
    /\ UNCHANGED resolved

\* resolve_group: the group is gone, its SDU remembered for a timeout, its fate recorded.
Resolve(k, fate) ==
    /\ groups' = Without(groups, k)
    /\ resolved' = With(resolved, k, now + Timeout)
    /\ fates' = [fates EXCEPT ![k] = Append(@, fate)]

\* What every outcome of a fragment does: it has been on the air.
OffTheAir(k, i) ==
    /\ ~tasks /\ ~ended
    /\ <<k, i>> \in air
    /\ k \in DOMAIN first => now - first[k] <= MaxSpread
    /\ air' = air \ {<<k, i>>}
    /\ first' = IF k \in DOMAIN first THEN first ELSE With(first, k, now)
    /\ UNCHANGED <<now, tasks, ended>>

\* on_fragment of a fragment the PHY lost: it opens the group if it is the first.
FragmentLost(k, i) ==
    /\ OffTheAir(k, i)
    /\ IF k \in DOMAIN resolved
       THEN UNCHANGED <<groups, timers>>
       ELSE /\ groups' = With(groups, k, [GroupAt(k) EXCEPT !.lost = TRUE])
            /\ timers' = timers \union Timer(GroupAt(k).deadline)
    /\ UNCHANGED <<buffer, resolved, got, whole, fates>>

\* on_fragment of a decoded fragment whose SDU has its fate: the reassembler sees it.
FragmentLate(k, i) ==
    /\ OffTheAir(k, i)
    /\ k \in DOMAIN resolved
    /\ \E o \in {Current(open)}, d \in {Current(done)}, ans \in Answers :
          /\ Accept(o, d, k, i, Count[k], ans)
          /\ whole' = IF ans = "complete" THEN whole \union {k} ELSE whole
    /\ got' = got \union {<<k, i>>}
    /\ UNCHANGED <<groups, resolved, timers, fates>>

\* Bug: the group keeps the deadline of its first fragment, decoded or not.
DecodedKeepsDeadline(k, i, g) == [g EXCEPT !.decoded = @ \union {i}, !.opened = TRUE]

\* The group once fragment i is decoded; the reassembler's timer starts with the first
\* fragment it holds.
Decoded(k, i, g) ==
    [g EXCEPT !.decoded = @ \union {i}, !.opened = TRUE,
              !.deadline = IF g.opened THEN @ ELSE now + Timeout]

\* on_fragment of a decoded fragment: the reassembler refuses the set, or every fragment
\* is there, or the group waits on.  A receiver that has left takes no message.
FragmentDecoded(k, i) ==
    /\ OffTheAir(k, i)
    /\ k \notin DOMAIN resolved
    /\ \E g \in {Decoded(k, i, GroupAt(k))}, o \in {Current(open)}, d \in {Current(done)},
          ans \in Answers :
          /\ Accept(o, d, k, i, Count[k], ans)
          /\ whole' = IF ans = "complete" THEN whole \union {k} ELSE whole
          /\ timers' = timers \union Timer(GroupAt(k).deadline) \union Timer(g.deadline)
          /\ \/ /\ ans \in {"malformed", "mismatch", "full"}
                /\ Resolve(k, "lost")
             \/ /\ ans \notin {"malformed", "mismatch", "full"}
                /\ IsWhole(k, g)
                /\ Resolve(k, "delivered") \/ Resolve(k, "receiver_off")
             \/ /\ ans \notin {"malformed", "mismatch", "full"}
                /\ ~IsWhole(k, g)
                /\ groups' = With(groups, k, g)
                /\ UNCHANGED <<resolved, fates>>
    /\ got' = got \union {<<k, i>>}

Due == {k \in DOMAIN groups : groups[k].deadline <= now}

\* on_reassembly_timer: stale sets are retired, groups at their deadline are lost, and
\* resolved groups are forgotten a timeout after their fate.
ReassemblyTimer ==
    /\ now \in timers /\ ~ended
    /\ Purge
    /\ groups' = Restrict(groups, DOMAIN groups \ Due)
    /\ resolved' = [k \in {j \in DOMAIN resolved : resolved[j] > now} \union Due |->
                       IF k \in Due THEN now + Timeout ELSE resolved[k]]
    /\ fates' = [k \in Keys |-> IF k \in Due THEN Append(fates[k], "lost") ELSE fates[k]]
    /\ timers' = timers \ {now}
    /\ tasks' = TRUE
    /\ UNCHANGED <<now, ended, air, first, got, whole>>

Tick ==
    /\ now \notin timers /\ now < Horizon
    /\ now' = now + 1
    /\ tasks' = FALSE
    /\ UNCHANGED <<buffer, groups, resolved, timers, ended, air, first, got, whole, fates>>

\* resolve_in_flight: at the end of the run a group that lost a fragment is lost, any
\* other is in flight.
EndOfRun ==
    /\ now = Horizon /\ now \notin timers /\ ~ended
    /\ ended' = TRUE
    /\ groups' = <<>>
    /\ resolved' = [k \in DOMAIN resolved \union {j \in DOMAIN groups : groups[j].lost} |->
                       IF k \in DOMAIN groups THEN now + Timeout ELSE resolved[k]]
    /\ fates' = [k \in Keys |->
                    IF k \in DOMAIN groups
                    THEN Append(fates[k], IF groups[k].lost THEN "lost" ELSE "in_flight")
                    ELSE fates[k]]
    /\ UNCHANGED <<now, buffer, timers, tasks, air, first, got, whole>>

Next ==
    \/ \E k \in Keys : \E i \in Pieces(k) :
          FragmentLost(k, i) \/ FragmentLate(k, i) \/ FragmentDecoded(k, i)
    \/ ReassemblyTimer \/ Tick \/ EndOfRun

Spec == Init /\ [][Next]_vars

TypeOK ==
    /\ BufferTypeOK
    /\ DOMAIN groups \subseteq Keys /\ \A k \in DOMAIN groups : groups[k] \in Group
    /\ DOMAIN resolved \subseteq Keys /\ \A k \in DOMAIN resolved : resolved[k] \in Nat
    /\ timers \subseteq 0..Horizon
    /\ tasks \in BOOLEAN /\ ended \in BOOLEAN
    /\ \A k \in Keys :
          fates[k] \in Seq({"delivered", "receiver_off", "lost", "in_flight"})

\* "Resolved exactly once", and M-RX1: an SDU any fragment of which reached the receiver
\* has at most one fate, none while its group is open, and exactly one after the run.
OneFate ==
    \A k \in Keys :
        /\ Len(fates[k]) <= IF k \in DOMAIN groups THEN 0 ELSE 1
        /\ ended => Len(fates[k]) = IF k \in DOMAIN first THEN 1 ELSE 0

\* The engine's group and the reassembler's set of an SDU say the same until the deadline
\* they share: the same fragments, the same deadline; and a set that completes in the
\* buffer is one the engine delivers.
GroupAgreesWithBuffer ==
    /\ \A k \in DOMAIN groups :
          groups[k].opened /\ now < groups[k].deadline =>
              /\ k \in DOMAIN open
              /\ open[k].seen = groups[k].decoded
              /\ open[k].deadline = groups[k].deadline
    /\ \A k \in whole : fates[k] \in {<<"delivered">>, <<"receiver_off">>}

\* No group outlives its deadline: each one that was opened or extended has a timer that
\* comes in time, unless the run ends first.
ResolvedByDeadline ==
    \A k \in DOMAIN groups :
        /\ groups[k].deadline >= now
        /\ groups[k].deadline <= Horizon => groups[k].deadline \in timers

\* A message reaches the node's queue only when every one of its fragments was decoded.
DeliveredIsWhole ==
    \A k \in Keys : \A j \in 1..Len(fates[k]) :
        fates[k][j] \in {"delivered", "receiver_off"} => \A i \in Pieces(k) : <<k, i>> \in got

\* Every SDU the receiver got a fragment of has its one fate, and the right one.
FatesSound == TypeOK /\ OneFate /\ DeliveredIsWhole

\* "The fragments are reassembled per (sender, SDU)": a delivered SDU is one the reassembler
\* put together.  (Not so when the last fragment ends at the deadline itself.)
DeliveredIsReassembled ==
    \A k \in Keys : \A j \in 1..Len(fates[k]) : fates[k][j] = "delivered" => k \in whole
===============================================================================
