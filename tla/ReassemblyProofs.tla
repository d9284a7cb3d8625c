--------------------------- MODULE ReassemblyProofs ---------------------------
(***************************************************************************)
(* Proofs about fragments.  First the receiver's buffer (ReassemblyBuffer):*)
(* what it keeps is small, apart and true to what was received, and a set  *)
(* completes only from fragments that all arrived within a timeout.  Both  *)
(* follow from the inductive invariant WatchInv, which ties the deadlines  *)
(* in the two maps to the instants in the history variables: heard for an  *)
(* open set, doneAt for a memory.                                          *)
(*                                                                         *)
(* Then the engine's groups (FragGroups): one fate per SDU, the group and  *)
(* the buffer's set in step, and a timer for every group, from the         *)
(* invariant IInv.  Its core says where the fragments of an SDU are (in    *)
(* the air, decoded or lost, and of those decoded which are in the buffer) *)
(* and that an SDU whose group is gone is either remembered or past the    *)
(* last instant a fragment of it can arrive.                               *)
(***************************************************************************)
EXTENDS ReassemblyBuffer, FragGroups, FiniteSetTheorems, SequenceTheorems,
        WellFoundedInduction, TLAPS

\* The history variables: what they hold is younger than a timeout.
ArrivalsOK ==
    /\ now \in Nat
    /\ watched \in Keys \X (2..MaxFragments)
    /\ DOMAIN heard \subseteq 0..(watched[2] - 1)
    /\ \A i \in DOMAIN heard : heard[i] \in Nat /\ heard[i] <= now
    /\ \A k \in DOMAIN doneAt :
          doneAt[k] \in Nat /\ doneAt[k] <= now /\ doneAt[k] + Timeout > now

\* An open set of what is watched that has not reached its deadline holds fragments
\* that arrived after the set was opened, and that are still young.
SeenIsHeard ==
    \A k \in DOMAIN open :
        /\ open[k].deadline <= now + Timeout
        /\ watched = <<k, open[k].want>> /\ open[k].deadline > now =>
              \A i \in open[k].seen :
                  i \in DOMAIN heard /\ open[k].deadline <= heard[i] + Timeout

\* A memory that has not reached its deadline is of a completion a timeout before it.
MemoryOfCompletion ==
    \A k \in DOMAIN done :
        done[k].deadline > now =>
            k \in DOMAIN doneAt /\ done[k].deadline = doneAt[k] + Timeout

\* The keys completed at or after the completion of k.
CompletedSince(k) == {j \in DOMAIN doneAt \ {k} : doneAt[j] >= doneAt[k]}

\* A completion is remembered up to its deadline, or enough others followed it.
Remembered ==
    \A k \in DOMAIN doneAt \ argued :
        \/ k \in DOMAIN done /\ done[k].deadline = doneAt[k] + Timeout
        \/ Cardinality(CompletedSince(k)) >= MaxOpen

\* The inductive invariant.
WatchInv ==
    /\ WatchTypeOK /\ ArrivalsOK /\ BufferBounded
    /\ SeenIsHeard /\ MemoryOfCompletion /\ Remembered

------------------------------------------------------------------------------
(***************************************************************************)
(* Maps and finite sets.                                                   *)
(***************************************************************************)

(* What With, Without and Current do to a map.                             *)
LEMMA WithFacts ==
    ASSUME NEW f, NEW k, NEW v
    PROVE  /\ DOMAIN With(f, k, v) = DOMAIN f \union {k}
           /\ With(f, k, v)[k] = v
           /\ \A x \in DOMAIN f \ {k} : With(f, k, v)[x] = f[x]
  BY DEF With

LEMMA WithoutFacts ==
    ASSUME NEW f, NEW k
    PROVE  /\ DOMAIN Without(f, k) = DOMAIN f \ {k}
           /\ \A x \in DOMAIN f \ {k} : Without(f, k)[x] = f[x]
  BY DEF Without, Restrict

LEMMA CurrentFacts ==
    ASSUME NEW f
    PROVE  /\ DOMAIN Current(f) = {k \in DOMAIN f : f[k].deadline > now}
           /\ \A k \in DOMAIN Current(f) : Current(f)[k] = f[k]
  BY DEF Current, Restrict

(* Every set of keys is finite, and a smaller one has no more elements.    *)
LEMMA KeySets ==
    ASSUME NEW S \in SUBSET Keys
    PROVE  /\ IsFiniteSet(S) /\ Cardinality(S) \in Nat
           /\ \A T \in SUBSET S : Cardinality(T) <= Cardinality(S) /\ Cardinality(T) \in Nat
  <1>1. IsFiniteSet(Keys)
    BY KeysAssumption, FS_Interval DEF Keys
  <1>2. IsFiniteSet(S)
    BY <1>1, FS_Subset
  <1>3. \A T \in SUBSET S : IsFiniteSet(T) /\ Cardinality(T) <= Cardinality(S)
    BY <1>2, FS_Subset
  <1> QED BY <1>2, <1>3, FS_CardinalityType

(* Of several memories exactly one is the oldest.  Were there a set of     *)
(* memories without an oldest, there would be a smallest such set.         *)
LEMMA OldestIsOne ==
    ASSUME NEW d, DOMAIN d \subseteq Keys, DOMAIN d # {},
           \A k \in DOMAIN d : d[k].deadline \in Nat
    PROVE  \E x \in DOMAIN d :
              /\ Oldest(d) = {x}
              /\ \A j \in DOMAIN d : d[x].deadline <= d[j].deadline
  <1> DEFINE Older(x, j) == \/ d[x].deadline < d[j].deadline
                            \/ d[x].deadline = d[j].deadline /\ x < j
             HasOldest(T) == \E x \in T : \A j \in T \ {x} : Older(x, j)
             Bad == {T \in SUBSET DOMAIN d : T # {} /\ ~HasOldest(T)}
  <1>1. \A k \in DOMAIN d : k \in Nat /\ d[k].deadline \in Nat
    BY KeysAssumption DEF Keys
  <1>2. ASSUME NEW a \in DOMAIN d, NEW b \in DOMAIN d, a # b
        PROVE  Older(a, b) \/ Older(b, a)
    BY <1>2, <1>1
  <1>3. Bad = {}
    <2> SUFFICES ASSUME Bad # {} PROVE FALSE
      OBVIOUS
    <2>1. IsWellFoundedOn(StrictSubsetOrdering(DOMAIN d), SUBSET DOMAIN d)
      BY KeySets, FS_StrictSubsetOrderingWellFounded, FS_FiniteSubsetsOfFinite
    <2>2. PICK T \in Bad : \A U \in Bad : <<U, T>> \notin StrictSubsetOrdering(DOMAIN d)
      <3>1. Bad \subseteq SUBSET DOMAIN d
        OBVIOUS
      <3> HIDE DEF Bad
      <3> QED BY <2>1, <3>1, WFMin
    <2>3. T \subseteq DOMAIN d /\ T # {} /\ ~HasOldest(T)
      OBVIOUS
    <2>4. PICK a \in T : TRUE
      BY <2>3
    <2>5. <<T \ {a}, T>> \in StrictSubsetOrdering(DOMAIN d)
      BY <2>3, <2>4 DEF StrictSubsetOrdering
    <2>6. T \ {a} = {} \/ HasOldest(T \ {a})
      BY <2>2, <2>3, <2>5
    <2>7. CASE T \ {a} = {}
      BY <2>3, <2>4, <2>7
    <2>8. CASE HasOldest(T \ {a})
      <3>1. PICK b \in T \ {a} : \A j \in (T \ {a}) \ {b} : Older(b, j)
        BY <2>8
      <3>2. a \in DOMAIN d /\ b \in DOMAIN d /\ a # b
        BY <2>3, <2>4, <3>1
      <3>3. Older(a, b) \/ Older(b, a)
        BY <1>2, <3>2
      <3>4. CASE Older(b, a)
        BY <2>3, <3>1, <3>4
      <3>5. CASE Older(a, b)
        <4>1. \A j \in T \ {a} : Older(a, j)
          BY <1>1, <2>3, <3>1, <3>2, <3>5
        <4> QED BY <2>3, <2>4, <4>1
      <3> QED BY <3>3, <3>4, <3>5
    <2> QED BY <2>6, <2>7, <2>8
  <1>4. PICK x \in DOMAIN d : \A j \in DOMAIN d \ {x} : Older(x, j)
    BY <1>3
  <1>5. x \in Oldest(d)
    BY <1>4 DEF Oldest
  <1>6. \A y \in Oldest(d) : y = x
    BY <1>1, <1>4 DEF Oldest
  <1>7. Oldest(d) = {x}
    BY <1>5, <1>6
  <1> QED BY <1>1, <1>4, <1>7

(***************************************************************************)
(* The initial state.                                                      *)
(***************************************************************************)

LEMMA WatchInitInv == WatchInit => WatchInv
  <1> SUFFICES ASSUME WatchInit PROVE WatchInv
    OBVIOUS
  <1>1. /\ now = 0 /\ DOMAIN open = {} /\ DOMAIN done = {} /\ DOMAIN heard = {}
        /\ DOMAIN doneAt = {} /\ argued = {} /\ watched \in Keys \X (2..MaxFragments)
    BY DEF WatchInit, BufferInit
  <1>2. Cardinality({}) = 0
    BY FS_EmptySet
  <1>3. WatchTypeOK /\ ArrivalsOK
    BY <1>1 DEF WatchTypeOK, BufferTypeOK, ArrivalsOK
  <1>4. BufferBounded
    BY <1>1, <1>2, OpenAssumption DEF BufferBounded
  <1>5. SeenIsHeard /\ MemoryOfCompletion /\ Remembered
    BY <1>1 DEF SeenIsHeard, MemoryOfCompletion, Remembered
  <1> QED BY <1>3, <1>4, <1>5 DEF WatchInv

(***************************************************************************)
(* What purge leaves, and the ways out of accept.                          *)
(***************************************************************************)

(* What WatchTypeOK and BufferBounded say, of any two maps.                     *)
MapsOK(o, d) ==
    /\ DOMAIN o \subseteq Keys /\ \A k \in DOMAIN o : o[k] \in Entry
    /\ DOMAIN d \subseteq Keys /\ \A k \in DOMAIN d : d[k] \in Completed
    /\ DOMAIN o \intersect DOMAIN d = {}
    /\ Cardinality(DOMAIN o) <= MaxOpen
    /\ Cardinality(DOMAIN d) <= MaxOpen
    /\ \A k \in DOMAIN o :
          /\ o[k].seen \subseteq 0..(o[k].want - 1)
          /\ Cardinality(o[k].seen) \in 1..(o[k].want - 1)

LEMMA MapsAreOK == WatchInv => MapsOK(open, done)
  BY DEF WatchInv, WatchTypeOK, BufferTypeOK, BufferBounded, MapsOK

LEMMA PurgedIsOK ==
    ASSUME WatchInv
    PROVE  MapsOK(Current(open), Current(done))
  <1> DEFINE o == Current(open)
             d == Current(done)
  <1>1. /\ DOMAIN o \subseteq DOMAIN open /\ \A k \in DOMAIN o : o[k] = open[k]
        /\ DOMAIN d \subseteq DOMAIN done /\ \A k \in DOMAIN d : d[k] = done[k]
    BY CurrentFacts
  <1> HIDE DEF o, d
  <1>2. MapsOK(open, done)
    BY MapsAreOK
  <1>3. DOMAIN open \in SUBSET Keys /\ DOMAIN done \in SUBSET Keys
    BY <1>2 DEF MapsOK
  <1>4. /\ Cardinality(DOMAIN o) <= Cardinality(DOMAIN open)
        /\ Cardinality(DOMAIN d) <= Cardinality(DOMAIN done)
        /\ Cardinality(DOMAIN o) \in Nat /\ Cardinality(DOMAIN open) \in Nat
        /\ Cardinality(DOMAIN d) \in Nat /\ Cardinality(DOMAIN done) \in Nat
    BY <1>1, <1>3, KeySets
  <1>5. Cardinality(DOMAIN o) <= MaxOpen /\ Cardinality(DOMAIN d) <= MaxOpen
    BY <1>2, <1>4, OpenAssumption DEF MapsOK
  <1>6. MapsOK(o, d)
    BY <1>1, <1>2, <1>5 DEF MapsOK
  <1> QED BY <1>6 DEF o, d

(* The six things accept does to the maps.                                 *)
Kept(o, d, k, i, n, ans) ==
    /\ open' = o /\ done' = d
    /\ ~(ans = "complete" /\ n > 1) /\ ~(ans = "mismatch" /\ k \in DOMAIN d)
Disagreed(o, d, k, i, n, ans) ==
    k \in DOMAIN o /\ ans = "mismatch" /\ open' = Without(o, k) /\ done' = d
Gained(o, d, k, i, n, ans) ==
    /\ k \in DOMAIN o /\ o[k].want = n /\ i < n /\ i \notin o[k].seen
    /\ Cardinality(o[k].seen) + 1 < n
    /\ ans = "pending" /\ open' = Marked(o, k, i) /\ done' = d
Filled(o, d, k, i, n, ans) ==
    /\ k \in DOMAIN o /\ o[k].want = n /\ i < n /\ i \notin o[k].seen
    /\ Cardinality(o[k].seen) + 1 = n /\ n > 1
    /\ ans = "complete" /\ open' = Without(o, k) /\ done' = Remember(d, k, n)
Contradicted(o, d, k, i, n, ans) ==
    k \in DOMAIN d /\ ans = "mismatch" /\ open' = o /\ done' = Without(d, k)
Opened(o, d, k, i, n, ans) ==
    /\ k \notin DOMAIN o /\ k \notin DOMAIN d /\ Cardinality(DOMAIN o) < MaxOpen
    /\ n \in 2..MaxFragments /\ i < n /\ ans = "pending"
    /\ open' = With(o, k, [want |-> n, seen |-> {i}, deadline |-> now + Timeout])
    /\ done' = d

LEMMA WaysOut ==
    ASSUME NEW o, NEW d, NEW k, NEW i \in Nat, NEW n \in Nat, NEW ans,
           DOMAIN o \intersect DOMAIN d = {}, Accept(o, d, k, i, n, ans)
    PROVE  \/ Kept(o, d, k, i, n, ans) \/ Disagreed(o, d, k, i, n, ans)
           \/ Gained(o, d, k, i, n, ans) \/ Filled(o, d, k, i, n, ans)
           \/ Contradicted(o, d, k, i, n, ans) \/ Opened(o, d, k, i, n, ans)
  <1>1. CASE Malformed(i, n) \/ n = 1
    BY <1>1 DEF Accept, Kept
  <1>2. CASE ~Malformed(i, n) /\ n # 1
    <2>1. n \in 2..MaxFragments /\ n > 1 /\ i < n
      BY <1>2, FragmentsAssumption DEF Malformed
    <2>2. CASE k \in DOMAIN o
      BY <1>2, <2>1, <2>2 DEF Accept, Kept, Disagreed, Gained, Filled
    <2>3. CASE k \notin DOMAIN o
      BY <1>2, <2>1, <2>3 DEF Accept, Kept, Contradicted, Opened
    <2> QED BY <2>2, <2>3
  <1> QED BY <1>1, <1>2

(***************************************************************************)
(* An arrival keeps each part of the invariant.                            *)
(***************************************************************************)

(* A full memory d became r: the oldest is out and k is in.                *)
Evicted(d, r, k) ==
    /\ Cardinality(DOMAIN d) = MaxOpen
    /\ \E x \in DOMAIN d :
          /\ DOMAIN r = (DOMAIN d \ {x}) \union {k}
          /\ \A j \in DOMAIN d : d[x].deadline <= d[j].deadline

(* The memory after a completion of k: the key is in, and if the memory    *)
(* was full the oldest one is out.                                         *)
Remembers(d, k, n, r) ==
    /\ DOMAIN r \subseteq Keys /\ \A x \in DOMAIN r : r[x] \in Completed
    /\ Cardinality(DOMAIN r) <= MaxOpen
    /\ k \in DOMAIN r /\ r[k] = [segments |-> n, deadline |-> now + Timeout]
    /\ \A x \in DOMAIN r \ {k} : x \in DOMAIN d /\ r[x] = d[x]
    /\ DOMAIN r = DOMAIN d \union {k} \/ Evicted(d, r, k)

LEMMA RememberFacts ==
    ASSUME NEW d, NEW k \in Keys, NEW n \in 2..MaxFragments, now \in Nat,
           k \notin DOMAIN d, NEW o, MapsOK(o, d), NEW r, r = Remember(d, k, n)
    PROVE  Remembers(d, k, n, r)
  <1>0. /\ DOMAIN d \subseteq Keys /\ \A x \in DOMAIN d : d[x] \in Completed
        /\ Cardinality(DOMAIN d) <= MaxOpen
    BY DEF MapsOK
  <1> DEFINE v == [segments |-> n, deadline |-> now + Timeout]
  <1>1. v \in Completed
    BY TimeoutAssumption DEF Completed
  <1>2. IsFiniteSet(DOMAIN d) /\ Cardinality(DOMAIN d) \in Nat
    BY <1>0, KeySets
  <1>3. \A x \in DOMAIN d : d[x].deadline \in Nat
    BY <1>0 DEF Completed
  <1>4. CASE Cardinality(DOMAIN d) >= MaxOpen
    <2>1. DOMAIN d # {} /\ Cardinality(DOMAIN d) = MaxOpen
      BY <1>0, <1>2, <1>4, FS_EmptySet, OpenAssumption
    <2>2. PICK x \in DOMAIN d : /\ Oldest(d) = {x}
                                /\ \A j \in DOMAIN d : d[x].deadline <= d[j].deadline
      BY <1>0, <1>3, <2>1, OldestIsOne
    <2>3. r = With(Without(d, x), k, v)
      BY <1>4, <2>2 DEF Remember, Without
    <2> HIDE DEF v
    <2>4. /\ DOMAIN r = (DOMAIN d \ {x}) \union {k} /\ r[k] = v
          /\ \A y \in DOMAIN r \ {k} : y \in DOMAIN d /\ r[y] = d[y]
      BY <2>3 DEF With, Without, Restrict
    <2>5. Cardinality((DOMAIN d \ {x}) \union {k}) <= MaxOpen
      <3>1. /\ IsFiniteSet(DOMAIN d \ {x})
            /\ Cardinality(DOMAIN d \ {x}) = Cardinality(DOMAIN d) - 1
        BY <1>2, <2>2, FS_RemoveElement
      <3>2. Cardinality((DOMAIN d \ {x}) \union {k}) = Cardinality(DOMAIN d \ {x}) + 1
        BY <3>1, FS_AddElement
      <3> QED BY <1>2, <2>1, <3>1, <3>2
    <2>6. \A y \in DOMAIN r : r[y] \in Completed
      BY <1>0, <1>1, <2>4
    <2>7. /\ DOMAIN r \subseteq Keys /\ Cardinality(DOMAIN r) <= MaxOpen
          /\ Evicted(d, r, k)
      BY <1>0, <2>1, <2>2, <2>4, <2>5 DEF Evicted
    <2> QED BY <2>4, <2>6, <2>7 DEF v, Remembers
  <1>5. CASE ~(Cardinality(DOMAIN d) >= MaxOpen)
    <2>1. r = With(d, k, v)
      BY <1>5 DEF Remember
    <2> HIDE DEF v
    <2>2. /\ DOMAIN r = DOMAIN d \union {k} /\ r[k] = v
          /\ \A y \in DOMAIN r \ {k} : y \in DOMAIN d /\ r[y] = d[y]
      BY <2>1 DEF With
    <2>3. Cardinality(DOMAIN d \union {k}) = Cardinality(DOMAIN d) + 1
      BY <1>2, FS_AddElement
    <2>4. Cardinality(DOMAIN d \union {k}) <= MaxOpen
      BY <1>2, <1>5, <2>3, OpenAssumption
    <2>5. \A y \in DOMAIN r : r[y] \in Completed
      BY <1>0, <1>1, <2>2
    <2>6. DOMAIN r \subseteq Keys /\ Cardinality(DOMAIN r) <= MaxOpen
      BY <1>0, <2>2, <2>4
    <2> QED BY <2>2, <2>5, <2>6 DEF v, Remembers
  <1> QED BY <1>4, <1>5

LEMMA MarkedFacts ==
    ASSUME NEW o, NEW k \in DOMAIN o, NEW i, o[k] \in Entry
    PROVE  /\ DOMAIN Marked(o, k, i) = DOMAIN o
           /\ \A x \in DOMAIN o \ {k} : Marked(o, k, i)[x] = o[x]
           /\ Marked(o, k, i)[k] = [want |-> o[k].want, seen |-> o[k].seen \union {i},
                                    deadline |-> o[k].deadline]
  BY DEF Marked, Entry

(* Each way out leaves two sound maps.                                     *)
LEMMA AcceptKeepsMaps ==
    ASSUME NEW o, NEW d, NEW k \in Keys, NEW i \in Nat, NEW n \in Nat, NEW ans,
           MapsOK(o, d), now \in Nat, Accept(o, d, k, i, n, ans)
    PROVE  MapsOK(open', done')
  <1>1. CASE Kept(o, d, k, i, n, ans)
    BY <1>1 DEF Kept
  <1>2. CASE Disagreed(o, d, k, i, n, ans)
    <2>1. /\ DOMAIN open' = DOMAIN o \ {k} /\ \A x \in DOMAIN open' : open'[x] = o[x]
          /\ done' = d
      BY <1>2, WithoutFacts DEF Disagreed
    <2>2. Cardinality(DOMAIN open') <= MaxOpen
      BY <2>1, KeySets, OpenAssumption DEF MapsOK
    <2> QED BY <2>1, <2>2 DEF MapsOK
  <1>3. CASE Gained(o, d, k, i, n, ans)
    <2>1. k \in DOMAIN o /\ o[k].want = n /\ i < n /\ i \notin o[k].seen
          /\ Cardinality(o[k].seen) + 1 < n
      BY <1>3 DEF Gained
    <2>2. /\ DOMAIN open' = DOMAIN o /\ done' = d
          /\ \A x \in DOMAIN o \ {k} : open'[x] = o[x]
          /\ open'[k] = [want |-> o[k].want, seen |-> o[k].seen \union {i},
                        deadline |-> o[k].deadline]
      <3>1. open' = Marked(o, k, i) /\ done' = d /\ o[k] \in Entry
        BY <1>3, <2>1 DEF Gained, MapsOK
      <3> QED BY <2>1, <3>1, MarkedFacts
    <2>3. o[k] \in Entry /\ n \in 2..MaxFragments /\ o[k].seen \subseteq 0..(n - 1)
          /\ Cardinality(o[k].seen) \in 1..(n - 1)
      BY <2>1 DEF MapsOK, Entry
    <2>4. o[k].seen \union {i} \subseteq 0..(n - 1)
      BY <2>1, <2>3
    <2>5. o[k].seen \union {i} \subseteq 0..MaxFragments - 1
      BY <2>3, <2>4, FragmentsAssumption
    <2>6. Cardinality(o[k].seen \union {i}) = Cardinality(o[k].seen) + 1
      <3>0. 0 \in Int /\ n - 1 \in Int
        OBVIOUS
      <3>1. IsFiniteSet(0..(n - 1))
        BY <3>0, FS_Interval
      <3>2. IsFiniteSet(o[k].seen)
        BY <2>3, <3>1, FS_Subset
      <3> QED BY <2>1, <3>2, FS_AddElement
    <2>7. /\ open'[k] \in Entry /\ open'[k].want = n
          /\ open'[k].seen = o[k].seen \union {i}
      BY <2>1, <2>2, <2>3, <2>5 DEF Entry
    <2>8. /\ open'[k].seen \subseteq 0..(open'[k].want - 1)
          /\ Cardinality(open'[k].seen) \in 1..(open'[k].want - 1)
      BY <2>1, <2>3, <2>4, <2>6, <2>7
    <2> QED BY <2>2, <2>7, <2>8 DEF MapsOK
  <1>4. CASE Filled(o, d, k, i, n, ans)
    <2>1. k \in DOMAIN o /\ o[k].want = n /\ k \notin DOMAIN d /\ o[k] \in Entry
          /\ DOMAIN d \subseteq Keys /\ (\A x \in DOMAIN d : d[x] \in Completed)
          /\ Cardinality(DOMAIN d) <= MaxOpen
      BY <1>4 DEF Filled, MapsOK
    <2>2. n \in 2..MaxFragments
      BY <2>1 DEF Entry
    <2>3. /\ DOMAIN open' = DOMAIN o \ {k} /\ \A x \in DOMAIN open' : open'[x] = o[x]
          /\ done' = Remember(d, k, n)
      BY <1>4, WithoutFacts DEF Filled
    <2>4. /\ DOMAIN done' \subseteq Keys /\ \A x \in DOMAIN done' : done'[x] \in Completed
          /\ Cardinality(DOMAIN done') <= MaxOpen
          /\ \A x \in DOMAIN done' \ {k} : x \in DOMAIN d
      <3>1. Remembers(d, k, n, done')
        BY <2>1, <2>2, <2>3, RememberFacts
      <3> QED BY <3>1 DEF Remembers
    <2>5. Cardinality(DOMAIN open') <= MaxOpen
      BY <2>3, KeySets, OpenAssumption DEF MapsOK
    <2>6. DOMAIN open' \intersect DOMAIN done' = {}
      BY <2>3, <2>4 DEF MapsOK
    <2> QED BY <2>3, <2>4, <2>5, <2>6 DEF MapsOK
  <1>5. CASE Contradicted(o, d, k, i, n, ans)
    <2>1. /\ DOMAIN done' = DOMAIN d \ {k} /\ \A x \in DOMAIN done' : done'[x] = d[x]
          /\ open' = o
      BY <1>5, WithoutFacts DEF Contradicted
    <2>2. Cardinality(DOMAIN done') <= MaxOpen
      BY <2>1, KeySets, OpenAssumption DEF MapsOK
    <2> QED BY <2>1, <2>2 DEF MapsOK
  <1>6. CASE Opened(o, d, k, i, n, ans)
    <2> DEFINE e == [want |-> n, seen |-> {i}, deadline |-> now + Timeout]
    <2>1. k \notin DOMAIN o /\ k \notin DOMAIN d /\ Cardinality(DOMAIN o) < MaxOpen
          /\ n \in 2..MaxFragments /\ i < n /\ open' = With(o, k, e) /\ done' = d
      BY <1>6 DEF Opened
    <2>2. e \in Entry /\ e.want = n /\ e.seen = {i}
      BY <2>1, TimeoutAssumption, FragmentsAssumption DEF Entry
    <2> HIDE DEF e
    <2>3. /\ DOMAIN open' = DOMAIN o \union {k} /\ open'[k] = e
          /\ \A x \in DOMAIN o : open'[x] = o[x]
      BY <2>1 DEF With
    <2>4. Cardinality(DOMAIN o \union {k}) <= MaxOpen
      <3>1. IsFiniteSet(DOMAIN o) /\ Cardinality(DOMAIN o) \in Nat
        BY KeySets DEF MapsOK
      <3>2. Cardinality(DOMAIN o \union {k}) = Cardinality(DOMAIN o) + 1
        BY <2>1, <3>1, FS_AddElement
      <3> QED BY <2>1, <3>1, <3>2, OpenAssumption
    <2>5. /\ e.seen \subseteq 0..(e.want - 1)
          /\ Cardinality(e.seen) \in 1..(e.want - 1)
      <3>1. e.seen \subseteq 0..(e.want - 1)
        BY <2>1, <2>2
      <3>2. Cardinality(e.seen) = 1
        BY <2>2, FS_Singleton
      <3> QED BY <2>1, <2>2, <3>1, <3>2
    <2> QED BY <2>1, <2>2, <2>3, <2>4, <2>5 DEF MapsOK
  <1> QED BY <1>1, <1>2, <1>3, <1>4, <1>5, <1>6, WaysOut DEF MapsOK

(* A fragment that arrives keeps heard young and never makes it older.     *)
LEMMA HeardFacts ==
    ASSUME WatchInv, NEW k, NEW i \in Nat, NEW n \in Nat, now' = now, watched' = watched,
           heard' = IF watched = <<k, n>> /\ i < n THEN With(heard, i, now) ELSE heard
    PROVE  /\ DOMAIN heard' \subseteq 0..(watched[2] - 1)
           /\ \A x \in DOMAIN heard' : heard'[x] \in Nat /\ heard'[x] <= now
           /\ \A x \in DOMAIN heard : x \in DOMAIN heard' /\ heard[x] <= heard'[x]
           /\ watched = <<k, n>> /\ i < n =>
                 i \in DOMAIN heard' /\ heard'[i] = now
                 /\ DOMAIN heard' = DOMAIN heard \union {i}
  <1>0. /\ DOMAIN heard \subseteq 0..(watched[2] - 1) /\ now \in Nat
        /\ \A x \in DOMAIN heard : heard[x] \in Nat /\ heard[x] <= now
    BY DEF WatchInv, ArrivalsOK
  <1>1. CASE watched = <<k, n>> /\ i < n
    <2>1. /\ DOMAIN heard' = DOMAIN heard \union {i} /\ heard'[i] = now
          /\ \A x \in DOMAIN heard \ {i} : heard'[x] = heard[x]
      BY <1>1 DEF With
    <2>2. watched[2] = n
      BY <1>1
    <2> QED BY <1>0, <1>1, <2>1, <2>2
  <1>2. CASE ~(watched = <<k, n>> /\ i < n)
    BY <1>0, <1>2
  <1> QED BY <1>1, <1>2

(* The sets that stay open keep their fragments, and one that gains or     *)
(* opens with a fragment has just heard it.                                *)
LEMMA ArriveKeepsSeen ==
    ASSUME WatchInv, NEW k \in Keys, NEW i \in Nat, NEW n \in Nat, NEW ans,
           Accept(Current(open), Current(done), k, i, n, ans),
           now' = now, watched' = watched,
           heard' = IF watched = <<k, n>> /\ i < n THEN With(heard, i, now) ELSE heard
    PROVE  SeenIsHeard'
  <1> DEFINE o == Current(open)
             d == Current(done)
             Fine(x) == /\ open'[x].deadline <= now + Timeout
                        /\ watched = <<x, open'[x].want>> /\ open'[x].deadline > now =>
                              \A j \in open'[x].seen :
                                 j \in DOMAIN heard'
                                 /\ open'[x].deadline <= heard'[j] + Timeout
  <1>1. /\ DOMAIN o \subseteq DOMAIN open
        /\ \A x \in DOMAIN o : o[x] = open[x] /\ open[x].deadline > now
    BY CurrentFacts
  <1>2. MapsOK(o, d) /\ now \in Nat
    BY PurgedIsOK DEF WatchInv, ArrivalsOK
  <1>3. \/ Kept(o, d, k, i, n, ans) \/ Disagreed(o, d, k, i, n, ans)
        \/ Gained(o, d, k, i, n, ans) \/ Filled(o, d, k, i, n, ans)
        \/ Contradicted(o, d, k, i, n, ans) \/ Opened(o, d, k, i, n, ans)
    BY <1>2, WaysOut DEF MapsOK
  <1> HIDE DEF o, d
  <1>4. /\ \A x \in DOMAIN heard' : heard'[x] \in Nat /\ heard'[x] <= now
        /\ \A x \in DOMAIN heard : x \in DOMAIN heard' /\ heard[x] <= heard'[x]
        /\ watched = <<k, n>> /\ i < n => i \in DOMAIN heard' /\ heard'[i] = now
    BY HeardFacts
  <1>5. \A x \in DOMAIN o :
           /\ o[x].deadline \in Nat /\ o[x].deadline <= now + Timeout
           /\ watched = <<x, o[x].want>> =>
                 \A j \in o[x].seen : j \in DOMAIN heard /\ heard[j] \in Nat
                                      /\ o[x].deadline <= heard[j] + Timeout
    BY <1>1, <1>2 DEF WatchInv, SeenIsHeard, ArrivalsOK, MapsOK, Entry
  <1>6. \A x \in DOMAIN o :
           watched = <<x, o[x].want>> =>
                 \A j \in o[x].seen : j \in DOMAIN heard'
                                      /\ o[x].deadline <= heard'[j] + Timeout
    BY <1>4, <1>5, TimeoutAssumption
  <1>7. \A x : x \in DOMAIN o /\ open'[x] = o[x] => Fine(x)
    BY <1>5, <1>6
  <1>8. CASE \/ Kept(o, d, k, i, n, ans) \/ Disagreed(o, d, k, i, n, ans)
             \/ Filled(o, d, k, i, n, ans) \/ Contradicted(o, d, k, i, n, ans)
    <2>1. \A x \in DOMAIN open' : x \in DOMAIN o /\ open'[x] = o[x]
      <3>1. open' = o \/ open' = Without(o, k)
        BY <1>8 DEF Kept, Disagreed, Filled, Contradicted
      <3> QED BY <3>1 DEF Without, Restrict
    <2>2. \A x \in DOMAIN open' : Fine(x)
      BY <1>7, <2>1
    <2> QED BY <2>2 DEF SeenIsHeard
  <1>9. CASE Gained(o, d, k, i, n, ans)
    <2>1. /\ k \in DOMAIN o /\ o[k].want = n /\ i < n /\ open' = Marked(o, k, i)
          /\ o[k] \in Entry
      BY <1>2, <1>9 DEF Gained, MapsOK
    <2>2. /\ DOMAIN open' = DOMAIN o /\ \A x \in DOMAIN o \ {k} : open'[x] = o[x]
          /\ open'[k] = [want |-> o[k].want, seen |-> o[k].seen \union {i},
                         deadline |-> o[k].deadline]
      BY <2>1, MarkedFacts
    <2>3. /\ open'[k].want = n /\ open'[k].seen = o[k].seen \union {i}
          /\ open'[k].deadline = o[k].deadline
      BY <2>1, <2>2
    <2>4. Fine(k)
      <3>1. watched = <<k, n>> =>
               \A j \in o[k].seen : j \in DOMAIN heard'
                                    /\ o[k].deadline <= heard'[j] + Timeout
        BY <1>6, <2>1
      <3>2. watched = <<k, n>> => i \in DOMAIN heard' /\ heard'[i] = now
        BY <1>4, <2>1
      <3>3. o[k].deadline <= now + Timeout
        BY <1>5, <2>1
      <3> QED BY <2>3, <3>1, <3>2, <3>3
    <2>5. \A x \in DOMAIN open' : Fine(x)
      BY <1>7, <2>2, <2>4
    <2> QED BY <2>5 DEF SeenIsHeard
  <1>10. CASE Opened(o, d, k, i, n, ans)
    <2>1. /\ i < n /\ k \notin DOMAIN o
          /\ open' = With(o, k, [want |-> n, seen |-> {i}, deadline |-> now + Timeout])
      BY <1>10 DEF Opened
    <2>2. /\ DOMAIN open' = DOMAIN o \union {k} /\ \A x \in DOMAIN o : open'[x] = o[x]
          /\ open'[k] = [want |-> n, seen |-> {i}, deadline |-> now + Timeout]
      BY <2>1 DEF With
    <2>3. open'[k].want = n /\ open'[k].seen = {i} /\ open'[k].deadline = now + Timeout
      BY <2>2
    <2>4. Fine(k)
      <3>1. watched = <<k, n>> => i \in DOMAIN heard' /\ heard'[i] = now
        BY <1>4, <2>1
      <3>2. now + Timeout <= now + Timeout
        BY <1>2, TimeoutAssumption
      <3> QED BY <2>3, <3>1, <3>2
    <2>5. \A x \in DOMAIN open' : Fine(x)
      BY <1>7, <2>2, <2>4
    <2> QED BY <2>5 DEF SeenIsHeard
  <1> QED BY <1>3, <1>8, <1>9, <1>10

(* An arrival that completes nothing keeps the memories, or the key whose  *)
(* memory it drops is argued.                                              *)
LEMMA ArriveKeepsMemory ==
    ASSUME WatchInv, NEW k \in Keys, NEW i \in Nat, NEW n \in Nat, NEW ans \in Answers,
           Accept(Current(open), Current(done), k, i, n, ans), ~(ans = "complete" /\ n > 1),
           now' = now, doneAt' = doneAt,
           argued' = IF ans = "mismatch" /\ k \in DOMAIN Current(done)
                     THEN argued \union {k} ELSE argued
    PROVE  MemoryOfCompletion' /\ Remembered'
  <1> DEFINE o == Current(open)
             d == Current(done)
  <1>1. /\ DOMAIN d = {x \in DOMAIN done : done[x].deadline > now}
        /\ \A x \in DOMAIN d : d[x] = done[x]
    BY CurrentFacts
  <1>2. MapsOK(o, d) /\ now \in Nat
    BY PurgedIsOK DEF WatchInv, ArrivalsOK
  <1>3. \/ Kept(o, d, k, i, n, ans) \/ Disagreed(o, d, k, i, n, ans)
        \/ Gained(o, d, k, i, n, ans) \/ Filled(o, d, k, i, n, ans)
        \/ Contradicted(o, d, k, i, n, ans) \/ Opened(o, d, k, i, n, ans)
    BY <1>2, WaysOut DEF MapsOK
  <1>4. /\ DOMAIN done' \subseteq DOMAIN d /\ \A x \in DOMAIN done' : done'[x] = d[x]
        /\ argued \subseteq argued' /\ \A x \in DOMAIN d : x \in DOMAIN done' \/ x \in argued'
    <2>1. ~Filled(o, d, k, i, n, ans)
      BY DEF Filled
    <2>2. CASE Contradicted(o, d, k, i, n, ans)
      BY <2>2, WithoutFacts DEF Contradicted
    <2>3. CASE ~Contradicted(o, d, k, i, n, ans)
      <3>1. done' = d
        BY <1>3, <2>1, <2>3 DEF Kept, Disagreed, Gained, Opened
      <3> QED BY <3>1
    <2> QED BY <2>2, <2>3
  <1> HIDE DEF o, d
  <1>5. MemoryOfCompletion'
    BY <1>1, <1>4 DEF WatchInv, MemoryOfCompletion
  <1>6. Remembered'
    <2> SUFFICES ASSUME NEW x \in DOMAIN doneAt \ argued', ~(Cardinality(CompletedSince(x)) >= MaxOpen)
                 PROVE  x \in DOMAIN done' /\ done'[x].deadline = doneAt[x] + Timeout
      BY DEF Remembered, CompletedSince
    <2>1. x \in DOMAIN done /\ done[x].deadline = doneAt[x] + Timeout
      BY <1>4 DEF WatchInv, Remembered
    <2>2. doneAt[x] + Timeout > now
      BY DEF WatchInv, ArrivalsOK
    <2>3. x \in DOMAIN d
      BY <1>1, <2>1, <2>2
    <2> QED BY <1>1, <1>4, <2>1, <2>3
  <1> QED BY <1>5, <1>6

(* A completion is a memory of now, and the memory it may push out is one  *)
(* that MaxOpen completions followed.                                      *)
LEMMA CompleteKeepsMemory ==
    ASSUME WatchInv, NEW k \in Keys, NEW i \in Nat, NEW n \in Nat,
           NEW o, NEW d, o = Current(open), d = Current(done),
           Filled(o, d, k, i, n, "complete"),
           now' = now, doneAt' = With(doneAt, k, now), argued' = argued \ {k}
    PROVE  MemoryOfCompletion' /\ Remembered'
  <1>1. /\ DOMAIN d = {x \in DOMAIN done : done[x].deadline > now}
        /\ \A x \in DOMAIN d : d[x] = done[x]
    BY CurrentFacts
  <1>2. MapsOK(o, d) /\ now \in Nat
    BY PurgedIsOK DEF WatchInv, ArrivalsOK
  <1>3. k \in DOMAIN o /\ o[k].want = n /\ k \notin DOMAIN d /\ done' = Remember(d, k, n)
    BY <1>2 DEF Filled, MapsOK
  <1>4. n \in 2..MaxFragments
    BY <1>2, <1>3 DEF MapsOK, Entry
  <1>5. /\ k \in DOMAIN done' /\ done'[k] = [segments |-> n, deadline |-> now + Timeout]
        /\ \A x \in DOMAIN done' \ {k} : x \in DOMAIN d /\ done'[x] = d[x]
        /\ DOMAIN done' = DOMAIN d \union {k} \/ Evicted(d, done', k)
    <2>1. Remembers(d, k, n, done')
      BY <1>2, <1>3, <1>4, RememberFacts
    <2> QED BY <2>1 DEF Remembers
  <1>6. /\ DOMAIN doneAt' = DOMAIN doneAt \union {k} /\ doneAt'[k] = now
        /\ \A x \in DOMAIN doneAt \ {k} : doneAt'[x] = doneAt[x]
    BY DEF With
  <1>7. \A x \in DOMAIN doneAt : doneAt[x] \in Nat /\ doneAt[x] <= now /\ doneAt[x] + Timeout > now
    BY DEF WatchInv, ArrivalsOK
  <1>8. \A x \in DOMAIN d : x \in DOMAIN doneAt /\ d[x].deadline = doneAt[x] + Timeout
    BY <1>1 DEF WatchInv, MemoryOfCompletion
  <1>9. done'[k].deadline = doneAt'[k] + Timeout
    BY <1>5, <1>6
  <1>10. MemoryOfCompletion'
    <2>1. \A x \in DOMAIN done' : x \in DOMAIN doneAt' /\ done'[x].deadline = doneAt'[x] + Timeout
      BY <1>3, <1>5, <1>6, <1>8, <1>9
    <2> QED BY <2>1 DEF MemoryOfCompletion
  <1>11. \A x \in DOMAIN doneAt \ {k} : CompletedSince(x) \subseteq CompletedSince(x)'
    BY <1>6, <1>7, <1>2 DEF CompletedSince
  <1>12. \A x \in DOMAIN doneAt \ {k} : CompletedSince(x)' \subseteq Keys
    BY <1>6 DEF CompletedSince, WatchInv, WatchTypeOK
  <1>13. Remembered'
    <2> SUFFICES ASSUME NEW x \in DOMAIN doneAt' \ argued', x # k
                 PROVE  \/ x \in DOMAIN done' /\ done'[x].deadline = doneAt'[x] + Timeout
                        \/ Cardinality(CompletedSince(x)') >= MaxOpen
      BY <1>5, <1>9 DEF Remembered
    <2>1. x \in DOMAIN doneAt \ argued
      BY <1>6
    <2>2. /\ IsFiniteSet(CompletedSince(x)')
          /\ \A T \in SUBSET (CompletedSince(x)') :
                Cardinality(T) <= Cardinality(CompletedSince(x)') /\ Cardinality(T) \in Nat
          /\ Cardinality(CompletedSince(x)') \in Nat
      BY <1>12, <2>1, KeySets
    <2>3. CASE Cardinality(CompletedSince(x)) >= MaxOpen
      BY <1>11, <2>1, <2>2, <2>3, OpenAssumption
    <2>4. CASE x \in DOMAIN done /\ done[x].deadline = doneAt[x] + Timeout
      <3>1. x \in DOMAIN d /\ d[x].deadline = doneAt'[x] + Timeout
        BY <1>1, <1>6, <1>7, <2>1, <2>4
      <3>2. CASE x \in DOMAIN done'
        BY <1>5, <3>1, <3>2
      <3>3. CASE x \notin DOMAIN done'
        <4>1. /\ Cardinality(DOMAIN d) = MaxOpen
              /\ \A j \in DOMAIN d : d[x].deadline <= d[j].deadline
          BY <1>5, <3>1, <3>3 DEF Evicted
        <4>2. (DOMAIN d \ {x}) \union {k} \subseteq CompletedSince(x)'
          <5>1. \A j \in DOMAIN d : doneAt[x] <= doneAt[j]
            BY <1>7, <1>8, <2>1, <3>1, <4>1, TimeoutAssumption
          <5> QED BY <1>2, <1>3, <1>6, <1>7, <1>8, <2>1, <5>1 DEF CompletedSince
        <4>3. Cardinality((DOMAIN d \ {x}) \union {k}) = MaxOpen
          <5>1. IsFiniteSet(DOMAIN d)
            BY <1>2, KeySets DEF MapsOK
          <5>2. /\ IsFiniteSet(DOMAIN d \ {x})
                /\ Cardinality(DOMAIN d \ {x}) = MaxOpen - 1
            BY <3>1, <4>1, <5>1, FS_RemoveElement
          <5>3. Cardinality((DOMAIN d \ {x}) \union {k}) = Cardinality(DOMAIN d \ {x}) + 1
            BY <1>3, <5>2, FS_AddElement
          <5> QED BY <5>2, <5>3, OpenAssumption
        <4> QED BY <2>2, <4>2, <4>3
      <3> QED BY <3>2, <3>3
    <2> QED BY <2>1, <2>3, <2>4 DEF WatchInv, Remembered
  <1> QED BY <1>10, <1>13

(* The whole of an arrival.                                                *)
LEMMA ArriveStep ==
    ASSUME WatchInv, NEW k \in Keys, NEW f \in Fragments, Arrive(k, f[1], f[2])
    PROVE  WatchInv'
  <1> DEFINE i == f[1]
             n == f[2]
             o == Current(open)
             d == Current(done)
  <1>1. i \in Nat /\ n \in Nat
    BY InputAssumption
  <1>2. PICK ans \in Answers :
          /\ Accept(o, d, k, i, n, ans)
          /\ heard' = IF watched = <<k, n>> /\ i < n THEN With(heard, i, now) ELSE heard
          /\ doneAt' = IF ans = "complete" /\ n > 1 THEN With(doneAt, k, now) ELSE doneAt
          /\ argued' = CASE ans = "complete" /\ n > 1 -> argued \ {k}
                         [] ans = "mismatch" /\ k \in DOMAIN d -> argued \union {k}
                         [] OTHER -> argued
          /\ now' = now /\ watched' = watched
    BY DEF Arrive
  <1> HIDE DEF i, n
  <1>3. MapsOK(o, d) /\ now \in Nat
    BY PurgedIsOK DEF WatchInv, ArrivalsOK
  <1>4. MapsOK(open', done')
    <2> HIDE DEF o, d
    <2> QED BY <1>1, <1>2, <1>3, AcceptKeepsMaps
  <1>5. /\ DOMAIN heard' \subseteq 0..(watched[2] - 1)
        /\ \A x \in DOMAIN heard' : heard'[x] \in Nat /\ heard'[x] <= now
    BY <1>1, <1>2, HeardFacts
  <1>6. /\ DOMAIN doneAt' \subseteq Keys /\ argued' \subseteq Keys
        /\ \A x \in DOMAIN doneAt' :
              doneAt'[x] \in Nat /\ doneAt'[x] <= now /\ doneAt'[x] + Timeout > now
    <2>1. /\ DOMAIN doneAt \subseteq Keys /\ argued \subseteq Keys
          /\ \A x \in DOMAIN doneAt :
                doneAt[x] \in Nat /\ doneAt[x] <= now /\ doneAt[x] + Timeout > now
      BY DEF WatchInv, WatchTypeOK, ArrivalsOK
    <2>2. argued' \subseteq Keys
      BY <1>2, <2>1
    <2>3. doneAt' = doneAt \/ doneAt' = With(doneAt, k, now)
      BY <1>2
    <2>4. CASE doneAt' = With(doneAt, k, now)
      BY <1>3, <2>1, <2>2, <2>4, TimeoutAssumption DEF With
    <2> QED BY <2>1, <2>2, <2>3, <2>4
  <1>7. WatchTypeOK' /\ BufferBounded' /\ ArrivalsOK'
    BY <1>2, <1>3, <1>4, <1>5, <1>6
       DEF WatchInv, WatchTypeOK, BufferTypeOK, BufferBounded, ArrivalsOK, MapsOK
  <1>8. SeenIsHeard'
    BY <1>1, <1>2, ArriveKeepsSeen
  <1>9. MemoryOfCompletion' /\ Remembered'
    <2>1. CASE ans = "complete" /\ n > 1
      <3>1. Filled(o, d, k, i, n, "complete")
        <4> HIDE DEF o, d
        <4>1. \/ Kept(o, d, k, i, n, ans) \/ Disagreed(o, d, k, i, n, ans)
              \/ Gained(o, d, k, i, n, ans) \/ Filled(o, d, k, i, n, ans)
              \/ Contradicted(o, d, k, i, n, ans) \/ Opened(o, d, k, i, n, ans)
          BY <1>1, <1>2, <1>3, WaysOut DEF MapsOK
        <4> QED BY <2>1, <4>1 DEF Kept, Disagreed, Gained, Contradicted, Opened
      <3>2. doneAt' = With(doneAt, k, now) /\ argued' = argued \ {k}
        BY <1>2, <2>1
      <3> QED BY <1>1, <1>2, <3>1, <3>2, CompleteKeepsMemory
    <2>2. CASE ~(ans = "complete" /\ n > 1)
      <3>1. doneAt' = doneAt
            /\ argued' = IF ans = "mismatch" /\ k \in DOMAIN d THEN argued \union {k} ELSE argued
        BY <1>2, <2>2
      <3> QED BY <1>1, <1>2, <2>2, <3>1, ArriveKeepsMemory
    <2> QED BY <2>1, <2>2
  <1> QED BY <1>7, <1>8, <1>9 DEF WatchInv

(***************************************************************************)
(* The other steps, and the theorems.                                      *)
(***************************************************************************)

LEMMA ExpireStep == ASSUME WatchInv, Expire PROVE WatchInv'
  <1>0. /\ open' = Current(open) /\ done' = Current(done) /\ now' = now
        /\ watched' = watched /\ heard' = heard /\ doneAt' = doneAt /\ argued' = argued
    BY DEF Expire, Purge
  <1>1. /\ \A x \in DOMAIN open' : x \in DOMAIN open /\ open'[x] = open[x]
        /\ DOMAIN done' = {x \in DOMAIN done : done[x].deadline > now}
        /\ \A x \in DOMAIN done' : done'[x] = done[x]
    BY <1>0, CurrentFacts
  <1>2. MapsOK(open', done')
    BY <1>0, PurgedIsOK
  <1>3. WatchTypeOK' /\ BufferBounded' /\ ArrivalsOK'
    BY <1>0, <1>2
       DEF WatchInv, WatchTypeOK, BufferTypeOK, BufferBounded, ArrivalsOK, MapsOK
  <1>4. SeenIsHeard'
    BY <1>0, <1>1 DEF WatchInv, SeenIsHeard
  <1>5. MemoryOfCompletion'
    BY <1>0, <1>1 DEF WatchInv, MemoryOfCompletion
  <1>6. Remembered'
    <2> SUFFICES ASSUME NEW x \in DOMAIN doneAt \ argued,
                        ~(Cardinality(CompletedSince(x)) >= MaxOpen)
                 PROVE  x \in DOMAIN done' /\ done'[x].deadline = doneAt[x] + Timeout
      BY <1>0 DEF Remembered, CompletedSince
    <2>1. x \in DOMAIN done /\ done[x].deadline = doneAt[x] + Timeout
      BY DEF WatchInv, Remembered
    <2>2. doneAt[x] + Timeout > now
      BY DEF WatchInv, ArrivalsOK
    <2> QED BY <1>1, <2>1, <2>2
  <1> QED BY <1>3, <1>4, <1>5, <1>6 DEF WatchInv

(* Time passes: what a tick forgets is past the deadline of all that needs *)
(* it.                                                                     *)
LEMMA WatchTickStep == ASSUME WatchInv, WatchTick PROVE WatchInv'
  <1>0. /\ now' = now + 1 /\ open' = open /\ done' = done /\ watched' = watched
        /\ argued' = argued \intersect DOMAIN doneAt'
    BY DEF WatchTick
  <1>1. /\ DOMAIN heard' = {i \in DOMAIN heard : heard[i] + Timeout > now + 1}
        /\ \A i \in DOMAIN heard' : heard'[i] = heard[i]
    BY DEF WatchTick, Restrict
  <1>2. /\ DOMAIN doneAt' = {k \in DOMAIN doneAt : doneAt[k] + Timeout > now + 1}
        /\ \A k \in DOMAIN doneAt' : doneAt'[k] = doneAt[k]
    BY DEF WatchTick, Restrict
  <1>3. now \in Nat /\ Timeout \in Nat
    BY TimeoutAssumption DEF WatchInv, ArrivalsOK
  <1>4. WatchTypeOK'
    BY <1>0, <1>2, <1>3 DEF WatchInv, WatchTypeOK, BufferTypeOK
  <1>5. BufferBounded'
    BY <1>0 DEF WatchInv, BufferBounded
  <1>6. ArrivalsOK'
    BY <1>0, <1>1, <1>2, <1>3 DEF WatchInv, ArrivalsOK
  <1>7. SeenIsHeard'
    <2> SUFFICES ASSUME NEW k \in DOMAIN open
                 PROVE  /\ open[k].deadline <= now + 1 + Timeout
                        /\ watched = <<k, open[k].want>> /\ open[k].deadline > now + 1 =>
                              \A i \in open[k].seen :
                                 i \in DOMAIN heard' /\ open[k].deadline <= heard'[i] + Timeout
      BY <1>0 DEF SeenIsHeard
    <2>1. open[k].deadline \in Nat /\ open[k].deadline <= now + Timeout
      BY DEF WatchInv, WatchTypeOK, BufferTypeOK, Entry, SeenIsHeard
    <2>2. open[k].deadline <= now + 1 + Timeout
      BY <1>3, <2>1
    <2>3. ASSUME watched = <<k, open[k].want>>, open[k].deadline > now + 1,
                 NEW i \in open[k].seen
          PROVE  i \in DOMAIN heard' /\ open[k].deadline <= heard'[i] + Timeout
      <3>1. open[k].deadline > now
        BY <1>3, <2>1, <2>3
      <3>2. i \in DOMAIN heard /\ open[k].deadline <= heard[i] + Timeout
        BY <2>3, <3>1 DEF WatchInv, SeenIsHeard
      <3>3. heard[i] \in Nat
        BY <3>2 DEF WatchInv, ArrivalsOK
      <3>4. heard[i] + Timeout > now + 1
        BY <1>3, <2>1, <2>3, <3>2, <3>3
      <3> QED BY <1>1, <3>2, <3>4
    <2> QED BY <2>2, <2>3
  <1>8. MemoryOfCompletion'
    <2> SUFFICES ASSUME NEW k \in DOMAIN done, done[k].deadline > now + 1
                 PROVE  k \in DOMAIN doneAt' /\ done[k].deadline = doneAt'[k] + Timeout
      BY <1>0 DEF MemoryOfCompletion
    <2>1. done[k].deadline \in Nat
      BY DEF WatchInv, WatchTypeOK, BufferTypeOK, Completed
    <2>2. done[k].deadline > now
      BY <1>3, <2>1
    <2>3. k \in DOMAIN doneAt /\ done[k].deadline = doneAt[k] + Timeout
      BY <2>2 DEF WatchInv, MemoryOfCompletion
    <2> QED BY <1>2, <2>3
  <1>9. Remembered'
    <2> SUFFICES ASSUME NEW x \in DOMAIN doneAt', x \notin argued'
                 PROVE  \/ x \in DOMAIN done' /\ done'[x].deadline = doneAt'[x] + Timeout
                        \/ Cardinality(CompletedSince(x)') >= MaxOpen
      BY DEF Remembered
    <2>1. x \in DOMAIN doneAt \ argued
      BY <1>0, <1>2
    <2>2. CASE x \in DOMAIN done /\ done[x].deadline = doneAt[x] + Timeout
      BY <1>0, <1>2, <2>2
    <2>3. CASE Cardinality(CompletedSince(x)) >= MaxOpen
      <3>1. CompletedSince(x)' = CompletedSince(x)
        <4>1. \A j \in DOMAIN doneAt : doneAt[j] \in Nat
          BY DEF WatchInv, ArrivalsOK
        <4>2. \A j \in DOMAIN doneAt : doneAt[j] >= doneAt[x] => j \in DOMAIN doneAt'
          BY <1>2, <1>3, <2>1, <4>1
        <4> QED BY <1>2, <4>2 DEF CompletedSince
      <3> QED BY <2>3, <3>1
    <2> QED BY <2>1, <2>2, <2>3 DEF WatchInv, Remembered
  <1> QED BY <1>4, <1>5, <1>6, <1>7, <1>8, <1>9 DEF WatchInv

LEMMA WatchNextInv == ASSUME WatchInv, [WatchNext]_watchVars PROVE WatchInv'
  <1>1. CASE UNCHANGED watchVars
    <2>0. /\ now' = now /\ open' = open /\ done' = done /\ watched' = watched
          /\ heard' = heard /\ doneAt' = doneAt /\ argued' = argued
      BY <1>1 DEF watchVars
    <2>1. WatchTypeOK' /\ BufferBounded' /\ ArrivalsOK'
      BY <2>0 DEF WatchInv, WatchTypeOK, BufferTypeOK, BufferBounded, ArrivalsOK
    <2>2. SeenIsHeard' /\ MemoryOfCompletion'
      BY <2>0 DEF WatchInv, SeenIsHeard, MemoryOfCompletion
    <2>3. Remembered'
      BY <2>0 DEF WatchInv, Remembered, CompletedSince
    <2> QED BY <2>1, <2>2, <2>3 DEF WatchInv
  <1>2. CASE \E k \in Keys, f \in Fragments : Arrive(k, f[1], f[2])
    BY <1>2, ArriveStep
  <1>3. CASE Expire \/ WatchTick
    BY <1>3, ExpireStep, WatchTickStep
  <1> QED BY <1>1, <1>2, <1>3 DEF WatchNext

(* The inductive invariant holds for any capacity, timeout, number of keys    *)
(* and fragments offered.                                                     *)
THEOREM WatchInductive == WatchSpec => []WatchInv
  <1>1. WatchInv /\ [WatchNext]_watchVars => WatchInv'
    BY WatchNextInv
  <1> QED BY <1>1, WatchInitInv, PTL DEF WatchSpec

(* The buffer of frag.rs never outgrows max_open, never holds a key twice or  *)
(* a full set, and remembers a completion for one timeout unless max_open     *)
(* completions or a fragment of another count displaced it (ReassemblyBuffer  *)
(* accept, remember and expire).                                              *)
THEOREM BufferIsSound == WatchSpec => []BufferSound
  <1>1. ASSUME WatchInv PROVE RememberedForTimeout
    <2> SUFFICES ASSUME NEW k \in DOMAIN doneAt \ argued
                 PROVE  \/ k \in DOMAIN done /\ k \notin DOMAIN open
                        \/ Cardinality(CompletedSince(k)) >= MaxOpen
      BY DEF RememberedForTimeout, CompletedSince
    <2> QED BY <1>1 DEF WatchInv, Remembered, BufferBounded
  <1>2. WatchInv => BufferSound
    BY <1>1 DEF WatchInv, BufferSound
  <1> QED BY <1>2, WatchInductive, PTL

(* A set that fills up has heard each of its fragments within a timeout.      *)
LEMMA CompleteStep ==
    ASSUME WatchInv, [WatchNext]_watchVars, NEW x \in DOMAIN done', x \notin DOMAIN done \/ done'[x] # done[x],
           watched = <<x, done'[x].segments>>
    PROVE  DOMAIN heard' = 0..(watched[2] - 1)
  <1>1. CASE UNCHANGED watchVars \/ WatchTick
    BY <1>1 DEF watchVars, WatchTick
  <1>2. CASE Expire
    BY <1>2, CurrentFacts DEF Expire, Purge
  <1>3. ASSUME NEW k \in Keys, NEW f \in Fragments, Arrive(k, f[1], f[2])
        PROVE  DOMAIN heard' = 0..(watched[2] - 1)
    <2>1. PICK i, n, o, d, ans :
            /\ i \in Nat /\ n \in Nat /\ o = Current(open) /\ d = Current(done)
            /\ Accept(o, d, k, i, n, ans)
            /\ heard' = IF watched = <<k, n>> /\ i < n THEN With(heard, i, now) ELSE heard
            /\ now' = now /\ watched' = watched
      BY <1>3, InputAssumption DEF Arrive
    <2>2. MapsOK(o, d) /\ now \in Nat
      BY <2>1, PurgedIsOK DEF WatchInv, ArrivalsOK
    <2>3. \A y \in DOMAIN d : y \in DOMAIN done /\ d[y] = done[y]
      BY <2>1, CurrentFacts
    <2>4. \/ Kept(o, d, k, i, n, ans) \/ Disagreed(o, d, k, i, n, ans)
          \/ Gained(o, d, k, i, n, ans) \/ Filled(o, d, k, i, n, ans)
          \/ Contradicted(o, d, k, i, n, ans) \/ Opened(o, d, k, i, n, ans)
      BY <2>1, <2>2, WaysOut DEF MapsOK
    <2>5. CASE ~Filled(o, d, k, i, n, ans)
      <3>1. done' = d \/ done' = Without(d, k)
        BY <2>4, <2>5 DEF Kept, Disagreed, Gained, Contradicted, Opened
      <3>2. x \in DOMAIN d /\ done'[x] = d[x]
        BY <3>1 DEF Without, Restrict
      <3> QED BY <2>3, <3>2
    <2>6. CASE Filled(o, d, k, i, n, ans)
      <3>1. /\ k \in DOMAIN o /\ k \notin DOMAIN d /\ o[k].want = n /\ i < n
            /\ i \notin o[k].seen /\ Cardinality(o[k].seen) + 1 = n
            /\ done' = Remember(d, k, n)
        BY <2>2, <2>6 DEF Filled, MapsOK
      <3>2. n \in 2..MaxFragments /\ o[k].seen \subseteq 0..(n - 1)
        BY <2>2, <3>1 DEF MapsOK, Entry
      <3>3. Remembers(d, k, n, done')
        BY <2>2, <3>1, <3>2, RememberFacts
      <3>4. x = k
        BY <2>3, <3>3 DEF Remembers
      <3>5. watched = <<k, n>>
        BY <3>3, <3>4 DEF Remembers
      <3>6. o[k] = open[k] /\ k \in DOMAIN open /\ open[k].deadline > now
        BY <2>1, <3>1, CurrentFacts
      <3>7. o[k].seen \subseteq DOMAIN heard
        BY <3>1, <3>5, <3>6 DEF WatchInv, SeenIsHeard
      <3>8. DOMAIN heard' = DOMAIN heard \union {i} /\ DOMAIN heard' \subseteq 0..(n - 1)
        BY <2>1, <3>1, <3>5, HeardFacts
      <3>9. o[k].seen \union {i} = 0..(n - 1)
        <4>1. IsFiniteSet(0..(n - 1)) /\ Cardinality(0..(n - 1)) = n
          BY <3>2, FS_Interval
        <4>2. IsFiniteSet(o[k].seen)
          BY <3>2, <4>1, FS_Subset
        <4>3. Cardinality(o[k].seen \union {i}) = n
          BY <3>1, <4>2, FS_AddElement
        <4>4. o[k].seen \union {i} \in SUBSET (0..(n - 1))
          BY <2>1, <3>1, <3>2
        <4> QED BY <4>1, <4>3, <4>4, FS_Subset
      <3>10. watched[2] = n
        BY <3>5
      <3> QED BY <3>7, <3>8, <3>9, <3>10
    <2> QED BY <2>5, <2>6
  <1> QED BY <1>1, <1>2, <1>3 DEF WatchNext

(* An SDU completes only from fragments each of which arrived less than a     *)
(* timeout before, in whatever order fragments, repetitions and other counts  *)
(* came (ReassemblyBuffer::accept, which purges before it looks).             *)
THEOREM CompletesFromFresh == WatchSpec => CompleteIsFresh
  <1>1. WatchInv /\ [WatchNext]_watchVars =>
           \A k \in DOMAIN done' :
              /\ k \notin DOMAIN done \/ done'[k] # done[k]
              /\ watched = <<k, done'[k].segments>>
              => DOMAIN heard' = 0..(watched[2] - 1)
    BY CompleteStep
  <1> QED BY <1>1, WatchInductive, PTL DEF WatchSpec, CompleteIsFresh

------------------------------------------------------------------------------
(***************************************************************************)
(* The groups of the engine.                                               *)
(***************************************************************************)

\* The fragments of SDU k that were decoded.
GotOf(k) == {i \in Pieces(k) : <<k, i>> \in got}

\* No fragment of SDU k can arrive any more.
Over(k) ==
    \/ ended
    \/ now > first[k] + Timeout
    \/ now = first[k] + Timeout /\ tasks

Fate == {"delivered", "receiver_off", "lost", "in_flight"}

\* The engine's own bookkeeping, and what was on the air.
HistoryOK ==
    /\ fates \in [Keys -> Seq(Fate)]
    /\ now \in 0..Horizon
    /\ air \intersect got = {}
    /\ DOMAIN first \subseteq Keys
    /\ \A k \in DOMAIN first : first[k] \in Nat /\ first[k] <= now
    /\ DOMAIN groups \subseteq DOMAIN first /\ DOMAIN resolved \subseteq DOMAIN first
    /\ DOMAIN groups \intersect DOMAIN resolved = {}
    /\ \A k \in Keys \ DOMAIN first : GotOf(k) = {} /\ k \notin whole
    /\ whole \subseteq Keys
    /\ ended => DOMAIN groups = {}

\* A group knows the fragments decoded, and no fragment comes after its deadline.
GroupsOK ==
    \A k \in DOMAIN groups :
        /\ groups[k].decoded = GotOf(k)
        /\ groups[k].opened <=> GotOf(k) # {}
        /\ first[k] + Timeout <= groups[k].deadline

\* The buffer holds decoded fragments under their SDU's own count.
BufferOK ==
    /\ \A k \in DOMAIN open : /\ open[k].want = Count[k]
                              /\ open[k].seen \subseteq GotOf(k)
                              /\ open[k].seen # {}
    /\ \A k \in DOMAIN done : Pieces(k) \subseteq GotOf(k)

\* An SDU has a fate once its group is gone, and only then.
FateWhenClosed ==
    \A k \in Keys :
        Len(fates[k]) = IF k \in DOMAIN first /\ k \notin DOMAIN groups THEN 1 ELSE 0

\* An SDU whose group is gone is remembered while a fragment of it can still arrive.
ClosedIsRemembered ==
    \A k \in DOMAIN first \ DOMAIN groups :
        \/ k \in DOMAIN resolved /\ resolved[k] >= first[k] + Timeout
        \/ Over(k)

\* A fragment of k that the buffer did not take and that will not come again.
Missed(k) ==
    \E i \in Pieces(k) : <<k, i>> \notin air /\ (k \in DOMAIN open => i \notin open[k].seen)

\* The buffer never completes an SDU that the engine gave up.
GivenUpStaysSo ==
    \A k \in DOMAIN first \ DOMAIN groups :
        fates[k] \in {<<"delivered">>, <<"receiver_off">>} \/ Missed(k) \/ Over(k)

\* The inductive invariant.
IInv ==
    /\ TypeOK /\ HistoryOK /\ GroupsOK /\ BufferOK /\ FateWhenClosed
    /\ ClosedIsRemembered /\ GivenUpStaysSo /\ DeliveredIsWhole
    /\ GroupAgreesWithBuffer /\ ResolvedByDeadline

------------------------------------------------------------------------------
(***************************************************************************)
(* The initial state.                                                      *)
(***************************************************************************)

LEMMA EmptyFates ==
    ASSUME NEW s \in Seq(Fate), Len(s) = 0, NEW f \in Fate
    PROVE  /\ s = <<>> /\ Append(s, f) = <<f>>
           /\ Append(s, f) \in Seq(Fate) /\ Len(Append(s, f)) = 1 /\ Append(s, f)[1] = f
  <1>1. s = <<>>
    BY EmptySeq
  <1> QED BY <1>1

LEMMA PiecesFacts ==
    ASSUME NEW k \in Keys
    PROVE  /\ Count[k] \in 2..MaxFragments /\ IsFiniteSet(Pieces(k))
           /\ Cardinality(Pieces(k)) = Count[k] /\ Pieces(k) \subseteq 0..MaxFragments - 1
           /\ Pieces(k) \subseteq Nat /\ \A i \in Pieces(k) : i < Count[k]
  <1>1. Count[k] \in 2..MaxFragments /\ MaxFragments \in Nat
    BY CountAssumption, FragmentsAssumption
  <1>2. Cardinality(0..(Count[k] - 1)) = Count[k] /\ IsFiniteSet(0..(Count[k] - 1))
    <2> DEFINE b == Count[k] - 1
    <2>1. b \in Int /\ ~(0 > b) /\ b - 0 + 1 = Count[k]
      BY <1>1
    <2> HIDE DEF b
    <2>2. IsFiniteSet(0..b) /\ Cardinality(0..b) = IF 0 > b THEN 0 ELSE b - 0 + 1
      BY <2>1, FS_Interval
    <2> QED BY <2>1, <2>2 DEF b
  <1> QED BY <1>1, <1>2 DEF Pieces

LEMMA InitInv == Init => IInv
  <1> SUFFICES ASSUME Init PROVE IInv
    OBVIOUS
  <1>1. /\ now = 0 /\ DOMAIN open = {} /\ DOMAIN done = {} /\ DOMAIN groups = {}
        /\ DOMAIN resolved = {} /\ timers = {} /\ tasks = FALSE /\ ended = FALSE
        /\ DOMAIN first = {} /\ got = {} /\ whole = {} /\ fates = [k \in Keys |-> <<>>]
    BY DEF Init, BufferInit
  <1>2. \A k \in Keys : fates[k] = <<>> /\ Len(fates[k]) = 0 /\ fates[k] \in Seq(Fate)
    BY <1>1
  <1>3. TypeOK
    BY <1>1, <1>2 DEF TypeOK, BufferTypeOK, Fate
  <1>4. HistoryOK
    BY <1>1, <1>2, HorizonAssumption DEF HistoryOK, GotOf
  <1>5. GroupsOK /\ BufferOK /\ ClosedIsRemembered /\ GivenUpStaysSo
    BY <1>1 DEF GroupsOK, BufferOK, ClosedIsRemembered, GivenUpStaysSo
  <1>6. FateWhenClosed /\ DeliveredIsWhole
    BY <1>1, <1>2 DEF FateWhenClosed, DeliveredIsWhole
  <1>7. GroupAgreesWithBuffer /\ ResolvedByDeadline
    BY <1>1 DEF GroupAgreesWithBuffer, ResolvedByDeadline
  <1> QED BY <1>3, <1>4, <1>5, <1>6, <1>7 DEF IInv

(***************************************************************************)
(* A fragment leaves the air, and what accept then does.                   *)
(***************************************************************************)

(* Fragment i of k leaves the air, in time for its SDU.                    *)
Left(k, i) ==
    /\ now' = now /\ tasks' = tasks /\ ended' = ended
    /\ <<k, i>> \in air /\ air' = air \ {<<k, i>>} /\ i \notin GotOf(k)
    /\ DOMAIN first' = DOMAIN first \union {k}
    /\ \A x \in DOMAIN first : first'[x] = first[x]
    /\ first'[k] \in Nat /\ first'[k] <= now
    /\ k \in DOMAIN first => ~Over(k)
    /\ ~ended

LEMMA LeftFacts ==
    ASSUME MaxSpread <= Timeout, IInv, NEW k \in Keys, NEW i \in Pieces(k), OffTheAir(k, i)
    PROVE  Left(k, i)
  <1>1. /\ now' = now /\ tasks' = tasks /\ ended' = ended /\ ~tasks /\ ~ended
        /\ <<k, i>> \in air /\ air' = air \ {<<k, i>>}
        /\ first' = IF k \in DOMAIN first THEN first ELSE With(first, k, now)
        /\ k \in DOMAIN first => now - first[k] <= MaxSpread
    BY DEF OffTheAir
  <1>2. /\ now \in Nat /\ Timeout \in Nat /\ MaxSpread \in Nat
        /\ \A x \in DOMAIN first : first[x] \in Nat /\ first[x] <= now
    BY TimeoutAssumption, SpreadAssumption, HorizonAssumption DEF IInv, HistoryOK
  <1>3. i \notin GotOf(k)
    BY <1>1 DEF IInv, HistoryOK, GotOf
  <1>4. /\ DOMAIN first' = DOMAIN first \union {k}
        /\ \A x \in DOMAIN first : first'[x] = first[x]
        /\ first'[k] \in Nat /\ first'[k] <= now
    BY <1>1, <1>2 DEF With
  <1>5. k \in DOMAIN first => ~Over(k)
    BY <1>1, <1>2 DEF Over
  <1> QED BY <1>1, <1>3, <1>4, <1>5 DEF Left

(* What a decoded fragment does to the buffer: its set goes on, starts,    *)
(* is refused or is complete; the other sets stay, up to their deadline.   *)
Waits(k, i) ==
    /\ k \in DOMAIN open' /\ open'[k] \in Entry /\ open'[k].want = Count[k]
    /\ done' = Current(done)
    /\ \/ /\ k \in DOMAIN open /\ open[k].deadline > now
          /\ open'[k].seen = open[k].seen \union {i}
          /\ open'[k].deadline = open[k].deadline
       \/ /\ k \in DOMAIN open => open[k].deadline <= now
          /\ open'[k].seen = {i} /\ open'[k].deadline = now + Timeout
Refused(k, i) ==
    /\ k \notin DOMAIN open' /\ done' = Current(done)
    /\ k \in DOMAIN open => open[k].deadline <= now
Completes(k, i) ==
    /\ k \notin DOMAIN open' /\ k \in DOMAIN open
    /\ open[k].seen \union {i} = Pieces(k)
Others(k) ==
    /\ \A x \in DOMAIN open' \ {k} : x \in DOMAIN open /\ open'[x] = open[x]
    /\ \A x \in DOMAIN open \ {k} : open[x].deadline > now => x \in DOMAIN open'
    /\ \A x \in DOMAIN done' \ {k} : x \in DOMAIN done /\ done'[x] = done[x]
    /\ k \in DOMAIN done' => done'[k] \in Completed
Took(k, i, ans) ==
    /\ Others(k)
    /\ \/ ans = "pending" /\ Waits(k, i)
       \/ ans = "full" /\ Refused(k, i)
       \/ ans = "complete" /\ Completes(k, i)

LEMMA AcceptFacts ==
    ASSUME IInv, NEW k \in Keys, NEW i \in Pieces(k), <<k, i>> \in air, NEW ans,
           NEW o, NEW d, o = Current(open), d = Current(done),
           Accept(o, d, k, i, Count[k], ans)
    PROVE  Took(k, i, ans)
  <1> DEFINE n == Count[k]
  <1>1. /\ DOMAIN o = {x \in DOMAIN open : open[x].deadline > now}
        /\ \A x \in DOMAIN o : o[x] = open[x]
        /\ DOMAIN d = {x \in DOMAIN done : done[x].deadline > now}
        /\ \A x \in DOMAIN d : d[x] = done[x]
    BY DEF Current, Restrict
  <1>2. /\ n \in 2..MaxFragments /\ i \in Nat /\ i < n /\ i \in 0..MaxFragments - 1
        /\ IsFiniteSet(Pieces(k)) /\ Cardinality(Pieces(k)) = n /\ n \in Nat
    BY PiecesFacts, FragmentsAssumption
  <1>3. ~Malformed(i, n) /\ n > 1
    BY <1>2, FragmentsAssumption DEF Malformed
  <1>4. i \notin GotOf(k)
    BY DEF IInv, HistoryOK, GotOf
  <1>5. k \notin DOMAIN d
    BY <1>1, <1>4 DEF IInv, BufferOK
  <1>6. k \in DOMAIN o => /\ o[k].want = n /\ i \notin o[k].seen
                          /\ o[k].seen \subseteq Pieces(k) /\ o[k] \in Entry
    BY <1>1, <1>4 DEF IInv, BufferOK, GotOf, TypeOK, BufferTypeOK
  <1>7. now \in Nat /\ Timeout \in Nat
    BY TimeoutAssumption DEF IInv, TypeOK, BufferTypeOK
  <1> HIDE DEF n
  <1>8. CASE k \in DOMAIN o
    <2>1. \/ /\ ans = "pending" /\ open' = Marked(o, k, i) /\ done' = d
          \/ /\ ans = "complete" /\ Cardinality(o[k].seen) + 1 = n
             /\ open' = Without(o, k) /\ done' = Remember(d, k, n)
      BY <1>3, <1>6, <1>8 DEF Accept, n
    <2>2. CASE ans = "pending" /\ open' = Marked(o, k, i) /\ done' = d
      <3>1. /\ DOMAIN open' = DOMAIN o /\ \A x \in DOMAIN o \ {k} : open'[x] = o[x]
            /\ open'[k] = [want |-> o[k].want, seen |-> o[k].seen \union {i},
                           deadline |-> o[k].deadline]
        BY <1>6, <1>8, <2>2 DEF Marked, Entry
      <3>2. /\ open'[k] \in Entry /\ open'[k].want = n
            /\ open'[k].seen = o[k].seen \union {i} /\ open'[k].deadline = o[k].deadline
        BY <1>2, <1>6, <1>8, <3>1 DEF Entry
      <3>3. Waits(k, i)
        BY <1>1, <1>8, <2>2, <3>1, <3>2 DEF Waits, n
      <3>4. Others(k)
        BY <1>1, <1>5, <2>2, <3>1 DEF Others
      <3> QED BY <2>2, <3>3, <3>4 DEF Took
    <2>3. CASE /\ ans = "complete" /\ Cardinality(o[k].seen) + 1 = n
               /\ open' = Without(o, k) /\ done' = Remember(d, k, n)
      <3>1. DOMAIN open' = DOMAIN o \ {k} /\ \A x \in DOMAIN o \ {k} : open'[x] = o[x]
        BY <2>3 DEF Without, Restrict
      <3>2. /\ \A x \in DOMAIN done' \ {k} : x \in DOMAIN d /\ done'[x] = d[x]
            /\ done'[k] = [segments |-> n, deadline |-> now + Timeout]
        BY <2>3 DEF Remember, With, Restrict
      <3>3. done'[k] \in Completed
        BY <1>2, <1>7, <3>2 DEF Completed
      <3>4. o[k].seen \union {i} = Pieces(k)
        <4>1. IsFiniteSet(o[k].seen)
          BY <1>2, <1>6, <1>8, FS_Subset
        <4>2. Cardinality(o[k].seen \union {i}) = n
          BY <1>6, <1>8, <2>3, <4>1, FS_AddElement
        <4>3. o[k].seen \union {i} \in SUBSET Pieces(k)
          BY <1>6, <1>8
        <4> QED BY <1>2, <4>2, <4>3, FS_Subset
      <3>5. Completes(k, i)
        BY <1>1, <1>8, <3>1, <3>4 DEF Completes
      <3>6. Others(k)
        BY <1>1, <3>1, <3>2, <3>3 DEF Others
      <3> QED BY <2>3, <3>5, <3>6 DEF Took
    <2> QED BY <2>1, <2>2, <2>3
  <1>9. CASE k \notin DOMAIN o
    <2>1. \/ ans = "full" /\ open' = o /\ done' = d
          \/ /\ ans = "pending" /\ done' = d
             /\ open' = With(o, k, [want |-> n, seen |-> {i}, deadline |-> now + Timeout])
      BY <1>3, <1>5, <1>9 DEF Accept, n
    <2>2. CASE ans = "full" /\ open' = o /\ done' = d
      <3>1. Refused(k, i)
        BY <1>1, <1>7, <1>9, <2>2 DEF Refused, IInv, TypeOK, BufferTypeOK, Entry
      <3>2. Others(k)
        BY <1>1, <1>5, <2>2 DEF Others
      <3> QED BY <2>2, <3>1, <3>2 DEF Took
    <2>3. CASE /\ ans = "pending" /\ done' = d
               /\ open' = With(o, k, [want |-> n, seen |-> {i}, deadline |-> now + Timeout])
      <3>1. /\ DOMAIN open' = DOMAIN o \union {k} /\ \A x \in DOMAIN o : open'[x] = o[x]
            /\ open'[k] = [want |-> n, seen |-> {i}, deadline |-> now + Timeout]
        BY <1>9, <2>3 DEF With
      <3>2. /\ open'[k] \in Entry /\ open'[k].want = n
            /\ open'[k].seen = {i} /\ open'[k].deadline = now + Timeout
        BY <1>2, <1>7, <3>1 DEF Entry
      <3>3. k \in DOMAIN open => open[k].deadline <= now
        BY <1>1, <1>7, <1>9 DEF IInv, TypeOK, BufferTypeOK, Entry
      <3>4. Waits(k, i)
        BY <2>3, <3>1, <3>2, <3>3 DEF Waits, n
      <3>5. Others(k)
        BY <1>1, <1>5, <1>9, <2>3, <3>1 DEF Others
      <3> QED BY <2>3, <3>4, <3>5 DEF Took
    <2> QED BY <2>1, <2>2, <2>3
  <1> QED BY <1>8, <1>9

(***************************************************************************)
(* What the three fragment actions have in common.                         *)
(***************************************************************************)

(* A decoded fragment is one more of its own SDU.                          *)
LEMMA GotGrows ==
    ASSUME NEW k \in Keys, NEW i \in Pieces(k), got' = got \union {<<k, i>>}
    PROVE  GotOf(k)' = GotOf(k) \union {i} /\ \A x \in Keys \ {k} : GotOf(x)' = GotOf(x)
  BY DEF GotOf, Pieces

(* The buffer after a decoded fragment holds decoded fragments.            *)
LEMMA TookKeepsBuffer ==
    ASSUME IInv, NEW k \in Keys, NEW i \in Pieces(k), NEW ans, Took(k, i, ans),
           got' = got \union {<<k, i>>}, now' = now
    PROVE  BufferOK' /\ BufferTypeOK'
  <1>1. GotOf(k)' = GotOf(k) \union {i} /\ \A x \in Keys \ {k} : GotOf(x)' = GotOf(x)
    BY GotGrows
  <1>2. /\ DOMAIN open \subseteq Keys /\ \A x \in DOMAIN open : open[x] \in Entry
        /\ DOMAIN done \subseteq Keys /\ \A x \in DOMAIN done : done[x] \in Completed
        /\ now \in Nat
    BY DEF IInv, TypeOK, BufferTypeOK
  <1>3. Others(k)
    BY DEF Took
  <1>4. \A x \in DOMAIN open' : x \in Keys /\ open'[x] \in Entry
    BY <1>2, <1>3 DEF Took, Waits, Refused, Completes, Others
  <1>5. \A x \in DOMAIN done' : x \in Keys /\ done'[x] \in Completed
    BY <1>2, <1>3 DEF Others
  <1>6. BufferTypeOK'
    BY <1>2, <1>4, <1>5 DEF BufferTypeOK
  <1>7. ASSUME NEW x \in DOMAIN open'
        PROVE  /\ open'[x].want = Count[x] /\ open'[x].seen \subseteq GotOf(x)'
               /\ open'[x].seen # {}
    <2>1. CASE x # k
      BY <1>1, <1>2, <1>3, <1>7, <2>1 DEF Others, IInv, BufferOK
    <2>2. CASE x = k
      <3>1. Waits(k, i)
        BY <1>7, <2>2 DEF Took, Refused, Completes
      <3> QED BY <1>1, <2>2, <3>1 DEF Waits, IInv, BufferOK
    <2> QED BY <2>1, <2>2
  <1>8. ASSUME NEW x \in DOMAIN done' PROVE Pieces(x) \subseteq GotOf(x)'
    <2>1. CASE x # k
      BY <1>1, <1>2, <1>3, <1>8, <2>1 DEF Others, IInv, BufferOK
    <2>2. CASE x = k
      <3>1. CASE k \in DOMAIN done
        BY <1>1, <2>2, <3>1 DEF IInv, BufferOK
      <3>2. CASE k \notin DOMAIN done
        <4>1. k \notin DOMAIN Current(done)
          BY <3>2 DEF Current, Restrict
        <4>2. Completes(k, i)
          BY <1>8, <2>2, <4>1 DEF Took, Waits, Refused
        <4> QED BY <1>1, <2>2, <4>2 DEF Completes, IInv, BufferOK
      <3> QED BY <3>1, <3>2
    <2> QED BY <2>1, <2>2
  <1>9. BufferOK'
    BY <1>7, <1>8 DEF BufferOK, Pieces, GotOf
  <1> QED BY <1>6, <1>9

(* Where no set but that of k changes, Missed stays for the other SDUs.    *)
LEMMA OthersMissed ==
    ASSUME NEW k, NEW i, Left(k, i), Others(k) \/ (open' = open /\ done' = done)
    PROVE  \A x \in DOMAIN first \ {k} : Missed(x) => Missed(x)'
  <1> SUFFICES ASSUME NEW x \in DOMAIN first \ {k}, Missed(x) PROVE Missed(x)'
    OBVIOUS
  <1>1. PICK j \in Pieces(x) : <<x, j>> \notin air /\ (x \in DOMAIN open => j \notin open[x].seen)
    BY DEF Missed
  <1>2. <<x, j>> \notin air'
    BY <1>1 DEF Left
  <1>3. x \in DOMAIN open' => j \notin open'[x].seen
    BY <1>1 DEF Others
  <1>4. Pieces(x)' = Pieces(x)
    BY DEF Pieces
  <1> QED BY <1>1, <1>2, <1>3, <1>4 DEF Missed

(* A fragment moves no clock: an SDU that is over stays over.              *)
LEMMA LeftOver ==
    ASSUME NEW k, NEW i, Left(k, i)
    PROVE  \A x \in DOMAIN first : Over(x)' <=> Over(x)
  BY DEF Left, Over

(* What is said of the history when a fragment of k leaves the air: the    *)
(* new facts about k are the hypotheses.                                   *)
LEMMA LeftKeepsHistory ==
    ASSUME IInv, NEW k \in Keys, NEW i \in Pieces(k), Left(k, i),
           got' \in {got, got \union {<<k, i>>}}, fates' \in [Keys -> Seq(Fate)],
           whole' \subseteq whole \union {k},
           DOMAIN groups' \subseteq DOMAIN groups \union {k},
           DOMAIN resolved' \subseteq DOMAIN resolved \union {k},
           DOMAIN groups' \intersect DOMAIN resolved' = {}
    PROVE  HistoryOK'
  <1>1. \A x \in Keys \ {k} : GotOf(x)' = GotOf(x)
    BY GotGrows DEF GotOf, Pieces
  <1>2. air' \intersect got' = {}
    BY DEF Left, IInv, HistoryOK
  <1>3. /\ DOMAIN first' \subseteq Keys /\ now' \in 0..Horizon
        /\ \A x \in DOMAIN first' : first'[x] \in Nat /\ first'[x] <= now'
    BY DEF Left, IInv, HistoryOK
  <1>4. DOMAIN groups' \subseteq DOMAIN first' /\ DOMAIN resolved' \subseteq DOMAIN first'
    BY DEF Left, IInv, HistoryOK
  <1>5. \A x \in Keys \ DOMAIN first' : GotOf(x)' = {} /\ x \notin whole'
    BY <1>1 DEF Left, IInv, HistoryOK
  <1>6. whole' \subseteq Keys
    BY DEF IInv, HistoryOK
  <1>7. ~ended'
    BY DEF Left
  <1> QED BY <1>2, <1>3, <1>4, <1>5, <1>6, <1>7 DEF HistoryOK

(***************************************************************************)
(* A fragment changes the group of its SDU, or closes it.                  *)
(***************************************************************************)

(* Fragment i of k changes at most the buffer's set of k.                  *)
BufferStep(k, i) ==
    /\ BufferOK' /\ BufferTypeOK'
    /\ got' \in {got, got \union {<<k, i>>}}
    /\ Others(k) \/ (open' = open /\ done' = done)

(* The parts of the invariant about the SDUs other than k.                 *)
LEMMA OthersKeep ==
    ASSUME IInv, NEW k \in Keys, NEW i \in Pieces(k), Left(k, i), BufferStep(k, i),
           NEW x \in Keys \ {k}
    PROVE  /\ GotOf(x)' = GotOf(x)
           /\ x \in DOMAIN first' <=> x \in DOMAIN first
           /\ x \in DOMAIN first => first'[x] = first[x] /\ (Over(x)' <=> Over(x))
           /\ x \in DOMAIN first /\ Missed(x) => Missed(x)'
           /\ x \in DOMAIN groups /\ groups[x].opened /\ now < groups[x].deadline =>
                 /\ x \in DOMAIN open'
                 /\ open'[x].seen = groups[x].decoded
                 /\ open'[x].deadline = groups[x].deadline
  <1>1. GotOf(x)' = GotOf(x)
    BY GotGrows DEF BufferStep, GotOf, Pieces
  <1>2. /\ x \in DOMAIN first' <=> x \in DOMAIN first
        /\ x \in DOMAIN first => first'[x] = first[x] /\ (Over(x)' <=> Over(x))
    BY LeftOver DEF Left
  <1>3. x \in DOMAIN first /\ Missed(x) => Missed(x)'
    BY OthersMissed DEF BufferStep
  <1>4. ASSUME x \in DOMAIN groups, groups[x].opened, now < groups[x].deadline
        PROVE  /\ x \in DOMAIN open'
               /\ open'[x].seen = groups[x].decoded
               /\ open'[x].deadline = groups[x].deadline
    <2>1. /\ x \in DOMAIN open /\ open[x].seen = groups[x].decoded
          /\ open[x].deadline = groups[x].deadline
      BY <1>4 DEF IInv, GroupAgreesWithBuffer
    <2>2. open[x].deadline > now
      BY <1>4, <2>1
    <2> QED BY <2>1, <2>2 DEF BufferStep, Others
  <1> QED BY <1>1, <1>2, <1>3, <1>4

(* A group g that the state after the step allows for k.                   *)
GroupFine(k, g) ==
    /\ g \in Group
    /\ g.decoded = GotOf(k)' /\ (g.opened <=> GotOf(k)' # {})
    /\ first'[k] + Timeout <= g.deadline
    /\ g.deadline >= now /\ (g.deadline <= Horizon => g.deadline \in timers')
    /\ g.opened /\ now < g.deadline =>
          k \in DOMAIN open' /\ open'[k].seen = g.decoded /\ open'[k].deadline = g.deadline

LEMMA GroupStep ==
    ASSUME IInv, NEW k \in Keys, NEW i \in Pieces(k), Left(k, i), BufferStep(k, i),
           k \in DOMAIN groups \/ k \notin DOMAIN first,
           NEW g, GroupFine(k, g), groups' = With(groups, k, g),
           resolved' = resolved, fates' = fates, whole' = whole,
           timers \subseteq timers', timers' \subseteq 0..Horizon
    PROVE  IInv'
  <1>1. /\ DOMAIN groups' = DOMAIN groups \union {k} /\ groups'[k] = g
        /\ \A x \in DOMAIN groups \ {k} : groups'[x] = groups[x]
    BY DEF With
  <1>2. /\ DOMAIN groups \subseteq Keys /\ DOMAIN groups \subseteq DOMAIN first
        /\ k \notin DOMAIN resolved /\ DOMAIN first' = DOMAIN first \union {k}
        /\ k \notin whole
    <2>1. k \in DOMAIN groups => k \notin whole
      <3>1. k \in whole => Len(fates[k]) = 1
        BY DEF IInv, GroupAgreesWithBuffer
      <3> QED BY <3>1 DEF IInv, FateWhenClosed
    <2> QED BY <2>1 DEF IInv, HistoryOK, TypeOK, Left
  <1>3. TypeOK'
    BY <1>1, <1>2 DEF IInv, TypeOK, BufferStep, GroupFine, Left
  <1>4. HistoryOK'
    <2>1. fates' \in [Keys -> Seq(Fate)] /\ got' \in {got, got \union {<<k, i>>}}
      BY DEF IInv, HistoryOK, BufferStep
    <2>2. DOMAIN groups' \intersect DOMAIN resolved' = {}
      BY <1>1, <1>2 DEF IInv, HistoryOK
    <2> QED BY <1>1, <2>1, <2>2, LeftKeepsHistory
  <1>5. GroupsOK'
    <2> SUFFICES ASSUME NEW x \in DOMAIN groups'
                 PROVE  /\ groups'[x].decoded = GotOf(x)'
                        /\ groups'[x].opened <=> GotOf(x)' # {}
                        /\ first'[x] + Timeout <= groups'[x].deadline
      BY DEF GroupsOK
    <2>1. CASE x = k
      BY <1>1, <2>1 DEF GroupFine
    <2>2. CASE x # k
      <3>1. x \in DOMAIN groups /\ groups'[x] = groups[x] /\ x \in Keys \ {k}
        BY <1>1, <1>2, <2>2
      <3>2. GotOf(x)' = GotOf(x) /\ first'[x] = first[x]
        BY <1>2, <3>1, OthersKeep
      <3> QED BY <3>1, <3>2 DEF IInv, GroupsOK
    <2> QED BY <2>1, <2>2
  <1>6. FateWhenClosed'
    BY <1>1, <1>2 DEF IInv, FateWhenClosed
  <1>7. \A x \in DOMAIN first' \ DOMAIN groups' :
           x \in Keys \ {k} /\ x \in DOMAIN first \ DOMAIN groups
    BY <1>1, <1>2 DEF IInv, HistoryOK
  <1>8. ClosedIsRemembered'
    BY <1>7, OthersKeep DEF IInv, ClosedIsRemembered
  <1>9. GivenUpStaysSo'
    BY <1>7, OthersKeep DEF IInv, GivenUpStaysSo
  <1>10. DeliveredIsWhole'
    BY DEF IInv, DeliveredIsWhole, BufferStep, Pieces
  <1>11. GroupAgreesWithBuffer'
    <2>1. ASSUME NEW x \in DOMAIN groups', groups'[x].opened, now' < groups'[x].deadline
          PROVE  /\ x \in DOMAIN open' /\ open'[x].seen = groups'[x].decoded
                 /\ open'[x].deadline = groups'[x].deadline
      <3>1. CASE x = k
        BY <1>1, <2>1, <3>1 DEF GroupFine, Left
      <3>2. CASE x # k
        <4>1. x \in DOMAIN groups /\ groups'[x] = groups[x] /\ x \in Keys \ {k} /\ now' = now
          BY <1>1, <1>2, <2>1, <3>2 DEF Left
        <4> QED BY <2>1, <4>1, OthersKeep
      <3> QED BY <3>1, <3>2
    <2>2. \A x \in whole' : fates'[x] \in {<<"delivered">>, <<"receiver_off">>}
      BY DEF IInv, GroupAgreesWithBuffer
    <2> QED BY <2>1, <2>2 DEF GroupAgreesWithBuffer
  <1>12. ResolvedByDeadline'
    BY <1>1 DEF IInv, ResolvedByDeadline, GroupFine, Left
  <1>13. BufferOK'
    BY DEF BufferStep
  <1> QED BY <1>3, <1>4, <1>5, <1>6, <1>8, <1>9, <1>10, <1>11, <1>12, <1>13 DEF IInv

(* The group of k closes with fate f.                                      *)
LEMMA CloseStep ==
    ASSUME IInv, NEW k \in Keys, NEW i \in Pieces(k), Left(k, i), BufferStep(k, i),
           k \in DOMAIN groups \/ k \notin DOMAIN first,
           NEW f \in {"delivered", "receiver_off", "lost"}, Resolve(k, f),
           f = "lost" => Missed(k)' /\ whole' = whole,
           f # "lost" => GotOf(k)' = Pieces(k),
           whole' \in {whole, whole \union {k}},
           timers \subseteq timers', timers' \subseteq 0..Horizon
    PROVE  IInv'
  <1>0. /\ now \in Nat /\ Timeout \in Nat /\ now' = now
        /\ fates \in [Keys -> Seq(Fate)]
    BY TimeoutAssumption, HorizonAssumption DEF IInv, HistoryOK, Left
  <1>1. /\ DOMAIN groups' = DOMAIN groups \ {k}
        /\ \A x \in DOMAIN groups' : groups'[x] = groups[x]
    BY DEF Resolve, Without, Restrict
  <1>2. /\ DOMAIN resolved' = DOMAIN resolved \union {k} /\ resolved'[k] = now + Timeout
        /\ \A x \in DOMAIN resolved \ {k} : resolved'[x] = resolved[x]
    BY DEF Resolve, With
  <1>3. Len(fates[k]) = 0 /\ f \in Fate
    BY DEF IInv, FateWhenClosed, Fate
  <1>4. Append(fates[k], f) = <<f>> /\ <<f>> \in Seq(Fate) /\ Len(<<f>>) = 1 /\ <<f>>[1] = f
    BY <1>0, <1>3, EmptyFates
  <1>5. /\ fates' \in [Keys -> Seq(Fate)] /\ fates'[k] = <<f>>
        /\ \A x \in Keys \ {k} : fates'[x] = fates[x]
    BY <1>0, <1>4 DEF Resolve
  <1>6. /\ DOMAIN groups \subseteq Keys /\ DOMAIN groups \subseteq DOMAIN first
        /\ DOMAIN first' = DOMAIN first \union {k} /\ DOMAIN first \subseteq Keys
        /\ DOMAIN resolved \subseteq Keys
    BY DEF IInv, HistoryOK, TypeOK, Left
  <1>7. TypeOK'
    <2>1. \A x \in DOMAIN resolved' : resolved'[x] \in Nat
      BY <1>0, <1>2 DEF IInv, TypeOK
    <2>2. \A x \in Keys : fates'[x] \in Seq({"delivered", "receiver_off", "lost", "in_flight"})
      BY <1>5 DEF Fate
    <2>3. DOMAIN resolved' \subseteq Keys
      BY <1>2, <1>6
    <2> QED BY <1>1, <2>1, <2>2, <2>3 DEF IInv, TypeOK, BufferStep, Left
  <1>8. HistoryOK'
    <2>1. got' \in {got, got \union {<<k, i>>}}
      BY DEF BufferStep
    <2>2. DOMAIN groups' \intersect DOMAIN resolved' = {}
      BY <1>1, <1>2 DEF IInv, HistoryOK
    <2> QED BY <1>1, <1>2, <1>5, <2>1, <2>2, LeftKeepsHistory
  <1>9. \A x \in DOMAIN groups' : x \in Keys \ {k} /\ x \in DOMAIN groups /\ x \in DOMAIN first
    BY <1>1, <1>6
  <1>10. GroupsOK'
    BY <1>1, <1>9, OthersKeep DEF IInv, GroupsOK
  <1>11. FateWhenClosed'
    BY <1>1, <1>4, <1>5, <1>6 DEF IInv, FateWhenClosed
  <1>12. ClosedIsRemembered'
    <2> SUFFICES ASSUME NEW x \in DOMAIN first' \ DOMAIN groups'
                 PROVE  (x \in DOMAIN resolved' /\ resolved'[x] >= first'[x] + Timeout) \/ Over(x)'
      BY DEF ClosedIsRemembered
    <2>1. CASE x = k
      <3>1. first'[k] \in Nat /\ first'[k] <= now
        BY DEF Left
      <3> QED BY <1>0, <1>2, <2>1, <3>1
    <2>2. CASE x # k
      <3>1. x \in DOMAIN first \ DOMAIN groups /\ x \in Keys \ {k}
        BY <1>1, <1>6, <2>2
      <3> QED BY <1>2, <2>2, <3>1, OthersKeep DEF IInv, ClosedIsRemembered
    <2> QED BY <2>1, <2>2
  <1>13. GivenUpStaysSo'
    <2> SUFFICES ASSUME NEW x \in DOMAIN first' \ DOMAIN groups'
                 PROVE  fates'[x] \in {<<"delivered">>, <<"receiver_off">>}
                        \/ Missed(x)' \/ Over(x)'
      BY DEF GivenUpStaysSo
    <2>1. CASE x = k
      BY <1>5, <2>1
    <2>2. CASE x # k
      <3>1. x \in DOMAIN first \ DOMAIN groups /\ x \in Keys \ {k}
        BY <1>1, <1>6, <2>2
      <3> QED BY <1>5, <3>1, OthersKeep DEF IInv, GivenUpStaysSo
    <2> QED BY <2>1, <2>2
  <1>14. DeliveredIsWhole'
    <2> SUFFICES ASSUME NEW x \in Keys, NEW j \in 1..Len(fates'[x]),
                        fates'[x][j] \in {"delivered", "receiver_off"}
                 PROVE  \A p \in Pieces(x) : <<x, p>> \in got'
      BY DEF DeliveredIsWhole, Pieces
    <2>1. CASE x = k
      <3>1. j = 1
        BY <1>4, <1>5, <2>1
      <3>2. f # "lost"
        BY <1>4, <1>5, <2>1, <3>1
      <3> QED BY <2>1, <3>2 DEF GotOf, Pieces
    <2>2. CASE x # k
      <3>1. \A p \in Pieces(x) : <<x, p>> \in got
        BY <1>5, <2>2 DEF IInv, DeliveredIsWhole
      <3> QED BY <3>1 DEF BufferStep
    <2> QED BY <2>1, <2>2
  <1>15. GroupAgreesWithBuffer'
    <2>1. ASSUME NEW x \in DOMAIN groups', groups'[x].opened, now' < groups'[x].deadline
          PROVE  /\ x \in DOMAIN open' /\ open'[x].seen = groups'[x].decoded
                 /\ open'[x].deadline = groups'[x].deadline
      <3>1. x \in DOMAIN groups /\ groups'[x] = groups[x] /\ x \in Keys \ {k} /\ now' = now
        BY <1>0, <1>1, <1>9, <2>1
      <3> QED BY <2>1, <3>1, OthersKeep
    <2>2. \A x \in whole' : fates'[x] \in {<<"delivered">>, <<"receiver_off">>}
      <3>1. whole \subseteq Keys /\ \A x \in whole : fates[x] \in {<<"delivered">>, <<"receiver_off">>}
        BY DEF IInv, HistoryOK, GroupAgreesWithBuffer
      <3>2. k \notin whole
        <4>1. k \in whole => Len(fates[k]) = 1
          BY <3>1
        <4> QED BY <1>3, <4>1
      <3>3. k \in whole' => f # "lost"
        BY <3>2
      <3> QED BY <1>5, <3>1, <3>2, <3>3
    <2> QED BY <2>1, <2>2 DEF GroupAgreesWithBuffer
  <1>16. ResolvedByDeadline'
    BY <1>0, <1>1, <1>9 DEF IInv, ResolvedByDeadline
  <1>17. BufferOK'
    BY DEF BufferStep
  <1> QED BY <1>7, <1>8, <1>10, <1>11, <1>12, <1>13, <1>14, <1>15, <1>16, <1>17 DEF IInv

(* A fragment of an SDU that has its fate changes no group.                *)
LEMMA QuietStep ==
    ASSUME IInv, NEW k \in Keys, NEW i \in Pieces(k), Left(k, i), BufferStep(k, i),
           k \in DOMAIN resolved, groups' = groups, resolved' = resolved,
           fates' = fates, timers' = timers, Missed(k) => Missed(k)',
           whole' \in {whole, whole \union {k}},
           k \in whole' => fates[k] \in {<<"delivered">>, <<"receiver_off">>}
    PROVE  IInv'
  <1>1. /\ DOMAIN groups \subseteq Keys /\ DOMAIN groups \subseteq DOMAIN first
        /\ k \in DOMAIN first /\ k \notin DOMAIN groups /\ now' = now
        /\ DOMAIN first' = DOMAIN first /\ DOMAIN first \subseteq Keys
        /\ \A x \in DOMAIN first : first'[x] = first[x]
    BY DEF IInv, HistoryOK, TypeOK, Left
  <1>2. TypeOK'
    BY DEF IInv, TypeOK, BufferStep, Left
  <1>3. HistoryOK'
    <2>1. fates' \in [Keys -> Seq(Fate)] /\ got' \in {got, got \union {<<k, i>>}}
      BY DEF IInv, HistoryOK, BufferStep
    <2>2. DOMAIN groups' \intersect DOMAIN resolved' = {}
      BY DEF IInv, HistoryOK
    <2> QED BY <2>1, <2>2, LeftKeepsHistory
  <1>4. \A x \in DOMAIN groups : x \in Keys \ {k} /\ x \in DOMAIN first
    BY <1>1
  <1>5. GroupsOK'
    BY <1>1, <1>4, OthersKeep DEF IInv, GroupsOK
  <1>6. FateWhenClosed'
    BY <1>1 DEF IInv, FateWhenClosed
  <1>7. \A x \in DOMAIN first : Over(x)' <=> Over(x)
    BY LeftOver
  <1>8. ClosedIsRemembered'
    BY <1>1, <1>7 DEF IInv, ClosedIsRemembered
  <1>9. GivenUpStaysSo'
    <2>1. \A x \in DOMAIN first : Missed(x) => Missed(x)'
      BY <1>1, OthersKeep
    <2> QED BY <1>1, <1>7, <2>1 DEF IInv, GivenUpStaysSo
  <1>10. DeliveredIsWhole'
    BY DEF IInv, DeliveredIsWhole, BufferStep, Pieces
  <1>11. GroupAgreesWithBuffer'
    <2>1. ASSUME NEW x \in DOMAIN groups, groups[x].opened, now < groups[x].deadline
          PROVE  /\ x \in DOMAIN open' /\ open'[x].seen = groups[x].decoded
                 /\ open'[x].deadline = groups[x].deadline
      BY <1>4, <2>1, OthersKeep
    <2>2. \A x \in whole' : fates'[x] \in {<<"delivered">>, <<"receiver_off">>}
      BY DEF IInv, GroupAgreesWithBuffer
    <2> QED BY <1>1, <2>1, <2>2 DEF GroupAgreesWithBuffer
  <1>12. ResolvedByDeadline'
    BY <1>1 DEF IInv, ResolvedByDeadline
  <1>13. BufferOK'
    BY DEF BufferStep
  <1> QED BY <1>2, <1>3, <1>5, <1>6, <1>8, <1>9, <1>10, <1>11, <1>12, <1>13 DEF IInv

(***************************************************************************)
(* The fragment actions.                                                   *)
(***************************************************************************)

(* An SDU with no fate has its group, or is new.                           *)
LEMMA OpenOrNew ==
    ASSUME IInv, NEW k, NEW i, Left(k, i), k \notin DOMAIN resolved
    PROVE  k \in DOMAIN groups \/ k \notin DOMAIN first
  BY DEF IInv, ClosedIsRemembered, Left

(* The group on_fragment starts from, before it looks at the fragment.     *)
Ready(k, g) ==
    /\ g \in Group
    /\ g.decoded = GotOf(k) /\ (g.opened <=> GotOf(k) # {})
    /\ first'[k] + Timeout <= g.deadline /\ g.deadline >= now
    /\ g.opened /\ now < g.deadline =>
          k \in DOMAIN open /\ open[k].seen = g.decoded /\ open[k].deadline = g.deadline
    /\ k \in DOMAIN open => g.opened

LEMMA GroupAtFacts ==
    ASSUME IInv, NEW k \in Keys, NEW i \in Pieces(k), Left(k, i), k \notin DOMAIN resolved
    PROVE  Ready(k, GroupAt(k))
  <1>0. now \in Nat /\ Timeout \in Nat /\ first'[k] \in Nat /\ first'[k] <= now
    BY TimeoutAssumption, HorizonAssumption DEF IInv, HistoryOK, Left
  <1>1. k \in DOMAIN open => GotOf(k) # {}
    BY DEF IInv, BufferOK
  <1>2. CASE k \in DOMAIN groups
    <2>1. GroupAt(k) = groups[k]
      BY <1>2 DEF GroupAt
    <2>2. k \in DOMAIN first /\ first'[k] = first[k]
      BY <1>2 DEF IInv, HistoryOK, Left
    <2>3. /\ groups[k].decoded = GotOf(k) /\ (groups[k].opened <=> GotOf(k) # {})
          /\ first'[k] + Timeout <= groups[k].deadline
      BY <1>2, <2>2 DEF IInv, GroupsOK
    <2>4. /\ groups[k] \in Group /\ groups[k].deadline >= now
          /\ groups[k].opened /\ now < groups[k].deadline =>
                /\ k \in DOMAIN open /\ open[k].seen = groups[k].decoded
                /\ open[k].deadline = groups[k].deadline
      BY <1>2 DEF IInv, TypeOK, ResolvedByDeadline, GroupAgreesWithBuffer
    <2> QED BY <1>1, <2>1, <2>3, <2>4 DEF Ready
  <1>3. CASE k \notin DOMAIN groups
    <2>1. GroupAt(k) = NewGroup /\ k \notin DOMAIN first
      BY <1>3, OpenOrNew DEF GroupAt
    <2>2. GotOf(k) = {}
      BY <2>1 DEF IInv, HistoryOK
    <2>3. /\ NewGroup \in Group /\ NewGroup.decoded = {} /\ NewGroup.opened = FALSE
          /\ NewGroup.deadline = now + Timeout
      BY <1>0 DEF NewGroup, Group
    <2> QED BY <1>0, <1>1, <2>1, <2>2, <2>3 DEF Ready
  <1> QED BY <1>2, <1>3

LEMMA TimerFacts ==
    ASSUME NEW at \in Nat
    PROVE  Timer(at) \subseteq 0..Horizon /\ (at <= Horizon => at \in Timer(at))
  BY HorizonAssumption DEF Timer

LEMMA FragmentLostStep ==
    ASSUME MaxSpread <= Timeout, IInv, NEW k \in Keys, NEW i \in Pieces(k), FragmentLost(k, i)
    PROVE  IInv'
  <1>1. Left(k, i)
    BY LeftFacts DEF FragmentLost
  <1>2. open' = open /\ done' = done /\ resolved' = resolved /\ got' = got
        /\ whole' = whole /\ fates' = fates /\ now' = now
    BY <1>1 DEF FragmentLost, buffer, Left
  <1>3. BufferStep(k, i)
    BY <1>2 DEF BufferStep, IInv, BufferOK, TypeOK, BufferTypeOK, GotOf, Pieces
  <1>4. CASE k \in DOMAIN resolved
    <2>1. groups' = groups /\ timers' = timers
      BY <1>4 DEF FragmentLost
    <2>2. Missed(k) => Missed(k)'
      BY <1>1, <1>2 DEF Missed, Pieces, Left
    <2>3. k \in whole' => fates[k] \in {<<"delivered">>, <<"receiver_off">>}
      BY <1>2 DEF IInv, GroupAgreesWithBuffer
    <2> QED BY <1>1, <1>2, <1>3, <1>4, <2>1, <2>2, <2>3, QuietStep
  <1>5. CASE k \notin DOMAIN resolved
    <2> DEFINE h == GroupAt(k)
               g == [h EXCEPT !.lost = TRUE]
    <2>1. Ready(k, h)
      BY <1>1, <1>5, GroupAtFacts
    <2>2. groups' = With(groups, k, g) /\ timers' = timers \union Timer(h.deadline)
      BY <1>5 DEF FragmentLost
    <2> HIDE DEF h
    <2>3. /\ g \in Group /\ g.decoded = h.decoded /\ g.opened = h.opened
          /\ g.deadline = h.deadline /\ h.deadline \in Nat
      BY <2>1 DEF Ready, Group
    <2> HIDE DEF g
    <2>4. Timer(h.deadline) \subseteq 0..Horizon
          /\ (h.deadline <= Horizon => h.deadline \in Timer(h.deadline))
      BY <2>3, TimerFacts
    <2>5. GotOf(k)' = GotOf(k)
      BY <1>2 DEF GotOf, Pieces
    <2>6. GroupFine(k, g)
      BY <1>2, <2>1, <2>2, <2>3, <2>4, <2>5 DEF GroupFine, Ready
    <2>7. timers \subseteq timers' /\ timers' \subseteq 0..Horizon
      BY <2>2, <2>4 DEF IInv, TypeOK
    <2>8. k \in DOMAIN groups \/ k \notin DOMAIN first
      BY <1>1, <1>5, OpenOrNew
    <2> QED BY <1>1, <1>2, <1>3, <2>2, <2>6, <2>7, <2>8, GroupStep
  <1> QED BY <1>4, <1>5

(* accept leaves a missed fragment missed: what it takes was in the air.   *)
LEMMA TookMissed ==
    ASSUME NEW k \in Keys, NEW i \in Pieces(k), Left(k, i), NEW ans, Took(k, i, ans), Missed(k)
    PROVE  Missed(k)' /\ ans # "complete"
  <1>1. PICK j \in Pieces(k) : <<k, j>> \notin air /\ (k \in DOMAIN open => j \notin open[k].seen)
    BY DEF Missed
  <1>2. j # i /\ <<k, j>> \notin air'
    BY <1>1 DEF Left
  <1>3. k \in DOMAIN open' => j \notin open'[k].seen
    BY <1>1, <1>2 DEF Took, Waits, Refused, Completes
  <1>4. ~Completes(k, i)
    BY <1>1, <1>2 DEF Completes
  <1>5. Missed(k)'
    BY <1>1, <1>2, <1>3 DEF Missed, Pieces
  <1> QED BY <1>4, <1>5 DEF Took

LEMMA FragmentLateStep ==
    ASSUME MaxSpread <= Timeout, IInv, NEW k \in Keys, NEW i \in Pieces(k), FragmentLate(k, i)
    PROVE  IInv'
  <1>1. Left(k, i)
    BY LeftFacts DEF FragmentLate
  <1>2. PICK o \in {Current(open)}, d \in {Current(done)}, ans \in Answers :
           /\ Accept(o, d, k, i, Count[k], ans)
           /\ whole' = IF ans = "complete" THEN whole \union {k} ELSE whole
    BY DEF FragmentLate
  <1>3. /\ k \in DOMAIN resolved /\ got' = got \union {<<k, i>>} /\ groups' = groups
        /\ resolved' = resolved /\ timers' = timers /\ fates' = fates
        /\ now' = now /\ <<k, i>> \in air
    BY <1>1 DEF FragmentLate, Left
  <1>4. Took(k, i, ans)
    BY <1>2, <1>3, AcceptFacts
  <1>5. BufferOK' /\ BufferTypeOK'
    BY <1>3, <1>4, TookKeepsBuffer
  <1>6. BufferStep(k, i)
    BY <1>3, <1>4, <1>5 DEF BufferStep, Took
  <1>7. Missed(k) => Missed(k)' /\ ans # "complete"
    BY <1>1, <1>4, TookMissed
  <1>8. k \in DOMAIN first \ DOMAIN groups /\ ~Over(k)
    BY <1>1, <1>3 DEF IInv, HistoryOK, Left
  <1>9. k \in whole' => fates[k] \in {<<"delivered">>, <<"receiver_off">>}
    <2>1. CASE k \in whole
      BY <2>1 DEF IInv, GroupAgreesWithBuffer
    <2>2. CASE k \in whole' /\ k \notin whole
      <3>1. ~Missed(k)
        BY <1>2, <1>7, <2>2
      <3> QED BY <1>8, <3>1 DEF IInv, GivenUpStaysSo
    <2> QED BY <2>1, <2>2
  <1>10. whole' \in {whole, whole \union {k}}
    BY <1>2
  <1> QED BY <1>1, <1>3, <1>6, <1>7, <1>9, <1>10, QuietStep

LEMMA FragmentDecodedStep ==
    ASSUME MaxSpread <= Timeout, IInv, NEW k \in Keys, NEW i \in Pieces(k), FragmentDecoded(k, i)
    PROVE  IInv'
  <1> DEFINE h == GroupAt(k)
             g == Decoded(k, i, h)
  <1>1. Left(k, i)
    BY LeftFacts DEF FragmentDecoded
  <1>2. PICK o \in {Current(open)}, d \in {Current(done)}, ans \in Answers :
          /\ Accept(o, d, k, i, Count[k], ans)
          /\ whole' = IF ans = "complete" THEN whole \union {k} ELSE whole
          /\ timers' = timers \union Timer(h.deadline) \union Timer(g.deadline)
          /\ \/ /\ ans \in {"malformed", "mismatch", "full"}
                /\ Resolve(k, "lost")
             \/ /\ ans \notin {"malformed", "mismatch", "full"}
                /\ IsWhole(k, g)
                /\ Resolve(k, "delivered") \/ Resolve(k, "receiver_off")
             \/ /\ ans \notin {"malformed", "mismatch", "full"}
                /\ ~IsWhole(k, g)
                /\ groups' = With(groups, k, g)
                /\ UNCHANGED <<resolved, fates>>
    BY DEF FragmentDecoded
  <1>3. /\ k \notin DOMAIN resolved /\ got' = got \union {<<k, i>>}
        /\ now' = now /\ <<k, i>> \in air /\ <<k, i>> \notin air'
    BY <1>1 DEF FragmentDecoded, Left
  <1>4. Ready(k, h)
    BY <1>1, <1>3, GroupAtFacts
  <1> HIDE DEF h
  <1>5. now \in Nat /\ Timeout \in Nat /\ Timeout > 0 /\ first'[k] \in Nat /\ first'[k] <= now
    BY <1>1, TimeoutAssumption, HorizonAssumption DEF IInv, HistoryOK, Left
  <1>6. /\ g \in Group /\ g.decoded = h.decoded \union {i} /\ g.opened = TRUE
        /\ g.deadline = (IF h.opened THEN h.deadline ELSE now + Timeout)
        /\ h.deadline \in Nat /\ g.deadline \in Nat
    <2>1. i \in 0..MaxFragments - 1
      BY PiecesFacts
    <2>2. /\ h \in Group /\ h.decoded \in SUBSET (0..MaxFragments - 1)
          /\ h.lost \in BOOLEAN /\ h.opened \in BOOLEAN /\ h.deadline \in Nat
      BY <1>4 DEF Ready, Group
    <2> DEFINE t == IF h.opened THEN h.deadline ELSE now + Timeout
    <2>3. t \in Nat
      BY <1>5, <2>2
    <2>4. g = [h EXCEPT !.decoded = h.decoded \union {i}, !.opened = TRUE, !.deadline = t]
      BY DEF Decoded
    <2> HIDE DEF t, g
    <2>5. g = [decoded |-> h.decoded \union {i}, lost |-> h.lost, opened |-> TRUE, deadline |-> t]
      BY <2>2, <2>4 DEF Group
    <2>6. h.decoded \union {i} \in SUBSET (0..MaxFragments - 1)
      BY <2>1, <2>2
    <2>7. g \in Group
      BY <2>2, <2>3, <2>5, <2>6 DEF Group
    <2>8. g.decoded = h.decoded \union {i} /\ g.opened = TRUE /\ g.deadline = t
      BY <2>5
    <2> QED BY <2>2, <2>3, <2>7, <2>8 DEF t
  <1> HIDE DEF g
  <1>7. Took(k, i, ans)
    BY <1>2, <1>3, AcceptFacts
  <1>8. BufferStep(k, i)
    <2>1. BufferOK' /\ BufferTypeOK'
      BY <1>3, <1>7, TookKeepsBuffer
    <2> QED BY <1>3, <1>7, <2>1 DEF BufferStep, Took
  <1>9. /\ timers \subseteq timers' /\ timers' \subseteq 0..Horizon
        /\ g.deadline <= Horizon => g.deadline \in timers'
    <2>1. /\ Timer(h.deadline) \subseteq 0..Horizon /\ Timer(g.deadline) \subseteq 0..Horizon
          /\ g.deadline <= Horizon => g.deadline \in Timer(g.deadline)
      BY <1>6, TimerFacts
    <2> QED BY <1>2, <2>1 DEF IInv, TypeOK
  <1>10. k \in DOMAIN groups \/ k \notin DOMAIN first
    BY <1>1, <1>3, OpenOrNew
  <1>11. GotOf(k)' = GotOf(k) \union {i} /\ g.decoded = GotOf(k)'
    BY <1>3, <1>4, <1>6, GotGrows DEF Ready
  <1>12. GotOf(k)' \subseteq Pieces(k)
    BY <1>11 DEF GotOf
  <1>13. ans \in {"pending", "full", "complete"} /\ whole' \in {whole, whole \union {k}}
    BY <1>2, <1>7 DEF Took
  <1>14. CASE ans = "full" /\ Resolve(k, "lost")
    <2>1. k \notin DOMAIN open' /\ whole' = whole
      BY <1>2, <1>7, <1>14 DEF Took, Refused
    <2>2. Missed(k)'
      BY <1>3, <2>1 DEF Missed, Pieces
    <2> QED BY <1>1, <1>8, <1>9, <1>10, <1>14, <2>1, <2>2, CloseStep
  <1>15. CASE IsWhole(k, g) /\ Resolve(k, "delivered")
    <2>1. GotOf(k)' = Pieces(k)
      BY <1>11, <1>15 DEF IsWhole
    <2> QED BY <1>1, <1>8, <1>9, <1>10, <1>13, <1>15, <2>1, CloseStep
  <1>16. CASE IsWhole(k, g) /\ Resolve(k, "receiver_off")
    <2>1. GotOf(k)' = Pieces(k)
      BY <1>11, <1>16 DEF IsWhole
    <2> QED BY <1>1, <1>8, <1>9, <1>10, <1>13, <1>16, <2>1, CloseStep
  <1>17. CASE /\ ans # "full" /\ ~IsWhole(k, g) /\ groups' = With(groups, k, g)
              /\ resolved' = resolved /\ fates' = fates
    <2>1. ~Completes(k, i)
      <3>1. ASSUME Completes(k, i) PROVE g.decoded = Pieces(k)
        <4>1. k \in DOMAIN open /\ open[k].seen \union {i} = Pieces(k)
          BY <3>1 DEF Completes
        <4>2. open[k].seen \subseteq GotOf(k)
          BY <4>1 DEF IInv, BufferOK
        <4> QED BY <1>11, <1>12, <4>1, <4>2
      <3> QED BY <1>17, <3>1 DEF IsWhole
    <2>2. Waits(k, i) /\ ans = "pending" /\ whole' = whole
      BY <1>2, <1>7, <1>17, <2>1 DEF Took
    <2>3. ASSUME now < g.deadline
          PROVE  k \in DOMAIN open' /\ open'[k].seen = g.decoded /\ open'[k].deadline = g.deadline
      <3>1. CASE h.opened
        <4>1. /\ g.deadline = h.deadline /\ k \in DOMAIN open
              /\ open[k].seen = h.decoded /\ open[k].deadline = h.deadline
          BY <1>4, <1>6, <2>3, <3>1 DEF Ready
        <4>2. open[k].deadline > now /\ ~(open[k].deadline <= now)
          BY <1>5, <1>6, <2>3, <4>1
        <4> QED BY <1>6, <2>2, <4>1, <4>2 DEF Waits
      <3>2. CASE ~h.opened
        <4>1. k \notin DOMAIN open /\ h.decoded = {} /\ g.deadline = now + Timeout
          BY <1>4, <1>6, <3>2 DEF Ready
        <4> QED BY <1>6, <2>2, <4>1 DEF Waits
      <3> QED BY <3>1, <3>2
    <2>4. first'[k] + Timeout <= g.deadline /\ g.deadline >= now
      BY <1>4, <1>5, <1>6 DEF Ready
    <2>5. GroupFine(k, g)
      BY <1>6, <1>9, <1>11, <2>3, <2>4 DEF GroupFine
    <2> QED BY <1>1, <1>8, <1>9, <1>10, <1>17, <2>2, <2>5, GroupStep
  <1> QED BY <1>2, <1>13, <1>14, <1>15, <1>16, <1>17

(***************************************************************************)
(* The timer, the clock and the end of the run.                            *)
(***************************************************************************)

LEMMA ReassemblyTimerStep ==
    ASSUME IInv, ReassemblyTimer
    PROVE  IInv'
  <1>1. /\ now' = now /\ ended' = ended /\ air' = air /\ first' = first /\ got' = got
        /\ whole' = whole /\ tasks' = TRUE /\ timers' = timers \ {now}
    BY DEF ReassemblyTimer
  <1>2. /\ now \in Nat /\ Timeout \in Nat /\ fates \in [Keys -> Seq(Fate)]
        /\ DOMAIN groups \subseteq DOMAIN first /\ DOMAIN first \subseteq Keys
        /\ DOMAIN resolved \subseteq DOMAIN first
        /\ \A k \in DOMAIN first : first[k] \in Nat
        /\ \A k \in DOMAIN groups : groups[k] \in Group /\ groups[k].deadline \in Nat
        /\ \A k \in DOMAIN resolved : resolved[k] \in Nat
    BY TimeoutAssumption, HorizonAssumption DEF IInv, HistoryOK, TypeOK, Group
  <1>3. /\ DOMAIN open' = {x \in DOMAIN open : open[x].deadline > now}
        /\ \A x \in DOMAIN open' : open'[x] = open[x]
        /\ DOMAIN done' = {x \in DOMAIN done : done[x].deadline > now}
        /\ \A x \in DOMAIN done' : done'[x] = done[x]
    BY DEF ReassemblyTimer, Purge, Current, Restrict
  <1>4. /\ DOMAIN groups' = DOMAIN groups \ Due
        /\ \A x \in DOMAIN groups' : groups'[x] = groups[x]
    BY DEF ReassemblyTimer, Restrict
  <1>5. /\ DOMAIN resolved' = {x \in DOMAIN resolved : resolved[x] > now} \union Due
        /\ \A x \in DOMAIN resolved' :
              resolved'[x] = IF x \in Due THEN now + Timeout ELSE resolved[x]
    BY DEF ReassemblyTimer
  <1>6. /\ Due \subseteq DOMAIN groups
        /\ \A x \in Due : groups[x].deadline <= now
        /\ \A x \in DOMAIN groups \ Due : groups[x].deadline > now
    BY <1>2 DEF Due
  <1>7. \A x \in Due : Len(fates[x]) = 0 /\ x \in Keys
    BY <1>2, <1>6 DEF IInv, FateWhenClosed
  <1>8. /\ fates' \in [Keys -> Seq(Fate)]
        /\ \A x \in Keys \ Due : fates'[x] = fates[x]
        /\ \A x \in Due : fates'[x] = <<"lost">> /\ Len(fates'[x]) = 1
    <2>1. \A x \in Due : /\ Append(fates[x], "lost") = <<"lost">>
                         /\ Append(fates[x], "lost") \in Seq(Fate)
                         /\ Len(Append(fates[x], "lost")) = 1
      BY <1>2, <1>7, EmptyFates DEF Fate
    <2>2. fates' = [k \in Keys |-> IF k \in Due THEN Append(fates[k], "lost") ELSE fates[k]]
      BY DEF ReassemblyTimer
    <2> QED BY <1>2, <1>7, <2>1, <2>2
  <1>9. \A x \in DOMAIN first : Over(x) => Over(x)'
    BY <1>1 DEF Over
  <1>10. \A x \in DOMAIN first : now >= first[x] + Timeout => Over(x)'
    BY <1>1, <1>2 DEF Over
  <1>11. \A x \in Due : Over(x)'
    <2> SUFFICES ASSUME NEW x \in Due PROVE Over(x)'
      OBVIOUS
    <2>1. first[x] + Timeout <= groups[x].deadline
      BY <1>6 DEF IInv, GroupsOK
    <2> QED BY <1>2, <1>6, <1>10, <2>1
  <1>12. \A x \in Keys : GotOf(x)' = GotOf(x) /\ (Missed(x) => Missed(x)')
    BY <1>1, <1>3 DEF GotOf, Pieces, Missed
  <1>13. TypeOK'
    <2>1. BufferTypeOK'
      BY <1>1, <1>3 DEF IInv, TypeOK, BufferTypeOK
    <2>2. \A x \in DOMAIN resolved' : resolved'[x] \in Nat /\ x \in Keys
      BY <1>2, <1>5, <1>6
    <2>3. \A x \in Keys : fates'[x] \in Seq({"delivered", "receiver_off", "lost", "in_flight"})
      BY <1>8 DEF Fate
    <2> QED BY <1>1, <1>2, <1>4, <2>1, <2>2, <2>3 DEF IInv, TypeOK
  <1>14. HistoryOK'
    <2>1. DOMAIN groups' \subseteq DOMAIN first' /\ DOMAIN resolved' \subseteq DOMAIN first'
          /\ DOMAIN groups' \intersect DOMAIN resolved' = {}
      BY <1>1, <1>2, <1>4, <1>5, <1>6 DEF IInv, HistoryOK
    <2>2. ~ended'
      BY DEF ReassemblyTimer
    <2>3. \A x \in Keys \ DOMAIN first' : GotOf(x)' = {} /\ x \notin whole'
      BY <1>1, <1>12 DEF IInv, HistoryOK
    <2> QED BY <1>1, <1>8, <2>1, <2>2, <2>3 DEF IInv, HistoryOK
  <1>15. GroupsOK'
    BY <1>1, <1>2, <1>4, <1>12 DEF IInv, GroupsOK
  <1>16. BufferOK'
    <2>1. DOMAIN open \subseteq Keys /\ DOMAIN done \subseteq Keys
      BY DEF IInv, TypeOK, BufferTypeOK
    <2> QED BY <1>3, <1>12, <2>1 DEF IInv, BufferOK, Pieces
  <1>17. FateWhenClosed'
    BY <1>1, <1>2, <1>4, <1>6, <1>8 DEF IInv, FateWhenClosed
  <1>18. ClosedIsRemembered'
    <2> SUFFICES ASSUME NEW x \in DOMAIN first \ DOMAIN groups'
                 PROVE  (x \in DOMAIN resolved' /\ resolved'[x] >= first[x] + Timeout) \/ Over(x)'
      BY <1>1 DEF ClosedIsRemembered
    <2>1. CASE x \in Due
      BY <1>11, <2>1
    <2>2. CASE x \notin Due
      <3>1. (x \in DOMAIN resolved /\ resolved[x] >= first[x] + Timeout) \/ Over(x)
        BY <1>4, <2>2 DEF IInv, ClosedIsRemembered
      <3>2. CASE Over(x)
        BY <1>9, <3>2
      <3>3. CASE x \in DOMAIN resolved /\ resolved[x] >= first[x] + Timeout /\ resolved[x] > now
        BY <1>5, <2>2, <3>3
      <3>4. CASE x \in DOMAIN resolved /\ resolved[x] >= first[x] + Timeout /\ ~(resolved[x] > now)
        BY <1>2, <1>10, <3>4
      <3> QED BY <3>1, <3>2, <3>3, <3>4
    <2> QED BY <2>1, <2>2
  <1>19. GivenUpStaysSo'
    BY <1>1, <1>2, <1>4, <1>8, <1>9, <1>11, <1>12 DEF IInv, GivenUpStaysSo
  <1>20. DeliveredIsWhole'
    <2> SUFFICES ASSUME NEW x \in Keys, NEW j \in 1..Len(fates'[x]),
                        fates'[x][j] \in {"delivered", "receiver_off"}
                 PROVE  \A i \in Pieces(x) : <<x, i>> \in got'
      BY DEF DeliveredIsWhole, Pieces
    <2>1. CASE x \in Due
      <3>1. j = 1
        BY <1>8, <2>1
      <3> QED BY <1>8, <2>1, <3>1
    <2>2. CASE x \notin Due
      BY <1>1, <1>8, <2>2 DEF IInv, DeliveredIsWhole
    <2> QED BY <2>1, <2>2
  <1>21. GroupAgreesWithBuffer'
    <2>1. ASSUME NEW x \in DOMAIN groups', groups'[x].opened, now' < groups'[x].deadline
          PROVE  /\ x \in DOMAIN open' /\ open'[x].seen = groups'[x].decoded
                 /\ open'[x].deadline = groups'[x].deadline
      <3>1. /\ x \in DOMAIN open /\ open[x].seen = groups[x].decoded
            /\ open[x].deadline = groups[x].deadline
        BY <1>1, <1>4, <2>1 DEF IInv, GroupAgreesWithBuffer
      <3>2. open[x].deadline > now
        BY <1>4, <1>6, <3>1
      <3> QED BY <1>3, <1>4, <3>1, <3>2
    <2>2. \A x \in whole : x \in Keys \ Due
      <3>1. \A x \in whole : Len(fates[x]) = 1 /\ x \in Keys
        BY DEF IInv, GroupAgreesWithBuffer, HistoryOK
      <3> QED BY <1>7, <3>1
    <2>3. \A x \in whole' : fates'[x] \in {<<"delivered">>, <<"receiver_off">>}
      BY <1>1, <1>8, <2>2 DEF IInv, GroupAgreesWithBuffer
    <2> QED BY <2>1, <2>3 DEF GroupAgreesWithBuffer
  <1>22. ResolvedByDeadline'
    BY <1>1, <1>2, <1>4, <1>6 DEF IInv, ResolvedByDeadline
  <1> QED BY <1>13, <1>14, <1>15, <1>16, <1>17, <1>18, <1>19, <1>20, <1>21, <1>22 DEF IInv

LEMMA TickStep ==
    ASSUME IInv, Tick
    PROVE  IInv'
  <1>1. /\ now' = now + 1 /\ now < Horizon /\ now \notin timers /\ tasks' = FALSE
        /\ open' = open /\ done' = done /\ groups' = groups /\ resolved' = resolved
        /\ timers' = timers /\ ended' = ended /\ air' = air /\ first' = first
        /\ got' = got /\ whole' = whole /\ fates' = fates
    BY DEF Tick, buffer
  <1>2. /\ now \in Nat /\ Timeout \in Nat /\ Horizon \in Nat
        /\ DOMAIN first \subseteq Keys /\ DOMAIN groups \subseteq Keys
        /\ \A k \in DOMAIN first : first[k] \in Nat /\ first[k] <= now
        /\ \A k \in DOMAIN groups : groups[k].deadline \in Nat
    BY TimeoutAssumption, HorizonAssumption DEF IInv, HistoryOK, TypeOK, Group
  <1>3. \A x \in Keys : /\ GotOf(x)' = GotOf(x) /\ Pieces(x)' = Pieces(x)
                        /\ Missed(x)' <=> Missed(x)
    BY <1>1 DEF GotOf, Pieces, Missed
  <1>4. \A x \in DOMAIN first : Over(x) => Over(x)'
    BY <1>1, <1>2 DEF Over
  <1>5. \A x \in DOMAIN groups : groups[x].deadline >= now + 1
    <2> SUFFICES ASSUME NEW x \in DOMAIN groups PROVE groups[x].deadline >= now + 1
      OBVIOUS
    <2>1. groups[x].deadline >= now /\ groups[x].deadline # now
      BY <1>1, <1>2 DEF IInv, ResolvedByDeadline
    <2> QED BY <1>2, <2>1
  <1>6. TypeOK'
    <2>1. BufferTypeOK'
      BY <1>1, <1>2 DEF IInv, TypeOK, BufferTypeOK
    <2> QED BY <1>1, <2>1 DEF IInv, TypeOK
  <1>7. HistoryOK'
    BY <1>1, <1>2, <1>3 DEF IInv, HistoryOK
  <1>8. GroupsOK' /\ BufferOK'
    <2>1. DOMAIN open \subseteq Keys /\ DOMAIN done \subseteq Keys
      BY DEF IInv, TypeOK, BufferTypeOK
    <2> QED BY <1>1, <1>2, <1>3, <2>1 DEF IInv, GroupsOK, BufferOK
  <1>9. FateWhenClosed' /\ DeliveredIsWhole'
    BY <1>1 DEF IInv, FateWhenClosed, DeliveredIsWhole, Pieces
  <1>10. ClosedIsRemembered' /\ GivenUpStaysSo'
    BY <1>1, <1>2, <1>3, <1>4 DEF IInv, ClosedIsRemembered, GivenUpStaysSo
  <1>11. GroupAgreesWithBuffer'
    BY <1>1, <1>2 DEF IInv, GroupAgreesWithBuffer
  <1>12. ResolvedByDeadline'
    BY <1>1, <1>5 DEF IInv, ResolvedByDeadline
  <1> QED BY <1>6, <1>7, <1>8, <1>9, <1>10, <1>11, <1>12 DEF IInv

LEMMA EndOfRunStep ==
    ASSUME IInv, EndOfRun
    PROVE  IInv'
  <1>1. /\ now' = now /\ ended' = TRUE /\ open' = open /\ done' = done /\ timers' = timers
        /\ tasks' = tasks /\ air' = air /\ first' = first /\ got' = got /\ whole' = whole
        /\ groups' = <<>> /\ DOMAIN groups' = {}
    BY DEF EndOfRun, buffer
  <1>2. /\ now \in Nat /\ Timeout \in Nat /\ fates \in [Keys -> Seq(Fate)]
        /\ DOMAIN groups \subseteq DOMAIN first /\ DOMAIN first \subseteq Keys
        /\ DOMAIN resolved \subseteq DOMAIN first
        /\ \A k \in DOMAIN resolved : resolved[k] \in Nat
    BY TimeoutAssumption, HorizonAssumption DEF IInv, HistoryOK, TypeOK
  <1>3. /\ DOMAIN resolved' \subseteq DOMAIN resolved \union DOMAIN groups
        /\ \A x \in DOMAIN resolved' : resolved'[x] \in Nat
    BY <1>2 DEF EndOfRun
  <1>4. /\ fates' \in [Keys -> Seq(Fate)]
        /\ \A x \in Keys \ DOMAIN groups : fates'[x] = fates[x]
        /\ \A x \in DOMAIN groups : /\ Len(fates'[x]) = 1
                                    /\ fates'[x][1] \in {"lost", "in_flight"}
    <2> DEFINE e(x) == IF groups[x].lost THEN "lost" ELSE "in_flight"
    <2>1. \A x \in DOMAIN groups : e(x) \in Fate /\ e(x) \in {"lost", "in_flight"}
      BY DEF Fate
    <2>2. fates' = [x \in Keys |-> IF x \in DOMAIN groups THEN Append(fates[x], e(x)) ELSE fates[x]]
      BY DEF EndOfRun
    <2> HIDE DEF e
    <2>3. \A x \in DOMAIN groups : Len(fates[x]) = 0 /\ x \in Keys /\ fates[x] \in Seq(Fate)
      BY <1>2 DEF IInv, FateWhenClosed
    <2>4. \A x \in DOMAIN groups : /\ Append(fates[x], e(x)) \in Seq(Fate)
                                   /\ Len(Append(fates[x], e(x))) = 1
                                   /\ Append(fates[x], e(x))[1] = e(x)
      BY <2>1, <2>3, EmptyFates
    <2> QED BY <1>2, <2>1, <2>2, <2>3, <2>4
  <1>5. \A x \in Keys : Over(x)'
    BY <1>1 DEF Over
  <1>6. \A x \in Keys : GotOf(x)' = GotOf(x)
    BY <1>1 DEF GotOf, Pieces
  <1>7. TypeOK'
    <2>1. \A x \in Keys : fates'[x] \in Seq({"delivered", "receiver_off", "lost", "in_flight"})
      BY <1>4 DEF Fate
    <2> QED BY <1>1, <1>2, <1>3, <2>1 DEF IInv, TypeOK, BufferTypeOK
  <1>8. HistoryOK'
    BY <1>1, <1>2, <1>3, <1>4, <1>6 DEF IInv, HistoryOK
  <1>9. GroupsOK' /\ ResolvedByDeadline'
    BY <1>1 DEF GroupsOK, ResolvedByDeadline
  <1>10. BufferOK'
    <2>1. DOMAIN open \subseteq Keys /\ DOMAIN done \subseteq Keys
      BY DEF IInv, TypeOK, BufferTypeOK
    <2> QED BY <1>1, <1>6, <2>1 DEF IInv, BufferOK, Pieces
  <1>11. FateWhenClosed'
    BY <1>1, <1>2, <1>4 DEF IInv, FateWhenClosed
  <1>12. ClosedIsRemembered' /\ GivenUpStaysSo'
    BY <1>1, <1>2, <1>5 DEF ClosedIsRemembered, GivenUpStaysSo
  <1>13. DeliveredIsWhole'
    <2> SUFFICES ASSUME NEW x \in Keys, NEW j \in 1..Len(fates'[x]),
                        fates'[x][j] \in {"delivered", "receiver_off"}
                 PROVE  \A i \in Pieces(x) : <<x, i>> \in got'
      BY DEF DeliveredIsWhole, Pieces
    <2>1. CASE x \in DOMAIN groups
      <3>1. j = 1
        BY <1>4, <2>1
      <3> QED BY <1>4, <2>1, <3>1
    <2>2. CASE x \notin DOMAIN groups
      BY <1>1, <1>4, <2>2 DEF IInv, DeliveredIsWhole
    <2> QED BY <2>1, <2>2
  <1>14. GroupAgreesWithBuffer'
    <2>1. \A x \in whole : x \in Keys \ DOMAIN groups
      <3>1. \A x \in whole : Len(fates[x]) = 1 /\ x \in Keys
        BY DEF IInv, GroupAgreesWithBuffer, HistoryOK
      <3> QED BY <1>2, <3>1 DEF IInv, FateWhenClosed
    <2> QED BY <1>1, <1>4, <2>1 DEF IInv, GroupAgreesWithBuffer
  <1> QED BY <1>7, <1>8, <1>9, <1>10, <1>11, <1>12, <1>13, <1>14 DEF IInv

LEMMA StutterStep ==
    ASSUME IInv, UNCHANGED vars
    PROVE  IInv'
  <1>1. /\ now' = now /\ open' = open /\ done' = done /\ groups' = groups
        /\ resolved' = resolved /\ timers' = timers /\ tasks' = tasks /\ ended' = ended
        /\ air' = air /\ first' = first /\ got' = got /\ whole' = whole /\ fates' = fates
    BY DEF vars
  <1>2. \A x : GotOf(x)' = GotOf(x)
    BY <1>1 DEF GotOf, Pieces
  <1>3. TypeOK'
    BY <1>1 DEF IInv, TypeOK, BufferTypeOK
  <1>4. HistoryOK'
    BY <1>1, <1>2 DEF IInv, HistoryOK
  <1>5. GroupsOK' /\ BufferOK' /\ FateWhenClosed'
    BY <1>1, <1>2 DEF IInv, GroupsOK, BufferOK, FateWhenClosed, Pieces
  <1>6. ClosedIsRemembered' /\ GivenUpStaysSo'
    BY <1>1 DEF IInv, ClosedIsRemembered, GivenUpStaysSo, Over, Missed, Pieces
  <1>7. DeliveredIsWhole' /\ GroupAgreesWithBuffer' /\ ResolvedByDeadline'
    BY <1>1 DEF IInv, DeliveredIsWhole, GroupAgreesWithBuffer, ResolvedByDeadline, Pieces
  <1> QED BY <1>3, <1>4, <1>5, <1>6, <1>7 DEF IInv

LEMMA NextInv ==
    ASSUME MaxSpread <= Timeout, IInv, [Next]_vars
    PROVE  IInv'
  <1>1. CASE UNCHANGED vars
    BY <1>1, StutterStep
  <1>2. ASSUME NEW k \in Keys, NEW i \in Pieces(k),
               FragmentLost(k, i) \/ FragmentLate(k, i) \/ FragmentDecoded(k, i)
        PROVE  IInv'
    BY <1>2, FragmentLostStep, FragmentLateStep, FragmentDecodedStep
  <1>3. CASE ReassemblyTimer \/ Tick \/ EndOfRun
    BY <1>3, ReassemblyTimerStep, TickStep, EndOfRunStep
  <1> QED BY <1>1, <1>2, <1>3 DEF Next

(* The inductive invariant holds for any number of SDUs and fragments, any    *)
(* capacity, timeout and horizon, provided that the last fragment of an SDU   *)
(* is on the air at most a timeout after its first.                           *)
THEOREM InductiveInvariant ==
    ASSUME MaxSpread <= Timeout PROVE Spec => []IInv
  <1>1. IInv /\ [Next]_vars => IInv'
    BY NextInv
  <1> QED BY <1>1, InitInv, PTL DEF Spec

(* Every SDU of which a fragment reached the receiver gets exactly one fate,  *)
(* and is delivered only when all of its fragments were decoded, whatever the *)
(* order of receptions, timers and the end of the run (on_fragment,           *)
(* on_reassembly_timer and resolve_in_flight of run.rs).                      *)
THEOREM FatesAreSound ==
    ASSUME MaxSpread <= Timeout PROVE Spec => []FatesSound
  <1>1. IInv => OneFate
    <2> SUFFICES ASSUME IInv, NEW k \in Keys
                 PROVE  /\ Len(fates[k]) <= IF k \in DOMAIN groups THEN 0 ELSE 1
                        /\ ended => Len(fates[k]) = IF k \in DOMAIN first THEN 1 ELSE 0
      BY DEF OneFate
    <2>1. Len(fates[k]) = IF k \in DOMAIN first /\ k \notin DOMAIN groups THEN 1 ELSE 0
      BY DEF IInv, FateWhenClosed
    <2>2. ended => DOMAIN groups = {}
      BY DEF IInv, HistoryOK
    <2> QED BY <2>1, <2>2
  <1>2. IInv => FatesSound
    BY <1>1 DEF IInv, FatesSound
  <1> QED BY <1>2, InductiveInvariant, PTL

(* Up to the deadline they share, the engine's group and the reassembler's    *)
(* set of an SDU hold the same fragments and the same deadline, and an SDU    *)
(* that completes in the buffer is one the engine delivers: the two never     *)
(* disagree although each keeps its own state (FragGroup, ReassemblyBuffer).  *)
THEOREM GroupsAgree ==
    ASSUME MaxSpread <= Timeout PROVE Spec => []GroupAgreesWithBuffer
  <1>1. IInv => GroupAgreesWithBuffer
    BY DEF IInv
  <1> QED BY <1>1, InductiveInvariant, PTL

(***************************************************************************)
(* The timers need no bound on how far apart fragments arrive.             *)
(***************************************************************************)

TimerInv ==
    /\ now \in Nat /\ timers \subseteq Nat
    /\ \A k \in DOMAIN groups : groups[k] \in Group
    /\ ResolvedByDeadline

(* A group on_fragment writes for k, with a timer at its deadline.         *)
LEMMA TimedGroup ==
    ASSUME TimerInv, NEW k, NEW g \in Group, g.deadline >= now, now' = now,
           groups' = With(groups, k, g), timers \union Timer(g.deadline) \subseteq timers',
           timers' \subseteq Nat
    PROVE  TimerInv'
  <1>1. /\ DOMAIN groups' = DOMAIN groups \union {k} /\ groups'[k] = g
        /\ \A x \in DOMAIN groups \ {k} : groups'[x] = groups[x]
    BY DEF With
  <1>2. g.deadline \in Nat
    BY DEF Group
  <1>3. g.deadline <= Horizon => g.deadline \in timers'
    BY <1>2, TimerFacts
  <1> QED BY <1>1, <1>3 DEF TimerInv, ResolvedByDeadline

(* Groups that go take nothing from the others.                            *)
LEMMA FewerGroups ==
    ASSUME TimerInv, now' = now, DOMAIN groups' \subseteq DOMAIN groups,
           \A x \in DOMAIN groups' : groups'[x] = groups[x],
           timers \subseteq timers', timers' \subseteq Nat
    PROVE  TimerInv'
  BY DEF TimerInv, ResolvedByDeadline

(* The group of k, found or new, is one whose deadline has not passed.     *)
LEMMA GroupAtTimed ==
    ASSUME TimerInv, NEW k
    PROVE  GroupAt(k) \in Group /\ GroupAt(k).deadline >= now /\ GroupAt(k).deadline \in Nat
  <1>1. now \in Nat /\ Timeout \in Nat
    BY TimeoutAssumption DEF TimerInv
  <1>2. NewGroup \in Group /\ NewGroup.deadline = now + Timeout
    BY <1>1 DEF NewGroup, Group
  <1>3. GroupAt(k) \in Group /\ GroupAt(k).deadline >= now
    BY <1>1, <1>2 DEF TimerInv, ResolvedByDeadline, GroupAt
  <1> QED BY <1>3 DEF Group

LEMMA TimerInvNext ==
    ASSUME TimerInv, [Next]_vars
    PROVE  TimerInv'
  <1>0. now \in Nat /\ timers \subseteq Nat /\ Horizon \in Nat /\ Timeout \in Nat
    BY HorizonAssumption, TimeoutAssumption DEF TimerInv
  <1>1. ASSUME NEW k \in Keys, NEW i \in Pieces(k), FragmentLost(k, i) PROVE TimerInv'
    <2> DEFINE h == GroupAt(k)
               g == [h EXCEPT !.lost = TRUE]
    <2>1. h \in Group /\ h.deadline >= now /\ h.deadline \in Nat
      BY GroupAtTimed
    <2>2. /\ now' = now
          /\ \/ groups' = groups /\ timers' = timers
             \/ groups' = With(groups, k, g) /\ timers' = timers \union Timer(h.deadline)
      BY <1>1 DEF FragmentLost, OffTheAir
    <2> HIDE DEF h
    <2>3. g \in Group /\ g.deadline = h.deadline
      BY <2>1 DEF Group
    <2> HIDE DEF g
    <2>4. Timer(h.deadline) \subseteq Nat
      BY <1>0, <2>1, TimerFacts
    <2>5. CASE groups' = groups /\ timers' = timers
      BY <1>0, <2>2, <2>5, FewerGroups
    <2>6. CASE groups' = With(groups, k, g) /\ timers' = timers \union Timer(h.deadline)
      BY <1>0, <2>1, <2>2, <2>3, <2>4, <2>6, TimedGroup
    <2> QED BY <2>2, <2>5, <2>6
  <1>2. ASSUME NEW k \in Keys, NEW i \in Pieces(k), FragmentLate(k, i) PROVE TimerInv'
    BY <1>0, <1>2, FewerGroups DEF FragmentLate, OffTheAir
  <1>3. ASSUME NEW k \in Keys, NEW i \in Pieces(k), FragmentDecoded(k, i) PROVE TimerInv'
    <2> DEFINE h == GroupAt(k)
               g == Decoded(k, i, h)
    <2>1. h \in Group /\ h.deadline >= now /\ h.deadline \in Nat
      BY GroupAtTimed
    <2>2. /\ now' = now
          /\ timers' = timers \union Timer(h.deadline) \union Timer(g.deadline)
          /\ groups' = Without(groups, k) \/ groups' = With(groups, k, g)
      BY <1>3 DEF FragmentDecoded, OffTheAir, Resolve
    <2> HIDE DEF h
    <2>3. g \in Group /\ g.deadline >= now /\ g.deadline \in Nat
      <3>1. i \in 0..MaxFragments - 1
        BY PiecesFacts
      <3> DEFINE t == IF h.opened THEN h.deadline ELSE now + Timeout
      <3>2. t \in Nat /\ t >= now
        BY <1>0, <2>1
      <3>3. g = [h EXCEPT !.decoded = h.decoded \union {i}, !.opened = TRUE, !.deadline = t]
        BY DEF Decoded
      <3> HIDE DEF t, g
      <3>4. g = [decoded |-> h.decoded \union {i}, lost |-> h.lost, opened |-> TRUE, deadline |-> t]
        BY <2>1, <3>3 DEF Group
      <3>5. h.decoded \union {i} \in SUBSET (0..MaxFragments - 1) /\ h.lost \in BOOLEAN
        BY <2>1, <3>1 DEF Group
      <3>6. g \in Group
        BY <3>2, <3>4, <3>5 DEF Group
      <3>7. g.deadline = t
        BY <3>4
      <3> QED BY <3>2, <3>6, <3>7
    <2> HIDE DEF g
    <2>4. Timer(h.deadline) \subseteq Nat /\ Timer(g.deadline) \subseteq Nat
      BY <1>0, <2>1, <2>3, TimerFacts
    <2>5. timers' \subseteq Nat /\ timers \union Timer(g.deadline) \subseteq timers'
      BY <1>0, <2>2, <2>4
    <2>6. CASE groups' = Without(groups, k)
      <3>1. /\ DOMAIN groups' \subseteq DOMAIN groups
            /\ \A x \in DOMAIN groups' : groups'[x] = groups[x]
        BY <2>6 DEF Without, Restrict
      <3> QED BY <2>2, <2>5, <3>1, FewerGroups
    <2>7. CASE groups' = With(groups, k, g)
      BY <2>2, <2>3, <2>5, <2>7, TimedGroup
    <2> QED BY <2>2, <2>6, <2>7
  <1>4. CASE ReassemblyTimer
    <2>1. /\ now' = now /\ timers' = timers \ {now}
          /\ DOMAIN groups' = DOMAIN groups \ Due
          /\ \A x \in DOMAIN groups' : groups'[x] = groups[x]
      BY <1>4 DEF ReassemblyTimer, Restrict
    <2>2. \A x \in DOMAIN groups' : groups[x].deadline # now
      BY <1>0, <2>1 DEF Due
    <2> QED BY <1>0, <2>1, <2>2 DEF TimerInv, ResolvedByDeadline
  <1>5. CASE Tick
    <2>1. /\ now' = now + 1 /\ now \notin timers /\ now < Horizon
          /\ groups' = groups /\ timers' = timers
      BY <1>5 DEF Tick
    <2>2. \A x \in DOMAIN groups : groups[x].deadline >= now + 1
      <3> SUFFICES ASSUME NEW x \in DOMAIN groups PROVE groups[x].deadline >= now + 1
        OBVIOUS
      <3>1. groups[x].deadline \in Nat
        BY DEF TimerInv, Group
      <3>2. groups[x].deadline >= now /\ groups[x].deadline # now
        BY <1>0, <2>1 DEF TimerInv, ResolvedByDeadline
      <3> QED BY <1>0, <3>1, <3>2
    <2> QED BY <1>0, <2>1, <2>2 DEF TimerInv, ResolvedByDeadline
  <1>6. CASE EndOfRun
    <2>1. now' = now /\ timers' = timers /\ DOMAIN groups' = {}
      BY <1>6 DEF EndOfRun
    <2> QED BY <1>0, <2>1 DEF TimerInv, ResolvedByDeadline
  <1>7. CASE UNCHANGED vars
    BY <1>0, <1>7, FewerGroups DEF vars
  <1> QED BY <1>1, <1>2, <1>3, <1>4, <1>5, <1>6, <1>7 DEF Next

(* No group outlives its deadline: schedule_reassembly has put a timer at the *)
(* deadline of every open group, unless that lies past the horizon.           *)
THEOREM GroupsHaveTimers == Spec => []ResolvedByDeadline
  <1>1. Init => TimerInv
    BY DEF Init, BufferInit, TimerInv, ResolvedByDeadline
  <1>2. TimerInv /\ [Next]_vars => TimerInv'
    BY TimerInvNext
  <1>3. TimerInv => ResolvedByDeadline
    BY DEF TimerInv
  <1> QED BY <1>1, <1>2, <1>3, PTL DEF Spec
===============================================================================
