------------------------- MODULE MediumAccessProofs -------------------------
(***************************************************************************)
(* Proofs about MediumAccess.  The inductive invariant IInv says of every  *)
(* node what its timers rely on: the queue holds signed frames in order,   *)
(* the backoff is that of the first and never ends in the past, a timer    *)
(* stands at its end, and what was signed while another frame was heard    *)
(* waits for that frame and an AIFS.  A frame begins only at the end of a  *)
(* backoff, at a node that has just sensed the medium idle; from that the  *)
(* rules of access follow for any number of nodes, frames and instants.    *)
(*                                                                         *)
(* The meters and the timer of a node that defers need a second invariant, *)
(* LoadInv: what they rest on is a frame loud enough to wait for, or faint *)
(* frames that have added up since the node found the medium busy.         *)
(*                                                                         *)
(* The first sections are about loops, sums and sorting: FoldLeft,         *)
(* MapThenSumSet and Sorted for every input, by induction on sets.         *)
(***************************************************************************)
EXTENDS MediumAccess, FiniteSetTheorems, SequenceTheorems, WellFoundedInduction, TLAPS

(***************************************************************************)
(* Induction.  The library's principles have an operator as a parameter;   *)
(* these have sets in its place.                                           *)
(***************************************************************************)

(* A set of numbers has a least element.                                   *)
LEMMA LeastNumber ==
  ASSUME NEW T, T \subseteq Nat, T # {}
  PROVE  \E x \in T : \A y \in T : x <= y
  <1>1. PICK x \in T : \A y \in T : ~(<<y, x>> \in OpToRel(<, Nat))
    BY WFMin, NatLessThanWellFounded
  <1>2. OpToRel(<, Nat) = {ss \in Nat \X Nat : ss[1] < ss[2]}
    BY Zenon DEF OpToRel
  <1>3. ASSUME NEW y \in T PROVE x <= y
    <2>1. <<y, x>> \in Nat \X Nat
      BY Zenon
    <2>2. ~(<<y, x>> \in {ss \in Nat \X Nat : ss[1] < ss[2]})
      BY <1>1, <1>2, Zenon
    <2>3. ~(<<y, x>>[1] < <<y, x>>[2])
      BY <2>1, <2>2, Zenon
    <2>4. x \in Nat /\ y \in Nat
      BY Zenon
    <2> QED BY <2>3, <2>4, SMT
  <1> QED BY <1>3

(* What holds at 0 and passes on from each number to the next holds up to n.  *)
LEMMA UpTo ==
  ASSUME NEW n \in Nat, NEW T, 0 \in T, \A i \in 0 .. (n - 1) : i \in T => i + 1 \in T
  PROVE  \A i \in 0 .. n : i \in T
  <1> SUFFICES ASSUME NEW bad \in 0 .. n, bad \notin T PROVE FALSE
    OBVIOUS
  <1> DEFINE B == {i \in 0 .. n : i \notin T}
  <1>1. B \subseteq Nat /\ B # {}
    OBVIOUS
  <1>2. PICK x \in B : \A y \in B : x <= y
    BY <1>1, LeastNumber
  <1>3. x # 0 /\ x - 1 \in 0 .. (n - 1) /\ x - 1 \notin B
    BY <1>2
  <1> QED BY <1>2, <1>3

(* A non-empty set of numbers that is bounded has a greatest element.      *)
LEMMA GreatestNumber ==
  ASSUME NEW n \in Nat, NEW T, T \subseteq 0 .. n, T # {}
  PROVE  \E x \in T : \A y \in T : x >= y
  <1> DEFINE D == {b \in Nat : \A y \in T : y <= b}
  <1>1. D \subseteq Nat /\ n \in D
    OBVIOUS
  <1>2. PICK d \in D : \A y \in D : d <= y
    BY <1>1, LeastNumber
  <1>3. d \in T
    <2>1. PICK z \in T : TRUE
      OBVIOUS
    <2> SUFFICES ASSUME d \notin T PROVE FALSE
      OBVIOUS
    <2>2. \A y \in T : y \in Nat /\ y <= d - 1
      BY <1>2
    <2>3. d - 1 \in Nat
      BY <2>1, <2>2, <1>2
    <2> QED BY <1>2, <2>2, <2>3
  <1> QED BY <1>2, <1>3

(* What holds of a set when it holds of it without any one member holds of *)
(* all subsets of a finite set.                                            *)
LEMMA SubsetInduction ==
  ASSUME NEW S, IsFiniteSet(S), NEW G, {} \in G,
         \A s \in SUBSET S : s # {} /\ (\A x \in s : s \ {x} \in G) => s \in G
  PROVE  \A s \in SUBSET S : s \in G
  <1> SUFFICES ASSUME NEW bad \in SUBSET S, bad \notin G PROVE FALSE
    OBVIOUS
  <1> DEFINE B == {s \in SUBSET S : s \notin G}
             T == {Cardinality(s) : s \in B}
  <1>1. \A s \in SUBSET S : IsFiniteSet(s) /\ Cardinality(s) \in Nat
    BY FS_Subset, FS_CardinalityType
  <1>2. T \subseteq Nat /\ T # {}
    BY <1>1
  <1>3. PICK k \in T : \A y \in T : k <= y
    BY <1>2, LeastNumber
  <1>4. PICK s \in B : k = Cardinality(s)
    OBVIOUS
  <1>5. ASSUME NEW x \in s PROVE s \ {x} \in G
    <2>1. Cardinality(s \ {x}) = k - 1 /\ k \in Nat
      BY <1>1, <1>4, <1>2, FS_RemoveElement
    <2>2. s \ {x} \notin B
      BY <1>3, <2>1
    <2> QED BY <2>2
  <1> QED BY <1>4, <1>5

(* The greatest member of a bounded set of numbers.                        *)
LEMMA MaxIsGreatest ==
  ASSUME NEW n \in Nat, NEW T, T \subseteq 0 .. n, T # {}
  PROVE  Max(T) \in T /\ \A y \in T : Max(T) >= y
  <1>1. \E x \in T : \A y \in T : x >= y
    BY GreatestNumber
  <1> QED BY <1>1 DEF Max

LEMMA MaxOfTwo ==
  ASSUME NEW x \in Int, NEW y \in Int
  PROVE  Max({x, y}) = IF x >= y THEN x ELSE y
  <1>1. \E z \in {x, y} : \A w \in {x, y} : z >= w
    OBVIOUS
  <1>2. Max({x, y}) \in {x, y} /\ \A w \in {x, y} : Max({x, y}) >= w
    BY <1>1 DEF Max
  <1> QED BY <1>2

(***************************************************************************)
(* Loops.  FoldLeft goes through the sets of the first indices; what it    *)
(* computes is the last of a run of values, one per turn.                  *)
(***************************************************************************)

LoopEq(h, n, base, step) ==
  h = [s \in SUBSET (1 .. n) |->
         IF s = {} THEN base ELSE step[Max(s)][h[s \ {Max(s)}]]]

LEMMA LoopExists ==
  ASSUME NEW n \in Nat, NEW B, NEW base \in B, NEW step \in [1 .. n -> [B -> B]]
  PROVE  \E h \in [SUBSET (1 .. n) -> B] : LoopEq(h, n, base, step)
  <1> DEFINE T == {k \in 0 .. n : \E h \in [SUBSET (1 .. k) -> B] : LoopEq(h, k, base, step)}
  <1>1. 0 \in T
    <2> DEFINE h == [s \in SUBSET (1 .. 0) |-> base]
    <2>1. 1 .. 0 = {}
      OBVIOUS
    <2>2. h \in [SUBSET (1 .. 0) -> B]
      OBVIOUS
    <2>3. LoopEq(h, 0, base, step)
      BY <2>1 DEF LoopEq
    <2> QED BY <2>2, <2>3
  <1>2. ASSUME NEW k \in 0 .. (n - 1), k \in T PROVE k + 1 \in T
    <2>1. PICK h \in [SUBSET (1 .. k) -> B] : LoopEq(h, k, base, step)
      BY <1>2
    <2> DEFINE g == [s \in SUBSET (1 .. (k + 1)) |->
                       IF k + 1 \in s THEN step[k + 1][h[s \ {k + 1}]] ELSE h[s]]
    <2>2. \A s \in SUBSET (1 .. (k + 1)) :
             /\ k + 1 \in s => s \ {k + 1} \in SUBSET (1 .. k)
             /\ k + 1 \notin s => s \in SUBSET (1 .. k)
      OBVIOUS
    <2>3. g \in [SUBSET (1 .. (k + 1)) -> B]
      <3>1. k + 1 \in 1 .. n
        OBVIOUS
      <3> QED BY <2>2, <3>1
    <2>4. ASSUME NEW s \in SUBSET (1 .. (k + 1)), s # {}
          PROVE  /\ Max(s) \in s
                 /\ k + 1 \in s => Max(s) = k + 1
      <3>1. s \subseteq 0 .. (k + 1) /\ k + 1 \in Nat
        OBVIOUS
      <3> HIDE DEF g
      <3>2. Max(s) \in s /\ \A y \in s : Max(s) >= y
        BY <3>1, <2>4, MaxIsGreatest
      <3>3. \A y \in s : y \in 0 .. (k + 1)
        BY <3>1
      <3>4. ASSUME k + 1 \in s PROVE Max(s) = k + 1
        <4>1. Max(s) \in 0 .. (k + 1) /\ Max(s) >= k + 1
          BY <3>2, <3>3, <3>4
        <4> QED BY <4>1
      <3> QED BY <3>2, <3>4
    <2>5. ASSUME NEW s \in SUBSET (1 .. (k + 1))
          PROVE  g[s] = IF s = {} THEN base ELSE step[Max(s)][g[s \ {Max(s)}]]
      <3>1. CASE s = {}
        <4>1. g[s] = h[s] /\ s \in SUBSET (1 .. k)
          BY <3>1
        <4> QED BY <3>1, <4>1, <2>1 DEF LoopEq
      <3>2. CASE k + 1 \in s
        <4>1. Max(s) = k + 1 /\ s # {}
          BY <3>2, <2>4
        <4>2. s \ {k + 1} \in SUBSET (1 .. (k + 1)) /\ k + 1 \notin s \ {k + 1}
          OBVIOUS
        <4>3. g[s \ {k + 1}] = h[s \ {k + 1}]
          BY <4>2
        <4> QED BY <3>2, <4>1, <4>3
      <3>3. CASE s # {} /\ k + 1 \notin s
        <4>1. s \in SUBSET (1 .. k) /\ g[s] = h[s]
          BY <3>3, <2>2
        <4>2. s \ {Max(s)} \in SUBSET (1 .. (k + 1)) /\ k + 1 \notin s \ {Max(s)}
          BY <3>3
        <4>3. g[s \ {Max(s)}] = h[s \ {Max(s)}]
          BY <4>2
        <4>4. h[s] = step[Max(s)][h[s \ {Max(s)}]]
          BY <4>1, <3>3, <2>1 DEF LoopEq
        <4> QED BY <3>3, <4>1, <4>3, <4>4
      <3> QED BY <3>1, <3>2, <3>3
    <2>6. LoopEq(g, k + 1, base, step)
      BY <2>3, <2>5 DEF LoopEq
    <2>7. k + 1 \in 0 .. n
      OBVIOUS
    <2> HIDE DEF g
    <2> QED BY <2>3, <2>6, <2>7
  <1> HIDE DEF T
  <1>3. \A i \in 0 .. n : i \in T
    BY <1>1, <1>2, UpTo
  <1>4. n \in T
    BY <1>3
  <1> QED BY <1>4 DEF T

(* The values a loop goes through, turn by turn.                           *)
Turns(g, n, base, step) == g[0] = base /\ \A i \in 1 .. n : g[i] = step[i][g[i - 1]]
HasTurns(B, h, n, base, step) ==
  \E g \in [0 .. n -> B] : Turns(g, n, base, step) /\ g[n] = h[1 .. n]

LEMMA LoopTurns ==
  ASSUME NEW n \in Nat, NEW B, NEW base \in B, NEW step \in [1 .. n -> [B -> B]],
         NEW h, LoopEq(h, n, base, step)
  PROVE  HasTurns(B, h, n, base, step)
  <1> DEFINE g == [i \in 0 .. n |-> h[1 .. i]]
  <1>1. \A i \in 0 .. n : 1 .. i \in SUBSET (1 .. n)
    OBVIOUS
  <1>2. g[0] = base
    <2>1. 1 .. 0 = {}
      OBVIOUS
    <2>2. h[{}] = base
      BY DEF LoopEq
    <2> QED BY <2>1, <2>2
  <1>3. ASSUME NEW i \in 1 .. n PROVE g[i] = step[i][g[i - 1]]
    <2>1. 1 .. i \in SUBSET (1 .. n) /\ 1 .. i # {} /\ i \in 1 .. i
      OBVIOUS
    <2>2. Max(1 .. i) = i
      <3>1. 1 .. i \subseteq 0 .. n /\ 1 .. i # {} /\ i \in 1 .. i
        OBVIOUS
      <3>2. Max(1 .. i) \in 1 .. i /\ \A y \in 1 .. i : Max(1 .. i) >= y
        BY <3>1, MaxIsGreatest
      <3> QED BY <3>1, <3>2
    <2>3. (1 .. i) \ {i} = 1 .. (i - 1)
      OBVIOUS
    <2>4. h[1 .. i] = step[i][h[1 .. (i - 1)]]
      BY <2>1, <2>2, <2>3, ZenonT(60) DEF LoopEq
    <2>5. i \in 0 .. n /\ i - 1 \in 0 .. n
      OBVIOUS
    <2> QED BY <2>4, <2>5
  <1>4. \A i \in 0 .. n : g[i] \in B
    <2> DEFINE T == {i \in 0 .. n : g[i] \in B}
    <2>1. 0 \in T
      BY <1>2
    <2>2. ASSUME NEW i \in 0 .. (n - 1), i \in T PROVE i + 1 \in T
      <3>1. i + 1 \in 1 .. n /\ i + 1 \in 0 .. n /\ (i + 1) - 1 = i
        OBVIOUS
      <3>2. g[i + 1] = step[i + 1][g[i]]
        BY <3>1, <1>3
      <3> HIDE DEF g
      <3>3. g[i] \in B
        BY <2>2
      <3> QED BY <3>1, <3>2, <3>3
    <2> HIDE DEF T
    <2>3. \A i \in 0 .. n : i \in T
      BY <2>1, <2>2, UpTo
    <2> QED BY <2>3 DEF T
  <1>5. g[n] = h[1 .. n] /\ g \in [0 .. n -> B]
    BY <1>4
  <1> HIDE DEF g
  <1>6. Turns(g, n, base, step)
    BY <1>2, <1>3 DEF Turns
  <1> QED BY <1>5, <1>6, Zenon DEF HasTurns

(***************************************************************************)
(* Sums.  MapThenSumSet over a finite set of naturals.                     *)
(***************************************************************************)

Pick(s) == CHOOSE x \in s : TRUE

SumEq(h, S, p) ==
  h = [s \in SUBSET S |-> IF s = {} THEN 0 ELSE p[Pick(s)] + h[s \ {Pick(s)}]]

(* The subsets of S with at most k members.                                *)
Small(S, k) == {s \in SUBSET S : Cardinality(s) <= k}

LEMMA SumExists ==
  ASSUME NEW S, IsFiniteSet(S), NEW p \in [S -> Nat]
  PROVE  \E h \in [SUBSET S -> Nat] : SumEq(h, S, p)
  <1> DEFINE Good(h, k) == \A s \in Small(S, k) :
                h[s] = IF s = {} THEN 0 ELSE p[Pick(s)] + h[s \ {Pick(s)}]
             T == {k \in 0 .. Cardinality(S) : \E h \in [SUBSET S -> Nat] : Good(h, k)}
  <1>0. \A s \in SUBSET S : IsFiniteSet(s) /\ Cardinality(s) \in Nat
                              /\ Cardinality(s) <= Cardinality(S)
    BY FS_Subset, FS_CardinalityType
  <1>1. 0 \in T
    <2> DEFINE h == [s \in SUBSET S |-> 0]
    <2>1. h \in [SUBSET S -> Nat]
      OBVIOUS
    <2>2. \A s \in Small(S, 0) : s = {}
      BY <1>0, FS_EmptySet DEF Small
    <2>3. Good(h, 0)
      BY <2>2 DEF Small
    <2>4. 0 \in 0 .. Cardinality(S)
      BY <1>0
    <2> HIDE DEF h, Good
    <2> QED BY <2>1, <2>3, <2>4
  <1>2. ASSUME NEW k \in 0 .. (Cardinality(S) - 1), k \in T PROVE k + 1 \in T
    <2>1. PICK h \in [SUBSET S -> Nat] : Good(h, k)
      BY <1>2
    <2> DEFINE g == [s \in SUBSET S |->
                       IF Cardinality(s) = k + 1
                       THEN p[Pick(s)] + h[s \ {Pick(s)}] ELSE h[s]]
    <2>2. ASSUME NEW s \in SUBSET S, s # {}
          PROVE  /\ Pick(s) \in s /\ s \ {Pick(s)} \in SUBSET S
                 /\ Cardinality(s \ {Pick(s)}) = Cardinality(s) - 1
      <3>1. Pick(s) \in s
        BY <2>2 DEF Pick
      <3> QED BY <3>1, <1>0, FS_RemoveElement
    <2>3. \A s \in SUBSET S : Cardinality(s) = k + 1 => s # {}
      BY <1>0, FS_EmptySet
    <2>4. g \in [SUBSET S -> Nat]
      BY <2>2, <2>3
    <2>5. ASSUME NEW s \in Small(S, k + 1)
          PROVE  g[s] = IF s = {} THEN 0 ELSE p[Pick(s)] + g[s \ {Pick(s)}]
      <3>0. s \in SUBSET S /\ Cardinality(s) <= k + 1 /\ Cardinality(s) \in Nat
        BY <1>0 DEF Small
      <3>1. CASE s = {}
        <4>1. Cardinality(s) = 0 /\ s \in Small(S, k)
          BY <3>1, FS_EmptySet DEF Small
        <4>2. g[s] = h[s]
          BY <4>1, <3>0
        <4> QED BY <3>1, <4>1, <4>2, <2>1
      <3>2. CASE Cardinality(s) = k + 1
        <4>1. s # {}
          BY <3>2, <3>0, <2>3
        <4>2. s \ {Pick(s)} \in SUBSET S /\ Cardinality(s \ {Pick(s)}) # k + 1
          BY <4>1, <3>0, <3>2, <2>2
        <4>3. g[s \ {Pick(s)}] = h[s \ {Pick(s)}]
          BY <4>2
        <4> QED BY <4>1, <4>3, <3>0, <3>2
      <3>3. CASE s # {} /\ Cardinality(s) # k + 1
        <4>1. s \in Small(S, k)
          BY <3>0, <3>3 DEF Small
        <4>2. s \ {Pick(s)} \in SUBSET S /\ Cardinality(s \ {Pick(s)}) # k + 1
          BY <3>0, <3>3, <2>2
        <4>3. g[s] = h[s] /\ g[s \ {Pick(s)}] = h[s \ {Pick(s)}]
          BY <4>2, <3>0, <3>3
        <4> QED BY <4>1, <4>3, <3>3, <2>1
      <3> QED BY <3>1, <3>2, <3>3
    <2>6. Good(g, k + 1)
      BY <2>5
    <2>7. k + 1 \in 0 .. Cardinality(S)
      BY <1>0
    <2> HIDE DEF g, Good
    <2> QED BY <2>4, <2>6, <2>7
  <1>3. Cardinality(S) \in T
    <2>1. Cardinality(S) \in Nat
      BY <1>0
    <2> HIDE DEF T
    <2>2. \A i \in 0 .. Cardinality(S) : i \in T
      BY <1>1, <1>2, <2>1, UpTo
    <2> QED BY <2>1, <2>2
  <1>4. PICK h \in [SUBSET S -> Nat] : Good(h, Cardinality(S))
    BY <1>3
  <1>5. \A s \in SUBSET S : s \in Small(S, Cardinality(S))
    BY <1>0 DEF Small
  <1>6. SumEq(h, S, p)
    BY <1>4, <1>5 DEF SumEq
  <1> QED BY <1>6

(* A sum is at least each of its terms.                                    *)
LEMMA SumAtLeast ==
  ASSUME NEW S, IsFiniteSet(S), NEW p \in [S -> Nat], NEW h, SumEq(h, S, p)
  PROVE  h[S] \in Nat /\ \A x \in S : p[x] <= h[S]
  <1> DEFINE G == {s \in SUBSET S : h[s] \in Nat /\ \A x \in s : p[x] <= h[s]}
  <1>1. {} \in G
    BY DEF SumEq
  <1>2. ASSUME NEW s \in SUBSET S, s # {}, \A x \in s : s \ {x} \in G PROVE s \in G
    <2>1. Pick(s) \in s /\ Pick(s) \in S
      BY <1>2 DEF Pick
    <2>2. h[s] = p[Pick(s)] + h[s \ {Pick(s)}]
      BY <1>2 DEF SumEq
    <2>3. s \ {Pick(s)} \in G /\ p[Pick(s)] \in Nat
      BY <1>2, <2>1
    <2>4. ASSUME NEW x \in s PROVE p[x] <= h[s]
      <3>1. CASE x = Pick(s)
        BY <3>1, <2>2, <2>3
      <3>2. CASE x # Pick(s)
        <4>1. p[x] <= h[s \ {Pick(s)}] /\ p[x] \in Nat
          BY <2>3, <3>2
        <4> QED BY <4>1, <2>2, <2>3
      <3> QED BY <3>1, <3>2
    <2> QED BY <2>2, <2>3, <2>4
  <1> HIDE DEF G
  <1>3. \A s \in SUBSET S : s \in G
    BY <1>1, <1>2, SubsetInduction
  <1> QED BY <1>3 DEF G

(* What a sum becomes when one of its terms changes.                       *)
SameBut(p, q, S, x) == \A y \in S \ {x} : q[y] = p[y]

Replaced(old, new, before, after) == new = (old - before) + after

LEMMA SumChanged ==
  ASSUME NEW S, IsFiniteSet(S), NEW p \in [S -> Nat], NEW q \in [S -> Nat], NEW x \in S,
         SameBut(p, q, S, x),
         NEW h, SumEq(h, S, p), NEW g, SumEq(g, S, q)
  PROVE  Replaced(h[S], g[S], p[x], q[x])
  <1> DEFINE G == {s \in SUBSET S : /\ h[s] \in Nat /\ g[s] \in Nat
                                    /\ x \in s => g[s] = (h[s] - p[x]) + q[x]
                                    /\ x \notin s => g[s] = h[s]}
  <1>1. {} \in G
    BY DEF SumEq
  <1>2. ASSUME NEW s \in SUBSET S, s # {}, \A y \in s : s \ {y} \in G PROVE s \in G
    <2>1. Pick(s) \in s /\ Pick(s) \in S
      BY <1>2 DEF Pick
    <2>2. /\ h[s] = p[Pick(s)] + h[s \ {Pick(s)}]
          /\ g[s] = q[Pick(s)] + g[s \ {Pick(s)}]
      BY <1>2 DEF SumEq
    <2>3. s \ {Pick(s)} \in G /\ p[Pick(s)] \in Nat /\ q[Pick(s)] \in Nat
          /\ p[x] \in Nat /\ q[x] \in Nat
      BY <1>2, <2>1
    <2>4. CASE x = Pick(s)
      BY <2>1, <2>2, <2>3, <2>4
    <2>5. CASE x # Pick(s)
      <3>1. q[Pick(s)] = p[Pick(s)]
        BY <2>1, <2>5 DEF SameBut
      <3> QED BY <3>1, <2>1, <2>2, <2>3, <2>5
    <2> QED BY <2>4, <2>5
  <1> HIDE DEF G
  <1>3. \A s \in SUBSET S : s \in G
    BY <1>1, <1>2, SubsetInduction
  <1> QED BY <1>3 DEF G, Replaced

(* A sum of zeros.                                                         *)
LEMMA SumOfZeros ==
  ASSUME NEW S, IsFiniteSet(S), NEW p \in [S -> Nat], \A x \in S : p[x] = 0,
         NEW h, SumEq(h, S, p)
  PROVE  h[S] = 0
  <1> DEFINE G == {s \in SUBSET S : h[s] = 0}
  <1>1. {} \in G
    BY DEF SumEq
  <1>2. ASSUME NEW s \in SUBSET S, s # {}, \A y \in s : s \ {y} \in G PROVE s \in G
    <2>1. Pick(s) \in s /\ Pick(s) \in S
      BY <1>2 DEF Pick
    <2>2. h[s] = p[Pick(s)] + h[s \ {Pick(s)}]
      BY <1>2 DEF SumEq
    <2>3. s \ {Pick(s)} \in G /\ p[Pick(s)] = 0
      BY <1>2, <2>1
    <2> QED BY <2>2, <2>3
  <1> HIDE DEF G
  <1>3. \A s \in SUBSET S : s \in G
    BY <1>1, <1>2, SubsetInduction
  <1> QED BY <1>3 DEF G

(* A sum is any one of its terms and the sum of the others.                *)
LEMMA SumOut ==
  ASSUME NEW S, IsFiniteSet(S), NEW p \in [S -> Nat], NEW h, SumEq(h, S, p)
  PROVE  \A s \in SUBSET S : h[s] \in Nat /\ \A y \in s : h[s] = p[y] + h[s \ {y}]
  <1> DEFINE G == {s \in SUBSET S : \A y \in s : h[s] = p[y] + h[s \ {y}]}
  <1>0. \A s \in SUBSET S : h[s] \in Nat
    <2> DEFINE H == {s \in SUBSET S : h[s] \in Nat}
    <2>1. {} \in H
      BY DEF SumEq
    <2>2. ASSUME NEW s \in SUBSET S, s # {}, \A x \in s : s \ {x} \in H PROVE s \in H
      <3>1. Pick(s) \in s
        BY <2>2 DEF Pick
      <3>2. h[s] = p[Pick(s)] + h[s \ {Pick(s)}]
        BY <2>2 DEF SumEq
      <3>3. h[s \ {Pick(s)}] \in Nat /\ p[Pick(s)] \in Nat
        BY <2>2, <3>1
      <3> QED BY <3>2, <3>3
    <2> HIDE DEF H
    <2>3. \A s \in SUBSET S : s \in H
      BY <2>1, <2>2, SubsetInduction
    <2> QED BY <2>3 DEF H
  <1>1. {} \in G
    BY DEF SumEq
  <1>2. ASSUME NEW s \in SUBSET S, s # {}, \A x \in s : s \ {x} \in G PROVE s \in G
    <2>1. PICK z \in s : z = Pick(s)
      BY <1>2 DEF Pick
    <2>2. h[s] = p[z] + h[s \ {z}]
      BY <1>2, <2>1 DEF SumEq
    <2>3. h[s \ {z}] \in Nat /\ p[z] \in Nat
      BY <1>0
    <2>4. ASSUME NEW y \in s PROVE h[s] = p[y] + h[s \ {y}]
      <3>1. CASE y = z
        BY <2>2, <3>1
      <3>2. CASE y # z
        <4>1. y \in s \ {z} /\ z \in s \ {y} /\ (s \ {z}) \ {y} = (s \ {y}) \ {z}
          BY <3>2
        <4>2. h[s \ {z}] = p[y] + h[(s \ {z}) \ {y}]
          BY <1>2, <4>1
        <4>3. h[s \ {y}] = p[z] + h[(s \ {z}) \ {y}] /\ h[s \ {y}] \in Nat
          BY <1>0, <1>2, <4>1
        <4>4. p[y] \in Nat
          OBVIOUS
        <4>5. h[(s \ {z}) \ {y}] \in Nat
          BY <1>0
        <4> QED BY <2>2, <2>3, <4>2, <4>3, <4>4, <4>5
      <3> QED BY <3>1, <3>2
    <2> QED BY <2>4
  <1> HIDE DEF G
  <1>3. \A s \in SUBSET S : s \in G
    BY <1>1, <1>2, SubsetInduction
  <1> QED BY <1>0, <1>3 DEF G

(* f sends the members of A to different members of F, and a term of p to  *)
(* one of q.                                                               *)
Into(f, A, p, q) ==
  /\ \A x, y \in A : f[x] = f[y] => x = y
  /\ \A x \in A : p[x] = q[f[x]]

(* A sum is at most one over all its terms and more.                       *)
LEMMA SumUnder ==
  ASSUME NEW A, IsFiniteSet(A), NEW F, IsFiniteSet(F), NEW f \in [A -> F],
         NEW p \in [A -> Nat], NEW q \in [F -> Nat], Into(f, A, p, q),
         NEW h, SumEq(h, A, p), NEW g, SumEq(g, F, q)
  PROVE  h[A] <= g[F]
  <1> DEFINE G == {s \in SUBSET A : \A r \in SUBSET F : (\A x \in s : f[x] \in r) => h[s] <= g[r]}
  <1>0. /\ \A s \in SUBSET A : h[s] \in Nat /\ \A y \in s : h[s] = p[y] + h[s \ {y}]
        /\ \A r \in SUBSET F : g[r] \in Nat /\ \A y \in r : g[r] = q[y] + g[r \ {y}]
    BY SumOut, SMTT(60)
  <1>1. {} \in G
    <2>1. h[{}] = 0
      BY DEF SumEq
    <2> QED BY <1>0, <2>1
  <1>2. ASSUME NEW s \in SUBSET A, s # {}, \A x \in s : s \ {x} \in G PROVE s \in G
    <2> SUFFICES ASSUME NEW r \in SUBSET F, \A x \in s : f[x] \in r PROVE h[s] <= g[r]
      OBVIOUS
    <2>1. PICK z \in s : TRUE
      BY <1>2
    <2>2. f[z] \in r /\ p[z] = q[f[z]] /\ p[z] \in Nat
      BY DEF Into
    <2>3. \A x \in s \ {z} : f[x] \in r \ {f[z]}
      BY DEF Into
    <2>4. s \ {z} \in G /\ r \ {f[z]} \in SUBSET F
      BY <1>2
    <2>5. h[s \ {z}] <= g[r \ {f[z]}]
      BY <2>3, <2>4
    <2>6. h[s] = p[z] + h[s \ {z}] /\ g[r] = q[f[z]] + g[r \ {f[z]}]
      BY <1>0, <2>2
    <2>7. h[s \ {z}] \in Nat /\ g[r \ {f[z]}] \in Nat
      BY <1>0, <2>4
    <2> QED BY <2>2, <2>5, <2>6, <2>7
  <1> HIDE DEF G
  <1>3. \A s \in SUBSET A : s \in G
    BY <1>1, <1>2, SubsetInduction
  <1>4. A \in G
    BY <1>3
  <1> QED BY <1>4 DEF G

(***************************************************************************)
(* Sorting.                                                                *)
(***************************************************************************)

(* R orders the indices up to n, two of them possibly alike.               *)
Orders(R, n) ==
  /\ \A i, j \in 1 .. n : <<i, j>> \in R => <<j, i>> \notin R
  /\ \A i, j, k \in 1 .. n : <<j, i>> \notin R /\ <<k, j>> \notin R => <<k, i>> \notin R

LEMMA IndexCount ==
  ASSUME NEW k \in Nat
  PROVE  IsFiniteSet(1 .. k) /\ Cardinality(1 .. k) = k
  BY FS_Interval

LEMMA FirstExists ==
  ASSUME NEW n \in Nat, NEW R, Orders(R, n), NEW S \in SUBSET (1 .. n), S # {}
  PROVE  \E m \in S : \A j \in S : <<j, m>> \notin R
  <1> DEFINE G == {s \in SUBSET (1 .. n) : s # {} => \E m \in s : \A j \in s : <<j, m>> \notin R}
  <1>1. {} \in G
    OBVIOUS
  <1>2. ASSUME NEW s \in SUBSET (1 .. n), s # {}, \A x \in s : s \ {x} \in G PROVE s \in G
    <2>1. PICK x \in s : TRUE
      BY <1>2
    <2>2. CASE s \ {x} = {}
      <3>1. \A j \in s : j = x
        BY <2>2
      <3>2. <<x, x>> \notin R
        BY DEF Orders
      <3> QED BY <3>1, <3>2
    <2>3. CASE s \ {x} # {}
      <3>1. PICK m \in s \ {x} : \A j \in s \ {x} : <<j, m>> \notin R
        BY <1>2, <2>3
      <3>2. CASE <<x, m>> \notin R
        <4>1. \A j \in s : <<j, m>> \notin R
          BY <3>1, <3>2
        <4> QED BY <3>1, <4>1
      <3>3. CASE <<x, m>> \in R
        <4>1. <<m, x>> \notin R /\ <<x, x>> \notin R
          BY <3>3 DEF Orders
        <4>2. ASSUME NEW j \in s PROVE <<j, x>> \notin R
          <5>1. CASE j = x
            BY <5>1, <4>1
          <5>2. CASE j # x
            <6>1. <<j, m>> \notin R
              BY <5>2, <3>1
            <6> QED BY <6>1, <4>1 DEF Orders
          <5> QED BY <5>1, <5>2
        <4> QED BY <4>2
      <3> QED BY <3>2, <3>3
    <2> QED BY <2>2, <2>3
  <1> HIDE DEF G
  <1>3. IsFiniteSet(1 .. n)
    BY FS_Interval
  <1>4. S \in G
    BY <1>1, <1>2, <1>3, SubsetInduction
  <1> QED BY <1>4 DEF G

LEMMA SortingExists ==
  ASSUME NEW n \in Nat, NEW R, Orders(R, n)
  PROVE  \E q \in [1 .. n -> 1 .. n] :
            IsInjective(q) /\ \A i, j \in 1 .. n : i < j => <<q[j], q[i]>> \notin R
  <1> DEFINE Left(q, k) == {j \in 1 .. n : \A i \in 1 .. k : q[i] # j}
             Good(q, k) == /\ \A i, j \in 1 .. k : q[i] = q[j] => i = j
                           /\ \A i, j \in 1 .. k : i < j => <<q[j], q[i]>> \notin R
                           /\ \A i \in 1 .. k, j \in Left(q, k) : <<j, q[i]>> \notin R
             T == {k \in 0 .. n : \E q \in [1 .. k -> 1 .. n] : Good(q, k)}
  <1>1. 0 \in T
    <2> DEFINE q == [i \in 1 .. 0 |-> 1]
    <2>1. q \in [1 .. 0 -> 1 .. n] /\ Good(q, 0)
      OBVIOUS
    <2>2. 0 \in 0 .. n
      OBVIOUS
    <2> HIDE DEF q, Good
    <2> QED BY <2>1, <2>2, Zenon
  <1>2. ASSUME NEW k \in 0 .. (n - 1), k \in T PROVE k + 1 \in T
    <2>1. PICK q \in [1 .. k -> 1 .. n] : Good(q, k)
      BY <1>2
    <2>2. Left(q, k) # {}
      <3> SUFFICES ASSUME Left(q, k) = {} PROVE FALSE
        OBVIOUS
      <3>1. q \in Surjection(1 .. k, 1 .. n)
        BY DEF Surjection
      <3>2. IsFiniteSet(1 .. k) /\ Cardinality(1 .. k) = k /\ Cardinality(1 .. n) = n
        BY IndexCount, k \in Nat
      <3>3. n <= k
        BY <3>1, <3>2, FS_Surjection
      <3> QED BY <3>3
    <2>3. PICK m \in Left(q, k) : \A j \in Left(q, k) : <<j, m>> \notin R
      <3>1. Left(q, k) \in SUBSET (1 .. n)
        OBVIOUS
      <3> HIDE DEF Left
      <3> QED BY <2>2, <3>1, FirstExists
    <2> DEFINE p == [i \in 1 .. (k + 1) |-> IF i = k + 1 THEN m ELSE q[i]]
    <2>4. p \in [1 .. (k + 1) -> 1 .. n]
      OBVIOUS
    <2>5. /\ \A i \in 1 .. k : i \in 1 .. (k + 1) /\ p[i] = q[i]
          /\ k + 1 \in 1 .. (k + 1) /\ p[k + 1] = m
          /\ \A i \in 1 .. (k + 1) : i \in 1 .. k \/ i = k + 1
      OBVIOUS
    <2>6. \A j \in Left(p, k + 1) : j \in Left(q, k)
      BY <2>5
    <2> HIDE DEF p
    <2>7. \A i, j \in 1 .. (k + 1) : p[i] = p[j] => i = j
      BY <2>1, <2>3, <2>5
    <2>8. \A i, j \in 1 .. (k + 1) : i < j => <<p[j], p[i]>> \notin R
      <3> SUFFICES ASSUME NEW i \in 1 .. (k + 1), NEW j \in 1 .. (k + 1), i < j
                   PROVE  <<p[j], p[i]>> \notin R
        OBVIOUS
      <3>1. i \in 1 .. k /\ p[i] = q[i]
        BY <2>5
      <3>2. CASE j \in 1 .. k
        BY <3>1, <3>2, <2>1, <2>5
      <3>3. CASE j = k + 1
        BY <3>1, <3>3, <2>1, <2>3, <2>5
      <3> QED BY <3>2, <3>3, <2>5
    <2>9. \A i \in 1 .. (k + 1), j \in Left(p, k + 1) : <<j, p[i]>> \notin R
      <3> SUFFICES ASSUME NEW i \in 1 .. (k + 1), NEW j \in Left(p, k + 1)
                   PROVE  <<j, p[i]>> \notin R
        OBVIOUS
      <3> HIDE DEF Left
      <3>1. CASE i \in 1 .. k
        BY <3>1, <2>1, <2>5, <2>6
      <3>2. CASE i = k + 1
        BY <3>2, <2>3, <2>5, <2>6
      <3> QED BY <3>1, <3>2, <2>5
    <2>10. Good(p, k + 1)
      BY <2>7, <2>8, <2>9
    <2>11. k + 1 \in 0 .. n
      OBVIOUS
    <2> HIDE DEF Good
    <2> QED BY <2>4, <2>10, <2>11
  <1> HIDE DEF T
  <1>3. \A i \in 0 .. n : i \in T
    BY <1>1, <1>2, UpTo
  <1>4. n \in T
    BY <1>3
  <1>5. PICK q \in [1 .. n -> 1 .. n] : Good(q, n)
    BY <1>4 DEF T
  <1> QED BY <1>5 DEF IsInjective

(* A sequence that lists a finite set.                                     *)
LEMMA ListsSet ==
  ASSUME NEW S, IsFiniteSet(S)
  PROVE  /\ Cardinality(S) \in Nat
         /\ SetToSeq(S) \in [1 .. Cardinality(S) -> S]
         /\ {SetToSeq(S)[i] : i \in 1 .. Cardinality(S)} = S
         /\ IsInjective(SetToSeq(S))
  <1> DEFINE k == Cardinality(S)
  <1>1. k \in Nat /\ ExistsBijection(1 .. k, S)
    BY FS_CardinalityType
  <1>2. \E f \in [1 .. k -> S] : IsInjective(f)
    BY <1>1 DEF ExistsBijection, Bijection, Injection
  <1>3. SetToSeq(S) \in [1 .. k -> S] /\ IsInjective(SetToSeq(S))
    BY <1>2, Zenon DEF SetToSeq
  <1>4. SetToSeq(S) \in Injection(1 .. k, S)
    BY <1>3 DEF Injection
  <1>5. Cardinality(1 .. k) = k
    BY <1>1, FS_Interval
  <1>6. SetToSeq(S) \in Surjection(1 .. k, S)
    BY <1>4, <1>5, FS_Injection
  <1> QED BY <1>1, <1>3, <1>6 DEF Surjection

(***************************************************************************)
(* Constants and arithmetic.                                               *)
(***************************************************************************)

LEMMA Constants ==
  /\ Threshold \in Nat \ {0} /\ Slot \in Nat \ {0} /\ Aifs \in Nat \ {0} /\ Air \in Nat \ {0}
  /\ QueueDepth \in Nat \ {0} /\ MaxGrants \in Nat \ {0} /\ Window \in Nat \ {0}
  /\ StepPeriod \in Nat \ {0} /\ Horizon \in Nat \ {0} /\ SignTimes \subseteq Nat \ {0}
  /\ Cw \in Nat /\ MaxBurst \in Nat /\ MaxFrames \in Nat /\ Vehicles \subseteq Nodes
  /\ Power \in [Nodes -> [Nodes -> Nat]]
  BY MediumAssumption

(* The slots of a backoff.                                                 *)
LEMMA SlotTimes ==
  /\ \A k \in Nat : k * Slot \in Nat /\ (k = 0 => k * Slot = 0)
  /\ \A j, k \in Nat : j <= k => (k - j) * Slot = k * Slot - j * Slot
  /\ \A j, k \in Nat : j * Slot < k * Slot => j < k
  /\ \A j, k \in Nat : j <= k => j * Slot <= k * Slot
  <1>1. Slot \in Nat \ {0}
    BY Constants
  <1> QED BY <1>1

LEMMA WholeSlots ==
  ASSUME NEW a \in Nat
  PROVE  /\ a \div Slot \in Nat
         /\ (a \div Slot) * Slot <= a
         /\ a < (a \div Slot) * Slot + Slot
  <1>1. Slot \in Nat \ {0}
    BY Constants
  <1> QED BY <1>1

(***************************************************************************)
(* The invariant.                                                          *)
(***************************************************************************)

Backoffs == [armed : BOOLEAN, remaining : Int, drawn : Int, resume : Int, aifs : Int]
MacStates == [queue : Seq(Nat), backoff : Backoffs, busy : BOOLEAN, idleSince : Int]
FrameType == [node : Nodes, ready : 0 .. Horizon]
Grants == [frame : Nat, due : Int, aifs : Int, slots : Int]
OnAirType ==
  [frame : Nat, tx : Nodes, start : Nat, end : Nat, to : SUBSET Nodes,
   due : Int, aifs : Int, slots : Int]

Basic ==
  /\ now \in 0 .. Horizon
  /\ here \subseteq Nodes
  /\ frames \in Seq(FrameType)
  /\ pending \subseteq DOMAIN frames
  /\ mac \in [Nodes -> MacStates]
  /\ air \in Seq(OnAirType)
  /\ timers \in [Nodes -> [0 .. Horizon -> Nat]]

(* Queued frames are the node's own, signed, and in order.                 *)
QueueOK(n, q) ==
  /\ Len(q) <= QueueDepth
  /\ \A i \in DOMAIN q :
        q[i] \in DOMAIN frames /\ frames[q[i]].node = n /\ frames[q[i]].ready <= now
  /\ \A i, j \in DOMAIN q : i < j => Earlier(q[i], q[j])

(* The backoff is that of the first queued frame; it stands still while    *)
(* the medium is busy, and ends no earlier than now.                       *)
BackoffOK(m) ==
  LET b == m.backoff
  IN  /\ b.armed <=> m.queue # <<>>
      /\ b.drawn \in 0 .. Cw /\ b.remaining \in 0 .. b.drawn /\ b.aifs \in 0 .. Aifs
      /\ b.resume \in NoTime .. (now + Air + Aifs)
      /\ m.idleSince \in NoTime .. now
      /\ m.busy => b.resume = NoTime
      /\ ~m.busy /\ b.armed => b.resume \in Nat /\ now <= Due(b)

(* The first queued frame has waited for the slots counted down, and will  *)
(* have waited for its AIFS and all its slots when the backoff ends.       *)
SplitOK(m) ==
  LET b == m.backoff
      ready == frames[m.queue[1]].ready
  IN  b.armed =>
        /\ ready + b.drawn * Slot <= now + b.remaining * Slot
        /\ ~m.busy => ready + b.aifs + b.drawn * Slot <= Due(b)

(* n hears y, by itself loud enough to defer to.                           *)
Hears(n, y) == n \in y.to /\ Power[y.tx][n] >= Threshold

(* Frames signed while a frame is heard wait for its end and an AIFS.      *)
WaitOK(n, m) ==
  \A y \in OnAir, i \in DOMAIN m.queue :
    /\ y.start < frames[m.queue[i]].ready /\ frames[m.queue[i]].ready < y.end
    /\ Hears(n, y)
    => m.busy \/ y.end + Aifs <= m.backoff.resume

MacOK(n, m) ==
  m \in MacStates /\ QueueOK(n, m.queue) /\ BackoffOK(m) /\ SplitOK(m) /\ WaitOK(n, m)

(* A node that counts down has a timer for the end of its backoff.         *)
PollTimer(n, m) ==
  ~m.busy /\ m.backoff.armed /\ Due(m.backoff) <= Horizon => timers[n][Due(m.backoff)] > 0

(* Frames not signed yet have a timer, and come after all that are.        *)
PendingOK ==
  \A f \in pending :
    /\ now <= frames[f].ready
    /\ timers[frames[f].node][frames[f].ready] > 0
    /\ \A i \in DOMAIN mac[frames[f].node].queue : Earlier(mac[frames[f].node].queue[i], f)
    /\ \A x \in OnAir : x.tx = frames[f].node => Earlier(x.frame, f)

(* Each transmission is of a signed frame of its sender, ahead of all that *)
(* is queued there; one that ends after the run reaches nobody.            *)
AirOK ==
  \A x \in OnAir :
    /\ x.frame \in DOMAIN frames /\ frames[x.frame].node = x.tx
    /\ frames[x.frame].ready <= x.start /\ x.start <= now /\ x.end = x.start + Air
    /\ x.tx \notin x.to /\ (x.end > Horizon => x.to = {})
    /\ \A i \in DOMAIN mac[x.tx].queue : Earlier(x.frame, mac[x.tx].queue[i])

(* The properties that are part of the induction.                          *)
Access ==
  OverlapsAreHidden /\ WaitsAfterBusy /\ SentAtItsSlot /\ DelaySplitFits /\ InSignedOrder

IInv ==
  /\ Basic
  /\ \A n \in Nodes : MacOK(n, mac[n]) /\ PollTimer(n, mac[n])
  /\ PendingOK
  /\ AirOK
  /\ Access

(***************************************************************************)
(* The medium.                                                             *)
(***************************************************************************)

LEMMA OnAirFinite ==
  ASSUME Basic
  PROVE  IsFiniteSet(OnAir) /\ OnAir \subseteq OnAirType
  <1>1. air \in [1 .. Len(air) -> OnAirType] /\ Len(air) \in Nat
    BY DEF Basic
  <1>2. OnAir = {air[i] : i \in 1 .. Len(air)}
    BY <1>1 DEF OnAir
  <1>3. air \in Surjection(1 .. Len(air), OnAir)
    BY <1>1, <1>2 DEF Surjection
  <1>4. IsFiniteSet(1 .. Len(air))
    BY <1>1, FS_Interval
  <1> QED BY <1>1, <1>2, <1>3, <1>4, FS_Surjection

PowersAt(n, S) == [x \in S |-> Power[x.tx][n]]

PowerSum(n, A) == MapThenSumSet(LAMBDA x : Power[x.tx][n], A)

(* The powers at a node of some frames, added up.                          *)
LEMMA PowerSumIs ==
  ASSUME NEW n \in Nodes, NEW A, IsFiniteSet(A), A \subseteq OnAirType
  PROVE  /\ PowersAt(n, A) \in [A -> Nat]
         /\ \E h : PowerSum(n, A) = h[A] /\ SumEq(h, A, PowersAt(n, A))
  <1> DEFINE p == [x \in A |-> Power[x.tx][n]]
             Eq(h) == h = [s \in SUBSET A |->
                             IF s = {} THEN 0
                             ELSE Power[Pick(s).tx][n] + h[s \ {Pick(s)}]]
  <1>2. p \in [A -> Nat]
    BY Constants DEF OnAirType
  <1>3. \A h : SumEq(h, A, p) <=> Eq(h)
    <2> SUFFICES ASSUME NEW h PROVE SumEq(h, A, p) <=> Eq(h)
      OBVIOUS
    <2>1. ASSUME NEW s \in SUBSET A, s # {}
          PROVE  p[Pick(s)] = Power[Pick(s).tx][n]
      <3>1. Pick(s) \in s
        BY <2>1 DEF Pick
      <3>2. Pick(s) \in A
        BY <3>1
      <3> QED BY <3>2
    <2> HIDE DEF p
    <2> QED BY <2>1 DEF SumEq
  <1>4. PowerSum(n, A) = (CHOOSE h : Eq(h))[A]
    BY Zenon DEF PowerSum, MapThenSumSet, MapThenFoldSet, Pick
  <1>5. \E h : Eq(h)
    <2> HIDE DEF Eq, p
    <2> QED BY <1>2, <1>3, SumExists
  <1> HIDE DEF Eq
  <1>6. Eq(CHOOSE h : Eq(h))
    BY <1>5, Zenon
  <1>7. PICK h : PowerSum(n, A) = h[A] /\ SumEq(h, A, p)
    <2> HIDE DEF p
    <2> QED BY <1>3, <1>4, <1>6, Zenon
  <1> QED BY <1>2, <1>7 DEF PowersAt

(* More frames have at least the power of fewer.                           *)
LEMMA PowerSumGrows ==
  ASSUME NEW n \in Nodes, NEW B, IsFiniteSet(B), B \subseteq OnAirType, NEW A \in SUBSET B
  PROVE  PowerSum(n, A) \in Nat /\ PowerSum(n, B) \in Nat /\ PowerSum(n, A) <= PowerSum(n, B)
  <1>1. IsFiniteSet(A) /\ A \subseteq OnAirType
    BY FS_Subset
  <1> DEFINE p == PowersAt(n, A)
             q == PowersAt(n, B)
             f == [x \in A |-> x]
  <1>2. p \in [A -> Nat] /\ q \in [B -> Nat]
    BY <1>1, PowerSumIs
  <1>3. PICK h : PowerSum(n, A) = h[A] /\ SumEq(h, A, p)
    BY <1>1, PowerSumIs
  <1>4. PICK g : PowerSum(n, B) = g[B] /\ SumEq(g, B, q)
    BY PowerSumIs
  <1>5. f \in [A -> B] /\ Into(f, A, p, q)
    BY DEF Into, PowersAt
  <1> HIDE DEF p, q, f
  <1>6. h[A] <= g[B]
    BY <1>1, <1>2, <1>3, <1>4, <1>5, SumUnder
  <1>7. h[A] \in Nat /\ g[B] \in Nat
    BY <1>1, <1>2, <1>3, <1>4, SumAtLeast
  <1> QED BY <1>3, <1>4, <1>6, <1>7

(* The energy at a node is the sum of the powers of what it receives.      *)
LEMMA EnergyIs ==
  ASSUME Basic, NEW n \in Nodes, NEW t
  PROVE  LET A == Arrivals(n, t)
         IN  /\ A \subseteq OnAir /\ IsFiniteSet(A) /\ PowersAt(n, A) \in [A -> Nat]
             /\ \E h : Energy(n, t) = h[A] /\ SumEq(h, A, PowersAt(n, A))
  <1> DEFINE A == Arrivals(n, t)
  <1>1. A \subseteq OnAir /\ IsFiniteSet(A) /\ A \subseteq OnAirType
    <2>1. A \in SUBSET OnAir
      BY DEF Arrivals
    <2> QED BY <2>1, OnAirFinite, FS_Subset
  <1>2. Energy(n, t) = PowerSum(n, A)
    BY Zenon DEF Energy, PowerSum, MapThenSumSet, MapThenFoldSet
  <1> HIDE DEF A
  <1> QED BY <1>1, <1>2, PowerSumIs DEF A

(* It is at least that of each frame, and none without one.                *)
LEMMA EnergyAtLeast ==
  ASSUME Basic, NEW n \in Nodes, NEW t
  PROVE  /\ Energy(n, t) \in Nat /\ \A x \in Arrivals(n, t) : Power[x.tx][n] <= Energy(n, t)
         /\ Arrivals(n, t) = {} => Energy(n, t) = 0
  <1> DEFINE A == Arrivals(n, t)
             p == PowersAt(n, A)
  <1>1. IsFiniteSet(A) /\ p \in [A -> Nat]
    BY EnergyIs
  <1>2. PICK h : Energy(n, t) = h[A] /\ SumEq(h, A, p)
    BY EnergyIs
  <1>3. \A x \in A : p[x] = Power[x.tx][n]
    BY DEF PowersAt
  <1> HIDE DEF p, A
  <1>4. h[A] \in Nat /\ \A x \in A : p[x] <= h[A]
    BY <1>1, <1>2, SumAtLeast
  <1>5. A = {} => h[A] = 0
    BY <1>2 DEF SumEq
  <1> QED BY <1>2, <1>3, <1>4, <1>5 DEF A

(* A node that transmits, or hears a frame, finds the medium busy.         *)
LEMMA BusyBy ==
  ASSUME Basic, NEW n \in Nodes, NEW t, NEW x \in OnAir, Covers(x, t),
         x.tx = n \/ Hears(n, x)
  PROVE  Busy(n, t)
  <1>1. CASE x.tx = n
    BY <1>1 DEF Busy, Transmits
  <1>2. CASE Hears(n, x)
    <2>1. x \in Arrivals(n, t)
      BY <1>2 DEF Arrivals, Hears
    <2>2. Power[x.tx][n] <= Energy(n, t) /\ Energy(n, t) \in Nat
      BY <2>1, EnergyAtLeast
    <2>3. Power[x.tx][n] \in Nat /\ Threshold \in Nat
      BY OnAirFinite, Constants DEF OnAirType
    <2> QED BY <1>2, <2>2, <2>3 DEF Busy, Hears
  <1> QED BY <1>1, <1>2

(***************************************************************************)
(* What a timer takes from pending_tx.                                     *)
(***************************************************************************)

LEMMA FrameFacts ==
  ASSUME Basic
  PROVE  /\ Len(frames) \in Nat /\ DOMAIN frames = 1 .. Len(frames)
         /\ \A f \in DOMAIN frames :
               f \in Nat /\ frames[f].node \in Nodes /\ frames[f].ready \in Nat
                 /\ frames[f].ready <= Horizon
  <1>1. Len(frames) \in Nat /\ frames \in [1 .. Len(frames) -> FrameType]
    BY DEF Basic
  <1>2. \A f \in 1 .. Len(frames) : frames[f] \in FrameType
    BY <1>1
  <1> QED BY <1>1, <1>2, Constants DEF FrameType

Signed(n) == {f \in pending : frames[f].node = n /\ frames[f].ready <= now}

LEMMA ReadyFacts ==
  ASSUME Basic, NEW n \in Nodes
  PROVE  /\ Ready(n) \in Seq(Signed(n)) /\ Ready(n) \in Seq(Nat)
         /\ ToSet(Ready(n)) = Signed(n)
         /\ \A i, j \in 1 .. Len(Ready(n)) : i < j => Earlier(Ready(n)[i], Ready(n)[j])
  <1> DEFINE S == Signed(n)
             s == SetToSeq(S)
             k == Cardinality(S)
             Fits(q) == IsInjective(q)
                          /\ \A i, j \in DOMAIN s : i < j => ~Earlier(s[q[j]], s[q[i]])
             p == CHOOSE q \in [DOMAIN s -> DOMAIN s] : Fits(q)
  <1>1. IsFiniteSet(S) /\ S \subseteq DOMAIN frames /\ DOMAIN frames \subseteq Nat
    <2>1. DOMAIN frames = 1 .. Len(frames) /\ Len(frames) \in Nat
      BY DEF Basic
    <2>2. S \in SUBSET (1 .. Len(frames))
      BY <2>1 DEF Signed, Basic
    <2>3. IsFiniteSet(1 .. Len(frames))
      BY <2>1, FS_Interval
    <2> QED BY <2>1, <2>2, <2>3, FS_Subset
  <1>2. /\ k \in Nat /\ s \in [1 .. k -> S] /\ IsInjective(s) /\ DOMAIN s = 1 .. k
        /\ {s[i] : i \in 1 .. k} = S
    <2> HIDE DEF S
    <2> QED BY <1>1, ListsSet
  <1>3. \A f \in S : f \in Nat /\ frames[f].ready \in Int
    BY <1>1, FrameFacts
  <1>4. Ready(n) = [i \in DOMAIN s |-> s[p[i]]]
    BY Zenon DEF Ready, Sorted, Signed
  <1>5. \E q \in [DOMAIN s -> DOMAIN s] : Fits(q)
    <2> DEFINE R == {ij \in (1 .. k) \X (1 .. k) : Earlier(s[ij[1]], s[ij[2]])}
    <2> HIDE DEF S, s, k
    <2>0. \A i, j \in 1 .. k : <<i, j>> \in R <=> Earlier(s[i], s[j])
      OBVIOUS
    <2>1. \A i \in 1 .. k : s[i] \in Nat /\ frames[s[i]].ready \in Int
      BY <1>2, <1>3
    <2> HIDE DEF R
    <2>2. Orders(R, k)
      BY <2>0, <2>1 DEF Orders, Earlier
    <2>3. PICK q \in [1 .. k -> 1 .. k] :
            IsInjective(q) /\ \A i, j \in 1 .. k : i < j => <<q[j], q[i]>> \notin R
      BY <2>2, <1>2, SortingExists
    <2>4. Fits(q)
      BY <2>0, <2>3, <1>2
    <2> QED BY <2>3, <2>4, <1>2
  <1>6. p \in [DOMAIN s -> DOMAIN s] /\ Fits(p)
    <2> HIDE DEF Fits
    <2> QED BY <1>5, Zenon
  <1> HIDE DEF S, s, k, p
  <1>7. p \in [1 .. k -> 1 .. k] /\ IsInjective(p)
        /\ \A i, j \in 1 .. k : i < j => ~Earlier(s[p[j]], s[p[i]])
    BY <1>2, <1>6
  <1>8. \A j \in 1 .. k : \E i \in 1 .. k : p[i] = j
    <2>1. p \in Injection(1 .. k, 1 .. k)
      BY <1>7 DEF Injection
    <2>2. IsFiniteSet(1 .. k)
      BY <1>2, IndexCount
    <2>3. p \in Surjection(1 .. k, 1 .. k)
      BY <2>1, <2>2, FS_Injection
    <2> QED BY <2>3 DEF Surjection
  <1>9. Ready(n) = [i \in 1 .. k |-> s[p[i]]] /\ Ready(n) \in [1 .. k -> S]
    BY <1>2, <1>4, <1>7
  <1>10. Ready(n) \in Seq(S) /\ Len(Ready(n)) = k /\ DOMAIN Ready(n) = 1 .. k
    BY <1>2, <1>9
  <1>11. Ready(n) \in Seq(Nat)
    BY <1>10, <1>1, <1>2, <1>9
  <1>12. ToSet(Ready(n)) = S
    <2>1. \A f \in S : \E i \in 1 .. k : Ready(n)[i] = f
      <3> SUFFICES ASSUME NEW f \in S PROVE \E i \in 1 .. k : Ready(n)[i] = f
        OBVIOUS
      <3>1. PICK j \in 1 .. k : s[j] = f
        BY <1>2
      <3>2. PICK i \in 1 .. k : p[i] = j
        BY <1>8
      <3> QED BY <3>1, <3>2, <1>9
    <2> QED BY <2>1, <1>9, <1>10 DEF ToSet
  <1>13. ASSUME NEW i \in 1 .. k, NEW j \in 1 .. k, i < j
         PROVE  Earlier(Ready(n)[i], Ready(n)[j])
    <2>1. Ready(n)[i] = s[p[i]] /\ Ready(n)[j] = s[p[j]] /\ p[i] \in 1 .. k /\ p[j] \in 1 .. k
      BY <1>9, <1>7
    <2>2. p[i] # p[j]
      BY <1>7, <1>13 DEF IsInjective
    <2>3. s[p[i]] # s[p[j]]
      BY <1>2, <2>1, <2>2 DEF IsInjective
    <2>4. ~Earlier(s[p[j]], s[p[i]])
      BY <1>7, <1>13
    <2>5. /\ s[p[i]] \in Nat /\ frames[s[p[i]]].ready \in Int
          /\ s[p[j]] \in Nat /\ frames[s[p[j]]].ready \in Int
      BY <1>2, <1>3, <2>1
    <2> QED BY <2>1, <2>3, <2>4, <2>5 DEF Earlier
  <1> QED BY <1>10, <1>11, <1>12, <1>13 DEF S

(***************************************************************************)
(* The steps of a timer, one by one: the sample of the medium.             *)
(***************************************************************************)

LEMMA BackoffFields ==
  ASSUME NEW m \in MacStates
  PROVE  /\ m.queue \in Seq(Nat) /\ Len(m.queue) \in Nat /\ m.busy \in BOOLEAN
         /\ m.idleSince \in Int /\ m.backoff \in Backoffs
         /\ m.backoff.armed \in BOOLEAN /\ m.backoff.remaining \in Int
         /\ m.backoff.drawn \in Int /\ m.backoff.resume \in Int /\ m.backoff.aifs \in Int
         /\ DOMAIN m.queue = 1 .. Len(m.queue)
         /\ m.queue # <<>> <=> Len(m.queue) >= 1
  <1>1. m.queue \in Seq(Nat) /\ m.backoff \in Backoffs
    BY DEF MacStates
  <1>2. m.queue # <<>> <=> Len(m.queue) >= 1
    BY <1>1, EmptySeq
  <1> QED BY <1>1, <1>2 DEF MacStates, Backoffs

Resumed(m, busy, since, x) ==
  [m EXCEPT !.busy = busy, !.idleSince = since, !.backoff.resume = x]

LEMMA Updated ==
  ASSUME NEW m \in MacStates, NEW busy \in BOOLEAN, NEW since \in Int, NEW x \in Int,
         NEW o, o = Resumed(m, busy, since, x)
  PROVE  /\ o \in MacStates /\ o.queue = m.queue /\ o.busy = busy /\ o.idleSince = since
         /\ o.backoff.armed = m.backoff.armed
         /\ o.backoff.remaining = m.backoff.remaining
         /\ o.backoff.drawn = m.backoff.drawn /\ o.backoff.aifs = m.backoff.aifs
         /\ o.backoff.resume = x
  <1> DEFINE b == m.backoff
             c == [b EXCEPT !.resume = x]
             r == [m EXCEPT !.busy = busy, !.idleSince = since, !.backoff = c]
  <1>1. b \in Backoffs
    BY DEF MacStates
  <1>2. /\ c \in Backoffs /\ c.armed = b.armed /\ c.remaining = b.remaining
        /\ c.drawn = b.drawn /\ c.aifs = b.aifs /\ c.resume = x
    <2> HIDE DEF b
    <2> QED BY <1>1 DEF Backoffs
  <1>3. r.queue = m.queue /\ r.busy = busy /\ r.idleSince = since /\ r.backoff = c
    <2> HIDE DEF c
    <2> QED BY <1>2 DEF MacStates
  <1>4. r \in MacStates
    <2> HIDE DEF c
    <2> QED BY <1>2, Zenon DEF MacStates
  <1>5. o = r
    BY Zenon DEF Resumed
  <1> HIDE DEF r, c
  <1> QED BY <1>2, <1>3, <1>4, <1>5, Zenon

LEMMA OnCcaFacts ==
  ASSUME NEW m \in MacStates, NEW busy \in BOOLEAN, now \in Nat, Aifs \in Nat
  PROVE  /\ OnCca(m, busy) \in MacStates
         /\ OnCca(m, busy).queue = m.queue /\ OnCca(m, busy).busy = busy
         /\ OnCca(m, busy).backoff.armed = m.backoff.armed
         /\ OnCca(m, busy).backoff.remaining = m.backoff.remaining
         /\ OnCca(m, busy).backoff.drawn = m.backoff.drawn
         /\ OnCca(m, busy).backoff.aifs = m.backoff.aifs
         /\ (busy <=> m.busy) => OnCca(m, busy).backoff.resume = m.backoff.resume
         /\ busy /\ ~m.busy => OnCca(m, busy).backoff.resume = NoTime
         /\ ~busy /\ m.busy => OnCca(m, busy).backoff.resume =
                                   IF m.backoff.armed THEN now + Aifs ELSE NoTime
         /\ OnCca(m, busy).idleSince \in {m.idleSince, now, NoTime}
  <1> DEFINE o == OnCca(m, busy)
  <1>1. m.busy \in BOOLEAN /\ NoTime \in Int /\ now \in Int /\ TRUE \in BOOLEAN /\ FALSE \in BOOLEAN
    BY DEF MacStates, NoTime
  <1>2. CASE busy /\ ~m.busy
    <2>1. o = [m EXCEPT !.busy = TRUE, !.idleSince = NoTime, !.backoff.resume = NoTime]
      BY <1>2 DEF OnCca
    <2> HIDE DEF o
    <2>3. busy = TRUE /\ m.busy = FALSE
      BY <1>1, <1>2
    <2>4. o = Resumed(m, busy, NoTime, NoTime)
      BY <2>1, <2>3, Zenon DEF Resumed
    <2>2. /\ o \in MacStates /\ o.queue = m.queue /\ o.busy = busy /\ o.idleSince = NoTime
          /\ o.backoff.armed = m.backoff.armed
          /\ o.backoff.remaining = m.backoff.remaining
          /\ o.backoff.drawn = m.backoff.drawn /\ o.backoff.aifs = m.backoff.aifs
          /\ o.backoff.resume = NoTime
      BY <2>4, <1>1, Updated
    <2> QED BY <2>2, <2>3, Zenon DEF o
  <1>3. CASE ~busy /\ m.busy
    <2> DEFINE x == IF m.backoff.armed THEN now + Aifs ELSE NoTime
    <2>1. o = [m EXCEPT !.busy = FALSE, !.idleSince = now, !.backoff.resume = x]
      BY <1>3 DEF OnCca
    <2>0. x \in Int
      BY <1>1
    <2> HIDE DEF o, x
    <2>3. busy = FALSE /\ m.busy = TRUE
      BY <1>1, <1>3
    <2>4. o = Resumed(m, busy, now, x)
      BY <2>1, <2>3, Zenon DEF Resumed
    <2>2. /\ o \in MacStates /\ o.queue = m.queue /\ o.busy = busy /\ o.idleSince = now
          /\ o.backoff.armed = m.backoff.armed
          /\ o.backoff.remaining = m.backoff.remaining
          /\ o.backoff.drawn = m.backoff.drawn /\ o.backoff.aifs = m.backoff.aifs
          /\ o.backoff.resume = x
      BY <2>0, <2>4, <1>1, Updated
    <2> QED BY <2>2, <2>3, Zenon DEF o, x
  <1>4. CASE ~busy /\ ~m.busy /\ m.idleSince = NoTime
    <2>1. o = [m EXCEPT !.idleSince = now]
      BY <1>4 DEF OnCca
    <2>2. o \in MacStates
      BY <2>1, <1>1, Zenon DEF MacStates
    <2>3. o.queue = m.queue /\ o.busy = m.busy /\ o.backoff = m.backoff /\ o.idleSince = now
      BY <2>1 DEF MacStates
    <2>4. busy = m.busy
      BY <1>1, <1>4
    <2> QED BY <2>2, <2>3, <2>4, <1>4, Zenon
  <1>5. CASE (busy /\ m.busy) \/ (~busy /\ ~m.busy /\ m.idleSince # NoTime)
    <2>1. o = m
      BY <1>5 DEF OnCca
    <2>2. busy = m.busy
      BY <1>1, <1>5
    <2> QED BY <1>5, <2>1, <2>2, Zenon
  <1> QED BY <1>1, <1>2, <1>3, <1>4, <1>5

LEMMA Numbers ==
  ASSUME Basic
  PROVE  /\ now \in Nat /\ now <= Horizon /\ Aifs \in Nat /\ Air \in Nat /\ Slot \in Nat
         /\ Cw \in Nat /\ Horizon \in Nat /\ NoTime = -1 /\ Aifs >= 1 /\ Air >= 1
  BY Constants DEF Basic, NoTime

LEMMA HeardIsOver ==
  ASSUME Basic, AirOK, NEW n \in Nodes, ~Busy(n, now), NEW y \in OnAir, y.tx = n \/ Hears(n, y)
  PROVE  y.end \in Nat /\ y.end <= now
  <1>1. y \in OnAirType
    BY OnAirFinite
  <1>2. ~Covers(y, now)
    BY BusyBy
  <1> QED BY <1>1, <1>2, Numbers DEF AirOK, Covers, OnAirType

LEMMA OnCcaOK ==
  ASSUME Basic, AirOK, NEW n \in Nodes, NEW m, MacOK(n, m)
  PROVE  MacOK(n, OnCca(m, Busy(n, now)))
  <1> DEFINE busy == Busy(n, now)
             r == OnCca(m, busy)
  <1>1. m \in MacStates /\ busy \in BOOLEAN
    BY DEF MacOK, Busy, Transmits
  <1>2. /\ r \in MacStates
        /\ r.queue = m.queue /\ r.busy = busy
        /\ r.backoff.armed = m.backoff.armed /\ r.backoff.remaining = m.backoff.remaining
        /\ r.backoff.drawn = m.backoff.drawn /\ r.backoff.aifs = m.backoff.aifs
        /\ (busy <=> m.busy) => r.backoff.resume = m.backoff.resume
        /\ busy /\ ~m.busy => r.backoff.resume = NoTime
        /\ ~busy /\ m.busy => r.backoff.resume = IF m.backoff.armed THEN now + Aifs ELSE NoTime
        /\ r.idleSince \in {m.idleSince, now, NoTime}
    <2> HIDE DEF busy
    <2> QED BY <1>1, Numbers, OnCcaFacts
  <1> HIDE DEF busy, r
  <1>3. QueueOK(n, r.queue)
    BY <1>2 DEF MacOK
  <1>4. BackoffOK(m)
    BY DEF MacOK
  <1>5. /\ m.backoff.remaining \in Nat /\ m.backoff.drawn \in Nat
        /\ m.backoff.remaining * Slot \in Nat /\ m.backoff.drawn * Slot \in Nat
        /\ m.backoff.aifs \in Nat /\ m.backoff.aifs <= Aifs /\ m.busy \in BOOLEAN
        /\ m.backoff.armed \in BOOLEAN /\ m.backoff.resume \in Int /\ m.idleSince \in Int
    <2>1. m.backoff.remaining \in Nat /\ m.backoff.drawn \in Nat
          /\ m.backoff.aifs \in Nat /\ m.backoff.aifs <= Aifs
      BY <1>4, Numbers, SMTT(60) DEF BackoffOK
    <2>2. m.backoff.remaining * Slot \in Nat /\ m.backoff.drawn * Slot \in Nat
      BY <2>1, SlotTimes
    <2> QED BY <1>1, <2>1, <2>2, BackoffFields
  <1>6. BackoffOK(r)
    <2>1. /\ r.backoff.armed <=> r.queue # <<>>
          /\ r.backoff.drawn \in 0 .. Cw /\ r.backoff.remaining \in 0 .. r.backoff.drawn
          /\ r.backoff.aifs \in 0 .. Aifs
      BY <1>2, <1>4 DEF BackoffOK
    <2>2. r.idleSince \in NoTime .. now
      BY <1>2, <1>4, Numbers, SMTT(60) DEF BackoffOK
    <2>3. CASE busy <=> m.busy
      <3>1. r.backoff.resume = m.backoff.resume /\ (r.busy <=> m.busy)
        BY <1>2, <2>3
      <3> QED BY <1>2, <1>4, <2>1, <2>2, <3>1 DEF BackoffOK, Due
    <2>4. CASE busy /\ ~m.busy
      <3>1. r.backoff.resume = NoTime /\ r.busy
        BY <1>2, <2>4
      <3> QED BY <2>1, <2>2, <3>1, Numbers DEF BackoffOK
    <2>5. CASE ~busy /\ m.busy
      <3>1. r.backoff.resume = (IF m.backoff.armed THEN now + Aifs ELSE NoTime) /\ ~r.busy
        BY <1>2, <2>5
      <3>2. r.backoff.resume \in NoTime .. (now + Air + Aifs)
        BY <3>1, Numbers
      <3>3. r.backoff.armed => r.backoff.resume \in Nat /\ now <= Due(r.backoff)
        BY <1>2, <1>5, <3>1, Numbers DEF Due
      <3> QED BY <2>1, <2>2, <3>1, <3>2, <3>3 DEF BackoffOK
    <2> QED BY <1>1, <1>5, <2>3, <2>4, <2>5
  <1>7. SplitOK(r)
    <2> SUFFICES ASSUME r.backoff.armed PROVE
                   /\ frames[r.queue[1]].ready + r.backoff.drawn * Slot <= now + r.backoff.remaining * Slot
                   /\ ~r.busy => frames[r.queue[1]].ready + r.backoff.aifs + r.backoff.drawn * Slot <= Due(r.backoff)
      BY DEF SplitOK
    <2>1. 1 \in DOMAIN m.queue
      BY <1>1, <1>2, <1>4, BackoffFields DEF BackoffOK
    <2>2. frames[m.queue[1]].ready \in Nat
      BY <2>1, FrameFacts DEF MacOK, QueueOK
    <2>3. /\ frames[m.queue[1]].ready + m.backoff.drawn * Slot <= now + m.backoff.remaining * Slot
          /\ ~m.busy => frames[m.queue[1]].ready + m.backoff.aifs + m.backoff.drawn * Slot <= Due(m.backoff)
      BY <1>2 DEF MacOK, SplitOK
    <2> QED BY <1>2, <1>5, <2>2, <2>3, Numbers DEF Due
  <1>8. WaitOK(n, r)
    <2> SUFFICES ASSUME NEW y \in OnAir, NEW i \in DOMAIN m.queue, ~r.busy,
                        y.start < frames[m.queue[i]].ready, frames[m.queue[i]].ready < y.end,
                        Hears(n, y)
                 PROVE  y.end + Aifs <= r.backoff.resume
      BY <1>2 DEF WaitOK
    <2>1. m.busy \/ y.end + Aifs <= m.backoff.resume
      BY DEF MacOK, WaitOK
    <2>2. y.end \in Nat /\ y.end <= now
      BY <1>2, HeardIsOver DEF busy
    <2>3. m.backoff.armed
      BY <1>1, <1>4, BackoffFields DEF BackoffOK
    <2> QED BY <1>2, <1>5, <2>1, <2>2, <2>3, Numbers
  <1> QED BY <1>2, <1>3, <1>6, <1>7, <1>8 DEF MacOK, r, busy

(***************************************************************************)
(* The steps of a timer: a signed frame is queued.                         *)
(***************************************************************************)

LEMMA AtOnceFacts ==
  ASSUME Basic
  PROVE  /\ AtOnce \in Backoffs /\ AtOnce.armed = TRUE /\ AtOnce.remaining = 0
         /\ AtOnce.drawn = 0 /\ AtOnce.resume = now /\ AtOnce.aifs = 0
  BY Numbers DEF AtOnce, Backoffs

LEMMA ContendFacts ==
  ASSUME Basic, NEW m \in MacStates, NEW slots \in Int
  PROVE  LET c == Contend(m, slots)
             r == IF Since(m) >= now - Aifs THEN Since(m) + Aifs ELSE now
         IN  /\ c \in Backoffs /\ c.armed = TRUE /\ c.remaining = slots /\ c.drawn = slots
             /\ c.resume = IF m.busy THEN NoTime ELSE r
             /\ c.aifs = IF m.busy THEN Aifs ELSE r - now
             /\ Since(m) \in Int
  <1>1. Since(m) \in Int /\ now - Aifs \in Int /\ m.busy \in BOOLEAN
    BY Numbers, BackoffFields DEF Since
  <1>2. Max({Since(m), now - Aifs}) =
          IF Since(m) >= now - Aifs THEN Since(m) ELSE now - Aifs
    BY <1>1, MaxOfTwo
  <1> DEFINE r == IF Since(m) >= now - Aifs THEN Since(m) + Aifs ELSE now
             x == IF m.busy THEN NoTime ELSE r
             y == IF m.busy THEN Aifs ELSE r - now
  <1>3. r = Max({Since(m), now - Aifs}) + Aifs
    BY <1>1, <1>2, Numbers
  <1>4. Contend(m, slots) =
          [armed |-> TRUE, remaining |-> slots, drawn |-> slots, resume |-> x, aifs |-> y]
    BY <1>3 DEF Contend
  <1>5. x \in Int /\ y \in Int
    BY <1>1, Numbers
  <1> HIDE DEF r, x, y
  <1>6. Contend(m, slots) \in Backoffs
    BY <1>4, <1>5 DEF Backoffs
  <1> QED BY <1>1, <1>4, <1>6 DEF r, x, y

LEMMA EnqueueFacts ==
  ASSUME Basic, NEW m \in MacStates, NEW f \in Nat, NEW slots \in Int
  PROVE  LET e == Enqueue(m, f, slots)
         IN  /\ e \in MacStates /\ e.busy = m.busy /\ e.idleSince = m.idleSince
             /\ \/ e = m
                \/ /\ Len(m.queue) < QueueDepth /\ e.queue = Append(m.queue, f)
                   /\ e.backoff = IF m.backoff.armed THEN m.backoff
                                  ELSE IF AifsMet(m) THEN AtOnce ELSE Contend(m, slots)
  <1> DEFINE b == IF m.backoff.armed THEN m.backoff
                  ELSE IF AifsMet(m) THEN AtOnce ELSE Contend(m, slots)
             q == Append(m.queue, f)
             e == Enqueue(m, f, slots)
  <1>1. CASE Len(m.queue) >= QueueDepth
    <2>1. e = m
      BY <1>1 DEF Enqueue
    <2> QED BY <2>1
  <1>2. CASE ~(Len(m.queue) >= QueueDepth)
    <2>1. e = [m EXCEPT !.queue = q, !.backoff = b]
      BY <1>2 DEF Enqueue
    <2>2. b \in Backoffs
      BY AtOnceFacts, ContendFacts, BackoffFields
    <2>3. q \in Seq(Nat)
      BY BackoffFields
    <2> HIDE DEF b, q, e
    <2>4. e \in MacStates
      BY <2>1, <2>2, <2>3, Zenon DEF MacStates
    <2>5. e.busy = m.busy /\ e.idleSince = m.idleSince /\ e.queue = q /\ e.backoff = b
      BY <2>1 DEF MacStates
    <2>6. Len(m.queue) < QueueDepth
      BY <1>2, Constants, BackoffFields
    <2> QED BY <2>4, <2>5, <2>6, Zenon DEF e, b, q
  <1> QED BY <1>1, <1>2

LEMMA EnqueueOK ==
  ASSUME Basic, AirOK, NEW n \in Nodes, NEW m, MacOK(n, m), m.busy <=> Busy(n, now),
         NEW f \in DOMAIN frames, frames[f].node = n, frames[f].ready = now,
         NEW slots \in 0 .. Cw, \A i \in DOMAIN m.queue : Earlier(m.queue[i], f)
  PROVE  MacOK(n, Enqueue(m, f, slots))
  <1> DEFINE e == Enqueue(m, f, slots)
             b == m.backoff
             q == m.queue
  <1>1. /\ m \in MacStates /\ f \in Nat /\ slots \in Int /\ slots \in Nat /\ slots <= Cw
        /\ frames[f].ready \in Nat
    BY FrameFacts, Numbers DEF MacOK
  <1>2. /\ e \in MacStates /\ e.busy = m.busy /\ e.idleSince = m.idleSince
        /\ \/ e = m
           \/ /\ Len(q) < QueueDepth /\ e.queue = Append(q, f)
              /\ e.backoff = IF b.armed THEN b
                             ELSE IF AifsMet(m) THEN AtOnce ELSE Contend(m, slots)
    BY <1>1, EnqueueFacts
  <1>3. CASE e = m
    BY <1>3
  <1>4. CASE /\ Len(q) < QueueDepth /\ e.queue = Append(q, f)
             /\ e.backoff = IF b.armed THEN b
                            ELSE IF AifsMet(m) THEN AtOnce ELSE Contend(m, slots)
    <2> SUFFICES MacOK(n, e)
      OBVIOUS
    <2> HIDE DEF e
    <2>0. q \in Seq(Nat) /\ Len(q) \in Nat /\ DOMAIN q = 1 .. Len(q) /\ e.queue \in Seq(Nat)
          /\ m.busy \in BOOLEAN /\ b.armed \in BOOLEAN
      BY <1>1, <1>2, BackoffFields
    <2>1. /\ Len(e.queue) = Len(q) + 1 /\ DOMAIN e.queue = 1 .. (Len(q) + 1)
          /\ \A i \in 1 .. Len(q) : e.queue[i] = q[i]
          /\ e.queue[Len(q) + 1] = f
          /\ \A i \in DOMAIN e.queue : i \in DOMAIN q \/ i = Len(q) + 1
      BY <1>1, <1>4, <2>0
    <2>2. QueueOK(n, e.queue)
      <3>1. QueueOK(n, q)
        BY DEF MacOK
      <3>2. Len(e.queue) <= QueueDepth
        BY <1>4, <2>0, <2>1, Constants
      <3>3. \A i \in DOMAIN e.queue :
              e.queue[i] \in DOMAIN frames /\ frames[e.queue[i]].node = n
                /\ frames[e.queue[i]].ready <= now
        <4> SUFFICES ASSUME NEW i \in DOMAIN e.queue
                     PROVE  e.queue[i] \in DOMAIN frames /\ frames[e.queue[i]].node = n
                              /\ frames[e.queue[i]].ready <= now
          OBVIOUS
        <4>1. CASE i \in DOMAIN q
          BY <2>0, <2>1, <3>1, <4>1 DEF QueueOK
        <4>2. CASE i = Len(q) + 1
          BY <2>1, <4>2, Numbers
        <4> QED BY <2>1, <4>1, <4>2
      <3>4. ASSUME NEW i \in DOMAIN e.queue, NEW j \in DOMAIN e.queue, i < j
            PROVE  Earlier(e.queue[i], e.queue[j])
        <4>0. i \in 1 .. (Len(q) + 1) /\ j \in 1 .. (Len(q) + 1)
          BY <2>1
        <4>1. i \in DOMAIN q /\ e.queue[i] = q[i]
          <5>1. i \in 1 .. Len(q)
            BY <2>0, <3>4, <4>0
          <5> QED BY <2>0, <2>1, <5>1
        <4>2. CASE j \in DOMAIN q
          BY <2>0, <2>1, <3>1, <3>4, <4>1, <4>2 DEF QueueOK
        <4>3. CASE j = Len(q) + 1
          BY <2>1, <4>1, <4>3
        <4> QED BY <2>1, <4>2, <4>3
      <3> QED BY <3>2, <3>3, <3>4 DEF QueueOK
    <2>3. BackoffOK(m)
      BY DEF MacOK
    <2>4. e.queue # <<>>
      BY <2>0, <2>1, EmptySeq
    <2>5. CASE b.armed
      <3>1. e.backoff = b
        BY <1>4, <2>5
      <3>2. q # <<>> /\ 1 \in DOMAIN q /\ e.queue[1] = q[1]
        BY <1>1, <2>0, <2>1, <2>3, <2>5, BackoffFields DEF BackoffOK
      <3>3. BackoffOK(e)
        BY <1>2, <2>3, <2>4, <2>5, <3>1 DEF BackoffOK
      <3>4. SplitOK(e)
        BY <1>2, <3>1, <3>2 DEF MacOK, SplitOK
      <3>5. WaitOK(n, e)
        <4> SUFFICES ASSUME NEW y \in OnAir, NEW i \in DOMAIN e.queue, ~m.busy,
                            y.start < frames[e.queue[i]].ready,
                            frames[e.queue[i]].ready < y.end, Hears(n, y)
                     PROVE  y.end + Aifs <= b.resume
          BY <1>2, <3>1 DEF WaitOK
        <4>1. CASE i \in DOMAIN q
          BY <2>0, <2>1, <4>1 DEF MacOK, WaitOK
        <4>2. CASE i = Len(q) + 1
          <5>1. y.end \in Nat /\ y.end <= now
            BY HeardIsOver
          <5> QED BY <2>1, <4>2, <5>1, Numbers, SMTT(60)
        <4> QED BY <2>1, <4>1, <4>2
      <3> QED BY <1>2, <2>2, <3>3, <3>4, <3>5 DEF MacOK
    <2>6. CASE ~b.armed
      <3>1. q = <<>> /\ Len(q) = 0
        BY <1>1, <2>0, <2>3, <2>6, BackoffFields DEF BackoffOK
      <3>2. e.queue[1] = f /\ DOMAIN e.queue = 1 .. 1
        BY <2>1, <3>1
      <3>3. WaitOK(n, e)
        <4> SUFFICES ASSUME NEW y \in OnAir, NEW i \in DOMAIN e.queue, ~m.busy,
                            y.start < frames[e.queue[i]].ready,
                            frames[e.queue[i]].ready < y.end, Hears(n, y)
                     PROVE  FALSE
          BY <1>2 DEF WaitOK
        <4>1. y.end \in Nat /\ y.end <= now
          BY HeardIsOver
        <4> QED BY <3>2, <4>1, Numbers
      <3>4. slots * Slot \in Nat /\ 0 * Slot = 0
        BY <1>1, SlotTimes
      <3>5. m.idleSince \in Int /\ m.idleSince <= now /\ Since(m) \in Int
            /\ Since(m) <= now /\ Since(m) >= 0
        BY <1>1, <2>3, Numbers DEF BackoffOK, Since
      <3>6. CASE AifsMet(m)
        <4>1. e.backoff = AtOnce /\ ~m.busy
          BY <1>4, <2>6, <3>6 DEF AifsMet
        <4>2. BackoffOK(e)
          <5>1. /\ e.backoff.armed = TRUE /\ e.backoff.remaining = 0 /\ e.backoff.drawn = 0
                /\ e.backoff.resume = now /\ e.backoff.aifs = 0
            BY <4>1, AtOnceFacts
          <5>2. now <= Due(e.backoff) /\ e.backoff.resume \in Nat
            BY <3>4, <5>1, Numbers DEF Due
          <5>3. /\ e.backoff.resume \in NoTime .. (now + Air + Aifs)
                /\ e.backoff.aifs \in 0 .. Aifs /\ e.backoff.drawn \in 0 .. Cw
                /\ e.backoff.remaining \in 0 .. e.backoff.drawn
            BY <5>1, Numbers
          <5>4. ~e.busy /\ e.idleSince \in NoTime .. now
            BY <1>2, <2>3, <4>1 DEF BackoffOK
          <5> QED BY <2>4, <5>1, <5>2, <5>3, <5>4 DEF BackoffOK
        <4>3. SplitOK(e)
          BY <1>2, <3>2, <3>4, <4>1, Numbers, AtOnceFacts DEF SplitOK, Due
        <4> QED BY <1>2, <2>2, <3>3, <4>2, <4>3 DEF MacOK
      <3>7. CASE ~AifsMet(m)
        <4> DEFINE r == IF Since(m) >= now - Aifs THEN Since(m) + Aifs ELSE now
        <4>1. /\ e.backoff.armed = TRUE /\ e.backoff.remaining = slots /\ e.backoff.drawn = slots
              /\ e.backoff.resume = IF m.busy THEN NoTime ELSE r
              /\ e.backoff.aifs = IF m.busy THEN Aifs ELSE r - now
          <5>1. e.backoff = Contend(m, slots)
            BY <1>4, <2>6, <3>7
          <5> DEFINE c == Contend(m, slots)
          <5>2. /\ c.armed = TRUE /\ c.remaining = slots /\ c.drawn = slots
                /\ c.resume = IF m.busy THEN NoTime ELSE r
                /\ c.aifs = IF m.busy THEN Aifs ELSE r - now
            BY <1>1, ContendFacts, Zenon
          <5> QED BY <5>1, <5>2, Zenon
        <4>2. ~m.busy => r \in Nat /\ now <= r /\ r <= now + Aifs
          BY <3>5, <3>7, Numbers DEF AifsMet
        <4> HIDE DEF r
        <4>3. BackoffOK(e)
          <5>1. e.backoff.drawn \in 0 .. Cw /\ e.backoff.remaining \in 0 .. e.backoff.drawn
            BY <1>1, <4>1
          <5>2. CASE m.busy
            <6>1. e.backoff.resume = NoTime /\ e.backoff.aifs = Aifs /\ e.busy
              BY <1>2, <4>1, <5>2
            <6> QED BY <1>2, <2>3, <2>4, <4>1, <5>1, <6>1, Numbers DEF BackoffOK
          <5>3. CASE ~m.busy
            <6>1. e.backoff.resume = r /\ e.backoff.aifs = r - now /\ ~e.busy
              BY <1>2, <4>1, <5>3
            <6>2. now <= Due(e.backoff) /\ r \in Nat /\ r <= now + Aifs
              BY <3>4, <4>1, <4>2, <5>3, <6>1, Numbers DEF Due
            <6>3. e.backoff.aifs \in 0 .. Aifs /\ e.backoff.resume \in NoTime .. (now + Air + Aifs)
              BY <4>2, <5>3, <6>1, Numbers
            <6> QED BY <1>2, <2>3, <2>4, <4>1, <5>1, <6>1, <6>2, <6>3 DEF BackoffOK
          <5> QED BY <5>2, <5>3
        <4>4. SplitOK(e)
          <5>1. frames[e.queue[1]].ready = now
            BY <3>2
          <5>2. CASE m.busy
            BY <1>2, <3>4, <4>1, <5>1, <5>2, Numbers DEF SplitOK
          <5>3. CASE ~m.busy
            <6>1. e.backoff.resume = r /\ e.backoff.aifs = r - now
              BY <4>1, <5>3
            <6> QED BY <3>4, <4>1, <4>2, <5>1, <5>3, <6>1, Numbers DEF SplitOK, Due
          <5> QED BY <5>2, <5>3
        <4> QED BY <1>2, <2>2, <3>3, <4>3, <4>4 DEF MacOK
      <3> QED BY <3>6, <3>7
    <2> QED BY <2>5, <2>6
  <1> QED BY <1>2, <1>3, <1>4 DEF e

(***************************************************************************)
(* The loop over the signed frames.                                        *)
(***************************************************************************)

EnqueueAll(m0, s, draw) == FoldLeft(LAMBDA m, f : Enqueue(m, f, draw[f]), m0, s)

Queues(g, m0, s, draw) ==
  /\ g[0] = m0 /\ g[Len(s)] = EnqueueAll(m0, s, draw)
  /\ \A i \in 1 .. Len(s) : g[i] = Enqueue(g[i - 1], s[i], draw[s[i]])

LEMMA QueueLoop ==
  ASSUME Basic, NEW s \in Seq(Nat), NEW draw, \A i \in 1 .. Len(s) : draw[s[i]] \in Int,
         NEW m0 \in MacStates
  PROVE  \E g \in [0 .. Len(s) -> MacStates] : Queues(g, m0, s, draw)
  <1> DEFINE k == Len(s)
             step == [i \in 1 .. k |-> [m \in MacStates |-> Enqueue(m, s[i], draw[s[i]])]]
             Eq(h) == h = [t \in SUBSET DOMAIN s |->
                             IF t = {} THEN m0
                             ELSE Enqueue(h[t \ {Max(t)}], s[Max(t)], draw[s[Max(t)]])]
  <1>1. k \in Nat /\ DOMAIN s = 1 .. k /\ \A i \in 1 .. k : s[i] \in Nat
    OBVIOUS
  <1>2. \A i \in 1 .. k, m \in MacStates : Enqueue(m, s[i], draw[s[i]]) \in MacStates
    <2> HIDE DEF k
    <2> SUFFICES ASSUME NEW i \in 1 .. k, NEW m \in MacStates
                 PROVE  Enqueue(m, s[i], draw[s[i]]) \in MacStates
      OBVIOUS
    <2>1. s[i] \in Nat /\ draw[s[i]] \in Int
      BY <1>1 DEF k
    <2> QED BY <2>1, EnqueueFacts
  <1>3. step \in [1 .. k -> [MacStates -> MacStates]]
    BY <1>2
  <1>4. \A t \in SUBSET (1 .. k) : t # {} => Max(t) \in t /\ Max(t) \in 1 .. k
    <2> SUFFICES ASSUME NEW t \in SUBSET (1 .. k), t # {} PROVE Max(t) \in t
      OBVIOUS
    <2>1. t \subseteq 0 .. k
      BY <1>1
    <2> QED BY <1>1, <2>1, MaxIsGreatest
  <1>5. EnqueueAll(m0, s, draw) = (CHOOSE h : Eq(h))[DOMAIN s]
    BY Zenon DEF EnqueueAll, FoldLeft, MapThenFoldSet
  <1>6. \E h : Eq(h)
    <2> HIDE DEF step, k
    <2>1. PICK h \in [SUBSET (1 .. k) -> MacStates] : LoopEq(h, k, m0, step)
      BY <1>1, <1>3, LoopExists
    <2>2. ASSUME NEW t \in SUBSET (1 .. k), t # {}
          PROVE  step[Max(t)][h[t \ {Max(t)}]] =
                   Enqueue(h[t \ {Max(t)}], s[Max(t)], draw[s[Max(t)]])
      <3>1. t \ {Max(t)} \in SUBSET (1 .. k) /\ Max(t) \in 1 .. k
        BY <1>4, <2>2
      <3>2. h[t \ {Max(t)}] \in MacStates
        BY <2>1, <3>1
      <3> QED BY <3>1, <3>2 DEF step
    <2>3. Eq(h)
      BY <1>1, <2>1, <2>2 DEF LoopEq
    <2> QED BY <2>3
  <1>7. Eq(CHOOSE h : Eq(h))
    <2> HIDE DEF Eq
    <2> QED BY <1>6, Zenon
  <1>8. PICK h : h = (CHOOSE g : Eq(g))
    OBVIOUS
  <1>9. Eq(h) /\ EnqueueAll(m0, s, draw) = h[1 .. k]
    BY <1>1, <1>5, <1>7, <1>8, ZenonT(60)
  <1>10. /\ h[{}] = m0
         /\ \A t \in SUBSET (1 .. k) : t # {} =>
              h[t] = Enqueue(h[t \ {Max(t)}], s[Max(t)], draw[s[Max(t)]])
         /\ h = [t \in SUBSET (1 .. k) |-> h[t]]
    BY <1>1, <1>9
  <1> HIDE DEF Eq, k, step
  <1>11. \A t \in SUBSET (1 .. k) : h[t] \in MacStates
    <2> DEFINE G == {t \in SUBSET (1 .. k) : h[t] \in MacStates}
    <2>1. {} \in G
      BY <1>10
    <2>2. ASSUME NEW t \in SUBSET (1 .. k), t # {}, \A x \in t : t \ {x} \in G PROVE t \in G
      <3>1. Max(t) \in t /\ Max(t) \in 1 .. k
        BY <1>4, <2>2
      <3>2. h[t \ {Max(t)}] \in MacStates
        BY <2>2, <3>1
      <3> QED BY <1>2, <1>10, <2>2, <3>1, <3>2, ZenonT(60)
    <2>3. IsFiniteSet(1 .. k)
      BY <1>1, IndexCount
    <2> HIDE DEF G
    <2>4. \A t \in SUBSET (1 .. k) : t \in G
      BY <2>1, <2>2, <2>3, SubsetInduction
    <2> QED BY <2>4 DEF G
  <1>12. LoopEq(h, k, m0, step)
    <2>1. ASSUME NEW t \in SUBSET (1 .. k), t # {}
          PROVE  step[Max(t)][h[t \ {Max(t)}]] = h[t]
      <3>1. t \ {Max(t)} \in SUBSET (1 .. k) /\ Max(t) \in 1 .. k
        BY <1>4, <2>1
      <3>2. h[t \ {Max(t)}] \in MacStates
        BY <1>11, <3>1
      <3> QED BY <1>10, <2>1, <3>1, <3>2 DEF step
    <2>2. {} \in SUBSET (1 .. k)
      OBVIOUS
    <2> QED BY <1>10, <2>1, <2>2 DEF LoopEq
  <1>13. PICK g \in [0 .. k -> MacStates] : Turns(g, k, m0, step) /\ g[k] = h[1 .. k]
    <2>1. HasTurns(MacStates, h, k, m0, step)
      BY <1>1, <1>3, <1>12, LoopTurns, Zenon
    <2> QED BY <2>1, Zenon DEF HasTurns
  <1>14. ASSUME NEW i \in 1 .. k PROVE g[i] = Enqueue(g[i - 1], s[i], draw[s[i]])
    <2>1. i - 1 \in 0 .. k
      BY <1>1
    <2>2. g[i - 1] \in MacStates
      BY <1>13, <2>1
    <2> QED BY <1>13, <2>2 DEF step, Turns
  <1> QED BY <1>9, <1>13, <1>14 DEF k, Turns, Queues

(* What the loop leaves: the frames queued are those that were and those   *)
(* just signed, in order.                                                  *)
Queued(n, draw) == EnqueueAll(OnCca(mac[n], Busy(n, now)), Ready(n), draw)

LEMMA QueuedOK ==
  ASSUME Basic, AirOK, PendingOK, NEW n \in Nodes, MacOK(n, mac[n]), NEW draw \in Draws(n)
  PROVE  /\ MacOK(n, Queued(n, draw)) /\ (Queued(n, draw).busy <=> Busy(n, now))
         /\ \A j \in DOMAIN Queued(n, draw).queue :
               Queued(n, draw).queue[j] \in ToSet(mac[n].queue) \cup Signed(n)
  <1> DEFINE m0 == OnCca(mac[n], Busy(n, now))
             s == Ready(n)
             k == Len(s)
  <1>1. /\ s \in Seq(Signed(n)) /\ s \in Seq(Nat) /\ ToSet(s) = Signed(n) /\ k \in Nat
        /\ \A i, j \in 1 .. k : i < j => Earlier(s[i], s[j])
        /\ \A i \in 1 .. k : s[i] \in Signed(n) /\ s[i] \in Nat
    <2>1. /\ s \in Seq(Signed(n)) /\ s \in Seq(Nat) /\ ToSet(s) = Signed(n)
          /\ \A i, j \in 1 .. k : i < j => Earlier(s[i], s[j])
      BY ReadyFacts
    <2> HIDE DEF s
    <2> QED BY <2>1
  <1>2. \A f \in Signed(n) :
           /\ f \in DOMAIN frames /\ frames[f].node = n /\ frames[f].ready = now
           /\ draw[f] \in 0 .. Cw
           /\ \A i \in DOMAIN mac[n].queue : Earlier(mac[n].queue[i], f)
    <2> SUFFICES ASSUME NEW f \in Signed(n)
                 PROVE  /\ f \in DOMAIN frames /\ frames[f].node = n /\ frames[f].ready = now
                        /\ draw[f] \in 0 .. Cw
                        /\ \A i \in DOMAIN mac[n].queue : Earlier(mac[n].queue[i], f)
      OBVIOUS
    <2>1. f \in pending /\ f \in DOMAIN frames /\ frames[f].node = n /\ frames[f].ready <= now
      BY DEF Signed, Basic
    <2>2. now <= frames[f].ready /\ frames[f].ready \in Nat
          /\ \A i \in DOMAIN mac[n].queue : Earlier(mac[n].queue[i], f)
      BY <2>1, FrameFacts DEF PendingOK
    <2>3. draw[f] \in 0 .. Cw
      BY <2>1 DEF Draws
    <2> QED BY <2>1, <2>2, <2>3, Numbers
  <1>3. mac[n] \in MacStates /\ Busy(n, now) \in BOOLEAN
    BY DEF Basic, Busy, Transmits
  <1>4. /\ m0 \in MacStates /\ m0.queue = mac[n].queue /\ (m0.busy <=> Busy(n, now))
        /\ MacOK(n, m0)
    <2>1. m0 \in MacStates /\ m0.queue = mac[n].queue /\ m0.busy = Busy(n, now)
      BY <1>3, Numbers, OnCcaFacts
    <2> QED BY <2>1, OnCcaOK
  <1> HIDE DEF m0, s, k
  <1>5. PICK g \in [0 .. k -> MacStates] :
            /\ g[0] = m0 /\ g[k] = EnqueueAll(m0, s, draw)
            /\ \A i \in 1 .. k : g[i] = Enqueue(g[i - 1], s[i], draw[s[i]])
    <2>1. \A i \in 1 .. Len(s) : draw[s[i]] \in Int
      BY <1>1, <1>2, Numbers DEF k
    <2>2. PICK g \in [0 .. Len(s) -> MacStates] : Queues(g, m0, s, draw)
      BY <1>1, <1>4, <2>1, QueueLoop
    <2> QED BY <2>2 DEF k, Queues
  <1> DEFINE From(i) == \A j \in DOMAIN g[i].queue :
                          \/ g[i].queue[j] \in ToSet(mac[n].queue)
                          \/ \E l \in 1 .. i : g[i].queue[j] = s[l]
             T == {i \in 0 .. k : MacOK(n, g[i]) /\ (g[i].busy <=> Busy(n, now)) /\ From(i)}
  <1>6. 0 \in T
    <2>1. \A j \in DOMAIN mac[n].queue : mac[n].queue[j] \in ToSet(mac[n].queue)
      BY DEF ToSet
    <2> QED BY <1>1, <1>4, <1>5, <2>1
  <1>7. ASSUME NEW i \in 0 .. (k - 1), i \in T PROVE i + 1 \in T
    <2>1. /\ i + 1 \in 1 .. k /\ i + 1 \in 0 .. k /\ (i + 1) - 1 = i /\ i \in 0 .. k
          /\ g[i] \in MacStates
      BY <1>1, <1>5
    <2> DEFINE f == s[i + 1]
               m == g[i]
               e == g[i + 1]
    <2>2. f \in Signed(n) /\ f \in Nat
      BY <1>1, <2>1
    <2>3. /\ f \in DOMAIN frames /\ frames[f].node = n /\ frames[f].ready = now
          /\ draw[f] \in 0 .. Cw /\ draw[f] \in Int
          /\ \A j \in DOMAIN mac[n].queue : Earlier(mac[n].queue[j], f)
      BY <1>2, <2>2, Numbers
    <2>4. e = Enqueue(m, f, draw[f])
      BY <1>5, <2>1
    <2>5. MacOK(n, m) /\ (m.busy <=> Busy(n, now)) /\ From(i)
      BY <1>7
    <2>6. \A j \in DOMAIN m.queue : Earlier(m.queue[j], f)
      <3> SUFFICES ASSUME NEW j \in DOMAIN m.queue PROVE Earlier(m.queue[j], f)
        OBVIOUS
      <3>1. CASE m.queue[j] \in ToSet(mac[n].queue)
        BY <2>3, <3>1 DEF ToSet
      <3>2. CASE \E l \in 1 .. i : m.queue[j] = s[l]
        <4>1. PICK l \in 1 .. i : m.queue[j] = s[l]
          BY <3>2
        <4>2. l \in 1 .. k /\ l < i + 1
          BY <1>1, <2>1
        <4> QED BY <1>1, <2>1, <4>1, <4>2
      <3> QED BY <2>5, <3>1, <3>2
    <2> HIDE DEF f, m, e, T
    <2>7. MacOK(n, e)
      BY <2>3, <2>4, <2>5, <2>6, EnqueueOK
    <2>8. m \in MacStates
      BY <2>1 DEF m
    <2>9. /\ e.busy = m.busy
          /\ (e = m \/ e.queue = Append(m.queue, f))
      BY <2>2, <2>3, <2>4, <2>8, EnqueueFacts
    <2>10. From(i + 1)
      <3> SUFFICES ASSUME NEW j \in DOMAIN e.queue
                   PROVE  \/ e.queue[j] \in ToSet(mac[n].queue)
                          \/ \E l \in 1 .. (i + 1) : e.queue[j] = s[l]
        BY DEF e
      <3>1. ASSUME j \in DOMAIN m.queue, e.queue[j] = m.queue[j]
            PROVE  \/ e.queue[j] \in ToSet(mac[n].queue)
                   \/ \E l \in 1 .. (i + 1) : e.queue[j] = s[l]
        <4>1. \/ m.queue[j] \in ToSet(mac[n].queue)
              \/ \E l \in 1 .. i : m.queue[j] = s[l]
          BY <2>5, <3>1 DEF m
        <4>2. \A l \in 1 .. i : l \in 1 .. (i + 1)
          BY <1>1
        <4> QED BY <3>1, <4>1, <4>2
      <3>2. CASE e = m
        BY <3>1, <3>2
      <3>3. CASE e.queue = Append(m.queue, f)
        <4>1. m.queue \in Seq(Nat) /\ Len(m.queue) \in Nat
          BY <2>8, BackoffFields
        <4>2. \/ j \in DOMAIN m.queue /\ e.queue[j] = m.queue[j]
              \/ e.queue[j] = f
          BY <3>3, <4>1, <2>2
        <4>3. i + 1 \in 1 .. (i + 1)
          BY <1>1
        <4> QED BY <3>1, <4>2, <4>3 DEF f
      <3> QED BY <2>9, <3>2, <3>3
    <2>11. e.busy <=> Busy(n, now)
      BY <2>5, <2>9
    <2> QED BY <2>1, <2>7, <2>10, <2>11 DEF e, T
  <1> HIDE DEF T
  <1>8. \A i \in 0 .. k : i \in T
    BY <1>1, <1>6, <1>7, UpTo
  <1>9. k \in T /\ g[k] = Queued(n, draw)
    BY <1>1, <1>5, <1>8 DEF Queued, m0, s
  <1>10. /\ MacOK(n, g[k]) /\ (g[k].busy <=> Busy(n, now)) /\ From(k)
    BY <1>9 DEF T
  <1>11. \A j \in DOMAIN g[k].queue : g[k].queue[j] \in ToSet(mac[n].queue) \cup Signed(n)
    BY <1>1, <1>10
  <1> QED BY <1>9, <1>10, <1>11

(***************************************************************************)
(* The loop over the grants: one turn does all the work.                   *)
(***************************************************************************)

Polled(acc, draw) ==
  FoldLeft(LAMBDA a, i : Poll(a, draw), acc, [i \in 1 .. MaxGrants |-> i])

LEMMA PollOnce ==
  ASSUME NEW acc, NEW draw, Poll(Poll(acc, draw), draw) = Poll(acc, draw)
  PROVE  Polled(acc, draw) = Poll(acc, draw)
  <1> DEFINE k == MaxGrants
             s == [i \in 1 .. k |-> i]
             b == Poll(acc, draw)
             Eq(h) == h = [t \in SUBSET DOMAIN s |->
                             IF t = {} THEN acc ELSE Poll(h[t \ {Max(t)}], draw)]
             w == [t \in SUBSET DOMAIN s |-> IF t = {} THEN acc ELSE b]
  <1>1. k \in Nat /\ k >= 1 /\ DOMAIN s = 1 .. k /\ 1 .. k # {}
    BY Constants
  <1>2. Polled(acc, draw) = (CHOOSE h : Eq(h))[DOMAIN s]
    BY Zenon DEF Polled, FoldLeft, MapThenFoldSet
  <1> HIDE DEF s, k, b
  <1>3. Eq(w)
    <2>1. \A t \in SUBSET DOMAIN s :
             w[t] = IF t = {} THEN acc ELSE Poll(w[t \ {Max(t)}], draw)
      <3> SUFFICES ASSUME NEW t \in SUBSET DOMAIN s, t # {}
                   PROVE  w[t] = Poll(w[t \ {Max(t)}], draw)
        OBVIOUS
      <3>1. t \ {Max(t)} \in SUBSET DOMAIN s
        OBVIOUS
      <3>2. w[t \ {Max(t)}] \in {acc, b} /\ w[t] = b
        BY <3>1
      <3>3. Poll(b, draw) = b /\ Poll(acc, draw) = b
        BY DEF b
      <3> HIDE DEF w
      <3> QED BY <3>2, <3>3
    <2> QED BY <2>1
  <1> HIDE DEF w
  <1>4. Eq(CHOOSE h : Eq(h))
    <2> HIDE DEF Eq
    <2> QED BY <1>3, Zenon
  <1>5. PICK h : h = (CHOOSE g : Eq(g))
    OBVIOUS
  <1>6. /\ h[{}] = acc
        /\ \A t \in SUBSET (1 .. k) : t # {} => h[t] = Poll(h[t \ {Max(t)}], draw)
    BY <1>1, <1>4, <1>5
  <1> HIDE DEF Eq
  <1> DEFINE G == {t \in SUBSET (1 .. k) : h[t] = IF t = {} THEN acc ELSE b}
  <1>7. {} \in G
    BY <1>6
  <1>8. ASSUME NEW t \in SUBSET (1 .. k), t # {}, \A x \in t : t \ {x} \in G PROVE t \in G
    <2>1. Max(t) \in t
      <3>1. t \subseteq 0 .. k
        BY <1>1
      <3> QED BY <1>1, <1>8, <3>1, MaxIsGreatest
    <2>2. h[t \ {Max(t)}] \in {acc, b}
      BY <1>8, <2>1
    <2>3. Poll(b, draw) = b /\ Poll(acc, draw) = b
      BY DEF b
    <2>4. h[t] = b
      BY <1>6, <1>8, <2>2, <2>3
    <2> QED BY <1>8, <2>4
  <1>9. IsFiniteSet(1 .. k)
    BY <1>1, IndexCount
  <1> HIDE DEF G
  <1>10. \A t \in SUBSET (1 .. k) : t \in G
    BY <1>7, <1>8, <1>9, SubsetInduction
  <1>11. 1 .. k \in G
    BY <1>10
  <1>12. h[1 .. k] = b
    BY <1>1, <1>11 DEF G
  <1> QED BY <1>1, <1>2, <1>5, <1>12 DEF b

(* The state a poll leaves that does not grant.                            *)
LEMMA CountedDownFacts ==
  ASSUME NEW m \in MacStates, now \in Nat, m.backoff.resume \in Nat, now >= m.backoff.resume
  PROVE  LET ticks == (now - m.backoff.resume) \div Slot
             c == CountedDown(m)
         IN  /\ ticks \in Nat /\ ticks * Slot \in Nat
             /\ ticks * Slot <= now - m.backoff.resume
             /\ now - m.backoff.resume < ticks * Slot + Slot
             /\ c \in MacStates /\ c.queue = m.queue /\ c.busy = m.busy
             /\ c.idleSince = m.idleSince /\ c.backoff.armed = m.backoff.armed
             /\ c.backoff.drawn = m.backoff.drawn /\ c.backoff.aifs = m.backoff.aifs
             /\ c.backoff.remaining = m.backoff.remaining - ticks
             /\ c.backoff.resume = m.backoff.resume + ticks * Slot
  <1> DEFINE ticks == (now - m.backoff.resume) \div Slot
             b == m.backoff
             rem == b.remaining - ticks
             res == b.resume + ticks * Slot
             d == [b EXCEPT !.remaining = rem, !.resume = res]
             c == [m EXCEPT !.backoff = d]
  <1>1. now - m.backoff.resume \in Nat
    OBVIOUS
  <1>2. /\ ticks \in Nat /\ ticks * Slot \in Nat /\ ticks * Slot <= now - m.backoff.resume
        /\ now - m.backoff.resume < ticks * Slot + Slot
    <2>1. PICK a \in Nat : a = now - m.backoff.resume
      BY <1>1
    <2>2. /\ a \div Slot \in Nat /\ (a \div Slot) * Slot <= a /\ a < (a \div Slot) * Slot + Slot
      BY <2>1, WholeSlots
    <2>3. (a \div Slot) * Slot \in Nat
      BY <2>2, SlotTimes
    <2> QED BY <2>1, <2>2, <2>3
  <1>3. b \in Backoffs /\ rem \in Int /\ res \in Int
    <2> HIDE DEF ticks
    <2> QED BY <1>2, BackoffFields
  <1>4. CountedDown(m) = c
    BY Zenon DEF CountedDown
  <1>5. /\ d \in Backoffs /\ d.armed = b.armed /\ d.remaining = rem
        /\ d.drawn = b.drawn /\ d.aifs = b.aifs /\ d.resume = res
    <2> HIDE DEF b, rem, res
    <2> QED BY <1>3 DEF Backoffs
  <1>6. c.queue = m.queue /\ c.busy = m.busy /\ c.idleSince = m.idleSince /\ c.backoff = d
    <2> HIDE DEF d
    <2> QED BY <1>5 DEF MacStates
  <1>7. c \in MacStates
    <2> HIDE DEF d
    <2> QED BY <1>5, Zenon DEF MacStates
  <1> HIDE DEF c, d
  <1> QED BY <1>2, <1>4, <1>5, <1>6, <1>7, Zenon DEF b, rem, res, ticks

(* States with the same fields are the same.                               *)
LEMMA SameMac ==
  ASSUME NEW m \in MacStates, NEW k \in MacStates,
         m.queue = k.queue, m.busy = k.busy, m.idleSince = k.idleSince,
         m.backoff.armed = k.backoff.armed, m.backoff.remaining = k.backoff.remaining,
         m.backoff.drawn = k.backoff.drawn, m.backoff.resume = k.backoff.resume,
         m.backoff.aifs = k.backoff.aifs
  PROVE  m = k
  <1>1. m.backoff \in Backoffs /\ k.backoff \in Backoffs
    BY DEF MacStates
  <1>2. m.backoff = k.backoff
    BY <1>1 DEF Backoffs
  <1> QED BY <1>2 DEF MacStates

LEMMA CountedDownOK ==
  ASSUME Basic, NEW n \in Nodes, NEW m, MacOK(n, m), Counting(m), now < Due(m.backoff)
  PROVE  LET c == CountedDown(m)
         IN  /\ MacOK(n, c) /\ c.queue = m.queue /\ c.busy = m.busy
             /\ Due(c.backoff) = Due(m.backoff) /\ c.backoff.armed = m.backoff.armed
             /\ CountedDown(c) = c
  <1> DEFINE c == CountedDown(m)
             b == m.backoff
             ticks == (now - b.resume) \div Slot
  <1>1. BackoffOK(m) /\ m \in MacStates
    BY DEF MacOK
  <1>2. /\ b.resume \in Nat /\ now >= b.resume /\ b.armed = TRUE /\ m.busy = FALSE
        /\ b.remaining \in Nat /\ b.drawn \in Nat /\ b.aifs \in Nat /\ b.remaining <= b.drawn
        /\ now \in Nat /\ b.remaining * Slot \in Nat /\ b.drawn * Slot \in Nat
    <2>1. /\ b.remaining \in Nat /\ b.drawn \in Nat /\ b.aifs \in Nat /\ b.remaining <= b.drawn
          /\ b.resume \in Int
      BY <1>1, Numbers, BackoffFields DEF BackoffOK
    <2>2. b.armed = TRUE /\ m.busy = FALSE
      BY <1>1, BackoffFields DEF Counting
    <2>3. b.resume \in Nat
      BY <1>1, <2>2 DEF BackoffOK
    <2>4. now >= b.resume
      BY DEF Counting
    <2>5. b.remaining * Slot \in Nat /\ b.drawn * Slot \in Nat
      BY <2>1, SlotTimes
    <2> QED BY <2>1, <2>2, <2>3, <2>4, <2>5, Numbers
  <1>3. /\ ticks \in Nat /\ ticks * Slot \in Nat
        /\ ticks * Slot <= now - b.resume /\ now - b.resume < ticks * Slot + Slot
        /\ c \in MacStates /\ c.queue = m.queue /\ c.busy = m.busy
        /\ c.idleSince = m.idleSince /\ c.backoff.armed = b.armed
        /\ c.backoff.drawn = b.drawn /\ c.backoff.aifs = b.aifs
        /\ c.backoff.remaining = b.remaining - ticks
        /\ c.backoff.resume = b.resume + ticks * Slot
    BY <1>1, <1>2, CountedDownFacts, Zenon
  <1> HIDE DEF c, ticks, b
  <1>4. ticks < b.remaining
    <2>1. ticks * Slot < b.remaining * Slot
      BY <1>2, <1>3 DEF Due, b
    <2> QED BY <2>1, <1>2, <1>3, SlotTimes
  <1>5. /\ (b.remaining - ticks) * Slot = b.remaining * Slot - ticks * Slot
        /\ b.remaining - ticks \in Nat
    <2>1. ticks <= b.remaining /\ ticks \in Nat /\ b.remaining \in Nat
      BY <1>2, <1>3, <1>4
    <2>2. (b.remaining - ticks) * Slot = b.remaining * Slot - ticks * Slot
      BY <2>1, SlotTimes, Zenon
    <2> QED BY <2>1, <2>2
  <1>6. Due(c.backoff) = Due(b) /\ Due(b) \in Nat /\ Due(b) = b.resume + b.remaining * Slot
    BY <1>2, <1>3, <1>5 DEF Due
  <1>7. c.backoff.resume \in Nat /\ c.backoff.resume <= now /\ b.resume <= c.backoff.resume
    BY <1>2, <1>3
  <1>8. BackoffOK(c)
    <2>1. /\ c.backoff.armed <=> c.queue # <<>>
          /\ c.backoff.drawn \in 0 .. Cw /\ c.backoff.aifs \in 0 .. Aifs
          /\ c.idleSince \in NoTime .. now
      BY <1>1, <1>3 DEF BackoffOK, b
    <2>2. c.backoff.remaining \in 0 .. c.backoff.drawn
      BY <1>2, <1>3, <1>5
    <2>3. c.backoff.resume \in NoTime .. (now + Air + Aifs)
      BY <1>7, Numbers
    <2>4. now <= Due(c.backoff) /\ c.busy = FALSE
      BY <1>2, <1>3, <1>6 DEF b
    <2> QED BY <1>7, <2>1, <2>2, <2>3, <2>4 DEF BackoffOK
  <1>9. SplitOK(c)
    <2> DEFINE ready == frames[m.queue[1]].ready
    <2>1. 1 \in DOMAIN m.queue
      BY <1>1, <1>2, BackoffFields DEF BackoffOK, b
    <2>2. ready \in Nat
      BY <2>1, FrameFacts DEF MacOK, QueueOK
    <2>3. ready + b.aifs + b.drawn * Slot <= Due(b)
      BY <1>2 DEF MacOK, SplitOK, b
    <2> HIDE DEF ready
    <2>4. Due(b) = c.backoff.resume + c.backoff.remaining * Slot
      BY <1>6 DEF Due
    <2>5. c.backoff.remaining * Slot \in Nat
      BY <1>3, <1>5, SlotTimes
    <2>6. ready + b.drawn * Slot <= now + c.backoff.remaining * Slot
      BY <1>2, <1>7, <2>2, <2>3, <2>4, <2>5
    <2> QED BY <1>2, <1>3, <1>6, <2>3, <2>6 DEF SplitOK, ready
  <1>10. WaitOK(n, c)
    <2> SUFFICES ASSUME NEW y \in OnAir, NEW i \in DOMAIN m.queue,
                        y.start < frames[m.queue[i]].ready, frames[m.queue[i]].ready < y.end,
                        Hears(n, y)
                 PROVE  y.end + Aifs <= c.backoff.resume
      BY <1>3 DEF WaitOK
    <2>1. y.end + Aifs <= b.resume
      BY <1>2 DEF MacOK, WaitOK, b
    <2>2. y.end \in Nat
      BY OnAirFinite DEF OnAirType
    <2> QED BY <1>2, <1>7, <2>1, <2>2, Numbers
  <1>11. MacOK(n, c)
    BY <1>3, <1>8, <1>9, <1>10 DEF MacOK
  <1>12. CountedDown(c) = c
    <2> DEFINE more == (now - c.backoff.resume) \div Slot
               d == CountedDown(c)
    <2>1. /\ more \in Nat /\ more * Slot \in Nat /\ more * Slot <= now - c.backoff.resume
          /\ d \in MacStates /\ d.queue = c.queue /\ d.busy = c.busy
          /\ d.idleSince = c.idleSince /\ d.backoff.armed = c.backoff.armed
          /\ d.backoff.drawn = c.backoff.drawn /\ d.backoff.aifs = c.backoff.aifs
          /\ d.backoff.remaining = c.backoff.remaining - more
          /\ d.backoff.resume = c.backoff.resume + more * Slot
      BY <1>2, <1>3, <1>7, CountedDownFacts, Zenon
    <2> HIDE DEF more, d
    <2>2. now - c.backoff.resume < Slot
      BY <1>2, <1>3, Numbers
    <2>3. more * Slot < 1 * Slot
      BY <1>2, <1>7, <2>1, <2>2, Numbers
    <2>4. more < 1
      BY <2>1, <2>3, SlotTimes
    <2>5. more = 0 /\ more * Slot = 0
      BY <2>1, <2>4, SlotTimes
    <2>6. c.backoff.remaining \in Int /\ c.backoff.resume \in Int
      BY <1>3, BackoffFields
    <2>7. d.backoff.remaining = c.backoff.remaining /\ d.backoff.resume = c.backoff.resume
      BY <2>1, <2>5, <2>6
    <2>8. d = c
      BY <1>3, <2>1, <2>7, SameMac
    <2> QED BY <2>8 DEF d
  <1> QED BY <1>3, <1>6, <1>11, <1>12 DEF c, b

(* The state a grant leaves.                                               *)
LEMMA GrantedFacts ==
  ASSUME NEW m \in MacStates, m.queue # <<>>, NEW draw, now \in Nat, Due(m.backoff) = now,
         \A j \in DOMAIN m.queue : draw[m.queue[j]] \in Int
  PROVE  LET g == Granted(m, draw)
         IN  /\ g \in MacStates /\ g.queue = Tail(m.queue) /\ g.busy = m.busy
             /\ g.idleSince = m.idleSince
             /\ g.queue = <<>> => g.backoff = NoBackoff
             /\ g.queue # <<>> =>
                  /\ 2 \in DOMAIN m.queue /\ g.queue[1] = m.queue[2]
                  /\ g.backoff.armed = TRUE /\ g.backoff.remaining = draw[m.queue[2]]
                  /\ g.backoff.drawn = draw[m.queue[2]]
                  /\ g.backoff.resume = now + Air + Aifs /\ g.backoff.aifs = Aifs
  <1> DEFINE g == Granted(m, draw)
             q == m.queue
             rest == Tail(q)
             d == draw[Head(rest)]
             b == IF rest = <<>> THEN NoBackoff
                  ELSE [armed |-> TRUE, remaining |-> d, drawn |-> d,
                        resume |-> Due(m.backoff) + Air + Aifs, aifs |-> Aifs]
  <1>1. q \in Seq(Nat) /\ Len(q) \in Nat /\ Len(q) >= 1
    BY BackoffFields
  <1>2. rest \in Seq(Nat) /\ Len(rest) = Len(q) - 1
    BY <1>1
  <1>3. rest # <<>> => 2 \in DOMAIN q /\ rest[1] = q[2] /\ Head(rest) = q[2]
    <2> SUFFICES ASSUME rest # <<>> PROVE 2 \in DOMAIN q /\ rest[1] = q[2] /\ Head(rest) = q[2]
      OBVIOUS
    <2>1. Len(rest) >= 1
      <3> HIDE DEF rest
      <3> QED BY <1>2, EmptySeq
    <2> QED BY <1>1, <1>2, <2>1
  <1>4. g = [m EXCEPT !.queue = rest, !.backoff = b]
    BY Zenon DEF Granted
  <1>5. /\ NoBackoff \in Backoffs
        /\ rest # <<>> => d \in Int
    <2>1. NoBackoff \in Backoffs
      BY DEF NoBackoff, NoTime, Backoffs
    <2> HIDE DEF rest
    <2> QED BY <1>3, <2>1
  <1>6. /\ b \in Backoffs
        /\ rest = <<>> => b = NoBackoff
        /\ rest # <<>> => /\ b.armed = TRUE /\ b.remaining = d /\ b.drawn = d
                          /\ b.resume = now + Air + Aifs /\ b.aifs = Aifs
    <2> HIDE DEF rest, d
    <2>1. CASE rest = <<>>
      BY <1>5, <2>1
    <2>2. CASE rest # <<>>
      <3>1. now + Air + Aifs \in Int /\ Aifs \in Int
        BY Constants
      <3> QED BY <1>5, <2>2, <3>1 DEF Backoffs
    <2> QED BY <2>1, <2>2
  <1> HIDE DEF rest, b, g
  <1>7. g.queue = rest /\ g.busy = m.busy /\ g.idleSince = m.idleSince /\ g.backoff = b
    BY <1>4, <1>6 DEF MacStates
  <1>8. g \in MacStates
    BY <1>2, <1>4, <1>6, Zenon DEF MacStates
  <1> QED BY <1>3, <1>6, <1>7, <1>8, Zenon DEF g, rest

(* What happens to the first queued frame when it is granted: it has       *)
(* waited for all that it owes.                                            *)
Owed(n, m) ==
  LET f == m.queue[1]
  IN  /\ frames[f].ready + m.backoff.aifs + m.backoff.drawn * Slot <= now
      /\ \A y \in OnAir :
            y.start < frames[f].ready /\ frames[f].ready < y.end /\ Hears(n, y)
              => y.end + Aifs <= now

LEMMA GrantedOK ==
  ASSUME Basic, AirOK, NEW n \in Nodes, NEW m, MacOK(n, m), NEW draw, Counting(m),
         ~(now < Due(m.backoff)), \A j \in DOMAIN m.queue : draw[m.queue[j]] \in 0 .. Cw
  PROVE  LET g == Granted(m, draw)
         IN  /\ MacOK(n, g) /\ g.queue = Tail(m.queue) /\ g.busy = m.busy
             /\ g.backoff.armed => g.backoff.resume > now /\ Due(g.backoff) > now
             /\ Due(m.backoff) = now /\ Owed(n, m)
  <1> DEFINE g == Granted(m, draw)
             b == m.backoff
             q == m.queue
  <1>1. BackoffOK(m) /\ m \in MacStates /\ QueueOK(n, q)
    BY DEF MacOK
  <1>2. /\ b.armed = TRUE /\ m.busy = FALSE /\ q # <<>> /\ now >= b.resume
        /\ b.resume \in Nat /\ b.remaining \in Nat /\ b.drawn \in Nat /\ b.aifs \in Nat
        /\ q \in Seq(Nat) /\ Len(q) >= 1 /\ Len(q) \in Nat /\ DOMAIN q = 1 .. Len(q)
    <2>1. b.armed = TRUE /\ m.busy = FALSE /\ q # <<>> /\ now >= b.resume
      BY <1>1, BackoffFields DEF Counting
    <2>2. b.resume \in Nat /\ b.remaining \in Nat /\ b.drawn \in Nat /\ b.aifs \in Nat
      BY <1>1, <2>1, Numbers DEF BackoffOK
    <2> QED BY <1>1, <2>1, <2>2, BackoffFields
  <1>3. Due(b) = now
    <2>1. now <= Due(b)
      BY <1>1, <1>2 DEF BackoffOK
    <2>2. b.remaining * Slot \in Nat
      BY <1>2, SlotTimes
    <2>3. Due(b) \in Int
      BY <1>2, <2>2 DEF Due
    <2> QED BY <2>1, <2>3, Numbers
  <1>4. /\ g \in MacStates /\ g.queue = Tail(q) /\ g.busy = m.busy
        /\ g.idleSince = m.idleSince
        /\ g.queue = <<>> => g.backoff = NoBackoff
        /\ g.queue # <<>> =>
                  /\ 2 \in DOMAIN m.queue /\ g.queue[1] = q[2]
                  /\ g.backoff.armed = TRUE /\ g.backoff.remaining = draw[q[2]]
                  /\ g.backoff.drawn = draw[q[2]]
                  /\ g.backoff.resume = now + Air + Aifs /\ g.backoff.aifs = Aifs
    <2>1. \A j \in DOMAIN q : draw[q[j]] \in Int
      BY Numbers
    <2> QED BY <1>1, <1>2, <1>3, <2>1, Numbers, GrantedFacts, Zenon
  <1>5. Owed(n, m)
    <2>1. 1 \in DOMAIN q
      BY <1>2
    <2>2. frames[q[1]].ready + b.aifs + b.drawn * Slot <= now
      BY <1>2, <1>3 DEF MacOK, SplitOK
    <2>3. ASSUME NEW y \in OnAir, y.start < frames[q[1]].ready, frames[q[1]].ready < y.end,
                 Hears(n, y)
          PROVE  y.end + Aifs <= now
      <3>1. y.end + Aifs <= b.resume
        BY <1>2, <2>1, <2>3 DEF MacOK, WaitOK
      <3>2. y.end \in Nat
        BY OnAirFinite DEF OnAirType
      <3> QED BY <1>2, <3>1, <3>2, Numbers
    <2> QED BY <2>2, <2>3 DEF Owed
  <1> HIDE DEF g
  <1>6. /\ \A i \in DOMAIN g.queue : i \in Nat /\ i + 1 \in DOMAIN q /\ g.queue[i] = q[i + 1]
        /\ Len(g.queue) = Len(q) - 1
    BY <1>2, <1>4, SMTT(60)
  <1>7. QueueOK(n, g.queue)
    <2>1. Len(g.queue) <= QueueDepth
      BY <1>1, <1>2, <1>6, Constants DEF QueueOK
    <2>2. \A i \in DOMAIN g.queue :
            g.queue[i] \in DOMAIN frames /\ frames[g.queue[i]].node = n
              /\ frames[g.queue[i]].ready <= now
      BY <1>1, <1>6 DEF QueueOK
    <2>3. ASSUME NEW i \in DOMAIN g.queue, NEW j \in DOMAIN g.queue, i < j
          PROVE  Earlier(g.queue[i], g.queue[j])
      <3>1. i + 1 < j + 1 /\ i + 1 \in DOMAIN q /\ j + 1 \in DOMAIN q
        BY <1>6, <2>3
      <3> QED BY <1>1, <1>6, <3>1 DEF QueueOK
    <2> QED BY <2>1, <2>2, <2>3 DEF QueueOK
  <1>8. g.idleSince \in NoTime .. now
    BY <1>1, <1>4 DEF BackoffOK
  <1>9. CASE g.queue = <<>>
    <2>1. g.backoff = NoBackoff
      BY <1>4, <1>9
    <2>2. /\ g.backoff.armed = FALSE /\ g.backoff.remaining = 0 /\ g.backoff.drawn = 0
          /\ g.backoff.resume = NoTime /\ g.backoff.aifs = 0
      BY <2>1 DEF NoBackoff
    <2>3. /\ 0 \in 0 .. Cw /\ 0 \in 0 .. 0 /\ 0 \in 0 .. Aifs
          /\ NoTime \in NoTime .. (now + Air + Aifs)
      BY Numbers
    <2>4. BackoffOK(g)
      BY <1>8, <1>9, <2>2, <2>3 DEF BackoffOK
    <2>5. SplitOK(g)
      BY <2>2 DEF SplitOK
    <2>6. WaitOK(n, g)
      <3>1. DOMAIN g.queue = {}
        BY <1>9
      <3> QED BY <3>1 DEF WaitOK
    <2>7. MacOK(n, g)
      BY <1>4, <1>7, <2>4, <2>5, <2>6 DEF MacOK
    <2> QED BY <1>3, <1>4, <1>5, <2>2, <2>7 DEF g
  <1>10. CASE g.queue # <<>>
    <2> DEFINE d == draw[q[2]]
    <2>1. /\ 2 \in DOMAIN q /\ g.queue[1] = q[2]
          /\ g.backoff.armed = TRUE /\ g.backoff.remaining = d /\ g.backoff.drawn = d
          /\ g.backoff.resume = now + Air + Aifs /\ g.backoff.aifs = Aifs
      BY <1>4, <1>10
    <2>2. d \in 0 .. Cw
      BY <2>1
    <2> HIDE DEF d
    <2>3. d \in Nat /\ d * Slot \in Nat
      BY <2>2, SlotTimes, Numbers
    <2>4. g.backoff.resume > now /\ Due(g.backoff) > now
          /\ Due(g.backoff) = now + Air + Aifs + d * Slot
      BY <2>1, <2>3, Numbers DEF Due
    <2>5. BackoffOK(g)
      <3>1. /\ g.backoff.drawn \in 0 .. Cw /\ g.backoff.remaining \in 0 .. g.backoff.drawn
            /\ g.backoff.aifs \in 0 .. Aifs /\ g.backoff.resume \in NoTime .. (now + Air + Aifs)
            /\ g.backoff.resume \in Nat
        BY <2>1, <2>2, <2>3, Numbers
      <3>2. now <= Due(g.backoff)
        BY <2>3, <2>4, Numbers
      <3>3. g.busy = FALSE
        BY <1>2, <1>4
      <3> QED BY <1>8, <1>10, <2>1, <3>1, <3>2, <3>3 DEF BackoffOK
    <2>6. frames[q[2]].ready \in Nat /\ frames[q[2]].ready <= now
      BY <1>1, <2>1, FrameFacts DEF QueueOK
    <2>7. SplitOK(g)
      <3>1. frames[g.queue[1]].ready + g.backoff.drawn * Slot <= now + g.backoff.remaining * Slot
        BY <2>1, <2>3, <2>6, Numbers
      <3>2. frames[g.queue[1]].ready + g.backoff.aifs + g.backoff.drawn * Slot <= Due(g.backoff)
        BY <2>1, <2>3, <2>4, <2>6, Numbers
      <3> QED BY <3>1, <3>2 DEF SplitOK
    <2>8. WaitOK(n, g)
      <3> SUFFICES ASSUME NEW y \in OnAir, NEW i \in DOMAIN g.queue,
                          y.start < frames[g.queue[i]].ready,
                          frames[g.queue[i]].ready < y.end, Hears(n, y)
                   PROVE  y.end + Aifs <= g.backoff.resume
        BY DEF WaitOK
      <3>1. i + 1 \in DOMAIN q /\ g.queue[i] = q[i + 1]
        BY <1>6
      <3>2. y.end + Aifs <= b.resume
        BY <1>2, <3>1 DEF MacOK, WaitOK
      <3>3. y.end \in Nat
        BY OnAirFinite DEF OnAirType
      <3>4. y.end + Aifs <= now
        BY <1>2, <3>2, <3>3, Numbers, SMTT(60)
      <3>5. y.end + Aifs <= now + Air + Aifs
        BY <3>3, <3>4, Numbers
      <3> QED BY <2>1, <3>5
    <2>9. MacOK(n, g)
      BY <1>4, <1>7, <2>5, <2>7, <2>8 DEF MacOK
    <2> QED BY <1>3, <1>4, <1>5, <2>4, <2>9 DEF g
  <1> QED BY <1>9, <1>10

(* The grants of a timer: none, or the first queued frame.                 *)
LEMMA PolledOK ==
  ASSUME Basic, AirOK, NEW n \in Nodes, NEW m, MacOK(n, m), NEW draw,
         \A j \in DOMAIN m.queue : draw[m.queue[j]] \in 0 .. Cw
  PROVE  LET p == Polled([mac |-> m, sent |-> <<>>], draw)
         IN  /\ MacOK(n, p.mac) /\ p.mac.busy = m.busy
             /\ ~p.mac.busy /\ p.mac.backoff.armed => Due(p.mac.backoff) > now
             /\ \/ p.sent = <<>> /\ p.mac.queue = m.queue
                \/ /\ ~m.busy /\ m.queue # <<>> /\ p.mac.queue = Tail(m.queue) /\ Owed(n, m)
                   /\ p.sent = <<[frame |-> m.queue[1], due |-> now,
                                  aifs |-> m.backoff.aifs, slots |-> m.backoff.drawn]>>
  <1> DEFINE a == [mac |-> m, sent |-> <<>>]
             p == Polled(a, draw)
  <1>0. a.mac = m /\ a.sent = <<>>
    OBVIOUS
  <1>1. m \in MacStates /\ BackoffOK(m)
    BY DEF MacOK
  <1>2. CASE ~Counting(m)
    <2>1. Poll(a, draw) = a
      BY <1>2 DEF Poll
    <2> HIDE DEF a
    <2>2. p = a
      BY <2>1, PollOnce
    <2>3. ~m.busy /\ m.backoff.armed => Due(m.backoff) > now
      <3> SUFFICES ASSUME ~m.busy, m.backoff.armed PROVE Due(m.backoff) > now
        OBVIOUS
      <3>1. /\ m.queue # <<>> /\ m.backoff.resume \in Nat /\ m.backoff.remaining \in Nat
        BY <1>1, Numbers DEF BackoffOK
      <3>2. now < m.backoff.resume
        BY <1>2, <3>1, Numbers DEF Counting
      <3>3. m.backoff.remaining * Slot \in Nat
        BY <3>1, SlotTimes
      <3>4. PICK x \in Nat : x = m.backoff.remaining * Slot
        BY <3>3
      <3>5. Due(m.backoff) = m.backoff.resume + x
        BY <3>4 DEF Due
      <3>6. m.backoff.resume + x > now
        BY <3>1, <3>2, <3>4, Numbers, SMTT(60)
      <3> QED BY <3>5, <3>6
    <2> QED BY <1>0, <2>2, <2>3 DEF a
  <1>3. CASE Counting(m) /\ now < Due(m.backoff)
    <2> DEFINE c == CountedDown(m)
               r == [mac |-> c, sent |-> <<>>]
    <2>1. Poll(a, draw) = [a EXCEPT !.mac = c]
      BY <1>3 DEF Poll
    <2>2. /\ MacOK(n, c) /\ c.queue = m.queue /\ c.busy = m.busy
          /\ Due(c.backoff) = Due(m.backoff) /\ c.backoff.armed = m.backoff.armed
          /\ CountedDown(c) = c
      BY <1>3, CountedDownOK
    <2> HIDE DEF c
    <2>3. [a EXCEPT !.mac = c] = r
      OBVIOUS
    <2>4. Poll(r, draw) = r
      <3>1. r.mac = c /\ [r EXCEPT !.mac = c] = r
        OBVIOUS
      <3> HIDE DEF r
      <3>2. CASE ~Counting(c)
        BY <3>1, <3>2 DEF Poll
      <3>3. CASE Counting(c)
        BY <1>3, <2>2, <3>1, <3>3 DEF Poll
      <3> QED BY <3>2, <3>3
    <2>5. r.mac = c /\ r.sent = <<>>
      OBVIOUS
    <2>6. p = r
      <3> HIDE DEF r, a
      <3> QED BY <2>1, <2>3, <2>4, PollOnce
    <2>7. Due(c.backoff) > now
      <3>1. m.backoff.resume \in Int /\ m.backoff.remaining \in Nat
        BY <1>1, Numbers, BackoffFields DEF BackoffOK
      <3>2. m.backoff.remaining * Slot \in Nat
        BY <3>1, SlotTimes
      <3>3. Due(m.backoff) \in Int
        BY <3>1, <3>2 DEF Due
      <3> QED BY <1>3, <2>2, <3>3, Numbers
    <2> HIDE DEF r
    <2> QED BY <2>2, <2>5, <2>6, <2>7 DEF a
  <1>4. CASE Counting(m) /\ ~(now < Due(m.backoff))
    <2> DEFINE g == Granted(m, draw)
               s == [frame |-> Head(m.queue), due |-> Due(m.backoff),
                     aifs |-> m.backoff.aifs, slots |-> m.backoff.drawn]
               r == [mac |-> g, sent |-> Append(<<>>, s)]
    <2>1. Poll(a, draw) = r
      BY <1>4 DEF Poll
    <2>2. /\ MacOK(n, g) /\ g.queue = Tail(m.queue) /\ g.busy = m.busy
          /\ g.backoff.armed => g.backoff.resume > now /\ Due(g.backoff) > now
          /\ Due(m.backoff) = now /\ Owed(n, m)
      BY <1>4, GrantedOK
    <2>3. /\ ~m.busy /\ m.queue # <<>>
      BY <1>4 DEF Counting
    <2> HIDE DEF g
    <2>4. r.mac = g /\ r.sent = Append(<<>>, s)
      OBVIOUS
    <2>5. Append(<<>>, s) = <<s>>
      <3> HIDE DEF s
      <3> QED OBVIOUS
    <2>6. s = [frame |-> m.queue[1], due |-> now,
                aifs |-> m.backoff.aifs, slots |-> m.backoff.drawn]
      <3>1. Head(m.queue) = m.queue[1]
        BY <1>1, BackoffFields
      <3> QED BY <2>2, <3>1
    <2> HIDE DEF r, s
    <2>7. Poll(r, draw) = r
      <3>1. ~Counting(g)
        <4>1. g \in MacStates
          BY <2>2 DEF MacOK
        <4>2. g.backoff.resume \in Int
          BY <4>1, BackoffFields
        <4> QED BY <2>2, <4>2, Numbers DEF Counting
      <3> QED BY <2>4, <3>1 DEF Poll
    <2>8. p = r
      <3> HIDE DEF a
      <3> QED BY <2>1, <2>7, PollOnce
    <2> QED BY <2>2, <2>3, <2>4, <2>5, <2>6, <2>8, Zenon DEF p, a
  <1> QED BY <1>2, <1>3, <1>4

(***************************************************************************)
(* The timers.                                                             *)
(***************************************************************************)

TimerTables == [Nodes -> [0 .. Horizon -> Nat]]

(* How many timers a node has.                                             *)
CountOf(f) == MapThenSumSet(LAMBDA t : f[t], 0 .. Horizon)

LEMMA CountIs ==
  ASSUME NEW f \in [0 .. Horizon -> Nat]
  PROVE  /\ IsFiniteSet(0 .. Horizon)
         /\ \E h : CountOf(f) = h[0 .. Horizon] /\ SumEq(h, 0 .. Horizon, f)
  <1>1. IsFiniteSet(0 .. Horizon)
    BY Constants, FS_Interval
  <1>2. CountOf(f) = (CHOOSE h : SumEq(h, 0 .. Horizon, f))[0 .. Horizon]
    BY Zenon DEF CountOf, MapThenSumSet, MapThenFoldSet, Pick, SumEq
  <1>3. \E h : SumEq(h, 0 .. Horizon, f)
    BY <1>1, SumExists
  <1> QED BY <1>1, <1>2, <1>3, Zenon

LEMMA CountChanged ==
  ASSUME NEW f \in [0 .. Horizon -> Nat], NEW g \in [0 .. Horizon -> Nat],
         NEW t \in 0 .. Horizon, \A u \in 0 .. Horizon : u # t => g[u] = f[u]
  PROVE  CountOf(f) \in Nat /\ CountOf(g) = (CountOf(f) - f[t]) + g[t]
  <1>1. PICK h : CountOf(f) = h[0 .. Horizon] /\ SumEq(h, 0 .. Horizon, f)
    BY CountIs
  <1>2. PICK i : CountOf(g) = i[0 .. Horizon] /\ SumEq(i, 0 .. Horizon, g)
    BY CountIs
  <1> DEFINE S == 0 .. Horizon
  <1>3. IsFiniteSet(S) /\ \A y \in S \ {t} : g[y] = f[y]
    BY CountIs
  <1> HIDE DEF S
  <1>4. f \in [S -> Nat] /\ g \in [S -> Nat] /\ t \in S /\ SumEq(h, S, f) /\ SumEq(i, S, g)
        /\ CountOf(f) = h[S] /\ CountOf(g) = i[S]
    BY <1>1, <1>2 DEF S
  <1>5. i[S] = (h[S] - f[t]) + g[t]
    <2>1. SameBut(f, g, S, t)
      BY <1>3 DEF SameBut
    <2>2. Replaced(h[S], i[S], f[t], g[t])
      BY <1>3, <1>4, <2>1, SumChanged
    <2> QED BY <2>2 DEF Replaced
  <1>6. h[S] \in Nat
    BY <1>3, <1>4, SumAtLeast
  <1> QED BY <1>4, <1>5, <1>6

LEMMA ScheduledFacts ==
  ASSUME NEW ts \in TimerTables, NEW n \in Nodes, NEW t \in Nat
  PROVE  LET r == Scheduled(ts, n, t)
         IN  /\ r \in TimerTables
             /\ \A k \in Nodes, u \in 0 .. Horizon : r[k][u] >= ts[k][u]
             /\ t <= Horizon => r[n][t] > 0
             /\ \A k \in Nodes : k # n => r[k] = ts[k]
             /\ CountOf(ts[n]) \in Nat /\ CountOf(r[n]) \in Nat
             /\ CountOf(r[n]) <= CountOf(ts[n]) + 1
  <1> DEFINE r == Scheduled(ts, n, t)
  <1>0. CountOf(ts[n]) \in Nat
    <2>1. ts[n] \in [0 .. Horizon -> Nat] /\ 0 \in 0 .. Horizon
      BY Constants DEF TimerTables
    <2> QED BY <2>1, CountChanged
  <1>1. CASE t <= Horizon
    <2> DEFINE old == ts[n]
               v == old[t] + 1
               row == [old EXCEPT ![t] = v]
    <2>0. t \in 0 .. Horizon /\ old \in [0 .. Horizon -> Nat]
      BY <1>1, Constants DEF TimerTables
    <2>2. r = [ts EXCEPT ![n] = row]
      BY <1>1, Zenon DEF Scheduled
    <2> HIDE DEF old
    <2>1. old[t] \in Nat /\ v \in Nat /\ v > 0 /\ v >= old[t]
      BY <2>0
    <2>3. row \in [0 .. Horizon -> Nat] /\ row[t] = v
          /\ \A u \in 0 .. Horizon : row[u] >= old[u]
      <3>1. row \in [0 .. Horizon -> Nat]
        BY <2>0, <2>1
      <3>2. \A u \in 0 .. Horizon : old[u] \in Nat /\ row[u] = IF u = t THEN v ELSE old[u]
        BY <2>0
      <3>3. ASSUME NEW u \in 0 .. Horizon PROVE row[u] >= old[u]
        <4> HIDE DEF row, v
        <4> QED BY <2>1, <3>2
      <3> QED BY <2>0, <3>1, <3>2, <3>3
    <2> HIDE DEF row, v, r
    <2>4. r \in TimerTables /\ r[n] = row /\ \A k \in Nodes : k # n => r[k] = ts[k]
      BY <2>2, <2>3 DEF TimerTables
    <2>5. ASSUME NEW k \in Nodes, NEW u \in 0 .. Horizon PROVE r[k][u] >= ts[k][u]
      <3>1. ts[k][u] \in Nat
        BY DEF TimerTables
      <3>2. CASE k = n
        BY <2>3, <2>4, <3>2 DEF old
      <3>3. CASE k # n
        BY <2>4, <3>1, <3>3
      <3> QED BY <3>2, <3>3
    <2>6. CountOf(row) = CountOf(old) + 1
      <3>1. \A u \in 0 .. Horizon : u # t => row[u] = old[u]
        BY <2>0 DEF row
      <3>2. CountOf(old) \in Nat /\ CountOf(row) = (CountOf(old) - old[t]) + row[t]
        BY <2>0, <2>3, <3>1, CountChanged
      <3> QED BY <2>1, <2>3, <3>2 DEF v
    <2> QED BY <1>0, <2>1, <2>3, <2>4, <2>5, <2>6 DEF r, old
  <1>2. CASE ~(t <= Horizon)
    <2>1. r = ts
      BY <1>2 DEF Scheduled
    <2>2. \A k \in Nodes, u \in 0 .. Horizon : ts[k][u] \in Nat
      BY DEF TimerTables
    <2> HIDE DEF r
    <2>3. \A k \in Nodes, u \in 0 .. Horizon : r[k][u] >= ts[k][u]
      BY <2>1, <2>2
    <2> QED BY <1>0, <1>2, <2>1, <2>3 DEF r
  <1> QED BY <1>1, <1>2

LEMMA IdleAtFacts ==
  ASSUME Basic, AirOK, NEW n \in Nodes
  PROVE  /\ MediumIdleAt(n) \in Nat /\ MediumIdleAt(n) >= now
         /\ \A x \in OnAir : Hears(n, x) \/ (x.tx = n /\ x.end <= Horizon) =>
               x.end <= MediumIdleAt(n)
         /\ MediumIdleAt(n) = now \/ \E x \in OnAir :
               /\ Hears(n, x) \/ (x.tx = n /\ x.end <= Horizon)
               /\ x.end = MediumIdleAt(n)
  <1> DEFINE H == {y \in OnAir : \/ n \in y.to /\ Power[y.tx][n] >= Threshold
                                 \/ y.tx = n /\ y.end <= Horizon}
             T == {now} \cup {x.end : x \in H}
  <1>1. MediumIdleAt(n) = Max(T)
    BY Zenon DEF MediumIdleAt
  <1>2. now + Air \in Nat /\ T # {} /\ T \subseteq 0 .. (now + Air)
    <2>1. \A x \in OnAir : x.end \in Nat /\ x.end <= now + Air
      <3> SUFFICES ASSUME NEW x \in OnAir PROVE x.end \in Nat /\ x.end <= now + Air
        OBVIOUS
      <3>1. x \in OnAirType /\ x.start <= now /\ x.end = x.start + Air
        BY OnAirFinite DEF AirOK
      <3> QED BY <3>1, Numbers DEF OnAirType
    <2> QED BY <2>1, Numbers
  <1>3. Max(T) \in T /\ \A y \in T : Max(T) >= y
    <2> HIDE DEF T
    <2> QED BY <1>2, MaxIsGreatest
  <1>4. \A x \in OnAir : x \in H <=> Hears(n, x) \/ (x.tx = n /\ x.end <= Horizon)
    BY DEF Hears
  <1> HIDE DEF H
  <1>5. \A x \in H : x \in OnAir
    BY DEF H
  <1>6. Max(T) \in Nat
    BY <1>2, <1>3
  <1>7. \A x \in H : x.end <= Max(T) /\ x.end \in Nat
    <2> SUFFICES ASSUME NEW x \in H PROVE x.end <= Max(T) /\ x.end \in Nat
      OBVIOUS
    <2>1. x.end \in T
      OBVIOUS
    <2>2. x.end \in 0 .. (now + Air) /\ Max(T) >= x.end
      BY <1>2, <1>3, <2>1
    <2> QED BY <1>2, <1>6, <2>2
  <1>8. Max(T) >= now
    BY <1>3
  <1>9. Max(T) = now \/ \E x \in H : x.end = Max(T)
    BY <1>3
  <1> QED BY <1>1, <1>4, <1>5, <1>6, <1>7, <1>8, <1>9

LEMMA NextTimerFacts ==
  ASSUME Basic, AirOK, NEW ts \in TimerTables, NEW n \in Nodes, NEW m, NEW busy,
         NextPollAt(m) \in Int, NextPollAt(m) # NoTime => NextPollAt(m) > now,
         busy => NextPollAt(m) = NoTime
  PROVE  LET r == NextTimer(ts, n, m, busy)
         IN  /\ r \in TimerTables
             /\ \A k \in Nodes, u \in 0 .. Horizon : r[k][u] >= ts[k][u]
             /\ NextPollAt(m) # NoTime /\ NextPollAt(m) <= Horizon => r[n][NextPollAt(m)] > 0
             /\ busy /\ MediumIdleAt(n) > now /\ MediumIdleAt(n) <= Horizon =>
                   r[n][MediumIdleAt(n)] > 0
             /\ \A k \in Nodes : k # n => r[k] = ts[k]
             /\ CountOf(ts[n]) \in Nat /\ CountOf(r[n]) \in Nat
             /\ CountOf(r[n]) <= CountOf(ts[n]) + 1
  <1> DEFINE at == NextPollAt(m)
             idle == MediumIdleAt(n)
             c == IF busy /\ idle > now THEN Scheduled(ts, n, idle) ELSE ts
             r == NextTimer(ts, n, m, busy)
  <1>1. idle \in Nat
    BY IdleAtFacts
  <1>2. /\ c \in TimerTables
        /\ \A k \in Nodes, u \in 0 .. Horizon : c[k][u] >= ts[k][u]
        /\ busy /\ idle > now /\ idle <= Horizon => c[n][idle] > 0
        /\ \A k \in Nodes : k # n => c[k] = ts[k]
        /\ CountOf(ts[n]) \in Nat /\ CountOf(c[n]) \in Nat
        /\ CountOf(c[n]) <= CountOf(ts[n]) + 1 /\ (~busy => c = ts)
    <2> HIDE DEF idle
    <2>1. CASE busy /\ idle > now
      BY <1>1, <2>1, ScheduledFacts
    <2>2. CASE ~(busy /\ idle > now)
      <3>1. \A k \in Nodes, u \in 0 .. Horizon : ts[k][u] \in Nat
        BY DEF TimerTables
      <3>2. CountOf(ts[n]) \in Nat
        BY ScheduledFacts, 0 \in Nat
      <3> QED BY <2>2, <3>1, <3>2
    <2> QED BY <2>1, <2>2
  <1>3. r = IF at # NoTime THEN Scheduled(c, n, Max({at, now + 1})) ELSE c
    BY Zenon DEF NextTimer
  <1> HIDE DEF c
  <1>4. ASSUME NEW k \in Nodes, NEW u \in 0 .. Horizon PROVE c[k][u] \in Nat /\ ts[k][u] \in Nat
    BY <1>2 DEF TimerTables
  <1>5. CASE at # NoTime
    <2>1. at > now /\ at \in Int /\ now + 1 \in Int
      BY <1>5, Numbers
    <2>2. Max({at, now + 1}) = at
      <3> HIDE DEF at
      <3>1. Max({at, now + 1}) = IF at >= now + 1 THEN at ELSE now + 1
        BY <2>1, MaxOfTwo
      <3> QED BY <2>1, <3>1, Numbers
    <2> HIDE DEF at, idle, r
    <2>3. r = Scheduled(c, n, at) /\ at \in Nat
      BY <1>3, <1>5, <2>1, <2>2, Numbers
    <2>4. /\ r \in TimerTables
          /\ \A k \in Nodes, u \in 0 .. Horizon : r[k][u] >= c[k][u]
          /\ at <= Horizon => r[n][at] > 0
          /\ \A k \in Nodes : k # n => r[k] = c[k]
          /\ CountOf(r[n]) \in Nat /\ CountOf(r[n]) <= CountOf(c[n]) + 1
      BY <1>2, <2>3, ScheduledFacts
    <2>7. c = ts
      BY <1>2, <1>5 DEF at
    <2>5. ASSUME NEW k \in Nodes, NEW u \in 0 .. Horizon
          PROVE  r[k][u] >= ts[k][u] /\ (c[k][u] > 0 => r[k][u] > 0)
      <3>1. r[k][u] \in Nat
        BY <2>4 DEF TimerTables
      <3>2. r[k][u] >= c[k][u] /\ c[k][u] >= ts[k][u] /\ c[k][u] \in Nat /\ ts[k][u] \in Nat
        BY <1>2, <1>4, <2>4
      <3> QED BY <3>1, <3>2
    <2>6. idle <= Horizon => idle \in 0 .. Horizon
      BY <1>1, Constants
    <2> QED BY <1>2, <2>4, <2>5, <2>6, <2>7 DEF at, idle, r
  <1>6. CASE ~(at # NoTime)
    <2>1. r = c
      BY <1>3, <1>6
    <2> HIDE DEF r, at, idle
    <2> QED BY <1>2, <1>6, <2>1 DEF at, idle, r
  <1> QED BY <1>5, <1>6

(* A node that nothing happens to keeps what it has.                       *)
LEMMA MacStays ==
  ASSUME NEW k \in Nodes, NEW m, MacOK(k, m), Basic, now' = now,
         \A f \in DOMAIN frames : f \in DOMAIN frames' /\ frames'[f] = frames[f],
         \A y \in OnAir' : y \in OnAir \/ ~Hears(k, y) \/ (y.start \in Nat /\ now <= y.start)
  PROVE  MacOK(k, m)'
  <1>1. /\ m \in MacStates /\ QueueOK(k, m.queue) /\ BackoffOK(m) /\ SplitOK(m)
        /\ WaitOK(k, m)
    BY DEF MacOK
  <1>2. \A i \in DOMAIN m.queue :
           /\ m.queue[i] \in DOMAIN frames /\ frames'[m.queue[i]] = frames[m.queue[i]]
           /\ frames[m.queue[i]].ready \in Nat /\ frames[m.queue[i]].ready <= now
    BY <1>1, FrameFacts DEF QueueOK
  <1>3. QueueOK(k, m.queue)'
    <2>1. Len(m.queue) <= QueueDepth
      BY <1>1 DEF QueueOK
    <2>2. \A i \in DOMAIN m.queue :
             /\ m.queue[i] \in DOMAIN frames' /\ frames'[m.queue[i]].node = k
             /\ frames'[m.queue[i]].ready <= now'
      BY <1>1, <1>2 DEF QueueOK
    <2>3. \A i, j \in DOMAIN m.queue : i < j => Earlier(m.queue[i], m.queue[j])'
      BY <1>1, <1>2 DEF QueueOK, Earlier
    <2> QED BY <2>1, <2>2, <2>3 DEF QueueOK
  <1>4. BackoffOK(m)'
    BY <1>1 DEF BackoffOK
  <1>5. SplitOK(m)'
    <2> SUFFICES ASSUME m.backoff.armed
                 PROVE  /\ frames'[m.queue[1]].ready + m.backoff.drawn * Slot
                             <= now + m.backoff.remaining * Slot
                        /\ ~m.busy => frames'[m.queue[1]].ready + m.backoff.aifs
                                        + m.backoff.drawn * Slot <= Due(m.backoff)
      BY DEF SplitOK
    <2>1. 1 \in DOMAIN m.queue
      BY <1>1, BackoffFields DEF BackoffOK
    <2>2. frames'[m.queue[1]] = frames[m.queue[1]]
      BY <1>2, <2>1
    <2> QED BY <1>1, <2>2 DEF SplitOK
  <1>6. WaitOK(k, m)'
    <2> SUFFICES ASSUME NEW y \in OnAir', NEW i \in DOMAIN m.queue,
                        y.start < frames'[m.queue[i]].ready,
                        frames'[m.queue[i]].ready < y.end, Hears(k, y)
                 PROVE  m.busy \/ y.end + Aifs <= m.backoff.resume
      BY DEF WaitOK
    <2>1. y \in OnAir
      <3>1. ~(y.start \in Nat /\ now <= y.start)
        BY <1>2, Numbers
      <3> QED BY <3>1
    <2> QED BY <1>1, <1>2, <2>1 DEF WaitOK
  <1> QED BY <1>1, <1>3, <1>4, <1>5, <1>6 DEF MacOK

(***************************************************************************)
(* What a timer of n does: m is the state it leaves, x the frame it may    *)
(* start.                                                                  *)
(***************************************************************************)

Mine(n) == ToSet(mac[n].queue) \cup Signed(n)

Begins(n, m, x) ==
  /\ x \in OnAirType /\ x.tx = n /\ x.start = now /\ x.end = now + Air
  /\ n \notin x.to /\ (x.end > Horizon => x.to = {})
  /\ x.due = now /\ ~Busy(n, now)
  /\ x.frame \in Mine(n) /\ x.frame \in DOMAIN frames /\ frames[x.frame].node = n
  /\ frames[x.frame].ready + x.aifs + x.slots * Slot <= now
  /\ frames[x.frame].ready <= now
  /\ x.aifs \in Nat /\ x.slots \in Nat /\ x.aifs <= Aifs /\ x.slots <= Cw
  /\ \A y \in OnAir :
        y.start < frames[x.frame].ready /\ frames[x.frame].ready < y.end /\ Hears(n, y)
          => y.end + Aifs <= now
  /\ \A j \in DOMAIN m.queue : Earlier(x.frame, m.queue[j])

Leaves(n, m) ==
  /\ MacOK(n, m) /\ (m.busy <=> Busy(n, now))
  /\ ~m.busy /\ m.backoff.armed => Due(m.backoff) > now
  /\ \A j \in DOMAIN m.queue : m.queue[j] \in Mine(n)

(* The poll of a timer, and the frame it starts.                           *)
LEMMA PollFacts ==
  ASSUME Basic, AirOK, PendingOK, NEW n \in Nodes, MacOK(n, mac[n]), NEW draw \in Draws(n)
  PROVE  LET p == Polled([mac |-> Queued(n, draw), sent |-> <<>>], draw)
             begun == Transmissions(n, p.sent)
         IN  /\ Leaves(n, p.mac)
             /\ begun = <<>> \/ \E x : begun = <<x>> /\ Begins(n, p.mac, x)
  <1> DEFINE q == Queued(n, draw)
             p == Polled([mac |-> q, sent |-> <<>>], draw)
             begun == Transmissions(n, p.sent)
  <1>1. /\ MacOK(n, q) /\ (q.busy <=> Busy(n, now))
        /\ \A j \in DOMAIN q.queue : q.queue[j] \in Mine(n)
    BY QueuedOK DEF Mine
  <1>2. \A f \in Mine(n) : draw[f] \in 0 .. Cw
    <2> SUFFICES ASSUME NEW f \in Mine(n) PROVE draw[f] \in 0 .. Cw
      OBVIOUS
    <2>1. CASE f \in Signed(n)
      BY <2>1 DEF Draws, Signed, Basic
    <2>2. CASE f \in ToSet(mac[n].queue)
      <3>1. f \in DOMAIN frames /\ frames[f].node = n
        BY <2>2 DEF ToSet, MacOK, QueueOK
      <3> QED BY <2>2, <3>1 DEF Draws
    <2> QED BY <2>1, <2>2 DEF Mine
  <1>3. \A j \in DOMAIN q.queue : draw[q.queue[j]] \in 0 .. Cw
    BY <1>1, <1>2
  <1> DEFINE s == [frame |-> q.queue[1], due |-> now,
                   aifs |-> q.backoff.aifs, slots |-> q.backoff.drawn]
  <1> HIDE DEF q
  <1>4. /\ MacOK(n, p.mac) /\ p.mac.busy = q.busy
        /\ ~p.mac.busy /\ p.mac.backoff.armed => Due(p.mac.backoff) > now
        /\ \/ p.sent = <<>> /\ p.mac.queue = q.queue
           \/ /\ ~q.busy /\ q.queue # <<>> /\ p.mac.queue = Tail(q.queue) /\ Owed(n, q)
              /\ p.sent = <<s>>
    BY <1>1, <1>3, PolledOK, Zenon
  <1> HIDE DEF p
  <1>5. q \in MacStates /\ QueueOK(n, q.queue)
    BY <1>1 DEF MacOK
  <1>6. q.queue \in Seq(Nat) /\ Len(q.queue) \in Nat /\ DOMAIN q.queue = 1 .. Len(q.queue)
        /\ (q.queue # <<>> => Len(q.queue) >= 1)
    BY <1>5, BackoffFields
  <1>7. CASE p.sent = <<>> /\ p.mac.queue = q.queue
    <2>1. begun = <<>>
      BY <1>7 DEF Transmissions
    <2>2. Leaves(n, p.mac)
      BY <1>1, <1>4, <1>7 DEF Leaves
    <2> QED BY <2>1, <2>2 DEF p, q
  <1>8. CASE /\ ~q.busy /\ q.queue # <<>> /\ p.mac.queue = Tail(q.queue) /\ Owed(n, q)
             /\ p.sent = <<s>>
    <2>1. \A j \in DOMAIN p.mac.queue :
             j \in Nat /\ j + 1 \in DOMAIN q.queue /\ 1 < j + 1 /\ p.mac.queue[j] = q.queue[j + 1]
      BY <1>6, <1>8
    <2>2. Leaves(n, p.mac)
      BY <1>1, <1>4, <2>1 DEF Leaves
    <2>3. CASE n \notin here
      BY <2>2, <2>3 DEF Transmissions, p, q
    <2>4. CASE n \in here
      <3> DEFINE x == Started(n, s)
      <3>1. begun = <<x>>
        <4>1. begun = [i \in DOMAIN p.sent |-> Started(n, p.sent[i])]
          BY <2>4 DEF Transmissions
        <4>2. p.sent = <<s>> /\ DOMAIN <<s>> = {1} /\ <<s>>[1] = s
          BY <1>8
        <4>3. begun = [i \in {1} |-> Started(n, s)]
          <5> HIDE DEF s, begun
          <5> QED BY <4>1, <4>2
        <4> HIDE DEF s, begun, x
        <4>4. <<x>> = [i \in {1} |-> x]
          OBVIOUS
        <4> QED BY <4>3, <4>4 DEF x
      <3>2. /\ x.frame = q.queue[1] /\ x.tx = n /\ x.start = now /\ x.end = now + Air
            /\ x.to = IF now + Air > Horizon THEN {} ELSE {r \in here \ {n} : Power[n][r] > 0}
            /\ x.due = now /\ x.aifs = q.backoff.aifs /\ x.slots = q.backoff.drawn
        BY DEF Started
      <3>3. 1 \in DOMAIN q.queue /\ q.queue[1] \in Nat
        BY <1>6, <1>8
      <3>4. /\ q.backoff.aifs \in Nat /\ q.backoff.drawn \in Nat
            /\ q.backoff.aifs <= Aifs /\ q.backoff.drawn <= Cw
        BY <1>1, Numbers, SMTT(60) DEF MacOK, BackoffOK
      <3>5. x.to \subseteq Nodes /\ n \notin x.to /\ (x.end > Horizon => x.to = {})
        BY <3>2 DEF Basic
      <3>6. now \in Nat /\ now + Air \in Nat
        BY Numbers
      <3>7. x \in OnAirType
        <4> DEFINE to == IF now + Air > Horizon THEN {} ELSE {r \in here \ {n} : Power[n][r] > 0}
        <4>1. x = [frame |-> q.queue[1], tx |-> n, start |-> now, end |-> now + Air, to |-> to,
                   due |-> now, aifs |-> q.backoff.aifs, slots |-> q.backoff.drawn]
          BY DEF Started
        <4>2. to \in SUBSET Nodes
          BY <3>2, <3>5
        <4>3. now \in Int /\ q.backoff.aifs \in Int /\ q.backoff.drawn \in Int
          BY <3>4, <3>6
        <4> HIDE DEF to, x, s
        <4> QED BY <3>3, <3>6, <4>1, <4>2, <4>3 DEF OnAirType
      <3>8. x.frame \in Mine(n) /\ x.frame \in DOMAIN frames /\ frames[x.frame].node = n
            /\ frames[x.frame].ready <= now
        BY <1>1, <1>5, <3>2, <3>3 DEF QueueOK
      <3>9. \A j \in DOMAIN p.mac.queue : Earlier(x.frame, p.mac.queue[j])
        BY <1>5, <2>1, <3>2, <3>3 DEF QueueOK
      <3> HIDE DEF x, begun
      <3>10. /\ frames[x.frame].ready + x.aifs + x.slots * Slot <= now
             /\ \A y \in OnAir :
                   y.start < frames[x.frame].ready /\ frames[x.frame].ready < y.end
                     /\ Hears(n, y) => y.end + Aifs <= now
        BY <1>8, <3>2 DEF Owed
      <3>11. Begins(n, p.mac, x)
        BY <1>1, <1>8, <3>2, <3>4, <3>5, <3>7, <3>8, <3>9, <3>10 DEF Begins
      <3> QED BY <2>2, <3>1, <3>11 DEF p, q, begun
    <2> QED BY <2>3, <2>4
  <1> QED BY <1>4, <1>7, <1>8

(* The meters after the sample, and after the frame that begins.           *)
Sampled(n) == [meter EXCEPT ![n] = MeterOnCca(@, mac[n], Busy(n, now))]
Heard(meters, x) ==
  [r \in Nodes |->
     IF r \in x.to /\ Power[x.tx][r] >= Threshold
     THEN NoteBusy(meters[r], x.start, x.end) ELSE meters[r]]

(* A loop over no frames, and over one.                                    *)
LEMMA NotedFacts ==
  ASSUME NEW meters
  PROVE  Noted(meters, <<>>) = meters /\ \A x : Noted(meters, <<x>>) = Heard(meters, x)
  <1>1. Noted(meters, <<>>) = meters
    <2> DEFINE s == <<>>
               Eq(h) == h = [t \in SUBSET DOMAIN s |->
                               IF t = {} THEN meters ELSE Heard(h[t \ {Max(t)}], s[Max(t)])]
               w == [t \in SUBSET DOMAIN s |-> meters]
    <2>1. Noted(meters, s) = (CHOOSE h : Eq(h))[DOMAIN s]
      BY Zenon DEF Noted, FoldLeft, MapThenFoldSet, Heard
    <2>2. DOMAIN s = {}
      OBVIOUS
    <2>3. Eq(w)
      BY <2>2
    <2> HIDE DEF Eq, w
    <2>4. Eq(CHOOSE h : Eq(h))
      BY <2>3, Zenon
    <2>5. (CHOOSE h : Eq(h))[DOMAIN s] = meters
      BY <2>2, <2>4 DEF Eq
    <2> QED BY <2>1, <2>5
  <1>2. ASSUME NEW x PROVE Noted(meters, <<x>>) = Heard(meters, x)
    <2> DEFINE s == <<x>>
               Eq(h) == h = [t \in SUBSET DOMAIN s |->
                               IF t = {} THEN meters ELSE Heard(h[t \ {Max(t)}], s[Max(t)])]
               w == [t \in SUBSET DOMAIN s |-> IF t = {} THEN meters ELSE Heard(meters, x)]
    <2>1. Noted(meters, s) = (CHOOSE h : Eq(h))[DOMAIN s]
      BY Zenon DEF Noted, FoldLeft, MapThenFoldSet, Heard
    <2>2. DOMAIN s = {1} /\ s[1] = x
      OBVIOUS
    <2> HIDE DEF s
    <2>3. Max({1}) = 1
      BY MaxOfTwo, {1} = {1, 1}
    <2>4. \A t \in SUBSET DOMAIN s : t = {} \/ (t = {1} /\ t \ {Max(t)} = {} /\ s[Max(t)] = x)
      BY <2>2, <2>3
    <2>5. Eq(w)
      <3>1. \A t \in SUBSET DOMAIN s :
               w[t] = IF t = {} THEN meters ELSE Heard(w[t \ {Max(t)}], s[Max(t)])
        BY <2>2, <2>4
      <3> QED BY <3>1
    <2> HIDE DEF w
    <2>6. Eq(CHOOSE h : Eq(h))
      <3> HIDE DEF Eq
      <3> QED BY <2>5, Zenon
    <2>7. PICK h : h = (CHOOSE g : Eq(g))
      OBVIOUS
    <2>8. \A t \in SUBSET DOMAIN s :
             h[t] = IF t = {} THEN meters ELSE Heard(h[t \ {Max(t)}], s[Max(t)])
      BY <2>6, <2>7
    <2> HIDE DEF Eq
    <2>9. h[{}] = meters
      BY <2>8
    <2>10. h[DOMAIN s] = Heard(h[DOMAIN s \ {Max(DOMAIN s)}], s[Max(DOMAIN s)])
      BY <2>2, <2>8
    <2>11. DOMAIN s \ {Max(DOMAIN s)} = {} /\ s[Max(DOMAIN s)] = x
      BY <2>2, <2>3
    <2>12. h[DOMAIN s] = Heard(meters, x)
      BY <2>9, <2>10, <2>11
    <2> QED BY <2>1, <2>7, <2>12 DEF s
  <1> QED BY <1>1, <1>2

(* What a timer does to the variables.                                     *)
Fires(n, m, x) ==
  /\ Leaves(n, m) /\ mac' = [mac EXCEPT ![n] = m]
  /\ pending' = pending \ Signed(n) /\ now' = now /\ here' = here /\ frames' = frames
  /\ timers' \in TimerTables
  /\ \A k \in Nodes, u \in 0 .. Horizon : k # n \/ u # now => timers'[k][u] >= timers[k][u]
  /\ ~m.busy /\ m.backoff.armed /\ Due(m.backoff) <= Horizon => timers'[n][Due(m.backoff)] > 0
  /\ Busy(n, now) /\ MediumIdleAt(n) > now /\ MediumIdleAt(n) <= Horizon =>
        timers'[n][MediumIdleAt(n)] > 0
  /\ \A k \in Nodes : CountOf(timers'[k]) <= CountOf(timers[k])
  /\ \/ air' = air /\ meter' = Sampled(n)
     \/ /\ air' = Append(air, x) /\ Begins(n, m, x)
        /\ meter' = Heard(Sampled(n), x)

LEMMA TimerFacts ==
  ASSUME IInv, NEW n \in Nodes, NEW draw \in Draws(n), MacTimer(n, draw)
  PROVE  \E m, x : Fires(n, m, x)
  <1> DEFINE busy == Busy(n, now)
             p == Polled([mac |-> Queued(n, draw), sent |-> <<>>], draw)
             begun == Transmissions(n, p.sent)
             ts == [timers EXCEPT ![n][now] = @ - 1]
             m == p.mac
  <1>1. Basic /\ AirOK /\ PendingOK /\ MacOK(n, mac[n])
    BY DEF IInv
  <1>2. /\ timers[n][now] > 0 /\ pending' = pending \ ToSet(Ready(n))
        /\ mac' = [mac EXCEPT ![n] = m] /\ air' = air \o begun
        /\ timers' = NextTimer(ts, n, m, busy)
        /\ now' = now /\ here' = here /\ frames' = frames
        /\ meter' = Noted(Sampled(n), begun)
    BY Zenon DEF MacTimer, Queued, Polled, EnqueueAll, Sampled
  <1>3. /\ Leaves(n, m)
        /\ begun = <<>> \/ \E x : begun = <<x>> /\ Begins(n, m, x)
    BY <1>1, PollFacts, Zenon
  <1> HIDE DEF p, begun, busy
  <1>4. pending' = pending \ Signed(n)
    BY <1>1, <1>2, ReadyFacts
  <1>5. timers \in TimerTables /\ now \in 0 .. Horizon
    BY <1>1 DEF Basic, TimerTables
  <1>6. /\ ts \in TimerTables
        /\ \A k \in Nodes, u \in 0 .. Horizon : k # n \/ u # now => ts[k][u] = timers[k][u]
        /\ \A k \in Nodes : k # n => ts[k] = timers[k]
        /\ CountOf(timers[n]) \in Nat /\ CountOf(ts[n]) = CountOf(timers[n]) - 1
    <2> DEFINE old == timers[n]
               v == old[now] - 1
               row == [old EXCEPT ![now] = v]
    <2>1. old \in [0 .. Horizon -> Nat]
      BY <1>5 DEF TimerTables
    <2>2. ts = [timers EXCEPT ![n] = row]
      BY Zenon
    <2>3. old[now] > 0
      BY <1>2
    <2> HIDE DEF old, ts
    <2>4. v \in Nat
      BY <1>5, <2>1, <2>3
    <2> HIDE DEF v
    <2>5. row \in [0 .. Horizon -> Nat] /\ \A u \in 0 .. Horizon : u # now => row[u] = old[u]
      BY <1>5, <2>1, <2>4
    <2>7. CountOf(old) \in Nat /\ CountOf(row) = CountOf(old) - 1
      <3>1. row[now] = v
        BY <1>5, <2>1
      <3>2. CountOf(old) \in Nat /\ CountOf(row) = (CountOf(old) - old[now]) + row[now]
        BY <1>5, <2>1, <2>5, CountChanged
      <3>3. old[now] \in Nat
        BY <1>5, <2>1
      <3> QED BY <3>1, <3>2, <3>3 DEF v
    <2> HIDE DEF row
    <2>6. ts \in TimerTables /\ ts[n] = row /\ \A k \in Nodes : k # n => ts[k] = timers[k]
      BY <1>5, <2>2, <2>5 DEF TimerTables
    <2> QED BY <2>5, <2>6, <2>7 DEF old
  <1> HIDE DEF ts
  <1>7. m \in MacStates /\ BackoffOK(m)
    BY <1>3 DEF Leaves, MacOK
  <1> HIDE DEF m
  <1>8. /\ NextPollAt(m) \in Int /\ (NextPollAt(m) # NoTime => NextPollAt(m) > now)
        /\ ~m.busy /\ m.backoff.armed =>
              NextPollAt(m) = Due(m.backoff) /\ NextPollAt(m) # NoTime
        /\ busy => NextPollAt(m) = NoTime
    <2>0. m.busy <=> busy
      BY <1>3 DEF Leaves, busy
    <2>1. m.backoff.resume \in Int /\ m.backoff.remaining \in Nat
      BY <1>1, <1>7, Numbers, BackoffFields DEF BackoffOK
    <2>2. m.backoff.remaining * Slot \in Nat
      BY <2>1, SlotTimes
    <2>3. Due(m.backoff) \in Int
      BY <2>1, <2>2 DEF Due
    <2>4. CASE m.busy \/ m.queue = <<>> \/ ~m.backoff.armed \/ m.backoff.resume = NoTime
      <3>1. NextPollAt(m) = NoTime
        BY <2>4 DEF NextPollAt
      <3>2. m.busy \/ ~m.backoff.armed
        BY <2>4, <1>7, <1>1, Numbers, SMTT(60) DEF BackoffOK
      <3> QED BY <2>0, <3>1, <3>2 DEF NoTime
    <2>5. CASE ~(m.busy \/ m.queue = <<>> \/ ~m.backoff.armed \/ m.backoff.resume = NoTime)
      <3>1. NextPollAt(m) = Due(m.backoff) /\ Due(m.backoff) > now
        BY <1>3, <2>5 DEF NextPollAt, Leaves
      <3> QED BY <1>1, <2>0, <2>3, <2>5, <3>1, Numbers
    <2> QED BY <2>4, <2>5
  <1>9. /\ timers' \in TimerTables
        /\ \A k \in Nodes, u \in 0 .. Horizon : timers'[k][u] >= ts[k][u]
        /\ NextPollAt(m) # NoTime /\ NextPollAt(m) <= Horizon => timers'[n][NextPollAt(m)] > 0
        /\ busy /\ MediumIdleAt(n) > now /\ MediumIdleAt(n) <= Horizon =>
              timers'[n][MediumIdleAt(n)] > 0
        /\ \A k \in Nodes : k # n => timers'[k] = ts[k]
        /\ CountOf(ts[n]) \in Nat /\ CountOf(timers'[n]) \in Nat
        /\ CountOf(timers'[n]) <= CountOf(ts[n]) + 1
    <2> DEFINE r == NextTimer(ts, n, m, busy)
    <2>1. /\ r \in TimerTables
          /\ \A k \in Nodes, u \in 0 .. Horizon : r[k][u] >= ts[k][u]
          /\ NextPollAt(m) # NoTime /\ NextPollAt(m) <= Horizon => r[n][NextPollAt(m)] > 0
          /\ busy /\ MediumIdleAt(n) > now /\ MediumIdleAt(n) <= Horizon =>
                r[n][MediumIdleAt(n)] > 0
          /\ \A k \in Nodes : k # n => r[k] = ts[k]
          /\ CountOf(ts[n]) \in Nat /\ CountOf(r[n]) \in Nat
          /\ CountOf(r[n]) <= CountOf(ts[n]) + 1
      BY <1>1, <1>6, <1>8, NextTimerFacts
    <2>2. timers' = r
      BY <1>2
    <2> HIDE DEF r
    <2> QED BY <2>1, <2>2
  <1>10. \A k \in Nodes, u \in 0 .. Horizon : k # n \/ u # now => timers'[k][u] >= timers[k][u]
    BY <1>6, <1>9
  <1>11. ~m.busy /\ m.backoff.armed /\ Due(m.backoff) <= Horizon =>
            timers'[n][Due(m.backoff)] > 0
    BY <1>8, <1>9
  <1>14. \A k \in Nodes : CountOf(timers'[k]) <= CountOf(timers[k])
    <2> SUFFICES ASSUME NEW k \in Nodes PROVE CountOf(timers'[k]) <= CountOf(timers[k])
      OBVIOUS
    <2>1. CASE k = n
      BY <1>6, <1>9, <2>1
    <2>2. CASE k # n
      <3>1. timers'[k] = timers[k]
        BY <1>6, <1>9, <2>2
      <3>2. timers[k] \in [0 .. Horizon -> Nat] /\ 0 \in 0 .. Horizon
        BY <1>5, Constants DEF TimerTables
      <3>3. CountOf(timers[k]) \in Nat
        BY <3>2, CountChanged
      <3> QED BY <3>1, <3>3
    <2> QED BY <2>1, <2>2
  <1>15. Busy(n, now) /\ MediumIdleAt(n) > now /\ MediumIdleAt(n) <= Horizon =>
            timers'[n][MediumIdleAt(n)] > 0
    BY <1>9 DEF busy
  <1>12. CASE begun = <<>>
    <2>1. air' = air /\ meter' = Sampled(n)
      BY <1>1, <1>2, <1>12, NotedFacts DEF Basic
    <2> QED BY <1>2, <1>3, <1>4, <1>9, <1>10, <1>11, <1>14, <1>15, <2>1 DEF Fires
  <1>13. ASSUME NEW x, begun = <<x>>, Begins(n, m, x) PROVE \E y : Fires(n, m, y)
    <2>1. air' = Append(air, x)
      <3>1. x \in OnAirType /\ air \in Seq(OnAirType)
        BY <1>1, <1>13 DEF Begins, Basic
      <3> QED BY <1>2, <1>13, <3>1
    <2>2. meter' = Heard(Sampled(n), x)
      BY <1>2, <1>13, NotedFacts
    <2> QED BY <1>2, <1>3, <1>4, <1>9, <1>10, <1>11, <1>13, <1>14, <1>15, <2>1, <2>2 DEF Fires
  <1> QED BY <1>3, <1>12, <1>13

(***************************************************************************)
(* Every step keeps the invariant.                                         *)
(***************************************************************************)

LEMMA FiresOK ==
  ASSUME IInv, NEW n \in Nodes, NEW m, NEW x, Fires(n, m, x)
  PROVE  IInv'
  <1>1. Basic /\ AirOK /\ PendingOK /\ Access
        /\ \A k \in Nodes : MacOK(k, mac[k]) /\ PollTimer(k, mac[k])
    BY DEF IInv
  <1>2. /\ Leaves(n, m) /\ mac' = [mac EXCEPT ![n] = m]
        /\ pending' = pending \ Signed(n) /\ now' = now /\ here' = here /\ frames' = frames
        /\ timers' \in TimerTables
        /\ \A k \in Nodes, u \in 0 .. Horizon : k # n \/ u # now => timers'[k][u] >= timers[k][u]
        /\ ~m.busy /\ m.backoff.armed /\ Due(m.backoff) <= Horizon =>
              timers'[n][Due(m.backoff)] > 0
    BY DEF Fires
  <1>3. /\ MacOK(n, m) /\ m \in MacStates
        /\ \A j \in DOMAIN m.queue : m.queue[j] \in Mine(n)
    BY <1>2 DEF Leaves, MacOK
  <1>4. /\ mac' \in [Nodes -> MacStates] /\ mac'[n] = m
        /\ \A k \in Nodes : k # n => mac'[k] = mac[k]
    BY <1>1, <1>2, <1>3 DEF Basic
  <1>5. /\ air \in Seq(OnAirType) /\ Len(air) \in Nat /\ DOMAIN air = 1 .. Len(air)
        /\ \A i \in DOMAIN air : air[i] \in OnAirType /\ air[i] \in OnAir
    BY <1>1 DEF Basic, OnAir
  <1>6. /\ air' \in Seq(OnAirType)
        /\ \A i \in DOMAIN air' :
              \/ i \in DOMAIN air /\ air'[i] = air[i]
              \/ /\ Begins(n, m, x) /\ i = Len(air) + 1 /\ air'[i] = x
                 /\ \A j \in DOMAIN air' : j # i => j \in DOMAIN air /\ j < i /\ air'[j] = air[j]
    <2>1. CASE air' = air
      BY <1>5, <2>1
    <2>2. CASE air' = Append(air, x) /\ Begins(n, m, x)
      <3>1. x \in OnAirType
        BY <2>2 DEF Begins
      <3>2. /\ air' \in Seq(OnAirType) /\ DOMAIN air' = 1 .. (Len(air) + 1)
            /\ \A i \in 1 .. Len(air) : air'[i] = air[i]
            /\ air'[Len(air) + 1] = x
        BY <1>5, <2>2, <3>1
      <3>3. \A i \in DOMAIN air' : i \in DOMAIN air \/ i = Len(air) + 1
        BY <1>5, <3>2
      <3>4. \A i \in DOMAIN air : air'[i] = air[i] /\ i < Len(air) + 1
        BY <1>5, <3>2
      <3> QED BY <2>2, <3>2, <3>3, <3>4
    <2> QED BY <2>1, <2>2 DEF Fires
  <1>7. \A y \in OnAir' : y \in OnAir \/ (y = x /\ Begins(n, m, x))
    BY <1>5, <1>6 DEF OnAir
  <1>8. Begins(n, m, x) =>
          /\ x.tx = n /\ x.start = now /\ x.end = now + Air /\ x.frame \in Mine(n)
          /\ n \notin x.to /\ ~Hears(n, x) /\ x.start \in Nat
    BY <1>1, Numbers DEF Begins, Hears
  <1>9. \A f \in Mine(n) :
           /\ f \in DOMAIN frames /\ frames[f].node = n /\ frames[f].ready <= now
           /\ f \in Nat /\ frames[f].ready \in Nat
    <2> SUFFICES ASSUME NEW f \in Mine(n)
                 PROVE  f \in DOMAIN frames /\ frames[f].node = n /\ frames[f].ready <= now
      BY <1>1, FrameFacts
    <2>1. CASE f \in Signed(n)
      BY <1>1, <2>1 DEF Signed, Basic
    <2>2. CASE f \in ToSet(mac[n].queue)
      BY <1>1, <2>2 DEF ToSet, MacOK, QueueOK
    <2> QED BY <2>1, <2>2 DEF Mine
  <1>10. Basic'
    <2>1. pending' \subseteq DOMAIN frames
      BY <1>1, <1>2 DEF Basic
    <2> QED BY <1>1, <1>2, <1>4, <1>6, <2>1 DEF Basic, TimerTables
  <1>11. ASSUME NEW k \in Nodes PROVE MacOK(k, mac[k])' /\ PollTimer(k, mac[k])'
    <2>1. PICK v : v = mac'[k]
      OBVIOUS
    <2>2. MacOK(k, v)
      BY <1>1, <1>3, <1>4, <2>1
    <2>3. MacOK(k, v)'
      <3>1. \A f \in DOMAIN frames : f \in DOMAIN frames' /\ frames'[f] = frames[f]
        BY <1>2
      <3>2. \A y \in OnAir' : y \in OnAir \/ ~Hears(k, y) \/ (y.start \in Nat /\ now <= y.start)
        BY <1>1, <1>7, <1>8, Numbers
      <3> QED BY <1>1, <1>2, <2>2, <3>1, <3>2, MacStays
    <2>4. PollTimer(k, mac[k])'
      <3> SUFFICES ASSUME ~v.busy, v.backoff.armed, Due(v.backoff) <= Horizon
                   PROVE  timers'[k][Due(v.backoff)] > 0
        BY <2>1 DEF PollTimer, Due
      <3>1. CASE k = n
        BY <1>2, <1>4, <2>1, <3>1
      <3>2. CASE k # n
        <4>1. v = mac[k]
          BY <1>4, <2>1, <3>2
        <4>2. timers[k][Due(v.backoff)] > 0
          BY <1>1, <4>1 DEF PollTimer
        <4>3. Due(v.backoff) \in 0 .. Horizon
          <5>1. v \in MacStates /\ now <= Due(v.backoff) /\ v.backoff.resume \in Int
                /\ v.backoff.remaining \in Nat
            BY <1>1, <2>2, Numbers, BackoffFields DEF MacOK, BackoffOK
          <5>2. v.backoff.remaining * Slot \in Nat
            BY <5>1, SlotTimes
          <5>3. Due(v.backoff) \in Int
            BY <5>1, <5>2 DEF Due
          <5> QED BY <1>1, <5>1, <5>3, Numbers
        <4>4. timers'[k][Due(v.backoff)] >= timers[k][Due(v.backoff)]
          BY <1>2, <3>2, <4>3
        <4>5. timers[k][Due(v.backoff)] \in Nat /\ timers'[k][Due(v.backoff)] \in Nat
          BY <1>1, <1>2, <4>3 DEF Basic, TimerTables
        <4> QED BY <4>2, <4>4, <4>5
      <3> QED BY <3>1, <3>2
    <2> QED BY <2>1, <2>3, <2>4
  <1>12. ASSUME NEW f \in pending', frames[f].node = n
         PROVE  /\ f \in pending /\ f \in Nat /\ frames[f].ready \in Nat
                /\ frames[f].ready <= Horizon
                /\ now < frames[f].ready /\ \A g \in Mine(n) : Earlier(g, f)
    <2>1. f \in pending /\ f \notin Signed(n) /\ f \in DOMAIN frames
      BY <1>1, <1>2 DEF Basic
    <2>2. f \in Nat /\ frames[f].ready \in Nat /\ frames[f].ready <= Horizon
      BY <1>1, <2>1, FrameFacts
    <2>3. now < frames[f].ready
      BY <1>1, <1>12, <2>1, <2>2, Numbers DEF Signed
    <2>4. \A g \in Mine(n) : Earlier(g, f)
      BY <1>1, <1>9, <2>2, <2>3, Numbers DEF Earlier
    <2> QED BY <2>1, <2>2, <2>3, <2>4
  <1>13. PendingOK'
    <2> SUFFICES ASSUME NEW f \in pending'
                 PROVE  /\ now <= frames[f].ready
                        /\ timers'[frames[f].node][frames[f].ready] > 0
                        /\ \A i \in DOMAIN mac'[frames[f].node].queue :
                              Earlier(mac'[frames[f].node].queue[i], f)
                        /\ \A y \in OnAir' : y.tx = frames[f].node => Earlier(y.frame, f)
      BY <1>2, SMTT(60) DEF PendingOK, Earlier
    <2>1. f \in pending /\ f \in DOMAIN frames /\ frames[f].node \in Nodes
          /\ frames[f].ready \in Nat /\ frames[f].ready \in 0 .. Horizon
      BY <1>1, <1>2, FrameFacts, Constants DEF Basic
    <2>2. /\ now <= frames[f].ready /\ timers[frames[f].node][frames[f].ready] > 0
          /\ \A i \in DOMAIN mac[frames[f].node].queue : Earlier(mac[frames[f].node].queue[i], f)
          /\ \A y \in OnAir : y.tx = frames[f].node => Earlier(y.frame, f)
      BY <1>1, <2>1 DEF PendingOK
    <2>3. timers'[frames[f].node][frames[f].ready] > 0
      <3>1. timers'[frames[f].node][frames[f].ready] >= timers[frames[f].node][frames[f].ready]
        <4>1. frames[f].node # n \/ frames[f].ready # now
          BY <1>1, <1>12, <2>1, Numbers
        <4> QED BY <1>2, <2>1, <4>1
      <3>2. /\ timers[frames[f].node][frames[f].ready] \in Nat
            /\ timers'[frames[f].node][frames[f].ready] \in Nat
        BY <1>1, <1>2, <2>1 DEF Basic, TimerTables
      <3> QED BY <2>2, <3>1, <3>2
    <2>4. CASE frames[f].node = n
      <3>1. \A g \in Mine(n) : Earlier(g, f)
        BY <1>12, <2>4
      <3>2. \A i \in DOMAIN m.queue : Earlier(m.queue[i], f)
        BY <1>3, <3>1
      <3>3. \A y \in OnAir' : y.tx = n => Earlier(y.frame, f)
        BY <1>7, <1>8, <2>2, <2>4, <3>1
      <3> QED BY <1>4, <2>2, <2>3, <2>4, <3>2, <3>3
    <2>5. CASE frames[f].node # n
      <3>1. mac'[frames[f].node] = mac[frames[f].node]
        BY <1>4, <2>1, <2>5
      <3>2. \A y \in OnAir' : y.tx = frames[f].node => Earlier(y.frame, f)
        BY <1>7, <1>8, <2>2, <2>5
      <3> QED BY <2>2, <2>3, <3>1, <3>2
    <2> QED BY <2>4, <2>5
  <1>14. \A y \in OnAir : y.tx = n => \A f \in Mine(n) : Earlier(y.frame, f)
    <2> SUFFICES ASSUME NEW y \in OnAir, y.tx = n, NEW f \in Mine(n) PROVE Earlier(y.frame, f)
      OBVIOUS
    <2>1. CASE f \in Signed(n)
      BY <1>1, <2>1 DEF Signed, PendingOK
    <2>2. CASE f \in ToSet(mac[n].queue)
      BY <1>1, <2>2 DEF ToSet, AirOK
    <2> QED BY <2>1, <2>2 DEF Mine
  <1>15. AirOK'
    <2> SUFFICES ASSUME NEW y \in OnAir'
                 PROVE  /\ y.frame \in DOMAIN frames /\ frames[y.frame].node = y.tx
                        /\ frames[y.frame].ready <= y.start /\ y.start <= now
                        /\ y.end = y.start + Air
                        /\ y.tx \notin y.to /\ (y.end > Horizon => y.to = {})
                        /\ \A i \in DOMAIN mac'[y.tx].queue :
                              Earlier(y.frame, mac'[y.tx].queue[i])
      BY <1>2 DEF AirOK, Earlier
    <2>1. CASE y \in OnAir
      <3>1. /\ y.frame \in DOMAIN frames /\ frames[y.frame].node = y.tx
            /\ frames[y.frame].ready <= y.start /\ y.start <= now /\ y.end = y.start + Air
            /\ y.tx \notin y.to /\ (y.end > Horizon => y.to = {})
            /\ \A i \in DOMAIN mac[y.tx].queue : Earlier(y.frame, mac[y.tx].queue[i])
        BY <1>1, <2>1 DEF AirOK
      <3>2. y.tx \in Nodes
        BY <1>1, <2>1, OnAirFinite DEF OnAirType
      <3>3. CASE y.tx = n
        BY <1>3, <1>4, <1>14, <2>1, <3>1, <3>3
      <3>4. CASE y.tx # n
        BY <1>4, <3>1, <3>2, <3>4
      <3> QED BY <3>3, <3>4
    <2>2. CASE y = x /\ Begins(n, m, x)
      BY <1>1, <1>4, <2>2, Numbers DEF Begins
    <2> QED BY <1>7, <2>1, <2>2
  <1>16. \A y \in OnAir : y.end \in Nat /\ y.start \in Nat /\ y.start <= now
    BY <1>1, OnAirFinite DEF OnAirType, AirOK
  <1>17. Begins(n, m, x) => \A y \in OnAir : y.tx = n \/ Hears(n, y) => y.end <= now
    BY <1>1, HeardIsOver DEF Begins
  <1>18. OwnFramesApart'
    <2> SUFFICES ASSUME NEW i \in DOMAIN air', NEW j \in DOMAIN air', i # j,
                        air'[i].tx = air'[j].tx
                 PROVE  ~Overlap(air'[i], air'[j])
      BY DEF OwnFramesApart
    <2>1. CASE i \in DOMAIN air /\ air'[i] = air[i] /\ j \in DOMAIN air /\ air'[j] = air[j]
      BY <1>1, <2>1 DEF Access, OverlapsAreHidden, OwnFramesApart
    <2>2. CASE Begins(n, m, x) /\ air'[i] = x /\ j \in DOMAIN air /\ air'[j] = air[j]
      <3>1. air[j].end <= now /\ air[j].end \in Nat /\ x.start = now
        BY <1>5, <1>8, <1>16, <1>17, <2>2
      <3> QED BY <1>1, <2>2, <3>1, Numbers DEF Overlap
    <2>3. CASE Begins(n, m, x) /\ air'[j] = x /\ i \in DOMAIN air /\ air'[i] = air[i]
      <3>1. air[i].end <= now /\ air[i].end \in Nat /\ x.start = now
        BY <1>5, <1>8, <1>16, <1>17, <2>3
      <3> QED BY <1>1, <2>3, <3>1, Numbers DEF Overlap
    <2> QED BY <1>6, <2>1, <2>2, <2>3
  <1>19. CollisionsAreHidden'
    <2> SUFFICES ASSUME NEW i \in DOMAIN air', NEW j \in DOMAIN air', i < j,
                        air'[i].tx # air'[j].tx, Overlap(air'[i], air'[j]),
                        air'[j].tx \in air'[i].to
                 PROVE  Power[air'[i].tx][air'[j].tx] < Threshold
      BY DEF CollisionsAreHidden
    <2>1. CASE i \in DOMAIN air /\ air'[i] = air[i] /\ j \in DOMAIN air /\ air'[j] = air[j]
      BY <1>1, <2>1 DEF Access, OverlapsAreHidden, CollisionsAreHidden
    <2>2. CASE Begins(n, m, x) /\ air'[j] = x /\ i \in DOMAIN air /\ air'[i] = air[i]
      <3>1. air[i].end \in Nat /\ x.start = now /\ x.tx = n
        BY <1>5, <1>8, <1>16, <2>2
      <3>2. ~(air[i].end <= now)
        BY <1>1, <2>2, <3>1, Numbers DEF Overlap
      <3>3. ~Hears(n, air[i])
        BY <1>5, <1>17, <2>2, <3>2
      <3>4. Power[air[i].tx][n] \in Nat /\ Threshold \in Nat
        BY <1>5, <2>2, Constants DEF OnAirType
      <3> QED BY <2>2, <3>1, <3>3, <3>4 DEF Hears
    <2>3. CASE Begins(n, m, x) /\ i = Len(air) + 1 /\ j \in DOMAIN air
      BY <1>5, <2>3
    <2> QED BY <1>5, <1>6, <2>1, <2>2, <2>3
  <1>20. WaitsAfterBusy'
    <2> SUFFICES ASSUME NEW v \in OnAir', NEW y \in OnAir',
                        y.start < frames[v.frame].ready, frames[v.frame].ready < y.end,
                        v.tx \in y.to, Power[y.tx][v.tx] >= Threshold
                 PROVE  v.start >= y.end + Aifs
      BY <1>2 DEF WaitsAfterBusy
    <2>1. y \in OnAir
      <3> SUFFICES ASSUME y = x, Begins(n, m, x) PROVE FALSE
        BY <1>7
      <3>1. y.start = now
        BY <1>8
      <3>2. frames[v.frame].ready \in Nat /\ frames[v.frame].ready <= now
        <4>1. CASE v \in OnAir
          <5>1. v.frame \in DOMAIN frames /\ frames[v.frame].ready <= v.start
            BY <1>1, <4>1 DEF AirOK
          <5> QED BY <1>1, <1>16, <4>1, <5>1, FrameFacts, Numbers
        <4>2. CASE v = x
          BY <1>8, <1>9, <4>2
        <4> QED BY <1>7, <4>1, <4>2
      <3> QED BY <1>1, <3>1, <3>2, Numbers
    <2>2. CASE v \in OnAir
      BY <1>1, <2>1, <2>2 DEF Access, WaitsAfterBusy
    <2>3. CASE v = x /\ Begins(n, m, x)
      <3>1. Hears(n, y) /\ x.start = now /\ x.tx = n
        BY <1>8, <2>3 DEF Hears
      <3>2. y.end + Aifs <= now
        BY <2>1, <2>3, <3>1 DEF Begins
      <3>3. y.end \in Nat
        BY <1>16, <2>1
      <3> QED BY <1>1, <2>3, <3>1, <3>2, <3>3, Numbers
    <2> QED BY <1>7, <2>2, <2>3
  <1>21. SentAtItsSlot'
    <2> SUFFICES ASSUME NEW y \in OnAir' PROVE y.due = y.start
      BY DEF SentAtItsSlot
    <2> QED BY <1>1, <1>7 DEF Access, SentAtItsSlot, Begins
  <1>22. DelaySplitFits'
    <2> SUFFICES ASSUME NEW y \in OnAir'
                 PROVE  y.aifs + y.slots * Slot <= y.start - frames[y.frame].ready
      BY <1>2 DEF DelaySplitFits
    <2>1. CASE y \in OnAir
      BY <1>1, <2>1 DEF Access, DelaySplitFits
    <2>2. CASE y = x /\ Begins(n, m, x)
      <3>1. /\ x.aifs \in Nat /\ x.slots \in Nat /\ x.start = now
            /\ frames[x.frame].ready + x.aifs + x.slots * Slot <= now
        BY <2>2 DEF Begins
      <3>2. x.slots * Slot \in Nat
        BY <3>1, SlotTimes
      <3>3. frames[x.frame].ready \in Nat
        BY <1>8, <1>9, <2>2
      <3> QED BY <1>1, <2>2, <3>1, <3>2, <3>3, Numbers
    <2> QED BY <1>7, <2>1, <2>2
  <1>23. InSignedOrder'
    <2> SUFFICES ASSUME NEW i \in DOMAIN air', NEW j \in DOMAIN air', i < j,
                        air'[i].tx = air'[j].tx
                 PROVE  Earlier(air'[i].frame, air'[j].frame)
      BY <1>2 DEF InSignedOrder, Earlier
    <2>1. CASE i \in DOMAIN air /\ air'[i] = air[i] /\ j \in DOMAIN air /\ air'[j] = air[j]
      BY <1>1, <2>1 DEF Access, InSignedOrder
    <2>2. CASE Begins(n, m, x) /\ air'[j] = x /\ i \in DOMAIN air /\ air'[i] = air[i]
      BY <1>5, <1>8, <1>14, <2>2
    <2>3. CASE Begins(n, m, x) /\ i = Len(air) + 1 /\ j \in DOMAIN air
      BY <1>5, <2>3
    <2> QED BY <1>5, <1>6, <2>1, <2>2, <2>3
  <1>24. Access'
    BY <1>18, <1>19, <1>20, <1>21, <1>22, <1>23 DEF Access, OverlapsAreHidden
  <1> QED BY <1>10, <1>11, <1>13, <1>15, <1>24 DEF IInv

Before(fs, f, g) == fs[f].ready < fs[g].ready \/ (fs[f].ready = fs[g].ready /\ f < g)

LEMMA HandDownOK ==
  ASSUME IInv, NEW n \in Nodes, NEW count \in 1 .. MaxBurst, NEW signing \in SignTimes,
         HandDown(n, count, signing)
  PROVE  IInv'
  <1> DEFINE ready == now + signing
             L == Len(frames)
             new == [i \in 1 .. count |-> [node |-> n, ready |-> ready]]
             ids == (L + 1) .. (L + count)
  <1>1. Basic /\ AirOK /\ PendingOK /\ Access
        /\ \A k \in Nodes : MacOK(k, mac[k]) /\ PollTimer(k, mac[k])
    BY DEF IInv
  <1>2. /\ ready <= Horizon /\ frames' = frames \o new /\ pending' = pending \cup ids
        /\ timers' = Scheduled(timers, n, ready)
        /\ now' = now /\ here' = here /\ mac' = mac /\ air' = air
    BY DEF HandDown
  <1>0. now' = now /\ mac' = mac /\ air' = air
    BY <1>2
  <1>3. count \in Nat /\ ready \in Nat /\ now < ready /\ ready \in 0 .. Horizon
    BY <1>1, <1>2, Constants, Numbers
  <1>4. L \in Nat /\ DOMAIN frames = 1 .. L /\ frames \in Seq(FrameType)
    BY <1>1 DEF Basic
  <1>5. new \in Seq(FrameType) /\ Len(new) = count
        /\ \A i \in 1 .. count : new[i].node = n /\ new[i].ready = ready
    <2>1. [node |-> n, ready |-> ready] \in FrameType
      BY <1>3 DEF FrameType
    <2> HIDE DEF ready
    <2> QED BY <1>3, <2>1
  <1> HIDE DEF new, ready, L
  <1>6. /\ frames' \in Seq(FrameType) /\ DOMAIN frames' = 1 .. (L + count)
        /\ \A f \in 1 .. L : frames'[f] = frames[f]
        /\ \A f \in ids : frames'[f] = new[f - L] /\ f - L \in 1 .. count
    <2>1. frames \o new \in Seq(FrameType) /\ Len(frames \o new) = L + count
      BY <1>3, <1>4, <1>5, ConcatProperties DEF L
    <2>2. /\ \A f \in 1 .. L : (frames \o new)[f] = frames[f]
          /\ \A f \in ids : (frames \o new)[f] = new[f - L] /\ f - L \in 1 .. count
      BY <1>3, <1>4, <1>5 DEF L
    <2> QED BY <1>2, <1>3, <1>4, <2>1, <2>2
  <1>7. \A f \in DOMAIN frames : f \in DOMAIN frames' /\ frames'[f] = frames[f]
    BY <1>3, <1>4, <1>6
  <1>8. \A f \in ids : f \in DOMAIN frames' /\ frames'[f].node = n /\ frames'[f].ready = ready
                       /\ f \in Nat
    BY <1>3, <1>4, <1>5, <1>6
  <1> HIDE DEF ids
  <1>9. /\ timers' \in TimerTables /\ timers \in TimerTables
        /\ \A k \in Nodes, u \in 0 .. Horizon : timers'[k][u] >= timers[k][u]
        /\ timers'[n][ready] > 0
    <2>1. timers \in TimerTables
      BY <1>1 DEF Basic, TimerTables
    <2> QED BY <1>2, <1>3, <2>1, ScheduledFacts
  <1>10. ASSUME NEW k \in Nodes, NEW u \in 0 .. Horizon, timers[k][u] > 0
         PROVE  timers'[k][u] > 0
    <2>1. timers[k][u] \in Nat /\ timers'[k][u] \in Nat /\ timers'[k][u] >= timers[k][u]
      BY <1>9 DEF TimerTables
    <2> QED BY <1>10, <2>1
  <1>11. OnAir' = OnAir
    BY <1>2 DEF OnAir
  <1>12. \A f, g \in DOMAIN frames : Earlier(f, g) => Before(frames', f, g)
    BY <1>7 DEF Earlier, Before
  <1>13. Basic'
    <2>1. pending' \subseteq DOMAIN frames'
      BY <1>1, <1>2, <1>7, <1>8 DEF Basic
    <2> QED BY <1>1, <1>2, <1>6, <1>9, <2>1 DEF Basic, TimerTables
  <1>14. ASSUME NEW k \in Nodes PROVE MacOK(k, mac[k])' /\ PollTimer(k, mac[k])'
    <2>1. PICK v : v = mac[k]
      OBVIOUS
    <2>2. MacOK(k, v)'
      BY <1>1, <1>2, <1>7, <1>11, <2>1, MacStays
    <2>3. PollTimer(k, mac[k])'
      <3> SUFFICES ASSUME ~v.busy, v.backoff.armed, Due(v.backoff) <= Horizon
                   PROVE  timers'[k][Due(v.backoff)] > 0
        BY <1>2, <2>1 DEF PollTimer, Due
      <3>1. timers[k][Due(v.backoff)] > 0
        BY <1>1, <2>1 DEF PollTimer
      <3>2. Due(v.backoff) \in 0 .. Horizon
        <4>1. /\ v \in MacStates /\ now <= Due(v.backoff) /\ v.backoff.resume \in Int
              /\ v.backoff.remaining \in Nat
          BY <1>1, <2>1, Numbers, BackoffFields DEF MacOK, BackoffOK
        <4>2. v.backoff.remaining * Slot \in Nat
          BY <4>1, SlotTimes
        <4>3. Due(v.backoff) \in Int
          BY <4>1, <4>2 DEF Due
        <4> QED BY <1>1, <4>1, <4>3, Numbers
      <3> QED BY <1>10, <3>1, <3>2
    <2> QED BY <1>2, <2>1, <2>2, <2>3
  <1>15. \A k \in Nodes : \A i \in DOMAIN mac[k].queue :
            mac[k].queue[i] \in DOMAIN frames /\ frames[mac[k].queue[i]].ready <= now
              /\ frames[mac[k].queue[i]].ready \in Nat
    BY <1>1, FrameFacts DEF MacOK, QueueOK
  <1>16. \A x \in OnAir :
            /\ x.frame \in DOMAIN frames /\ frames'[x.frame] = frames[x.frame]
            /\ frames[x.frame].ready <= now /\ frames[x.frame].ready \in Nat /\ x.tx \in Nodes
    <2> SUFFICES ASSUME NEW x \in OnAir
                 PROVE  /\ x.frame \in DOMAIN frames /\ frames[x.frame].ready <= now
                        /\ frames[x.frame].ready \in Nat /\ x.tx \in Nodes
      BY <1>7
    <2>1. x \in OnAirType /\ x.frame \in DOMAIN frames /\ frames[x.frame].ready <= x.start
          /\ x.start <= now
      BY <1>1, OnAirFinite DEF AirOK
    <2> QED BY <1>1, <2>1, FrameFacts, Numbers, SMTT(60) DEF OnAirType
  <1>17. PendingOK'
    <2> SUFFICES ASSUME NEW f \in pending'
                 PROVE  /\ now <= frames'[f].ready
                        /\ timers'[frames'[f].node][frames'[f].ready] > 0
                        /\ \A i \in DOMAIN mac[frames'[f].node].queue :
                              Before(frames', mac[frames'[f].node].queue[i], f)
                        /\ \A y \in OnAir : y.tx = frames'[f].node => Before(frames', y.frame, f)
      BY <1>0, <1>11 DEF PendingOK, Earlier, Before
    <2>1. CASE f \in pending
      <3>0. f \in DOMAIN frames
        BY <1>1, <2>1 DEF Basic
      <3>1. f \in DOMAIN frames /\ frames'[f] = frames[f] /\ frames[f].node \in Nodes
            /\ frames[f].ready \in 0 .. Horizon
        BY <1>1, <1>7, <3>0, FrameFacts, Constants
      <3>2. /\ now <= frames[f].ready /\ timers[frames[f].node][frames[f].ready] > 0
            /\ \A i \in DOMAIN mac[frames[f].node].queue :
                  Earlier(mac[frames[f].node].queue[i], f)
            /\ \A y \in OnAir : y.tx = frames[f].node => Earlier(y.frame, f)
        BY <1>1, <2>1 DEF PendingOK
      <3>3. timers'[frames[f].node][frames[f].ready] > 0
        BY <1>10, <3>1, <3>2
      <3>4. \A i \in DOMAIN mac[frames[f].node].queue :
               Before(frames', mac[frames[f].node].queue[i], f)
        BY <1>12, <1>15, <3>1, <3>2
      <3>5. \A y \in OnAir : y.tx = frames[f].node => Before(frames', y.frame, f)
        BY <1>12, <1>16, <3>1, <3>2
      <3> QED BY <3>1, <3>2, <3>3, <3>4, <3>5
    <2>2. CASE f \in ids
      <3>1. frames'[f].node = n /\ frames'[f].ready = ready
        BY <1>8, <2>2
      <3>2. \A g \in DOMAIN frames : frames[g].ready \in Nat /\ frames[g].ready <= now =>
               Before(frames', g, f)
        <4> SUFFICES ASSUME NEW g \in DOMAIN frames, frames[g].ready \in Nat,
                            frames[g].ready <= now
                     PROVE  Before(frames', g, f)
          OBVIOUS
        <4>1. frames'[g].ready < frames'[f].ready
          BY <1>1, <1>3, <1>7, <3>1, Numbers
        <4> QED BY <4>1 DEF Before
      <3>3. \A i \in DOMAIN mac[n].queue : Before(frames', mac[n].queue[i], f)
        BY <1>15, <3>2
      <3>4. \A y \in OnAir : Before(frames', y.frame, f)
        BY <1>16, <3>2
      <3>5. now <= ready
        BY <1>1, <1>3, Numbers
      <3> QED BY <1>9, <3>1, <3>3, <3>4, <3>5
    <2> QED BY <1>2, <2>1, <2>2
  <1>18. AirOK'
    <2> SUFFICES ASSUME NEW y \in OnAir
                 PROVE  /\ y.frame \in DOMAIN frames' /\ frames'[y.frame].node = y.tx
                        /\ frames'[y.frame].ready <= y.start /\ y.start <= now
                        /\ y.end = y.start + Air
                        /\ y.tx \notin y.to /\ (y.end > Horizon => y.to = {})
                        /\ \A i \in DOMAIN mac[y.tx].queue :
                              Before(frames', y.frame, mac[y.tx].queue[i])
      BY <1>0, <1>11 DEF AirOK, Earlier, Before
    <2>1. /\ y.frame \in DOMAIN frames /\ frames[y.frame].node = y.tx
          /\ frames[y.frame].ready <= y.start /\ y.start <= now /\ y.end = y.start + Air
          /\ y.tx \notin y.to /\ (y.end > Horizon => y.to = {})
          /\ \A i \in DOMAIN mac[y.tx].queue : Earlier(y.frame, mac[y.tx].queue[i])
      BY <1>1 DEF AirOK
    <2>2. \A i \in DOMAIN mac[y.tx].queue : Before(frames', y.frame, mac[y.tx].queue[i])
      BY <1>12, <1>15, <1>16, <2>1
    <2> QED BY <1>7, <2>1, <2>2
  <1>19. Access'
    <2>1. OverlapsAreHidden'
      BY <1>1, <1>2 DEF Access, OverlapsAreHidden, OwnFramesApart, CollisionsAreHidden
    <2>2. WaitsAfterBusy' /\ DelaySplitFits'
      BY <1>1, <1>11, <1>16 DEF Access, WaitsAfterBusy, DelaySplitFits
    <2>3. SentAtItsSlot'
      BY <1>1, <1>11 DEF Access, SentAtItsSlot
    <2>4. InSignedOrder'
      <3> SUFFICES ASSUME NEW i \in DOMAIN air, NEW j \in DOMAIN air, i < j,
                          air[i].tx = air[j].tx
                   PROVE  Before(frames', air[i].frame, air[j].frame)
        BY <1>0 DEF InSignedOrder, Earlier, Before
      <3>1. air[i] \in OnAir /\ air[j] \in OnAir
        BY DEF OnAir
      <3>2. Earlier(air[i].frame, air[j].frame)
        BY <1>1 DEF Access, InSignedOrder
      <3> QED BY <1>12, <1>16, <3>1, <3>2
    <2> QED BY <2>1, <2>2, <2>3, <2>4 DEF Access
  <1> QED BY <1>13, <1>14, <1>17, <1>18, <1>19 DEF IInv

LEMMA DespawnOK ==
  ASSUME IInv, NEW n \in Nodes, Despawn(n)
  PROVE  IInv'
  <1>1. /\ here' \subseteq here /\ now' = now /\ frames' = frames /\ pending' = pending
        /\ mac' = mac /\ air' = air /\ timers' = timers
    BY DEF Despawn
  <1>2. Basic'
    BY <1>1 DEF IInv, Basic
  <1>3. OnAir' = OnAir
    BY <1>1 DEF OnAir
  <1>4. \A k \in Nodes : MacOK(k, mac[k])' /\ PollTimer(k, mac[k])'
    BY <1>1, <1>3 DEF IInv, MacOK, QueueOK, BackoffOK, SplitOK, WaitOK, PollTimer, Earlier, Due
  <1>5. PendingOK' /\ AirOK'
    BY <1>1, <1>3 DEF IInv, PendingOK, AirOK, Earlier
  <1>6. Access'
    BY <1>1, <1>3 DEF IInv, Access, OverlapsAreHidden, OwnFramesApart, CollisionsAreHidden,
                      WaitsAfterBusy, SentAtItsSlot, DelaySplitFits, InSignedOrder, Earlier
  <1> QED BY <1>2, <1>4, <1>5, <1>6 DEF IInv

LEMMA StutterOK ==
  ASSUME IInv, UNCHANGED vars
  PROVE  IInv'
  <1>1. /\ here' = here /\ now' = now /\ frames' = frames /\ pending' = pending
        /\ mac' = mac /\ air' = air /\ timers' = timers
    BY DEF vars
  <1>2. Basic'
    BY <1>1 DEF IInv, Basic
  <1>3. OnAir' = OnAir
    BY <1>1 DEF OnAir
  <1>4. \A k \in Nodes : MacOK(k, mac[k])' /\ PollTimer(k, mac[k])'
    BY <1>1, <1>3 DEF IInv, MacOK, QueueOK, BackoffOK, SplitOK, WaitOK, PollTimer, Earlier, Due
  <1>5. PendingOK' /\ AirOK'
    BY <1>1, <1>3 DEF IInv, PendingOK, AirOK, Earlier
  <1>6. Access'
    BY <1>1, <1>3 DEF IInv, Access, OverlapsAreHidden, OwnFramesApart, CollisionsAreHidden,
                      WaitsAfterBusy, SentAtItsSlot, DelaySplitFits, InSignedOrder, Earlier
  <1> QED BY <1>2, <1>4, <1>5, <1>6 DEF IInv

(* Time passes only when no timer is left: no backoff ends unseen and no   *)
(* frame is signed unseen.                                                 *)
LEMMA TickOK ==
  ASSUME IInv, Tick
  PROVE  IInv'
  <1>1. Basic /\ AirOK /\ PendingOK /\ Access
        /\ \A k \in Nodes : MacOK(k, mac[k]) /\ PollTimer(k, mac[k])
    BY DEF IInv
  <1>2. /\ now < Horizon /\ \A n \in Nodes, t \in 0 .. now : timers[n][t] = 0
        /\ now' = now + 1 /\ here' = here /\ frames' = frames /\ pending' = pending
        /\ mac' = mac /\ air' = air /\ timers' = timers
    BY DEF Tick
  <1>3. OnAir' = OnAir
    BY <1>2 DEF OnAir
  <1>4. now \in Nat /\ Horizon \in Nat
    BY <1>1, Numbers
  <1>5. Basic'
    BY <1>1, <1>2, <1>4 DEF Basic
  <1>6. ASSUME NEW k \in Nodes PROVE MacOK(k, mac[k])' /\ PollTimer(k, mac[k])'
    <2>1. PICK m : m = mac[k]
      OBVIOUS
    <2>2. /\ m \in MacStates /\ QueueOK(k, m.queue) /\ BackoffOK(m) /\ SplitOK(m)
          /\ WaitOK(k, m)
      BY <1>1, <2>1 DEF MacOK
    <2>3. /\ m.backoff.resume \in Int /\ m.backoff.remaining \in Nat /\ m.backoff.drawn \in Nat
          /\ m.idleSince \in Int
          /\ m.backoff.remaining * Slot \in Nat /\ m.backoff.drawn * Slot \in Nat
      <3>1. /\ m.backoff.resume \in Int /\ m.backoff.remaining \in Nat
            /\ m.backoff.drawn \in Nat /\ m.idleSince \in Int
        BY <1>1, <2>2, Numbers, BackoffFields DEF BackoffOK
      <3> QED BY <3>1, SlotTimes
    <2>4. Due(m.backoff) \in Int
      BY <2>3 DEF Due
    <2>5. ~m.busy /\ m.backoff.armed => m.backoff.resume \in Nat /\ now + 1 <= Due(m.backoff)
      <3> SUFFICES ASSUME ~m.busy, m.backoff.armed PROVE now + 1 <= Due(m.backoff)
        BY <2>2 DEF BackoffOK
      <3>1. now <= Due(m.backoff)
        BY <2>2 DEF BackoffOK
      <3>2. Due(m.backoff) # now
        <4> SUFFICES ASSUME Due(m.backoff) = now PROVE FALSE
          OBVIOUS
        <4>1. timers[k][now] > 0
          BY <1>1, <1>2, <1>4, <2>1 DEF PollTimer
        <4>2. now \in 0 .. now
          BY <1>4
        <4> QED BY <1>2, <4>1, <4>2
      <3> QED BY <1>4, <2>4, <3>1, <3>2
    <2>6. QueueOK(k, m.queue)'
      <3>1. \A i \in DOMAIN m.queue : frames[m.queue[i]].ready <= now + 1
        BY <1>1, <1>4, <2>2, FrameFacts DEF QueueOK
      <3> QED BY <1>2, <2>2, <3>1 DEF QueueOK, Earlier
    <2>7. BackoffOK(m)'
      <3>1. m.idleSince \in NoTime .. (now + 1)
        BY <1>1, <2>2, <2>3, Numbers DEF BackoffOK
      <3>2. m.backoff.resume \in NoTime .. (now + Air + Aifs)
        BY <2>2 DEF BackoffOK
      <3>3. m.backoff.resume \in NoTime .. ((now + 1) + Air + Aifs)
        BY <1>1, <2>3, <3>2, Numbers
      <3> QED BY <1>2, <2>2, <2>5, <3>1, <3>3 DEF BackoffOK
    <2>8. SplitOK(m)'
      <3> SUFFICES ASSUME m.backoff.armed
                   PROVE  /\ frames[m.queue[1]].ready + m.backoff.drawn * Slot
                               <= (now + 1) + m.backoff.remaining * Slot
                          /\ ~m.busy => frames[m.queue[1]].ready + m.backoff.aifs
                                          + m.backoff.drawn * Slot <= Due(m.backoff)
        BY <1>2 DEF SplitOK
      <3>1. 1 \in DOMAIN m.queue
        BY <2>2, BackoffFields DEF BackoffOK
      <3>2. frames[m.queue[1]].ready \in Nat
        BY <1>1, <2>2, <3>1, FrameFacts DEF QueueOK
      <3> QED BY <1>4, <2>2, <2>3, <3>2 DEF SplitOK
    <2>9. WaitOK(k, m)'
      BY <1>2, <1>3, <2>2 DEF WaitOK
    <2>10. MacOK(k, m)'
      BY <2>2, <2>6, <2>7, <2>8, <2>9 DEF MacOK
    <2>11. PollTimer(k, mac[k])'
      BY <1>1, <1>2 DEF PollTimer, Due
    <2> QED BY <1>2, <2>1, <2>10, <2>11
  <1>7. PendingOK'
    <2> SUFFICES ASSUME NEW f \in pending PROVE now + 1 <= frames[f].ready
      BY <1>1, <1>2, <1>3 DEF PendingOK, Earlier
    <2>1. now <= frames[f].ready /\ timers[frames[f].node][frames[f].ready] > 0
      BY <1>1 DEF PendingOK
    <2>2. frames[f].node \in Nodes /\ frames[f].ready \in Nat
      BY <1>1, FrameFacts DEF Basic
    <2>3. frames[f].ready # now
      <3> SUFFICES ASSUME frames[f].ready = now PROVE FALSE
        OBVIOUS
      <3>1. now \in 0 .. now
        BY <1>4
      <3> QED BY <1>2, <2>1, <2>2, <3>1
    <2> QED BY <1>4, <2>1, <2>2, <2>3
  <1>8. AirOK'
    <2>1. \A x \in OnAir : x.start <= now + 1
      BY <1>1, <1>4, OnAirFinite DEF AirOK, OnAirType
    <2> QED BY <1>1, <1>2, <1>3, <2>1 DEF AirOK, Earlier
  <1>9. Access'
    BY <1>1, <1>2, <1>3 DEF Access, OverlapsAreHidden, OwnFramesApart, CollisionsAreHidden,
                      WaitsAfterBusy, SentAtItsSlot, DelaySplitFits, InSignedOrder, Earlier
  <1> QED BY <1>5, <1>6, <1>7, <1>8, <1>9 DEF IInv

LEMMA InitOK == Init => IInv
  <1> SUFFICES ASSUME Init PROVE IInv
    OBVIOUS
  <1>1. Basic
    <2>1. [queue |-> <<>>, backoff |-> NoBackoff, busy |-> FALSE, idleSince |-> NoTime]
            \in MacStates
      BY DEF MacStates, Backoffs, NoBackoff, NoTime
    <2>2. frames = <<>> /\ frames \in Seq(FrameType) /\ air \in Seq(OnAirType)
      BY DEF Init
    <2>3. timers \in [Nodes -> [0 .. Horizon -> Nat]]
      BY DEF Init
    <2>4. mac \in [Nodes -> MacStates]
      BY <2>1, Zenon DEF Init
    <2>5. now \in 0 .. Horizon /\ here \subseteq Nodes /\ pending \subseteq DOMAIN frames
      BY Constants DEF Init
    <2> QED BY <2>2, <2>3, <2>4, <2>5 DEF Basic
  <1>2. OnAir = {} /\ DOMAIN air = {}
    BY DEF Init, OnAir
  <1>3. ASSUME NEW n \in Nodes PROVE MacOK(n, mac[n]) /\ PollTimer(n, mac[n])
    <2> DEFINE m == mac[n]
    <2>1. /\ m.queue = <<>> /\ m.backoff = NoBackoff /\ m.busy = FALSE /\ m.idleSince = NoTime
      BY DEF Init
    <2>2. m \in MacStates
      BY <1>1 DEF Basic
    <2> HIDE DEF m
    <2>3. /\ m.backoff.armed = FALSE /\ m.backoff.remaining = 0 /\ m.backoff.drawn = 0
          /\ m.backoff.resume = NoTime /\ m.backoff.aifs = 0
      BY <2>1 DEF NoBackoff
    <2>4. QueueOK(n, m.queue)
      <3>1. Len(m.queue) = 0 /\ DOMAIN m.queue = {}
        BY <2>1
      <3> QED BY <3>1, Constants DEF QueueOK
    <2>5. BackoffOK(m)
      <3>1. /\ 0 \in 0 .. Cw /\ 0 \in 0 .. 0 /\ 0 \in 0 .. Aifs
            /\ NoTime \in NoTime .. (now + Air + Aifs) /\ NoTime \in NoTime .. now
        BY <1>1, Numbers
      <3> QED BY <2>1, <2>3, <3>1 DEF BackoffOK
    <2>6. SplitOK(m) /\ WaitOK(n, m) /\ PollTimer(n, m)
      BY <1>2, <2>3 DEF SplitOK, WaitOK, PollTimer
    <2> QED BY <2>2, <2>4, <2>5, <2>6 DEF MacOK, m
  <1>4. PendingOK /\ AirOK
    BY <1>2 DEF Init, PendingOK, AirOK
  <1>5. Access
    BY <1>2 DEF Access, OverlapsAreHidden, OwnFramesApart, CollisionsAreHidden,
                WaitsAfterBusy, SentAtItsSlot, DelaySplitFits, InSignedOrder
  <1> QED BY <1>1, <1>3, <1>4, <1>5 DEF IInv

LEMMA NextOK ==
  ASSUME IInv, [Next]_vars
  PROVE  IInv'
  <1>1. ASSUME NEW n \in Nodes, NEW count \in 1 .. MaxBurst, NEW signing \in SignTimes,
               HandDown(n, count, signing)
        PROVE  IInv'
    BY <1>1, HandDownOK
  <1>2. ASSUME NEW n \in Nodes, NEW draw \in Draws(n), MacTimer(n, draw) PROVE IInv'
    <2>1. PICK m, x : Fires(n, m, x)
      BY <1>2, TimerFacts
    <2> QED BY <2>1, FiresOK
  <1>3. ASSUME NEW n \in Vehicles, Despawn(n) PROVE IInv'
    BY <1>3, Constants, DespawnOK
  <1>4. CASE Tick
    BY <1>4, TickOK
  <1>5. CASE UNCHANGED vars
    BY <1>5, StutterOK
  <1> QED BY <1>1, <1>2, <1>3, <1>4, <1>5 DEF Next

(* The inductive invariant holds in every state: of every MAC state        *)
(* on_mac_timer and hand_down_app leave, of the timers they set and of the *)
(* frames on the air.                                                      *)
THEOREM AccessInvariant == Spec => []IInv
  <1>1. IInv /\ [Next]_vars => IInv'
    BY NextOK
  <1> QED BY <1>1, InitOK, PTL DEF Spec

(* start_frame inside the MAC handler closes the race of one instant: a    *)
(* node's own frames are never on the air together, and a frame begins     *)
(* over another only where its sender cannot hear that one.                *)
THEOREM OverlapsStayHidden == Spec => []OverlapsAreHidden
  <1>1. IInv => OverlapsAreHidden
    BY DEF IInv, Access
  <1> QED BY <1>1, AccessInvariant, PTL

LEMMA OnceByOrder == IInv => SentOnce
  <1> SUFFICES ASSUME IInv PROVE SentOnce
    OBVIOUS
  <1>1. Basic /\ AirOK /\ PendingOK /\ InSignedOrder /\ \A k \in Nodes : MacOK(k, mac[k])
    BY DEF IInv, Access
  <1>2. \A f \in DOMAIN frames : ~Earlier(f, f)
    BY <1>1, FrameFacts DEF Earlier
  <1>3. ASSUME NEW i \in DOMAIN air, NEW j \in DOMAIN air, i < j
        PROVE  air[i].frame # air[j].frame
    <2>1. air[i] \in OnAir /\ air[j] \in OnAir
      BY DEF OnAir
    <2>2. CASE air[i].tx = air[j].tx
      BY <1>1, <1>2, <1>3, <2>1, <2>2 DEF InSignedOrder, AirOK
    <2>3. CASE air[i].tx # air[j].tx
      BY <1>1, <2>1, <2>3 DEF AirOK
    <2> QED BY <2>2, <2>3
  <1>4. \A i, j \in DOMAIN air : i # j => air[i].frame # air[j].frame
    <2>1. DOMAIN air \subseteq Int
      BY <1>1 DEF Basic
    <2>2. \A i, j \in DOMAIN air : i # j => i < j \/ j < i
      BY <2>1
    <2> QED BY <1>3, <2>2
  <1>5. ASSUME NEW n \in Nodes, NEW x \in OnAir
        PROVE  x.frame \notin ToSet(mac[n].queue) \cup pending
    <2>1. x.frame \in DOMAIN frames /\ frames[x.frame].node = x.tx /\ ~Earlier(x.frame, x.frame)
      BY <1>1, <1>2 DEF AirOK
    <2>2. ASSUME NEW i \in DOMAIN mac[n].queue, mac[n].queue[i] = x.frame PROVE FALSE
      <3>1. n = x.tx
        BY <1>1, <2>1, <2>2 DEF MacOK, QueueOK
      <3> QED BY <1>1, <2>1, <2>2, <3>1 DEF AirOK
    <2>3. x.frame \notin pending
      BY <1>1, <2>1 DEF PendingOK
    <2> QED BY <2>2, <2>3 DEF ToSet
  <1> QED BY <1>4, <1>5 DEF SentOnce

(* Mac::enqueue, on_cca and poll, driven by timers, keep the rules of      *)
(* access: every frame goes out once, in the order its node signed, at the *)
(* end of the AIFS and the slots it owes and reports, and an AIFS after a  *)
(* frame that was heard when it was signed.                                *)
THEOREM FramesGoInTurn == Spec => []SentInTurn
  <1>1. IInv => SentInTurn
    BY OnceByOrder DEF IInv, Access, SentInTurn
  <1> QED BY <1>1, AccessInvariant, PTL

(***************************************************************************)
(* The load meters.  The detector is busy because of a frame that a timer  *)
(* can wait for, or because faint ones add up.                             *)
(***************************************************************************)

(* n transmits at t, or receives a frame loud enough by itself.            *)
Loud(n, t) == \E x \in OnAir : Covers(x, t) /\ (x.tx = n \/ Hears(n, x))

(* Why a node that found the medium busy at `from` still counts t as busy.  *)
Explained(n, from, t) == Loud(n, t) \/ \E s \in from .. t : AddsUp(n, s)

Intervals == [from : 0 .. Horizon, to : 0 .. Horizon]
MeterStates == [busy : Seq(Intervals), open : Int]

(* What the intervals of a meter, and the one it has open, rest on.        *)
NotedOK(n, c) ==
  \A k \in DOMAIN c.busy :
    \A t \in c.busy[k].from .. (c.busy[k].to - 1) : Explained(n, c.busy[k].from, t)
OpenFor(n, b, c) ==
  /\ b => c.open # NoTime
  /\ c.open # NoTime =>
        b /\ c.open \in 0 .. now /\ \A t \in c.open .. (now - 1) : Explained(n, c.open, t)
OpenOK(n, c) == OpenFor(n, mac[n].busy, c)

(* A node that found the medium busy has a timer before it can be idle,    *)
(* unless faint frames have added up since.                                *)
ClearTimer(n) ==
  mac[n].busy =>
    \E t \in now .. (Horizon + 1) :
      /\ t <= Horizon => timers[n][t] > 0
      /\ \A u \in now .. (t - 1) : Explained(n, meter[n].open, u)

LoadInv ==
  /\ meter \in [Nodes -> MeterStates]
  /\ \A n \in Nodes : NotedOK(n, meter[n]) /\ OpenOK(n, meter[n]) /\ ClearTimer(n)

LEMMA LoudIsBusy ==
  ASSUME Basic, NEW n \in Nodes, NEW t, Loud(n, t)
  PROVE  Busy(n, t)
  BY BusyBy DEF Loud

(* The faint frames a node receives.                                       *)
FaintAt(n, t) == {x \in Arrivals(n, t) : Power[x.tx][n] < Threshold}

LEMMA AddsUpIs ==
  ASSUME NEW n, NEW t
  PROVE  AddsUp(n, t) <=> PowerSum(n, FaintAt(n, t)) >= Threshold
  BY Zenon DEF AddsUp, PowerSum, FaintAt, MapThenSumSet, MapThenFoldSet

LEMMA BusyIsLoud ==
  ASSUME Basic, NEW n \in Nodes, NEW t, Busy(n, t), ~Loud(n, t)
  PROVE  AddsUp(n, t)
  <1>1. ~Transmits(n, t)
    BY DEF Transmits, Loud
  <1>2. Energy(n, t) >= Threshold
    BY <1>1 DEF Busy
  <1>3. Energy(n, t) = PowerSum(n, Arrivals(n, t))
    BY Zenon DEF Energy, PowerSum, MapThenSumSet, MapThenFoldSet
  <1>4. ASSUME NEW x \in Arrivals(n, t) PROVE Power[x.tx][n] < Threshold
    <2>1. x \in OnAir /\ n \in x.to /\ Covers(x, t)
      BY DEF Arrivals
    <2>2. ~(Power[x.tx][n] >= Threshold)
      BY <2>1 DEF Loud, Hears
    <2>3. Power[x.tx][n] \in Nat /\ Threshold \in Nat
      BY <2>1, OnAirFinite, Constants DEF OnAirType
    <2> QED BY <2>2, <2>3
  <1>5. FaintAt(n, t) = Arrivals(n, t)
    BY <1>4 DEF FaintAt
  <1> QED BY <1>2, <1>3, <1>5, AddsUpIs

(* What is pruned was there.                                               *)
LEMMA PrunedFacts ==
  ASSUME NEW s \in Seq(Intervals), NEW t
  PROVE  /\ Pruned(s, t) \in Seq(Intervals)
         /\ \A k \in DOMAIN Pruned(s, t) : \E j \in DOMAIN s : Pruned(s, t)[k] = s[j]
  <1> DEFINE kept == {i \in DOMAIN s : s[i].to > t - Window}
             r == Pruned(s, t)
  <1>1. Len(s) \in Nat /\ DOMAIN s = 1 .. Len(s) /\ \A i \in 1 .. Len(s) : s[i] \in Intervals
    OBVIOUS
  <1>2. CASE kept = {}
    <2>1. r = <<>>
      BY <1>2 DEF Pruned
    <2> HIDE DEF r
    <2> QED BY <2>1 DEF r
  <1>3. CASE kept # {}
    <2>1. r = SubSeq(s, Min(kept), Len(s))
      BY <1>3 DEF Pruned
    <2>2. kept \subseteq 1 .. Len(s) /\ kept \subseteq Nat
      BY <1>1
    <2> HIDE DEF kept
    <2>3. \E a \in kept : \A b \in kept : a <= b
      BY <1>3, <2>2, LeastNumber
    <2>4. Min(kept) \in kept
      BY <2>3 DEF Min
    <2>5. PICK a \in 1 .. Len(s) : a = Min(kept)
      BY <2>2, <2>4
    <2>6. r = SubSeq(s, a, Len(s))
      BY <2>1, <2>5
    <2> HIDE DEF r
    <2>7. /\ DOMAIN r = 1 .. (Len(s) - a + 1)
          /\ \A k \in 1 .. (Len(s) - a + 1) :
                r[k] = s[a + k - 1] /\ a + k - 1 \in 1 .. Len(s)
      BY <1>1, <2>6
    <2>8. r \in Seq(Intervals)
      BY <1>1, <2>6
    <2> QED BY <1>1, <2>7, <2>8 DEF r
  <1> QED BY <1>2, <1>3

Ahead(a, b) == a.from < b.from \/ (a.from = b.from /\ a.to < b.to)

(* note_busy keeps what a meter holds and adds the frame.                  *)
LEMMA NoteBusyFacts ==
  ASSUME NEW c \in MeterStates, NEW from \in 0 .. Horizon, NEW to \in 0 .. Horizon
  PROVE  LET r == NoteBusy(c, from, to)
         IN  /\ r \in MeterStates /\ r.open = c.open
             /\ \A k \in DOMAIN r.busy :
                   \/ \E j \in DOMAIN c.busy : r.busy[k] = c.busy[j]
                   \/ r.busy[k].from = from /\ r.busy[k].to = to
  <1> DEFINE i0 == [from |-> from, to |-> to]
             s == Append(c.busy, i0)
             L == Len(c.busy) + 1
             Fits(q) == IsInjective(q)
                          /\ \A i, j \in DOMAIN s : i < j => ~Ahead(s[q[j]], s[q[i]])
             p == CHOOSE q \in [DOMAIN s -> DOMAIN s] : Fits(q)
             u == [i \in DOMAIN s |-> s[p[i]]]
             d == Pruned(u, to)
             r == NoteBusy(c, from, to)
  <1>1. c.busy \in Seq(Intervals) /\ Len(c.busy) \in Nat /\ i0 \in Intervals
    BY DEF MeterStates, Intervals
  <1>2. r = [c EXCEPT !.busy = d]
    BY Zenon DEF NoteBusy, Sorted, Ahead
  <1>3. /\ s \in Seq(Intervals) /\ L \in Nat /\ DOMAIN s = 1 .. L
        /\ \A i \in 1 .. L : s[i] \in Intervals
                             /\ (s[i] = i0 \/ \E j \in DOMAIN c.busy : s[i] = c.busy[j])
    <2> HIDE DEF i0
    <2> QED BY <1>1
  <1> HIDE DEF s, L
  <1>4. \A i \in 1 .. L : s[i].from \in Int /\ s[i].to \in Int
    BY <1>3, Constants DEF Intervals
  <1>5. \E q \in [DOMAIN s -> DOMAIN s] : Fits(q)
    <2> DEFINE R == {ij \in (1 .. L) \X (1 .. L) : Ahead(s[ij[1]], s[ij[2]])}
    <2>0. \A i, j \in 1 .. L : <<i, j>> \in R <=> Ahead(s[i], s[j])
      OBVIOUS
    <2> HIDE DEF R
    <2>2. Orders(R, L)
      BY <2>0, <1>4 DEF Orders, Ahead
    <2>3. PICK q \in [1 .. L -> 1 .. L] :
            IsInjective(q) /\ \A i, j \in 1 .. L : i < j => <<q[j], q[i]>> \notin R
      BY <2>2, <1>3, SortingExists
    <2>4. Fits(q)
      BY <2>0, <2>3, <1>3
    <2> QED BY <2>3, <2>4, <1>3
  <1>6. p \in [1 .. L -> 1 .. L]
    <2> HIDE DEF Fits
    <2> QED BY <1>3, <1>5, Zenon
  <1> HIDE DEF p
  <1>7. u \in Seq(Intervals) /\ DOMAIN u = 1 .. L
        /\ \A i \in 1 .. L : u[i] = s[p[i]] /\ p[i] \in 1 .. L
    BY <1>3, <1>6
  <1>u. u \in Seq(Intervals)
    BY <1>7
  <1> HIDE DEF u
  <1>8. d \in Seq(Intervals) /\ \A k \in DOMAIN d : \E i \in DOMAIN u : d[k] = u[i]
    <2> HIDE DEF d
    <2>1. PICK v \in Seq(Intervals) : v = u
      BY <1>u, Zenon
    <2>2. /\ Pruned(v, to) \in Seq(Intervals)
          /\ \A k \in DOMAIN Pruned(v, to) : \E j \in DOMAIN v : Pruned(v, to)[k] = v[j]
      BY PrunedFacts
    <2> QED BY <2>1, <2>2, Zenon DEF d
  <1> HIDE DEF d, r
  <1>9. r.busy = d /\ r.open = c.open
    BY <1>2 DEF MeterStates
  <1>10. r \in MeterStates
    BY <1>2, <1>8, Zenon DEF MeterStates
  <1>11. \A k \in DOMAIN d : d[k] = i0 \/ \E j \in DOMAIN c.busy : d[k] = c.busy[j]
    BY <1>3, <1>7, <1>8
  <1>12. i0.from = from /\ i0.to = to
    OBVIOUS
  <1> HIDE DEF i0
  <1> QED BY <1>9, <1>10, <1>11, <1>12 DEF r

(* The meter after the sample of a timer.                                  *)
LEMMA SampleOK ==
  ASSUME Basic, NEW n \in Nodes, NEW c \in MeterStates, NotedOK(n, c), OpenOK(n, c),
         NEW busy \in BOOLEAN
  PROVE  LET r == MeterOnCca(c, mac[n], busy)
         IN  /\ r \in MeterStates /\ NotedOK(n, r)
             /\ OpenFor(n, busy, r)
  <1> DEFINE r == MeterOnCca(c, mac[n], busy)
  <1>0. mac[n].busy \in BOOLEAN /\ c.busy \in Seq(Intervals) /\ c.open \in Int /\ now \in Nat
        /\ now <= Horizon /\ NoTime \in Int
    BY Numbers DEF Basic, MacStates, MeterStates, NoTime
  <1>1. CASE busy /\ ~mac[n].busy
    <2>1. c.open = NoTime
      BY <1>1 DEF OpenOK, OpenFor
    <2>2. r = [c EXCEPT !.open = now]
      BY <1>1, <2>1 DEF MeterOnCca, BusyFrom
    <2> HIDE DEF r
    <2>3. r.busy = c.busy /\ r.open = now
      BY <2>2 DEF MeterStates
    <2>4. r \in MeterStates
      <3>1. now \in Int
        BY <1>0
      <3> QED BY <2>2, <3>1, Zenon DEF MeterStates
    <2>5. NotedOK(n, r)
      BY <2>3 DEF NotedOK
    <2>6. now \in 0 .. now /\ now # NoTime /\ \A t \in now .. (now - 1) : FALSE
      BY <1>0 DEF NoTime
    <2>7. OpenFor(n, busy, r)
      BY <1>1, <2>3, <2>6 DEF OpenFor
    <2> QED BY <2>4, <2>5, <2>7 DEF r
  <1>2. CASE ~busy /\ mac[n].busy
    <2>1. r = IdleAt(c, now)
      BY <1>2 DEF MeterOnCca
    <2>2. CASE c.open # NoTime /\ now > c.open
      <3> DEFINE i0 == [from |-> c.open, to |-> now]
                 s == Append(c.busy, i0)
                 d == Pruned(s, now)
      <3>1. r = [busy |-> d, open |-> NoTime]
        BY <2>1, <2>2 DEF IdleAt
      <3>2. c.open \in 0 .. now /\ \A t \in c.open .. (now - 1) : Explained(n, c.open, t)
        BY <2>2 DEF OpenOK, OpenFor
      <3>3. i0 \in Intervals
        BY <1>0, <3>2, Constants DEF Intervals
      <3>4. i0.from = c.open /\ i0.to = now
        OBVIOUS
      <3> HIDE DEF i0
      <3>5. s \in Seq(Intervals)
            /\ \A i \in DOMAIN s : s[i] = i0 \/ \E j \in DOMAIN c.busy : s[i] = c.busy[j]
        BY <1>0, <3>3
      <3> HIDE DEF s
      <3>6. d \in Seq(Intervals) /\ \A k \in DOMAIN d : \E i \in DOMAIN s : d[k] = s[i]
        BY <3>5, PrunedFacts
      <3> HIDE DEF d, r
      <3>7. r.busy = d /\ r.open = NoTime /\ r \in MeterStates
        BY <1>0, <3>1, <3>6 DEF MeterStates
      <3>8. \A k \in DOMAIN d : d[k] = i0 \/ \E j \in DOMAIN c.busy : d[k] = c.busy[j]
        BY <3>5, <3>6
      <3>9. NotedOK(n, r)
        <4> SUFFICES ASSUME NEW k \in DOMAIN d, NEW t \in d[k].from .. (d[k].to - 1)
                     PROVE  Explained(n, d[k].from, t)
          BY <3>7 DEF NotedOK
        <4>1. CASE d[k] = i0
          BY <3>2, <3>4, <4>1
        <4>2. CASE \E j \in DOMAIN c.busy : d[k] = c.busy[j]
          BY <4>2 DEF NotedOK
        <4> QED BY <3>8, <4>1, <4>2
      <3> QED BY <1>2, <3>7, <3>9 DEF r, OpenFor
    <2>3. CASE ~(c.open # NoTime /\ now > c.open)
      <3>1. r = [c EXCEPT !.open = NoTime]
        BY <2>1, <2>3 DEF IdleAt
      <3> HIDE DEF r
      <3>2. r.busy = c.busy /\ r.open = NoTime
        BY <3>1 DEF MeterStates
      <3>3. r \in MeterStates
        BY <1>0, <3>1, Zenon DEF MeterStates
      <3>4. NotedOK(n, r)
        BY <3>2 DEF NotedOK
      <3> QED BY <1>2, <3>2, <3>3, <3>4 DEF r, OpenFor
    <2> QED BY <2>2, <2>3
  <1>3. CASE busy <=> mac[n].busy
    <2>1. r = c
      BY <1>3 DEF MeterOnCca
    <2> HIDE DEF r
    <2> QED BY <1>3, <2>1 DEF OpenOK, OpenFor, r
  <1> QED BY <1>0, <1>1, <1>2, <1>3

(***************************************************************************)
(* The timers do not multiply.                                             *)
(***************************************************************************)

OwnedBy(n) == {f \in Ids : frames[f].node = n}
FewTimers == \A k \in Nodes : CountOf(timers[k]) <= Cardinality(OwnedBy(k))

LEMMA OwnedFinite ==
  ASSUME Basic, NEW n
  PROVE  IsFiniteSet(OwnedBy(n)) /\ Cardinality(OwnedBy(n)) \in Nat
  <1>1. Ids = 1 .. Len(frames) /\ 1 \in Int /\ Len(frames) \in Int
    BY DEF Basic, Ids
  <1>2. IsFiniteSet(Ids)
    BY <1>1, FS_Interval
  <1>3. OwnedBy(n) \subseteq Ids
    BY DEF OwnedBy
  <1>4. IsFiniteSet(OwnedBy(n))
    BY <1>2, <1>3, FS_Subset
  <1> QED BY <1>4, FS_CardinalityType

LEMMA CountIsNat ==
  ASSUME NEW ts \in TimerTables, NEW n \in Nodes
  PROVE  CountOf(ts[n]) \in Nat
  <1>1. ts[n] \in [0 .. Horizon -> Nat] /\ 0 \in 0 .. Horizon
    BY Constants DEF TimerTables
  <1> QED BY <1>1, CountChanged

(* A message adds frames of its node, and keeps all there are.             *)
LEMMA HandedDown ==
  ASSUME Basic, NEW n \in Nodes, NEW count \in 1 .. MaxBurst, NEW signing \in SignTimes,
         HandDown(n, count, signing)
  PROVE  \E f \in DOMAIN frames' \ DOMAIN frames :
           /\ DOMAIN frames \subseteq DOMAIN frames'
           /\ \A g \in DOMAIN frames : frames'[g] = frames[g]
           /\ frames'[f].node = n
  <1> DEFINE ready == now + signing
             L == Len(frames)
             new == [i \in 1 .. count |-> [node |-> n, ready |-> ready]]
  <1>1. frames' = frames \o new /\ ready <= Horizon
    BY DEF HandDown
  <1>2. L \in Nat /\ DOMAIN frames = 1 .. L /\ frames \in Seq(FrameType)
    BY DEF Basic
  <1>3. count \in Nat /\ count >= 1 /\ ready \in 0 .. Horizon
    BY <1>1, Constants, Numbers
  <1>4. new \in Seq(FrameType) /\ Len(new) = count /\ new[1].node = n
    <2>1. [node |-> n, ready |-> ready] \in FrameType
      BY <1>3 DEF FrameType
    <2> HIDE DEF ready
    <2> QED BY <1>3, <2>1
  <1> HIDE DEF new, ready
  <1>5. /\ DOMAIN frames' = 1 .. (L + count) /\ \A f \in 1 .. L : frames'[f] = frames[f]
        /\ frames'[L + 1] = new[1]
    <2>1. Len(frames \o new) = L + count /\ frames \o new \in Seq(FrameType)
      BY <1>2, <1>3, <1>4, ConcatProperties
    <2>2. (\A f \in 1 .. L : (frames \o new)[f] = frames[f]) /\ (frames \o new)[L + 1] = new[1]
      BY <1>2, <1>3, <1>4
    <2> HIDE DEF L
    <2> QED BY <1>1, <1>2, <1>3, <2>1, <2>2
  <1>6. L + 1 \in DOMAIN frames' /\ L + 1 \notin DOMAIN frames /\ DOMAIN frames \subseteq DOMAIN frames'
    <2> HIDE DEF L
    <2> QED BY <1>2, <1>3, <1>5
  <1> QED BY <1>2, <1>4, <1>5, <1>6

LEMMA CountStep ==
  ASSUME IInv, [Next]_vars, FewTimers
  PROVE  FewTimers'
  <1>1. Basic /\ timers \in TimerTables
    BY DEF IInv, Basic, TimerTables
  <1>2. \A k \in Nodes : CountOf(timers[k]) <= Cardinality(OwnedBy(k))
    BY DEF FewTimers
  <1>3. (\A k \in Nodes : CountOf(timers'[k]) <= Cardinality(OwnedBy(k)')) => FewTimers'
    BY DEF FewTimers
  <1>4. \A k \in Nodes : CountOf(timers[k]) \in Nat /\ Cardinality(OwnedBy(k)) \in Nat
    BY <1>1, CountIsNat, OwnedFinite
  <1>5. ASSUME timers' = timers, frames' = frames PROVE FewTimers'
    <2>1. \A k \in Nodes : OwnedBy(k)' = OwnedBy(k)
      BY <1>5 DEF OwnedBy, Ids
    <2> QED BY <1>2, <1>3, <1>5, <2>1
  <1>6. ASSUME NEW n \in Nodes, NEW count \in 1 .. MaxBurst, NEW signing \in SignTimes,
               HandDown(n, count, signing)
        PROVE  FewTimers'
    <2>1. PICK f \in DOMAIN frames' \ DOMAIN frames :
            /\ DOMAIN frames \subseteq DOMAIN frames'
            /\ \A g \in DOMAIN frames : frames'[g] = frames[g]
            /\ frames'[f].node = n
      BY <1>1, <1>6, HandedDown
    <2>2. \A k \in Nodes : OwnedBy(k) \subseteq OwnedBy(k)'
      BY <2>1 DEF OwnedBy, Ids
    <2>3. f \in OwnedBy(n)' /\ f \notin OwnedBy(n)
      BY <2>1 DEF OwnedBy, Ids
    <2>4. Basic'
      BY <1>6, HandDownOK DEF IInv
    <2>5. \A k \in Nodes : IsFiniteSet(OwnedBy(k)') /\ Cardinality(OwnedBy(k)') \in Nat
      <3>1. \A k \in Nodes : Basic => IsFiniteSet(OwnedBy(k)) /\ Cardinality(OwnedBy(k)) \in Nat
        BY OwnedFinite
      <3>2. Ids' = 1 .. Len(frames') /\ 1 \in Int /\ Len(frames') \in Int
        BY <2>4 DEF Basic, Ids
      <3>3. IsFiniteSet(Ids')
        BY <3>2, FS_Interval
      <3>4. \A k \in Nodes : OwnedBy(k)' \subseteq Ids'
        BY DEF OwnedBy
      <3>5. \A k \in Nodes : IsFiniteSet(OwnedBy(k)')
        BY <3>3, <3>4, FS_Subset
      <3> QED BY <3>5, FS_CardinalityType
    <2>6. now + signing \in Nat
      BY <1>1, Constants, Numbers
    <2>7. timers' = Scheduled(timers, n, now + signing)
      BY <1>6 DEF HandDown
    <2>8. /\ \A k \in Nodes : k # n => timers'[k] = timers[k]
          /\ CountOf(timers'[n]) \in Nat /\ CountOf(timers'[n]) <= CountOf(timers[n]) + 1
      BY <1>1, <2>6, <2>7, ScheduledFacts
    <2>9. ASSUME NEW k \in Nodes PROVE CountOf(timers'[k]) <= Cardinality(OwnedBy(k)')
      <3>1. CASE k # n
        <4>1. Cardinality(OwnedBy(k)) <= Cardinality(OwnedBy(k)')
          BY <2>2, <2>5, FS_Subset
        <4>2. timers'[k] = timers[k]
          BY <2>8, <3>1
        <4> QED BY <1>2, <1>4, <2>5, <4>1, <4>2
      <3>2. CASE k = n
        <4>1. OwnedBy(n) \cup {f} \subseteq OwnedBy(n)'
          BY <2>2, <2>3
        <4>2. IsFiniteSet(OwnedBy(n))
          BY <1>1, OwnedFinite
        <4>3. Cardinality(OwnedBy(n) \cup {f}) = Cardinality(OwnedBy(n)) + 1
          BY <2>3, <4>2, FS_AddElement
        <4>4. Cardinality(OwnedBy(n) \cup {f}) <= Cardinality(OwnedBy(n)')
          BY <2>5, <4>1, FS_Subset
        <4>5. Cardinality(OwnedBy(n)) + 1 <= Cardinality(OwnedBy(n)')
          BY <4>3, <4>4
        <4>6. CountOf(timers[n]) <= Cardinality(OwnedBy(n)) /\ CountOf(timers[n]) \in Nat
              /\ Cardinality(OwnedBy(n)) \in Nat /\ Cardinality(OwnedBy(n)') \in Nat
          BY <1>2, <1>4, <2>5
        <4> QED BY <2>8, <3>2, <4>5, <4>6
      <3> QED BY <3>1, <3>2
    <2> QED BY <1>3, <2>9
  <1>7. ASSUME NEW n \in Nodes, NEW draw \in Draws(n), MacTimer(n, draw)
        PROVE  FewTimers'
    <2>1. PICK m, x : Fires(n, m, x)
      BY <1>7, TimerFacts
    <2>2. /\ frames' = frames /\ timers' \in TimerTables
          /\ \A k \in Nodes : CountOf(timers'[k]) <= CountOf(timers[k])
      BY <2>1 DEF Fires
    <2>3. \A k \in Nodes : OwnedBy(k)' = OwnedBy(k)
      BY <2>2 DEF OwnedBy, Ids
    <2>4. \A k \in Nodes : CountOf(timers'[k]) \in Nat
      BY <2>2, CountIsNat
    <2>5. \A k \in Nodes : CountOf(timers'[k]) <= Cardinality(OwnedBy(k))
      BY <1>2, <1>4, <2>2, <2>4
    <2> QED BY <1>3, <2>3, <2>5
  <1>8. ASSUME NEW n \in Vehicles, Despawn(n) PROVE FewTimers'
    BY <1>5, <1>8 DEF Despawn
  <1>9. CASE Tick
    BY <1>5, <1>9 DEF Tick
  <1>10. CASE UNCHANGED vars
    BY <1>5, <1>10 DEF vars
  <1> QED BY <1>6, <1>7, <1>8, <1>9, <1>10 DEF Next

LEMMA CountInit == Init => FewTimers
  <1> SUFFICES ASSUME Init PROVE FewTimers
    OBVIOUS
  <1>0. Basic /\ timers \in TimerTables
    BY InitOK DEF IInv, Basic, TimerTables
  <1>1. \A k \in Nodes : CountOf(timers[k]) = 0
    <2> SUFFICES ASSUME NEW k \in Nodes PROVE CountOf(timers[k]) = 0
      OBVIOUS
    <2>1. timers[k] \in [0 .. Horizon -> Nat] /\ \A t \in 0 .. Horizon : timers[k][t] = 0
      BY DEF Init
    <2>2. PICK h : CountOf(timers[k]) = h[0 .. Horizon] /\ SumEq(h, 0 .. Horizon, timers[k])
      BY <2>1, CountIs
    <2>3. IsFiniteSet(0 .. Horizon)
      BY <2>1, CountIs
    <2> QED BY <2>1, <2>2, <2>3, SumOfZeros
  <1>2. \A k \in Nodes : CountOf(timers[k]) <= Cardinality(OwnedBy(k))
    BY <1>0, <1>1, OwnedFinite
  <1> QED BY <1>2 DEF FewTimers

(* Timers fire, reschedule themselves and are never cancelled: a node has  *)
(* never more of them than frames handed down.                             *)
THEOREM TimersStayFew == Spec => []TimersDontMultiply
  <1>1. IInv /\ FewTimers /\ [Next]_vars => (IInv /\ FewTimers)'
    BY NextOK, CountStep
  <1>2. Init => IInv /\ FewTimers
    BY InitOK, CountInit
  <1>3. FewTimers => TimersDontMultiply
    BY Zenon DEF FewTimers, TimersDontMultiply, CountOf, OwnedBy
  <1> QED BY <1>1, <1>2, <1>3, PTL DEF Spec

(* What is on the air stays on record.                                     *)
LEMMA LoudStays ==
  ASSUME OnAir \subseteq OnAir', NEW k, NEW t, Loud(k, t)
  PROVE  Loud(k, t)'
  BY DEF Loud, Hears, Covers

LEMMA AddsUpStays ==
  ASSUME OnAir \subseteq OnAir', IsFiniteSet(OnAir'), OnAir' \subseteq OnAirType,
         NEW k \in Nodes, NEW t, AddsUp(k, t)
  PROVE  AddsUp(k, t)'
  <1> DEFINE A == FaintAt(k, t)
             B == FaintAt(k, t)'
  <1>1. A \subseteq B /\ B \subseteq OnAir'
    BY DEF FaintAt, Arrivals, Covers
  <1>2. PowerSum(k, A) >= Threshold
    BY AddsUpIs
  <1>3. AddsUp(k, t)' <=> PowerSum(k, B) >= Threshold
    BY Zenon DEF AddsUp, PowerSum, FaintAt, MapThenSumSet, MapThenFoldSet
  <1> HIDE DEF A, B
  <1>4. IsFiniteSet(B) /\ B \subseteq OnAirType
    BY <1>1, FS_Subset
  <1>5. PowerSum(k, A) \in Nat /\ PowerSum(k, B) \in Nat /\ PowerSum(k, A) <= PowerSum(k, B)
    BY <1>1, <1>4, PowerSumGrows
  <1>6. Threshold \in Nat
    BY Constants
  <1> QED BY <1>2, <1>3, <1>5, <1>6

LEMMA AirGrows ==
  ASSUME Basic, NEW n \in Nodes, NEW m, NEW x, Fires(n, m, x)
  PROVE  /\ OnAir \subseteq OnAir' /\ IsFiniteSet(OnAir') /\ OnAir' \subseteq OnAirType
         /\ air' # air => x \in OnAir'
  <1>1. air \in Seq(OnAirType) /\ Len(air) \in Nat /\ DOMAIN air = 1 .. Len(air)
    BY DEF Basic
  <1>4. IsFiniteSet(OnAir) /\ OnAir \subseteq OnAirType
    BY OnAirFinite
  <1>2. CASE air' = air
    <2>1. OnAir' = OnAir
      BY <1>2 DEF OnAir
    <2> QED BY <1>2, <1>4, <2>1
  <1>3. CASE air' = Append(air, x) /\ Begins(n, m, x)
    <2>1. /\ DOMAIN air' = 1 .. (Len(air) + 1) /\ air'[Len(air) + 1] = x
          /\ \A i \in 1 .. Len(air) : air'[i] = air[i]
      BY <1>1, <1>3 DEF Begins
    <2>2. /\ \A i \in DOMAIN air : i \in DOMAIN air' /\ air'[i] = air[i]
          /\ Len(air) + 1 \in DOMAIN air'
          /\ \A i \in DOMAIN air' : i \in DOMAIN air \/ air'[i] = x
      BY <1>1, <2>1
    <2>3. OnAir' = OnAir \cup {x}
      BY <2>1, <2>2 DEF OnAir
    <2>4. x \in OnAirType
      BY <1>3 DEF Begins
    <2>5. IsFiniteSet(OnAir \cup {x})
      BY <1>4, FS_AddElement
    <2> QED BY <1>4, <2>3, <2>4, <2>5
  <1> QED BY <1>2, <1>3 DEF Fires

LEMMA SampledOK ==
  ASSUME IInv, LoadInv, NEW n \in Nodes, NEW m, NEW x, Fires(n, m, x), NEW k \in Nodes
  PROVE  /\ Sampled(n)[k] \in MeterStates
         /\ NotedOK(k, Sampled(n)[k]) /\ OpenFor(k, mac'[k].busy, Sampled(n)[k])
  <1>1. Basic /\ meter \in [Nodes -> MeterStates]
        /\ \A j \in Nodes : NotedOK(j, meter[j]) /\ OpenOK(j, meter[j])
    BY DEF IInv, LoadInv
  <1>2. mac' = [mac EXCEPT ![n] = m] /\ (m.busy <=> Busy(n, now)) /\ mac \in [Nodes -> MacStates]
    BY <1>1 DEF Fires, Leaves, Basic
  <1>3. CASE k = n
    <2> DEFINE b == Busy(n, now)
               r == MeterOnCca(meter[n], mac[n], b)
    <2>1. Sampled(n)[k] = r
      BY <1>1, <1>3 DEF Sampled
    <2>2. mac'[k] = m /\ b \in BOOLEAN
      BY <1>2, <1>3 DEF Busy
    <2> HIDE DEF b
    <2>3. r \in MeterStates /\ NotedOK(n, r) /\ OpenFor(n, b, r)
      BY <1>1, <2>2, SampleOK
    <2> HIDE DEF r
    <2> QED BY <1>2, <1>3, <2>1, <2>2, <2>3 DEF OpenFor, b
  <1>4. CASE k # n
    <2>1. Sampled(n)[k] = meter[k] /\ mac'[k] = mac[k]
      BY <1>1, <1>2, <1>4 DEF Sampled
    <2> QED BY <1>1, <2>1 DEF OpenOK, OpenFor
  <1> QED BY <1>3, <1>4

LEMMA FiresMeter ==
  ASSUME IInv, LoadInv, NEW n \in Nodes, NEW m, NEW x, Fires(n, m, x), NEW k \in Nodes
  PROVE  /\ meter'[k] \in MeterStates /\ NotedOK(k, meter[k])' /\ OpenOK(k, meter[k])'
         /\ meter'[k].open = Sampled(n)[k].open
  <1>1. PICK c : c = Sampled(n)[k]
    OBVIOUS
  <1>2. c \in MeterStates /\ NotedOK(k, c) /\ OpenFor(k, mac'[k].busy, c)
    BY <1>1, SampledOK
  <1>3. Basic /\ now \in Nat /\ Horizon \in Nat /\ Air \in Nat /\ now <= Horizon
    BY Numbers DEF IInv
  <1>4. /\ OnAir \subseteq OnAir' /\ IsFiniteSet(OnAir') /\ OnAir' \subseteq OnAirType
        /\ (air' # air => x \in OnAir') /\ now' = now
    BY <1>3, AirGrows DEF Fires
  <1>5. /\ \A t : Loud(k, t) => Loud(k, t)'
        /\ \A t : AddsUp(k, t) => AddsUp(k, t)'
    BY <1>4, LoudStays, AddsUpStays
  <1>10. \A from, t : Explained(k, from, t) => Explained(k, from, t)'
    BY <1>5 DEF Explained
  <1>6. PICK d : d = meter'[k]
    OBVIOUS
  <1>7. ASSUME d \in MeterStates, d.open = c.open,
               \A i \in DOMAIN d.busy :
                 \A t \in d.busy[i].from .. (d.busy[i].to - 1) : Explained(k, d.busy[i].from, t)'
        PROVE  /\ meter'[k] \in MeterStates /\ NotedOK(k, meter[k])' /\ OpenOK(k, meter[k])'
               /\ meter'[k].open = Sampled(n)[k].open
    <2>1. NotedOK(k, meter[k])'
      BY <1>6, <1>7 DEF NotedOK, Explained
    <2>2. /\ mac'[k].busy => d.open # NoTime
          /\ d.open # NoTime =>
               /\ mac'[k].busy /\ d.open \in 0 .. now
               /\ \A t \in d.open .. (now - 1) : Explained(k, d.open, t)'
      BY <1>2, <1>10, <1>7 DEF OpenFor
    <2>3. OpenOK(k, meter[k])'
      BY <1>4, <1>6, <2>2 DEF OpenOK, OpenFor, Explained
    <2> QED BY <1>1, <1>6, <1>7, <2>1, <2>3
  <1>8. CASE d = c
    <2>1. \A i \in DOMAIN d.busy :
            \A t \in d.busy[i].from .. (d.busy[i].to - 1) : Explained(k, d.busy[i].from, t)'
      BY <1>2, <1>10, <1>8 DEF NotedOK
    <2> QED BY <1>2, <1>7, <1>8, <2>1
  <1>9. CASE d # c
    <2>1. air' = Append(air, x) /\ Begins(n, m, x) /\ meter' = Heard(Sampled(n), x)
      <3>1. meter' # Sampled(n)
        BY <1>1, <1>6, <1>9
      <3> QED BY <3>1 DEF Fires
    <2>2. d = IF k \in x.to /\ Power[x.tx][k] >= Threshold
              THEN NoteBusy(c, x.start, x.end) ELSE c
      BY <1>1, <1>6, <2>1 DEF Heard
    <2>3. Hears(k, x) /\ d = NoteBusy(c, x.start, x.end)
      BY <1>9, <2>2 DEF Hears
    <2>4. x.start = now /\ x.end = now + Air /\ (x.end > Horizon => x.to = {})
      BY <2>1 DEF Begins
    <2>5. x.start \in 0 .. Horizon /\ x.end \in 0 .. Horizon
      BY <1>3, <2>3, <2>4 DEF Hears
    <2>6. air' # air
      <3>1. air \in Seq(OnAirType) /\ x \in OnAirType
        BY <1>3, <2>1 DEF Basic, Begins
      <3>2. Len(air') = Len(air) + 1 /\ Len(air) \in Nat
        BY <2>1, <3>1
      <3> QED BY <3>2
    <2>7. \A t \in x.start .. (x.end - 1) : Loud(k, t)'
      <3> SUFFICES ASSUME NEW t \in x.start .. (x.end - 1) PROVE Loud(k, t)'
        OBVIOUS
      <3>1. Covers(x, t)
        BY <2>5 DEF Covers
      <3>2. \E y \in OnAir' : Covers(y, t) /\ (y.tx = k \/ Hears(k, y))
        BY <1>4, <2>3, <2>6, <3>1
      <3> QED BY <3>2 DEF Loud, Covers, Hears
    <2>8. /\ d \in MeterStates /\ d.open = c.open
          /\ \A i \in DOMAIN d.busy :
                \/ \E j \in DOMAIN c.busy : d.busy[i] = c.busy[j]
                \/ d.busy[i].from = x.start /\ d.busy[i].to = x.end
      <3>1. PICK a \in 0 .. Horizon, b \in 0 .. Horizon : a = x.start /\ b = x.end
        BY <2>5
      <3> QED BY <1>2, <2>3, <3>1, NoteBusyFacts, SMTT(60)
    <2>9. \A i \in DOMAIN d.busy :
            \A t \in d.busy[i].from .. (d.busy[i].to - 1) : Explained(k, d.busy[i].from, t)'
      <3> SUFFICES ASSUME NEW i \in DOMAIN d.busy,
                          NEW t \in d.busy[i].from .. (d.busy[i].to - 1)
                   PROVE  Explained(k, d.busy[i].from, t)'
        OBVIOUS
      <3>1. CASE \E j \in DOMAIN c.busy : d.busy[i] = c.busy[j]
        BY <1>2, <1>10, <3>1 DEF NotedOK
      <3>2. CASE d.busy[i].from = x.start /\ d.busy[i].to = x.end
        BY <2>7, <3>2 DEF Explained
      <3> QED BY <2>8, <3>1, <3>2
    <2> QED BY <1>7, <2>8, <2>9
  <1> QED BY <1>8, <1>9

(* A node that finds the medium busy leaves a timer for when it clears.    *)
LEMMA FiresClear ==
  ASSUME IInv, LoadInv, NEW n \in Nodes, NEW m, NEW x, Fires(n, m, x), NEW k \in Nodes
  PROVE  ClearTimer(k)'
  <1>1. Basic /\ AirOK /\ ClearTimer(k)
    BY DEF IInv, LoadInv
  <1>2. now \in Nat /\ Horizon \in Nat /\ Air \in Nat /\ now <= Horizon
    BY <1>1, Numbers
  <1>3. /\ OnAir \subseteq OnAir' /\ IsFiniteSet(OnAir') /\ OnAir' \subseteq OnAirType
        /\ now' = now /\ timers' \in TimerTables
        /\ timers \in TimerTables
        /\ mac' = [mac EXCEPT ![n] = m] /\ (m.busy <=> Busy(n, now))
        /\ mac \in [Nodes -> MacStates]
        /\ \A j \in Nodes, u \in 0 .. Horizon : j # n \/ u # now => timers'[j][u] >= timers[j][u]
        /\ Busy(n, now) /\ MediumIdleAt(n) > now /\ MediumIdleAt(n) <= Horizon =>
              timers'[n][MediumIdleAt(n)] > 0
    BY <1>1, AirGrows DEF Fires, Leaves, Basic, TimerTables
  <1>4. \A from, t : Explained(k, from, t) => Explained(k, from, t)'
    BY <1>3, LoudStays, AddsUpStays DEF Explained
  <1>8. PICK o : o = meter'[k].open
    OBVIOUS
  <1>5. SUFFICES ASSUME mac'[k].busy
                 PROVE  \E t \in now .. (Horizon + 1) :
                           (t <= Horizon => timers'[k][t] > 0)
                           /\ \A u \in now .. (t - 1) : Explained(k, o, u)
    BY <1>3, <1>4, <1>8 DEF ClearTimer, Explained
  <1>9. o \in 0 .. now /\ o = Sampled(n)[k].open
    <2>1. OpenOK(k, meter[k])' /\ o = Sampled(n)[k].open
      BY <1>8, FiresMeter
    <2> QED BY <1>3, <1>5, <1>8, <2>1 DEF OpenOK, OpenFor
  <1>6. CASE k # n
    <2>1. mac[k].busy
      BY <1>3, <1>5, <1>6
    <2>2. PICK t \in now .. (Horizon + 1) :
            (t <= Horizon => timers[k][t] > 0) /\ \A u \in now .. (t - 1) : Explained(k, o, u)
      <3>1. o = meter[k].open
        BY <1>6, <1>9 DEF LoadInv, Sampled
      <3> QED BY <1>1, <2>1, <3>1 DEF ClearTimer
    <2>3. t <= Horizon => timers'[k][t] > 0
      <3> SUFFICES ASSUME t <= Horizon PROVE timers'[k][t] > 0
        OBVIOUS
      <3>1. t \in 0 .. Horizon
        BY <1>2
      <3>2. timers'[k][t] >= timers[k][t]
        BY <1>3, <1>6, <3>1
      <3>3. timers'[k][t] \in Nat /\ timers[k][t] \in Nat
        BY <1>3, <3>1 DEF TimerTables
      <3> QED BY <2>2, <3>2, <3>3
    <2> QED BY <2>2, <2>3
  <1>7. CASE k = n
    <2>1. Busy(n, now)
      BY <1>3, <1>5, <1>7
    <2>2. CASE ~Loud(n, now)
      <3>1. AddsUp(n, now)
        BY <1>1, <2>1, <2>2, BusyIsLoud
      <3>2. \A u \in now .. ((Horizon + 1) - 1) : now \in o .. u
        BY <1>2, <1>9
      <3>3. Horizon + 1 \in now .. (Horizon + 1) /\ ~(Horizon + 1 <= Horizon)
        BY <1>2
      <3>4. \A u \in now .. ((Horizon + 1) - 1) : Explained(k, o, u)
        BY <1>7, <3>1, <3>2 DEF Explained
      <3> QED BY <3>3, <3>4
    <2>8. SUFFICES ASSUME Loud(n, now)
                   PROVE  \E t \in now .. (Horizon + 1) :
                             (t <= Horizon => timers'[k][t] > 0)
                             /\ \A u \in now .. (t - 1) : Explained(k, o, u)
      BY <2>2
    <2>3. PICK y \in OnAir : Covers(y, now) /\ (y.tx = n \/ Hears(n, y))
      BY <2>8 DEF Loud
    <2>4. \A z \in OnAir : z.start \in Nat /\ z.end \in Nat /\ z.start <= now
      BY <1>1, OnAirFinite DEF AirOK, OnAirType
    <2>5. ASSUME NEW z \in OnAir, z.tx = n \/ Hears(n, z), NEW u \in now .. (z.end - 1)
          PROVE  Explained(k, o, u)
      <3>1. Covers(z, u)
        BY <1>2, <2>4 DEF Covers
      <3>2. Loud(n, u)
        BY <2>5, <3>1 DEF Loud
      <3> QED BY <1>7, <3>2 DEF Explained
    <2>6. CASE y.end > Horizon
      <3>1. Horizon + 1 \in now .. (Horizon + 1) /\ ~(Horizon + 1 <= Horizon)
        BY <1>2
      <3>2. \A u \in now .. ((Horizon + 1) - 1) : u \in now .. (y.end - 1)
        BY <1>2, <2>4, <2>6
      <3> QED BY <1>7, <2>3, <2>5, <3>1, <3>2
    <2>7. CASE ~(y.end > Horizon)
      <3> DEFINE idle == MediumIdleAt(n)
      <3>1. y.end > now /\ y.end <= Horizon
        BY <1>2, <2>3, <2>4, <2>7 DEF Covers
      <3>2. idle \in Nat /\ y.end <= idle
        BY <1>1, <2>3, <3>1, IdleAtFacts
      <3>3. idle > now
        BY <1>2, <2>4, <3>1, <3>2
      <3>4. PICK z \in OnAir : (z.tx = n \/ Hears(n, z)) /\ z.end = idle
        BY <1>1, <1>2, <3>2, <3>3, IdleAtFacts
      <3>5. idle <= Horizon => timers'[n][idle] > 0
        BY <1>3, <2>1, <3>3
      <3> HIDE DEF idle
      <3>6. \A u \in now .. (idle - 1) : Explained(k, o, u)
        BY <2>5, <3>4
      <3>7. CASE idle <= Horizon
        <4>1. idle \in now .. (Horizon + 1)
          BY <1>2, <3>2, <3>3, <3>7
        <4> QED BY <1>7, <3>5, <3>6, <4>1
      <3>8. CASE ~(idle <= Horizon)
        <4>1. Horizon + 1 \in now .. (Horizon + 1) /\ ~(Horizon + 1 <= Horizon)
          BY <1>2
        <4>2. \A u \in now .. ((Horizon + 1) - 1) : u \in now .. (idle - 1)
          BY <1>2, <3>2, <3>8
        <4> QED BY <1>7, <3>6, <4>1, <4>2
      <3> QED BY <3>7, <3>8
    <2> QED BY <2>6, <2>7
  <1> QED BY <1>6, <1>7

LEMMA SameAir ==
  ASSUME OnAir' = OnAir, NEW k, NEW from, NEW t, Explained(k, from, t)
  PROVE  Explained(k, from, t)'
  <1>1. Loud(k, t) => Loud(k, t)'
    BY DEF Loud, Hears, Covers
  <1>2. \A s : AddsUp(k, s) => AddsUp(k, s)'
    <2> SUFFICES ASSUME NEW s, AddsUp(k, s) PROVE AddsUp(k, s)'
      OBVIOUS
    <2>1. Arrivals(k, s)' = Arrivals(k, s)
      BY DEF Arrivals, Covers
    <2> QED BY <2>1, Zenon DEF AddsUp, MapThenSumSet, MapThenFoldSet
  <1> QED BY <1>1, <1>2 DEF Explained

LEMMA LoadStep ==
  ASSUME IInv, LoadInv, [Next]_vars
  PROVE  LoadInv'
  <1>1. /\ Basic /\ meter \in [Nodes -> MeterStates]
        /\ \A k \in Nodes : NotedOK(k, meter[k]) /\ OpenOK(k, meter[k]) /\ ClearTimer(k)
    BY DEF IInv, LoadInv
  <1>2. now \in Nat /\ Horizon \in Nat /\ now <= Horizon /\ timers \in TimerTables
    BY <1>1, Numbers DEF Basic, TimerTables
  <1>3. ASSUME NEW n \in Nodes, NEW draw \in Draws(n), MacTimer(n, draw) PROVE LoadInv'
    <2>1. PICK m, x : Fires(n, m, x)
      BY <1>3, TimerFacts
    <2>2. \A k \in Nodes : meter'[k] \in MeterStates /\ NotedOK(k, meter[k])' /\ OpenOK(k, meter[k])'
      BY <2>1, FiresMeter
    <2>3. \A k \in Nodes : ClearTimer(k)'
      BY <2>1, FiresClear
    <2>4. meter' \in [Nodes -> MeterStates]
      <3>1. \E g : meter' = [k \in Nodes |-> g[k]]
        <4>1. CASE meter' = Sampled(n)
          <5>1. Sampled(n) = [k \in Nodes |-> Sampled(n)[k]]
            BY <1>1 DEF Sampled
          <5> QED BY <4>1, <5>1
        <4>2. CASE meter' = Heard(Sampled(n), x)
          <5>1. Heard(Sampled(n), x) = [k \in Nodes |-> Heard(Sampled(n), x)[k]]
            BY DEF Heard
          <5> QED BY <4>2, <5>1
        <4> QED BY <2>1, <4>1, <4>2 DEF Fires
      <3> QED BY <2>2, <3>1
    <2> QED BY <2>2, <2>3, <2>4 DEF LoadInv
  <1>4. ASSUME meter' = meter, mac' = mac, air' = air, now' = now,
               \A k \in Nodes, u \in 0 .. Horizon : timers[k][u] > 0 => timers'[k][u] > 0
        PROVE  LoadInv'
    <2>1. OnAir' = OnAir
      BY <1>4 DEF OnAir
    <2>2. \A k, from, t : Explained(k, from, t) => Explained(k, from, t)'
      BY <2>1, SameAir
    <2>3. \A k \in Nodes : NotedOK(k, meter[k])' /\ OpenOK(k, meter[k])'
      BY <1>1, <1>4, <2>2 DEF NotedOK, OpenOK, OpenFor, Explained
    <2>4. ASSUME NEW k \in Nodes PROVE ClearTimer(k)'
      <3> SUFFICES ASSUME mac[k].busy
                   PROVE  \E t \in now .. (Horizon + 1) :
                             (t <= Horizon => timers'[k][t] > 0)
                             /\ \A u \in now .. (t - 1) : Explained(k, meter[k].open, u)
        BY <1>4, <2>2 DEF ClearTimer, Explained
      <3>1. PICK t \in now .. (Horizon + 1) :
              /\ t <= Horizon => timers[k][t] > 0
              /\ \A u \in now .. (t - 1) : Explained(k, meter[k].open, u)
        BY <1>1 DEF ClearTimer
      <3>2. t <= Horizon => t \in 0 .. Horizon
        BY <1>2
      <3> QED BY <1>4, <3>1, <3>2
    <2> QED BY <1>1, <1>4, <2>3, <2>4 DEF LoadInv
  <1>5. ASSUME NEW n \in Nodes, NEW count \in 1 .. MaxBurst, NEW signing \in SignTimes,
               HandDown(n, count, signing)
        PROVE  LoadInv'
    <2>1. now + signing \in Nat
      BY <1>2, Constants
    <2>2. /\ timers' = Scheduled(timers, n, now + signing)
          /\ meter' = meter /\ mac' = mac /\ air' = air /\ now' = now
      BY <1>5 DEF HandDown
    <2>3. timers' \in TimerTables /\ \A k \in Nodes, u \in 0 .. Horizon : timers'[k][u] >= timers[k][u]
      BY <1>2, <2>1, <2>2, ScheduledFacts
    <2>4. \A k \in Nodes, u \in 0 .. Horizon : timers[k][u] > 0 => timers'[k][u] > 0
      <3> SUFFICES ASSUME NEW k \in Nodes, NEW u \in 0 .. Horizon, timers[k][u] > 0
                   PROVE  timers'[k][u] > 0
        OBVIOUS
      <3>1. timers'[k][u] \in Nat /\ timers[k][u] \in Nat /\ timers'[k][u] >= timers[k][u]
        BY <1>2, <2>3 DEF TimerTables
      <3> QED BY <3>1
    <2> QED BY <1>4, <2>2, <2>4
  <1>6. ASSUME NEW n \in Vehicles, Despawn(n) PROVE LoadInv'
    <2>1. meter' = meter /\ mac' = mac /\ air' = air /\ now' = now /\ timers' = timers
      BY <1>6 DEF Despawn
    <2> QED BY <1>4, <2>1
  <1>7. CASE UNCHANGED vars
    <2>1. meter' = meter /\ mac' = mac /\ air' = air /\ now' = now /\ timers' = timers
      BY <1>7 DEF vars
    <2> QED BY <1>4, <2>1
  <1>8. CASE Tick
    <2>1. /\ now < Horizon /\ \A k \in Nodes, t \in 0 .. now : timers[k][t] = 0
          /\ now' = now + 1 /\ meter' = meter /\ mac' = mac /\ air' = air /\ timers' = timers
      BY <1>8 DEF Tick
    <2>2. OnAir' = OnAir
      BY <2>1 DEF OnAir
    <2>3. \A k, from, t : Explained(k, from, t) => Explained(k, from, t)'
      BY <2>2, SameAir
    <2>4. ASSUME NEW k \in Nodes, mac[k].busy
          PROVE  /\ Explained(k, meter[k].open, now)
                 /\ \E t \in (now + 1) .. (Horizon + 1) :
                       (t <= Horizon => timers[k][t] > 0)
                       /\ \A u \in (now + 1) .. (t - 1) : Explained(k, meter[k].open, u)
      <3>1. PICK t \in now .. (Horizon + 1) :
              /\ t <= Horizon => timers[k][t] > 0
              /\ \A u \in now .. (t - 1) : Explained(k, meter[k].open, u)
        BY <1>1, <2>4 DEF ClearTimer
      <3>2. t # now
        <4> SUFFICES ASSUME t = now PROVE FALSE
          OBVIOUS
        <4>1. now \in 0 .. now
          BY <1>2
        <4> QED BY <1>2, <2>1, <3>1, <4>1
      <3>3. now \in now .. (t - 1) /\ t \in (now + 1) .. (Horizon + 1)
            /\ \A u \in (now + 1) .. (t - 1) : u \in now .. (t - 1)
        BY <1>2, <3>2
      <3> QED BY <3>1, <3>3
    <2>5. \A k \in Nodes : NotedOK(k, meter[k])'
      BY <1>1, <2>1, <2>3 DEF NotedOK, Explained
    <2>6. ASSUME NEW k \in Nodes PROVE OpenOK(k, meter[k])'
      <3> SUFFICES ASSUME meter[k].open # NoTime
                   PROVE  /\ mac[k].busy /\ meter[k].open \in 0 .. (now + 1)
                          /\ \A t \in meter[k].open .. ((now + 1) - 1) :
                                Explained(k, meter[k].open, t)
        BY <1>1, <2>1, <2>3 DEF OpenOK, OpenFor, Explained
      <3>1. mac[k].busy /\ meter[k].open \in 0 .. now
            /\ \A t \in meter[k].open .. (now - 1) : Explained(k, meter[k].open, t)
        BY <1>1 DEF OpenOK, OpenFor
      <3>2. Explained(k, meter[k].open, now)
        BY <2>4, <3>1
      <3>3. \A t \in meter[k].open .. ((now + 1) - 1) : t = now \/ t \in meter[k].open .. (now - 1)
        BY <1>2, <3>1
      <3>4. meter[k].open \in 0 .. (now + 1)
        BY <1>2, <3>1
      <3> QED BY <3>1, <3>2, <3>3, <3>4
    <2>7. ASSUME NEW k \in Nodes PROVE ClearTimer(k)'
      BY <2>1, <2>3, <2>4 DEF ClearTimer, Explained
    <2> QED BY <1>1, <2>1, <2>5, <2>6, <2>7 DEF LoadInv
  <1> QED BY <1>3, <1>5, <1>6, <1>7, <1>8 DEF Next

LEMMA LoadInit == Init => LoadInv
  <1> SUFFICES ASSUME Init PROVE LoadInv
    OBVIOUS
  <1> DEFINE c == [busy |-> <<>>, open |-> NoTime]
  <1>1. meter = [n \in Nodes |-> c]
    BY DEF Init
  <1>2. c \in MeterStates /\ DOMAIN c.busy = {} /\ c.open = NoTime
    BY DEF MeterStates, NoTime
  <1> HIDE DEF c
  <1>3. \A n \in Nodes : meter[n] = c
    BY <1>1
  <1>4. meter \in [Nodes -> MeterStates]
    BY <1>1, <1>2
  <1>5. \A n \in Nodes : mac[n].busy = FALSE
    BY DEF Init
  <1> QED BY <1>2, <1>3, <1>4, <1>5 DEF LoadInv, NotedOK, OpenOK, OpenFor, ClearTimer

(* What the meters hold was busy, and a node that found the medium busy    *)
(* has a timer before it can be idle, but where faint frames added up.     *)
THEOREM LoadInvariant == Spec => []LoadInv
  <1>1. IInv /\ LoadInv /\ [Next]_vars => LoadInv'
    BY LoadStep
  <1> QED BY <1>1, LoadInit, AccessInvariant, PTL DEF Spec

(* An instant CbrMeter counts as busy is one at which the node's detector  *)
(* was busy, whatever was sampled, noted ahead and pruned, or one of a     *)
(* stretch that has been counted ever since faint frames added up.         *)
THEOREM LoadStaysReal == Spec => []LoadIsReal
  <1>1. IInv /\ LoadInv => LoadIsReal
    <2> SUFFICES ASSUME IInv, LoadInv, NEW n \in Nodes, NEW t \in Counted(meter[n], now),
                        ~Busy(n, t)
                 PROVE  \E s \in 0 .. t :
                           /\ AddsUp(n, s)
                           /\ \A u \in s .. t : u >= now - Window => u \in Counted(meter[n], now)
      BY DEF LoadIsReal
    <2>1. /\ Basic /\ NotedOK(n, meter[n]) /\ OpenOK(n, meter[n])
          /\ meter[n] \in MeterStates
      BY DEF IInv, LoadInv
    <2>2. now \in Nat /\ Window \in Nat /\ Horizon \in Nat
      BY <2>1, Numbers, Constants
    <2>3. /\ Max({0, now - Window}) \in Nat
          /\ Max({0, now - Window}) = IF 0 >= now - Window THEN 0 ELSE now - Window
      <3>1. 0 \in Int /\ now - Window \in Int
        BY <2>2
      <3>2. Max({0, now - Window}) = IF 0 >= now - Window THEN 0 ELSE now - Window
        BY <3>1, MaxOfTwo
      <3> QED BY <2>2, <3>1, <3>2
    <2>4. /\ t \in Max({0, now - Window}) .. (now - 1)
          /\ \/ \E k \in DOMAIN meter[n].busy :
                   meter[n].busy[k].from <= t /\ t < meter[n].busy[k].to
             \/ meter[n].open # NoTime /\ meter[n].open <= t
      BY Zenon DEF Counted
    <2>5. t \in Int /\ t <= now - 1 /\ t >= 0
      BY <2>2, <2>3, <2>4
    <2>8. ~Loud(n, t)
      BY <2>1, LoudIsBusy
    <2>9. ASSUME NEW from \in 0 .. t, Explained(n, from, t),
                 \A u \in from .. t :
                    \/ \E k \in DOMAIN meter[n].busy :
                          meter[n].busy[k].from <= u /\ u < meter[n].busy[k].to
                    \/ meter[n].open # NoTime /\ meter[n].open <= u
          PROVE  \E s \in 0 .. t :
                    /\ AddsUp(n, s)
                    /\ \A u \in s .. t : u >= now - Window => u \in Counted(meter[n], now)
      <3>1. PICK s \in from .. t : AddsUp(n, s)
        BY <2>8, <2>9 DEF Explained
      <3>2. s \in 0 .. t
        BY <2>5, <3>1
      <3>3. ASSUME NEW u \in s .. t, u >= now - Window PROVE u \in Counted(meter[n], now)
        <4>1. u \in from .. t /\ u \in Max({0, now - Window}) .. (now - 1)
          BY <2>2, <2>3, <2>5, <3>1, <3>2, <3>3
        <4>2. \/ \E k \in DOMAIN meter[n].busy :
                    meter[n].busy[k].from <= u /\ u < meter[n].busy[k].to
              \/ meter[n].open # NoTime /\ meter[n].open <= u
          BY <2>9, <4>1
        <4> QED BY <4>1, <4>2, Zenon DEF Counted
      <3> QED BY <3>1, <3>2, <3>3
    <2>6. CASE \E k \in DOMAIN meter[n].busy :
                   meter[n].busy[k].from <= t /\ t < meter[n].busy[k].to
      <3>1. PICK k \in DOMAIN meter[n].busy :
              meter[n].busy[k].from <= t /\ t < meter[n].busy[k].to
        BY <2>6
      <3>2. PICK i : i = meter[n].busy[k]
        OBVIOUS
      <3>3. i.from \in Nat /\ i.to \in Nat
        <4>1. meter[n].busy \in Seq(Intervals)
          BY <2>1 DEF MeterStates
        <4>2. i \in Intervals
          BY <3>2, <4>1
        <4> QED BY <2>2, <4>2 DEF Intervals
      <3>4. t \in i.from .. (i.to - 1) /\ i.from \in 0 .. t
        BY <2>5, <3>1, <3>2, <3>3
      <3>5. Explained(n, i.from, t)
        BY <2>1, <3>2, <3>4 DEF NotedOK
      <3>6. \A u \in i.from .. t : i.from <= u /\ u < i.to
        BY <2>5, <3>3, <3>4
      <3> QED BY <2>9, <3>2, <3>4, <3>5, <3>6
    <2>7. CASE meter[n].open # NoTime /\ meter[n].open <= t
      <3>1. PICK o : o = meter[n].open
        OBVIOUS
      <3>2. o \in 0 .. now /\ \A u \in o .. (now - 1) : Explained(n, o, u)
        BY <2>1, <2>7, <3>1 DEF OpenOK, OpenFor
      <3>3. t \in o .. (now - 1) /\ o \in 0 .. t
        BY <2>2, <2>5, <2>7, <3>1, <3>2
      <3>4. \A u \in o .. t : o # NoTime /\ o <= u
        BY <2>5, <2>7, <3>1, <3>2
      <3> QED BY <2>9, <3>1, <3>2, <3>3, <3>4
    <2> QED BY <2>4, <2>6, <2>7
  <1> QED BY <1>1, AccessInvariant, LoadInvariant, PTL

(***************************************************************************)
(* Every variable has its type, and what waits has a timer.                *)
(***************************************************************************)

(* A transmission reports an AIFS and slots a backoff can have.            *)
ReportOK == \A x \in OnAir : x.aifs \in 0 .. Aifs /\ x.slots \in 0 .. Cw

LEMMA ReportStep ==
  ASSUME IInv, ReportOK, [Next]_vars
  PROVE  ReportOK'
  <1>1. ASSUME air' = air PROVE ReportOK'
    BY <1>1 DEF ReportOK, OnAir
  <1>2. ASSUME NEW n \in Nodes, NEW draw \in Draws(n), MacTimer(n, draw) PROVE ReportOK'
    <2>1. PICK m, x : Fires(n, m, x)
      BY <1>2, TimerFacts
    <2>2. CASE air' = Append(air, x) /\ Begins(n, m, x)
      <3>1. x.aifs \in 0 .. Aifs /\ x.slots \in 0 .. Cw /\ x \in OnAirType
        BY <2>2, Constants DEF Begins
      <3>2. air \in Seq(OnAirType) /\ Len(air) \in Nat /\ DOMAIN air = 1 .. Len(air)
        BY DEF IInv, Basic
      <3>3. DOMAIN air' = 1 .. (Len(air) + 1) /\ air'[Len(air) + 1] = x
            /\ \A i \in 1 .. Len(air) : air'[i] = air[i]
        BY <2>2, <3>1, <3>2
      <3>4. \A i \in DOMAIN air' : air'[i] = x \/ (i \in DOMAIN air /\ air'[i] = air[i])
        BY <3>2, <3>3
      <3> QED BY <3>1, <3>4 DEF ReportOK, OnAir
    <2> QED BY <1>1, <2>1, <2>2 DEF Fires
  <1> QED BY <1>1, <1>2 DEF Next, HandDown, Despawn, Tick, vars

LEMMA TypesHold ==
  ASSUME IInv, LoadInv, ReportOK
  PROVE  TypeOK
  <1>1. /\ Basic /\ AirOK /\ SentAtItsSlot /\ meter \in [Nodes -> MeterStates]
        /\ \A n \in Nodes : MacOK(n, mac[n]) /\ OpenOK(n, meter[n])
    BY DEF IInv, Access, LoadInv
  <1>2. /\ now \in Nat /\ now <= Horizon /\ Aifs \in Nat /\ Air \in Nat /\ Slot \in Nat
        /\ Cw \in Nat /\ Horizon \in Nat /\ NoTime = -1 /\ Cw * Slot \in Nat
    BY <1>1, Numbers, SlotTimes
  <1>3. \A t \in NoTime .. (now + Air + Aifs) : t \in Times
    <2> DEFINE w == Cw * Slot
    <2>1. w \in Nat
      BY <1>2
    <2> HIDE DEF w
    <2>2. \A t \in NoTime .. (now + Air + Aifs) : t \in NoTime .. (Horizon + Air + Aifs + w)
      BY <1>2, <2>1
    <2> QED BY <2>2 DEF Times, w
  <1>4. NoTime \in Times /\ \A t \in 0 .. (now + Air) : t \in Times
    BY <1>2, <1>3
  <1>5. frames \in Seq([node : Nodes, ready : 0 .. Horizon])
    BY <1>1 DEF Basic, FrameType
  <1>6. ASSUME NEW n \in Nodes PROVE mac[n] \in MacType /\ Len(mac[n].queue) <= QueueDepth
    <2>1. PICK m : m = mac[n]
      OBVIOUS
    <2>2. m \in MacStates /\ QueueOK(n, m.queue) /\ BackoffOK(m)
      BY <1>1, <2>1 DEF MacOK
    <2> DEFINE b == m.backoff
    <2>3. /\ b.armed \in BOOLEAN /\ b.remaining \in 0 .. Cw /\ b.drawn \in 0 .. Cw
          /\ b.resume \in Times /\ b.aifs \in 0 .. Aifs /\ m.idleSince \in Times
      <3>1. /\ b.drawn \in 0 .. Cw /\ b.remaining \in 0 .. b.drawn /\ b.aifs \in 0 .. Aifs
            /\ b.resume \in NoTime .. (now + Air + Aifs) /\ m.idleSince \in NoTime .. now
        BY <2>2 DEF BackoffOK
      <3>2. b.armed \in BOOLEAN
        BY <2>2, BackoffFields
      <3>3. b.remaining \in 0 .. Cw
        BY <1>2, <3>1
      <3>4. m.idleSince \in NoTime .. (now + Air + Aifs)
        BY <1>2, <3>1
      <3> QED BY <1>3, <3>1, <3>2, <3>3, <3>4
    <2>4. b \in BackoffType
      <3>1. b \in [armed : BOOLEAN, remaining : Int, drawn : Int, resume : Int, aifs : Int]
        BY <2>2, BackoffFields DEF Backoffs
      <3> HIDE DEF b
      <3> QED BY <2>3, <3>1 DEF BackoffType
    <2>5. m.queue \in Seq(Ids)
      <3>1. \A i \in DOMAIN m.queue : m.queue[i] \in Ids
        BY <2>2 DEF QueueOK, Ids
      <3>2. m.queue \in Seq(Nat)
        BY <2>2, BackoffFields
      <3> QED BY <3>1, <3>2
    <2>6. m \in MacType
      BY <2>2, <2>3, <2>4, <2>5 DEF MacStates, MacType
    <2> QED BY <2>1, <2>2, <2>6 DEF QueueOK
  <1>7. ASSUME NEW n \in Nodes PROVE meter[n] \in MeterType
    <2>1. PICK c : c = meter[n]
      OBVIOUS
    <2>2. c \in MeterStates /\ (c.open = NoTime \/ c.open \in 0 .. now)
      BY <1>1, <2>1 DEF OpenOK, OpenFor
    <2>3. c.open \in Times
      <3>1. CASE c.open = NoTime
        BY <1>4, <3>1
      <3>2. CASE c.open \in 0 .. now
        <4>1. c.open \in 0 .. (now + Air)
          BY <1>2, <3>2
        <4> QED BY <1>4, <4>1
      <3> QED BY <2>2, <3>1, <3>2
    <2>4. c \in MeterType
      BY <2>2, <2>3 DEF MeterStates, MeterType, Intervals
    <2> QED BY <2>1, <2>4
  <1>8. ASSUME NEW x \in OnAir PROVE x \in TransmissionType
    <2>1. /\ x \in OnAirType /\ x.frame \in DOMAIN frames /\ x.start <= now
          /\ x.end = x.start + Air /\ x.due = x.start
          /\ x.aifs \in 0 .. Aifs /\ x.slots \in 0 .. Cw
      BY <1>1, OnAirFinite DEF AirOK, SentAtItsSlot, ReportOK
    <2>2. x.start \in Nat /\ x.end \in Nat
      BY <2>1 DEF OnAirType
    <2>3. x.start \in 0 .. Horizon /\ x.start \in 0 .. (now + Air) /\ x.end \in 0 .. (now + Air)
      BY <1>2, <2>1, <2>2
    <2>4. x.end \in Times /\ x.due \in Times
      BY <1>4, <2>1, <2>3
    <2> QED BY <2>1, <2>3, <2>4 DEF OnAirType, TransmissionType, Ids
  <1>9. air \in Seq(TransmissionType)
    <2>1. \A i \in DOMAIN air : air[i] \in TransmissionType
      BY <1>8 DEF OnAir
    <2>2. air \in Seq(OnAirType)
      BY <1>1 DEF Basic
    <2> QED BY <2>1, <2>2
  <1>10. mac \in [Nodes -> MacType] /\ meter \in [Nodes -> MeterType]
    BY <1>1, <1>6, <1>7 DEF Basic
  <1> QED BY <1>1, <1>5, <1>6, <1>9, <1>10 DEF TypeOK, Basic, Ids

(* Nothing that is on the air now is there an air time from now.           *)
LEMMA ClearExists ==
  ASSUME Basic, AirOK, NEW n \in Nodes
  PROVE  \E t \in now .. (now + Air) : ~Busy(n, t) /\ \A s \in now .. (t - 1) : Busy(n, s)
  <1>1. now \in Nat /\ Air \in Nat /\ Threshold \in Nat /\ Threshold > 0
    BY Numbers, Constants
  <1>2. \A x \in OnAir : ~Covers(x, now + Air)
    <2> SUFFICES ASSUME NEW x \in OnAir PROVE ~Covers(x, now + Air)
      OBVIOUS
    <2>1. x.start \in Nat /\ x.start <= now /\ x.end = x.start + Air
      BY OnAirFinite DEF AirOK, OnAirType
    <2> QED BY <1>1, <2>1 DEF Covers
  <1>3. Arrivals(n, now + Air) = {} /\ ~Transmits(n, now + Air)
    BY <1>2 DEF Arrivals, Transmits
  <1>4. Energy(n, now + Air) = 0
    BY <1>3, EnergyAtLeast
  <1>5. ~Busy(n, now + Air)
    BY <1>1, <1>3, <1>4 DEF Busy
  <1> DEFINE T == {t \in now .. (now + Air) : ~Busy(n, t)}
  <1>6. T \subseteq Nat /\ T # {}
    BY <1>1, <1>5
  <1>7. PICK t \in T : \A s \in T : t <= s
    BY <1>6, LeastNumber
  <1>8. \A s \in now .. (t - 1) : s \in now .. (now + Air) /\ ~(t <= s)
    BY <1>1, <1>7
  <1> QED BY <1>7, <1>8

LEMMA WokenHolds ==
  ASSUME IInv, LoadInv
  PROVE  WokenInTime
  <1>1. /\ Basic /\ AirOK /\ PendingOK
        /\ \A n \in Nodes : MacOK(n, mac[n]) /\ PollTimer(n, mac[n]) /\ ClearTimer(n)
    BY DEF IInv, LoadInv
  <1>2. now \in Nat /\ Horizon \in Nat /\ Air \in Nat
    BY <1>1, Numbers
  <1>3. ASSUME NEW f \in pending PROVE TimerBy(frames[f].node, frames[f].ready)
    <2>1. frames[f].ready \in 0 .. Horizon /\ timers[frames[f].node][frames[f].ready] > 0
      BY <1>1, <1>2, FrameFacts DEF PendingOK, Basic
    <2>2. frames[f].ready <= frames[f].ready
      BY <1>2, <2>1
    <2> QED BY <2>1, <2>2 DEF TimerBy
  <1>4. ASSUME NEW n \in Nodes, mac[n].queue # <<>>, ~mac[n].busy, Due(mac[n].backoff) <= Horizon
        PROVE  TimerBy(n, Due(mac[n].backoff))
    <2>1. PICK m : m = mac[n]
      OBVIOUS
    <2>2. m \in MacStates /\ BackoffOK(m) /\ m.backoff.armed
      BY <1>1, <1>4, <2>1 DEF MacOK, BackoffOK
    <2>3. timers[n][Due(m.backoff)] > 0
      BY <1>1, <1>4, <2>1, <2>2 DEF PollTimer
    <2>4. Due(m.backoff) \in 0 .. Horizon
      <3>1. now <= Due(m.backoff) /\ m.backoff.resume \in Int /\ m.backoff.remaining \in Nat
        BY <1>1, <1>4, <2>1, <2>2, Numbers, BackoffFields DEF BackoffOK
      <3>2. m.backoff.remaining * Slot \in Nat
        BY <3>1, SlotTimes
      <3>3. Due(m.backoff) \in Int
        BY <3>1, <3>2 DEF Due
      <3> QED BY <1>2, <1>4, <2>1, <3>1, <3>3
    <2>5. Due(m.backoff) <= Due(m.backoff)
      BY <2>4
    <2> QED BY <2>1, <2>3, <2>4, <2>5 DEF TimerBy
  <1>5. ASSUME NEW n \in Nodes, mac[n].busy, ClearAt(n) <= Horizon,
               \A s \in meter[n].open .. ClearAt(n) : ~AddsUp(n, s)
        PROVE  TimerBy(n, ClearAt(n))
    <2> DEFINE c == ClearAt(n)
    <2>1. c \in now .. (now + Air) /\ ~Busy(n, c)
      <3>1. \E t \in now .. (now + Air) : ~Busy(n, t) /\ \A s \in now .. (t - 1) : Busy(n, s)
        BY <1>1, ClearExists
      <3> QED BY <3>1, Zenon DEF ClearAt
    <2> HIDE DEF c
    <2>2. PICK t \in now .. (Horizon + 1) :
            /\ t <= Horizon => timers[n][t] > 0
            /\ \A u \in now .. (t - 1) : Explained(n, meter[n].open, u)
      BY <1>1, <1>5 DEF ClearTimer
    <2>3. ~Explained(n, meter[n].open, c)
      BY <1>1, <1>5, <2>1, LoudIsBusy DEF Explained, c
    <2>4. c \notin now .. (t - 1)
      BY <2>2, <2>3
    <2>5. c <= Horizon
      BY <1>5 DEF c
    <2>6. t <= c /\ t <= Horizon /\ t \in 0 .. Horizon
      BY <1>2, <2>1, <2>4, <2>5
    <2> QED BY <2>2, <2>6 DEF TimerBy, c
  <1> QED BY <1>3, <1>4, <1>5 DEF WokenInTime

(* on_mac_timer leaves a timer for all that waits, early enough for its    *)
(* slot or for the end of what it defers to unless faint frames added up   *)
(* meanwhile, no more timers than frames, and every variable in its type.  *)
THEOREM TimersAreSound == Spec => []TimersSound
  <1>1. IInv /\ ReportOK /\ [Next]_vars => ReportOK'
    BY ReportStep
  <1>2. Init => ReportOK
    BY DEF Init, ReportOK, OnAir
  <1>3. IInv /\ LoadInv /\ ReportOK /\ TimersDontMultiply => TimersSound
    BY TypesHold, WokenHolds DEF TimersSound
  <1> QED BY <1>1, <1>2, <1>3, AccessInvariant, LoadInvariant, TimersStayFew, PTL DEF Spec
=============================================================================
