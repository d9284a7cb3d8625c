-------------------------- MODULE NodeReceiveProofs --------------------------
(***************************************************************************)
(* Proofs about NodeReceive, for every profile, capacity, number of        *)
(* servers, frames and outages: no frame is lost, doubled or taken for     *)
(* another (FramesAreSound), the one pending wake of a node comes in time  *)
(* for everything it has to do (WokenInTime), verified messages reach the  *)
(* applications in arrival order (OrderIsKept), and checks share their     *)
(* servers and are handed over in time (VerifierIsSound).                  *)
(*                                                                         *)
(* The inductive invariant IInv has three parts.  FramesInv says where     *)
(* every frame is; WakesOK that the pending wake is early enough; OrderInv *)
(* that a frame keeps its place in line from the inbox to the              *)
(* applications.  PaceInv, inductive under IInv, adds which server runs    *)
(* which check and what the node's last periodic step has caught up with.  *)
(* There is one lemma per action and part.                                 *)
(***************************************************************************)
EXTENDS NodeReceive, FiniteSetTheorems, SequenceTheorems, WellFoundedInduction, TLAPS

QueueType == [token : Tokens, enqueuedAt : Times]
CheckType == [token : Tokens, arrived : Times, start : Times, finish : Times, seq : Nat]
HandedType == [token : Tokens, arrived : Times, start : Times, done : Times, at : Times]

(* Types of the engine's state.                                            *)
EngineTypes ==
  /\ profile \in Profiles
  /\ now \in Instants /\ stage \in Control..NodeTask /\ stepDue \in BOOLEAN
  /\ node \in {"active", "off", "gone"} /\ outages \in 0..MaxOutages /\ onAt \in Instants
  /\ inbox \subseteq FrameType /\ pending \subseteq Tokens
  /\ wakes \subseteq Instants /\ nodeWake \subseteq Instants
  /\ \A t, u \in nodeWake : t = u

(* Types of the node's state.                                              *)
NodeTypes ==
  /\ pc \in {"idle", "frame", "advance", "complete", "decide", "generate", "schedule",
             "ended"}
  /\ isWake \in BOOLEAN /\ until \in Times
  /\ frames \subseteq FrameType /\ current \subseteq MetaType
  /\ \A f, g \in current : f = g
  /\ parseStarts \in Seq(Times) /\ Len(parseStarts) <= profile.rxCapacity
  /\ queue \in Seq(QueueType) /\ verifyMeta \in Seq(MetaType)
  /\ Len(queue) <= profile.capacity
  /\ verifying \subseteq CheckType /\ verifySeq \in Nat
  /\ fate \in [Tokens -> Fates] /\ handed \in Seq(HandedType)

(* Every bank has its servers.                                             *)
ServerTypes ==
  /\ DOMAIN freeAt = Banks
  /\ \A b \in Banks : freeAt[b] \in [1..profile.servers[b] -> Times]

(* What the handler holds where it stands.                                 *)
HandlerOK ==
  /\ pc \in {"idle", "ended", "generate", "schedule"} => frames = {}
  /\ pc \in {"idle", "ended", "generate", "schedule", "frame"} => current = {}
  /\ pc = "decide" => current # {}
  /\ pc \in {"advance", "complete"} /\ current = {} => frames = {} /\ until = now
  /\ node = "gone" => /\ pc \in {"idle", "ended"} /\ inbox = {} /\ nodeWake = {}
                      /\ queue = <<>> /\ verifying = {}
  /\ pc \in {"frame", "advance", "complete", "decide", "generate"} => node = "active"
  /\ pc = "schedule" => node # "gone"

SeqTokens(s) == {s[i].token : i \in 1..Len(s)}
Sole(S) == \A x, y \in S : x.token = y.token => x = y
SoleSeq(s) == \A i, j \in 1..Len(s) : s[i].token = s[j].token => i = j

(* The tokens of P are shared out among five places.                       *)
Partition(P, A, B, C, D, E) ==
  /\ P = A \cup B \cup C \cup D \cup E
  /\ A \cap (B \cup C \cup D \cup E) = {} /\ B \cap (C \cup D \cup E) = {}
  /\ C \cap (D \cup E) = {} /\ D \cap E = {}

(* Every token is in one place and there only once.                        *)
Shared ==
  /\ pc # "ended" =>
       /\ Partition(pending, TokensOf(inbox), TokensOf(frames), TokensOf(current),
                    SeqTokens(queue), TokensOf(verifying))
       /\ Sole(inbox) /\ Sole(frames) /\ SoleSeq(queue) /\ Sole(verifying)
  /\ pc = "ended" => pending = {}
  /\ \A t \in pending : fate[t] = "none"

(* The frames whose check has begun, or which need none.                   *)
Begun == {t \in Tokens : fate[t] # "none"} \cup TokensOf(verifying)

(* A check is started once for a frame.                                    *)
StartedOnce == verifySeq <= Cardinality(Begun)

(* The first half of the inductive invariant: where the frames are.        *)
FramesInv ==
  /\ EngineTypes /\ NodeTypes /\ ServerTypes /\ HandlerOK /\ MetaInStep /\ Shared
  /\ StartedOnce

(* What the node has to do at an instant has a wake that comes in time.    *)
Covered(at) == at >= now /\ (at <= Horizon => \E t \in nodeWake : t <= at)

(* The pending wake is in the heap, and early enough between two handlers; *)
(* a handler leaves nothing to do at its own instant.                      *)
WakesOK ==
  /\ nodeWake \subseteq wakes /\ \A t \in wakes : t >= now
  /\ pc = "idle" => /\ \A v \in verifying : Covered(v.finish)
                    /\ \A f \in inbox : Covered(f.at)
  /\ pc \notin {"idle", "ended"} => \A f \in inbox : f.at > now
  /\ pc \in {"generate", "schedule"} => \A v \in verifying : v.finish > now

Before(a, t, b, u) == a < b \/ (a = b /\ t < u)

(* The members of A arrived before those of B, and before the frames of F. *)
Ahead(A, B) == \A x \in A, y \in B : Before(x.arrived, x.token, y.arrived, y.token)
AheadFrames(A, F) == \A x \in A, f \in F : Before(x.arrived, x.token, f.at, f.token)

Entries(s) == {s[i] : i \in 1..Len(s)}
InOrder(s) == \A i, j \in 1..Len(s) : i < j =>
                Before(s[i].arrived, s[i].token, s[j].arrived, s[j].token)
ParsedInOrder(s) == \A i, j \in 1..Len(s) : i < j => s[i].parsed <= s[j].parsed

(* Frames reach the node's hands instant by instant: between two handlers  *)
(* all that it holds arrived before now, unless its turn of this instant   *)
(* is over.                                                                *)
Past == IF pc = "idle" /\ stage # NodeTask THEN now - 1 ELSE now
ArrivedBy(A, n) == \A x \in A : x.arrived <= n
HeldOK ==
  /\ ArrivedBy(Entries(handed), Past)
  /\ ArrivedBy(verifying, Past)
  /\ ArrivedBy(Entries(verifyMeta), Past)
  /\ \A f \in current : f.arrived = now
  /\ \A f \in frames : f.at = now

(* A node's turn comes last in an instant, and takes all that has arrived. *)
TurnOK ==
  /\ pc \notin {"idle", "ended"} => stage = NodeTask
  /\ pc = "idle" /\ stage = NodeTask => \A f \in inbox : f.at > now

(* From the messages handed over back to the frames just taken, the places *)
(* a frame passes through are in arrival order.                            *)
Line(H, V, M, C, F) ==
  /\ Ahead(H, V) /\ Ahead(H, M) /\ Ahead(H, C) /\ AheadFrames(H, F)
  /\ Ahead(V, M) /\ Ahead(V, C) /\ AheadFrames(V, F)
  /\ Ahead(M, C) /\ AheadFrames(M, F) /\ AheadFrames(C, F)
LineOK == Line(Entries(handed), verifying, Entries(verifyMeta), current, frames)

(* The frames waiting for their check were parsed in their order, none     *)
(* later than a frame that arrived with it would be parsed from now on.    *)
LatestParse(a) == IF profile.parse = NoCost THEN a
                  ELSE Larger(a, EarliestFree("cpu")) + profile.parse
ParseOK ==
  /\ InOrder(verifyMeta) /\ ParsedInOrder(verifyMeta)
  /\ \A m \in Entries(verifyMeta), f \in current : m.parsed <= f.parsed
  /\ \A m \in Entries(verifyMeta) \cup current : m.parsed <= LatestParse(m.arrived)

(* The checks started in arrival order, and the next one starts no earlier *)
(* than any of them: its server or its parse comes later.                  *)
ChecksOK ==
  /\ \A v \in verifying : v.seq < verifySeq /\ v.finish = v.start + profile.verify
  /\ \A v, w \in verifying :
       /\ v.seq < w.seq => Ahead({v}, {w}) /\ v.start <= w.start
       /\ v.seq = w.seq => v = w
  /\ \A v \in verifying :
       \/ v.start <= EarliestFree(profile.verifyOn)
       \/ /\ v.start <= LatestParse(v.arrived)
          /\ \A m \in Entries(verifyMeta) \cup current : v.start <= m.parsed

(* The second half of the inductive invariant: the order of the frames.    *)
OrderInv == HeldOK /\ TurnOK /\ LineOK /\ ParseOK /\ ChecksOK /\ InOrder(handed)

(***************************************************************************)
(* Least elements: the server that frees up first, the earliest instant.   *)
(***************************************************************************)

LEMMA LeastNatural ==
  ASSUME NEW S \in SUBSET Nat, S # {}
  PROVE  \E m \in S : \A x \in S : m <= x
  <1> DEFINE R == OpToRel(<, Nat)
  <1>1. IsWellFoundedOn(R, Nat)
    BY NatLessThanWellFounded
  <1>2. \A x, y \in Nat : x < y => <<x, y>> \in R
    BY DEF OpToRel
  <1> HIDE DEF R
  <1>3. PICK m \in S : \A y \in S : <<y, m>> \notin R
    BY <1>1, WFMin
  <1>4. \A y \in S : ~(y < m)
    BY <1>2, <1>3
  <1> QED BY <1>4

LEMMA ProfileFacts ==
  ASSUME profile \in Profiles
  PROVE  /\ profile.policy \in {"verify-all", "on-demand", "prioritized"}
         /\ profile.rxCapacity \in Nat /\ profile.capacity \in Nat
         /\ profile.parse \in Nat /\ profile.verify \in Nat /\ profile.sign \in Nat
         /\ profile.verifyOn \in Banks /\ profile.signOn \in Banks /\ "cpu" \in Banks
         /\ \A b \in Banks : profile.servers[b] \in Nat \ {0}
  BY NodeReceiveAssumption DEF ProfileType

LEMMA FirstFreeFacts ==
  ASSUME profile \in Profiles, ServerTypes, NEW b \in Banks
  PROVE  /\ FirstFree(b) \in 1..profile.servers[b]
         /\ EarliestFree(b) \in Nat
         /\ \A o \in 1..profile.servers[b] : EarliestFree(b) <= freeAt[b][o]
  <1> DEFINE n == profile.servers[b]
             at(s) == freeAt[b][s]
             First(s) == \A o \in DOMAIN freeAt[b] : at(s) < at(o) \/ (at(s) = at(o) /\ s <= o)
  <1>1. n \in Nat \ {0} /\ DOMAIN freeAt[b] = 1..n /\ \A s \in 1..n : at(s) \in Nat
    BY ProfileFacts DEF ServerTypes, Times
  <1> HIDE DEF n, at
  <1>2. PICK m \in {at(s) : s \in 1..n} : \A x \in {at(s) : s \in 1..n} : m <= x
    <2>1. {at(s) : s \in 1..n} \in SUBSET Nat /\ {at(s) : s \in 1..n} # {}
      BY <1>1
    <2> QED BY <2>1, LeastNatural
  <1>3. PICK s \in {j \in 1..n : at(j) = m} : \A x \in {j \in 1..n : at(j) = m} : s <= x
    <2>1. {j \in 1..n : at(j) = m} \in SUBSET Nat /\ {j \in 1..n : at(j) = m} # {}
      BY <1>2
    <2> QED BY <2>1, LeastNatural
  <1>4. s \in 1..n /\ \A o \in 1..n : at(s) <= at(o) /\ (at(o) = at(s) => s <= o)
    BY <1>2, <1>3
  <1>5. First(s)
    BY <1>1, <1>4
  <1>6. \E t \in DOMAIN freeAt[b] : First(t)
    BY <1>1, <1>4, <1>5
  <1>7. FirstFree(b) = CHOOSE t \in DOMAIN freeAt[b] : First(t)
    BY DEF FirstFree, at
  <1> HIDE DEF First
  <1>8. FirstFree(b) \in DOMAIN freeAt[b] /\ First(FirstFree(b))
    BY <1>6, <1>7
  <1>9. EarliestFree(b) = at(FirstFree(b))
    BY DEF EarliestFree, at
  <1>10. \A o \in 1..n : at(FirstFree(b)) <= at(o)
    BY <1>1, <1>8 DEF First
  <1> QED BY <1>1, <1>8, <1>9, <1>10 DEF n, at

(* The servers with more work than they have now.                          *)
Busier(fr) ==
  /\ DOMAIN fr = Banks
  /\ \A b \in Banks : /\ fr[b] \in [1..profile.servers[b] -> Times]
                      /\ \A s \in 1..profile.servers[b] : freeAt[b][s] <= fr[b][s]

LEMMA StartFacts ==
  ASSUME profile \in Profiles, ServerTypes, NEW b \in Banks, NEW arrival \in Nat
  PROVE  /\ StartOf(b, arrival) \in Nat /\ StartOf(b, arrival) \in {arrival, EarliestFree(b)}
         /\ arrival <= StartOf(b, arrival) /\ EarliestFree(b) <= StartOf(b, arrival)
         /\ EarliestFree(b) \in Nat
  BY FirstFreeFacts DEF StartOf, Larger

LEMMA ChargedFacts ==
  ASSUME profile \in Profiles, ServerTypes, NEW b \in Banks, NEW arrival \in Nat, NEW cost \in Nat
  PROVE  Busier(Charged(b, arrival, cost))
  <1> DEFINE s == FirstFree(b)
             x == StartOf(b, arrival) + cost
             fr == [freeAt EXCEPT ![b][s] = x]
  <1>1. s \in 1..profile.servers[b] /\ x \in Nat /\ freeAt[b][s] <= x
    BY FirstFreeFacts, StartFacts DEF EarliestFree
  <1>2. Charged(b, arrival, cost) = fr
    BY DEF Charged
  <1> HIDE DEF s, x
  <1>3. /\ DOMAIN fr = Banks /\ fr[b] = [freeAt[b] EXCEPT ![s] = x]
        /\ \A c \in Banks \ {b} : fr[c] = freeAt[c]
    BY DEF ServerTypes
  <1> HIDE DEF fr
  <1>4. \A c \in Banks : /\ freeAt[c] \in [1..profile.servers[c] -> Nat]
                         /\ \A o \in 1..profile.servers[c] : freeAt[c][o] \in Nat
    BY DEF ServerTypes, Times
  <1>5. /\ fr[b] \in [1..profile.servers[b] -> Nat]
        /\ \A o \in 1..profile.servers[b] : freeAt[b][o] <= fr[b][o]
    BY <1>1, <1>3, <1>4
  <1>6. \A c \in Banks \ {b} : \A o \in 1..profile.servers[c] : freeAt[c][o] <= fr[c][o]
    BY <1>3, <1>4
  <1>7. \A c \in Banks : fr[c] \in [1..profile.servers[c] -> Nat]
    BY <1>3, <1>4, <1>5
  <1> QED BY <1>2, <1>3, <1>5, <1>6, <1>7 DEF Busier, Times

FreeOK ==
  profile \in Profiles /\ ServerTypes =>
    \A b \in Banks : /\ FirstFree(b) \in 1..profile.servers[b]
                     /\ EarliestFree(b) = freeAt[b][FirstFree(b)] /\ EarliestFree(b) \in Nat
LEMMA FreeNow == FreeOK
  BY FirstFreeFacts DEF FreeOK, EarliestFree
LEMMA FreeThen == FreeOK'
  BY FreeNow, PTL

(* A bank that is busier frees up no earlier.                              *)
LEMMA BusierFacts ==
  ASSUME profile \in Profiles, ServerTypes, profile' = profile, Busier(freeAt')
  PROVE  /\ ServerTypes'
         /\ \A b \in Banks : EarliestFree(b) <= EarliestFree(b)'
  <1>1. ServerTypes'
    BY DEF Busier, ServerTypes
  <1>2. ASSUME NEW b \in Banks PROVE EarliestFree(b) <= EarliestFree(b)'
    <2>1. /\ FirstFree(b)' \in 1..profile.servers[b]
          /\ EarliestFree(b)' = freeAt'[b][FirstFree(b)'] /\ EarliestFree(b)' \in Nat
      BY <1>1, FreeThen DEF FreeOK
    <2> DEFINE o == FirstFree(b)'
    <2>2. freeAt[b][o] <= freeAt'[b][o]
      BY <2>1 DEF Busier
    <2>3. EarliestFree(b) <= freeAt[b][o] /\ EarliestFree(b) \in Nat
      BY <2>1, FirstFreeFacts
    <2>4. freeAt[b][o] \in Nat
      BY <2>1 DEF ServerTypes, Times
    <2> HIDE DEF o
    <2>5. EarliestFree(b)' = freeAt'[b][o]
      BY <2>1 DEF o
    <2> QED BY <2>1, <2>2, <2>3, <2>4, <2>5
  <1> QED BY <1>1, <1>2

(***************************************************************************)
(* The pending wake.                                                       *)
(***************************************************************************)
WakePair(heap, wake) ==
  /\ heap \subseteq Instants /\ wake \subseteq heap
  /\ \A t, u \in wake : t = u
  /\ \A t \in heap : t >= now

(* The wake w now comes no later than `wake` did, and in time for at.      *)
Sooner(wake, w) == \A t \in wake : \E u \in w : u <= t
InTime(w, at) == at <= Horizon => \E t \in w : t <= at

LEMMA WakeWantedFacts ==
  ASSUME NEW heap, NEW wake, WakePair(heap, wake), NEW at \in Nat, at >= now
  PROVE  /\ WakePair(WakeWanted(heap, wake, at).heap, WakeWanted(heap, wake, at).wake)
         /\ Sooner(wake, WakeWanted(heap, wake, at).wake)
         /\ InTime(WakeWanted(heap, wake, at).wake, at)
  <1>1. Horizon \in Nat
    BY NodeReceiveAssumption
  <1>2. heap \subseteq Nat /\ wake \subseteq Nat
    BY <1>1 DEF WakePair, Instants
  <1>3. CASE at > Horizon \/ \E t \in wake : t <= at
    <2>1. WakeWanted(heap, wake, at) = [heap |-> heap, wake |-> wake]
      BY <1>3 DEF WakeWanted
    <2> QED BY <1>1, <1>2, <1>3, <2>1 DEF Sooner, InTime
  <1>4. CASE ~(at > Horizon \/ \E t \in wake : t <= at)
    <2>1. WakeWanted(heap, wake, at) = [heap |-> heap \cup {at}, wake |-> {at}]
      BY <1>4 DEF WakeWanted
    <2>2. at \in Instants /\ \A t \in wake : at <= t
      BY <1>1, <1>2, <1>4 DEF Instants
    <2>3. WakePair(heap \cup {at}, {at})
      BY <2>2 DEF WakePair
    <2> QED BY <2>1, <2>2, <2>3 DEF Sooner, InTime
  <1> QED BY <1>3, <1>4

(* RequestFor asks for the earliest instant of S.                          *)
LEMMA RequestFacts ==
  ASSUME NEW w, WakePair(w.heap, w.wake), NEW S \in SUBSET Nat, \A t \in S : t >= now
  PROVE  /\ WakePair(RequestFor(w, S).heap, RequestFor(w, S).wake)
         /\ Sooner(w.wake, RequestFor(w, S).wake)
         /\ \A at \in S : InTime(RequestFor(w, S).wake, at)
  <1>0. Horizon \in Nat /\ w.wake \subseteq Nat
    BY NodeReceiveAssumption DEF WakePair, Instants
  <1>1. CASE S = {}
    <2>1. RequestFor(w, S) = w
      BY <1>1 DEF RequestFor
    <2> QED BY <1>0, <1>1, <2>1 DEF Sooner
  <1>2. CASE S # {}
    <2> DEFINE e == CHOOSE t \in EarliestOf(S) : TRUE
    <2>1. \E t \in EarliestOf(S) : TRUE
      BY <1>2, LeastNatural DEF EarliestOf
    <2>2. e \in EarliestOf(S)
      BY <2>1
    <2>3. RequestFor(w, S) = WakeWanted(w.heap, w.wake, e)
      BY <1>2 DEF RequestFor
    <2> HIDE DEF e
    <2>4. e \in S /\ \A at \in S : e <= at
      BY <2>2 DEF EarliestOf
    <2> DEFINE v == WakeWanted(w.heap, w.wake, e)
    <2>5. WakePair(v.heap, v.wake) /\ Sooner(w.wake, v.wake) /\ InTime(v.wake, e)
      BY <2>4, WakeWantedFacts
    <2> HIDE DEF v
    <2>6. v.wake \subseteq Nat
      BY <1>0, <2>5 DEF WakePair, Instants
    <2>7. \A at \in S : InTime(v.wake, at)
      BY <1>0, <2>4, <2>5, <2>6 DEF InTime
    <2> QED BY <2>3, <2>5, <2>7 DEF v
  <1> QED BY <1>1, <1>2

(***************************************************************************)
(* Fates and tokens.                                                       *)
(***************************************************************************)

(* The attempts of `tokens` that were pending have their fate.             *)
Settled(tokens) ==
  /\ pending' = pending \ tokens /\ pending' \subseteq Tokens
  /\ fate' \in [Tokens -> Fates]
  /\ \A t \in pending' : fate'[t] = "none"
  /\ \A t \in Tokens : fate[t] # "none" \/ t \in tokens \cap pending => fate'[t] # "none"

LEMMA SettleFacts ==
  ASSUME pending \subseteq Tokens, fate \in [Tokens -> Fates], \A t \in pending : fate[t] = "none",
         NEW tokens, NEW what \in Fates \ {"none"}, Settle(tokens, what)
  PROVE  Settled(tokens)
  BY DEF Settle, Settled

LEMMA TokensMinus ==
  ASSUME NEW S, Sole(S), NEW f \in S
  PROVE  TokensOf(S \ {f}) = TokensOf(S) \ {f.token} /\ Sole(S \ {f})
  BY DEF TokensOf, Sole

LEMMA TokensPlus ==
  ASSUME NEW S, Sole(S), NEW f, f.token \notin TokensOf(S)
  PROVE  TokensOf(S \cup {f}) = TokensOf(S) \cup {f.token} /\ Sole(S \cup {f})
  BY DEF TokensOf, Sole

LEMMA TokensSplit ==
  ASSUME NEW S, Sole(S), NEW R \in SUBSET S
  PROVE  /\ TokensOf(S \ R) = TokensOf(S) \ TokensOf(R) /\ TokensOf(R) \subseteq TokensOf(S)
         /\ Sole(R) /\ Sole(S \ R)
  BY DEF TokensOf, Sole

LEMMA TokensTail ==
  ASSUME NEW T, NEW s \in Seq(T), s # <<>>, SoleSeq(s)
  PROVE  /\ SeqTokens(Tail(s)) = SeqTokens(s) \ {Head(s).token} /\ SoleSeq(Tail(s))
         /\ Head(s).token \in SeqTokens(s)
  <1>1. /\ Len(s) \in Nat \ {0} /\ Head(s) = s[1] /\ Len(Tail(s)) = Len(s) - 1
        /\ \A i \in 1..Len(Tail(s)) : Tail(s)[i] = s[i + 1]
    BY EmptySeq, HeadTailProperties
  <1>2. \A i \in 1..Len(Tail(s)) : i + 1 \in 1..Len(s) /\ i + 1 # 1
    BY <1>1
  <1>3. SoleSeq(Tail(s))
    <2> SUFFICES ASSUME NEW i \in 1..Len(Tail(s)), NEW j \in 1..Len(Tail(s)),
                        Tail(s)[i].token = Tail(s)[j].token
                 PROVE  i = j
      BY DEF SoleSeq
    <2>1. i + 1 = j + 1
      BY <1>1, <1>2 DEF SoleSeq
    <2> QED BY <1>1, <2>1
  <1>4. SeqTokens(Tail(s)) \subseteq SeqTokens(s) \ {Head(s).token}
    BY <1>1, <1>2 DEF SeqTokens, SoleSeq
  <1>5. ASSUME NEW t \in SeqTokens(s) \ {Head(s).token} PROVE t \in SeqTokens(Tail(s))
    <2>1. PICK i \in 1..Len(s) : t = s[i].token
      BY <1>5 DEF SeqTokens
    <2>2. i # 1 /\ i - 1 \in 1..Len(Tail(s)) /\ (i - 1) + 1 = i
      BY <1>1, <1>5, <2>1
    <2>3. Tail(s)[i - 1].token = t
      BY <1>1, <2>1, <2>2
    <2> QED BY <2>2, <2>3 DEF SeqTokens
  <1>6. Head(s).token \in SeqTokens(s)
    BY <1>1 DEF SeqTokens
  <1> QED BY <1>3, <1>4, <1>5, <1>6

LEMMA TokensAppend ==
  ASSUME NEW T, NEW s \in Seq(T), NEW e \in T, SoleSeq(s), e.token \notin SeqTokens(s)
  PROVE  SeqTokens(Append(s, e)) = SeqTokens(s) \cup {e.token} /\ SoleSeq(Append(s, e))
  <1>1. /\ Len(s) \in Nat /\ Len(Append(s, e)) = Len(s) + 1
        /\ \A i \in 1..Len(s) : Append(s, e)[i] = s[i]
        /\ Append(s, e)[Len(s) + 1] = e
    BY LenProperties, AppendProperties
  <1>2. 1..Len(s) + 1 = 1..Len(s) \cup {Len(s) + 1} /\ Len(s) + 1 \notin 1..Len(s)
    BY <1>1
  <1>3. \A i \in 1..Len(s) : s[i].token # e.token
    BY DEF SeqTokens
  <1> QED BY <1>1, <1>2, <1>3 DEF SeqTokens, SoleSeq

(***************************************************************************)
(* Initially, and through each action, every frame is in its place.        *)
(***************************************************************************)

LEMMA InitFrames == Init => FramesInv
  <1> SUFFICES ASSUME Init PROVE FramesInv
    OBVIOUS
  <1>1. profile \in Profiles /\ \A b \in Banks : profile.servers[b] \in Nat \ {0}
    BY ProfileFacts DEF Init
  <1>2. EngineTypes
    BY NodeReceiveAssumption DEF Init, EngineTypes, Instants, Control, NodeTask
  <1>3. NodeTypes
    <2>1. Len(<<>>) = 0 /\ <<>> \in Seq(Times) /\ <<>> \in Seq(QueueType)
          /\ <<>> \in Seq(MetaType) /\ <<>> \in Seq(HandedType)
      BY EmptySeq
    <2>2. profile.rxCapacity >= 0 /\ profile.capacity >= 0
      BY <1>1, ProfileFacts
    <2>3. fate \in [Tokens -> Fates] /\ until \in Times /\ verifySeq \in Nat
      BY DEF Init, Fates, Times
    <2> QED BY <2>1, <2>2, <2>3 DEF Init, NodeTypes
  <1>4. ServerTypes
    BY <1>1 DEF Init, ServerTypes, Times
  <1>5. HandlerOK /\ MetaInStep
    BY DEF Init, HandlerOK, MetaInStep
  <1>6. Shared
    BY DEF Init, Shared, Partition, TokensOf, SeqTokens, Sole, SoleSeq
  <1>7. StartedOnce
    <2>1. Begun = {}
      BY DEF Init, Begun, TokensOf
    <2> QED BY <2>1, FS_EmptySet DEF Init, StartedOnce
  <1> QED BY <1>2, <1>3, <1>4, <1>5, <1>6, <1>7 DEF FramesInv

(* The frames stay where they are.                                         *)
FramesSame ==
  /\ pending' = pending /\ inbox' = inbox /\ frames' = frames /\ current' = current
  /\ queue' = queue /\ verifyMeta' = verifyMeta /\ verifying' = verifying
  /\ verifySeq' = verifySeq /\ fate' = fate /\ profile' = profile

LEMMA SameFrames ==
  ASSUME FramesInv, FramesSame, pc' = "ended" <=> pc = "ended"
  PROVE  MetaInStep' /\ Shared' /\ StartedOnce'
  <1>1. MetaInStep'
    BY DEF FramesInv, MetaInStep, FramesSame
  <1>2. Shared'
    BY DEF FramesInv, Shared, FramesSame, TokensOf, SeqTokens, Sole, SoleSeq
  <1>3. Begun' = Begun
    BY DEF Begun, FramesSame, TokensOf
  <1> QED BY <1>1, <1>2, <1>3 DEF FramesInv, StartedOnce, FramesSame

LEMMA TokensFinite == IsFiniteSet(Tokens) /\ Cardinality(Tokens) = MaxFrames
  <1>1. MaxFrames \in Nat
    BY NodeReceiveAssumption
  <1>2. IsFiniteSet(1..MaxFrames) /\ Cardinality(1..MaxFrames) = IF 1 > MaxFrames THEN 0 ELSE MaxFrames - 1 + 1
    BY <1>1, FS_Interval
  <1> QED BY <1>1, <1>2 DEF Tokens

LEMMA BegunFinite ==
  ASSUME FramesInv
  PROVE  IsFiniteSet(Begun) /\ Cardinality(Begun) \in Nat /\ Begun \subseteq Tokens
  <1>1. Begun \in SUBSET Tokens
    BY DEF FramesInv, NodeTypes, Begun, TokensOf, CheckType
  <1> QED BY <1>1, TokensFinite, FS_Subset, FS_CardinalityType

(* No check starts, and none is forgotten.                                 *)
LEMMA BegunGrows ==
  ASSUME FramesInv, verifySeq' = verifySeq, Begun \subseteq Begun', Begun' \subseteq Tokens
  PROVE  StartedOnce'
  <1>1. IsFiniteSet(Begun') /\ Cardinality(Begun') \in Nat
    BY TokensFinite, FS_Subset, FS_CardinalityType
  <1>2. Cardinality(Begun) <= Cardinality(Begun')
    BY <1>1, FS_Subset
  <1> QED BY <1>1, <1>2, BegunFinite DEF FramesInv, NodeTypes, StartedOnce

(* An event between two handlers that leaves the frames alone.             *)
LEMMA OutageFrames ==
  ASSUME FramesInv, Outage
  PROVE  FramesInv'
  <1>1. FramesSame /\ pc' = pc /\ pc = "idle"
    BY DEF Outage, Dispatch, FramesSame, serverVars
  <1>2. EngineTypes'
    BY NodeReceiveAssumption DEF FramesInv, EngineTypes, Outage, Dispatch, Control, NodeTask, Instants
  <1>3. NodeTypes' /\ ServerTypes'
    BY DEF FramesInv, NodeTypes, ServerTypes, Outage, Dispatch, serverVars
  <1>4. HandlerOK'
    BY <1>1 DEF FramesInv, HandlerOK, Outage, Dispatch, serverVars
  <1>5. MetaInStep' /\ Shared' /\ StartedOnce'
    BY <1>1, SameFrames
  <1> QED BY <1>2, <1>3, <1>4, <1>5 DEF FramesInv

LEMMA TickFrames ==
  ASSUME FramesInv, Tick
  PROVE  FramesInv'
  <1>1. FramesSame /\ pc' = pc /\ pc = "idle"
    BY DEF Tick, FramesSame, serverVars
  <1>2. EngineTypes'
    BY NodeReceiveAssumption DEF FramesInv, EngineTypes, Tick, Control, NodeTask, Instants
  <1>3. NodeTypes' /\ ServerTypes'
    BY DEF FramesInv, NodeTypes, ServerTypes, Tick, serverVars
  <1>4. HandlerOK'
    BY <1>1 DEF FramesInv, HandlerOK, Tick, serverVars
  <1>5. MetaInStep' /\ Shared' /\ StartedOnce'
    BY <1>1, SameFrames
  <1> QED BY <1>2, <1>3, <1>4, <1>5 DEF FramesInv

(* The steps of a handler that move no frame.                              *)
LEMMA NoMoreFramesFrames ==
  ASSUME FramesInv, NoMoreFrames
  PROVE  FramesInv'
  <1>1. FramesSame /\ pc' # "ended" /\ pc # "ended"
    BY DEF NoMoreFrames, FramesSame, serverVars, engineVars
  <1>2. EngineTypes'
    BY DEF FramesInv, EngineTypes, NoMoreFrames, engineVars
  <1>3. NodeTypes' /\ ServerTypes'
    BY NodeReceiveAssumption
    DEF FramesInv, NodeTypes, ServerTypes, NoMoreFrames, serverVars, engineVars, EngineTypes, Instants, Times
  <1>4. HandlerOK'
    BY DEF FramesInv, HandlerOK, NoMoreFrames, serverVars, engineVars
  <1>5. MetaInStep' /\ Shared' /\ StartedOnce'
    BY <1>1, SameFrames
  <1> QED BY <1>2, <1>3, <1>4, <1>5 DEF FramesInv

LEMMA NoneCanStartFrames ==
  ASSUME FramesInv, NoneCanStart
  PROVE  FramesInv'
  <1>1. FramesSame /\ pc' # "ended" /\ pc # "ended"
    BY DEF NoneCanStart, FramesSame, serverVars, engineVars
  <1>2. EngineTypes'
    BY DEF FramesInv, EngineTypes, NoneCanStart, engineVars
  <1>3. NodeTypes' /\ ServerTypes'
    BY DEF FramesInv, NodeTypes, ServerTypes, NoneCanStart, serverVars
  <1>4. HandlerOK'
    BY DEF FramesInv, HandlerOK, NoneCanStart, serverVars, engineVars
  <1>5. MetaInStep' /\ Shared' /\ StartedOnce'
    BY <1>1, SameFrames
  <1> QED BY <1>2, <1>3, <1>4, <1>5 DEF FramesInv

LEMMA NoneFinishedFrames ==
  ASSUME FramesInv, NoneFinished
  PROVE  FramesInv'
  <1>1. FramesSame /\ pc' # "ended" /\ pc # "ended"
    BY DEF NoneFinished, FramesSame, serverVars, engineVars
  <1>2. EngineTypes'
    BY DEF FramesInv, EngineTypes, NoneFinished, engineVars
  <1>3. NodeTypes' /\ ServerTypes'
    BY DEF FramesInv, NodeTypes, ServerTypes, NoneFinished, serverVars
  <1>4. HandlerOK'
    BY DEF FramesInv, HandlerOK, NoneFinished, serverVars, engineVars
  <1>5. MetaInStep' /\ Shared' /\ StartedOnce'
    BY <1>1, SameFrames
  <1> QED BY <1>2, <1>3, <1>4, <1>5 DEF FramesInv

LEMMA GenerateFrames ==
  ASSUME FramesInv, Generate
  PROVE  FramesInv'
  <1>1. FramesSame /\ pc' # "ended" /\ pc # "ended"
    BY DEF Generate, FramesSame, engineVars
  <1>2. EngineTypes' /\ profile' = profile /\ profile \in Profiles /\ now \in Nat
    BY NodeReceiveAssumption DEF FramesInv, EngineTypes, Generate, engineVars, Instants
  <1>3. NodeTypes'
    BY DEF FramesInv, NodeTypes, Generate
  <1>4. ServerTypes'
    <2>1. CASE freeAt' = freeAt
      BY <1>2, <2>1 DEF FramesInv, ServerTypes
    <2>2. CASE freeAt' = Charged(profile.signOn, now, profile.sign)
      <3>1. Busier(freeAt')
        BY <1>2, <2>2, ProfileFacts, ChargedFacts DEF FramesInv
      <3> QED BY <1>2, <3>1, BusierFacts DEF FramesInv
    <2> QED BY <2>1, <2>2 DEF Generate
  <1>5. HandlerOK'
    BY DEF FramesInv, HandlerOK, Generate, engineVars
  <1>6. MetaInStep' /\ Shared' /\ StartedOnce'
    BY <1>1, SameFrames
  <1> QED BY <1>2, <1>3, <1>4, <1>5, <1>6 DEF FramesInv

(* The wake after a handler: for every check and every frame on its way.   *)
LEMMA ScheduleFacts ==
  ASSUME FramesInv, WakesOK, ScheduleWake
  PROVE  /\ WakePair(wakes', nodeWake')
         /\ \A v \in verifying : InTime(nodeWake', v.finish) /\ v.finish > now
         /\ \A f \in inbox : InTime(nodeWake', f.at) /\ f.at > now
  <1> DEFINE w0 == [heap |-> wakes, wake |-> nodeWake]
             w1 == RequestFor(w0, NextCompletion)
             w2 == RequestFor(w1, NextArrival)
  <1>0. now \in Nat /\ Horizon \in Nat
    BY NodeReceiveAssumption DEF FramesInv, EngineTypes, Instants
  <1>1. WakePair(w0.heap, w0.wake)
    BY DEF WakePair, FramesInv, EngineTypes, WakesOK
  <1>2. \A v \in verifying : v.finish \in Nat /\ v.finish > now
    BY DEF FramesInv, NodeTypes, CheckType, Times, WakesOK, ScheduleWake
  <1>3. \A f \in inbox : f.at \in Nat /\ f.at > now
    BY DEF FramesInv, EngineTypes, FrameType, Times, WakesOK, ScheduleWake
  <1>4. NextCompletion = {v.finish : v \in verifying}
    BY <1>0, <1>2 DEF NextCompletion, Larger
  <1>5. NextCompletion \in SUBSET Nat /\ \A t \in NextCompletion : t >= now
    BY <1>0, <1>2, <1>4
  <1>6. NextArrival \in SUBSET Nat /\ \A t \in NextArrival : t >= now
    BY <1>0, <1>3 DEF NextArrival
  <1>7. wakes' = w2.heap /\ nodeWake' = w2.wake
    BY DEF ScheduleWake
  <1> HIDE DEF w0
  <1>8. WakePair(w1.heap, w1.wake) /\ \A at \in NextCompletion : InTime(w1.wake, at)
    BY <1>1, <1>5, RequestFacts
  <1> HIDE DEF w1
  <1>9. /\ WakePair(w2.heap, w2.wake) /\ Sooner(w1.wake, w2.wake)
        /\ \A at \in NextArrival : InTime(w2.wake, at)
    BY <1>6, <1>8, RequestFacts
  <1> HIDE DEF w2
  <1>10. w1.wake \subseteq Nat /\ w2.wake \subseteq Nat
    BY <1>0, <1>8, <1>9 DEF WakePair, Instants
  <1>11. \A at \in NextCompletion : InTime(w2.wake, at)
    BY <1>0, <1>5, <1>8, <1>9, <1>10 DEF InTime, Sooner
  <1> QED BY <1>2, <1>3, <1>4, <1>7, <1>9, <1>11 DEF NextArrival

LEMMA ScheduleWakeFrames ==
  ASSUME FramesInv, WakesOK, ScheduleWake
  PROVE  FramesInv'
  <1>1. FramesSame /\ pc' # "ended" /\ pc # "ended"
    BY DEF ScheduleWake, FramesSame, serverVars
  <1>2. EngineTypes'
    <2>1. wakes' \subseteq Instants /\ nodeWake' \subseteq Instants
          /\ \A t, u \in nodeWake' : t = u
      BY ScheduleFacts DEF WakePair
    <2> QED BY <2>1 DEF FramesInv, EngineTypes, ScheduleWake
  <1>3. NodeTypes' /\ ServerTypes'
    BY DEF FramesInv, NodeTypes, ServerTypes, ScheduleWake, serverVars
  <1>4. HandlerOK'
    BY DEF FramesInv, HandlerOK, ScheduleWake, serverVars
  <1>5. MetaInStep' /\ Shared' /\ StartedOnce'
    BY <1>1, SameFrames
  <1> QED BY <1>2, <1>3, <1>4, <1>5 DEF FramesInv

(* A frame enters the inbox, or finds no node.                             *)
LEMMA DecodeFrameFrames ==
  ASSUME FramesInv, WakesOK, NEW delay \in 0..MaxDelay, DecodeFrame(delay)
  PROVE  FramesInv' /\ (inbox' # inbox => WakePair(wakes', nodeWake'))
  <1>0. now \in Nat /\ Horizon \in Nat /\ delay \in Nat /\ now + delay \in Nat
        /\ now + delay >= now
    BY NodeReceiveAssumption DEF FramesInv, EngineTypes, Instants
  <1>1. /\ profile' = profile /\ now' = now /\ stepDue' = stepDue /\ node' = node /\ pc' = pc
        /\ isWake' = isWake /\ frames' = frames /\ current' = current /\ until' = until
        /\ parseStarts' = parseStarts /\ queue' = queue /\ verifyMeta' = verifyMeta
        /\ verifying' = verifying /\ verifySeq' = verifySeq /\ freeAt' = freeAt
        /\ handed' = handed /\ outages' = outages /\ onAt' = onAt
        /\ pc = "idle" /\ stage' = PhyEnd
    BY DEF DecodeFrame, Dispatch, serverVars
  <1>2. PICK t \in Tokens :
          /\ fate[t] = "none" /\ t \notin pending
          /\ \/ /\ node = "gone" /\ fate' = [fate EXCEPT ![t] = "node-off"]
                /\ pending' = pending /\ inbox' = inbox /\ wakes' = wakes /\ nodeWake' = nodeWake
             \/ /\ node # "gone" /\ pending' = pending \cup {t}
                /\ inbox' = inbox \cup {[token |-> t, at |-> now + delay]}
                /\ wakes' = WakeWanted(wakes, nodeWake, now + delay).heap
                /\ nodeWake' = WakeWanted(wakes, nodeWake, now + delay).wake
                /\ fate' = fate
    BY DEF DecodeFrame
  <1>3. fate \in [Tokens -> Fates] /\ \A u \in pending : fate[u] = "none"
    BY DEF FramesInv, NodeTypes, Shared
  <1>4. MetaInStep'
    BY <1>1 DEF FramesInv, MetaInStep
  <1>5. ServerTypes'
    BY <1>1 DEF FramesInv, ServerTypes
  <1>6. stage' \in Control..NodeTask
    BY <1>1 DEF Control, NodeTask, PhyEnd
  <1>7. CASE /\ node = "gone" /\ fate' = [fate EXCEPT ![t] = "node-off"]
             /\ pending' = pending /\ inbox' = inbox /\ wakes' = wakes /\ nodeWake' = nodeWake
    <2>1. /\ fate' \in [Tokens -> Fates] /\ fate'[t] = "node-off"
          /\ \A u \in Tokens \ {t} : fate'[u] = fate[u]
      BY <1>3, <1>7 DEF Fates
    <2>2. EngineTypes'
      BY <1>1, <1>6, <1>7 DEF FramesInv, EngineTypes
    <2>3. NodeTypes'
      BY <1>1, <2>1 DEF FramesInv, NodeTypes
    <2>4. HandlerOK'
      BY <1>1, <1>7 DEF FramesInv, HandlerOK
    <2>5. Shared'
      <3>1. \A u \in pending : fate'[u] = "none"
        BY <1>2, <1>3, <2>1 DEF FramesInv, EngineTypes
      <3> QED BY <1>1, <1>7, <3>1 DEF FramesInv, Shared, TokensOf, SeqTokens, Sole, SoleSeq
    <2>6. StartedOnce'
      <3>1. Begun \subseteq Begun' /\ Begun' \subseteq Tokens
        BY <1>1, <2>1, BegunFinite DEF Begun, TokensOf
      <3> QED BY <1>1, <3>1, BegunGrows
    <2> QED BY <1>4, <1>5, <1>7, <2>2, <2>3, <2>4, <2>5, <2>6 DEF FramesInv
  <1>8. CASE /\ node # "gone" /\ pending' = pending \cup {t}
             /\ inbox' = inbox \cup {[token |-> t, at |-> now + delay]}
             /\ wakes' = WakeWanted(wakes, nodeWake, now + delay).heap
             /\ nodeWake' = WakeWanted(wakes, nodeWake, now + delay).wake
             /\ fate' = fate
    <2> DEFINE f == [token |-> t, at |-> now + delay]
    <2>1. WakePair(wakes, nodeWake)
      BY DEF WakePair, FramesInv, EngineTypes, WakesOK
    <2>2. WakePair(wakes', nodeWake')
      BY <1>0, <1>8, <2>1, WakeWantedFacts
    <2>3. f \in FrameType /\ f.token = t
      BY <1>0 DEF FrameType, Times
    <2>4. inbox' = inbox \cup {f}
      BY <1>8
    <2> HIDE DEF f
    <2>5. EngineTypes'
      BY <1>1, <1>6, <1>8, <2>2, <2>3, <2>4 DEF FramesInv, EngineTypes, WakePair
    <2>6. NodeTypes'
      BY <1>1, <1>8 DEF FramesInv, NodeTypes
    <2>7. HandlerOK'
      BY <1>1, <1>8 DEF FramesInv, HandlerOK
    <2>8. Shared'
      <3>1. /\ Partition(pending, TokensOf(inbox), TokensOf(frames), TokensOf(current),
                         SeqTokens(queue), TokensOf(verifying))
            /\ Sole(inbox) /\ Sole(frames) /\ SoleSeq(queue) /\ Sole(verifying)
        BY <1>1 DEF FramesInv, Shared
      <3>2. TokensOf(inbox') = TokensOf(inbox) \cup {t} /\ Sole(inbox')
        BY <1>2, <2>3, <2>4, <3>1, TokensPlus DEF Partition
      <3>3. Partition(pending \cup {t}, TokensOf(inbox) \cup {t}, TokensOf(frames),
                      TokensOf(current), SeqTokens(queue), TokensOf(verifying))
        BY <1>2, <3>1 DEF Partition
      <3>4. \A u \in pending' : fate'[u] = "none"
        BY <1>2, <1>3, <1>8
      <3> QED BY <1>1, <1>8, <3>1, <3>2, <3>3, <3>4, ZenonT(60)
                  DEF Shared, TokensOf, SeqTokens, Sole, SoleSeq
    <2>9. StartedOnce'
      <3>1. Begun' = Begun
        BY <1>1, <1>8 DEF Begun, TokensOf
      <3> QED BY <1>1, <3>1 DEF FramesInv, StartedOnce
    <2> QED BY <1>4, <1>5, <2>2, <2>5, <2>6, <2>7, <2>8, <2>9 DEF FramesInv
  <1> QED BY <1>2, <1>7, <1>8

LEMMA DespawnFrames ==
  ASSUME FramesInv, Despawn
  PROVE  FramesInv'
  <1>1. /\ profile' = profile /\ now' = now /\ stepDue' = stepDue /\ node' = "gone" /\ pc' = pc
        /\ isWake' = isWake /\ frames' = frames /\ current' = current /\ until' = until
        /\ parseStarts' = <<>> /\ queue' = <<>> /\ verifyMeta' = <<>> /\ verifying' = {}
        /\ verifySeq' = verifySeq /\ freeAt' = freeAt /\ handed' = handed
        /\ outages' = outages /\ onAt' = onAt /\ inbox' = {} /\ nodeWake' = {}
        /\ wakes' = wakes /\ pc = "idle" /\ stage' = MobilityStep
    BY DEF Despawn, Dispatch
  <1>2. Settled(pending)
    <2>1. Settle(pending, "node-off") /\ "node-off" \in Fates \ {"none"}
      BY DEF Despawn, Fates
    <2> QED BY <2>1, SettleFacts DEF FramesInv, EngineTypes, NodeTypes, Shared
  <1>3. pending' = {} /\ fate' \in [Tokens -> Fates]
    BY <1>2 DEF Settled
  <1>4. frames = {} /\ current = {}
    BY <1>1 DEF FramesInv, HandlerOK
  <1>5. EngineTypes'
    BY <1>1, <1>3 DEF FramesInv, EngineTypes, Control, MobilityStep, NodeTask
  <1>6. NodeTypes'
    <2>1. /\ Len(<<>>) = 0 /\ <<>> \in Seq(Times) /\ <<>> \in Seq(QueueType)
          /\ <<>> \in Seq(MetaType)
      BY EmptySeq
    <2>2. 0 <= profile.rxCapacity /\ 0 <= profile.capacity
      BY ProfileFacts DEF FramesInv, EngineTypes
    <2> QED BY <1>1, <1>3, <2>1, <2>2 DEF FramesInv, NodeTypes
  <1>7. ServerTypes'
    BY <1>1 DEF FramesInv, ServerTypes
  <1>8. HandlerOK' /\ MetaInStep'
    BY <1>1, <1>4 DEF FramesInv, HandlerOK, MetaInStep
  <1>9. Shared'
    BY <1>1, <1>3, <1>4 DEF Shared, Partition, TokensOf, SeqTokens, Sole, SoleSeq
  <1>10. StartedOnce'
    <2>1. TokensOf(verifying) \subseteq pending
      BY <1>1 DEF FramesInv, Shared, Partition
    <2>2. Begun \subseteq Begun' /\ Begun' \subseteq Tokens
      BY <1>1, <1>2, <2>1, BegunFinite DEF Begun, TokensOf, Settled
    <2> QED BY <1>1, <2>2, BegunGrows
  <1> QED BY <1>5, <1>6, <1>7, <1>8, <1>9, <1>10 DEF FramesInv

(* The handler takes the frames that have arrived.                         *)
LEMMA TakeInboxFrames ==
  ASSUME FramesInv, pc = "idle", node # "gone", NEW wake \in BOOLEAN, TakeInbox(wake),
         profile' = profile, now' = now, node' = node, current' = current,
         parseStarts' = parseStarts, queue' = queue, verifyMeta' = verifyMeta,
         verifySeq' = verifySeq, handed' = handed
  PROVE  /\ inbox' \subseteq FrameType /\ pending' \subseteq Tokens
         /\ NodeTypes' /\ HandlerOK' /\ MetaInStep' /\ Shared' /\ StartedOnce'
  <1> DEFINE R == {f \in inbox : f.at <= now}
  <1>1. /\ Partition(pending, TokensOf(inbox), TokensOf(frames), TokensOf(current),
                     SeqTokens(queue), TokensOf(verifying))
        /\ Sole(inbox) /\ Sole(frames) /\ SoleSeq(queue) /\ Sole(verifying)
        /\ frames = {} /\ current = {}
        /\ \A t \in pending : fate[t] = "none"
    BY DEF FramesInv, Shared, HandlerOK
  <1>2. /\ isWake' = wake /\ inbox' = inbox \ R /\ until' = now
        /\ \/ /\ node = "off" /\ SwitchedOff(R) /\ frames' = {} /\ pc' = "schedule"
           \/ /\ node = "active" /\ frames' = R /\ pc' = "frame"
              /\ pending' = pending /\ fate' = fate /\ verifying' = verifying
    BY DEF TakeInbox
  <1>3. R \in SUBSET inbox /\ now \in Times
    BY NodeReceiveAssumption DEF FramesInv, EngineTypes, Instants, Times
  <1> HIDE DEF R
  <1>4. /\ TokensOf(inbox') = TokensOf(inbox) \ TokensOf(R) /\ TokensOf(R) \subseteq TokensOf(inbox)
        /\ Sole(R) /\ Sole(inbox') /\ inbox' \subseteq FrameType /\ R \subseteq FrameType
    BY <1>1, <1>2, <1>3, TokensSplit DEF FramesInv, EngineTypes
  <1>5. MetaInStep'
    BY DEF FramesInv, MetaInStep
  <1>6. /\ TokensOf({}) = {} /\ Sole({}) /\ Begun \subseteq Tokens
        /\ pending \subseteq Tokens /\ fate \in [Tokens -> Fates]
    BY BegunFinite DEF TokensOf, Sole, FramesInv, EngineTypes, NodeTypes
  <1>7. CASE /\ node = "off" /\ SwitchedOff(R) /\ frames' = {} /\ pc' = "schedule"
    <2>1. verifying' = {}
      BY <1>7 DEF SwitchedOff
    <2>2. Settled(TokensOf(R \cup verifying))
      <3>1. Settle(TokensOf(R \cup verifying), "node-off") /\ "node-off" \in Fates \ {"none"}
        BY <1>7 DEF SwitchedOff, TokensOf, Fates
      <3> QED BY <1>1, <1>6, <3>1, SettleFacts
    <2>3. TokensOf(R \cup verifying) = TokensOf(R) \cup TokensOf(verifying)
      BY DEF TokensOf
    <2>4. NodeTypes'
      BY <1>2, <1>3, <1>7, <2>1, <2>2 DEF FramesInv, NodeTypes, Settled
    <2>5. HandlerOK'
      BY <1>1, <1>7 DEF FramesInv, HandlerOK
    <2>6. Shared'
      <3>1. Partition(pending', TokensOf(inbox'), {}, {}, SeqTokens(queue), {})
        BY <1>1, <1>4, <1>6, <2>2, <2>3 DEF Partition, Settled
      <3>2. TokensOf(frames') = {} /\ TokensOf(current') = {} /\ TokensOf(verifying') = {}
            /\ Sole(frames') /\ Sole(verifying') /\ SoleSeq(queue') /\ SeqTokens(queue') = SeqTokens(queue)
        BY <1>1, <1>6, <1>7, <2>1
      <3> QED BY <1>4, <1>7, <2>2, <3>1, <3>2 DEF Shared, Settled, TokensOf, SeqTokens, Sole, SoleSeq
    <2>7. StartedOnce'
      <3>1. TokensOf(verifying) \subseteq pending
        BY <1>1 DEF Partition
      <3>2. Begun \subseteq Begun' /\ Begun' \subseteq Tokens
        BY <1>6, <2>1, <2>2, <2>3, <3>1 DEF Begun, Settled, TokensOf
      <3> QED BY <3>2, BegunGrows
    <2> QED BY <1>4, <1>5, <2>2, <2>4, <2>5, <2>6, <2>7 DEF Settled
  <1>8. CASE /\ node = "active" /\ frames' = R /\ pc' = "frame"
             /\ pending' = pending /\ fate' = fate /\ verifying' = verifying
    <2>1. NodeTypes'
      BY <1>2, <1>3, <1>4, <1>8 DEF FramesInv, NodeTypes
    <2>2. HandlerOK'
      BY <1>1, <1>8 DEF FramesInv, HandlerOK
    <2>3. Shared'
      <3>1. Partition(pending, TokensOf(inbox'), TokensOf(R), {}, SeqTokens(queue), TokensOf(verifying))
        BY <1>1, <1>4, <1>6 DEF Partition
      <3>2. /\ TokensOf(frames') = TokensOf(R) /\ TokensOf(current') = {}
            /\ TokensOf(verifying') = TokensOf(verifying) /\ SeqTokens(queue') = SeqTokens(queue)
            /\ Sole(frames') /\ Sole(verifying') /\ SoleSeq(queue')
        BY <1>1, <1>4, <1>6, <1>8
      <3>3. \A t \in pending' : fate'[t] = "none"
        BY <1>1, <1>8
      <3> QED BY <1>4, <1>8, <3>1, <3>2, <3>3 DEF Shared, TokensOf, SeqTokens, Sole, SoleSeq
    <2>4. Begun' = Begun
      BY <1>8 DEF Begun, TokensOf
    <2> QED BY <1>4, <1>5, <1>6, <1>8, <2>1, <2>2, <2>3, <2>4 DEF FramesInv, StartedOnce
  <1> QED BY <1>2, <1>7, <1>8

LEMMA PeriodicStepFrames ==
  ASSUME FramesInv, PeriodicStep
  PROVE  FramesInv'
  <1>1. /\ profile' = profile /\ now' = now /\ stepDue' = FALSE /\ node' = node
        /\ wakes' = wakes /\ nodeWake' = nodeWake /\ current' = current
        /\ parseStarts' = parseStarts /\ queue' = queue /\ verifyMeta' = verifyMeta
        /\ verifySeq' = verifySeq /\ freeAt' = freeAt /\ handed' = handed
        /\ outages' = outages /\ onAt' = onAt /\ pc = "idle" /\ stage' = NodeTask
    BY DEF PeriodicStep, Dispatch
  <1>2. ServerTypes' /\ stage' \in Control..NodeTask
    BY <1>1 DEF FramesInv, ServerTypes, NodeTask, Control
  <1>3. CASE node # "gone" /\ TakeInbox(FALSE)
    <2>1. /\ inbox' \subseteq FrameType /\ pending' \subseteq Tokens
          /\ NodeTypes' /\ HandlerOK' /\ MetaInStep' /\ Shared' /\ StartedOnce'
      BY <1>1, <1>3, TakeInboxFrames
    <2>2. EngineTypes'
      BY <1>1, <1>2, <2>1 DEF FramesInv, EngineTypes
    <2> QED BY <1>2, <2>1, <2>2 DEF FramesInv
  <1>4. CASE /\ node = "gone"
             /\ UNCHANGED <<isWake, inbox, until, pending, fate, verifying, frames, pc>>
    <2>1. FramesSame /\ pc' = pc
      BY <1>1, <1>4 DEF FramesSame
    <2>2. EngineTypes' /\ NodeTypes' /\ HandlerOK'
      BY <1>1, <1>2, <1>4 DEF FramesInv, EngineTypes, NodeTypes, HandlerOK
    <2> QED BY <1>2, <2>1, <2>2, SameFrames DEF FramesInv
  <1> QED BY <1>3, <1>4 DEF PeriodicStep

LEMMA WakeFrames ==
  ASSUME FramesInv, Wake
  PROVE  FramesInv'
  <1>1. /\ profile' = profile /\ now' = now /\ stepDue' = stepDue /\ node' = node
        /\ wakes' = wakes \ {now} /\ nodeWake' = nodeWake \ {now} /\ current' = current
        /\ parseStarts' = parseStarts /\ queue' = queue /\ verifyMeta' = verifyMeta
        /\ verifySeq' = verifySeq /\ freeAt' = freeAt /\ handed' = handed
        /\ outages' = outages /\ onAt' = onAt /\ pc = "idle" /\ stage' = NodeTask
    BY DEF Wake, Dispatch
  <1>2. ServerTypes' /\ stage' \in Control..NodeTask
    BY <1>1 DEF FramesInv, ServerTypes, NodeTask, Control
  <1>3. CASE node # "gone" /\ TakeInbox(TRUE)
    <2>1. /\ inbox' \subseteq FrameType /\ pending' \subseteq Tokens
          /\ NodeTypes' /\ HandlerOK' /\ MetaInStep' /\ Shared' /\ StartedOnce'
      BY <1>1, <1>3, TakeInboxFrames
    <2>2. EngineTypes'
      BY <1>1, <1>2, <2>1 DEF FramesInv, EngineTypes
    <2> QED BY <1>2, <2>1, <2>2 DEF FramesInv
  <1>4. CASE /\ node = "gone"
             /\ UNCHANGED <<isWake, inbox, until, pending, fate, verifying, frames, pc>>
    <2>1. FramesSame /\ pc' = pc
      BY <1>1, <1>4 DEF FramesSame
    <2>2. EngineTypes' /\ NodeTypes' /\ HandlerOK'
      BY <1>1, <1>2, <1>4 DEF FramesInv, EngineTypes, NodeTypes, HandlerOK
    <2> QED BY <1>2, <2>1, <2>2, SameFrames DEF FramesInv
  <1> QED BY <1>3, <1>4 DEF Wake

(* What the Shared invariant says while a handler runs.                    *)
LEMMA SharedNow ==
  ASSUME FramesInv, pc # "ended"
  PROVE  /\ Partition(pending, TokensOf(inbox), TokensOf(frames), TokensOf(current),
                      SeqTokens(queue), TokensOf(verifying))
         /\ Sole(inbox) /\ Sole(frames) /\ SoleSeq(queue) /\ Sole(verifying)
         /\ pending \subseteq Tokens /\ fate \in [Tokens -> Fates]
         /\ \A t \in pending : fate[t] = "none"
  BY DEF FramesInv, Shared, EngineTypes, NodeTypes

LEMMA SharedThen ==
  ASSUME NEW A, NEW B, NEW C, NEW D, NEW E, Partition(pending', A, B, C, D, E),
         A = TokensOf(inbox'), B = TokensOf(frames'), C = TokensOf(current'),
         D = SeqTokens(queue'), E = TokensOf(verifying'),
         Sole(inbox'), Sole(frames'), SoleSeq(queue'), Sole(verifying'),
         \A t \in pending' : fate'[t] = "none", pc' # "ended"
  PROVE  Shared'
  BY DEF Shared, TokensOf, SeqTokens, Sole, SoleSeq, Partition

LEMMA WaitingFacts ==
  ASSUME FramesInv, NEW at, NEW w \in StillWaiting(at)
  PROVE  w \in Seq(Times) /\ Len(w) <= Len(parseStarts) /\ Len(w) \in Nat
  <1>1. PICK n \in 0..Len(parseStarts) : w = SubSeq(parseStarts, n + 1, Len(parseStarts))
    BY DEF StillWaiting
  <1>2. parseStarts \in Seq(Times) /\ Len(parseStarts) \in Nat
    BY LenProperties DEF FramesInv, NodeTypes
  <1>3. \A i \in n + 1..Len(parseStarts) : parseStarts[i] \in Times
    BY <1>2, ElementOfSeq
  <1> DEFINE m == n + 1
  <1>4. m \in Int /\ Len(parseStarts) \in Int /\ n \in Nat /\ m = n + 1
    BY <1>2
  <1> HIDE DEF m
  <1>5. /\ SubSeq(parseStarts, m, Len(parseStarts)) \in Seq(Times)
        /\ Len(SubSeq(parseStarts, m, Len(parseStarts)))
             = IF m <= Len(parseStarts) THEN Len(parseStarts) - m + 1 ELSE 0
    BY <1>3, <1>4, SubSeqProperties
  <1> QED BY <1>1, <1>2, <1>4, <1>5

(* The parse takes the next frame: it is current, or dropped.              *)
LEMMA ParseFrameFrames ==
  ASSUME FramesInv, ParseFrame
  PROVE  FramesInv'
  <1>1. /\ profile' = profile /\ now' = now /\ stage' = stage /\ stepDue' = stepDue
        /\ node' = node /\ inbox' = inbox /\ wakes' = wakes /\ nodeWake' = nodeWake
        /\ outages' = outages /\ onAt' = onAt /\ isWake' = isWake /\ queue' = queue
        /\ verifyMeta' = verifyMeta /\ verifying' = verifying /\ verifySeq' = verifySeq
        /\ handed' = handed /\ pc = "frame"
    BY DEF ParseFrame, engineVars
  <1>2. PICK f \in frames :
       /\ frames' = frames \ {f}
       /\ \/ /\ until' = f.at
             /\ current' = {[token |-> f.token, arrived |-> f.at, parsed |-> f.at]}
             /\ pc' = "advance"
             /\ UNCHANGED <<parseStarts, freeAt, pending, fate>>
          \/ /\ \E waiting \in StillWaiting(f.at) : parseStarts' = waiting
             /\ Settle({f.token}, "dropped")
             /\ UNCHANGED <<until, current, pc, freeAt>>
          \/ /\ \E waiting \in StillWaiting(f.at), start \in {StartOf("cpu", f.at)} :
                  /\ Len(waiting) < profile.rxCapacity
                  /\ parseStarts' = IF start > f.at THEN Append(waiting, start) ELSE waiting
                  /\ until' = start + profile.parse
                  /\ current' = {[token |-> f.token, arrived |-> f.at,
                                  parsed |-> start + profile.parse]}
             /\ freeAt' = Charged("cpu", f.at, profile.parse)
             /\ pc' = "advance"
             /\ UNCHANGED <<pending, fate>>
    BY DEF ParseFrame
  <1>3. f.token \in Tokens /\ f.at \in Nat
    BY DEF FramesInv, NodeTypes, FrameType, Times
  <1>4. /\ profile \in Profiles /\ profile.rxCapacity \in Nat /\ profile.parse \in Nat
        /\ "cpu" \in Banks /\ current = {} /\ ServerTypes
        /\ parseStarts \in Seq(Times) /\ Len(parseStarts) \in Nat
        /\ Len(parseStarts) <= profile.rxCapacity
    BY <1>1, ProfileFacts, LenProperties DEF FramesInv, EngineTypes, HandlerOK, NodeTypes
  <1>5. /\ TokensOf(frames') = TokensOf(frames) \ {f.token} /\ Sole(frames')
        /\ f.token \in TokensOf(frames) /\ frames' \subseteq FrameType
    BY <1>1, <1>2, SharedNow, TokensMinus DEF TokensOf, FramesInv, NodeTypes
  <1>6. MetaInStep'
    BY <1>1 DEF FramesInv, MetaInStep
  <1>7. pending' \subseteq Tokens => EngineTypes'
    BY <1>1 DEF FramesInv, EngineTypes
  <1>8. /\ Partition(pending, TokensOf(inbox), TokensOf(frames), {}, SeqTokens(queue), TokensOf(verifying))
        /\ Sole(inbox) /\ SoleSeq(queue) /\ Sole(verifying) /\ pending \subseteq Tokens
        /\ \A t \in pending : fate[t] = "none"
    BY <1>1, <1>4, SharedNow DEF TokensOf
  <1>9. ASSUME NEW p \in Nat, parseStarts' \in Seq(Times), Len(parseStarts') <= profile.rxCapacity,
               until' \in Nat, current' = {[token |-> f.token, arrived |-> f.at, parsed |-> p]},
               pc' = "advance", pending' = pending, fate' = fate, ServerTypes'
        PROVE  FramesInv'
    <2> DEFINE c == [token |-> f.token, arrived |-> f.at, parsed |-> p]
    <2>1. c \in MetaType /\ c.token = f.token
      BY <1>3, <1>9 DEF MetaType, Times
    <2>2. current' = {c}
      BY <1>9
    <2> HIDE DEF c
    <2>3. NodeTypes'
      BY <1>1, <1>5, <1>9, <2>1, <2>2 DEF FramesInv, NodeTypes, Times
    <2>4. HandlerOK'
      BY <1>1, <1>9, <2>2 DEF FramesInv, HandlerOK
    <2>5. TokensOf(current') = {f.token}
      BY <2>1, <2>2 DEF TokensOf
    <2>6. Partition(pending, TokensOf(inbox), TokensOf(frames'), {f.token}, SeqTokens(queue), TokensOf(verifying))
      BY <1>5, <1>8 DEF Partition
    <2>7. Shared'
      BY <1>1, <1>5, <1>8, <1>9, <2>5, <2>6, SharedThen
    <2>8. Begun' = Begun
      BY <1>1, <1>9 DEF Begun, TokensOf
    <2> QED BY <1>1, <1>6, <1>7, <1>8, <1>9, <2>3, <2>4, <2>7, <2>8 DEF FramesInv, StartedOnce
  <1>10. CASE /\ until' = f.at
              /\ current' = {[token |-> f.token, arrived |-> f.at, parsed |-> f.at]}
              /\ pc' = "advance"
              /\ UNCHANGED <<parseStarts, freeAt, pending, fate>>
    <2>1. ServerTypes'
      BY <1>1, <1>4, <1>10 DEF ServerTypes
    <2> QED BY <1>3, <1>4, <1>9, <1>10, <2>1
  <1>11. CASE /\ \E waiting \in StillWaiting(f.at), start \in {StartOf("cpu", f.at)} :
                   /\ Len(waiting) < profile.rxCapacity
                   /\ parseStarts' = IF start > f.at THEN Append(waiting, start) ELSE waiting
                   /\ until' = start + profile.parse
                   /\ current' = {[token |-> f.token, arrived |-> f.at,
                                   parsed |-> start + profile.parse]}
              /\ freeAt' = Charged("cpu", f.at, profile.parse)
              /\ pc' = "advance"
              /\ UNCHANGED <<pending, fate>>
    <2>1. PICK w \in StillWaiting(f.at), start \in {StartOf("cpu", f.at)} :
             /\ Len(w) < profile.rxCapacity
             /\ parseStarts' = IF start > f.at THEN Append(w, start) ELSE w
             /\ until' = start + profile.parse
             /\ current' = {[token |-> f.token, arrived |-> f.at,
                             parsed |-> start + profile.parse]}
      BY <1>11
    <2>2. start \in Nat /\ start + profile.parse \in Nat
      <3>1. StartOf("cpu", f.at) \in Nat
        BY <1>3, <1>4, StartFacts
      <3> QED BY <1>4, <2>1, <3>1
    <2>3. w \in Seq(Times) /\ Len(w) \in Nat
      BY <2>1, WaitingFacts
    <2>4. Append(w, start) \in Seq(Times) /\ Len(Append(w, start)) = Len(w) + 1
      BY <2>2, <2>3, AppendProperties DEF Times
    <2>5. parseStarts' \in Seq(Times) /\ Len(parseStarts') <= profile.rxCapacity
      BY <1>4, <2>1, <2>3, <2>4
    <2>6. ServerTypes'
      <3>1. Busier(freeAt')
        BY <1>3, <1>4, <1>11, ChargedFacts
      <3> QED BY <1>1, <1>4, <3>1, BusierFacts
    <2> QED BY <1>9, <1>11, <2>1, <2>2, <2>5, <2>6
  <1>12. CASE /\ \E waiting \in StillWaiting(f.at) : parseStarts' = waiting
              /\ Settle({f.token}, "dropped")
              /\ UNCHANGED <<until, current, pc, freeAt>>
    <2>1. Settled({f.token})
      <3>1. "dropped" \in Fates \ {"none"}
        BY DEF Fates
      <3> QED BY <1>1, <1>12, <3>1, SharedNow, SettleFacts
    <2>2. parseStarts' \in Seq(Times) /\ Len(parseStarts') <= profile.rxCapacity
      BY <1>4, <1>12, WaitingFacts
    <2>3. NodeTypes'
      BY <1>1, <1>5, <1>12, <2>1, <2>2 DEF FramesInv, NodeTypes, Settled
    <2>4. HandlerOK' /\ ServerTypes'
      BY <1>1, <1>12 DEF FramesInv, HandlerOK, ServerTypes
    <2>5. Partition(pending', TokensOf(inbox), TokensOf(frames'), {}, SeqTokens(queue), TokensOf(verifying))
      BY <1>5, <1>8, <2>1 DEF Partition, Settled
    <2>6. TokensOf(current') = {}
      BY <1>4, <1>12 DEF TokensOf
    <2>7. Shared'
      BY <1>1, <1>5, <1>8, <1>12, <2>1, <2>5, <2>6, SharedThen DEF Settled
    <2>8. Begun \subseteq Begun' /\ Begun' \subseteq Tokens
      BY <1>1, <2>1, BegunFinite DEF Begun, TokensOf, Settled
    <2>9. StartedOnce'
      BY <1>1, <2>8, BegunGrows
    <2> QED BY <1>6, <1>7, <2>1, <2>3, <2>4, <2>7, <2>9 DEF FramesInv, Settled
  <1> QED BY <1>2, <1>10, <1>11, <1>12

(* The queue and its metadata, from the front.                             *)
LEMMA HeadFacts ==
  ASSUME FramesInv, queue # <<>>
  PROVE  /\ verifyMeta # <<>> /\ Len(queue) = Len(verifyMeta) /\ Len(queue) \in Nat \ {0}
         /\ Head(queue) \in QueueType /\ Head(verifyMeta) \in MetaType
         /\ Head(queue) = queue[1] /\ Head(verifyMeta) = verifyMeta[1]
         /\ Head(queue).token = Head(verifyMeta).token
         /\ Head(queue).enqueuedAt = Head(verifyMeta).parsed
         /\ Tail(queue) \in Seq(QueueType) /\ Tail(verifyMeta) \in Seq(MetaType)
         /\ Len(Tail(queue)) = Len(queue) - 1 /\ Len(Tail(verifyMeta)) = Len(queue) - 1
         /\ \A i \in 1..Len(queue) - 1 : /\ Tail(queue)[i] = queue[i + 1]
                                         /\ Tail(verifyMeta)[i] = verifyMeta[i + 1]
  <1>1. /\ queue \in Seq(QueueType) /\ verifyMeta \in Seq(MetaType)
        /\ Len(queue) = Len(verifyMeta)
        /\ \A i \in 1..Len(queue) : /\ queue[i].token = verifyMeta[i].token
                                    /\ queue[i].enqueuedAt = verifyMeta[i].parsed
    BY DEF FramesInv, NodeTypes, MetaInStep
  <1>2. Len(queue) \in Nat \ {0}
    BY <1>1, EmptySeq
  <1>3. verifyMeta # <<>>
    BY <1>1, <1>2, EmptySeq
  <1>4. /\ Head(queue) \in QueueType /\ Tail(queue) \in Seq(QueueType)
        /\ Len(Tail(queue)) = Len(queue) - 1
        /\ \A i \in 1..Len(Tail(queue)) : Tail(queue)[i] = queue[i + 1]
    BY <1>1, HeadTailProperties
  <1>5. /\ Head(verifyMeta) \in MetaType /\ Tail(verifyMeta) \in Seq(MetaType)
        /\ Len(Tail(verifyMeta)) = Len(verifyMeta) - 1
        /\ \A i \in 1..Len(Tail(verifyMeta)) : Tail(verifyMeta)[i] = verifyMeta[i + 1]
    BY <1>1, <1>3, HeadTailProperties
  <1>6. Head(queue) = queue[1] /\ Head(verifyMeta) = verifyMeta[1] /\ 1 \in 1..Len(queue)
    BY <1>2
  <1> QED BY <1>1, <1>2, <1>3, <1>4, <1>5, <1>6

(* Both lines without their heads are in step.                             *)
LEMMA TailInStep ==
  ASSUME FramesInv, queue # <<>>, NEW q, NEW m, q = Tail(queue), m = Tail(verifyMeta)
  PROVE  /\ Len(q) = Len(m) /\ Len(q) \in Nat
         /\ \A i \in 1..Len(q) : q[i].token = m[i].token /\ q[i].enqueuedAt = m[i].parsed
  <1>1. /\ Len(queue) \in Nat \ {0} /\ Len(q) = Len(queue) - 1 /\ Len(m) = Len(queue) - 1
        /\ \A i \in 1..Len(queue) - 1 : q[i] = queue[i + 1] /\ m[i] = verifyMeta[i + 1]
    BY HeadFacts
  <1>2. \A i \in 1..Len(queue) - 1 : i + 1 \in 1..Len(queue)
    BY <1>1
  <1> QED BY <1>1, <1>2 DEF FramesInv, MetaInStep

(* A check starts: its frame leaves the queue for a server.                *)
LEMMA StartCheckFrames ==
  ASSUME FramesInv, StartCheck
  PROVE  FramesInv'
  <1> DEFINE t == Head(queue).token
             start == StartOf(profile.verifyOn, Head(queue).enqueuedAt)
             v == [token |-> Head(verifyMeta).token, arrived |-> Head(verifyMeta).arrived,
                   start |-> start, finish |-> start + profile.verify, seq |-> verifySeq]
  <1>1. /\ profile' = profile /\ now' = now /\ stage' = stage /\ stepDue' = stepDue
        /\ node' = node /\ inbox' = inbox /\ wakes' = wakes /\ nodeWake' = nodeWake
        /\ outages' = outages /\ onAt' = onAt /\ isWake' = isWake /\ pc' = pc
        /\ pending' = pending /\ frames' = frames /\ current' = current /\ until' = until
        /\ parseStarts' = parseStarts /\ fate' = fate /\ handed' = handed
        /\ queue' = Tail(queue) /\ verifyMeta' = Tail(verifyMeta)
        /\ verifySeq' = verifySeq + 1 /\ pc = "advance" /\ queue # <<>>
        /\ freeAt' = Charged(profile.verifyOn, Head(queue).enqueuedAt, profile.verify)
        /\ verifying' = verifying \cup {v}
    BY DEF StartCheck, engineVars, CanStart
  <1>2. /\ profile \in Profiles /\ profile.verifyOn \in Banks /\ profile.verify \in Nat
        /\ Head(queue).enqueuedAt \in Nat /\ ServerTypes /\ verifySeq \in Nat
        /\ profile.capacity \in Nat
    BY <1>1, ProfileFacts, HeadFacts DEF FramesInv, EngineTypes, NodeTypes, QueueType, Times
  <1>3. start \in Nat
    BY <1>2, StartFacts
  <1> HIDE DEF start
  <1>4. v \in CheckType /\ v.token = t
    BY <1>1, <1>2, <1>3, HeadFacts DEF CheckType, MetaType, Times
  <1> HIDE DEF v
  <1>5. ServerTypes'
    <2>1. Busier(freeAt')
      BY <1>1, <1>2, ChargedFacts
    <2> QED BY <1>1, <1>2, <2>1, BusierFacts
  <1>6. EngineTypes'
    BY <1>1 DEF FramesInv, EngineTypes
  <1>7. NodeTypes'
    <2>1. Len(queue') <= profile.capacity /\ queue' \in Seq(QueueType) /\ verifyMeta' \in Seq(MetaType)
      BY <1>1, <1>2, HeadFacts DEF FramesInv, NodeTypes
    <2> QED BY <1>1, <1>2, <1>4, <2>1 DEF FramesInv, NodeTypes
  <1>8. HandlerOK'
    BY <1>1 DEF FramesInv, HandlerOK
  <1>9. MetaInStep'
    BY <1>1, TailInStep DEF MetaInStep
  <1>10. /\ SeqTokens(queue') = SeqTokens(queue) \ {t} /\ SoleSeq(queue') /\ t \in SeqTokens(queue)
    BY <1>1, SharedNow, TokensTail DEF FramesInv, NodeTypes
  <1>11. t \notin TokensOf(verifying) /\ t \in pending /\ t \in Tokens /\ fate[t] = "none"
    BY <1>1, <1>10, SharedNow DEF Partition
  <1>12. TokensOf(verifying') = TokensOf(verifying) \cup {t} /\ Sole(verifying')
    BY <1>1, <1>4, <1>11, SharedNow, TokensPlus
  <1>13. Shared'
    <2>1. Partition(pending, TokensOf(inbox), TokensOf(frames), TokensOf(current),
                    SeqTokens(queue'), TokensOf(verifying'))
      <3>1. Partition(pending, TokensOf(inbox), TokensOf(frames), TokensOf(current),
                      SeqTokens(queue), TokensOf(verifying))
        BY <1>1, SharedNow
      <3> HIDE DEF t
      <3> QED BY <1>10, <1>12, <3>1 DEF Partition
    <2> QED BY <1>1, <1>10, <1>12, <2>1, SharedNow, SharedThen
  <1>14. StartedOnce'
    <2>1. TokensOf(verifying)' = TokensOf(verifying')
      BY DEF TokensOf
    <2>2. Begun' = Begun \cup {t} /\ t \notin Begun
      BY <1>1, <1>11, <1>12, <2>1 DEF Begun
    <2>3. Cardinality(Begun') = Cardinality(Begun) + 1
      BY <2>2, BegunFinite, FS_AddElement
    <2> QED BY <1>1, <1>2, <2>3, BegunFinite DEF FramesInv, StartedOnce
  <1> QED BY <1>5, <1>6, <1>7, <1>8, <1>9, <1>13, <1>14 DEF FramesInv

(* A finished check is handed over.                                        *)
LEMMA DeliverVerifiedFrames ==
  ASSUME FramesInv, DeliverVerified
  PROVE  FramesInv'
  <1>1. /\ profile' = profile /\ now' = now /\ stage' = stage /\ stepDue' = stepDue
        /\ node' = node /\ inbox' = inbox /\ wakes' = wakes /\ nodeWake' = nodeWake
        /\ outages' = outages /\ onAt' = onAt /\ isWake' = isWake /\ pc' = pc
        /\ frames' = frames /\ current' = current /\ until' = until
        /\ parseStarts' = parseStarts /\ queue' = queue /\ verifyMeta' = verifyMeta
        /\ verifySeq' = verifySeq /\ freeAt' = freeAt /\ pc = "complete"
    BY DEF DeliverVerified, engineVars
  <1>2. PICK v \in verifying :
          /\ verifying' = verifying \ {v}
          /\ handed' = Append(handed, [token |-> v.token, arrived |-> v.arrived,
                                       start |-> v.start, done |-> v.finish, at |-> now])
          /\ Settle({v.token}, "delivered")
    BY DEF DeliverVerified
  <1>3. v \in CheckType /\ now \in Times /\ handed \in Seq(HandedType)
    BY NodeReceiveAssumption DEF FramesInv, NodeTypes, EngineTypes, Instants, Times
  <1>4. handed' \in Seq(HandedType)
    <2> DEFINE h == [token |-> v.token, arrived |-> v.arrived,
                     start |-> v.start, done |-> v.finish, at |-> now]
    <2>1. h \in HandedType
      BY <1>3 DEF CheckType, HandedType
    <2> HIDE DEF h
    <2>2. handed' = Append(handed, h)
      BY <1>2 DEF h
    <2> QED BY <1>3, <2>1, <2>2, AppendProperties
  <1>5. Settled({v.token})
    <2>1. "delivered" \in Fates \ {"none"}
      BY DEF Fates
    <2> QED BY <1>1, <1>2, <2>1, SharedNow, SettleFacts
  <1>6. EngineTypes' /\ ServerTypes'
    BY <1>1, <1>5 DEF FramesInv, EngineTypes, ServerTypes, Settled
  <1>7. NodeTypes'
    BY <1>1, <1>2, <1>4, <1>5 DEF FramesInv, NodeTypes, Settled
  <1>8. HandlerOK' /\ MetaInStep'
    BY <1>1 DEF FramesInv, HandlerOK, MetaInStep
  <1>9. /\ TokensOf(verifying') = TokensOf(verifying) \ {v.token} /\ Sole(verifying')
        /\ v.token \in TokensOf(verifying)
    BY <1>1, <1>2, SharedNow, TokensMinus DEF TokensOf
  <1>10. Shared'
    <2>1. Partition(pending', TokensOf(inbox), TokensOf(frames), TokensOf(current),
                    SeqTokens(queue), TokensOf(verifying'))
      BY <1>1, <1>5, <1>9, SharedNow DEF Partition, Settled
    <2> QED BY <1>1, <1>5, <1>9, <2>1, SharedNow, SharedThen DEF Settled
  <1>11. StartedOnce'
    <2>1. TokensOf(verifying)' = TokensOf(verifying')
      BY DEF TokensOf
    <2>2. v.token \in pending /\ v.token \in Tokens
      BY <1>1, <1>9, SharedNow DEF Partition
    <2>3. Begun \subseteq Begun' /\ Begun' \subseteq Tokens
      BY <1>5, <1>9, <2>1, <2>2, BegunFinite DEF Begun, Settled
    <2> QED BY <1>1, <2>3, BegunGrows
  <1> QED BY <1>6, <1>7, <1>8, <1>10, <1>11 DEF FramesInv

(* The current frame gets its fate and the queue stays.                    *)
LEMMA CurrentSettled ==
  ASSUME FramesInv, pc = "decide", NEW f \in current, Settled({f.token}), current' = {},
         pc' = "frame", profile' = profile, inbox' = inbox, frames' = frames, queue' = queue,
         verifyMeta' = verifyMeta, verifying' = verifying, verifySeq' = verifySeq
  PROVE  MetaInStep' /\ Shared' /\ StartedOnce'
  <1>1. MetaInStep'
    BY DEF FramesInv, MetaInStep
  <1>2. TokensOf(current) = {f.token} /\ TokensOf(current') = {}
    BY DEF TokensOf, FramesInv, NodeTypes
  <1>3. Shared'
    <2>1. Partition(pending, TokensOf(inbox), TokensOf(frames), TokensOf(current),
                    SeqTokens(queue), TokensOf(verifying))
      BY SharedNow
    <2>2. Partition(pending', TokensOf(inbox), TokensOf(frames), {},
                    SeqTokens(queue), TokensOf(verifying))
      BY <1>2, <2>1 DEF Partition, Settled
    <2> QED BY <1>2, <2>2, SharedNow, SharedThen DEF Settled
  <1>4. StartedOnce'
    <2>1. TokensOf(verifying)' = TokensOf(verifying)
      BY DEF TokensOf
    <2>2. Begun \subseteq Begun' /\ Begun' \subseteq Tokens
      BY <2>1, BegunFinite DEF Begun, Settled
    <2> QED BY <2>2, BegunGrows
  <1> QED BY <1>1, <1>3, <1>4

(* Both lines with one more entry of the same frame are in step.           *)
LEMMA AppendInStep ==
  ASSUME NEW q \in Seq(QueueType), NEW m \in Seq(MetaType), Len(q) = Len(m),
         \A i \in 1..Len(q) : q[i].token = m[i].token /\ q[i].enqueuedAt = m[i].parsed,
         NEW e \in QueueType, NEW f \in MetaType, e.token = f.token, e.enqueuedAt = f.parsed,
         queue' = Append(q, e), verifyMeta' = Append(m, f)
  PROVE  /\ MetaInStep' /\ queue' \in Seq(QueueType) /\ verifyMeta' \in Seq(MetaType)
         /\ Len(queue') = Len(q) + 1 /\ Len(q) \in Nat
  <1>1. /\ Len(q) \in Nat /\ Len(queue') = Len(q) + 1 /\ queue' \in Seq(QueueType)
        /\ \A i \in 1..Len(q) : queue'[i] = q[i]
        /\ queue'[Len(q) + 1] = e
    BY LenProperties, AppendProperties
  <1>2. /\ Len(verifyMeta') = Len(q) + 1 /\ verifyMeta' \in Seq(MetaType)
        /\ \A i \in 1..Len(q) : verifyMeta'[i] = m[i]
        /\ verifyMeta'[Len(q) + 1] = f
    BY LenProperties, AppendProperties
  <1>3. 1..Len(q) + 1 = 1..Len(q) \cup {Len(q) + 1}
    BY <1>1
  <1> QED BY <1>1, <1>2, <1>3 DEF MetaInStep

(* The current frame joins the line q, which is the queue without the      *)
(* frames of `out`.                                                        *)
LEMMA CurrentQueued ==
  ASSUME FramesInv, pc = "decide", NEW f \in current, current' = {}, pc' = "frame",
         profile' = profile, inbox' = inbox, frames' = frames, verifying' = verifying,
         verifySeq' = verifySeq, NEW out, Settled(out),
         NEW q \in Seq(QueueType), SoleSeq(q), SeqTokens(q) = SeqTokens(queue) \ out,
         out \subseteq SeqTokens(queue), NEW e \in QueueType, e.token = f.token,
         queue' = Append(q, e)
  PROVE  Shared' /\ StartedOnce'
  <1>1. TokensOf(current) = {f.token} /\ TokensOf(current') = {}
    BY DEF TokensOf, FramesInv, NodeTypes
  <1>2. Partition(pending, TokensOf(inbox), TokensOf(frames), TokensOf(current),
                  SeqTokens(queue), TokensOf(verifying))
    BY SharedNow
  <1>3. f.token \notin SeqTokens(q)
    BY <1>1, <1>2 DEF Partition
  <1>4. SeqTokens(queue') = SeqTokens(q) \cup {f.token} /\ SoleSeq(queue')
    BY <1>3, TokensAppend
  <1>5. Partition(pending', TokensOf(inbox), TokensOf(frames), {},
                  SeqTokens(queue'), TokensOf(verifying))
    BY <1>1, <1>2, <1>4 DEF Partition, Settled
  <1>6. Shared'
    BY <1>1, <1>4, <1>5, SharedNow, SharedThen DEF Settled
  <1>7. TokensOf(verifying)' = TokensOf(verifying)
    BY DEF TokensOf
  <1>8. Begun \subseteq Begun' /\ Begun' \subseteq Tokens
    BY <1>7, BegunFinite DEF Begun, Settled
  <1> QED BY <1>6, <1>8, BegunGrows

(* The policy drops, delivers or queues the current frame.                 *)
LEMMA DecideFrames ==
  ASSUME FramesInv, Decide
  PROVE  FramesInv'
  <1>1. /\ profile' = profile /\ now' = now /\ stage' = stage /\ stepDue' = stepDue
        /\ node' = node /\ inbox' = inbox /\ wakes' = wakes /\ nodeWake' = nodeWake
        /\ outages' = outages /\ onAt' = onAt /\ isWake' = isWake /\ pc' = "frame"
        /\ frames' = frames /\ current' = {} /\ until' = until
        /\ parseStarts' = parseStarts /\ verifying' = verifying
        /\ verifySeq' = verifySeq /\ freeAt' = freeAt /\ handed' = handed /\ pc = "decide"
    BY DEF Decide, engineVars
  <1>2. PICK f \in current :
       \/ /\ Settle({f.token}, "delivered") /\ queue' = queue /\ verifyMeta' = verifyMeta
       \/ /\ Settle({f.token}, "dropped") /\ queue' = queue /\ verifyMeta' = verifyMeta
       \/ EnqueueFrame(f)
    BY DEF Decide
  <1> DEFINE e == [token |-> f.token, enqueuedAt |-> f.parsed]
  <1>3. /\ f \in MetaType /\ e \in QueueType /\ e.token = f.token /\ e.enqueuedAt = f.parsed
        /\ queue \in Seq(QueueType) /\ verifyMeta \in Seq(MetaType)
        /\ Len(queue) \in Nat /\ Len(queue) <= profile.capacity
    BY LenProperties DEF FramesInv, NodeTypes, MetaType, QueueType
  <1>4. profile \in Profiles /\ profile.capacity \in Nat
    BY ProfileFacts DEF FramesInv, EngineTypes
  <1>5. "delivered" \in Fates \ {"none"} /\ "dropped" \in Fates \ {"none"}
    BY DEF Fates
  <1>6. \A S : Settle(S, "delivered") \/ Settle(S, "dropped") => Settled(S)
    BY <1>1, <1>5, SharedNow, SettleFacts
  <1>7. ASSUME NEW S, Settled(S), queue' \in Seq(QueueType), verifyMeta' \in Seq(MetaType),
               Len(queue') <= profile.capacity, MetaInStep', Shared', StartedOnce'
        PROVE  FramesInv'
    <2>1. EngineTypes' /\ ServerTypes'
      BY <1>1, <1>7 DEF FramesInv, EngineTypes, ServerTypes, Settled
    <2>2. NodeTypes'
      BY <1>1, <1>7 DEF FramesInv, NodeTypes, Settled
    <2>3. HandlerOK'
      BY <1>1 DEF FramesInv, HandlerOK
    <2> QED BY <1>7, <2>1, <2>2, <2>3 DEF FramesInv
  <1>8. ASSUME Settled({f.token}), queue' = queue, verifyMeta' = verifyMeta PROVE FramesInv'
    BY <1>1, <1>3, <1>7, <1>8, CurrentSettled
  <1>9. ASSUME EnqueueFrame(f) PROVE FramesInv'
    <2> HIDE DEF e
    <2>1. /\ queue' = QueuePush(queue, e) /\ verifyMeta' = QueuePush(verifyMeta, f)
          /\ Settled(Overflowed(f))
      BY <1>6, <1>9 DEF EnqueueFrame, e
    <2>2. Len(queue) = Len(verifyMeta)
          /\ \A i \in 1..Len(queue) : /\ queue[i].token = verifyMeta[i].token
                                      /\ queue[i].enqueuedAt = verifyMeta[i].parsed
      BY DEF FramesInv, MetaInStep
    <2>3. CASE ~Full
      <3>1. queue' = Append(queue, e) /\ verifyMeta' = Append(verifyMeta, f) /\ Overflowed(f) = {}
        BY <2>1, <2>3 DEF QueuePush, Overflowed
      <3>2. /\ MetaInStep' /\ queue' \in Seq(QueueType) /\ verifyMeta' \in Seq(MetaType)
            /\ Len(queue') = Len(queue) + 1
        BY <1>3, <2>2, <3>1, AppendInStep
      <3>3. Len(queue') <= profile.capacity
        BY <1>3, <1>4, <2>3, <3>2 DEF Full
      <3>4. SoleSeq(queue) /\ SeqTokens(queue) = SeqTokens(queue) \ {} /\ Settled({})
        BY <1>1, <2>1, <3>1, SharedNow
      <3>5. Shared' /\ StartedOnce'
        BY <1>1, <1>3, <3>1, <3>4, CurrentQueued
      <3> QED BY <1>7, <2>1, <3>2, <3>3, <3>5
    <2>4. CASE Full /\ queue = <<>>
      <3>1. verifyMeta = <<>>
        BY <1>3, <2>2, <2>4, EmptySeq
      <3>2. queue' = queue /\ verifyMeta' = verifyMeta /\ Overflowed(f) = {f.token}
        BY <2>1, <2>4, <3>1 DEF QueuePush, Overflowed
      <3> QED BY <1>8, <2>1, <3>2
    <2>5. CASE Full /\ queue # <<>>
      <3> DEFINE q == Tail(queue)
                 m == Tail(verifyMeta)
                 t == Head(queue).token
      <3>1. /\ verifyMeta # <<>> /\ q \in Seq(QueueType) /\ m \in Seq(MetaType)
            /\ t = Head(verifyMeta).token /\ Len(q) = Len(queue) - 1
        BY <2>5, HeadFacts
      <3>2. queue' = Append(q, e) /\ verifyMeta' = Append(m, f) /\ Overflowed(f) = {t}
        BY <2>1, <2>5, <3>1 DEF QueuePush, Overflowed
      <3>3. /\ Len(q) = Len(m)
            /\ \A i \in 1..Len(q) : q[i].token = m[i].token /\ q[i].enqueuedAt = m[i].parsed
        BY <2>5, TailInStep
      <3>4. SeqTokens(q) = SeqTokens(queue) \ {t} /\ SoleSeq(q) /\ {t} \subseteq SeqTokens(queue)
        BY <1>1, <1>3, <2>5, SharedNow, TokensTail
      <3> HIDE DEF q, m, t
      <3>5. /\ MetaInStep' /\ queue' \in Seq(QueueType) /\ verifyMeta' \in Seq(MetaType)
            /\ Len(queue') = Len(q) + 1
        BY <1>3, <3>1, <3>2, <3>3, AppendInStep
      <3>6. Len(queue') <= profile.capacity
        BY <1>3, <1>4, <3>1, <3>5
      <3>7. Settled({t})
        BY <2>1, <3>2
      <3>8. Shared' /\ StartedOnce'
        BY <1>1, <1>3, <3>1, <3>2, <3>4, <3>7, CurrentQueued
      <3> QED BY <1>7, <3>5, <3>6, <3>7, <3>8
    <2> QED BY <2>3, <2>4, <2>5
  <1> QED BY <1>2, <1>6, <1>8, <1>9

(* The end of the run settles what is left.                                *)
LEMMA EndRunFrames ==
  ASSUME FramesInv, EndRun
  PROVE  FramesInv'
  <1>1. /\ profile' = profile /\ now' = now /\ stage' = stage /\ stepDue' = stepDue
        /\ node' = node /\ inbox' = inbox /\ wakes' = wakes /\ nodeWake' = nodeWake
        /\ outages' = outages /\ onAt' = onAt /\ isWake' = isWake /\ pc' = "ended"
        /\ frames' = frames /\ current' = current /\ until' = until
        /\ parseStarts' = parseStarts /\ verifying' = verifying /\ queue' = queue
        /\ verifyMeta' = verifyMeta /\ verifySeq' = verifySeq /\ freeAt' = freeAt
        /\ handed' = handed /\ pc = "idle"
    BY DEF EndRun, engineVars, serverVars
  <1>2. Settled(pending)
    <2>1. Settle(pending, "in-flight") /\ "in-flight" \in Fates \ {"none"}
      BY DEF EndRun, Fates
    <2> QED BY <1>1, <2>1, SharedNow, SettleFacts
  <1>3. EngineTypes' /\ ServerTypes' /\ MetaInStep'
    BY <1>1, <1>2 DEF FramesInv, EngineTypes, ServerTypes, MetaInStep, Settled
  <1>4. NodeTypes' /\ HandlerOK'
    BY <1>1, <1>2 DEF FramesInv, NodeTypes, HandlerOK, Settled
  <1>5. Shared'
    BY <1>1, <1>2 DEF Shared, Settled
  <1>6. StartedOnce'
    <2>1. TokensOf(verifying)' = TokensOf(verifying)
      BY <1>1 DEF TokensOf
    <2>2. Begun \subseteq Begun' /\ Begun' \subseteq Tokens
      BY <1>2, <2>1, BegunFinite DEF Begun, Settled
    <2> QED BY <1>1, <2>2, BegunGrows
  <1> QED BY <1>3, <1>4, <1>5, <1>6 DEF FramesInv

(***************************************************************************)
(* The pending wake stays early enough.                                    *)
(***************************************************************************)

LEMMA InitWakes == Init => WakesOK
  BY DEF Init, WakesOK

(* The steps within a handler ask for no wake.                             *)
LEMMA HandlerWakes ==
  ASSUME FramesInv, WakesOK,
         \/ ParseFrame \/ NoMoreFrames \/ StartCheck \/ NoneCanStart
         \/ DeliverVerified \/ NoneFinished \/ Decide \/ Generate
  PROVE  WakesOK'
  <1>1. /\ now' = now /\ inbox' = inbox /\ wakes' = wakes /\ nodeWake' = nodeWake
        /\ pc \notin {"idle", "ended", "schedule"} /\ pc' \notin {"idle", "ended"}
    BY DEF ParseFrame, NoMoreFrames, StartCheck, NoneCanStart, DeliverVerified, NoneFinished,
           Decide, Generate, engineVars
  <1>2. ASSUME pc' \in {"generate", "schedule"} PROVE \A v \in verifying' : v.finish > now
    <2>1. NoneFinished \/ Generate
      BY <1>2 DEF ParseFrame, NoMoreFrames, StartCheck, NoneCanStart, DeliverVerified, Decide
    <2>2. CASE NoneFinished
      <3>1. verifying' = verifying /\ current = {} /\ pc = "complete"
        BY <1>2, <2>2 DEF NoneFinished, serverVars
      <3>2. until = now /\ now \in Nat
        BY <3>1, NodeReceiveAssumption DEF FramesInv, HandlerOK, EngineTypes, Instants
      <3>3. \A v \in verifying : v.finish \in Nat /\ ~(v.finish <= now)
        BY <2>2, <3>2 DEF NoneFinished, Finished, FramesInv, NodeTypes, CheckType, Times
      <3> QED BY <3>1, <3>2, <3>3
    <2>3. CASE Generate
      BY <2>3 DEF Generate, WakesOK
    <2> QED BY <2>1, <2>2, <2>3
  <1> QED BY <1>1, <1>2 DEF WakesOK

LEMMA ScheduleWakeWakes ==
  ASSUME FramesInv, WakesOK, ScheduleWake
  PROVE  WakesOK'
  <1>1. /\ now' = now /\ inbox' = inbox /\ verifying' = verifying /\ pc' = "idle"
        /\ now \in Nat
        /\ \A v \in verifying : v.finish \in Nat
        /\ \A f \in inbox : f.at \in Nat
    BY NodeReceiveAssumption
    DEF ScheduleWake, serverVars, FramesInv, EngineTypes, NodeTypes, Instants, CheckType, FrameType, Times
  <1>2. /\ WakePair(wakes', nodeWake')
        /\ \A v \in verifying : InTime(nodeWake', v.finish) /\ v.finish > now
        /\ \A f \in inbox : InTime(nodeWake', f.at) /\ f.at > now
    BY ScheduleFacts
  <1> QED BY <1>1, <1>2 DEF WakesOK, Covered, InTime, WakePair

LEMMA DecodeFrameWakes ==
  ASSUME FramesInv, WakesOK, NEW delay \in 0..MaxDelay, DecodeFrame(delay)
  PROVE  WakesOK'
  <1>0. /\ now \in Nat /\ Horizon \in Nat /\ delay \in Nat /\ now + delay \in Nat
        /\ now + delay >= now /\ nodeWake \subseteq Nat
        /\ \A v \in verifying : v.finish \in Nat
        /\ \A f \in inbox : f.at \in Nat
    BY NodeReceiveAssumption
    DEF FramesInv, EngineTypes, NodeTypes, Instants, CheckType, FrameType, Times
  <1>1. now' = now /\ verifying' = verifying /\ pc' = pc /\ pc = "idle"
    BY DEF DecodeFrame, Dispatch, serverVars
  <1>2. CASE inbox' = inbox /\ wakes' = wakes /\ nodeWake' = nodeWake
    BY <1>1, <1>2 DEF WakesOK, Covered
  <1>3. CASE \E t \in Tokens : /\ inbox' = inbox \cup {[token |-> t, at |-> now + delay]}
                               /\ wakes' = WakeWanted(wakes, nodeWake, now + delay).heap
                               /\ nodeWake' = WakeWanted(wakes, nodeWake, now + delay).wake
    <2>1. WakePair(wakes, nodeWake)
      BY DEF WakePair, FramesInv, EngineTypes, WakesOK
    <2>2. WakePair(wakes', nodeWake') /\ Sooner(nodeWake, nodeWake') /\ InTime(nodeWake', now + delay)
      BY <1>0, <1>3, <2>1, WakeWantedFacts
    <2>3. nodeWake' \subseteq Nat
      BY <1>0, <2>2 DEF WakePair, Instants
    <2>4. \A at \in Nat : Covered(at) => at >= now /\ InTime(nodeWake', at)
      BY <1>0, <2>2, <2>3 DEF Covered, Sooner, InTime
    <2>5. \A v \in verifying' : v.finish >= now /\ InTime(nodeWake', v.finish)
      BY <1>0, <1>1, <2>4 DEF WakesOK
    <2>6. \A f \in inbox' : f.at >= now /\ InTime(nodeWake', f.at)
      BY <1>0, <1>1, <1>3, <2>2, <2>4 DEF WakesOK
    <2> QED BY <1>1, <2>2, <2>5, <2>6 DEF WakesOK, Covered, InTime, WakePair
  <1> QED BY <1>2, <1>3 DEF DecodeFrame

(* Taking the inbox leaves what arrives later.                             *)
LEMMA TakeInboxWakes ==
  ASSUME FramesInv, WakesOK, NEW wake, TakeInbox(wake), now' = now,
         nodeWake' \subseteq wakes', wakes' \subseteq wakes
  PROVE  WakesOK'
  <1>1. \A f \in inbox' : f.at > now
    BY NodeReceiveAssumption DEF TakeInbox, FramesInv, EngineTypes, Instants, FrameType, Times
  <1>2. pc' = "frame" \/ (pc' = "schedule" /\ verifying' = {})
    BY DEF TakeInbox, SwitchedOff
  <1> QED BY <1>1, <1>2 DEF WakesOK

LEMMA EventWakes ==
  ASSUME FramesInv, WakesOK, Outage \/ Despawn \/ PeriodicStep \/ Wake
  PROVE  WakesOK'
  <1>1. CASE Outage
    BY <1>1 DEF Outage, Dispatch, serverVars, WakesOK, Covered
  <1>2. CASE Despawn
    BY <1>2 DEF Despawn, Dispatch, WakesOK
  <1>3. CASE PeriodicStep
    <2>1. /\ now' = now /\ wakes' = wakes /\ nodeWake' = nodeWake /\ nodeWake' \subseteq wakes'
      BY <1>3 DEF PeriodicStep, WakesOK
    <2>2. CASE TakeInbox(FALSE)
      BY <2>1, <2>2, TakeInboxWakes
    <2>3. CASE node = "gone" /\ UNCHANGED <<isWake, inbox, until, pending, fate, verifying, frames, pc>>
      BY <2>1, <2>3 DEF WakesOK, Covered
    <2> QED BY <1>3, <2>2, <2>3 DEF PeriodicStep
  <1>4. CASE Wake
    <2>1. /\ now' = now /\ wakes' = wakes \ {now} /\ nodeWake' = nodeWake \ {now}
          /\ nodeWake' \subseteq wakes' /\ pc = "idle"
      BY <1>4 DEF Wake, Dispatch, WakesOK
    <2>2. CASE TakeInbox(TRUE)
      BY <2>1, <2>2, TakeInboxWakes
    <2>3. CASE node = "gone" /\ UNCHANGED <<isWake, inbox, until, pending, fate, verifying, frames, pc>>
      <3>1. inbox = {} /\ verifying = {}
        BY <2>3 DEF FramesInv, HandlerOK
      <3> QED BY <2>1, <2>3, <3>1 DEF WakesOK
    <2> QED BY <1>4, <2>2, <2>3 DEF Wake
  <1> QED BY <1>1, <1>2, <1>3, <1>4

(* The clock moves on when no task is due: no wake is passed over.         *)
LEMMA TickWakes ==
  ASSUME FramesInv, WakesOK, Tick
  PROVE  WakesOK'
  <1>1. /\ now' = now + 1 /\ pc = "idle" /\ pc' = "idle" /\ now \notin wakes /\ wakes' = wakes
        /\ nodeWake' = nodeWake /\ inbox' = inbox /\ verifying' = verifying /\ now < Horizon
    BY DEF Tick, serverVars
  <1>2. /\ now \in Nat /\ Horizon \in Nat /\ wakes \subseteq Nat
        /\ \A v \in verifying : v.finish \in Nat
        /\ \A f \in inbox : f.at \in Nat
    BY NodeReceiveAssumption
    DEF FramesInv, EngineTypes, NodeTypes, Instants, CheckType, FrameType, Times
  <1>3. nodeWake \subseteq wakes /\ \A t \in wakes : t >= now + 1
    BY <1>1, <1>2 DEF WakesOK
  <1>4. \A at \in Nat : Covered(at) => at >= now + 1 /\ (at <= Horizon => \E t \in nodeWake : t <= at)
    BY <1>1, <1>2, <1>3 DEF Covered
  <1>5. /\ \A v \in verifying : v.finish \in Nat /\ Covered(v.finish)
        /\ \A f \in inbox : f.at \in Nat /\ Covered(f.at)
    BY <1>1, <1>2 DEF WakesOK
  <1>6. /\ \A v \in verifying' : v.finish >= now' /\ (v.finish <= Horizon => \E t \in nodeWake' : t <= v.finish)
        /\ \A f \in inbox' : f.at >= now' /\ (f.at <= Horizon => \E t \in nodeWake' : t <= f.at)
    BY <1>1, <1>4, <1>5
  <1> QED BY <1>1, <1>3, <1>6 DEF WakesOK, Covered

LEMMA EndRunWakes ==
  ASSUME WakesOK, EndRun
  PROVE  WakesOK'
  BY DEF EndRun, engineVars, serverVars, WakesOK

(***************************************************************************)
(* The line of frames: its members, and what one step of a frame does.     *)
(***************************************************************************)

LEMMA EntriesAppend ==
  ASSUME NEW T, NEW s \in Seq(T), NEW e \in T
  PROVE  /\ Entries(Append(s, e)) = Entries(s) \cup {e}
         /\ InOrder(s) /\ Ahead(Entries(s), {e}) => InOrder(Append(s, e))
         /\ ParsedInOrder(s) /\ (\A m \in Entries(s) : m.parsed <= e.parsed)
              => ParsedInOrder(Append(s, e))
  <1>1. /\ Len(s) \in Nat /\ Len(Append(s, e)) = Len(s) + 1
        /\ \A i \in 1..Len(s) : Append(s, e)[i] = s[i]
        /\ Append(s, e)[Len(s) + 1] = e
    BY LenProperties, AppendProperties
  <1>2. 1..Len(s) + 1 = 1..Len(s) \cup {Len(s) + 1}
    BY <1>1
  <1>3. \A i, j \in 1..Len(s) + 1 : i < j => i \in 1..Len(s) /\ (j \in 1..Len(s) \/ j = Len(s) + 1)
    BY <1>1
  <1>4. \A i \in 1..Len(s) : s[i] \in Entries(s)
    BY DEF Entries
  <1>5. Entries(Append(s, e)) = Entries(s) \cup {e}
    BY <1>1, <1>2 DEF Entries
  <1>6. ASSUME InOrder(s), Ahead(Entries(s), {e}) PROVE InOrder(Append(s, e))
    <2> SUFFICES ASSUME NEW i \in 1..Len(s) + 1, NEW j \in 1..Len(s) + 1, i < j
                 PROVE  Before(Append(s, e)[i].arrived, Append(s, e)[i].token,
                               Append(s, e)[j].arrived, Append(s, e)[j].token)
      BY <1>1 DEF InOrder
    <2>1. i \in 1..Len(s) /\ Append(s, e)[i] = s[i]
      BY <1>1, <1>3
    <2>2. CASE j \in 1..Len(s)
      BY <1>1, <1>6, <2>1, <2>2 DEF InOrder
    <2>3. CASE j = Len(s) + 1
      BY <1>1, <1>4, <1>6, <2>1, <2>3 DEF Ahead
    <2> QED BY <1>3, <2>2, <2>3
  <1>7. ASSUME ParsedInOrder(s), \A m \in Entries(s) : m.parsed <= e.parsed
        PROVE  ParsedInOrder(Append(s, e))
    <2> SUFFICES ASSUME NEW i \in 1..Len(s) + 1, NEW j \in 1..Len(s) + 1, i < j
                 PROVE  Append(s, e)[i].parsed <= Append(s, e)[j].parsed
      BY <1>1 DEF ParsedInOrder
    <2>1. i \in 1..Len(s) /\ Append(s, e)[i] = s[i]
      BY <1>1, <1>3
    <2>2. CASE j \in 1..Len(s)
      BY <1>1, <1>7, <2>1, <2>2 DEF ParsedInOrder
    <2>3. CASE j = Len(s) + 1
      BY <1>1, <1>4, <1>7, <2>1, <2>3
    <2> QED BY <1>3, <2>2, <2>3
  <1> QED BY <1>5, <1>6, <1>7

LEMMA EntriesTail ==
  ASSUME NEW T, NEW s \in Seq(T), s # <<>>
  PROVE  /\ Entries(Tail(s)) \subseteq Entries(s) /\ Head(s) \in Entries(s)
         /\ InOrder(s) => InOrder(Tail(s)) /\ Ahead({Head(s)}, Entries(Tail(s)))
         /\ ParsedInOrder(s) => /\ ParsedInOrder(Tail(s))
                                /\ \A m \in Entries(Tail(s)) : Head(s).parsed <= m.parsed
  <1>1. /\ Len(s) \in Nat \ {0} /\ Head(s) = s[1] /\ Len(Tail(s)) = Len(s) - 1
        /\ \A i \in 1..Len(Tail(s)) : Tail(s)[i] = s[i + 1]
    BY EmptySeq, HeadTailProperties
  <1>2. \A i \in 1..Len(Tail(s)) : i + 1 \in 1..Len(s) /\ 1 < i + 1
    BY <1>1
  <1>3. \A i, j \in 1..Len(Tail(s)) : i < j => i + 1 < j + 1
    BY <1>1
  <1>4. 1 \in 1..Len(s)
    BY <1>1
  <1>5. Entries(Tail(s)) \subseteq Entries(s) /\ Head(s) \in Entries(s)
    BY <1>1, <1>2, <1>4 DEF Entries
  <1>6. ASSUME InOrder(s) PROVE InOrder(Tail(s)) /\ Ahead({Head(s)}, Entries(Tail(s)))
    <2>1. InOrder(Tail(s))
      BY <1>1, <1>2, <1>3, <1>6 DEF InOrder
    <2>2. Ahead({Head(s)}, Entries(Tail(s)))
      BY <1>1, <1>2, <1>4, <1>6 DEF InOrder, Ahead, Entries
    <2> QED BY <2>1, <2>2
  <1>7. ASSUME ParsedInOrder(s)
        PROVE  ParsedInOrder(Tail(s)) /\ \A m \in Entries(Tail(s)) : Head(s).parsed <= m.parsed
    <2>1. ParsedInOrder(Tail(s))
      BY <1>1, <1>2, <1>3, <1>7 DEF ParsedInOrder
    <2>2. \A m \in Entries(Tail(s)) : Head(s).parsed <= m.parsed
      BY <1>1, <1>2, <1>4, <1>7 DEF ParsedInOrder, Entries
    <2> QED BY <2>1, <2>2
  <1> QED BY <1>5, <1>6, <1>7

(* A part of a line is a line.                                             *)
LEMMA LinePart ==
  ASSUME NEW H, NEW V, NEW M, NEW C, NEW F, Line(H, V, M, C, F),
         NEW V2 \in SUBSET V, NEW M2 \in SUBSET M, NEW C2 \in SUBSET C, NEW F2 \in SUBSET F
  PROVE  Line(H, V2, M2, C2, F2)
  BY DEF Line, Ahead, AheadFrames

(* Frames that arrive after all the line joins it at the end.              *)
LEMMA LineTake ==
  ASSUME NEW H, NEW V, NEW M, NEW F, Line(H, V, M, {}, {}), NEW n \in Nat,
         \A x \in H \cup V \cup M : x.arrived < n, \A f \in F : f.at = n
  PROVE  Line(H, V, M, {}, F)
  <1>1. AheadFrames(H, F) /\ AheadFrames(V, F) /\ AheadFrames(M, F) /\ AheadFrames({}, F)
    BY DEF AheadFrames, Before
  <1> QED BY <1>1 DEF Line, Ahead

(* The first frame becomes the current one.                                *)
LEMMA LineParse ==
  ASSUME NEW H, NEW V, NEW M, NEW F, Line(H, V, M, {}, F), NEW f \in F,
         \A g \in F \ {f} : Before(f.at, f.token, g.at, g.token),
         NEW c, c.arrived = f.at, c.token = f.token
  PROVE  Line(H, V, M, {c}, F \ {f})
  <1>1. Ahead(H, {c}) /\ Ahead(V, {c}) /\ Ahead(M, {c})
    BY DEF Line, AheadFrames, Ahead
  <1>2. AheadFrames({c}, F \ {f})
    BY DEF AheadFrames
  <1>3. AheadFrames(H, F \ {f}) /\ AheadFrames(V, F \ {f}) /\ AheadFrames(M, F \ {f})
    BY DEF Line, AheadFrames
  <1> QED BY <1>1, <1>2, <1>3 DEF Line

(* The current frame joins the queue or leaves the line.                   *)
LEMMA LineDecide ==
  ASSUME NEW H, NEW V, NEW M, NEW C, NEW F, Line(H, V, M, C, F), NEW M2 \in SUBSET (M \cup C)
  PROVE  Line(H, V, M2, {}, F)
  BY DEF Line, Ahead, AheadFrames

(* The head m of the queue starts its check v.                             *)
LEMMA LineStart ==
  ASSUME NEW H, NEW V, NEW M, NEW C, NEW F, Line(H, V, M, C, F), NEW m \in M,
         NEW M2 \in SUBSET M, Ahead({m}, M2), NEW v, v.arrived = m.arrived, v.token = m.token
  PROVE  Line(H, V \cup {v}, M2, C, F) /\ Ahead(V, {v})
  <1>1. Ahead(H, {v}) /\ Ahead(V, {v}) /\ Ahead({v}, C) /\ AheadFrames({v}, F)
    BY DEF Line, Ahead, AheadFrames
  <1>2. Ahead({v}, M2)
    BY DEF Ahead
  <1> QED BY <1>1, <1>2 DEF Line, Ahead, AheadFrames

(* The first check v is handed over as h.                                  *)
LEMMA LineDeliver ==
  ASSUME NEW H, NEW V, NEW M, NEW C, NEW F, Line(H, V, M, C, F), NEW v \in V,
         Ahead({v}, V \ {v}), NEW h, h.arrived = v.arrived, h.token = v.token
  PROVE  Line(H \cup {h}, V \ {v}, M, C, F) /\ Ahead(H, {h})
  <1>1. /\ Ahead(H, {h}) /\ Ahead({h}, V \ {v}) /\ Ahead({h}, M) /\ Ahead({h}, C)
        /\ AheadFrames({h}, F)
    BY DEF Line, Ahead, AheadFrames
  <1> QED BY <1>1 DEF Line, Ahead, AheadFrames

(***************************************************************************)
(* Initially, and through each action, the frames keep their order.        *)
(***************************************************************************)

LEMMA InitOrder == Init => OrderInv
  BY DEF Init, OrderInv, HeldOK, TurnOK, LineOK, ParseOK, ChecksOK, ArrivedBy, Entries, InOrder,
         ParsedInOrder, Line, Ahead, AheadFrames, Control, NodeTask

LEMMA OrderTypes ==
  ASSUME FramesInv
  PROVE  /\ Entries(handed) \subseteq HandedType /\ Entries(verifyMeta) \subseteq MetaType
         /\ \A m \in Entries(verifyMeta) \cup current :
              m.arrived \in Nat /\ m.parsed \in Nat /\ m.token \in Tokens
         /\ \A v \in verifying : /\ v.arrived \in Nat /\ v.start \in Nat /\ v.finish \in Nat
                                 /\ v.seq \in Nat /\ v.token \in Tokens
         /\ \A h \in Entries(handed) : h.arrived \in Nat
         /\ \A f \in frames \cup inbox : f.at \in Nat /\ f.token \in Tokens
         /\ now \in Nat /\ verifySeq \in Nat /\ profile \in Profiles /\ ServerTypes
         /\ profile.verify \in Nat /\ profile.parse \in Nat
         /\ profile.verifyOn \in Banks /\ "cpu" \in Banks
         /\ EarliestFree("cpu") \in Nat /\ EarliestFree(profile.verifyOn) \in Nat
         /\ Past \in Int /\ Past <= now
  <1>1. /\ handed \in Seq(HandedType) /\ verifyMeta \in Seq(MetaType) /\ current \subseteq MetaType
        /\ verifying \subseteq CheckType /\ frames \subseteq FrameType /\ inbox \subseteq FrameType
        /\ verifySeq \in Nat /\ profile \in Profiles /\ ServerTypes
    BY DEF FramesInv, NodeTypes, EngineTypes
  <1>2. Entries(handed) \subseteq HandedType /\ Entries(verifyMeta) \subseteq MetaType
    BY <1>1, ElementOfSeq DEF Entries
  <1>3. \A m \in MetaType : m.arrived \in Nat /\ m.parsed \in Nat /\ m.token \in Tokens
    BY DEF MetaType, Times
  <1>4. \A v \in CheckType : /\ v.arrived \in Nat /\ v.start \in Nat /\ v.finish \in Nat
                             /\ v.seq \in Nat /\ v.token \in Tokens
    BY DEF CheckType, Times
  <1>5. \A h \in HandedType : h.arrived \in Nat
    BY DEF HandedType, Times
  <1>6. \A f \in FrameType : f.at \in Nat /\ f.token \in Tokens
    BY DEF FrameType, Times
  <1>7. now \in Nat
    BY NodeReceiveAssumption DEF FramesInv, EngineTypes, Instants
  <1>8. /\ profile.verify \in Nat /\ profile.parse \in Nat
        /\ profile.verifyOn \in Banks /\ "cpu" \in Banks
    BY <1>1, ProfileFacts
  <1>9. EarliestFree("cpu") \in Nat /\ EarliestFree(profile.verifyOn) \in Nat
    BY <1>1, <1>8, FirstFreeFacts
  <1>10. Past \in Int /\ Past <= now
    BY <1>7 DEF Past
  <1> QED BY <1>1, <1>2, <1>3, <1>4, <1>5, <1>6, <1>7, <1>8, <1>9, <1>10

LEMMA SameBusy ==
  ASSUME FramesInv, freeAt' = freeAt
  PROVE  Busier(freeAt')
  <1>1. /\ DOMAIN freeAt = Banks
        /\ \A b \in Banks : freeAt[b] \in [1..profile.servers[b] -> Times]
    BY DEF FramesInv, ServerTypes
  <1>2. \A b \in Banks : \A s \in 1..profile.servers[b] : freeAt[b][s] \in Nat
    BY <1>1 DEF Times
  <1>3. \A x \in Nat : x <= x
    OBVIOUS
  <1>4. \A b \in Banks : \A s \in 1..profile.servers[b] : freeAt[b][s] <= freeAt[b][s]
    BY <1>2, <1>3
  <1> QED BY <1>1, <1>4 DEF Busier

(* A frame that arrives later is parsed later, and later still when the    *)
(* processor has more to do.                                               *)
LEMMA LatestParseFacts ==
  ASSUME FramesInv
  PROVE  /\ \A a \in Nat : LatestParse(a) \in Nat
         /\ \A a, b \in Nat : a <= b => LatestParse(a) <= LatestParse(b)
  <1>1. profile.parse \in Nat /\ EarliestFree("cpu") \in Nat
    BY OrderTypes
  <1> QED BY <1>1 DEF LatestParse, Larger

LEMMA LatestParseGrows ==
  ASSUME FramesInv, profile' = profile, Busier(freeAt')
  PROVE  /\ \A a \in Nat : /\ LatestParse(a) <= LatestParse(a)'
                           /\ LatestParse(a) \in Nat /\ LatestParse(a)' \in Nat
         /\ EarliestFree(profile.verifyOn) <= EarliestFree(profile.verifyOn)'
         /\ EarliestFree(profile.verifyOn)' \in Nat
  <1>1. /\ profile \in Profiles /\ ServerTypes /\ profile.parse \in Nat
        /\ "cpu" \in Banks /\ profile.verifyOn \in Banks
        /\ EarliestFree("cpu") \in Nat /\ EarliestFree(profile.verifyOn) \in Nat
    BY OrderTypes
  <1>2. ServerTypes' /\ \A b \in Banks : EarliestFree(b) <= EarliestFree(b)'
    BY <1>1, BusierFacts
  <1>3. \A b \in Banks : EarliestFree(b)' \in Nat
    BY <1>1, <1>2, FreeThen DEF FreeOK
  <1>4. EarliestFree(profile.verifyOn)' \in Nat /\ EarliestFree(profile.verifyOn) <= EarliestFree(profile.verifyOn)'
    <2>1. \A b \in Banks : b = profile.verifyOn => EarliestFree(profile.verifyOn)' = EarliestFree(b)'
      BY DEF EarliestFree, FirstFree
    <2> QED BY <1>1, <1>2, <1>3, <2>1
  <1>5. EarliestFree("cpu")' \in Nat /\ EarliestFree("cpu") <= EarliestFree("cpu")'
    BY <1>1, <1>2, <1>3
  <1>6. \A a \in Nat : /\ LatestParse(a) <= LatestParse(a)'
                       /\ LatestParse(a) \in Nat /\ LatestParse(a)' \in Nat
    BY <1>1, <1>5 DEF LatestParse, Larger
  <1> QED BY <1>4, <1>6

(* What is held may only have arrived by a later instant.                  *)
LEMMA HeldThen ==
  ASSUME FramesInv, HeldOK, Past <= Past', Past' \in Int,
         \A h \in Entries(handed') : h \in Entries(handed) \/ (h.arrived \in Nat /\ h.arrived <= Past'),
         \A v \in verifying' : v \in verifying \/ (v.arrived \in Nat /\ v.arrived <= Past'),
         \A m \in Entries(verifyMeta') :
            m \in Entries(verifyMeta) \/ (m.arrived \in Nat /\ m.arrived <= Past'),
         \A f \in current' : f.arrived = now', \A f \in frames' : f.at = now'
  PROVE  HeldOK'
  <1>1. /\ \A h \in Entries(handed) : h.arrived \in Nat /\ h.arrived <= Past
        /\ \A v \in verifying : v.arrived \in Nat /\ v.arrived <= Past
        /\ \A m \in Entries(verifyMeta) : m.arrived \in Nat /\ m.arrived <= Past
        /\ Past \in Int
    BY OrderTypes DEF HeldOK, ArrivedBy
  <1>2. /\ \A h \in Entries(handed') : h.arrived <= Past'
        /\ \A v \in verifying' : v.arrived <= Past'
        /\ \A m \in Entries(verifyMeta') : m.arrived <= Past'
    BY <1>1
  <1> QED BY <1>2 DEF HeldOK, ArrivedBy, Entries

LEMMA ParseThen ==
  ASSUME FramesInv, ParseOK, profile' = profile, Busier(freeAt'),
         InOrder(verifyMeta'), ParsedInOrder(verifyMeta'),
         \A m \in Entries(verifyMeta'), f \in current' : m.parsed <= f.parsed,
         \A m \in Entries(verifyMeta') \cup current' :
            m \in Entries(verifyMeta) \cup current
            \/ (m.arrived \in Nat /\ m.parsed \in Nat /\ m.parsed <= LatestParse(m.arrived))
  PROVE  ParseOK'
  <1>1. \A m \in Entries(verifyMeta') \cup current' :
           m.arrived \in Nat /\ m.parsed \in Nat /\ m.parsed <= LatestParse(m.arrived)
    BY OrderTypes DEF ParseOK
  <1>2. \A a \in Nat : /\ LatestParse(a) <= LatestParse(a)'
                       /\ LatestParse(a) \in Nat /\ LatestParse(a)' \in Nat
    BY LatestParseGrows
  <1>3. \A a, x \in Nat : x <= LatestParse(a) => x <= LatestParse(a)'
    BY <1>2
  <1>4. \A m \in Entries(verifyMeta') \cup current' : \E a, x \in Nat :
           m.arrived = a /\ m.parsed = x /\ x <= LatestParse(a)'
    BY <1>1, <1>3
  <1>5. \A m \in Entries(verifyMeta') \cup current' : m.parsed <= (LatestParse(m.arrived))'
    BY <1>4 DEF LatestParse
  <1> QED BY <1>5 DEF ParseOK, InOrder, ParsedInOrder, Entries

(* No check starts: those in progress stay no later than what waits.       *)
LEMMA ChecksThen ==
  ASSUME FramesInv, ChecksOK, profile' = profile, Busier(freeAt'),
         verifySeq' = verifySeq, verifying' \subseteq verifying,
         \A m \in Entries(verifyMeta') \cup current' :
            m \in Entries(verifyMeta) \cup current
            \/ \A v \in verifying : v.start <= LatestParse(v.arrived) => v.start <= m.parsed
  PROVE  ChecksOK'
  <1>1. \A v \in verifying : v.arrived \in Nat /\ v.start \in Nat
    BY OrderTypes
  <1>2. EarliestFree(profile.verifyOn) \in Nat
    BY OrderTypes
  <1>3. /\ \A a \in Nat : /\ LatestParse(a) <= LatestParse(a)'
                          /\ LatestParse(a) \in Nat /\ LatestParse(a)' \in Nat
        /\ EarliestFree(profile.verifyOn) <= EarliestFree(profile.verifyOn)'
        /\ EarliestFree(profile.verifyOn)' \in Nat
    BY LatestParseGrows
  <1>4. ASSUME NEW v \in verifying'
        PROVE  \/ v.start <= EarliestFree(profile.verifyOn)'
               \/ /\ v.start <= LatestParse(v.arrived)'
                  /\ \A m \in Entries(verifyMeta') \cup current' : v.start <= m.parsed
    <2>1. v \in verifying /\ v.arrived \in Nat /\ v.start \in Nat
      BY <1>1, <1>4
    <2>2. CASE v.start <= EarliestFree(profile.verifyOn)
      BY <1>2, <1>3, <2>1, <2>2
    <2>3. CASE /\ v.start <= LatestParse(v.arrived)
               /\ \A m \in Entries(verifyMeta) \cup current : v.start <= m.parsed
      <3>1. \A m \in Entries(verifyMeta') \cup current' : v.start <= m.parsed
        BY <2>1, <2>3
      <3>2. v.start <= LatestParse(v.arrived)'
        <4>1. \A a, x \in Nat : x <= LatestParse(a) => x <= LatestParse(a)'
          BY <1>3
        <4> QED BY <2>1, <2>3, <4>1
      <3> QED BY <3>1, <3>2
    <2> QED BY <2>1, <2>2, <2>3 DEF ChecksOK
  <1>5. \A v \in verifying' : v.seq < verifySeq' /\ v.finish = v.start + profile'.verify
    BY DEF ChecksOK
  <1>6. \A v, w \in verifying' :
       /\ v.seq < w.seq => Ahead({v}, {w}) /\ v.start <= w.start
       /\ v.seq = w.seq => v = w
    BY DEF ChecksOK
  <1> QED BY <1>4, <1>5, <1>6 DEF ChecksOK, Ahead, Entries

(* The line is as it was.                                                  *)
LineSame ==
  /\ handed' = handed /\ verifying' = verifying /\ verifyMeta' = verifyMeta
  /\ current' = current /\ frames' = frames /\ verifySeq' = verifySeq /\ profile' = profile

LEMMA SameOrder ==
  ASSUME FramesInv, OrderInv, LineSame, Busier(freeAt'), Past <= Past', Past' \in Int, TurnOK',
         now' = now \/ (frames = {} /\ current = {})
  PROVE  OrderInv'
  <1>1. HeldOK'
    BY HeldThen DEF OrderInv, HeldOK, LineSame
  <1>2. LineOK' /\ InOrder(handed)'
    BY DEF OrderInv, LineOK, LineSame, Line, Ahead, AheadFrames, Entries, InOrder
  <1>3. ParseOK'
    BY ParseThen DEF OrderInv, ParseOK, LineSame
  <1>4. ChecksOK'
    BY ChecksThen DEF OrderInv, LineSame
  <1> QED BY <1>1, <1>2, <1>3, <1>4 DEF OrderInv

LEMMA QuietOrder ==
  ASSUME FramesInv, WakesOK, OrderInv,
         \/ Outage \/ Tick \/ EndRun \/ NoMoreFrames \/ NoneCanStart \/ NoneFinished
         \/ ScheduleWake \/ \E delay \in 0..MaxDelay : DecodeFrame(delay)
  PROVE  OrderInv'
  <1>1. LineSame /\ freeAt' = freeAt
    BY DEF LineSame, Outage, Tick, EndRun, NoMoreFrames, NoneCanStart, NoneFinished, ScheduleWake,
           DecodeFrame, Dispatch, engineVars, serverVars
  <1>2. Busier(freeAt')
    BY <1>1, SameBusy
  <1>3. now \in Nat /\ stage \in 0..3
    BY OrderTypes DEF FramesInv, EngineTypes, Control, NodeTask
  <1>4. CASE Outage \/ \E delay \in 0..MaxDelay : DecodeFrame(delay)
    <2>1. now' = now /\ pc' = "idle" /\ pc = "idle" /\ stage # NodeTask /\ stage' # NodeTask
      BY <1>3, <1>4 DEF Outage, DecodeFrame, Dispatch, Control, PhyEnd, NodeTask
    <2>2. TurnOK' /\ Past' = Past /\ Past \in Int
      BY <1>3, <2>1 DEF TurnOK, Past
    <2> QED BY <1>1, <1>2, <2>1, <2>2, SameOrder
  <1>5. CASE Tick
    <2>1. now' = now + 1 /\ pc' = "idle" /\ pc = "idle" /\ stage' # NodeTask
      BY <1>5 DEF Tick, Control, NodeTask
    <2>2. frames = {} /\ current = {}
      BY <2>1 DEF FramesInv, HandlerOK
    <2>3. TurnOK' /\ Past' = now /\ Past <= now
      BY <1>3, <2>1 DEF TurnOK, Past
    <2> QED BY <1>1, <1>2, <1>3, <2>2, <2>3, SameOrder
  <1>6. CASE EndRun
    <2>1. now' = now /\ pc' = "ended" /\ pc = "idle"
      BY <1>6 DEF EndRun, engineVars
    <2>2. TurnOK' /\ Past' = now /\ Past <= now
      BY <1>3, <2>1 DEF TurnOK, Past
    <2> QED BY <1>1, <1>2, <1>3, <2>1, <2>2, SameOrder
  <1>7. CASE NoMoreFrames \/ NoneCanStart \/ NoneFinished
    <2>1. now' = now /\ pc' \notin {"idle", "ended"} /\ pc \notin {"idle", "ended"} /\ stage' = stage
      BY <1>7 DEF NoMoreFrames, NoneCanStart, NoneFinished, engineVars
    <2>2. TurnOK' /\ Past' = now /\ Past = now
      BY <2>1 DEF TurnOK, Past, OrderInv
    <2> QED BY <1>1, <1>2, <1>3, <2>1, <2>2, SameOrder
  <1>8. CASE ScheduleWake
    <2>1. now' = now /\ pc' = "idle" /\ pc = "schedule" /\ stage' = stage /\ inbox' = inbox
      BY <1>8 DEF ScheduleWake
    <2>2. TurnOK' /\ Past' = now /\ Past = now
      BY <2>1 DEF TurnOK, Past, OrderInv, WakesOK
    <2> QED BY <1>1, <1>2, <1>3, <2>1, <2>2, SameOrder
  <1> QED BY <1>4, <1>5, <1>6, <1>7, <1>8

LEMMA GenerateOrder ==
  ASSUME FramesInv, OrderInv, Generate
  PROVE  OrderInv'
  <1>1. /\ LineSame /\ now' = now /\ stage' = stage
        /\ pc' \in {"generate", "schedule"} /\ pc = "generate"
    BY DEF Generate, LineSame, engineVars
  <1>2. now \in Nat
    BY OrderTypes
  <1>3. Busier(freeAt')
    <2>1. CASE freeAt' = freeAt
      BY <2>1, SameBusy
    <2>2. CASE freeAt' = Charged(profile.signOn, now, profile.sign)
      <3>1. profile \in Profiles /\ ServerTypes /\ profile.signOn \in Banks /\ profile.sign \in Nat
        BY OrderTypes, ProfileFacts
      <3> QED BY <1>2, <2>2, <3>1, ChargedFacts
    <2> QED BY <2>1, <2>2 DEF Generate
  <1>4. TurnOK' /\ Past' = now /\ Past = now
    BY <1>1 DEF TurnOK, Past, OrderInv
  <1> QED BY <1>1, <1>2, <1>3, <1>4, SameOrder

LEMMA DespawnOrder ==
  ASSUME FramesInv, OrderInv, Despawn
  PROVE  OrderInv'
  <1>1. /\ handed' = handed /\ verifying' = {} /\ verifyMeta' = <<>> /\ current' = current
        /\ frames' = frames /\ verifySeq' = verifySeq /\ profile' = profile /\ freeAt' = freeAt
        /\ now' = now /\ pc' = "idle" /\ pc = "idle" /\ stage' = MobilityStep
        /\ stage <= MobilityStep
    BY DEF Despawn, Dispatch
  <1>2. now \in Nat /\ stage \in 0..3 /\ frames = {} /\ current = {}
    BY <1>1, OrderTypes DEF FramesInv, EngineTypes, Control, NodeTask, HandlerOK
  <1>3. TurnOK' /\ Past' = now - 1 /\ Past = now - 1
    BY <1>1, <1>2 DEF TurnOK, Past, MobilityStep, NodeTask
  <1>4. Entries(verifyMeta') = {} /\ InOrder(verifyMeta') /\ ParsedInOrder(verifyMeta')
    BY <1>1 DEF Entries, InOrder, ParsedInOrder
  <1>5. HeldOK'
    <2>1. HeldOK /\ Past' \in Int /\ Past <= Past'
      BY <1>2, <1>3 DEF OrderInv
    <2> QED BY <1>1, <1>2, <1>4, <2>1, HeldThen
  <1>6. LineOK'
    <2>1. Line(Entries(handed'), verifying', Entries(verifyMeta'), current', frames')
      BY <1>1, <1>4, LinePart DEF OrderInv, LineOK
    <2> QED BY <2>1 DEF LineOK, Line, Ahead, AheadFrames, Entries
  <1>7. InOrder(handed)'
    BY <1>1 DEF OrderInv, InOrder
  <1>8. ParseOK'
    BY <1>1, <1>2, <1>4, SameBusy, ParseThen DEF OrderInv
  <1>9. ChecksOK'
    BY <1>1, <1>2, <1>4, SameBusy, ChecksThen DEF OrderInv
  <1> QED BY <1>3, <1>5, <1>6, <1>7, <1>8, <1>9 DEF OrderInv

(* The frames taken at this instant arrived after all that is held: if the *)
(* node has had its turn, there are none.                                  *)
LEMMA TakeInboxOrder ==
  ASSUME FramesInv, WakesOK, OrderInv, pc = "idle", NEW wake, TakeInbox(wake),
         stage' = NodeTask, profile' = profile, now' = now, current' = current,
         verifyMeta' = verifyMeta, verifySeq' = verifySeq, handed' = handed, freeAt' = freeAt
  PROVE  OrderInv'
  <1>1. /\ frames' \subseteq inbox /\ \A f \in frames' : f.at <= now
        /\ verifying' \subseteq verifying /\ pc' \in {"frame", "schedule"}
    BY DEF TakeInbox, SwitchedOff
  <1>2. /\ now \in Nat /\ frames = {} /\ current = {}
        /\ \A f \in inbox : f.at \in Nat /\ f.at >= now
    BY OrderTypes DEF FramesInv, HandlerOK, WakesOK, Covered
  <1>3. \A f \in frames' : f.at = now
    BY <1>1, <1>2
  <1>4. TurnOK' /\ Past' = now /\ Past <= now
    BY <1>1, <1>2 DEF TurnOK, Past
  <1>5. HeldOK'
    <2>1. HeldOK /\ Past' \in Int /\ Past <= Past'
      BY <1>2, <1>4 DEF OrderInv
    <2> QED BY <1>1, <1>2, <1>3, <2>1, HeldThen
  <1>6. LineOK'
    <2> DEFINE H == Entries(handed)
               M == Entries(verifyMeta)
    <2>1. Line(H, verifying', M, {}, {})
      BY <1>1, <1>2, LinePart DEF OrderInv, LineOK
    <2>2. CASE frames' = {}
      BY <1>2, <2>1, <2>2 DEF LineOK, Line, Ahead, AheadFrames, Entries
    <2>3. CASE frames' # {}
      <3>1. stage # NodeTask
        BY <1>1, <1>2, <2>3 DEF OrderInv, TurnOK
      <3>2. \A x \in H \cup verifying \cup M : x.arrived \in Nat /\ x.arrived <= Past
        BY OrderTypes DEF OrderInv, HeldOK, ArrivedBy
      <3>3. Past = now - 1
        BY <3>1 DEF Past
      <3>4. \A x \in H \cup verifying' \cup M : x.arrived < now
        BY <1>1, <1>2, <3>2, <3>3
      <3>5. Line(H, verifying', M, {}, frames')
        BY <1>2, <1>3, <2>1, <3>4, LineTake
      <3> QED BY <1>2, <3>5 DEF LineOK, Line, Ahead, AheadFrames, Entries
    <2> QED BY <2>2, <2>3
  <1>7. InOrder(handed)'
    BY DEF OrderInv, InOrder
  <1>8. ParseOK'
    BY <1>2, SameBusy, ParseThen DEF OrderInv, ParseOK
  <1>9. ChecksOK'
    BY <1>1, SameBusy, ChecksThen DEF OrderInv
  <1> QED BY <1>4, <1>5, <1>6, <1>7, <1>8, <1>9 DEF OrderInv

LEMMA TurnOrder ==
  ASSUME FramesInv, WakesOK, OrderInv, PeriodicStep \/ Wake
  PROVE  OrderInv'
  <1>1. /\ profile' = profile /\ now' = now /\ node' = node /\ current' = current
        /\ verifyMeta' = verifyMeta /\ verifySeq' = verifySeq /\ freeAt' = freeAt
        /\ handed' = handed /\ pc = "idle" /\ stage' = NodeTask
    BY DEF PeriodicStep, Wake, Dispatch
  <1>2. CASE \E wake \in BOOLEAN : TakeInbox(wake)
    BY <1>1, <1>2, TakeInboxOrder
  <1>3. CASE node = "gone" /\ UNCHANGED <<isWake, inbox, until, pending, fate, verifying, frames, pc>>
    <2>1. LineSame /\ inbox' = {}
      BY <1>1, <1>3 DEF LineSame, FramesInv, HandlerOK
    <2>2. now \in Nat
      BY OrderTypes
    <2>3. TurnOK' /\ Past' = now /\ Past <= now
      BY <1>1, <1>3, <2>1, <2>2 DEF TurnOK, Past
    <2> QED BY <1>1, <2>1, <2>2, <2>3, SameBusy, SameOrder
  <1> QED BY <1>2, <1>3 DEF PeriodicStep, Wake

(* The steps of a handler come while its instant lasts.                    *)
LEMMA HandlerTurn ==
  ASSUME OrderInv, pc \notin {"idle", "ended"}, pc' \notin {"idle", "ended"},
         now' = now, stage' = stage
  PROVE  TurnOK' /\ Past' = now /\ Past = now
  BY DEF OrderInv, TurnOK, Past

LEMMA LineThen ==
  ASSUME Line(Entries(handed'), verifying', Entries(verifyMeta'), current', frames')
  PROVE  LineOK'
  BY DEF LineOK, Line, Ahead, AheadFrames, Entries

(* The first frame is parsed after all that wait for their check, and the  *)
(* checks in progress started before its parse ends.                       *)
LEMMA ParseFrameOrder ==
  ASSUME FramesInv, OrderInv, ParseFrame
  PROVE  OrderInv'
  <1>1. /\ profile' = profile /\ now' = now /\ stage' = stage /\ verifyMeta' = verifyMeta
        /\ verifying' = verifying /\ verifySeq' = verifySeq /\ handed' = handed
        /\ pc = "frame" /\ pc' \in {"frame", "advance"}
    BY DEF ParseFrame, engineVars
  <1>2. PICK f \in frames :
       /\ IsNext(f)
       /\ frames' = frames \ {f}
       /\ \/ /\ profile.parse = NoCost /\ freeAt' = freeAt
             /\ current' = {[token |-> f.token, arrived |-> f.at, parsed |-> f.at]}
          \/ current' = current /\ freeAt' = freeAt
          \/ /\ profile.parse # NoCost /\ freeAt' = Charged("cpu", f.at, profile.parse)
             /\ current' = {[token |-> f.token, arrived |-> f.at,
                             parsed |-> StartOf("cpu", f.at) + profile.parse]}
    BY DEF ParseFrame
  <1>3. TurnOK' /\ Past' = now /\ Past = now
    BY <1>1, HandlerTurn
  <1>4. /\ now \in Nat /\ f.at = now /\ f.token \in Tokens /\ current = {}
        /\ \A g \in frames : g.at = now /\ g.token \in Nat
    BY <1>1, OrderTypes DEF FramesInv, HandlerOK, OrderInv, HeldOK, Tokens
  <1>5. Busier(freeAt')
    <2>1. CASE freeAt' = freeAt
      BY <2>1, SameBusy
    <2>2. CASE freeAt' = Charged("cpu", f.at, profile.parse)
      <3>1. profile \in Profiles /\ ServerTypes /\ "cpu" \in Banks /\ profile.parse \in Nat
        BY OrderTypes
      <3> QED BY <1>4, <2>2, <3>1, ChargedFacts
    <2> QED BY <1>2, <2>1, <2>2
  <1>6. \A g \in frames \ {f} : Before(f.at, f.token, g.at, g.token)
    <2>1. \A g \in frames \ {f} : g.token # f.token
      BY <1>1, SharedNow DEF Sole
    <2> QED BY <1>2, <1>4, <2>1 DEF IsNext, Before
  <1>7. InOrder(handed)' /\ InOrder(verifyMeta') /\ ParsedInOrder(verifyMeta')
    BY <1>1 DEF OrderInv, InOrder, ParseOK, ParsedInOrder
  <1>8. /\ Line(Entries(handed), verifying, Entries(verifyMeta), {}, frames)
        /\ HeldOK /\ ParseOK /\ ChecksOK
    BY <1>4 DEF OrderInv, LineOK
  <1>9. ASSUME NEW c, current' = {c}, c.arrived = f.at, c.token = f.token,
               c.parsed = LatestParse(f.at)
        PROVE  OrderInv'
    <2>1. LineOK'
      <3>1. Line(Entries(handed), verifying, Entries(verifyMeta), {c}, frames \ {f})
        BY <1>6, <1>8, <1>9, LineParse
      <3> QED BY <1>1, <1>2, <1>9, <3>1, LineThen
    <2>2. HeldOK'
      BY <1>1, <1>2, <1>3, <1>4, <1>8, <1>9, HeldThen
    <2>3. /\ \A m \in Entries(verifyMeta) : m.arrived \in Nat /\ m.parsed \in Nat /\ m.arrived <= now
          /\ \A v \in verifying : v.arrived \in Nat /\ v.start \in Nat /\ v.arrived <= now
      BY <1>3, <1>8, OrderTypes DEF HeldOK, ArrivedBy
    <2>4. /\ \A a \in Nat : a <= now => LatestParse(a) \in Nat /\ LatestParse(a) <= c.parsed
          /\ c.parsed \in Nat
      BY <1>4, <1>9, LatestParseFacts
    <2>5. \A m \in Entries(verifyMeta) : m.parsed <= c.parsed
      <3>1. \A m \in Entries(verifyMeta) : m.parsed <= LatestParse(m.arrived)
        BY <1>8 DEF ParseOK
      <3> QED BY <2>3, <2>4, <3>1
    <2>6. \A v \in verifying : v.start <= LatestParse(v.arrived) => v.start <= c.parsed
      BY <2>3, <2>4
    <2>7. c.parsed <= LatestParse(c.arrived) /\ c.arrived \in Nat
      BY <1>4, <1>9, <2>4
    <2>8. ParseOK'
      BY <1>1, <1>5, <1>7, <1>8, <1>9, <2>4, <2>5, <2>7, ParseThen
    <2>9. ChecksOK'
      BY <1>1, <1>5, <1>8, <1>9, <2>6, ChecksThen
    <2> QED BY <1>3, <1>7, <2>1, <2>2, <2>8, <2>9 DEF OrderInv
  <1>10. CASE /\ profile.parse = NoCost /\ freeAt' = freeAt
              /\ current' = {[token |-> f.token, arrived |-> f.at, parsed |-> f.at]}
    <2>1. LatestParse(f.at) = f.at
      BY <1>10 DEF LatestParse
    <2> QED BY <1>9, <1>10, <2>1
  <1>11. CASE current' = current /\ freeAt' = freeAt
    <2>1. LineOK'
      <3>1. Line(Entries(handed), verifying, Entries(verifyMeta), {}, frames \ {f})
        BY <1>8, LinePart
      <3> QED BY <1>1, <1>2, <1>4, <1>11, <3>1, LineThen
    <2>2. HeldOK'
      BY <1>1, <1>2, <1>3, <1>4, <1>8, <1>11, HeldThen
    <2>3. ParseOK'
      BY <1>1, <1>4, <1>5, <1>7, <1>8, <1>11, ParseThen
    <2>4. ChecksOK'
      BY <1>1, <1>5, <1>8, <1>11, ChecksThen
    <2> QED BY <1>3, <1>7, <2>1, <2>2, <2>3, <2>4 DEF OrderInv
  <1>12. CASE /\ profile.parse # NoCost /\ freeAt' = Charged("cpu", f.at, profile.parse)
              /\ current' = {[token |-> f.token, arrived |-> f.at,
                              parsed |-> StartOf("cpu", f.at) + profile.parse]}
    <2>1. LatestParse(f.at) = StartOf("cpu", f.at) + profile.parse
      BY <1>12 DEF LatestParse, StartOf
    <2> QED BY <1>9, <1>12, <2>1
  <1> QED BY <1>2, <1>10, <1>11, <1>12

(* The check that starts next comes last in the line of checks.            *)
LEMMA StartCheckOrder ==
  ASSUME FramesInv, OrderInv, StartCheck
  PROVE  OrderInv'
  <1> DEFINE b == profile.verifyOn
             m == Head(verifyMeta)
             start == StartOf(b, Head(queue).enqueuedAt)
             v == [token |-> m.token, arrived |-> m.arrived, start |-> start,
                   finish |-> start + profile.verify, seq |-> verifySeq]
  <1>1. /\ profile' = profile /\ now' = now /\ stage' = stage /\ handed' = handed
        /\ frames' = frames /\ current' = current /\ pc' = pc /\ pc = "advance"
        /\ queue # <<>> /\ verifyMeta' = Tail(verifyMeta) /\ verifySeq' = verifySeq + 1
        /\ verifying' = verifying \cup {v}
        /\ freeAt' = Charged(b, Head(queue).enqueuedAt, profile.verify)
    BY DEF StartCheck, CanStart, engineVars
  <1>2. /\ verifyMeta # <<>> /\ verifyMeta \in Seq(MetaType) /\ m.parsed = Head(queue).enqueuedAt
    BY <1>1, HeadFacts DEF FramesInv, NodeTypes
  <1>3. /\ profile \in Profiles /\ ServerTypes /\ b \in Banks /\ profile.verify \in Nat
        /\ now \in Nat /\ verifySeq \in Nat
    BY OrderTypes
  <1>4. /\ Entries(Tail(verifyMeta)) \subseteq Entries(verifyMeta) /\ m \in Entries(verifyMeta)
        /\ InOrder(Tail(verifyMeta)) /\ Ahead({m}, Entries(Tail(verifyMeta)))
        /\ ParsedInOrder(Tail(verifyMeta))
        /\ \A x \in Entries(Tail(verifyMeta)) : m.parsed <= x.parsed
    BY <1>2, EntriesTail DEF OrderInv, ParseOK
  <1>5. m.arrived \in Nat /\ m.parsed \in Nat /\ m.arrived <= now /\ m.parsed <= LatestParse(m.arrived)
        /\ \A f \in current : m.parsed <= f.parsed
    <2>1. m.arrived <= Past /\ Past = now
      BY <1>1, <1>4 DEF OrderInv, HeldOK, ArrivedBy, Past
    <2> QED BY <1>4, <2>1, OrderTypes DEF OrderInv, ParseOK
  <1>6. /\ start \in Nat /\ start \in {m.parsed, EarliestFree(b)}
        /\ m.parsed <= start /\ EarliestFree(b) <= start /\ EarliestFree(b) \in Nat
    BY <1>2, <1>3, <1>5, StartFacts
  <1>7. Busier(freeAt')
    BY <1>1, <1>2, <1>3, <1>5, ChargedFacts
  <1>8. TurnOK' /\ Past' = now /\ Past = now
    BY <1>1, HandlerTurn
  <1>9. /\ v.token = m.token /\ v.arrived = m.arrived /\ v.start = start
        /\ v.finish = start + profile.verify /\ v.seq = verifySeq
    OBVIOUS
  <1> HIDE DEF v, m, start, b
  <1>10. LineOK' /\ Ahead(verifying, {v})
    <2>1. /\ Line(Entries(handed), verifying \cup {v}, Entries(Tail(verifyMeta)), current, frames)
          /\ Ahead(verifying, {v})
      BY <1>4, <1>9, LineStart DEF OrderInv, LineOK
    <2> QED BY <1>1, <2>1, LineThen
  <1>11. HeldOK' /\ InOrder(handed)'
    <2>1. HeldOK'
      BY <1>1, <1>3, <1>4, <1>5, <1>8, <1>9, HeldThen DEF OrderInv, HeldOK
    <2> QED BY <1>1, <2>1 DEF OrderInv, InOrder
  <1>12. ParseOK'
    BY <1>1, <1>4, <1>7, ParseThen DEF OrderInv, ParseOK
  <1>13. ChecksOK'
    <2>1. \A w \in verifying : /\ w.seq \in Nat /\ w.seq < verifySeq /\ w.start \in Nat
                               /\ w.arrived \in Nat /\ w.finish = w.start + profile.verify
      BY OrderTypes DEF OrderInv, ChecksOK
    <2>2. \A w \in verifying : w.start <= start
      <3>1. \A w \in verifying : w.start <= EarliestFree(b) \/ w.start <= m.parsed
        BY <1>4 DEF OrderInv, ChecksOK, b
      <3> QED BY <1>5, <1>6, <2>1, <3>1
    <2>3. /\ \A a \in Nat : /\ LatestParse(a) <= LatestParse(a)'
                            /\ LatestParse(a) \in Nat /\ LatestParse(a)' \in Nat
          /\ EarliestFree(profile.verifyOn) <= EarliestFree(profile.verifyOn)'
          /\ EarliestFree(profile.verifyOn)' \in Nat
      BY <1>1, <1>7, LatestParseGrows
    <2>4. \A a, x \in Nat : x <= LatestParse(a) => x <= LatestParse(a)'
      BY <2>3
    <2>5. EarliestFree(profile.verifyOn) \in Nat
      BY OrderTypes
    <2>6. \A x \in Nat : x <= EarliestFree(profile.verifyOn) => x <= EarliestFree(profile.verifyOn)'
      BY <2>3, <2>5
    <2>7. ASSUME NEW w \in verifying'
          PROVE  \/ w.start <= EarliestFree(profile.verifyOn)'
                 \/ /\ w.start <= LatestParse(w.arrived)'
                    /\ \A x \in Entries(verifyMeta') \cup current' : w.start <= x.parsed
      <3>1. CASE w \in verifying
        <4>1. CASE w.start <= EarliestFree(profile.verifyOn)
          BY <2>1, <2>6, <3>1, <4>1
        <4>2. CASE /\ w.start <= LatestParse(w.arrived)
                   /\ \A x \in Entries(verifyMeta) \cup current : w.start <= x.parsed
          <5>1. w.start <= LatestParse(w.arrived)'
            BY <2>1, <2>4, <3>1, <4>2
          <5> QED BY <1>1, <1>4, <4>2, <5>1
        <4> QED BY <3>1, <4>1, <4>2 DEF OrderInv, ChecksOK
      <3>2. CASE w = v /\ start = EarliestFree(b)
        <4>1. EarliestFree(b) <= EarliestFree(profile.verifyOn)'
          BY <2>3 DEF b
        <4> QED BY <1>9, <3>2, <4>1
      <3>3. CASE w = v /\ start = m.parsed
        <4>1. w.start <= LatestParse(w.arrived)'
          <5>1. w.start = m.parsed /\ w.arrived = m.arrived
            BY <1>9, <3>3
          <5>2. \A a \in Nat : a = m.arrived => m.parsed <= LatestParse(a)'
            BY <1>5, <2>4
          <5> QED BY <1>5, <5>1, <5>2
        <4> QED BY <1>1, <1>4, <1>5, <1>9, <3>3, <4>1
      <3> QED BY <1>1, <1>6, <3>1, <3>2, <3>3
    <2>8. \A w \in verifying' : w.seq < verifySeq' /\ w.finish = w.start + profile'.verify
      BY <1>1, <1>3, <1>9, <2>1
    <2>9. \A x, w \in verifying' :
       /\ x.seq < w.seq => Ahead({x}, {w}) /\ x.start <= w.start
       /\ x.seq = w.seq => x = w
      <3>1. \A x, w \in verifying :
              /\ x.seq < w.seq => Ahead({x}, {w}) /\ x.start <= w.start
              /\ x.seq = w.seq => x = w
        BY DEF OrderInv, ChecksOK
      <3>2. \A x \in verifying : /\ Ahead({x}, {v}) /\ x.start <= v.start
                                 /\ x.seq < v.seq /\ x.seq # v.seq /\ ~(v.seq < x.seq)
        BY <1>3, <1>9, <1>10, <2>1, <2>2 DEF Ahead
      <3>3. ~(v.seq < v.seq)
        BY <1>3, <1>9
      <3> QED BY <1>1, <3>1, <3>2, <3>3
    <2> QED BY <2>7, <2>8, <2>9 DEF ChecksOK, Ahead, Entries
  <1> QED BY <1>8, <1>10, <1>11, <1>12, <1>13 DEF OrderInv

(* The check handed over is the first of the line.                         *)
LEMMA DeliverVerifiedOrder ==
  ASSUME FramesInv, OrderInv, DeliverVerified
  PROVE  OrderInv'
  <1>1. /\ profile' = profile /\ now' = now /\ stage' = stage /\ pc' = pc /\ frames' = frames
        /\ current' = current /\ verifyMeta' = verifyMeta /\ verifySeq' = verifySeq
        /\ freeAt' = freeAt /\ pc = "complete"
    BY DEF DeliverVerified, engineVars
  <1>2. PICK v \in verifying :
          /\ FirstFinished(v) /\ verifying' = verifying \ {v}
          /\ handed' = Append(handed, [token |-> v.token, arrived |-> v.arrived,
                                       start |-> v.start, done |-> v.finish, at |-> now])
    BY DEF DeliverVerified
  <1> DEFINE h == [token |-> v.token, arrived |-> v.arrived,
                   start |-> v.start, done |-> v.finish, at |-> now]
  <1>3. h \in HandedType /\ h.token = v.token /\ h.arrived = v.arrived /\ handed \in Seq(HandedType)
    BY OrderTypes DEF HandedType, Times, FramesInv, NodeTypes
  <1>4. handed' = Append(handed, h)
    BY <1>2
  <1> HIDE DEF h
  <1>5. TurnOK' /\ Past' = now /\ Past = now /\ now \in Nat
    BY <1>1, HandlerTurn, OrderTypes
  <1>6. Ahead({v}, verifying \ {v})
    <2>1. \A w \in verifying : /\ w.seq \in Nat /\ w.start \in Nat /\ w.finish = w.start + profile.verify
                               /\ profile.verify \in Nat
      BY OrderTypes DEF OrderInv, ChecksOK
    <2>2. \A w \in verifying : v.finish < w.finish \/ (v.finish = w.finish /\ v.seq <= w.seq)
      BY <1>2 DEF FirstFinished
    <2>3. \A w \in verifying : w.seq < v.seq => w.start <= v.start
      BY <1>2 DEF OrderInv, ChecksOK
    <2>4. \A w \in verifying : w.seq = v.seq => w = v
      BY <1>2 DEF OrderInv, ChecksOK
    <2>5. \A w \in verifying \ {v} : v.seq < w.seq
      BY <2>1, <2>2, <2>3, <2>4
    <2>6. \A w \in verifying \ {v} : Ahead({v}, {w})
      BY <1>2, <2>5 DEF OrderInv, ChecksOK
    <2> QED BY <2>6 DEF Ahead
  <1>7. /\ Line(Entries(handed) \cup {h}, verifying \ {v}, Entries(verifyMeta), current, frames)
        /\ Ahead(Entries(handed), {h})
    BY <1>2, <1>3, <1>6, LineDeliver DEF OrderInv, LineOK
  <1>8. Entries(handed') = Entries(handed) \cup {h} /\ InOrder(handed')
    BY <1>3, <1>4, <1>7, EntriesAppend DEF OrderInv
  <1>9. LineOK' /\ InOrder(handed)'
    <2>1. LineOK'
      BY <1>1, <1>2, <1>7, <1>8, LineThen
    <2> QED BY <1>8, <2>1 DEF InOrder
  <1>10. HeldOK'
    <2>1. h.arrived \in Nat /\ h.arrived <= now
      BY <1>3, <1>5, OrderTypes DEF OrderInv, HeldOK, ArrivedBy
    <2> QED BY <1>1, <1>2, <1>5, <1>8, <2>1, HeldThen DEF OrderInv, HeldOK
  <1>11. ParseOK'
    BY <1>1, SameBusy, ParseThen DEF OrderInv, ParseOK
  <1>12. ChecksOK'
    BY <1>1, <1>2, SameBusy, ChecksThen DEF OrderInv
  <1> QED BY <1>5, <1>9, <1>10, <1>11, <1>12 DEF OrderInv

(* The current frame joins the queue as its last, or leaves the line.      *)
LEMMA DecideOrder ==
  ASSUME FramesInv, OrderInv, Decide
  PROVE  OrderInv'
  <1>1. /\ profile' = profile /\ now' = now /\ stage' = stage /\ pc' = "frame" /\ frames' = frames
        /\ current' = {} /\ verifying' = verifying /\ verifySeq' = verifySeq
        /\ freeAt' = freeAt /\ handed' = handed /\ pc = "decide"
    BY DEF Decide, engineVars
  <1>2. PICK f \in current : verifyMeta' = verifyMeta \/ verifyMeta' = QueuePush(verifyMeta, f)
    BY DEF Decide, EnqueueFrame
  <1>3. /\ f \in MetaType /\ verifyMeta \in Seq(MetaType)
        /\ InOrder(verifyMeta) /\ ParsedInOrder(verifyMeta)
        /\ Ahead(Entries(verifyMeta), {f})
        /\ \A m \in Entries(verifyMeta) : m.parsed <= f.parsed
    BY <1>2 DEF FramesInv, NodeTypes, OrderInv, ParseOK, LineOK, Line, Ahead
  <1>4. ASSUME NEW s \in Seq(MetaType), InOrder(s), ParsedInOrder(s),
               Entries(s) \subseteq Entries(verifyMeta), verifyMeta' = Append(s, f)
        PROVE  /\ InOrder(verifyMeta') /\ ParsedInOrder(verifyMeta')
               /\ Entries(verifyMeta') \subseteq Entries(verifyMeta) \cup current
    <2>1. Ahead(Entries(s), {f}) /\ \A m \in Entries(s) : m.parsed <= f.parsed
      BY <1>3, <1>4 DEF Ahead
    <2>2. /\ Entries(Append(s, f)) = Entries(s) \cup {f}
          /\ InOrder(s) /\ Ahead(Entries(s), {f}) => InOrder(Append(s, f))
          /\ ParsedInOrder(s) /\ (\A m \in Entries(s) : m.parsed <= f.parsed)
               => ParsedInOrder(Append(s, f))
      BY <1>3, <1>4, EntriesAppend
    <2>3. InOrder(Append(s, f)) /\ ParsedInOrder(Append(s, f))
      BY <1>4, <2>1, <2>2
    <2> QED BY <1>4, <2>2, <2>3
  <1>5. /\ InOrder(verifyMeta') /\ ParsedInOrder(verifyMeta')
        /\ Entries(verifyMeta') \subseteq Entries(verifyMeta) \cup current
    <2>1. CASE verifyMeta' = verifyMeta
      BY <1>3, <2>1
    <2>2. CASE verifyMeta' = Append(verifyMeta, f)
      BY <1>3, <1>4, <2>2
    <2>3. CASE verifyMeta # <<>> /\ verifyMeta' = Append(Tail(verifyMeta), f)
      <3>1. Tail(verifyMeta) \in Seq(MetaType)
        BY <1>3, <2>3, HeadTailProperties
      <3>2. /\ InOrder(Tail(verifyMeta)) /\ ParsedInOrder(Tail(verifyMeta))
            /\ Entries(Tail(verifyMeta)) \subseteq Entries(verifyMeta)
        BY <1>3, <2>3, EntriesTail
      <3> QED BY <1>4, <2>3, <3>1, <3>2
    <2> QED BY <1>2, <2>1, <2>2, <2>3 DEF QueuePush
  <1>6. TurnOK' /\ Past' = now /\ Past = now /\ now \in Nat
    BY <1>1, HandlerTurn, OrderTypes
  <1>7. LineOK' /\ InOrder(handed)'
    <2>1. Line(Entries(handed), verifying, Entries(verifyMeta'), {}, frames)
      BY <1>5, LineDecide DEF OrderInv, LineOK
    <2>2. LineOK'
      BY <1>1, <2>1, LineThen
    <2> QED BY <1>1, <2>2 DEF OrderInv, InOrder
  <1>8. HeldOK'
    <2>1. \A m \in current : m.arrived \in Nat /\ m.arrived <= now
      BY <1>6, OrderTypes DEF OrderInv, HeldOK
    <2> QED BY <1>1, <1>5, <1>6, <2>1, HeldThen DEF OrderInv, HeldOK
  <1>9. ParseOK'
    BY <1>1, <1>5, SameBusy, ParseThen DEF OrderInv
  <1>10. ChecksOK'
    BY <1>1, <1>5, SameBusy, ChecksThen DEF OrderInv
  <1> QED BY <1>6, <1>7, <1>8, <1>9, <1>10 DEF OrderInv

(***************************************************************************)
(* The inductive invariant.                                                *)
(***************************************************************************)
SignedOK == signed \in 0..MaxSigned
IInv == FramesInv /\ WakesOK /\ OrderInv /\ SignedOK

LEMMA NextSigned ==
  ASSUME SignedOK, Next
  PROVE  SignedOK'
  <1>1. CASE Generate
    BY <1>1, NodeReceiveAssumption DEF Generate, SignedOK
  <1>2. CASE ~Generate
    <2>1. signed' = signed
      BY <1>2 DEF Next, DecodeFrame, Outage, Despawn, PeriodicStep, Wake, ParseFrame,
                  NoMoreFrames, StartCheck, NoneCanStart, DeliverVerified, NoneFinished, Decide,
                  ScheduleWake, Tick, EndRun
    <2> QED BY <2>1 DEF SignedOK
  <1> QED BY <1>1, <1>2

LEMMA StutterInv ==
  ASSUME IInv, UNCHANGED vars
  PROVE  IInv'
  <1>1. FramesSame /\ (pc' = "ended" <=> pc = "ended")
    BY DEF vars, FramesSame
  <1>2. EngineTypes' /\ NodeTypes' /\ ServerTypes' /\ HandlerOK'
    BY DEF vars, IInv, FramesInv, EngineTypes, NodeTypes, ServerTypes, HandlerOK
  <1>3. MetaInStep' /\ Shared' /\ StartedOnce'
    BY <1>1, SameFrames DEF IInv
  <1>4. WakesOK'
    BY DEF vars, IInv, WakesOK, Covered
  <1>5. OrderInv'
    <2>1. LineSame /\ freeAt' = freeAt /\ now' = now /\ pc' = pc /\ stage' = stage /\ inbox' = inbox
      BY DEF vars, LineSame
    <2>2. TurnOK' /\ Past' = Past
      BY <2>1 DEF IInv, OrderInv, TurnOK, Past
    <2>3. Past \in Int /\ Busier(freeAt')
      BY <2>1, OrderTypes, SameBusy DEF IInv
    <2> QED BY <2>1, <2>2, <2>3, SameOrder DEF IInv
  <1>6. SignedOK'
    BY DEF vars, IInv, SignedOK
  <1> QED BY <1>2, <1>3, <1>4, <1>5, <1>6 DEF IInv, FramesInv

LEMMA NextInv ==
  ASSUME IInv, Next
  PROVE  IInv'
  <1>0. FramesInv /\ WakesOK /\ OrderInv /\ SignedOK'
    BY NextSigned DEF IInv
  <1>1. ASSUME NEW delay \in 0..MaxDelay, DecodeFrame(delay) PROVE IInv'
    BY <1>0, <1>1, DecodeFrameFrames, DecodeFrameWakes, QuietOrder DEF IInv
  <1>2. CASE Outage
    BY <1>0, <1>2, OutageFrames, EventWakes, QuietOrder DEF IInv
  <1>3. CASE Despawn
    BY <1>0, <1>3, DespawnFrames, EventWakes, DespawnOrder DEF IInv
  <1>4. CASE PeriodicStep
    BY <1>0, <1>4, PeriodicStepFrames, EventWakes, TurnOrder DEF IInv
  <1>5. CASE Wake
    BY <1>0, <1>5, WakeFrames, EventWakes, TurnOrder DEF IInv
  <1>6. CASE ParseFrame
    BY <1>0, <1>6, ParseFrameFrames, HandlerWakes, ParseFrameOrder DEF IInv
  <1>7. CASE NoMoreFrames
    BY <1>0, <1>7, NoMoreFramesFrames, HandlerWakes, QuietOrder DEF IInv
  <1>8. CASE StartCheck
    BY <1>0, <1>8, StartCheckFrames, HandlerWakes, StartCheckOrder DEF IInv
  <1>9. CASE NoneCanStart
    BY <1>0, <1>9, NoneCanStartFrames, HandlerWakes, QuietOrder DEF IInv
  <1>10. CASE DeliverVerified
    BY <1>0, <1>10, DeliverVerifiedFrames, HandlerWakes, DeliverVerifiedOrder DEF IInv
  <1>11. CASE NoneFinished
    BY <1>0, <1>11, NoneFinishedFrames, HandlerWakes, QuietOrder DEF IInv
  <1>12. CASE Decide
    BY <1>0, <1>12, DecideFrames, HandlerWakes, DecideOrder DEF IInv
  <1>13. CASE Generate
    BY <1>0, <1>13, GenerateFrames, HandlerWakes, GenerateOrder DEF IInv
  <1>14. CASE ScheduleWake
    BY <1>0, <1>14, ScheduleWakeFrames, ScheduleWakeWakes, QuietOrder DEF IInv
  <1>15. CASE Tick
    BY <1>0, <1>15, TickFrames, TickWakes, QuietOrder DEF IInv
  <1>16. CASE EndRun
    BY <1>0, <1>16, EndRunFrames, EndRunWakes, QuietOrder DEF IInv
  <1> QED BY <1>1, <1>2, <1>3, <1>4, <1>5, <1>6, <1>7, <1>8, <1>9, <1>10, <1>11, <1>12,
             <1>13, <1>14, <1>15, <1>16 DEF Next

(* In every state of the run each token that the radio gave out is in one  *)
(* place of the engine or of the node, the queue and the metadata beside   *)
(* it are in step, the pending wake comes before everything the node still *)
(* has to do, and the places a frame passes through are in arrival order:  *)
(* the invariant the theorems below rest on (run.rs: on_phy_end,           *)
(* run_nodes, request_wake; runtime.rs: receive, advance_verifications,    *)
(* complete_verifications; server.rs: submit).                             *)
THEOREM InductiveInvariant == Spec => []IInv
  <1>1. Init => IInv
    <2>1. Init => SignedOK
      BY NodeReceiveAssumption DEF Init, SignedOK
    <2> QED BY <2>1, InitFrames, InitWakes, InitOrder DEF IInv
  <1>2. IInv /\ [Next]_vars => IInv'
    BY NextInv, StutterInv
  <1> QED BY <1>1, <1>2, PTL DEF Spec

(* Between two handlers the one wake that the engine keeps per node is     *)
(* never later than the finish of a check or the arrival of a frame: no    *)
(* verified message and no decoded frame is left lying (request_wake,      *)
(* schedule_wake, next_completion_after), whatever the bank's servers,     *)
(* the policy, the capacities and the outages.                             *)
THEOREM WokenInTime == Spec => []WokenForAll
  <1>1. IInv => WokenForAll
    BY DEF IInv, WakesOK, Covered, WokenForAll, NoFinishedCheckHeld, NoArrivedFrameLeft
  <1> QED BY <1>1, InductiveInvariant, PTL

(* Under the verify-all and the on-demand policy verified messages reach   *)
(* the applications in the order their frames arrived, for every number of *)
(* servers and every cost of a parse, a check and a signature, also when   *)
(* the parse, the signature and the check share a bank: a later frame's    *)
(* check never starts earlier, so that the (finish, seq) key of            *)
(* complete_verifications keeps the arrival order.                         *)
THEOREM OrderIsKept == Spec => []InArrivalOrder
  <1>1. ASSUME IInv PROVE InArrivalOrder
    BY <1>1 DEF IInv, OrderInv, InOrder, Before, InArrivalOrder
  <1> QED BY <1>1, InductiveInvariant, PTL

(* There are as many frames in a place as tokens of theirs.                *)
LEMMA SoleCount ==
  ASSUME NEW S, Sole(S), TokensOf(S) \subseteq Tokens
  PROVE  /\ IsFiniteSet(S) /\ IsFiniteSet(TokensOf(S))
         /\ Cardinality(S) = Cardinality(TokensOf(S)) /\ Cardinality(S) \in Nat
  <1> DEFINE T == TokensOf(S)
             f == [x \in S |-> x.token]
  <1>1. IsFiniteSet(T)
    BY TokensFinite, FS_Subset
  <1>2. f \in Injection(S, T)
    BY DEF TokensOf, Sole, Injection, IsInjective
  <1>3. f \in Surjection(S, T)
    BY DEF TokensOf, Surjection
  <1> HIDE DEF f
  <1>4. IsFiniteSet(S) /\ Cardinality(S) = Cardinality(T)
    BY <1>1, <1>2, <1>3, FS_Injection
  <1> QED BY <1>1, <1>4, FS_CardinalityType

LEMMA SoleSeqCount ==
  ASSUME NEW Q, NEW s \in Seq(Q), SoleSeq(s), SeqTokens(s) \subseteq Tokens
  PROVE  Cardinality(SeqTokens(s)) = Len(s) /\ Len(s) \in Nat /\ IsFiniteSet(SeqTokens(s))
  <1> DEFINE T == SeqTokens(s)
             f == [i \in 1..Len(s) |-> s[i].token]
  <1>1. Len(s) \in Nat
    BY LenProperties
  <1>2. IsFiniteSet(1..Len(s)) /\ Cardinality(1..Len(s)) = Len(s)
    <2>1. IsFiniteSet(1..Len(s)) /\ Cardinality(1..Len(s)) = IF 1 > Len(s) THEN 0 ELSE Len(s) - 1 + 1
      BY <1>1, FS_Interval
    <2> QED BY <1>1, <2>1
  <1>3. f \in Injection(1..Len(s), T)
    BY DEF SeqTokens, SoleSeq, Injection, IsInjective
  <1>4. f \in Surjection(1..Len(s), T)
    BY DEF SeqTokens, Surjection
  <1>5. IsFiniteSet(T)
    BY TokensFinite, FS_Subset
  <1> HIDE DEF f
  <1>6. Cardinality(1..Len(s)) = Cardinality(T)
    BY <1>3, <1>4, <1>5, FS_Injection
  <1> QED BY <1>1, <1>2, <1>5, <1>6

LEMMA DisjointUnion ==
  ASSUME NEW A, NEW B, IsFiniteSet(A), IsFiniteSet(B), A \cap B = {}
  PROVE  IsFiniteSet(A \cup B) /\ Cardinality(A \cup B) = Cardinality(A) + Cardinality(B)
  <1>1. /\ IsFiniteSet(A \cup B)
        /\ Cardinality(A \cup B) = Cardinality(A) + Cardinality(B) - Cardinality(A \cap B)
    BY FS_Union
  <1>2. Cardinality(A \cap B) = 0
    BY FS_EmptySet
  <1>3. Cardinality(A) \in Nat /\ Cardinality(B) \in Nat
    BY FS_CardinalityType
  <1> QED BY <1>1, <1>2, <1>3

(* The size of what is shared out is the sum of the sizes of its parts.    *)
LEMMA PartitionCount ==
  ASSUME NEW P, NEW A, NEW B, NEW C, NEW D, NEW E, Partition(P, A, B, C, D, E),
         IsFiniteSet(A), IsFiniteSet(B), IsFiniteSet(C), IsFiniteSet(D), IsFiniteSet(E)
  PROVE  Cardinality(P) = Cardinality(A) + Cardinality(B) + Cardinality(C) + Cardinality(D)
                          + Cardinality(E)
  <1>1. IsFiniteSet(D \cup E) /\ Cardinality(D \cup E) = Cardinality(D) + Cardinality(E)
    BY DisjointUnion DEF Partition
  <1>2. C \cap (D \cup E) = {} /\ B \cap (C \cup (D \cup E)) = {}
        /\ A \cap (B \cup (C \cup (D \cup E))) = {} /\ P = A \cup (B \cup (C \cup (D \cup E)))
    BY DEF Partition
  <1>3. /\ IsFiniteSet(C \cup (D \cup E))
        /\ Cardinality(C \cup (D \cup E)) = Cardinality(C) + Cardinality(D \cup E)
    BY <1>1, <1>2, DisjointUnion
  <1>4. /\ IsFiniteSet(B \cup (C \cup (D \cup E)))
        /\ Cardinality(B \cup (C \cup (D \cup E))) = Cardinality(B) + Cardinality(C \cup (D \cup E))
    BY <1>2, <1>3, DisjointUnion
  <1>5. Cardinality(P) = Cardinality(A) + Cardinality(B \cup (C \cup (D \cup E)))
    BY <1>2, <1>4, DisjointUnion
  <1>6. /\ Cardinality(A) \in Nat /\ Cardinality(B) \in Nat /\ Cardinality(C) \in Nat
        /\ Cardinality(D) \in Nat /\ Cardinality(E) \in Nat
    BY FS_CardinalityType
  <1> QED BY <1>1, <1>3, <1>4, <1>5, <1>6

LEMMA AtMostOne ==
  ASSUME NEW S, \A x, y \in S : x = y
  PROVE  IsFiniteSet(S) /\ Cardinality(S) <= 1
  <1>1. CASE S = {}
    BY <1>1, FS_EmptySet
  <1>2. CASE S # {}
    <2>1. PICK x : S = {x}
      BY <1>2
    <2>2. IsFiniteSet({x}) /\ Cardinality({x}) = 1
      BY FS_Singleton
    <2> QED BY <2>1, <2>2
  <1> QED BY <1>1, <1>2

LEMMA TypesHold ==
  ASSUME FramesInv, SignedOK
  PROVE  TypeOK
  <1>1. Cardinality(current) <= 1 /\ Cardinality(nodeWake) <= 1
    BY AtMostOne DEF FramesInv, EngineTypes, NodeTypes
  <1>2. verifySeq \in 0..MaxFrames
    <2>1. /\ Cardinality(Begun) <= MaxFrames /\ Cardinality(Begun) \in Nat
          /\ verifySeq <= Cardinality(Begun) /\ verifySeq \in Nat
      BY BegunFinite, TokensFinite, FS_Subset DEF FramesInv, StartedOnce, NodeTypes
    <2> QED BY <2>1, NodeReceiveAssumption
  <1> QED BY <1>1, <1>2
      DEF FramesInv, EngineTypes, NodeTypes, ServerTypes, SignedOK, TypeOK, QueueType, CheckType, HandedType

(* No frame is lost, doubled or taken for another, at any step of the      *)
(* handler: every attempt of the radio without a fate is in exactly one    *)
(* place, the queue and the metadata beside it name the same frames, and   *)
(* the queues keep their capacities (receive, admit, push_evicting,        *)
(* advance_verifications, complete_verifications, switched_off,            *)
(* resolve_in_flight), for every profile and number of frames.             *)
THEOREM FramesAreSound == Spec => []FramesSound
  <1>1. ASSUME IInv PROVE FramesSound
    <2>0. FramesInv /\ SignedOK
      BY <1>1 DEF IInv
    <2>1. TypeOK /\ MetaInStep
      BY <2>0, TypesHold DEF FramesInv
    <2>2. InQueue = SeqTokens(queue)
      BY DEF InQueue, SeqTokens
    <2>3. ASSUME pc # "ended"
          PROVE  /\ pending = TokensOf(inbox) \cup TokensOf(frames) \cup TokensOf(current)
                                \cup InQueue \cup TokensOf(verifying)
                 /\ Cardinality(pending) = Cardinality(inbox) + Cardinality(frames)
                      + Cardinality(current) + Len(queue) + Cardinality(verifying)
      <3>1. /\ Partition(pending, TokensOf(inbox), TokensOf(frames), TokensOf(current),
                         SeqTokens(queue), TokensOf(verifying))
            /\ Sole(inbox) /\ Sole(frames) /\ SoleSeq(queue) /\ Sole(verifying)
            /\ pending \subseteq Tokens
        BY <2>0, <2>3, SharedNow
      <3>2. Sole(current) /\ queue \in Seq(QueueType)
        BY <2>0 DEF FramesInv, NodeTypes, Sole
      <3>3. /\ TokensOf(inbox) \subseteq Tokens /\ TokensOf(frames) \subseteq Tokens
            /\ TokensOf(current) \subseteq Tokens /\ SeqTokens(queue) \subseteq Tokens
            /\ TokensOf(verifying) \subseteq Tokens
            /\ pending = TokensOf(inbox) \cup TokensOf(frames) \cup TokensOf(current)
                           \cup SeqTokens(queue) \cup TokensOf(verifying)
        BY <3>1 DEF Partition
      <3>4. /\ IsFiniteSet(TokensOf(inbox)) /\ Cardinality(inbox) = Cardinality(TokensOf(inbox))
            /\ IsFiniteSet(TokensOf(frames)) /\ Cardinality(frames) = Cardinality(TokensOf(frames))
            /\ IsFiniteSet(TokensOf(current)) /\ Cardinality(current) = Cardinality(TokensOf(current))
            /\ IsFiniteSet(TokensOf(verifying))
            /\ Cardinality(verifying) = Cardinality(TokensOf(verifying))
        BY <3>1, <3>2, <3>3, SoleCount
      <3>5. IsFiniteSet(SeqTokens(queue)) /\ Cardinality(SeqTokens(queue)) = Len(queue)
        BY <3>1, <3>2, <3>3, SoleSeqCount
      <3>6. Cardinality(pending) = Cardinality(TokensOf(inbox)) + Cardinality(TokensOf(frames))
              + Cardinality(TokensOf(current)) + Cardinality(SeqTokens(queue))
              + Cardinality(TokensOf(verifying))
        BY <3>1, <3>4, <3>5, PartitionCount
      <3> QED BY <2>2, <3>3, <3>4, <3>5, <3>6
    <2>4. (pc = "ended" => pending = {}) /\ \A t \in pending : fate[t] = "none"
      BY <2>0 DEF FramesInv, Shared
    <2> QED BY <2>1, <2>3, <2>4 DEF FramesSound, EveryFrameAccounted
  <1> QED BY <1>1, InductiveInvariant, PTL

(***************************************************************************)
(* The verifier's pace.                                                    *)
(***************************************************************************)

(* The handler is at work on its frames and its checks.                    *)
Working == pc \in {"frame", "advance", "complete", "decide"}

(* The servers that check signatures, and when each is free.               *)
Verifiers == 1..profile.servers[profile.verifyOn]
FreeOf(s) == freeAt[profile.verifyOn][s]

(* Every check in progress has a server of its own while it runs, which is *)
(* not free before the check is done.                                      *)
Serves(g) ==
  /\ \A v \in verifying : v.finish <= FreeOf(g[v])
  /\ \A v, w \in verifying : v # w /\ g[v] = g[w] => v.finish <= w.start \/ w.finish <= v.start
ServersOK == \E g \in [verifying -> Verifiers] : Serves(g)

(* A frame parsed at `at` cannot start its check by the instant S.         *)
StartsAfter(at, S) == S < Larger(at, EarliestFree(profile.verifyOn))

(* The node's last periodic step was at S: since then it has started every *)
(* check that could start by then, unless it was off.                      *)
StepAt(S) ==
  /\ S <= now /\ now <= S + StepPeriod /\ S % StepPeriod = 0
  /\ ~stepDue /\ (~Working \/ isWake) => now < S + StepPeriod
  /\ S = now => stage = NodeTask
CaughtUp(S) ==
  node # "off" /\ onAt <= S /\ profile.verify # NoCost =>
    /\ \A i \in 1..Len(queue) : \/ StartsAfter(queue[i].enqueuedAt, S)
                                \/ Working /\ now <= queue[i].enqueuedAt
    /\ Working => \A v \in verifying : S < v.finish \/ now <= v.finish

StepsOK ==
  /\ stepDue \/ (Working /\ ~isWake) => now % StepPeriod = 0
  /\ \A f \in current : now <= f.parsed
  /\ pc = "complete" /\ current = {} /\ profile.verify # NoCost =>
       \A i \in 1..Len(queue) : StartsAfter(queue[i].enqueuedAt, now)
  /\ \E S \in Int : StepAt(S) /\ CaughtUp(S)

(* Where the verifier's bank does nothing else and the node was never off, *)
(* a server is busy only with a check in progress, and a frame waits only  *)
(* while every server is busy.                                             *)
OnItsOwn == OwnBank /\ outages = 0 /\ profile.verify # NoCost
BusyChecking(s) == \E v \in verifying : v.finish = FreeOf(s)
OwnPace ==
  /\ node # "off"
  /\ Working => until = now /\ \A f \in current : f.parsed = now
  /\ \A i \in 1..Len(queue) : queue[i].enqueuedAt <= now
  /\ node = "active" => \A s \in Verifiers : FreeOf(s) <= now \/ BusyChecking(s)
  /\ pc \in {"idle", "generate", "schedule"} /\ queue # <<>> =>
       \A s \in Verifiers : BusyChecking(s)
  /\ pc = "complete" /\ current = {} /\ queue # <<>> => \A s \in Verifiers : now < FreeOf(s)
  /\ Working => \A i \in 1..Len(queue) :
                  queue[i].enqueuedAt < now => \A s \in Verifiers : now <= FreeOf(s)
  /\ Working => \A v \in verifying : now <= v.finish
OwnOK == OnItsOwn => OwnPace

(* The verifier's pace, inductive under IInv.                              *)
PaceInv ==
  /\ profile.verify = NoCost => verifying = {}
  /\ onAt <= now
  /\ ServersOK /\ StepsOK /\ OwnOK /\ HandedOverAtFinish /\ LateByLessThanStep

LEMMA VerifierTypes ==
  ASSUME IInv
  PROVE  /\ profile \in Profiles /\ ServerTypes /\ now \in Nat /\ onAt \in Nat
         /\ profile.verifyOn \in Banks /\ profile.verify \in Nat
         /\ profile.servers[profile.verifyOn] \in Nat \ {0}
         /\ verifying \subseteq CheckType /\ queue \in Seq(QueueType)
         /\ \A v \in verifying : v.start \in Nat /\ v.finish \in Nat
         /\ \A s \in Verifiers : FreeOf(s) \in Nat /\ EarliestFree(profile.verifyOn) <= FreeOf(s)
         /\ EarliestFree(profile.verifyOn) \in Nat
         /\ \A i \in 1..Len(queue) : queue[i].enqueuedAt \in Nat
         /\ StepPeriod \in Nat \ {0}
  <1>1. /\ profile \in Profiles /\ ServerTypes /\ now \in Nat /\ onAt \in Nat
        /\ verifying \subseteq CheckType /\ queue \in Seq(QueueType) /\ StepPeriod \in Nat \ {0}
    BY NodeReceiveAssumption DEF IInv, FramesInv, EngineTypes, NodeTypes, Instants
  <1>2. /\ profile.verifyOn \in Banks /\ profile.verify \in Nat
        /\ profile.servers[profile.verifyOn] \in Nat \ {0}
    BY <1>1, ProfileFacts
  <1>3. \A v \in verifying : v.start \in Nat /\ v.finish \in Nat
    BY <1>1 DEF CheckType, Times
  <1>4. /\ \A s \in Verifiers : FreeOf(s) \in Nat /\ EarliestFree(profile.verifyOn) <= FreeOf(s)
        /\ EarliestFree(profile.verifyOn) \in Nat
    BY <1>1, <1>2, FirstFreeFacts DEF Verifiers, FreeOf, ServerTypes, Times
  <1>5. \A i \in 1..Len(queue) : queue[i] \in QueueType
    BY <1>1
  <1>6. \A i \in 1..Len(queue) : queue[i].enqueuedAt \in Nat
    BY <1>5 DEF QueueType, Times
  <1> QED BY <1>1, <1>2, <1>3, <1>4, <1>6

LEMMA OnlyBusier ==
  ASSUME IInv, Next
  PROVE  profile' = profile /\ Busier(freeAt')
  <1>0. FramesInv /\ now \in Nat /\ OrderInv
    BY VerifierTypes DEF IInv
  <1>1. profile' = profile
    BY DEF Next, DecodeFrame, Outage, Despawn, PeriodicStep, Wake, ParseFrame, NoMoreFrames,
           StartCheck, NoneCanStart, DeliverVerified, NoneFinished, Decide, Generate,
           ScheduleWake, Tick, EndRun
  <1>2. \/ freeAt' = freeAt
        \/ \E f \in frames : freeAt' = Charged("cpu", f.at, profile.parse)
        \/ queue # <<>> /\ freeAt' = Charged(profile.verifyOn, Head(queue).enqueuedAt, profile.verify)
        \/ freeAt' = Charged(profile.signOn, now, profile.sign)
    BY DEF Next, DecodeFrame, Outage, Despawn, PeriodicStep, Wake, ParseFrame, NoMoreFrames,
           StartCheck, CanStart, NoneCanStart, DeliverVerified, NoneFinished, Decide, Generate,
           ScheduleWake, Tick, EndRun, serverVars
  <1>3. /\ profile \in Profiles /\ ServerTypes /\ "cpu" \in Banks
        /\ profile.verifyOn \in Banks /\ profile.signOn \in Banks
        /\ profile.parse \in Nat /\ profile.verify \in Nat /\ profile.sign \in Nat
    BY VerifierTypes, ProfileFacts
  <1>4. CASE freeAt' = freeAt
    BY <1>0, <1>1, <1>4, SameBusy
  <1>5. ASSUME NEW f \in frames, freeAt' = Charged("cpu", f.at, profile.parse)
        PROVE  Busier(freeAt')
    <2>1. f.at \in Nat
      BY <1>0 DEF OrderInv, HeldOK
    <2> QED BY <1>3, <1>5, <2>1, ChargedFacts
  <1>6. CASE queue # <<>> /\ freeAt' = Charged(profile.verifyOn, Head(queue).enqueuedAt, profile.verify)
    <2>1. Head(queue).enqueuedAt \in Nat
      BY <1>0, <1>6, HeadFacts DEF QueueType, Times
    <2> QED BY <1>1, <1>3, <1>6, <2>1, ChargedFacts
  <1>7. CASE freeAt' = Charged(profile.signOn, now, profile.sign)
    BY <1>0, <1>1, <1>3, <1>7, ChargedFacts
  <1> QED BY <1>1, <1>2, <1>4, <1>5, <1>6, <1>7

(* A check starts on the server that frees up first.                       *)
LEMMA CheckStarted ==
  ASSUME IInv, StartCheck
  PROVE  /\ profile.verify # NoCost /\ queue # <<>> /\ 1 \in 1..Len(queue)
         /\ \E n : /\ verifying' = verifying \cup {n} /\ n \in verifying'
                   /\ n.start = StartOf(profile.verifyOn, queue[1].enqueuedAt)
                   /\ n.start \in Nat /\ n.finish \in Nat /\ n.finish = n.start + profile.verify
         /\ \E s \in Verifiers :
              /\ FreeOf(s) = EarliestFree(profile.verifyOn)
              /\ FreeOf(s)' = StartOf(profile.verifyOn, queue[1].enqueuedAt) + profile.verify
              /\ \A o \in Verifiers : o # s => FreeOf(o)' = FreeOf(o)
         /\ Verifiers' = Verifiers
         /\ \A i \in 1..Len(queue') : \E j \in 1..Len(queue) : queue'[i] = queue[j]
  <1> DEFINE b == profile.verifyOn
             at == Head(queue).enqueuedAt
  <1>1. /\ b \in Banks /\ profile' = profile /\ queue # <<>>
        /\ profile \in Profiles /\ ServerTypes /\ profile.verify \in Nat
        /\ freeAt' = Charged(b, at, profile.verify) /\ profile.verify # NoCost
    BY VerifierTypes DEF StartCheck, CanStart
  <1>2. at \in Nat /\ Head(queue) = queue[1] /\ 1 \in 1..Len(queue)
    <2>1. Head(queue) = queue[1] /\ 1 \in 1..Len(queue)
      BY <1>1, VerifierTypes
    <2> QED BY <2>1, VerifierTypes
  <1>3. PICK x \in Nat : x = StartOf(b, at)
    BY <1>1, <1>2, StartFacts
  <1>4. \E n : /\ verifying' = verifying \cup {n} /\ n \in verifying'
               /\ n.start = x /\ n.finish = x + profile.verify
    <2>1. PICK n : n = [token |-> Head(verifyMeta).token, arrived |-> Head(verifyMeta).arrived,
                        start |-> x, finish |-> x + profile.verify, seq |-> verifySeq]
      OBVIOUS
    <2>2. verifying' = verifying \cup {n}
      BY <1>3, <2>1 DEF StartCheck
    <2>3. n.start = x /\ n.finish = x + profile.verify
      BY <2>1
    <2> QED BY <2>2, <2>3
  <1>5. PICK s : s = FirstFree(b)
    OBVIOUS
  <1>6. s \in Verifiers /\ FreeOf(s) = EarliestFree(b)
    BY <1>1, <1>5, FirstFreeFacts DEF Verifiers, FreeOf, EarliestFree
  <1>7. /\ Verifiers' = Verifiers /\ FreeOf(s)' = x + profile.verify
        /\ \A o \in Verifiers : o # s => FreeOf(o)' = FreeOf(o)
    <2>1. freeAt' = [freeAt EXCEPT ![b][s] = x + profile.verify]
      BY <1>1, <1>3, <1>5 DEF Charged
    <2>2. DOMAIN freeAt = Banks /\ DOMAIN freeAt[b] = Verifiers
      BY <1>1 DEF ServerTypes, Verifiers
    <2> QED BY <1>1, <1>6, <2>1, <2>2 DEF FreeOf, Verifiers
  <1>8. \A i \in 1..Len(queue') : \E j \in 1..Len(queue) : queue'[i] = queue[j]
    <2>1. queue' = Tail(queue)
      BY DEF StartCheck
    <2>2. /\ Len(queue) \in Nat \ {0} /\ Len(queue') = Len(queue) - 1
          /\ \A i \in 1..Len(queue) - 1 : queue'[i] = queue[i + 1]
      BY <1>1, <2>1, HeadFacts DEF IInv
    <2>3. \A i \in 1..Len(queue) - 1 : i + 1 \in 1..Len(queue)
      BY <2>2
    <2> QED BY <2>2, <2>3
  <1> HIDE DEF b, at
  <1>9. x = StartOf(b, queue[1].enqueuedAt)
    BY <1>2, <1>3 DEF at
  <1> QED BY <1>1, <1>2, <1>3, <1>4, <1>6, <1>7, <1>8, <1>9 DEF b

(* The policy's decision adds at most the current frame to the queue.      *)
LEMMA DecidedQueue ==
  ASSUME IInv, Decide
  PROVE  \A i \in 1..Len(queue') : \/ \E j \in 1..Len(queue) : queue'[i] = queue[j]
                                   \/ \E f \in current : queue'[i].enqueuedAt = f.parsed
  <1>1. PICK f \in current :
          \/ queue' = queue
          \/ queue' = QueuePush(queue, [token |-> f.token, enqueuedAt |-> f.parsed])
    BY DEF Decide, EnqueueFrame
  <1>2. PICK e : e = [token |-> f.token, enqueuedAt |-> f.parsed]
    OBVIOUS
  <1>3. e.enqueuedAt = f.parsed /\ e \in QueueType
    BY <1>1, <1>2 DEF IInv, FramesInv, NodeTypes, MetaType, QueueType
  <1>4. ASSUME NEW q \in Seq(QueueType), queue' = Append(q, e),
               \A i \in 1..Len(q) : \E j \in 1..Len(queue) : q[i] = queue[j]
        PROVE  \A i \in 1..Len(queue') : \/ \E j \in 1..Len(queue) : queue'[i] = queue[j]
                                         \/ queue'[i] = e
    <2>1. /\ Len(q) \in Nat /\ Len(queue') = Len(q) + 1
          /\ \A i \in 1..Len(q) : queue'[i] = q[i]
          /\ queue'[Len(q) + 1] = e
      BY <1>3, <1>4, LenProperties, AppendProperties
    <2>2. 1..Len(queue') = 1..Len(q) \cup {Len(q) + 1}
      BY <2>1
    <2> QED BY <1>4, <2>1, <2>2
  <1>5. queue \in Seq(QueueType)
    BY VerifierTypes
  <1>6. \A i \in 1..Len(queue') : \/ \E j \in 1..Len(queue) : queue'[i] = queue[j]
                                  \/ queue'[i] = e
    <2>1. CASE queue' = queue
      BY <2>1
    <2>2. CASE queue' = Append(queue, e)
      BY <1>4, <1>5, <2>2
    <2>3. CASE queue # <<>> /\ queue' = Append(Tail(queue), e)
      <3>1. PICK q : q = Tail(queue)
        OBVIOUS
      <3>2. /\ q \in Seq(QueueType) /\ Len(queue) \in Nat \ {0} /\ Len(q) = Len(queue) - 1
            /\ \A i \in 1..Len(queue) - 1 : q[i] = queue[i + 1]
        BY <2>3, <3>1, HeadFacts DEF IInv
      <3>3. \A i \in 1..Len(queue) - 1 : i + 1 \in 1..Len(queue)
        BY <3>2
      <3>4. \A i \in 1..Len(q) : \E j \in 1..Len(queue) : q[i] = queue[j]
        BY <3>2, <3>3
      <3> QED BY <1>4, <2>3, <3>1, <3>2, <3>4
    <2> QED BY <1>1, <1>2, <2>1, <2>2, <2>3 DEF QueuePush
  <1> QED BY <1>3, <1>6

(***************************************************************************)
(* Checks share the servers of their bank.                                 *)
(***************************************************************************)

(* Servers take on more work, checks end: each has its server still.       *)
LEMMA ServersThen ==
  ASSUME IInv, ServersOK, profile' = profile, Busier(freeAt'), verifying' \subseteq verifying
  PROVE  ServersOK'
  <1>1. PICK g \in [verifying -> Verifiers] : Serves(g)
    BY DEF ServersOK
  <1>2. PICK h : h = [v \in verifying' |-> g[v]]
    OBVIOUS
  <1>3. Verifiers' = Verifiers /\ h \in [verifying' -> Verifiers]
    BY <1>1, <1>2 DEF Verifiers
  <1>4. \A s \in Verifiers : FreeOf(s) \in Nat /\ FreeOf(s)' \in Nat /\ FreeOf(s) <= FreeOf(s)'
    BY VerifierTypes DEF FreeOf, Busier, Verifiers, Times
  <1>5. \A v \in verifying : g[v] \in Verifiers /\ v.finish \in Nat
    BY <1>1, VerifierTypes
  <1>6. \A v \in verifying' : v.finish <= FreeOf(h[v])'
    <2> SUFFICES ASSUME NEW v \in verifying' PROVE v.finish <= FreeOf(h[v])'
      OBVIOUS
    <2>1. h[v] = g[v] /\ v \in verifying
      BY <1>2
    <2>2. v.finish <= FreeOf(g[v])
      BY <1>1, <2>1 DEF Serves
    <2>3. PICK s : s = g[v]
      OBVIOUS
    <2>4. v.finish <= FreeOf(s)'
      BY <1>4, <1>5, <2>1, <2>2, <2>3
    <2> QED BY <2>1, <2>3, <2>4
  <1>7. \A v, w \in verifying' : v # w /\ h[v] = h[w] => v.finish <= w.start \/ w.finish <= v.start
    BY <1>1, <1>2 DEF Serves
  <1> QED BY <1>3, <1>6, <1>7 DEF ServersOK, Serves

(* The server of the next check is done with all its checks.               *)
LEMMA ServersStart ==
  ASSUME IInv, ServersOK, StartCheck
  PROVE  ServersOK'
  <1>1. PICK g \in [verifying -> Verifiers] : Serves(g)
    BY DEF ServersOK
  <1>2. profile.verify \in Nat
    BY VerifierTypes
  <1>3. PICK x \in Nat : x = StartOf(profile.verifyOn, queue[1].enqueuedAt)
    BY CheckStarted
  <1>5. PICK n : /\ verifying' = verifying \cup {n} /\ n \in verifying'
                 /\ n.start = x /\ n.finish = x + profile.verify
    BY <1>3, CheckStarted
  <1>6. PICK s \in Verifiers : /\ FreeOf(s) = EarliestFree(profile.verifyOn)
                               /\ FreeOf(s)' = x + profile.verify
                               /\ \A o \in Verifiers : o # s => FreeOf(o)' = FreeOf(o)
    BY <1>3, CheckStarted
  <1>7. FreeOf(s) <= x
    BY <1>3, <1>6, CheckStarted, VerifierTypes, StartFacts
  <1>8. Verifiers' = Verifiers
    BY CheckStarted
  <1>9. PICK h : h = [v \in verifying' |-> IF v \in verifying THEN g[v] ELSE s]
    OBVIOUS
  <1>10. h \in [verifying' -> Verifiers']
    BY <1>1, <1>6, <1>8, <1>9
  <1>11. \A v \in verifying : /\ v.finish \in Nat /\ v.start \in Nat /\ g[v] \in Verifiers
                              /\ FreeOf(g[v]) \in Nat /\ v.finish <= FreeOf(g[v])
    BY <1>1, VerifierTypes DEF Serves
  <1>12. \A v \in verifying' : v.finish <= FreeOf(h[v])'
    <2>1. ASSUME NEW v \in verifying PROVE v.finish <= FreeOf(h[v])'
      <3>1. PICK o : o = g[v]
        OBVIOUS
      <3>2. h[v] = o /\ o \in Verifiers /\ v.finish <= FreeOf(o) /\ v.finish \in Nat
        BY <1>1, <1>5, <1>9, <1>11, <3>1
      <3>3. v.finish <= FreeOf(o)'
        BY <1>2, <1>6, <1>7, <1>11, <3>1, <3>2
      <3> QED BY <3>2, <3>3
    <2>2. n \notin verifying => h[n] = s
      BY <1>5, <1>9
    <2>3. n \notin verifying => n.finish <= FreeOf(h[n])'
      BY <1>2, <1>3, <1>5, <1>6, <2>2
    <2> QED BY <1>5, <2>1, <2>3
  <1>13. \A v \in verifying : g[v] = s => v.finish <= n.start
    BY <1>3, <1>5, <1>6, <1>7, <1>11
  <1>14. \A v, w \in verifying' : v # w /\ h[v] = h[w] => v.finish <= w.start \/ w.finish <= v.start
    <2> SUFFICES ASSUME NEW v \in verifying', NEW w \in verifying', v # w, h[v] = h[w]
                 PROVE  v.finish <= w.start \/ w.finish <= v.start
      OBVIOUS
    <2>1. CASE v \in verifying /\ w \in verifying
      BY <1>1, <1>9, <2>1 DEF Serves
    <2>2. CASE v \in verifying /\ w \notin verifying
      BY <1>5, <1>9, <1>13, <2>2
    <2>3. CASE v \notin verifying /\ w \in verifying
      BY <1>5, <1>9, <1>13, <2>3
    <2> QED BY <1>5, <2>1, <2>2, <2>3
  <1> QED BY <1>10, <1>12, <1>14 DEF ServersOK, Serves

(* As many checks run at an instant as there are servers, at most.         *)
LEMMA ServersFit ==
  ASSUME IInv, ServersOK
  PROVE  ChecksFitServers
  <1>1. PICK g \in [verifying -> Verifiers] : Serves(g)
    BY DEF ServersOK
  <1> SUFFICES ASSUME NEW t \in {v.start : v \in verifying}
               PROVE  Cardinality({v \in verifying : v.start <= t /\ t < v.finish})
                        <= profile.servers[profile.verifyOn]
    BY DEF ChecksFitServers
  <1> DEFINE R == {v \in verifying : v.start <= t /\ t < v.finish}
             n == profile.servers[profile.verifyOn]
             f == [v \in R |-> g[v]]
  <1>2. t \in Nat /\ n \in Nat \ {0} /\ \A v \in verifying : v.start \in Nat /\ v.finish \in Nat
    BY VerifierTypes
  <1>3. f \in [R -> 1..n]
    BY <1>1 DEF Verifiers
  <1>4. ASSUME NEW v \in R, NEW w \in R, f[v] = f[w] PROVE v = w
    <2>1. v \in verifying /\ w \in verifying /\ g[v] = g[w]
      BY <1>4
    <2>2. v # w => v.finish <= w.start \/ w.finish <= v.start
      BY <1>1, <2>1 DEF Serves
    <2> QED BY <1>2, <2>1, <2>2
  <1>5. f \in Injection(R, 1..n)
    <2>1. DOMAIN f = R
      OBVIOUS
    <2> HIDE DEF f, R, n
    <2>2. IsInjective(f)
      BY <1>4, <2>1 DEF IsInjective
    <2> QED BY <1>3, <2>2 DEF Injection
  <1> HIDE DEF R, f, n
  <1>6. IsFiniteSet(1..n) /\ Cardinality(1..n) = n
    <2>1. 1 \in Int /\ n \in Int /\ n >= 1
      BY <1>2
    <2>2. IsFiniteSet(1..n) /\ Cardinality(1..n) = IF 1 > n THEN 0 ELSE n - 1 + 1
      BY ONLY <2>1, FS_Interval
    <2> QED BY <2>1, <2>2
  <1>7. Cardinality(R) <= Cardinality(1..n)
    BY <1>5, <1>6, FS_Injection
  <1> QED BY <1>6, <1>7 DEF R, n

(***************************************************************************)
(* The periodic steps.                                                     *)
(***************************************************************************)
LEMMA StepAfter ==
  ASSUME NEW P \in Nat \ {0}, NEW S \in Int, S % P = 0
  PROVE  (S + P) % P = 0
  <1>1. PICK k \in Int : S = P * k
    OBVIOUS
  <1>2. S + P = P * (k + 1)
    BY <1>1
  <1>3. k + 1 \in Int
    OBVIOUS
  <1>4. \A m \in Int : (P * m) % P = 0
    OBVIOUS
  <1> QED BY <1>2, <1>3, <1>4, Zenon

LEMMA StepBefore ==
  ASSUME NEW P \in Nat \ {0}
  PROVE  (-P) % P = 0 /\ 0 % P = 0
  OBVIOUS

LEMMA InitSteps == Init => StepsOK
  <1> SUFFICES ASSUME Init PROVE StepsOK
    OBVIOUS
  <1>1. /\ now = 0 /\ stage = Control /\ stepDue = TRUE /\ onAt = 0 /\ pc = "idle"
        /\ current = {} /\ StepPeriod \in Nat \ {0}
    BY NodeReceiveAssumption DEF Init
  <1>2. PICK S \in Int : S = -StepPeriod
    BY <1>1
  <1>3. S % StepPeriod = 0 /\ now % StepPeriod = 0
    BY <1>1, <1>2, StepBefore
  <1>4. StepAt(S)
    BY <1>1, <1>2, <1>3 DEF StepAt
  <1>5. CaughtUp(S)
    BY <1>1, <1>2 DEF CaughtUp
  <1> QED BY <1>1, <1>3, <1>4, <1>5 DEF StepsOK

LEMMA StartsLater ==
  ASSUME IInv, profile' = profile, Busier(freeAt'), NEW at \in Nat, NEW S \in Int,
         StartsAfter(at, S)
  PROVE  StartsAfter(at, S)'
  <1>1. EarliestFree(profile.verifyOn) <= EarliestFree(profile.verifyOn)'
    BY VerifierTypes, BusierFacts
  <1>2. EarliestFree(profile.verifyOn) \in Nat /\ EarliestFree(profile.verifyOn)' \in Nat
    BY VerifierTypes, BusierFacts, FreeThen DEF FreeOK
  <1>3. PICK e \in Nat, d \in Nat :
          e = EarliestFree(profile.verifyOn) /\ d = EarliestFree(profile.verifyOn)'
    BY <1>2
  <1>4. S < Larger(at, e) /\ e <= d
    BY <1>1, <1>3 DEF StartsAfter
  <1>5. S < Larger(at, d)
    BY <1>4 DEF Larger
  <1> QED BY <1>3, <1>5 DEF StartsAfter, Larger

(* A step of the handler: the last periodic step remains what it was.      *)
LEMMA StepKept ==
  ASSUME IInv, IInv', NEW S \in Int, StepAt(S), CaughtUp(S),
         UNCHANGED <<profile, now, stage, stepDue, node, onAt>>,
         Busier(freeAt'), Working' <=> Working, isWake' <=> isWake,
         \A i \in 1..Len(queue') : \/ \E j \in 1..Len(queue) : queue'[i] = queue[j]
                                   \/ Working' /\ now <= queue'[i].enqueuedAt,
         node # "off" /\ onAt <= S /\ profile.verify # NoCost /\ Working' =>
           \A v \in verifying' : v \in verifying \/ S < v.finish \/ now <= v.finish
  PROVE  StepAt(S)' /\ CaughtUp(S)'
  <1>1. StepAt(S)'
    BY DEF StepAt
  <1>2. SUFFICES ASSUME (node # "off" /\ onAt <= S /\ profile.verify # NoCost)'
                 PROVE  /\ (\A i \in 1..Len(queue) : \/ StartsAfter(queue[i].enqueuedAt, S)
                                                     \/ Working /\ now <= queue[i].enqueuedAt)'
                        /\ (Working => \A v \in verifying : S < v.finish \/ now <= v.finish)'
    BY <1>1 DEF CaughtUp
  <1>3. /\ \A i \in 1..Len(queue) : \/ StartsAfter(queue[i].enqueuedAt, S)
                                    \/ Working /\ now <= queue[i].enqueuedAt
        /\ Working => \A v \in verifying : S < v.finish \/ now <= v.finish
        /\ node # "off" /\ onAt <= S /\ profile.verify # NoCost
    BY <1>2 DEF CaughtUp
  <1>4. (Working => \A v \in verifying : S < v.finish \/ now <= v.finish)'
    BY <1>3
  <1>5. ASSUME NEW i \in 1..Len(queue')
        PROVE  (StartsAfter(queue[i].enqueuedAt, S) \/ (Working /\ now <= queue[i].enqueuedAt))'
    <2>1. CASE Working' /\ now <= queue'[i].enqueuedAt
      BY <2>1
    <2>2. ASSUME NEW j \in 1..Len(queue), queue'[i] = queue[j]
          PROVE  (StartsAfter(queue[i].enqueuedAt, S) \/ (Working /\ now <= queue[i].enqueuedAt))'
      <3>1. CASE Working /\ now <= queue[j].enqueuedAt
        BY <2>2, <3>1
      <3>2. CASE StartsAfter(queue[j].enqueuedAt, S)
        <4>1. PICK at \in Nat : at = queue[j].enqueuedAt
          BY VerifierTypes
        <4>2. StartsAfter(at, S)'
          BY <3>2, <4>1, StartsLater
        <4>3. at = queue'[i].enqueuedAt
          BY <2>2, <4>1
        <4> QED BY <4>2, <4>3 DEF StartsAfter
      <3> QED BY <1>3, <3>1, <3>2
    <2> QED BY <2>1, <2>2
  <1> QED BY <1>4, <1>5 DEF StartsAfter

(* Who heads the queue was parsed first.                                   *)
LEMMA HeadFirst ==
  ASSUME IInv
  PROVE  \A i \in 1..Len(queue) : queue[1].enqueuedAt <= queue[i].enqueuedAt
  <1> SUFFICES ASSUME NEW i \in 1..Len(queue) PROVE queue[1].enqueuedAt <= queue[i].enqueuedAt
    OBVIOUS
  <1>1. /\ Len(queue) = Len(verifyMeta) /\ ParsedInOrder(verifyMeta)
        /\ \A j \in 1..Len(queue) : queue[j].enqueuedAt = verifyMeta[j].parsed
    BY DEF IInv, FramesInv, MetaInStep, OrderInv, ParseOK
  <1>2. Len(queue) \in Nat /\ 1 \in 1..Len(queue)
    BY VerifierTypes
  <1>3. CASE i = 1
    BY <1>2, <1>3, VerifierTypes
  <1>4. CASE i # 1
    <2>1. 1 < i
      BY <1>2, <1>4
    <2> QED BY <1>1, <1>2, <2>1 DEF ParsedInOrder
  <1> QED BY <1>3, <1>4

(* Once no check can start, nobody in the queue starts by then.            *)
LEMMA NoneStarts ==
  ASSUME IInv, NoneCanStart, current = {}, profile.verify # NoCost
  PROVE  \A i \in 1..Len(queue) : StartsAfter(queue[i].enqueuedAt, now)
  <1> SUFFICES ASSUME NEW i \in 1..Len(queue) PROVE StartsAfter(queue[i].enqueuedAt, now)
    OBVIOUS
  <1>1. until = now /\ ~CanStart
    BY DEF NoneCanStart, IInv, FramesInv, HandlerOK
  <1>2. queue # <<>>
    BY VerifierTypes
  <1>3. Head(queue) = queue[1] /\ 1 \in 1..Len(queue)
    BY <1>2, VerifierTypes
  <1>4. PICK e \in Nat, a \in Nat, c \in Nat :
          e = EarliestFree(profile.verifyOn) /\ a = queue[1].enqueuedAt /\ c = queue[i].enqueuedAt
    BY <1>3, VerifierTypes
  <1>5. ~(Larger(a, e) <= now)
    BY <1>1, <1>2, <1>3, <1>4 DEF CanStart, StartOf
  <1>6. a <= c
    BY <1>4, HeadFirst
  <1>7. now \in Nat
    BY VerifierTypes
  <1>8. now < Larger(c, e)
    BY <1>5, <1>6, <1>7 DEF Larger
  <1> QED BY <1>4, <1>8 DEF StartsAfter

(* A step of the handler, until it is done with its frames.                *)
LEMMA HandlerSteps ==
  ASSUME IInv, IInv', StepsOK, Next,
         \/ ParseFrame \/ NoMoreFrames \/ StartCheck \/ NoneCanStart \/ DeliverVerified \/ Decide
         \/ (NoneFinished /\ current # {}) \/ Generate \/ ScheduleWake \/ EndRun
  PROVE  StepsOK'
  <1>1. /\ UNCHANGED <<profile, now, stage, stepDue, node, onAt>> /\ isWake' = isWake
        /\ now \in Nat
    BY VerifierTypes
    DEF ParseFrame, NoMoreFrames, StartCheck, NoneCanStart, DeliverVerified, Decide, NoneFinished,
        Generate, ScheduleWake, EndRun, engineVars
  <1>2. Working' <=> Working
    BY DEF Working, ParseFrame, NoMoreFrames, StartCheck, NoneCanStart, DeliverVerified, Decide,
           NoneFinished, Generate, ScheduleWake, EndRun
  <1>3. PICK S \in Int : StepAt(S) /\ CaughtUp(S)
    BY DEF StepsOK
  <1>4. Busier(freeAt')
    BY OnlyBusier
  <1>5. \A i \in 1..Len(queue') : \/ \E j \in 1..Len(queue) : queue'[i] = queue[j]
                                  \/ Working' /\ now <= queue'[i].enqueuedAt
    <2>1. CASE StartCheck
      BY <2>1, CheckStarted
    <2>2. CASE Decide
      <3>1. Working'
        BY <2>2 DEF Decide, Working
      <3> QED BY <2>2, <3>1, DecidedQueue DEF StepsOK
    <2>3. CASE ~StartCheck /\ ~Decide
      <3>1. queue' = queue
        BY <2>3 DEF ParseFrame, NoMoreFrames, NoneCanStart, DeliverVerified, NoneFinished,
                    Generate, ScheduleWake, EndRun, serverVars
      <3> QED BY <3>1
    <2> QED BY <2>1, <2>2, <2>3
  <1>6. ASSUME node # "off" /\ onAt <= S /\ profile.verify # NoCost /\ Working'
        PROVE  \A v \in verifying' : v \in verifying \/ S < v.finish \/ now <= v.finish
    <2>1. CASE StartCheck
      <3>1. PICK n : /\ verifying' = verifying \cup {n}
                     /\ n.start = StartOf(profile.verifyOn, queue[1].enqueuedAt)
                     /\ n.start \in Nat /\ n.finish \in Nat /\ n.finish = n.start + profile.verify
        BY <2>1, CheckStarted
      <3>2. 1 \in 1..Len(queue)
        BY <2>1, CheckStarted
      <3>3. StartsAfter(queue[1].enqueuedAt, S) \/ now <= queue[1].enqueuedAt
        BY <1>3, <1>6, <3>2 DEF CaughtUp
      <3>4. StartsAfter(queue[1].enqueuedAt, S) => S < n.start
        BY <3>1 DEF StartsAfter, StartOf
      <3>5. queue[1].enqueuedAt <= n.start /\ queue[1].enqueuedAt \in Nat /\ profile.verify \in Nat
        BY <3>1, <3>2, VerifierTypes, StartFacts
      <3>6. S < n.finish \/ now <= n.finish
        BY <1>1, <3>1, <3>3, <3>4, <3>5
      <3> QED BY <3>1, <3>6
    <2>2. CASE ~StartCheck
      <3>1. verifying' \subseteq verifying
        BY <2>2 DEF ParseFrame, NoMoreFrames, NoneCanStart, DeliverVerified, Decide, NoneFinished,
                    Generate, ScheduleWake, EndRun, serverVars
      <3> QED BY <3>1
    <2> QED BY <2>1, <2>2
  <1>7. StepAt(S)' /\ CaughtUp(S)'
    BY <1>1, <1>2, <1>3, <1>4, <1>5, <1>6, StepKept
  <1>8. \A f \in current' : now <= f.parsed
    <2>1. CASE ParseFrame
      <3>1. PICK f \in frames :
              \/ current' = {[token |-> f.token, arrived |-> f.at, parsed |-> f.at]}
              \/ current' = current
              \/ current' = {[token |-> f.token, arrived |-> f.at,
                              parsed |-> StartOf("cpu", f.at) + profile.parse]}
        BY <2>1 DEF ParseFrame
      <3>2. f.at = now
        BY DEF IInv, OrderInv, HeldOK
      <3>3. /\ now <= StartOf("cpu", f.at) /\ StartOf("cpu", f.at) \in Nat /\ profile.parse \in Nat
        BY <1>1, <3>2, VerifierTypes, ProfileFacts, StartFacts
      <3>4. CASE current' = current
        BY <3>4 DEF StepsOK
      <3>5. ASSUME NEW c, c = [token |-> f.token, arrived |-> f.at, parsed |-> f.at]
            PROVE  now <= c.parsed
        BY <1>1, <3>2, <3>5
      <3>6. ASSUME NEW c, c = [token |-> f.token, arrived |-> f.at,
                               parsed |-> StartOf("cpu", f.at) + profile.parse]
            PROVE  now <= c.parsed
        <4>1. c.parsed = StartOf("cpu", f.at) + profile.parse
          BY <3>6
        <4> QED BY <1>1, <3>3, <4>1
      <3> QED BY <3>1, <3>4, <3>5, <3>6
    <2>2. CASE ~ParseFrame
      <3>1. current' \subseteq current
        BY <2>2 DEF NoMoreFrames, StartCheck, NoneCanStart, DeliverVerified, Decide, NoneFinished,
                    Generate, ScheduleWake, EndRun
      <3> QED BY <3>1 DEF StepsOK
    <2> QED BY <2>1, <2>2
  <1>9. ASSUME pc' = "complete", current' = {}, profile.verify # NoCost
        PROVE  (\A i \in 1..Len(queue) : StartsAfter(queue[i].enqueuedAt, now))'
    <2>1. /\ UNCHANGED <<queue, freeAt, current>>
          /\ NoneCanStart \/ pc = "complete"
      BY <1>9 DEF ParseFrame, NoMoreFrames, StartCheck, NoneCanStart, DeliverVerified, Decide,
                  NoneFinished, Generate, ScheduleWake, EndRun, serverVars
    <2>2. \A i \in 1..Len(queue) : StartsAfter(queue[i].enqueuedAt, now)
      BY <1>9, <2>1, NoneStarts DEF StepsOK
    <2> QED BY <1>1, <2>1, <2>2 DEF StartsAfter, EarliestFree, FirstFree
  <1>10. stepDue' \/ (Working' /\ ~isWake') => now' % StepPeriod = 0
    BY <1>1, <1>2 DEF StepsOK
  <1>11. \E T \in Int : StepAt(T)' /\ CaughtUp(T)'
    BY <1>7
  <1> QED BY <1>1, <1>8, <1>9, <1>10, <1>11 DEF StepsOK

(* The handler is done with its frames: what could start by now has        *)
(* started, and if it was a periodic step it is the last one.              *)
LEMMA DoneSteps ==
  ASSUME IInv, IInv', StepsOK, NoneFinished, current = {}
  PROVE  StepsOK'
  <1>1. /\ UNCHANGED <<profile, now, stage, stepDue, node, onAt, queue, freeAt, verifying, current>>
        /\ isWake' = isWake /\ pc = "complete" /\ pc' = "generate"
    BY DEF NoneFinished, engineVars, serverVars
  <1>2. now \in Nat /\ StepPeriod \in Nat \ {0} /\ stage = NodeTask /\ Working /\ ~Working'
    BY <1>1, VerifierTypes DEF IInv, OrderInv, TurnOK, Working
  <1>3. profile.verify # NoCost => \A i \in 1..Len(queue) : StartsAfter(queue[i].enqueuedAt, now)
    BY <1>1 DEF StepsOK
  <1>4. ASSUME NEW T \in Int, T <= now, profile.verify # NoCost
        PROVE  (\A i \in 1..Len(queue) : StartsAfter(queue[i].enqueuedAt, T))'
    <2>1. ASSUME NEW i \in 1..Len(queue) PROVE StartsAfter(queue[i].enqueuedAt, T)
      <3>1. PICK l \in Nat : l = Larger(queue[i].enqueuedAt, EarliestFree(profile.verifyOn))
        BY VerifierTypes DEF Larger
      <3> QED BY <1>2, <1>3, <1>4, <3>1 DEF StartsAfter
    <2> QED BY <1>1, <2>1 DEF StartsAfter, EarliestFree, FirstFree
  <1>5. PICK S \in Int : StepAt(S) /\ CaughtUp(S)
    BY DEF StepsOK
  <1>6. ASSUME NEW T \in Int, T <= now PROVE CaughtUp(T)'
    BY <1>1, <1>2, <1>4, <1>6 DEF CaughtUp
  <1>7. CASE isWake
    <2>1. StepAt(S)'
      BY <1>1, <1>2, <1>5, <1>7 DEF StepAt
    <2>2. CaughtUp(S)'
      BY <1>5, <1>6 DEF StepAt
    <2> QED BY <1>1, <1>2, <2>1, <2>2 DEF StepsOK
  <1>8. CASE ~isWake
    <2>1. now % StepPeriod = 0
      BY <1>2, <1>8 DEF StepsOK
    <2>2. PICK T \in Int : T = now
      BY <1>2
    <2>3. StepAt(T)'
      BY <1>1, <1>2, <2>1, <2>2 DEF StepAt
    <2>4. CaughtUp(T)'
      BY <1>2, <1>6, <2>2
    <2> QED BY <1>1, <1>2, <2>1, <2>3, <2>4 DEF StepsOK
  <1> QED BY <1>7, <1>8

(* Events that leave the node's queue alone, or take it away.              *)
LEMMA EventSteps ==
  ASSUME IInv, IInv', StepsOK, Outage \/ Despawn \/ \E delay \in 0..MaxDelay : DecodeFrame(delay)
  PROVE  StepsOK'
  <1>1. /\ UNCHANGED <<profile, now, stepDue, freeAt, current>> /\ isWake' = isWake
        /\ pc = "idle" /\ pc' = "idle" /\ current = {}
    BY DEF Outage, Despawn, DecodeFrame, Dispatch, serverVars, IInv, FramesInv, HandlerOK
  <1>2. now \in Nat /\ onAt \in Nat /\ stage # NodeTask
    BY VerifierTypes DEF Outage, Despawn, DecodeFrame, Dispatch, Control, MobilityStep, PhyEnd,
                         NodeTask, IInv, FramesInv, EngineTypes
  <1>3. PICK S \in Int : StepAt(S) /\ CaughtUp(S)
    BY DEF StepsOK
  <1>4. S < now /\ ~Working /\ ~Working'
    BY <1>1, <1>2, <1>3 DEF StepAt, Working
  <1>5. StepAt(S)'
    BY <1>1, <1>2, <1>3, <1>4 DEF StepAt
  <1>6. CaughtUp(S)'
    <2>1. CASE Despawn
      <3>1. queue' = <<>>
        BY <2>1 DEF Despawn
      <3>2. 1..Len(queue') = {}
        BY <3>1
      <3> QED BY <1>4, <3>2 DEF CaughtUp
    <2>2. CASE Outage /\ node' = "off"
      BY <2>2 DEF CaughtUp
    <2>3. CASE Outage /\ onAt' = now
      BY <1>2, <1>4, <2>3 DEF CaughtUp
    <2>4. CASE \E delay \in 0..MaxDelay : DecodeFrame(delay)
      <3>1. UNCHANGED <<node, onAt, queue>>
        BY <2>4 DEF DecodeFrame, serverVars
      <3> QED BY <1>1, <1>3, <1>4, <3>1 DEF CaughtUp, StartsAfter, EarliestFree, FirstFree
    <2> QED BY <2>1, <2>2, <2>3, <2>4 DEF Outage
  <1> QED BY <1>1, <1>4, <1>5, <1>6 DEF StepsOK

(* The node's turn begins.                                                 *)
LEMMA TurnSteps ==
  ASSUME IInv, IInv', StepsOK, PeriodicStep \/ Wake
  PROVE  StepsOK'
  <1>1. /\ UNCHANGED <<profile, now, node, onAt, queue, freeAt, current>>
        /\ pc = "idle" /\ current = {} /\ stage' = NodeTask
    BY DEF PeriodicStep, Wake, Dispatch, IInv, FramesInv, HandlerOK
  <1>2. now \in Nat /\ StepPeriod \in Nat \ {0} /\ ~Working
    BY <1>1, VerifierTypes DEF Working
  <1>3. PICK S \in Int : StepAt(S) /\ CaughtUp(S)
    BY DEF StepsOK
  <1>4. stepDue => now % StepPeriod = 0
    BY DEF StepsOK
  <1>5. \A v \in verifying : now <= v.finish
    BY <1>1, <1>2, VerifierTypes DEF IInv, WakesOK, Covered
  <1>6. CASE node = "active"
    <2>1. /\ verifying' = verifying /\ pc' = "frame" /\ Working'
          /\ \/ stepDue /\ ~isWake' /\ ~stepDue'
             \/ isWake' /\ stepDue' = stepDue
      BY <1>6 DEF PeriodicStep, Wake, TakeInbox, Working
    <2>2. StepAt(S)'
      BY <1>1, <1>2, <1>3, <2>1 DEF StepAt
    <2>3. CaughtUp(S)'
      BY <1>1, <1>2, <1>3, <1>5, <2>1 DEF CaughtUp, StartsAfter, EarliestFree, FirstFree
    <2> QED BY <1>1, <1>4, <2>1, <2>2, <2>3 DEF StepsOK
  <1>7. CASE node # "active"
    <2>1. ~Working' /\ pc' # "complete"
      BY <1>1, <1>7 DEF PeriodicStep, Wake, TakeInbox, Working
    <2>2. \A T \in Int : CaughtUp(T)'
      <3>1. CASE node = "off"
        BY <1>1, <3>1 DEF CaughtUp
      <3>2. CASE node = "gone"
        <4>1. queue' = <<>>
          BY <1>1, <3>2 DEF IInv, FramesInv, HandlerOK
        <4>2. 1..Len(queue') = {}
          BY <4>1
        <4> QED BY <2>1, <4>2 DEF CaughtUp
      <3> QED BY <1>7, <3>1, <3>2 DEF IInv, FramesInv, EngineTypes
    <2>3. CASE PeriodicStep
      <3>1. PICK T \in Int : T = now
        BY <1>2
      <3>2. StepAt(T)' /\ ~stepDue'
        BY <1>1, <1>2, <1>4, <2>3, <3>1 DEF StepAt, PeriodicStep
      <3> QED BY <1>1, <2>1, <2>2, <3>2 DEF StepsOK
    <2>4. CASE Wake
      <3>1. stepDue' = stepDue
        BY <2>4 DEF Wake
      <3>2. StepAt(S)'
        BY <1>1, <1>2, <1>3, <2>1, <3>1 DEF StepAt
      <3> QED BY <1>1, <1>4, <2>1, <2>2, <3>1, <3>2 DEF StepsOK
    <2> QED BY <2>3, <2>4
  <1> QED BY <1>6, <1>7

(* The next step is due one period after the last.                         *)
LEMMA TickSteps ==
  ASSUME IInv, IInv', StepsOK, Tick
  PROVE  StepsOK'
  <1>1. /\ UNCHANGED <<profile, node, onAt, queue, freeAt, current>> /\ now' = now + 1
        /\ pc = "idle" /\ pc' = "idle" /\ ~stepDue /\ current = {}
        /\ stepDue' <=> ((now + 1) % StepPeriod = 0)
    BY DEF Tick, serverVars, IInv, FramesInv, HandlerOK
  <1>2. now \in Nat /\ StepPeriod \in Nat \ {0} /\ ~Working /\ ~Working'
    BY <1>1, VerifierTypes DEF Working
  <1>3. PICK S \in Int : StepAt(S) /\ CaughtUp(S)
    BY DEF StepsOK
  <1>4. S <= now /\ now < S + StepPeriod /\ S % StepPeriod = 0
    BY <1>1, <1>2, <1>3 DEF StepAt
  <1>5. now + 1 = S + StepPeriod => stepDue'
    BY <1>1, <1>2, <1>4, StepAfter
  <1>6. S <= now + 1 /\ now + 1 <= S + StepPeriod /\ S # now + 1
        /\ (now + 1 # S + StepPeriod => now + 1 < S + StepPeriod)
    BY <1>2, <1>4
  <1>7. StepAt(S)'
    BY <1>1, <1>4, <1>5, <1>6 DEF StepAt
  <1>8. CaughtUp(S)'
    BY <1>1, <1>2, <1>3 DEF CaughtUp, StartsAfter, EarliestFree, FirstFree
  <1> QED BY <1>1, <1>2, <1>7, <1>8 DEF StepsOK

LEMMA NextSteps ==
  ASSUME IInv, IInv', StepsOK, Next
  PROVE  StepsOK'
  BY HandlerSteps, DoneSteps, EventSteps, TurnSteps, TickSteps DEF Next

(***************************************************************************)
(* A bank that only checks signatures.                                     *)
(***************************************************************************)
LEMMA OwnFree ==
  ASSUME IInv, Next, OnItsOwn, ~StartCheck
  PROVE  Verifiers' = Verifiers /\ \A s \in Verifiers : FreeOf(s)' = FreeOf(s)
  <1>1. profile' = profile
    BY OnlyBusier
  <1>2. freeAt' = freeAt \/ freeAt' = Charged(profile.signOn, now, profile.sign)
    BY DEF OnItsOwn, OwnBank, Next, DecodeFrame, Outage, Despawn, PeriodicStep, Wake, ParseFrame,
           NoMoreFrames, NoneCanStart, DeliverVerified, NoneFinished, Decide, Generate,
           ScheduleWake, Tick, EndRun, serverVars
  <1>3. freeAt'[profile.verifyOn] = freeAt[profile.verifyOn]
    BY <1>2, VerifierTypes DEF Charged, ServerTypes, OnItsOwn, OwnBank
  <1> QED BY <1>1, <1>3 DEF Verifiers, FreeOf

(* What the verifier does not do leaves the servers busy as they were.     *)
LEMMA OwnBusy ==
  ASSUME IInv, Next, OnItsOwn, ~StartCheck, verifying' = verifying
  PROVE  \A s \in Verifiers : BusyChecking(s)' <=> BusyChecking(s)
  BY OwnFree DEF BusyChecking

LEMMA EventOwn ==
  ASSUME IInv, IInv', Next, OnItsOwn, OwnPace, outages' = 0,
         \/ \E delay \in 0..MaxDelay : DecodeFrame(delay)
         \/ Outage \/ Despawn \/ Tick \/ EndRun \/ PeriodicStep \/ Wake
  PROVE  OwnPace'
  <1>1. pc = "idle" /\ ~Working /\ now \in Nat /\ current = {} /\ ~StartCheck
    BY VerifierTypes
    DEF DecodeFrame, Outage, Despawn, Tick, EndRun, PeriodicStep, Wake, Dispatch, Working, IInv,
        FramesInv, HandlerOK, StartCheck
  <1>2. Verifiers' = Verifiers /\ \A s \in Verifiers : FreeOf(s)' = FreeOf(s) /\ FreeOf(s) \in Nat
    BY <1>1, OwnFree, VerifierTypes
  <1>3. CASE \E delay \in 0..MaxDelay : DecodeFrame(delay)
    <2>1. UNCHANGED <<node, now, queue, verifying, current, pc>>
      BY <1>3 DEF DecodeFrame, serverVars
    <2> QED BY <1>1, <1>2, <2>1, OwnBusy DEF OwnPace, Working
  <1>4. CASE Outage
    BY <1>4 DEF Outage, OnItsOwn, OwnPace
  <1>5. CASE Despawn
    <2>1. queue' = <<>> /\ verifying' = {} /\ pc' = "idle" /\ node' = "gone"
      BY <1>1, <1>5 DEF Despawn
    <2>2. 1..Len(queue') = {}
      BY <2>1
    <2> QED BY <2>1, <2>2 DEF OwnPace, Working
  <1>6. CASE Tick
    <2>1. UNCHANGED <<node, queue, verifying, current, pc>> /\ now' = now + 1
      BY <1>6 DEF Tick, serverVars
    <2>2. \A i \in 1..Len(queue') : queue'[i].enqueuedAt <= now'
      BY <1>1, <2>1, VerifierTypes DEF OwnPace
    <2>3. node = "active" => \A s \in Verifiers : FreeOf(s) <= now + 1 \/ BusyChecking(s)
      BY <1>1, <1>2 DEF OwnPace
    <2> QED BY <1>1, <1>2, <2>1, <2>2, <2>3, OwnBusy DEF OwnPace, Working
  <1>7. CASE EndRun
    <2>1. UNCHANGED <<node, now, queue, verifying, current>> /\ pc' = "ended"
      BY <1>7 DEF EndRun, engineVars, serverVars
    <2> QED BY <1>1, <1>2, <2>1, OwnBusy DEF OwnPace, Working
  <1>8. CASE PeriodicStep \/ Wake
    <2>1. UNCHANGED <<node, now, queue, current>>
      BY <1>8 DEF PeriodicStep, Wake
    <2>2. CASE node = "gone"
      <3>1. pc' = "idle" /\ verifying' = verifying
        BY <1>1, <1>8, <2>2 DEF PeriodicStep, Wake, TakeInbox
      <3> QED BY <1>1, <1>2, <2>1, <3>1, OwnBusy DEF OwnPace, Working
    <2>3. CASE node = "active"
      <3>1. pc' = "frame" /\ verifying' = verifying /\ until' = now
        BY <1>8, <2>3 DEF PeriodicStep, Wake, TakeInbox
      <3>2. \A v \in verifying : v.finish \in Nat /\ now <= v.finish
        BY <1>1, VerifierTypes DEF IInv, WakesOK, Covered
      <3>3. queue # <<>> => \A s \in Verifiers : now <= FreeOf(s)
        BY <1>1, <3>2 DEF OwnPace, BusyChecking
      <3>4. \A i \in 1..Len(queue) : queue # <<>>
        BY VerifierTypes
      <3> QED BY <1>1, <1>2, <2>1, <2>3, <3>1, <3>2, <3>3, <3>4, OwnBusy DEF OwnPace, Working
    <2> QED BY <2>2, <2>3 DEF OwnPace, IInv, FramesInv, EngineTypes
  <1> QED BY <1>3, <1>4, <1>5, <1>6, <1>7, <1>8

(* The handler's steps that start and end no check.                        *)
LEMMA HandlerOwn ==
  ASSUME IInv, IInv', Next, OnItsOwn, OwnPace,
         ParseFrame \/ NoMoreFrames \/ NoneCanStart \/ NoneFinished \/ Generate \/ ScheduleWake
  PROVE  OwnPace'
  <1>1. /\ UNCHANGED <<node, now, queue, verifying>> /\ now \in Nat /\ ~StartCheck
    BY VerifierTypes
    DEF ParseFrame, NoMoreFrames, NoneCanStart, NoneFinished, Generate, ScheduleWake, StartCheck,
        engineVars, serverVars
  <1>2. Verifiers' = Verifiers /\ \A s \in Verifiers : FreeOf(s)' = FreeOf(s) /\ FreeOf(s) \in Nat
    BY <1>1, OwnFree, VerifierTypes
  <1>3. \A s \in Verifiers : BusyChecking(s)' <=> BusyChecking(s)
    BY <1>1, OwnBusy
  <1>4. CASE ParseFrame
    <2>1. profile.parse = NoCost /\ pc = "frame"
      BY <1>4 DEF OnItsOwn, OwnBank, ParseFrame
    <2>2. PICK f \in frames : /\ until' = f.at /\ pc' = "advance"
                              /\ current' = {[token |-> f.token, arrived |-> f.at, parsed |-> f.at]}
      BY <1>4, <2>1 DEF ParseFrame
    <2>3. f.at = now
      BY DEF IInv, OrderInv, HeldOK
    <2>4. \A c \in current' : c.parsed = now
      BY <2>2, <2>3
    <2> QED BY <1>1, <1>2, <1>3, <2>1, <2>2, <2>3, <2>4 DEF OwnPace, Working
  <1>5. CASE NoMoreFrames
    <2>1. pc = "frame" /\ pc' = "advance" /\ until' = now /\ current' = current
      BY <1>5 DEF NoMoreFrames
    <2> QED BY <1>1, <1>2, <1>3, <2>1 DEF OwnPace, Working
  <1>6. CASE NoneCanStart
    <2>1. pc = "advance" /\ pc' = "complete" /\ until' = until /\ current' = current
      BY <1>6 DEF NoneCanStart
    <2>2. ASSUME current = {}, queue # <<>>, NEW s \in Verifiers PROVE now < FreeOf(s)
      <3>1. 1 \in 1..Len(queue)
        BY <2>2, VerifierTypes
      <3>2. StartsAfter(queue[1].enqueuedAt, now)
        BY <1>6, <2>2, <3>1, NoneStarts DEF OnItsOwn
      <3>3. queue[1].enqueuedAt <= now /\ queue[1].enqueuedAt \in Nat
        BY <3>1, VerifierTypes DEF OwnPace
      <3>4. now < EarliestFree(profile.verifyOn)
        BY <1>1, <3>2, <3>3, VerifierTypes DEF StartsAfter, Larger
      <3> QED BY <1>1, <3>4, VerifierTypes
    <2> QED BY <1>1, <1>2, <1>3, <2>1, <2>2 DEF OwnPace, Working
  <1>7. CASE NoneFinished
    <2>1. /\ pc = "complete" /\ until' = until /\ current' = current
          /\ \/ current = {} /\ pc' = "generate"
             \/ current # {} /\ pc' = "decide"
      BY <1>7 DEF NoneFinished
    <2>2. node = "active"
      BY <2>1 DEF IInv, FramesInv, HandlerOK
    <2>3. current = {} /\ queue # <<>> => \A s \in Verifiers : BusyChecking(s)
      BY <1>1, <1>2, <2>1, <2>2 DEF OwnPace
    <2> QED BY <1>1, <1>2, <1>3, <2>1, <2>3 DEF OwnPace, Working
  <1>8. CASE Generate \/ ScheduleWake
    <2>1. /\ pc \in {"generate", "schedule"} /\ pc' \in {"generate", "schedule", "idle"}
          /\ current' = current
      BY <1>8 DEF Generate, ScheduleWake
    <2> QED BY <1>1, <1>2, <1>3, <2>1 DEF OwnPace, Working
  <1> QED BY <1>4, <1>5, <1>6, <1>7, <1>8

(* A check starts when its server is free or its frame is there, which was *)
(* not before now minus the check's length.                                *)
LEMMA StartOwn ==
  ASSUME IInv, IInv', Next, OnItsOwn, OwnPace, StartCheck
  PROVE  OwnPace'
  <1>1. /\ UNCHANGED <<node, now, until, current, pc>> /\ pc = "advance" /\ now \in Nat
        /\ profile.verify \in Nat
    BY VerifierTypes DEF StartCheck, engineVars
  <1>2. PICK n : /\ verifying' = verifying \cup {n}
                 /\ n.start = StartOf(profile.verifyOn, queue[1].enqueuedAt)
                 /\ n.start \in Nat /\ n.finish \in Nat /\ n.finish = n.start + profile.verify
    BY CheckStarted
  <1>3. PICK s \in Verifiers : /\ FreeOf(s) = EarliestFree(profile.verifyOn)
                               /\ FreeOf(s)' = n.finish
                               /\ \A o \in Verifiers : o # s => FreeOf(o)' = FreeOf(o)
    BY <1>2, CheckStarted
  <1>4. /\ Verifiers' = Verifiers /\ 1 \in 1..Len(queue)
        /\ \A i \in 1..Len(queue') : \E j \in 1..Len(queue) : queue'[i] = queue[j]
    BY CheckStarted
  <1>5. /\ queue[1].enqueuedAt <= n.start /\ FreeOf(s) <= n.start
        /\ queue[1].enqueuedAt \in Nat /\ FreeOf(s) \in Nat
    BY <1>2, <1>3, <1>4, VerifierTypes, StartFacts
  <1>6. now <= n.finish
    <2>1. now <= queue[1].enqueuedAt \/ now <= FreeOf(s)
      BY <1>1, <1>3, <1>4, <1>5 DEF OwnPace, Working
    <2> QED BY <1>1, <1>2, <1>5, <2>1
  <1>7. \A o \in Verifiers : FreeOf(o) \in Nat
    BY VerifierTypes
  <1>8. \A o \in Verifiers : FreeOf(o)' <= now \/ BusyChecking(o)'
    <2> SUFFICES ASSUME NEW o \in Verifiers PROVE FreeOf(o)' <= now \/ BusyChecking(o)'
      OBVIOUS
    <2>1. CASE o = s
      BY <1>2, <1>3, <2>1 DEF BusyChecking
    <2>2. CASE o # s
      <3>1. FreeOf(o)' = FreeOf(o) /\ (FreeOf(o) <= now \/ BusyChecking(o))
        BY <1>1, <1>3, <2>2 DEF OwnPace, IInv, FramesInv, HandlerOK
      <3> QED BY <1>2, <3>1 DEF BusyChecking
    <2> QED BY <2>1, <2>2
  <1>9. \A o \in Verifiers : now <= FreeOf(o) => now <= FreeOf(o)'
    BY <1>1, <1>3, <1>6
  <1>10. \A i \in 1..Len(queue') : /\ queue'[i].enqueuedAt <= now
                                   /\ queue'[i].enqueuedAt < now =>
                                        \A o \in Verifiers : now <= FreeOf(o)'
    BY <1>1, <1>4, <1>9 DEF OwnPace, Working
  <1>11. \A v \in verifying' : now <= v.finish
    BY <1>1, <1>2, <1>6 DEF OwnPace, Working
  <1> QED BY <1>1, <1>4, <1>8, <1>10, <1>11 DEF OwnPace, Working

LEMMA DeliverOwn ==
  ASSUME IInv, IInv', Next, OnItsOwn, OwnPace, DeliverVerified
  PROVE  OwnPace'
  <1>1. /\ UNCHANGED <<node, now, until, current, pc, queue>> /\ pc = "complete" /\ now \in Nat
        /\ ~StartCheck
    BY VerifierTypes DEF DeliverVerified, StartCheck, engineVars
  <1>2. Verifiers' = Verifiers /\ \A s \in Verifiers : FreeOf(s)' = FreeOf(s) /\ FreeOf(s) \in Nat
    BY <1>1, OwnFree, VerifierTypes
  <1>3. PICK v \in verifying : v.finish <= until /\ verifying' = verifying \ {v}
    BY DEF DeliverVerified, Finished
  <1>4. v.finish <= now
    BY <1>1, <1>3 DEF OwnPace, Working
  <1>5. \A s \in Verifiers : FreeOf(s) <= now \/ BusyChecking(s) => FreeOf(s) <= now \/ BusyChecking(s)'
    BY <1>2, <1>3, <1>4 DEF BusyChecking
  <1> QED BY <1>1, <1>2, <1>3, <1>5 DEF OwnPace, Working

LEMMA DecideOwn ==
  ASSUME IInv, IInv', Next, OnItsOwn, OwnPace, Decide
  PROVE  OwnPace'
  <1>1. /\ UNCHANGED <<node, now, until, verifying>> /\ pc = "decide" /\ now \in Nat
        /\ pc' = "frame" /\ current' = {} /\ ~StartCheck
    BY VerifierTypes DEF Decide, StartCheck, engineVars
  <1>2. Verifiers' = Verifiers /\ \A s \in Verifiers : FreeOf(s)' = FreeOf(s) /\ FreeOf(s) \in Nat
    BY <1>1, OwnFree, VerifierTypes
  <1>3. \A s \in Verifiers : BusyChecking(s)' <=> BusyChecking(s)
    BY <1>1, OwnBusy
  <1>4. \A i \in 1..Len(queue') : \/ \E j \in 1..Len(queue) : queue'[i] = queue[j]
                                  \/ queue'[i].enqueuedAt = now
    BY <1>1, DecidedQueue DEF OwnPace, Working
  <1>5. \A i \in 1..Len(queue') : /\ queue'[i].enqueuedAt <= now
                                  /\ queue'[i].enqueuedAt < now =>
                                       \A s \in Verifiers : now <= FreeOf(s)
    BY <1>1, <1>4 DEF OwnPace, Working
  <1> QED BY <1>1, <1>2, <1>3, <1>5 DEF OwnPace, Working

LEMMA NextOwn ==
  ASSUME IInv, IInv', OwnOK, Next
  PROVE  OwnOK'
  <1> SUFFICES ASSUME OnItsOwn' PROVE OwnPace'
    BY DEF OwnOK
  <1>1. outages' = outages \/ outages' = outages + 1
    BY DEF Next, DecodeFrame, Outage, Despawn, PeriodicStep, Wake, ParseFrame, NoMoreFrames,
           StartCheck, NoneCanStart, DeliverVerified, NoneFinished, Decide, Generate,
           ScheduleWake, Tick, EndRun, engineVars
  <1>2. outages \in Nat /\ outages' = 0
    BY NodeReceiveAssumption DEF IInv, FramesInv, EngineTypes, OnItsOwn
  <1>3. outages = 0
    BY <1>1, <1>2
  <1>4. OnItsOwn /\ OwnPace
    BY <1>3, OnlyBusier DEF OwnOK, OnItsOwn, OwnBank
  <1> QED BY <1>2, <1>4, EventOwn, HandlerOwn, StartOwn, DeliverOwn, DecideOwn DEF Next

(***************************************************************************)
(* The pace of the verifier, for every profile.                            *)
(***************************************************************************)

(* What a step hands over, it hands over in time.                          *)
LEMMA NextHanded ==
  ASSUME IInv, IInv', PaceInv, Next
  PROVE  HandedOverAtFinish' /\ LateByLessThanStep'
  <1>1. /\ StepPeriod \in Nat \ {0} /\ now \in Nat /\ onAt \in Nat /\ onAt' \in Nat
        /\ profile' = profile
    BY VerifierTypes, OnlyBusier DEF IInv, FramesInv, EngineTypes, Instants
  <1>2. /\ outages' = outages \/ outages' = outages + 1
        /\ onAt' = onAt \/ onAt' = now
    BY DEF Next, DecodeFrame, Outage, Despawn, PeriodicStep, Wake, ParseFrame, NoMoreFrames,
           StartCheck, NoneCanStart, DeliverVerified, NoneFinished, Decide, Generate,
           ScheduleWake, Tick, EndRun, engineVars
  <1>3. onAt <= onAt'
    BY <1>1, <1>2 DEF PaceInv
  <1>4. (OwnBank /\ outages = 0)' => OwnBank /\ outages = 0
    <2>1. outages \in Nat
      BY NodeReceiveAssumption DEF IInv, FramesInv, EngineTypes
    <2> QED BY <1>1, <1>2, <2>1 DEF OwnBank
  <1>5. /\ handed \in Seq(HandedType) /\ Len(handed) \in Nat
        /\ \A i \in 1..Len(handed) : handed[i].at \in Nat /\ handed[i].done \in Nat
    <2>1. handed \in Seq(HandedType)
      BY DEF IInv, FramesInv, NodeTypes
    <2>2. \A i \in 1..Len(handed) : handed[i] \in HandedType
      BY <2>1
    <2> QED BY <2>1, <2>2 DEF HandedType, Times
  <1>6. \A i \in 1..Len(handed) :
          /\ handed[i].at < Larger(handed[i].done, onAt') + StepPeriod
          /\ (OwnBank /\ outages = 0)' => handed[i].at = handed[i].done
    BY <1>1, <1>3, <1>4, <1>5 DEF PaceInv, HandedOverAtFinish, LateByLessThanStep, Larger
  <1>7. CASE handed' = handed
    BY <1>6, <1>7 DEF HandedOverAtFinish, LateByLessThanStep
  <1>8. CASE DeliverVerified
    <2>1. PICK v \in verifying :
            /\ v.finish <= until
            /\ handed' = Append(handed, [token |-> v.token, arrived |-> v.arrived,
                                         start |-> v.start, done |-> v.finish, at |-> now])
      BY <1>8 DEF DeliverVerified, Finished
    <2>2. PICK h : h = [token |-> v.token, arrived |-> v.arrived,
                        start |-> v.start, done |-> v.finish, at |-> now]
      OBVIOUS
    <2>3. h.done = v.finish /\ h.at = now /\ v.finish \in Nat
      BY <2>2, VerifierTypes
    <2>4. h \in HandedType
      <3>1. v \in CheckType
        BY <2>1, VerifierTypes
      <3> QED BY <1>1, <2>2, <3>1 DEF HandedType, CheckType, Times
    <2>5. /\ pc = "complete" /\ node = "active" /\ Working /\ profile.verify # NoCost
      BY <1>8, <2>1 DEF DeliverVerified, Working, IInv, FramesInv, HandlerOK, PaceInv
    <2>6. now < Larger(v.finish, onAt) + StepPeriod
      <3>1. PICK S \in Int : StepAt(S) /\ CaughtUp(S)
        BY DEF PaceInv, StepsOK
      <3>2. now <= S + StepPeriod
        BY <3>1 DEF StepAt
      <3>3. S < onAt \/ S < v.finish \/ now <= v.finish
        BY <1>1, <2>1, <2>5, <3>1 DEF CaughtUp
      <3> QED BY <1>1, <2>3, <3>2, <3>3 DEF Larger
    <2>7. now < Larger(v.finish, onAt') + StepPeriod
      <3>1. \A a, p, o, d \in Nat : o <= d /\ now < Larger(a, o) + p => now < Larger(a, d) + p
        BY <1>1 DEF Larger
      <3> QED BY <1>1, <1>3, <2>3, <2>6, <3>1
    <2>8. (OwnBank /\ outages = 0)' => now = v.finish
      <3>1. ASSUME (OwnBank /\ outages = 0)' PROVE v.finish <= now /\ now <= v.finish
        BY <1>4, <2>1, <2>5, <3>1 DEF PaceInv, OwnOK, OnItsOwn, OwnPace
      <3> QED BY <1>1, <2>3, <3>1
    <2>9. /\ Len(handed') = Len(handed) + 1 /\ handed'[Len(handed) + 1] = h
          /\ \A i \in 1..Len(handed) : handed'[i] = handed[i]
      BY <1>5, <2>1, <2>2, <2>4, AppendProperties
    <2>10. 1..Len(handed') = 1..Len(handed) \cup {Len(handed) + 1}
      BY <1>5, <2>9
    <2>11. \A i \in 1..Len(handed') :
             /\ handed'[i].at < Larger(handed'[i].done, onAt') + StepPeriod
             /\ (OwnBank /\ outages = 0)' => handed'[i].at = handed'[i].done
      BY <1>6, <2>3, <2>7, <2>8, <2>9, <2>10
    <2> QED BY <2>11 DEF HandedOverAtFinish, LateByLessThanStep
  <1>9. handed' = handed \/ DeliverVerified
    BY DEF Next, DecodeFrame, Outage, Despawn, PeriodicStep, Wake, ParseFrame, NoMoreFrames,
           StartCheck, NoneCanStart, NoneFinished, Decide, Generate, ScheduleWake, Tick, EndRun
  <1> QED BY <1>7, <1>8, <1>9

LEMMA NextServers ==
  ASSUME IInv, PaceInv, Next
  PROVE  ServersOK' /\ (profile.verify = NoCost => verifying = {})' /\ onAt' <= now'
  <1>1. profile' = profile /\ Busier(freeAt')
    BY OnlyBusier
  <1>2. CASE StartCheck
    <2>1. profile.verify # NoCost /\ UNCHANGED <<now, onAt>>
      BY <1>2, CheckStarted DEF StartCheck, engineVars
    <2> QED BY <1>1, <1>2, <2>1, ServersStart DEF PaceInv
  <1>3. CASE ~StartCheck
    <2>1. verifying' \subseteq verifying
      BY <1>3 DEF Next, DecodeFrame, Outage, Despawn, PeriodicStep, Wake, TakeInbox, SwitchedOff,
                  ParseFrame, NoMoreFrames, NoneCanStart, DeliverVerified, NoneFinished, Decide,
                  Generate, ScheduleWake, Tick, EndRun, serverVars
    <2>2. \/ now' = now /\ (onAt' = onAt \/ onAt' = now)
          \/ now' = now + 1 /\ onAt' = onAt
      BY <1>3 DEF Next, DecodeFrame, Outage, Despawn, PeriodicStep, Wake, ParseFrame, NoMoreFrames,
                  NoneCanStart, DeliverVerified, NoneFinished, Decide, Generate,
                  ScheduleWake, Tick, EndRun, engineVars
    <2>3. now \in Nat /\ onAt \in Nat
      BY VerifierTypes
    <2>4. onAt' <= now'
      BY <2>2, <2>3 DEF PaceInv
    <2> QED BY <1>1, <2>1, <2>4, ServersThen DEF PaceInv
  <1> QED BY <1>2, <1>3

LEMMA InitPace == Init => PaceInv
  <1> SUFFICES ASSUME Init PROVE PaceInv
    OBVIOUS
  <1>1. /\ verifying = {} /\ queue = <<>> /\ handed = <<>> /\ now = 0 /\ onAt = 0
        /\ pc = "idle" /\ node = "active" /\ current = {} /\ profile \in Profiles
        /\ freeAt = [b \in Banks |-> [s \in 1..profile.servers[b] |-> 0]]
    BY DEF Init
  <1>2. 1..Len(queue) = {} /\ 1..Len(handed) = {}
    BY <1>1
  <1>3. ServersOK
    <2>1. PICK g : g = [v \in verifying |-> 1]
      OBVIOUS
    <2>2. g \in [verifying -> Verifiers]
      BY <1>1, <2>1
    <2>3. Serves(g)
      BY <1>1 DEF Serves
    <2> QED BY <2>2, <2>3 DEF ServersOK
  <1>4. \A s \in Verifiers : FreeOf(s) = 0
    BY <1>1, ProfileFacts DEF Verifiers, FreeOf
  <1>5. OwnPace
    BY <1>1, <1>2, <1>4 DEF OwnPace, Working
  <1> QED BY <1>1, <1>2, <1>3, <1>5, InitSteps DEF PaceInv, OwnOK, HandedOverAtFinish,
                                                   LateByLessThanStep

LEMMA StutterPace ==
  ASSUME PaceInv, UNCHANGED vars
  PROVE  PaceInv'
  <1>1. ServersOK'
    BY DEF vars, PaceInv, ServersOK, Serves, Verifiers, FreeOf
  <1>2. StepsOK'
    BY DEF vars, PaceInv, StepsOK, StepAt, CaughtUp, StartsAfter, EarliestFree, FirstFree, Working
  <1>3. OwnOK'
    BY DEF vars, PaceInv, OwnOK, OnItsOwn, OwnBank, OwnPace, BusyChecking, Verifiers, FreeOf, Working
  <1>4. HandedOverAtFinish' /\ LateByLessThanStep'
    BY DEF vars, PaceInv, HandedOverAtFinish, LateByLessThanStep, OwnBank
  <1> QED BY <1>1, <1>2, <1>3, <1>4 DEF PaceInv, vars

(* Where parsing takes no time the verifier is never ahead of the handler. *)
EarlyInv ==
  /\ profile.parse = NoCost /\ Working => until = now
  /\ NotBeforeFinish

LEMMA NextEarly ==
  ASSUME IInv, IInv', EarlyInv, Next
  PROVE  EarlyInv'
  <1>1. /\ now \in Nat /\ profile' = profile /\ verifying \subseteq CheckType
        /\ handed \in Seq(HandedType) /\ Len(handed) \in Nat
    BY VerifierTypes, OnlyBusier DEF IInv, FramesInv, NodeTypes
  <1>2. ASSUME profile.parse = NoCost, Working' PROVE until' = now'
    <2>1. CASE ParseFrame
      <3>1. now' = now /\ \E f \in frames : until' = f.at
        BY <1>2, <2>1 DEF ParseFrame, engineVars
      <3> QED BY <3>1 DEF IInv, OrderInv, HeldOK
    <2>2. CASE PeriodicStep \/ Wake
      <3>1. now' = now /\ pc = "idle"
        BY <2>2 DEF PeriodicStep, Wake, Dispatch
      <3>2. CASE node # "gone"
        BY <2>2, <3>1, <3>2 DEF PeriodicStep, Wake, TakeInbox
      <3>3. CASE node = "gone"
        BY <1>2, <2>2, <3>1, <3>3 DEF PeriodicStep, Wake, TakeInbox, Working
      <3> QED BY <3>2, <3>3
    <2>3. CASE NoMoreFrames
      BY <2>3 DEF NoMoreFrames, engineVars
    <2>4. CASE StartCheck \/ NoneCanStart \/ DeliverVerified \/ NoneFinished \/ Decide
      <3>1. now' = now /\ until' = until /\ Working
        BY <2>4 DEF StartCheck, NoneCanStart, DeliverVerified, NoneFinished, Decide, engineVars,
                    Working
      <3> QED BY <1>2, <3>1 DEF EarlyInv
    <2>5. CASE Outage \/ Despawn \/ Generate \/ ScheduleWake \/ Tick \/ EndRun
               \/ \E delay \in 0..MaxDelay : DecodeFrame(delay)
      BY <1>2, <2>5 DEF Outage, Despawn, Generate, ScheduleWake, Tick, EndRun, DecodeFrame,
                        Dispatch, Working
    <2> QED BY <2>1, <2>2, <2>3, <2>4, <2>5 DEF Next
  <1>3. ASSUME profile.parse = NoCost
        PROVE  \A i \in 1..Len(handed') : handed'[i].done <= handed'[i].at
    <2>1. CASE DeliverVerified
      <3>1. PICK v \in verifying :
              /\ v.finish <= until
              /\ handed' = Append(handed, [token |-> v.token, arrived |-> v.arrived,
                                           start |-> v.start, done |-> v.finish, at |-> now])
        BY <2>1 DEF DeliverVerified, Finished
      <3>2. PICK h : h = [token |-> v.token, arrived |-> v.arrived,
                          start |-> v.start, done |-> v.finish, at |-> now]
        OBVIOUS
      <3>3. until = now
        BY <1>3, <2>1 DEF EarlyInv, DeliverVerified, Working
      <3>4. h.done = v.finish /\ h.at = now /\ v.finish <= now
        BY <3>1, <3>2, <3>3
      <3>5. h \in HandedType
        <4>1. v \in CheckType
          BY <1>1, <3>1
        <4> QED BY <1>1, <3>2, <4>1 DEF HandedType, CheckType, Times
      <3>6. /\ Len(handed') = Len(handed) + 1 /\ handed'[Len(handed) + 1] = h
            /\ \A i \in 1..Len(handed) : handed'[i] = handed[i]
        BY <1>1, <3>1, <3>2, <3>5, AppendProperties
      <3>7. 1..Len(handed') = 1..Len(handed) \cup {Len(handed) + 1}
        BY <1>1, <3>6
      <3> QED BY <1>3, <3>4, <3>6, <3>7 DEF EarlyInv, NotBeforeFinish
    <2>2. CASE ~DeliverVerified
      <3>1. handed' = handed
        BY <2>2 DEF Next, DecodeFrame, Outage, Despawn, PeriodicStep, Wake, ParseFrame,
                    NoMoreFrames, StartCheck, NoneCanStart, NoneFinished, Decide, Generate,
                    ScheduleWake, Tick, EndRun
      <3> QED BY <1>3, <3>1 DEF EarlyInv, NotBeforeFinish
    <2> QED BY <2>1, <2>2
  <1> QED BY <1>1, <1>2, <1>3 DEF EarlyInv, NotBeforeFinish

(* Signature checks share the servers of their bank, for every number of   *)
(* servers, every cost of a parse, a check and a signature, every policy   *)
(* and every outage.  Their messages are handed over at the instant the    *)
(* check finishes where the bank does nothing else, not before it where    *)
(* parsing takes no time, and less than one periodic step after it (or     *)
(* after the end of an outage) everywhere (server.rs: submit; runtime.rs:  *)
(* advance_verifications, complete_verifications, wake_timed).             *)
THEOREM VerifierIsSound == Spec => []VerifierSound
  <1>1. Init => PaceInv /\ EarlyInv
    <2>1. Init => EarlyInv
      BY DEF Init, EarlyInv, Working, NotBeforeFinish
    <2> QED BY <2>1, InitPace
  <1>2. IInv /\ IInv' /\ PaceInv /\ EarlyInv /\ [Next]_vars => PaceInv' /\ EarlyInv'
    <2>1. ASSUME IInv, IInv', PaceInv, Next PROVE PaceInv'
      BY <2>1, NextServers, NextSteps, NextOwn, NextHanded DEF PaceInv
    <2>2. ASSUME EarlyInv, UNCHANGED vars PROVE EarlyInv'
      BY <2>2 DEF EarlyInv, Working, NotBeforeFinish, vars
    <2> QED BY <2>1, <2>2, StutterPace, NextEarly
  <1>3. IInv /\ PaceInv /\ EarlyInv => VerifierSound
    BY ServersFit DEF PaceInv, EarlyInv, VerifierSound
  <1> QED BY <1>1, <1>2, <1>3, InductiveInvariant, PTL DEF Spec
==============================================================================
