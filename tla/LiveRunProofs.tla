---------------------------- MODULE LiveRunProofs ----------------------------
(***************************************************************************)
(* What LiveRun guarantees for every length of the run, every channel       *)
(* capacity and every retention.                                           *)
(***************************************************************************)
EXTENDS LiveRun, SequenceTheorems, TLAPS

Early == {"run", "hand", "finish"}

(* The recorder is armed only while a step is left to hand over, and a     *)
(* shutdown has always set the flag and left room for one more run.        *)
KernelInv ==
    /\ kernel.armed => kernel.phase \in {"hand", "finish"} /\ kernel.emitted < kernel.handing
    /\ kernel.phase = "finish" => kernel.handing = LastIndex
    /\ op \in {"stop", "start"} => stop
    /\ op = "start" => gen < MaxGen
    /\ draining => stop

(* Steps are in the channel in order, ahead of what reports the end, and    *)
(* after everything the engine has.                                        *)
ChanInv ==
    /\ kernel.phase \in Early =>
         /\ produced <= kernel.emitted + 1
         /\ \A k \in 1 .. Len(chan) : chan[k].kind = "step" /\ chan[k].index <= kernel.emitted
    /\ \A j, k \in 1 .. Len(chan) : j < k /\ chan[k].kind = "step" =>
         chan[j].kind = "step" /\ chan[j].index < chan[k].index
    /\ \A k \in 1 .. Len(chan) : chan[k].kind = "step" => produced <= chan[k].index

WindowInv ==
    /\ base <= cursor /\ cursor <= produced
    /\ base + Len(timeline) <= produced
    /\ base <= LastIndex /\ produced <= LastIndex + 1
    /\ Len(timeline) <= Retain

(* Until a stop nothing is lost between the recorder and the window, and    *)
(* the end is only reported behind the last step.                          *)
Unbroken ==
    /\ produced = base + Len(timeline)
    /\ \A j \in 1 .. Len(timeline) : timeline[j] = base + j - 1
    /\ \A k \in 1 .. Len(chan) :
         IF chan[k].kind = "step" THEN chan[k].index = produced + k - 1
         ELSE produced + k - 1 > LastIndex
    /\ kernel.phase \in Early => kernel.emitted + 1 = produced + Len(chan)
    /\ kernel.phase \in {"export", "report"} => produced + Len(chan) > LastIndex
    /\ report => produced = LastIndex + 1

(* Where the stream is, in terms of what the clients were shown last.      *)
Position ==
    /\ cursor = produced => shown = cursor - 1
    /\ cursor = Larger(shown + 1, base)
    /\ Retain > LastIndex => cursor = shown + 1

IInv ==
    /\ TypeOK
    /\ KernelInv
    /\ ChanInv
    /\ WindowInv
    /\ ~stop => Unbroken /\ Position

-----------------------------------------------------------------------------
(* What the operators on sequences return.                                 *)

LEMMA TailFacts ==
    ASSUME NEW S, NEW s \in Seq(S), s # <<>>
    PROVE  /\ Head(s) = s[1] /\ Head(s) \in S
           /\ Tail(s) \in Seq(S) /\ Len(Tail(s)) = Len(s) - 1
           /\ \A k \in 1 .. Len(Tail(s)) : Tail(s)[k] = s[k + 1]
  BY HeadTailProperties

LEMMA AppendFacts ==
    ASSUME NEW S, NEW s \in Seq(S), NEW e \in S
    PROVE  /\ Append(s, e) \in Seq(S) /\ Len(Append(s, e)) = Len(s) + 1
           /\ \A k \in 1 .. Len(s) : Append(s, e)[k] = s[k]
           /\ Append(s, e)[Len(s) + 1] = e
  BY AppendProperties

LEMMA SuffixFacts ==
    ASSUME NEW S, NEW s \in Seq(S), NEW n \in 0 .. Len(s)
    PROVE  /\ SubSeq(s, n + 1, Len(s)) \in Seq(S)
           /\ Len(SubSeq(s, n + 1, Len(s))) = Len(s) - n
           /\ \A k \in 1 .. Len(s) - n : SubSeq(s, n + 1, Len(s))[k] = s[n + k]
  BY SubSeqProperties

LEMMA MessageFacts ==
    ASSUME NEW s \in Seq(HostMsg), NEW k \in 1 .. Len(s)
    PROVE  /\ s[k] \in HostMsg /\ s[k].index \in Index \cup {None}
           /\ s[k].kind = "step" => s[k].index \in Index
  <1>1. s[k] \in HostMsg
    OBVIOUS
  <1> QED
    BY <1>1 DEF HostMsg, Step, Done, Failed, Export

-----------------------------------------------------------------------------
LEMMA InitInv == Init => IInv
  <1> SUFFICES ASSUME Init PROVE IInv
    OBVIOUS
  <1> USE LiveRunAssumption DEF Init, FreshEngine, None, Index
  <1>1. kernel \in KernelStates /\ kernel.phase = "run" /\ ~kernel.armed /\ kernel.emitted = -1
    BY DEF FreshKernel, KernelStates
  <1>2. seeker \in SeekerStates
    BY DEF IdleSeeker, SeekerStates
  <1>3. /\ pc \in [Tickers -> {"check", "free", "paced", "idle", "tick", "send", "notify", "dead"}]
        /\ out \in [Tickers -> [gen : Nat \cup {None}, index : Index \cup {None}]]
    BY DEF Home, NoStep
  <1>4. /\ chan \in Seq(HostMsg) /\ Len(chan) = 0
        /\ timeline \in Seq(Index) /\ Len(timeline) = 0
    OBVIOUS
  <1>6. /\ state \in {"running", "paused"} /\ goal = None /\ ~report /\ ~failure
        /\ report \in BOOLEAN /\ failure \in BOOLEAN
        /\ base = 0 /\ cursor = 0 /\ produced = 0
        /\ gen = 0 /\ op = "none" /\ ~draining /\ ~stop /\ shown = None
        /\ draining \in BOOLEAN /\ stop \in BOOLEAN
        /\ sync \in BOOLEAN /\ behind \in BOOLEAN /\ calls \in Workloads
    OBVIOUS
  <1> HIDE DEF Init, FreshEngine
  <1>7. TypeOK
    BY <1>1, <1>2, <1>3, <1>4, <1>6 DEF TypeOK
  <1>5. KernelInv /\ ChanInv /\ WindowInv /\ Unbroken /\ Position
    BY <1>1, <1>4, <1>6 DEF KernelInv, ChanInv, WindowInv, Unbroken, Position, Early, Larger
  <1> QED
    BY <1>5, <1>7 DEF IInv

(* The kernel's own steps, as far as they do not touch the channel.        *)
LEMMA KernelOnly ==
    ASSUME IInv, kernel' \in KernelStates,
           UNCHANGED <<stop, chan, engineVars, gen, callerVars, shown, clients>>,
           KernelInv',
           kernel'.phase \in Early => kernel.phase \in Early /\ kernel'.emitted = kernel.emitted,
           kernel'.phase \in {"export", "report"} /\ ~stop =>
             kernel.phase \in Early /\ kernel.emitted = LastIndex
    PROVE  IInv'
  <1> USE LiveRunAssumption DEF Index, None, engineVars, callerVars, clients
  <1>1. TypeOK'
    BY DEF IInv, TypeOK
  <1>2. ChanInv' /\ WindowInv'
    BY DEF IInv, ChanInv, WindowInv
  <1>3. ASSUME ~stop PROVE Unbroken'
    <2>1. /\ produced' = produced /\ base' = base /\ timeline' = timeline
          /\ chan' = chan /\ report' = report
      OBVIOUS
    <2>2. Unbroken
      BY <1>3 DEF IInv
    <2>3. kernel'.phase \in Early => kernel'.emitted + 1 = produced + Len(chan)
      BY <2>2 DEF Unbroken
    <2>4. kernel'.phase \in {"export", "report"} => produced + Len(chan) > LastIndex
      <3>1. produced \in Nat /\ Len(chan) \in Nat
        BY DEF IInv, TypeOK
      <3> QED BY <1>3, <2>2, <3>1 DEF Unbroken
    <2> QED BY <2>1, <2>2, <2>3, <2>4 DEF Unbroken
  <1>4. ~stop => Position'
    BY DEF IInv, Position
  <1> QED
    BY <1>1, <1>2, <1>3, <1>4 DEF IInv

(* The kernel thread only touches its own state and the end of the channel. *)
LEMMA KernelKeeps == IInv /\ KernelStep => IInv'
  <1> SUFFICES ASSUME IInv, KernelStep PROVE IInv'
    OBVIOUS
  <1> USE LiveRunAssumption DEF Index, None
  <1>1. ASSUME NEW i \in Index, KernelRecords(i) PROVE IInv'
    <2>1. /\ kernel' \in KernelStates /\ ~kernel.armed /\ ~kernel'.armed
          /\ kernel'.phase \in {"run", "hand"} /\ kernel.phase = "run"
          /\ kernel'.emitted = kernel.emitted
      BY <1>1 DEF KernelRecords, IInv, TypeOK, KernelStates, KernelInv
    <2>2. UNCHANGED <<stop, chan, engineVars, gen, callerVars, shown, clients>>
      BY <1>1 DEF KernelRecords
    <2>3. KernelInv'
      BY <2>1, <2>2 DEF IInv, KernelInv, callerVars
    <2> QED BY <2>1, <2>2, <2>3, KernelOnly DEF Early
  <1>2. ASSUME NEW o \in {"done", "failed"}, KernelRunEnds(o) PROVE IInv'
    <2>0. ~kernel.armed /\ LastIndex \in Index
      BY <1>2 DEF KernelRunEnds, IInv, KernelInv
    <2>1. /\ kernel' \in KernelStates /\ ~kernel'.armed
          /\ kernel'.phase = "finish" /\ kernel.phase = "run"
          /\ kernel'.emitted = kernel.emitted /\ kernel'.handing = LastIndex
      BY <1>2, <2>0 DEF KernelRunEnds, IInv, TypeOK, KernelStates
    <2>2. UNCHANGED <<stop, chan, engineVars, gen, callerVars, shown, clients>>
      BY <1>2 DEF KernelRunEnds
    <2>3. KernelInv'
      BY <2>1, <2>2 DEF IInv, KernelInv, callerVars
    <2> QED BY <2>1, <2>2, <2>3, KernelOnly DEF Early
  <1>3. ASSUME KernelArms \/ KernelParks PROVE IInv'
    <2>1. /\ kernel' \in KernelStates
          /\ kernel'.phase = kernel.phase /\ kernel.phase \in {"hand", "finish"}
          /\ kernel'.emitted = kernel.emitted /\ kernel'.handing = kernel.handing
          /\ kernel.emitted < kernel.handing
      <3>1. CASE KernelArms
        BY <3>1 DEF KernelArms, IInv, TypeOK, KernelStates
      <3>2. CASE KernelParks
        BY <3>2 DEF KernelParks, IInv, TypeOK, KernelStates, KernelInv
      <3> QED BY <1>3, <3>1, <3>2
    <2>2. UNCHANGED <<stop, chan, engineVars, gen, callerVars, shown, clients>>
      BY <1>3 DEF KernelArms, KernelParks
    <2>3. KernelInv'
      BY <2>1, <2>2 DEF IInv, KernelInv, callerVars
    <2> QED BY <2>1, <2>2, <2>3, KernelOnly DEF Early
  <1>4. ASSUME KernelSends PROVE IInv'
    <2>1. /\ NextSent \in Index /\ NextSent = kernel.emitted + 1 /\ NextSent <= kernel.handing
          /\ kernel.phase \in Early
      <3>1. /\ kernel.emitted \in Index \cup {None} /\ kernel.handing \in Index \cup {None}
            /\ kernel.emitted < kernel.handing /\ kernel.phase \in {"hand", "finish"}
        BY <1>4 DEF KernelSends, IInv, TypeOK, KernelStates, KernelInv
      <3> QED BY <3>1 DEF NextSent, Early
    <2>2. /\ Step(NextSent) \in HostMsg
          /\ Step(NextSent).kind = "step" /\ Step(NextSent).index = NextSent
      BY <2>1 DEF Step, HostMsg
    <2>3. /\ kernel' \in KernelStates /\ ~kernel'.armed /\ kernel'.phase = kernel.phase
          /\ kernel'.emitted = NextSent /\ kernel'.handing = kernel.handing
      BY <1>4, <2>1 DEF KernelSends, IInv, TypeOK, KernelStates
    <2>4. /\ chan' \in Seq(HostMsg) /\ Len(chan') = Len(chan) + 1
          /\ \A k \in 1 .. Len(chan) : chan'[k] = chan[k]
          /\ chan'[Len(chan) + 1] = Step(NextSent)
      BY <1>4, <2>2, AppendFacts DEF KernelSends, IInv, TypeOK
    <2>5. UNCHANGED <<stop, engineVars, gen, callerVars, shown, clients>> /\ HasRoom
      BY <1>4 DEF KernelSends
    <2>6. TypeOK'
      BY <2>3, <2>4, <2>5 DEF HasRoom, IInv, TypeOK, engineVars, callerVars, clients
    <2>7. KernelInv' /\ WindowInv'
      BY <2>3, <2>5 DEF IInv, KernelInv, WindowInv, engineVars, callerVars
    <2>8. ChanInv'
      <3>0. /\ Len(chan) \in Nat /\ kernel.emitted \in Int /\ produced \in Nat
            /\ produced' = produced /\ produced <= kernel.emitted + 1
            /\ \A k \in 1 .. Len(chan) : chan[k].index \in Int
        BY <2>1, <2>5, MessageFacts DEF IInv, TypeOK, ChanInv, KernelStates, engineVars
      <3>1. \A k \in 1 .. Len(chan) : chan[k].kind = "step" /\ chan[k].index <= kernel.emitted
        BY <2>1 DEF IInv, ChanInv
      <3>2. ASSUME NEW k \in 1 .. Len(chan')
            PROVE  k \in 1 .. Len(chan) \/ k = Len(chan) + 1
        BY <2>4, <3>0
      <3>3. \A k \in 1 .. Len(chan') : chan'[k].kind = "step" /\ chan'[k].index <= kernel'.emitted
        BY <2>1, <2>2, <2>3, <2>4, <3>0, <3>1, <3>2
      <3>4. ASSUME NEW j \in 1 .. Len(chan'), NEW k \in 1 .. Len(chan'), j < k
            PROVE  chan'[j].index < chan'[k].index
        <4>1. j \in 1 .. Len(chan) /\ chan'[j] = chan[j]
          BY <2>4, <3>0, <3>2, <3>4
        <4>2. CASE k \in 1 .. Len(chan)
          BY <2>4, <3>1, <3>4, <4>1, <4>2 DEF IInv, ChanInv
        <4>3. CASE k = Len(chan) + 1
          BY <2>1, <2>2, <2>4, <3>0, <3>1, <4>1, <4>3
        <4> QED BY <3>2, <4>2, <4>3
      <3>5. ASSUME NEW k \in 1 .. Len(chan') PROVE produced <= chan'[k].index
        <4>1. CASE k \in 1 .. Len(chan)
          BY <2>4, <3>1, <4>1 DEF IInv, ChanInv
        <4>2. CASE k = Len(chan) + 1
          BY <2>1, <2>2, <2>4, <3>0, <4>2
        <4> QED BY <3>2, <4>1, <4>2
      <3>6. produced' <= kernel'.emitted + 1
        BY <2>1, <2>3, <3>0
      <3> QED BY <3>0, <3>3, <3>4, <3>5, <3>6 DEF ChanInv
    <2>9. (~stop => Unbroken /\ Position)'
      <3> SUFFICES ASSUME ~stop PROVE Unbroken' /\ Position'
        BY <2>5
      <3> USE <2>1, <2>2, <2>3, <2>4, <2>5 DEF IInv, TypeOK, engineVars
      <3>1. /\ kernel'.emitted + 1 = produced' + Len(chan')
            /\ NextSent = produced + (Len(chan) + 1) - 1
        BY DEF Unbroken, KernelStates
      <3>2. \A k \in 1 .. Len(chan') :
              IF chan'[k].kind = "step" THEN chan'[k].index = produced + k - 1
              ELSE produced + k - 1 > LastIndex
        <4> SUFFICES ASSUME NEW k \in 1 .. Len(chan')
                     PROVE  IF chan'[k].kind = "step" THEN chan'[k].index = produced + k - 1
                            ELSE produced + k - 1 > LastIndex
          OBVIOUS
        <4>1. CASE k \in 1 .. Len(chan)
          BY <4>1 DEF Unbroken
        <4>2. CASE k = Len(chan) + 1
          BY <4>2, <3>1
        <4> QED BY <4>1, <4>2
      <3> QED BY <3>1, <3>2 DEF Unbroken, Position, Early
    <2> QED BY <2>6, <2>7, <2>8, <2>9 DEF IInv
  <1>5. ASSUME KernelHandedOver \/ KernelCancelled PROVE IInv'
    <2>1. /\ kernel' \in KernelStates /\ ~kernel'.armed
          /\ kernel.phase \in Early /\ kernel'.phase \in {"run", "export", "report"}
          /\ kernel'.emitted = kernel.emitted
          /\ kernel'.phase # "run" /\ ~stop => kernel.emitted = LastIndex
      <3>1. CASE KernelHandedOver
        <4>1. /\ kernel \in KernelStates /\ ~kernel.armed
              /\ kernel.phase = "finish" => kernel.emitted = LastIndex
          BY <3>1 DEF KernelHandedOver, IInv, TypeOK, KernelInv, KernelStates
        <4>2. PICK next \in {"run", "export", "report"} :
                /\ kernel' = [kernel EXCEPT !.phase = next]
                /\ kernel.phase = "hand" => next = "run"
          BY <3>1 DEF KernelHandedOver
        <4>3. kernel.phase \in {"hand", "finish"}
          BY <3>1 DEF KernelHandedOver
        <4> QED BY <4>1, <4>2, <4>3 DEF KernelStates, Early
      <3>2. CASE KernelCancelled
        BY <3>2 DEF KernelCancelled, IInv, TypeOK, KernelStates, KernelInv, Early
      <3> QED BY <1>5, <3>1, <3>2
    <2>2. UNCHANGED <<stop, chan, engineVars, gen, callerVars, shown, clients>>
      BY <1>5 DEF KernelHandedOver, KernelCancelled
    <2>3. KernelInv'
      BY <2>1, <2>2 DEF IInv, KernelInv, callerVars
    <2> QED BY <2>1, <2>2, <2>3, KernelOnly DEF Early
  <1>6. ASSUME KernelReports PROVE IInv'
    <2>1. /\ kernel' \in KernelStates /\ kernel'.phase \in {"report", "ended"}
          /\ kernel.phase \in {"export", "report"} /\ kernel'.armed = kernel.armed
      <3>1. PICK next \in {"report", "ended"} : kernel' = [kernel EXCEPT !.phase = next]
        BY <1>6 DEF KernelReports
      <3>2. kernel.phase \in {"export", "report"} /\ kernel \in KernelStates
        BY <1>6 DEF KernelReports, IInv, TypeOK
      <3> QED BY <3>1, <3>2 DEF KernelStates
    <2>2. PICK m \in {Export, Done, Failed} : chan' = Append(chan, m)
      BY <1>6 DEF KernelReports
    <2>3. m \in HostMsg /\ m.kind # "step"
      BY DEF HostMsg, Export, Done, Failed
    <2>4. /\ chan' \in Seq(HostMsg) /\ Len(chan') = Len(chan) + 1
          /\ \A k \in 1 .. Len(chan) : chan'[k] = chan[k]
          /\ chan'[Len(chan) + 1] = m
      BY <2>2, <2>3, AppendFacts DEF IInv, TypeOK
    <2>5. UNCHANGED <<stop, engineVars, gen, callerVars, shown, clients>> /\ HasRoom
      BY <1>6 DEF KernelReports
    <2>6. TypeOK'
      BY <2>1, <2>4, <2>5 DEF HasRoom, IInv, TypeOK, engineVars, callerVars, clients
    <2>7. KernelInv' /\ WindowInv'
      BY <2>1, <2>5 DEF IInv, KernelInv, WindowInv, Early, engineVars, callerVars
    <2>8. ChanInv'
      <3> USE <2>1, <2>3, <2>4, <2>5 DEF IInv, TypeOK, ChanInv, engineVars
      <3>1. \A k \in 1 .. Len(chan') : chan'[k].kind = "step" =>
              k \in 1 .. Len(chan) /\ chan'[k] = chan[k]
        OBVIOUS
      <3>2. \A j, k \in 1 .. Len(chan') : j < k /\ chan'[k].kind = "step" =>
              chan'[j].kind = "step" /\ chan'[j].index < chan'[k].index
        <4> SUFFICES ASSUME NEW j \in 1 .. Len(chan'), NEW k \in 1 .. Len(chan'), j < k,
                            chan'[k].kind = "step"
                     PROVE  chan'[j].kind = "step" /\ chan'[j].index < chan'[k].index
          OBVIOUS
        <4>1. k \in 1 .. Len(chan) /\ chan'[k] = chan[k]
          BY <3>1
        <4>2. j \in 1 .. Len(chan) /\ chan'[j] = chan[j]
          BY <4>1
        <4> QED BY <4>1, <4>2
      <3> QED BY <3>1, <3>2 DEF Early
    <2>9. (~stop => Unbroken /\ Position)'
      <3> SUFFICES ASSUME ~stop PROVE Unbroken' /\ Position'
        BY <2>5
      <3> USE <2>1, <2>3, <2>4, <2>5 DEF IInv, TypeOK, engineVars
      <3>1. produced + Len(chan) > LastIndex
        BY DEF Unbroken
      <3>2. \A k \in 1 .. Len(chan') :
              IF chan'[k].kind = "step" THEN chan'[k].index = produced + k - 1
              ELSE produced + k - 1 > LastIndex
        <4> SUFFICES ASSUME NEW k \in 1 .. Len(chan')
                     PROVE  IF chan'[k].kind = "step" THEN chan'[k].index = produced + k - 1
                            ELSE produced + k - 1 > LastIndex
          OBVIOUS
        <4>1. CASE k \in 1 .. Len(chan)
          BY <4>1 DEF Unbroken
        <4>2. CASE k = Len(chan) + 1
          BY <4>2, <3>1
        <4> QED BY <4>1, <4>2
      <3>3. Unbroken'
        BY <3>1, <3>2 DEF Unbroken, Early
      <3>4. Position'
        BY DEF Position
      <3> QED BY <3>3, <3>4
    <2> QED BY <2>6, <2>7, <2>8, <2>9 DEF IInv
  <1> QED
    BY <1>1, <1>2, <1>3, <1>4, <1>5, <1>6 DEF KernelStep

-----------------------------------------------------------------------------
(* A step taken into the window: the window stays within the retention and *)
(* below produced, and stays contiguous if the step continues it.          *)
LEMMA AbsorbFacts ==
    ASSUME IInv, MayTake, NEW i \in Index, produced <= i, AbsorbStep(i)
    PROVE  /\ timeline' \in Seq(Index) /\ base' \in Nat /\ cursor' \in Nat
           /\ produced' = i + 1
           /\ WindowInv'
           /\ cursor' = cursor \/ cursor' <= i
           /\ base <= base' /\ cursor' = Larger(cursor, base')
           /\ Unbroken /\ i = produced =>
                /\ produced' = base' + Len(timeline')
                /\ \A j \in 1 .. Len(timeline') : timeline'[j] = base' + j - 1
                /\ Retain > LastIndex => cursor' = cursor
  <1> DEFINE first == IF timeline = <<>> THEN i ELSE base
             held  == Append(timeline, i)
             n     == Dropped(Len(held), first)
  <1> USE LiveRunAssumption DEF Index, None
  <1>1. /\ timeline \in Seq(Index) /\ base \in Nat /\ cursor \in Nat /\ produced \in Nat
        /\ WindowInv /\ goal \in Index \cup {None}
    BY DEF IInv, TypeOK
  <1>2. /\ held \in Seq(Index) /\ Len(held) = Len(timeline) + 1
        /\ \A k \in 1 .. Len(timeline) : held[k] = timeline[k]
        /\ held[Len(timeline) + 1] = i
    BY <1>1, AppendFacts
  <1>3. /\ first \in Nat /\ first + Len(timeline) <= i /\ base <= first
        /\ timeline # <<>> => first = base
        /\ timeline = <<>> => first = i /\ Len(timeline) = 0
    BY <1>1 DEF WindowInv
  <1>4. /\ n \in 0 .. Len(timeline) /\ Len(held) - n <= Retain
        /\ n = 0 \/ n <= Len(held) - Retain
    <2>1. CASE goal # None
      BY <2>1, <1>1, <1>2 DEF Dropped, Larger, WindowInv
    <2>2. CASE goal = None /\ Len(timeline) < Retain
      BY <2>2, <1>1, <1>2, <1>3 DEF Dropped, Larger, Smaller
    <2>3. CASE goal = None /\ Len(timeline) = Retain
      <3>1. base < cursor /\ timeline # <<>>
        BY <2>3, <1>1 DEF MayTake, Seeking
      <3> QED
        BY <2>3, <3>1, <1>1, <1>2, <1>3 DEF Dropped, Larger, Smaller
    <2> QED
      BY <2>1, <2>2, <2>3, <1>1 DEF WindowInv
  <1>5. /\ timeline' = SubSeq(held, n + 1, Len(held)) /\ base' = first + n
        /\ produced' = i + 1 /\ cursor' = Larger(cursor, first + n)
    BY DEF AbsorbStep
  <1>6. /\ timeline' \in Seq(Index) /\ Len(timeline') = Len(held) - n
        /\ \A k \in 1 .. Len(held) - n : timeline'[k] = held[n + k]
    <2> HIDE DEF first, held, n
    <2>1. n \in 0 .. Len(held)
      BY <1>1, <1>2, <1>4
    <2> QED
      BY <1>2, <1>5, <2>1, SuffixFacts
  <1> HIDE DEF first, held, n
  <1>7. base' \in Nat /\ cursor' \in Nat /\ cursor' >= base' /\ cursor' >= cursor
        /\ (cursor' = cursor \/ cursor' = base') /\ base' <= i
        /\ base <= base' /\ cursor' = Larger(cursor, base')
    BY <1>1, <1>3, <1>4, <1>5 DEF Larger
  <1>8. WindowInv'
    <2>1. Len(timeline) \in Nat /\ n \in Nat
      BY <1>1, <1>4
    <2>0. base' = first + n /\ produced' = i + 1
      BY <1>5
    <2>2. base' + Len(timeline') = first + Len(timeline) + 1
      BY <1>2, <1>3, <1>6, <2>0, <2>1
    <2>3. base' + Len(timeline') <= produced' /\ Len(timeline') <= Retain
      BY <1>3, <1>4, <1>6, <2>0, <2>1, <2>2
    <2>4. cursor' <= produced'
      BY <1>1, <1>5, <1>7 DEF WindowInv
    <2> QED
      BY <1>7, <2>0, <2>3, <2>4 DEF WindowInv
  <1>9. ASSUME Unbroken, i = produced
        PROVE  /\ produced' = base' + Len(timeline')
               /\ \A j \in 1 .. Len(timeline') : timeline'[j] = base' + j - 1
               /\ Retain > LastIndex => cursor' = cursor
    <2>1. first = base /\ produced = base + Len(timeline)
      BY <1>9, <1>1, <1>3 DEF Unbroken
    <2>2. ASSUME NEW k \in 1 .. Len(held) PROVE held[k] = base + k - 1
      <3>1. CASE k \in 1 .. Len(timeline)
        BY <3>1, <1>2, <1>9 DEF Unbroken
      <3>2. CASE k = Len(timeline) + 1
        BY <3>2, <1>1, <1>2, <1>9, <2>1
      <3> QED BY <3>1, <3>2, <1>1, <1>2
    <2>3. produced' = base' + Len(timeline')
      BY <1>9, <1>1, <1>2, <1>4, <1>5, <1>6, <2>1
    <2>4. ASSUME NEW j \in 1 .. Len(timeline') PROVE timeline'[j] = base' + j - 1
      <3>1. n + j \in 1 .. Len(held) /\ timeline'[j] = held[n + j]
        BY <2>4, <1>2, <1>4, <1>6
      <3> QED
        BY <3>1, <2>1, <2>2, <1>1, <1>4, <1>5
    <2>5. ASSUME Retain > LastIndex PROVE cursor' = cursor
      <3>1. n = 0
        BY <2>5, <2>1, <1>1, <1>2, <1>3, <1>4
      <3> QED
        BY <3>1, <2>1, <1>1, <1>5 DEF Larger, WindowInv
    <2> QED BY <2>3, <2>4, <2>5
  <1> QED
    BY <1>5, <1>6, <1>7, <1>8, <1>9

LEMMA TakeKeeps == IInv /\ Take => IInv'
  <1> SUFFICES ASSUME IInv, Take PROVE IInv'
    OBVIOUS
  <1> USE LiveRunAssumption DEF Index, None
  <1> DEFINE m == chan[1]
  <1>1. /\ chan # <<>> /\ Head(chan) = m /\ m \in HostMsg /\ 1 \in 1 .. Len(chan)
        /\ chan' \in Seq(HostMsg) /\ Len(chan') = Len(chan) - 1
        /\ \A k \in 1 .. Len(chan') : chan'[k] = chan[k + 1] /\ k + 1 \in 1 .. Len(chan)
    BY TailFacts DEF Take, IInv, TypeOK
  <1>2. /\ UNCHANGED <<kernel, stop, goal, gen, op, draining, pc, out, seeker, shown>>
        /\ UNCHANGED <<sync, behind, calls>> /\ MayTake
    BY DEF Take, callerVars, clients
  <1>3. KernelInv'
    BY <1>2 DEF IInv, KernelInv
  <1>0. produced \in Nat /\ kernel.emitted \in Int /\ chan \in Seq(HostMsg)
    BY DEF IInv, TypeOK, KernelStates
  <1>4. ASSUME m.kind = "step", AbsorbStep(m.index) PROVE IInv'
    <2> DEFINE i == m.index
    <2>1. i \in Index /\ produced <= i
      <3>1. produced <= m.index
        BY <1>1, <1>4 DEF IInv, ChanInv
      <3> QED BY <1>0, <1>1, <1>4, <3>1, MessageFacts
    <2>2. /\ timeline' \in Seq(Index) /\ base' \in Nat /\ cursor' \in Nat
          /\ produced' = i + 1
          /\ WindowInv'
          /\ cursor' = cursor \/ cursor' <= i
          /\ base <= base' /\ cursor' = Larger(cursor, base')
          /\ Unbroken /\ i = produced =>
                /\ produced' = base' + Len(timeline')
                /\ \A j \in 1 .. Len(timeline') : timeline'[j] = base' + j - 1
                /\ Retain > LastIndex => cursor' = cursor
      BY <1>2, <1>4, <2>1, AbsorbFacts
    <2>3. UNCHANGED <<report, failure, state>>
      BY <1>4 DEF AbsorbStep
    <2>4. TypeOK'
      <3>1. timeline' \in Seq(Index) /\ base' \in Nat /\ cursor' \in Nat /\ produced' \in Nat
        BY <2>1, <2>2
      <3>2. chan' \in Seq(HostMsg) /\ Len(chan') <= Lookahead
        BY <1>0, <1>1 DEF IInv, TypeOK
      <3> QED
        BY <1>2, <2>3, <3>1, <3>2 DEF IInv, TypeOK
    <2>5. ChanInv'
      <3>1. ASSUME NEW k \in 1 .. Len(chan') PROVE chan'[k].kind = "step" => produced' <= chan'[k].index
        <4> SUFFICES ASSUME chan'[k].kind = "step" PROVE produced' <= chan'[k].index
          OBVIOUS
        <4>1. chan'[k] = chan[k + 1] /\ k + 1 \in 1 .. Len(chan) /\ 1 < k + 1
          BY <1>1
        <4>2. chan[k + 1].index \in Int
          BY <1>0, <4>1, MessageFacts
        <4>3. i < chan[k + 1].index
          BY <1>1, <4>1 DEF IInv, ChanInv
        <4> QED BY <4>1, <4>2, <4>3, <2>1, <2>2
      <3>2. ASSUME kernel.phase \in Early PROVE i <= kernel.emitted
        BY <1>1, <3>2 DEF IInv, ChanInv
      <3>3. ASSUME kernel.phase \in Early PROVE produced' <= kernel.emitted + 1
        BY <1>0, <2>1, <2>2, <3>2, <3>3
      <3>4. ASSUME NEW j \in 1 .. Len(chan'), NEW k \in 1 .. Len(chan'), j < k,
                   chan'[k].kind = "step"
            PROVE  chan'[j].kind = "step" /\ chan'[j].index < chan'[k].index
        <4>1. /\ chan'[j] = chan[j + 1] /\ j + 1 \in 1 .. Len(chan)
              /\ chan'[k] = chan[k + 1] /\ k + 1 \in 1 .. Len(chan) /\ j + 1 < k + 1
          BY <1>0, <1>1, <3>4
        <4> QED BY <3>4, <4>1 DEF IInv, ChanInv
      <3>5. ASSUME kernel.phase \in Early, NEW k \in 1 .. Len(chan')
            PROVE  chan'[k].kind = "step" /\ chan'[k].index <= kernel.emitted
        BY <1>1, <3>5 DEF IInv, ChanInv
      <3> QED
        BY <1>2, <3>1, <3>3, <3>4, <3>5 DEF ChanInv
    <2>6. (~stop => Unbroken /\ Position)'
      <3> SUFFICES ASSUME ~stop PROVE Unbroken' /\ Position'
        BY <1>2
      <3>1. Unbroken /\ Position /\ i = produced
        BY <1>1, <1>4 DEF IInv, TypeOK, Unbroken
      <3>2. /\ produced' = base' + Len(timeline') /\ produced' = produced + 1
            /\ \A j \in 1 .. Len(timeline') : timeline'[j] = base' + j - 1
        BY <3>1, <2>2
      <3>3. ASSUME NEW k \in 1 .. Len(chan')
            PROVE  IF chan'[k].kind = "step" THEN chan'[k].index = produced' + k - 1
                   ELSE produced' + k - 1 > LastIndex
        <4>1. chan'[k] = chan[k + 1] /\ k + 1 \in 1 .. Len(chan)
          BY <1>1
        <4>2. IF chan[k + 1].kind = "step" THEN chan[k + 1].index = produced + (k + 1) - 1
              ELSE produced + (k + 1) - 1 > LastIndex
          BY <3>1, <4>1 DEF Unbroken
        <4>3. produced' + k - 1 = produced + (k + 1) - 1
          BY <1>0, <3>2
        <4> QED BY <4>1, <4>2, <4>3
      <3>4. /\ kernel.phase \in Early => kernel.emitted + 1 = produced' + Len(chan')
            /\ kernel.phase \in {"export", "report"} => produced' + Len(chan') > LastIndex
        <4>1. /\ kernel.phase \in Early => kernel.emitted + 1 = produced + Len(chan)
              /\ kernel.phase \in {"export", "report"} => produced + Len(chan) > LastIndex
          BY <3>1 DEF Unbroken
        <4>2. produced' + Len(chan') = produced + Len(chan)
          <5>1. Len(chan) \in Nat /\ Len(chan') = Len(chan) - 1 /\ produced' = produced + 1
            BY <1>0, <1>1, <3>2
          <5> QED BY <1>0, <5>1
        <4> QED BY <4>1, <4>2
      <3>5. report' => produced' = LastIndex + 1
        BY <2>1, <2>3, <3>1 DEF Unbroken
      <3>6. Position'
        <4>1. cursor \in Nat /\ base \in Nat /\ shown \in Nat \cup {-1} /\ shown' = shown
          BY <1>2, <1>4 DEF IInv, TypeOK, None
        <4>2. cursor' = Larger(shown' + 1, base')
          BY <2>2, <3>1, <4>1 DEF Position, Larger
        <4>3. cursor' # produced'
          <5>1. cursor <= produced
            BY DEF IInv, WindowInv
          <5>2. i \in Int /\ produced' = i + 1 /\ produced <= i /\ (cursor' = cursor \/ cursor' <= i)
            BY <2>1, <2>2
          <5>3. cursor' \in Nat
            BY <2>2
          <5> HIDE DEF i
          <5> QED BY <1>0, <4>1, <5>1, <5>2, <5>3
        <4>4. Retain > LastIndex => cursor' = shown' + 1
          BY <2>2, <3>1, <4>1 DEF Position
        <4> QED BY <4>2, <4>3, <4>4 DEF Position
      <3> QED
        BY <1>2, <3>2, <3>3, <3>4, <3>5, <3>6 DEF Unbroken
    <2> QED BY <1>3, <2>2, <2>4, <2>5, <2>6 DEF IInv
  <1>5. ASSUME m.kind # "step", UNCHANGED window,
               report' \in {report, TRUE}, failure' \in {failure, TRUE}, state' \in {state, "error"}
        PROVE  IInv'
    <2>1. TypeOK'
      <3>1. UNCHANGED <<timeline, base, cursor, produced>>
        BY <1>5 DEF window
      <3>2. report' \in BOOLEAN /\ failure' \in BOOLEAN
            /\ state' \in {"running", "paused", "finished", "error"}
        BY <1>5 DEF IInv, TypeOK
      <3> QED
        BY <1>1, <1>2, <3>1, <3>2 DEF IInv, TypeOK
    <2>2. WindowInv'
      BY <1>5 DEF window, IInv, WindowInv
    <2>3. ASSUME NEW k \in 1 .. Len(chan) PROVE chan[k].kind # "step"
      <3>1. k = 1 \/ 1 < k
        BY <1>0
      <3> QED BY <1>1, <1>5, <3>1 DEF IInv, ChanInv
    <2>4. ChanInv'
      <3>1. \A k \in 1 .. Len(chan') : chan'[k].kind # "step"
        BY <1>1, <2>3
      <3>2. kernel.phase \notin Early
        BY <1>1, <1>5 DEF IInv, ChanInv
      <3> QED
        BY <1>2, <3>1, <3>2 DEF ChanInv
    <2>5. (~stop => Unbroken /\ Position)'
      <3> SUFFICES ASSUME ~stop PROVE Unbroken' /\ Position'
        BY <1>2
      <3>1. produced = LastIndex + 1 /\ kernel.phase \notin Early
        BY <1>1, <1>5 DEF IInv, TypeOK, Unbroken, WindowInv, ChanInv
      <3> QED
        <4>1. UNCHANGED <<timeline, base, cursor, produced>>
          BY <1>5 DEF window
        <4>2. \A k \in 1 .. Len(chan') : chan'[k].kind # "step" /\ produced + k - 1 > LastIndex
          <5> TAKE k \in 1 .. Len(chan')
          <5>1. chan'[k] = chan[k + 1] /\ k + 1 \in 1 .. Len(chan)
            BY <1>1
          <5> QED BY <2>3, <3>1, <5>1
        <4>3. produced' + Len(chan') > LastIndex
          BY <1>1, <3>1, <4>1
        <4>4. Unbroken /\ Position
          BY DEF IInv
        <4> QED
          BY <1>2, <3>1, <4>1, <4>2, <4>3, <4>4 DEF Unbroken, Position
    <2> QED BY <1>3, <2>1, <2>2, <2>4, <2>5 DEF IInv
  <1> QED
    BY <1>1, <1>4, <1>5 DEF Take

-----------------------------------------------------------------------------
(* Steps that leave the kernel, the channel and the window alone.          *)
LEMMA CallersOnly ==
    ASSUME IInv, UNCHANGED <<kernelVars, window, report, shown>>, TypeOK',
           gen' = gen, op' \in {"stop", "start"} => op' = op, draining' => stop
    PROVE  IInv'
  <1> USE DEF kernelVars, window
  <1>1. KernelInv' /\ ChanInv' /\ WindowInv'
    BY DEF IInv, KernelInv, ChanInv, WindowInv
  <1>2. (~stop => Unbroken /\ Position)'
    BY DEF IInv, Unbroken, Position
  <1> QED
    BY <1>1, <1>2 DEF IInv

(* What the stream emits is in the window, at the position it says.        *)
LEMMA HasFacts ==
    ASSUME IInv, NEW i \in Nat, Has(i)
    PROVE  /\ i - base + 1 \in 1 .. Len(timeline)
           /\ timeline[i - base + 1] \in Index
           /\ base <= i /\ i < produced
           /\ ~stop => timeline[i - base + 1] = i
  <1>1. timeline \in Seq(Index) /\ base \in Nat /\ produced \in Nat
    BY DEF IInv, TypeOK
  <1>2. i - base + 1 \in 1 .. Len(timeline) /\ base <= i /\ i < base + Len(timeline)
    BY <1>1 DEF Has
  <1>3. i < produced
    BY <1>1, <1>2 DEF IInv, WindowInv
  <1>4. ASSUME ~stop PROVE timeline[i - base + 1] = i
    BY <1>1, <1>2, <1>4 DEF IInv, Unbroken
  <1> QED
    BY <1>1, <1>2, <1>3, <1>4

(* A seek that lands does so inside the window, and until a stop on the     *)
(* target.                                                                 *)
LEMMA SeekFacts ==
    ASSUME IInv, NEW i \in Nat, Seekable(i)
    PROVE  /\ LastSought(i) \in Index
           /\ base <= i /\ i < produced
           /\ ~stop => LastSought(i) = i
  <1> USE LiveRunAssumption
  <1>1. timeline \in Seq(Index) /\ base \in Nat /\ produced \in Nat /\ base + Len(timeline) <= produced
    BY DEF IInv, TypeOK, WindowInv
  <1>2. GopStart(i) >= base
    BY <1>1 DEF GopStart, Larger
  <1>3. GopStart(i) \in Int
    BY <1>1 DEF GopStart, Larger
  <1>4. Len(timeline) > 0 /\ i >= base /\ i <= RangeMax
    BY <1>1, <1>2, <1>3 DEF Seekable
  <1>5. RangeMax = produced - 1
    BY <1>1, <1>4 DEF RangeMax, Larger
  <1>6. Smaller(i - base + 1, Len(timeline)) \in 1 .. Len(timeline)
    BY <1>1, <1>4 DEF Smaller
  <1>7. LastSought(i) \in Index
    BY <1>1, <1>6 DEF LastSought
  <1>8. ASSUME ~stop PROVE LastSought(i) = i
    <2>1. produced = base + Len(timeline)
      BY <1>8 DEF IInv, Unbroken
    <2>2. Smaller(i - base + 1, Len(timeline)) = i - base + 1 /\ i - base + 1 \in 1 .. Len(timeline)
      BY <1>1, <1>4, <1>5, <2>1 DEF Smaller
    <2> QED BY <1>1, <1>8, <2>2 DEF LastSought, IInv, Unbroken
  <1> QED
    BY <1>1, <1>4, <1>5, <1>7, <1>8

LEMMA PositionMoves ==
    ASSUME IInv, NEW i \in Nat, base <= i, i < produced, cursor' = i + 1,
           ~stop => shown' = i,
           UNCHANGED <<kernelVars, timeline, base, produced, report>>, TypeOK',
           op' = "none", draining' = draining
    PROVE  IInv'
  <1> USE DEF kernelVars
  <1>2. KernelInv' /\ ChanInv'
    BY DEF IInv, KernelInv, ChanInv
  <1>3. WindowInv'
    BY DEF IInv, TypeOK, WindowInv
  <1>4. (~stop => Unbroken /\ Position)'
    BY LiveRunAssumption DEF IInv, TypeOK, Unbroken, Position, Larger
  <1> QED
    BY <1>2, <1>3, <1>4 DEF IInv

LEMMA TickKeeps == ASSUME NEW p \in Tickers PROVE IInv /\ (ProducerStep \/ TickStep(p)) => IInv'
  <1> SUFFICES ASSUME IInv, ProducerStep \/ TickStep(p) PROVE IInv'
    OBVIOUS
  <1> USE DEF kernelVars, engineVars, window, clients
  <1>0. p \in {"producer", "stepper"} /\ Home(p) \in {"check", "idle"}
    BY DEF Tickers, Home
  <1>1. CASE ProducerReads \/ ProducerChecks
    <2>1. TypeOK'
      BY <1>1 DEF ProducerReads, ProducerChecks, IInv, TypeOK
    <2> QED BY <1>1, <2>1, CallersOnly DEF ProducerReads, ProducerChecks, IInv, KernelInv
  <1>2. CASE TickBegins(p)
    <2>1. TypeOK'
      BY <1>0, <1>2 DEF TickBegins, IInv, TypeOK
    <2> QED BY <1>0, <1>2, <2>1, CallersOnly DEF TickBegins, IInv, KernelInv
  <1>3. CASE TickFails(p)
    <2>1. TypeOK'
      BY <1>0, <1>3 DEF TickFails, IInv, TypeOK
    <2> QED BY <1>3, <2>1, CallersOnly DEF TickFails, IInv, KernelInv
  <1>4. CASE TickFindsNothing(p)
    <2>1. TypeOK'
      BY <1>0, <1>4 DEF TickFindsNothing, IInv, TypeOK
    <2> QED BY <1>4, <2>1, CallersOnly DEF TickFindsNothing, IInv, KernelInv
  <1>5. CASE TickEmits(p)
    <2>1. /\ cursor \in Nat /\ timeline[cursor - base + 1] \in Index
          /\ base <= cursor /\ cursor < produced
          /\ ~stop => timeline[cursor - base + 1] = cursor
      BY <1>5, HasFacts DEF TickEmits, IInv, TypeOK
    <2>2. TypeOK'
      BY <1>0, <1>5, <2>1 DEF TickEmits, IInv, TypeOK
    <2> QED BY <1>5, <2>1, <2>2, PositionMoves DEF TickEmits
  <1>6. CASE Broadcast(p)
    <2>4. PICK next \in {"notify", "check", "idle", "tick"} : pc' = [pc EXCEPT ![p] = next]
      BY <1>0, <1>6 DEF Broadcast
    <2>5. out' = out \/ out' = [out EXCEPT ![p] = NoStep]
      BY <1>6 DEF Broadcast
    <2>6. NoStep \in [gen : Nat \cup {None}, index : Index \cup {None}]
      BY DEF NoStep
    <2>0. /\ pc' \in [Tickers -> {"check", "free", "paced", "idle", "tick", "send", "notify", "dead"}]
          /\ out' \in [Tickers -> [gen : Nat \cup {None}, index : Index \cup {None}]]
      BY <2>4, <2>5, <2>6 DEF IInv, TypeOK
    <2>3. behind' \in BOOLEAN
      BY <1>6 DEF Broadcast, IInv, TypeOK
    <2>1. TypeOK'
      BY <1>6, <2>0, <2>3 DEF Broadcast, IInv, TypeOK
    <2> QED BY <1>6, <2>1, CallersOnly DEF Broadcast, IInv, KernelInv
  <1>7. CASE NotifyFinished(p)
    <2>1. TypeOK'
      BY <1>0, <1>7 DEF NotifyFinished, NoStep, IInv, TypeOK
    <2> QED BY <1>7, <2>1, CallersOnly DEF NotifyFinished, IInv, KernelInv
  <1> QED
    BY <1>1, <1>2, <1>3, <1>4, <1>5, <1>6, <1>7 DEF ProducerStep, TickStep

(* A shutdown has set the flag before it touches anything, and a fresh run *)
(* starts like the first one.                                              *)
LEMMA ShutdownKeeps == IInv /\ ShutdownStep => IInv'
  <1> SUFFICES ASSUME IInv, ShutdownStep PROVE IInv'
    OBVIOUS
  <1> USE LiveRunAssumption DEF kernelVars, engineVars, window, callerVars, clients
  <1>1. CASE DrainBegins
    <2>1. TypeOK'
      BY <1>1 DEF DrainBegins, IInv, TypeOK
    <2> QED BY <1>1, <2>1, CallersOnly DEF DrainBegins, IInv, KernelInv
  <1>2. CASE Drain
    <2>1. /\ chan' \in Seq(HostMsg) /\ Len(chan') = Len(chan) - 1 /\ Len(chan) \in Nat
          /\ \A k \in 1 .. Len(chan') : chan'[k] = chan[k + 1]
      BY <1>2, TailFacts DEF Drain, IInv, TypeOK
    <2>2. UNCHANGED <<kernel, stop, engineVars, gen, callerVars, shown, clients>> /\ stop
      BY <1>2 DEF Drain, IInv, KernelInv
    <2>3. TypeOK'
      BY <2>1, <2>2 DEF IInv, TypeOK
    <2>4. KernelInv' /\ WindowInv'
      BY <2>2 DEF IInv, KernelInv, WindowInv
    <2>5. ChanInv'
      <3>1. ASSUME NEW k \in 1 .. Len(chan')
            PROVE  chan'[k] = chan[k + 1] /\ k + 1 \in 1 .. Len(chan)
        BY <2>1
      <3>2. ASSUME NEW j \in 1 .. Len(chan'), NEW k \in 1 .. Len(chan'), j < k
            PROVE  j + 1 < k + 1
        BY <3>2
      <3> QED
        <4>1. UNCHANGED <<kernel, produced>>
          BY <2>2
        <4>2. ASSUME NEW j \in 1 .. Len(chan'), NEW k \in 1 .. Len(chan'), j < k,
                     chan'[k].kind = "step"
              PROVE  chan'[j].kind = "step" /\ chan'[j].index < chan'[k].index
          BY <3>1, <3>2, <4>2 DEF IInv, ChanInv
        <4>3. ASSUME NEW k \in 1 .. Len(chan')
              PROVE  /\ chan'[k].kind = "step" => produced <= chan'[k].index
                     /\ kernel.phase \in Early => chan'[k].kind = "step" /\ chan'[k].index <= kernel.emitted
          BY <3>1 DEF IInv, ChanInv
        <4> QED
          BY <4>1, <4>2, <4>3 DEF IInv, ChanInv
    <2> QED BY <2>2, <2>3, <2>4, <2>5 DEF IInv
  <1>3. CASE DrainEnds
    <2>0. draining' \in BOOLEAN /\ UNCHANGED <<kernelVars, engineVars, gen, op, pc, out, seeker, shown, clients>>
      BY <1>3 DEF DrainEnds
    <2>1. TypeOK'
      BY <2>0 DEF IInv, TypeOK
    <2> QED BY <1>3, <2>1, CallersOnly DEF DrainEnds, IInv, KernelInv
  <1>4. CASE StopEnds
    <2>1. TypeOK'
      BY <1>4 DEF StopEnds, IInv, TypeOK
    <2> QED BY <1>4, <2>1, CallersOnly DEF StopEnds, IInv, KernelInv
  <1>5. CASE StartEnds
    <2>1. kernel' \in KernelStates /\ kernel'.phase = "run" /\ ~kernel'.armed /\ kernel'.emitted = -1
      BY <1>5 DEF StartEnds, FreshKernel, KernelStates, Index, None
    <2>2. chan' \in Seq(HostMsg) /\ Len(chan') = 0 /\ timeline' \in Seq(Index) /\ Len(timeline') = 0
      BY <1>5 DEF StartEnds
    <2>3. /\ base' = 0 /\ cursor' = 0 /\ produced' = 0 /\ goal' = None /\ ~report' /\ shown' = None
          /\ op' = "none" /\ ~draining' /\ ~stop'
      BY <1>5 DEF StartEnds
    <2>0. gen' \in 0 .. MaxGen
      <3>1. op = "start" /\ gen' = gen + 1
        BY <1>5 DEF StartEnds
      <3> QED BY <3>1 DEF IInv, TypeOK, KernelInv
    <2>4. /\ state' \in {"running", "paused"}
          /\ report' \in BOOLEAN /\ failure' \in BOOLEAN /\ stop' \in BOOLEAN
          /\ UNCHANGED <<pc, out, seeker, sync, behind, calls>>
      BY <1>5 DEF StartEnds
    <2>7. draining' \in BOOLEAN
      BY <1>5 DEF StartEnds, IInv, TypeOK
    <2>5. TypeOK'
      BY <2>0, <2>1, <2>2, <2>3, <2>4, <2>7 DEF IInv, TypeOK
    <2>6. KernelInv' /\ ChanInv' /\ WindowInv' /\ Unbroken' /\ Position'
      BY <2>1, <2>2, <2>3 DEF KernelInv, ChanInv, WindowInv, Unbroken, Position, Early, None, Larger
    <2> QED BY <2>5, <2>6 DEF IInv
  <1>6. CASE StartFails
    <2>1. TypeOK'
      BY <1>6 DEF StartFails, IInv, TypeOK
    <2> QED BY <1>6, <2>1, CallersOnly DEF StartFails, IInv, KernelInv
  <1> QED
    BY <1>1, <1>2, <1>3, <1>4, <1>5, <1>6 DEF ShutdownStep

LEMMA SeekKeeps == IInv /\ SeekStep => IInv'
  <1> SUFFICES ASSUME IInv, SeekStep PROVE IInv'
    OBVIOUS
  <1> USE LiveRunAssumption DEF kernelVars, engineVars, window, clients
  <1>0. /\ RangeMax \in Index /\ IdleSeeker \in SeekerStates
        /\ seeker.target \in Index /\ seeker.target \in Nat
    BY DEF RangeMax, Larger, IdleSeeker, IInv, TypeOK, WindowInv, Index, SeekerStates
  <1>1. CASE ExtendBegins
    <2>1. TypeOK'
      BY <1>0, <1>1 DEF ExtendBegins, IInv, TypeOK
    <2> QED BY <1>1, <2>1, CallersOnly DEF ExtendBegins, IInv, KernelInv
  <1>2. CASE ExtendEnds
    <2>1. seeker' \in SeekerStates
      <3> DEFINE stalls == IF RangeMax = seeker.last THEN seeker.stalled + 1 ELSE 0
      <3>1. CASE RangeMax >= seeker.target \/ stalls >= StallLimit
        <4>1. seeker' = [seeker EXCEPT !.phase = "done", !.last = 0, !.stalled = 0]
          BY <1>2, <3>1 DEF ExtendEnds
        <4>2. 0 \in Index /\ 0 \in 0 .. StallLimit
          BY DEF Index
        <4> QED BY <4>1, <4>2 DEF SeekerStates, IInv, TypeOK
      <3>2. CASE ~(RangeMax >= seeker.target \/ stalls >= StallLimit)
        <4>1. seeker' = [seeker EXCEPT !.phase = "more", !.last = RangeMax, !.stalled = stalls]
          BY <1>2, <3>2 DEF ExtendEnds
        <4>2. stalls \in 0 .. StallLimit
          BY <3>2 DEF SeekerStates, IInv, TypeOK
        <4> QED BY <1>0, <4>1, <4>2 DEF SeekerStates, IInv, TypeOK
      <3> QED BY <3>1, <3>2
    <2>2. TypeOK'
      BY <1>2, <2>1 DEF ExtendEnds, IInv, TypeOK
    <2> QED BY <1>2, <2>2, CallersOnly DEF ExtendEnds, IInv, KernelInv
  <1>3. CASE ProgressSent
    <2>1. seeker' \in SeekerStates
      BY <1>3 DEF ProgressSent, SeekerStates, IInv, TypeOK
    <2>2. TypeOK'
      BY <1>3, <2>1 DEF ProgressSent, IInv, TypeOK
    <2> QED BY <1>3, <2>2, CallersOnly DEF ProgressSent, IInv, KernelInv
  <1>4. CASE SeekChecked
    <2>1. seeker' \in SeekerStates
      BY <1>0, <1>4 DEF SeekChecked, SeekerStates, IInv, TypeOK
    <2>2. TypeOK'
      BY <1>4, <2>1 DEF SeekChecked, IInv, TypeOK
    <2> QED BY <1>4, <2>2, CallersOnly DEF SeekChecked, IInv, KernelInv
  <1>5. CASE SeekBegins
    <2>1. TypeOK'
      BY <1>5 DEF SeekBegins, IInv, TypeOK
    <2> QED BY <1>5, <2>1, CallersOnly DEF SeekBegins, IInv, KernelInv
  <1>6. CASE SeekRefused
    <2>1. TypeOK'
      BY <1>0, <1>6 DEF SeekRefused, IInv, TypeOK
    <2> QED BY <1>6, <2>1, CallersOnly DEF SeekRefused, IInv, KernelInv
  <1>7. CASE SeekLands
    <2>1. /\ LastSought(seeker.target) \in Index
          /\ base <= seeker.target /\ seeker.target < produced
          /\ ~stop => LastSought(seeker.target) = seeker.target
      BY <1>0, <1>7, SeekFacts DEF SeekLands
    <2>2. TypeOK'
      BY <1>0, <1>7, <2>1 DEF SeekLands, IInv, TypeOK
    <2> QED BY <1>0, <1>7, <2>1, <2>2, PositionMoves DEF SeekLands
  <1> QED
    BY <1>1, <1>2, <1>3, <1>4, <1>5, <1>6, <1>7 DEF SeekStep

LEMMA ClientKeeps == IInv /\ ClientStep => IInv'
  <1> SUFFICES ASSUME IInv, ClientStep PROVE IInv'
    OBVIOUS
  <1> USE LiveRunAssumption DEF kernelVars, engineVars, window, callerVars, clients
  <1>1. CASE StepRequest
    <2>1. TypeOK'
      BY <1>1 DEF StepRequest, IInv, TypeOK
    <2> QED BY <1>1, <2>1, CallersOnly DEF StepRequest, IInv, KernelInv
  <1>2. CASE Pause \/ Resume
    <2>1. TypeOK'
      BY <1>2 DEF Pause, Resume, IInv, TypeOK
    <2> QED BY <1>2, <2>1, CallersOnly DEF Pause, Resume, IInv, KernelInv
  <1>3. ASSUME NEW o \in {"stop", "start"}, ShutdownBegins(o) PROVE IInv'
    <2>1. TypeOK'
      BY <1>3 DEF ShutdownBegins, IInv, TypeOK
    <2>2. KernelInv' /\ ChanInv' /\ WindowInv' /\ stop'
      BY <1>3 DEF ShutdownBegins, IInv, KernelInv, ChanInv, WindowInv
    <2> QED BY <2>1, <2>2 DEF IInv
  <1>4. ASSUME NEW s \in Index, SeekRequest(s) PROVE IInv'
    <2>0. RangeMax \in Index /\ 0 \in Index
      BY DEF RangeMax, Larger, IInv, TypeOK, WindowInv, Index
    <2>1. seeker' \in SeekerStates
      BY <1>4, <2>0 DEF SeekRequest, SeekerStates
    <2>2. TypeOK'
      BY <1>4, <2>1 DEF SeekRequest, IInv, TypeOK
    <2> QED BY <1>4, <2>2, CallersOnly DEF SeekRequest, IInv, KernelInv
  <1>5. CASE SeekerGone
    <2>1. seeker' \in SeekerStates
      BY <1>5 DEF SeekerGone, IdleSeeker, SeekerStates, Index
    <2>2. TypeOK'
      BY <1>5, <2>1 DEF SeekerGone, IInv, TypeOK
    <2> QED BY <1>5, <2>2, CallersOnly DEF SeekerGone, IInv, KernelInv
  <1>6. CASE SetSync \/ CatchUp
    <2>0. sync' \in BOOLEAN /\ behind' \in BOOLEAN /\ calls' = calls
      BY <1>6 DEF SetSync, CatchUp, IInv, TypeOK
    <2>3. UNCHANGED <<kernelVars, engineVars, gen, callerVars, shown>>
      BY <1>6 DEF SetSync, CatchUp
    <2>1. TypeOK'
      BY <2>0, <2>3 DEF IInv, TypeOK
    <2> QED BY <2>1, <2>3, CallersOnly DEF IInv, KernelInv
  <1> QED
    BY <1>1, <1>2, <1>3, <1>4, <1>5, <1>6 DEF ClientStep

-----------------------------------------------------------------------------
(* Every step of the kernel, the producer, the connections and a shutdown   *)
(* keeps the inductive invariant.                                          *)
LEMMA StepKeeps == IInv /\ [Next]_vars => IInv'
  <1> SUFFICES ASSUME IInv, [Next]_vars PROVE IInv'
    OBVIOUS
  <1>1. CASE UNCHANGED vars
    <2>1. UNCHANGED <<kernelVars, window, report, shown>> /\ TypeOK'
      BY <1>1 DEF vars, kernelVars, engineVars, window, callerVars, clients, IInv, TypeOK
    <2> QED
      BY <1>1, <2>1, CallersOnly DEF vars, callerVars, IInv, KernelInv
  <1>2. CASE ProducerStep
    <2>1. "producer" \in Tickers
      BY DEF Tickers
    <2> QED BY <1>2, <2>1, TickKeeps
  <1> QED
    BY <1>1, <1>2, KernelKeeps, TakeKeeps, TickKeeps, ShutdownKeeps, SeekKeeps, ClientKeeps DEF Next

(* Every reachable state of a live run satisfies the inductive invariant.  *)
THEOREM Inductive == Spec => []IInv
  <1> QED BY InitInv, StepKeeps, PTL DEF Spec

(* The state of a live run always has its type, whatever the length of the *)
(* run, the lead, the retention and the calls.                             *)
THEOREM TypeCorrect == Spec => []TypeOK
  <1>1. IInv => TypeOK
    BY DEF IInv
  <1> QED BY <1>1, Inductive, PTL

(* The retained window is contiguous, base_index and produced delimit it,  *)
(* and the stream position lies inside it.                                 *)
THEOREM WindowIsSound == Spec => []WindowSound
  <1>1. IInv => WindowSound
    BY DEF IInv, WindowInv, Unbroken, WindowSound
  <1> QED BY <1>1, Inductive, PTL

(* retain_steps bounds the window in every run, seeks included.            *)
THEOREM RetentionHolds == Spec => []RetentionBounded
  <1>1. IInv => RetentionBounded
    BY DEF IInv, WindowInv, RetentionBounded
  <1> QED BY <1>1, Inductive, PTL

-----------------------------------------------------------------------------
(* Only a message taken from the channel, or a fresh run, moves produced.  *)
LEMMA ProducedMoves ==
    ASSUME Next, produced' # produced PROVE Take \/ StartEnds
  <1> USE DEF engineVars, window
  <1>1. ~KernelStep
    BY DEF KernelStep, KernelRecords, KernelRunEnds, KernelArms, KernelSends, KernelParks,
       KernelHandedOver, KernelCancelled, KernelReports
  <1>2. ~ProducerStep /\ \A p \in Tickers : ~TickStep(p)
    BY DEF ProducerStep, ProducerReads, ProducerChecks, TickStep, TickBegins, TickFails, TickFindsNothing, TickEmits,
       Broadcast, NotifyFinished
  <1>3. ~SeekStep
    BY DEF SeekStep, ExtendBegins, ExtendEnds, ProgressSent, SeekChecked, SeekBegins,
       SeekRefused, SeekLands
  <1>4. ~ClientStep
    BY DEF ClientStep, StepRequest, Pause, Resume, ShutdownBegins, SeekRequest, SetSync, CatchUp,
       SeekerGone
  <1>5. ShutdownStep => StartEnds
    BY DEF ShutdownStep, DrainBegins, Drain, DrainEnds, StopEnds, StartFails
  <1> QED
    BY <1>1, <1>2, <1>3, <1>4, <1>5 DEF Next

(* Only a tick that emits makes a caller of tick broadcast.                *)
LEMMA SendBegins ==
    ASSUME Next, IInv, NEW p \in Tickers, pc[p] # "send", pc'[p] = "send"
    PROVE  TickEmits(p)
  <1> USE DEF callerVars
  <1>0. pc \in [Tickers -> {"check", "free", "paced", "idle", "tick", "send", "notify", "dead"}]
    BY DEF IInv, TypeOK
  <1>1. pc' # pc
    OBVIOUS
  <1>2. ~KernelStep /\ ~Take
    BY <1>1 DEF KernelStep, KernelRecords, KernelRunEnds, KernelArms, KernelSends, KernelParks,
       KernelHandedOver, KernelCancelled, KernelReports, Take
  <1>3. ~ProducerStep
    BY <1>0 DEF ProducerStep, ProducerReads, ProducerChecks, Tickers
  <1>4. ASSUME NEW q \in Tickers, TickStep(q) PROVE TickEmits(p)
    <2>1. ~TickBegins(q)
      BY <1>1 DEF TickBegins
    <2>2. ~TickFails(q) /\ ~TickFindsNothing(q) /\ ~NotifyFinished(q) /\ ~Broadcast(q)
      BY <1>0 DEF TickFails, TickFindsNothing, NotifyFinished, Broadcast, Home
    <2>3. TickEmits(q)
      BY <1>4, <2>1, <2>2 DEF TickStep
    <2>4. q = p
      BY <1>0, <2>3 DEF TickEmits
    <2> QED BY <2>3, <2>4
  <1>5. ~SeekStep
    BY <1>1 DEF SeekStep, ExtendBegins, ExtendEnds, ProgressSent, SeekChecked, SeekBegins,
       SeekRefused, SeekLands
  <1>6. ~ClientStep
    BY <1>0, <1>1 DEF ClientStep, StepRequest, Pause, Resume, ShutdownBegins, SeekRequest,
       SetSync, CatchUp, SeekerGone, Tickers
  <1>7. ~ShutdownStep
    BY <1>1 DEF ShutdownStep, DrainBegins, Drain, DrainEnds, StopEnds, StartEnds, StartFails
  <1> QED
    BY <1>2, <1>3, <1>4, <1>5, <1>6, <1>7 DEF Next

(* Only a tick and run.stop finish a run.                                  *)
LEMMA Finishes ==
    ASSUME Next, state' = "finished", state # "finished"
    PROVE  StopEnds \/ \E p \in Tickers : TickFindsNothing(p) \/ TickEmits(p)
  <1> USE DEF engineVars
  <1>1. ~KernelStep
    BY DEF KernelStep, KernelRecords, KernelRunEnds, KernelArms, KernelSends, KernelParks,
       KernelHandedOver, KernelCancelled, KernelReports
  <1>2. ~Take
    BY DEF Take, AbsorbStep
  <1>3. ~ProducerStep
    BY DEF ProducerStep, ProducerReads, ProducerChecks
  <1>4. ASSUME NEW p \in Tickers, TickStep(p) PROVE TickFindsNothing(p) \/ TickEmits(p)
    BY <1>4 DEF TickStep, TickBegins, TickFails, Broadcast, NotifyFinished
  <1>5. ~SeekStep
    BY DEF SeekStep, ExtendBegins, ExtendEnds, ProgressSent, SeekChecked, SeekBegins,
       SeekRefused, SeekLands
  <1>6. ~ClientStep
    BY DEF ClientStep, StepRequest, Pause, Resume, ShutdownBegins, SeekRequest, SetSync, CatchUp,
       SeekerGone
  <1>7. ShutdownStep => StopEnds
    BY DEF ShutdownStep, DrainBegins, Drain, DrainEnds, StartEnds, StartFails
  <1> QED
    BY <1>1, <1>2, <1>3, <1>4, <1>5, <1>6, <1>7 DEF Next

(* Until a stop the engine takes a step past the lead only for a seek that *)
(* waits for it, whatever the lead.                                        *)
THEOREM LeadHolds == Spec => LeadBounded
  <1>1. ASSUME IInv, [Next]_vars, produced' > produced, ~stop
        PROVE  produced' <= cursor + Lookahead \/ Seeking
    <2>1. produced \in Nat /\ cursor \in Nat /\ Lookahead \in Nat
      BY <1>1, LiveRunAssumption DEF IInv, TypeOK
    <2>2. Next /\ produced' # produced
      BY <1>1, <2>1 DEF vars, engineVars
    <2>3. Take
      <3>1. ~StartEnds
        <4>1. StartEnds => produced' = 0
          BY DEF StartEnds
        <4> QED BY <1>1, <2>1, <4>1
      <3> QED BY <2>2, <3>1, ProducedMoves
    <2>4. PICK i : Head(chan).kind = "step" /\ i = Head(chan).index /\ AbsorbStep(i)
      BY <2>2, <2>3 DEF Take, window
    <2>5. i = produced /\ produced' = i + 1
      <3>1. chan # <<>> /\ chan \in Seq(HostMsg) /\ produced' = i + 1
        BY <1>1, <2>3, <2>4 DEF Take, IInv, TypeOK, AbsorbStep
      <3>2. Head(chan) = chan[1] /\ 1 \in 1 .. Len(chan)
        BY <3>1, TailFacts
      <3>3. chan[1].index = produced + 1 - 1
        BY <1>1, <2>4, <3>2 DEF IInv, Unbroken
      <3> QED BY <2>1, <2>4, <3>1, <3>2, <3>3
    <2> QED
      BY <2>1, <2>3, <2>5 DEF Take, MayTake
  <1> QED BY <1>1, Inductive, PTL DEF Spec, LeadBounded

(* The stream emits the step after the last one shown, or the oldest one    *)
(* held when a seek that computed ahead made the window slide past it.     *)
THEOREM FollowsWindow == Spec => StreamFollowsWindow
  <1>1. ASSUME IInv, [Next]_vars, NEW p \in Tickers, pc[p] # "send", pc'[p] = "send", ~stop
        PROVE  out'[p].index = Larger(shown + 1, base)
    <2>1. TickEmits(p)
      BY <1>1, SendBegins DEF vars, callerVars
    <2>2. Has(cursor) /\ cursor \in Nat
      BY <1>1, <2>1 DEF TickEmits, IInv, TypeOK
    <2>3. timeline[cursor - base + 1] = cursor /\ cursor = Larger(shown + 1, base)
      BY <1>1, <2>2, HasFacts DEF IInv, Position
    <2>4. out'[p].index = timeline[cursor - base + 1]
      BY <1>1, <2>1 DEF TickEmits, IInv, TypeOK
    <2> QED BY <2>3, <2>4
  <1>2. IInv /\ [Next]_vars =>
          \A p \in Tickers : pc[p] # "send" /\ pc'[p] = "send" /\ ~stop =>
            out'[p].index = Larger(shown + 1, base)
    BY <1>1
  <1> QED BY <1>2, Inductive, PTL DEF Spec, StreamFollowsWindow

(* When the retention holds the whole run, the stream emits every step in   *)
(* order from where it was started or sought, seeks that compute ahead      *)
(* included.                                                               *)
THEOREM NothingIsSkipped ==
    ASSUME Retain > LastIndex PROVE Spec => StreamSkipsNothing
  <1>1. ASSUME IInv, [Next]_vars, NEW p \in Tickers, pc[p] # "send", pc'[p] = "send", ~stop
        PROVE  out'[p].index = shown + 1
    <2>1. TickEmits(p)
      BY <1>1, SendBegins DEF vars, callerVars
    <2>2. Has(cursor) /\ cursor \in Nat
      BY <1>1, <2>1 DEF TickEmits, IInv, TypeOK
    <2>3. timeline[cursor - base + 1] = cursor /\ cursor = shown + 1
      BY <1>1, <2>2, HasFacts DEF IInv, Position
    <2>4. out'[p].index = timeline[cursor - base + 1]
      BY <1>1, <2>1 DEF TickEmits, IInv, TypeOK
    <2> QED BY <2>3, <2>4
  <1>2. IInv /\ [Next]_vars =>
          \A p \in Tickers : pc[p] # "send" /\ pc'[p] = "send" /\ ~stop =>
            out'[p].index = shown + 1
    BY <1>1
  <1> QED BY <1>2, Inductive, PTL DEF Spec, StreamSkipsNothing

(* A run that finishes by itself has emitted its last step; when the        *)
(* duration is a multiple of the step, it may miss that one and no other.  *)
THEOREM NoEarlyFinish == Spec => OnlyLastStepMissed
  <1> DEFINE Missed == EndIndex = LastIndex /\ shown' = LastIndex - 1 /\ ~Has(LastIndex)
  <1>1. ASSUME IInv, [Next]_vars, state' = "finished", state # "finished", ~stop
        PROVE  shown' = LastIndex \/ Missed
    <2>1. StopEnds \/ \E p \in Tickers : TickFindsNothing(p) \/ TickEmits(p)
      BY <1>1, Finishes DEF vars, engineVars
    <2>2. ~StopEnds
      BY <1>1 DEF StopEnds, IInv, KernelInv
    <2>3. ASSUME NEW p \in Tickers, TickFindsNothing(p) PROVE shown' = LastIndex \/ Missed
      <3>1. /\ cursor \in Nat /\ base \in Nat /\ produced \in Nat /\ LastIndex \in Nat
            /\ base <= cursor /\ cursor <= produced /\ produced <= LastIndex + 1
            /\ produced = base + Len(timeline) /\ timeline \in Seq(Index)
        BY <1>1, LiveRunAssumption DEF IInv, TypeOK, WindowInv, Unbroken
      <3>2. cursor = produced /\ shown' = shown /\ (report \/ cursor >= EndIndex)
        BY <1>1, <2>3, <3>1 DEF TickFindsNothing, Has
      <3>3. shown = cursor - 1
        BY <1>1, <3>2 DEF IInv, Position
      <3>4. CASE cursor = LastIndex + 1
        BY <3>1, <3>2, <3>3, <3>4
      <3>5. CASE cursor # LastIndex + 1
        <4>1. ~report
          BY <1>1, <3>2, <3>5 DEF IInv, Unbroken
        <4>2. cursor = LastIndex /\ EndIndex = LastIndex
          BY <3>1, <3>2, <3>5, <4>1, LiveRunAssumption
        <4>3. ~Has(LastIndex)
          BY <3>1, <3>2, <4>2 DEF Has
        <4> QED BY <3>2, <3>3, <4>2, <4>3
      <3> QED BY <3>4, <3>5
    <2>4. ASSUME NEW p \in Tickers, TickEmits(p) PROVE shown' = LastIndex
      <3>1. Has(cursor) /\ cursor \in Nat
        BY <1>1, <2>4 DEF TickEmits, IInv, TypeOK
      <3>2. timeline[cursor - base + 1] \in Index
        BY <1>1, <3>1, HasFacts
      <3> QED BY <1>1, <2>4, <3>2, LiveRunAssumption DEF TickEmits, Index
    <2> QED BY <2>1, <2>2, <2>3, <2>4
  <1> QED BY <1>1, Inductive, PTL DEF Spec, OnlyLastStepMissed
=============================================================================
