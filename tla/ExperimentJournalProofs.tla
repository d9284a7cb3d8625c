----------------------- MODULE ExperimentJournalProofs -----------------------
(***************************************************************************)
(* Proofs about ExperimentJournal for every plan length, concurrency, set  *)
(* of plans and sequence of faults.                                        *)
(***************************************************************************)
EXTENDS ExperimentJournal, FiniteSetTheorems, SequenceTheorems, TLAPS

Untorn == \A k \in 1..Len(file) : file[k].kind # "torn"

(* Where the invocation holds an opened journal with its header.           *)
Opened == {"plan", "next", "chunk", "record", "newline"}

(* What a running invocation relies on: nothing torn lies in its journal,   *)
(* which begins with a header of its own plan.                             *)
JournalOfInvocation ==
    /\ pc # "stopped" => Untorn
    /\ pc = "header" => Len(file) = 0
    /\ pc = "header_newline" => Len(file) = 1
    /\ pc \in Opened => Len(file) >= 1
    /\ pc \in Opened \union {"header_newline"} =>
          file[1].kind = "header" /\ file[1].of = scenario

(* The finished runs in memory are the journal's, but for a record whose    *)
(* newline is still to come.                                               *)
DoneIsJournal ==
    /\ pc \notin {"stopped", "newline"} => done = 1..(Len(file) - 1)
    /\ pc = "newline" =>
          /\ Len(file) >= 2
          /\ done = 1..(Len(file) - 2)
          /\ Len(file) - 1 \in Runs
          /\ worker[Len(file) - 1] = "ok"

(* The runs of a chunk follow the finished ones without a gap, execute only *)
(* while the chunk does, and leave metrics of the invocation's plan.        *)
WorkersFollowDone ==
    /\ pc \notin {"chunk", "record", "newline"} => worker = Idle
    /\ pc # "chunk" => \A r \in Runs : worker[r] # "running"
    /\ \A r \in Runs : worker[r] # "none" =>
          /\ r \notin done
          /\ \A q \in Runs : q < r /\ q \notin done => worker[q] # "none"
    /\ \A r \in Runs : worker[r] = "ok" => metrics[r] = scenario

IInv ==
    /\ TypeOK
    /\ InPlanOrder
    /\ JournalOfInvocation
    /\ DoneIsJournal
    /\ WorkersFollowDone
    /\ RecordedHasMetrics
    /\ PlanOfJournal
    /\ TableOfFinished

------------------------------------------------------------------------------
(* The journal as a sequence of records.                                   *)

Ordered(f) ==
    \A k \in 1..Len(f) :
        \/ k = 1 /\ f[k].kind = "header"
        \/ k > 1 /\ f[k].kind = "run" /\ f[k].of = k - 1
        \/ k = Len(f) /\ f[k].kind = "torn"

Whole(f) == \A k \in 1..Len(f) : f[k].kind # "torn"

(* A journal in plan order without a torn line is a header and the first    *)
(* runs of the plan.                                                       *)
LEMMA WholeFile ==
    ASSUME NEW f \in Seq(Records), Ordered(f), Whole(f)
    PROVE  /\ Entries(f) = 1..(Len(f) - 1)
           /\ Len(f) = 0 => Headers(f) = {}
           /\ Len(f) >= 1 => f[1].kind = "header" /\ Headers(f) = {f[1].of}
  <1>0. Len(f) \in Nat
    OBVIOUS
  <1>1. \A k \in 1..Len(f) : \/ k = 1 /\ f[k].kind = "header"
                             \/ k > 1 /\ f[k].kind = "run" /\ f[k].of = k - 1
    BY DEF Ordered, Whole
  <1>2. Entries(f) \subseteq 1..(Len(f) - 1)
    BY <1>0, <1>1 DEF Entries
  <1>3. ASSUME NEW r \in 1..(Len(f) - 1) PROVE r \in Entries(f)
    <2>1. r + 1 \in 1..Len(f) /\ r + 1 > 1 /\ r + 1 # 1
      BY <1>0
    <2>2. f[r + 1].kind = "run" /\ f[r + 1].of = r
      BY <1>0, <1>1, <2>1
    <2> QED BY <2>1, <2>2 DEF Entries
  <1>4. Len(f) = 0 => Headers(f) = {}
    BY DEF Headers
  <1>5. ASSUME Len(f) >= 1 PROVE f[1].kind = "header" /\ Headers(f) = {f[1].of}
    <2>1. 1 \in 1..Len(f) /\ f[1].kind = "header"
      BY <1>0, <1>1, <1>5
    <2>2. {j \in 1..Len(f) : f[j].kind = "header"} = {1}
      BY <1>1, <2>1
    <2> QED BY <2>1, <2>2 DEF Headers
  <1> QED BY <1>2, <1>3, <1>4, <1>5

(* A new line leaves the others and adds what it says.                     *)
LEMMA AppendRecord ==
    ASSUME NEW f \in Seq(Records), NEW e \in Records
    PROVE  /\ Append(f, e) \in Seq(Records)
           /\ Len(Append(f, e)) = Len(f) + 1
           /\ \A k \in 1..Len(f) : Append(f, e)[k] = f[k]
           /\ Append(f, e)[Len(f) + 1] = e
           /\ Entries(Append(f, e)) =
                 Entries(f) \union (IF e.kind = "run" THEN {e.of} ELSE {})
           /\ Headers(Append(f, e)) =
                 Headers(f) \union (IF e.kind = "header" THEN {e.of} ELSE {})
  <1> DEFINE g == Append(f, e)
  <1>1. /\ g \in Seq(Records)
        /\ Len(g) = Len(f) + 1
        /\ \A k \in 1..Len(f) : g[k] = f[k]
        /\ g[Len(f) + 1] = e
        /\ Len(f) \in Nat
    BY AppendProperties
  <1> HIDE DEF g
  <1>2. 1..Len(g) = 1..Len(f) \union {Len(f) + 1} /\ Len(f) + 1 \notin 1..Len(f)
    BY <1>1
  <1>3. Entries(g) = Entries(f) \union (IF e.kind = "run" THEN {e.of} ELSE {})
    BY <1>1, <1>2 DEF Entries
  <1>4. Headers(g) = Headers(f) \union (IF e.kind = "header" THEN {e.of} ELSE {})
    BY <1>1, <1>2 DEF Headers
  <1> QED BY <1>1, <1>3, <1>4 DEF g

(* The newline of a line says nothing about a run or a plan.               *)
LEMMA SameRecords ==
    ASSUME NEW f \in Seq(Records), NEW g \in Seq(Records), Len(g) = Len(f),
           \A k \in 1..Len(f) : g[k].kind = f[k].kind /\ g[k].of = f[k].of
    PROVE  /\ Entries(g) = Entries(f) /\ Headers(g) = Headers(f)
           /\ Ordered(f) => Ordered(g)
           /\ Whole(f) => Whole(g)
  BY DEF Entries, Headers, Ordered, Whole

LEMMA RecordFields ==
    ASSUME NEW e \in Records
    PROVE  /\ e.kind \in {"header", "run", "torn"}
           /\ e.kind = "run" => e.of \in Runs
           /\ e.kind = "header" => e.of \in Plans
           /\ [e EXCEPT !.newline = TRUE].kind = e.kind
           /\ [e EXCEPT !.newline = TRUE].of = e.of
           /\ e.kind # "torn" => [e EXCEPT !.newline = TRUE] \in Records
  BY DEF Records

------------------------------------------------------------------------------
LEMMA InitInv == Init => IInv
  <1> SUFFICES ASSUME Init PROVE IInv
    OBVIOUS
  <1>1. file = <<>> /\ Len(file) = 0 /\ 1..Len(file) = {} /\ file \in Seq(Records)
    BY DEF Init
  <1>2. Entries(file) = {} /\ Headers(file) = {}
    BY <1>1 DEF Entries, Headers
  <1>3. TypeOK
    <2>1. worker \in [Runs -> {"none", "running", "ok", "failed"}]
      BY DEF Init, Idle
    <2>2. metrics \in [Runs -> Plans \union {NoPlan}] /\ faults \in 0..MaxFaults
      BY MaxFaultsAssumption DEF Init
    <2> QED BY <1>1, <2>1, <2>2 DEF Init, TypeOK
  <1>4. InPlanOrder /\ JournalOfInvocation /\ DoneIsJournal
    BY <1>1 DEF Init, InPlanOrder, JournalOfInvocation, DoneIsJournal, Untorn, Opened
  <1>5. WorkersFollowDone
    BY DEF Init, WorkersFollowDone, Idle
  <1>6. RecordedHasMetrics /\ PlanOfJournal /\ TableOfFinished
    BY <1>2 DEF Init, RecordedHasMetrics, PlanOfJournal, TableOfFinished
  <1> QED BY <1>3, <1>4, <1>5, <1>6 DEF IInv

(* What a running invocation knows of its journal.                         *)
LEMMA RunningFacts ==
    ASSUME IInv, pc # "stopped"
    PROVE  /\ file \in Seq(Records) /\ Len(file) \in Nat
           /\ Ordered(file) /\ Whole(file)
           /\ Entries(file) = 1..(Len(file) - 1)
           /\ pc = "header" => Headers(file) = {}
           /\ pc # "header" => Len(file) >= 1 /\ Headers(file) = {scenario}
  <1>1. file \in Seq(Records) /\ Len(file) \in Nat
    BY DEF IInv, TypeOK
  <1>2. Ordered(file) /\ Whole(file)
    BY DEF IInv, InPlanOrder, JournalOfInvocation, Untorn, Ordered, Whole
  <1>3. /\ pc = "header" => Len(file) = 0
        /\ pc # "header" => Len(file) >= 1 /\ file[1].of = scenario
    BY <1>1 DEF IInv, TypeOK, JournalOfInvocation, Opened
  <1> QED BY <1>1, <1>2, <1>3, WholeFile

(* An invocation that ends leaves the journal and what it vouches for as    *)
(* they are, whatever document it cuts short.                              *)
LEMMA EndsKeeps ==
    ASSUME IInv, NEW how, Ends(how),
           how \in {"no_journal", "bad_journal", "plan_changed", "run_failed", "io_error",
                    "killed"},
           scenario' = scenario, exists' = exists, file' = file,
           planFile' \in {planFile, NoPlan}, table' \in {table, {}},
           metrics' \in [Runs -> Plans \union {NoPlan}],
           \A r \in Entries(file) : metrics'[r] = metrics[r],
           faults' \in 0..MaxFaults
    PROVE  IInv'
  <1>0. pc' = "stopped" /\ outcome' = how /\ done' = {} /\ worker' = Idle
    BY DEF Ends
  <1>1. TypeOK'
    BY <1>0 DEF IInv, TypeOK, Idle
  <1>2. InPlanOrder' /\ JournalOfInvocation' /\ DoneIsJournal'
    BY <1>0 DEF IInv, InPlanOrder, JournalOfInvocation, DoneIsJournal, Opened
  <1>3. WorkersFollowDone'
    BY <1>0 DEF WorkersFollowDone, Idle
  <1>4. RecordedHasMetrics' /\ PlanOfJournal' /\ TableOfFinished'
    BY <1>0 DEF IInv, RecordedHasMetrics, PlanOfJournal, TableOfFinished
  <1> QED BY <1>1, <1>2, <1>3, <1>4 DEF IInv

LEMMA OpenRefusedStep == ASSUME IInv, OpenMissing \/ OpenRefused PROVE IInv'
  <1>1. /\ faults' \in 0..MaxFaults /\ scenario' = scenario /\ exists' = exists /\ file' = file
        /\ planFile' = planFile /\ table' = table /\ metrics' = metrics
        /\ metrics \in [Runs -> Plans \union {NoPlan}]
    BY DEF OpenMissing, OpenRefused, disk, IInv, TypeOK
  <1>2. Ends("no_journal") \/ Ends("bad_journal") \/ Ends("plan_changed")
    BY DEF OpenMissing, OpenRefused
  <1> QED BY <1>1, <1>2, EndsKeeps

LEMMA StopAtFailureStep == ASSUME IInv, NEW r \in Runs, StopAtFailure(r) PROVE IInv'
  <1>1. /\ faults' \in 0..MaxFaults /\ scenario' = scenario /\ exists' = exists /\ file' = file
        /\ planFile' = planFile /\ table' = table /\ metrics' = metrics
        /\ metrics \in [Runs -> Plans \union {NoPlan}]
    BY DEF StopAtFailure, disk, IInv, TypeOK
  <1> QED BY <1>1, EndsKeeps DEF StopAtFailure

(* The journal is accepted: what it names is what was done, in plan order.  *)
LEMMA OpenJournalStep == ASSUME IInv, OpenJournal PROVE IInv'
  <1>0. /\ pc = "stopped" /\ Parses(file) /\ Headers(file) \subseteq {scenario}
        /\ exists' = TRUE /\ done' = Entries(file)
        /\ pc' = IF Headers(file) = {} THEN "header" ELSE "plan"
        /\ scenario' = scenario /\ file' = file /\ planFile' = planFile
        /\ metrics' = metrics /\ table' = table /\ worker' = worker
        /\ outcome' = outcome /\ faults' = faults
    BY DEF OpenJournal
  <1>1. file \in Seq(Records) /\ Len(file) \in Nat /\ Ordered(file) /\ Whole(file)
    BY <1>0 DEF IInv, TypeOK, InPlanOrder, Ordered, Whole, Parses
  <1>2. /\ Entries(file) = 1..(Len(file) - 1)
        /\ Len(file) = 0 => Headers(file) = {}
        /\ Len(file) >= 1 => file[1].kind = "header" /\ Headers(file) = {file[1].of}
    BY <1>1, WholeFile
  <1>3. \A r \in Entries(file) : r \in Runs
    BY <1>1, RecordFields, ElementOfSeq DEF Entries
  <1>4. worker = Idle
    BY <1>0 DEF IInv, WorkersFollowDone
  <1>5. TypeOK'
    BY <1>0, <1>3 DEF IInv, TypeOK
  <1>6. InPlanOrder' /\ JournalOfInvocation'
    <2>1. InPlanOrder' /\ Untorn'
      BY <1>0, <1>1 DEF IInv, InPlanOrder, Untorn, Whole
    <2>2. pc' \in {"header", "plan"}
      BY <1>0
    <2>3. pc' = "header" => Len(file) = 0
      <3>1. Len(file) >= 1 => Headers(file) # {}
        BY <1>2
      <3>2. pc' = "header" => Headers(file) = {}
        BY <1>0
      <3> QED BY <1>1, <3>1, <3>2
    <2>4. pc' = "plan" => Len(file) >= 1 /\ file[1].kind = "header" /\ file[1].of = scenario
      BY <1>0, <1>1, <1>2
    <2> QED BY <1>0, <2>1, <2>2, <2>3, <2>4 DEF JournalOfInvocation, Opened
  <1>7. DoneIsJournal'
    BY <1>0, <1>2 DEF DoneIsJournal
  <1>8. WorkersFollowDone'
    BY <1>0, <1>4 DEF WorkersFollowDone, Idle
  <1>9. RecordedHasMetrics' /\ PlanOfJournal' /\ TableOfFinished'
    BY <1>0 DEF IInv, RecordedHasMetrics, PlanOfJournal, TableOfFinished
  <1> QED BY <1>5, <1>6, <1>7, <1>8, <1>9 DEF IInv

LEMMA WriteHeaderStep == ASSUME IInv, WriteHeader PROVE IInv'
  <1> DEFINE e == [kind |-> "header", of |-> scenario, newline |-> FALSE]
  <1>0. /\ pc = "header" /\ pc' = "header_newline" /\ file' = Append(file, e)
        /\ scenario' = scenario /\ exists' = exists /\ planFile' = planFile
        /\ metrics' = metrics /\ table' = table /\ done' = done /\ worker' = worker
        /\ outcome' = outcome /\ faults' = faults
    BY DEF WriteHeader, AppendLine
  <1>1. e \in Records /\ e.kind = "header" /\ e.of = scenario
    BY DEF IInv, TypeOK, Records
  <1> HIDE DEF e
  <1>2. /\ file \in Seq(Records) /\ Len(file) = 0 /\ Entries(file) = {}
        /\ Headers(file) = {} /\ done = {}
    <2>1. /\ file \in Seq(Records) /\ Len(file) = 0 /\ Headers(file) = {}
          /\ Entries(file) = 1..(Len(file) - 1) /\ done = 1..(Len(file) - 1)
      BY <1>0, RunningFacts DEF IInv, JournalOfInvocation, DoneIsJournal
    <2> QED BY <2>1
  <1>3. /\ file' \in Seq(Records) /\ Len(file') = 1 /\ file'[1] = e
        /\ Entries(file') = {} /\ Headers(file') = {scenario}
    <2>1. /\ file' \in Seq(Records) /\ Len(file') = Len(file) + 1
          /\ file'[Len(file) + 1] = e
          /\ Entries(file') = Entries(file) \union (IF e.kind = "run" THEN {e.of} ELSE {})
          /\ Headers(file') = Headers(file) \union (IF e.kind = "header" THEN {e.of} ELSE {})
      BY <1>0, <1>1, <1>2, AppendRecord
    <2> QED BY <1>1, <1>2, <2>1
  <1>4. planFile = NoPlan /\ table = {}
    BY <1>2 DEF IInv, PlanOfJournal, TableOfFinished
  <1>5. TypeOK'
    BY <1>0, <1>3 DEF IInv, TypeOK
  <1>6. InPlanOrder' /\ JournalOfInvocation'
    BY <1>0, <1>1, <1>3 DEF InPlanOrder, JournalOfInvocation, Untorn, Opened
  <1>7. DoneIsJournal'
    BY <1>0, <1>2, <1>3 DEF DoneIsJournal
  <1>8. WorkersFollowDone'
    BY <1>0 DEF IInv, WorkersFollowDone
  <1>9. RecordedHasMetrics' /\ PlanOfJournal' /\ TableOfFinished'
    BY <1>0, <1>3, <1>4, RunsAssumption
       DEF IInv, RecordedHasMetrics, PlanOfJournal, TableOfFinished, Runs
  <1> QED BY <1>5, <1>6, <1>7, <1>8, <1>9 DEF IInv

(* The second write of a line leaves every record what it was.             *)
LEMMA NewlineFacts ==
    ASSUME IInv, pc \in {"header_newline", "newline"}, AppendNewline
    PROVE  /\ file' \in Seq(Records) /\ Len(file') = Len(file)
           /\ \A k \in 1..Len(file) : file'[k].kind = file[k].kind /\ file'[k].of = file[k].of
           /\ Entries(file') = Entries(file) /\ Headers(file') = Headers(file)
           /\ Ordered(file') /\ Whole(file')
  <1> DEFINE n == Len(file)
             e == [file[n] EXCEPT !.newline = TRUE]
  <1>1. /\ file \in Seq(Records) /\ n \in Nat /\ n >= 1 /\ Ordered(file) /\ Whole(file)
    BY RunningFacts
  <1>2. n \in 1..Len(file) /\ file[n] \in Records
    BY <1>1, ElementOfSeq
  <1>3. file[n].kind # "torn"
    BY <1>2, <1>1 DEF Whole
  <1>4. e \in Records /\ e.kind = file[n].kind /\ e.of = file[n].of
    BY <1>2, <1>3, RecordFields
  <1>5. file' = [file EXCEPT ![n] = e]
    BY DEF AppendNewline
  <1> HIDE DEF n, e
  <1>6. /\ file' \in Seq(Records) /\ Len(file') = Len(file)
        /\ \A j \in 1..Len(file) : file'[j] = IF j = n THEN e ELSE file[j]
    BY <1>1, <1>2, <1>4, <1>5, ExceptSeq
  <1>7. \A k \in 1..Len(file) : file'[k].kind = file[k].kind /\ file'[k].of = file[k].of
    BY <1>4, <1>6
  <1> QED BY <1>1, <1>6, <1>7, SameRecords

LEMMA EndHeaderStep == ASSUME IInv, EndHeader PROVE IInv'
  <1>0. /\ pc = "header_newline" /\ pc' = "plan" /\ AppendNewline
        /\ scenario' = scenario /\ exists' = exists /\ planFile' = planFile
        /\ metrics' = metrics /\ table' = table /\ done' = done /\ worker' = worker
        /\ outcome' = outcome /\ faults' = faults
    BY DEF EndHeader
  <1>1. /\ Len(file) = 1 /\ file[1].kind = "header" /\ file[1].of = scenario
        /\ done = 1..(Len(file) - 1)
    BY <1>0 DEF IInv, JournalOfInvocation, DoneIsJournal
  <1>2. /\ file' \in Seq(Records) /\ Len(file') = Len(file)
        /\ file'[1].kind = "header" /\ file'[1].of = scenario
        /\ Entries(file') = Entries(file) /\ Headers(file') = Headers(file)
        /\ Ordered(file') /\ Whole(file')
    BY <1>0, <1>1, NewlineFacts
  <1>3. TypeOK'
    BY <1>0, <1>2 DEF IInv, TypeOK
  <1>4. InPlanOrder' /\ JournalOfInvocation'
    BY <1>0, <1>1, <1>2 DEF InPlanOrder, Ordered, JournalOfInvocation, Untorn, Whole, Opened
  <1>5. DoneIsJournal'
    BY <1>0, <1>1, <1>2 DEF DoneIsJournal
  <1>6. WorkersFollowDone'
    BY <1>0 DEF IInv, WorkersFollowDone
  <1>7. RecordedHasMetrics' /\ PlanOfJournal' /\ TableOfFinished'
    BY <1>0, <1>2 DEF IInv, RecordedHasMetrics, PlanOfJournal, TableOfFinished
  <1> QED BY <1>3, <1>4, <1>5, <1>6, <1>7 DEF IInv

LEMMA WritePlanStep == ASSUME IInv, WritePlan PROVE IInv'
  <1>0. /\ pc = "plan" /\ pc' = "next" /\ planFile' = scenario /\ file' = file
        /\ scenario' = scenario /\ exists' = exists
        /\ metrics' = metrics /\ table' = table /\ done' = done /\ worker' = worker
        /\ outcome' = outcome /\ faults' = faults
    BY DEF WritePlan
  <1>1. Headers(file) = {scenario}
    BY <1>0, RunningFacts
  <1>2. TypeOK'
    BY <1>0 DEF IInv, TypeOK
  <1>3. InPlanOrder' /\ JournalOfInvocation' /\ DoneIsJournal'
    BY <1>0 DEF IInv, InPlanOrder, JournalOfInvocation, DoneIsJournal, Untorn, Opened
  <1>4. WorkersFollowDone'
    BY <1>0 DEF IInv, WorkersFollowDone
  <1>5. RecordedHasMetrics' /\ PlanOfJournal' /\ TableOfFinished'
    BY <1>0, <1>1 DEF IInv, RecordedHasMetrics, PlanOfJournal, TableOfFinished
  <1> QED BY <1>2, <1>3, <1>4, <1>5 DEF IInv

(* The runs started are the next ones of the plan that are not finished.    *)
LEMMA ChunkFacts ==
    ASSUME NEW m \in Nat, done = 1..m
    PROVE  /\ Chunk = {r \in Runs \ done : r - 1 - m < Concurrency}
           /\ Chunk = {} => Runs \subseteq done
  <1>1. ASSUME NEW r \in Runs \ done
        PROVE  Cardinality({q \in Runs \ done : q < r}) = r - 1 - m
    <2>1. r \in Nat /\ r > m /\ r <= NumRuns
      BY <1>1, RunsAssumption DEF Runs
    <2>2. {q \in Runs \ done : q < r} = (m + 1)..(r - 1)
      BY <2>1, RunsAssumption DEF Runs
    <2>3. Cardinality((m + 1)..(r - 1)) =
             IF m + 1 > r - 1 THEN 0 ELSE (r - 1) - (m + 1) + 1
      BY <2>1, FS_Interval
    <2>4. (IF m + 1 > r - 1 THEN 0 ELSE (r - 1) - (m + 1) + 1) = r - 1 - m
      BY <2>1
    <2> QED BY <2>2, <2>3, <2>4
  <1>2. Chunk = {r \in Runs \ done : r - 1 - m < Concurrency}
    BY <1>1 DEF Chunk
  <1>3. ASSUME Chunk = {}, NEW x \in Runs, x \notin done PROVE FALSE
    <2>1. m + 1 \in Runs \ done
      BY <1>3, RunsAssumption DEF Runs
    <2>2. (m + 1) - 1 - m < Concurrency
      BY ConcurrencyAssumption
    <2> QED BY <1>2, <1>3, <2>1, <2>2
  <1> QED BY <1>2, <1>3

LEMMA StartChunkStep == ASSUME IInv, StartChunk PROVE IInv'
  <1>0. /\ pc = "next" /\ pc' = "chunk"
        /\ worker' = [r \in Runs |-> IF r \in Chunk THEN "running" ELSE "none"]
        /\ scenario' = scenario /\ exists' = exists /\ file' = file
        /\ planFile' = planFile /\ metrics' = metrics /\ table' = table /\ done' = done
        /\ outcome' = outcome /\ faults' = faults
    BY DEF StartChunk, disk
  <1>1. done = 1..(Len(file) - 1) /\ Len(file) - 1 \in Nat
    BY <1>0, RunningFacts DEF IInv, DoneIsJournal
  <1>2. Chunk = {r \in Runs \ done : r - 1 - (Len(file) - 1) < Concurrency}
    BY <1>1, ChunkFacts
  <1>3. TypeOK'
    BY <1>0 DEF IInv, TypeOK
  <1>4. InPlanOrder' /\ JournalOfInvocation' /\ DoneIsJournal'
    BY <1>0 DEF IInv, InPlanOrder, JournalOfInvocation, DoneIsJournal, Untorn, Opened
  <1>5. \A r \in Runs, q \in Runs : r \in Chunk /\ q < r /\ q \notin done => q \in Chunk
    BY <1>1, <1>2, RunsAssumption, ConcurrencyAssumption DEF Runs
  <1>6. \A r \in Chunk : r \notin done
    BY <1>2
  <1>7. WorkersFollowDone'
    BY <1>0, <1>5, <1>6 DEF WorkersFollowDone
  <1>8. RecordedHasMetrics' /\ PlanOfJournal' /\ TableOfFinished'
    BY <1>0 DEF IInv, RecordedHasMetrics, PlanOfJournal, TableOfFinished
  <1> QED BY <1>3, <1>4, <1>7, <1>8 DEF IInv

(* A thread that works belongs to the chunk, and its run is not recorded.   *)
LEMMA RunningIsNew ==
    ASSUME IInv, NEW r \in Runs, worker[r] = "running"
    PROVE  pc = "chunk" /\ r \notin Entries(file)
  <1>1. pc = "chunk" /\ r \notin done
    BY DEF IInv, WorkersFollowDone
  <1> QED BY <1>1, RunningFacts DEF IInv, DoneIsJournal

(* Only documents nobody vouches for yet are cut short.                    *)
LEMMA CutShortFacts ==
    ASSUME IInv, DocumentsCutShort
    PROVE  /\ planFile' \in {planFile, NoPlan} /\ table' \in {table, {}}
           /\ metrics' \in [Runs -> Plans \union {NoPlan}]
           /\ \A r \in Entries(file) : metrics'[r] = metrics[r]
  <1>1. PICK cut \in SUBSET {r \in Runs : worker[r] = "running"} :
           metrics' = [r \in Runs |-> IF r \in cut THEN NoPlan ELSE metrics[r]]
    BY DEF DocumentsCutShort
  <1>2. metrics \in [Runs -> Plans \union {NoPlan}] /\ file \in Seq(Records)
    BY DEF IInv, TypeOK
  <1>3. ASSUME NEW r \in Entries(file) PROVE metrics'[r] = metrics[r]
    <2>1. r \in Runs
      BY <1>2, RecordFields, ElementOfSeq DEF Entries
    <2>2. r \notin cut
      BY <1>1, <2>1, RunningIsNew
    <2> QED BY <1>1, <2>1, <2>2
  <1>4. planFile' \in {planFile, NoPlan} /\ table' \in {table, {}}
    BY DEF DocumentsCutShort
  <1> QED BY <1>1, <1>2, <1>3, <1>4

LEMMA KillStep == ASSUME IInv, Kill \/ DocumentFails PROVE IInv'
  <1>1. /\ faults' \in 0..MaxFaults /\ scenario' = scenario /\ exists' = exists /\ file' = file
        /\ DocumentsCutShort
    BY MaxFaultsAssumption DEF Kill, DocumentFails, Fault, IInv, TypeOK
  <1>2. Ends("killed") \/ Ends("io_error")
    BY DEF Kill, DocumentFails
  <1> QED BY <1>1, <1>2, CutShortFacts, EndsKeeps

LEMMA RunFinishesStep == ASSUME IInv, NEW r \in Runs, RunFinishes(r) PROVE IInv'
  <1>0. /\ worker[r] = "running"
        /\ metrics' = [metrics EXCEPT ![r] = scenario]
        /\ worker' = [worker EXCEPT ![r] = "ok"]
        /\ scenario' = scenario /\ exists' = exists /\ file' = file
        /\ planFile' = planFile /\ table' = table /\ pc' = pc /\ done' = done
        /\ outcome' = outcome /\ faults' = faults
    BY DEF RunFinishes
  <1>1. pc = "chunk" /\ r \notin Entries(file)
    BY <1>0, RunningIsNew
  <1>2. TypeOK'
    BY <1>0 DEF IInv, TypeOK
  <1>3. InPlanOrder' /\ JournalOfInvocation' /\ DoneIsJournal'
    BY <1>0, <1>1 DEF IInv, InPlanOrder, JournalOfInvocation, DoneIsJournal, Untorn, Opened
  <1>4. WorkersFollowDone'
    BY <1>0, <1>1 DEF IInv, TypeOK, WorkersFollowDone
  <1>5. RecordedHasMetrics'
    BY <1>0, <1>1 DEF IInv, TypeOK, RecordedHasMetrics
  <1>6. PlanOfJournal' /\ TableOfFinished'
    BY <1>0 DEF IInv, PlanOfJournal, TableOfFinished
  <1> QED BY <1>2, <1>3, <1>4, <1>5, <1>6 DEF IInv

LEMMA RunFailsStep == ASSUME IInv, NEW r \in Runs, RunFails(r) PROVE IInv'
  <1>0. /\ worker[r] = "running" /\ faults' \in 0..MaxFaults
        /\ worker' = [worker EXCEPT ![r] = "failed"]
        /\ scenario' = scenario /\ exists' = exists /\ file' = file
        /\ planFile' = planFile /\ table' = table /\ pc' = pc /\ done' = done
        /\ outcome' = outcome
    BY MaxFaultsAssumption DEF RunFails, Fault, IInv, TypeOK
  <1>6. /\ metrics' \in [Runs -> Plans \union {NoPlan}]
        /\ \A q \in Runs : q # r => metrics'[q] = metrics[q]
    BY DEF RunFails, IInv, TypeOK
  <1>1. pc = "chunk" /\ r \notin Entries(file) /\ Entries(file) \subseteq Runs
    <2>1. file \in Seq(Records)
      BY DEF IInv, TypeOK
    <2>2. pc = "chunk" /\ r \notin Entries(file)
      BY <1>0, RunningIsNew
    <2>3. ASSUME NEW q \in Entries(file) PROVE q \in Runs
      BY <2>1, RecordFields, ElementOfSeq DEF Entries
    <2> QED BY <2>2, <2>3
  <1>2. TypeOK'
    BY <1>0, <1>6 DEF IInv, TypeOK
  <1>3. InPlanOrder' /\ JournalOfInvocation' /\ DoneIsJournal'
    BY <1>0, <1>1 DEF IInv, InPlanOrder, JournalOfInvocation, DoneIsJournal, Untorn, Opened
  <1>4. WorkersFollowDone'
    BY <1>0, <1>1, <1>6 DEF IInv, TypeOK, WorkersFollowDone
  <1>5. RecordedHasMetrics' /\ PlanOfJournal' /\ TableOfFinished'
    BY <1>0, <1>1, <1>6 DEF IInv, RecordedHasMetrics, PlanOfJournal, TableOfFinished
  <1> QED BY <1>2, <1>3, <1>4, <1>5 DEF IInv

LEMMA JoinChunkStep == ASSUME IInv, JoinChunk PROVE IInv'
  <1>0. /\ pc = "chunk" /\ pc' = "record" /\ \A r \in Runs : worker[r] # "running"
        /\ scenario' = scenario /\ exists' = exists /\ file' = file /\ metrics' = metrics
        /\ planFile' = planFile /\ table' = table /\ done' = done /\ worker' = worker
        /\ outcome' = outcome /\ faults' = faults
    BY DEF JoinChunk, disk
  <1>1. TypeOK'
    BY <1>0 DEF IInv, TypeOK
  <1>2. InPlanOrder' /\ JournalOfInvocation' /\ DoneIsJournal'
    BY <1>0 DEF IInv, InPlanOrder, JournalOfInvocation, DoneIsJournal, Untorn, Opened
  <1>3. WorkersFollowDone'
    BY <1>0 DEF IInv, WorkersFollowDone
  <1>4. RecordedHasMetrics' /\ PlanOfJournal' /\ TableOfFinished'
    BY <1>0 DEF IInv, RecordedHasMetrics, PlanOfJournal, TableOfFinished
  <1> QED BY <1>1, <1>2, <1>3, <1>4 DEF IInv

(* The next result in plan order is that of the run after the finished ones. *)
LEMMA NextResultFacts ==
    ASSUME IInv, NEW r \in Runs, NextResult(r), NEW m \in Nat, done = 1..m
    PROVE  r = m + 1
  <1>1. r \notin done
    BY DEF IInv, WorkersFollowDone, NextResult
  <1>2. \A q \in Runs : q < r => q \in done
    BY DEF IInv, WorkersFollowDone, NextResult
  <1>3. r > m + 1 => m + 1 \in Runs /\ m + 1 < r
    BY RunsAssumption DEF Runs
  <1> QED BY <1>1, <1>2, <1>3, RunsAssumption DEF Runs

(* Recording appends the line of the next run of the plan.                 *)
LEMMA RecordLineFacts ==
    ASSUME IInv, NEW r \in Runs, RecordLine(r)
    PROVE  /\ r = Len(file) /\ file \in Seq(Records)
           /\ file' \in Seq(Records) /\ Len(file') = Len(file) + 1
           /\ Ordered(file') /\ Whole(file')
           /\ \A k \in 1..Len(file) : file'[k] = file[k]
           /\ Entries(file') = Entries(file) \union {r}
           /\ Headers(file') = Headers(file)
  <1> DEFINE e == [kind |-> "run", of |-> r, newline |-> FALSE]
  <1>1. pc = "record" /\ NextResult(r) /\ file' = Append(file, e)
    BY DEF RecordLine, AppendLine
  <1>2. /\ file \in Seq(Records) /\ Len(file) \in Nat /\ Len(file) >= 1
        /\ Ordered(file) /\ Whole(file) /\ done = 1..(Len(file) - 1)
    BY <1>1, RunningFacts DEF IInv, DoneIsJournal
  <1>3. Len(file) - 1 \in Nat
    BY <1>2
  <1>4. r = Len(file)
    <2>1. r = (Len(file) - 1) + 1
      BY <1>1, <1>2, <1>3, NextResultFacts
    <2> QED BY <1>2, <2>1
  <1>5. e \in Records /\ e.kind = "run" /\ e.of = r
    BY DEF Records
  <1> HIDE DEF e
  <1>6. /\ file' \in Seq(Records) /\ Len(file') = Len(file) + 1
        /\ \A k \in 1..Len(file) : file'[k] = file[k]
        /\ file'[Len(file) + 1] = e
        /\ Entries(file') = Entries(file) \union (IF e.kind = "run" THEN {e.of} ELSE {})
        /\ Headers(file') = Headers(file) \union (IF e.kind = "header" THEN {e.of} ELSE {})
    BY <1>1, <1>2, <1>5, AppendRecord
  <1>7. Entries(file') = Entries(file) \union {r} /\ Headers(file') = Headers(file)
    BY <1>5, <1>6
  <1>8. ASSUME NEW k \in 1..Len(file')
        PROVE  \/ k = 1 /\ file'[k].kind = "header"
               \/ k > 1 /\ file'[k].kind = "run" /\ file'[k].of = k - 1
    <2>1. CASE k \in 1..Len(file)
      BY <1>2, <1>6, <2>1 DEF Ordered, Whole
    <2>2. CASE k = Len(file) + 1
      BY <1>2, <1>4, <1>5, <1>6, <2>2
    <2> QED BY <1>2, <1>6, <1>8, <2>1, <2>2
  <1>9. Ordered(file') /\ Whole(file')
    BY <1>8 DEF Ordered, Whole
  <1> QED BY <1>2, <1>4, <1>6, <1>7, <1>9

LEMMA RecordLineStep == ASSUME IInv, NEW r \in Runs, RecordLine(r) PROVE IInv'
  <1>0. /\ pc = "record" /\ pc' = "newline" /\ worker[r] = "ok"
        /\ scenario' = scenario /\ exists' = exists /\ metrics' = metrics
        /\ planFile' = planFile /\ table' = table /\ done' = done /\ worker' = worker
        /\ outcome' = outcome /\ faults' = faults
    BY DEF RecordLine
  <1>1. /\ r = Len(file) /\ Len(file) \in Nat /\ Len(file) >= 1
        /\ file' \in Seq(Records) /\ Len(file') = Len(file) + 1
        /\ Ordered(file') /\ Whole(file')
        /\ file'[1] = file[1]
        /\ Entries(file') = Entries(file) \union {r}
        /\ Headers(file') = Headers(file)
    BY <1>0, RecordLineFacts, RunningFacts
  <1>2. /\ file[1].kind = "header" /\ file[1].of = scenario
        /\ Headers(file) = {scenario} /\ done = 1..(Len(file) - 1)
    BY <1>0, RunningFacts DEF IInv, JournalOfInvocation, DoneIsJournal, Opened
  <1>3. TypeOK'
    BY <1>0, <1>1 DEF IInv, TypeOK
  <1>4. InPlanOrder' /\ JournalOfInvocation'
    BY <1>0, <1>1, <1>2 DEF InPlanOrder, Ordered, JournalOfInvocation, Untorn, Whole, Opened
  <1>5. DoneIsJournal'
    <2>1. Len(file') - 2 = Len(file) - 1 /\ Len(file') - 1 = r /\ Len(file') >= 2
      BY <1>1
    <2> QED BY <1>0, <1>2, <2>1 DEF DoneIsJournal
  <1>6. WorkersFollowDone'
    BY <1>0 DEF IInv, WorkersFollowDone
  <1>7. metrics[r] = scenario
    BY <1>0 DEF IInv, WorkersFollowDone
  <1>8. RecordedHasMetrics' /\ PlanOfJournal' /\ TableOfFinished'
    BY <1>0, <1>1, <1>2, <1>7
       DEF IInv, RecordedHasMetrics, PlanOfJournal, TableOfFinished
  <1> QED BY <1>3, <1>4, <1>5, <1>6, <1>8 DEF IInv

LEMMA EndRecordStep == ASSUME IInv, NEW r \in Runs, EndRecord(r) PROVE IInv'
  <1>0. /\ pc = "newline" /\ NextResult(r) /\ AppendNewline
        /\ done' = done \union {r} /\ worker' = [worker EXCEPT ![r] = "none"]
        /\ pc' = IF \A q \in Runs \ {r} : worker[q] = "none" THEN "next" ELSE "record"
        /\ scenario' = scenario /\ exists' = exists /\ metrics' = metrics
        /\ planFile' = planFile /\ table' = table /\ outcome' = outcome /\ faults' = faults
    BY DEF EndRecord
  <1>1. /\ Len(file) \in Nat /\ Len(file) >= 2 /\ done = 1..(Len(file) - 2)
        /\ file[1].kind = "header" /\ file[1].of = scenario
    BY <1>0, RunningFacts DEF IInv, JournalOfInvocation, DoneIsJournal, Opened
  <1>2. r = Len(file) - 1
    <2>1. Len(file) - 2 \in Nat
      BY <1>1
    <2>2. r = (Len(file) - 2) + 1
      BY <1>0, <1>1, <2>1, NextResultFacts
    <2> QED BY <1>1, <2>2
  <1>3. /\ file' \in Seq(Records) /\ Len(file') = Len(file)
        /\ file'[1].kind = "header" /\ file'[1].of = scenario
        /\ Entries(file') = Entries(file) /\ Headers(file') = Headers(file)
        /\ Ordered(file') /\ Whole(file')
    BY <1>0, <1>1, NewlineFacts
  <1>4. TypeOK'
    BY <1>0, <1>3 DEF IInv, TypeOK
  <1>5. pc' \in {"next", "record"}
    BY <1>0
  <1>6. InPlanOrder' /\ JournalOfInvocation'
    BY <1>0, <1>1, <1>3, <1>5
       DEF InPlanOrder, Ordered, JournalOfInvocation, Untorn, Whole, Opened
  <1>7. DoneIsJournal'
    <2>1. done' = 1..(Len(file') - 1)
      BY <1>0, <1>1, <1>2, <1>3
    <2> QED BY <1>5, <2>1 DEF DoneIsJournal
  <1>8. WorkersFollowDone'
    <2>1. worker \in [Runs -> {"none", "running", "ok", "failed"}]
      BY DEF IInv, TypeOK
    <2>2. pc' = "next" => worker' = Idle
      BY <1>0, <2>1 DEF Idle
    <2>3. \A q \in Runs : worker'[q] # "running"
      BY <1>0, <2>1 DEF IInv, WorkersFollowDone
    <2>4. \A q \in Runs : worker'[q] # "none" =>
             /\ q \notin done'
             /\ \A p \in Runs : p < q /\ p \notin done' => worker'[p] # "none"
      BY <1>0, <2>1 DEF IInv, WorkersFollowDone
    <2>5. \A q \in Runs : worker'[q] = "ok" => metrics'[q] = scenario'
      BY <1>0, <2>1 DEF IInv, WorkersFollowDone
    <2> QED BY <1>5, <2>2, <2>3, <2>4, <2>5 DEF WorkersFollowDone
  <1>9. RecordedHasMetrics' /\ PlanOfJournal' /\ TableOfFinished'
    BY <1>0, <1>3 DEF IInv, RecordedHasMetrics, PlanOfJournal, TableOfFinished
  <1> QED BY <1>4, <1>6, <1>7, <1>8, <1>9 DEF IInv

(* A sweep without a next chunk has finished every run.                    *)
LEMMA WriteTableStep == ASSUME IInv, WriteTable PROVE IInv'
  <1>0. /\ pc = "next" /\ Chunk = {} /\ scenario' = scenario /\ exists' = exists
        /\ file' = file /\ planFile' = planFile /\ metrics' = metrics /\ faults' = faults
    BY DEF WriteTable
  <1>1. CASE Ends("io_error") /\ table' = table
    <2>1. faults' \in 0..MaxFaults /\ metrics \in [Runs -> Plans \union {NoPlan}]
      BY <1>0 DEF IInv, TypeOK
    <2> QED BY <1>0, <1>1, <2>1, EndsKeeps
  <1>2. CASE Ends("done") /\ table' = done
    <2>0. pc' = "stopped" /\ outcome' = "done" /\ done' = {} /\ worker' = Idle
      BY <1>2 DEF Ends
    <2>1. /\ done = 1..(Len(file) - 1) /\ Len(file) - 1 \in Nat
          /\ Entries(file) = 1..(Len(file) - 1)
      BY <1>0, RunningFacts DEF IInv, DoneIsJournal
    <2>2. Runs \subseteq done
      BY <1>0, <2>1, ChunkFacts
    <2>3. done = Runs
      BY <2>2 DEF IInv, TypeOK
    <2>4. TypeOK'
      BY <1>0, <1>2, <2>0, <2>3 DEF IInv, TypeOK, Idle
    <2>5. InPlanOrder' /\ JournalOfInvocation' /\ DoneIsJournal'
      BY <1>0, <2>0 DEF IInv, InPlanOrder, JournalOfInvocation, DoneIsJournal, Opened
    <2>6. WorkersFollowDone'
      BY <2>0 DEF WorkersFollowDone, Idle
    <2>7. RecordedHasMetrics' /\ PlanOfJournal'
      BY <1>0 DEF IInv, RecordedHasMetrics, PlanOfJournal
    <2>8. TableOfFinished'
      BY <1>0, <1>2, <2>1, <2>3 DEF TableOfFinished
    <2> QED BY <2>4, <2>5, <2>6, <2>7, <2>8 DEF IInv
  <1> QED BY <1>1, <1>2 DEF WriteTable

(* A torn line is the last one and names nothing.                          *)
LEMMA TornFacts ==
    ASSUME IInv, pc \in {"header", "record"},
           file' = Append(file, [kind |-> "torn", of |-> 0, newline |-> FALSE])
    PROVE  /\ file' \in Seq(Records) /\ Ordered(file')
           /\ Entries(file') = Entries(file) /\ Headers(file') = Headers(file)
  <1> DEFINE e == [kind |-> "torn", of |-> 0, newline |-> FALSE]
  <1>1. e \in Records /\ e.kind = "torn" /\ file' = Append(file, e)
    BY DEF Records
  <1> HIDE DEF e
  <1>2. file \in Seq(Records) /\ Len(file) \in Nat /\ Ordered(file) /\ Whole(file)
    BY RunningFacts
  <1>3. /\ file' \in Seq(Records) /\ Len(file') = Len(file) + 1
        /\ \A k \in 1..Len(file) : file'[k] = file[k]
        /\ file'[Len(file) + 1] = e
        /\ Entries(file') = Entries(file) \union (IF e.kind = "run" THEN {e.of} ELSE {})
        /\ Headers(file') = Headers(file) \union (IF e.kind = "header" THEN {e.of} ELSE {})
    <2>1. e \in Records /\ file \in Seq(Records)
      BY <1>1, <1>2
    <2>2. file' = Append(file, e)
      BY <1>1
    <2> QED BY <2>1, <2>2, AppendRecord
  <1>4. Entries(file') = Entries(file) /\ Headers(file') = Headers(file)
    BY <1>1, <1>3
  <1>5. ASSUME NEW k \in 1..Len(file')
        PROVE  \/ k = 1 /\ file'[k].kind = "header"
               \/ k > 1 /\ file'[k].kind = "run" /\ file'[k].of = k - 1
               \/ k = Len(file') /\ file'[k].kind = "torn"
    <2>1. CASE k \in 1..Len(file)
      BY <1>2, <1>3, <2>1 DEF Ordered, Whole
    <2>2. CASE k = Len(file) + 1
      BY <1>1, <1>3, <2>2
    <2> QED BY <1>2, <1>3, <1>5, <2>1, <2>2
  <1>6. Ordered(file')
    BY <1>5 DEF Ordered
  <1> QED BY <1>3, <1>4, <1>6

LEMMA WriteFailsStep == ASSUME IInv, WriteFails PROVE IInv'
  <1>0. /\ faults' \in 0..MaxFaults /\ Ends("io_error")
        /\ scenario' = scenario /\ exists' = exists /\ planFile' = planFile
        /\ metrics' = metrics /\ table' = table
    BY MaxFaultsAssumption DEF WriteFails, Fault, IInv, TypeOK
  <1>1. CASE file' = file
    <2>1. metrics' \in [Runs -> Plans \union {NoPlan}]
      BY <1>0 DEF IInv, TypeOK
    <2> QED BY <1>0, <1>1, <2>1, EndsKeeps
  <1>2. CASE /\ pc \in {"header", "record"}
             /\ file' = Append(file, [kind |-> "torn", of |-> 0, newline |-> FALSE])
    <2>0. pc' = "stopped" /\ outcome' = "io_error" /\ done' = {} /\ worker' = Idle
      BY <1>0 DEF Ends
    <2>1. /\ file' \in Seq(Records) /\ Ordered(file')
          /\ Entries(file') = Entries(file) /\ Headers(file') = Headers(file)
      BY <1>2, TornFacts
    <2>2. TypeOK'
      BY <1>0, <2>0, <2>1 DEF IInv, TypeOK, Idle
    <2>3. InPlanOrder' /\ JournalOfInvocation' /\ DoneIsJournal'
      BY <2>0, <2>1 DEF InPlanOrder, Ordered, JournalOfInvocation, DoneIsJournal, Opened
    <2>4. WorkersFollowDone'
      BY <2>0 DEF WorkersFollowDone, Idle
    <2>5. RecordedHasMetrics' /\ PlanOfJournal' /\ TableOfFinished'
      BY <1>0, <2>0, <2>1 DEF IInv, RecordedHasMetrics, PlanOfJournal, TableOfFinished
    <2> QED BY <2>2, <2>3, <2>4, <2>5 DEF IInv
  <1> QED BY <1>1, <1>2 DEF WriteFails

LEMMA EditStep == ASSUME IInv, Edit PROVE IInv'
  <1>0. /\ pc = "stopped" /\ pc' = pc /\ faults' \in 0..MaxFaults /\ scenario' \in Plans
        /\ exists' = exists /\ file' = file /\ planFile' = planFile /\ table' = table
        /\ metrics' = metrics /\ done' = done /\ worker' = worker /\ outcome' = outcome
    BY MaxFaultsAssumption DEF Edit, Fault, disk, IInv, TypeOK
  <1>1. worker = Idle
    BY <1>0 DEF IInv, WorkersFollowDone
  <1>2. TypeOK'
    BY <1>0 DEF IInv, TypeOK
  <1>3. InPlanOrder' /\ JournalOfInvocation' /\ DoneIsJournal'
    BY <1>0 DEF IInv, InPlanOrder, JournalOfInvocation, DoneIsJournal, Opened
  <1>4. WorkersFollowDone'
    BY <1>0, <1>1 DEF WorkersFollowDone, Idle
  <1>5. RecordedHasMetrics' /\ PlanOfJournal' /\ TableOfFinished'
    BY <1>0 DEF IInv, RecordedHasMetrics, PlanOfJournal, TableOfFinished
  <1> QED BY <1>2, <1>3, <1>4, <1>5 DEF IInv

LEMMA NextInv == ASSUME IInv, [Next]_vars PROVE IInv'
  <1>1. CASE UNCHANGED vars
    <2>0. /\ pc' = pc /\ faults' = faults /\ scenario' = scenario /\ exists' = exists
          /\ file' = file /\ planFile' = planFile /\ table' = table /\ metrics' = metrics
          /\ done' = done /\ worker' = worker /\ outcome' = outcome
      BY <1>1 DEF vars
    <2>1. TypeOK'
      BY <2>0 DEF IInv, TypeOK
    <2>2. InPlanOrder' /\ JournalOfInvocation' /\ DoneIsJournal'
      BY <2>0 DEF IInv, InPlanOrder, JournalOfInvocation, Untorn, DoneIsJournal, Opened
    <2>3. WorkersFollowDone'
      BY <2>0 DEF IInv, WorkersFollowDone
    <2>4. RecordedHasMetrics' /\ PlanOfJournal' /\ TableOfFinished'
      BY <2>0 DEF IInv, RecordedHasMetrics, PlanOfJournal, TableOfFinished
    <2> QED BY <2>1, <2>2, <2>3, <2>4 DEF IInv
  <1>2. CASE OpenMissing \/ OpenRefused \/ OpenJournal
    BY <1>2, OpenRefusedStep, OpenJournalStep
  <1>3. CASE Invocation
    BY <1>3, WriteHeaderStep, EndHeaderStep, WritePlanStep, StartChunkStep, JoinChunkStep,
       RecordLineStep, EndRecordStep, StopAtFailureStep, WriteTableStep DEF Invocation
  <1>4. CASE \E r \in Runs : RunFinishes(r) \/ RunFails(r)
    BY <1>4, RunFinishesStep, RunFailsStep
  <1>5. CASE WriteFails \/ DocumentFails \/ Kill \/ Edit
    BY <1>5, WriteFailsStep, KillStep, EditStep
  <1> QED BY <1>1, <1>2, <1>3, <1>4, <1>5 DEF Next

(* The inductive invariant holds of every plan, concurrency and fault budget. *)
THEOREM InductiveInvariant == Spec => []IInv
  <1>1. IInv /\ [Next]_vars => IInv'
    BY NextInv
  <1> QED BY <1>1, InitInv, PTL DEF Spec

(* For any plan, concurrency and faults: wherever a sweep is killed, edited,  *)
(* refused or torn, its output directory is that of one plan carried out up   *)
(* to some run (runner.rs run_experiment, journal.rs open and record).        *)
THEOREM JournalIsSound == Spec => []JournalSound
  <1>1. IInv => JournalSound
    BY DEF IInv, JournalSound
  <1> QED BY <1>1, InductiveInvariant, PTL

(* No step drops a journalled run, rewrites its metrics or starts it again.   *)
LEMMA FinishedStaysStep ==
    ASSUME IInv, [Next]_vars, NEW r \in Entries(file)
    PROVE  /\ r \in Entries(file')
           /\ metrics'[r] = metrics[r]
           /\ worker[r] = "none" => worker'[r] = "none"
  <1>0. r \in Runs /\ worker \in [Runs -> {"none", "running", "ok", "failed"}]
    <2>1. file \in Seq(Records)
      BY DEF IInv, TypeOK
    <2> QED BY <2>1, RecordFields, ElementOfSeq DEF Entries, IInv, TypeOK
  <1>1. CASE UNCHANGED vars
    BY <1>1 DEF vars
  <1>2. CASE OpenMissing \/ OpenRefused \/ OpenJournal \/ Edit
    BY <1>0, <1>2 DEF OpenMissing, OpenRefused, OpenJournal, Edit, Ends, disk, Idle
  <1>14. CASE Kill \/ DocumentFails
    <2>1. DocumentsCutShort /\ file' = file /\ worker' = Idle
      BY <1>14 DEF Kill, DocumentFails, Ends
    <2> QED BY <1>0, <2>1, CutShortFacts DEF Idle
  <1>3. CASE WritePlan \/ JoinChunk \/ WriteTable
    BY <1>0, <1>3 DEF WritePlan, JoinChunk, WriteTable, Ends, disk, Idle
  <1>4. CASE WriteHeader
    <2>1. [kind |-> "header", of |-> scenario, newline |-> FALSE] \in Records
      BY DEF IInv, TypeOK, Records
    <2>2. r \in Entries(file')
      BY <1>4, <2>1, AppendRecord DEF IInv, TypeOK, WriteHeader, AppendLine
    <2> QED BY <1>4, <2>2 DEF WriteHeader
  <1>5. CASE EndHeader
    BY <1>5, NewlineFacts DEF EndHeader
  <1>6. CASE StartChunk
    <2>1. pc = "next" /\ r \in done
      BY <1>6, RunningFacts DEF StartChunk, IInv, DoneIsJournal
    <2>2. r \notin Chunk
      BY <2>1 DEF Chunk
    <2> QED BY <1>0, <1>6, <2>2 DEF StartChunk, disk
  <1>7. ASSUME NEW q \in Runs, RecordLine(q) PROVE r \in Entries(file')
    BY <1>7, RecordLineFacts
  <1>8. ASSUME NEW q \in Runs, EndRecord(q)
        PROVE  /\ r \in Entries(file') /\ metrics'[r] = metrics[r]
               /\ worker[r] = "none" => worker'[r] = "none"
    BY <1>0, <1>8, NewlineFacts DEF EndRecord
  <1>9. ASSUME NEW q \in Runs, StopAtFailure(q)
        PROVE  /\ r \in Entries(file') /\ metrics'[r] = metrics[r]
               /\ worker[r] = "none" => worker'[r] = "none"
    BY <1>0, <1>9 DEF StopAtFailure, Ends, disk, Idle
  <1>10. ASSUME NEW q \in Runs, RunFinishes(q)
         PROVE  /\ r \in Entries(file') /\ metrics'[r] = metrics[r]
                /\ worker[r] = "none" => worker'[r] = "none"
    <2>1. q # r
      BY <1>10, RunningIsNew DEF RunFinishes
    <2> QED BY <1>0, <1>10, <2>1 DEF RunFinishes, IInv, TypeOK
  <1>11. ASSUME NEW q \in Runs, RunFails(q)
         PROVE  /\ r \in Entries(file') /\ metrics'[r] = metrics[r]
                /\ worker[r] = "none" => worker'[r] = "none"
    <2>1. q # r
      BY <1>11, RunningIsNew DEF RunFails
    <2> QED BY <1>0, <1>11, <2>1 DEF RunFails, IInv, TypeOK
  <1>12. CASE WriteFails
    <2>1. r \in Entries(file')
      BY <1>12, TornFacts DEF WriteFails
    <2> QED BY <1>0, <1>12, <2>1 DEF WriteFails, Ends, Idle
  <1>13. CASE Invocation
    <2>1. \A q \in Runs : RecordLine(q) => metrics' = metrics /\ worker' = worker
      BY DEF RecordLine
    <2> QED BY <1>3, <1>4, <1>5, <1>6, <1>7, <1>8, <1>9, <1>13, <2>1 DEF Invocation
  <1> QED BY <1>1, <1>2, <1>10, <1>11, <1>12, <1>13, <1>14 DEF Next

(* A run the journal names is never executed again and its metrics stay, in   *)
(* this invocation and in every later one (runner.rs, the filter on           *)
(* Journal::completed).                                                      *)
THEOREM FinishedRunsStay == Spec => FinishedStays
  <1>1. IInv /\ [Next]_vars =>
           \A r \in Entries(file) : /\ r \in Entries(file')
                                    /\ metrics'[r] = metrics[r]
                                    /\ worker[r] = "none" => worker'[r] = "none"
    BY FinishedStaysStep
  <1> QED BY <1>1, InductiveInvariant, PTL DEF Spec, FinishedStays
==============================================================================
