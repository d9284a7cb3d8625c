-------------------------- MODULE ExperimentJournal --------------------------
(***************************************************************************)
(* A sweep of experiments and the journal it resumes from: the runner of   *)
(* v2xw-experiment/src/runner.rs and the append-only file of journal.rs.   *)
(* A run of the plan is its position in plan order.  A record of the file  *)
(* says whether a newline follows it, because write_line writes the line   *)
(* and its newline with two calls and a process can stop between them.     *)
(***************************************************************************)
EXTENDS Naturals, Sequences, FiniteSets

CONSTANTS
    NumRuns,      \* plan.runs.len()
    Concurrency,  \* RunnerOptions::effective_concurrency
    Plans,        \* plan digests the operator's scenario may expand to
    NoPlan,       \* no document, or one cut short
    Faults,       \* subset of {"kill", "run", "disk", "edit"} that may happen
    MaxFaults     \* bound on the faults of a behaviour

ASSUME RunsAssumption == NumRuns \in Nat \ {0}
ASSUME ConcurrencyAssumption == Concurrency \in Nat \ {0}
ASSUME PlanAssumption == NoPlan \notin Plans
ASSUME FaultAssumption == Faults \subseteq {"kill", "run", "disk", "edit"}
ASSUME MaxFaultsAssumption == MaxFaults \in Nat

VARIABLES
    scenario,   \* the plan the operator's scenario expands to
    exists,     \* the journal file exists
    file,       \* its records
    planFile,   \* the plan document in the output directory
    metrics,    \* metrics[r]: the plan whose run r left run-metrics.json
    table,      \* the results table: the runs it covers
    pc,         \* where the invocation of run_experiment is
    done,       \* Journal::completed of that invocation
    worker,     \* worker[r]: the thread that executes run r
    outcome,    \* how the last invocation ended
    faults      \* faults so far

disk == <<exists, file, planFile, metrics, table>>
vars == <<scenario, exists, file, planFile, metrics, table, pc, done, worker,
          outcome, faults>>

Runs == 1..NumRuns
Records ==
    [kind : {"header"}, of : Plans, newline : BOOLEAN]
        \union [kind : {"run"}, of : Runs, newline : BOOLEAN]
        \union [kind : {"torn"}, of : {0}, newline : {FALSE}]
Idle == [r \in Runs |-> "none"]

Init ==
    /\ scenario \in Plans
    /\ exists = FALSE
    /\ file = <<>>
    /\ planFile = NoPlan
    /\ metrics = [r \in Runs |-> NoPlan]
    /\ table = {}
    /\ pc = "stopped"
    /\ done = {}
    /\ worker = Idle
    /\ outcome = "none"
    /\ faults = 0

(***************************************************************************)
(* The file as a reader sees it.                                           *)
(***************************************************************************)

\* Every line parses: a line holds one whole record.
Parses(f) ==
    /\ \A k \in 1..Len(f) : f[k].kind # "torn"
    /\ \A k \in 1..(Len(f) - 1) : f[k].newline

Headers(f) == {f[k].of : k \in {j \in 1..Len(f) : f[j].kind = "header"}}
Entries(f) == {f[k].of : k \in {j \in 1..Len(f) : f[j].kind = "run"}}

\* Journal::read, what status and rebuild_table go by: the finished runs, or none
\* when the journal is refused (no file, a line that does not parse, no header).
Readable == exists /\ Parses(file) /\ Headers(file) # {}

(***************************************************************************)
(* One invocation of run_experiment.  The scenario is read when it starts, *)
(* so an edit in the meantime is an edit between invocations.              *)
(***************************************************************************)

\* The invocation ends and its threads with it.
Ends(how) ==
    /\ pc' = "stopped"
    /\ outcome' = how
    /\ done' = {}
    /\ worker' = Idle

\* A resume of a sweep that was never started.
OpenMissing ==
    /\ pc = "stopped"
    /\ ~exists
    /\ Ends("no_journal")
    /\ UNCHANGED <<disk, scenario, faults>>

\* Bug: the plan document is written before the journal is opened.
OpenRefusedAfterPlan ==
    /\ pc = "stopped"
    /\ \/ ~Parses(file) /\ Ends("bad_journal")
       \/ Parses(file) /\ ~(Headers(file) \subseteq {scenario}) /\ Ends("plan_changed")
    /\ planFile' = scenario
    /\ UNCHANGED <<scenario, exists, file, metrics, table, faults>>

\* Journal::open reads the whole file before it writes: a line that does not parse
\* is refused, and a header of another plan.
OpenRefused ==
    /\ pc = "stopped"
    /\ \/ ~Parses(file) /\ Ends("bad_journal")
       \/ Parses(file) /\ ~(Headers(file) \subseteq {scenario}) /\ Ends("plan_changed")
    /\ UNCHANGED <<disk, scenario, faults>>

\* Bug: the finished runs are not carried over.
OpenJournalFresh ==
    /\ pc = "stopped"
    /\ Parses(file)
    /\ Headers(file) \subseteq {scenario}
    /\ exists' = TRUE
    /\ done' = {}
    /\ pc' = IF Headers(file) = {} THEN "header" ELSE "plan"
    /\ UNCHANGED <<scenario, file, planFile, metrics, table, worker, outcome, faults>>

\* Bug: a journal that was created and has no header yet is refused.
OpenJournalNeedsHeader ==
    /\ pc = "stopped"
    /\ Parses(file)
    /\ Headers(file) \subseteq {scenario}
    /\ exists' = TRUE
    /\ IF exists /\ Headers(file) = {}
       THEN Ends("bad_journal")
       ELSE /\ done' = Entries(file)
            /\ pc' = IF Headers(file) = {} THEN "header" ELSE "plan"
            /\ UNCHANGED <<worker, outcome>>
    /\ UNCHANGED <<scenario, file, planFile, metrics, table, faults>>

\* The journal is accepted: the finished runs are known, the file exists.
OpenJournal ==
    /\ pc = "stopped"
    /\ Parses(file)
    /\ Headers(file) \subseteq {scenario}
    /\ exists' = TRUE
    /\ done' = Entries(file)
    /\ pc' = IF Headers(file) = {} THEN "header" ELSE "plan"
    /\ UNCHANGED <<scenario, file, planFile, metrics, table, worker, outcome, faults>>

\* The two writes of write_line: the line, then its newline.
AppendLine(kind, of) ==
    file' = Append(file, [kind |-> kind, of |-> of, newline |-> FALSE])
AppendNewline ==
    file' = [file EXCEPT ![Len(file)] = [@ EXCEPT !.newline = TRUE]]

WriteHeader ==
    /\ pc = "header"
    /\ AppendLine("header", scenario)
    /\ pc' = "header_newline"
    /\ UNCHANGED <<scenario, exists, planFile, metrics, table, done, worker, outcome,
                   faults>>

EndHeader ==
    /\ pc = "header_newline"
    /\ AppendNewline
    /\ pc' = "plan"
    /\ UNCHANGED <<scenario, exists, planFile, metrics, table, done, worker, outcome,
                   faults>>

\* The plan document is written once the journal has accepted the plan.
WritePlan ==
    /\ pc = "plan"
    /\ planFile' = scenario
    /\ pc' = "next"
    /\ UNCHANGED <<scenario, exists, file, metrics, table, done, worker, outcome,
                   faults>>

\* The first Concurrency runs that are not finished, in plan order.
Chunk ==
    {r \in Runs \ done : Cardinality({q \in Runs \ done : q < r}) < Concurrency}

\* One thread per run of the next chunk.
StartChunk ==
    /\ pc = "next"
    /\ Chunk # {}
    /\ worker' = [r \in Runs |-> IF r \in Chunk THEN "running" ELSE "none"]
    /\ pc' = "chunk"
    /\ UNCHANGED <<disk, scenario, done, outcome, faults>>

\* execute_one: the executor runs the scenario, its samples are reduced and
\* run-metrics.json is written.
RunFinishes(r) ==
    /\ worker[r] = "running"
    /\ metrics' = [metrics EXCEPT ![r] = scenario]
    /\ worker' = [worker EXCEPT ![r] = "ok"]
    /\ UNCHANGED <<scenario, exists, file, planFile, table, pc, done, outcome, faults>>

Fault(kind) ==
    /\ kind \in Faults
    /\ faults < MaxFaults
    /\ faults' = faults + 1

\* Bug: a thread that failed counts as one that finished.
RunFailsAsOk(r) ==
    /\ worker[r] = "running"
    /\ Fault("run")
    /\ worker' = [worker EXCEPT ![r] = "ok"]
    /\ UNCHANGED <<disk, scenario, pc, done, outcome>>

\* The run reports an error, its thread panics, or run-metrics.json cannot be written.
RunFails(r) ==
    /\ worker[r] = "running"
    /\ Fault("run")
    /\ metrics' \in {metrics, [metrics EXCEPT ![r] = NoPlan]}
    /\ worker' = [worker EXCEPT ![r] = "failed"]
    /\ UNCHANGED <<scenario, exists, file, planFile, table, pc, done, outcome>>

\* Every thread of the chunk has been joined.
JoinChunk ==
    /\ pc = "chunk"
    /\ \A r \in Runs : worker[r] # "running"
    /\ pc' = "record"
    /\ UNCHANGED <<disk, scenario, done, worker, outcome, faults>>

\* Bug: results are recorded in the order in which the threads finish.
NextResultAnyOrder(r) == worker[r] # "none"

\* The next result in plan order.
NextResult(r) ==
    /\ worker[r] # "none"
    /\ \A q \in Runs : q < r => worker[q] = "none"

\* Journal::record of a finished run, up to the newline.
RecordLine(r) ==
    /\ pc = "record"
    /\ NextResult(r)
    /\ worker[r] = "ok"
    /\ AppendLine("run", r)
    /\ pc' = "newline"
    /\ UNCHANGED <<scenario, exists, planFile, metrics, table, done, worker, outcome,
                   faults>>

\* The rest of Journal::record: the run counts as finished.
EndRecord(r) ==
    /\ pc = "newline"
    /\ NextResult(r)
    /\ AppendNewline
    /\ done' = done \union {r}
    /\ worker' = [worker EXCEPT ![r] = "none"]
    /\ pc' = IF \A q \in Runs \ {r} : worker[q] = "none" THEN "next" ELSE "record"
    /\ UNCHANGED <<scenario, exists, planFile, metrics, table, outcome, faults>>

\* Bug: a failed run does not stop the sweep, which then reports its table.
StopAtFailureWithTable(r) ==
    /\ pc = "record"
    /\ NextResult(r)
    /\ worker[r] = "failed"
    /\ table' = done
    /\ Ends("done")
    /\ UNCHANGED <<scenario, exists, file, planFile, metrics, faults>>

\* The first result in plan order that is an error ends the sweep; the results
\* behind it are dropped.
StopAtFailure(r) ==
    /\ pc = "record"
    /\ NextResult(r)
    /\ worker[r] = "failed"
    /\ Ends("run_failed")
    /\ UNCHANGED <<disk, scenario, faults>>

\* table_from reads the metrics of every finished run, and the table is written; a run
\* without metrics is an error.
WriteTable ==
    /\ pc = "next"
    /\ Chunk = {}
    /\ IF \A r \in done : metrics[r] # NoPlan
       THEN table' = done /\ Ends("done")
       ELSE UNCHANGED table /\ Ends("io_error")
    /\ UNCHANGED <<scenario, exists, file, planFile, metrics, faults>>

\* write_line fails: the line is not written or torn, or its newline is missing.
WriteFails ==
    /\ Fault("disk")
    /\ \/ pc \in {"header", "record"} /\ UNCHANGED file
       \/ /\ pc \in {"header", "record"}
          /\ file' = Append(file, [kind |-> "torn", of |-> 0, newline |-> FALSE])
       \/ pc \in {"header_newline", "newline"} /\ UNCHANGED file
    /\ pc = "record" => \E r \in Runs : NextResult(r) /\ worker[r] = "ok"
    /\ Ends("io_error")
    /\ UNCHANGED <<scenario, exists, planFile, metrics, table>>

\* std::fs::write empties a document before it fills it, so that the one being written
\* may be left cut short: the plan, the table, the metrics of the running threads.
DocumentsCutShort ==
    /\ planFile' \in {planFile} \union (IF pc = "plan" THEN {NoPlan} ELSE {})
    /\ table' \in {table} \union (IF pc = "next" /\ Chunk = {} THEN {{}} ELSE {})
    /\ \E cut \in SUBSET {r \in Runs : worker[r] = "running"} :
          metrics' = [r \in Runs |-> IF r \in cut THEN NoPlan ELSE metrics[r]]

\* The plan or the table cannot be written.
DocumentFails ==
    /\ pc = "plan" \/ (pc = "next" /\ Chunk = {})
    /\ Fault("disk")
    /\ DocumentsCutShort
    /\ Ends("io_error")
    /\ UNCHANGED <<scenario, exists, file>>

\* The process is killed, between any two of its writes or while it writes a document.
Kill ==
    /\ pc # "stopped"
    /\ Fault("kill")
    /\ DocumentsCutShort
    /\ Ends("killed")
    /\ UNCHANGED <<scenario, exists, file>>

\* The operator edits the scenario, and its plan with it.
Edit ==
    /\ pc = "stopped"
    /\ Fault("edit")
    /\ scenario' \in Plans \ {scenario}
    /\ UNCHANGED <<disk, pc, done, worker, outcome>>

Invocation ==
    \/ WriteHeader \/ EndHeader \/ WritePlan \/ StartChunk \/ JoinChunk
    \/ \E r \in Runs : RecordLine(r) \/ EndRecord(r) \/ StopAtFailure(r)
    \/ WriteTable

Next ==
    \/ OpenMissing \/ OpenRefused \/ OpenJournal
    \/ Invocation
    \/ \E r \in Runs : RunFinishes(r) \/ RunFails(r)
    \/ WriteFails \/ DocumentFails \/ Kill \/ Edit

Spec == Init /\ [][Next]_vars

\* The process and its threads run; the operator starts a stopped sweep again.
FairSpec ==
    /\ Spec
    /\ WF_vars(Invocation)
    /\ \A r \in Runs : WF_vars(RunFinishes(r))
    /\ WF_vars(OpenJournal)

(***************************************************************************)
(* Properties.                                                             *)
(***************************************************************************)

TypeOK ==
    /\ scenario \in Plans
    /\ exists \in BOOLEAN
    /\ file \in Seq(Records)
    /\ planFile \in Plans \union {NoPlan}
    /\ metrics \in [Runs -> Plans \union {NoPlan}]
    /\ table \subseteq Runs
    /\ pc \in {"stopped", "header", "header_newline", "plan", "next", "chunk", "record",
               "newline"}
    /\ done \subseteq Runs
    /\ worker \in [Runs -> {"none", "running", "ok", "failed"}]
    /\ outcome \in {"none", "no_journal", "bad_journal", "plan_changed", "run_failed",
                    "io_error", "killed", "done"}
    /\ faults \in 0..MaxFaults

\* The runner's comment on chunks: whatever the order in which the threads finish and
\* wherever the sweep was interrupted before, the journal is its header followed by the
\* runs of the plan in plan order, without a gap or a repetition, up to a torn line at
\* its end.  Two sweeps that completed the same runs have the same journal.
InPlanOrder ==
    \A k \in 1..Len(file) :
        \/ k = 1 /\ file[k].kind = "header"
        \/ k > 1 /\ file[k].kind = "run" /\ file[k].of = k - 1
        \/ k = Len(file) /\ file[k].kind = "torn"

\* A run the journal names as finished left its reduced metrics, and they were made
\* under the plan the journal's header names: a table never mixes two plans and
\* table_from always finds what it reads.
RecordedHasMetrics ==
    \A r \in Entries(file) : {metrics[r]} = Headers(file)

\* "A refused sweep must not have overwritten the plan document": the plan document is
\* that of the journal's header, whatever was edited, refused or killed since.
PlanOfJournal == planFile # NoPlan => Headers(file) = {planFile}

\* The results table covers finished runs only, and all of them once a sweep ends well.
TableOfFinished ==
    /\ table \subseteq Entries(file)
    /\ outcome = "done" => table = Runs

\* The output directory of a sweep interrupted and edited anywhere is that of one plan
\* carried out up to some run: the journal, the metrics it vouches for, the plan document
\* and the results table agree.
JournalSound ==
    /\ TypeOK
    /\ InPlanOrder
    /\ RecordedHasMetrics
    /\ PlanOfJournal
    /\ TableOfFinished

\* A run the journal names as finished is not executed again: its metrics stay.
FinishedStays ==
    [][\A r \in Entries(file) :
          /\ r \in Entries(file')
          /\ metrics'[r] = metrics[r]
          /\ worker[r] = "none" => worker'[r] = "none"]_vars

\* "A rerun continues from there": a sweep started again after every interruption ends
\* with its table, unless an edit or a damaged journal makes it refuse.
SweepEnds ==
    <>[](outcome = "done" \/ ~Parses(file) \/ ~(Headers(file) \subseteq {scenario}))

\* "Appends a finished run and flushes, so an interruption one instant later still finds
\* it recorded": once the line and the newline of a run are written, the journal reads
\* back.
FoundRecorded ==
    (\E k \in 1..Len(file) : file[k].kind = "run" /\ file[k].newline) => Readable
==============================================================================
