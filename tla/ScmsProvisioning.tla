--------------------------- MODULE ScmsProvisioning ---------------------------
(***************************************************************************)
(* The provisioning half of the SCMS deployment (v2xw-proto/src/scms/      *)
(* run.rs): vehicle, Registration Authority, two Linkage Authorities and   *)
(* Pseudonym CA on one event kernel, and what the engine (v2xw-engine/src/ *)
(* phase2.rs) asks of it: the pool a vehicle is born with and the top-ups. *)
(*                                                                         *)
(* heap is the kernel's schedule.  Delays are left out: any delivery in it *)
(* may be the next one.  A hop that only forwards (a device's own, the     *)
(* Location Obscurer Proxy's, a poll timer's) is part of the delivery it   *)
(* makes, and so is the answer to a request: between the two nobody takes  *)
(* back what was asked or recorded.  The certificates of a period share    *)
(* one fate, so one stands for all of them; its linkage value is the pair  *)
(* of chains and the period.  A flow run is named by its vehicle and first *)
(* period, which the engine asks for once.                                 *)
(***************************************************************************)
EXTENDS Naturals, FiniteSets, Sequences, Functions

CONSTANTS
    Devices,    \* the vehicles
    Pool,       \* pool_periods
    MaxPeriod,  \* bound: the last period a top-up asks for
    MaxTopups,  \* bound: the top-ups asked for
    MaxPolls    \* max_download_polls

ASSUME DevicesAssumption == IsFiniteSet(Devices)
ASSUME PoolAssumption == Pool \in Nat \ {0}
ASSUME BoundAssumption == MaxPeriod \in Nat /\ MaxTopups \in Nat /\ Pool <= MaxPeriod + 1
ASSUME PollsAssumption == MaxPolls \in Nat

VARIABLES
    heap,           \* Kernel::heap: the deliveries to come
    requests,       \* RaState::requests: run -> the chains, by authority, 0 for none yet
    jobs,           \* RaState::jobs: run -> [periods, responses, sent, certified]
    shuffle_armed,  \* RaState::shuffle_armed
    blocklist,      \* RaState::blocklist
    repos,          \* RaState::repos: repos[d] maps a period to its certificate
    owner,          \* LaState::owner: owner[x] lists the vehicle of each chain
    issued,         \* PcaState::issued: certificate -> the run it was issued for
    device,         \* ScmsState::devices: d -> DeviceState
    vehicle,        \* Phase2::nodes and creds: d -> NodeSec, for the vehicles spawned
    retired,        \* the vehicles that have left the road
    installed       \* the runs with an Installed stamp

provisioning == <<requests, jobs, shuffle_armed, repos, owner, issued, device, installed>>

Authorities == {1, 2}
Periods == 0..MaxPeriod
Runs == Devices \X Periods
Certificate == [lci : [Authorities -> Nat], i : Nat]

None == [start |-> 0, periods |-> 0, downloaded |-> 0]

With(f, k, v) == [x \in DOMAIN f \union {k} |-> IF x = k THEN v ELSE f[x]]
Merge(f, g) == [x \in DOMAIN f \union DOMAIN g |-> IF x \in DOMAIN g THEN g[x] ELSE f[x]]

\* The periods a run is for.
PeriodsOf(run, n) == run[2]..(run[2] + n - 1)

ProvisioningInit ==
    /\ heap = {}
    /\ requests = <<>>
    /\ jobs = <<>>
    /\ shuffle_armed = FALSE
    /\ blocklist = {}
    /\ repos = [d \in Devices |-> <<>>]
    /\ owner = [x \in Authorities |-> <<>>]
    /\ issued = <<>>
    /\ device = [d \in Devices |-> [credentials |-> <<>>, retries |-> 0, progress |-> None]]
    /\ vehicle = <<>>
    /\ retired = {}
    /\ installed = {}

\* start_provisioning: the vehicle's earlier progress is forgotten.
Started(dev, i, n) ==
    [dev EXCEPT !.retries = 0, !.progress = [start |-> i, periods |-> n, downloaded |-> 0]]

\* The next chain of each authority, when one vehicle asks alone.
NextChains == [x \in Authorities |-> Len(owner[x]) + 1]

\* The node the engine opens for a vehicle; its certificates are those it knows of.
NewVehicle(creds) ==
    [topup |-> FALSE, last |-> Pool - 1, creds |-> creds, self_revoked |-> FALSE]

\* Phase2::provision: the pool is provisioned by the real flows, run to their end on a
\* scratch kernel over the deployment's own state.  The request shuffle is one flag of that
\* state, so a scratch flow that finds it armed starts no timer: its job waits for the
\* timer of the real kernel, and the polls of the vehicle run out.
Provision(d) ==
    \E run \in {<<d, 0>>}, lci \in {NextChains} :
        /\ d \notin DOMAIN vehicle
        /\ owner' = [x \in Authorities |-> Append(owner[x], d)]
        /\ requests' = With(requests, run, lci)
        /\ \/ /\ ~shuffle_armed
              /\ \E batch \in {[i \in PeriodsOf(run, Pool) |-> [lci |-> lci, i |-> i]]} :
                    /\ issued' = Merge(issued, [c \in Range(batch) |-> run])
                    /\ repos' = [repos EXCEPT ![d] = batch]
                    /\ device' = [device EXCEPT ![d].credentials = batch]
                    /\ vehicle' = With(vehicle, d, NewVehicle(batch))
                    /\ installed' = installed \union {run}
              /\ UNCHANGED jobs
           \/ /\ shuffle_armed
              /\ jobs' = With(jobs, run, [periods |-> Pool, responses |-> 2, sent |-> FALSE,
                                          certified |-> 0])
              /\ device' = [device EXCEPT ![d] = [Started(@, 0, Pool) EXCEPT
                                                     !.retries = MaxPolls + 1]]
              /\ vehicle' = With(vehicle, d, NewVehicle(<<>>))
              /\ UNCHANGED <<issued, repos, installed>>
        /\ UNCHANGED <<heap, shuffle_armed, blocklist, retired>>

\* Phase2::retire: the vehicle's node goes, what is known of its certificates stays, and so
\* does all the backend holds or has under way for it.
Retire(d) ==
    /\ d \in DOMAIN vehicle \ retired
    /\ retired' = retired \union {d}
    /\ UNCHANGED <<provisioning, heap, blocklist, vehicle>>

\* The certificates a vehicle gained when its top-up was seen installed: those of the
\* device past the last period it knew of.
Fresh(d) ==
    Restrict(device[d].credentials,
             {i \in DOMAIN device[d].credentials : i > vehicle[d].last})

\* Phase2::advance, its last part: the vehicles whose top-up was installed take it over.
TakenOver(d) ==
    IF d \notin retired /\ vehicle[d].topup /\ <<d, vehicle[d].last + 1>> \in installed
    THEN [vehicle[d] EXCEPT
             !.topup = FALSE,
             !.last = IF Fresh(d) = <<>> THEN @
                      ELSE CHOOSE i \in DOMAIN Fresh(d) : \A j \in DOMAIN Fresh(d) : j <= i,
             !.creds = Merge(@, Fresh(d))]
    ELSE vehicle[d]

\* The top-ups started so far.
Topups ==
    {r \in Runs : /\ r[1] \in DOMAIN vehicle
                  /\ \/ r[2] \in Pool..vehicle[r[1]].last
                     \/ vehicle[r[1]].topup /\ r[2] = vehicle[r[1]].last + 1}

\* topups_due: which of the pools that may ask for their next period are low enough, and
\* have coverage, is the clock's and the road's matter.
TopupsDue ==
    {S \in SUBSET {d \in DOMAIN vehicle \ retired : /\ ~TakenOver(d).topup
                                                    /\ ~vehicle[d].self_revoked
                                                    /\ TakenOver(d).last < MaxPeriod} :
        Cardinality(Topups) + Cardinality(S) <= MaxTopups}

\* start_topup for the vehicles of S, after the top-ups that have come in.
StartTopups(S) ==
    /\ vehicle' = [d \in DOMAIN vehicle |-> IF d \in S THEN [TakenOver(d) EXCEPT !.topup = TRUE]
                                            ELSE TakenOver(d)]
    /\ device' = [d \in Devices |-> IF d \in S THEN Started(device[d], TakenOver(d).last + 1, 1)
                                    ELSE device[d]]
    /\ heap' = heap \union {[type |-> "ProvisioningRequest", run |-> <<d, TakenOver(d).last + 1>>] :
                               d \in S}

-------------------------------------------------------------------------------
\* The kernel delivers m and schedules what its handler sent.
Deliver(m, sent) == heap' = (heap \ {m}) \union sent

\* ProvisioningRequest at the RA, and the vehicle's poll timer on its acknowledgement.
RaRequest(m) ==
    /\ m.type = "ProvisioningRequest"
    /\ \/ /\ m.run[1] \in blocklist
          /\ Deliver(m, {})
          /\ UNCHANGED <<requests, jobs>>
       \/ /\ m.run[1] \notin blocklist
          /\ requests' = With(requests, m.run, [x \in Authorities |-> 0])
          /\ jobs' = With(jobs, m.run, [periods |-> 1, responses |-> 0, sent |-> FALSE,
                                        certified |-> 0])
          /\ Deliver(m, {[type |-> "BatchDownloadRequest", run |-> m.run,
                          i |-> device[m.run[1]].progress.start]} \union
                        {[type |-> "PreLinkageRequest", run |-> m.run, la |-> x] :
                            x \in Authorities})
    /\ UNCHANGED <<shuffle_armed, blocklist, repos, owner, issued, device, vehicle, retired,
                   installed>>

\* Bug: the flag is tested the wrong way round.
ArmsWhenArmed(run) == jobs[run].responses = 1 /\ shuffle_armed

\* The second answer makes the job ready; the first job to be ready arms the shuffle.
Arms(run) == jobs[run].responses = 1 /\ ~shuffle_armed

\* Bug: the answers are filed in the order they come.
FiledByOrder(m, lci) == [requests[m.run] EXCEPT ![jobs[m.run].responses + 1] = lci]

\* The chains of a request once the authority of m has answered with lci.
Filed(m, lci) == [requests[m.run] EXCEPT ![m.la] = lci]

\* PreLinkageRequest at a Linkage Authority, a chain of its own for every request, and its
\* answer at the RA.
PreLinkage(m) ==
    /\ m.type = "PreLinkageRequest"
    /\ m.run \in DOMAIN jobs
    /\ owner' = [owner EXCEPT ![m.la] = Append(@, m.run[1])]
    /\ requests' = [requests EXCEPT ![m.run] = Filed(m, Len(owner'[m.la]))]
    /\ jobs' = [jobs EXCEPT ![m.run].responses = @ + 1]
    /\ shuffle_armed' = (shuffle_armed \/ Arms(m.run))
    /\ Deliver(m, IF Arms(m.run) THEN {[type |-> "ShuffleTimer"]} ELSE {})
    /\ UNCHANGED <<blocklist, repos, issued, device, vehicle, retired,
                   installed>>

\* ShuffleTimer at the RA: every job that is ready goes to the PCA, period by period.
ShuffleTimer(m) ==
    /\ m.type = "ShuffleTimer"
    /\ shuffle_armed' = FALSE
    /\ \E ready \in {{r \in DOMAIN jobs : jobs[r].responses = 2 /\ ~jobs[r].sent}} :
          /\ jobs' = [r \in DOMAIN jobs |->
                         IF r \in ready THEN [jobs[r] EXCEPT !.sent = TRUE] ELSE jobs[r]]
          /\ Deliver(m, UNION {{[type |-> "CertRequest", run |-> r,
                                 cert |-> [lci |-> requests[r], i |-> i]] :
                                    i \in PeriodsOf(r, jobs[r].periods)} : r \in ready})
    /\ UNCHANGED <<requests, blocklist, repos, owner, issued, device, vehicle, retired,
                   installed>>

\* CertRequest at the PCA, and the batch at the RA: it is in the repository, and the last
\* one ends the job.
Certify(m) ==
    /\ m.type = "CertRequest"
    /\ issued' = With(issued, m.cert, m.run)
    /\ repos' = [repos EXCEPT ![m.run[1]] = With(@, m.cert.i, m.cert)]
    /\ jobs' = IF jobs[m.run].certified + 1 >= jobs[m.run].periods
               THEN Restrict(jobs, DOMAIN jobs \ {m.run})
               ELSE [jobs EXCEPT ![m.run].certified = @ + 1]
    /\ Deliver(m, {})
    /\ UNCHANGED <<requests, shuffle_armed, blocklist, owner, device, vehicle, retired,
                   installed>>

\* BatchDownloadRequest at the RA, what the repository holds for that period now, and
\* the answer at the vehicle: an empty one is asked for again, up to the cap; the last
\* period of the request ends it.
BatchDownload(m) ==
    /\ m.type = "BatchDownloadRequest"
    /\ \E d \in {m.run[1]} : \E p \in {device[d].progress} :
          \/ /\ m.i \notin DOMAIN repos[d]
             /\ device' = [device EXCEPT ![d].retries = @ + 1]
             /\ Deliver(m, IF device[d].retries + 1 <= MaxPolls THEN {m} ELSE {})
             /\ UNCHANGED installed
          \/ /\ m.i \in DOMAIN repos[d]
             /\ device' = [device EXCEPT
                   ![d].credentials = With(@, m.i, repos[d][m.i]),
                   ![d].progress = IF p = None \/ p.downloaded + 1 >= p.periods
                                   THEN None
                                   ELSE [p EXCEPT !.downloaded = @ + 1]]
             /\ installed' = IF p # None /\ p.downloaded + 1 >= p.periods
                             THEN installed \union {m.run} ELSE installed
             /\ Deliver(m, IF p # None /\ p.downloaded + 1 < p.periods
                           THEN {[m EXCEPT !.i = p.start + p.downloaded + 1]} ELSE {})
    /\ UNCHANGED <<requests, jobs, shuffle_armed, blocklist, repos, owner, issued, vehicle, retired>>

\* One delivery of the provisioning flows.
Provisioning(m) ==
    RaRequest(m) \/ PreLinkage(m) \/ ShuffleTimer(m) \/ Certify(m) \/ BatchDownload(m)
===============================================================================
