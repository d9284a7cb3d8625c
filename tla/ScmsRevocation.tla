---------------------------- MODULE ScmsRevocation ----------------------------
(***************************************************************************)
(* Revocation on the same deployment: reports through the RA's shuffle to  *)
(* the Misbehaviour Authority, one case at a time from the PCA's lookup to *)
(* a CRL entry made of both authorities' seeds, publication to the store   *)
(* and to the broadcast path (v2xw-proto/src/scms/run.rs), and the engine  *)
(* that drives it (v2xw-engine/src/phase2.rs, run.rs): it queues the       *)
(* decisions, opens the cases, notes what they issued and hands the list   *)
(* to the vehicles, by download and by roadside broadcast.                 *)
(*                                                                         *)
(* Which reports make the authority decide, and how many deliveries are    *)
(* due by a step, are free.  The cases are the engine's: one certificate   *)
(* each.  The seed an authority releases for a period is named by chain    *)
(* and period.  A frame of the list waits in the queue of a roadside unit, *)
(* so that a vehicle may hear it at any later time, in any order with      *)
(* other frames, once for each unit, or not at all.                        *)
(***************************************************************************)
EXTENDS ScmsProvisioning

CONSTANTS
    Attackers,   \* vehicles that ignore the list when it names them
    Listeners,   \* vehicles whose list is followed
    Cellular,    \* those of them with cellular access; the others rely on the broadcast
    MaxForward,  \* CrlLinkageEntry::max_forward, in periods
    PerFrame,    \* entries that fit in one frame of the broadcast
    OnCadence,   \* publish_on_cadence, with a cadence
    Suspects,    \* bound: the vehicles that are reported
    MaxReports   \* bound on the reports filed

ASSUME RolesAssumption ==
    Attackers \subseteq Devices /\ Listeners \subseteq Devices /\ Cellular \subseteq Listeners
ASSUME SizesAssumption == MaxForward \in Nat /\ PerFrame \in Nat \ {0}
ASSUME ReportsAssumption == Suspects \subseteq Devices /\ MaxReports \in Nat
ASSUME CadenceAssumption == OnCadence \in BOOLEAN

VARIABLES
    ra_reports,       \* RaState::reports: the certificates of a window
    report_armed,     \* RaState::report_shuffle_armed
    arrived,          \* the certificates whose report reached the MA since the last step
    filed,            \* how many reports have been filed
    case,             \* MaState::case
    crlg,             \* the CRL Generator's entries
    publish_armed,    \* CrlState::publish_armed
    crl_store,        \* the CRL Store's entries
    crl_broadcast,    \* the broadcast path's entries
    issuances,        \* the cases with an Issued stamp
    queue,            \* Phase2::queue: decided certificates without a case
    cases,            \* Phase2::cases: [cert, entry]
    published,        \* published_version
    broadcast,        \* broadcast_version
    crl_timer_armed,  \* Engine::crl_timer_armed: the roadside units' timer is scheduled
    air,              \* frames of the list handed down to the roadside units' radios
    listener,         \* d -> [held, version, transfer]
    pc                \* where the engine is in its step

reporting == <<ra_reports, report_armed, arrived, filed>>
casework == <<case, queue, cases>>
lists == <<crlg, publish_armed, crl_store, crl_broadcast, issuances>>
versions == <<published, broadcast, crl_timer_armed, air>>
vars == <<provisioning, heap, blocklist, vehicle, retired, reporting, casework, lists,
          versions, listener, pc>>

NoSeeds == [x \in Authorities |-> 0]
NoCase == [number |-> 0, cert |-> [lci |-> NoSeeds, i |-> 0], seeds |-> NoSeeds, done |-> TRUE]

Init ==
    /\ ProvisioningInit
    /\ ra_reports = {} /\ report_armed = FALSE
    /\ arrived = {} /\ filed = 0
    /\ case = NoCase
    /\ crlg = <<>> /\ publish_armed = FALSE
    /\ crl_store = <<>> /\ crl_broadcast = <<>>
    /\ issuances = {}
    /\ queue = <<>> /\ cases = <<>>
    /\ published = 0 /\ broadcast = 0 /\ crl_timer_armed = FALSE /\ air = {}
    /\ listener = [d \in Listeners |-> [held |-> {}, version |-> 0, transfer |-> {}]]
    /\ pc = "idle"

case_open == ~case.done

\* CrlLinkageEntry::matches: the chains are the certificate's and the period is not
\* before the entry's, nor too far after it.
Revokes(entry, cert) ==
    entry.lci = cert.lci /\ entry.i <= cert.i /\ cert.i - entry.i <= MaxForward

\* The certificate is covered by the Generator's list.
Covered(cert) == \E k \in 1..Len(crlg) : Revokes(crlg[k], cert)

\* Bug: a second case is opened for a certificate that the list covers.
StartsUncovered(q) == 1..Len(q)

\* The decisions that need a case.
Uncovered(q) == {k \in 1..Len(q) : ~Covered(q[k])}

\* Bug: a case is opened while another is in progress.
MayOpenAnyway(q) == Uncovered(q) # {}

\* No case is in progress, and one is needed.
MayOpen(q) == ~case_open /\ Uncovered(q) # {}

\* start_cases: decisions the list covers already are dropped, the first other one
\* becomes the case if none is open.
StartCases(q, kept) ==
    \/ /\ MayOpen(q)
       /\ \E k \in Uncovered(q) :
             /\ \A j \in Uncovered(q) : k <= j
             /\ case' = [number |-> Len(cases) + 1, cert |-> q[k],
                         seeds |-> NoSeeds, done |-> FALSE]
             /\ cases' = Append(cases, [cert |-> q[k], entry |-> 0])
             /\ queue' = SubSeq(q, k + 1, Len(q))
             /\ heap' = kept \union {[type |-> "PcaLookupRequest", number |-> Len(cases) + 1,
                                      cert |-> q[k]]}
    \/ /\ ~MayOpen(q)
       /\ queue' = IF case_open THEN q ELSE <<>>
       /\ heap' = kept
       /\ UNCHANGED <<case, cases>>

-------------------------------------------------------------------------------
\* Between two steps of the backend.

\* A vehicle enters the road.
Spawn(d) ==
    /\ pc = "idle"
    /\ Provision(d)
    /\ UNCHANGED <<reporting, casework, lists, versions, listener, pc>>

\* A vehicle leaves it; what was on its way to it is lost.
Leave(d) ==
    /\ pc = "idle"
    /\ Retire(d)
    /\ UNCHANGED <<reporting, casework, lists, versions, listener, pc>>

\* Phase2::report_at_proxy, for a certificate the engine knows, and Report at the RA: the
\* first of a window arms the report shuffle.  The proxy only forwards, so a report is
\* filed when it reaches the RA.
FileReport(d) ==
    /\ pc = "idle" /\ filed < MaxReports
    /\ d \in DOMAIN vehicle
    /\ filed' = filed + 1
    /\ \E c \in Range(vehicle[d].creds) : ra_reports' = ra_reports \union {c}
    /\ report_armed' = TRUE
    /\ heap' = IF report_armed THEN heap ELSE heap \union {[type |-> "ReportShuffleTimer"]}
    /\ UNCHANGED <<provisioning, blocklist, vehicle, retired, arrived, casework, lists,
                   versions, listener, pc>>

\* Bug: a list counts as held when it brought something.
HoldsAny(n, entries, version) == entries # {}

\* install_crl: the version is held once as many entries are.
Holds(n, entries, version) == Cardinality(n.held \union entries) >= version

\* A vehicle's list once it has received entries of the list of that version.
Installed(n, entries, version) ==
    [n EXCEPT !.held = @ \union entries,
              !.version = IF Holds(n, entries, version) /\ version > @ THEN version ELSE @]

\* install_crl_at: a vehicle that finds a certificate of its own stops asking for more.
Enforced(d, entries) ==
    IF /\ d \notin Attackers
       /\ entries \ listener[d].held # {}
       /\ \E e \in entries \union listener[d].held, c \in Range(vehicle[d].creds) : Revokes(e, c)
    THEN [vehicle EXCEPT ![d].self_revoked = TRUE]
    ELSE vehicle

\* The vehicles on the road whose list is followed.
Listening == (Listeners \intersect DOMAIN vehicle) \ retired

\* The download arrives (on_net_deliver).
Download(d) ==
    /\ pc = "idle" /\ d \in Listening
    /\ \E t \in listener[d].transfer :
          /\ listener' = [listener EXCEPT
                             ![d] = [Installed(@, t.entries, t.version) EXCEPT !.transfer = {}]]
          /\ vehicle' = Enforced(d, t.entries)
    /\ UNCHANGED <<provisioning, heap, blocklist, retired, reporting, casework, lists,
                   versions, pc>>

\* The frames of the broadcast list: its entries, PerFrame at a time.
Frames ==
    LET InFrame(n) == {k \in DOMAIN crl_broadcast : (k - 1) \div PerFrame = n}
    IN  {[version |-> broadcast, entries |-> {crl_broadcast[k] : k \in InFrame(n)}] :
            n \in {(k - 1) \div PerFrame : k \in DOMAIN crl_broadcast}}

\* on_flow_timer: the units that hold a list hand its frames down, and come round again.
\* Units without one stop the timer.
FlowTimer ==
    /\ pc = "idle" /\ crl_timer_armed
    /\ crl_timer_armed' = (broadcast > 0)
    /\ air' = IF broadcast > 0 THEN air \union Frames ELSE air
    /\ UNCHANGED <<provisioning, heap, blocklist, vehicle, retired, reporting, casework, lists,
                   published, broadcast, listener, pc>>

\* on_app_message: a vehicle hears a frame, whatever it heard since it was handed down.
Hear(d) ==
    /\ pc = "idle" /\ d \in Listening
    /\ \E f \in air :
          /\ listener' = [listener EXCEPT ![d] = Installed(@, f.entries, f.version)]
          /\ vehicle' = Enforced(d, f.entries)
    /\ UNCHANGED <<provisioning, heap, blocklist, retired, reporting, casework, lists,
                   versions, pc>>

-------------------------------------------------------------------------------
\* Deliveries of the reporting flow.

\* ReportShuffleTimer at the RA: the window's reports go to the MA.
ReportShuffle(m) ==
    /\ m.type = "ReportShuffleTimer"
    /\ report_armed' = FALSE
    /\ ra_reports' = {}
    /\ Deliver(m, {[type |-> "Report", cert |-> c] : c \in ra_reports})
    /\ UNCHANGED <<arrived, filed>>

\* Report at the MA.
MaReport(m) ==
    /\ m.type = "Report"
    /\ arrived' = arrived \union {m.cert}
    /\ Deliver(m, {})
    /\ UNCHANGED <<ra_reports, report_armed, filed>>

Reporting(m) ==
    /\ ReportShuffle(m) \/ MaReport(m)
    /\ UNCHANGED <<provisioning, blocklist, vehicle, retired, casework, lists>>

-------------------------------------------------------------------------------
\* Deliveries of a case.  No handler of the MA looks at the run of what it is answered:
\* the answer is taken for the case that is open.

\* PcaLookupRequest at the PCA, the run the certificate was issued for if any, and its
\* answer at the MA.
Lookup(m) ==
    /\ m.type = "PcaLookupRequest"
    /\ \E found \in {{issued[c] : c \in {m.cert} \intersect DOMAIN issued}} :
          /\ case' = [case EXCEPT !.done = @ \/ found = {}]
          /\ Deliver(m, {[type |-> "BlocklistRequest", number |-> m.number, run |-> r] :
                            r \in found})
    /\ UNCHANGED <<blocklist, lists>>

\* BlocklistRequest at the RA: nothing more is issued to the vehicle.
RaBlocklist(m) ==
    /\ m.type = "BlocklistRequest"
    /\ \E known \in {{m.run} \intersect DOMAIN requests} :
          /\ blocklist' = blocklist \union {r[1] : r \in known}
          /\ Deliver(m, {[type |-> "BlocklistResponse", number |-> m.number,
                          lcis |-> {requests[r] : r \in known}]})
    /\ UNCHANGED <<case, lists>>

\* Bug: both authorities are asked for the chain of the first.
OneChain(lci, x) == lci[1]

\* Each authority is asked for the chain it allocated.
OwnChain(lci, x) == lci[x]

\* BlocklistResponse at the MA.
MaBlocklist(m) ==
    /\ m.type = "BlocklistResponse"
    /\ case' = [case EXCEPT !.done = @ \/ m.lcis = {}]
    /\ Deliver(m, {[type |-> "SeedRequest", number |-> m.number, la |-> x,
                    lci |-> OwnChain(lci, x), i |-> case.cert.i] :
                      x \in Authorities, lci \in m.lcis})
    /\ UNCHANGED <<blocklist, lists>>

\* Bug: one seed is enough.
HasOne(seeds) == \E x \in Authorities : seeds[x] # 0

\* Both authorities have released a seed.
HasBoth(seeds) == \A x \in Authorities : seeds[x] # 0

\* SeedRequest at a Linkage Authority, silent about a chain it does not know, and its
\* answer at the MA.
Seed(m) ==
    /\ m.type = "SeedRequest"
    /\ \/ /\ m.lci \notin DOMAIN owner[m.la]
          /\ Deliver(m, {})
          /\ UNCHANGED case
       \/ /\ m.lci \in DOMAIN owner[m.la]
          /\ case' = [case EXCEPT !.seeds[m.la] = m.lci]
          /\ Deliver(m, IF HasBoth(case'.seeds)
                        THEN {[type |-> "CrlAppend", number |-> case.number,
                               entry |-> [lci |-> case'.seeds, i |-> m.i]]}
                        ELSE {})
    /\ UNCHANGED <<blocklist, lists>>

\* The list on its way to the store and to the broadcast path.
Publication(n) == {[type |-> "CrlPublish", to |-> t, n |-> n] : t \in {"store", "broadcast"}}

\* CrlAppend at the CRL Generator: the case is done, the list goes out now or when the
\* cadence comes round.
CrlAppend(m) ==
    /\ m.type = "CrlAppend"
    /\ crlg' = Append(crlg, m.entry)
    /\ case' = [case EXCEPT !.done = TRUE]
    /\ issuances' = issuances \union {m.number}
    /\ publish_armed' = OnCadence
    /\ Deliver(m, CASE ~OnCadence -> Publication(Len(crlg'))
                    [] OnCadence /\ ~publish_armed -> {[type |-> "CrlPublishTimer"]}
                    [] OTHER -> {})
    /\ UNCHANGED <<blocklist, crl_store, crl_broadcast>>

\* CrlPublishTimer at the CRL Generator.
CrlPublishTimer(m) ==
    /\ m.type = "CrlPublishTimer"
    /\ publish_armed' = FALSE
    /\ Deliver(m, Publication(Len(crlg)))
    /\ UNCHANGED <<blocklist, case, crlg, crl_store, crl_broadcast, issuances>>

\* Bug: the list arrives as it was when it was sent.
ListAsSent(m) == SubSeq(crlg, 1, m.n)

\* The list that arrives is the Generator's of that instant.
ListOf(m) == crlg

\* CrlPublish at the CRL Store or at the broadcast path.
CrlPublish(m) ==
    /\ m.type = "CrlPublish"
    /\ crl_store' = IF m.to = "store" THEN ListOf(m) ELSE crl_store
    /\ crl_broadcast' = IF m.to = "broadcast" THEN ListOf(m) ELSE crl_broadcast
    /\ Deliver(m, {})
    /\ UNCHANGED <<blocklist, case, crlg, publish_armed, issuances>>

Casework(m) ==
    /\ \/ Lookup(m) \/ RaBlocklist(m) \/ MaBlocklist(m) \/ Seed(m)
       \/ CrlAppend(m) \/ CrlPublishTimer(m) \/ CrlPublish(m)
    /\ UNCHANGED <<provisioning, vehicle, retired, reporting, queue, cases>>

-------------------------------------------------------------------------------
\* on_backend_step.  Phase2::advance: cases are started, the backend runs, what arrived is
\* decided on, cases are started again, the backend runs again if there is one, and the
\* outcome is noted; then come the broadcast timer, the polls and the top-ups.

StepBegins ==
    /\ pc = "idle"
    /\ StartCases(queue, heap)
    /\ pc' = "first"
    /\ UNCHANGED <<provisioning, blocklist, vehicle, retired, reporting, lists, versions,
                   listener>>

\* run_until: a delivery that is due.
Kernel ==
    /\ pc \in {"first", "second"}
    /\ \E m \in heap :
          \/ Provisioning(m) /\ UNCHANGED <<reporting, casework, lists>>
          \/ Reporting(m)
          \/ Casework(m)
    /\ UNCHANGED <<versions, listener, pc>>

\* ingest_arrivals: some of the reports that arrived make the authority decide, in the
\* order of their evidence.
Decided == UNION {Injection(1..Cardinality(S), S) : S \in SUBSET arrived}

\* The decisions are queued; the backend runs again if a case is open then.
Ingest ==
    /\ pc = "first"
    /\ \E f \in Decided : StartCases(queue \o f, heap)
    /\ ~case'.done
    /\ arrived' = {}
    /\ pc' = "second"
    /\ UNCHANGED <<provisioning, blocklist, vehicle, retired, ra_reports, report_armed,
                   filed, lists, versions, listener>>

\* A case whose issuance is stamped takes the last entry of the list.
Noted(n) ==
    IF cases[n].entry = 0 /\ n \in issuances
    THEN [cases[n] EXCEPT !.entry = Len(crlg)] ELSE cases[n]

\* Bug: the vehicles without cellular access are polled for, and those with it are not.
PollsDueOfOthers ==
    {d \in Listening \ Cellular :
        listener[d].transfer = {} /\ listener[d].version < published'}

\* crl_polls_due: only a vehicle with cellular access asks for the list, when it is behind
\* the published version and no download is under way.
PollsDue ==
    {d \in Listening \intersect Cellular :
        listener[d].transfer = {} /\ listener[d].version < published'}

\* A vehicle after the polls of a step, of which those of S get through; one that is lost
\* leaves no trace (crl_poll_failed).
Polled(d, S) ==
    IF d \in S THEN [listener[d] EXCEPT !.transfer = {[version |-> published',
                                                       entries |-> Range(crl_store)]}]
    ELSE listener[d]

\* Nothing that was decided needs a case.
NoCaseNeeded == ~case_open /\ \E f \in Decided : Uncovered(queue \o f) = {}

StepEnds ==
    /\ \/ pc = "second" /\ UNCHANGED <<queue, arrived>>
       \/ pc = "first" /\ NoCaseNeeded /\ queue' = <<>> /\ arrived' = {}
    /\ cases' = [n \in DOMAIN cases |-> Noted(n)]
    /\ published' = IF Len(crl_store) > published THEN Len(crl_store) ELSE published
    /\ broadcast' = Len(crl_broadcast)
    /\ crl_timer_armed' = (crl_timer_armed \/ published' > published)
    /\ \E S \in SUBSET PollsDue :
          listener' = [d \in Listeners |-> Polled(d, S)]
    /\ \E S \in TopupsDue : StartTopups(S)
    /\ pc' = "idle"
    /\ UNCHANGED <<requests, jobs, shuffle_armed, repos, owner, issued, installed, blocklist,
                   retired, ra_reports, report_armed, filed, case, lists, air>>

Next ==
    \/ \E d \in Devices : Spawn(d)
    \/ \E d \in Suspects : FileReport(d) \/ Leave(d)
    \/ \E d \in Listeners : Download(d) \/ Hear(d)
    \/ FlowTimer \/ StepBegins \/ Kernel \/ Ingest \/ StepEnds

Spec == Init /\ [][Next]_vars

\* A vehicle that is behind the store polls, and the poll gets through.
PollSucceeds(d) ==
    listener[d].version < Len(crl_store) /\ StepEnds /\ listener'[d].transfer # listener[d].transfer

\* The engine steps for ever, a step runs what is due, so a delivery is not put off for
\* ever; a vehicle with cellular access comes back into coverage and polls again, and a
\* download on its way arrives.  Nothing is assumed of the broadcast.
Fairness ==
    /\ WF_vars(StepBegins \/ Ingest \/ StepEnds)
    /\ SF_vars(Kernel)
    /\ \A d \in Cellular : SF_vars(PollSucceeds(d) \/ Download(d))

FairSpec == Spec /\ Fairness

-------------------------------------------------------------------------------
Chains == [Authorities -> 0..Cardinality(Runs)]
Certificates == [lci : Chains, i : Periods]
Lists == Seq(Certificates)

\* The type of the state: a request names chains its authorities have allocated, and what
\* the engine holds is made of certificates and entries of that form.
TypeOK ==
    /\ DOMAIN requests \subseteq Runs /\ DOMAIN jobs \subseteq DOMAIN requests
    /\ \A r \in DOMAIN requests, x \in Authorities : requests[r][x] \in 0..Len(owner[x])
    /\ \A r \in DOMAIN jobs :
          jobs[r] \in [periods : 1..Pool, responses : 0..2, sent : BOOLEAN, certified : 0..Pool]
    /\ {shuffle_armed, report_armed, publish_armed, crl_timer_armed} \subseteq BOOLEAN
    /\ owner \in [Authorities -> Seq(Devices)]
    /\ DOMAIN issued \subseteq Certificates /\ Range(issued) \subseteq DOMAIN requests
    /\ blocklist \subseteq Devices /\ installed \subseteq DOMAIN requests
    /\ \A d \in Devices : /\ Range(repos[d]) \subseteq DOMAIN issued
                          /\ Range(device[d].credentials) \subseteq DOMAIN issued
                          /\ device[d].retries \in 0..MaxPolls + 1
    /\ \A d \in DOMAIN vehicle : /\ Range(vehicle[d].creds) \subseteq DOMAIN issued
                                 /\ vehicle[d].last \in Periods
    /\ ra_reports \union arrived \subseteq DOMAIN issued
    /\ {crlg, crl_store, crl_broadcast, queue} \subseteq Lists
    /\ issuances \subseteq DOMAIN cases
    /\ published \in 0..Len(crl_store) /\ broadcast \in 0..Len(crl_broadcast)
    /\ \A d \in Listeners : listener[d].held \subseteq Range(crlg)
    /\ \A f \in air : f.version \in 0..Len(crlg) /\ f.entries \subseteq Range(crlg)
    /\ filed \in 0..MaxReports /\ pc \in {"idle", "first", "second"}

\* The kernel's schedule holds a timer.
Scheduled(t) == [type |-> t] \in heap

\* A batch window is armed exactly while its timer is scheduled, and whatever waits for
\* one waits in an armed window: a job with both pre-linkage answers for the request
\* shuffle (the job of a vehicle provisioned on the scratch kernel too), a report for the
\* report shuffle, an entry the store lacks for the cadence or for a publication.
NothingWaitsUnarmed ==
    /\ shuffle_armed = Scheduled("ShuffleTimer")
    /\ report_armed = Scheduled("ReportShuffleTimer")
    /\ publish_armed = Scheduled("CrlPublishTimer")
    /\ (\E r \in DOMAIN jobs : jobs[r].responses = 2 /\ ~jobs[r].sent) => shuffle_armed
    /\ ra_reports # {} => report_armed
    /\ Len(crl_store) < Len(crlg) =>
          publish_armed \/ \E m \in heap : m.type = "CrlPublish" /\ m.to = "store"

\* The chain at each authority is one it allocated to that vehicle.
ChainsOf(d, lci) ==
    \A x \in Authorities : lci[x] \in DOMAIN owner[x] /\ owner[x][lci[x]] = d

\* Every certificate a vehicle uses can be resolved: the PCA knows the request it was
\* issued for, the RA knows the vehicle and the chains of that request, and both Linkage
\* Authorities allocated them to this vehicle.  This is what a revocation rests on, for
\* pools from the scratch kernel as for top-ups.
CredentialsTraceable ==
    \A d \in DOMAIN vehicle : \A c \in Range(vehicle[d].creds) :
        /\ issued[c][1] = d
        /\ requests[issued[c]] = c.lci
        /\ ChainsOf(d, c.lci)

\* Every entry of the Generator's list is that of a case: the chains and the period of
\* the certificate decided on, with both seeds of the one request, although no handler
\* of the MA checks which case it is answered about.
EntryIsSubjects ==
    \A k \in DOMAIN crlg : \E n \in DOMAIN cases :
        /\ crlg[k] = cases[n].cert
        /\ ChainsOf(issued[cases[n].cert][1], crlg[k].lci)

CaseMessages == {"PcaLookupRequest", "BlocklistRequest", "BlocklistResponse", "SeedRequest",
                 "CrlAppend"}

\* Everything in flight for a case belongs to the case that is open, which is the last one
\* started: a late answer can never be taken for a later case.
OneCaseInFlight ==
    \A m \in heap : m.type \in CaseMessages => case_open /\ m.number = case.number

\* No entry is issued for a certificate that the list already revoked, however often it
\* is reported and decided on.
NoSecondEntry ==
    \A j, k \in DOMAIN crlg : j < k => ~Revokes(crlg[j], crlg[k])

\* What makes a revocation hit its subject and nobody else: certificates lead back to
\* their vehicle, one case is open, its messages are its own, and its entry is new.
CasesSound ==
    /\ TypeOK
    /\ NothingWaitsUnarmed
    /\ CredentialsTraceable
    /\ EntryIsSubjects
    /\ OneCaseInFlight
    /\ NoSecondEntry

\* A vehicle that counts itself at the newest list has every entry of it, whatever frames
\* of which lists it heard in which order and whichever download was under way: it counts
\* entries, and no list holds an entry twice (install_crl).
NewestIsWhole ==
    \A d \in Listeners : listener[d].version = Len(crlg) => Range(crlg) \subseteq listener[d].held

\* Nothing that was decided is left to do: every case ended with its certificate on the
\* list of the store and of the broadcast path.
Settled ==
    /\ queue = <<>> /\ ~case_open
    /\ \A n \in DOMAIN cases : \A list \in {crl_store, crl_broadcast} :
          \E k \in DOMAIN list : Revokes(list[k], cases[n].cert)

\* Every decision is carried out, with cases taken one at a time: once the reports stop,
\* all of them are settled.
DecisionsCarriedOut == []<>Settled

\* Every vehicle on the road with cellular access comes to hold every entry of the
\* published list, however many frames and polls are lost and although it asks only while
\* it counts itself behind, which a late frame of an older list may hide.
ListReachesVehicles ==
    \A d \in Cellular : []<>(d \in Listening => Range(crl_store) \subseteq listener[d].held)

-------------------------------------------------------------------------------
\* What comments of the code say and this model refutes (no run checks these).

\* "every entity's state is exactly what the in-run flows would have left": a vehicle
\* provisioned on the scratch kernel holds its pool.
PreloadGivesPool == \A d \in DOMAIN vehicle : 0..Pool - 1 \subseteq DOMAIN vehicle[d].creds

\* "one entry revokes every certificate of the device from `i` on": of each vehicle, an
\* entry revokes all later certificates or none.
OneEntryCoversDevice ==
    \A k \in DOMAIN crlg, d \in DOMAIN vehicle : \A c, e \in Range(vehicle[d].creds) :
        Revokes(crlg[k], c) /\ e.i >= c.i => Revokes(crlg[k], e)

\* "The entry, once issued, and the CRL version it first appears in": the entry noted for
\* a case is its own.
CaseEntryIsItsOwn ==
    \A n \in DOMAIN cases : cases[n].entry # 0 => crlg[cases[n].entry] = cases[n].cert

\* "the vehicle holds `version` once it holds that many entries": at version v it has every
\* entry of that version.  With {e2, e3} heard from version 3, a late frame of version 2
\* makes it count to 2 without e1.
VersionMeansEntries ==
    \A d \in Listeners : Range(SubSeq(crlg, 1, listener[d].version)) \subseteq listener[d].held

\* "A newly published list starts the roadside broadcast": while the units hold a
\* published list their timer is scheduled.
BroadcastKeptUp == pc = "idle" /\ published > 0 /\ broadcast > 0 => crl_timer_armed
===============================================================================
