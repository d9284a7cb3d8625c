------------------------- MODULE ScmsRevocationProofs -------------------------
(***************************************************************************)
(* Proofs about ScmsProvisioning and ScmsRevocation: a certificate in use  *)
(* leads back to its vehicle, one case is in flight and its entry is new   *)
(* and its own, nothing waits in a window that is not armed, and a vehicle *)
(* at the newest list holds its entries.  They follow from one             *)
(* inductive invariant in three parts: what provisioning has under way for *)
(* a vehicle, what is in flight for the open case, and how the copies of   *)
(* the list relate to the Generator's.                                     *)
(***************************************************************************)
EXTENDS ScmsRevocation, FiniteSetTheorems, SequenceTheorems, TLAPS

------------------------------------------------------------------------------
(***************************************************************************)
(* Provisioning.                                                           *)
(***************************************************************************)

\* The certificate was issued, and for that vehicle.
Owned(d, c) == c \in DOMAIN issued /\ ChainsOf(d, c.lci)

\* The requests whose chain at authority x has been allocated.
Answered(x) == {r \in DOMAIN requests : requests[r][x] # 0}

\* Every chain was allocated for one request, and carries its vehicle.
ChainsOK ==
    /\ owner \in [Authorities -> Seq(Devices)]
    /\ DOMAIN requests \subseteq Runs
    /\ \A r \in DOMAIN requests :
          /\ requests[r] \in [Authorities -> Nat]
          /\ \A x \in Authorities : requests[r][x] # 0 =>
                /\ requests[r][x] \in DOMAIN owner[x]
                /\ owner[x][requests[r][x]] = r[1]
    /\ \A x \in Authorities : Len(owner[x]) = Cardinality(Answered(x))

\* How many authorities have answered.
Answers(lci) == (IF lci[1] = 0 THEN 0 ELSE 1) + (IF lci[2] = 0 THEN 0 ELSE 1)

\* A job counts the chains its request has, and its periods are within the bound.
JobsOK ==
    /\ DOMAIN jobs \subseteq DOMAIN requests
    /\ \A r \in DOMAIN jobs :
          /\ jobs[r] \in [periods : 1..Pool, responses : 0..2, sent : BOOLEAN,
                          certified : 0..Pool]
          /\ jobs[r].responses = Answers(requests[r])
          /\ r[2] + jobs[r].periods <= MaxPeriod + 1

\* What was issued leads back to a request and its vehicle.
IssuedOK ==
    /\ DOMAIN issued \subseteq Certificates
    /\ \A c \in DOMAIN issued :
          /\ issued[c] \in DOMAIN requests
          /\ requests[issued[c]] = c.lci
          /\ ChainsOf(issued[c][1], c.lci)

\* Repository, device and vehicle hold certificates of that vehicle.
HoldersOK ==
    /\ DOMAIN repos = Devices /\ DOMAIN device = Devices
    /\ DOMAIN vehicle \subseteq Devices
    /\ blocklist \subseteq Devices /\ installed \subseteq DOMAIN requests
    /\ \A d \in Devices :
          /\ \A i \in DOMAIN repos[d] : Owned(d, repos[d][i])
          /\ device[d] \in [credentials : {device[d].credentials}, retries : 0..MaxPolls + 1,
                            progress : [start : Nat, periods : Nat, downloaded : Nat]]
          /\ \A i \in DOMAIN device[d].credentials : Owned(d, device[d].credentials[i])
    /\ \A d \in DOMAIN vehicle :
          /\ vehicle[d] \in [topup : BOOLEAN, last : Nat, creds : {vehicle[d].creds},
                             self_revoked : BOOLEAN]
          /\ \A i \in DOMAIN vehicle[d].creds : Owned(d, vehicle[d].creds[i])

\* The last period vehicle d has asked for.
Asked(d) == IF vehicle[d].topup THEN vehicle[d].last + 1 ELSE vehicle[d].last

\* Periods are asked for one after the other: no request and no certificate is past the
\* last one, and a top-up that was installed brought the certificate of its period.
TopupsOK ==
    /\ \A r \in DOMAIN requests : r[1] \in DOMAIN vehicle /\ r[2] <= Asked(r[1])
    /\ \A d \in DOMAIN vehicle :
          /\ vehicle[d].last >= Pool - 1 /\ Asked(d) <= MaxPeriod
          /\ vehicle[d].topup /\ <<d, Asked(d)>> \in installed =>
                Asked(d) \in DOMAIN device[d].credentials
    /\ \A d \in Devices : \A i \in DOMAIN device[d].credentials :
          d \in DOMAIN vehicle /\ i \in Nat /\ i <= Asked(d)

\* The run is the top-up that vehicle d has under way.
UnderWay(run) ==
    /\ run[1] \in DOMAIN vehicle /\ vehicle[run[1]].topup /\ run[2] = Asked(run[1])
    /\ run \notin installed
    /\ device[run[1]].progress = [start |-> run[2], periods |-> 1, downloaded |-> 0]
    /\ device[run[1]].retries <= MaxPolls

\* The forms of the deliveries of the provisioning flows.
ProvisioningTypes ==
    {"ProvisioningRequest", "PreLinkageRequest", "ShuffleTimer", "CertRequest",
     "BatchDownloadRequest"}

FormOK(m) ==
    CASE m.type = "ProvisioningRequest" -> m \in [type : {m.type}, run : Runs]
      [] m.type = "PreLinkageRequest" -> m \in [type : {m.type}, run : Runs, la : Authorities]
      [] m.type = "CertRequest" -> m \in [type : {m.type}, run : Runs, cert : Certificate]
      [] m.type = "BatchDownloadRequest" -> m \in [type : {m.type}, run : Runs, i : Nat]
      [] m.type = "Report" -> m \in [type : {m.type}, cert : Certificate]
      [] m.type = "PcaLookupRequest" ->
            m \in [type : {m.type}, number : Nat, cert : Certificate]
      [] m.type = "BlocklistRequest" -> m \in [type : {m.type}, number : Nat, run : Runs]
      [] m.type = "BlocklistResponse" ->
            m \in [type : {m.type}, number : Nat, lcis : {m.lcis}]
      [] m.type = "SeedRequest" ->
            m \in [type : {m.type}, number : Nat, la : Authorities, lci : Nat, i : Nat]
      [] m.type = "CrlAppend" -> m \in [type : {m.type}, number : Nat, entry : Certificate]
      [] m.type = "CrlPublish" -> m \in [type : {m.type}, to : {"store", "broadcast"}, n : Nat]
      [] OTHER -> m \in [type : {"ShuffleTimer", "ReportShuffleTimer", "CrlPublishTimer"}]

\* What a delivery of the provisioning flows stands for.
FlowOK(m) ==
    /\ m.type = "ProvisioningRequest" =>
          UnderWay(m.run) /\ m.run \notin DOMAIN requests
    /\ m.type = "PreLinkageRequest" =>
          m.run \in DOMAIN requests /\ requests[m.run][m.la] = 0
    /\ m.type = "CertRequest" =>
          /\ m.run \in DOMAIN requests /\ m.cert.lci = requests[m.run]
          /\ m.cert.i \in Periods /\ ChainsOf(m.run[1], m.cert.lci)
    /\ m.type = "BatchDownloadRequest" =>
          UnderWay(m.run) /\ m.i = m.run[2] /\ m.run \in DOMAIN requests

FlowsOK == \A m \in heap : FlowOK(m)

\* A job whose chains are there waits for the shuffle.
ShuffleOK ==
    /\ shuffle_armed \in BOOLEAN
    /\ shuffle_armed <=> Scheduled("ShuffleTimer")
    /\ (\E r \in DOMAIN jobs : jobs[r].responses = 2 /\ ~jobs[r].sent) => shuffle_armed

ProvisioningInv ==
    /\ ChainsOK /\ JobsOK /\ IssuedOK /\ HoldersOK /\ TopupsOK /\ FlowsOK /\ ShuffleOK

------------------------------------------------------------------------------
(***************************************************************************)
(* Reports and cases.                                                      *)
(***************************************************************************)

\* What is reported, decided on or made a case of was issued.
SubjectsOK ==
    /\ ra_reports \union arrived \subseteq DOMAIN issued
    /\ \A m \in heap : m.type = "Report" => m.cert \in DOMAIN issued
    /\ queue \in Seq(Certificates)
    /\ \A k \in DOMAIN queue : queue[k] \in DOMAIN issued
    /\ cases \in Seq([cert : Certificates, entry : Nat])
    /\ \A n \in DOMAIN cases : cases[n].cert \in DOMAIN issued
    /\ issuances \subseteq DOMAIN cases

\* The open case is the last one, and the list does not cover it.
CaseOK ==
    /\ case \in [number : Nat, cert : Certificates, seeds : [Authorities -> Nat],
                 done : BOOLEAN]
    /\ case_open =>
          /\ case.number \in DOMAIN cases /\ case.cert = cases[case.number].cert
          /\ ~Covered(case.cert)
          /\ \A x \in Authorities : case.seeds[x] \in {0, case.cert.lci[x]}

\* Each stage of the open case asks about its own certificate.
StageOK(m) ==
    /\ m.type = "PcaLookupRequest" => m.cert = case.cert /\ case.seeds = NoSeeds
    /\ m.type = "BlocklistRequest" =>
          /\ m.run \in DOMAIN requests /\ requests[m.run] = case.cert.lci
          /\ case.seeds = NoSeeds
    /\ m.type = "BlocklistResponse" =>
          m.lcis = {case.cert.lci} /\ case.seeds = NoSeeds
    /\ m.type = "SeedRequest" =>
          m.lci = case.cert.lci[m.la] /\ m.i = case.cert.i /\ case.seeds[m.la] = 0
    /\ m.type = "CrlAppend" => m.entry = case.cert

\* One stage is in flight; of the stages only the last asks two authorities at once.
Together(m, n) ==
    m = n \/ (m.type = "SeedRequest" /\ n.type = "SeedRequest")

StagesOK ==
    /\ OneCaseInFlight
    /\ \A m \in heap : m.type \in CaseMessages => StageOK(m)
    /\ \A m, n \in heap : m.type \in CaseMessages /\ n.type \in CaseMessages => Together(m, n)

CaseInv == SubjectsOK /\ CaseOK /\ StagesOK

------------------------------------------------------------------------------
(***************************************************************************)
(* Lists.                                                                  *)
(***************************************************************************)

\* The entries of the Generator's list up to n.
Entries(n) == {crlg[k] : k \in 1..n}

\* The sequence is the Generator's list of some earlier instant.
Earlier(list) ==
    /\ list \in Lists /\ Len(list) <= Len(crlg)
    /\ \A k \in DOMAIN list : list[k] = crlg[k]

ListsOK ==
    /\ crlg \in Lists
    /\ \A k \in DOMAIN crlg : \E n \in DOMAIN cases : crlg[k] = cases[n].cert
    /\ NoSecondEntry
    /\ Earlier(crl_store) /\ Earlier(crl_broadcast)
    /\ published \in 0..Len(crl_store) /\ broadcast \in 0..Len(crl_broadcast)

WindowsOK ==
    /\ report_armed \in BOOLEAN /\ publish_armed \in BOOLEAN /\ crl_timer_armed \in BOOLEAN
    /\ publish_armed => OnCadence
    /\ report_armed <=> Scheduled("ReportShuffleTimer")
    /\ publish_armed <=> Scheduled("CrlPublishTimer")
    /\ ra_reports # {} => report_armed
    /\ Len(crl_store) < Len(crlg) =>
          publish_armed \/ \E m \in heap : m.type = "CrlPublish" /\ m.to = "store"

\* A download or a frame brings entries of the Generator's list, and its version is not
\* past it.
SentOK(f) ==
    /\ f \in [version : Nat, entries : {f.entries}]
    /\ f.version <= Len(crlg) /\ f.entries \subseteq Entries(Len(crlg))

\* A vehicle counts no more entries than it holds, in whatever order they came.
ListenerOK(d) ==
    /\ listener[d] \in [held : {listener[d].held}, version : Nat,
                        transfer : {listener[d].transfer}]
    /\ \A t \in listener[d].transfer : SentOK(t)
    /\ listener[d].held \subseteq Entries(Len(crlg))
    /\ listener[d].version <= Cardinality(listener[d].held)

ListenersOK ==
    /\ DOMAIN listener = Listeners /\ \A d \in Listeners : ListenerOK(d)
    /\ \A f \in air : SentOK(f)

ListInv ==
    /\ ListsOK /\ WindowsOK /\ ListenersOK
    /\ filed \in 0..MaxReports /\ pc \in {"idle", "first", "second"}

\* The inductive invariant.
IInv ==
    /\ \A m \in heap : FormOK(m)
    /\ ProvisioningInv /\ CaseInv /\ ListInv

------------------------------------------------------------------------------
(***************************************************************************)
(* The constants, and the bound on the chains.                             *)
(***************************************************************************)

LEMMA Constants ==
    /\ Pool \in Nat /\ Pool >= 1 /\ MaxPeriod \in Nat /\ Pool <= MaxPeriod + 1
    /\ MaxPolls \in Nat /\ MaxReports \in Nat /\ Authorities = {1, 2}
    /\ IsFiniteSet(Runs) /\ Cardinality(Runs) \in Nat
  <1>1. IsFiniteSet(Periods)
    <2>1. 0 \in Int /\ MaxPeriod \in Int
      BY BoundAssumption
    <2> QED BY <2>1, FS_Interval DEF Periods
  <1>2. IsFiniteSet(Runs)
    BY <1>1, DevicesAssumption, FS_Product DEF Runs
  <1>3. Cardinality(Runs) \in Nat
    BY <1>2, FS_CardinalityType
  <1> QED BY <1>2, <1>3, PoolAssumption, BoundAssumption, PollsAssumption, ReportsAssumption
          DEF Authorities

\* No authority allocates more chains than there are runs.
LEMMA ChainBound ==
    ASSUME ChainsOK
    PROVE  \A x \in Authorities : /\ Len(owner[x]) \in Nat /\ DOMAIN owner[x] = 1..Len(owner[x])
                                  /\ Len(owner[x]) <= Cardinality(Runs)
                                  /\ IsFiniteSet(Answered(x))
  <1> SUFFICES ASSUME NEW x \in Authorities
               PROVE  /\ Len(owner[x]) \in Nat /\ DOMAIN owner[x] = 1..Len(owner[x])
                      /\ Len(owner[x]) <= Cardinality(Runs) /\ IsFiniteSet(Answered(x))
    OBVIOUS
  <1>1. Answered(x) \in SUBSET Runs
    BY DEF ChainsOK, Answered
  <1>2. IsFiniteSet(Answered(x)) /\ Cardinality(Answered(x)) <= Cardinality(Runs)
    BY <1>1, Constants, FS_Subset
  <1>3. owner[x] \in Seq(Devices)
    BY DEF ChainsOK
  <1> QED BY <1>2, <1>3, LenProperties DEF ChainsOK

LEMMA ChainsTyped ==
    ASSUME ChainsOK, NEW r \in DOMAIN requests
    PROVE  requests[r] \in Chains
  <1>1. requests[r] \in [Authorities -> Nat]
    BY DEF ChainsOK
  <1>2. \A x \in Authorities : requests[r][x] \in 0..Cardinality(Runs)
    BY <1>1, ChainBound, Constants DEF ChainsOK
  <1> QED BY <1>1, <1>2 DEF Chains

LEMMA InitInv == Init => IInv
  <1> SUFFICES ASSUME Init PROVE IInv
    OBVIOUS
  <1>1. /\ heap = {} /\ DOMAIN requests = {} /\ DOMAIN jobs = {} /\ shuffle_armed = FALSE
        /\ blocklist = {} /\ DOMAIN issued = {} /\ DOMAIN vehicle = {} /\ installed = {}
        /\ repos = [d \in Devices |-> <<>>] /\ owner = [x \in Authorities |-> <<>>]
        /\ device = [d \in Devices |-> [credentials |-> <<>>, retries |-> 0, progress |-> None]]
    BY DEF Init, ProvisioningInit
  <1>2. ChainsOK
    <2>1. \A x \in Authorities : Answered(x) = {}
      BY <1>1 DEF Answered
    <2>2. \A x \in Authorities : Cardinality(Answered(x)) = 0 /\ Len(owner[x]) = 0
      BY <1>1, <2>1, FS_EmptySet
    <2>3. owner \in [Authorities -> Seq(Devices)]
      BY <1>1
    <2> QED BY <1>1, <2>2, <2>3 DEF ChainsOK
  <1>3. JobsOK /\ IssuedOK /\ FlowsOK /\ ShuffleOK
    <2>1. JobsOK /\ IssuedOK /\ FlowsOK
      BY <1>1 DEF JobsOK, IssuedOK, FlowsOK
    <2>2. ~Scheduled("ShuffleTimer")
      BY <1>1 DEF Scheduled
    <2> QED BY <1>1, <2>1, <2>2 DEF ShuffleOK
  <1>4. HoldersOK
    BY <1>1, Constants DEF HoldersOK, None
  <1>5. TopupsOK
    BY <1>1 DEF TopupsOK
  <1>6. /\ ra_reports = {} /\ report_armed = FALSE /\ arrived = {} /\ filed = 0 /\ case = NoCase
        /\ crlg = <<>> /\ publish_armed = FALSE /\ crl_store = <<>> /\ crl_broadcast = <<>>
        /\ issuances = {} /\ queue = <<>> /\ cases = <<>> /\ published = 0 /\ broadcast = 0
        /\ crl_timer_armed = FALSE /\ air = {} /\ pc = "idle"
        /\ listener = [d \in Listeners |-> [held |-> {}, version |-> 0, transfer |-> {}]]
    BY DEF Init
  <1>7. SubjectsOK
    BY <1>1, <1>6 DEF SubjectsOK
  <1>8. CaseOK
    BY <1>6, Constants DEF CaseOK, NoCase, NoSeeds, case_open, Certificates, Chains, Periods
  <1>9. StagesOK
    BY <1>1 DEF StagesOK, OneCaseInFlight
  <1>10. ListsOK
    <2>1. <<>> \in Lists /\ Len(<<>>) = 0 /\ DOMAIN crlg = {} /\ DOMAIN crl_store = {}
          /\ DOMAIN crl_broadcast = {}
      BY <1>6 DEF Lists
    <2> QED BY <1>6, <2>1 DEF ListsOK, NoSecondEntry, Earlier
  <1>11. WindowsOK
    <2>1. ~Scheduled("ReportShuffleTimer") /\ ~Scheduled("CrlPublishTimer")
      BY <1>1 DEF Scheduled
    <2>2. ~(Len(crl_store) < Len(crlg))
      BY <1>6
    <2> QED BY <1>6, <2>1, <2>2 DEF WindowsOK
  <1>12. ListenersOK
    <2>1. Cardinality({}) = 0
      BY FS_EmptySet
    <2>2. ASSUME NEW d \in Listeners PROVE ListenerOK(d)
      <3>1. listener[d] = [held |-> {}, version |-> 0, transfer |-> {}]
        BY <1>6
      <3>2. listener[d].held = {} /\ listener[d].version = 0 /\ listener[d].transfer = {}
        BY <3>1
      <3> QED BY <2>1, <3>1, <3>2 DEF ListenerOK
    <2> QED BY <1>6, <2>2 DEF ListenersOK
  <1> QED BY <1>1, <1>2, <1>3, <1>4, <1>5, <1>6, <1>7, <1>8, <1>9, <1>10, <1>11, <1>12, Constants
          DEF IInv, ProvisioningInv, CaseInv, ListInv

(***************************************************************************)
(* What the invariant says of the properties that the run checks.          *)
(***************************************************************************)

LEMMA InvTraceable ==
    ASSUME IInv
    PROVE  CredentialsTraceable
  <1> SUFFICES ASSUME NEW d \in DOMAIN vehicle, NEW c \in Range(vehicle[d].creds)
               PROVE  /\ issued[c][1] = d /\ requests[issued[c]] = c.lci
                      /\ ChainsOf(d, c.lci)
    BY DEF CredentialsTraceable
  <1>1. Owned(d, c)
    BY DEF IInv, ProvisioningInv, HoldersOK, Range
  <1>2. c \in DOMAIN issued /\ ChainsOf(d, c.lci) /\ ChainsOf(issued[c][1], c.lci)
    BY <1>1 DEF Owned, IInv, ProvisioningInv, IssuedOK
  <1>3. issued[c][1] = d
    BY <1>2, Constants DEF ChainsOf
  <1> QED BY <1>2, <1>3 DEF IInv, ProvisioningInv, IssuedOK

LEMMA InvType ==
    ASSUME IInv
    PROVE  TypeOK
  <1> USE DEF IInv, ProvisioningInv, CaseInv, ListInv
  <1>1. DOMAIN requests \subseteq Runs /\ DOMAIN jobs \subseteq DOMAIN requests
    BY DEF ChainsOK, JobsOK
  <1>2. \A r \in DOMAIN requests, x \in Authorities : requests[r][x] \in 0..Len(owner[x])
    <2> SUFFICES ASSUME NEW r \in DOMAIN requests, NEW x \in Authorities
                 PROVE  requests[r][x] \in 0..Len(owner[x])
      OBVIOUS
    <2>1. requests[r][x] \in Nat /\ (requests[r][x] # 0 => requests[r][x] \in DOMAIN owner[x])
      BY DEF ChainsOK
    <2> QED BY <2>1, ChainBound
  <1>3. \A r \in DOMAIN jobs :
          jobs[r] \in [periods : 1..Pool, responses : 0..2, sent : BOOLEAN, certified : 0..Pool]
    BY DEF JobsOK
  <1>4. {shuffle_armed, report_armed, publish_armed, crl_timer_armed} \subseteq BOOLEAN
    BY DEF ShuffleOK, WindowsOK
  <1>5. /\ owner \in [Authorities -> Seq(Devices)]
        /\ DOMAIN issued \subseteq Certificates /\ Range(issued) \subseteq DOMAIN requests
        /\ blocklist \subseteq Devices /\ installed \subseteq DOMAIN requests
    BY DEF ChainsOK, IssuedOK, HoldersOK, Range
  <1>6. \A d \in Devices : /\ Range(repos[d]) \subseteq DOMAIN issued
                           /\ Range(device[d].credentials) \subseteq DOMAIN issued
                           /\ device[d].retries \in 0..MaxPolls + 1
    BY DEF HoldersOK, Owned, Range
  <1>7. \A d \in DOMAIN vehicle : /\ Range(vehicle[d].creds) \subseteq DOMAIN issued
                                  /\ vehicle[d].last \in Periods
    <2> SUFFICES ASSUME NEW d \in DOMAIN vehicle
                 PROVE  /\ Range(vehicle[d].creds) \subseteq DOMAIN issued
                        /\ vehicle[d].last \in Periods
      OBVIOUS
    <2>1. Range(vehicle[d].creds) \subseteq DOMAIN issued
      BY DEF HoldersOK, Owned, Range
    <2>2. vehicle[d].last \in Nat /\ Asked(d) <= MaxPeriod
      BY DEF HoldersOK, TopupsOK
    <2>3. vehicle[d].last \in Periods
      BY <2>2, Constants DEF Asked, Periods
    <2> QED BY <2>1, <2>3
  <1>8. /\ ra_reports \union arrived \subseteq DOMAIN issued
        /\ {crlg, crl_store, crl_broadcast, queue} \subseteq Lists
        /\ issuances \subseteq DOMAIN cases
    BY DEF SubjectsOK, ListsOK, Lists, Earlier
  <1>9. /\ published \in 0..Len(crl_store) /\ broadcast \in 0..Len(crl_broadcast)
        /\ filed \in 0..MaxReports /\ pc \in {"idle", "first", "second"}
    BY DEF ListsOK
  <1>10. /\ \A d \in Listeners : listener[d].held \subseteq Range(crlg)
         /\ \A f \in air : f.version \in 0..Len(crlg) /\ f.entries \subseteq Range(crlg)
    <2>1. Len(crlg) \in Nat /\ Entries(Len(crlg)) = Range(crlg)
      BY LenProperties DEF ListsOK, Entries, Range, Lists
    <2> QED BY <2>1 DEF ListenersOK, ListenerOK, SentOK
  <1> HIDE DEF IInv, ProvisioningInv, CaseInv, ListInv
  <1> QED BY <1>1, <1>2, <1>3, <1>4, <1>5, <1>6, <1>7, <1>8, <1>9, <1>10 DEF TypeOK

LEMMA InvCases ==
    ASSUME IInv
    PROVE  CasesSound
  <1> USE DEF IInv, ProvisioningInv, CaseInv, ListInv
  <1>1. NothingWaitsUnarmed
    <2>1. /\ shuffle_armed = Scheduled("ShuffleTimer")
          /\ report_armed = Scheduled("ReportShuffleTimer")
          /\ publish_armed = Scheduled("CrlPublishTimer")
      <3>1. \A t : Scheduled(t) \in BOOLEAN
        BY DEF Scheduled
      <3> QED BY <3>1, Zenon DEF ShuffleOK, WindowsOK
    <2> QED BY <2>1 DEF NothingWaitsUnarmed, ShuffleOK, WindowsOK
  <1>2. EntryIsSubjects
    <2> SUFFICES ASSUME NEW k \in DOMAIN crlg
                 PROVE  \E n \in DOMAIN cases :
                           /\ crlg[k] = cases[n].cert
                           /\ ChainsOf(issued[cases[n].cert][1], crlg[k].lci)
      BY DEF EntryIsSubjects
    <2>1. PICK n \in DOMAIN cases : crlg[k] = cases[n].cert
      BY DEF ListsOK
    <2>2. cases[n].cert \in DOMAIN issued
      BY DEF SubjectsOK
    <2> QED BY <2>1, <2>2 DEF IssuedOK
  <1>3. OneCaseInFlight /\ NoSecondEntry
    BY DEF StagesOK, ListsOK
  <1> HIDE DEF IInv, ProvisioningInv, CaseInv, ListInv
  <1> QED BY <1>1, <1>2, <1>3, InvType, InvTraceable DEF CasesSound

------------------------------------------------------------------------------
(***************************************************************************)
(* Provisioning and casework do not disturb one another.                   *)
(***************************************************************************)

\* Chains, certificates and complete requests stay.
Grows ==
    /\ \A x \in Authorities : \A k \in DOMAIN owner[x] :
          k \in DOMAIN owner'[x] /\ owner'[x][k] = owner[x][k]
    /\ DOMAIN issued \subseteq DOMAIN issued'
    /\ \A r \in DOMAIN requests :
          /\ r \in DOMAIN requests'
          /\ (\A x \in Authorities : requests[r][x] # 0) => requests'[r] = requests[r]

\* The step changes the schedule only by deliveries of the provisioning flows.
OnlyFlows == \A m \in (heap' \ heap) \union (heap \ heap') : m.type \in ProvisioningTypes

\* It leaves those alone.
NoFlows == \A m \in (heap' \ heap) \union (heap \ heap') : m.type \notin ProvisioningTypes

\* Nothing changes at a vehicle but that it may find itself revoked.
SameVehicles ==
    /\ DOMAIN vehicle' = DOMAIN vehicle
    /\ \A d \in DOMAIN vehicle :
          /\ vehicle'[d] \in [topup : BOOLEAN, last : Nat, creds : {vehicle[d].creds},
                              self_revoked : BOOLEAN]
          /\ vehicle'[d].topup = vehicle[d].topup /\ vehicle'[d].last = vehicle[d].last

LEMMA GrowsKeeps ==
    ASSUME ChainsOK, Grows
    PROVE  /\ \A d, lci : ChainsOf(d, lci) => ChainsOf(d, lci)'
           /\ \A d, c : Owned(d, c) => Owned(d, c)'
           /\ \A r \in DOMAIN requests : \A d :
                 ChainsOf(d, requests[r]) => r \in DOMAIN requests' /\ requests'[r] = requests[r]
  <1>1. \A d, lci : ChainsOf(d, lci) => ChainsOf(d, lci)'
    BY DEF ChainsOf, Grows
  <1>2. \A d, c : Owned(d, c) => Owned(d, c)'
    BY <1>1 DEF Owned, Grows
  <1>3. ASSUME NEW r \in DOMAIN requests, NEW d, ChainsOf(d, requests[r])
        PROVE  r \in DOMAIN requests' /\ requests'[r] = requests[r]
    <2>1. \A x \in Authorities : requests[r][x] # 0
      BY <1>3, ChainBound DEF ChainsOf
    <2> QED BY <2>1 DEF Grows
  <1> QED BY <1>1, <1>2, <1>3

LEMMA CasesKept ==
    ASSUME IInv, Grows, OnlyFlows,
           UNCHANGED <<reporting, casework, lists, versions, listener, pc>>
    PROVE  CaseInv' /\ ListInv'
  <1> USE DEF reporting, casework, lists, versions
  <1>1. \A m \in heap' : m.type \notin ProvisioningTypes => m \in heap
    BY DEF OnlyFlows
  <1>2. \A m \in heap : m.type \notin ProvisioningTypes => m \in heap'
    BY DEF OnlyFlows
  <1>3. SubjectsOK'
    <2>1. DOMAIN issued \subseteq DOMAIN issued'
      BY DEF Grows
    <2>2. SubjectsOK
      BY DEF IInv, CaseInv
    <2>3. \A m \in heap' : m.type = "Report" => m.cert \in DOMAIN issued'
      BY <1>1, <2>1, <2>2 DEF SubjectsOK, ProvisioningTypes
    <2> QED BY <2>1, <2>2, <2>3 DEF SubjectsOK
  <1>4. CaseOK'
    BY DEF IInv, CaseInv, CaseOK, case_open, Covered, Revokes
  <1>5. StagesOK'
    <2>1. StagesOK /\ CaseOK /\ SubjectsOK /\ IssuedOK /\ ChainsOK
      BY DEF IInv, CaseInv, ProvisioningInv
    <2>2. \A m \in heap' : m.type \in CaseMessages => m \in heap
      BY <1>1 DEF CaseMessages, ProvisioningTypes
    <2>3. OneCaseInFlight'
      BY <2>1, <2>2 DEF StagesOK, OneCaseInFlight, case_open
    <2>4. ASSUME NEW m \in heap', m.type \in CaseMessages
          PROVE  StageOK(m)'
      <3>1. m \in heap /\ StageOK(m) /\ case_open
        BY <2>1, <2>2, <2>4 DEF StagesOK, OneCaseInFlight
      <3>2. case.cert \in DOMAIN issued
        BY <2>1, <3>1 DEF CaseOK, SubjectsOK
      <3>3. m.type = "BlocklistRequest" =>
               m.run \in DOMAIN requests' /\ requests'[m.run] = case.cert.lci
        BY <2>1, <3>1, <3>2, GrowsKeeps DEF StageOK, IssuedOK
      <3> QED BY <3>1, <3>3 DEF StageOK
    <2>5. \A m, n \in heap' :
             m.type \in CaseMessages /\ n.type \in CaseMessages => Together(m, n)
      BY <2>1, <2>2 DEF StagesOK, Together
    <2> QED BY <2>3, <2>4, <2>5 DEF StagesOK, Together
  <1>6. ListsOK'
    BY DEF IInv, ListInv, ListsOK, NoSecondEntry, Earlier, Revokes
  <1>7. WindowsOK'
    <2>1. WindowsOK
      BY DEF IInv, ListInv
    <2>2. /\ Scheduled("ReportShuffleTimer")' <=> Scheduled("ReportShuffleTimer")
          /\ Scheduled("CrlPublishTimer")' <=> Scheduled("CrlPublishTimer")
      BY <1>1, <1>2 DEF Scheduled, ProvisioningTypes
    <2>3. (\E m \in heap : m.type = "CrlPublish" /\ m.to = "store") =>
             (\E m \in heap' : m.type = "CrlPublish" /\ m.to = "store")
      BY <1>2 DEF ProvisioningTypes
    <2> QED BY <2>1, <2>2, <2>3 DEF WindowsOK
  <1>8. ListenersOK'
    BY DEF IInv, ListInv, ListenersOK, ListenerOK, SentOK, Entries
  <1> QED BY <1>3, <1>4, <1>5, <1>6, <1>7, <1>8 DEF CaseInv, ListInv, IInv

LEMMA FlowsKept ==
    ASSUME IInv, NoFlows, SameVehicles, UNCHANGED provisioning, blocklist' \subseteq Devices
    PROVE  ProvisioningInv'
  <1> USE DEF provisioning
  <1>0. ProvisioningInv
    BY DEF IInv
  <1>1. \A m \in heap' : m.type \in ProvisioningTypes => m \in heap
    BY DEF NoFlows
  <1>2. \A m \in heap : m.type \in ProvisioningTypes => m \in heap'
    BY DEF NoFlows
  <1>3. ChainsOK' /\ JobsOK' /\ IssuedOK'
    BY <1>0 DEF ProvisioningInv, ChainsOK, JobsOK, IssuedOK, Answered, ChainsOf
  <1>4. HoldersOK'
    BY <1>0 DEF ProvisioningInv, HoldersOK, SameVehicles, Owned, ChainsOf
  <1>5. \A d \in DOMAIN vehicle : Asked(d)' = Asked(d)
    BY DEF SameVehicles, Asked
  <1>6. TopupsOK'
    BY <1>0, <1>5 DEF ProvisioningInv, TopupsOK, SameVehicles
  <1>7. FlowsOK'
    <2> SUFFICES ASSUME NEW m \in heap', m.type \in ProvisioningTypes
                 PROVE  FlowOK(m)'
      BY DEF FlowsOK, FlowOK, ProvisioningTypes
    <2>1. m \in heap /\ FlowOK(m)
      BY <1>0, <1>1 DEF ProvisioningInv, FlowsOK
    <2>2. \A r : UnderWay(r) => UnderWay(r)'
      BY <1>5 DEF UnderWay, SameVehicles
    <2> QED BY <2>1, <2>2 DEF FlowOK, ChainsOf
  <1>8. ShuffleOK'
    <2>1. Scheduled("ShuffleTimer")' <=> Scheduled("ShuffleTimer")
      BY <1>1, <1>2 DEF Scheduled, ProvisioningTypes
    <2> QED BY <1>0, <2>1 DEF ProvisioningInv, ShuffleOK
  <1> QED BY <1>3, <1>4, <1>6, <1>7, <1>8 DEF ProvisioningInv

------------------------------------------------------------------------------
(***************************************************************************)
(* The deliveries of the provisioning flows.                               *)
(***************************************************************************)

Forms == \A m \in heap : FormOK(m)

\* What has to be shown of such a delivery.
Provisioned == Forms' /\ ProvisioningInv' /\ Grows /\ OnlyFlows

LEMMA FlowForms ==
    ASSUME IInv, NEW m \in heap
    PROVE  /\ m.type = "ProvisioningRequest" => m \in [type : {m.type}, run : Runs]
           /\ m.type = "PreLinkageRequest" =>
                 m \in [type : {m.type}, run : Runs, la : Authorities]
           /\ m.type = "CertRequest" => m \in [type : {m.type}, run : Runs, cert : Certificate]
           /\ m.type = "BatchDownloadRequest" => m \in [type : {m.type}, run : Runs, i : Nat]
           /\ m.type \in {"ShuffleTimer", "ReportShuffleTimer", "CrlPublishTimer"} =>
                 m = [type |-> m.type]
  <1>1. FormOK(m)
    BY DEF IInv
  <1>2. m.type \in {"ShuffleTimer", "ReportShuffleTimer", "CrlPublishTimer"} =>
           m \in [type : {"ShuffleTimer", "ReportShuffleTimer", "CrlPublishTimer"}]
    BY <1>1 DEF FormOK
  <1> QED BY <1>1, <1>2 DEF FormOK

LEMMA TimerKept ==
    ASSUME NEW t, \A n \in (heap' \ heap) \union (heap \ heap') : n.type # t
    PROVE  Scheduled(t)' <=> Scheduled(t)
  BY DEF Scheduled

LEMMA RaRequestStep ==
    ASSUME IInv, NEW m \in heap, RaRequest(m)
    PROVE  Provisioned
  <1> DEFINE run == m.run
  <1>0. /\ m.type = "ProvisioningRequest" /\ m \in [type : {m.type}, run : Runs]
        /\ run \in Runs /\ UnderWay(run) /\ run \notin DOMAIN requests
        /\ \A n \in heap : n.type = m.type /\ n.run = m.run => n = m
    <2>1. m.type = "ProvisioningRequest"
      BY DEF RaRequest
    <2>2. m \in [type : {m.type}, run : Runs]
      BY <2>1, FlowForms
    <2>3. UnderWay(run) /\ run \notin DOMAIN requests
      BY <2>1 DEF IInv, ProvisioningInv, FlowsOK, FlowOK
    <2>4. \A n \in heap : n.type = m.type => n \in [type : {n.type}, run : Runs]
      BY <2>1, FlowForms
    <2> QED BY <2>1, <2>2, <2>3, <2>4
  <1>1. UNCHANGED <<shuffle_armed, blocklist, repos, owner, issued, device, vehicle, installed>>
    BY DEF RaRequest
  <1>2. ProvisioningInv /\ Forms
    BY DEF IInv, Forms
  <1>3. CASE heap' = heap \ {m} /\ UNCHANGED <<requests, jobs>>
    <2>1. Grows
      BY <1>1, <1>3 DEF Grows
    <2>2. OnlyFlows
      BY <1>0, <1>3 DEF OnlyFlows, ProvisioningTypes
    <2>3. ChainsOK' /\ JobsOK' /\ IssuedOK' /\ HoldersOK' /\ TopupsOK'
      BY <1>1, <1>2, <1>3 DEF ProvisioningInv, ChainsOK, JobsOK, IssuedOK, HoldersOK, TopupsOK,
         Answered, ChainsOf, Owned, Asked
    <2>4. FlowsOK'
      BY <1>1, <1>2, <1>3 DEF ProvisioningInv, FlowsOK, FlowOK, UnderWay, ChainsOf, Asked
    <2>5. Scheduled("ShuffleTimer")' <=> Scheduled("ShuffleTimer")
      BY <1>0, <1>3 DEF Scheduled
    <2>6. ShuffleOK'
      BY <1>1, <1>2, <1>3, <2>5 DEF ProvisioningInv, ShuffleOK
    <2>7. Forms'
      BY <1>2, <1>3 DEF Forms, FormOK
    <2> QED BY <2>1, <2>2, <2>3, <2>4, <2>6, <2>7 DEF Provisioned, ProvisioningInv
  <1>4. CASE run[1] \notin blocklist /\ ~(heap' = heap \ {m} /\ UNCHANGED <<requests, jobs>>)
    <2> DEFINE zero == [x \in Authorities |-> 0]
               poll == [type |-> "BatchDownloadRequest", run |-> run,
                        i |-> device[run[1]].progress.start]
               ask(x) == [type |-> "PreLinkageRequest", run |-> run, la |-> x]
               job == [periods |-> 1, responses |-> 0, sent |-> FALSE, certified |-> 0]
    <2>0. /\ requests' = With(requests, run, zero)
          /\ jobs' = With(jobs, run, job)
          /\ heap' = (heap \ {m}) \union ({poll} \union {ask(x) : x \in Authorities})
      BY <1>4 DEF RaRequest, Deliver
    <2>1. /\ DOMAIN requests' = DOMAIN requests \union {run} /\ requests'[run] = zero
          /\ \A r \in DOMAIN requests : requests'[r] = requests[r]
          /\ DOMAIN jobs' = DOMAIN jobs \union {run} /\ jobs'[run] = job
          /\ \A r \in DOMAIN jobs : r # run => jobs'[r] = jobs[r]
      BY <1>0, <2>0 DEF With
    <2>2. Grows
      BY <1>1, <2>1 DEF Grows
    <2>3. OnlyFlows
      BY <1>0, <2>0 DEF OnlyFlows, ProvisioningTypes
    <2>4. ChainsOK'
      <3>2. zero \in [Authorities -> Nat] /\ \A x \in Authorities : zero[x] = 0
        OBVIOUS
      <3> HIDE DEF zero
      <3>1. ASSUME NEW x \in Authorities PROVE Answered(x)' = Answered(x)
        <4>1. Answered(x)' \subseteq Answered(x)
          BY <2>1, <3>2 DEF Answered
        <4>2. Answered(x) \subseteq Answered(x)'
          BY <2>1 DEF Answered
        <4> QED BY <4>1, <4>2
      <3> QED BY <1>0, <1>1, <1>2, <2>1, <3>1, <3>2 DEF ProvisioningInv, ChainsOK
    <2>5. JobsOK'
      <3>1. Answers(zero) = 0
        BY Constants DEF Answers
      <3>2. job \in [periods : 1..Pool, responses : 0..2, sent : BOOLEAN, certified : 0..Pool]
        BY Constants
      <3>3. run[2] \in Nat /\ run[2] + 1 <= MaxPeriod + 1
        BY <1>0, Constants DEF Runs, Periods
      <3>4. run \notin DOMAIN jobs
        BY <1>0, <1>2 DEF ProvisioningInv, JobsOK
      <3>5. job.responses = 0 /\ job.periods = 1
        OBVIOUS
      <3> HIDE DEF job, zero
      <3> QED BY <1>2, <2>1, <3>1, <3>2, <3>3, <3>4, <3>5 DEF ProvisioningInv, JobsOK
    <2>6. IssuedOK'
      BY <1>1, <1>2, <2>1 DEF ProvisioningInv, IssuedOK, ChainsOf
    <2>7. HoldersOK'
      BY <1>1, <1>2, <2>1 DEF ProvisioningInv, HoldersOK, Owned, ChainsOf
    <2>8. TopupsOK'
      <3>1. run[1] \in DOMAIN vehicle /\ run[2] <= Asked(run[1])
        BY <1>0, Constants DEF UnderWay, Runs, Periods
      <3> QED BY <1>1, <1>2, <2>1, <3>1 DEF ProvisioningInv, TopupsOK, Asked
    <2>9. FlowsOK'
      <3> SUFFICES ASSUME NEW n \in heap' PROVE FlowOK(n)'
        BY DEF FlowsOK
      <3>1. \A r : UnderWay(r) => UnderWay(r)'
        BY <1>1 DEF UnderWay, Asked
      <3>2. CASE n \in heap /\ n # m
        <4>1. FlowOK(n)
          BY <1>2, <3>2 DEF ProvisioningInv, FlowsOK
        <4>2. n.type = "ProvisioningRequest" => n.run # run
          BY <1>0, <3>2
        <4> QED BY <1>0, <1>1, <2>1, <3>1, <4>1, <4>2 DEF FlowOK, ChainsOf
      <3>3. CASE n = poll
        <4>1. n.type = "BatchDownloadRequest" /\ n.run = run /\ n.i = run[2]
          BY <1>0, <3>3 DEF UnderWay
        <4> QED BY <1>0, <2>1, <3>1, <4>1 DEF FlowOK
      <3>4. ASSUME NEW x \in Authorities, n = ask(x)
            PROVE  FlowOK(n)'
        <4>1. n.type = "PreLinkageRequest" /\ n.run = run /\ n.la = x
          BY <3>4
        <4> QED BY <2>1, <3>4, <4>1 DEF FlowOK
      <3> QED BY <2>0, <3>2, <3>3, <3>4
    <2>10. ShuffleOK'
      <3>1. \A n \in (heap' \ heap) \union (heap \ heap') : n.type # "ShuffleTimer"
        BY <1>0, <2>0
      <3>2. Scheduled("ShuffleTimer")' <=> Scheduled("ShuffleTimer")
        BY <3>1, TimerKept
      <3>3. job.responses = 0
        OBVIOUS
      <3> HIDE DEF job
      <3> QED BY <1>1, <1>2, <2>1, <3>2, <3>3 DEF ProvisioningInv, ShuffleOK
    <2>11. Forms'
      <3> SUFFICES ASSUME NEW n \in heap' PROVE FormOK(n)'
        BY DEF Forms
      <3>1. CASE n \in heap
        BY <1>2, <3>1 DEF Forms, FormOK
      <3>2. CASE n = poll
        <4>1. device[run[1]].progress.start \in Nat
          BY <1>0, Constants DEF UnderWay, Runs, Periods
        <4> QED BY <1>0, <3>2, <4>1 DEF FormOK
      <3>3. ASSUME NEW x \in Authorities, n = ask(x)
            PROVE  FormOK(n)'
        BY <1>0, <3>3 DEF FormOK
      <3> QED BY <2>0, <3>1, <3>2, <3>3
    <2> QED BY <2>2, <2>3, <2>4, <2>5, <2>6, <2>7, <2>8, <2>9, <2>10, <2>11
            DEF Provisioned, ProvisioningInv
  <1> QED BY <1>3, <1>4 DEF RaRequest, Deliver

LEMMA PreLinkageStep ==
    ASSUME IInv, NEW m \in heap, PreLinkage(m)
    PROVE  Provisioned
  <1> DEFINE run == m.run
             la == m.la
             d == m.run[1]
             lci == Len(owner[la]) + 1
             sent == IF Arms(run) THEN {[type |-> "ShuffleTimer"]} ELSE {}
  <1>2. ProvisioningInv /\ Forms
    BY DEF IInv, Forms
  <1>3. /\ ChainsOK /\ JobsOK /\ IssuedOK /\ HoldersOK /\ TopupsOK /\ FlowsOK /\ ShuffleOK
    BY <1>2 DEF ProvisioningInv
  <1>0. /\ m.type = "PreLinkageRequest" /\ run \in Runs /\ la \in Authorities /\ d \in Devices
        /\ run \in DOMAIN requests /\ requests[run][la] = 0 /\ run \in DOMAIN jobs
        /\ \A n \in heap : n.type = m.type /\ n.run = run /\ n.la = la => n = m
    <2>1. m.type = "PreLinkageRequest" /\ run \in DOMAIN jobs
      BY DEF PreLinkage
    <2>2. m \in [type : {m.type}, run : Runs, la : Authorities]
      BY <2>1, FlowForms
    <2>3. run \in DOMAIN requests /\ requests[run][la] = 0
      BY <1>3, <2>1 DEF FlowsOK, FlowOK
    <2>4. \A n \in heap : n.type = m.type => n \in [type : {n.type}, run : Runs, la : Authorities]
      BY <2>1, FlowForms
    <2>5. d \in Devices
      BY <2>2 DEF Runs
    <2> QED BY <2>1, <2>2, <2>3, <2>4, <2>5
  <1>1. /\ UNCHANGED <<blocklist, repos, issued, device, vehicle, installed>>
        /\ owner' = [owner EXCEPT ![la] = Append(@, d)]
        /\ requests' = [requests EXCEPT ![run] = Filed(m, Len(owner'[la]))]
        /\ jobs' = [jobs EXCEPT ![run].responses = @ + 1]
        /\ shuffle_armed' = (shuffle_armed \/ Arms(run))
        /\ heap' = (heap \ {m}) \union sent
    BY DEF PreLinkage, Deliver
  <1>4. /\ owner[la] \in Seq(Devices) /\ Len(owner[la]) \in Nat
        /\ DOMAIN owner[la] = 1..Len(owner[la]) /\ IsFiniteSet(Answered(la))
        /\ DOMAIN owner = Authorities
    BY <1>0, <1>3, ChainBound DEF ChainsOK
  <1>5. /\ owner' \in [Authorities -> Seq(Devices)]
        /\ owner'[la] = Append(owner[la], d) /\ Len(owner'[la]) = lci
        /\ \A k \in DOMAIN owner[la] : k \in DOMAIN owner'[la] /\ owner'[la][k] = owner[la][k]
        /\ lci \in DOMAIN owner'[la] /\ owner'[la][lci] = d /\ lci \in Nat /\ lci # 0
        /\ \A x \in Authorities : x # la => owner'[x] = owner[x]
    <2>1. owner'[la] = Append(owner[la], d)
      BY <1>0, <1>1, <1>4
    <2>2. /\ Append(owner[la], d) \in Seq(Devices) /\ Len(Append(owner[la], d)) = lci
          /\ \A k \in 1..Len(owner[la]) : Append(owner[la], d)[k] = owner[la][k]
          /\ Append(owner[la], d)[lci] = d
      BY <1>0, <1>4, AppendProperties
    <2>3. DOMAIN Append(owner[la], d) = 1..lci
      BY <2>2, LenProperties
    <2>4. owner' \in [Authorities -> Seq(Devices)]
      BY <1>0, <1>1, <1>3, <2>2 DEF ChainsOK
    <2> QED BY <1>0, <1>1, <1>4, <2>1, <2>2, <2>3, <2>4
  <1>6. /\ DOMAIN requests' = DOMAIN requests /\ requests[run] \in [Authorities -> Nat]
        /\ requests'[run] \in [Authorities -> Nat] /\ requests'[run][la] = lci
        /\ \A x \in Authorities : x # la => requests'[run][x] = requests[run][x]
        /\ \A r \in DOMAIN requests : r # run => requests'[r] = requests[r]
    <2>1. requests[run] \in [Authorities -> Nat]
      BY <1>0, <1>3 DEF ChainsOK
    <2>2. requests'[run] = [requests[run] EXCEPT ![la] = lci]
      BY <1>0, <1>1, <1>5 DEF Filed
    <2>3. /\ DOMAIN requests' = DOMAIN requests
          /\ \A r \in DOMAIN requests : r # run => requests'[r] = requests[r]
      BY <1>1
    <2> HIDE DEF lci, run, la
    <2> QED BY <1>0, <1>5, <2>1, <2>2, <2>3
  <1>7. /\ DOMAIN jobs' = DOMAIN jobs
        /\ \A r \in DOMAIN jobs : r # run => jobs'[r] = jobs[r]
        /\ jobs[run] \in [periods : 1..Pool, responses : 0..2, sent : BOOLEAN,
                          certified : 0..Pool]
        /\ jobs'[run] = [jobs[run] EXCEPT !.responses = @ + 1]
        /\ jobs[run].responses = Answers(requests[run])
    BY <1>0, <1>1, <1>3 DEF JobsOK
  <1>8. /\ Answers(requests'[run]) = Answers(requests[run]) + 1
        /\ Answers(requests[run]) \in {0, 1}
    BY <1>0, <1>5, <1>6, Constants, SMTT(60) DEF Answers
  <1> HIDE DEF run, la, d, lci, sent
  <1>9. Grows
    <2>1. \A x \in Authorities : \A k \in DOMAIN owner[x] :
             k \in DOMAIN owner'[x] /\ owner'[x][k] = owner[x][k]
      BY <1>5
    <2>2. \A r \in DOMAIN requests :
             /\ r \in DOMAIN requests'
             /\ (\A x \in Authorities : requests[r][x] # 0) => requests'[r] = requests[r]
      BY <1>0, <1>6
    <2> QED BY <1>1, <2>1, <2>2 DEF Grows
  <1>10. /\ \A e, c : ChainsOf(e, c) => ChainsOf(e, c)'
         /\ \A e, c : Owned(e, c) => Owned(e, c)'
         /\ \A r \in DOMAIN requests : \A e :
               ChainsOf(e, requests[r]) => requests'[r] = requests[r]
    BY <1>3, <1>9, GrowsKeeps
  <1>11. OnlyFlows
    BY <1>0, <1>1 DEF OnlyFlows, ProvisioningTypes, sent
  <1>12. ChainsOK'
    <2>1. \A x \in Authorities : Len(owner'[x]) = Cardinality(Answered(x)')
      <3>1. Answered(la)' = Answered(la) \union {run}
        BY <1>0, <1>5, <1>6 DEF Answered
      <3>2. run \notin Answered(la)
        BY <1>0 DEF Answered
      <3>3. Cardinality(Answered(la)') = Cardinality(Answered(la)) + 1
        BY <1>4, <3>1, <3>2, FS_AddElement
      <3>4. \A x \in Authorities : x # la => Answered(x)' = Answered(x)
        BY <1>0, <1>6 DEF Answered
      <3> QED BY <1>0, <1>3, <1>5, <3>3, <3>4 DEF ChainsOK, lci
    <2>2. ASSUME NEW r \in DOMAIN requests', NEW x \in Authorities, requests'[r][x] # 0
          PROVE  requests'[r][x] \in DOMAIN owner'[x] /\ owner'[x][requests'[r][x]] = r[1]
      <3>1. CASE r = run /\ x = la
        BY <1>5, <1>6, <3>1 DEF d, run
      <3>2. CASE ~(r = run /\ x = la)
        <4>1. requests'[r][x] = requests[r][x] /\ r \in DOMAIN requests
          BY <1>6, <2>2, <3>2
        <4>2. requests[r][x] \in DOMAIN owner[x] /\ owner[x][requests[r][x]] = r[1]
          BY <1>3, <2>2, <4>1 DEF ChainsOK
        <4> QED BY <1>9, <4>1, <4>2 DEF Grows
      <3> QED BY <3>1, <3>2
    <2>3. \A r \in DOMAIN requests' : requests'[r] \in [Authorities -> Nat]
      BY <1>3, <1>6 DEF ChainsOK
    <2> QED BY <1>3, <1>5, <1>6, <2>1, <2>2, <2>3 DEF ChainsOK
  <1>13. JobsOK'
    <2>1. /\ jobs'[run] \in [periods : 1..Pool, responses : 0..2, sent : BOOLEAN,
                             certified : 0..Pool]
          /\ jobs'[run].responses = Answers(requests'[run])
          /\ jobs'[run].periods = jobs[run].periods
      BY <1>7, <1>8
    <2> QED BY <1>3, <1>6, <1>7, <2>1 DEF JobsOK
  <1>14. IssuedOK'
    <2> SUFFICES ASSUME NEW c \in DOMAIN issued
                 PROVE  /\ issued[c] \in DOMAIN requests' /\ requests'[issued[c]] = c.lci
                        /\ ChainsOf(issued[c][1], c.lci)'
      BY <1>1, <1>3 DEF IssuedOK
    <2>1. /\ issued[c] \in DOMAIN requests /\ requests[issued[c]] = c.lci
          /\ ChainsOf(issued[c][1], c.lci)
      BY <1>3 DEF IssuedOK
    <2>2. ChainsOf(issued[c][1], c.lci)'
      BY <1>1, <1>9, <2>1 DEF ChainsOf, Grows
    <2> QED BY <1>6, <1>10, <2>1, <2>2
  <1>15. HoldersOK'
    BY <1>1, <1>3, <1>6, <1>10 DEF HoldersOK
  <1>16. TopupsOK'
    BY <1>1, <1>3, <1>6 DEF TopupsOK, Asked
  <1>17. FlowsOK'
    <2> SUFFICES ASSUME NEW n \in heap' PROVE FlowOK(n)'
      BY DEF FlowsOK
    <2>1. \A r : UnderWay(r) => UnderWay(r)'
      BY <1>1 DEF UnderWay, Asked
    <2>2. CASE n \in heap /\ n # m
      <3>1. FlowOK(n)
        BY <1>3, <2>2 DEF FlowsOK
      <3>2. n.type = "PreLinkageRequest" => n.run # run \/ n.la # la
        BY <1>0, <2>2
      <3>3. n.type = "PreLinkageRequest" => n.la \in Authorities
        BY <2>2, FlowForms
      <3>4. n.type = "PreLinkageRequest" => n.run \in DOMAIN requests' /\ requests'[n.run][n.la] = 0
        BY <1>6, <3>1, <3>2, <3>3 DEF FlowOK
      <3> QED BY <1>6, <1>10, <2>1, <3>1, <3>4 DEF FlowOK
    <2>3. CASE n = [type |-> "ShuffleTimer"]
      BY <2>3 DEF FlowOK
    <2> QED BY <1>1, <2>2, <2>3 DEF sent
  <1>18. ShuffleOK'
    <2>1. \A r \in DOMAIN jobs' : jobs'[r].responses = 2 /\ ~jobs'[r].sent => shuffle_armed'
      <3>1. jobs'[run].responses = 2 => jobs[run].responses = 1
        BY <1>7
      <3>2. jobs[run].responses = 1 => shuffle_armed'
        BY <1>1 DEF Arms
      <3>3. shuffle_armed => shuffle_armed'
        BY <1>1
      <3> QED BY <1>3, <1>7, <3>1, <3>2, <3>3 DEF ShuffleOK
    <2>2. shuffle_armed' \in BOOLEAN
      BY <1>1
    <2>3. CASE Arms(run)
      BY <1>1, <2>1, <2>2, <2>3 DEF ShuffleOK, Scheduled, sent
    <2>4. CASE ~Arms(run)
      <3>1. \A n \in (heap' \ heap) \union (heap \ heap') : n.type # "ShuffleTimer"
        BY <1>0, <1>1, <2>4 DEF sent
      <3>2. Scheduled("ShuffleTimer")' <=> Scheduled("ShuffleTimer")
        BY <3>1, TimerKept
      <3>3. shuffle_armed' <=> shuffle_armed
        BY <1>1, <2>4
      <3> QED BY <1>3, <2>1, <2>2, <3>2, <3>3 DEF ShuffleOK
    <2> QED BY <2>3, <2>4
  <1>19. Forms'
    <2>1. \A n \in sent : n = [type |-> "ShuffleTimer"]
      BY DEF sent
    <2>2. FormOK([type |-> "ShuffleTimer"])
      BY DEF FormOK
    <2> QED BY <1>1, <1>2, <2>1, <2>2 DEF Forms, FormOK
  <1> QED BY <1>9, <1>11, <1>12, <1>13, <1>14, <1>15, <1>16, <1>17, <1>18, <1>19
          DEF Provisioned, ProvisioningInv

LEMMA ShuffleTimerStep ==
    ASSUME IInv, NEW m \in heap, ShuffleTimer(m)
    PROVE  Provisioned
  <1> DEFINE ready == {r \in DOMAIN jobs : jobs[r].responses = 2 /\ ~jobs[r].sent}
             ask(r, i) == [type |-> "CertRequest", run |-> r, cert |-> [lci |-> requests[r], i |-> i]]
             sent == UNION {{ask(r, i) : i \in PeriodsOf(r, jobs[r].periods)} : r \in ready}
  <1>2. ProvisioningInv /\ Forms
    BY DEF IInv, Forms
  <1>3. /\ ChainsOK /\ JobsOK /\ IssuedOK /\ HoldersOK /\ TopupsOK /\ FlowsOK /\ ShuffleOK
    BY <1>2 DEF ProvisioningInv
  <1>0. m.type = "ShuffleTimer" /\ m = [type |-> "ShuffleTimer"]
    BY FlowForms DEF ShuffleTimer
  <1>1. /\ UNCHANGED <<requests, blocklist, repos, owner, issued, device, vehicle, installed>>
        /\ shuffle_armed' = FALSE
        /\ jobs' = [r \in DOMAIN jobs |->
                       IF r \in ready THEN [jobs[r] EXCEPT !.sent = TRUE] ELSE jobs[r]]
        /\ heap' = (heap \ {m}) \union sent
    BY DEF ShuffleTimer, Deliver
  <1>4. \A n \in sent : \E r \in ready : \E i \in PeriodsOf(r, jobs[r].periods) : n = ask(r, i)
    OBVIOUS
  <1>5. ASSUME NEW r \in ready, NEW i \in PeriodsOf(r, jobs[r].periods)
        PROVE  /\ r \in Runs /\ r \in DOMAIN requests /\ requests[r] \in [Authorities -> Nat]
               /\ i \in Periods /\ ChainsOf(r[1], requests[r])
    <2>1. r \in DOMAIN jobs /\ jobs[r].responses = 2
      OBVIOUS
    <2> HIDE DEF ready
    <2>2. /\ r \in DOMAIN requests /\ Answers(requests[r]) = 2
          /\ jobs[r].periods \in Nat /\ r[2] + jobs[r].periods <= MaxPeriod + 1
      BY <1>3, <2>1 DEF JobsOK
    <2>3. r \in Runs /\ requests[r] \in [Authorities -> Nat] /\ r[2] \in Nat
      BY <1>3, <2>2 DEF ChainsOK, Runs, Periods
    <2>4. \A x \in Authorities : requests[r][x] # 0
      BY <2>2, Constants DEF Answers
    <2>5. ChainsOf(r[1], requests[r])
      BY <1>3, <2>2, <2>4 DEF ChainsOK, ChainsOf
    <2>6. i \in Periods
      BY <2>2, <2>3, Constants DEF PeriodsOf, Periods
    <2> QED BY <2>2, <2>3, <2>5, <2>6
  <1>6. /\ DOMAIN jobs' = DOMAIN jobs
        /\ \A r \in DOMAIN jobs :
              /\ jobs'[r] \in [periods : 1..Pool, responses : 0..2, sent : BOOLEAN,
                               certified : 0..Pool]
              /\ jobs'[r].responses = jobs[r].responses /\ jobs'[r].periods = jobs[r].periods
              /\ ~(jobs'[r].responses = 2 /\ ~jobs'[r].sent)
    <2> SUFFICES ASSUME NEW r \in DOMAIN jobs
                 PROVE  /\ jobs'[r] \in [periods : 1..Pool, responses : 0..2, sent : BOOLEAN,
                                         certified : 0..Pool]
                        /\ jobs'[r].responses = jobs[r].responses
                        /\ jobs'[r].periods = jobs[r].periods
                        /\ ~(jobs'[r].responses = 2 /\ ~jobs'[r].sent)
      BY <1>1
    <2>1. jobs[r] \in [periods : 1..Pool, responses : 0..2, sent : BOOLEAN, certified : 0..Pool]
      BY <1>3 DEF JobsOK
    <2>2. CASE r \in ready
      <3>1. jobs'[r] = [jobs[r] EXCEPT !.sent = TRUE]
        BY <1>1, <2>2
      <3> QED BY <2>1, <3>1
    <2>3. CASE r \notin ready
      <3>1. jobs'[r] = jobs[r] /\ ~(jobs[r].responses = 2 /\ ~jobs[r].sent)
        BY <1>1, <2>3
      <3> QED BY <2>1, <3>1
    <2> QED BY <2>2, <2>3
  <1>7. \A n \in sent : n.type = "CertRequest"
    BY <1>4
  <1> HIDE DEF ready, sent
  <1>8. Grows
    BY <1>1 DEF Grows
  <1>9. OnlyFlows
    BY <1>0, <1>1, <1>7 DEF OnlyFlows, ProvisioningTypes
  <1>10. ChainsOK' /\ IssuedOK' /\ HoldersOK' /\ TopupsOK'
    BY <1>1, <1>3 DEF ChainsOK, IssuedOK, HoldersOK, TopupsOK, Answered, ChainsOf, Owned, Asked
  <1>11. JobsOK'
    BY <1>1, <1>3, <1>6 DEF JobsOK
  <1>12. FlowsOK'
    <2> SUFFICES ASSUME NEW n \in heap' PROVE FlowOK(n)'
      BY DEF FlowsOK
    <2>1. CASE n \in heap
      <3>1. FlowOK(n)
        BY <1>3, <2>1 DEF FlowsOK
      <3> QED BY <1>1, <3>1 DEF FlowOK, UnderWay, ChainsOf, Asked
    <2>2. CASE n \in sent
      <3>0. PICK r \in ready : \E i \in PeriodsOf(r, jobs[r].periods) : n = ask(r, i)
        BY <1>4, <2>2
      <3>1. PICK i \in PeriodsOf(r, jobs[r].periods) : n = ask(r, i)
        BY <3>0
      <3>2. n.type = "CertRequest" /\ n.run = r /\ n.cert.lci = requests[r] /\ n.cert.i = i
        BY <3>1
      <3>3. ChainsOf(r[1], requests[r]) /\ r \in DOMAIN requests /\ i \in Periods
        BY <1>5
      <3> QED BY <1>1, <3>2, <3>3 DEF FlowOK, ChainsOf
    <2> QED BY <1>1, <2>1, <2>2
  <1>13. ShuffleOK'
    <2>1. ~Scheduled("ShuffleTimer")'
      BY <1>0, <1>1, <1>7 DEF Scheduled
    <2> QED BY <1>1, <1>6, <2>1 DEF ShuffleOK
  <1>14. Forms'
    <2> SUFFICES ASSUME NEW n \in heap' PROVE FormOK(n)'
      BY DEF Forms
    <2>1. CASE n \in heap
      BY <1>2, <2>1 DEF Forms, FormOK
    <2>2. CASE n \in sent
      <3>0. PICK r \in ready : \E i \in PeriodsOf(r, jobs[r].periods) : n = ask(r, i)
        BY <1>4, <2>2
      <3>1. PICK i \in PeriodsOf(r, jobs[r].periods) : n = ask(r, i)
        BY <3>0
      <3>2. r \in Runs /\ requests[r] \in [Authorities -> Nat] /\ i \in Nat
        BY <1>5, Constants DEF Periods
      <3> QED BY <3>1, <3>2 DEF FormOK, Certificate
    <2> QED BY <1>1, <2>1, <2>2
  <1> QED BY <1>8, <1>9, <1>10, <1>11, <1>12, <1>13, <1>14 DEF Provisioned, ProvisioningInv

LEMMA CertifyStep ==
    ASSUME IInv, NEW m \in heap, Certify(m)
    PROVE  Provisioned
  <1>2. ProvisioningInv /\ Forms
    BY DEF IInv, Forms
  <1>3. /\ ChainsOK /\ JobsOK /\ IssuedOK /\ HoldersOK /\ TopupsOK /\ FlowsOK /\ ShuffleOK
    BY <1>2 DEF ProvisioningInv
  <1>0. PICK run, c, d :
           /\ run = m.run /\ c = m.cert /\ d = run[1]
           /\ m.type = "CertRequest" /\ run \in DOMAIN requests /\ d \in Devices
           /\ c \in Certificates /\ c.lci = requests[run] /\ ChainsOf(d, c.lci)
    <2> DEFINE run == m.run
               c == m.cert
               d == m.run[1]
    <2>1. m.type = "CertRequest"
      BY DEF Certify
    <2>2. m \in [type : {m.type}, run : Runs, cert : Certificate]
      BY <2>1, FlowForms
    <2>3. /\ run \in DOMAIN requests /\ c.lci = requests[run] /\ c.i \in Periods
          /\ ChainsOf(d, c.lci)
      BY <1>3, <2>1 DEF FlowsOK, FlowOK
    <2>4. c \in Certificates
      BY <1>3, <2>2, <2>3, ChainsTyped DEF Certificates, Certificate
    <2>5. d \in Devices
      BY <2>2 DEF Runs
    <2> QED BY <2>1, <2>3, <2>4, <2>5
  <1>1. /\ UNCHANGED <<requests, shuffle_armed, blocklist, owner, device, vehicle, installed>>
        /\ issued' = With(issued, c, run)
        /\ repos' = [repos EXCEPT ![d] = With(@, c.i, c)]
        /\ jobs' = IF jobs[run].certified + 1 >= jobs[run].periods
                   THEN Restrict(jobs, DOMAIN jobs \ {run})
                   ELSE [jobs EXCEPT ![run].certified = @ + 1]
        /\ heap' = heap \ {m}
    BY <1>0 DEF Certify, Deliver
  <1>4. /\ DOMAIN issued' = DOMAIN issued \union {c} /\ issued'[c] = run
        /\ \A e \in DOMAIN issued : e # c => issued'[e] = issued[e]
    BY <1>1 DEF With
  <1>5. /\ DOMAIN jobs' \subseteq DOMAIN jobs
        /\ \A r \in DOMAIN jobs' :
              /\ jobs'[r] \in [periods : 1..Pool, responses : 0..2, sent : BOOLEAN,
                               certified : 0..Pool]
              /\ jobs'[r].responses = jobs[r].responses /\ jobs'[r].periods = jobs[r].periods
              /\ jobs'[r].sent = jobs[r].sent
    <2>1. \A r \in DOMAIN jobs :
             jobs[r] \in [periods : 1..Pool, responses : 0..2, sent : BOOLEAN, certified : 0..Pool]
      BY <1>3 DEF JobsOK
    <2>2. CASE jobs[run].certified + 1 >= jobs[run].periods
      BY <1>1, <2>1, <2>2 DEF Restrict
    <2>3. CASE ~(jobs[run].certified + 1 >= jobs[run].periods)
      <3>1. DOMAIN jobs' = DOMAIN jobs /\ \A r \in DOMAIN jobs : r # run => jobs'[r] = jobs[r]
        BY <1>1, <2>3
      <3>2. CASE run \in DOMAIN jobs
        <4>1. jobs'[run] = [jobs[run] EXCEPT !.certified = jobs[run].certified + 1]
          BY <1>1, <2>3, <3>2
        <4>2. jobs[run].certified + 1 \in 0..Pool
          BY <2>1, <2>3, <3>2, Constants
        <4> QED BY <2>1, <3>1, <3>2, <4>1, <4>2
      <3>3. CASE run \notin DOMAIN jobs
        BY <2>1, <3>1, <3>3
      <3> QED BY <3>2, <3>3
    <2> QED BY <2>2, <2>3
  <1>6. Grows
    BY <1>1, <1>4 DEF Grows
  <1>7. OnlyFlows
    BY <1>0, <1>1 DEF OnlyFlows, ProvisioningTypes
  <1>8. /\ \A e, l : ChainsOf(e, l)' <=> ChainsOf(e, l)
        /\ \A e, f : Owned(e, f) => Owned(e, f)'
    BY <1>1, <1>4 DEF ChainsOf, Owned
  <1>9. ChainsOK' /\ TopupsOK'
    BY <1>1, <1>3 DEF ChainsOK, TopupsOK, Answered, Asked
  <1>10. JobsOK'
    BY <1>1, <1>3, <1>5 DEF JobsOK
  <1>11. IssuedOK'
    <2>1. DOMAIN issued' \subseteq Certificates
      BY <1>0, <1>3, <1>4 DEF IssuedOK
    <2>2. ASSUME NEW e \in DOMAIN issued'
          PROVE  /\ issued'[e] \in DOMAIN requests /\ requests[issued'[e]] = e.lci
                 /\ ChainsOf(issued'[e][1], e.lci)
      <3>1. CASE e = c
        BY <1>0, <1>4, <3>1
      <3>2. CASE e # c
        BY <1>3, <1>4, <3>2 DEF IssuedOK
      <3> QED BY <3>1, <3>2
    <2> QED BY <1>1, <2>1, <2>2 DEF IssuedOK, ChainsOf
  <1>12. HoldersOK'
    <2>1. /\ DOMAIN repos' = Devices
          /\ \A e \in Devices : e # d => repos'[e] = repos[e]
          /\ repos'[d] = With(repos[d], c.i, c)
      BY <1>0, <1>1, <1>3 DEF HoldersOK
    <2>2. ASSUME NEW e \in Devices, NEW i \in DOMAIN repos'[e]
          PROVE  repos'[e][i] \in DOMAIN issued' /\ ChainsOf(e, repos'[e][i].lci)
      <3>1. CASE e = d /\ i = c.i
        <4>1. repos'[e][i] = c
          BY <2>1, <3>1 DEF With
        <4> QED BY <1>0, <1>4, <3>1, <4>1
      <3>2. CASE ~(e = d /\ i = c.i)
        <4>1. i \in DOMAIN repos[e] /\ repos'[e][i] = repos[e][i]
          BY <2>1, <2>2, <3>2 DEF With
        <4> QED BY <1>3, <1>4, <4>1 DEF HoldersOK, Owned
      <3> QED BY <3>1, <3>2
    <2>3. \A e \in Devices : \A i \in DOMAIN repos'[e] : Owned(e, repos[e][i])'
      BY <1>1, <2>2 DEF Owned, ChainsOf
    <2> QED BY <1>1, <1>3, <1>8, <2>1, <2>3 DEF HoldersOK
  <1>13. FlowsOK'
    BY <1>1, <1>3 DEF FlowsOK, FlowOK, UnderWay, ChainsOf, Asked
  <1>14. ShuffleOK'
    <2>1. \A n \in (heap' \ heap) \union (heap \ heap') : n.type # "ShuffleTimer"
      BY <1>0, <1>1
    <2>2. Scheduled("ShuffleTimer")' <=> Scheduled("ShuffleTimer")
      BY <2>1, TimerKept
    <2>3. \A r \in DOMAIN jobs' : jobs'[r].responses = 2 /\ ~jobs'[r].sent =>
             r \in DOMAIN jobs /\ jobs[r].responses = 2 /\ ~jobs[r].sent
      BY <1>5, Zenon
    <2> QED BY <1>1, <1>3, <2>2, <2>3 DEF ShuffleOK
  <1>15. Forms'
    BY <1>1, <1>2 DEF Forms, FormOK
  <1> QED BY <1>6, <1>7, <1>9, <1>10, <1>11, <1>12, <1>13, <1>14, <1>15
          DEF Provisioned, ProvisioningInv

LEMMA BatchDownloadStep ==
    ASSUME IInv, NEW m \in heap, BatchDownload(m)
    PROVE  Provisioned
  <1>2. ProvisioningInv /\ Forms
    BY DEF IInv, Forms
  <1>3. /\ ChainsOK /\ JobsOK /\ IssuedOK /\ HoldersOK /\ TopupsOK /\ FlowsOK /\ ShuffleOK
    BY <1>2 DEF ProvisioningInv
  <1>0. PICK run, d :
           /\ run = m.run /\ d = run[1] /\ m.i = run[2] /\ run = <<d, m.i>> /\ m.i \in Nat
           /\ m.type = "BatchDownloadRequest" /\ run \in DOMAIN requests /\ d \in Devices
           /\ UnderWay(run)
           /\ \A n \in heap : n.type \in {"ProvisioningRequest", "BatchDownloadRequest"} /\ n # m =>
                 n.run[1] # d
    <2>1. m.type = "BatchDownloadRequest"
      BY DEF BatchDownload
    <2>2. m \in [type : {m.type}, run : Runs, i : Nat]
      BY <2>1, FlowForms
    <2>3. UnderWay(m.run) /\ m.i = m.run[2] /\ m.run \in DOMAIN requests
      BY <1>3, <2>1 DEF FlowsOK, FlowOK
    <2>4. m.run[1] \in Devices /\ m.run = <<m.run[1], m.run[2]>>
      BY <2>2 DEF Runs
    <2>5. ASSUME NEW n \in heap, n.type \in {"ProvisioningRequest", "BatchDownloadRequest"}, n # m
          PROVE  n.run[1] # m.run[1]
      <3>1. n.run \in Runs /\ UnderWay(n.run)
        BY <1>3, <2>5, FlowForms DEF FlowsOK, FlowOK
      <3>2. n.run = <<n.run[1], n.run[2]>>
        BY <3>1 DEF Runs
      <3>3. n.run[1] = m.run[1] => n.run = m.run
        BY <2>3, <2>4, <3>1, <3>2 DEF UnderWay
      <3>4. CASE n.type = "ProvisioningRequest"
        BY <1>3, <2>3, <3>3, <3>4 DEF FlowsOK, FlowOK
      <3>5. CASE n.type = "BatchDownloadRequest"
        <4>1. n \in [type : {n.type}, run : Runs, i : Nat] /\ n.i = n.run[2]
          BY <1>3, <3>5, FlowForms DEF FlowsOK, FlowOK
        <4> QED BY <2>1, <2>2, <2>3, <2>5, <3>3, <3>5, <4>1
      <3> QED BY <2>5, <3>4, <3>5
    <2> QED BY <2>1, <2>2, <2>3, <2>4, <2>5, ZenonT(60)
  <1>1. /\ UNCHANGED <<requests, jobs, shuffle_armed, blocklist, repos, owner, issued, vehicle>>
        /\ device[d].progress = [start |-> m.i, periods |-> 1, downloaded |-> 0]
        /\ device[d].progress # None /\ device[d].retries <= MaxPolls
        /\ device[d] \in [credentials : {device[d].credentials}, retries : 0..MaxPolls + 1,
                          progress : [start : Nat, periods : Nat, downloaded : Nat]]
        /\ d \in DOMAIN vehicle /\ vehicle[d].topup /\ m.i = Asked(d)
    <2>1. UNCHANGED <<requests, jobs, shuffle_armed, blocklist, repos, owner, issued, vehicle>>
      BY DEF BatchDownload
    <2>2. /\ d \in DOMAIN vehicle /\ vehicle[d].topup /\ m.i = Asked(d)
          /\ device[d].progress = [start |-> m.i, periods |-> 1, downloaded |-> 0]
          /\ device[d].retries <= MaxPolls
      BY <1>0 DEF UnderWay
    <2>3. device[d].progress.periods # None.periods
      BY <2>2 DEF None
    <2> QED BY <1>0, <1>3, <2>1, <2>2, <2>3 DEF HoldersOK
  <1>4. \A e, l : ChainsOf(e, l)' <=> ChainsOf(e, l)
    BY <1>1 DEF ChainsOf
  <1>5. ChainsOK' /\ JobsOK' /\ IssuedOK' /\ Grows
    BY <1>1, <1>3 DEF ChainsOK, JobsOK, IssuedOK, Answered, ChainsOf, Grows
  <1>6. ASSUME DOMAIN device' = Devices,
               \A e \in Devices : e # d => device'[e] = device[e],
               device'[d] \in [credentials : {device'[d].credentials}, retries : 0..MaxPolls + 1,
                               progress : [start : Nat, periods : Nat, downloaded : Nat]],
               \A i \in DOMAIN device'[d].credentials :
                  /\ i \in DOMAIN device[d].credentials \/ i = m.i
                  /\ Owned(d, device'[d].credentials[i]),
               DOMAIN device[d].credentials \subseteq DOMAIN device'[d].credentials,
               installed' = installed \/ (/\ installed' = installed \union {run}
                                          /\ m.i \in DOMAIN device'[d].credentials),
               heap' = heap \ {m} \/ (heap' = heap /\ UnderWay(run)')
        PROVE  Provisioned
    <2>1. HoldersOK'
      <3>1. \A e \in Devices :
               /\ device'[e] \in [credentials : {device'[e].credentials}, retries : 0..MaxPolls + 1,
                                  progress : [start : Nat, periods : Nat, downloaded : Nat]]
               /\ \A i \in DOMAIN device'[e].credentials : Owned(e, device[e].credentials[i])'
        BY <1>1, <1>3, <1>6 DEF HoldersOK, Owned, ChainsOf
      <3>2. \A e \in Devices : \A i \in DOMAIN repos'[e] : Owned(e, repos[e][i])'
        BY <1>1, <1>3 DEF HoldersOK, Owned, ChainsOf
      <3>3. \A e \in DOMAIN vehicle' :
               /\ vehicle'[e] \in [topup : BOOLEAN, last : Nat, creds : {vehicle'[e].creds},
                                  self_revoked : BOOLEAN]
               /\ \A i \in DOMAIN vehicle'[e].creds : Owned(e, vehicle[e].creds[i])'
        BY <1>1, <1>3 DEF HoldersOK, Owned, ChainsOf
      <3>4. installed' \subseteq DOMAIN requests'
        BY <1>0, <1>1, <1>3, <1>6 DEF HoldersOK
      <3> QED BY <1>1, <1>3, <1>6, <3>1, <3>2, <3>3, <3>4 DEF HoldersOK
    <2>2. TopupsOK'
      <3>1. \A e \in DOMAIN vehicle : Asked(e)' = Asked(e)
        BY <1>1 DEF Asked
      <3>2. \A r \in DOMAIN requests' : r[1] \in DOMAIN vehicle' /\ r[2] <= Asked(r[1])'
        BY <1>1, <1>3 DEF TopupsOK, Asked
      <3>3. ASSUME NEW e \in DOMAIN vehicle', vehicle'[e].topup, <<e, Asked(e)'>> \in installed'
            PROVE  Asked(e)' \in DOMAIN device'[e].credentials
        <4>1. CASE <<e, Asked(e)>> \in installed
          <5>1. Asked(e) \in DOMAIN device[e].credentials /\ e \in Devices
            BY <1>1, <1>3, <3>3, <4>1 DEF TopupsOK, HoldersOK
          <5> QED BY <1>1, <1>6, <3>1, <5>1
        <4>2. CASE <<e, Asked(e)>> \notin installed
          <5>1. <<e, Asked(e)>> = run /\ m.i \in DOMAIN device'[d].credentials
            BY <1>1, <1>6, <3>1, <3>3, <4>2
          <5> QED BY <1>0, <1>1, <3>1, <5>1
        <4> QED BY <4>1, <4>2
      <3>4. \A e \in Devices : \A i \in DOMAIN device'[e].credentials :
               e \in DOMAIN vehicle' /\ i \in Nat /\ i <= Asked(e)'
        <4> SUFFICES ASSUME NEW e \in Devices, NEW i \in DOMAIN device'[e].credentials
                     PROVE  e \in DOMAIN vehicle /\ i \in Nat /\ i <= Asked(e)
          BY <1>1, <1>3, <3>1 DEF TopupsOK
        <4>1. CASE i \in DOMAIN device[e].credentials
          BY <1>3, <4>1 DEF TopupsOK
        <4>2. CASE e = d /\ i = m.i
          BY <1>0, <1>1, <4>2
        <4> QED BY <1>6, <4>1, <4>2
      <3> QED BY <1>1, <1>3, <3>1, <3>2, <3>3, <3>4 DEF TopupsOK
    <2>3. FlowsOK'
      <3> SUFFICES ASSUME NEW n \in heap' PROVE FlowOK(n)'
        BY DEF FlowsOK
      <3>1. n \in heap /\ FlowOK(n)
        BY <1>3, <1>6 DEF FlowsOK
      <3>2. CASE n = m
        <4>1. UnderWay(run)'
          BY <1>6, <3>2
        <4> QED BY <1>0, <1>1, <3>2, <4>1 DEF FlowOK
      <3>3. CASE n # m
        <4>1. n.type \in {"ProvisioningRequest", "BatchDownloadRequest"} => UnderWay(n.run)'
          <5> SUFFICES ASSUME n.type \in {"ProvisioningRequest", "BatchDownloadRequest"}
                       PROVE  UnderWay(n.run)'
            OBVIOUS
          <5>1. UnderWay(n.run) /\ n.run[1] # d /\ n.run # run
            BY <1>0, <3>1, <3>3 DEF FlowOK
          <5>2. n.run[1] \in Devices
            BY <1>3, <5>1 DEF UnderWay, HoldersOK
          <5> QED BY <1>1, <1>6, <5>1, <5>2 DEF UnderWay, Asked
        <4> QED BY <1>1, <3>1, <4>1 DEF FlowOK, ChainsOf
      <3> QED BY <3>2, <3>3
    <2>4. ShuffleOK'
      <3>1. \A n \in (heap' \ heap) \union (heap \ heap') : n.type # "ShuffleTimer"
        BY <1>0, <1>6
      <3>2. Scheduled("ShuffleTimer")' <=> Scheduled("ShuffleTimer")
        BY <3>1, TimerKept
      <3> QED BY <1>1, <1>3, <3>2 DEF ShuffleOK
    <2>5. Forms' /\ OnlyFlows
      BY <1>0, <1>2, <1>6 DEF Forms, FormOK, OnlyFlows, ProvisioningTypes
    <2> QED BY <1>5, <2>1, <2>2, <2>3, <2>4, <2>5 DEF Provisioned, ProvisioningInv
  <1>7. CASE m.i \notin DOMAIN repos[d]
    <2>1. /\ device' = [device EXCEPT ![d].retries = @ + 1]
          /\ heap' = (heap \ {m}) \union (IF device[d].retries + 1 <= MaxPolls THEN {m} ELSE {})
          /\ installed' = installed
      BY <1>0, <1>7 DEF BatchDownload, Deliver
    <2>2. /\ DOMAIN device' = Devices
          /\ \A e \in Devices : e # d => device'[e] = device[e]
          /\ device'[d] = [device[d] EXCEPT !.retries = device[d].retries + 1]
      BY <1>0, <1>3, <2>1 DEF HoldersOK
    <2>3. /\ device'[d] \in [credentials : {device'[d].credentials}, retries : 0..MaxPolls + 1,
                             progress : [start : Nat, periods : Nat, downloaded : Nat]]
          /\ device'[d].credentials = device[d].credentials
          /\ device'[d].progress = device[d].progress
          /\ device'[d].retries = device[d].retries + 1
      BY <1>1, <2>2, Constants
    <2>4. CASE device[d].retries + 1 <= MaxPolls
      <3>1. heap' = heap
        BY <2>1, <2>4
      <3>2. UnderWay(run)'
        <4>1. UnderWay(run)
          BY <1>0
        <4> QED BY <1>0, <1>1, <2>1, <2>3, <2>4, <4>1 DEF UnderWay, Asked
      <3> QED BY <1>0, <1>3, <1>6, <2>1, <2>2, <2>3, <3>1, <3>2 DEF HoldersOK
    <2>5. CASE ~(device[d].retries + 1 <= MaxPolls)
      <3>1. heap' = heap \ {m}
        BY <2>1, <2>5
      <3> QED BY <1>0, <1>3, <1>6, <2>1, <2>2, <2>3, <3>1 DEF HoldersOK
    <2> QED BY <2>4, <2>5
  <1>8. CASE m.i \in DOMAIN repos[d]
    <2> DEFINE p == device[d].progress
    <2>0. p # None /\ p.downloaded + 1 >= p.periods /\ ~(p.downloaded + 1 < p.periods)
      BY <1>1
    <2>1. /\ device' = [device EXCEPT
                   ![d].credentials = With(@, m.i, repos[d][m.i]),
                   ![d].progress = IF p = None \/ p.downloaded + 1 >= p.periods
                                   THEN None
                                   ELSE [p EXCEPT !.downloaded = @ + 1]]
          /\ installed' = IF p # None /\ p.downloaded + 1 >= p.periods
                          THEN installed \union {run} ELSE installed
          /\ heap' = (heap \ {m}) \union
                     (IF p # None /\ p.downloaded + 1 < p.periods
                      THEN {[m EXCEPT !.i = p.start + p.downloaded + 1]} ELSE {})
      BY <1>0, <1>8 DEF BatchDownload, Deliver
    <2>2. installed' = installed \union {run} /\ heap' = heap \ {m}
      BY <2>0, <2>1
    <2>3. /\ DOMAIN device' = Devices
          /\ \A e \in Devices : e # d => device'[e] = device[e]
          /\ device'[d] = [device[d] EXCEPT !.credentials = With(@, m.i, repos[d][m.i]),
                                            !.progress = None]
      <3>1. DOMAIN device = Devices
        BY <1>3 DEF HoldersOK
      <3>2. (IF p = None \/ p.downloaded + 1 >= p.periods
             THEN None ELSE [p EXCEPT !.downloaded = @ + 1]) = None
        BY <2>0
      <3> DEFINE q == IF p = None \/ p.downloaded + 1 >= p.periods
                      THEN None ELSE [p EXCEPT !.downloaded = @ + 1]
                 v == With(device[d].credentials, m.i, repos[d][m.i])
      <3>3. device' = [device EXCEPT ![d].credentials = v, ![d].progress = q]
        BY <2>1
      <3>4. q = None
        BY <3>2
      <3> HIDE DEF q, v
      <3>5. device'[d] = [device[d] EXCEPT !.credentials = v, !.progress = q]
        BY <1>0, <3>1, <3>3
      <3> QED BY <1>0, <3>1, <3>3, <3>4, <3>5 DEF v
    <2>4. /\ device'[d].credentials = With(device[d].credentials, m.i, repos[d][m.i])
          /\ device'[d].retries = device[d].retries /\ device'[d].progress = None
          /\ device'[d] \in [credentials : {device'[d].credentials}, retries : 0..MaxPolls + 1,
                             progress : [start : Nat, periods : Nat, downloaded : Nat]]
      <3>1. None \in [start : Nat, periods : Nat, downloaded : Nat]
        BY DEF None
      <3> DEFINE v == With(device[d].credentials, m.i, repos[d][m.i])
      <3>2. device'[d] = [device[d] EXCEPT !.credentials = v, !.progress = None]
        BY <2>3
      <3> HIDE DEF v
      <3>3. /\ device'[d].credentials = v /\ device'[d].retries = device[d].retries
            /\ device'[d].progress = None
        BY <1>1, <3>2
      <3>4. device'[d] \in [credentials : {v}, retries : 0..MaxPolls + 1,
                            progress : [start : Nat, periods : Nat, downloaded : Nat]]
        BY <1>1, <3>1, <3>2
      <3> QED BY <3>3, <3>4 DEF v
    <2>5. /\ DOMAIN device'[d].credentials = DOMAIN device[d].credentials \union {m.i}
          /\ \A i \in DOMAIN device'[d].credentials : Owned(d, device'[d].credentials[i])
      <3>1. Owned(d, repos[d][m.i]) /\ \A i \in DOMAIN device[d].credentials :
                                          Owned(d, device[d].credentials[i])
        BY <1>0, <1>3, <1>8 DEF HoldersOK
      <3> QED BY <2>4, <3>1 DEF With
    <2> QED BY <1>6, <2>2, <2>3, <2>4, <2>5
  <1> QED BY <1>7, <1>8

\* One delivery of the provisioning flows keeps the invariant.
LEMMA ProvisioningStep ==
    ASSUME IInv, NEW m \in heap, Provisioning(m)
    PROVE  Provisioned
  BY RaRequestStep, PreLinkageStep, ShuffleTimerStep, CertifyStep, BatchDownloadStep
     DEF Provisioning

------------------------------------------------------------------------------
(***************************************************************************)
(* The engine's calls: a vehicle is provisioned, and top-ups are asked for.*)
(***************************************************************************)

LEMMA ProvisionStep ==
    ASSUME IInv, NEW d \in Devices, Provision(d)
    PROVE  Provisioned
  <1>1. ProvisioningInv /\ Forms
    BY DEF IInv, Forms
  <1>2. /\ ChainsOK /\ JobsOK /\ IssuedOK /\ HoldersOK /\ TopupsOK /\ FlowsOK /\ ShuffleOK
    BY <1>1 DEF ProvisioningInv
  <1>3. PICK run, lci : run = <<d, 0>> /\ lci = NextChains
    OBVIOUS
  <1> DEFINE batch == [i \in PeriodsOf(run, Pool) |-> [lci |-> lci, i |-> i]]
             job == [periods |-> Pool, responses |-> 2, sent |-> FALSE, certified |-> 0]
             left == [Started(device[d], 0, Pool) EXCEPT !.retries = MaxPolls + 1]
  <1>4. /\ d \notin DOMAIN vehicle
        /\ owner' = [x \in Authorities |-> Append(owner[x], d)]
        /\ requests' = With(requests, run, lci)
        /\ UNCHANGED <<heap, shuffle_armed, blocklist>>
        /\ \/ /\ ~shuffle_armed /\ jobs' = jobs
              /\ issued' = Merge(issued, [c \in Range(batch) |-> run])
              /\ repos' = [repos EXCEPT ![d] = batch]
              /\ device' = [device EXCEPT ![d].credentials = batch]
              /\ vehicle' = With(vehicle, d, NewVehicle(batch))
              /\ installed' = installed \union {run}
           \/ /\ shuffle_armed
              /\ jobs' = With(jobs, run, job)
              /\ device' = [device EXCEPT ![d] = left]
              /\ vehicle' = With(vehicle, d, NewVehicle(<<>>))
              /\ UNCHANGED <<issued, repos, installed>>
    BY <1>3 DEF Provision
  <1>5. /\ run \in Runs /\ run \notin DOMAIN requests /\ run[1] = d /\ run[2] = 0
        /\ DOMAIN device[d].credentials = {}
    BY <1>2, <1>3, <1>4, Constants DEF TopupsOK, Runs, Periods
  <1>6. \A x \in Authorities :
           /\ owner'[x] \in Seq(Devices) /\ Len(owner'[x]) = Len(owner[x]) + 1
           /\ DOMAIN owner'[x] = 1..Len(owner[x]) + 1 /\ lci[x] = Len(owner[x]) + 1
           /\ lci[x] \in Nat /\ lci[x] # 0 /\ owner'[x][lci[x]] = d
           /\ \A k \in DOMAIN owner[x] : k \in DOMAIN owner'[x] /\ owner'[x][k] = owner[x][k]
    <2> SUFFICES ASSUME NEW x \in Authorities
                 PROVE  /\ owner'[x] \in Seq(Devices) /\ Len(owner'[x]) = Len(owner[x]) + 1
                        /\ DOMAIN owner'[x] = 1..Len(owner[x]) + 1
                        /\ lci[x] = Len(owner[x]) + 1
                        /\ lci[x] \in Nat /\ lci[x] # 0 /\ owner'[x][lci[x]] = d
                        /\ \A k \in DOMAIN owner[x] :
                              k \in DOMAIN owner'[x] /\ owner'[x][k] = owner[x][k]
      OBVIOUS
    <2>1. owner[x] \in Seq(Devices) /\ Len(owner[x]) \in Nat /\ DOMAIN owner[x] = 1..Len(owner[x])
      BY <1>2, ChainBound DEF ChainsOK
    <2>2. /\ Append(owner[x], d) \in Seq(Devices) /\ Len(Append(owner[x], d)) = Len(owner[x]) + 1
          /\ \A k \in 1..Len(owner[x]) : Append(owner[x], d)[k] = owner[x][k]
          /\ Append(owner[x], d)[Len(owner[x]) + 1] = d
      BY <2>1, AppendProperties
    <2>3. DOMAIN Append(owner[x], d) = 1..Len(owner[x]) + 1
      BY <2>2, LenProperties
    <2>4. lci[x] = Len(owner[x]) + 1 /\ owner'[x] = Append(owner[x], d)
      BY <1>3, <1>4 DEF NextChains
    <2> QED BY <2>1, <2>2, <2>3, <2>4
  <1>7. /\ DOMAIN requests' = DOMAIN requests \union {run} /\ requests'[run] = lci
        /\ \A r \in DOMAIN requests : requests'[r] = requests[r]
    BY <1>4, <1>5 DEF With
  <1>8. lci \in [Authorities -> Nat]
    BY <1>3, <1>6 DEF NextChains
  <1>9. ChainsOK'
    <2>1. ASSUME NEW x \in Authorities PROVE Len(owner'[x]) = Cardinality(Answered(x)')
      <3>1. Answered(x)' = Answered(x) \union {run}
        BY <1>6, <1>7 DEF Answered
      <3>2. run \notin Answered(x)
        BY <1>5 DEF Answered
      <3>3. IsFiniteSet(Answered(x))
        BY <1>2, ChainBound
      <3>4. Cardinality(Answered(x)') = Cardinality(Answered(x)) + 1
        BY <3>1, <3>2, <3>3, FS_AddElement
      <3> QED BY <1>2, <1>6, <3>4 DEF ChainsOK
    <2>2. ASSUME NEW r \in DOMAIN requests'
          PROVE  /\ requests'[r] \in [Authorities -> Nat]
                 /\ \A x \in Authorities : requests'[r][x] # 0 =>
                      requests'[r][x] \in DOMAIN owner'[x] /\ owner'[x][requests'[r][x]] = r[1]
      <3>1. CASE r = run
        <4>1. \A x \in Authorities : lci[x] \in DOMAIN owner'[x] /\ owner'[x][lci[x]] = run[1]
          BY <1>2, <1>5, <1>6, ChainBound
        <4> QED BY <1>7, <1>8, <3>1, <4>1
      <3>2. CASE r # run
        BY <1>2, <1>6, <1>7, <2>2, <3>2 DEF ChainsOK
      <3> QED BY <3>1, <3>2
    <2>3. owner' \in [Authorities -> Seq(Devices)]
      BY <1>4, <1>6
    <2> QED BY <1>2, <1>5, <1>7, <2>1, <2>2, <2>3 DEF ChainsOK
  <1>10. lci \in Chains /\ ChainsOf(d, lci)'
    <2>1. ASSUME NEW x \in Authorities
          PROVE  lci[x] \in 0..Cardinality(Runs) /\ lci[x] \in DOMAIN owner'[x]
      <3>1. Answered(x)' \in SUBSET Runs
        BY <1>9 DEF ChainsOK, Answered
      <3>2. Cardinality(Answered(x)') <= Cardinality(Runs)
        BY <3>1, Constants, FS_Subset
      <3>3. lci[x] = Cardinality(Answered(x)')
        BY <1>6, <1>9 DEF ChainsOK
      <3> QED BY <1>2, <1>6, <3>2, <3>3, Constants, ChainBound
    <2> QED BY <1>6, <1>8, <2>1 DEF Chains, ChainsOf
  <1>11. \A e, l : ChainsOf(e, l) => ChainsOf(e, l)'
    BY <1>6 DEF ChainsOf
  <1>12. OnlyFlows /\ Forms'
    BY <1>1, <1>4 DEF OnlyFlows, Forms, FormOK
  <1>13. Scheduled("ShuffleTimer")' <=> Scheduled("ShuffleTimer")
    BY <1>4 DEF Scheduled
  <1>14. ASSUME NEW C,
                \A c \in C : c \in Certificates /\ c.lci = lci,
                DOMAIN issued' = DOMAIN issued \union C,
                \A c \in C : issued'[c] = run,
                \A c \in DOMAIN issued \ C : issued'[c] = issued[c],
                DOMAIN repos' = Devices, DOMAIN device' = Devices,
                \A e \in Devices : e # d => repos'[e] = repos[e] /\ device'[e] = device[e],
                \A i \in DOMAIN repos'[d] :
                   repos'[d][i] \in C \/ (i \in DOMAIN repos[d] /\ repos'[d][i] = repos[d][i]),
                device'[d] \in [credentials : {device'[d].credentials}, retries : 0..MaxPolls + 1,
                                progress : [start : Nat, periods : Nat, downloaded : Nat]],
                \A i \in DOMAIN device'[d].credentials :
                   i \in 0..Pool - 1 /\ device'[d].credentials[i] \in C,
                DOMAIN vehicle' = DOMAIN vehicle \union {d},
                \A e \in DOMAIN vehicle : vehicle'[e] = vehicle[e],
                vehicle'[d] \in [topup : {FALSE}, last : {Pool - 1}, creds : {vehicle'[d].creds},
                                 self_revoked : {FALSE}],
                \A i \in DOMAIN vehicle'[d].creds : vehicle'[d].creds[i] \in C,
                installed' \subseteq installed \union {run}, installed \subseteq installed',
                JobsOK', ShuffleOK'
         PROVE  Provisioned
    <2>0. /\ vehicle'[d] \in [topup : BOOLEAN, last : Nat, creds : {vehicle'[d].creds},
                              self_revoked : BOOLEAN]
          /\ vehicle'[d].topup = FALSE /\ vehicle'[d].last = Pool - 1
      <3>1. Pool - 1 \in Nat
        BY Constants
      <3> QED BY <1>14, <3>1
    <2>1. Grows
      BY <1>6, <1>7, <1>14 DEF Grows
    <2>2. \A e, c : Owned(e, c) => Owned(e, c)'
      BY <1>11, <1>14 DEF Owned
    <2>3. \A c \in C : Owned(d, c)'
      BY <1>10, <1>14 DEF Owned
    <2>4. IssuedOK'
      <3>1. DOMAIN issued' \subseteq Certificates
        BY <1>2, <1>14 DEF IssuedOK
      <3>2. ASSUME NEW c \in DOMAIN issued'
            PROVE  /\ issued'[c] \in DOMAIN requests' /\ requests'[issued'[c]] = c.lci
                   /\ ChainsOf(issued[c][1], c.lci)'
        <4>1. CASE c \in C
          BY <1>5, <1>7, <1>10, <1>14, <4>1 DEF ChainsOf
        <4>2. CASE c \notin C
          <5>1. c \in DOMAIN issued /\ issued'[c] = issued[c]
            BY <1>14, <3>2, <4>2
          <5>2. /\ issued[c] \in DOMAIN requests /\ requests[issued[c]] = c.lci
                /\ ChainsOf(issued[c][1], c.lci)
            BY <1>2, <5>1 DEF IssuedOK
          <5>3. ChainsOf(issued[c][1], c.lci)'
            BY <1>6, <5>1, <5>2 DEF ChainsOf
          <5> QED BY <1>7, <5>1, <5>2, <5>3
        <4> QED BY <4>1, <4>2
      <3> QED BY <3>1, <3>2 DEF IssuedOK
    <2>5. HoldersOK'
      <3>1. ASSUME NEW e \in Devices
            PROVE  /\ \A i \in DOMAIN repos'[e] : Owned(e, repos[e][i])'
                   /\ \A i \in DOMAIN device'[e].credentials : Owned(e, device[e].credentials[i])'
                   /\ device'[e] \in [credentials : {device'[e].credentials},
                                      retries : 0..MaxPolls + 1,
                                      progress : [start : Nat, periods : Nat, downloaded : Nat]]
        <4>1. CASE e # d
          BY <1>2, <1>14, <2>2, <4>1 DEF HoldersOK
        <4>2. CASE e = d
          BY <1>2, <1>14, <2>2, <2>3, <4>2 DEF HoldersOK
        <4> QED BY <4>1, <4>2
      <3>2. ASSUME NEW e \in DOMAIN vehicle'
            PROVE  /\ vehicle'[e] \in [topup : BOOLEAN, last : Nat, creds : {vehicle'[e].creds},
                                      self_revoked : BOOLEAN]
                   /\ \A i \in DOMAIN vehicle'[e].creds : Owned(e, vehicle[e].creds[i])'
        <4>1. CASE e # d
          BY <1>2, <1>14, <2>2, <3>2, <4>1 DEF HoldersOK
        <4>2. CASE e = d
          <5>1. \A i \in DOMAIN vehicle'[d].creds : Owned(d, vehicle[d].creds[i])'
            BY <1>14, <2>3
          <5> QED BY <2>0, <4>2, <5>1
        <4> QED BY <4>1, <4>2
      <3> QED BY <1>2, <1>4, <1>5, <1>7, <1>14, <3>1, <3>2 DEF HoldersOK
    <2>6. (\A e \in DOMAIN vehicle : Asked(e)' = Asked(e)) /\ Asked(d)' = Pool - 1
      BY <1>14 DEF Asked
    <2>7. TopupsOK'
      <3>1. ASSUME NEW r \in DOMAIN requests'
            PROVE  r[1] \in DOMAIN vehicle' /\ r[2] <= Asked(r[1])'
        <4>1. CASE r = run
          BY <1>5, <1>14, <2>6, <4>1, Constants
        <4>2. CASE r # run
          BY <1>2, <1>7, <1>14, <2>6, <3>1, <4>2 DEF TopupsOK, Asked
        <4> QED BY <4>1, <4>2
      <3>2. ASSUME NEW e \in DOMAIN vehicle'
            PROVE  /\ vehicle'[e].last >= Pool - 1 /\ Asked(e)' <= MaxPeriod
                   /\ vehicle'[e].topup /\ <<e, Asked(e)'>> \in installed' =>
                         Asked(e)' \in DOMAIN device'[e].credentials
        <4>1. CASE e = d
          BY <2>0, <2>6, <4>1, Constants
        <4>2. CASE e # d
          <5>1. <<e, Asked(e)>> # run /\ e \in DOMAIN vehicle /\ e \in Devices
            BY <1>2, <1>3, <1>14, <3>2, <4>2 DEF HoldersOK
          <5> QED BY <1>2, <1>14, <2>6, <4>2, <5>1 DEF TopupsOK
        <4> QED BY <4>1, <4>2
      <3>3. ASSUME NEW e \in Devices, NEW i \in DOMAIN device'[e].credentials
            PROVE  e \in DOMAIN vehicle' /\ i \in Nat /\ i <= Asked(e)'
        <4>1. CASE e = d
          BY <1>14, <2>6, <3>3, <4>1, Constants
        <4>2. CASE e # d
          BY <1>2, <1>14, <2>6, <3>3, <4>2 DEF TopupsOK
        <4> QED BY <4>1, <4>2
      <3> QED BY <3>1, <3>2, <3>3 DEF TopupsOK
    <2>8. FlowsOK'
      <3> SUFFICES ASSUME NEW n \in heap PROVE FlowOK(n)'
        BY <1>4 DEF FlowsOK
      <3>1. FlowOK(n)
        BY <1>2 DEF FlowsOK
      <3>2. ASSUME NEW r, UnderWay(r) PROVE UnderWay(r)' /\ r # run
        <4>1. r[1] # d /\ r[1] \in Devices /\ r # run /\ r[1] \in DOMAIN vehicle
          BY <1>2, <1>3, <1>4, <1>5, <3>2 DEF UnderWay, HoldersOK
        <4> QED BY <1>14, <2>6, <3>2, <4>1 DEF UnderWay
      <3>3. n.type = "CertRequest" => ChainsOf(n.run[1], n.cert.lci)'
        BY <1>11, <3>1 DEF FlowOK
      <3> QED BY <1>5, <1>7, <3>1, <3>2, <3>3 DEF FlowOK
    <2> QED BY <1>9, <1>12, <1>14, <2>1, <2>4, <2>5, <2>7, <2>8 DEF Provisioned, ProvisioningInv
  <1>15. CASE ~shuffle_armed
    <2>1. /\ jobs' = jobs
          /\ issued' = Merge(issued, [c \in Range(batch) |-> run])
          /\ repos' = [repos EXCEPT ![d] = batch]
          /\ device' = [device EXCEPT ![d].credentials = batch]
          /\ vehicle' = With(vehicle, d, NewVehicle(batch))
          /\ installed' = installed \union {run}
      BY <1>4, <1>15
    <2>2. \A i \in DOMAIN batch : i \in 0..Pool - 1 /\ batch[i] \in Range(batch)
      BY <1>5, Constants DEF PeriodsOf, Range
    <2>3. \A c \in Range(batch) : c \in Certificates /\ c.lci = lci
      <3> SUFFICES ASSUME NEW i \in PeriodsOf(run, Pool)
                   PROVE  batch[i] \in Certificates /\ batch[i].lci = lci
        BY DEF Range
      <3>1. i \in Periods
        BY <1>5, Constants DEF PeriodsOf, Periods
      <3> QED BY <1>10, <3>1 DEF Certificates
    <2> HIDE DEF batch
    <2>4. /\ DOMAIN issued' = DOMAIN issued \union Range(batch)
          /\ \A c \in Range(batch) : issued'[c] = run
          /\ \A c \in DOMAIN issued \ Range(batch) : issued'[c] = issued[c]
      BY <2>1 DEF Merge
    <2>5. /\ DOMAIN repos' = Devices /\ repos'[d] = batch
          /\ DOMAIN device' = Devices /\ device'[d] = [device[d] EXCEPT !.credentials = batch]
          /\ \A e \in Devices : e # d => repos'[e] = repos[e] /\ device'[e] = device[e]
      BY <1>2, <2>1 DEF HoldersOK
    <2>6. /\ device'[d] \in [credentials : {device'[d].credentials}, retries : 0..MaxPolls + 1,
                             progress : [start : Nat, periods : Nat, downloaded : Nat]]
          /\ device'[d].credentials = batch
      BY <1>2, <2>5 DEF HoldersOK
    <2>7. /\ DOMAIN vehicle' = DOMAIN vehicle \union {d} /\ vehicle'[d] = NewVehicle(batch)
          /\ \A e \in DOMAIN vehicle : vehicle'[e] = vehicle[e]
      BY <1>4, <2>1 DEF With
    <2>8. /\ vehicle'[d].creds = batch
          /\ vehicle'[d] \in [topup : {FALSE}, last : {Pool - 1}, creds : {vehicle'[d].creds},
                             self_revoked : {FALSE}]
      BY <2>7 DEF NewVehicle
    <2>9. JobsOK'
      BY <1>2, <1>7, <2>1 DEF JobsOK
    <2>10. ShuffleOK'
      BY <1>2, <1>4, <1>13, <2>1 DEF ShuffleOK
    <2> QED BY <1>14, <2>1, <2>2, <2>3, <2>4, <2>5, <2>6, <2>7, <2>8, <2>9, <2>10
  <1>16. CASE shuffle_armed
    <2>1. /\ jobs' = With(jobs, run, job)
          /\ device' = [device EXCEPT ![d] = left]
          /\ vehicle' = With(vehicle, d, NewVehicle(<<>>))
          /\ UNCHANGED <<issued, repos, installed>>
      BY <1>4, <1>16
    <2>2. /\ DOMAIN device' = Devices /\ device'[d] = left
          /\ \A e \in Devices : e # d => device'[e] = device[e]
      BY <1>2, <2>1 DEF HoldersOK
    <2>3. /\ device[d] \in [credentials : {device[d].credentials}, retries : 0..MaxPolls + 1,
                            progress : [start : Nat, periods : Nat, downloaded : Nat]]
      BY <1>2 DEF HoldersOK
    <2>4. /\ left \in [credentials : {left.credentials}, retries : 0..MaxPolls + 1,
                       progress : [start : Nat, periods : Nat, downloaded : Nat]]
          /\ left.credentials = device[d].credentials
      <3>1. Started(device[d], 0, Pool) \in
               [credentials : {device[d].credentials}, retries : {0},
                progress : {[start |-> 0, periods |-> Pool, downloaded |-> 0]}]
        BY <2>3 DEF Started
      <3>2. [start |-> 0, periods |-> Pool, downloaded |-> 0] \in
               [start : Nat, periods : Nat, downloaded : Nat]
        BY Constants
      <3>3. MaxPolls + 1 \in 0..MaxPolls + 1
        BY Constants
      <3> QED BY <3>1, <3>2, <3>3
    <2>5. /\ DOMAIN vehicle' = DOMAIN vehicle \union {d} /\ vehicle'[d] = NewVehicle(<<>>)
          /\ \A e \in DOMAIN vehicle : vehicle'[e] = vehicle[e]
      BY <1>4, <2>1 DEF With
    <2>6. /\ DOMAIN vehicle'[d].creds = {}
          /\ vehicle'[d] \in [topup : {FALSE}, last : {Pool - 1}, creds : {vehicle'[d].creds},
                             self_revoked : {FALSE}]
      BY <2>5 DEF NewVehicle
    <2>7. /\ DOMAIN jobs' = DOMAIN jobs \union {run} /\ jobs'[run] = job
          /\ \A r \in DOMAIN jobs : r # run => jobs'[r] = jobs[r]
      BY <2>1 DEF With
    <2>8. JobsOK'
      <3>1. Answers(lci) = 2
        BY <1>6, Constants DEF Answers
      <3>2. /\ job \in [periods : 1..Pool, responses : 0..2, sent : BOOLEAN, certified : 0..Pool]
            /\ job.responses = 2 /\ job.periods = Pool
        BY Constants
      <3> HIDE DEF job
      <3> QED BY <1>2, <1>5, <1>7, <2>7, <3>1, <3>2, Constants DEF JobsOK
    <2>9. ShuffleOK'
      BY <1>2, <1>4, <1>13, <1>16 DEF ShuffleOK
    <2> HIDE DEF left
    <2> DEFINE C == {}
    <2>10. /\ \A c \in C : c \in Certificates /\ c.lci = lci /\ issued'[c] = run
           /\ DOMAIN issued' = DOMAIN issued \union C
           /\ \A c \in DOMAIN issued \ C : issued'[c] = issued[c]
           /\ \A i \in DOMAIN device'[d].credentials :
                 i \in 0..Pool - 1 /\ device'[d].credentials[i] \in C
           /\ \A i \in DOMAIN vehicle'[d].creds : vehicle'[d].creds[i] \in C
      BY <1>5, <2>1, <2>2, <2>4, <2>6
    <2>11. /\ DOMAIN repos' = Devices /\ \A e \in Devices : repos'[e] = repos[e]
           /\ installed' = installed
      BY <1>2, <2>1 DEF HoldersOK
    <2> HIDE DEF C
    <2> QED BY <1>14, <2>2, <2>4, <2>5, <2>6, <2>8, <2>9, <2>10, <2>11
  <1> QED BY <1>15, <1>16

\* A top-up that was installed brought exactly the next period.
LEMMA TakenOverFacts ==
    ASSUME IInv, NEW d \in DOMAIN vehicle
    PROVE  /\ TakenOver(d) \in [topup : BOOLEAN, last : Nat, creds : {TakenOver(d).creds},
                                self_revoked : BOOLEAN]
           /\ \A i \in DOMAIN TakenOver(d).creds : Owned(d, TakenOver(d).creds[i])
           /\ TakenOver(d).last >= Pool - 1 /\ TakenOver(d).last <= Asked(d)
           /\ \/ TakenOver(d) = vehicle[d]
              \/ /\ vehicle[d].topup /\ <<d, Asked(d)>> \in installed
                 /\ ~TakenOver(d).topup /\ TakenOver(d).last = Asked(d)
  <1>1. /\ HoldersOK /\ TopupsOK
    BY DEF IInv, ProvisioningInv
  <1>2. /\ d \in Devices
        /\ vehicle[d] \in [topup : BOOLEAN, last : Nat, creds : {vehicle[d].creds},
                           self_revoked : BOOLEAN]
        /\ \A i \in DOMAIN vehicle[d].creds : Owned(d, vehicle[d].creds[i])
        /\ \A i \in DOMAIN device[d].credentials : Owned(d, device[d].credentials[i])
        /\ \A i \in DOMAIN device[d].credentials : i \in Nat /\ i <= Asked(d)
        /\ vehicle[d].last >= Pool - 1
    BY <1>1 DEF HoldersOK, TopupsOK
  <1>3. CASE ~(d \notin retired /\ vehicle[d].topup /\ <<d, vehicle[d].last + 1>> \in installed)
    <2>1. TakenOver(d) = vehicle[d]
      BY <1>3 DEF TakenOver
    <2>2. vehicle[d].last <= Asked(d)
      BY <1>2 DEF Asked
    <2> QED BY <1>2, <2>1, <2>2
  <1>4. CASE d \notin retired /\ vehicle[d].topup /\ <<d, vehicle[d].last + 1>> \in installed
    <2> DEFINE L == vehicle[d].last + 1
               new == CHOOSE i \in DOMAIN Fresh(d) : \A j \in DOMAIN Fresh(d) : j <= i
               all == Merge(vehicle[d].creds, Fresh(d))
    <2>1. Asked(d) = L /\ L \in Nat
      BY <1>2, <1>4 DEF Asked
    <2>2. L \in DOMAIN device[d].credentials
      BY <1>1, <1>4, <2>1 DEF TopupsOK
    <2>3. DOMAIN Fresh(d) = {L}
      BY <1>2, <2>1, <2>2 DEF Fresh, Restrict
    <2>4. Fresh(d) # <<>>
      BY <2>3
    <2>5. \A i \in DOMAIN Fresh(d) : Owned(d, Fresh(d)[i])
      BY <1>2 DEF Fresh, Restrict
    <2>6. new = L
      BY <2>1, <2>3
    <2> HIDE DEF new, all, L
    <2>7. TakenOver(d) = [vehicle[d] EXCEPT !.topup = FALSE, !.last = new, !.creds = all]
      BY <1>4, <2>4 DEF TakenOver, new, all
    <2>8. /\ TakenOver(d) \in [topup : BOOLEAN, last : Nat, creds : {all}, self_revoked : BOOLEAN]
          /\ ~TakenOver(d).topup /\ TakenOver(d).last = L /\ TakenOver(d).creds = all
      BY <1>2, <2>1, <2>6, <2>7
    <2>9. \A i \in DOMAIN all : Owned(d, all[i])
      BY <1>2, <2>5 DEF all, Merge
    <2>10. L >= Pool - 1
      BY <1>2, <2>1, Constants DEF L
    <2> QED BY <1>4, <2>1, <2>8, <2>9, <2>10 DEF L
  <1> QED BY <1>3, <1>4

LEMMA TopupsStep ==
    ASSUME IInv, NEW S \in TopupsDue, StartTopups(S),
           UNCHANGED <<requests, jobs, shuffle_armed, repos, owner, issued, installed, blocklist>>
    PROVE  Provisioned
  <1>1. ProvisioningInv /\ Forms
    BY DEF IInv, Forms
  <1>2. /\ ChainsOK /\ JobsOK /\ IssuedOK /\ HoldersOK /\ TopupsOK /\ FlowsOK /\ ShuffleOK
    BY <1>1 DEF ProvisioningInv
  <1>0. PICK N : N = [d \in DOMAIN vehicle |-> TakenOver(d)]
    OBVIOUS
  <1> DEFINE next(d) == N[d].last + 1
             ask(d) == [type |-> "ProvisioningRequest", run |-> <<d, next(d)>>]
             progress(d) == [start |-> next(d), periods |-> 1, downloaded |-> 0]
  <1>3. /\ S \subseteq DOMAIN vehicle /\ DOMAIN vehicle \subseteq Devices
        /\ \A d \in S : ~N[d].topup /\ N[d].last < MaxPeriod
    BY <1>0, <1>2 DEF TopupsDue, HoldersOK
  <1>4. \A d \in DOMAIN vehicle :
           /\ N[d] \in [topup : BOOLEAN, last : Nat, creds : {N[d].creds},
                                self_revoked : BOOLEAN]
           /\ N[d].last \in Nat /\ N[d].topup \in BOOLEAN /\ Asked(d) \in Nat
           /\ \A i \in DOMAIN N[d].creds : Owned(d, N[d].creds[i])
           /\ N[d].last >= Pool - 1 /\ N[d].last <= Asked(d)
           /\ \/ N[d] = vehicle[d]
              \/ /\ vehicle[d].topup /\ <<d, Asked(d)>> \in installed
                 /\ ~N[d].topup /\ N[d].last = Asked(d)
    <2> SUFFICES ASSUME NEW d \in DOMAIN vehicle
                 PROVE  /\ TakenOver(d) \in [topup : BOOLEAN, last : Nat, creds : {TakenOver(d).creds},
                                             self_revoked : BOOLEAN]
                        /\ TakenOver(d).last \in Nat /\ TakenOver(d).topup \in BOOLEAN
                        /\ Asked(d) \in Nat
                        /\ \A i \in DOMAIN TakenOver(d).creds : Owned(d, TakenOver(d).creds[i])
                        /\ TakenOver(d).last >= Pool - 1 /\ TakenOver(d).last <= Asked(d)
                        /\ \/ TakenOver(d) = vehicle[d]
                           \/ /\ vehicle[d].topup /\ <<d, Asked(d)>> \in installed
                              /\ ~TakenOver(d).topup /\ TakenOver(d).last = Asked(d)
      BY <1>0
    <2>1. Asked(d) \in Nat
      BY <1>2 DEF HoldersOK, Asked
    <2>2. TakenOver(d).last \in Nat /\ TakenOver(d).topup \in BOOLEAN
      BY TakenOverFacts
    <2> QED BY <2>1, <2>2, TakenOverFacts
  <1>a. \A d \in DOMAIN vehicle : N[d].last \in Nat /\ Asked(d) \in Nat /\ Asked(d) <= MaxPeriod
    BY <1>2, <1>4 DEF TopupsOK
  <1>5. /\ vehicle' = [d \in DOMAIN vehicle |->
                          IF d \in S THEN [N[d] EXCEPT !.topup = TRUE] ELSE N[d]]
        /\ device' = [d \in Devices |-> IF d \in S THEN Started(device[d], next(d), 1)
                                        ELSE device[d]]
        /\ heap' = heap \union {ask(d) : d \in S}
    BY <1>0, <1>3 DEF StartTopups
  <1>6. \A d \in DOMAIN vehicle : d \notin S => vehicle'[d] = N[d]
    BY <1>5
  <1>7. \A d \in S : /\ vehicle'[d] = [N[d] EXCEPT !.topup = TRUE]
                     /\ vehicle'[d] \in [topup : {TRUE}, last : {N[d].last},
                                        creds : {N[d].creds}, self_revoked : BOOLEAN]
    BY <1>3, <1>4, <1>5
  <1>8. DOMAIN vehicle' = DOMAIN vehicle /\ DOMAIN device' = Devices
    BY <1>5
  <1>9. \A d \in Devices :
           device[d] \in [credentials : {device[d].credentials}, retries : 0..MaxPolls + 1,
                          progress : [start : Nat, periods : Nat, downloaded : Nat]]
    BY <1>2 DEF HoldersOK
  <1>10. \A d \in Devices \ S : device'[d] = device[d]
    BY <1>5
  <1>11. ASSUME NEW d \in S
         PROVE  /\ device'[d] \in [credentials : {device[d].credentials}, retries : {0},
                                   progress : {progress(d)}]
                /\ next(d) \in Nat
    <2>1. d \in Devices /\ next(d) \in Nat /\ d \in DOMAIN vehicle
      BY <1>3, <1>a
    <2>2. device'[d] = Started(device[d], next(d), 1)
      BY <1>5, <2>1
    <2>3. device[d] \in [credentials : {device[d].credentials}, retries : 0..MaxPolls + 1,
                         progress : [start : Nat, periods : Nat, downloaded : Nat]]
      BY <1>9, <2>1
    <2> HIDE DEF next
    <2>4. Started(device[d], next(d), 1) =
             [device[d] EXCEPT !.retries = 0, !.progress = progress(d)]
      BY DEF Started
    <2> HIDE DEF progress
    <2> QED BY <2>1, <2>2, <2>3, <2>4
  <1>12. \A d \in DOMAIN vehicle :
            /\ d \in S => Asked(d)' = next(d) /\ Asked(d) <= N[d].last
            /\ d \notin S => Asked(d)' = Asked(d)
            /\ Asked(d) <= Asked(d)' /\ Asked(d)' <= MaxPeriod
            /\ vehicle'[d].last = N[d].last
    <2> SUFFICES ASSUME NEW d \in DOMAIN vehicle
                 PROVE  /\ d \in S => Asked(d)' = next(d) /\ Asked(d) <= N[d].last
                        /\ d \notin S => Asked(d)' = Asked(d)
                        /\ Asked(d) <= Asked(d)' /\ Asked(d)' <= MaxPeriod
                        /\ vehicle'[d].last = N[d].last
      OBVIOUS
    <2>1. N[d].last \in Nat /\ vehicle[d].last \in Nat /\ N[d].topup \in BOOLEAN
      BY <1>2, <1>4 DEF HoldersOK
    <2>2. Asked(d) \in Nat /\ Asked(d) <= MaxPeriod
      BY <1>a
    <2>3. CASE d \in S
      <3>1. vehicle'[d].topup = TRUE /\ vehicle'[d].last = N[d].last
        BY <1>7, <2>3
      <3>2. Asked(d) <= N[d].last /\ N[d].last < MaxPeriod
        BY <1>3, <1>4, <2>1, <2>2, <2>3 DEF Asked
      <3>3. Asked(d)' = N[d].last + 1
        BY <3>1 DEF Asked
      <3>4. vehicle'[d].last = N[d].last /\ MaxPeriod \in Nat
        BY <3>1, Constants
      <3>5. N[d].last \in Nat
        BY <1>a
      <3> QED BY <2>2, <2>3, <3>2, <3>3, <3>4, <3>5
    <2>4. CASE d \notin S
      <3>1. vehicle'[d] = N[d]
        BY <1>6, <2>4
      <3>2. Asked(d)' = Asked(d)
        BY <1>4, <2>1, <3>1 DEF Asked
      <3> QED BY <2>1, <2>2, <2>4, <3>1, <3>2
    <2> QED BY <2>3, <2>4
  <1>13. /\ \A e, l : ChainsOf(e, l)' <=> ChainsOf(e, l)
         /\ \A e, c : Owned(e, c)' <=> Owned(e, c)
    BY DEF ChainsOf, Owned
  <1>14. ChainsOK' /\ JobsOK' /\ IssuedOK' /\ Grows
    BY <1>2 DEF ChainsOK, JobsOK, IssuedOK, Answered, ChainsOf, Grows
  <1>15. HoldersOK'
    <2>1. ASSUME NEW d \in Devices
          PROVE  /\ \A i \in DOMAIN repos'[d] : Owned(d, repos[d][i])'
                 /\ \A i \in DOMAIN device'[d].credentials : Owned(d, device[d].credentials[i])'
                 /\ device'[d] \in [credentials : {device'[d].credentials},
                                    retries : 0..MaxPolls + 1,
                                    progress : [start : Nat, periods : Nat, downloaded : Nat]]
      <3>1. device'[d].credentials = device[d].credentials
        BY <1>10, <1>11
      <3>2. CASE d \in S
        <4>1. progress(d) \in [start : Nat, periods : Nat, downloaded : Nat]
          BY <1>11, <3>2
        <4>2. 0 \in 0..MaxPolls + 1
          BY Constants
        <4>3. device'[d] \in [credentials : {device[d].credentials}, retries : {0},
                              progress : {progress(d)}]
          BY <1>11, <3>2
        <4> HIDE DEF progress
        <4>4. device'[d] \in [credentials : {device[d].credentials}, retries : 0..MaxPolls + 1,
                              progress : [start : Nat, periods : Nat, downloaded : Nat]]
          BY <4>1, <4>2, <4>3
        <4> QED BY <1>2, <1>13, <3>1, <4>4 DEF HoldersOK
      <3>3. CASE d \notin S
        BY <1>2, <1>10, <1>13, <3>3 DEF HoldersOK
      <3> QED BY <3>2, <3>3
    <2>2. ASSUME NEW d \in DOMAIN vehicle'
          PROVE  /\ vehicle'[d] \in [topup : BOOLEAN, last : Nat, creds : {vehicle'[d].creds},
                                    self_revoked : BOOLEAN]
                 /\ \A i \in DOMAIN vehicle'[d].creds : Owned(d, vehicle[d].creds[i])'
      <3>1. d \in DOMAIN vehicle
        BY <1>8
      <3>2. /\ vehicle'[d] \in [topup : BOOLEAN, last : Nat, creds : {N[d].creds},
                               self_revoked : BOOLEAN]
        BY <1>4, <1>6, <1>7, <3>1
      <3>3. vehicle'[d].creds = N[d].creds
        BY <3>2
      <3> QED BY <1>4, <1>13, <3>1, <3>2, <3>3
    <2> QED BY <1>2, <1>8, <2>1, <2>2 DEF HoldersOK
  <1>16. TopupsOK'
    <2>1. ASSUME NEW r \in DOMAIN requests'
          PROVE  r[1] \in DOMAIN vehicle' /\ r[2] <= Asked(r[1])'
      <3>1. r \in DOMAIN requests /\ r[1] \in DOMAIN vehicle /\ r[2] <= Asked(r[1])
        BY <1>2 DEF TopupsOK
      <3>2. r[2] \in Nat /\ Asked(r[1]) \in Nat /\ Asked(r[1])' \in Nat
        <4>1. r[2] \in Nat
          BY <1>2, <3>1 DEF ChainsOK, Runs, Periods
        <4>2. Asked(r[1]) \in Nat
          BY <1>2, <3>1 DEF HoldersOK, Asked
        <4>3. Asked(r[1])' = Asked(r[1]) \/ Asked(r[1])' = N[r[1]].last + 1
          BY <1>12, <3>1
        <4> QED BY <1>a, <3>1, <4>1, <4>2, <4>3
      <3> QED BY <1>8, <1>12, <3>1, <3>2
    <2>2. ASSUME NEW d \in DOMAIN vehicle'
          PROVE  /\ vehicle'[d].last >= Pool - 1 /\ Asked(d)' <= MaxPeriod
                 /\ vehicle'[d].topup /\ <<d, Asked(d)'>> \in installed' =>
                       Asked(d)' \in DOMAIN device'[d].credentials
      <3>1. d \in DOMAIN vehicle /\ d \in Devices
        BY <1>3, <1>8
      <3>2. vehicle'[d].last >= Pool - 1 /\ Asked(d)' <= MaxPeriod
        BY <1>4, <1>12, <3>1
      <3>3. CASE d \in S
        <4>1. <<d, next(d)>> \notin DOMAIN requests
          <5>1. Asked(d) \in Nat /\ Asked(d) <= N[d].last /\ N[d].last \in Nat
            BY <1>2, <1>4, <1>12, <3>1, <3>3 DEF HoldersOK, Asked
          <5>2. <<d, next(d)>>[1] = d /\ <<d, next(d)>>[2] = N[d].last + 1
            OBVIOUS
          <5> HIDE DEF next
          <5> QED BY <1>2, <5>1, <5>2 DEF TopupsOK
        <4>2. <<d, Asked(d)'>> \notin installed'
          BY <1>2, <1>12, <3>1, <3>3, <4>1 DEF HoldersOK
        <4> QED BY <3>2, <4>2
      <3>4. CASE d \notin S
        <4>1. vehicle'[d].topup => vehicle[d].topup
          BY <1>4, <1>6, <3>1, <3>4
        <4>2. device'[d] = device[d] /\ Asked(d)' = Asked(d)
          BY <1>10, <1>12, <3>1, <3>4
        <4> QED BY <1>2, <3>1, <3>2, <4>1, <4>2 DEF TopupsOK
      <3> QED BY <3>3, <3>4
    <2>3. ASSUME NEW d \in Devices, NEW i \in DOMAIN device'[d].credentials
          PROVE  d \in DOMAIN vehicle' /\ i \in Nat /\ i <= Asked(d)'
      <3>1. i \in DOMAIN device[d].credentials
        BY <1>10, <1>11, <2>3
      <3>2. d \in DOMAIN vehicle /\ i \in Nat /\ i <= Asked(d)
        BY <1>2, <3>1 DEF TopupsOK
      <3>3. Asked(d) \in Nat /\ Asked(d)' \in Nat
        <4>1. Asked(d) \in Nat
          BY <1>2, <3>2 DEF HoldersOK, Asked
        <4>2. Asked(d)' = Asked(d) \/ Asked(d)' = N[d].last + 1
          BY <1>12, <3>2
        <4> QED BY <1>a, <3>2, <4>1, <4>2
      <3> QED BY <1>8, <1>12, <3>2, <3>3
    <2> QED BY <2>1, <2>2, <2>3 DEF TopupsOK
  <1>17. ASSUME NEW r \in Runs, UnderWay(r)
         PROVE  UnderWay(r)'
    <2>1. /\ r[1] \in DOMAIN vehicle /\ vehicle[r[1]].topup /\ r[2] = Asked(r[1])
          /\ r \notin installed /\ r[1] \in Devices /\ r = <<r[1], r[2]>>
      BY <1>2, <1>17 DEF UnderWay, HoldersOK, Runs
    <2>2. N[r[1]] = vehicle[r[1]]
      BY <1>4, <2>1
    <2>3. r[1] \notin S
      BY <1>3, <2>1, <2>2
    <2>4. vehicle'[r[1]] = vehicle[r[1]] /\ device'[r[1]] = device[r[1]]
      BY <1>6, <1>10, <2>1, <2>2, <2>3
    <2> QED BY <1>8, <1>17, <2>1, <2>4 DEF UnderWay, Asked
  <1>18. ASSUME NEW d \in S
         PROVE  /\ <<d, next(d)>> \in Runs /\ <<d, next(d)>> \notin DOMAIN requests
                /\ UnderWay(<<d, next(d)>>)'
    <2>1. /\ d \in DOMAIN vehicle /\ d \in Devices
          /\ Asked(d) \in Nat /\ Asked(d) <= N[d].last /\ N[d].last \in Nat
          /\ N[d].last < MaxPeriod
      BY <1>2, <1>3, <1>4, <1>12 DEF HoldersOK, Asked
    <2>2. PICK r : r = <<d, next(d)>>
      OBVIOUS
    <2>3. r[1] = d /\ r[2] = N[d].last + 1 /\ r[2] = next(d)
      BY <2>2
    <2>4. r \notin DOMAIN requests
      BY <1>2, <2>1, <2>3 DEF TopupsOK
    <2>5. r \notin installed'
      BY <1>2, <2>4 DEF HoldersOK
    <2>6. r \in Runs
      BY <2>1, <2>2, Constants DEF Runs, Periods
    <2>7. vehicle'[d].topup /\ Asked(d)' = next(d) /\ d \in DOMAIN vehicle'
      BY <1>7, <1>8, <1>12, <2>1
    <2>8. device'[d].progress = progress(d) /\ device'[d].retries = 0
      BY <1>11
    <2>9. UnderWay(r)'
      BY <2>3, <2>5, <2>7, <2>8, Constants DEF UnderWay
    <2> QED BY <2>2, <2>4, <2>6, <2>9
  <1>19. FlowsOK'
    <2> SUFFICES ASSUME NEW n \in heap' PROVE FlowOK(n)'
      BY DEF FlowsOK
    <2>1. CASE n \in heap
      <3>1. FlowOK(n)
        BY <1>2, <2>1 DEF FlowsOK
      <3>2. n.type \in {"ProvisioningRequest", "BatchDownloadRequest"} => UnderWay(n.run)'
        BY <1>17, <2>1, <3>1, FlowForms DEF FlowOK
      <3> QED BY <1>13, <3>1, <3>2 DEF FlowOK
    <2>2. ASSUME NEW d \in S, n = ask(d)
          PROVE  FlowOK(n)'
      <3>1. n.type = "ProvisioningRequest" /\ n.run = <<d, next(d)>>
        BY <2>2
      <3>2. PICK r : r = n.run
        OBVIOUS
      <3>3. UnderWay(r)' /\ r \notin DOMAIN requests'
        BY <1>18, <3>1, <3>2
      <3> QED BY <3>1, <3>2, <3>3 DEF FlowOK
    <2> QED BY <1>5, <2>1, <2>2
  <1>20. \A n \in (heap' \ heap) \union (heap \ heap') : n.type = "ProvisioningRequest"
    BY <1>5
  <1>21. ShuffleOK'
    <2>1. \A n \in (heap' \ heap) \union (heap \ heap') : n.type # "ShuffleTimer"
      BY <1>20
    <2>2. Scheduled("ShuffleTimer")' <=> Scheduled("ShuffleTimer")
      BY <2>1, TimerKept
    <2> QED BY <1>2, <2>2 DEF ShuffleOK
  <1>22. OnlyFlows
    BY <1>20 DEF OnlyFlows, ProvisioningTypes
  <1>23. Forms'
    <2> SUFFICES ASSUME NEW n \in heap' PROVE FormOK(n)'
      BY DEF Forms
    <2>1. CASE n \in heap
      BY <1>1, <2>1 DEF Forms, FormOK
    <2>2. ASSUME NEW d \in S, n = ask(d)
          PROVE  FormOK(n)'
      <3>1. <<d, next(d)>> \in Runs
        BY <1>18
      <3>2. n \in [type : {"ProvisioningRequest"}, run : Runs] /\ n.type = "ProvisioningRequest"
        BY <2>2, <3>1
      <3> QED BY <3>2 DEF FormOK
    <2> QED BY <1>5, <2>1, <2>2
  <1> QED BY <1>14, <1>15, <1>16, <1>19, <1>21, <1>22, <1>23 DEF Provisioned, ProvisioningInv

------------------------------------------------------------------------------
(***************************************************************************)
(* What the steps of the reporting, the cases and the lists leave alone.   *)
(***************************************************************************)

LEMMA SameVehicle ==
    ASSUME IInv, vehicle' = vehicle
    PROVE  SameVehicles
  BY DEF IInv, ProvisioningInv, HoldersOK, SameVehicles

LEMMA StagesKept ==
    ASSUME IInv, UNCHANGED <<issued, requests, case, crlg>>, DOMAIN cases' = DOMAIN cases,
           \A n \in DOMAIN cases : cases'[n].cert = cases[n].cert,
           \A m \in (heap' \ heap) \union (heap \ heap') : m.type \notin CaseMessages
    PROVE  CaseOK' /\ StagesOK'
  <1>1. CaseOK /\ StagesOK
    BY DEF IInv, CaseInv
  <1>2. \A c : Covered(c)' <=> Covered(c)
    BY DEF Covered
  <1>3. CaseOK'
    BY <1>1, <1>2 DEF CaseOK, case_open
  <1>4. \A m \in heap' : m.type \in CaseMessages => m \in heap
    OBVIOUS
  <1>5. OneCaseInFlight'
    BY <1>1, <1>4 DEF StagesOK, OneCaseInFlight, case_open
  <1>6. \A m \in heap' : m.type \in CaseMessages => StageOK(m)'
    BY <1>1, <1>4 DEF StagesOK, StageOK
  <1>7. \A m, n \in heap' : m.type \in CaseMessages /\ n.type \in CaseMessages => Together(m, n)
    BY <1>1, <1>4 DEF StagesOK, Together
  <1> QED BY <1>3, <1>5, <1>6, <1>7 DEF StagesOK, Together

LEMMA SubjectsKept ==
    ASSUME IInv, UNCHANGED <<issued, queue, cases, issuances>>,
           ra_reports' \union arrived' \subseteq DOMAIN issued,
           \A m \in heap' \ heap : m.type = "Report" => m.cert \in DOMAIN issued
    PROVE  SubjectsOK'
  <1>1. SubjectsOK
    BY DEF IInv, CaseInv
  <1>2. \A m \in heap' : m.type = "Report" => m.cert \in DOMAIN issued'
    BY <1>1 DEF SubjectsOK
  <1> QED BY <1>1, <1>2 DEF SubjectsOK

LEMMA ListsKept ==
    ASSUME IInv, UNCHANGED <<crlg, crl_store, crl_broadcast, published, broadcast, cases>>
    PROVE  ListsOK'
  BY DEF IInv, ListInv, ListsOK, NoSecondEntry, Revokes, Earlier

LEMMA ListenersKept ==
    ASSUME IInv, UNCHANGED <<crlg, listener, air>>
    PROVE  ListenersOK'
  BY DEF IInv, ListInv, ListenersOK, ListenerOK, SentOK, Entries

\* A window whose timer, reports and lists the step leaves alone.
LEMMA WindowsKept ==
    ASSUME IInv, UNCHANGED <<report_armed, publish_armed, ra_reports, crlg, crl_store>>,
           crl_timer_armed' \in BOOLEAN,
           \A m \in (heap' \ heap) \union (heap \ heap') :
              /\ m.type # "ReportShuffleTimer" /\ m.type # "CrlPublishTimer"
              /\ m.type # "CrlPublish" \/ m.to # "store"
    PROVE  WindowsOK'
  <1>1. WindowsOK
    BY DEF IInv, ListInv
  <1>2. /\ Scheduled("ReportShuffleTimer")' <=> Scheduled("ReportShuffleTimer")
        /\ Scheduled("CrlPublishTimer")' <=> Scheduled("CrlPublishTimer")
    BY TimerKept
  <1>3. (\E m \in heap : m.type = "CrlPublish" /\ m.to = "store") =>
           (\E m \in heap' : m.type = "CrlPublish" /\ m.to = "store")
    OBVIOUS
  <1> QED BY <1>1, <1>2, <1>3 DEF WindowsOK

------------------------------------------------------------------------------
(***************************************************************************)
(* Reports.                                                                *)
(***************************************************************************)

LEMMA FileReportStep ==
    ASSUME IInv, NEW d \in Suspects, FileReport(d)
    PROVE  IInv'
  <1>1. PICK c \in Range(vehicle[d].creds) : ra_reports' = ra_reports \union {c}
    BY DEF FileReport
  <1>2. /\ d \in DOMAIN vehicle /\ filed < MaxReports /\ filed' = filed + 1 /\ report_armed' = TRUE
        /\ heap' = IF report_armed THEN heap ELSE heap \union {[type |-> "ReportShuffleTimer"]}
        /\ UNCHANGED <<provisioning, blocklist, vehicle, retired, arrived, casework, lists,
                       versions, listener, pc>>
    BY DEF FileReport
  <1>3. /\ \A m \in heap' \ heap : m = [type |-> "ReportShuffleTimer"]
        /\ heap \ heap' = {}
    BY <1>2
  <1>4. \A m \in (heap' \ heap) \union (heap \ heap') : m.type = "ReportShuffleTimer"
    BY <1>3
  <1>5. c \in DOMAIN issued
    <2>1. Owned(d, c)
      BY <1>1, <1>2 DEF IInv, ProvisioningInv, HoldersOK, Range
    <2> QED BY <2>1 DEF Owned
  <1>6. ProvisioningInv'
    <2>1. NoFlows
      BY <1>4 DEF NoFlows, ProvisioningTypes
    <2>2. SameVehicles /\ blocklist' \subseteq Devices
      BY <1>2, SameVehicle DEF IInv, ProvisioningInv, HoldersOK
    <2> QED BY <1>2, <2>1, <2>2, FlowsKept
  <1>7. SubjectsOK'
    <2>1. ra_reports' \union arrived' \subseteq DOMAIN issued
      BY <1>1, <1>2, <1>5 DEF IInv, CaseInv, SubjectsOK
    <2>2. \A m \in heap' \ heap : m.type = "Report" => m.cert \in DOMAIN issued
      BY <1>4
    <2> QED BY <1>2, <2>1, <2>2, SubjectsKept DEF provisioning, casework, lists
  <1>8. CaseOK' /\ StagesOK'
    <2>1. \A m \in (heap' \ heap) \union (heap \ heap') : m.type \notin CaseMessages
      BY <1>4 DEF CaseMessages
    <2> QED BY <1>2, <2>1, StagesKept DEF provisioning, casework, lists
  <1>9. ListsOK' /\ ListenersOK'
    BY <1>2, ListsKept, ListenersKept DEF casework, lists, versions
  <1>10. WindowsOK'
    <2>1. WindowsOK
      BY DEF IInv, ListInv
    <2>2. \A m \in (heap' \ heap) \union (heap \ heap') : m.type # "CrlPublishTimer"
      BY <1>4
    <2>3. Scheduled("CrlPublishTimer")' <=> Scheduled("CrlPublishTimer")
      BY <2>2, TimerKept
    <2>4. Scheduled("ReportShuffleTimer")'
      BY <1>2, <2>1 DEF Scheduled, WindowsOK
    <2>5. (\E m \in heap : m.type = "CrlPublish" /\ m.to = "store") =>
             (\E m \in heap' : m.type = "CrlPublish" /\ m.to = "store")
      BY <1>3
    <2> QED BY <1>2, <2>1, <2>3, <2>4, <2>5 DEF WindowsOK, lists, versions
  <1>11. filed' \in 0..MaxReports /\ pc' \in {"idle", "first", "second"}
    BY <1>2, Constants DEF IInv, ListInv
  <1>12. \A m \in heap' : FormOK(m)
    <2>1. FormOK([type |-> "ReportShuffleTimer"])
      BY DEF FormOK
    <2> QED BY <1>3, <2>1 DEF IInv
  <1> QED BY <1>6, <1>7, <1>8, <1>9, <1>10, <1>11, <1>12 DEF IInv, CaseInv, ListInv, FormOK

LEMMA ReportingStep ==
    ASSUME IInv, NEW m \in heap, Reporting(m), UNCHANGED <<versions, listener, pc>>
    PROVE  IInv'
  <1>1. UNCHANGED <<provisioning, blocklist, vehicle, retired, casework, lists, versions,
                    listener, pc, filed>>
    BY DEF Reporting, ReportShuffle, MaReport
  <1>2. SubjectsOK /\ WindowsOK /\ \A n \in heap : FormOK(n)
    BY DEF IInv, CaseInv, ListInv
  <1>3. ASSUME \A n \in (heap' \ heap) \union (heap \ heap') :
                  n.type \in {"Report", "ReportShuffleTimer"},
               ra_reports' \union arrived' \subseteq DOMAIN issued,
               \A n \in heap' \ heap : n.type = "Report" => n.cert \in DOMAIN issued,
               \A n \in heap' : FormOK(n),
               WindowsOK'
        PROVE  IInv'
    <2>1. ProvisioningInv'
      <3>1. NoFlows
        BY <1>3 DEF NoFlows, ProvisioningTypes
      <3>2. SameVehicles /\ blocklist' \subseteq Devices
        BY <1>1, SameVehicle DEF IInv, ProvisioningInv, HoldersOK
      <3> QED BY <1>1, <3>1, <3>2, FlowsKept
    <2>2. SubjectsOK'
      BY <1>1, <1>3, SubjectsKept DEF provisioning, casework, lists
    <2>3. CaseOK' /\ StagesOK'
      <3>1. \A n \in (heap' \ heap) \union (heap \ heap') : n.type \notin CaseMessages
        BY <1>3 DEF CaseMessages
      <3> QED BY <1>1, <3>1, StagesKept DEF provisioning, casework, lists
    <2>4. ListsOK' /\ ListenersOK'
      BY <1>1, ListsKept, ListenersKept DEF casework, lists, versions
    <2> QED BY <1>1, <1>3, <2>1, <2>2, <2>3, <2>4 DEF IInv, CaseInv, ListInv, FormOK
  <1>4. CASE ReportShuffle(m)
    <2>1. /\ m.type = "ReportShuffleTimer" /\ report_armed' = FALSE /\ ra_reports' = {}
          /\ heap' = (heap \ {m}) \union {[type |-> "Report", cert |-> c] : c \in ra_reports}
          /\ arrived' = arrived
      BY <1>4 DEF ReportShuffle, Deliver
    <2>2. m = [type |-> "ReportShuffleTimer"]
      BY <2>1, FlowForms
    <2>3. \A n \in heap' \ heap : \E c \in ra_reports : n = [type |-> "Report", cert |-> c]
      BY <2>1
    <2>4. \A n \in heap' \ heap : n.type = "Report" /\ n.cert \in DOMAIN issued
      BY <1>2, <2>3 DEF SubjectsOK
    <2>5. \A n \in heap \ heap' : n = m
      BY <2>1
    <2>6. WindowsOK'
      <3>1. ~Scheduled("ReportShuffleTimer")'
        BY <2>1, <2>2 DEF Scheduled
      <3>2. \A n \in (heap' \ heap) \union (heap \ heap') : n.type # "CrlPublishTimer"
        BY <2>1, <2>4, <2>5
      <3>3. Scheduled("CrlPublishTimer")' <=> Scheduled("CrlPublishTimer")
        BY <3>2, TimerKept
      <3>4. (\E n \in heap : n.type = "CrlPublish" /\ n.to = "store") =>
               (\E n \in heap' : n.type = "CrlPublish" /\ n.to = "store")
        BY <2>1
      <3> QED BY <1>1, <1>2, <2>1, <3>1, <3>3, <3>4 DEF WindowsOK, lists, versions
    <2>7. \A n \in heap' : FormOK(n)
      <3> SUFFICES ASSUME NEW c \in ra_reports
                   PROVE  FormOK([type |-> "Report", cert |-> c])
        BY <1>2, <2>1
      <3>1. c \in Certificates
        BY <1>2 DEF SubjectsOK, IInv, ProvisioningInv, IssuedOK
      <3>2. c \in Certificate
        BY <3>1, Constants DEF Certificate, Certificates, Chains, Periods
      <3> QED BY <3>2 DEF FormOK
    <2>8. ra_reports' \union arrived' \subseteq DOMAIN issued
      BY <1>2, <2>1 DEF SubjectsOK
    <2>9. \A n \in (heap' \ heap) \union (heap \ heap') : n.type \in {"Report", "ReportShuffleTimer"}
      BY <2>1, <2>4, <2>5
    <2> QED BY <1>3, <2>4, <2>6, <2>7, <2>8, <2>9
  <1>5. CASE MaReport(m)
    <2>1. /\ m.type = "Report" /\ arrived' = arrived \union {m.cert} /\ heap' = heap \ {m}
          /\ ra_reports' = ra_reports /\ report_armed' = report_armed
      BY <1>5 DEF MaReport, Deliver
    <2>2. ra_reports' \union arrived' \subseteq DOMAIN issued
      BY <1>2, <2>1 DEF SubjectsOK
    <2>3. WindowsOK'
      <3>1. crl_timer_armed' \in BOOLEAN
        BY <1>1, <1>2 DEF WindowsOK, versions
      <3> QED BY <1>1, <2>1, <3>1, WindowsKept DEF lists, versions
    <2> QED BY <1>2, <1>3, <2>1, <2>2, <2>3
  <1> QED BY <1>4, <1>5 DEF Reporting

------------------------------------------------------------------------------
(***************************************************************************)
(* The list at the vehicles.                                               *)
(***************************************************************************)

LEMMA EntriesFacts ==
    ASSUME IInv
    PROVE  /\ Len(crlg) \in Nat /\ DOMAIN crlg = 1..Len(crlg)
           /\ Len(crl_broadcast) \in Nat /\ Len(crl_broadcast) <= Len(crlg)
           /\ Len(crl_store) \in Nat /\ Len(crl_store) <= Len(crlg)
           /\ \A p, q \in Nat : p <= q => Entries(p) \subseteq Entries(q)
           /\ Range(crl_broadcast) = Entries(Len(crl_broadcast))
           /\ Range(crl_store) = Entries(Len(crl_store))
           /\ \A n \in Nat : IsFiniteSet(Entries(n)) /\ Cardinality(Entries(n)) <= n
  <1>1. ListsOK
    BY DEF IInv, ListInv
  <1>2. /\ Len(crlg) \in Nat /\ DOMAIN crlg = 1..Len(crlg)
        /\ Len(crl_broadcast) \in Nat /\ DOMAIN crl_broadcast = 1..Len(crl_broadcast)
        /\ Len(crl_store) \in Nat /\ DOMAIN crl_store = 1..Len(crl_store)
        /\ Len(crl_broadcast) <= Len(crlg) /\ Len(crl_store) <= Len(crlg)
    BY <1>1, LenProperties DEF ListsOK, Earlier, Lists
  <1>3. \A p, q \in Nat : p <= q => Entries(p) \subseteq Entries(q)
    BY DEF Entries
  <1>4. /\ Range(crl_broadcast) = Entries(Len(crl_broadcast))
        /\ Range(crl_store) = Entries(Len(crl_store))
    BY <1>1, <1>2 DEF Range, Entries, ListsOK, Earlier
  <1>5. ASSUME NEW n \in Nat
        PROVE  IsFiniteSet(Entries(n)) /\ Cardinality(Entries(n)) <= n
    <2> DEFINE f == [k \in 1..n |-> crlg[k]]
    <2>1. f \in Surjection(1..n, Entries(n))
      BY DEF Surjection, Entries
    <2>2. IsFiniteSet(1..n) /\ Cardinality(1..n) = n
      <3>1. /\ IsFiniteSet(1..n)
            /\ Cardinality(1..n) = IF 1 > n THEN 0 ELSE n - 1 + 1
        BY FS_Interval
      <3> QED BY <3>1
    <2>3. IsFiniteSet(Entries(n)) /\ Cardinality(Entries(n)) <= Cardinality(1..n)
      BY <2>1, <2>2, FS_Surjection
    <2> QED BY <2>2, <2>3
  <1> QED BY <1>2, <1>3, <1>4, <1>5

\* As many of the entries as the list has are all of them.
LEMMA CountedIsWhole ==
    ASSUME IInv, NEW held, held \subseteq Entries(Len(crlg)), Cardinality(held) >= Len(crlg)
    PROVE  Entries(Len(crlg)) \subseteq held
  <1>1. PICK n : n = Len(crlg)
    OBVIOUS
  <1>2. n \in Nat /\ IsFiniteSet(Entries(n)) /\ Cardinality(Entries(n)) <= n
    BY <1>1, EntriesFacts
  <1>3. held \in SUBSET Entries(n) /\ Cardinality(held) >= n
    BY <1>1
  <1>4. /\ IsFiniteSet(held) /\ Cardinality(held) <= Cardinality(Entries(n))
        /\ Cardinality(Entries(n)) = Cardinality(held) => Entries(n) = held
    BY <1>2, <1>3, FS_Subset
  <1>5. Cardinality(held) \in Nat /\ Cardinality(Entries(n)) \in Nat
    BY <1>2, <1>4, FS_CardinalityType
  <1>6. Cardinality(held) = Cardinality(Entries(n))
    BY <1>2, <1>3, <1>4, <1>5
  <1> QED BY <1>1, <1>4, <1>6

LEMMA InvNewest ==
    ASSUME IInv
    PROVE  NewestIsWhole
  <1> SUFFICES ASSUME NEW d \in Listeners, listener[d].version = Len(crlg)
               PROVE  Range(crlg) \subseteq listener[d].held
    BY DEF NewestIsWhole
  <1>1. /\ listener[d].held \subseteq Entries(Len(crlg))
        /\ Cardinality(listener[d].held) >= Len(crlg)
    <2>1. /\ listener[d].held \subseteq Entries(Len(crlg))
          /\ listener[d].version <= Cardinality(listener[d].held)
      BY DEF IInv, ListInv, ListenersOK, ListenerOK
    <2>2. Cardinality(listener[d].held) \in Nat /\ Len(crlg) \in Nat
      BY <2>1, EntriesFacts, FS_Subset, FS_CardinalityType
    <2> QED BY <2>1, <2>2
  <1>2. Range(crlg) = Entries(Len(crlg))
    BY EntriesFacts DEF Range, Entries
  <1> QED BY <1>1, <1>2, CountedIsWhole

\* What a vehicle is left with, when only its list and what follows from it changed.
LEMMA ReceivedStep ==
    ASSUME IInv, ListenersOK', SameVehicles, crl_timer_armed' \in BOOLEAN,
           UNCHANGED <<provisioning, heap, blocklist, reporting, casework, lists,
                       published, broadcast, pc>>
    PROVE  IInv'
  <1> USE DEF reporting, casework, lists
  <1>1. ProvisioningInv'
    <2>1. NoFlows
      BY DEF NoFlows
    <2>2. blocklist' \subseteq Devices
      BY DEF IInv, ProvisioningInv, HoldersOK
    <2> QED BY <2>1, <2>2, FlowsKept
  <1>2. SubjectsOK'
    <2>1. ra_reports' \union arrived' \subseteq DOMAIN issued
      BY DEF IInv, CaseInv, SubjectsOK
    <2> QED BY <2>1, SubjectsKept DEF provisioning
  <1>3. CaseOK' /\ StagesOK'
    BY StagesKept DEF provisioning
  <1>4. ListsOK'
    BY ListsKept
  <1>5. WindowsOK'
    BY WindowsKept
  <1> QED BY <1>1, <1>2, <1>3, <1>4, <1>5 DEF IInv, CaseInv, ListInv, FormOK

LEMMA EnforcedVehicles ==
    ASSUME IInv, NEW d \in Listening, NEW entries, vehicle' = Enforced(d, entries)
    PROVE  SameVehicles
  <1>1. \A e \in DOMAIN vehicle :
           vehicle[e] \in [topup : BOOLEAN, last : Nat, creds : {vehicle[e].creds},
                           self_revoked : BOOLEAN]
    BY DEF IInv, ProvisioningInv, HoldersOK
  <1>2. CASE vehicle' = vehicle
    BY <1>2, SameVehicle
  <1>3. CASE vehicle' = [vehicle EXCEPT ![d].self_revoked = TRUE]
    <2>1. d \in DOMAIN vehicle
      BY DEF Listening
    <2>2. /\ DOMAIN vehicle' = DOMAIN vehicle
          /\ vehicle'[d] = [vehicle[d] EXCEPT !.self_revoked = TRUE]
          /\ \A e \in DOMAIN vehicle : e # d => vehicle'[e] = vehicle[e]
      BY <1>3, <2>1
    <2>3. /\ vehicle'[d] \in [topup : BOOLEAN, last : Nat, creds : {vehicle[d].creds},
                             self_revoked : BOOLEAN]
          /\ vehicle'[d].topup = vehicle[d].topup /\ vehicle'[d].last = vehicle[d].last
      BY <1>1, <2>1, <2>2
    <2> QED BY <1>1, <2>2, <2>3 DEF SameVehicles
  <1> QED BY <1>2, <1>3 DEF Enforced

\* A vehicle that receives entries of the list counts no more than it holds then.
LEMMA Received ==
    ASSUME IInv, NEW d \in Listeners, NEW f, SentOK(f), NEW tr,
           tr \in {{}, listener[d].transfer}, DOMAIN listener' = Listeners,
           \A e \in Listeners : e # d => listener'[e] = listener[e],
           listener'[d] = [Installed(listener[d], f.entries, f.version) EXCEPT !.transfer = tr],
           UNCHANGED <<crlg, air>>
    PROVE  ListenersOK'
  <1>1. ListenersOK
    BY DEF IInv, ListInv
  <1>2. \A n : Entries(n)' = Entries(n)
    BY DEF Entries
  <1>3. \A t : SentOK(t) => SentOK(t)'
    BY <1>2 DEF SentOK
  <1> DEFINE l == listener[d]
             held == l.held \union f.entries
             version == IF Holds(l, f.entries, f.version) /\ f.version > l.version
                        THEN f.version ELSE l.version
  <1>4. /\ l \in [held : {l.held}, version : Nat, transfer : {l.transfer}]
        /\ l.held \subseteq Entries(Len(crlg)) /\ l.version <= Cardinality(l.held)
        /\ \A t \in l.transfer : SentOK(t)
    BY <1>1 DEF ListenersOK, ListenerOK
  <1>5. held \subseteq Entries(Len(crlg)) /\ f.version \in Nat
    BY <1>4 DEF SentOK
  <1>6. version \in Nat /\ version <= Cardinality(held)
    <2>1. IsFiniteSet(Entries(Len(crlg)))
      BY EntriesFacts
    <2>2. IsFiniteSet(held)
      BY <1>5, <2>1, FS_Subset
    <2>3. /\ IsFiniteSet(l.held) /\ Cardinality(l.held) <= Cardinality(held)
      BY <2>2, FS_Subset
    <2>4. Cardinality(l.held) \in Nat /\ Cardinality(held) \in Nat
      BY <2>2, <2>3, FS_CardinalityType
    <2>5. CASE version = l.version
      BY <1>4, <2>3, <2>4, <2>5
    <2>6. CASE version # l.version
      <3>1. version = f.version /\ Cardinality(held) >= f.version
        BY <2>6 DEF Holds
      <3> QED BY <1>5, <2>4, <3>1
    <2> QED BY <2>5, <2>6
  <1>7. Installed(l, f.entries, f.version) = [l EXCEPT !.held = held, !.version = version]
    BY DEF Installed
  <1> HIDE DEF held, version
  <1>8. /\ listener'[d] \in [held : {held}, version : {version}, transfer : {tr}]
        /\ listener'[d].held = held /\ listener'[d].version = version
        /\ listener'[d].transfer = tr
    <2>1. Installed(l, f.entries, f.version) \in
             [held : {held}, version : {version}, transfer : {l.transfer}]
      BY <1>4, <1>7
    <2> QED BY <2>1
  <1>9. ListenerOK(d)'
    <2>1. listener'[d] \in [held : {listener'[d].held}, version : Nat,
                            transfer : {listener'[d].transfer}]
      BY <1>6, <1>8
    <2>2. \A t \in listener'[d].transfer : SentOK(t)'
      BY <1>3, <1>4, <1>8
    <2> QED BY <1>2, <1>5, <1>6, <1>8, <2>1, <2>2 DEF ListenerOK
  <1>10. \A e \in Listeners : e # d => ListenerOK(e)'
    BY <1>1, <1>2, <1>3 DEF ListenersOK, ListenerOK
  <1>11. \A g \in air' : SentOK(g)'
    BY <1>1, <1>3 DEF ListenersOK
  <1> QED BY <1>9, <1>10, <1>11 DEF ListenersOK

LEMMA DownloadStep ==
    ASSUME IInv, NEW d \in Listeners, Download(d)
    PROVE  IInv'
  <1>1. PICK t \in listener[d].transfer :
           /\ listener' = [listener EXCEPT
                              ![d] = [Installed(@, t.entries, t.version) EXCEPT !.transfer = {}]]
           /\ vehicle' = Enforced(d, t.entries)
    BY DEF Download
  <1>2. /\ d \in Listening
        /\ UNCHANGED <<provisioning, heap, blocklist, retired, reporting, casework, lists,
                       versions, pc>>
    BY DEF Download
  <1>3. SameVehicles
    BY <1>1, <1>2, EnforcedVehicles
  <1>4. ListenersOK'
    <2>1. ListenersOK
      BY DEF IInv, ListInv
    <2>2. SentOK(t)
      BY <2>1 DEF ListenersOK, ListenerOK
    <2>3. /\ DOMAIN listener' = Listeners
          /\ listener'[d] = [Installed(listener[d], t.entries, t.version) EXCEPT !.transfer = {}]
          /\ \A e \in Listeners : e # d => listener'[e] = listener[e]
      BY <1>1, <2>1 DEF ListenersOK
    <2>4. UNCHANGED <<crlg, air>>
      BY <1>2 DEF lists, versions
    <2> QED BY <2>2, <2>3, <2>4, Received
  <1>5. crl_timer_armed' \in BOOLEAN
    BY <1>2 DEF versions, IInv, ListInv, WindowsOK
  <1> QED BY <1>2, <1>3, <1>4, <1>5, ReceivedStep DEF versions

LEMMA HearStep ==
    ASSUME IInv, NEW d \in Listeners, Hear(d)
    PROVE  IInv'
  <1>1. PICK f \in air :
           /\ listener' = [listener EXCEPT ![d] = Installed(@, f.entries, f.version)]
           /\ vehicle' = Enforced(d, f.entries)
    BY DEF Hear
  <1>2. /\ d \in Listening
        /\ UNCHANGED <<provisioning, heap, blocklist, retired, reporting, casework, lists,
                       versions, pc>>
    BY DEF Hear
  <1>3. SameVehicles
    BY <1>1, <1>2, EnforcedVehicles
  <1>4. ListenersOK'
    <2>1. ListenersOK
      BY DEF IInv, ListInv
    <2>2. SentOK(f)
      BY <2>1 DEF ListenersOK
    <2>3. /\ DOMAIN listener' = Listeners
          /\ listener'[d] = Installed(listener[d], f.entries, f.version)
          /\ \A e \in Listeners : e # d => listener'[e] = listener[e]
      BY <1>1, <2>1 DEF ListenersOK
    <2>4. Installed(listener[d], f.entries, f.version) =
             [Installed(listener[d], f.entries, f.version) EXCEPT !.transfer = listener[d].transfer]
      <3>1. listener[d] \in [held : {listener[d].held}, version : Nat,
                             transfer : {listener[d].transfer}]
        BY <2>1 DEF ListenersOK, ListenerOK
      <3>2. PICK v, h : Installed(listener[d], f.entries, f.version) =
                           [listener[d] EXCEPT !.held = h, !.version = v]
        BY DEF Installed
      <3> QED BY <3>1, <3>2
    <2>5. UNCHANGED <<crlg, air>>
      BY <1>2 DEF lists, versions
    <2> QED BY <2>2, <2>3, <2>4, <2>5, Received
  <1>5. crl_timer_armed' \in BOOLEAN
    BY <1>2 DEF versions, IInv, ListInv, WindowsOK
  <1> QED BY <1>2, <1>3, <1>4, <1>5, ReceivedStep DEF versions

LEMMA FlowTimerStep ==
    ASSUME IInv, FlowTimer
    PROVE  IInv'
  <1>1. /\ crl_timer_armed' = (broadcast > 0)
        /\ air' = IF broadcast > 0 THEN air \union Frames ELSE air
        /\ UNCHANGED <<provisioning, heap, blocklist, vehicle, retired, reporting, casework, lists,
                       published, broadcast, listener, pc>>
    BY DEF FlowTimer
  <1>2. crl_timer_armed' \in BOOLEAN
    BY <1>1
  <1>3. \A f \in Frames : SentOK(f)
    <2>1. /\ Len(crlg) \in Nat /\ Len(crl_broadcast) <= Len(crlg) /\ Len(crl_broadcast) \in Nat
          /\ Range(crl_broadcast) \subseteq Entries(Len(crlg))
      BY EntriesFacts
    <2>2. broadcast \in Nat /\ broadcast <= Len(crlg)
      BY <2>1 DEF IInv, ListInv, ListsOK
    <2>3. ASSUME NEW S \in SUBSET DOMAIN crl_broadcast, NEW f,
                 f = [version |-> broadcast, entries |-> {crl_broadcast[k] : k \in S}]
          PROVE  SentOK(f)
      <3>1. {crl_broadcast[k] : k \in S} \subseteq Range(crl_broadcast)
        BY DEF Range
      <3> QED BY <2>1, <2>2, <2>3, <3>1 DEF SentOK
    <2> QED BY <2>3 DEF Frames
  <1>4. ListenersOK'
    <2>1. ListenersOK /\ UNCHANGED <<crlg, listener>>
      BY <1>1 DEF IInv, ListInv, lists
    <2>2. \A n : Entries(n)' = Entries(n)
      BY <2>1 DEF Entries
    <2>3. \A t : SentOK(t) => SentOK(t)'
      BY <2>1, <2>2 DEF SentOK
    <2>4. \A f \in air' : SentOK(f)
      BY <1>1, <1>3, <2>1 DEF ListenersOK
    <2> QED BY <2>1, <2>2, <2>3, <2>4 DEF ListenersOK, ListenerOK
  <1> QED BY <1>1, <1>2, <1>4, SameVehicle, ReceivedStep

------------------------------------------------------------------------------
(***************************************************************************)
(* The stages of a case.                                                   *)
(***************************************************************************)

LEMMA CertificateTyped == Certificates \subseteq Certificate
  BY Constants DEF Certificate, Certificates, Chains, Periods

LEMMA CaseForms ==
    ASSUME IInv, NEW m \in heap
    PROVE  /\ m.type = "PcaLookupRequest" =>
                 m \in [type : {m.type}, number : Nat, cert : Certificate]
           /\ m.type = "BlocklistRequest" =>
                 m \in [type : {m.type}, number : Nat, run : Runs]
           /\ m.type = "SeedRequest" =>
                 m \in [type : {m.type}, number : Nat, la : Authorities, lci : Nat, i : Nat]
           /\ m.type = "CrlPublish" =>
                 m \in [type : {m.type}, to : {"store", "broadcast"}, n : Nat]
  <1>1. FormOK(m)
    BY DEF IInv
  <1> QED BY <1>1 DEF FormOK

\* A delivery of a case is about the open one, whose certificate can be resolved.
LEMMA OpenCase ==
    ASSUME IInv, NEW m \in heap, m.type \in CaseMessages
    PROVE  /\ case_open /\ m.number = case.number /\ case.number \in Nat
           /\ case \in [number : Nat, cert : Certificates, seeds : [Authorities -> Nat],
                        done : BOOLEAN]
           /\ case.number \in DOMAIN cases /\ case.cert = cases[case.number].cert
           /\ case.cert \in DOMAIN issued /\ ~Covered(case.cert) /\ StageOK(m)
           /\ \A x \in Authorities : case.seeds[x] \in {0, case.cert.lci[x]}
           /\ issued[case.cert] \in DOMAIN requests
           /\ requests[issued[case.cert]] = case.cert.lci
           /\ ChainsOf(issued[case.cert][1], case.cert.lci)
           /\ \A n \in heap : n.type \in CaseMessages =>
                 StageOK(n) /\ Together(m, n) /\ n.number = case.number
  <1>1. CaseOK /\ StagesOK /\ SubjectsOK /\ IssuedOK
    BY DEF IInv, CaseInv, ProvisioningInv
  <1>2. case_open /\ m.number = case.number
    BY <1>1 DEF StagesOK, OneCaseInFlight
  <1>3. /\ case \in [number : Nat, cert : Certificates, seeds : [Authorities -> Nat],
                     done : BOOLEAN]
        /\ case.number \in DOMAIN cases /\ case.cert = cases[case.number].cert
        /\ ~Covered(case.cert)
        /\ \A x \in Authorities : case.seeds[x] \in {0, case.cert.lci[x]}
    BY <1>1, <1>2 DEF CaseOK
  <1>4. case.cert \in DOMAIN issued
    BY <1>1, <1>3 DEF SubjectsOK
  <1>5. \A n \in heap : n.type \in CaseMessages =>
           StageOK(n) /\ Together(m, n) /\ n.number = case.number
    BY <1>1 DEF StagesOK, OneCaseInFlight
  <1> QED BY <1>1, <1>2, <1>3, <1>4, <1>5 DEF IssuedOK

LEMMA CaseKept ==
    ASSUME IInv, UNCHANGED <<case, cases, crlg>>
    PROVE  CaseOK'
  <1>1. \A c : Covered(c)' <=> Covered(c)
    BY DEF Covered
  <1> QED BY <1>1 DEF IInv, CaseInv, CaseOK, case_open

\* An answer that is not empty leaves the case open.
LEMMA StaysOpen ==
    ASSUME IInv, case_open, NEW none \in BOOLEAN, ~none,
           case' = [case EXCEPT !.done = @ \/ none]
    PROVE  case' = case
  <1>1. case \in [number : Nat, cert : Certificates, seeds : [Authorities -> Nat],
                  done : BOOLEAN]
    BY DEF IInv, CaseInv, CaseOK
  <1>2. (case.done \/ none) = case.done
    BY <1>1, Zenon DEF case_open
  <1>3. case' = [case EXCEPT !.done = case.done]
    BY <1>2
  <1> QED BY <1>1, <1>3

\* What is left to show of a stage: the case, and that its deliveries are its own.
LEMMA StageStep ==
    ASSUME IInv, NEW m \in heap, m.type \in CaseMessages, NEW sent,
           heap' = (heap \ {m}) \union sent,
           \A n \in sent : n.type \in CaseMessages /\ FormOK(n),
           UNCHANGED <<provisioning, vehicle, retired, reporting, queue, cases, lists, versions,
                       listener, pc>>,
           blocklist' \subseteq Devices, CaseOK', StagesOK'
    PROVE  IInv'
  <1> USE DEF reporting, lists, versions
  <1>1. \A n \in (heap' \ heap) \union (heap \ heap') : n.type \in CaseMessages
    OBVIOUS
  <1>2. ProvisioningInv'
    <2>1. NoFlows
      BY <1>1 DEF NoFlows, ProvisioningTypes, CaseMessages
    <2> QED BY <2>1, SameVehicle, FlowsKept
  <1>3. SubjectsOK'
    <2>1. ra_reports' \union arrived' \subseteq DOMAIN issued
      BY DEF IInv, CaseInv, SubjectsOK
    <2>2. \A n \in heap' \ heap : n.type = "Report" => n.cert \in DOMAIN issued
      BY <1>1 DEF CaseMessages
    <2> QED BY <2>1, <2>2, SubjectsKept DEF provisioning
  <1>4. ListsOK' /\ ListenersOK'
    BY ListsKept, ListenersKept
  <1>5. WindowsOK'
    <2>1. crl_timer_armed' \in BOOLEAN
      BY DEF IInv, ListInv, WindowsOK
    <2>2. \A n \in (heap' \ heap) \union (heap \ heap') :
             /\ n.type # "ReportShuffleTimer" /\ n.type # "CrlPublishTimer"
             /\ n.type # "CrlPublish" \/ n.to # "store"
      BY <1>1 DEF CaseMessages
    <2> QED BY <2>1, <2>2, WindowsKept
  <1>6. \A n \in heap' : FormOK(n)
    BY DEF IInv
  <1> QED BY <1>2, <1>3, <1>4, <1>5, <1>6 DEF IInv, CaseInv, ListInv, FormOK

\* Every stage but the last has one delivery in flight.
LEMMA NextStage ==
    ASSUME IInv, NEW m \in heap, m.type \in CaseMessages, m.type # "SeedRequest", NEW sent,
           heap' = (heap \ {m}) \union sent, case' = case,
           \A n \in sent : n.number = case.number /\ StageOK(n)',
           \A n, o \in sent : Together(n, o)
    PROVE  StagesOK'
  <1>1. \A n \in heap' : n.type \in CaseMessages => n \in sent
    BY OpenCase DEF Together
  <1>2. case_open
    BY OpenCase
  <1> QED BY <1>1, <1>2 DEF StagesOK, OneCaseInFlight, case_open, Together

LEMMA LookupStep ==
    ASSUME IInv, NEW m \in heap, Lookup(m),
           UNCHANGED <<provisioning, vehicle, retired, reporting, queue, cases, versions,
                       listener, pc>>
    PROVE  IInv'
  <1>0. PICK run, ask : /\ run = issued[case.cert]
                        /\ ask = [type |-> "BlocklistRequest", number |-> m.number, run |-> run]
    OBVIOUS
  <1>1. m.type = "PcaLookupRequest" /\ m.type \in CaseMessages
    BY DEF Lookup, CaseMessages
  <1>2. /\ m.cert = case.cert /\ case.seeds = NoSeeds /\ case.cert \in DOMAIN issued
        /\ case_open /\ m.number = case.number /\ m.number \in Nat
        /\ run \in DOMAIN requests /\ requests[run] = case.cert.lci
    BY <1>0, <1>1, OpenCase DEF StageOK
  <1>3. PICK found \in {{issued[c] : c \in {m.cert} \intersect DOMAIN issued}} :
           /\ case' = [case EXCEPT !.done = @ \/ found = {}]
           /\ Deliver(m, {[type |-> "BlocklistRequest", number |-> m.number, run |-> r] :
                             r \in found})
    BY DEF Lookup
  <1>4. found = {run}
    BY <1>0, <1>2, <1>3
  <1>5. heap' = (heap \ {m}) \union {ask}
    BY <1>0, <1>3, <1>4 DEF Deliver
  <1>6. case' = case
    <2>1. ~(found = {}) /\ (found = {}) \in BOOLEAN
      BY <1>4
    <2> QED BY <1>2, <1>3, <2>1, StaysOpen
  <1>7. UNCHANGED <<blocklist, lists>>
    BY DEF Lookup
  <1>8. run \in Runs /\ blocklist' \subseteq Devices
    BY <1>2, <1>7 DEF IInv, ProvisioningInv, ChainsOK, HoldersOK
  <1>9. /\ ask.type = "BlocklistRequest" /\ ask.number = case.number /\ ask.run = run
        /\ ask \in [type : {"BlocklistRequest"}, number : Nat, run : Runs]
    BY <1>0, <1>2, <1>8
  <1>10. FormOK(ask) /\ ask.type \in CaseMessages
    BY <1>9 DEF FormOK, CaseMessages
  <1>11. StageOK(ask)'
    BY <1>2, <1>6, <1>9 DEF StageOK, provisioning
  <1>12. CaseOK'
    BY <1>6, <1>7, CaseKept DEF lists
  <1>13. StagesOK'
    <2> DEFINE sent == {ask}
    <2>1. heap' = (heap \ {m}) \union sent
      BY <1>5
    <2>2. \A n \in sent : n.number = case.number /\ StageOK(n)'
      BY <1>9, <1>11
    <2>3. \A n, o \in sent : Together(n, o)
      BY DEF Together
    <2> HIDE DEF sent
    <2> QED BY <1>1, <1>6, <2>1, <2>2, <2>3, NextStage
  <1> QED BY <1>1, <1>5, <1>7, <1>8, <1>10, <1>12, <1>13, StageStep

LEMMA RaBlocklistStep ==
    ASSUME IInv, NEW m \in heap, RaBlocklist(m),
           UNCHANGED <<provisioning, vehicle, retired, reporting, queue, cases, versions,
                       listener, pc>>
    PROVE  IInv'
  <1>0. PICK ans : ans = [type |-> "BlocklistResponse", number |-> m.number,
                          lcis |-> {case.cert.lci}]
    OBVIOUS
  <1>1. m.type = "BlocklistRequest" /\ m.type \in CaseMessages
    BY DEF RaBlocklist, CaseMessages
  <1>2. /\ m.run \in DOMAIN requests /\ requests[m.run] = case.cert.lci
        /\ case.seeds = NoSeeds /\ case_open /\ m.number = case.number /\ m.number \in Nat
        /\ m.run \in Runs
    BY <1>1, OpenCase, CaseForms DEF StageOK
  <1>3. PICK known \in {{m.run} \intersect DOMAIN requests} :
           /\ blocklist' = blocklist \union {r[1] : r \in known}
           /\ Deliver(m, {[type |-> "BlocklistResponse", number |-> m.number,
                           lcis |-> {requests[r] : r \in known}]})
    BY DEF RaBlocklist
  <1>4. known = {m.run}
    BY <1>2, <1>3
  <1>5. {requests[r] : r \in known} = {case.cert.lci}
    BY <1>2, <1>4
  <1>6. heap' = (heap \ {m}) \union {ans}
    BY <1>0, <1>3, <1>5 DEF Deliver
  <1>7. case' = case /\ UNCHANGED lists
    BY DEF RaBlocklist
  <1>8. blocklist' \subseteq Devices
    <2>1. blocklist \subseteq Devices /\ m.run[1] \in Devices
      BY <1>2 DEF IInv, ProvisioningInv, HoldersOK, Runs
    <2> QED BY <1>3, <1>4, <2>1
  <1>9. /\ ans.type = "BlocklistResponse" /\ ans.number = case.number
        /\ ans.lcis = {case.cert.lci}
        /\ ans \in [type : {"BlocklistResponse"}, number : Nat, lcis : {ans.lcis}]
    BY <1>0, <1>2
  <1>10. FormOK(ans) /\ ans.type \in CaseMessages
    BY <1>9 DEF FormOK, CaseMessages
  <1>11. StageOK(ans)'
    BY <1>2, <1>7, <1>9 DEF StageOK
  <1>12. CaseOK'
    BY <1>7, CaseKept DEF lists
  <1>13. StagesOK'
    <2> DEFINE sent == {ans}
    <2>1. heap' = (heap \ {m}) \union sent
      BY <1>6
    <2>2. \A n \in sent : n.number = case.number /\ StageOK(n)'
      BY <1>9, <1>11
    <2>3. \A n, o \in sent : Together(n, o)
      BY DEF Together
    <2> HIDE DEF sent
    <2> QED BY <1>1, <1>7, <2>1, <2>2, <2>3, NextStage
  <1> QED BY <1>1, <1>6, <1>7, <1>8, <1>10, <1>12, <1>13, StageStep

LEMMA MaBlocklistStep ==
    ASSUME IInv, NEW m \in heap, MaBlocklist(m),
           UNCHANGED <<provisioning, vehicle, retired, reporting, queue, cases, versions,
                       listener, pc>>
    PROVE  IInv'
  <1> DEFINE ask(x) == [type |-> "SeedRequest", number |-> m.number, la |-> x,
                        lci |-> case.cert.lci[x], i |-> case.cert.i]
             sent == {ask(x) : x \in Authorities}
  <1>1. m.type = "BlocklistResponse" /\ m.type \in CaseMessages
    BY DEF MaBlocklist, CaseMessages
  <1>2. /\ m.lcis = {case.cert.lci} /\ case.seeds = NoSeeds /\ case_open
        /\ m.number = case.number /\ m.number \in Nat /\ case.cert \in Certificates
    BY <1>1, OpenCase DEF StageOK
  <1>3. case' = case
    <2>1. ~(m.lcis = {}) /\ (m.lcis = {}) \in BOOLEAN
      BY <1>2
    <2>2. case' = [case EXCEPT !.done = @ \/ m.lcis = {}]
      BY DEF MaBlocklist
    <2> QED BY <1>2, <2>1, <2>2, StaysOpen
  <1>4. heap' = (heap \ {m}) \union sent
    <2>1. heap' = (heap \ {m}) \union
                     {[type |-> "SeedRequest", number |-> m.number, la |-> x,
                       lci |-> lci[x], i |-> case.cert.i] : x \in Authorities, lci \in m.lcis}
      BY DEF MaBlocklist, Deliver, OwnChain
    <2>2. {[type |-> "SeedRequest", number |-> m.number, la |-> x,
            lci |-> lci[x], i |-> case.cert.i] : x \in Authorities, lci \in m.lcis} = sent
      BY <1>2
    <2> QED BY <2>1, <2>2
  <1>5. UNCHANGED <<blocklist, lists>>
    BY DEF MaBlocklist
  <1>6. blocklist' \subseteq Devices
    BY <1>5 DEF IInv, ProvisioningInv, HoldersOK
  <1>7. case.cert.i \in Nat /\ \A x \in Authorities : case.cert.lci[x] \in Nat
    BY <1>2, CertificateTyped DEF Certificate
  <1>8. ASSUME NEW n \in sent
        PROVE  /\ n.type = "SeedRequest" /\ n.number = case.number /\ n.type \in CaseMessages
               /\ FormOK(n) /\ StageOK(n)'
    <2>1. PICK x \in Authorities : n = ask(x)
      OBVIOUS
    <2>2. /\ n.type = "SeedRequest" /\ n.number = case.number /\ n.la = x
          /\ n.lci = case.cert.lci[x] /\ n.i = case.cert.i
          /\ n \in [type : {"SeedRequest"}, number : Nat, la : Authorities, lci : Nat, i : Nat]
      BY <1>2, <1>7, <2>1
    <2>3. case.seeds[x] = 0
      BY <1>2 DEF NoSeeds
    <2> QED BY <1>3, <2>2, <2>3 DEF FormOK, StageOK, CaseMessages
  <1> HIDE DEF sent
  <1>9. CaseOK'
    BY <1>3, <1>5, CaseKept DEF lists
  <1>10. StagesOK'
    <2>1. \A n, o \in sent : Together(n, o)
      BY <1>8 DEF Together
    <2> QED BY <1>1, <1>3, <1>4, <1>8, <2>1, NextStage
  <1> QED BY <1>1, <1>4, <1>5, <1>6, <1>8, <1>9, <1>10, StageStep

LEMMA SeedStep ==
    ASSUME IInv, NEW m \in heap, Seed(m),
           UNCHANGED <<provisioning, vehicle, retired, reporting, queue, cases, versions,
                       listener, pc>>
    PROVE  IInv'
  <1> DEFINE lci == case.cert.lci
  <1>0. PICK add : add = [type |-> "CrlAppend", number |-> case.number, entry |-> case.cert]
    OBVIOUS
  <1>1. m.type = "SeedRequest" /\ m.type \in CaseMessages
    BY DEF Seed, CaseMessages
  <1>2. /\ m \in [type : {m.type}, number : Nat, la : Authorities, lci : Nat, i : Nat]
        /\ m.lci = lci[m.la] /\ m.i = case.cert.i /\ case.seeds[m.la] = 0
        /\ case_open /\ m.number = case.number /\ m.number \in Nat /\ case.cert \in Certificates
        /\ case \in [number : Nat, cert : Certificates, seeds : [Authorities -> Nat],
                     done : BOOLEAN]
        /\ \A x \in Authorities : case.seeds[x] \in {0, lci[x]}
    BY <1>1, OpenCase, CaseForms DEF StageOK
  <1>3. m.lci \in DOMAIN owner[m.la]
    BY <1>1, <1>2, OpenCase DEF ChainsOf
  <1>4. /\ case' = [case EXCEPT !.seeds[m.la] = m.lci]
        /\ Deliver(m, IF HasBoth(case'.seeds)
                      THEN {[type |-> "CrlAppend", number |-> case.number,
                             entry |-> [lci |-> case'.seeds, i |-> m.i]]}
                      ELSE {})
        /\ UNCHANGED <<blocklist, lists>>
    BY <1>3 DEF Seed
  <1>5. /\ case' \in [number : Nat, cert : Certificates, seeds : [Authorities -> Nat],
                      done : BOOLEAN]
        /\ case'.number = case.number /\ case'.cert = case.cert
        /\ case'.seeds = [case.seeds EXCEPT ![m.la] = m.lci]
    BY <1>2, <1>4
  <1>6. case'.done <=> case.done
    BY <1>2, <1>4, Zenon
  <1>7. /\ case'.seeds[m.la] = m.lci
        /\ \A x \in Authorities : x # m.la => case'.seeds[x] = case.seeds[x]
    BY <1>2, <1>5
  <1>8. \A x \in Authorities : case'.seeds[x] \in {0, lci[x]}
    BY <1>2, <1>7
  <1>9. CaseOK'
    <2>1. \A c : Covered(c)' <=> Covered(c)
      BY <1>4 DEF Covered, lists
    <2>2. case_open' => case_open
      BY <1>6 DEF case_open
    <2>3. /\ case.number \in DOMAIN cases /\ case.cert = cases[case.number].cert
          /\ ~Covered(case.cert)
      BY <1>1, OpenCase
    <2> QED BY <1>5, <1>8, <2>1, <2>2, <2>3 DEF CaseOK
  <1>10. ASSUME NEW n \in heap, n.type \in CaseMessages, n # m
         PROVE  /\ n.type = "SeedRequest" /\ n.number = case.number /\ n.la \in Authorities
                /\ n.lci = lci[n.la] /\ n.i = case.cert.i /\ n.la # m.la
                /\ case'.seeds[n.la] = 0
    <2>1. n.type = "SeedRequest" /\ StageOK(n) /\ n.number = case.number
      BY <1>1, <1>10, OpenCase DEF Together
    <2>2. n \in [type : {n.type}, number : Nat, la : Authorities, lci : Nat, i : Nat]
      BY <2>1, CaseForms
    <2>3. n.lci = lci[n.la] /\ n.i = case.cert.i /\ case.seeds[n.la] = 0
      BY <2>1 DEF StageOK
    <2>4. n.la # m.la
      BY <1>1, <1>2, <1>10, <2>1, <2>2, <2>3
    <2> QED BY <1>7, <2>1, <2>2, <2>3, <2>4
  <1>11. case_open'
    BY <1>2, <1>6 DEF case_open
  <1>12. blocklist' \subseteq Devices
    BY <1>4 DEF IInv, ProvisioningInv, HoldersOK
  <1>13. CASE HasBoth(case'.seeds)
    <2>1. \A n \in heap : n.type \in CaseMessages => n = m
      BY <1>10, <1>13 DEF HasBoth
    <2>2. case'.seeds = lci
      <3>1. case'.seeds \in [Authorities -> Nat] /\ lci \in [Authorities -> Nat]
        BY <1>2, <1>5, CertificateTyped DEF Certificate
      <3>2. \A x \in Authorities : case'.seeds[x] = lci[x]
        BY <1>8, <1>13 DEF HasBoth
      <3> QED BY <3>1, <3>2
    <2>3. [lci |-> case'.seeds, i |-> m.i] = case.cert
      BY <1>2, <2>2 DEF Certificates
    <2>4. heap' = (heap \ {m}) \union {add}
      BY <1>0, <1>4, <1>13, <2>3 DEF Deliver
    <2>5. /\ add.type = "CrlAppend" /\ add.number = case.number /\ add.entry = case.cert
          /\ add \in [type : {"CrlAppend"}, number : Nat, entry : Certificate]
      BY <1>0, <1>2, CertificateTyped
    <2>6. FormOK(add) /\ add.type \in CaseMessages
      BY <2>5 DEF FormOK, CaseMessages
    <2>7. StageOK(add)'
      BY <1>5, <2>5 DEF StageOK
    <2>8. \A n \in heap' : n.type \in CaseMessages => n = add
      BY <2>1, <2>4
    <2>9. StagesOK'
      BY <1>5, <1>11, <2>5, <2>7, <2>8 DEF StagesOK, OneCaseInFlight, Together
    <2> QED BY <1>1, <1>4, <1>9, <1>12, <2>4, <2>6, <2>9, StageStep
  <1>14. CASE ~HasBoth(case'.seeds)
    <2>1. heap' = (heap \ {m}) \union {}
      BY <1>4, <1>14 DEF Deliver
    <2>2. \A n \in heap' : n.type \in CaseMessages => n \in heap /\ n # m
      BY <2>1
    <2>3. ASSUME NEW n \in heap', n.type \in CaseMessages
          PROVE  StageOK(n)' /\ n.type = "SeedRequest" /\ n.number = case'.number
      BY <1>5, <1>10, <2>2, <2>3 DEF StageOK
    <2>4. StagesOK'
      BY <1>11, <2>3 DEF StagesOK, OneCaseInFlight, Together
    <2> QED BY <1>1, <1>4, <1>9, <1>12, <2>1, <2>4, StageStep
  <1> QED BY <1>13, <1>14

------------------------------------------------------------------------------
(***************************************************************************)
(* The Generator's list and its copies.                                    *)
(***************************************************************************)

\* A longer list at the Generator takes nothing from a vehicle.
LEMMA ListenersGrow ==
    ASSUME IInv, UNCHANGED <<listener, air>>, Len(crlg') \in Nat, Len(crlg) <= Len(crlg'),
           \A k \in 1..Len(crlg) : crlg'[k] = crlg[k]
    PROVE  ListenersOK'
  <1>1. Len(crlg) \in Nat
    BY EntriesFacts
  <1>2. Entries(Len(crlg)) \subseteq Entries(Len(crlg))'
    <2> SUFFICES ASSUME NEW k \in 1..Len(crlg)
                 PROVE  crlg[k] \in {crlg'[j] : j \in 1..Len(crlg')}
      BY DEF Entries
    <2>1. k \in 1..Len(crlg') /\ crlg'[k] = crlg[k]
      BY <1>1
    <2> QED BY <2>1
  <1>3. \A t : SentOK(t) => SentOK(t)'
    BY <1>1, <1>2 DEF SentOK
  <1>4. ListenersOK
    BY DEF IInv, ListInv
  <1> QED BY <1>2, <1>3, <1>4 DEF ListenersOK, ListenerOK

LEMMA PublicationFacts ==
    ASSUME NEW n \in Nat
    PROVE  /\ \A m \in Publication(n) : m.type = "CrlPublish" /\ FormOK(m)
           /\ \E m \in Publication(n) : m.type = "CrlPublish" /\ m.to = "store"
  <1>1. ASSUME NEW t \in {"store", "broadcast"}, NEW m, m = [type |-> "CrlPublish", to |-> t, n |-> n]
        PROVE  m.type = "CrlPublish" /\ m.to = t /\ FormOK(m)
    <2>1. /\ m.type = "CrlPublish" /\ m.to = t
          /\ m \in [type : {"CrlPublish"}, to : {"store", "broadcast"}, n : Nat]
      BY <1>1
    <2> QED BY <2>1 DEF FormOK
  <1> QED BY <1>1 DEF Publication

LEMMA CrlAppendStep ==
    ASSUME IInv, NEW m \in heap, CrlAppend(m),
           UNCHANGED <<provisioning, vehicle, retired, reporting, queue, cases, versions,
                       listener, pc>>
    PROVE  IInv'
  <1>1. m.type = "CrlAppend" /\ m.type \in CaseMessages
    BY DEF CrlAppend, CaseMessages
  <1>2. /\ m.entry = case.cert /\ m.number = case.number /\ case.number \in DOMAIN cases
        /\ case.cert = cases[case.number].cert /\ ~Covered(case.cert)
        /\ case \in [number : Nat, cert : Certificates, seeds : [Authorities -> Nat],
                     done : BOOLEAN]
        /\ \A n \in heap : n.type \in CaseMessages => n = m
    BY <1>1, OpenCase DEF StageOK, Together
  <1>3. /\ crlg' = Append(crlg, case.cert) /\ case' = [case EXCEPT !.done = TRUE]
        /\ issuances' = issuances \union {case.number} /\ publish_armed' = OnCadence
        /\ UNCHANGED <<blocklist, crl_store, crl_broadcast>>
    BY <1>2 DEF CrlAppend
  <1>4. ListsOK /\ WindowsOK /\ SubjectsOK
    BY DEF IInv, ListInv, CaseInv
  <1>5. /\ Len(crlg) \in Nat /\ crlg' \in Lists /\ Len(crlg') = Len(crlg) + 1
        /\ DOMAIN crlg = 1..Len(crlg) /\ DOMAIN crlg' = 1..(Len(crlg) + 1)
        /\ \A k \in 1..Len(crlg) : crlg'[k] = crlg[k]
        /\ crlg'[Len(crlg) + 1] = case.cert
    <2>1. crlg \in Seq(Certificates) /\ case.cert \in Certificates
      BY <1>2, <1>4 DEF ListsOK, Lists
    <2>2. Len(crlg) \in Nat /\ DOMAIN crlg = 1..Len(crlg)
      BY <2>1, LenProperties
    <2>3. /\ crlg' \in Seq(Certificates) /\ Len(crlg') = Len(crlg) + 1
          /\ \A k \in 1..Len(crlg) : crlg'[k] = crlg[k]
          /\ crlg'[Len(crlg) + 1] = case.cert
      BY <1>3, <2>1, AppendProperties
    <2>4. DOMAIN crlg' = 1..Len(crlg')
      BY <2>3, LenProperties
    <2> QED BY <2>2, <2>3, <2>4 DEF Lists
  <1>6. PICK sent : /\ heap' = (heap \ {m}) \union sent
                    /\ ~OnCadence => sent = Publication(Len(crlg'))
                    /\ OnCadence /\ ~publish_armed => sent = {[type |-> "CrlPublishTimer"]}
                    /\ OnCadence /\ publish_armed => sent = {}
    <2> DEFINE S == CASE ~OnCadence -> Publication(Len(crlg'))
                      [] OnCadence /\ ~publish_armed -> {[type |-> "CrlPublishTimer"]}
                      [] OTHER -> {}
    <2>1. heap' = (heap \ {m}) \union S
      BY DEF CrlAppend, Deliver
    <2>2. ~OnCadence => S = Publication(Len(crlg'))
      OBVIOUS
    <2>3. OnCadence /\ ~publish_armed => S = {[type |-> "CrlPublishTimer"]}
      OBVIOUS
    <2>4. OnCadence /\ publish_armed => S = {}
      OBVIOUS
    <2> HIDE DEF S
    <2> QED BY <2>1, <2>2, <2>3, <2>4
  <1>7. \A n \in sent : n.type \in {"CrlPublish", "CrlPublishTimer"} /\ FormOK(n)
    <2>1. FormOK([type |-> "CrlPublishTimer"])
      BY DEF FormOK
    <2>2. Len(crlg') \in Nat
      BY <1>5
    <2>3. CASE ~OnCadence
      BY <1>6, <2>2, <2>3, PublicationFacts
    <2>4. CASE OnCadence /\ ~publish_armed
      BY <1>6, <2>1, <2>4
    <2>5. CASE OnCadence /\ publish_armed
      BY <1>6, <2>5
    <2> QED BY <2>3, <2>4, <2>5
  <1>8. \A n \in (heap' \ heap) \union (heap \ heap') :
           n.type \in {"CrlAppend", "CrlPublish", "CrlPublishTimer"}
    BY <1>1, <1>6, <1>7
  <1>9. ProvisioningInv'
    <2>1. NoFlows
      BY <1>8 DEF NoFlows, ProvisioningTypes
    <2>2. SameVehicles /\ blocklist' \subseteq Devices
      BY <1>3, SameVehicle DEF IInv, ProvisioningInv, HoldersOK
    <2> QED BY <2>1, <2>2, FlowsKept
  <1>10. SubjectsOK'
    <2>1. \A n \in heap' : n.type = "Report" => n \in heap
      BY <1>8
    <2>2. issuances' \subseteq DOMAIN cases
      BY <1>2, <1>3, <1>4 DEF SubjectsOK
    <2> QED BY <1>4, <2>1, <2>2 DEF SubjectsOK, reporting, provisioning
  <1>11. CaseOK'
    <2>1. /\ case' \in [number : Nat, cert : Certificates, seeds : [Authorities -> Nat],
                        done : BOOLEAN]
          /\ case'.done
      BY <1>2, <1>3
    <2> QED BY <2>1 DEF CaseOK, case_open
  <1>12. StagesOK'
    <2>1. \A n \in heap' : n.type \notin CaseMessages
      BY <1>2, <1>6, <1>7 DEF CaseMessages
    <2> QED BY <2>1 DEF StagesOK, OneCaseInFlight
  <1>13. ListsOK'
    <2>1. \A k \in DOMAIN crlg' : \E n \in DOMAIN cases' : crlg'[k] = cases'[n].cert
      BY <1>2, <1>4, <1>5 DEF ListsOK
    <2>2. NoSecondEntry'
      <3> SUFFICES ASSUME NEW j \in 1..(Len(crlg) + 1), NEW k \in 1..(Len(crlg) + 1), j < k
                   PROVE  ~Revokes(crlg'[j], crlg'[k])
        BY <1>5 DEF NoSecondEntry, Revokes
      <3>1. j \in 1..Len(crlg) /\ crlg'[j] = crlg[j]
        BY <1>5
      <3>2. CASE k = Len(crlg) + 1
        BY <1>2, <1>5, <3>1, <3>2 DEF Covered
      <3>3. CASE k # Len(crlg) + 1
        <4>1. k \in 1..Len(crlg) /\ crlg'[k] = crlg[k]
          BY <1>5, <3>3
        <4> QED BY <1>4, <1>5, <3>1, <4>1 DEF ListsOK, NoSecondEntry
      <3> QED BY <3>2, <3>3
    <2>3. Earlier(crl_store)' /\ Earlier(crl_broadcast)'
      <3> SUFFICES ASSUME NEW list, Earlier(list)
                   PROVE  Len(list) <= Len(crlg') /\ \A k \in DOMAIN list : list[k] = crlg'[k]
        BY <1>3, <1>4 DEF ListsOK, Earlier
      <3>1. /\ Len(list) \in Nat /\ DOMAIN list = 1..Len(list) /\ Len(list) <= Len(crlg)
            /\ \A k \in DOMAIN list : list[k] = crlg[k]
        BY LenProperties DEF Earlier, Lists
      <3> QED BY <1>5, <3>1
    <2> QED BY <1>3, <1>4, <1>5, <2>1, <2>2, <2>3 DEF ListsOK, versions
  <1>14. ListenersOK'
    <2>1. Len(crlg') \in Nat /\ Len(crlg) <= Len(crlg')
      BY <1>5
    <2> QED BY <1>5, <2>1, ListenersGrow DEF versions
  <1>15. WindowsOK'
    <2>1. \A n \in (heap' \ heap) \union (heap \ heap') : n.type # "ReportShuffleTimer"
      BY <1>8
    <2>2. Scheduled("ReportShuffleTimer")' <=> Scheduled("ReportShuffleTimer")
      BY <2>1, TimerKept
    <2>3. Scheduled("CrlPublishTimer")' <=> OnCadence
      <3>1. CASE ~OnCadence
        <4>1. ~Scheduled("CrlPublishTimer")
          BY <1>4, <3>1 DEF WindowsOK
        <4>2. \A n \in sent : n.type = "CrlPublish"
          BY <1>5, <1>6, <3>1, PublicationFacts
        <4>3. \A n \in (heap' \ heap) \union (heap \ heap') : n.type # "CrlPublishTimer"
          BY <1>1, <1>6, <4>2
        <4> QED BY <3>1, <4>1, <4>3, TimerKept
      <3>2. CASE OnCadence /\ ~publish_armed
        BY <1>6, <3>2 DEF Scheduled
      <3>3. CASE OnCadence /\ publish_armed
        <4>1. \A n \in (heap' \ heap) \union (heap \ heap') : n.type # "CrlPublishTimer"
          BY <1>1, <1>6, <3>3
        <4>2. Scheduled("CrlPublishTimer")
          BY <1>4, <3>3 DEF WindowsOK
        <4> QED BY <3>3, <4>1, <4>2, TimerKept
      <3> QED BY <3>1, <3>2, <3>3
    <2>4. OnCadence \/ \E n \in heap' : n.type = "CrlPublish" /\ n.to = "store"
      <3>1. CASE ~OnCadence
        <4>1. Len(crlg') \in Nat
          BY <1>5
        <4> QED BY <1>6, <3>1, <4>1, PublicationFacts
      <3> QED BY <3>1
    <2>5. publish_armed' \in BOOLEAN /\ (publish_armed' <=> OnCadence)
      BY <1>3, CadenceAssumption
    <2> QED BY <1>4, <2>2, <2>3, <2>4, <2>5 DEF WindowsOK, versions, reporting
  <1>16. \A n \in heap' : FormOK(n)
    BY <1>6, <1>7 DEF IInv
  <1>17. filed' \in 0..MaxReports /\ pc' \in {"idle", "first", "second"}
    BY DEF IInv, ListInv, reporting
  <1> QED BY <1>9, <1>10, <1>11, <1>12, <1>13, <1>14, <1>15, <1>16, <1>17
          DEF IInv, CaseInv, ListInv, FormOK

\* What is left to show of a publication: the lists.
LEMMA PublishStep ==
    ASSUME IInv, NEW m \in heap, m.type \in {"CrlPublish", "CrlPublishTimer"}, NEW sent,
           heap' = (heap \ {m}) \union sent,
           \A n \in sent : n.type = "CrlPublish" /\ FormOK(n),
           UNCHANGED <<provisioning, vehicle, retired, reporting, queue, cases, versions,
                       listener, pc, blocklist, case, crlg, issuances>>,
           ListsOK', WindowsOK', ListenersOK'
    PROVE  IInv'
  <1>1. \A n \in (heap' \ heap) \union (heap \ heap') :
           n.type \in {"CrlPublish", "CrlPublishTimer"}
    OBVIOUS
  <1>2. ProvisioningInv'
    <2>1. NoFlows
      BY <1>1 DEF NoFlows, ProvisioningTypes
    <2>2. SameVehicles /\ blocklist' \subseteq Devices
      BY SameVehicle DEF IInv, ProvisioningInv, HoldersOK
    <2> QED BY <2>1, <2>2, FlowsKept
  <1>3. SubjectsOK'
    <2>1. ra_reports' \union arrived' \subseteq DOMAIN issued
      BY DEF IInv, CaseInv, SubjectsOK, reporting
    <2>2. \A n \in heap' \ heap : n.type = "Report" => n.cert \in DOMAIN issued
      BY <1>1
    <2> QED BY <2>1, <2>2, SubjectsKept DEF provisioning
  <1>4. CaseOK' /\ StagesOK'
    <2>1. \A n \in (heap' \ heap) \union (heap \ heap') : n.type \notin CaseMessages
      BY <1>1 DEF CaseMessages
    <2> QED BY <2>1, StagesKept DEF provisioning
  <1>5. \A n \in heap' : FormOK(n)
    BY DEF IInv
  <1>6. filed' \in 0..MaxReports /\ pc' \in {"idle", "first", "second"}
    BY DEF IInv, ListInv, reporting
  <1> QED BY <1>2, <1>3, <1>4, <1>5, <1>6 DEF IInv, CaseInv, ListInv, FormOK

LEMMA CrlPublishTimerStep ==
    ASSUME IInv, NEW m \in heap, CrlPublishTimer(m),
           UNCHANGED <<provisioning, vehicle, retired, reporting, queue, cases, versions,
                       listener, pc>>
    PROVE  IInv'
  <1>1. /\ m.type = "CrlPublishTimer" /\ publish_armed' = FALSE
        /\ heap' = (heap \ {m}) \union Publication(Len(crlg))
        /\ UNCHANGED <<blocklist, case, crlg, crl_store, crl_broadcast, issuances>>
    BY DEF CrlPublishTimer, Deliver
  <1>2. m = [type |-> "CrlPublishTimer"]
    BY <1>1, FlowForms
  <1>3. Len(crlg) \in Nat
    BY EntriesFacts
  <1>4. /\ \A n \in Publication(Len(crlg)) : n.type = "CrlPublish" /\ FormOK(n)
        /\ \E n \in Publication(Len(crlg)) : n.type = "CrlPublish" /\ n.to = "store"
    BY <1>3, PublicationFacts
  <1>5. ListsOK' /\ ListenersOK'
    BY <1>1, ListsKept, ListenersKept DEF versions
  <1>6. WindowsOK'
    <2>1. WindowsOK
      BY DEF IInv, ListInv
    <2>2. \A n \in (heap' \ heap) \union (heap \ heap') : n.type # "ReportShuffleTimer"
      BY <1>1, <1>4
    <2>3. Scheduled("ReportShuffleTimer")' <=> Scheduled("ReportShuffleTimer")
      BY <2>2, TimerKept
    <2>4. ~Scheduled("CrlPublishTimer")'
      BY <1>1, <1>2, <1>4 DEF Scheduled
    <2>5. \E n \in heap' : n.type = "CrlPublish" /\ n.to = "store"
      BY <1>1, <1>4
    <2> QED BY <1>1, <2>1, <2>3, <2>4, <2>5 DEF WindowsOK, versions, reporting
  <1> HIDE DEF Publication
  <1> QED BY <1>1, <1>4, <1>5, <1>6, PublishStep

LEMMA CrlPublishStep ==
    ASSUME IInv, NEW m \in heap, CrlPublish(m),
           UNCHANGED <<provisioning, vehicle, retired, reporting, queue, cases, versions,
                       listener, pc>>
    PROVE  IInv'
  <1>1. /\ m.type = "CrlPublish" /\ heap' = (heap \ {m}) \union {}
        /\ crl_store' = IF m.to = "store" THEN crlg ELSE crl_store
        /\ crl_broadcast' = IF m.to = "broadcast" THEN crlg ELSE crl_broadcast
        /\ UNCHANGED <<blocklist, case, crlg, publish_armed, issuances>>
    BY DEF CrlPublish, Deliver, ListOf
  <1>2. ListsOK /\ WindowsOK
    BY DEF IInv, ListInv
  <1>3. Len(crlg) \in Nat /\ Len(crl_store) \in Nat /\ Len(crl_broadcast) \in Nat
        /\ Len(crl_store) <= Len(crlg) /\ Len(crl_broadcast) <= Len(crlg)
        /\ DOMAIN crlg = 1..Len(crlg)
    BY EntriesFacts
  <1>4. Earlier(crlg)
    BY <1>2, <1>3 DEF Earlier, ListsOK
  <1>5. ListsOK'
    <2>1. Earlier(crl_store') /\ Earlier(crl_broadcast')
      BY <1>1, <1>2, <1>4 DEF ListsOK
    <2>2. Earlier(crl_store)' /\ Earlier(crl_broadcast)'
      BY <1>1, <2>1 DEF Earlier
    <2>3. Len(crl_store) <= Len(crl_store') /\ Len(crl_broadcast) <= Len(crl_broadcast')
          /\ Len(crl_store') \in Nat /\ Len(crl_broadcast') \in Nat
      BY <1>1, <1>3
    <2>4. published' \in 0..Len(crl_store') /\ broadcast' \in 0..Len(crl_broadcast')
      BY <1>2, <1>3, <2>3 DEF ListsOK, versions
    <2>5. NoSecondEntry'
      BY <1>1, <1>2 DEF ListsOK, NoSecondEntry, Revokes
    <2> QED BY <1>1, <1>2, <2>2, <2>4, <2>5 DEF ListsOK
  <1>6. ListenersOK'
    <2>1. Len(crlg') \in Nat /\ Len(crlg) <= Len(crlg') /\ \A k \in 1..Len(crlg) : crlg'[k] = crlg[k]
      BY <1>1, <1>3
    <2> QED BY <2>1, ListenersGrow DEF versions
  <1>7. WindowsOK'
    <2>1. \A n \in (heap' \ heap) \union (heap \ heap') :
             n.type # "ReportShuffleTimer" /\ n.type # "CrlPublishTimer"
      BY <1>1
    <2>2. /\ Scheduled("ReportShuffleTimer")' <=> Scheduled("ReportShuffleTimer")
          /\ Scheduled("CrlPublishTimer")' <=> Scheduled("CrlPublishTimer")
      BY <2>1, TimerKept
    <2>3. Len(crl_store') < Len(crlg') =>
             publish_armed' \/ \E n \in heap' : n.type = "CrlPublish" /\ n.to = "store"
      <3>1. CASE m.to = "store"
        BY <1>1, <1>3, <3>1
      <3>2. CASE m.to # "store"
        BY <1>1, <1>2, <3>2 DEF WindowsOK
      <3> QED BY <3>1, <3>2
    <2> QED BY <1>1, <1>2, <2>2, <2>3 DEF WindowsOK, versions, reporting
  <1>8. PICK sent : sent = {}
    OBVIOUS
  <1>9. heap' = (heap \ {m}) \union sent /\ \A n \in sent : n.type = "CrlPublish" /\ FormOK(n)
    BY <1>1, <1>8
  <1> QED BY <1>1, <1>5, <1>6, <1>7, <1>9, PublishStep

LEMMA CaseworkStep ==
    ASSUME IInv, NEW m \in heap, Casework(m), UNCHANGED <<versions, listener, pc>>
    PROVE  IInv'
  <1>1. UNCHANGED <<provisioning, vehicle, retired, reporting, queue, cases, versions,
                    listener, pc>>
    BY DEF Casework
  <1> QED BY <1>1, LookupStep, RaBlocklistStep, MaBlocklistStep, SeedStep, CrlAppendStep,
             CrlPublishTimerStep, CrlPublishStep DEF Casework

------------------------------------------------------------------------------
(***************************************************************************)
(* The engine's step.                                                      *)
(***************************************************************************)

LEMMA FiniteCertificates == IsFiniteSet(Certificates)
  <1>1. 0 \in Int /\ Cardinality(Runs) \in Int /\ MaxPeriod \in Int
    BY Constants
  <1>2. IsFiniteSet(0..Cardinality(Runs)) /\ IsFiniteSet(Periods)
    BY <1>1, FS_Interval DEF Periods
  <1> DEFINE pairs == (0..Cardinality(Runs)) \X (0..Cardinality(Runs))
             f == [p \in pairs |-> [x \in Authorities |-> IF x = 1 THEN p[1] ELSE p[2]]]
             g == [p \in Chains \X Periods |-> [lci |-> p[1], i |-> p[2]]]
  <1>3. IsFiniteSet(pairs)
    BY <1>2, FS_Product
  <1>4. f \in Surjection(pairs, Chains)
    <2>1. f \in [pairs -> Chains]
      BY DEF Chains
    <2>2. ASSUME NEW c \in Chains
          PROVE  \E p \in pairs : f[p] = c
      <3>1. /\ c \in [Authorities -> 0..Cardinality(Runs)] /\ 1 \in Authorities /\ 2 \in Authorities
            /\ \A x \in Authorities : x # 1 => x = 2
        BY DEF Chains, Authorities
      <3>2. PICK p : p = <<c[1], c[2]>>
        OBVIOUS
      <3>3. p \in pairs /\ p[1] = c[1] /\ p[2] = c[2]
        BY <3>1, <3>2
      <3>4. [x \in Authorities |-> IF x = 1 THEN p[1] ELSE p[2]] = c
        BY <3>1, <3>3
      <3>5. f[p] = c
        BY <3>3, <3>4
      <3> QED BY <3>3, <3>5
    <2> QED BY <2>1, <2>2 DEF Surjection
  <1>5. IsFiniteSet(Chains)
    BY <1>3, <1>4, FS_Surjection
  <1>6. IsFiniteSet(Chains \X Periods)
    BY <1>2, <1>5, FS_Product
  <1>7. g \in Surjection(Chains \X Periods, Certificates)
    <2>1. \A p \in Chains \X Periods : g[p] \in Certificates
      BY DEF Certificates
    <2>2. ASSUME NEW c \in Certificates
          PROVE  \E p \in Chains \X Periods : g[p] = c
      <3>1. c.lci \in Chains /\ c.i \in Periods /\ c = [lci |-> c.lci, i |-> c.i]
        BY DEF Certificates
      <3>2. PICK p : p = <<c.lci, c.i>>
        OBVIOUS
      <3>3. p \in Chains \X Periods /\ p[1] = c.lci /\ p[2] = c.i
        BY <3>1, <3>2
      <3> QED BY <3>1, <3>3
    <2> QED BY <2>1, <2>2 DEF Surjection
  <1> QED BY <1>6, <1>7, FS_Surjection

\* The next decision becomes the case when none is open: nothing is in flight then.
LEMMA StartCasesStep ==
    ASSUME IInv, NEW q \in Seq(Certificates), \A k \in DOMAIN q : q[k] \in DOMAIN issued,
           StartCases(q, heap), arrived' \subseteq arrived, pc' \in {"first", "second"},
           UNCHANGED <<provisioning, blocklist, vehicle, retired, ra_reports, report_armed,
                       filed, lists, versions, listener>>
    PROVE  IInv'
  <1> USE DEF lists, versions
  <1>1. SubjectsOK /\ CaseOK /\ StagesOK /\ ListsOK /\ WindowsOK
    BY DEF IInv, CaseInv, ListInv
  <1>2. Len(q) \in Nat /\ DOMAIN q = 1..Len(q) /\ \A k \in 1..Len(q) : q[k] \in Certificates
    BY LenProperties, ElementOfSeq
  <1>3. ASSUME \A n \in (heap' \ heap) \union (heap \ heap') : n.type = "PcaLookupRequest",
               \A n \in heap' : FormOK(n),
               queue' \in Seq(Certificates), \A k \in DOMAIN queue' : queue'[k] \in DOMAIN issued,
               cases' \in Seq([cert : Certificates, entry : Nat]),
               \A n \in DOMAIN cases' : cases'[n].cert \in DOMAIN issued,
               DOMAIN cases \subseteq DOMAIN cases',
               \A n \in DOMAIN cases : cases'[n] = cases[n],
               CaseOK', StagesOK'
        PROVE  IInv'
    <2>1. ProvisioningInv'
      <3>1. NoFlows
        BY <1>3 DEF NoFlows, ProvisioningTypes
      <3>2. SameVehicles /\ blocklist' \subseteq Devices
        BY SameVehicle DEF IInv, ProvisioningInv, HoldersOK
      <3> QED BY <3>1, <3>2, FlowsKept
    <2>2. SubjectsOK'
      <3>1. \A n \in heap' : n.type = "Report" => n \in heap
        BY <1>3
      <3>2. issuances' \subseteq DOMAIN cases'
        BY <1>1, <1>3 DEF SubjectsOK
      <3> QED BY <1>1, <1>3, <3>1, <3>2 DEF SubjectsOK, provisioning
    <2>3. ListsOK'
      <3>1. \A k \in DOMAIN crlg' : \E n \in DOMAIN cases' : crlg'[k] = cases'[n].cert
        BY <1>1, <1>3 DEF ListsOK
      <3> QED BY <1>1, <3>1 DEF ListsOK, NoSecondEntry, Revokes, Earlier
    <2>4. WindowsOK'
      <3>1. \A n \in (heap' \ heap) \union (heap \ heap') :
               /\ n.type # "ReportShuffleTimer" /\ n.type # "CrlPublishTimer"
               /\ n.type # "CrlPublish" \/ n.to # "store"
        BY <1>3
      <3>2. crl_timer_armed' \in BOOLEAN
        BY <1>1 DEF WindowsOK
      <3> QED BY <3>1, <3>2, WindowsKept
    <2>5. ListenersOK'
      BY ListenersKept
    <2>6. filed' \in 0..MaxReports
      BY DEF IInv, ListInv
    <2> QED BY <1>3, <2>1, <2>2, <2>3, <2>4, <2>5, <2>6 DEF IInv, CaseInv, ListInv, FormOK
  <1>4. CASE ~MayOpen(q)
    <2>1. heap' = heap /\ case' = case /\ cases' = cases /\ queue' \in {q, <<>>}
      BY <1>4 DEF StartCases
    <2>2. queue' \in Seq(Certificates) /\ \A k \in DOMAIN queue' : queue'[k] \in DOMAIN issued
      <3>1. CASE queue' = q
        BY <3>1
      <3>2. CASE queue' = <<>>
        <4>1. <<>> \in Seq(Certificates) /\ DOMAIN queue' = {}
          BY <3>2, EmptySeq
        <4> QED BY <3>2, <4>1
      <3> QED BY <2>1, <3>1, <3>2
    <2>3. CaseOK' /\ StagesOK'
      BY <2>1, StagesKept DEF provisioning
    <2>4. \A n \in heap' : FormOK(n)
      BY <2>1 DEF IInv
    <2> QED BY <1>1, <1>3, <2>1, <2>2, <2>3, <2>4 DEF SubjectsOK
  <1>5. CASE MayOpen(q)
    <2>1. PICK k \in Uncovered(q) :
             /\ case' = [number |-> Len(cases) + 1, cert |-> q[k], seeds |-> NoSeeds,
                         done |-> FALSE]
             /\ cases' = Append(cases, [cert |-> q[k], entry |-> 0])
             /\ queue' = SubSeq(q, k + 1, Len(q))
             /\ heap' = heap \union {[type |-> "PcaLookupRequest", number |-> Len(cases) + 1,
                                      cert |-> q[k]]}
      BY <1>5 DEF StartCases
    <2>2. k \in 1..Len(q) /\ q[k] \in Certificates /\ q[k] \in DOMAIN issued /\ ~Covered(q[k])
      BY <1>2 DEF Uncovered
    <2>3. PICK c, N, ask : /\ c = q[k] /\ N = Len(cases) + 1
                           /\ ask = [type |-> "PcaLookupRequest", number |-> N, cert |-> c]
      OBVIOUS
    <2>4. /\ Len(cases) \in Nat /\ DOMAIN cases = 1..Len(cases)
          /\ cases' \in Seq([cert : Certificates, entry : Nat])
          /\ DOMAIN cases' = 1..N /\ N \in Nat /\ N \in DOMAIN cases'
          /\ \A n \in DOMAIN cases : cases'[n] = cases[n]
          /\ cases'[N].cert = c
      <3>1. cases \in Seq([cert : Certificates, entry : Nat])
        BY <1>1 DEF SubjectsOK
      <3>2. Len(cases) \in Nat /\ DOMAIN cases = 1..Len(cases)
        BY <3>1, LenProperties
      <3>3. [cert |-> c, entry |-> 0] \in [cert : Certificates, entry : Nat]
        BY <2>2, <2>3
      <3>4. /\ cases' \in Seq([cert : Certificates, entry : Nat])
            /\ Len(cases') = Len(cases) + 1
            /\ \A n \in 1..Len(cases) : cases'[n] = cases[n]
            /\ cases'[Len(cases) + 1] = [cert |-> c, entry |-> 0]
        BY <2>1, <2>3, <3>1, <3>3, AppendProperties
      <3>5. DOMAIN cases' = 1..Len(cases')
        BY <3>4, LenProperties
      <3> QED BY <2>3, <3>2, <3>4, <3>5
    <2>5. \A n \in DOMAIN cases' : cases'[n].cert \in DOMAIN issued
      <3>1. \A n \in 1..N : n \in 1..Len(cases) \/ n = N
        BY <2>3, <2>4
      <3> QED BY <1>1, <2>2, <2>3, <2>4, <3>1 DEF SubjectsOK
    <2>6. queue' \in Seq(Certificates) /\ \A j \in DOMAIN queue' : queue'[j] \in DOMAIN issued
      <3>1. k + 1 \in Int /\ Len(q) \in Int /\ k \in Nat
        BY <1>2, <2>2
      <3>2. \A j \in (k + 1)..Len(q) : q[j] \in Certificates
        BY <1>2, <2>2
      <3>3. /\ queue' \in Seq(Certificates)
            /\ Len(queue') = IF k + 1 <= Len(q) THEN Len(q) - (k + 1) + 1 ELSE 0
            /\ \A j \in 1..(Len(q) - (k + 1) + 1) : queue'[j] = q[(k + 1) + j - 1]
        BY <2>1, <3>1, <3>2, SubSeqProperties
      <3>4. DOMAIN queue' = 1..Len(queue')
        BY <3>3, LenProperties
      <3>5. ASSUME NEW j \in DOMAIN queue'
            PROVE  queue'[j] \in DOMAIN issued
        <4>1. j \in 1..(Len(q) - (k + 1) + 1) /\ (k + 1) + j - 1 \in 1..Len(q)
          <5>1. j \in 1..Len(queue') /\ Len(q) \in Nat /\ k \in 1..Len(q)
            BY <1>2, <2>2, <3>4
          <5>2. k + 1 <= Len(q) /\ Len(queue') = Len(q) - (k + 1) + 1
            BY <3>1, <3>3, <5>1
          <5> QED BY <5>1, <5>2
        <4> QED BY <1>2, <3>3, <4>1
      <3> QED BY <3>3, <3>5
    <2>7. \A n \in heap : n.type \notin CaseMessages
      BY <1>1, <1>5 DEF StagesOK, OneCaseInFlight, MayOpen
    <2>8. /\ heap' = heap \union {ask}
          /\ ask.type = "PcaLookupRequest" /\ ask.number = N /\ ask.cert = c
          /\ ask \in [type : {"PcaLookupRequest"}, number : Nat, cert : Certificate]
      BY <2>1, <2>2, <2>3, <2>4, CertificateTyped
    <2>9. FormOK(ask)
      BY <2>8 DEF FormOK
    <2>10. /\ case' \in [number : Nat, cert : Certificates, seeds : [Authorities -> Nat],
                         done : BOOLEAN]
           /\ case'.number = N /\ case'.cert = c /\ case'.seeds = NoSeeds /\ ~case'.done
      BY <2>1, <2>2, <2>3, <2>4 DEF NoSeeds
    <2>11. CaseOK'
      <3>1. ~Covered(c)'
        BY <2>2, <2>3 DEF Covered, Revokes
      <3>2. \A x \in Authorities : case'.seeds[x] = 0
        BY <2>10 DEF NoSeeds
      <3>3. ~Covered(case.cert)'
        BY <2>10, <3>1 DEF Covered
      <3> QED BY <2>4, <2>10, <3>2, <3>3 DEF CaseOK
    <2>12. StagesOK'
      <3>1. \A n \in heap' : n.type \in CaseMessages => n = ask
        BY <2>7, <2>8
      <3>2. StageOK(ask)'
        BY <2>8, <2>10 DEF StageOK, NoSeeds
      <3> QED BY <2>8, <2>10, <3>1, <3>2 DEF StagesOK, OneCaseInFlight, Together, case_open
    <2>13. \A n \in heap' : FormOK(n)
      BY <2>8, <2>9 DEF IInv
    <2>14. \A n \in (heap' \ heap) \union (heap \ heap') : n.type = "PcaLookupRequest"
      BY <2>8
    <2>15. DOMAIN cases \subseteq DOMAIN cases'
      BY <2>3, <2>4
    <2> QED BY <1>3, <2>4, <2>5, <2>6, <2>11, <2>12, <2>13, <2>14, <2>15
  <1> QED BY <1>4, <1>5

LEMMA IngestStep ==
    ASSUME IInv, Ingest
    PROVE  IInv'
  <1>1. PICK f \in Decided : StartCases(queue \o f, heap)
    BY DEF Ingest
  <1>2. SubjectsOK
    BY DEF IInv, CaseInv
  <1>3. PICK S \in SUBSET arrived : f \in Injection(1..Cardinality(S), S)
    BY <1>1 DEF Decided
  <1>4. f \in [1..Cardinality(S) -> S] /\ S \subseteq DOMAIN issued /\ S \subseteq Certificates
    BY <1>2, <1>3 DEF Injection, SubjectsOK, IInv, ProvisioningInv, IssuedOK
  <1>5. Cardinality(S) \in Nat
    <2>1. DOMAIN issued \subseteq Certificates
      BY DEF IInv, ProvisioningInv, IssuedOK
    <2>2. IsFiniteSet(Certificates)
      BY FiniteCertificates
    <2> QED BY <1>4, <2>2, FS_Subset, FS_CardinalityType
  <1>6. f \in Seq(Certificates) /\ Len(f) = Cardinality(S) /\ DOMAIN f = 1..Len(f)
    BY <1>4, <1>5
  <1>7. PICK q : q = queue \o f
    OBVIOUS
  <1>8. queue \in Seq(Certificates) /\ Len(queue) \in Nat /\ DOMAIN queue = 1..Len(queue)
    BY <1>2, LenProperties DEF SubjectsOK
  <1>9. /\ q \in Seq(Certificates) /\ Len(q) = Len(queue) + Len(f)
        /\ \A i \in 1..(Len(queue) + Len(f)) :
              q[i] = IF i <= Len(queue) THEN queue[i] ELSE f[i - Len(queue)]
    BY <1>6, <1>7, <1>8, ConcatProperties
  <1>10. ASSUME NEW k \in DOMAIN q
         PROVE  q[k] \in DOMAIN issued
    <2>1. k \in 1..(Len(queue) + Len(f)) /\ Len(f) \in Nat
      BY <1>5, <1>6, <1>9, LenProperties
    <2>2. CASE k <= Len(queue)
      BY <1>2, <1>8, <1>9, <2>1, <2>2 DEF SubjectsOK
    <2>3. CASE ~(k <= Len(queue))
      <3>1. k - Len(queue) \in 1..Cardinality(S)
        BY <1>6, <1>8, <2>1, <2>3
      <3> QED BY <1>4, <1>9, <2>1, <2>3, <3>1
    <2> QED BY <2>2, <2>3
  <1>11. /\ StartCases(q, heap) /\ arrived' \subseteq arrived /\ pc' \in {"first", "second"}
         /\ UNCHANGED <<provisioning, blocklist, vehicle, retired, ra_reports, report_armed,
                        filed, lists, versions, listener>>
    BY <1>1, <1>7 DEF Ingest
  <1> QED BY <1>9, <1>10, <1>11, StartCasesStep

LEMMA StepBeginsStep ==
    ASSUME IInv, StepBegins
    PROVE  IInv'
  <1>1. queue \in Seq(Certificates) /\ \A k \in DOMAIN queue : queue[k] \in DOMAIN issued
    BY DEF IInv, CaseInv, SubjectsOK
  <1>2. /\ StartCases(queue, heap) /\ arrived' \subseteq arrived /\ pc' \in {"first", "second"}
        /\ UNCHANGED <<provisioning, blocklist, vehicle, retired, ra_reports, report_armed,
                       filed, lists, versions, listener>>
    BY DEF StepBegins, reporting
  <1> QED BY <1>1, <1>2, StartCasesStep

LEMMA StepEndsStep ==
    ASSUME IInv, StepEnds
    PROVE  IInv'
  <1> USE DEF lists
  <1>1. /\ queue' \in {queue, <<>>} /\ arrived' \subseteq arrived
        /\ cases' = [n \in DOMAIN cases |-> Noted(n)]
        /\ published' = IF Len(crl_store) > published THEN Len(crl_store) ELSE published
        /\ broadcast' = Len(crl_broadcast)
        /\ crl_timer_armed' = (crl_timer_armed \/ published' > published)
        /\ pc' = "idle"
        /\ UNCHANGED <<requests, jobs, shuffle_armed, repos, owner, issued, installed, blocklist,
                       retired, ra_reports, report_armed, filed, case, lists, air>>
    BY DEF StepEnds
  <1>2. SubjectsOK /\ CaseOK /\ StagesOK /\ ListsOK /\ WindowsOK /\ ListenersOK
    BY DEF IInv, CaseInv, ListInv
  <1>3. Provisioned
    <2>1. PICK S \in TopupsDue : StartTopups(S)
      BY DEF StepEnds
    <2> QED BY <1>1, <2>1, TopupsStep
  <1>4. \A n \in (heap' \ heap) \union (heap \ heap') : n.type \in ProvisioningTypes
    BY <1>3 DEF Provisioned, OnlyFlows
  <1>5. /\ DOMAIN cases' = DOMAIN cases
        /\ cases' \in Seq([cert : Certificates, entry : Nat])
        /\ \A n \in DOMAIN cases : cases'[n].cert = cases[n].cert
    <2>1. /\ cases \in Seq([cert : Certificates, entry : Nat]) /\ Len(cases) \in Nat
          /\ DOMAIN cases = 1..Len(cases)
          /\ \A n \in DOMAIN cases : cases[n] \in [cert : Certificates, entry : Nat]
      BY <1>2, LenProperties, ElementOfSeq DEF SubjectsOK
    <2>2. Len(crlg) \in Nat
      BY EntriesFacts
    <2>3. ASSUME NEW n \in DOMAIN cases
          PROVE  /\ Noted(n) \in [cert : Certificates, entry : Nat]
                 /\ Noted(n).cert = cases[n].cert
      BY <2>1, <2>2 DEF Noted
    <2>4. cases' \in [1..Len(cases) -> [cert : Certificates, entry : Nat]]
      BY <1>1, <2>1, <2>3
    <2>5. cases' \in Seq([cert : Certificates, entry : Nat])
      BY <2>1, <2>4, SMTT(60)
    <2> QED BY <1>1, <2>3, <2>5
  <1>6. SubjectsOK'
    <2>1. \A n \in heap' : n.type = "Report" => n \in heap
      BY <1>4 DEF ProvisioningTypes
    <2>2. queue' \in Seq(Certificates) /\ \A k \in DOMAIN queue' : queue'[k] \in DOMAIN issued
      <3>1. CASE queue' = queue
        BY <1>2, <3>1 DEF SubjectsOK
      <3>2. CASE queue' = <<>>
        <4>1. <<>> \in Seq(Certificates) /\ DOMAIN queue' = {}
          BY <3>2, EmptySeq
        <4> QED BY <3>2, <4>1
      <3> QED BY <1>1, <3>1, <3>2
    <2>3. \A n \in DOMAIN cases' : cases'[n].cert \in DOMAIN issued
      BY <1>2, <1>5 DEF SubjectsOK
    <2>4. ra_reports' \union arrived' \subseteq DOMAIN issued
      BY <1>1, <1>2 DEF SubjectsOK
    <2> QED BY <1>1, <1>2, <1>5, <2>1, <2>2, <2>3, <2>4 DEF SubjectsOK
  <1>7. CaseOK' /\ StagesOK'
    <2>1. \A n \in (heap' \ heap) \union (heap \ heap') : n.type \notin CaseMessages
      BY <1>4 DEF ProvisioningTypes, CaseMessages
    <2> QED BY <1>1, <1>5, <2>1, StagesKept
  <1>8. /\ Len(crl_store) \in Nat /\ Len(crl_broadcast) \in Nat /\ Len(crlg) \in Nat
        /\ Len(crl_store) <= Len(crlg) /\ Range(crl_store) = Entries(Len(crl_store))
        /\ published \in Nat /\ published' \in 0..Len(crl_store)
    BY <1>1, <1>2, EntriesFacts DEF ListsOK
  <1>9. ListsOK'
    <2>1. \A k \in DOMAIN crlg' : \E n \in DOMAIN cases' : crlg'[k] = cases'[n].cert
      BY <1>1, <1>2, <1>5 DEF ListsOK
    <2>2. Earlier(crl_store)' /\ Earlier(crl_broadcast)' /\ NoSecondEntry'
      BY <1>1, <1>2 DEF ListsOK, Earlier, NoSecondEntry, Revokes
    <2>3. broadcast' \in 0..Len(crl_broadcast)
      BY <1>1, <1>8
    <2> QED BY <1>1, <1>2, <1>8, <2>1, <2>2, <2>3 DEF ListsOK
  <1>10. WindowsOK'
    <2>1. \A n \in (heap' \ heap) \union (heap \ heap') :
             /\ n.type # "ReportShuffleTimer" /\ n.type # "CrlPublishTimer"
             /\ n.type # "CrlPublish" \/ n.to # "store"
      BY <1>4 DEF ProvisioningTypes
    <2>2. crl_timer_armed' \in BOOLEAN
      BY <1>1
    <2> QED BY <1>1, <2>1, <2>2, WindowsKept
  <1>11. ListenersOK'
    <2>1. PICK S : listener' = [d \in Listeners |-> Polled(d, S)]
      BY DEF StepEnds
    <2>2. PICK t : t = [version |-> published', entries |-> Range(crl_store)]
      OBVIOUS
    <2>3. SentOK(t)
      <3>1. /\ t \in [version : Nat, entries : {t.entries}] /\ t.version = published'
            /\ t.entries = Entries(Len(crl_store))
        BY <1>8, <2>2
      <3>2. Entries(Len(crl_store)) \subseteq Entries(Len(crlg)) /\ published' <= Len(crlg)
        BY <1>8, EntriesFacts
      <3> QED BY <3>1, <3>2 DEF SentOK
    <2>4. ASSUME NEW d \in Listeners
          PROVE  /\ listener'[d] \in [held : {listener[d].held}, version : {listener[d].version},
                                      transfer : {listener'[d].transfer}]
                 /\ listener'[d].transfer \in {listener[d].transfer, {t}}
      <3>1. listener[d] \in [held : {listener[d].held}, version : Nat,
                             transfer : {listener[d].transfer}]
        BY <1>2 DEF ListenersOK, ListenerOK
      <3>2. listener'[d] = listener[d] \/ listener'[d] = [listener[d] EXCEPT !.transfer = {t}]
        BY <2>1, <2>2 DEF Polled
      <3> QED BY <3>1, <3>2
    <2>5. \A n : Entries(n)' = Entries(n)
      BY <1>1 DEF Entries
    <2>6. \A u : SentOK(u) => SentOK(u)'
      BY <1>1, <2>5 DEF SentOK
    <2>7. ASSUME NEW d \in Listeners
          PROVE  ListenerOK(d)'
      <3>1. ListenerOK(d)
        BY <1>2 DEF ListenersOK
      <3>2. listener'[d].held = listener[d].held /\ listener'[d].version = listener[d].version
        BY <2>4
      <3>3. listener[d].version \in Nat
        BY <3>1 DEF ListenerOK
      <3>4. listener'[d] \in [held : {listener'[d].held}, version : Nat,
                              transfer : {listener'[d].transfer}]
        BY <2>4, <3>2, <3>3
      <3>5. \A u \in listener'[d].transfer : SentOK(u)'
        BY <2>3, <2>4, <2>6, <3>1 DEF ListenerOK
      <3> QED BY <1>1, <2>5, <3>1, <3>2, <3>4, <3>5 DEF ListenerOK
    <2>8. \A f \in air' : SentOK(f)'
      BY <1>1, <1>2, <2>6 DEF ListenersOK
    <2> QED BY <2>1, <2>7, <2>8 DEF ListenersOK
  <1>12. filed' \in 0..MaxReports /\ pc' \in {"idle", "first", "second"}
    BY <1>1 DEF IInv, ListInv
  <1> QED BY <1>3, <1>6, <1>7, <1>9, <1>10, <1>11, <1>12
          DEF IInv, CaseInv, ListInv, Provisioned, Forms

\* A step of the provisioning flows leaves the rest to the flows it does not touch.
LEMMA ProvisionedInv ==
    ASSUME IInv, Provisioned, UNCHANGED <<reporting, casework, lists, versions, listener, pc>>
    PROVE  IInv'
  <1>1. CaseInv' /\ ListInv'
    BY CasesKept DEF Provisioned
  <1> QED BY <1>1 DEF IInv, Provisioned, Forms

LEMMA LeaveStep ==
    ASSUME IInv, UNCHANGED <<provisioning, heap, blocklist, vehicle, reporting, casework, lists,
                             versions, listener, pc>>
    PROVE  IInv'
  <1>1. ListenersOK'
    BY ListenersKept DEF lists, versions
  <1>2. crl_timer_armed' \in BOOLEAN
    BY DEF versions, IInv, ListInv, WindowsOK
  <1> QED BY <1>1, <1>2, SameVehicle, ReceivedStep DEF versions

LEMMA KernelStep ==
    ASSUME IInv, Kernel
    PROVE  IInv'
  <1>1. PICK m \in heap : \/ Provisioning(m) /\ UNCHANGED <<reporting, casework, lists>>
                          \/ Reporting(m)
                          \/ Casework(m)
    BY DEF Kernel
  <1>2. UNCHANGED <<versions, listener, pc>>
    BY DEF Kernel
  <1>3. CASE Provisioning(m) /\ UNCHANGED <<reporting, casework, lists>>
    BY <1>2, <1>3, ProvisioningStep, ProvisionedInv
  <1>4. CASE Reporting(m)
    BY <1>2, <1>4, ReportingStep
  <1>5. CASE Casework(m)
    BY <1>2, <1>5, CaseworkStep
  <1> QED BY <1>1, <1>3, <1>4, <1>5

------------------------------------------------------------------------------
(***************************************************************************)
(* The theorems.                                                           *)
(***************************************************************************)

\* What is under way for a vehicle, for the open case and for the list fit together in
\* every state of the deployment (scms/run.rs) and of the engine that drives it.
THEOREM InductiveInvariant == Spec => []IInv
  <1>1. ASSUME IInv, [Next]_vars PROVE IInv'
    <2>1. ASSUME NEW d \in Devices, Spawn(d) PROVE IInv'
      <3>1. Provision(d) /\ UNCHANGED <<reporting, casework, lists, versions, listener, pc>>
        BY <2>1 DEF Spawn
      <3> QED BY <1>1, <3>1, ProvisionStep, ProvisionedInv
    <2>2. ASSUME NEW d \in Suspects, FileReport(d) PROVE IInv'
      BY <1>1, <2>2, FileReportStep
    <2>3. ASSUME NEW d \in Suspects, Leave(d) PROVE IInv'
      <3>1. UNCHANGED <<provisioning, heap, blocklist, vehicle, reporting, casework, lists,
                        versions, listener, pc>>
        BY <2>3 DEF Leave, Retire
      <3> QED BY <1>1, <3>1, LeaveStep
    <2>4. ASSUME NEW d \in Listeners, Download(d) PROVE IInv'
      BY <1>1, <2>4, DownloadStep
    <2>5. ASSUME NEW d \in Listeners, Hear(d) PROVE IInv'
      BY <1>1, <2>5, HearStep
    <2>6. CASE FlowTimer
      BY <1>1, <2>6, FlowTimerStep
    <2>7. CASE StepBegins
      BY <1>1, <2>7, StepBeginsStep
    <2>8. CASE Kernel
      BY <1>1, <2>8, KernelStep
    <2>9. CASE Ingest
      BY <1>1, <2>9, IngestStep
    <2>10. CASE StepEnds
      BY <1>1, <2>10, StepEndsStep
    <2>11. CASE UNCHANGED vars
      <3>1. UNCHANGED <<provisioning, heap, blocklist, vehicle, reporting, casework, lists,
                        versions, listener, pc>>
        BY <2>11 DEF vars
      <3> QED BY <1>1, <3>1, LeaveStep
    <2> QED BY <1>1, <2>1, <2>2, <2>3, <2>4, <2>6, <2>7, <2>8, <2>9, <2>10, <2>11, <2>5 DEF Next
  <1> QED BY <1>1, InitInv, PTL DEF Spec

\* A revocation hits its subject and nobody else, for any number of vehicles, reports and
\* decisions: every certificate in use leads back to its vehicle through the PCA, the RA
\* and both Linkage Authorities; one case is in flight; every entry is that of a case and
\* none is issued twice; and whatever waits for a timer waits in an armed window.
THEOREM CasesAreSound == Spec => []CasesSound
  <1>1. IInv => CasesSound
    BY InvCases
  <1> QED BY <1>1, InductiveInvariant, PTL

\* A vehicle that counts itself at the newest list (install_crl) holds every entry of it,
\* for any number of vehicles, entries and entries per frame, whatever frames of which
\* lists it heard in which order and whichever download was under way.
THEOREM NewestListsAreWhole == Spec => []NewestIsWhole
  <1>1. IInv => NewestIsWhole
    BY InvNewest
  <1> QED BY <1>1, InductiveInvariant, PTL

===============================================================================
