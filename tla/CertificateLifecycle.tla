------------------------ MODULE CertificateLifecycle ------------------------
(***************************************************************************)
(* The certificate inventory of one cluster (certificates/): adoption of   *)
(* the shared legacy layout, the renewal policy with its revisions, the    *)
(* refresh that reads certificates from hosts, trust consumers and the     *)
(* previews that may not be executed yet.                                  *)
(*                                                                         *)
(* Handlers run to their end in one action, except the refresh: it awaits  *)
(* every file it has not read yet, and other requests, replaced            *)
(* certificates and changed assignments come in between.                   *)
(*                                                                         *)
(* The next cluster after a deletion gets the row id of the deleted one,   *)
(* and with it the ids of its policy and assets, which derive from it: a   *)
(* form or a refresh that is still open reaches the rows of that cluster.  *)
(***************************************************************************)
EXTENDS Naturals, FiniteSets, FiniteSetsExt

CONSTANTS
  Hosts,          \* hosts the cluster's workloads run on
  Roles,          \* roles of the cluster's workloads
  Certs,          \* leaf certificates: [serial, issuer, names, usage, from, until]
  CACerts,        \* self-signed certificates of the same form
  NoCert,         \* no file, or no generation
  Assigned,       \* the assignments at first: id to [role, host]
  MaxAssignment,  \* bound on assignment ids
  Days,           \* values of a policy's day counts
  Editors,        \* operators with a policy form open
  MaxRevision,    \* bound on policy revisions
  MaxNow,         \* bound on the clock
  MaxChanges,     \* bound on replaced files and added assignments
  ExternalKinds,  \* kinds of external consumers
  Slots,          \* refresh requests that may be in flight together
  RollingRestart  \* MAINTENANCE_CAPABILITIES["rolling_restart"]

ASSUME CertificateAssumption ==
  /\ MaxAssignment \in Nat /\ MaxRevision \in Nat /\ MaxNow \in Nat /\ MaxChanges \in Nat
  /\ Days \subseteq Nat \ {0} /\ RollingRestart \in BOOLEAN
  /\ MaxRevision >= 1
  /\ Assigned \in [DOMAIN Assigned -> [role : Roles, host : Hosts]]
  /\ DOMAIN Assigned \subseteq 1..MaxAssignment
  /\ NoCert \notin Certs \cup CACerts

VARIABLES
  certCluster, \* the cluster row: [alive, supported, assignments]
  disk,        \* the certificate file at each locator
  certNow,     \* the clock
  changes,     \* replaced files and added assignments so far
  certPolicy,  \* certificate_policies: the default policy of the cluster
  formSeen,    \* the policy each editor's form was filled from
  formSaved,   \* what the last save did: [editor, fields]
  outdated,    \* history: editors whose form is of a cluster that was deleted
  domains,     \* certificate_trust_domains: kind to the profile it records
  assets,      \* certificate_assets with their last observation
  consumers,   \* certificate_trust_consumers
  operations,  \* certificate_operations: previews
  execAnswer,  \* answer of the last execution request
  refresh      \* refresh requests

worldVars == <<certCluster, disk, certNow, changes>>
formVars == <<formSeen, formSaved, outdated>>
policyVars == <<certPolicy, formVars>>
inventoryVars == <<domains, assets, consumers>>
previewVars == <<operations, execAnswer>>
certificateVars == <<worldVars, policyVars, inventoryVars, previewVars, refresh>>

CA == [role |-> "ca", host |-> "bootstrap"]
Locators == [role : Roles, host : Hosts] \cup {CA}
DomainKinds ==
  {"elasticsearch_transport", "elasticsearch_http", "kibana_http", "fleet_http"}
ElasticsearchRoles == {"master", "hot", "warm", "ml", "ingest", "coordinating"}

-----------------------------------------------------------------------------
(* Adoption of the shared layout.                                          *)

\* The assets of a workload: elastic roles have two, in the domains of both
\* their certificates, though one file serves for them.
Purposes(role) ==
  CASE role \in ElasticsearchRoles ->
         {<<"elasticsearch_transport", "elasticsearch_transport">>,
          <<"elasticsearch_http", "elasticsearch_http">>}
    [] role = "kibana" -> {<<"kibana_http", "kibana_server">>}
    [] role = "fleet-server" -> {<<"fleet_http", "fleet_server">>}
    [] role = "elastic-agent" -> {<<"fleet_http", "elastic_agent_client">>}
    [] role = "logstash" -> {<<"elasticsearch_http", "logstash_client">>}
    [] OTHER -> {<<"elasticsearch_http", "client">>}

Key(domain, owner, purpose) == [domain |-> domain, owner |-> owner, purpose |-> purpose]
AssignmentKeys(id) ==
  {Key(p[1], id, p[2]) : p \in Purposes(certCluster.assignments[id].role)}
CAKeys == {Key(d, 0, "legacy_shared_ca") : d \in DomainKinds}
DesiredKeys ==
  CAKeys \cup UNION {AssignmentKeys(id) : id \in DOMAIN certCluster.assignments}

FreshAsset(locator) ==
  [locator |-> locator, health |-> "unobserved", last |-> NoCert]

\* ensure_asset inserts what is missing and leaves a row it finds alone, its
\* locator included; rows of removed assignments stay.
EnsureAssets(rows) ==
  [k \in DOMAIN rows \cup DesiredKeys |->
     IF k \in DOMAIN rows THEN rows[k]
     ELSE FreshAsset(IF k \in CAKeys THEN CA
                     ELSE [role |-> certCluster.assignments[k.owner].role,
                           host |-> certCluster.assignments[k.owner].host])]

Profile == IF certCluster.supported THEN "pem-rolling-restart" ELSE "unsupported"

\* Mutant: a domain is entered as already split from the shared authority.
EnsureDomainsSplit ==
  [d \in DomainKinds |->
     [profile |-> Profile,
      legacy |-> IF d \in DOMAIN domains THEN domains[d].legacy ELSE FALSE]]

EnsureDomains ==
  [d \in DomainKinds |->
     [profile |-> Profile,
      legacy |-> IF d \in DOMAIN domains THEN domains[d].legacy ELSE TRUE]]

Managed(domain, kind, owner) ==
  [domain |-> domain, type |-> "managed", kind |-> kind, owner |-> owner]
EnsureConsumers ==
  consumers \cup {Managed(k.domain, "workload", k.owner) : k \in DesiredKeys \ CAKeys}
            \cup {Managed("elasticsearch_http", "controller", 0)}

FirstPolicy == [revision |-> 1, renew |-> 30, critical |-> 14]
EnsurePolicy == IF certPolicy.revision = 0 THEN FirstPolicy ELSE certPolicy

AdoptLegacy ==
  /\ domains' = EnsureDomains
  /\ certPolicy' = EnsurePolicy
  /\ consumers' = EnsureConsumers

Deployed == {certCluster.assignments[id] : id \in DOMAIN certCluster.assignments}

CertificateInit ==
  /\ certCluster = [alive |-> TRUE, supported |-> TRUE, assignments |-> Assigned]
  /\ \E a \in CACerts : \E c \in {x \in Certs : x.issuer = a.serial} :
       disk = [l \in Locators |-> IF l = CA THEN a ELSE IF l \in Deployed THEN c ELSE NoCert]
  /\ certNow = 0 /\ changes = 0
  /\ certPolicy = [revision |-> 0, renew |-> 0, critical |-> 0]
  /\ formSeen = [e \in Editors |-> certPolicy]
  /\ formSaved = [editor |-> "none", fields |-> {}] /\ outdated = {}
  /\ domains = << >> /\ assets = << >> /\ consumers = {}
  /\ operations = {} /\ execAnswer = "none"
  /\ refresh = [s \in Slots |->
       [phase |-> "idle", listed |-> {}, place |-> << >>, todo |-> {}, cache |-> << >>,
        collected |-> 0, failed |-> 0, since |-> {}, orphan |-> FALSE]]

-----------------------------------------------------------------------------
(* The cluster and its hosts.                                              *)

OnDisk(d) == {<<l, d[l]>> : l \in Locators}
Running(s) == refresh[s].phase = "running"

\* History: what every refresh in flight could have read since it began.
Witnessed(d) ==
  [s \in Slots |-> IF Running(s)
                   THEN [refresh[s] EXCEPT !.since = @ \cup OnDisk(d)] ELSE refresh[s]]

Change == changes < MaxChanges /\ changes' = changes + 1

ReplaceFile(l, c) ==
  /\ Change
  /\ disk' = [disk EXCEPT ![l] = c]
  /\ refresh' = Witnessed(disk')
  /\ UNCHANGED <<certCluster, certNow, policyVars, inventoryVars, previewVars>>

AssignmentIds == DOMAIN certCluster.assignments
Assign(new) ==
  /\ certCluster' = [certCluster EXCEPT !.assignments = new]
  /\ UNCHANGED <<disk, certNow, policyVars, inventoryVars, previewVars, refresh>>

RemoveAssignment(id) ==
  /\ Assign([i \in AssignmentIds \ {id} |-> certCluster.assignments[i]])
  /\ UNCHANGED changes
\* The next row id is the largest in use plus one.
AddAssignment(role, host) ==
  LET id == Max(AssignmentIds \cup {0}) + 1
  IN  /\ id <= MaxAssignment /\ Change
      /\ \A i \in AssignmentIds : certCluster.assignments[i] # [role |-> role, host |-> host]
      /\ Assign([i \in AssignmentIds \cup {id} |->
           IF i = id THEN [role |-> role, host |-> host] ELSE certCluster.assignments[i]])

ChangeVersion ==
  /\ certCluster.alive
  /\ certCluster' = [certCluster EXCEPT !.supported = ~@]
  /\ UNCHANGED <<disk, certNow, changes, policyVars, inventoryVars, previewVars, refresh>>

\* Refused while workloads are assigned.  Every certificate table cascades from
\* the cluster's row.
DeleteCluster ==
  /\ certCluster.alive /\ AssignmentIds = {}
  /\ certCluster' = [certCluster EXCEPT !.alive = FALSE]
  /\ certPolicy' = [revision |-> 0, renew |-> 0, critical |-> 0]
  /\ domains' = << >> /\ assets' = << >> /\ consumers' = {}
  /\ operations' = {}
  /\ outdated' = Editors
  /\ refresh' = [s \in Slots |-> [refresh[s] EXCEPT !.orphan = TRUE]]
  /\ UNCHANGED <<disk, certNow, changes, formSeen, formSaved, execAnswer>>

\* clusters.id is an INTEGER PRIMARY KEY: the id comes back.
RecreateCluster(supported) ==
  /\ ~certCluster.alive
  /\ certCluster' = [certCluster EXCEPT !.alive = TRUE, !.supported = supported]
  /\ UNCHANGED <<disk, certNow, changes, policyVars, inventoryVars, previewVars, refresh>>

CertificateTick ==
  /\ certNow < MaxNow /\ certNow' = certNow + 1
  /\ UNCHANGED <<certCluster, disk, changes, policyVars, inventoryVars, previewVars, refresh>>

ListAssets ==
  /\ certCluster.alive
  /\ AdoptLegacy /\ assets' = EnsureAssets(assets)
  /\ UNCHANGED <<worldVars, formVars, previewVars, refresh>>

-----------------------------------------------------------------------------
(* The policy.                                                             *)

ReadPolicy(e) ==
  /\ certCluster.alive
  /\ certPolicy' = EnsurePolicy
  /\ formSeen' = [formSeen EXCEPT ![e] = certPolicy'] /\ outdated' = outdated \ {e}
  /\ UNCHANGED <<worldVars, formSaved, inventoryVars, previewVars, refresh>>

Merged(policy, fields) ==
  [policy EXCEPT !.renew = IF "renew" \in DOMAIN fields THEN fields.renew ELSE @,
                 !.critical = IF "critical" \in DOMAIN fields THEN fields.critical ELSE @]

\* Mutant: a form is checked against the defaults for what it leaves out.
ValidPolicyAlone(policy, fields) ==
  Merged(FirstPolicy, fields).critical <= Merged(FirstPolicy, fields).renew

ValidPolicy(policy, fields) == Merged(policy, fields).critical <= Merged(policy, fields).renew

\* Mutant: the revision is increased and not compared.
RevisionMatchesAny(e) == TRUE

RevisionMatches(e) == EnsurePolicy.revision = formSeen[e].revision

UpdatePolicy(e, fields) ==
  /\ certCluster.alive /\ formSeen[e].revision >= 1
  /\ EnsurePolicy.revision < MaxRevision
  /\ ValidPolicy(EnsurePolicy, fields) /\ RevisionMatches(e)
  /\ certPolicy' = [Merged(EnsurePolicy, fields) EXCEPT !.revision = @ + 1]
  /\ formSaved' = [editor |-> e, fields |-> fields]
  /\ UNCHANGED <<worldVars, formSeen, outdated, inventoryVars, previewVars, refresh>>

PolicyForms ==
  [{"renew"} -> Days] \cup [{"critical"} -> Days] \cup [{"renew", "critical"} -> Days]

-----------------------------------------------------------------------------
(* Inspection of a certificate.                                            *)

ChainStatus(cert, chain) ==
  CASE chain = NoCert -> IF cert.issuer = cert.serial THEN "verified" ELSE "missing"
    [] cert.issuer # chain.serial -> "invalid"
    [] OTHER -> IF chain.issuer = chain.serial THEN "verified" ELSE "partial"
ValidityStatus(cert) ==
  CASE cert.from > certNow -> "not_yet_valid"
    [] cert.from <= certNow /\ cert.until < certNow -> "expired"
    [] OTHER -> "valid"
\* What is asked of the names is the host's name; of an authority nothing.
SanStatus(cert, k, locator) ==
  IF k \in CAKeys THEN "not_checked"
  ELSE IF locator.host \in cert.names THEN "matched" ELSE "mismatch"
EkuStatus(cert, k) ==
  CASE cert.usage = "none" -> "not_present_allowed"
    [] k.purpose = "elasticsearch_transport" /\ cert.usage # "both" -> "missing_required"
    [] OTHER -> "valid"
Inspect(cert, chain, k, locator) ==
  IF /\ ValidityStatus(cert) = "valid"
     /\ SanStatus(cert, k, locator) \in {"matched", "not_checked"}
     /\ EkuStatus(cert, k) \in {"valid", "not_present_allowed"}
     /\ ChainStatus(cert, chain) = "verified"
  THEN "healthy" ELSE "degraded"

\* last stands for the newest observation with a certificate; that every
\* certificate once seen keeps its generation row is left out.
RecordObservation(row, cert, health) == [row EXCEPT !.health = health, !.last = cert]

\* Mutant: the state's name is not the one the views know.
RecordFailureUnknown(row) == [row EXCEPT !.health = "failed"]

RecordFailure(row) == [row EXCEPT !.health = "observation_failed"]

-----------------------------------------------------------------------------
(* The refresh.                                                            *)

\* The files of an asset, at the place its row had when the refresh began.
Needs(k, place) == IF k \in CAKeys THEN {CA} ELSE {place[k], CA}

\* Assets are taken in the order of owners, the cluster's own at the end, and
\* of one owner by their purpose.
PurposeRank ==
  [client |-> 1, elastic_agent_client |-> 2, elasticsearch_http |-> 3,
   elasticsearch_transport |-> 4, fleet_server |-> 5, kibana_server |-> 6,
   logstash_client |-> 7, legacy_shared_ca |-> 8]
Before(j, k) ==
  \/ j.owner # 0 /\ (k.owner = 0 \/ j.owner < k.owner)
  \/ j.owner = k.owner /\ PurposeRank[j.purpose] < PurposeRank[k.purpose]
FirstOf(todo) == CHOOSE k \in todo : \A j \in todo : ~Before(j, k)
\* Assets that need no further file, up to the first that does.
Ready(todo, cache, place) ==
  LET waiting == {k \in todo : ~Needs(k, place) \subseteq DOMAIN cache}
  IN  {k \in todo \ waiting : \A j \in waiting : Before(k, j)}
Wanted(s) ==
  LET k == FirstOf(refresh[s].todo)
  IN  IF refresh[s].place[k] \in DOMAIN refresh[s].cache THEN CA ELSE refresh[s].place[k]

\* Of the assets that are ready, the first without a row ends the refresh: not
\* even its failure can be recorded.
Gone(ready) == ready \ DOMAIN assets
Noted(ready) == {k \in ready : \A j \in Gone(ready) : Before(k, j)}

\* The names are those that the row asks for by now.
Collected(place, cache, done) ==
  [k \in DOMAIN assets |->
     IF k \notin done THEN assets[k]
     ELSE LET cert == cache[place[k]]
              chain == IF k \in CAKeys THEN NoCert ELSE cache[CA]
          IN  RecordObservation(assets[k], cert, Inspect(cert, chain, k, assets[k].locator))]

\* When nothing is left to do the inventory is listed once more and the
\* completed run recorded.
Progress(s, rows, todo, cache, collected, failed, gone) ==
  /\ LET r == refresh[s]
     IN  refresh' = [refresh EXCEPT ![s] =
           [r EXCEPT !.todo = todo, !.cache = cache, !.collected = r.collected + collected,
                     !.failed = r.failed + failed,
                     !.phase = IF gone # {} THEN "not_found"
                               ELSE IF todo = {} THEN "done" ELSE "running"]]
  /\ IF todo = {} THEN AdoptLegacy /\ assets' = EnsureAssets(rows)
     ELSE assets' = rows /\ UNCHANGED <<domains, certPolicy, consumers>>
  /\ UNCHANGED <<worldVars, formVars, previewVars>>

HasBootstrap == \E id \in AssignmentIds : certCluster.assignments[id].role = "master"

\* Mutant: the service keeps the files it has read for the next refresh.
StartCacheKept(s) == refresh[s].cache

StartCache(s) == << >>

\* Without a master there is no host to read the authority from, and every
\* asset fails before anything is awaited.
StartRefresh(s) ==
  /\ refresh[s].phase \in {"idle", "done", "not_found"} /\ certCluster.alive
  /\ AdoptLegacy
  /\ LET rows == EnsureAssets(assets)
         all == DOMAIN rows
     IN  /\ assets' = IF HasBootstrap THEN rows ELSE [k \in all |-> RecordFailure(rows[k])]
         /\ refresh' = [refresh EXCEPT ![s] =
              [phase |-> IF HasBootstrap THEN "running" ELSE "done", listed |-> all,
               place |-> [k \in all |-> rows[k].locator],
               todo |-> IF HasBootstrap THEN all ELSE {}, cache |-> StartCache(s),
               collected |-> 0, failed |-> IF HasBootstrap THEN 0 ELSE Cardinality(all),
               since |-> OnDisk(disk), orphan |-> FALSE]]
  /\ UNCHANGED <<worldVars, formVars, previewVars>>

\* A file has been read; all assets it completes are recorded at once.
FileRead(s) ==
  LET r == refresh[s]
      cache == [l \in DOMAIN r.cache \cup {Wanted(s)} |->
                  IF l = Wanted(s) THEN disk[l] ELSE r.cache[l]]
      ready == Ready(r.todo, cache, r.place)
      done == Noted(ready)
  IN  /\ Running(s)
      /\ disk[Wanted(s)] # NoCert
      /\ Progress(s, Collected(r.place, cache, done), r.todo \ done, cache,
                  Cardinality(done), 0, Gone(ready))

\* Mutant: an asset that cannot be read is passed over.
FailedRowsSkipped(k) == assets

FailedRows(k) == [assets EXCEPT ![k] = RecordFailure(@)]

\* Mutant: an asset that cannot be read is tried again.
AfterFailureSame(todo, k) == todo

AfterFailure(todo, k) == todo \ {k}

\* The host does not answer, is not in the inventory or has no such file.
\* The file is not in the cache, so the next asset asks for it again.
ReadFails(s) ==
  LET r == refresh[s]
      k == FirstOf(r.todo)
      left == AfterFailure(r.todo, k)
      ready == Ready(left, r.cache, r.place) \ {k}
      done == Noted(ready)
      rows == FailedRows(k)
  IN  /\ Running(s) /\ k \in DOMAIN assets
      /\ Progress(s, [j \in DOMAIN assets |->
                        IF j \in done THEN Collected(r.place, r.cache, done)[j] ELSE rows[j]],
                  left \ done, r.cache, Cardinality(done), 1, Gone(ready))

\* The same for an asset whose row is gone.
RefreshLost(s) ==
  /\ Running(s) /\ FirstOf(refresh[s].todo) \notin DOMAIN assets
  /\ refresh' = [refresh EXCEPT ![s].phase = "not_found"]
  /\ UNCHANGED <<worldVars, policyVars, inventoryVars, previewVars>>

RefreshStep(s) == FileRead(s) \/ ReadFails(s) \/ RefreshLost(s)

-----------------------------------------------------------------------------
(* Trust consumers and previews.                                           *)

ExternalConsumer(d, kind) ==
  [domain |-> d, type |-> "external", kind |-> kind, owner |-> 1]
DeclareExternal(d, kind) ==
  /\ certCluster.alive /\ d \in DOMAIN domains
  /\ consumers' = consumers \cup {ExternalConsumer(d, kind)}
  /\ UNCHANGED <<worldVars, policyVars, domains, assets, previewVars, refresh>>

\* No operation verifies an external consumer.
Unverified == {c \in consumers : c.type = "external"}
VersionBlocker == IF certCluster.supported THEN {} ELSE {"unsupported_elastic_version"}
RestartBlocker == IF RollingRestart THEN {} ELSE {"rolling_restart_capability_disabled"}

RenewalBlockers(k) ==
  VersionBlocker \cup RestartBlocker \cup
  (IF domains[k.domain].legacy THEN {"legacy_shared_split_migration_required"} ELSE {})
RotationBlockers(all) ==
  VersionBlocker \cup RestartBlocker \cup
  (IF \E d \in DOMAIN all : all[d].legacy THEN {"legacy_shared_split_migration_required"} ELSE {})
  \cup (IF Unverified # {} THEN {"external_trust_consumer_unverified"} ELSE {})

CreatePreview(type, blockers) ==
  /\ operations' = {[type |-> type, blockers |-> blockers, policy |-> certPolicy'.revision,
                     state |-> IF blockers = {} THEN "ready" ELSE "blocked"]}
  /\ UNCHANGED execAnswer

\* The inventory is adopted, but the asset shown is the one read before.
RenewalPreview(k) ==
  /\ certCluster.alive
  /\ AdoptLegacy /\ assets' = EnsureAssets(assets)
  /\ CreatePreview("leaf_renewal", RenewalBlockers(k))
  /\ UNCHANGED <<worldVars, formVars, refresh>>

CARotationPreview ==
  /\ certCluster.alive
  /\ AdoptLegacy /\ assets' = EnsureAssets(assets)
  /\ CreatePreview("ca_rotation", RotationBlockers(EnsureDomains))
  /\ UNCHANGED <<worldVars, formVars, refresh>>

\* A hash that is not the preview's is refused before the blockers are read.
Execute(op, sameHash) ==
  /\ execAnswer' = CASE ~sameHash -> "preview_changed"
                     [] op.blockers \cup RestartBlocker # {} -> "blocked"
                     [] OTHER -> "adapter_not_installed"
  /\ UNCHANGED <<worldVars, policyVars, inventoryVars, operations, refresh>>

FileNext ==
  \/ \E l \in Deployed \cup {CA}, c \in Certs \cup CACerts \cup {NoCert} :
       (l = CA <=> c \in CACerts) /\ c # disk[l] /\ ReplaceFile(l, c)
  \/ CertificateTick
RemoveNext == \E id \in AssignmentIds : RemoveAssignment(id)
AddNext == \E role \in Roles, host \in Hosts : certCluster.alive /\ AddAssignment(role, host)
ClusterNext == DeleteCluster \/ \E supported \in BOOLEAN : RecreateCluster(supported)
WorldNext == FileNext \/ RemoveNext \/ AddNext \/ ClusterNext
RefreshNext == \E s \in Slots : StartRefresh(s) \/ RefreshStep(s)
PolicyNext ==
  \E e \in Editors : ReadPolicy(e) \/ \E fields \in PolicyForms : UpdatePolicy(e, fields)
PreviewNext ==
  \/ ListAssets
  \/ ChangeVersion
  \/ \E d \in DomainKinds, kind \in ExternalKinds : DeclareExternal(d, kind)
  \/ \E k \in DOMAIN assets : RenewalPreview(k)
  \/ CARotationPreview
  \/ \E op \in operations, sameHash \in BOOLEAN : Execute(op, sameHash)
CertificateNext == WorldNext \/ RefreshNext \/ PolicyNext \/ PreviewNext
CertificateSpec == CertificateInit /\ [][CertificateNext]_certificateVars

-----------------------------------------------------------------------------

\* The type of the state.
CertificateTypeOK ==
  /\ AssignmentIds \subseteq 1..MaxAssignment
  /\ disk \in [Locators -> Certs \cup CACerts \cup {NoCert}]
  /\ certPolicy.revision \in 0..MaxRevision
  /\ DOMAIN domains \subseteq DomainKinds
  /\ \A k \in DOMAIN assets :
       /\ assets[k].locator \in Locators
       /\ assets[k].health \in {"unobserved", "healthy", "degraded", "observation_failed"}
       /\ assets[k].last \in Certs \cup CACerts \cup {NoCert}
  /\ \A s \in Slots : refresh[s].phase \in {"idle", "running", "done", "not_found"}
  /\ execAnswer \in {"none", "preview_changed", "blocked", "adapter_not_installed"}

\* Two operators who each edit one field of the policy never leave it with a
\* critical threshold that comes before renewal is due, which each of their
\* forms alone would not show (validate_certificate_policy).
PolicyConsistent == certPolicy.critical <= certPolicy.renew

\* A saved form changes what the operator filled in and nothing of what they
\* saw: another operator's save in between is never undone or mixed in
\* (expected_revision of update_default_policy).  Excepted are forms of a
\* deleted cluster, which the next one's policy may take for its own.
SavedAsSeen ==
  [][formSaved' # formSaved \/ certPolicy'.revision > certPolicy.revision =>
       \/ certPolicy'.revision <= 1 \/ formSaved'.editor \in outdated
       \/ certPolicy' = [Merged(formSeen[formSaved'.editor], formSaved'.fields)
                           EXCEPT !.revision = certPolicy.revision + 1]]_certificateVars

\* A refresh records only certificates that lay at the asset's place at some
\* time since it began, and calls an asset healthy only with an authority
\* that was there in that time, whatever is replaced between its reads.
\* Excepted are refreshes of a deleted cluster.
EvidenceIsCurrent ==
  [][\A s \in Slots : \A k \in refresh[s].todo \ refresh'[s].todo :
       ~refresh[s].orphan /\ assets'[k].health \in {"healthy", "degraded"} =>
         /\ <<assets[k].locator, assets'[k].last>> \in refresh[s].since
         /\ assets'[k].health = "healthy" /\ k \notin CAKeys =>
              \E a \in CACerts : <<CA, a>> \in refresh[s].since
                                 /\ assets'[k].last.issuer = a.serial]_certificateVars

\* A refresh that reports success has taken note of every asset it listed:
\* each was either collected or has its failure recorded.  This is so for the
\* numbers even when the assets were of a cluster deleted meanwhile.
RefreshAccounts ==
  \A s \in Slots : refresh[s].phase = "done" =>
    /\ refresh[s].collected + refresh[s].failed = Cardinality(refresh[s].listed)
    /\ ~refresh[s].orphan =>
         \A k \in refresh[s].listed \cap DOMAIN assets : assets[k].health # "unobserved"

\* The response of the execute route behind its last check is "deliberately
\* unreachable" (certificates/http.py:172), whatever previews exist and even
\* when rolling restarts are enabled: an adopted domain blocks it.
ExecutionUnreachable == execAnswer # "adapter_not_installed"

\* Every step of a refresh reads a file it had not read or is done with an
\* asset, so a refresh ends however many hosts do not answer; none is read
\* again for as long as it fails.
RefreshProgresses ==
  [][\A s \in Slots :
       Running(s) /\ refresh'[s].phase = "running" /\ refresh'[s] # refresh[s]
       /\ refresh'[s].since = refresh[s].since /\ refresh'[s].orphan = refresh[s].orphan =>
         \/ refresh'[s].todo # refresh[s].todo /\ refresh'[s].todo \subseteq refresh[s].todo
         \/ DOMAIN refresh[s].cache # DOMAIN refresh'[s].cache]_certificateVars

\* The policy is consistent, a refresh that is done has accounted for its
\* assets, and nothing is executed.
CertificateInvariant ==
  /\ CertificateTypeOK
  /\ PolicyConsistent
  /\ RefreshAccounts
  /\ ExecutionUnreachable

\* What a saved form may overwrite, and what a refresh may record and must get
\* on with.
CertificateSteps ==
  /\ SavedAsSeen
  /\ EvidenceIsCurrent
  /\ RefreshProgresses
=============================================================================
