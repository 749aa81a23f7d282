--------------------------- MODULE StackVersions ----------------------------
(***************************************************************************)
(* Release versions of one cluster: what is observed of the workloads, the *)
(* releases the registry offers, image downloads, Filebeat companions, and *)
(* the upgrade plans that pin images by digest (modules/versions,          *)
(* maintenance/upgrade_planning.py).                                       *)
(*                                                                         *)
(* A route runs on the event loop without interruption up to an await: the *)
(* download and upgrade routes await the registry between their first and  *)
(* their last look at the database.  Runs are tasks that await a playbook  *)
(* for each workload.  The id of a workload that is gone may be given to   *)
(* another one (cluster_assignments has no AUTOINCREMENT).                 *)
(***************************************************************************)
EXTENDS Naturals, Sequences, FiniteSets, FiniteSetsExt

CONSTANTS
  Loads,          \* ids of workloads
  FirstLoads,     \* those assigned at first
  RepositoryOf,   \* image repository of the workload's role
  MasterLoads, ElasticLoads,
  MinMasters,     \* master-eligible workloads of a rolling upgrade: 3
  Releases,       \* numbers, 10 * major + minor
  FirstRelease, NoRelease,
  Images, NoImage,
  FirstRegistry,  \* image that each repository has for each release
  FilebeatRepository,
  MonitoredLoads, \* workloads whose roles have a Metricbeat
  MetricbeatRepository,
  Clients,        \* requests that await the registry at once
  MaxVersionRuns, \* bound on runs
  Moving,         \* <<repository, release>> of the tags that may change
  MaxEvents,      \* bound on requests, passes of the collector, rows edited by
                  \* hand, maintenance and changes of the registry, together
  MaxPlans        \* bound on upgrade plans

Repositories == DOMAIN FirstRegistry

ASSUME VersionsAssumption ==
  /\ Loads \subseteq Nat /\ Releases \subseteq Nat /\ NoRelease \notin Releases
  /\ NoImage \notin Images /\ FirstLoads \subseteq Loads /\ FirstRelease \in Releases
  /\ {MaxVersionRuns, MaxEvents, MaxPlans, MinMasters} \subseteq Nat
  /\ RepositoryOf \in [Loads -> Repositories] /\ {FilebeatRepository, MetricbeatRepository} \subseteq Repositories
  /\ FirstRegistry \in [Repositories -> [Releases -> Images \cup {NoImage}]]
  /\ Moving \subseteq Repositories \X Releases

VARIABLES
  assigned,     \* active rows of cluster_assignments
  deployed,     \* remote: release of each workload, and whether it is up
  seen,         \* workload_observations
  filebeat,     \* clusters.observability_json: filebeat_enabled
  registry,     \* remote: image of each repository and release
  tagCache,     \* releases of a repository as last listed, empty when not cached
  digestCache,  \* digests as last resolved
  inquiry,      \* requests that await the registry
  versionRuns,  \* runs of the cluster
  listing,      \* containers a collector pass has listed and not yet recorded
  events,       \* bounded events so far
  interrupted,  \* a maintenance operation covers the cluster
  upgradePlans, \* maintenance_plans of kind upgrade: release and digests
  published,    \* history: <<repository, release, image>> ever served
  confirmed,    \* history: workloads seen running within the maximal age
  mistaken      \* history: ids observed last by a probe of the workload before

observationVars == <<seen, confirmed, mistaken>>
registryVars == <<registry, tagCache, digestCache, published>>
versionVars ==
  <<assigned, deployed, filebeat, inquiry, versionRuns, listing, events, interrupted,
    upgradePlans, observationVars, registryVars>>

Event == events < MaxEvents /\ events' = events + 1

Major(v) == v \div 10
NoRow == [release |-> NoRelease, running |-> FALSE, failed |-> FALSE, age |-> "none"]
NoInquiry == [kind |-> "none", target |-> NoRelease, loads |-> {}, offered |-> {},
              beats |-> FALSE, answered |-> FALSE]
Nothing == [a \in {} |-> 0]

VersionsInit ==
  /\ assigned = FirstLoads
  /\ deployed = [a \in Loads |-> [release |-> FirstRelease, up |-> a \in FirstLoads]]
  /\ seen = [a \in Loads |-> NoRow]
  /\ filebeat = FALSE
  /\ registry = FirstRegistry
  /\ tagCache = [p \in Repositories |-> {}]
  /\ digestCache = [p \in Repositories |-> [v \in Releases |-> NoImage]]
  /\ inquiry = [c \in Clients |-> NoInquiry]
  /\ versionRuns = << >> /\ listing = Nothing /\ events = 0 /\ interrupted = FALSE
  /\ upgradePlans = {} /\ confirmed = {} /\ mistaken = {}
  /\ published = {<<p, v, registry[p][v]>> : p \in Repositories, v \in Releases}

-----------------------------------------------------------------------------
(* Runs of the cluster.                                                    *)

\* Mutant: the name is matched with a colon that the match itself adds.
BusyByPrefix == FALSE

\* has_active_target: every run of the cluster is named after it.
Busy == \E r \in DOMAIN versionRuns : versionRuns[r].phase # "ended"

\* cut: history, the ids in todo whose rows were deleted since the launch.
NewVersionRun(kind, todo) ==
  [kind |-> kind, todo |-> todo, cut |-> {}, phase |-> "running"]
\* A run takes its workloads by their ids: what is left after the first.
Behind(S) == {a \in S : \E b \in S : b < a}
Room == Len(versionRuns) < MaxVersionRuns
\* Runs that have ended keep nothing a later step looks at.
EndRun(r) ==
  [versionRuns EXCEPT ![r] = [kind |-> "past", todo |-> {}, cut |-> {}, phase |-> "ended"]]
Advance(r) ==
  IF Behind(versionRuns[r].todo) = {} THEN EndRun(r)
  ELSE [versionRuns EXCEPT ![r].todo = Behind(@)]
AtWork(r, kind) == versionRuns[r].kind = kind /\ versionRuns[r].phase = "running"

RefreshVersions ==
  /\ assigned # {} /\ ~Busy /\ Room
  /\ versionRuns' = Append(versionRuns, NewVersionRun("probe", assigned))
  /\ UNCHANGED <<assigned, deployed, filebeat, inquiry, listing, events, interrupted, upgradePlans,
                 observationVars, registryVars>>

\* record_runtime
RecordRuntime(a, row) ==
  /\ seen' = [seen EXCEPT ![a] = row]
  /\ confirmed' = IF row.running /\ ~row.failed THEN confirmed \cup {a} ELSE confirmed \ {a}
  /\ mistaken' = mistaken \ {a}

Probed(a, running, failed) ==
  [release |-> IF failed THEN NoRelease ELSE deployed[a].release,
   running |-> running, failed |-> failed, age |-> "fresh"]

\* What the container of a workload that is gone looks like.
LeftBehind == [release : Releases, running : BOOLEAN, failed : {FALSE}, age : {"fresh"}]

\* The first failure ends the run.  A row that is gone cannot be written: the
\* task dies, and the run is never closed.  An id that came back meanwhile gets
\* what the command found of the workload before.
ProbeStep(r) ==
  LET a == Min(versionRuns[r].todo)
  IN  /\ AtWork(r, "probe")
      /\ \/ /\ a \in assigned \ versionRuns[r].cut
            /\ RecordRuntime(a, Probed(a, deployed[a].up, FALSE))
            /\ versionRuns' = Advance(r)
         \/ /\ a \in assigned
            /\ RecordRuntime(a, Probed(a, FALSE, TRUE))
            /\ versionRuns' = EndRun(r)
         \/ /\ a \in assigned \cap versionRuns[r].cut
            /\ \E row \in LeftBehind : seen' = [seen EXCEPT ![a] = row]
            /\ confirmed' = confirmed \ {a} /\ mistaken' = mistaken \cup {a}
            /\ versionRuns' = Advance(r)
         \/ /\ a \notin assigned
            /\ versionRuns' = [versionRuns EXCEPT ![r].phase = "lost"]
            /\ UNCHANGED observationVars
      /\ UNCHANGED <<assigned, deployed, filebeat, inquiry, listing, events, interrupted, upgradePlans,
                     registryVars>>

-----------------------------------------------------------------------------
(* The collector.                                                          *)

CollectorLists ==
  /\ listing = Nothing /\ Event
  /\ listing' = deployed
  /\ UNCHANGED <<assigned, deployed, filebeat, inquiry, versionRuns, interrupted, upgradePlans,
                 observationVars, registryVars>>

Listed(a) ==
  [release |-> listing[a].release, running |-> listing[a].up, failed |-> ~listing[a].up,
   age |-> "fresh"]

\* The rows of the workloads that are assigned by then.
CollectorRecordsVersions ==
  /\ listing # Nothing
  /\ seen' = [a \in Loads |-> IF a \in assigned THEN Listed(a) ELSE seen[a]]
  /\ confirmed' = {a \in assigned : listing[a].up}
  /\ mistaken' = {}
  /\ listing' = Nothing
  /\ UNCHANGED <<assigned, deployed, filebeat, inquiry, versionRuns, events, interrupted,
                 upgradePlans, registryVars>>

\* An observation passes the maximal age.
ObservationAges(a) ==
  /\ seen[a].age = "fresh"
  /\ seen' = [seen EXCEPT ![a].age = "stale"]
  /\ confirmed' = confirmed \ {a} /\ mistaken' = mistaken \ {a}
  /\ UNCHANGED <<assigned, deployed, filebeat, inquiry, versionRuns, listing, events, interrupted,
                 upgradePlans, registryVars>>

-----------------------------------------------------------------------------
(* Filebeat companions.                                                    *)

\* The run over all workloads, and none when another one is under way.
WithFilebeat(runs, S) ==
  IF (\E r \in DOMAIN runs : runs[r].phase # "ended") \/ S = {} \/ Len(runs) >= MaxVersionRuns
  THEN runs ELSE Append(runs, NewVersionRun("filebeat", S))

UpdateLogMonitoring(enabled) ==
  /\ ~interrupted /\ ~Busy /\ Room
  /\ filebeat' = enabled
  /\ versionRuns' = WithFilebeat(versionRuns, assigned)
  /\ UNCHANGED <<assigned, deployed, inquiry, listing, events, interrupted, upgradePlans,
                 observationVars, registryVars>>

\* Mutant: the time of the observation is renewed with the companion's.
FilebeatRowRenewed(row) == [row EXCEPT !.age = "fresh"]

\* record_filebeat_runtime: a row that did not exist is dated now; the
\* columns of the companion are left out.
FilebeatRow(row) == [row EXCEPT !.age = IF @ = "none" THEN "fresh" ELSE @]

\* A failure is recorded and the next workload follows; a row that is gone
\* ends the run.
FilebeatStep(r) ==
  LET a == Min(versionRuns[r].todo)
  IN  /\ AtWork(r, "filebeat")
      /\ \/ /\ a \in assigned
            /\ seen' = [seen EXCEPT ![a] = FilebeatRow(@)]
            /\ versionRuns' = Advance(r)
         \/ /\ a \notin assigned
            /\ versionRuns' = EndRun(r)
            /\ UNCHANGED seen
      /\ UNCHANGED <<assigned, deployed, filebeat, inquiry, listing, events, interrupted, upgradePlans,
                     confirmed, mistaken, registryVars>>

-----------------------------------------------------------------------------
(* Other operations: batches and direct changes of WorkloadChanges, and    *)
(* maintenance of the cluster.                                             *)

\* The row of a workload in a batch has the batch's operation_run_id.
Claimed(a) == \E r \in DOMAIN versionRuns : AtWork(r, "batch") /\ a \in versionRuns[r].todo

LaunchBatch(a) ==
  /\ ~interrupted /\ ~Busy /\ Room
  /\ versionRuns' = Append(versionRuns, NewVersionRun("batch", {a}))
  /\ UNCHANGED <<assigned, deployed, filebeat, inquiry, listing, events, interrupted, upgradePlans,
                 observationVars, registryVars>>

\* The direct routes look at the claim of the row and not at the runs.
DirectAllowed(a) == ~interrupted /\ a \in assigned /\ ~Claimed(a)
\* initial_master_has_dependents
Removable(a) == a \in MasterLoads /\ a = Min(assigned \cap MasterLoads) => assigned = {a}

LaunchDirect(a, kind) ==
  /\ DirectAllowed(a) /\ (kind = "purge" => Removable(a)) /\ Room
  /\ versionRuns' = Append(versionRuns, NewVersionRun(kind, {a}))
  /\ UNCHANGED <<assigned, deployed, filebeat, inquiry, listing, events, interrupted, upgradePlans,
                 observationVars, registryVars>>

\* Mutant: the observation outlives the workload.
SeenAfterPurgeKept(a) == seen

SeenAfterPurge(a) == [seen EXCEPT ![a] = NoRow]

\* delete_assignment: the observation goes with the row.
DeleteRow(a) ==
  /\ assigned' = assigned \ {a}
  /\ seen' = SeenAfterPurge(a)
  /\ confirmed' = confirmed \ {a} /\ mistaken' = mistaken \ {a}
CutRuns(runs, a) ==
  [r \in DOMAIN runs |-> [runs[r] EXCEPT !.cut = @ \cup ({a} \cap runs[r].todo)]]

\* A detached workload goes on running.
Detach(a) ==
  /\ DirectAllowed(a) /\ Removable(a) /\ Event
  /\ DeleteRow(a)
  /\ versionRuns' = CutRuns(versionRuns, a)
  /\ UNCHANGED <<deployed, filebeat, inquiry, listing, interrupted, upgradePlans,
                 registryVars>>

AddAssignment(a) ==
  /\ ~interrupted /\ a \notin assigned /\ ~Claimed(a) /\ Event
  /\ assigned' = assigned \cup {a}
  /\ UNCHANGED <<deployed, filebeat, inquiry, versionRuns, listing, interrupted, upgradePlans,
                 observationVars, registryVars>>

\* The workload is deployed at some release, or purged; the companions follow
\* a success.
ChangeSucceeds(r, v) ==
  LET a == Min(versionRuns[r].todo)
  IN  /\ \/ /\ AtWork(r, "batch") \/ AtWork(r, "apply")
            /\ assigned' = IF AtWork(r, "batch") THEN assigned \cup {a} ELSE assigned
            /\ deployed' = [deployed EXCEPT ![a] = [release |-> v, up |-> TRUE]]
            /\ versionRuns' = WithFilebeat(EndRun(r), assigned')
            /\ UNCHANGED observationVars
         \/ /\ (AtWork(r, "batch") /\ a \in assigned) \/ AtWork(r, "purge")
            /\ DeleteRow(a)
            /\ deployed' = [deployed EXCEPT ![a].up = FALSE]
            /\ versionRuns' = WithFilebeat(CutRuns(EndRun(r), a), assigned')
      /\ UNCHANGED <<filebeat, inquiry, listing, events, interrupted, upgradePlans, registryVars>>

ChangeFails(r) ==
  /\ AtWork(r, "batch") \/ AtWork(r, "apply") \/ AtWork(r, "purge")
  /\ versionRuns' = EndRun(r)
  /\ UNCHANGED <<assigned, deployed, filebeat, inquiry, listing, events, interrupted, upgradePlans,
                 observationVars, registryVars>>

\* A window looks for runs under way; a plan of a host looked when it was made.
MaintenanceBegins ==
  /\ ~interrupted /\ Event
  /\ interrupted' = TRUE
  /\ \E a \in assigned : deployed' = [deployed EXCEPT ![a].up = FALSE]
  /\ UNCHANGED <<assigned, filebeat, inquiry, versionRuns, listing, upgradePlans,
                 observationVars, registryVars>>

MaintenanceEnds ==
  /\ interrupted
  /\ interrupted' = FALSE
  /\ deployed' = [a \in Loads |-> [deployed[a] EXCEPT !.up = @ \/ a \in assigned]]
  /\ UNCHANGED <<assigned, filebeat, inquiry, versionRuns, listing, events, upgradePlans,
                 observationVars, registryVars>>

-----------------------------------------------------------------------------
(* The registry and its caches.                                            *)

\* A tag appears, moves or is withdrawn.
Publish(p, v, i) ==
  /\ registry[p][v] # i /\ Event
  /\ registry' = [registry EXCEPT ![p][v] = i]
  /\ published' = published \cup {<<p, v, i>>}
  /\ UNCHANGED <<assigned, deployed, filebeat, inquiry, versionRuns, listing, interrupted,
                 upgradePlans, observationVars, tagCache, digestCache>>

CachesExpire ==
  /\ tagCache' = [p \in Repositories |-> {}]
  /\ digestCache' = [p \in Repositories |-> [v \in Releases |-> NoImage]]
  /\ UNCHANGED <<assigned, deployed, filebeat, inquiry, versionRuns, listing, events, interrupted,
                 upgradePlans, observationVars, registry, published>>

Tags(p) == IF tagCache[p] # {} THEN tagCache[p] ELSE {v \in Releases : registry[p][v] # NoImage}
Digest(p, v) == IF digestCache[p][v] # NoImage THEN digestCache[p][v] ELSE registry[p][v]

\* repositories
RepositoriesFor(S, beats) ==
  {RepositoryOf[a] : a \in S}
    \cup {p \in {MetricbeatRepository} : S \cap MonitoredLoads # {}}
    \cup {p \in {FilebeatRepository} : beats /\ S # {}}

AvailableVersions(P) == {v \in Releases : \A p \in P : v \in Tags(p)}

-----------------------------------------------------------------------------
(* Downloads and upgrade plans.                                            *)

Ask(c, kind, v) ==
  /\ inquiry[c] = NoInquiry /\ ~interrupted /\ Event
  /\ kind = "download" => ~Busy
  /\ inquiry' = [inquiry EXCEPT ![c] =
       [kind |-> kind, target |-> v, loads |-> assigned, offered |-> {},
        beats |-> filebeat, answered |-> FALSE]]
  /\ UNCHANGED <<assigned, deployed, filebeat, versionRuns, listing, interrupted, upgradePlans,
                 observationVars, registryVars>>

\* The registry answers for the cluster as the request read it, or does not.
Discover(c) ==
  LET needed == RepositoriesFor(inquiry[c].loads, inquiry[c].beats)
  IN  /\ inquiry[c] # NoInquiry /\ ~inquiry[c].answered
      /\ \/ /\ \A p \in needed : Tags(p) # {}
            /\ tagCache' = [p \in Repositories |-> IF p \in needed THEN Tags(p) ELSE tagCache[p]]
            /\ inquiry' = [inquiry EXCEPT ![c].answered = TRUE,
                                          ![c].offered = AvailableVersions(needed)]
         \/ inquiry' = [inquiry EXCEPT ![c] = NoInquiry] /\ UNCHANGED tagCache
      /\ UNCHANGED <<assigned, deployed, filebeat, versionRuns, listing, events, interrupted, upgradePlans,
                     observationVars, registry, digestCache, published>>

\* The cluster is not read again: the run starts whatever has begun meanwhile.
LaunchDownload(c) ==
  /\ inquiry[c].kind = "download" /\ inquiry[c].answered
  /\ IF inquiry[c].target \in inquiry[c].offered /\ Room
     THEN versionRuns' = Append(versionRuns, NewVersionRun("download", inquiry[c].loads))
     ELSE UNCHANGED versionRuns
  /\ inquiry' = [inquiry EXCEPT ![c] = NoInquiry]
  /\ UNCHANGED <<assigned, deployed, filebeat, listing, events, interrupted, upgradePlans,
                 observationVars, registryVars>>

\* An image is pulled, or the run ends with the first that is not.
DownloadStep(r) ==
  /\ AtWork(r, "download")
  /\ versionRuns' \in {Advance(r), EndRun(r)}
  /\ UNCHANGED <<assigned, deployed, filebeat, inquiry, listing, events, interrupted, upgradePlans,
                 observationVars, registryVars>>

UpgradeFits(a, v) ==
  /\ seen[a].age = "fresh" /\ seen[a].running /\ ~seen[a].failed
  /\ v > seen[a].release /\ Major(v) <= Major(seen[a].release) + 1

\* Memberships have their network bindings.
UpgradePreflight(c, S) ==
  LET v == inquiry[c].target
  IN  /\ v \in inquiry[c].offered
      /\ S # {} /\ \A a \in S : UpgradeFits(a, v)
      /\ S \cap ElasticLoads # {} => Cardinality(S \cap MasterLoads) >= MinMasters

\* Mutant: the plan covers the workloads the request began with.
PlannedLoadsAsAsked(c) == inquiry[c].loads

PlannedLoads(c) == assigned

\* Mutant: the conflict is looked for once, before the registry is asked.
StillUndisturbedAsAsked(c) == TRUE

StillUndisturbed(c) == ~interrupted

\* build_manifest_for_assignments with the digests of target_image_digests.
Manifest(S, v) == [release |-> v, images |-> [a \in S |-> Digest(RepositoryOf[a], v)]]
WithDigests(P, v) ==
  [p \in Repositories |-> IF p \in P THEN [digestCache[p] EXCEPT ![v] = Digest(p, v)]
                          ELSE digestCache[p]]

\* The identity of a plan is its manifest: an equal one is returned as it is.
PlanUpgrade(c) ==
  LET S == PlannedLoads(c)
      v == inquiry[c].target
      needed == {RepositoryOf[a] : a \in S}
  IN  /\ inquiry[c].kind = "upgrade" /\ inquiry[c].answered
      /\ \/ /\ StillUndisturbed(c) /\ UpgradePreflight(c, S)
            /\ \A p \in needed : Digest(p, v) # NoImage
            /\ Manifest(S, v) \in upgradePlans \/ Cardinality(upgradePlans) < MaxPlans
            /\ upgradePlans' = upgradePlans \cup {Manifest(S, v)}
            /\ digestCache' = WithDigests(needed, v)
         \/ /\ ~(StillUndisturbed(c) /\ UpgradePreflight(c, S))
            /\ UNCHANGED <<upgradePlans, digestCache>>
         \* one of the digests cannot be resolved
         \/ /\ StillUndisturbed(c) /\ UpgradePreflight(c, S)
            /\ \E P \in SUBSET needed \ {needed} : digestCache' = WithDigests(P, v)
            /\ UNCHANGED upgradePlans
      /\ inquiry' = [inquiry EXCEPT ![c] = NoInquiry]
      /\ UNCHANGED <<assigned, deployed, filebeat, versionRuns, listing, events, interrupted,
                     observationVars, registry, tagCache, published>>

\* Runs in flight are failed; requests, passes and caches are gone.
VersionsRestart ==
  /\ versionRuns' = [r \in DOMAIN versionRuns |-> EndRun(r)[r]]
  /\ inquiry' = [c \in Clients |-> NoInquiry]
  /\ listing' = Nothing
  /\ tagCache' = [p \in Repositories |-> {}]
  /\ digestCache' = [p \in Repositories |-> [v \in Releases |-> NoImage]]
  /\ UNCHANGED <<assigned, deployed, filebeat, events, interrupted, upgradePlans, observationVars,
                 registry, published>>

VersionsNext ==
  \/ RefreshVersions \/ CollectorLists \/ CollectorRecordsVersions
  \/ \E a \in Loads : ObservationAges(a)
  \/ \E enabled \in BOOLEAN : UpdateLogMonitoring(enabled)
  \/ MaintenanceBegins \/ MaintenanceEnds
  \/ \E a \in Loads :
       \/ LaunchBatch(a) \/ Detach(a) \/ AddAssignment(a)
       \/ \E kind \in {"apply", "purge"} : LaunchDirect(a, kind)
  \/ \E r \in DOMAIN versionRuns :
       \/ ProbeStep(r) \/ FilebeatStep(r) \/ DownloadStep(r) \/ ChangeFails(r)
       \/ \E v \in Releases : ChangeSucceeds(r, v)
  \/ \E tag \in Moving, i \in Images \cup {NoImage} : Publish(tag[1], tag[2], i)
  \/ CachesExpire
  \/ \E c \in Clients :
       \/ \E kind \in {"download", "upgrade"}, v \in Releases : Ask(c, kind, v)
       \/ Discover(c) \/ LaunchDownload(c) \/ PlanUpgrade(c)
  \/ VersionsRestart

VersionsSpec == VersionsInit /\ [][VersionsNext]_versionVars

-----------------------------------------------------------------------------

\* The type of the state.  Only workloads that are assigned have a row.
VersionsTypeOK ==
  /\ assigned \subseteq Loads
  /\ \A a \in Loads \ assigned : seen[a] = NoRow
  /\ \A a \in Loads : seen[a].release \in Releases \cup {NoRelease}
  /\ registry \in [Repositories -> [Releases -> Images \cup {NoImage}]]
  /\ Len(versionRuns) <= MaxVersionRuns
  /\ \A m \in upgradePlans : m.release \in Releases /\ DOMAIN m.images \subseteq Loads

\* A probe, a companion run or a batch never begins beside another run of the
\* cluster, although each is launched by a route or a task of its own: of two
\* runs under way the later is a download, whose route does not look again
\* after the registry has answered, or a direct change, which does not look.
VersionRunsExclusive ==
  \A r, s \in DOMAIN versionRuns :
    r < s /\ versionRuns[r].phase # "ended" /\ versionRuns[s].phase # "ended" =>
      versionRuns[s].kind \in {"download", "apply", "purge"}

\* A run is left unfinished, and holds the cluster until the next restart,
\* only when a workload that it had yet to report on was removed meanwhile.
LostToRemoval ==
  \A r \in DOMAIN versionRuns :
    versionRuns[r].phase = "lost" => Min(versionRuns[r].todo) \in versionRuns[r].cut

NewPlans == upgradePlans' \ upgradePlans

\* A plan pins an image for exactly the workloads that are assigned when it
\* is stored, each served by that workload's own repository for the release,
\* although the releases were looked up for the workloads there were before.
PlanPinsCluster ==
  [][\A m \in NewPlans :
       /\ DOMAIN m.images = assigned
       /\ \A a \in assigned : m.images[a] # NoImage
                              /\ <<RepositoryOf[a], m.release, m.images[a]>> \in published]_versionVars

\* A plan rests on a probe or a collector pass that has found every workload
\* running within the maximal age: the records of the companions neither
\* stand for one nor renew one.  (Excepted is an id that was given again while
\* a probe of the workload before was under way.)
PlanHasEvidence ==
  [][NewPlans # {} => assigned \subseteq confirmed \cup mistaken]_versionVars

\* A maintenance operation that began while the registry was asked keeps the
\* upgrade from being planned.
PlanOutsideMaintenance == [][NewPlans # {} => ~interrupted]_versionVars

\* An upgrade is planned for the cluster as it is when the plan is stored,
\* whatever changed while the registry was asked; the runs that report on the
\* cluster do not begin beside others, and are lost to removals only.
VersionsSafe ==
  /\ []VersionsTypeOK
  /\ []VersionRunsExclusive
  /\ []LostToRemoval
  /\ PlanPinsCluster
  /\ PlanHasEvidence
  /\ PlanOutsideMaintenance
=============================================================================
