--------------------------- MODULE ClusterZoning ---------------------------
(***************************************************************************)
(* Zones of hosts and the allocation awareness of clusters: the desired    *)
(* zoning of a cluster, the run that applies it workload by workload, the  *)
(* change of one host's zone, and the record of what was applied           *)
(* (clusters/zoning.py, clusters/policy.py, hosts/http.py,                 *)
(* observability/collector.py).                                            *)
(*                                                                         *)
(* A run is a task: it reads the database when it begins and again between *)
(* the playbooks it awaits.  An apply keeps the cluster to itself by the   *)
(* target of its run, a host's zone change by claiming the workloads on    *)
(* that host.  Storing a new desired zoning asks for neither.              *)
(***************************************************************************)
EXTENDS Naturals, Sequences, FiniteSets

CONSTANTS
  Clusters, ZoneHosts,
  Workloads,     \* ids of the active Elasticsearch assignments
  ClusterOf, HostOf, RoleOf,
  Zones, NoZone,
  Catalogs,      \* desired zonings an operator may store: [mode, zones]
  FirstZoning, FirstZone, FirstMembers,
  SpareHosts,    \* hosts that may join or leave clusters
  MaxEdits,      \* bound on stored zonings and membership changes
  MaxZoneRuns,   \* bound on runs
  MaxPasses      \* bound on passes of the collector

ASSUME ZoningAssumption ==
  /\ Workloads \subseteq Nat /\ IsFiniteSet(Workloads)
  /\ MaxEdits \in Nat /\ MaxZoneRuns \in Nat /\ MaxPasses \in Nat
  /\ Clusters \subseteq Nat
  /\ ClusterOf \in [Workloads -> Clusters] /\ HostOf \in [Workloads -> ZoneHosts]
  /\ FirstZoning \in [Clusters -> Catalogs]
  /\ FirstZone \in [ZoneHosts -> Zones \cup {NoZone}]
  /\ FirstMembers \in [Clusters -> SUBSET ZoneHosts]
  /\ SpareHosts \subseteq ZoneHosts
  \* a workload is placed on a host of its cluster, a catalog names its zones
  /\ \A a \in Workloads : HostOf[a] \in FirstMembers[ClusterOf[a]]
  /\ \A c \in Clusters : FirstZoning[c].mode # "disabled" =>
       {FirstZone[h] : h \in FirstMembers[c]} \ {NoZone} \subseteq FirstZoning[c].zones

VARIABLES
  zoning,   \* clusters.zoning_json
  members,  \* memberships: hosts of each cluster
  hostZone, \* nodes.zone_id
  runtime,  \* the zone attribute each workload really runs with
  record,   \* cluster_zoning_observations
  claim,    \* cluster_assignments.operation_run_id
  zoneRuns, \* runs: zoning-apply and host-zone-change
  sample,   \* what a collector pass has read and not yet recorded
  passes,   \* passes of the collector so far
  edits,    \* stored zonings and membership changes so far
  shaken    \* history: clusters edited or joined under a host's zone change, or
            \* restarted under a run

zoningVars ==
  <<zoning, members, hostZone, runtime, record, claim, zoneRuns, sample, passes, edits, shaken>>

RunIds == 1..MaxZoneRuns
NoSample == [cluster |-> 0]
OfCluster(c) == {a \in Workloads : ClusterOf[a] = c}
OnHost(h) == {a \in Workloads : HostOf[a] = h}
DataRoles == {"hot", "warm"}
DataOf(c, role) == {a \in OfCluster(c) : RoleOf[a] = role}

ZoningInit ==
  /\ zoning = FirstZoning
  /\ members = FirstMembers
  /\ hostZone = FirstZone
  /\ runtime = [a \in Workloads |-> NoZone]
  /\ record = [c \in Clusters |->
       [mode |-> "disabled", zones |-> {}, status |-> "none",
        observed |-> [a \in OfCluster(c) |-> NoZone]]]
  /\ claim = [a \in Workloads |-> 0]
  /\ zoneRuns = << >>
  /\ sample = NoSample /\ passes = 0 /\ edits = 0 /\ shaken = {}

-----------------------------------------------------------------------------
(* Operations of a cluster that are under way.                             *)

Active(r) == zoneRuns[r].phase # "ended"
HasActiveTarget(c) ==
  \E r \in DOMAIN zoneRuns : zoneRuns[r].kind = "apply" /\ zoneRuns[r].on = c /\ Active(r)

\* Mutant: only runs that name the cluster count.
ActiveOperationByTarget(c) == HasActiveTarget(c)

\* A claim of a run that has ended does not count.
ActiveOperation(c) ==
  HasActiveTarget(c) \/ \E a \in OfCluster(c) : claim[a] # 0 /\ Active(claim[a])

\* History: a zone change of one of the hosts is under way.
ZoneChangeOf(H) ==
  \E r \in DOMAIN zoneRuns : zoneRuns[r].kind = "host" /\ Active(r) /\ zoneRuns[r].on \in H

-----------------------------------------------------------------------------
(* The desired zoning and the members of a cluster.                        *)

ZonesInUse(c) == {hostZone[h] : h \in members[c]} \ {NoZone}
ValidCatalog(c, z) == z.mode = "disabled" \/ ZonesInUse(c) \subseteq z.zones

Edit == edits < MaxEdits /\ edits' = edits + 1

PutZoning(c, z) ==
  /\ Edit /\ ValidCatalog(c, z)
  /\ zoning' = [zoning EXCEPT ![c] = z]
  /\ shaken' = IF ZoneChangeOf(members[c]) THEN shaken \cup {c} ELSE shaken
  /\ UNCHANGED <<members, hostZone, runtime, record, claim, zoneRuns, sample, passes>>

HostZoneFits(c, h) ==
  zoning[c].mode = "disabled" \/ hostZone[h] \in zoning[c].zones

AddMember(c, h) ==
  /\ Edit /\ h \notin members[c] /\ HostZoneFits(c, h)
  /\ members' = [members EXCEPT ![c] = @ \cup {h}]
  /\ shaken' = IF ZoneChangeOf({h}) THEN shaken \cup {c} ELSE shaken
  /\ UNCHANGED <<zoning, hostZone, runtime, record, claim, zoneRuns, sample, passes>>

RemoveMember(c, h) ==
  /\ Edit /\ h \in members[c] /\ OnHost(h) \cap OfCluster(c) = {}
  /\ members' = [members EXCEPT ![c] = @ \ {h}]
  /\ UNCHANGED <<zoning, hostZone, runtime, record, claim, zoneRuns, sample, passes, shaken>>

-----------------------------------------------------------------------------
(* Launching runs.                                                         *)

ZonesOf(zoned, S) == {zoned[HostOf[a]] : a \in S} \ {NoZone}
\* Every data role that the cluster has is in every forced zone.
ForcedCovered(c, catalog, zoned) ==
  \A role \in DataRoles :
    DataOf(c, role) # {} => catalog.zones \subseteq ZonesOf(zoned, DataOf(c, role))

Preflight(c) ==
  LET z == zoning[c]
      data == DataOf(c, "hot") \cup DataOf(c, "warm")
  IN  /\ ~ActiveOperation(c)
      /\ z.mode = "disabled" => OfCluster(c) = {} \/ DataOf(c, "master") # {}
      /\ z.mode # "disabled" =>
           /\ Cardinality(z.zones) >= 2
           /\ DataOf(c, "master") # {} /\ data # {}
           /\ \A a \in OfCluster(c) : HostZoneFits(c, HostOf[a])
           /\ z.mode = "forced" => ForcedCovered(c, z, hostZone)
           /\ Cardinality(ZonesOf(hostZone, data)) >= 2

NewRun(kind, on, old) ==
  [kind |-> kind, on |-> on, phase |-> "created", todo |-> {}, completed |-> {},
   old |-> old, previous |-> << >>, desired |-> << >>, settings |-> << >>, failed |-> 0,
   clean |-> TRUE, truthful |-> FALSE, started |-> << >>]

\* The record is cleared without a run when there is nothing to apply to.
LaunchApply(c) ==
  /\ Preflight(c)
  /\ \/ /\ OfCluster(c) # {} /\ Len(zoneRuns) < MaxZoneRuns
        /\ zoneRuns' = Append(zoneRuns, NewRun("apply", c, NoZone))
        /\ UNCHANGED record
     \/ /\ OfCluster(c) = {} /\ zoning[c].mode = "disabled"
        /\ record' = [record EXCEPT ![c].mode = "disabled", ![c].zones = {},
                                    ![c].status = "disabled"]
        /\ UNCHANGED zoneRuns
  /\ UNCHANGED <<zoning, members, hostZone, runtime, claim, sample, passes, edits, shaken>>

\* Mutant: the zone has to be known to the selected cluster only.
ZoneChangeFitsSelected(h, c, z) == z \in zoning[c].zones

ZoneChangeFits(h, c, z) ==
  /\ z \in zoning[c].zones
  /\ \A d \in Clusters : h \in members[d] =>
       zoning[d].mode = "disabled" \/ z \in zoning[d].zones

\* Mutant: the host that moves is counted where it was.
ForcedZonesStayAsBefore(h, z) ==
  \A d \in Clusters : h \in members[d] /\ zoning[d].mode = "forced" =>
    ForcedCovered(d, zoning[d], hostZone)

ForcedZonesStay(h, z) ==
  \A d \in Clusters : h \in members[d] /\ zoning[d].mode = "forced" =>
    ForcedCovered(d, zoning[d], [hostZone EXCEPT ![h] = z])

ValidZoneChange(h, c, z) ==
  /\ ZoneChangeFits(h, c, z)
  /\ \A d \in Clusters : h \in members[d] => ~ActiveOperation(d)
  /\ ForcedZonesStay(h, z)

\* A claim that a run has left behind makes the whole request fail.
UpdateNodeZone(h, c, z) ==
  /\ ValidZoneChange(h, c, z) /\ hostZone[h] # z
  /\ \A a \in OnHost(h) : claim[a] = 0
  /\ hostZone' = [hostZone EXCEPT ![h] = z]
  /\ \/ /\ OnHost(h) # {} /\ Len(zoneRuns) < MaxZoneRuns
        /\ zoneRuns' = Append(zoneRuns, NewRun("host", h, hostZone[h]))
        /\ claim' = [a \in Workloads |-> IF a \in OnHost(h) THEN Len(zoneRuns') ELSE claim[a]]
     \/ OnHost(h) = {} /\ UNCHANGED <<zoneRuns, claim>>
  /\ UNCHANGED <<zoning, members, runtime, record, sample, passes, edits, shaken>>

-----------------------------------------------------------------------------
(* A run.                                                                  *)

\* The order of the workloads; ids stand for the names of the hosts, which
\* the code compares before them.
RoleRank(a) ==
  CASE RoleOf[a] = "master" -> 1 [] RoleOf[a] = "hot" -> 2 [] OTHER -> 3
Sooner(a, b) ==
  \/ ClusterOf[a] < ClusterOf[b]
  \/ ClusterOf[a] = ClusterOf[b] /\ RoleRank(a) < RoleRank(b)
  \/ ClusterOf[a] = ClusterOf[b] /\ RoleRank(a) = RoleRank(b) /\ a < b
FirstOf(S) == CHOOSE a \in S : \A b \in S \ {a} : Sooner(a, b)
LastOf(S) == CHOOSE a \in S : \A b \in S \ {a} : Sooner(b, a)

DesiredZone(a, z) == IF z.mode = "disabled" THEN NoZone ELSE hostZone[HostOf[a]]

\* What remains for the workloads of an apply once they all run with their
\* zone: the cluster is read again for the settings to send.
WithSettings(run) ==
  IF run.todo = {} /\ run.kind = "apply" THEN [run EXCEPT !.settings = zoning[run.on]] ELSE run

TruthfulIn(c) == \A a \in OfCluster(c) : record[c].observed[a] = runtime[a]

\* An apply passes over the workloads whose recorded zone is the desired one.
BeginApply(r) ==
  LET c == zoneRuns[r].on
      previous == record[c].observed
      desired == [a \in OfCluster(c) |-> DesiredZone(a, zoning[c])]
      todo == {a \in OfCluster(c) : previous[a] # desired[a]}
  IN  /\ zoneRuns[r].kind = "apply" /\ zoneRuns[r].phase = "created"
      /\ zoneRuns' = [zoneRuns EXCEPT ![r] = WithSettings(
           [zoneRuns[r] EXCEPT !.phase = "forward", !.todo = todo, !.previous = previous,
                     !.desired = desired, !.truthful = TruthfulIn(c),
                     !.started = runtime])]
      /\ UNCHANGED <<zoning, members, hostZone, runtime, record, claim, sample, passes, edits, shaken>>

\* A host's workloads in clusters without zoning are left alone.
BeginHost(r) ==
  LET h == zoneRuns[r].on
      mine == {a \in OnHost(h) : zoning[ClusterOf[a]].mode # "disabled"}
      old == zoneRuns[r].old
  IN  /\ zoneRuns[r].kind = "host" /\ zoneRuns[r].phase = "created"
      /\ zoneRuns' = [zoneRuns EXCEPT ![r] =
           [zoneRuns[r] EXCEPT !.phase = "forward", !.todo = mine,
                     !.previous = [a \in mine |-> old],
                     !.desired = [a \in mine |-> hostZone[h]],
                     !.truthful = \A a \in mine : TruthfulIn(ClusterOf[a]) /\ runtime[a] = old,
                     !.started = runtime]]
      /\ UNCHANGED <<zoning, members, hostZone, runtime, record, claim, sample, passes, edits, shaken>>

Forward(r) == zoneRuns[r].phase = "forward"
Subject(r) == FirstOf(zoneRuns[r].todo)

\* The playbook has set the zone.
Reconciled(r) ==
  /\ Forward(r) /\ zoneRuns[r].todo # {}
  /\ LET run == zoneRuns[r]
         a == Subject(r)
     IN  /\ runtime' = [runtime EXCEPT ![a] = run.desired[a]]
         /\ zoneRuns' = [zoneRuns EXCEPT ![r] = WithSettings(
              [run EXCEPT !.todo = run.todo \ {a}, !.completed = run.completed \cup {a}])]
  /\ UNCHANGED <<zoning, members, hostZone, record, claim, sample, passes, edits, shaken>>

\* The playbook has failed, with or without having restarted the workload;
\* what went before is rolled back, the failed workload is not.
ReconcileFails(r) ==
  /\ Forward(r) /\ zoneRuns[r].todo # {}
  /\ \E z \in {runtime[Subject(r)], zoneRuns[r].desired[Subject(r)]} :
       runtime' = [runtime EXCEPT ![Subject(r)] = z]
  /\ zoneRuns' = [zoneRuns EXCEPT ![r].phase = "rollback", ![r].failed = Subject(r)]
  /\ UNCHANGED <<zoning, members, hostZone, record, claim, sample, passes, edits, shaken>>

SettingsRejected(r) ==
  /\ Forward(r) /\ zoneRuns[r].kind = "apply" /\ zoneRuns[r].todo = {}
  /\ zoneRuns' = [zoneRuns EXCEPT ![r].phase = "rollback"]
  /\ UNCHANGED <<zoning, members, hostZone, runtime, record, claim, sample, passes, edits, shaken>>

\* Mutant: the rollback deploys the payload as it was applied.
RollbackZoneAsApplied(run, a) == run.desired[a]

RollbackZone(run, a) == run.previous[a]

\* The workloads done are taken back from the last to the first; one that
\* fails does not stop the rest.
RollbackStep(r, ok) ==
  LET run == zoneRuns[r]
      a == LastOf(run.completed)
  IN  /\ run.phase = "rollback" /\ run.completed # {}
      /\ runtime' = IF ok THEN [runtime EXCEPT ![a] = RollbackZone(run, a)] ELSE runtime
      /\ zoneRuns' = [zoneRuns EXCEPT ![r].completed = @ \ {a}, ![r].clean = @ /\ ok]
      /\ UNCHANGED <<zoning, members, hostZone, record, claim, sample, passes, edits, shaken>>

Ended(r) ==
  LET run == zoneRuns[r]
  IN  [zoneRuns EXCEPT ![r] = [NewRun(run.kind, run.on, NoZone) EXCEPT !.phase = "ended"]]

\* Mutant: the zoning is not read again, and the record keeps the zones that
\* were recorded before.
AppliedRecordKept(run) ==
  [mode |-> run.settings.mode, zones |-> run.settings.zones,
   status |-> "applied", observed |-> run.previous]

\* Mutant: only the workloads that were restarted are recorded.
AppliedRecordPartial(run) ==
  [mode |-> run.settings.mode, zones |-> run.settings.zones,
   status |-> IF run.settings.mode = "disabled" THEN "disabled" ELSE "applied",
   observed |-> [a \in run.completed |-> run.desired[a]]]

AppliedRecord(run) ==
  [mode |-> run.settings.mode, zones |-> run.settings.zones,
   status |-> IF run.settings.mode = "disabled" THEN "disabled" ELSE "applied",
   observed |-> run.desired]

ApplySucceeds(r) ==
  /\ Forward(r) /\ zoneRuns[r].kind = "apply" /\ zoneRuns[r].todo = {}
  /\ record' = [record EXCEPT ![zoneRuns[r].on] = AppliedRecord(zoneRuns[r])]
  /\ zoneRuns' = Ended(r)
  /\ UNCHANGED <<zoning, members, hostZone, runtime, claim, sample, passes, edits, shaken>>

Released(r) == [a \in Workloads |-> IF claim[a] = r THEN 0 ELSE claim[a]]

HostChangeSucceeds(r) ==
  /\ Forward(r) /\ zoneRuns[r].kind = "host" /\ zoneRuns[r].todo = {}
  /\ record' = [c \in Clusters |-> [record[c] EXCEPT !.observed =
       [a \in OfCluster(c) |-> IF a \in DOMAIN zoneRuns[r].desired /\ record[c].status # "none"
                               THEN zoneRuns[r].desired[a] ELSE record[c].observed[a]]]]
  /\ claim' = Released(r)
  /\ zoneRuns' = Ended(r)
  /\ UNCHANGED <<zoning, members, hostZone, runtime, sample, passes, edits, shaken>>

\* Mutant: the claims are only released by a change that succeeds.
ClaimsAfterFailureKept(r) == claim

ClaimsAfterFailure(r) == Released(r)

\* A rollback is over, or the runner has raised and nothing is rolled back.
RunFails(r) ==
  LET run == zoneRuns[r]
  IN  /\ \/ run.phase = "rollback" /\ run.completed = {}
         \/ run.phase \in {"created", "forward"}
      /\ IF run.kind = "apply"
         THEN /\ record' = [record EXCEPT ![run.on].status = "failed"]
              /\ UNCHANGED <<hostZone, claim>>
         ELSE /\ hostZone' = [hostZone EXCEPT ![run.on] = run.old]
              /\ claim' = ClaimsAfterFailure(r)
              /\ UNCHANGED record
      /\ zoneRuns' = Ended(r)
      /\ UNCHANGED <<zoning, members, runtime, sample, passes, edits, shaken>>

-----------------------------------------------------------------------------
(* The collector, and restarts of the controller.                          *)

CollectorReads(c) ==
  /\ sample = NoSample /\ OfCluster(c) # {}
  /\ passes < MaxPasses /\ passes' = passes + 1
  /\ sample' = [cluster |-> c, zones |-> [a \in OfCluster(c) |-> runtime[a]],
                desired |-> zoning[c],
                expected |-> [a \in OfCluster(c) |-> hostZone[HostOf[a]]]]
  /\ UNCHANGED <<zoning, members, hostZone, runtime, record, claim, zoneRuns, edits, shaken>>

RuntimeStatus(c) ==
  LET applied == record[c]
      want == sample.desired
  IN  CASE applied.mode # want.mode \/ applied.zones # want.zones -> "pending"
        [] want.mode = "disabled" ->
             IF \E a \in OfCluster(c) : sample.zones[a] # NoZone THEN "drift" ELSE "disabled"
        [] OTHER -> IF sample.zones # sample.expected THEN "drift" ELSE "applied"

CollectorRecords ==
  /\ sample # NoSample
  /\ record' = [record EXCEPT ![sample.cluster].status = RuntimeStatus(sample.cluster),
                              ![sample.cluster].observed = sample.zones]
  /\ sample' = NoSample
  /\ UNCHANGED <<zoning, members, hostZone, runtime, claim, zoneRuns, passes, edits, shaken>>

\* Runs in flight are failed; the zone of a host, its claims and the record
\* stay as the run had them.
ZoningRestart ==
  /\ \E r \in DOMAIN zoneRuns : Active(r)
  /\ zoneRuns' = [r \in DOMAIN zoneRuns |-> Ended(r)[r]]
  /\ shaken' = shaken \cup {c \in Clusters : ActiveOperation(c)}
  /\ sample' = NoSample
  /\ UNCHANGED <<zoning, members, hostZone, runtime, record, claim, passes, edits>>

RunStep(r) ==
  \/ BeginApply(r) \/ BeginHost(r) \/ Reconciled(r) \/ ReconcileFails(r)
  \/ SettingsRejected(r) \/ \E ok \in BOOLEAN : RollbackStep(r, ok)
  \/ ApplySucceeds(r) \/ HostChangeSucceeds(r) \/ RunFails(r)

ZoningNext ==
  \/ \E c \in Clusters :
       \/ \E z \in Catalogs : PutZoning(c, z)
       \/ \E h \in SpareHosts : AddMember(c, h) \/ RemoveMember(c, h)
       \/ LaunchApply(c)
       \/ \E h \in ZoneHosts, z \in Zones : UpdateNodeZone(h, c, z)
       \/ CollectorReads(c)
  \/ \E r \in DOMAIN zoneRuns : RunStep(r)
  \/ CollectorRecords
  \/ ZoningRestart

ZoningSpec == ZoningInit /\ [][ZoningNext]_zoningVars

-----------------------------------------------------------------------------

\* The type of the state.
ZoningTypeOK ==
  /\ zoning \in [Clusters -> Catalogs]
  /\ members \in [Clusters -> SUBSET ZoneHosts]
  /\ hostZone \in [ZoneHosts -> Zones \cup {NoZone}]
  /\ runtime \in [Workloads -> Zones \cup {NoZone}]
  /\ claim \in [Workloads -> {0} \cup RunIds]
  /\ Len(zoneRuns) <= MaxZoneRuns
  /\ \A c \in Clusters : record[c].observed \in [OfCluster(c) -> Zones \cup {NoZone}]

Touches(r, c) ==
  IF zoneRuns[r].kind = "apply" THEN zoneRuns[r].on = c
  ELSE OnHost(zoneRuns[r].on) \cap OfCluster(c) # {}

\* Two runs never restart workloads of one cluster at a time: an apply by
\* its target and a host's zone change by its claims exclude each other,
\* though neither looks at the other's way of marking.
ZoningExclusive ==
  \A r, s \in DOMAIN zoneRuns : r # s /\ Active(r) /\ Active(s) =>
    \A c \in Clusters : ~(Touches(r, c) /\ Touches(s, c))

\* A run that fails and rolls back without an error leaves every workload but
\* the one that failed in the zone it started from, provided the record told
\* the truth when it began.
RollbackRestores ==
  [][\A r \in DOMAIN zoneRuns :
       LET run == zoneRuns[r]
       IN  run.phase = "rollback" /\ zoneRuns'[r].phase = "ended" /\ run.completed = {}
           /\ run.clean /\ run.truthful =>
             \A a \in DOMAIN run.previous \ {run.failed} : runtime'[a] = run.started[a]]_zoningVars

\* A successful apply that began with a true record ends with one: what it
\* records for each workload is the zone the workload runs with, those it
\* passed over included.
RecordTruthful ==
  [][\A r \in DOMAIN zoneRuns :
       ApplySucceeds(r) /\ zoneRuns[r].truthful =>
         \A a \in OfCluster(zoneRuns[r].on) :
           record'[zoneRuns[r].on].observed[a] = runtime'[a]]_zoningVars

\* The catalog of every cluster with awareness names the zone of each of its
\* hosts, also of hosts it shares with another cluster.  Clusters whose
\* zoning was stored again while the zone of one of their hosts was changing
\* or who were joined by such a host are excepted: a change that fails puts
\* back a zone that may be gone.
CatalogNamesZones ==
  \A c \in Clusters \ shaken : zoning[c].mode # "disabled" => ZonesInUse(c) \subseteq zoning[c].zones

\* Accepting a move of a host never takes the last data workload out of a
\* forced zone, in no cluster the host belongs to.  (A move that fails puts
\* the host back without looking.)
ForcedZonesKept ==
  [][\A c \in Clusters :
       zoning[c].mode = "forced" /\ zoning'[c] = zoning[c]
       /\ (\A r \in DOMAIN zoneRuns : zoneRuns'[r] = zoneRuns[r])
       /\ ForcedCovered(c, zoning[c], hostZone) => ForcedCovered(c, zoning[c], hostZone')]_zoningVars

\* Once a host's zone change is over its workloads can be claimed again,
\* unless the controller was restarted under it.
ClaimsReleased ==
  \A a \in Workloads : claim[a] # 0 => Active(claim[a]) \/ ClusterOf[a] \in shaken

\* Between any two steps of runs, edits and the collector: runs keep out of
\* each other's clusters, catalogs name the zones in use and only runs at work
\* hold claims.
ZoningInvariant ==
  /\ ZoningTypeOK
  /\ ZoningExclusive
  /\ CatalogNamesZones
  /\ ClaimsReleased

\* What a run may leave behind when it is accepted, when it succeeds and when
\* it fails.
ZoningSteps ==
  /\ RollbackRestores
  /\ RecordTruthful
  /\ ForcedZonesKept
=============================================================================
