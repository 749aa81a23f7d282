-------------------------- MODULE ClusterTelemetry --------------------------
(***************************************************************************)
(* The cluster loop of the telemetry collector (observability/             *)
(* collector.py) beside the cluster record it reads and writes: the cached *)
(* CA, the monitoring key it asks Elasticsearch for and seals into the     *)
(* credentials of the cluster, and the cluster uuid it captures once.      *)
(*                                                                         *)
(* A pass awaits the CA file, the key and the metrics, and writes to the   *)
(* record by id after each; meanwhile the operator edits the provider,     *)
(* redeploys the masters, or deletes the cluster and creates the next,     *)
(* which gets the same id.  Elasticsearch is named by the record that      *)
(* deployed it and a number: a new deployment has a new CA and uuid and    *)
(* knows no keys.                                                          *)
(***************************************************************************)
EXTENDS Naturals

CONSTANTS
  MaxRecords,      \* bound on clusters created, one after the other
  MaxDeployments,  \* bound on deployments of each
  MaxProviderRevision,     \* bound on the provider revision
  MaxOutages       \* bound on requests that fail although the cluster runs

ASSUME ClusterTelemetryAssumption ==
  MaxRecords \in Nat \ {0} /\ MaxDeployments \in Nat /\ MaxProviderRevision \in Nat /\ MaxOutages \in Nat

VARIABLES
  cluster,   \* the row of clusters; number 0 where there is none
  created,   \* how many clusters have been created
  sites,     \* Elasticsearch of each record: number of the deployment, 0 if none runs
  pass,      \* _collect_cluster in flight
  caFile,    \* certs/cluster-<id>.crt in the cache
  shown,     \* cluster_states
  form,      \* provider form the operator has open
  outages,
  misses     \* passes that have failed since the last change of the surroundings

clusterTelemetryVars == <<cluster, created, sites, pass, caFile, shown, form, outages, misses>>

None == <<0, 0>>
Typed == <<0, 1>>     \* a uuid that the operator enters
Site(g) == <<g, sites[g]>>
NoCluster == [number |-> 0, assigned |-> "nothing", expected |-> None, revision |-> 1,
              managed |-> TRUE, password |-> 0, key |-> None]
NoPass == [phase |-> "idle", of |-> NoCluster, ca |-> None, sealed |-> NoCluster, cached |-> FALSE]

ClusterTelemetryInit ==
  /\ cluster = [NoCluster EXCEPT !.number = 1, !.password = 1]
  /\ created = 1 /\ sites = [g \in 1..MaxRecords |-> 0]
  /\ pass = NoPass /\ caFile = None /\ shown = [status |-> "none", uuid |-> None]
  /\ form = [revision |-> 0, expected |-> None]
  /\ outages = 0 /\ misses = 0

-----------------------------------------------------------------------------
(* The operator and the deployments.                                       *)

Disturbed == misses' = 0
CollectorUnchanged == UNCHANGED <<pass, shown, outages>>

\* create: the passwords of the cluster are generated with it.
CreateCluster ==
  /\ cluster.number = 0 /\ created < MaxRecords /\ created' = created + 1
  /\ cluster' = [NoCluster EXCEPT !.number = created', !.password = created']
  /\ Disturbed /\ UNCHANGED <<sites, caFile, form>> /\ CollectorUnchanged

\* The masters are deployed, or removed with their data and deployed again.
DeployMasters(n) ==
  /\ cluster.number # 0 /\ n \in 1..MaxDeployments /\ n > sites[cluster.number]
  /\ cluster' = IF cluster.assigned # "nothing" THEN cluster
                ELSE [cluster EXCEPT !.assigned = "masters"]
  /\ sites' = [sites EXCEPT ![cluster.number] = n]
  /\ Disturbed /\ UNCHANGED <<created, caFile, form>> /\ CollectorUnchanged

\* The first data role is added, or the last one removed.
AssignData(from, to) ==
  /\ cluster.assigned = from
  /\ cluster' = [cluster EXCEPT !.assigned = to]
  /\ Disturbed /\ UNCHANGED <<created, sites, caFile, form>> /\ CollectorUnchanged

\* A detached workload goes on running.
DetachMasters ==
  /\ cluster.assigned # "nothing"
  /\ cluster' = [cluster EXCEPT !.assigned = "nothing"]
  /\ Disturbed /\ UNCHANGED <<created, sites, caFile, form>> /\ CollectorUnchanged

\* delete: refused while the cluster has assignments.
DeleteClusterRecord ==
  /\ cluster.number # 0 /\ cluster.assigned = "nothing"
  /\ cluster' = NoCluster /\ caFile' = None
  /\ Disturbed /\ UNCHANGED <<created, sites, form>> /\ CollectorUnchanged

OpenProviderForm ==
  /\ cluster.number # 0 /\ form.revision # cluster.revision
  /\ form' = [revision |-> cluster.revision, expected |-> cluster.expected]
  /\ UNCHANGED <<cluster, created, sites, caFile, misses>> /\ CollectorUnchanged

\* update_provider: the uuid is the one of the form, or one entered there.
SaveProvider(uuid, managed) ==
  /\ cluster.number # 0 /\ cluster.revision < MaxProviderRevision
  /\ form.revision = cluster.revision /\ uuid \in {form.expected, Typed}
  /\ cluster' = [cluster EXCEPT !.expected = uuid, !.managed = managed, !.revision = @ + 1]
  /\ UNCHANGED <<created, sites, caFile, form, misses>> /\ CollectorUnchanged

-----------------------------------------------------------------------------
(* The pass.                                                               *)

SurroundingsUnchanged == UNCHANGED <<created, sites, form>>

PassFails ==
  /\ pass' = NoPass
  /\ shown' = [shown EXCEPT !.status = "unknown"]
  /\ misses' = IF misses < 3 THEN misses + 1 ELSE misses

\* Mutant: every pass asks for a key of its own.
ReadCredentialsAfresh(p) ==
  IF cluster.number = 0 THEN PassFails
  ELSE /\ pass' = [p EXCEPT !.sealed = cluster, !.phase = "post"]
       /\ UNCHANGED <<shown, misses>>

\* _monitoring_key: the credentials as they are stored now under the id; p is
\* the pass so far.
ReadCredentials(p) ==
  IF cluster.number = 0 THEN PassFails
  ELSE /\ pass' = [p EXCEPT !.sealed = cluster, !.cached = cluster.key # None,
                            !.phase = IF cluster.key # None THEN "metrics" ELSE "post"]
       /\ UNCHANGED <<shown, misses>>

\* Without a master, or a data role, there is nothing to ask.  (The host of a
\* master cannot leave the inventory; were it gone, it would show the same.)
PassBegins ==
  LET p == [NoPass EXCEPT !.of = cluster]
  IN  /\ pass = NoPass /\ cluster.number # 0
      /\ \/ /\ cluster.assigned # "data"
            /\ shown' = [status |-> IF cluster.assigned = "masters" THEN "awaiting_data" ELSE "unknown",
                         uuid |-> None]
            /\ UNCHANGED <<pass, misses>>
         \/ /\ cluster.assigned = "data" /\ caFile # None
            /\ ReadCredentials([p EXCEPT !.ca = caFile])
         \/ /\ cluster.assigned = "data" /\ caFile = None
            /\ pass' = [p EXCEPT !.phase = "ca"]
            /\ UNCHANGED <<shown, misses>>
      /\ UNCHANGED <<cluster, caFile, outages>> /\ SurroundingsUnchanged

\* _ensure_cluster_ca: the file of the host the pass began with.
CaAnswers ==
  LET g == pass.of.number
  IN  /\ pass.phase = "ca" /\ sites[g] # 0
      /\ caFile' = Site(g)
      /\ ReadCredentials([pass EXCEPT !.ca = Site(g)])
      /\ UNCHANGED <<cluster, outages>> /\ SurroundingsUnchanged

\* Mutant: a CA that does not verify the cluster stays cached.
CaAfterKept == caFile

\* invalidate_cluster_ca
CaAfter == None

\* An answer to the address the pass began with, over the CA it has loaded.
Verified == sites[pass.of.number] # 0 /\ pass.ca = Site(pass.of.number)

VerificationFails ==
  /\ pass.phase \in {"post", "metrics"}
  /\ sites[pass.of.number] # 0 /\ ~Verified
  /\ caFile' = CaAfter /\ PassFails
  /\ UNCHANGED <<cluster, outages>> /\ SurroundingsUnchanged

\* The host or Elasticsearch does not answer.
RequestFails ==
  /\ pass # NoPass /\ outages < MaxOutages /\ outages' = outages + 1
  /\ pass' = NoPass /\ shown' = [shown EXCEPT !.status = "unknown"]
  /\ Disturbed /\ UNCHANGED <<cluster, caFile>> /\ SurroundingsUnchanged

\* Mutant: the key alone is sealed.
SealedWithKeyAlone(key) == [cluster EXCEPT !.key = key, !.password = 0]

\* replace_secrets_json: the credentials read before the request, with the key,
\* become the credentials of the record that has the id by now.
SealedWithKey(key) == [cluster EXCEPT !.key = key, !.password = pass.sealed.password]

KeyAnswers ==
  LET g == pass.of.number
  IN  /\ pass.phase = "post" /\ Verified
      /\ IF pass.sealed.password = g /\ cluster.number # 0
         THEN /\ cluster' = SealedWithKey(Site(g))
              /\ pass' = [pass EXCEPT !.sealed.key = Site(g), !.phase = "metrics"]
              /\ UNCHANGED <<shown, misses>>
         ELSE PassFails /\ UNCHANGED cluster
      /\ UNCHANGED <<caFile, outages>> /\ SurroundingsUnchanged

\* Mutant: the uuid replaces the one the record has by now.
CapturedAlways(uuid) == uuid

\* set_expected_cluster_uuid_if_missing
Captured(uuid) == IF cluster.expected = None THEN uuid ELSE cluster.expected

MetricsAnswer ==
  LET g == pass.of.number
  IN  /\ pass.phase = "metrics" /\ Verified /\ pass.sealed.key = Site(g)
      /\ cluster' = IF pass.of.expected = None /\ pass.of.managed /\ cluster.number # 0
                    THEN [cluster EXCEPT !.expected = Captured(Site(g))] ELSE cluster
      /\ pass' = NoPass /\ shown' = [status |-> "green", uuid |-> Site(g)] /\ misses' = 0
      /\ UNCHANGED <<caFile, outages>> /\ SurroundingsUnchanged

\* _clear_monitoring_key
ClearKey == [cluster EXCEPT !.key = None]

\* 401: a stored key is dropped and another asked for, a fresh one is an error.
MetricsRefused ==
  /\ pass.phase = "metrics" /\ Verified /\ pass.sealed.key # Site(pass.of.number)
  /\ IF pass.cached /\ cluster.number # 0
     THEN /\ cluster' = ClearKey
          /\ pass' = [pass EXCEPT !.sealed = ClearKey, !.cached = FALSE,
                                  !.phase = IF ClearKey.key = None THEN "post" ELSE "metrics"]
          /\ UNCHANGED <<shown, misses>>
     ELSE PassFails /\ UNCHANGED cluster
  /\ UNCHANGED <<caFile, outages>> /\ SurroundingsUnchanged

CollectorRestart ==
  /\ pass' = NoPass /\ shown' = [status |-> "none", uuid |-> None]
  /\ UNCHANGED <<cluster, caFile, outages, misses>> /\ SurroundingsUnchanged

ClusterTelemetryNext ==
  \/ CreateCluster
  \/ \E n \in 1..MaxDeployments : DeployMasters(n)
  \/ AssignData("masters", "data") \/ AssignData("data", "masters")
  \/ DetachMasters \/ DeleteClusterRecord \/ OpenProviderForm
  \/ \E uuid \in {form.expected, Typed}, managed \in BOOLEAN : SaveProvider(uuid, managed)
  \/ PassBegins \/ CaAnswers \/ VerificationFails \/ RequestFails
  \/ KeyAnswers \/ MetricsAnswer \/ MetricsRefused \/ CollectorRestart

ClusterTelemetrySpec == ClusterTelemetryInit /\ [][ClusterTelemetryNext]_clusterTelemetryVars

-----------------------------------------------------------------------------

\* The type of the state; a monitoring key is one that Elasticsearch has issued.
ClusterTelemetryTypeOK ==
  /\ cluster.number \in 0..MaxRecords /\ cluster.password \in 0..MaxRecords
  /\ cluster.key # None => cluster.key[1] \in 1..MaxRecords /\ cluster.key[2] \in 1..MaxDeployments
  /\ sites \in [1..MaxRecords -> 0..MaxDeployments]
  /\ pass.phase \in {"idle", "ca", "post", "metrics"}
  /\ pass.phase = "post" => pass.sealed.key = None
  /\ shown.status \in {"none", "unknown", "awaiting_data", "green"}

\* The collector never replaces a uuid that guards the cluster, although it
\* decides to capture one from the record as it was before the requests and the
\* operator may have entered one since.
PinKept ==
  [][cluster.number # 0 /\ cluster'.number = cluster.number
     /\ cluster'.revision = cluster.revision /\ cluster.expected # None =>
       cluster'.expected = cluster.expected]_clusterTelemetryVars

\* Storing or dropping the key leaves the passwords of the cluster as they were
\* generated, unless the pass began with a cluster deleted since.
PasswordsKept ==
  [][cluster'.number = cluster.number /\ pass.of.number \in {0, cluster.number} =>
       cluster'.password = cluster.password]_clusterTelemetryVars

\* After new deployments, a refused key, a stale CA or a deleted cluster the
\* collector finds its way back by itself: no more than two passes fail once the
\* surroundings are still, as long as the stored passwords are the cluster's.
RecoversInTwo ==
  misses > 2 => cluster.number # 0 /\ cluster.password # cluster.number

\* The loop is never stuck: a monitoring key is a real one and the collector
\* recovers without help.
ClusterTelemetryInvariant ==
  /\ ClusterTelemetryTypeOK
  /\ RecoversInTwo

\* What the collector may never do to the cluster record it writes beside the
\* operator.
CollectorWrites ==
  /\ PinKept
  /\ PasswordsKept
=============================================================================
