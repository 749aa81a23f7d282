------------------------- MODULE MaintenancePlanning -------------------------
(***************************************************************************)
(* The planner of maintenance: what the controller has observed            *)
(* (observation.py), the impact of a disruption and the safety predicates  *)
(* over it (safety.py), the previews compiled and persisted from them      *)
(* (service.py, planning.py, the preview routes of api.py), and the        *)
(* validation a stored plan passes before it runs (execution.py).          *)
(*                                                                         *)
(* A preview is one transaction: it reads the telemetry of one instant and *)
(* writes one plan row.  What moves between a preview and its execution is *)
(* everything else: telemetry ages, hosts fail, policies and assignments   *)
(* are edited.  Identifiers are numbers because the collector visits hosts *)
(* in increasing order and a later host overrides an earlier one.          *)
(***************************************************************************)
EXTENDS Integers, FiniteSets, FiniteSetsExt

CONSTANTS
  Hosts, Clusters, Assignments,  \* inventory; Hosts is a set of numbers
  HostOf, ClusterOf, RoleOf,     \* the rows of cluster_assignments
  Requests,                      \* the preview requests users make
  Policies,                      \* values of a cluster's maintenance policy
  FirstPolicy,                   \* FirstPolicy[c]: the policy stored at start
  Provider,                      \* Provider[c]: type, ownership and backend
  ShutdownEnabled,               \* the node_shutdown_backend capability
  StartsDown,                    \* sets of workloads that may be down at start
  MaxNow,                        \* bound on the clock
  MaxChanges                     \* bound on observed changes and edits

ASSUME InventoryAssumption ==
  /\ Hosts \subseteq Nat \ {0} /\ Clusters \subseteq Nat \ {0}
  /\ HostOf \in [Assignments -> Hosts]
  /\ ClusterOf \in [Assignments -> Clusters]
  /\ FirstPolicy \in [Clusters -> Policies]
  /\ IsFiniteSet(Hosts) /\ IsFiniteSet(Assignments)
  /\ MaxNow \in Nat /\ MaxChanges \in Nat

\* MaintenancePolicy
ASSUME PolicyAssumption ==
  Policies \subseteq
    [maxUnavailable : Nat, masters : {"quorum", "count"}, masterCount : Nat,
     dataPerTier : Nat, services : Nat, agents : {"true-with-warning", "block"},
     health : {"green", "yellow"}, maxAge : Nat, validity : Nat]

\* MaintenancePlanPreviewInput: a reboot and a host maintenance name a host and
\* nothing else, and the route of a host takes reboots only.
ASSUME RequestAssumption ==
  \A r \in Requests :
    /\ r.route \in {"host", "generic"} /\ r.assignments \subseteq Assignments
    /\ r.op \in {"reboot", "host_maintenance"} =>
         r.node \in Hosts /\ r.cluster \notin Clusters /\ r.assignments = {}
    /\ r.route = "host" => r.op = "reboot"

VARIABLES
  node,      \* host_states: what was last observed of each host
  load,      \* workload_observations and the assignment's revision
  cluster,   \* cluster_states: what was last observed of each cluster
  policy,    \* the stored policy of each cluster and its revision
  busy,      \* hosts for which observe_conflicts reports a conflict
  plan,      \* the plan row of the idempotency key the requests share
  answer,    \* the request last answered with that plan
  changes,   \* observed changes and edits so far
  now

vars == <<node, load, cluster, policy, busy, plan, answer, changes, now>>

ElasticsearchRoles == {"master", "hot", "warm", "ml", "ingest", "coordinating"}
EndpointRoles ==
  {"master", "coordinating", "kibana", "fleet-server", "logstash"}
ServiceRoles == {"coordinating", "fleet-server", "kibana", "logstash"}
DataTiers(role) ==
  CASE role = "hot" -> {"content", "hot"}
    [] role = "warm" -> {"content", "warm"}
    [] OTHER -> {}
HealthRank == [unknown |-> 0, red |-> 1, yellow |-> 2, green |-> 3]

\* An observation time is a clock value, or says that there is none.
Missing == -1
Invalid == -2
Times == {Missing, Invalid} \cup 0..MaxNow

NoPlan == [state |-> "absent"]
NoRequest == [route |-> "none"]

Init ==
  /\ node = [h \in Hosts |->
       [enabled |-> TRUE, initialized |-> TRUE, reachable |-> TRUE,
        bound |-> Clusters, error |-> FALSE, at |-> 0]]
  /\ \E D \in StartsDown : load = [a \in Assignments |->
       [running |-> a \notin D, error |-> FALSE, named |-> TRUE, at |-> 0,
        revision |-> 1]]
  /\ cluster = [c \in Clusters |->
       [status |-> "green", identity |-> "match", error |-> FALSE, at |-> 0,
        moving |-> FALSE, shardsSeen |-> TRUE, otherCopies |-> TRUE,
        promotable |-> TRUE, diskFree |-> TRUE, shutdown |-> FALSE]]
  /\ policy = [c \in Clusters |-> [revision |-> 0, value |-> FirstPolicy[c]]]
  /\ busy = {} /\ plan = NoPlan /\ answer = NoRequest
  /\ changes = 0 /\ now = 0

-----------------------------------------------------------------------------
\* What moves: the collector, the hosts it watches and the operators' edits.

Changes ==
  /\ changes < MaxChanges
  /\ changes' = changes + 1
  /\ UNCHANGED <<plan, answer, now>>

HostChanges(h) ==
  /\ Changes
  /\ \E n \in {[node[h] EXCEPT !.enabled = FALSE],
               [node[h] EXCEPT !.initialized = FALSE],
               [node[h] EXCEPT !.reachable = FALSE],
               [node[h] EXCEPT !.error = TRUE],
               [node[h] EXCEPT !.at = Missing],
               [node[h] EXCEPT !.at = Invalid]}
            \cup {[node[h] EXCEPT !.bound = @ \ {c}] : c \in Clusters} :
       node' = [node EXCEPT ![h] = n]
  /\ UNCHANGED <<load, cluster, policy, busy>>

WorkloadChanges(a) ==
  /\ Changes
  /\ \E w \in {[load[a] EXCEPT !.running = ~@],
               [load[a] EXCEPT !.error = TRUE],
               [load[a] EXCEPT !.named = FALSE],
               [load[a] EXCEPT !.at = Missing],
               [load[a] EXCEPT !.at = Invalid],
               [load[a] EXCEPT !.revision = @ + 1]} :
       load' = [load EXCEPT ![a] = w]
  /\ UNCHANGED <<node, cluster, policy, busy>>

ClusterChanges(c) ==
  /\ Changes
  /\ \E s \in {[cluster[c] EXCEPT !.status = "yellow"],
               [cluster[c] EXCEPT !.status = "unknown"],
               [cluster[c] EXCEPT !.identity = "mismatch"],
               [cluster[c] EXCEPT !.identity = "unpinned"],
               [cluster[c] EXCEPT !.identity = "unseen"],
               [cluster[c] EXCEPT !.error = TRUE],
               [cluster[c] EXCEPT !.at = Missing],
               [cluster[c] EXCEPT !.at = Invalid],
               [cluster[c] EXCEPT !.moving = TRUE],
               [cluster[c] EXCEPT !.shardsSeen = FALSE],
               [cluster[c] EXCEPT !.otherCopies = FALSE],
               [cluster[c] EXCEPT !.promotable = FALSE],
               [cluster[c] EXCEPT !.diskFree = FALSE],
               [cluster[c] EXCEPT !.shutdown = TRUE]} :
       cluster' = [cluster EXCEPT ![c] = s]
  /\ UNCHANGED <<node, load, policy, busy>>

ConflictStarts(h) ==
  /\ Changes
  /\ busy' = busy \cup {h}
  /\ UNCHANGED <<node, load, cluster, policy>>

\* put_maintenance_policy with the revision it read: an accepted edit counts.
PutPolicy(c, p) ==
  /\ Changes
  /\ p # policy[c].value
  /\ policy' = [policy EXCEPT ![c] = [revision |-> @.revision + 1, value |-> p]]
  /\ UNCHANGED <<node, load, cluster, busy>>

\* Mutant: a pass is stamped with the time it will end.
CollectLate ==
  LET seen(r) == IF r.at >= 0 THEN [r EXCEPT !.at = now + 1] ELSE r
  IN  /\ node' = [h \in Hosts |-> seen(node[h])]
      /\ load' = [a \in Assignments |-> seen(load[a])]
      /\ cluster' = [c \in Clusters |-> seen(cluster[c])]
      /\ UNCHANGED <<policy, busy, plan, answer, changes, now>>

\* A pass of the collector: everything it still sees is observed now.
Collect ==
  LET seen(r) == IF r.at >= 0 THEN [r EXCEPT !.at = now] ELSE r
  IN  /\ node' = [h \in Hosts |-> seen(node[h])]
      /\ load' = [a \in Assignments |-> seen(load[a])]
      /\ cluster' = [c \in Clusters |-> seen(cluster[c])]
      /\ UNCHANGED <<policy, busy, plan, answer, changes, now>>

Tick ==
  /\ now < MaxNow
  /\ now' = now + 1
  /\ UNCHANGED <<node, load, cluster, policy, busy, plan, answer, changes>>

-----------------------------------------------------------------------------
\* collect_host_reboot_planning_data: the observation anchored on one host.

Rows(S) == {a \in Assignments : ClusterOf[a] \in S}
OnHost(h) == {a \in Assignments : HostOf[a] = h}
ClustersOn(h) == {ClusterOf[a] : a \in OnHost(h)}

\* parse_observed_at: a time that is missing or invalid becomes the time of
\* the capture; only the source's status tells them apart.
ObservedAt(t) == IF t >= 0 THEN t ELSE now
SourceStatus(error, missing) ==
  IF error THEN "error" ELSE IF missing THEN "missing" ELSE "ok"
Source(status, at) == [status |-> status, at |-> at]
Oldest(times) == Min(times \cup {now})

\* _membership_ready: the bindings of the host in the clusters looked at.
MembershipReady(h, S) ==
  node[h].bound \cap ClustersOn(h) \cap S = ClustersOn(h) \cap S

HostObservation(h, S) ==
  [enabled |-> node[h].enabled, initialized |-> node[h].initialized,
   reachable |-> node[h].reachable, membership |-> MembershipReady(h, S),
   at |-> ObservedAt(node[h].at)]

WorkloadObservation(a) ==
  [ready |-> load[a].running /\ ~load[a].error, at |-> ObservedAt(load[a].at),
   revision |-> load[a].revision]

\* ProviderProfile.capabilities: an endpoint-only provider and one whose
\* ownership is not verified keep only observation.
LifecycleApi(p) == p.type # "eck_endpoint" /\ p.verified

\* The observation of cluster c; the shard facts of a cluster in which the
\* anchor host has no data workload (data_affected) are not asked for.
ClusterObservation(c, data) ==
  [lifecycle |-> /\ LifecycleApi(Provider[c])
                 /\ Provider[c].backend # "none"
                 /\ Provider[c].backend = "node_shutdown_api" => ShutdownEnabled,
   identity |-> cluster[c].identity = "match",
   health |-> cluster[c].status,
   masters |-> {a \in Rows({c}) : RoleOf[a] = "master"},
   moving |-> cluster[c].moving,
   noLastCopy |-> data => cluster[c].otherCopies,
   promotable |-> data => cluster[c].promotable,
   diskSafe |-> data => cluster[c].diskFree,
   shutdown |-> cluster[c].shutdown,
   at |-> ObservedAt(cluster[c].at)]

DataClusters(h) == {ClusterOf[a] : a \in {b \in OnHost(h) : DataTiers(RoleOf[b]) # {}}}

\* Elasticsearch is asked when the host has one of its roles, its shards when
\* the host has data.
RequiredSources(h) ==
  {"inventory", "runtime", "membership"}
  \cup (IF \E a \in OnHost(h) : RoleOf[a] \in ElasticsearchRoles
        THEN {"elasticsearch", "identity"} ELSE {})
  \cup (IF DataClusters(h) # {} THEN {"shards"} ELSE {})

\* The required sources of the observation anchored on host h.
Sources(h) ==
  LET S == ClustersOn(h)
      seen == {h} \cup {HostOf[a] : a \in Rows(S)}
      hostTimes == {ObservedAt(node[g].at) : g \in seen}
      clusterTimes == {ObservedAt(cluster[c].at) : c \in S}
      runtime == SourceStatus(
        \/ \E g \in seen : node[g].error \/ node[g].at = Invalid
        \/ \E a \in Rows(S) : load[a].at = Invalid,
        \/ \E g \in seen : node[g].at = Missing
        \/ \E a \in Rows(S) : load[a].at = Missing)
      member == SourceStatus(~\A g \in seen : MembershipReady(g, S), FALSE)
      elastic == SourceStatus(
        \E c \in S : cluster[c].error \/ cluster[c].at = Invalid,
        \E c \in S : cluster[c].at = Missing)
      identity == SourceStatus(
        \E c \in S : cluster[c].identity = "mismatch",
        \E c \in S : cluster[c].identity \in {"unpinned", "unseen"})
      shards == SourceStatus(FALSE, \E c \in DataClusters(h) : ~cluster[c].shardsSeen)
      all == [inventory |-> Source("ok", now),
              runtime |-> Source(runtime, Oldest(hostTimes)),
              membership |-> Source(member, now),
              elasticsearch |-> Source(elastic, Oldest(clusterTimes)),
              identity |-> Source(identity, Oldest(clusterTimes)),
              shards |-> Source(shards, Oldest(clusterTimes))]
  IN  [s \in RequiredSources(h) |-> all[s]]

\* _host_maintenance_post_return_expectations: complete only when the uuid of
\* the cluster, configured or not, every Elasticsearch node and its version have
\* been observed.
ReturnExpected(h) ==
  /\ OnHost(h) # {}
  /\ \A c \in ClustersOn(h) : cluster[c].identity # "unseen"
  /\ \A a \in OnHost(h) : RoleOf[a] \in ElasticsearchRoles => load[a].named

Anchored(h) ==
  LET S == ClustersOn(h)
  IN  [sources |-> Sources(h),
       hosts |-> [g \in {h} \cup {HostOf[a] : a \in Rows(S)} |-> HostObservation(g, S)],
       clusters |-> [c \in S |-> ClusterObservation(c, c \in DataClusters(h))],
       loads |-> [a \in Rows(S) |-> WorkloadObservation(a)]]

-----------------------------------------------------------------------------
\* collect_generic_preview_data: one observation per affected host, merged.

\* merge: a later host overrides what an earlier one reported under a key.
Merge(items) ==
  LET keys == UNION {DOMAIN items[h] : h \in DOMAIN items}
  IN  [k \in keys |->
        items[Max({h \in DOMAIN items : k \in DOMAIN items[h]})][k]]

\* The hosts a request is anchored on; a cluster without workloads is looked
\* at through its members.
Anchors(r) ==
  {h \in Hosts : h = r.node}
  \cup {HostOf[a] : a \in r.assignments}
  \cup {HostOf[a] : a \in Rows({r.cluster})}
  \cup {h \in Hosts : Rows({r.cluster}) = {} /\ r.cluster \in node[h].bound}

Collected(r) ==
  LET A == Anchors(r)
      at == [h \in A |-> Anchored(h)]
  IN  [target |-> Min(A), captured |-> now,
       sources |-> Merge([h \in A |-> at[h].sources]),
       hosts |-> Merge([h \in A |-> at[h].hosts]),
       clusters |-> Merge([h \in A |-> at[h].clusters]),
       loads |-> Merge([h \in A |-> at[h].loads]),
       conflict |-> A \cap busy # {},
       returns |-> r.op = "host_maintenance" => ReturnExpected(r.node)]

-----------------------------------------------------------------------------
\* calculate_impact.

\* _internal_operation: a host maintenance is planned as a reboot.
Operation(r) ==
  CASE r.op = "host_maintenance" -> "reboot"
    [] r.op = "container_maintenance" -> "workload_restart"
    [] r.op = "cluster_settings" -> "settings_change"
    [] r.op = "zoning" -> "zoning_change"
    [] OTHER -> r.op

\* _selected_workloads of the compiled target.
Selected(r, d) ==
  LET S == DOMAIN d.loads
  IN  CASE r.assignments # {} -> r.assignments \cap S
        [] r.assignments = {} /\ Operation(r) = "reboot" -> OnHost(d.target) \cap S
        [] r.assignments = {} /\ Operation(r) = "upgrade" -> Rows({r.cluster}) \cap S
        [] OTHER -> {}

AffectedClusters(r, d) ==
  {ClusterOf[a] : a \in Selected(r, d)} \cup (Clusters \cap {r.cluster})

\* Mutant: half of the master-eligible nodes is called a quorum.
MinimumMastersHalf(p, total) ==
  IF total = 0 THEN 0
  ELSE IF p.masters = "quorum" THEN total \div 2 ELSE p.masterCount

\* _minimum_masters
MinimumMasters(p, total) ==
  IF total = 0 THEN 0
  ELSE IF p.masters = "quorum" THEN total \div 2 + 1 ELSE p.masterCount

Ready(d, S) == {a \in S : d.loads[a].ready}

\* What of S a reboot takes down at once; other operations go one by one.
Disrupted(r, d, S) ==
  LET n == Cardinality(Ready(d, S \cap Selected(r, d)))
  IN  IF Operation(r) = "reboot" THEN n ELSE Min({1, n})

\* Mutant: workloads that are already down do not count against the budget.
UnavailableAfterPlannedOnly(r, d, S) == Disrupted(r, d, S)

\* existing_unavailable + planned_unavailable
UnavailableAfter(r, d, S) ==
  Cardinality(S \ Ready(d, S)) + Disrupted(r, d, S)

RemainingReady(r, d, S) == Cardinality(Ready(d, S)) - Disrupted(r, d, S)

\* The impact on one cluster under its own policy: the masters left, the
\* budgets broken (all but the quorum) and the endpoints lost.
ClusterImpact(r, d, c, p) ==
  LET wl == {a \in DOMAIN d.loads : ClusterOf[a] = c}
      hit == wl \cap Selected(r, d)
      role(x) == {a \in wl : RoleOf[a] = x}
      tier(x) == {a \in wl : x \in DataTiers(RoleOf[a])}
      masters == IF c \in DOMAIN d.clusters THEN d.clusters[c].masters ELSE {}
      short(S, min) == S \cap hit # {} /\ RemainingReady(r, d, S) < min
  IN  [masterTotal |-> Cardinality(masters),
       masterAfter |-> RemainingReady(r, d, masters),
       masterRequired |-> MinimumMasters(p, Cardinality(masters)),
       hit |-> hit,
       tiers |-> {x \in UNION {DataTiers(RoleOf[a]) : a \in wl} :
                    RemainingReady(r, d, tier(x)) < p.dataPerTier},
       overBudget |->
         \/ UnavailableAfter(r, d, wl) > p.maxUnavailable
         \/ \E x \in UNION {DataTiers(RoleOf[a]) : a \in wl} : short(tier(x), p.dataPerTier)
         \/ \E x \in ServiceRoles : short(role(x), p.services)
         \/ p.agents = "block" /\ Ready(d, hit \cap role("elastic-agent")) # {},
       lost |-> {x \in EndpointRoles :
                   /\ Ready(d, hit \cap role(x)) # {}
                   /\ RemainingReady(r, d, role(x)) = 0}]

-----------------------------------------------------------------------------
\* The policies a plan is made under, and the safety predicates.

\* The clusters whose policy create_host_reboot_preview and
\* create_generic_preview read.
PolicyClusters(r, d) ==
  (IF r.assignments # {}
   THEN {ClusterOf[a] : a \in r.assignments \cap DOMAIN d.loads}
   ELSE {ClusterOf[a] : a \in OnHost(d.target) \cap DOMAIN d.loads})
  \cup (Clusters \cap {r.cluster})

DefaultPolicy ==
  [maxUnavailable |-> 1, masters |-> "quorum", masterCount |-> 1,
   dataPerTier |-> 1, services |-> 1, agents |-> "true-with-warning",
   health |-> "green", maxAge |-> 1, validity |-> 2]

\* _effective_policy: the strictest value of every setting the predicates and
\* the expiry use.
EffectivePolicy(S) ==
  LET values == {policy[c].value : c \in S}
  IN  IF S = {} THEN DefaultPolicy
      ELSE [DefaultPolicy EXCEPT
              !.health = IF \E p \in values : p.health = "green"
                         THEN "green" ELSE "yellow",
              !.maxAge = Min({p.maxAge : p \in values}),
              !.validity = Min({p.validity : p \in values})]

\* _impact_for_policies: every affected cluster under its own policy.
Impact(r, d) ==
  [c \in AffectedClusters(r, d) |->
     ClusterImpact(r, d, c,
       IF c \in PolicyClusters(r, d) THEN policy[c].value ELSE DefaultPolicy)]

\* Mutant: an age one above the limit still counts as fresh.
FreshAgesLate(times, age) == \A t \in times : now - t <= age + 1

\* _ages_are_fresh
FreshAges(times, age) == \A t \in times : now - t \in 0..age

PredicateIds ==
  {"HostEnabled", "HostReachable", "NoConflictingOperation", "MembershipReady",
   "FreshRuntimeObservation", "ExpectedClusterIdentity",
   "SupportedNodeLifecycleMode", "ClusterHealth", "NoShardMovement",
   "NoLastShardCopy", "PrimaryPromotionSafety", "MasterQuorum",
   "RoleAvailabilityBudget", "DiskWatermarksSafe", "NoStaleShutdownRecord"}

\* Mutant: a source that reported nothing does not make the evidence stale.
SourcesOkLenient(d) == \A s \in DOMAIN d.sources : d.sources[s].status # "error"

\* Every required source reported, and none failed.
SourcesOk(d) == \A s \in DOMAIN d.sources : d.sources[s].status = "ok"

\* What a target covers: its workloads, their hosts, the Elasticsearch
\* clusters and the clusters with data, and how much of it was observed.
Scope(r, d) ==
  LET sel == Selected(r, d)
      es == {ClusterOf[a] : a \in {b \in sel : RoleOf[b] \in ElasticsearchRoles}}
            \cup IF Operation(r) \in {"settings_change", "zoning_change", "upgrade"}
                 THEN {r.cluster} ELSE {}
      hosts == {HostOf[a] : a \in sel} \cup {d.target}
      data == {ClusterOf[a] : a \in {b \in sel : DataTiers(RoleOf[b]) # {}}}
  IN  [sel |-> sel, hosts |-> hosts, known |-> hosts \cap DOMAIN d.hosts,
       es |-> es, esSeen |-> es \cap DOMAIN d.clusters,
       data |-> data, dataSeen |-> data \cap es \cap DOMAIN d.clusters]

\* The observation times the evidence for a target rests on.
EvidenceTimes(r, d, affected) ==
  {d.sources[x].at : x \in DOMAIN d.sources}
  \cup {d.hosts[h].at : h \in Scope(r, d).known}
  \cup {d.loads[a].at : a \in {b \in DOMAIN d.loads : ClusterOf[b] \in affected}}
  \cup {d.clusters[c].at : c \in affected \cap DOMAIN d.clusters}

\* evaluate_predicates at planning: the predicates that hold.  The allocation
\* capture applies at preflight only; the artifact, transition and snapshot
\* facts of an upgrade are always collected as true.
Passed(r, d, p, imp) ==
  LET s == Scope(r, d)
      affected == DOMAIN imp
      onHosts(test(_)) == s.known = s.hosts /\ \A h \in s.known : test(d.hosts[h])
      onEs(test(_)) == s.esSeen = s.es /\ \A c \in s.es : test(d.clusters[c])
      onData(test(_)) ==
        s.data = {} \/ (s.dataSeen # {} /\ \A c \in s.dataSeen : test(d.clusters[c]))
      enabled(h) == h.enabled /\ h.initialized
      reachable(h) == h.reachable
      membership(h) == h.membership
      identity(c) == c.identity
      lifecycle(c) == c.lifecycle
      healthy(c) == HealthRank[c.health] >= HealthRank[p.health]
      quiet(c) == ~c.moving
      noLastCopy(c) == c.noLastCopy
      promotable(c) == c.promotable
      diskSafe(c) == c.diskSafe
      noShutdown(c) == ~c.shutdown
      quorum == \A c \in affected :
        (\E a \in s.sel : ClusterOf[a] = c /\ RoleOf[a] = "master")
          => imp[c].masterAfter >= imp[c].masterRequired
  IN  [HostEnabled |-> onHosts(enabled), HostReachable |-> onHosts(reachable),
       NoConflictingOperation |-> ~d.conflict,
       MembershipReady |-> onHosts(membership),
       FreshRuntimeObservation |->
         SourcesOk(d) /\ FreshAges(EvidenceTimes(r, d, affected), p.maxAge),
       ExpectedClusterIdentity |-> onEs(identity),
       SupportedNodeLifecycleMode |-> onEs(lifecycle),
       ClusterHealth |-> onEs(healthy), NoShardMovement |-> onData(quiet),
       NoLastShardCopy |-> onData(noLastCopy),
       PrimaryPromotionSafety |-> onData(promotable), MasterQuorum |-> quorum,
       RoleAvailabilityBudget |-> \A c \in affected : ~imp[c].overBudget,
       DiskWatermarksSafe |-> onData(diskSafe),
       NoStaleShutdownRecord |-> onEs(noShutdown)]

\* No caller passes override_ids, so a failed predicate always blocks.
Blocked(r, d, p, imp) ==
  LET passed == Passed(r, d, p, imp)
  IN  {x \in PredicateIds : ~passed[x]}

-----------------------------------------------------------------------------
\* The preview routes.

\* compile_plan: what the plan fixes, its expiry, its predicates and the
\* revisions its manifest names.
CompilePlan(r, d, complete, revisions, policies) ==
  LET p == EffectivePolicy(PolicyClusters(r, d))
      imp == Impact(r, d)
      blocked == Blocked(r, d, p, imp)
  IN  [state |-> IF blocked = {} /\ complete THEN "ready" ELSE "blocked",
       request |-> r, target |-> d.target, data |-> d, impact |-> imp,
       blocked |-> blocked, maxAge |-> p.maxAge, expires |-> now + p.validity,
       revisions |-> revisions, policies |-> policies,
       \* what the plan was made of and when it started, for the properties
       startedAt |-> now, startedUnder |-> [load |-> load, policy |-> policy],
       world |-> [node |-> node, load |-> load, cluster |-> cluster, policy |-> policy]]

Revisions(S) == [a \in S |-> load[a].revision]

\* create_host_reboot_preview: the manifest names the revisions of the
\* affected assignments and of the policies.
HostPreview(r) ==
  LET d == Collected(r)
  IN  CompilePlan(r, d, TRUE, Revisions(Selected(r, d)),
                  [c \in PolicyClusters(r, d) |-> policy[c].revision])

\* create_generic_preview: the manifest names assignments, never policies; a
\* host maintenance also needs complete expectations of the return.
GenericPreview(r) ==
  LET d == Collected(r)
  IN  CompilePlan(r, d, d.returns,
                  Revisions(IF r.op = "host_maintenance"
                            THEN Selected(r, d) ELSE r.assignments), <<>>)

\* Mutant: the node a reboot was asked for is not compared.
SameHostRequestAnyNode(r) == Operation(plan.request) = "reboot"

\* same_host_plan_request, _same_request
SameHostRequest(r) ==
  Operation(plan.request) = "reboot" /\ plan.target = r.node

\* same_generic_preview_request: the node is not among the compared fields.
SameGenericRequest(r) ==
  /\ Operation(plan.request) = Operation(r)
  /\ plan.request.cluster = r.cluster
  /\ plan.request.assignments = r.assignments

\* A repeated key: the plan that has it answers, or the request conflicts.  A
\* request without a host to look at is refused.
AnswerWith(r, same, row) ==
  /\ \/ plan.state = "absent" /\ Anchors(r) # {} /\ plan' = row
     \/ plan.state # "absent" /\ same /\ UNCHANGED plan
  /\ answer' = r
  /\ UNCHANGED <<node, load, cluster, policy, busy, changes, now>>

\* create_host_maintenance_plan
CreateHostPlan(r) ==
  r.route = "host" /\ AnswerWith(r, SameHostRequest(r), HostPreview(r))

\* create_maintenance_plan_preview
CreatePreview(r) ==
  r.route = "generic" /\ AnswerWith(r, SameGenericRequest(r), GenericPreview(r))

\* Mutant: the policies of the plan are not read again.
ExecutableAnyPolicy ==
  /\ plan.state = "ready"
  /\ Operation(plan.request) = "reboot"
  /\ now < plan.expires
  /\ now - plan.data.captured <= plan.maxAge
  /\ \A a \in DOMAIN plan.revisions : load[a].revision = plan.revisions[a]
  /\ node[plan.target].enabled
  /\ plan.target \notin busy

\* Execute a ready plan: _validate_execution_snapshot,
\* _validate_current_revisions and _validate_no_conflicts of the coordinator.
Executable ==
  /\ plan.state = "ready"
  /\ Operation(plan.request) = "reboot"
  /\ now < plan.expires
  /\ now - plan.data.captured <= plan.maxAge
  /\ \A a \in DOMAIN plan.revisions : load[a].revision = plan.revisions[a]
  /\ \A c \in DOMAIN plan.policies : policy[c].revision = plan.policies[c]
  /\ node[plan.target].enabled
  /\ plan.target \notin busy

Execute ==
  /\ Executable
  /\ plan' = [plan EXCEPT !.state = "running", !.startedAt = now,
                           !.startedUnder = [load |-> load, policy |-> policy]]
  /\ UNCHANGED <<node, load, cluster, policy, busy, answer, changes, now>>

Next ==
  \/ \E h \in Hosts : HostChanges(h) \/ ConflictStarts(h)
  \/ \E a \in Assignments : WorkloadChanges(a)
  \/ \E c \in Clusters : ClusterChanges(c) \/ \E p \in Policies : PutPolicy(c, p)
  \/ Collect \/ Tick
  \/ \E r \in Requests : CreateHostPlan(r) \/ CreatePreview(r)
  \/ Execute

Spec == Init /\ [][Next]_vars

-----------------------------------------------------------------------------
\* serialize_plan_preview: what an operator is shown before approving.

\* masterQuorum.preserved of the tightest affected cluster; no claim is made
\* when no affected cluster has masters.
QuorumShown(imp) ==
  LET S == {c \in DOMAIN imp : imp[c].masterTotal > 0 /\ imp[c].hit # {}}
      spare(c) == imp[c].masterAfter - imp[c].masterRequired
  IN  S = {} \/ Min({spare(c) : c \in S}) >= 0

\* Mutant: an endpoint is looked up in the impact of the other clusters.
ShownDegradedElsewhere(imp) ==
  {a \in UNION {imp[c].hit : c \in DOMAIN imp} :
     /\ RoleOf[a] \in EndpointRoles
     /\ \A c \in DOMAIN imp \ {ClusterOf[a]} : RoleOf[a] \notin imp[c].lost}

\* The endpoints shown as degraded: "Other ready instances preserve the
\* endpoint."
ShownDegraded(imp) ==
  {a \in UNION {imp[c].hit : c \in DOMAIN imp} :
     /\ RoleOf[a] \in EndpointRoles
     /\ RoleOf[a] \notin imp[ClusterOf[a]].lost}

\* header.freshness.state
FreshnessShown ==
  IF now >= plan.expires THEN "expired"
  ELSE IF "FreshRuntimeObservation" \in plan.blocked THEN "stale"
  ELSE "fresh"

-----------------------------------------------------------------------------
\* Properties.  Each is stated over what was observed when the plan was made
\* (plan.world), not over the figures the planner derived from it.

Planned == plan.state \in {"ready", "running"}
RebootPlanned == Planned /\ Operation(plan.request) = "reboot"
Up(a) == plan.world.load[a].running /\ ~plan.world.load[a].error
PolicyOf(c) == plan.world.policy[c].value
Going == OnHost(plan.target)
Stays(S) == {a \in S \ Going : Up(a)}

TypeOK ==
  /\ node \in [Hosts -> [enabled : BOOLEAN, initialized : BOOLEAN, reachable : BOOLEAN,
                         bound : SUBSET Clusters, error : BOOLEAN, at : Times]]
  /\ load \in [Assignments -> [running : BOOLEAN, error : BOOLEAN, named : BOOLEAN,
                               at : Times, revision : Nat]]
  /\ \A c \in Clusters : policy[c].value \in Policies /\ cluster[c].at \in Times
  /\ plan.state \in {"absent", "ready", "blocked", "running"}
  /\ busy \subseteq Hosts /\ changes \in 0..MaxChanges /\ now \in 0..MaxNow

\* A reboot that is planned leaves every cluster it takes a master from the
\* masters its policy asks for, a majority of all of them by default
\* (safety.py, MasterQuorum).
QuorumKept ==
  RebootPlanned => \A c \in Clusters :
    LET M == {a \in Rows({c}) : RoleOf[a] = "master"}
    IN  M \cap Going # {} =>
          IF PolicyOf(c).masters = "quorum"
          THEN 2 * Cardinality(Stays(M)) > Cardinality(M)
          ELSE Cardinality(Stays(M)) >= PolicyOf(c).masterCount

\* A planned reboot leaves every service and data tier it touches the minimum
\* its cluster's policy asks for, and never more workloads down than allowed,
\* the ones already down included (safety.py, RoleAvailabilityBudget).
BudgetKept ==
  RebootPlanned => \A c \in {ClusterOf[a] : a \in Going} :
    LET role(x) == {a \in Rows({c}) : RoleOf[a] = x}
        tier(x) == {a \in Rows({c}) : x \in DataTiers(RoleOf[a])}
    IN  /\ Cardinality(Rows({c})) - Cardinality(Stays(Rows({c})))
             <= PolicyOf(c).maxUnavailable
        /\ \A x \in ServiceRoles : role(x) \cap Going # {} =>
             Cardinality(Stays(role(x))) >= PolicyOf(c).services
        /\ \A x \in {"content", "hot", "warm"} : tier(x) \cap Going # {} =>
             Cardinality(Stays(tier(x))) >= PolicyOf(c).dataPerTier

\* A host with data workloads is planned down only when the telemetry of each
\* of their clusters reported the shard facts and every one of them was safe:
\* a second copy, a promotable primary, free disk, nothing moving, no
\* shutdown record and the configured identity.
ShardEvidence ==
  RebootPlanned => \A c \in DataClusters(plan.target) :
    LET t == plan.world.cluster[c]
    IN  /\ t.shardsSeen /\ t.otherCopies /\ t.promotable /\ t.diskFree
        /\ ~t.moving /\ ~t.shutdown /\ t.identity = "match"

\* What a planned reboot relies on was really observed, without an error and
\* within the age every affected policy allows: a missing or unreadable time,
\* which the collector replaces by the present, is never mistaken for one.
EvidenceObserved ==
  RebootPlanned =>
    LET S == ClustersOn(plan.target)
        fresh(r) == /\ r.at >= 0 /\ ~r.error
                    /\ \A c \in S : plan.data.captured - r.at <= PolicyOf(c).maxAge
    IN  /\ \A h \in {plan.target} \cup {HostOf[a] : a \in Rows(S)} :
             fresh(plan.world.node[h])
        /\ \A a \in Rows(S) : Up(a) => fresh(plan.world.load[a])
        /\ \A c \in DOMAIN plan.impact :
             DataClusters(plan.target) # {} => fresh(plan.world.cluster[c])

\* The manifest of a plan names the assignments the plan takes down; the one of
\* a reboot asked for on the generic route names none.
NamesAssignments == plan.request.route = "host" \/ plan.request.op = "host_maintenance"

\* A plan that started takes down assignments none of which was edited since it
\* was planned, on the reboot route and for a host maintenance, and a plan of
\* the reboot route runs under the policies it was planned under (execution.py,
\* _validate_current_revisions).
StartedAsPlanned ==
  plan.state = "running" =>
    /\ NamesAssignments =>
         \A a \in Going : plan.startedUnder.load[a].revision = plan.world.load[a].revision
    /\ plan.request.route = "host" =>
         \A c \in ClustersOn(plan.target) : plan.startedUnder.policy[c] = plan.world.policy[c]

\* maintenance_plan.md:575: "Execution rejects expired plans, changed assignment
\* revisions, stale observations, policy changes".  The coordinator looks at the
\* age of the preview and not at that of the telemetry it was made from
\* (execution.py:321), a plan of the generic route names no policies to compare
\* (service.py:810), and a reboot on it no assignments (service.py:790).
ExecutionRejects ==
  plan.state = "running" =>
    /\ \A a \in Going : plan.startedUnder.load[a].revision = plan.world.load[a].revision
    /\ \A x \in DOMAIN plan.data.sources : plan.startedAt - plan.data.sources[x].at <= plan.maxAge
    /\ \A c \in ClustersOn(plan.target) : plan.startedUnder.policy[c] = plan.world.policy[c]

\* The reboot route never answers a request for one host with the plan of
\* another, although the caller chose the key (api.py, IdempotencyConflict).
AnswerNamesHost == answer.route = "host" => plan.target = answer.node

\* What the operator is shown is not better than what was decided: a quorum
\* shown as preserved did not fail its predicate, and an endpoint shown as
\* merely degraded by a reboot has another ready instance elsewhere, and a
\* plan shown as fresh rests on hosts that were really observed.
ViewTruthful ==
  plan.state # "absent" =>
    /\ QuorumShown(plan.impact) => "MasterQuorum" \notin plan.blocked
    /\ Operation(plan.request) = "reboot" =>
         /\ \A a \in ShownDegraded(plan.impact) :
              Up(a) => \E b \in Stays(Rows({ClusterOf[a]})) : RoleOf[b] = RoleOf[a]
         /\ FreshnessShown = "fresh" =>
              \A h \in DOMAIN plan.data.hosts : plan.world.node[h].at >= 0

\* A reboot that is planned leaves every cluster it touches able to work: its
\* masters, its services and tiers, and the copies of its shards.
AvailabilityKept ==
  /\ QuorumKept
  /\ BudgetKept
  /\ ShardEvidence

\* What the routes answer and show is of the host that was asked about and no
\* better than what was decided.
AnswerTruthful ==
  /\ TypeOK
  /\ AnswerNamesHost
  /\ ViewTruthful
=============================================================================
