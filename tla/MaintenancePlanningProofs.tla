---------------------- MODULE MaintenancePlanningProofs ----------------------
(***************************************************************************)
(* Proofs about the planner, for every inventory, every policy and every   *)
(* request the API accepts.                                                *)
(*                                                                         *)
(* Nearly everything is decided when the row of a plan is written: what    *)
(* the preview computed from the observation then holds of the world as it *)
(* was observed (NewRow, NewRowAvailable, NewRowTruthful).  They rest on   *)
(* lemmas about the chain of operators: what is collected and merged       *)
(* (AnchorsOK, MergeOK, SourcesObserved), what is counted (ImpactCounts,   *)
(* RebootCounts) and what each predicate that passes says (RebootQuorum,   *)
(* RebootBudget, RebootFresh, RebootShards).  Afterwards only the clock,   *)
(* the stored policies and the start of the plan move, which RowKept and   *)
(* ExecuteStep follow.                                                     *)
(***************************************************************************)
EXTENDS MaintenancePlanning, FiniteSetTheorems, WellFoundedInduction, TLAPS

-----------------------------------------------------------------------------
\* Smallest and largest elements.

\* A nonempty set of naturals has a smallest element, which Min finds.
LEMMA MinOfNaturals ==
  ASSUME NEW S, S \subseteq Nat, S # {}
  PROVE  Min(S) \in S /\ \A y \in S : Min(S) <= y
<1> DEFINE R == OpToRel(<, Nat)
<1>1. PICK x \in S : \A y \in S : ~(<<y, x>> \in R)
  <2>1. IsWellFoundedOn(R, Nat)
    BY NatLessThanWellFounded
  <2> HIDE DEF R
  <2> QED BY <2>1, WFMin
<1>2. \A y \in S : ~(y < x)
  BY <1>1 DEF OpToRel
<1>3. \A y \in S : x <= y
  BY <1>2
<1> QED BY <1>3 DEF Min

\* A finite nonempty set of integers has a smallest element: the one with the
\* fewest elements below it.
LEMMA MinOfFinite ==
  ASSUME NEW S, S \subseteq Int, IsFiniteSet(S), S # {}
  PROVE  Min(S) \in S /\ \A y \in S : Min(S) <= y
<1> DEFINE Below(x) == {z \in S : z < x}
           T == {Cardinality(Below(x)) : x \in S}
<1>1. \A x \in S : IsFiniteSet(Below(x)) /\ Cardinality(Below(x)) \in Nat
  BY FS_Subset, FS_CardinalityType
<1>2. T \subseteq Nat /\ T # {}
  <2> HIDE DEF Below
  <2> QED BY <1>1
<1>3. Min(T) \in T /\ \A y \in T : Min(T) <= y
  <2> HIDE DEF T
  <2> QED BY <1>2, MinOfNaturals
<1>4. PICK x \in S : Min(T) = Cardinality(Below(x))
  BY <1>3
<1>5. \A y \in S : x <= y
  <2> SUFFICES ASSUME NEW y \in S, ~(x <= y) PROVE FALSE
    OBVIOUS
  <2>1. x \in Int /\ y \in Int /\ y < x
    OBVIOUS
  <2>2. Below(y) \subseteq Below(x) /\ y \in Below(x) /\ y \notin Below(y)
    <3>1. \A z \in S : z \in Int
      OBVIOUS
    <3>2. \A z \in S : z < y => z < x
      BY <2>1, <3>1
    <3>3. ~(y < y)
      BY <2>1
    <3> QED BY <2>1, <3>2, <3>3
  <2>3. Cardinality(Below(y)) \in T
    OBVIOUS
  <2>4. Cardinality(Below(x)) <= Cardinality(Below(y))
    <3> HIDE DEF T, Below
    <3> QED BY <1>3, <1>4, <2>3
  <2> HIDE DEF T, Below
  <2>5. IsFiniteSet(Below(x)) /\ Below(y) \in SUBSET Below(x)
    BY <1>1, <2>2
  <2>6. /\ Cardinality(Below(y)) <= Cardinality(Below(x))
        /\ Cardinality(Below(x)) = Cardinality(Below(y)) => Below(x) = Below(y)
    BY <2>5, FS_Subset
  <2> QED BY <1>1, <2>2, <2>4, <2>6
<1> QED BY <1>5 DEF Min

\* A finite nonempty set of integers has a largest element.
LEMMA MaxOfFinite ==
  ASSUME NEW S, S \subseteq Int, IsFiniteSet(S), S # {}
  PROVE  Max(S) \in S /\ \A y \in S : Max(S) >= y
<1> DEFINE Above(x) == {z \in S : z > x}
           T == {Cardinality(Above(x)) : x \in S}
<1>1. \A x \in S : IsFiniteSet(Above(x)) /\ Cardinality(Above(x)) \in Nat
  BY FS_Subset, FS_CardinalityType
<1>2. T \subseteq Nat /\ T # {}
  <2> HIDE DEF Above
  <2> QED BY <1>1
<1>3. Min(T) \in T /\ \A y \in T : Min(T) <= y
  <2> HIDE DEF T
  <2> QED BY <1>2, MinOfNaturals
<1>4. PICK x \in S : Min(T) = Cardinality(Above(x))
  BY <1>3
<1>5. \A y \in S : x >= y
  <2> SUFFICES ASSUME NEW y \in S, ~(x >= y) PROVE FALSE
    OBVIOUS
  <2>1. x \in Int /\ y \in Int /\ y > x
    OBVIOUS
  <2>2. Above(y) \subseteq Above(x) /\ y \in Above(x) /\ y \notin Above(y)
    <3>1. \A z \in S : z \in Int
      OBVIOUS
    <3>2. \A z \in S : z > y => z > x
      BY <2>1, <3>1
    <3>3. ~(y > y)
      BY <2>1
    <3> QED BY <2>1, <3>2, <3>3
  <2>3. Cardinality(Above(y)) \in T
    OBVIOUS
  <2>4. Cardinality(Above(x)) <= Cardinality(Above(y))
    <3> HIDE DEF T, Above
    <3> QED BY <1>3, <1>4, <2>3
  <2> HIDE DEF T, Above
  <2>5. IsFiniteSet(Above(x)) /\ Above(y) \in SUBSET Above(x)
    BY <1>1, <2>2
  <2>6. /\ Cardinality(Above(y)) <= Cardinality(Above(x))
        /\ Cardinality(Above(x)) = Cardinality(Above(y)) => Above(x) = Above(y)
    BY <2>5, FS_Subset
  <2> QED BY <1>1, <2>2, <2>4, <2>6
<1> QED BY <1>5 DEF Max

\* Parts of a finite set: what is in T and what is not.
LEMMA Parts ==
  ASSUME NEW S, IsFiniteSet(S), NEW T
  PROVE  /\ IsFiniteSet(S \cap T) /\ IsFiniteSet(S \ T)
         /\ Cardinality(S) \in Nat /\ Cardinality(S \cap T) \in Nat
         /\ Cardinality(S \ T) \in Nat
         /\ Cardinality(S) = Cardinality(S \cap T) + Cardinality(S \ T)
<1>1. IsFiniteSet(S \cap T) /\ IsFiniteSet(S \ T)
  BY FS_Subset
<1>2. (S \cap T) \cup (S \ T) = S /\ (S \cap T) \cap (S \ T) = {}
  OBVIOUS
<1>3. Cardinality((S \cap T) \cup (S \ T)) =
        Cardinality(S \cap T) + Cardinality(S \ T) - Cardinality((S \cap T) \cap (S \ T))
  BY <1>1, FS_Union
<1>4. /\ Cardinality(S) \in Nat /\ Cardinality(S \cap T) \in Nat
      /\ Cardinality(S \ T) \in Nat
  BY <1>1, FS_CardinalityType
<1>5. Cardinality((S \cap T) \cap (S \ T)) = 0
  BY <1>2, FS_EmptySet
<1> QED BY <1>1, <1>2, <1>3, <1>4, <1>5

-----------------------------------------------------------------------------
\* Types, and what is collected.

NodeRecords ==
  [enabled : BOOLEAN, initialized : BOOLEAN, reachable : BOOLEAN,
   bound : SUBSET Clusters, error : BOOLEAN, at : Times]
LoadRecords ==
  [running : BOOLEAN, error : BOOLEAN, named : BOOLEAN, at : Times, revision : Nat]
ClusterRecords ==
  [status : {"green", "yellow", "unknown"}, identity : {"match", "mismatch", "unpinned", "unseen"},
   error : BOOLEAN, at : Times, moving : BOOLEAN, shardsSeen : BOOLEAN,
   otherCopies : BOOLEAN, promotable : BOOLEAN, diskFree : BOOLEAN, shutdown : BOOLEAN]

Typed ==
  /\ node \in [Hosts -> NodeRecords]
  /\ load \in [Assignments -> LoadRecords]
  /\ cluster \in [Clusters -> ClusterRecords]
  /\ policy \in [Clusters -> [revision : Nat, value : Policies]]
  /\ busy \subseteq Hosts
  /\ changes \in 0..MaxChanges
  /\ now \in 0..MaxNow

\* What is merged under a key was reported under it by some host.
LEMMA MergeOK ==
  ASSUME NEW items, DOMAIN items \subseteq Nat, IsFiniteSet(DOMAIN items)
  PROVE  /\ DOMAIN Merge(items) = UNION {DOMAIN items[h] : h \in DOMAIN items}
         /\ \A k \in DOMAIN Merge(items) : \E h \in DOMAIN items :
              k \in DOMAIN items[h] /\ Merge(items)[k] = items[h][k]
<1> DEFINE A == DOMAIN items
<1>1. DOMAIN Merge(items) = UNION {DOMAIN items[h] : h \in A}
  BY DEF Merge
<1>2. ASSUME NEW k \in UNION {DOMAIN items[h] : h \in A}
      PROVE  \E h \in A : k \in DOMAIN items[h] /\ Merge(items)[k] = items[h][k]
  <2> DEFINE M == {h \in A : k \in DOMAIN items[h]}
  <2>1. M \subseteq A /\ M # {}
    BY <1>2
  <2>2. IsFiniteSet(M) /\ M \subseteq Int
    <3> HIDE DEF M
    <3>1. IsFiniteSet(M)
      BY <2>1, FS_Subset
    <3>2. M \subseteq Int
      BY <2>1
    <3> QED BY <3>1, <3>2
  <2>3. Max(M) \in M
    <3> HIDE DEF M
    <3> QED BY <2>1, <2>2, MaxOfFinite
  <2>4. Merge(items)[k] = items[Max(M)][k]
    BY <1>2 DEF Merge
  <2> QED BY <2>3, <2>4
<1> QED BY <1>1, <1>2

\* The hosts of an inventory are numbers, and a request looks at finitely many.
LEMMA AnchorsOK ==
  ASSUME NEW r \in Requests
  PROVE  Anchors(r) \subseteq Nat /\ Anchors(r) \subseteq Hosts /\ IsFiniteSet(Anchors(r))
<1>1. Anchors(r) \subseteq Hosts
  BY InventoryAssumption, RequestAssumption DEF Anchors, Rows
<1> QED BY <1>1, InventoryAssumption, FS_Subset

\* A request for a reboot looks at its host.
LEMMA RebootAnchor ==
  ASSUME Typed, NEW r \in Requests, Operation(r) = "reboot"
  PROVE  /\ r.node \in Hosts /\ r.assignments = {} /\ r.cluster \notin Clusters
         /\ Anchors(r) = {r.node} /\ Min(Anchors(r)) = r.node
<1>1. r.node \in Hosts /\ r.assignments = {} /\ r.cluster \notin Clusters
  BY RequestAssumption DEF Operation
<1>2. Rows({r.cluster}) = {}
  BY <1>1, InventoryAssumption DEF Rows
<1>3. \A h \in Hosts : r.cluster \notin node[h].bound
  BY <1>1 DEF Typed, NodeRecords
<1>4. Anchors(r) = {r.node}
  BY <1>1, <1>2, <1>3 DEF Anchors
<1>5. r.node \in Nat
  BY <1>1, InventoryAssumption
<1> QED BY <1>1, <1>4, <1>5 DEF Min

\* What is collected for a reboot is the observation anchored on its host.
LEMMA RebootCollected ==
  ASSUME Typed, NEW r \in Requests, Operation(r) = "reboot"
  PROVE  LET d == Collected(r)
             h == r.node
             S == ClustersOn(h)
         IN  /\ d.target = h /\ d.captured = now
             /\ DOMAIN d.sources = RequiredSources(h)
             /\ \A s \in RequiredSources(h) : d.sources[s] = Sources(h)[s]
             /\ DOMAIN d.hosts = {h} \cup {HostOf[a] : a \in Rows(S)}
             /\ \A g \in DOMAIN d.hosts : d.hosts[g] = HostObservation(g, S)
             /\ DOMAIN d.clusters = S
             /\ \A c \in S : d.clusters[c] = ClusterObservation(c, c \in DataClusters(h))
             /\ DOMAIN d.loads = Rows(S)
             /\ \A a \in Rows(S) : d.loads[a] = WorkloadObservation(a)
<1> DEFINE h == r.node
           S == ClustersOn(h)
           one(f) == [x \in {h} |-> f]
<1>1. h \in Nat /\ Anchors(r) = {h} /\ Min(Anchors(r)) = h
  BY RebootAnchor, InventoryAssumption
<1>2. ASSUME NEW f
      PROVE  /\ DOMAIN Merge(one(f)) = DOMAIN f
             /\ \A k \in DOMAIN f : Merge(one(f))[k] = f[k]
  <2>1. IsFiniteSet({h}) /\ {h} \subseteq Nat /\ DOMAIN one(f) = {h} /\ one(f)[h] = f
    BY <1>1, FS_Singleton
  <2> HIDE DEF one, h
  <2>2. /\ DOMAIN Merge(one(f)) = UNION {DOMAIN one(f)[x] : x \in {h}}
        /\ \A k \in DOMAIN Merge(one(f)) : \E x \in {h} :
              k \in DOMAIN one(f)[x] /\ Merge(one(f))[k] = one(f)[x][k]
    BY <2>1, MergeOK
  <2> QED BY <2>1, <2>2
<1>3. Anchored(h) = [sources |-> Sources(h),
        hosts |-> [g \in {h} \cup {HostOf[a] : a \in Rows(S)} |-> HostObservation(g, S)],
        clusters |-> [c \in S |-> ClusterObservation(c, c \in DataClusters(h))],
        loads |-> [a \in Rows(S) |-> WorkloadObservation(a)]]
  BY DEF Anchored
<1>4. LET d == Collected(r)
      IN  /\ d.target = h /\ d.captured = now
          /\ d.sources = Merge(one(Anchored(h).sources))
          /\ d.hosts = Merge(one(Anchored(h).hosts))
          /\ d.clusters = Merge(one(Anchored(h).clusters))
          /\ d.loads = Merge(one(Anchored(h).loads))
  <2> HIDE DEF h
  <2>1. \A x \in {h} : [g \in {h} |-> Anchored(g)][x] = Anchored(h)
    OBVIOUS
  <2>2. /\ [g \in {h} |-> [k \in {h} |-> Anchored(k)][g].sources] = one(Anchored(h).sources)
        /\ [g \in {h} |-> [k \in {h} |-> Anchored(k)][g].hosts] = one(Anchored(h).hosts)
        /\ [g \in {h} |-> [k \in {h} |-> Anchored(k)][g].clusters] = one(Anchored(h).clusters)
        /\ [g \in {h} |-> [k \in {h} |-> Anchored(k)][g].loads] = one(Anchored(h).loads)
    OBVIOUS
  <2> HIDE DEF one
  <2> QED BY <1>1, <2>2 DEF Collected
<1>5. DOMAIN Sources(h) = RequiredSources(h)
  BY DEF Sources
<1> HIDE DEF one, h, S
<1>6. /\ DOMAIN Collected(r).sources = RequiredSources(h)
      /\ \A s \in RequiredSources(h) : Collected(r).sources[s] = Sources(h)[s]
  BY <1>2, <1>3, <1>4, <1>5
<1>7. /\ DOMAIN Collected(r).hosts = {h} \cup {HostOf[a] : a \in Rows(S)}
      /\ \A g \in {h} \cup {HostOf[a] : a \in Rows(S)} :
           Collected(r).hosts[g] = HostObservation(g, S)
  BY <1>2, <1>3, <1>4
<1>8. /\ DOMAIN Collected(r).clusters = S
      /\ \A c \in S : Collected(r).clusters[c] = ClusterObservation(c, c \in DataClusters(h))
  BY <1>2, <1>3, <1>4
<1>9. /\ DOMAIN Collected(r).loads = Rows(S)
      /\ \A a \in Rows(S) : Collected(r).loads[a] = WorkloadObservation(a)
  BY <1>2, <1>3, <1>4
<1> QED BY <1>4, <1>6, <1>7, <1>8, <1>9 DEF h, S

\* A reboot takes down what is on its host, and every policy of the clusters
\* there is read.
LEMMA RebootScope ==
  ASSUME Typed, NEW r \in Requests, Operation(r) = "reboot"
  PROVE  LET d == Collected(r)
             h == r.node
         IN  /\ OnHost(h) \subseteq Rows(ClustersOn(h))
             /\ Selected(r, d) = OnHost(h)
             /\ AffectedClusters(r, d) = ClustersOn(h)
             /\ PolicyClusters(r, d) = ClustersOn(h)
             /\ ClustersOn(h) \subseteq Clusters
<1> DEFINE d == Collected(r)
           h == r.node
<1>1. r.assignments = {} /\ Clusters \cap {r.cluster} = {} /\ r.node \in Hosts
  BY RebootAnchor
<1>2. OnHost(h) \subseteq Rows(ClustersOn(h))
  BY DEF Rows, OnHost, ClustersOn
<1>3. ClustersOn(h) \subseteq Clusters
  BY InventoryAssumption DEF OnHost, ClustersOn
<1>4. d.target = h /\ DOMAIN d.loads = Rows(ClustersOn(h))
  BY RebootCollected
<1> HIDE DEF d
<1>5. Selected(r, d) = OnHost(h)
  BY <1>1, <1>2, <1>4 DEF Selected
<1>6. AffectedClusters(r, d) = ClustersOn(h)
  BY <1>1, <1>5 DEF AffectedClusters, ClustersOn
<1>7. OnHost(d.target) \cap DOMAIN d.loads = OnHost(h)
  BY <1>2, <1>4
<1>8. PolicyClusters(r, d) = ClustersOn(h)
  BY <1>1, <1>7 DEF PolicyClusters, ClustersOn
<1> QED BY <1>2, <1>3, <1>5, <1>6, <1>8 DEF d

\* What the planner counts for a reboot: of a set of workloads of one of its
\* clusters, those that are up elsewhere stay, all others are unavailable.
LEMMA RebootCounts ==
  ASSUME Typed, NEW r \in Requests, Operation(r) = "reboot",
         NEW W, W \subseteq Rows(ClustersOn(r.node))
  PROVE  LET d == Collected(r)
             stays == {a \in W \ OnHost(r.node) : load[a].running /\ ~load[a].error}
         IN  /\ Cardinality(W) \in Nat /\ Cardinality(stays) \in Nat
             /\ RemainingReady(r, d, W) = Cardinality(stays)
             /\ UnavailableAfter(r, d, W) = Cardinality(W) - Cardinality(stays)
             /\ Ready(d, W) = {a \in W : load[a].running /\ ~load[a].error}
<1> DEFINE d == Collected(r)
           On == OnHost(r.node)
           stays == {a \in W \ On : load[a].running /\ ~load[a].error}
           R == {a \in W : load[a].running /\ ~load[a].error}
<1>1. IsFiniteSet(W)
  <2>1. W \subseteq Assignments
    BY DEF Rows
  <2> QED BY <2>1, InventoryAssumption, FS_Subset
<1>2. \A a \in W : d.loads[a].ready <=> load[a].running /\ ~load[a].error
  <2>1. \A a \in W : d.loads[a] = WorkloadObservation(a)
    BY RebootCollected
  <2>2. \A a \in W : WorkloadObservation(a).ready <=> load[a].running /\ ~load[a].error
    BY DEF WorkloadObservation
  <2> QED BY <2>1, <2>2
<1>3. Selected(r, d) = On
  BY RebootScope
<1> HIDE DEF d, On
<1>4. Ready(d, W) = R
  BY <1>2 DEF Ready
<1>5. Ready(d, W \cap Selected(r, d)) = R \cap On
  BY <1>2, <1>3 DEF Ready
<1>6. stays = R \ On /\ W \cap R = R
  OBVIOUS
<1> HIDE DEF R, stays
<1>7. /\ IsFiniteSet(R)
      /\ Cardinality(W) \in Nat /\ Cardinality(R) \in Nat /\ Cardinality(W \ R) \in Nat
      /\ Cardinality(W) = Cardinality(R) + Cardinality(W \ R)
  BY <1>1, <1>6, Parts
<1>8. /\ Cardinality(R \cap On) \in Nat /\ Cardinality(stays) \in Nat
      /\ Cardinality(R) = Cardinality(R \cap On) + Cardinality(stays)
  BY <1>6, <1>7, Parts
<1>9. Disrupted(r, d, W) = Cardinality(R \cap On)
  BY <1>5 DEF Disrupted
<1>10. RemainingReady(r, d, W) = Cardinality(stays)
  BY <1>4, <1>7, <1>8, <1>9 DEF RemainingReady
<1>11. UnavailableAfter(r, d, W) = Cardinality(W) - Cardinality(stays)
  BY <1>4, <1>7, <1>8, <1>9 DEF UnavailableAfter
<1> QED BY <1>4, <1>7, <1>8, <1>10, <1>11 DEF d, On, stays, R

-----------------------------------------------------------------------------
\* The predicates.

\* Every selected master leaves its cluster the masters that are required.
QuorumStays(r, d, imp) ==
  \A c \in DOMAIN imp :
    (\E a \in Selected(r, d) : ClusterOf[a] = c /\ RoleOf[a] = "master")
      => imp[c].masterAfter >= imp[c].masterRequired

\* What a predicate says that does not block.
LEMMA NotBlocked ==
  ASSUME NEW r, NEW d, NEW p, NEW imp
  PROVE  LET B == Blocked(r, d, p, imp)
             s == Scope(r, d)
         IN  /\ "FreshRuntimeObservation" \notin B =>
                  SourcesOk(d) /\ FreshAges(EvidenceTimes(r, d, DOMAIN imp), p.maxAge)
             /\ "MasterQuorum" \notin B <=> QuorumStays(r, d, imp)
             /\ "RoleAvailabilityBudget" \notin B => \A c \in DOMAIN imp : ~imp[c].overBudget
             /\ "ExpectedClusterIdentity" \notin B =>
                  s.esSeen = s.es /\ \A c \in s.es : d.clusters[c].identity
             /\ "NoStaleShutdownRecord" \notin B => \A c \in s.es : ~d.clusters[c].shutdown
             /\ "NoShardMovement" \notin B => \A c \in s.dataSeen : s.data # {} => ~d.clusters[c].moving
             /\ "NoLastShardCopy" \notin B => \A c \in s.dataSeen : s.data # {} => d.clusters[c].noLastCopy
             /\ "PrimaryPromotionSafety" \notin B => \A c \in s.dataSeen : s.data # {} => d.clusters[c].promotable
             /\ "DiskWatermarksSafe" \notin B => \A c \in s.dataSeen : s.data # {} => d.clusters[c].diskSafe
<1>1. \A x \in PredicateIds : x \notin Blocked(r, d, p, imp) <=> Passed(r, d, p, imp)[x]
  BY DEF Blocked
<1>2. Scope(r, d).sel = Selected(r, d)
  BY DEF Scope
<1> DEFINE P == Passed(r, d, p, imp)
           s == Scope(r, d)
<1>3. P.FreshRuntimeObservation =>
        SourcesOk(d) /\ FreshAges(EvidenceTimes(r, d, DOMAIN imp), p.maxAge)
  BY DEF Passed
<1>4. P.MasterQuorum <=> \A c \in DOMAIN imp :
        (\E a \in s.sel : ClusterOf[a] = c /\ RoleOf[a] = "master")
          => imp[c].masterAfter >= imp[c].masterRequired
  BY DEF Passed
<1>5. P.RoleAvailabilityBudget => \A c \in DOMAIN imp : ~imp[c].overBudget
  BY DEF Passed
<1>6. P.ExpectedClusterIdentity => s.esSeen = s.es /\ \A c \in s.es : d.clusters[c].identity
  BY DEF Passed
<1>7. P.NoStaleShutdownRecord => \A c \in s.es : ~d.clusters[c].shutdown
  BY DEF Passed
<1>8. P.NoShardMovement => \A c \in s.dataSeen : s.data # {} => ~d.clusters[c].moving
  BY DEF Passed
<1>9. P.NoLastShardCopy => \A c \in s.dataSeen : s.data # {} => d.clusters[c].noLastCopy
  BY DEF Passed
<1>10. P.PrimaryPromotionSafety => \A c \in s.dataSeen : s.data # {} => d.clusters[c].promotable
  BY DEF Passed
<1>11. P.DiskWatermarksSafe => \A c \in s.dataSeen : s.data # {} => d.clusters[c].diskSafe
  BY DEF Passed
<1> HIDE DEF P, s
<1> QED BY <1>1, <1>2, <1>3, <1>4, <1>5, <1>6, <1>7, <1>8, <1>9, <1>10, <1>11
        DEF P, s, PredicateIds, QuorumStays

\* The oldest of some observation times.
LEMMA OldestOK ==
  ASSUME now \in Nat, NEW T, T \subseteq Nat
  PROVE  Oldest(T) \in Nat /\ \A t \in T : Oldest(T) <= t
<1>1. T \cup {now} \subseteq Nat /\ T \cup {now} # {}
  OBVIOUS
<1>2. Min(T \cup {now}) \in T \cup {now} /\ \A y \in T \cup {now} : Min(T \cup {now}) <= y
  BY <1>1, MinOfNaturals
<1> QED BY <1>1, <1>2 DEF Oldest

\* When every source of a host is in order, its neighbours, their workloads
\* and clusters were observed: a missing time is never taken for the present.
LEMMA SourcesObserved ==
  ASSUME Typed, NEW h \in Hosts, \A s \in RequiredSources(h) : Sources(h)[s].status = "ok"
  PROVE  LET S == ClustersOn(h)
         IN  /\ \A g \in {h} \cup {HostOf[a] : a \in Rows(S)} :
                  /\ node[g].at >= 0 /\ ~node[g].error
                  /\ "runtime" \in RequiredSources(h) /\ Sources(h)["runtime"].at \in Nat
                  /\ Sources(h)["runtime"].at <= node[g].at
             /\ \A a \in Rows(S) : load[a].at >= 0
             /\ DataClusters(h) # {} => \A c \in S :
                  /\ cluster[c].at >= 0 /\ ~cluster[c].error
                  /\ "elasticsearch" \in RequiredSources(h)
                  /\ Sources(h)["elasticsearch"].at \in Nat
                  /\ Sources(h)["elasticsearch"].at <= cluster[c].at
             /\ \A c \in DataClusters(h) : cluster[c].shardsSeen
<1> DEFINE S == ClustersOn(h)
           seen == {h} \cup {HostOf[a] : a \in Rows(S)}
           hostTimes == {ObservedAt(node[g].at) : g \in seen}
           clusterTimes == {ObservedAt(cluster[c].at) : c \in S}
<1>1. now \in Nat /\ now >= 0 /\ \A t \in Times : t \in Int /\ (t >= 0 \/ t = Missing \/ t = Invalid)
  BY InventoryAssumption DEF Typed, Times, Missing, Invalid
<1>2. /\ \A g \in seen : node[g].at \in Times /\ node[g].error \in BOOLEAN
      /\ \A a \in Rows(S) : load[a].at \in Times
      /\ \A c \in S : cluster[c].at \in Times /\ cluster[c].error \in BOOLEAN
  <2>1. seen \subseteq Hosts /\ Rows(S) \subseteq Assignments /\ S \subseteq Clusters
    BY InventoryAssumption DEF Rows, ClustersOn, OnHost
  <2> HIDE DEF S, seen
  <2>2. \A g \in seen : node[g].at \in Times /\ node[g].error \in BOOLEAN
    BY <2>1 DEF Typed, NodeRecords
  <2>3. \A a \in Rows(S) : load[a].at \in Times
    BY <2>1 DEF Typed, LoadRecords
  <2>4. \A c \in S : cluster[c].at \in Times /\ cluster[c].error \in BOOLEAN
    BY <2>1 DEF Typed, ClusterRecords
  <2> QED BY <2>2, <2>3, <2>4
<1>3. \A t \in Times : ObservedAt(t) \in Nat /\ (t >= 0 => ObservedAt(t) = t)
  BY <1>1 DEF ObservedAt
<1>4. hostTimes \subseteq Nat /\ clusterTimes \subseteq Nat
  <2> HIDE DEF S, seen
  <2> QED BY <1>2, <1>3
<1>5. /\ Oldest(hostTimes) \in Nat /\ \A t \in hostTimes : Oldest(hostTimes) <= t
      /\ Oldest(clusterTimes) \in Nat /\ \A t \in clusterTimes : Oldest(clusterTimes) <= t
  <2> HIDE DEF hostTimes, clusterTimes
  <2> QED BY <1>1, <1>4, OldestOK
<1>6. "runtime" \in RequiredSources(h)
  BY DEF RequiredSources
<1>7. DataClusters(h) # {} =>
        "elasticsearch" \in RequiredSources(h) /\ "shards" \in RequiredSources(h)
  <2>1. ASSUME NEW c \in DataClusters(h)
        PROVE  \E a \in OnHost(h) : RoleOf[a] \in ElasticsearchRoles
    <3>1. PICK a \in OnHost(h) : DataTiers(RoleOf[a]) # {}
      BY <2>1 DEF DataClusters
    <3>2. RoleOf[a] \in {"hot", "warm"}
      BY <3>1 DEF DataTiers
    <3> QED BY <3>2 DEF ElasticsearchRoles
  <2> QED BY <2>1 DEF RequiredSources
<1>8. Sources(h)["runtime"].status = "ok" =>
        /\ \A g \in seen : ~node[g].error /\ node[g].at # Invalid /\ node[g].at # Missing
        /\ \A a \in Rows(S) : load[a].at # Invalid /\ load[a].at # Missing
  BY <1>6 DEF Sources, Source, SourceStatus
<1>9. Sources(h)["runtime"].at = Oldest(hostTimes)
  BY <1>6 DEF Sources, Source
<1>10. ASSUME DataClusters(h) # {}
       PROVE  /\ Sources(h)["elasticsearch"].status = "ok" =>
                   \A c \in S : ~cluster[c].error /\ cluster[c].at # Invalid /\ cluster[c].at # Missing
              /\ Sources(h)["elasticsearch"].at = Oldest(clusterTimes)
              /\ Sources(h)["shards"].status = "ok" =>
                   \A c \in DataClusters(h) : cluster[c].shardsSeen
  <2>1. "elasticsearch" \in RequiredSources(h) /\ "shards" \in RequiredSources(h)
    BY <1>7, <1>10
  <2>2. Sources(h)["elasticsearch"].status = "ok" =>
          \A c \in S : ~cluster[c].error /\ cluster[c].at # Invalid /\ cluster[c].at # Missing
    BY <2>1 DEF Sources, Source, SourceStatus
  <2>3. Sources(h)["elasticsearch"].at = Oldest(clusterTimes)
    BY <2>1 DEF Sources, Source
  <2>4. Sources(h)["shards"].status = "ok" => \A c \in DataClusters(h) : cluster[c].shardsSeen
    BY <2>1 DEF Sources, Source, SourceStatus
  <2> QED BY <2>2, <2>3, <2>4
<1>11. \A g \in seen : ObservedAt(node[g].at) \in hostTimes
  OBVIOUS
<1>12. \A c \in S : ObservedAt(cluster[c].at) \in clusterTimes
  OBVIOUS
<1> HIDE DEF S, seen, hostTimes, clusterTimes
<1>13. \A g \in seen : node[g].at >= 0 /\ ~node[g].error /\ Oldest(hostTimes) <= node[g].at
  BY <1>1, <1>2, <1>3, <1>5, <1>6, <1>8, <1>11
<1>14. \A a \in Rows(S) : load[a].at >= 0
  BY <1>1, <1>2, <1>6, <1>8
<1>15. ASSUME DataClusters(h) # {}, NEW c \in S
       PROVE  cluster[c].at >= 0 /\ ~cluster[c].error /\ Oldest(clusterTimes) <= cluster[c].at
  BY <1>1, <1>2, <1>3, <1>5, <1>7, <1>10, <1>12, <1>15
<1>16. \A c \in DataClusters(h) : cluster[c].shardsSeen
  BY <1>7, <1>10
<1> QED BY <1>5, <1>6, <1>7, <1>9, <1>10, <1>13, <1>14, <1>15, <1>16 DEF S, seen

-----------------------------------------------------------------------------
\* A reboot that no predicate blocks.

\* The impact of a reboot on a cluster of its host, under that cluster's policy.
LEMMA RebootImpact ==
  ASSUME Typed, NEW r \in Requests, Operation(r) = "reboot", NEW c \in ClustersOn(r.node)
  PROVE  LET d == Collected(r)
             imp == Impact(r, d)
             wl == Rows({c})
             M == {a \in wl : RoleOf[a] = "master"}
         IN  /\ DOMAIN imp = ClustersOn(r.node)
             /\ imp[c] = ClusterImpact(r, d, c, policy[c].value)
             /\ wl \subseteq Rows(ClustersOn(r.node))
             /\ {a \in DOMAIN d.loads : ClusterOf[a] = c} = wl
             /\ c \in DOMAIN d.clusters /\ d.clusters[c].masters = M
<1> DEFINE d == Collected(r)
<1>1. /\ AffectedClusters(r, d) = ClustersOn(r.node)
      /\ PolicyClusters(r, d) = ClustersOn(r.node)
  BY RebootScope
<1>2. DOMAIN d.loads = Rows(ClustersOn(r.node))
  BY RebootCollected
<1>3. c \in DOMAIN d.clusters /\ d.clusters[c].masters = {a \in Rows({c}) : RoleOf[a] = "master"}
  <2>1. c \in DOMAIN d.clusters /\ d.clusters[c] = ClusterObservation(c, c \in DataClusters(r.node))
    BY RebootCollected
  <2> QED BY <2>1 DEF ClusterObservation
<1> HIDE DEF d
<1>4. DOMAIN Impact(r, d) = ClustersOn(r.node)
  BY <1>1 DEF Impact
<1>5. Impact(r, d)[c] = ClusterImpact(r, d, c, policy[c].value)
  BY <1>1 DEF Impact
<1>6. Rows({c}) \subseteq Rows(ClustersOn(r.node))
  BY DEF Rows
<1>7. {a \in DOMAIN d.loads : ClusterOf[a] = c} = Rows({c})
  BY <1>2 DEF Rows
<1> QED BY <1>3, <1>4, <1>5, <1>6, <1>7 DEF d

\* The workloads of S that are up away from host h.
UpElsewhere(S, h) == {a \in S \ OnHost(h) : load[a].running /\ ~load[a].error}

\* The policies in force are well formed.
LEMMA PolicyOK ==
  ASSUME Typed, NEW c \in Clusters
  PROVE  /\ policy[c].value \in Policies /\ policy[c].revision \in Nat
         /\ policy[c].value.maxUnavailable \in Nat /\ policy[c].value.masterCount \in Nat
         /\ policy[c].value.dataPerTier \in Nat /\ policy[c].value.services \in Nat
         /\ policy[c].value.maxAge \in Nat /\ policy[c].value.validity \in Nat
<1>1. policy[c].value \in Policies /\ policy[c].revision \in Nat
  BY DEF Typed
<1> QED BY <1>1, PolicyAssumption

\* MasterQuorum counts what is left.
LEMMA RebootQuorum ==
  ASSUME Typed, NEW r \in Requests, Operation(r) = "reboot",
         QuorumStays(r, Collected(r), Impact(r, Collected(r))), NEW c \in Clusters
  PROVE  LET M == {a \in Rows({c}) : RoleOf[a] = "master"}
         IN  M \cap OnHost(r.node) # {} =>
               IF policy[c].value.masters = "quorum"
               THEN 2 * Cardinality(UpElsewhere(M, r.node)) > Cardinality(M)
               ELSE Cardinality(UpElsewhere(M, r.node)) >= policy[c].value.masterCount
<1> DEFINE d == Collected(r)
           M == {a \in Rows({c}) : RoleOf[a] = "master"}
<1> SUFFICES ASSUME M \cap OnHost(r.node) # {}
             PROVE  IF policy[c].value.masters = "quorum"
                    THEN 2 * Cardinality(UpElsewhere(M, r.node)) > Cardinality(M)
                    ELSE Cardinality(UpElsewhere(M, r.node)) >= policy[c].value.masterCount
  OBVIOUS
<1>1. PICK m \in OnHost(r.node) : m \in M
  OBVIOUS
<1>2. c \in ClustersOn(r.node) /\ ClusterOf[m] = c /\ RoleOf[m] = "master"
  BY <1>1 DEF Rows, ClustersOn
<1>3. m \in Selected(r, d)
  BY <1>1, RebootScope
<1>4. /\ c \in DOMAIN Impact(r, d)
      /\ Impact(r, d)[c] = ClusterImpact(r, d, c, policy[c].value)
      /\ M \subseteq Rows(ClustersOn(r.node))
      /\ c \in DOMAIN d.clusters /\ d.clusters[c].masters = M
  BY <1>2, RebootImpact
<1>5. /\ Cardinality(M) \in Nat /\ Cardinality(UpElsewhere(M, r.node)) \in Nat
      /\ RemainingReady(r, d, M) = Cardinality(UpElsewhere(M, r.node))
  BY <1>4, RebootCounts DEF UpElsewhere
<1>6. Cardinality(M) # 0
  <2>1. IsFiniteSet(M)
    <3>1. M \subseteq Assignments
      BY DEF Rows
    <3> QED BY <3>1, InventoryAssumption, FS_Subset
  <2> QED BY <1>1, <2>1, FS_EmptySet
<1> HIDE DEF M, d
<1>7. /\ ClusterImpact(r, d, c, policy[c].value).masterAfter = RemainingReady(r, d, M)
      /\ ClusterImpact(r, d, c, policy[c].value).masterRequired
           = MinimumMasters(policy[c].value, Cardinality(M))
  BY <1>4 DEF ClusterImpact
<1>8. RemainingReady(r, d, M) >= MinimumMasters(policy[c].value, Cardinality(M))
  BY <1>2, <1>3, <1>4, <1>7 DEF QuorumStays, d
<1>9. policy[c].value.masterCount \in Nat
  BY PolicyOK
<1> QED BY <1>5, <1>6, <1>8, <1>9 DEF MinimumMasters

\* RoleAvailabilityBudget counts what is left.
LEMMA RebootBudget ==
  ASSUME Typed, NEW r \in Requests, Operation(r) = "reboot", NEW c \in ClustersOn(r.node),
         ~Impact(r, Collected(r))[c].overBudget
  PROVE  LET p == policy[c].value
             wl == Rows({c})
             role(x) == {a \in wl : RoleOf[a] = x}
             tier(x) == {a \in wl : x \in DataTiers(RoleOf[a])}
         IN  /\ Cardinality(wl) - Cardinality(UpElsewhere(wl, r.node)) <= p.maxUnavailable
             /\ \A x \in ServiceRoles : role(x) \cap OnHost(r.node) # {} =>
                  Cardinality(UpElsewhere(role(x), r.node)) >= p.services
             /\ \A x \in {"content", "hot", "warm"} : tier(x) \cap OnHost(r.node) # {} =>
                  Cardinality(UpElsewhere(tier(x), r.node)) >= p.dataPerTier
<1> DEFINE d == Collected(r)
           p == policy[c].value
           wl == Rows({c})
           hit == wl \cap Selected(r, d)
           role(x) == {a \in wl : RoleOf[a] = x}
           tier(x) == {a \in wl : x \in DataTiers(RoleOf[a])}
           short(W, min) == W \cap hit # {} /\ RemainingReady(r, d, W) < min
<1>1. /\ Impact(r, d)[c] = ClusterImpact(r, d, c, p)
      /\ wl \subseteq Rows(ClustersOn(r.node))
      /\ {a \in DOMAIN d.loads : ClusterOf[a] = c} = wl
  BY RebootImpact
<1>2. c \in Clusters
  BY RebootScope
<1>3. p.maxUnavailable \in Nat /\ p.services \in Nat /\ p.dataPerTier \in Nat
  BY <1>2, PolicyOK
<1>4. Selected(r, d) = OnHost(r.node)
  BY RebootScope
<1>5. \A W : W \subseteq wl =>
        /\ Cardinality(W) \in Nat /\ Cardinality(UpElsewhere(W, r.node)) \in Nat
        /\ RemainingReady(r, d, W) = Cardinality(UpElsewhere(W, r.node))
        /\ UnavailableAfter(r, d, W) = Cardinality(W) - Cardinality(UpElsewhere(W, r.node))
  BY <1>1, RebootCounts DEF UpElsewhere
<1>6. ~ClusterImpact(r, d, c, p).overBudget
  BY <1>1
<1> HIDE DEF d, p
<1>7. /\ ~(UnavailableAfter(r, d, wl) > p.maxUnavailable)
      /\ \A x \in UNION {DataTiers(RoleOf[a]) : a \in wl} : ~short(tier(x), p.dataPerTier)
      /\ \A x \in ServiceRoles : ~short(role(x), p.services)
  BY <1>1, <1>6 DEF ClusterImpact
<1>8. Cardinality(wl) - Cardinality(UpElsewhere(wl, r.node)) <= p.maxUnavailable
  <2> HIDE DEF wl
  <2> QED BY <1>3, <1>5, <1>7
<1>9. ASSUME NEW x \in ServiceRoles, role(x) \cap OnHost(r.node) # {}
      PROVE  Cardinality(UpElsewhere(role(x), r.node)) >= p.services
  <2>1. role(x) \subseteq wl /\ role(x) \cap hit # {}
    BY <1>4, <1>9
  <2>2. ~(RemainingReady(r, d, role(x)) < p.services)
    BY <1>7, <2>1
  <2> HIDE DEF role, wl
  <2> QED BY <1>3, <1>5, <2>1, <2>2
<1>10. ASSUME NEW x \in {"content", "hot", "warm"}, tier(x) \cap OnHost(r.node) # {}
       PROVE  Cardinality(UpElsewhere(tier(x), r.node)) >= p.dataPerTier
  <2>1. tier(x) \subseteq wl /\ tier(x) \cap hit # {}
        /\ x \in UNION {DataTiers(RoleOf[a]) : a \in wl}
    BY <1>4, <1>10
  <2>2. ~(RemainingReady(r, d, tier(x)) < p.dataPerTier)
    BY <1>7, <2>1
  <2> HIDE DEF tier, wl
  <2> QED BY <1>3, <1>5, <2>1, <2>2
<1> HIDE DEF wl
<1> QED BY <1>8, <1>9, <1>10 DEF p, wl

\* The effective policy is at least as strict about ages as each policy.
LEMMA EffectiveAge ==
  ASSUME Typed, NEW S, S \subseteq Clusters
  PROVE  /\ EffectivePolicy(S).maxAge \in Nat /\ EffectivePolicy(S).validity \in Nat
         /\ \A c \in S : EffectivePolicy(S).maxAge <= policy[c].value.maxAge
<1> DEFINE values == {policy[c].value : c \in S}
           ages == {p.maxAge : p \in values}
           validities == {p.validity : p \in values}
<1>1. CASE S = {}
  BY <1>1 DEF EffectivePolicy, DefaultPolicy
<1>2. CASE S # {}
  <2>1. \A p \in values : p.maxAge \in Nat /\ p.validity \in Nat
    BY PolicyOK
  <2>2. values # {}
    BY <1>2
  <2>3. \A c \in S : policy[c].value \in values
    OBVIOUS
  <2> HIDE DEF values
  <2>4. /\ ages \subseteq Nat /\ ages # {} /\ validities \subseteq Nat /\ validities # {}
        /\ \A p \in values : p.maxAge \in ages
    BY <2>1, <2>2
  <2> HIDE DEF ages, validities
  <2>5. Min(ages) \in ages /\ (\A y \in ages : Min(ages) <= y) /\ Min(validities) \in validities
    BY <2>4, MinOfNaturals
  <2>6. EffectivePolicy(S).maxAge = Min(ages) /\ EffectivePolicy(S).validity = Min(validities)
    BY <1>2 DEF EffectivePolicy, DefaultPolicy, ages, validities, values
  <2> QED BY <2>3, <2>4, <2>5, <2>6
<1> QED BY <1>1, <1>2

\* FreshRuntimeObservation rests on observations of the age it allows.
LEMMA RebootFresh ==
  ASSUME Typed, NEW r \in Requests, Operation(r) = "reboot", NEW age \in Nat,
         SourcesOk(Collected(r)),
         FreshAges(EvidenceTimes(r, Collected(r), ClustersOn(r.node)), age)
  PROVE  LET h == r.node
             S == ClustersOn(h)
         IN  /\ \A g \in {h} \cup {HostOf[a] : a \in Rows(S)} :
                  node[g].at >= 0 /\ ~node[g].error /\ now - node[g].at <= age
             /\ \A a \in Rows(S) : load[a].at >= 0 /\ now - load[a].at <= age
             /\ DataClusters(h) # {} => \A c \in S :
                  cluster[c].at >= 0 /\ ~cluster[c].error /\ now - cluster[c].at <= age
             /\ \A c \in DataClusters(h) : cluster[c].shardsSeen
<1> DEFINE d == Collected(r)
           h == r.node
           S == ClustersOn(h)
           T == EvidenceTimes(r, d, S)
<1>1. h \in Hosts
  BY RebootAnchor
<1>2. /\ DOMAIN d.sources = RequiredSources(h)
      /\ \A s \in RequiredSources(h) : d.sources[s] = Sources(h)[s]
      /\ DOMAIN d.loads = Rows(S)
      /\ \A a \in Rows(S) : d.loads[a] = WorkloadObservation(a)
  BY RebootCollected
<1>3. \A s \in RequiredSources(h) : Sources(h)[s].status = "ok"
  BY <1>2 DEF SourcesOk
<1>4. /\ \A g \in {h} \cup {HostOf[a] : a \in Rows(S)} :
           /\ node[g].at >= 0 /\ ~node[g].error
           /\ "runtime" \in RequiredSources(h) /\ Sources(h)["runtime"].at \in Nat
           /\ Sources(h)["runtime"].at <= node[g].at
      /\ \A a \in Rows(S) : load[a].at >= 0
      /\ DataClusters(h) # {} => \A c \in S :
           /\ cluster[c].at >= 0 /\ ~cluster[c].error
           /\ "elasticsearch" \in RequiredSources(h)
           /\ Sources(h)["elasticsearch"].at \in Nat
           /\ Sources(h)["elasticsearch"].at <= cluster[c].at
      /\ \A c \in DataClusters(h) : cluster[c].shardsSeen
  <2> HIDE DEF h
  <2> QED BY <1>1, <1>3, SourcesObserved
<1>5. \A t \in T : now - t \in 0..age
  BY DEF FreshAges
<1>6. \A s \in RequiredSources(h) : Sources(h)[s].at \in T
  <2> HIDE DEF d
  <2> QED BY <1>2 DEF EvidenceTimes
<1>7. \A a \in Rows(S) : ObservedAt(load[a].at) \in T
  <2> HIDE DEF d
  <2>1. \A a \in Rows(S) : ClusterOf[a] \in S /\ d.loads[a].at = ObservedAt(load[a].at)
    <3>1. \A a \in Rows(S) : ClusterOf[a] \in S
      BY DEF Rows
    <3>2. \A a \in Rows(S) : WorkloadObservation(a).at = ObservedAt(load[a].at)
      BY DEF WorkloadObservation
    <3> QED BY <1>2, <3>1, <3>2
  <2> QED BY <1>2, <2>1 DEF EvidenceTimes
<1>8. /\ now \in Int
      /\ \A g \in {h} \cup {HostOf[a] : a \in Rows(S)} : node[g].at \in Int
      /\ \A a \in Rows(S) : load[a].at \in Int
      /\ \A c \in S : cluster[c].at \in Int
  <2>1. {h} \cup {HostOf[a] : a \in Rows(S)} \subseteq Hosts /\ Rows(S) \subseteq Assignments
        /\ S \subseteq Clusters
    BY <1>1, InventoryAssumption DEF Rows, ClustersOn, OnHost
  <2>2. Times \subseteq Int
    BY InventoryAssumption DEF Times, Missing, Invalid
  <2>3. /\ now \in Int /\ (\A g \in Hosts : node[g].at \in Times)
        /\ (\A a \in Assignments : load[a].at \in Times)
        /\ (\A c \in Clusters : cluster[c].at \in Times)
    BY DEF Typed, NodeRecords, LoadRecords, ClusterRecords
  <2> HIDE DEF S, h
  <2> QED BY <2>1, <2>2, <2>3
<1>9. ASSUME NEW a \in Rows(S) PROVE now - load[a].at <= age
  <2>1. ObservedAt(load[a].at) = load[a].at
    BY <1>4 DEF ObservedAt
  <2>2. now - load[a].at \in 0..age
    BY <1>5, <1>7, <2>1
  <2> QED BY <2>2
<1> HIDE DEF S, h, T
<1>10. ASSUME NEW g \in {h} \cup {HostOf[a] : a \in Rows(S)} PROVE now - node[g].at <= age
  <2>1. now - Sources(h)["runtime"].at \in 0..age
    BY <1>4, <1>5, <1>6
  <2>2. Sources(h)["runtime"].at \in Nat /\ Sources(h)["runtime"].at <= node[g].at
    BY <1>4
  <2> QED BY <1>8, <2>1, <2>2
<1>11. ASSUME DataClusters(h) # {}, NEW c \in S PROVE now - cluster[c].at <= age
  <2>1. now - Sources(h)["elasticsearch"].at \in 0..age
    BY <1>4, <1>5, <1>6, <1>11
  <2>2. Sources(h)["elasticsearch"].at \in Nat /\ Sources(h)["elasticsearch"].at <= cluster[c].at
    BY <1>4, <1>11
  <2> QED BY <1>8, <2>1, <2>2
<1> QED BY <1>4, <1>9, <1>10, <1>11 DEF h, S

\* The shard predicates of a reboot looked at every cluster with data on the
\* host.
LEMMA RebootShards ==
  ASSUME Typed, NEW r \in Requests, Operation(r) = "reboot", NEW p,
         Blocked(r, Collected(r), p, Impact(r, Collected(r))) = {},
         NEW c \in DataClusters(r.node)
  PROVE  /\ cluster[c].otherCopies /\ cluster[c].promotable /\ cluster[c].diskFree
         /\ ~cluster[c].moving /\ ~cluster[c].shutdown /\ cluster[c].identity = "match"
<1> DEFINE d == Collected(r)
           h == r.node
           s == Scope(r, d)
<1>1. Selected(r, d) = OnHost(h)
  BY RebootScope
<1>2. DOMAIN d.clusters = ClustersOn(h)
      /\ \A x \in ClustersOn(h) : d.clusters[x] = ClusterObservation(x, x \in DataClusters(h))
  BY RebootCollected
<1>3. /\ s.esSeen = s.es /\ \A x \in s.es : d.clusters[x].identity /\ ~d.clusters[x].shutdown
      /\ \A x \in s.dataSeen : s.data # {} =>
           /\ ~d.clusters[x].moving /\ d.clusters[x].noLastCopy
           /\ d.clusters[x].promotable /\ d.clusters[x].diskSafe
  BY NotBlocked
<1> HIDE DEF d
<1>4. PICK a \in OnHost(h) : ClusterOf[a] = c /\ DataTiers(RoleOf[a]) # {}
  BY DEF DataClusters
<1>5. RoleOf[a] \in ElasticsearchRoles
  <2>1. RoleOf[a] \in {"hot", "warm"}
    BY <1>4 DEF DataTiers
  <2> QED BY <2>1 DEF ElasticsearchRoles
<1>6. c \in s.es
  BY <1>1, <1>4, <1>5 DEF Scope
<1>7. c \in s.data
  BY <1>1, <1>4 DEF Scope
<1>8. s.esSeen = s.es \cap DOMAIN d.clusters /\ s.dataSeen = s.data \cap s.es \cap DOMAIN d.clusters
  BY DEF Scope
<1> HIDE DEF s
<1>9. c \in DOMAIN d.clusters /\ c \in s.dataSeen /\ s.data # {}
  BY <1>3, <1>6, <1>7, <1>8
<1>10. /\ d.clusters[c].identity /\ ~d.clusters[c].shutdown /\ ~d.clusters[c].moving
       /\ d.clusters[c].noLastCopy /\ d.clusters[c].promotable /\ d.clusters[c].diskSafe
  BY <1>3, <1>6, <1>9
<1>11. d.clusters[c] = ClusterObservation(c, c \in DataClusters(h)) /\ c \in DataClusters(h)
  BY <1>2, <1>9
<1>12. LET o == ClusterObservation(c, c \in DataClusters(h))
       IN  /\ o.identity => cluster[c].identity = "match"
           /\ o.shutdown = cluster[c].shutdown /\ o.moving = cluster[c].moving
           /\ o.noLastCopy => (c \in DataClusters(h) => cluster[c].otherCopies)
           /\ o.promotable => (c \in DataClusters(h) => cluster[c].promotable)
           /\ o.diskSafe => (c \in DataClusters(h) => cluster[c].diskFree)
  BY DEF ClusterObservation
<1> QED BY <1>10, <1>11, <1>12

-----------------------------------------------------------------------------
\* What the operator is shown.

\* The image of a finite set is finite.
LEMMA ImageFinite ==
  ASSUME NEW S, IsFiniteSet(S), NEW f, DOMAIN f = S
  PROVE  IsFiniteSet({f[x] : x \in S})
<1> DEFINE T == {f[x] : x \in S}
           g == [x \in S |-> f[x]]
<1>1. g \in [S -> T] /\ \A t \in T : \E x \in S : g[x] = t
  OBVIOUS
<1>2. g \in Surjection(S, T)
  <2> HIDE DEF g, T
  <2> QED BY <1>1 DEF Surjection
<1> HIDE DEF g
<1> QED BY <1>2, FS_Surjection

\* Every collected cluster knows its masters, whichever host it was seen from.
LEMMA CollectedMasters ==
  ASSUME NEW r \in Requests, NEW c \in DOMAIN Collected(r).clusters
  PROVE  Collected(r).clusters[c].masters = {a \in Rows({c}) : RoleOf[a] = "master"}
<1> DEFINE A == Anchors(r)
           at == [h \in A |-> Anchored(h)]
           items == [h \in A |-> at[h].clusters]
<1>1. Collected(r).clusters = Merge(items)
  BY DEF Collected
<1>2. A \subseteq Nat /\ IsFiniteSet(A) /\ DOMAIN items = A
  BY AnchorsOK
<1>3. \A h \in A : items[h] = Anchored(h).clusters
  OBVIOUS
<1> HIDE DEF A, at, items
<1>4. PICK h \in A : c \in DOMAIN items[h] /\ Merge(items)[c] = items[h][c]
  <2>1. /\ DOMAIN Merge(items) = UNION {DOMAIN items[h] : h \in A}
        /\ \A k \in DOMAIN Merge(items) : \E h \in A :
             k \in DOMAIN items[h] /\ Merge(items)[k] = items[h][k]
    BY <1>2, MergeOK
  <2>2. c \in DOMAIN Merge(items)
    BY <1>1
  <2> QED BY <2>1, <2>2
<1>5. items[h] = [x \in ClustersOn(h) |-> ClusterObservation(x, x \in DataClusters(h))]
  BY <1>3 DEF Anchored
<1>6. Collected(r).clusters[c] = ClusterObservation(c, c \in DataClusters(h))
  BY <1>1, <1>4, <1>5
<1> QED BY <1>6 DEF ClusterObservation

\* The masters of an impact are counted, and where there are none, none is
\* required.
LEMMA ImpactCounts ==
  ASSUME Typed, NEW r \in Requests, NEW c \in DOMAIN Impact(r, Collected(r))
  PROVE  LET i == Impact(r, Collected(r))[c]
         IN  /\ i.masterTotal \in Nat /\ i.masterAfter \in Int /\ i.masterRequired \in Int
             /\ i.masterTotal = 0 => i.masterAfter = 0 /\ i.masterRequired = 0
             /\ i.hit = {a \in DOMAIN Collected(r).loads : ClusterOf[a] = c}
                          \cap Selected(r, Collected(r))
<1> DEFINE d == Collected(r)
           masters == IF c \in DOMAIN d.clusters THEN d.clusters[c].masters ELSE {}
           p == IF c \in PolicyClusters(r, d) THEN policy[c].value ELSE DefaultPolicy
           i == ClusterImpact(r, d, c, p)
<1>1. masters \subseteq Assignments
  BY CollectedMasters DEF Rows
<1>2. IsFiniteSet(masters)
  <2> HIDE DEF masters
  <2> QED BY <1>1, InventoryAssumption, FS_Subset
<1>3. p.masterCount \in Nat
  <2>1. PolicyClusters(r, d) \subseteq Clusters
    <3>1. r.assignments \subseteq Assignments
      BY RequestAssumption
    <3> HIDE DEF d
    <3> QED BY <3>1, InventoryAssumption DEF PolicyClusters, OnHost
  <2>2. CASE c \in PolicyClusters(r, d)
    BY <2>1, <2>2, PolicyOK
  <2>3. CASE c \notin PolicyClusters(r, d)
    BY <2>3 DEF DefaultPolicy
  <2> QED BY <2>2, <2>3
<1>4. Impact(r, d)[c] = i
  <2>1. c \in AffectedClusters(r, d)
    BY DEF Impact
  <2> HIDE DEF d
  <2> QED BY <2>1 DEF Impact
<1> HIDE DEF d, p
<1>5. /\ i.masterTotal = Cardinality(masters)
      /\ i.masterAfter = RemainingReady(r, d, masters)
      /\ i.masterRequired = MinimumMasters(p, Cardinality(masters))
      /\ i.hit = {a \in DOMAIN d.loads : ClusterOf[a] = c} \cap Selected(r, d)
  BY DEF ClusterImpact
<1> HIDE DEF masters, i
<1>6. Cardinality(masters) \in Nat
  BY <1>2, FS_CardinalityType
<1>7. /\ Cardinality(Ready(d, masters)) \in Nat
      /\ Cardinality(Ready(d, masters \cap Selected(r, d))) \in Nat
  <2>1. Ready(d, masters) \subseteq masters /\ Ready(d, masters \cap Selected(r, d)) \subseteq masters
    BY DEF Ready
  <2> QED BY <1>2, <2>1, FS_Subset, FS_CardinalityType
<1>8. /\ Disrupted(r, d, masters) \in Nat
      /\ Cardinality(Ready(d, masters \cap Selected(r, d))) = 0 => Disrupted(r, d, masters) = 0
  <2> DEFINE n == Cardinality(Ready(d, masters \cap Selected(r, d)))
  <2>1. n \in Nat
    BY <1>7
  <2>2. Disrupted(r, d, masters) = IF Operation(r) = "reboot" THEN n ELSE Min({1, n})
    BY DEF Disrupted
  <2> HIDE DEF n
  <2>3. Min({1, n}) \in {1, n} /\ Min({1, n}) <= n
    BY <2>1, MinOfNaturals
  <2> QED BY <2>1, <2>2, <2>3 DEF n
<1>9. MinimumMasters(p, Cardinality(masters)) \in Int
      /\ (Cardinality(masters) = 0 => MinimumMasters(p, Cardinality(masters)) = 0)
  BY <1>3, <1>6 DEF MinimumMasters
<1>10. Cardinality(masters) = 0 =>
         /\ Cardinality(Ready(d, masters)) = 0
         /\ Cardinality(Ready(d, masters \cap Selected(r, d))) = 0
  <2> SUFFICES ASSUME Cardinality(masters) = 0
               PROVE  /\ Cardinality(Ready(d, masters)) = 0
                      /\ Cardinality(Ready(d, masters \cap Selected(r, d))) = 0
    OBVIOUS
  <2>1. masters = {}
    BY <1>2, FS_EmptySet
  <2>2. Ready(d, masters) = {} /\ Ready(d, masters \cap Selected(r, d)) = {}
    BY <2>1 DEF Ready
  <2> QED BY <2>2, FS_EmptySet
<1>11. RemainingReady(r, d, masters) \in Int
       /\ (Cardinality(masters) = 0 => RemainingReady(r, d, masters) = 0)
  BY <1>7, <1>8, <1>10 DEF RemainingReady
<1> QED BY <1>4, <1>5, <1>6, <1>9, <1>11 DEF d

\* A quorum that is shown as preserved is preserved in every cluster the
\* request takes a master from.
LEMMA ShownQuorumStays ==
  ASSUME Typed, NEW r \in Requests, QuorumShown(Impact(r, Collected(r)))
  PROVE  QuorumStays(r, Collected(r), Impact(r, Collected(r)))
<1> DEFINE d == Collected(r)
           imp == Impact(r, d)
           S == {c \in DOMAIN imp : imp[c].masterTotal > 0 /\ imp[c].hit # {}}
           spare == [c \in S |-> imp[c].masterAfter - imp[c].masterRequired]
           Spares == {spare[c] : c \in S}
<1>1. \A c \in DOMAIN imp :
        /\ imp[c].masterTotal \in Nat /\ imp[c].masterAfter \in Int /\ imp[c].masterRequired \in Int
        /\ imp[c].masterTotal = 0 => imp[c].masterAfter = 0 /\ imp[c].masterRequired = 0
        /\ imp[c].hit = {a \in DOMAIN d.loads : ClusterOf[a] = c} \cap Selected(r, d)
  BY ImpactCounts
<1>2. Selected(r, d) \subseteq DOMAIN d.loads
  <2> HIDE DEF d
  <2> QED BY DEF Selected
<1>3. IsFiniteSet(DOMAIN imp)
  <2> DEFINE sel == r.assignments \cup OnHost(d.target) \cup Rows({r.cluster})
             f == [a \in sel |-> ClusterOf[a]]
  <2>1. Selected(r, d) \subseteq sel /\ sel \subseteq Assignments
    <3>1. r.assignments \subseteq Assignments
      BY RequestAssumption
    <3> HIDE DEF d
    <3> QED BY <3>1 DEF Selected, OnHost, Rows
  <2>2. IsFiniteSet(sel)
    <3> HIDE DEF sel
    <3> QED BY <2>1, InventoryAssumption, FS_Subset
  <2>3. DOMAIN imp \subseteq {f[a] : a \in sel} \cup {r.cluster}
    <3> HIDE DEF d, sel
    <3>1. DOMAIN imp = {ClusterOf[a] : a \in Selected(r, d)} \cup (Clusters \cap {r.cluster})
      BY DEF Impact, AffectedClusters
    <3> QED BY <2>1, <3>1
  <2>4. DOMAIN f = sel
    OBVIOUS
  <2> HIDE DEF f, imp, sel
  <2>5. IsFiniteSet({f[a] : a \in sel})
    BY <2>2, <2>4, ImageFinite
  <2>6. IsFiniteSet({f[a] : a \in sel} \cup {r.cluster})
    BY <2>5, FS_AddElement
  <2> QED BY <2>3, <2>6, FS_Subset
<1> HIDE DEF imp, d
<1>4. IsFiniteSet(S)
  BY <1>3, FS_Subset
<1>5. Spares \subseteq Int
  <2>1. \A c \in S : spare[c] \in Int
    BY <1>1
  <2> HIDE DEF S, spare
  <2> QED BY <2>1
<1>6. IsFiniteSet(Spares)
  <2>1. DOMAIN spare = S
    OBVIOUS
  <2> HIDE DEF spare, S
  <2> QED BY <1>4, <2>1, ImageFinite
<1>7. S = {} \/ Min(Spares) >= 0
  <2>1. {imp[c].masterAfter - imp[c].masterRequired : c \in S} = Spares
    OBVIOUS
  <2>2. S = {} \/ Min({imp[c].masterAfter - imp[c].masterRequired : c \in S}) >= 0
    BY DEF QuorumShown, imp, d
  <2> QED BY <2>1, <2>2
<1>8. ASSUME NEW c \in DOMAIN imp,
             NEW a \in Selected(r, d), ClusterOf[a] = c, RoleOf[a] = "master"
      PROVE  imp[c].masterAfter >= imp[c].masterRequired
  <2>1. a \in imp[c].hit
    BY <1>1, <1>2, <1>8
  <2>2. CASE imp[c].masterTotal = 0
    BY <1>1, <2>2
  <2>3. CASE imp[c].masterTotal # 0
    <3>1. c \in S /\ imp[c].masterAfter - imp[c].masterRequired \in Spares
      <4>1. imp[c].masterTotal > 0
        BY <1>1, <2>3
      <4>2. c \in S
        BY <2>1, <4>1
      <4>3. spare[c] = imp[c].masterAfter - imp[c].masterRequired
        BY <4>2
      <4> HIDE DEF spare, S
      <4> QED BY <4>2, <4>3
    <3> HIDE DEF S, Spares
    <3>2. Min(Spares) \in Spares /\ \A y \in Spares : Min(Spares) <= y
      BY <1>5, <1>6, <3>1, MinOfFinite
    <3>3. Min(Spares) \in Int /\ Min(Spares) >= 0
      BY <1>5, <1>7, <3>1, <3>2
    <3>4. imp[c].masterAfter \in Int /\ imp[c].masterRequired \in Int
      BY <1>1
    <3> QED BY <3>1, <3>2, <3>3, <3>4
  <2> QED BY <2>2, <2>3
<1> QED BY <1>8 DEF QuorumStays, imp, d

\* An endpoint that is shown as degraded by a reboot has another instance up.
LEMMA ShownDegradedStays ==
  ASSUME Typed, NEW r \in Requests, Operation(r) = "reboot",
         NEW a \in ShownDegraded(Impact(r, Collected(r))), load[a].running, ~load[a].error
  PROVE  \E b \in UpElsewhere(Rows({ClusterOf[a]}), r.node) : RoleOf[b] = RoleOf[a]
<1> DEFINE d == Collected(r)
           imp == Impact(r, d)
<1>1. PICK c \in DOMAIN imp : a \in imp[c].hit
  BY DEF ShownDegraded
<1>2. c \in ClustersOn(r.node)
  <2>1. AffectedClusters(r, d) = ClustersOn(r.node)
    BY RebootScope
  <2> HIDE DEF d
  <2> QED BY <2>1 DEF Impact
<1>3. /\ imp[c] = ClusterImpact(r, d, c, policy[c].value)
      /\ Rows({c}) \subseteq Rows(ClustersOn(r.node))
      /\ {b \in DOMAIN d.loads : ClusterOf[b] = c} = Rows({c})
  BY <1>2, RebootImpact
<1>4. a \in Rows({c}) \cap Selected(r, d)
  <2> HIDE DEF d
  <2>1. imp[c].hit = {b \in DOMAIN d.loads : ClusterOf[b] = c} \cap Selected(r, d)
    BY <1>3 DEF ClusterImpact
  <2> QED BY <1>1, <1>3, <2>1
<1>5. ClusterOf[a] = c
  BY <1>4 DEF Rows
<1> DEFINE x == RoleOf[a]
           W == {b \in Rows({c}) : RoleOf[b] = x}
<1>6. x \in EndpointRoles /\ x \notin imp[c].lost
  BY <1>5 DEF ShownDegraded
<1>7. /\ RemainingReady(r, d, W) = Cardinality(UpElsewhere(W, r.node))
      /\ Ready(d, Rows({c})) = {b \in Rows({c}) : load[b].running /\ ~load[b].error}
  <2>1. W \subseteq Rows(ClustersOn(r.node))
    BY <1>3
  <2> HIDE DEF W
  <2> QED BY <1>3, <2>1, RebootCounts DEF UpElsewhere
<1>8. a \in Ready(d, (Rows({c}) \cap Selected(r, d)) \cap W)
  <2>1. d.loads[a].ready
    BY <1>4, <1>7 DEF Ready
  <2> HIDE DEF d
  <2> QED BY <1>4, <2>1 DEF Ready
<1>9. RemainingReady(r, d, W) # 0
  <2> HIDE DEF d
  <2> DEFINE wl == {b \in DOMAIN d.loads : ClusterOf[b] = c}
             V == {b \in wl : RoleOf[b] = x}
  <2>1. wl = Rows({c}) /\ V = W
    BY <1>3
  <2>2. (Ready(d, (wl \cap Selected(r, d)) \cap V) # {} /\ RemainingReady(r, d, V) = 0)
          => x \in ClusterImpact(r, d, c, policy[c].value).lost
    BY <1>6 DEF ClusterImpact
  <2> HIDE DEF wl, V, W, x
  <2> QED BY <1>3, <1>6, <1>8, <2>1, <2>2
<1>10. UpElsewhere(W, r.node) # {}
  BY <1>7, <1>9, FS_EmptySet
<1>11. PICK b \in UpElsewhere(W, r.node) : TRUE
  BY <1>10
<1>12. b \in UpElsewhere(Rows({c}), r.node) /\ RoleOf[b] = RoleOf[a]
  BY <1>11 DEF UpElsewhere
<1> QED BY <1>5, <1>12

-----------------------------------------------------------------------------
\* The inductive invariant: nearly everything a plan promises is fixed when its
\* row is written.

PlanFields ==
  {"state", "request", "target", "data", "impact", "blocked", "maxAge", "expires",
   "revisions", "policies", "startedAt", "startedUnder", "world"}

\* A row is complete.
RowOK ==
  /\ plan.state \in {"absent", "ready", "blocked", "running"}
  /\ plan.state # "absent" => DOMAIN plan = PlanFields /\ plan.request \in Requests

\* Policies move on: a revision that is still the plan's is still its policy.
PoliciesSince ==
  plan.state # "absent" => \A c \in Clusters :
    /\ plan.world.policy[c].revision \in Nat
    /\ plan.world.policy[c].revision <= policy[c].revision
    /\ plan.world.policy[c].revision = policy[c].revision => plan.world.policy[c] = policy[c]

\* The manifest of a host maintenance and of the reboot route names the
\* assignments of its host, and the latter the policies of its clusters.
ManifestNames ==
  plan.state # "absent" =>
    /\ NamesAssignments =>
         /\ OnHost(plan.target) \subseteq DOMAIN plan.revisions
         /\ \A a \in OnHost(plan.target) : plan.revisions[a] = plan.world.load[a].revision
    /\ plan.request.route = "host" =>
         /\ ClustersOn(plan.target) \subseteq DOMAIN plan.policies
         /\ \A c \in ClustersOn(plan.target) : plan.policies[c] = plan.world.policy[c].revision

\* What is shown, as it was decided when the row was written.
ShownAsDecided ==
  plan.state # "absent" =>
    /\ QuorumShown(plan.impact) => "MasterQuorum" \notin plan.blocked
    /\ Operation(plan.request) = "reboot" =>
         /\ \A a \in ShownDegraded(plan.impact) :
              Up(a) => \E b \in Stays(Rows({ClusterOf[a]})) : RoleOf[b] = RoleOf[a]
         /\ "FreshRuntimeObservation" \notin plan.blocked =>
              \A h \in DOMAIN plan.data.hosts : plan.world.node[h].at >= 0

\* Whoever was answered by the reboot route was answered with a plan.
AnswerOK == answer.route = "host" => plan.state # "absent" /\ plan.target = answer.node

PlanningInv ==
  /\ Typed
  /\ RowOK
  /\ PoliciesSince
  /\ ManifestNames
  /\ ShownAsDecided
  /\ AnswerOK
  /\ AvailabilityKept
  /\ EvidenceObserved
  /\ StartedAsPlanned

\* The row that a preview writes.
LEMMA NewRow ==
  ASSUME NEW r, plan' = HostPreview(r) \/ plan' = GenericPreview(r)
  PROVE  LET d == Collected(r)
             p == EffectivePolicy(PolicyClusters(r, d))
             imp == Impact(r, d)
         IN  /\ DOMAIN plan' = PlanFields
             /\ plan'.state \in {"ready", "blocked"}
             /\ plan'.state = "ready" => plan'.blocked = {}
             /\ plan'.request = r /\ plan'.target = d.target /\ plan'.data = d
             /\ plan'.impact = imp /\ plan'.blocked = Blocked(r, d, p, imp)
             /\ plan'.maxAge = p.maxAge
             /\ plan'.world.node = node /\ plan'.world.load = load
             /\ plan'.world.cluster = cluster /\ plan'.world.policy = policy
<1> DEFINE d == Collected(r)
           p == EffectivePolicy(PolicyClusters(r, d))
           imp == Impact(r, d)
<1>1. ASSUME NEW complete, NEW revisions, NEW policies,
             plan' = CompilePlan(r, d, complete, revisions, policies)
      PROVE  /\ DOMAIN plan' = PlanFields
             /\ plan'.state \in {"ready", "blocked"}
             /\ plan'.state = "ready" => plan'.blocked = {}
             /\ plan'.request = r /\ plan'.target = d.target /\ plan'.data = d
             /\ plan'.impact = imp /\ plan'.blocked = Blocked(r, d, p, imp)
             /\ plan'.maxAge = p.maxAge
             /\ plan'.world.node = node /\ plan'.world.load = load
             /\ plan'.world.cluster = cluster /\ plan'.world.policy = policy
  <2> HIDE DEF d
  <2>1. CompilePlan(r, d, complete, revisions, policies) =
          [state |-> IF Blocked(r, d, p, imp) = {} /\ complete THEN "ready" ELSE "blocked",
           request |-> r, target |-> d.target, data |-> d, impact |-> imp,
           blocked |-> Blocked(r, d, p, imp), maxAge |-> p.maxAge, expires |-> now + p.validity,
           revisions |-> revisions, policies |-> policies,
           startedAt |-> now, startedUnder |-> [load |-> load, policy |-> policy],
           world |-> [node |-> node, load |-> load, cluster |-> cluster, policy |-> policy]]
    BY DEF CompilePlan
  <2> HIDE DEF p, imp
  <2> QED BY <1>1, <2>1 DEF PlanFields
<1>2. CASE plan' = HostPreview(r)
  <2>1. plan' = CompilePlan(r, d, TRUE, Revisions(Selected(r, d)),
                  [c \in PolicyClusters(r, d) |-> policy[c].revision])
    BY <1>2 DEF HostPreview
  <2> HIDE DEF d, p, imp
  <2>2. /\ DOMAIN plan' = PlanFields
        /\ plan'.state \in {"ready", "blocked"}
        /\ plan'.state = "ready" => plan'.blocked = {}
        /\ plan'.request = r /\ plan'.target = d.target /\ plan'.data = d
        /\ plan'.impact = imp /\ plan'.blocked = Blocked(r, d, p, imp)
        /\ plan'.maxAge = p.maxAge
        /\ plan'.world.node = node /\ plan'.world.load = load
        /\ plan'.world.cluster = cluster /\ plan'.world.policy = policy
    BY <1>1, <2>1
  <2> QED BY <2>2 DEF d, p, imp
<1>3. CASE plan' = GenericPreview(r)
  <2>1. plan' = CompilePlan(r, d, d.returns,
                  Revisions(IF r.op = "host_maintenance"
                            THEN Selected(r, d) ELSE r.assignments), <<>>)
    BY <1>3 DEF GenericPreview
  <2> HIDE DEF d, p, imp
  <2>2. /\ DOMAIN plan' = PlanFields
        /\ plan'.state \in {"ready", "blocked"}
        /\ plan'.state = "ready" => plan'.blocked = {}
        /\ plan'.request = r /\ plan'.target = d.target /\ plan'.data = d
        /\ plan'.impact = imp /\ plan'.blocked = Blocked(r, d, p, imp)
        /\ plan'.maxAge = p.maxAge
        /\ plan'.world.node = node /\ plan'.world.load = load
        /\ plan'.world.cluster = cluster /\ plan'.world.policy = policy
    BY <1>1, <2>1
  <2> QED BY <2>2 DEF d, p, imp
<1> QED BY <1>2, <1>3

\* A reboot that is written as ready leaves every cluster able to work.
LEMMA NewRowAvailable ==
  ASSUME Typed, NEW r \in Requests, plan' = HostPreview(r) \/ plan' = GenericPreview(r)
  PROVE  AvailabilityKept'
<1> DEFINE d == Collected(r)
           p == EffectivePolicy(PolicyClusters(r, d))
           imp == Impact(r, d)
<1>1. CASE ~RebootPlanned'
  BY <1>1 DEF AvailabilityKept, QuorumKept, BudgetKept, ShardEvidence
<1>2. CASE RebootPlanned'
  <2>1. /\ plan'.state \in {"ready", "blocked"} /\ (plan'.state = "ready" => plan'.blocked = {})
        /\ plan'.request = r /\ plan'.target = d.target
        /\ plan'.blocked = Blocked(r, d, p, imp)
        /\ plan'.world.load = load /\ plan'.world.cluster = cluster
        /\ plan'.world.policy = policy
    BY NewRow
  <2>2. Operation(r) = "reboot" /\ Blocked(r, d, p, imp) = {}
    <3> HIDE DEF d, p, imp
    <3> QED BY <1>2, <2>1 DEF RebootPlanned, Planned
  <2>3. plan'.target = r.node
    BY <2>1, <2>2, RebootCollected
  <2>4. /\ \A S : Stays(S)' = UpElsewhere(S, r.node)
        /\ \A c : PolicyOf(c)' = policy[c].value
        /\ Going' = OnHost(r.node)
    <3> HIDE DEF d, p, imp
    <3> QED BY <2>1, <2>3 DEF Stays, Up, Going, UpElsewhere, PolicyOf
  <2>5. /\ QuorumStays(r, d, imp)
        /\ \A c \in DOMAIN imp : ~imp[c].overBudget
        /\ SourcesOk(d) /\ FreshAges(EvidenceTimes(r, d, DOMAIN imp), p.maxAge)
    BY <2>2, NotBlocked
  <2>6. QuorumKept'
    <3>1. \A c \in Clusters :
            LET M == {a \in Rows({c}) : RoleOf[a] = "master"}
            IN  M \cap OnHost(r.node) # {} =>
                  IF policy[c].value.masters = "quorum"
                  THEN 2 * Cardinality(UpElsewhere(M, r.node)) > Cardinality(M)
                  ELSE Cardinality(UpElsewhere(M, r.node)) >= policy[c].value.masterCount
      BY <2>2, <2>5, RebootQuorum
    <3> QED BY <2>4, <3>1 DEF QuorumKept
  <2>7. BudgetKept'
    <3>1. ASSUME NEW c \in ClustersOn(r.node)
          PROVE  LET role(x) == {a \in Rows({c}) : RoleOf[a] = x}
                     tier(x) == {a \in Rows({c}) : x \in DataTiers(RoleOf[a])}
                 IN  /\ Cardinality(Rows({c})) - Cardinality(UpElsewhere(Rows({c}), r.node))
                          <= policy[c].value.maxUnavailable
                     /\ \A x \in ServiceRoles : role(x) \cap OnHost(r.node) # {} =>
                          Cardinality(UpElsewhere(role(x), r.node)) >= policy[c].value.services
                     /\ \A x \in {"content", "hot", "warm"} : tier(x) \cap OnHost(r.node) # {} =>
                          Cardinality(UpElsewhere(tier(x), r.node)) >= policy[c].value.dataPerTier
      <4>1. ~imp[c].overBudget
        BY <2>2, <2>5, <3>1, RebootImpact
      <4> QED BY <2>2, <3>1, <4>1, RebootBudget
    <3>2. {ClusterOf[a] : a \in Going'} = ClustersOn(r.node)
      BY <2>4 DEF ClustersOn
    <3> QED BY <2>4, <3>1, <3>2 DEF BudgetKept
  <2>8. ShardEvidence'
    <3>1. ASSUME NEW c \in DataClusters(r.node)
          PROVE  /\ cluster[c].otherCopies /\ cluster[c].promotable /\ cluster[c].diskFree
                 /\ ~cluster[c].moving /\ ~cluster[c].shutdown /\ cluster[c].identity = "match"
      BY <2>2, <3>1, RebootShards
    <3>2. \A c \in DataClusters(r.node) : cluster[c].shardsSeen
      <4>1. p.maxAge \in Nat /\ DOMAIN imp = ClustersOn(r.node)
        <5>1. /\ PolicyClusters(r, d) \subseteq Clusters
              /\ AffectedClusters(r, d) = ClustersOn(r.node)
          BY <2>2, RebootScope
        <5> HIDE DEF d
        <5> QED BY <5>1, EffectiveAge DEF Impact
      <4> HIDE DEF p, imp
      <4> QED BY <2>2, <2>5, <4>1, RebootFresh
    <3> QED BY <2>1, <2>3, <3>1, <3>2 DEF ShardEvidence
  <2> QED BY <2>6, <2>7, <2>8 DEF AvailabilityKept
<1> QED BY <1>1, <1>2

\* A reboot that is written as ready rests on evidence of the age it allows,
\* and what is shown of it is no better than what was decided.
LEMMA NewRowTruthful ==
  ASSUME Typed, NEW r \in Requests, plan' = HostPreview(r) \/ plan' = GenericPreview(r)
  PROVE  EvidenceObserved' /\ ShownAsDecided'
<1> DEFINE d == Collected(r)
           h == r.node
           S == ClustersOn(h)
           p == EffectivePolicy(PolicyClusters(r, d))
           imp == Impact(r, d)
<1>1. /\ plan'.state \in {"ready", "blocked"} /\ (plan'.state = "ready" => plan'.blocked = {})
      /\ plan'.request = r /\ plan'.target = d.target /\ plan'.data = d /\ plan'.impact = imp
      /\ plan'.blocked = Blocked(r, d, p, imp) /\ plan'.maxAge = p.maxAge
      /\ plan'.world.node = node /\ plan'.world.load = load
      /\ plan'.world.cluster = cluster /\ plan'.world.policy = policy
  BY NewRow
<1>2. ASSUME Operation(r) = "reboot"
      PROVE  /\ h \in Hosts /\ plan'.target = h /\ d.captured = now /\ DOMAIN imp = S
             /\ p.maxAge \in Nat /\ \A c \in S : p.maxAge <= policy[c].value.maxAge
             /\ \A c \in S : policy[c].value.maxAge \in Nat
             /\ DOMAIN d.hosts = {h} \cup {HostOf[a] : a \in Rows(S)}
             /\ S \subseteq Clusters
  <2>1. /\ PolicyClusters(r, d) = S /\ S \subseteq Clusters /\ AffectedClusters(r, d) = S
    BY <1>2, RebootScope
  <2>2. d.target = h /\ d.captured = now /\ DOMAIN d.hosts = {h} \cup {HostOf[a] : a \in Rows(S)}
    BY <1>2, RebootCollected
  <2>3. h \in Hosts
    BY <1>2, RebootAnchor
  <2> HIDE DEF d, h, S
  <2>4. DOMAIN imp = S
    BY <2>1 DEF Impact
  <2>5. /\ p.maxAge \in Nat /\ \A c \in S : p.maxAge <= policy[c].value.maxAge
    BY <2>1, EffectiveAge
  <2>6. \A c \in S : policy[c].value.maxAge \in Nat
    BY <2>1, PolicyOK
  <2> HIDE DEF imp, p
  <2> QED BY <1>1, <2>1, <2>2, <2>3, <2>4, <2>5, <2>6
<1>3. ASSUME Operation(r) = "reboot", "FreshRuntimeObservation" \notin Blocked(r, d, p, imp)
      PROVE  /\ \A g \in {h} \cup {HostOf[a] : a \in Rows(S)} :
                  node[g].at >= 0 /\ ~node[g].error /\ now - node[g].at <= p.maxAge
             /\ \A a \in Rows(S) : load[a].at >= 0 /\ now - load[a].at <= p.maxAge
             /\ DataClusters(h) # {} => \A c \in S :
                  cluster[c].at >= 0 /\ ~cluster[c].error /\ now - cluster[c].at <= p.maxAge
  <2>1. SourcesOk(d) /\ FreshAges(EvidenceTimes(r, d, DOMAIN imp), p.maxAge)
    BY <1>3, NotBlocked
  <2>2. DOMAIN imp = S /\ p.maxAge \in Nat
    BY <1>2, <1>3
  <2> HIDE DEF p, imp
  <2>3. FreshAges(EvidenceTimes(r, d, S), p.maxAge)
    BY <2>1, <2>2
  <2> QED BY <1>3, <2>1, <2>2, <2>3, RebootFresh
<1>4. /\ now \in Int
      /\ \A g \in Hosts : node[g].at \in Int
      /\ \A a \in Assignments : load[a].at \in Int
      /\ \A c \in Clusters : cluster[c].at \in Int
  <2>1. Times \subseteq Int
    BY InventoryAssumption DEF Times, Missing, Invalid
  <2>2. /\ now \in Int /\ (\A g \in Hosts : node[g].at \in Times)
        /\ (\A a \in Assignments : load[a].at \in Times)
        /\ (\A c \in Clusters : cluster[c].at \in Times)
    BY DEF Typed, NodeRecords, LoadRecords, ClusterRecords
  <2> QED BY <2>1, <2>2
<1>5. {h} \cup {HostOf[a] : a \in Rows(S)} \subseteq Hosts \cup {h} /\ Rows(S) \subseteq Assignments
  BY InventoryAssumption DEF Rows
<1>6. EvidenceObserved'
  <2> SUFFICES ASSUME RebootPlanned' PROVE EvidenceObserved'
    BY DEF EvidenceObserved
  <2>1. Operation(r) = "reboot" /\ Blocked(r, d, p, imp) = {}
    <3> HIDE DEF d, p, imp
    <3> QED BY <1>1 DEF RebootPlanned, Planned
  <2> HIDE DEF d, p, imp, S, h
  <2>2. /\ h \in Hosts /\ plan'.target = h /\ d.captured = now /\ DOMAIN imp = S
        /\ p.maxAge \in Nat /\ (\A c \in S : p.maxAge <= policy[c].value.maxAge)
        /\ (\A c \in S : policy[c].value.maxAge \in Nat) /\ S \subseteq Clusters
    BY <1>2, <2>1
  <2>3. /\ \A g \in {h} \cup {HostOf[a] : a \in Rows(S)} :
             node[g].at >= 0 /\ ~node[g].error /\ now - node[g].at <= p.maxAge
        /\ \A a \in Rows(S) : load[a].at >= 0 /\ now - load[a].at <= p.maxAge
        /\ DataClusters(h) # {} => \A c \in S :
             cluster[c].at >= 0 /\ ~cluster[c].error /\ now - cluster[c].at <= p.maxAge
    BY <1>3, <2>1
  <2>4. \A t \in Int : now - t <= p.maxAge => \A c \in S : now - t <= policy[c].value.maxAge
    BY <1>4, <2>2
  <2>5. \A g \in {h} \cup {HostOf[a] : a \in Rows(S)} :
          node[g].at >= 0 /\ ~node[g].error /\ \A c \in S : now - node[g].at <= policy[c].value.maxAge
    BY <1>4, <1>5, <2>2, <2>3, <2>4
  <2>6. \A a \in Rows(S) :
          load[a].at >= 0 /\ \A c \in S : now - load[a].at <= policy[c].value.maxAge
    BY <1>4, <1>5, <2>3, <2>4
  <2>7. DataClusters(h) # {} => \A b \in S :
          /\ cluster[b].at >= 0 /\ ~cluster[b].error
          /\ \A c \in S : now - cluster[b].at <= policy[c].value.maxAge
    BY <1>4, <2>2, <2>3, <2>4
  <2>8. S = ClustersOn(h)
    BY DEF S
  <2> QED BY <1>1, <2>2, <2>5, <2>6, <2>7, <2>8 DEF EvidenceObserved, PolicyOf, Up
<1>7. ShownAsDecided'
  <2>1. QuorumShown(imp) => "MasterQuorum" \notin Blocked(r, d, p, imp)
    BY ShownQuorumStays, NotBlocked
  <2>2. ASSUME Operation(r) = "reboot", NEW a \in ShownDegraded(imp),
               load[a].running, ~load[a].error
        PROVE  \E b \in UpElsewhere(Rows({ClusterOf[a]}), h) : RoleOf[b] = RoleOf[a]
    BY <2>2, ShownDegradedStays
  <2> HIDE DEF d, p, imp, S, h
  <2>3. ASSUME Operation(r) = "reboot" PROVE \A W : Stays(W)' = UpElsewhere(W, h)
    <3>1. plan'.target = h
      BY <1>2, <2>3
    <3> QED BY <1>1, <3>1 DEF Stays, Up, Going, UpElsewhere
  <2>4. \A a : Up(a)' <=> load[a].running /\ ~load[a].error
    BY <1>1 DEF Up
  <2>5. ASSUME Operation(r) = "reboot", "FreshRuntimeObservation" \notin Blocked(r, d, p, imp)
        PROVE  \A g \in DOMAIN d.hosts : node[g].at >= 0
    BY <1>2, <1>3, <2>5
  <2>6. QuorumShown(plan'.impact) => "MasterQuorum" \notin plan'.blocked
    BY <1>1, <2>1
  <2>7. ASSUME Operation(r) = "reboot", NEW a \in ShownDegraded(plan'.impact), Up(a)'
        PROVE  \E b \in Stays(Rows({ClusterOf[a]}))' : RoleOf[b] = RoleOf[a]
    BY <1>1, <2>2, <2>3, <2>4, <2>7
  <2>8. ASSUME Operation(r) = "reboot", "FreshRuntimeObservation" \notin plan'.blocked
        PROVE  \A g \in DOMAIN plan'.data.hosts : plan'.world.node[g].at >= 0
    BY <1>1, <2>5, <2>8
  <2> QED BY <1>1, <2>6, <2>7, <2>8 DEF ShownAsDecided
<1> QED BY <1>6, <1>7

\* What a row promises hangs on what it was made of.
LEMMA RowKept ==
  ASSUME AvailabilityKept, EvidenceObserved, ShownAsDecided,
         plan.state # "absent", plan'.state # "absent", Planned' => Planned,
         plan'.request = plan.request, plan'.target = plan.target, plan'.world = plan.world,
         plan'.data = plan.data, plan'.impact = plan.impact, plan'.blocked = plan.blocked,
         plan'.maxAge = plan.maxAge
  PROVE  AvailabilityKept' /\ EvidenceObserved' /\ ShownAsDecided'
<1>1. RebootPlanned' => RebootPlanned
  BY DEF RebootPlanned
<1>2. /\ \A S : Stays(S)' = Stays(S)
      /\ \A c : PolicyOf(c)' = PolicyOf(c)
      /\ Going' = Going
      /\ \A a : Up(a)' <=> Up(a)
  BY DEF Stays, PolicyOf, Going, Up
<1>3. QuorumKept'
  BY <1>1, <1>2 DEF AvailabilityKept, QuorumKept
<1>4. BudgetKept'
  BY <1>1, <1>2 DEF AvailabilityKept, BudgetKept
<1>5. ShardEvidence'
  BY <1>1 DEF AvailabilityKept, ShardEvidence
<1>6. EvidenceObserved'
  BY <1>1, <1>2 DEF EvidenceObserved
<1>7. ShownAsDecided'
  BY <1>2 DEF ShownAsDecided
<1> QED BY <1>3, <1>4, <1>5, <1>6, <1>7 DEF AvailabilityKept

\* A step that leaves the plan and its answer alone, and policies only move on.
LEMMA PlanKept ==
  ASSUME PlanningInv, UNCHANGED <<plan, answer>>, Typed',
         \A c \in Clusters : policy'[c] = policy[c] \/ policy'[c].revision > policy[c].revision
  PROVE  PlanningInv'
<1>1. RowOK' /\ ManifestNames' /\ AnswerOK'
  BY DEF PlanningInv, RowOK, ManifestNames, NamesAssignments, AnswerOK
<1>2. AvailabilityKept' /\ EvidenceObserved' /\ ShownAsDecided'
  <2>1. CASE plan.state = "absent"
    BY <2>1 DEF AvailabilityKept, QuorumKept, BudgetKept, ShardEvidence, EvidenceObserved,
                ShownAsDecided, RebootPlanned, Planned
  <2>2. CASE plan.state # "absent"
    <3>1. Planned' => Planned
      BY DEF Planned
    <3> QED BY <2>2, <3>1, RowKept DEF PlanningInv
  <2> QED BY <2>1, <2>2
<1>3. StartedAsPlanned'
  BY DEF PlanningInv, StartedAsPlanned, Going, NamesAssignments
<1>5. PoliciesSince'
  <2> SUFFICES ASSUME plan.state # "absent", NEW c \in Clusters
               PROVE  /\ plan.world.policy[c].revision \in Nat
                      /\ plan.world.policy[c].revision <= policy'[c].revision
                      /\ plan.world.policy[c].revision = policy'[c].revision
                           => plan.world.policy[c] = policy'[c]
    BY DEF PoliciesSince
  <2>1. /\ plan.world.policy[c].revision \in Nat
        /\ plan.world.policy[c].revision <= policy[c].revision
        /\ plan.world.policy[c].revision = policy[c].revision => plan.world.policy[c] = policy[c]
    BY DEF PlanningInv, PoliciesSince
  <2>2. policy[c].revision \in Nat /\ policy'[c].revision \in Nat
    BY DEF PlanningInv, Typed
  <2>3. policy'[c] = policy[c] \/ policy'[c].revision > policy[c].revision
    OBVIOUS
  <2> QED BY <2>1, <2>2, <2>3
<1> QED BY <1>1, <1>2, <1>3, <1>5 DEF PlanningInv

\* The world changes within its types.
LEMMA WorldStep ==
  ASSUME Typed,
         \/ \E h \in Hosts : HostChanges(h) \/ ConflictStarts(h)
         \/ \E a \in Assignments : WorkloadChanges(a)
         \/ \E c \in Clusters : ClusterChanges(c) \/ \E p \in Policies : PutPolicy(c, p)
         \/ Collect \/ Tick
  PROVE  /\ Typed' /\ UNCHANGED <<plan, answer>>
         /\ \A c \in Clusters : policy'[c] = policy[c] \/ policy'[c].revision > policy[c].revision
<1>1. ASSUME Changes PROVE changes' \in 0..MaxChanges /\ UNCHANGED <<plan, answer, now>>
  BY <1>1, InventoryAssumption DEF Typed, Changes
<1>2. Missing \in Times /\ Invalid \in Times /\ now \in Times
  BY DEF Times, Typed
<1>3. ASSUME NEW h \in Hosts, HostChanges(h)
      PROVE  Typed' /\ UNCHANGED <<plan, answer>> /\ UNCHANGED policy
  <2>1. PICK n \in {[node[h] EXCEPT !.enabled = FALSE],
                    [node[h] EXCEPT !.initialized = FALSE],
                    [node[h] EXCEPT !.reachable = FALSE],
                    [node[h] EXCEPT !.error = TRUE],
                    [node[h] EXCEPT !.at = Missing],
                    [node[h] EXCEPT !.at = Invalid]}
                   \cup {[node[h] EXCEPT !.bound = @ \ {c}] : c \in Clusters} :
          node' = [node EXCEPT ![h] = n]
    BY <1>3 DEF HostChanges
  <2>2. node[h] \in NodeRecords
    BY DEF Typed
  <2>3. n \in NodeRecords
    BY <1>2, <2>1, <2>2 DEF NodeRecords
  <2>4. node' \in [Hosts -> NodeRecords]
    BY <2>1, <2>3 DEF Typed
  <2> QED BY <1>1, <1>3, <2>4 DEF HostChanges, Typed
<1>4. ASSUME NEW h \in Hosts, ConflictStarts(h)
      PROVE  Typed' /\ UNCHANGED <<plan, answer>> /\ UNCHANGED policy
  BY <1>1, <1>4 DEF ConflictStarts, Typed
<1>5. ASSUME NEW a \in Assignments, WorkloadChanges(a)
      PROVE  Typed' /\ UNCHANGED <<plan, answer>> /\ UNCHANGED policy
  <2>1. PICK w \in {[load[a] EXCEPT !.running = ~@],
                    [load[a] EXCEPT !.error = TRUE],
                    [load[a] EXCEPT !.named = FALSE],
                    [load[a] EXCEPT !.at = Missing],
                    [load[a] EXCEPT !.at = Invalid],
                    [load[a] EXCEPT !.revision = @ + 1]} :
          load' = [load EXCEPT ![a] = w]
    BY <1>5 DEF WorkloadChanges
  <2>2. load[a] \in LoadRecords
    BY DEF Typed
  <2>3. w \in LoadRecords
    <3>1. load[a].running \in BOOLEAN /\ load[a].revision + 1 \in Nat
      BY <2>2 DEF LoadRecords
    <3>2. [load[a] EXCEPT !.running = ~@] \in LoadRecords
      <4> DEFINE b == ~load[a].running
      <4>1. b \in BOOLEAN
        BY <3>1, Zenon
      <4> HIDE DEF b
      <4>2. [load[a] EXCEPT !.running = b] \in LoadRecords
        BY <2>2, <4>1 DEF LoadRecords
      <4> QED BY <4>2 DEF b
    <3>3. /\ [load[a] EXCEPT !.error = TRUE] \in LoadRecords
          /\ [load[a] EXCEPT !.named = FALSE] \in LoadRecords
          /\ [load[a] EXCEPT !.at = Missing] \in LoadRecords
          /\ [load[a] EXCEPT !.at = Invalid] \in LoadRecords
          /\ [load[a] EXCEPT !.revision = @ + 1] \in LoadRecords
      BY <1>2, <2>2, <3>1 DEF LoadRecords
    <3> QED BY <2>1, <3>2, <3>3
  <2>4. load' \in [Assignments -> LoadRecords]
    BY <2>1, <2>3 DEF Typed
  <2> QED BY <1>1, <1>5, <2>4 DEF WorkloadChanges, Typed
<1>6. ASSUME NEW c \in Clusters, ClusterChanges(c)
      PROVE  Typed' /\ UNCHANGED <<plan, answer>> /\ UNCHANGED policy
  <2>1. PICK s \in {[cluster[c] EXCEPT !.status = "yellow"],
                    [cluster[c] EXCEPT !.status = "unknown"],
                    [cluster[c] EXCEPT !.identity = "mismatch"],
                    [cluster[c] EXCEPT !.identity = "unpinned"],
                    [cluster[c] EXCEPT !.identity = "unseen"],
                    [cluster[c] EXCEPT !.error = TRUE],
                    [cluster[c] EXCEPT !.at = Missing],
                    [cluster[c] EXCEPT !.at = Invalid],
                    [cluster[c] EXCEPT !.moving = TRUE],
                    [cluster[c] EXCEPT !.shardsSeen = FALSE],
                    [cluster[c] EXCEPT !.otherCopies = FALSE],
                    [cluster[c] EXCEPT !.promotable = FALSE],
                    [cluster[c] EXCEPT !.diskFree = FALSE],
                    [cluster[c] EXCEPT !.shutdown = TRUE]} :
          cluster' = [cluster EXCEPT ![c] = s]
    BY <1>6 DEF ClusterChanges
  <2>2. cluster[c] \in ClusterRecords
    BY DEF Typed
  <2>3. s \in ClusterRecords
    BY <1>2, <2>1, <2>2, ZenonT(60) DEF ClusterRecords
  <2>4. cluster' \in [Clusters -> ClusterRecords]
    BY <2>1, <2>3 DEF Typed
  <2> QED BY <1>1, <1>6, <2>4 DEF ClusterChanges, Typed
<1>7. ASSUME NEW c \in Clusters, NEW p \in Policies, PutPolicy(c, p)
      PROVE  /\ Typed' /\ UNCHANGED <<plan, answer>>
             /\ \A b \in Clusters : policy'[b] = policy[b] \/ policy'[b].revision > policy[b].revision
  <2>1. policy' = [policy EXCEPT ![c] = [revision |-> policy[c].revision + 1, value |-> p]]
    BY <1>7 DEF PutPolicy, Typed
  <2>2. policy[c].revision \in Nat
    BY DEF Typed
  <2>3. policy' \in [Clusters -> [revision : Nat, value : Policies]]
    BY <2>1, <2>2 DEF Typed
  <2>4. \A b \in Clusters : policy'[b] = policy[b] \/ policy'[b].revision > policy[b].revision
    BY <2>1, <2>2 DEF Typed
  <2> QED BY <1>1, <1>7, <2>3, <2>4 DEF PutPolicy, Typed
<1>8. ASSUME Collect PROVE Typed' /\ UNCHANGED <<plan, answer>> /\ UNCHANGED policy
  <2>1. node' \in [Hosts -> NodeRecords]
    <3>1. \A h \in Hosts : node[h] \in NodeRecords /\ [node[h] EXCEPT !.at = now] \in NodeRecords
      BY <1>2 DEF Typed, NodeRecords
    <3>2. node' = [h \in Hosts |-> IF node[h].at >= 0 THEN [node[h] EXCEPT !.at = now] ELSE node[h]]
      BY <1>8 DEF Collect
    <3> QED BY <3>1, <3>2
  <2>2. load' \in [Assignments -> LoadRecords]
    <3>1. \A a \in Assignments : load[a] \in LoadRecords /\ [load[a] EXCEPT !.at = now] \in LoadRecords
      BY <1>2 DEF Typed, LoadRecords
    <3>2. load' = [a \in Assignments |-> IF load[a].at >= 0 THEN [load[a] EXCEPT !.at = now] ELSE load[a]]
      BY <1>8 DEF Collect
    <3> QED BY <3>1, <3>2
  <2>3. cluster' \in [Clusters -> ClusterRecords]
    <3>1. \A c \in Clusters : cluster[c] \in ClusterRecords /\ [cluster[c] EXCEPT !.at = now] \in ClusterRecords
      BY <1>2 DEF Typed, ClusterRecords
    <3>2. cluster' = [c \in Clusters |-> IF cluster[c].at >= 0 THEN [cluster[c] EXCEPT !.at = now] ELSE cluster[c]]
      BY <1>8 DEF Collect
    <3> QED BY <3>1, <3>2
  <2> QED BY <1>8, <2>1, <2>2, <2>3 DEF Collect, Typed
<1>9. ASSUME Tick PROVE Typed' /\ UNCHANGED <<plan, answer>> /\ UNCHANGED policy
  <2>1. now' \in 0..MaxNow
    BY <1>9, InventoryAssumption DEF Tick, Typed
  <2> QED BY <1>9, <2>1 DEF Tick, Typed
<1> QED BY <1>3, <1>4, <1>5, <1>6, <1>7, <1>8, <1>9

\* A preview answers with the plan that has the key or writes its row.
LEMMA PreviewStep ==
  ASSUME PlanningInv, NEW r \in Requests, CreateHostPlan(r) \/ CreatePreview(r)
  PROVE  PlanningInv'
<1>1. /\ answer' = r
      /\ UNCHANGED <<node, load, cluster, policy, busy, changes, now>>
      /\ \/ /\ plan.state = "absent"
            /\ \/ r.route = "host" /\ plan' = HostPreview(r)
               \/ r.route = "generic" /\ plan' = GenericPreview(r)
         \/ /\ plan.state # "absent" /\ UNCHANGED plan
            /\ r.route = "host" => SameHostRequest(r)
  BY DEF CreateHostPlan, CreatePreview, AnswerWith
<1>2. Typed'
  BY <1>1 DEF PlanningInv, Typed
<1>3. CASE plan.state # "absent" /\ UNCHANGED plan /\ (r.route = "host" => SameHostRequest(r))
  <2>1. AnswerOK'
    BY <1>1, <1>3 DEF AnswerOK, SameHostRequest
  <2>2. Planned' => Planned
    BY <1>3 DEF Planned
  <2>3. AvailabilityKept' /\ EvidenceObserved' /\ ShownAsDecided'
    BY <1>3, <2>2, RowKept DEF PlanningInv
  <2>4. RowOK' /\ ManifestNames' /\ PoliciesSince' /\ StartedAsPlanned'
    BY <1>1, <1>3 DEF PlanningInv, RowOK, ManifestNames, NamesAssignments, PoliciesSince,
                      StartedAsPlanned, Going
  <2> QED BY <1>2, <2>1, <2>3, <2>4 DEF PlanningInv
<1>4. CASE \/ r.route = "host" /\ plan' = HostPreview(r)
           \/ r.route = "generic" /\ plan' = GenericPreview(r)
  <2> DEFINE d == Collected(r)
  <2>1. Typed
    BY DEF PlanningInv
  <2>2. /\ DOMAIN plan' = PlanFields /\ plan'.state \in {"ready", "blocked"}
        /\ plan'.request = r /\ plan'.target = d.target /\ plan'.world.policy = policy
        /\ plan'.world.load = load
    BY <1>4, NewRow
  <2>3. AvailabilityKept'
    BY <1>4, <2>1, NewRowAvailable
  <2>4. EvidenceObserved' /\ ShownAsDecided'
    BY <1>4, <2>1, NewRowTruthful
  <2>5. RowOK' /\ StartedAsPlanned'
    <3> HIDE DEF d
    <3> QED BY <2>2 DEF RowOK, StartedAsPlanned
  <2>6. PoliciesSince'
    <3>1. \A c \in Clusters : policy[c].revision \in Nat
      BY <2>1, PolicyOK
    <3> HIDE DEF d
    <3> QED BY <1>1, <2>2, <3>1 DEF PoliciesSince
  <2>7. ASSUME r.route = "host"
        PROVE  /\ Operation(r) = "reboot" /\ plan'.target = r.node
               /\ plan'.policies = [c \in ClustersOn(r.node) |-> policy[c].revision]
    <3>1. r.op = "reboot"
      BY <2>7, RequestAssumption
    <3>2. Operation(r) = "reboot"
      BY <3>1 DEF Operation
    <3>3. d.target = r.node
      BY <2>1, <3>2, RebootCollected
    <3>4. PolicyClusters(r, d) = ClustersOn(r.node)
      BY <2>1, <3>2, RebootScope
    <3>5. plan' = HostPreview(r)
      BY <1>4, <2>7
    <3>6. HostPreview(r).policies = [c \in PolicyClusters(r, d) |-> policy[c].revision]
      <4> HIDE DEF d
      <4> QED BY DEF HostPreview, CompilePlan, d
    <3> HIDE DEF d
    <3> QED BY <2>2, <3>2, <3>3, <3>4, <3>5, <3>6
  <2>10. ASSUME r.route = "host" \/ r.op = "host_maintenance"
         PROVE  /\ OnHost(d.target) \subseteq DOMAIN plan'.revisions
                /\ \A a \in OnHost(d.target) : plan'.revisions[a] = load[a].revision
    <3>0. Operation(r) = "reboot"
      BY <2>10, RequestAssumption DEF Operation
    <3>1. d.target = r.node /\ Selected(r, d) = OnHost(r.node)
      BY <2>1, <3>0, RebootCollected, RebootScope
    <3>2. plan'.revisions = Revisions(Selected(r, d))
      <4>1. CASE plan' = HostPreview(r)
        <5> HIDE DEF d
        <5> QED BY <4>1 DEF HostPreview, CompilePlan, d
      <4>2. CASE plan' = GenericPreview(r) /\ r.op = "host_maintenance"
        <5> HIDE DEF d
        <5> QED BY <4>2 DEF GenericPreview, CompilePlan, d
      <4> QED BY <1>4, <2>10, <4>1, <4>2
    <3> HIDE DEF d
    <3> QED BY <3>1, <3>2 DEF Revisions
  <2> HIDE DEF d
  <2>8. ManifestNames'
    BY <2>2, <2>7, <2>10 DEF ManifestNames, NamesAssignments
  <2>9. AnswerOK'
    BY <1>1, <2>2, <2>7 DEF AnswerOK
  <2> QED BY <1>2, <2>3, <2>4, <2>5, <2>6, <2>8, <2>9 DEF PlanningInv
<1> QED BY <1>1, <1>3, <1>4

\* A start finds the assignments and the policies it was planned with.
LEMMA ExecuteStep ==
  ASSUME PlanningInv, Execute
  PROVE  PlanningInv'
<1>1. /\ plan.state = "ready" /\ Operation(plan.request) = "reboot"
      /\ now - plan.data.captured <= plan.maxAge
      /\ \A c \in DOMAIN plan.policies : policy[c].revision = plan.policies[c]
      /\ \A a \in DOMAIN plan.revisions : load[a].revision = plan.revisions[a]
      /\ plan' = [plan EXCEPT !.state = "running", !.startedAt = now,
                               !.startedUnder = [load |-> load, policy |-> policy]]
      /\ UNCHANGED <<node, load, cluster, policy, busy, answer, changes, now>>
  BY DEF Execute, Executable
<1>2. DOMAIN plan = PlanFields /\ plan.request \in Requests
  BY <1>1 DEF PlanningInv, RowOK
<1>3. /\ DOMAIN plan' = PlanFields /\ plan'.state = "running"
      /\ plan'.startedAt = now /\ plan'.startedUnder = [load |-> load, policy |-> policy]
      /\ plan'.request = plan.request /\ plan'.target = plan.target /\ plan'.world = plan.world
      /\ plan'.data = plan.data /\ plan'.impact = plan.impact /\ plan'.blocked = plan.blocked
      /\ plan'.maxAge = plan.maxAge /\ plan'.policies = plan.policies
      /\ plan'.revisions = plan.revisions
  BY <1>1, <1>2 DEF PlanFields
<1>4. Typed'
  BY <1>1 DEF PlanningInv, Typed
<1>5. RowOK' /\ ManifestNames' /\ PoliciesSince' /\ AnswerOK'
  BY <1>1, <1>2, <1>3 DEF PlanningInv, RowOK, ManifestNames, NamesAssignments, PoliciesSince, AnswerOK
<1>6. AvailabilityKept' /\ EvidenceObserved' /\ ShownAsDecided'
  <2>1. Planned
    BY <1>1 DEF Planned
  <2> QED BY <1>1, <1>3, <2>1, RowKept DEF PlanningInv
<1>7. StartedAsPlanned'
  <2>1. ASSUME plan.request.route = "host", NEW c \in ClustersOn(plan.target)
        PROVE  policy[c] = plan.world.policy[c]
    <3>1. c \in DOMAIN plan.policies /\ plan.policies[c] = plan.world.policy[c].revision
      BY <1>1, <2>1 DEF PlanningInv, ManifestNames
    <3>2. c \in Clusters
      BY <2>1, InventoryAssumption DEF ClustersOn, OnHost
    <3> QED BY <1>1, <3>1, <3>2 DEF PlanningInv, PoliciesSince
  <2>2. ASSUME NamesAssignments, NEW a \in OnHost(plan.target)
        PROVE  load[a].revision = plan.world.load[a].revision
    BY <1>1, <2>2 DEF PlanningInv, ManifestNames
  <2> QED BY <1>3, <2>1, <2>2 DEF StartedAsPlanned, Going, NamesAssignments
<1> QED BY <1>4, <1>5, <1>6, <1>7 DEF PlanningInv

\* The invariant is inductive.
LEMMA PlanningHolds == Spec => []PlanningInv
<1>1. Init => PlanningInv
  <2> SUFFICES ASSUME Init PROVE PlanningInv
    OBVIOUS
  <2>1. plan.state = "absent" /\ answer.route = "none"
    BY DEF Init, NoPlan, NoRequest
  <2>2. 0 \in Times
    BY InventoryAssumption DEF Times
  <2>3. node \in [Hosts -> NodeRecords]
    BY <2>2 DEF Init, NodeRecords
  <2>4. load \in [Assignments -> LoadRecords]
    <3>1. PICK D \in StartsDown : load = [a \in Assignments |->
            [running |-> a \notin D, error |-> FALSE, named |-> TRUE, at |-> 0, revision |-> 1]]
      BY DEF Init
    <3> QED BY <2>2, <3>1 DEF LoadRecords
  <2>5. cluster \in [Clusters -> ClusterRecords]
    BY <2>2 DEF Init, ClusterRecords
  <2>6. policy \in [Clusters -> [revision : Nat, value : Policies]]
    BY InventoryAssumption DEF Init
  <2>7. busy \subseteq Hosts /\ changes \in 0..MaxChanges /\ now \in 0..MaxNow
    BY InventoryAssumption DEF Init
  <2>8. RowOK /\ PoliciesSince /\ ManifestNames /\ ShownAsDecided /\ AnswerOK
    BY <2>1 DEF RowOK, PoliciesSince, ManifestNames, ShownAsDecided, AnswerOK
  <2>9. AvailabilityKept /\ EvidenceObserved /\ StartedAsPlanned
    BY <2>1 DEF AvailabilityKept, QuorumKept, BudgetKept, ShardEvidence, EvidenceObserved,
                StartedAsPlanned, RebootPlanned, Planned
  <2> QED BY <2>3, <2>4, <2>5, <2>6, <2>7, <2>8, <2>9 DEF PlanningInv, Typed
<1>2. PlanningInv /\ [Next]_vars => PlanningInv'
  <2> SUFFICES ASSUME PlanningInv, [Next]_vars PROVE PlanningInv'
    OBVIOUS
  <2>1. CASE \/ \E h \in Hosts : HostChanges(h) \/ ConflictStarts(h)
             \/ \E a \in Assignments : WorkloadChanges(a)
             \/ \E c \in Clusters : ClusterChanges(c) \/ \E p \in Policies : PutPolicy(c, p)
             \/ Collect \/ Tick
    <3>1. Typed
      BY DEF PlanningInv
    <3>2. /\ Typed' /\ UNCHANGED <<plan, answer>>
          /\ \A c \in Clusters : policy'[c] = policy[c] \/ policy'[c].revision > policy[c].revision
      BY <2>1, <3>1, WorldStep
    <3> QED BY <3>2, PlanKept
  <2>2. ASSUME NEW r \in Requests, CreateHostPlan(r) \/ CreatePreview(r) PROVE PlanningInv'
    BY <2>2, PreviewStep
  <2>3. CASE Execute
    BY <2>3, ExecuteStep
  <2>4. CASE UNCHANGED vars
    <3>1. Typed' /\ UNCHANGED <<plan, answer>> /\ UNCHANGED policy
      BY <2>4 DEF PlanningInv, Typed, vars
    <3> QED BY <3>1, PlanKept
  <2> QED BY <2>1, <2>2, <2>3, <2>4 DEF Next
<1> QED BY <1>1, <1>2, PTL DEF Spec

\* A reboot that is planned leaves every cluster it touches its masters, the
\* services and tiers its policy asks for, and safe copies of its shards,
\* whatever was observed when the plan was made (safety.py, service.py).
THEOREM RebootsKeepAvailability == Spec => []AvailabilityKept
<1>1. PlanningInv => AvailabilityKept
  BY DEF PlanningInv
<1> QED BY <1>1, PlanningHolds, PTL

\* A planned reboot relies on observations that were really made, without an
\* error, and are no older than any affected policy allows (observation.py).
THEOREM EvidenceIsObserved == Spec => []EvidenceObserved
<1>1. PlanningInv => EvidenceObserved
  BY DEF PlanningInv
<1> QED BY <1>1, PlanningHolds, PTL

\* A plan starts over the assignments it was planned over, unedited, and one of
\* the reboot route under the policies it was planned under (execution.py,
\* _validate_current_revisions).
THEOREM StartsAsPlanned == Spec => []StartedAsPlanned
<1>1. PlanningInv => StartedAsPlanned
  BY DEF PlanningInv
<1> QED BY <1>1, PlanningHolds, PTL

\* The reboot route answers with a plan of the host it was asked about, and
\* what the operator is shown is no better than what was decided.
THEOREM AnswersAreTrue == Spec => []AnswerTruthful
<1>1. PlanningInv => AnswerTruthful
  <2> SUFFICES ASSUME PlanningInv PROVE AnswerTruthful
    OBVIOUS
  <2>1. TypeOK
    <3>1. /\ node \in [Hosts -> NodeRecords] /\ load \in [Assignments -> LoadRecords]
          /\ cluster \in [Clusters -> ClusterRecords]
          /\ policy \in [Clusters -> [revision : Nat, value : Policies]]
          /\ busy \subseteq Hosts /\ changes \in 0..MaxChanges /\ now \in 0..MaxNow
          /\ plan.state \in {"absent", "ready", "blocked", "running"}
      BY DEF PlanningInv, Typed, RowOK
    <3>2. \A c \in Clusters : policy[c].value \in Policies /\ cluster[c].at \in Times
      BY <3>1 DEF ClusterRecords
    <3> QED BY <3>1, <3>2 DEF TypeOK, NodeRecords, LoadRecords
  <2>2. AnswerNamesHost
    BY DEF PlanningInv, AnswerOK, AnswerNamesHost
  <2>3. ViewTruthful
    <3>1. FreshnessShown = "fresh" => "FreshRuntimeObservation" \notin plan.blocked
      BY DEF FreshnessShown
    <3> QED BY <3>1 DEF PlanningInv, ShownAsDecided, ViewTruthful
  <2> QED BY <2>1, <2>2, <2>3 DEF AnswerTruthful
<1> QED BY <1>1, PlanningHolds, PTL
=============================================================================
