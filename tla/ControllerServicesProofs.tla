---------------------- MODULE ControllerServicesProofs -----------------------
(***************************************************************************)
(* Proofs about the controller's own services: the SSH identity with the   *)
(* host records, the host and cluster loops of the telemetry collector and *)
(* the certificate inventory (which share no state), for every set of      *)
(* machines, keys and rows, any number of runs in flight, of clusters and  *)
(* deployments, of editors and of refreshes in flight.                     *)
(*                                                                         *)
(* That an activation locks nobody out rests on what the finalization of   *)
(* an enrollment wrote by a row id it had stored when it was launched.  So *)
(* the runs in flight must be followed: their id still stands for their    *)
(* machine, and what they report is still so on the machine (RunsCurrent), *)
(* although a revocation may be at work elsewhere (RevocationsKnown).      *)
(*                                                                         *)
(* The host loops agree because a probe in flight is never older than what *)
(* is shown or stored of its host (SlowIsNewest, FastIsNewest).            *)
(*                                                                         *)
(* The cluster loop recovers in two passes because after the first failure *)
(* every pass is about the record there is now (MissesOK), and after the   *)
(* second no stale CA is left (NoStaleCa); it spares the passwords because *)
(* a pass goes from older to newer records only (NumbersOK, SealedOK).     *)
(*                                                                         *)
(* A refresh of the certificates accounts for its assets because no step   *)
(* of another takes a row away or makes it unobserved again (Keeps), and   *)
(* it gets on because the order of assets is total (OrderTotal): whatever  *)
(* is ready is recorded, and what is then at the head lacks a file         *)
(* (AwaitsFile).  What it records was on the disk since it began (HoldsOK).*)
(***************************************************************************)
EXTENDS ControllerIdentity, HostTelemetry, ClusterTelemetry, CertificateLifecycle, FiniteSetTheorems,
        WellFoundedInduction, TLAPS

\* At most one key of a state that matters.
OneKey(S) == \A k, l \in S : k = l

RunKeys == \A r \in idRuns : r.kind # "password" => r.key \in SshKeys

\* The row id of a run still stands for its machine, and a key it reports as
\* installed is there, unless the row was disturbed.
RunsCurrent ==
  \A r \in idRuns : r.id \notin disturbed =>
    /\ r.kind # "revoke"
    /\ r.id \in DOMAIN nodes /\ nodes[r.id].machine = r.machine
    /\ r.result = "succeeded" /\ r.kind # "password" => r.key \in authorized[r.machine]

\* The rows of a machine with a revocation under way count as disturbed.
RevocationsKnown ==
  \A r \in idRuns, id \in DOMAIN nodes :
    r.kind = "revoke" /\ nodes[id].machine = r.machine => id \in disturbed

\* A staged key that a row records is on the row's machine.
CandidateInstalled ==
  \A id \in DOMAIN nodes \ disturbed :
    nodes[id].candidate # NoKey => nodes[id].candidate \in authorized[nodes[id].machine]

IdentityInv ==
  /\ IdentityTypeOK
  /\ OneKey(ActiveKeys) /\ OneKey(Candidates)
  /\ CandidateIsCurrent
  /\ RunKeys
  /\ RunsCurrent
  /\ RevocationsKnown
  /\ CandidateInstalled

\* A bounded nonempty set of naturals has a largest element, which Max finds.
LEMMA MaxExists ==
  ASSUME NEW S, NEW n \in Nat, S \subseteq 0..n, S # {}
  PROVE  Max(S) \in S /\ \A y \in S : Max(S) >= y
<1> DEFINE R == OpToRel(<, Nat)
           T == {m \in Nat : n - m \in S}
<1>1. T \subseteq Nat /\ T # {}
  <2>1. PICK x \in S : TRUE
    OBVIOUS
  <2>2. x \in Nat /\ x <= n
    BY <2>1
  <2>3. n - x \in Nat /\ n - (n - x) = x
    BY <2>2
  <2>4. n - x \in T
    BY <2>1, <2>3
  <2> QED BY <2>4
<1>2. PICK t \in T : \A u \in T : ~(<<u, t>> \in R)
  <2> HIDE DEF R, T
  <2>1. IsWellFoundedOn(R, Nat)
    BY NatLessThanWellFounded DEF R
  <2> QED BY <1>1, <2>1, WFMin
<1>3. \A u \in T : ~(u < t)
  BY <1>1, <1>2 DEF OpToRel
<1>4. \A y \in S : n - t >= y
  <2> SUFFICES ASSUME NEW y \in S PROVE n - t >= y
    OBVIOUS
  <2>1. y \in Nat /\ y <= n /\ t \in Nat
    BY <1>1
  <2>2. n - y \in Nat /\ n - (n - y) = y
    BY <2>1
  <2>3. n - y \in T
    BY <2>2
  <2> HIDE DEF T
  <2>4. ~(n - y < t)
    BY <1>3, <2>3
  <2> QED BY <2>1, <2>4
<1>5. n - t \in S
  BY <1>2
<1> QED BY <1>4, <1>5 DEF Max

\* A new row gets an id that no row has.
LEMMA FreshId ==
  ASSUME IdentityInv
  PROVE  NextNodeId \in Nat /\ NextNodeId >= 1 /\ NextNodeId \notin DOMAIN nodes
<1> DEFINE S == DOMAIN nodes \cup {0}
<1>1. MaxNodeId \in Nat /\ DOMAIN nodes \subseteq 1..MaxNodeId
  BY IdentityAssumption DEF IdentityInv, IdentityTypeOK, NodeIds
<1>2. S \subseteq 0..MaxNodeId /\ S # {} /\ 0 \in S /\ DOMAIN nodes \subseteq S
  BY <1>1
<1> HIDE DEF S
<1>3. Max(S) \in S /\ \A y \in S : Max(S) >= y
  BY <1>1, <1>2, MaxExists
<1>4. Max(S) \in Nat
  <2>1. Max(S) \in 0..MaxNodeId
    BY <1>2, <1>3
  <2> QED BY <1>1, <2>1
<1>5. NextNodeId = Max(S) + 1
  BY DEF NextNodeId, S
<1>6. ASSUME NextNodeId \in DOMAIN nodes PROVE FALSE
  BY <1>2, <1>3, <1>4, <1>5, <1>6
<1> QED BY <1>4, <1>5, <1>6

\* At most one element, counted.
LEMMA OneCounted == ASSUME NEW S, OneKey(S) PROVE Cardinality(S) <= 1
<1>1. CASE S = {}
  BY <1>1, FS_EmptySet
<1>2. CASE S # {}
  <2>1. PICK k \in S : TRUE
    BY <1>2
  <2>2. S = {k}
    BY <2>1 DEF OneKey
  <2> QED BY <2>2, FS_Singleton
<1> QED BY <1>1, <1>2

\* The invariant is stronger than what the run checks.
LEMMA IdentityImplies == IdentityInv => IdentityInvariant
BY OneCounted DEF IdentityInv, IdentityInvariant, OneIdentity

-----------------------------------------------------------------------------
\* Keys

\* A staged key replaces a candidate that no host has.
LEMMA StageKeeps == ASSUME IdentityInv, NEW k \in SshKeys, StageKey(k) PROVE IdentityInv'
<1>1. /\ sshKeys \in [SshKeys -> KeyStates] /\ sshKeys[k] = "absent"
      /\ \A id \in DOMAIN nodes : nodes[id].candidate = NoKey
  BY DEF IdentityInv, IdentityTypeOK, StageKey, CandidateIsCurrent
<1>2. UNCHANGED <<nodes, authorized, idRuns, disturbed>> /\ keyFiles' \subseteq keyFiles
  BY DEF StageKey, FilesAfterStaging
<1>3. ASSUME NEW x \in SshKeys
      PROVE  /\ sshKeys'[x] \in KeyStates
             /\ sshKeys'[x] = "active" =>
                  IF Enabled = {} THEN x = k ELSE x # k /\ sshKeys[x] = "active"
             /\ sshKeys'[x] = "candidate" => x = k
  BY <1>1 DEF StageKey, InState, ActiveKeys, Candidates, KeyStates
<1>4. sshKeys' \in [SshKeys -> KeyStates]
  <2>1. sshKeys' = [x \in SshKeys |-> sshKeys'[x]]
    BY DEF StageKey
  <2> QED BY <1>3, <2>1
<1>5. OneKey(ActiveKeys)' /\ OneKey(Candidates)'
  BY <1>1, <1>3 DEF IdentityInv, OneKey, ActiveKeys, Candidates, InState
<1>6. IdentityTypeOK'
  BY <1>2, <1>4 DEF IdentityInv, IdentityTypeOK
<1>7. CandidateIsCurrent'
  BY <1>1, <1>2 DEF CandidateIsCurrent
<1> QED BY <1>2, <1>5, <1>6, <1>7
     DEF IdentityInv, RunKeys, RunsCurrent, RevocationsKnown, CandidateInstalled

\* An activation moves the rows of the key with it.
LEMMA ActivateKeeps == ASSUME IdentityInv, NEW k \in SshKeys, ActivateKey(k) PROVE IdentityInv'
<1>1. /\ sshKeys \in [SshKeys -> KeyStates] /\ sshKeys[k] = "candidate" /\ NoKey \notin SshKeys
      /\ \A x \in SshKeys : sshKeys[x] = "candidate" => x = k
  BY IdentityAssumption DEF IdentityInv, IdentityTypeOK, ActivateKey, OneKey, Candidates, InState
<1>2. UNCHANGED <<authorized, idRuns, disturbed>> /\ keyFiles' \subseteq keyFiles
  BY DEF ActivateKey, FilesAfterActivation
<1>3. ASSUME NEW x \in SshKeys
      PROVE  /\ sshKeys'[x] \in KeyStates
             /\ sshKeys'[x] = "active" => x = k
             /\ sshKeys'[x] = "candidate" => FALSE
  BY <1>1 DEF ActivateKey, InState, ActiveKeys, KeyStates
<1>4. sshKeys' \in [SshKeys -> KeyStates]
  <2>1. sshKeys' = [x \in SshKeys |-> sshKeys'[x]]
    BY DEF ActivateKey
  <2> QED BY <1>3, <2>1
<1>5. OneKey(ActiveKeys)' /\ OneKey(Candidates)'
  BY <1>3 DEF OneKey, ActiveKeys, Candidates, InState
<1>6. DOMAIN nodes' = DOMAIN nodes /\ \A id \in DOMAIN nodes :
        /\ nodes'[id] \in NodeRow /\ nodes'[id].machine = nodes[id].machine
        /\ nodes'[id].candidate = NoKey
  <2>1. DOMAIN nodes' = DOMAIN nodes
    BY DEF ActivateKey
  <2>2. ASSUME NEW id \in DOMAIN nodes
        PROVE  /\ nodes'[id] \in NodeRow /\ nodes'[id].machine = nodes[id].machine
               /\ nodes'[id].candidate = NoKey
    <3>1. nodes[id] \in NodeRow /\ (nodes[id].candidate # NoKey => nodes[id].candidate = k)
      BY <1>1 DEF IdentityInv, IdentityTypeOK, CandidateIsCurrent, Candidates, InState
    <3>2. CASE nodes[id].candidate # k
      BY <3>1, <3>2 DEF ActivateKey
    <3>3. CASE nodes[id].candidate = k
      <4>1. nodes'[id] = [nodes[id] EXCEPT !.key = k, !.candidate = NoKey, !.auth = "controller_key"]
        BY <3>3 DEF ActivateKey
      <4> QED BY <3>1, <4>1 DEF NodeRow, AuthStates
    <3> QED BY <3>2, <3>3
  <2> QED BY <2>1, <2>2
<1>7. IdentityTypeOK'
  BY <1>2, <1>4, <1>6 DEF IdentityInv, IdentityTypeOK
<1>8. CandidateIsCurrent' /\ CandidateInstalled' /\ RunKeys'
  BY <1>2, <1>6 DEF IdentityInv, CandidateIsCurrent, CandidateInstalled, RunKeys
<1>9. RunsCurrent' /\ RevocationsKnown'
  BY <1>2, <1>6 DEF IdentityInv, RunsCurrent, RevocationsKnown
<1> QED BY <1>5, <1>7, <1>8, <1>9 DEF IdentityInv

-----------------------------------------------------------------------------
\* Runs and rows

\* What a launch adds.
LEMMA LaunchAdds ==
  ASSUME IdentityInv, NEW kind \in {"install", "password", "probe", "revoke"},
         NEW id \in NodeIds, NEW x \in Machines, NEW k \in SshKeys \cup {NoKey},
         NEW enabled \in BOOLEAN, Launch(kind, id, x, k, enabled),
         kind # "password" => k \in SshKeys
  PROVE  /\ keyFiles' \subseteq SshKeys
         /\ \E q \in IdentityRun :
              /\ idRuns' = idRuns \cup {q}
              /\ q.kind = kind /\ q.id = id /\ q.machine = x /\ q.result = "running"
              /\ q.kind # "password" => q.key \in SshKeys
<1> DEFINE q == [kind |-> kind, id |-> id, machine |-> x, key |-> k, enabled |-> enabled,
                 result |-> "running"]
<1>1. q \in IdentityRun
  BY DEF IdentityRun
<1>2. idRuns' = idRuns \cup {q}
  BY DEF Launch
<1>3. keyFiles' \subseteq SshKeys
  BY DEF IdentityInv, IdentityTypeOK, Launch, ActiveKeys, InState
<1> QED BY <1>1, <1>2, <1>3

\* The runs an enrollment may launch.
LEMMA EnrollmentLaunches ==
  ASSUME IdentityInv, NEW id \in NodeIds, NEW x \in Machines, NEW install \in BOOLEAN,
         NEW enabled \in BOOLEAN,
         LaunchPasswordEnrollment(id, x, install, enabled) \/ LaunchKeyProbe(id, x, enabled)
  PROVE  /\ keyFiles' \subseteq SshKeys
         /\ \E q \in IdentityRun :
              /\ idRuns' = idRuns \cup {q}
              /\ q.kind # "revoke" /\ q.id = id /\ q.machine = x /\ q.result = "running"
              /\ q.kind # "password" => q.key \in SshKeys
<1>1. EnrollmentKeys \subseteq SshKeys
  BY DEF EnrollmentKeys, Candidates, ActiveKeys, InState
<1>2. PICK kind \in {"install", "password", "probe"}, k \in SshKeys \cup {NoKey}, e \in BOOLEAN :
        Launch(kind, id, x, k, e) /\ (kind # "password" => k \in SshKeys)
  BY <1>1 DEF LaunchPasswordEnrollment, LaunchKeyProbe
<1>3. /\ keyFiles' \subseteq SshKeys
      /\ \E q \in IdentityRun :
           /\ idRuns' = idRuns \cup {q}
           /\ q.kind = kind /\ q.id = id /\ q.machine = x /\ q.result = "running"
           /\ q.kind # "password" => q.key \in SshKeys
  BY <1>2, LaunchAdds
<1> QED BY <1>2, <1>3

\* A row is added, perhaps with the run that enrolls it.
LEMMA AddRow ==
  ASSUME IdentityInv, NEW x \in Machines, NextNodeId <= MaxNodeId,
         NEW row \in NodeRow, row.machine = x, row.candidate = NoKey,
         nodes' = WithNode(NextNodeId, row), Registered(x, NextNodeId),
         UNCHANGED <<sshKeys, authorized>>, keyFiles' \subseteq SshKeys,
         NEW Q \in SUBSET IdentityRun, idRuns' = idRuns \cup Q,
         \A q \in Q : /\ q.kind # "revoke" /\ q.id = NextNodeId /\ q.machine = x
                      /\ q.result = "running" /\ (q.kind # "password" => q.key \in SshKeys)
  PROVE  IdentityInv'
<1>1. PICK n \in NodeIds : n = NextNodeId /\ n \notin DOMAIN nodes
  BY FreshId, IdentityAssumption DEF NodeIds
<1>2. DOMAIN nodes' = DOMAIN nodes \cup {n} /\ nodes'[n] = row
      /\ \A id \in DOMAIN nodes : nodes'[id] = nodes[id]
  BY <1>1 DEF WithNode
<1>3. /\ disturbed \subseteq disturbed' /\ disturbed' \subseteq disturbed \cup {n}
      /\ (\E r \in idRuns : r.kind = "revoke" /\ r.machine = x) => n \in disturbed'
  BY <1>1 DEF Registered
<1>4. IdentityTypeOK'
  BY <1>1, <1>2, <1>3 DEF IdentityInv, IdentityTypeOK
<1>5. OneKey(ActiveKeys)' /\ OneKey(Candidates)'
  BY DEF IdentityInv, OneKey, ActiveKeys, Candidates, InState
<1>6. CandidateIsCurrent'
  BY <1>2 DEF IdentityInv, CandidateIsCurrent, Candidates, InState
<1>7. CandidateInstalled'
  BY <1>2, <1>3 DEF IdentityInv, CandidateInstalled
<1>8. RunKeys'
  BY <1>1, <1>2 DEF IdentityInv, RunKeys
<1>9. RunsCurrent'
  BY <1>1, <1>2, <1>3 DEF IdentityInv, RunsCurrent
<1>10. RevocationsKnown'
  BY <1>1, <1>2, <1>3 DEF IdentityInv, RevocationsKnown
<1> QED BY <1>4, <1>5, <1>6, <1>7, <1>8, <1>9, <1>10 DEF IdentityInv

\* A host is created, or enrolled.
LEMMA RegisterKeeps ==
  ASSUME IdentityInv, NEW x \in Machines, NEW enabled \in BOOLEAN,
         \/ CreateNode(x, enabled)
         \/ \E method \in {"password", "controller_key"}, install \in BOOLEAN :
              EnrollNode(x, method, install, enabled)
  PROVE  IdentityInv'
<1>1. CASE CreateNode(x, enabled)
  <2> DEFINE row == [machine |-> x, enabled |-> enabled, auth |-> "legacy",
                     key |-> NoKey, candidate |-> NoKey]
  <2>1. row \in NodeRow /\ row.machine = x /\ row.candidate = NoKey
    BY DEF NodeRow, AuthStates
  <2>2. /\ NextNodeId <= MaxNodeId
        /\ nodes' = WithNode(NextNodeId, row) /\ Registered(x, NextNodeId)
        /\ UNCHANGED <<sshKeys, keyFiles, authorized, idRuns>>
    BY <1>1 DEF CreateNode
  <2>3. PICK Q \in SUBSET IdentityRun : Q = {} /\ idRuns' = idRuns \cup Q
    <3>1. {} \in SUBSET IdentityRun /\ idRuns' = idRuns \cup {}
      BY <2>2
    <3> QED BY <3>1
  <2>4. keyFiles' \subseteq SshKeys
    BY <2>2 DEF IdentityInv, IdentityTypeOK
  <2> HIDE DEF row
  <2> QED BY <2>1, <2>2, <2>3, <2>4, AddRow
<1>2. ASSUME NEW method \in {"password", "controller_key"}, NEW install \in BOOLEAN,
             EnrollNode(x, method, install, enabled)
      PROVE  IdentityInv'
  <2>1. EnrollPending(x) \in NodeRow /\ EnrollPending(x).machine = x
        /\ EnrollPending(x).candidate = NoKey
    BY DEF NodeRow, AuthStates, EnrollPending
  <2>2. /\ NextNodeId <= MaxNodeId
        /\ nodes' = WithNode(NextNodeId, EnrollPending(x)) /\ Registered(x, NextNodeId)
        /\ UNCHANGED <<sshKeys, authorized>>
        /\ \/ LaunchPasswordEnrollment(NextNodeId, x, install, enabled)
           \/ LaunchKeyProbe(NextNodeId, x, enabled)
    BY <1>2 DEF EnrollNode
  <2>3. NextNodeId \in NodeIds
    BY <2>2, FreshId, IdentityAssumption DEF NodeIds
  <2>4. PICK q \in IdentityRun :
          /\ keyFiles' \subseteq SshKeys /\ idRuns' = idRuns \cup {q}
          /\ q.kind # "revoke" /\ q.id = NextNodeId /\ q.machine = x /\ q.result = "running"
          /\ q.kind # "password" => q.key \in SshKeys
    BY <2>2, <2>3, EnrollmentLaunches
  <2>5. {q} \in SUBSET IdentityRun /\ \A p \in {q} : p = q
    BY <2>4
  <2> QED BY <2>1, <2>2, <2>4, <2>5, AddRow
<1> QED BY <1>1, <1>2

\* A run for a row that is there.
LEMMA RunForRow ==
  ASSUME IdentityInv, NEW id \in DOMAIN nodes, NEW q \in IdentityRun,
         idRuns' = idRuns \cup {q}, keyFiles' \subseteq SshKeys,
         UNCHANGED <<sshKeys, nodes, authorized>>,
         q.id = id, q.machine = nodes[id].machine, q.result = "running",
         q.kind # "password" => q.key \in SshKeys,
         disturbed' \in {disturbed, disturbed \cup RowsOf(nodes[id].machine)},
         q.kind = "revoke" => disturbed' = disturbed \cup RowsOf(nodes[id].machine)
  PROVE  IdentityInv'
<1>1. IdentityTypeOK'
  BY DEF IdentityInv, IdentityTypeOK, RowsOf
<1>2. OneKey(ActiveKeys)' /\ OneKey(Candidates)' /\ CandidateIsCurrent'
  BY DEF IdentityInv, OneKey, ActiveKeys, Candidates, InState, CandidateIsCurrent
<1>3. RunKeys' /\ CandidateInstalled'
  BY DEF IdentityInv, RunKeys, CandidateInstalled
<1>4. RunsCurrent'
  BY DEF IdentityInv, RunsCurrent, RowsOf
<1>5. RevocationsKnown'
  BY DEF IdentityInv, RevocationsKnown, RowsOf
<1> QED BY <1>1, <1>2, <1>3, <1>4, <1>5 DEF IdentityInv

\* The key is installed on a host that is there, or revoked from it.
LEMMA InstallKeeps ==
  ASSUME IdentityInv, NEW id \in DOMAIN nodes, InstallControllerKey(id) \/ RevokeAndDelete(id)
  PROVE  IdentityInv'
<1>1. id \in NodeIds /\ nodes[id].machine \in Machines /\ nodes[id].enabled \in BOOLEAN
  BY DEF IdentityInv, IdentityTypeOK, NodeRow
<1>2. CASE InstallControllerKey(id)
  <2>1. PICK q \in IdentityRun :
          /\ keyFiles' \subseteq SshKeys /\ idRuns' = idRuns \cup {q}
          /\ q.kind # "revoke" /\ q.id = id /\ q.machine = nodes[id].machine
          /\ q.result = "running" /\ (q.kind # "password" => q.key \in SshKeys)
    <3>1. PICK x \in Machines, install \in BOOLEAN, e \in BOOLEAN :
            x = nodes[id].machine /\ LaunchPasswordEnrollment(id, x, install, e)
      BY <1>1, <1>2 DEF InstallControllerKey
    <3> QED BY <1>1, <3>1, EnrollmentLaunches
  <2> QED BY <1>2, <2>1, RunForRow DEF InstallControllerKey
<1>3. CASE RevokeAndDelete(id)
  <2>1. InstalledKey(id) \in SshKeys
    BY <1>3 DEF RevokeAndDelete, InstalledKey, ActiveKeys, Candidates, InState
  <2>2. PICK q \in IdentityRun :
          /\ keyFiles' \subseteq SshKeys /\ idRuns' = idRuns \cup {q}
          /\ q.kind = "revoke" /\ q.id = id /\ q.machine = nodes[id].machine
          /\ q.result = "running" /\ (q.kind # "password" => q.key \in SshKeys)
    <3>1. PICK x \in Machines, k \in SshKeys \cup {NoKey}, e \in BOOLEAN,
               kind \in {"install", "password", "probe", "revoke"} :
            /\ x = nodes[id].machine /\ kind = "revoke" /\ k \in SshKeys
            /\ Launch(kind, id, x, k, e)
      BY <1>1, <1>3, <2>1 DEF RevokeAndDelete
    <3>2. /\ keyFiles' \subseteq SshKeys
          /\ \E q \in IdentityRun :
               /\ idRuns' = idRuns \cup {q}
               /\ q.kind = kind /\ q.id = id /\ q.machine = x /\ q.result = "running"
               /\ q.kind # "password" => q.key \in SshKeys
      BY <1>1, <3>1, LaunchAdds
    <3> QED BY <3>1, <3>2
  <2> QED BY <1>3, <2>2, RunForRow DEF RevokeAndDelete
<1> QED BY <1>2, <1>3

\* An edit leaves what was found out about the host; another address
\* disturbs the row.
LEMMA UpdateKeeps ==
  ASSUME IdentityInv, NEW id \in DOMAIN nodes, NEW x \in Machines, NEW enabled \in BOOLEAN,
         UpdateNode(id, x, enabled)
  PROVE  IdentityInv'
<1>1. /\ UNCHANGED <<sshKeys, keyFiles, authorized, idRuns>>
      /\ disturbed' = IF x = nodes[id].machine THEN disturbed ELSE disturbed \cup {id}
  BY DEF UpdateNode
<1>2. /\ DOMAIN nodes' = DOMAIN nodes /\ \A i \in DOMAIN nodes \ {id} : nodes'[i] = nodes[i]
      /\ nodes'[id] \in NodeRow /\ nodes'[id].machine = x
      /\ nodes'[id].candidate = nodes[id].candidate
  <2>1. nodes[id] \in NodeRow
    BY DEF IdentityInv, IdentityTypeOK
  <2>2. /\ DOMAIN nodes' = DOMAIN nodes /\ \A i \in DOMAIN nodes \ {id} : nodes'[i] = nodes[i]
        /\ nodes'[id] = [nodes[id] EXCEPT !.enabled = enabled, !.machine = x]
    BY DEF UpdateNode
  <2> QED BY <2>1, <2>2 DEF NodeRow
<1>3. IdentityTypeOK'
  BY <1>1, <1>2 DEF IdentityInv, IdentityTypeOK
<1>4. OneKey(ActiveKeys)' /\ OneKey(Candidates)' /\ CandidateIsCurrent' /\ RunKeys'
  BY <1>1, <1>2 DEF IdentityInv, OneKey, ActiveKeys, Candidates, InState, CandidateIsCurrent, RunKeys
<1>6. CandidateInstalled'
  BY <1>1, <1>2 DEF IdentityInv, CandidateInstalled
<1>7. RunsCurrent'
  BY <1>1, <1>2 DEF IdentityInv, RunsCurrent
<1>8. RevocationsKnown'
  BY <1>1, <1>2 DEF IdentityInv, RevocationsKnown
<1> QED BY <1>3, <1>4, <1>6, <1>7, <1>8 DEF IdentityInv

\* A row goes: the runs that still name it are disturbed.
LEMMA RowGone ==
  ASSUME IdentityInv, NEW id \in DOMAIN nodes, nodes' = WithoutNode(id),
         UNCHANGED <<sshKeys, keyFiles, authorized>>,
         idRuns' \subseteq idRuns,
         disturbed' = disturbed \/ disturbed' = disturbed \cup {id},
         \A r \in idRuns' : r.id = id => id \in disturbed'
  PROVE  IdentityInv'
<1>1. DOMAIN nodes' = DOMAIN nodes \ {id} /\ \A i \in DOMAIN nodes' : nodes'[i] = nodes[i]
  BY DEF WithoutNode
<1>2. IdentityTypeOK'
  BY <1>1 DEF IdentityInv, IdentityTypeOK
<1>3. OneKey(ActiveKeys)' /\ OneKey(Candidates)' /\ CandidateIsCurrent' /\ RunKeys'
  BY <1>1 DEF IdentityInv, OneKey, ActiveKeys, Candidates, InState, CandidateIsCurrent, RunKeys
<1>4. CandidateInstalled' /\ RevocationsKnown'
  BY <1>1 DEF IdentityInv, CandidateInstalled, RevocationsKnown
<1>5. RunsCurrent'
  BY <1>1 DEF IdentityInv, RunsCurrent
<1> QED BY <1>2, <1>3, <1>4, <1>5 DEF IdentityInv

\* The record is deleted.
LEMMA DeleteKeeps ==
  ASSUME IdentityInv, NEW id \in DOMAIN nodes, NEW recordsOnly \in BOOLEAN,
         DeleteNode(id, recordsOnly)
  PROVE  IdentityInv'
<1>1. /\ nodes' = WithoutNode(id) /\ UNCHANGED <<sshKeys, keyFiles, authorized, idRuns>>
      /\ disturbed' = IF InFlightFor(id) # {} THEN disturbed \cup {id} ELSE disturbed
  BY DEF DeleteNode
<1>2. \A r \in idRuns' : r.id = id => id \in disturbed'
  BY <1>1 DEF InFlightFor
<1> QED BY <1>1, <1>2, RowGone

\* What Ansible may report, and what it leaves on the machine.
LEMMA OutcomeFacts ==
  ASSUME IdentityInv, NEW r \in idRuns, NEW o \in Outcomes(r)
  PROVE  /\ o[1] \in {"failed", "succeeded"} /\ o[2] \subseteq SshKeys
         /\ r.kind # "revoke" => authorized[r.machine] \subseteq o[2]
         /\ o[1] = "succeeded" /\ r.kind \in {"install", "probe"} => r.key \in o[2]
<1>1. /\ r \in IdentityRun /\ authorized[r.machine] \subseteq SshKeys
      /\ r.kind # "password" => r.key \in SshKeys
  BY DEF IdentityInv, IdentityTypeOK, IdentityRun, RunKeys
<1>2. CASE r.kind = "install"
  BY <1>1, <1>2 DEF Outcomes
<1>3. CASE r.kind = "password"
  BY <1>1, <1>3 DEF Outcomes
<1>4. CASE r.kind = "probe"
  BY <1>1, <1>4 DEF Outcomes
<1>5. CASE r.kind = "revoke"
  BY <1>1, <1>5 DEF Outcomes
<1> QED BY <1>1, <1>2, <1>3, <1>4, <1>5 DEF IdentityRun

\* Only a revocation takes a key away, and the rows of its machine are known
\* to be disturbed.
LEMMA AnsibleKeeps == ASSUME IdentityInv, NEW r \in idRuns, AnsibleEnds(r) PROVE IdentityInv'
<1>1. UNCHANGED <<sshKeys, keyFiles, nodes, disturbed>> /\ r.result = "running"
  BY DEF AnsibleEnds
<1>2. PICK o \in Outcomes(r) :
        /\ idRuns' = (idRuns \ {r}) \cup {[r EXCEPT !.result = o[1]]}
        /\ authorized' = [authorized EXCEPT ![r.machine] = o[2]]
  BY DEF AnsibleEnds
<1>3. /\ o[1] \in {"failed", "succeeded"} /\ o[2] \subseteq SshKeys
      /\ r.kind # "revoke" => authorized[r.machine] \subseteq o[2]
      /\ o[1] = "succeeded" /\ r.kind \in {"install", "probe"} => r.key \in o[2]
  BY <1>2, OutcomeFacts
<1>4. r \in IdentityRun /\ r.machine \in Machines /\ authorized \in [Machines -> SUBSET SshKeys]
  BY DEF IdentityInv, IdentityTypeOK, IdentityRun
<1>5. PICK q \in IdentityRun :
        /\ q = [r EXCEPT !.result = o[1]] /\ q.kind = r.kind /\ q.id = r.id
        /\ q.machine = r.machine /\ q.key = r.key /\ q.result = o[1]
  <2>1. [r EXCEPT !.result = o[1]] \in IdentityRun
    BY <1>3, <1>4 DEF IdentityRun
  <2> QED BY <1>4, <2>1 DEF IdentityRun
<1>6. /\ authorized' \in [Machines -> SUBSET SshKeys] /\ authorized'[r.machine] = o[2]
      /\ \A x \in Machines \ {r.machine} : authorized'[x] = authorized[x]
  BY <1>2, <1>3, <1>4
<1>7. idRuns' = (idRuns \ {r}) \cup {q}
  BY <1>2, <1>5
<1>8. IdentityTypeOK' /\ RunKeys'
  BY <1>1, <1>5, <1>6, <1>7 DEF IdentityInv, IdentityTypeOK, RunKeys
<1>9. OneKey(ActiveKeys)' /\ OneKey(Candidates)' /\ CandidateIsCurrent'
  BY <1>1 DEF IdentityInv, OneKey, ActiveKeys, Candidates, InState, CandidateIsCurrent
<1>10. RevocationsKnown'
  <2> SUFFICES ASSUME NEW s \in idRuns', NEW id \in DOMAIN nodes, s.kind = "revoke",
                      nodes[id].machine = s.machine
               PROVE  id \in disturbed
    BY <1>1 DEF RevocationsKnown
  <2>1. PICK t \in idRuns : t.kind = "revoke" /\ t.machine = s.machine
    BY <1>5, <1>7
  <2> QED BY <2>1 DEF IdentityInv, RevocationsKnown
<1>11. ASSUME NEW id \in DOMAIN nodes \ disturbed
       PROVE  nodes[id].machine \in Machines
              /\ authorized[nodes[id].machine] \subseteq authorized'[nodes[id].machine]
  <2>1. nodes[id].machine \in Machines
    BY DEF IdentityInv, IdentityTypeOK, NodeRow
  <2>2. nodes[id].machine = r.machine => r.kind # "revoke"
    BY DEF IdentityInv, RevocationsKnown
  <2> QED BY <1>3, <1>6, <2>1, <2>2
<1>12. CandidateInstalled'
  BY <1>1, <1>11 DEF IdentityInv, CandidateInstalled
<1>13. RunsCurrent'
  <2> SUFFICES ASSUME NEW s \in idRuns', s.id \notin disturbed
               PROVE  /\ s.kind # "revoke"
                      /\ s.id \in DOMAIN nodes /\ nodes[s.id].machine = s.machine
                      /\ s.result = "succeeded" /\ s.kind # "password" => s.key \in authorized'[s.machine]
    BY <1>1 DEF RunsCurrent
  <2>1. CASE s \in idRuns
    BY <1>11, <2>1 DEF IdentityInv, RunsCurrent
  <2>2. CASE s = q
    <3>1. r.kind # "revoke" /\ r.id \in DOMAIN nodes /\ nodes[r.id].machine = r.machine
      BY <1>5, <2>2 DEF IdentityInv, RunsCurrent
    <3>2. r.kind \in {"install", "password", "probe", "revoke"}
      BY <1>4 DEF IdentityRun
    <3> QED BY <1>3, <1>5, <1>6, <2>2, <3>1, <3>2
  <2> QED BY <1>7, <2>1, <2>2
<1> QED BY <1>8, <1>9, <1>10, <1>12, <1>13 DEF IdentityInv

\* What the finalization of an enrollment writes.
LEMMA EnrolledRow ==
  ASSUME IdentityInv, NEW row \in NodeRow, NEW r \in idRuns, r.kind # "revoke"
  PROVE  /\ Enrolled(row, r) \in NodeRow /\ Enrolled(row, r).machine = row.machine
         /\ \/ Enrolled(row, r).candidate = NoKey
            \/ Enrolled(row, r).candidate = row.candidate /\ r.kind = "password"
            \/ /\ Enrolled(row, r).candidate = r.key /\ r.kind # "password"
               /\ sshKeys[r.key] = "candidate"
<1>1. r \in IdentityRun /\ (r.kind # "password" => r.key \in SshKeys)
  BY DEF IdentityInv, IdentityTypeOK, RunKeys
<1>2. r.enabled \in BOOLEAN
  BY <1>1 DEF IdentityRun
<1>3. CASE r.kind = "password"
  <2>1. Enrolled(row, r) = [row EXCEPT !.auth = "pending", !.enabled = FALSE]
    BY <1>3 DEF Enrolled, MarkEnrollmentPending
  <2> QED BY <1>3, <2>1 DEF NodeRow, AuthStates
<1>4. CASE r.kind # "password" /\ sshKeys[r.key] = "candidate"
  <2>1. Enrolled(row, r) = [row EXCEPT !.candidate = r.key, !.auth = "candidate_ready",
                                       !.enabled = r.enabled]
    BY <1>4 DEF Enrolled, MarkCandidateInstalled
  <2> QED BY <1>1, <1>2, <1>4, <2>1 DEF NodeRow, AuthStates
<1>5. CASE r.kind # "password" /\ sshKeys[r.key] # "candidate"
  <2>1. Enrolled(row, r) = [row EXCEPT !.key = r.key, !.candidate = NoKey,
                                       !.auth = "controller_key", !.enabled = r.enabled]
    BY <1>5 DEF Enrolled, MarkControllerKeyInstalled
  <2> QED BY <1>1, <1>2, <1>5, <2>1 DEF NodeRow, AuthStates
<1> QED BY <1>3, <1>4, <1>5

\* The finalization finds the row its run was launched for, or a row that is
\* known to be disturbed.
LEMMA FinalizeKeeps == ASSUME IdentityInv, NEW r \in idRuns, Finalize(r) PROVE IdentityInv'
<1>1. /\ UNCHANGED <<sshKeys, keyFiles, authorized>> /\ idRuns' = idRuns \ {r}
      /\ r \in IdentityRun /\ r.id \in NodeIds /\ r.result \in {"succeeded", "failed"}
      /\ disturbed' = disturbed \/ disturbed' = disturbed \cup {r.id}
  BY DEF Finalize, IdentityInv, IdentityTypeOK, IdentityRun
<1>2. OneKey(ActiveKeys)' /\ OneKey(Candidates)' /\ RunKeys'
  BY <1>1 DEF IdentityInv, OneKey, ActiveKeys, Candidates, InState, RunKeys
<1>3. CASE nodes' = nodes
  <2>1. IdentityTypeOK' /\ CandidateIsCurrent'
    BY <1>1, <1>3 DEF IdentityInv, IdentityTypeOK, CandidateIsCurrent, Candidates, InState
  <2>2. RunsCurrent' /\ RevocationsKnown' /\ CandidateInstalled'
    BY <1>1, <1>3 DEF IdentityInv, RunsCurrent, RevocationsKnown, CandidateInstalled
  <2> QED BY <1>2, <2>1, <2>2 DEF IdentityInv
<1>4. CASE r.id \in DOMAIN nodes /\ r.kind = "revoke" /\ nodes' = WithoutNode(r.id)
  <2>1. r.id \in disturbed
    BY <1>4 DEF IdentityInv, RunsCurrent
  <2>2. \A s \in idRuns' : s.id = r.id => r.id \in disturbed'
    BY <1>1, <2>1
  <2> QED BY <1>1, <1>4, <2>2, RowGone
<1>5. CASE /\ r.id \in DOMAIN nodes /\ r.kind # "revoke" /\ r.result = "succeeded"
           /\ nodes' = [nodes EXCEPT ![r.id] = Enrolled(nodes[r.id], r)]
  <2>1. nodes[r.id] \in NodeRow
    BY <1>5 DEF IdentityInv, IdentityTypeOK
  <2>2. /\ DOMAIN nodes' = DOMAIN nodes /\ nodes'[r.id] = Enrolled(nodes[r.id], r)
        /\ \A id \in DOMAIN nodes \ {r.id} : nodes'[id] = nodes[id]
    BY <1>5
  <2>3. /\ nodes'[r.id] \in NodeRow
        /\ \A id \in DOMAIN nodes : nodes'[id].machine = nodes[id].machine
    BY <1>5, <2>1, <2>2, EnrolledRow
  <2>4. \/ nodes'[r.id].candidate = NoKey
        \/ nodes'[r.id].candidate = nodes[r.id].candidate
        \/ /\ nodes'[r.id].candidate = r.key /\ r.kind # "password"
           /\ sshKeys[r.key] = "candidate" /\ r.key \in SshKeys
    BY <1>5, <2>1, <2>2, EnrolledRow DEF IdentityInv, RunKeys
  <2>5. IdentityTypeOK'
    BY <1>1, <2>2, <2>3 DEF IdentityInv, IdentityTypeOK
  <2>6. CandidateIsCurrent'
    BY <1>1, <2>2, <2>4 DEF IdentityInv, CandidateIsCurrent, Candidates, InState
  <2>7. RunsCurrent' /\ RevocationsKnown'
    BY <1>1, <2>2, <2>3 DEF IdentityInv, RunsCurrent, RevocationsKnown
  <2>8. CandidateInstalled'
    <3> SUFFICES ASSUME NEW id \in DOMAIN nodes, id \notin disturbed, nodes'[id].candidate # NoKey
                 PROVE  nodes'[id].candidate \in authorized[nodes[id].machine]
      BY <1>1, <2>2, <2>3 DEF CandidateInstalled
    <3>1. nodes[id].candidate # NoKey => nodes[id].candidate \in authorized[nodes[id].machine]
      BY DEF IdentityInv, CandidateInstalled
    <3>2. CASE id = r.id
      <4>1. nodes[id].machine = r.machine /\ (r.kind # "password" => r.key \in authorized[r.machine])
        BY <1>5, <3>2 DEF IdentityInv, RunsCurrent
      <4> QED BY <2>4, <3>1, <3>2, <4>1
    <3>3. CASE id # r.id
      BY <2>2, <3>1, <3>3
    <3> QED BY <3>2, <3>3
  <2> QED BY <1>2, <2>5, <2>6, <2>7, <2>8 DEF IdentityInv
<1> QED BY <1>1, <1>3, <1>4, <1>5 DEF Finalize

-----------------------------------------------------------------------------
\* What holds of every behaviour

\* Every step keeps the invariant.
LEMMA IdentityStep == IdentityInv /\ [IdentityNext]_identityVars => IdentityInv'
<1> SUFFICES ASSUME IdentityInv, [IdentityNext]_identityVars PROVE IdentityInv'
  OBVIOUS
<1>1. CASE ControllerRestart \/ UNCHANGED identityVars
  <2>1. UNCHANGED <<sshKeys, keyFiles, nodes, authorized, disturbed>> /\ idRuns' \subseteq idRuns
    BY <1>1 DEF ControllerRestart, identityVars
  <2> QED BY <2>1 DEF IdentityInv, IdentityTypeOK, OneKey, ActiveKeys, Candidates, InState,
       CandidateIsCurrent, RunKeys, RunsCurrent, RevocationsKnown, CandidateInstalled
<1> QED BY <1>1, StageKeeps, ActivateKeeps, RegisterKeeps, InstallKeeps, UpdateKeeps, DeleteKeeps,
     AnsibleKeeps, FinalizeKeeps DEF IdentityNext

\* No key, no host and no run at first.
LEMMA IdentityStart == IdentityInit => IdentityInv
<1> SUFFICES ASSUME IdentityInit PROVE IdentityInv
  OBVIOUS
<1>1. DOMAIN nodes = {} /\ \A k \in SshKeys : sshKeys[k] = "absent"
  BY DEF IdentityInit
<1>2. IdentityTypeOK
  BY <1>1 DEF IdentityInit, IdentityTypeOK, KeyStates
<1>3. OneKey(ActiveKeys) /\ OneKey(Candidates)
  BY <1>1 DEF OneKey, ActiveKeys, Candidates, InState
<1> QED BY <1>1, <1>2, <1>3 DEF IdentityInit, IdentityInv, CandidateIsCurrent, RunKeys,
     RunsCurrent, RevocationsKnown, CandidateInstalled

\* Keys, rows, runs and machines agree in every state.
THEOREM IdentityHolds == IdentitySpec => []IdentityInv
BY IdentityStart, IdentityStep, PTL DEF IdentitySpec

\* The controller has one identity and no row holds on to a key that is no
\* longer staged, for any number of hosts, keys and runs in flight.
THEOREM IdentitySafe == IdentitySpec => []IdentityInvariant
BY IdentityHolds, IdentityImplies, PTL

\* An activation locks no enabled host out that was left alone.
THEOREM ActivationsCover == IdentitySpec => ActivationCovers
<1> DEFINE A == \A k \in Candidates : sshKeys'[k] = "active" =>
       \A id \in Enabled \ disturbed : k \in authorized[nodes[id].machine]
<1>1. IdentityInv /\ [IdentityNext]_identityVars => [A]_identityVars
  <2> SUFFICES ASSUME IdentityInv, IdentityNext, NEW k \in Candidates, sshKeys'[k] = "active",
                      NEW id \in Enabled \ disturbed
               PROVE  k \in authorized[nodes[id].machine]
    OBVIOUS
  <2>1. k \in SshKeys /\ sshKeys[k] = "candidate" /\ k # NoKey
    BY IdentityAssumption DEF Candidates, InState
  <2>2. ASSUME NEW l \in SshKeys, StageKey(l) PROVE FALSE
    BY <2>1, <2>2 DEF StageKey, Candidates, ActiveKeys, InState
  <2>3. sshKeys' # sshKeys
    BY <2>1
  <2>4. PICK l \in SshKeys : ActivateKey(l)
    BY <2>2, <2>3 DEF IdentityNext, CreateNode, EnrollNode, InstallControllerKey, UpdateNode,
         DeleteNode, RevokeAndDelete, AnsibleEnds, Finalize, ControllerRestart
  <2>5. l = k
    BY <2>1, <2>4 DEF ActivateKey, Candidates, InState, IdentityInv, OneKey
  <2>6. nodes[id].candidate = k /\ id \in DOMAIN nodes
    BY <2>4, <2>5 DEF ActivateKey, MissingCandidate, Enabled
  <2> QED BY <2>1, <2>6 DEF IdentityInv, CandidateInstalled
<1>2. IdentitySpec => [][A]_identityVars
  <2> HIDE DEF A
  <2> QED BY <1>1, IdentityHolds, PTL DEF IdentitySpec
<1> QED BY <1>2 DEF ActivationCovers

-----------------------------------------------------------------------------
\* The host loops of the collector.

Reports == [at : Nat, reachable : BOOLEAN, initialized : BOOLEAN, socket : BOOLEAN]
States ==
  [at : Nat, reachable : BOOLEAN, initialized : BOOLEAN, socket : BOOLEAN, sampled : Nat]

HostRecords == [address : Addresses \cup {NoAddress}, enabled : BOOLEAN]
Probes == [address : Addresses \cup {NoAddress}, at : Nat,
           phase : {"idle", "identity", "tunnel", "list"}]
Samplings == [address : Addresses \cup {NoAddress}, at : Nat, state : States]

HostTypes ==
  /\ roster \in [RowIds -> HostRecords]
  /\ runtimeRows \in [RowIds -> Reports]
  /\ hostStates \in [RowIds -> States]
  /\ tunnels \in [RowIds -> Addresses \cup {NoAddress}]
  /\ slow \in [RowIds -> Probes]
  /\ fast \in [RowIds -> Samplings]
  /\ clock \in Nat /\ clock >= 1

\* No time is ahead of the clock, and only rows of the inventory have reports.
TimesOK ==
  \A id \in RowIds :
    /\ hostStates[id].at <= clock /\ hostStates[id].sampled <= clock
    /\ runtimeRows[id].at <= clock
    /\ roster[id] = NoHost => runtimeRows[id] = NoReport
    /\ hostStates[id].socket => hostStates[id].reachable /\ hostStates[id].initialized
    /\ runtimeRows[id].socket => runtimeRows[id].reachable /\ runtimeRows[id].initialized

\* A probe in flight is not older than what is known of its host, in memory or
\* stored, so that its end takes nothing back.
SlowIsNewest ==
  \A id \in RowIds : slow[id] # NoProbe =>
    /\ slow[id].at >= 1 /\ slow[id].at <= clock
    /\ slow[id].at >= hostStates[id].at /\ slow[id].at >= runtimeRows[id].at

\* A sample in flight was asked for of a host whose state is known, and stays
\* known, and is not older than the one shown.
FastIsNewest ==
  \A id \in RowIds : fast[id] # NoSampling =>
    /\ fast[id].at <= clock /\ fast[id].at >= hostStates[id].sampled
    /\ hostStates[id] # NoState

\* Between probes a tunnel is open only for a host shown with its socket.
TunnelsShown ==
  \A id \in RowIds :
    slow[id] = NoProbe /\ ~hostStates[id].socket => tunnels[id] = NoAddress

HostLoopsInv ==
  /\ HostTypes
  /\ TimesOK
  /\ SlowIsNewest
  /\ FastIsNewest
  /\ ReportAsShown
  /\ TunnelsShown

\* What one step does to the state of a host.
Forward(id) ==
  hostStates'[id] # NoState =>
    hostStates'[id].at >= hostStates[id].at /\ hostStates'[id].sampled >= hostStates[id].sampled

USE DEF NoHost, NoState, NoReport, NoProbe, NoSampling, storedVars

LEMMA HostLoopsBegin == HostTelemetryInit => HostLoopsInv
BY HostTelemetryAssumption
DEF HostTelemetryInit, HostLoopsInv, HostTypes, TimesOK, SlowIsNewest, FastIsNewest,
    ReportAsShown, TunnelsShown, Reports, States, HostRecords, Probes, Samplings

\* Changes of the inventory and the machines leave what the loops know alone.
LEMMA InventoryStep ==
  ASSUME HostLoopsInv, NEW id \in RowIds,
         \/ \E a \in Addresses : AddHost(id, a) \/ \E on \in BOOLEAN : EditHost(id, a, on)
         \/ DeleteHost(id)
  PROVE  HostLoopsInv' /\ \A i \in RowIds : Forward(i)
<1>1. UNCHANGED <<hostStates, tunnels, slow, fast, clock, unstored>>
  BY DEF AddHost, EditHost, DeleteHost, LoopsUnchanged, storedVars
<1>2. PICK h : roster' = [roster EXCEPT ![id] = h]
               /\ h \in HostRecords
               /\ (h = NoHost => runtimeRows' = [runtimeRows EXCEPT ![id] = NoReport])
               /\ runtimeRows' \in {runtimeRows, [runtimeRows EXCEPT ![id] = NoReport]}
  <2>1. CASE DeleteHost(id)
    BY <2>1 DEF DeleteHost, HostRecords
  <2>2. ASSUME NEW a \in Addresses, AddHost(id, a) \/ \E on \in BOOLEAN : EditHost(id, a, on)
        PROVE  \E h : /\ roster' = [roster EXCEPT ![id] = h] /\ h \in HostRecords
                      /\ (h = NoHost => runtimeRows' = [runtimeRows EXCEPT ![id] = NoReport])
                      /\ runtimeRows' \in {runtimeRows, [runtimeRows EXCEPT ![id] = NoReport]}
    <3> DEFINE g(e) == [address |-> a, enabled |-> e]
    <3>1. \A e \in BOOLEAN : g(e) # NoHost /\ g(e) \in HostRecords
      BY HostTelemetryAssumption DEF HostRecords
    <3>2. \E e \in BOOLEAN : roster' = [roster EXCEPT ![id] = g(e)]
      BY <2>2 DEF AddHost, EditHost
    <3>3. runtimeRows' = runtimeRows
      BY <2>2 DEF AddHost, EditHost, storedVars
    <3> HIDE DEF g
    <3> QED BY <3>1, <3>2, <3>3
  <2> QED BY <2>1, <2>2
<1>3. NoReport \in Reports /\ NoReport.at = 0 /\ ~NoReport.socket
  BY DEF Reports
<1> HIDE DEF NoReport, NoHost, NoState, NoProbe, NoSampling
<1>4. HostTypes'
  BY <1>1, <1>2, <1>3 DEF HostLoopsInv, HostTypes
<1>5. \A i \in RowIds : /\ runtimeRows'[i] \in {runtimeRows[i], NoReport}
                        /\ roster'[i] = NoHost => runtimeRows'[i] = NoReport
  <2>1. roster \in [RowIds -> HostRecords] /\ runtimeRows \in [RowIds -> Reports]
        /\ \A i \in RowIds : roster[i] = NoHost => runtimeRows[i] = NoReport
    BY DEF HostLoopsInv, HostTypes, TimesOK
  <2> QED BY <1>2, <2>1
<1>6. TimesOK'
  BY <1>1, <1>3, <1>5 DEF HostLoopsInv, HostTypes, TimesOK
<1>7. SlowIsNewest'
  BY <1>1, <1>3, <1>5 DEF HostLoopsInv, HostTypes, SlowIsNewest, Probes
<1>8. FastIsNewest' /\ TunnelsShown'
  BY <1>1 DEF HostLoopsInv, FastIsNewest, TunnelsShown
<1>9. ReportAsShown'
  BY <1>1, <1>5 DEF HostLoopsInv, ReportAsShown, ShownReport
<1>10. \A i \in RowIds : Forward(i)
  BY <1>1 DEF HostLoopsInv, HostTypes, States, Forward
<1> QED BY <1>4, <1>6, <1>7, <1>8, <1>9, <1>10 DEF HostLoopsInv

\* The end of a probe, with the tunnel it leaves.
LEMMA RecordStep ==
  ASSUME HostLoopsInv, NEW id \in RowIds, NEW report \in Reports, report.at = slow[id].at,
         report.socket => report.reachable /\ report.initialized,
         slow[id] # NoProbe,
         Recorded(id, report),
         \/ tunnels' = [tunnels EXCEPT ![id] = NoAddress]
         \/ report.socket /\ tunnels' = tunnels,
         UNCHANGED <<roster, fast, clock>>
  PROVE  HostLoopsInv' /\ \A i \in RowIds : Forward(i)
<1> DEFINE st == [at |-> report.at, reachable |-> report.reachable,
                  initialized |-> report.initialized, socket |-> report.socket,
                  sampled |-> hostStates[id].sampled]
<1>1. hostStates' = [hostStates EXCEPT ![id] = st]
      /\ slow' = [slow EXCEPT ![id] = NoProbe]
      /\ \/ /\ roster[id] # NoHost /\ runtimeRows' = [runtimeRows EXCEPT ![id] = report]
            /\ unstored' = unstored \ {id}
         \/ runtimeRows' = runtimeRows /\ unstored' = unstored \cup {id}
  <2> HIDE DEF NoReport, NoHost, NoState, NoProbe, NoSampling
  <2> QED BY DEF Recorded, StoredReport, Storable
<1>2. /\ report.at \in Nat /\ report.at >= 1 /\ report.at <= clock
      /\ report.at >= hostStates[id].at /\ report.at >= runtimeRows[id].at
  BY DEF HostLoopsInv, HostTypes, SlowIsNewest, Reports, Probes
<1>3. /\ st \in States /\ st.at = report.at /\ st.sampled = hostStates[id].sampled
      /\ (st.socket <=> report.socket) /\ (st.reachable <=> report.reachable)
      /\ (st.initialized <=> report.initialized) /\ st # NoState /\ report # NoReport
  BY <1>2 DEF HostLoopsInv, HostTypes, States, Reports
<1>4. [at |-> st.at, reachable |-> st.reachable, initialized |-> st.initialized,
       socket |-> st.socket] = report
  BY DEF Reports
<1>5. NoProbe \in Probes
  BY DEF Probes
<1> HIDE DEF st, NoReport, NoHost, NoState, NoProbe, NoSampling
<1>6. HostTypes'
  BY <1>1, <1>3, <1>5 DEF HostLoopsInv, HostTypes
<1>7. \A i \in RowIds : /\ i # id => hostStates'[i] = hostStates[i] /\ slow'[i] = slow[i]
                                     /\ runtimeRows'[i] = runtimeRows[i] /\ tunnels'[i] = tunnels[i]
                                     /\ (i \in unstored' <=> i \in unstored)
                        /\ roster'[i] = roster[i] /\ fast'[i] = fast[i]
  BY <1>1 DEF HostLoopsInv, HostTypes
<1>8. /\ hostStates'[id] = st /\ slow'[id] = NoProbe
      /\ \/ roster[id] # NoHost /\ runtimeRows'[id] = report
         \/ runtimeRows'[id] = runtimeRows[id] /\ id \in unstored'
      /\ (report.socket \/ tunnels'[id] = NoAddress)
  <2>1. roster \in [RowIds -> HostRecords] /\ runtimeRows \in [RowIds -> Reports]
        /\ hostStates \in [RowIds -> States] /\ slow \in [RowIds -> Probes]
        /\ tunnels \in [RowIds -> Addresses \cup {NoAddress}]
    BY DEF HostLoopsInv, HostTypes
  <2>2. hostStates'[id] = st /\ slow'[id] = NoProbe
    BY <1>1, <2>1
  <2>3. report.socket \/ tunnels'[id] = NoAddress
    BY <2>1
  <2>4. \/ roster[id] # NoHost /\ runtimeRows'[id] = report
        \/ runtimeRows'[id] = runtimeRows[id] /\ id \in unstored'
    BY <1>1, <2>1
  <2> QED BY <2>2, <2>3, <2>4
<1>9. TimesOK'
  <2> SUFFICES ASSUME NEW i \in RowIds PROVE TimesOK!(i)'
    BY DEF TimesOK
  <2>1. CASE i = id
    <3> QED BY <1>2, <1>3, <1>7, <1>8, <2>1 DEF HostLoopsInv, HostTypes, TimesOK, States, Reports
  <2>2. CASE i # id
    BY <1>7, <2>2 DEF HostLoopsInv, TimesOK
  <2> QED BY <2>1, <2>2
<1>10. SlowIsNewest'
  BY <1>7, <1>8 DEF HostLoopsInv, SlowIsNewest
<1>11. FastIsNewest'
  BY <1>3, <1>7, <1>8 DEF HostLoopsInv, FastIsNewest
<1>12. ReportAsShown'
  <2> SUFFICES ASSUME NEW i \in RowIds PROVE ReportAsShown!(i)'
    BY DEF ReportAsShown
  <2>1. CASE i = id
    <3>1. \/ runtimeRows'[id] = report
          \/ runtimeRows'[id] = runtimeRows[id] /\ id \in unstored'
      BY <1>8
    <3>2. hostStates'[id].at = report.at /\ report.at <= report.at
      <4>1. hostStates'[id] = st
        BY <1>8
      <4> QED BY <1>2, <1>3, <4>1
    <3>3. ShownReport(id)' = report
      BY <1>4, <1>8 DEF ShownReport
    <3> QED BY <1>2, <2>1, <3>1, <3>2, <3>3
  <2>2. CASE i # id
    <3>1. ReportAsShown!(i)
      BY DEF HostLoopsInv, ReportAsShown
    <3>2. ShownReport(i)' = ShownReport(i)
      BY <1>7, <2>2 DEF ShownReport
    <3> QED BY <1>7, <2>2, <3>1, <3>2
  <2> QED BY <2>1, <2>2
<1>13. TunnelsShown'
  BY <1>3, <1>7, <1>8 DEF HostLoopsInv, TunnelsShown
<1>14. \A i \in RowIds : Forward(i)
  BY <1>2, <1>3, <1>7, <1>8 DEF HostLoopsInv, HostTypes, Forward, States
<1> QED BY <1>6, <1>9, <1>10, <1>11, <1>12, <1>13, <1>14 DEF HostLoopsInv

\* The steps in which a probe begins, goes on, or looks at another phase.
LEMMA SlowMoves ==
  ASSUME HostLoopsInv, UNCHANGED <<roster, storedVars, hostStates, fast, clock>>,
         slow' \in [RowIds -> Probes],
         tunnels' \in [RowIds -> Addresses \cup {NoAddress}],
         \A i \in RowIds :
           /\ slow'[i] # NoProbe =>
                \/ slow'[i].at = clock
                \/ slow[i] # NoProbe /\ slow'[i].at = slow[i].at
           /\ slow'[i] = NoProbe => slow[i] = NoProbe
           /\ slow'[i] # NoProbe \/ tunnels'[i] \in {tunnels[i], NoAddress}
  PROVE  HostLoopsInv' /\ \A i \in RowIds : Forward(i)
<1> HIDE DEF NoReport, NoHost, NoState, NoProbe, NoSampling
<1>1. HostTypes'
  BY DEF HostLoopsInv, HostTypes
<1>2. TimesOK' /\ FastIsNewest' /\ ReportAsShown'
  BY DEF HostLoopsInv, TimesOK, FastIsNewest, ReportAsShown, ShownReport
<1>3. SlowIsNewest'
  <2>1. clock \in Nat /\ clock >= 1
    BY DEF HostLoopsInv, HostTypes
  <2>2. \A i \in RowIds : hostStates[i].at <= clock /\ runtimeRows[i].at <= clock
    BY DEF HostLoopsInv, TimesOK
  <2> QED BY <2>1, <2>2 DEF HostLoopsInv, SlowIsNewest
<1>4. TunnelsShown'
  BY DEF HostLoopsInv, TunnelsShown
<1>5. \A i \in RowIds : Forward(i)
  BY DEF HostLoopsInv, HostTypes, States, Forward
<1> QED BY <1>1, <1>2, <1>3, <1>4, <1>5 DEF HostLoopsInv

LEMMA SlowPassStep ==
  ASSUME HostLoopsInv, SlowPass
  PROVE  HostLoopsInv' /\ \A i \in RowIds : Forward(i)
<1>1. clock \in Nat /\ roster \in [RowIds -> HostRecords] /\ tunnels' = tunnels
      /\ tunnels \in [RowIds -> Addresses \cup {NoAddress}]
      /\ UNCHANGED <<roster, storedVars, hostStates, fast, clock>>
  BY DEF HostLoopsInv, HostTypes, SlowPass, rosterVars
<1>2. \A i \in RowIds :
        [address |-> roster[i].address, at |-> clock, phase |-> "identity"] \in Probes
  BY <1>1 DEF HostRecords, Probes
<1>3. slow' \in [RowIds -> Probes]
  BY <1>2 DEF SlowPass, Probes
<1>4. \A i \in RowIds : slow[i] = NoProbe /\ (slow'[i] # NoProbe => slow'[i].at = clock)
  BY DEF SlowPass
<1> HIDE DEF NoProbe
<1> QED BY <1>1, <1>3, <1>4, SlowMoves

\* A probe that goes to its next phase, having changed only its tunnel.
LEMMA PhaseStep ==
  ASSUME HostLoopsInv, NEW id \in RowIds, NEW phase \in {"tunnel", "list"},
         slow[id] # NoProbe, slow' = [slow EXCEPT ![id].phase = phase],
         tunnels' \in [RowIds -> Addresses \cup {NoAddress}],
         \A i \in RowIds \ {id} : tunnels'[i] = tunnels[i],
         UNCHANGED <<roster, storedVars, hostStates, fast, clock>>
  PROVE  HostLoopsInv' /\ \A i \in RowIds : Forward(i)
<1>1. slow \in [RowIds -> Probes]
  BY DEF HostLoopsInv, HostTypes
<1>2. slow' \in [RowIds -> Probes]
  BY <1>1 DEF Probes
<1>3. slow'[id] # NoProbe /\ slow'[id].at = slow[id].at
  BY <1>1 DEF Probes
<1>4. \A i \in RowIds \ {id} : slow'[i] = slow[i]
  BY <1>1
<1> HIDE DEF NoProbe
<1> QED BY <1>2, <1>3, <1>4, SlowMoves

LEMMA SlowStep ==
  ASSUME HostLoopsInv, NEW id \in RowIds, SlowIdentity(id) \/ SlowTunnel(id) \/ SlowList(id)
  PROVE  HostLoopsInv' /\ \A i \in RowIds : Forward(i)
<1>1. slow[id] # NoProbe
  <2>1. slow[id].phase # "idle"
    BY DEF SlowIdentity, SlowTunnel, SlowList
  <2> QED BY <2>1
<1>2. UNCHANGED <<roster, fast, clock>>
  BY DEF SlowIdentity, SlowTunnel, SlowList, rosterVars
<1>3. slow \in [RowIds -> Probes] /\ tunnels \in [RowIds -> Addresses \cup {NoAddress}]
      /\ slow[id].at \in Nat /\ slow[id].address \in Addresses \cup {NoAddress}
  BY DEF HostLoopsInv, HostTypes, Probes
<1> DEFINE Goal == HostLoopsInv' /\ \A i \in RowIds : Forward(i)
           Failed == Report(id, FALSE, FALSE, FALSE)
           Bare == Report(id, TRUE, FALSE, FALSE)
           Deaf == Report(id, TRUE, TRUE, FALSE)
           Whole == Report(id, TRUE, TRUE, TRUE)
           Closed == [tunnels EXCEPT ![id] = NoAddress]
<1>4. /\ {Failed, Bare, Deaf} \subseteq {r \in Reports : ~r.socket /\ r.at = slow[id].at}
      /\ Whole \in Reports /\ Whole.at = slow[id].at
      /\ (Whole.socket => Whole.reachable /\ Whole.initialized) /\ Whole.socket
  BY <1>3 DEF Report, Reports
<1> HIDE DEF Goal, Failed, Bare, Deaf, Whole, Closed, NoProbe
<1>5. ASSUME NEW r \in {Failed, Bare, Deaf}, Recorded(id, r), tunnels' = Closed
      PROVE  Goal
  BY <1>1, <1>2, <1>4, <1>5, RecordStep DEF Goal, Closed
<1>6. CASE Recorded(id, Whole) /\ tunnels' = tunnels
  BY <1>1, <1>2, <1>4, <1>6, RecordStep
<1>7. ASSUME NEW phase \in {"tunnel", "list"}, slow' = [slow EXCEPT ![id].phase = phase],
             tunnels' \in [RowIds -> Addresses \cup {NoAddress}],
             \A i \in RowIds \ {id} : tunnels'[i] = tunnels[i],
             UNCHANGED <<storedVars, hostStates>>
      PROVE  Goal
  BY <1>1, <1>2, <1>7, PhaseStep DEF Goal
<1>8. CASE SlowIdentity(id)
  <2>1. \/ Recorded(id, Failed) /\ tunnels' = Closed
        \/ Recorded(id, Bare) /\ tunnels' = Closed
        \/ slow' = [slow EXCEPT ![id].phase = "tunnel"]
           /\ UNCHANGED <<hostStates, storedVars, tunnels>>
    BY <1>8 DEF SlowIdentity, AfterBare, Failed, Bare, Closed
  <2>2. CASE slow' = [slow EXCEPT ![id].phase = "tunnel"]
             /\ UNCHANGED <<hostStates, storedVars, tunnels>>
    BY <1>3, <1>7, <2>2 DEF Goal
  <2> QED BY <1>5, <2>1, <2>2 DEF Goal
<1>9. CASE SlowTunnel(id)
  <2> DEFINE m == TunnelTo(id, slow[id].address)
  <2>1. m \in Addresses \cup {NoAddress}
    BY <1>3 DEF TunnelTo
  <2>2. \/ /\ tunnels' = [tunnels EXCEPT ![id] = m]
           /\ slow' = [slow EXCEPT ![id].phase = "list"]
           /\ UNCHANGED <<hostStates, storedVars>>
        \/ tunnels' = Closed /\ Recorded(id, Deaf)
    BY <1>9 DEF SlowTunnel, Deaf, Closed
  <2>3. CASE /\ tunnels' = [tunnels EXCEPT ![id] = m]
             /\ slow' = [slow EXCEPT ![id].phase = "list"]
             /\ UNCHANGED <<hostStates, storedVars>>
    <3> HIDE DEF m
    <3> QED BY <1>3, <1>7, <2>1, <2>3 DEF Goal
  <2> QED BY <1>5, <2>2, <2>3 DEF Goal
<1>10. CASE SlowList(id)
  <2>1. \/ Recorded(id, Whole) /\ tunnels' = tunnels
        \/ Recorded(id, Deaf) /\ tunnels' = Closed
    BY <1>10 DEF SlowList, Whole, Deaf, Closed
  <2> QED BY <1>5, <1>6, <2>1 DEF Goal
<1> QED BY <1>8, <1>9, <1>10

-----------------------------------------------------------------------------

\* What the fast loop begins with is what is shown, or stored after a restart.
LEMMA KnownOK ==
  ASSUME HostLoopsInv, NEW id \in RowIds
  PROVE  LET k == KnownState(id)
         IN  /\ k \in States /\ k.at <= clock /\ k.at >= hostStates[id].at
             /\ k.sampled = hostStates[id].sampled
             /\ slow[id] # NoProbe => slow[id].at >= k.at
             /\ k.socket => k.reachable /\ k.initialized
             /\ k = hostStates[id] \/ (hostStates[id] = NoState
                  /\ runtimeRows[id] = [at |-> k.at, reachable |-> k.reachable,
                                        initialized |-> k.initialized, socket |-> k.socket])
<1>1. runtimeRows[id] \in Reports /\ hostStates[id] \in States
  BY DEF HostLoopsInv, HostTypes
<1>2. CASE KnownState(id) = hostStates[id]
  BY <1>1, <1>2 DEF HostLoopsInv, TimesOK, SlowIsNewest, States
<1>3. CASE KnownState(id) # hostStates[id]
  <2> DEFINE r == runtimeRows[id]
             k == [at |-> r.at, reachable |-> r.reachable, initialized |-> r.initialized,
                   socket |-> r.socket, sampled |-> 0]
  <2>1. hostStates[id] = NoState /\ KnownState(id) = k
    BY <1>3 DEF KnownState
  <2>2. /\ k \in States /\ k.at = r.at /\ k.sampled = 0 /\ (k.socket <=> r.socket)
        /\ (k.reachable <=> r.reachable) /\ (k.initialized <=> r.initialized)
        /\ r = [at |-> k.at, reachable |-> k.reachable, initialized |-> k.initialized,
                socket |-> k.socket]
    BY <1>1 DEF Reports, States
  <2>3. NoState.at = 0 /\ NoState.sampled = 0
    OBVIOUS
  <2>4. r.at \in Nat /\ r.at <= clock /\ (slow[id] # NoProbe => slow[id].at >= r.at)
        /\ (r.socket => r.reachable /\ r.initialized)
    BY <1>1 DEF HostLoopsInv, TimesOK, SlowIsNewest, Reports
  <2> HIDE DEF k, NoState, NoProbe, r
  <2>5. k.at <= clock /\ k.at >= hostStates[id].at /\ k.sampled = hostStates[id].sampled
        /\ (slow[id] # NoProbe => slow[id].at >= k.at)
    BY <2>1, <2>2, <2>3, <2>4
  <2>6. k.socket => k.reachable /\ k.initialized
    BY <2>2, <2>4
  <2> QED BY <2>1, <2>2, <2>5, <2>6 DEF r
<1> QED BY <1>2, <1>3

LEMMA FastPassStep ==
  ASSUME HostLoopsInv, FastPass
  PROVE  HostLoopsInv' /\ \A i \in RowIds : Forward(i)
<1>1. /\ UNCHANGED <<roster, storedVars, tunnels, slow, clock>>
      /\ hostStates \in [RowIds -> States] /\ roster \in [RowIds -> HostRecords] /\ clock \in Nat
  BY DEF FastPass, rosterVars, HostLoopsInv, HostTypes
<1>2. \A i \in RowIds : hostStates'[i] \in {hostStates[i], KnownState(i)}
  BY DEF FastPass
<1>3. hostStates' = [i \in RowIds |-> hostStates'[i]]
  BY DEF FastPass
<1>4. \A i \in RowIds : KnownState(i) \in States
  BY KnownOK
<1>5. \A i \in RowIds : fast'[i] # NoSampling =>
        /\ Samplable(i) /\ fast'[i].at = clock
        /\ hostStates'[i] = KnownState(i) /\ KnownState(i).reachable
  <2> HIDE DEF NoSampling
  <2>1. \A i \in RowIds : fast'[i] # NoSampling =>
          Samplable(i) /\ fast'[i] = [address |-> roster[i].address, at |-> clock,
                                      state |-> KnownState(i)]
    BY DEF FastPass
  <2>2. \A i \in RowIds : Samplable(i) =>
          hostStates'[i] = KnownState(i) /\ KnownState(i).reachable
    BY DEF FastPass, Samplable
  <2>3. \A i \in RowIds :
          [address |-> roster[i].address, at |-> clock, state |-> KnownState(i)].at = clock
    OBVIOUS
  <2>4. ASSUME NEW i \in RowIds, fast'[i] # NoSampling
        PROVE  Samplable(i) /\ fast'[i].at = clock
    BY <2>1, <2>3, <2>4
  <2> QED BY <2>2, <2>4
<1>6. HostTypes'
  <2>1. fast' \in [RowIds -> Samplings]
    <3>1. \A i \in RowIds :
            [address |-> roster[i].address, at |-> clock, state |-> KnownState(i)] \in Samplings
      BY <1>1, <1>4 DEF Samplings, HostRecords
    <3>2. NoSampling \in Samplings
      BY DEF Samplings, States
    <3>3. fast' = [i \in RowIds |-> IF Samplable(i)
             THEN [address |-> roster[i].address, at |-> clock, state |-> KnownState(i)]
             ELSE NoSampling]
      BY DEF FastPass
    <3> DEFINE f(i) == [address |-> roster[i].address, at |-> clock, state |-> KnownState(i)]
    <3> HIDE DEF NoSampling, f
    <3>4. \A i \in RowIds : (IF Samplable(i) THEN f(i) ELSE NoSampling) \in Samplings
      BY <3>1, <3>2 DEF f
    <3>5. fast' = [i \in RowIds |-> IF Samplable(i) THEN f(i) ELSE NoSampling]
      BY <3>3 DEF f
    <3> QED BY <3>4, <3>5
  <2>2. hostStates' \in [RowIds -> States]
    BY <1>1, <1>2, <1>3, <1>4
  <2> QED BY <1>1, <2>1, <2>2 DEF HostLoopsInv, HostTypes
<1> HIDE DEF NoState, NoReport, NoHost, NoProbe, NoSampling
<1>7. \A i \in RowIds :
        LET k == hostStates'[i]
        IN  /\ k \in States /\ k.at <= clock /\ k.at >= hostStates[i].at
            /\ k.sampled = hostStates[i].sampled
            /\ slow[i] # NoProbe => slow[i].at >= k.at
            /\ k.socket => k.reachable /\ k.initialized
            /\ k = hostStates[i] \/ (hostStates[i] = NoState
                 /\ runtimeRows[i] = [at |-> k.at, reachable |-> k.reachable,
                                      initialized |-> k.initialized, socket |-> k.socket])
  <2> SUFFICES ASSUME NEW i \in RowIds
               PROVE  LET k == hostStates'[i]
        IN  /\ k \in States /\ k.at <= clock /\ k.at >= hostStates[i].at
            /\ k.sampled = hostStates[i].sampled
            /\ slow[i] # NoProbe => slow[i].at >= k.at
            /\ k.socket => k.reachable /\ k.initialized
            /\ k = hostStates[i] \/ (hostStates[i] = NoState
                 /\ runtimeRows[i] = [at |-> k.at, reachable |-> k.reachable,
                                      initialized |-> k.initialized, socket |-> k.socket])
    OBVIOUS
  <2>1. CASE hostStates'[i] = KnownState(i)
    BY <2>1, KnownOK
  <2>2. CASE hostStates'[i] = hostStates[i]
    BY <1>1, <2>2 DEF HostLoopsInv, TimesOK, SlowIsNewest, States
  <2> QED BY <1>2, <2>1, <2>2
<1>8. TimesOK'
  <2>1. \A i \in RowIds : hostStates[i].sampled <= clock
    BY DEF HostLoopsInv, TimesOK
  <2> QED BY <1>1, <1>7, <2>1 DEF HostLoopsInv, TimesOK
<1>9. SlowIsNewest'
  BY <1>1, <1>7 DEF HostLoopsInv, SlowIsNewest
<1>10. FastIsNewest'
  <2> SUFFICES ASSUME NEW i \in RowIds, fast'[i] # NoSampling
               PROVE  /\ fast'[i].at <= clock /\ fast'[i].at >= hostStates'[i].sampled
                      /\ hostStates'[i] # NoState
    BY <1>1 DEF FastIsNewest
  <2>1. hostStates'[i] # NoState
    BY <1>5 DEF NoState
  <2>2. hostStates[i].sampled <= clock /\ hostStates'[i].sampled = hostStates[i].sampled
    BY <1>7 DEF HostLoopsInv, TimesOK
  <2> QED BY <1>1, <1>5, <2>1, <2>2
<1>11. ReportAsShown'
  <2> SUFFICES ASSUME NEW i \in RowIds PROVE ReportAsShown!(i)'
    BY DEF ReportAsShown
  <2>1. runtimeRows' = runtimeRows /\ unstored' = unstored
    BY <1>1
  <2>2. CASE hostStates'[i] = hostStates[i]
    BY <2>1, <2>2 DEF HostLoopsInv, ReportAsShown, ShownReport
  <2>3. CASE runtimeRows[i] = ShownReport(i)'
    <3>1. runtimeRows[i].at = hostStates'[i].at /\ hostStates'[i].at \in Nat
      BY <1>7, <2>3 DEF ShownReport, States
    <3> QED BY <2>1, <2>3, <3>1
  <2> QED BY <1>7, <2>2, <2>3 DEF ShownReport
<1>12. TunnelsShown'
  <2>1. ~NoState.socket
    BY DEF NoState
  <2> QED BY <1>1, <1>7, <2>1 DEF HostLoopsInv, TunnelsShown
<1>13. \A i \in RowIds : Forward(i)
  <2> SUFFICES ASSUME NEW i \in RowIds
               PROVE  hostStates'[i].at >= hostStates[i].at
                      /\ hostStates'[i].sampled >= hostStates[i].sampled
    BY DEF Forward
  <2>1. hostStates[i].sampled \in Nat
    BY <1>1 DEF States
  <2>2. hostStates'[i].at >= hostStates[i].at /\ hostStates'[i].sampled = hostStates[i].sampled
    BY <1>7
  <2> QED BY <2>1, <2>2
<1> QED BY <1>6, <1>8, <1>9, <1>10, <1>11, <1>12, <1>13 DEF HostLoopsInv

LEMMA FastSampleStep ==
  ASSUME HostLoopsInv, NEW id \in RowIds, FastSample(id)
  PROVE  HostLoopsInv' /\ \A i \in RowIds : Forward(i)
<1> DEFINE st == [hostStates[id] EXCEPT !.sampled = fast[id].at]
<1>1. /\ UNCHANGED <<roster, storedVars, tunnels, slow, clock>>
      /\ hostStates \in [RowIds -> States] /\ fast \in [RowIds -> Samplings] /\ clock \in Nat
      /\ runtimeRows \in [RowIds -> Reports]
  BY DEF FastSample, rosterVars, HostLoopsInv, HostTypes
<1>2. fast' = [fast EXCEPT ![id] = NoSampling] /\ fast[id] # NoSampling
      /\ (hostStates' = hostStates \/ hostStates' = [hostStates EXCEPT ![id] = st])
  BY DEF FastSample, SampledState
<1>3. /\ fast[id].at <= clock /\ fast[id].at >= hostStates[id].sampled
      /\ hostStates[id] # NoState /\ fast[id].at \in Nat /\ hostStates[id] \in States
  BY <1>1, <1>2 DEF HostLoopsInv, FastIsNewest, Samplings
<1>4. /\ st \in States /\ st.at = hostStates[id].at /\ st.sampled = fast[id].at
      /\ (st.reachable <=> hostStates[id].reachable) /\ (st.socket <=> hostStates[id].socket)
      /\ (st.initialized <=> hostStates[id].initialized)
  BY <1>3 DEF States
<1>5. [at |-> st.at, reachable |-> st.reachable, initialized |-> st.initialized,
       socket |-> st.socket] = ShownReport(id)
  BY <1>3 DEF ShownReport, States
<1>6. NoSampling \in Samplings
  BY DEF Samplings, States
<1> HIDE DEF st, NoState, NoReport, NoHost, NoProbe, NoSampling
<1>7. \A i \in RowIds : /\ i # id => hostStates'[i] = hostStates[i] /\ fast'[i] = fast[i]
                        /\ fast'[id] = NoSampling
  BY <1>1, <1>2
<1>8. hostStates'[id] \in {hostStates[id], st}
  BY <1>1, <1>2
<1>9. HostTypes'
  BY <1>1, <1>2, <1>4, <1>6 DEF HostLoopsInv, HostTypes
<1>10. TimesOK'
  <2> SUFFICES ASSUME NEW i \in RowIds PROVE TimesOK!(i)'
    BY DEF TimesOK
  <2>1. CASE hostStates'[i] = hostStates[i]
    BY <1>1, <2>1 DEF HostLoopsInv, TimesOK
  <2>2. CASE i = id /\ hostStates'[i] = st
    BY <1>1, <1>3, <1>4, <2>2 DEF HostLoopsInv, TimesOK
  <2> QED BY <1>7, <1>8, <2>1, <2>2
<1>11. SlowIsNewest' /\ TunnelsShown'
  BY <1>1, <1>4, <1>7, <1>8 DEF HostLoopsInv, SlowIsNewest, TunnelsShown
<1>12. FastIsNewest'
  BY <1>1, <1>7 DEF HostLoopsInv, FastIsNewest
<1>13. ReportAsShown'
  <2> SUFFICES ASSUME NEW i \in RowIds, runtimeRows'[i] # NoReport, hostStates'[i] # NoState
               PROVE  runtimeRows'[i].at <= hostStates'[i].at
                      /\ (i \notin unstored' => ShownReport(i)' = runtimeRows'[i])
    BY DEF ReportAsShown
  <2>1. CASE hostStates'[i] = hostStates[i]
    BY <1>1, <2>1 DEF HostLoopsInv, ReportAsShown, ShownReport
  <2>2. CASE i = id /\ hostStates'[i] = st
    <3>1. ShownReport(id)' = ShownReport(id)
      BY <1>5, <2>2 DEF ShownReport
    <3> QED BY <1>1, <1>3, <1>4, <2>2, <3>1 DEF HostLoopsInv, ReportAsShown
  <2> QED BY <1>7, <1>8, <2>1, <2>2
<1>14. \A i \in RowIds : Forward(i)
  BY <1>1, <1>3, <1>4, <1>7, <1>8 DEF Forward, States
<1> QED BY <1>9, <1>10, <1>11, <1>12, <1>13, <1>14 DEF HostLoopsInv

\* The clock, the machines, a tunnel that dies and a restart.
LEMMA SurroundingStep ==
  ASSUME HostLoopsInv,
         \/ \E a \in Addresses, answer \in {"down", "bare", "ready"} : MachineChanges(a, answer)
         \/ \E id \in RowIds : TunnelDies(id)
         \/ TelemetryTick \/ TelemetryRestart \/ UNCHANGED telemetryVars
  PROVE  HostLoopsInv' /\ \A i \in RowIds : Forward(i)
<1>0. clock \in Nat /\ slow \in [RowIds -> Probes] /\ hostStates \in [RowIds -> States]
      /\ tunnels \in [RowIds -> Addresses \cup {NoAddress}]
  BY DEF HostLoopsInv, HostTypes
<1>1. CASE \/ \E a \in Addresses, answer \in {"down", "bare", "ready"} : MachineChanges(a, answer)
           \/ \E id \in RowIds : TunnelDies(id)
           \/ UNCHANGED telemetryVars
  <2>1. UNCHANGED <<roster, storedVars, hostStates, fast, clock, slow>>
    BY <1>1 DEF MachineChanges, TunnelDies, telemetryVars, rosterVars, LoopsUnchanged
  <2>2. tunnels' = tunnels \/ \E id \in RowIds : tunnels' = [tunnels EXCEPT ![id] = NoAddress]
    BY <1>1 DEF MachineChanges, TunnelDies, telemetryVars, LoopsUnchanged
  <2>3. tunnels' \in [RowIds -> Addresses \cup {NoAddress}]
        /\ \A i \in RowIds : tunnels'[i] \in {tunnels[i], NoAddress}
    BY <1>0, <2>2
  <2> HIDE DEF NoProbe
  <2> QED BY <1>0, <2>1, <2>3, SlowMoves
<1>2. CASE TelemetryTick
  <2>1. clock' = clock + 1 /\ UNCHANGED <<roster, storedVars, hostStates, tunnels, slow, fast>>
    BY <1>2 DEF TelemetryTick, rosterVars
  <2> HIDE DEF NoState, NoReport, NoHost, NoProbe, NoSampling
  <2>2. HostTypes' /\ ReportAsShown' /\ TunnelsShown'
    BY <2>1 DEF HostLoopsInv, HostTypes, ReportAsShown, ShownReport, TunnelsShown
  <2>3. \A i \in RowIds : /\ hostStates[i].at \in Nat /\ hostStates[i].sampled \in Nat
                          /\ runtimeRows[i].at \in Nat /\ slow[i].at \in Nat /\ fast[i].at \in Nat
    BY DEF HostLoopsInv, HostTypes, States, Reports, Probes, Samplings
  <2>4. TimesOK'
    BY <1>0, <2>1, <2>3 DEF HostLoopsInv, TimesOK
  <2>5. SlowIsNewest' /\ FastIsNewest'
    BY <1>0, <2>1, <2>3 DEF HostLoopsInv, SlowIsNewest, FastIsNewest
  <2>6. \A i \in RowIds : Forward(i)
    BY <2>1, <2>3 DEF Forward
  <2> QED BY <2>2, <2>4, <2>5, <2>6 DEF HostLoopsInv
<1>3. CASE TelemetryRestart
  <2>1. /\ hostStates' = [id \in RowIds |-> NoState] /\ tunnels' = [id \in RowIds |-> NoAddress]
        /\ slow' = [id \in RowIds |-> NoProbe] /\ fast' = [id \in RowIds |-> NoSampling]
        /\ UNCHANGED <<roster, runtimeRows, clock>>
    BY <1>3 DEF TelemetryRestart, rosterVars
  <2>2. NoState \in States /\ NoProbe \in Probes /\ NoSampling \in Samplings
        /\ NoState.at = 0 /\ NoState.sampled = 0 /\ ~NoState.socket
    BY DEF States, Probes, Samplings
  <2> HIDE DEF NoState, NoReport, NoHost, NoProbe, NoSampling
  <2>3. HostTypes'
    BY <2>1, <2>2 DEF HostLoopsInv, HostTypes
  <2>4. TimesOK'
    BY <1>0, <2>1, <2>2 DEF HostLoopsInv, TimesOK
  <2>5. SlowIsNewest' /\ FastIsNewest' /\ ReportAsShown' /\ TunnelsShown'
    BY <2>1 DEF SlowIsNewest, FastIsNewest, ReportAsShown, TunnelsShown
  <2>6. \A i \in RowIds : Forward(i)
    BY <2>1 DEF Forward
  <2> QED BY <2>3, <2>4, <2>5, <2>6 DEF HostLoopsInv
<1> QED BY <1>1, <1>2, <1>3

LEMMA HostLoopsStep ==
  ASSUME HostLoopsInv, [HostTelemetryNext]_telemetryVars
  PROVE  HostLoopsInv' /\ \A i \in RowIds : Forward(i)
BY InventoryStep, SlowStep, SlowPassStep, FastPassStep, FastSampleStep, SurroundingStep
DEF HostTelemetryNext

LEMMA HostLoopsHold == HostTelemetrySpec => []HostLoopsInv
<1>1. HostLoopsInv /\ [HostTelemetryNext]_telemetryVars => HostLoopsInv'
  BY HostLoopsStep
<1> QED BY <1>1, HostLoopsBegin, PTL DEF HostTelemetrySpec

\* A stored report is what both loops show unless the last one could not be
\* stored, and is then not newer; no tunnel is left open behind a host shown
\* without its socket, and every report is of a host of the inventory: for any
\* number of hosts and machines, any edits of the inventory while probes are in
\* flight, and any failures of the database.
THEOREM HostLoopsAgree == HostTelemetrySpec => []HostTelemetryInvariant
<1>1. HostLoopsInv => HostTelemetryTypeOK
  <2>1. HostLoopsInv => \A id \in RowIds : slow[id].phase \in {"idle", "identity", "tunnel", "list"}
    BY DEF HostLoopsInv, HostTypes, Probes
  <2> HIDE DEF NoState, NoReport, NoHost, NoProbe, NoSampling
  <2> QED BY <2>1 DEF HostLoopsInv, HostTypes, TimesOK, HostTelemetryTypeOK
<1>2. HostLoopsInv => ReportAsShown /\ NoTunnelLeft
  <2> HIDE DEF NoState, NoReport, NoHost, NoProbe, NoSampling
  <2> QED BY DEF HostLoopsInv, TunnelsShown, NoTunnelLeft
<1>3. HostLoopsInv => HostTelemetryInvariant
  BY <1>1, <1>2 DEF HostTelemetryInvariant
<1> QED BY <1>3, HostLoopsHold, PTL

\* Neither loop takes the state of a host back behind what the other has found
\* while it awaited the host.
THEOREM LoopsNeverGoBack == HostTelemetrySpec => LoopsKeepEachOther
<1>1. HostLoopsInv /\ [HostTelemetryNext]_telemetryVars =>
        [\A id \in RowIds : hostStates'[id] # NoState =>
           hostStates'[id].at >= hostStates[id].at
           /\ hostStates'[id].sampled >= hostStates[id].sampled]_telemetryVars
  <2> HIDE DEF NoState
  <2> QED BY HostLoopsStep DEF Forward
<1> QED BY <1>1, HostLoopsHold, PTL DEF HostTelemetrySpec, LoopsKeepEachOther

-----------------------------------------------------------------------------
\* The cluster loop of the collector.

USE ClusterTelemetryAssumption

Pairs == Nat \X Nat
\* A monitoring key is none, or one of a deployment there has been.
Keys == {None} \cup (1..MaxRecords) \X (1..MaxDeployments)
ClusterRows ==
  [number : 0..MaxRecords, assigned : {"nothing", "masters", "data"}, expected : Pairs, revision : Nat,
   managed : BOOLEAN, password : 0..MaxRecords, key : Keys]
Passes ==
  [phase : {"idle", "ca", "post", "metrics"}, of : ClusterRows, ca : Pairs,
   sealed : ClusterRows, cached : BOOLEAN]

ClusterTypes ==
  /\ cluster \in ClusterRows
  /\ created \in 1..MaxRecords
  /\ sites \in [1..MaxRecords -> 0..MaxDeployments]
  /\ pass \in Passes
  /\ caFile \in Pairs
  /\ shown \in [status : {"none", "unknown", "awaiting_data", "green"}, uuid : Pairs]
  /\ form \in [revision : Nat, expected : Pairs]
  /\ misses \in Nat

HasRead == pass.phase \in {"post", "metrics"}

\* Records are numbered in the order they are created, and a pass goes from
\* older to newer ones: the record it began with, the one whose credentials it
\* has read, the one of now.
NumbersOK ==
  /\ cluster.number \in {0, created}
  /\ pass.phase = "idle" => pass = NoPass
  /\ pass.phase # "idle" => pass.of.number \in 1..created
  /\ HasRead => pass.sealed.number \in pass.of.number..created
  /\ pass.phase = "post" => pass.sealed.key = None

\* Nobody but the pass itself replaces the credentials it has read.
SealedOK ==
  HasRead /\ pass.sealed.number = cluster.number => pass.sealed.password = cluster.password

\* Once a pass has failed, the next ones are all about the record there is now,
\* and a key they have asked for is one of the deployment there is now.
MissesOK ==
  /\ cluster.number = 0 => misses <= 1 /\ (misses = 1 => pass = NoPass)
  /\ cluster.number # 0 /\ misses >= 1 /\ pass # NoPass =>
       /\ pass.of.number = cluster.number
       /\ pass.phase = "metrics" /\ ~pass.cached => pass.sealed.key = Site(cluster.number)

\* Once two have failed, no stale CA is left, in the cache or in hand.
NoStaleCa ==
  cluster.number # 0 /\ misses >= 2 /\ cluster.password = cluster.number =>
    /\ caFile \in {None, Site(cluster.number)}
    /\ HasRead => pass.ca = Site(cluster.number)

CollectorInv ==
  /\ ClusterTypes
  /\ NumbersOK
  /\ SealedOK
  /\ MissesOK
  /\ NoStaleCa
  /\ RecoversInTwo

\* What one step may do to the record.
WritesOK ==
  /\ cluster.number # 0 /\ cluster'.number = cluster.number
     /\ cluster'.revision = cluster.revision /\ cluster.expected # None =>
       cluster'.expected = cluster.expected
  /\ cluster'.number = cluster.number /\ pass.of.number \in {0, cluster.number} =>
       cluster'.password = cluster.password

LEMMA Constants ==
  /\ None \in Pairs /\ Typed \in Pairs /\ None \in Keys
  /\ NoCluster \in ClusterRows /\ NoCluster.number = 0 /\ NoCluster.key = None
  /\ NoPass \in Passes /\ NoPass.phase = "idle" /\ NoPass.of = NoCluster
  /\ NoPass.sealed = NoCluster
<1>1. None \in Pairs /\ Typed \in Pairs /\ None \in Keys
  BY DEF None, Typed, Pairs, Keys
<1>2. NoCluster \in ClusterRows /\ NoCluster.number = 0 /\ NoCluster.key = None
  BY <1>1 DEF NoCluster, ClusterRows
<1>3. NoPass \in Passes /\ NoPass.phase = "idle" /\ NoPass.of = NoCluster /\ NoPass.sealed = NoCluster
  BY <1>1, <1>2 DEF NoPass, Passes
<1> QED BY <1>1, <1>2, <1>3

\* A new record.
LEMMA FreshRecord ==
  ASSUME NEW n \in 1..MaxRecords
  PROVE  LET c == [NoCluster EXCEPT !.number = n, !.password = n]
         IN  c \in ClusterRows /\ c.number = n /\ c.password = n
<1>1. NoCluster \in ClusterRows /\ n \in 0..MaxRecords
  BY Constants, ClusterTelemetryAssumption
<1> QED BY ONLY <1>1 DEF ClusterRows

\* Changes of a record by the operator.
LEMMA AssignedUpdates ==
  ASSUME NEW c \in ClusterRows, NEW a \in {"nothing", "masters", "data"}
  PROVE  LET t == [c EXCEPT !.assigned = a]
         IN  t \in ClusterRows /\ t.number = c.number /\ t.password = c.password
             /\ t.expected = c.expected
BY DEF ClusterRows

LEMMA ProviderUpdates ==
  ASSUME NEW c \in ClusterRows, NEW u \in Pairs
  PROVE  LET t == [c EXCEPT !.expected = u, !.managed = TRUE, !.revision = @ + 1]
             f == [c EXCEPT !.expected = u, !.managed = FALSE, !.revision = @ + 1]
         IN  /\ t \in ClusterRows /\ t.number = c.number /\ t.password = c.password
             /\ t.revision = c.revision + 1
             /\ f \in ClusterRows /\ f.number = c.number /\ f.password = c.password
             /\ f.revision = c.revision + 1
<1> DEFINE r == c.revision + 1
<1>1. r \in Nat
  BY DEF ClusterRows
<1> HIDE DEF r
<1>2. LET t == [c EXCEPT !.expected = u, !.managed = TRUE, !.revision = r]
      IN  t \in ClusterRows /\ t.number = c.number /\ t.password = c.password /\ t.revision = r
  BY <1>1 DEF ClusterRows
<1>3. LET f == [c EXCEPT !.expected = u, !.managed = FALSE, !.revision = r]
      IN  f \in ClusterRows /\ f.number = c.number /\ f.password = c.password /\ f.revision = r
  BY <1>1 DEF ClusterRows
<1> QED BY <1>2, <1>3 DEF r

\* Changes of a record by the collector.
LEMMA KeyUpdate ==
  ASSUME NEW c \in ClusterRows, NEW k \in Keys, NEW w \in 0..MaxRecords
  PROVE  LET s == [c EXCEPT !.key = k, !.password = w]
         IN  /\ s \in ClusterRows /\ s.number = c.number /\ s.password = w
             /\ s.expected = c.expected
BY DEF ClusterRows

LEMMA PinUpdate ==
  ASSUME NEW c \in ClusterRows, NEW u \in Pairs
  PROVE  LET e == [c EXCEPT !.expected = u]
         IN  /\ e \in ClusterRows /\ e.number = c.number /\ e.password = c.password
             /\ e.expected = u
BY DEF ClusterRows

LEMMA ClearUpdate ==
  ASSUME NEW c \in ClusterRows
  PROVE  LET d == [c EXCEPT !.key = None]
         IN  /\ d \in ClusterRows /\ d.number = c.number /\ d.password = c.password
             /\ d.expected = c.expected /\ d.key = None
BY Constants DEF ClusterRows

\* Changes of a pass.
LEMMA PassUpdates ==
  ASSUME NEW p \in Passes, NEW c \in ClusterRows, NEW f \in Pairs, NEW x \in {"ca", "post", "metrics"}
  PROVE  LET o == [p EXCEPT !.of = c]
             h == [p EXCEPT !.phase = x]
             a == [p EXCEPT !.ca = f]
         IN  /\ o \in Passes /\ o.of = c
             /\ h \in Passes /\ h.of = p.of /\ h.phase = x
             /\ a \in Passes /\ a.of = p.of /\ a.ca = f
<1>1. LET o == [p EXCEPT !.of = c] IN o \in Passes /\ o.of = c
  BY DEF Passes
<1>2. LET h == [p EXCEPT !.phase = x] IN h \in Passes /\ h.of = p.of /\ h.phase = x
  BY DEF Passes
<1>3. LET a == [p EXCEPT !.ca = f] IN a \in Passes /\ a.of = p.of /\ a.ca = f
  BY DEF Passes
<1> QED BY <1>1, <1>2, <1>3

\* The pass once it has read a row, whose key it may use.
LEMMA ReadUpdate ==
  ASSUME NEW p \in Passes, NEW c \in ClusterRows
  PROVE  LET r == [p EXCEPT !.sealed = c, !.cached = c.key # None,
                            !.phase = IF c.key # None THEN "metrics" ELSE "post"]
         IN  /\ r \in Passes /\ r.of = p.of /\ r.ca = p.ca /\ r.sealed = c
             /\ r.phase \in {"post", "metrics"}
             /\ (r.phase = "metrics" => r.cached) /\ (r.phase = "post" => c.key = None)
<1> DEFINE x == IF c.key # None THEN "metrics" ELSE "post"
           b == c.key # None
           r == [p EXCEPT !.sealed = c, !.cached = b, !.phase = x]
<1>1. x \in {"post", "metrics"} /\ (x = "post" => c.key = None) /\ (x = "metrics" => b)
      /\ b \in BOOLEAN
  <2>1. CASE c.key = None
    BY <2>1
  <2>2. CASE c.key # None
    BY <2>2
  <2> QED BY <2>1, <2>2
<1> HIDE DEF x, b
<1>2. r.of = p.of /\ r.ca = p.ca /\ r.phase = x /\ r.sealed = c
  BY DEF Passes
<1>3. r.cached <=> b
  BY <1>1 DEF Passes
<1>6. r \in Passes
  <2>1. \A b1 \in BOOLEAN, x1 \in {"post", "metrics"} :
          [p EXCEPT !.sealed = c, !.cached = b1, !.phase = x1] \in Passes
    BY DEF Passes
  <2> QED BY <1>1, <2>1
<1> HIDE DEF r
<1>7. r.phase = "metrics" => r.cached
  BY <1>1, <1>2, <1>3
<1>8. r.phase \in {"post", "metrics"} /\ (r.phase = "post" => c.key = None)
  BY <1>1, <1>2
<1> QED BY <1>2, <1>6, <1>7, <1>8 DEF r, x, b

\* The pass whose key was refused: it has none.
LEMMA RefusedUpdate ==
  ASSUME NEW p \in Passes, NEW c \in ClusterRows
  PROVE  LET r == [p EXCEPT !.sealed = c, !.cached = FALSE, !.phase = "post"]
         IN  /\ r \in Passes /\ r.of = p.of /\ r.ca = p.ca /\ r.sealed = c /\ r.phase = "post"
BY DEF Passes

LEMMA SealUpdate ==
  ASSUME NEW p \in Passes, NEW k \in Keys
  PROVE  LET q == [p EXCEPT !.sealed.key = k, !.phase = "metrics"]
         IN  /\ q \in Passes /\ q.of = p.of /\ q.ca = p.ca /\ q.phase = "metrics"
             /\ q.sealed.number = p.sealed.number /\ q.sealed.password = p.sealed.password
             /\ q.sealed.key = k
<1> DEFINE c == [p.sealed EXCEPT !.key = k]
           q == [p EXCEPT !.sealed.key = k, !.phase = "metrics"]
<1>1. p.sealed \in ClusterRows
  BY DEF Passes
<1>2. c \in ClusterRows /\ c.number = p.sealed.number /\ c.password = p.sealed.password
      /\ c.key = k
  BY <1>1 DEF ClusterRows
<1>3. q = [p EXCEPT !.sealed = c, !.phase = "metrics"]
  OBVIOUS
<1> HIDE DEF c
<1>4. LET r == [p EXCEPT !.sealed = c, !.phase = "metrics"]
      IN  /\ r \in Passes /\ r.of = p.of /\ r.ca = p.ca /\ r.phase = "metrics" /\ r.sealed = c
  BY <1>2 DEF Passes
<1> HIDE DEF q
<1> QED BY <1>2, <1>3, <1>4 DEF q

\* The fields of the rows in use.
LEMMA FieldsOK ==
  ASSUME CollectorInv
  PROVE  /\ cluster \in ClusterRows /\ pass \in Passes /\ pass.of \in ClusterRows
         /\ pass.sealed \in ClusterRows /\ pass.ca \in Pairs
         /\ cluster.number \in 0..MaxRecords /\ cluster.password \in 0..MaxRecords
         /\ cluster.revision \in Nat /\ cluster.expected \in Pairs /\ cluster.key \in Keys
         /\ pass.of.number \in 0..MaxRecords /\ pass.sealed.number \in 0..MaxRecords
         /\ pass.sealed.password \in 0..MaxRecords
         /\ created \in 1..MaxRecords /\ misses \in Nat
         /\ sites \in [1..MaxRecords -> 0..MaxDeployments]
         /\ pass.phase \in {"idle", "ca", "post", "metrics"}
<1>1. cluster \in ClusterRows /\ pass \in Passes /\ created \in 1..MaxRecords /\ misses \in Nat
      /\ sites \in [1..MaxRecords -> 0..MaxDeployments]
  BY DEF CollectorInv, ClusterTypes
<1>2. pass.of \in ClusterRows /\ pass.sealed \in ClusterRows /\ pass.ca \in Pairs
      /\ pass.phase \in {"idle", "ca", "post", "metrics"}
  BY <1>1 DEF Passes
<1>3. \A c \in ClusterRows :
        /\ c.number \in 0..MaxRecords /\ c.password \in 0..MaxRecords /\ c.revision \in Nat
        /\ c.expected \in Pairs /\ c.key \in Keys
  BY DEF ClusterRows
<1> QED BY <1>1, <1>2, <1>3

LEMMA SiteOK ==
  ASSUME NEW g \in 1..MaxRecords, sites \in [1..MaxRecords -> 0..MaxDeployments]
  PROVE  Site(g) \in Pairs /\ Site(g) # None /\ (sites[g] # 0 => Site(g) \in Keys)
BY DEF Site, Pairs, None, Keys

\* A pass that is given up: what is needed of why it was.
LEMMA FailStep ==
  ASSUME CollectorInv, pass.phase # "idle",
         pass' = NoPass /\ shown' = [shown EXCEPT !.status = "unknown"],
         misses' = IF misses < 3 THEN misses + 1 ELSE misses,
         UNCHANGED <<cluster, created, sites, form>>, caFile' \in Pairs,
         \/ cluster.number = 0
         \/ HasRead /\ pass.ca # Site(pass.of.number) /\ caFile' = None
         \/ cluster.password # cluster.number
         \/ misses = 0
  PROVE  CollectorInv'
<1> USE FieldsOK, Constants
<1>1. ClusterTypes'
  <2>1. shown' \in [status : {"none", "unknown", "awaiting_data", "green"}, uuid : Pairs]
    BY DEF CollectorInv, ClusterTypes
  <2>2. misses' \in Nat
    OBVIOUS
  <2> QED BY <2>1, <2>2 DEF CollectorInv, ClusterTypes
<1>2. NumbersOK'
  BY DEF CollectorInv, NumbersOK, HasRead
<1>3. SealedOK'
  BY DEF SealedOK, HasRead
<1>4. pass # NoPass
  OBVIOUS
<1>5. cluster.number = 0 => misses = 0
  BY <1>4 DEF CollectorInv, MissesOK
<1>6. misses' <= misses + 1 /\ (misses = 0 => misses' = 1)
  OBVIOUS
<1>7. MissesOK'
  BY <1>5, <1>6 DEF MissesOK
<1>8. Site(cluster.number)' = Site(cluster.number)
  BY DEF Site
<1>9. misses >= 1 /\ cluster.number # 0 => pass.of.number = cluster.number
  BY <1>4 DEF CollectorInv, MissesOK
<1>10. NoStaleCa'
  BY <1>5, <1>6 DEF NoStaleCa, HasRead
<1>11. RecoversInTwo'
  <2> SUFFICES ASSUME misses' > 2 PROVE cluster.number # 0 /\ cluster.password # cluster.number
    BY DEF RecoversInTwo
  <2>1. misses >= 2 /\ cluster.number # 0
    BY <1>5, <1>6
  <2>2. CASE HasRead /\ pass.ca # Site(pass.of.number)
    BY <1>9, <2>1, <2>2 DEF CollectorInv, NoStaleCa
  <2> QED BY <2>1, <2>2
<1> QED BY <1>1, <1>2, <1>3, <1>7, <1>10, <1>11 DEF CollectorInv

\* A pass that has read the credentials of a record.
LEMMA ReadStep ==
  ASSUME CollectorInv, cluster.number # 0, NEW p \in Passes, ReadCredentials(p),
         p.of.number \in 1..created,
         UNCHANGED <<cluster, created, sites, form>>, caFile' \in Pairs,
         misses >= 1 => p.of.number = cluster.number,
         misses >= 2 /\ cluster.password = cluster.number =>
           p.ca = Site(cluster.number) /\ caFile' \in {None, Site(cluster.number)}
  PROVE  CollectorInv'
<1> DEFINE r == [p EXCEPT !.sealed = cluster, !.cached = cluster.key # None,
                          !.phase = IF cluster.key # None THEN "metrics" ELSE "post"]
<1>1. pass' = r /\ UNCHANGED <<shown, misses>>
  BY DEF ReadCredentials
<1>2. /\ r \in Passes /\ r.of = p.of /\ r.ca = p.ca /\ r.sealed = cluster
      /\ r.phase \in {"post", "metrics"}
      /\ (r.phase = "metrics" => r.cached) /\ (r.phase = "post" => cluster.key = None)
  BY FieldsOK, ReadUpdate
<1> HIDE DEF r
<1>3. /\ pass' \in Passes /\ pass'.of = p.of /\ pass'.ca = p.ca /\ pass'.sealed = cluster
      /\ pass'.phase \in {"post", "metrics"}
      /\ (pass'.phase = "metrics" => pass'.cached) /\ (pass'.phase = "post" => cluster.key = None)
  BY <1>1, <1>2
<1> USE FieldsOK, Constants
<1>4. cluster.number = created
  BY DEF CollectorInv, NumbersOK
<1>5. ClusterTypes'
  BY <1>1, <1>3 DEF CollectorInv, ClusterTypes
<1>6. NumbersOK'
  BY <1>2, <1>3, <1>4 DEF NumbersOK, HasRead
<1>7. SealedOK'
  BY <1>3 DEF SealedOK
<1>8. MissesOK'
  BY <1>1, <1>2, <1>3 DEF CollectorInv, MissesOK
<1>9. Site(cluster.number)' = Site(cluster.number)
  BY DEF Site
<1>10. NoStaleCa'
  BY <1>1, <1>3, <1>9 DEF NoStaleCa
<1>11. RecoversInTwo'
  BY <1>1 DEF CollectorInv, RecoversInTwo
<1> QED BY <1>5, <1>6, <1>7, <1>8, <1>10, <1>11 DEF CollectorInv

-----------------------------------------------------------------------------

\* The operator and the deployments: a new count of failed passes begins.
LEMMA OperatorStep ==
  ASSUME CollectorInv,
         \/ CreateCluster \/ DetachMasters \/ DeleteClusterRecord
         \/ AssignData("masters", "data") \/ AssignData("data", "masters")
         \/ \E n \in 1..MaxDeployments : DeployMasters(n)
  PROVE  CollectorInv' /\ WritesOK
<1> USE FieldsOK, Constants
<1> DEFINE Kept == /\ created' = created /\ cluster'.number = cluster.number
                   /\ cluster'.password = cluster.password /\ cluster'.expected = cluster.expected
           Over == created' = created /\ cluster.number # 0 /\ cluster'.number = 0
           New == created' = created + 1 /\ cluster.number = 0 /\ cluster'.number = created'
<1>1. misses' = 0 /\ pass' = pass /\ shown' = shown /\ form' = form
  BY DEF CreateCluster, DetachMasters, AssignData, DeleteClusterRecord, DeployMasters, Disturbed,
         CollectorUnchanged
<1>2. cluster' \in ClusterRows /\ created' \in 1..MaxRecords /\ (Kept \/ Over \/ New)
  <2>1. CASE CreateCluster
    <3>1. created' = created + 1 /\ created' \in 1..MaxRecords /\ cluster.number = 0
          /\ cluster' = [NoCluster EXCEPT !.number = created', !.password = created']
      BY <2>1 DEF CreateCluster
    <3> QED BY <3>1, FreshRecord
  <2>2. CASE DeleteClusterRecord
    BY <2>2 DEF DeleteClusterRecord
  <2>3. CASE DetachMasters
    BY <2>3, AssignedUpdates DEF DetachMasters
  <2>4. CASE \E n \in 1..MaxDeployments : DeployMasters(n)
    BY <2>4, AssignedUpdates, ZenonT(60) DEF DeployMasters
  <2>5. CASE AssignData("masters", "data") \/ AssignData("data", "masters")
    BY <2>5, AssignedUpdates, ZenonT(60) DEF AssignData
  <2> QED BY <2>1, <2>2, <2>3, <2>4, <2>5
<1>3. sites' \in [1..MaxRecords -> 0..MaxDeployments] /\ caFile' \in Pairs
  <2>1. sites' = sites \/ \E n \in 1..MaxDeployments :
          cluster.number # 0 /\ sites' = [sites EXCEPT ![cluster.number] = n]
    BY DEF CreateCluster, DetachMasters, AssignData, DeleteClusterRecord, DeployMasters
  <2>2. caFile' \in {caFile, None}
    BY DEF CreateCluster, DetachMasters, AssignData, DeleteClusterRecord, DeployMasters
  <2>3. caFile \in Pairs
    BY DEF CollectorInv, ClusterTypes
  <2>4. sites' \in [1..MaxRecords -> 0..MaxDeployments]
    <3>1. sites \in [1..MaxRecords -> 0..MaxDeployments]
      OBVIOUS
    <3>2. \A n \in 1..MaxDeployments :
            [sites EXCEPT ![cluster.number] = n] \in [1..MaxRecords -> 0..MaxDeployments]
      <4> TAKE n \in 1..MaxDeployments
      <4>1. n \in 0..MaxDeployments
        OBVIOUS
      <4> QED BY ONLY <3>1, <4>1
    <3> QED BY ONLY <2>1, <3>1, <3>2
  <2> QED BY <2>2, <2>3, <2>4
<1>4. ClusterTypes'
  BY <1>1, <1>2, <1>3 DEF CollectorInv, ClusterTypes
<1>5. NumbersOK'
  <2>1. created \in 1..created' /\ cluster'.number \in {0, created'}
    BY <1>2 DEF CollectorInv, NumbersOK
  <2>2. (pass.phase = "idle" => pass = NoPass) /\ (pass.phase = "post" => pass.sealed.key = None)
    BY DEF CollectorInv, NumbersOK
  <2>3. /\ pass.phase # "idle" => pass.of.number \in 1..created'
        /\ HasRead => pass.sealed.number \in pass.of.number..created'
    <3>1. created \in Nat /\ created' \in Nat /\ created <= created'
      BY <1>2, SMTT(30)
    <3>2. /\ pass.phase # "idle" => pass.of.number \in 1..created
          /\ HasRead => pass.sealed.number \in pass.of.number..created
          /\ pass.of.number \in Nat
      BY DEF CollectorInv, NumbersOK
    <3> QED BY ONLY <3>1, <3>2
  <2> QED BY <1>1, <2>1, <2>2, <2>3 DEF NumbersOK, HasRead
<1>6. SealedOK'
  <2>1. HasRead => pass.sealed.number \in 1..created
    BY SMTT(30) DEF CollectorInv, NumbersOK, HasRead
  <2> QED BY <1>1, <1>2, <2>1, SMTT(30) DEF CollectorInv, SealedOK, HasRead
<1>7. MissesOK' /\ NoStaleCa' /\ RecoversInTwo'
  BY <1>1 DEF MissesOK, NoStaleCa, RecoversInTwo
<1>8. WritesOK
  BY <1>2 DEF WritesOK
<1> QED BY <1>4, <1>5, <1>6, <1>7, <1>8 DEF CollectorInv

\* The provider form, which changes neither numbers nor passwords.
LEMMA ProviderStep ==
  ASSUME CollectorInv,
         \/ OpenProviderForm
         \/ \E uuid \in {form.expected, Typed}, managed \in BOOLEAN : SaveProvider(uuid, managed)
  PROVE  CollectorInv' /\ WritesOK
<1> USE FieldsOK, Constants
<1>1. UNCHANGED <<created, sites, pass, shown, caFile, misses>>
  BY DEF OpenProviderForm, SaveProvider, CollectorUnchanged
<1>2. form \in [revision : Nat, expected : Pairs] /\ form.expected \in Pairs
  BY DEF CollectorInv, ClusterTypes
<1>3. form' \in [revision : Nat, expected : Pairs]
  <2>1. form' = form \/ form' = [revision |-> cluster.revision, expected |-> cluster.expected]
    BY DEF OpenProviderForm, SaveProvider
  <2> QED BY <1>2, <2>1
<1>4. /\ cluster' \in ClusterRows /\ cluster'.number = cluster.number
      /\ cluster'.password = cluster.password
      /\ cluster' = cluster \/ cluster'.revision = cluster.revision + 1
  <2>1. CASE OpenProviderForm
    BY <2>1 DEF OpenProviderForm
  <2>2. ASSUME NEW uuid \in {form.expected, Typed}, NEW managed \in BOOLEAN,
               SaveProvider(uuid, managed)
        PROVE  <1>4
    <3>1. cluster' = [cluster EXCEPT !.expected = uuid, !.managed = managed, !.revision = @ + 1]
      BY <2>2 DEF SaveProvider
    <3>2. uuid \in Pairs
      BY <1>2
    <3>3. cluster \in ClusterRows
      OBVIOUS
    <3>4. /\ cluster' \in ClusterRows /\ cluster'.number = cluster.number
          /\ cluster'.password = cluster.password /\ cluster'.revision = cluster.revision + 1
      <4>1. CASE cluster' = [cluster EXCEPT !.expected = uuid, !.managed = TRUE, !.revision = @ + 1]
        BY <3>2, <3>3, <4>1, ProviderUpdates
      <4>2. CASE cluster' = [cluster EXCEPT !.expected = uuid, !.managed = FALSE, !.revision = @ + 1]
        BY <3>2, <3>3, <4>2, ProviderUpdates
      <4>3. managed = TRUE \/ managed = FALSE
        OBVIOUS
      <4> QED BY <3>1, <4>1, <4>2, <4>3
    <3> QED BY <3>4
  <2> QED BY <2>1, <2>2
<1>5. ClusterTypes'
  BY <1>1, <1>3, <1>4 DEF CollectorInv, ClusterTypes
<1>6. NumbersOK' /\ SealedOK'
  BY <1>1, <1>4 DEF CollectorInv, NumbersOK, SealedOK, HasRead
<1>7. MissesOK' /\ NoStaleCa' /\ RecoversInTwo'
  BY <1>1, <1>4 DEF CollectorInv, MissesOK, NoStaleCa, RecoversInTwo, HasRead, Site
<1>8. WritesOK
  BY <1>4 DEF WritesOK
<1> QED BY <1>5, <1>6, <1>7, <1>8 DEF CollectorInv

LEMMA PassBeginsStep ==
  ASSUME CollectorInv, PassBegins
  PROVE  CollectorInv' /\ WritesOK
<1> DEFINE p == [NoPass EXCEPT !.of = cluster]
<1>1. /\ pass = NoPass /\ cluster.number # 0
      /\ UNCHANGED <<cluster, caFile, created, sites, form>>
  BY DEF PassBegins, SurroundingsUnchanged
<1>2. p \in Passes /\ p.of = cluster
  <2>1. NoPass \in Passes /\ cluster \in ClusterRows
    BY FieldsOK, Constants
  <2> QED BY <2>1 DEF Passes
<1>3. cluster.number = created /\ cluster.number \in 1..created /\ caFile \in Pairs
  BY <1>1, FieldsOK, SMTT(30) DEF CollectorInv, NumbersOK, ClusterTypes
<1>4. WritesOK
  BY <1>1 DEF WritesOK
<1>5. Site(cluster.number)' = Site(cluster.number)
  BY <1>1 DEF Site
<1>6. \/ /\ \E st \in {"unknown", "awaiting_data"} : shown' = [status |-> st, uuid |-> None]
         /\ UNCHANGED <<pass, misses>>
      \/ caFile # None /\ ReadCredentials([p EXCEPT !.ca = caFile])
      \/ caFile = None /\ pass' = [p EXCEPT !.phase = "ca"] /\ UNCHANGED <<shown, misses>>
  BY DEF PassBegins
<1> HIDE DEF p
<1>7. CASE /\ \E st \in {"unknown", "awaiting_data"} : shown' = [status |-> st, uuid |-> None]
           /\ UNCHANGED <<pass, misses>>
  <2>1. ClusterTypes'
    BY <1>1, <1>7, Constants DEF CollectorInv, ClusterTypes
  <2>2. NumbersOK' /\ SealedOK' /\ MissesOK' /\ NoStaleCa' /\ RecoversInTwo'
    BY <1>1, <1>5, <1>7 DEF CollectorInv, NumbersOK, SealedOK, MissesOK, NoStaleCa, RecoversInTwo,
       HasRead
  <2> QED BY <1>4, <2>1, <2>2 DEF CollectorInv
<1>8. CASE caFile # None /\ ReadCredentials([p EXCEPT !.ca = caFile])
  <2> DEFINE q == [p EXCEPT !.ca = caFile]
  <2>1. q \in Passes /\ q.of = cluster /\ q.ca = caFile
    BY <1>2, <1>3, FieldsOK, PassUpdates, ZenonT(60)
  <2>2. ReadCredentials(q)
    BY <1>8
  <2> HIDE DEF q
  <2>3. misses >= 2 /\ cluster.password = cluster.number =>
          q.ca = Site(cluster.number) /\ caFile' \in {None, Site(cluster.number)}
    BY <1>1, <1>8, <2>1 DEF CollectorInv, NoStaleCa
  <2>4. q.of.number = cluster.number /\ q.of.number \in 1..created
    BY <1>3, <2>1
  <2> QED BY <1>1, <1>3, <1>4, <2>1, <2>2, <2>3, <2>4, ReadStep
<1>9. CASE caFile = None /\ pass' = [p EXCEPT !.phase = "ca"] /\ UNCHANGED <<shown, misses>>
  <2>1. pass' \in Passes /\ pass'.of = cluster /\ pass'.phase = "ca"
    BY <1>2, <1>3, <1>9, FieldsOK, PassUpdates
  <2>2. ClusterTypes'
    BY <1>1, <1>9, <2>1 DEF CollectorInv, ClusterTypes
  <2>3. NumbersOK' /\ SealedOK'
    BY <1>1, <1>3, <2>1 DEF NumbersOK, SealedOK, HasRead
  <2>4. MissesOK' /\ NoStaleCa' /\ RecoversInTwo'
    BY <1>1, <1>5, <1>9, <2>1 DEF CollectorInv, MissesOK, NoStaleCa, RecoversInTwo, HasRead
  <2> QED BY <1>4, <2>2, <2>3, <2>4 DEF CollectorInv
<1> QED BY <1>6, <1>7, <1>8, <1>9

LEMMA CaAnswersStep ==
  ASSUME CollectorInv, CaAnswers
  PROVE  CollectorInv' /\ WritesOK
<1> DEFINE g == pass.of.number
           q == [pass EXCEPT !.ca = Site(g)]
<1>1. /\ pass.phase = "ca" /\ sites[g] # 0 /\ caFile' = Site(g) /\ ReadCredentials(q)
      /\ UNCHANGED <<cluster, created, sites, form>>
  BY DEF CaAnswers, SurroundingsUnchanged
<1>2. g \in 1..created /\ g \in 1..MaxRecords /\ pass # NoPass
  BY <1>1, FieldsOK, Constants DEF CollectorInv, NumbersOK
<1>3. Site(g) \in Pairs
  BY <1>2, FieldsOK, SiteOK
<1>4. q \in Passes /\ q.of = pass.of /\ q.ca = Site(g)
  BY <1>3, FieldsOK, PassUpdates, ZenonT(60)
<1>5. WritesOK
  BY <1>1 DEF WritesOK
<1>6. misses >= 1 /\ cluster.number # 0 => g = cluster.number
  BY <1>2 DEF CollectorInv, MissesOK
<1> HIDE DEF q
<1>7. CASE cluster.number = 0
  <2>1. PassFails
    BY <1>1, <1>7 DEF ReadCredentials
  <2> QED BY <1>1, <1>3, <1>5, <1>7, <2>1, FailStep DEF PassFails
<1>8. CASE cluster.number # 0
  <2>1. q.of.number \in 1..created /\ (misses >= 1 => q.of.number = cluster.number)
    BY <1>2, <1>4, <1>6, <1>8
  <2>2. misses >= 2 /\ cluster.password = cluster.number =>
          q.ca = Site(cluster.number) /\ caFile' \in {None, Site(cluster.number)}
    BY <1>1, <1>4, <1>6, <1>8, FieldsOK
  <2> QED BY <1>1, <1>3, <1>4, <1>5, <1>8, <2>1, <2>2, ReadStep
<1> QED BY <1>7, <1>8

LEMMA VerificationFailsStep ==
  ASSUME CollectorInv, VerificationFails
  PROVE  CollectorInv' /\ WritesOK
<1>1. /\ HasRead /\ pass.ca # Site(pass.of.number) /\ caFile' = None /\ PassFails
      /\ UNCHANGED <<cluster, created, sites, form>>
  BY DEF VerificationFails, Verified, HasRead, CaAfter, SurroundingsUnchanged
<1>2. WritesOK
  BY <1>1 DEF WritesOK
<1>3. pass.phase # "idle"
  BY <1>1 DEF HasRead
<1> QED BY <1>1, <1>2, <1>3, Constants, FailStep DEF PassFails

LEMMA KeyAnswersStep ==
  ASSUME CollectorInv, KeyAnswers
  PROVE  CollectorInv' /\ WritesOK
<1> DEFINE g == pass.of.number
<1> USE FieldsOK
<1>1. /\ pass.phase = "post" /\ sites[g] # 0 /\ pass.ca = Site(g)
      /\ UNCHANGED <<caFile, created, sites, form>>
  BY DEF KeyAnswers, Verified, SurroundingsUnchanged
<1>2. g \in 1..created /\ g \in 1..MaxRecords /\ pass # NoPass
      /\ pass.sealed.number \in g..created /\ cluster.number \in {0, created}
  BY <1>1, Constants DEF CollectorInv, NumbersOK, HasRead
<1>3. Site(g) \in Pairs /\ Site(g) \in Keys
  BY <1>1, <1>2, SiteOK
<1>4. misses >= 1 /\ cluster.number # 0 => g = cluster.number
  BY <1>2 DEF CollectorInv, MissesOK
<1>5. cluster.number = g => pass.sealed.password = cluster.password
  <2>1. cluster.number = g => pass.sealed.number = cluster.number
    BY <1>2
  <2> QED BY <1>1, <2>1 DEF CollectorInv, SealedOK, HasRead
<1>7. CASE pass.sealed.password = g /\ cluster.number # 0
  <2>1. /\ cluster' = [cluster EXCEPT !.key = Site(g), !.password = pass.sealed.password]
        /\ pass' = [pass EXCEPT !.sealed.key = Site(g), !.phase = "metrics"]
        /\ UNCHANGED <<shown, misses>>
    BY <1>7 DEF KeyAnswers, SealedWithKey
  <2>2. /\ cluster' \in ClusterRows /\ cluster'.number = cluster.number
        /\ cluster'.password = pass.sealed.password /\ cluster'.expected = cluster.expected
    <3> DEFINE k == Site(g)
               w == pass.sealed.password
    <3>1. k \in Keys /\ w \in 0..MaxRecords /\ cluster \in ClusterRows
          /\ cluster' = [cluster EXCEPT !.key = k, !.password = w]
      BY <1>3, <2>1
    <3> HIDE DEF k, w
    <3>2. cluster' \in ClusterRows /\ cluster'.number = cluster.number /\ cluster'.password = w
          /\ cluster'.expected = cluster.expected
      BY ONLY <3>1, KeyUpdate, ZenonT(60)
    <3> QED BY <3>2 DEF w
  <2>3. /\ pass' \in Passes /\ pass'.of = pass.of /\ pass'.ca = pass.ca /\ pass'.phase = "metrics"
        /\ pass'.sealed.number = pass.sealed.number /\ pass'.sealed.password = pass.sealed.password
        /\ pass'.sealed.key = Site(g)
    <3>1. pass \in Passes
      OBVIOUS
    <3> DEFINE k == Site(g)
    <3>2. k \in Keys /\ pass' = [pass EXCEPT !.sealed.key = k, !.phase = "metrics"]
      BY <1>3, <2>1
    <3> HIDE DEF k
    <3>3. /\ pass' \in Passes /\ pass'.of = pass.of /\ pass'.ca = pass.ca
          /\ pass'.phase = "metrics" /\ pass'.sealed.number = pass.sealed.number
          /\ pass'.sealed.password = pass.sealed.password /\ pass'.sealed.key = k
      BY <3>1, <3>2, SealUpdate
    <3> QED BY <3>3 DEF k
  <2>4. Site(cluster.number)' = Site(cluster.number)
    BY <1>1, <2>2 DEF Site
  <2>5. ClusterTypes'
    BY <1>1, <2>1, <2>2, <2>3 DEF CollectorInv, ClusterTypes
  <2>6. NumbersOK'
    BY <1>1, <1>2, <2>2, <2>3 DEF NumbersOK, HasRead
  <2>7. SealedOK'
    BY <2>2, <2>3 DEF SealedOK
  <2>8. MissesOK'
    BY <1>4, <1>7, <2>1, <2>2, <2>3, <2>4 DEF MissesOK
  <2>9. NoStaleCa'
    <3>1. misses >= 2 => g = cluster.number /\ cluster.password = cluster.number
      BY <1>4, <1>5, <1>7
    <3> QED BY <1>1, <2>1, <2>2, <2>3, <2>4, <3>1 DEF CollectorInv, NoStaleCa, HasRead
  <2>10. RecoversInTwo'
    <3>1. misses >= 1 => cluster'.password = cluster.password
      BY <1>4, <1>5, <1>7, <2>2
    <3> QED BY <2>1, <2>2, <3>1 DEF CollectorInv, RecoversInTwo
  <2>11. WritesOK
    <3>1. g \in {0, cluster.number} => cluster'.password = cluster.password
      BY <1>2, <1>5, <2>2
    <3> QED BY <2>2, <3>1 DEF WritesOK
  <2> QED BY <2>5, <2>6, <2>7, <2>8, <2>9, <2>10, <2>11 DEF CollectorInv
<1>8. CASE ~(pass.sealed.password = g /\ cluster.number # 0)
  <2>1. PassFails /\ cluster' = cluster
    BY <1>8 DEF KeyAnswers
  <2>2. cluster.number = 0 \/ misses = 0 \/ cluster.password # cluster.number
    BY <1>4, <1>5, <1>8
  <2>3. caFile' \in Pairs
    BY <1>1 DEF CollectorInv, ClusterTypes
  <2> QED BY <1>1, <2>1, <2>2, <2>3, FailStep DEF PassFails, WritesOK
<1> QED BY <1>7, <1>8

LEMMA MetricsAnswerStep ==
  ASSUME CollectorInv, MetricsAnswer
  PROVE  CollectorInv' /\ WritesOK
<1> DEFINE g == pass.of.number
<1> USE FieldsOK, Constants
<1>1. /\ pass.phase = "metrics" /\ pass' = NoPass /\ misses' = 0
      /\ shown' = [status |-> "green", uuid |-> Site(g)]
      /\ UNCHANGED <<caFile, created, sites, form>>
      /\ cluster' = cluster \/ cluster' = [cluster EXCEPT !.expected = Captured(Site(g))]
  BY DEF MetricsAnswer, SurroundingsUnchanged
<1>2. g \in 1..MaxRecords
  BY <1>1 DEF CollectorInv, NumbersOK
<1>3. Site(g) \in Pairs
  BY <1>2, SiteOK
<1>4. Captured(Site(g)) \in Pairs /\ (cluster.expected # None => Captured(Site(g)) = cluster.expected)
  BY <1>3 DEF Captured
<1>5. /\ cluster' \in ClusterRows /\ cluster'.number = cluster.number
      /\ cluster'.password = cluster.password
      /\ cluster.expected # None => cluster'.expected = cluster.expected
  <2> DEFINE u == Captured(Site(g))
  <2>1. CASE cluster' = [cluster EXCEPT !.expected = u]
    <3>1. u \in Pairs /\ cluster \in ClusterRows
      BY <1>4
    <3> HIDE DEF u
    <3>2. cluster' \in ClusterRows /\ cluster'.number = cluster.number
          /\ cluster'.password = cluster.password /\ cluster'.expected = u
      BY <2>1, <3>1, PinUpdate
    <3> QED BY <1>4, <3>2 DEF u
  <2>2. CASE cluster' = cluster
    BY <2>2
  <2> QED BY <1>1, <2>1, <2>2
<1>6. ClusterTypes'
  BY <1>1, <1>3, <1>5 DEF CollectorInv, ClusterTypes
<1>7. NumbersOK' /\ SealedOK'
  BY <1>1, <1>5 DEF CollectorInv, NumbersOK, SealedOK, HasRead
<1>8. MissesOK' /\ NoStaleCa' /\ RecoversInTwo'
  BY <1>1 DEF MissesOK, NoStaleCa, RecoversInTwo
<1>9. WritesOK
  BY <1>5 DEF WritesOK
<1> QED BY <1>6, <1>7, <1>8, <1>9 DEF CollectorInv

LEMMA MetricsRefusedStep ==
  ASSUME CollectorInv, MetricsRefused
  PROVE  CollectorInv' /\ WritesOK
<1> DEFINE g == pass.of.number
<1> USE FieldsOK, Constants
<1>1. /\ pass.phase = "metrics" /\ pass.sealed.key # Site(g) /\ pass.ca = Site(g)
      /\ UNCHANGED <<caFile, created, sites, form>>
  BY DEF MetricsRefused, Verified, SurroundingsUnchanged
<1>2. g \in 1..created /\ pass # NoPass /\ cluster.number \in {0, created}
  BY <1>1 DEF CollectorInv, NumbersOK
<1>3. misses >= 1 /\ cluster.number # 0 => g = cluster.number /\ pass.cached
  BY <1>1, <1>2 DEF CollectorInv, MissesOK
<1>4. CASE pass.cached /\ cluster.number # 0
  <2>1. ClearKey \in ClusterRows /\ ClearKey.number = cluster.number /\ ClearKey.key = None
        /\ ClearKey.password = cluster.password /\ ClearKey.expected = cluster.expected
    BY ClearUpdate DEF ClearKey
  <2>2. /\ cluster' = ClearKey /\ UNCHANGED <<shown, misses>>
        /\ pass' = [pass EXCEPT !.sealed = ClearKey, !.cached = FALSE, !.phase = "post"]
    BY <1>4, <2>1 DEF MetricsRefused
  <2>3. /\ pass' \in Passes /\ pass'.of = pass.of /\ pass'.ca = pass.ca /\ pass'.phase = "post"
        /\ pass'.sealed = ClearKey
    <3>1. pass \in Passes
      OBVIOUS
    <3> QED BY ONLY <2>1, <2>2, <3>1, RefusedUpdate
  <2>4. Site(cluster.number)' = Site(cluster.number)
    BY <1>1, <2>1, <2>2 DEF Site
  <2>5. ClusterTypes'
    BY <1>1, <2>1, <2>2, <2>3 DEF CollectorInv, ClusterTypes
  <2>6. NumbersOK' /\ SealedOK'
    BY <1>1, <1>2, <1>4, <2>1, <2>2, <2>3 DEF NumbersOK, SealedOK, HasRead
  <2>7. MissesOK'
    BY <1>3, <1>4, <2>1, <2>2, <2>3 DEF MissesOK
  <2>8. NoStaleCa' /\ RecoversInTwo'
    BY <1>1, <2>1, <2>2, <2>3, <2>4 DEF CollectorInv, NoStaleCa, RecoversInTwo, HasRead
  <2>9. WritesOK
    BY <2>1, <2>2 DEF WritesOK
  <2> QED BY <2>5, <2>6, <2>7, <2>8, <2>9 DEF CollectorInv
<1>5. CASE ~(pass.cached /\ cluster.number # 0)
  <2>1. PassFails /\ cluster' = cluster
    BY <1>5 DEF MetricsRefused
  <2>2. cluster.number = 0 \/ misses = 0
    BY <1>3, <1>5
  <2>3. caFile' \in Pairs
    BY <1>1 DEF CollectorInv, ClusterTypes
  <2> QED BY <1>1, <2>1, <2>2, <2>3, FailStep DEF PassFails, WritesOK
<1> QED BY <1>4, <1>5

\* A request that fails and a restart give the pass up without a reason.
LEMMA GivenUpStep ==
  ASSUME CollectorInv, RequestFails \/ CollectorRestart \/ UNCHANGED clusterTelemetryVars
  PROVE  CollectorInv' /\ WritesOK
<1> USE FieldsOK, Constants
<1>1. /\ UNCHANGED <<cluster, caFile, created, sites, form>>
      /\ pass' = NoPass \/ pass' = pass
      /\ misses' = misses \/ misses' = 0
  BY DEF RequestFails, CollectorRestart, clusterTelemetryVars, SurroundingsUnchanged, Disturbed
<1>2. shown' \in [status : {"none", "unknown", "awaiting_data", "green"}, uuid : Pairs]
  <2>1. \/ shown' = [shown EXCEPT !.status = "unknown"]
        \/ shown' = [status |-> "none", uuid |-> None]
        \/ shown' = shown
    BY DEF RequestFails, CollectorRestart, clusterTelemetryVars
  <2>2. shown \in [status : {"none", "unknown", "awaiting_data", "green"}, uuid : Pairs]
    BY DEF CollectorInv, ClusterTypes
  <2> QED BY <2>1, <2>2, SMTT(40)
<1>3. ClusterTypes'
  BY <1>1, <1>2 DEF CollectorInv, ClusterTypes
<1>4. Site(cluster.number)' = Site(cluster.number)
  BY <1>1 DEF Site
<1>5. CASE pass' = NoPass
  <2>1. NumbersOK' /\ SealedOK'
    BY <1>1, <1>5 DEF CollectorInv, NumbersOK, SealedOK, HasRead
  <2>2. MissesOK' /\ NoStaleCa' /\ RecoversInTwo'
    BY <1>1, <1>4, <1>5 DEF CollectorInv, MissesOK, NoStaleCa, RecoversInTwo, HasRead
  <2> QED BY <1>1, <1>3, <2>1, <2>2 DEF CollectorInv, WritesOK
<1>6. CASE pass' = pass
  <2>1. NumbersOK' /\ SealedOK'
    BY <1>1, <1>6 DEF CollectorInv, NumbersOK, SealedOK, HasRead
  <2>2. MissesOK' /\ NoStaleCa' /\ RecoversInTwo'
    BY <1>1, <1>4, <1>6 DEF CollectorInv, MissesOK, NoStaleCa, RecoversInTwo, HasRead
  <2> QED BY <1>1, <1>3, <2>1, <2>2 DEF CollectorInv, WritesOK
<1> QED BY <1>1, <1>5, <1>6

LEMMA CollectorStep ==
  ASSUME CollectorInv, [ClusterTelemetryNext]_clusterTelemetryVars
  PROVE  CollectorInv' /\ WritesOK
BY OperatorStep, ProviderStep, PassBeginsStep, CaAnswersStep, VerificationFailsStep,
   KeyAnswersStep, MetricsAnswerStep, MetricsRefusedStep, GivenUpStep
DEF ClusterTelemetryNext

LEMMA CollectorHolds == ClusterTelemetrySpec => []CollectorInv
<1>1. ClusterTelemetryInit => CollectorInv
  <2> SUFFICES ASSUME ClusterTelemetryInit PROVE CollectorInv
    OBVIOUS
  <2>1. cluster \in ClusterRows /\ cluster.number = 1 /\ cluster.password = 1
    <3>1. cluster = [NoCluster EXCEPT !.number = 1, !.password = 1] /\ 1 \in 1..MaxRecords
      BY DEF ClusterTelemetryInit
    <3> QED BY ONLY <3>1, FreshRecord
  <2>2. ClusterTypes
    BY <2>1, Constants DEF ClusterTelemetryInit, ClusterTypes
  <2>3. NumbersOK /\ SealedOK /\ MissesOK /\ NoStaleCa /\ RecoversInTwo
    BY <2>1, Constants DEF ClusterTelemetryInit, NumbersOK, SealedOK, MissesOK, NoStaleCa,
       RecoversInTwo, HasRead
  <2> QED BY <2>2, <2>3 DEF CollectorInv
<1>2. CollectorInv /\ [ClusterTelemetryNext]_clusterTelemetryVars => CollectorInv'
  BY CollectorStep
<1> QED BY <1>1, <1>2, PTL DEF ClusterTelemetrySpec

\* Once the surroundings are still, at most two passes of the collector fail,
\* however the record, its deployments, its CA and its key came to differ,
\* unless a pass has sealed the passwords of a deleted cluster into the record.
THEOREM CollectorRecovers == ClusterTelemetrySpec => []ClusterTelemetryInvariant
<1>1. CollectorInv => ClusterTelemetryTypeOK
  <2> SUFFICES ASSUME CollectorInv PROVE ClusterTelemetryTypeOK
    OBVIOUS
  <2>1. cluster.key # None =>
          cluster.key[1] \in 1..MaxRecords /\ cluster.key[2] \in 1..MaxDeployments
    BY FieldsOK DEF Keys
  <2>2. shown.status \in {"none", "unknown", "awaiting_data", "green"}
    BY DEF CollectorInv, ClusterTypes
  <2>3. pass.phase = "post" => pass.sealed.key = None
    BY DEF CollectorInv, NumbersOK
  <2> QED BY <2>1, <2>2, <2>3, FieldsOK DEF ClusterTelemetryTypeOK
<1>2. CollectorInv => ClusterTelemetryInvariant
  BY <1>1 DEF CollectorInv, ClusterTelemetryInvariant
<1> QED BY <1>2, CollectorHolds, PTL

\* The collector neither replaces a uuid that guards the cluster nor, unless its
\* pass began with a cluster deleted since, touches the passwords.
THEOREM CollectorWritesLittle == ClusterTelemetrySpec => CollectorWrites
<1>1. CollectorInv /\ [ClusterTelemetryNext]_clusterTelemetryVars => WritesOK
  BY CollectorStep
<1>2. WritesOK =>
        [cluster.number # 0 /\ cluster'.number = cluster.number
         /\ cluster'.revision = cluster.revision /\ cluster.expected # None =>
           cluster'.expected = cluster.expected]_clusterTelemetryVars
  BY DEF WritesOK
<1>3. WritesOK =>
        [cluster'.number = cluster.number /\ pass.of.number \in {0, cluster.number} =>
           cluster'.password = cluster.password]_clusterTelemetryVars
  BY DEF WritesOK
<1>4. ClusterTelemetrySpec => PinKept
  BY <1>1, <1>2, CollectorHolds, PTL DEF ClusterTelemetrySpec, PinKept
<1>5. ClusterTelemetrySpec => PasswordsKept
  BY <1>1, <1>3, CollectorHolds, PTL DEF ClusterTelemetrySpec, PasswordsKept
<1> QED BY <1>4, <1>5 DEF CollectorWrites

-----------------------------------------------------------------------------
(* The certificate inventory.                                              *)

Placements == [role : Roles, host : Hosts]
Files == Certs \cup CACerts \cup {NoCert}
Policies == [revision : 0..MaxRevision, renew : Nat, critical : Nat]
\* The authorities belong to the cluster, everything else to an assignment.
AssetKeys ==
  {k \in [domain : DomainKinds, owner : 0..MaxAssignment, purpose : DOMAIN PurposeRank] :
     \/ k.owner = 0 /\ k.purpose = "legacy_shared_ca"
     \/ k.owner # 0 /\ \E role \in Roles : <<k.domain, k.purpose>> \in Purposes(role)}
AssetRows ==
  [locator : Locators, health : {"unobserved", "healthy", "degraded", "observation_failed"},
   last : Files]
Caches == UNION {[D -> Certs \cup CACerts] : D \in SUBSET Locators}
Places == UNION {[D -> Locators] : D \in SUBSET AssetKeys}
RefreshRecords ==
  [phase : {"idle", "running", "done", "not_found"}, listed : SUBSET AssetKeys,
   place : Places, todo : SUBSET AssetKeys, cache : Caches, collected : Nat, failed : Nat,
   since : SUBSET (Locators \X Files), orphan : BOOLEAN]

WorldOK ==
  /\ certCluster \in [alive : BOOLEAN, supported : BOOLEAN,
                      assignments : UNION {[D -> Placements] : D \in SUBSET (1..MaxAssignment)}]
  /\ disk \in [Locators -> Files] /\ disk[CA] \in CACerts

\* A form of the present revision shows the present policy, when it is a form
\* of the present cluster.
PoliciesOK ==
  /\ certPolicy \in Policies /\ formSeen \in [Editors -> Policies]
  /\ certPolicy.critical <= certPolicy.renew
  /\ \A e \in Editors \ outdated :
       /\ formSeen[e].revision <= certPolicy.revision
       /\ formSeen[e].revision = certPolicy.revision => formSeen[e] = certPolicy

\* Rows of assets: those of the cluster itself are at the authority's place.
RowsOK(rows) ==
  /\ rows \in [DOMAIN rows -> AssetRows] /\ DOMAIN rows \subseteq AssetKeys
  /\ \A k \in DOMAIN rows : k.owner = 0 => rows[k].locator = CA

\* A row stays, with its place, and once observed is never again unobserved.
Keeps(old, new) ==
  /\ DOMAIN old \subseteq DOMAIN new
  /\ \A k \in DOMAIN old :
       /\ new[k].locator = old[k].locator
       /\ old[k].health # "unobserved" => new[k].health # "unobserved"

\* Every domain is entered before the first asset, and none is ever split.
InventoryOK ==
  /\ DOMAIN domains \in {{}, DomainKinds}
  /\ \A d \in DOMAIN domains : domains[d].legacy = TRUE
  /\ RowsOK(assets)
  /\ DOMAIN assets # {} => DOMAIN domains = DomainKinds
  /\ \A op \in operations : op.blockers # {}
  /\ execAnswer \in {"none", "preview_changed", "blocked"}

\* Nothing precedes k.
FirstIn(todo, k) == k \in todo /\ \A j \in todo : ~Before(j, k)

\* What a refresh has read lay on the disk since it began.
HoldsOK(r, d) ==
  /\ OnDisk(d) \subseteq r.since
  /\ \A l \in DOMAIN r.cache : <<l, r.cache[l]>> \in r.since
  /\ \A c : <<CA, c>> \in r.since => c \in CACerts

\* The next asset of a refresh needs a file that it has not read.
AwaitsFile(r) ==
  /\ r.todo # {}
  /\ \A k : FirstIn(r.todo, k) => ~(Needs(k, r.place) \subseteq DOMAIN r.cache)

\* The places a refresh found, and its count.
AccountsFor(r) ==
  /\ r.todo \subseteq r.listed /\ DOMAIN r.place = r.listed
  /\ \A k \in r.listed : k.owner = 0 => r.place[k] = CA
  /\ r.phase \in {"running", "done"} =>
       r.collected + r.failed + Cardinality(r.todo) = Cardinality(r.listed)

\* The rows of a refresh's assets are still there, and those it is done with
\* are observed.
RowsFor(r, rows) ==
  /\ r.listed \subseteq DOMAIN rows
  /\ \A k \in r.listed : rows[k].locator = r.place[k]
  /\ \A k \in r.listed \ r.todo : rows[k].health # "unobserved"

\* Of the rows, nothing can be said once the cluster of the refresh is gone.
RefreshOK(r, rows, d) ==
  /\ r \in RefreshRecords /\ AccountsFor(r)
  /\ r.phase \in {"idle", "done"} => r.todo = {}
  /\ r.phase = "not_found" => r.orphan
  /\ r.phase \in {"running", "done"} /\ ~r.orphan => RowsFor(r, rows)
  /\ r.phase = "running" => HoldsOK(r, d) /\ AwaitsFile(r)

RefreshesOK ==
  /\ refresh \in [Slots -> RefreshRecords]
  /\ \A s \in Slots : RefreshOK(refresh[s], assets, disk)

CertificatesInv == WorldOK /\ PoliciesOK /\ InventoryOK /\ RefreshesOK

LEMMA RankFacts ==
  \A p, q \in DOMAIN PurposeRank :
    PurposeRank[p] \in 1..8 /\ (PurposeRank[p] = PurposeRank[q] => p = q)
BY DEF PurposeRank

LEMMA KeyFacts ==
  /\ CAKeys \subseteq AssetKeys
  /\ \A k \in AssetKeys : /\ k.owner \in 0..MaxAssignment /\ k.domain \in DomainKinds
                          /\ k.purpose \in DOMAIN PurposeRank
                          /\ PurposeRank[k.purpose] \in 1..8
                          /\ k \in CAKeys <=> k.owner = 0
<1>1. "legacy_shared_ca" \in DOMAIN PurposeRank
  BY DEF PurposeRank
<1>2. 0 \in 0..MaxAssignment
  BY CertificateAssumption
<1>3. CAKeys \subseteq AssetKeys
  BY <1>1, <1>2 DEF CAKeys, Key, AssetKeys
<1>4. ASSUME NEW k \in AssetKeys
      PROVE  /\ k.owner \in 0..MaxAssignment /\ k.domain \in DomainKinds
             /\ k.purpose \in DOMAIN PurposeRank
             /\ k \in CAKeys <=> k.owner = 0
  BY DEF CAKeys, Key, AssetKeys
<1> QED BY <1>3, <1>4, RankFacts

\* The purpose of a workload's asset tells its domain.
LEMMA PurposeDomain ==
  ASSUME NEW j \in AssetKeys, NEW k \in AssetKeys, j.owner # 0, j.owner = k.owner,
         j.purpose = k.purpose
  PROVE  j = k
<1>1. PICK q \in Roles : <<j.domain, j.purpose>> \in Purposes(q)
  BY DEF AssetKeys
<1>2. PICK r \in Roles : <<k.domain, k.purpose>> \in Purposes(r)
  BY DEF AssetKeys
<1>3. j.domain = k.domain
  BY <1>1, <1>2 DEF Purposes
<1>4. j = [domain |-> j.domain, owner |-> j.owner, purpose |-> j.purpose]
      /\ k = [domain |-> k.domain, owner |-> k.owner, purpose |-> k.purpose]
  BY DEF AssetKeys
<1> QED BY <1>3, <1>4

\* One of two different assets comes before the other, unless both are the
\* cluster's.
LEMMA OrderTotal ==
  ASSUME NEW j \in AssetKeys, NEW k \in AssetKeys, ~Before(j, k), ~Before(k, j)
  PROVE  j = k \/ (j \in CAKeys /\ k \in CAKeys)
<1>1. j.owner \in Nat /\ k.owner \in Nat
  BY KeyFacts, CertificateAssumption
<1>2. j.owner = k.owner
  BY <1>1 DEF Before
<1>3. PurposeRank[j.purpose] \in 1..8 /\ PurposeRank[k.purpose] \in 1..8
  BY KeyFacts
<1>4. PurposeRank[j.purpose] = PurposeRank[k.purpose]
  BY <1>2, <1>3 DEF Before
<1>5. j.purpose = k.purpose
  BY <1>4, RankFacts, KeyFacts
<1> QED BY <1>2, <1>5, PurposeDomain, KeyFacts

\* A place in the order: the assets of an owner lie between two multiples of
\* ten.
Place(k) ==
  IF k.owner = 0 THEN 10 * (MaxAssignment + 1) + PurposeRank[k.purpose]
  ELSE 10 * k.owner + PurposeRank[k.purpose]

LEMMA PlaceOrders ==
  ASSUME NEW j \in AssetKeys, NEW k \in AssetKeys, Before(j, k)
  PROVE  Place(j) < Place(k)
<1>1. /\ j.owner \in 0..MaxAssignment /\ k.owner \in 0..MaxAssignment /\ MaxAssignment \in Nat
      /\ PurposeRank[j.purpose] \in 1..8 /\ PurposeRank[k.purpose] \in 1..8
  BY KeyFacts, CertificateAssumption
<1> DEFINE a == j.owner
           b == k.owner
           p == PurposeRank[j.purpose]
           q == PurposeRank[k.purpose]
<1>2. (a # 0 /\ (b = 0 \/ a < b)) \/ (a = b /\ p < q)
  BY DEF Before
<1>3. Place(j) = (IF a = 0 THEN 10 * (MaxAssignment + 1) + p ELSE 10 * a + p)
      /\ Place(k) = (IF b = 0 THEN 10 * (MaxAssignment + 1) + q ELSE 10 * b + q)
  BY DEF Place
<1> HIDE DEF a, b, p, q
<1>4. a \in 0..MaxAssignment /\ b \in 0..MaxAssignment /\ p \in 1..8 /\ q \in 1..8
  BY <1>1 DEF a, b, p, q
<1> QED BY ONLY <1>2, <1>3, <1>4, CertificateAssumption

LEMMA FirstExists ==
  ASSUME NEW S \in SUBSET AssetKeys, S # {}
  PROVE  FirstIn(S, FirstOf(S))
<1> DEFINE R == OpToRel(<, Nat)
           T == {Place(k) : k \in S}
<1>1. T \subseteq Nat /\ T # {}
  BY KeyFacts, CertificateAssumption DEF Place
<1>2. PICK t \in T : \A u \in T : ~(<<u, t>> \in R)
  <2> HIDE DEF R, T
  <2>1. IsWellFoundedOn(R, Nat)
    BY NatLessThanWellFounded DEF R
  <2> QED BY <1>1, <2>1, WFMin
<1>3. \A u \in T : ~(u < t)
  BY <1>1, <1>2 DEF OpToRel
<1>4. PICK k \in S : t = Place(k)
  BY <1>2
<1>5. \A j \in S : ~Before(j, k)
  BY <1>3, <1>4, PlaceOrders
<1> QED BY <1>4, <1>5 DEF FirstOf, FirstIn

LEMMA KeysFinite == IsFiniteSet(AssetKeys)
<1> DEFINE D == DomainKinds
           O == 0..MaxAssignment
           P == DOMAIN PurposeRank
           K == [domain : D, owner : O, purpose : P]
           f == [t \in (D \X O) \X P |-> Key(t[1][1], t[1][2], t[2])]
<1>1. IsFiniteSet(D)
  <2>1. IsFiniteSet({"elasticsearch_transport"} \cup {"elasticsearch_http"})
    BY FS_Singleton, FS_AddElement
  <2>2. IsFiniteSet(({"elasticsearch_transport"} \cup {"elasticsearch_http"}) \cup {"kibana_http"})
    BY <2>1, FS_AddElement
  <2>3. D = (({"elasticsearch_transport"} \cup {"elasticsearch_http"}) \cup {"kibana_http"})
            \cup {"fleet_http"}
    BY DEF DomainKinds
  <2> QED BY <2>2, <2>3, FS_AddElement
<1>2. IsFiniteSet(O)
  <2>1. 0 \in Int /\ MaxAssignment \in Int
    BY CertificateAssumption
  <2> QED BY ONLY <2>1, FS_Interval
<1>3. IsFiniteSet(P)
  <2> DEFINE g == [p \in P |-> PurposeRank[p]]
  <2>1. g \in [P -> 1..8] /\ \A p, q \in P : g[p] = g[q] => p = q
    BY RankFacts
  <2>3. g \in Injection(P, 1..8)
    <3> HIDE DEF g
    <3> QED BY <2>1 DEF Injection, IsInjective
  <2>2. IsFiniteSet(1..8)
    <3>1. 1 \in Int /\ 8 \in Int
      OBVIOUS
    <3> QED BY ONLY <3>1, FS_Interval
  <2> QED BY <2>2, <2>3, FS_Injection
<1>4. IsFiniteSet((D \X O) \X P)
  BY <1>1, <1>2, <1>3, FS_Product
<1>5. f \in Surjection((D \X O) \X P, K)
  <2>1. f \in [(D \X O) \X P -> K]
    BY DEF Key
  <2>2. ASSUME NEW k \in K PROVE \E t \in (D \X O) \X P : f[t] = k
    <3>1. <<<<k.domain, k.owner>>, k.purpose>> \in (D \X O) \X P
      OBVIOUS
    <3>2. k = Key(k.domain, k.owner, k.purpose)
      BY DEF Key
    <3> QED BY <3>1, <3>2
  <2> QED BY <2>1, <2>2 DEF Surjection
<1>6. IsFiniteSet(K)
  <2> HIDE DEF f, K
  <2> QED BY <1>4, <1>5, FS_Surjection
<1>7. AssetKeys \in SUBSET K
  BY DEF AssetKeys
<1> HIDE DEF K
<1> QED BY <1>6, <1>7, FS_Subset

\* What is left after the assets that are ready have been recorded waits for
\* a file at its head.
LEMMA ReadyLeavesWaiting ==
  ASSUME NEW todo \in SUBSET AssetKeys, NEW cache, NEW place,
         NEW k, FirstIn(todo \ Ready(todo, cache, place), k)
  PROVE  ~(Needs(k, place) \subseteq DOMAIN cache)
<1> DEFINE waiting == {j \in todo : ~(Needs(j, place) \subseteq DOMAIN cache)}
<1>1. k \in todo /\ k \notin Ready(todo, cache, place)
  BY DEF FirstIn
<1>2. SUFFICES ASSUME k \notin waiting PROVE FALSE
  BY <1>1
<1>3. PICK j \in waiting : ~Before(k, j)
  BY <1>1, <1>2 DEF Ready
<1>4. j \in todo /\ j \notin Ready(todo, cache, place)
  BY <1>3 DEF Ready
<1>5. ~Before(j, k)
  BY <1>4 DEF FirstIn
<1>6. j = k \/ (j \in CAKeys /\ k \in CAKeys)
  BY <1>1, <1>3, <1>4, <1>5, OrderTotal
<1>7. CASE j \in CAKeys /\ k \in CAKeys
  BY <1>2, <1>3, <1>7, <1>1, <1>4 DEF Needs
<1> QED BY <1>2, <1>6, <1>7

LEMMA ReadyFacts ==
  ASSUME NEW todo, NEW cache, NEW place
  PROVE  /\ Ready(todo, cache, place) \subseteq todo
         /\ \A k \in Ready(todo, cache, place) : Needs(k, place) \subseteq DOMAIN cache
BY DEF Ready

\* Up to the first asset without a row all that are ready are recorded.
LEMMA NotedFacts ==
  ASSUME NEW ready \in SUBSET AssetKeys
  PROVE  /\ Noted(ready) \subseteq ready /\ Noted(ready) \subseteq DOMAIN assets
         /\ Gone(ready) = {} => Noted(ready) = ready
         /\ ready \subseteq DOMAIN assets => Gone(ready) = {}
<1>1. ASSUME NEW k \in Noted(ready) PROVE k \in DOMAIN assets
  <2>1. k \in AssetKeys /\ k \in ready
    BY DEF Noted
  <2>2. k.owner \in Int /\ PurposeRank[k.purpose] \in Int
    BY <2>1, KeyFacts, RankFacts
  <2>3. ~Before(k, k)
    BY <2>2 DEF Before
  <2> QED BY <2>1, <2>3 DEF Noted, Gone
<1> QED BY <1>1 DEF Noted, Gone

-----------------------------------------------------------------------------
(* Adoption. *)

LEMMA DesiredOK ==
  ASSUME WorldOK
  PROVE  /\ DesiredKeys \subseteq AssetKeys /\ CAKeys \subseteq DesiredKeys
         /\ AssignmentIds \subseteq 1..MaxAssignment
         /\ \A i \in AssignmentIds : certCluster.assignments[i] \in Placements
         /\ \A k \in DesiredKeys : k \notin CAKeys => k.owner \in AssignmentIds
<1>1. /\ AssignmentIds \subseteq 1..MaxAssignment
      /\ \A i \in AssignmentIds : certCluster.assignments[i] \in Placements
  BY DEF WorldOK, AssignmentIds
<1>2. \A role \in Roles : \A p \in Purposes(role) :
        /\ p = <<p[1], p[2]>> /\ p[1] \in DomainKinds /\ p[2] \in DOMAIN PurposeRank
  BY DEF Purposes, DomainKinds, PurposeRank
<1>3. ASSUME NEW i \in AssignmentIds, NEW k \in AssignmentKeys(i)
      PROVE  k \in AssetKeys /\ k.owner = i
  <2>1. certCluster.assignments[i].role \in Roles
    BY <1>1 DEF Placements
  <2>2. PICK p \in Purposes(certCluster.assignments[i].role) : k = Key(p[1], i, p[2])
    BY DEF AssignmentKeys
  <2>3. i \in 0..MaxAssignment /\ i # 0
    BY <1>1, CertificateAssumption
  <2>4. k \in [domain : DomainKinds, owner : 0..MaxAssignment, purpose : DOMAIN PurposeRank]
        /\ k.owner = i /\ k.domain = p[1] /\ k.purpose = p[2]
    BY <1>2, <2>1, <2>2, <2>3 DEF Key
  <2>5. <<k.domain, k.purpose>> \in Purposes(certCluster.assignments[i].role)
    BY <1>2, <2>1, <2>2, <2>4
  <2> QED BY <2>1, <2>3, <2>4, <2>5 DEF AssetKeys
<1>4. DesiredKeys = CAKeys \cup UNION {AssignmentKeys(i) : i \in AssignmentIds}
  BY DEF DesiredKeys, AssignmentIds
<1> QED BY <1>1, <1>3, <1>4, KeyFacts

LEMMA EnsureAssetsOK ==
  ASSUME WorldOK, NEW rows, RowsOK(rows)
  PROVE  /\ RowsOK(EnsureAssets(rows)) /\ Keeps(rows, EnsureAssets(rows))
         /\ \A k \in DOMAIN rows : EnsureAssets(rows)[k] = rows[k]
         /\ DOMAIN EnsureAssets(rows) # {}
<1> DEFINE E == EnsureAssets(rows)
<1>1. E = [k \in DOMAIN rows \cup DesiredKeys |-> E[k]] /\ DOMAIN E = DOMAIN rows \cup DesiredKeys
  BY DEF EnsureAssets
<1>2. \A k \in DOMAIN rows : E[k] = rows[k]
  BY DEF EnsureAssets
<1>3. ASSUME NEW k \in DesiredKeys, k \notin DOMAIN rows
      PROVE  E[k] \in AssetRows /\ (k.owner = 0 => E[k].locator = CA)
  <2>1. CASE k \in CAKeys
    <3>1. E[k] = FreshAsset(CA)
      BY <1>3, <2>1 DEF EnsureAssets
    <3> QED BY <3>1 DEF FreshAsset, AssetRows, Locators, Files
  <2>2. CASE k \notin CAKeys
    <3>1. k.owner \in AssignmentIds /\ certCluster.assignments[k.owner] \in Placements
      BY <2>2, DesiredOK
    <3>2. k.owner # 0
      BY <3>1, DesiredOK
    <3>3. E[k] = FreshAsset([role |-> certCluster.assignments[k.owner].role,
                             host |-> certCluster.assignments[k.owner].host])
      BY <1>3, <2>2 DEF EnsureAssets
    <3>4. [role |-> certCluster.assignments[k.owner].role,
           host |-> certCluster.assignments[k.owner].host] \in Locators
      BY <3>1 DEF Locators, Placements
    <3> QED BY <3>2, <3>3, <3>4 DEF FreshAsset, AssetRows, Files
  <2> QED BY <2>1, <2>2
<1>4. DOMAIN E # {}
  BY <1>1, DesiredOK DEF CAKeys, DomainKinds
<1>5. RowsOK(E)
  <2>1. \A k \in DOMAIN E : E[k] \in AssetRows /\ (k.owner = 0 => E[k].locator = CA)
    BY <1>1, <1>2, <1>3 DEF RowsOK
  <2>2. DOMAIN E \subseteq AssetKeys
    BY <1>1, DesiredOK DEF RowsOK
  <2> HIDE DEF E
  <2> QED BY <1>1, <2>1, <2>2 DEF RowsOK
<1> HIDE DEF E
<1>6. Keeps(rows, E)
  BY <1>1, <1>2 DEF Keeps
<1> QED BY <1>2, <1>4, <1>5, <1>6 DEF E

LEMMA KeepsRefl == \A rows : Keeps(rows, rows)
BY DEF Keeps

LEMMA KeepsTrans ==
  ASSUME NEW a, NEW b, NEW c, Keeps(a, b), Keeps(b, c)
  PROVE  Keeps(a, c)
BY DEF Keeps

LEMMA EnsurePolicyOK ==
  ASSUME PoliciesOK
  PROVE  /\ EnsurePolicy \in Policies /\ EnsurePolicy.critical <= EnsurePolicy.renew
         /\ EnsurePolicy.revision >= 1
         /\ certPolicy.revision # 0 => EnsurePolicy = certPolicy
         /\ certPolicy.revision = 0 => EnsurePolicy.revision = 1
         /\ \A e \in Editors \ outdated :
              /\ formSeen[e].revision <= EnsurePolicy.revision
              /\ formSeen[e].revision = EnsurePolicy.revision => formSeen[e] = EnsurePolicy
BY CertificateAssumption DEF PoliciesOK, EnsurePolicy, FirstPolicy, Policies

LEMMA EnsureDomainsOK ==
  ASSUME InventoryOK
  PROVE  DOMAIN EnsureDomains = DomainKinds /\ \A d \in DomainKinds : EnsureDomains[d].legacy = TRUE
BY DEF InventoryOK, EnsureDomains

\* Steps of others leave a refresh as it was.
LEMMA OthersKeep ==
  ASSUME NEW r, NEW old, NEW new, NEW d, RefreshOK(r, old, d), Keeps(old, new)
  PROVE  RefreshOK(r, new, d)
<1>1. RowsFor(r, old) => RowsFor(r, new)
  BY DEF RowsFor, Keeps
<1> QED BY <1>1 DEF RefreshOK

-----------------------------------------------------------------------------
(* Steps outside the refreshes. *)

LEMMA RefreshesKept ==
  ASSUME CertificatesInv, refresh' = refresh, disk' = disk, Keeps(assets, assets')
  PROVE  RefreshesOK'
<1>1. refresh' \in [Slots -> RefreshRecords]
  BY DEF CertificatesInv, RefreshesOK
<1>2. ASSUME NEW s \in Slots
      PROVE  RefreshOK(refresh'[s], assets', disk')
  <2>1. RefreshOK(refresh[s], assets, disk)
    BY DEF CertificatesInv, RefreshesOK
  <2> QED BY <2>1, OthersKeep
<1> QED BY <1>1, <1>2 DEF RefreshesOK

\* The inventory is adopted and listed.
Adopted == certCluster.alive /\ AdoptLegacy /\ assets' = EnsureAssets(assets)

LEMMA AdoptedOK ==
  ASSUME CertificatesInv, Adopted, UNCHANGED <<worldVars, formVars>>
  PROVE  /\ WorldOK' /\ PoliciesOK'
         /\ RowsOK(assets') /\ Keeps(assets, assets')
         /\ DOMAIN domains' = DomainKinds /\ \A d \in DomainKinds : domains'[d].legacy = TRUE
<1>1. WorldOK /\ PoliciesOK /\ InventoryOK
  BY DEF CertificatesInv
<1>2. WorldOK'
  BY <1>1 DEF WorldOK, worldVars
<1>3. PoliciesOK'
  BY <1>1, EnsurePolicyOK DEF PoliciesOK, Adopted, AdoptLegacy, formVars
<1>4. RowsOK(assets') /\ Keeps(assets, assets')
  BY <1>1, EnsureAssetsOK DEF Adopted, InventoryOK
<1>5. domains' = EnsureDomains
  BY DEF Adopted, AdoptLegacy
<1> QED BY <1>1, <1>2, <1>3, <1>4, <1>5, EnsureDomainsOK

LEMMA ListStep ==
  ASSUME CertificatesInv, ListAssets
  PROVE  CertificatesInv'
<1>1. Adopted /\ UNCHANGED <<worldVars, formVars, previewVars, refresh>>
  BY DEF ListAssets, Adopted
<1>2. InventoryOK'
  BY <1>1, AdoptedOK DEF CertificatesInv, InventoryOK, previewVars
<1>3. RefreshesOK'
  BY <1>1, AdoptedOK, RefreshesKept DEF Adopted, worldVars
<1> QED BY <1>1, <1>2, <1>3, AdoptedOK DEF CertificatesInv

\* Whatever is asked of an adopted domain is blocked.
LEMMA PreviewStep ==
  ASSUME CertificatesInv, CARotationPreview \/ \E k \in DOMAIN assets : RenewalPreview(k)
  PROVE  CertificatesInv'
<1>1. Adopted /\ UNCHANGED <<worldVars, formVars, execAnswer, refresh>>
  BY DEF CARotationPreview, RenewalPreview, Adopted, CreatePreview
<1>2. \A op \in operations' : op.blockers # {}
  <2>1. CASE CARotationPreview
    <3>1. RotationBlockers(EnsureDomains) # {}
      <4>1. \E d \in DOMAIN EnsureDomains : EnsureDomains[d].legacy
        BY EnsureDomainsOK DEF CertificatesInv, DomainKinds
      <4> QED BY <4>1 DEF RotationBlockers
    <3> QED BY <2>1, <3>1 DEF CARotationPreview, CreatePreview
  <2>2. CASE \E k \in DOMAIN assets : RenewalPreview(k)
    <3>1. PICK k \in DOMAIN assets : RenewalPreview(k)
      BY <2>2
    <3>2. k.domain \in DomainKinds
      BY KeyFacts DEF CertificatesInv, InventoryOK, RowsOK
    <3>3. domains[k.domain].legacy = TRUE
      BY <3>1, <3>2 DEF CertificatesInv, InventoryOK
    <3>4. RenewalBlockers(k) # {}
      BY <3>3 DEF RenewalBlockers
    <3> QED BY <3>1, <3>4 DEF RenewalPreview, CreatePreview
  <2> QED BY <2>1, <2>2
<1>3. InventoryOK'
  BY <1>1, <1>2, AdoptedOK DEF CertificatesInv, InventoryOK
<1>4. RefreshesOK'
  BY <1>1, AdoptedOK, RefreshesKept DEF Adopted, worldVars
<1> QED BY <1>1, <1>3, <1>4, AdoptedOK DEF CertificatesInv

LEMMA ExecuteStep ==
  ASSUME CertificatesInv, NEW op \in operations, NEW sameHash \in BOOLEAN, Execute(op, sameHash)
  PROVE  CertificatesInv'
<1>1. UNCHANGED <<worldVars, policyVars, inventoryVars, operations, refresh>>
  BY DEF Execute
<1>2. execAnswer' \in {"preview_changed", "blocked"}
  <2>1. op.blockers # {}
    BY DEF CertificatesInv, InventoryOK
  <2> QED BY <2>1 DEF Execute
<1>3. WorldOK' /\ PoliciesOK'
  BY <1>1 DEF CertificatesInv, WorldOK, PoliciesOK, worldVars, policyVars, formVars
<1>4. InventoryOK'
  BY <1>1, <1>2 DEF CertificatesInv, InventoryOK, inventoryVars
<1>5. RefreshesOK'
  BY <1>1, RefreshesKept, KeepsRefl DEF worldVars, inventoryVars
<1> QED BY <1>3, <1>4, <1>5 DEF CertificatesInv

LEMMA DeclareStep ==
  ASSUME CertificatesInv, NEW d \in DomainKinds, NEW kind \in ExternalKinds, DeclareExternal(d, kind)
  PROVE  CertificatesInv'
<1>1. UNCHANGED <<worldVars, policyVars, domains, assets, previewVars, refresh>>
  BY DEF DeclareExternal
<1>2. WorldOK' /\ PoliciesOK' /\ InventoryOK'
  BY <1>1 DEF CertificatesInv, WorldOK, PoliciesOK, InventoryOK, worldVars, policyVars, formVars,
     previewVars
<1>3. RefreshesOK'
  BY <1>1, RefreshesKept, KeepsRefl DEF worldVars
<1> QED BY <1>2, <1>3 DEF CertificatesInv

LEMMA PolicyStep ==
  ASSUME CertificatesInv, NEW e \in Editors,
         ReadPolicy(e) \/ \E fields \in PolicyForms : UpdatePolicy(e, fields)
  PROVE  CertificatesInv'
<1>1. UNCHANGED <<worldVars, inventoryVars, previewVars, refresh>> /\ certCluster.alive
  BY DEF ReadPolicy, UpdatePolicy
<1>2. WorldOK' /\ InventoryOK'
  BY <1>1 DEF CertificatesInv, WorldOK, InventoryOK, worldVars, inventoryVars, previewVars
<1>3. RefreshesOK'
  BY <1>1, RefreshesKept, KeepsRefl DEF worldVars, inventoryVars
<1>4. PoliciesOK /\ certCluster' = certCluster
  BY <1>1 DEF CertificatesInv, worldVars
<1>5. CASE ReadPolicy(e)
  <2>1. certPolicy' = EnsurePolicy /\ formSeen' = [formSeen EXCEPT ![e] = EnsurePolicy]
        /\ outdated' = outdated \ {e}
    BY <1>5 DEF ReadPolicy
  <2>2. formSeen \in [Editors -> Policies] /\ EnsurePolicy \in Policies
        /\ EnsurePolicy.revision \in Nat
    BY <1>4, EnsurePolicyOK DEF PoliciesOK, Policies
  <2>3. formSeen' \in [Editors -> Policies]
        /\ \A f \in Editors \ outdated' :
             formSeen'[f] = EnsurePolicy \/ (f \notin outdated /\ formSeen'[f] = formSeen[f])
    BY <2>1, <2>2
  <2>4. PoliciesOK'
    BY <1>1, <1>4, <2>1, <2>2, <2>3, EnsurePolicyOK DEF PoliciesOK
  <2> QED BY <1>2, <1>3, <2>4 DEF CertificatesInv
<1>6. CASE \E fields \in PolicyForms : UpdatePolicy(e, fields)
  <2>1. PICK fields \in PolicyForms : UpdatePolicy(e, fields)
    BY <1>6
  <2> DEFINE m == Merged(EnsurePolicy, fields)
  <2>2. m \in Policies /\ m.revision = EnsurePolicy.revision
    <3>1. /\ "renew" \in DOMAIN fields => fields.renew \in Nat
          /\ "critical" \in DOMAIN fields => fields.critical \in Nat
      BY CertificateAssumption DEF PolicyForms
    <3> QED BY <1>4, <3>1, EnsurePolicyOK DEF Merged, Policies
  <2>3. m.critical <= m.renew /\ certPolicy' = [m EXCEPT !.revision = @ + 1]
        /\ formSeen' = formSeen /\ outdated' = outdated /\ m.revision < MaxRevision
    BY <2>1, <2>2 DEF UpdatePolicy, ValidPolicy
  <2> HIDE DEF m
  <2>4. /\ certPolicy' \in Policies /\ certPolicy'.critical <= certPolicy'.renew
        /\ certPolicy'.revision = m.revision + 1 /\ m.revision \in Nat
    BY <2>2, <2>3, CertificateAssumption DEF Policies
  <2>5. \A f \in Editors \ outdated : formSeen[f].revision \in Nat /\ formSeen[f].revision <= m.revision
    BY <1>1, <1>4, <2>2, EnsurePolicyOK DEF PoliciesOK, Policies
  <2>6. \A f \in Editors \ outdated : formSeen[f].revision < certPolicy'.revision
    BY <2>4, <2>5
  <2>7. PoliciesOK'
    BY <1>4, <2>3, <2>4, <2>5, <2>6 DEF PoliciesOK
  <2> QED BY <1>2, <1>3, <2>7 DEF CertificatesInv
<1> QED BY <1>5, <1>6

-----------------------------------------------------------------------------
(* The world. *)

LEMMA OnlyCluster ==
  ASSUME CertificatesInv, WorldOK',
         UNCHANGED <<disk, policyVars, inventoryVars, previewVars, refresh>>
  PROVE  CertificatesInv'
<1>1. PoliciesOK' /\ InventoryOK'
  BY DEF CertificatesInv, PoliciesOK, InventoryOK, policyVars, formVars, inventoryVars, previewVars
<1>2. RefreshesOK'
  BY RefreshesKept, KeepsRefl DEF inventoryVars
<1> QED BY <1>1, <1>2 DEF CertificatesInv

LEMMA AssignmentStep ==
  ASSUME CertificatesInv,
         \/ \E id \in AssignmentIds : RemoveAssignment(id)
         \/ \E role \in Roles, host \in Hosts : AddAssignment(role, host)
  PROVE  CertificatesInv'
<1>1. PICK new : Assign(new) /\ DOMAIN new \subseteq 1..MaxAssignment
                 /\ new \in [DOMAIN new -> Placements]
  <2>1. /\ AssignmentIds \subseteq 1..MaxAssignment
        /\ \A i \in AssignmentIds : certCluster.assignments[i] \in Placements
    BY DesiredOK DEF CertificatesInv
  <2>2. CASE \E id \in AssignmentIds : RemoveAssignment(id)
    BY <2>1, <2>2 DEF RemoveAssignment
  <2>3. CASE \E role \in Roles, host \in Hosts : AddAssignment(role, host)
    <3>1. PICK role \in Roles, host \in Hosts : AddAssignment(role, host)
      BY <2>3
    <3> DEFINE id == Max(AssignmentIds \cup {0}) + 1
               new == [i \in AssignmentIds \cup {id} |->
                        IF i = id THEN [role |-> role, host |-> host] ELSE certCluster.assignments[i]]
    <3>2. id <= MaxAssignment /\ Assign(new)
      BY <3>1 DEF AddAssignment
    <3>3. Max(AssignmentIds \cup {0}) \in AssignmentIds \cup {0}
      <4>1. AssignmentIds \cup {0} \subseteq 0..MaxAssignment
        BY <2>1, CertificateAssumption
      <4> QED BY <4>1, MaxExists, CertificateAssumption
    <3>4. id \in 1..MaxAssignment
      BY <2>1, <3>2, <3>3, CertificateAssumption
    <3>5. [role |-> role, host |-> host] \in Placements
      BY DEF Placements
    <3> HIDE DEF id
    <3>6. DOMAIN new \subseteq 1..MaxAssignment /\ new \in [DOMAIN new -> Placements]
      BY <2>1, <3>4, <3>5
    <3> QED BY <3>2, <3>6
  <2> QED BY <2>2, <2>3
<1>2. certCluster' = [certCluster EXCEPT !.assignments = new]
      /\ UNCHANGED <<disk, certNow, policyVars, inventoryVars, previewVars, refresh>>
  BY <1>1 DEF Assign
<1>3. new \in UNION {[D -> Placements] : D \in SUBSET (1..MaxAssignment)}
  BY <1>1
<1>4. WorldOK'
  BY <1>2, <1>3 DEF CertificatesInv, WorldOK
<1> QED BY <1>2, <1>4, OnlyCluster

LEMMA VersionStep ==
  ASSUME CertificatesInv,
         ChangeVersion \/ CertificateTick \/ \E supported \in BOOLEAN : RecreateCluster(supported)
  PROVE  CertificatesInv'
<1>1. /\ \/ certCluster' = certCluster
         \/ certCluster' = [certCluster EXCEPT !.supported = ~@]
         \/ \E v \in BOOLEAN : certCluster' = [certCluster EXCEPT !.alive = TRUE, !.supported = v]
      /\ UNCHANGED <<disk, policyVars, inventoryVars, previewVars, refresh>>
  BY DEF ChangeVersion, CertificateTick, RecreateCluster
<1>2. WorldOK'
  BY <1>1 DEF CertificatesInv, WorldOK
<1> QED BY <1>1, <1>2, OnlyCluster

\* A refresh that is under way when the cluster goes has no rows to account for.
LEMMA DeleteStep ==
  ASSUME CertificatesInv, DeleteCluster
  PROVE  CertificatesInv'
<1>1. /\ certCluster' = [certCluster EXCEPT !.alive = FALSE]
      /\ certPolicy' = [revision |-> 0, renew |-> 0, critical |-> 0]
      /\ domains' = << >> /\ assets' = << >> /\ operations' = {} /\ outdated' = Editors
      /\ refresh' = [s \in Slots |-> [refresh[s] EXCEPT !.orphan = TRUE]]
      /\ UNCHANGED <<disk, formSeen, execAnswer>>
  BY DEF DeleteCluster
<1>2. DOMAIN assets' = {} /\ DOMAIN domains' = {}
  BY <1>1
<1>3. WorldOK'
  BY <1>1 DEF CertificatesInv, WorldOK
<1>4. PoliciesOK'
  BY <1>1, CertificateAssumption DEF CertificatesInv, PoliciesOK, Policies
<1>5. RowsOK(assets')
  BY <1>1, <1>2 DEF RowsOK
<1>6. InventoryOK'
  BY <1>1, <1>2, <1>5 DEF CertificatesInv, InventoryOK
<1>7. ASSUME NEW s \in Slots
      PROVE  refresh'[s] \in RefreshRecords /\ RefreshOK(refresh'[s], assets', disk)
  <2> DEFINE r == refresh[s]
             q == refresh'[s]
  <2>1. r \in RefreshRecords /\ RefreshOK(r, assets, disk) /\ q = [r EXCEPT !.orphan = TRUE]
    BY <1>1 DEF CertificatesInv, RefreshesOK
  <2> HIDE DEF q, r
  <2>2. /\ q \in RefreshRecords /\ q.orphan = TRUE /\ q.phase = r.phase /\ q.listed = r.listed
        /\ q.place = r.place /\ q.todo = r.todo /\ q.cache = r.cache /\ q.since = r.since
        /\ q.collected = r.collected /\ q.failed = r.failed
    BY <2>1 DEF RefreshRecords
  <2>3. AccountsFor(q) /\ (HoldsOK(r, disk) => HoldsOK(q, disk)) /\ (AwaitsFile(r) => AwaitsFile(q))
    BY <2>1, <2>2 DEF RefreshOK, AccountsFor, HoldsOK, AwaitsFile
  <2>4. RefreshOK(q, assets', disk)
    BY <2>1, <2>2, <2>3 DEF RefreshOK
  <2> QED BY <2>2, <2>4 DEF q
<1>8. RefreshesOK'
  <2>1. refresh' \in [Slots -> RefreshRecords]
    BY <1>1, <1>7
  <2> QED BY <1>1, <1>7, <2>1 DEF RefreshesOK
<1> QED BY <1>3, <1>4, <1>6, <1>8 DEF CertificatesInv

\* A replaced file is one more that a refresh may find.
LEMMA ReplaceStep ==
  ASSUME CertificatesInv, NEW l \in Locators, NEW c \in Files, l = CA => c \in CACerts,
         ReplaceFile(l, c)
  PROVE  CertificatesInv'
<1>1. disk' = [disk EXCEPT ![l] = c] /\ refresh' = Witnessed(disk')
      /\ UNCHANGED <<certCluster, policyVars, inventoryVars, previewVars>>
  BY DEF ReplaceFile
<1>2. WorldOK'
  BY <1>1 DEF CertificatesInv, WorldOK
<1>3. PoliciesOK' /\ InventoryOK'
  BY <1>1 DEF CertificatesInv, PoliciesOK, InventoryOK, policyVars, formVars, inventoryVars,
     previewVars
<1>4. OnDisk(disk') \subseteq Locators \X Files
  BY <1>2 DEF WorldOK, OnDisk
<1>5. ASSUME NEW s \in Slots
      PROVE  RefreshOK(refresh'[s], assets, disk')
  <2>1. RefreshOK(refresh[s], assets, disk) /\ refresh[s] \in RefreshRecords
    BY DEF CertificatesInv, RefreshesOK
  <2>2. CASE ~Running(s)
    <3>1. refresh'[s] = refresh[s]
      BY <1>1, <2>2 DEF Witnessed
    <3> QED BY <2>1, <2>2, <3>1 DEF RefreshOK, Running
  <2>3. CASE Running(s)
    <3> DEFINE r == refresh[s]
               q == refresh'[s]
    <3>1. q = [r EXCEPT !.since = @ \cup OnDisk(disk')]
      BY <1>1, <2>3 DEF Witnessed
    <3>2. /\ q \in RefreshRecords /\ q.since = r.since \cup OnDisk(disk')
          /\ q.phase = r.phase /\ q.listed = r.listed /\ q.todo = r.todo /\ q.cache = r.cache
          /\ q.collected = r.collected /\ q.failed = r.failed /\ q.place = r.place
          /\ q.orphan = r.orphan
      BY <1>4, <2>1, <3>1 DEF RefreshRecords
    <3>3. HoldsOK(r, disk) /\ AccountsFor(r)
      BY <2>1, <2>3 DEF RefreshOK, Running
    <3>4. disk'[CA] \in CACerts /\ \A x : <<CA, x>> \in OnDisk(disk') => x = disk'[CA]
      BY <1>2 DEF WorldOK, OnDisk
    <3> HIDE DEF q, r
    <3>5. HoldsOK(q, disk')
      BY <3>2, <3>3, <3>4 DEF HoldsOK
    <3>6. AccountsFor(q)
      BY <3>2, <3>3 DEF AccountsFor
    <3>7. (AwaitsFile(r) => AwaitsFile(q)) /\ (RowsFor(r, assets) => RowsFor(q, assets))
      BY <3>2 DEF AwaitsFile, RowsFor
    <3>8. RefreshOK(r, assets, disk)
      BY <2>1 DEF r
    <3>9. RefreshOK(q, assets, disk')
      BY <3>2, <3>5, <3>6, <3>7, <3>8 DEF RefreshOK
    <3> QED BY <3>9 DEF q
  <2> QED BY <2>2, <2>3
<1>6. refresh' \in [Slots -> RefreshRecords]
  <2>1. \A s \in Slots : refresh'[s] \in RefreshRecords
    BY <1>5 DEF RefreshOK
  <2>2. refresh' = [s \in Slots |-> refresh'[s]]
    BY <1>1 DEF Witnessed
  <2> QED BY <2>1, <2>2
<1>7. RefreshesOK'
  BY <1>1, <1>5, <1>6 DEF RefreshesOK, inventoryVars
<1> QED BY <1>2, <1>3, <1>7 DEF CertificatesInv

-----------------------------------------------------------------------------
(* The refresh. *)

\* What recording does to the rows.
LEMMA CollectedOK ==
  ASSUME RowsOK(assets), NEW place, NEW cache \in Caches, NEW done \in SUBSET DOMAIN assets,
         \A k \in done : Needs(k, place) \subseteq DOMAIN cache,
         \A k \in done : k.owner = 0 => place[k] = CA
  PROVE  /\ RowsOK(Collected(place, cache, done)) /\ Keeps(assets, Collected(place, cache, done))
         /\ DOMAIN Collected(place, cache, done) = DOMAIN assets
         /\ \A k \in DOMAIN assets \ done : Collected(place, cache, done)[k] = assets[k]
         /\ \A k \in done :
              /\ Collected(place, cache, done)[k].health \in {"healthy", "degraded"}
              /\ place[k] \in DOMAIN cache
              /\ Collected(place, cache, done)[k].last = cache[place[k]]
              /\ Collected(place, cache, done)[k].health = "healthy" /\ k \notin CAKeys =>
                   CA \in DOMAIN cache /\ cache[place[k]].issuer = cache[CA].serial
<1> DEFINE C == Collected(place, cache, done)
<1>1. DOMAIN C = DOMAIN assets /\ C = [k \in DOMAIN assets |-> C[k]]
      /\ \A k \in DOMAIN assets \ done : C[k] = assets[k]
  BY DEF Collected
<1>2. ASSUME NEW k \in done
      PROVE  /\ C[k] \in AssetRows /\ C[k].locator = assets[k].locator
             /\ C[k].health \in {"healthy", "degraded"}
             /\ place[k] \in DOMAIN cache
             /\ C[k].last = cache[place[k]]
             /\ C[k].health = "healthy" /\ k \notin CAKeys =>
                  CA \in DOMAIN cache /\ cache[place[k]].issuer = cache[CA].serial
  <2> DEFINE cert == cache[place[k]]
             chain == IF k \in CAKeys THEN NoCert ELSE cache[CA]
             h == Inspect(cert, chain, k, assets[k].locator)
  <2>1. k \in AssetKeys /\ assets[k] \in AssetRows /\ (k.owner = 0 => place[k] = CA)
    BY DEF RowsOK
  <2>2. place[k] \in DOMAIN cache /\ (k \notin CAKeys => CA \in DOMAIN cache)
    BY <2>1, KeyFacts DEF Needs
  <2>3. cert \in Files /\ (k \notin CAKeys => chain # NoCert)
    BY <2>2, CertificateAssumption DEF Caches, Files
  <2>4. h \in {"healthy", "degraded"}
    BY DEF Inspect
  <2>5. h = "healthy" /\ k \notin CAKeys => cert.issuer = cache[CA].serial
    <3>1. SUFFICES ASSUME h = "healthy", k \notin CAKeys PROVE cert.issuer = cache[CA].serial
      OBVIOUS
    <3>2. ChainStatus(cert, chain) = "verified" /\ chain = cache[CA] /\ chain # NoCert
      BY <2>3, <3>1 DEF Inspect
    <3> QED BY <3>2 DEF ChainStatus
  <2>6. C[k] = [assets[k] EXCEPT !.health = h, !.last = cert]
    BY <2>1 DEF Collected, RecordObservation
  <2> HIDE DEF h, cert
  <2>7. C[k] \in AssetRows /\ C[k].locator = assets[k].locator /\ C[k].health = h /\ C[k].last = cert
    BY <2>1, <2>3, <2>4, <2>6 DEF AssetRows
  <2> QED BY <2>2, <2>4, <2>5, <2>7 DEF cert
<1> HIDE DEF C
<1>3. \A k \in DOMAIN assets : C[k] \in AssetRows /\ C[k].locator = assets[k].locator
  BY <1>1, <1>2 DEF RowsOK
<1>4. RowsOK(C)
  BY <1>1, <1>3 DEF RowsOK
<1>5. Keeps(assets, C)
  BY <1>1, <1>2, <1>3 DEF Keeps
<1> QED BY <1>1, <1>2, <1>4, <1>5 DEF C

\* Parts of assets are finite and add up.
LEMMA CountParts ==
  ASSUME NEW S \in SUBSET AssetKeys, NEW T \in SUBSET S
  PROVE  /\ IsFiniteSet(S) /\ Cardinality(S) \in Nat
         /\ Cardinality(T) \in Nat /\ Cardinality(S \ T) \in Nat
         /\ Cardinality(S) = Cardinality(T) + Cardinality(S \ T)
<1>1. IsFiniteSet(S) /\ IsFiniteSet(T) /\ IsFiniteSet(S \ T)
  <2>1. T \in SUBSET AssetKeys /\ S \ T \in SUBSET AssetKeys
    OBVIOUS
  <2> QED BY <2>1, KeysFinite, FS_Subset
<1>2. Cardinality(S) \in Nat /\ Cardinality(T) \in Nat /\ Cardinality(S \ T) \in Nat
  BY <1>1, FS_CardinalityType
<1>3. Cardinality(S \ T) = Cardinality(S) - Cardinality(S \cap T)
  BY <1>1, FS_Difference
<1>4. S \cap T = T
  OBVIOUS
<1>5. Cardinality(S \ T) = Cardinality(S) - Cardinality(T)
  BY <1>3, <1>4
<1> QED BY <1>1, <1>2, <1>5

LEMMA SlotFacts ==
  ASSUME CertificatesInv, NEW s \in Slots, Running(s)
  PROVE  /\ refresh[s] \in RefreshRecords /\ refresh[s].phase = "running"
         /\ refresh[s].todo \in SUBSET AssetKeys /\ refresh[s].cache \in Caches
         /\ AccountsFor(refresh[s]) /\ HoldsOK(refresh[s], disk) /\ AwaitsFile(refresh[s])
         /\ ~refresh[s].orphan => RowsFor(refresh[s], assets) /\ refresh[s].todo \subseteq DOMAIN assets
<1>1. RefreshOK(refresh[s], assets, disk) /\ refresh[s].phase = "running"
  BY DEF CertificatesInv, RefreshesOK, Running
<1> QED BY <1>1 DEF RefreshOK, AccountsFor, RowsFor, RefreshRecords

\* A step of a refresh: the assets done with are accounted for, what is left
\* waits for a file, and what was read lay on the disk.
LEMMA ProgressOK ==
  ASSUME CertificatesInv, NEW s \in Slots, Running(s),
         NEW rows, NEW todo, NEW cache \in Caches, NEW collected \in Nat, NEW failed \in Nat,
         NEW gone, Progress(s, rows, todo, cache, collected, failed, gone),
         RowsOK(rows), Keeps(assets, rows), DOMAIN rows = DOMAIN assets,
         todo \subseteq refresh[s].todo,
         Cardinality(todo) + collected + failed = Cardinality(refresh[s].todo),
         \A k \in refresh[s].todo \ todo : rows[k].health # "unobserved",
         \A l \in DOMAIN cache : <<l, cache[l]>> \in refresh[s].since,
         gone # {} => refresh[s].orphan,
         gone = {} =>
           \A k : FirstIn(todo, k) => ~(Needs(k, refresh[s].place) \subseteq DOMAIN cache)
  PROVE  /\ CertificatesInv' /\ \A k \in DOMAIN rows : assets'[k] = rows[k]
         /\ refresh'[s].todo = todo /\ refresh'[s].cache = cache
         /\ \A t \in Slots \ {s} : refresh'[t] = refresh[t]
<1> DEFINE r == refresh[s]
<1>1. WorldOK /\ PoliciesOK /\ InventoryOK /\ UNCHANGED <<worldVars, formVars, previewVars>>
  BY DEF CertificatesInv, Progress
<1>2. /\ RowsOK(assets') /\ Keeps(rows, assets') /\ \A k \in DOMAIN rows : assets'[k] = rows[k]
  <2>1. CASE todo = {}
    BY <1>1, <2>1, EnsureAssetsOK DEF Progress
  <2>2. CASE todo # {}
    BY <2>2, KeepsRefl DEF Progress
  <2> QED BY <2>1, <2>2
<1>3. Keeps(assets, assets')
  BY <1>2, KeepsTrans
<1>4. WorldOK'
  BY <1>1 DEF WorldOK, worldVars
<1>5. PoliciesOK' /\ InventoryOK'
  <2>1. CASE todo = {}
    <3>1. domains' = EnsureDomains /\ certPolicy' = EnsurePolicy
      BY <2>1 DEF Progress, AdoptLegacy
    <3> QED BY <1>1, <1>2, <3>1, EnsurePolicyOK, EnsureDomainsOK
               DEF PoliciesOK, InventoryOK, formVars, previewVars
  <2>2. CASE todo # {}
    <3>1. UNCHANGED <<domains, certPolicy>> /\ assets' = rows
      BY <2>2 DEF Progress
    <3> QED BY <1>1, <1>2, <3>1 DEF PoliciesOK, InventoryOK, formVars, previewVars
  <2> QED BY <2>1, <2>2
<1>6. PICK p, a, b : /\ p = (IF gone # {} THEN "not_found" ELSE IF todo = {} THEN "done" ELSE "running")
                     /\ a = r.collected + collected /\ b = r.failed + failed
  OBVIOUS
<1> DEFINE q == [r EXCEPT !.todo = todo, !.cache = cache, !.collected = a, !.failed = b, !.phase = p]
<1>7. refresh' = [refresh EXCEPT ![s] = q]
  <2>1. refresh \in [Slots -> RefreshRecords]
    BY DEF CertificatesInv, RefreshesOK
  <2>2. refresh' = [refresh EXCEPT ![s] =
          [r EXCEPT !.todo = todo, !.cache = cache, !.collected = r.collected + collected,
                    !.failed = r.failed + failed,
                    !.phase = IF gone # {} THEN "not_found"
                              ELSE IF todo = {} THEN "done" ELSE "running"]]
    BY ONLY <2>1, Progress(s, rows, todo, cache, collected, failed, gone) DEF Progress
  <2> HIDE DEF r
  <2> QED BY ONLY <1>6, <2>2
<1>8. /\ r \in RefreshRecords /\ r.phase = "running" /\ AccountsFor(r) /\ HoldsOK(r, disk)
      /\ todo \subseteq AssetKeys /\ (~r.orphan => RowsFor(r, assets))
  BY SlotFacts DEF RefreshRecords
<1>9. /\ q \in RefreshRecords /\ q.todo = todo /\ q.cache = cache /\ q.listed = r.listed
      /\ q.since = r.since /\ q.collected = r.collected + collected /\ q.failed = r.failed + failed
      /\ q.place = r.place /\ q.orphan = r.orphan /\ q.phase = p
  <2>1. p \in {"running", "done", "not_found"} /\ a \in Nat /\ b \in Nat
    BY <1>6, <1>8 DEF RefreshRecords
  <2>2. todo \in SUBSET AssetKeys
    BY <1>8
  <2>3. /\ q \in RefreshRecords /\ q.todo = todo /\ q.cache = cache /\ q.listed = r.listed
        /\ q.since = r.since /\ q.collected = a /\ q.failed = b /\ q.phase = p
        /\ q.place = r.place /\ q.orphan = r.orphan
    BY ONLY <1>8, <2>1, <2>2, cache \in Caches DEF RefreshRecords
  <2> QED BY <1>6, <2>3
<1> HIDE DEF q
<1>10. RefreshOK(q, assets', disk)
  <2>1. AccountsFor(q)
    <3>1. /\ r.collected + r.failed + Cardinality(r.todo) = Cardinality(r.listed)
          /\ r.collected \in Nat /\ r.failed \in Nat
      BY <1>8 DEF AccountsFor, RefreshRecords
    <3>2. Cardinality(todo) \in Nat /\ Cardinality(r.todo) \in Nat
      BY <1>8, CountParts DEF RefreshRecords
    <3>3. q.collected + q.failed + Cardinality(q.todo) = Cardinality(q.listed)
      BY <1>9, <3>1, <3>2
    <3> QED BY <1>8, <1>9, <3>3 DEF AccountsFor
  <2>2. ASSUME ~q.orphan PROVE RowsFor(q, assets')
    <3>1. RowsFor(r, assets) /\ AccountsFor(r)
      BY <1>8, <1>9, <2>2
    <3>2. \A k \in r.listed : k \in DOMAIN assets /\ k \in DOMAIN assets' /\ assets'[k] = rows[k]
                              /\ assets'[k].locator = assets[k].locator
      BY <1>2, <1>3, <3>1 DEF RowsFor, Keeps
    <3>3. ASSUME NEW k \in q.listed \ q.todo
          PROVE  assets'[k].health # "unobserved"
      <4>1. CASE k \in r.todo
        BY <1>9, <3>2, <4>1
      <4>2. CASE k \notin r.todo
        BY <1>3, <1>9, <3>1, <3>2, <4>2 DEF RowsFor, Keeps
      <4> QED BY <4>1, <4>2
    <3> QED BY <1>9, <3>1, <3>2, <3>3 DEF RowsFor
  <2>3. HoldsOK(q, disk)
    BY <1>8, <1>9 DEF HoldsOK
  <2>4. ASSUME p = "running" PROVE AwaitsFile(q)
    BY <1>6, <1>9, <2>4 DEF AwaitsFile
  <2>5. (p = "not_found" => r.orphan) /\ (p \in {"idle", "done"} => todo = {})
    BY <1>6
  <2> QED BY <1>9, <2>1, <2>2, <2>3, <2>4, <2>5 DEF RefreshOK
<1>11. RefreshesOK'
  <2>1. refresh \in [Slots -> RefreshRecords]
    BY DEF CertificatesInv, RefreshesOK
  <2>2. refresh' \in [Slots -> RefreshRecords]
    BY <1>7, <1>9, <2>1
  <2>3. ASSUME NEW t \in Slots
        PROVE  RefreshOK(refresh'[t], assets', disk)
    <3>1. CASE t = s
      BY <1>7, <1>10, <2>1, <3>1
    <3>2. CASE t # s
      <4>1. refresh'[t] = refresh[t] /\ RefreshOK(refresh[t], assets, disk)
        BY <1>7, <2>1, <3>2 DEF CertificatesInv, RefreshesOK
      <4> QED BY <1>3, <4>1, OthersKeep
    <3> QED BY <3>1, <3>2
  <2> QED BY <1>1, <2>2, <2>3 DEF RefreshesOK, worldVars
<1>12. refresh'[s] = q /\ \A t \in Slots \ {s} : refresh'[t] = refresh[t]
  BY <1>7 DEF CertificatesInv, RefreshesOK
<1> QED BY <1>2, <1>4, <1>5, <1>9, <1>11, <1>12 DEF CertificatesInv

\* What a step may take off a refresh's list and what it may record of it.
EvidenceStep ==
  \A s \in Slots : \A k \in refresh[s].todo \ refresh'[s].todo :
    ~refresh[s].orphan /\ assets'[k].health \in {"healthy", "degraded"} =>
      /\ <<assets[k].locator, assets'[k].last>> \in refresh[s].since
      /\ assets'[k].health = "healthy" /\ k \notin CAKeys =>
           \E a \in CACerts : <<CA, a>> \in refresh[s].since
                              /\ assets'[k].last.issuer = a.serial

\* A step of a refresh in flight gets on with it.
ProgressStep ==
  \A s \in Slots :
    Running(s) /\ refresh'[s].phase = "running" /\ refresh'[s] # refresh[s]
    /\ refresh'[s].since = refresh[s].since /\ refresh'[s].orphan = refresh[s].orphan =>
      \/ refresh'[s].todo # refresh[s].todo /\ refresh'[s].todo \subseteq refresh[s].todo
      \/ DOMAIN refresh[s].cache # DOMAIN refresh'[s].cache

LEMMA UntouchedSteps ==
  ASSUME UNCHANGED refresh
  PROVE  EvidenceStep /\ ProgressStep
BY DEF EvidenceStep, ProgressStep

\* The next asset and the file it is waiting for.
LEMMA WantedOK ==
  ASSUME CertificatesInv, NEW s \in Slots, Running(s)
  PROVE  /\ FirstOf(refresh[s].todo) \in refresh[s].todo
         /\ Wanted(s) \in Locators /\ Wanted(s) \notin DOMAIN refresh[s].cache
<1> DEFINE r == refresh[s]
           k == FirstOf(r.todo)
<1>1. /\ r \in RefreshRecords /\ r.todo \in SUBSET AssetKeys /\ AwaitsFile(r) /\ AccountsFor(r)
  BY SlotFacts
<1>2. FirstIn(r.todo, k)
  BY <1>1, FirstExists DEF AwaitsFile
<1>3. k \in r.todo /\ ~(Needs(k, r.place) \subseteq DOMAIN r.cache)
  BY <1>1, <1>2 DEF AwaitsFile, FirstIn
<1> HIDE DEF k
<1>4. k \in AssetKeys /\ r.place[k] \in Locators /\ (k \in CAKeys => r.place[k] = CA)
  <2>1. k \in AssetKeys /\ k \in DOMAIN r.place /\ (k.owner = 0 => r.place[k] = CA)
    BY <1>1, <1>3 DEF AccountsFor
  <2>2. r.place \in Places
    BY <1>1 DEF RefreshRecords
  <2> QED BY <2>1, <2>2, KeyFacts DEF Places
<1>5. Wanted(s) = IF r.place[k] \in DOMAIN r.cache THEN CA ELSE r.place[k]
  BY DEF Wanted, k
<1>6. Wanted(s) \in Locators /\ Wanted(s) \notin DOMAIN r.cache
  BY <1>3, <1>4, <1>5 DEF Needs, Locators
<1> QED BY <1>3, <1>6 DEF k

\* What is recorded of assets lay on the disk since the refresh began.
RecordedFrom(r, rows, done) ==
  \A k \in done :
    /\ rows[k].health \in {"healthy", "degraded"}
    /\ <<r.place[k], rows[k].last>> \in r.since
    /\ rows[k].health = "healthy" /\ k \notin CAKeys =>
         \E a \in CACerts : <<CA, a>> \in r.since /\ rows[k].last.issuer = a.serial

ReadFrom(r, cache) == \A l \in DOMAIN cache : <<l, cache[l]>> \in r.since

Waits(r, todo, cache) ==
  \A k : FirstIn(todo, k) => ~(Needs(k, r.place) \subseteq DOMAIN cache)

\* Of the assets that are left, those done are recorded in rows.
Records(r, left, cache, ready, done, rows) ==
  /\ done \subseteq left /\ done \in SUBSET DOMAIN assets
  /\ Gone(ready) # {} => r.orphan
  /\ Gone(ready) = {} => Waits(r, left \ done, cache)
  /\ RowsOK(rows) /\ Keeps(assets, rows) /\ DOMAIN rows = DOMAIN assets
  /\ RecordedFrom(r, rows, done)

\* Assets of a refresh are recorded from what it has read.
LEMMA RecordedOK ==
  ASSUME CertificatesInv, NEW s \in Slots, Running(s), NEW cache, cache \in Caches,
         NEW left, left \subseteq refresh[s].todo, NEW ready, NEW done, NEW rows,
         ready = Ready(left, cache, refresh[s].place), done = Noted(ready),
         rows = Collected(refresh[s].place, cache, done), ReadFrom(refresh[s], cache)
  PROVE  Records(refresh[s], left, cache, ready, done, rows)
<1> DEFINE r == refresh[s]
<1>1. /\ r \in RefreshRecords /\ r.todo \in SUBSET AssetKeys /\ AccountsFor(r) /\ HoldsOK(r, disk)
      /\ (~r.orphan => r.todo \subseteq DOMAIN assets)
  BY SlotFacts
<1>2. RowsOK(assets)
  BY DEF CertificatesInv, InventoryOK
<1>3. left \in SUBSET AssetKeys
  BY <1>1
<1>4. ready \subseteq left /\ \A k \in ready : Needs(k, r.place) \subseteq DOMAIN cache
  BY ReadyFacts
<1>5. ready \in SUBSET AssetKeys
  BY <1>3, <1>4
<1>6. /\ done \subseteq ready /\ done \in SUBSET DOMAIN assets
      /\ Gone(ready) = {} => done = ready
      /\ ready \subseteq DOMAIN assets => Gone(ready) = {}
  BY <1>5, NotedFacts
<1>7. Gone(ready) # {} => r.orphan
  BY <1>1, <1>4, <1>6
<1>8. Gone(ready) = {} => Waits(r, left \ done, cache)
  BY <1>3, <1>6, ReadyLeavesWaiting DEF Waits
<1>9. \A k \in done : k.owner = 0 => r.place[k] = CA
  BY <1>1, <1>4, <1>6 DEF AccountsFor
<1>10. \A k \in done : Needs(k, r.place) \subseteq DOMAIN cache
  BY <1>4, <1>6
<1>11. PICK place : place = r.place
  OBVIOUS
<1>12. /\ \A k \in done : Needs(k, place) \subseteq DOMAIN cache
       /\ \A k \in done : k.owner = 0 => place[k] = CA
       /\ rows = Collected(place, cache, done)
  BY <1>9, <1>10, <1>11
<1> HIDE DEF r
<1>13. /\ RowsOK(rows) /\ Keeps(assets, rows) /\ DOMAIN rows = DOMAIN assets
  BY <1>2, <1>6, <1>12, CollectedOK
<1>14. \A k \in done :
         /\ rows[k].health \in {"healthy", "degraded"}
         /\ place[k] \in DOMAIN cache
         /\ rows[k].last = cache[place[k]]
         /\ rows[k].health = "healthy" /\ k \notin CAKeys =>
              CA \in DOMAIN cache /\ cache[place[k]].issuer = cache[CA].serial
  BY <1>2, <1>6, <1>12, CollectedOK
<1>15. RecordedFrom(r, rows, done)
  <2>1. \A l \in DOMAIN cache : <<l, cache[l]>> \in r.since
    BY DEF r, ReadFrom
  <2>2. CA \in DOMAIN cache => cache[CA] \in CACerts
    BY <1>1, <2>1 DEF HoldsOK
  <2>3. ASSUME NEW k \in done
        PROVE  /\ rows[k].health \in {"healthy", "degraded"}
               /\ <<place[k], rows[k].last>> \in r.since
               /\ rows[k].health = "healthy" /\ k \notin CAKeys =>
                    \E a \in CACerts : <<CA, a>> \in r.since /\ rows[k].last.issuer = a.serial
    BY <1>14, <2>1, <2>2
  <2> QED BY <1>11, <2>3 DEF RecordedFrom
<1>16. done \subseteq left
  BY <1>4, <1>6
<1> QED BY <1>6, <1>7, <1>8, <1>13, <1>15, <1>16 DEF r, Records

LEMMA FileReadStep ==
  ASSUME CertificatesInv, NEW s \in Slots, FileRead(s)
  PROVE  CertificatesInv' /\ EvidenceStep /\ ProgressStep
<1> DEFINE r == refresh[s]
           cache == [l \in DOMAIN r.cache \cup {Wanted(s)} |->
                       IF l = Wanted(s) THEN disk[l] ELSE r.cache[l]]
           ready == Ready(r.todo, cache, r.place)
           done == Noted(ready)
           rows == Collected(r.place, cache, done)
           todo == r.todo \ done
<1>1. /\ Running(s) /\ disk[Wanted(s)] # NoCert
      /\ Progress(s, rows, todo, cache, Cardinality(done), 0, Gone(ready))
  BY DEF FileRead
<1>2. /\ r \in RefreshRecords /\ r.todo \in SUBSET AssetKeys /\ r.cache \in Caches
      /\ HoldsOK(r, disk)
  BY <1>1, SlotFacts
<1>3. Wanted(s) \in Locators /\ Wanted(s) \notin DOMAIN r.cache
  BY <1>1, WantedOK
<1>4. disk \in [Locators -> Files]
  BY DEF CertificatesInv, WorldOK
<1>5. disk[Wanted(s)] \in Certs \cup CACerts
  BY <1>1, <1>3, <1>4 DEF Files
<1>6. PICK w : w = Wanted(s)
  OBVIOUS
<1>7. cache = [l \in DOMAIN r.cache \cup {w} |-> IF l = w THEN disk[l] ELSE r.cache[l]]
      /\ w \in Locators /\ w \notin DOMAIN r.cache /\ disk[w] \in Certs \cup CACerts
  BY <1>3, <1>5, <1>6
<1>8. PICK D \in SUBSET Locators : r.cache \in [D -> Certs \cup CACerts]
  BY <1>2 DEF Caches
<1>9. cache \in [D \cup {w} -> Certs \cup CACerts]
  BY <1>7, <1>8
<1>10. D \cup {w} \in SUBSET Locators
  BY <1>7
<1>11. cache \in Caches /\ DOMAIN cache = DOMAIN r.cache \cup {w}
  BY <1>7, <1>9, <1>10 DEF Caches
<1>12. ReadFrom(r, cache)
  <2>1. <<w, disk[w]>> \in r.since
    BY <1>2, <1>7 DEF HoldsOK, OnDisk
  <2> QED BY <1>2, <1>7, <2>1 DEF HoldsOK, ReadFrom
<1> HIDE DEF cache, ready, done
<1>13. /\ done \subseteq r.todo /\ done \in SUBSET DOMAIN assets
       /\ Gone(ready) # {} => r.orphan
       /\ Gone(ready) = {} => Waits(r, todo, cache)
       /\ RowsOK(rows) /\ Keeps(assets, rows) /\ DOMAIN rows = DOMAIN assets
       /\ RecordedFrom(r, rows, done)
  <2>1. PICK left : left = r.todo
    OBVIOUS
  <2>2. ready = Ready(left, cache, r.place) /\ done = Noted(ready) /\ left \subseteq r.todo
    BY <2>1 DEF ready, done
  <2>3. PICK new : new = rows
    OBVIOUS
  <2>4. Running(s) /\ cache \in Caches /\ new = Collected(r.place, cache, done)
    BY <1>1, <1>11, <2>3
  <2>5. Records(r, left, cache, ready, done, new)
    BY ONLY CertificatesInv, s \in Slots, <1>12, <2>2, <2>4, RecordedOK
  <2> QED BY <2>1, <2>3, <2>5 DEF Records
<1> HIDE DEF rows
<1>14. Cardinality(todo) + Cardinality(done) + 0 = Cardinality(r.todo) /\ Cardinality(done) \in Nat
  <2>1. /\ Cardinality(done) \in Nat /\ Cardinality(todo) \in Nat
        /\ Cardinality(r.todo) = Cardinality(done) + Cardinality(todo)
    BY <1>2, <1>13, CountParts
  <2> QED BY <2>1
<1>15. /\ CertificatesInv' /\ \A k \in DOMAIN rows : assets'[k] = rows[k]
       /\ refresh'[s].todo = todo /\ refresh'[s].cache = cache
       /\ \A t \in Slots \ {s} : refresh'[t] = refresh[t]
  <2>1. \A k \in r.todo \ todo : rows[k].health # "unobserved"
    BY <1>13 DEF RecordedFrom
  <2>2. todo \subseteq r.todo
    OBVIOUS
  <2> HIDE DEF todo
  <2> QED BY <1>1, <1>11, <1>12, <1>13, <1>14, <2>1, <2>2, ProgressOK DEF ReadFrom, Waits
<1>16. EvidenceStep
  <2> SUFFICES ASSUME NEW t \in Slots, NEW k \in refresh[t].todo \ refresh'[t].todo,
                      ~refresh[t].orphan, assets'[k].health \in {"healthy", "degraded"}
               PROVE  /\ <<assets[k].locator, assets'[k].last>> \in refresh[t].since
                      /\ assets'[k].health = "healthy" /\ k \notin CAKeys =>
                           \E a \in CACerts : <<CA, a>> \in refresh[t].since
                                              /\ assets'[k].last.issuer = a.serial
    BY DEF EvidenceStep
  <2>1. t = s /\ k \in done
    BY <1>15
  <2>2. assets'[k] = rows[k]
    BY <1>13, <1>15, <2>1
  <2>3. assets[k].locator = r.place[k]
    BY <1>1, <2>1, SlotFacts DEF RowsFor, AccountsFor
  <2> QED BY <1>13, <2>1, <2>2, <2>3 DEF RecordedFrom
<1>17. ProgressStep
  <2>1. DOMAIN refresh'[s].cache # DOMAIN refresh[s].cache
    BY <1>7, <1>11, <1>15
  <2> QED BY <1>15, <2>1 DEF ProgressStep
<1> QED BY <1>15, <1>16, <1>17

\* The asset at the head is marked and passed, the ones behind it that need
\* no further file are recorded.
LEMMA ReadFailsStep ==
  ASSUME CertificatesInv, NEW s \in Slots, ReadFails(s)
  PROVE  CertificatesInv' /\ EvidenceStep /\ ProgressStep
<1> DEFINE r == refresh[s]
           k == FirstOf(r.todo)
           left == r.todo \ {k}
           ready == Ready(left, r.cache, r.place) \ {k}
           done == Noted(ready)
           C == Collected(r.place, r.cache, done)
           rows == [j \in DOMAIN assets |-> IF j \in done THEN C[j] ELSE FailedRows(k)[j]]
           todo == left \ done
<1>1. /\ Running(s) /\ k \in DOMAIN assets
      /\ Progress(s, rows, todo, r.cache, Cardinality(done), 1, Gone(ready))
  BY DEF ReadFails, AfterFailure
<1>2. /\ r \in RefreshRecords /\ r.todo \in SUBSET AssetKeys /\ r.cache \in Caches
      /\ HoldsOK(r, disk)
  BY <1>1, SlotFacts
<1>3. k \in r.todo
  BY <1>1, WantedOK
<1>4. RowsOK(assets)
  BY DEF CertificatesInv, InventoryOK
<1> HIDE DEF k
<1>5. left \in SUBSET AssetKeys /\ left \subseteq r.todo
  BY <1>2
<1>6. ready = Ready(left, r.cache, r.place) /\ k \notin ready
  BY ReadyFacts
<1>7. ReadFrom(r, r.cache)
  BY <1>2 DEF HoldsOK, ReadFrom
<1> HIDE DEF ready, done
<1>8. /\ done \subseteq left /\ done \in SUBSET DOMAIN assets
      /\ Gone(ready) # {} => r.orphan
      /\ Gone(ready) = {} => Waits(r, todo, r.cache)
      /\ RowsOK(C) /\ Keeps(assets, C) /\ DOMAIN C = DOMAIN assets
      /\ RecordedFrom(r, C, done)
  <2>1. PICK new : new = C
    OBVIOUS
  <2>2. Running(s) /\ done = Noted(ready) /\ new = Collected(r.place, r.cache, done)
    BY <1>1, <2>1 DEF done
  <2> HIDE DEF left
  <2>3. Records(r, left, r.cache, ready, done, new)
    BY ONLY CertificatesInv, s \in Slots, <1>2, <1>5, <1>6, <1>7, <2>2, RecordedOK
  <2> QED BY <2>1, <2>3 DEF Records
<1> HIDE DEF C
<1>9. /\ \A j \in DOMAIN assets : j # k => FailedRows(k)[j] = assets[j]
      /\ FailedRows(k)[k] = [assets[k] EXCEPT !.health = "observation_failed"]
  BY <1>1, <1>4 DEF FailedRows, RecordFailure, RowsOK
<1>10. /\ DOMAIN rows = DOMAIN assets /\ rows = [j \in DOMAIN assets |-> rows[j]]
       /\ \A j \in done : rows[j] = C[j]
       /\ rows[k] = [assets[k] EXCEPT !.health = "observation_failed"]
       /\ \A j \in DOMAIN assets : j # k /\ j \notin done => rows[j] = assets[j]
  BY <1>1, <1>8, <1>9
<1> HIDE DEF rows
<1>11. assets[k] \in AssetRows
  BY <1>1, <1>4 DEF RowsOK
<1>12. /\ rows[k] \in AssetRows /\ rows[k].locator = assets[k].locator
       /\ rows[k].health = "observation_failed"
  BY <1>10, <1>11 DEF AssetRows
<1>13. RowsOK(rows)
  <2>1. \A j \in DOMAIN assets : rows[j] \in AssetRows /\ rows[j].locator = assets[j].locator
    <3> SUFFICES ASSUME NEW j \in DOMAIN assets
                 PROVE  rows[j] \in AssetRows /\ rows[j].locator = assets[j].locator
      OBVIOUS
    <3>1. CASE j \in done
      <4>1. rows[j] = C[j]
        BY <1>10, <3>1
      <4>2. C[j] \in AssetRows /\ C[j].locator = assets[j].locator
        BY <1>8 DEF RowsOK, Keeps
      <4> QED BY <4>1, <4>2
    <3>2. CASE j = k
      BY <1>12, <3>2
    <3>3. CASE j # k /\ j \notin done
      <4>1. rows[j] = assets[j] /\ assets[j] \in AssetRows
        BY <1>4, <1>10, <3>3 DEF RowsOK
      <4> QED BY <4>1
    <3> QED BY <3>1, <3>2, <3>3
  <2> QED BY <1>4, <1>10, <2>1 DEF RowsOK
<1>14. Keeps(assets, rows)
  BY <1>8, <1>10, <1>12 DEF Keeps
<1>15. Cardinality(todo) + Cardinality(done) + 1 = Cardinality(r.todo) /\ Cardinality(done) \in Nat
  <2>1. /\ Cardinality(done) \in Nat /\ Cardinality(todo) \in Nat
        /\ Cardinality(left) = Cardinality(done) + Cardinality(todo)
    BY <1>5, <1>8, CountParts
  <2>2. Cardinality({k}) = 1
    BY FS_Singleton
  <2>3. Cardinality(r.todo) = Cardinality({k}) + Cardinality(left)
    <3>1. {k} \in SUBSET r.todo
      BY <1>3
    <3> QED BY <1>2, <3>1, CountParts
  <2> QED BY <2>1, <2>2, <2>3
<1>16. /\ CertificatesInv' /\ \A j \in DOMAIN rows : assets'[j] = rows[j]
       /\ refresh'[s].todo = todo /\ refresh'[s].cache = r.cache
       /\ \A t \in Slots \ {s} : refresh'[t] = refresh[t]
  <2>1. \A j \in r.todo \ todo : rows[j].health # "unobserved"
    <3>1. \A j \in done : rows[j].health # "unobserved"
      BY <1>8, <1>10 DEF RecordedFrom
    <3> QED BY <1>12, <3>1
  <2>2. todo \subseteq r.todo
    OBVIOUS
  <2>3. 1 \in Nat
    OBVIOUS
  <2> HIDE DEF todo
  <2> QED BY <1>1, <1>2, <1>7, <1>8, <1>10, <1>13, <1>14, <1>15, <2>1, <2>2, <2>3, ProgressOK
         DEF ReadFrom, Waits
<1>17. EvidenceStep
  <2> SUFFICES ASSUME NEW t \in Slots, NEW j \in refresh[t].todo \ refresh'[t].todo,
                      ~refresh[t].orphan, assets'[j].health \in {"healthy", "degraded"}
               PROVE  /\ <<assets[j].locator, assets'[j].last>> \in refresh[t].since
                      /\ assets'[j].health = "healthy" /\ j \notin CAKeys =>
                           \E a \in CACerts : <<CA, a>> \in refresh[t].since
                                              /\ assets'[j].last.issuer = a.serial
    BY DEF EvidenceStep
  <2>1. t = s /\ (j \in done \/ j = k)
    BY <1>16
  <2>2. assets'[j] = rows[j]
    BY <1>1, <1>8, <1>10, <1>16, <2>1
  <2>3. j \in done /\ assets'[j] = C[j]
    BY <1>10, <1>12, <2>1, <2>2
  <2>4. assets[j].locator = r.place[j]
    BY <1>1, <1>8, <2>1, <2>3, SlotFacts DEF RowsFor, AccountsFor
  <2> QED BY <1>8, <2>1, <2>3, <2>4 DEF RecordedFrom
<1>18. ProgressStep
  <2>1. refresh'[s].todo # refresh[s].todo /\ refresh'[s].todo \subseteq refresh[s].todo
    BY <1>3, <1>16
  <2> QED BY <1>16, <2>1 DEF ProgressStep
<1> QED BY <1>16, <1>17, <1>18

LEMMA RefreshLostStep ==
  ASSUME CertificatesInv, NEW s \in Slots, RefreshLost(s)
  PROVE  CertificatesInv' /\ EvidenceStep /\ ProgressStep
<1> DEFINE r == refresh[s]
           q == [r EXCEPT !.phase = "not_found"]
<1>1. /\ Running(s) /\ r.orphan
      /\ UNCHANGED <<worldVars, policyVars, inventoryVars, previewVars>>
  <2>1. /\ Running(s) /\ FirstOf(r.todo) \notin DOMAIN assets
        /\ UNCHANGED <<worldVars, policyVars, inventoryVars, previewVars>>
    BY DEF RefreshLost
  <2> QED BY <2>1, SlotFacts, WantedOK
<1>2. refresh \in [Slots -> RefreshRecords]
  BY DEF CertificatesInv, RefreshesOK
<1>3. refresh' = [refresh EXCEPT ![s] = q]
  BY <1>2 DEF RefreshLost
<1>4. /\ q \in RefreshRecords /\ q.phase = "not_found" /\ q.todo = r.todo /\ r \in RefreshRecords
      /\ q.listed = r.listed /\ q.place = r.place /\ q.orphan = r.orphan
  BY <1>2 DEF RefreshRecords
<1> HIDE DEF q
<1>5. refresh'[s] = q /\ \A t \in Slots \ {s} : refresh'[t] = refresh[t]
  BY <1>2, <1>3
<1>6. RefreshOK(q, assets, disk)
  <2>1. AccountsFor(r)
    BY <1>1, SlotFacts
  <2> QED BY <1>1, <1>4, <2>1 DEF RefreshOK, AccountsFor
<1>7. RefreshesOK'
  <2>1. refresh' \in [Slots -> RefreshRecords]
    BY <1>2, <1>3, <1>4
  <2>2. \A t \in Slots : RefreshOK(refresh'[t], assets, disk)
    BY <1>5, <1>6 DEF CertificatesInv, RefreshesOK
  <2> QED BY <1>1, <2>1, <2>2 DEF RefreshesOK, worldVars, inventoryVars
<1>8. WorldOK' /\ PoliciesOK' /\ InventoryOK'
  BY <1>1 DEF CertificatesInv, WorldOK, PoliciesOK, InventoryOK, worldVars, policyVars, formVars,
     inventoryVars, previewVars
<1>9. EvidenceStep /\ ProgressStep
  BY <1>4, <1>5 DEF EvidenceStep, ProgressStep
<1> QED BY <1>7, <1>8, <1>9 DEF CertificatesInv

\* A refresh begins with an empty cache and every asset to do, or with none
\* when there is no host to read the authority from.
LEMMA StartRefreshStep ==
  ASSUME CertificatesInv, NEW s \in Slots, StartRefresh(s)
  PROVE  CertificatesInv' /\ EvidenceStep /\ ProgressStep
<1> DEFINE rows == EnsureAssets(assets)
           all == DOMAIN rows
           new == IF HasBootstrap THEN rows ELSE [k \in all |-> RecordFailure(rows[k])]
           place == [k \in all |-> rows[k].locator]
           q == [phase |-> IF HasBootstrap THEN "running" ELSE "done", listed |-> all,
                 place |-> place, todo |-> IF HasBootstrap THEN all ELSE {},
                 cache |-> StartCache(s), collected |-> 0,
                 failed |-> IF HasBootstrap THEN 0 ELSE Cardinality(all),
                 since |-> OnDisk(disk), orphan |-> FALSE]
<1>1. /\ refresh[s].phase \in {"idle", "done", "not_found"} /\ certCluster.alive /\ AdoptLegacy
      /\ assets' = new /\ refresh' = [refresh EXCEPT ![s] = q]
      /\ UNCHANGED <<worldVars, formVars, previewVars>>
  BY DEF StartRefresh
<1>2. WorldOK /\ PoliciesOK /\ InventoryOK /\ RefreshesOK
  BY DEF CertificatesInv
<1>3. /\ RowsOK(rows) /\ Keeps(assets, rows) /\ all # {} /\ all \in SUBSET AssetKeys
      /\ rows \in [all -> AssetRows]
  <2>1. RowsOK(rows) /\ Keeps(assets, rows) /\ all # {}
    BY <1>2, EnsureAssetsOK DEF InventoryOK
  <2> QED BY <2>1 DEF RowsOK
<1> HIDE DEF rows
<1>4. /\ RowsOK(new) /\ Keeps(assets, new) /\ DOMAIN new = all
      /\ \A k \in all : new[k].locator = rows[k].locator
      /\ ~HasBootstrap => \A k \in all : new[k].health # "unobserved"
  <2>1. CASE HasBootstrap
    BY <1>3, <2>1
  <2>2. CASE ~HasBootstrap
    <3>1. new = [k \in all |-> RecordFailure(rows[k])]
      BY <2>2
    <3>2. \A k \in all : /\ new[k] \in AssetRows /\ new[k].locator = rows[k].locator
                         /\ new[k].health = "observation_failed"
      BY <1>3, <3>1 DEF RecordFailure, AssetRows
    <3>3. DOMAIN new = all /\ new = [k \in all |-> new[k]]
      BY <3>1
    <3> HIDE DEF new
    <3>4. RowsOK(new)
      BY <1>3, <3>2, <3>3 DEF RowsOK
    <3>5. Keeps(assets, new)
      BY <1>3, <3>2, <3>3 DEF Keeps
    <3> QED BY <3>2, <3>3, <3>4, <3>5
  <2> QED BY <2>1, <2>2
<1> HIDE DEF new
<1>4a. /\ place \in Places /\ DOMAIN place = all
       /\ \A k \in all : place[k] = new[k].locator /\ (k.owner = 0 => place[k] = CA)
  <2>1. place \in [all -> Locators]
    BY <1>3 DEF AssetRows
  <2> QED BY <1>3, <1>4, <2>1 DEF Places, RowsOK
<1> HIDE DEF place
<1>5. refresh \in [Slots -> RefreshRecords] /\ OnDisk(disk) \in SUBSET (Locators \X Files)
  BY <1>2 DEF RefreshesOK, WorldOK, OnDisk
<1>6. Cardinality(all) \in Nat
  BY <1>3, CountParts
<1>7. << >> \in Caches /\ DOMAIN << >> = {}
  <2>1. << >> \in [{} -> Certs \cup CACerts]
    OBVIOUS
  <2> QED BY <2>1 DEF Caches
<1>8. PICK p, t, f : /\ p = (IF HasBootstrap THEN "running" ELSE "done")
                     /\ t = (IF HasBootstrap THEN all ELSE {})
                     /\ f = (IF HasBootstrap THEN 0 ELSE Cardinality(all))
  OBVIOUS
<1>9. q = [phase |-> p, listed |-> all, place |-> place, todo |-> t, cache |-> << >>,
           collected |-> 0, failed |-> f, since |-> OnDisk(disk), orphan |-> FALSE]
  BY <1>8 DEF StartCache
<1>10. p \in {"running", "done"} /\ t \in SUBSET AssetKeys /\ f \in Nat
  BY <1>3, <1>6, <1>8
<1>11. /\ q \in RefreshRecords /\ q.phase = p /\ q.listed = all /\ q.todo = t
       /\ DOMAIN q.cache = {} /\ q.collected = 0 /\ q.failed = f /\ q.since = OnDisk(disk)
       /\ q.place = place /\ q.orphan = FALSE
  <2> HIDE DEF q, all
  <2> QED BY ONLY <1>3, <1>4a, <1>5, <1>7, <1>9, <1>10 DEF RefreshRecords
<1> HIDE DEF q
<1>12. RefreshOK(q, new, disk)
  <2>1. AccountsFor(q)
    <3>1. q.collected + q.failed + Cardinality(q.todo) = Cardinality(q.listed)
      <4>1. Cardinality({}) = 0
        BY FS_EmptySet
      <4> QED BY <1>6, <1>8, <1>11, <4>1
    <3> QED BY <1>4a, <1>8, <1>11, <3>1 DEF AccountsFor
  <2>2. RowsFor(q, new)
    BY <1>4, <1>4a, <1>8, <1>11 DEF RowsFor
  <2>3. HoldsOK(q, disk)
    BY <1>2, <1>11 DEF HoldsOK, WorldOK, OnDisk
  <2>4. p = "running" => AwaitsFile(q)
    <3>1. \A k : Needs(k, place) # {}
      BY DEF Needs
    <3> QED BY <1>3, <1>8, <1>11, <3>1 DEF AwaitsFile
  <2>5. p = "done" => t = {}
    BY <1>8
  <2> QED BY <1>10, <1>11, <2>1, <2>2, <2>3, <2>4, <2>5 DEF RefreshOK
<1>13. refresh'[s] = q /\ \A u \in Slots \ {s} : refresh'[u] = refresh[u]
  BY <1>1, <1>5
<1>14. RefreshesOK'
  <2>1. refresh' \in [Slots -> RefreshRecords]
    BY <1>1, <1>5, <1>11
  <2>2. ASSUME NEW u \in Slots
        PROVE  RefreshOK(refresh'[u], new, disk)
    <3>1. CASE u = s
      BY <1>12, <1>13, <3>1
    <3>2. CASE u # s
      <4>1. RefreshOK(refresh[u], assets, disk)
        BY <1>2 DEF RefreshesOK
      <4> QED BY <1>4, <1>13, <3>2, <4>1, OthersKeep
    <3> QED BY <3>1, <3>2
  <2> QED BY <1>1, <2>1, <2>2 DEF RefreshesOK, worldVars
<1>15. WorldOK'
  BY <1>1, <1>2 DEF WorldOK, worldVars
<1>16. PoliciesOK'
  BY <1>1, <1>2, EnsurePolicyOK DEF PoliciesOK, AdoptLegacy, formVars
<1>17. InventoryOK'
  <2>1. domains' = EnsureDomains
    BY <1>1 DEF AdoptLegacy
  <2> QED BY <1>1, <1>2, <1>4, <2>1, EnsureDomainsOK DEF InventoryOK, previewVars
<1>18. EvidenceStep
  <2>1. refresh[s].todo = {} \/ refresh[s].orphan
    BY <1>1, <1>2 DEF RefreshesOK, RefreshOK
  <2> QED BY <1>13, <2>1 DEF EvidenceStep
<1>19. ProgressStep
  <2>1. ~Running(s)
    BY <1>1 DEF Running
  <2> QED BY <1>13, <2>1 DEF ProgressStep
<1> QED BY <1>14, <1>15, <1>16, <1>17, <1>18, <1>19 DEF CertificatesInv

\* What was seen and filled in is what is saved.
SavedStep ==
  formSaved' # formSaved \/ certPolicy'.revision > certPolicy.revision =>
    \/ certPolicy'.revision <= 1 \/ formSaved'.editor \in outdated
    \/ certPolicy' = [Merged(formSeen[formSaved'.editor], formSaved'.fields)
                        EXCEPT !.revision = certPolicy.revision + 1]

LEMMA EnsuredSaved ==
  ASSUME CertificatesInv, certPolicy' = EnsurePolicy, formSaved' = formSaved
  PROVE  SavedStep
<1>1. /\ certPolicy.revision \in Nat
      /\ certPolicy.revision # 0 => EnsurePolicy = certPolicy
      /\ certPolicy.revision = 0 => EnsurePolicy.revision = 1
  BY EnsurePolicyOK, CertificateAssumption DEF CertificatesInv, PoliciesOK, Policies
<1> QED BY <1>1 DEF SavedStep

LEMMA UntouchedSaved ==
  ASSUME CertificatesInv, UNCHANGED <<certPolicy, formSaved>>
  PROVE  SavedStep
<1>1. certPolicy.revision \in Nat
  BY CertificateAssumption DEF CertificatesInv, PoliciesOK, Policies
<1> QED BY <1>1 DEF SavedStep

LEMMA UpdateSaved ==
  ASSUME CertificatesInv, NEW e \in Editors, NEW fields \in PolicyForms, UpdatePolicy(e, fields)
  PROVE  SavedStep
<1>1. /\ EnsurePolicy.revision = formSeen[e].revision /\ formSeen[e].revision >= 1
      /\ certPolicy' = [Merged(EnsurePolicy, fields) EXCEPT !.revision = @ + 1]
      /\ formSaved' = [editor |-> e, fields |-> fields]
  BY DEF UpdatePolicy, RevisionMatches
<1> SUFFICES ASSUME e \notin outdated PROVE SavedStep
  BY <1>1 DEF SavedStep
<1>2. /\ certPolicy \in Policies /\ formSeen[e] \in Policies
      /\ formSeen[e].revision <= certPolicy.revision
  BY <1>1 DEF CertificatesInv, PoliciesOK
<1>3. EnsurePolicy = certPolicy /\ formSeen[e] = certPolicy
  BY <1>1, <1>2, EnsurePolicyOK, CertificateAssumption DEF CertificatesInv, Policies
<1>4. Merged(certPolicy, fields).revision = certPolicy.revision
  BY <1>2 DEF Merged, Policies
<1>5. certPolicy' = [Merged(formSeen[e], fields) EXCEPT !.revision = certPolicy.revision + 1]
  BY <1>1, <1>3, <1>4
<1> QED BY <1>1, <1>5 DEF SavedStep

LEMMA CertificatesInitial ==
  ASSUME CertificateInit
  PROVE  CertificatesInv
<1>1. << >> \in Caches /\ << >> \in Places /\ << >> \in [{} -> AssetRows] /\ DOMAIN << >> = {}
  <2>1. /\ << >> \in [{} -> Certs \cup CACerts] /\ << >> \in [{} -> AssetRows]
        /\ << >> \in [{} -> Locators]
    OBVIOUS
  <2> QED BY <2>1 DEF Caches, Places
<1>2. WorldOK
  <2>1. certCluster = [alive |-> TRUE, supported |-> TRUE, assignments |-> Assigned]
    BY DEF CertificateInit
  <2>2. Assigned \in UNION {[D -> Placements] : D \in SUBSET (1..MaxAssignment)}
    BY CertificateAssumption DEF Placements
  <2>3. PICK a \in CACerts : \E c \in {x \in Certs : x.issuer = a.serial} :
          disk = [l \in Locators |-> IF l = CA THEN a ELSE IF l \in Deployed THEN c ELSE NoCert]
    BY DEF CertificateInit
  <2>4. PICK c \in Certs :
          disk = [l \in Locators |-> IF l = CA THEN a ELSE IF l \in Deployed THEN c ELSE NoCert]
    BY <2>3
  <2>5. CA \in Locators
    BY DEF Locators
  <2>6. disk \in [Locators -> Files] /\ disk[CA] \in CACerts
    BY <2>4, <2>5 DEF Files
  <2> QED BY <2>1, <2>2, <2>6 DEF WorldOK
<1>3. PoliciesOK
  <2>1. /\ certPolicy = [revision |-> 0, renew |-> 0, critical |-> 0]
        /\ formSeen = [e \in Editors |-> certPolicy]
    BY DEF CertificateInit
  <2>2. certPolicy \in Policies /\ certPolicy.critical <= certPolicy.renew
        /\ certPolicy.revision <= certPolicy.revision
    BY <2>1, CertificateAssumption DEF Policies
  <2> QED BY <2>1, <2>2 DEF PoliciesOK
<1>4. InventoryOK
  <2>1. /\ domains = << >> /\ assets = << >> /\ operations = {} /\ execAnswer = "none"
    BY DEF CertificateInit
  <2>2. RowsOK(assets)
    BY <1>1, <2>1 DEF RowsOK
  <2> QED BY <1>1, <2>1, <2>2 DEF InventoryOK
<1>5. RefreshesOK
  <2> DEFINE q == [phase |-> "idle", listed |-> {}, place |-> << >>, todo |-> {}, cache |-> << >>,
                   collected |-> 0, failed |-> 0, since |-> {}, orphan |-> FALSE]
  <2>1. refresh = [s \in Slots |-> q]
    BY DEF CertificateInit
  <2>2. /\ q \in RefreshRecords /\ q.phase = "idle" /\ q.todo = {} /\ q.listed = {}
        /\ DOMAIN q.place = {}
    BY <1>1 DEF RefreshRecords
  <2> HIDE DEF q
  <2>3. RefreshOK(q, assets, disk)
    BY <2>2 DEF RefreshOK, AccountsFor
  <2> QED BY <2>1, <2>2, <2>3 DEF RefreshesOK
<1> QED BY <1>2, <1>3, <1>4, <1>5 DEF CertificatesInv

\* A replaced file takes nothing off a list; what it adds to the history of a
\* refresh is all it changes.
LEMMA ReplaceSteps ==
  ASSUME CertificatesInv, NEW l, NEW c, ReplaceFile(l, c)
  PROVE  EvidenceStep /\ ProgressStep
<1>1. refresh' = Witnessed(disk') /\ refresh \in [Slots -> RefreshRecords]
  BY DEF ReplaceFile, CertificatesInv, RefreshesOK
<1>2. ASSUME NEW s \in Slots
      PROVE  /\ refresh'[s].todo = refresh[s].todo
             /\ refresh'[s].since = refresh[s].since => refresh'[s] = refresh[s]
  <2>1. refresh[s] \in RefreshRecords
    BY <1>1
  <2>2. \/ refresh'[s] = refresh[s]
        \/ refresh'[s] = [refresh[s] EXCEPT !.since = @ \cup OnDisk(disk')]
    BY <1>1 DEF Witnessed
  <2> QED BY <2>1, <2>2 DEF RefreshRecords
<1> QED BY <1>2 DEF EvidenceStep, ProgressStep

LEMMA CertificatesNext ==
  ASSUME CertificatesInv, CertificateNext
  PROVE  CertificatesInv' /\ SavedStep /\ EvidenceStep /\ ProgressStep
<1>1. CASE \E l \in Deployed \cup {CA}, c \in Certs \cup CACerts \cup {NoCert} :
             (l = CA <=> c \in CACerts) /\ c # disk[l] /\ ReplaceFile(l, c)
  <2>1. PICK l \in Deployed \cup {CA}, c \in Files :
          (l = CA <=> c \in CACerts) /\ ReplaceFile(l, c)
    BY <1>1 DEF Files
  <2>2. l \in Locators
    BY DesiredOK DEF CertificatesInv, Deployed, AssignmentIds, Locators, Placements
  <2>3. UNCHANGED <<certPolicy, formSaved>>
    BY <2>1 DEF ReplaceFile, policyVars, formVars
  <2> QED BY <2>1, <2>2, <2>3, ReplaceStep, ReplaceSteps, UntouchedSaved
<1>2. CASE \/ \E id \in AssignmentIds : RemoveAssignment(id)
           \/ \E role \in Roles, host \in Hosts : AddAssignment(role, host)
  <2>1. UNCHANGED <<certPolicy, formSaved, refresh>>
    BY <1>2 DEF RemoveAssignment, AddAssignment, Assign, policyVars, formVars
  <2> QED BY <1>2, <2>1, AssignmentStep, UntouchedSteps, UntouchedSaved
<1>3. CASE DeleteCluster
  <2>1. formSaved' = formSaved /\ certPolicy'.revision = 0
    BY <1>3 DEF DeleteCluster
  <2>2. SavedStep
    BY <2>1 DEF SavedStep
  <2>3. EvidenceStep /\ ProgressStep
    <3>1. ASSUME NEW s \in Slots
          PROVE  /\ refresh'[s].todo = refresh[s].todo
                 /\ refresh'[s].orphan = refresh[s].orphan => refresh'[s] = refresh[s]
      <4>1. refresh[s] \in RefreshRecords /\ refresh'[s] = [refresh[s] EXCEPT !.orphan = TRUE]
        BY <1>3 DEF DeleteCluster, CertificatesInv, RefreshesOK
      <4> QED BY <4>1 DEF RefreshRecords
    <3> QED BY <3>1 DEF EvidenceStep, ProgressStep
  <2> QED BY <1>3, <2>2, <2>3, DeleteStep
<1>4. CASE ChangeVersion \/ CertificateTick \/ \E supported \in BOOLEAN : RecreateCluster(supported)
  <2>1. UNCHANGED <<certPolicy, formSaved, refresh>>
    BY <1>4 DEF ChangeVersion, CertificateTick, RecreateCluster, policyVars, formVars
  <2> QED BY <1>4, <2>1, VersionStep, UntouchedSteps, UntouchedSaved
<1>5. CASE \E s \in Slots : StartRefresh(s)
  <2>1. PICK s \in Slots : StartRefresh(s)
    BY <1>5
  <2>2. SavedStep
    BY <2>1, EnsuredSaved DEF StartRefresh, AdoptLegacy, formVars
  <2> QED BY <2>1, <2>2, StartRefreshStep
<1>6. CASE \E s \in Slots : RefreshStep(s)
  <2>1. PICK s \in Slots : RefreshStep(s)
    BY <1>6
  <2>2. CASE FileRead(s) \/ ReadFails(s)
    <3>1. (certPolicy' = EnsurePolicy \/ certPolicy' = certPolicy) /\ formSaved' = formSaved
      BY <2>2 DEF FileRead, ReadFails, Progress, AdoptLegacy, formVars
    <3>2. SavedStep
      BY <3>1, EnsuredSaved, UntouchedSaved
    <3> QED BY <2>2, <3>2, FileReadStep, ReadFailsStep
  <2>3. CASE RefreshLost(s)
    <3>1. UNCHANGED <<certPolicy, formSaved>>
      BY <2>3 DEF RefreshLost, policyVars, formVars
    <3> QED BY <2>3, <3>1, RefreshLostStep, UntouchedSaved
  <2> QED BY <2>1, <2>2, <2>3 DEF RefreshStep
<1>7. CASE PolicyNext
  <2>1. PICK e \in Editors : ReadPolicy(e) \/ \E fields \in PolicyForms : UpdatePolicy(e, fields)
    BY <1>7 DEF PolicyNext
  <2>2. refresh' = refresh
    BY <2>1 DEF ReadPolicy, UpdatePolicy
  <2>3. SavedStep
    <3>1. CASE ReadPolicy(e)
      BY <3>1, EnsuredSaved DEF ReadPolicy
    <3>2. CASE \E fields \in PolicyForms : UpdatePolicy(e, fields)
      BY <3>2, UpdateSaved
    <3> QED BY <2>1, <3>1, <3>2
  <2> QED BY <2>1, <2>2, <2>3, PolicyStep, UntouchedSteps
<1>8. CASE ListAssets
  <2>1. certPolicy' = EnsurePolicy /\ formSaved' = formSaved /\ refresh' = refresh
    BY <1>8 DEF ListAssets, AdoptLegacy, formVars
  <2> QED BY <1>8, <2>1, ListStep, EnsuredSaved, UntouchedSteps
<1>9. CASE CARotationPreview \/ \E k \in DOMAIN assets : RenewalPreview(k)
  <2>1. certPolicy' = EnsurePolicy /\ formSaved' = formSaved /\ refresh' = refresh
    BY <1>9 DEF CARotationPreview, RenewalPreview, AdoptLegacy, formVars
  <2> QED BY <1>9, <2>1, PreviewStep, EnsuredSaved, UntouchedSteps
<1>10. CASE \E d \in DomainKinds, kind \in ExternalKinds : DeclareExternal(d, kind)
  <2>1. UNCHANGED <<certPolicy, formSaved, refresh>>
    BY <1>10 DEF DeclareExternal, policyVars, formVars
  <2> QED BY <1>10, <2>1, DeclareStep, UntouchedSteps, UntouchedSaved
<1>11. CASE \E op \in operations, sameHash \in BOOLEAN : Execute(op, sameHash)
  <2>1. UNCHANGED <<certPolicy, formSaved, refresh>>
    BY <1>11 DEF Execute, policyVars, formVars
  <2> QED BY <1>11, <2>1, ExecuteStep, UntouchedSteps, UntouchedSaved
<1> QED BY <1>1, <1>2, <1>3, <1>4, <1>5, <1>6, <1>7, <1>8, <1>9, <1>10, <1>11
           DEF CertificateNext, WorldNext, FileNext, RemoveNext, AddNext, ClusterNext, RefreshNext,
               PreviewNext

LEMMA CertificatesStutter ==
  ASSUME CertificatesInv, UNCHANGED certificateVars
  PROVE  CertificatesInv'
<1>1. UNCHANGED <<certCluster, disk, policyVars, inventoryVars, previewVars, refresh>>
  BY DEF certificateVars, worldVars
<1>2. WorldOK'
  BY <1>1 DEF CertificatesInv, WorldOK
<1> QED BY <1>1, <1>2, OnlyCluster

LEMMA CertificatesHold == CertificateSpec => []CertificatesInv
<1>1. CertificateInit => CertificatesInv
  BY CertificatesInitial
<1>2. CertificatesInv /\ [CertificateNext]_certificateVars => CertificatesInv'
  BY CertificatesNext, CertificatesStutter
<1> QED BY <1>1, <1>2, PTL DEF CertificateSpec

\* An edit of the policy never leaves a critical threshold before the one for
\* renewal, a refresh that reports success has accounted for every asset it
\* listed, and no preview can be executed: whatever the assignments, files,
\* editors and refreshes in flight, and in whichever order hosts answer.
THEOREM CertificatesSafe == CertificateSpec => []CertificateInvariant
<1>1. CertificatesInv => CertificateInvariant
  <2> SUFFICES ASSUME CertificatesInv PROVE CertificateInvariant
    OBVIOUS
  <2>1. CertificateTypeOK
    <3>1. AssignmentIds \subseteq 1..MaxAssignment
      BY DesiredOK DEF CertificatesInv
    <3>2. disk \in [Locators -> Certs \cup CACerts \cup {NoCert}] /\ certPolicy.revision \in 0..MaxRevision
      BY DEF CertificatesInv, WorldOK, PoliciesOK, Files, Policies
    <3>3. /\ DOMAIN domains \subseteq DomainKinds
          /\ execAnswer \in {"none", "preview_changed", "blocked", "adapter_not_installed"}
      BY DEF CertificatesInv, InventoryOK
    <3>4. \A k \in DOMAIN assets :
            /\ assets[k].locator \in Locators
            /\ assets[k].health \in {"unobserved", "healthy", "degraded", "observation_failed"}
            /\ assets[k].last \in Certs \cup CACerts \cup {NoCert}
      BY DEF CertificatesInv, InventoryOK, RowsOK, AssetRows, Files
    <3>5. \A s \in Slots : refresh[s].phase \in {"idle", "running", "done", "not_found"}
      BY DEF CertificatesInv, RefreshesOK, RefreshRecords
    <3> QED BY <3>1, <3>2, <3>3, <3>4, <3>5 DEF CertificateTypeOK
  <2>2. PolicyConsistent
    BY DEF CertificatesInv, PoliciesOK, PolicyConsistent
  <2>3. RefreshAccounts
    <3> SUFFICES ASSUME NEW s \in Slots, refresh[s].phase = "done"
                 PROVE  /\ refresh[s].collected + refresh[s].failed = Cardinality(refresh[s].listed)
                        /\ ~refresh[s].orphan =>
                             \A k \in refresh[s].listed \cap DOMAIN assets :
                               assets[k].health # "unobserved"
      BY DEF RefreshAccounts
    <3>1. /\ refresh[s] \in RefreshRecords /\ refresh[s].todo = {} /\ AccountsFor(refresh[s])
          /\ ~refresh[s].orphan => RowsFor(refresh[s], assets)
      BY DEF CertificatesInv, RefreshesOK, RefreshOK
    <3>2. Cardinality(refresh[s].todo) = 0
      BY <3>1, FS_EmptySet
    <3>3. refresh[s].collected \in Nat /\ refresh[s].failed \in Nat
      BY <3>1 DEF RefreshRecords
    <3> QED BY <3>1, <3>2, <3>3 DEF AccountsFor, RowsFor
  <2>4. ExecutionUnreachable
    BY DEF CertificatesInv, InventoryOK, ExecutionUnreachable
  <2> QED BY <2>1, <2>2, <2>3, <2>4 DEF CertificateInvariant
<1> QED BY <1>1, CertificatesHold, PTL

\* A save changes what its form shows and nothing else, a refresh records only
\* what lay on the host since it began, and each of its steps reads a file it
\* had not read or is done with an asset.
THEOREM CertificateStepsKept == CertificateSpec => CertificateSteps
<1>1. CertificatesInv /\ [CertificateNext]_certificateVars =>
        [SavedStep /\ EvidenceStep /\ ProgressStep]_certificateVars
  BY CertificatesNext
<1>2. CertificateSpec => [][SavedStep /\ EvidenceStep /\ ProgressStep]_certificateVars
  BY <1>1, CertificatesHold, PTL DEF CertificateSpec
<1> QED BY <1>2, PTL DEF CertificateSteps, SavedAsSeen, EvidenceIsCurrent, RefreshProgresses,
                         SavedStep, EvidenceStep, ProgressStep
=============================================================================
