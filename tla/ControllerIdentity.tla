------------------------- MODULE ControllerIdentity -------------------------
(***************************************************************************)
(* The SSH identity of the controller and the host records that rest on    *)
(* it: staging and activating a key (controller_identity), enrolling,      *)
(* editing and deleting hosts (hosts), and the part of a run's             *)
(* finalization that writes what an enrollment found out                   *)
(* (platform/command_runs.py).                                             *)
(*                                                                         *)
(* A request handler runs to its end without an await, so it is one        *)
(* action.  An enrollment or a revocation is a run: it is launched by the  *)
(* handler, Ansible works on the machine in a thread, and only when that   *)
(* has ended does the finalization write the host's row, by the row id the *)
(* handler stored in the run's context.  A row id is the largest one in    *)
(* use plus one (nodes.id is an INTEGER PRIMARY KEY), so the id of a       *)
(* deleted host is given to the next one.  Only the names of rows are      *)
(* unique: several rows may be of one machine.                             *)
(*                                                                         *)
(* Hosts under maintenance and members of clusters, whose records these    *)
(* handlers refuse to touch, are left out: a machine here is neither.      *)
(***************************************************************************)
EXTENDS Naturals, FiniteSets, FiniteSetsExt

CONSTANTS
  Machines,  \* the machines an operator may enroll
  SshKeys,   \* the keys an operator may generate or import
  NoKey,     \* the empty key id
  MaxNodeId, \* bound on row ids
  MaxRuns    \* bound on runs in flight

ASSUME IdentityAssumption ==
  NoKey \notin SshKeys /\ MaxNodeId \in Nat /\ MaxRuns \in Nat

VARIABLES
  sshKeys,    \* controller_ssh_keys: the state of each key
  keyFiles,   \* keys whose private half lies in the runtime directory
  nodes,      \* the nodes table: row id to row
  authorized, \* the controller keys in authorized_keys of each machine
  idRuns,     \* enrollment and revocation runs that have not been finalized
  disturbed   \* history: row ids that were pointed elsewhere, deleted under a run, or
              \* are of a machine from which the key was being revoked for any row

identityVars == <<sshKeys, keyFiles, nodes, authorized, idRuns, disturbed>>

KeyStates == {"absent", "candidate", "active", "retired"}
AuthStates == {"legacy", "pending", "candidate_ready", "controller_key"}
NodeRow ==
  [machine : Machines, enabled : BOOLEAN, auth : AuthStates,
   key : SshKeys \cup {NoKey}, candidate : SshKeys \cup {NoKey}]
NodeIds == 1..MaxNodeId
IdentityRun ==
  [kind : {"install", "password", "probe", "revoke"}, id : NodeIds,
   machine : Machines, key : SshKeys \cup {NoKey}, enabled : BOOLEAN,
   result : {"running", "succeeded", "failed"}]

InState(s) == {k \in SshKeys : sshKeys[k] = s}
ActiveKeys == InState("active")
Candidates == InState("candidate")
EnrollmentKeys == IF Candidates # {} THEN Candidates ELSE ActiveKeys
Enabled == {id \in DOMAIN nodes : nodes[id].enabled}

IdentityInit ==
  /\ sshKeys = [k \in SshKeys |-> "absent"]
  /\ keyFiles = {}
  /\ nodes = << >>
  /\ authorized = [x \in Machines |-> {}]
  /\ idRuns = {}
  /\ disturbed = {}

NextNodeId == Max(DOMAIN nodes \cup {0}) + 1
WithNode(id, row) ==
  [i \in DOMAIN nodes \cup {id} |-> IF i = id THEN row ELSE nodes[i]]
WithoutNode(id) == [i \in DOMAIN nodes \ {id} |-> nodes[i]]

-----------------------------------------------------------------------------
(* Staging and activation of the controller's key.                         *)

FilesAfterStaging == keyFiles \ Candidates
FilesAfterActivation == keyFiles \ ActiveKeys

\* Mutant: the old candidates are not retired.
StageKeyBeside(k) ==
  /\ sshKeys[k] = "absent"
  /\ \A id \in DOMAIN nodes : nodes[id].candidate \notin Candidates
  /\ sshKeys' = [sshKeys EXCEPT
       ![k] = IF Enabled # {} THEN "candidate" ELSE "active"]
  /\ keyFiles' = FilesAfterStaging
  /\ UNCHANGED <<nodes, authorized, idRuns, disturbed>>

\* The first key of a controller without enabled hosts is active at once;
\* otherwise it waits as the candidate, and replaces one no host has.
StageKey(k) ==
  /\ sshKeys[k] = "absent"
  /\ \A id \in DOMAIN nodes : nodes[id].candidate \notin Candidates
  /\ sshKeys' = [x \in SshKeys |->
       CASE x = k -> IF Enabled # {} THEN "candidate" ELSE "active"
         [] x \in Candidates -> "retired"
         [] x \in ActiveKeys /\ Enabled = {} -> "retired"
         [] OTHER -> sshKeys[x]]
  /\ keyFiles' = FilesAfterStaging
  /\ UNCHANGED <<nodes, authorized, idRuns, disturbed>>

\* Mutant: hosts that already use an older key count as covered.
MissingAnyKey(k) == {id \in Enabled : nodes[id].candidate # k /\ nodes[id].key = NoKey}

MissingCandidate(k) == {id \in Enabled : nodes[id].candidate # k}

ActivateKey(k) ==
  /\ k \in Candidates
  /\ MissingCandidate(k) = {}
  /\ sshKeys' = [x \in SshKeys |->
       IF x = k THEN "active"
       ELSE IF x \in ActiveKeys THEN "retired" ELSE sshKeys[x]]
  /\ nodes' = [id \in DOMAIN nodes |->
       IF nodes[id].candidate # k THEN nodes[id]
       ELSE [nodes[id] EXCEPT !.key = k, !.candidate = NoKey,
                              !.auth = "controller_key"]]
  /\ keyFiles' = FilesAfterActivation
  /\ UNCHANGED <<authorized, idRuns, disturbed>>

-----------------------------------------------------------------------------
(* Host records.                                                           *)

\* A revocation takes the key from the machine, whatever rows are of it, and
\* meets what is installed meanwhile for a row registered after its launch.
RowsOf(x) == {id \in DOMAIN nodes : nodes[id].machine = x}
Registered(x, id) ==
  disturbed' = IF \E r \in idRuns : r.kind = "revoke" /\ r.machine = x
               THEN disturbed \cup {id} ELSE disturbed

CreateNode(x, enabled) ==
  /\ NextNodeId <= MaxNodeId
  /\ nodes' = WithNode(NextNodeId,
       [machine |-> x, enabled |-> enabled, auth |-> "legacy",
        key |-> NoKey, candidate |-> NoKey])
  /\ Registered(x, NextNodeId)
  /\ UNCHANGED <<sshKeys, keyFiles, authorized, idRuns>>

\* Mutant: the method is stored where the authentication state belongs.
EnrollPendingMethod(x) ==
  [machine |-> x, enabled |-> FALSE, auth |-> "password",
   key |-> NoKey, candidate |-> NoKey]

EnrollPending(x) ==
  [machine |-> x, enabled |-> FALSE, auth |-> "pending",
   key |-> NoKey, candidate |-> NoKey]

Launch(kind, id, x, k, enabled) ==
  /\ Cardinality(idRuns) < MaxRuns
  /\ idRuns' = idRuns \cup
       {[kind |-> kind, id |-> id, machine |-> x, key |-> k,
         enabled |-> enabled, result |-> "running"]}
  /\ keyFiles' = keyFiles \cup ({k} \cap SshKeys) \cup ActiveKeys

\* A password bootstrap that installs the key, or only tries the password:
\* then the host stays disabled whatever was asked for.
LaunchPasswordEnrollment(id, x, install, enabled) ==
  \/ /\ install
     /\ \E k \in EnrollmentKeys : Launch("install", id, x, k, enabled)
  \/ ~install /\ Launch("password", id, x, NoKey, FALSE)

LaunchKeyProbe(id, x, enabled) ==
  \E k \in EnrollmentKeys : Launch("probe", id, x, k, enabled)

EnrollNode(x, method, install, enabled) ==
  /\ NextNodeId <= MaxNodeId
  /\ (install \/ method = "controller_key") => EnrollmentKeys # {}
  /\ nodes' = WithNode(NextNodeId, EnrollPending(x))
  /\ IF method = "password"
     THEN LaunchPasswordEnrollment(NextNodeId, x, install, enabled)
     ELSE LaunchKeyProbe(NextNodeId, x, enabled)
  /\ Registered(x, NextNodeId)
  /\ UNCHANGED <<sshKeys, authorized>>

\* The enabled flag that the finalization writes is the one read here.
InstallControllerKey(id) ==
  /\ LaunchPasswordEnrollment(id, nodes[id].machine, TRUE, nodes[id].enabled)
  /\ UNCHANGED <<sshKeys, nodes, authorized, disturbed>>

\* An edit may point the record at another machine; what was found out
\* about the first stays in the row.
UpdateNode(id, x, enabled) ==
  /\ nodes' = [nodes EXCEPT ![id].enabled = enabled, ![id].machine = x]
  /\ disturbed' = IF x = nodes[id].machine THEN disturbed ELSE disturbed \cup {id}
  /\ UNCHANGED <<sshKeys, keyFiles, authorized, idRuns>>

InstalledKey(id) ==
  LET k == IF nodes[id].key # NoKey THEN nodes[id].key ELSE nodes[id].candidate
  IN  IF k \in ActiveKeys \cup Candidates THEN k ELSE NoKey

InFlightFor(id) == {r \in idRuns : r.id = id}

DeleteNode(id, recordsOnly) ==
  /\ InstalledKey(id) # NoKey => recordsOnly
  /\ nodes' = WithoutNode(id)
  /\ disturbed' = IF InFlightFor(id) # {} THEN disturbed \cup {id} ELSE disturbed
  /\ UNCHANGED <<sshKeys, keyFiles, authorized, idRuns>>

RevokeAndDelete(id) ==
  /\ InstalledKey(id) # NoKey
  /\ Launch("revoke", id, nodes[id].machine, InstalledKey(id), FALSE)
  /\ disturbed' = disturbed \cup RowsOf(nodes[id].machine)
  /\ UNCHANGED <<sshKeys, nodes, authorized>>

-----------------------------------------------------------------------------
(* Runs.                                                                   *)

\* What Ansible may do to the machine, and when it reports success: an
\* installed key is verified by a login with its file, a probe logs in with
\* the key, a revocation logs in with whatever key works.
Outcomes(r) ==
  LET now == authorized[r.machine]
      works == r.key \in keyFiles
  IN  CASE r.kind = "install" ->
             {<<"failed", now>>, <<"failed", now \cup {r.key}>>} \cup
             (IF works THEN {<<"succeeded", now \cup {r.key}>>} ELSE {})
        [] r.kind = "password" -> {<<"failed", now>>, <<"succeeded", now>>}
        [] r.kind = "probe" ->
             {<<"failed", now>>} \cup
             (IF works /\ r.key \in now THEN {<<"succeeded", now>>} ELSE {})
        [] r.kind = "revoke" ->
             {<<"failed", now>>, <<"failed", now \ {r.key}>>} \cup
             (IF ActiveKeys \cap now # {} THEN {<<"succeeded", now \ {r.key}>>}
              ELSE {})

AnsibleEnds(r) ==
  /\ r.result = "running"
  /\ \E o \in Outcomes(r) :
       /\ idRuns' = (idRuns \ {r}) \cup {[r EXCEPT !.result = o[1]]}
       /\ authorized' = [authorized EXCEPT ![r.machine] = o[2]]
  /\ UNCHANGED <<sshKeys, keyFiles, nodes, disturbed>>

MarkCandidateInstalled(row, r) ==
  [row EXCEPT !.candidate = r.key, !.auth = "candidate_ready", !.enabled = r.enabled]
MarkControllerKeyInstalled(row, r) ==
  [row EXCEPT !.key = r.key, !.candidate = NoKey, !.auth = "controller_key",
              !.enabled = r.enabled]
MarkEnrollmentPending(row) == [row EXCEPT !.auth = "pending", !.enabled = FALSE]

\* Mutant: what the key was at launch is not looked up again.
EnrolledAsLaunched(row, r) ==
  IF r.kind = "password" THEN MarkEnrollmentPending(row)
  ELSE IF ActiveKeys # {r.key} THEN MarkCandidateInstalled(row, r)
  ELSE MarkControllerKeyInstalled(row, r)

Enrolled(row, r) ==
  IF r.kind = "password" THEN MarkEnrollmentPending(row)
  ELSE IF sshKeys[r.key] = "candidate" THEN MarkCandidateInstalled(row, r)
  ELSE MarkControllerKeyInstalled(row, r)

\* The updates go by row id and change nothing when the row is gone.
Finalize(r) ==
  /\ r.result # "running"
  /\ nodes' = IF r.result = "failed" \/ r.id \notin DOMAIN nodes THEN nodes
              ELSE IF r.kind = "revoke" THEN WithoutNode(r.id)
              ELSE [nodes EXCEPT ![r.id] = Enrolled(nodes[r.id], r)]
  /\ idRuns' = idRuns \ {r}
  /\ disturbed' = IF r.kind = "revoke" /\ r.result = "succeeded" /\
                     InFlightFor(r.id) # {r}
                  THEN disturbed \cup {r.id} ELSE disturbed
  /\ UNCHANGED <<sshKeys, keyFiles, authorized>>

\* A restart fails the runs in flight without finalizing them.
ControllerRestart ==
  /\ idRuns # {} /\ idRuns' = {}
  /\ UNCHANGED <<sshKeys, keyFiles, nodes, authorized, disturbed>>

IdentityNext ==
  \/ \E k \in SshKeys : StageKey(k) \/ ActivateKey(k)
  \/ \E x \in Machines, enabled \in BOOLEAN :
       \/ CreateNode(x, enabled)
       \/ \E method \in {"password", "controller_key"}, install \in BOOLEAN :
            EnrollNode(x, method, install, enabled)
  \/ \E id \in DOMAIN nodes :
       \/ InstallControllerKey(id)
       \/ \E x \in Machines, enabled \in BOOLEAN : UpdateNode(id, x, enabled)
       \/ \E recordsOnly \in BOOLEAN : DeleteNode(id, recordsOnly)
       \/ RevokeAndDelete(id)
  \/ \E r \in idRuns : AnsibleEnds(r) \/ Finalize(r)
  \/ ControllerRestart

IdentitySpec == IdentityInit /\ [][IdentityNext]_identityVars

-----------------------------------------------------------------------------

\* The type of the state.
IdentityTypeOK ==
  /\ sshKeys \in [SshKeys -> KeyStates]
  /\ keyFiles \subseteq SshKeys
  /\ DOMAIN nodes \subseteq NodeIds
  /\ \A id \in DOMAIN nodes : nodes[id] \in NodeRow
  /\ authorized \in [Machines -> SUBSET SshKeys]
  /\ idRuns \subseteq IdentityRun
  /\ disturbed \subseteq NodeIds

\* However stagings, activations and deletions follow each other, the
\* controller has one identity: at most one active key and one candidate
\* (active_and_candidate_in_connection takes the first row it finds of each).
OneIdentity == Cardinality(ActiveKeys) <= 1 /\ Cardinality(Candidates) <= 1

\* A host that is recorded as holding a staged key holds the present
\* candidate: an enrollment that ends after its key was activated or replaced
\* does not bring the old candidate back, which would block every later
\* staging and activation.
CandidateIsCurrent ==
  \A id \in DOMAIN nodes :
    nodes[id].candidate # NoKey => nodes[id].candidate \in Candidates

\* A staged key becomes the identity only when every enabled host accepts it,
\* so that no enabled host is locked out by an activation.  Excepted are row
\* ids that an edited address or a deletion under a run has disturbed, and the
\* rows of a machine from which the key was revoked: removing one of two rows
\* of a machine takes the key that the other still records.
ActivationCovers ==
  [][\A k \in Candidates : sshKeys'[k] = "active" =>
       \A id \in Enabled \ disturbed : k \in authorized[nodes[id].machine]]_identityVars

\* One identity, and no host record that holds on to a key which is no longer
\* staged.
IdentityInvariant ==
  /\ IdentityTypeOK
  /\ OneIdentity
  /\ CandidateIsCurrent
=============================================================================
