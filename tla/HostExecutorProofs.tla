------------------------- MODULE HostExecutorProofs -------------------------
(***************************************************************************)
(* Proofs about the one-shot executor and the verification after the       *)
(* return, for every set of units and clusters and any number of boots.    *)
(*                                                                         *)
(* That locks are given up over a clean host only depends on what a        *)
(* verification without a failed check has already done (Restoring), and   *)
(* on the script not writing into a directory that is gone.  That evidence *)
(* is removed only when it was proven depends on the proof still standing  *)
(* when the cleanup comes to it, many steps and perhaps a reboot later     *)
(* (ProofStands).                                                          *)
(***************************************************************************)
EXTENDS HostExecutor, TLAPS

\* What a verification without a failed check has left of guards and records.
Restoring ==
  /\ verify.pc = "guards" /\ ~verify.failed => held.guards \subseteq verify.todo
  /\ verify.pc = "shutdown" /\ ~verify.failed =>
       held.guards = {} /\ held.shutdown \subseteq verify.todo
  /\ verify.pc \in {"artifacts", "locks"} => held.guards = {} /\ held.shutdown = {}
  /\ verify.pc = "locks" => files = NoFiles

\* A result that was found to be complete still is the one in the directory.
Proven(r) ==
  /\ r.state = "complete" /\ r.boot = verify.boot /\ r.boot # PreBoot
ProofStands ==
  /\ verify.pc = "artifacts" => verify.complete
  /\ verify.pc \in {"guards", "shutdown", "artifacts"} /\ verify.complete =>
       Proven(files.result)

\* Only a run that has seen every unit active says that it is complete.
Truthful(r) == r.state = "complete" => r.units = Units

\* Before the guards every cluster is still to be seen to, and no result is
\* taken for complete.
CheckPCs == {"ssh", "boot", "runtime", "workloads", "cluster", "import"}
Checking == verify.pc \in CheckPCs => verify.todo = Clusters /\ ~verify.complete

LocksHeld == verify.pc \notin {None, "end"} => held.lock

ExecInv ==
  /\ TypeOK
  /\ ~host.up => host.boot < MaxBoots
  /\ Truthful(files.result) /\ Truthful(exec.result)
  /\ LocksHeld
  /\ Checking
  /\ Restoring
  /\ ProofStands
  /\ ReleasedMeansClean

Hosts == [up : BOOLEAN, boot : 1..MaxBoots, active : SUBSET Units]
CheckpointStates ==
  {None, "staged", "manifest_verified", "boot_transition_verified", "required_units_ready",
   "complete"}
Files ==
  [dir : BOOLEAN, manifest : BOOLEAN, key : BOOLEAN, checkpoint : CheckpointStates,
   result : Results \union {NoResult}]
ExecPCs == {None, "start", "boot", "units", "checks", "write", "disable"}
Execs == [pc : ExecPCs, result : Results \union {NoResult}]
HeldRecords == [guards : SUBSET Clusters, shutdown : SUBSET Clusters, lock : BOOLEAN]
VerifyPCs ==
  {None, "ssh", "boot", "runtime", "workloads", "cluster", "import", "guards", "shutdown",
   "artifacts", "locks", "end"}
Verifications ==
  [pc : VerifyPCs, kind : {None, "executor", "handoff"}, failed : BOOLEAN, ssh : BOOLEAN,
   boot : 0..MaxBoots, imported : BOOLEAN, complete : BOOLEAN, cleaned : BOOLEAN,
   released : BOOLEAN, todo : SUBSET Clusters]
Discoveries ==
  [pc : {None, "result", "checkpoint"},
   state : {None, "not_found", "staged", "running"} \union ResultStates]

\* The type invariant, by the sets named above.
LEMMA Typed ==
  TypeOK <=> /\ host \in Hosts /\ files \in Files /\ enabled \in BOOLEAN /\ exec \in Execs
             /\ held \in HeldRecords /\ verify \in Verifications
             /\ verdict \in {None} \union ResultStates /\ disc \in Discoveries
BY DEF TypeOK, Hosts, Files, CheckpointStates, Execs, ExecPCs, HeldRecords, Verifications,
       VerifyPCs, Discoveries

\* The same of the next state.
LEMMA TypedNext ==
  TypeOK' <=> /\ host' \in Hosts /\ files' \in Files /\ enabled' \in BOOLEAN /\ exec' \in Execs
              /\ held' \in HeldRecords /\ verify' \in Verifications
              /\ verdict' \in {None} \union ResultStates /\ disc' \in Discoveries
BY DEF TypeOK, Hosts, Files, CheckpointStates, Execs, ExecPCs, HeldRecords, Verifications,
       VerifyPCs, Discoveries

-----------------------------------------------------------------------------
(* The host: what the verification relies on is not disturbed.             *)

\* A step that is not the verification's: it adds a result only where there
\* is none, and fills an empty directory only while nothing is verified.
LEMMA HostStep ==
  ASSUME ExecInv, UNCHANGED <<held, verify, verdict>>,
         host' \in Hosts, ~host'.up => host'.boot < MaxBoots,
         files' \in Files, enabled' \in BOOLEAN, exec' \in Execs, disc' \in Discoveries,
         Truthful(files'.result), Truthful(exec'.result),
         files'.result = files.result \/ files.result = NoResult,
         files = NoFiles => files' = NoFiles \/ (held.lock /\ verify.pc = None)
  PROVE  ExecInv'
<1>1. TypeOK'
  BY Typed, TypedNext DEF ExecInv
<1>2. LocksHeld' /\ ReleasedMeansClean' /\ Checking'
  BY DEF ExecInv, LocksHeld, ReleasedMeansClean, Checking, None
<1>3. Restoring'
  BY DEF ExecInv, Restoring, None
<1>4. ProofStands'
  <2>1. CASE files.result = NoResult
    BY <2>1 DEF ExecInv, ProofStands, Proven, NoResult, None
  <2>2. CASE files'.result = files.result
    BY <2>2 DEF ExecInv, ProofStands, Proven
  <2> QED BY <2>1, <2>2
<1> QED BY <1>1, <1>2, <1>3, <1>4 DEF ExecInv, Truthful

\* Staging, whichever task it ends with.
LEMMA StageKeeps == ASSUME ExecInv, NEW k \in 1..4, Stage(k) PROVE ExecInv'
<1>1. /\ held.lock /\ verify.pc = None /\ files.result = NoResult
      /\ UNCHANGED <<host, exec, held, verify, verdict, disc>>
      /\ files' = StagedFiles(k) /\ enabled' = (enabled \/ k >= 4)
  BY DEF Stage, StageAllowed
<1>2. files \in Files /\ enabled \in BOOLEAN /\ host \in Hosts /\ exec \in Execs /\ disc \in Discoveries
  BY Typed DEF ExecInv
<1>3. files' \in Files /\ files'.result = files.result
  BY <1>1, <1>2 DEF StagedFiles, Files, CheckpointStates
<1>4. enabled' \in BOOLEAN
  BY <1>1
<1> QED BY <1>1, <1>2, <1>3, <1>4, HostStep DEF ExecInv

\* The machine goes down, comes back, or one of its units changes.
LEMMA MachineKeeps ==
  ASSUME ExecInv, PowerLoss \/ Boot \/ \E u \in Units : UnitChanges(u)
  PROVE  ExecInv'
<1>1. /\ host \in Hosts /\ files \in Files /\ enabled \in BOOLEAN /\ exec \in Execs
      /\ disc \in Discoveries /\ (~host.up => host.boot < MaxBoots) /\ MaxBoots \in Nat
      /\ Truthful(files.result) /\ Truthful(exec.result)
  BY Typed, ExecutorAssumption DEF ExecInv
<1>2. /\ UNCHANGED <<files, enabled, held, verify, verdict, disc>>
      /\ exec' \in {exec} \cup {[pc |-> p, result |-> NoResult] : p \in {None, "start"}}
  BY DEF PowerLoss, Boot, UnitChanges
<1>3. exec' \in Execs /\ Truthful(exec'.result)
  BY <1>1, <1>2 DEF Execs, ExecPCs, Truthful, NoResult, None
<1>4. host' \in Hosts /\ (~host'.up => host'.boot < MaxBoots)
  <2>1. CASE PowerLoss
    BY <1>1, <2>1 DEF PowerLoss, Hosts
  <2>2. CASE Boot
    <3>1. host.boot + 1 \in 1..MaxBoots
      BY <1>1, <2>2 DEF Boot, Hosts
    <3>2. host' = [up |-> TRUE, boot |-> host.boot + 1, active |-> host.active]
      BY <1>1, <2>2 DEF Boot, Hosts
    <3> QED BY <1>1, <3>1, <3>2 DEF Hosts
  <2>3. ASSUME NEW u \in Units, UnitChanges(u) PROVE  host' \in Hosts /\ (~host'.up => host'.boot < MaxBoots)
    BY <1>1, <2>3 DEF UnitChanges, Hosts
  <2> QED BY <2>1, <2>2, <2>3
<1> QED BY <1>1, <1>2, <1>3, <1>4, HostStep

\* What a failure writes is a result, and says so.
LEMMA FailureResult ==
  ASSUME NEW b \in 0..MaxBoots, NEW us \in SUBSET Units, NEW i \in BOOLEAN,
         Fails(b, us, i)
  PROVE  exec' \in Execs /\ Truthful(exec'.result) /\ UNCHANGED files
BY DEF Fails, Execs, ExecPCs, Truthful, Results, ResultStates

\* A checkpoint is written into a directory that is there.
LEMMA CheckpointFiles ==
  ASSUME files \in Files, NEW s \in CheckpointStates, Checkpoint(s)
  PROVE  files' \in Files /\ files'.result = files.result /\ files # NoFiles
BY DEF Checkpoint, Files, NoFiles

\* The script writes only where a directory is, and a result only once.
LEMMA ScriptKeeps == ASSUME ExecInv, Script PROVE ExecInv'
<1> DEFINE Goal == /\ files' \in Files /\ exec' \in Execs
                   /\ Truthful(files'.result) /\ Truthful(exec'.result)
                   /\ files'.result = files.result \/ files.result = NoResult
                   /\ files = NoFiles => files' = NoFiles
<1>1. /\ host \in Hosts /\ files \in Files /\ exec \in Execs /\ enabled \in BOOLEAN
      /\ disc \in Discoveries /\ (~host.up => host.boot < MaxBoots)
      /\ Truthful(files.result) /\ Truthful(exec.result)
      /\ host.boot \in 0..MaxBoots /\ host.active \in SUBSET Units /\ 0 \in 0..MaxBoots
  BY Typed, ExecutorAssumption DEF ExecInv, Hosts
<1>2. UNCHANGED <<host, held, verify, verdict, disc>> /\ enabled' \in BOOLEAN
  BY <1>1 DEF Script, ExecStart, ExecBoot, ExecUnits, ExecChecks, ExecWrite, DisableSelf
<1>3. ASSUME NEW b \in 0..MaxBoots, NEW us \in SUBSET Units, NEW i \in BOOLEAN,
             Fails(b, us, i)
      PROVE  Goal
  BY <1>1, <1>3, FailureResult
<1>4. ASSUME NEW s \in CheckpointStates, Checkpoint(s),
             exec' \in Execs, Truthful(exec'.result)
      PROVE  Goal
  BY <1>1, <1>4, CheckpointFiles
<1>5. ASSUME NEW p \in ExecPCs, exec' = [exec EXCEPT !.pc = p]
      PROVE  exec' \in Execs /\ Truthful(exec'.result)
  BY <1>1, <1>5 DEF Execs
<1>6. {"manifest_verified", "boot_transition_verified", "required_units_ready", "complete"}
        \subseteq CheckpointStates /\ {"boot", "units", "checks", "disable"} \subseteq ExecPCs
  BY DEF CheckpointStates, ExecPCs
<1> HIDE DEF Goal
<1>7. ASSUME ExecStart PROVE Goal
  BY <1>1, <1>3, <1>4, <1>5, <1>6, <1>7 DEF ExecStart
<1>8. ASSUME ExecBoot PROVE Goal
  BY <1>1, <1>3, <1>4, <1>5, <1>6, <1>8 DEF ExecBoot
<1>9. ASSUME ExecUnits PROVE Goal
  BY <1>1, <1>3, <1>4, <1>5, <1>6, <1>9 DEF ExecUnits
<1>10. ASSUME ExecChecks PROVE Goal
  <2>1. CASE Fails(host.boot, Units, TRUE)
    BY <1>1, <1>3, <2>1
  <2>2. CASE Checkpoint("complete") /\
             exec' = [pc |-> "write", result |-> [state |-> "complete", boot |-> host.boot,
                                                  units |-> Units, identified |-> TRUE]]
    <3>1. exec' \in Execs /\ Truthful(exec'.result)
      BY <1>1, <2>2 DEF Execs, ExecPCs, Truthful, Results, ResultStates
    <3> QED BY <1>4, <1>6, <2>2, <3>1
  <2> QED BY <1>10, <2>1, <2>2 DEF ExecChecks
<1>11. ASSUME ExecWrite PROVE Goal
  <2>1. files' \in Files /\ (files = NoFiles => files' = NoFiles)
    <3>1. CASE files.result = NoResult /\ files.dir
      <4>1. files' = [files EXCEPT !.result = exec.result] /\ exec.result \in Results \union {NoResult}
        BY <1>1, <1>11, <3>1 DEF ExecWrite, Execs
      <4> QED BY <1>1, <3>1, <4>1 DEF Files, NoFiles
    <3>2. CASE ~(files.result = NoResult /\ files.dir)
      <4>1. files' = files
        BY <1>1, <1>11, <3>2 DEF ExecWrite, Files
      <4> QED BY <1>1, <4>1
    <3> QED BY <3>1, <3>2
  <2>2. files'.result \in {files.result, exec.result} /\ (files'.result = files.result \/ files.result = NoResult)
    BY <1>1, <1>11 DEF ExecWrite, Files, NoResult
  <2>3. exec' \in Execs /\ Truthful(exec'.result)
    BY <1>1, <1>5, <1>6, <1>11 DEF ExecWrite, Execs, ExecPCs, Truthful, NoResult, None
  <2> QED BY <1>1, <2>1, <2>2, <2>3 DEF Goal
<1>12. ASSUME DisableSelf PROVE Goal
  <2>1. exec' \in Execs /\ Truthful(exec'.result) /\ UNCHANGED files
    BY <1>12 DEF DisableSelf, Execs, ExecPCs, Truthful, NoResult, None
  <2> QED BY <1>1, <2>1 DEF Goal
<1>13. Goal
  BY <1>7, <1>8, <1>9, <1>10, <1>11, <1>12 DEF Script
<1> QED BY <1>1, <1>2, <1>13, HostStep DEF Goal

\* Discovery only reads.
LEMMA DiscoverKeeps == ASSUME ExecInv, Discover PROVE ExecInv'
<1>1. /\ host \in Hosts /\ files \in Files /\ exec \in Execs /\ enabled \in BOOLEAN
      /\ (~host.up => host.boot < MaxBoots)
      /\ Truthful(files.result) /\ Truthful(exec.result)
  BY Typed DEF ExecInv
<1>2. UNCHANGED <<host, files, enabled, exec, held, verify, verdict>>
  BY DEF Discover, DiscoverManifest, DiscoverResult, DiscoverCheckpoint, DiscoverFails
<1>3. CheckpointState \in {"recovery_required", "staged", "running"}
  BY DEF CheckpointState
<1>4. ValidatedResult(files.result) => files.result.state \in ResultStates
  BY <1>1 DEF ValidatedResult, Files, Results
<1>5. disc' \in Discoveries
  BY <1>3, <1>4 DEF Discover, DiscoverManifest, DiscoverResult, DiscoverCheckpoint,
       DiscoverFails, Discoveries, ResultStates
<1> QED BY <1>1, <1>2, <1>5, HostStep

-----------------------------------------------------------------------------
(* The verification.                                                       *)

\* Where the host is left alone.
LEMMA VerifyStep ==
  ASSUME ExecInv, UNCHANGED <<host, files, enabled, exec>>,
         held' \in HeldRecords, verify' \in Verifications,
         verdict' \in {None} \union ResultStates, disc' \in Discoveries,
         LocksHeld', Checking', Restoring', ProofStands', ReleasedMeansClean'
  PROVE  ExecInv'
<1>1. TypeOK'
  BY Typed, TypedNext DEF ExecInv
<1> QED BY <1>1 DEF ExecInv, Truthful

\* Up to the import nothing has been restored and nothing is claimed.
LEMMA ChecksKeep ==
  ASSUME ExecInv,
         UNCHANGED <<host, files, enabled, exec, held>>,
         verdict' \in {None} \union ResultStates, disc' \in Discoveries,
         verify' \in Verifications,
         \/ verify'.pc \in {None, "end"}
         \/ held.lock /\ verify'.pc \in CheckPCs /\ verify'.todo = Clusters /\ ~verify'.complete
  PROVE  ExecInv'
<1>1. held' \in HeldRecords
  BY Typed DEF ExecInv
<1>2. LocksHeld' /\ Checking' /\ ReleasedMeansClean'
  BY DEF ExecInv, LocksHeld, Checking, CheckPCs, ReleasedMeansClean, None
<1>3. Restoring' /\ ProofStands'
  BY DEF Restoring, ProofStands, CheckPCs, None
<1> QED BY <1>1, <1>2, <1>3, VerifyStep

\* A verification begins with every lock held and no finding.
LEMMA BeginKeeps ==
  ASSUME ExecInv, NEW kind \in {"executor", "handoff"}, Begin(kind) PROVE ExecInv'
<1>1. verify' = [pc |-> "ssh", kind |-> kind, failed |-> FALSE, ssh |-> FALSE, boot |-> 0,
                 imported |-> FALSE, complete |-> FALSE, cleaned |-> FALSE,
                 released |-> FALSE, todo |-> Clusters]
  BY DEF Begin, NoVerify
<1>2. verify' \in Verifications /\ verify'.pc \in CheckPCs
      /\ verify'.todo = Clusters /\ ~verify'.complete
  BY <1>1, ExecutorAssumption DEF Verifications, VerifyPCs, CheckPCs
<1>3. disc' \in Discoveries
  BY Typed DEF ExecInv, Begin, Discoveries
<1> QED BY <1>2, <1>3, ChecksKeep DEF Begin

\* The checks before the import.
LEMMA EarlyChecksKeep ==
  ASSUME ExecInv, VerifySsh \/ VerifyBoot \/ VerifyRuntime \/ VerifyWorkloads
  PROVE  ExecInv'
<1>1. /\ UNCHANGED <<host, files, enabled, exec, held, verdict, disc>>
      /\ verify.pc \in {"ssh", "boot", "runtime", "workloads"}
  BY DEF VerifySsh, VerifyBoot, VerifyRuntime, VerifyWorkloads
<1>2. /\ verify \in Verifications /\ host \in Hosts /\ held.lock
      /\ verdict \in {None} \union ResultStates /\ disc \in Discoveries
      /\ verify.todo = Clusters /\ ~verify.complete
  BY <1>1, Typed DEF ExecInv, LocksHeld, Checking, CheckPCs, None
<1>3. verify' \in Verifications
      /\ verify'.pc \in {"boot", "runtime", "workloads", "cluster"}
      /\ verify'.todo = verify.todo /\ verify'.complete = verify.complete
  <2>1. ASSUME VerifySsh PROVE <1>3
    BY <1>2, <2>1 DEF VerifySsh, SshAnswers, Verifications, VerifyPCs, Hosts
  <2>2. ASSUME VerifyBoot PROVE <1>3
    <3>1. PICK b \in BootAnswers :
            verify' = [verify EXCEPT !.pc = "runtime", !.boot = b, !.failed = @ \/ b \in {0, PreBoot}]
      BY <2>2 DEF VerifyBoot
    <3>2. b \in 0..MaxBoots
      BY <1>2, <3>1, ExecutorAssumption DEF BootAnswers, Hosts
    <3> QED BY <1>2, <3>1, <3>2 DEF Verifications, VerifyPCs
  <2>3. ASSUME VerifyRuntime PROVE <1>3
    BY <1>2, <2>3 DEF VerifyRuntime, Go, Passes, Verifications, VerifyPCs
  <2>4. ASSUME VerifyWorkloads PROVE <1>3
    BY <1>2, <2>4 DEF VerifyWorkloads, Passes, Verifications, VerifyPCs
  <2> QED BY <2>1, <2>2, <2>3, <2>4
<1> QED BY <1>1, <1>2, <1>3, ChecksKeep DEF CheckPCs

\* The end of a verification, whatever the verdict.
LEMMA EndKeeps == ASSUME ExecInv, VerifyEnd \/ HandoffEnd PROVE ExecInv'
<1>1. /\ UNCHANGED <<host, files, enabled, exec, held, disc>>
      /\ verify' = NoVerify /\ verdict' \in {None} \union ResultStates
  BY DEF VerifyEnd, HandoffEnd, Verdict, ResultStates
<1>2. verify' \in Verifications /\ verify'.pc = None
  BY <1>1, ExecutorAssumption DEF NoVerify, Verifications, VerifyPCs
<1>3. disc' \in Discoveries
  BY <1>1, Typed DEF ExecInv
<1> QED BY <1>1, <1>2, <1>3, ChecksKeep

\* A step of the verification that opens the guards: nothing is claimed of
\* the evidence, or it has just been proven.
LEMMA OpensGuards ==
  ASSUME ExecInv, UNCHANGED <<host, files, enabled, exec, held, verdict, disc>>,
         held.lock, verify' \in Verifications, verify'.pc = "guards",
         ~verify'.failed => held.guards \subseteq verify'.todo,
         verify'.complete => Proven(files.result)'
  PROVE  ExecInv'
<1>1. /\ held' \in HeldRecords /\ verdict' \in {None} \union ResultStates /\ disc' \in Discoveries
  BY Typed DEF ExecInv
<1>2. LocksHeld' /\ Checking' /\ Restoring' /\ ProofStands' /\ ReleasedMeansClean'
  BY DEF LocksHeld, Checking, CheckPCs, Restoring, ProofStands, ReleasedMeansClean
<1> QED BY <1>1, <1>2, VerifyStep

\* The cluster check ends a handoff; an executor's return goes on to the
\* import, or past it when the host does not answer.
LEMMA ClusterKeeps == ASSUME ExecInv, VerifyCluster PROVE ExecInv'
<1>1. /\ verify \in Verifications /\ held.lock /\ verify.todo = Clusters /\ ~verify.complete
      /\ held.guards \subseteq Clusters
      /\ verdict \in {None} \union ResultStates /\ disc \in Discoveries
  BY Typed DEF ExecInv, VerifyCluster, LocksHeld, Checking, CheckPCs, HeldRecords, None
<1>2. UNCHANGED <<host, files, enabled, exec, held, verdict, disc>>
  BY DEF VerifyCluster
<1>3. PICK pc \in {"end", "import", "guards"}, ok \in BOOLEAN : Passes(pc, ok)
  BY DEF VerifyCluster, ClusterVerified
<1>4. /\ verify' \in Verifications /\ verify'.pc = pc
      /\ verify'.todo = Clusters /\ ~verify'.complete
  BY <1>1, <1>3 DEF Passes, Verifications, VerifyPCs
<1>5. CASE pc = "guards"
  BY <1>1, <1>2, <1>4, <1>5, OpensGuards
<1>6. CASE pc # "guards"
  BY <1>1, <1>2, <1>4, <1>6, ChecksKeep DEF CheckPCs
<1> QED BY <1>5, <1>6

\* The import takes a result for complete only when it is.
LEMMA ImportKeeps == ASSUME ExecInv, VerifyImport PROVE ExecInv'
<1>1. /\ verify \in Verifications /\ held.lock /\ verify.todo = Clusters /\ ~verify.complete
      /\ held.guards \subseteq Clusters
  BY Typed DEF ExecInv, VerifyImport, LocksHeld, Checking, CheckPCs, HeldRecords, None
<1>2. UNCHANGED <<host, files, enabled, exec, held, verdict, disc>>
  BY DEF VerifyImport
<1>3. PICK complete \in BOOLEAN, imported \in BOOLEAN, failed \in BOOLEAN :
        /\ verify' = [verify EXCEPT !.pc = "guards", !.imported = imported,
                                    !.complete = complete, !.failed = failed]
        /\ complete => ValidatedResult(files.result) /\ ResultProves(files.result)
  <2>1. CASE Passes("guards", FALSE)
    <3>1. verify' = [verify EXCEPT !.pc = "guards", !.imported = verify.imported,
                                   !.complete = FALSE, !.failed = TRUE]
      BY <1>1, <2>1 DEF Passes, Verifications
    <3>2. verify.imported \in BOOLEAN
      BY <1>1 DEF Verifications
    <3> QED BY <3>1, <3>2
  <2>2. CASE /\ host.up /\ ValidatedManifest /\ ValidatedResult(files.result)
             /\ verify' = [verify EXCEPT !.pc = "guards", !.imported = TRUE,
                                         !.complete = ResultProves(files.result),
                                         !.failed = verify.failed \/ ~ResultProves(files.result)]
    <3>1. ResultProves(files.result) \in BOOLEAN
      BY DEF ResultProves
    <3> QED BY <2>2, <3>1
  <2> QED BY <2>1, <2>2 DEF VerifyImport
<1>4. verify' \in Verifications /\ verify'.pc = "guards" /\ verify'.todo = Clusters
      /\ verify'.complete = complete /\ verify'.boot = verify.boot
  BY <1>1, <1>3 DEF Verifications, VerifyPCs
<1>5. verify'.complete => Proven(files.result)'
  BY <1>2, <1>3, <1>4 DEF Proven, ResultProves, ValidatedResult
<1> QED BY <1>1, <1>2, <1>4, <1>5, OpensGuards

\* A guard or a shutdown record: gone, or the verification has failed.
LEMMA RestoreKeeps ==
  ASSUME ExecInv, NEW c \in Clusters, RestoreGuard(c) \/ ClearShutdown(c) PROVE ExecInv'
<1>1. /\ verify \in Verifications /\ held \in HeldRecords /\ held.lock
      /\ verdict \in {None} \union ResultStates /\ disc \in Discoveries
      /\ verify.pc \in {"guards", "shutdown"}
  BY Typed DEF ExecInv, RestoreGuard, ClearShutdown, LocksHeld, None
<1>2. UNCHANGED <<host, files, enabled, exec, verdict, disc>>
  BY DEF RestoreGuard, ClearShutdown
<1>3. PICK failed \in BOOLEAN :
        /\ verify' = [verify EXCEPT !.todo = verify.todo \ {c}, !.failed = failed]
        /\ ~failed => ~verify.failed
        /\ verify.pc = "guards" /\ ~failed => held' = [held EXCEPT !.guards = held.guards \ {c}]
        /\ verify.pc = "shutdown" /\ ~failed => held' = [held EXCEPT !.shutdown = held.shutdown \ {c}]
  <2>1. CASE verify' = [verify EXCEPT !.todo = verify.todo \ {c}, !.failed = TRUE]
    BY <2>1
  <2>2. CASE \E ok \in BOOLEAN :
               /\ verify' = [verify EXCEPT !.todo = verify.todo \ {c},
                                           !.failed = verify.failed \/ ~ok]
               /\ verify.pc = "guards" => held' = [held EXCEPT !.guards = held.guards \ {c}]
               /\ verify.pc = "shutdown" => held' = [held EXCEPT !.shutdown = held.shutdown \ {c}]
    BY <1>1, <2>2 DEF Verifications
  <2> QED BY <2>1, <2>2 DEF RestoreGuard, ClearShutdown
<1>4. /\ verify' \in Verifications /\ verify'.pc = verify.pc /\ verify'.failed = failed
      /\ verify'.todo = verify.todo \ {c} /\ verify'.complete = verify.complete
      /\ verify'.boot = verify.boot
  BY <1>1, <1>3 DEF Verifications
<1>5. /\ held' \in HeldRecords /\ held'.lock
      /\ held'.guards \subseteq held.guards /\ held'.shutdown \subseteq held.shutdown
  BY <1>1 DEF RestoreGuard, ClearShutdown, HeldRecords
<1>6. LocksHeld' /\ Checking' /\ ReleasedMeansClean'
  BY <1>1, <1>4, <1>5 DEF LocksHeld, Checking, CheckPCs, ReleasedMeansClean
<1>7. ProofStands'
  BY <1>1, <1>2, <1>4 DEF ExecInv, ProofStands, Proven
<1>8. Restoring'
  <2>1. CASE verify.pc = "guards"
    <3>1. ~failed => held'.guards \subseteq verify'.todo
      BY <1>1, <1>3, <1>4, <2>1 DEF ExecInv, Restoring, HeldRecords
    <3> QED BY <1>4, <2>1, <3>1 DEF Restoring
  <2>2. CASE verify.pc = "shutdown"
    <3>1. ~failed => held'.guards = {} /\ held'.shutdown \subseteq verify'.todo
      BY <1>1, <1>3, <1>4, <2>2 DEF ExecInv, Restoring, HeldRecords
    <3> QED BY <1>4, <2>2, <3>1 DEF Restoring
  <2> QED BY <1>1, <2>1, <2>2
<1> QED BY <1>1, <1>2, <1>4, <1>5, <1>6, <1>7, <1>8, VerifyStep

\* Nothing is left to restore, or to clear.
LEMMA RestoredKeeps == ASSUME ExecInv, GuardsDone \/ ShutdownDone PROVE ExecInv'
<1>1. /\ verify \in Verifications /\ held' \in HeldRecords /\ held.lock
      /\ verdict' \in {None} \union ResultStates /\ disc' \in Discoveries
      /\ UNCHANGED <<host, files, enabled, exec, held, verdict, disc>>
  BY Typed DEF ExecInv, GuardsDone, ShutdownDone, LocksHeld, None
<1>2. LocksHeld' /\ Checking' /\ ReleasedMeansClean' /\ verify' \in Verifications
  BY <1>1, ZenonT(60) DEF GuardsDone, ShutdownDone, Go, LocksHeld, Checking, CheckPCs, ReleasedMeansClean,
       Verifications, VerifyPCs
<1>3. Restoring'
  <2>1. CASE GuardsDone
    BY <1>1, <2>1, Typed DEF ExecInv, GuardsDone, Restoring, Verifications, HeldRecords
  <2>2. CASE ShutdownDone
    BY <1>1, <2>2 DEF ExecInv, ShutdownDone, Go, Restoring, Verifications, HeldRecords
  <2> QED BY <2>1, <2>2
<1>4. ProofStands'
  <2>1. CASE GuardsDone
    BY <1>1, <2>1 DEF ExecInv, GuardsDone, ProofStands, Proven, Verifications
  <2>2. CASE ShutdownDone
    BY <1>1, <2>2 DEF ExecInv, ShutdownDone, Go, ProofStands, Proven, Verifications
  <2> QED BY <2>1, <2>2
<1> QED BY <1>1, <1>2, <1>3, <1>4, VerifyStep

\* What an interrupted or a whole cleanup leaves.
LEMMA CleanedRecord ==
  ASSUME files \in Files, NEW k \in 0..5
  PROVE  /\ CleanedFiles(k) \in Files
         /\ CleanedFiles(k).result \in {files.result, NoResult}
         /\ k = 5 => CleanedFiles(k) = NoFiles
<1> DEFINE dir == k < 5
           manifest == files.manifest /\ k < 2
           key == files.key /\ k < 4
           checkpoint == IF k >= 1 THEN None ELSE files.checkpoint
           result == IF k >= 3 THEN NoResult ELSE files.result
<1>1. checkpoint \in CheckpointStates /\ result \in Results \union {NoResult}
      /\ result \in {files.result, NoResult}
  BY DEF Files, CheckpointStates
<1>2. dir \in BOOLEAN /\ manifest \in BOOLEAN /\ key \in BOOLEAN
  OBVIOUS
<1>3. k = 5 => /\ checkpoint = None /\ result = NoResult
               /\ dir = FALSE /\ manifest = FALSE /\ key = FALSE
  OBVIOUS
<1>4. CleanedFiles(k) = [files EXCEPT !.dir = dir, !.checkpoint = checkpoint,
                           !.manifest = manifest, !.result = result, !.key = key]
  BY DEF CleanedFiles
<1> HIDE DEF dir, manifest, key, checkpoint, result
<1>5. CleanedFiles(k) = [dir |-> dir, manifest |-> manifest, key |-> key,
                         checkpoint |-> checkpoint, result |-> result]
  BY <1>4 DEF Files
<1>6. k = 5 => CleanedFiles(k) = NoFiles
  BY <1>3, <1>5, Zenon DEF NoFiles
<1>7. CleanedFiles(k) \in Files
  BY <1>1, <1>2, <1>5 DEF Files
<1>8. CleanedFiles(k).result \in {files.result, NoResult}
  BY <1>1, <1>5
<1> QED BY <1>6, <1>7, <1>8

\* The files after a cleanup, whole, interrupted or never begun.
LEMMA CleanupFiles ==
  ASSUME CleanupArtifacts PROVE files' = files \/ \E k \in 0..5 : files' = CleanedFiles(k)
<1>1. 5 \in 0..5 /\ \A k \in 0..4 : k \in 0..5
  OBVIOUS
<1> QED BY <1>1, Zenon DEF CleanupArtifacts

\* The cleanup removes files, all of them or the first few, and goes on to
\* the locks only after the directory.
LEMMA CleanupKeeps == ASSUME ExecInv, CleanupArtifacts PROVE ExecInv'
<1>1. /\ verify \in Verifications /\ held \in HeldRecords /\ held.lock /\ files \in Files
      /\ host \in Hosts /\ enabled \in BOOLEAN /\ exec \in Execs
      /\ held.guards = {} /\ held.shutdown = {}
      /\ verdict \in {None} \union ResultStates /\ disc \in Discoveries
  BY Typed DEF ExecInv, CleanupArtifacts, LocksHeld, Restoring, None
<1>2. UNCHANGED <<host, exec, held, verdict, disc>> /\ enabled' \in BOOLEAN
  BY <1>1 DEF CleanupArtifacts
<1>3. files' = files \/ \E k \in 0..5 : files' = CleanedFiles(k)
  BY CleanupFiles
<1>4. files' \in Files /\ files'.result \in {files.result, NoResult}
  <2>1. ASSUME NEW k \in 0..5
        PROVE  CleanedFiles(k) \in Files /\ CleanedFiles(k).result \in {files.result, NoResult}
    BY <1>1, CleanedRecord
  <2> QED BY <1>1, <1>3, <2>1
<1>5. verify' \in Verifications
      /\ \/ verify'.pc = "end"
         \/ verify'.pc = "locks" /\ files' = CleanedFiles(5)
  <2>1. CASE Passes("end", FALSE)
    BY <1>1, <2>1 DEF Passes, Verifications, VerifyPCs
  <2>2. CASE verify' = [verify EXCEPT !.pc = "locks", !.cleaned = TRUE] /\ files' = CleanedFiles(5)
    BY <1>1, <2>2 DEF Verifications, VerifyPCs
  <2> QED BY <2>1, <2>2 DEF CleanupArtifacts
<1>6. CleanedFiles(5) = NoFiles
  BY <1>1, CleanedRecord
<1>7. TypeOK'
  BY <1>1, <1>2, <1>4, <1>5, TypedNext
<1>8. LocksHeld' /\ Checking' /\ ReleasedMeansClean' /\ Restoring'
  BY <1>1, <1>2, <1>5, <1>6 DEF LocksHeld, Checking, CheckPCs, ReleasedMeansClean, Restoring
<1>9. ProofStands' /\ Truthful(files'.result)
  BY <1>4, <1>5 DEF ExecInv, ProofStands, Truthful, NoResult, None
<1> QED BY <1>2, <1>7, <1>8, <1>9 DEF ExecInv, Truthful

\* The locks go last.
LEMMA ReleaseKeeps == ASSUME ExecInv, ReleaseLocks PROVE ExecInv'
<1>1. /\ verify \in Verifications /\ held \in HeldRecords
      /\ held.guards = {} /\ held.shutdown = {} /\ files = NoFiles
      /\ verdict \in {None} \union ResultStates /\ disc \in Discoveries
  BY Typed DEF ExecInv, ReleaseLocks, Restoring
<1>2. UNCHANGED <<host, files, enabled, exec, verdict, disc>>
  BY DEF ReleaseLocks
<1>3. verify' \in Verifications /\ verify'.pc = "end"
  BY <1>1 DEF ReleaseLocks, Passes, Verifications, VerifyPCs
<1>4. held' \in HeldRecords /\ held'.guards = {} /\ held'.shutdown = {}
  BY <1>1 DEF ReleaseLocks, HeldRecords
<1>5. LocksHeld' /\ Checking' /\ ReleasedMeansClean' /\ Restoring' /\ ProofStands'
  BY <1>1, <1>2, <1>3, <1>4 DEF LocksHeld, Checking, CheckPCs, ReleasedMeansClean, Restoring,
       ProofStands
<1> QED BY <1>1, <1>2, <1>3, <1>4, <1>5, VerifyStep

-----------------------------------------------------------------------------
(* What holds of every behaviour.                                          *)

\* Every step keeps the invariant.
LEMMA ExecNext == ExecInv /\ [Next]_vars => ExecInv'
<1> SUFFICES ASSUME ExecInv, [Next]_vars PROVE ExecInv'
  OBVIOUS
<1>1. CASE Verification
  BY <1>1, BeginKeeps, EarlyChecksKeep, ClusterKeeps, ImportKeeps, RestoreKeeps, RestoredKeeps,
     CleanupKeeps, ReleaseKeeps, EndKeeps
     DEF Verification, VerifyAndCleanup, VerifyHostMaintenance
<1>2. CASE UNCHANGED vars
  <2>1. /\ host \in Hosts /\ files \in Files /\ enabled \in BOOLEAN /\ exec \in Execs
        /\ disc \in Discoveries
    BY Typed DEF ExecInv
  <2> QED BY <1>2, <2>1, HostStep DEF vars, ExecInv
<1> QED BY <1>1, <1>2, StageKeeps, MachineKeeps, ScriptKeeps, DiscoverKeeps DEF Next

\* Before the first staging the maintenance holds everything.
LEMMA ExecInit == Init => ExecInv
<1> SUFFICES ASSUME Init PROVE ExecInv
  OBVIOUS
<1>1. /\ host \in Hosts /\ files \in Files /\ enabled \in BOOLEAN /\ exec \in Execs
      /\ held \in HeldRecords
  <2>1. host \in Hosts /\ held \in HeldRecords
    BY ExecutorAssumption DEF Init, Hosts, HeldRecords, PreBoot
  <2>2. files \in Files
    BY DEF Init, Files, NoFiles, CheckpointStates
  <2>3. exec \in Execs
    BY DEF Init, Execs, ExecPCs
  <2> QED BY <2>1, <2>2, <2>3 DEF Init
<1>2. verify \in Verifications
  BY ExecutorAssumption DEF Init, NoVerify, Verifications, VerifyPCs
<1>3. TypeOK
  BY <1>1, <1>2, Typed DEF Init, Discoveries
<1> QED BY <1>3 DEF Init, ExecInv, LocksHeld, Checking, CheckPCs, Restoring, ProofStands,
     ReleasedMeansClean, Truthful, NoFiles, NoResult, NoVerify, None

\* Script, verification and files agree in every state.
THEOREM ExecutorHolds == Spec => []ExecInv
BY ExecInit, ExecNext, PTL DEF Spec

\* The locks of a maintenance are given up only over a clean host, whatever
\* the host did meanwhile, for any number of boots, units and clusters.
THEOREM ExecutorSafe == Spec => []ExecutorInvariant
<1>1. ExecInv => ExecutorInvariant
  BY DEF ExecInv, ExecutorInvariant
<1> QED BY <1>1, ExecutorHolds, PTL

\* The result changes in three places: the script's write, the cleanup, and
\* nowhere else.
LEMMA ResultChanges ==
  ASSUME ExecInv, Next, files'.result # files.result
  PROVE  \/ files.result = NoResult
         \/ CleanupArtifacts /\ files'.result = NoResult
<1> DEFINE Goal == \/ files.result = NoResult
                   \/ CleanupArtifacts /\ files'.result = NoResult
<1>1. files \in Files
  BY Typed DEF ExecInv
<1>2. ASSUME NEW k \in 1..4, Stage(k) PROVE Goal
  BY <1>2 DEF Stage, StageAllowed
<1>3. ASSUME CleanupArtifacts PROVE Goal
  <2>1. files' = files \/ \E k \in 0..5 : files' = CleanedFiles(k)
    BY <1>3, CleanupFiles
  <2> QED BY <1>1, <1>3, <2>1, CleanedRecord
<1>4. ASSUME NEW s, Checkpoint(s) PROVE FALSE
  BY <1>1, <1>4 DEF Checkpoint, Files
<1>5. ASSUME Script PROVE Goal
  <2>1. CASE ExecWrite
    BY <1>1, <2>1 DEF ExecWrite, Files
  <2> QED BY <1>4, <1>5, <2>1
        DEF Script, ExecStart, ExecBoot, ExecUnits, ExecChecks, DisableSelf, Fails
<1>6. files' # files
  OBVIOUS
<1> HIDE DEF Goal
<1>7. Goal
  BY <1>2, <1>3, <1>5, <1>6 DEF Next, PowerLoss, Boot, UnitChanges, Discover, DiscoverManifest,
     DiscoverResult, DiscoverCheckpoint, DiscoverFails, Verification, VerifyAndCleanup,
     VerifyHostMaintenance, Begin, VerifySsh, VerifyBoot, VerifyRuntime, VerifyWorkloads,
     VerifyCluster, VerifyImport, RestoreGuard, GuardsDone, ClearShutdown, ShutdownDone,
     ReleaseLocks, VerifyEnd, HandoffEnd, Verdict
<1> QED BY <1>7 DEF Goal

\* A discovery that answers complete has read it from a result.
LEMMA CompleteIsRead ==
  ASSUME ExecInv, Next, disc'.state = "complete", disc.state # "complete"
  PROVE  ValidatedResult(files.result) /\ files.result.state = "complete"
<1>1. disc' # disc
  OBVIOUS
<1>2. CheckpointState # "complete"
  BY DEF CheckpointState
<1>3. CASE Discover
  BY <1>2, <1>3 DEF Discover, DiscoverManifest, DiscoverResult, DiscoverCheckpoint, DiscoverFails,
     None
<1>4. ASSUME NEW kind, Begin(kind) PROVE FALSE
  BY <1>4, Typed DEF ExecInv, Begin, Discoveries, None
<1> QED BY <1>1, <1>3, <1>4 DEF Next, Stage, PowerLoss, Boot, UnitChanges, Script, ExecStart,
     ExecBoot, ExecUnits, ExecChecks, ExecWrite, DisableSelf, Verification, VerifyAndCleanup,
     VerifyHostMaintenance, VerifySsh, VerifyBoot, VerifyRuntime, VerifyWorkloads, VerifyCluster,
     VerifyImport, RestoreGuard, GuardsDone, ClearShutdown, ShutdownDone, CleanupArtifacts,
     ReleaseLocks, VerifyEnd, HandoffEnd, Verdict

\* The executor's evidence is written once, believed only when it is real and
\* removed only when it was proven, at any number of power losses.
THEOREM EvidenceIsFinal == Spec => EvidenceFinal
<1> DEFINE K == files.result # NoResult /\ files'.result = NoResult =>
                  /\ files.result.state = "complete"
                  /\ files.result.boot # PreBoot
                  /\ files.result.boot = verify.boot
           W == files.result # NoResult => files'.result \in {files.result, NoResult}
           D == disc'.state = "complete" /\ disc.state # "complete" =>
                  /\ files.result.state = "complete"
                  /\ files.result.boot > PreBoot
                  /\ files.result.units = Units
<1>1. ExecInv /\ [Next]_vars => [K]_vars
  <2> SUFFICES ASSUME ExecInv, Next PROVE K
    OBVIOUS
  <2>1. CleanupArtifacts => Proven(files.result)
    BY DEF ExecInv, ProofStands, CleanupArtifacts
  <2> QED BY <2>1, ResultChanges DEF Proven
<1>2. ExecInv /\ [Next]_vars => [W]_vars
  BY ResultChanges
<1>3. ExecInv /\ [Next]_vars => [D]_vars
  <2> SUFFICES ASSUME ExecInv, Next, disc'.state = "complete", disc.state # "complete"
               PROVE  /\ files.result.state = "complete"
                      /\ files.result.boot > PreBoot
                      /\ files.result.units = Units
    OBVIOUS
  <2>1. ValidatedResult(files.result) /\ files.result.state = "complete"
    BY CompleteIsRead
  <2>2. files.result \in Results
    BY <2>1, Typed DEF ExecInv, Files, ValidatedResult
  <2>3. files.result.boot > PreBoot
    BY <2>1, <2>2, ExecutorAssumption DEF ValidatedResult, Results, PreBoot
  <2> QED BY <2>1, <2>3 DEF ExecInv, Truthful
<1>4. Spec => [][K]_vars /\ [][W]_vars /\ [][D]_vars
  <2> HIDE DEF K, W, D
  <2> QED BY <1>1, <1>2, <1>3, ExecutorHolds, PTL DEF Spec
<1> QED BY <1>4 DEF EvidenceFinal, EvidenceKept, ResultWrittenOnce, DiscoveredCompleteIsReal
=============================================================================
