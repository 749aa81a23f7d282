---------------------------- MODULE HostExecutor ----------------------------
(***************************************************************************)
(* The one-shot executor that a maintenance reboot leaves on the host, and *)
(* the controller that reads its evidence: staging and discovery           *)
(* (runtime.py), the script on the host (ecp-maintenance-resume.py.j2),    *)
(* the verification and cleanup after the return (post_return.py) and the  *)
(* SSH primitives they use (controller_io.py).                             *)
(*                                                                         *)
(* Four files and one systemd instance are shared by the script and the    *)
(* controller.  The host may lose power at any step of either; every await *)
(* of the controller is a step of its own.  Boot ids are counted.          *)
(***************************************************************************)
EXTENDS Integers, Sequences, FiniteSets

CONSTANTS
  Units,     \* required_units of the manifest, the workloads of the request
  Clusters,  \* clusters with an allocation guard and a shutdown record
  MaxBoots   \* bound on the boots of a behaviour

ASSUME ExecutorAssumption == MaxBoots \in Nat \ {0}

None == "none"
NoResult == [state |-> None, boot |-> 0, units |-> {}, identified |-> FALSE]
ResultStates == {"complete", "recovery_required"}
Results == [state : ResultStates, boot : 0..MaxBoots, units : SUBSET Units, identified : BOOLEAN]

VARIABLES
  host,      \* [up, boot, active]: the machine and its running units
  files,     \* [dir, manifest, key, checkpoint, result]: the operation directory
  enabled,   \* the resume instance is enabled in systemd
  exec,      \* [pc, result]: the running script and the result it will write
  held,      \* [guards, shutdown, lock]: what the maintenance still holds
  verify,    \* the verification under way, with its locals
  verdict,   \* state of the last PostReturnResult
  disc       \* [pc, state]: discovery of the staged executor

vars == <<host, files, enabled, exec, held, verify, verdict, disc>>

(* The id signed into the manifest is the one of the boot in which the     *)
(* operation was planned.                                                  *)
PreBoot == 1

NoFiles == [dir |-> FALSE, manifest |-> FALSE, key |-> FALSE, checkpoint |-> None, result |-> NoResult]
NoVerify == [pc |-> None, kind |-> None, failed |-> FALSE, ssh |-> FALSE, boot |-> 0,
             imported |-> FALSE, complete |-> FALSE, cleaned |-> FALSE, released |-> FALSE, todo |-> {}]

Init ==
  /\ host = [up |-> TRUE, boot |-> PreBoot, active |-> Units]
  /\ files = NoFiles
  /\ enabled = FALSE
  /\ exec = [pc |-> None, result |-> NoResult]
  /\ held = [guards |-> Clusters, shutdown |-> Clusters, lock |-> TRUE]
  /\ verify = NoVerify
  /\ verdict = None
  /\ disc = [pc |-> None, state |-> None]

-----------------------------------------------------------------------------
(* Staging.  The playbook writes the manifest, the key and the checkpoint  *)
(* and enables the instance, in this order, and may end anywhere.  It      *)
(* refuses an operation that has a result, and one that has a checkpoint:  *)
(* the staged checkpoint carries the time of its staging and is never      *)
(* equal to the one a second request brings.                               *)

StageAllowed == files.result = NoResult /\ files.checkpoint = None

(* The files after the first k tasks of the playbook. *)
StagedFiles(k) ==
  [files EXCEPT !.dir = TRUE,
                !.manifest = @ \/ k >= 1,
                !.key = @ \/ k >= 2,
                !.checkpoint = IF k >= 3 THEN "staged" ELSE @]

Stage(k) ==
  /\ held.lock /\ host.up /\ verify.pc = None
  /\ StageAllowed
  /\ files' = StagedFiles(k)
  /\ enabled' = (enabled \/ k >= 4)
  /\ UNCHANGED <<host, exec, held, verify, verdict, disc>>

-----------------------------------------------------------------------------
(* The host.  systemd starts the instance at boot when it is enabled and   *)
(* its manifest and key exist.                                             *)

PowerLoss ==
  /\ host.up /\ host.boot < MaxBoots
  /\ host' = [host EXCEPT !.up = FALSE, !.active = {}]
  /\ exec' = [pc |-> None, result |-> NoResult]
  /\ UNCHANGED <<files, enabled, held, verify, verdict, disc>>

Boot ==
  /\ ~host.up
  /\ host' = [host EXCEPT !.up = TRUE, !.boot = @ + 1]
  /\ exec' = [pc |-> IF enabled /\ files.manifest /\ files.key THEN "start" ELSE None,
              result |-> NoResult]
  /\ UNCHANGED <<files, enabled, held, verify, verdict, disc>>

(* A unit comes up, or stops by itself. *)
UnitChanges(u) ==
  /\ host.up
  /\ host' = [host EXCEPT !.active = IF u \in @ THEN @ \ {u} ELSE @ \union {u}]
  /\ UNCHANGED <<files, enabled, exec, held, verify, verdict, disc>>

-----------------------------------------------------------------------------
(* The script.  A failure at any point leads to the same finally block,    *)
(* which writes a result unless there is one and disables the instance.    *)

Checkpoint(state) ==
  /\ files.dir
  /\ files' = [files EXCEPT !.checkpoint = state]

(* The result of an ExecutorFailure: the units are the ones observed, or   *)
(* read again when none were.                                              *)
Fails(boot, units, identified) ==
  /\ exec' = [pc |-> "write",
              result |-> [state |-> "recovery_required", boot |-> boot,
                          units |-> units, identified |-> identified]]
  /\ UNCHANGED files

(* A result that is there already ends the script: the finally block still *)
(* runs.  A manifest that is expired or does not verify leaves no manifest *)
(* to identify the result with.                                            *)
ExecStart ==
  /\ exec.pc = "start"
  /\ \/ files.result # NoResult /\ Fails(0, {}, FALSE)
     \/ /\ files.result = NoResult
        /\ \/ Fails(0, {}, FALSE)
           \/ /\ files.manifest /\ files.key
              /\ Checkpoint("manifest_verified")
              /\ exec' = [exec EXCEPT !.pc = "boot"]
  /\ UNCHANGED <<host, enabled, held, verify, verdict, disc>>

(* Mutant: a boot id that did not change ends the script without a result. *)
ExecBootSilent ==
  /\ exec.pc = "boot"
  /\ IF host.boot <= PreBoot + 1
     THEN exec' = [pc |-> None, result |-> NoResult] /\ UNCHANGED files
     ELSE Checkpoint("boot_transition_verified") /\ exec' = [exec EXCEPT !.pc = "units"]
  /\ UNCHANGED <<host, enabled, held, verify, verdict, disc>>

(* A boot id that cannot be read is missing from the result. *)
ExecBoot ==
  /\ exec.pc = "boot"
  /\ \/ Fails(0, host.active, TRUE)
     \/ host.boot = PreBoot /\ Fails(host.boot, host.active, TRUE)
     \/ /\ host.boot # PreBoot
        /\ Checkpoint("boot_transition_verified")
        /\ exec' = [exec EXCEPT !.pc = "units"]
  /\ UNCHANGED <<host, enabled, held, verify, verdict, disc>>

(* wait_for_units polls until every unit is active or its time is over. *)
ExecUnits ==
  /\ exec.pc = "units"
  /\ \/ /\ host.active = Units
        /\ Checkpoint("required_units_ready")
        /\ exec' = [exec EXCEPT !.pc = "checks"]
     \/ Fails(host.boot, host.active, TRUE)
  /\ UNCHANGED <<host, enabled, held, verify, verdict, disc>>

ExecChecks ==
  /\ exec.pc = "checks"
  /\ \/ /\ Checkpoint("complete")
        /\ exec' = [pc |-> "write",
                    result |-> [state |-> "complete", boot |-> host.boot,
                                units |-> Units, identified |-> TRUE]]
     \/ Fails(host.boot, Units, TRUE)
  /\ UNCHANGED <<host, enabled, held, verify, verdict, disc>>

(* Mutant: the result of this run replaces the one that is there. *)
ExecWriteReplaces ==
  /\ exec.pc = "write"
  /\ files' = [files EXCEPT !.result = IF files.dir THEN exec.result ELSE @]
  /\ exec' = [exec EXCEPT !.pc = "disable"]
  /\ UNCHANGED <<host, enabled, held, verify, verdict, disc>>

(* In a directory that is gone the write fails and the script with it. *)
ExecWrite ==
  /\ exec.pc = "write"
  /\ files' = [files EXCEPT !.result = IF @ = NoResult /\ files.dir THEN exec.result ELSE @]
  /\ exec' = IF files.dir THEN [exec EXCEPT !.pc = "disable"]
             ELSE [pc |-> None, result |-> NoResult]
  /\ UNCHANGED <<host, enabled, held, verify, verdict, disc>>

(* The answer of systemctl is not looked at. *)
DisableSelf ==
  /\ exec.pc = "disable"
  /\ enabled' \in {FALSE, enabled}
  /\ exec' = [pc |-> None, result |-> NoResult]
  /\ UNCHANGED <<host, files, held, verify, verdict, disc>>

Script == ExecStart \/ ExecBoot \/ ExecUnits \/ ExecChecks \/ ExecWrite \/ DisableSelf

-----------------------------------------------------------------------------
(* What the controller accepts of the files.  The signature of the         *)
(* manifest is checked as of its creation: expiry stops execution and not  *)
(* the import of evidence.                                                 *)

ValidatedManifest == files.manifest

(* _validated_result; a result of a failed check lacks the later checks. *)
ValidatedResult(r) ==
  /\ r # NoResult
  /\ r.identified
  /\ r.boot # 0
  /\ r.boot # PreBoot

(* Mutant: the checkpoint's state is reported as it stands. *)
CheckpointStateRaw ==
  IF files.checkpoint = None THEN "recovery_required" ELSE files.checkpoint

(* Mutant: a checkpoint of a completed run counts as its result. *)
CheckpointStateTrusted ==
  IF files.checkpoint = "complete" THEN "complete" ELSE "running"

CheckpointState ==
  CASE files.checkpoint = None -> "recovery_required"
    [] files.checkpoint = "staged" -> "staged"
    [] files.checkpoint \in {"manifest_verified", "boot_transition_verified", "required_units_ready"} -> "running"
    [] OTHER -> "recovery_required"

(* Discovery reads the manifest, the result and the checkpoint in three    *)
(* remote calls.  The plan's coordinator discovers before it verifies.     *)
DiscoverManifest ==
  /\ disc.pc = None /\ verify.pc = None
  /\ host.up
  /\ disc' = IF ~files.manifest THEN [pc |-> None, state |-> "not_found"]
             ELSE [pc |-> "result", state |-> None]
  /\ UNCHANGED <<host, files, enabled, exec, held, verify, verdict>>

DiscoverResult ==
  /\ disc.pc = "result"
  /\ host.up
  /\ disc' = IF files.result = NoResult THEN [pc |-> "checkpoint", state |-> None]
             ELSE [pc |-> None,
                   state |-> IF ValidatedResult(files.result) THEN files.result.state
                             ELSE "recovery_required"]
  /\ UNCHANGED <<host, files, enabled, exec, held, verify, verdict>>

DiscoverCheckpoint ==
  /\ disc.pc = "checkpoint"
  /\ host.up
  /\ disc' = [pc |-> None, state |-> CheckpointState]
  /\ UNCHANGED <<host, files, enabled, exec, held, verify, verdict>>

(* An unreachable host ends a discovery with an exception. *)
DiscoverFails ==
  /\ disc.pc # None
  /\ disc' = [pc |-> None, state |-> None]
  /\ UNCHANGED <<host, files, enabled, exec, held, verify, verdict>>

Discover == DiscoverManifest \/ DiscoverResult \/ DiscoverCheckpoint \/ DiscoverFails

-----------------------------------------------------------------------------
(* Verification after the return.  kind tells verify_and_cleanup           *)
(* (executor) from verify_host_maintenance (handoff), which checks the     *)
(* host and the clusters and cleans nothing up.  A check that cannot be    *)
(* made counts as failed; every check is made although others failed.      *)

Go(pc) == verify' = [verify EXCEPT !.pc = pc]
Passes(pc, ok) == verify' = [verify EXCEPT !.pc = pc, !.failed = @ \/ ~ok]

Begin(kind) ==
  /\ verify.pc = None /\ held.lock /\ disc.pc = None
  /\ verify' = [NoVerify EXCEPT !.pc = "ssh", !.kind = kind, !.todo = Clusters]
  /\ verdict' = None
  /\ disc' = [disc EXCEPT !.state = None]
  /\ UNCHANGED <<host, files, enabled, exec, held>>

VerifyAndCleanup == Begin("executor")
VerifyHostMaintenance == Begin("handoff")

(* What a remote command can answer: the truth, or nothing. *)
SshAnswers == {host.up, FALSE}
BootAnswers == IF host.up THEN {host.boot, 0} ELSE {0}
UnitAnswers == IF host.up THEN {host.active, {}} ELSE {{}}

VerifySsh ==
  /\ verify.pc = "ssh"
  /\ \E ok \in SshAnswers :
       verify' = [verify EXCEPT !.ssh = ok, !.failed = ~ok,
                                !.pc = CASE ~ok -> "cluster"
                                         [] ok /\ verify.kind = "executor" -> "boot"
                                         [] OTHER -> "runtime"]
  /\ UNCHANGED <<host, files, enabled, exec, held, verdict, disc>>

VerifyBoot ==
  /\ verify.pc = "boot"
  /\ \E b \in BootAnswers :
       verify' = [verify EXCEPT !.pc = "runtime", !.boot = b,
                                !.failed = @ \/ b \in {0, PreBoot}]
  /\ UNCHANGED <<host, files, enabled, exec, held, verdict, disc>>

(* Podman socket, Quadlet generator and endpoints: any of them may fail,   *)
(* and without the generator the workloads are not looked at.              *)
VerifyRuntime ==
  /\ verify.pc = "runtime"
  /\ \/ host.up /\ Go("workloads")
     \/ host.up /\ Passes("workloads", FALSE)
     \/ Passes("cluster", FALSE)
  /\ UNCHANGED <<host, files, enabled, exec, held, verdict, disc>>

VerifyWorkloads ==
  /\ verify.pc = "workloads"
  /\ \E us \in UnitAnswers : Passes("cluster", us = Units)
  /\ UNCHANGED <<host, files, enabled, exec, held, verdict, disc>>

(* The evidence of a cluster: which identity the node answers with, how    *)
(* many recoveries are left, the health, and how many services answer.     *)
HealthRank == [red |-> 0, yellow |-> 1, green |-> 2]
Identities == {"same", "name", "version", "uuid", "absent"}
ClusterEvidence == [identity : Identities, recoveries : 0..1,
                    health : DOMAIN HealthRank \union {"unknown"}, available : 0..1]

ClusterVerified(e, required, minimum) ==
  /\ e.identity = "same"
  /\ e.recoveries = 0
  /\ e.health \in DOMAIN HealthRank
  /\ HealthRank[e.health] >= HealthRank[required]
  /\ e.available >= minimum

VerifyCluster ==
  /\ verify.pc = "cluster"
  /\ \E e \in ClusterEvidence :
       Passes(IF verify.kind = "handoff" THEN "end"
              ELSE IF verify.ssh THEN "import" ELSE "guards",
              ClusterVerified(e, "green", 1))
  /\ UNCHANGED <<host, files, enabled, exec, held, verdict, disc>>

(* Mutant: the boot of the result is not compared with the one read. *)
ResultProvesAnyBoot(r) == r.state = "complete" /\ r.units = Units

(* The imported result must be a complete one of the boot that was read.   *)
ResultProves(r) ==
  /\ r.boot = verify.boot
  /\ r.state = "complete"
  /\ r.units = Units

VerifyImport ==
  /\ verify.pc = "import"
  /\ LET readable == host.up /\ ValidatedManifest /\ ValidatedResult(files.result)
         proves == ResultProves(files.result)
     IN \/ /\ readable
           /\ verify' = [verify EXCEPT !.pc = "guards", !.imported = TRUE,
                                       !.complete = proves, !.failed = @ \/ ~proves]
        \/ Passes("guards", FALSE)
  /\ UNCHANGED <<host, files, enabled, exec, held, verdict, disc>>

(* Mutant: a restoration that did not succeed is passed over. *)
RestoreGuardUnchecked(c) ==
  /\ verify.pc = "guards" /\ c \in verify.todo
  /\ held' \in {held, [held EXCEPT !.guards = @ \ {c}]}
  /\ verify' = [verify EXCEPT !.todo = @ \ {c}]
  /\ UNCHANGED <<host, files, enabled, exec, verdict, disc>>

(* A guard is restored and a shutdown record cleared whatever the checks   *)
(* said.  The answer may be lost after the effect.                         *)
RestoreGuard(c) ==
  /\ verify.pc = "guards" /\ c \in verify.todo
  /\ \/ /\ held' = [held EXCEPT !.guards = @ \ {c}]
        /\ \E ok \in BOOLEAN :
             verify' = [verify EXCEPT !.todo = @ \ {c}, !.failed = @ \/ ~ok]
     \/ /\ verify' = [verify EXCEPT !.todo = @ \ {c}, !.failed = TRUE]
        /\ UNCHANGED held
  /\ UNCHANGED <<host, files, enabled, exec, verdict, disc>>

GuardsDone ==
  /\ verify.pc = "guards" /\ verify.todo = {}
  /\ verify' = [verify EXCEPT !.pc = "shutdown", !.todo = Clusters]
  /\ UNCHANGED <<host, files, enabled, exec, held, verdict, disc>>

ClearShutdown(c) ==
  /\ verify.pc = "shutdown" /\ c \in verify.todo
  /\ \/ /\ held' = [held EXCEPT !.shutdown = @ \ {c}]
        /\ \E ok \in BOOLEAN :
             verify' = [verify EXCEPT !.todo = @ \ {c}, !.failed = @ \/ ~ok]
     \/ /\ verify' = [verify EXCEPT !.todo = @ \ {c}, !.failed = TRUE]
        /\ UNCHANGED held
  /\ UNCHANGED <<host, files, enabled, exec, verdict, disc>>

(* Mutant: the artifacts are removed although a check failed. *)
ShutdownDoneRegardless ==
  /\ verify.pc = "shutdown" /\ verify.todo = {}
  /\ Go(IF verify.imported THEN "artifacts" ELSE "end")
  /\ UNCHANGED <<host, files, enabled, exec, held, verdict, disc>>

ShutdownDone ==
  /\ verify.pc = "shutdown" /\ verify.todo = {}
  /\ Go(IF ~verify.failed /\ verify.complete THEN "artifacts" ELSE "end")
  /\ UNCHANGED <<host, files, enabled, exec, held, verdict, disc>>

(* The cleanup script unlinks the paths in sorted order, checkpoint,       *)
(* manifest, result, key, and removes the directory when it is empty.      *)
CleanedFiles(k) ==
  [files EXCEPT !.dir = k < 5,
                !.checkpoint = IF k >= 1 THEN None ELSE @,
                !.manifest = @ /\ k < 2,
                !.result = IF k >= 3 THEN NoResult ELSE @,
                !.key = @ /\ k < 4]

CleanupArtifacts ==
  /\ verify.pc = "artifacts"
  /\ \/ /\ host.up
        /\ files' = CleanedFiles(5)
        /\ enabled' \in {FALSE, enabled}
        /\ \/ verify' = [verify EXCEPT !.pc = "locks", !.cleaned = TRUE]
           \/ Passes("end", FALSE)
     \/ /\ host.up
        /\ \E k \in 0..4 : files' = CleanedFiles(k)
        /\ enabled' \in {FALSE, enabled}
        /\ Passes("end", FALSE)
     \/ /\ Passes("end", FALSE)
        /\ UNCHANGED <<files, enabled>>
  /\ UNCHANGED <<host, exec, held, verdict, disc>>

ReleaseLocks ==
  /\ verify.pc = "locks"
  /\ \/ /\ held' = [held EXCEPT !.lock = FALSE]
        /\ verify' = [verify EXCEPT !.pc = "end", !.released = TRUE]
     \/ held' \in {held, [held EXCEPT !.lock = FALSE]} /\ Passes("end", FALSE)
  /\ UNCHANGED <<host, files, enabled, exec, verdict, disc>>

Verdict(ok) ==
  /\ verify.pc = "end"
  /\ verdict' = IF ok THEN "complete" ELSE "recovery_required"
  /\ verify' = NoVerify
  /\ UNCHANGED <<host, files, enabled, exec, held, disc>>

VerifyEnd == verify.kind = "executor" /\ Verdict(~verify.failed /\ verify.released)
HandoffEnd == verify.kind = "handoff" /\ Verdict(~verify.failed)

Verification ==
  \/ VerifyAndCleanup \/ VerifyHostMaintenance
  \/ VerifySsh \/ VerifyBoot \/ VerifyRuntime \/ VerifyWorkloads \/ VerifyCluster
  \/ VerifyImport \/ (\E c \in Clusters : RestoreGuard(c)) \/ GuardsDone
  \/ (\E c \in Clusters : ClearShutdown(c)) \/ ShutdownDone
  \/ CleanupArtifacts \/ ReleaseLocks \/ VerifyEnd \/ HandoffEnd

Next ==
  \/ \E k \in 1..4 : Stage(k)
  \/ PowerLoss
  \/ Boot
  \/ \E u \in Units : UnitChanges(u)
  \/ Script
  \/ Discover
  \/ Verification

Spec == Init /\ [][Next]_vars

(* systemd brings the host back up and runs the script to its end: every   *)
(* wait of the script has a deadline.                                      *)
FairSpec == Spec /\ WF_vars(Boot) /\ WF_vars(Script)

-----------------------------------------------------------------------------
(* The state of the machine, the files and the controller is well formed.  *)
TypeOK ==
  /\ host \in [up : BOOLEAN, boot : 1..MaxBoots, active : SUBSET Units]
  /\ files \in [dir : BOOLEAN, manifest : BOOLEAN, key : BOOLEAN,
                checkpoint : {None, "staged", "manifest_verified", "boot_transition_verified",
                              "required_units_ready", "complete"},
                result : Results \union {NoResult}]
  /\ enabled \in BOOLEAN
  /\ exec \in [pc : {None, "start", "boot", "units", "checks", "write", "disable"},
               result : Results \union {NoResult}]
  /\ held \in [guards : SUBSET Clusters, shutdown : SUBSET Clusters, lock : BOOLEAN]
  /\ verify \in [pc : {None, "ssh", "boot", "runtime", "workloads", "cluster", "import", "guards",
                       "shutdown", "artifacts", "locks", "end"},
                 kind : {None, "executor", "handoff"}, failed : BOOLEAN, ssh : BOOLEAN,
                 boot : 0..MaxBoots, imported : BOOLEAN, complete : BOOLEAN,
                 cleaned : BOOLEAN, released : BOOLEAN, todo : SUBSET Clusters]
  /\ verdict \in {None} \union ResultStates
  /\ disc \in [pc : {None, "result", "checkpoint"},
               state : {None, "not_found", "staged", "running"} \union ResultStates]

(* The locks are given up only when nothing is left to hold them for: no   *)
(* cluster is restricted, no shutdown record is left and the operation     *)
(* directory is empty, so that no later boot runs the executor again       *)
(* (PostReturnCoordinator.verify_and_cleanup).                             *)
ReleasedMeansClean ==
  ~held.lock =>
    /\ held.guards = {} /\ held.shutdown = {}
    /\ files = NoFiles

(* The executor's evidence is removed only after it was proven: the result *)
(* that disappears is complete, of a later boot than the signed one, and   *)
(* of the boot the controller itself has read.                             *)
EvidenceKept ==
  [][files.result # NoResult /\ files'.result = NoResult =>
       /\ files.result.state = "complete"
       /\ files.result.boot # PreBoot
       /\ files.result.boot = verify.boot]_vars

(* A result is written once.  A second boot, a power loss between the      *)
(* result and the disabling of the instance, or a late run of the script   *)
(* never changes it (main of ecp-maintenance-resume).                      *)
ResultWrittenOnce ==
  [][files.result # NoResult => files'.result \in {files.result, NoResult}]_vars

(* Discovery, which reads three files one after the other while the script *)
(* writes them, never reports complete unless the script has completed     *)
(* after a reboot (ControllerManagedHostRuntime.discover).                 *)
DiscoveredCompleteIsReal ==
  [][disc'.state = "complete" /\ disc.state # "complete" =>
       /\ files.result.state = "complete"
       /\ files.result.boot > PreBoot
       /\ files.result.units = Units]_vars

(* A host that came back with a staged executor reports: the script writes *)
(* a result, whichever of its steps fails, unless the host goes down first *)
(* (the finally block of main).                                            *)
ExecutorReports ==
  (exec.pc = "start" /\ files.dir /\ files.result = NoResult)
     ~> (files.result # NoResult \/ ~host.up)

(* Well formed, and released only over a clean host.                       *)
ExecutorInvariant ==
  /\ TypeOK
  /\ ReleasedMeansClean

(* The evidence of the executor is written once, believed only when it is  *)
(* real and removed only when it is proven, with script and controller at  *)
(* work on the same files and power losses in between.                     *)
EvidenceFinal ==
  /\ EvidenceKept
  /\ ResultWrittenOnce
  /\ DiscoveredCompleteIsReal
=============================================================================
