------------------------- MODULE RebootOrchestrator -------------------------
(***************************************************************************)
(* The reboot of one host by RebootOrchestrator.run (reboot.py): an        *)
(* append-only journal of checkpoints decides how far an earlier run got.  *)
(* A step is one remote call, its answer, and the writes up to the next    *)
(* call.                                                                   *)
(*                                                                         *)
(* The orchestrator never commits.  Whether its journal outlives a run is  *)
(* a property of the caller: a durable caller keeps every write, as the    *)
(* orchestrator's own tests do; the other is the host workflow of main.py, *)
(* where HostMaintenanceRebootCoordinator raises on every result but a     *)
(* verified return and the open transaction is closed without a commit.    *)
(* Its next request is signed anew, and asks for no guards: the workflow   *)
(* owns them itself.                                                       *)
(***************************************************************************)
EXTENDS Integers, MaintenanceLifecycle

CONSTANTS
  Clusters,      \* request.clusters with a guard
  MaxAttempts,   \* predicate evaluations of one stage (99 in the code)
  MaxReboots,    \* bound: how often the operator's retries may reach the host
  Reopens        \* may a recover request move the plan back to executing?

ASSUME BoundsAssumption ==
  MaxAttempts \in Nat /\ MaxReboots \in Nat /\ Reopens \in BOOLEAN

VARIABLES
  db,       \* what the running connection sees: plan, journal, boot ids
  disk,     \* what is committed
  run,      \* the run in flight
  alloc,    \* remote: cluster.routing.allocation.enable
  reboots,  \* remote: reboot invocations that reached the host
  boot,     \* remote: the boots so far, which the boot id identifies
  manifest, \* remote: what the stage playbook left of this operation
  durable   \* does the caller keep what a run wrote?  It never changes.

vars == <<db, disk, run, alloc, reboots, boot, manifest, durable>>

NoBoot == -1

Keys == {"prepared", "guards-active", "staged", "stage-refused", "restored", "intent",
         "acknowledged", "disconnected", "reconnected", "discovered"}
PCs == {"idle", "capture", "control", "prepare", "activate", "stage", "evaluate",
        "invoke", "disconnect", "reconnect", "verify", "restore"}

Database == [plan : {"ready"} \cup InFlightStates \cup TerminalPlanStates,
             keys : SUBSET Keys, prepares : 0..MaxAttempts, evaluations : 0..MaxAttempts,
             pre : Int, seen : Int, reopened : BOOLEAN]

\* The manifest on the host is the one of the request at hand, without or with
\* the checkpoint that is written last, or one signed for an earlier request.
Manifests == {"none", "partial", "staged", "foreign"}

Idle == [pc |-> "idle", todo |-> {}, active |-> {}, verified |-> TRUE, blocked |-> FALSE]

TypeOK ==
  /\ db \in Database
  /\ disk \in Database
  /\ run \in [pc : PCs, todo : SUBSET Clusters, active : SUBSET Clusters,
              verified : BOOLEAN, blocked : BOOLEAN]
  /\ alloc \in [Clusters -> {"all", "primaries"}]
  /\ reboots \in Nat
  /\ boot \in Nat
  /\ manifest \in Manifests
  /\ durable \in BOOLEAN

Init ==
  /\ durable \in BOOLEAN
  /\ \E state \in {"executing"} \cup (IF durable THEN {"ready"} ELSE {}) :
       db = [plan |-> state, keys |-> {}, prepares |-> 0, evaluations |-> 0,
             pre |-> NoBoot, seen |-> NoBoot, reopened |-> FALSE]
  /\ disk = db
  /\ run = Idle
  /\ alloc = [c \in Clusters |-> "all"]
  /\ reboots = 0
  /\ boot = 0
  /\ manifest = "none"

-----------------------------------------------------------------------------
\* request.clusters
Guarded == IF durable THEN Clusters ELSE {}

Journal(d, key) == [d EXCEPT !.keys = @ \cup {key}]

\* Mutant: the result's status is written in place of the lifecycle state.
MarkFailedBlocked(d) == IF d.plan = "executing" THEN [d EXCEPT !.plan = "blocked"] ELSE d

\* _mark_failed
MarkFailed(d) == IF d.plan = "executing" THEN [d EXCEPT !.plan = "failed"] ELSE d

\* _mark_recovery_required
MarkRecovery(d) ==
  IF d.plan \in {"executing", "paused"} THEN [d EXCEPT !.plan = "recovery_required"] ELSE d

\* The run goes on after its writes.
Goto(d, pc) ==
  /\ db' = d
  /\ disk' = IF durable THEN d ELSE disk
  /\ run' = [run EXCEPT !.pc = pc]

\* The run ends in any result but a verified return.
End(d) ==
  /\ db' = IF durable THEN d ELSE disk
  /\ disk' = db'
  /\ run' = Idle

\* Any failure after the first guard: _restore_guards, then failed if the
\* restoration is verified and the failure was a blocked predicate or guard.
RestoreThen(d, blocked) ==
  /\ db' = d
  /\ disk' = IF durable THEN d ELSE disk
  /\ run' = [run EXCEPT !.pc = "restore", !.todo = run.active, !.blocked = blocked]

-----------------------------------------------------------------------------
\* Where an acknowledged reboot is taken up again.
Acknowledged(keys) ==
  IF "disconnected" \notin keys THEN "disconnect"
  ELSE IF "reconnected" \notin keys THEN "reconnect" ELSE "verify"

\* Mutant: an intent without acknowledgement is taken for a run to continue.
AmbiguousIgnored(keys) == FALSE

Ambiguous(keys) == "intent" \in keys /\ "acknowledged" \notin keys

\* _request: a caller without the stored request reads the boot id and signs
\* another manifest for the same operation.  The head of run: a completed journal, a plan in recovery, a terminal plan
\* and a paused plan that is not resumed change nothing.
Begin ==
  LET d == [db EXCEPT !.plan = "executing", !.pre = IF @ = NoBoot THEN boot ELSE @] IN
  /\ run.pc = "idle"
  /\ reboots < MaxReboots
  /\ db.plan \in {"ready", "executing", "paused"}
  /\ "discovered" \notin db.keys
  /\ IF Ambiguous(db.keys) THEN End(MarkRecovery(d))
     ELSE Goto(d, IF "acknowledged" \in db.keys THEN Acknowledged(db.keys)
                  ELSE IF "prepared" \in db.keys THEN "control" ELSE "capture")
  /\ manifest' = IF db.pre = NoBoot /\ manifest # "none" THEN "foreign" ELSE manifest
  /\ UNCHANGED <<alloc, reboots, boot, durable>>

\* _prepare_clusters
Capture ==
  /\ run.pc = "capture"
  /\ Goto(Journal(db, "prepared"), "control") \/ End(MarkFailed(db))
  /\ UNCHANGED <<alloc, reboots, boot, manifest, durable>>

\* _apply_safe_control
Control ==
  /\ run.pc = "control"
  /\ \/ Goto(db, "prepare")
     \/ \E state \in {"paused", "cancelled"} : End([db EXCEPT !.plan = state])
  /\ UNCHANGED <<alloc, reboots, boot, manifest, durable>>

\* _evaluate, stage prepare.  A journal that holds guards-active is believed.
EvaluatePrepare ==
  LET d == [db EXCEPT !.prepares = @ + 1] IN
  /\ run.pc = "prepare"
  /\ \/ /\ db.prepares < MaxAttempts
        /\ db' = d
        /\ disk' = IF durable THEN d ELSE disk
        /\ run' = IF "guards-active" \in db.keys
                  THEN [run EXCEPT !.pc = "stage", !.active = Guarded]
                  ELSE [run EXCEPT !.pc = "activate", !.todo = Guarded]
     \/ db.prepares < MaxAttempts /\ End(MarkFailed(d))
     \/ End(MarkFailed(db))
  /\ UNCHANGED <<alloc, reboots, boot, manifest, durable>>

\* _activate_cluster_guards, one cluster.  A failed activation has put the
\* setting back; an exception or recovery_required leaves it unknown.
Activate(c) ==
  /\ run.pc = "activate"
  /\ c \in run.todo
  /\ \/ /\ alloc' = [alloc EXCEPT ![c] = "primaries"]
        /\ run' = [run EXCEPT !.todo = @ \ {c}, !.active = @ \cup {c}]
        /\ UNCHANGED <<db, disk>>
     \/ /\ alloc' = [alloc EXCEPT ![c] = "all"]
        /\ RestoreThen(db, TRUE)
     \/ /\ \E v \in {alloc[c], "primaries"} : alloc' = [alloc EXCEPT ![c] = v]
        /\ RestoreThen(db, FALSE)
  /\ UNCHANGED <<reboots, boot, manifest, durable>>

\* Mutant: the aggregate row is written before the last cluster.
GuardsActiveEarly ==
  /\ run.pc = "activate"
  /\ Goto(Journal(db, "guards-active"), "stage")
  /\ UNCHANGED <<alloc, reboots, boot, manifest, durable>>

\* The aggregate row that a later run believes.
GuardsActive ==
  /\ run.pc = "activate"
  /\ run.todo = {}
  /\ Goto(Journal(db, "guards-active"), "stage")
  /\ UNCHANGED <<alloc, reboots, boot, manifest, durable>>

\* Mutant: the playbook replaces what lies there.
StageableAgain == TRUE

\* The stage playbook refuses another manifest, and a checkpoint that is there
\* already: it holds the time of its own staging.
Stageable == manifest \in {"none", "partial"}

\* _stage_executor.  A receipt in the journal is reused; a refusal or a lost
\* answer of the playbook raises.
Stage ==
  /\ run.pc = "stage"
  /\ \/ "staged" \in db.keys /\ Goto(db, "evaluate") /\ UNCHANGED manifest
     \/ "stage-refused" \in db.keys /\ RestoreThen(db, FALSE) /\ UNCHANGED manifest
     \/ /\ {"staged", "stage-refused"} \cap db.keys = {}
        /\ Stageable
        /\ manifest' = "staged"
        /\ Goto(Journal(db, "staged"), "evaluate")
     \/ /\ {"staged", "stage-refused"} \cap db.keys = {}
        /\ manifest' \in {manifest} \cup (IF Stageable THEN {"partial", "staged"} ELSE {})
        /\ RestoreThen(Journal(db, "stage-refused"), FALSE) \/ RestoreThen(db, FALSE)
  /\ UNCHANGED <<alloc, reboots, boot, durable>>

\* Mutant: a blocked predicate ends the plan without the restoration.
BlockedUnrestored(d) == End(MarkFailed(d))

\* The reboot predicates block.
Blocked(d) == RestoreThen(d, TRUE)

\* _evaluate, stage reboot, and the intent row.
EvaluateReboot ==
  LET d == [db EXCEPT !.evaluations = @ + 1] IN
  /\ run.pc = "evaluate"
  /\ \/ db.evaluations < MaxAttempts /\ Goto(Journal(d, "intent"), "invoke")
     \/ db.evaluations < MaxAttempts /\ Blocked(d)
     \/ RestoreThen(db, FALSE)
  /\ UNCHANGED <<alloc, reboots, boot, manifest, durable>>

\* invoke_reboot.  Without a matching acknowledgement nobody knows whether the
\* host was told.
Invoke ==
  /\ run.pc = "invoke"
  /\ \/ reboots' = reboots + 1 /\ Goto(Journal(db, "acknowledged"), "disconnect")
     \/ reboots' \in {reboots, reboots + 1} /\ End(MarkRecovery(db))
  /\ UNCHANGED <<alloc, boot, manifest, durable>>

\* The host boots once for every invocation, at any time after it.
HostBoots ==
  /\ boot < reboots
  /\ boot' = boot + 1
  /\ UNCHANGED <<db, disk, run, alloc, reboots, manifest, durable>>

\* wait_for_disconnect.  The row is journalled whether or not the connection
\* was lost, and a later run does not look at its content.
Disconnect ==
  /\ run.pc = "disconnect"
  /\ \/ Goto(Journal(db, "disconnected"), "reconnect")
     \/ End(MarkRecovery(Journal(db, "disconnected")))
     \/ End(MarkRecovery(db))
  /\ UNCHANGED <<alloc, reboots, boot, manifest, durable>>

\* wait_for_reconnect: the boot id the host answered with, if it answered.
Reconnect ==
  /\ run.pc = "reconnect"
  /\ \/ \E id \in {NoBoot, boot} :
          Goto([Journal(db, "reconnected") EXCEPT !.seen = id], "verify")
     \/ End(MarkRecovery(db))
  /\ UNCHANGED <<alloc, reboots, boot, manifest, durable>>

\* Mutant: any answer counts as a return.
ReturnedSameBoot(d) == d.seen # NoBoot

Returned(d) == d.seen \notin {NoBoot, d.pre}

\* The boot id, then the discovery of the executor.
Verify ==
  /\ run.pc = "verify"
  /\ \/ /\ Returned(db)
        /\ db' = Journal(db, "discovered")
        /\ disk' = db'
        /\ run' = Idle
     \/ End(MarkRecovery(db))
  /\ UNCHANGED <<alloc, reboots, boot, manifest, durable>>

\* _restore_guards, one cluster.
Restore(c) ==
  /\ run.pc = "restore"
  /\ c \in run.todo
  /\ \/ /\ alloc' = [alloc EXCEPT ![c] = "all"]
        /\ run' = [run EXCEPT !.todo = @ \ {c}]
     \/ /\ \E v \in {alloc[c], "all"} : alloc' = [alloc EXCEPT ![c] = v]
        /\ run' = [run EXCEPT !.todo = @ \ {c}, !.verified = FALSE]
  /\ UNCHANGED <<db, disk, reboots, boot, manifest, durable>>

\* Its journal row.  A second restoration has other content under the same key,
\* and raises out of the run.
Restored ==
  LET d == Journal(db, "restored") IN
  /\ run.pc = "restore"
  /\ run.todo = {}
  /\ IF "restored" \in db.keys THEN End(db)
     ELSE IF run.verified /\ run.blocked THEN End(MarkFailed(d)) ELSE End(MarkRecovery(d))
  /\ UNCHANGED <<alloc, reboots, boot, manifest, durable>>

-----------------------------------------------------------------------------
\* The controller stops, in the middle of a run or between runs; startup moves
\* a plan in flight to recovery_required.
Crash ==
  /\ run' = Idle
  /\ db' = MarkRecovery(disk)
  /\ disk' = db'
  /\ UNCHANGED <<alloc, reboots, boot, manifest, durable>>

\* MaintenanceExecutionService.finalize of a recover request, whose default
\* result is executing.  Its run row tells afterwards that it happened.
Reopen ==
  /\ Reopens
  /\ run.pc = "idle"
  /\ db.plan = "recovery_required"
  /\ db' = [db EXCEPT !.plan = "executing", !.reopened = TRUE]
  /\ disk' = db'
  /\ UNCHANGED <<run, alloc, reboots, boot, manifest, durable>>

Next ==
  \/ Begin \/ Capture \/ Control \/ EvaluatePrepare
  \/ \E c \in Clusters : Activate(c)
  \/ GuardsActive \/ Stage \/ EvaluateReboot \/ Invoke \/ HostBoots
  \/ Disconnect \/ Reconnect \/ Verify
  \/ \E c \in Clusters : Restore(c)
  \/ Restored \/ Crash \/ Reopen

Spec == Init /\ [][Next]_vars

-----------------------------------------------------------------------------
\* Properties

\* The host is told to reboot at most once, whatever call failed, however often
\* the run is begun again, wherever the controller stopped and whether or not
\* the caller keeps the journal.
AtMostOneInvocation == reboots <= 1

\* A verified return is a host that has really booted since the request was
\* signed.
ReturnVerified == "discovered" \in db.keys => boot > db.pre /\ reboots > 0

\* A plan that ends without a reboot leaves no cluster restricted, unless it was
\* reopened: the guards of a run that was cut off are not looked for again.
GuardsReleased ==
  db.plan \in {"failed", "cancelled"} /\ ~db.reopened => \A c \in Clusters : alloc[c] = "all"

\* No reboot is invoked while a guarded cluster may reallocate its shards, by a
\* plan that was not reopened (a reopened one believes the guards-active row
\* although its guards may have been restored).
GuardedInvocation ==
  run.pc = "invoke" /\ ~db.reopened => \A c \in Guarded : alloc[c] = "primaries"

\* The guards follow the reboot: active while the host is told to reboot, gone
\* when the plan ended without one, for any order of failures and resumptions
\* of a plan that was not reopened.
GuardsKept ==
  /\ TypeOK
  /\ GuardsReleased
  /\ GuardedInvocation
=============================================================================
