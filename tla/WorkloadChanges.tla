-------------------------- MODULE WorkloadChanges --------------------------
(***************************************************************************)
(* The workload assignments of one cluster: the batch worker and its       *)
(* recovery (worker.py), the launch of a batch (integration.py,            *)
(* validation.py), the direct mutations (http.py) with the command run     *)
(* each of them starts (platform/integration.py, command_runs.py), the     *)
(* rows they share (repository.py) and the startup pass (bootstrap.py).    *)
(*                                                                         *)
(* Requests and tasks share one event loop and interleave only at an       *)
(* await, which is where a playbook runs.  A slot is a host and a role,    *)
(* the unique key of cluster_assignments; its unit is the remote workload. *)
(* Host readiness, zones, ports and revisions only refuse requests.        *)
(***************************************************************************)
EXTENDS Integers, Sequences, FiniteSets

CONSTANTS
  Slots,       \* (node_id, role) pairs
  Role,        \* Role[s]
  Rank,        \* Rank[s]: place in workload_change_sort_key
  Configs,     \* resource configurations
  ChangeSets,  \* staged change sets: sequences of [kind, slot, config]
  Direct,      \* (slot, configuration) pairs of the direct mutations
  MaxRuns,     \* bound on the runs of a behaviour
  MaxId        \* bound on assignment identifiers

None == "none"
Runs == 1..MaxRuns
Ids == 1..MaxId
Kinds == {"create", "resources", "detach"}
Commands == {"resource-update", "reconcile", "purge"}

ASSUME SlotAssumption ==
  /\ None \notin Configs
  /\ Rank \in [Slots -> Nat]
  /\ \A s, t \in Slots : Rank[s] = Rank[t] => s = t
  /\ Direct \subseteq Slots \X Configs
  /\ {MaxRuns, MaxId} \subseteq Nat

ASSUME ChangeAssumption ==
  \A cs \in ChangeSets :
    /\ cs \in Seq([kind : Kinds, slot : Slots, config : Configs])
    /\ cs # <<>>
    /\ \A i, j \in DOMAIN cs : cs[i].slot = cs[j].slot => i = j

VARIABLES
  row,    \* row[s]: the slot's row of cluster_assignments
  unit,   \* unit[s]: the configuration deployed on the host, or None
  run,    \* run[r]: runs.status, queued counted as running
  batch,  \* batch[r]: the row of workload_change_batches
  task    \* task[r]: the coroutine that works on run r, with its locals

vars == <<row, unit, run, batch, task>>

NoRow == [state |-> None, id |-> 0, config |-> None, claim |-> 0]
NoBatch == [plan |-> <<>>, done |-> {}, phase |-> None]
NoTask == [mode |-> None, pc |-> None, todo |-> {}, slot |-> None,
           id |-> 0, config |-> None, prev |-> None, boot |-> None, ok |-> TRUE]

-----------------------------------------------------------------------------
(* Rows.  id is an INTEGER PRIMARY KEY without AUTOINCREMENT: SQLite gives *)
(* a new row the largest identifier in use plus one, so that the           *)
(* identifier of a deleted row can come back.  The cluster is alone in the *)
(* table.                                                                  *)

Exists(s) == row[s].state # None
UsedIds == {row[s].id : s \in {t \in Slots : Exists(t)}}
TopId == IF UsedIds = {} THEN 0
         ELSE CHOOSE i \in UsedIds : \A j \in UsedIds : j <= i

(* The first master by identifier, of the rows in S. *)
FirstMaster(S) ==
  LET masters == {s \in S : Role[s] = "master"}
  IN  IF masters = {} THEN None
      ELSE CHOOSE s \in masters : \A t \in masters : row[s].id <= row[t].id

ActiveRows == {s \in Slots : row[s].state = "active"}

(* payload_assignments_in_connection: the active rows and the ones the     *)
(* batch of r creates.                                                     *)
PayloadRows(r) ==
  ActiveRows \cup
    {batch[r].plan[i].slot : i \in {j \in DOMAIN batch[r].plan : batch[r].plan[j].kind = "create"}}

(* The roles a workload needs among the rows S of a payload. *)
Deployable(s, S) ==
  LET roles == {Role[t] : t \in S}
  IN  /\ Role[s] # "master" => "master" \in roles
      /\ Role[s] = "fleet-server" => "kibana" \in roles
      /\ Role[s] = "elastic-agent" => "fleet-server" \in roles

Open(r) == run[r] \in {"running", "recovery_required"}
NextRun(r) == run[r] = None /\ \A q \in Runs : q < r => run[q] # None

(* No coroutine is between two transactions without an await in between. *)
Responsive == \A r \in Runs : task[r].pc \notin {"succeed", "fail"}

-----------------------------------------------------------------------------
(* Direct mutations: the guards of the route, its writes, and launch.      *)

(* The upsert does not look at operation_run_id. *)
AddAssignment(s, c) ==
  /\ Responsive
  /\ IF Exists(s)
     THEN row' = [row EXCEPT ![s].config = c, ![s].state = "active"]
     ELSE /\ TopId < MaxId
          /\ row' = [row EXCEPT ![s] =
                       [state |-> "active", id |-> TopId + 1, config |-> c, claim |-> 0]]
  /\ UNCHANGED <<unit, run, batch, task>>

(* launch: the run is created, and then a file is written that may fail,   *)
(* which leaves the run without a task.                                    *)
Launch(r, t) ==
  /\ NextRun(r)
  /\ run' = [run EXCEPT ![r] = "running"]
  /\ task' \in {[task EXCEPT ![r] = t], task}

Command(kind, s, c, prev) ==
  [NoTask EXCEPT !.mode = kind, !.pc = "sent", !.slot = s, !.id = row[s].id,
                 !.config = c, !.prev = prev]

(* The configuration is written before the playbook runs; the previous one *)
(* is kept in the context of the run.                                      *)
UpdateResources(r, s, c) ==
  /\ Responsive
  /\ Exists(s) /\ row[s].claim = 0
  /\ Deployable(s, ActiveRows)
  /\ row' = [row EXCEPT ![s].config = c]
  /\ Launch(r, Command("resource-update", s, c, row[s].config))
  /\ UNCHANGED <<unit, batch>>

ApplyAssignment(r, s) ==
  /\ Responsive
  /\ Exists(s) /\ row[s].claim = 0
  /\ Deployable(s, ActiveRows)
  /\ s # FirstMaster(ActiveRows)
  /\ Launch(r, Command("reconcile", s, row[s].config, None))
  /\ UNCHANGED <<row, unit, batch>>

(* Mutant: operation_run_id is not looked at. *)
RemovableClaimed(s) ==
  /\ Exists(s)
  /\ ~ /\ s = FirstMaster({t \in Slots : Exists(t)})
       /\ \E t \in Slots \ {s} : Exists(t)

(* The initial master is kept while the cluster has any other row. *)
Removable(s) ==
  /\ Exists(s) /\ row[s].claim = 0
  /\ ~ /\ s = FirstMaster({t \in Slots : Exists(t)})
       /\ \E t \in Slots \ {s} : Exists(t)

DetachAssignment(s) ==
  /\ Responsive
  /\ Removable(s)
  /\ row' = [row EXCEPT ![s] = NoRow]
  /\ UNCHANGED <<unit, run, batch, task>>

PurgeAssignment(r, s) ==
  /\ Responsive
  /\ Removable(s)
  /\ Launch(r, Command("purge", s, None, None))
  /\ UNCHANGED <<row, unit, batch>>

WithId(i, to) == [s \in Slots |-> IF Exists(s) /\ row[s].id = i THEN to[s] ELSE row[s]]

(* RunLifecycleService.finalize: rows are found by identifier alone. *)
CommandSucceeds(r) ==
  /\ Responsive
  /\ task[r].mode \in Commands /\ task[r].pc = "done"
  /\ row' = IF task[r].mode = "purge"
            THEN WithId(task[r].id, [s \in Slots |-> NoRow])
            ELSE row
  /\ run' = [run EXCEPT ![r] = "succeeded"]
  /\ task' = [task EXCEPT ![r] = NoTask]
  /\ UNCHANGED <<unit, batch>>

(* Mutant: every command that fails restores a configuration. *)
CommandFailsAny(r) ==
  /\ Responsive
  /\ task[r].mode \in Commands
  /\ row' = WithId(task[r].id, [s \in Slots |-> [row[s] EXCEPT !.config = task[r].prev]])
  /\ run' = [run EXCEPT ![r] = "failed"]
  /\ task' = [task EXCEPT ![r] = NoTask]
  /\ UNCHANGED <<unit, batch>>

CommandFails(r) ==
  /\ Responsive
  /\ task[r].mode \in Commands
  /\ row' = IF task[r].mode = "resource-update"
            THEN WithId(task[r].id, [s \in Slots |-> [row[s] EXCEPT !.config = task[r].prev]])
            ELSE row
  /\ run' = [run EXCEPT ![r] = "failed"]
  /\ task' = [task EXCEPT ![r] = NoTask]
  /\ UNCHANGED <<unit, batch>>

-----------------------------------------------------------------------------
(* Launch of a batch. *)

SlotsOf(cs, kind) == {cs[i].slot : i \in {j \in DOMAIN cs : cs[j].kind = kind}}

(* WorkloadChangeValidator.validate *)
Valid(cs) ==
  LET created == SlotsOf(cs, "create")
      detached == SlotsOf(cs, "detach")
      final == (ActiveRows \ detached) \cup created
      finalRoles == {Role[s] : s \in final}
      createdRoles == {Role[s] : s \in created}
  IN  /\ \A r \in Runs : ~Open(r)
      /\ \A s \in created : ~Exists(s)
      /\ \A s \in SlotsOf(cs, "resources") \cup detached :
            row[s].state = "active" /\ row[s].claim = 0
      /\ FirstMaster(ActiveRows) \in detached => final = {}
      /\ FirstMaster(ActiveRows) = None /\ "master" \in createdRoles
           => "hot" \in createdRoles
      /\ createdRoles \ {"master"} # {} => "master" \in finalRoles
      /\ "fleet-server" \in finalRoles => "kibana" \in finalRoles
      /\ "elastic-agent" \in finalRoles => "fleet-server" \in finalRoles

(* The created rows get their identifiers in the order of the changes. *)
StagedId(cs, i) ==
  IF cs[i].kind = "create"
  THEN TopId + Cardinality({j \in DOMAIN cs : j <= i /\ cs[j].kind = "create"})
  ELSE row[cs[i].slot].id

(* The planned items: identifier and, of a row that exists, the previous   *)
(* configuration.  before, the unit at the launch, is a history variable   *)
(* that only properties read.                                              *)
Planned(cs) ==
  [i \in DOMAIN cs |->
     [kind |-> cs[i].kind, slot |-> cs[i].slot, config |-> cs[i].config,
      id |-> StagedId(cs, i), prev |-> row[cs[i].slot].config,
      before |-> unit[cs[i].slot]]]

(* stage_batch_changes_in_connection: a created row is inserted as         *)
(* applying, every other row is claimed.                                   *)
Staged(cs, r) ==
  [s \in Slots |->
     IF \E i \in DOMAIN cs : cs[i].slot = s
     THEN LET i == CHOOSE j \in DOMAIN cs : cs[j].slot = s
          IN  IF cs[i].kind = "create"
              THEN [state |-> "applying", id |-> StagedId(cs, i),
                    config |-> cs[i].config, claim |-> r]
              ELSE [row[s] EXCEPT !.claim = r]
     ELSE row[s]]

LaunchBatch(r, cs) ==
  /\ Responsive
  /\ Valid(cs)
  /\ TopId + Cardinality(SlotsOf(cs, "create")) <= MaxId
  /\ row' = Staged(cs, r)
  /\ batch' = [batch EXCEPT ![r] = [plan |-> Planned(cs), done |-> {}, phase |-> "applying"]]
  /\ Launch(r, [NoTask EXCEPT !.mode = "apply", !.pc = "start"])
  /\ UNCHANGED unit

-----------------------------------------------------------------------------
(* The batch worker. *)

Changes(r) == {batch[r].plan[i] : i \in DOMAIN batch[r].plan}
Executable(r) == {c \in Changes(r) : c.kind # "detach"}

(* ordered_executable_changes: the initial master of a new cluster, its    *)
(* hot roles, further masters, the rest; otherwise by rank alone.          *)
Bootstrap(r) ==
  LET first == FirstMaster(PayloadRows(r))
  IN  IF /\ \E c \in Executable(r) : Role[c.slot] = "master"
         /\ \E c \in Changes(r) : c.kind = "create" /\ c.slot = first
      THEN first ELSE None

(* Mutant: the order of workload_change_sort_key alone. *)
ClassByRank(c, boot) == 0

Class(c, boot) ==
  CASE boot \in {None, c.slot} -> 0
    [] boot \notin {None, c.slot} /\ c.kind = "create" /\ Role[c.slot] = "hot" -> 1
    [] boot \notin {None, c.slot} /\ Role[c.slot] = "master" -> 2
    [] OTHER -> 3

Precedes(c, d, boot) ==
  \/ Class(c, boot) < Class(d, boot)
  \/ Class(c, boot) = Class(d, boot) /\ Rank[c.slot] < Rank[d.slot]

Position(r, c) == CHOOSE i \in DOMAIN batch[r].plan : batch[r].plan[i] = c

(* run undoes in the reverse of its own order, recover in the reverse of   *)
(* the order of the plan.                                                  *)
IsNext(r, c) ==
  \A d \in task[r].todo \ {c} :
    CASE task[r].mode = "apply" -> Precedes(c, d, task[r].boot)
      [] task[r].mode = "undo" -> Precedes(d, c, task[r].boot)
      [] OTHER -> Position(r, d) < Position(r, c)

(* workload_payload: of a change that has a previous configuration that    *)
(* one is deployed, going forward as well as going back.                   *)
PayloadConfig(c) == IF c.kind = "resources" THEN c.prev ELSE row[c.slot].config

Send(t, c, config) ==
  [t EXCEPT !.pc = "sent", !.slot = c.slot, !.id = c.id, !.config = config]

StartBatch(r) ==
  /\ Responsive
  /\ task[r].mode = "apply" /\ task[r].pc = "start"
  /\ task' = [task EXCEPT ![r].pc = IF Executable(r) = {} THEN "commit" ELSE "next",
                           ![r].todo = Executable(r),
                           ![r].boot = Bootstrap(r)]
  /\ UNCHANGED <<row, unit, run, batch>>

(* The order cannot be determined: the payload of the first master raises. *)
StartRaises(r) ==
  /\ Responsive
  /\ task[r].mode = "apply" /\ task[r].pc = "start"
  /\ \E c \in Executable(r) : Role[c.slot] = "master"
  /\ batch' = [batch EXCEPT ![r].phase = "rolling_back"]
  /\ run' = [run EXCEPT ![r] = "recovery_required"]
  /\ task' = [task EXCEPT ![r] = NoTask]
  /\ UNCHANGED <<row, unit>>

(* The change is recorded as completed before its playbook starts. *)
ApplyNext(r, c) ==
  /\ Responsive
  /\ task[r].mode = "apply" /\ task[r].pc = "next"
  /\ c \in task[r].todo /\ IsNext(r, c)
  /\ Deployable(c.slot, PayloadRows(r))
  /\ batch' = [batch EXCEPT ![r].done = @ \cup {c.slot}]
  /\ task' = [task EXCEPT ![r] = Send(task[r], c, PayloadConfig(c))]
  /\ UNCHANGED <<row, unit, run>>

(* The payload of the next change cannot be built or written: the run is   *)
(* left to recovery and no rollback is tried.                              *)
BatchRaises(r, c) ==
  /\ Responsive
  /\ task[r].mode = "apply" /\ task[r].pc = "next"
  /\ c \in task[r].todo /\ IsNext(r, c)
  /\ batch' = [batch EXCEPT ![r].done = @ \cup {c.slot}, ![r].phase = "rolling_back"]
  /\ run' = [run EXCEPT ![r] = "recovery_required"]
  /\ task' = [task EXCEPT ![r] = NoTask]
  /\ UNCHANGED <<row, unit>>

(* role-reconcile.yml takes effect on the host. *)
Remote(r) ==
  /\ task[r].pc = "sent"
  /\ unit' = [unit EXCEPT ![task[r].slot] = task[r].config]
  /\ task' = [task EXCEPT ![r].pc = "done"]
  /\ UNCHANGED <<row, run, batch>>

Rest(r) == {c \in task[r].todo : c.slot # task[r].slot}

(* Mutant: the result of the playbook is not looked at. *)
AppliedUnchecked(r) ==
  /\ Responsive
  /\ task[r].mode = "apply" /\ task[r].pc \in {"sent", "done"}
  /\ task' = [task EXCEPT ![r].pc = IF Rest(r) = {} THEN "commit" ELSE "next",
                           ![r].todo = Rest(r)]
  /\ UNCHANGED <<row, unit, run, batch>>

Applied(r) ==
  /\ Responsive
  /\ task[r].mode = "apply" /\ task[r].pc = "done"
  /\ task' = [task EXCEPT ![r].pc = IF Rest(r) = {} THEN "commit" ELSE "next",
                           ![r].todo = Rest(r)]
  /\ UNCHANGED <<row, unit, run, batch>>

(* The playbook fails before or after it has taken effect. *)
ApplyFailed(r) ==
  /\ Responsive
  /\ task[r].mode = "apply" /\ task[r].pc \in {"sent", "done"}
  /\ batch' = [batch EXCEPT ![r].phase = "rolling_back"]
  /\ task' = [task EXCEPT ![r].mode = "undo", ![r].pc = "next",
                           ![r].todo = {c \in Changes(r) : c.slot \in batch[r].done}]
  /\ UNCHANGED <<row, unit, run>>

(* finalize_batch_in_connection *)
Finalized(r) ==
  [s \in Slots |->
     IF row[s].claim = r /\ \E c \in Changes(r) : c.slot = s /\ c.id = row[s].id
     THEN LET c == CHOOSE d \in Changes(r) : d.slot = s
          IN  CASE c.kind = "create" -> [row[s] EXCEPT !.state = "active", !.claim = 0]
                [] c.kind = "resources" -> [row[s] EXCEPT !.config = c.config, !.claim = 0]
                [] OTHER -> NoRow
     ELSE row[s]]

CommitBatch(r) ==
  /\ Responsive
  /\ task[r].pc = "commit"
  /\ row' = Finalized(r)
  /\ batch' = [batch EXCEPT ![r] = NoBatch]
  /\ task' = [task EXCEPT ![r].pc = "succeed"]
  /\ UNCHANGED <<unit, run>>

SucceedBatch(r) ==
  /\ task[r].pc = "succeed"
  /\ run' = [run EXCEPT ![r] = "succeeded"]
  /\ task' = [task EXCEPT ![r] = NoTask]
  /\ UNCHANGED <<row, unit, batch>>

-----------------------------------------------------------------------------
(* Rollback, by the worker itself (undo) or after a restart (recover). *)

UndoNext(r, c) ==
  /\ Responsive
  /\ task[r].mode \in {"undo", "recover"} /\ task[r].pc = "next"
  /\ c \in task[r].todo /\ IsNext(r, c)
  /\ c.kind = "resources" => Deployable(c.slot, PayloadRows(r))
  /\ task' = [task EXCEPT ![r] =
                Send(task[r], c, IF c.kind = "create" THEN None ELSE PayloadConfig(c))]
  /\ UNCHANGED <<row, unit, run, batch>>

Undone(r) ==
  /\ Responsive
  /\ task[r].mode \in {"undo", "recover"} /\ task[r].pc = "done"
  /\ task' = [task EXCEPT ![r].pc = "next", ![r].todo = Rest(r)]
  /\ UNCHANGED <<row, unit, run, batch>>

(* Mutant: a step back that fails is forgotten. *)
UndoFailedForgotten(r) ==
  /\ Responsive
  /\ task[r].mode \in {"undo", "recover"} /\ task[r].pc \in {"sent", "done"}
  /\ task' = [task EXCEPT ![r].pc = "next", ![r].todo = Rest(r)]
  /\ UNCHANGED <<row, unit, run, batch>>

(* A step back that fails is remembered, and the others are still taken. *)
UndoFailed(r) ==
  /\ Responsive
  /\ task[r].mode \in {"undo", "recover"} /\ task[r].pc \in {"sent", "done"}
  /\ task' = [task EXCEPT ![r].pc = "next", ![r].todo = Rest(r), ![r].ok = FALSE]
  /\ UNCHANGED <<row, unit, run, batch>>

UndoRaises(r, c) ==
  /\ Responsive
  /\ task[r].mode \in {"undo", "recover"} /\ task[r].pc = "next"
  /\ c \in task[r].todo /\ IsNext(r, c)
  /\ task' = [task EXCEPT ![r].todo = @ \ {c}, ![r].ok = FALSE]
  /\ UNCHANGED <<row, unit, run, batch>>

(* A recovery that cannot write its inventory ends before it has begun. *)
RecoverRaises(r) ==
  /\ Responsive
  /\ task[r].mode = "recover" /\ task[r].pc = "next"
  /\ task[r].todo = {c \in Changes(r) : c.slot \in batch[r].done}
  /\ task' = [task EXCEPT ![r] = NoTask]
  /\ UNCHANGED <<row, unit, run, batch>>

(* release_batch_in_connection *)
Released(r) ==
  [s \in Slots |->
     IF row[s].claim = r /\ \E c \in Changes(r) : c.slot = s /\ c.id = row[s].id
     THEN IF \E c \in Changes(r) : c.slot = s /\ c.kind = "create"
          THEN NoRow
          ELSE [row[s] EXCEPT !.claim = 0]
     ELSE row[s]]

(* The worker releases in one transaction and closes its run in the next,  *)
(* the recovery does both in one.                                          *)
ReleaseBatch(r) ==
  /\ Responsive
  /\ task[r].mode \in {"undo", "recover"} /\ task[r].pc = "next"
  /\ task[r].todo = {} /\ task[r].ok
  /\ row' = Released(r)
  /\ batch' = [batch EXCEPT ![r] = NoBatch]
  /\ IF task[r].mode = "undo"
     THEN task' = [task EXCEPT ![r].pc = "fail"] /\ UNCHANGED run
     ELSE task' = [task EXCEPT ![r] = NoTask] /\ run' = [run EXCEPT ![r] = "failed"]
  /\ UNCHANGED unit

FailBatch(r) ==
  /\ task[r].pc = "fail"
  /\ run' = [run EXCEPT ![r] = "failed"]
  /\ task' = [task EXCEPT ![r] = NoTask]
  /\ UNCHANGED <<row, unit, batch>>

(* Mutant: the run of an incomplete rollback is left as it is. *)
KeepBatchOpen(r) ==
  /\ Responsive
  /\ task[r].mode \in {"undo", "recover"} /\ task[r].pc = "next"
  /\ task[r].todo = {} /\ ~task[r].ok
  /\ task' = [task EXCEPT ![r] = NoTask]
  /\ UNCHANGED <<row, unit, run, batch>>

(* An incomplete rollback waits for the next start of the controller. *)
KeepBatch(r) ==
  /\ Responsive
  /\ task[r].mode \in {"undo", "recover"} /\ task[r].pc = "next"
  /\ task[r].todo = {} /\ ~task[r].ok
  /\ run' = [run EXCEPT ![r] = "recovery_required"]
  /\ task' = [task EXCEPT ![r] = NoTask]
  /\ UNCHANGED <<row, unit, batch>>

(* The controller stops anywhere and starts again: runs of a batch need    *)
(* recovery, other open runs failed, and recover_all takes every batch     *)
(* that needs it.  The changes to undo are the recorded ones.              *)
Restart ==
  /\ run' = [r \in Runs |->
               CASE run[r] = "running" /\ batch[r] # NoBatch -> "recovery_required"
                 [] run[r] = "running" /\ batch[r] = NoBatch -> "failed"
                 [] OTHER -> run[r]]
  /\ batch' = [r \in Runs |->
                 IF run[r] = "running" /\ batch[r] # NoBatch
                 THEN [batch[r] EXCEPT !.phase = "rolling_back"] ELSE batch[r]]
  /\ task' = [r \in Runs |->
                IF batch[r] # NoBatch /\ Open(r)
                THEN [NoTask EXCEPT !.mode = "recover", !.pc = "next",
                        !.todo = {c \in Changes(r) : c.slot \in batch[r].done}]
                ELSE NoTask]
  /\ UNCHANGED <<row, unit>>

-----------------------------------------------------------------------------
Init ==
  /\ row = [s \in Slots |-> NoRow]
  /\ unit = [s \in Slots |-> None]
  /\ run = [r \in Runs |-> None]
  /\ batch = [r \in Runs |-> NoBatch]
  /\ task = [r \in Runs |-> NoTask]

Request ==
  \/ \E d \in Direct : AddAssignment(d[1], d[2])
  \/ \E r \in Runs, d \in Direct :
       \/ UpdateResources(r, d[1], d[2])
       \/ ApplyAssignment(r, d[1])
       \/ PurgeAssignment(r, d[1])
  \/ \E d \in Direct : DetachAssignment(d[1])
  \/ \E r \in Runs, cs \in ChangeSets : LaunchBatch(r, cs)

CommandEnds(r) == CommandSucceeds(r) \/ CommandFails(r)

Work(r) ==
  \/ StartBatch(r) \/ StartRaises(r) \/ Applied(r) \/ ApplyFailed(r) \/ CommitBatch(r) \/ SucceedBatch(r)
  \/ Undone(r) \/ UndoFailed(r) \/ RecoverRaises(r)
  \/ ReleaseBatch(r) \/ FailBatch(r) \/ KeepBatch(r)
  \/ \E c \in task[r].todo :
       ApplyNext(r, c) \/ BatchRaises(r, c) \/ UndoNext(r, c) \/ UndoRaises(r, c)

Next ==
  \/ Request
  \/ \E r \in Runs : Remote(r) \/ CommandEnds(r) \/ Work(r)
  \/ Restart

Spec == Init /\ [][Next]_vars

(* A playbook ends and a scheduled coroutine goes on. *)
FairSpec == Spec /\ \A r \in Runs : WF_vars(Remote(r) \/ CommandEnds(r) \/ Work(r))

-----------------------------------------------------------------------------
(* Types of the rows, units, runs, batches and tasks. *)
TypeOK ==
  /\ row \in [Slots -> {NoRow} \cup [state : {"active", "applying"}, id : Ids,
                                     config : Configs, claim : {0} \cup Runs]]
  /\ unit \in [Slots -> Configs \cup {None}]
  /\ run \in [Runs -> {None, "running", "recovery_required", "succeeded", "failed"}]
  /\ DOMAIN batch = Runs /\ DOMAIN task = Runs
  /\ \A r \in Runs :
       /\ batch[r].phase \in {None, "applying", "rolling_back"}
       /\ batch[r].done \subseteq {c.slot : c \in Executable(r)}
       /\ task[r].mode \in Commands \cup {None, "apply", "undo", "recover"}
       /\ task[r].todo \subseteq Changes(r)

(* Claims and batches account for each other: a batch row belongs to an    *)
(* open run that has claimed exactly the rows of its plan, by identifier,  *)
(* and no row is claimed by anything else.  A claim without a batch would  *)
(* block its workload for good, a batch without its claims would let a     *)
(* direct mutation into it.                                                *)
ClaimsAccounted ==
  /\ \A r \in Runs : batch[r] # NoBatch =>
       /\ Open(r)
       /\ \A c \in Changes(r) : row[c.slot].claim = r /\ row[c.slot].id = c.id
  /\ \A s \in Slots : row[s].claim # 0 =>
       \E c \in Changes(row[s].claim) : c.slot = s

(* The batch of r is over, committed or rolled back. *)
Commits(r) == batch[r] # NoBatch /\ batch'[r] = NoBatch /\ task'[r].pc = "succeed"
RollsBack(r) == batch[r] # NoBatch /\ batch'[r] = NoBatch /\ task'[r].pc # "succeed"

(* A batch that is rolled back, by its worker or after any number of       *)
(* restarts, leaves no row and no unit of the workloads it created, and    *)
(* the unit of a changed one runs its previous configuration; a unit the   *)
(* batch never reached is as it was at the launch.                         *)
RollbackComplete ==
  [][\A r \in Runs : RollsBack(r) => \A c \in Changes(r) :
       /\ c.kind = "create" => ~Exists(c.slot)' /\ unit'[c.slot] \in {None, c.before}
       /\ c.kind = "resources" => unit'[c.slot] \in {c.prev, c.before}
       /\ c.kind = "detach" => unit'[c.slot] = c.before]_vars

(* A batch that commits has deployed every workload it created, whose row  *)
(* is free and active from then on.                                        *)
CommitComplete ==
  [][\A r \in Runs : Commits(r) => \A c \in Changes(r) : c.kind = "create" =>
       unit'[c.slot] # None /\ row'[c.slot].state = "active" /\ row'[c.slot].claim = 0]_vars

(* While a new cluster is being built, nothing is started before its       *)
(* initial master and no further master before its hot roles.              *)
BootstrapOrder ==
  \A r \in Runs : task[r].mode = "apply" /\ task[r].boot # None =>
    \A s \in batch[r].done \ {task[r].boot} :
      /\ unit[task[r].boot] # None
      /\ Role[s] = "master" =>
           \A c \in Changes(r) : c.kind = "create" /\ Role[c.slot] = "hot" => unit[c.slot] # None

(* A batch whose worker was scheduled ends, or is left to recovery. *)
BatchSettles ==
  \A r \in Runs : (task[r].mode = "apply") ~> (run[r] # "running")

(* A batch that commits has deployed the configuration that it writes. *)
AppliedAsRequested ==
  [][\A r \in Runs : Commits(r) => \A c \in Changes(r) : c.kind = "resources" =>
       unit'[c.slot] = row'[c.slot].config]_vars

(* In every state between two steps of a batch, direct mutations and       *)
(* restarts, claims and batches account for each other and a new cluster   *)
(* has been started in order.                                              *)
BatchInvariant ==
  /\ TypeOK
  /\ ClaimsAccounted
  /\ BootstrapOrder

(* A batch is all or nothing: what it leaves behind when it ends, by its   *)
(* worker or by the recovery after a restart.                              *)
BatchOutcome ==
  /\ RollbackComplete
  /\ CommitComplete
=============================================================================
