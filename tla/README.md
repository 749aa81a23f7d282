# ELKeeper: a TLA+ verification of the control plane

ELKeeper is a controller for self-managed Elastic Stack hosts: a FastAPI
application with one SQLite database (`app/`), a React console (`frontend/`) and
Ansible playbooks it drives over SSH (`ansible/`). Most of its code, and most of
the code in which an error costs data, deals with *maintenance*: taking a host
or a workload out of service, rebooting it and bringing it back, without losing
track of what was stopped, locked or restricted. This project models
maintenance from the planner to the script that runs on the host, the changes of
the workloads and of their clusters, and the controller's own services: its SSH
identity, the certificate inventory and the telemetry the planner reads.

All paths below are relative to `app/modules/` unless they say otherwise.

## 1. Inventory

### 1.1 Components

| Component | State it keeps | Operations | Hard behaviour | What makes it correct |
|---|---|---|---|---|
| Lifecycle tables (`maintenance/lifecycle.py`) | none | transition tables of plans, hosts, assignments, steps, enforced in Python and by triggers | - | the rows never leave the tables |
| Execution coordinator (`maintenance/execution.py`, `store.py`, `api.py`) | plans, locks, journal, attached runs | create plan; prepare / adapter / finalize / fail of execute, pause, resume, cancel, recover | two requests of one plan, late results, lock expiry, restart in between | overlapping plans exclude each other; locks live exactly as long as their plan; a late answer never moves a finished plan |
| Manual mode (`manual.py`) | host row, plan, run, lock | enter, exit, refused exit | races with planned windows; stale observation | host row, plan, lock and run agree |
| Startup and expiry recovery (`recovery.py`, `store.py`, `platform/bootstrap.py`) | none of its own | classify, reconcile, expire | runs at startup and from every plan query | protective: never gives up a lock or an artifact |
| Safety predicates and planning (`safety.py`, `planning.py`, `observation.py`, `service.py`, `models.py`, `provider.py`) | policies and stored previews | observe, impact, predicates, compile, preview, validate at execution | telemetry ages while everything moves; defaults and overrides; idempotent answers | an accepted plan keeps quorum, budgets and shard copies, and rests on evidence that was observed |
| Host workflow (`host_maintenance.py`, `host_actions.py`, `workflow_http.py`, `host_reboot.py`) | host and assignment rows, workload claims, guards, journal | prepare, stop, reboot, return, handoff | commits before every remote call, loses everything after a failed one; concurrent stage requests; manual exit meanwhile | what is stopped or restricted is recorded; a host is told to reboot only over stopped workloads, although its rows say `maintenance` before and after |
| Allocation guards (`allocation_guards.py`, `elasticsearch.py`) | guard rows, the cluster setting | capture, activate (with cleanup), restore | several clusters, each failing on its own; another plan's restriction | the captured value is the operator's; nothing stays restricted unrecorded |
| Reboot orchestrator (`reboot.py`) | append-only journal, boot ids | run, with resume from the journal | lost answers, ambiguous invocation, crash anywhere; a caller that rolls the journal back | at most one reboot; a return is a new boot |
| Host executor, post-return verification (`runtime.py`, `executor.py`, `post_return.py`, `controller_io.py`, the resume script of `ansible/templates`) | files and a systemd instance on the host | stage, run, discover, verify, clean up | power loss at any step of the script, answers lost, cleanup repeated | locks are released over a clean host only; evidence is neither invented nor removed early |
| Container workflow (`container_maintenance.py`, `container_actions.py`) | as the host workflow, per assignment | prepare, stop, return | as the host workflow; a batch that claims the same assignment | as the host workflow; batch or window, never both |
| Workload changes (`workloads/`, command runs in `platform/`) | assignment rows, claims, batches, runs | launch, apply, commit, roll back, recover a batch; add, update, apply, detach, purge directly | direct mutations during a batch; playbooks failing half way; restart anywhere; identifiers that come back | claims and batches account for each other; a rolled back batch leaves nothing; a committed one is deployed |
| Cluster zoning (`clusters/zoning.py`, `policy.py`, `membership.py`) | desired zoning, memberships, host zones, claims, the applied record | store, apply, change a host's zone, roll back | a run re-reads what others edit; a host in two clusters; the collector writes the same record | a failed run puts back what it found; the record says what runs |
| Versions (`versions/`), upgrade planning (`maintenance/upgrade_planning.py`) | observations, caches, runs, upgrade plans | probe, list, discover, download, companions, plan an upgrade | the registry is awaited between two looks at the database | a stored plan pins what the cluster was when it was stored |
| Controller identity (`controller_identity/`), hosts and enrollment (`hosts/`) | keys, key files, node rows | stage and activate a key; create, enroll, edit, revoke, delete a host | Ansible runs end long after they were launched; row ids come back | the key that becomes active opens every enabled host, unless it was revoked for another row of the machine |
| Certificates (`certificates/`) | assets, generations, domains, policies, consumers, previews | adopt, refresh, edit policy, declare consumers, preview, execute | a refresh awaits many files while they change; two editors | evidence is what the file was during the refresh; a saved form overwrites nothing unseen |
| Telemetry collector (`observability/`) | states in memory, tunnels, stored reports, the CA cache, the monitoring key | a slow and a fast host loop, a cluster loop | loops that await hosts and clusters while rows are edited, deleted and created again | the loops do not undo each other; what is shown is what is stored, or newer when the store failed; an operator's pin is never replaced; a redeployed cluster is found again |
| Cluster records (`clusters/service.py`) | the cluster row with provider and credentials | create, edit, delete | the collector writes the same row | passwords and pins survive |
| Runs (`platform/runs.py`, `command_runs.py`) | runs, events, logs | create, append, stream, close, interrupt | late finalizers | a run that was launched ends |
| Platform database (`platform/db.py`, migrations, auth, audit) | the database | connect, migrate, sessions | commit only on normal exit | a failed request leaves no half |
| Transports, status, orchestration, secrets, application assembly, frontend, playbooks | see `PROJECT.json` | | | |

`PROJECT.json` lists every component with its files and its status, and under
`hazards` every place where this code is hard to test, with the properties that
would notice.

### 1.2 How they interact

*One event loop.* Routes are async handlers. Two requests interleave only at an
`await`, and every `with control_db()` block of the coordinator contains none:
each block is one atomic transaction, which commits on normal exit and rolls
back on an exception.

*Three kinds of holder.* A route of the coordinator opens one block for
`prepare`, awaits an adapter with no transaction open, and opens a second block
for `finalize` or `fail`. A stage request of the host or container workflow
keeps one connection for its whole life and commits explicitly before every
remote call (`_durable_boundary`). The reboot orchestrator never commits; the
connection of its caller decides what its journal is worth.

*Runs are tasks.* Zoning, versions, enrollment and workload changes launch a
coroutine that awaits playbooks and writes when they end. What it wrote down at
its launch may be stale by then, and a restart loses it.

*Shared rows.* Plans, locks, host rows, assignment rows and claims are shared by
the coordinator, manual mode, the reconcilers and the workflows;
`cluster_assignments.operation_run_id` is the claim of batches, windows and
zone changes alike. A manual exit looks at the host row only, and so reaches
into planned windows. The collector writes the zoning record, the version
observations, the host reports and the cluster row beside their owners.

*Row ids come back.* `nodes.id`, `clusters.id` and assignment ids are SQLite row
numbers without `AUTOINCREMENT`: the id of a deleted last row goes to the next
one. Everything that holds an id over an await may find another row under it.
`HostTelemetry`, `ClusterTelemetry`, `ControllerIdentity`, `CertificateLifecycle`,
`StackVersions` and `WorkloadChanges` all give ids again.

*Only names are unique.* Two node rows may have one address, and so be one
machine.

*Release gates.* The execution capabilities are switched off in the released
defaults and `MAINTENANCE_ADAPTERS` is empty. The models assume them switched
on and an adapter injected, as the repository's tests do. The legacy action
routes accept operation kind `reboot`; the service's `recover` action has no
route yet.

## 2. Modules

| Module | Models |
|---|---|
| `MaintenanceLifecycle` | the tables, as sets of pairs, and run statuses |
| `MaintenanceExecution` | coordinator, lock manager, manual mode, startup and expiry recovery |
| `MaintenanceWindows` | abstract: what the coordinator promises of its windows |
| `MaintenanceExecutionProofs` | theorems of `MaintenanceExecution`, and its refinement of `MaintenanceWindows` |
| `MaintenancePlanning`, `MaintenancePlanningProofs` | observation, impact, predicates, previews and their validation |
| `HostMaintenance`, `HostMaintenanceProofs` | the host workflow with guards, claims, manual exit and recovery |
| `RebootOrchestrator`, `RebootOrchestratorProofs` | one host's reboot, its journal and guards |
| `HostExecutor`, `HostExecutorProofs` | the script a reboot leaves on the host, discovery, verification, cleanup |
| `ContainerMaintenance` | the planned interruption of one workload |
| `WorkloadChanges`, `WorkloadChangesProofs` | workload batches, direct mutations, command runs and their recovery |
| `ClusterZoning` | zones of hosts and allocation awareness of clusters |
| `StackVersions` | observed versions, registry, downloads, companions, upgrade plans |
| `ClusterOperationsProofs` | theorems of `ContainerMaintenance`, `ClusterZoning` and `StackVersions` |
| `ControllerIdentity` | SSH keys of the controller, host records, enrollment runs |
| `CertificateLifecycle` | certificate inventory, policy, refresh, previews |
| `HostTelemetry` | the two host loops of the collector, tunnels, stored reports |
| `ClusterTelemetry` | the cluster loop beside the cluster record |
| `ControllerServicesProofs` | theorems of `ControllerIdentity`, `CertificateLifecycle`, `HostTelemetry` and `ClusterTelemetry` |
| `MC*` | the instances TLC checks |

A module `XProofs` holds the theorems of `X`; `ClusterOperationsProofs` and
`ControllerServicesProofs` those of the modules that `MCClusterOperations` and
`MCControllerServices` hold together (section 4).

`MaintenanceExecution`, `HostMaintenance` and `RebootOrchestrator` are three
views at three grains. The first sees a whole stage as an adapter call between
`prepare` and `finalize`. The second opens the stage up to single remote calls
and reduces a plan's lock rows to `none`, `live`, `stale`. The third opens the
one step `Reboot` of the second, and `HostExecutor` what goes on at the host
after it.

`MCClusterOperations` and `MCControllerServices` hold several modules in one
instance. Their state is disjoint, so a behaviour picks one `focus` at its
start and follows it; what the modules share with each other in the code (the
claim column, the exclusion of operations) each of them has for itself.

### 2.1 MaintenanceExecution and MaintenanceWindows

| Variable | Code |
|---|---|
| `plan`, `created` | `maintenance_plans.lifecycle_state`, creation time |
| `run` | status of the attached run |
| `lock` | the active row of each scope in `maintenance_locks` |
| `checkpoint` | class of the plan's latest journal key |
| `ticket` | requests between `prepare` and `finalize` |
| `host` | `host_maintenance_state` |
| `now` | the clock |

Actions are the transactions: `CreatePlan`, `Prepare(t, p, a)` for the five
actions, `AdapterCheckpoint` (the adapter journals while nobody holds a
transaction), `Finalize`, `Fail`, `Reconcile`, `ExpireDue`, `ManualEnter`,
`ManualExit`, `ManualRecovery`, `Restart` (crash and bootstrap) and `Tick`. A
refused request changes nothing and is a disabled action. What an adapter
answers is a choice among what `_result_state` accepts. Revision drift only
refuses requests, so it is not modelled here (it is in `MaintenancePlanning`).

`MaintenanceWindows` says the same without rows, tokens, clocks or requests: a
window opens when its plan gets everything it needs in one step, holds all of
it while it is open, and gives it back in one step; nobody holds what another
holds. `ImplementsWindows` in `MCMaintenanceExecution` is the refinement: a
window is open while the plan is in `InFlightStates`, over when it is terminal;
`holding` are the scopes whose row the plan owns. `Needs` are the requested
scopes, `Extra` those a recovery may add, and `Finishable` the plans a restart
may classify complete, whose locks stay behind (3.2).

### 2.2 MaintenancePlanning

`node`, `load` and `cluster` are the collector's last findings, each with its
time; `policy` the stored policies with revisions; `busy` what
`observe_conflicts` reports; `plan` the row of the one idempotency key all
requests share, which is where sharing can go wrong. A preview is one
transaction. The evaluation is a chain of operators in the code's order:
`Collected` (one observation per anchor host, merged), `Impact` (ready before
and after, per role and cluster), `Blocked` (the predicates that fail),
`HostPreview` and `GenericPreview` (the two routes), `Executable` (what
`execution.py` validates again). What the API's input models refuse is an
assumption on `Requests`: a reboot names its host and nothing else. A request
whose scope comes to no host at all is refused before a row is written
(`Anchors(r) # {}`). The properties are stated against independent
definitions (`Up`, `Stays`, `Going`) over the real state, not over the
observation.

### 2.3 HostMaintenance

A step is one remote call with its answer and the writes up to the next commit.
`req[t]` is the stage request: where it waits, for which workload or cluster,
what is left, and the host row it expects at its end. Every remote step has two
halves: the answer that lets the stage go on, and the failure after which
`Abort` throws away everything since the last boundary while the remote effect
may have happened. `WriteLocked` is SQLite's single writer: from its first
journal write a reboot request keeps a write transaction open through all its
remote calls, and no other request can commit. The companion reconciler is an
injected port, which accepts or refuses.

A reboot is followed down to the host as far as the workflow can see it.
`boot[p]` is what lies there of the plan's reboot: nothing, a staged executor, an
invocation that got through, a boot. `StageExecutor`, `InvokeReboot` and `Reboot`
are the three remote calls of the request; `HostBoots` is the host going down at
any time after the invocation, also when the request was given up, and
`UnitComesUp` is systemd starting a Quadlet (`WantedBy=multi-user.target`), in
any order and whatever the rows say. A verified return (`ReturnComplete`) has
found every unit of the host active, while the rows stay in `maintenance` until
the return request. `booted` is the committed row of a verified return: without
it a second request passes the row predicates, over units that run. What keeps
it from the host is `Stageable`: the first request left its manifest there, the
row that would have repeated it was rolled back, and the stage playbook refuses
any other. `RebootPlans` are the plans whose reboot may be asked for.

### 2.4 RebootOrchestrator

`db` is what the running connection sees, `disk` what is committed. `durable`
says whether the caller keeps what a run wrote. It never changes, and a
behaviour begins with either value: TRUE for a connection that commits, as in
the orchestrator's tests, with guards for every cluster; FALSE for the host
workflow of `main.py`, in which a result other than a verified return raises and
the transaction is dropped, and which asks for no guards because it owns them
itself (`Guarded`). `manifest` is what the stage playbook left on the host. With
a kept journal a retry repeats the manifest of its request; without, the row of
the request is gone and the retry signs a new one (`foreign`), which the playbook
refuses before anything is invoked. `Reopens` admits the end of a `recover`
request, whose default result is `executing`; `reopened` remembers it, because
the guards of a reopened plan are believed active from the journal although they
were restored. Boot ids are counted: `boot` is how often the host has booted,
`pre` and `seen` are the ids that were signed and read.

### 2.5 HostExecutor

Script and controller share a directory of four files and one systemd instance.
`exec` is the script at its line, `verify` the controller's verification with
its locals, `held` what the maintenance still holds. `PowerLoss` may come at
every step and stops the script wherever it is; `Boot` starts the instance again
when it is enabled. Every await of the controller is a step, and its answer may
be lost. Signatures and digests are reduced to whether they hold, unit states to
whether they are the expected ones.

### 2.6 ContainerMaintenance

As `HostMaintenance`, for one workload per window: claim, guard (`fence`), stop,
start, companions, restoration, release. `MainWiring` chooses the companion
reconciler: TRUE is the one `main.py` passes, which refuses while any operation
of the cluster is active, the window's own run included; FALSE is any reconciler
that accepts, as the tests inject. Batches are present as claims on the same
column.

### 2.7 WorkloadChanges

| Variable | Code |
|---|---|
| `row` | `cluster_assignments` of one cluster, by (host, role): state, identifier, configuration, `operation_run_id` |
| `unit` | what is deployed on the host |
| `run` | `runs.status` |
| `batch` | `workload_change_batches`: plan, recorded progress, phase |
| `task` | the coroutine of a run and its locals; lost by a restart |

A task waits for one playbook at a time (`sent`). `Remote` is its effect on the
host (`done`), after which the answer is taken as success or failure; a failure
may also come without the effect, and a restart may come before or after it.
`Work(r)` are the steps of `WorkloadChangeWorker.run`, `rollback` and `recover`;
`Request` are the routes, which check and launch without an await. Where the
code closes a run in a second transaction without an await (`succeed`, `fail`)
only a restart can come between, which is what `Responsive` says. `before` in a
planned item is a history value for the properties. Not in the model: revisions,
readiness, ports and zones, which only refuse requests; the Filebeat run that
follows a success; the recovery observer, which the application does not pass.

### 2.8 ClusterZoning and StackVersions

`ClusterZoning`: `zoning` is the desired zoning of each cluster, `runtime` the
zone a workload really runs with, `record` what the collector and a successful
apply have written, `zoneRuns` the tasks. An apply goes through its workloads in
the code's order (`FirstOf` what is left), then writes the cluster settings; a
failure turns the task round and reconciles what it had reached with the previous
zones, from the last to the first. `shaken` is a history variable: clusters whose
zoning was stored again, or which a host joined, while a zone change of one of
their hosts was under way, and clusters restarted under a run.

`StackVersions`: `deployed` is the truth, `seen` what probes and the collector
recorded of it; `registry`, `tagCache` and `digestCache` the outside and what
the controller remembers of it. A route that awaits the registry is an
`inquiry` between its two halves. An upgrade plan pins digests and the rows it
was computed from. Batches look for any operation of the cluster; the direct
routes (`LaunchDirect`, `Detach`, `AddAssignment`) look at the claim of their row
only, and so take rows away from under a probe. `cut` and `mistaken` are history:
the ids a run had yet to report on when their rows were deleted, and ids given
again whose last observation is of the workload before.

### 2.9 ControllerIdentity and CertificateLifecycle

`ControllerIdentity`: `sshKeys` and `keyFiles` are the two places a key lives,
`authorized` the truth on the machines, `idRuns` the launched runs with the row
id and key they noted. Several rows may be of one machine. `disturbed` is a
history variable: rows that an operator pointed elsewhere or deleted under a run,
and rows of a machine from which the key was being revoked for any of its rows
(`RowsOf`), for which the code promises nothing.

`CertificateLifecycle`: `disk` are the files, `asset` the rows, `refresh` the
pass with its cache of files read and what is left. Policies carry the revision
that an editor's form was filled from. A cluster without assignments may be
deleted and created again, under the same id and with it the same policy and
asset ids; `outdated` forms and `orphan` refreshes are those that were open when
it was deleted. An `orphan` refresh goes on over the rows of the next cluster,
and ends at the first asset that has none (`Gone`, `Noted`). The judgement of a certificate (chain,
names, usage, validity) is an operator per check; parsing is the library's.

### 2.10 HostTelemetry and ClusterTelemetry

`HostTelemetry`: `slow` and `fast` are the probes in flight, `hostStates` the
memory they share, `runtimeRows` what is stored, `tunnels` the machine each open
tunnel really leads to. A pass starts with the roster it has read. A report goes
into memory first and is then stored; the store may fail, for a deleted host or
because another request holds the write transaction, and nobody is told
(`Recorded`). `unstored` is history: the rows whose last report failed so.

`ClusterTelemetry`: `pass` is `_collect_cluster` with the row it read at its
start; `sites` the Elasticsearch deployments, each with its own CA, uuid and
keys. Records share one row id, so that a pass may end over the next cluster.

## 3. Runs

| Run | Shows |
|---|---|
| `execution_races` | two requests at once against planned and manual maintenance of one host: plan, run and host row stay together, a finished plan stays finished, and an abandoned planned workflow reaches recovery or an end |
| `execution_overlap` | all service actions including `recover`; three plans that overlap pairwise in host or cluster, with a restart that may classify a reboot complete: exclusion, locks held through expiry, failure and restart, no orphan locks; an expired row changes only at the end of its owner's recover; all of it implements `MaintenanceWindows` |
| `planning` | both preview routes, policies and executions while telemetry ages, fails or goes missing: a planned reboot keeps quorum, budgets and shard copies, rests on real and fresh observations and is shown no better than it was judged; a plan starts with the assignments its manifest names unchanged, and one of the reboot route under the policies it was planned under |
| `host_workflow` | two workflows sharing a cluster, two stage requests, every failure: record before effect (`EffectsRecorded`), captured settings are original, no host told to reboot over running workloads although systemd starts them after the first boot, claims released only with a running unit, dependents stopped before the Elasticsearch roles they use |
| `reboot_resume` | a caller that keeps the journal and one that rolls it back: at most one reboot, returns are new boots; a plan that was not reopened never reboots unguarded and leaves no cluster restricted when it ends |
| `executor_return` | script and controller over shared files with power losses and lost answers: locks are released over a clean host only, evidence is written once, believed when real and removed when proven, a started script reports |
| `workload_batches` | batches against direct mutations, failures and restarts: claims and batches account for each other, rollback and commit are complete, a new cluster starts in order, a scheduled batch ends or is left to recovery |
| `cluster_operations` | zoning runs against edits, each other and the collector; container windows against batches, expiry and restarts; version probes, downloads and upgrade plans against batches and direct changes of the cluster |
| `controller_services` | rotation of the SSH identity against enrollments; certificate policy, refresh and previews against changing files; host loops and cluster loop of the collector against edits, deletions, new deployments and a database that refuses writes |

A module's invariant (`EffectsRecorded`, `BatchInvariant`, `ZoningInvariant`,
...) is the conjunction of its type invariant and named parts, each with its own
comment in the module; likewise its step property (`BatchOutcome`,
`ZoningSteps`, ...). A mutation in `PROJECT.json` breaks one part of each; the
modules keep, as operators marked *Mutant*, a plausible bug for most parts.

Deadlock is checked, except in `cluster_operations`, `container_return` and
`controller_services`: there the named bounds on runs, edits, changes and
records end a behaviour. The other systems never stop, because a request or a
restart is always possible.

### 3.1 Findings

Runs that expect a violation state what the repository says and the code does
not do. Each is a finding in `PROJECT.json`:

| Run | The code |
|---|---|
| `batch_resources` | a batch deploys the previous configuration of a changed workload and commits the new one |
| `planning_stale` | a plan of the generic route starts although the policy it was decided under was changed since, and no start looks at the age of the telemetry (`maintenance_plan.md:575`) |
| `container_return` | under the wiring of `main.py` the return of a container is refused by its own window |

### 3.2 Observations

Seen while the models were built, and in the models, without a run of their
own. *The repository says otherwise:*

* Startup closes a complete plan and leaves its locks, which then block the
  scope (`maintenance/store.py:1332`; `maintenance_plan.md:1095`). The
  exceptions for `CompleteEvidence` in the lock properties and `Finish` in
  `MaintenanceWindows` are this case.
* No request leaves `recovery_required` after a refused manual exit
  (`manual.py:233`; `platform/maintenance.py:43`).
* A failed guard activation does not stop prepare (`host_maintenance.py:296`;
  `STATUS.md:282`).
* A manual exit ends a planned window with workloads stopped (`manual.py:233`;
  `maintenance_plan.md:311`).
* The recovery state written by a failed stop is rolled back with it
  (`host_maintenance.py:351`, `host_actions.py:73`, `platform/db.py:21`;
  `tests/test_host_maintenance.py:412`).
* A numeric `minimum_master_eligible` replaces the majority, also by less than
  one (`maintenance_plan.md:179`).
* Under the wiring of `main.py` a failure after the reboot invocation rolls intent
  and acknowledgement back (`reboot.py:468`, `host_reboot.py:118`), while
  `STATUS.md:289` says that these boundaries persist. The host is not rebooted
  again, because the manifest it holds refuses the next request; but no later
  request can verify the return either: the operator returns the host without
  one, or leaves the plan to its expiry.

*Nothing says otherwise, but a reader may be surprised:*

* Coordinator: `fail` writes `recovery_required` to a run that another request
  has already closed; the safe checkpoint of a cancel is checked in its
  `prepare`, and an adapter call already under way may journal a later one
  before the cancel is finalized; a guard restoration that could not be verified
  lets the host return continue.
* Host workflow: after a boot the units of the host come back in no order of the
  stack, so that a dependent may run over an Elasticsearch role that is not up
  yet; a reboot whose request was given up may come as late as during the return,
  and take down units that were already reported running. `Rebooted` and the
  exceptions of `DependentsStopFirst` and `ClaimReleasedRunning` are these cases.
* Executor: discovery between the complete checkpoint and the result reports
  `recovery_required`; staging again after a checkpoint is always refused;
  artifacts go before locks, so that after a lost answer no verification can
  complete, on the safe side.
* Planning: the generic route's idempotency key ignores the node; merging the
  observations of several anchor hosts lets a host without data override the
  shard facts of one with data; a plan is shown fresh until it expires.
* Workload changes: a stop between the two last transactions of a batch makes
  startup report an applied batch as failed; a resource update that fails late
  restores a configuration older than the one a second update has deployed; a
  command run finds its row by an identifier that may belong to another workload
  by then; adding an assignment again rewrites a claimed row.
* Zoning: storing a zoning asks for no active operation, and a run reads it
  again at its end (`zoning.py:212`); an exception of the runner skips the
  rollback; the workload that failed is not rolled back; a restart leaves the
  claims of a host change; a change that fails puts back a zone that the catalog
  may have lost (`zoning.py:330`). `shaken` marks the clusters to which the last
  two have happened.
* Containers: the host workflow passes the same companion reconciler and has
  the problem of `container_return` too (`host_maintenance.py:430`).
* Versions: the download route does not look again after the registry has
  answered; an equal manifest returns the old plan even when it has expired; an
  exception in a result handler leaves its run running
  (`platform/command_runs.py:52`), which blocks the cluster until a restart: a
  detach or purge beside a probe does it, since the direct routes do not look for
  runs and the observation of the deleted row meets its foreign key
  (`LostToRemoval`); an id given again in the middle of a probe gets the
  observation of the workload before (`mistaken`); the active-operation query of the upgrade launcher matches nothing
  (`app/main.py:985`), and no route reaches it.
* Identity: of two rows of one machine, revoking and deleting one removes the key
  that the other still records as installed, and the next activation locks the
  machine out (`hosts/repository.py:159`); the revocation of a deleted record goes on and takes the key of the
  record that was registered for the same machine meanwhile, which looks enrolled
  from then on (two runs in flight; found by the proof of `ActivationCovers`);
  an installation of one key that ends while another is staged leaves
  the host marked with a retired key; the enabled flag is the one read at the
  launch; disabled hosts keep the old key; an edited address keeps the key
  record; a restart fails the runs without finalizing them.
* Certificates: a form of a deleted cluster whose revision matches is saved over
  the policy of the next cluster with its id, and a refresh of it records on the
  next cluster's assets (`certificates/repository.py:268`, `:369`; `outdated` and
  `orphan` mark them); `active_generation_id` never moves after a renewal; overlapping
  refreshes may record the older file last; a leaf and its CA read around a
  replacement give a false `degraded`; external consumers are never verified, so
  every preview stays blocked.
* Telemetry: when storing a report fails, memory and row differ without a trace
  until the next probe, and a restart goes back to the older report
  (`collector.py:416`, `:164`); no edit or deletion closes a tunnel or forgets a state, and an open
  tunnel is used whatever address the host has by then (`tunnels.py:133`); a
  reused id shows the old host's state; a pass in flight writes the old
  cluster's credentials onto the new one with its id (`collector.py:457`); a
  captured uuid does not move the provider revision, so that an open form erases
  it (`clusters/service.py:156`).

### 3.3 Bounds

* Coordinator: two or three plans, one or two tickets, `MaxNow = 3` with
  `LockTTL = ManualTTL = PlanTTL = 2` and `MaxAge = 1` (`execution_overlap`, with
  three plans and every action: `MaxNow = 2`, `LockTTL = ManualTTL = 1`). Plans
  can be executed in time or too late, locks can expire before and after the
  plan's validity, and time is left to act on expired rows. Conflicts are
  pairwise, so three plans of different kinds cover every pair. Four tokens are
  one more than the owners a state can have.
* Planning: three hosts, two clusters, seven assignments, three policies, six
  requests over both routes and three operations, `MaxNow = 2` (older than the
  strictest policy allows), one change of the world at a time.
* Host workflow: two hosts, three clusters-by-host memberships, four workloads;
  p1 guards two clusters, so that one guard can fail beside an active one, and
  p2 shares one of them. The reboot is p2's, which has two workloads on its host;
  each plan's reboot touches its own host only.
* Reboot: two clusters; `MaxAttempts = 2` makes the refusal of a third predicate
  evaluation happen (99 in the code); `MaxReboots = 2` stops the operator's
  retries after the second invocation, which is what the property counts.
* Executor: one unit, two clusters, three boots: the signed one, the return, and
  a power loss during script or verification.
* Workload changes: two masters and a hot role, two configurations, two runs,
  three change sets (build, extend with a resource change, shrink with one)
  whose plan order is not the order of execution, direct mutations of one
  master and of the hot role. Two runs are two batches one after the other or a
  batch and a command at once, and restarts are free; with three runs TLC went
  through 2.9 million states without an error and did not finish in time.
* Zoning: two clusters that share a host, two hosts that may join and leave,
  three workloads, two runs, one edit, one collector pass. Containers: three units in two clusters,
  three windows, two sessions, batches free. Versions: two workloads, two
  releases of different majors, two runs, one upgrade plan, and three events among
  requests, collector passes, rows edited by hand, maintenance and publications.
* Identity: two machines, two keys, one run in flight, two node ids, so that ids
  come back; both ids may be of one machine (`one machine`), or each of its own
  with one disturbed row (`identity`). Certificates: two hosts and assignments,
  two certificates, two editors, three revisions, one refresh, one replaced file
  or added assignment; removals and deletions of the cluster are free. Policies,
  previews, files and assets are foci of their own, each with the parts of the
  world it depends on.
  Host loops: one row id that may pass from one of two addresses to the other,
  two clock values, two changes. Cluster loop: two records under one id, two
  deployments each, two provider revisions, one outage.

Symmetry is used over tickets, tokens, requests, clusters, machines and keys,
which appear nowhere but under quantifiers, and never in a liveness run.

### 3.4 Fairness

`execution_races` uses `PollingSpec`: time advances and the console polls the
plan list, which runs `expire_due_workflows`. Nothing is assumed of requests:
the property is about a workflow everybody has abandoned.

`workload_batches` uses `FairSpec` of `WorkloadChanges`: a playbook ends, well or
not, and a scheduled coroutine goes on. Nothing is assumed of requests or
restarts.

`executor_return` uses `FairSpec` of `HostExecutor`: a machine without power
boots again, and a started script goes on. Nothing is assumed of the controller.

## 4. Proofs

Eight modules hold theorems. Each proves, for every value of the constants that
satisfies the named assumptions of the model, an inductive invariant of the
specification and from it the properties the runs check. In every one of them
the properties themselves are not inductive; what has to be added, and why, is
the content of the proof. The step proofs have one lemma per action, or per
group of actions with the same effect; the lemmas about tables, sequences and
record updates come first.

The assumptions are those of the code: requested scopes are among the inspected
ones, every plan requests some scope, recovery scopes belong to one plan each,
lifetimes are positive; inventories are finite, policies have the fields and
ranges of `MaintenancePolicy`, requests the shape the input models accept; a
workload is placed on a host of its cluster, and a stored catalog names the zones
of the hosts it starts with; identifiers are numbers, of which an inventory has
finitely many; the bounds are natural numbers.

### 4.1 Coordinator: `MaintenanceExecutionProofs`

* Locks: `TypeCorrect`, `LocksHeld`, `NoOrphanLocks`, `TokensIdentify`,
  `Exclusion`. `IInv` adds to type correctness `RowsOK` (a free row is empty, an
  owned row has a token, and the token identifies the owner), which makes a
  release by token a release by plan; `InFlightHoldsLocks` and
  `LocksBelongToInFlight`, which need each other; `TicketsOK` (a request in
  flight belongs to a plan that cannot fall back behind `executing`, unless it
  cancels), without which a late `finalize` could put a plan that holds nothing
  in flight; and `HostsOK`. `Exclusion` then follows without another induction:
  a scope has one owner.
* Records: `RunsTellTheTruth` and `HostRowsMatch` from `RecordsInv`, which keeps
  planned and manual maintenance apart (`ManualApart`). `TerminalPlansFinal` and
  `ExpiredRowsKept` are the action properties.
* `WindowsImplemented`: the refinement of `MaintenanceWindows`, with the mapping
  of 2.1. Every transaction is one abstract step or a stutter. `HoldingInv` is
  what the mapping needs beyond `IInv`: rows are of scopes
  the plan requested or recovers, and a request whose plan has ended meets no
  row of that plan.

### 4.2 Reboot: `RebootOrchestratorProofs`

* `RebootOnce`: at most one invocation, for two reasons. With a journal that is
  kept, `OnceInv` says that an invocation implies the intent row, and that a run
  before its intent never sees one; without the second half a resumed run could
  reach `invoke` twice. With one that is rolled back, `AnewInv` says that the
  manifest of an invoked reboot stays on the host, so that a run that has yet to
  stage finds a foreign one and never gets to `invoke`.
* `ReturnIsReboot`: a journalled return implies a boot after the signed
  request, for either caller. `BootInv` orders `pre <= seen <= boot <=
  reboots` where they are known, on disk as well as on the connection, since a
  rollback makes the disk the connection's view.
* `GuardsFollowReboot`: for a plan that was not reopened, every cluster is
  restricted while the host is told to reboot, and none once the plan has ended
  without. `GuardInv` follows the guards through journal, run and commit; what
  it says of guards put back (`DurableGuards`) needs the journal.

### 4.3 Host workflow: `HostMaintenanceProofs`

`EffectsAreRecorded`, `OriginalsCaptured`, `StackOrderKept`,
`RebootsFindStopped`, `ReleasedRunning`, from `WorkflowInv`: per plan
(`PlanOK`), per assignment (`AsgOK`), per request in flight (`ReqOK`), and that
at most one request of a plan is at work (`OneWorker`). Plans are on different
hosts, so `LocalStep` reduces an action to its own plan and request. The reboot
has an invariant of its own on top, `RebootInv`: nothing lies on the host before
its units are stopped (`BootOK`), one request has the write transaction
(`OneWriter`), and a request about to invoke has staged its own executor
(`RebootOK`). With the first and the last, a host that is told to reboot has not
booted since its units were stopped, which is `RebootsFindStopped`.

### 4.4 Clusters: `ClusterOperationsProofs`

* Container window: `ContainerSafe` and `WindowsEndWhole`, for either wiring of
  the companions, from `WindowInv`. A stop or a guard whose answer is lost acts
  whatever the rows say by then, so rows and the request at work on a unit must
  agree (`SessionOK`), with one request per plan and one claim per cluster.
* Zoning: `ZoningSafe` and `ZoningStepsKept` from `ZoningInv`. Applies exclude
  others by the target of their run and zone changes by claims; that the two ways
  meet needs that a change at work has claimed every workload of its host and
  that claims name only such changes (`ClaimsOK`), and that a host's workloads
  lie in clusters it is a member of (`Placed`), whose operations the check looks
  at. `RunOK` relates what a run has done, has left and has passed over to the
  zones workloads really run with. It survives the steps of other runs because
  runs at work have disjoint scopes (`ScopesApart`, from exclusion itself).
  `OldZoneNamed` says that the zone a failing change puts back is in the
  catalogs, which is what `CatalogNamesZones` needs at a failure. The proof asks
  of a host that joins while its zone is changing what it asks of a zoning stored
  then, and so `shaken` counts both. That a finite set of workloads has a first
  and a last in the order of the code (`FirstAndLast`) comes from
  well-foundedness of the naturals.
* Versions: `VersionsHold` from `VersionsInv`. A plan is put together from what
  the registry answered before the cluster was looked at again, so every image in
  the registry or the cache must have been served for its release (`ServedOK`),
  and the rows that allow an upgrade be of workloads seen running, or of an id
  given again under a probe (`SeenOK`). Of two runs under way the later is a
  download or a direct change (`RunsApart`). A probe at work has workloads left
  that are assigned or whose rows were deleted since its launch (`ProbesOK`), so
  that a handler which meets no row has met a removed one: nothing else loses a
  run.

### 4.5 Executor: `HostExecutorProofs`

`ExecutorSafe` and `EvidenceIsFinal` from `ExecInv`: what a verification without
a failed check has already done (`Restoring`), and that a proof of completion
still stands when the cleanup comes to it, perhaps a reboot later
(`ProofStands`).

### 4.6 Workload batches: `WorkloadChangesProofs`

`BatchSafe` and `BatchesWhole` from `BatchInv`: per run, what the units of its
plan run at each point of the worker, of the undo and of the recovery
(`RunOK`); claims have their batch (`ClaimsBacked`); identifiers, which the
database gives out again, are unique at any time.

### 4.7 Planner: `MaintenancePlanningProofs`

`RebootsKeepAvailability`, `EvidenceIsObserved`, `StartsAsPlanned`,
`AnswersAreTrue`. Nearly everything is decided when the row is written, so most
of the proof is about the operators: what is collected and merged, what is
counted before and after, what each predicate that passes says of the world
(`RebootQuorum`, `RebootBudget`, `RebootFresh`, `RebootShards`). That a finite
set of times has an oldest one is proved from well-foundedness of the naturals
(`MinOfFinite`). Afterwards only the clock, the world, the policies and the start move;
`PoliciesSince` and `ManifestNames` say how they relate to the row.

### 4.8 Controller services: `ControllerServicesProofs`

* Identity: `IdentitySafe` and `ActivationsCover`. Runs in flight write by the
  row id they noted, so `RunsCurrent` follows what that id stands for and
  `RevocationsKnown` where a revocation is at work. A revocation acts on a machine
  and not on a row: every row of the machine, also one registered while it is
  under way, counts as disturbed.
* Host loops: `HostLoopsAgree` and `LoopsNeverGoBack` from `HostLoopsInv`. A
  probe in flight is never older than what is shown or stored of its host
  (`SlowIsNewest`), which the reload of stored reports after a restart would
  otherwise break; a sample in flight is of a host whose state is known
  (`FastIsNewest`), since a sample added to an unknown state would differ from
  the stored report. A failed store leaves the row behind memory and never ahead
  of it, also when a state is loaded from such a row after a restart.
* Cluster loop: `CollectorRecovers` and `CollectorWritesLittle` from
  `CollectorInv`. After the first failed pass every pass is about the record
  there is now, and a key it has asked for is of the present deployment
  (`MissesOK`); after the second no stale CA is left in the cache or in hand
  (`NoStaleCa`). A pass goes from older to newer records only (`NumbersOK`), so
  that a pass about the present record writes the passwords it has read from it
  (`SealedOK`).

* Certificates: `CertificatesSafe` and `CertificateStepsKept` from
  `CertificatesInv`, in four parts: what assignments, files and domains there are
  (`WorldOK`), the policy with its revisions and forms (`PoliciesOK`), the rows of
  the inventory (`InventoryOK`) and the refreshes in flight (`RefreshesOK`). Of a
  refresh it says that what it has collected, what has failed and what is left
  add up to what it listed, that its cache and the evidence in its hands have
  lain on the host since it began, and that an asset it is done with has been
  judged. A refresh reads at the places it noted when it began; while its cluster
  lives its rows keep those places (`RowsFor`), and of the rows of an `orphan`
  nothing is said but that the numbers add up. That every step of a refresh makes progress needs the order of the
  assets to be total: assignment ids come back, and two assets with the same
  owner are told apart by their purpose, as in the query
  (`certificates/repository.py:398`).

### 4.9 Only model-checked

Liveness (`ExpiryProtects`, `BatchSettles`, `ExecutorReports`), which is outside
the prover, and what the violating runs state. Every other property a run checks
is the statement of a theorem. No module declares a RECURSIVE operator.

## 5. Not modelled

* The content of checkpoints. `classify_plan` is the constant
  `CompleteEvidence`; journal sequence numbers are left out, so that collisions
  of row numbers (`host_maintenance.py:721` at 100 targets, `reboot.py:688` at
  99 evaluations) are not reachable.
* HTTP, SSH and Ansible: their answers are choices. Argument building, response
  parsing, signatures, digests, X.509 and encryption.
* The operator handoff, which journals one row; the maintenance status, a
  projection.
* Code without a caller: the upgrade worker and its launcher
  (`versions/launcher.py`, `worker.py`), `workload_engine.py`, the upgrade
  transition checks.
* The event stream of a run (`platform/runs.py:396`): it polls one row, and ends
  on `succeeded` and `failed` only, so that it polls a cancelled run for ever.
* Cluster settings, ports and projections; host initialisation, storage and
  network inspection and host-key pinning; metrics, sample histories,
  subscribers and the dashboard.
* Sessions, schema migrations, frontend, tools, and the playbooks beyond their
  effect.

## 6. Plan

1. `WorkloadChanges` composed with the maintenance claim and the zone change,
   which use the same column.
2. The journal's sequence numbers; the reopened reboot, in which a believed
   `guards-active` row is stale.
3. Refinements below the windows: `RebootOrchestrator` as an implementation of
   the one step `Reboot` of `HostMaintenance`.
