--------------------------- MODULE HostMaintenance ---------------------------
(***************************************************************************)
(* The planned host workflow of HostMaintenanceService                     *)
(* (host_maintenance.py) as the routes of workflow_http.py drive it, with  *)
(* the allocation guards (allocation_guards.py, elasticsearch.py), the     *)
(* workload claims, the manual exit route and the recovery reconciler.     *)
(*                                                                         *)
(* A stage request (prepare, stop, reboot, return) runs on one database    *)
(* connection.  It awaits the remote side many times and commits before    *)
(* every await (_durable_boundary) and when it ends normally.  So a step   *)
(* of this model is one remote call, its answer, and the writes up to the  *)
(* next commit.  When anything raises, _recover writes and the exception   *)
(* goes on: it leaves `with db()`, the connection is closed without a      *)
(* commit, and every write since the last boundary is lost, those of       *)
(* _recover included.  The remote effect of the failed call may or may not *)
(* have happened.                                                          *)
(***************************************************************************)
EXTENDS Integers, MaintenanceLifecycle

CONSTANTS
  Plans,        \* approved host_maintenance previews
  Hosts, Clusters,
  Assignments,  \* managed workloads
  Target,       \* Target[p]: the host of plan p
  HostOf,       \* HostOf[a]: target.node_id
  ClusterOf,    \* ClusterOf[a]: target.cluster_id
  Role,         \* Role[a]: target.role
  Requests,     \* stage requests the controller serves at once
  RebootPlans,  \* bound: the plans whose operator asks for the reboot stage
  NoPlan, NoItem

Agents == {"elastic-agent", "filebeat", "metricbeat"}
Services == {"kibana", "fleet-server", "logstash"}
Stateless == {"coordinating", "ingest", "ml"}
DataTiers == {"hot", "warm", "cold", "frozen", "content"}

ASSUME TopologyAssumption ==
  /\ NoPlan \notin Plans
  /\ NoItem \notin Assignments \cup Clusters
  /\ Target \in [Plans -> Hosts]
  /\ \A p, q \in Plans : Target[p] = Target[q] => p = q
  /\ HostOf \in [Assignments -> Hosts]
  /\ ClusterOf \in [Assignments -> Clusters]
  /\ \A p \in Plans : \E a \in Assignments : HostOf[a] = Target[p]

VARIABLES
  plan,    \* maintenance_plans.lifecycle_state
  lock,    \* the lock rows of the plan: "none", "live" or "stale"
  host,    \* host_maintenance_state
  asg,     \* assignment_maintenance_state
  claim,   \* cluster_assignments.operation_run_id, by the plan of the run
  guard,   \* maintenance_allocation_guards: phase and captured setting
  booted,  \* the plan's journal holds host:reboot-complete
  req,     \* stage requests in flight
  boot,    \* remote: how far the plan's signed reboot came on its host
  unit,    \* remote: is the workload's unit running?
  alloc    \* remote: cluster.routing.allocation.enable

rows == <<plan, lock, host, asg, claim, guard, booted>>
remote == <<boot, unit, alloc>>
vars == <<rows, req, remote>>

Targets(p) == {a \in Assignments : HostOf[a] = Target[p]}
DataBearing(a) == Role[a] \in DataTiers
DataClusters(p) == {ClusterOf[a] : a \in {b \in Targets(p) : DataBearing(b)}}

\* Lock requests cover the host, its workloads and their clusters.
Overlap(p, q) ==
  {ClusterOf[a] : a \in Targets(p)} \cap {ClusterOf[a] : a \in Targets(q)} # {}

Available == [state |-> "available", workflow |-> "available", plan |-> NoPlan]
Unclaimed == [workflow |-> "available", plan |-> NoPlan]
NoGuard == [phase |-> "none", before |-> "all"]
Idle == [pc |-> "idle", plan |-> NoPlan, cur |-> NoItem, todo |-> {}, row |-> Available]

PCs == {"idle", "capture", "activate", "stop", "boot-id", "stage", "invoke", "discover",
        "host-ready", "start", "ready", "restore", "verify", "cleanup"}
GuardPhases == {"captured", "active", "restored", "recovery_required"}
HostRows == [state : HostMaintenanceState, workflow : MaintenanceWorkflowState,
             plan : Plans \cup {NoPlan}]

TypeOK ==
  /\ plan \in [Plans -> {"ready", "executing", "recovery_required", "succeeded"}]
  /\ lock \in [Plans -> {"none", "live", "stale"}]
  /\ host \in [Hosts -> HostRows]
  /\ asg \in [Assignments -> [workflow : MaintenanceWorkflowState,
                              plan : Plans \cup {NoPlan}]]
  /\ claim \in [Assignments -> Plans \cup {NoPlan}]
  /\ guard \in [Plans -> [Clusters -> [phase : GuardPhases \cup {"none"},
                                       before : {"all", "primaries"}]]]
  /\ booted \in [Plans -> BOOLEAN]
  /\ req \in [Requests -> [pc : PCs, plan : Plans \cup {NoPlan},
                           cur : Assignments \cup Clusters \cup {NoItem},
                           todo : SUBSET (Assignments \cup Clusters),
                           row : HostRows]]
  /\ boot \in [Plans -> {"none", "staged", "invoked", "booted"}]
  /\ unit \in [Assignments -> {"running", "stopped"}]
  /\ alloc \in [Clusters -> {"all", "primaries"}]

Init ==
  /\ plan = [p \in Plans |-> "ready"]
  /\ lock = [p \in Plans |-> "none"]
  /\ host = [h \in Hosts |-> Available]
  /\ asg = [a \in Assignments |-> Unclaimed]
  /\ claim = [a \in Assignments |-> NoPlan]
  /\ guard = [p \in Plans |-> [c \in Clusters |-> NoGuard]]
  /\ booted = [p \in Plans |-> FALSE]
  /\ req = [t \in Requests |-> Idle]
  /\ boot = [p \in Plans |-> "none"]
  /\ unit = [a \in Assignments |-> "running"]
  /\ alloc = [c \in Clusters |-> "all"]

-----------------------------------------------------------------------------
\* Mutant: dependents are stopped after what they depend on.
StopRankReversed(a) ==
  CASE Role[a] \in Agents -> 50 [] Role[a] \in Services -> 40
    [] Role[a] \in Stateless -> 30 [] Role[a] \in DataTiers -> 20
    [] Role[a] = "master" -> 10 [] OTHER -> 25

StopRank(a) ==
  CASE Role[a] \in Agents -> 10 [] Role[a] \in Services -> 20
    [] Role[a] \in Stateless -> 30 [] Role[a] \in DataTiers -> 40
    [] Role[a] = "master" -> 50 [] OTHER -> 25

StartRank(a) ==
  CASE Role[a] = "master" -> 10 [] Role[a] \in DataTiers -> 20
    [] Role[a] \in Stateless -> 30 [] Role[a] \in Services -> 40
    [] Role[a] \in Agents -> 50 [] OTHER -> 35

\* The next target of a priority order; assignment ids break ties.
FirstToStop(S) == {a \in S : \A b \in S : StopRank(a) <= StopRank(b)}
FirstToStart(S) == {a \in S : \A b \in S : StartRank(a) <= StartRank(b)}

\* From its first journal write on, a reboot request keeps one write
\* transaction open through every remote call: SQLite refuses other writers.
WriteLocked == \E t \in Requests : req[t].pc \in {"stage", "invoke", "discover"}

\* Nothing of the failed segment is committed.
Abort(t) == req' = [req EXCEPT ![t] = Idle] /\ UNCHANGED rows

Await(t, pc, cur, todo) ==
  req' = [req EXCEPT ![t].pc = pc, ![t].cur = cur, ![t].todo = todo]

Begin(t, p, pc, cur, todo, row) ==
  req' = [req EXCEPT ![t] = [pc |-> pc, plan |-> p, cur |-> cur, todo |-> todo,
                             row |-> row]]

Done(t) == req' = [req EXCEPT ![t] = Idle]

\* _require_host_state and _ticket
StageOpen(t, p, workflow) ==
  /\ req[t] = Idle /\ ~WriteLocked
  /\ host[Target[p]].plan = p
  /\ host[Target[p]].workflow = workflow
  /\ lock[p] # "none"

-----------------------------------------------------------------------------
\* prepare

\* execution.prepare, the host row and _prepare_assignments; committed at the
\* first boundary, or at the end if no cluster needs a guard.
BeginPrepare(t, p) ==
  LET row == [state |-> "planning", workflow |-> "preparing", plan |-> p] IN
  /\ req[t] = Idle /\ ~WriteLocked
  /\ plan[p] = "ready"
  /\ \A q \in Plans \ {p} : Overlap(p, q) => lock[q] = "none"
  /\ <<host[Target[p]].state, "planning">> \in HostTransitions
  /\ \A a \in Targets(p) : asg[a].workflow = "available" /\ claim[a] = NoPlan
  /\ plan' = [plan EXCEPT ![p] = "executing"]
  /\ lock' = [lock EXCEPT ![p] = "live"]
  /\ asg' = [a \in Assignments |-> IF a \in Targets(p)
                                   THEN [workflow |-> "ready_to_stop", plan |-> p]
                                   ELSE asg[a]]
  /\ claim' = [a \in Assignments |-> IF a \in Targets(p) THEN p ELSE claim[a]]
  /\ IF DataClusters(p) = {}
     THEN /\ host' = [host EXCEPT ![Target[p]] = [row EXCEPT !.workflow = "ready_to_stop"]]
          /\ UNCHANGED req
     ELSE /\ host' = [host EXCEPT ![Target[p]] = row]
          /\ \E c \in DataClusters(p) :
               Begin(t, p, "capture", c, DataClusters(p) \ {c}, row)
  /\ UNCHANGED <<guard, booted, remote>>

\* Mutant: the guard of another plan is not looked for.
CanCaptureAny(p, c) == guard[p][c].phase = "none"

\* find_allocation_guard and find_active_allocation_guard
CanCapture(p, c) ==
  /\ guard[p][c].phase = "none"
  /\ \A q \in Plans : guard[q][c].phase \in {"none", "restored"}

\* AllocationGuardService.capture: reads the setting, then inserts the row.
Capture(t) ==
  LET p == req[t].plan
      c == req[t].cur
  IN  /\ req[t].pc = "capture"
      /\ \/ /\ ~WriteLocked
            /\ CanCapture(p, c)
            /\ guard' = [guard EXCEPT ![p][c] = [phase |-> "captured", before |-> alloc[c]]]
            /\ Await(t, "activate", c, req[t].todo)
            /\ UNCHANGED <<plan, lock, host, asg, claim, booted>>
         \/ Abort(t)
      /\ UNCHANGED remote

\* Mutant: the status of the result is persisted in place of its phase.
ActivateResultsStatus(before) ==
  {[phase |-> "active", alloc |-> "primaries"],
   [phase |-> "failed", alloc |-> before],
   [phase |-> "recovery_required", alloc |-> before],
   [phase |-> "recovery_required", alloc |-> "primaries"]}

\* AllocationGuardController.activate and its cleanup: what the cluster and the
\* returned checkpoint may be.  A failed activation that was cleaned up, or
\* that needs recovery, is a result, not an exception.
ActivateResults(before) ==
  {[phase |-> "active", alloc |-> "primaries"],
   [phase |-> "restored", alloc |-> before],
   [phase |-> "recovery_required", alloc |-> before],
   [phase |-> "recovery_required", alloc |-> "primaries"]}

\* AllocationGuardService.activate persists the returned phase; prepare does
\* not look at it and goes on to the next cluster or to ready_to_stop.
Activate(t) ==
  LET p == req[t].plan
      c == req[t].cur
  IN  /\ req[t].pc = "activate"
      /\ UNCHANGED <<boot, unit>>
      /\ \/ /\ ~WriteLocked
            /\ \E r \in ActivateResults(guard[p][c].before) :
                 /\ alloc' = [alloc EXCEPT ![c] = r.alloc]
                 /\ guard' = [guard EXCEPT ![p][c].phase = r.phase]
            /\ IF req[t].todo # {}
               THEN /\ \E d \in req[t].todo : Await(t, "capture", d, req[t].todo \ {d})
                    /\ UNCHANGED host
               ELSE /\ host[Target[p]] = req[t].row
                    /\ host' = [host EXCEPT ![Target[p]].workflow = "ready_to_stop"]
                    /\ Done(t)
            /\ UNCHANGED <<plan, lock, asg, claim, booted>>
         \/ /\ \E v \in {alloc[c], "primaries"} : alloc' = [alloc EXCEPT ![c] = v]
            /\ Abort(t)

-----------------------------------------------------------------------------
\* stop_workloads

\* Mutant: the host row skips the stopping state.
HostStoppingSkipped(row) == row

HostStopping(row) == [row EXCEPT !.workflow = "stopping"]

\* Mutant: the intent to stop is written after the stop was confirmed.
StopIntentLate(row) == row

\* The assignment row that is committed before the unit is stopped.
StopIntent(row) == [row EXCEPT !.workflow = "stopping"]

BeginStop(t, p) ==
  /\ StageOpen(t, p, "ready_to_stop")
  /\ \E a \in FirstToStop(Targets(p)) :
       /\ asg[a] = [workflow |-> "ready_to_stop", plan |-> p]
       /\ asg' = [asg EXCEPT ![a] = StopIntent(@)]
       /\ host' = [host EXCEPT ![Target[p]] = HostStopping(@)]
       /\ Begin(t, p, "stop", a, Targets(p) \ {a}, HostStopping(host[Target[p]]))
  /\ UNCHANGED <<plan, lock, claim, guard, booted, remote>>

\* Mutant: the answer of runtime.start is not looked at.
StartConfirmedIgnored(now) == {"running", now}

\* _confirmed: where a start that counts as confirmed leaves the unit.
StartConfirmed(now) == {"running"}

\* runtime.stop was confirmed: the assignment is in maintenance, and so is the
\* host after the last one.
Stop(t) ==
  LET p == req[t].plan
      a == req[t].cur
      todo == req[t].todo
  IN  /\ req[t].pc = "stop"
      /\ UNCHANGED <<boot, alloc>>
      /\ \/ /\ ~WriteLocked
            /\ unit' = [unit EXCEPT ![a] = "stopped"]
            /\ asg[a] = StopIntent([workflow |-> "ready_to_stop", plan |-> p])
            /\ IF todo # {}
               THEN \E b \in FirstToStop(todo) :
                      /\ asg[b] = [workflow |-> "ready_to_stop", plan |-> p]
                      /\ asg' = [asg EXCEPT ![a].workflow = "maintenance",
                                            ![b] = StopIntent(@)]
                      /\ Await(t, "stop", b, todo \ {b})
                      /\ UNCHANGED host
               ELSE /\ host[Target[p]] = req[t].row
                    /\ asg' = [asg EXCEPT ![a].workflow = "maintenance"]
                    /\ host' = [host EXCEPT ![Target[p]] =
                         [state |-> "maintenance", workflow |-> "maintenance", plan |-> p]]
                    /\ Done(t)
            /\ UNCHANGED <<plan, lock, claim, guard, booted>>
         \/ /\ \E v \in {unit[a], "stopped"} : unit' = [unit EXCEPT ![a] = v]
            /\ Abort(t)

-----------------------------------------------------------------------------
\* reboot_host.  A repeated request of a plan whose reboot is complete changes
\* nothing; RebootOrchestrator.tla models the orchestrator's journal and
\* HostExecutor.tla the executor on the host.

BeginReboot(t, p) ==
  /\ StageOpen(t, p, "maintenance")
  /\ p \in RebootPlans /\ ~booted[p]
  /\ Begin(t, p, "boot-id", NoItem, {}, host[Target[p]])
  /\ UNCHANGED <<rows, remote>>

\* Mutant: the boundary is not rechecked before the dispatch.
RebootPredicatesSkipped(p) == TRUE

\* HostMaintenanceRebootPredicates.evaluate
RebootPredicates(p) ==
  /\ host[Target[p]].plan = p
  /\ host[Target[p]].workflow = "maintenance"
  /\ \A a \in Targets(p) : asg[a] = [workflow |-> "maintenance", plan |-> p]

\* The boot id was read: the signed request is journalled, which opens the
\* write transaction, and the orchestrator starts.
BootId(t) ==
  LET p == req[t].plan IN
  /\ req[t].pc = "boot-id"
  /\ \/ /\ ~WriteLocked
        /\ plan[p] = "executing"
        /\ RebootPredicates(p)
        /\ Await(t, "stage", NoItem, {})
        /\ UNCHANGED rows
     \/ Abort(t)
  /\ UNCHANGED remote

\* Mutant: the stage playbook replaces the manifest of an earlier request.
StageableAgain(p) == TRUE

\* The stage playbook refuses a manifest other than the one that lies on the
\* host.  The request row of a failed attempt was rolled back, so that every
\* attempt signs a new manifest.
Stageable(p) == boot[p] = "none"

\* stage_executor
StageExecutor(t) ==
  LET p == req[t].plan IN
  /\ req[t].pc = "stage"
  /\ \/ /\ Stageable(p)
        /\ boot' = [boot EXCEPT ![p] = "staged"]
        /\ Await(t, "invoke", NoItem, {})
        /\ UNCHANGED rows
     \/ /\ Stageable(p)
        /\ boot' = [boot EXCEPT ![p] = "staged"]
        /\ Abort(t)
     \/ Abort(t) /\ UNCHANGED boot
  /\ UNCHANGED <<unit, alloc>>

\* invoke_reboot schedules `systemctl reboot` on the host.
InvokeReboot(t) ==
  LET p == req[t].plan IN
  /\ req[t].pc = "invoke"
  /\ \/ /\ boot' = [boot EXCEPT ![p] = "invoked"]
        /\ Await(t, "discover", NoItem, {})
        /\ UNCHANGED rows
     \/ /\ \E b \in {boot[p], "invoked"} : boot' = [boot EXCEPT ![p] = b]
        /\ Abort(t)
  /\ UNCHANGED <<unit, alloc>>

\* The host goes down, at any time after the invocation, with all its units.
HostBoots(p) ==
  /\ boot[p] = "invoked"
  /\ boot' = [boot EXCEPT ![p] = "booted"]
  /\ unit' = [a \in Assignments |-> IF a \in Targets(p) THEN "stopped" ELSE unit[a]]
  /\ UNCHANGED <<rows, req, alloc>>

\* After the boot systemd starts every Quadlet (WantedBy=multi-user.target), in
\* no order of the stack and whatever the rows say.
UnitComesUp(p) ==
  /\ boot[p] = "booted"
  /\ \E a \in Targets(p) :
       unit[a] = "stopped" /\ unit' = [unit EXCEPT ![a] = "running"]
  /\ UNCHANGED <<rows, req, boot, alloc>>

\* Mutant: any host that answers is a host that returned.
ReturnCompleteAnswered(p) == boot[p] = "booted"

\* The executor reports completion only when it has seen every required unit
\* active after the boot.
ReturnComplete(p) == boot[p] = "booted" /\ \A a \in Targets(p) : unit[a] = "running"

\* The verified return commits the whole journal; a lost connection, a host
\* that is not back yet or units that are not up roll it back.
Reboot(t) ==
  LET p == req[t].plan IN
  /\ req[t].pc = "discover"
  /\ \/ /\ ReturnComplete(p)
        /\ booted' = [booted EXCEPT ![p] = TRUE]
        /\ Done(t)
        /\ UNCHANGED <<plan, lock, host, asg, claim, guard>>
     \/ Abort(t)
  /\ UNCHANGED remote

-----------------------------------------------------------------------------
\* return_to_service

BeginReturn(t, p) ==
  LET row == [host[Target[p]] EXCEPT !.workflow = "returning"] IN
  /\ StageOpen(t, p, "maintenance")
  /\ host' = [host EXCEPT ![Target[p]] = row]
  /\ Begin(t, p, "host-ready", NoItem, Targets(p), row)
  /\ UNCHANGED <<plan, lock, asg, claim, guard, booted, remote>>

\* The next target of the return, or the first guard, or the verification.
\* todo holds the targets that are left, then the clusters.
ReturnNext(t, left) ==
  LET p == req[t].plan IN
  IF left # {}
  THEN \E a \in FirstToStart(left) :
         /\ asg[a] = [workflow |-> "maintenance", plan |-> p]
         /\ asg' = [asg EXCEPT ![a].workflow = "returning"]
         /\ Await(t, "start", a, left \ {a})
  ELSE /\ UNCHANGED asg
       /\ IF DataClusters(p) # {}
          THEN \E c \in DataClusters(p) : Await(t, "restore", c, DataClusters(p) \ {c})
          ELSE Await(t, "verify", NoItem, {})

\* runtime.host_ready, and later readiness and companions of one workload.  The
\* companions go through an injected port: any reconciler, which may refuse.
HostReady(t) ==
  /\ req[t].pc \in {"host-ready", "ready"}
  /\ \/ /\ ~WriteLocked
        /\ ReturnNext(t, req[t].todo)
        /\ UNCHANGED <<plan, lock, host, claim, guard, booted>>
     \/ Abort(t)
  /\ UNCHANGED remote

Start(t) ==
  LET a == req[t].cur IN
  /\ req[t].pc = "start"
  /\ UNCHANGED <<boot, alloc>>
  /\ \/ /\ ~WriteLocked
        /\ \E v \in StartConfirmed(unit[a]) : unit' = [unit EXCEPT ![a] = v]
        /\ asg[a] = [workflow |-> "returning", plan |-> req[t].plan]
        /\ asg' = [asg EXCEPT ![a].workflow = "verifying"]
        /\ Await(t, "ready", a, req[t].todo)
        /\ UNCHANGED <<plan, lock, host, claim, guard, booted>>
     \/ /\ \E v \in {unit[a], "running"} : unit' = [unit EXCEPT ![a] = v]
        /\ Abort(t)

\* Mutant: the row is closed although the setting was not verified.
RestoreResultsUnverified(g, now) ==
  {[phase |-> "restored", alloc |-> g.before], [phase |-> "restored", alloc |-> now]}

\* AllocationGuardController.restore: restored only when the observed setting
\* is the captured one.
RestoreResults(g, now) ==
  {[phase |-> "restored", alloc |-> g.before],
   [phase |-> "recovery_required", alloc |-> g.before],
   [phase |-> "recovery_required", alloc |-> now]}

\* AllocationGuardService.restore; the caller does not look at the phase.
Restore(t) ==
  LET p == req[t].plan
      c == req[t].cur
      g == guard[p][c]
  IN  /\ req[t].pc = "restore"
      /\ UNCHANGED <<boot, unit>>
      /\ \/ /\ ~WriteLocked
            /\ g.phase # "none"
            /\ IF g.phase = "restored"
               THEN UNCHANGED <<alloc, guard>>
               ELSE \E r \in RestoreResults(g, alloc[c]) :
                      /\ alloc' = [alloc EXCEPT ![c] = r.alloc]
                      /\ guard' = [guard EXCEPT ![p][c].phase = r.phase]
            /\ IF req[t].todo # {}
               THEN \E d \in req[t].todo : Await(t, "restore", d, req[t].todo \ {d})
               ELSE Await(t, "verify", NoItem, {})
            /\ UNCHANGED <<plan, lock, host, asg, claim, booted>>
         \/ /\ \E v \in {alloc[c], g.before} : alloc' = [alloc EXCEPT ![c] = v]
            /\ Abort(t)

\* _complete_assignments
Completable(p) ==
  \A a \in Targets(p) : asg[a] = [workflow |-> "verifying", plan |-> p] /\ claim[a] = p

\* finalize, _complete_assignments and the host row, in one transaction.
Complete(t) ==
  LET p == req[t].plan IN
  /\ ~WriteLocked
  /\ plan[p] \in {"executing", "recovery_required", "succeeded"}
  /\ lock[p] # "stale"
  /\ Completable(p)
  /\ host[Target[p]] = req[t].row
  /\ plan' = [plan EXCEPT ![p] = "succeeded"]
  /\ lock' = [lock EXCEPT ![p] = "none"]
  /\ asg' = [a \in Assignments |-> IF a \in Targets(p) THEN Unclaimed ELSE asg[a]]
  /\ claim' = [a \in Assignments |-> IF a \in Targets(p) THEN NoPlan ELSE claim[a]]
  /\ host' = [host EXCEPT ![Target[p]] = Available]
  /\ Done(t)
  /\ UNCHANGED <<guard, booted>>

\* verify_host_maintenance, then the executor cleanup if there was a reboot.
Verify(t) ==
  /\ req[t].pc = "verify"
  /\ \/ /\ ~WriteLocked
        /\ booted[req[t].plan]
        /\ Await(t, "cleanup", NoItem, {})
        /\ UNCHANGED rows
     \/ ~booted[req[t].plan] /\ Complete(t)
     \/ Abort(t)
  /\ UNCHANGED remote

Cleanup(t) ==
  /\ req[t].pc = "cleanup"
  /\ Complete(t) \/ Abort(t)
  /\ UNCHANGED remote

-----------------------------------------------------------------------------
\* Other requests and the passage of time.

\* The 300 s of the lock rows pass; nothing renews them.
ExpireLock(p) ==
  /\ lock[p] = "live"
  /\ lock' = [lock EXCEPT ![p] = "stale"]
  /\ UNCHANGED <<plan, host, asg, claim, guard, booted, req, remote>>

\* ManualMaintenanceService.exit on a fresh healthy host observation.  It asks
\* for the host's state column only, not for the kind of the plan.
ManualExit(h) ==
  LET p == host[h].plan IN
  /\ ~WriteLocked
  /\ host[h].state = "maintenance"
  /\ lock[p] = "live"
  /\ <<plan[p], "succeeded">> \in PlanTransitions
  /\ plan' = [plan EXCEPT ![p] = "succeeded"]
  /\ lock' = [lock EXCEPT ![p] = "none"]
  /\ host' = [host EXCEPT ![h] = Available]
  /\ UNCHANGED <<asg, claim, guard, booted, req, remote>>

\* The same request on a stale observation or stale locks: _record_recovery.
ManualRecovery(h) ==
  LET p == host[h].plan IN
  /\ ~WriteLocked
  /\ host[h].state = "maintenance"
  /\ <<plan[p], "recovery_required">> \in PlanTransitions
  /\ plan' = [plan EXCEPT ![p] = "recovery_required"]
  /\ host' = [host EXCEPT ![h].state = "recovery_required",
                          ![h].workflow = "recovery_required"]
  /\ UNCHANGED <<lock, asg, claim, guard, booted, req, remote>>

\* reconcile_plan for every plan of P.
ReconcilePlans(P) ==
  /\ plan' = [p \in Plans |-> IF p \in P THEN "recovery_required" ELSE plan[p]]
  /\ host' = [h \in Hosts |->
       IF host[h].plan \in P
       THEN [state |-> "recovery_required", workflow |-> "recovery_required",
             plan |-> host[h].plan]
       ELSE host[h]]
  /\ asg' = [a \in Assignments |-> IF asg[a].plan \in P
                                   THEN [asg[a] EXCEPT !.workflow = "recovery_required"]
                                   ELSE asg[a]]
  /\ UNCHANGED <<lock, claim, guard, booted, remote>>

\* The plan expired and a plan list was asked for, or the operator asked for
\* recovery.
Reconcile(p) ==
  /\ ~WriteLocked
  /\ plan[p] \in {"executing", "recovery_required"}
  /\ ReconcilePlans({p})
  /\ UNCHANGED req

\* A crash loses the requests in flight and what they have not committed; the
\* next startup reconciles every plan in flight.
Restart ==
  /\ ReconcilePlans({p \in Plans : plan[p] \in {"executing", "recovery_required"}})
  /\ req' = [t \in Requests |-> Idle]

Next ==
  \/ \E t \in Requests, p \in Plans : BeginPrepare(t, p)
  \/ \E t \in Requests : Capture(t)
  \/ \E t \in Requests : Activate(t)
  \/ \E t \in Requests, p \in Plans : BeginStop(t, p)
  \/ \E t \in Requests : Stop(t)
  \/ \E t \in Requests, p \in Plans : BeginReboot(t, p)
  \/ \E t \in Requests : BootId(t)
  \/ \E t \in Requests : StageExecutor(t)
  \/ \E t \in Requests : InvokeReboot(t)
  \/ \E p \in Plans : HostBoots(p)
  \/ \E p \in Plans : UnitComesUp(p)
  \/ \E t \in Requests : Reboot(t)
  \/ \E t \in Requests, p \in Plans : BeginReturn(t, p)
  \/ \E t \in Requests : HostReady(t)
  \/ \E t \in Requests : Start(t)
  \/ \E t \in Requests : Restore(t)
  \/ \E t \in Requests : Verify(t)
  \/ \E t \in Requests : Cleanup(t)
  \/ \E p \in Plans : ExpireLock(p)
  \/ \E h \in Hosts : ManualExit(h)
  \/ \E h \in Hosts : ManualRecovery(h)
  \/ \E p \in Plans : Reconcile(p)
  \/ Restart

Spec == Init /\ [][Next]_vars

-----------------------------------------------------------------------------
\* Properties

\* The host went through its plan's reboot: its units are systemd's since.
Rebooted(h) == \E p \in Plans : Target[p] = h /\ boot[p] = "booted"

\* Until its host boots, a unit is stopped only under a durable record: its
\* assignment row names the plan, the run of that plan holds its claim, and the
\* row is one that a crash or a manual exit leaves behind for recovery.  Rests on
\* the boundary between the `stopping` row and runtime.stop (host_maintenance.py).
IntentBeforeEffect ==
  \A a \in Assignments : unit[a] = "stopped" /\ ~Rebooted(HostOf[a]) =>
    /\ asg[a].plan # NoPlan
    /\ claim[a] = asg[a].plan
    /\ asg[a].workflow \in {"stopping", "maintenance", "returning", "recovery_required"}

\* A cluster whose replicas may not allocate is known to the controller: some
\* guard row that is not restored says what to put back.
GuardRecorded ==
  \A c \in Clusters : alloc[c] = "primaries" =>
    \E p \in Plans : guard[p][c].phase \in GuardPhases \ {"restored"}

\* What a guard captured is the operator's setting and never the restriction
\* of another plan, also after a manual exit gave the locks away.  Restoring it
\* therefore never makes a restriction permanent.
CapturedIsOriginal ==
  \A p \in Plans, c \in Clusters : guard[p][c].before = "all"

Above ==
  (Agents \X (Services \cup Stateless \cup DataTiers \cup {"master"}))
  \cup (Services \X (Stateless \cup DataTiers \cup {"master"}))
  \cup (Stateless \X (DataTiers \cup {"master"}))
  \cup (DataTiers \X {"master"})

\* On one host no dependent runs over a stopped Elasticsearch role: whatever
\* call failed and wherever the controller stopped, in the stop as in the
\* return (_stop_priority, _start_priority).  A host that boots is excepted:
\* systemd starts its units in no order of the stack.
DependentsStopFirst ==
  \A a, b \in Assignments :
    HostOf[a] = HostOf[b] /\ <<Role[a], Role[b]>> \in Above /\ unit[b] = "stopped"
      => unit[a] = "stopped" \/ Rebooted(HostOf[a])

\* A host is told to reboot only with every managed unit stopped, also when a
\* return request arrived between the boot id and the dispatch.  A further
\* request finds the rows still in maintenance over units that the first boot
\* started: only the manifest the first one staged keeps it from the host.
RebootOnlyStopped ==
  \A t \in Requests : req[t].pc = "invoke" =>
    \A a \in Targets(req[t].plan) : unit[a] = "stopped"

\* The host row summarises the assignment rows of its plan: ready_to_stop means
\* that no stop was begun; maintenance that every unit is down until the host
\* boots, and up again once the return of the boot was verified.
HostRowSummary ==
  \A h \in Hosts : host[h].workflow \in {"ready_to_stop", "maintenance"} =>
    LET p == host[h].plan IN
    \A a \in Targets(p) :
      /\ asg[a] = [workflow |-> host[h].workflow, plan |-> p]
      /\ host[h].workflow = "maintenance" /\ boot[p] # "booted" => unit[a] = "stopped"
      /\ booted[p] => unit[a] = "running"

\* A workload's claim ends only with its unit running, its plan succeeded and
\* the plan's locks gone, in one transaction (_complete_assignments).  Of a host
\* that boots late, by a reboot whose return nobody verified, the units are
\* systemd's.
ClaimReleasedRunning ==
  [][\A a \in Assignments : claim[a] # NoPlan /\ claim'[a] = NoPlan =>
       /\ unit'[a] = "running" \/ (boot[claim[a]] = "booted" /\ ~booted[claim[a]])
       /\ plan'[claim[a]] = "succeeded"
       /\ lock'[claim[a]] = "none"]_vars

\* Everything a stage has done to units and clusters is in committed rows, and
\* the host row tells of it: a crash, a lost answer or a rolled back stage at
\* any await leaves recovery something to work from.
EffectsRecorded ==
  /\ TypeOK
  /\ IntentBeforeEffect
  /\ GuardRecorded
  /\ HostRowSummary
=============================================================================
