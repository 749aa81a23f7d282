------------------------ MODULE MaintenanceExecution ------------------------
(***************************************************************************)
(* The persisted coordinator of maintenance plans:                         *)
(* MaintenanceExecutionService (execution.py), the lock manager and the    *)
(* startup pass of MaintenanceRepository (store.py), the manual mode       *)
(* (manual.py), the workflow reconciliation (workflow_recovery.py) and the *)
(* routes that drive them (api.py).                                        *)
(*                                                                         *)
(* Every route is an async handler of one event loop and opens the SQLite  *)
(* database in `with control_db()` blocks that contain no await, so each   *)
(* block is one atomic step: it commits on normal exit and rolls back when *)
(* an exception leaves it.  What interleaves are the blocks of different   *)
(* requests: an action route runs prepare, then awaits the adapter with no *)
(* transaction open, then runs finalize (or fail).                         *)
(***************************************************************************)
EXTENDS Integers, MaintenanceLifecycle

CONSTANTS
  Plans,             \* plan identifiers, one per idempotency key
  Hosts,             \* managed hosts (nodes)
  Kind,              \* Kind[p]: "reboot", "host_maintenance" or "manual"
  Target,            \* Target[p]: target_node_id
  Scopes,            \* lock scopes (scope_kind, scope_id)
  Requests,          \* Requests[p]: the scopes _lock_requests asks for
  Covers,            \* Covers[p]: the scopes observe_conflicts inspects
  Recovery,          \* Recovery[p]: the RECOVERY scope of plan p
  Tickets,           \* concurrent action requests the controller serves
  Tokens,            \* lock owner tokens (secrets.token_urlsafe)
  Actions,           \* the service actions some route dispatches
  CompleteEvidence,  \* plans whose checkpoint evidence proves the after state
  LockTTL,           \* lock_ttl_seconds
  ManualTTL,         \* duration_seconds of manual mode
  MaxAge,            \* observation_max_age_seconds
  PlanTTL,           \* plan_validity_seconds
  MaxNow,            \* bound on the clock
  NoPlan, NoToken

AllActions == {"execute", "pause", "resume", "cancel", "recover"}
PlanKinds == {"reboot", "host_maintenance", "manual"}

ASSUME PlanAssumption ==
  /\ NoPlan \notin Plans
  /\ NoToken \notin Tokens
  /\ Kind \in [Plans -> PlanKinds]
  /\ Target \in [Plans -> Hosts]
  /\ CompleteEvidence \subseteq Plans
  /\ Actions \subseteq AllActions

ASSUME ScopeAssumption ==
  /\ Requests \in [Plans -> SUBSET Scopes]
  /\ Covers \in [Plans -> SUBSET Scopes]
  /\ Recovery \in [Plans -> Scopes]
  /\ \A p \in Plans : Requests[p] # {} /\ Requests[p] \subseteq Covers[p]
  /\ \A p, q \in Plans : Recovery[p] \notin Covers[q]
  /\ \A p, q \in Plans : Recovery[p] = Recovery[q] => p = q

ASSUME TimeAssumption ==
  /\ {LockTTL, ManualTTL, PlanTTL, MaxAge, MaxNow} \subseteq Nat
  /\ LockTTL > 0 /\ ManualTTL > 0

VARIABLES
  plan,        \* maintenance_plans.lifecycle_state, "absent" before INSERT
  created,     \* creation (and observation) time of the plan
  run,         \* status of the attached run, "none" while run_id IS NULL
  lock,        \* the active row of each scope in maintenance_locks
  checkpoint,  \* class of the plan's latest checkpoint key
  ticket,      \* in-flight action requests, between prepare and finalize
  host,        \* host_maintenance_state rows
  now          \* the clock

vars == <<plan, created, run, lock, checkpoint, ticket, host, now>>

Free == [owner |-> NoPlan, token |-> NoToken, expires |-> 0]
Idle == [plan |-> NoPlan, action |-> "idle"]

\* Latest checkpoint keys, as far as _validate_safe_checkpoint tells them
\* apart: "reboot.clusters-prepared", "reboot.return-discovered" and the keys
\* between them ("in-reboot").
Checkpoints == {"none", "clusters-prepared", "in-reboot", "return-discovered"}
CheckpointSteps ==
  {<<"none", "clusters-prepared">>, <<"clusters-prepared", "in-reboot">>,
   <<"in-reboot", "return-discovered">>}

TypeOK ==
  /\ plan \in [Plans -> MaintenanceState \cup {"absent"}]
  /\ created \in [Plans -> Nat]
  /\ run \in [Plans -> RunStatus \cup {"none"}]
  /\ lock \in [Scopes -> [owner : Plans \cup {NoPlan},
                          token : Tokens \cup {NoToken}, expires : Nat]]
  /\ checkpoint \in [Plans -> Checkpoints]
  /\ ticket \in [Tickets -> [plan : Plans \cup {NoPlan},
                             action : AllActions \cup {"idle"}]]
  /\ host \in [Hosts -> [state : HostMaintenanceState,
                         plan : Plans \cup {NoPlan}]]
  /\ now \in Nat

Init ==
  /\ plan = [p \in Plans |-> "absent"]
  /\ created = [p \in Plans |-> 0]
  /\ run = [p \in Plans |-> "none"]
  /\ lock = [s \in Scopes |-> Free]
  /\ checkpoint = [p \in Plans |-> "none"]
  /\ ticket = [t \in Tickets |-> Idle]
  /\ host = [h \in Hosts |-> [state |-> "available", plan |-> NoPlan]]
  /\ now = 0

-----------------------------------------------------------------------------
\* The lock manager (store.py).

Held(p) == {s \in Scopes : lock[s].owner = p}          \* list_active_locks
Expired(s) == lock[s].expires <= now                   \* LockRecord.expired
Stale(p) == {s \in Held(p) : Expired(s)}

\* Mutant: owner tokens are drawn without regard to the rows in use.
FreshTokenReused(tok) == tok \in Tokens

\* A token no active row carries; a random token never repeats.
FreshToken(tok) == tok \in Tokens /\ \A s \in Scopes : lock[s].token # tok

\* The token a plan's next rows carry: that of the rows it keeps, else new.
OwnerToken(tok, kept) ==
  IF kept = {} THEN FreshToken(tok) ELSE \E s \in kept : tok = lock[s].token

\* acquire_locks over rows (the table after any stale rows were released):
\* all requested scopes, or none.
CanAcquire(rows, p, scopes, tok) ==
  \A s \in scopes :
    \/ rows[s].owner = NoPlan
    \/ rows[s].owner = p /\ rows[s].token = tok /\ rows[s].expires > now

Acquired(rows, p, scopes, tok, ttl) ==
  [s \in Scopes |->
     IF s \in scopes /\ rows[s].owner = NoPlan
     THEN [owner |-> p, token |-> tok, expires |-> now + ttl]
     ELSE rows[s]]

\* release_locks: every active row with the token, none of which may be stale.
CanRelease(rows, tok) ==
  \A s \in Scopes : rows[s].token = tok => rows[s].expires > now

Released(rows, tok) ==
  [s \in Scopes |-> IF rows[s].token = tok THEN Free ELSE rows[s]]

\* recover_stale_lock for every stale row of the plan.
StaleReleased(p) == [s \in Scopes |-> IF s \in Stale(p) THEN Free ELSE lock[s]]

-----------------------------------------------------------------------------
\* Planning (service.py, create_plan).

\* The partial unique index on target_node_id of the active plans.
TargetFree(p) ==
  \A q \in Plans \ {p} : Target[q] = Target[p] => plan[q] \notin ActivePlanStates

\* create_plan: a preview is persisted ready or, when a predicate blocks it,
\* blocked.  A repeated idempotency key returns the stored row (a stutter).
CreatePlan(p) ==
  /\ Kind[p] # "manual"
  /\ plan[p] = "absent"
  /\ \E s \in {"ready", "blocked"} :
       /\ s = "ready" => TargetFree(p)
       /\ plan' = [plan EXCEPT ![p] = s]
  /\ created' = [created EXCEPT ![p] = now]
  /\ UNCHANGED <<run, lock, checkpoint, ticket, host, now>>

\* observe_conflicts for the host of p, p itself excluded: another active plan
\* on the host, a foreign lock on the expanded scope, or an open run of
\* another plan that names the host.
Conflict(p) ==
  \/ ~TargetFree(p)
  \/ \E s \in Covers[p] : lock[s].owner \notin {p, NoPlan}
  \/ \E q \in Plans \ {p} : Target[q] = Target[p] /\ run[q] \in OpenRun

-----------------------------------------------------------------------------
\* MaintenanceExecutionService.prepare: one transaction per accepted request.
\* A refused request rolls back and changes nothing.

ActionStates(a) ==
  CASE a = "execute" -> {"ready"}
    [] a = "pause"   -> {"executing"}
    [] a = "resume"  -> {"paused"}
    [] a = "cancel"  -> {"draft", "ready", "blocked"} \cup InFlightStates
    [] a = "recover" -> {"recovery_required"}

SafeCheckpoint(p, a) ==
  CASE a \in {"pause", "resume"} ->
         checkpoint[p] \in {"none", "clusters-prepared", "return-discovered"}
    [] a = "cancel" -> checkpoint[p] \in {"none", "clusters-prepared"}
    [] OTHER -> TRUE

\* _validate_execution_snapshot and _validate_no_conflicts; drift of the
\* assignment, policy or capability revisions only refuses requests.
Startable(p) ==
  /\ now < created[p] + PlanTTL
  /\ now - created[p] <= MaxAge
  /\ ~Conflict(p)

\* _attach_run: a closed run is refused, any other is (re)opened.
RunAttachable(p) == run[p] \notin ClosedRun

PrepareLocks(p, a) ==
  CASE a = "execute" ->
         \E tok \in Tokens :
           /\ OwnerToken(tok, Held(p))
           /\ CanAcquire(lock, p, Requests[p], tok)
           /\ lock' = Acquired(lock, p, Requests[p], tok, LockTTL)
    [] a = "recover" ->
         IF Stale(p) # {} THEN UNCHANGED lock
         ELSE \E tok \in Tokens :
                /\ OwnerToken(tok, Held(p))
                /\ CanAcquire(lock, p, Requests[p] \cup {Recovery[p]}, tok)
                /\ lock' = Acquired(lock, p, Requests[p] \cup {Recovery[p]},
                                    tok, LockTTL)
    [] OTHER ->
         /\ plan[p] \in InFlightStates => Held(p) # {}
         /\ UNCHANGED lock

Prepare(t, p, a) ==
  /\ ticket[t] = Idle
  /\ Kind[p] # "manual"
  /\ plan[p] \in ActionStates(a)
  /\ SafeCheckpoint(p, a)
  /\ a \in {"execute", "resume"} => Startable(p)
  /\ a # "recover" => Stale(p) = {}
  /\ RunAttachable(p)
  /\ PrepareLocks(p, a)
  /\ run' = [run EXCEPT ![p] = "running"]
  /\ plan' = [plan EXCEPT ![p] =
                IF a \in {"execute", "resume"} THEN "executing" ELSE @]
  /\ ticket' = [ticket EXCEPT ![t] = [plan |-> p, action |-> a]]
  /\ UNCHANGED <<created, checkpoint, host, now>>

\* The adapter of an execute or resume request journals its progress while no
\* controller transaction is open.
AdapterCheckpoint(t) ==
  /\ ticket[t].action \in {"execute", "resume"}
  /\ \E c \in Checkpoints :
       /\ <<checkpoint[ticket[t].plan], c>> \in CheckpointSteps
       /\ checkpoint' = [checkpoint EXCEPT ![ticket[t].plan] = c]
  /\ UNCHANGED <<plan, created, run, lock, ticket, host, now>>

-----------------------------------------------------------------------------
\* MaintenanceExecutionService.finalize and fail.

\* What _result_state accepts; "none" leaves the plan where it is.
ResultStates(a) ==
  CASE a \in {"execute", "resume"} ->
         {"none", "executing", "succeeded", "failed", "recovery_required"}
    [] a = "pause"  -> {"paused", "recovery_required"}
    [] a = "cancel" -> {"cancelled", "recovery_required"}
    [] a = "recover" ->
         {"executing", "succeeded", "failed", "cancelled", "recovery_required"}

ResultState(p, res) == IF res = "none" THEN plan[p] ELSE res

\* _transition_for_result: executing reaches cancelled by way of paused.
CanReach(from, to) ==
  \/ from = to
  \/ <<from, to>> \in PlanTransitions
  \/ from = "executing" /\ to = "cancelled"

\* Mutant: a run of a plan that needs recovery is closed as failed.
RunForFailed(s) == IF s = "recovery_required" THEN "failed"
                   ELSE IF s \in TerminalPlanStates THEN s ELSE "running"

\* Mutant: the run takes over the plan's state as it is.
RunForPlanState(s) == s

\* _update_run
RunFor(s) ==
  IF s \in TerminalPlanStates \cup {"recovery_required"} THEN s ELSE "running"

\* _recover_stale_locks: the stale rows, whose rediscovery the adapter's
\* evidence shows, are released and the full set is acquired again.
Recovered(p, tok) ==
  Acquired(StaleReleased(p), p, Requests[p] \cup {Recovery[p]}, tok, LockTTL)

\* Mutant: the locks are also given up when the plan needs recovery.
FinalLocksEager(rows, p, to) ==
  LET own == {s \in Scopes : rows[s].owner = p} IN
  IF to \in TerminalPlanStates \cup {"recovery_required"} /\ own # {}
  THEN \E s \in own : /\ CanRelease(rows, rows[s].token)
                      /\ lock' = Released(rows, rows[s].token)
  ELSE lock' = rows

\* _release_active_locks: a terminal plan releases by the token of its first
\* row; a stale row makes it raise.
FinalLocks(rows, p, to) ==
  LET own == {s \in Scopes : rows[s].owner = p} IN
  IF to \in TerminalPlanStates /\ own # {}
  THEN /\ \A s \in own : rows[s].expires > now
       /\ \E s \in own : /\ CanRelease(rows, rows[s].token)
                         /\ lock' = Released(rows, rows[s].token)
  ELSE lock' = rows

\* Mutant: any request, not only recover, rolls expired rows over.
FinalizeLocksRenew(p, a, to) ==
  IF Stale(p) # {}
  THEN \E tok \in Tokens :
         /\ OwnerToken(tok, Held(p) \ Stale(p))
         /\ CanAcquire(StaleReleased(p), p, Requests[p] \cup {Recovery[p]}, tok)
         /\ FinalLocks(Recovered(p, tok), p, to)
  ELSE FinalLocks(lock, p, to)

FinalizeLocks(p, a, to) ==
  IF a = "recover" /\ Stale(p) # {}
  THEN \E tok \in Tokens :
         /\ OwnerToken(tok, Held(p) \ Stale(p))
         /\ CanAcquire(StaleReleased(p), p, Requests[p] \cup {Recovery[p]}, tok)
         /\ FinalLocks(Recovered(p, tok), p, to)
  ELSE FinalLocks(lock, p, to)

Finalize(t) ==
  LET p == ticket[t].plan
      a == ticket[t].action
  IN  /\ ticket[t] # Idle
      /\ \E res \in ResultStates(a) :
           LET to == ResultState(p, res) IN
           /\ CanReach(plan[p], to)
           /\ FinalizeLocks(p, a, to)
           /\ plan' = [plan EXCEPT ![p] = to]
           /\ run' = [run EXCEPT ![p] = RunFor(to)]
      /\ ticket' = [ticket EXCEPT ![t] = Idle]
      /\ UNCHANGED <<created, checkpoint, host, now>>

\* Mutant: a late failure sends a finished plan back to recovery.
FailStateAlways(s) == "recovery_required"

FailState(s) ==
  CASE s \in {"executing", "paused"} -> "recovery_required"
    [] s = "ready" -> "blocked"
    [] OTHER -> s

\* The adapter raised, or finalize raised and was rolled back: the route calls
\* fail, which keeps every lock and writes the run unconditionally.
Fail(t) ==
  LET p == ticket[t].plan IN
  /\ ticket[t] # Idle
  /\ plan' = [plan EXCEPT ![p] = FailState(@)]
  /\ run' = [run EXCEPT ![p] = "recovery_required"]
  /\ ticket' = [ticket EXCEPT ![t] = Idle]
  /\ UNCHANGED <<created, lock, checkpoint, host, now>>

-----------------------------------------------------------------------------
\* MaintenanceWorkflowRecoveryService (workflow_recovery.py).

\* _is_planned_workflow: the manifest names a public operation.
Planned(p) == Kind[p] = "host_maintenance"

\* mark_recovery_required_in_connection leaves every run but a running one.
Interrupt(r) == IF r = "running" THEN "recovery_required" ELSE r

\* The effect of reconcile_plan on each plan of the set P; locks, guards and
\* checkpoints are kept.
ReconcilePlans(P) ==
  /\ plan' = [p \in Plans |-> IF p \in P THEN "recovery_required" ELSE plan[p]]
  /\ run' = [p \in Plans |-> IF p \in P THEN Interrupt(run[p]) ELSE run[p]]
  /\ host' = [h \in Hosts |-> IF host[h].plan \in P
                              THEN [host[h] EXCEPT !.state = "recovery_required"]
                              ELSE host[h]]
  /\ UNCHANGED <<created, lock, checkpoint, ticket, now>>

\* The operator's recover request.
Reconcile(p) ==
  /\ Planned(p)
  /\ plan[p] \in InFlightStates
  /\ ReconcilePlans({p})

\* Mutant: a plan expires only after its expiry time has passed.
DueLate(p) == created[p] + PlanTTL < now

\* expire_due_workflows, run by every plan query.
Due(p) == created[p] + PlanTTL <= now

ExpireDue ==
  LET due == {p \in Plans : Planned(p) /\ plan[p] \in InFlightStates /\ Due(p)} IN
  /\ due # {}
  /\ ReconcilePlans(due)

-----------------------------------------------------------------------------
\* ManualMaintenanceService (manual.py).

\* enter: plan, run, lock and host row in one savepoint.  The plan is inserted
\* ready and moved to executing, the row goes through planning.
ManualEnter(p) ==
  /\ Kind[p] = "manual"
  /\ plan[p] = "absent"
  /\ host[Target[p]].state = "available"
  /\ ~Conflict(p)
  /\ \E tok \in Tokens :
       /\ FreshToken(tok)
       /\ CanAcquire(lock, p, Requests[p], tok)
       /\ lock' = Acquired(lock, p, Requests[p], tok, ManualTTL)
  /\ plan' = [plan EXCEPT ![p] = "executing"]
  /\ created' = [created EXCEPT ![p] = now]
  /\ run' = [run EXCEPT ![p] = "running"]
  /\ host' = [host EXCEPT ![Target[p]] = [state |-> "maintenance", plan |-> p]]
  /\ UNCHANGED <<checkpoint, ticket, now>>

\* exit on a fresh healthy observation, with live locks.
ManualExit(h) ==
  LET p == host[h].plan IN
  /\ host[h].state = "maintenance"
  /\ Held(p) # {}
  /\ \E s \in Held(p) : /\ CanRelease(lock, lock[s].token)
                        /\ lock' = Released(lock, lock[s].token)
  /\ <<plan[p], "succeeded">> \in PlanTransitions
  /\ plan' = [plan EXCEPT ![p] = "succeeded"]
  /\ run' = [run EXCEPT ![p] = "succeeded"]
  /\ host' = [host EXCEPT ![h] = [state |-> "available", plan |-> NoPlan]]
  /\ UNCHANGED <<created, checkpoint, ticket, now>>

\* exit without a healthy observation, or with a missing or stale lock:
\* _record_recovery.  A plan that is already recovery_required makes the plan
\* transition raise and the whole request roll back.
ManualRecovery(h) ==
  LET p == host[h].plan IN
  /\ host[h].state = "maintenance"
  /\ <<plan[p], "recovery_required">> \in PlanTransitions
  /\ plan' = [plan EXCEPT ![p] = "recovery_required"]
  /\ run' = [run EXCEPT ![p] = "recovery_required"]
  /\ host' = [host EXCEPT ![h].state = "recovery_required"]
  /\ UNCHANGED <<created, lock, checkpoint, ticket, now>>

-----------------------------------------------------------------------------
\* A crash of the controller and its next startup.

\* classify_plan answers complete: the latest checkpoint's evidence matches
\* the after state, and it is no boundary that host reboots classify apart.
Complete(p) ==
  /\ p \in CompleteEvidence
  /\ checkpoint[p] # "none"
  /\ Planned(p) => checkpoint[p] = "in-reboot"

\* Mutant: a restart closes what it cannot classify as complete.
RestartStateFailed(p) ==
  IF plan[p] \notin InFlightStates THEN plan[p]
  ELSE IF Complete(p) THEN "succeeded" ELSE "failed"

RestartState(p) ==
  IF plan[p] \notin InFlightStates THEN plan[p]
  ELSE IF Complete(p) THEN "succeeded" ELSE "recovery_required"

RestartRun(p) ==
  IF Complete(p) /\ (plan[p] \in InFlightStates \/ run[p] \in OpenRun) /\ run[p] # "none"
  THEN "succeeded"
  ELSE Interrupt(run[p])

\* complete_controller_bootstrap: prepare_startup_recovery and then
\* reconcile_startup_workflows, in one transaction; requests in flight are
\* lost.
Restart ==
  /\ plan' = [p \in Plans |-> RestartState(p)]
  /\ run' = [p \in Plans |-> RestartRun(p)]
  /\ ticket' = [t \in Tickets |-> Idle]
  /\ host' = [h \in Hosts |->
       IF \E p \in Plans : /\ host[h].plan = p
                           /\ Planned(p)
                           /\ RestartState(p) \in InFlightStates
       THEN [host[h] EXCEPT !.state = "recovery_required"]
       ELSE host[h]]
  /\ UNCHANGED <<created, lock, checkpoint, now>>

Tick ==
  /\ now < MaxNow
  /\ now' = now + 1
  /\ UNCHANGED <<plan, created, run, lock, checkpoint, ticket, host>>

-----------------------------------------------------------------------------
Next ==
  \/ \E p \in Plans : CreatePlan(p)
  \/ \E t \in Tickets, p \in Plans, a \in Actions : Prepare(t, p, a)
  \/ \E t \in Tickets : AdapterCheckpoint(t)
  \/ \E t \in Tickets : Finalize(t)
  \/ \E t \in Tickets : Fail(t)
  \/ \E p \in Plans : Reconcile(p)
  \/ ExpireDue
  \/ \E p \in Plans : ManualEnter(p)
  \/ \E h \in Hosts : ManualExit(h)
  \/ \E h \in Hosts : ManualRecovery(h)
  \/ Restart
  \/ Tick

Spec == Init /\ [][Next]_vars

\* The clock advances and the console polls the plan list.
PollingSpec ==
  /\ Spec
  /\ WF_vars(Tick)
  /\ WF_vars(ExpireDue)

-----------------------------------------------------------------------------
\* Safety.

\* A plan that may own remote effects holds every lock it asked for, at every
\* commit: through expiry, failures, restarts, recovery and manual mode
\* ("preserves its existing locks", workflow_recovery.py).
InFlightHoldsLocks ==
  \A p \in Plans : plan[p] \in InFlightStates =>
    \A s \in Requests[p] : lock[s].owner = p

\* No lock outlives its plan: an active row belongs to a plan in flight.  The
\* exception is a plan that startup classified complete: the pass closes it and
\* leaves its rows.
LocksBelongToInFlight ==
  \A s \in Scopes : lock[s].owner # NoPlan =>
    \/ plan[lock[s].owner] \in InFlightStates
    \/ lock[s].owner \in CompleteEvidence /\ plan[lock[s].owner] = "succeeded"

\* Rows carry the same token exactly when they have the same owner, so that
\* release_locks, which selects by token, releases all rows of the plan and no
\* row of another.
TokenIdentifiesOwner ==
  \A s, u \in Scopes : lock[s].owner # NoPlan =>
    (lock[s].token = lock[u].token <=> lock[s].owner = lock[u].owner)

\* Two plans that may own remote effects never overlap in a host, cluster or
\* assignment, whatever their kinds and however their requests interleave
\* (maintenance_plan.md P0.4).
MutualExclusion ==
  \A p, q \in Plans :
    p # q /\ plan[p] \in InFlightStates /\ plan[q] \in InFlightStates =>
      Requests[p] \cap Requests[q] = {}

\* A closed run tells the truth: its status is the final state of its plan
\* (runs of plans that startup classifies complete excepted).
ClosedRunMatchesPlan ==
  \A p \in Plans \ CompleteEvidence : run[p] \in ClosedRun => plan[p] = run[p]

\* A host row outside "available" names a plan in flight that owns the lock of
\* the host, and a manual plan in flight has its host's row: neither a restart
\* nor a failed exit separates the three records.
HostRowMatchesPlan ==
  /\ \A h \in Hosts : host[h].state # "available" =>
       /\ host[h].plan \in Plans
       /\ plan[host[h].plan] \in InFlightStates
       /\ Target[host[h].plan] = h
  /\ \A p \in Plans : Kind[p] = "manual" /\ plan[p] \in InFlightStates =>
       host[Target[p]].plan = p

\* Action properties.

\* An expired row is changed by nothing but the end of a recover request of
\* its owner ("Releasing an expired lock requires state rediscovery",
\* maintenance_plan.md).
ExpiredLockKept ==
  [][\A s \in Scopes :
       lock[s].owner # NoPlan /\ Expired(s) /\ lock'[s] # lock[s] =>
         \E t \in Tickets :
           /\ ticket[t] = [plan |-> lock[s].owner, action |-> "recover"]
           /\ ticket'[t] = Idle]_vars

\* A terminal plan is final and takes no lock again, even when a request that
\* was in flight when it ended comes back.
TerminalIsFinal ==
  [][\A p \in Plans : plan[p] \in TerminalPlanStates =>
       plan'[p] = plan[p] /\ Held(p)' \subseteq Held(p)]_vars

\* Liveness.

\* A planned workflow that is left executing or paused needs no operator to
\* reach recovery_required or an end: once its validity is over, the next plan
\* query moves it (expire_due_workflows).
ExpiryProtects ==
  \A p \in Plans :
    Planned(p) /\ plan[p] \in {"executing", "paused"} /\ created[p] + PlanTTL <= MaxNow
      ~> plan[p] \in TerminalPlanStates \cup {"recovery_required"}

-----------------------------------------------------------------------------
\* Refinement.

Window(p) ==
  IF plan[p] \in InFlightStates THEN "open"
  ELSE IF plan[p] \in TerminalPlanStates THEN "over" ELSE "before"

Windows == INSTANCE MaintenanceWindows WITH
  Needs <- Requests, Extra <- Recovery, Finishable <- CompleteEvidence,
  window <- [p \in Plans |-> Window(p)],
  holding <- [p \in Plans |-> Held(p)]

\* The coordinator implements MaintenanceWindows: whatever the requests, the
\* clock, failures, restarts and recoveries do to plans and lock rows, each
\* step takes or returns all the scopes of one window, or changes nothing of
\* any window.
ImplementsWindows == Windows!WindowsSpec
=============================================================================
