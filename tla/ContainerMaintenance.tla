------------------------ MODULE ContainerMaintenance ------------------------
(***************************************************************************)
(* The planned interruption of one managed workload                        *)
(* (container_maintenance.py) as the routes of workflow_http.py drive it   *)
(* through container_actions.py: prepare, stop and return, each a request  *)
(* on its own connection.                                                  *)
(*                                                                         *)
(* As in HostMaintenance, a request commits at every _durable_boundary and *)
(* when it ends; a step is one remote call, its answer and the writes up   *)
(* to the next commit.  An exception closes the connection without a       *)
(* commit, so that what _recover has written is lost with the rest.        *)
(***************************************************************************)
EXTENDS Naturals

CONSTANTS
  Windows,      \* maintenance plans of kind container_maintenance
  Units,        \* managed workloads
  UnitOf,       \* UnitOf[p]: target_assignment_id of plan p
  UnitHost, UnitCluster,
  DataUnits,    \* the data-bearing ones
  Sessions,     \* requests the controller serves at once
  NoWindow, Batch,
  MainWiring    \* the companion reconciler is the one main.py assembles

ASSUME ContainerAssumption ==
  /\ NoWindow \notin Windows /\ Batch \notin Windows /\ Batch # NoWindow
  /\ UnitOf \in [Windows -> Units]
  /\ DataUnits \subseteq Units
  /\ MainWiring \in BOOLEAN

VARIABLES
  window,   \* maintenance_plans.lifecycle_state, "none" before the preview
  held,     \* lock rows of the plan: "none", "live" or "stale"
  flow,     \* assignment_maintenance_state: workflow_state, active_plan_id
  owner,    \* cluster_assignments.operation_run_id: a plan's run, a batch or none
  changed,  \* plans whose workload's revision has moved since the preview
  fence,    \* maintenance_allocation_guards of the plan: phase, captured setting
  session,  \* requests in flight
  up,       \* remote: the unit is active
  routing   \* remote: cluster.routing.allocation.enable

containerRows == <<window, held, flow, owner, changed, fence>>
containerVars == <<containerRows, session, up, routing>>

ClusterOfWindow(p) == UnitCluster[UnitOf[p]]
ClustersOfUnits == {UnitCluster[a] : a \in Units}
Quiet == [pc |-> "idle", plan |-> NoWindow]
OpenStates == {"ready", "executing", "recovery_required"}

ContainerInit ==
  /\ window = [p \in Windows |-> "none"]
  /\ held = [p \in Windows |-> "none"]
  /\ flow = [a \in Units |-> [state |-> "available", plan |-> NoWindow]]
  /\ owner = [a \in Units |-> NoWindow]
  /\ changed = {}
  /\ fence = [p \in Windows |-> [phase |-> "none", before |-> "all"]]
  /\ session = [t \in Sessions |-> Quiet]
  /\ up = [a \in Units |-> TRUE]
  /\ routing = [c \in ClustersOfUnits |-> "all"]

-----------------------------------------------------------------------------
(* Requests.                                                               *)

Enter(t, pc, p) == session' = [session EXCEPT ![t] = [pc |-> pc, plan |-> p]]
Leave(t) == session' = [session EXCEPT ![t] = Quiet]
\* Nothing since the last boundary is committed.
Raise(t) == Leave(t) /\ UNCHANGED containerRows
SetFlow(p, state) == flow' = [flow EXCEPT ![UnitOf[p]].state = state]
\* A transition expects the revision that the request has read.
FlowIs(p, state) == flow[UnitOf[p]] = [state |-> state, plan |-> p]

\* The preview of MaintenancePlanning.
Preview(p) ==
  /\ window[p] = "none"
  /\ window' = [window EXCEPT ![p] = "ready"]
  /\ UNCHANGED <<held, flow, owner, changed, fence, session, up, routing>>

-----------------------------------------------------------------------------
(* prepare                                                                 *)

\* Mutant: the scope of a plan ends at its host.
ClusterScopeOnHost(p) == {a \in Units : UnitHost[a] = UnitHost[UnitOf[p]]}

\* observe_conflicts: every workload of every cluster the host belongs to.
ClusterScope(p) ==
  {a \in Units : \E b \in Units : UnitHost[b] = UnitHost[UnitOf[p]] /\ UnitCluster[b] = UnitCluster[a]}

Overlap(p, q) == UnitOf[q] \in ClusterScope(p)

\* Mutant: only the selected workload has to be free.
NoOtherOperationSelected(p) == owner[UnitOf[p]] = NoWindow

\* Claims by runs under way.
NoOtherOperation(p) == \A a \in ClusterScope(p) : owner[a] = NoWindow

Conflicting(p) ==
  \E q \in Windows \ {p} : Overlap(p, q) /\ (window[q] \in OpenStates \/ held[q] # "none")

\* execution.prepare, the claim and the assignment row are one transaction:
\* up to the guard of a data-bearing workload, or all of the request.
Prepare(t, p) ==
  /\ session[t] = Quiet
  /\ window[p] = "ready" /\ ~Conflicting(p) /\ NoOtherOperation(p)
  /\ p \notin changed
  /\ flow[UnitOf[p]].state = "available"
  /\ window' = [window EXCEPT ![p] = "executing"]
  /\ held' = [held EXCEPT ![p] = "live"]
  /\ owner' = [owner EXCEPT ![UnitOf[p]] = p]
  /\ IF UnitOf[p] \in DataUnits
     THEN /\ flow' = [flow EXCEPT ![UnitOf[p]] = [state |-> "preparing", plan |-> p]]
          /\ Enter(t, "capture", p)
     ELSE /\ flow' = [flow EXCEPT ![UnitOf[p]] = [state |-> "ready_to_stop", plan |-> p]]
          /\ UNCHANGED session
  /\ UNCHANGED <<changed, fence, up, routing>>

CaptureFence(t) ==
  LET p == session[t].plan
      c == ClusterOfWindow(p)
  IN  /\ session[t].pc = "capture"
      /\ \/ /\ \A q \in Windows : ClusterOfWindow(q) = c => fence[q].phase \in {"none", "restored"}
            /\ fence' = [fence EXCEPT ![p] = [phase |-> "captured", before |-> routing[c]]]
            /\ Enter(t, "activate", p)
            /\ UNCHANGED <<window, held, flow, owner, changed>>
         \/ Raise(t)
      /\ UNCHANGED <<up, routing>>

\* What the cluster and the returned checkpoint may be; no failure raises.
Activated(before) ==
  {[phase |-> "active", routing |-> "primaries"],
   [phase |-> "restored", routing |-> before]}
  \cup {[phase |-> "recovery_required", routing |-> r] : r \in {before, "primaries"}}

\* The phase is persisted and not looked at.
ActivateFence(t) ==
  LET p == session[t].plan
      c == ClusterOfWindow(p)
  IN  /\ session[t].pc = "activate"
      /\ \/ /\ FlowIs(p, "preparing")
            /\ \E r \in Activated(fence[p].before) :
                 /\ fence' = [fence EXCEPT ![p].phase = r.phase]
                 /\ routing' = [routing EXCEPT ![c] = r.routing]
            /\ SetFlow(p, "ready_to_stop")
            /\ Leave(t)
            /\ UNCHANGED <<window, held, owner, changed>>
         \/ /\ \E r \in {routing[c], "primaries"} : routing' = [routing EXCEPT ![c] = r]
            /\ Raise(t)
      /\ UNCHANGED up

-----------------------------------------------------------------------------
(* stop and return                                                         *)

\* _require_assignment_state and _ticket
Opened(t, p, state) == session[t] = Quiet /\ FlowIs(p, state) /\ held[p] # "none"

\* Mutant: the intent is written together with the confirmation.
StopIntentLate(p) == "ready_to_stop"

StopIntent(p) == "stopping"

BeginStop(t, p) ==
  /\ Opened(t, p, "ready_to_stop")
  /\ SetFlow(p, StopIntent(p))
  /\ Enter(t, "stop", p)
  /\ UNCHANGED <<window, held, owner, changed, fence, up, routing>>

StopUnit(t) ==
  LET p == session[t].plan
      a == UnitOf[p]
  IN  /\ session[t].pc = "stop"
      /\ \/ /\ FlowIs(p, StopIntent(p))
            /\ up' = [up EXCEPT ![a] = FALSE]
            /\ SetFlow(p, "maintenance")
            /\ Leave(t)
            /\ UNCHANGED <<window, held, owner, changed, fence>>
         \/ /\ \E u \in {up[a], FALSE} : up' = [up EXCEPT ![a] = u]
            /\ Raise(t)
      /\ UNCHANGED routing

BeginReturn(t, p) ==
  /\ Opened(t, p, "maintenance")
  /\ SetFlow(p, "returning")
  /\ Enter(t, "start", p)
  /\ UNCHANGED <<window, held, owner, changed, fence, up, routing>>

StartUnit(t) ==
  LET p == session[t].plan
      a == UnitOf[p]
  IN  /\ session[t].pc = "start"
      /\ \/ /\ FlowIs(p, "returning")
            /\ up' = [up EXCEPT ![a] = TRUE]
            /\ SetFlow(p, "verifying")
            /\ Enter(t, "ready", p)
            /\ UNCHANGED <<window, held, owner, changed, fence>>
         \/ /\ \E u \in {up[a], TRUE} : up' = [up EXCEPT ![a] = u]
            /\ Raise(t)
      /\ UNCHANGED routing

UnitReady(t) ==
  /\ session[t].pc = "ready"
  /\ \/ /\ up[UnitOf[session[t].plan]]
        /\ Enter(t, "companions", session[t].plan)
        /\ UNCHANGED containerRows
     \/ Raise(t)
  /\ UNCHANGED <<up, routing>>

\* Mutant: the rows are closed and the locks stay.
HeldAfterKept(p) == held[p]

HeldAfter(p) == "none"

\* Mutant: only the state of the row is reset.
RowAfterState(p) == [state |-> "available", plan |-> p]

RowAfter(p) == [state |-> "available", plan |-> NoWindow]

\* The claim, the row and finalize: one transaction with the answer before it.
Finished(t) ==
  LET p == session[t].plan
      a == UnitOf[p]
  IN  /\ owner[a] = p /\ FlowIs(p, "verifying")
      /\ window[p] \in {"executing", "recovery_required"} /\ held[p] = "live"
      /\ owner' = [owner EXCEPT ![a] = NoWindow]
      /\ flow' = [flow EXCEPT ![a] = RowAfter(p)]
      /\ window' = [window EXCEPT ![p] = "succeeded"]
      /\ held' = [held EXCEPT ![p] = HeldAfter(p)]
      /\ Leave(t)
      /\ UNCHANGED changed

\* launch_assignments refuses while an operation of the cluster is under way;
\* another reconciler may schedule what it likes.
CompanionsAccepted(p) ==
  MainWiring => \A a \in Units : UnitCluster[a] = ClusterOfWindow(p) => owner[a] = NoWindow

Companions(t) ==
  LET p == session[t].plan
  IN  /\ session[t].pc = "companions"
      /\ \/ /\ CompanionsAccepted(p) /\ UnitOf[p] \in DataUnits
            /\ Enter(t, "restore", p)
            /\ UNCHANGED containerRows
         \/ /\ CompanionsAccepted(p) /\ UnitOf[p] \notin DataUnits
            /\ Finished(t)
            /\ UNCHANGED fence
         \/ Raise(t)
      /\ UNCHANGED <<up, routing>>

\* Mutant: the row is closed although the setting was not verified.
RestoredUnverified(g, now) ==
  {[phase |-> "restored", routing |-> r] : r \in {g.before, now}}

Restored(g, now) ==
  IF g.phase = "restored" THEN {[phase |-> "restored", routing |-> now]}
  ELSE {[phase |-> "restored", routing |-> g.before]}
       \cup {[phase |-> "recovery_required", routing |-> r] : r \in {g.before, now}}

\* The phase is persisted and not looked at.
RestoreFence(t) ==
  LET p == session[t].plan
      c == ClusterOfWindow(p)
  IN  /\ session[t].pc = "restore"
      /\ \/ /\ \E r \in Restored(fence[p], routing[c]) :
                 /\ fence' = [fence EXCEPT ![p].phase = r.phase]
                 /\ routing' = [routing EXCEPT ![c] = r.routing]
            /\ Finished(t)
         \/ /\ \E r \in {routing[c], fence[p].before} : routing' = [routing EXCEPT ![c] = r]
            /\ Raise(t)
      /\ UNCHANGED up

-----------------------------------------------------------------------------
(* Others.                                                                 *)

\* A batch (WorkloadChanges) claims a workload of a cluster without locks.
BatchClaims(a) ==
  /\ owner[a] = NoWindow
  /\ \A p \in Windows : ClusterOfWindow(p) = UnitCluster[a] => held[p] = "none"
  /\ owner' = [owner EXCEPT ![a] = Batch]
  /\ UNCHANGED <<window, held, flow, changed, fence, session, up, routing>>

BatchEnds(a) ==
  /\ owner[a] = Batch
  /\ owner' = [owner EXCEPT ![a] = NoWindow]
  /\ changed' \in {changed, changed \cup {p \in Windows : UnitOf[p] = a /\ window[p] # "none"}}
  /\ UNCHANGED <<window, held, flow, fence, session, up, routing>>

\* The 300 s of the lock rows pass; nothing renews them.
LocksExpire(p) ==
  /\ held[p] = "live"
  /\ held' = [held EXCEPT ![p] = "stale"]
  /\ UNCHANGED <<window, flow, owner, changed, fence, session, up, routing>>

Recovered(P) ==
  /\ window' = [p \in Windows |-> IF p \in P THEN "recovery_required" ELSE window[p]]
  /\ flow' = [a \in Units |-> IF flow[a].plan \in P
                              THEN [flow[a] EXCEPT !.state = "recovery_required"] ELSE flow[a]]
  /\ UNCHANGED <<held, owner, changed, fence, up, routing>>

\* The expiry of a plan that is read, or the recover route.
ReconcileWindow(p) ==
  /\ window[p] \in {"executing", "recovery_required"}
  /\ Recovered({p})
  /\ UNCHANGED session

ControllerRestart ==
  /\ Recovered({p \in Windows : window[p] \in {"executing", "recovery_required"}})
  /\ session' = [t \in Sessions |-> Quiet]

ContainerNext ==
  \/ \E p \in Windows : Preview(p) \/ LocksExpire(p) \/ ReconcileWindow(p)
  \/ \E t \in Sessions, p \in Windows : Prepare(t, p) \/ BeginStop(t, p) \/ BeginReturn(t, p)
  \/ \E t \in Sessions :
       \/ CaptureFence(t) \/ ActivateFence(t) \/ StopUnit(t) \/ StartUnit(t)
       \/ UnitReady(t) \/ Companions(t) \/ RestoreFence(t)
  \/ \E a \in Units : BatchClaims(a) \/ BatchEnds(a)
  \/ ControllerRestart

ContainerSpec == ContainerInit /\ [][ContainerNext]_containerVars

-----------------------------------------------------------------------------

Phases == {"captured", "active", "restored", "recovery_required"}

\* The type of the state: an assignment row names a plan exactly when it is
\* not available.
ContainerTypeOK ==
  /\ window \in [Windows -> OpenStates \cup {"none", "succeeded"}]
  /\ held \in [Windows -> {"none", "live", "stale"}]
  /\ owner \in [Units -> Windows \cup {NoWindow, Batch}]
  /\ fence \in [Windows -> [phase : Phases \cup {"none"}, before : {"all", "primaries"}]]
  /\ up \in [Units -> BOOLEAN] /\ routing \in [ClustersOfUnits -> {"all", "primaries"}]
  /\ \A a \in Units : (flow[a].state = "available") <=> (flow[a].plan = NoWindow)

\* A unit is down only under a durable record that names the plan, and under
\* that plan's claim: a crash or a lost answer never leaves a stopped unit
\* that the controller believes in service.
StopRecorded ==
  \A a \in Units : ~up[a] =>
    /\ flow[a].state \in {"stopping", "maintenance", "returning", "recovery_required"}
    /\ owner[a] = flow[a].plan

\* At most one workload of a cluster is interrupted at a time, also after the
\* locks of an abandoned window have expired and the controller has restarted.
OneInterrupted ==
  \A a, b \in Units : UnitCluster[a] = UnitCluster[b] /\ ~up[a] /\ ~up[b] => a = b

\* A cluster whose replicas may not allocate is known by a guard row that is
\* not restored, however the request ended.
FenceRecorded ==
  \A c \in ClustersOfUnits : routing[c] = "primaries" =>
    \E p \in Windows : ClusterOfWindow(p) = c /\ fence[p].phase \in Phases \ {"restored"}

\* A batch and a maintenance window never work in one cluster at once, from
\* whichever side the second arrives.
BatchOrWindow ==
  \A a \in Units : owner[a] = Batch =>
    \A p \in Windows : ClusterOfWindow(p) = UnitCluster[a] => held[p] = "none"

\* A window ends with the unit active, the claim and the locks given back and
\* no plan in the row, in one transaction.
WindowEndsWhole ==
  [][\A p \in Windows : window[p] # "succeeded" /\ window'[p] = "succeeded" =>
       /\ up'[UnitOf[p]] /\ owner'[UnitOf[p]] = NoWindow
       /\ held'[p] = "none" /\ flow'[UnitOf[p]].plan = NoWindow]_containerVars

\* Through crashes, lost answers, expiry and batches on the same column: what
\* is stopped or restricted is recorded, and one thing at a time is done to a
\* cluster.
ContainerInvariant ==
  /\ ContainerTypeOK
  /\ StopRecorded
  /\ FenceRecorded
  /\ OneInterrupted
  /\ BatchOrWindow

-----------------------------------------------------------------------------
\* STATUS.md: "Return verifies the same unit, reconciles only that assignment's
\* companions".  With the wiring of main.py the reconciler asks for the
\* operations of the cluster, and the window's own claim is one: a return that
\* nothing else stands against is refused.
CompanionsSchedulable ==
  \A t \in Sessions : session[t].pc = "companions" =>
    LET p == session[t].plan
    IN  (\A a \in Units \ {UnitOf[p]} : owner[a] = NoWindow) => CompanionsAccepted(p)
=============================================================================
