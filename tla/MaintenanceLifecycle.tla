------------------------ MODULE MaintenanceLifecycle ------------------------
(***************************************************************************)
(* The lifecycle vocabularies and transition tables of                     *)
(* app/modules/maintenance/lifecycle.py.  The tables are enforced twice by *)
(* the program: by validate_transition before every UPDATE and by SQLite   *)
(* triggers generated from the same dictionaries.  Here each table is the  *)
(* set of its legal <<current, target>> pairs.                             *)
(***************************************************************************)

MaintenanceState ==
  {"draft", "ready", "blocked", "executing", "paused", "recovery_required",
   "succeeded", "failed", "cancelled"}

TerminalPlanStates == {"succeeded", "failed", "cancelled"}

\* The states the partial unique indexes ux_maintenance_active_*_plan cover.
ActivePlanStates == {"ready", "executing", "paused", "recovery_required"}

\* The states in which a plan may own remote effects (list_recovery_plans).
InFlightStates == {"executing", "paused", "recovery_required"}

PlanTransitions ==
  {<<"draft", "ready">>, <<"draft", "blocked">>, <<"draft", "cancelled">>,
   <<"ready", "executing">>, <<"ready", "blocked">>, <<"ready", "cancelled">>,
   <<"blocked", "draft">>, <<"blocked", "ready">>, <<"blocked", "failed">>,
   <<"blocked", "cancelled">>,
   <<"executing", "paused">>, <<"executing", "recovery_required">>,
   <<"executing", "succeeded">>, <<"executing", "failed">>,
   <<"paused", "executing">>, <<"paused", "recovery_required">>,
   <<"paused", "failed">>, <<"paused", "cancelled">>,
   <<"recovery_required", "executing">>, <<"recovery_required", "succeeded">>,
   <<"recovery_required", "failed">>, <<"recovery_required", "cancelled">>}

HostMaintenanceState ==
  {"available", "planning", "maintenance", "draining", "recovery_required"}

HostTransitions ==
  {<<"available", "planning">>,
   <<"planning", "available">>, <<"planning", "maintenance">>,
   <<"planning", "recovery_required">>,
   <<"maintenance", "available">>, <<"maintenance", "draining">>,
   <<"maintenance", "recovery_required">>,
   <<"draining", "available">>, <<"draining", "maintenance">>,
   <<"draining", "recovery_required">>,
   <<"recovery_required", "available">>, <<"recovery_required", "planning">>,
   <<"recovery_required", "maintenance">>}

\* MaintenanceWorkflowState (planned_contracts.py), the state of the workflow
\* columns of host and assignment rows.
MaintenanceWorkflowState ==
  {"available", "preparing", "ready_to_stop", "stopping", "maintenance",
   "returning", "verifying", "blocked", "recovery_required"}

\* Run statuses of app/modules/platform/runs.py; a run row is created queued
\* and moved to running in the same transaction, so "queued" is never seen
\* for a maintenance run.
RunStatus == {"running", "succeeded", "failed", "cancelled", "recovery_required"}
ClosedRun == {"succeeded", "failed", "cancelled"}
OpenRun == RunStatus \ ClosedRun
=============================================================================
