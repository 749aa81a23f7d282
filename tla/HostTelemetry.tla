--------------------------- MODULE HostTelemetry ----------------------------
(***************************************************************************)
(* The host loops of the telemetry collector (observability/collector.py): *)
(* a slow loop that takes inventory of every enabled host over SSH and a   *)
(* tunnel to its Podman socket, and a fast loop that samples resources of  *)
(* the hosts the slow one has found ready.  Both write the state the       *)
(* dashboard and maintenance read; the slow one also stores it.            *)
(*                                                                         *)
(* Each loop reads the inventory once per pass and then awaits the hosts,  *)
(* while the operator edits, deletes and adds hosts; a pass begins when    *)
(* the one before has ended.  What follows an await up to the next is one  *)
(* step.                                                                   *)
(***************************************************************************)
EXTENDS Naturals

CONSTANTS
  RowIds,       \* ids of rows of nodes; the id of a deleted row comes back
  Addresses,    \* machines
  NoAddress,
  FirstRoster,  \* the inventory at first: row id to machine
  MaxTime,      \* bound on the clock
  MaxFaults     \* bound on changes of the machines and the inventory

ASSUME HostTelemetryAssumption ==
  /\ NoAddress \notin Addresses /\ FirstRoster \in [RowIds -> Addresses \cup {NoAddress}]
  /\ MaxTime \in Nat /\ MaxFaults \in Nat

VARIABLES
  roster,       \* nodes: [address, enabled] of each row id
  remotes,      \* what each machine answers: "down", "bare" (not initialized), "ready"
  runtimeRows,  \* host_runtime_observations
  unstored,     \* history: rows whose last report could not be stored
  hostStates,   \* TelemetryManager.host_states
  tunnels,      \* machine each open tunnel leads to
  slow, fast,   \* probes in flight
  clock, faults

rosterVars == <<roster, remotes, faults>>
storedVars == <<runtimeRows, unstored>>
telemetryVars == <<rosterVars, storedVars, hostStates, tunnels, slow, fast, clock>>

NoHost == [address |-> NoAddress, enabled |-> FALSE]
NoState == [at |-> 0, reachable |-> FALSE, initialized |-> FALSE, socket |-> FALSE,
            sampled |-> 0]
NoReport == [at |-> 0, reachable |-> FALSE, initialized |-> FALSE, socket |-> FALSE]
NoProbe == [address |-> NoAddress, at |-> 0, phase |-> "idle"]
NoSampling == [address |-> NoAddress, at |-> 0, state |-> NoState]

EnabledHosts == {id \in RowIds : roster[id].enabled}

HostTelemetryInit ==
  /\ roster = [id \in RowIds |-> [address |-> FirstRoster[id],
                                  enabled |-> FirstRoster[id] # NoAddress]]
  /\ remotes \in [Addresses -> {"bare", "ready"}]
  /\ runtimeRows = [id \in RowIds |-> NoReport] /\ unstored = {}
  /\ hostStates = [id \in RowIds |-> NoState]
  /\ tunnels = [id \in RowIds |-> NoAddress]
  /\ slow = [id \in RowIds |-> NoProbe] /\ fast = [id \in RowIds |-> NoSampling]
  /\ clock = 1 /\ faults = 0

-----------------------------------------------------------------------------
(* Inventory and machines.                                                 *)

Disturb == faults < MaxFaults /\ faults' = faults + 1
LoopsUnchanged == UNCHANGED <<hostStates, tunnels, slow, fast, clock>>

AddHost(id, a) ==
  /\ roster[id] = NoHost /\ Disturb
  /\ roster' = [roster EXCEPT ![id] = [address |-> a, enabled |-> TRUE]]
  /\ UNCHANGED <<remotes, storedVars>> /\ LoopsUnchanged

\* Nothing tells the collector: state, tunnel and probes go on as they were.
EditHost(id, a, on) ==
  /\ roster[id] # NoHost /\ roster[id] # [address |-> a, enabled |-> on] /\ Disturb
  /\ roster' = [roster EXCEPT ![id] = [address |-> a, enabled |-> on]]
  /\ UNCHANGED <<remotes, storedVars>> /\ LoopsUnchanged

\* The stored report goes with the row.
DeleteHost(id) ==
  /\ roster[id] # NoHost /\ Disturb
  /\ roster' = [roster EXCEPT ![id] = NoHost]
  /\ runtimeRows' = [runtimeRows EXCEPT ![id] = NoReport]
  /\ UNCHANGED <<remotes, unstored>> /\ LoopsUnchanged

MachineChanges(a, answer) ==
  /\ remotes[a] # answer /\ Disturb
  /\ remotes' = [remotes EXCEPT ![a] = answer]
  /\ UNCHANGED <<roster, storedVars>> /\ LoopsUnchanged

TunnelDies(id) ==
  /\ tunnels[id] # NoAddress
  /\ tunnels' = [tunnels EXCEPT ![id] = NoAddress]
  /\ UNCHANGED <<rosterVars, storedVars, hostStates, slow, fast, clock>>

-----------------------------------------------------------------------------
(* SSH sessions and tunnels (observability/tunnels.py).                    *)

\* A command for the machine of the probe.  The control socket is named after
\* the row id: while the other loop still uses another address of the host, a
\* command may go through the session of that one.
Reached(id, a) ==
  {a} \cup ({slow[id].address, fast[id].address} \ {NoAddress})

\* A tunnel that is open is kept, wherever it leads.
TunnelTo(id, a) == IF tunnels[id] # NoAddress THEN tunnels[id] ELSE a

-----------------------------------------------------------------------------
(* The slow loop.                                                          *)

SlowPass ==
  /\ \A id \in RowIds : slow[id] = NoProbe
  /\ EnabledHosts # {}
  /\ slow' = [id \in RowIds |->
       IF id \in EnabledHosts
       THEN [address |-> roster[id].address, at |-> clock, phase |-> "identity"] ELSE NoProbe]
  /\ UNCHANGED <<rosterVars, storedVars, hostStates, tunnels, fast, clock>>

Report(id, reachable, initialized, socket) ==
  [at |-> slow[id].at, reachable |-> reachable, initialized |-> initialized, socket |-> socket]

ShownReport(id) ==
  [at |-> hostStates[id].at, reachable |-> hostStates[id].reachable,
   initialized |-> hostStates[id].initialized, socket |-> hostStates[id].socket]

\* Mutant: the row is written from the state that was just replaced.
StoredReportBefore(id, report) == ShownReport(id)

\* record_host_runtime
StoredReport(id, report) == report

\* The row refers to the host.
Storable(id) == roster[id] # NoHost

\* The end of a probe.  The report is shown first, with the sample of the state
\* there is by now, and then stored.  Storing fails for a host that is gone, and
\* for any host while another writer holds the database; the failure ends the
\* probe and is not noted.
Recorded(id, report) ==
  /\ hostStates' = [hostStates EXCEPT ![id] =
       [at |-> report.at, reachable |-> report.reachable, initialized |-> report.initialized,
        socket |-> report.socket, sampled |-> hostStates[id].sampled]]
  /\ slow' = [slow EXCEPT ![id] = NoProbe]
  /\ \/ /\ Storable(id)
        /\ runtimeRows' = [runtimeRows EXCEPT ![id] = StoredReport(id, report)]
        /\ unstored' = unstored \ {id}
     \/ /\ runtimeRows' = runtimeRows
        /\ unstored' = unstored \cup {id}

\* Mutant: only a failed probe closes the tunnel, not one that finds the host
\* without its marker.
AfterBareKept(id) == tunnels

AfterBare(id) == [tunnels EXCEPT ![id] = NoAddress]

SlowIdentity(id) ==
  /\ slow[id].phase = "identity"
  /\ \E m \in Reached(id, slow[id].address) :
       \/ /\ Recorded(id, Report(id, FALSE, FALSE, FALSE))
          /\ tunnels' = [tunnels EXCEPT ![id] = NoAddress]
       \/ /\ remotes[m] = "bare"
          /\ Recorded(id, Report(id, TRUE, FALSE, FALSE))
          /\ tunnels' = AfterBare(id)
       \/ /\ remotes[m] = "ready"
          /\ slow' = [slow EXCEPT ![id].phase = "tunnel"]
          /\ UNCHANGED <<hostStates, storedVars, tunnels>>
  /\ UNCHANGED <<rosterVars, fast, clock>>

SlowTunnel(id) ==
  LET m == TunnelTo(id, slow[id].address)
  IN  /\ slow[id].phase = "tunnel"
      /\ \/ /\ m = tunnels[id] \/ remotes[m] # "down"
            /\ tunnels' = [tunnels EXCEPT ![id] = m]
            /\ slow' = [slow EXCEPT ![id].phase = "list"]
            /\ UNCHANGED <<hostStates, storedVars>>
         \/ /\ tunnels' = [tunnels EXCEPT ![id] = NoAddress]
            /\ Recorded(id, Report(id, TRUE, TRUE, FALSE))
      /\ UNCHANGED <<rosterVars, fast, clock>>

\* Containers and pods as the tunnel's machine lists them.
SlowList(id) ==
  /\ slow[id].phase = "list"
  /\ \/ /\ tunnels[id] # NoAddress /\ remotes[tunnels[id]] = "ready"
        /\ Recorded(id, Report(id, TRUE, TRUE, TRUE))
        /\ UNCHANGED tunnels
     \/ /\ Recorded(id, Report(id, TRUE, TRUE, FALSE))
        /\ tunnels' = [tunnels EXCEPT ![id] = NoAddress]
  /\ UNCHANGED <<rosterVars, fast, clock>>

-----------------------------------------------------------------------------
(* The fast loop.                                                          *)

\* The state in memory, else the one of the stored report.
KnownState(id) ==
  IF hostStates[id] # NoState \/ runtimeRows[id] = NoReport THEN hostStates[id]
  ELSE [at |-> runtimeRows[id].at, reachable |-> runtimeRows[id].reachable,
        initialized |-> runtimeRows[id].initialized, socket |-> runtimeRows[id].socket,
        sampled |-> 0]

Samplable(id) == id \in EnabledHosts /\ KnownState(id).reachable /\ KnownState(id).initialized

FastPass ==
  /\ \A id \in RowIds : fast[id] = NoSampling
  /\ \E id \in RowIds : Samplable(id)
  /\ hostStates' = [id \in RowIds |-> IF id \in EnabledHosts THEN KnownState(id) ELSE hostStates[id]]
  /\ fast' = [id \in RowIds |->
       IF Samplable(id)
       THEN [address |-> roster[id].address, at |-> clock, state |-> KnownState(id)]
       ELSE NoSampling]
  /\ UNCHANGED <<rosterVars, storedVars, tunnels, slow, clock>>

\* Mutant: the sample is added to the state the probe began with.
SampledStateAsRead(id) == fast[id].state

\* The state there is by now.
SampledState(id) == hostStates[id]

FastSample(id) ==
  /\ fast[id] # NoSampling
  /\ \/ /\ \E m \in Reached(id, fast[id].address) : remotes[m] # "down"
        /\ hostStates' = [hostStates EXCEPT ![id] =
                            [SampledState(id) EXCEPT !.sampled = fast[id].at]]
     \* the error is noted beside the last sample
     \/ UNCHANGED hostStates
  /\ fast' = [fast EXCEPT ![id] = NoSampling]
  /\ UNCHANGED <<rosterVars, storedVars, tunnels, slow, clock>>

-----------------------------------------------------------------------------

TelemetryTick ==
  /\ clock < MaxTime /\ clock' = clock + 1
  /\ UNCHANGED <<rosterVars, storedVars, hostStates, tunnels, slow, fast>>

\* The loops are cancelled and the tunnels closed; reports stay.
TelemetryRestart ==
  /\ hostStates' = [id \in RowIds |-> NoState]
  /\ tunnels' = [id \in RowIds |-> NoAddress]
  /\ slow' = [id \in RowIds |-> NoProbe] /\ fast' = [id \in RowIds |-> NoSampling]
  /\ unstored' = {} /\ UNCHANGED <<rosterVars, runtimeRows, clock>>

HostTelemetryNext ==
  \/ \E id \in RowIds :
       \/ \E a \in Addresses : AddHost(id, a) \/ \E on \in BOOLEAN : EditHost(id, a, on)
       \/ DeleteHost(id) \/ TunnelDies(id)
       \/ SlowIdentity(id) \/ SlowTunnel(id) \/ SlowList(id) \/ FastSample(id)
  \/ \E a \in Addresses, answer \in {"down", "bare", "ready"} : MachineChanges(a, answer)
  \/ SlowPass \/ FastPass \/ TelemetryTick \/ TelemetryRestart

HostTelemetrySpec == HostTelemetryInit /\ [][HostTelemetryNext]_telemetryVars

-----------------------------------------------------------------------------

\* The type of the state.  A report is stored for hosts of the inventory only.
HostTelemetryTypeOK ==
  /\ tunnels \in [RowIds -> Addresses \cup {NoAddress}]
  /\ \A id \in RowIds :
       /\ hostStates[id].at <= clock /\ hostStates[id].sampled <= clock
       /\ roster[id] = NoHost => runtimeRows[id] = NoReport
       /\ slow[id].phase \in {"idle", "identity", "tunnel", "list"}
       /\ hostStates[id].socket => hostStates[id].reachable /\ hostStates[id].initialized

\* The two loops write one state per host from what they read before they
\* awaited the host, and neither takes it back behind what the other has found
\* meanwhile; a restart begins afresh.
LoopsKeepEachOther ==
  [][\A id \in RowIds : hostStates'[id] # NoState =>
       hostStates'[id].at >= hostStates[id].at
       /\ hostStates'[id].sampled >= hostStates[id].sampled]_telemetryVars

\* What a restart will find stored of a host is what the dashboard and the
\* maintenance checks are shown now, unless the last report of the host could
\* not be stored: then it is not newer than what is shown.  This holds also
\* after hosts were deleted and their ids given to others in the middle of a
\* probe, and after a state was loaded from a row that had fallen behind.
ReportAsShown ==
  \A id \in RowIds : runtimeRows[id] # NoReport /\ hostStates[id] # NoState =>
    /\ runtimeRows[id].at <= hostStates[id].at
    /\ id \notin unstored => ShownReport(id) = runtimeRows[id]

\* A host that is shown without its Podman socket has no tunnel left open by
\* the probes before, whatever branch they ended in.
NoTunnelLeft ==
  \A id \in RowIds :
    slow[id] = NoProbe /\ hostStates[id] # NoState /\ ~hostStates[id].socket =>
      tunnels[id] = NoAddress

\* Memory, database and tunnels agree on what is known of a host.
HostTelemetryInvariant ==
  /\ HostTelemetryTypeOK
  /\ ReportAsShown
  /\ NoTunnelLeft
=============================================================================
