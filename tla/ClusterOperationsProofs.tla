----------------------- MODULE ClusterOperationsProofs -----------------------
(***************************************************************************)
(* Proofs about the operations on clusters: the planned interruption of    *)
(* one workload, the zones of hosts and clusters, and the versions that    *)
(* workloads run, for every set of plans, workloads, hosts, releases and   *)
(* concurrent requests.                                                    *)
(*                                                                         *)
(* ContainerInvariant is not inductive: a stop whose answer is lost takes  *)
(* the unit down whatever the rows say by then, and an activation whose    *)
(* answer is lost restricts the cluster.  So the rows of a unit and the    *)
(* request at work on it must agree (SessionOK), which again needs that a  *)
(* plan has one request at a time (OneSession), that a unit's row and      *)
(* claim name one plan (UnitOK) and that a cluster has one claim           *)
(* (OneOwner).                                                             *)
(*                                                                         *)
(* ZoningInvariant needs what a run in flight relies on: claims name the   *)
(* change of the workload's host (ClaimsOK), workloads lie on hosts of     *)
(* their cluster (Placed), a run knows which workloads run with which      *)
(* zone (RunOK), and the zone a failing change puts back is one the        *)
(* catalogs name (OldZoneNamed).                                           *)
(*                                                                         *)
(* VersionsSafe needs that every cached image was served for its release   *)
(* (ServedOK), that a row which would allow an upgrade is of a workload    *)
(* seen running, or of an id that a probe of the workload before has       *)
(* answered for (SeenOK), and that a probe has only workloads left that    *)
(* are assigned or were removed since its launch (VersionRunsOK).          *)
(***************************************************************************)
EXTENDS ContainerMaintenance, ClusterZoning, StackVersions, FiniteSetTheorems,
        WellFoundedInduction, TLAPS

-----------------------------------------------------------------------------
(* The container window.                                                   *)

FlowStates ==
  {"available", "preparing", "ready_to_stop", "stopping", "maintenance", "returning",
   "verifying", "recovery_required"}
SessionPCs == {"idle", "capture", "activate", "stop", "start", "ready", "companions", "restore"}
FlowRows == [state : FlowStates, plan : Windows \cup {NoWindow}]
SessionRecords == [pc : SessionPCs, plan : Windows \cup {NoWindow}]

Shape ==
  /\ window \in [Windows -> OpenStates \cup {"none", "succeeded"}]
  /\ held \in [Windows -> {"none", "live", "stale"}]
  /\ owner \in [Units -> Windows \cup {NoWindow, Batch}]
  /\ fence \in [Windows -> [phase : Phases \cup {"none"}, before : {"all", "primaries"}]]
  /\ up \in [Units -> BOOLEAN]
  /\ routing \in [ClustersOfUnits -> {"all", "primaries"}]
  /\ flow \in [Units -> FlowRows]
  /\ session \in [Sessions -> SessionRecords]

\* The row, the claim and the remote unit of one workload.
UnitOK(a) ==
  /\ flow[a].state = "available" <=> flow[a].plan = NoWindow
  /\ flow[a].plan # NoWindow => owner[a] = flow[a].plan /\ UnitOf[flow[a].plan] = a
  /\ owner[a] \in Windows => flow[a].plan = owner[a]
  /\ ~up[a] =>
       flow[a].state \in {"stopping", "maintenance", "returning", "recovery_required"}

\* A request and the row it has written last; recovery may have come between.
RequestRow(s) ==
  LET row == flow[UnitOf[s.plan]] IN
  /\ s.plan \in Windows /\ row.plan = s.plan
  /\ s.pc \in {"capture", "activate"} => row.state \in {"preparing", "recovery_required"}
  /\ s.pc = "stop" => row.state \in {"stopping", "recovery_required"}
  /\ s.pc = "start" => row.state \in {"returning", "recovery_required"}
  /\ s.pc \in {"ready", "companions", "restore"} =>
       row.state \in {"verifying", "recovery_required"}
  /\ s.pc = "activate" => fence[s.plan].phase = "captured"

SessionOK(t) ==
  /\ session[t].pc = "idle" => session[t] = Quiet
  /\ session[t].pc # "idle" => RequestRow(session[t])

OneSession ==
  \A t, u \in Sessions :
    session[t].pc # "idle" /\ session[u].pc # "idle" /\ session[t].plan = session[u].plan
      => t = u

\* A cluster has at most one workload under a window.
OneOwner ==
  \A a, b \in Units :
    UnitCluster[a] = UnitCluster[b] /\ owner[a] \in Windows /\ owner[b] \in Windows => a = b

\* What a guard captured is never the restriction of another one.
CapturedAll == \A p \in Windows : fence[p].before = "all"

WindowInv ==
  /\ Shape
  /\ \A a \in Units : UnitOK(a)
  /\ \A t \in Sessions : SessionOK(t)
  /\ OneSession
  /\ OneOwner
  /\ CapturedAll
  /\ FenceRecorded
  /\ BatchOrWindow

\* The clusters that matter, and the constants' shape.
LEMMA WindowFacts ==
  ASSUME NEW p \in Windows
  PROVE  /\ UnitOf[p] \in Units /\ ClusterOfWindow(p) \in ClustersOfUnits
         /\ p # NoWindow /\ p # Batch
BY ContainerAssumption DEF ClusterOfWindow, ClustersOfUnits

\* WindowInv is stronger than what the run checks.
LEMMA WindowImplies == WindowInv => ContainerInvariant
<1> SUFFICES ASSUME WindowInv PROVE ContainerInvariant
  OBVIOUS
<1>1. ContainerTypeOK
  BY DEF WindowInv, Shape, UnitOK, ContainerTypeOK
<1>2. StopRecorded
  BY DEF WindowInv, UnitOK, StopRecorded
<1>3. OneInterrupted
  <2> SUFFICES ASSUME NEW a \in Units, NEW b \in Units, UnitCluster[a] = UnitCluster[b],
                      ~up[a], ~up[b]
               PROVE  a = b
    BY DEF OneInterrupted
  <2>1. ASSUME NEW x \in Units, ~up[x] PROVE owner[x] \in Windows
    BY <2>1 DEF WindowInv, Shape, UnitOK, FlowRows
  <2> QED BY <2>1 DEF WindowInv, OneOwner
<1> QED BY <1>1, <1>2, <1>3 DEF WindowInv, ContainerInvariant

-----------------------------------------------------------------------------
\* What a step of plan p and request t leaves alone

Elsewhere(p) ==
  /\ \A a \in Units \ {UnitOf[p]} :
       flow'[a] = flow[a] /\ owner'[a] = owner[a] /\ up'[a] = up[a]
  /\ \A q \in Windows \ {p} : fence'[q] = fence[q]

OtherSessions(t) == \A u \in Sessions \ {t} : session'[u] = session[u]

\* No other request works for p, and no other plan has p's workload.
Alone(t, p) ==
  /\ \A u \in Sessions \ {t} : session[u].pc # "idle" => session[u].plan # p
  /\ flow[UnitOf[p]].plan \in {p, NoWindow}

\* The frame argument: units and requests of other plans do not see the step.
LEMMA LocalStep ==
  ASSUME WindowInv, NEW t \in Sessions, NEW p \in Windows, Shape',
         Elsewhere(p), OtherSessions(t), Alone(t, p),
         session'[t].pc # "idle" => session'[t].plan = p,
         UnitOK(UnitOf[p])', SessionOK(t)'
  PROVE  /\ \A a \in Units : UnitOK(a)'
         /\ \A u \in Sessions : SessionOK(u)'
         /\ OneSession'
<1>1. ASSUME NEW a \in Units PROVE UnitOK(a)'
  <2>1. CASE a = UnitOf[p]
    BY <2>1
  <2>2. CASE a # UnitOf[p]
    <3>1. flow'[a] = flow[a] /\ owner'[a] = owner[a] /\ up'[a] = up[a]
      BY <2>2 DEF Elsewhere
    <3> QED BY <3>1 DEF WindowInv, UnitOK
  <2> QED BY <2>1, <2>2
<1>2. ASSUME NEW u \in Sessions PROVE SessionOK(u)'
  <2>1. CASE u = t
    BY <2>1
  <2>2. CASE u # t
    <3>1. session'[u] = session[u] /\ SessionOK(u)
      BY <2>2 DEF OtherSessions, WindowInv
    <3>2. CASE session[u].pc = "idle"
      BY <3>1, <3>2 DEF SessionOK
    <3>3. CASE session[u].pc # "idle"
      <4>1. PICK s : s = session[u]
        OBVIOUS
      <4>2. RequestRow(s) /\ s.plan \in Windows \ {p}
        BY <2>2, <3>1, <3>3, <4>1 DEF SessionOK, RequestRow, Alone
      <4>3. UnitOf[s.plan] # UnitOf[p] /\ UnitOf[s.plan] \in Units
        BY <4>2, WindowFacts DEF RequestRow, Alone
      <4>4. flow'[UnitOf[s.plan]] = flow[UnitOf[s.plan]] /\ fence'[s.plan] = fence[s.plan]
        BY <4>2, <4>3 DEF Elsewhere
      <4>5. RequestRow(s)'
        BY <4>2, <4>4 DEF RequestRow
      <4> QED BY <3>1, <3>3, <4>1, <4>5 DEF SessionOK
    <3> QED BY <3>2, <3>3
  <2> QED BY <2>1, <2>2
<1>3. OneSession'
  BY DEF WindowInv, OneSession, OtherSessions, Alone
<1> QED BY <1>1, <1>2, <1>3

\* A step of p that gives or takes no claim and no lock.
LEMMA OwnStep ==
  ASSUME WindowInv, NEW t \in Sessions, NEW p \in Windows, Shape',
         Elsewhere(p), OtherSessions(t), Alone(t, p),
         session'[t].pc # "idle" => session'[t].plan = p,
         UnitOK(UnitOf[p])', SessionOK(t)',
         UNCHANGED <<owner, held>>, CapturedAll', FenceRecorded'
  PROVE  WindowInv'
<1>1. OneOwner' /\ BatchOrWindow'
  BY DEF WindowInv, OneOwner, BatchOrWindow
<1> QED BY <1>1, LocalStep DEF WindowInv

\* A request goes on.
LEMMA EnterFacts ==
  ASSUME Shape, NEW t \in Sessions, NEW pc \in SessionPCs, NEW p \in Windows, Enter(t, pc, p)
  PROVE  /\ session' \in [Sessions -> SessionRecords] /\ OtherSessions(t)
         /\ session'[t] = [pc |-> pc, plan |-> p]
BY DEF Shape, Enter, OtherSessions, SessionRecords

\* A request ends.
LEMMA LeaveFacts ==
  ASSUME Shape, NEW t \in Sessions, Leave(t)
  PROVE  /\ session' \in [Sessions -> SessionRecords] /\ OtherSessions(t)
         /\ session'[t].pc = "idle" /\ SessionOK(t)'
<1>1. Quiet \in SessionRecords
  BY DEF Quiet, SessionRecords, SessionPCs
<1>2. session' \in [Sessions -> SessionRecords] /\ OtherSessions(t) /\ session'[t] = Quiet
  BY <1>1 DEF Shape, Leave, OtherSessions
<1> QED BY <1>2 DEF SessionOK, Quiet

\* What is known of a request at work.
LEMMA SessionAtWork ==
  ASSUME WindowInv, NEW t \in Sessions, session[t].pc # "idle"
  PROVE  /\ session[t].plan \in Windows /\ RequestRow(session[t])
         /\ flow[UnitOf[session[t].plan]].plan = session[t].plan
         /\ UnitOf[session[t].plan] \in Units
         /\ ClusterOfWindow(session[t].plan) \in ClustersOfUnits
         /\ Alone(t, session[t].plan)
<1>1. RequestRow(session[t])
  BY DEF WindowInv, SessionOK
<1>2. session[t].plan \in Windows /\ flow[UnitOf[session[t].plan]].plan = session[t].plan
  BY <1>1 DEF RequestRow
<1>3. \A u \in Sessions \ {t} : session[u].pc # "idle" => session[u].plan # session[t].plan
  BY DEF WindowInv, OneSession
<1> QED BY <1>1, <1>2, <1>3, WindowFacts DEF Alone

\* A request that raises, with what its call did to the unit or the cluster.
LEMMA RaiseStep ==
  ASSUME WindowInv, NEW t \in Sessions, session[t].pc # "idle", Raise(t),
         NEW v \in BOOLEAN, up' = [up EXCEPT ![UnitOf[session[t].plan]] = v],
         v \/ session[t].pc = "stop" \/ v = up[UnitOf[session[t].plan]],
         routing' \in [ClustersOfUnits -> {"all", "primaries"}], FenceRecorded'
  PROVE  WindowInv'
<1>1. PICK p \in Windows : p = session[t].plan
  BY SessionAtWork
<1>2. /\ UnitOf[p] \in Units /\ Alone(t, p) /\ RequestRow(session[t])
  BY <1>1, SessionAtWork
<1>3. /\ UNCHANGED <<window, held, flow, owner, changed, fence>>
      /\ session' \in [Sessions -> SessionRecords] /\ OtherSessions(t)
      /\ session'[t].pc = "idle" /\ SessionOK(t)'
  BY LeaveFacts DEF Raise, containerRows, WindowInv
<1>4. /\ up' \in [Units -> BOOLEAN] /\ up'[UnitOf[p]] = v
      /\ \A a \in Units \ {UnitOf[p]} : up'[a] = up[a]
  BY <1>1, <1>2 DEF WindowInv, Shape
<1>5. Shape' /\ Elsewhere(p) /\ CapturedAll'
  BY <1>3, <1>4 DEF WindowInv, Shape, Elsewhere, CapturedAll
<1>6. UnitOK(UnitOf[p])'
  <2>1. ~v => flow[UnitOf[p]].state \in {"stopping", "maintenance", "returning", "recovery_required"}
    <3>1. CASE session[t].pc = "stop"
      BY <1>1, <1>2, <3>1 DEF RequestRow
    <3>2. CASE v = up[UnitOf[p]]
      BY <1>2, <3>2 DEF WindowInv, UnitOK
    <3> QED BY <1>1, <3>1, <3>2
  <2> QED BY <1>2, <1>3, <1>4, <2>1 DEF WindowInv, UnitOK
<1> QED BY <1>2, <1>3, <1>5, <1>6, OwnStep

\* A request that raises on a call without effect.
LEMMA QuietRaise ==
  ASSUME WindowInv, NEW t \in Sessions, session[t].pc # "idle", Raise(t),
         UNCHANGED <<up, routing>>
  PROVE  WindowInv'
<1>1. UnitOf[session[t].plan] \in Units
  BY SessionAtWork
<1>2. /\ up[UnitOf[session[t].plan]] \in BOOLEAN
      /\ up' = [up EXCEPT ![UnitOf[session[t].plan]] = up[UnitOf[session[t].plan]]]
      /\ routing' \in [ClustersOfUnits -> {"all", "primaries"}]
  BY <1>1 DEF WindowInv, Shape
<1>3. FenceRecorded'
  BY DEF WindowInv, FenceRecorded, Raise, containerRows
<1> QED BY <1>2, <1>3, RaiseStep

\* The row of p's workload after a transition.
LEMMA FlowFacts ==
  ASSUME Shape, NEW p \in Windows, NEW s \in FlowStates, SetFlow(p, s),
         flow[UnitOf[p]].plan = p
  PROVE  /\ flow' \in [Units -> FlowRows]
         /\ flow'[UnitOf[p]] = [state |-> s, plan |-> p]
         /\ \A a \in Units \ {UnitOf[p]} : flow'[a] = flow[a]
<1>1. UnitOf[p] \in Units /\ flow[UnitOf[p]] \in FlowRows
  BY WindowFacts DEF Shape
<1>2. [flow[UnitOf[p]] EXCEPT !.state = s] = [state |-> s, plan |-> p]
  BY <1>1 DEF FlowRows
<1>3. [state |-> s, plan |-> p] \in FlowRows
  BY DEF FlowRows
<1>4. flow' = [flow EXCEPT ![UnitOf[p]] = [state |-> s, plan |-> p]]
  BY <1>2 DEF SetFlow
<1> QED BY <1>1, <1>3, <1>4 DEF Shape

\* Opening a window: the whole cluster is free of claims.
LEMMA PrepareStep ==
  ASSUME WindowInv, NEW t \in Sessions, NEW p \in Windows, Prepare(t, p)
  PROVE  WindowInv'
<1> DEFINE a == UnitOf[p]
<1>1. /\ session[t] = Quiet /\ NoOtherOperation(p) /\ flow[a].state = "available"
      /\ window' = [window EXCEPT ![p] = "executing"]
      /\ held' = [held EXCEPT ![p] = "live"]
      /\ owner' = [owner EXCEPT ![a] = p]
      /\ UNCHANGED <<fence, up, routing>>
  BY DEF Prepare
<1>2. \/ /\ flow' = [flow EXCEPT ![a] = [state |-> "preparing", plan |-> p]]
         /\ Enter(t, "capture", p)
      \/ /\ flow' = [flow EXCEPT ![a] = [state |-> "ready_to_stop", plan |-> p]]
         /\ UNCHANGED session
  BY DEF Prepare
<1>3. a \in Units /\ p # NoWindow /\ p # Batch
  BY WindowFacts
<1>4. /\ flow' \in [Units -> FlowRows]
      /\ \E s \in {"preparing", "ready_to_stop"} : flow'[a] = [state |-> s, plan |-> p]
      /\ \A b \in Units \ {a} : flow'[b] = flow[b]
  <2>1. \A s \in {"preparing", "ready_to_stop"} : [state |-> s, plan |-> p] \in FlowRows
    BY DEF FlowRows, FlowStates
  <2> QED BY <1>2, <1>3, <2>1 DEF WindowInv, Shape
<1>5. /\ owner' \in [Units -> Windows \cup {NoWindow, Batch}] /\ owner'[a] = p
      /\ \A b \in Units \ {a} : owner'[b] = owner[b]
      /\ window' \in [Windows -> OpenStates \cup {"none", "succeeded"}]
      /\ held' \in [Windows -> {"none", "live", "stale"}]
      /\ \A q \in Windows \ {p} : held'[q] = held[q]
  BY <1>1, <1>3 DEF WindowInv, Shape, OpenStates
<1>6. /\ session' \in [Sessions -> SessionRecords] /\ OtherSessions(t)
      /\ session'[t] = Quiet \/ (/\ session'[t] = [pc |-> "capture", plan |-> p]
                                 /\ flow'[a] = [state |-> "preparing", plan |-> p])
  <2>1. CASE UNCHANGED session
    BY <1>1, <2>1 DEF WindowInv, Shape, OtherSessions
  <2>2. CASE /\ flow' = [flow EXCEPT ![a] = [state |-> "preparing", plan |-> p]]
             /\ Enter(t, "capture", p)
    BY <1>3, <2>2, EnterFacts DEF WindowInv, Shape, SessionPCs
  <2> QED BY <1>2, <2>1, <2>2
<1>7. Shape' /\ Elsewhere(p)
  BY <1>1, <1>4, <1>5, <1>6 DEF WindowInv, Shape, Elsewhere
<1>8. flow[a].plan = NoWindow /\ up[a]
  BY <1>1, <1>3 DEF WindowInv, UnitOK
<1>9. Alone(t, p)
  <2>1. ASSUME NEW u \in Sessions \ {t}, session[u].pc # "idle", session[u].plan = p PROVE FALSE
    BY <1>3, <1>8, <2>1 DEF WindowInv, SessionOK, RequestRow
  <2> QED BY <1>8, <2>1 DEF Alone
<1>10. UnitOK(a)'
  <2>1. PICK s \in {"preparing", "ready_to_stop"} : flow'[a] = [state |-> s, plan |-> p]
    BY <1>4
  <2> QED BY <1>1, <1>3, <1>5, <1>8, <2>1 DEF UnitOK
<1>11. SessionOK(t)'
  <2>1. CASE session'[t] = Quiet
    BY <2>1 DEF SessionOK, Quiet
  <2>2. CASE session'[t] = [pc |-> "capture", plan |-> p] /\ flow'[a] = [state |-> "preparing", plan |-> p]
    <3>1. RequestRow(session[t])'
      BY <2>2 DEF RequestRow
    <3> QED BY <2>2, <3>1 DEF SessionOK
  <2> QED BY <1>6, <2>1, <2>2
<1>12. session'[t].pc # "idle" => session'[t].plan = p
  BY <1>6 DEF Quiet
<1>13. /\ \A b \in Units : UnitOK(b)'
       /\ \A u \in Sessions : SessionOK(u)'
       /\ OneSession'
  BY <1>7, <1>6, <1>9, <1>10, <1>11, <1>12, LocalStep
<1>14. ASSUME NEW b \in Units \ {a}, UnitCluster[b] = UnitCluster[a] PROVE owner'[b] = NoWindow
  <2>1. b \in ClusterScope(p)
    BY <1>3, <1>14 DEF ClusterScope
  <2> QED BY <1>1, <1>5, <2>1 DEF NoOtherOperation
<1>15. OneOwner'
  <2> SUFFICES ASSUME NEW x \in Units, NEW y \in Units, UnitCluster[x] = UnitCluster[y],
                      owner'[x] \in Windows, owner'[y] \in Windows
               PROVE  x = y
    BY DEF OneOwner
  <2>1. CASE x # a /\ y # a
    BY <1>5, <2>1 DEF WindowInv, OneOwner
  <2>2. CASE x = a \/ y = a
    BY <1>14, <2>2, ContainerAssumption
  <2> QED BY <2>1, <2>2
<1>16. CapturedAll' /\ FenceRecorded'
  BY <1>1 DEF WindowInv, CapturedAll, FenceRecorded
<1>17. BatchOrWindow'
  <2> SUFFICES ASSUME NEW x \in Units, owner'[x] = Batch, NEW q \in Windows,
                      ClusterOfWindow(q) = UnitCluster[x]
               PROVE  held'[q] = "none"
    BY DEF BatchOrWindow
  <2>1. x # a /\ owner[x] = Batch
    BY <1>3, <1>5
  <2>2. q # p
    BY <1>14, <2>1, ContainerAssumption DEF ClusterOfWindow
  <2> QED BY <1>5, <2>1, <2>2 DEF WindowInv, BatchOrWindow
<1> QED BY <1>7, <1>13, <1>15, <1>16, <1>17 DEF WindowInv

-----------------------------------------------------------------------------
\* The guard

\* A captured guard holds "all": with every other guard of the cluster restored
\* or absent there is no restriction to capture.
LEMMA CaptureStep ==
  ASSUME WindowInv, NEW t \in Sessions, CaptureFence(t)
  PROVE  WindowInv'
<1>1. PICK p \in Windows : p = session[t].plan
  BY SessionAtWork DEF CaptureFence
<1>2. /\ session[t].pc = "capture" /\ UNCHANGED <<up, routing>>
      /\ UnitOf[p] \in Units /\ Alone(t, p) /\ RequestRow(session[t])
      /\ ClusterOfWindow(p) \in ClustersOfUnits
  BY <1>1, SessionAtWork DEF CaptureFence
<1>3. CASE Raise(t)
  BY <1>2, <1>3, QuietRaise
<1>4. CASE ~Raise(t)
  <2> DEFINE c == ClusterOfWindow(p)
             g == [phase |-> "captured", before |-> routing[c]]
  <2>1. /\ \A q \in Windows : ClusterOfWindow(q) = c => fence[q].phase \in {"none", "restored"}
        /\ fence' = [fence EXCEPT ![p] = g]
        /\ Enter(t, "activate", p)
        /\ UNCHANGED <<window, held, flow, owner, changed>>
    BY <1>1, <1>4 DEF CaptureFence
  <2>2. routing[c] = "all"
    BY <1>2, <2>1 DEF WindowInv, Shape, FenceRecorded, Phases
  <2>3. /\ fence' \in [Windows -> [phase : Phases \cup {"none"}, before : {"all", "primaries"}]]
        /\ fence'[p].phase = "captured" /\ fence'[p].before = "all"
        /\ \A q \in Windows \ {p} : fence'[q] = fence[q]
    BY <2>1, <2>2 DEF WindowInv, Shape, Phases
  <2>4. /\ session' \in [Sessions -> SessionRecords] /\ OtherSessions(t)
        /\ session'[t] = [pc |-> "activate", plan |-> p]
    BY <2>1, EnterFacts DEF WindowInv, SessionPCs
  <2>5. Shape' /\ Elsewhere(p)
    BY <1>2, <2>1, <2>3, <2>4 DEF WindowInv, Shape, Elsewhere
  <2>6. UnitOK(UnitOf[p])'
    BY <1>2, <2>1 DEF WindowInv, UnitOK
  <2>7. SessionOK(t)'
    <3>1. RequestRow(session[t])'
      BY <1>1, <1>2, <2>1, <2>3, <2>4 DEF RequestRow
    <3> QED BY <2>4, <3>1 DEF SessionOK
  <2>8. CapturedAll'
    BY <2>3 DEF WindowInv, CapturedAll
  <2>9. FenceRecorded'
    <3> SUFFICES ASSUME NEW d \in ClustersOfUnits, routing[d] = "primaries"
                 PROVE  \E q \in Windows : ClusterOfWindow(q) = d /\ fence'[q].phase \in Phases \ {"restored"}
      BY <1>2 DEF FenceRecorded
    <3>1. PICK q \in Windows : ClusterOfWindow(q) = d /\ fence[q].phase \in Phases \ {"restored"}
      BY DEF WindowInv, FenceRecorded
    <3>2. q # p
      BY <2>2, <3>1
    <3> QED BY <2>3, <3>1, <3>2
  <2> QED BY <1>2, <2>1, <2>4, <2>5, <2>6, <2>7, <2>8, <2>9, OwnStep
<1> QED BY <1>3, <1>4

\* Whatever an activation answers, the restriction is under a row that is not
\* restored.
LEMMA ActivateStep ==
  ASSUME WindowInv, NEW t \in Sessions, ActivateFence(t)
  PROVE  WindowInv'
<1>1. PICK p \in Windows : p = session[t].plan
  BY SessionAtWork DEF ActivateFence
<1> DEFINE c == ClusterOfWindow(p)
<1>2. /\ session[t].pc = "activate" /\ UNCHANGED up
      /\ UnitOf[p] \in Units /\ Alone(t, p) /\ RequestRow(session[t])
      /\ c \in ClustersOfUnits /\ fence[p].phase = "captured" /\ fence[p].before = "all"
      /\ flow[UnitOf[p]].plan = p
  BY <1>1, SessionAtWork DEF ActivateFence, RequestRow, WindowInv, CapturedAll
<1> DEFINE Lost == \E r \in {routing[c], "primaries"} : routing' = [routing EXCEPT ![c] = r]
<1>3. CASE Raise(t) /\ Lost
  <2>1. UNCHANGED fence /\ up[UnitOf[p]] \in BOOLEAN /\ up' = [up EXCEPT ![UnitOf[p]] = up[UnitOf[p]]]
    BY <1>2, <1>3 DEF Raise, containerRows, WindowInv, Shape
  <2>2. routing' \in [ClustersOfUnits -> {"all", "primaries"}] /\ FenceRecorded'
    BY <1>2, <1>3, <2>1 DEF WindowInv, Shape, FenceRecorded, Phases
  <2> QED BY <1>1, <1>2, <1>3, <2>1, <2>2, RaiseStep
<1>4. CASE ~(Raise(t) /\ Lost)
  <2>1. /\ FlowIs(p, "preparing") /\ SetFlow(p, "ready_to_stop") /\ Leave(t)
        /\ UNCHANGED <<window, held, owner, changed>>
        /\ \E r \in Activated(fence[p].before) :
                 /\ fence' = [fence EXCEPT ![p].phase = r.phase]
                 /\ routing' = [routing EXCEPT ![c] = r.routing]
    BY <1>1, <1>4 DEF ActivateFence
  <2>2. PICK r \in Activated(fence[p].before) :
                 /\ fence' = [fence EXCEPT ![p].phase = r.phase]
                 /\ routing' = [routing EXCEPT ![c] = r.routing]
    BY <2>1
  <2>3. /\ r.phase \in Phases /\ r.routing \in {"all", "primaries"}
        /\ r.routing = "primaries" => r.phase # "restored"
    BY <1>2 DEF Activated, Phases
  <2>4. /\ fence' \in [Windows -> [phase : Phases \cup {"none"}, before : {"all", "primaries"}]]
        /\ fence'[p].phase = r.phase /\ fence'[p].before = "all"
        /\ \A q \in Windows \ {p} : fence'[q] = fence[q]
    <3>1. fence[p] \in [phase : Phases \cup {"none"}, before : {"all", "primaries"}]
      BY DEF WindowInv, Shape
    <3> QED BY <1>2, <2>2, <2>3, <3>1 DEF WindowInv, Shape
  <2>5. /\ flow' \in [Units -> FlowRows]
        /\ flow'[UnitOf[p]] = [state |-> "ready_to_stop", plan |-> p]
        /\ \A a \in Units \ {UnitOf[p]} : flow'[a] = flow[a]
    BY <1>2, <2>1, FlowFacts DEF FlowStates, WindowInv
  <2>6. /\ session' \in [Sessions -> SessionRecords] /\ OtherSessions(t)
        /\ session'[t].pc = "idle" /\ SessionOK(t)'
    BY <2>1, LeaveFacts DEF WindowInv
  <2>7. /\ routing' \in [ClustersOfUnits -> {"all", "primaries"}] /\ routing'[c] = r.routing
        /\ \A d \in ClustersOfUnits \ {c} : routing'[d] = routing[d]
    BY <1>2, <2>2, <2>3 DEF WindowInv, Shape
  <2>8. Shape' /\ Elsewhere(p)
    BY <1>2, <2>1, <2>4, <2>5, <2>6, <2>7 DEF WindowInv, Shape, Elsewhere
  <2>9. UnitOK(UnitOf[p])'
    <3>1. up[UnitOf[p]] /\ owner[UnitOf[p]] = p /\ p # NoWindow
      BY <1>2, <2>1, WindowFacts DEF WindowInv, UnitOK, FlowIs
    <3> QED BY <1>2, <2>1, <2>5, <3>1 DEF UnitOK
  <2>10. CapturedAll'
    BY <2>4 DEF WindowInv, CapturedAll
  <2>11. FenceRecorded'
    <3> SUFFICES ASSUME NEW d \in ClustersOfUnits, routing'[d] = "primaries"
                 PROVE  \E q \in Windows : ClusterOfWindow(q) = d /\ fence'[q].phase \in Phases \ {"restored"}
      BY DEF FenceRecorded
    <3>1. CASE d = c
      BY <2>3, <2>4, <2>7, <3>1
    <3>2. CASE d # c
      BY <2>4, <2>7, <3>2 DEF WindowInv, FenceRecorded
    <3> QED BY <3>1, <3>2
  <2> QED BY <1>2, <2>1, <2>6, <2>8, <2>9, <2>10, <2>11, OwnStep
<1> QED BY <1>3, <1>4

-----------------------------------------------------------------------------
\* stop and return

\* A stage opens where no request of the plan is at work: each of them keeps the
\* row out of the states a stage opens in.
LEMMA OpenedAlone ==
  ASSUME WindowInv, NEW t \in Sessions, NEW p \in Windows,
         NEW s \in {"ready_to_stop", "maintenance"}, Opened(t, p, s)
  PROVE  /\ Alone(t, p) /\ UnitOf[p] \in Units
         /\ flow[UnitOf[p]].plan = p /\ flow[UnitOf[p]].state = s
         /\ owner[UnitOf[p]] = p /\ p # NoWindow
<1>1. /\ flow[UnitOf[p]].plan = p /\ flow[UnitOf[p]].state = s
      /\ UnitOf[p] \in Units /\ p # NoWindow
  BY WindowFacts DEF Opened, FlowIs
<1>2. ASSUME NEW u \in Sessions \ {t}, session[u].pc # "idle", session[u].plan = p PROVE FALSE
  <2>1. RequestRow(session[u]) /\ session[u].pc \in SessionPCs
    BY <1>2 DEF WindowInv, SessionOK, Shape, SessionRecords
  <2> QED BY <1>1, <1>2, <2>1 DEF RequestRow, SessionPCs
<1> QED BY <1>1, <1>2 DEF Alone, WindowInv, UnitOK

\* The intent is durable before the call.
LEMMA BeginStep ==
  ASSUME WindowInv, NEW t \in Sessions, NEW p \in Windows, BeginStop(t, p) \/ BeginReturn(t, p)
  PROVE  WindowInv'
<1>1. PICK s \in {"ready_to_stop", "maintenance"}, n \in {"stopping", "returning"},
            pc \in {"stop", "start"} :
        /\ Opened(t, p, s) /\ SetFlow(p, n) /\ Enter(t, pc, p)
        /\ s = "ready_to_stop" => n = "stopping" /\ pc = "stop"
        /\ s = "maintenance" => n = "returning" /\ pc = "start"
        /\ UNCHANGED <<window, held, owner, changed, fence, up, routing>>
  BY DEF BeginStop, BeginReturn, StopIntent
<1>2. /\ Alone(t, p) /\ UnitOf[p] \in Units
      /\ flow[UnitOf[p]].plan = p /\ flow[UnitOf[p]].state = s
      /\ owner[UnitOf[p]] = p /\ p # NoWindow
  BY <1>1, OpenedAlone
<1>3. /\ flow' \in [Units -> FlowRows]
      /\ flow'[UnitOf[p]] = [state |-> n, plan |-> p]
      /\ \A a \in Units \ {UnitOf[p]} : flow'[a] = flow[a]
  BY <1>1, <1>2, FlowFacts, ZenonT(60) DEF FlowStates, WindowInv
<1>4. /\ session' \in [Sessions -> SessionRecords] /\ OtherSessions(t)
      /\ session'[t] = [pc |-> pc, plan |-> p]
  BY <1>1, EnterFacts DEF WindowInv, SessionPCs
<1>5. Shape' /\ Elsewhere(p) /\ CapturedAll' /\ FenceRecorded'
  BY <1>1, <1>3, <1>4 DEF WindowInv, Shape, Elsewhere, CapturedAll, FenceRecorded
<1>6. UnitOK(UnitOf[p])'
  BY <1>1, <1>2, <1>3 DEF UnitOK
<1>7. SessionOK(t)'
  <2>1. RequestRow(session[t])'
    BY <1>1, <1>3, <1>4 DEF RequestRow
  <2> QED BY <1>4, <2>1 DEF SessionOK
<1> QED BY <1>1, <1>2, <1>4, <1>5, <1>6, <1>7, OwnStep

\* A confirmed stop and a confirmed start, and the ones whose answer is lost.
LEMMA UnitStep ==
  ASSUME WindowInv, NEW t \in Sessions, StopUnit(t) \/ StartUnit(t)
  PROVE  WindowInv'
<1>1. PICK p \in Windows : p = session[t].plan
  BY SessionAtWork DEF StopUnit, StartUnit
<1> DEFINE a == UnitOf[p]
<1>2. /\ session[t].pc \in {"stop", "start"} /\ UNCHANGED routing
      /\ a \in Units /\ Alone(t, p) /\ RequestRow(session[t])
      /\ flow[a].plan = p /\ p # NoWindow
      /\ flow[a].state # "available" /\ owner[a] = p
  BY <1>1, SessionAtWork, WindowFacts DEF StopUnit, StartUnit, WindowInv, UnitOK
<1> DEFINE Lost == \E v \in BOOLEAN : /\ up' = [up EXCEPT ![a] = v]
                                      /\ v \/ session[t].pc = "stop" \/ v = up[a]
<1>3. CASE Raise(t) /\ Lost
  <2>1. PICK v \in BOOLEAN : /\ up' = [up EXCEPT ![a] = v]
                             /\ v \/ session[t].pc = "stop" \/ v = up[a]
    BY <1>3
  <2>2. routing' \in [ClustersOfUnits -> {"all", "primaries"}] /\ FenceRecorded'
    BY <1>2, <1>3 DEF WindowInv, Shape, FenceRecorded, Raise, containerRows
  <2> QED BY <1>1, <1>2, <1>3, <2>1, <2>2, RaiseStep
<1>4. CASE ~(Raise(t) /\ Lost)
  <2>1. up[a] \in BOOLEAN
    BY <1>2 DEF WindowInv, Shape
  <2>2. PICK n \in {"maintenance", "verifying"}, v \in BOOLEAN :
          /\ SetFlow(p, n) /\ up' = [up EXCEPT ![a] = v]
          /\ UNCHANGED <<window, held, owner, changed, fence>>
          /\ \/ n = "maintenance" /\ Leave(t)
             \/ n = "verifying" /\ v /\ Enter(t, "ready", p)
    <3>1. CASE StopUnit(t)
      BY <1>1, <1>4, <2>1, <3>1 DEF StopUnit
    <3>2. CASE StartUnit(t)
      BY <1>1, <1>4, <2>1, <3>2 DEF StartUnit
    <3> QED BY <3>1, <3>2
  <2>3. /\ flow' \in [Units -> FlowRows]
        /\ flow'[a] = [state |-> n, plan |-> p]
        /\ \A b \in Units \ {a} : flow'[b] = flow[b]
    BY <1>2, <2>2, FlowFacts, ZenonT(60) DEF FlowStates, WindowInv
  <2>4. /\ up' \in [Units -> BOOLEAN] /\ up'[a] = v
        /\ \A b \in Units \ {a} : up'[b] = up[b]
    BY <1>2, <2>2 DEF WindowInv, Shape
  <2>5. /\ session' \in [Sessions -> SessionRecords] /\ OtherSessions(t)
        /\ \/ session'[t].pc = "idle" /\ SessionOK(t)'
           \/ session'[t] = [pc |-> "ready", plan |-> p] /\ n = "verifying"
    <3>1. CASE Leave(t)
      BY <3>1, LeaveFacts DEF WindowInv
    <3>2. CASE n = "verifying" /\ Enter(t, "ready", p)
      BY <3>2, EnterFacts DEF WindowInv, SessionPCs
    <3> QED BY <2>2, <3>1, <3>2
  <2>6. SessionOK(t)' /\ (session'[t].pc # "idle" => session'[t].plan = p)
    <3>1. ASSUME session'[t] = [pc |-> "ready", plan |-> p], n = "verifying"
          PROVE  SessionOK(t)'
      <4>1. RequestRow(session[t])'
        BY <2>3, <3>1 DEF RequestRow
      <4> QED BY <3>1, <4>1 DEF SessionOK
    <3> QED BY <2>5, <3>1
  <2>7. Shape' /\ Elsewhere(p) /\ CapturedAll' /\ FenceRecorded'
    BY <1>2, <2>2, <2>3, <2>4, <2>5 DEF WindowInv, Shape, Elsewhere, CapturedAll, FenceRecorded
  <2>8. UnitOK(a)'
    BY <1>2, <2>2, <2>3, <2>4 DEF UnitOK
  <2> QED BY <1>2, <2>2, <2>5, <2>6, <2>7, <2>8, OwnStep
<1> QED BY <1>3, <1>4

\* The end of a window: its row says verifying, so the unit runs.
LEMMA FinishedStep ==
  ASSUME WindowInv, NEW t \in Sessions, session[t].pc # "idle", Finished(t), UNCHANGED up,
         fence' \in [Windows -> [phase : Phases \cup {"none"}, before : {"all", "primaries"}]],
         \A q \in Windows \ {session[t].plan} : fence'[q] = fence[q],
         routing' \in [ClustersOfUnits -> {"all", "primaries"}], CapturedAll', FenceRecorded'
  PROVE  /\ WindowInv'
         /\ \A p \in Windows : window[p] # "succeeded" /\ window'[p] = "succeeded" =>
              /\ up'[UnitOf[p]] /\ owner'[UnitOf[p]] = NoWindow
              /\ held'[p] = "none" /\ flow'[UnitOf[p]].plan = NoWindow
<1>1. PICK p \in Windows : p = session[t].plan
  BY SessionAtWork
<1> DEFINE a == UnitOf[p]
<1>2. a \in Units /\ Alone(t, p) /\ flow[a].plan = p /\ p # NoWindow /\ p # Batch
  BY <1>1, SessionAtWork, WindowFacts
<1>3. /\ owner[a] = p /\ FlowIs(p, "verifying")
      /\ owner' = [owner EXCEPT ![a] = NoWindow]
      /\ flow' = [flow EXCEPT ![a] = RowAfter(p)]
      /\ window' = [window EXCEPT ![p] = "succeeded"]
      /\ held' = [held EXCEPT ![p] = "none"]
      /\ Leave(t)
  BY <1>1 DEF Finished, HeldAfter
<1>4. up[a]
  BY <1>2, <1>3 DEF WindowInv, UnitOK, FlowIs
<1>5. RowAfter(p) \in FlowRows /\ RowAfter(p).state = "available" /\ RowAfter(p).plan = NoWindow
  BY DEF RowAfter, FlowRows, FlowStates
<1>6. /\ flow' \in [Units -> FlowRows] /\ flow'[a] = RowAfter(p)
      /\ \A b \in Units \ {a} : flow'[b] = flow[b]
      /\ owner' \in [Units -> Windows \cup {NoWindow, Batch}] /\ owner'[a] = NoWindow
      /\ \A b \in Units \ {a} : owner'[b] = owner[b]
  BY <1>2, <1>3, <1>5 DEF WindowInv, Shape
<1>7. /\ window' \in [Windows -> OpenStates \cup {"none", "succeeded"}]
      /\ held' \in [Windows -> {"none", "live", "stale"}] /\ held'[p] = "none"
      /\ \A q \in Windows \ {p} : held'[q] = held[q] /\ window'[q] = window[q]
  BY <1>3 DEF WindowInv, Shape
<1>8. /\ session' \in [Sessions -> SessionRecords] /\ OtherSessions(t)
      /\ session'[t].pc = "idle" /\ SessionOK(t)'
  BY <1>3, LeaveFacts DEF WindowInv
<1>9. Shape' /\ Elsewhere(p)
  BY <1>1, <1>6, <1>7, <1>8 DEF WindowInv, Shape, Elsewhere
<1>10. UnitOK(a)'
  BY <1>2, <1>4, <1>5, <1>6, ContainerAssumption DEF UnitOK
<1>11. /\ \A b \in Units : UnitOK(b)'
       /\ \A u \in Sessions : SessionOK(u)'
       /\ OneSession'
  BY <1>2, <1>8, <1>9, <1>10, LocalStep
<1>12. OneOwner'
  BY <1>6, ContainerAssumption DEF WindowInv, OneOwner
<1>13. BatchOrWindow'
  BY <1>6, <1>7, ContainerAssumption DEF WindowInv, BatchOrWindow
<1>14. WindowInv'
  BY <1>9, <1>11, <1>12, <1>13 DEF WindowInv
<1>15. ASSUME NEW q \in Windows, window[q] # "succeeded", window'[q] = "succeeded"
       PROVE  q = p
  BY <1>7, <1>15
<1> QED BY <1>4, <1>5, <1>6, <1>7, <1>14, <1>15

\* Waiting for the unit and its companions.
LEMMA ReadyStep ==
  ASSUME WindowInv, NEW t \in Sessions, UnitReady(t) \/ Companions(t)
  PROVE  WindowInv'
<1>1. PICK p \in Windows : p = session[t].plan
  BY SessionAtWork DEF UnitReady, Companions
<1>2. /\ session[t].pc \in {"ready", "companions"} /\ UNCHANGED <<up, routing>>
      /\ UnitOf[p] \in Units /\ Alone(t, p) /\ RequestRow(session[t])
  BY <1>1, SessionAtWork DEF UnitReady, Companions
<1>3. CASE Raise(t)
  BY <1>2, <1>3, QuietRaise
<1>4. CASE Finished(t) /\ UNCHANGED fence
  <2>1. /\ fence' \in [Windows -> [phase : Phases \cup {"none"}, before : {"all", "primaries"}]]
        /\ routing' \in [ClustersOfUnits -> {"all", "primaries"}]
        /\ CapturedAll' /\ FenceRecorded'
    BY <1>2, <1>4 DEF WindowInv, Shape, CapturedAll, FenceRecorded
  <2> QED BY <1>2, <1>4, <2>1, FinishedStep
<1>5. ASSUME NEW pc \in {"companions", "restore"}, Enter(t, pc, p), UNCHANGED containerRows
      PROVE  WindowInv'
  <2>1. UNCHANGED <<window, held, flow, owner, changed, fence>>
    BY <1>5 DEF containerRows
  <2>2. /\ session' \in [Sessions -> SessionRecords] /\ OtherSessions(t)
        /\ session'[t] = [pc |-> pc, plan |-> p]
    BY <1>5, EnterFacts DEF WindowInv, SessionPCs
  <2>3. Shape' /\ Elsewhere(p) /\ CapturedAll' /\ FenceRecorded'
    BY <1>2, <2>1, <2>2 DEF WindowInv, Shape, Elsewhere, CapturedAll, FenceRecorded
  <2>4. UnitOK(UnitOf[p])'
    BY <1>2, <2>1 DEF WindowInv, UnitOK
  <2>5. SessionOK(t)'
    <3>1. RequestRow(session[t])'
      BY <1>1, <1>2, <2>1, <2>2 DEF RequestRow
    <3> QED BY <2>2, <3>1 DEF SessionOK
  <2> QED BY <1>2, <2>1, <2>2, <2>3, <2>4, <2>5, OwnStep
<1> QED BY <1>1, <1>3, <1>4, <1>5 DEF UnitReady, Companions

\* The guard is given back, or its row says that it was not.
LEMMA RestoreStep ==
  ASSUME WindowInv, NEW t \in Sessions, RestoreFence(t)
  PROVE  WindowInv'
<1>1. PICK p \in Windows : p = session[t].plan
  BY SessionAtWork DEF RestoreFence
<1> DEFINE c == ClusterOfWindow(p)
<1>2. /\ session[t].pc = "restore" /\ UNCHANGED up
      /\ UnitOf[p] \in Units /\ c \in ClustersOfUnits /\ fence[p].before = "all"
      /\ fence[p] \in [phase : Phases \cup {"none"}, before : {"all", "primaries"}]
      /\ routing[c] \in {"all", "primaries"}
  BY <1>1, SessionAtWork DEF RestoreFence, WindowInv, CapturedAll, Shape
<1> DEFINE Lost == \E r \in {routing[c], fence[p].before} : routing' = [routing EXCEPT ![c] = r]
<1>3. CASE Raise(t) /\ Lost
  <2>1. UNCHANGED fence /\ up[UnitOf[p]] \in BOOLEAN /\ up' = [up EXCEPT ![UnitOf[p]] = up[UnitOf[p]]]
    BY <1>2, <1>3 DEF Raise, containerRows, WindowInv, Shape
  <2>2. routing' \in [ClustersOfUnits -> {"all", "primaries"}] /\ FenceRecorded'
    BY <1>2, <1>3, <2>1 DEF WindowInv, Shape, FenceRecorded
  <2> QED BY <1>1, <1>2, <1>3, <2>1, <2>2, RaiseStep
<1>4. CASE ~(Raise(t) /\ Lost)
  <2>1. Finished(t)
    BY <1>1, <1>4 DEF RestoreFence
  <2>2. PICK r \in Restored(fence[p], routing[c]) :
                 /\ fence' = [fence EXCEPT ![p].phase = r.phase]
                 /\ routing' = [routing EXCEPT ![c] = r.routing]
    BY <1>1, <1>4 DEF RestoreFence
  <2>3. /\ r.phase \in Phases /\ r.routing \in {"all", "primaries"}
        /\ \/ r.routing = "primaries" => r.phase # "restored"
           \/ fence[p].phase = "restored" /\ r.phase = "restored" /\ r.routing = routing[c]
    BY <1>2 DEF Restored, Phases
  <2>4. /\ fence' \in [Windows -> [phase : Phases \cup {"none"}, before : {"all", "primaries"}]]
        /\ fence'[p].phase = r.phase /\ fence'[p].before = "all"
        /\ \A q \in Windows \ {p} : fence'[q] = fence[q]
    BY <1>2, <2>2, <2>3 DEF WindowInv, Shape
  <2>5. /\ routing' \in [ClustersOfUnits -> {"all", "primaries"}] /\ routing'[c] = r.routing
        /\ \A d \in ClustersOfUnits \ {c} : routing'[d] = routing[d]
    BY <1>2, <2>2, <2>3 DEF WindowInv, Shape
  <2>6. CapturedAll'
    BY <2>4 DEF WindowInv, CapturedAll
  <2>7. FenceRecorded'
    <3> SUFFICES ASSUME NEW d \in ClustersOfUnits, routing'[d] = "primaries"
                 PROVE  \E q \in Windows : ClusterOfWindow(q) = d /\ fence'[q].phase \in Phases \ {"restored"}
      BY DEF FenceRecorded
    <3>1. CASE d = c /\ r.phase # "restored"
      BY <2>3, <2>4, <3>1
    <3>2. CASE d # c \/ r.phase = "restored"
      <4>1. routing[d] = "primaries" /\ (d # c \/ fence[p].phase = "restored")
        BY <2>3, <2>5, <3>2
      <4>2. PICK q \in Windows : ClusterOfWindow(q) = d /\ fence[q].phase \in Phases \ {"restored"}
        BY <4>1 DEF WindowInv, FenceRecorded
      <4> QED BY <2>4, <4>1, <4>2
    <3> QED BY <3>1, <3>2
  <2> QED BY <1>1, <1>2, <2>1, <2>4, <2>5, <2>6, <2>7, FinishedStep
<1> QED BY <1>3, <1>4

-----------------------------------------------------------------------------
\* Others

\* Steps that touch no row of a unit, no request and no remote state.
LEMMA RowsKept ==
  ASSUME WindowInv, UNCHANGED <<flow, fence, session, up, routing>>, Shape',
         \A a \in Units : owner'[a] = owner[a] \/ {owner[a], owner'[a]} \subseteq {NoWindow, Batch},
         BatchOrWindow'
  PROVE  WindowInv'
<1>1. ASSUME NEW a \in Units
      PROVE  UnitOK(a)' /\ (owner'[a] \in Windows => owner'[a] = owner[a])
  <2>1. CASE owner'[a] = owner[a]
    BY <2>1 DEF WindowInv, UnitOK
  <2>2. CASE {owner[a], owner'[a]} \subseteq {NoWindow, Batch}
    <3>1. flow[a].plan = NoWindow
      BY <2>2, ContainerAssumption DEF WindowInv, UnitOK, Shape, FlowRows
    <3> QED BY <2>2, <3>1, ContainerAssumption DEF WindowInv, UnitOK
  <2> QED BY <2>1, <2>2
<1>2. OneOwner'
  BY <1>1 DEF WindowInv, OneOwner
<1>3. (\A t \in Sessions : SessionOK(t)') /\ OneSession' /\ CapturedAll' /\ FenceRecorded'
  BY DEF WindowInv, SessionOK, RequestRow, OneSession, CapturedAll, FenceRecorded
<1> QED BY <1>1, <1>2, <1>3 DEF WindowInv

\* Previews, expiry and batches.
LEMMA OutsideStep ==
  ASSUME WindowInv,
         \/ \E p \in Windows : Preview(p) \/ LocksExpire(p)
         \/ \E a \in Units : BatchClaims(a) \/ BatchEnds(a)
         \/ UNCHANGED containerVars
  PROVE  WindowInv'
<1>1. ASSUME NEW p \in Windows, Preview(p) PROVE WindowInv'
  <2>1. Shape' /\ BatchOrWindow'
    BY <1>1 DEF Preview, WindowInv, Shape, BatchOrWindow, OpenStates
  <2> QED BY <1>1, <2>1, RowsKept DEF Preview
<1>2. ASSUME NEW p \in Windows, LocksExpire(p) PROVE WindowInv'
  <2>1. Shape' /\ BatchOrWindow'
    BY <1>2 DEF LocksExpire, WindowInv, Shape, BatchOrWindow
  <2> QED BY <1>2, <2>1, RowsKept DEF LocksExpire
<1>3. ASSUME NEW a \in Units, BatchClaims(a) \/ BatchEnds(a) PROVE WindowInv'
  <2>1. /\ UNCHANGED <<window, held, flow, fence, session, up, routing>>
        /\ \/ /\ owner[a] = NoWindow /\ owner' = [owner EXCEPT ![a] = Batch]
              /\ \A p \in Windows : ClusterOfWindow(p) = UnitCluster[a] => held[p] = "none"
           \/ owner[a] = Batch /\ owner' = [owner EXCEPT ![a] = NoWindow]
    BY <1>3 DEF BatchClaims, BatchEnds
  <2>2. Shape'
    BY <2>1 DEF WindowInv, Shape
  <2>3. BatchOrWindow'
    BY <2>1, ContainerAssumption DEF WindowInv, Shape, BatchOrWindow
  <2>4. \A b \in Units : owner'[b] = owner[b] \/ {owner[b], owner'[b]} \subseteq {NoWindow, Batch}
    BY <2>1 DEF WindowInv, Shape
  <2> QED BY <2>1, <2>2, <2>3, <2>4, RowsKept
<1>4. CASE UNCHANGED containerVars
  <2>1. Shape' /\ BatchOrWindow'
    BY <1>4 DEF containerVars, containerRows, WindowInv, Shape, BatchOrWindow
  <2> QED BY <1>4, <2>1, RowsKept DEF containerVars, containerRows
<1> QED BY <1>1, <1>2, <1>3, <1>4

\* Recovery renames the state of a row and leaves its plan and its claim.
LEMMA RecoveredStep ==
  ASSUME WindowInv, NEW P \in SUBSET Windows, Recovered(P),
         UNCHANGED session \/ session' = [t \in Sessions |-> Quiet]
  PROVE  WindowInv'
<1>1. /\ window' = [p \in Windows |-> IF p \in P THEN "recovery_required" ELSE window[p]]
      /\ UNCHANGED <<held, owner, changed, fence, up, routing>>
      /\ flow' = [a \in Units |-> IF flow[a].plan \in P
                              THEN [flow[a] EXCEPT !.state = "recovery_required"] ELSE flow[a]]
  BY DEF Recovered
<1>2. ASSUME NEW a \in Units
      PROVE  /\ flow'[a] \in FlowRows /\ flow'[a].plan = flow[a].plan
             /\ \/ flow'[a] = flow[a]
                \/ flow'[a].state = "recovery_required" /\ flow[a].plan # NoWindow
  <2>1. flow[a] \in FlowRows
    BY DEF WindowInv, Shape
  <2> QED BY <1>1, <2>1, ContainerAssumption DEF FlowRows, FlowStates
<1>3. session' \in [Sessions -> SessionRecords] /\ \A t \in Sessions : session'[t] \in {session[t], Quiet}
  <2>1. Quiet \in SessionRecords
    BY DEF Quiet, SessionRecords, SessionPCs
  <2> QED BY <2>1 DEF WindowInv, Shape
<1>4. Shape'
  <2>1. flow' \in [Units -> FlowRows]
    <3>1. flow' = [a \in Units |-> flow'[a]]
      BY <1>1
    <3> QED BY <1>2, <3>1
  <2> QED BY <1>1, <1>3, <2>1 DEF WindowInv, Shape, OpenStates
<1>5. ASSUME NEW a \in Units PROVE UnitOK(a)'
  <2>1. UnitOK(a) /\ owner'[a] = owner[a] /\ up'[a] = up[a] /\ flow'[a].plan = flow[a].plan
    BY <1>1, <1>2 DEF WindowInv
  <2>2. CASE flow'[a] = flow[a]
    BY <2>1, <2>2 DEF UnitOK
  <2>3. CASE flow'[a].state = "recovery_required" /\ flow[a].plan # NoWindow
    BY <2>1, <2>3 DEF UnitOK
  <2> QED BY <1>2, <2>2, <2>3
<1>6. ASSUME NEW t \in Sessions PROVE SessionOK(t)'
  <2>1. CASE session'[t] = Quiet
    BY <2>1 DEF SessionOK, Quiet
  <2>2. CASE session'[t] = session[t] /\ session[t].pc = "idle"
    BY <2>2 DEF WindowInv, SessionOK
  <2>3. CASE session'[t] = session[t] /\ session[t].pc # "idle"
    <3>1. PICK s : s = session[t]
      OBVIOUS
    <3>2. RequestRow(s) /\ s.plan \in Windows /\ UnitOf[s.plan] \in Units
      BY <2>3, <3>1, SessionAtWork
    <3>3. RequestRow(s)'
      BY <1>1, <1>2, <3>2 DEF RequestRow
    <3> QED BY <2>3, <3>1, <3>3 DEF SessionOK
  <2> QED BY <1>3, <2>1, <2>2, <2>3
<1>7. OneSession'
  BY <1>3 DEF WindowInv, OneSession, Quiet
<1>8. OneOwner' /\ CapturedAll' /\ FenceRecorded' /\ BatchOrWindow'
  BY <1>1 DEF WindowInv, OneOwner, CapturedAll, FenceRecorded, BatchOrWindow
<1> QED BY <1>4, <1>5, <1>6, <1>7, <1>8 DEF WindowInv

-----------------------------------------------------------------------------
\* The invariant and what follows from it

\* Every step keeps the invariant.
LEMMA NextWindow == WindowInv /\ [ContainerNext]_containerVars => WindowInv'
<1> SUFFICES ASSUME WindowInv, [ContainerNext]_containerVars PROVE WindowInv'
  OBVIOUS
<1>1. ASSUME NEW p \in Windows, ReconcileWindow(p) PROVE WindowInv'
  <2>1. Recovered({p}) /\ {p} \in SUBSET Windows /\ UNCHANGED session
    BY <1>1 DEF ReconcileWindow
  <2> QED BY <2>1, RecoveredStep
<1>2. ASSUME ControllerRestart PROVE WindowInv'
  <2> DEFINE P == {p \in Windows : window[p] \in {"executing", "recovery_required"}}
  <2>1. Recovered(P) /\ P \in SUBSET Windows /\ session' = [t \in Sessions |-> Quiet]
    BY <1>2 DEF ControllerRestart
  <2> HIDE DEF P
  <2> QED BY <2>1, RecoveredStep
<1> QED BY <1>1, <1>2, OutsideStep, PrepareStep, BeginStep, CaptureStep, ActivateStep, UnitStep,
           ReadyStep, RestoreStep DEF ContainerNext

\* Nothing is open before the first preview.
LEMMA InitWindow == ContainerInit => WindowInv
<1> SUFFICES ASSUME ContainerInit PROVE WindowInv
  OBVIOUS
<1>1. Shape
  BY DEF ContainerInit, Shape, FlowRows, FlowStates, SessionRecords, SessionPCs, Quiet, OpenStates
<1>2. \A a \in Units : UnitOK(a)
  BY ContainerAssumption DEF ContainerInit, UnitOK
<1>3. (\A t \in Sessions : SessionOK(t)) /\ OneSession
  BY DEF ContainerInit, SessionOK, OneSession, Quiet
<1>4. OneOwner /\ CapturedAll /\ FenceRecorded /\ BatchOrWindow
  BY ContainerAssumption DEF ContainerInit, OneOwner, CapturedAll, FenceRecorded, BatchOrWindow
<1> QED BY <1>1, <1>2, <1>3, <1>4 DEF WindowInv

\* Rows, claims and requests of the container workflow agree in every state.
THEOREM WindowsHold == ContainerSpec => []WindowInv
BY InitWindow, NextWindow, PTL DEF ContainerSpec

\* What is stopped or restricted is recorded, one workload of a cluster is
\* interrupted at a time, and never together with a batch, for any number of
\* plans, workloads and requests.
THEOREM ContainerSafe == ContainerSpec => []ContainerInvariant
BY WindowsHold, WindowImplies, PTL

\* A plan succeeds in the closing transaction only.
LEMMA SucceededStep ==
  ASSUME WindowInv, ContainerNext, NEW p \in Windows,
         window[p] # "succeeded", window'[p] = "succeeded"
  PROVE  /\ up'[UnitOf[p]] /\ owner'[UnitOf[p]] = NoWindow
         /\ held'[p] = "none" /\ flow'[UnitOf[p]].plan = NoWindow
<1> DEFINE Goal == /\ up'[UnitOf[p]] /\ owner'[UnitOf[p]] = NoWindow
                   /\ held'[p] = "none" /\ flow'[UnitOf[p]].plan = NoWindow
<1>1. window' # window /\ window \in [Windows -> OpenStates \cup {"none", "succeeded"}]
  BY DEF WindowInv, Shape
<1>2. ASSUME NEW t \in Sessions, RestoreFence(t) PROVE Finished(t)
  BY <1>1, <1>2 DEF RestoreFence, Raise, containerRows
<1>3. ASSUME NEW t \in Sessions, Companions(t) PROVE Finished(t)
  BY <1>1, <1>3 DEF Companions, Raise, containerRows
<1>4. ASSUME NEW t \in Sessions, RestoreFence(t) \/ Companions(t) PROVE Goal
  <2>1. Finished(t) /\ session[t].pc # "idle" /\ UNCHANGED up
    BY <1>2, <1>3, <1>4 DEF RestoreFence, Companions
  <2>2. session[t].plan \in Windows
    BY <2>1, SessionAtWork
  <2>3. p = session[t].plan
    BY <1>1, <2>1, <2>2 DEF Finished
  <2>4. UnitOf[p] \in Units /\ flow[UnitOf[p]] = [state |-> "verifying", plan |-> p]
    BY <2>1, <2>3, WindowFacts DEF Finished, FlowIs
  <2>5. up[UnitOf[p]]
    <3>1. UnitOK(UnitOf[p])
      BY <2>4 DEF WindowInv
    <3> QED BY <2>4, <3>1 DEF UnitOK
  <2>6. owner'[UnitOf[p]] = NoWindow /\ held'[p] = "none" /\ flow'[UnitOf[p]] = RowAfter(p)
    BY <2>1, <2>3, <2>4 DEF Finished, HeldAfter, WindowInv, Shape
  <2> QED BY <2>1, <2>5, <2>6 DEF RowAfter
<1>5. ASSUME NEW q \in Windows, Preview(q) \/ LocksExpire(q) PROVE FALSE
  BY <1>1, <1>5 DEF Preview, LocksExpire
<1>6. ASSUME NEW P, Recovered(P) PROVE FALSE
  BY <1>6 DEF Recovered
<1>7. ASSUME NEW t \in Sessions, NEW q \in Windows,
             Prepare(t, q) \/ BeginStop(t, q) \/ BeginReturn(t, q)
      PROVE  FALSE
  BY <1>1, <1>7 DEF Prepare, BeginStop, BeginReturn
<1>8. ASSUME NEW t \in Sessions,
             \/ CaptureFence(t) \/ ActivateFence(t)
             \/ StopUnit(t) \/ StartUnit(t) \/ UnitReady(t)
      PROVE  FALSE
  BY <1>1, <1>8 DEF CaptureFence, ActivateFence, StopUnit, StartUnit, UnitReady, Raise, containerRows
<1>9. ASSUME NEW a \in Units, BatchClaims(a) \/ BatchEnds(a) PROVE FALSE
  BY <1>1, <1>9 DEF BatchClaims, BatchEnds
<1> HIDE DEF Goal
<1>10. Goal
  BY <1>4, <1>5, <1>6, <1>7, <1>8, <1>9 DEF ContainerNext, ReconcileWindow, ControllerRestart
<1> QED BY <1>10 DEF Goal

\* A window that succeeds leaves its workload in service, with the claim, the
\* locks and the row given back in the same transaction.
THEOREM WindowsEndWhole == ContainerSpec => WindowEndsWhole
<1> DEFINE A == \A p \in Windows : window[p] # "succeeded" /\ window'[p] = "succeeded" =>
       /\ up'[UnitOf[p]] /\ owner'[UnitOf[p]] = NoWindow
       /\ held'[p] = "none" /\ flow'[UnitOf[p]].plan = NoWindow
<1>1. WindowInv /\ [ContainerNext]_containerVars => [A]_containerVars
  BY SucceededStep
<1>2. ContainerSpec => [][A]_containerVars
  <2> HIDE DEF A
  <2> QED BY <1>1, WindowsHold, PTL DEF ContainerSpec
<1> QED BY <1>2 DEF WindowEndsWhole

-----------------------------------------------------------------------------
(* Zoning.                                                                 *)

ZoneValues == Zones \cup {NoZone}
ZoneMaps == UNION {[D -> ZoneValues] : D \in SUBSET Workloads}
ZoneRunRecords ==
  [kind : {"apply", "host"}, on : Clusters \cup ZoneHosts,
   phase : {"created", "forward", "rollback", "ended"},
   todo : SUBSET Workloads, completed : SUBSET Workloads, old : ZoneValues,
   previous : ZoneMaps, desired : ZoneMaps, settings : Catalogs \cup {<< >>},
   failed : Workloads \cup {0}, clean : BOOLEAN, truthful : BOOLEAN, started : ZoneMaps]

RecordRow(x, c) ==
  /\ x = [mode |-> x.mode, zones |-> x.zones, status |-> x.status, observed |-> x.observed]
  /\ x.observed \in [OfCluster(c) -> ZoneValues]

ZoningShape ==
  /\ zoning \in [Clusters -> Catalogs]
  /\ members \in [Clusters -> SUBSET ZoneHosts]
  /\ hostZone \in [ZoneHosts -> ZoneValues]
  /\ runtime \in [Workloads -> ZoneValues]
  /\ claim \in [Workloads -> {0} \cup RunIds]
  /\ zoneRuns \in Seq(ZoneRunRecords) /\ Len(zoneRuns) <= MaxZoneRuns
  /\ record = [c \in Clusters |-> record[c]] /\ \A c \in Clusters : RecordRow(record[c], c)
  /\ sample # NoSample => /\ sample.cluster \in Clusters
                          /\ sample.zones \in [OfCluster(sample.cluster) -> ZoneValues]

\* A workload's host is a host of its cluster.
Placed == \A a \in Workloads : HostOf[a] \in members[ClusterOf[a]]

\* Claims name the zone change of the workload's host, and one at work has
\* claimed every workload there.
ClaimsOK ==
  /\ \A a \in Workloads : claim[a] # 0 =>
       claim[a] \in DOMAIN zoneRuns /\ zoneRuns[claim[a]].kind = "host"
       /\ zoneRuns[claim[a]].on = HostOf[a]
  /\ \A r \in DOMAIN zoneRuns : zoneRuns[r].kind = "host" /\ Active(r) =>
       \A a \in OnHost(zoneRuns[r].on) : claim[a] = r

Targets(kind) == IF kind = "apply" THEN Clusters ELSE ZoneHosts

\* The workloads a run may restart.
Scope(run) == IF run.kind = "apply" THEN OfCluster(run.on) ELSE OnHost(run.on)

\* What is done, what is left and what was passed over, against the zones the
\* workloads really run with.
RunOK(run, zoned) ==
  /\ run.on \in Targets(run.kind)
  /\ run.phase = "created" => run.completed = {} /\ run.clean = TRUE
  /\ run.phase \in {"forward", "rollback"} =>
       /\ run.todo \cup run.completed \subseteq DOMAIN run.desired
       /\ DOMAIN run.desired = DOMAIN run.previous /\ DOMAIN run.desired \subseteq Scope(run)
       /\ run.kind = "apply" => DOMAIN run.desired = OfCluster(run.on)
       /\ run.truthful => \A a \in DOMAIN run.previous : run.previous[a] = run.started[a]
  /\ run.phase = "forward" =>
       /\ run.clean = TRUE
       /\ \A a \in run.completed : zoned[a] = run.desired[a]
       /\ \A a \in DOMAIN run.desired \ (run.todo \cup run.completed) : run.previous[a] = run.desired[a]
       /\ run.truthful => \A a \in DOMAIN run.previous \ run.completed : zoned[a] = run.started[a]
  /\ run.phase = "rollback" /\ run.clean /\ run.truthful =>
       \A a \in DOMAIN run.previous \ (run.completed \cup {run.failed}) : zoned[a] = run.started[a]

RunsOK == \A r \in DOMAIN zoneRuns : RunOK(zoneRuns[r], runtime)

\* The zone a failing change would put back is in the catalogs.
OldZoneNamed ==
  \A r \in DOMAIN zoneRuns : zoneRuns[r].kind = "host" /\ Active(r) =>
    \A c \in Clusters \ shaken :
      zoneRuns[r].on \in members[c] /\ zoning[c].mode # "disabled" =>
        zoneRuns[r].old \in zoning[c].zones \cup {NoZone}

ZoningInv ==
  /\ ZoningShape /\ Placed /\ ClaimsOK /\ ZoningExclusive /\ RunsOK
  /\ CatalogNamesZones /\ OldZoneNamed /\ ClaimsReleased

-----------------------------------------------------------------------------
\* R holds the pairs of a total order of A.
Orders(R, A) ==
  /\ \A a, b \in A : a # b => <<a, b>> \in R \/ <<b, a>> \in R
  /\ \A a, b, c \in A : <<a, b>> \in R /\ <<b, c>> \in R => <<a, c>> \in R

\* A finite set has a greatest element in a total order: were there sets
\* without, a smallest of them would have one.
LEMMA GreatestExists ==
  ASSUME NEW A, NEW R, Orders(R, A), NEW S \in SUBSET A, IsFiniteSet(S), S # {}
  PROVE  \E a \in S : \A b \in S \ {a} : <<b, a>> \in R
<1> DEFINE Has(Q) == \E a \in Q : \A b \in Q \ {a} : <<b, a>> \in R
           Bad == {Q \in SUBSET S : Q # {} /\ ~Has(Q)}
           T == {Cardinality(Q) : Q \in Bad}
           L == OpToRel(<, Nat)
<1>1. \A Q \in SUBSET S : IsFiniteSet(Q) /\ Cardinality(Q) \in Nat
  BY FS_Subset, FS_CardinalityType
<1>2. SUFFICES ASSUME Bad # {} PROVE FALSE
  BY DEF Has
<1>3. T \subseteq Nat /\ T # {}
  BY <1>1, <1>2
<1>4. PICK t \in T : \A u \in T : ~(<<u, t>> \in L)
  <2> HIDE DEF T, L
  <2>1. IsWellFoundedOn(L, Nat)
    BY NatLessThanWellFounded DEF L
  <2> QED BY <1>3, <2>1, WFMin
<1>5. \A u \in T : ~(u < t)
  BY <1>3, <1>4 DEF OpToRel
<1>6. PICK Q \in Bad : t = Cardinality(Q)
  BY <1>4
<1>7. PICK a \in Q : TRUE
  BY <1>6
<1>8. Q \ {a} \in SUBSET S /\ Cardinality(Q \ {a}) < Cardinality(Q)
  <2>1. Cardinality(Q \ {a}) = Cardinality(Q) - 1
    BY <1>1, <1>6, <1>7, FS_RemoveElement
  <2>2. Cardinality(Q) \in Nat
    BY <1>1, <1>6
  <2> QED BY <1>6, <2>1, <2>2
<1>9. Q \ {a} \notin Bad
  <2> SUFFICES ASSUME Q \ {a} \in Bad PROVE FALSE
    OBVIOUS
  <2> HIDE DEF Bad
  <2>1. Cardinality(Q \ {a}) \in T
    OBVIOUS
  <2> QED BY <1>5, <1>6, <1>8, <2>1
<1>10. CASE Q \ {a} = {}
  <2>1. \A b \in Q \ {a} : <<b, a>> \in R
    BY <1>10
  <2> QED BY <1>6, <1>7, <2>1
<1>11. CASE Q \ {a} # {}
  <2>1. PICK b \in Q \ {a} : \A c \in (Q \ {a}) \ {b} : <<c, b>> \in R
    BY <1>8, <1>9, <1>11
  <2>2. a \in A /\ b \in A /\ Q \subseteq A /\ a # b
    BY <1>6, <1>7, <2>1
  <2>3. CASE <<a, b>> \in R
    <3>1. \A c \in Q \ {b} : <<c, b>> \in R
      BY <2>1, <2>3
    <3> QED BY <1>6, <2>1, <3>1
  <2>4. CASE <<b, a>> \in R
    <3>1. \A c \in Q \ {a} : <<c, a>> \in R
      BY <2>1, <2>2, <2>4 DEF Orders
    <3> QED BY <1>6, <1>7, <3>1
  <2> QED BY <2>2, <2>3, <2>4 DEF Orders
<1> QED BY <1>10, <1>11

\* The order of workloads is total.
LEMMA SoonerOrders ==
  /\ \A a, b \in Workloads : a # b => Sooner(a, b) \/ Sooner(b, a)
  /\ \A a, b, c \in Workloads : Sooner(a, b) /\ Sooner(b, c) => Sooner(a, c)
<1>1. \A a \in Workloads : a \in Nat /\ ClusterOf[a] \in Nat
  BY ZoningAssumption
<1>2. \A a \in Workloads : RoleRank(a) \in 1..3
  BY DEF RoleRank
<1> QED BY <1>1, <1>2 DEF Sooner

LEMMA FirstAndLast ==
  ASSUME NEW S \in SUBSET Workloads, S # {}
  PROVE  FirstOf(S) \in S /\ LastOf(S) \in S
<1> DEFINE R == {p \in Workloads \X Workloads : Sooner(p[1], p[2])}
           B == {p \in Workloads \X Workloads : Sooner(p[2], p[1])}
<1>1. IsFiniteSet(S)
  BY ZoningAssumption, FS_Subset
<1>2. \E a \in S : \A b \in S \ {a} : Sooner(b, a)
  <2>1. Orders(R, Workloads)
    BY SoonerOrders DEF Orders
  <2>2. \A a, b \in Workloads : <<b, a>> \in R => Sooner(b, a)
    OBVIOUS
  <2> HIDE DEF R
  <2>3. \E a \in S : \A b \in S \ {a} : <<b, a>> \in R
    BY <1>1, <2>1, GreatestExists
  <2> QED BY <2>2, <2>3
<1>3. \E a \in S : \A b \in S \ {a} : Sooner(a, b)
  <2>1. Orders(B, Workloads)
    BY SoonerOrders DEF Orders
  <2>2. \A a, b \in Workloads : <<b, a>> \in B => Sooner(a, b)
    OBVIOUS
  <2> HIDE DEF B
  <2>3. \E a \in S : \A b \in S \ {a} : <<b, a>> \in B
    BY <1>1, <2>1, GreatestExists
  <2> QED BY <2>2, <2>3
<1> QED BY <1>2, <1>3 DEF FirstOf, LastOf

-----------------------------------------------------------------------------

LEMMA EmptyMap == << >> \in ZoneMaps /\ DOMAIN << >> = {}
<1>1. << >> \in [{} -> ZoneValues]
  OBVIOUS
<1> QED BY <1>1 DEF ZoneMaps

LEMMA MapValues ==
  ASSUME NEW f \in ZoneMaps
  PROVE  DOMAIN f \subseteq Workloads /\ \A a \in DOMAIN f : f[a] \in ZoneValues
BY DEF ZoneMaps

\* A run that begins, and one that has ended.
RunLike(run, kind, on) == run \in ZoneRunRecords /\ run.kind = kind /\ run.on = on
FreshRun(run, kind, on, old) ==
  /\ RunLike(run, kind, on) /\ run.old = old /\ run.phase = "created"
  /\ \A zoned : RunOK(run, zoned)
OverRun(run, kind, on) ==
  /\ RunLike(run, kind, on) /\ run.phase = "ended"
  /\ \A zoned : RunOK(run, zoned)

LEMMA NewRunOK ==
  ASSUME NEW kind \in {"apply", "host"}, NEW on, on \in Targets(kind), NEW old \in ZoneValues
  PROVE  FreshRun(NewRun(kind, on, old), kind, on, old)
<1>1. on \in Clusters \cup ZoneHosts
  BY DEF Targets
<1>2. << >> \in Catalogs \cup {<< >>} /\ 0 \in Workloads \cup {0} /\ {} \in SUBSET Workloads
  OBVIOUS
<1>3. PICK new : new = NewRun(kind, on, old)
  OBVIOUS
<1>4. new \in ZoneRunRecords
  BY <1>1, <1>2, <1>3, EmptyMap DEF NewRun, ZoneRunRecords
<1>5. /\ new.kind = kind /\ new.on = on /\ new.old = old /\ new.phase = "created"
      /\ new.completed = {} /\ new.clean = TRUE
  BY <1>3 DEF NewRun
<1>6. \A zoned : RunOK(new, zoned)
  BY <1>5 DEF RunOK
<1> QED BY <1>3, <1>4, <1>5, <1>6 DEF FreshRun, RunLike

Over(kind, on) == [NewRun(kind, on, NoZone) EXCEPT !.phase = "ended"]

LEMMA OverOK ==
  ASSUME NEW kind \in {"apply", "host"}, NEW on, on \in Targets(kind)
  PROVE  OverRun(Over(kind, on), kind, on)
<1>1. NoZone \in ZoneValues
  BY DEF ZoneValues
<1>2. PICK new : new = NewRun(kind, on, NoZone)
  OBVIOUS
<1>3. FreshRun(new, kind, on, NoZone)
  BY <1>1, <1>2, NewRunOK
<1>4. PICK over : over = [new EXCEPT !.phase = "ended"]
  OBVIOUS
<1>5. over \in ZoneRunRecords /\ over.kind = kind /\ over.on = on /\ over.phase = "ended"
  BY <1>3, <1>4 DEF FreshRun, RunLike, ZoneRunRecords
<1>6. \A zoned : RunOK(over, zoned)
  BY <1>5 DEF RunOK
<1>7. Over(kind, on) = over
  BY <1>2, <1>4 DEF Over
<1> QED BY <1>5, <1>6, <1>7 DEF OverRun, RunLike

\* A run among the others.
LEMMA ReplaceZoneRun ==
  ASSUME ZoningShape, NEW r \in DOMAIN zoneRuns, NEW run \in ZoneRunRecords
  PROVE  LET new == [zoneRuns EXCEPT ![r] = run]
         IN  /\ new \in Seq(ZoneRunRecords) /\ Len(new) = Len(zoneRuns)
             /\ DOMAIN new = DOMAIN zoneRuns /\ new[r] = run
             /\ \A s \in DOMAIN zoneRuns : s # r => new[s] = zoneRuns[s]
BY DEF ZoningShape

LEMMA AppendZoneRun ==
  ASSUME ZoningShape, Len(zoneRuns) < MaxZoneRuns, NEW run \in ZoneRunRecords
  PROVE  LET new == Append(zoneRuns, run)
             n == Len(zoneRuns) + 1
         IN  /\ new \in Seq(ZoneRunRecords) /\ Len(new) = n /\ n <= MaxZoneRuns /\ n \in RunIds
             /\ DOMAIN new = DOMAIN zoneRuns \cup {n} /\ n \notin DOMAIN zoneRuns /\ new[n] = run
             /\ \A s \in DOMAIN zoneRuns : new[s] = zoneRuns[s]
BY ZoningAssumption DEF ZoningShape, RunIds

LEMMA RunTypes ==
  ASSUME ZoningInv, NEW r \in DOMAIN zoneRuns
  PROVE  /\ zoneRuns[r] \in ZoneRunRecords /\ RunOK(zoneRuns[r], runtime)
         /\ zoneRuns[r].kind \in {"apply", "host"} /\ zoneRuns[r].old \in ZoneValues
         /\ zoneRuns[r].on \in Targets(zoneRuns[r].kind)
<1>1. zoneRuns[r] \in ZoneRunRecords /\ RunOK(zoneRuns[r], runtime)
  BY DEF ZoningInv, ZoningShape, RunsOK
<1> QED BY <1>1 DEF ZoneRunRecords, RunOK

\* Runs at work have nothing in common.
LEMMA ScopesApart ==
  ASSUME ZoningInv, NEW r \in DOMAIN zoneRuns, NEW s \in DOMAIN zoneRuns, r # s,
         Active(r), Active(s)
  PROVE  Scope(zoneRuns[r]) \cap Scope(zoneRuns[s]) = {}
<1> SUFFICES ASSUME NEW a \in Scope(zoneRuns[r]), a \in Scope(zoneRuns[s]) PROVE FALSE
  OBVIOUS
<1>1. a \in Workloads /\ ClusterOf[a] \in Clusters
  BY ZoningAssumption DEF Scope, OfCluster, OnHost
<1>2. Touches(r, ClusterOf[a]) /\ Touches(s, ClusterOf[a])
  BY <1>1 DEF Scope, OfCluster, OnHost, Touches
<1> QED BY <1>1, <1>2 DEF ZoningInv, ZoningExclusive

\* A restart of workloads outside of a run's scope does not concern it.
LEMMA OutsideScope ==
  ASSUME NEW run, NEW zoned, NEW now, RunOK(run, zoned),
         \A a \in Scope(run) : now[a] = zoned[a]
  PROVE  RunOK(run, now)
BY DEF RunOK
-----------------------------------------------------------------------------

\* Steps that leave the runs and the workloads as they are.
LEMMA EditSteps ==
  ASSUME ZoningInv, UNCHANGED <<hostZone, runtime, record, claim, zoneRuns, sample>>,
         zoning' \in [Clusters -> Catalogs], members' \in [Clusters -> SUBSET ZoneHosts],
         shaken \subseteq shaken', Placed', CatalogNamesZones', OldZoneNamed'
  PROVE  ZoningInv'
<1>1. ZoningShape'
  BY DEF ZoningInv, ZoningShape
<1>2. ClaimsOK'
  BY DEF ZoningInv, ClaimsOK, Active
<1>3. ZoningExclusive' /\ RunsOK'
  BY DEF ZoningInv, ZoningExclusive, Active, Touches, RunsOK
<1>4. ClaimsReleased'
  BY DEF ZoningInv, ClaimsReleased, Active
<1> QED BY <1>1, <1>2, <1>3, <1>4 DEF ZoningInv

LEMMA PutZoningKeeps ==
  ASSUME ZoningInv, NEW c \in Clusters, NEW z \in Catalogs, PutZoning(c, z)
  PROVE  ZoningInv'
<1>1. /\ zoning' = [zoning EXCEPT ![c] = z] /\ zoning \in [Clusters -> Catalogs]
      /\ members \in [Clusters -> SUBSET ZoneHosts]
      /\ UNCHANGED <<hostZone, runtime, record, claim, zoneRuns, sample, members>>
      /\ ValidCatalog(c, z) /\ shaken' = IF ZoneChangeOf(members[c]) THEN shaken \cup {c} ELSE shaken
  BY DEF PutZoning, ZoningInv, ZoningShape
<1>2. Placed'
  BY <1>1 DEF ZoningInv, Placed
<1>3. CatalogNamesZones'
  BY <1>1 DEF ZoningInv, CatalogNamesZones, ZonesInUse, ValidCatalog
<1>4. OldZoneNamed'
  BY <1>1 DEF ZoningInv, OldZoneNamed, ZoneChangeOf, Active
<1>5. zoning' \in [Clusters -> Catalogs] /\ members' \in [Clusters -> SUBSET ZoneHosts] /\ shaken \subseteq shaken'
  BY <1>1
<1> QED BY <1>1, <1>2, <1>3, <1>4, <1>5, EditSteps

LEMMA AddMemberKeeps ==
  ASSUME ZoningInv, NEW c \in Clusters, NEW h \in SpareHosts, AddMember(c, h)
  PROVE  ZoningInv'
<1>1. /\ members' = [members EXCEPT ![c] = members[c] \cup {h}] /\ zoning \in [Clusters -> Catalogs]
      /\ members \in [Clusters -> SUBSET ZoneHosts] /\ h \in ZoneHosts
      /\ UNCHANGED <<hostZone, runtime, record, claim, zoneRuns, sample, zoning>>
      /\ HostZoneFits(c, h) /\ shaken' = IF ZoneChangeOf({h}) THEN shaken \cup {c} ELSE shaken
  BY ZoningAssumption DEF AddMember, ZoningInv, ZoningShape
<1>2. Placed'
  BY <1>1, ZoningAssumption DEF ZoningInv, Placed
<1>3. CatalogNamesZones'
  BY <1>1 DEF ZoningInv, CatalogNamesZones, ZonesInUse, HostZoneFits
<1>4. OldZoneNamed'
  BY <1>1 DEF ZoningInv, OldZoneNamed, ZoneChangeOf, Active
<1>5. zoning' \in [Clusters -> Catalogs] /\ members' \in [Clusters -> SUBSET ZoneHosts] /\ shaken \subseteq shaken'
  BY <1>1
<1> QED BY <1>1, <1>2, <1>3, <1>4, <1>5, EditSteps

LEMMA RemoveMemberKeeps ==
  ASSUME ZoningInv, NEW c \in Clusters, NEW h \in SpareHosts, RemoveMember(c, h)
  PROVE  ZoningInv'
<1>1. /\ members' = [members EXCEPT ![c] = members[c] \ {h}] /\ zoning \in [Clusters -> Catalogs]
      /\ members \in [Clusters -> SUBSET ZoneHosts]
      /\ UNCHANGED <<hostZone, runtime, record, claim, zoneRuns, sample, zoning, shaken>>
      /\ OnHost(h) \cap OfCluster(c) = {}
  BY DEF RemoveMember, ZoningInv, ZoningShape
<1>2. Placed'
  BY <1>1, ZoningAssumption DEF ZoningInv, Placed, OnHost, OfCluster
<1>3. CatalogNamesZones'
  BY <1>1 DEF ZoningInv, CatalogNamesZones, ZonesInUse
<1>4. OldZoneNamed'
  BY <1>1 DEF ZoningInv, OldZoneNamed, Active
<1>5. zoning' \in [Clusters -> Catalogs] /\ members' \in [Clusters -> SUBSET ZoneHosts] /\ shaken \subseteq shaken'
  BY <1>1
<1> QED BY <1>1, <1>2, <1>3, <1>4, <1>5, EditSteps
-----------------------------------------------------------------------------

\* A cluster without an active operation is touched by no run at work.
LEMMA NoOperation ==
  ASSUME ZoningInv, NEW c \in Clusters, ~ActiveOperation(c),
         NEW s \in DOMAIN zoneRuns, Active(s)
  PROVE  ~Touches(s, c)
<1>1. s # 0
  BY DEF ZoningInv, ZoningShape
<1>2. zoneRuns[s].kind \in {"apply", "host"}
  BY RunTypes
<1>3. CASE zoneRuns[s].kind = "apply"
  BY <1>3 DEF ActiveOperation, HasActiveTarget, Touches
<1>4. CASE zoneRuns[s].kind = "host"
  <2>1. \A a \in OnHost(zoneRuns[s].on) : claim[a] = s
    BY <1>4 DEF ZoningInv, ClaimsOK
  <2> QED BY <1>1, <1>4, <2>1 DEF ActiveOperation, Touches
<1> QED BY <1>2, <1>3, <1>4

LEMMA RunAdded ==
  ASSUME ZoningInv, NEW kind \in {"apply", "host"},
         NEW on, on \in Targets(kind), NEW old \in ZoneValues,
         Len(zoneRuns) < MaxZoneRuns, runtime' = runtime,
         zoneRuns' = Append(zoneRuns, NewRun(kind, on, old)),
         kind = "apply" => ~ActiveOperation(on),
         kind = "host" => \A a \in OnHost(on) : ~ActiveOperation(ClusterOf[a])
  PROVE  ZoningExclusive' /\ RunsOK'
<1> DEFINE new == NewRun(kind, on, old)
<1>n. PICK n : n = Len(zoneRuns) + 1
  OBVIOUS
<1>1. /\ new \in ZoneRunRecords /\ new.kind = kind /\ new.on = on
      /\ RunOK(new, runtime)
  <2>1. FreshRun(new, kind, on, old)
    BY NewRunOK
  <2> QED BY <2>1 DEF FreshRun, RunLike
<1> HIDE DEF new
<1>2. ZoningShape
  BY DEF ZoningInv
<1>3. /\ DOMAIN zoneRuns' = DOMAIN zoneRuns \cup {n} /\ n \notin DOMAIN zoneRuns /\ zoneRuns'[n] = new
      /\ \A s \in DOMAIN zoneRuns : zoneRuns'[s] = zoneRuns[s]
  BY <1>n, <1>1, <1>2, AppendZoneRun DEF new
<1>4. RunsOK'
  BY <1>1, <1>3 DEF ZoningInv, RunsOK
<1>5. \A s \in DOMAIN zoneRuns, c \in Clusters : Active(s) /\ Touches(n, c)' => ~Touches(s, c)
  <2> SUFFICES ASSUME NEW s \in DOMAIN zoneRuns, NEW c \in Clusters, Active(s), Touches(n, c)'
               PROVE  ~Touches(s, c)
    OBVIOUS
  <2>1. ~ActiveOperation(c)
    <3>1. CASE kind = "apply"
      BY <1>1, <1>3, <3>1 DEF Touches
    <3>2. CASE kind = "host"
      BY <1>1, <1>3, <3>2 DEF Touches, OfCluster
    <3> QED BY <3>1, <3>2
  <2> QED BY <2>1, NoOperation
<1>6. \A s \in DOMAIN zoneRuns : Active(s)' <=> Active(s)
  BY <1>3 DEF Active
<1>7. \A s \in DOMAIN zoneRuns, c \in Clusters : Touches(s, c)' <=> Touches(s, c)
  BY <1>3 DEF Touches
<1>8. ZoningExclusive'
  <2> SUFFICES ASSUME NEW r \in (DOMAIN zoneRuns)', NEW s \in (DOMAIN zoneRuns)', r # s, Active(r)', Active(s)',
                      NEW c \in Clusters, Touches(r, c)', Touches(s, c)'
               PROVE  FALSE
    BY DEF ZoningExclusive
  <2>1. CASE r = n
    BY <1>3, <1>5, <1>6, <1>7, <2>1
  <2>2. CASE s = n
    BY <1>3, <1>5, <1>6, <1>7, <2>2
  <2>3. CASE r # n /\ s # n
    BY <1>3, <1>6, <1>7, <2>3 DEF ZoningInv, ZoningExclusive
  <2> QED BY <2>1, <2>2, <2>3
<1> QED BY <1>4, <1>8

LEMMA LaunchApplyKeeps ==
  ASSUME ZoningInv, NEW c \in Clusters, LaunchApply(c)
  PROVE  ZoningInv'
<1>0. /\ UNCHANGED <<zoning, members, hostZone, runtime, claim, sample, shaken>>
      /\ ZoningShape /\ ~ActiveOperation(c)
  BY DEF LaunchApply, ZoningInv, Preflight
<1>1. CASE /\ Len(zoneRuns) < MaxZoneRuns
           /\ zoneRuns' = Append(zoneRuns, NewRun("apply", c, NoZone)) /\ record' = record
  <2> DEFINE new == NewRun("apply", c, NoZone)
             n == Len(zoneRuns) + 1
  <2>1. NoZone \in ZoneValues /\ c \in Targets("apply")
    BY DEF ZoneValues, Targets
  <2>2. new \in ZoneRunRecords /\ new.kind = "apply"
    <3>1. FreshRun(new, "apply", c, NoZone)
      BY <2>1, NewRunOK
    <3> QED BY <3>1 DEF FreshRun, RunLike
  <2>3. ZoningExclusive' /\ RunsOK'
    BY <1>0, <1>1, <2>1, RunAdded
  <2> HIDE DEF new
  <2>4. /\ zoneRuns' \in Seq(ZoneRunRecords) /\ Len(zoneRuns') <= MaxZoneRuns
        /\ DOMAIN zoneRuns' = DOMAIN zoneRuns \cup {n} /\ n \notin DOMAIN zoneRuns /\ zoneRuns'[n] = new
        /\ \A s \in DOMAIN zoneRuns : zoneRuns'[s] = zoneRuns[s]
    BY <1>0, <1>1, <2>2, AppendZoneRun DEF new
  <2> HIDE DEF n
  <2>5. ZoningShape'
    BY <1>0, <1>1, <2>4 DEF ZoningShape
  <2>6. Placed' /\ CatalogNamesZones'
    BY <1>0 DEF ZoningInv, Placed, CatalogNamesZones, ZonesInUse
  <2>7. ClaimsOK' /\ ClaimsReleased' /\ OldZoneNamed'
    BY <1>0, <2>2, <2>4 DEF ZoningInv, ClaimsOK, ClaimsReleased, OldZoneNamed, Active
  <2> QED BY <2>3, <2>5, <2>6, <2>7 DEF ZoningInv
<1>2. CASE /\ zoneRuns' = zoneRuns
           /\ record' = [record EXCEPT ![c].mode = "disabled", ![c].zones = {}, ![c].status = "disabled"]
  <2>1. ZoningShape'
    <3>1. RecordRow(record[c], c) /\ record = [d \in Clusters |-> record[d]]
      BY <1>0 DEF ZoningShape
    <3>2. PICK row : row = [[[record[c] EXCEPT !.mode = "disabled"] EXCEPT !.zones = {}] EXCEPT !.status = "disabled"]
      OBVIOUS
    <3>3. record' = [record EXCEPT ![c] = row]
      BY <1>2, <3>1, <3>2
    <3>4. RecordRow(row, c)
      BY <3>1, <3>2 DEF RecordRow
    <3>5. record' = [d \in Clusters |-> record'[d]] /\ \A d \in Clusters : RecordRow(record'[d], d)
      BY <1>0, <3>1, <3>3, <3>4 DEF ZoningShape
    <3> QED BY <1>0, <1>2, <3>5 DEF ZoningShape
  <2>2. Placed' /\ ClaimsOK' /\ RunsOK' /\ CatalogNamesZones' /\ OldZoneNamed' /\ ClaimsReleased'
    BY <1>0, <1>2 DEF ZoningInv, Placed, ClaimsOK, RunsOK, CatalogNamesZones, ZonesInUse, OldZoneNamed,
                      ClaimsReleased, Active
  <2>3. ZoningExclusive'
    BY <1>0, <1>2 DEF ZoningInv, ZoningExclusive, Active, Touches
  <2> QED BY <2>1, <2>2, <2>3 DEF ZoningInv
<1> QED BY <1>1, <1>2 DEF LaunchApply

\* A host that moves: its clusters know the new zone, and knew the old one.
LEMMA HostMoves ==
  ASSUME ZoningInv, NEW h \in ZoneHosts, NEW c \in Clusters, NEW z \in Zones,
         ZoneChangeFits(h, c, z), hostZone' = [hostZone EXCEPT ![h] = z],
         UNCHANGED <<zoning, members, shaken>>
  PROVE  /\ hostZone' \in [ZoneHosts -> ZoneValues] /\ CatalogNamesZones'
         /\ \A d \in Clusters \ shaken : h \in members[d] /\ zoning[d].mode # "disabled" =>
              hostZone[h] \in zoning[d].zones \cup {NoZone}
<1>1. hostZone \in [ZoneHosts -> ZoneValues] /\ members \in [Clusters -> SUBSET ZoneHosts]
  BY DEF ZoningInv, ZoningShape
<1>2. hostZone' \in [ZoneHosts -> ZoneValues]
  BY <1>1 DEF ZoneValues
<1>3. CatalogNamesZones'
  <2> SUFFICES ASSUME NEW d \in Clusters \ shaken, zoning[d].mode # "disabled",
                      NEW g \in members[d], hostZone'[g] # NoZone
               PROVE  hostZone'[g] \in zoning[d].zones
    BY DEF CatalogNamesZones, ZonesInUse
  <2>1. CASE g = h
    BY <1>1, <2>1 DEF ZoneChangeFits
  <2>2. CASE g # h
    <3>1. hostZone'[g] = hostZone[g]
      BY <1>1, <2>2
    <3> QED BY <3>1 DEF ZoningInv, CatalogNamesZones, ZonesInUse
  <2> QED BY <2>1, <2>2
<1>4. \A d \in Clusters \ shaken : h \in members[d] /\ zoning[d].mode # "disabled" =>
         hostZone[h] \in zoning[d].zones \cup {NoZone}
  BY DEF ZoningInv, CatalogNamesZones, ZonesInUse
<1> QED BY <1>2, <1>3, <1>4

LEMMA UpdateNodeZoneKeeps ==
  ASSUME ZoningInv, NEW h \in ZoneHosts, NEW c \in Clusters, NEW z \in Zones,
         UpdateNodeZone(h, c, z)
  PROVE  ZoningInv'
<1>0. /\ UNCHANGED <<zoning, members, runtime, record, sample, shaken>> /\ ZoningShape
      /\ ZoneChangeFits(h, c, z) /\ hostZone' = [hostZone EXCEPT ![h] = z]
      /\ \A d \in Clusters : h \in members[d] => ~ActiveOperation(d)
      /\ \A a \in OnHost(h) : claim[a] = 0
  BY DEF UpdateNodeZone, ZoningInv, ValidZoneChange
<1>1. /\ hostZone' \in [ZoneHosts -> ZoneValues] /\ CatalogNamesZones'
      /\ \A d \in Clusters \ shaken : h \in members[d] /\ zoning[d].mode # "disabled" =>
           hostZone[h] \in zoning[d].zones \cup {NoZone}
  BY <1>0, HostMoves
<1>2. Placed'
  BY <1>0 DEF ZoningInv, Placed
<1>3. CASE /\ Len(zoneRuns) < MaxZoneRuns
           /\ zoneRuns' = Append(zoneRuns, NewRun("host", h, hostZone[h]))
           /\ claim' = [a \in Workloads |-> IF a \in OnHost(h) THEN Len(zoneRuns') ELSE claim[a]]
  <2>n. PICK n : n = Len(zoneRuns) + 1
    OBVIOUS
  <2>w. PICK new : new = NewRun("host", h, hostZone[h])
    OBVIOUS
  <2>1. hostZone[h] \in ZoneValues /\ h \in Targets("host")
    BY <1>0 DEF ZoningShape, Targets
  <2>2. FreshRun(new, "host", h, hostZone[h])
    BY <2>w, <2>1, NewRunOK
  <2>3. \A a \in OnHost(h) : ~ActiveOperation(ClusterOf[a])
    BY <1>0, ZoningAssumption DEF ZoningInv, Placed, OnHost
  <2>4. ZoningExclusive' /\ RunsOK'
    BY <1>0, <1>3, <2>1, <2>3, RunAdded
  <2>5. new \in ZoneRunRecords /\ new.kind = "host" /\ new.on = h /\ new.old = hostZone[h] /\ new.phase = "created"
    BY <2>2 DEF FreshRun, RunLike
  <2>6. /\ zoneRuns' \in Seq(ZoneRunRecords) /\ Len(zoneRuns') <= MaxZoneRuns /\ n \in RunIds
        /\ Len(zoneRuns') = n
        /\ DOMAIN zoneRuns' = DOMAIN zoneRuns \cup {n} /\ n \notin DOMAIN zoneRuns /\ zoneRuns'[n] = new
        /\ \A s \in DOMAIN zoneRuns : zoneRuns'[s] = zoneRuns[s]
    BY <1>0, <1>3, <2>n, <2>w, <2>5, AppendZoneRun
  <2>7. claim \in [Workloads -> {0} \cup RunIds]
    BY <1>0 DEF ZoningShape
  <2>8. /\ claim' \in [Workloads -> {0} \cup RunIds]
        /\ \A a \in OnHost(h) : claim'[a] = n
        /\ \A a \in Workloads \ OnHost(h) : claim'[a] = claim[a]
    BY <1>3, <2>6, <2>7 DEF OnHost
  <2>9. ZoningShape'
    BY <1>0, <1>1, <2>6, <2>8 DEF ZoningShape
  <2>10. \A s \in DOMAIN zoneRuns : s # 0
    BY <1>0 DEF ZoningShape
  <2>11. ClaimsOK'
    <3>1. \A a \in Workloads : claim'[a] # 0 =>
            claim'[a] \in DOMAIN zoneRuns' /\ zoneRuns'[claim'[a]].kind = "host"
            /\ zoneRuns'[claim'[a]].on = HostOf[a]
      BY <2>5, <2>6, <2>8 DEF ZoningInv, ClaimsOK, OnHost
    <3>2. \A s \in DOMAIN zoneRuns' : zoneRuns'[s].kind = "host" /\ Active(s)' =>
            \A a \in OnHost(zoneRuns'[s].on) : claim'[a] = s
      <4> SUFFICES ASSUME NEW s \in DOMAIN zoneRuns, zoneRuns[s].kind = "host", Active(s),
                          NEW a \in OnHost(zoneRuns[s].on)
                   PROVE  claim'[a] = s
        BY <2>5, <2>6, <2>8 DEF Active
      <4>1. claim[a] = s
        BY DEF ZoningInv, ClaimsOK
      <4> QED BY <1>0, <2>8, <2>10, <4>1 DEF OnHost
    <3> QED BY <3>1, <3>2 DEF ClaimsOK
  <2>12. OldZoneNamed'
    BY <1>0, <1>1, <2>5, <2>6 DEF ZoningInv, OldZoneNamed, Active
  <2>13. ClaimsReleased'
    <3>1. \A a \in Workloads : claim[a] # 0 => claim[a] \in DOMAIN zoneRuns
      BY DEF ZoningInv, ClaimsOK
    <3> QED BY <1>0, <2>5, <2>6, <2>8, <3>1 DEF ZoningInv, ClaimsReleased, Active
  <2> QED BY <1>1, <1>2, <2>4, <2>9, <2>11, <2>12, <2>13 DEF ZoningInv
<1>4. CASE zoneRuns' = zoneRuns /\ claim' = claim
  <2>1. ZoningShape'
    BY <1>0, <1>1, <1>4 DEF ZoningShape
  <2>2. ClaimsOK' /\ RunsOK' /\ OldZoneNamed' /\ ClaimsReleased'
    BY <1>0, <1>4 DEF ZoningInv, ClaimsOK, RunsOK, OldZoneNamed, ClaimsReleased, Active
  <2>3. ZoningExclusive'
    BY <1>0, <1>4 DEF ZoningInv, ZoningExclusive, Active, Touches
  <2> QED BY <1>1, <1>2, <2>1, <2>2, <2>3 DEF ZoningInv
<1> QED BY <1>3, <1>4 DEF UpdateNodeZone
-----------------------------------------------------------------------------

\* A run goes on: it stays the run it is, and restarts only its own workloads.
LEMMA RunMoves ==
  ASSUME ZoningInv, NEW r \in DOMAIN zoneRuns, NEW run \in ZoneRunRecords,
         zoneRuns' = [zoneRuns EXCEPT ![r] = run], Active(r), run.phase # "ended",
         run.kind = zoneRuns[r].kind, run.on = zoneRuns[r].on, run.old = zoneRuns[r].old,
         runtime' \in [Workloads -> ZoneValues], RunOK(run, runtime'),
         \A a \in Workloads \ Scope(run) : runtime'[a] = runtime[a],
         UNCHANGED <<zoning, members, hostZone, record, claim, sample, shaken>>
  PROVE  ZoningInv'
<1>0. ZoningShape
  BY DEF ZoningInv
<1>1. /\ zoneRuns' \in Seq(ZoneRunRecords) /\ Len(zoneRuns') = Len(zoneRuns)
      /\ DOMAIN zoneRuns' = DOMAIN zoneRuns /\ zoneRuns'[r] = run
      /\ \A s \in DOMAIN zoneRuns : s # r => zoneRuns'[s] = zoneRuns[s]
  BY <1>0, ReplaceZoneRun
<1>2. \A s \in DOMAIN zoneRuns :
        /\ Active(s)' <=> Active(s)
        /\ zoneRuns'[s].kind = zoneRuns[s].kind /\ zoneRuns'[s].on = zoneRuns[s].on
        /\ zoneRuns'[s].old = zoneRuns[s].old
  BY <1>1 DEF Active
<1>3. \A s \in DOMAIN zoneRuns, c \in Clusters : Touches(s, c)' <=> Touches(s, c)
  BY <1>2 DEF Touches
<1>4. ZoningShape'
  BY <1>0, <1>1 DEF ZoningShape
<1>5. ZoningExclusive'
  BY <1>1, <1>2, <1>3 DEF ZoningInv, ZoningExclusive
<1>6. RunsOK'
  <2> SUFFICES ASSUME NEW s \in DOMAIN zoneRuns PROVE RunOK(zoneRuns'[s], runtime')
    BY <1>1 DEF RunsOK
  <2>1. CASE s = r
    BY <1>1, <2>1
  <2>2. CASE s # r /\ Active(s)
    <3>1. Scope(zoneRuns[r]) \cap Scope(zoneRuns[s]) = {}
      BY <2>2, ScopesApart
    <3>2. Scope(run) = Scope(zoneRuns[r]) /\ Scope(zoneRuns[s]) \subseteq Workloads
      BY DEF Scope, OfCluster, OnHost
    <3>3. \A a \in Scope(zoneRuns[s]) : runtime'[a] = runtime[a]
      BY <3>1, <3>2
    <3>4. RunOK(zoneRuns[s], runtime)
      BY RunTypes
    <3>5. RunOK(zoneRuns[s], runtime')
      BY <3>3, <3>4, OutsideScope
    <3> QED BY <1>1, <2>2, <3>5
  <2>3. CASE s # r /\ ~Active(s)
    <3>1. RunOK(zoneRuns[s], runtime) /\ zoneRuns[s].phase = "ended"
      BY <2>3, RunTypes DEF Active
    <3> QED BY <1>1, <2>3, <3>1 DEF RunOK
  <2> QED BY <2>1, <2>2, <2>3
<1>7. Placed' /\ CatalogNamesZones'
  BY DEF ZoningInv, Placed, CatalogNamesZones, ZonesInUse
<1>8. OldZoneNamed'
  BY <1>1, <1>2 DEF ZoningInv, OldZoneNamed
<1>9. ClaimsOK' /\ ClaimsReleased'
  <2>1. \A a \in Workloads : claim[a] # 0 =>
          claim[a] \in DOMAIN zoneRuns /\ zoneRuns[claim[a]].kind = "host"
          /\ zoneRuns[claim[a]].on = HostOf[a]
    BY DEF ZoningInv, ClaimsOK
  <2>2. \A s \in DOMAIN zoneRuns : zoneRuns[s].kind = "host" /\ Active(s) =>
          \A a \in OnHost(zoneRuns[s].on) : claim[a] = s
    BY DEF ZoningInv, ClaimsOK
  <2>3. ClaimsOK'
    BY <1>1, <1>2, <2>1, <2>2 DEF ClaimsOK
  <2>4. ClaimsReleased'
    BY <1>1, <1>2, <2>1 DEF ZoningInv, ClaimsReleased
  <2> QED BY <2>3, <2>4
<1> QED BY <1>4, <1>5, <1>6, <1>7, <1>8, <1>9 DEF ZoningInv

\* What the settings of a run leave alone.
Alike(q, run) ==
  /\ q.kind = run.kind /\ q.on = run.on /\ q.old = run.old /\ q.phase = run.phase
  /\ q.todo = run.todo /\ q.completed = run.completed /\ q.previous = run.previous
  /\ q.desired = run.desired /\ q.failed = run.failed /\ q.clean = run.clean
  /\ q.truthful = run.truthful /\ q.started = run.started

LEMMA AlikeOK ==
  ASSUME NEW q, NEW run, NEW zoned, Alike(q, run), RunOK(run, zoned)
  PROVE  RunOK(q, zoned)
<1>1. Scope(q) = Scope(run)
  BY DEF Alike, Scope
<1> QED BY <1>1 DEF Alike, RunOK

LEMMA SettingsKeep ==
  ASSUME ZoningInv, NEW run \in ZoneRunRecords, run.on \in Targets(run.kind)
  PROVE  WithSettings(run) \in ZoneRunRecords /\ Alike(WithSettings(run), run)
<1>1. CASE run.todo = {} /\ run.kind = "apply"
  <2>1. PICK z : z = zoning[run.on] /\ z \in Catalogs \cup {<< >>}
    BY <1>1 DEF ZoningInv, ZoningShape, Targets
  <2>2. PICK q : q = [run EXCEPT !.settings = z]
    OBVIOUS
  <2>3. q \in ZoneRunRecords
    BY ONLY <2>1, <2>2, run \in ZoneRunRecords DEF ZoneRunRecords
  <2>4. Alike(q, run)
    BY ONLY <2>2, run \in ZoneRunRecords DEF ZoneRunRecords, Alike
  <2>5. WithSettings(run) = q
    BY <1>1, <2>1, <2>2 DEF WithSettings
  <2> QED BY <2>3, <2>4, <2>5
<1>2. CASE ~(run.todo = {} /\ run.kind = "apply")
  <2>1. WithSettings(run) = run
    BY <1>2 DEF WithSettings
  <2> QED BY <2>1 DEF Alike
<1> QED BY <1>1, <1>2

\* A function of workloads is a map of zones.
LEMMA AMap ==
  ASSUME NEW D \in SUBSET Workloads, NEW f \in [D -> ZoneValues]
  PROVE  f \in ZoneMaps /\ DOMAIN f = D
BY DEF ZoneMaps

LEMMA BeginApplyKeeps ==
  ASSUME ZoningInv, NEW r \in DOMAIN zoneRuns, BeginApply(r)
  PROVE  ZoningInv'
<1>1. PICK old : old = zoneRuns[r]
  OBVIOUS
<1>2. /\ old \in ZoneRunRecords /\ RunOK(old, runtime) /\ old.kind = "apply" /\ old.phase = "created"
      /\ old.on \in Clusters /\ ZoningShape
  BY <1>1, RunTypes DEF BeginApply, Targets, ZoningInv
<1>3. PICK c : c = old.on /\ c \in Clusters
  BY <1>2
<1>4. PICK previous : previous = record[c].observed
  OBVIOUS
<1>5. PICK desired : desired = [a \in OfCluster(c) |-> DesiredZone(a, zoning[c])]
  OBVIOUS
<1>6. PICK todo : todo = {a \in OfCluster(c) : previous[a] # desired[a]}
  OBVIOUS
<1>7. PICK b : b = TruthfulIn(c)
  OBVIOUS
<1>8. OfCluster(c) \in SUBSET Workloads
  BY DEF OfCluster
<1>9. previous \in ZoneMaps /\ DOMAIN previous = OfCluster(c)
  <2>1. previous \in [OfCluster(c) -> ZoneValues]
    BY <1>2, <1>3, <1>4 DEF ZoningShape, RecordRow
  <2> QED BY <1>8, <2>1, AMap
<1>10. desired \in ZoneMaps /\ DOMAIN desired = OfCluster(c)
  <2>1. \A a \in Workloads : DesiredZone(a, zoning[c]) \in ZoneValues
    BY <1>2, ZoningAssumption DEF ZoningShape, DesiredZone, ZoneValues
  <2>2. desired \in [OfCluster(c) -> ZoneValues]
    BY <1>5, <1>8, <2>1
  <2> QED BY <1>8, <2>2, AMap
<1>11. runtime \in ZoneMaps /\ runtime \in [Workloads -> ZoneValues]
  BY <1>2, AMap DEF ZoningShape
<1>12. b \in BOOLEAN /\ (b => \A a \in OfCluster(c) : previous[a] = runtime[a])
  BY <1>4, <1>7 DEF TruthfulIn
<1>13. PICK q : q = [old EXCEPT !.phase = "forward", !.todo = todo, !.previous = previous,
                     !.desired = desired, !.truthful = b, !.started = runtime]
  OBVIOUS
<1>14. /\ q \in ZoneRunRecords /\ q.phase = "forward" /\ q.todo = todo /\ q.previous = previous
       /\ q.desired = desired /\ q.truthful = b /\ q.started = runtime /\ q.kind = old.kind
       /\ q.on = old.on /\ q.old = old.old /\ q.completed = old.completed /\ q.clean = old.clean
  <2>1. todo \in SUBSET Workloads
    BY <1>6, <1>8
  <2> QED BY ONLY <1>2, <1>9, <1>10, <1>11, <1>12, <1>13, <2>1 DEF ZoneRunRecords
<1>15. q.completed = {} /\ q.clean = TRUE
  BY <1>2, <1>14 DEF RunOK
<1>16. todo \subseteq OfCluster(c) /\ \A a \in OfCluster(c) \ todo : previous[a] = desired[a]
  BY <1>6
<1>17. RunOK(q, runtime)
  <2>1. Scope(q) = OfCluster(c) /\ q.on \in Targets(q.kind)
    BY <1>2, <1>3, <1>14 DEF Scope, Targets
  <2> QED BY <1>2, <1>3, <1>9, <1>10, <1>12, <1>14, <1>15, <1>16, <2>1 DEF RunOK
<1>18. PICK run : run = WithSettings(q)
  OBVIOUS
<1>19. run \in ZoneRunRecords /\ Alike(run, q)
  <2>1. q.on \in Targets(q.kind)
    BY <1>2, <1>14 DEF Targets
  <2> QED BY <1>14, <1>18, <2>1, SettingsKeep
<1>20. RunOK(run, runtime)
  BY <1>17, <1>19, AlikeOK
<1>21. zoneRuns' = [zoneRuns EXCEPT ![r] = run]
  BY <1>1, <1>3, <1>4, <1>5, <1>6, <1>7, <1>13, <1>18 DEF BeginApply
<1>22. UNCHANGED <<zoning, members, hostZone, runtime, record, claim, sample, shaken>>
  BY DEF BeginApply
<1>23. /\ Active(r) /\ run.phase # "ended" /\ run.kind = zoneRuns[r].kind /\ run.on = zoneRuns[r].on
       /\ run.old = zoneRuns[r].old
  BY <1>1, <1>2, <1>14, <1>19 DEF Alike, Active
<1> QED BY <1>11, <1>19, <1>20, <1>21, <1>22, <1>23, RunMoves

LEMMA BeginHostKeeps ==
  ASSUME ZoningInv, NEW r \in DOMAIN zoneRuns, BeginHost(r)
  PROVE  ZoningInv'
<1>1. PICK old : old = zoneRuns[r]
  OBVIOUS
<1>2. /\ old \in ZoneRunRecords /\ RunOK(old, runtime) /\ old.kind = "host" /\ old.phase = "created"
      /\ old.on \in ZoneHosts /\ old.old \in ZoneValues /\ ZoningShape
  BY <1>1, RunTypes DEF BeginHost, Targets, ZoningInv
<1>3. PICK h : h = old.on /\ h \in ZoneHosts
  BY <1>2
<1>4. PICK mine : mine = {a \in OnHost(h) : zoning[ClusterOf[a]].mode # "disabled"}
  OBVIOUS
<1>5. PICK previous : previous = [a \in mine |-> old.old]
  OBVIOUS
<1>6. PICK desired : desired = [a \in mine |-> hostZone[h]]
  OBVIOUS
<1>7. PICK b : b = \A a \in mine : TruthfulIn(ClusterOf[a]) /\ runtime[a] = old.old
  OBVIOUS
<1>8. mine \in SUBSET Workloads /\ mine \subseteq OnHost(h)
  BY <1>4 DEF OnHost
<1>9. previous \in ZoneMaps /\ DOMAIN previous = mine
  <2>1. previous \in [mine -> ZoneValues]
    BY <1>2, <1>5
  <2> QED BY <1>8, <2>1, AMap
<1>10. desired \in ZoneMaps /\ DOMAIN desired = mine
  <2>1. hostZone[h] \in ZoneValues
    BY <1>2, <1>3 DEF ZoningShape
  <2>2. desired \in [mine -> ZoneValues]
    BY <1>6, <2>1
  <2> QED BY <1>8, <2>2, AMap
<1>11. runtime \in ZoneMaps /\ runtime \in [Workloads -> ZoneValues]
  BY <1>2, AMap DEF ZoningShape
<1>12. b \in BOOLEAN /\ (b => \A a \in mine : previous[a] = runtime[a])
  BY <1>5, <1>7
<1>13. PICK run : run = [old EXCEPT !.phase = "forward", !.todo = mine, !.previous = previous,
                     !.desired = desired, !.truthful = b, !.started = runtime]
  OBVIOUS
<1>14. /\ run \in ZoneRunRecords /\ run.phase = "forward" /\ run.todo = mine /\ run.previous = previous
       /\ run.desired = desired /\ run.truthful = b /\ run.started = runtime /\ run.kind = old.kind
       /\ run.on = old.on /\ run.old = old.old /\ run.completed = old.completed /\ run.clean = old.clean
  BY ONLY <1>2, <1>8, <1>9, <1>10, <1>11, <1>12, <1>13 DEF ZoneRunRecords
<1>15. run.completed = {} /\ run.clean = TRUE
  BY <1>2, <1>14 DEF RunOK
<1>16. RunOK(run, runtime)
  <2>1. Scope(run) = OnHost(h) /\ run.on \in Targets(run.kind)
    BY <1>2, <1>3, <1>14 DEF Scope, Targets
  <2> QED BY <1>2, <1>3, <1>8, <1>9, <1>10, <1>12, <1>14, <1>15, <2>1 DEF RunOK
<1>17. zoneRuns' = [zoneRuns EXCEPT ![r] = run]
  BY <1>1, <1>3, <1>4, <1>5, <1>6, <1>7, <1>13 DEF BeginHost
<1>18. UNCHANGED <<zoning, members, hostZone, runtime, record, claim, sample, shaken>>
  BY DEF BeginHost
<1>19. /\ Active(r) /\ run.phase # "ended" /\ run.kind = zoneRuns[r].kind /\ run.on = zoneRuns[r].on
       /\ run.old = zoneRuns[r].old
  BY <1>1, <1>2, <1>14 DEF Active
<1> QED BY <1>11, <1>14, <1>16, <1>17, <1>18, <1>19, RunMoves

\* What a run at work has to do and has done are workloads of its own.
OwnWork(run) ==
  /\ run.todo \cup run.completed \subseteq DOMAIN run.desired
  /\ DOMAIN run.desired = DOMAIN run.previous /\ DOMAIN run.desired \subseteq Scope(run)
  /\ \A a \in DOMAIN run.desired :
       a \in Workloads /\ run.desired[a] \in ZoneValues /\ run.previous[a] \in ZoneValues

LEMMA RunsOwnWork ==
  ASSUME NEW run \in ZoneRunRecords, NEW zoned, RunOK(run, zoned), run.phase \in {"forward", "rollback"}
  PROVE  OwnWork(run)
<1>1. run.desired \in ZoneMaps /\ run.previous \in ZoneMaps
  BY DEF ZoneRunRecords
<1>2. /\ DOMAIN run.desired \subseteq Workloads
      /\ \A a \in DOMAIN run.desired : run.desired[a] \in ZoneValues
      /\ \A a \in DOMAIN run.previous : run.previous[a] \in ZoneValues
  BY <1>1, MapValues
<1>3. /\ run.todo \cup run.completed \subseteq DOMAIN run.desired
      /\ DOMAIN run.desired = DOMAIN run.previous /\ DOMAIN run.desired \subseteq Scope(run)
  BY DEF RunOK
<1> QED BY <1>2, <1>3 DEF OwnWork

\* The parts of a run at work.
LEMMA RunAtWork ==
  ASSUME ZoningInv, NEW r \in DOMAIN zoneRuns, NEW run, run = zoneRuns[r],
         run.phase \in {"forward", "rollback"}
  PROVE  /\ run \in ZoneRunRecords /\ RunOK(run, runtime) /\ OwnWork(run) /\ Active(r)
         /\ runtime \in [Workloads -> ZoneValues] /\ run.on \in Targets(run.kind)
<1>1. /\ run \in ZoneRunRecords /\ RunOK(run, runtime) /\ runtime \in [Workloads -> ZoneValues]
      /\ run.on \in Targets(run.kind)
  BY RunTypes DEF ZoningInv, ZoningShape
<1>2. OwnWork(run)
  BY <1>1, RunsOwnWork
<1> QED BY <1>1, <1>2 DEF Active

LEMMA ReconciledKeeps ==
  ASSUME ZoningInv, NEW r \in DOMAIN zoneRuns, Reconciled(r)
  PROVE  ZoningInv'
<1>1. PICK run : run = zoneRuns[r]
  OBVIOUS
<1>2. run.phase = "forward" /\ run.todo # {}
  BY <1>1 DEF Reconciled, Forward
<1>3. /\ run \in ZoneRunRecords /\ RunOK(run, runtime) /\ OwnWork(run) /\ Active(r)
      /\ runtime \in [Workloads -> ZoneValues] /\ run.on \in Targets(run.kind)
  BY <1>1, <1>2, RunAtWork
<1>4. PICK a : a = Subject(r)
  OBVIOUS
<1>5. run.todo \in SUBSET Workloads /\ run.completed \in SUBSET Workloads
  BY <1>3 DEF ZoneRunRecords
<1>6. a \in run.todo /\ a \in Workloads /\ a \in DOMAIN run.desired
  <2>1. FirstOf(run.todo) \in run.todo
    BY <1>2, <1>5, FirstAndLast
  <2> QED BY <1>1, <1>3, <1>4, <1>5, <2>1 DEF Subject, OwnWork
<1>7. PICK now : now = [runtime EXCEPT ![a] = run.desired[a]]
  OBVIOUS
<1>8. /\ now \in [Workloads -> ZoneValues] /\ now[a] = run.desired[a]
      /\ \A b \in Workloads : b # a => now[b] = runtime[b]
  BY <1>3, <1>6, <1>7 DEF OwnWork
<1>9. PICK left : left = run.todo \ {a}
  OBVIOUS
<1>10. PICK done : done = run.completed \cup {a}
  OBVIOUS
<1>11. PICK q : q = [run EXCEPT !.todo = left, !.completed = done]
  OBVIOUS
<1>12. /\ q \in ZoneRunRecords /\ q.phase = run.phase /\ q.todo = left /\ q.completed = done
       /\ q.kind = run.kind /\ q.on = run.on /\ q.old = run.old /\ q.previous = run.previous
       /\ q.desired = run.desired /\ q.clean = run.clean /\ q.truthful = run.truthful
       /\ q.started = run.started
  <2>1. left \in SUBSET Workloads /\ done \in SUBSET Workloads
    BY <1>5, <1>6, <1>9, <1>10
  <2> QED BY ONLY <1>3, <1>11, <2>1 DEF ZoneRunRecords
<1>13. RunOK(q, now)
  <2>1. /\ left \cup done = run.todo \cup run.completed
        /\ \A b \in done : b # a => b \in run.completed
        /\ \A S : \A b \in S \ done : b \in S \ run.completed /\ b # a
    BY <1>6, <1>9, <1>10
  <2>2. Scope(q) = Scope(run)
    BY <1>12 DEF Scope
  <2>3. /\ run.clean = TRUE /\ \A b \in run.completed : runtime[b] = run.desired[b]
        /\ \A b \in DOMAIN run.desired \ (run.todo \cup run.completed) : run.previous[b] = run.desired[b]
        /\ run.truthful => \A b \in DOMAIN run.previous \ run.completed : runtime[b] = run.started[b]
        /\ run.kind = "apply" => DOMAIN run.desired = OfCluster(run.on)
        /\ run.truthful => \A b \in DOMAIN run.previous : run.previous[b] = run.started[b]
    BY <1>2, <1>3 DEF RunOK
  <2>4. \A b \in done : now[b] = run.desired[b]
    BY <1>5, <1>8, <2>1, <2>3
  <2>5. run.truthful => \A b \in DOMAIN run.previous \ done : now[b] = run.started[b]
    BY <1>3, <1>8, <2>1, <2>3 DEF OwnWork
  <2> QED BY <1>2, <1>3, <1>12, <2>1, <2>2, <2>3, <2>4, <2>5 DEF RunOK, OwnWork
<1>14. PICK new : new = WithSettings(q)
  OBVIOUS
<1>15. new \in ZoneRunRecords /\ Alike(new, q)
  BY <1>3, <1>12, <1>14, SettingsKeep
<1>16. RunOK(new, now)
  BY <1>13, <1>15, AlikeOK
<1>17. zoneRuns' = [zoneRuns EXCEPT ![r] = new] /\ runtime' = now
  BY <1>1, <1>4, <1>7, <1>9, <1>10, <1>11, <1>14 DEF Reconciled
<1>18. UNCHANGED <<zoning, members, hostZone, record, claim, sample, shaken>>
  BY DEF Reconciled
<1>19. /\ new.phase # "ended" /\ new.kind = zoneRuns[r].kind /\ new.on = zoneRuns[r].on
       /\ new.old = zoneRuns[r].old
  BY <1>1, <1>2, <1>12, <1>15 DEF Alike
<1>20. \A b \in Workloads \ Scope(new) : runtime'[b] = runtime[b]
  <2>1. a \in Scope(run)
    BY <1>3, <1>6 DEF OwnWork
  <2>2. Scope(new) = Scope(run)
    BY <1>12, <1>15 DEF Scope, Alike
  <2> QED BY <1>8, <1>17, <2>1, <2>2
<1> QED BY <1>3, <1>8, <1>15, <1>16, <1>17, <1>18, <1>19, <1>20, RunMoves

LEMMA ReconcileFailsKeeps ==
  ASSUME ZoningInv, NEW r \in DOMAIN zoneRuns, ReconcileFails(r)
  PROVE  ZoningInv'
<1>1. PICK run : run = zoneRuns[r]
  OBVIOUS
<1>2. run.phase = "forward" /\ run.todo # {}
  BY <1>1 DEF ReconcileFails, Forward
<1>3. /\ run \in ZoneRunRecords /\ RunOK(run, runtime) /\ OwnWork(run) /\ Active(r)
      /\ runtime \in [Workloads -> ZoneValues] /\ run.on \in Targets(run.kind)
  BY <1>1, <1>2, RunAtWork
<1>4. PICK a : a = Subject(r)
  OBVIOUS
<1>5. run.todo \in SUBSET Workloads /\ run.completed \in SUBSET Workloads
  BY <1>3 DEF ZoneRunRecords
<1>6. a \in run.todo /\ a \in Workloads /\ a \in DOMAIN run.desired
  <2>1. FirstOf(run.todo) \in run.todo
    BY <1>2, <1>5, FirstAndLast
  <2> QED BY <1>1, <1>3, <1>4, <1>5, <2>1 DEF Subject, OwnWork
<1>7. PICK z \in {runtime[a], run.desired[a]} : runtime' = [runtime EXCEPT ![a] = z]
  BY <1>1, <1>4 DEF ReconcileFails
<1>8. /\ runtime' \in [Workloads -> ZoneValues]
      /\ \A b \in Workloads : b # a => runtime'[b] = runtime[b]
  BY <1>3, <1>6, <1>7 DEF OwnWork
<1>9. PICK q : q = [run EXCEPT !.phase = "rollback", !.failed = a]
  OBVIOUS
<1>10. /\ q \in ZoneRunRecords /\ q.phase = "rollback" /\ q.todo = run.todo /\ q.completed = run.completed
       /\ q.kind = run.kind /\ q.on = run.on /\ q.old = run.old /\ q.previous = run.previous
       /\ q.desired = run.desired /\ q.clean = run.clean /\ q.truthful = run.truthful
       /\ q.started = run.started /\ q.failed = a
  BY ONLY <1>3, <1>6, <1>9 DEF ZoneRunRecords
<1>11. RunOK(q, runtime')
  <2>1. Scope(q) = Scope(run)
    BY <1>10 DEF Scope
  <2>2. run.truthful => \A b \in DOMAIN run.previous \ (run.completed \cup {a}) : runtime'[b] = run.started[b]
    BY <1>2, <1>3, <1>8 DEF RunOK, OwnWork
  <2>3. /\ run.kind = "apply" => DOMAIN run.desired = OfCluster(run.on)
        /\ run.truthful => \A b \in DOMAIN run.previous : run.previous[b] = run.started[b]
    BY <1>2, <1>3 DEF RunOK
  <2> QED BY <1>3, <1>10, <2>1, <2>2, <2>3 DEF RunOK, OwnWork
<1>12. zoneRuns' = [zoneRuns EXCEPT ![r] = q]
  BY <1>1, <1>4, <1>9 DEF ReconcileFails, ZoningInv, ZoningShape
<1>13. UNCHANGED <<zoning, members, hostZone, record, claim, sample, shaken>>
  BY DEF ReconcileFails
<1>14. \A b \in Workloads \ Scope(q) : runtime'[b] = runtime[b]
  BY <1>3, <1>6, <1>8, <1>10 DEF OwnWork, Scope
<1>15. q.phase # "ended" /\ q.kind = zoneRuns[r].kind /\ q.on = zoneRuns[r].on /\ q.old = zoneRuns[r].old
  BY <1>1, <1>10
<1> QED BY <1>3, <1>8, <1>10, <1>11, <1>12, <1>13, <1>14, <1>15, RunMoves

LEMMA SettingsRejectedKeeps ==
  ASSUME ZoningInv, NEW r \in DOMAIN zoneRuns, SettingsRejected(r)
  PROVE  ZoningInv'
<1>1. PICK run : run = zoneRuns[r]
  OBVIOUS
<1>2. run.phase = "forward"
  BY <1>1 DEF SettingsRejected, Forward
<1>3. /\ run \in ZoneRunRecords /\ RunOK(run, runtime) /\ OwnWork(run) /\ Active(r)
      /\ runtime \in [Workloads -> ZoneValues]
  BY <1>1, <1>2, RunAtWork
<1>4. PICK q : q = [run EXCEPT !.phase = "rollback"]
  OBVIOUS
<1>5. /\ q \in ZoneRunRecords /\ q.phase = "rollback" /\ q.todo = run.todo /\ q.completed = run.completed
      /\ q.kind = run.kind /\ q.on = run.on /\ q.old = run.old /\ q.previous = run.previous
      /\ q.desired = run.desired /\ q.clean = run.clean /\ q.truthful = run.truthful
      /\ q.started = run.started /\ q.failed = run.failed
  BY ONLY <1>3, <1>4 DEF ZoneRunRecords
<1>6. RunOK(q, runtime)
  <2>1. Scope(q) = Scope(run)
    BY <1>5 DEF Scope
  <2>2. run.truthful => \A b \in DOMAIN run.previous \ (run.completed \cup {run.failed}) : runtime[b] = run.started[b]
    BY <1>2, <1>3 DEF RunOK
  <2>3. /\ run.kind = "apply" => DOMAIN run.desired = OfCluster(run.on)
        /\ run.truthful => \A b \in DOMAIN run.previous : run.previous[b] = run.started[b]
        /\ run.on \in Targets(run.kind)
    BY <1>2, <1>3 DEF RunOK
  <2> QED BY <1>3, <1>5, <2>1, <2>2, <2>3 DEF RunOK, OwnWork
<1>7. zoneRuns' = [zoneRuns EXCEPT ![r] = q]
  BY <1>1, <1>4 DEF SettingsRejected, ZoningInv, ZoningShape
<1>8. UNCHANGED <<zoning, members, hostZone, runtime, record, claim, sample, shaken>>
  BY DEF SettingsRejected
<1>9. q.phase # "ended" /\ q.kind = zoneRuns[r].kind /\ q.on = zoneRuns[r].on /\ q.old = zoneRuns[r].old
  BY <1>1, <1>5
<1> QED BY <1>3, <1>5, <1>6, <1>7, <1>8, <1>9, RunMoves

LEMMA RollbackStepKeeps ==
  ASSUME ZoningInv, NEW r \in DOMAIN zoneRuns, NEW ok \in BOOLEAN, RollbackStep(r, ok)
  PROVE  ZoningInv'
<1>1. PICK run : run = zoneRuns[r]
  OBVIOUS
<1>2. run.phase = "rollback" /\ run.completed # {}
  BY <1>1 DEF RollbackStep
<1>3. /\ run \in ZoneRunRecords /\ RunOK(run, runtime) /\ OwnWork(run) /\ Active(r)
      /\ runtime \in [Workloads -> ZoneValues]
  BY <1>1, <1>2, RunAtWork
<1>4. PICK a : a = LastOf(run.completed)
  OBVIOUS
<1>5. run.completed \in SUBSET Workloads /\ run.clean \in BOOLEAN
  BY <1>3 DEF ZoneRunRecords
<1>6. a \in run.completed /\ a \in Workloads /\ a \in DOMAIN run.previous /\ a \in DOMAIN run.desired
  <2>1. LastOf(run.completed) \in run.completed
    BY <1>2, <1>5, FirstAndLast
  <2> QED BY <1>3, <1>4, <1>5, <2>1 DEF OwnWork
<1>7. /\ runtime' \in [Workloads -> ZoneValues] /\ (ok => runtime'[a] = run.previous[a])
      /\ \A b \in Workloads : b # a => runtime'[b] = runtime[b]
  BY <1>1, <1>3, <1>4, <1>6 DEF RollbackStep, RollbackZone, OwnWork
<1>8. PICK done : done = run.completed \ {a}
  OBVIOUS
<1>9. PICK clean \in BOOLEAN : clean = (run.clean /\ ok)
  BY <1>5
<1>10. PICK q : q = [run EXCEPT !.completed = done, !.clean = clean]
  OBVIOUS
<1>11. /\ q \in ZoneRunRecords /\ q.phase = "rollback" /\ q.todo = run.todo /\ q.completed = done
       /\ q.kind = run.kind /\ q.on = run.on /\ q.old = run.old /\ q.previous = run.previous
       /\ q.desired = run.desired /\ q.clean = clean /\ q.truthful = run.truthful
       /\ q.started = run.started /\ q.failed = run.failed
  <2>1. done \in SUBSET Workloads
    BY <1>5, <1>8
  <2> QED BY ONLY <1>2, <1>3, <1>9, <1>10, <2>1 DEF ZoneRunRecords
<1>12. RunOK(q, runtime')
  <2>1. Scope(q) = Scope(run)
    BY <1>11 DEF Scope
  <2>2. /\ run.kind = "apply" => DOMAIN run.desired = OfCluster(run.on)
        /\ run.truthful => \A b \in DOMAIN run.previous : run.previous[b] = run.started[b]
        /\ run.on \in Targets(run.kind)
        /\ run.clean /\ run.truthful =>
             \A b \in DOMAIN run.previous \ (run.completed \cup {run.failed}) : runtime[b] = run.started[b]
    BY <1>2, <1>3 DEF RunOK
  <2>3. DOMAIN run.previous \subseteq Workloads /\ done \subseteq run.completed
    BY <1>3, <1>8 DEF OwnWork
  <2>4. clean /\ run.truthful =>
          \A b \in DOMAIN run.previous \ (done \cup {run.failed}) : runtime'[b] = run.started[b]
    <3> SUFFICES ASSUME clean, run.truthful, NEW b \in DOMAIN run.previous \ (done \cup {run.failed})
                 PROVE  runtime'[b] = run.started[b]
      OBVIOUS
    <3>1. run.clean /\ ok
      BY <1>9
    <3>2. CASE b = a
      BY <1>6, <1>7, <2>2, <3>1, <3>2
    <3>3. CASE b # a
      BY <1>7, <1>8, <2>2, <2>3, <3>1, <3>3
    <3> QED BY <3>2, <3>3
  <2> QED BY <1>3, <1>11, <2>1, <2>2, <2>3, <2>4 DEF RunOK, OwnWork
<1>13. zoneRuns' = [zoneRuns EXCEPT ![r] = q]
  BY <1>1, <1>4, <1>8, <1>9, <1>10 DEF RollbackStep, ZoningInv, ZoningShape
<1>14. UNCHANGED <<zoning, members, hostZone, record, claim, sample, shaken>>
  BY DEF RollbackStep
<1>15. \A b \in Workloads \ Scope(q) : runtime'[b] = runtime[b]
  <2>1. a \in Scope(run) /\ Scope(q) = Scope(run)
    BY <1>3, <1>6, <1>11 DEF OwnWork, Scope
  <2> QED BY <1>7, <2>1
<1>16. q.phase # "ended" /\ q.kind = zoneRuns[r].kind /\ q.on = zoneRuns[r].on /\ q.old = zoneRuns[r].old
  BY <1>1, <1>11
<1> QED BY <1>3, <1>7, <1>11, <1>12, <1>13, <1>14, <1>15, <1>16, RunMoves
-----------------------------------------------------------------------------

\* A run is over: it gives back its claims.
LEMMA RunEnds ==
  ASSUME ZoningInv, NEW r \in DOMAIN zoneRuns, Active(r), zoneRuns' = Ended(r), claim' = Released(r),
         hostZone' \in [ZoneHosts -> ZoneValues], CatalogNamesZones',
         record' = [c \in Clusters |-> record'[c]], \A c \in Clusters : RecordRow(record'[c], c),
         UNCHANGED <<zoning, members, runtime, sample, shaken>>
  PROVE  ZoningInv'
<1>0. ZoningShape
  BY DEF ZoningInv
<1>1. PICK over : over = Over(zoneRuns[r].kind, zoneRuns[r].on)
  OBVIOUS
<1>2. OverRun(over, zoneRuns[r].kind, zoneRuns[r].on)
  BY <1>1, RunTypes, OverOK
<1>3. over \in ZoneRunRecords /\ over.phase = "ended" /\ RunOK(over, runtime)
  BY <1>2 DEF OverRun, RunLike
<1>4. zoneRuns' = [zoneRuns EXCEPT ![r] = over]
  BY <1>1 DEF Ended, Over
<1>5. /\ zoneRuns' \in Seq(ZoneRunRecords) /\ Len(zoneRuns') = Len(zoneRuns)
      /\ DOMAIN zoneRuns' = DOMAIN zoneRuns /\ zoneRuns'[r] = over
      /\ \A s \in DOMAIN zoneRuns : s # r => zoneRuns'[s] = zoneRuns[s]
  BY <1>0, <1>3, <1>4, ReplaceZoneRun
<1>6. \A s \in DOMAIN zoneRuns : Active(s)' => s # r /\ Active(s) /\ zoneRuns'[s] = zoneRuns[s]
  BY <1>3, <1>5 DEF Active
<1>7. claim \in [Workloads -> {0} \cup RunIds]
  BY <1>0 DEF ZoningShape
<1>8. /\ claim' \in [Workloads -> {0} \cup RunIds]
      /\ \A a \in Workloads : claim[a] # r => claim'[a] = claim[a]
      /\ \A a \in Workloads : claim'[a] # 0 => claim'[a] = claim[a] /\ claim[a] # r
  BY <1>7 DEF Released
<1>9. ZoningShape'
  BY <1>0, <1>5, <1>8 DEF ZoningShape
<1>10. ZoningExclusive'
  <2>1. \A s \in DOMAIN zoneRuns, c \in Clusters : Active(s)' => (Touches(s, c)' <=> Touches(s, c))
    BY <1>6 DEF Touches
  <2> QED BY <1>5, <1>6, <2>1 DEF ZoningInv, ZoningExclusive
<1>11. RunsOK'
  BY <1>3, <1>5 DEF ZoningInv, RunsOK
<1>12. Placed'
  BY DEF ZoningInv, Placed
<1>13. OldZoneNamed'
  BY <1>5, <1>6 DEF ZoningInv, OldZoneNamed
<1>14. \A a \in Workloads : claim[a] # 0 =>
         claim[a] \in DOMAIN zoneRuns /\ zoneRuns[claim[a]].kind = "host"
         /\ zoneRuns[claim[a]].on = HostOf[a]
  BY DEF ZoningInv, ClaimsOK
<1>15. ClaimsOK'
  <2>1. \A a \in Workloads : claim'[a] # 0 =>
          claim'[a] \in DOMAIN zoneRuns' /\ zoneRuns'[claim'[a]].kind = "host"
          /\ zoneRuns'[claim'[a]].on = HostOf[a]
    BY <1>5, <1>8, <1>14
  <2>2. \A s \in DOMAIN zoneRuns' : zoneRuns'[s].kind = "host" /\ Active(s)' =>
          \A a \in OnHost(zoneRuns'[s].on) : claim'[a] = s
    <3> SUFFICES ASSUME NEW s \in DOMAIN zoneRuns, zoneRuns'[s].kind = "host", Active(s)',
                        NEW a \in OnHost(zoneRuns'[s].on)
                 PROVE  claim'[a] = s
      BY <1>5
    <3>1. s # r /\ Active(s) /\ zoneRuns'[s] = zoneRuns[s]
      BY <1>6
    <3>2. claim[a] = s
      BY <3>1 DEF ZoningInv, ClaimsOK
    <3> QED BY <1>8, <3>1, <3>2 DEF OnHost
  <2> QED BY <2>1, <2>2 DEF ClaimsOK
<1>16. ClaimsReleased'
  <2>1. \A s \in DOMAIN zoneRuns : s # r => (Active(s)' <=> Active(s))
    BY <1>5 DEF Active
  <2> QED BY <1>8, <1>14, <2>1 DEF ZoningInv, ClaimsReleased
<1> QED BY <1>9, <1>10, <1>11, <1>12, <1>13, <1>15, <1>16 DEF ZoningInv

\* An apply has no claims.
LEMMA ApplyHoldsNothing ==
  ASSUME ZoningInv, NEW r \in DOMAIN zoneRuns, zoneRuns[r].kind = "apply"
  PROVE  Released(r) = claim
<1>1. claim \in [Workloads -> {0} \cup RunIds] /\ r # 0
  BY DEF ZoningInv, ZoningShape
<1>2. \A a \in Workloads : claim[a] # r
  BY <1>1 DEF ZoningInv, ClaimsOK
<1> QED BY <1>1, <1>2 DEF Released

LEMMA ApplySucceedsKeeps ==
  ASSUME ZoningInv, NEW r \in DOMAIN zoneRuns, ApplySucceeds(r)
  PROVE  ZoningInv'
<1>1. PICK run : run = zoneRuns[r]
  OBVIOUS
<1>2. run.phase = "forward" /\ run.kind = "apply"
  BY <1>1 DEF ApplySucceeds, Forward
<1>3. /\ run \in ZoneRunRecords /\ RunOK(run, runtime) /\ OwnWork(run) /\ Active(r)
      /\ run.on \in Targets(run.kind)
  BY <1>1, <1>2, RunAtWork
<1>4. run.on \in Clusters /\ DOMAIN run.desired = OfCluster(run.on)
  BY <1>2, <1>3 DEF RunOK, Targets
<1>5. run.desired \in [OfCluster(run.on) -> ZoneValues]
  <2>1. run.desired \in ZoneMaps
    BY <1>3 DEF ZoneRunRecords
  <2> QED BY <1>4, <2>1 DEF ZoneMaps
<1>6. PICK row : row = AppliedRecord(run)
  OBVIOUS
<1>7. RecordRow(row, run.on)
  BY <1>5, <1>6 DEF AppliedRecord, RecordRow
<1>8. record' = [record EXCEPT ![run.on] = row]
  BY <1>1, <1>6 DEF ApplySucceeds
<1>9. record' = [c \in Clusters |-> record'[c]] /\ \A c \in Clusters : RecordRow(record'[c], c)
  BY <1>4, <1>7, <1>8 DEF ZoningInv, ZoningShape
<1>10. /\ UNCHANGED <<zoning, members, hostZone, runtime, claim, sample, shaken>> /\ zoneRuns' = Ended(r)
  BY DEF ApplySucceeds
<1>11. claim' = Released(r)
  BY <1>1, <1>2, <1>10, ApplyHoldsNothing
<1>12. CatalogNamesZones' /\ hostZone' \in [ZoneHosts -> ZoneValues]
  BY <1>10 DEF ZoningInv, ZoningShape, CatalogNamesZones, ZonesInUse
<1> QED BY <1>3, <1>9, <1>10, <1>11, <1>12, RunEnds

LEMMA HostChangeSucceedsKeeps ==
  ASSUME ZoningInv, NEW r \in DOMAIN zoneRuns, HostChangeSucceeds(r)
  PROVE  ZoningInv'
<1>1. PICK run : run = zoneRuns[r]
  OBVIOUS
<1>2. run.phase = "forward" /\ run.kind = "host"
  BY <1>1 DEF HostChangeSucceeds, Forward
<1>3. OwnWork(run) /\ Active(r)
  BY <1>1, <1>2, RunAtWork
<1>4. record' = [c \in Clusters |-> [record[c] EXCEPT !.observed =
        [a \in OfCluster(c) |-> IF a \in DOMAIN run.desired /\ record[c].status # "none"
                                THEN run.desired[a] ELSE record[c].observed[a]]]]
  BY <1>1 DEF HostChangeSucceeds
<1>5. \A c \in Clusters : RecordRow(record'[c], c)
  <2> SUFFICES ASSUME NEW c \in Clusters PROVE RecordRow(record'[c], c)
    OBVIOUS
  <2>1. RecordRow(record[c], c)
    BY DEF ZoningInv, ZoningShape
  <2>2. PICK f : f = [a \in OfCluster(c) |-> IF a \in DOMAIN run.desired /\ record[c].status # "none"
                                             THEN run.desired[a] ELSE record[c].observed[a]]
    OBVIOUS
  <2>3. f \in [OfCluster(c) -> ZoneValues]
    BY <1>3, <2>1, <2>2 DEF RecordRow, OwnWork
  <2>4. PICK row : row = [record[c] EXCEPT !.observed = f]
    OBVIOUS
  <2>5. record'[c] = row
    BY <1>4, <2>2, <2>4
  <2>6. RecordRow(row, c)
    BY <2>1, <2>3, <2>4 DEF RecordRow
  <2> QED BY <2>5, <2>6
<1>6. record' = [c \in Clusters |-> record'[c]]
  BY <1>4
<1>7. /\ UNCHANGED <<zoning, members, hostZone, runtime, sample, shaken>> /\ zoneRuns' = Ended(r)
      /\ claim' = Released(r)
  BY DEF HostChangeSucceeds
<1>8. CatalogNamesZones' /\ hostZone' \in [ZoneHosts -> ZoneValues]
  BY <1>7 DEF ZoningInv, ZoningShape, CatalogNamesZones, ZonesInUse
<1> QED BY <1>3, <1>5, <1>6, <1>7, <1>8, RunEnds

LEMMA RunFailsKeeps ==
  ASSUME ZoningInv, NEW r \in DOMAIN zoneRuns, RunFails(r)
  PROVE  ZoningInv'
<1>1. PICK run : run = zoneRuns[r]
  OBVIOUS
<1>2. /\ run.kind \in {"apply", "host"} /\ run.old \in ZoneValues /\ run.on \in Targets(run.kind)
      /\ Active(r) /\ ZoningShape
  BY <1>1, RunTypes DEF RunFails, Active, ZoningInv
<1>3. UNCHANGED <<zoning, members, runtime, sample, shaken>> /\ zoneRuns' = Ended(r)
  BY DEF RunFails
<1>4. CASE run.kind = "apply"
  <2>1. /\ record' = [record EXCEPT ![run.on].status = "failed"] /\ UNCHANGED <<hostZone, claim>>
        /\ run.on \in Clusters
    BY <1>1, <1>2, <1>4 DEF RunFails, Targets
  <2>2. record = [c \in Clusters |-> record[c]] /\ RecordRow(record[run.on], run.on)
    BY <1>2, <2>1 DEF ZoningShape
  <2>3. PICK row : row = [record[run.on] EXCEPT !.status = "failed"]
    OBVIOUS
  <2>4. RecordRow(row, run.on)
    BY <2>2, <2>3 DEF RecordRow
  <2>5. record' = [record EXCEPT ![run.on] = row]
    BY <2>1, <2>2, <2>3
  <2>6. record' = [c \in Clusters |-> record'[c]] /\ \A c \in Clusters : RecordRow(record'[c], c)
    BY <1>2, <2>1, <2>2, <2>4, <2>5 DEF ZoningShape
  <2>7. claim' = Released(r)
    BY <1>1, <1>4, <2>1, ApplyHoldsNothing
  <2>8. CatalogNamesZones' /\ hostZone' \in [ZoneHosts -> ZoneValues]
    BY <1>3, <2>1 DEF ZoningInv, ZoningShape, CatalogNamesZones, ZonesInUse
  <2> QED BY <1>2, <1>3, <2>6, <2>7, <2>8, RunEnds
<1>5. CASE run.kind = "host"
  <2>1. /\ hostZone' = [hostZone EXCEPT ![run.on] = run.old] /\ claim' = Released(r) /\ record' = record
        /\ run.on \in ZoneHosts
    BY <1>1, <1>2, <1>5 DEF RunFails, ClaimsAfterFailure, Targets
  <2>2. hostZone \in [ZoneHosts -> ZoneValues] /\ members \in [Clusters -> SUBSET ZoneHosts]
    BY <1>2 DEF ZoningShape
  <2>3. hostZone' \in [ZoneHosts -> ZoneValues]
    BY <1>2, <2>1, <2>2
  <2>4. CatalogNamesZones'
    <3> SUFFICES ASSUME NEW c \in Clusters \ shaken, zoning[c].mode # "disabled",
                        NEW g \in members[c], hostZone'[g] # NoZone
                 PROVE  hostZone'[g] \in zoning[c].zones
      BY <1>3 DEF CatalogNamesZones, ZonesInUse
    <3>1. CASE g = run.on
      <4>1. hostZone'[g] = run.old
        BY <2>1, <2>2, <3>1
      <4> QED BY <1>1, <1>2, <1>5, <3>1, <4>1 DEF ZoningInv, OldZoneNamed
    <3>2. CASE g # run.on
      <4>1. hostZone'[g] = hostZone[g]
        BY <2>1, <2>2, <3>2
      <4> QED BY <4>1 DEF ZoningInv, CatalogNamesZones, ZonesInUse
    <3> QED BY <3>1, <3>2
  <2>5. record' = [c \in Clusters |-> record'[c]] /\ \A c \in Clusters : RecordRow(record'[c], c)
    BY <1>2, <2>1 DEF ZoningShape
  <2> QED BY <1>2, <1>3, <2>1, <2>3, <2>4, <2>5, RunEnds
<1> QED BY <1>2, <1>4, <1>5
-----------------------------------------------------------------------------

\* Steps that concern the record and the collector's sample only.
LEMMA RecordSteps ==
  ASSUME ZoningInv, UNCHANGED <<zoning, members, hostZone, runtime, claim, zoneRuns, shaken>>,
         record' = [c \in Clusters |-> record'[c]], \A c \in Clusters : RecordRow(record'[c], c),
         sample' # NoSample => sample'.cluster \in Clusters
                               /\ sample'.zones \in [OfCluster(sample'.cluster) -> ZoneValues]
  PROVE  ZoningInv'
<1>1. ZoningShape'
  BY DEF ZoningInv, ZoningShape, NoSample
<1>2. Placed' /\ ClaimsOK' /\ RunsOK' /\ CatalogNamesZones' /\ OldZoneNamed' /\ ClaimsReleased'
  BY DEF ZoningInv, Placed, ClaimsOK, RunsOK, CatalogNamesZones, ZonesInUse, OldZoneNamed,
         ClaimsReleased, Active
<1>3. ZoningExclusive'
  BY DEF ZoningInv, ZoningExclusive, Active, Touches
<1> QED BY <1>1, <1>2, <1>3 DEF ZoningInv

LEMMA CollectorReadsKeeps ==
  ASSUME ZoningInv, NEW c \in Clusters, CollectorReads(c)
  PROVE  ZoningInv'
<1>1. UNCHANGED <<zoning, members, hostZone, runtime, record, claim, zoneRuns, shaken>>
  BY DEF CollectorReads
<1>2. record' = [d \in Clusters |-> record'[d]] /\ \A d \in Clusters : RecordRow(record'[d], d)
  BY <1>1 DEF ZoningInv, ZoningShape
<1>3. sample'.cluster = c /\ sample'.zones = [a \in OfCluster(c) |-> runtime[a]]
  BY DEF CollectorReads
<1>4. sample'.zones \in [OfCluster(c) -> ZoneValues]
  BY <1>3 DEF ZoningInv, ZoningShape, OfCluster
<1> QED BY <1>1, <1>2, <1>3, <1>4, RecordSteps

LEMMA CollectorRecordsKeeps ==
  ASSUME ZoningInv, CollectorRecords
  PROVE  ZoningInv'
<1>1. /\ UNCHANGED <<zoning, members, hostZone, runtime, claim, zoneRuns, shaken>>
      /\ sample' = NoSample /\ sample # NoSample
  BY DEF CollectorRecords
<1>2. PICK c : c = sample.cluster
  OBVIOUS
<1>3. /\ c \in Clusters /\ sample.zones \in [OfCluster(c) -> ZoneValues] /\ RecordRow(record[c], c)
      /\ record = [d \in Clusters |-> record[d]]
  BY <1>1, <1>2 DEF ZoningInv, ZoningShape
<1>4. PICK status : status = RuntimeStatus(c)
  OBVIOUS
<1>5. PICK row : row = [[record[c] EXCEPT !.status = status] EXCEPT !.observed = sample.zones]
  OBVIOUS
<1>6. RecordRow(row, c)
  BY <1>3, <1>5 DEF RecordRow
<1>7. record' = [record EXCEPT ![c] = row]
  BY <1>2, <1>3, <1>4, <1>5 DEF CollectorRecords
<1>8. record' = [d \in Clusters |-> record'[d]] /\ \A d \in Clusters : RecordRow(record'[d], d)
  BY <1>3, <1>6, <1>7 DEF ZoningInv, ZoningShape
<1> QED BY <1>1, <1>8, RecordSteps

\* A restart ends every run where it is.
LEMMA ZoningRestartKeeps ==
  ASSUME ZoningInv, ZoningRestart
  PROVE  ZoningInv'
<1>0. /\ UNCHANGED <<zoning, members, hostZone, runtime, record, claim>> /\ ZoningShape
      /\ shaken' = shaken \cup {c \in Clusters : ActiveOperation(c)} /\ sample' = NoSample
  BY DEF ZoningRestart, ZoningInv
<1>1. \A r \in DOMAIN zoneRuns : OverRun(zoneRuns'[r], zoneRuns[r].kind, zoneRuns[r].on)
  <2> SUFFICES ASSUME NEW r \in DOMAIN zoneRuns
               PROVE  OverRun(zoneRuns'[r], zoneRuns[r].kind, zoneRuns[r].on)
    OBVIOUS
  <2>1. PICK over : over = Over(zoneRuns[r].kind, zoneRuns[r].on)
    OBVIOUS
  <2>2. OverRun(over, zoneRuns[r].kind, zoneRuns[r].on)
    BY <2>1, RunTypes, OverOK
  <2>3. Ended(r) = [zoneRuns EXCEPT ![r] = over]
    BY <2>1 DEF Ended, Over
  <2>4. zoneRuns'[r] = over
    BY <2>3 DEF ZoningRestart
  <2> QED BY <2>2, <2>4
<1>2. \A r \in DOMAIN zoneRuns :
        /\ zoneRuns'[r] \in ZoneRunRecords /\ zoneRuns'[r].kind = zoneRuns[r].kind
        /\ zoneRuns'[r].on = zoneRuns[r].on /\ zoneRuns'[r].phase = "ended"
        /\ RunOK(zoneRuns'[r], runtime)
  BY <1>1 DEF OverRun, RunLike
<1>3. /\ zoneRuns' \in Seq(ZoneRunRecords) /\ Len(zoneRuns') = Len(zoneRuns)
      /\ DOMAIN zoneRuns' = DOMAIN zoneRuns
  <2>1. zoneRuns' = [r \in 1..Len(zoneRuns) |-> zoneRuns'[r]] /\ DOMAIN zoneRuns = 1..Len(zoneRuns)
    BY <1>0 DEF ZoningRestart, ZoningShape
  <2>2. PICK n \in Nat : n = Len(zoneRuns)
    BY <1>0 DEF ZoningShape
  <2>3. zoneRuns' \in [1..n -> ZoneRunRecords]
    BY <1>2, <2>1, <2>2
  <2> QED BY <2>1, <2>2, <2>3
<1>4. \A r \in DOMAIN zoneRuns : ~Active(r)'
  BY <1>2 DEF Active
<1>5. ZoningShape'
  BY <1>0, <1>3 DEF ZoningShape
<1>6. Placed' /\ CatalogNamesZones'
  BY <1>0 DEF ZoningInv, Placed, CatalogNamesZones, ZonesInUse
<1>7. ZoningExclusive' /\ OldZoneNamed'
  BY <1>3, <1>4 DEF ZoningExclusive, OldZoneNamed
<1>8. RunsOK'
  BY <1>0, <1>2, <1>3 DEF RunsOK
<1>9. \A a \in Workloads : claim[a] # 0 =>
         claim[a] \in DOMAIN zoneRuns /\ zoneRuns[claim[a]].kind = "host"
         /\ zoneRuns[claim[a]].on = HostOf[a]
  BY DEF ZoningInv, ClaimsOK
<1>10. ClaimsOK'
  BY <1>0, <1>2, <1>3, <1>4, <1>9 DEF ClaimsOK
<1>11. ClaimsReleased'
  <2> SUFFICES ASSUME NEW a \in Workloads, claim[a] # 0 PROVE ClusterOf[a] \in shaken'
    BY <1>0 DEF ClaimsReleased
  <2>1. CASE ClusterOf[a] \in shaken
    BY <1>0, <2>1
  <2>2. CASE Active(claim[a])
    <3>1. ClusterOf[a] \in Clusters /\ a \in OfCluster(ClusterOf[a])
      BY ZoningAssumption DEF OfCluster
    <3> QED BY <1>0, <2>2, <3>1 DEF ActiveOperation
  <2> QED BY <2>1, <2>2 DEF ZoningInv, ClaimsReleased
<1> QED BY <1>5, <1>6, <1>7, <1>8, <1>10, <1>11 DEF ZoningInv

LEMMA ZoningInitOK == ZoningInit => ZoningInv
<1> SUFFICES ASSUME ZoningInit PROVE ZoningInv
  OBVIOUS
<1>1. /\ zoneRuns = << >> /\ claim = [a \in Workloads |-> 0] /\ sample = NoSample
      /\ zoning = FirstZoning /\ members = FirstMembers /\ hostZone = FirstZone
      /\ runtime = [a \in Workloads |-> NoZone]
  BY DEF ZoningInit
<1>2. /\ zoneRuns \in Seq(ZoneRunRecords) /\ Len(zoneRuns) = 0 /\ DOMAIN zoneRuns = {}
  BY <1>1
<1>3. \A c \in Clusters : RecordRow(record[c], c)
  <2> SUFFICES ASSUME NEW c \in Clusters PROVE RecordRow(record[c], c)
    OBVIOUS
  <2>1. PICK row : row = [mode |-> "disabled", zones |-> {}, status |-> "none",
                          observed |-> [a \in OfCluster(c) |-> NoZone]]
    OBVIOUS
  <2>2. record[c] = row
    BY <2>1 DEF ZoningInit
  <2>3. RecordRow(row, c)
    BY <2>1 DEF RecordRow, ZoneValues
  <2> QED BY <2>2, <2>3
<1>4. record = [c \in Clusters |-> record[c]]
  BY DEF ZoningInit
<1>5. ZoningShape
  BY <1>1, <1>2, <1>3, <1>4, ZoningAssumption DEF ZoningShape, ZoneValues
<1>6. Placed
  BY <1>1, ZoningAssumption DEF Placed
<1>7. CatalogNamesZones
  BY <1>1, ZoningAssumption DEF CatalogNamesZones, ZonesInUse
<1>8. ClaimsOK /\ ZoningExclusive /\ RunsOK /\ OldZoneNamed /\ ClaimsReleased
  BY <1>1, <1>2 DEF ClaimsOK, ZoningExclusive, RunsOK, OldZoneNamed, ClaimsReleased
<1> QED BY <1>5, <1>6, <1>7, <1>8 DEF ZoningInv
-----------------------------------------------------------------------------

\* One disjunct of ZoningNext at a time.
LEMMA ZoningNextKeeps == ZoningInv /\ [ZoningNext]_zoningVars => ZoningInv'
<1> SUFFICES ASSUME ZoningInv, [ZoningNext]_zoningVars PROVE ZoningInv'
  OBVIOUS
<1>1. ASSUME NEW c \in Clusters, NEW z \in Catalogs, PutZoning(c, z) PROVE ZoningInv'
  BY <1>1, PutZoningKeeps
<1>2. ASSUME NEW c \in Clusters, NEW h \in SpareHosts, AddMember(c, h) PROVE ZoningInv'
  BY <1>2, AddMemberKeeps
<1>3. ASSUME NEW c \in Clusters, NEW h \in SpareHosts, RemoveMember(c, h) PROVE ZoningInv'
  BY <1>3, RemoveMemberKeeps
<1>4. ASSUME NEW c \in Clusters, LaunchApply(c) PROVE ZoningInv'
  BY <1>4, LaunchApplyKeeps
<1>5. ASSUME NEW c \in Clusters, NEW h \in ZoneHosts, NEW z \in Zones, UpdateNodeZone(h, c, z)
      PROVE  ZoningInv'
  BY <1>5, UpdateNodeZoneKeeps
<1>6. ASSUME NEW c \in Clusters, CollectorReads(c) PROVE ZoningInv'
  BY <1>6, CollectorReadsKeeps
<1>7. ASSUME NEW r \in DOMAIN zoneRuns, RunStep(r) PROVE ZoningInv'
  BY <1>7, BeginApplyKeeps, BeginHostKeeps, ReconciledKeeps, ReconcileFailsKeeps,
     SettingsRejectedKeeps, RollbackStepKeeps, ApplySucceedsKeeps, HostChangeSucceedsKeeps,
     RunFailsKeeps DEF RunStep
<1>8. CASE CollectorRecords
  BY <1>8, CollectorRecordsKeeps
<1>9. CASE ZoningRestart
  BY <1>9, ZoningRestartKeeps
<1>10. CASE UNCHANGED zoningVars
  <2>1. record' = [c \in Clusters |-> record'[c]] /\ \A c \in Clusters : RecordRow(record'[c], c)
    BY <1>10 DEF ZoningInv, ZoningShape, zoningVars
  <2>2. sample' # NoSample => sample'.cluster \in Clusters
                               /\ sample'.zones \in [OfCluster(sample'.cluster) -> ZoneValues]
    BY <1>10 DEF ZoningInv, ZoningShape, zoningVars
  <2>3. UNCHANGED <<zoning, members, hostZone, runtime, claim, zoneRuns, shaken>>
    BY <1>10 DEF zoningVars
  <2> QED BY <2>1, <2>2, <2>3, RecordSteps
<1> QED BY <1>1, <1>2, <1>3, <1>4, <1>5, <1>6, <1>7, <1>8, <1>9, <1>10 DEF ZoningNext

LEMMA ZoningHolds == ZoningSpec => []ZoningInv
BY ZoningInitOK, ZoningNextKeeps, PTL DEF ZoningSpec

-----------------------------------------------------------------------------

RestoredStep ==
  \A r \in DOMAIN zoneRuns :
    LET run == zoneRuns[r]
    IN  run.phase = "rollback" /\ zoneRuns'[r].phase = "ended" /\ run.completed = {}
        /\ run.clean /\ run.truthful =>
          \A a \in DOMAIN run.previous \ {run.failed} : runtime'[a] = run.started[a]
TruthStep ==
  \A r \in DOMAIN zoneRuns :
    ApplySucceeds(r) /\ zoneRuns[r].truthful =>
      \A a \in OfCluster(zoneRuns[r].on) :
        record'[zoneRuns[r].on].observed[a] = runtime'[a]
ForcedStep ==
  \A c \in Clusters :
    zoning[c].mode = "forced" /\ zoning'[c] = zoning[c]
    /\ (\A r \in DOMAIN zoneRuns : zoneRuns'[r] = zoneRuns[r])
    /\ ForcedCovered(c, zoning[c], hostZone) => ForcedCovered(c, zoning[c], hostZone')

\* A step that restarts a workload ends no run.
LEMMA RestartsEndNothing ==
  ASSUME ZoningInv, ZoningNext, NEW r \in DOMAIN zoneRuns, zoneRuns[r].phase = "rollback",
         zoneRuns'[r].phase = "ended"
  PROVE  runtime' = runtime
<1>0. zoneRuns \in Seq(ZoneRunRecords) /\ \A s \in DOMAIN zoneRuns : zoneRuns[s] \in ZoneRunRecords
  BY DEF ZoningInv, ZoningShape
<1>1. ASSUME NEW s \in DOMAIN zoneRuns, Reconciled(s) PROVE FALSE
  <2>1. PICK run : run = zoneRuns[s]
    OBVIOUS
  <2>2. run \in ZoneRunRecords /\ run.phase = "forward" /\ run.on \in Targets(run.kind)
    BY <1>0, <1>1, <2>1, RunTypes DEF Reconciled, Forward
  <2>3. PICK q : q = [run EXCEPT !.todo = run.todo \ {Subject(s)}, !.completed = run.completed \cup {Subject(s)}]
    OBVIOUS
  <2>4. zoneRuns' = [zoneRuns EXCEPT ![s] = WithSettings(q)]
    BY <1>1, <2>1, <2>3 DEF Reconciled
  <2>5. r # s
    BY <2>1, <2>2
  <2> QED BY <1>0, <2>4, <2>5
<1>2. ASSUME NEW s \in DOMAIN zoneRuns, ReconcileFails(s) PROVE FALSE
  <2>1. zoneRuns[s].phase = "forward" /\ r # s
    BY <1>2 DEF ReconcileFails, Forward
  <2> QED BY <1>0, <1>2, <2>1 DEF ReconcileFails
<1>3. ASSUME NEW s \in DOMAIN zoneRuns, NEW ok \in BOOLEAN, RollbackStep(s, ok) PROVE FALSE
  <2>1. CASE r # s
    BY <1>0, <1>3, <2>1 DEF RollbackStep
  <2>2. CASE r = s
    <3>1. PICK run : run = zoneRuns[s] /\ run \in ZoneRunRecords
      BY <1>0
    <3>2. PICK a : a = LastOf(run.completed)
      OBVIOUS
    <3>3. zoneRuns' = [zoneRuns EXCEPT ![s].completed = @ \ {a}, ![s].clean = @ /\ ok]
      BY <1>3, <3>1, <3>2 DEF RollbackStep
    <3>4. zoneRuns'[s].phase = run.phase
      BY <1>0, <3>1, <3>3 DEF ZoneRunRecords
    <3> QED BY <2>2, <3>1, <3>4
  <2> QED BY <2>1, <2>2
<1>4. CASE \E c \in Clusters :
       \/ \E z \in Catalogs : PutZoning(c, z)
       \/ \E h \in SpareHosts : AddMember(c, h) \/ RemoveMember(c, h)
       \/ LaunchApply(c)
       \/ \E h \in ZoneHosts, z \in Zones : UpdateNodeZone(h, c, z)
       \/ CollectorReads(c)
  BY <1>4 DEF PutZoning, AddMember, RemoveMember, LaunchApply, UpdateNodeZone, CollectorReads
<1>5. ASSUME NEW s \in DOMAIN zoneRuns, RunStep(s) PROVE runtime' = runtime
  BY <1>1, <1>2, <1>3, <1>5 DEF RunStep, BeginApply, BeginHost, SettingsRejected, ApplySucceeds,
     HostChangeSucceeds, RunFails
<1>6. CASE CollectorRecords \/ ZoningRestart
  BY <1>6 DEF CollectorRecords, ZoningRestart
<1> QED BY <1>4, <1>5, <1>6 DEF ZoningNext

LEMMA RestoreSteps == ZoningInv /\ ZoningNext => RestoredStep
<1> SUFFICES ASSUME ZoningInv, ZoningNext, NEW r \in DOMAIN zoneRuns, NEW run, run = zoneRuns[r],
                    run.phase = "rollback", zoneRuns'[r].phase = "ended", run.completed = {},
                    run.clean, run.truthful, NEW a \in DOMAIN run.previous \ {run.failed}
             PROVE  runtime'[a] = run.started[a]
  BY DEF RestoredStep
<1>1. runtime' = runtime
  BY RestartsEndNothing
<1>2. RunOK(run, runtime)
  BY RunTypes
<1>3. runtime[a] = run.started[a]
  BY <1>2 DEF RunOK
<1> QED BY <1>1, <1>3

LEMMA TruthSteps == ZoningInv => TruthStep
<1> SUFFICES ASSUME ZoningInv, NEW r \in DOMAIN zoneRuns, NEW run, run = zoneRuns[r],
                    ApplySucceeds(r), run.truthful, NEW a \in OfCluster(run.on)
             PROVE  record'[run.on].observed[a] = runtime'[a]
  BY DEF TruthStep
<1>1. run.phase = "forward" /\ run.kind = "apply" /\ run.todo = {} /\ runtime' = runtime
  BY DEF ApplySucceeds, Forward
<1>2. RunOK(run, runtime) /\ run.on \in Targets(run.kind) /\ OwnWork(run)
  BY <1>1, RunAtWork
<1>3. run.on \in Clusters /\ record' = [record EXCEPT ![run.on] = AppliedRecord(run)]
  BY <1>1, <1>2 DEF ApplySucceeds, Targets
<1>4. record'[run.on].observed = run.desired
  <2>1. record = [c \in Clusters |-> record[c]]
    BY DEF ZoningInv, ZoningShape
  <2>2. PICK row : row = AppliedRecord(run)
    OBVIOUS
  <2>3. record'[run.on] = row
    BY <1>3, <2>1, <2>2
  <2>4. row.observed = run.desired
    BY <2>2 DEF AppliedRecord
  <2> QED BY <2>3, <2>4
<1>5. a \in DOMAIN run.desired /\ a \in DOMAIN run.previous
  BY <1>1, <1>2 DEF RunOK
<1>6. CASE a \in run.completed
  BY <1>1, <1>2, <1>4, <1>6 DEF RunOK
<1>7. CASE a \notin run.completed
  BY <1>1, <1>2, <1>4, <1>5, <1>7 DEF RunOK
<1> QED BY <1>6, <1>7

LEMMA ForcedSteps == ZoningInv /\ ZoningNext => ForcedStep
<1> SUFFICES ASSUME ZoningInv, ZoningNext, NEW c \in Clusters, zoning[c].mode = "forced",
                    \A r \in DOMAIN zoneRuns : zoneRuns'[r] = zoneRuns[r],
                    ForcedCovered(c, zoning[c], hostZone)
             PROVE  ForcedCovered(c, zoning[c], hostZone')
  BY DEF ForcedStep
<1>0. hostZone \in [ZoneHosts -> ZoneValues] /\ zoneRuns \in Seq(ZoneRunRecords)
  BY DEF ZoningInv, ZoningShape
<1>1. ASSUME NEW d \in Clusters, NEW h \in ZoneHosts, NEW z \in Zones, UpdateNodeZone(h, d, z)
      PROVE  ForcedCovered(c, zoning[c], hostZone')
  <2>1. hostZone' = [hostZone EXCEPT ![h] = z] /\ ForcedZonesStay(h, z)
    BY <1>1 DEF UpdateNodeZone, ValidZoneChange
  <2>2. CASE h \in members[c]
    BY <2>1, <2>2 DEF ForcedZonesStay
  <2>3. CASE h \notin members[c]
    <3>1. \A a \in OfCluster(c) : hostZone'[HostOf[a]] = hostZone[HostOf[a]]
      BY <1>0, <2>1, <2>3, ZoningAssumption DEF ZoningInv, Placed, OfCluster
    <3>2. \A role : ZonesOf(hostZone', DataOf(c, role)) = ZonesOf(hostZone, DataOf(c, role))
      BY <3>1 DEF ZonesOf, DataOf
    <3> QED BY <3>2 DEF ForcedCovered
  <2> QED BY <2>2, <2>3
<1>2. ASSUME NEW r \in DOMAIN zoneRuns, RunStep(r) PROVE hostZone' = hostZone
  <2>1. CASE RunFails(r)
    <3>1. PICK over : over = Over(zoneRuns[r].kind, zoneRuns[r].on)
      OBVIOUS
    <3>2. OverRun(over, zoneRuns[r].kind, zoneRuns[r].on)
      BY <3>1, RunTypes, OverOK
    <3>3. zoneRuns' = [zoneRuns EXCEPT ![r] = over]
      BY <2>1, <3>1 DEF RunFails, Ended, Over
    <3>4. zoneRuns[r].phase = "ended"
      BY <1>0, <1>2, <3>2, <3>3 DEF OverRun
    <3> QED BY <2>1, <3>4 DEF RunFails
  <2> QED BY <1>2, <2>1 DEF RunStep, BeginApply, BeginHost, Reconciled, ReconcileFails, SettingsRejected,
             RollbackStep, ApplySucceeds, HostChangeSucceeds
<1>3. ASSUME NEW d \in Clusters,
             \/ \E z \in Catalogs : PutZoning(d, z)
             \/ \E h \in SpareHosts : AddMember(d, h) \/ RemoveMember(d, h)
             \/ LaunchApply(d) \/ CollectorReads(d)
      PROVE  hostZone' = hostZone
  BY <1>3 DEF PutZoning, AddMember, RemoveMember, LaunchApply, CollectorReads
<1>4. CASE CollectorRecords \/ ZoningRestart
  BY <1>4 DEF CollectorRecords, ZoningRestart
<1> QED BY <1>1, <1>2, <1>3, <1>4 DEF ZoningNext

\* Runs keep out of each other's clusters, catalogs name the zones in use and
\* only runs at work hold claims, whatever the clusters, hosts and workloads,
\* and however runs, edits, joins, the collector and restarts follow.
THEOREM ZoningSafe == ZoningSpec => []ZoningInvariant
<1>1. ZoningInv => ZoningInvariant
  <2> SUFFICES ASSUME ZoningInv PROVE ZoningInvariant
    OBVIOUS
  <2>1. ZoningTypeOK
    BY DEF ZoningInv, ZoningShape, RecordRow, ZoneValues, ZoningTypeOK
  <2> QED BY <2>1 DEF ZoningInv, ZoningInvariant
<1> QED BY <1>1, ZoningHolds, PTL

\* A clean rollback restores the zones the run started from, an apply that
\* began with a true record ends with one, and a host that is moved never
\* empties a forced zone.
THEOREM ZoningStepsKept == ZoningSpec => ZoningSteps
<1>1. ZoningInv /\ [ZoningNext]_zoningVars => [RestoredStep /\ TruthStep /\ ForcedStep]_zoningVars
  BY RestoreSteps, TruthSteps, ForcedSteps
<1>2. ZoningSpec => [][RestoredStep /\ TruthStep /\ ForcedStep]_zoningVars
  BY <1>1, ZoningHolds, PTL DEF ZoningSpec
<1> QED BY <1>2, PTL DEF ZoningSteps, RollbackRestores, RecordTruthful, ForcedZonesKept,
                         RestoredStep, TruthStep, ForcedStep

-----------------------------------------------------------------------------
(* Versions.                                                               *)

LoadRows ==
  [release : Releases \cup {NoRelease}, running : BOOLEAN, failed : BOOLEAN,
   age : {"none", "fresh", "stale"}]
DeployedRows == [release : Releases, up : BOOLEAN]
VersionRunRecords ==
  [kind : {"probe", "filebeat", "batch", "apply", "purge", "download", "past"},
   todo : SUBSET Loads, cut : SUBSET Loads, phase : {"running", "lost", "ended"}]
Inquiries ==
  [kind : {"none", "download", "upgrade"}, target : Releases \cup {NoRelease},
   loads : SUBSET Loads, offered : SUBSET Releases, beats : BOOLEAN, answered : BOOLEAN]
ImageTables == [Repositories -> [Releases -> Images \cup {NoImage}]]

VersionShape ==
  /\ assigned \in SUBSET Loads
  /\ deployed \in [Loads -> DeployedRows]
  /\ seen \in [Loads -> LoadRows]
  /\ listing \in [Loads -> DeployedRows] \cup {Nothing}
  /\ registry \in ImageTables /\ digestCache \in ImageTables
  /\ inquiry \in [Clients -> Inquiries]
  /\ \A c \in Clients : inquiry[c].kind # "none" => inquiry[c].target \in Releases
  /\ \A m \in upgradePlans : m.release \in Releases /\ DOMAIN m.images \subseteq Loads

\* Every image that can still be pinned has been served for its release.
ServedOK ==
  \A p \in Repositories, v \in Releases :
    /\ <<p, v, registry[p][v]>> \in published
    /\ digestCache[p][v] # NoImage => <<p, v, digestCache[p][v]>> \in published

\* A row that would allow an upgrade is of a workload seen running; only
\* assigned workloads have rows.
SeenOK ==
  \A a \in Loads :
    /\ a \notin assigned => seen[a] = NoRow
    /\ seen[a].age = "none" => ~seen[a].running
    /\ seen[a].age = "fresh" /\ seen[a].running /\ ~seen[a].failed => a \in confirmed \cup mistaken

\* Runs that may be at work together.  A probe has workloads left, and those
\* are assigned or cut; one that is lost stopped at a cut one.
Begins(kind) == kind \in {"download", "apply", "purge"}
RunsApart(runs) ==
  \A r, s \in DOMAIN runs :
    r < s /\ runs[r].phase # "ended" /\ runs[s].phase # "ended" => Begins(runs[s].kind)
TodoOK(run, S) ==
  /\ run.kind \in {"probe", "batch", "apply", "purge"} /\ run.phase = "running" => run.todo # {}
  /\ run.kind = "probe" => run.todo \subseteq S \cup run.cut
  /\ run.phase = "lost" => Min(run.todo) \in run.cut
ProbesOK(runs, S) == \A r \in DOMAIN runs : TodoOK(runs[r], S)
VersionRunsOK(runs, S) ==
  /\ runs \in Seq(VersionRunRecords) /\ Len(runs) <= MaxVersionRuns
  /\ RunsApart(runs) /\ ProbesOK(runs, S)

VersionsInv == VersionShape /\ ServedOK /\ SeenOK /\ VersionRunsOK(versionRuns, assigned)

-----------------------------------------------------------------------------
\* A nonempty set of ids has a first, which Min finds.
LEMMA MinExists ==
  ASSUME NEW S \in SUBSET Nat, S # {}
  PROVE  Min(S) \in S /\ \A y \in S : Min(S) <= y
<1> DEFINE R == OpToRel(<, Nat)
<1>1. PICK t \in S : \A u \in S : ~(<<u, t>> \in R)
  <2> HIDE DEF R
  <2>1. IsWellFoundedOn(R, Nat)
    BY NatLessThanWellFounded DEF R
  <2> QED BY <2>1, WFMin
<1>3. S \subseteq Nat
  OBVIOUS
<1>4. \A u \in S : ~(u < t)
  BY <1>1, <1>3 DEF OpToRel
<1>2. \A u \in S : t <= u
  BY <1>3, <1>4
<1> QED BY <1>2 DEF Min

LEMMA AppendRunOK ==
  ASSUME NEW runs, NEW S, VersionRunsOK(runs, S), Len(runs) < MaxVersionRuns,
         NEW run \in VersionRunRecords, run.phase = "running",
         Begins(run.kind) \/ \A r \in DOMAIN runs : runs[r].phase = "ended", TodoOK(run, S)
  PROVE  VersionRunsOK(Append(runs, run), S)
<1> DEFINE new == Append(runs, run)
           n == Len(runs) + 1
<1>1. /\ runs \in Seq(VersionRunRecords) /\ new \in Seq(VersionRunRecords)
      /\ Len(new) = n /\ DOMAIN new = DOMAIN runs \cup {n} /\ \A r \in DOMAIN runs : r < n
      /\ n \in Nat /\ DOMAIN runs \subseteq Nat
      /\ new[n] = run /\ \A r \in DOMAIN runs : new[r] = runs[r]
  BY DEF VersionRunsOK
<1>2. Len(new) <= MaxVersionRuns
  BY <1>1, VersionsAssumption
<1> HIDE DEF new, n
<1>3. RunsApart(new)
  <2> SUFFICES ASSUME NEW r \in DOMAIN new, NEW q \in DOMAIN new, r < q,
                      new[r].phase # "ended", new[q].phase # "ended"
               PROVE  Begins(new[q].kind)
    BY DEF RunsApart
  <2>1. CASE q = n
    BY <1>1, <2>1
  <2>2. CASE q # n
    BY <1>1, <2>2 DEF RunsApart, VersionRunsOK
  <2> QED BY <2>1, <2>2
<1>4. ProbesOK(new, S)
  BY <1>1 DEF ProbesOK, VersionRunsOK
<1> QED BY <1>1, <1>2, <1>3, <1>4 DEF VersionRunsOK, new

\* A run that goes on as it was, on fewer workloads, or has ended.
LEMMA ReplaceRunOK ==
  ASSUME NEW runs, NEW S, VersionRunsOK(runs, S), NEW r \in DOMAIN runs,
         NEW run \in VersionRunRecords,
         \/ run.phase = "ended"
         \/ run.kind = runs[r].kind /\ runs[r].phase # "ended",
         TodoOK(run, S)
  PROVE  VersionRunsOK([runs EXCEPT ![r] = run], S)
<1> DEFINE new == [runs EXCEPT ![r] = run]
<1>1. /\ runs \in Seq(VersionRunRecords) /\ new \in Seq(VersionRunRecords)
      /\ Len(new) = Len(runs) /\ DOMAIN new = DOMAIN runs /\ new[r] = run
      /\ \A s \in DOMAIN runs : s # r => new[s] = runs[s]
  BY DEF VersionRunsOK
<1> HIDE DEF new
<1>2. RunsApart(new)
  BY <1>1 DEF RunsApart, VersionRunsOK
<1>3. ProbesOK(new, S)
  BY <1>1 DEF ProbesOK, VersionRunsOK
<1> QED BY <1>1, <1>2, <1>3 DEF VersionRunsOK, new

LEMMA EndRunOK ==
  ASSUME NEW S, VersionRunsOK(versionRuns, S), NEW r \in DOMAIN versionRuns
  PROVE  /\ VersionRunsOK(EndRun(r), S) /\ DOMAIN EndRun(r) = DOMAIN versionRuns
         /\ Len(EndRun(r)) = Len(versionRuns) /\ EndRun(r)[r].phase = "ended"
         /\ \A s \in DOMAIN versionRuns : s # r => EndRun(r)[s] = versionRuns[s]
<1> DEFINE run == [kind |-> "past", todo |-> {}, cut |-> {}, phase |-> "ended"]
<1>1. run \in VersionRunRecords /\ run.phase = "ended" /\ TodoOK(run, S)
  BY DEF VersionRunRecords, TodoOK
<1>2. EndRun(r) = [versionRuns EXCEPT ![r] = run]
  BY DEF EndRun
<1> HIDE DEF run
<1>3. VersionRunsOK([versionRuns EXCEPT ![r] = run], S)
  BY <1>1, ReplaceRunOK
<1>4. versionRuns \in Seq(VersionRunRecords)
  BY DEF VersionRunsOK
<1> QED BY <1>1, <1>2, <1>3, <1>4

LEMMA AdvanceOK ==
  ASSUME NEW S, VersionRunsOK(versionRuns, S), NEW r \in DOMAIN versionRuns,
         versionRuns[r].phase = "running"
  PROVE  VersionRunsOK(Advance(r), S)
<1> DEFINE old == versionRuns[r]
           run == [old EXCEPT !.todo = Behind(old.todo)]
<1>1. old \in VersionRunRecords
  BY DEF VersionRunsOK
<1>2. Behind(old.todo) \subseteq old.todo
  BY DEF Behind
<1>3. /\ run \in VersionRunRecords /\ run.phase = "running" /\ run.kind = old.kind
      /\ run.todo = Behind(old.todo) /\ run.cut = old.cut
  BY <1>1, <1>2 DEF VersionRunRecords
<1>4. old.kind = "probe" => old.todo \subseteq S \cup old.cut
  BY DEF VersionRunsOK, ProbesOK, TodoOK
<1>5. CASE Behind(old.todo) = {}
  BY <1>5, EndRunOK DEF Advance
<1>6. CASE Behind(old.todo) # {}
  <2>1. Advance(r) = [versionRuns EXCEPT ![r] = run]
    BY <1>6 DEF Advance, VersionRunsOK
  <2> HIDE DEF run, old
  <2>3. TodoOK(run, S)
    BY <1>2, <1>3, <1>4, <1>6 DEF TodoOK
  <2>2. VersionRunsOK([versionRuns EXCEPT ![r] = run], S)
    BY <1>3, <2>3, ReplaceRunOK DEF old
  <2> QED BY <2>1, <2>2
<1> QED BY <1>5, <1>6

\* More workloads are assigned.
LEMMA AssignMoreOK ==
  ASSUME NEW runs, NEW S, NEW T, S \subseteq T, VersionRunsOK(runs, S)
  PROVE  VersionRunsOK(runs, T)
BY DEF VersionRunsOK, ProbesOK, TodoOK

\* One is gone, and the runs that had it left are cut.
LEMMA CutRunsOK ==
  ASSUME NEW runs, NEW S, NEW a \in Loads, VersionRunsOK(runs, S)
  PROVE  VersionRunsOK(CutRuns(runs, a), S \ {a})
<1> DEFINE new == CutRuns(runs, a)
<1>1. runs \in Seq(VersionRunRecords) /\ DOMAIN runs = 1 .. Len(runs) /\ Len(runs) \in Nat
  BY DEF VersionRunsOK
<1>2. ASSUME NEW r \in DOMAIN runs
      PROVE  /\ new[r] \in VersionRunRecords /\ new[r].kind = runs[r].kind
             /\ new[r].phase = runs[r].phase /\ TodoOK(new[r], S \ {a})
  <2>1. PICK old : old = runs[r]
    OBVIOUS
  <2>2. old \in VersionRunRecords /\ TodoOK(old, S)
    BY <1>1, <2>1 DEF VersionRunsOK, ProbesOK
  <2>3. PICK c : c = old.cut \cup ({a} \cap old.todo)
    OBVIOUS
  <2>4. PICK run : run = [old EXCEPT !.cut = c]
    OBVIOUS
  <2>5. c \in SUBSET Loads
    BY <2>2, <2>3 DEF VersionRunRecords
  <2>6. /\ run \in VersionRunRecords /\ run.kind = old.kind /\ run.phase = old.phase
        /\ run.todo = old.todo /\ run.cut = c
    BY ONLY <2>2, <2>4, <2>5 DEF VersionRunRecords
  <2>7. TodoOK(run, S \ {a})
    BY <2>2, <2>3, <2>6 DEF TodoOK
  <2>8. new[r] = run
    BY <2>1, <2>3, <2>4 DEF CutRuns
  <2> QED BY <2>1, <2>6, <2>7, <2>8
<1>3. new = [r \in 1 .. Len(runs) |-> new[r]]
  BY <1>1 DEF CutRuns
<1> HIDE DEF new
<1>4. new \in Seq(VersionRunRecords) /\ Len(new) = Len(runs) /\ DOMAIN new = DOMAIN runs
  BY <1>1, <1>2, <1>3
<1>5. RunsApart(new)
  BY <1>2, <1>4 DEF RunsApart, VersionRunsOK
<1>6. ProbesOK(new, S \ {a})
  BY <1>2, <1>4 DEF ProbesOK
<1> QED BY <1>4, <1>5, <1>6 DEF VersionRunsOK, new

LEMMA WithFilebeatOK ==
  ASSUME NEW runs, NEW S, NEW T \in SUBSET Loads, VersionRunsOK(runs, S)
  PROVE  VersionRunsOK(WithFilebeat(runs, T), S)
<1> DEFINE run == NewVersionRun("filebeat", T)
<1>1. run \in VersionRunRecords /\ run.phase = "running" /\ TodoOK(run, S)
  BY DEF NewVersionRun, VersionRunRecords, TodoOK
<1>2. Len(runs) \in Nat /\ MaxVersionRuns \in Nat
  BY VersionsAssumption DEF VersionRunsOK
<1>3. CASE WithFilebeat(runs, T) = runs
  BY <1>3
<1>4. CASE WithFilebeat(runs, T) # runs
  <2>1. /\ \A r \in DOMAIN runs : runs[r].phase = "ended"
        /\ Len(runs) < MaxVersionRuns /\ WithFilebeat(runs, T) = Append(runs, run)
    BY <1>2, <1>4 DEF WithFilebeat
  <2> HIDE DEF run
  <2> QED BY <1>1, <2>1, AppendRunOK
<1> QED BY <1>3, <1>4

\* What is launched while nothing else is at work, or beside it.
LEMMA LaunchOK ==
  ASSUME VersionsInv, Room, NEW kind \in {"probe", "batch", "apply", "purge", "download"},
         NEW T \in SUBSET Loads, Begins(kind) \/ ~Busy, kind = "download" \/ T # {},
         kind = "probe" => T \subseteq assigned
  PROVE  VersionRunsOK(Append(versionRuns, NewVersionRun(kind, T)), assigned)
<1> DEFINE run == NewVersionRun(kind, T)
<1>1. run \in VersionRunRecords /\ run.phase = "running" /\ run.kind = kind /\ TodoOK(run, assigned)
  BY DEF NewVersionRun, VersionRunRecords, TodoOK
<1>2. ~Busy => \A r \in DOMAIN versionRuns : versionRuns[r].phase = "ended"
  BY DEF Busy
<1> HIDE DEF run
<1>3. VersionRunsOK(Append(versionRuns, run), assigned)
  BY <1>1, <1>2, AppendRunOK DEF VersionsInv, Room
<1> QED BY <1>3 DEF run

\* Steps that only move runs.
LEMMA RunsMove ==
  ASSUME VersionsInv, VersionRunsOK(versionRuns', assigned),
         UNCHANGED <<assigned, deployed, inquiry, listing, upgradePlans, observationVars, registryVars>>
  PROVE  VersionsInv'
BY DEF VersionsInv, VersionShape, ServedOK, SeenOK, observationVars, registryVars

LEMMA LaunchSteps ==
  ASSUME VersionsInv,
         \/ RefreshVersions \/ \E enabled \in BOOLEAN : UpdateLogMonitoring(enabled)
         \/ \E a \in Loads : LaunchBatch(a) \/ \E kind \in {"apply", "purge"} : LaunchDirect(a, kind)
  PROVE  VersionsInv'
<1>1. assigned \in SUBSET Loads
  BY DEF VersionsInv, VersionShape
<1>2. VersionRunsOK(versionRuns', assigned)
  <2>1. CASE RefreshVersions
    BY <1>1, <2>1, LaunchOK DEF RefreshVersions
  <2>2. CASE \E a \in Loads : LaunchBatch(a)
    BY <2>2, LaunchOK DEF LaunchBatch
  <2>4. CASE \E a \in Loads : \E kind \in {"apply", "purge"} : LaunchDirect(a, kind)
    BY <2>4, LaunchOK DEF LaunchDirect, Begins
  <2>3. CASE \E enabled \in BOOLEAN : UpdateLogMonitoring(enabled)
    BY <1>1, <2>3, WithFilebeatOK DEF UpdateLogMonitoring, VersionsInv
  <2> QED BY <2>1, <2>2, <2>3, <2>4
<1> QED BY <1>2, RunsMove DEF RefreshVersions, LaunchBatch, LaunchDirect, UpdateLogMonitoring

LEMMA EndSteps ==
  ASSUME VersionsInv, NEW r \in DOMAIN versionRuns, ChangeFails(r) \/ DownloadStep(r)
  PROVE  VersionsInv'
<1>1. VersionRunsOK(versionRuns', assigned)
  BY EndRunOK, AdvanceOK DEF ChangeFails, DownloadStep, AtWork, VersionsInv
<1> QED BY <1>1, RunsMove DEF ChangeFails, DownloadStep

\* Records of workloads.
LEMMA RowsMove ==
  ASSUME VersionsInv, SeenOK', seen' \in [Loads -> LoadRows], VersionRunsOK(versionRuns', assigned),
         listing' \in {listing, Nothing},
         UNCHANGED <<assigned, deployed, inquiry, upgradePlans, registryVars>>
  PROVE  VersionsInv'
BY DEF VersionsInv, VersionShape, ServedOK, registryVars

\* A run that has met a workload which is gone.
LEMMA LoseRunOK ==
  ASSUME NEW S, VersionRunsOK(versionRuns, S), NEW r \in DOMAIN versionRuns, AtWork(r, "probe"),
         Min(versionRuns[r].todo) \notin S
  PROVE  VersionRunsOK([versionRuns EXCEPT ![r].phase = "lost"], S)
<1>1. PICK old : old = versionRuns[r]
  OBVIOUS
<1>2. PICK run : run = [old EXCEPT !.phase = "lost"]
  OBVIOUS
<1>3. old \in VersionRunRecords /\ TodoOK(old, S)
  BY <1>1 DEF VersionRunsOK, ProbesOK
<1>4. /\ run \in VersionRunRecords /\ run.kind = old.kind /\ run.phase = "lost"
      /\ run.todo = old.todo /\ run.cut = old.cut
  BY ONLY <1>2, <1>3 DEF VersionRunRecords
<1>5. old.kind = "probe" /\ old.phase = "running" /\ old.todo \subseteq Nat
  BY <1>1, <1>3, VersionsAssumption DEF AtWork, VersionRunRecords
<1>6. Min(old.todo) \in old.cut
  BY <1>1, <1>3, <1>5, MinExists DEF TodoOK
<1>7. TodoOK(run, S)
  BY <1>3, <1>4, <1>6 DEF TodoOK
<1>8. VersionRunsOK([versionRuns EXCEPT ![r] = run], S)
  BY <1>1, <1>4, <1>5, <1>7, ReplaceRunOK
<1>9. [versionRuns EXCEPT ![r].phase = "lost"] = [versionRuns EXCEPT ![r] = run]
  BY <1>1, <1>2 DEF VersionRunsOK
<1> QED BY <1>8, <1>9

LEMMA ProbeSteps ==
  ASSUME VersionsInv, NEW r \in DOMAIN versionRuns, ProbeStep(r)
  PROVE  VersionsInv'
<1> DEFINE a == Min(versionRuns[r].todo)
<1>1. AtWork(r, "probe") /\ UNCHANGED <<assigned, deployed, inquiry, listing, upgradePlans, registryVars>>
  BY DEF ProbeStep
<1>2. VersionRunsOK(versionRuns, assigned) /\ seen \in [Loads -> LoadRows] /\ SeenOK /\ assigned \subseteq Loads
  BY DEF VersionsInv, VersionShape
<1>3. CASE a \notin assigned
  <2>1. versionRuns' = [versionRuns EXCEPT ![r].phase = "lost"] /\ UNCHANGED observationVars
    BY <1>3 DEF ProbeStep
  <2>2. VersionRunsOK(versionRuns', assigned)
    BY <1>1, <1>2, <1>3, <2>1, LoseRunOK
  <2> QED BY <1>1, <2>1, <2>2, RunsMove
<1>4. CASE a \in assigned
  <2>1. /\ \/ RecordRuntime(a, Probed(a, deployed[a].up, FALSE))
           \/ RecordRuntime(a, Probed(a, FALSE, TRUE))
           \/ /\ \E row \in LeftBehind : seen' = [seen EXCEPT ![a] = row]
              /\ confirmed' = confirmed \ {a} /\ mistaken' = mistaken \cup {a}
        /\ versionRuns' \in {Advance(r), EndRun(r)}
    BY <1>4 DEF ProbeStep
  <2>2. VersionRunsOK(versionRuns', assigned)
    BY <1>1, <1>2, <2>1, EndRunOK, AdvanceOK DEF AtWork
  <2> HIDE DEF a
  <2>3. deployed[a].release \in Releases /\ deployed[a].up \in BOOLEAN /\ a \in Loads
    BY <1>2, <1>4 DEF VersionsInv, VersionShape, DeployedRows
  <2>4. PICK row \in LoadRows :
          /\ row.age = "fresh" /\ seen' = [seen EXCEPT ![a] = row]
          /\ row.running /\ ~row.failed => a \in confirmed' \cup mistaken'
          /\ \A b \in confirmed \cup mistaken : b = a \/ b \in confirmed' \cup mistaken'
    <3>1. /\ Probed(a, deployed[a].up, FALSE) \in LoadRows /\ Probed(a, FALSE, TRUE) \in LoadRows
          /\ Probed(a, deployed[a].up, FALSE).age = "fresh" /\ Probed(a, FALSE, TRUE).age = "fresh"
      BY <2>3 DEF Probed, LoadRows
    <3>2. \A row \in LeftBehind : row \in LoadRows /\ row.age = "fresh"
      BY DEF LeftBehind, LoadRows
    <3>3. CASE \E row \in LeftBehind : seen' = [seen EXCEPT ![a] = row]
               /\ confirmed' = confirmed \ {a} /\ mistaken' = mistaken \cup {a}
      BY <3>2, <3>3
    <3>4. CASE RecordRuntime(a, Probed(a, deployed[a].up, FALSE))
               \/ RecordRuntime(a, Probed(a, FALSE, TRUE))
      BY <3>1, <3>4 DEF RecordRuntime
    <3> QED BY <2>1, <3>3, <3>4
  <2>5. seen' \in [Loads -> LoadRows] /\ seen'[a] = row /\ \A b \in Loads \ {a} : seen'[b] = seen[b]
    BY <1>2, <2>3, <2>4
  <2>6. SeenOK'
    BY <1>1, <1>2, <1>4, <2>4, <2>5 DEF SeenOK
  <2> QED BY <1>1, <2>2, <2>5, <2>6, RowsMove
<1> QED BY <1>3, <1>4

\* The companion's record leaves a row as it was, or makes one that shows
\* nothing.
LEMMA FilebeatSteps ==
  ASSUME VersionsInv, NEW r \in DOMAIN versionRuns, FilebeatStep(r)
  PROVE  VersionsInv'
<1> DEFINE a == Min(versionRuns[r].todo)
<1>1. /\ AtWork(r, "filebeat")
      /\ UNCHANGED <<assigned, deployed, inquiry, listing, upgradePlans, confirmed, mistaken, registryVars>>
      /\ versionRuns' \in {Advance(r), EndRun(r)}
      /\ \/ a \in assigned /\ seen' = [seen EXCEPT ![a] = FilebeatRow(@)]
         \/ seen' = seen
  BY DEF FilebeatStep
<1>2. VersionRunsOK(versionRuns', assigned)
  BY <1>1, EndRunOK, AdvanceOK DEF VersionsInv, AtWork
<1> HIDE DEF a
<1>3. seen \in [Loads -> LoadRows] /\ SeenOK /\ assigned \subseteq Loads
  BY DEF VersionsInv, VersionShape
<1>4. CASE seen' = seen
  BY <1>1, <1>2, <1>3, <1>4, RowsMove DEF SeenOK
<1>5. CASE a \in assigned /\ seen' = [seen EXCEPT ![a] = FilebeatRow(@)]
  <2>1. PICK row : row = FilebeatRow(seen[a])
    OBVIOUS
  <2>2. seen[a] \in LoadRows
    BY <1>3, <1>5
  <2>3. /\ row \in LoadRows /\ row.running = seen[a].running /\ row.failed = seen[a].failed
        /\ row.age = IF seen[a].age = "none" THEN "fresh" ELSE seen[a].age
    BY <2>1, <2>2 DEF FilebeatRow, LoadRows
  <2>4. seen' \in [Loads -> LoadRows] /\ seen'[a] = row /\ \A b \in Loads \ {a} : seen'[b] = seen[b]
    BY <1>3, <1>5, <2>1, <2>3
  <2>5. SeenOK'
    BY <1>1, <1>3, <1>5, <2>3, <2>4 DEF SeenOK
  <2> QED BY <1>1, <1>2, <2>4, <2>5, RowsMove
<1> QED BY <1>1, <1>4, <1>5

LEMMA CollectorSteps ==
  ASSUME VersionsInv, CollectorRecordsVersions \/ \E a \in Loads : ObservationAges(a)
  PROVE  VersionsInv'
<1>1. /\ seen \in [Loads -> LoadRows] /\ SeenOK /\ assigned \subseteq Loads
      /\ VersionRunsOK(versionRuns, assigned)
  BY DEF VersionsInv, VersionShape
<1>2. CASE CollectorRecordsVersions
  <2>1. /\ seen' = [a \in Loads |-> IF a \in assigned THEN Listed(a) ELSE seen[a]]
        /\ confirmed' = {a \in assigned : listing[a].up} /\ listing' = Nothing
        /\ UNCHANGED <<assigned, deployed, inquiry, versionRuns, upgradePlans, registryVars>>
    BY <1>2 DEF CollectorRecordsVersions
  <2>2. listing \in [Loads -> DeployedRows]
    BY <1>2 DEF CollectorRecordsVersions, VersionsInv, VersionShape
  <2>3. \A a \in assigned : /\ Listed(a) \in LoadRows /\ Listed(a).age = "fresh"
                            /\ Listed(a).running = listing[a].up
    BY <1>1, <2>2 DEF Listed, LoadRows, DeployedRows
  <2>4. seen' \in [Loads -> LoadRows]
    BY <1>1, <2>1, <2>3
  <2>5. NoRow.running = FALSE
    BY DEF NoRow
  <2>6. SeenOK'
    BY <1>1, <2>1, <2>3, <2>5 DEF SeenOK
  <2> QED BY <1>1, <2>1, <2>4, <2>6, RowsMove
<1>3. ASSUME NEW a \in Loads, ObservationAges(a)
      PROVE  VersionsInv'
  <2>1. /\ seen[a].age = "fresh" /\ seen' = [seen EXCEPT ![a].age = "stale"]
        /\ confirmed' = confirmed \ {a} /\ mistaken' = mistaken \ {a}
        /\ UNCHANGED <<assigned, deployed, inquiry, versionRuns, listing, upgradePlans, registryVars>>
    BY <1>3 DEF ObservationAges
  <2>2. PICK row : row = [seen[a] EXCEPT !.age = "stale"]
    OBVIOUS
  <2>3. seen[a] \in LoadRows
    BY <1>1
  <2>4. row \in LoadRows /\ row.age = "stale"
    BY <2>2, <2>3 DEF LoadRows
  <2>5. seen' \in [Loads -> LoadRows] /\ seen'[a] = row /\ \A b \in Loads \ {a} : seen'[b] = seen[b]
    BY <1>1, <2>1, <2>2, <2>4
  <2>6. NoRow.age = "none"
    BY DEF NoRow
  <2>7. SeenOK'
    BY <1>1, <2>1, <2>4, <2>5, <2>6 DEF SeenOK
  <2> QED BY <1>1, <2>1, <2>5, <2>7, RowsMove
<1> QED BY <1>2, <1>3

\* The row of a workload is deleted, and its observation with it.
LEMMA RowGone ==
  ASSUME VersionsInv, NEW a \in Loads, DeleteRow(a), VersionRunsOK(versionRuns', assigned \ {a}),
         deployed' \in [Loads -> DeployedRows], UNCHANGED <<inquiry, listing, upgradePlans, registryVars>>
  PROVE  VersionsInv'
<1>1. /\ assigned' = assigned \ {a} /\ seen' = [seen EXCEPT ![a] = NoRow]
      /\ confirmed' = confirmed \ {a} /\ mistaken' = mistaken \ {a}
  BY DEF DeleteRow, SeenAfterPurge
<1>2. SeenOK /\ assigned \subseteq Loads /\ seen \in [Loads -> LoadRows]
  BY DEF VersionsInv, VersionShape
<1>3. NoRow \in LoadRows /\ NoRow.running = FALSE
  BY DEF NoRow, LoadRows
<1>4. seen' \in [Loads -> LoadRows] /\ seen'[a] = NoRow /\ \A b \in Loads \ {a} : seen'[b] = seen[b]
  BY <1>1, <1>2, <1>3
<1>5. SeenOK'
  BY <1>1, <1>2, <1>3, <1>4 DEF SeenOK
<1>6. assigned' \in SUBSET Loads /\ VersionRunsOK(versionRuns', assigned')
  BY <1>1, <1>2
<1> QED BY <1>4, <1>5, <1>6 DEF VersionsInv, VersionShape, ServedOK, registryVars

\* Rows added by hand or by a batch.
LEMMA RowAdded ==
  ASSUME VersionsInv, assigned \subseteq assigned', assigned' \in SUBSET Loads,
         VersionRunsOK(versionRuns', assigned'), deployed' \in [Loads -> DeployedRows],
         UNCHANGED <<inquiry, listing, upgradePlans, observationVars, registryVars>>
  PROVE  VersionsInv'
<1>1. SeenOK'
  BY DEF VersionsInv, SeenOK, observationVars
<1> QED BY <1>1 DEF VersionsInv, VersionShape, ServedOK, observationVars, registryVars

LEMMA RowEditSteps ==
  ASSUME VersionsInv, NEW a \in Loads, Detach(a) \/ AddAssignment(a)
  PROVE  VersionsInv'
<1>1. /\ VersionRunsOK(versionRuns, assigned) /\ assigned \in SUBSET Loads
      /\ deployed \in [Loads -> DeployedRows]
  BY DEF VersionsInv, VersionShape
<1>2. CASE Detach(a)
  <2>1. /\ DeleteRow(a) /\ versionRuns' = CutRuns(versionRuns, a)
        /\ UNCHANGED <<deployed, inquiry, listing, upgradePlans, registryVars>>
    BY <1>2 DEF Detach
  <2>2. VersionRunsOK(versionRuns', assigned \ {a})
    BY <1>1, <2>1, CutRunsOK
  <2> QED BY <1>1, <2>1, <2>2, RowGone
<1>3. CASE AddAssignment(a)
  <2>1. /\ assigned' = assigned \cup {a}
        /\ UNCHANGED <<deployed, inquiry, versionRuns, listing, upgradePlans, observationVars, registryVars>>
    BY <1>3 DEF AddAssignment
  <2>2. PICK now : now = assigned'
    OBVIOUS
  <2>3. VersionRunsOK(versionRuns, now)
    BY <1>1, <2>1, <2>2, AssignMoreOK
  <2> QED BY <1>1, <2>1, <2>2, <2>3, RowAdded
<1> QED BY <1>2, <1>3

LEMMA ChangeSteps ==
  ASSUME VersionsInv, NEW r \in DOMAIN versionRuns, NEW v \in Releases, ChangeSucceeds(r, v)
  PROVE  VersionsInv'
<1> DEFINE a == Min(versionRuns[r].todo)
<1>1. /\ AtWork(r, "batch") \/ AtWork(r, "apply") \/ AtWork(r, "purge")
      /\ UNCHANGED <<inquiry, listing, upgradePlans, registryVars>>
  BY DEF ChangeSucceeds
<1>2. /\ VersionRunsOK(versionRuns, assigned) /\ assigned \in SUBSET Loads
      /\ deployed \in [Loads -> DeployedRows]
  BY DEF VersionsInv, VersionShape
<1>3. a \in Loads
  <2>1. versionRuns[r] \in VersionRunRecords /\ TodoOK(versionRuns[r], assigned)
    BY <1>2 DEF VersionRunsOK, ProbesOK
  <2>2. versionRuns[r].todo \subseteq Nat /\ versionRuns[r].todo # {} /\ versionRuns[r].todo \subseteq Loads
    BY <1>1, <2>1, VersionsAssumption DEF AtWork, TodoOK, VersionRunRecords
  <2> QED BY <2>2, MinExists
<1>4. VersionRunsOK(EndRun(r), assigned)
  BY <1>2, EndRunOK
<1>5. PICK now : now = assigned'
  OBVIOUS
<1>6. CASE /\ assigned' \in {assigned, assigned \cup {a}}
           /\ deployed' = [deployed EXCEPT ![a] = [release |-> v, up |-> TRUE]]
           /\ versionRuns' = WithFilebeat(EndRun(r), assigned')
           /\ UNCHANGED observationVars
  <2> HIDE DEF a
  <2>1. now \in SUBSET Loads /\ assigned \subseteq now
    BY <1>2, <1>3, <1>5, <1>6
  <2>2. VersionRunsOK(versionRuns', now)
    BY <1>4, <1>5, <1>6, <2>1, AssignMoreOK, WithFilebeatOK
  <2>3. deployed' \in [Loads -> DeployedRows]
    BY <1>2, <1>3, <1>6 DEF DeployedRows
  <2> QED BY <1>1, <1>5, <1>6, <2>1, <2>2, <2>3, RowAdded
<1>7. CASE /\ DeleteRow(a) /\ deployed' = [deployed EXCEPT ![a].up = FALSE]
           /\ versionRuns' = WithFilebeat(CutRuns(EndRun(r), a), assigned')
  <2> HIDE DEF a
  <2>1. now = assigned \ {a} /\ now \in SUBSET Loads
    BY <1>2, <1>5, <1>7 DEF DeleteRow
  <2>2. VersionRunsOK(CutRuns(EndRun(r), a), now)
    BY <1>3, <1>4, <2>1, CutRunsOK
  <2>3. VersionRunsOK(versionRuns', now)
    BY <1>5, <1>7, <2>1, <2>2, WithFilebeatOK
  <2>4. deployed' \in [Loads -> DeployedRows]
    BY <1>2, <1>3, <1>7 DEF DeployedRows
  <2> QED BY <1>1, <1>3, <1>7, <2>1, <2>3, <2>4, RowGone
<1> QED BY <1>6, <1>7 DEF ChangeSucceeds

LEMMA RemoteSteps ==
  ASSUME VersionsInv, MaintenanceBegins \/ MaintenanceEnds \/ CollectorLists
  PROVE  VersionsInv'
<1>1. deployed \in [Loads -> DeployedRows] /\ assigned \subseteq Loads
  BY DEF VersionsInv, VersionShape
<1>2. UNCHANGED <<assigned, inquiry, versionRuns, upgradePlans, observationVars, registryVars>>
  BY DEF MaintenanceBegins, MaintenanceEnds, CollectorLists
<1>3. deployed' \in [Loads -> DeployedRows] /\ listing' \in [Loads -> DeployedRows] \cup {Nothing}
  <2>1. CASE MaintenanceBegins
    <3>1. PICK a \in assigned : deployed' = [deployed EXCEPT ![a].up = FALSE]
      BY <2>1 DEF MaintenanceBegins
    <3>2. deployed' \in [Loads -> DeployedRows]
      BY <1>1, <3>1 DEF DeployedRows
    <3> QED BY <2>1, <3>2 DEF MaintenanceBegins, VersionsInv, VersionShape
  <2>2. CASE MaintenanceEnds
    <3>1. deployed' = [a \in Loads |-> [deployed[a] EXCEPT !.up = deployed[a].up \/ a \in assigned]]
      BY <2>2 DEF MaintenanceEnds
    <3>2. ASSUME NEW a \in Loads
          PROVE  [deployed[a] EXCEPT !.up = deployed[a].up \/ a \in assigned] \in DeployedRows
      <4>1. PICK b : b = (deployed[a].up \/ a \in assigned)
        OBVIOUS
      <4>2. b \in BOOLEAN
        BY <4>1
      <4>3. deployed[a] \in DeployedRows
        BY <1>1
      <4>4. [deployed[a] EXCEPT !.up = b] \in DeployedRows
        BY <4>2, <4>3 DEF DeployedRows
      <4> QED BY <4>1, <4>4
    <3> QED BY <2>2, <3>1, <3>2 DEF MaintenanceEnds, VersionsInv, VersionShape
  <2>3. CASE CollectorLists
    BY <1>1, <2>3 DEF CollectorLists
  <2> QED BY <2>1, <2>2, <2>3
<1> QED BY <1>2, <1>3 DEF VersionsInv, VersionShape, ServedOK, SeenOK, observationVars, registryVars

LEMMA RegistrySteps ==
  ASSUME VersionsInv,
         \/ \E tag \in Moving, i \in Images \cup {NoImage} : Publish(tag[1], tag[2], i)
         \/ CachesExpire
  PROVE  VersionsInv'
<1>1. UNCHANGED <<assigned, deployed, inquiry, versionRuns, listing, upgradePlans, observationVars>>
  BY DEF Publish, CachesExpire
<1>2. registry \in ImageTables /\ digestCache \in ImageTables /\ ServedOK
  BY DEF VersionsInv, VersionShape
<1>3. registry' \in ImageTables /\ digestCache' \in ImageTables /\ ServedOK'
  <2>1. ASSUME NEW p \in Repositories, NEW v \in Releases, NEW i \in Images \cup {NoImage}, Publish(p, v, i)
        PROVE  registry' \in ImageTables /\ digestCache' \in ImageTables /\ ServedOK'
    <3>1. /\ registry' = [registry EXCEPT ![p][v] = i] /\ published' = published \cup {<<p, v, i>>}
          /\ UNCHANGED digestCache
      BY <2>1 DEF Publish
    <3>2. registry' \in ImageTables
      BY <1>2, <3>1 DEF ImageTables
    <3>3. \A q \in Repositories, w \in Releases :
            registry'[q][w] = IF q = p /\ w = v THEN i ELSE registry[q][w]
      BY <1>2, <3>1 DEF ImageTables
    <3>4. ASSUME NEW q \in Repositories, NEW w \in Releases
          PROVE  /\ <<q, w, registry'[q][w]>> \in published'
                 /\ digestCache'[q][w] # NoImage => <<q, w, digestCache'[q][w]>> \in published'
      <4>1. /\ <<q, w, registry[q][w]>> \in published
            /\ digestCache[q][w] # NoImage => <<q, w, digestCache[q][w]>> \in published
        BY <1>2 DEF ServedOK
      <4>2. CASE q = p /\ w = v
        BY <3>1, <3>3, <4>1, <4>2
      <4>3. CASE ~(q = p /\ w = v)
        BY <3>1, <3>3, <4>1, <4>3
      <4> QED BY <4>2, <4>3
    <3> QED BY <1>2, <3>1, <3>2, <3>4 DEF ServedOK
  <2>2. CASE CachesExpire
    <3>1. /\ digestCache' = [p \in Repositories |-> [v \in Releases |-> NoImage]]
          /\ UNCHANGED <<registry, published>>
      BY <2>2 DEF CachesExpire
    <3>2. digestCache' \in ImageTables
      BY <3>1 DEF ImageTables
    <3> QED BY <1>2, <3>1, <3>2 DEF ServedOK
  <2>3. \A tag \in Moving : tag[1] \in Repositories /\ tag[2] \in Releases
    BY VersionsAssumption
  <2> QED BY <2>1, <2>2, <2>3
<1> QED BY <1>1, <1>3 DEF VersionsInv, VersionShape, SeenOK, observationVars

\* Requests.
LEMMA InquiryMoves ==
  ASSUME VersionsInv, NEW c \in Clients, NEW q \in Inquiries, q.kind # "none" => q.target \in Releases,
         inquiry' = [inquiry EXCEPT ![c] = q], VersionRunsOK(versionRuns', assigned),
         UNCHANGED <<assigned, deployed, listing, upgradePlans, observationVars,
                     registry, digestCache, published>>
  PROVE  VersionsInv'
<1>1. inquiry \in [Clients -> Inquiries]
  BY DEF VersionsInv, VersionShape
<1>2. /\ inquiry' \in [Clients -> Inquiries]
      /\ \A d \in Clients : inquiry'[d].kind # "none" => inquiry'[d].target \in Releases
  BY <1>1 DEF VersionsInv, VersionShape
<1> QED BY <1>2 DEF VersionsInv, VersionShape, ServedOK, SeenOK, observationVars

LEMMA NoInquiryOK == NoInquiry \in Inquiries /\ NoInquiry.kind = "none"
BY DEF NoInquiry, Inquiries

LEMMA AskSteps ==
  ASSUME VersionsInv, filebeat \in BOOLEAN, NEW c \in Clients,
         \/ \E kind \in {"download", "upgrade"}, v \in Releases : Ask(c, kind, v)
         \/ Discover(c) \/ LaunchDownload(c)
  PROVE  VersionsInv'
<1>1. inquiry \in [Clients -> Inquiries] /\ VersionRunsOK(versionRuns, assigned) /\ assigned \in SUBSET Loads
  BY DEF VersionsInv, VersionShape
<1>2. CASE \E kind \in {"download", "upgrade"}, v \in Releases : Ask(c, kind, v)
  <2>1. PICK kind \in {"download", "upgrade"}, v \in Releases : Ask(c, kind, v)
    BY <1>2
  <2> DEFINE q == [kind |-> kind, target |-> v, loads |-> assigned, offered |-> {},
                  beats |-> filebeat, answered |-> FALSE]
  <2>2. q \in Inquiries /\ q.target = v
    BY <1>1 DEF Inquiries
  <2>3. inquiry' = [inquiry EXCEPT ![c] = q] /\ versionRuns' = versionRuns
        /\ UNCHANGED <<assigned, deployed, listing, upgradePlans, observationVars,
                       registry, digestCache, published>>
    BY <2>1 DEF Ask, registryVars
  <2> HIDE DEF q
  <2> QED BY <1>1, <2>2, <2>3, InquiryMoves
<1>3. CASE Discover(c)
  <2>1. /\ versionRuns' = versionRuns
        /\ UNCHANGED <<assigned, deployed, listing, upgradePlans, observationVars,
                       registry, digestCache, published>>
    BY <1>3 DEF Discover
  <2>2. CASE inquiry' = [inquiry EXCEPT ![c] = NoInquiry]
    BY <1>1, <2>1, <2>2, NoInquiryOK, InquiryMoves
  <2>3. CASE inquiry' # [inquiry EXCEPT ![c] = NoInquiry]
    <3>1. PICK T \in SUBSET Releases :
            inquiry' = [inquiry EXCEPT ![c].answered = TRUE, ![c].offered = T]
      BY <1>3, <2>3 DEF Discover, AvailableVersions
    <3>2. PICK q : q = [inquiry[c] EXCEPT !.answered = TRUE, !.offered = T]
      OBVIOUS
    <3>3. inquiry[c] \in Inquiries
      BY <1>1
    <3>4. q \in Inquiries /\ q.kind = inquiry[c].kind /\ q.target = inquiry[c].target
      BY ONLY <3>2, <3>3, T \in SUBSET Releases DEF Inquiries
    <3>5. inquiry' = [inquiry EXCEPT ![c] = q]
      BY <1>1, <3>1, <3>2
    <3>6. q.kind # "none" => q.target \in Releases
      BY <3>4 DEF VersionsInv, VersionShape
    <3> QED BY <1>1, <2>1, <3>4, <3>5, <3>6, InquiryMoves
  <2> QED BY <2>2, <2>3
<1>4. CASE LaunchDownload(c)
  <2>1. inquiry' = [inquiry EXCEPT ![c] = NoInquiry]
        /\ UNCHANGED <<assigned, deployed, listing, upgradePlans, observationVars,
                       registry, digestCache, published>>
    BY <1>4 DEF LaunchDownload, registryVars
  <2>2. inquiry[c].loads \in SUBSET Loads
    BY <1>1 DEF Inquiries
  <2>3. VersionRunsOK(versionRuns', assigned)
    <3>1. CASE versionRuns' = versionRuns
      BY <1>1, <3>1
    <3>2. CASE versionRuns' # versionRuns
      <4>1. Room /\ versionRuns' = Append(versionRuns, NewVersionRun("download", inquiry[c].loads))
        BY <1>4, <3>2 DEF LaunchDownload
      <4> QED BY <2>2, <4>1, LaunchOK DEF Begins
    <3> QED BY <3>1, <3>2
  <2> QED BY <2>1, <2>3, NoInquiryOK, InquiryMoves
<1> QED BY <1>2, <1>3, <1>4

\* A new plan is for the cluster as it is, on evidence, and outside of
\* maintenance.
PlansOK ==
  /\ \A m \in NewPlans :
       /\ DOMAIN m.images = assigned
       /\ \A a \in assigned : m.images[a] # NoImage
                              /\ <<RepositoryOf[a], m.release, m.images[a]>> \in published
  /\ NewPlans # {} => assigned \subseteq confirmed \cup mistaken /\ ~interrupted

LEMMA NoNewPlans ==
  ASSUME upgradePlans' = upgradePlans
  PROVE  PlansOK
<1>1. NewPlans = {}
  BY DEF NewPlans
<1> QED BY <1>1 DEF PlansOK

LEMMA DigestOK ==
  ASSUME VersionsInv, NEW p \in Repositories, NEW v \in Releases
  PROVE  /\ Digest(p, v) \in Images \cup {NoImage}
         /\ <<p, v, Digest(p, v)>> \in published
<1>1. /\ registry[p][v] \in Images \cup {NoImage} /\ digestCache[p][v] \in Images \cup {NoImage}
      /\ <<p, v, registry[p][v]>> \in published
      /\ digestCache[p][v] # NoImage => <<p, v, digestCache[p][v]>> \in published
  BY DEF VersionsInv, VersionShape, ServedOK, ImageTables
<1> QED BY <1>1 DEF Digest

LEMMA WithDigestsOK ==
  ASSUME VersionsInv, NEW P \in SUBSET Repositories, NEW v \in Releases
  PROVE  /\ WithDigests(P, v) \in ImageTables
         /\ \A q \in Repositories, w \in Releases :
              WithDigests(P, v)[q][w] # NoImage => <<q, w, WithDigests(P, v)[q][w]>> \in published
<1> DEFINE W == WithDigests(P, v)
<1>1. digestCache \in ImageTables /\ ServedOK
  BY DEF VersionsInv, VersionShape
<1>2. ASSUME NEW q \in Repositories
      PROVE  /\ W[q] \in [Releases -> Images \cup {NoImage}]
             /\ \A w \in Releases : W[q][w] # NoImage => <<q, w, W[q][w]>> \in published
  <2>1. digestCache[q] \in [Releases -> Images \cup {NoImage}]
    BY <1>1 DEF ImageTables
  <2>2. CASE q \in P
    <3>1. W[q] = [digestCache[q] EXCEPT ![v] = Digest(q, v)]
      BY <2>2 DEF WithDigests
    <3>2. Digest(q, v) \in Images \cup {NoImage} /\ <<q, v, Digest(q, v)>> \in published
      BY DigestOK
    <3> QED BY <1>1, <2>1, <3>1, <3>2 DEF ServedOK
  <2>3. CASE q \notin P
    <3>1. W[q] = digestCache[q]
      BY <2>3 DEF WithDigests
    <3> QED BY <1>1, <2>1, <3>1 DEF ServedOK
  <2> QED BY <2>2, <2>3
<1>3. W = [q \in Repositories |-> W[q]]
  BY DEF WithDigests
<1> HIDE DEF W
<1>4. W \in ImageTables
  BY <1>2, <1>3 DEF ImageTables
<1> QED BY <1>2, <1>4 DEF W

LEMMA PlanSteps ==
  ASSUME VersionsInv, NEW c \in Clients, PlanUpgrade(c)
  PROVE  VersionsInv' /\ PlansOK
<1> DEFINE v == inquiry[c].target
           needed == {RepositoryOf[a] : a \in assigned}
<1>1. /\ inquiry[c].kind = "upgrade" /\ inquiry' = [inquiry EXCEPT ![c] = NoInquiry]
      /\ UNCHANGED <<assigned, deployed, versionRuns, listing, observationVars,
                     registry, published>>
      /\ \/ /\ ~interrupted /\ UpgradePreflight(c, assigned)
            /\ \A p \in needed : Digest(p, v) # NoImage
            /\ upgradePlans' = upgradePlans \cup {Manifest(assigned, v)}
            /\ digestCache' = WithDigests(needed, v)
         \/ upgradePlans' = upgradePlans /\ digestCache' = digestCache
         \/ upgradePlans' = upgradePlans /\ \E P \in SUBSET needed : digestCache' = WithDigests(P, v)
  BY DEF PlanUpgrade, PlannedLoads, StillUndisturbed
<1>2. /\ v \in Releases /\ assigned \subseteq Loads /\ inquiry \in [Clients -> Inquiries]
      /\ registry \in ImageTables /\ digestCache \in ImageTables /\ SeenOK /\ ServedOK
  BY <1>1 DEF VersionsInv, VersionShape
<1>3. needed \in SUBSET Repositories
  BY <1>2, VersionsAssumption
<1> HIDE DEF v, needed
<1>4. digestCache' \in ImageTables /\ ServedOK'
  <2>1. CASE digestCache' = digestCache
    BY <1>1, <1>2, <2>1 DEF ServedOK
  <2>2. CASE \E P \in SUBSET needed : digestCache' = WithDigests(P, v)
    <3>1. PICK P \in SUBSET Repositories : digestCache' = WithDigests(P, v)
      BY <1>3, <2>2
    <3>2. /\ digestCache' \in ImageTables
          /\ \A q \in Repositories, w \in Releases :
               digestCache'[q][w] # NoImage => <<q, w, digestCache'[q][w]>> \in published
      BY <1>2, <3>1, WithDigestsOK
    <3> QED BY <1>1, <1>2, <3>2 DEF ServedOK
  <2> QED BY <1>1, <2>1, <2>2
<1>5. \A m \in upgradePlans' : m.release \in Releases /\ DOMAIN m.images \subseteq Loads
  <2>1. Manifest(assigned, v).release = v /\ DOMAIN Manifest(assigned, v).images = assigned
    BY DEF Manifest
  <2> QED BY <1>1, <1>2, <2>1 DEF VersionsInv, VersionShape
<1>6. /\ inquiry' \in [Clients -> Inquiries]
      /\ \A d \in Clients : inquiry'[d].kind # "none" => inquiry'[d].target \in Releases
  BY <1>1, <1>2, NoInquiryOK DEF VersionsInv, VersionShape
<1>7. VersionsInv'
  BY <1>1, <1>4, <1>5, <1>6 DEF VersionsInv, VersionShape, SeenOK, observationVars
<1>8. PlansOK
  <2>1. CASE upgradePlans' = upgradePlans
    BY <2>1, NoNewPlans
  <2>2. CASE /\ ~interrupted /\ UpgradePreflight(c, assigned)
             /\ \A p \in needed : Digest(p, v) # NoImage
             /\ upgradePlans' = upgradePlans \cup {Manifest(assigned, v)}
    <3>1. \A m \in NewPlans : m = Manifest(assigned, v)
      BY <2>2 DEF NewPlans
    <3>2. /\ Manifest(assigned, v).release = v
          /\ DOMAIN Manifest(assigned, v).images = assigned
          /\ \A a \in assigned : Manifest(assigned, v).images[a] = Digest(RepositoryOf[a], v)
      BY DEF Manifest
    <3>3. ASSUME NEW a \in assigned
          PROVE  /\ Digest(RepositoryOf[a], v) # NoImage
                 /\ <<RepositoryOf[a], v, Digest(RepositoryOf[a], v)>> \in published
      <4>1. RepositoryOf[a] \in needed /\ RepositoryOf[a] \in Repositories
        BY <1>3 DEF needed
      <4> QED BY <1>2, <2>2, <4>1, DigestOK
    <3>4. assigned \subseteq confirmed \cup mistaken
      BY <1>2, <2>2 DEF UpgradePreflight, UpgradeFits, SeenOK
    <3> QED BY <2>2, <3>1, <3>2, <3>3, <3>4 DEF PlansOK
  <2> QED BY <1>1, <2>1, <2>2
<1> QED BY <1>7, <1>8

LEMMA RestartVersions ==
  ASSUME VersionsInv, VersionsRestart
  PROVE  VersionsInv'
<1> DEFINE run == [kind |-> "past", todo |-> {}, cut |-> {}, phase |-> "ended"]
<1>1. /\ versionRuns' = [r \in DOMAIN versionRuns |-> EndRun(r)[r]]
      /\ inquiry' = [c \in Clients |-> NoInquiry] /\ listing' = Nothing
      /\ digestCache' = [p \in Repositories |-> [v \in Releases |-> NoImage]]
      /\ UNCHANGED <<assigned, deployed, upgradePlans, observationVars, registry, published>>
  BY DEF VersionsRestart
<1>2. versionRuns \in Seq(VersionRunRecords) /\ Len(versionRuns) <= MaxVersionRuns
  BY DEF VersionsInv, VersionRunsOK
<1>3. versionRuns' = [r \in DOMAIN versionRuns |-> run]
  BY <1>1, <1>2 DEF EndRun
<1>4. run \in VersionRunRecords /\ run.phase = "ended" /\ TodoOK(run, assigned)
  BY DEF VersionRunRecords, TodoOK
<1> HIDE DEF run
<1>5. /\ versionRuns' \in Seq(VersionRunRecords) /\ Len(versionRuns') = Len(versionRuns)
      /\ \A r \in DOMAIN versionRuns' : versionRuns'[r] = run
  BY <1>2, <1>3, <1>4
<1>6. VersionRunsOK(versionRuns', assigned)
  BY <1>2, <1>4, <1>5 DEF VersionRunsOK, RunsApart, ProbesOK
<1>7. digestCache' \in ImageTables /\ ServedOK'
  BY <1>1 DEF ImageTables, VersionsInv, VersionShape, ServedOK
<1>8. /\ inquiry' \in [Clients -> Inquiries]
      /\ \A c \in Clients : inquiry'[c].kind # "none" => inquiry'[c].target \in Releases
  BY <1>1, NoInquiryOK
<1> QED BY <1>1, <1>6, <1>7, <1>8 DEF VersionsInv, VersionShape, SeenOK, observationVars

LEMMA VersionsInitial ==
  ASSUME VersionsInit
  PROVE  VersionsInv
<1>1. VersionRunsOK(versionRuns, assigned)
  <2>1. versionRuns = << >> /\ MaxVersionRuns \in Nat
    BY VersionsAssumption DEF VersionsInit
  <2> QED BY <2>1 DEF VersionRunsOK, RunsApart, ProbesOK
<1>2. NoRow \in LoadRows /\ NoRow.running = FALSE /\ NoRow.age = "none"
  BY DEF NoRow, LoadRows
<1>3. SeenOK /\ seen \in [Loads -> LoadRows]
  BY <1>2 DEF VersionsInit, SeenOK
<1>4. registry \in ImageTables /\ digestCache \in ImageTables
  BY VersionsAssumption DEF VersionsInit, ImageTables
<1>5. ServedOK
  BY DEF VersionsInit, ServedOK
<1>6. deployed \in [Loads -> DeployedRows]
  <2>1. deployed = [a \in Loads |-> [release |-> FirstRelease, up |-> a \in FirstLoads]]
    BY DEF VersionsInit
  <2>2. ASSUME NEW a \in Loads
        PROVE  [release |-> FirstRelease, up |-> a \in FirstLoads] \in DeployedRows
    <3>1. FirstRelease \in Releases
      BY VersionsAssumption
    <3> QED BY <3>1 DEF DeployedRows
  <2> QED BY <2>1, <2>2
<1>7. /\ inquiry \in [Clients -> Inquiries]
      /\ \A c \in Clients : inquiry[c].kind # "none" => inquiry[c].target \in Releases
  BY NoInquiryOK DEF VersionsInit
<1>8. assigned \in SUBSET Loads /\ listing = Nothing /\ upgradePlans = {}
  BY VersionsAssumption DEF VersionsInit
<1> QED BY <1>1, <1>3, <1>4, <1>5, <1>6, <1>7, <1>8 DEF VersionsInv, VersionShape

LEMMA VersionsStep ==
  ASSUME VersionsInv, filebeat \in BOOLEAN, [VersionsNext]_versionVars
  PROVE  VersionsInv' /\ (PlansOK \/ UNCHANGED versionVars)
<1>1. ASSUME \/ RefreshVersions \/ \E enabled \in BOOLEAN : UpdateLogMonitoring(enabled)
           \/ \E a \in Loads : LaunchBatch(a) \/ \E kind \in {"apply", "purge"} : LaunchDirect(a, kind)
      PROVE  VersionsInv' /\ PlansOK
  <2>1. upgradePlans' = upgradePlans
    BY <1>1 DEF RefreshVersions, LaunchBatch, LaunchDirect, UpdateLogMonitoring
  <2> QED BY <1>1, <2>1, LaunchSteps, NoNewPlans
<1>2. CASE CollectorRecordsVersions \/ \E a \in Loads : ObservationAges(a)
  <2>1. upgradePlans' = upgradePlans
    BY <1>2 DEF CollectorRecordsVersions, ObservationAges
  <2> QED BY <1>2, <2>1, CollectorSteps, NoNewPlans
<1>3. CASE MaintenanceBegins \/ MaintenanceEnds \/ CollectorLists
  <2>1. upgradePlans' = upgradePlans
    BY <1>3 DEF MaintenanceBegins, MaintenanceEnds, CollectorLists
  <2> QED BY <1>3, <2>1, RemoteSteps, NoNewPlans
<1>4. ASSUME NEW r \in DOMAIN versionRuns,
             \/ ProbeStep(r) \/ FilebeatStep(r) \/ DownloadStep(r) \/ ChangeFails(r)
             \/ \E v \in Releases : ChangeSucceeds(r, v)
      PROVE  VersionsInv' /\ PlansOK
  <2>1. upgradePlans' = upgradePlans
    BY <1>4 DEF ProbeStep, FilebeatStep, DownloadStep, ChangeFails, ChangeSucceeds
  <2> QED BY <1>4, <2>1, ProbeSteps, FilebeatSteps, EndSteps, ChangeSteps, NoNewPlans
<1>5. CASE \/ \E tag \in Moving, i \in Images \cup {NoImage} : Publish(tag[1], tag[2], i)
           \/ CachesExpire
  <2>1. upgradePlans' = upgradePlans
    BY <1>5 DEF Publish, CachesExpire
  <2> QED BY <1>5, <2>1, RegistrySteps, NoNewPlans
<1>6. ASSUME NEW c \in Clients,
             \/ \E kind \in {"download", "upgrade"}, v \in Releases : Ask(c, kind, v)
             \/ Discover(c) \/ LaunchDownload(c)
      PROVE  VersionsInv' /\ PlansOK
  <2>1. upgradePlans' = upgradePlans
    BY <1>6 DEF Ask, Discover, LaunchDownload
  <2> QED BY <1>6, <2>1, AskSteps, NoNewPlans
<1>7. CASE VersionsRestart
  <2>1. upgradePlans' = upgradePlans
    BY <1>7 DEF VersionsRestart
  <2> QED BY <1>7, <2>1, RestartVersions, NoNewPlans
<1>8. CASE UNCHANGED versionVars
  <2>1. VersionRunsOK(versionRuns', assigned)
        /\ UNCHANGED <<assigned, deployed, inquiry, listing, upgradePlans, observationVars, registryVars>>
    BY <1>8 DEF versionVars, VersionsInv
  <2> QED BY <1>8, <2>1, RunsMove
<1>9. CASE \E c \in Clients : PlanUpgrade(c)
  BY <1>9, PlanSteps
<1>10. ASSUME \E a \in Loads : Detach(a) \/ AddAssignment(a)
       PROVE  VersionsInv' /\ PlansOK
  <2>1. upgradePlans' = upgradePlans
    BY <1>10 DEF Detach, AddAssignment
  <2> QED BY <1>10, <2>1, RowEditSteps, NoNewPlans
<1>11. ASSUME NEW a \in Loads,
              \/ LaunchBatch(a) \/ Detach(a) \/ AddAssignment(a)
              \/ \E kind \in {"apply", "purge"} : LaunchDirect(a, kind)
       PROVE  VersionsInv' /\ PlansOK
  BY <1>1, <1>10, <1>11
<1> QED BY <1>1, <1>2, <1>3, <1>4, <1>5, <1>6, <1>7, <1>8, <1>9, <1>11 DEF VersionsNext

FlagOK == filebeat \in BOOLEAN

LEMMA FlagStep ==
  ASSUME FlagOK, [VersionsNext]_versionVars
  PROVE  FlagOK'
<1>1. ASSUME NEW enabled \in BOOLEAN, UpdateLogMonitoring(enabled)
      PROVE  FlagOK'
  BY <1>1 DEF UpdateLogMonitoring, FlagOK
<1>2. CASE ~\E enabled \in BOOLEAN : UpdateLogMonitoring(enabled)
  <2>1. filebeat' = filebeat
    BY <1>2 DEF VersionsNext, versionVars, RefreshVersions, CollectorLists, CollectorRecordsVersions,
                ObservationAges, MaintenanceBegins, MaintenanceEnds, LaunchBatch, Detach,
                AddAssignment, LaunchDirect, ProbeStep, FilebeatStep, DownloadStep, ChangeFails,
                ChangeSucceeds, Publish, CachesExpire, Ask, Discover, LaunchDownload, PlanUpgrade,
                VersionsRestart
  <2> QED BY <2>1 DEF FlagOK
<1> QED BY <1>1, <1>2 DEF FlagOK

\* An upgrade is planned only for the cluster as it is when the plan is stored,
\* whatever changed while the registry was asked; probes, companion runs and
\* batches do not begin beside other runs, and a run is lost only to a removal:
\* for every set of workloads, releases and requests, and any number of runs.
THEOREM VersionsHold == VersionsSpec => VersionsSafe
<1>1. VersionsInit => VersionsInv /\ FlagOK
  <2>1. VersionsInit => FlagOK
    <3>1. VersionsInit => filebeat = FALSE
      BY DEF VersionsInit
    <3> QED BY <3>1, Zenon DEF FlagOK
  <2> QED BY <2>1, VersionsInitial
<1>2. VersionsInv /\ FlagOK /\ [VersionsNext]_versionVars
        => VersionsInv' /\ FlagOK'
  BY VersionsStep, FlagStep DEF FlagOK
<1>3. VersionsSpec => [](VersionsInv /\ FlagOK)
  BY <1>1, <1>2, PTL DEF VersionsSpec
<1>4. VersionsInv => VersionsTypeOK /\ VersionRunsExclusive /\ LostToRemoval
  <2> SUFFICES ASSUME VersionsInv
               PROVE  VersionsTypeOK /\ VersionRunsExclusive /\ LostToRemoval
    OBVIOUS
  <2>1. VersionsTypeOK
    BY DEF VersionsInv, VersionShape, SeenOK, LoadRows, ImageTables, VersionRunsOK, VersionsTypeOK
  <2>2. VersionRunsExclusive /\ LostToRemoval
    BY DEF VersionsInv, VersionRunsOK, RunsApart, Begins, ProbesOK, TodoOK, VersionRunsExclusive,
           LostToRemoval
  <2> QED BY <2>1, <2>2
<1>5. VersionsInv /\ FlagOK /\ [VersionsNext]_versionVars => [PlansOK]_versionVars
  BY VersionsStep DEF FlagOK
<1>6. VersionsSpec => [][PlansOK]_versionVars
  BY <1>3, <1>5, PTL DEF VersionsSpec
<1>7. PlansOK => /\ \A m \in NewPlans :
                      /\ DOMAIN m.images = assigned
                      /\ \A a \in assigned :
                           m.images[a] # NoImage
                           /\ <<RepositoryOf[a], m.release, m.images[a]>> \in published
                 /\ NewPlans # {} => assigned \subseteq confirmed \cup mistaken
                 /\ NewPlans # {} => ~interrupted
  BY DEF PlansOK
<1>8. VersionsSpec => PlanPinsCluster /\ PlanHasEvidence /\ PlanOutsideMaintenance
  BY <1>6, <1>7, PTL DEF PlanPinsCluster, PlanHasEvidence, PlanOutsideMaintenance
<1> QED BY <1>3, <1>4, <1>8, PTL DEF VersionsSafe
=============================================================================
