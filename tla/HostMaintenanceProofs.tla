------------------------ MODULE HostMaintenanceProofs ------------------------
(***************************************************************************)
(* Proofs about the planned host workflow, for every set of plans, hosts,  *)
(* clusters, workloads and concurrent stage requests.                      *)
(*                                                                         *)
(* None of the properties is inductive: each rests on what the rows and    *)
(* the requests in flight know of each other.  WorkflowInv collects it.    *)
(* Since no two plans have one host, the rows, units and guards that a     *)
(* step of one plan touches are out of sight of every other plan, and      *)
(* since a stage leaves the host row in a state in which no other stage    *)
(* may begin, at most one request of a plan is at work.  LocalStep turns   *)
(* this into one frame argument; every action is then reduced to what it   *)
(* does to its own plan and its own request.                               *)
(*                                                                         *)
(* What the rows say of the units ends with the host's boot, from which on *)
(* they are systemd's.  RebootInv says how far the reboot of a plan may    *)
(* have come: it is not begun before the units are stopped, one request    *)
(* at a time writes it, and it is invoked once.                            *)
(***************************************************************************)
EXTENDS HostMaintenance, TLAPS

Preparing == {"capture", "activate"}
Returning == {"host-ready", "start", "ready", "restore", "verify", "cleanup"}
Working == Preparing \cup {"stop"} \cup Returning
Locked == {"stage", "invoke", "discover"}

RequestRecords ==
  [pc : PCs, plan : Plans \cup {NoPlan}, cur : Assignments \cup Clusters \cup {NoItem},
   todo : SUBSET (Assignments \cup Clusters), row : HostRows]

Row(s, w, p) == [state |-> s, workflow |-> w, plan |-> p]
At(w, p) == [workflow |-> w, plan |-> p]

HostRowsOf(p) ==
  {Row("planning", "preparing", p), Row("planning", "ready_to_stop", p),
   Row("planning", "stopping", p), Row("maintenance", "maintenance", p),
   Row("maintenance", "returning", p), Row("recovery_required", "recovery_required", p)}

Recovering(p) == Row("recovery_required", "recovery_required", p)

\* The host row of a plan and the assignment rows it speaks for.
PlanOK(p) ==
  /\ host[Target[p]] = Available \/ (host[Target[p]] \in HostRowsOf(p) /\ plan[p] # "ready")
  /\ host[Target[p]].workflow \in {"preparing", "ready_to_stop"} =>
       \A a \in Targets(p) : asg[a] = At("ready_to_stop", p)
  /\ host[Target[p]].workflow = "maintenance" =>
       \A a \in Targets(p) : asg[a] = At("maintenance", p)

\* One assignment row, its claim and its unit.
AsgOK(a) ==
  /\ claim[a] = asg[a].plan
  /\ asg[a].plan = NoPlan => asg[a].workflow = "available"
  /\ asg[a].plan # NoPlan => a \in Targets(asg[a].plan) /\ plan[asg[a].plan] # "ready"
  /\ ~Rebooted(HostOf[a]) =>
       /\ asg[a].workflow = "maintenance" => unit[a] = "stopped"
       /\ unit[a] = "stopped" =>
            /\ asg[a].plan # NoPlan
            /\ asg[a].workflow \in {"stopping", "maintenance", "returning", "recovery_required"}

PrepareOK(r) ==
  /\ r.cur \in Clusters /\ r.todo \subseteq Clusters
  /\ r.row = Row("planning", "preparing", r.plan)
  /\ host[Target[r.plan]] \in {r.row, Recovering(r.plan)}
  /\ r.pc = "activate" => guard[r.plan][r.cur].phase = "captured"

\* What was stopped before the current target is stopped, and its row says so
\* until recovery takes the rows over.
StopOK(r) ==
  /\ r.cur \in Targets(r.plan) /\ r.todo \subseteq Targets(r.plan) \ {r.cur}
  /\ r.row = Row("planning", "stopping", r.plan)
  /\ host[Target[r.plan]] \in {r.row, Recovering(r.plan)}
  /\ asg[r.cur] \in {At("stopping", r.plan), At("recovery_required", r.plan)}
  /\ \A b \in r.todo : StopRank(r.cur) <= StopRank(b)
  /\ \A b \in Targets(r.plan) \ (r.todo \cup {r.cur}) :
       /\ boot[r.plan] # "booted" => unit[b] = "stopped"
       /\ host[Target[r.plan]] = r.row => asg[b] = At("maintenance", r.plan)

\* What was started before the current target is running.  The host row may be
\* gone: a manual exit during the return closes the plan.
ReturnOK(r) ==
  /\ r.row = Row("maintenance", "returning", r.plan)
  /\ host[Target[r.plan]].workflow \in {"returning", "recovery_required", "available"}
  /\ r.pc \in {"host-ready", "ready"} =>
       /\ r.todo \subseteq Targets(r.plan)
       /\ \A b \in Targets(r.plan) \ r.todo : boot[r.plan] # "booted" => unit[b] = "running"
  /\ r.pc = "restore" => r.cur \in Clusters /\ r.todo \subseteq Clusters
  /\ r.pc = "start" =>
       /\ r.cur \in Targets(r.plan) /\ r.todo \subseteq Targets(r.plan) \ {r.cur}
       /\ asg[r.cur] \in {At("returning", r.plan), At("recovery_required", r.plan)}
       /\ \A b \in r.todo : StartRank(r.cur) <= StartRank(b)
       /\ \A b \in Targets(r.plan) \ (r.todo \cup {r.cur}) :
            boot[r.plan] # "booted" => unit[b] = "running"

\* A request in flight and the rows of its plan.
RequestOK(r) ==
  /\ r.pc = "idle" => r = Idle
  /\ r.pc # "idle" => r.plan \in Plans /\ plan[r.plan] # "ready"
  /\ r.pc \in Preparing => PrepareOK(r)
  /\ r.pc = "stop" => StopOK(r)
  /\ r.pc \in Returning => ReturnOK(r)
  /\ r.pc \in Locked => \A a \in Targets(r.plan) : asg[a] = At("maintenance", r.plan)

ReqOK(t) == RequestOK(req[t])

OneWorker ==
  \A t, u \in Requests :
    req[t].pc \in Working /\ req[u].pc \in Working /\ req[t].plan = req[u].plan => t = u

\* Hosts that no plan is for.
FreeHosts == \A h \in Hosts : (\A p \in Plans : Target[p] # h) => host[h] = Available

WorkflowInv ==
  /\ TypeOK
  /\ FreeHosts
  /\ \A p \in Plans : PlanOK(p)
  /\ \A a \in Assignments : AsgOK(a)
  /\ DependentsStopFirst
  /\ GuardRecorded
  /\ CapturedIsOriginal
  /\ \A t \in Requests : ReqOK(t)
  /\ OneWorker

\* How far a plan's reboot may have come.  Before the units are stopped there is
\* none, and the return that was verified found every unit running.
BootOK(p) ==
  /\ plan[p] = "ready" => boot[p] = "none"
  /\ host[Target[p]].workflow \in {"preparing", "ready_to_stop", "stopping"} =>
       boot[p] = "none"
  /\ booted[p] => boot[p] = "booted" /\ \A a \in Targets(p) : unit[a] = "running"

RebootOK(r) ==
  /\ r.pc \in Preparing \cup {"stop"} => boot[r.plan] = "none"
  /\ r.pc \in Locked => host[Target[r.plan]].workflow = "maintenance"
  /\ r.pc = "invoke" => boot[r.plan] = "staged"

\* At most one request has the write transaction.
OneWriter ==
  \A t, u \in Requests : req[t].pc \in Locked /\ req[u].pc \in Locked => t = u

RebootInv ==
  /\ OneWriter
  /\ \A p \in Plans : BootOK(p)
  /\ \A t \in Requests : RebootOK(req[t])

-----------------------------------------------------------------------------
\* Facts about the operators

\* The targets of two plans are apart: no two plans have one host.
LEMMA TargetsApart ==
  ASSUME NEW p \in Plans, NEW q \in Plans, NEW a \in Targets(p), a \in Targets(q)
  PROVE  p = q
BY TopologyAssumption DEF Targets

\* Every plan has a target, and its targets are workloads.
LEMMA TargetsExist ==
  ASSUME NEW p \in Plans
  PROVE  /\ Targets(p) \subseteq Assignments /\ Targets(p) # {}
         /\ DataClusters(p) \subseteq Clusters /\ Target[p] \in Hosts
         /\ p # NoPlan
BY TopologyAssumption DEF Targets, DataClusters

\* Whether its host was rebooted is for a target a matter of its plan only.
LEMMA RebootedTarget ==
  ASSUME NEW p \in Plans, NEW a \in Targets(p)
  PROVE  /\ Rebooted(HostOf[a]) <=> boot[p] = "booted"
         /\ Rebooted(HostOf[a])' <=> boot'[p] = "booted"
BY TopologyAssumption DEF Rebooted, Targets

\* A dependent is stopped before, and started after, what it depends on: the
\* priorities of host_maintenance.py respect the layers of the stack.
LEMMA Ranks ==
  ASSUME NEW a, NEW b, <<Role[a], Role[b]>> \in Above
  PROVE  /\ StopRank(a) < StopRank(b)
         /\ StartRank(b) < StartRank(a)
BY DEF Above, StopRank, StartRank, Agents, Services, Stateless, DataTiers

\* A rank is an integer.
LEMMA RankType ==
  ASSUME NEW a
  PROVE  StopRank(a) \in Int /\ StartRank(a) \in Int
BY DEF StopRank, StartRank

-----------------------------------------------------------------------------
\* What a step of plan p and request t leaves alone

\* The rows, units and guards of the other plans.
Elsewhere(p) ==
  /\ \A q \in Plans \ {p} : plan'[q] = plan[q] /\ guard'[q] = guard[q] /\ boot'[q] = boot[q]
  /\ \A h \in Hosts \ {Target[p]} : host'[h] = host[h]
  /\ \A a \in Assignments \ Targets(p) :
       asg'[a] = asg[a] /\ claim'[a] = claim[a] /\ unit'[a] = unit[a]

OtherRequests(t) == \A u \in Requests \ {t} : req'[u] = req[u]

Layered(p) ==
  boot[p] # "booted" => \A a, b \in Targets(p) :
    <<Role[a], Role[b]>> \in Above /\ unit[b] = "stopped" => unit[a] = "stopped"

\* A step of plan p reboots no host but its own.
LEMMA RebootedElsewhere ==
  ASSUME NEW p \in Plans, Elsewhere(p), NEW a \in Assignments \ Targets(p)
  PROVE  Rebooted(HostOf[a])' <=> Rebooted(HostOf[a])
BY TopologyAssumption DEF Rebooted, Targets, Elsewhere

\* No host boots.
SameBoots == \A p \in Plans : boot'[p] = "booted" <=> boot[p] = "booted"

\* A step that leaves the reboots alone.
LEMMA RebootedSame ==
  ASSUME UNCHANGED boot, NEW h
  PROVE  Rebooted(h)' <=> Rebooted(h)
BY DEF Rebooted

\* The stack order of one host is a matter of its units.
LEMMA LayeredKept ==
  ASSUME WorkflowInv, NEW p \in Plans, boot'[p] = boot[p],
         \A a \in Targets(p) : unit'[a] = unit[a]
  PROVE  Layered(p)' /\ Layered(p)
<1>1. Layered(p)
  BY RebootedTarget, TargetsExist DEF Layered, WorkflowInv, DependentsStopFirst, Targets
<1> QED BY <1>1 DEF Layered

\* A request of another plan does not see the step.
LEMMA RequestFrame ==
  ASSUME NEW p \in Plans, Elsewhere(p), NEW r, RequestOK(r), r.plan # p
  PROVE  RequestOK(r)'
<1>1. CASE r.pc = "idle"
  BY <1>1 DEF RequestOK, Preparing, Returning, Locked
<1>2. CASE r.pc # "idle"
  <2>1. r.plan \in Plans
    BY <1>2 DEF RequestOK, Locked
  <2>2. /\ plan'[r.plan] = plan[r.plan] /\ guard'[r.plan] = guard[r.plan]
        /\ host'[Target[r.plan]] = host[Target[r.plan]] /\ boot'[r.plan] = boot[r.plan]
    BY <2>1, TopologyAssumption DEF Elsewhere
  <2>3. \A a \in Targets(r.plan) : asg'[a] = asg[a] /\ unit'[a] = unit[a]
    BY <2>1, TargetsApart, TargetsExist DEF Elsewhere
  <2>4. PrepareOK(r) => PrepareOK(r)'
    BY <2>2 DEF PrepareOK
  <2>5. StopOK(r) => StopOK(r)'
    BY <2>2, <2>3 DEF StopOK
  <2>6. ReturnOK(r) => ReturnOK(r)'
    BY <2>2, <2>3 DEF ReturnOK
  <2> QED BY <1>2, <2>1, <2>2, <2>3, <2>4, <2>5, <2>6 DEF RequestOK, Locked
<1> QED BY <1>1, <1>2

\* The frame argument: a step of plan p and request t that keeps the parts of
\* p and t keeps the whole invariant.
LEMMA LocalStep ==
  ASSUME WorkflowInv, NEW p \in Plans, NEW t \in Requests,
         TypeOK', Elsewhere(p), OtherRequests(t),
         PlanOK(p)', \A a \in Targets(p) : AsgOK(a)', Layered(p)',
         GuardRecorded', CapturedIsOriginal', ReqOK(t)',
         \A u \in Requests \ {t} : req[u].plan = p => ReqOK(u)',
         req'[t].pc \in Working =>
           \A u \in Requests \ {t} : req[u].pc \in Working => req[u].plan # req'[t].plan
  PROVE  WorkflowInv'
<1>1. FreeHosts'
  BY TargetsExist DEF WorkflowInv, FreeHosts, Elsewhere
<1>2. ASSUME NEW q \in Plans PROVE PlanOK(q)'
  <2>1. CASE q = p
    BY <2>1
  <2>2. CASE q # p
    <3>1. /\ plan'[q] = plan[q] /\ host'[Target[q]] = host[Target[q]]
          /\ \A a \in Targets(q) : asg'[a] = asg[a]
      BY <2>2, TargetsApart, TargetsExist, TopologyAssumption DEF Elsewhere
    <3> QED BY <3>1 DEF WorkflowInv, PlanOK
  <2> QED BY <2>1, <2>2
<1>3. ASSUME NEW a \in Assignments PROVE AsgOK(a)'
  <2>1. CASE a \in Targets(p)
    BY <2>1
  <2>2. CASE a \notin Targets(p)
    <3>1. asg'[a] = asg[a] /\ claim'[a] = claim[a] /\ unit'[a] = unit[a]
      BY <2>2 DEF Elsewhere
    <3>2. asg[a].plan # NoPlan => asg[a].plan \in Plans \ {p}
      BY <2>2 DEF WorkflowInv, AsgOK, TypeOK, Rebooted
    <3> QED BY <2>2, <3>1, <3>2, RebootedElsewhere DEF WorkflowInv, AsgOK, Elsewhere
  <2> QED BY <2>1, <2>2
<1>4. DependentsStopFirst'
  <2> SUFFICES ASSUME NEW a \in Assignments, NEW b \in Assignments,
                      HostOf[a] = HostOf[b], <<Role[a], Role[b]>> \in Above,
                      unit'[b] = "stopped", ~Rebooted(HostOf[a])'
               PROVE  unit'[a] = "stopped"
    BY DEF DependentsStopFirst
  <2>1. a \in Targets(p) <=> b \in Targets(p)
    BY DEF Targets
  <2>2. CASE a \in Targets(p)
    BY <2>1, <2>2, RebootedTarget DEF Layered
  <2>3. CASE a \notin Targets(p)
    BY <2>1, <2>3, RebootedElsewhere DEF Elsewhere, WorkflowInv, DependentsStopFirst
  <2> QED BY <2>2, <2>3
<1>5. ASSUME NEW u \in Requests PROVE ReqOK(u)'
  <2>1. CASE u = t \/ req[u].plan = p
    BY <2>1
  <2>2. CASE u # t /\ req[u].plan # p
    <3>1. req'[u] = req[u] /\ RequestOK(req[u])
      BY <2>2 DEF OtherRequests, WorkflowInv, ReqOK
    <3>2. PICK r : r = req[u]
      OBVIOUS
    <3>3. RequestOK(r)'
      BY <2>2, <3>1, <3>2, RequestFrame
    <3> QED BY <3>1, <3>2, <3>3 DEF ReqOK
  <2> QED BY <2>1, <2>2
<1>6. OneWorker'
  BY DEF OneWorker, WorkflowInv, OtherRequests
<1> QED BY <1>1, <1>2, <1>3, <1>4, <1>5, <1>6 DEF WorkflowInv

\* Of the other requests of a plan with a worker, none is at work.
LEMMA Bystanders ==
  ASSUME WorkflowInv, NEW t \in Requests, req[t].pc \in Working,
         NEW u \in Requests \ {t}, req[u].plan = req[t].plan
  PROVE  req[u].pc \in {"boot-id"} \cup Locked
<1>1. req[u].pc \notin Working
  BY DEF WorkflowInv, OneWorker
<1>2. req[t].plan \in Plans /\ ReqOK(u) /\ req[u].pc \in PCs
  BY DEF WorkflowInv, ReqOK, RequestOK, TypeOK, Working, Preparing, Returning, Locked
<1>3. req[u].pc # "idle"
  BY <1>2, TargetsExist DEF ReqOK, RequestOK, Idle, Locked
<1> QED BY <1>1, <1>2, <1>3 DEF Working, Preparing, Returning, PCs, Locked

\* A bystander does not see a step under which no reboot is in flight.
LEMMA BystanderOK ==
  ASSUME NEW u \in Requests, req[u].pc \in {"boot-id"} \cup Locked, ReqOK(u), ~WriteLocked,
         req'[u] = req[u], plan'[req[u].plan] # "ready"
  PROVE  ReqOK(u)'
BY DEF ReqOK, RequestOK, WriteLocked, Preparing, Returning, Locked

\* A committing step of the worker of plan p.
LEMMA WorkerStep ==
  ASSUME WorkflowInv, NEW t \in Requests, req[t].pc \in Working,
         NEW p \in Plans, p = req[t].plan, ~WriteLocked,
         TypeOK', Elsewhere(p), OtherRequests(t),
         PlanOK(p)', \A a \in Targets(p) : AsgOK(a)', Layered(p)',
         GuardRecorded', CapturedIsOriginal', plan'[p] # "ready", ReqOK(t)',
         req'[t].pc \in Working => req'[t].plan = p
  PROVE  WorkflowInv'
<1>1. ASSUME NEW u \in Requests \ {t}, req[u].plan = p
      PROVE  ReqOK(u)'
  <2>1. req[u].pc \in {"boot-id"} \cup Locked /\ ReqOK(u) /\ req'[u] = req[u]
    BY <1>1, Bystanders DEF WorkflowInv, OtherRequests
  <2> QED BY <1>1, <2>1, BystanderOK
<1>2. ASSUME req'[t].pc \in Working, NEW u \in Requests \ {t}, req[u].pc \in Working
      PROVE  req[u].plan # req'[t].plan
  BY <1>2 DEF WorkflowInv, OneWorker
<1> QED BY <1>1, <1>2, LocalStep

\* No request is a request.
LEMMA IdleType == Idle \in RequestRecords
BY DEF Idle, RequestRecords, PCs, HostRows, Available, HostMaintenanceState,
       MaintenanceWorkflowState

\* A step that touches no row the invariant speaks of, no guard and no unit,
\* and boots nothing.
LEMMA BootlessStep ==
  ASSUME WorkflowInv, UNCHANGED <<plan, host, asg, claim, guard, unit>>, SameBoots,
         TypeOK', GuardRecorded',
         \A u \in Requests :
           \/ req'[u] = req[u]
           \/ /\ ReqOK(u)'
              /\ req'[u].pc \in Working => req[u].pc \in Working /\ req'[u].plan = req[u].plan
  PROVE  WorkflowInv'
<1>0. \A h \in Hosts : Rebooted(h)' <=> Rebooted(h)
  BY DEF Rebooted, SameBoots
<1>1. FreeHosts' /\ DependentsStopFirst' /\ CapturedIsOriginal'
  BY <1>0, TopologyAssumption DEF WorkflowInv, FreeHosts, DependentsStopFirst, CapturedIsOriginal
<1>2. ASSUME NEW p \in Plans PROVE PlanOK(p)'
  BY DEF WorkflowInv, PlanOK
<1>3. ASSUME NEW a \in Assignments PROVE AsgOK(a)'
  BY <1>0, TopologyAssumption DEF WorkflowInv, AsgOK
<1>4. ASSUME NEW r, RequestOK(r) PROVE RequestOK(r)'
  <2>0. r.pc # "idle" => r.plan \in Plans
    BY <1>4 DEF RequestOK
  <2>1. PrepareOK(r) => PrepareOK(r)'
    BY DEF PrepareOK
  <2>2. StopOK(r) /\ r.pc # "idle" => StopOK(r)'
    BY <2>0 DEF StopOK, SameBoots
  <2>3. ReturnOK(r) /\ r.pc # "idle" => ReturnOK(r)'
    BY <2>0 DEF ReturnOK, SameBoots
  <2> QED BY <1>4, <2>1, <2>2, <2>3 DEF RequestOK, Preparing, Returning
<1>5. ASSUME NEW u \in Requests PROVE ReqOK(u)'
  <2>1. CASE req'[u] = req[u]
    <3>1. RequestOK(req[u])
      BY DEF WorkflowInv, ReqOK
    <3>2. PICK r : r = req[u]
      OBVIOUS
    <3>3. RequestOK(r)'
      BY <1>4, <3>1, <3>2
    <3> QED BY <2>1, <3>2, <3>3 DEF ReqOK
  <2> QED BY <2>1
<1>6. OneWorker'
  <2> SUFFICES ASSUME NEW t \in Requests, NEW u \in Requests, req'[t].pc \in Working,
                      req'[u].pc \in Working, req'[t].plan = req'[u].plan
               PROVE  t = u
    BY DEF OneWorker
  <2>1. /\ req[t].pc \in Working /\ req'[t].plan = req[t].plan
        /\ req[u].pc \in Working /\ req'[u].plan = req[u].plan
    OBVIOUS
  <2> QED BY <2>1 DEF WorkflowInv, OneWorker
<1> QED BY <1>1, <1>2, <1>3, <1>5, <1>6 DEF WorkflowInv

\* The same, for a step that leaves the reboots alone.
LEMMA QuietStep ==
  ASSUME WorkflowInv, UNCHANGED <<plan, host, asg, claim, guard, boot, unit>>, TypeOK', GuardRecorded',
         \A u \in Requests :
           \/ req'[u] = req[u]
           \/ /\ ReqOK(u)'
              /\ req'[u].pc \in Working => req[u].pc \in Working /\ req'[u].plan = req[u].plan
  PROVE  WorkflowInv'
<1>1. SameBoots
  BY DEF SameBoots
<1> QED BY <1>1, BootlessStep

\* The request ends.
LEMMA DoneFacts ==
  ASSUME TypeOK, NEW t \in Requests, Done(t)
  PROVE  /\ req' \in [Requests -> RequestRecords]
         /\ OtherRequests(t)
         /\ req'[t] = Idle /\ ReqOK(t)' /\ req'[t].pc \notin Working
<1>1. req' \in [Requests -> RequestRecords] /\ req'[t] = Idle /\ OtherRequests(t)
  BY IdleType DEF TypeOK, RequestRecords, Done, OtherRequests
<1> QED BY <1>1 DEF ReqOK, RequestOK, Idle, Working, Preparing, Returning, Locked

\* A failed stage whose call did not touch a unit.
LEMMA AbortStep ==
  ASSUME WorkflowInv, NEW t \in Requests, Abort(t), UNCHANGED <<boot, unit>>,
         alloc' \in [Clusters -> {"all", "primaries"}], GuardRecorded'
  PROVE  WorkflowInv'
<1>1. UNCHANGED <<plan, lock, host, asg, claim, guard, booted, boot, unit>> /\ Done(t)
  BY DEF Abort, rows, Done
<1>2. /\ req' \in [Requests -> RequestRecords] /\ OtherRequests(t)
      /\ ReqOK(t)' /\ req'[t].pc \notin Working
  BY <1>1, DoneFacts DEF WorkflowInv
<1>3. TypeOK'
  BY <1>1, <1>2 DEF WorkflowInv, TypeOK, RequestRecords
<1> QED BY <1>1, <1>2, <1>3, QuietStep DEF OtherRequests

-----------------------------------------------------------------------------
\* prepare

\* Taking the locks, rows and claims of a ready plan keeps the invariant: nobody
\* works for a plan that is ready, and what it claims is running.
LEMMA BeginPrepareStep ==
  ASSUME WorkflowInv, NEW t \in Requests, NEW p \in Plans, BeginPrepare(t, p)
  PROVE  WorkflowInv'
<1> DEFINE row == Row("planning", "preparing", p)
<1>1. /\ req[t] = Idle /\ plan[p] = "ready"
      /\ \A a \in Targets(p) : asg[a].workflow = "available" /\ claim[a] = NoPlan
      /\ plan' = [plan EXCEPT ![p] = "executing"]
      /\ lock' = [lock EXCEPT ![p] = "live"]
      /\ asg' = [a \in Assignments |-> IF a \in Targets(p) THEN At("ready_to_stop", p)
                                       ELSE asg[a]]
      /\ claim' = [a \in Assignments |-> IF a \in Targets(p) THEN p ELSE claim[a]]
      /\ UNCHANGED <<guard, booted, boot, unit, alloc>>
  BY DEF BeginPrepare, At, remote
<1>2. \/ /\ host' = [host EXCEPT ![Target[p]] = Row("planning", "ready_to_stop", p)]
         /\ UNCHANGED req
      \/ /\ host' = [host EXCEPT ![Target[p]] = row]
         /\ \E c \in DataClusters(p) :
              req' = [req EXCEPT ![t] = [pc |-> "capture", plan |-> p, cur |-> c,
                                         todo |-> DataClusters(p) \ {c}, row |-> row]]
  BY DEF BeginPrepare, Begin, Row
<1>3. /\ Targets(p) \subseteq Assignments /\ DataClusters(p) \subseteq Clusters
      /\ Target[p] \in Hosts /\ p # NoPlan
  BY TargetsExist
<1>4. row \in HostRows /\ Row("planning", "ready_to_stop", p) \in HostRows
  BY DEF Row, HostRows, HostMaintenanceState, MaintenanceWorkflowState
<1>5. TypeOK'
  <2>1. req' \in [Requests -> RequestRecords]
    <3>1. req \in [Requests -> RequestRecords]
      BY DEF WorkflowInv, TypeOK, RequestRecords
    <3>2. ASSUME NEW c \in DataClusters(p)
          PROVE  [pc |-> "capture", plan |-> p, cur |-> c, todo |-> DataClusters(p) \ {c},
                  row |-> row] \in RequestRecords
      BY <1>3, <1>4 DEF RequestRecords, PCs
    <3> HIDE DEF row
    <3> QED BY <1>2, <3>1, <3>2
  <2>2. host' \in [Hosts -> HostRows]
    BY <1>2, <1>3, <1>4 DEF WorkflowInv, TypeOK
  <2>3. /\ plan' \in [Plans -> {"ready", "executing", "recovery_required", "succeeded"}]
        /\ lock' \in [Plans -> {"none", "live", "stale"}]
        /\ asg' \in [Assignments -> [workflow : MaintenanceWorkflowState,
                                     plan : Plans \cup {NoPlan}]]
        /\ claim' \in [Assignments -> Plans \cup {NoPlan}]
    BY <1>1, <1>3 DEF WorkflowInv, TypeOK, At, MaintenanceWorkflowState
  <2> QED BY <1>1, <2>1, <2>2, <2>3 DEF WorkflowInv, TypeOK, RequestRecords
<1>6. Elsewhere(p) /\ OtherRequests(t)
  BY <1>1, <1>2 DEF Elsewhere, OtherRequests, WorkflowInv, TypeOK
<1>7. PlanOK(p)'
  <2>1. host'[Target[p]] \in {row, Row("planning", "ready_to_stop", p)}
    BY <1>2, <1>3 DEF WorkflowInv, TypeOK
  <2>2. plan'[p] # "ready" /\ \A a \in Targets(p) : asg'[a] = At("ready_to_stop", p)
    BY <1>1, <1>3 DEF WorkflowInv, TypeOK
  <2> QED BY <2>1, <2>2 DEF PlanOK, HostRowsOf, Row
<1>8. ASSUME NEW a \in Targets(p)
      PROVE  AsgOK(a)' /\ (boot'[p] # "booted" => unit'[a] # "stopped")
  <2>1. asg'[a] = At("ready_to_stop", p) /\ claim'[a] = p /\ unit'[a] = unit[a]
    BY <1>1, <1>3
  <2>2. Rebooted(HostOf[a])' <=> Rebooted(HostOf[a])
    BY <1>1, RebootedSame
  <2>4. ~Rebooted(HostOf[a]) => unit[a] # "stopped"
    BY <1>1, <1>3 DEF WorkflowInv, AsgOK
  <2>3. plan'[p] # "ready"
    BY <1>1 DEF WorkflowInv, TypeOK
  <2> QED BY <1>3, <2>1, <2>2, <2>3, <2>4, RebootedTarget DEF AsgOK, At
<1>9. Layered(p)' /\ GuardRecorded' /\ CapturedIsOriginal'
  BY <1>1, <1>8 DEF Layered, WorkflowInv, GuardRecorded, CapturedIsOriginal
<1>10. ASSUME NEW u \in Requests, req[u].plan = p PROVE FALSE
  BY <1>1, <1>3, <1>10 DEF WorkflowInv, ReqOK, RequestOK, Idle, Locked
<1>11. ReqOK(t)'
  <2>1. CASE req' = req
    BY <1>1, <2>1 DEF ReqOK, RequestOK, Idle, Preparing, Returning, Locked
  <2>2. ASSUME NEW c \in DataClusters(p), host' = [host EXCEPT ![Target[p]] = row],
               req' = [req EXCEPT ![t] = [pc |-> "capture", plan |-> p, cur |-> c,
                                         todo |-> DataClusters(p) \ {c}, row |-> row]]
        PROVE ReqOK(t)'
    <3>1. /\ req'[t] = [pc |-> "capture", plan |-> p, cur |-> c,
                        todo |-> DataClusters(p) \ {c}, row |-> row]
          /\ host'[Target[p]] = row /\ plan'[p] # "ready"
      BY <1>1, <1>3, <2>2 DEF WorkflowInv, TypeOK
    <3> HIDE DEF row
    <3>2. PrepareOK(req[t])'
      BY <1>3, <3>1 DEF PrepareOK, row
    <3> QED BY <3>1, <3>2 DEF ReqOK, RequestOK, Returning, Locked
  <2> QED BY <1>2, <2>1, <2>2
<1>12. req'[t].pc \in Working => req'[t].plan = p
  <2>1. req' = req => req'[t].pc \notin Working
    BY <1>1 DEF Idle, Working, Preparing, Returning, Locked
  <2> QED BY <1>2, <2>1 DEF WorkflowInv, TypeOK
<1> QED BY <1>5, <1>6, <1>7, <1>8, <1>9, <1>10, <1>11, <1>12, LocalStep

\* The request goes on to its next await.
LEMMA AwaitFacts ==
  ASSUME TypeOK, NEW t \in Requests, NEW pc \in PCs,
         NEW cur \in Assignments \cup Clusters \cup {NoItem},
         NEW todo \in SUBSET (Assignments \cup Clusters), Await(t, pc, cur, todo)
  PROVE  /\ req' \in [Requests -> RequestRecords]
         /\ OtherRequests(t)
         /\ req'[t].pc = pc /\ req'[t].cur = cur /\ req'[t].todo = todo
         /\ req'[t].plan = req[t].plan /\ req'[t].row = req[t].row
<1>1. req \in [Requests -> RequestRecords]
  BY DEF TypeOK, RequestRecords
<1>2. /\ req[t] \in RequestRecords
      /\ req' = [req EXCEPT ![t] = [req[t] EXCEPT !.pc = pc, !.cur = cur, !.todo = todo]]
  BY <1>1 DEF Await, RequestRecords
<1>3. [req[t] EXCEPT !.pc = pc, !.cur = cur, !.todo = todo] \in RequestRecords
  BY <1>2 DEF RequestRecords
<1>4. req' \in [Requests -> RequestRecords] /\ OtherRequests(t)
  BY <1>1, <1>2, <1>3 DEF OtherRequests
<1>5. req'[t] = [req[t] EXCEPT !.pc = pc, !.cur = cur, !.todo = todo]
  BY <1>1, <1>2
<1> QED BY <1>2, <1>4, <1>5 DEF RequestRecords

\* A committing step of the worker that writes no row but a guard of its plan.
LEMMA WorkerGuardStep ==
  ASSUME WorkflowInv, NEW t \in Requests, req[t].pc \in Working, req'[t].plan = req[t].plan,
         ~WriteLocked, UNCHANGED <<plan, lock, host, asg, claim, booted, boot, unit>>,
         NEW c \in Clusters, NEW g \in [phase : GuardPhases \cup {"none"}, before : {"all"}],
         guard' = [guard EXCEPT ![req[t].plan][c] = g],
         NEW v \in {"all", "primaries"}, alloc' = [alloc EXCEPT ![c] = v],
         v = "primaries" => g.phase \in GuardPhases \ {"restored"},
         req' \in [Requests -> RequestRecords], OtherRequests(t), ReqOK(t)'
  PROVE  WorkflowInv'
<1>1. PICK p \in Plans : p = req[t].plan
  BY DEF WorkflowInv, ReqOK, RequestOK, Working, Preparing, Returning, Locked
<1>2. /\ guard' \in [Plans -> [Clusters -> [phase : GuardPhases \cup {"none"},
                                           before : {"all", "primaries"}]]]
      /\ guard'[p][c] = g
      /\ \A q \in Plans, d \in Clusters : q # p \/ d # c => guard'[q][d] = guard[q][d]
      /\ \A q \in Plans \ {p} : guard'[q] = guard[q]
  BY <1>1 DEF WorkflowInv, TypeOK
<1>3. TypeOK'
  BY <1>2 DEF WorkflowInv, TypeOK, RequestRecords
<1>4. Elsewhere(p)
  BY <1>2 DEF Elsewhere
<1>5. PlanOK(p)' /\ (\A a \in Targets(p) : AsgOK(a)') /\ Layered(p)'
  BY TargetsExist, RebootedSame, LayeredKept DEF WorkflowInv, PlanOK, AsgOK
<1>6. GuardRecorded'
  <2> SUFFICES ASSUME NEW d \in Clusters, alloc'[d] = "primaries"
               PROVE  \E q \in Plans : guard'[q][d].phase \in GuardPhases \ {"restored"}
    BY DEF GuardRecorded
  <2>1. CASE d = c
    BY <1>2, <2>1 DEF WorkflowInv, TypeOK
  <2>2. CASE d # c
    BY <1>2, <2>2 DEF WorkflowInv, TypeOK, GuardRecorded
  <2> QED BY <2>1, <2>2
<1>7. CapturedIsOriginal'
  <2> SUFFICES ASSUME NEW q \in Plans, NEW d \in Clusters PROVE guard'[q][d].before = "all"
    BY DEF CapturedIsOriginal
  <2> QED BY <1>2 DEF WorkflowInv, CapturedIsOriginal
<1>8. plan'[p] # "ready"
  BY <1>1 DEF WorkflowInv, ReqOK, RequestOK, Working, Preparing, Returning, Locked
<1> QED BY <1>1, <1>3, <1>4, <1>5, <1>6, <1>7, <1>8, WorkerStep

\* What is known of the worker of a plan.
LEMMA WorkerFacts ==
  ASSUME WorkflowInv, NEW t \in Requests, req[t].pc # "idle"
  PROVE  /\ req[t].plan \in Plans /\ plan[req[t].plan] # "ready"
         /\ RequestOK(req[t]) /\ PlanOK(req[t].plan)
         /\ req[t] \in RequestRecords
BY DEF WorkflowInv, ReqOK, RequestOK, TypeOK, RequestRecords, Locked

\* What a guard captures is "all": where a restriction stands, a row that is not
\* restored keeps the capture out.
LEMMA CaptureStep ==
  ASSUME WorkflowInv, NEW t \in Requests, Capture(t)
  PROVE  WorkflowInv'
<1>1. PICK p, c : p = req[t].plan /\ c = req[t].cur
  OBVIOUS
<1>2. req[t].pc = "capture" /\ UNCHANGED <<boot, unit, alloc>>
  BY DEF Capture, remote
<1>3. p \in Plans /\ plan[p] # "ready" /\ PrepareOK(req[t]) /\ c \in Clusters
  BY <1>1, <1>2, WorkerFacts DEF RequestOK, Preparing, PrepareOK, Locked
<1>4. CASE Abort(t)
  <2>1. GuardRecorded' /\ alloc' \in [Clusters -> {"all", "primaries"}]
    BY <1>2, <1>4 DEF GuardRecorded, WorkflowInv, Abort, rows, TypeOK
  <2> QED BY <1>2, <1>4, <2>1, AbortStep
<1>5. CASE ~Abort(t)
  <2>1. /\ ~WriteLocked /\ CanCapture(p, c)
        /\ guard' = [guard EXCEPT ![p][c] = [phase |-> "captured", before |-> alloc[c]]]
        /\ Await(t, "activate", c, req[t].todo)
        /\ UNCHANGED <<plan, lock, host, asg, claim, booted>>
    BY <1>1, <1>5 DEF Capture
  <2>2. alloc[c] = "all"
    BY <1>3, <2>1 DEF WorkflowInv, TypeOK, GuardRecorded, CanCapture, GuardPhases
  <2> DEFINE g == [phase |-> "captured", before |-> "all"]
  <2>3. g \in [phase : GuardPhases \cup {"none"}, before : {"all"}] /\ g.phase = "captured"
    BY DEF GuardPhases
  <2>4. guard' = [guard EXCEPT ![p][c] = g] /\ guard'[p][c] = g
    BY <1>3, <2>1, <2>2 DEF WorkflowInv, TypeOK
  <2>5. alloc' = [alloc EXCEPT ![c] = "all"]
    BY <1>2, <1>3, <2>2 DEF WorkflowInv, TypeOK
  <2>6. /\ req' \in [Requests -> RequestRecords] /\ OtherRequests(t)
        /\ req'[t].pc = "activate" /\ req'[t].cur = c /\ req'[t].todo = req[t].todo
        /\ req'[t].plan = p /\ req'[t].row = req[t].row
    BY <1>1, <1>3, <2>1, AwaitFacts DEF PCs, PrepareOK, WorkflowInv
  <2> HIDE DEF g
  <2>7. ReqOK(t)'
    <3>1. PrepareOK(req[t])'
      BY <1>1, <1>3, <2>1, <2>3, <2>4, <2>6 DEF PrepareOK
    <3> QED BY <1>3, <2>1, <2>6, <3>1 DEF ReqOK, RequestOK, Returning, Locked
  <2>8. req[t].pc \in Working
    BY <1>2 DEF Working, Preparing, Locked
  <2> QED BY <1>1, <1>3, <2>1, <2>3, <2>4, <2>5, <2>6, <2>7, <2>8, <1>2, WorkerGuardStep
<1> QED BY <1>4, <1>5

\* Activating a guard keeps the invariant, whatever the cluster answers: every
\* result that leaves the restriction also leaves a row that is not restored,
\* and so does an answer that never arrives.
LEMMA ActivateStep ==
  ASSUME WorkflowInv, NEW t \in Requests, Activate(t)
  PROVE  WorkflowInv'
<1>1. PICK p, c : p = req[t].plan /\ c = req[t].cur
  OBVIOUS
<1>2. req[t].pc = "activate" /\ UNCHANGED <<boot, unit>> /\ req[t].pc \in Working
  BY DEF Activate, Working, Preparing, Locked
<1>3. /\ p \in Plans /\ plan[p] # "ready" /\ PrepareOK(req[t]) /\ c \in Clusters
      /\ Target[p] \in Hosts /\ req[t].todo \subseteq Clusters
      /\ guard[p][c].phase = "captured" /\ guard[p][c].before = "all"
  BY <1>1, <1>2, WorkerFacts, TargetsExist
     DEF RequestOK, Preparing, PrepareOK, WorkflowInv, CapturedIsOriginal, Locked
<1> DEFINE Lost == \E v \in {alloc[c], "primaries"} : alloc' = [alloc EXCEPT ![c] = v]
<1>4. CASE Abort(t) /\ Lost
  <2>1. UNCHANGED guard /\ Lost
    BY <1>4 DEF Abort, rows
  <2>2. GuardRecorded' /\ alloc' \in [Clusters -> {"all", "primaries"}]
    BY <1>3, <2>1 DEF GuardRecorded, GuardPhases, WorkflowInv, TypeOK
  <2> QED BY <1>2, <1>4, <2>2, AbortStep
<1>5. CASE ~(Abort(t) /\ Lost)
  <2>1. PICK r \in ActivateResults(guard[p][c].before) :
          /\ alloc' = [alloc EXCEPT ![c] = r.alloc]
          /\ guard' = [guard EXCEPT ![p][c].phase = r.phase]
    BY <1>1, <1>5 DEF Activate
  <2>2. /\ ~WriteLocked /\ UNCHANGED <<plan, lock, asg, claim, booted>>
        /\ \/ /\ \E d \in req[t].todo : Await(t, "capture", d, req[t].todo \ {d})
              /\ UNCHANGED host
           \/ /\ host[Target[p]] = req[t].row
              /\ host' = [host EXCEPT ![Target[p]].workflow = "ready_to_stop"]
              /\ Done(t)
    BY <1>1, <1>5 DEF Activate
  <2> DEFINE g == [guard[p][c] EXCEPT !.phase = r.phase]
  <2>3. /\ r.phase \in GuardPhases /\ r.alloc \in {"all", "primaries"}
        /\ r.alloc = "primaries" => r.phase \in GuardPhases \ {"restored"}
    BY <1>3, <2>1 DEF ActivateResults, GuardPhases
  <2>4. /\ g \in [phase : GuardPhases \cup {"none"}, before : {"all"}] /\ g.phase = r.phase
        /\ guard' = [guard EXCEPT ![p][c] = g]
    <3>1. guard[p][c] \in [phase : GuardPhases \cup {"none"}, before : {"all", "primaries"}]
      BY <1>3 DEF WorkflowInv, TypeOK
    <3> QED BY <1>3, <2>1, <2>3, <3>1
  <2> HIDE DEF g
  <2>5. CASE UNCHANGED host /\ \E d \in req[t].todo : Await(t, "capture", d, req[t].todo \ {d})
    <3>1. PICK d \in req[t].todo : Await(t, "capture", d, req[t].todo \ {d})
      BY <2>5
    <3>2. /\ req' \in [Requests -> RequestRecords] /\ OtherRequests(t)
          /\ req'[t].pc = "capture" /\ req'[t].cur = d /\ req'[t].todo = req[t].todo \ {d}
          /\ req'[t].plan = p /\ req'[t].row = req[t].row
      BY <1>1, <1>3, <3>1, AwaitFacts DEF PCs, WorkflowInv
    <3>3. ReqOK(t)'
      <4>1. PrepareOK(req[t])'
        BY <1>1, <1>3, <2>5, <3>1, <3>2 DEF PrepareOK
      <4> QED BY <1>3, <2>2, <3>2, <4>1 DEF ReqOK, RequestOK, Returning, Locked
    <3> QED BY <1>1, <1>2, <1>3, <2>1, <2>2, <2>3, <2>4, <2>5, <3>2, <3>3, WorkerGuardStep
  <2>6. CASE /\ host[Target[p]] = req[t].row
             /\ host' = [host EXCEPT ![Target[p]].workflow = "ready_to_stop"]
             /\ Done(t)
    <3>1. host[Target[p]] = Row("planning", "preparing", p)
      BY <1>1, <1>3, <2>6 DEF PrepareOK
    <3>2. /\ host' \in [Hosts -> HostRows]
          /\ host'[Target[p]] = Row("planning", "ready_to_stop", p)
          /\ \A h \in Hosts \ {Target[p]} : host'[h] = host[h]
      BY <1>3, <2>6, <3>1, SMTT(30) DEF WorkflowInv, TypeOK, Row, HostRows, MaintenanceWorkflowState
    <3>3. /\ req' \in [Requests -> RequestRecords] /\ OtherRequests(t)
          /\ ReqOK(t)' /\ req'[t].pc \notin Working
      BY <2>6, DoneFacts DEF WorkflowInv
    <3>4. /\ guard' \in [Plans -> [Clusters -> [phase : GuardPhases \cup {"none"},
                                               before : {"all", "primaries"}]]]
          /\ guard'[p][c] = g
          /\ \A q \in Plans, d \in Clusters : q # p \/ d # c => guard'[q][d] = guard[q][d]
          /\ \A q \in Plans \ {p} : guard'[q] = guard[q]
      BY <1>3, <2>4 DEF WorkflowInv, TypeOK
    <3>5. TypeOK'
      BY <1>2, <1>3, <2>1, <2>2, <2>3, <3>2, <3>3, <3>4 DEF WorkflowInv, TypeOK, RequestRecords
    <3>6. Elsewhere(p)
      BY <1>2, <2>2, <3>2, <3>4 DEF Elsewhere
    <3>7. PlanOK(p)'
      <4>1. \A a \in Targets(p) : asg'[a] = At("ready_to_stop", p)
        BY <1>3, <2>2, <3>1 DEF WorkflowInv, PlanOK, Row
      <4> QED BY <1>3, <2>2, <3>2, <4>1 DEF PlanOK, HostRowsOf, Row
    <3>8. (\A a \in Targets(p) : AsgOK(a)') /\ Layered(p)'
      BY <1>2, <1>3, <2>2, TargetsExist, RebootedSame, LayeredKept DEF WorkflowInv, AsgOK
    <3>9. GuardRecorded'
      <4> SUFFICES ASSUME NEW d \in Clusters, alloc'[d] = "primaries"
                   PROVE  \E q \in Plans : guard'[q][d].phase \in GuardPhases \ {"restored"}
        BY DEF GuardRecorded
      <4>1. CASE d = c
        BY <1>3, <2>1, <2>3, <2>4, <3>4, <4>1 DEF WorkflowInv, TypeOK
      <4>2. CASE d # c
        BY <1>3, <2>1, <3>4, <4>2 DEF WorkflowInv, TypeOK, GuardRecorded
      <4> QED BY <4>1, <4>2
    <3>10. CapturedIsOriginal'
      <4> SUFFICES ASSUME NEW q \in Plans, NEW d \in Clusters PROVE guard'[q][d].before = "all"
        BY DEF CapturedIsOriginal
      <4> QED BY <2>4, <3>4 DEF WorkflowInv, CapturedIsOriginal
    <3> QED BY <1>1, <1>2, <1>3, <2>2, <3>3, <3>5, <3>6, <3>7, <3>8, <3>9, <3>10, WorkerStep
  <2> QED BY <2>2, <2>5, <2>6
<1> QED BY <1>4, <1>5

-----------------------------------------------------------------------------
\* stop_workloads

\* A stage begins only where no other request of the plan is at work: every
\* worker keeps the host row out of the states a stage begins in.
LEMMA NoWorker ==
  ASSUME WorkflowInv, NEW p \in Plans,
         host[Target[p]].workflow \in {"ready_to_stop", "maintenance"},
         NEW u \in Requests, req[u].plan = p
  PROVE  req[u].pc \in {"boot-id"} \cup Locked
<1>1. req[u].pc # "idle" /\ req[u].pc \in PCs
  BY TargetsExist DEF WorkflowInv, ReqOK, RequestOK, Idle, TypeOK, Locked
<1>2. RequestOK(req[u])
  BY DEF WorkflowInv, ReqOK
<1>3. req[u].pc \notin Preparing
  BY <1>2 DEF RequestOK, PrepareOK, Row, Recovering, Locked
<1>4. req[u].pc # "stop"
  BY <1>2 DEF RequestOK, StopOK, Row, Recovering, Locked
<1>5. req[u].pc \notin Returning
  BY <1>2 DEF RequestOK, ReturnOK, Locked
<1> QED BY <1>1, <1>3, <1>4, <1>5 DEF PCs, Preparing, Returning, Locked

\* The first step of a stage of plan p.
LEMMA StageStep ==
  ASSUME WorkflowInv, NEW t \in Requests, NEW p \in Plans, ~WriteLocked,
         host[Target[p]].workflow \in {"ready_to_stop", "maintenance"},
         TypeOK', Elsewhere(p), OtherRequests(t),
         PlanOK(p)', \A a \in Targets(p) : AsgOK(a)', Layered(p)',
         GuardRecorded', CapturedIsOriginal', plan'[p] # "ready", ReqOK(t)',
         req'[t].pc \in Working => req'[t].plan = p
  PROVE  WorkflowInv'
<1>1. ASSUME NEW u \in Requests \ {t}, req[u].plan = p
      PROVE  ReqOK(u)' /\ req[u].pc \notin Working
  <2>1. req[u].pc \in {"boot-id"} \cup Locked /\ ReqOK(u) /\ req'[u] = req[u]
    BY <1>1, NoWorker DEF WorkflowInv, OtherRequests
  <2> QED BY <1>1, <2>1, BystanderOK DEF Working, Preparing, Returning, Locked
<1> QED BY <1>1, LocalStep

\* The record of a new request, and of its frame.
LEMMA BeginFacts ==
  ASSUME TypeOK, NEW t \in Requests, NEW p \in Plans, NEW pc \in PCs,
         NEW cur \in Assignments \cup Clusters \cup {NoItem},
         NEW todo \in SUBSET (Assignments \cup Clusters), NEW row \in HostRows,
         Begin(t, p, pc, cur, todo, row)
  PROVE  /\ req' \in [Requests -> RequestRecords]
         /\ OtherRequests(t)
         /\ req'[t].pc = pc /\ req'[t].cur = cur /\ req'[t].todo = todo
         /\ req'[t].plan = p /\ req'[t].row = row
<1>1. req \in [Requests -> RequestRecords]
  BY DEF TypeOK, RequestRecords
<1> DEFINE r == [pc |-> pc, plan |-> p, cur |-> cur, todo |-> todo, row |-> row]
<1>2. r \in RequestRecords
  BY DEF RequestRecords
<1>3. req' = [req EXCEPT ![t] = r] /\ req'[t] = r
  BY <1>1 DEF Begin
<1>4. req' \in [Requests -> RequestRecords] /\ OtherRequests(t)
  BY <1>1, <1>2, <1>3 DEF OtherRequests
<1> QED BY <1>3, <1>4

\* The intent to stop the first target is written with the host row, and the
\* remaining targets rank no lower.
LEMMA BeginStopStep ==
  ASSUME WorkflowInv, NEW t \in Requests, NEW p \in Plans, BeginStop(t, p)
  PROVE  WorkflowInv'
<1>1. /\ ~WriteLocked /\ host[Target[p]].plan = p
      /\ host[Target[p]].workflow = "ready_to_stop"
      /\ UNCHANGED <<plan, lock, claim, guard, booted, boot, unit, alloc>>
  BY DEF BeginStop, StageOpen, remote
<1>2. PICK a \in FirstToStop(Targets(p)) :
        /\ asg[a] = At("ready_to_stop", p)
        /\ asg' = [asg EXCEPT ![a] = StopIntent(@)]
        /\ host' = [host EXCEPT ![Target[p]] = HostStopping(@)]
        /\ Begin(t, p, "stop", a, Targets(p) \ {a}, HostStopping(host[Target[p]]))
  BY DEF BeginStop, At
<1>3. /\ Targets(p) \subseteq Assignments /\ Target[p] \in Hosts /\ p # NoPlan
      /\ a \in Targets(p) /\ \A b \in Targets(p) : StopRank(a) <= StopRank(b)
  BY <1>2, TargetsExist DEF FirstToStop
<1>4. host[Target[p]] = Row("planning", "ready_to_stop", p) /\ plan[p] # "ready"
  <2>1. PlanOK(p)
    BY DEF WorkflowInv
  <2> QED BY <1>1, <2>1 DEF PlanOK, HostRowsOf, Row, Available
<1> DEFINE row == Row("planning", "stopping", p)
<1>5. HostStopping(host[Target[p]]) = row /\ row \in HostRows
  BY <1>4 DEF HostStopping, Row, HostRows, HostMaintenanceState, MaintenanceWorkflowState
<1>6. StopIntent(asg[a]) = At("stopping", p)
  BY <1>2 DEF StopIntent, At
<1>7. /\ host' \in [Hosts -> HostRows] /\ host'[Target[p]] = row
      /\ \A h \in Hosts \ {Target[p]} : host'[h] = host[h]
  BY <1>2, <1>3, <1>5 DEF WorkflowInv, TypeOK
<1>8. /\ asg'[a] = At("stopping", p)
      /\ \A b \in Assignments \ {a} : asg'[b] = asg[b]
      /\ asg' \in [Assignments -> [workflow : MaintenanceWorkflowState,
                                   plan : Plans \cup {NoPlan}]]
  BY <1>2, <1>3, <1>6 DEF WorkflowInv, TypeOK, At, MaintenanceWorkflowState
<1> HIDE DEF row
<1>9. /\ req' \in [Requests -> RequestRecords] /\ OtherRequests(t)
      /\ req'[t].pc = "stop" /\ req'[t].cur = a /\ req'[t].todo = Targets(p) \ {a}
      /\ req'[t].plan = p /\ req'[t].row = row
  BY <1>2, <1>3, <1>5, BeginFacts DEF PCs, WorkflowInv
<1>10. TypeOK'
  BY <1>1, <1>7, <1>8, <1>9 DEF WorkflowInv, TypeOK, RequestRecords
<1>11. Elsewhere(p)
  BY <1>1, <1>3, <1>7, <1>8 DEF Elsewhere
<1>12. PlanOK(p)'
  BY <1>1, <1>4, <1>7 DEF PlanOK, HostRowsOf, Row, row
<1>13. ASSUME NEW b \in Targets(p) PROVE AsgOK(b)' /\ unit'[b] = unit[b]
  <2>1. CASE b = a
    BY <1>1, <1>2, <1>3, <1>4, <1>8, <2>1 DEF WorkflowInv, AsgOK, At, Rebooted
  <2>2. CASE b # a
    BY <1>1, <1>3, <1>8, <2>2 DEF WorkflowInv, AsgOK, Rebooted
  <2> QED BY <2>1, <2>2
<1>14. Layered(p)' /\ GuardRecorded' /\ CapturedIsOriginal'
  BY <1>1, <1>3, LayeredKept DEF WorkflowInv, GuardRecorded, CapturedIsOriginal
<1>15. ReqOK(t)'
  <2>1. StopOK(req[t])'
    BY <1>3, <1>7, <1>8, <1>9 DEF StopOK, row
  <2> QED BY <1>1, <1>4, <1>9, <2>1 DEF ReqOK, RequestOK, Preparing, Returning, Locked
<1> QED BY <1>1, <1>4, <1>9, <1>10, <1>11, <1>12, <1>13, <1>14, <1>15, StageStep

\* After a confirmed stop the row of the target says maintenance and the next
\* target's intent is written; after the last one the host row follows.  A stop
\* whose answer is lost leaves the unit down under its intent.  Either way what
\* ranks lower than the target was stopped before.
LEMMA StopStep ==
  ASSUME WorkflowInv, NEW t \in Requests, Stop(t)
  PROVE  WorkflowInv'
<1>1. PICK p, a, todo : p = req[t].plan /\ a = req[t].cur /\ todo = req[t].todo
  OBVIOUS
<1>2. req[t].pc = "stop" /\ UNCHANGED <<boot, alloc>> /\ req[t].pc \in Working
  BY DEF Stop, Working
<1>3. p \in Plans /\ plan[p] # "ready" /\ StopOK(req[t]) /\ req[t] \in RequestRecords
  BY <1>1, <1>2, WorkerFacts DEF RequestOK, Locked
<1>4. /\ Targets(p) \subseteq Assignments /\ Target[p] \in Hosts /\ p # NoPlan
      /\ a \in Targets(p) /\ todo \subseteq Targets(p) \ {a}
      /\ req[t].row = Row("planning", "stopping", p)
      /\ host[Target[p]] \in {req[t].row, Recovering(p)}
      /\ asg[a] \in {At("stopping", p), At("recovery_required", p)}
      /\ \A b \in todo : StopRank(a) <= StopRank(b)
      /\ \A b \in Targets(p) \ (todo \cup {a}) :
           /\ boot[p] # "booted" => unit[b] = "stopped"
           /\ host[Target[p]] = req[t].row => asg[b] = At("maintenance", p)
  BY <1>1, <1>3, TargetsExist DEF StopOK
<1>5. ASSUME unit'[a] = "stopped", \A b \in Targets(p) \ {a} : unit'[b] = unit[b]
      PROVE  Layered(p)'
  <2> SUFFICES ASSUME NEW d \in Targets(p), NEW b \in Targets(p),
                      <<Role[d], Role[b]>> \in Above, unit'[b] = "stopped",
                      boot[p] # "booted"
               PROVE  unit'[d] = "stopped"
    BY <1>2 DEF Layered
  <2>1. CASE b = a
    <3>1. StopRank(d) < StopRank(a) /\ StopRank(d) \in Int /\ StopRank(a) \in Int
      BY <2>1, Ranks, RankType
    <3>2. d \notin todo
      BY <1>4, <3>1
    <3> QED BY <1>4, <1>5, <3>2
  <2>2. CASE b # a
    BY <1>3, <1>4, <1>5, <2>2, RebootedTarget DEF WorkflowInv, DependentsStopFirst, Targets
  <2> QED BY <2>1, <2>2
<1> DEFINE Lost == \E v \in {unit[a], "stopped"} : unit' = [unit EXCEPT ![a] = v]
<1>6. CASE Abort(t) /\ Lost
  <2>1. UNCHANGED <<plan, lock, host, asg, claim, guard, booted, boot, alloc>> /\ Done(t)
    BY <1>2, <1>6 DEF Abort, rows, Done
  <2>2. /\ unit' \in [Assignments -> {"running", "stopped"}]
        /\ unit'[a] \in {unit[a], "stopped"}
        /\ \A b \in Assignments \ {a} : unit'[b] = unit[b]
    BY <1>4, <1>6 DEF WorkflowInv, TypeOK
  <2>3. /\ req' \in [Requests -> RequestRecords] /\ OtherRequests(t)
        /\ ReqOK(t)' /\ req'[t].pc \notin Working
    BY <2>1, DoneFacts DEF WorkflowInv
  <2>4. TypeOK'
    BY <2>1, <2>2, <2>3 DEF WorkflowInv, TypeOK, RequestRecords
  <2>5. Elsewhere(p)
    BY <1>4, <2>1, <2>2 DEF Elsewhere
  <2>6. PlanOK(p)' /\ GuardRecorded' /\ CapturedIsOriginal'
    BY <1>3, <2>1 DEF WorkflowInv, PlanOK, GuardRecorded, CapturedIsOriginal
  <2>7. ASSUME NEW b \in Targets(p) PROVE AsgOK(b)'
    <3>1. CASE b = a
      BY <1>4, <2>1, <2>2, <3>1 DEF WorkflowInv, AsgOK, At, Rebooted
    <3>2. CASE b # a
      BY <1>4, <2>1, <2>2, <3>2 DEF WorkflowInv, AsgOK, Rebooted
    <3> QED BY <3>1, <3>2
  <2>8. Layered(p)'
    <3>1. CASE unit'[a] = unit[a]
      BY <1>2, <1>3, <1>4, <2>2, <3>1, LayeredKept
    <3> QED BY <1>4, <1>5, <2>2, <3>1
  <2>9. ASSUME NEW u \in Requests \ {t}, req[u].plan = p PROVE ReqOK(u)'
    <3>1. req[u].pc \in {"boot-id"} \cup Locked /\ ReqOK(u) /\ req'[u] = req[u]
      BY <1>1, <1>2, <2>3, <2>9, Bystanders DEF WorkflowInv, OtherRequests
    <3> QED BY <2>1, <3>1 DEF ReqOK, RequestOK, Preparing, Returning, Locked
  <2> QED BY <1>3, <2>3, <2>4, <2>5, <2>6, <2>7, <2>8, <2>9, LocalStep
<1>7. CASE ~(Abort(t) /\ Lost)
  <2>1. /\ ~WriteLocked /\ unit' = [unit EXCEPT ![a] = "stopped"]
        /\ asg[a] = StopIntent([workflow |-> "ready_to_stop", plan |-> p])
        /\ UNCHANGED <<plan, lock, claim, guard, booted>>
        /\ \/ \E b \in FirstToStop(todo) :
                /\ asg[b] = [workflow |-> "ready_to_stop", plan |-> p]
                /\ asg' = [asg EXCEPT ![a].workflow = "maintenance", ![b] = StopIntent(@)]
                /\ Await(t, "stop", b, todo \ {b})
                /\ UNCHANGED host
           \/ /\ todo = {} /\ host[Target[p]] = req[t].row
              /\ asg' = [asg EXCEPT ![a].workflow = "maintenance"]
              /\ host' = [host EXCEPT ![Target[p]] = Row("maintenance", "maintenance", p)]
              /\ Done(t)
    BY <1>1, <1>7 DEF Stop, Row
  <2>2. /\ unit' \in [Assignments -> {"running", "stopped"}] /\ unit'[a] = "stopped"
        /\ \A b \in Assignments \ {a} : unit'[b] = unit[b]
    BY <1>4, <2>1 DEF WorkflowInv, TypeOK
  <2>3. asg[a] = At("stopping", p) /\ claim[a] = p
    BY <1>4, <2>1 DEF StopIntent, At, WorkflowInv, AsgOK, Rebooted
  <2>4. Layered(p)' /\ GuardRecorded' /\ CapturedIsOriginal'
    BY <1>2, <1>4, <1>5, <2>1, <2>2 DEF WorkflowInv, GuardRecorded, CapturedIsOriginal
  <2>5. ASSUME NEW b \in FirstToStop(todo),
               asg[b] = [workflow |-> "ready_to_stop", plan |-> p],
               asg' = [asg EXCEPT ![a].workflow = "maintenance", ![b] = StopIntent(@)],
               Await(t, "stop", b, todo \ {b}), UNCHANGED host
        PROVE  WorkflowInv'
    <3>1. b \in todo /\ b # a /\ b \in Targets(p) /\ \A d \in todo : StopRank(b) <= StopRank(d)
      BY <1>4, <2>5 DEF FirstToStop
    <3>2. /\ asg'[a] = At("maintenance", p) /\ asg'[b] = At("stopping", p)
          /\ \A d \in Assignments \ {a, b} : asg'[d] = asg[d]
          /\ asg' \in [Assignments -> [workflow : MaintenanceWorkflowState,
                                       plan : Plans \cup {NoPlan}]]
      <4>1. /\ asg \in [Assignments -> [workflow : MaintenanceWorkflowState,
                                         plan : Plans \cup {NoPlan}]]
            /\ [asg[a] EXCEPT !.workflow = "maintenance"] = At("maintenance", p)
            /\ StopIntent(asg[b]) = At("stopping", p)
        BY <2>3, <2>5 DEF WorkflowInv, TypeOK, At, StopIntent
      <4>2. asg' = [asg EXCEPT ![a] = At("maintenance", p), ![b] = At("stopping", p)]
        BY <1>4, <2>5, <3>1, <4>1
      <4>3. \A w \in {"maintenance", "stopping"} :
              At(w, p) \in [workflow : MaintenanceWorkflowState, plan : Plans \cup {NoPlan}]
        BY <1>3 DEF At, MaintenanceWorkflowState
      <4> QED BY <1>4, <3>1, <4>1, <4>2, <4>3
    <3>3. /\ req' \in [Requests -> RequestRecords] /\ OtherRequests(t)
          /\ req'[t].pc = "stop" /\ req'[t].cur = b /\ req'[t].todo = todo \ {b}
          /\ req'[t].plan = p /\ req'[t].row = req[t].row
      BY <1>1, <1>4, <2>5, <3>1, AwaitFacts DEF PCs, WorkflowInv
    <3>4. TypeOK'
      BY <1>2, <2>1, <2>2, <2>5, <3>2, <3>3 DEF WorkflowInv, TypeOK, RequestRecords
    <3>5. Elsewhere(p)
      BY <1>2, <1>4, <2>1, <2>2, <2>5, <3>1, <3>2 DEF Elsewhere
    <3>6. PlanOK(p)'
      <4>1. host[Target[p]].workflow \in {"stopping", "recovery_required"}
        BY <1>4 DEF Row, Recovering
      <4> QED BY <1>3, <2>1, <2>5, <4>1 DEF WorkflowInv, PlanOK
    <3>7. ASSUME NEW d \in Targets(p) PROVE AsgOK(d)'
      <4>1. CASE d = a
        BY <1>3, <1>4, <2>1, <2>2, <2>3, <3>2, <4>1 DEF AsgOK, At, Rebooted
      <4>2. CASE d = b
        BY <1>3, <1>4, <2>1, <2>2, <2>5, <3>1, <3>2, <4>2 DEF WorkflowInv, AsgOK, At, Rebooted
      <4>3. CASE d \notin {a, b}
        BY <1>2, <1>4, <2>1, <2>2, <3>2, <4>3, RebootedSame DEF WorkflowInv, AsgOK
      <4> QED BY <4>1, <4>2, <4>3
    <3>8. ReqOK(t)'
      <4>1. StopOK(req[t])'
        BY <1>2, <1>4, <2>2, <2>5, <3>1, <3>2, <3>3 DEF StopOK
      <4> QED BY <1>3, <2>1, <3>3, <4>1 DEF ReqOK, RequestOK, Preparing, Returning, Locked
    <3> QED BY <1>1, <1>2, <1>3, <2>1, <2>4, <3>3, <3>4, <3>5, <3>6, <3>7, <3>8, WorkerStep
  <2>6. CASE /\ todo = {} /\ host[Target[p]] = req[t].row
             /\ asg' = [asg EXCEPT ![a].workflow = "maintenance"]
             /\ host' = [host EXCEPT ![Target[p]] = Row("maintenance", "maintenance", p)]
             /\ Done(t)
    <3>1. /\ asg'[a] = At("maintenance", p)
          /\ \A d \in Assignments \ {a} : asg'[d] = asg[d]
          /\ asg' \in [Assignments -> [workflow : MaintenanceWorkflowState,
                                       plan : Plans \cup {NoPlan}]]
      BY <1>4, <2>3, <2>6 DEF WorkflowInv, TypeOK, At, MaintenanceWorkflowState
    <3>2. /\ host' \in [Hosts -> HostRows]
          /\ host'[Target[p]] = Row("maintenance", "maintenance", p)
          /\ \A h \in Hosts \ {Target[p]} : host'[h] = host[h]
      BY <1>3, <1>4, <2>6 DEF WorkflowInv, TypeOK, Row, HostRows, HostMaintenanceState,
                              MaintenanceWorkflowState
    <3>3. /\ req' \in [Requests -> RequestRecords] /\ OtherRequests(t)
          /\ ReqOK(t)' /\ req'[t].pc \notin Working
      BY <2>6, DoneFacts DEF WorkflowInv
    <3>4. TypeOK'
      BY <1>2, <2>1, <2>2, <3>1, <3>2, <3>3 DEF WorkflowInv, TypeOK, RequestRecords
    <3>5. Elsewhere(p)
      BY <1>2, <1>4, <2>1, <2>2, <3>1, <3>2 DEF Elsewhere
    <3>6. PlanOK(p)'
      <4>1. \A d \in Targets(p) : asg'[d] = At("maintenance", p)
        BY <1>4, <2>6, <3>1
      <4> QED BY <1>3, <2>1, <3>2, <4>1 DEF PlanOK, HostRowsOf, Row
    <3>7. ASSUME NEW d \in Targets(p) PROVE AsgOK(d)'
      <4>1. CASE d = a
        BY <1>3, <1>4, <2>1, <2>2, <2>3, <3>1, <4>1 DEF AsgOK, At, Rebooted
      <4>2. CASE d # a
        BY <1>2, <1>4, <2>1, <2>2, <3>1, <4>2, RebootedSame DEF WorkflowInv, AsgOK
      <4> QED BY <4>1, <4>2
    <3> QED BY <1>1, <1>2, <1>3, <2>1, <2>4, <3>3, <3>4, <3>5, <3>6, <3>7, WorkerStep
  <2> QED BY <2>1, <2>5, <2>6
<1> QED BY <1>6, <1>7

-----------------------------------------------------------------------------
\* reboot_host

\* The reboot stage writes nothing the workflow reads.  Its dispatch finds every
\* row in maintenance; from there on the open write transaction keeps them so.
LEMMA RebootStep ==
  ASSUME WorkflowInv, NEW t \in Requests,
         (\E p \in Plans : BeginReboot(t, p)) \/ BootId(t) \/ Reboot(t)
  PROVE  WorkflowInv'
<1>1. UNCHANGED <<plan, lock, host, asg, claim, guard, boot, unit, alloc>>
  BY DEF BeginReboot, BootId, Reboot, Abort, rows, remote
<1>2. GuardRecorded' /\ alloc' \in [Clusters -> {"all", "primaries"}]
  BY <1>1 DEF WorkflowInv, GuardRecorded, TypeOK
<1>3. ASSUME Abort(t) PROVE WorkflowInv'
  BY <1>1, <1>2, <1>3, AbortStep
<1>4. ASSUME NEW p \in Plans, BeginReboot(t, p) PROVE WorkflowInv'
  <2>1. /\ Begin(t, p, "boot-id", NoItem, {}, host[Target[p]]) /\ UNCHANGED booted
        /\ host[Target[p]].workflow = "maintenance"
    BY <1>4 DEF BeginReboot, StageOpen, rows
  <2>2. host[Target[p]] \in HostRows /\ plan[p] # "ready"
    BY <2>1, TargetsExist DEF WorkflowInv, PlanOK, TypeOK, Available
  <2>3. /\ req' \in [Requests -> RequestRecords] /\ OtherRequests(t)
        /\ req'[t].pc = "boot-id" /\ req'[t].plan = p
    BY <2>1, <2>2, BeginFacts DEF PCs, WorkflowInv
  <2>4. TypeOK'
    BY <1>1, <2>1, <2>3 DEF WorkflowInv, TypeOK, RequestRecords
  <2>5. ReqOK(t)' /\ req'[t].pc \notin Working
    BY <1>1, <2>2, <2>3 DEF ReqOK, RequestOK, Working, Preparing, Returning, Locked
  <2> QED BY <1>1, <1>2, <2>3, <2>4, <2>5, QuietStep DEF OtherRequests
<1>5. CASE BootId(t) /\ ~Abort(t)
  <2>1. PICK p : p = req[t].plan
    OBVIOUS
  <2>2. /\ req[t].pc = "boot-id" /\ RebootPredicates(p)
        /\ Await(t, "stage", NoItem, {}) /\ UNCHANGED booted
    BY <1>5, <2>1 DEF BootId, rows
  <2>3. p \in Plans /\ plan[p] # "ready"
    BY <2>1, <2>2, WorkerFacts
  <2>4. /\ req' \in [Requests -> RequestRecords] /\ OtherRequests(t)
        /\ req'[t].pc = "stage" /\ req'[t].plan = p
    BY <2>1, <2>2, AwaitFacts DEF PCs, WorkflowInv
  <2>5. TypeOK'
    BY <1>1, <2>2, <2>4 DEF WorkflowInv, TypeOK, RequestRecords
  <2>6. ReqOK(t)' /\ req'[t].pc \notin Working
    BY <1>1, <2>2, <2>3, <2>4
       DEF ReqOK, RequestOK, Working, Preparing, Returning, RebootPredicates, At, Locked
  <2> QED BY <1>1, <1>2, <2>4, <2>5, <2>6, QuietStep DEF OtherRequests
<1>6. CASE Reboot(t) /\ ~Abort(t)
  <2>1. booted' = [booted EXCEPT ![req[t].plan] = TRUE] /\ Done(t)
    BY <1>6 DEF Reboot
  <2>2. /\ req' \in [Requests -> RequestRecords] /\ OtherRequests(t)
        /\ ReqOK(t)' /\ req'[t].pc \notin Working
    BY <2>1, DoneFacts DEF WorkflowInv
  <2>3. TypeOK'
    BY <1>1, <2>1, <2>2 DEF WorkflowInv, TypeOK, RequestRecords
  <2> QED BY <1>1, <1>2, <2>2, <2>3, QuietStep DEF OtherRequests
<1> QED BY <1>3, <1>4, <1>5, <1>6

\* Staging and invoking boot nothing yet: a manifest is staged where none lies,
\* and invoked where it was staged.
LEMMA DispatchStep ==
  ASSUME WorkflowInv, RebootInv, NEW t \in Requests, StageExecutor(t) \/ InvokeReboot(t)
  PROVE  WorkflowInv'
<1>1. PICK p : p = req[t].plan
  OBVIOUS
<1>2. /\ UNCHANGED <<plan, lock, host, asg, claim, guard, booted, unit, alloc>>
      /\ req[t].pc \in {"stage", "invoke"}
  BY DEF StageExecutor, InvokeReboot, Abort, rows
<1>3. /\ p \in Plans /\ plan[p] # "ready" /\ req[t].pc \notin Working
      /\ \A a \in Targets(p) : asg[a] = At("maintenance", p)
  BY <1>1, <1>2, WorkerFacts DEF RequestOK, Locked, Working, Preparing, Returning
<1>4. /\ SameBoots
      /\ boot' \in [Plans -> {"none", "staged", "invoked", "booted"}]
  <2>1. CASE UNCHANGED boot
    BY <2>1 DEF SameBoots, WorkflowInv, TypeOK
  <2>2. CASE boot[p] = "none" /\ boot' = [boot EXCEPT ![p] = "staged"]
    BY <1>3, <2>2 DEF SameBoots, WorkflowInv, TypeOK
  <2>3. CASE /\ req[t].pc = "invoke"
             /\ \E b \in {boot[p], "invoked"} : boot' = [boot EXCEPT ![p] = b]
    <3>1. boot[p] = "staged"
      BY <1>1, <2>3 DEF RebootInv, RebootOK
    <3> QED BY <1>3, <2>3, <3>1 DEF SameBoots, WorkflowInv, TypeOK
  <2> QED BY <1>1, <2>1, <2>2, <2>3 DEF StageExecutor, InvokeReboot, Stageable
<1>5. CASE Abort(t)
  <2>1. Done(t)
    BY <1>5 DEF Abort, Done
  <2>2. /\ req' \in [Requests -> RequestRecords] /\ OtherRequests(t)
        /\ ReqOK(t)' /\ req'[t].pc \notin Working
    BY <2>1, DoneFacts DEF WorkflowInv
  <2>3. TypeOK' /\ GuardRecorded'
    BY <1>2, <1>4, <2>2 DEF WorkflowInv, TypeOK, RequestRecords, GuardRecorded
  <2> QED BY <1>2, <1>4, <2>2, <2>3, BootlessStep DEF OtherRequests
<1>6. CASE ~Abort(t)
  <2>1. PICK pc \in {"invoke", "discover"} : Await(t, pc, NoItem, {})
    BY <1>6 DEF StageExecutor, InvokeReboot
  <2>2. /\ req' \in [Requests -> RequestRecords] /\ OtherRequests(t)
        /\ req'[t].pc = pc /\ req'[t].plan = p
    BY <1>1, <2>1, AwaitFacts DEF PCs, WorkflowInv
  <2>3. TypeOK' /\ GuardRecorded'
    BY <1>2, <1>4, <2>2 DEF WorkflowInv, TypeOK, RequestRecords, GuardRecorded
  <2>4. ReqOK(t)' /\ req'[t].pc \notin Working
    BY <1>2, <1>3, <2>2 DEF ReqOK, RequestOK, Working, Preparing, Returning, Locked
  <2> QED BY <1>2, <1>4, <2>2, <2>3, <2>4, BootlessStep DEF OtherRequests
<1> QED BY <1>5, <1>6

\* The boot takes the units of its host out of the rows' hands, whatever is in
\* flight; nothing else sees it.
LEMMA BootStep ==
  ASSUME WorkflowInv, NEW p \in Plans, HostBoots(p) \/ UnitComesUp(p)
  PROVE  WorkflowInv'
<1>1. UNCHANGED <<plan, lock, host, asg, claim, guard, booted, req, alloc>>
  BY DEF HostBoots, UnitComesUp, rows
<1>2. /\ boot'[p] = "booted" /\ \A q \in Plans \ {p} : boot'[q] = boot[q]
      /\ boot' \in [Plans -> {"none", "staged", "invoked", "booted"}]
      /\ unit' \in [Assignments -> {"running", "stopped"}]
      /\ \A a \in Assignments \ Targets(p) : unit'[a] = unit[a]
  BY TargetsExist, ZenonT(60) DEF HostBoots, UnitComesUp, WorkflowInv, TypeOK
<1>3. Elsewhere(p)
  BY <1>1, <1>2 DEF Elsewhere
<1>4. TypeOK' /\ GuardRecorded' /\ CapturedIsOriginal' /\ FreeHosts' /\ OneWorker'
  BY <1>1, <1>2
     DEF WorkflowInv, TypeOK, GuardRecorded, CapturedIsOriginal, FreeHosts, OneWorker
<1>5. ASSUME NEW q \in Plans PROVE PlanOK(q)'
  BY <1>1 DEF WorkflowInv, PlanOK
<1>6. ASSUME NEW a \in Assignments PROVE AsgOK(a)'
  <2>1. CASE a \in Targets(p)
    BY <1>1, <1>2, <2>1, RebootedTarget DEF WorkflowInv, AsgOK
  <2>2. CASE a \notin Targets(p)
    BY <1>1, <1>2, <1>3, <2>2, RebootedElsewhere DEF WorkflowInv, AsgOK
  <2> QED BY <2>1, <2>2
<1>7. DependentsStopFirst'
  <2> SUFFICES ASSUME NEW a \in Assignments, NEW b \in Assignments,
                      HostOf[a] = HostOf[b], <<Role[a], Role[b]>> \in Above,
                      unit'[b] = "stopped", ~Rebooted(HostOf[a])'
               PROVE  unit'[a] = "stopped"
    BY DEF DependentsStopFirst
  <2>1. a \notin Targets(p)
    BY <1>2, RebootedTarget
  <2>2. b \notin Targets(p)
    BY <2>1 DEF Targets
  <2> QED BY <1>2, <1>3, <2>1, <2>2, RebootedElsewhere DEF WorkflowInv, DependentsStopFirst
<1>8. ASSUME NEW u \in Requests PROVE ReqOK(u)'
  <2>1. req'[u] = req[u] /\ RequestOK(req[u])
    BY <1>1 DEF WorkflowInv, ReqOK
  <2>2. PICK r : r = req[u]
    OBVIOUS
  <2>3. CASE r.plan # p
    BY <1>3, <2>1, <2>2, <2>3, RequestFrame DEF ReqOK
  <2>4. CASE r.plan = p
    <3>1. r.pc \in Preparing => PrepareOK(r)'
      BY <1>1, <2>1, <2>2 DEF RequestOK, PrepareOK
    <3>2. r.pc = "stop" => StopOK(r)'
      BY <1>1, <1>2, <2>1, <2>2, <2>4 DEF RequestOK, StopOK
    <3>3. r.pc \in Returning => ReturnOK(r)'
      BY <1>1, <1>2, <2>1, <2>2, <2>4 DEF RequestOK, ReturnOK
    <3> QED BY <1>1, <2>1, <2>2, <3>1, <3>2, <3>3 DEF ReqOK, RequestOK
  <2> QED BY <2>3, <2>4
<1> QED BY <1>4, <1>5, <1>6, <1>7, <1>8 DEF WorkflowInv

-----------------------------------------------------------------------------
\* return_to_service

\* The return begins where every target is in maintenance and no other request
\* of the plan is at work.
LEMMA BeginReturnStep ==
  ASSUME WorkflowInv, NEW t \in Requests, NEW p \in Plans, BeginReturn(t, p)
  PROVE  WorkflowInv'
<1> DEFINE row == Row("maintenance", "returning", p)
<1>1. /\ ~WriteLocked /\ host[Target[p]].plan = p
      /\ host[Target[p]].workflow = "maintenance"
      /\ UNCHANGED <<plan, lock, asg, claim, guard, booted, boot, unit, alloc>>
  BY DEF BeginReturn, StageOpen, remote
<1>2. host[Target[p]] = Row("maintenance", "maintenance", p) /\ plan[p] # "ready"
  <2>1. PlanOK(p)
    BY DEF WorkflowInv
  <2> QED BY <1>1, <2>1 DEF PlanOK, HostRowsOf, Row, Available
<1>3. [host[Target[p]] EXCEPT !.workflow = "returning"] = row /\ row \in HostRows
  BY <1>2 DEF Row, HostRows, HostMaintenanceState, MaintenanceWorkflowState
<1>4. Targets(p) \subseteq Assignments /\ Target[p] \in Hosts
  BY TargetsExist
<1>5. /\ host' \in [Hosts -> HostRows] /\ host'[Target[p]] = row
      /\ \A h \in Hosts \ {Target[p]} : host'[h] = host[h]
  BY <1>3, <1>4 DEF BeginReturn, WorkflowInv, TypeOK
<1> HIDE DEF row
<1>6. /\ req' \in [Requests -> RequestRecords] /\ OtherRequests(t)
      /\ req'[t].pc = "host-ready" /\ req'[t].todo = Targets(p)
      /\ req'[t].plan = p /\ req'[t].row = row
  <2>1. Begin(t, p, "host-ready", NoItem, Targets(p), row)
    BY <1>3 DEF BeginReturn
  <2> QED BY <1>3, <1>4, <2>1, BeginFacts DEF PCs, WorkflowInv
<1>7. TypeOK'
  BY <1>1, <1>5, <1>6 DEF WorkflowInv, TypeOK, RequestRecords
<1>8. Elsewhere(p)
  BY <1>1, <1>5 DEF Elsewhere
<1>9. PlanOK(p)'
  BY <1>1, <1>2, <1>5 DEF PlanOK, HostRowsOf, Row, row
<1>10. (\A a \in Targets(p) : AsgOK(a)') /\ Layered(p)' /\ GuardRecorded' /\ CapturedIsOriginal'
  BY <1>1, <1>4, RebootedSame, LayeredKept
     DEF WorkflowInv, AsgOK, GuardRecorded, CapturedIsOriginal
<1>11. ReqOK(t)'
  <2>1. ReturnOK(req[t])'
    BY <1>5, <1>6 DEF ReturnOK, row, Row
  <2> QED BY <1>1, <1>2, <1>6, <2>1 DEF ReqOK, RequestOK, Preparing, Locked
<1> QED BY <1>1, <1>2, <1>6, <1>7, <1>8, <1>9, <1>10, <1>11, StageStep

\* The host or one workload is ready: the next target's intent to return is
\* written, or the guards, or the verification, are next.
LEMMA HostReadyStep ==
  ASSUME WorkflowInv, NEW t \in Requests, HostReady(t)
  PROVE  WorkflowInv'
<1>1. PICK p, left : p = req[t].plan /\ left = req[t].todo
  OBVIOUS
<1>2. /\ req[t].pc \in {"host-ready", "ready"} /\ req[t].pc \in Working
      /\ UNCHANGED <<boot, unit, alloc>>
  BY DEF HostReady, Working, Returning, remote
<1>3. /\ p \in Plans /\ plan[p] # "ready" /\ ReturnOK(req[t])
      /\ Targets(p) \subseteq Assignments /\ DataClusters(p) \subseteq Clusters
      /\ Target[p] \in Hosts /\ p # NoPlan
  BY <1>1, <1>2, WorkerFacts, TargetsExist DEF RequestOK, Returning, Locked
<1>4. /\ left \subseteq Targets(p)
      /\ \A b \in Targets(p) \ left : boot[p] # "booted" => unit[b] = "running"
      /\ req[t].row = Row("maintenance", "returning", p)
      /\ host[Target[p]].workflow \in {"returning", "recovery_required", "available"}
  BY <1>1, <1>2, <1>3 DEF ReturnOK
<1>5. CASE Abort(t)
  <2>1. GuardRecorded' /\ alloc' \in [Clusters -> {"all", "primaries"}]
    BY <1>2, <1>5 DEF GuardRecorded, WorkflowInv, Abort, rows, TypeOK
  <2> QED BY <1>2, <1>5, <2>1, AbortStep
<1>6. CASE ~Abort(t)
  <2>1. /\ ~WriteLocked /\ UNCHANGED <<plan, lock, host, claim, guard, booted>>
        /\ \/ \E a \in FirstToStart(left) :
                /\ asg[a] = At("maintenance", p)
                /\ asg' = [asg EXCEPT ![a].workflow = "returning"]
                /\ Await(t, "start", a, left \ {a})
           \/ /\ UNCHANGED asg
              /\ \/ \E c \in DataClusters(p) : Await(t, "restore", c, DataClusters(p) \ {c})
                 \/ Await(t, "verify", NoItem, {})
    BY <1>1, <1>6 DEF HostReady, ReturnNext, At
  <2>2. ASSUME NEW a \in FirstToStart(left), asg[a] = At("maintenance", p),
               asg' = [asg EXCEPT ![a].workflow = "returning"],
               Await(t, "start", a, left \ {a})
        PROVE  WorkflowInv'
    <3>1. /\ a \in left /\ a \in Targets(p) /\ \A b \in left : StartRank(a) <= StartRank(b)
      BY <1>4 DEF FirstToStart
    <3>2. /\ asg'[a] = At("returning", p)
          /\ \A b \in Assignments \ {a} : asg'[b] = asg[b]
          /\ asg' \in [Assignments -> [workflow : MaintenanceWorkflowState,
                                       plan : Plans \cup {NoPlan}]]
      BY <1>3, <2>2, <3>1 DEF WorkflowInv, TypeOK, At, MaintenanceWorkflowState
    <3>3. /\ req' \in [Requests -> RequestRecords] /\ OtherRequests(t)
          /\ req'[t].pc = "start" /\ req'[t].cur = a /\ req'[t].todo = left \ {a}
          /\ req'[t].plan = p /\ req'[t].row = req[t].row
      BY <1>1, <1>3, <1>4, <2>2, <3>1, AwaitFacts DEF PCs, WorkflowInv
    <3>4. TypeOK'
      BY <1>2, <2>1, <3>2, <3>3 DEF WorkflowInv, TypeOK, RequestRecords
    <3>5. Elsewhere(p)
      BY <1>2, <2>1, <3>1, <3>2 DEF Elsewhere
    <3>6. PlanOK(p)'
      BY <1>3, <1>4, <2>1 DEF WorkflowInv, PlanOK
    <3>7. ASSUME NEW b \in Targets(p) PROVE AsgOK(b)'
      <4>1. CASE b = a
        BY <1>2, <1>3, <2>1, <2>2, <3>1, <3>2, <4>1 DEF WorkflowInv, AsgOK, At, Rebooted
      <4>2. CASE b # a
        BY <1>2, <1>3, <2>1, <3>2, <4>2 DEF WorkflowInv, AsgOK, Rebooted
      <4> QED BY <4>1, <4>2
    <3>8. Layered(p)' /\ GuardRecorded' /\ CapturedIsOriginal'
      BY <1>2, <1>3, <2>1, LayeredKept DEF WorkflowInv, GuardRecorded, CapturedIsOriginal
    <3>9. ReqOK(t)'
      <4>1. ReturnOK(req[t])'
        BY <1>2, <1>4, <2>1, <3>1, <3>2, <3>3 DEF ReturnOK
      <4> QED BY <1>3, <2>1, <3>3, <4>1 DEF ReqOK, RequestOK, Preparing, Locked
    <3> QED BY <1>1, <1>2, <1>3, <2>1, <3>3, <3>4, <3>5, <3>6, <3>7, <3>8, <3>9, WorkerStep
  <2>3. ASSUME NEW pc \in {"restore", "verify"}, NEW cur \in Clusters \cup {NoItem},
               pc = "restore" => cur \in Clusters,
               NEW todo \in SUBSET Clusters, Await(t, pc, cur, todo), UNCHANGED asg
        PROVE  WorkflowInv'
    <3>1. pc \in PCs /\ todo \in SUBSET (Assignments \cup Clusters)
      BY DEF PCs
    <3>2. /\ req' \in [Requests -> RequestRecords] /\ OtherRequests(t)
          /\ req'[t].pc = pc /\ req'[t].cur = cur /\ req'[t].todo = todo
          /\ req'[t].plan = p /\ req'[t].row = req[t].row
      BY <1>1, <2>3, <3>1, AwaitFacts DEF WorkflowInv
    <3>3. TypeOK' /\ GuardRecorded'
      BY <1>2, <2>1, <2>3, <3>2 DEF WorkflowInv, TypeOK, RequestRecords, GuardRecorded
    <3>4. ReqOK(t)'
      <4>1. ReturnOK(req[t])'
        BY <1>4, <2>1, <2>3, <3>2 DEF ReturnOK
      <4> QED BY <1>3, <2>1, <2>3, <3>2, <4>1 DEF ReqOK, RequestOK, Preparing, Locked
    <3> QED BY <1>1, <1>2, <2>1, <2>3, <3>2, <3>3, <3>4, QuietStep DEF OtherRequests
  <2>4. ASSUME NEW c \in DataClusters(p), Await(t, "restore", c, DataClusters(p) \ {c}),
               UNCHANGED asg
        PROVE  WorkflowInv'
    <3>1. c \in Clusters /\ DataClusters(p) \ {c} \in SUBSET Clusters
      BY <1>3
    <3> QED BY <2>3, <2>4, <3>1
  <2>5. ASSUME Await(t, "verify", NoItem, {}), UNCHANGED asg PROVE WorkflowInv'
    <3>1. {} \in SUBSET Clusters
      OBVIOUS
    <3> QED BY <2>3, <2>5, <3>1
  <2> QED BY <2>1, <2>2, <2>4, <2>5
<1> QED BY <1>5, <1>6

\* A started unit runs over what it depends on, whether the start was confirmed
\* or its answer was lost: all that ranks before it was started.
LEMMA StartStep ==
  ASSUME WorkflowInv, NEW t \in Requests, Start(t)
  PROVE  WorkflowInv'
<1>1. PICK p, a, todo : p = req[t].plan /\ a = req[t].cur /\ todo = req[t].todo
  OBVIOUS
<1>2. req[t].pc = "start" /\ UNCHANGED <<boot, alloc>> /\ req[t].pc \in Working
  BY DEF Start, Working, Returning
<1>3. /\ p \in Plans /\ plan[p] # "ready" /\ ReturnOK(req[t])
      /\ Targets(p) \subseteq Assignments /\ Target[p] \in Hosts /\ p # NoPlan
  BY <1>1, <1>2, WorkerFacts, TargetsExist DEF RequestOK, Returning, Locked
<1>4. /\ a \in Targets(p) /\ todo \subseteq Targets(p) \ {a}
      /\ req[t].row = Row("maintenance", "returning", p)
      /\ host[Target[p]].workflow \in {"returning", "recovery_required", "available"}
      /\ asg[a] \in {At("returning", p), At("recovery_required", p)}
      /\ \A b \in todo : StartRank(a) <= StartRank(b)
      /\ \A b \in Targets(p) \ (todo \cup {a}) : boot[p] # "booted" => unit[b] = "running"
  BY <1>1, <1>2, <1>3 DEF ReturnOK
<1>5. ASSUME unit'[a] = "running", \A b \in Targets(p) \ {a} : unit'[b] = unit[b]
      PROVE  Layered(p)'
  <2> SUFFICES ASSUME NEW d \in Targets(p), NEW b \in Targets(p),
                      <<Role[d], Role[b]>> \in Above, unit'[b] = "stopped",
                      boot[p] # "booted"
               PROVE  unit'[d] = "stopped"
    BY <1>2 DEF Layered
  <2>1. b # a /\ unit[b] = "stopped"
    BY <1>5
  <2>2. CASE d = a
    <3>1. StartRank(b) < StartRank(a) /\ StartRank(b) \in Int /\ StartRank(a) \in Int
      BY <2>2, Ranks, RankType
    <3>2. b \notin todo
      BY <1>4, <3>1
    <3> QED BY <1>4, <2>1, <3>2
  <2>3. CASE d # a
    BY <1>3, <1>5, <2>1, <2>3, RebootedTarget DEF WorkflowInv, DependentsStopFirst, Targets
  <2> QED BY <2>2, <2>3
<1> DEFINE Lost == \E v \in {unit[a], "running"} : unit' = [unit EXCEPT ![a] = v]
<1>6. CASE Abort(t) /\ Lost
  <2>1. UNCHANGED <<plan, lock, host, asg, claim, guard, booted, boot, alloc>> /\ Done(t)
    BY <1>2, <1>6 DEF Abort, rows, Done
  <2>2. /\ unit' \in [Assignments -> {"running", "stopped"}]
        /\ unit'[a] \in {unit[a], "running"}
        /\ \A b \in Assignments \ {a} : unit'[b] = unit[b]
    BY <1>3, <1>4, <1>6 DEF WorkflowInv, TypeOK
  <2>3. /\ req' \in [Requests -> RequestRecords] /\ OtherRequests(t)
        /\ ReqOK(t)' /\ req'[t].pc \notin Working
    BY <2>1, DoneFacts DEF WorkflowInv
  <2>4. TypeOK'
    BY <2>1, <2>2, <2>3 DEF WorkflowInv, TypeOK, RequestRecords
  <2>5. Elsewhere(p)
    BY <1>4, <2>1, <2>2 DEF Elsewhere
  <2>6. PlanOK(p)' /\ GuardRecorded' /\ CapturedIsOriginal'
    BY <1>3, <2>1 DEF WorkflowInv, PlanOK, GuardRecorded, CapturedIsOriginal
  <2>7. ASSUME NEW b \in Targets(p) PROVE AsgOK(b)'
    <3>1. CASE b = a
      BY <1>3, <1>4, <2>1, <2>2, <3>1 DEF WorkflowInv, AsgOK, At, Rebooted
    <3>2. CASE b # a
      BY <1>3, <1>4, <2>1, <2>2, <3>2 DEF WorkflowInv, AsgOK, Rebooted
    <3> QED BY <3>1, <3>2
  <2>8. Layered(p)'
    <3>1. CASE unit'[a] = unit[a]
      BY <1>2, <1>3, <1>4, <2>2, <3>1, LayeredKept
    <3> QED BY <1>3, <1>4, <1>5, <2>2, <3>1
  <2>9. ASSUME NEW u \in Requests \ {t}, req[u].plan = p PROVE ReqOK(u)'
    <3>1. req[u].pc \in {"boot-id"} \cup Locked /\ ReqOK(u) /\ req'[u] = req[u]
      BY <1>1, <1>2, <2>3, <2>9, Bystanders DEF WorkflowInv, OtherRequests
    <3> QED BY <2>1, <3>1 DEF ReqOK, RequestOK, Preparing, Returning, Locked
  <2> QED BY <1>3, <2>3, <2>4, <2>5, <2>6, <2>7, <2>8, <2>9, LocalStep
<1>7. CASE ~(Abort(t) /\ Lost)
  <2>1. /\ ~WriteLocked /\ \E v \in StartConfirmed(unit[a]) : unit' = [unit EXCEPT ![a] = v]
        /\ asg[a] = At("returning", p)
        /\ asg' = [asg EXCEPT ![a].workflow = "verifying"]
        /\ Await(t, "ready", a, todo)
        /\ UNCHANGED <<plan, lock, host, claim, guard, booted>>
    BY <1>1, <1>7 DEF Start, At
  <2>2. /\ unit' \in [Assignments -> {"running", "stopped"}] /\ unit'[a] = "running"
        /\ \A b \in Assignments \ {a} : unit'[b] = unit[b]
    BY <1>3, <1>4, <2>1 DEF WorkflowInv, TypeOK, StartConfirmed
  <2>3. /\ asg'[a] = At("verifying", p)
        /\ \A b \in Assignments \ {a} : asg'[b] = asg[b]
        /\ asg' \in [Assignments -> [workflow : MaintenanceWorkflowState,
                                     plan : Plans \cup {NoPlan}]]
    BY <1>3, <1>4, <2>1 DEF WorkflowInv, TypeOK, At, MaintenanceWorkflowState
  <2>4. /\ req' \in [Requests -> RequestRecords] /\ OtherRequests(t)
        /\ req'[t].pc = "ready" /\ req'[t].todo = todo
        /\ req'[t].plan = p /\ req'[t].row = req[t].row
    BY <1>1, <1>3, <1>4, <2>1, AwaitFacts DEF PCs, WorkflowInv
  <2>5. TypeOK'
    BY <1>2, <2>1, <2>2, <2>3, <2>4 DEF WorkflowInv, TypeOK, RequestRecords
  <2>6. Elsewhere(p)
    BY <1>2, <1>4, <2>1, <2>2, <2>3 DEF Elsewhere
  <2>7. PlanOK(p)' /\ GuardRecorded' /\ CapturedIsOriginal'
    BY <1>2, <1>3, <1>4, <2>1 DEF WorkflowInv, PlanOK, GuardRecorded, CapturedIsOriginal
  <2>8. ASSUME NEW b \in Targets(p) PROVE AsgOK(b)'
    <3>1. CASE b = a
      BY <1>3, <1>4, <2>1, <2>2, <2>3, <3>1 DEF WorkflowInv, AsgOK, At, Rebooted
    <3>2. CASE b # a
      BY <1>2, <1>3, <2>1, <2>2, <2>3, <3>2, RebootedSame DEF WorkflowInv, AsgOK
    <3> QED BY <3>1, <3>2
  <2>9. Layered(p)'
    BY <1>3, <1>5, <2>2
  <2>10. ReqOK(t)'
    <3>1. ReturnOK(req[t])'
      BY <1>2, <1>3, <1>4, <2>1, <2>2, <2>4 DEF ReturnOK
    <3> QED BY <1>3, <2>1, <2>4, <3>1 DEF ReqOK, RequestOK, Preparing, Locked
  <2> QED BY <1>1, <1>2, <1>3, <2>1, <2>4, <2>5, <2>6, <2>7, <2>8, <2>9, <2>10, WorkerStep
<1> QED BY <1>6, <1>7

\* Restoring a guard puts "all" back or leaves a row that is not restored.
LEMMA RestoreStep ==
  ASSUME WorkflowInv, NEW t \in Requests, Restore(t)
  PROVE  WorkflowInv'
<1>1. PICK p, c : p = req[t].plan /\ c = req[t].cur
  OBVIOUS
<1>2. req[t].pc = "restore" /\ UNCHANGED <<boot, unit>> /\ req[t].pc \in Working
  BY DEF Restore, Working, Returning
<1>3. /\ p \in Plans /\ plan[p] # "ready" /\ ReturnOK(req[t])
      /\ c \in Clusters /\ req[t].todo \subseteq Clusters
      /\ guard[p][c] \in [phase : GuardPhases \cup {"none"}, before : {"all", "primaries"}]
      /\ guard[p][c].before = "all"
  BY <1>1, <1>2, WorkerFacts
     DEF RequestOK, Returning, ReturnOK, WorkflowInv, CapturedIsOriginal, TypeOK, Locked
<1> DEFINE Lost == \E v \in {alloc[c], guard[p][c].before} : alloc' = [alloc EXCEPT ![c] = v]
<1>4. CASE Abort(t) /\ Lost
  <2>1. UNCHANGED guard /\ Lost
    BY <1>4 DEF Abort, rows
  <2>2. GuardRecorded' /\ alloc' \in [Clusters -> {"all", "primaries"}]
    BY <1>3, <2>1 DEF GuardRecorded, WorkflowInv, TypeOK
  <2> QED BY <1>2, <1>4, <2>2, AbortStep
<1>5. CASE ~(Abort(t) /\ Lost)
  <2>1. /\ ~WriteLocked /\ guard[p][c].phase # "none"
        /\ UNCHANGED <<plan, lock, host, asg, claim, booted>>
        /\ \/ \E d \in req[t].todo : Await(t, "restore", d, req[t].todo \ {d})
           \/ Await(t, "verify", NoItem, {})
        /\ \/ UNCHANGED <<alloc, guard>>
           \/ \E r \in RestoreResults(guard[p][c], alloc[c]) :
                /\ alloc' = [alloc EXCEPT ![c] = r.alloc]
                /\ guard' = [guard EXCEPT ![p][c].phase = r.phase]
    BY <1>1, <1>5 DEF Restore
  <2> DEFINE Waiting ==
        /\ req' \in [Requests -> RequestRecords] /\ OtherRequests(t)
        /\ req'[t].pc \in {"restore", "verify"}
        /\ req'[t].pc = "restore" => req'[t].cur \in Clusters /\ req'[t].todo \subseteq Clusters
        /\ req'[t].plan = p /\ req'[t].row = req[t].row
  <2>2. Waiting
    <3>1. CASE Await(t, "verify", NoItem, {})
      BY <1>1, <3>1, AwaitFacts DEF PCs, WorkflowInv
    <3>2. ASSUME NEW d \in req[t].todo, Await(t, "restore", d, req[t].todo \ {d})
          PROVE  Waiting
      BY <1>1, <1>3, <3>2, AwaitFacts DEF PCs, WorkflowInv
    <3> QED BY <2>1, <3>1, <3>2
  <2>3. ReqOK(t)'
    <3>1. ReturnOK(req[t])'
      BY <1>1, <1>3, <2>1, <2>2 DEF ReturnOK
    <3> QED BY <1>3, <2>1, <2>2, <3>1 DEF ReqOK, RequestOK, Preparing, Locked
  <2>4. CASE UNCHANGED <<alloc, guard>>
    <3>1. TypeOK' /\ GuardRecorded'
      BY <1>2, <2>1, <2>2, <2>4 DEF WorkflowInv, TypeOK, RequestRecords, GuardRecorded
    <3> QED BY <1>1, <1>2, <2>1, <2>2, <2>3, <2>4, <3>1, QuietStep DEF OtherRequests
  <2>5. ASSUME NEW r \in RestoreResults(guard[p][c], alloc[c]),
               alloc' = [alloc EXCEPT ![c] = r.alloc],
               guard' = [guard EXCEPT ![p][c].phase = r.phase]
        PROVE  WorkflowInv'
    <3> DEFINE g == [guard[p][c] EXCEPT !.phase = r.phase]
    <3>1. /\ r.phase \in GuardPhases /\ r.alloc \in {"all", "primaries"}
          /\ r.alloc = "primaries" => r.phase \in GuardPhases \ {"restored"}
      BY <1>3 DEF RestoreResults, GuardPhases, WorkflowInv, TypeOK
    <3>2. /\ g \in [phase : GuardPhases \cup {"none"}, before : {"all"}] /\ g.phase = r.phase
          /\ guard' = [guard EXCEPT ![p][c] = g]
      BY <1>3, <2>5, <3>1
    <3> HIDE DEF g
    <3> QED BY <1>1, <1>2, <1>3, <2>1, <2>2, <2>3, <2>5, <3>1, <3>2, WorkerGuardStep, ZenonT(60)
  <2> QED BY <2>1, <2>4, <2>5
<1> QED BY <1>4, <1>5

\* The last transaction of a return frees what it finds verified, so running.
LEMMA CompleteStep ==
  ASSUME WorkflowInv, NEW t \in Requests, req[t].pc \in {"verify", "cleanup"},
         Complete(t), UNCHANGED remote
  PROVE  /\ WorkflowInv'
         /\ \A a \in Targets(req[t].plan) :
              /\ boot[req[t].plan] # "booted" => unit[a] = "running"
              /\ claim[a] = req[t].plan
<1>1. PICK p : p = req[t].plan
  OBVIOUS
<1>2. /\ p \in Plans /\ req[t].pc \in Working
      /\ Targets(p) \subseteq Assignments /\ Target[p] \in Hosts /\ p # NoPlan
  BY <1>1, WorkerFacts, TargetsExist DEF Working, Returning
<1>3. /\ ~WriteLocked /\ Completable(p)
      /\ plan' = [plan EXCEPT ![p] = "succeeded"]
      /\ lock' = [lock EXCEPT ![p] = "none"]
      /\ asg' = [a \in Assignments |-> IF a \in Targets(p) THEN Unclaimed ELSE asg[a]]
      /\ claim' = [a \in Assignments |-> IF a \in Targets(p) THEN NoPlan ELSE claim[a]]
      /\ host' = [host EXCEPT ![Target[p]] = Available]
      /\ Done(t)
      /\ UNCHANGED <<guard, booted, boot, unit, alloc>>
  BY <1>1 DEF Complete, remote
<1>4. ASSUME NEW a \in Targets(p)
      PROVE  (boot[p] # "booted" => unit[a] = "running") /\ claim[a] = p
  <2>1. asg[a].workflow = "verifying" /\ claim[a] = p
    BY <1>3 DEF Completable
  <2>2. AsgOK(a) /\ unit[a] \in {"running", "stopped"}
    BY <1>2 DEF WorkflowInv, TypeOK
  <2> QED BY <1>2, <2>1, <2>2, RebootedTarget DEF AsgOK
<1>5. /\ req' \in [Requests -> RequestRecords] /\ OtherRequests(t)
      /\ ReqOK(t)' /\ req'[t].pc \notin Working
  BY <1>3, DoneFacts DEF WorkflowInv
<1>6. Available \in HostRows /\ Unclaimed.workflow = "available" /\ Unclaimed.plan = NoPlan
  BY DEF Available, Unclaimed, HostRows, HostMaintenanceState, MaintenanceWorkflowState
<1>7. TypeOK'
  <2>1. /\ plan' \in [Plans -> {"ready", "executing", "recovery_required", "succeeded"}]
        /\ lock' \in [Plans -> {"none", "live", "stale"}]
        /\ host' \in [Hosts -> HostRows]
    BY <1>2, <1>3, <1>6 DEF WorkflowInv, TypeOK
  <2>2. /\ asg' \in [Assignments -> [workflow : MaintenanceWorkflowState,
                                     plan : Plans \cup {NoPlan}]]
        /\ claim' \in [Assignments -> Plans \cup {NoPlan}]
    BY <1>2, <1>3 DEF WorkflowInv, TypeOK, Unclaimed, MaintenanceWorkflowState
  <2> QED BY <1>3, <1>5, <2>1, <2>2 DEF WorkflowInv, TypeOK, RequestRecords
<1>8. Elsewhere(p)
  BY <1>3 DEF Elsewhere, WorkflowInv, TypeOK
<1>9. PlanOK(p)' /\ plan'[p] # "ready"
  <2>1. host'[Target[p]] = Available /\ plan'[p] = "succeeded"
    BY <1>2, <1>3 DEF WorkflowInv, TypeOK
  <2> QED BY <2>1 DEF PlanOK, Available
<1>10. ASSUME NEW a \in Targets(p) PROVE AsgOK(a)'
  BY <1>2, <1>3, <1>4, <1>6, RebootedTarget DEF AsgOK
<1>11. Layered(p)' /\ GuardRecorded' /\ CapturedIsOriginal'
  BY <1>3, <1>4 DEF WorkflowInv, Layered, GuardRecorded, CapturedIsOriginal
<1> QED BY <1>1, <1>2, <1>3, <1>4, <1>5, <1>7, <1>8, <1>9, <1>10, <1>11, WorkerStep

\* The verification and the executor's cleanup.
LEMMA VerifyStep ==
  ASSUME WorkflowInv, NEW t \in Requests, Verify(t) \/ Cleanup(t)
  PROVE  WorkflowInv'
<1>1. req[t].pc \in {"verify", "cleanup"} /\ UNCHANGED remote
  BY DEF Verify, Cleanup
<1>2. CASE Complete(t)
  BY <1>1, <1>2, CompleteStep
<1>3. CASE Abort(t)
  <2>1. GuardRecorded' /\ alloc' \in [Clusters -> {"all", "primaries"}] /\ UNCHANGED <<boot, unit>>
    BY <1>1, <1>3 DEF GuardRecorded, WorkflowInv, Abort, rows, remote, TypeOK
  <2> QED BY <1>3, <2>1, AbortStep
<1>4. CASE Await(t, "cleanup", NoItem, {}) /\ UNCHANGED rows
  <2>1. /\ req' \in [Requests -> RequestRecords] /\ OtherRequests(t)
        /\ req'[t].pc = "cleanup" /\ req'[t].plan = req[t].plan /\ req'[t].row = req[t].row
    BY <1>4, AwaitFacts DEF PCs, WorkflowInv
  <2>2. TypeOK' /\ GuardRecorded'
    BY <1>1, <1>4, <2>1
       DEF WorkflowInv, TypeOK, RequestRecords, GuardRecorded, rows, remote
  <2>3. req[t].plan \in Plans /\ plan[req[t].plan] # "ready" /\ ReturnOK(req[t])
    BY <1>1, WorkerFacts DEF RequestOK, Returning, Locked
  <2>4. ReqOK(t)'
    <3>1. ReturnOK(req[t])'
      BY <1>4, <2>1, <2>3 DEF ReturnOK, rows
    <3> QED BY <1>4, <2>1, <2>3, <3>1 DEF ReqOK, RequestOK, Preparing, rows, Locked
  <2>5. req[t].pc \in Working
    BY <1>1 DEF Working, Returning
  <2> QED BY <1>1, <1>4, <2>1, <2>2, <2>4, <2>5, QuietStep DEF OtherRequests, rows, remote
<1> QED BY <1>2, <1>3, <1>4 DEF Verify, Cleanup

-----------------------------------------------------------------------------
\* Other requests and the passage of time

\* Locks are not part of the argument.
LEMMA ExpireLockStep ==
  ASSUME WorkflowInv, NEW p \in Plans, ExpireLock(p)
  PROVE  WorkflowInv'
<1>1. /\ lock' = [lock EXCEPT ![p] = "stale"]
      /\ UNCHANGED <<plan, host, asg, claim, guard, booted, req, boot, unit, alloc>>
  BY DEF ExpireLock, remote
<1>2. TypeOK' /\ GuardRecorded'
  BY <1>1 DEF WorkflowInv, TypeOK, GuardRecorded
<1> QED BY <1>1, <1>2, QuietStep

\* A host row in maintenance belongs to the plan of its host.
LEMMA HostPlan ==
  ASSUME WorkflowInv, NEW h \in Hosts, host[h].state = "maintenance"
  PROVE  /\ host[h].plan \in Plans /\ Target[host[h].plan] = h
         /\ plan[host[h].plan] # "ready"
<1>1. PICK p \in Plans : Target[p] = h
  BY DEF WorkflowInv, FreeHosts, Available
<1>2. PlanOK(p)
  BY DEF WorkflowInv
<1> QED BY <1>1, <1>2 DEF PlanOK, HostRowsOf, Row, Available

\* The manual exit and the manual recovery change the host row of a plan that is
\* in maintenance or returning: no stop and no preparation is in flight there,
\* and a return goes on without its host row.
LEMMA ManualStep ==
  ASSUME WorkflowInv, NEW h \in Hosts, ManualExit(h) \/ ManualRecovery(h)
  PROVE  WorkflowInv'
<1>1. PICK p \in Plans : p = host[h].plan /\ Target[p] = h /\ plan[p] # "ready"
  BY HostPlan DEF ManualExit, ManualRecovery
<1>2. /\ ~WriteLocked /\ host[h].state = "maintenance"
      /\ UNCHANGED <<asg, claim, guard, booted, req, boot, unit, alloc>>
  BY DEF ManualExit, ManualRecovery, remote
<1>3. /\ host' \in [Hosts -> HostRows]
      /\ host'[h] \in {Available, Recovering(p)}
      /\ \A g \in Hosts \ {h} : host'[g] = host[g]
  <2>1. Available \in HostRows /\ Recovering(p) \in HostRows
    BY DEF Available, Recovering, Row, HostRows, HostMaintenanceState, MaintenanceWorkflowState
  <2>2. CASE ManualExit(h)
    BY <2>1, <2>2 DEF ManualExit, WorkflowInv, TypeOK
  <2>3. CASE ManualRecovery(h)
    <3>1. host[h] \in HostRows
      BY DEF WorkflowInv, TypeOK
    <3>2. host' = [host EXCEPT ![h] = Recovering(p)]
      <4>1. [host[h] EXCEPT !.state = "recovery_required", !.workflow = "recovery_required"]
              = Recovering(p)
        <5>1. [host[h] EXCEPT !.state = "recovery_required"]
                = Row("recovery_required", host[h].workflow, p)
          BY <1>1, <3>1 DEF HostRows, Row
        <5>2. [Row("recovery_required", host[h].workflow, p)
                 EXCEPT !.workflow = "recovery_required"] = Recovering(p)
          BY DEF Recovering, Row
        <5> QED BY <5>1, <5>2
      <4>2. host' = [host EXCEPT ![h] = [host[h] EXCEPT !.state = "recovery_required",
                                                        !.workflow = "recovery_required"]]
        BY <2>3 DEF ManualRecovery, WorkflowInv, TypeOK
      <4> QED BY <4>1, <4>2
    <3> QED BY <2>1, <3>2 DEF WorkflowInv, TypeOK
  <2> QED BY <2>2, <2>3
<1>4. /\ plan'[p] # "ready" /\ \A q \in Plans \ {p} : plan'[q] = plan[q]
      /\ plan' \in [Plans -> {"ready", "executing", "recovery_required", "succeeded"}]
      /\ lock' \in [Plans -> {"none", "live", "stale"}]
  <2>1. CASE ManualExit(h)
    <3>1. plan' = [plan EXCEPT ![p] = "succeeded"] /\ lock' = [lock EXCEPT ![p] = "none"]
      BY <1>1, <2>1 DEF ManualExit
    <3> QED BY <3>1 DEF WorkflowInv, TypeOK
  <2>2. CASE ManualRecovery(h)
    <3>1. plan' = [plan EXCEPT ![p] = "recovery_required"] /\ UNCHANGED lock
      BY <1>1, <2>2 DEF ManualRecovery
    <3> QED BY <3>1 DEF WorkflowInv, TypeOK
  <2> QED BY <2>1, <2>2
<1>5. TypeOK' /\ GuardRecorded' /\ CapturedIsOriginal' /\ DependentsStopFirst'
  <2>1. DependentsStopFirst'
    BY <1>2, RebootedSame DEF WorkflowInv, DependentsStopFirst
  <2> QED BY <1>2, <1>3, <1>4, <2>1 DEF WorkflowInv, TypeOK, GuardRecorded, CapturedIsOriginal
<1>6. FreeHosts'
  BY <1>1, <1>3 DEF WorkflowInv, FreeHosts
<1>7. ASSUME NEW q \in Plans PROVE PlanOK(q)'
  <2>1. CASE q = p
    BY <1>1, <1>3, <1>4, <2>1 DEF PlanOK, HostRowsOf, Recovering, Row, Available
  <2>2. CASE q # p
    <3>1. Target[q] # h /\ Target[q] \in Hosts
      BY <1>1, <2>2, TopologyAssumption
    <3> QED BY <1>2, <1>3, <1>4, <2>2, <3>1 DEF WorkflowInv, PlanOK
  <2> QED BY <2>1, <2>2
<1>8. ASSUME NEW a \in Assignments PROVE AsgOK(a)'
  <2>1. asg[a].plan # NoPlan => asg[a].plan \in Plans
    BY DEF WorkflowInv, TypeOK
  <2> QED BY <1>2, <1>4, <2>1 DEF WorkflowInv, AsgOK, Rebooted
<1>9. Elsewhere(p)
  BY <1>1, <1>2, <1>3, <1>4 DEF Elsewhere
<1>10. ASSUME NEW u \in Requests PROVE ReqOK(u)'
  <2>1. req'[u] = req[u] /\ RequestOK(req[u])
    BY <1>2 DEF WorkflowInv, ReqOK
  <2>2. PICK r : r = req[u]
    OBVIOUS
  <2>3. CASE r.plan # p
    BY <1>9, <2>1, <2>2, <2>3, RequestFrame DEF ReqOK
  <2>4. CASE r.plan = p
    <3>1. r.pc \notin Preparing
      BY <1>1, <1>2, <2>1, <2>2, <2>4 DEF RequestOK, PrepareOK, Row, Recovering, Locked
    <3>2. r.pc # "stop"
      BY <1>1, <1>2, <2>1, <2>2, <2>4 DEF RequestOK, StopOK, Row, Recovering, Locked
    <3>3. r.pc \notin Locked
      BY <1>2, <2>2 DEF WriteLocked, Locked
    <3>4. r.pc \in Returning => ReturnOK(r)'
      BY <1>1, <1>2, <1>3, <2>1, <2>2, <2>4
         DEF RequestOK, ReturnOK, Recovering, Row, Available, Locked
    <3> QED BY <1>4, <2>1, <2>2, <2>4, <3>1, <3>2, <3>3, <3>4 DEF ReqOK, RequestOK, Locked
  <2> QED BY <2>3, <2>4
<1>11. OneWorker'
  BY <1>2 DEF WorkflowInv, OneWorker
<1> QED BY <1>5, <1>6, <1>7, <1>8, <1>10, <1>11 DEF WorkflowInv

\* What recovery leaves of the rows.
LEMMA ReconcileRows ==
  ASSUME WorkflowInv, NEW P \in SUBSET Plans, ReconcilePlans(P),
         \A p \in P : plan[p] # "ready",
         req' \in [Requests -> RequestRecords]
  PROVE  /\ TypeOK' /\ FreeHosts' /\ DependentsStopFirst' /\ GuardRecorded'
         /\ CapturedIsOriginal'
         /\ \A p \in Plans : PlanOK(p)'
         /\ \A a \in Assignments : AsgOK(a)'
<1>1. /\ plan' = [p \in Plans |-> IF p \in P THEN "recovery_required" ELSE plan[p]]
      /\ host' = [h \in Hosts |-> IF host[h].plan \in P THEN Recovering(host[h].plan)
                                  ELSE host[h]]
      /\ asg' = [a \in Assignments |-> IF asg[a].plan \in P
                                       THEN [asg[a] EXCEPT !.workflow = "recovery_required"]
                                       ELSE asg[a]]
      /\ UNCHANGED <<lock, claim, guard, booted, boot, unit, alloc>>
  BY DEF ReconcilePlans, remote, Recovering, Row
<1>2. ASSUME NEW a \in Assignments
      PROVE  /\ asg[a] \in [workflow : MaintenanceWorkflowState, plan : Plans \cup {NoPlan}]
             /\ asg'[a].plan = asg[a].plan
             /\ asg'[a] = IF asg[a].plan \in P THEN At("recovery_required", asg[a].plan)
                          ELSE asg[a]
  BY <1>1 DEF WorkflowInv, TypeOK, At
<1>3. TypeOK'
  <2>1. plan' \in [Plans -> {"ready", "executing", "recovery_required", "succeeded"}]
    BY <1>1 DEF WorkflowInv, TypeOK
  <2>2. \A q \in Plans \cup {NoPlan} : Recovering(q) \in HostRows
    BY DEF Recovering, Row, HostRows, HostMaintenanceState, MaintenanceWorkflowState
  <2>3. \A h \in Hosts : host[h] \in HostRows /\ host[h].plan \in Plans \cup {NoPlan}
    BY DEF WorkflowInv, TypeOK, HostRows
  <2>4. host' \in [Hosts -> HostRows]
    BY <1>1, <2>2, <2>3
  <2>5. asg' \in [Assignments -> [workflow : MaintenanceWorkflowState,
                                  plan : Plans \cup {NoPlan}]]
    <3>1. \A q \in Plans : At("recovery_required", q) \in
            [workflow : MaintenanceWorkflowState, plan : Plans \cup {NoPlan}]
      BY DEF At, MaintenanceWorkflowState
    <3>2. asg' = [a \in Assignments |-> asg'[a]]
      BY <1>1
    <3> QED BY <1>2, <3>1, <3>2
  <2> QED BY <1>1, <2>1, <2>4, <2>5 DEF WorkflowInv, TypeOK, RequestRecords
<1>4. FreeHosts'
  BY <1>1, TopologyAssumption DEF WorkflowInv, FreeHosts, Available
<1>5. DependentsStopFirst' /\ GuardRecorded' /\ CapturedIsOriginal'
  BY <1>1 DEF WorkflowInv, DependentsStopFirst, GuardRecorded, CapturedIsOriginal, Rebooted
<1>6. ASSUME NEW p \in Plans PROVE PlanOK(p)'
  <2>1. PlanOK(p) /\ Target[p] \in Hosts /\ Targets(p) \subseteq Assignments
    BY TargetsExist DEF WorkflowInv
  <2>2. CASE host[Target[p]].plan \in P
    <3>1. host[Target[p]].plan = p
      BY <2>1, <2>2, TopologyAssumption DEF PlanOK, HostRowsOf, Row, Available
    <3>2. host'[Target[p]] = Recovering(p) /\ plan'[p] # "ready"
      BY <1>1, <2>1, <2>2, <3>1
    <3> QED BY <3>2 DEF PlanOK, HostRowsOf, Recovering, Row
  <2>3. CASE host[Target[p]].plan \notin P
    <3>1. host'[Target[p]] = host[Target[p]]
      BY <1>1, <2>1, <2>3
    <3>2. CASE host[Target[p]] = Available
      BY <3>1, <3>2 DEF PlanOK, Available
    <3>3. CASE host[Target[p]] # Available
      <4>1. p \notin P /\ host[Target[p]] \in HostRowsOf(p)
        BY <2>1, <2>3, <3>3 DEF PlanOK, HostRowsOf, Row
      <4>2. plan'[p] = plan[p]
        BY <1>1, <4>1
      <4>3. \A a \in Targets(p) : asg[a].plan = p => asg'[a] = asg[a]
        BY <1>2, <2>1, <4>1
      <4> QED BY <2>1, <3>1, <4>2, <4>3 DEF PlanOK, At
    <3> QED BY <3>2, <3>3
  <2> QED BY <2>2, <2>3
<1>7. ASSUME NEW a \in Assignments PROVE AsgOK(a)'
  <2>1. asg[a].plan # NoPlan => asg[a].plan \in Plans /\ plan'[asg[a].plan] # "ready"
    BY <1>1, <1>2 DEF WorkflowInv, AsgOK, Rebooted
  <2>2. /\ AsgOK(a) /\ claim'[a] = claim[a] /\ unit'[a] = unit[a]
        /\ Rebooted(HostOf[a])' <=> Rebooted(HostOf[a])
    BY <1>1, RebootedSame DEF WorkflowInv
  <2>3. CASE asg[a].plan \in P
    <3>1. asg[a].plan # NoPlan
      BY <2>3, TopologyAssumption
    <3>2. asg'[a] = At("recovery_required", asg[a].plan)
      BY <1>2, <2>3
    <3>3. asg'[a].plan = asg[a].plan /\ asg'[a].workflow = "recovery_required"
      BY <3>2 DEF At
    <3> QED BY <2>1, <2>2, <3>1, <3>3 DEF AsgOK
  <2>4. CASE asg[a].plan \notin P
    BY <1>2, <2>1, <2>2, <2>4 DEF AsgOK
  <2> QED BY <2>3, <2>4
<1> QED BY <1>3, <1>4, <1>5, <1>6, <1>7

\* The recovery of one plan finds its requests in flight and leaves them rows of
\* which every stage refuses the next write.
LEMMA ReconcileStep ==
  ASSUME WorkflowInv, NEW p \in Plans, Reconcile(p)
  PROVE  WorkflowInv'
<1>1. /\ ~WriteLocked /\ plan[p] \in {"executing", "recovery_required"}
      /\ ReconcilePlans({p}) /\ UNCHANGED req
  BY DEF Reconcile
<1>2. req' \in [Requests -> RequestRecords] /\ {p} \in SUBSET Plans
  BY <1>1 DEF WorkflowInv, TypeOK, RequestRecords
<1>3. /\ TypeOK' /\ FreeHosts' /\ DependentsStopFirst' /\ GuardRecorded'
      /\ CapturedIsOriginal'
      /\ \A q \in Plans : PlanOK(q)'
      /\ \A a \in Assignments : AsgOK(a)'
  <2>1. \A q \in {p} : plan[q] # "ready"
    BY <1>1
  <2> HIDE DEF ReconcilePlans
  <2> QED BY <1>1, <1>2, <2>1, ReconcileRows
<1>4. /\ plan' = [q \in Plans |-> IF q = p THEN "recovery_required" ELSE plan[q]]
      /\ host' = [h \in Hosts |-> IF host[h].plan = p THEN Recovering(p) ELSE host[h]]
      /\ \A a \in Assignments : asg'[a] = IF asg[a].plan = p THEN At("recovery_required", p)
                                          ELSE asg[a]
      /\ UNCHANGED <<guard, boot, unit>>
  BY <1>1 DEF ReconcilePlans, remote, Recovering, Row, At, WorkflowInv, TypeOK
<1>5. ASSUME NEW u \in Requests PROVE ReqOK(u)'
  <2>1. req'[u] = req[u] /\ RequestOK(req[u])
    BY <1>1 DEF WorkflowInv, ReqOK
  <2>2. PICK r : r = req[u]
    OBVIOUS
  <2>3. CASE r.pc = "idle"
    BY <2>1, <2>2, <2>3 DEF ReqOK, RequestOK, Preparing, Returning, Locked
  <2>4. CASE r.pc # "idle"
    <3>1. /\ r.plan \in Plans /\ plan'[r.plan] # "ready" /\ r.pc \notin Locked
          /\ Target[r.plan] \in Hosts /\ Targets(r.plan) \subseteq Assignments
          /\ PlanOK(r.plan)
      BY <1>1, <1>4, <2>1, <2>2, <2>4, TargetsExist DEF RequestOK, WriteLocked, WorkflowInv, Locked
    <3>2. host'[Target[r.plan]] = IF host[Target[r.plan]].plan = p THEN Recovering(p)
                                  ELSE host[Target[r.plan]]
      BY <1>4, <3>1
    <3>3. host[Target[r.plan]].plan = p => r.plan = p
      BY <3>1, TopologyAssumption DEF PlanOK, HostRowsOf, Row, Available
    <3>4. ASSUME NEW a \in Targets(r.plan), NEW w, asg[a] = At(w, r.plan)
          PROVE  asg'[a] = IF r.plan = p THEN At("recovery_required", r.plan) ELSE At(w, r.plan)
      BY <1>4, <3>1, <3>4 DEF At
    <3>5. r.pc \in Preparing => PrepareOK(r)'
      BY <1>4, <2>1, <2>2, <3>2, <3>3 DEF RequestOK, PrepareOK, Locked
    <3>6. r.pc = "stop" => StopOK(r)'
      <4> HAVE r.pc = "stop"
      <4>1. StopOK(r)
        BY <2>1, <2>2 DEF RequestOK, Locked
      <4>2. CASE r.plan = p
        <5>1. host[Target[p]].plan = p
          BY <4>1, <4>2 DEF StopOK, Row, Recovering
        <5>2. host'[Target[p]] = Recovering(p) /\ Recovering(p) # r.row
          BY <3>2, <4>1, <4>2, <5>1 DEF StopOK, Row, Recovering
        <5> QED BY <1>4, <3>4, <4>1, <4>2, <5>2 DEF StopOK
      <4>3. CASE r.plan # p
        <5>1. host'[Target[r.plan]] = host[Target[r.plan]]
          BY <3>2, <3>3, <4>3
        <5> QED BY <1>4, <3>4, <4>1, <4>3, <5>1 DEF StopOK
      <4> QED BY <4>2, <4>3
    <3>7. r.pc \in Returning => ReturnOK(r)'
      <4> HAVE r.pc \in Returning
      <4>1. ReturnOK(r)
        BY <2>1, <2>2 DEF RequestOK, Locked
      <4>2. host'[Target[r.plan]].workflow \in {"returning", "recovery_required", "available"}
        BY <3>2, <4>1 DEF ReturnOK, Recovering, Row
      <4> QED BY <1>4, <3>4, <4>1, <4>2 DEF ReturnOK
    <3> QED BY <2>1, <2>2, <2>4, <3>1, <3>5, <3>6, <3>7 DEF ReqOK, RequestOK, Locked
  <2> QED BY <2>3, <2>4
<1>6. OneWorker'
  BY <1>1 DEF WorkflowInv, OneWorker
<1> QED BY <1>3, <1>5, <1>6 DEF WorkflowInv

\* After a restart no request is left.
LEMMA RestartStep ==
  ASSUME WorkflowInv, Restart
  PROVE  WorkflowInv'
<1> DEFINE P == {p \in Plans : plan[p] \in {"executing", "recovery_required"}}
<1>1. ReconcilePlans(P) /\ req' = [t \in Requests |-> Idle]
  BY DEF Restart
<1>2. req' \in [Requests -> RequestRecords] /\ P \in SUBSET Plans /\ \A p \in P : plan[p] # "ready"
  BY <1>1, IdleType
<1>3. /\ TypeOK' /\ FreeHosts' /\ DependentsStopFirst' /\ GuardRecorded'
      /\ CapturedIsOriginal'
      /\ \A q \in Plans : PlanOK(q)'
      /\ \A a \in Assignments : AsgOK(a)'
  <2> HIDE DEF P, ReconcilePlans
  <2> QED BY <1>1, <1>2, ReconcileRows
<1>4. \A t \in Requests : ReqOK(t)'
  BY <1>1 DEF ReqOK, RequestOK, Idle, Preparing, Returning, Locked
<1>5. OneWorker'
  BY <1>1 DEF OneWorker, Idle, Working, Preparing, Returning, Locked
<1> QED BY <1>3, <1>4, <1>5 DEF WorkflowInv

-----------------------------------------------------------------------------
\* The initial state
LEMMA InitWorkflow == Init => WorkflowInv
<1> SUFFICES ASSUME Init PROVE WorkflowInv
  OBVIOUS
<1>1. TypeOK
  <2>1. Available \in HostRows /\ Idle \in RequestRecords
    BY IdleType DEF Available, HostRows, HostMaintenanceState, MaintenanceWorkflowState
  <2> QED BY <2>1 DEF Init, TypeOK, RequestRecords, Unclaimed, NoGuard, MaintenanceWorkflowState
<1>2. FreeHosts /\ (\A p \in Plans : PlanOK(p))
  BY TargetsExist DEF Init, FreeHosts, PlanOK, Available
<1>3. \A a \in Assignments : AsgOK(a)
  BY DEF Init, AsgOK, Unclaimed, Rebooted
<1>4. DependentsStopFirst /\ GuardRecorded /\ CapturedIsOriginal
  BY DEF Init, DependentsStopFirst, GuardRecorded, CapturedIsOriginal, NoGuard, Rebooted
<1>5. (\A t \in Requests : ReqOK(t)) /\ OneWorker
  BY DEF Init, ReqOK, RequestOK, OneWorker, Idle, Working, Preparing, Returning, Locked
<1> QED BY <1>1, <1>2, <1>3, <1>4, <1>5 DEF WorkflowInv

-----------------------------------------------------------------------------
\* How far the reboot came

\* A step that leaves the reboots alone: it opens no preparation and no stop of a
\* host that went on to its reboot, and takes no row from under the dispatch.
LEMMA UnbootedStep ==
  ASSUME RebootInv, UNCHANGED <<boot, booted>>,
         \A p \in Plans : plan'[p] = "ready" => plan[p] = "ready",
         \A p \in Plans :
           \/ host'[Target[p]] = host[Target[p]]
           \/ /\ ~WriteLocked
              /\ host'[Target[p]].workflow \in {"preparing", "ready_to_stop", "stopping"} =>
                   boot[p] = "none",
         \A p \in Plans : boot[p] = "booted" =>
           \A a \in Targets(p) : unit[a] = "running" => unit'[a] = "running",
         \A u \in Requests :
           \/ req'[u] = req[u]
           \/ /\ req'[u].pc \notin Locked
              /\ req'[u].pc \in Preparing \cup {"stop"} => boot[req'[u].plan] = "none",
         \A u \in Requests : req[u].pc \in Locked => req[u].plan \in Plans
  PROVE  RebootInv'
<1>1. OneWriter'
  BY DEF RebootInv, OneWriter
<1>2. ASSUME NEW p \in Plans PROVE BootOK(p)'
  <2>1. BootOK(p)
    BY DEF RebootInv
  <2>2. host'[Target[p]].workflow \in {"preparing", "ready_to_stop", "stopping"} =>
          boot'[p] = "none"
    BY <2>1 DEF BootOK
  <2>3. booted'[p] => boot'[p] = "booted" /\ \A a \in Targets(p) : unit'[a] = "running"
    BY <2>1 DEF BootOK
  <2> QED BY <2>1, <2>2, <2>3 DEF BootOK
<1>3. ASSUME NEW u \in Requests PROVE RebootOK(req[u])'
  <2>1. RebootOK(req[u])
    BY DEF RebootInv
  <2>2. CASE req'[u] = req[u]
    <3>1. req[u].pc \in Locked => host'[Target[req[u].plan]] = host[Target[req[u].plan]]
      BY DEF WriteLocked, Locked
    <3> QED BY <2>1, <2>2, <3>1 DEF RebootOK
  <2>3. CASE req'[u] # req[u]
    BY <2>3 DEF RebootOK, Locked
  <2> QED BY <2>2, <2>3
<1> QED BY <1>1, <1>2, <1>3 DEF RebootInv

\* The plans of the requests in flight.
LEMMA InFlight ==
  ASSUME WorkflowInv, NEW u \in Requests, req[u].pc # "idle"
  PROVE  req[u].plan \in Plans
BY WorkerFacts

\* A failed stage takes its request away and nothing else.
LEMMA AbortUnbooted ==
  ASSUME WorkflowInv, RebootInv, NEW t \in Requests, Abort(t), UNCHANGED boot,
         \A p \in Plans : boot[p] = "booted" =>
           \A a \in Targets(p) : unit[a] = "running" => unit'[a] = "running"
  PROVE  RebootInv'
<1>1. UNCHANGED <<plan, host, booted>> /\ Done(t)
  BY DEF Abort, rows, Done
<1>2. OtherRequests(t) /\ req'[t] = Idle
  BY <1>1, DoneFacts DEF WorkflowInv
<1>3. \A u \in Requests : req[u].pc \in Locked => req[u].plan \in Plans
  BY InFlight DEF Locked
<1>4. \A u \in Requests :
        \/ req'[u] = req[u]
        \/ /\ req'[u].pc \notin Locked
           /\ req'[u].pc \in Preparing \cup {"stop"} => boot[req'[u].plan] = "none"
  BY <1>2 DEF OtherRequests, Idle, Locked, Preparing
<1> QED BY <1>1, <1>3, <1>4, UnbootedStep

\* The request goes on to a call of its own stage.
LEMMA AwaitUnbooted ==
  ASSUME WorkflowInv, RebootInv, NEW t \in Requests, NEW pc, NEW cur, NEW todo,
         Await(t, pc, cur, todo), pc \notin Locked,
         pc \in Preparing \cup {"stop"} => boot[req[t].plan] = "none"
  PROVE  \A u \in Requests :
           \/ req'[u] = req[u]
           \/ /\ req'[u].pc \notin Locked
              /\ req'[u].pc \in Preparing \cup {"stop"} => boot[req'[u].plan] = "none"
<1>1. req \in [Requests -> RequestRecords]
  BY DEF WorkflowInv, TypeOK, RequestRecords
<1>2. /\ \A u \in Requests \ {t} : req'[u] = req[u]
      /\ req'[t].pc = pc /\ req'[t].plan = req[t].plan
  BY <1>1 DEF Await, RequestRecords
<1> QED BY <1>2

\* A request ends.
LEMMA DoneUnbooted ==
  ASSUME WorkflowInv, NEW t \in Requests, Done(t)
  PROVE  \A u \in Requests :
           \/ req'[u] = req[u]
           \/ /\ req'[u].pc \notin Locked
              /\ req'[u].pc \in Preparing \cup {"stop"} => boot[req'[u].plan] = "none"
<1>1. OtherRequests(t) /\ req'[t] = Idle
  BY DoneFacts DEF WorkflowInv
<1> QED BY <1>1 DEF OtherRequests, Idle, Locked, Preparing

\* A request begins.
LEMMA BeginUnbooted ==
  ASSUME WorkflowInv, NEW t \in Requests, NEW p, NEW pc, NEW cur, NEW todo, NEW row,
         Begin(t, p, pc, cur, todo, row), pc \notin Locked,
         pc \in Preparing \cup {"stop"} => boot[p] = "none"
  PROVE  \A u \in Requests :
           \/ req'[u] = req[u]
           \/ /\ req'[u].pc \notin Locked
              /\ req'[u].pc \in Preparing \cup {"stop"} => boot[req'[u].plan] = "none"
BY DEF WorkflowInv, TypeOK, Begin

\* prepare and stop_workloads speak of hosts that were never sent to reboot.
LEMMA PrepareUnbooted ==
  ASSUME WorkflowInv, RebootInv, NEW t \in Requests,
         \/ \E p \in Plans : BeginPrepare(t, p) \/ BeginStop(t, p)
         \/ Capture(t) \/ Activate(t) \/ Stop(t)
  PROVE  RebootInv'
<1>1. \A u \in Requests : req[u].pc \in Locked => req[u].plan \in Plans
  BY InFlight DEF Locked
<1>2. ASSUME NEW p \in Plans, BeginPrepare(t, p) PROVE RebootInv'
  <2>1. /\ UNCHANGED <<booted, boot, unit>> /\ ~WriteLocked /\ plan[p] = "ready"
        /\ plan' = [plan EXCEPT ![p] = "executing"]
    BY <1>2 DEF BeginPrepare, remote
  <2>2. boot[p] = "none"
    BY <2>1 DEF RebootInv, BootOK
  <2>3. \A h \in Hosts \ {Target[p]} : host'[h] = host[h]
    BY <1>2 DEF BeginPrepare, WorkflowInv, TypeOK
  <2>4. \A u \in Requests :
          \/ req'[u] = req[u]
          \/ /\ req'[u].pc \notin Locked
             /\ req'[u].pc \in Preparing \cup {"stop"} => boot[req'[u].plan] = "none"
    <3>1. \/ UNCHANGED req
          \/ \E c, todo, row : Begin(t, p, "capture", c, todo, row)
      BY <1>2 DEF BeginPrepare
    <3> QED BY <2>2, <3>1, BeginUnbooted DEF Locked
  <2>5. \A q \in Plans : q = p \/ Target[q] \in Hosts \ {Target[p]}
    BY TopologyAssumption
  <2>6. \A q \in Plans : plan'[q] = "ready" => plan[q] = "ready"
    BY <2>1 DEF WorkflowInv, TypeOK
  <2> QED BY <1>1, <2>1, <2>2, <2>3, <2>4, <2>5, <2>6, UnbootedStep
<1>3. ASSUME NEW p \in Plans, BeginStop(t, p) PROVE RebootInv'
  <2>1. /\ UNCHANGED <<booted, boot, unit, plan>> /\ ~WriteLocked
        /\ host[Target[p]].workflow = "ready_to_stop"
        /\ \E a, todo, row : Begin(t, p, "stop", a, todo, row)
        /\ host' = [host EXCEPT ![Target[p]] = HostStopping(@)]
    BY <1>3 DEF BeginStop, StageOpen, remote
  <2>2. boot[p] = "none"
    BY <2>1 DEF RebootInv, BootOK
  <2>3. \A h \in Hosts \ {Target[p]} : host'[h] = host[h]
    BY <2>1 DEF WorkflowInv, TypeOK
  <2>4. \A u \in Requests :
          \/ req'[u] = req[u]
          \/ /\ req'[u].pc \notin Locked
             /\ req'[u].pc \in Preparing \cup {"stop"} => boot[req'[u].plan] = "none"
    BY <2>1, <2>2, BeginUnbooted DEF Locked
  <2>5. \A q \in Plans : q = p \/ Target[q] \in Hosts \ {Target[p]}
    BY TopologyAssumption
  <2> QED BY <1>1, <2>1, <2>2, <2>3, <2>4, <2>5, UnbootedStep
<1>4. ASSUME Capture(t) \/ Activate(t) \/ Stop(t) PROVE RebootInv'
  <2>1. PICK p : p = req[t].plan
    OBVIOUS
  <2>2. req[t].pc \in Preparing \cup {"stop"} /\ UNCHANGED boot
    BY <1>4 DEF Capture, Activate, Stop, remote, Preparing
  <2>3. /\ p \in Plans /\ boot[p] = "none"
        /\ Target[p] \in Hosts /\ \A q \in Plans : q = p \/ Target[q] \in Hosts \ {Target[p]}
    BY <2>1, <2>2, InFlight, TopologyAssumption DEF RebootInv, RebootOK, Preparing
  <2>4. ASSUME NEW q \in Plans, boot[q] = "booted", NEW a \in Targets(q), unit[a] = "running"
        PROVE  unit'[a] = "running"
    <3>1. q # p /\ a \in Assignments /\ a \notin Targets(p)
      BY <2>3, <2>4, TargetsApart, TargetsExist
    <3>2. req[t].pc = "stop" => req[t].cur \in Targets(p)
      BY <2>1, <2>2, WorkerFacts DEF RequestOK, StopOK
    <3>3. unit' = unit \/ (req[t].pc = "stop" /\ \E v : unit' = [unit EXCEPT ![req[t].cur] = v])
      BY <1>4 DEF Capture, Activate, Stop, remote
    <3> QED BY <2>4, <3>1, <3>2, <3>3 DEF WorkflowInv, TypeOK
  <2>5. CASE Abort(t)
    BY <2>2, <2>4, <2>5, AbortUnbooted
  <2>6. CASE ~Abort(t)
    <3>1. ~WriteLocked /\ UNCHANGED <<booted, plan>>
      BY <1>4, <2>6 DEF Capture, Activate, Stop
    <3>2. \A h \in Hosts \ {Target[p]} : host'[h] = host[h]
      BY <1>4, <2>1, <2>3, <2>6, ZenonT(60) DEF Capture, Activate, Stop, WorkflowInv, TypeOK
    <3>3. \/ Done(t)
          \/ \E pc \in Preparing \cup {"stop"} : \E cur, todo : Await(t, pc, cur, todo)
      BY <1>4, <2>6 DEF Capture, Activate, Stop, Preparing
    <3>4. \A u \in Requests :
            \/ req'[u] = req[u]
            \/ /\ req'[u].pc \notin Locked
               /\ req'[u].pc \in Preparing \cup {"stop"} => boot[req'[u].plan] = "none"
      <4>1. CASE Done(t)
        BY <4>1, DoneUnbooted
      <4>2. ASSUME NEW pc \in Preparing \cup {"stop"}, NEW cur, NEW todo,
                   Await(t, pc, cur, todo)
            PROVE  \A u \in Requests :
                     \/ req'[u] = req[u]
                     \/ /\ req'[u].pc \notin Locked
                        /\ req'[u].pc \in Preparing \cup {"stop"} => boot[req'[u].plan] = "none"
        <5>1. pc \notin Locked
          BY DEF Preparing, Locked
        <5> QED BY <2>1, <2>3, <4>2, <5>1, AwaitUnbooted
      <4> QED BY <3>3, <4>1, <4>2
    <3> QED BY <1>1, <2>2, <2>3, <2>4, <3>1, <3>2, <3>4, UnbootedStep
  <2> QED BY <2>5, <2>6
<1> QED BY <1>2, <1>3, <1>4

\* return_to_service, the manual exit, recovery and time only ever start units and
\* leave the host row in a state from which nothing is stopped.
LEMMA ReturnUnbooted ==
  ASSUME WorkflowInv, RebootInv, NEW t \in Requests,
         \/ \E p \in Plans : BeginReturn(t, p)
         \/ HostReady(t) \/ Start(t) \/ Restore(t) \/ Verify(t) \/ Cleanup(t)
  PROVE  RebootInv'
<1> DEFINE Free == \A u \in Requests :
        \/ req'[u] = req[u]
        \/ /\ req'[u].pc \notin Locked
           /\ req'[u].pc \in Preparing \cup {"stop"} => boot[req'[u].plan] = "none"
<1>1. \A u \in Requests : req[u].pc \in Locked => req[u].plan \in Plans
  BY InFlight DEF Locked
<1>2. ASSUME NEW p \in Plans, BeginReturn(t, p) PROVE RebootInv'
  <2>1. /\ UNCHANGED <<booted, boot, unit, plan>> /\ ~WriteLocked
        /\ Begin(t, p, "host-ready", NoItem, Targets(p), [host[Target[p]] EXCEPT !.workflow = "returning"])
        /\ host' = [host EXCEPT ![Target[p]] = [host[Target[p]] EXCEPT !.workflow = "returning"]]
    BY <1>2 DEF BeginReturn, StageOpen, remote
  <2>2. /\ \A h \in Hosts \ {Target[p]} : host'[h] = host[h]
        /\ host'[Target[p]].workflow = "returning"
    BY <2>1, TargetsExist DEF WorkflowInv, TypeOK, HostRows
  <2>3. \A q \in Plans : q = p \/ Target[q] \in Hosts \ {Target[p]}
    BY TopologyAssumption
  <2>4. Free
    BY <2>1, BeginUnbooted DEF Locked, Preparing
  <2> HIDE DEF Free
  <2> QED BY <1>1, <2>1, <2>2, <2>3, <2>4, UnbootedStep DEF Free
<1>3. ASSUME HostReady(t) \/ Start(t) \/ Restore(t) \/ Verify(t) \/ Cleanup(t)
      PROVE  RebootInv'
  <2>1. PICK p : p = req[t].plan
    OBVIOUS
  <2>2. req[t].pc \in Returning /\ UNCHANGED boot
    BY <1>3 DEF HostReady, Start, Restore, Verify, Cleanup, Returning, remote
  <2>3. p \in Plans /\ \A q \in Plans : q = p \/ Target[q] \in Hosts \ {Target[p]}
    BY <2>1, <2>2, InFlight, TopologyAssumption DEF Returning
  <2>4. ASSUME NEW a \in Assignments, unit[a] = "running" PROVE unit'[a] = "running"
    <3>1. \/ UNCHANGED unit
          \/ \E b, v : v \in {unit[b], "running"} /\ unit' = [unit EXCEPT ![b] = v]
      BY <1>3 DEF HostReady, Start, Restore, Verify, Cleanup, remote, StartConfirmed
    <3> QED BY <2>4, <3>1 DEF WorkflowInv, TypeOK
  <2>5. \A q \in Plans : boot[q] = "booted" =>
          \A a \in Targets(q) : unit[a] = "running" => unit'[a] = "running"
    BY <2>4, TargetsExist
  <2>6. CASE Abort(t)
    BY <2>2, <2>5, <2>6, AbortUnbooted
  <2>7. CASE Complete(t)
    <3>1. /\ ~WriteLocked /\ UNCHANGED booted /\ Done(t)
          /\ plan' = [plan EXCEPT ![p] = "succeeded"]
          /\ host' = [host EXCEPT ![Target[p]] = Available]
      BY <2>1, <2>7 DEF Complete
    <3>2. /\ \A h \in Hosts \ {Target[p]} : host'[h] = host[h]
          /\ host'[Target[p]].workflow = "available"
          /\ \A q \in Plans : plan'[q] = "ready" => plan[q] = "ready"
      BY <2>3, <3>1, TargetsExist DEF WorkflowInv, TypeOK, Available
    <3>3. Free
      BY <3>1, DoneUnbooted
    <3> HIDE DEF Free
    <3> QED BY <1>1, <2>2, <2>3, <2>5, <3>1, <3>2, <3>3, UnbootedStep DEF Free
  <2>8. CASE ~Abort(t) /\ ~Complete(t)
    <3>1. /\ UNCHANGED <<plan, host, booted>>
          /\ \E pc \in Returning : \E cur, todo : Await(t, pc, cur, todo)
      BY <1>3, <2>8 DEF HostReady, ReturnNext, Start, Restore, Verify, Cleanup, Returning, rows
    <3>2. PICK pc \in Returning : \E cur, todo : Await(t, pc, cur, todo)
      BY <3>1
    <3>3. pc \notin Locked /\ pc \notin Preparing \cup {"stop"}
      BY DEF Locked, Returning, Preparing
    <3>4. Free
      BY <3>2, <3>3, AwaitUnbooted
    <3> HIDE DEF Free
    <3> QED BY <1>1, <2>2, <2>5, <3>1, <3>4, UnbootedStep DEF Free
  <2> QED BY <2>6, <2>7, <2>8
<1> QED BY <1>2, <1>3

\* So do the requests of other routes, the passage of time and a restart.
LEMMA OthersUnbooted ==
  ASSUME WorkflowInv, RebootInv,
         \/ \E p \in Plans : ExpireLock(p) \/ Reconcile(p)
         \/ \E h \in Hosts : ManualExit(h) \/ ManualRecovery(h)
         \/ Restart
  PROVE  RebootInv'
<1>1. \A u \in Requests : req[u].pc \in Locked => req[u].plan \in Plans
  BY InFlight DEF Locked
<1>2. ASSUME NEW p \in Plans, ExpireLock(p) PROVE RebootInv'
  <2>1. UNCHANGED <<plan, host, booted, boot, unit, req>>
    BY <1>2 DEF ExpireLock, remote
  <2> QED BY <1>1, <2>1, UnbootedStep
<1>3. ASSUME NEW h \in Hosts, ManualExit(h) \/ ManualRecovery(h) PROVE RebootInv'
  <2>1. /\ UNCHANGED <<booted, boot, unit, req>> /\ ~WriteLocked
        /\ \E s \in {"succeeded", "recovery_required"} :
             plan' = [plan EXCEPT ![host[h].plan] = s]
    BY <1>3 DEF ManualExit, ManualRecovery, remote
  <2>2. /\ \A g \in Hosts \ {h} : host'[g] = host[g]
        /\ host'[h].workflow \in {"available", "recovery_required"}
    BY <1>3 DEF ManualExit, ManualRecovery, WorkflowInv, TypeOK, Available, HostRows
  <2>3. \A q \in Plans : plan'[q] = "ready" => plan[q] = "ready"
    BY <2>1 DEF WorkflowInv, TypeOK
  <2>4. \A q \in Plans : Target[q] \in Hosts
    BY TopologyAssumption
  <2> QED BY <1>1, <2>1, <2>2, <2>3, <2>4, UnbootedStep
<1>4. ASSUME NEW p \in Plans, Reconcile(p) PROVE RebootInv'
  <2>1. /\ UNCHANGED <<booted, boot, unit, req>> /\ ~WriteLocked
        /\ plan' = [q \in Plans |-> IF q \in {p} THEN "recovery_required" ELSE plan[q]]
        /\ \A h \in Hosts : host'[h] = host[h] \/ host'[h].workflow = "recovery_required"
    BY <1>4 DEF Reconcile, ReconcilePlans, remote
  <2>2. \A q \in Plans : Target[q] \in Hosts
    BY TopologyAssumption
  <2>3. \A q \in Plans : plan'[q] = "ready" => plan[q] = "ready"
    BY <2>1
  <2> QED BY <1>1, <2>1, <2>2, <2>3, UnbootedStep
<1>5. ASSUME Restart PROVE RebootInv'
  <2>1. /\ UNCHANGED <<booted, boot, unit>> /\ req' = [t \in Requests |-> Idle]
        /\ \A q \in Plans : plan'[q] = "ready" => plan[q] = "ready"
        /\ \A h \in Hosts : host'[h] = host[h] \/ host'[h].workflow = "recovery_required"
    BY <1>5 DEF Restart, ReconcilePlans, remote
  <2>2. \A q \in Plans : Target[q] \in Hosts
    BY TopologyAssumption
  <2>3. ASSUME NEW q \in Plans PROVE BootOK(q)'
    BY <2>1, <2>2 DEF RebootInv, BootOK
  <2>4. OneWriter' /\ \A t \in Requests : RebootOK(req[t])'
    BY <2>1 DEF OneWriter, RebootOK, Idle, Locked, Preparing
  <2> QED BY <2>3, <2>4 DEF RebootInv
<1> QED BY <1>2, <1>3, <1>4, <1>5

\* A dispatch begins where no other holds the write transaction.
LEMMA BootIdUnbooted ==
  ASSUME WorkflowInv, RebootInv, NEW t \in Requests,
         (\E p \in Plans : BeginReboot(t, p)) \/ BootId(t)
  PROVE  RebootInv'
<1>1. UNCHANGED <<plan, host, booted, boot, unit>>
  BY DEF BeginReboot, BootId, Abort, rows, remote
<1>2. \A u \in Requests : req[u].pc \in Locked => req[u].plan \in Plans
  BY InFlight DEF Locked
<1>3. ASSUME NEW p \in Plans, BeginReboot(t, p) PROVE RebootInv'
  <2>1. \E row : Begin(t, p, "boot-id", NoItem, {}, row)
    BY <1>3 DEF BeginReboot
  <2>2. \A u \in Requests :
          \/ req'[u] = req[u]
          \/ /\ req'[u].pc \notin Locked
             /\ req'[u].pc \in Preparing \cup {"stop"} => boot[req'[u].plan] = "none"
    BY <2>1, BeginUnbooted DEF Locked, Preparing
  <2> QED BY <1>1, <1>2, <2>2, UnbootedStep
<1>4. CASE Abort(t)
  BY <1>1, <1>4, AbortUnbooted
<1>5. CASE BootId(t) /\ ~Abort(t)
  <2>1. /\ ~WriteLocked /\ RebootPredicates(req[t].plan) /\ Await(t, "stage", NoItem, {})
    BY <1>5 DEF BootId
  <2>2. /\ OtherRequests(t) /\ req'[t].pc = "stage" /\ req'[t].plan = req[t].plan
    BY <2>1, AwaitFacts DEF PCs, WorkflowInv
  <2>3. \A u \in Requests : req[u].pc \notin Locked
    BY <2>1 DEF WriteLocked, Locked
  <2>4. OneWriter'
    BY <2>2, <2>3 DEF OneWriter, OtherRequests
  <2>5. ASSUME NEW u \in Requests PROVE RebootOK(req[u])'
    <3>1. RebootOK(req[u])
      BY DEF RebootInv
    <3>2. CASE u # t
      BY <1>1, <2>2, <3>1, <3>2 DEF OtherRequests, RebootOK
    <3>3. CASE u = t
      BY <1>1, <2>1, <2>2, <3>3 DEF RebootOK, RebootPredicates, Preparing
    <3> QED BY <3>2, <3>3
  <2>6. \A p \in Plans : BootOK(p)'
    BY <1>1 DEF RebootInv, BootOK
  <2> QED BY <2>4, <2>5, <2>6 DEF RebootInv
<1> QED BY <1>3, <1>4, <1>5

\* Staging and invoking move the reboot of the one plan whose request writes, and
\* whose host is in maintenance.
LEMMA DispatchBooted ==
  ASSUME WorkflowInv, RebootInv, NEW t \in Requests, StageExecutor(t) \/ InvokeReboot(t)
  PROVE  RebootInv'
<1>1. PICK p : p = req[t].plan
  OBVIOUS
<1>2. /\ UNCHANGED <<plan, host, booted, unit>> /\ req[t].pc \in {"stage", "invoke"}
  BY DEF StageExecutor, InvokeReboot, Abort, rows
<1>3. /\ p \in Plans /\ plan[p] # "ready" /\ host[Target[p]].workflow = "maintenance"
      /\ \A u \in Requests : req[u].pc \in Locked => u = t
  BY <1>1, <1>2, WorkerFacts DEF RebootInv, RebootOK, Locked, OneWriter
<1>4. /\ boot[p] # "booted" \/ UNCHANGED boot
      /\ \A q \in Plans \ {p} : boot'[q] = boot[q]
  <2>1. req[t].pc = "invoke" => boot[p] = "staged"
    BY <1>1 DEF RebootInv, RebootOK
  <2> QED BY <1>1, <1>3, <2>1 DEF StageExecutor, InvokeReboot, Stageable, WorkflowInv, TypeOK
<1>5. ASSUME NEW q \in Plans PROVE BootOK(q)'
  BY <1>2, <1>3, <1>4 DEF RebootInv, BootOK
<1>6. /\ OtherRequests(t)
      /\ \/ req'[t] = Idle
         \/ /\ req'[t].plan = p /\ req'[t].pc \in {"invoke", "discover"}
            /\ req'[t].pc = "invoke" => boot'[p] = "staged"
  <2>1. CASE Abort(t)
    BY <2>1, DoneFacts DEF Abort, Done, WorkflowInv
  <2>2. CASE ~Abort(t) /\ StageExecutor(t)
    <3>1. Await(t, "invoke", NoItem, {}) /\ boot' = [boot EXCEPT ![p] = "staged"]
      BY <1>1, <2>2 DEF StageExecutor
    <3>2. boot'[p] = "staged"
      BY <1>3, <3>1 DEF WorkflowInv, TypeOK
    <3> QED BY <1>1, <3>1, <3>2, AwaitFacts DEF PCs, WorkflowInv
  <2>3. CASE ~Abort(t) /\ InvokeReboot(t)
    <3>1. Await(t, "discover", NoItem, {})
      BY <2>3 DEF InvokeReboot
    <3> QED BY <1>1, <3>1, AwaitFacts DEF PCs, WorkflowInv
  <2> QED BY <2>1, <2>2, <2>3
<1>7. ASSUME NEW u \in Requests PROVE RebootOK(req[u])'
  <2>1. CASE u = t
    BY <1>2, <1>3, <1>6, <2>1 DEF RebootOK, Idle, Preparing, Locked
  <2>2. CASE u # t
    <3>1. req'[u] = req[u] /\ req[u].pc \notin Locked
      BY <1>3, <1>6, <2>2 DEF OtherRequests
    <3>2. req[u].pc \in Preparing \cup {"stop"} => req[u].plan # p
      <4>1. req[u].plan = p /\ req[u].pc # "idle" => req[u].pc \in {"boot-id"} \cup Locked
        BY <1>3, NoWorker
      <4> QED BY <4>1 DEF Preparing, Locked
    <3>3. req[u].pc \in Preparing \cup {"stop"} => req[u].plan \in Plans
      BY InFlight DEF Preparing
    <3> QED BY <1>4, <3>1, <3>2, <3>3 DEF RebootInv, RebootOK, Locked
  <2> QED BY <2>1, <2>2
<1>8. OneWriter'
  BY <1>3, <1>6 DEF OneWriter, OtherRequests
<1> QED BY <1>5, <1>7, <1>8 DEF RebootInv

\* The boot itself, and the units that come up after it.
LEMMA BootBooted ==
  ASSUME WorkflowInv, RebootInv, NEW p \in Plans, HostBoots(p) \/ UnitComesUp(p)
  PROVE  RebootInv'
<1>1. UNCHANGED <<plan, host, booted, req>>
  BY DEF HostBoots, UnitComesUp, rows
<1>2. /\ boot[p] \in {"invoked", "booted"} /\ boot'[p] = "booted"
      /\ \A q \in Plans \ {p} : boot'[q] = boot[q]
  BY DEF HostBoots, UnitComesUp, WorkflowInv, TypeOK
<1>3. \A a \in Assignments : unit'[a] = unit[a] \/ (a \in Targets(p) /\ boot[p] = "invoked")
                             \/ unit'[a] = "running"
  BY DEF HostBoots, UnitComesUp, WorkflowInv, TypeOK
<1>4. ASSUME NEW q \in Plans PROVE BootOK(q)'
  <2>1. BootOK(q)
    BY DEF RebootInv
  <2>2. \A a \in Targets(q) : a \in Assignments /\ (a \in Targets(p) => q = p)
    BY TargetsExist, TargetsApart
  <2>3. ASSUME booted[q] PROVE boot'[q] = "booted" /\ \A a \in Targets(q) : unit'[a] = "running"
    BY <1>2, <1>3, <2>1, <2>2, <2>3 DEF BootOK
  <2> QED BY <1>1, <1>2, <2>1, <2>3 DEF BootOK
<1>5. ASSUME NEW u \in Requests PROVE RebootOK(req[u])'
  <2>1. RebootOK(req[u]) /\ (req[u].pc # "idle" => req[u].plan \in Plans)
    BY InFlight DEF RebootInv
  <2> QED BY <1>1, <1>2, <2>1 DEF RebootOK, Preparing, Locked
<1> QED BY <1>1, <1>4, <1>5 DEF RebootInv, OneWriter

\* The verified return saw the host booted and every unit running.
LEMMA RebootBooted ==
  ASSUME WorkflowInv, RebootInv, NEW t \in Requests, Reboot(t)
  PROVE  RebootInv'
<1>1. PICK p : p = req[t].plan
  OBVIOUS
<1>2. p \in Plans /\ UNCHANGED <<boot, unit>>
  BY <1>1, InFlight DEF Reboot, remote
<1>3. CASE Abort(t)
  BY <1>2, <1>3, AbortUnbooted
<1>4. CASE ~Abort(t)
  <2>1. /\ ReturnComplete(p) /\ booted' = [booted EXCEPT ![p] = TRUE] /\ Done(t)
        /\ UNCHANGED <<plan, host>>
    BY <1>1, <1>4 DEF Reboot
  <2>2. OtherRequests(t) /\ req'[t] = Idle
    BY <2>1, DoneFacts DEF WorkflowInv
  <2>3. ASSUME NEW q \in Plans PROVE BootOK(q)'
    <3>1. booted'[q] => booted[q] \/ q = p
      BY <2>1 DEF WorkflowInv, TypeOK
    <3> QED BY <1>2, <2>1, <3>1 DEF RebootInv, BootOK, ReturnComplete
  <2>4. ASSUME NEW u \in Requests PROVE RebootOK(req[u])'
    BY <1>2, <2>1, <2>2 DEF RebootInv, RebootOK, OtherRequests, Idle, Preparing, Locked
  <2>5. OneWriter'
    BY <2>2 DEF RebootInv, OneWriter, OtherRequests, Idle, Locked
  <2> QED BY <2>3, <2>4, <2>5 DEF RebootInv
<1> QED BY <1>3, <1>4

-----------------------------------------------------------------------------
\* The invariant and what follows from it

\* The initial state of the reboots
LEMMA InitReboot == Init => RebootInv
BY DEF Init, RebootInv, OneWriter, BootOK, RebootOK, Idle, Locked, Preparing

\* Every step keeps the invariant.
LEMMA NextWorkflow == WorkflowInv /\ RebootInv /\ [Next]_vars => WorkflowInv' /\ RebootInv'
<1> SUFFICES ASSUME WorkflowInv, RebootInv, [Next]_vars PROVE WorkflowInv' /\ RebootInv'
  OBVIOUS
<1>1. CASE UNCHANGED vars
  <2>1. TypeOK' /\ GuardRecorded'
    BY <1>1 DEF vars, rows, remote, WorkflowInv, TypeOK, GuardRecorded
  <2>2. WorkflowInv'
    BY <1>1, <2>1, QuietStep DEF vars, rows, remote
  <2>3. RebootInv'
    BY <1>1 DEF vars, rows, remote, RebootInv, OneWriter, BootOK, RebootOK
  <2> QED BY <2>2, <2>3
<1>2. CASE Next
  <2>1. WorkflowInv'
    BY <1>2, BeginPrepareStep, CaptureStep, ActivateStep, BeginStopStep, StopStep, RebootStep,
       DispatchStep, BootStep, BeginReturnStep, HostReadyStep, StartStep, RestoreStep,
       VerifyStep, ExpireLockStep, ManualStep, ReconcileStep, RestartStep DEF Next
  <2>2. RebootInv'
    BY <1>2, PrepareUnbooted, ReturnUnbooted, OthersUnbooted, BootIdUnbooted, DispatchBooted,
       BootBooted, RebootBooted DEF Next
  <2> QED BY <2>1, <2>2
<1> QED BY <1>1, <1>2

\* The rows, the requests and the reboots of the host workflow stay consistent,
\* through any overlap of stages, lost answers, late boots, manual exits,
\* recoveries and restarts.
THEOREM WorkflowHolds == Spec => [](WorkflowInv /\ RebootInv)
BY InitWorkflow, InitReboot, NextWorkflow, PTL DEF Spec

\* Whatever a stage has done to a unit or a cluster is in committed rows, and the
\* host row summarises it, before and after the host's reboot.
THEOREM EffectsAreRecorded == Spec => []EffectsRecorded
<1>1. WorkflowInv /\ RebootInv => EffectsRecorded
  <2> SUFFICES ASSUME WorkflowInv, RebootInv PROVE IntentBeforeEffect /\ HostRowSummary
    BY DEF WorkflowInv, EffectsRecorded
  <2>1. IntentBeforeEffect
    BY DEF WorkflowInv, AsgOK, IntentBeforeEffect
  <2>2. ASSUME NEW h \in Hosts, host[h].workflow \in {"ready_to_stop", "maintenance"},
               NEW a \in Targets(host[h].plan)
        PROVE  /\ asg[a] = [workflow |-> host[h].workflow, plan |-> host[h].plan]
               /\ host[h].workflow = "maintenance" /\ boot[host[h].plan] # "booted" =>
                    unit[a] = "stopped"
               /\ booted[host[h].plan] => unit[a] = "running"
    <3>1. PICK p \in Plans : Target[p] = h
      BY <2>2 DEF WorkflowInv, FreeHosts, Available
    <3>2. PlanOK(p) /\ BootOK(p)
      BY DEF WorkflowInv, RebootInv
    <3>3. host[h].plan = p
      BY <2>2, <3>1, <3>2 DEF PlanOK, HostRowsOf, Row, Available
    <3>4. asg[a] = At(host[h].workflow, p)
      BY <2>2, <3>1, <3>2, <3>3 DEF PlanOK
    <3>5. a \in Assignments /\ (Rebooted(HostOf[a]) <=> boot[p] = "booted")
      BY <2>2, <3>3, RebootedTarget DEF Targets
    <3>6. booted[p] => unit[a] = "running"
      BY <2>2, <3>2, <3>3 DEF BootOK
    <3> QED BY <3>3, <3>4, <3>5, <3>6 DEF At, WorkflowInv, AsgOK
  <2> QED BY <2>1, <2>2 DEF HostRowSummary
<1> QED BY <1>1, WorkflowHolds, PTL

\* What a guard captured is the operator's setting, never the restriction of
\* another plan's guard.
THEOREM OriginalsCaptured == Spec => []CapturedIsOriginal
<1>1. WorkflowInv => CapturedIsOriginal
  BY DEF WorkflowInv
<1> QED BY <1>1, WorkflowHolds, PTL

\* No dependent runs over a stopped Elasticsearch role of its host, unless systemd
\* started it.
THEOREM StackOrderKept == Spec => []DependentsStopFirst
<1>1. WorkflowInv => DependentsStopFirst
  BY DEF WorkflowInv
<1> QED BY <1>1, WorkflowHolds, PTL

\* When a host is told to reboot, every managed unit of it is stopped, although a
\* boot may have started them under rows that say maintenance.
THEOREM RebootsFindStopped == Spec => []RebootOnlyStopped
<1>1. WorkflowInv /\ RebootInv => RebootOnlyStopped
  <2> SUFFICES ASSUME WorkflowInv, RebootInv, NEW t \in Requests, req[t].pc = "invoke",
                      NEW a \in Targets(req[t].plan)
               PROVE  unit[a] = "stopped"
    BY DEF RebootOnlyStopped
  <2>1. /\ asg[a] = At("maintenance", req[t].plan) /\ a \in Assignments
        /\ req[t].plan \in Plans
    BY DEF WorkflowInv, ReqOK, RequestOK, Targets, Locked
  <2>2. boot[req[t].plan] = "staged"
    BY DEF RebootInv, RebootOK
  <2>3. ~Rebooted(HostOf[a])
    BY <2>1, <2>2, RebootedTarget
  <2> QED BY <2>1, <2>3 DEF WorkflowInv, AsgOK, At
<1> QED BY <1>1, WorkflowHolds, PTL

\* A claim ends in the completing transaction only.
LEMMA ClaimStep ==
  ASSUME WorkflowInv, Next, NEW a \in Assignments, claim[a] # NoPlan, claim'[a] = NoPlan
  PROVE  \E t \in Requests : /\ req[t].pc \in {"verify", "cleanup"}
                             /\ Complete(t) /\ UNCHANGED remote
<1>1. claim' # claim
  OBVIOUS
<1>2. ASSUME NEW t \in Requests, NEW p \in Plans, BeginPrepare(t, p) PROVE FALSE
  BY <1>2, TopologyAssumption DEF BeginPrepare
<1>3. ASSUME NEW t \in Requests, Verify(t) \/ Cleanup(t)
      PROVE  req[t].pc \in {"verify", "cleanup"} /\ Complete(t) /\ UNCHANGED remote
  BY <1>1, <1>3 DEF Verify, Cleanup, Abort, rows
<1>4. ASSUME NEW t \in Requests,
             \/ Capture(t) \/ Activate(t) \/ Stop(t) \/ BootId(t) \/ Reboot(t)
             \/ StageExecutor(t) \/ InvokeReboot(t)
             \/ HostReady(t) \/ Start(t) \/ Restore(t)
      PROVE  FALSE
  BY <1>1, <1>4 DEF Capture, Activate, Stop, BootId, Reboot, StageExecutor, InvokeReboot,
                    HostReady, Start, Restore, Abort, rows
<1>5. ASSUME NEW t \in Requests, NEW p \in Plans,
             BeginStop(t, p) \/ BeginReboot(t, p) \/ BeginReturn(t, p)
      PROVE  FALSE
  BY <1>1, <1>5 DEF BeginStop, BeginReboot, BeginReturn, rows
<1>6. ASSUME \/ \E p \in Plans : \/ ExpireLock(p) \/ Reconcile(p)
                                 \/ HostBoots(p) \/ UnitComesUp(p)
             \/ \E h \in Hosts : ManualExit(h) \/ ManualRecovery(h)
             \/ Restart
      PROVE  FALSE
  BY <1>1, <1>6 DEF ExpireLock, Reconcile, HostBoots, UnitComesUp, ManualExit, ManualRecovery,
                    Restart, ReconcilePlans, rows
<1> QED BY <1>2, <1>3, <1>4, <1>5, <1>6 DEF Next

\* A workload is released only running, with its plan succeeded and its locks
\* gone; of a boot that nobody verified the units are systemd's.
THEOREM ReleasedRunning == Spec => ClaimReleasedRunning
<1> DEFINE A == \A a \in Assignments : claim[a] # NoPlan /\ claim'[a] = NoPlan =>
                  /\ unit'[a] = "running" \/ (boot[claim[a]] = "booted" /\ ~booted[claim[a]])
                  /\ plan'[claim[a]] = "succeeded"
                  /\ lock'[claim[a]] = "none"
<1>1. ASSUME WorkflowInv, RebootInv, Next, NEW a \in Assignments,
             claim[a] # NoPlan, claim'[a] = NoPlan
      PROVE  /\ unit'[a] = "running" \/ (boot[claim[a]] = "booted" /\ ~booted[claim[a]])
             /\ plan'[claim[a]] = "succeeded" /\ lock'[claim[a]] = "none"
  <2>1. PICK t \in Requests : /\ req[t].pc \in {"verify", "cleanup"}
                              /\ Complete(t) /\ UNCHANGED remote
    BY <1>1, ClaimStep
  <2>2. \A b \in Targets(req[t].plan) :
          /\ boot[req[t].plan] # "booted" => unit[b] = "running"
          /\ claim[b] = req[t].plan
    BY <1>1, <2>1, CompleteStep
  <2>3. a \in Targets(req[t].plan) /\ req[t].plan \in Plans
    BY <1>1, <2>1, WorkerFacts DEF Complete
  <2>4. plan'[req[t].plan] = "succeeded" /\ lock'[req[t].plan] = "none" /\ unit' = unit
    BY <1>1, <2>1, <2>3 DEF Complete, remote, WorkflowInv, TypeOK
  <2>5. booted[req[t].plan] => unit[a] = "running"
    BY <1>1, <2>3 DEF RebootInv, BootOK
  <2> QED BY <2>2, <2>3, <2>4, <2>5
<1>2. WorkflowInv /\ RebootInv /\ [Next]_vars => [A]_vars
  BY <1>1
<1>3. Spec => [][A]_vars
  <2> HIDE DEF A
  <2> QED BY <1>2, WorkflowHolds, PTL DEF Spec
<1> QED BY <1>3 DEF ClaimReleasedRunning
=============================================================================
