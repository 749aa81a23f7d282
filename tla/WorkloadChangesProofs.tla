----------------------- MODULE WorkloadChangesProofs -----------------------
(***************************************************************************)
(* Proofs about the workload batches of a cluster, for every set of slots, *)
(* roles, change sets and direct mutations, and any number of runs and     *)
(* assignment identifiers.                                                 *)
(*                                                                         *)
(* That a batch is all or nothing is a statement about the hosts, made     *)
(* when the batch row disappears.  It is carried there by an invariant per *)
(* run (RunOK) which says, at each point of the worker, the undo and the   *)
(* recovery, what the units of its plan run by then.  Runs do not disturb  *)
(* each other because a unit belongs to the run that has claimed its row,  *)
(* and a command only works on rows that nobody has claimed; both need     *)
(* that identifiers, which are given out again, are unique at any time.    *)
(***************************************************************************)
EXTENDS WorkloadChanges, FiniteSetTheorems, WellFoundedInduction, TLAPS

RowRecords == [state : {"active", "applying"}, id : Ids, config : Configs, claim : {0} \cup Runs]
PlanItems ==
  [kind : Kinds, slot : Slots, config : Configs, id : Ids, prev : Configs \cup {None},
   before : Configs \cup {None}]
BatchRecords ==
  [plan : Seq(PlanItems), done : SUBSET Slots, phase : {None, "applying", "rolling_back"}]
TaskRecords ==
  [mode : Commands \cup {None, "apply", "undo", "recover"},
   pc : {None, "start", "next", "sent", "done", "commit", "succeed", "fail"},
   todo : SUBSET PlanItems, slot : Slots \cup {None}, id : 0..MaxId,
   config : Configs \cup {None}, prev : Configs \cup {None}, boot : Slots \cup {None},
   ok : BOOLEAN]

Shape ==
  /\ row \in [Slots -> {NoRow} \cup RowRecords]
  /\ unit \in [Slots -> Configs \cup {None}]
  /\ run \in [Runs -> {None, "running", "recovery_required", "succeeded", "failed"}]
  /\ batch \in [Runs -> BatchRecords]
  /\ task \in [Runs -> TaskRecords]

\* Identifiers of rows that are there.
UniqueIds == \A s, t \in Slots : Exists(s) /\ Exists(t) /\ row[s].id = row[t].id => s = t

\* A claim is somebody's.
ClaimsBacked ==
  \A s \in Slots : row[s].claim # 0 => \E c \in Changes(row[s].claim) : c.slot = s

-----------------------------------------------------------------------------
\* A run

\* A batch row: its changes name rows that the run has claimed, and a unit
\* that it has not reached runs what it ran at the launch.
BatchOK(r) ==
  /\ Open(r) /\ batch[r].phase # None
  /\ batch[r].done \subseteq {c.slot : c \in Executable(r)}
  /\ \A c, d \in Changes(r) : c.slot = d.slot => c = d
  /\ \A c \in Changes(r) :
       /\ row[c.slot].claim = r /\ row[c.slot].id = c.id
       /\ c.kind # "create" => c.prev \in Configs
       /\ c.slot \notin batch[r].done => unit[c.slot] = c.before

\* A command works on a row that nobody has claimed.
CommandOK(r) ==
  /\ task[r].mode \in Commands /\ task[r].pc \in {"sent", "done"} /\ task[r].todo = {}
  /\ batch[r] = NoBatch /\ run[r] = "running"
  /\ task[r].slot \in Slots /\ row[task[r].slot].claim = 0
  /\ \A s \in Slots : row[s].claim # 0 => row[s].id # task[r].id
  /\ task[r].mode = "resource-update" => task[r].prev \in Configs

\* Where the initial master is still missing nothing else is started, and no
\* further master before the hot roles.
OrderOK(r) ==
  task[r].boot # None =>
    /\ \E c \in Changes(r) : c.kind = "create" /\ c.slot = task[r].boot
    /\ \A s \in batch[r].done \ {task[r].boot} :
         /\ unit[task[r].boot] # None
         /\ Role[s] = "master" =>
              \A c \in Changes(r) : c.kind = "create" /\ Role[c.slot] = "hot" => unit[c.slot] # None

\* The worker: a change that is no longer to do has been deployed.
ApplyOK(r) ==
  /\ task[r].mode = "apply" /\ task[r].pc \in {"start", "next", "sent", "done", "commit"}
  /\ batch[r] # NoBatch /\ run[r] = "running"
  /\ task[r].todo \subseteq Executable(r)
  /\ task[r].pc = "start" => task[r].boot = None /\ batch[r].done = {}
  /\ task[r].pc # "start" => \A c \in Executable(r) \ task[r].todo : unit[c.slot] # None
  /\ task[r].pc \in {"sent", "done"} =>
       /\ \E c \in task[r].todo : c.slot = task[r].slot
       /\ task[r].slot \in batch[r].done /\ task[r].config \in Configs
  /\ task[r].pc = "done" => unit[task[r].slot] # None
  /\ task[r].pc = "commit" => task[r].todo = {}
  /\ OrderOK(r)

\* What a unit runs once its change is undone.
Target(c) == IF c.kind = "create" THEN None ELSE c.prev

\* The undo and the recovery: a change that was begun and is no longer to do
\* has been undone, unless a step back failed.
UndoOK(r) ==
  /\ task[r].mode \in {"undo", "recover"} /\ task[r].pc \in {"next", "sent", "done"}
  /\ batch[r] # NoBatch /\ (task[r].mode = "undo" => run[r] = "running")
  /\ task[r].todo \subseteq {c \in Changes(r) : c.slot \in batch[r].done}
  /\ task[r].ok =>
       \A c \in Changes(r) \ task[r].todo : c.slot \in batch[r].done => unit[c.slot] = Target(c)
  /\ task[r].pc \in {"sent", "done"} =>
       \E c \in task[r].todo : c.slot = task[r].slot /\ task[r].config = Target(c)
  /\ task[r].pc = "done" => unit[task[r].slot] = task[r].config

\* Between the transaction that ends the batch and the one that ends the run.
EndOK(r) ==
  /\ \/ task[r].mode = "apply" /\ task[r].pc = "succeed"
     \/ task[r].mode = "undo" /\ task[r].pc = "fail"
  /\ task[r].todo = {} /\ batch[r] = NoBatch /\ run[r] = "running"

TaskOK(r) == task[r] = NoTask \/ CommandOK(r) \/ ApplyOK(r) \/ UndoOK(r) \/ EndOK(r)

RunOK(r) == (batch[r] # NoBatch => BatchOK(r)) /\ TaskOK(r)

BatchInv ==
  /\ Shape
  /\ UniqueIds
  /\ ClaimsBacked
  /\ \A r \in Runs : RunOK(r)

-----------------------------------------------------------------------------
\* Identifiers

\* A nonempty set of naturals with a bound has a largest element.
LEMMA LargestExists ==
  ASSUME NEW S, NEW n \in Nat, S \subseteq 0..n, S # {}
  PROVE  \E i \in S : \A j \in S : j <= i
<1> DEFINE R == OpToRel(<, Nat)
           T == {m \in Nat : n - m \in S}
<1>1. T \subseteq Nat /\ T # {}
  <2>1. PICK x \in S : TRUE
    OBVIOUS
  <2>2. x \in Nat /\ x <= n
    BY <2>1
  <2>3. n - x \in Nat /\ n - (n - x) = x
    BY <2>2
  <2>4. n - x \in T
    BY <2>1, <2>3
  <2> QED BY <2>4
<1>2. PICK t \in T : \A u \in T : ~(<<u, t>> \in R)
  <2> HIDE DEF R, T
  <2>1. IsWellFoundedOn(R, Nat)
    BY NatLessThanWellFounded DEF R
  <2> QED BY <1>1, <2>1, WFMin
<1>3. \A u \in T : ~(u < t)
  BY <1>1, <1>2 DEF OpToRel
<1>4. \A y \in S : y <= n - t
  <2> SUFFICES ASSUME NEW y \in S PROVE y <= n - t
    OBVIOUS
  <2>1. y \in Nat /\ y <= n /\ t \in Nat
    BY <1>1
  <2>2. n - y \in Nat /\ n - (n - y) = y
    BY <2>1
  <2>3. n - y \in T
    BY <2>2
  <2> HIDE DEF T
  <2>4. ~(n - y < t)
    BY <1>3, <2>3
  <2> QED BY <2>1, <2>4
<1>5. n - t \in S
  BY <1>2
<1> QED BY <1>4, <1>5

\* TopId bounds the identifiers in use.
LEMMA TopIdBounds ==
  ASSUME Shape
  PROVE  TopId \in 0..MaxId /\ \A s \in Slots : Exists(s) => row[s].id \in 1..TopId
<1>0. MaxId \in Nat
  BY SlotAssumption
<1>1. \A s \in Slots : Exists(s) => row[s].id \in 1..MaxId
  BY <1>0 DEF Shape, Exists, RowRecords, NoRow, Ids
<1>2. UsedIds \subseteq 0..MaxId
  BY <1>0, <1>1 DEF UsedIds
<1>3. CASE UsedIds = {}
  BY <1>0, <1>3 DEF TopId, UsedIds
<1>4. CASE UsedIds # {}
  <2>1. \E i \in UsedIds : \A j \in UsedIds : j <= i
    BY <1>0, <1>2, <1>4, LargestExists
  <2>2. TopId \in UsedIds /\ \A j \in UsedIds : j <= TopId
    BY <1>4, <2>1 DEF TopId
  <2>3. \A s \in Slots : Exists(s) => row[s].id \in UsedIds
    BY DEF UsedIds
  <2>4. TopId \in 0..MaxId
    BY <1>2, <2>2
  <2> QED BY <1>0, <1>1, <2>2, <2>3, <2>4
<1> QED BY <1>3, <1>4

\* The identifiers of the created rows of a batch are new, distinct and within
\* the bound.
LEMMA StagedIds ==
  ASSUME Shape, NEW cs \in ChangeSets, TopId + Cardinality(SlotsOf(cs, "create")) <= MaxId
  PROVE  /\ \A i \in DOMAIN cs : cs[i].kind = "create" =>
              StagedId(cs, i) \in Ids /\ TopId < StagedId(cs, i)
         /\ \A i, j \in DOMAIN cs :
              cs[i].kind = "create" /\ cs[j].kind = "create" /\ StagedId(cs, i) = StagedId(cs, j)
                => i = j
<1> DEFINE C == {j \in DOMAIN cs : cs[j].kind = "create"}
           B(i) == {j \in DOMAIN cs : j <= i /\ cs[j].kind = "create"}
           S == SlotsOf(cs, "create")
<1>0. TopId \in Nat /\ MaxId \in Nat
  BY SlotAssumption, TopIdBounds
<1>1. DOMAIN cs = 1..Len(cs) /\ Len(cs) \in Nat
  BY ChangeAssumption
<1>2. IsFiniteSet(DOMAIN cs)
  BY <1>1, FS_Interval
<1>3. IsFiniteSet(C) /\ \A i \in DOMAIN cs : IsFiniteSet(B(i))
  BY <1>2, FS_Subset
<1>4. Cardinality(S) = Cardinality(C) /\ IsFiniteSet(S)
  <2> DEFINE f == [j \in C |-> cs[j].slot]
  <2>1. f \in Surjection(C, S)
    BY DEF Surjection, SlotsOf
  <2>2. f \in Injection(C, S)
    BY <2>1, ChangeAssumption DEF Injection, IsInjective, Surjection
  <2> QED BY <1>3, <2>1, <2>2, FS_Surjection
<1>5. \A i \in DOMAIN cs : B(i) \in SUBSET C
  OBVIOUS
<1>6. \A i \in DOMAIN cs : Cardinality(B(i)) \in Nat /\ Cardinality(B(i)) <= Cardinality(C)
  <2> HIDE DEF B, C
  <2> QED BY <1>3, <1>5, FS_Subset, FS_CardinalityType
<1>7. \A i \in C : Cardinality(B(i)) > 0
  <2> SUFFICES ASSUME NEW i \in C PROVE Cardinality(B(i)) > 0
    OBVIOUS
  <2>1. i \in B(i)
    BY <1>1
  <2>2. Cardinality(B(i)) # 0
    <3> HIDE DEF B
    <3> QED BY <1>3, <2>1, FS_EmptySet
  <2>3. Cardinality(B(i)) \in Nat
    BY <1>6
  <2> HIDE DEF B
  <2> QED BY <2>2, <2>3
<1>8. \A i, j \in C : i < j => Cardinality(B(i)) < Cardinality(B(j))
  <2> SUFFICES ASSUME NEW i \in C, NEW j \in C, i < j PROVE Cardinality(B(i)) < Cardinality(B(j))
    OBVIOUS
  <2>1. i \in DOMAIN cs /\ j \in DOMAIN cs /\ i \in Nat /\ j \in Nat
    BY <1>1
  <2>2. B(i) \in SUBSET B(j)
    BY <1>1, <2>1
  <2>3. B(i) # B(j)
    BY <1>1, <2>1
  <2>4. Cardinality(B(i)) <= Cardinality(B(j)) /\ Cardinality(B(i)) # Cardinality(B(j))
    <3> HIDE DEF B
    <3> QED BY <1>3, <2>1, <2>2, <2>3, FS_Subset
  <2>5. Cardinality(B(i)) \in Nat /\ Cardinality(B(j)) \in Nat
    BY <1>6
  <2> HIDE DEF B
  <2> QED BY <2>4, <2>5
<1>9. \A i \in C : StagedId(cs, i) = TopId + Cardinality(B(i))
  BY DEF StagedId
<1>10. Cardinality(S) \in Nat
  BY <1>4, FS_CardinalityType
<1>11. \A i \in C : StagedId(cs, i) \in Ids /\ TopId < StagedId(cs, i)
  <2> SUFFICES ASSUME NEW i \in C PROVE StagedId(cs, i) \in Ids /\ TopId < StagedId(cs, i)
    OBVIOUS
  <2> HIDE DEF B, S
  <2>1. PICK k : k = Cardinality(B(i))
    OBVIOUS
  <2>2. PICK n : n = Cardinality(S)
    OBVIOUS
  <2>3. k \in Nat /\ k > 0 /\ k <= n /\ n \in Nat /\ TopId + n <= MaxId
    BY <1>4, <1>6, <1>7, <1>10, <2>1, <2>2 DEF S
  <2> QED BY <1>0, <1>9, <2>1, <2>3 DEF Ids
<1>12. \A i, j \in C : StagedId(cs, i) = StagedId(cs, j) => i = j
  <2> SUFFICES ASSUME NEW i \in C, NEW j \in C, StagedId(cs, i) = StagedId(cs, j) PROVE i = j
    OBVIOUS
  <2>1. Cardinality(B(i)) = Cardinality(B(j))
    <3> HIDE DEF B
    <3>1. Cardinality(B(i)) \in Nat /\ Cardinality(B(j)) \in Nat
      BY <1>6
    <3> QED BY <1>0, <1>9, <3>1
  <2>2. i \in Nat /\ j \in Nat
    BY <1>1
  <2>3. Cardinality(B(i)) \in Nat /\ Cardinality(B(j)) \in Nat
    BY <1>6
  <2>4. ~(i < j) /\ ~(j < i)
    <3> HIDE DEF B
    <3> QED BY <1>8, <2>1, <2>3
  <2> QED BY <2>2, <2>4
<1> QED BY <1>11, <1>12

\* A run without a batch has no changes.
LEMMA NoChanges == ASSUME NEW r \in Runs, batch[r] = NoBatch PROVE Changes(r) = {}
BY DEF Changes, NoBatch

-----------------------------------------------------------------------------
\* What a step of one run leaves of the others

\* Rows keep their identifiers and claims, except for rows that end unclaimed
\* and were claimed by r or by nobody.
RowsKept(r) ==
  \A s \in Slots :
    \/ row'[s].claim = 0 /\ row[s].claim \in {0, r}
    \/ row'[s].id = row[s].id /\ row'[s].claim = row[s].claim

\* Other runs stay as they are, and so do the units of their rows.
OthersKept(r) ==
  /\ \A q \in Runs \ {r} : run'[q] = run[q] /\ batch'[q] = batch[q] /\ task'[q] = task[q]
  /\ \A s \in Slots : row[s].claim \notin {0, r} => unit'[s] = unit[s]

\* A slot of a plan is a slot.
LEMMA PlanSlots ==
  ASSUME Shape, NEW r \in Runs
  PROVE  \A c \in Changes(r) : c \in PlanItems /\ c.slot \in Slots /\ c.kind \in Kinds
<1>1. batch[r].plan \in Seq(PlanItems)
  BY DEF Shape, BatchRecords
<1>2. \A c \in Changes(r) : c \in PlanItems
  BY <1>1 DEF Changes
<1> QED BY <1>2 DEF PlanItems

\* A run whose neighbour takes a step.
LEMMA OtherRun ==
  ASSUME BatchInv, NEW r \in {0} \cup Runs, RowsKept(r), OthersKept(r), NEW q \in Runs, q # r
  PROVE  RunOK(q)'
<1>0. q # 0
  BY SlotAssumption DEF Runs
<1>1. run'[q] = run[q] /\ batch'[q] = batch[q] /\ task'[q] = task[q]
  BY DEF OthersKept
<1>2. RunOK(q) /\ Shape
  BY DEF BatchInv
<1>3. /\ Open(q)' = Open(q) /\ Changes(q)' = Changes(q) /\ Executable(q)' = Executable(q)
  BY <1>1 DEF Open, Changes, Executable
<1>4. \A c \in Changes(q) : c.slot \in Slots
  BY <1>2, PlanSlots
<1>5. ASSUME batch[q] # NoBatch
      PROVE  \A c \in Changes(q) : /\ row'[c.slot].claim = q /\ row'[c.slot].id = row[c.slot].id
                                   /\ unit'[c.slot] = unit[c.slot]
  <2> SUFFICES ASSUME NEW c \in Changes(q)
               PROVE /\ row'[c.slot].claim = q /\ row'[c.slot].id = row[c.slot].id
                     /\ unit'[c.slot] = unit[c.slot]
    OBVIOUS
  <2>1. row[c.slot].claim = q /\ c.slot \in Slots
    BY <1>2, <1>4, <1>5 DEF RunOK, BatchOK
  <2> QED BY <1>0, <2>1 DEF RowsKept, OthersKept
<1>6. batch[q] # NoBatch => BatchOK(q)'
  BY <1>1, <1>2, <1>3, <1>5 DEF RunOK, BatchOK
<1>7. CASE task[q] = NoTask
  BY <1>1, <1>6, <1>7 DEF RunOK, TaskOK
<1>8. CASE CommandOK(q)
  <2>1. row'[task[q].slot].claim = 0
    BY <1>0, <1>8 DEF CommandOK, RowsKept, NoRow
  <2>2. \A s \in Slots : row'[s].claim # 0 => row'[s].id # task[q].id
    BY <1>8 DEF CommandOK, RowsKept, NoRow
  <2>3. CommandOK(q)'
    BY <1>1, <1>8, <2>1, <2>2 DEF CommandOK
  <2> QED BY <1>1, <1>6, <2>3 DEF RunOK, TaskOK
<1>9. CASE ApplyOK(q)
  <2>1. batch[q] # NoBatch /\ task[q].todo \subseteq Executable(q)
    BY <1>9 DEF ApplyOK
  <2>2. \A c \in Changes(q) : unit'[c.slot] = unit[c.slot]
    BY <1>5, <2>1
  <2>3. Executable(q) \subseteq Changes(q)
    BY DEF Executable
  <2>4. OrderOK(q)'
    BY <1>1, <1>3, <1>9, <2>2 DEF ApplyOK, OrderOK
  <2>5. ApplyOK(q)'
    BY <1>1, <1>3, <1>9, <2>1, <2>2, <2>3, <2>4 DEF ApplyOK
  <2> QED BY <1>1, <1>6, <2>5 DEF RunOK, TaskOK
<1>10. CASE UndoOK(q)
  <2>1. batch[q] # NoBatch /\ task[q].todo \subseteq Changes(q)
    BY <1>10 DEF UndoOK
  <2>2. \A c \in Changes(q) : unit'[c.slot] = unit[c.slot]
    BY <1>5, <2>1
  <2>3. UndoOK(q)'
    BY <1>1, <1>3, <1>10, <2>1, <2>2 DEF UndoOK, Target
  <2> QED BY <1>1, <1>6, <2>3 DEF RunOK, TaskOK
<1>11. CASE EndOK(q)
  <2>1. EndOK(q)'
    BY <1>1, <1>11 DEF EndOK
  <2> QED BY <1>1, <1>6, <2>1 DEF RunOK, TaskOK
<1> QED BY <1>2, <1>7, <1>8, <1>9, <1>10, <1>11 DEF RunOK, TaskOK

\* A step of the run r, or of no run (0), preserves the invariant when it
\* preserves the part of r.
LEMMA RunStep ==
  ASSUME BatchInv, NEW r \in {0} \cup Runs, Shape', UniqueIds', RowsKept(r), OthersKept(r),
         r \in Runs => RunOK(r)',
         \A s \in Slots : r # 0 /\ row'[s].claim = r => Changes(r)' = Changes(r)
  PROVE  BatchInv'
<1>1. \A q \in Runs : RunOK(q)'
  BY OtherRun
<1>2. ClaimsBacked'
  <2> SUFFICES ASSUME NEW s \in Slots, row'[s].claim # 0
               PROVE  (\E c \in Changes(row[s].claim) : c.slot = s)'
    BY DEF ClaimsBacked
  <2>1. row'[s].claim = row[s].claim
    BY DEF RowsKept, NoRow
  <2>2. PICK k \in Runs : k = row[s].claim
    BY <2>1 DEF BatchInv, Shape, RowRecords, NoRow
  <2>3. \E c \in Changes(k) : c.slot = s
    BY <2>1, <2>2 DEF BatchInv, ClaimsBacked
  <2>4. k # 0
    BY SlotAssumption DEF Runs
  <2>5. Changes(k)' = Changes(k)
    <3>1. CASE k = r
      BY <2>1, <2>2, <2>4, <3>1
    <3>2. CASE k # r
      <4>1. batch'[k] = batch[k]
        BY <3>2 DEF OthersKept
      <4> QED BY <4>1 DEF Changes
    <3> QED BY <3>1, <3>2
  <2>6. row'[s].claim = k
    BY <2>1, <2>2
  <2> QED BY <2>3, <2>5, <2>6 DEF Changes
<1> QED BY <1>1, <1>2 DEF BatchInv

\* Identifiers stay unique when rows only go.
LEMMA UniqueKept ==
  ASSUME UniqueIds, \A s \in Slots : row'[s].state # None => Exists(s) /\ row'[s].id = row[s].id
  PROVE  UniqueIds'
BY DEF UniqueIds, Exists

-----------------------------------------------------------------------------
\* Direct mutations and their commands

\* add_assignment
LEMMA AddStep ==
  ASSUME BatchInv, NEW s \in Slots, NEW c \in Configs, AddAssignment(s, c) PROVE BatchInv'
<1>0. Shape /\ UniqueIds
  BY DEF BatchInv
<1>1. 0 \in {0} \cup Runs /\ 0 \notin Runs /\ MaxId \in Nat
  BY SlotAssumption DEF Runs
<1>2. CASE Exists(s)
  <2>1. row' = [row EXCEPT ![s].config = c, ![s].state = "active"]
    BY <1>2 DEF AddAssignment
  <2>2. row[s] \in RowRecords
    BY <1>0, <1>2 DEF Shape, Exists, NoRow
  <2>3. row'[s] \in RowRecords /\ row'[s].id = row[s].id /\ row'[s].claim = row[s].claim
    BY <1>0, <2>1, <2>2 DEF Shape, RowRecords
  <2>4. \A t \in Slots \ {s} : row'[t] = row[t]
    BY <1>0, <2>1 DEF Shape
  <2>5. Shape'
    BY <1>0, <2>1, <2>3 DEF Shape, AddAssignment
  <2>6. UniqueIds'
    BY <1>0, <1>2, <2>3, <2>4, UniqueKept DEF Exists
  <2>7. RowsKept(0)
    BY <2>3, <2>4 DEF RowsKept
  <2>8. OthersKept(0)
    BY DEF OthersKept, AddAssignment
  <2> QED BY <1>1, <2>5, <2>6, <2>7, <2>8, RunStep
<1>3. CASE ~Exists(s)
  <2>1. /\ TopId < MaxId
        /\ row' = [row EXCEPT ![s] = [state |-> "active", id |-> TopId + 1, config |-> c, claim |-> 0]]
    BY <1>3 DEF AddAssignment
  <2>2. TopId \in Nat /\ \A t \in Slots : Exists(t) => row[t].id \in 1..TopId
    BY <1>0, <1>1, TopIdBounds
  <2>3. /\ row'[s] = [state |-> "active", id |-> TopId + 1, config |-> c, claim |-> 0]
        /\ \A t \in Slots \ {s} : row'[t] = row[t]
    BY <1>0, <2>1 DEF Shape
  <2>4. TopId + 1 \in Ids
    BY <1>1, <2>1, <2>2 DEF Ids
  <2>5. row'[s] \in RowRecords
    BY <2>3, <2>4 DEF RowRecords
  <2>6. Shape'
    BY <1>0, <2>1, <2>3, <2>5 DEF Shape, AddAssignment
  <2>7. UniqueIds'
    <3>1. \A t \in Slots \ {s} : row'[t].state # None => row'[t].id # TopId + 1
      BY <2>2, <2>3 DEF Exists
    <3> QED BY <1>0, <2>3, <3>1 DEF UniqueIds, Exists
  <2>8. row[s] = NoRow
    BY <1>0, <1>3 DEF Shape, Exists, RowRecords, None
  <2>9. RowsKept(0)
    BY <2>3, <2>8 DEF RowsKept, NoRow
  <2>10. OthersKept(0)
    BY DEF OthersKept, AddAssignment
  <2> QED BY <1>1, <2>6, <2>7, <2>9, <2>10, RunStep
<1> QED BY <1>2, <1>3

\* The detach of an assignment
LEMMA DetachStep == ASSUME BatchInv, NEW s \in Slots, DetachAssignment(s) PROVE BatchInv'
<1>0. Shape /\ UniqueIds /\ row[s].claim = 0
  BY DEF BatchInv, DetachAssignment, Removable
<1>1. 0 \in {0} \cup Runs /\ 0 \notin Runs
  BY SlotAssumption DEF Runs
<1>2. row'[s] = NoRow /\ \A t \in Slots \ {s} : row'[t] = row[t]
  BY <1>0 DEF Shape, DetachAssignment
<1>3. Shape'
  BY <1>0 DEF Shape, DetachAssignment
<1>4. UniqueIds'
  BY <1>0, <1>2, UniqueKept DEF Exists, NoRow
<1>5. RowsKept(0)
  BY <1>0, <1>2 DEF RowsKept, NoRow
<1>6. OthersKept(0)
  BY DEF OthersKept, DetachAssignment
<1> QED BY <1>1, <1>3, <1>4, <1>5, <1>6, RunStep

\* A run that is not open has neither a batch nor a task.
LEMMA ClosedRun ==
  ASSUME BatchInv, NEW r \in Runs, ~Open(r)
  PROVE  batch[r] = NoBatch /\ task[r] = NoTask
BY DEF BatchInv, RunOK, BatchOK, TaskOK, CommandOK, ApplyOK, UndoOK, EndOK, Open

\* A row is there or is no row at all.
LEMMA RowThere ==
  ASSUME Shape, NEW s \in Slots
  PROVE  /\ Exists(s) => row[s] \in RowRecords
         /\ ~Exists(s) => row[s] = NoRow
         /\ row[s].claim # 0 => Exists(s)
BY DEF Shape, Exists, RowRecords, NoRow, None

\* No task
LEMMA NoTaskShape == NoTask \in TaskRecords /\ NoBatch \in BatchRecords
<1>1. <<>> \in Seq(PlanItems)
  OBVIOUS
<1>2. 0 \in 0..MaxId
  BY SlotAssumption
<1>3. NoTask \in TaskRecords
  BY <1>2 DEF NoTask, TaskRecords
<1> QED BY <1>1, <1>3 DEF NoBatch, BatchRecords

\* A command is launched for a row that nobody has claimed.
LEMMA CommandLaunched ==
  ASSUME BatchInv, NEW r \in Runs, NEW s \in Slots, Exists(s), row[s].claim = 0,
         NEW kind \in Commands, NEW c \in Configs \cup {None}, NEW prev \in Configs \cup {None},
         kind = "resource-update" => prev \in Configs,
         Launch(r, Command(kind, s, c, prev)), UNCHANGED <<unit, batch>>,
         row' \in [Slots -> {NoRow} \cup RowRecords],
         \A t \in Slots : /\ row'[t].id = row[t].id /\ row'[t].claim = row[t].claim
                          /\ row'[t].state = row[t].state
  PROVE  BatchInv'
<1>0. Shape /\ UniqueIds
  BY DEF BatchInv
<1>1. NextRun(r) /\ ~Open(r)
  BY DEF Launch, NextRun, Open, None
<1>2. batch[r] = NoBatch /\ task[r] = NoTask
  BY <1>1, ClosedRun
<1>3. run' = [run EXCEPT ![r] = "running"]
  BY DEF Launch
<1> DEFINE t0 == Command(kind, s, c, prev)
<1>4. PICK z \in TaskRecords : z = NoTask /\ z.todo = {}
  BY NoTaskShape DEF NoTask
<1>5. row[s].id \in Ids /\ row[s].id \in 0..MaxId
  BY <1>0, RowThere, SlotAssumption DEF RowRecords, Ids
<1>6. t0 = [z EXCEPT !.mode = kind, !.pc = "sent", !.slot = s, !.id = row[s].id,
                   !.config = c, !.prev = prev]
  BY <1>4 DEF Command
<1>7. /\ t0 \in TaskRecords
      /\ t0.mode = kind /\ t0.pc = "sent" /\ t0.todo = {} /\ t0.slot = s
      /\ t0.id = row[s].id /\ t0.prev = prev
  <2> HIDE DEF t0
  <2> QED BY <1>4, <1>5, <1>6 DEF TaskRecords
<1> HIDE DEF t0
<1>8. task' \in {[task EXCEPT ![r] = t0], task}
  BY DEF Launch, t0
<1>9. Shape'
  BY <1>0, <1>3, <1>7, <1>8 DEF Shape
<1>10. UniqueIds'
  BY <1>0, UniqueKept DEF Exists
<1>11. RowsKept(r)
  BY DEF RowsKept
<1>12. OthersKept(r)
  BY <1>0, <1>3, <1>8 DEF OthersKept, Shape
<1>13. \A t \in Slots : row[t].claim # 0 => row[t].id # row[s].id
  BY <1>0, RowThere DEF UniqueIds
<1>14. RunOK(r)'
  <2>1. batch'[r] = NoBatch
    BY <1>2
  <2>2. CASE task' = task
    BY <1>2, <2>1, <2>2 DEF RunOK, TaskOK
  <2>3. CASE task' = [task EXCEPT ![r] = t0]
    <3>1. task'[r] = t0 /\ run'[r] = "running"
      BY <1>0, <1>3, <2>3 DEF Shape
    <3>2. CommandOK(r)'
      BY <1>7, <1>13, <2>1, <3>1 DEF CommandOK
    <3> QED BY <2>1, <3>2 DEF RunOK, TaskOK
  <2> QED BY <1>8, <2>2, <2>3
<1>15. Changes(r)' = Changes(r)
  BY DEF Changes
<1> QED BY <1>9, <1>10, <1>11, <1>12, <1>14, <1>15, RunStep

\* update_resources, apply_assignment and purge_assignment
LEMMA CommandRequests ==
  ASSUME BatchInv, NEW r \in Runs, NEW s \in Slots, NEW c \in Configs,
         UpdateResources(r, s, c) \/ ApplyAssignment(r, s) \/ PurgeAssignment(r, s)
  PROVE  BatchInv'
<1>0. Shape
  BY DEF BatchInv
<1>1. Exists(s) /\ row[s].claim = 0
  BY DEF UpdateResources, ApplyAssignment, PurgeAssignment, Removable
<1>2. row[s] \in RowRecords
  BY <1>0, <1>1, RowThere
<1>3. PICK p \in Configs : p = row[s].config
  BY <1>2 DEF RowRecords
<1>4. {"resource-update", "reconcile", "purge"} = Commands
  BY DEF Commands
<1>5. CASE UpdateResources(r, s, c)
  <2>1. row' = [row EXCEPT ![s].config = c]
    BY <1>5 DEF UpdateResources
  <2>2. /\ row' \in [Slots -> {NoRow} \cup RowRecords]
        /\ \A t \in Slots : /\ row'[t].id = row[t].id /\ row'[t].claim = row[t].claim
                            /\ row'[t].state = row[t].state
    <3>1. row'[s] \in RowRecords
      BY <1>0, <1>2, <2>1 DEF Shape, RowRecords
    <3> QED BY <1>0, <1>2, <2>1, <3>1 DEF Shape, RowRecords
  <2>3. Launch(r, Command("resource-update", s, c, p)) /\ UNCHANGED <<unit, batch>>
    BY <1>3, <1>5 DEF UpdateResources
  <2>4. PICK k \in Commands : k = "resource-update"
    BY <1>4
  <2> QED BY <1>1, <2>2, <2>3, <2>4, CommandLaunched
<1>6. CASE ApplyAssignment(r, s)
  <2>1. Launch(r, Command("reconcile", s, p, None)) /\ UNCHANGED <<row, unit, batch>>
    BY <1>3, <1>6 DEF ApplyAssignment
  <2>2. PICK k \in Commands : k = "reconcile"
    BY <1>4
  <2>3. PICK n \in Configs \cup {None} : n = None
    OBVIOUS
  <2> QED BY <1>0, <1>1, <2>1, <2>2, <2>3, CommandLaunched DEF Shape
<1>7. CASE PurgeAssignment(r, s)
  <2>1. Launch(r, Command("purge", s, None, None)) /\ UNCHANGED <<row, unit, batch>>
    BY <1>7 DEF PurgeAssignment
  <2>2. PICK k \in Commands : k = "purge"
    BY <1>4
  <2>3. PICK n \in Configs \cup {None} : n = None
    OBVIOUS
  <2> QED BY <1>0, <1>1, <2>1, <2>2, <2>3, CommandLaunched DEF Shape
<1> QED BY <1>5, <1>6, <1>7

\* What the mode and the point of a task say about it.
LEMMA TaskCases ==
  ASSUME BatchInv, NEW r \in Runs
  PROVE  /\ task[r].mode \in Commands => CommandOK(r)
         /\ task[r].mode = "apply" /\ task[r].pc # "succeed" => ApplyOK(r)
         /\ task[r].mode \in {"undo", "recover"} /\ task[r].pc # "fail" => UndoOK(r)
         /\ task[r].pc \in {"succeed", "fail"} => EndOK(r)
         /\ task[r].pc = "commit" => ApplyOK(r)
         /\ task[r].pc = "sent" => CommandOK(r) \/ ApplyOK(r) \/ UndoOK(r)
         /\ ApplyOK(r) \/ UndoOK(r) => batch[r] # NoBatch /\ BatchOK(r)
<1>1. task[r] = NoTask \/ CommandOK(r) \/ ApplyOK(r) \/ UndoOK(r) \/ EndOK(r)
  BY DEF BatchInv, RunOK, TaskOK
<1>2. ApplyOK(r) \/ UndoOK(r) => batch[r] # NoBatch /\ BatchOK(r)
  BY DEF BatchInv, RunOK, ApplyOK, UndoOK
<1>3. task[r] = NoTask => task[r].mode = None /\ task[r].pc = None
  BY DEF NoTask
<1>4. CommandOK(r) => task[r].mode \in Commands /\ task[r].pc \in {"sent", "done"}
  BY DEF CommandOK
<1>5. ApplyOK(r) => task[r].mode = "apply" /\ task[r].pc \in {"start", "next", "sent", "done", "commit"}
  BY DEF ApplyOK
<1>6. UndoOK(r) => task[r].mode \in {"undo", "recover"} /\ task[r].pc \in {"next", "sent", "done"}
  BY DEF UndoOK
<1>7. EndOK(r) => \/ task[r].mode = "apply" /\ task[r].pc = "succeed"
                  \/ task[r].mode = "undo" /\ task[r].pc = "fail"
  BY DEF EndOK
<1> QED BY <1>1, <1>2, <1>3, <1>4, <1>5, <1>6, <1>7 DEF Commands, None

\* finalize of a command run
LEMMA CommandEndStep ==
  ASSUME BatchInv, NEW r \in Runs, CommandEnds(r) PROVE BatchInv'
<1>0. Shape /\ UniqueIds
  BY DEF BatchInv
<1>1. CommandOK(r) /\ batch[r] = NoBatch
  BY TaskCases DEF CommandEnds, CommandSucceeds, CommandFails, CommandOK
<1>2. /\ task' = [task EXCEPT ![r] = NoTask] /\ UNCHANGED <<unit, batch>>
      /\ \/ run' = [run EXCEPT ![r] = "succeeded"]
         \/ run' = [run EXCEPT ![r] = "failed"]
  BY DEF CommandEnds, CommandSucceeds, CommandFails
<1>3. \A s \in Slots : Exists(s) /\ row[s].id = task[r].id => row[s].claim = 0 /\ row[s] \in RowRecords
  BY <1>0, <1>1, RowThere DEF CommandOK
<1>4. /\ row' \in [Slots -> {NoRow} \cup RowRecords]
      /\ \A s \in Slots : \/ row'[s] = row[s]
                          \/ row'[s] = NoRow /\ row[s].claim = 0
                          \/ /\ row'[s].claim = 0 /\ row[s].claim = 0
                             /\ row'[s].id = row[s].id /\ Exists(s)
  <2>1. CASE row' = row
    BY <1>0, <2>1 DEF Shape
  <2>2. CASE row' = WithId(task[r].id, [s \in Slots |-> NoRow])
    BY <1>0, <1>3, <2>2 DEF WithId, Shape
  <2>3. CASE /\ task[r].mode = "resource-update"
             /\ row' = WithId(task[r].id, [s \in Slots |-> [row[s] EXCEPT !.config = task[r].prev]])
    <3>1. PICK p \in Configs : p = task[r].prev
      BY <1>1, <2>3 DEF CommandOK
    <3>2. \A s \in Slots : row[s] \in RowRecords =>
             /\ [row[s] EXCEPT !.config = p] \in RowRecords
             /\ [row[s] EXCEPT !.config = p].claim = row[s].claim
             /\ [row[s] EXCEPT !.config = p].id = row[s].id
      BY DEF RowRecords
    <3>3. row' = [s \in Slots |-> IF Exists(s) /\ row[s].id = task[r].id
                                  THEN [row[s] EXCEPT !.config = p] ELSE row[s]]
      BY <2>3, <3>1 DEF WithId
    <3> QED BY <1>0, <1>3, <3>2, <3>3 DEF Shape
  <2> QED BY <2>1, <2>2, <2>3 DEF CommandEnds, CommandSucceeds, CommandFails
<1>5. Shape'
  BY <1>0, <1>2, <1>4, NoTaskShape DEF Shape
<1>6. UniqueIds'
  BY <1>0, <1>4, UniqueKept DEF Exists, NoRow
<1>7. RowsKept(r)
  BY <1>4 DEF RowsKept, NoRow
<1>8. OthersKept(r)
  BY <1>0, <1>2 DEF OthersKept, Shape
<1>9. RunOK(r)'
  BY <1>0, <1>1, <1>2 DEF RunOK, TaskOK, Shape
<1>10. Changes(r)' = Changes(r)
  BY <1>2 DEF Changes
<1> QED BY <1>5, <1>6, <1>7, <1>8, <1>9, <1>10, RunStep

\* A step that leaves the rows and the plan alone.
LEMMA WorkStep ==
  ASSUME BatchInv, NEW r \in Runs, Shape', UNCHANGED row,
         OthersKept(r), batch'[r].plan = batch[r].plan, RunOK(r)'
  PROVE  BatchInv'
<1>1. UniqueIds'
  BY DEF BatchInv, UniqueIds, Exists
<1>2. RowsKept(r)
  BY DEF RowsKept
<1>3. Changes(r)' = Changes(r)
  BY DEF Changes
<1> QED BY <1>1, <1>2, <1>3, RunStep

\* A playbook takes effect.
LEMMA RemoteStep == ASSUME BatchInv, NEW r \in Runs, Remote(r) PROVE BatchInv'
<1>0. Shape
  BY DEF BatchInv
<1>1. /\ task[r].pc = "sent" /\ UNCHANGED <<row, run, batch>>
      /\ unit' = [unit EXCEPT ![task[r].slot] = task[r].config]
      /\ task' = [task EXCEPT ![r].pc = "done"]
  BY DEF Remote
<1>2. task[r] \in TaskRecords
  BY <1>0 DEF Shape
<1>3. /\ task'[r] = [task[r] EXCEPT !.pc = "done"]
      /\ \A q \in Runs \ {r} : task'[q] = task[q]
  BY <1>0, <1>1 DEF Shape
<1>4. /\ task'[r] \in TaskRecords /\ task'[r].pc = "done"
      /\ task'[r].mode = task[r].mode /\ task'[r].todo = task[r].todo /\ task'[r].slot = task[r].slot
      /\ task'[r].id = task[r].id /\ task'[r].config = task[r].config /\ task'[r].prev = task[r].prev
      /\ task'[r].boot = task[r].boot /\ task'[r].ok = task[r].ok
  BY <1>2, <1>3 DEF TaskRecords
<1>5. Shape'
  BY <1>0, <1>1, <1>2, <1>4 DEF Shape, TaskRecords
<1>6. /\ Open(r)' = Open(r) /\ Changes(r)' = Changes(r) /\ Executable(r)' = Executable(r)
  BY <1>1 DEF Open, Changes, Executable
<1>7. None \notin Configs
  BY SlotAssumption
<1>8. \A c \in Changes(r) : c.slot \in Slots
  BY <1>0, PlanSlots
<1>9. CASE CommandOK(r)
  <2>1. OthersKept(r)
    BY <1>0, <1>1, <1>3, <1>9 DEF OthersKept, Shape, CommandOK
  <2>2. CommandOK(r)'
    BY <1>1, <1>4, <1>9 DEF CommandOK
  <2>3. RunOK(r)'
    BY <2>2 DEF RunOK, TaskOK, CommandOK
  <2> QED BY <1>1, <1>5, <2>1, <2>3, WorkStep
<1>10. CASE ApplyOK(r)
  <2>0. BatchOK(r)
    BY <1>10, TaskCases
  <2>1. PICK c \in task[r].todo : c.slot = task[r].slot
    BY <1>1, <1>10 DEF ApplyOK
  <2>2. c \in Changes(r) /\ c.slot \in Slots /\ row[c.slot].claim = r
    BY <1>8, <1>10, <2>0, <2>1 DEF ApplyOK, Executable, BatchOK
  <2>3. task[r].config \in Configs /\ task[r].slot \in batch[r].done
    BY <1>1, <1>10 DEF ApplyOK
  <2>4. /\ unit'[task[r].slot] = task[r].config
        /\ \A s \in Slots \ {task[r].slot} : unit'[s] = unit[s]
    BY <1>0, <1>1, <2>1, <2>2 DEF Shape
  <2>5. OthersKept(r)
    BY <1>1, <1>3, <2>1, <2>2, <2>4 DEF OthersKept
  <2>6. \A d \in Changes(r) : unit[d.slot] # None => unit'[d.slot] # None
    BY <1>7, <1>8, <2>3, <2>4
  <2>7. BatchOK(r)'
    BY <1>1, <1>6, <1>8, <2>0, <2>3, <2>4 DEF BatchOK
  <2>8. OrderOK(r)'
    BY <1>1, <1>4, <1>6, <1>10, <2>6 DEF ApplyOK, OrderOK
  <2>9. Executable(r) \subseteq Changes(r)
    BY DEF Executable
  <2>10. ApplyOK(r)'
    BY <1>1, <1>4, <1>6, <1>7, <1>10, <2>3, <2>4, <2>6, <2>8, <2>9 DEF ApplyOK
  <2>11. RunOK(r)'
    BY <2>7, <2>10 DEF RunOK, TaskOK
  <2> QED BY <1>1, <1>5, <2>5, <2>11, WorkStep
<1>11. CASE UndoOK(r)
  <2>0. BatchOK(r)
    BY <1>11, TaskCases
  <2>1. PICK c \in task[r].todo : c.slot = task[r].slot /\ task[r].config = Target(c)
    BY <1>1, <1>11 DEF UndoOK
  <2>2. c \in Changes(r) /\ c.slot \in Slots /\ row[c.slot].claim = r /\ c.slot \in batch[r].done
    BY <1>8, <1>11, <2>0, <2>1 DEF UndoOK, BatchOK
  <2>4. /\ unit'[task[r].slot] = task[r].config
        /\ \A s \in Slots \ {task[r].slot} : unit'[s] = unit[s]
    BY <1>0, <1>1, <2>1, <2>2 DEF Shape
  <2>5. OthersKept(r)
    BY <1>1, <1>3, <2>1, <2>2, <2>4 DEF OthersKept
  <2>6. \A d \in Changes(r) \ task[r].todo : unit'[d.slot] = unit[d.slot]
    BY <1>8, <2>0, <2>1, <2>2, <2>4 DEF BatchOK
  <2>7. BatchOK(r)'
    BY <1>1, <1>6, <1>8, <2>0, <2>1, <2>2, <2>4 DEF BatchOK
  <2>8. UndoOK(r)'
    BY <1>1, <1>4, <1>6, <1>11, <2>1, <2>4, <2>6 DEF UndoOK, Target
  <2>9. RunOK(r)'
    BY <2>7, <2>8 DEF RunOK, TaskOK
  <2> QED BY <1>1, <1>5, <2>5, <2>9, WorkStep
<1> QED BY <1>1, <1>9, <1>10, <1>11, TaskCases

-----------------------------------------------------------------------------
\* The worker

\* A step of r that leaves rows and units alone, in terms of the records of r.
LEMMA OwnStep ==
  ASSUME BatchInv, NEW r \in Runs, UNCHANGED <<row, unit>>,
         NEW t \in TaskRecords, task' = [task EXCEPT ![r] = t],
         NEW b \in BatchRecords, batch' = [batch EXCEPT ![r] = b], b.plan = batch[r].plan,
         NEW u \in {"running", "recovery_required", "succeeded", "failed"}, run' = [run EXCEPT ![r] = u],
         RunOK(r)'
  PROVE  BatchInv'
<1>0. Shape
  BY DEF BatchInv
<1>1. Shape'
  BY <1>0 DEF Shape
<1>2. OthersKept(r)
  BY <1>0 DEF OthersKept, Shape
<1>3. batch'[r].plan = batch[r].plan
  BY <1>0 DEF Shape
<1> QED BY <1>1, <1>2, <1>3, WorkStep

\* The same, when only the task changes.
LEMMA TaskStep ==
  ASSUME BatchInv, NEW r \in Runs, UNCHANGED <<row, unit, run, batch>>,
         NEW t \in TaskRecords, task' = [task EXCEPT ![r] = t], RunOK(r)'
  PROVE  BatchInv'
<1>0. Shape
  BY DEF BatchInv
<1>1. Shape'
  BY <1>0 DEF Shape
<1>2. OthersKept(r)
  BY <1>0 DEF OthersKept, Shape
<1> QED BY <1>1, <1>2, WorkStep

\* The steps that give the task up and leave the run to recovery or close it.
LEMMA GivenUp ==
  ASSUME BatchInv, NEW r \in Runs, UNCHANGED <<row, unit>>, task' = [task EXCEPT ![r] = NoTask],
         NEW b \in BatchRecords, batch' = [batch EXCEPT ![r] = b], b.plan = batch[r].plan,
         NEW u \in {"running", "recovery_required", "succeeded", "failed"}, run' = [run EXCEPT ![r] = u],
         b # NoBatch => BatchOK(r)'
  PROVE  BatchInv'
<1>1. task'[r] = NoTask /\ batch'[r] = b
  BY DEF BatchInv, Shape
<1>2. RunOK(r)'
  BY <1>1 DEF RunOK, TaskOK
<1> QED BY <1>2, NoTaskShape, OwnStep

\* ordered_executable_changes
LEMMA StartStep == ASSUME BatchInv, NEW r \in Runs, StartBatch(r) PROVE BatchInv'
<1>0. Shape /\ task[r] \in TaskRecords
  BY DEF BatchInv, Shape
<1>1. ApplyOK(r) /\ BatchOK(r) /\ batch[r] # NoBatch /\ task[r].pc = "start"
  BY TaskCases DEF StartBatch
<1>2. PICK t : t = [task[r] EXCEPT !.pc = IF Executable(r) = {} THEN "commit" ELSE "next",
                                   !.todo = Executable(r), !.boot = Bootstrap(r)]
  OBVIOUS
<1>3. task' = [task EXCEPT ![r] = t] /\ UNCHANGED <<row, unit, run, batch>>
  BY <1>0, <1>2 DEF StartBatch, Shape
<1>4. Executable(r) \in SUBSET PlanItems /\ Executable(r) \subseteq Changes(r)
  BY <1>0, PlanSlots DEF Executable
<1>5. /\ Bootstrap(r) \in Slots \cup {None}
      /\ Bootstrap(r) # None => \E c \in Changes(r) : c.kind = "create" /\ c.slot = Bootstrap(r)
  BY <1>0, PlanSlots DEF Bootstrap
<1>6. PICK p \in {"commit", "next"} : /\ p = IF Executable(r) = {} THEN "commit" ELSE "next"
                                      /\ p = "commit" => Executable(r) = {}
  OBVIOUS
<1>7. PICK e : e = Executable(r)
  OBVIOUS
<1>8. PICK b : b = Bootstrap(r)
  OBVIOUS
<1>9. t = [task[r] EXCEPT !.pc = p, !.todo = e, !.boot = b]
  BY <1>2, <1>6, <1>7, <1>8
<1>10. /\ t \in TaskRecords /\ t.pc = p /\ t.todo = e /\ t.boot = b /\ t.mode = task[r].mode
  BY <1>0, <1>4, <1>5, <1>7, <1>8, <1>9, ZenonT(60) DEF TaskRecords
<1>11. task'[r] = t
  BY <1>0, <1>3 DEF Shape
<1>12. /\ Open(r)' = Open(r) /\ Changes(r)' = Changes(r) /\ Executable(r)' = Executable(r)
  BY <1>3 DEF Open, Changes, Executable
<1>13. OrderOK(r)'
  BY <1>1, <1>3, <1>5, <1>8, <1>10, <1>11, <1>12 DEF OrderOK, ApplyOK
<1>14. ApplyOK(r)'
  BY <1>1, <1>3, <1>6, <1>7, <1>10, <1>11, <1>12, <1>13 DEF ApplyOK
<1>15. BatchOK(r)'
  BY <1>1, <1>3, <1>12 DEF BatchOK
<1>16. RunOK(r)'
  BY <1>14, <1>15 DEF RunOK, TaskOK
<1> QED BY <1>3, <1>10, <1>16, TaskStep

\* The batch row of r gets a phase and, when the payload of c cannot be built,
\* one more change that was begun; the run is left to recovery.
LEMMA RaiseStep ==
  ASSUME BatchInv, NEW r \in Runs,
         StartRaises(r) \/ \E c \in task[r].todo : BatchRaises(r, c)
  PROVE  BatchInv'
<1>0. Shape /\ batch[r] \in BatchRecords
  BY DEF BatchInv, Shape
<1>1. ApplyOK(r) /\ BatchOK(r) /\ batch[r] # NoBatch
  BY TaskCases DEF StartRaises, BatchRaises
<1>2. PICK D : /\ batch' = [batch EXCEPT ![r].phase = "rolling_back", ![r].done = D]
               /\ batch[r].done \subseteq D /\ D \subseteq {c.slot : c \in Executable(r)}
  <2>1. CASE StartRaises(r)
    <3>1. batch' = [batch EXCEPT ![r].phase = "rolling_back", ![r].done = batch[r].done]
      BY <1>0, <2>1 DEF StartRaises, Shape, BatchRecords
    <3> QED BY <1>1, <3>1 DEF BatchOK
  <2>2. ASSUME NEW c \in task[r].todo, BatchRaises(r, c)
        PROVE  \E D : /\ batch' = [batch EXCEPT ![r].phase = "rolling_back", ![r].done = D]
                      /\ batch[r].done \subseteq D /\ D \subseteq {d.slot : d \in Executable(r)}
    <3>1. batch' = [batch EXCEPT ![r].phase = "rolling_back", ![r].done = batch[r].done \cup {c.slot}]
      BY <1>0, <2>2 DEF BatchRaises, Shape, BatchRecords
    <3>2. c \in Executable(r)
      BY <1>1 DEF ApplyOK
    <3>3. PICK E : E = batch[r].done \cup {c.slot}
      OBVIOUS
    <3>4. batch[r].done \subseteq E /\ E \subseteq {d.slot : d \in Executable(r)}
      BY <1>1, <3>2, <3>3 DEF BatchOK
    <3> QED BY <3>1, <3>3, <3>4
  <2> QED BY <2>1, <2>2
<1>3. UNCHANGED <<row, unit>> /\ task' = [task EXCEPT ![r] = NoTask] /\ run' = [run EXCEPT ![r] = "recovery_required"]
  BY DEF StartRaises, BatchRaises
<1>4. PICK b : b = [batch[r] EXCEPT !.phase = "rolling_back", !.done = D]
  OBVIOUS
<1>5. D \subseteq Slots
  BY <1>0, <1>2, PlanSlots DEF Executable
<1>6. b \in BatchRecords /\ b.phase = "rolling_back" /\ b.done = D /\ b.plan = batch[r].plan
  BY <1>0, <1>4, <1>5 DEF BatchRecords
<1>7. batch' = [batch EXCEPT ![r] = b] /\ batch'[r] = b
  BY <1>0, <1>2, <1>4 DEF Shape
<1>8. run'[r] = "recovery_required"
  BY <1>0, <1>3 DEF Shape
<1>9. Changes(r)' = Changes(r) /\ Executable(r)' = Executable(r)
  BY <1>6, <1>7 DEF Changes, Executable
<1>10. BatchOK(r)'
  <2>1. batch[r].done \subseteq D /\ D \subseteq {c.slot : c \in Executable(r)}
    BY <1>2
  <2>2. batch'[r].phase # None /\ batch'[r].done = D
    BY <1>6, <1>7 DEF None
  <2>3. Open(r)'
    BY <1>8 DEF Open
  <2> QED BY <1>1, <1>3, <1>9, <2>1, <2>2, <2>3 DEF BatchOK
<1>11. PICK u \in {"running", "recovery_required", "succeeded", "failed"} : u = "recovery_required"
  OBVIOUS
<1> QED BY <1>3, <1>6, <1>7, <1>10, <1>11, GivenUp

\* Changes come in their order: when c is the next one, the initial master is
\* no longer to do, and before a further master no hot role is.
LEMMA InOrder ==
  ASSUME NEW r \in Runs, task[r].mode = "apply", NEW c \in task[r].todo, IsNext(r, c),
         task[r].boot # None, c.slot # task[r].boot
  PROVE  /\ \A d \in task[r].todo : d.slot # task[r].boot
         /\ Role[c.slot] = "master" =>
              \A d \in task[r].todo : ~(d.kind = "create" /\ Role[d.slot] = "hot")
<1> DEFINE boot == task[r].boot
<1>1. \A d \in task[r].todo \ {c} : Precedes(c, d, boot)
  BY DEF IsNext
<1>2. Class(c, boot) \in {1, 2, 3}
  BY DEF Class
<1>3. Role[c.slot] = "master" => Class(c, boot) = 2
  BY DEF Class
<1>4. \A d : d.slot = boot => Class(d, boot) = 0
  BY DEF Class
<1>5. \A d : d.kind = "create" /\ Role[d.slot] = "hot" => Class(d, boot) \in {0, 1}
  BY DEF Class
<1>6. \A d : Class(d, boot) \in {0, 1} /\ Precedes(c, d, boot) => Class(c, boot) \in {0, 1}
  <2> SUFFICES ASSUME NEW d, Class(d, boot) \in {0, 1}, Precedes(c, d, boot)
               PROVE  Class(c, boot) \in {0, 1}
    OBVIOUS
  <2> QED BY <1>2 DEF Precedes
<1>7. \A d : Class(d, boot) = 0 => ~Precedes(c, d, boot)
  <2> SUFFICES ASSUME NEW d, Class(d, boot) = 0 PROVE ~Precedes(c, d, boot)
    OBVIOUS
  <2> QED BY <1>2 DEF Precedes
<1> QED BY <1>1, <1>3, <1>4, <1>5, <1>6, <1>7

\* What is deployed is a configuration.
LEMMA PayloadIsConfig ==
  ASSUME BatchInv, NEW r \in Runs, BatchOK(r), NEW c \in Executable(r)
  PROVE  PayloadConfig(c) \in Configs
<1>0. Shape /\ c \in Changes(r) /\ c.slot \in Slots /\ r # 0
  BY PlanSlots, SlotAssumption DEF BatchInv, Executable, Runs
<1>1. row[c.slot].claim = r
  BY <1>0 DEF BatchOK
<1>2. row[c.slot] \in RowRecords
  BY <1>0, <1>1, RowThere
<1>3. c.kind = "resources" => c.prev \in Configs
  BY <1>0 DEF BatchOK
<1> QED BY <1>2, <1>3 DEF PayloadConfig, RowRecords

\* A change is sent.
LEMMA SentTask ==
  ASSUME Shape, NEW r \in Runs, NEW c \in Changes(r), NEW g \in Configs \cup {None}
  PROVE  LET t == Send(task[r], c, g)
         IN  /\ t \in TaskRecords /\ t.pc = "sent" /\ t.slot = c.slot /\ t.config = g
             /\ t.mode = task[r].mode /\ t.todo = task[r].todo /\ t.boot = task[r].boot
             /\ t.ok = task[r].ok
<1>1. task[r] \in TaskRecords /\ c \in PlanItems
  BY PlanSlots DEF Shape
<1>2. c.id \in 0..MaxId /\ c.slot \in Slots
  BY <1>1, SlotAssumption DEF PlanItems, Ids
<1>3. PICK i : i = c.id
  OBVIOUS
<1>4. PICK s : s = c.slot
  OBVIOUS
<1> QED BY <1>1, <1>2, <1>3, <1>4 DEF Send, TaskRecords

\* The next change is recorded and its playbook started.
LEMMA ApplyNextStep ==
  ASSUME BatchInv, NEW r \in Runs, NEW c \in task[r].todo, ApplyNext(r, c) PROVE BatchInv'
<1>0. Shape /\ batch[r] \in BatchRecords
  BY DEF BatchInv, Shape
<1>1. ApplyOK(r) /\ BatchOK(r) /\ batch[r] # NoBatch /\ task[r].pc = "next" /\ IsNext(r, c)
  BY TaskCases DEF ApplyNext
<1>2. c \in Executable(r) /\ c \in Changes(r) /\ c.slot \in Slots
  BY <1>0, <1>1, PlanSlots DEF ApplyOK, Executable
<1>3. PICK g \in Configs : g = PayloadConfig(c)
  BY <1>1, <1>2, PayloadIsConfig
<1>4. PICK t : t = Send(task[r], c, g)
  OBVIOUS
<1>5. /\ t \in TaskRecords /\ t.pc = "sent" /\ t.slot = c.slot /\ t.config = g
      /\ t.mode = task[r].mode /\ t.todo = task[r].todo /\ t.boot = task[r].boot
  BY <1>0, <1>2, <1>4, SentTask
<1>6. PICK D : D = batch[r].done \cup {c.slot}
  OBVIOUS
<1>7. PICK b : b = [batch[r] EXCEPT !.done = D]
  OBVIOUS
<1>8. b \in BatchRecords /\ b.done = D /\ b.plan = batch[r].plan /\ b.phase = batch[r].phase
  BY <1>0, <1>2, <1>6, <1>7 DEF BatchRecords
<1>9. /\ UNCHANGED <<row, unit, run>> /\ task' = [task EXCEPT ![r] = t]
      /\ batch' = [batch EXCEPT ![r] = b]
  BY <1>0, <1>3, <1>4, <1>6, <1>7 DEF ApplyNext, Shape
<1>10. task'[r] = t /\ batch'[r] = b
  BY <1>0, <1>9 DEF Shape
<1>11. Open(r)' = Open(r) /\ Changes(r)' = Changes(r) /\ Executable(r)' = Executable(r)
  BY <1>8, <1>9, <1>10 DEF Open, Changes, Executable
<1>12. BatchOK(r)'
  <2>1. batch[r].done \subseteq D /\ D \subseteq {d.slot : d \in Executable(r)}
    BY <1>1, <1>2, <1>6 DEF BatchOK
  <2>2. batch'[r].phase # None /\ batch'[r].done = D
    BY <1>1, <1>8, <1>10 DEF BatchOK
  <2> QED BY <1>1, <1>9, <1>11, <2>1, <2>2 DEF BatchOK
<1>13. OrderOK(r)'
  <2> SUFFICES ASSUME task[r].boot # None PROVE OrderOK(r)'
    BY <1>5, <1>10 DEF OrderOK
  <2>1. PICK m \in Changes(r) : m.kind = "create" /\ m.slot = task[r].boot
    BY <1>1 DEF ApplyOK, OrderOK
  <2>2. \A d \in Changes(r) : d.kind = "create" /\ d \notin task[r].todo => unit[d.slot] # None
    BY <1>1 DEF ApplyOK, Executable
  <2>3. ASSUME c.slot # task[r].boot
        PROVE  /\ unit[task[r].boot] # None
               /\ Role[c.slot] = "master" =>
                    \A d \in Changes(r) : d.kind = "create" /\ Role[d.slot] = "hot" => unit[d.slot] # None
    <3>1. task[r].mode = "apply"
      BY <1>1 DEF ApplyOK
    <3>2. m \notin task[r].todo
      BY <1>1, <2>1, <2>3, <3>1, InOrder
    <3>3. Role[c.slot] = "master" =>
            \A d \in Changes(r) : d.kind = "create" /\ Role[d.slot] = "hot" => d \notin task[r].todo
      BY <1>1, <2>3, <3>1, InOrder
    <3> QED BY <2>1, <2>2, <3>2, <3>3
  <2> QED BY <1>1, <1>5, <1>6, <1>8, <1>9, <1>10, <1>11, <2>1, <2>3 DEF ApplyOK, OrderOK
<1>14. ApplyOK(r)'
  <2>1. task'[r].slot \in batch'[r].done
    BY <1>5, <1>6, <1>8, <1>10
  <2>2. batch'[r] # NoBatch
    BY <1>1, <1>8, <1>10 DEF BatchOK, NoBatch
  <2> QED BY <1>1, <1>5, <1>9, <1>10, <1>11, <1>13, <2>1, <2>2 DEF ApplyOK
<1>15. RunOK(r)'
  BY <1>12, <1>14 DEF RunOK, TaskOK
<1>16. PICK u \in {"running", "recovery_required", "succeeded", "failed"} : u = run[r]
  BY <1>1 DEF ApplyOK
<1>17. run' = [run EXCEPT ![r] = u]
  BY <1>0, <1>9, <1>16 DEF Shape
<1> QED BY <1>5, <1>8, <1>9, <1>15, <1>17, OwnStep

\* A playbook of the worker has succeeded.
LEMMA AppliedStep == ASSUME BatchInv, NEW r \in Runs, Applied(r) PROVE BatchInv'
<1>0. Shape /\ task[r] \in TaskRecords
  BY DEF BatchInv, Shape
<1>1. ApplyOK(r) /\ BatchOK(r) /\ batch[r] # NoBatch /\ task[r].pc = "done"
  BY TaskCases DEF Applied
<1>2. PICK R : R = Rest(r)
  OBVIOUS
<1>3. PICK p \in {"commit", "next"} : p = (IF R = {} THEN "commit" ELSE "next") /\ (p = "commit" => R = {})
  OBVIOUS
<1>4. PICK t : t = [task[r] EXCEPT !.pc = p, !.todo = R]
  OBVIOUS
<1>5. R \subseteq task[r].todo /\ \A c \in task[r].todo \ R : c.slot = task[r].slot
  BY <1>2 DEF Rest
<1>6. t \in TaskRecords /\ t.pc = p /\ t.todo = R /\ t.mode = task[r].mode /\ t.boot = task[r].boot
  BY <1>0, <1>4, <1>5 DEF TaskRecords
<1>7. task' = [task EXCEPT ![r] = t] /\ UNCHANGED <<row, unit, run, batch>>
  BY <1>0, <1>2, <1>3, <1>4 DEF Applied, Shape
<1>8. task'[r] = t
  BY <1>0, <1>7 DEF Shape
<1>9. Open(r)' = Open(r) /\ Changes(r)' = Changes(r) /\ Executable(r)' = Executable(r)
  BY <1>7 DEF Open, Changes, Executable
<1>10. OrderOK(r)'
  BY <1>1, <1>6, <1>7, <1>8, <1>9 DEF ApplyOK, OrderOK
<1>11. \A c \in Executable(r) \ R : unit[c.slot] # None
  BY <1>1, <1>5 DEF ApplyOK
<1>12. ApplyOK(r)'
  BY <1>1, <1>3, <1>5, <1>6, <1>7, <1>8, <1>9, <1>10, <1>11 DEF ApplyOK
<1>13. BatchOK(r)'
  BY <1>1, <1>7, <1>9 DEF BatchOK
<1>14. RunOK(r)'
  BY <1>12, <1>13 DEF RunOK, TaskOK
<1> QED BY <1>6, <1>7, <1>14, TaskStep

\* The changes that were begun
Begun(r) == {c \in Changes(r) : c.slot \in batch[r].done}

\* A playbook of the worker has failed: the rollback starts.
LEMMA ApplyFailedStep == ASSUME BatchInv, NEW r \in Runs, ApplyFailed(r) PROVE BatchInv'
<1>0. Shape /\ task[r] \in TaskRecords /\ batch[r] \in BatchRecords
  BY DEF BatchInv, Shape
<1>1. ApplyOK(r) /\ BatchOK(r) /\ batch[r] # NoBatch
  BY TaskCases DEF ApplyFailed
<1>2. PICK B : B = Begun(r) /\ B \subseteq Changes(r) /\ B \subseteq PlanItems
  BY <1>0, PlanSlots DEF Begun
<1>3. PICK t : t = [task[r] EXCEPT !.mode = "undo", !.pc = "next", !.todo = B]
  OBVIOUS
<1>4. t \in TaskRecords /\ t.mode = "undo" /\ t.pc = "next" /\ t.todo = B
  BY <1>0, <1>2, <1>3 DEF TaskRecords
<1>5. PICK b : b = [batch[r] EXCEPT !.phase = "rolling_back"]
  OBVIOUS
<1>6. b \in BatchRecords /\ b.phase = "rolling_back" /\ b.plan = batch[r].plan /\ b.done = batch[r].done
  BY <1>0, <1>5 DEF BatchRecords
<1>7. /\ task' = [task EXCEPT ![r] = t] /\ batch' = [batch EXCEPT ![r] = b]
      /\ UNCHANGED <<row, unit, run>>
  BY <1>0, <1>2, <1>3, <1>5 DEF ApplyFailed, Begun, Shape
<1>8. task'[r] = t /\ batch'[r] = b
  BY <1>0, <1>7 DEF Shape
<1>9. Open(r)' = Open(r) /\ Changes(r)' = Changes(r) /\ Executable(r)' = Executable(r)
  BY <1>6, <1>7, <1>8 DEF Open, Changes, Executable
<1>10. b # NoBatch /\ b.phase # None
  BY <1>6 DEF NoBatch, None
<1>11. BatchOK(r)'
  BY <1>1, <1>6, <1>7, <1>8, <1>9, <1>10 DEF BatchOK
<1>12. run[r] = "running"
  BY <1>1 DEF ApplyOK
<1>13. UndoOK(r)'
  BY <1>2, <1>4, <1>6, <1>7, <1>8, <1>9, <1>10, <1>12 DEF UndoOK, Begun
<1>14. RunOK(r)'
  BY <1>11, <1>13 DEF RunOK, TaskOK
<1>15. PICK u \in {"running", "recovery_required", "succeeded", "failed"} : u = run[r]
  BY <1>12
<1>16. run' = [run EXCEPT ![r] = u]
  BY <1>0, <1>7, <1>15 DEF Shape
<1> QED BY <1>4, <1>6, <1>7, <1>14, <1>16, OwnStep

\* The rows that r has claimed are the rows of its plan, by identifier.
LEMMA ClaimedRows ==
  ASSUME BatchInv, NEW r \in Runs, BatchOK(r), NEW s \in Slots, row[s].claim = r
  PROVE  /\ row[s] \in RowRecords
         /\ \E c \in Changes(r) : /\ c.slot = s /\ c.id = row[s].id /\ c \in PlanItems
                                  /\ \A d \in Changes(r) : d.slot = s => d = c
<1>0. Shape /\ r # 0
  BY SlotAssumption DEF BatchInv, Runs
<1>1. row[s] \in RowRecords
  BY <1>0, RowThere
<1>2. PICK c \in Changes(r) : c.slot = s
  BY <1>0 DEF BatchInv, ClaimsBacked
<1>3. c.id = row[s].id /\ \A d \in Changes(r) : d.slot = s => d = c
  BY <1>2 DEF BatchOK
<1>4. c \in PlanItems
  BY <1>0, PlanSlots
<1> QED BY <1>1, <1>2, <1>3, <1>4

\* finalize_batch: every row of the batch is free, and a created one active.
LEMMA FinalizedRows ==
  ASSUME BatchInv, NEW r \in Runs, BatchOK(r), NEW s \in Slots
  PROVE  /\ row[s].claim # r => Finalized(r)[s] = row[s]
         /\ row[s].claim = r => /\ Finalized(r)[s] \in {NoRow} \cup RowRecords
                                /\ Finalized(r)[s].claim = 0
                                /\ \/ Finalized(r)[s] = NoRow
                                   \/ Finalized(r)[s].id = row[s].id /\ Exists(s)
         /\ \A c \in Changes(r) : c.slot = s /\ c.kind = "create" => Finalized(r)[s].state = "active"
<1>0. \A c \in Changes(r) : c.slot = s => row[s].claim = r
  BY DEF BatchOK
<1>1. CASE row[s].claim # r
  BY <1>0, <1>1 DEF Finalized
<1>2. CASE row[s].claim = r
  <2>1. row[s] \in RowRecords /\ Exists(s)
    BY <1>2, ClaimedRows DEF RowRecords, Exists, None
  <2>2. PICK c \in Changes(r) : /\ c.slot = s /\ c.id = row[s].id /\ c \in PlanItems
                                /\ \A d \in Changes(r) : d.slot = s => d = c
    BY <1>2, ClaimedRows
  <2>3. (CHOOSE d \in Changes(r) : d.slot = s) = c
    BY <2>2
  <2>4. Finalized(r)[s] =
          CASE c.kind = "create" -> [row[s] EXCEPT !.state = "active", !.claim = 0]
            [] c.kind = "resources" -> [row[s] EXCEPT !.config = c.config, !.claim = 0]
            [] OTHER -> NoRow
    BY <1>2, <2>2, <2>3 DEF Finalized
  <2>5. PICK g \in Configs : g = c.config
    BY <2>2 DEF PlanItems
  <2>6. CASE c.kind = "create"
    <3>1. Finalized(r)[s] = [row[s] EXCEPT !.state = "active", !.claim = 0]
      BY <2>4, <2>6
    <3>2. PICK n : n = [row[s] EXCEPT !.state = "active", !.claim = 0]
      OBVIOUS
    <3>3. n \in RowRecords /\ n.claim = 0 /\ n.state = "active" /\ n.id = row[s].id
      BY <2>1, <3>2 DEF RowRecords
    <3> QED BY <1>2, <2>1, <3>1, <3>2, <3>3
  <2>7. CASE c.kind = "resources"
    <3>1. Finalized(r)[s] = [row[s] EXCEPT !.config = g, !.claim = 0]
      BY <2>4, <2>5, <2>7
    <3>2. PICK n : n = [row[s] EXCEPT !.config = g, !.claim = 0]
      OBVIOUS
    <3>3. n \in RowRecords /\ n.claim = 0 /\ n.id = row[s].id
      BY <2>1, <3>2 DEF RowRecords
    <3> QED BY <1>2, <2>1, <2>2, <2>7, <3>1, <3>2, <3>3
  <2>8. CASE c.kind \notin {"create", "resources"}
    <3>1. Finalized(r)[s] = NoRow
      BY <2>4, <2>8
    <3> QED BY <1>2, <2>2, <2>8, <3>1 DEF NoRow
  <2> QED BY <2>6, <2>7, <2>8
<1> QED BY <1>1, <1>2

\* release_batch: every row of the batch is free, and a created one gone.
LEMMA ReleasedRows ==
  ASSUME BatchInv, NEW r \in Runs, BatchOK(r), NEW s \in Slots
  PROVE  /\ row[s].claim # r => Released(r)[s] = row[s]
         /\ row[s].claim = r => /\ Released(r)[s] \in {NoRow} \cup RowRecords
                                /\ Released(r)[s].claim = 0
                                /\ \/ Released(r)[s] = NoRow
                                   \/ Released(r)[s].id = row[s].id /\ Exists(s)
         /\ \A c \in Changes(r) : c.slot = s /\ c.kind = "create" => Released(r)[s] = NoRow
<1>0. \A c \in Changes(r) : c.slot = s => row[s].claim = r
  BY DEF BatchOK
<1>1. CASE row[s].claim # r
  BY <1>0, <1>1 DEF Released
<1>2. CASE row[s].claim = r
  <2>1. row[s] \in RowRecords /\ Exists(s)
    BY <1>2, ClaimedRows DEF RowRecords, Exists, None
  <2>2. \E c \in Changes(r) : c.slot = s /\ c.id = row[s].id
    BY <1>2, ClaimedRows
  <2>3. CASE \E c \in Changes(r) : c.slot = s /\ c.kind = "create"
    <3>1. Released(r)[s] = NoRow
      BY <1>2, <2>2, <2>3 DEF Released
    <3> QED BY <1>2, <3>1 DEF NoRow
  <2>4. CASE ~\E c \in Changes(r) : c.slot = s /\ c.kind = "create"
    <3>1. Released(r)[s] = [row[s] EXCEPT !.claim = 0]
      BY <1>2, <2>2, <2>4 DEF Released
    <3>2. PICK n : n = [row[s] EXCEPT !.claim = 0]
      OBVIOUS
    <3>3. n \in RowRecords /\ n.claim = 0 /\ n.id = row[s].id
      BY <2>1, <3>2 DEF RowRecords
    <3> QED BY <1>2, <2>1, <2>4, <3>1, <3>2, <3>3
  <2> QED BY <2>3, <2>4
<1> QED BY <1>1, <1>2

\* The transaction that ends a batch: its rows are free from then on.
LEMMA BatchGone ==
  ASSUME BatchInv, NEW r \in Runs, BatchOK(r), row' \in {Finalized(r), Released(r)},
         UNCHANGED unit, batch' = [batch EXCEPT ![r] = NoBatch],
         NEW t \in TaskRecords, task' = [task EXCEPT ![r] = t],
         NEW u \in {"running", "failed"}, run' = [run EXCEPT ![r] = u],
         t = NoTask \/ EndOK(r)'
  PROVE  BatchInv'
<1>0. Shape /\ UniqueIds /\ r # 0
  BY SlotAssumption DEF BatchInv, Runs
<1>1. \A s \in Slots :
        /\ row[s].claim # r => row'[s] = row[s]
        /\ row[s].claim = r => /\ row'[s] \in {NoRow} \cup RowRecords /\ row'[s].claim = 0
                               /\ \/ row'[s] = NoRow
                                  \/ row'[s].id = row[s].id /\ Exists(s)
  <2>1. CASE row' = Finalized(r)
    BY <2>1, FinalizedRows
  <2>2. CASE row' = Released(r)
    BY <2>2, ReleasedRows
  <2> QED BY <2>1, <2>2
<1>2. \E f : row' = [s \in Slots |-> f[s]]
  BY DEF Finalized, Released
<1>3. row' \in [Slots -> {NoRow} \cup RowRecords]
  BY <1>0, <1>1, <1>2 DEF Shape
<1>4. Shape'
  BY <1>0, <1>3, NoTaskShape DEF Shape
<1>5. UniqueIds'
  BY <1>0, <1>1, UniqueKept DEF Exists, NoRow
<1>6. RowsKept(r)
  BY <1>1 DEF RowsKept
<1>7. OthersKept(r)
  BY <1>0 DEF OthersKept, Shape
<1>8. RunOK(r)'
  BY <1>0 DEF RunOK, TaskOK, Shape
<1>9. \A s \in Slots : row'[s].claim # r
  BY <1>0, <1>1
<1> QED BY <1>4, <1>5, <1>6, <1>7, <1>8, <1>9, RunStep

\* finalize_batch, and the release of a batch whose rollback is complete
LEMMA BatchEndStep ==
  ASSUME BatchInv, NEW r \in Runs, CommitBatch(r) \/ ReleaseBatch(r) PROVE BatchInv'
<1>0. Shape /\ task[r] \in TaskRecords /\ NoTask \in TaskRecords
  BY NoTaskShape DEF BatchInv, Shape
<1>1. BatchOK(r) /\ (ApplyOK(r) \/ UndoOK(r))
  BY TaskCases DEF CommitBatch, ReleaseBatch
<1>2. /\ row' \in {Finalized(r), Released(r)} /\ UNCHANGED unit
      /\ batch' = [batch EXCEPT ![r] = NoBatch]
  BY DEF CommitBatch, ReleaseBatch
<1>3. batch'[r] = NoBatch
  BY <1>0, <1>2 DEF Shape
<1>4. CASE CommitBatch(r)
  <2>1. ApplyOK(r) /\ task[r].pc = "commit"
    BY <1>4, TaskCases DEF CommitBatch
  <2>2. PICK t : t = [task[r] EXCEPT !.pc = "succeed"]
    OBVIOUS
  <2>3. t \in TaskRecords /\ t.mode = task[r].mode /\ t.pc = "succeed" /\ t.todo = task[r].todo
    BY <1>0, <2>2 DEF TaskRecords
  <2>4. task' = [task EXCEPT ![r] = t] /\ task'[r] = t /\ UNCHANGED run
    BY <1>0, <1>4, <2>2 DEF CommitBatch, Shape
  <2>5. EndOK(r)'
    BY <1>3, <2>1, <2>3, <2>4 DEF EndOK, ApplyOK
  <2>6. PICK u \in {"running", "failed"} : u = run[r]
    BY <2>1 DEF ApplyOK
  <2>7. run' = [run EXCEPT ![r] = u]
    BY <1>0, <2>4, <2>6 DEF Shape
  <2> QED BY <1>1, <1>2, <2>3, <2>4, <2>5, <2>7, BatchGone
<1>5. CASE ReleaseBatch(r) /\ task[r].mode = "undo"
  <2>1. UndoOK(r) /\ task[r].todo = {} /\ run[r] = "running"
    BY <1>5, TaskCases DEF ReleaseBatch, UndoOK
  <2>2. PICK t : t = [task[r] EXCEPT !.pc = "fail"]
    OBVIOUS
  <2>3. t \in TaskRecords /\ t.mode = task[r].mode /\ t.pc = "fail" /\ t.todo = task[r].todo
    BY <1>0, <2>2 DEF TaskRecords
  <2>4. task' = [task EXCEPT ![r] = t] /\ task'[r] = t /\ UNCHANGED run
    BY <1>0, <1>5, <2>2 DEF ReleaseBatch, Shape
  <2>5. EndOK(r)'
    BY <1>3, <1>5, <2>1, <2>3, <2>4 DEF EndOK
  <2>6. PICK u \in {"running", "failed"} : u = run[r]
    BY <2>1
  <2>7. run' = [run EXCEPT ![r] = u]
    BY <1>0, <2>4, <2>6 DEF Shape
  <2> QED BY <1>1, <1>2, <2>3, <2>4, <2>5, <2>7, BatchGone
<1>6. CASE ReleaseBatch(r) /\ task[r].mode # "undo"
  <2>1. task' = [task EXCEPT ![r] = NoTask] /\ run' = [run EXCEPT ![r] = "failed"]
    BY <1>6 DEF ReleaseBatch
  <2>2. PICK t \in TaskRecords : t = NoTask
    BY <1>0
  <2>3. PICK u \in {"running", "failed"} : u = "failed"
    OBVIOUS
  <2> QED BY <1>1, <1>2, <2>1, <2>2, <2>3, BatchGone
<1> QED BY <1>4, <1>5, <1>6

\* The run is closed after its batch, kept for the next start, or a recovery
\* ends before it has begun.
LEMMA RunEndStep ==
  ASSUME BatchInv, NEW r \in Runs,
         SucceedBatch(r) \/ FailBatch(r) \/ KeepBatch(r) \/ RecoverRaises(r)
  PROVE  BatchInv'
<1>0. Shape /\ batch[r] \in BatchRecords
  BY DEF BatchInv, Shape
<1>1. UNCHANGED <<row, unit, batch>> /\ task' = [task EXCEPT ![r] = NoTask]
  BY DEF SucceedBatch, FailBatch, KeepBatch, RecoverRaises
<1>2. batch' = [batch EXCEPT ![r] = batch[r]]
  BY <1>0, <1>1 DEF Shape
<1>3. PICK b \in BatchRecords : b = batch[r]
  BY <1>0
<1>4. PICK u \in {"running", "recovery_required", "succeeded", "failed"} :
        /\ run' = [run EXCEPT ![r] = u]
        /\ batch[r] # NoBatch => u \in {"running", "recovery_required"}
  <2>1. CASE SucceedBatch(r)
    BY <2>1, TaskCases DEF SucceedBatch, EndOK
  <2>2. CASE FailBatch(r)
    BY <2>2, TaskCases DEF FailBatch, EndOK
  <2>3. CASE KeepBatch(r)
    BY <2>3 DEF KeepBatch
  <2>4. CASE RecoverRaises(r)
    <3>1. BatchOK(r)
      BY <2>4, TaskCases DEF RecoverRaises
    <3>2. run[r] \in {"running", "recovery_required"}
      BY <3>1 DEF BatchOK, Open
    <3>3. run' = [run EXCEPT ![r] = run[r]]
      BY <1>0, <2>4 DEF RecoverRaises, Shape
    <3> QED BY <3>2, <3>3
  <2> QED BY <2>1, <2>2, <2>3, <2>4
<1>5. b # NoBatch => BatchOK(r)'
  <2> SUFFICES ASSUME b # NoBatch PROVE BatchOK(r)'
    OBVIOUS
  <2>1. BatchOK(r)
    BY <1>3 DEF BatchInv, RunOK
  <2>2. Open(r)'
    BY <1>0, <1>3, <1>4 DEF Open, Shape
  <2>3. Changes(r)' = Changes(r) /\ Executable(r)' = Executable(r)
    BY <1>1 DEF Changes, Executable
  <2> QED BY <1>1, <2>1, <2>2, <2>3 DEF BatchOK
<1> QED BY <1>1, <1>2, <1>3, <1>4, <1>5, GivenUp

\* The steps of the rollback
LEMMA UndoStep ==
  ASSUME BatchInv, NEW r \in Runs,
         \/ Undone(r) \/ UndoFailed(r)
         \/ \E c \in task[r].todo : UndoNext(r, c) \/ UndoRaises(r, c)
  PROVE  BatchInv'
<1>0. Shape /\ task[r] \in TaskRecords
  BY DEF BatchInv, Shape
<1>1. UndoOK(r) /\ BatchOK(r) /\ UNCHANGED <<row, unit, run, batch>>
  BY TaskCases DEF Undone, UndoFailed, UndoNext, UndoRaises
<1>2. Open(r)' = Open(r) /\ Changes(r)' = Changes(r) /\ Executable(r)' = Executable(r)
  BY <1>1 DEF Open, Changes, Executable
<1>3. BatchOK(r)'
  BY <1>1, <1>2 DEF BatchOK
<1>4. task[r].todo \subseteq Changes(r)
  BY <1>1 DEF UndoOK
<1>5. ASSUME NEW t \in TaskRecords, task' = [task EXCEPT ![r] = t], UndoOK(r)' PROVE BatchInv'
  <2>1. RunOK(r)'
    BY <1>3, <1>5 DEF RunOK, TaskOK
  <2> QED BY <1>1, <1>5, <2>1, TaskStep
<1>6. PICK R : R = Rest(r) /\ R \subseteq task[r].todo /\ \A c \in task[r].todo \ R : c.slot = task[r].slot
  BY DEF Rest
<1>7. CASE Undone(r)
  <2>1. PICK t : t = [task[r] EXCEPT !.pc = "next", !.todo = R]
    OBVIOUS
  <2>2. /\ t \in TaskRecords /\ t.pc = "next" /\ t.todo = R /\ t.mode = task[r].mode
        /\ t.ok = task[r].ok
    BY <1>0, <1>6, <2>1 DEF TaskRecords
  <2>3. task' = [task EXCEPT ![r] = t] /\ task'[r] = t
    BY <1>0, <1>6, <1>7, <2>1 DEF Undone, Shape
  <2>4. PICK c \in task[r].todo : c.slot = task[r].slot /\ task[r].config = Target(c)
    BY <1>1, <1>7 DEF Undone, UndoOK
  <2>5. \A d \in task[r].todo \ R : d = c
    BY <1>1, <1>4, <1>6, <2>4 DEF BatchOK
  <2>6. unit[c.slot] = Target(c)
    BY <1>1, <1>7, <2>4 DEF Undone, UndoOK
  <2>7. task[r].ok => \A d \in Changes(r) \ R : d.slot \in batch[r].done => unit[d.slot] = Target(d)
    BY <1>1, <2>5, <2>6 DEF UndoOK
  <2>8. UndoOK(r)'
    BY <1>1, <1>2, <1>6, <2>2, <2>3, <2>7 DEF UndoOK, Target
  <2> QED BY <1>5, <2>2, <2>3, <2>8
<1>8. CASE UndoFailed(r)
  <2>1. PICK t : t = [task[r] EXCEPT !.pc = "next", !.todo = R, !.ok = FALSE]
    OBVIOUS
  <2>2. t \in TaskRecords /\ t.pc = "next" /\ t.todo = R /\ t.mode = task[r].mode /\ ~t.ok
    BY <1>0, <1>6, <2>1 DEF TaskRecords
  <2>3. task' = [task EXCEPT ![r] = t] /\ task'[r] = t
    BY <1>0, <1>6, <1>8, <2>1 DEF UndoFailed, Shape
  <2>4. UndoOK(r)'
    BY <1>1, <1>2, <1>6, <2>2, <2>3 DEF UndoOK
  <2> QED BY <1>5, <2>2, <2>3, <2>4
<1>9. ASSUME NEW c \in task[r].todo, UndoNext(r, c) PROVE BatchInv'
  <2>1. c \in Changes(r) /\ c.slot \in batch[r].done
    BY <1>1 DEF UndoOK
  <2>2. c \in Executable(r)
    <3>1. PICK d \in Executable(r) : d.slot = c.slot
      BY <1>1, <2>1 DEF BatchOK
    <3> QED BY <1>1, <2>1, <3>1 DEF BatchOK, Executable
  <2>3. c.kind \in {"create", "resources"}
    BY <1>0, <2>1, <2>2, PlanSlots DEF Executable, Kinds
  <2>4. PICK g \in Configs \cup {None} : g = Target(c)
    BY <1>1, <2>1 DEF BatchOK, Target
  <2>5. task' = [task EXCEPT ![r] = Send(task[r], c, g)]
    BY <1>9, <2>3, <2>4 DEF UndoNext, PayloadConfig, Target
  <2>6. PICK t : t = Send(task[r], c, g)
    OBVIOUS
  <2>7. /\ t \in TaskRecords /\ t.pc = "sent" /\ t.slot = c.slot /\ t.config = g
        /\ t.mode = task[r].mode /\ t.todo = task[r].todo /\ t.ok = task[r].ok
    BY <1>0, <2>1, <2>6, SentTask
  <2>8. task' = [task EXCEPT ![r] = t] /\ task'[r] = t
    BY <1>0, <2>5, <2>6 DEF Shape
  <2>9. UndoOK(r)'
    BY <1>1, <1>2, <2>4, <2>7, <2>8 DEF UndoOK, Target
  <2> QED BY <1>5, <2>7, <2>8, <2>9
<1>10. ASSUME NEW c \in task[r].todo, UndoRaises(r, c) PROVE BatchInv'
  <2>0. PICK Q : Q = task[r].todo \ {c} /\ Q \subseteq task[r].todo
    OBVIOUS
  <2>1. PICK t : t = [task[r] EXCEPT !.todo = Q, !.ok = FALSE]
    OBVIOUS
  <2>2. /\ t \in TaskRecords /\ t.pc = task[r].pc /\ t.todo = Q /\ t.mode = task[r].mode /\ ~t.ok
    BY <1>0, <2>0, <2>1 DEF TaskRecords
  <2>3. task' = [task EXCEPT ![r] = t] /\ task'[r] = t /\ task[r].pc = "next"
    BY <1>0, <1>10, <2>0, <2>1 DEF UndoRaises, Shape, TaskRecords
  <2>4. UndoOK(r)'
    BY <1>1, <1>2, <2>0, <2>2, <2>3 DEF UndoOK
  <2> QED BY <1>5, <2>2, <2>3, <2>4
<1> QED BY <1>7, <1>8, <1>9, <1>10

-----------------------------------------------------------------------------
\* A restart

\* The startup pass gives every batch to a recovery.
LEMMA RestartStep == ASSUME BatchInv, Restart PROVE BatchInv'
<1>0. Shape
  BY DEF BatchInv
<1>1. /\ DOMAIN run' = Runs /\ DOMAIN batch' = Runs /\ DOMAIN task' = Runs
      /\ run' = [r \in Runs |-> run'[r]] /\ batch' = [r \in Runs |-> batch'[r]]
      /\ task' = [r \in Runs |-> task'[r]] /\ UNCHANGED <<row, unit>>
  BY DEF Restart
<1>2. ASSUME NEW r \in Runs, batch[r] = NoBatch
      PROVE  /\ run'[r] \in {None, "running", "recovery_required", "succeeded", "failed"}
             /\ batch'[r] = NoBatch /\ task'[r] = NoTask
  BY <1>0, <1>2 DEF Restart, Shape
<1>3. ASSUME NEW r \in Runs, batch[r] # NoBatch
      PROVE  /\ run'[r] = "recovery_required" /\ batch'[r] \in BatchRecords
             /\ batch'[r].plan = batch[r].plan /\ batch'[r].done = batch[r].done
             /\ batch'[r].phase # None
             /\ task'[r] \in TaskRecords /\ task'[r].mode = "recover" /\ task'[r].pc = "next"
             /\ task'[r].todo = Begun(r)
  <2>1. BatchOK(r) /\ Open(r) /\ batch[r] \in BatchRecords
    BY <1>0, <1>3 DEF BatchInv, RunOK, BatchOK, Shape
  <2>2. run'[r] = "recovery_required"
    BY <1>3, <2>1 DEF Restart, Open
  <2>3. PICK b : b = [batch[r] EXCEPT !.phase = "rolling_back"]
    OBVIOUS
  <2>4. b \in BatchRecords /\ b.plan = batch[r].plan /\ b.done = batch[r].done /\ b.phase # None
    BY <2>1, <2>3 DEF BatchRecords, None
  <2>5. batch'[r] = b \/ batch'[r] = batch[r]
    BY <2>3 DEF Restart
  <2>6. PICK z \in TaskRecords : z = NoTask
    BY NoTaskShape
  <2>7. PICK B : B = Begun(r) /\ B \subseteq PlanItems
    BY <1>0, PlanSlots DEF Begun
  <2>8. PICK t : t = [z EXCEPT !.mode = "recover", !.pc = "next", !.todo = B]
    OBVIOUS
  <2>9. t \in TaskRecords /\ t.mode = "recover" /\ t.pc = "next" /\ t.todo = B
    BY <2>6, <2>7, <2>8 DEF TaskRecords
  <2>10. task'[r] = t
    BY <1>3, <2>1, <2>6, <2>7, <2>8 DEF Restart, Begun
  <2> QED BY <2>1, <2>2, <2>4, <2>5, <2>7, <2>9, <2>10 DEF BatchOK
<1>4. Shape'
  <2>1. \A r \in Runs : /\ run'[r] \in {None, "running", "recovery_required", "succeeded", "failed"}
                        /\ batch'[r] \in BatchRecords /\ task'[r] \in TaskRecords
    BY <1>2, <1>3, NoTaskShape
  <2> QED BY <1>0, <1>1, <2>1 DEF Shape
<1>5. \A r \in Runs : batch'[r].plan = batch[r].plan
  BY <1>2, <1>3
<1>6. UniqueIds'
  BY <1>1 DEF BatchInv, UniqueIds, Exists
<1>7. ClaimsBacked'
  <2> SUFFICES ASSUME NEW s \in Slots, row'[s].claim # 0
               PROVE  (\E c \in Changes(row[s].claim) : c.slot = s)'
    BY DEF ClaimsBacked
  <2>1. PICK k \in Runs : k = row[s].claim
    BY <1>0, <1>1 DEF Shape, RowRecords, NoRow
  <2>2. \E c \in Changes(k) : c.slot = s
    BY <1>1, <2>1 DEF BatchInv, ClaimsBacked
  <2>3. row'[s].claim = k /\ batch'[k].plan = batch[k].plan
    BY <1>1, <1>5, <2>1
  <2> QED BY <2>2, <2>3 DEF Changes
<1>8. ASSUME NEW r \in Runs PROVE RunOK(r)'
  <2>1. CASE batch[r] = NoBatch
    BY <1>2, <2>1 DEF RunOK, TaskOK
  <2>2. CASE batch[r] # NoBatch
    <3>1. BatchOK(r)
      BY <2>2 DEF BatchInv, RunOK
    <3>2. Open(r)' /\ Changes(r)' = Changes(r) /\ Executable(r)' = Executable(r)
      BY <1>3, <2>2 DEF Open, Changes, Executable
    <3>3. BatchOK(r)'
      BY <1>1, <1>3, <2>2, <3>1, <3>2 DEF BatchOK
    <3>4. batch'[r] # NoBatch
      <4>1. batch'[r].phase # None
        BY <1>3, <2>2
      <4> QED BY <4>1 DEF NoBatch
    <3>5. UndoOK(r)'
      BY <1>3, <2>2, <3>2, <3>4 DEF UndoOK, Begun
    <3> QED BY <3>3, <3>5 DEF RunOK, TaskOK
  <2> QED BY <2>1, <2>2
<1> QED BY <1>4, <1>6, <1>7, <1>8 DEF BatchInv

-----------------------------------------------------------------------------
\* The launch of a batch

\* A validated change set: nothing is claimed, created rows are not there and
\* the others are.
LEMMA ValidFacts ==
  ASSUME BatchInv, NEW cs \in ChangeSets, Valid(cs)
  PROVE  /\ \A r \in Runs : batch[r] = NoBatch /\ task[r] = NoTask
         /\ \A s \in Slots : row[s].claim = 0
         /\ \A i \in DOMAIN cs : cs[i].kind # "create" =>
              Exists(cs[i].slot) /\ row[cs[i].slot] \in RowRecords
         /\ \A i \in DOMAIN cs : cs[i] \in [kind : Kinds, slot : Slots, config : Configs]
         /\ \A i, j \in DOMAIN cs : cs[i].slot = cs[j].slot => i = j
<1>0. Shape
  BY DEF BatchInv
<1>1. \A r \in Runs : batch[r] = NoBatch /\ task[r] = NoTask
  BY ClosedRun DEF Valid
<1>2. ASSUME NEW s \in Slots, row[s].claim # 0 PROVE FALSE
  <2>1. PICK k \in Runs : k = row[s].claim
    BY <1>0, <1>2 DEF Shape, RowRecords, NoRow
  <2>2. \E c \in Changes(k) : c.slot = s
    BY <1>2, <2>1 DEF BatchInv, ClaimsBacked
  <2> QED BY <1>1, <2>2, NoChanges
<1>3. /\ \A i \in DOMAIN cs : cs[i] \in [kind : Kinds, slot : Slots, config : Configs]
      /\ \A i, j \in DOMAIN cs : cs[i].slot = cs[j].slot => i = j
  <2> DEFINE T == [kind : Kinds, slot : Slots, config : Configs]
  <2>1. cs \in Seq(T) /\ \A i, j \in DOMAIN cs : cs[i].slot = cs[j].slot => i = j
    BY ChangeAssumption
  <2> HIDE DEF T
  <2>2. \A i \in DOMAIN cs : cs[i] \in T
    BY <2>1
  <2> QED BY <2>1, <2>2 DEF T
<1>4. ASSUME NEW i \in DOMAIN cs, cs[i].kind # "create"
      PROVE  Exists(cs[i].slot) /\ row[cs[i].slot] \in RowRecords
  <2>1. cs[i].kind \in {"resources", "detach"} /\ cs[i].slot \in Slots
    BY <1>3, <1>4 DEF Kinds
  <2>2. cs[i].slot \in SlotsOf(cs, "resources") \cup SlotsOf(cs, "detach")
    BY <2>1 DEF SlotsOf
  <2>3. row[cs[i].slot].state = "active"
    BY <2>2 DEF Valid
  <2> QED BY <1>0, <2>1, <2>3, RowThere DEF Exists, None
<1> QED BY <1>1, <1>2, <1>3, <1>4

\* The plan and the rows of a launched batch correspond.
LEMMA StagedRows ==
  ASSUME BatchInv, NEW cs \in ChangeSets, Valid(cs), NEW r \in Runs,
         TopId + Cardinality(SlotsOf(cs, "create")) <= MaxId
  PROVE  /\ \A i \in DOMAIN cs :
              /\ Staged(cs, r)[cs[i].slot] \in RowRecords
              /\ Staged(cs, r)[cs[i].slot].claim = r
              /\ Staged(cs, r)[cs[i].slot].id = StagedId(cs, i)
              /\ StagedId(cs, i) \in Ids
         /\ \A s \in Slots : (\A i \in DOMAIN cs : cs[i].slot # s) => Staged(cs, r)[s] = row[s]
         /\ \A i \in DOMAIN cs : cs[i].kind # "create" => StagedId(cs, i) = row[cs[i].slot].id
<1>0. Shape
  BY DEF BatchInv
<1>1. \A i \in DOMAIN cs : cs[i].kind # "create" => StagedId(cs, i) = row[cs[i].slot].id
  BY DEF StagedId
<1>2. ASSUME NEW s \in Slots, \A i \in DOMAIN cs : cs[i].slot # s PROVE Staged(cs, r)[s] = row[s]
  BY <1>2 DEF Staged
<1>3. ASSUME NEW i \in DOMAIN cs
      PROVE  /\ Staged(cs, r)[cs[i].slot] \in RowRecords
             /\ Staged(cs, r)[cs[i].slot].claim = r
             /\ Staged(cs, r)[cs[i].slot].id = StagedId(cs, i)
             /\ StagedId(cs, i) \in Ids
  <2>1. /\ cs[i].slot \in Slots /\ cs[i].config \in Configs
        /\ \A j \in DOMAIN cs : cs[i].slot = cs[j].slot => i = j
    BY ValidFacts
  <2>2. PICK s \in Slots : s = cs[i].slot
    BY <2>1
  <2>3. PICK g \in Configs : g = cs[i].config
    BY <2>1
  <2>4. (CHOOSE j \in DOMAIN cs : cs[j].slot = s) = i
    BY <2>1, <2>2
  <2>5. PICK n : n = StagedId(cs, i)
    OBVIOUS
  <2>6. CASE cs[i].kind = "create"
    <3>1. n \in Ids
      BY <1>0, <2>5, <2>6, StagedIds
    <3>2. Staged(cs, r)[s] = [state |-> "applying", id |-> n, config |-> g, claim |-> r]
      BY <2>2, <2>3, <2>4, <2>5, <2>6 DEF Staged
    <3>3. PICK x : x = [state |-> "applying", id |-> n, config |-> g, claim |-> r]
      OBVIOUS
    <3>4. x \in RowRecords /\ x.claim = r /\ x.id = n
      BY <3>1, <3>3 DEF RowRecords
    <3> QED BY <2>2, <2>5, <3>1, <3>2, <3>3, <3>4
  <2>7. CASE cs[i].kind # "create"
    <3>1. row[s] \in RowRecords /\ n = row[s].id
      BY <2>2, <2>5, <2>7, ValidFacts DEF StagedId
    <3>2. Staged(cs, r)[s] = [row[s] EXCEPT !.claim = r]
      BY <2>2, <2>4, <2>7 DEF Staged
    <3>3. PICK x : x = [row[s] EXCEPT !.claim = r]
      OBVIOUS
    <3>4. x \in RowRecords /\ x.claim = r /\ x.id = n /\ n \in Ids
      BY <3>1, <3>3 DEF RowRecords
    <3> QED BY <2>2, <2>5, <3>2, <3>3, <3>4
  <2> QED BY <2>6, <2>7
<1> QED BY <1>1, <1>2, <1>3

\* An item of the plan
LEMMA PlannedItems ==
  ASSUME BatchInv, NEW cs \in ChangeSets, Valid(cs), NEW r \in Runs,
         TopId + Cardinality(SlotsOf(cs, "create")) <= MaxId
  PROVE  /\ Planned(cs) \in Seq(PlanItems) /\ DOMAIN Planned(cs) = DOMAIN cs
         /\ \A i \in DOMAIN cs :
              /\ Planned(cs)[i].slot = cs[i].slot /\ Planned(cs)[i].kind = cs[i].kind
              /\ Planned(cs)[i].id = StagedId(cs, i)
              /\ Planned(cs)[i].before = unit[cs[i].slot]
              /\ cs[i].kind # "create" => Planned(cs)[i].prev \in Configs
<1>0. Shape
  BY DEF BatchInv
<1>1. DOMAIN cs = 1..Len(cs) /\ Len(cs) \in Nat
  BY ChangeAssumption
<1>2. ASSUME NEW i \in DOMAIN cs
      PROVE  /\ Planned(cs)[i] \in PlanItems
             /\ Planned(cs)[i].slot = cs[i].slot /\ Planned(cs)[i].kind = cs[i].kind
             /\ Planned(cs)[i].id = StagedId(cs, i)
             /\ Planned(cs)[i].before = unit[cs[i].slot]
             /\ cs[i].kind # "create" => Planned(cs)[i].prev \in Configs
  <2>1. cs[i].slot \in Slots /\ cs[i].config \in Configs /\ cs[i].kind \in Kinds
    BY ValidFacts
  <2>2. StagedId(cs, i) \in Ids
    BY StagedRows
  <2>3. row[cs[i].slot].config \in Configs \cup {None} /\ unit[cs[i].slot] \in Configs \cup {None}
    BY <1>0, <2>1 DEF Shape, RowRecords, NoRow
  <2>4. cs[i].kind # "create" => row[cs[i].slot].config \in Configs
    BY ValidFacts DEF RowRecords
  <2>5. Planned(cs)[i] = [kind |-> cs[i].kind, slot |-> cs[i].slot, config |-> cs[i].config,
                          id |-> StagedId(cs, i), prev |-> row[cs[i].slot].config,
                          before |-> unit[cs[i].slot]]
    BY DEF Planned
  <2>6. PICK x : x = Planned(cs)[i]
    OBVIOUS
  <2>7. /\ x \in PlanItems /\ x.slot = cs[i].slot /\ x.kind = cs[i].kind /\ x.id = StagedId(cs, i)
        /\ x.prev = row[cs[i].slot].config /\ x.before = unit[cs[i].slot]
    BY <2>1, <2>2, <2>3, <2>5, <2>6 DEF PlanItems
  <2> QED BY <2>4, <2>6, <2>7
<1>3. DOMAIN Planned(cs) = DOMAIN cs /\ Planned(cs) = [i \in 1..Len(cs) |-> Planned(cs)[i]]
  BY <1>1 DEF Planned
<1>4. Planned(cs) \in [1..Len(cs) -> PlanItems]
  BY <1>1, <1>2, <1>3
<1> QED BY <1>1, <1>2, <1>3, <1>4

\* launch_batch
LEMMA LaunchStep ==
  ASSUME BatchInv, NEW r \in Runs, NEW cs \in ChangeSets, LaunchBatch(r, cs) PROVE BatchInv'
<1>0. Shape /\ UniqueIds /\ NoTask \in TaskRecords /\ r # 0
  BY NoTaskShape, SlotAssumption DEF BatchInv, Runs
<1>1. /\ Valid(cs) /\ TopId + Cardinality(SlotsOf(cs, "create")) <= MaxId
      /\ row' = Staged(cs, r) /\ UNCHANGED unit
      /\ batch' = [batch EXCEPT ![r] = [plan |-> Planned(cs), done |-> {}, phase |-> "applying"]]
      /\ Launch(r, [NoTask EXCEPT !.mode = "apply", !.pc = "start"])
  BY DEF LaunchBatch
<1>2. PICK z \in TaskRecords : z = NoTask /\ z.todo = {} /\ z.boot = None
  BY <1>0 DEF NoTask
<1>3. PICK t : t = [z EXCEPT !.mode = "apply", !.pc = "start"]
  OBVIOUS
<1>4. t \in TaskRecords /\ t.mode = "apply" /\ t.pc = "start" /\ t.todo = {} /\ t.boot = None
  BY <1>2, <1>3, ZenonT(60) DEF TaskRecords
<1>5. task' \in {[task EXCEPT ![r] = t], task} /\ run' = [run EXCEPT ![r] = "running"]
  BY <1>1, <1>2, <1>3 DEF Launch
<1>6. PICK P : /\ P = Planned(cs) /\ P \in Seq(PlanItems) /\ DOMAIN P = DOMAIN cs
               /\ \A i \in DOMAIN cs :
                    /\ P[i].slot = cs[i].slot /\ P[i].kind = cs[i].kind
                    /\ P[i].id = StagedId(cs, i) /\ P[i].before = unit[cs[i].slot]
                    /\ cs[i].kind # "create" => P[i].prev \in Configs
  BY <1>1, PlannedItems
<1>7. PICK b : b = [plan |-> P, done |-> {}, phase |-> "applying"]
  OBVIOUS
<1>8. b \in BatchRecords /\ b.plan = P /\ b.done = {} /\ b.phase = "applying" /\ b # NoBatch
  BY <1>6, <1>7 DEF BatchRecords, NoBatch, None
<1>9. batch' = [batch EXCEPT ![r] = b] /\ batch'[r] = b
  BY <1>0, <1>1, <1>6, <1>7 DEF Shape
<1>10. /\ \A i \in DOMAIN cs : /\ row'[cs[i].slot] \in RowRecords /\ row'[cs[i].slot].claim = r
                               /\ row'[cs[i].slot].id = StagedId(cs, i)
       /\ \A s \in Slots : (\A i \in DOMAIN cs : cs[i].slot # s) => row'[s] = row[s]
       /\ \A i \in DOMAIN cs : cs[i].kind # "create" => StagedId(cs, i) = row[cs[i].slot].id
  BY <1>1, StagedRows
<1>11. /\ \A q \in Runs : batch[q] = NoBatch /\ task[q] = NoTask
       /\ \A s \in Slots : row[s].claim = 0
       /\ \A i \in DOMAIN cs : cs[i].kind # "create" => Exists(cs[i].slot)
       /\ \A i, j \in DOMAIN cs : cs[i].slot = cs[j].slot => i = j
  BY <1>1, ValidFacts
<1>12. Shape'
  <2>1. row' = [s \in Slots |-> row'[s]]
    BY <1>1 DEF Staged
  <2>2. \A s \in Slots : row'[s] \in {NoRow} \cup RowRecords
    BY <1>0, <1>10 DEF Shape
  <2> QED BY <1>0, <1>1, <1>4, <1>5, <1>8, <1>9, <2>1, <2>2, ZenonT(60) DEF Shape
<1>13. UniqueIds'
  <2>1. /\ \A i \in DOMAIN cs : cs[i].kind = "create" => StagedId(cs, i) \in Nat /\ TopId < StagedId(cs, i)
        /\ \A i, j \in DOMAIN cs :
             cs[i].kind = "create" /\ cs[j].kind = "create" /\ StagedId(cs, i) = StagedId(cs, j)
               => i = j
    BY <1>0, <1>1, StagedIds, SlotAssumption DEF Ids
  <2>2. TopId \in Nat /\ \A s \in Slots : Exists(s) => row[s].id \in Nat /\ row[s].id <= TopId
    BY <1>0, TopIdBounds, SlotAssumption
  <2>3. ASSUME NEW s \in Slots, row'[s].state # None
        PROVE  \/ Exists(s) /\ row'[s].id = row[s].id
               \/ \E i \in DOMAIN cs : cs[i].slot = s /\ cs[i].kind = "create" /\ row'[s].id = StagedId(cs, i)
    <3>1. CASE \A i \in DOMAIN cs : cs[i].slot # s
      BY <1>10, <2>3, <3>1 DEF Exists
    <3>2. CASE \E i \in DOMAIN cs : cs[i].slot = s
      BY <1>10, <1>11, <3>2
    <3> QED BY <3>1, <3>2
  <2> SUFFICES ASSUME NEW s \in Slots, NEW q \in Slots, row'[s].state # None, row'[q].state # None,
                      row'[s].id = row'[q].id
               PROVE  s = q
    BY DEF UniqueIds, Exists
  <2>4. CASE Exists(s) /\ row'[s].id = row[s].id /\ Exists(q) /\ row'[q].id = row[q].id
    BY <1>0, <2>4 DEF UniqueIds
  <2>5. ASSUME NEW x \in Slots, NEW y \in Slots, row'[x].id = row'[y].id,
               Exists(x), row'[x].id = row[x].id, NEW i \in DOMAIN cs,
               cs[i].kind = "create", row'[y].id = StagedId(cs, i)
        PROVE  FALSE
    <3>1. row[x].id = StagedId(cs, i)
      BY <2>5
    <3>2. row[x].id \in Nat /\ row[x].id <= TopId /\ TopId < StagedId(cs, i) /\ TopId \in Nat
      BY <2>1, <2>2, <2>5
    <3> QED BY <3>1, <3>2
  <2>6. CASE \E i, j \in DOMAIN cs : /\ cs[i].slot = s /\ cs[i].kind = "create" /\ row'[s].id = StagedId(cs, i)
                                     /\ cs[j].slot = q /\ cs[j].kind = "create" /\ row'[q].id = StagedId(cs, j)
    BY <2>1, <2>6
  <2> QED BY <2>3, <2>4, <2>5, <2>6
<1>14. \A c \in Changes(r)' : \E i \in DOMAIN cs : c = P[i]
  BY <1>6, <1>8, <1>9 DEF Changes
<1>15. \A i \in DOMAIN cs : P[i] \in Changes(r)'
  BY <1>6, <1>8, <1>9 DEF Changes
<1>16. ClaimsBacked'
  <2> SUFFICES ASSUME NEW s \in Slots, row'[s].claim # 0
               PROVE  (\E c \in Changes(row[s].claim) : c.slot = s)'
    BY DEF ClaimsBacked
  <2>1. PICK i \in DOMAIN cs : cs[i].slot = s
    BY <1>10, <1>11
  <2>2. row'[s].claim = r /\ P[i].slot = s
    BY <1>6, <1>10, <2>1
  <2> QED BY <1>15, <2>2 DEF Changes
<1>17. BatchOK(r)'
  <2>1. Open(r)'
    BY <1>0, <1>5 DEF Open, Shape
  <2>2. batch'[r].phase # None /\ batch'[r].done = {}
    BY <1>8, <1>9 DEF None
  <2>3. \A c, d \in Changes(r)' : c.slot = d.slot => c = d
    BY <1>6, <1>11, <1>14
  <2>4. ASSUME NEW c \in Changes(r)'
        PROVE  /\ row'[c.slot].claim = r /\ row'[c.slot].id = c.id
               /\ c.kind # "create" => c.prev \in Configs
               /\ unit'[c.slot] = c.before
    <3>1. PICK i \in DOMAIN cs : c = P[i]
      BY <1>14, <2>4
    <3> QED BY <1>1, <1>6, <1>10, <3>1
  <2> QED BY <2>1, <2>2, <2>3, <2>4 DEF BatchOK
<1>18. TaskOK(r)'
  <2>1. CASE task' = task
    BY <1>11, <2>1 DEF TaskOK
  <2>2. CASE task' = [task EXCEPT ![r] = t]
    <3>1. task'[r] = t /\ run'[r] = "running"
      BY <1>0, <1>5, <2>2 DEF Shape
    <3>2. ApplyOK(r)'
      BY <1>4, <1>8, <1>9, <3>1 DEF ApplyOK, OrderOK
    <3> QED BY <3>2 DEF TaskOK
  <2> QED BY <1>5, <2>1, <2>2
<1>19. ASSUME NEW q \in Runs PROVE RunOK(q)'
  <2>1. CASE q = r
    BY <1>17, <1>18, <2>1 DEF RunOK
  <2>2. CASE q # r
    <3>1. batch'[q] = NoBatch /\ task'[q] = NoTask
      BY <1>0, <1>5, <1>9, <1>11, <2>2 DEF Shape
    <3> QED BY <3>1 DEF RunOK, TaskOK
  <2> QED BY <2>1, <2>2
<1> QED BY <1>12, <1>13, <1>16, <1>19 DEF BatchInv

-----------------------------------------------------------------------------
\* The invariant

\* The initial state
LEMMA InitBatch == Init => BatchInv
<1> SUFFICES ASSUME Init PROVE BatchInv
  OBVIOUS
<1>1. Shape
  BY NoTaskShape DEF Init, Shape
<1>2. UniqueIds /\ ClaimsBacked
  BY DEF Init, UniqueIds, ClaimsBacked, Exists, NoRow
<1>3. \A r \in Runs : RunOK(r)
  BY DEF Init, RunOK, TaskOK
<1> QED BY <1>1, <1>2, <1>3 DEF BatchInv

\* Every step
LEMMA NextBatch == BatchInv /\ [Next]_vars => BatchInv'
<1> SUFFICES ASSUME BatchInv, [Next]_vars PROVE BatchInv'
  OBVIOUS
<1>1. \A d \in Direct : d[1] \in Slots /\ d[2] \in Configs
  BY SlotAssumption
<1>2. ASSUME NEW d \in Direct, AddAssignment(d[1], d[2]) PROVE BatchInv'
  BY <1>1, <1>2, AddStep
<1>3. ASSUME NEW d \in Direct, DetachAssignment(d[1]) PROVE BatchInv'
  BY <1>1, <1>3, DetachStep
<1>4. ASSUME NEW r \in Runs, NEW d \in Direct,
             UpdateResources(r, d[1], d[2]) \/ ApplyAssignment(r, d[1]) \/ PurgeAssignment(r, d[1])
      PROVE  BatchInv'
  BY <1>1, <1>4, CommandRequests
<1>5. ASSUME NEW r \in Runs, NEW cs \in ChangeSets, LaunchBatch(r, cs) PROVE BatchInv'
  BY <1>5, LaunchStep
<1>6. ASSUME NEW r \in Runs, Remote(r) PROVE BatchInv'
  BY <1>6, RemoteStep
<1>7. ASSUME NEW r \in Runs, CommandEnds(r) PROVE BatchInv'
  BY <1>7, CommandEndStep
<1>8. ASSUME NEW r \in Runs, Work(r) PROVE BatchInv'
  BY <1>8, StartStep, RaiseStep, ApplyNextStep, AppliedStep, ApplyFailedStep, BatchEndStep,
     RunEndStep, UndoStep DEF Work
<1>9. CASE Restart
  BY <1>9, RestartStep
<1>10. CASE UNCHANGED vars
  BY <1>10, SMTT(30) DEF vars, BatchInv, Shape, UniqueIds, ClaimsBacked, Exists, RunOK, TaskOK, BatchOK, CommandOK,
     ApplyOK, OrderOK, UndoOK, EndOK, Open, Changes, Executable, Target
<1> QED BY <1>2, <1>3, <1>4, <1>5, <1>6, <1>7, <1>8, <1>9, <1>10 DEF Next, Request

\* The invariant is stronger than what the run checks.
LEMMA BatchImplies == BatchInv => BatchInvariant
<1> SUFFICES ASSUME BatchInv PROVE BatchInvariant
  OBVIOUS
<1>0. Shape
  BY DEF BatchInv
<1>1. \A r \in Runs : batch[r] = NoBatch => batch[r].done = {} /\ task[r].todo = {}
  BY DEF BatchInv, RunOK, TaskOK, NoTask, NoBatch, CommandOK, ApplyOK, UndoOK, EndOK
<1>2. ASSUME NEW r \in Runs
      PROVE  /\ batch[r].phase \in {None, "applying", "rolling_back"}
             /\ batch[r].done \subseteq {c.slot : c \in Executable(r)}
             /\ task[r].mode \in Commands \cup {None, "apply", "undo", "recover"}
             /\ task[r].todo \subseteq Changes(r)
  <2>1. batch[r] \in BatchRecords /\ task[r] \in TaskRecords
    BY <1>0 DEF Shape
  <2>2. batch[r].done \subseteq {c.slot : c \in Executable(r)}
    BY <1>1 DEF BatchInv, RunOK, BatchOK
  <2>3. task[r].todo \subseteq Changes(r)
    BY DEF BatchInv, RunOK, TaskOK, NoTask, CommandOK, ApplyOK, UndoOK, EndOK, Executable
  <2> QED BY <2>1, <2>2, <2>3 DEF BatchRecords, TaskRecords
<1>3. TypeOK
  BY <1>0, <1>2 DEF TypeOK, Shape, RowRecords
<1>4. ClaimsAccounted
  BY DEF BatchInv, ClaimsBacked, RunOK, BatchOK, ClaimsAccounted
<1>5. BootstrapOrder
  <2> SUFFICES ASSUME NEW r \in Runs, task[r].mode = "apply", task[r].boot # None,
                      NEW s \in batch[r].done \ {task[r].boot}
               PROVE  /\ unit[task[r].boot] # None
                      /\ Role[s] = "master" =>
                           \A c \in Changes(r) : c.kind = "create" /\ Role[c.slot] = "hot" => unit[c.slot] # None
    BY DEF BootstrapOrder
  <2>1. ApplyOK(r) \/ batch[r] = NoBatch
    BY TaskCases DEF EndOK
  <2>2. ApplyOK(r)
    BY <1>1, <2>1
  <2> QED BY <2>2 DEF ApplyOK, OrderOK
<1> QED BY <1>3, <1>4, <1>5 DEF BatchInvariant

\* The inductive invariant of the batches, direct mutations and restarts.
THEOREM BatchHolds == Spec => []BatchInv
BY InitBatch, NextBatch, PTL DEF Spec

\* In every interleaving of the batch worker, the direct mutations and their
\* command runs, playbooks that take effect late or fail, and restarts, claims
\* and batches account for each other and a new cluster is started in order.
THEOREM BatchSafe == Spec => []BatchInvariant
BY BatchHolds, BatchImplies, PTL

-----------------------------------------------------------------------------
\* All or nothing

\* A batch row disappears when the batch is finalized or released.
LEMMA BatchEnds ==
  ASSUME BatchInv, [Next]_vars, NEW r \in Runs, batch[r] # NoBatch, batch'[r] = NoBatch
  PROVE  CommitBatch(r) \/ ReleaseBatch(r)
<1>0. Shape /\ Open(r) /\ batch[r].phase # None /\ batch[r] \in BatchRecords
  BY DEF BatchInv, RunOK, BatchOK, Shape
<1>1. batch'[r].phase = None /\ batch' # batch
  BY DEF NoBatch
<1>2. ASSUME NEW q \in Runs, NEW cs \in ChangeSets, LaunchBatch(q, cs) PROVE FALSE
  BY <1>0, <1>2 DEF LaunchBatch, Valid
<1>3. ASSUME Restart PROVE FALSE
  <2>1. batch'[r] = batch[r] \/ batch'[r] = [batch[r] EXCEPT !.phase = "rolling_back"]
    BY <1>3 DEF Restart
  <2>2. batch'[r].phase \in {batch[r].phase, "rolling_back"}
    BY <1>0, <2>1 DEF BatchRecords
  <2> QED BY <1>0, <1>1, <2>2 DEF None
<1>4. ASSUME NEW q \in Runs,
             \/ StartRaises(q) \/ ApplyFailed(q)
             \/ \E c \in task[q].todo : ApplyNext(q, c) \/ BatchRaises(q, c)
      PROVE  FALSE
  <2>1. CASE q # r
    BY <1>0, <1>1, <1>4, <2>1 DEF Shape, StartRaises, ApplyFailed, ApplyNext, BatchRaises
  <2>2. CASE q = r
    <3>1. CASE StartRaises(r) \/ ApplyFailed(r)
      <4>1. batch'[r].phase = "rolling_back"
        BY <1>0, <3>1 DEF StartRaises, ApplyFailed, Shape, BatchRecords
      <4> QED BY <1>1, <4>1 DEF None
    <3>2. ASSUME NEW c \in task[r].todo, ApplyNext(r, c) PROVE FALSE
      <4>1. batch'[r].phase = batch[r].phase
        BY <1>0, <3>2 DEF ApplyNext, Shape, BatchRecords
      <4> QED BY <1>0, <1>1, <4>1
    <3>3. ASSUME NEW c \in task[r].todo, BatchRaises(r, c) PROVE FALSE
      <4>1. batch'[r].phase = "rolling_back"
        BY <1>0, <3>3 DEF BatchRaises, Shape, BatchRecords
      <4> QED BY <1>1, <4>1 DEF None
    <3> QED BY <1>4, <2>2, <3>1, <3>2, <3>3
  <2> QED BY <2>1, <2>2
<1>5. ASSUME NEW q \in Runs, CommitBatch(q) \/ ReleaseBatch(q) PROVE q = r
  BY <1>0, <1>1, <1>5 DEF Shape, CommitBatch, ReleaseBatch
<1>6. ASSUME Request PROVE FALSE
  BY <1>1, <1>2, <1>6 DEF Request, AddAssignment, UpdateResources, ApplyAssignment, PurgeAssignment,
     DetachAssignment
<1>7. ASSUME NEW q \in Runs, Remote(q) \/ CommandEnds(q) PROVE FALSE
  BY <1>1, <1>7 DEF Remote, CommandEnds, CommandSucceeds, CommandFails
<1>8. ASSUME NEW q \in Runs, Work(q) PROVE CommitBatch(r) \/ ReleaseBatch(r)
  BY <1>1, <1>4, <1>5, <1>8 DEF Work, StartBatch, Applied, SucceedBatch, Undone, UndoFailed, RecoverRaises,
     FailBatch, KeepBatch, UndoNext, UndoRaises
<1> QED BY <1>1, <1>3, <1>6, <1>7, <1>8 DEF Next, vars

\* What a released batch leaves behind
LEMMA ReleasedWhole ==
  ASSUME BatchInv, NEW r \in Runs, ReleaseBatch(r), NEW c \in Changes(r)
  PROVE  /\ c.kind = "create" => row'[c.slot] = NoRow /\ unit'[c.slot] \in {None, c.before}
         /\ c.kind = "resources" => unit'[c.slot] \in {c.prev, c.before}
         /\ c.kind = "detach" => unit'[c.slot] = c.before
<1>0. Shape /\ c.slot \in Slots
  BY PlanSlots DEF BatchInv
<1>1. /\ UndoOK(r) /\ BatchOK(r) /\ task[r].todo = {} /\ task[r].ok
      /\ row' = Released(r) /\ UNCHANGED unit
  BY TaskCases DEF ReleaseBatch
<1>2. c.slot \in batch[r].done => unit[c.slot] = Target(c)
  BY <1>1 DEF UndoOK
<1>3. c.slot \notin batch[r].done => unit[c.slot] = c.before
  BY <1>1 DEF BatchOK
<1>4. c.kind = "detach" => c.slot \notin batch[r].done
  BY <1>1 DEF BatchOK, Executable
<1>5. c.kind = "create" => row'[c.slot] = NoRow
  BY <1>0, <1>1, ReleasedRows
<1> QED BY <1>1, <1>2, <1>3, <1>4, <1>5 DEF Target

\* What a committed batch leaves behind
LEMMA CommittedWhole ==
  ASSUME BatchInv, NEW r \in Runs, CommitBatch(r), NEW c \in Changes(r), c.kind = "create"
  PROVE  unit'[c.slot] # None /\ row'[c.slot].state = "active" /\ row'[c.slot].claim = 0
<1>0. Shape /\ c.slot \in Slots
  BY PlanSlots DEF BatchInv
<1>1. /\ ApplyOK(r) /\ BatchOK(r) /\ task[r].pc = "commit"
      /\ row' = Finalized(r) /\ UNCHANGED unit
  BY TaskCases DEF CommitBatch
<1>2. unit[c.slot] # None
  BY <1>1 DEF ApplyOK, Executable
<1>3. row[c.slot].claim = r
  BY <1>1 DEF BatchOK
<1>4. Finalized(r)[c.slot].state = "active" /\ Finalized(r)[c.slot].claim = 0
  BY <1>0, <1>1, <1>3, FinalizedRows
<1> QED BY <1>1, <1>2, <1>4

\* A batch is all or nothing: when its row disappears, by a commit everything
\* that it created is deployed and active, and by a rollback, of its worker or
\* of the recovery after any number of restarts, its units run what they ran
\* before and nothing that it created is left.
THEOREM BatchesWhole == Spec => BatchOutcome
<1> DEFINE A == \A r \in Runs : RollsBack(r) => \A c \in Changes(r) :
                  /\ c.kind = "create" => ~Exists(c.slot)' /\ unit'[c.slot] \in {None, c.before}
                  /\ c.kind = "resources" => unit'[c.slot] \in {c.prev, c.before}
                  /\ c.kind = "detach" => unit'[c.slot] = c.before
           B == \A r \in Runs : Commits(r) => \A c \in Changes(r) : c.kind = "create" =>
                  unit'[c.slot] # None /\ row'[c.slot].state = "active" /\ row'[c.slot].claim = 0
<1>1. BatchInv /\ [Next]_vars => [A]_vars
  <2> SUFFICES ASSUME BatchInv, [Next]_vars, NEW r \in Runs, RollsBack(r), NEW c \in Changes(r)
               PROVE  /\ c.kind = "create" => ~Exists(c.slot)' /\ unit'[c.slot] \in {None, c.before}
                      /\ c.kind = "resources" => unit'[c.slot] \in {c.prev, c.before}
                      /\ c.kind = "detach" => unit'[c.slot] = c.before
    OBVIOUS
  <2>1. task[r] \in TaskRecords /\ task \in [Runs -> TaskRecords]
    BY DEF BatchInv, Shape
  <2>2. CommitBatch(r) => task'[r].pc = "succeed"
    BY <2>1 DEF CommitBatch, TaskRecords
  <2>3. ReleaseBatch(r)
    BY <2>2, BatchEnds DEF RollsBack
  <2>4. /\ c.kind = "create" => row'[c.slot] = NoRow /\ unit'[c.slot] \in {None, c.before}
        /\ c.kind = "resources" => unit'[c.slot] \in {c.prev, c.before}
        /\ c.kind = "detach" => unit'[c.slot] = c.before
    BY <2>3, ReleasedWhole
  <2> QED BY <2>4 DEF Exists, NoRow
<1>2. BatchInv /\ [Next]_vars => [B]_vars
  <2> SUFFICES ASSUME BatchInv, [Next]_vars, NEW r \in Runs, Commits(r),
                      NEW c \in Changes(r), c.kind = "create"
               PROVE  unit'[c.slot] # None /\ row'[c.slot].state = "active" /\ row'[c.slot].claim = 0
    OBVIOUS
  <2>1. task[r] \in TaskRecords /\ task \in [Runs -> TaskRecords]
    BY DEF BatchInv, Shape
  <2>2. ReleaseBatch(r) => task'[r].pc # "succeed"
    BY <2>1 DEF ReleaseBatch, TaskRecords, NoTask, None
  <2>3. CommitBatch(r)
    BY <2>2, BatchEnds DEF Commits
  <2> QED BY <2>3, CommittedWhole
<1>3. Spec => [][A]_vars
  <2> HIDE DEF A
  <2> QED BY <1>1, BatchHolds, PTL DEF Spec
<1>4. Spec => [][B]_vars
  <2> HIDE DEF B
  <2> QED BY <1>2, BatchHolds, PTL DEF Spec
<1> QED BY <1>3, <1>4 DEF BatchOutcome, RollbackComplete, CommitComplete
=============================================================================
