---------------------- MODULE RebootOrchestratorProofs ----------------------
(***************************************************************************)
(* Under either wiring the reboot is invoked at most once and a verified   *)
(* return is a new boot, and a plan that was not reopened reboots only     *)
(* behind its guards and takes them down when it ends: for any clusters    *)
(* and bounds.                                                             *)
(***************************************************************************)
EXTENDS RebootOrchestrator, TLAPS

-----------------------------------------------------------------------------
\* Type correctness

\* What the lifecycle vocabularies contribute to the type of a plan.
LEMMA PlanStates ==
  /\ {"executing", "paused", "recovery_required", "failed", "cancelled"}
       \subseteq {"ready"} \cup InFlightStates \cup TerminalPlanStates
  /\ "ready" \in {"ready"} \cup InFlightStates \cup TerminalPlanStates
  BY DEF InFlightStates, TerminalPlanStates

\* A journalled row keeps the database well typed.
LEMMA JournalType ==
  ASSUME NEW d \in Database, NEW key \in Keys
  PROVE  Journal(d, key) \in Database
  BY DEF Journal, Database

\* The two marks keep the database well typed.
LEMMA MarkType ==
  ASSUME NEW d \in Database
  PROVE  MarkFailed(d) \in Database /\ MarkRecovery(d) \in Database
  BY PlanStates DEF MarkFailed, MarkRecovery, Database

\* One step writes a well-typed database, and commits it or the old disk.
Writes == db' \in Database /\ disk' \in Database

\* The three ways a step may leave the database keep its type.
LEMMA WritesType ==
  ASSUME TypeOK, NEW d \in Database
  PROVE  /\ \A pc : Goto(d, pc) => Writes
         /\ End(d) => Writes
         /\ \A b : RestoreThen(d, b) => Writes
  BY DEF TypeOK, Goto, End, RestoreThen, Writes

RunType == [pc : PCs, todo : SUBSET Clusters, active : SUBSET Clusters,
            verified : BOOLEAN, blocked : BOOLEAN]

\* The three ways a step may leave the run keep its type.
LEMMA RunsType ==
  ASSUME TypeOK, NEW d
  PROVE  /\ \A pc \in PCs : Goto(d, pc) => run' \in RunType
         /\ End(d) => run' \in RunType
         /\ \A b \in BOOLEAN : RestoreThen(d, b) => run' \in RunType
  <1> USE DEF TypeOK, RunType
  <1>1. ASSUME NEW pc \in PCs, Goto(d, pc) PROVE run' \in RunType
    BY <1>1 DEF Goto
  <1>2. ASSUME End(d) PROVE run' \in RunType
    BY <1>2 DEF End, Idle, PCs
  <1>3. ASSUME NEW b \in BOOLEAN, RestoreThen(d, b) PROVE run' \in RunType
    BY <1>3 DEF RestoreThen, PCs
  <1> QED BY <1>1, <1>2, <1>3

\* Every step of the orchestrator, of the host and of the controller keeps the
\* types.
LEMMA TypeStep == TypeOK /\ [Next]_vars => TypeOK'
<1> SUFFICES ASSUME TypeOK, [Next]_vars PROVE TypeOK'
  OBVIOUS
<1>0. db \in Database /\ disk \in Database /\ run \in RunType
  BY DEF TypeOK, RunType
<1>1. \A key \in Keys : Journal(db, key) \in Database
  BY <1>0, JournalType
<1>2. /\ MarkFailed(db) \in Database
      /\ MarkRecovery(db) \in Database
      /\ MarkRecovery(disk) \in Database
  BY <1>0, MarkType
<1>3. ASSUME Writes, run' \in RunType, UNCHANGED <<alloc, reboots, boot, durable>>,
             manifest' \in Manifests
      PROVE  TypeOK'
  BY <1>3 DEF TypeOK, Writes, RunType
<1>22. manifest \in Manifests
  BY DEF TypeOK
<1>4. CASE Begin
  <2> DEFINE d == [db EXCEPT !.plan = "executing", !.pre = IF @ = NoBoot THEN boot ELSE @]
  <2>1. d \in Database /\ MarkRecovery(d) \in Database
    <3>1. (IF db.pre = NoBoot THEN boot ELSE db.pre) \in Int
      BY <1>0 DEF TypeOK, Database
    <3>2. d \in Database
      BY <1>0, <3>1, PlanStates DEF Database
    <3> QED BY <3>2, MarkType
  <2>2. \/ End(MarkRecovery(d))
        \/ \E pc \in PCs : Goto(d, pc)
    BY <1>4 DEF Begin, Acknowledged, PCs
  <2> HIDE DEF d
  <2>3. Writes /\ run' \in RunType
    BY <2>1, <2>2, WritesType, RunsType
  <2> QED BY <1>3, <1>22, <1>4, <2>3 DEF Begin, Manifests
<1>5. CASE Capture
  <2>1. Writes /\ run' \in RunType
    BY <1>5, <1>1, <1>2, WritesType, RunsType DEF Capture, Keys, PCs
  <2> QED BY <1>3, <1>22, <1>5, <2>1 DEF Capture
<1>6. CASE Control
  <2>1. \A state \in {"paused", "cancelled"} : [db EXCEPT !.plan = state] \in Database
    BY <1>0, PlanStates DEF Database
  <2>2. Writes /\ run' \in RunType
    BY <1>6, <1>0, <2>1, WritesType, RunsType DEF Control, PCs
  <2> QED BY <1>3, <1>22, <1>6, <2>2 DEF Control
<1>7. CASE EvaluatePrepare
  <2> DEFINE d == [db EXCEPT !.prepares = @ + 1]
  <2>1. db.prepares < MaxAttempts => d \in Database /\ MarkFailed(d) \in Database
    <3>1. ASSUME db.prepares < MaxAttempts PROVE d \in Database
      BY <1>0, <3>1, BoundsAssumption DEF Database
    <3> QED BY <3>1, MarkType
  <2>2. \/ /\ db.prepares < MaxAttempts
           /\ db' = d
           /\ disk' = IF durable THEN d ELSE disk
           /\ run' \in RunType
        \/ db.prepares < MaxAttempts /\ End(MarkFailed(d))
        \/ End(MarkFailed(db))
    BY <1>7, <1>0 DEF EvaluatePrepare, RunType, PCs, Guarded
  <2> HIDE DEF d
  <2>3. Writes /\ run' \in RunType
    BY <1>0, <1>2, <2>1, <2>2, WritesType, RunsType DEF Writes
  <2> QED BY <1>3, <1>22, <1>7, <2>3 DEF EvaluatePrepare
<1>8. ASSUME NEW c \in Clusters, Activate(c) PROVE TypeOK'
  <2>1. Writes /\ run' \in RunType
    <3>1. CASE UNCHANGED <<db, disk>> /\ run' = [run EXCEPT !.todo = @ \ {c}, !.active = @ \cup {c}]
      BY <1>0, <3>1 DEF Writes, RunType
    <3>2. CASE \E b \in BOOLEAN : RestoreThen(db, b)
      BY <1>0, <3>2, WritesType, RunsType
    <3> QED BY <1>8, <3>1, <3>2 DEF Activate
  <2>2. alloc' \in [Clusters -> {"all", "primaries"}] /\ UNCHANGED <<reboots, boot, manifest, durable>>
    BY <1>8 DEF Activate, TypeOK
  <2> QED BY <2>1, <2>2 DEF TypeOK, Writes, RunType
<1>9. CASE GuardsActive
  <2>1. Writes /\ run' \in RunType
    BY <1>9, <1>1, WritesType, RunsType DEF GuardsActive, Keys, PCs
  <2> QED BY <1>3, <1>22, <1>9, <2>1 DEF GuardsActive
<1>10. CASE Stage
  <2>1. Writes /\ run' \in RunType
    BY <1>10, <1>0, <1>1, WritesType, RunsType DEF Stage, Keys, PCs
  <2> QED BY <1>3, <1>22, <1>10, <2>1 DEF Stage, Manifests
<1>11. CASE EvaluateReboot
  <2> DEFINE d == [db EXCEPT !.evaluations = @ + 1]
  <2>1. db.evaluations < MaxAttempts => d \in Database /\ Journal(d, "intent") \in Database
    <3>1. ASSUME db.evaluations < MaxAttempts PROVE d \in Database
      BY <1>0, <3>1, BoundsAssumption DEF Database
    <3> QED BY <3>1, JournalType DEF Keys
  <2>2. \/ db.evaluations < MaxAttempts /\ Goto(Journal(d, "intent"), "invoke")
        \/ db.evaluations < MaxAttempts /\ RestoreThen(d, TRUE)
        \/ RestoreThen(db, FALSE)
    BY <1>11 DEF EvaluateReboot, Blocked
  <2> HIDE DEF d
  <2>3. Writes /\ run' \in RunType
    BY <1>0, <2>1, <2>2, WritesType, RunsType DEF PCs
  <2> QED BY <1>3, <1>22, <1>11, <2>3 DEF EvaluateReboot
<1>12. CASE Invoke
  <2>1. Writes /\ run' \in RunType
    BY <1>12, <1>1, <1>2, WritesType, RunsType DEF Invoke, Keys, PCs
  <2>2. reboots' \in Nat /\ UNCHANGED <<alloc, boot, manifest, durable>>
    BY <1>12 DEF Invoke, TypeOK
  <2> QED BY <2>1, <2>2 DEF TypeOK, Writes, RunType
<1>13. CASE HostBoots
  BY <1>13 DEF HostBoots, TypeOK
<1>14. CASE Disconnect
  <2>1. MarkRecovery(Journal(db, "disconnected")) \in Database
    BY <1>1, MarkType DEF Keys
  <2>2. Writes /\ run' \in RunType
    BY <1>14, <1>1, <1>2, <2>1, WritesType, RunsType DEF Disconnect, Keys, PCs
  <2> QED BY <1>3, <1>22, <1>14, <2>2 DEF Disconnect
<1>15. CASE Reconnect
  <2>1. ASSUME NEW id \in {NoBoot, boot}
        PROVE  [Journal(db, "reconnected") EXCEPT !.seen = id] \in Database
    <3>1. id \in Int /\ Journal(db, "reconnected") \in Database
      BY <1>1 DEF TypeOK, NoBoot, Keys
    <3> QED BY <3>1 DEF Database
  <2>2. Writes /\ run' \in RunType
    BY <1>15, <1>2, <2>1, WritesType, RunsType DEF Reconnect, PCs
  <2> QED BY <1>3, <1>22, <1>15, <2>2 DEF Reconnect
<1>16. CASE Verify
  <2>1. Writes /\ run' \in RunType
    <3>1. CASE db' = Journal(db, "discovered") /\ disk' = db' /\ run' = Idle
      BY <1>1, <3>1 DEF Writes, RunType, Idle, Keys, PCs
    <3>2. CASE End(MarkRecovery(db))
      BY <1>2, <3>2, WritesType, RunsType
    <3> QED BY <1>16, <3>1, <3>2 DEF Verify
  <2> QED BY <1>3, <1>22, <1>16, <2>1 DEF Verify
<1>17. ASSUME NEW c \in Clusters, Restore(c) PROVE TypeOK'
  BY <1>17, ZenonT(60) DEF Restore, TypeOK
<1>18. CASE Restored
  <2>1. /\ MarkFailed(Journal(db, "restored")) \in Database
        /\ MarkRecovery(Journal(db, "restored")) \in Database
    BY <1>1, MarkType DEF Keys
  <2>2. Writes /\ run' \in RunType
    BY <1>18, <1>0, <2>1, WritesType, RunsType DEF Restored
  <2> QED BY <1>3, <1>22, <1>18, <2>2 DEF Restored
<1>19. CASE Crash
  <2>1. Writes /\ run' \in RunType
    BY <1>19, <1>2 DEF Crash, Writes, RunType, Idle, PCs
  <2> QED BY <1>3, <1>22, <1>19, <2>1 DEF Crash
<1>20. CASE Reopen
  <2>1. Writes /\ run' \in RunType
    BY <1>20, <1>0, PlanStates DEF Reopen, Writes, Database
  <2> QED BY <1>3, <1>22, <1>20, <2>1 DEF Reopen
<1>21. CASE UNCHANGED vars
  BY <1>21 DEF vars, TypeOK
<1> QED BY <1>4, <1>5, <1>6, <1>7, <1>8, <1>9, <1>10, <1>11, <1>12, <1>13, <1>14,
           <1>15, <1>16, <1>17, <1>18, <1>19, <1>20, <1>21 DEF Next

\* The initial state is well typed.
LEMMA TypeInit == Init => TypeOK
  BY PlanStates, BoundsAssumption DEF Init, TypeOK, Database, Idle, PCs, NoBoot, Manifests

\* The journal, the run and the remote side keep their types.
THEOREM TypeCorrect == Spec => []TypeOK
  BY TypeInit, TypeStep, PTL DEF Spec

-----------------------------------------------------------------------------
\* At most one invocation

\* The steps before the intent row is written.
BeforeIntent == {"capture", "control", "prepare", "activate", "stage", "evaluate", "restore"}

\* With a journal that is kept, an invocation is always preceded by its intent
\* row, and a run that sees the row never comes back to the steps before it.
OnceInv ==
  /\ db = disk
  /\ reboots <= 1
  /\ reboots > 0 => "intent" \in db.keys
  /\ run.pc \in BeforeIntent => "intent" \notin db.keys
  /\ run.pc = "invoke" => reboots = 0 /\ "intent" \in db.keys

\* The marks and the attempt counters leave the journal alone.
LEMMA MarkKeys ==
  ASSUME NEW d \in Database
  PROVE  /\ MarkFailed(d).keys = d.keys /\ MarkRecovery(d).keys = d.keys
         /\ MarkFailed(d).pre = d.pre /\ MarkRecovery(d).pre = d.pre
         /\ MarkFailed(d).seen = d.seen /\ MarkRecovery(d).seen = d.seen
  BY DEF MarkFailed, MarkRecovery, Database

\* A journalled row adds its key and nothing else.
LEMMA JournalKeys ==
  ASSUME NEW d \in Database, NEW key \in Keys
  PROVE  /\ Journal(d, key).keys = d.keys \cup {key}
         /\ Journal(d, key).pre = d.pre
         /\ Journal(d, key).seen = d.seen
  BY DEF Journal, Database

\* A step that ends the run, and one that goes on, keep OnceInv when they
\* write a journal that has the intent row if there was an invocation.
LEMMA OnceWrites ==
  ASSUME TypeOK, OnceInv, durable, NEW d \in Database,
         db.keys \subseteq d.keys, UNCHANGED reboots
  PROVE  /\ End(d) => OnceInv'
         /\ \A pc \in {"disconnect", "reconnect", "verify"} : Goto(d, pc) => OnceInv'
         /\ "intent" \notin d.keys =>
              /\ \A pc \in BeforeIntent : Goto(d, pc) => OnceInv'
              /\ \A b : RestoreThen(d, b) => OnceInv'
<1>1. ASSUME End(d) PROVE OnceInv'
  BY <1>1 DEF End, OnceInv, Idle, BeforeIntent
<1>2. ASSUME NEW pc \in {"disconnect", "reconnect", "verify"}, Goto(d, pc) PROVE OnceInv'
  BY <1>2 DEF Goto, OnceInv, BeforeIntent, TypeOK
<1>3. ASSUME "intent" \notin d.keys, NEW pc \in BeforeIntent, Goto(d, pc) PROVE OnceInv'
  BY <1>3 DEF Goto, OnceInv, BeforeIntent, TypeOK
<1>4. ASSUME "intent" \notin d.keys, NEW b, RestoreThen(d, b) PROVE OnceInv'
  BY <1>4 DEF RestoreThen, OnceInv, BeforeIntent, TypeOK
<1> QED BY <1>1, <1>2, <1>3, <1>4

\* Every step keeps OnceInv, one case per step of the orchestrator.
LEMMA OnceStep == TypeOK /\ durable /\ OnceInv /\ [Next]_vars => OnceInv'
<1> SUFFICES ASSUME TypeOK, durable, OnceInv, [Next]_vars PROVE OnceInv'
  OBVIOUS
<1>0. db \in Database /\ disk \in Database
  BY DEF TypeOK
<1>1. \A key \in Keys : Journal(db, key) \in Database /\ Journal(db, key).keys = db.keys \cup {key}
  BY <1>0, JournalType, JournalKeys
<1>2. /\ MarkFailed(db) \in Database /\ MarkFailed(db).keys = db.keys
      /\ MarkRecovery(db) \in Database /\ MarkRecovery(db).keys = db.keys
  BY <1>0, MarkType, MarkKeys
<1>4. CASE Begin
  <2> DEFINE d == [db EXCEPT !.plan = "executing", !.pre = IF @ = NoBoot THEN boot ELSE @]
  <2>1. d \in Database /\ d.keys = db.keys
    <3>1. (IF db.pre = NoBoot THEN boot ELSE db.pre) \in Int
      BY <1>0 DEF TypeOK, Database
    <3> QED BY <1>0, <3>1, PlanStates DEF Database
  <2>2. MarkRecovery(d) \in Database /\ MarkRecovery(d).keys = db.keys
    BY <2>1, MarkType, MarkKeys
  <2>3. \/ End(MarkRecovery(d))
        \/ "intent" \notin db.keys /\ (Goto(d, "control") \/ Goto(d, "capture"))
        \/ \E pc \in {"disconnect", "reconnect", "verify"} : Goto(d, pc)
    BY <1>4 DEF Begin, Acknowledged, Ambiguous
  <2> HIDE DEF d
  <2>4. UNCHANGED reboots
    BY <1>4 DEF Begin
  <2> QED BY <2>1, <2>2, <2>3, <2>4, OnceWrites DEF BeforeIntent
<1>5. CASE Capture
  <2>1. UNCHANGED reboots /\ "intent" \notin db.keys
    BY <1>5 DEF Capture, OnceInv, BeforeIntent
  <2> QED BY <1>5, <1>1, <1>2, <2>1, OnceWrites DEF Capture, BeforeIntent, Keys
<1>6. CASE Control
  <2>1. UNCHANGED reboots /\ "intent" \notin db.keys
    BY <1>6 DEF Control, OnceInv, BeforeIntent
  <2>2. \A state \in {"paused", "cancelled"} :
          [db EXCEPT !.plan = state] \in Database /\ [db EXCEPT !.plan = state].keys = db.keys
    BY <1>0, PlanStates DEF Database
  <2> QED BY <1>6, <1>0, <2>1, <2>2, OnceWrites DEF Control, BeforeIntent
<1>7. CASE EvaluatePrepare
  <2> DEFINE d == [db EXCEPT !.prepares = @ + 1]
  <2>1. UNCHANGED reboots /\ "intent" \notin db.keys
    BY <1>7 DEF EvaluatePrepare, OnceInv, BeforeIntent
  <2>2. CASE db.prepares < MaxAttempts /\ db' = d /\ disk' = d /\ run'.pc \in {"stage", "activate"}
    <3>1. d.keys = db.keys
      BY <1>0 DEF Database
    <3> QED BY <2>1, <2>2, <3>1 DEF OnceInv, BeforeIntent
  <2>3. CASE db.prepares < MaxAttempts /\ End(MarkFailed(d))
    <3>1. d \in Database /\ d.keys = db.keys
      BY <1>0, <2>3, BoundsAssumption DEF Database
    <3> HIDE DEF d
    <3>2. MarkFailed(d) \in Database /\ MarkFailed(d).keys = db.keys
      BY <3>1, MarkType, MarkKeys
    <3> QED BY <2>1, <2>3, <3>2, OnceWrites
  <2>4. CASE End(MarkFailed(db))
    BY <1>2, <2>1, <2>4, OnceWrites
  <2> QED BY <1>7, <2>2, <2>3, <2>4 DEF EvaluatePrepare, TypeOK
<1>8. ASSUME NEW c \in Clusters, Activate(c) PROVE OnceInv'
  <2>1. UNCHANGED reboots /\ "intent" \notin db.keys
    BY <1>8 DEF Activate, OnceInv, BeforeIntent
  <2>2. CASE UNCHANGED <<db, disk>> /\ run' = [run EXCEPT !.todo = @ \ {c}, !.active = @ \cup {c}]
    BY <2>1, <2>2 DEF OnceInv, TypeOK
  <2>3. CASE \E b \in BOOLEAN : RestoreThen(db, b)
    BY <1>0, <2>1, <2>3, OnceWrites
  <2> QED BY <1>8, <2>2, <2>3 DEF Activate
<1>9. CASE GuardsActive
  <2>1. UNCHANGED reboots /\ "intent" \notin db.keys
    BY <1>9 DEF GuardsActive, OnceInv, BeforeIntent
  <2> QED BY <1>9, <1>1, <2>1, OnceWrites DEF GuardsActive, BeforeIntent, Keys
<1>10. CASE Stage
  <2>1. UNCHANGED reboots /\ "intent" \notin db.keys
    BY <1>10 DEF Stage, OnceInv, BeforeIntent
  <2> QED BY <1>10, <1>0, <1>1, <2>1, OnceWrites DEF Stage, BeforeIntent, Keys
<1>11. CASE EvaluateReboot
  <2> DEFINE d == [db EXCEPT !.evaluations = @ + 1]
  <2>1. UNCHANGED reboots /\ "intent" \notin db.keys
    BY <1>11 DEF EvaluateReboot, OnceInv, BeforeIntent
  <2>2. db.evaluations < MaxAttempts => d \in Database /\ d.keys = db.keys
    BY <1>0, BoundsAssumption DEF Database
  <2>3. \/ db.evaluations < MaxAttempts /\ Goto(Journal(d, "intent"), "invoke")
        \/ db.evaluations < MaxAttempts /\ RestoreThen(d, TRUE)
        \/ RestoreThen(db, FALSE)
    BY <1>11 DEF EvaluateReboot, Blocked
  <2> HIDE DEF d
  <2>4. CASE db.evaluations < MaxAttempts /\ Goto(Journal(d, "intent"), "invoke")
    <3>1. Journal(d, "intent").keys = db.keys \cup {"intent"}
      BY <2>2, <2>4, JournalKeys DEF Keys
    <3>2. reboots = 0
      BY <2>1 DEF OnceInv, TypeOK
    <3> QED BY <2>1, <2>4, <3>1, <3>2 DEF Goto, OnceInv, BeforeIntent, TypeOK
  <2>5. CASE \/ db.evaluations < MaxAttempts /\ RestoreThen(d, TRUE)
             \/ RestoreThen(db, FALSE)
    BY <1>0, <2>1, <2>2, <2>5, OnceWrites
  <2> QED BY <2>3, <2>4, <2>5
<1>12. CASE Invoke
  <2>1. reboots = 0 /\ "intent" \in db.keys /\ reboots' \in {0, 1}
    BY <1>12 DEF Invoke, OnceInv
  <2>2. CASE Goto(Journal(db, "acknowledged"), "disconnect")
    BY <1>1, <2>1, <2>2 DEF Goto, OnceInv, BeforeIntent, Keys, TypeOK
  <2>3. CASE End(MarkRecovery(db))
    BY <1>2, <2>1, <2>3 DEF End, OnceInv, BeforeIntent, Idle
  <2> QED BY <1>12, <2>2, <2>3 DEF Invoke
<1>13. CASE HostBoots
  BY <1>13 DEF HostBoots, OnceInv
<1>14. CASE Disconnect
  <2>1. /\ MarkRecovery(Journal(db, "disconnected")) \in Database
        /\ MarkRecovery(Journal(db, "disconnected")).keys = db.keys \cup {"disconnected"}
    BY <1>1, MarkType, MarkKeys DEF Keys
  <2>2. UNCHANGED reboots
    BY <1>14 DEF Disconnect
  <2> QED BY <1>14, <1>1, <1>2, <2>1, <2>2, OnceWrites DEF Disconnect, Keys
<1>15. CASE Reconnect
  <2>1. ASSUME NEW id \in {NoBoot, boot}
        PROVE  /\ [Journal(db, "reconnected") EXCEPT !.seen = id] \in Database
               /\ db.keys \subseteq [Journal(db, "reconnected") EXCEPT !.seen = id].keys
    <3>1. /\ id \in Int /\ Journal(db, "reconnected") \in Database
          /\ Journal(db, "reconnected").keys = db.keys \cup {"reconnected"}
      BY <1>1 DEF TypeOK, NoBoot, Keys
    <3> QED BY <3>1 DEF Database
  <2>2. UNCHANGED reboots
    BY <1>15 DEF Reconnect
  <2> QED BY <1>15, <1>2, <2>1, <2>2, OnceWrites DEF Reconnect
<1>16. CASE Verify
  <2>1. CASE db' = Journal(db, "discovered") /\ disk' = db' /\ run' = Idle
    <3>1. db'.keys = db.keys \cup {"discovered"} /\ UNCHANGED reboots
      BY <1>1, <1>16, <2>1 DEF Keys, Verify
    <3> QED BY <2>1, <3>1 DEF OnceInv, Idle, BeforeIntent
  <2>2. CASE End(MarkRecovery(db))
    BY <1>2, <1>16, <2>2, OnceWrites DEF Verify
  <2> QED BY <1>16, <2>1, <2>2 DEF Verify
<1>17. ASSUME NEW c \in Clusters, Restore(c) PROVE OnceInv'
  BY <1>17 DEF Restore, OnceInv, TypeOK
<1>18. CASE Restored
  <2>1. LET d == Journal(db, "restored") IN
        /\ MarkFailed(d) \in Database /\ MarkFailed(d).keys = db.keys \cup {"restored"}
        /\ MarkRecovery(d) \in Database /\ MarkRecovery(d).keys = db.keys \cup {"restored"}
    BY <1>1, MarkType, MarkKeys DEF Keys
  <2>2. UNCHANGED reboots
    BY <1>18 DEF Restored
  <2> QED BY <1>18, <1>0, <2>1, <2>2, OnceWrites DEF Restored
<1>19. CASE Crash
  <2>1. MarkRecovery(disk).keys = db.keys
    BY <1>0, MarkKeys DEF OnceInv
  <2> QED BY <1>19, <2>1 DEF Crash, OnceInv, Idle, BeforeIntent
<1>20. CASE Reopen
  <2>1. [db EXCEPT !.plan = "executing", !.reopened = TRUE].keys = db.keys
    BY <1>0 DEF Database
  <2> QED BY <1>20, <2>1 DEF Reopen, OnceInv
<1>21. CASE UNCHANGED vars
  BY <1>21 DEF vars, OnceInv
<1> QED BY <1>4, <1>5, <1>6, <1>7, <1>8, <1>9, <1>10, <1>11, <1>12, <1>13, <1>14,
           <1>15, <1>16, <1>17, <1>18, <1>19, <1>20, <1>21 DEF Next

\* The steps of a run that has not staged its executor yet.
BeforeStaged == {"capture", "control", "prepare", "activate", "stage"}

\* Without a journal that is kept, the manifest of an invoked reboot stays on
\* the host, and every later request is signed anew: its staging is refused.
AnewInv ==
  /\ reboots <= 1
  /\ disk.keys = {} \/ "discovered" \in disk.keys
  /\ disk.keys = {} => disk.pre = NoBoot
  /\ run.pc = "idle" => db = disk
  /\ reboots > 0 => manifest # "none"
  /\ run.pc \in BeforeStaged =>
       {"staged", "acknowledged"} \cap db.keys = {} /\ (reboots > 0 => manifest = "foreign")
  /\ run.pc \in {"evaluate", "invoke"} => manifest = "staged" /\ reboots = 0

\* The ways a step may leave the run keep AnewInv, when it goes on where it
\* may.
LEMMA AnewWrites ==
  ASSUME TypeOK, AnewInv, ~durable, UNCHANGED durable, NEW d, UNCHANGED <<reboots, manifest>>
  PROVE  /\ End(d) => AnewInv'
         /\ \A pc \in PCs \ ({"idle", "evaluate", "invoke"} \cup BeforeStaged) :
              Goto(d, pc) => AnewInv'
         /\ \A b : RestoreThen(d, b) => AnewInv'
         /\ run.pc \in BeforeStaged /\ {"staged", "acknowledged"} \cap d.keys = {} =>
              \A pc \in BeforeStaged : Goto(d, pc) => AnewInv'
<1>1. ASSUME End(d) PROVE AnewInv'
  BY <1>1 DEF End, AnewInv, Idle, BeforeStaged
<1>2. ASSUME NEW pc \in PCs \ ({"idle", "evaluate", "invoke"} \cup BeforeStaged), Goto(d, pc)
      PROVE  AnewInv'
  <2>1. run'.pc = pc /\ disk' = disk
    BY <1>2 DEF Goto, TypeOK
  <2> QED BY <1>2, <2>1 DEF AnewInv
<1>3. ASSUME NEW b, RestoreThen(d, b) PROVE AnewInv'
  <2>1. run'.pc = "restore" /\ disk' = disk
    BY <1>3 DEF RestoreThen, TypeOK
  <2> QED BY <2>1 DEF AnewInv, BeforeStaged
<1>4. ASSUME run.pc \in BeforeStaged, {"staged", "acknowledged"} \cap d.keys = {},
             NEW pc \in BeforeStaged, Goto(d, pc)
      PROVE  AnewInv'
  <2>1. run'.pc = pc /\ disk' = disk /\ db' = d
    BY <1>4 DEF Goto, TypeOK
  <2> QED BY <1>4, <2>1 DEF AnewInv, BeforeStaged
<1> QED BY <1>1, <1>2, <1>3, <1>4

\* Every step keeps AnewInv, one case per step of the orchestrator.
LEMMA AnewStep == TypeOK /\ ~durable /\ AnewInv /\ [Next]_vars => AnewInv'
<1> SUFFICES ASSUME TypeOK, ~durable, AnewInv, [Next]_vars PROVE AnewInv'
  OBVIOUS
<1>0. db \in Database /\ disk \in Database
  BY DEF TypeOK
<1>1. \A key \in Keys : Journal(db, key).keys = db.keys \cup {key}
  BY <1>0, JournalKeys
<1>2. run.pc \in BeforeStaged => {"staged", "acknowledged"} \cap db.keys = {}
  BY DEF AnewInv
<1>3. CASE Begin
  <2> DEFINE d == [db EXCEPT !.plan = "executing", !.pre = IF @ = NoBoot THEN boot ELSE @]
  <2>1. db = disk /\ db.keys = {} /\ db.pre = NoBoot
    BY <1>3 DEF Begin, AnewInv
  <2>2. Goto(d, "capture") /\ UNCHANGED <<reboots, durable>>
    BY <1>3, <2>1 DEF Begin, Ambiguous
  <2>3. manifest' = IF manifest # "none" THEN "foreign" ELSE manifest
    BY <1>3, <2>1 DEF Begin
  <2>4. run'.pc = "capture" /\ disk' = disk /\ db'.keys = {}
    BY <1>0, <2>1, <2>2 DEF Goto, TypeOK, Database
  <2> QED BY <2>2, <2>3, <2>4 DEF AnewInv, BeforeStaged
<1>4. CASE Capture
  <2>1. run.pc \in BeforeStaged /\ UNCHANGED <<reboots, manifest, durable>>
    BY <1>4 DEF Capture, BeforeStaged
  <2> QED BY <1>1, <1>2, <1>4, <2>1, AnewWrites DEF Capture, BeforeStaged, Keys
<1>5. CASE Control
  <2>1. run.pc \in BeforeStaged /\ UNCHANGED <<reboots, manifest, durable>>
    BY <1>5 DEF Control, BeforeStaged
  <2> QED BY <1>2, <1>5, <2>1, AnewWrites DEF Control, BeforeStaged
<1>6. CASE EvaluatePrepare
  <2>1. run.pc \in BeforeStaged /\ UNCHANGED <<reboots, manifest, durable>>
    BY <1>6 DEF EvaluatePrepare, BeforeStaged
  <2>2. CASE /\ db' = [db EXCEPT !.prepares = @ + 1]
             /\ disk' = disk
             /\ run'.pc \in {"stage", "activate"}
    <3>1. db'.keys = db.keys
      BY <1>0, <2>2 DEF Database
    <3> QED BY <1>2, <2>1, <2>2, <3>1 DEF AnewInv, BeforeStaged
  <2>3. CASE \E d : End(d)
    BY <2>1, <2>3, AnewWrites
  <2> QED BY <1>6, <2>2, <2>3 DEF EvaluatePrepare, TypeOK
<1>7. ASSUME NEW c \in Clusters, Activate(c) PROVE AnewInv'
  <2>1. UNCHANGED <<reboots, manifest, durable>>
    BY <1>7 DEF Activate
  <2>2. CASE UNCHANGED <<db, disk>> /\ run'.pc = run.pc
    BY <2>1, <2>2 DEF AnewInv
  <2>3. CASE \E b \in BOOLEAN : RestoreThen(db, b)
    BY <2>1, <2>3, AnewWrites
  <2> QED BY <1>7, <2>2, <2>3 DEF Activate, TypeOK
<1>8. CASE GuardsActive
  <2>1. run.pc \in BeforeStaged /\ UNCHANGED <<reboots, manifest, durable>>
    BY <1>8 DEF GuardsActive, BeforeStaged
  <2> QED BY <1>1, <1>2, <1>8, <2>1, AnewWrites DEF GuardsActive, BeforeStaged, Keys
<1>9. CASE Stage
  <2>1. /\ "staged" \notin db.keys /\ UNCHANGED <<reboots, durable>>
        /\ reboots > 0 => manifest = "foreign"
    BY <1>2, <1>9 DEF Stage, BeforeStaged, AnewInv
  <2>2. CASE Stageable /\ manifest' = "staged" /\ Goto(Journal(db, "staged"), "evaluate")
    <3>1. reboots = 0
      BY <2>1, <2>2 DEF Stageable, TypeOK
    <3>2. run'.pc = "evaluate" /\ disk' = disk
      BY <2>2 DEF Goto, TypeOK
    <3> QED BY <2>1, <2>2, <3>1, <3>2 DEF AnewInv, BeforeStaged
  <2>3. CASE \E d : RestoreThen(d, FALSE)
    <3>1. run'.pc = "restore" /\ disk' = disk
      BY <2>3 DEF RestoreThen, TypeOK
    <3>2. reboots > 0 => manifest' # "none"
      BY <1>9, <2>1 DEF Stage, Stageable
    <3> QED BY <2>1, <3>1, <3>2 DEF AnewInv, BeforeStaged
  <2> QED BY <1>9, <2>1, <2>2, <2>3 DEF Stage
<1>10. CASE EvaluateReboot
  <2>1. manifest = "staged" /\ reboots = 0 /\ UNCHANGED <<reboots, manifest, durable>>
    BY <1>10 DEF EvaluateReboot, AnewInv
  <2>2. CASE \E d : Goto(d, "invoke")
    <3>1. run'.pc = "invoke" /\ disk' = disk
      BY <2>2 DEF Goto, TypeOK
    <3> QED BY <2>1, <3>1 DEF AnewInv, BeforeStaged
  <2>3. CASE \E d : \E b \in BOOLEAN : RestoreThen(d, b)
    BY <2>1, <2>3, AnewWrites
  <2> QED BY <1>10, <2>2, <2>3 DEF EvaluateReboot, Blocked
<1>11. CASE Invoke
  <2>1. manifest = "staged" /\ reboots' \in {0, 1} /\ UNCHANGED <<manifest, durable>>
    BY <1>11 DEF Invoke, AnewInv
  <2>2. CASE \E d : Goto(d, "disconnect")
    <3>1. run'.pc = "disconnect" /\ disk' = disk
      BY <2>2 DEF Goto, TypeOK
    <3> QED BY <2>1, <3>1 DEF AnewInv, BeforeStaged
  <2>3. CASE \E d : End(d)
    <3>1. run'.pc = "idle" /\ disk' = disk /\ db' = disk'
      BY <2>3 DEF End, Idle
    <3> QED BY <2>1, <3>1 DEF AnewInv, BeforeStaged
  <2> QED BY <1>11, <2>2, <2>3 DEF Invoke
<1>12. CASE HostBoots
  BY <1>12 DEF HostBoots, AnewInv
<1>13. CASE Disconnect
  BY <1>13, AnewWrites DEF Disconnect, PCs, BeforeStaged
<1>14. CASE Reconnect
  BY <1>14, AnewWrites DEF Reconnect, PCs, BeforeStaged
<1>15. CASE Verify
  <2>1. UNCHANGED <<reboots, manifest, durable>>
    BY <1>15 DEF Verify
  <2>2. CASE db' = Journal(db, "discovered") /\ disk' = db' /\ run' = Idle
    <3>1. run'.pc = "idle" /\ "discovered" \in disk'.keys
      BY <1>1, <2>2 DEF Idle, Keys
    <3> QED BY <2>1, <2>2, <3>1 DEF AnewInv, BeforeStaged
  <2>3. CASE End(MarkRecovery(db))
    BY <2>1, <2>3, AnewWrites
  <2> QED BY <1>15, <2>2, <2>3 DEF Verify
<1>16. ASSUME NEW c \in Clusters, Restore(c) PROVE AnewInv'
  BY <1>16 DEF Restore, AnewInv, TypeOK
<1>17. CASE Restored
  BY <1>17, AnewWrites DEF Restored
<1>18. CASE Crash
  <2>1. MarkRecovery(disk).keys = disk.keys /\ MarkRecovery(disk).pre = disk.pre
    BY <1>0, MarkKeys
  <2> QED BY <1>18, <2>1 DEF Crash, AnewInv, Idle, BeforeStaged
<1>19. CASE Reopen
  <2>1. db'.keys = disk.keys /\ db'.pre = disk.pre /\ disk' = db' /\ run'.pc = "idle"
    BY <1>0, <1>19 DEF Reopen, AnewInv, Database
  <2> QED BY <1>19, <2>1 DEF Reopen, AnewInv, BeforeStaged
<1>20. CASE UNCHANGED vars
  BY <1>20 DEF vars, AnewInv
<1> QED BY <1>3, <1>4, <1>5, <1>6, <1>7, <1>8, <1>9, <1>10, <1>11, <1>12, <1>13, <1>14,
           <1>15, <1>16, <1>17, <1>18, <1>19, <1>20 DEF Next

\* No step changes the caller.
LEMMA CallerKept == [Next]_vars => UNCHANGED durable
  BY DEF Next, vars, Begin, Capture, Control, EvaluatePrepare, Activate, GuardsActive, Stage,
         EvaluateReboot, Invoke, HostBoots, Disconnect, Reconnect, Verify, Restore, Restored,
         Crash, Reopen

\* The host is told to reboot at most once, whether or not the caller keeps the
\* journal: however many clusters, retries, recover requests and crashes there
\* are.
THEOREM RebootOnce == Spec => []AtMostOneInvocation
<1> DEFINE Inv == IF durable THEN OnceInv ELSE AnewInv
<1>1. Init => Inv
  BY DEF Init, OnceInv, AnewInv, Idle, BeforeIntent, BeforeStaged
<1>2. Inv => AtMostOneInvocation
  BY DEF OnceInv, AnewInv, AtMostOneInvocation
<1>3. TypeOK /\ Inv /\ [Next]_vars => Inv'
  BY OnceStep, AnewStep, CallerKept DEF TypeOK
<1> QED BY <1>1, <1>2, <1>3, TypeCorrect, PTL DEF Spec

-----------------------------------------------------------------------------
\* A verified return is a new boot

\* The boot ids of a database: the one read before the reboot and the one read
\* after it are boots that have happened, in this order; a verified return has
\* two different ones.
BootsOK(d, n) ==
  /\ d.pre = NoBoot \/ (0 <= d.pre /\ d.pre <= n)
  /\ d.seen = NoBoot \/ (d.pre # NoBoot /\ d.pre <= d.seen /\ d.seen <= n)
  /\ "discovered" \in d.keys => Returned(d)

\* The invariant, which needs no assumption on the caller: the committed journal
\* is one the run had, or an earlier one.
BootInv ==
  /\ BootsOK(db, boot)
  /\ BootsOK(disk, boot)
  /\ boot <= reboots
  /\ run.pc # "idle" => db.pre # NoBoot /\ "discovered" \notin db.keys

\* Databases that agree in journal and boot ids are equally good.
LEMMA BootsSame ==
  ASSUME NEW d \in Database, NEW e \in Database, NEW n \in Nat, BootsOK(d, n),
         e.pre = d.pre, e.seen = d.seen,
         "discovered" \in e.keys => "discovered" \in d.keys
  PROVE  BootsOK(e, n)
  BY DEF BootsOK, Returned

\* The three ways a step may leave the database and the run keep BootInv when
\* what they write agrees with what was there.
LEMMA BootWrites ==
  ASSUME TypeOK, BootInv, NEW d \in Database, d.pre = db.pre, d.seen = db.seen,
         "discovered" \in d.keys => "discovered" \in db.keys,
         run.pc # "idle", UNCHANGED boot, reboots' \in Nat, reboots <= reboots'
  PROVE  /\ End(d) => BootInv'
         /\ \A pc \in PCs : Goto(d, pc) => BootInv'
         /\ \A b : RestoreThen(d, b) => BootInv'
<1>1. BootsOK(d, boot) /\ boot <= reboots'
  BY BootsSame DEF BootInv, TypeOK
<1>2. d.pre # NoBoot /\ "discovered" \notin d.keys
  BY DEF BootInv
<1>3. ASSUME End(d) PROVE BootInv'
  BY <1>1, <1>3 DEF End, BootInv, Idle
<1>4. ASSUME NEW pc \in PCs, Goto(d, pc) PROVE BootInv'
  BY <1>1, <1>2, <1>4 DEF Goto, BootInv
<1>5. ASSUME NEW b, RestoreThen(d, b) PROVE BootInv'
  BY <1>1, <1>2, <1>5 DEF RestoreThen, BootInv
<1> QED BY <1>3, <1>4, <1>5

\* Every step keeps BootInv, one case per step of the orchestrator.
LEMMA BootStep == TypeOK /\ BootInv /\ [Next]_vars => BootInv'
<1> SUFFICES ASSUME TypeOK, BootInv, [Next]_vars PROVE BootInv'
  OBVIOUS
<1>0. db \in Database /\ disk \in Database /\ reboots \in Nat /\ boot \in Nat
  BY DEF TypeOK
<1>1. \A key \in Keys : /\ Journal(db, key) \in Database
                        /\ Journal(db, key).keys = db.keys \cup {key}
                        /\ Journal(db, key).pre = db.pre
                        /\ Journal(db, key).seen = db.seen
  BY <1>0, JournalType, JournalKeys
<1>2. /\ MarkFailed(db) \in Database /\ MarkFailed(db).keys = db.keys
      /\ MarkFailed(db).pre = db.pre /\ MarkFailed(db).seen = db.seen
      /\ MarkRecovery(db) \in Database /\ MarkRecovery(db).keys = db.keys
      /\ MarkRecovery(db).pre = db.pre /\ MarkRecovery(db).seen = db.seen
  BY <1>0, MarkType, MarkKeys
<1>3. ASSUME UNCHANGED reboots PROVE reboots' \in Nat /\ reboots <= reboots'
  BY <1>0, <1>3
<1>4. CASE Begin
  <2> DEFINE d == [db EXCEPT !.plan = "executing", !.pre = IF @ = NoBoot THEN boot ELSE @]
  <2>1. (IF db.pre = NoBoot THEN boot ELSE db.pre) \in Int
    BY <1>0 DEF Database
  <2>2. /\ d \in Database /\ d.keys = db.keys /\ d.seen = db.seen
        /\ d.pre = IF db.pre = NoBoot THEN boot ELSE db.pre
    BY <1>0, <2>1, PlanStates DEF Database
  <2>3. \/ End(MarkRecovery(d))
        \/ \E pc \in PCs : Goto(d, pc)
    BY <1>4 DEF Begin, Acknowledged, PCs
  <2>4. "discovered" \notin db.keys /\ UNCHANGED <<boot, reboots>>
    BY <1>4 DEF Begin
  <2> HIDE DEF d
  <2>5. BootsOK(d, boot) /\ d.pre # NoBoot /\ "discovered" \notin d.keys
    BY <1>0, <2>2, <2>4 DEF BootInv, BootsOK, NoBoot, Returned
  <2>6. MarkRecovery(d) \in Database /\ BootsOK(MarkRecovery(d), boot)
    BY <1>0, <2>2, <2>5, MarkType, MarkKeys, BootsSame
  <2>7. CASE End(MarkRecovery(d))
    BY <2>4, <2>6, <2>7 DEF End, BootInv, Idle
  <2>8. ASSUME NEW pc \in PCs, Goto(d, pc) PROVE BootInv'
    BY <2>4, <2>5, <2>8 DEF Goto, BootInv
  <2> QED BY <2>3, <2>7, <2>8
<1>5. CASE Capture
  BY <1>5, <1>1, <1>2, <1>3, BootWrites DEF Capture, Keys, PCs
<1>6. CASE Control
  <2>1. \A state \in {"paused", "cancelled"} :
          /\ [db EXCEPT !.plan = state] \in Database /\ [db EXCEPT !.plan = state].keys = db.keys
          /\ [db EXCEPT !.plan = state].pre = db.pre /\ [db EXCEPT !.plan = state].seen = db.seen
    BY <1>0, PlanStates DEF Database
  <2> QED BY <1>6, <1>0, <1>3, <2>1, BootWrites DEF Control, PCs
<1>7. CASE EvaluatePrepare
  <2> DEFINE d == [db EXCEPT !.prepares = @ + 1]
  <2>1. d.keys = db.keys /\ d.pre = db.pre /\ d.seen = db.seen
    BY <1>0 DEF Database
  <2>2. db.prepares < MaxAttempts => d \in Database
    BY <1>0, BoundsAssumption DEF Database
  <2>3. run.pc # "idle" /\ UNCHANGED <<reboots, boot>>
    BY <1>7 DEF EvaluatePrepare
  <2>4. CASE db.prepares < MaxAttempts /\ db' = d /\ disk' = IF durable THEN d ELSE disk
    <3>1. BootsOK(d, boot)
      BY <1>0, <2>1, <2>2, <2>4, BootsSame DEF BootInv
    <3> HIDE DEF d
    <3> QED BY <2>1, <2>3, <2>4, <3>1 DEF BootInv
  <2>5. CASE db.prepares < MaxAttempts /\ End(MarkFailed(d))
    <3> HIDE DEF d
    <3>1. /\ MarkFailed(d) \in Database /\ MarkFailed(d).keys = db.keys
          /\ MarkFailed(d).pre = db.pre /\ MarkFailed(d).seen = db.seen
      BY <2>1, <2>2, <2>5, MarkType, MarkKeys
    <3> QED BY <1>3, <2>3, <2>5, <3>1, BootWrites
  <2>6. CASE End(MarkFailed(db))
    BY <1>2, <1>3, <2>3, <2>6, BootWrites
  <2> QED BY <1>7, <2>4, <2>5, <2>6 DEF EvaluatePrepare
<1>8. ASSUME NEW c \in Clusters, Activate(c) PROVE BootInv'
  <2>1. run.pc # "idle" /\ UNCHANGED <<reboots, boot>>
    BY <1>8 DEF Activate
  <2>2. CASE UNCHANGED <<db, disk>>
    BY <2>1, <2>2 DEF BootInv
  <2>3. CASE \E b : RestoreThen(db, b)
    BY <1>0, <1>3, <2>1, <2>3, BootWrites
  <2> QED BY <1>8, <2>2, <2>3 DEF Activate
<1>9. CASE GuardsActive
  BY <1>9, <1>1, <1>3, BootWrites DEF GuardsActive, Keys, PCs
<1>10. CASE Stage
  BY <1>10, <1>0, <1>1, <1>3, BootWrites DEF Stage, Keys, PCs
<1>11. CASE EvaluateReboot
  <2> DEFINE d == [db EXCEPT !.evaluations = @ + 1]
  <2>1. d.keys = db.keys /\ d.pre = db.pre /\ d.seen = db.seen
    BY <1>0 DEF Database
  <2>2. db.evaluations < MaxAttempts => d \in Database
    BY <1>0, BoundsAssumption DEF Database
  <2>3. \/ db.evaluations < MaxAttempts /\ Goto(Journal(d, "intent"), "invoke")
        \/ db.evaluations < MaxAttempts /\ RestoreThen(d, TRUE)
        \/ RestoreThen(db, FALSE)
    BY <1>11 DEF EvaluateReboot, Blocked
  <2>4. run.pc # "idle" /\ UNCHANGED <<reboots, boot>>
    BY <1>11 DEF EvaluateReboot
  <2> HIDE DEF d
  <2>5. db.evaluations < MaxAttempts =>
          /\ Journal(d, "intent") \in Database /\ Journal(d, "intent").keys = db.keys \cup {"intent"}
          /\ Journal(d, "intent").pre = db.pre /\ Journal(d, "intent").seen = db.seen
    BY <2>1, <2>2, JournalType, JournalKeys DEF Keys
  <2> QED BY <1>0, <1>3, <2>1, <2>2, <2>3, <2>4, <2>5, BootWrites DEF PCs
<1>12. CASE Invoke
  <2>1. reboots' \in Nat /\ reboots <= reboots' /\ run.pc # "idle" /\ UNCHANGED boot
    BY <1>0, <1>12 DEF Invoke
  <2> QED BY <1>12, <1>1, <1>2, <2>1, BootWrites DEF Invoke, Keys, PCs
<1>13. CASE HostBoots
  BY <1>0, <1>13 DEF HostBoots, BootInv, BootsOK, Returned, Database, NoBoot
<1>14. CASE Disconnect
  <2>1. LET d == MarkRecovery(Journal(db, "disconnected")) IN
        /\ d \in Database /\ d.keys = db.keys \cup {"disconnected"}
        /\ d.pre = db.pre /\ d.seen = db.seen
    BY <1>1, MarkType, MarkKeys DEF Keys
  <2> QED BY <1>14, <1>1, <1>2, <1>3, <2>1, BootWrites DEF Disconnect, Keys, PCs
<1>15. CASE Reconnect
  <2>1. run.pc # "idle" /\ UNCHANGED <<reboots, boot>>
    BY <1>15 DEF Reconnect
  <2>2. ASSUME NEW id \in {NoBoot, boot},
               Goto([Journal(db, "reconnected") EXCEPT !.seen = id], "verify")
        PROVE  BootInv'
    <3> DEFINE d == [Journal(db, "reconnected") EXCEPT !.seen = id]
    <3>1. /\ id \in Int /\ Journal(db, "reconnected") \in Database
          /\ Journal(db, "reconnected").keys = db.keys \cup {"reconnected"}
          /\ Journal(db, "reconnected").pre = db.pre
      BY <1>0, <1>1 DEF NoBoot, Keys
    <3>2. d.keys = db.keys \cup {"reconnected"} /\ d.pre = db.pre /\ d.seen = id
      BY <3>1 DEF Database
    <3> HIDE DEF d
    <3>3. BootsOK(d, boot) /\ d.pre # NoBoot /\ "discovered" \notin d.keys
      BY <1>0, <2>1, <3>2 DEF BootInv, BootsOK, NoBoot, Database
    <3> QED BY <2>1, <2>2, <3>3 DEF Goto, BootInv, d
  <2>3. CASE End(MarkRecovery(db))
    BY <1>2, <1>3, <2>1, <2>3, BootWrites
  <2> QED BY <1>15, <2>2, <2>3 DEF Reconnect
<1>16. CASE Verify
  <2>1. run.pc # "idle" /\ UNCHANGED <<reboots, boot>>
    BY <1>16 DEF Verify
  <2>2. CASE Returned(db) /\ db' = Journal(db, "discovered") /\ disk' = db' /\ run' = Idle
    <3>1. db'.pre = db.pre /\ db'.seen = db.seen
      BY <1>1, <2>2 DEF Keys
    <3>2. BootsOK(db', boot)
      BY <2>2, <3>1 DEF BootInv, BootsOK, Returned
    <3> QED BY <2>1, <2>2, <3>2 DEF BootInv, Idle
  <2>3. CASE End(MarkRecovery(db))
    BY <1>2, <1>3, <2>1, <2>3, BootWrites
  <2> QED BY <1>16, <2>2, <2>3 DEF Verify
<1>17. ASSUME NEW c \in Clusters, Restore(c) PROVE BootInv'
  BY <1>17 DEF Restore, BootInv, TypeOK
<1>18. CASE Restored
  <2>1. LET d == Journal(db, "restored") IN
        /\ MarkFailed(d) \in Database /\ MarkFailed(d).keys = db.keys \cup {"restored"}
        /\ MarkFailed(d).pre = db.pre /\ MarkFailed(d).seen = db.seen
        /\ MarkRecovery(d) \in Database /\ MarkRecovery(d).keys = db.keys \cup {"restored"}
        /\ MarkRecovery(d).pre = db.pre /\ MarkRecovery(d).seen = db.seen
    BY <1>1, MarkType, MarkKeys DEF Keys
  <2> QED BY <1>18, <1>0, <1>3, <2>1, BootWrites DEF Restored
<1>19. CASE Crash
  <2>1. BootsOK(MarkRecovery(disk), boot)
    BY <1>0, MarkType, MarkKeys, BootsSame DEF BootInv
  <2> QED BY <1>19, <2>1 DEF Crash, BootInv, Idle
<1>20. CASE Reopen
  <2> DEFINE d == [db EXCEPT !.plan = "executing", !.reopened = TRUE]
  <2>1. d \in Database /\ d.keys = db.keys /\ d.pre = db.pre /\ d.seen = db.seen
    BY <1>0, PlanStates DEF Database
  <2>2. BootsOK(d, boot)
    BY <1>0, <2>1, BootsSame DEF BootInv
  <2> QED BY <1>20, <2>2 DEF Reopen, BootInv
<1>21. CASE UNCHANGED vars
  BY <1>21 DEF vars, BootInv
<1> QED BY <1>4, <1>5, <1>6, <1>7, <1>8, <1>9, <1>10, <1>11, <1>12, <1>13, <1>14,
           <1>15, <1>16, <1>17, <1>18, <1>19, <1>20, <1>21 DEF Next

\* A journal with return-discovered belongs to a host that was told to reboot
\* and has booted since, whether or not the caller keeps the journal.
THEOREM ReturnIsReboot == Spec => []ReturnVerified
<1>1. Init => BootInv
  BY DEF Init, BootInv, BootsOK, Idle
<1>2. TypeOK /\ BootInv => ReturnVerified
  BY DEF BootInv, BootsOK, Returned, ReturnVerified, TypeOK, Database, NoBoot
<1> QED BY <1>1, <1>2, BootStep, TypeCorrect, PTL DEF Spec

-----------------------------------------------------------------------------
\* The guards

Unguarded(d) == d.keys \cap {"guards-active", "restored"} = {}
AllReleased == \A c \in Clusters : alloc[c] = "all"

\* What is committed: everything, or nothing before a verified return.
Committed ==
  IF durable THEN disk = db
  ELSE /\ disk.plan \in {"executing", "recovery_required"}
       /\ disk.keys = {} \/ "discovered" \in disk.keys
       /\ run.pc = "idle" => db = disk

\* A run executes its plan, and its list of active guards is what it activated.
RunGuards ==
  /\ run.pc # "idle" => db.plan = "executing"
  /\ run.pc \in {"idle", "capture", "control", "prepare"} => run.active = {}
  /\ run.pc = "activate" => /\ run.todo \subseteq Guarded
                            /\ run.active = Guarded \ run.todo
                            /\ \A c \in run.active : alloc[c] = "primaries"

\* A plan that was not reopened reaches the reboot with its own guards only.
FreshGuards ==
  ~db.reopened =>
    /\ run.pc \in {"capture", "control", "prepare", "activate"} => Unguarded(db)
    /\ run.pc \in {"stage", "evaluate", "restore"} => "restored" \notin db.keys
    /\ run.pc \in {"stage", "evaluate", "invoke"} =>
         run.active = Guarded /\ \A c \in Guarded : alloc[c] = "primaries"

\* With a journal that is kept, no guard is active before the run's own
\* activation, and one that may be active after a failure keeps the plan out of
\* the states a run begins in.
DurableGuards ==
  durable /\ ~db.reopened =>
    /\ run.pc \in {"capture", "control", "prepare"} => AllReleased
    /\ run.pc = "activate" => \A c \in run.todo : alloc[c] = "all"
    /\ run.pc = "restore" /\ run.verified /\ run.blocked =>
         \A c \in Clusters \ run.todo : alloc[c] = "all"
    /\ run.pc = "idle" /\ db.plan \in {"ready", "executing", "paused"} =>
         "discovered" \in db.keys \/ (Unguarded(db) /\ AllReleased)
    /\ db.plan \in {"failed", "cancelled"} => AllReleased

\* The caller stays what it is, and asks for the guards of all clusters or of
\* none.
WiringStep ==
  /\ durable' = durable
  /\ Guarded' = Guarded
  /\ Guarded \subseteq Clusters
  /\ durable => Guarded = Clusters

GuardInv == Committed /\ RunGuards /\ FreshGuards /\ DurableGuards

\* The marks and the journal move the plan as named and leave its history.
LEMMA MarkPlan ==
  ASSUME NEW d \in Database, d.plan = "executing"
  PROVE  /\ MarkFailed(d).plan = "failed" /\ MarkFailed(d).reopened = d.reopened
         /\ MarkRecovery(d).plan = "recovery_required" /\ MarkRecovery(d).reopened = d.reopened
  BY DEF MarkFailed, MarkRecovery, Database

\* A journalled row leaves the state of the plan alone.
LEMMA JournalPlan ==
  ASSUME NEW d \in Database, NEW key
  PROVE  /\ Journal(d, key).plan = d.plan
         /\ Journal(d, key).reopened = d.reopened
         /\ Journal(d, key).keys = d.keys \cup {key}
  BY DEF Journal, Database

\* A run may end with any result that, if it is kept, leaves guards only to a
\* plan in recovery or a returned host.
LEMMA GuardEnd ==
  ASSUME TypeOK, GuardInv, WiringStep, NEW d \in Database, End(d),
         durable /\ ~d.reopened =>
           \/ d.plan = "recovery_required"
           \/ AllReleased' /\ Unguarded(d)
           \/ AllReleased' /\ d.plan = "failed"
  PROVE  GuardInv'
<1>1. run'.pc = "idle" /\ run'.active = {}
  BY DEF End, Idle
<1>2. Committed'
  BY <1>1 DEF WiringStep, End, GuardInv, Committed
<1>3. RunGuards' /\ FreshGuards'
  BY <1>1 DEF WiringStep, RunGuards, FreshGuards
<1>4. DurableGuards'
  BY <1>1 DEF WiringStep, DurableGuards, End, Unguarded
<1> QED BY <1>2, <1>3, <1>4 DEF GuardInv

\* A run that goes on commits what it keeps.
LEMMA GuardGoes ==
  ASSUME GuardInv, WiringStep, NEW d, db' = d, disk' = IF durable THEN d ELSE disk,
         run'.pc # "idle"
  PROVE  Committed'
  BY DEF WiringStep, GuardInv, Committed

\* Before any guard, the steps of a run keep GuardInv.
LEMMA GuardBegin ==
  ASSUME TypeOK, GuardInv, WiringStep, Begin
  PROVE  GuardInv'
<1> DEFINE d == [db EXCEPT !.plan = "executing", !.pre = IF @ = NoBoot THEN boot ELSE @]
<1>0. d \in Database
  <2>1. (IF db.pre = NoBoot THEN boot ELSE db.pre) \in Int
    BY DEF TypeOK, Database
  <2> QED BY <2>1, PlanStates DEF Database, TypeOK
<1>1. d.plan = "executing" /\ d.keys = db.keys /\ d.reopened = db.reopened
  BY DEF TypeOK, Database
<1>2. UNCHANGED alloc
  BY DEF Begin
<1>3. ~db.reopened => Unguarded(db)
  BY DEF WiringStep, Begin, GuardInv, Committed, DurableGuards, Unguarded
<1>4. durable /\ ~db.reopened => AllReleased
  BY DEF WiringStep, Begin, GuardInv, DurableGuards
<1>5. CASE Ambiguous(db.keys)
  <2>1. MarkRecovery(d) \in Database /\ MarkRecovery(d).plan = "recovery_required"
    BY <1>0, <1>1, MarkType, MarkPlan
  <2>2. End(MarkRecovery(d))
    BY <1>5 DEF Begin
  <2> QED BY <2>1, <2>2, GuardEnd
<1>6. CASE ~Ambiguous(db.keys)
  <2>1. PICK pc \in {"disconnect", "reconnect", "verify", "control", "capture"} : Goto(d, pc)
    BY <1>6 DEF Begin, Acknowledged
  <2> HIDE DEF d
  <2>2. run.active = {} /\ run'.pc = pc /\ run'.active = run.active /\ db' = d
    <3>1. run.pc = "idle"
      BY DEF Begin
    <3> QED BY <2>1, <3>1 DEF WiringStep, Goto, TypeOK, GuardInv, RunGuards
  <2>3. Committed'
    BY <2>1, <2>2, GuardGoes DEF Goto
  <2>4. RunGuards'
    BY <2>2, <1>1 DEF WiringStep, RunGuards
  <2>5. FreshGuards' /\ DurableGuards'
    BY <2>2, <1>1, <1>2, <1>3, <1>4 DEF WiringStep, FreshGuards, DurableGuards, Unguarded, AllReleased
  <2> QED BY <2>3, <2>4, <2>5 DEF GuardInv
<1> QED BY <1>5, <1>6

\* The clusters are inspected before any guard.
LEMMA GuardCapture ==
  ASSUME TypeOK, GuardInv, WiringStep, Capture
  PROVE  GuardInv'
<1>0. /\ db \in Database /\ db.plan = "executing" /\ UNCHANGED alloc
      /\ run.pc = "capture" /\ run.active = {}
      /\ ~db.reopened => Unguarded(db)
      /\ durable /\ ~db.reopened => AllReleased
  BY DEF WiringStep, Capture, TypeOK, GuardInv, RunGuards, FreshGuards, DurableGuards
<1>1. CASE Goto(Journal(db, "prepared"), "control")
  <2>1. /\ db'.plan = db.plan /\ db'.reopened = db.reopened
        /\ db'.keys = db.keys \cup {"prepared"}
        /\ run'.pc = "control" /\ run'.active = run.active
    BY <1>0, <1>1, JournalPlan DEF Goto, TypeOK
  <2>2. Committed'
    BY <1>1, <2>1, GuardGoes DEF Goto
  <2>3. RunGuards' /\ FreshGuards' /\ DurableGuards'
    BY <1>0, <2>1 DEF WiringStep, RunGuards, FreshGuards, DurableGuards, Unguarded, AllReleased
  <2> QED BY <2>2, <2>3 DEF GuardInv
<1>2. CASE End(MarkFailed(db))
  <2>1. /\ MarkFailed(db) \in Database /\ MarkFailed(db).plan = "failed"
        /\ MarkFailed(db).reopened = db.reopened
    BY <1>0, MarkType, MarkPlan
  <2>2. durable /\ ~db.reopened => AllReleased'
    BY <1>0 DEF AllReleased
  <2> QED BY <1>2, <2>1, <2>2, GuardEnd
<1> QED BY <1>1, <1>2 DEF Capture

\* A pause or cancel is noticed before any guard.
LEMMA GuardControl ==
  ASSUME TypeOK, GuardInv, WiringStep, Control
  PROVE  GuardInv'
<1>0. /\ db \in Database /\ db.plan = "executing" /\ UNCHANGED alloc
      /\ run.pc = "control" /\ run.active = {}
      /\ ~db.reopened => Unguarded(db)
      /\ durable /\ ~db.reopened => AllReleased
  BY DEF WiringStep, Control, TypeOK, GuardInv, RunGuards, FreshGuards, DurableGuards
<1>1. CASE Goto(db, "prepare")
  <2>1. db' = db /\ run'.pc = "prepare" /\ run'.active = run.active
    BY <1>1 DEF Goto, TypeOK
  <2>2. Committed'
    BY <1>1, <2>1, GuardGoes DEF Goto
  <2>3. RunGuards' /\ FreshGuards' /\ DurableGuards'
    BY <1>0, <2>1 DEF WiringStep, RunGuards, FreshGuards, DurableGuards, Unguarded, AllReleased
  <2> QED BY <2>2, <2>3 DEF GuardInv
<1>2. ASSUME NEW state \in {"paused", "cancelled"}, End([db EXCEPT !.plan = state])
      PROVE  GuardInv'
  <2>1. /\ [db EXCEPT !.plan = state] \in Database
        /\ [db EXCEPT !.plan = state].keys = db.keys
        /\ [db EXCEPT !.plan = state].reopened = db.reopened
    BY <1>0, PlanStates DEF Database
  <2>2. durable /\ ~db.reopened => AllReleased' /\ Unguarded([db EXCEPT !.plan = state])
    BY <1>0, <2>1 DEF AllReleased, Unguarded
  <2> QED BY <1>2, <2>1, <2>2, GuardEnd
<1> QED BY <1>1, <1>2 DEF Control

\* The first evaluation of the predicates comes before any guard.
LEMMA GuardPrepare ==
  ASSUME TypeOK, GuardInv, WiringStep, EvaluatePrepare
  PROVE  GuardInv'
<1> DEFINE d == [db EXCEPT !.prepares = @ + 1]
<1>0. /\ db \in Database /\ db.plan = "executing" /\ UNCHANGED alloc
      /\ run.pc = "prepare" /\ run.active = {}
      /\ ~db.reopened => Unguarded(db)
      /\ durable /\ ~db.reopened => AllReleased
  BY DEF WiringStep, EvaluatePrepare, TypeOK, GuardInv, RunGuards, FreshGuards, DurableGuards
<1>1. /\ d.plan = "executing" /\ d.keys = db.keys /\ d.reopened = db.reopened
      /\ db.prepares < MaxAttempts => d \in Database
  BY <1>0, BoundsAssumption DEF Database
<1>2. durable /\ ~db.reopened => AllReleased'
  BY <1>0 DEF AllReleased
<1>3. CASE /\ db' = d
           /\ disk' = IF durable THEN d ELSE disk
           /\ run' = IF "guards-active" \in db.keys
                     THEN [run EXCEPT !.pc = "stage", !.active = Guarded]
                     ELSE [run EXCEPT !.pc = "activate", !.todo = Guarded]
  <2> HIDE DEF d
  <2>1. CASE "guards-active" \in db.keys
    <3>1. db.reopened /\ run'.pc = "stage"
      BY <1>0, <1>3, <2>1 DEF Unguarded, TypeOK
    <3>2. Committed'
      BY <1>3, <3>1, GuardGoes
    <3> QED BY <1>1, <1>3, <3>1, <3>2 DEF WiringStep, GuardInv, RunGuards, FreshGuards, DurableGuards
  <2>2. CASE "guards-active" \notin db.keys
    <3>1. run'.pc = "activate" /\ run'.active = {} /\ run'.todo = Guarded
      BY <1>0, <1>3, <2>2 DEF TypeOK
    <3>2. Committed'
      BY <1>3, <3>1, GuardGoes
    <3>3. RunGuards' /\ FreshGuards' /\ DurableGuards'
      BY <1>0, <1>1, <1>3, <3>1 DEF WiringStep, RunGuards, FreshGuards, DurableGuards, Unguarded, AllReleased
    <3> QED BY <3>2, <3>3 DEF GuardInv
  <2> QED BY <2>1, <2>2
<1>4. CASE db.prepares < MaxAttempts /\ End(MarkFailed(d))
  <2> HIDE DEF d
  <2>1. /\ MarkFailed(d) \in Database /\ MarkFailed(d).plan = "failed"
        /\ MarkFailed(d).reopened = db.reopened
    BY <1>1, <1>4, MarkType, MarkPlan
  <2> QED BY <1>2, <1>4, <2>1, GuardEnd
<1>5. CASE End(MarkFailed(db))
  <2>1. /\ MarkFailed(db) \in Database /\ MarkFailed(db).plan = "failed"
        /\ MarkFailed(db).reopened = db.reopened
    BY <1>0, MarkType, MarkPlan
  <2> QED BY <1>2, <1>5, <2>1, GuardEnd
<1> QED BY <1>3, <1>4, <1>5 DEF EvaluatePrepare

\* A restoration starts with a list of guards that, when it can end in failed,
\* misses none.
LEMMA GuardRestoreThen ==
  ASSUME TypeOK, GuardInv, WiringStep, NEW d \in Database, NEW b \in BOOLEAN, RestoreThen(d, b),
         d.plan = "executing",
         ~d.reopened => "restored" \notin d.keys,
         durable /\ ~d.reopened /\ b => \A c \in Clusters \ run.active : alloc'[c] = "all"
  PROVE  GuardInv'
<1>1. /\ db' = d /\ run'.pc = "restore" /\ run'.todo = run.active /\ run'.blocked = b
  BY DEF RestoreThen, TypeOK
<1>2. Committed'
  BY <1>1, GuardGoes DEF RestoreThen
<1>3. RunGuards' /\ FreshGuards' /\ DurableGuards'
  BY <1>1 DEF WiringStep, RunGuards, FreshGuards, DurableGuards
<1> QED BY <1>2, <1>3 DEF GuardInv

\* Activating one guard keeps GuardInv, whatever the cluster answers.
LEMMA GuardActivate ==
  ASSUME TypeOK, GuardInv, WiringStep, NEW c \in Clusters, Activate(c)
  PROVE  GuardInv'
<1>0. /\ db \in Database /\ db.plan = "executing"
      /\ run.pc = "activate" /\ c \in run.todo /\ run.active = Guarded \ run.todo
      /\ run.todo \subseteq Guarded
      /\ \A x \in run.active : alloc[x] = "primaries"
      /\ ~db.reopened => Unguarded(db)
      /\ durable /\ ~db.reopened => \A x \in run.todo : alloc[x] = "all"
  BY DEF WiringStep, Activate, TypeOK, GuardInv, RunGuards, FreshGuards, DurableGuards
<1>1. CASE /\ alloc' = [alloc EXCEPT ![c] = "primaries"]
           /\ run' = [run EXCEPT !.todo = @ \ {c}, !.active = @ \cup {c}]
           /\ UNCHANGED <<db, disk>>
  <2>1. /\ run'.pc = "activate" /\ run'.todo = run.todo \ {c} /\ run'.active = run.active \cup {c}
        /\ run.todo \subseteq Clusters
        /\ \A x \in Clusters : alloc'[x] = IF x = c THEN "primaries" ELSE alloc[x]
    BY <1>0, <1>1 DEF TypeOK
  <2>2. Committed'
    BY <1>0, <1>1, <2>1 DEF WiringStep, GuardInv, Committed
  <2>3. RunGuards' /\ FreshGuards' /\ DurableGuards'
    BY <1>0, <1>1, <2>1 DEF WiringStep, RunGuards, FreshGuards, DurableGuards, Unguarded
  <2> QED BY <2>2, <2>3 DEF GuardInv
<1>2. CASE alloc' = [alloc EXCEPT ![c] = "all"] /\ RestoreThen(db, TRUE)
  <2>1. durable => \A x \in Clusters \ run.active :
                     x \in run.todo /\ (alloc'[x] = "all" \/ alloc'[x] = alloc[x])
    BY <1>0, <1>2 DEF WiringStep, TypeOK
  <2> QED BY <1>0, <1>2, <2>1, GuardRestoreThen DEF Unguarded
<1>3. CASE RestoreThen(db, FALSE)
  BY <1>0, <1>3, GuardRestoreThen DEF Unguarded
<1> QED BY <1>1, <1>2, <1>3 DEF Activate

\* The aggregate row is written when every cluster is guarded.
LEMMA GuardAggregate ==
  ASSUME TypeOK, GuardInv, WiringStep, GuardsActive
  PROVE  GuardInv'
<1>0. /\ db \in Database /\ db.plan = "executing" /\ UNCHANGED alloc
      /\ run.active = Guarded
      /\ \A x \in Guarded : alloc[x] = "primaries"
      /\ ~db.reopened => Unguarded(db)
  BY DEF WiringStep, GuardsActive, TypeOK, GuardInv, RunGuards, FreshGuards
<1>1. Goto(Journal(db, "guards-active"), "stage")
  BY DEF GuardsActive
<1>2. /\ db'.plan = db.plan /\ db'.reopened = db.reopened
      /\ db'.keys = db.keys \cup {"guards-active"}
      /\ run'.pc = "stage" /\ run'.active = run.active
  BY <1>0, <1>1, JournalPlan DEF Goto, TypeOK
<1>3. Committed'
  BY <1>1, <1>2, GuardGoes DEF Goto
<1>4. RunGuards' /\ FreshGuards' /\ DurableGuards'
  BY <1>0, <1>2 DEF WiringStep, RunGuards, FreshGuards, DurableGuards, Unguarded
<1> QED BY <1>3, <1>4 DEF GuardInv

\* Staging and the reboot predicates keep the guards or turn to their
\* restoration.
LEMMA GuardStage ==
  ASSUME TypeOK, GuardInv, WiringStep, Stage
  PROVE  GuardInv'
<1>0. /\ db \in Database /\ db.plan = "executing" /\ UNCHANGED alloc
      /\ ~db.reopened =>
           /\ run.active = Guarded /\ "restored" \notin db.keys
           /\ \A x \in Guarded : alloc[x] = "primaries"
  BY DEF WiringStep, Stage, TypeOK, GuardInv, RunGuards, FreshGuards
<1>1. \A key \in {"staged", "stage-refused"} :
        /\ Journal(db, key) \in Database
        /\ Journal(db, key).plan = db.plan /\ Journal(db, key).reopened = db.reopened
        /\ Journal(db, key).keys = db.keys \cup {key}
  BY <1>0, JournalType, JournalPlan DEF Keys
<1>2. CASE Goto(Journal(db, "staged"), "evaluate")
  <2>1. /\ db'.plan = db.plan /\ db'.reopened = db.reopened
        /\ db'.keys = db.keys \cup {"staged"}
        /\ run'.pc = "evaluate" /\ run'.active = run.active
    BY <1>1, <1>2 DEF Goto, TypeOK
  <2>2. Committed'
    BY <1>2, <2>1, GuardGoes DEF Goto
  <2>3. RunGuards' /\ FreshGuards' /\ DurableGuards'
    BY <1>0, <2>1 DEF WiringStep, RunGuards, FreshGuards, DurableGuards
  <2> QED BY <2>2, <2>3 DEF GuardInv
<1>3. CASE RestoreThen(Journal(db, "stage-refused"), FALSE)
  BY <1>0, <1>1, <1>3, GuardRestoreThen
<1>4. CASE RestoreThen(db, FALSE)
  BY <1>0, <1>4, GuardRestoreThen
<1>5. CASE Goto(db, "evaluate")
  <2>1. db' = db /\ run'.pc = "evaluate" /\ run'.active = run.active
    BY <1>5 DEF Goto, TypeOK
  <2>2. Committed'
    BY <1>5, <2>1, GuardGoes DEF Goto
  <2>3. RunGuards' /\ FreshGuards' /\ DurableGuards'
    BY <1>0, <2>1 DEF WiringStep, RunGuards, FreshGuards, DurableGuards
  <2> QED BY <2>2, <2>3 DEF GuardInv
<1> QED BY <1>2, <1>3, <1>4, <1>5 DEF Stage

\* The evaluation before the reboot finds the guards in place.
LEMMA GuardEvaluate ==
  ASSUME TypeOK, GuardInv, WiringStep, EvaluateReboot
  PROVE  GuardInv'
<1> DEFINE d == [db EXCEPT !.evaluations = @ + 1]
<1>0. /\ db \in Database /\ db.plan = "executing" /\ UNCHANGED alloc
      /\ ~db.reopened =>
           /\ run.active = Guarded /\ "restored" \notin db.keys
           /\ \A x \in Guarded : alloc[x] = "primaries"
  BY DEF WiringStep, EvaluateReboot, TypeOK, GuardInv, RunGuards, FreshGuards
<1>1. /\ d.plan = "executing" /\ d.keys = db.keys /\ d.reopened = db.reopened
      /\ db.evaluations < MaxAttempts => d \in Database
  BY <1>0, BoundsAssumption DEF Database
<1>2. \/ db.evaluations < MaxAttempts /\ Goto(Journal(d, "intent"), "invoke")
      \/ db.evaluations < MaxAttempts /\ RestoreThen(d, TRUE)
      \/ RestoreThen(db, FALSE)
  BY DEF EvaluateReboot, Blocked
<1> HIDE DEF d
<1>3. CASE db.evaluations < MaxAttempts /\ Goto(Journal(d, "intent"), "invoke")
  <2>1. /\ db'.plan = db.plan /\ db'.reopened = db.reopened
        /\ run'.pc = "invoke" /\ run'.active = run.active
    BY <1>0, <1>1, <1>3, JournalPlan DEF Goto, TypeOK
  <2>2. Committed'
    BY <1>3, <2>1, GuardGoes DEF Goto
  <2>3. RunGuards' /\ FreshGuards' /\ DurableGuards'
    BY <1>0, <2>1 DEF WiringStep, RunGuards, FreshGuards, DurableGuards
  <2> QED BY <2>2, <2>3 DEF GuardInv
<1>4. CASE db.evaluations < MaxAttempts /\ RestoreThen(d, TRUE)
  <2>1. durable /\ ~d.reopened => \A x \in Clusters \ run.active : alloc'[x] = "all"
    BY <1>0, <1>1 DEF WiringStep
  <2> QED BY <1>0, <1>1, <1>4, <2>1, GuardRestoreThen
<1>5. CASE RestoreThen(db, FALSE)
  BY <1>0, <1>5, GuardRestoreThen
<1> QED BY <1>2, <1>3, <1>4, <1>5

\* After the intent the run ends in a return or in recovery.
LEMMA GuardAfterIntent ==
  ASSUME TypeOK, GuardInv, WiringStep, Invoke \/ Disconnect \/ Reconnect \/ Verify
  PROVE  GuardInv'
<1>0. db \in Database /\ db.plan = "executing" /\ UNCHANGED alloc
  BY DEF WiringStep, Invoke, Disconnect, Reconnect, Verify, TypeOK, GuardInv, RunGuards
<1>1. \A key \in Keys :
        /\ Journal(db, key) \in Database
        /\ Journal(db, key).plan = "executing" /\ Journal(db, key).reopened = db.reopened
        /\ Journal(db, key).keys = db.keys \cup {key}
  BY <1>0, JournalType, JournalPlan
<1>2. ASSUME NEW d, d.plan = "executing", NEW pc \in {"disconnect", "reconnect", "verify"},
             Goto(d, pc)
      PROVE  GuardInv'
  <2>1. db' = d /\ run'.pc = pc
    BY <1>2 DEF Goto, TypeOK
  <2>2. Committed'
    BY <1>2, <2>1, GuardGoes DEF Goto
  <2>3. RunGuards' /\ FreshGuards' /\ DurableGuards'
    BY <1>2, <2>1 DEF WiringStep, RunGuards, FreshGuards, DurableGuards
  <2> QED BY <2>2, <2>3 DEF GuardInv
<1>3. ASSUME NEW d \in Database, d.plan = "executing", End(MarkRecovery(d))
      PROVE  GuardInv'
  <2>1. MarkRecovery(d) \in Database /\ MarkRecovery(d).plan = "recovery_required"
    BY <1>3, MarkType, MarkPlan
  <2> QED BY <1>3, <2>1, GuardEnd
<1>4. CASE Invoke
  <2>1. Goto(Journal(db, "acknowledged"), "disconnect") \/ End(MarkRecovery(db))
    BY <1>4 DEF Invoke
  <2> QED BY <1>0, <1>1, <1>2, <1>3, <2>1 DEF Keys
<1>5. CASE Disconnect
  <2>1. \/ Goto(Journal(db, "disconnected"), "reconnect")
        \/ End(MarkRecovery(Journal(db, "disconnected"))) \/ End(MarkRecovery(db))
    BY <1>5 DEF Disconnect
  <2> QED BY <1>0, <1>1, <1>2, <1>3, <2>1 DEF Keys
<1>6. CASE Reconnect
  <2>1. CASE End(MarkRecovery(db))
    BY <1>0, <1>3, <2>1
  <2>2. ASSUME NEW id, Goto([Journal(db, "reconnected") EXCEPT !.seen = id], "verify")
        PROVE  GuardInv'
    <3>1. [Journal(db, "reconnected") EXCEPT !.seen = id].plan = "executing"
      BY <1>1 DEF Keys, Database
    <3> QED BY <1>2, <2>2, <3>1
  <2> QED BY <1>6, <2>1, <2>2 DEF Reconnect
<1>7. CASE Verify
  <2>1. CASE End(MarkRecovery(db))
    BY <1>0, <1>3, <2>1
  <2>2. CASE db' = Journal(db, "discovered") /\ disk' = db' /\ run' = Idle
    <3>1. /\ run'.pc = "idle" /\ run'.active = {} /\ disk' = db'
          /\ db'.plan = "executing" /\ "discovered" \in db'.keys
      BY <1>1, <2>2 DEF Keys, Idle
    <3>2. Committed'
      BY <3>1 DEF WiringStep, Committed
    <3> QED BY <3>1, <3>2 DEF WiringStep, GuardInv, RunGuards, FreshGuards, DurableGuards
  <2> QED BY <1>7, <2>1, <2>2 DEF Verify
<1> QED BY <1>4, <1>5, <1>6, <1>7

\* Restoring one guard keeps GuardInv: one that could not be verified rules out
\* the result failed.
LEMMA GuardRestore ==
  ASSUME TypeOK, GuardInv, WiringStep, NEW c \in Clusters, Restore(c)
  PROVE  GuardInv'
<1>1. /\ run.pc = "restore" /\ run'.pc = "restore" /\ run'.blocked = run.blocked
      /\ run'.todo = run.todo \ {c}
      /\ UNCHANGED <<db, disk>>
  BY DEF Restore, TypeOK
<1>2. /\ run'.verified => run.verified /\ alloc'[c] = "all"
      /\ \A x \in Clusters \ {c} : alloc'[x] = alloc[x]
  BY DEF Restore, TypeOK
<1>3. Committed'
  BY <1>1 DEF WiringStep, GuardInv, Committed
<1>4. RunGuards' /\ FreshGuards'
  BY <1>1 DEF WiringStep, GuardInv, RunGuards, FreshGuards
<1>5. DurableGuards'
  BY <1>1, <1>2 DEF WiringStep, GuardInv, DurableGuards, RunGuards, FreshGuards
<1> QED BY <1>3, <1>4, <1>5 DEF GuardInv

\* The end of the restoration: failed only when every guard is verified gone.
LEMMA GuardRestored ==
  ASSUME TypeOK, GuardInv, WiringStep, Restored
  PROVE  GuardInv'
<1> DEFINE d == Journal(db, "restored")
<1>0. /\ db \in Database /\ db.plan = "executing" /\ UNCHANGED alloc
      /\ run.pc = "restore" /\ run.todo = {}
      /\ ~db.reopened => "restored" \notin db.keys
      /\ durable /\ ~db.reopened /\ run.verified /\ run.blocked => AllReleased
  BY DEF WiringStep, Restored, TypeOK, GuardInv, RunGuards, FreshGuards, DurableGuards, AllReleased
<1>1. d \in Database /\ d.plan = "executing" /\ d.reopened = db.reopened
  BY <1>0, JournalType, JournalPlan DEF Keys
<1>2. CASE "restored" \in db.keys
  <2>1. End(db) /\ db.reopened
    BY <1>0, <1>2 DEF Restored
  <2> QED BY <1>0, <2>1, GuardEnd
<1>3. CASE "restored" \notin db.keys
  <2>1. \/ run.verified /\ run.blocked /\ End(MarkFailed(d))
        \/ End(MarkRecovery(d))
    BY <1>3 DEF Restored
  <2> HIDE DEF d
  <2>2. /\ MarkFailed(d) \in Database /\ MarkFailed(d).plan = "failed"
        /\ MarkFailed(d).reopened = db.reopened
        /\ MarkRecovery(d) \in Database /\ MarkRecovery(d).plan = "recovery_required"
    BY <1>1, MarkType, MarkPlan
  <2>3. CASE run.verified /\ run.blocked /\ End(MarkFailed(d))
    <3>1. durable /\ ~db.reopened => AllReleased'
      BY <1>0, <2>3 DEF AllReleased
    <3> QED BY <2>2, <2>3, <3>1, GuardEnd
  <2>4. CASE End(MarkRecovery(d))
    BY <2>2, <2>4, GuardEnd
  <2> QED BY <2>1, <2>3, <2>4
<1> QED BY <1>2, <1>3

\* Crashes, reopened plans and the host itself.
LEMMA GuardOutside ==
  ASSUME TypeOK, GuardInv, WiringStep, Crash \/ Reopen \/ HostBoots \/ UNCHANGED vars
  PROVE  GuardInv'
<1>1. CASE Crash
  <2>0. /\ run'.pc = "idle" /\ run'.active = {} /\ db' = MarkRecovery(disk) /\ disk' = db'
        /\ UNCHANGED alloc
    BY <1>1 DEF Crash, Idle
  <2>1. /\ db'.keys = disk.keys /\ db'.reopened = disk.reopened
        /\ disk.plan \in {"executing", "paused"} => db'.plan = "recovery_required"
        /\ disk.plan \notin {"executing", "paused"} => db'.plan = disk.plan
    BY <2>0 DEF MarkRecovery, TypeOK, Database
  <2>2. Committed'
    BY <2>0, <2>1 DEF WiringStep, GuardInv, Committed
  <2>3. RunGuards' /\ FreshGuards'
    BY <2>0 DEF WiringStep, RunGuards, FreshGuards
  <2>4. DurableGuards'
    <3> SUFFICES ASSUME durable, ~db'.reopened
                 PROVE  /\ db'.plan \in {"ready", "executing", "paused"} =>
                             "discovered" \in db'.keys \/ (Unguarded(db)' /\ AllReleased')
                        /\ db'.plan \in {"failed", "cancelled"} => AllReleased'
      BY <2>0 DEF WiringStep, DurableGuards
    <3>1. disk = db
      BY DEF WiringStep, GuardInv, Committed
    <3>2. db'.plan = "ready" => run.pc = "idle"
      BY <2>1, <3>1 DEF WiringStep, GuardInv, RunGuards
    <3>3. AllReleased' <=> AllReleased
      BY <2>0 DEF AllReleased
    <3>4. Unguarded(db)' <=> Unguarded(db)
      BY <2>1, <3>1 DEF Unguarded
    <3>5. db'.plan \notin {"executing", "paused"}
      BY <2>1
    <3> QED BY <2>1, <3>1, <3>2, <3>3, <3>4, <3>5 DEF WiringStep, GuardInv, DurableGuards
  <2> QED BY <2>2, <2>3, <2>4 DEF GuardInv
<1>2. CASE Reopen
  <2>1. /\ run.pc = "idle" /\ UNCHANGED run /\ disk' = db'
        /\ db'.plan = "executing" /\ db'.reopened /\ db'.keys = db.keys
    BY <1>2 DEF Reopen, TypeOK, Database
  <2>2. Committed'
    BY <2>1 DEF WiringStep, GuardInv, Committed
  <2> QED BY <2>1, <2>2 DEF WiringStep, GuardInv, RunGuards, FreshGuards, DurableGuards
<1>3. CASE UNCHANGED <<db, disk, run, alloc>>
  BY <1>3 DEF WiringStep, GuardInv, Committed, RunGuards, FreshGuards, DurableGuards, Unguarded, AllReleased
<1> QED BY <1>1, <1>2, <1>3 DEF HostBoots, vars

\* Every step keeps GuardInv.
LEMMA GuardStep == TypeOK /\ GuardInv /\ [Next]_vars => GuardInv'
<1> SUFFICES ASSUME TypeOK, GuardInv, [Next]_vars PROVE GuardInv'
  OBVIOUS
<1>1. WiringStep
  BY CallerKept DEF WiringStep, Guarded
<1> QED BY <1>1, GuardBegin, GuardCapture, GuardControl, GuardPrepare, GuardActivate,
           GuardAggregate, GuardStage, GuardEvaluate, GuardAfterIntent, GuardRestore,
           GuardRestored, GuardOutside DEF Next

\* The guards are active whenever the host is told to reboot and gone when the
\* plan ended without a reboot, for a plan that was not reopened, under either
\* wiring and for any clusters.
THEOREM GuardsFollowReboot == Spec => []GuardsKept
<1>1. Init => GuardInv
  BY DEF WiringStep, Init, GuardInv, Committed, RunGuards, FreshGuards, DurableGuards, Unguarded,
         AllReleased, Idle
<1>2. TypeOK /\ GuardInv => GuardsKept
  <2> SUFFICES ASSUME TypeOK, GuardInv PROVE GuardsReleased /\ GuardedInvocation
    BY DEF WiringStep, GuardsKept
  <2>1. ASSUME db.plan \in {"failed", "cancelled"}, ~db.reopened
        PROVE  \A c \in Clusters : alloc[c] = "all"
    <3>1. durable
      BY <2>1 DEF WiringStep, GuardInv, Committed, RunGuards
    <3> QED BY <2>1, <3>1 DEF WiringStep, GuardInv, DurableGuards, AllReleased
  <2> QED BY <2>1 DEF GuardsReleased, GuardedInvocation, GuardInv, FreshGuards
<1> QED BY <1>1, <1>2, GuardStep, TypeCorrect, PTL DEF Spec
=============================================================================
