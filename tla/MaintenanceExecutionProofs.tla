--------------------- MODULE MaintenanceExecutionProofs ---------------------
(***************************************************************************)
(* Proofs for MaintenanceExecution, for any number of plans, hosts,        *)
(* scopes, concurrent requests and any lifetimes.  Three layers: the lock  *)
(* table (IInv: every step leaves the rows well formed, and what it does   *)
(* to the rows of a plan agrees with what it does to the plan), the        *)
(* records (RecordsInv: plan, run and host row agree), and the             *)
(* refinement of MaintenanceWindows, one abstract step per action.         *)
(***************************************************************************)
EXTENDS MaintenanceExecution, TLAPS

LockRow == [owner : Plans \cup {NoPlan}, token : Tokens \cup {NoToken}, expires : Nat]

\* A well formed lock table: rows without an owner are Free, owned rows carry
\* a token, and the token identifies the owner.
RowsOK(rows) ==
  /\ rows \in [Scopes -> LockRow]
  /\ \A s \in Scopes : rows[s].owner = NoPlan => rows[s] = Free
  /\ \A s \in Scopes : rows[s].owner # NoPlan => rows[s].token \in Tokens
  /\ \A s, u \in Scopes : rows[s].owner # NoPlan =>
       (rows[s].token = rows[u].token <=> rows[s].owner = rows[u].owner)

\* A request in flight is one for an existing plan, and unless it cancels, the
\* plan was in flight when it was prepared and cannot be ready or blocked now.
TicketsOK ==
  \A t \in Tickets : ticket[t] # Idle =>
    /\ ticket[t].plan \in Plans
    /\ ticket[t].action \in AllActions
    /\ plan[ticket[t].plan] # "absent"
    /\ ticket[t].action # "cancel" =>
         plan[ticket[t].plan] \in InFlightStates \cup TerminalPlanStates

HostsOK == \A h \in Hosts : host[h].state # "available" => host[h].plan \in Plans

\* The inductive invariant.
IInv ==
  /\ TypeOK
  /\ RowsOK(lock)
  /\ InFlightHoldsLocks
  /\ LocksBelongToInFlight
  /\ TicketsOK
  /\ HostsOK

-----------------------------------------------------------------------------
\* The lock manager on an arbitrary table.

\* A row of a well formed table is a lock row (typing of acquire_locks' rows).
LEMMA RowFields ==
  ASSUME NEW rows, RowsOK(rows), NEW s \in Scopes
  PROVE  /\ rows[s] \in LockRow
         /\ rows[s].owner \in Plans \cup {NoPlan}
         /\ rows[s].token \in Tokens \cup {NoToken}
         /\ rows[s].expires \in Nat
BY DEF RowsOK, LockRow

\* acquire_locks under a token that exactly the plan's own rows carry keeps
\* the table well formed, gives the plan every requested scope and leaves every
\* row that had an owner.
LEMMA AcquireOK ==
  ASSUME NEW rows, RowsOK(rows), NEW p \in Plans, NEW tok \in Tokens,
         NEW scopes \in SUBSET Scopes, NEW ttl \in Nat, now \in Nat,
         \A s \in Scopes : rows[s].token = tok <=> rows[s].owner = p,
         CanAcquire(rows, p, scopes, tok)
  PROVE  /\ RowsOK(Acquired(rows, p, scopes, tok, ttl))
         /\ \A s \in scopes : Acquired(rows, p, scopes, tok, ttl)[s].owner = p
         /\ \A s \in Scopes : rows[s].owner # NoPlan =>
              Acquired(rows, p, scopes, tok, ttl)[s] = rows[s]
         /\ \A s \in Scopes : Acquired(rows, p, scopes, tok, ttl)[s].owner
                                \in {p, rows[s].owner}
<1> DEFINE acq == Acquired(rows, p, scopes, tok, ttl)
           new == [owner |-> p, token |-> tok, expires |-> now + ttl]
<1>0. p # NoPlan /\ tok # NoToken
  BY PlanAssumption
<1>1. now + ttl \in Nat
  OBVIOUS
<1>2. new \in LockRow
  BY <1>1 DEF LockRow
<1>3. \A s \in Scopes : acq[s] = IF s \in scopes /\ rows[s].owner = NoPlan
                                 THEN new ELSE rows[s]
  BY DEF Acquired
<1>4. acq \in [Scopes -> LockRow]
  BY <1>2, RowFields DEF Acquired
<1>5. \A s \in Scopes : rows[s].owner # NoPlan => acq[s] = rows[s]
  BY <1>3
<1>6. \A s \in scopes : acq[s].owner = p
  BY <1>3 DEF CanAcquire
<1>7. \A s \in Scopes : acq[s].token = tok <=> acq[s].owner = p
  BY <1>3
<1>8. \A s \in Scopes : acq[s].owner = NoPlan => acq[s] = Free
  BY <1>3, <1>0 DEF RowsOK
<1>9. \A s \in Scopes : acq[s].owner # NoPlan => acq[s].token \in Tokens
  BY <1>3 DEF RowsOK
<1>10. ASSUME NEW s \in Scopes, NEW u \in Scopes, acq[s].owner # NoPlan
       PROVE  acq[s].token = acq[u].token <=> acq[s].owner = acq[u].owner
  <2>1. CASE acq[s].owner = p \/ acq[u].owner = p
    BY <2>1, <1>7
  <2>2. CASE acq[s].owner # p /\ acq[u].owner # p
    <3>1. acq[s] = rows[s] /\ acq[u] = rows[u]
      BY <2>2, <1>3
    <3> QED BY <3>1, <1>10 DEF RowsOK
  <2> QED BY <2>1, <2>2
<1>11. RowsOK(acq)
  BY <1>4, <1>8, <1>9, <1>10 DEF RowsOK
<1>12. \A s \in Scopes : acq[s].owner \in {p, rows[s].owner}
  BY <1>3
<1> QED BY <1>5, <1>6, <1>11, <1>12

\* release_locks by the token of a row of plan p frees exactly the rows of p.
LEMMA ReleaseOK ==
  ASSUME NEW rows, RowsOK(rows), NEW p \in Plans,
         NEW s0 \in Scopes, rows[s0].owner = p
  PROVE  /\ RowsOK(Released(rows, rows[s0].token))
         /\ \A s \in Scopes : Released(rows, rows[s0].token)[s] =
              IF rows[s].owner = p THEN Free ELSE rows[s]
<1> DEFINE rel == Released(rows, rows[s0].token)
<1>0. p # NoPlan
  BY PlanAssumption
<1>1. \A s \in Scopes : rows[s].token = rows[s0].token <=> rows[s].owner = p
  BY <1>0 DEF RowsOK
<1>2. \A s \in Scopes : rel[s] = IF rows[s].owner = p THEN Free ELSE rows[s]
  BY <1>1 DEF Released
<1>3. Free \in LockRow /\ Free.owner = NoPlan
  BY DEF Free, LockRow
<1>4. rel \in [Scopes -> LockRow]
  BY <1>3, RowFields DEF Released
<1>5. RowsOK(rel)
  <2>1. \A s \in Scopes : rel[s].owner # NoPlan => rel[s] = rows[s] /\ rows[s].owner # p
    BY <1>2, <1>3
  <2>2. \A s \in Scopes : rel[s].owner = NoPlan => rel[s] = Free
    BY <1>2 DEF RowsOK
  <2>3. \A s \in Scopes : rel[s].owner # NoPlan => rel[s].token \in Tokens
    BY <2>1 DEF RowsOK
  <2>4. ASSUME NEW s \in Scopes, NEW u \in Scopes, rel[s].owner # NoPlan
        PROVE  rel[s].token = rel[u].token <=> rel[s].owner = rel[u].owner
    <3>1. CASE rel[u].owner # NoPlan
      BY <3>1, <2>1, <2>4 DEF RowsOK
    <3>2. CASE rel[u].owner = NoPlan
      BY <3>2, <2>2, <2>3, <2>4, PlanAssumption DEF Free
    <3> QED BY <3>1, <3>2
  <2> QED BY <1>4, <2>2, <2>3, <2>4 DEF RowsOK
<1> QED BY <1>2, <1>5

\* The stale rows of p that recover_stale_lock releases: what is left is well
\* formed and differs from the table only in rows of p.
LEMMA StaleReleasedOK ==
  ASSUME RowsOK(lock), NEW p \in Plans
  PROVE  /\ RowsOK(StaleReleased(p))
         /\ \A s \in Scopes : StaleReleased(p)[s] = IF s \in Stale(p) THEN Free ELSE lock[s]
         /\ \A s \in Scopes : lock[s].owner # p => StaleReleased(p)[s] = lock[s]
<1> DEFINE rel == StaleReleased(p)
<1>1. \A s \in Scopes : rel[s] = IF s \in Stale(p) THEN Free ELSE lock[s]
  BY DEF StaleReleased
<1>2. Free \in LockRow /\ Free.owner = NoPlan
  BY DEF Free, LockRow
<1>3. rel \in [Scopes -> LockRow]
  BY <1>2, RowFields DEF StaleReleased
<1>4. \A s \in Scopes : rel[s].owner # NoPlan => rel[s] = lock[s]
  BY <1>1, <1>2
<1>5. \A s \in Scopes : rel[s].owner = NoPlan => rel[s] = Free
  BY <1>1 DEF RowsOK
<1>6. \A s \in Scopes : rel[s].owner # NoPlan => rel[s].token \in Tokens
  BY <1>4 DEF RowsOK
<1>7. ASSUME NEW s \in Scopes, NEW u \in Scopes, rel[s].owner # NoPlan
      PROVE  rel[s].token = rel[u].token <=> rel[s].owner = rel[u].owner
  <2>1. CASE rel[u].owner # NoPlan
    BY <2>1, <1>4, <1>7 DEF RowsOK
  <2>2. CASE rel[u].owner = NoPlan
    BY <2>2, <1>5, <1>6, <1>7, PlanAssumption DEF Free
  <2> QED BY <2>1, <2>2
<1>8. \A s \in Scopes : lock[s].owner # p => rel[s] = lock[s]
  BY <1>1 DEF Stale, Held
<1> QED BY <1>1, <1>3, <1>5, <1>6, <1>7, <1>8 DEF RowsOK

\* The token prepare passes to acquire_locks is carried by exactly the rows of
\* the plan.
LEMMA OwnerTokenOK ==
  ASSUME RowsOK(lock), NEW p \in Plans, NEW tok \in Tokens,
         OwnerToken(tok, Held(p))
  PROVE  \A s \in Scopes : lock[s].token = tok <=> lock[s].owner = p
<1>0. p # NoPlan
  BY PlanAssumption
<1>1. CASE Held(p) = {}
  <2>1. \A s \in Scopes : lock[s].token # tok
    BY <1>1 DEF OwnerToken, FreshToken
  <2>2. \A s \in Scopes : lock[s].owner # p
    BY <1>1 DEF Held
  <2> QED BY <2>1, <2>2
<1>2. CASE Held(p) # {}
  <2>1. PICK s0 \in Held(p) : tok = lock[s0].token
    BY <1>2 DEF OwnerToken
  <2>2. s0 \in Scopes /\ lock[s0].owner = p
    BY DEF Held
  <2> QED BY <2>1, <2>2, <1>0 DEF RowsOK
<1> QED BY <1>1, <1>2

\* The same for the token _recover_stale_locks passes, over the table without
\* the stale rows.
LEMMA RecoveryTokenOK ==
  ASSUME RowsOK(lock), NEW p \in Plans, NEW tok \in Tokens,
         OwnerToken(tok, Held(p) \ Stale(p))
  PROVE  \A s \in Scopes : StaleReleased(p)[s].token = tok <=> StaleReleased(p)[s].owner = p
<1> DEFINE rel == StaleReleased(p)
<1>0. p # NoPlan /\ tok # NoToken
  BY PlanAssumption
<1>1. \A s \in Scopes : rel[s] = IF s \in Stale(p) THEN Free ELSE lock[s]
  BY StaleReleasedOK
<1>2. Free.owner = NoPlan /\ Free.token = NoToken
  BY DEF Free
<1>3. CASE Held(p) \ Stale(p) = {}
  <2>1. \A s \in Scopes : lock[s].token # tok
    BY <1>3 DEF OwnerToken, FreshToken
  <2>2. \A s \in Scopes : lock[s].owner = p => s \in Stale(p)
    BY <1>3 DEF Held
  <2> QED BY <2>1, <2>2, <1>0, <1>1, <1>2
<1>4. CASE Held(p) \ Stale(p) # {}
  <2>1. PICK s0 \in Held(p) \ Stale(p) : tok = lock[s0].token
    BY <1>4 DEF OwnerToken
  <2>2. s0 \in Scopes /\ lock[s0].owner = p
    BY DEF Held
  <2>3. \A s \in Scopes : lock[s].token = tok <=> lock[s].owner = p
    BY <2>1, <2>2, <1>0 DEF RowsOK
  <2> QED BY <2>3, <1>0, <1>1, <1>2
<1> QED BY <1>3, <1>4

-----------------------------------------------------------------------------
\* What finalize does to the lock table.

\* The rows a step may touch: rows of p before and after, and free rows.
OnlyRowsOf(p) ==
  \A s \in Scopes :
    \/ lock'[s] = lock[s]
    \/ lock[s].owner \in {p, NoPlan} /\ lock'[s].owner \in {p, NoPlan}

\* _release_active_locks: a terminal target leaves no row of the plan, any other
\* target leaves the table.
LEMMA FinalLocksOK ==
  ASSUME NEW rows, RowsOK(rows), NEW p \in Plans, NEW to, FinalLocks(rows, p, to)
  PROVE  /\ RowsOK(lock')
         /\ to \notin TerminalPlanStates => lock' = rows
         /\ to \in TerminalPlanStates => \A s \in Scopes : lock'[s].owner # p
         /\ \A s \in Scopes : \/ lock'[s] = rows[s]
                              \/ rows[s].owner = p /\ lock'[s].owner = NoPlan
<1> DEFINE own == {s \in Scopes : rows[s].owner = p}
<1>0. p # NoPlan /\ Free.owner = NoPlan
  BY PlanAssumption DEF Free
<1>1. CASE to \in TerminalPlanStates /\ own # {}
  <2>1. PICK s0 \in own : lock' = Released(rows, rows[s0].token)
    BY <1>1 DEF FinalLocks
  <2>2. s0 \in Scopes /\ rows[s0].owner = p
    OBVIOUS
  <2>3. RowsOK(lock') /\ \A s \in Scopes : lock'[s] = IF rows[s].owner = p THEN Free ELSE rows[s]
    BY <2>1, <2>2, ReleaseOK
  <2> QED BY <2>3, <1>0, <1>1
<1>2. CASE ~(to \in TerminalPlanStates /\ own # {})
  <2>1. lock' = rows
    BY <1>2 DEF FinalLocks
  <2> QED BY <2>1, <1>2
<1> QED BY <1>1, <1>2

\* finalize as a whole: with or without the recovery of stale rows, the table
\* stays well formed, only rows of the plan change, a terminal target leaves
\* none of them and any other target keeps the scopes the plan held.
LEMMA FinalizeLocksOK ==
  ASSUME TypeOK, RowsOK(lock), NEW p \in Plans, NEW a, NEW to, FinalizeLocks(p, a, to)
  PROVE  /\ RowsOK(lock')
         /\ OnlyRowsOf(p)
         /\ to \in TerminalPlanStates => \A s \in Scopes : lock'[s].owner # p
         /\ to \notin TerminalPlanStates =>
              \A s \in Requests[p] : lock[s].owner = p => lock'[s].owner = p
<1> DEFINE want == Requests[p] \cup {Recovery[p]}
<1>0. want \in SUBSET Scopes /\ Requests[p] \subseteq Scopes
  BY ScopeAssumption
<1>1. CASE a = "recover" /\ Stale(p) # {}
  <2>1. PICK tok \in Tokens :
          /\ OwnerToken(tok, Held(p) \ Stale(p))
          /\ CanAcquire(StaleReleased(p), p, want, tok)
          /\ FinalLocks(Recovered(p, tok), p, to)
    BY <1>1 DEF FinalizeLocks
  <2> DEFINE rel == StaleReleased(p)
             acq == Recovered(p, tok)
  <2>2. RowsOK(rel) /\ \A s \in Scopes : lock[s].owner # p => rel[s] = lock[s]
    BY StaleReleasedOK
  <2>3. \A s \in Scopes : rel[s].token = tok <=> rel[s].owner = p
    BY <2>1, RecoveryTokenOK
  <2>4. now \in Nat /\ LockTTL \in Nat
    BY TimeAssumption DEF TypeOK
  <2>5. /\ RowsOK(acq)
        /\ \A s \in want : acq[s].owner = p
        /\ \A s \in Scopes : rel[s].owner # NoPlan => acq[s] = rel[s]
        /\ \A s \in Scopes : acq[s].owner \in {p, rel[s].owner}
    BY <1>0, <2>1, <2>2, <2>3, <2>4, AcquireOK, ZenonT(60) DEF Recovered
  <2>6. /\ RowsOK(lock')
        /\ to \notin TerminalPlanStates => lock' = acq
        /\ to \in TerminalPlanStates => \A s \in Scopes : lock'[s].owner # p
        /\ \A s \in Scopes : lock'[s] = acq[s] \/ (acq[s].owner = p /\ lock'[s].owner = NoPlan)
    BY <2>1, <2>5, FinalLocksOK
  <2>7. ASSUME NEW s \in Scopes, lock[s].owner \notin {p, NoPlan}
        PROVE  lock'[s] = lock[s]
    BY <2>2, <2>5, <2>6, <2>7
  <2>8. ASSUME NEW s \in Scopes, lock[s].owner \in {p, NoPlan}
        PROVE  lock'[s].owner \in {p, NoPlan}
    <3>1. rel[s].owner \in {p, NoPlan}
      BY <2>8, StaleReleasedOK DEF Free
    <3> QED BY <3>1, <2>5, <2>6
  <2> QED BY <1>0, <2>5, <2>6, <2>7, <2>8 DEF OnlyRowsOf
<1>2. CASE ~(a = "recover" /\ Stale(p) # {})
  <2>1. FinalLocks(lock, p, to)
    BY <1>2 DEF FinalizeLocks
  <2>2. /\ RowsOK(lock')
        /\ to \notin TerminalPlanStates => lock' = lock
        /\ to \in TerminalPlanStates => \A s \in Scopes : lock'[s].owner # p
        /\ \A s \in Scopes : lock'[s] = lock[s] \/ (lock[s].owner = p /\ lock'[s].owner = NoPlan)
    BY <2>1, FinalLocksOK
  <2> QED BY <2>2 DEF OnlyRowsOf
<1> QED BY <1>1, <1>2

-----------------------------------------------------------------------------
\* Steps that change one plan.

\* A plan that was started stays in flight or terminal, one that exists stays.
Forward ==
  \A q \in Plans :
    /\ plan[q] # "absent" => plan'[q] # "absent"
    /\ plan[q] \in InFlightStates \cup TerminalPlanStates =>
         plan'[q] \in InFlightStates \cup TerminalPlanStates

\* Ownership is kept by a step that changes at most plan p and rows of p, when
\* p ends the step in flight with all its scopes, or without any row.
LEMMA OwnershipStep ==
  ASSUME TypeOK, InFlightHoldsLocks, LocksBelongToInFlight, NEW p \in Plans,
         OnlyRowsOf(p),
         \A q \in Plans \ {p} : plan'[q] = plan[q],
         plan'[p] \in InFlightStates => \A s \in Requests[p] : lock'[s].owner = p,
         plan'[p] \notin InFlightStates =>
           \A s \in Scopes : lock'[s].owner # p
                               \/ (p \in CompleteEvidence /\ plan'[p] = "succeeded"),
         RowsOK(lock')
  PROVE  InFlightHoldsLocks' /\ LocksBelongToInFlight'
<1>0. p # NoPlan
  BY PlanAssumption
<1>1. ASSUME NEW q \in Plans, plan'[q] \in InFlightStates, NEW s \in Requests[q]
      PROVE  lock'[s].owner = q
  <2>1. CASE q = p
    BY <2>1, <1>1
  <2>2. CASE q # p
    <3>1. s \in Scopes
      BY ScopeAssumption
    <3>2. lock[s].owner = q
      BY <2>2, <1>1 DEF InFlightHoldsLocks
    <3>3. q # NoPlan
      BY PlanAssumption
    <3> QED BY <2>2, <3>1, <3>2, <3>3 DEF OnlyRowsOf
  <2> QED BY <2>1, <2>2
<1>2. ASSUME NEW s \in Scopes, lock'[s].owner # NoPlan
      PROVE  \/ plan'[lock'[s].owner] \in InFlightStates
             \/ lock'[s].owner \in CompleteEvidence /\ plan'[lock'[s].owner] = "succeeded"
  <2>1. CASE lock'[s].owner = p
    BY <2>1
  <2>2. CASE lock'[s].owner # p
    <3>1. lock'[s] = lock[s]
      BY <2>2, <1>2 DEF OnlyRowsOf
    <3>2. lock'[s].owner \in Plans
      BY <1>2 DEF RowsOK, LockRow
    <3> QED BY <2>2, <3>1, <3>2, <1>2 DEF LocksBelongToInFlight
  <2> QED BY <2>1, <2>2
<1>3. InFlightHoldsLocks'
  BY <1>1 DEF InFlightHoldsLocks
<1>4. LocksBelongToInFlight'
  BY <1>2 DEF LocksBelongToInFlight
<1> QED BY <1>3, <1>4

\* Requests in flight stay consistent when plans move forward and no request
\* changes but those that end.
LEMMA TicketStep ==
  ASSUME TypeOK, TicketsOK, Forward,
         \A t \in Tickets : ticket'[t] \in {ticket[t], Idle}
  PROVE  TicketsOK'
<1> SUFFICES ASSUME NEW t \in Tickets, ticket'[t] # Idle
             PROVE  /\ ticket'[t].plan \in Plans
                    /\ ticket'[t].action \in AllActions
                    /\ plan'[ticket'[t].plan] # "absent"
                    /\ ticket'[t].action # "cancel" =>
                         plan'[ticket'[t].plan] \in InFlightStates \cup TerminalPlanStates
  BY DEF TicketsOK, Idle
<1>1. ticket'[t] = ticket[t]
  OBVIOUS
<1> QED BY <1>1 DEF TicketsOK, Forward

\* prepare: the acquired rows of an execute or recover request.
LEMMA PrepareLocksOK ==
  ASSUME TypeOK, RowsOK(lock), InFlightHoldsLocks, NEW p \in Plans,
         NEW a \in AllActions, PrepareLocks(p, a)
  PROVE  /\ RowsOK(lock')
         /\ OnlyRowsOf(p)
         /\ \A s \in Scopes : lock[s].owner = p => lock'[s].owner = p
         /\ a = "execute" => \A s \in Requests[p] : lock'[s].owner = p
         /\ a \notin {"execute", "recover"} => lock' = lock
<1> DEFINE want == Requests[p] \cup {Recovery[p]}
<1>0. /\ p # NoPlan
      /\ want \in SUBSET Scopes /\ Requests[p] \in SUBSET Scopes
      /\ now \in Nat /\ LockTTL \in Nat
  BY PlanAssumption, ScopeAssumption, TimeAssumption DEF TypeOK
<1>1. ASSUME NEW tok \in Tokens, NEW scopes \in SUBSET Scopes,
             OwnerToken(tok, Held(p)), CanAcquire(lock, p, scopes, tok),
             lock' = Acquired(lock, p, scopes, tok, LockTTL)
      PROVE  /\ RowsOK(lock')
             /\ OnlyRowsOf(p)
             /\ \A s \in Scopes : lock[s].owner = p => lock'[s].owner = p
             /\ \A s \in scopes : lock'[s].owner = p
  <2>1. \A s \in Scopes : lock[s].token = tok <=> lock[s].owner = p
    BY <1>1, OwnerTokenOK
  <2>2. /\ RowsOK(lock')
        /\ \A s \in scopes : lock'[s].owner = p
        /\ \A s \in Scopes : lock[s].owner # NoPlan => lock'[s] = lock[s]
        /\ \A s \in Scopes : lock'[s].owner \in {p, lock[s].owner}
    BY <1>0, <1>1, <2>1, AcquireOK
  <2> QED BY <2>2, <1>0 DEF OnlyRowsOf
<1>2. CASE a = "execute"
  <2>1. PICK tok \in Tokens : /\ OwnerToken(tok, Held(p))
                              /\ CanAcquire(lock, p, Requests[p], tok)
                              /\ lock' = Acquired(lock, p, Requests[p], tok, LockTTL)
    BY <1>2 DEF PrepareLocks
  <2> QED BY <1>0, <1>1, <1>2, <2>1
<1>3. CASE a = "recover" /\ Stale(p) = {}
  <2>1. PICK tok \in Tokens : /\ OwnerToken(tok, Held(p))
                              /\ CanAcquire(lock, p, want, tok)
                              /\ lock' = Acquired(lock, p, want, tok, LockTTL)
    BY <1>3 DEF PrepareLocks
  <2> QED BY <1>0, <1>1, <1>3, <2>1
<1>4. CASE a \notin {"execute", "recover"} \/ (a = "recover" /\ Stale(p) # {})
  <2>1. lock' = lock
    BY <1>4 DEF PrepareLocks
  <2> QED BY <2>1, <1>4 DEF OnlyRowsOf
<1> QED BY <1>2, <1>3, <1>4

-----------------------------------------------------------------------------
\* The inductive step, action by action.

\* prepare keeps the invariant.
LEMMA PrepareStep ==
  ASSUME IInv, NEW t \in Tickets, NEW p \in Plans, NEW a \in Actions, Prepare(t, p, a)
  PROVE  IInv'
<1> USE DEF IInv
<1>0. a \in AllActions
  BY PlanAssumption
<1>1. PrepareLocks(p, a) /\ plan[p] \in ActionStates(a)
  BY DEF Prepare
<1>2. /\ RowsOK(lock')
      /\ OnlyRowsOf(p)
      /\ \A s \in Scopes : lock[s].owner = p => lock'[s].owner = p
      /\ a = "execute" => \A s \in Requests[p] : lock'[s].owner = p
      /\ a \notin {"execute", "recover"} => lock' = lock
  BY <1>0, <1>1, PrepareLocksOK
<1>3. /\ plan' = [plan EXCEPT ![p] = IF a \in {"execute", "resume"} THEN "executing" ELSE @]
      /\ run' = [run EXCEPT ![p] = "running"]
      /\ ticket' = [ticket EXCEPT ![t] = [plan |-> p, action |-> a]]
      /\ UNCHANGED <<created, checkpoint, host, now>>
  BY DEF Prepare
<1>4. /\ plan'[p] = IF a \in {"execute", "resume"} THEN "executing" ELSE plan[p]
      /\ \A q \in Plans \ {p} : plan'[q] = plan[q]
  BY <1>3 DEF TypeOK
<1>5. TypeOK'
  BY <1>0, <1>2, <1>3 DEF TypeOK, RowsOK, LockRow, MaintenanceState, RunStatus
<1>6. a \notin {"execute", "cancel"} => plan[p] \in InFlightStates
  BY <1>0, <1>1 DEF ActionStates, AllActions, InFlightStates
<1>7. a # "execute" /\ plan'[p] \in InFlightStates => plan[p] \in InFlightStates
  BY <1>0, <1>4, <1>6 DEF AllActions
<1>8. plan[p] # "absent"
  BY <1>0, <1>1 DEF ActionStates, AllActions, InFlightStates
<1>9. InFlightHoldsLocks' /\ LocksBelongToInFlight'
  <2>1. plan'[p] \in InFlightStates => \A s \in Requests[p] : lock'[s].owner = p
    <3>1. CASE a = "execute"
      BY <3>1, <1>2
    <3>2. CASE a # "execute" /\ plan'[p] \in InFlightStates
      <4>1. \A s \in Requests[p] : lock[s].owner = p
        BY <3>2, <1>7 DEF InFlightHoldsLocks
      <4>2. Requests[p] \subseteq Scopes
        BY ScopeAssumption
      <4> QED BY <4>1, <4>2, <1>2
    <3> QED BY <3>1, <3>2
  <2>2. ASSUME plan'[p] \notin InFlightStates, NEW s \in Scopes, lock'[s].owner = p
        PROVE  p \in CompleteEvidence /\ plan'[p] = "succeeded"
    <3>1. a = "cancel" /\ plan'[p] = plan[p]
      BY <2>2, <1>0, <1>4, <1>6 DEF AllActions, InFlightStates
    <3>2. lock[s].owner = p /\ p # NoPlan
      BY <3>1, <1>2, <2>2, PlanAssumption
    <3> QED BY <3>1, <3>2, <2>2 DEF LocksBelongToInFlight
  <2> QED BY <1>2, <1>4, <2>1, <2>2, OwnershipStep
<1>10. TicketsOK'
  <2>1. Forward
    BY <1>4 DEF Forward, InFlightStates
  <2>2. ASSUME NEW u \in Tickets, ticket'[u] # Idle
        PROVE  /\ ticket'[u].plan \in Plans
               /\ ticket'[u].action \in AllActions
               /\ plan'[ticket'[u].plan] # "absent"
               /\ ticket'[u].action # "cancel" =>
                    plan'[ticket'[u].plan] \in InFlightStates \cup TerminalPlanStates
    <3>1. CASE u = t
      <4>1. ticket'[u] = [plan |-> p, action |-> a]
        BY <3>1, <1>3 DEF TypeOK
      <4>2. a # "cancel" => plan'[p] \in InFlightStates
        BY <1>4, <1>6 DEF InFlightStates
      <4> QED BY <4>1, <4>2, <1>0, <1>4, <1>8
    <3>2. CASE u # t
      <4>1. ticket'[u] = ticket[u]
        BY <3>2, <1>3 DEF TypeOK
      <4> QED BY <4>1, <2>1, <2>2 DEF TicketsOK, Forward
    <3> QED BY <3>1, <3>2
  <2> QED BY <2>2 DEF TicketsOK, Idle
<1>11. HostsOK'
  BY <1>3 DEF HostsOK
<1> QED BY <1>2, <1>5, <1>9, <1>10, <1>11

\* finalize keeps the invariant.
LEMMA FinalizeStep ==
  ASSUME IInv, NEW t \in Tickets, Finalize(t)
  PROVE  IInv'
<1> USE DEF IInv
<1> DEFINE p == ticket[t].plan
           a == ticket[t].action
<1>0. /\ p \in Plans /\ a \in AllActions
      /\ plan[p] # "absent"
      /\ a # "cancel" => plan[p] \in InFlightStates \cup TerminalPlanStates
  BY DEF Finalize, TicketsOK
<1>1. PICK res \in ResultStates(a) :
        /\ CanReach(plan[p], ResultState(p, res))
        /\ FinalizeLocks(p, a, ResultState(p, res))
        /\ plan' = [plan EXCEPT ![p] = ResultState(p, res)]
        /\ run' = [run EXCEPT ![p] = RunFor(ResultState(p, res))]
  BY DEF Finalize
<1>2. /\ ticket' = [ticket EXCEPT ![t] = Idle]
      /\ UNCHANGED <<created, checkpoint, host, now>>
  BY DEF Finalize
<1> DEFINE to == ResultState(p, res)
<1>3. /\ plan'[p] = to
      /\ \A q \in Plans \ {p} : plan'[q] = plan[q]
  BY <1>0, <1>1 DEF TypeOK
<1>4. /\ to \in MaintenanceState
      /\ to \in InFlightStates \cup TerminalPlanStates
  BY <1>0, <1>1 DEF ResultState, ResultStates, AllActions, MaintenanceState,
                    InFlightStates, TerminalPlanStates, TypeOK
<1>5. to \in InFlightStates => plan[p] \in InFlightStates
  <2>1. CASE a = "cancel"
    BY <2>1, <1>0, <1>1 DEF ResultState, ResultStates, CanReach, PlanTransitions,
                       InFlightStates
  <2>2. CASE a # "cancel"
    BY <2>2, <1>0, <1>1 DEF CanReach, PlanTransitions, InFlightStates, TerminalPlanStates
  <2> QED BY <2>1, <2>2
<1>6. /\ RowsOK(lock')
      /\ OnlyRowsOf(p)
      /\ to \in TerminalPlanStates => \A s \in Scopes : lock'[s].owner # p
      /\ to \notin TerminalPlanStates =>
           \A s \in Requests[p] : lock[s].owner = p => lock'[s].owner = p
  BY <1>0, <1>1, FinalizeLocksOK
<1>7. TypeOK'
  <2>1. RunFor(to) \in RunStatus
    BY <1>4 DEF RunFor, RunStatus, TerminalPlanStates
  <2> HIDE DEF to
  <2> QED BY <1>0, <1>1, <1>2, <1>4, <1>6, <2>1
          DEF TypeOK, RowsOK, LockRow, Idle, AllActions, to
<1>8. InFlightHoldsLocks' /\ LocksBelongToInFlight'
  <2>1. plan'[p] \in InFlightStates => \A s \in Requests[p] : lock'[s].owner = p
    <3>1. ASSUME to \in InFlightStates
          PROVE  \A s \in Requests[p] : lock'[s].owner = p
      <4>1. \A s \in Requests[p] : lock[s].owner = p
        BY <3>1, <1>0, <1>5 DEF InFlightHoldsLocks
      <4>2. to \notin TerminalPlanStates
        BY <3>1 DEF InFlightStates, TerminalPlanStates
      <4> QED BY <4>1, <4>2, <1>6
    <3> QED BY <3>1, <1>3
  <2>2. plan'[p] \notin InFlightStates => \A s \in Scopes : lock'[s].owner # p
    BY <1>3, <1>4, <1>6
  <2> QED BY <1>0, <1>3, <1>6, <2>1, <2>2, OwnershipStep
<1>9. TicketsOK'
  <2>1. Forward
    BY <1>3, <1>4 DEF Forward, InFlightStates, TerminalPlanStates
  <2>2. \A u \in Tickets : ticket'[u] \in {ticket[u], Idle}
    BY <1>2 DEF TypeOK
  <2> QED BY <2>1, <2>2, TicketStep
<1>10. HostsOK'
  BY <1>2 DEF HostsOK
<1> QED BY <1>6, <1>7, <1>8, <1>9, <1>10

\* fail keeps the invariant: it never touches the lock table.
LEMMA FailStep ==
  ASSUME IInv, NEW t \in Tickets, Fail(t)
  PROVE  IInv'
<1> USE DEF IInv
<1> DEFINE p == ticket[t].plan
<1>0. p \in Plans /\ plan[p] # "absent"
  BY DEF Fail, TicketsOK
<1>1. /\ plan' = [plan EXCEPT ![p] = FailState(@)]
      /\ run' = [run EXCEPT ![p] = "recovery_required"]
      /\ ticket' = [ticket EXCEPT ![t] = Idle]
      /\ UNCHANGED <<created, lock, checkpoint, host, now>>
  BY DEF Fail
<1>2. /\ plan'[p] = FailState(plan[p])
      /\ \A q \in Plans \ {p} : plan'[q] = plan[q]
  BY <1>0, <1>1 DEF TypeOK
<1>3. /\ FailState(plan[p]) \in MaintenanceState
      /\ plan[p] \in InFlightStates <=> FailState(plan[p]) \in InFlightStates
      /\ plan[p] \in TerminalPlanStates => FailState(plan[p]) = plan[p]
  BY <1>0 DEF FailState, TypeOK, MaintenanceState, InFlightStates, TerminalPlanStates
<1>4. TypeOK'
  BY <1>0, <1>1, <1>3 DEF TypeOK, RunStatus, Idle
<1>5. RowsOK(lock') /\ OnlyRowsOf(p)
  BY <1>1 DEF OnlyRowsOf
<1>6. InFlightHoldsLocks' /\ LocksBelongToInFlight'
  <2>1. plan'[p] \in InFlightStates => \A s \in Requests[p] : lock'[s].owner = p
    BY <1>0, <1>1, <1>2, <1>3 DEF InFlightHoldsLocks
  <2>2. ASSUME plan'[p] \notin InFlightStates, NEW s \in Scopes, lock'[s].owner = p
        PROVE  p \in CompleteEvidence /\ plan'[p] = "succeeded"
    <3>1. lock[s].owner = p /\ p # NoPlan /\ plan[p] \notin InFlightStates
      BY <2>2, <1>0, <1>1, <1>2, <1>3, PlanAssumption
    <3>2. p \in CompleteEvidence /\ plan[p] = "succeeded"
      BY <3>1, <2>2 DEF LocksBelongToInFlight
    <3> QED BY <3>2, <1>2, <1>3 DEF TerminalPlanStates
  <2> QED BY <1>0, <1>2, <1>5, <2>1, <2>2, OwnershipStep
<1>7. TicketsOK'
  <2>1. Forward
    BY <1>2, <1>3 DEF Forward, MaintenanceState
  <2>2. \A u \in Tickets : ticket'[u] \in {ticket[u], Idle}
    BY <1>1 DEF TypeOK
  <2> QED BY <2>1, <2>2, TicketStep
<1>8. HostsOK'
  BY <1>1 DEF HostsOK
<1> QED BY <1>4, <1>5, <1>6, <1>7, <1>8

\* create_plan keeps the invariant.
LEMMA CreateStep ==
  ASSUME IInv, NEW p \in Plans, CreatePlan(p)
  PROVE  IInv'
<1> USE DEF IInv
<1>1. PICK st \in {"ready", "blocked"} : plan' = [plan EXCEPT ![p] = st]
  BY DEF CreatePlan
<1>2. /\ plan[p] = "absent"
      /\ created' = [created EXCEPT ![p] = now]
      /\ UNCHANGED <<run, lock, checkpoint, ticket, host, now>>
  BY DEF CreatePlan
<1>3. plan'[p] = st /\ \A q \in Plans \ {p} : plan'[q] = plan[q]
  BY <1>1 DEF TypeOK
<1>4. TypeOK'
  BY <1>1, <1>2 DEF TypeOK, MaintenanceState
<1>5. RowsOK(lock') /\ OnlyRowsOf(p)
  BY <1>2 DEF OnlyRowsOf
<1>6. \A s \in Scopes : lock[s].owner # p
  BY <1>2, PlanAssumption DEF LocksBelongToInFlight, InFlightStates
<1>7. InFlightHoldsLocks' /\ LocksBelongToInFlight'
  <2>1. plan'[p] \notin InFlightStates
    BY <1>3 DEF InFlightStates
  <2> QED BY <1>2, <1>3, <1>5, <1>6, <2>1, OwnershipStep
<1>8. Forward
  BY <1>2, <1>3 DEF Forward, InFlightStates, TerminalPlanStates
<1>9. TicketsOK' /\ HostsOK'
  BY <1>2, <1>8, TicketStep DEF HostsOK
<1> QED BY <1>4, <1>5, <1>7, <1>9

\* reconcile_plan on any set of plans in flight keeps the invariant: plans stay
\* in flight and no lock row is touched.
LEMMA ReconcileStep ==
  ASSUME IInv, NEW P \in SUBSET Plans, \A p \in P : plan[p] \in InFlightStates,
         ReconcilePlans(P)
  PROVE  IInv'
<1> USE DEF IInv
<1>1. /\ \A q \in Plans : plan'[q] = IF q \in P THEN "recovery_required" ELSE plan[q]
      /\ \A h \in Hosts : host'[h].plan = host[h].plan
      /\ \A h \in Hosts : host'[h].state # "available" =>
           host[h].state # "available" \/ host[h].plan \in P
      /\ UNCHANGED <<created, lock, checkpoint, ticket, now>>
  BY DEF ReconcilePlans, TypeOK
<1>2. \A q \in Plans : plan'[q] \in InFlightStates <=> plan[q] \in InFlightStates
  BY <1>1 DEF InFlightStates
<1>3. TypeOK'
  BY <1>1 DEF ReconcilePlans, Interrupt, TypeOK, MaintenanceState, RunStatus,
              HostMaintenanceState
<1>4. InFlightHoldsLocks'
  BY <1>1, <1>2 DEF InFlightHoldsLocks
<1>5. LocksBelongToInFlight'
  <2> SUFFICES ASSUME NEW s \in Scopes, lock[s].owner # NoPlan
               PROVE  \/ plan'[lock[s].owner] \in InFlightStates
                      \/ lock[s].owner \in CompleteEvidence /\ plan'[lock[s].owner] = "succeeded"
    BY <1>1 DEF LocksBelongToInFlight
  <2>1. lock[s].owner \in Plans
    BY DEF TypeOK
  <2> QED BY <2>1, <1>1, <1>2 DEF LocksBelongToInFlight, InFlightStates
<1>6. Forward
  BY <1>1, <1>2 DEF Forward, InFlightStates, TerminalPlanStates
<1>7. TicketsOK' /\ HostsOK'
  BY <1>1, <1>6, TicketStep DEF HostsOK
<1> QED BY <1>1, <1>3, <1>4, <1>5, <1>7

\* Entering manual mode keeps the invariant.
LEMMA ManualEnterStep ==
  ASSUME IInv, NEW p \in Plans, ManualEnter(p)
  PROVE  IInv'
<1> USE DEF IInv
<1>0. /\ plan[p] = "absent" /\ p # NoPlan
      /\ now \in Nat /\ ManualTTL \in Nat
      /\ Requests[p] \in SUBSET Scopes
      /\ Target[p] \in Hosts
  BY PlanAssumption, ScopeAssumption, TimeAssumption DEF ManualEnter, TypeOK
<1>1. \A s \in Scopes : lock[s].owner # p
  BY <1>0 DEF LocksBelongToInFlight, InFlightStates
<1>2. PICK tok \in Tokens : /\ FreshToken(tok)
                            /\ CanAcquire(lock, p, Requests[p], tok)
                            /\ lock' = Acquired(lock, p, Requests[p], tok, ManualTTL)
  BY DEF ManualEnter
<1>3. \A s \in Scopes : lock[s].token = tok <=> lock[s].owner = p
  BY <1>1, <1>2 DEF FreshToken
<1>4. /\ RowsOK(lock')
      /\ \A s \in Requests[p] : lock'[s].owner = p
      /\ \A s \in Scopes : lock[s].owner # NoPlan => lock'[s] = lock[s]
      /\ \A s \in Scopes : lock'[s].owner \in {p, lock[s].owner}
  BY <1>0, <1>2, <1>3, AcquireOK
<1>5. OnlyRowsOf(p)
  BY <1>4 DEF OnlyRowsOf
<1>6. /\ plan' = [plan EXCEPT ![p] = "executing"]
      /\ created' = [created EXCEPT ![p] = now]
      /\ run' = [run EXCEPT ![p] = "running"]
      /\ host' = [host EXCEPT ![Target[p]] = [state |-> "maintenance", plan |-> p]]
      /\ UNCHANGED <<checkpoint, ticket, now>>
  BY DEF ManualEnter
<1>7. plan'[p] = "executing" /\ \A q \in Plans \ {p} : plan'[q] = plan[q]
  BY <1>6 DEF TypeOK
<1>8. TypeOK'
  BY <1>0, <1>4, <1>6 DEF TypeOK, RowsOK, LockRow, MaintenanceState, RunStatus,
                          HostMaintenanceState
<1>9. InFlightHoldsLocks' /\ LocksBelongToInFlight'
  BY <1>4, <1>5, <1>7, OwnershipStep DEF InFlightStates
<1>10. Forward
  BY <1>7 DEF Forward, InFlightStates
<1>11. TicketsOK'
  BY <1>6, <1>10, TicketStep
<1>12. HostsOK'
  BY <1>6 DEF HostsOK, TypeOK
<1> QED BY <1>4, <1>8, <1>9, <1>11, <1>12

\* A verified manual exit keeps the invariant: the token it releases by frees
\* the rows of its plan and of no other.
LEMMA ManualExitStep ==
  ASSUME IInv, NEW h \in Hosts, ManualExit(h)
  PROVE  IInv'
<1> USE DEF IInv
<1> DEFINE p == host[h].plan
<1>0. p \in Plans /\ p # NoPlan
  BY PlanAssumption DEF ManualExit, HostsOK
<1>1. PICK s0 \in Held(p) : lock' = Released(lock, lock[s0].token)
  BY DEF ManualExit
<1>2. s0 \in Scopes /\ lock[s0].owner = p
  BY DEF Held
<1>3. /\ RowsOK(lock')
      /\ \A s \in Scopes : lock'[s] = IF lock[s].owner = p THEN Free ELSE lock[s]
  BY <1>0, <1>1, <1>2, ReleaseOK
<1>4. OnlyRowsOf(p) /\ \A s \in Scopes : lock'[s].owner # p
  BY <1>0, <1>3 DEF OnlyRowsOf, Free
<1>5. /\ plan' = [plan EXCEPT ![p] = "succeeded"]
      /\ run' = [run EXCEPT ![p] = "succeeded"]
      /\ host' = [host EXCEPT ![h] = [state |-> "available", plan |-> NoPlan]]
      /\ UNCHANGED <<created, checkpoint, ticket, now>>
  BY DEF ManualExit
<1>6. plan'[p] = "succeeded" /\ \A q \in Plans \ {p} : plan'[q] = plan[q]
  BY <1>0, <1>5 DEF TypeOK
<1>7. TypeOK'
  BY <1>0, <1>3, <1>5 DEF TypeOK, RowsOK, LockRow, MaintenanceState, RunStatus,
                          HostMaintenanceState
<1>8. InFlightHoldsLocks' /\ LocksBelongToInFlight'
  BY <1>0, <1>3, <1>4, <1>6, OwnershipStep DEF InFlightStates
<1>9. Forward
  BY <1>0, <1>6 DEF Forward, TerminalPlanStates
<1>10. TicketsOK'
  BY <1>5, <1>9, TicketStep
<1>11. HostsOK'
  BY <1>5 DEF HostsOK, TypeOK
<1> QED BY <1>3, <1>7, <1>8, <1>10, <1>11

\* A refused manual exit keeps the invariant.
LEMMA ManualRecoveryStep ==
  ASSUME IInv, NEW h \in Hosts, ManualRecovery(h)
  PROVE  IInv'
<1> USE DEF IInv
<1> DEFINE p == host[h].plan
<1>0. /\ p \in Plans
      /\ plan[p] \in InFlightStates
  BY DEF ManualRecovery, HostsOK, PlanTransitions, InFlightStates
<1>1. /\ plan' = [plan EXCEPT ![p] = "recovery_required"]
      /\ run' = [run EXCEPT ![p] = "recovery_required"]
      /\ host' = [host EXCEPT ![h].state = "recovery_required"]
      /\ UNCHANGED <<created, lock, checkpoint, ticket, now>>
  BY DEF ManualRecovery
<1>2. plan'[p] = "recovery_required" /\ \A q \in Plans \ {p} : plan'[q] = plan[q]
  BY <1>0, <1>1 DEF TypeOK
<1>3. TypeOK'
  BY <1>0, <1>1 DEF TypeOK, MaintenanceState, RunStatus, HostMaintenanceState
<1>4. RowsOK(lock') /\ OnlyRowsOf(p)
  BY <1>1 DEF OnlyRowsOf
<1>5. InFlightHoldsLocks' /\ LocksBelongToInFlight'
  <2>1. \A s \in Requests[p] : lock'[s].owner = p
    BY <1>0, <1>1 DEF InFlightHoldsLocks
  <2> QED BY <1>0, <1>2, <1>4, <2>1, OwnershipStep DEF InFlightStates
<1>6. Forward
  BY <1>0, <1>2 DEF Forward, InFlightStates
<1>7. TicketsOK'
  BY <1>1, <1>6, TicketStep
<1>8. HostsOK'
  BY <1>0, <1>1 DEF HostsOK, TypeOK, ManualRecovery
<1> QED BY <1>3, <1>4, <1>5, <1>7, <1>8

\* A restart keeps the invariant: it moves plans in flight to recovery_required
\* or, on complete evidence, to succeeded, and touches no lock row.
LEMMA RestartStep ==
  ASSUME IInv, Restart
  PROVE  IInv'
<1> USE DEF IInv
<1>1. /\ \A q \in Plans : plan'[q] = RestartState(q)
      /\ ticket' = [t \in Tickets |-> Idle]
      /\ UNCHANGED <<created, lock, checkpoint, now>>
  BY DEF Restart
<1>2. \A q \in Plans : RestartRun(q) \in RunStatus \cup {"none"}
  BY DEF RestartRun, Interrupt, RunStatus, TypeOK
<1>3. \A q \in Plans : RestartState(q) \in MaintenanceState \cup {"absent"}
  BY DEF RestartState, MaintenanceState, TypeOK
<1>4. TypeOK'
  <2>1. host' \in [Hosts -> [state : HostMaintenanceState, plan : Plans \cup {NoPlan}]]
    BY DEF Restart, TypeOK, HostMaintenanceState
  <2>2. ticket' \in [Tickets -> [plan : Plans \cup {NoPlan}, action : AllActions \cup {"idle"}]]
    BY <1>1 DEF Idle
  <2>3. /\ plan' \in [Plans -> MaintenanceState \cup {"absent"}]
        /\ run' \in [Plans -> RunStatus \cup {"none"}]
    BY <1>2, <1>3 DEF Restart
  <2> QED BY <1>1, <2>1, <2>2, <2>3 DEF TypeOK
<1>5. InFlightHoldsLocks'
  <2>1. \A q \in Plans : plan'[q] \in InFlightStates => plan[q] \in InFlightStates
    BY <1>1 DEF RestartState, InFlightStates
  <2> QED BY <1>1, <2>1 DEF InFlightHoldsLocks
<1>6. LocksBelongToInFlight'
  <2> SUFFICES ASSUME NEW s \in Scopes, lock[s].owner # NoPlan
               PROVE  \/ plan'[lock[s].owner] \in InFlightStates
                      \/ lock[s].owner \in CompleteEvidence /\ plan'[lock[s].owner] = "succeeded"
    BY <1>1 DEF LocksBelongToInFlight
  <2>1. lock[s].owner \in Plans
    BY DEF TypeOK
  <2> QED BY <2>1, <1>1 DEF LocksBelongToInFlight, RestartState, Complete, InFlightStates
<1>7. TicketsOK'
  BY <1>1 DEF TicketsOK, Idle
<1>8. HostsOK'
  <2> SUFFICES ASSUME NEW h \in Hosts, host'[h].state # "available"
               PROVE  host'[h].plan \in Plans
    BY DEF HostsOK
  <2>1. host'[h].plan = host[h].plan
    BY DEF Restart, TypeOK
  <2>2. host[h].state # "available" \/ host[h].plan \in Plans
    BY DEF Restart
  <2> QED BY <2>1, <2>2 DEF HostsOK
<1> QED BY <1>1, <1>4, <1>5, <1>6, <1>7, <1>8

\* Steps that leave plans, locks, requests and host rows alone.
LEMMA QuietStep ==
  ASSUME IInv, TypeOK', UNCHANGED <<plan, lock, ticket, host>>
  PROVE  IInv'
BY DEF IInv, InFlightHoldsLocks, LocksBelongToInFlight, TicketsOK, HostsOK, Idle

-----------------------------------------------------------------------------
\* The initial state satisfies the invariant (a fresh controller database).
LEMMA InitIInv ==
  Init => IInv
<1> SUFFICES ASSUME Init PROVE IInv
  OBVIOUS
<1>1. TypeOK
  BY DEF Init, TypeOK, Free, Idle, Checkpoints, HostMaintenanceState
<1>2. \A s \in Scopes : lock[s] = Free /\ Free.owner = NoPlan
  BY DEF Init, Free
<1>3. RowsOK(lock)
  BY <1>1, <1>2 DEF RowsOK, TypeOK, LockRow
<1>4. InFlightHoldsLocks /\ LocksBelongToInFlight
  BY <1>2 DEF Init, InFlightHoldsLocks, LocksBelongToInFlight, InFlightStates
<1>5. TicketsOK /\ HostsOK
  BY DEF Init, TicketsOK, HostsOK
<1> QED BY <1>1, <1>3, <1>4, <1>5 DEF IInv

\* Every step of the controller preserves the invariant.
LEMMA NextIInv ==
  IInv /\ [Next]_vars => IInv'
<1> SUFFICES ASSUME IInv, [Next]_vars PROVE IInv'
  OBVIOUS
<1>1. ASSUME NEW p \in Plans, CreatePlan(p) PROVE IInv'
  BY <1>1, CreateStep
<1>2. ASSUME NEW t \in Tickets, NEW p \in Plans, NEW a \in Actions, Prepare(t, p, a)
      PROVE  IInv'
  BY <1>2, PrepareStep
<1>3. ASSUME NEW t \in Tickets, AdapterCheckpoint(t) PROVE IInv'
  <2>1. PICK c \in Checkpoints : checkpoint' = [checkpoint EXCEPT ![ticket[t].plan] = c]
    BY <1>3 DEF AdapterCheckpoint
  <2>2. UNCHANGED <<plan, created, run, lock, ticket, host, now>>
    BY <1>3 DEF AdapterCheckpoint
  <2>3. checkpoint' \in [Plans -> Checkpoints]
    BY <2>1 DEF IInv, TypeOK
  <2>4. TypeOK'
    BY <2>2, <2>3 DEF IInv, TypeOK
  <2> QED BY <2>2, <2>4, QuietStep
<1>4. ASSUME NEW t \in Tickets, Finalize(t) PROVE IInv'
  BY <1>4, FinalizeStep
<1>5. ASSUME NEW t \in Tickets, Fail(t) PROVE IInv'
  BY <1>5, FailStep
<1>6. ASSUME NEW p \in Plans, Reconcile(p) PROVE IInv'
  <2>1. {p} \in SUBSET Plans /\ \A q \in {p} : plan[q] \in InFlightStates
    BY <1>6 DEF Reconcile
  <2>2. ReconcilePlans({p})
    BY <1>6 DEF Reconcile
  <2> QED BY <2>1, <2>2, ReconcileStep
<1>7. ASSUME ExpireDue PROVE IInv'
  <2> DEFINE due == {p \in Plans : Planned(p) /\ plan[p] \in InFlightStates /\ Due(p)}
  <2>1. due \in SUBSET Plans /\ \A q \in due : plan[q] \in InFlightStates
    OBVIOUS
  <2>2. ReconcilePlans(due)
    BY <1>7 DEF ExpireDue
  <2> HIDE DEF due
  <2> QED BY <2>1, <2>2, ReconcileStep
<1>8. ASSUME NEW p \in Plans, ManualEnter(p) PROVE IInv'
  BY <1>8, ManualEnterStep
<1>9. ASSUME NEW h \in Hosts, ManualExit(h) PROVE IInv'
  BY <1>9, ManualExitStep
<1>10. ASSUME NEW h \in Hosts, ManualRecovery(h) PROVE IInv'
  BY <1>10, ManualRecoveryStep
<1>11. ASSUME Restart PROVE IInv'
  BY <1>11, RestartStep
<1>12. ASSUME Tick PROVE IInv'
  <2>1. TypeOK' /\ UNCHANGED <<plan, lock, ticket, host>>
    BY <1>12 DEF Tick, IInv, TypeOK
  <2> QED BY <2>1, QuietStep
<1>13. CASE UNCHANGED vars
  <2>1. TypeOK' /\ UNCHANGED <<plan, lock, ticket, host>>
    BY <1>13 DEF vars, IInv, TypeOK
  <2> QED BY <2>1, QuietStep
<1> QED BY <1>1, <1>2, <1>3, <1>4, <1>5, <1>6, <1>7, <1>8, <1>9, <1>10, <1>11,
           <1>12, <1>13 DEF Next

\* The invariant holds in every reachable state of the coordinator.
THEOREM IInvHolds == Spec => []IInv
<1>1. Init => IInv
  BY InitIInv
<1>2. IInv /\ [Next]_vars => IInv'
  BY NextIInv
<1> QED BY <1>1, <1>2, PTL DEF Spec

\* Every variable keeps its type (the rows of the maintenance tables).
THEOREM TypeCorrect == Spec => []TypeOK
<1>1. IInv => TypeOK
  BY DEF IInv
<1> QED BY <1>1, IInvHolds, PTL

\* A plan that may own remote effects holds all its locks at every commit.
THEOREM LocksHeld == Spec => []InFlightHoldsLocks
<1>1. IInv => InFlightHoldsLocks
  BY DEF IInv
<1> QED BY <1>1, IInvHolds, PTL

\* No lock row outlives the flight of its plan.
THEOREM NoOrphanLocks == Spec => []LocksBelongToInFlight
<1>1. IInv => LocksBelongToInFlight
  BY DEF IInv
<1> QED BY <1>1, IInvHolds, PTL

\* A token selects the rows of one plan.
THEOREM TokensIdentify == Spec => []TokenIdentifiesOwner
<1>1. IInv => TokenIdentifiesOwner
  BY DEF IInv, RowsOK, TokenIdentifiesOwner
<1> QED BY <1>1, IInvHolds, PTL

\* Two plans in flight never overlap in a host, cluster or assignment.
THEOREM Exclusion == Spec => []MutualExclusion
<1>1. IInv => MutualExclusion
  <2> SUFFICES ASSUME IInv, NEW p \in Plans, NEW q \in Plans, p # q,
                      plan[p] \in InFlightStates, plan[q] \in InFlightStates,
                      NEW s \in Requests[p] \cap Requests[q]
               PROVE  FALSE
    BY DEF MutualExclusion
  <2>1. lock[s].owner = p /\ lock[s].owner = q
    BY DEF IInv, InFlightHoldsLocks
  <2> QED BY <2>1
<1> QED BY <1>1, IInvHolds, PTL

-----------------------------------------------------------------------------
\* Runs, host rows and manual plans.

\* Manual mode stays apart from the action routes: its plans have no checkpoint
\* and no request in flight, only they have host rows, and a row that names one
\* is outside "available".
ManualApart ==
  /\ \A p \in Plans : Kind[p] = "manual" => checkpoint[p] = "none"
  /\ \A t \in Tickets : ticket[t] # Idle => Kind[ticket[t].plan] # "manual"
  /\ \A h \in Hosts : host[h].plan # NoPlan => Kind[host[h].plan] = "manual"
  /\ \A h \in Hosts : host[h].state = "available" => host[h].plan = NoPlan

RecordsInv == ClosedRunMatchesPlan /\ HostRowMatchesPlan /\ ManualApart

\* A step of a plan p that is not manual, and that leaves the host rows alone,
\* keeps the three records together when it closes the run only with the plan.
LEMMA RecordsStep ==
  ASSUME IInv, RecordsInv, NEW p \in Plans, Kind[p] # "manual",
         \A q \in Plans \ {p} : plan'[q] = plan[q] /\ run'[q] = run[q],
         run'[p] \in ClosedRun => p \in CompleteEvidence \/ plan'[p] = run'[p],
         UNCHANGED host,
         \A q \in Plans : Kind[q] = "manual" => checkpoint'[q] = checkpoint[q],
         \A t \in Tickets :
           ticket'[t] \in {ticket[t], Idle} \/ ticket'[t].plan = p
  PROVE  RecordsInv'
<1> USE DEF RecordsInv
<1>1. ClosedRunMatchesPlan'
  BY DEF ClosedRunMatchesPlan
<1>2. HostRowMatchesPlan'
  <2>1. ASSUME NEW h \in Hosts, host'[h].state # "available"
        PROVE  /\ host'[h].plan \in Plans
               /\ plan'[host'[h].plan] \in InFlightStates
               /\ Target[host'[h].plan] = h
    <3>1. host[h].plan \in Plans /\ host[h].plan # p
      BY <2>1, PlanAssumption DEF HostRowMatchesPlan, ManualApart
    <3> QED BY <2>1, <3>1 DEF HostRowMatchesPlan
  <2>2. ASSUME NEW q \in Plans, Kind[q] = "manual", plan'[q] \in InFlightStates
        PROVE  host'[Target[q]].plan = q
    BY <2>2 DEF HostRowMatchesPlan
  <2> QED BY <2>1, <2>2 DEF HostRowMatchesPlan
<1>3. ManualApart'
  BY DEF ManualApart, Idle
<1> QED BY <1>1, <1>2, <1>3

\* What a request changes besides the lock table: the state of its plan, the
\* plan's run and its own ticket.
LEMMA PrepareRecords ==
  ASSUME IInv, RecordsInv, NEW t \in Tickets, NEW p \in Plans, NEW a \in Actions,
         Prepare(t, p, a)
  PROVE  RecordsInv'
<1>1. \A q \in Plans \ {p} : plan'[q] = plan[q] /\ run'[q] = run[q]
  BY DEF Prepare, IInv, TypeOK
<1>2. run'[p] \notin ClosedRun
  BY DEF Prepare, IInv, TypeOK, ClosedRun
<1>3. \A u \in Tickets : ticket'[u] \in {ticket[u], Idle} \/ ticket'[u].plan = p
  BY DEF Prepare, IInv, TypeOK
<1> QED BY <1>1, <1>2, <1>3, RecordsStep DEF Prepare

\* finalize closes a run only with the terminal state of its plan.
LEMMA FinalizeRecords ==
  ASSUME IInv, RecordsInv, NEW t \in Tickets, Finalize(t)
  PROVE  RecordsInv'
<1> DEFINE p == ticket[t].plan
<1>0. p \in Plans /\ Kind[p] # "manual"
  BY DEF Finalize, IInv, TicketsOK, RecordsInv, ManualApart
<1>1. PICK res \in ResultStates(ticket[t].action) :
        /\ plan' = [plan EXCEPT ![p] = ResultState(p, res)]
        /\ run' = [run EXCEPT ![p] = RunFor(ResultState(p, res))]
  BY DEF Finalize
<1>2. \A q \in Plans \ {p} : plan'[q] = plan[q] /\ run'[q] = run[q]
  BY <1>0, <1>1 DEF IInv, TypeOK
<1>3. run'[p] \in ClosedRun => plan'[p] = run'[p]
  BY <1>0, <1>1 DEF IInv, TypeOK, RunFor, ClosedRun, TerminalPlanStates
<1>4. \A u \in Tickets : ticket'[u] \in {ticket[u], Idle}
  BY DEF Finalize, IInv, TypeOK
<1>5. UNCHANGED <<host, checkpoint>>
  BY DEF Finalize
<1> QED BY <1>0, <1>2, <1>3, <1>4, <1>5, RecordsStep

\* fail leaves the run open, whatever the plan's state.
LEMMA FailRecords ==
  ASSUME IInv, RecordsInv, NEW t \in Tickets, Fail(t)
  PROVE  RecordsInv'
<1> DEFINE p == ticket[t].plan
<1>0. p \in Plans /\ Kind[p] # "manual"
  BY DEF Fail, IInv, TicketsOK, RecordsInv, ManualApart
<1>1. \A q \in Plans \ {p} : plan'[q] = plan[q] /\ run'[q] = run[q]
  BY <1>0 DEF Fail, IInv, TypeOK
<1>2. run'[p] \notin ClosedRun
  BY <1>0 DEF Fail, IInv, TypeOK, ClosedRun
<1>3. \A u \in Tickets : ticket'[u] \in {ticket[u], Idle}
  BY DEF Fail, IInv, TypeOK
<1>4. UNCHANGED <<host, checkpoint>>
  BY DEF Fail
<1> QED BY <1>0, <1>1, <1>2, <1>3, <1>4, RecordsStep

\* create_plan and the adapter's journal change no plan with a host row.
LEMMA CreateRecords ==
  ASSUME IInv, RecordsInv, NEW p \in Plans, CreatePlan(p)
  PROVE  RecordsInv'
<1>1. \A q \in Plans \ {p} : plan'[q] = plan[q] /\ run'[q] = run[q]
  BY DEF CreatePlan, IInv, TypeOK
<1>2. run[p] \in ClosedRun => p \in CompleteEvidence
  BY DEF CreatePlan, RecordsInv, ClosedRunMatchesPlan, ClosedRun
<1>3. Kind[p] # "manual" /\ UNCHANGED <<run, checkpoint, ticket, host>>
  BY DEF CreatePlan
<1> QED BY <1>1, <1>2, <1>3, RecordsStep

\* The adapter journals for a planned workflow, never for a manual one.
LEMMA CheckpointRecords ==
  ASSUME IInv, RecordsInv, NEW t \in Tickets, AdapterCheckpoint(t)
  PROVE  RecordsInv'
<1> DEFINE p == ticket[t].plan
<1>0. p \in Plans /\ Kind[p] # "manual"
  BY DEF AdapterCheckpoint, IInv, TicketsOK, Idle, RecordsInv, ManualApart
<1>1. \A q \in Plans : Kind[q] = "manual" => checkpoint'[q] = checkpoint[q]
  BY <1>0 DEF AdapterCheckpoint, IInv, TypeOK
<1>2. UNCHANGED <<plan, run, ticket, host>>
  BY DEF AdapterCheckpoint
<1>3. run[p] \in ClosedRun => p \in CompleteEvidence \/ plan[p] = run[p]
  BY <1>0 DEF RecordsInv, ClosedRunMatchesPlan
<1> QED BY <1>0, <1>1, <1>2, <1>3, RecordsStep

\* reconcile_plan of planned workflows: none of them has a host row here, and a
\* plan in flight has no closed run to leave behind.
LEMMA ReconcileRecords ==
  ASSUME IInv, RecordsInv, NEW P \in SUBSET Plans,
         \A p \in P : plan[p] \in InFlightStates /\ Planned(p), ReconcilePlans(P)
  PROVE  RecordsInv'
<1> USE DEF RecordsInv
<1>1. /\ \A q \in Plans : plan'[q] = IF q \in P THEN "recovery_required" ELSE plan[q]
      /\ \A q \in Plans : run'[q] = IF q \in P THEN Interrupt(run[q]) ELSE run[q]
      /\ UNCHANGED <<checkpoint, ticket>>
  BY DEF ReconcilePlans
<1>2. \A q \in P : Kind[q] # "manual"
  BY DEF Planned
<1>3. \A h \in Hosts : host'[h] = host[h]
  <2> SUFFICES ASSUME NEW h \in Hosts PROVE host[h].plan \notin P
    BY DEF ReconcilePlans
  <2> QED BY <1>2, PlanAssumption DEF ManualApart
<1>4. ClosedRunMatchesPlan'
  <2> SUFFICES ASSUME NEW q \in Plans \ CompleteEvidence, run'[q] \in ClosedRun
               PROVE  plan'[q] = run'[q]
    BY DEF ClosedRunMatchesPlan
  <2>1. run'[q] = run[q]
    BY <1>1 DEF Interrupt, ClosedRun
  <2>2. q \notin P
    BY <2>1 DEF ClosedRunMatchesPlan, ClosedRun, InFlightStates
  <2> QED BY <1>1, <2>1, <2>2 DEF ClosedRunMatchesPlan
<1>5. HostRowMatchesPlan'
  <2>1. \A q \in Plans : plan'[q] \in InFlightStates <=> plan[q] \in InFlightStates
    BY <1>1 DEF InFlightStates
  <2>2. \A q \in Plans : Target[q] \in Hosts
    BY PlanAssumption
  <2> QED BY <1>3, <2>1, <2>2 DEF HostRowMatchesPlan
<1>6. ManualApart'
  BY <1>1, <1>3 DEF ManualApart
<1> QED BY <1>4, <1>5, <1>6

\* Entering manual mode gives the host its row: no other manual plan of the
\* host is in flight, since the unique index on the target is free.
LEMMA ManualEnterRecords ==
  ASSUME IInv, RecordsInv, NEW p \in Plans, ManualEnter(p)
  PROVE  RecordsInv'
<1> USE DEF RecordsInv
<1>0. p # NoPlan /\ Target[p] \in Hosts /\ Kind[p] = "manual"
  BY PlanAssumption DEF ManualEnter
<1>1. /\ plan'[p] = "executing" /\ run'[p] = "running"
      /\ \A q \in Plans \ {p} : plan'[q] = plan[q] /\ run'[q] = run[q]
  BY DEF ManualEnter, IInv, TypeOK
<1>2. /\ host'[Target[p]] = [state |-> "maintenance", plan |-> p]
      /\ \A h \in Hosts \ {Target[p]} : host'[h] = host[h]
      /\ UNCHANGED <<checkpoint, ticket>>
  BY <1>0 DEF ManualEnter, IInv, TypeOK
<1>3. ClosedRunMatchesPlan'
  BY <1>1 DEF ClosedRunMatchesPlan, ClosedRun
<1>4. HostRowMatchesPlan'
  <2>1. ASSUME NEW h \in Hosts, host'[h].state # "available"
        PROVE  /\ host'[h].plan \in Plans
               /\ plan'[host'[h].plan] \in InFlightStates
               /\ Target[host'[h].plan] = h
    <3>1. CASE h = Target[p]
      BY <3>1, <1>1, <1>2 DEF InFlightStates
    <3>2. CASE h # Target[p]
      <4>1. host'[h] = host[h] /\ host[h].plan \in Plans
        BY <3>2, <2>1, <1>2 DEF HostRowMatchesPlan
      <4>2. plan[p] = "absent"
        BY DEF ManualEnter
      <4> QED BY <4>1, <4>2, <2>1, <1>1 DEF HostRowMatchesPlan, InFlightStates
    <3> QED BY <3>1, <3>2
  <2>2. ASSUME NEW q \in Plans, Kind[q] = "manual", plan'[q] \in InFlightStates
        PROVE  host'[Target[q]].plan = q
    <3>1. CASE q = p
      BY <3>1, <1>2
    <3>2. CASE q # p
      <4>1. plan[q] \in InFlightStates
        BY <3>2, <2>2, <1>1
      <4>2. Target[q] # Target[p]
        BY <4>1, <3>2 DEF ManualEnter, Conflict, TargetFree, ActivePlanStates, InFlightStates
      <4>3. Target[q] \in Hosts
        BY PlanAssumption
      <4> QED BY <4>1, <4>2, <4>3, <2>2, <1>2 DEF HostRowMatchesPlan
    <3> QED BY <3>1, <3>2
  <2> QED BY <2>1, <2>2 DEF HostRowMatchesPlan
<1>5. ManualApart'
  BY <1>0, <1>2 DEF ManualApart
<1> QED BY <1>3, <1>4, <1>5

\* A verified exit ends plan, run and row together.
LEMMA ManualExitRecords ==
  ASSUME IInv, RecordsInv, NEW h \in Hosts, ManualExit(h)
  PROVE  RecordsInv'
<1> USE DEF RecordsInv
<1> DEFINE p == host[h].plan
<1>0. p \in Plans /\ p # NoPlan /\ Target[p] = h
  BY PlanAssumption DEF ManualExit, HostRowMatchesPlan
<1>1. /\ plan'[p] = "succeeded" /\ run'[p] = "succeeded"
      /\ \A q \in Plans \ {p} : plan'[q] = plan[q] /\ run'[q] = run[q]
  BY <1>0 DEF ManualExit, IInv, TypeOK
<1>2. /\ host'[h] = [state |-> "available", plan |-> NoPlan]
      /\ \A g \in Hosts \ {h} : host'[g] = host[g]
      /\ UNCHANGED <<checkpoint, ticket>>
  BY DEF ManualExit, IInv, TypeOK
<1>3. ClosedRunMatchesPlan'
  BY <1>1 DEF ClosedRunMatchesPlan
<1>4. HostRowMatchesPlan'
  <2>1. ASSUME NEW g \in Hosts, host'[g].state # "available"
        PROVE  /\ host'[g].plan \in Plans
               /\ plan'[host'[g].plan] \in InFlightStates
               /\ Target[host'[g].plan] = g
    <3>1. g # h /\ host'[g] = host[g]
      BY <2>1, <1>2
    <3>2. /\ host[g].plan \in Plans /\ Target[host[g].plan] = g
          /\ plan[host[g].plan] \in InFlightStates
      BY <3>1, <2>1 DEF HostRowMatchesPlan
    <3> QED BY <3>1, <3>2, <1>0, <1>1
  <2>2. ASSUME NEW q \in Plans, Kind[q] = "manual", plan'[q] \in InFlightStates
        PROVE  host'[Target[q]].plan = q
    <3>1. q # p
      BY <2>2, <1>1 DEF InFlightStates
    <3>2. host[Target[q]].plan = q
      BY <3>1, <2>2, <1>1 DEF HostRowMatchesPlan
    <3>3. Target[q] # h /\ Target[q] \in Hosts
      BY <3>1, <3>2, PlanAssumption
    <3> QED BY <3>2, <3>3, <1>2
  <2> QED BY <2>1, <2>2 DEF HostRowMatchesPlan
<1>5. ManualApart'
  BY <1>2 DEF ManualApart
<1> QED BY <1>3, <1>4, <1>5

\* A refused exit moves plan, run and row to recovery together.
LEMMA ManualRecoveryRecords ==
  ASSUME IInv, RecordsInv, NEW h \in Hosts, ManualRecovery(h)
  PROVE  RecordsInv'
<1> USE DEF RecordsInv
<1> DEFINE p == host[h].plan
<1>0. p \in Plans /\ plan[p] \in InFlightStates
  BY DEF ManualRecovery, HostRowMatchesPlan
<1>1. /\ plan'[p] = "recovery_required" /\ run'[p] = "recovery_required"
      /\ \A q \in Plans \ {p} : plan'[q] = plan[q] /\ run'[q] = run[q]
  BY <1>0 DEF ManualRecovery, IInv, TypeOK
<1>2. /\ \A g \in Hosts : host'[g].plan = host[g].plan
      /\ \A g \in Hosts : host'[g].state = "available" <=> host[g].state = "available"
      /\ UNCHANGED <<checkpoint, ticket>>
  BY DEF ManualRecovery, IInv, TypeOK
<1>3. ClosedRunMatchesPlan'
  BY <1>1 DEF ClosedRunMatchesPlan, ClosedRun
<1>4. \A q \in Plans : plan'[q] \in InFlightStates <=> plan[q] \in InFlightStates
  BY <1>0, <1>1 DEF InFlightStates
<1>5. HostRowMatchesPlan'
  BY <1>2, <1>4, PlanAssumption DEF HostRowMatchesPlan
<1>6. ManualApart'
  BY <1>2 DEF ManualApart
<1> QED BY <1>3, <1>5, <1>6

\* A restart closes no run but those of plans with complete evidence, and a
\* manual plan, which has no checkpoint, is never among them: it stays in flight
\* with its row.
LEMMA RestartRecords ==
  ASSUME IInv, RecordsInv, Restart
  PROVE  RecordsInv'
<1> USE DEF RecordsInv
<1>1. /\ \A q \in Plans : plan'[q] = RestartState(q) /\ run'[q] = RestartRun(q)
      /\ \A t \in Tickets : ticket'[t] = Idle
      /\ UNCHANGED checkpoint
  BY DEF Restart
<1>2. ClosedRunMatchesPlan'
  <2> SUFFICES ASSUME NEW q \in Plans \ CompleteEvidence, run'[q] \in ClosedRun
               PROVE  plan'[q] = run'[q]
    BY DEF ClosedRunMatchesPlan
  <2>1. run'[q] = run[q]
    BY <1>1 DEF RestartRun, Complete, Interrupt, ClosedRun
  <2>2. plan[q] = run[q] /\ plan[q] \notin InFlightStates
    BY <2>1 DEF ClosedRunMatchesPlan, ClosedRun, InFlightStates
  <2> QED BY <1>1, <2>1, <2>2 DEF RestartState
<1>3. \A q \in Plans : Kind[q] = "manual" =>
        (plan'[q] \in InFlightStates <=> plan[q] \in InFlightStates)
  BY <1>1 DEF RestartState, Complete, ManualApart, InFlightStates
<1>4. \A h \in Hosts : host'[h] = host[h]
  <2> SUFFICES ASSUME NEW h \in Hosts
               PROVE  ~ \E p \in Plans : host[h].plan = p /\ Planned(p)
    BY DEF Restart
  <2> QED BY PlanAssumption DEF ManualApart, Planned
<1>5. HostRowMatchesPlan'
  <2>1. ASSUME NEW h \in Hosts, host'[h].state # "available"
        PROVE  /\ host'[h].plan \in Plans
               /\ plan'[host'[h].plan] \in InFlightStates
               /\ Target[host'[h].plan] = h
    <3>1. /\ host[h].plan \in Plans /\ Target[host[h].plan] = h
          /\ plan[host[h].plan] \in InFlightStates
      BY <2>1, <1>4 DEF HostRowMatchesPlan
    <3>2. Kind[host[h].plan] = "manual"
      BY <3>1, PlanAssumption DEF ManualApart
    <3> QED BY <3>1, <3>2, <1>3, <1>4
  <2>2. ASSUME NEW q \in Plans, Kind[q] = "manual", plan'[q] \in InFlightStates
        PROVE  host'[Target[q]].plan = q
    BY <2>2, <1>3, <1>4, PlanAssumption DEF HostRowMatchesPlan
  <2> QED BY <2>1, <2>2 DEF HostRowMatchesPlan
<1>6. ManualApart'
  BY <1>1, <1>4 DEF ManualApart
<1> QED BY <1>2, <1>5, <1>6

\* A fresh database has no runs, no host rows and no checkpoints.
LEMMA InitRecords ==
  Init => RecordsInv
<1> SUFFICES ASSUME Init PROVE RecordsInv
  OBVIOUS
<1>1. ClosedRunMatchesPlan
  BY DEF Init, ClosedRunMatchesPlan, ClosedRun
<1>2. HostRowMatchesPlan
  BY DEF Init, HostRowMatchesPlan, InFlightStates
<1>3. ManualApart
  BY DEF Init, ManualApart
<1> QED BY <1>1, <1>2, <1>3 DEF RecordsInv

\* Every step of the controller keeps plans, runs and host rows together.
LEMMA NextRecords ==
  IInv /\ RecordsInv /\ [Next]_vars => RecordsInv'
<1> SUFFICES ASSUME IInv, RecordsInv, [Next]_vars PROVE RecordsInv'
  OBVIOUS
<1>1. ASSUME NEW p \in Plans, CreatePlan(p) PROVE RecordsInv'
  BY <1>1, CreateRecords
<1>2. ASSUME NEW t \in Tickets, NEW p \in Plans, NEW a \in Actions, Prepare(t, p, a)
      PROVE  RecordsInv'
  BY <1>2, PrepareRecords
<1>3. ASSUME NEW t \in Tickets, AdapterCheckpoint(t) PROVE RecordsInv'
  BY <1>3, CheckpointRecords
<1>4. ASSUME NEW t \in Tickets, Finalize(t) PROVE RecordsInv'
  BY <1>4, FinalizeRecords
<1>5. ASSUME NEW t \in Tickets, Fail(t) PROVE RecordsInv'
  BY <1>5, FailRecords
<1>6. ASSUME NEW p \in Plans, Reconcile(p) PROVE RecordsInv'
  <2>1. {p} \in SUBSET Plans /\ \A q \in {p} : plan[q] \in InFlightStates /\ Planned(q)
    BY <1>6 DEF Reconcile
  <2>2. ReconcilePlans({p})
    BY <1>6 DEF Reconcile
  <2> QED BY <2>1, <2>2, ReconcileRecords
<1>7. ASSUME ExpireDue PROVE RecordsInv'
  <2> DEFINE due == {p \in Plans : Planned(p) /\ plan[p] \in InFlightStates /\ Due(p)}
  <2>1. due \in SUBSET Plans /\ \A q \in due : plan[q] \in InFlightStates /\ Planned(q)
    OBVIOUS
  <2>2. ReconcilePlans(due)
    BY <1>7 DEF ExpireDue
  <2> HIDE DEF due
  <2> QED BY <2>1, <2>2, ReconcileRecords
<1>8. ASSUME NEW p \in Plans, ManualEnter(p) PROVE RecordsInv'
  BY <1>8, ManualEnterRecords
<1>9. ASSUME NEW h \in Hosts, ManualExit(h) PROVE RecordsInv'
  BY <1>9, ManualExitRecords
<1>10. ASSUME NEW h \in Hosts, ManualRecovery(h) PROVE RecordsInv'
  BY <1>10, ManualRecoveryRecords
<1>11. ASSUME Restart PROVE RecordsInv'
  BY <1>11, RestartRecords
<1>12. ASSUME UNCHANGED <<plan, run, checkpoint, ticket, host>> PROVE RecordsInv'
  BY <1>12 DEF RecordsInv, ClosedRunMatchesPlan, HostRowMatchesPlan, ManualApart
<1> QED BY <1>1, <1>2, <1>3, <1>4, <1>5, <1>6, <1>7, <1>8, <1>9, <1>10, <1>11,
           <1>12 DEF Next, Tick, vars

\* Plans, runs, checkpoints, requests and host rows agree in every state.
THEOREM RecordsHold == Spec => []RecordsInv
<1>1. Init => RecordsInv
  BY InitRecords
<1>2. IInv /\ RecordsInv /\ [Next]_vars => RecordsInv'
  BY NextRecords
<1> QED BY <1>1, <1>2, IInvHolds, PTL DEF Spec

\* A closed run has the status of its plan, however finalize, fail, manual mode
\* and the startup pass interleave.
THEOREM RunsTellTheTruth == Spec => []ClosedRunMatchesPlan
<1>1. RecordsInv => ClosedRunMatchesPlan
  BY DEF RecordsInv
<1> QED BY <1>1, RecordsHold, PTL

\* A host row outside "available" and its plan in flight name each other.
THEOREM HostRowsMatch == Spec => []HostRowMatchesPlan
<1>1. RecordsInv => HostRowMatchesPlan
  BY DEF RecordsInv
<1> QED BY <1>1, RecordsHold, PTL

-----------------------------------------------------------------------------
\* Action properties.

\* A step on plan p that touches only rows of p keeps every other terminal plan
\* and adds no row to it.
LEMMA TerminalStep ==
  ASSUME NEW p \in Plans, OnlyRowsOf(p),
         \A q \in Plans \ {p} : plan'[q] = plan[q],
         plan[p] \in TerminalPlanStates =>
           plan'[p] = plan[p] /\ Held(p)' \subseteq Held(p)
  PROVE  \A q \in Plans : plan[q] \in TerminalPlanStates =>
           plan'[q] = plan[q] /\ Held(q)' \subseteq Held(q)
<1> SUFFICES ASSUME NEW q \in Plans, q # p
             PROVE  Held(q)' \subseteq Held(q)
  OBVIOUS
<1>1. q # NoPlan
  BY PlanAssumption
<1> QED BY <1>1 DEF Held, OnlyRowsOf

\* The lock rows under each step that changes any of them.
LEMMA ManualEnterRows ==
  ASSUME IInv, NEW p \in Plans, ManualEnter(p)
  PROVE  /\ OnlyRowsOf(p)
         /\ \A s \in Scopes : lock[s].owner # p
         /\ \A s \in Scopes : lock[s].owner # NoPlan => lock'[s] = lock[s]
         /\ \A s \in Scopes : lock'[s].owner = p <=> s \in Requests[p]
         /\ \A s \in Requests[p] : lock[s].owner = NoPlan
<1>0. /\ plan[p] = "absent" /\ p # NoPlan
      /\ Requests[p] \in SUBSET Scopes
  BY PlanAssumption, ScopeAssumption DEF ManualEnter
<1>1. \A s \in Scopes : lock[s].owner # p
  BY <1>0 DEF IInv, LocksBelongToInFlight, InFlightStates
<1>2. PICK tok \in Tokens : /\ CanAcquire(lock, p, Requests[p], tok)
                            /\ lock' = Acquired(lock, p, Requests[p], tok, ManualTTL)
  BY DEF ManualEnter
<1>3. \A s \in Requests[p] : lock[s].owner = NoPlan
  BY <1>0, <1>1, <1>2 DEF CanAcquire
<1>4. \A s \in Scopes : lock'[s] = IF s \in Requests[p]
        THEN [owner |-> p, token |-> tok, expires |-> now + ManualTTL] ELSE lock[s]
  BY <1>2, <1>3 DEF Acquired
<1> QED BY <1>0, <1>1, <1>3, <1>4 DEF OnlyRowsOf

\* The exit of manual mode releases the rows of its plan, none of them expired.
LEMMA ManualExitRows ==
  ASSUME IInv, NEW h \in Hosts, ManualExit(h)
  PROVE  LET p == host[h].plan IN
         /\ p \in Plans /\ plan[p] \in InFlightStates
         /\ OnlyRowsOf(p)
         /\ \A s \in Scopes : lock'[s].owner # p
         /\ \A s \in Scopes : lock'[s] # lock[s] => ~Expired(s)
<1> DEFINE p == host[h].plan
<1>0. p \in Plans /\ p # NoPlan
  BY PlanAssumption DEF ManualExit, IInv, HostsOK
<1>1. PICK s0 \in Held(p) : /\ CanRelease(lock, lock[s0].token)
                            /\ lock' = Released(lock, lock[s0].token)
  BY DEF ManualExit
<1>2. s0 \in Scopes /\ lock[s0].owner = p
  BY DEF Held
<1>3. \A s \in Scopes : lock'[s] = IF lock[s].owner = p THEN Free ELSE lock[s]
  BY <1>0, <1>1, <1>2, ReleaseOK DEF IInv
<1>4. \A s \in Scopes : lock'[s] # lock[s] => ~Expired(s)
  BY <1>1 DEF CanRelease, Released, Expired, IInv, TypeOK
<1>5. plan[p] \in InFlightStates
  BY DEF ManualExit, PlanTransitions, InFlightStates
<1> QED BY <1>0, <1>3, <1>4, <1>5 DEF OnlyRowsOf, Free

\* A terminal plan is final and takes no lock again, whatever request, recovery
\* or restart comes after it.
THEOREM TerminalPlansFinal == Spec => TerminalIsFinal
<1> DEFINE A == \A p \in Plans : plan[p] \in TerminalPlanStates =>
                  plan'[p] = plan[p] /\ Held(p)' \subseteq Held(p)
<1>1. ASSUME IInv, [Next]_vars PROVE A
  <2> USE <1>1
  <2>0. ASSUME UNCHANGED lock, \A q \in Plans : plan[q] \in TerminalPlanStates => plan'[q] = plan[q]
        PROVE  A
    BY <2>0 DEF Held
  <2>1. ASSUME NEW p \in Plans, CreatePlan(p) PROVE A
    BY <2>0, <2>1 DEF CreatePlan, IInv, TypeOK, TerminalPlanStates
  <2>2. ASSUME NEW t \in Tickets, NEW p \in Plans, NEW a \in Actions, Prepare(t, p, a)
        PROVE  A
    <3>0. a \in AllActions
      BY PlanAssumption
    <3>1. PrepareLocks(p, a) /\ plan[p] \in ActionStates(a)
      BY <2>2 DEF Prepare
    <3>2. OnlyRowsOf(p)
      BY <3>0, <3>1, PrepareLocksOK DEF IInv
    <3>3. plan[p] \notin TerminalPlanStates
      BY <3>0, <3>1 DEF ActionStates, AllActions, TerminalPlanStates, InFlightStates
    <3>4. \A q \in Plans \ {p} : plan'[q] = plan[q]
      BY <2>2 DEF Prepare, IInv, TypeOK
    <3> QED BY <3>2, <3>3, <3>4, TerminalStep
  <2>3. ASSUME NEW t \in Tickets, AdapterCheckpoint(t) PROVE A
    BY <2>0, <2>3 DEF AdapterCheckpoint
  <2>4. ASSUME NEW t \in Tickets, Finalize(t) PROVE A
    <3>0. PICK p \in Plans : p = ticket[t].plan
      BY <2>4 DEF Finalize, IInv, TicketsOK
    <3>1. PICK res \in ResultStates(ticket[t].action) :
            /\ CanReach(plan[p], ResultState(p, res))
            /\ FinalizeLocks(p, ticket[t].action, ResultState(p, res))
            /\ plan' = [plan EXCEPT ![p] = ResultState(p, res)]
      BY <2>4, <3>0 DEF Finalize
    <3>2. OnlyRowsOf(p) /\ (ResultState(p, res) \in TerminalPlanStates =>
                              \A s \in Scopes : lock'[s].owner # p)
      BY <3>0, <3>1, FinalizeLocksOK DEF IInv
    <3>3. /\ plan'[p] = ResultState(p, res)
          /\ \A q \in Plans \ {p} : plan'[q] = plan[q]
      BY <3>0, <3>1 DEF IInv, TypeOK
    <3>4. plan[p] \in TerminalPlanStates => ResultState(p, res) = plan[p]
      BY <3>1 DEF CanReach, PlanTransitions, TerminalPlanStates
    <3>5. plan[p] \in TerminalPlanStates => Held(p)' = {}
      BY <3>2, <3>4 DEF Held
    <3> QED BY <3>0, <3>2, <3>3, <3>4, <3>5, TerminalStep
  <2>5. ASSUME NEW t \in Tickets, Fail(t) PROVE A
    <3>1. ticket[t].plan \in Plans
      BY <2>5 DEF Fail, IInv, TicketsOK
    <3> QED BY <2>0, <2>5, <3>1 DEF Fail, FailState, IInv, TypeOK, TerminalPlanStates
  <2>6. ASSUME NEW P \in SUBSET Plans, \A p \in P : plan[p] \in InFlightStates,
               ReconcilePlans(P)
        PROVE  A
    BY <2>0, <2>6 DEF ReconcilePlans, InFlightStates, TerminalPlanStates
  <2>7. ASSUME NEW p \in Plans, Reconcile(p) PROVE A
    <3>1. {p} \in SUBSET Plans /\ ReconcilePlans({p}) /\ \A q \in {p} : plan[q] \in InFlightStates
      BY <2>7 DEF Reconcile
    <3> QED BY <2>6, <3>1
  <2>8. ASSUME ExpireDue PROVE A
    <3> DEFINE due == {p \in Plans : Planned(p) /\ plan[p] \in InFlightStates /\ Due(p)}
    <3>1. due \in SUBSET Plans /\ ReconcilePlans(due) /\ \A q \in due : plan[q] \in InFlightStates
      BY <2>8 DEF ExpireDue
    <3> QED BY <2>6, <3>1
  <2>9. ASSUME NEW p \in Plans, ManualEnter(p) PROVE A
    <3>1. OnlyRowsOf(p)
      BY <2>9, ManualEnterRows
    <3> QED BY <2>9, <3>1, TerminalStep DEF ManualEnter, IInv, TypeOK, TerminalPlanStates
  <2>10. ASSUME NEW h \in Hosts, ManualExit(h) PROVE A
    <3> DEFINE p == host[h].plan
    <3>1. p \in Plans /\ plan[p] \in InFlightStates /\ OnlyRowsOf(p)
      BY <2>10, ManualExitRows
    <3>2. \A q \in Plans \ {p} : plan'[q] = plan[q]
      BY <2>10, <3>1 DEF ManualExit, IInv, TypeOK
    <3> QED BY <3>1, <3>2, TerminalStep DEF InFlightStates, TerminalPlanStates
  <2>11. ASSUME NEW h \in Hosts, ManualRecovery(h) PROVE A
    BY <2>0, <2>11 DEF ManualRecovery, IInv, TypeOK, PlanTransitions, TerminalPlanStates
  <2>12. ASSUME Restart PROVE A
    BY <2>0, <2>12 DEF Restart, RestartState, InFlightStates, TerminalPlanStates
  <2>13. ASSUME UNCHANGED <<plan, lock>> PROVE A
    BY <2>0, <2>13
  <2> QED BY <2>1, <2>2, <2>3, <2>4, <2>5, <2>7, <2>8, <2>9, <2>10, <2>11, <2>12,
             <2>13 DEF Next, Tick, vars
<1>2. IInv /\ [Next]_vars => [A]_vars
  BY <1>1
<1>3. Spec => [][A]_vars
  <2> HIDE DEF A
  <2> QED BY <1>2, IInvHolds, PTL DEF Spec
<1> QED BY <1>3 DEF TerminalIsFinal

\* acquire_locks changes no row that has an owner, expired or not.
LEMMA PrepareKeepsRows ==
  ASSUME NEW p \in Plans, NEW a \in AllActions, PrepareLocks(p, a)
  PROVE  \A s \in Scopes : lock[s].owner # NoPlan => lock'[s] = lock[s]
BY DEF PrepareLocks, Acquired, AllActions

\* An expired row changes only in the transaction that ends a recover request
\* of its owner: finalize refuses to release over it, a manual exit too, and
\* acquire_locks does not renew it.
THEOREM ExpiredRowsKept == Spec => ExpiredLockKept
<1> DEFINE A == \A s \in Scopes :
              lock[s].owner # NoPlan /\ Expired(s) /\ lock'[s] # lock[s] =>
                \E t \in Tickets :
                  /\ ticket[t] = [plan |-> lock[s].owner, action |-> "recover"]
                  /\ ticket'[t] = Idle
<1>1. ASSUME IInv, [Next]_vars PROVE A
  <2> USE <1>1
  <2>0. ASSUME \A s \in Scopes : lock[s].owner # NoPlan /\ Expired(s) => lock'[s] = lock[s]
        PROVE  A
    BY <2>0
  <2>1. ASSUME NEW t \in Tickets, NEW p \in Plans, NEW a \in Actions, Prepare(t, p, a)
        PROVE  A
    <3>1. a \in AllActions /\ PrepareLocks(p, a)
      BY <2>1, PlanAssumption DEF Prepare
    <3> QED BY <2>0, <3>1, PrepareKeepsRows
  <2>2. ASSUME NEW t \in Tickets, Finalize(t) PROVE A
    <3> DEFINE p == ticket[t].plan
               a == ticket[t].action
    <3>0. p \in Plans /\ p # NoPlan /\ ticket[t] # Idle
      BY <2>2, PlanAssumption DEF Finalize, IInv, TicketsOK
    <3>1. PICK to : FinalizeLocks(p, a, to)
      BY <2>2 DEF Finalize
    <3>2. CASE a = "recover" /\ Stale(p) # {}
      <4>1. OnlyRowsOf(p)
        BY <3>0, <3>1, FinalizeLocksOK DEF IInv
      <4>2. ticket[t] = [plan |-> p, action |-> "recover"] /\ ticket'[t] = Idle
        BY <2>2, <3>2 DEF Finalize, IInv, TypeOK
      <4> QED BY <4>1, <4>2, <3>0 DEF OnlyRowsOf
    <3>3. CASE ~(a = "recover" /\ Stale(p) # {})
      <4>1. FinalLocks(lock, p, to)
        BY <3>1, <3>3 DEF FinalizeLocks
      <4> DEFINE own == {s \in Scopes : lock[s].owner = p}
      <4>2. CASE to \in TerminalPlanStates /\ own # {}
        <5>1. \A s \in own : lock[s].expires > now
          BY <4>1, <4>2 DEF FinalLocks
        <5>2. \A s \in own : ~Expired(s)
          BY <5>1 DEF Expired, IInv, TypeOK
        <5>3. \A s \in Scopes : lock'[s] = lock[s] \/ lock[s].owner = p
          BY <3>0, <4>1, FinalLocksOK DEF IInv
        <5> QED BY <2>0, <5>2, <5>3
      <4>3. CASE ~(to \in TerminalPlanStates /\ own # {})
        <5>1. lock' = lock
          BY <4>1, <4>3 DEF FinalLocks
        <5> QED BY <2>0, <5>1
      <4> QED BY <4>2, <4>3
    <3> QED BY <3>2, <3>3
  <2>3. ASSUME NEW p \in Plans, ManualEnter(p) PROVE A
    BY <2>0, <2>3, ManualEnterRows
  <2>4. ASSUME NEW h \in Hosts, ManualExit(h) PROVE A
    <3>1. \A s \in Scopes : lock'[s] # lock[s] => ~Expired(s)
      BY <2>4, ManualExitRows
    <3> QED BY <2>0, <3>1
  <2>5. ASSUME UNCHANGED lock PROVE A
    BY <2>0, <2>5
  <2>6. CASE \/ \E p \in Plans : CreatePlan(p)
             \/ \E t \in Tickets : AdapterCheckpoint(t)
             \/ \E t \in Tickets : Fail(t)
             \/ \E p \in Plans : Reconcile(p)
             \/ ExpireDue
             \/ \E h \in Hosts : ManualRecovery(h)
             \/ Restart
             \/ Tick
             \/ UNCHANGED vars
    BY <2>5, <2>6 DEF CreatePlan, AdapterCheckpoint, Fail, Reconcile, ExpireDue,
                      ReconcilePlans, ManualRecovery, Restart, Tick, vars
  <2> QED BY <2>1, <2>2, <2>3, <2>4, <2>6 DEF Next
<1>2. IInv /\ [Next]_vars => [A]_vars
  BY <1>1
<1>3. Spec => [][A]_vars
  <2> HIDE DEF A
  <2> QED BY <1>2, IInvHolds, PTL DEF Spec
<1> QED BY <1>3 DEF ExpiredLockKept

-----------------------------------------------------------------------------
\* The refinement of MaintenanceWindows.

\* What the mapping needs beyond IInv: a row is one its owner asked for, and a
\* request whose plan has ended meets no row of the plan.
RowsRequested ==
  \A p \in Plans : Held(p) \subseteq Requests[p] \cup {Recovery[p]}

EndedRequestsHoldNothing ==
  \A t \in Tickets, p \in Plans :
    ticket[t].plan = p /\ plan[p] \in TerminalPlanStates => Held(p) = {}

HoldingInv == RowsRequested /\ EndedRequestsHoldNothing

\* A step that touches only rows of p leaves what every other plan holds.
LEMMA OthersHold ==
  ASSUME NEW p \in Plans, OnlyRowsOf(p)
  PROVE  \A q \in Plans \ {p} : Held(q)' = Held(q)
<1> SUFFICES ASSUME NEW q \in Plans \ {p} PROVE Held(q)' = Held(q)
  OBVIOUS
<1>1. q # NoPlan
  BY PlanAssumption
<1> QED BY <1>1 DEF Held, OnlyRowsOf

\* What prepare makes of the rows of its plan: all requested scopes and no
\* other, added to those it had.
LEMMA PrepareHolds ==
  ASSUME IInv, NEW p \in Plans, NEW a \in AllActions, PrepareLocks(p, a)
  PROVE  /\ a = "execute" => /\ Held(p)' = Held(p) \cup Requests[p]
                             /\ \A s \in Requests[p] : lock[s].owner \in {p, NoPlan}
         /\ a = "recover" => \/ lock' = lock
                             \/ /\ Held(p)' = Held(p) \cup Requests[p] \cup {Recovery[p]}
                                /\ lock[Recovery[p]].owner \in {p, NoPlan}
         /\ a \notin {"execute", "recover"} => lock' = lock
<1>0. /\ p # NoPlan
      /\ Requests[p] \in SUBSET Scopes /\ Recovery[p] \in Scopes
  BY PlanAssumption, ScopeAssumption
<1>1. ASSUME NEW tok, NEW scopes \in SUBSET Scopes, CanAcquire(lock, p, scopes, tok),
             lock' = Acquired(lock, p, scopes, tok, LockTTL)
      PROVE  /\ Held(p)' = Held(p) \cup scopes
             /\ \A s \in scopes : lock[s].owner \in {p, NoPlan}
  <2>1. \A s \in scopes : lock[s].owner \in {p, NoPlan}
    BY <1>1 DEF CanAcquire
  <2>2. \A s \in Scopes : lock'[s].owner =
          IF s \in scopes /\ lock[s].owner = NoPlan THEN p ELSE lock[s].owner
    BY <1>1 DEF Acquired
  <2> QED BY <1>0, <2>1, <2>2 DEF Held
<1>2. CASE a = "execute"
  BY <1>0, <1>1, <1>2 DEF PrepareLocks
<1>3. CASE a = "recover"
  <2>1. CASE Stale(p) # {}
    BY <1>3, <2>1 DEF PrepareLocks
  <2>2. CASE Stale(p) = {}
    <3>1. PICK tok \in Tokens :
            /\ CanAcquire(lock, p, Requests[p] \cup {Recovery[p]}, tok)
            /\ lock' = Acquired(lock, p, Requests[p] \cup {Recovery[p]}, tok, LockTTL)
      BY <1>3, <2>2 DEF PrepareLocks
    <3>2. Requests[p] \cup {Recovery[p]} \in SUBSET Scopes
      BY <1>0
    <3> QED BY <1>1, <1>3, <3>1, <3>2
  <2> QED BY <2>1, <2>2
<1>4. CASE a \notin {"execute", "recover"}
  BY <1>4 DEF PrepareLocks
<1> QED BY <1>2, <1>3, <1>4

\* What finalize makes of them: a terminal target gives all rows back; any other
\* leaves the table, or rolls the plan's rows over to its full set.
LEMMA FinalizeHolds ==
  ASSUME IInv, RowsRequested, NEW p \in Plans, NEW a, NEW to, FinalizeLocks(p, a, to)
  PROVE  /\ to \in TerminalPlanStates => Held(p)' = {}
         /\ to \notin TerminalPlanStates =>
              \/ lock' = lock
              \/ /\ Held(p)' = Requests[p] \cup {Recovery[p]}
                 /\ lock[Recovery[p]].owner \in {p, NoPlan}
<1> DEFINE want == Requests[p] \cup {Recovery[p]}
<1>0. p # NoPlan /\ want \in SUBSET Scopes
  BY PlanAssumption, ScopeAssumption
<1>1. to \in TerminalPlanStates => Held(p)' = {}
  BY FinalizeLocksOK DEF IInv, Held
<1>2. ASSUME to \notin TerminalPlanStates, ~(a = "recover" /\ Stale(p) # {})
      PROVE  lock' = lock
  BY <1>2 DEF FinalizeLocks, FinalLocks
<1>3. ASSUME to \notin TerminalPlanStates, a = "recover", Stale(p) # {}
      PROVE  /\ Held(p)' = want
             /\ lock[Recovery[p]].owner \in {p, NoPlan}
  <2>1. PICK tok \in Tokens :
          /\ CanAcquire(StaleReleased(p), p, want, tok)
          /\ FinalLocks(Recovered(p, tok), p, to)
    BY <1>3 DEF FinalizeLocks
  <2>2. lock' = Recovered(p, tok)
    BY <2>1, <1>3 DEF FinalLocks
  <2>3. \A s \in Scopes : StaleReleased(p)[s].owner =
          IF s \in Stale(p) THEN NoPlan ELSE lock[s].owner
    BY DEF StaleReleased, Free
  <2>4. \A s \in want : StaleReleased(p)[s].owner \in {p, NoPlan}
    BY <2>1 DEF CanAcquire
  <2>5. \A s \in Scopes : lock'[s].owner =
          IF s \in want /\ StaleReleased(p)[s].owner = NoPlan
          THEN p ELSE StaleReleased(p)[s].owner
    BY <2>2 DEF Recovered, Acquired
  <2>6. \A s \in Scopes : lock[s].owner = p => s \in want
    BY DEF RowsRequested, Held
  <2>7. \A s \in want : lock'[s].owner = p
    BY <1>0, <2>4, <2>5
  <2>8. \A s \in Scopes \ want : lock'[s].owner # p
    BY <1>0, <2>3, <2>5, <2>6
  <2>9. lock[Recovery[p]].owner \in {p, NoPlan}
    BY <1>0, <2>3, <2>4 DEF Stale, Held
  <2> QED BY <1>0, <2>7, <2>8, <2>9 DEF Held
<1> QED BY <1>1, <1>2, <1>3

\* A step on plan p keeps HoldingInv when p holds no more than it asked for, and
\* nothing once it has ended.
LEMMA HoldingStep ==
  ASSUME HoldingInv, NEW p \in Plans, OnlyRowsOf(p),
         \A q \in Plans \ {p} : plan'[q] = plan[q],
         Held(p)' \subseteq Requests[p] \cup {Recovery[p]},
         plan'[p] \in TerminalPlanStates => Held(p)' = {},
         \A t \in Tickets :
           ticket'[t] \in {ticket[t], Idle} \/ ticket'[t].plan = p
  PROVE  HoldingInv'
<1> USE DEF HoldingInv
<1>1. \A q \in Plans \ {p} : Held(q)' = Held(q)
  BY OthersHold
<1>2. ASSUME NEW q \in Plans
      PROVE  Held(q)' \subseteq Requests[q] \cup {Recovery[q]}
  BY <1>1 DEF RowsRequested
<1>3. ASSUME NEW t \in Tickets, NEW q \in Plans, ticket'[t].plan = q,
             plan'[q] \in TerminalPlanStates
      PROVE  Held(q)' = {}
  <2>1. CASE q = p
    BY <2>1, <1>3
  <2>2. CASE q # p
    <3>1. ticket'[t] = ticket[t]
      BY <2>2, <1>3, PlanAssumption DEF Idle
    <3> QED BY <2>2, <3>1, <1>1, <1>3 DEF EndedRequestsHoldNothing
  <2> QED BY <2>1, <2>2
<1>4. RowsRequested'
  BY <1>2 DEF RowsRequested
<1>5. EndedRequestsHoldNothing'
  BY <1>3 DEF EndedRequestsHoldNothing
<1> QED BY <1>4, <1>5

\* A step that leaves the lock table keeps it when it ends no plan that still
\* has a request in flight.
LEMMA HoldingQuiet ==
  ASSUME HoldingInv, UNCHANGED lock,
         \A t \in Tickets :
           \/ ticket'[t] = Idle
           \/ /\ ticket'[t] = ticket[t]
              /\ \A q \in Plans : plan'[q] \in TerminalPlanStates =>
                   plan[q] \in TerminalPlanStates
  PROVE  HoldingInv'
<1>1. RowsRequested'
  BY DEF HoldingInv, RowsRequested, Held
<1>2. EndedRequestsHoldNothing'
  BY PlanAssumption DEF HoldingInv, EndedRequestsHoldNothing, Held, Idle
<1> QED BY <1>1, <1>2 DEF HoldingInv

\* Every step keeps HoldingInv.
LEMMA NextHolding ==
  IInv /\ HoldingInv /\ [Next]_vars => HoldingInv'
<1> SUFFICES ASSUME IInv, HoldingInv, [Next]_vars PROVE HoldingInv'
  OBVIOUS
<1>1. ASSUME NEW p \in Plans, CreatePlan(p) PROVE HoldingInv'
  <2>1. \A q \in Plans : plan'[q] \in TerminalPlanStates => plan[q] \in TerminalPlanStates
    BY <1>1 DEF CreatePlan, IInv, TypeOK, TerminalPlanStates
  <2> QED BY <1>1, <2>1, HoldingQuiet DEF CreatePlan
<1>2. ASSUME NEW t \in Tickets, NEW p \in Plans, NEW a \in Actions, Prepare(t, p, a)
      PROVE  HoldingInv'
  <2>0. a \in AllActions
    BY PlanAssumption
  <2>1. PrepareLocks(p, a) /\ plan[p] \in ActionStates(a)
    BY <1>2 DEF Prepare
  <2>2. OnlyRowsOf(p)
    BY <2>0, <2>1, PrepareLocksOK DEF IInv
  <2>3. Held(p)' \subseteq Requests[p] \cup {Recovery[p]}
    <3>1. Held(p) \subseteq Requests[p] \cup {Recovery[p]}
      BY DEF HoldingInv, RowsRequested
    <3>2. lock' = lock => Held(p)' = Held(p)
      BY DEF Held
    <3> QED BY <2>0, <2>1, <3>1, <3>2, PrepareHolds DEF AllActions
  <2>4. plan'[p] \notin TerminalPlanStates
    BY <1>2, <2>0, <2>1 DEF Prepare, ActionStates, AllActions, IInv, TypeOK,
                           TerminalPlanStates, InFlightStates
  <2>5. \A q \in Plans \ {p} : plan'[q] = plan[q]
    BY <1>2 DEF Prepare, IInv, TypeOK
  <2>6. \A u \in Tickets : ticket'[u] \in {ticket[u], Idle} \/ ticket'[u].plan = p
    BY <1>2 DEF Prepare, IInv, TypeOK
  <2> QED BY <2>2, <2>3, <2>4, <2>5, <2>6, HoldingStep
<1>3. ASSUME NEW t \in Tickets, AdapterCheckpoint(t) PROVE HoldingInv'
  BY <1>3, HoldingQuiet DEF AdapterCheckpoint
<1>4. ASSUME NEW t \in Tickets, Finalize(t) PROVE HoldingInv'
  <2>0. PICK p \in Plans : p = ticket[t].plan
    BY <1>4 DEF Finalize, IInv, TicketsOK
  <2>1. PICK to : /\ FinalizeLocks(p, ticket[t].action, to)
                  /\ plan' = [plan EXCEPT ![p] = to]
    BY <1>4, <2>0 DEF Finalize
  <2>2. OnlyRowsOf(p)
    BY <2>1, FinalizeLocksOK DEF IInv
  <2>3. plan'[p] = to /\ \A q \in Plans \ {p} : plan'[q] = plan[q]
    BY <2>1 DEF IInv, TypeOK
  <2>4. /\ Held(p)' \subseteq Requests[p] \cup {Recovery[p]}
        /\ to \in TerminalPlanStates => Held(p)' = {}
    <3>1. Held(p) \subseteq Requests[p] \cup {Recovery[p]} /\ RowsRequested
      BY DEF HoldingInv, RowsRequested
    <3>2. lock' = lock => Held(p)' = Held(p)
      BY DEF Held
    <3> QED BY <2>1, <3>1, <3>2, FinalizeHolds
  <2>5. \A u \in Tickets : ticket'[u] \in {ticket[u], Idle}
    BY <1>4 DEF Finalize, IInv, TypeOK
  <2> QED BY <2>2, <2>3, <2>4, <2>5, HoldingStep
<1>5. ASSUME NEW t \in Tickets, Fail(t) PROVE HoldingInv'
  <2>0. ticket[t].plan \in Plans
    BY <1>5 DEF Fail, IInv, TicketsOK
  <2>1. \A q \in Plans : plan'[q] \in TerminalPlanStates => plan[q] \in TerminalPlanStates
    BY <1>5, <2>0 DEF Fail, FailState, IInv, TypeOK, TerminalPlanStates
  <2>2. UNCHANGED lock /\ \A u \in Tickets : ticket'[u] \in {ticket[u], Idle}
    BY <1>5 DEF Fail, IInv, TypeOK
  <2> QED BY <2>1, <2>2, HoldingQuiet
<1>6. ASSUME NEW P, ReconcilePlans(P) PROVE HoldingInv'
  BY <1>6, HoldingQuiet DEF ReconcilePlans, TerminalPlanStates
<1>7. ASSUME NEW p \in Plans, ManualEnter(p) PROVE HoldingInv'
  <2>1. OnlyRowsOf(p) /\ Held(p)' \subseteq Requests[p]
    BY <1>7, ManualEnterRows DEF Held
  <2>2. /\ plan'[p] \notin TerminalPlanStates
        /\ \A q \in Plans \ {p} : plan'[q] = plan[q]
        /\ ticket' = ticket
    BY <1>7 DEF ManualEnter, IInv, TypeOK, TerminalPlanStates
  <2> QED BY <2>1, <2>2, HoldingStep
<1>8. ASSUME NEW h \in Hosts, ManualExit(h) PROVE HoldingInv'
  <2>0. PICK p \in Plans : p = host[h].plan
    BY <1>8, ManualExitRows
  <2>1. OnlyRowsOf(p) /\ Held(p)' = {}
    BY <1>8, <2>0, ManualExitRows DEF Held
  <2>2. /\ \A q \in Plans \ {p} : plan'[q] = plan[q]
        /\ ticket' = ticket
    BY <1>8, <2>0 DEF ManualExit, IInv, TypeOK
  <2> QED BY <2>1, <2>2, HoldingStep
<1>9. ASSUME NEW h \in Hosts, ManualRecovery(h) PROVE HoldingInv'
  <2>1. \A q \in Plans : plan'[q] \in TerminalPlanStates => plan[q] \in TerminalPlanStates
    BY <1>9 DEF ManualRecovery, IInv, TypeOK, TerminalPlanStates
  <2> QED BY <1>9, <2>1, HoldingQuiet DEF ManualRecovery
<1>10. ASSUME Restart PROVE HoldingInv'
  BY <1>10, HoldingQuiet DEF Restart
<1>11. ASSUME UNCHANGED <<plan, lock, ticket>> PROVE HoldingInv'
  BY <1>11, HoldingQuiet
<1> QED BY <1>1, <1>2, <1>3, <1>4, <1>5, <1>6, <1>7, <1>8, <1>9, <1>10, <1>11
        DEF Next, Reconcile, ExpireDue, Tick, vars

\* A row is one its owner asked for, and requests that outlive their plan meet
\* no row of it.
THEOREM HoldingHolds == Spec => []HoldingInv
<1>1. Init => HoldingInv
  BY PlanAssumption DEF Init, HoldingInv, RowsRequested, EndedRequestsHoldNothing, Held,
                        Free, TerminalPlanStates
<1>2. IInv /\ HoldingInv /\ [Next]_vars => HoldingInv'
  BY NextHolding
<1> QED BY <1>1, <1>2, IInvHolds, PTL DEF Spec

\* The steps of MaintenanceWindows under the mapping, from what a step does to
\* the window and the rows of one plan.
LEMMA MapStutter ==
  ASSUME \A p \in Plans : Window(p)' = Window(p) /\ Held(p)' = Held(p)
  PROVE  UNCHANGED Windows!windowVars
BY DEF Windows!windowVars

\* A plan that takes all it requests opens its window.
LEMMA MapOpen ==
  ASSUME NEW p \in Plans, Window(p) = "before", Window(p)' = "open",
         Held(p)' = Requests[p],
         \A s \in Requests[p] : lock[s].owner \in {p, NoPlan},
         \A q \in Plans \ {p} : Window(q)' = Window(q) /\ Held(q)' = Held(q)
  PROVE  Windows!Open(p)
<1>1. \A q \in Plans \ {p} : Held(q) \cap Requests[p] = {}
  BY PlanAssumption DEF Held
<1> QED BY <1>1 DEF Windows!Open, Windows!Available

\* A plan in flight that takes its recovery scope extends its window.
LEMMA MapExtend ==
  ASSUME NEW p \in Plans, Window(p) = "open", Window(p)' = "open",
         Held(p)' = Held(p) \cup {Recovery[p]},
         lock[Recovery[p]].owner \in {p, NoPlan},
         \A q \in Plans \ {p} : Window(q)' = Window(q) /\ Held(q)' = Held(q)
  PROVE  Windows!Extend(p)
<1>1. \A q \in Plans \ {p} : Held(q) \cap {Recovery[p]} = {}
  BY PlanAssumption DEF Held
<1> QED BY <1>1 DEF Windows!Extend, Windows!Available

\* A plan that ends and owns no row closes its window.
LEMMA MapClose ==
  ASSUME NEW p \in Plans, Window(p) = "open", Window(p)' = "over", Held(p)' = {},
         \A q \in Plans \ {p} : Window(q)' = Window(q) /\ Held(q)' = Held(q)
  PROVE  Windows!Close(p)
BY DEF Windows!Close

\* A plan that ends before it was in flight drops its window.
LEMMA MapDrop ==
  ASSUME NEW p \in Plans, Window(p) = "before", Window(p)' = "over", Held(p)' = Held(p),
         \A q \in Plans \ {p} : Window(q)' = Window(q) /\ Held(q)' = Held(q)
  PROVE  Windows!Drop(p)
BY DEF Windows!Drop

\* Plans that startup finds complete finish their windows and keep their rows.
LEMMA MapFinish ==
  ASSUME NEW P \in SUBSET Plans, \A p \in P : Window(p) = "open",
         \A p \in Plans : /\ Window(p)' = IF p \in P THEN "over" ELSE Window(p)
                          /\ Held(p)' = Held(p)
  PROVE  Windows!Finish(P)
BY DEF Windows!Finish

\* What a plan's state says of its window.
LEMMA WindowOf ==
  ASSUME NEW p \in Plans
  PROVE  /\ Window(p) = "open" <=> plan[p] \in InFlightStates
         /\ Window(p) = "over" <=> plan[p] \in TerminalPlanStates
         /\ Window(p) = "before" <=> plan[p] \notin InFlightStates \cup TerminalPlanStates
         /\ Window(p)' = "open" <=> plan'[p] \in InFlightStates
         /\ Window(p)' = "over" <=> plan'[p] \in TerminalPlanStates
         /\ Window(p)' = "before" <=> plan'[p] \notin InFlightStates \cup TerminalPlanStates
         /\ plan'[p] = plan[p] => Window(p)' = Window(p)
BY DEF Window, InFlightStates, TerminalPlanStates

\* A plan whose window has not been opened has no row.
LEMMA BeforeHoldsNothing ==
  ASSUME IInv, NEW p \in Plans, plan[p] \notin InFlightStates \cup TerminalPlanStates
  PROVE  Held(p) = {}
BY PlanAssumption DEF IInv, LocksBelongToInFlight, Held, TerminalPlanStates

\* prepare opens a window (execute), takes the recovery scope (recover) or
\* changes nothing of any window.
LEMMA PrepareRefines ==
  ASSUME IInv, HoldingInv, NEW t \in Tickets, NEW p \in Plans, NEW a \in Actions,
         Prepare(t, p, a)
  PROVE  [Windows!WindowsNext]_(Windows!windowVars)
<1>0. a \in AllActions
  BY PlanAssumption
<1>1. PrepareLocks(p, a) /\ plan[p] \in ActionStates(a)
  BY DEF Prepare
<1>2. /\ plan'[p] = IF a \in {"execute", "resume"} THEN "executing" ELSE plan[p]
      /\ \A q \in Plans \ {p} : plan'[q] = plan[q]
  BY DEF Prepare, IInv, TypeOK
<1>3. OnlyRowsOf(p)
  BY <1>0, <1>1, PrepareLocksOK DEF IInv
<1>4. \A q \in Plans \ {p} : Window(q)' = Window(q) /\ Held(q)' = Held(q)
  BY <1>2, <1>3, OthersHold, WindowOf
<1>5. CASE a = "execute"
  <2>1. plan[p] = "ready" /\ plan'[p] = "executing"
    BY <1>1, <1>2, <1>5 DEF ActionStates
  <2>2. Window(p) = "before" /\ Window(p)' = "open"
    BY <2>1, WindowOf DEF InFlightStates, TerminalPlanStates
  <2>3. Held(p) = {}
    BY <2>1, BeforeHoldsNothing DEF InFlightStates, TerminalPlanStates
  <2>4. /\ Held(p)' = Held(p) \cup Requests[p]
        /\ \A s \in Requests[p] : lock[s].owner \in {p, NoPlan}
    BY <1>0, <1>1, <1>5, PrepareHolds
  <2>5. Windows!Open(p)
    BY <1>4, <2>2, <2>3, <2>4, MapOpen
  <2> QED BY <2>5 DEF Windows!WindowsNext
<1>6. ASSUME lock' = lock, a # "execute" PROVE UNCHANGED Windows!windowVars
  <2>1. Held(p)' = Held(p)
    BY <1>6 DEF Held
  <2>2. Window(p)' = Window(p)
    BY <1>0, <1>1, <1>2, <1>6, WindowOf DEF ActionStates, AllActions, InFlightStates
  <2> QED BY <1>4, <2>1, <2>2, MapStutter
<1>7. CASE a = "recover" /\ lock' # lock
  <2>1. plan[p] = "recovery_required" /\ plan'[p] = plan[p]
    BY <1>1, <1>2, <1>7 DEF ActionStates
  <2>2. Window(p) = "open" /\ Window(p)' = "open"
    BY <2>1, WindowOf DEF InFlightStates
  <2>3. /\ Held(p)' = Held(p) \cup Requests[p] \cup {Recovery[p]}
        /\ lock[Recovery[p]].owner \in {p, NoPlan}
    BY <1>0, <1>1, <1>7, PrepareHolds
  <2>4. Requests[p] \subseteq Held(p)
    BY <2>1, ScopeAssumption DEF IInv, InFlightHoldsLocks, InFlightStates, Held
  <2>5. Held(p)' = Held(p) \cup {Recovery[p]}
    BY <2>3, <2>4
  <2>6. Windows!Extend(p)
    BY <1>4, <2>2, <2>3, <2>5, MapExtend
  <2> QED BY <2>6 DEF Windows!WindowsNext
<1>8. a \notin {"execute", "recover"} => lock' = lock
  BY <1>0, <1>1, PrepareHolds
<1> QED BY <1>5, <1>6, <1>7, <1>8

\* finalize closes a window, drops one that was never opened, rolls the rows of
\* an open one over, or changes nothing of any window.
LEMMA FinalizeRefines ==
  ASSUME IInv, HoldingInv, NEW t \in Tickets, Finalize(t)
  PROVE  [Windows!WindowsNext]_(Windows!windowVars)
<1>0. PICK p \in Plans : p = ticket[t].plan
  BY DEF Finalize, IInv, TicketsOK
<1> DEFINE a == ticket[t].action
<1>1. PICK res \in ResultStates(a) :
        /\ CanReach(plan[p], ResultState(p, res))
        /\ FinalizeLocks(p, a, ResultState(p, res))
        /\ plan' = [plan EXCEPT ![p] = ResultState(p, res)]
  BY <1>0 DEF Finalize
<1>2. PICK to : to = ResultState(p, res)
  OBVIOUS
<1>3. plan'[p] = to /\ \A q \in Plans \ {p} : plan'[q] = plan[q]
  BY <1>1, <1>2 DEF IInv, TypeOK
<1>4. /\ OnlyRowsOf(p)
      /\ to \in TerminalPlanStates => Held(p)' = {}
      /\ to \notin TerminalPlanStates =>
           \/ lock' = lock
           \/ /\ Held(p)' = Requests[p] \cup {Recovery[p]}
              /\ lock[Recovery[p]].owner \in {p, NoPlan}
  BY <1>1, <1>2, FinalizeLocksOK, FinalizeHolds DEF IInv, HoldingInv
<1>5. \A q \in Plans \ {p} : Window(q)' = Window(q) /\ Held(q)' = Held(q)
  BY <1>3, <1>4, OthersHold, WindowOf
<1>6. /\ a \in AllActions
      /\ a # "cancel" => plan[p] \in InFlightStates \cup TerminalPlanStates
  BY <1>0 DEF Finalize, IInv, TicketsOK
<1>7. /\ to \in InFlightStates \cup TerminalPlanStates
      /\ to \in InFlightStates => plan[p] \in InFlightStates
  <2>1. CASE a = "cancel"
    BY <2>1, <1>1, <1>2 DEF ResultState, ResultStates, CanReach, PlanTransitions,
                            InFlightStates, TerminalPlanStates
  <2>2. CASE a # "cancel"
    BY <2>2, <1>1, <1>2, <1>6 DEF ResultState, ResultStates, AllActions, CanReach,
                            PlanTransitions, InFlightStates, TerminalPlanStates
  <2> QED BY <2>1, <2>2
<1>8. CASE to \in TerminalPlanStates
  <2>1. Window(p)' = "over" /\ Held(p)' = {}
    BY <1>3, <1>4, <1>8, WindowOf
  <2>2. CASE plan[p] \in InFlightStates
    <3>1. Windows!Close(p)
      BY <1>5, <2>1, <2>2, WindowOf, MapClose
    <3> QED BY <3>1 DEF Windows!WindowsNext
  <2>3. CASE plan[p] \in TerminalPlanStates
    <3>1. Held(p) = {} /\ Window(p) = "over"
      BY <1>0, <2>3, WindowOf DEF HoldingInv, EndedRequestsHoldNothing
    <3> QED BY <1>5, <2>1, <3>1, MapStutter
  <2>4. CASE plan[p] \notin InFlightStates \cup TerminalPlanStates
    <3>1. Held(p) = {} /\ Window(p) = "before"
      BY <2>4, WindowOf, BeforeHoldsNothing
    <3>2. Windows!Drop(p)
      BY <1>5, <2>1, <3>1, MapDrop
    <3> QED BY <3>2 DEF Windows!WindowsNext
  <2> QED BY <2>2, <2>3, <2>4
<1>9. CASE to \in InFlightStates /\ to \notin TerminalPlanStates
  <2>1. Window(p) = "open" /\ Window(p)' = "open"
    BY <1>3, <1>7, <1>9, WindowOf
  <2>2. CASE lock' = lock
    <3>1. Held(p)' = Held(p)
      BY <2>2 DEF Held
    <3> QED BY <1>5, <2>1, <3>1, MapStutter
  <2>3. CASE lock' # lock
    <3>1. Requests[p] \subseteq Held(p)
      BY <1>7, <1>9, ScopeAssumption DEF IInv, InFlightHoldsLocks, Held
    <3>2. Held(p) \subseteq Requests[p] \cup {Recovery[p]}
      BY DEF HoldingInv, RowsRequested
    <3>3. Held(p)' = Held(p) \cup {Recovery[p]} /\ lock[Recovery[p]].owner \in {p, NoPlan}
      BY <1>4, <1>9, <2>3, <3>1, <3>2
    <3>4. Windows!Extend(p)
      BY <1>5, <2>1, <3>3, MapExtend
    <3> QED BY <3>4 DEF Windows!WindowsNext
  <2> QED BY <2>2, <2>3
<1> QED BY <1>7, <1>8, <1>9

\* Manual mode opens its window on entry and closes it on a verified exit.
LEMMA ManualEnterRefines ==
  ASSUME IInv, NEW p \in Plans, ManualEnter(p)
  PROVE  [Windows!WindowsNext]_(Windows!windowVars)
<1>1. /\ plan[p] = "absent" /\ plan'[p] = "executing"
      /\ \A q \in Plans \ {p} : plan'[q] = plan[q]
  BY DEF ManualEnter, IInv, TypeOK
<1>2. Window(p) = "before" /\ Window(p)' = "open"
  BY <1>1, WindowOf DEF InFlightStates, TerminalPlanStates
<1>3. /\ OnlyRowsOf(p)
      /\ Held(p)' = Requests[p]
      /\ \A s \in Requests[p] : lock[s].owner = NoPlan
  BY ManualEnterRows, ScopeAssumption DEF Held
<1>4. \A q \in Plans \ {p} : Window(q)' = Window(q) /\ Held(q)' = Held(q)
  BY <1>1, <1>3, OthersHold, WindowOf
<1>5. Windows!Open(p)
  BY <1>2, <1>3, <1>4, MapOpen
<1> QED BY <1>5 DEF Windows!WindowsNext

\* The exit of manual mode closes a window.
LEMMA ManualExitRefines ==
  ASSUME IInv, NEW h \in Hosts, ManualExit(h)
  PROVE  [Windows!WindowsNext]_(Windows!windowVars)
<1>0. PICK p \in Plans : p = host[h].plan
  BY ManualExitRows
<1>1. /\ plan[p] \in InFlightStates /\ OnlyRowsOf(p) /\ Held(p)' = {}
  BY <1>0, ManualExitRows DEF Held
<1>2. /\ plan'[p] = "succeeded"
      /\ \A q \in Plans \ {p} : plan'[q] = plan[q]
  BY <1>0 DEF ManualExit, IInv, TypeOK
<1>3. Window(p) = "open" /\ Window(p)' = "over"
  BY <1>1, <1>2, WindowOf DEF TerminalPlanStates
<1>4. \A q \in Plans \ {p} : Window(q)' = Window(q) /\ Held(q)' = Held(q)
  BY <1>1, <1>2, OthersHold, WindowOf
<1>5. Windows!Close(p)
  BY <1>1, <1>3, <1>4, MapClose
<1> QED BY <1>5 DEF Windows!WindowsNext

\* A restart finishes the windows of the plans it classifies complete, all in
\* one transaction, and leaves their rows.
LEMMA RestartRefines ==
  ASSUME IInv, Restart
  PROVE  [Windows!WindowsNext]_(Windows!windowVars)
<1> DEFINE P == {p \in Plans : plan[p] \in InFlightStates /\ Complete(p)}
<1>1. P \in SUBSET Plans /\ P \in SUBSET CompleteEvidence
  BY DEF Complete
<1>2. \A p \in Plans : plan'[p] = RestartState(p)
  BY DEF Restart
<1>3. \A p \in P : Window(p) = "open"
  BY WindowOf
<1>4. \A p \in Plans : Window(p)' = IF p \in P THEN "over" ELSE Window(p)
  BY <1>2 DEF RestartState, Window, InFlightStates, TerminalPlanStates
<1>5. \A p \in Plans : Held(p)' = Held(p)
  BY DEF Restart, Held
<1>6. Windows!Finish(P)
  <2> HIDE DEF P
  <2> QED BY <1>1, <1>3, <1>4, <1>5, MapFinish
<1> QED BY <1>1, <1>6 DEF Windows!WindowsNext

\* A step that leaves the lock table and moves plans only inside their part of
\* the lifecycle changes nothing of any window.
LEMMA QuietRefines ==
  ASSUME UNCHANGED lock,
         \A q \in Plans :
           /\ plan'[q] \in InFlightStates <=> plan[q] \in InFlightStates
           /\ plan'[q] \in TerminalPlanStates <=> plan[q] \in TerminalPlanStates
  PROVE  [Windows!WindowsNext]_(Windows!windowVars)
<1>1. \A q \in Plans : Window(q)' = Window(q) /\ Held(q)' = Held(q)
  BY DEF Window, Held
<1> QED BY <1>1, MapStutter

\* Every step of the coordinator is a step of MaintenanceWindows or a stutter.
LEMMA NextRefines ==
  IInv /\ HoldingInv /\ [Next]_vars => [Windows!WindowsNext]_(Windows!windowVars)
<1> DEFINE G == [Windows!WindowsNext]_(Windows!windowVars)
<1> SUFFICES ASSUME IInv, HoldingInv, [Next]_vars PROVE G
  OBVIOUS
<1> HIDE DEF G
<1>1. ASSUME NEW p \in Plans, CreatePlan(p) PROVE G
  <2>1. \A q \in Plans :
           /\ plan'[q] \in InFlightStates <=> plan[q] \in InFlightStates
           /\ plan'[q] \in TerminalPlanStates <=> plan[q] \in TerminalPlanStates
    BY <1>1 DEF CreatePlan, IInv, TypeOK, InFlightStates, TerminalPlanStates
  <2> QED BY <1>1, <2>1, QuietRefines DEF CreatePlan, G
<1>2. ASSUME NEW t \in Tickets, NEW p \in Plans, NEW a \in Actions, Prepare(t, p, a)
      PROVE  G
  BY <1>2, PrepareRefines DEF G
<1>3. ASSUME NEW t \in Tickets, Finalize(t) PROVE G
  BY <1>3, FinalizeRefines DEF G
<1>4. ASSUME NEW t \in Tickets, Fail(t) PROVE G
  <2>0. ticket[t].plan \in Plans
    BY <1>4 DEF Fail, IInv, TicketsOK
  <2>1. \A q \in Plans :
           /\ plan'[q] \in InFlightStates <=> plan[q] \in InFlightStates
           /\ plan'[q] \in TerminalPlanStates <=> plan[q] \in TerminalPlanStates
    BY <1>4, <2>0 DEF Fail, FailState, IInv, TypeOK, InFlightStates, TerminalPlanStates
  <2> QED BY <1>4, <2>1, QuietRefines DEF Fail, G
<1>5. ASSUME NEW P \in SUBSET Plans, \A p \in P : plan[p] \in InFlightStates,
             ReconcilePlans(P)
      PROVE  G
  <2>1. \A q \in Plans :
           /\ plan'[q] \in InFlightStates <=> plan[q] \in InFlightStates
           /\ plan'[q] \in TerminalPlanStates <=> plan[q] \in TerminalPlanStates
    BY <1>5 DEF ReconcilePlans, InFlightStates, TerminalPlanStates
  <2> QED BY <1>5, <2>1, QuietRefines DEF ReconcilePlans, G
<1>6. ASSUME NEW p \in Plans, Reconcile(p) PROVE G
  <2>1. {p} \in SUBSET Plans /\ ReconcilePlans({p}) /\ \A q \in {p} : plan[q] \in InFlightStates
    BY <1>6 DEF Reconcile
  <2> QED BY <1>5, <2>1
<1>7. ASSUME ExpireDue PROVE G
  <2> DEFINE due == {p \in Plans : Planned(p) /\ plan[p] \in InFlightStates /\ Due(p)}
  <2>1. due \in SUBSET Plans /\ ReconcilePlans(due) /\ \A q \in due : plan[q] \in InFlightStates
    BY <1>7 DEF ExpireDue
  <2> QED BY <1>5, <2>1
<1>8. ASSUME NEW p \in Plans, ManualEnter(p) PROVE G
  BY <1>8, ManualEnterRefines DEF G
<1>9. ASSUME NEW h \in Hosts, ManualExit(h) PROVE G
  BY <1>9, ManualExitRefines DEF G
<1>10. ASSUME NEW h \in Hosts, ManualRecovery(h) PROVE G
  <2>1. \A q \in Plans :
           /\ plan'[q] \in InFlightStates <=> plan[q] \in InFlightStates
           /\ plan'[q] \in TerminalPlanStates <=> plan[q] \in TerminalPlanStates
    BY <1>10 DEF ManualRecovery, PlanTransitions, IInv, TypeOK, InFlightStates,
                 TerminalPlanStates
  <2> QED BY <1>10, <2>1, QuietRefines DEF ManualRecovery, G
<1>11. ASSUME Restart PROVE G
  BY <1>11, RestartRefines DEF G
<1>12. ASSUME UNCHANGED <<plan, lock>> PROVE G
  BY <1>12, QuietRefines DEF G
<1> QED BY <1>1, <1>2, <1>3, <1>4, <1>6, <1>7, <1>8, <1>9, <1>10, <1>11, <1>12
        DEF Next, AdapterCheckpoint, Tick, vars

\* The coordinator implements MaintenanceWindows: rows that expire, requests
\* that interleave, failures, restarts and recoveries never take or return a
\* part of a window.
THEOREM WindowsImplemented == Spec => ImplementsWindows
<1>1. Init => Windows!WindowsInit
  BY PlanAssumption DEF Init, Windows!WindowsInit, Window, Held, Free, InFlightStates,
                        TerminalPlanStates
<1>2. IInv /\ HoldingInv /\ [Next]_vars => [Windows!WindowsNext]_(Windows!windowVars)
  BY NextRefines
<1> QED BY <1>1, <1>2, IInvHolds, HoldingHolds, PTL
        DEF Spec, ImplementsWindows, Windows!WindowsSpec
=============================================================================
