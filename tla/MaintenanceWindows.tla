------------------------- MODULE MaintenanceWindows -------------------------
(***************************************************************************)
(* What the maintenance coordinator promises of its windows: a plan opens  *)
(* its window when it gets everything it needs at once, has all of it for  *)
(* as long as the window is open, and gives all of it back when the window *)
(* is over.  Nobody has what another has.  Of a window that a restart      *)
(* finds finished, what it had stays with it.                              *)
(*                                                                         *)
(* MaintenanceExecution implements this with lock rows that expire, action *)
(* requests that interleave, failures, restarts and recoveries.            *)
(***************************************************************************)

CONSTANTS
  Plans,
  Scopes,
  Needs,      \* scopes of a plan's window
  Extra,      \* the scope it may take in addition while it is recovered
  Finishable  \* plans that a restart may find finished

VARIABLES
  window,     \* "before", "open" or "over"
  holding     \* scopes each plan has

windowVars == <<window, holding>>

WindowsInit ==
  /\ window = [p \in Plans |-> "before"]
  /\ holding = [p \in Plans |-> {}]

Available(p, S) == \A q \in Plans \ {p} : holding[q] \cap S = {}

Open(p) ==
  /\ window[p] = "before"
  /\ Available(p, Needs[p])
  /\ window' = [window EXCEPT ![p] = "open"]
  /\ holding' = [holding EXCEPT ![p] = Needs[p]]

Extend(p) ==
  /\ window[p] = "open"
  /\ Available(p, {Extra[p]})
  /\ holding' = [holding EXCEPT ![p] = @ \cup {Extra[p]}]
  /\ UNCHANGED window

Close(p) ==
  /\ window[p] = "open"
  /\ window' = [window EXCEPT ![p] = "over"]
  /\ holding' = [holding EXCEPT ![p] = {}]

\* A plan that never opens its window.
Drop(p) ==
  /\ window[p] = "before"
  /\ window' = [window EXCEPT ![p] = "over"]
  /\ UNCHANGED holding

\* A restart finds the windows of P finished.
Finish(P) ==
  /\ \A p \in P : window[p] = "open"
  /\ window' = [p \in Plans |-> IF p \in P THEN "over" ELSE window[p]]
  /\ UNCHANGED holding

WindowsNext ==
  \/ \E p \in Plans : Open(p) \/ Extend(p) \/ Close(p) \/ Drop(p)
  \/ \E P \in SUBSET Finishable : Finish(P)

WindowsSpec == WindowsInit /\ [][WindowsNext]_windowVars
=============================================================================
