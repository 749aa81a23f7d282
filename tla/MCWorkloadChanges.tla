------------------------- MODULE MCWorkloadChanges -------------------------
(***************************************************************************)
(* Instances of WorkloadChanges: two masters and a hot role of a cluster   *)
(* that starts empty.                                                      *)
(***************************************************************************)
EXTENDS WorkloadChanges

Change(kind, slot, config) == [kind |-> kind, slot |-> slot, config |-> config]

McSlots == {"m1", "m2", "h"}
McRole == [s \in McSlots |-> IF s = "h" THEN "hot" ELSE "master"]
McRank == [s \in McSlots |-> CASE s = "m1" -> 1 [] s = "m2" -> 2 [] s = "h" -> 3]
McConfigs == {"small", "large"}

(* A new cluster whose plan is not in the order of execution, an extension *)
(* with a resource change, and a change with a detach.                     *)
McChangeSets ==
  {<<Change("create", "m2", "small"), Change("create", "h", "small"), Change("create", "m1", "small")>>,
   <<Change("resources", "h", "large"), Change("create", "m2", "small")>>,
   <<Change("detach", "m2", "small"), Change("resources", "h", "large")>>}

(* Direct mutations of one master and of the hot role. *)
McDirect == {<<"m1", "small">>, <<"h", "small">>, <<"h", "large">>}

=============================================================================
