--------------------------- MODULE LabSessionsMC ---------------------------
(***************************************************************************)
(* Instances of LabSessions for TLC.                                       *)
(***************************************************************************)
EXTENDS LabSessions

Allow(events) == [f \in Rare |-> IF f \in events THEN 1 ELSE 0]

AllFaults  == Allow(Rare)
OneTenant  == [s \in Session |-> "a"]
TwoTenants == [s \in Session |-> IF s = 1 THEN "a" ELSE "b"]

LateReconcile == Allow({"late", "partial"})
=============================================================================
