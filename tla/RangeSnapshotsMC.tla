-------------------------- MODULE RangeSnapshotsMC --------------------------
(***************************************************************************)
(* Instances of RangeSnapshots for TLC.                                    *)
(***************************************************************************)
EXTENDS RangeSnapshots

Allow(events) == [f \in Rare |-> IF f \in events THEN 1 ELSE 0]

AllFaults == Allow(Rare)
=============================================================================
