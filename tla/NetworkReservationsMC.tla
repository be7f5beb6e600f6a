------------------------ MODULE NetworkReservationsMC ------------------------
(***************************************************************************)
(* Instances of NetworkReservations for TLC.                               *)
(***************************************************************************)
EXTENDS NetworkReservations

CONSTANTS r1, r2

Needs == [r \in Ranges |-> IF r = r1 THEN 2 ELSE 1]

Allow(events) == [f \in Rare |-> IF f \in events THEN 1 ELSE 0]

AllFaults == Allow(Rare)
==============================================================================
