----------------------------- MODULE BookingsMC -----------------------------
(***************************************************************************)
(* Instances of Bookings for TLC.                                          *)
(***************************************************************************)
EXTENDS Bookings, TLC

CONSTANTS b1, b2,
          MaxRare  \* bound: kinds of rare events in one behaviour

\* One booking at the first slot; the other (a class's session) there or later, or only later.
Slots == b1 :> {1} @@ b2 :> {1, 3}
Later == b1 :> {1} @@ b2 :> {3}

Allow(events) == [f \in Rare |-> IF f \in events THEN 1 ELSE 0]

AllRare == Allow(Rare)
Windows == Allow({"window"})
Edits   == Allow({"moved", "person"})

FewRare == Cardinality({f \in Rare : Spent(f)}) <= MaxRare
=============================================================================
