-------------------------- MODULE RangeOperationsMC --------------------------
(***************************************************************************)
(* Instances of RangeOperations for TLC. Each run allows the rare events   *)
(* its question is about, and none of the others.                          *)
(***************************************************************************)
EXTENDS RangeOperations, FiniteSets, TLC

\* Executions are interchangeable (safety runs only).
Interchangeable == Permutations(Execution)

Allow(events) == [f \in Rare |-> IF f \in events THEN 1 ELSE 0]

WorkerCrash   == Allow({"crash"})
ProcessDeaths == Allow({"crash", "senderDies", "lateBeat", "partial", "dbError"})
OtherFaults   == Allow({"softLimit", "straggler", "unreadable", "window", "racedRead", "writeOff"})

Happened == {f \in Rare : Spent(f)}

\* A worker and an API process die, or one other kind of rare event happens, or a snapshot is
\* restored.
DeathsOrOne ==
    /\ Happened \subseteq {"crash", "senderDies"} \/ Cardinality(Happened) <= 1
    /\ restore # "none" => Happened = {}

\* At most one kind of rare event in a behaviour, or a raced request of a build that meets a
\* window, and those of up to two operations: a third one follows a stop, to complete a
\* power cycle. A bypass changes something only where there is a window. A restore
\* meets the first operation, and a stop that races it.
OneFault ==
    /\ \/ Cardinality(Happened) <= 1
       \/ Happened = {"racedRead", "window"} /\ \A g \in Generation : ops[g].action = "provision"
    /\ gen > 2 => ops[2].action = "stop" /\ ~ops[3].bypass /\ Happened = {}
    /\ Happened # {} /\ "window" \notin Happened => \A g \in Generation : ~ops[g].bypass
    /\ restore # "none" => Happened \subseteq {"racedRead"} /\ gen <= Cardinality(Happened) + 1
    /\ restore # "none" /\ gen = 2 => ops[2].action = "stop"
==============================================================================
