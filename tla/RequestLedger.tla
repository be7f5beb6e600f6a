---------------------------- MODULE RequestLedger ----------------------------
(***************************************************************************)
(* What the range operations of the API promise their clients: a ledger of *)
(* numbered requests. They are entered in order; at most one is open; one  *)
(* that was closed keeps its outcome for ever; entering a request closes   *)
(* the one that was open. How requests are sent, held, worked on, retried  *)
(* and settled does not show.                                              *)
(***************************************************************************)
EXTENDS Naturals

CONSTANT MaxGen   \* requests that may be entered

VARIABLE log      \* the ledger: log[g] is where request g is

Entry == 1 .. MaxGen

Closed == {"succeeded", "failed", "superseded", "abandoned"}

Init == log = [g \in Entry |-> "none"]

\* The next request is entered, and closes the one that was open with some outcome.
Submit(g) ==
    /\ log[g] = "none" /\ \A h \in Entry : h < g => log[h] # "none"
    /\ \E outcome \in Closed :
          log' = [h \in Entry |-> IF h = g THEN "open" ELSE IF log[h] = "open" THEN outcome ELSE log[h]]

\* The open request gets its outcome.
Close(g) ==
    /\ log[g] = "open"
    /\ \E outcome \in Closed : log' = [log EXCEPT ![g] = outcome]

Next == \E g \in Entry : Submit(g) \/ Close(g)

Spec == Init /\ [][Next]_log
==============================================================================
