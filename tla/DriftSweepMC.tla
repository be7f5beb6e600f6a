----------------------------- MODULE DriftSweepMC -----------------------------
(***************************************************************************)
(* Instances of DriftSweep for TLC.                                        *)
(***************************************************************************)
EXTENDS DriftSweep

Once == [f \in Rare |-> 1]
===============================================================================
