----------------------------- MODULE RangeStates -----------------------------
(***************************************************************************)
(* The states a range row can be in, the transitions the API's state       *)
(* machine allows (api/app/state_machines.py), and the table of range      *)
(* operations (api/app/range_ops/service.py, ACTIONS): the in-progress     *)
(* state an accepted operation puts the range in, and the range states     *)
(* that settle it.                                                         *)
(***************************************************************************)

RangeState == {"created", "provisioning", "ready", "running", "stopping",
               "stopped", "starting", "destroying", "destroyed", "failed"}

\* state_machines.py, _RANGE_TRANSITIONS: the states reachable from s.
Transitions(s) ==
    CASE s = "created"      -> {"provisioning", "destroyed"}
      [] s = "provisioning" -> {"ready", "failed"}
      [] s = "ready"        -> {"running", "stopping", "destroying", "failed"}
      [] s = "running"      -> {"stopping", "destroying"}
      [] s = "stopping"     -> {"stopped", "failed", "destroying"}
      [] s = "stopped"      -> {"starting", "destroying"}
      [] s = "starting"     -> {"running", "failed", "destroying"}
      [] s = "destroying"   -> {"destroyed", "failed"}
      [] s = "failed"       -> {"provisioning", "destroying", "destroyed"}
      [] OTHER              -> {}

Action == {"provision", "destroy", "stop", "start"}

\* Action.in_progress: the state the range is in while the operation runs.
InProgress(a) ==
    CASE a = "provision" -> "provisioning"
      [] a = "destroy"   -> "destroying"
      [] a = "stop"      -> "stopping"
      [] OTHER           -> "starting"

\* The state the worker records when the operation's work succeeded.
Done(a) ==
    CASE a = "provision" -> "ready"
      [] a = "destroy"   -> "destroyed"
      [] a = "stop"      -> "stopped"
      [] OTHER           -> "running"

\* Action.outcomes: the range states from which an operation's outcome is read.
Outcomes(a) == {Done(a), "failed"}

Outcome(a, s) == IF s = Done(a) THEN "succeeded" ELSE "failed"

InProgressStates == {InProgress(a) : a \in Action}

\* States of a range whose build was recorded (worker/db_ops.py, LIVE_RANGE_STATES).
LiveStates == {"ready", "running", "stopping", "stopped", "starting"}
==============================================================================
