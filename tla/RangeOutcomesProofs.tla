------------------------- MODULE RangeOutcomesProofs -------------------------
(***************************************************************************)
(* What RangeOperations promises about a range's VMs and about what its    *)
(* operations report: no build is forgotten, a range's state tells whether *)
(* it has VMs, an outcome is one the operation's own worker recorded, and  *)
(* a call left running stays covered until somebody abandons it. The       *)
(* arguments rest on the cover and on the requests of                      *)
(* RangeOperationsProofs: an execution that has not ended is alone.        *)
(***************************************************************************)
EXTENDS RangeOperationsProofs

\* x found the range waiting for it and has not given up: it may yet change its VMs.
Active(x) == ex[x].pc \in {"entry", "holding", "run", "calling", "result", "discard", "leftover"}

\* What an execution knows of the range's VMs. A build starts on a range without any; whoever
\* carries one is about to record it or to discard it, and discards it only when the range no
\* longer waits for a build; a teardown works on a range that is destroyed, or was abandoned, and
\* leaves VMs only if it was partial.
Build(x) ==
    /\ ex[x].made => ex[x].pc \in {"result", "discard", "leftover"} /\ ex[x].job = "provision"
    /\ ex[x].pc = "result" /\ ex[x].job = "provision" => ex[x].made
    /\ Active(x) /\ ex[x].job = "provision" => ~vms
    /\ ex[x].pc # "idle" /\ ex[x].job = "provision" /\ lease.tomb => rstate # "provisioning"
    /\ ex[x].pc \in {"discard", "leftover"} => ex[x].job = "provision" /\ rstate # "provisioning"
    /\ Active(x) /\ ex[x].job = "destroy" => rstate \in {"destroying", "failed", "destroyed"}
    /\ ex[x].pc = "result" /\ ex[x].job = "destroy" => (hv => Spent("partial"))

\* What the row says of the VMs. Nothing is at work on a range before its first build or after
\* its teardown.
Machines ==
    /\ hv => vms
    /\ rstate = "provisioning" => ~vms
    /\ rstate \in LiveStates => vms /\ hv
    /\ rstate \in {"created", "destroyed"} /\ ~Spent("writeOff") =>
          (hv => Spent("partial")) /\ \A x \in Execution : ~Active(x)

BuildInv == CoverInv /\ BudgetInv /\ Machines /\ \A x \in Execution : Build(x)

\* An idle execution carries nothing.
LEMMA IdleBuild ==
    ASSUME BuildInv, NEW x \in Execution, ex[x].pc = "idle"
    PROVE  ~ex[x].made /\ ~Active(x)
BY DEF BuildInv, Build, Active

\* A range nobody has an unexpired lease on has no execution.
LEMMA NobodyActing ==
    ASSUME CoverInv, Timely, ~WorkerActing(lease)
    PROVE  \A x \in Execution : ex[x].pc = "idle"
BY CoverMeans, LeaseAssumption DEF WorkerActing, LeaseAssumption

-----------------------------------------------------------------------------
(* Steps that leave the executions alone.                                  *)

\* Nothing the invariant speaks of changes.
LEMMA SameBuild ==
    ASSUME BuildInv, [Next]_vars, CoverInv', BudgetInv', UNCHANGED <<rstate, vms, hv>>, lease'.tomb = lease.tomb,
           \A x \in Execution : /\ ex'[x].pc = ex[x].pc /\ ex'[x].job = ex[x].job
                                /\ ex'[x].made = ex[x].made
    PROVE  BuildInv'
<1>1. (Spent("writeOff") => Spent("writeOff")') /\ (Spent("partial") => Spent("partial")')
  BY SpentStays DEF BuildInv, CoverInv, Rare
<1>2. \A x \in Execution : Active(x)' <=> Active(x)
  BY DEF Active
<1>3. Machines'
  BY <1>1, <1>2 DEF BuildInv, Machines
<1>4. ASSUME NEW x \in Execution PROVE Build(x)'
  <2>1. Build(x)
    BY DEF BuildInv
  <2> QED BY <1>1, <1>2, <2>1 DEF Build
<1> QED BY <1>3, <1>4 DEF BuildInv

\* Only the range's state changes, and its new state is no worse.
LEMMA MovedBuild ==
    ASSUME BuildInv, [Next]_vars, CoverInv', BudgetInv', UNCHANGED <<vms, hv, ex>>,
           lease'.tomb = lease.tomb \/ rstate' # "provisioning",
           rstate' = "provisioning" => ~vms /\ \A x \in Execution : ex[x].pc = "idle",
           rstate' \in LiveStates => vms /\ hv /\ \A x \in Execution : ex[x].pc = "idle",
           rstate' # "created", rstate' = "destroyed" => Spent("writeOff")' \/ rstate = "created"
    PROVE  BuildInv'
<1>1. (Spent("writeOff") => Spent("writeOff")') /\ (Spent("partial") => Spent("partial")')
  BY SpentStays DEF BuildInv, CoverInv, Rare
<1>2. \A x \in Execution : Active(x)' <=> Active(x)
  BY DEF Active
<1>3. \A x \in Execution : ex[x].pc = "idle" => ~ex[x].made /\ ~Active(x)
  BY IdleBuild
<1>4. Machines'
  BY <1>1, <1>2 DEF BuildInv, Machines
<1>5. rstate' \in RangeState
  BY DEF CoverInv, TypeOK
<1>6. ASSUME NEW x \in Execution PROVE Build(x)'
  <2>1. Build(x)
    BY DEF BuildInv
  <2>2. CASE ex[x].pc = "idle"
    BY <1>2, <1>3, <2>2 DEF Build
  <2>3. CASE ex[x].pc # "idle"
    <3>1. rstate' # "provisioning" /\ rstate' \notin LiveStates
      BY <2>3
    <3> QED BY <1>1, <1>2, <1>5, <2>1, <3>1 DEF Build, RangeState, LiveStates
  <2> QED BY <2>2, <2>3
<1> QED BY <1>4, <1>6 DEF BuildInv

\* A step of the API keeps it: a build is accepted only where nothing is recorded and nobody is
\* at work, and an abandon that renames a build's lease also takes the range out of provisioning.
LEMMA ApiBuild ==
    ASSUME BuildInv, CoverInv', Timely, ApiNext, \A x \in Execution : ~LeavesCall(x)
    PROVE  BuildInv'
<1> USE DEF row, api, world
<1>0. CoverInv /\ TypeOK /\ BudgetInv /\ Machines /\ [Next]_vars /\ BudgetInv'
  BY BudgetStep DEF BuildInv, CoverInv, Next
<1>0a. (Spent("writeOff") => Spent("writeOff")') /\ (Spent("partial") => Spent("partial")')
  BY <1>0, SpentStays DEF Rare
<1>1. ASSUME NEW a \in Requests, NEW b \in BOOLEAN, Accept(a, b) PROVE BuildInv'
  <2>1. a \in Action /\ rstate' = InProgress(a) /\ Check(a, Reconciled) /\ UNCHANGED <<vms, hv, ex, lease>>
    BY <1>1, OperationsAssumption DEF Accept, OperationsAssumption
  <2>2. a # "destroy" => /\ \A x \in Execution : ex[x].pc = "idle"
                         /\ InProgress(a) \in Transitions(rstate)
    BY <1>0, <2>1, NobodyActing DEF Check
  <2>3. rstate' = "provisioning" => a = "provision"
    BY <2>1 DEF InProgress, Action
  <2>4. rstate' \in LiveStates => a \in {"stop", "start"} /\ rstate \in LiveStates
    BY <2>1, <2>2 DEF InProgress, Action, LiveStates, Transitions
  <2>5. rstate' \notin {"created", "destroyed"}
    BY <2>1 DEF InProgress, Action
  <2> QED BY <1>0, <2>1, <2>2, <2>3, <2>4, <2>5, MovedBuild DEF Check, Machines
<1>2. ASSUME NEW g \in Generation, Abandon(g) PROVE BuildInv'
  <2>1. UNCHANGED <<vms, hv, ex>> /\ lease' = FenceLease(ops[g].action) /\ lease \in LeaseRow /\ ops[g].action \in Action
    BY <1>0, <1>2 DEF Abandon, TypeOK, Operation
  <2>2. CASE rstate = InProgress(ops[g].action)
    <3>1. rstate' = "failed"
      BY <1>2, <2>2 DEF Abandon
    <3> QED BY <1>0, <2>1, <3>1, MovedBuild DEF LiveStates
  <2>3. CASE rstate # InProgress(ops[g].action)
    <3>1. rstate' = rstate
      BY <1>2, <2>3 DEF Abandon
    <3>2. CASE lease'.tomb = lease.tomb
      BY <1>0, <2>1, <3>1, <3>2, SameBuild
    <3>3. CASE lease'.tomb # lease.tomb
      <4>1. ex[lease.holder].job = ops[g].action
        BY <2>1, <3>3 DEF FenceLease
      <4>2. \A x \in Execution : ex[x].pc # "idle" => ex[x].job = ops[g].action
        BY <1>0, <4>1, CoverMeans
      <4>3. \A x \in Execution : ex[x].pc # "idle" /\ ex[x].job = "provision" => rstate # "provisioning"
        BY <2>3, <4>2 DEF InProgress
      <4>4. \A x \in Execution : Build(x)'
        BY <1>0a, <2>1, <3>1, <4>3 DEF BuildInv, Build, Active
      <4>5. Machines'
        BY <1>0, <1>0a, <2>1, <3>1 DEF Machines, Active
      <4> QED BY <1>0, <4>4, <4>5 DEF BuildInv
    <3> QED BY <3>2, <3>3
  <2> QED BY <2>2, <2>3
<1>3. CASE ForceRelease
  <2>1. UNCHANGED <<rstate, vms, hv, ex>> /\ lease' = NoLease
    BY <1>3 DEF ForceRelease
  <2>2. \A x \in Execution : ex[x].pc = "idle"
    BY <1>0, <1>3 DEF CoverInv, Covered, Live, LeavesCall
  <2>3. \A x \in Execution : Build(x)'
    BY <2>1, <2>2 DEF BuildInv, Build, Active
  <2>4. Machines'
    BY <1>0, <1>0a, <2>1 DEF Machines, Active
  <2> QED BY <1>0, <2>3, <2>4 DEF BuildInv
<1>4. ASSUME NEW f \in BOOLEAN, AbandonRange(f) PROVE BuildInv'
  <2>1. UNCHANGED <<vms, hv, ex, lease>> /\ rstate' = "destroyed" /\ Spend("writeOff")
    BY <1>4 DEF AbandonRange
  <2>2. Spent("writeOff")'
    BY <1>0, <2>1, SpendSpends DEF Rare
  <2> QED BY <1>0, <2>1, <2>2, MovedBuild DEF LiveStates
<1>5. CASE DiscardUnbuilt
  <2>1. UNCHANGED <<vms, hv, ex, lease>> /\ rstate' = "destroyed" /\ rstate = "created"
    BY <1>5 DEF DiscardUnbuilt
  <2> QED BY <1>0, <2>1, MovedBuild DEF LiveStates
<1>6. ASSUME NEW g \in Generation, Send(g) \/ RunDestroyWithBypass(g) PROVE BuildInv'
  BY <1>0, <1>6, SameBuild DEF Send, RunDestroyWithBypass
<1>7. CASE MarkSent \/ SenderDies \/ GetOperations \/ RacedGetRange \/ RacedGetOps \/ RacedGetWrite
             \/ AskRestore \/ RacedAskRestore \/ RacedWriteRestore
             \/ CloseWindow \/ (\E s \in 0 .. MaxGen : OpenWindow(s))
  <2>1. UNCHANGED <<rstate, vms, hv, ex, lease>>
    BY <1>7 DEF MarkSent, SenderDies, GetOperations, RacedGetRange, RacedGetOps, RacedGetWrite,
                AskRestore, RacedAskRestore, RacedWriteRestore, CloseWindow, OpenWindow
  <2> QED BY <1>0, <2>1, SameBuild
<1> QED BY <1>1, <1>2, <1>3, <1>4, <1>5, <1>6, <1>7 DEF ApiNext

\* The broker and the clock change none of it, a failed guest check only fails the range, and a
\* range is restored when nobody is at work on it and its VMs are there.
LEMMA OtherBuild ==
    ASSUME BuildInv, CoverInv', Timely, BrokerNext \/ Restore \/ SetupFailed \/ Tick \/ UNCHANGED vars
    PROVE  BuildInv'
<1> USE DEF row, api, world
<1>0. CoverInv /\ TypeOK /\ BudgetInv /\ Machines /\ [Next]_vars /\ BudgetInv'
  BY BudgetStep DEF BuildInv, CoverInv, Next
<1>1. CASE BrokerNext \/ UNCHANGED vars
  <2>1. UNCHANGED <<rstate, vms, hv, ex, lease>>
    BY <1>1 DEF BrokerNext, ClaimBlocked, ClaimError, vars
  <2> QED BY <1>0, <2>1, SameBuild
<1>2. CASE SetupFailed
  <2>1. UNCHANGED <<vms, hv, ex, lease>> /\ rstate' = "failed"
    BY <1>2 DEF SetupFailed
  <2> QED BY <1>0, <2>1, MovedBuild DEF LiveStates
<1>3. CASE Tick
  <2>1. UNCHANGED <<rstate, vms, hv>> /\ lease' = Aged(lease) /\ lease \in LeaseRow /\ ex \in [Execution -> Run]
    BY <1>0, <1>3 DEF Tick, TypeOK
  <2>2. lease'.tomb = lease.tomb
    BY <2>1 DEF Aged, LeaseRow
  <2>3. ASSUME NEW x \in Execution
        PROVE  ex'[x].pc = ex[x].pc /\ ex'[x].job = ex[x].job /\ ex'[x].made = ex[x].made
    <3>1. ex'[x] = [ex[x] EXCEPT !.missed = IF Live(x) THEN @ + 1 ELSE @,
                                 !.grace = IF @ > 0 THEN @ - 1 ELSE 0] /\ ex[x] \in Run
      BY <1>3, <2>1 DEF Tick
    <3> QED BY <3>1 DEF Run
  <2> QED BY <1>0, <2>1, <2>2, <2>3, SameBuild
<1>4. CASE Restore
  <2>1. UNCHANGED <<vms, hv, ex, lease>> /\ Claimable(lease)
    BY <1>4 DEF Restore
  <2>2. \A x \in Execution : ex[x].pc = "idle"
    BY <1>0, <2>1, CoverMeans
  <2>3. CASE rstate' = rstate
    BY <1>0, <2>1, <2>3, SameBuild
  <2>4. CASE rstate' # rstate
    <3>1. vms /\ hv /\ rstate' \in {"ready", "running", "stopped", "failed"}
      BY <1>4, <2>4 DEF Restore, SnapshotStates
    <3> QED BY <1>0, <2>1, <2>2, <3>1, MovedBuild
  <2> QED BY <2>3, <2>4
<1> QED BY <1>1, <1>2, <1>3, <1>4

-----------------------------------------------------------------------------
(* Steps of an execution, which is alone.                                  *)

\* So the invariant is to be shown of x and of the row only.
LEMMA OneBuild ==
    ASSUME BuildInv, CoverInv', BudgetInv', NEW x \in Execution, ex' = [ex EXCEPT ![x] = ex'[x]],
           \A y \in Execution : y # x => ex[y].pc = "idle",
           Build(x)', hv' => vms', rstate' = "provisioning" => ~vms', rstate' \in LiveStates => vms' /\ hv',
           rstate' \in {"created", "destroyed"} /\ ~Spent("writeOff")' =>
              (hv' => Spent("partial")') /\ ~Active(x)'
    PROVE  BuildInv'
<1>1. ASSUME NEW y \in Execution, y # x PROVE Build(y)' /\ ~Active(y)'
  <2>1. ex'[y] = ex[y] /\ ex[y].pc = "idle"
    BY <1>1 DEF BuildInv, CoverInv, TypeOK
  <2>2. ~ex[y].made /\ ~Active(y)
    BY <2>1, IdleBuild
  <2> QED BY <2>1, <2>2 DEF Build, Active
<1>2. Machines'
  BY <1>1 DEF Machines
<1> QED BY <1>1, <1>2 DEF BuildInv

\* x goes on without touching the row, or ends with nothing in its hands.
LEMMA QuietBuild ==
    ASSUME BuildInv, CoverInv', BudgetInv', [Next]_vars, NEW x \in Execution, ex' = [ex EXCEPT ![x] = ex'[x]],
           \A y \in Execution : y # x => ex[y].pc = "idle", UNCHANGED <<rstate, vms, hv>>,
           ex'[x].made => ex[x].made /\ ex'[x].pc \in {"result", "discard", "leftover"},
           ex'[x].pc \in {"discard", "leftover"} => ex[x].job = "provision" /\ rstate # "provisioning",
           ex'[x].pc = "result" => ex[x].pc = "result" /\ ex'[x].made = ex[x].made,
           \/ ex'[x].pc = "idle"
           \/ /\ ex[x].pc # "idle" /\ ex'[x].job = ex[x].job
              /\ lease'.tomb = lease.tomb /\ (Active(x)' => Active(x))
    PROVE  BuildInv'
<1>0. Machines /\ Build(x) /\ TypeOK
  BY DEF BuildInv, CoverInv
<1>1. (Spent("writeOff") => Spent("writeOff")') /\ (Spent("partial") => Spent("partial")')
  BY <1>0, SpentStays DEF Rare
<1>2. CASE ex'[x].pc = "idle"
  <2>1. ~Active(x)' /\ ~ex'[x].made
    BY <1>2 DEF Active
  <2>2. Build(x)'
    BY <1>2, <2>1 DEF Build
  <2> QED BY <1>0, <1>1, <2>1, <2>2, OneBuild DEF Machines
<1>3. CASE /\ ex[x].pc # "idle" /\ ex'[x].job = ex[x].job
           /\ lease'.tomb = lease.tomb /\ (Active(x)' => Active(x))
  <2>1. Build(x)'
    BY <1>0, <1>1, <1>3 DEF Build
  <2> QED BY <1>0, <1>1, <1>3, <2>1, OneBuild DEF Machines
<1> QED BY <1>2, <1>3

LEMMA WorkerBuild ==
    ASSUME BuildInv, CoverInv', Timely, NEW x \in Execution, WorkerNext(x), ~LeavesCall(x)
    PROVE  BuildInv'
<1> USE DEF row, api, world
<1>0. /\ CoverInv /\ TypeOK /\ BudgetInv /\ Machines /\ Build(x) /\ Shape(x) /\ [Next]_vars /\ BudgetInv'
      /\ ex[x] \in Run /\ ex \in [Execution -> Run] /\ ex' = [ex EXCEPT ![x] = ex'[x]]
      /\ vms \in BOOLEAN /\ hv \in BOOLEAN
  <2>1. [Next]_vars /\ TypeOK /\ CoverInv
    BY DEF BuildInv, CoverInv, Next
  <2>2. BudgetInv'
    BY <2>1, BudgetStep DEF BuildInv
  <2>3. ex' = [ex EXCEPT ![x] = ex'[x]]
    BY <2>1, StepsAlone
  <2> QED BY <2>1, <2>2, <2>3 DEF BuildInv, CoverInv, TypeOK
<1>1. (Spent("writeOff") => Spent("writeOff")') /\ (Spent("partial") => Spent("partial")')
  BY <1>0, SpentStays DEF Rare
<1>2. ex[x].pc # "idle" => /\ \A y \in Execution : y # x => ex[y].pc = "idle"
                           /\ Obs(x) # "lost" /\ (Obs(x) = "abandoned" => lease.tomb)
  BY <1>0, CoverMeans
<1>3. ASSUME ex[x].pc # "idle", UNCHANGED <<rstate, vms, hv, lease>>, ex'[x].job = ex[x].job,
             ex'[x].made => ex[x].made /\ ex'[x].pc \in {"result", "discard", "leftover"},
             ex'[x].pc \in {"discard", "leftover"} => ex[x].job = "provision" /\ rstate # "provisioning",
             ex'[x].pc = "result" => ex[x].pc = "result" /\ ex'[x].made = ex[x].made,
             Active(x)' => Active(x)
      PROVE  BuildInv'
  BY <1>0, <1>2, <1>3, QuietBuild
<1>4. ASSUME NEW m \in Message, ClaimLease(x, m) PROVE BuildInv'
  <2>1. \A y \in Execution : ex[y].pc = "idle"
    BY <1>0, <1>4, CoverMeans DEF ClaimLease
  <2>2. UNCHANGED <<rstate, vms, hv>> /\ lease'.tomb = FALSE /\ ex'[x].pc = "claimed" /\ ex'[x].made = FALSE
    BY <1>0, <1>4 DEF ClaimLease, Claimed, NoLease, Idle
  <2>3. Build(x)' /\ ~Active(x)'
    BY <2>2 DEF Build, Active
  <2> QED BY <1>0, <1>1, <2>1, <2>2, <2>3, OneBuild DEF Machines
<1>5. CASE ClaimCheck(x)
  <2>1. /\ UNCHANGED <<rstate, vms, hv, lease>> /\ ex[x].pc = "claimed"
        /\ ex'[x].made = ex[x].made /\ ex'[x].job = ex[x].job
        /\ ex'[x].pc = (IF Waiting(x) THEN "entry" ELSE "ending")
    BY <1>0, <1>5 DEF ClaimCheck, Run
  <2>2. ~ex[x].made
    BY <1>0, <2>1 DEF Build
  <2>3. CASE Waiting(x)
    <3>1. (ex[x].job = "provision" => rstate = "provisioning") /\ (ex[x].job = "destroy" => rstate = "destroying")
      BY <2>3 DEF Waiting, InProgress
    <3>2. Build(x)'
      BY <1>0, <2>1, <2>2, <2>3, <3>1 DEF Build, Machines
    <3>3. rstate \notin {"created", "destroyed"}
      BY <1>0, <2>3 DEF Waiting, InProgress, Run
    <3> QED BY <1>0, <1>1, <1>2, <2>1, <3>2, <3>3, OneBuild DEF Machines
  <2>4. CASE ~Waiting(x)
    BY <1>3, <2>1, <2>2, <2>4 DEF Active
  <2> QED BY <2>3, <2>4
<1>6. CASE AtEntry(x)
  BY <1>0, <1>3, <1>6 DEF AtEntry, Run, Build, Active
<1>7. ASSUME NEW op \in 0 .. MaxGen, AtEntryUnreadable(x, op) PROVE BuildInv'
  BY <1>0, <1>3, <1>7 DEF AtEntryUnreadable, Run, Build, Active
<1>8. CASE HoldOperation(x)
  BY <1>0, <1>3, <1>8 DEF HoldOperation, Run, Build, Active
<1>9. CASE HoldRange(x)
  <2>1. /\ UNCHANGED <<vms, hv, lease>> /\ ex[x].pc = "holding" /\ ex'[x].pc \in {"raised", "ending"}
        /\ ex'[x].made = ex[x].made /\ ex'[x].job = ex[x].job
        /\ rstate' = rstate \/ (rstate' = "created" /\ ex[x].job = "provision" /\ Waiting(x))
    BY <1>0, <1>9 DEF HoldRange, Run
  <2>2. ~ex[x].made
    BY <1>0, <2>1 DEF Build
  <2>3. CASE rstate' = rstate
    BY <1>3, <2>1, <2>2, <2>3 DEF Active
  <2>4. CASE rstate' = "created" /\ ex[x].job = "provision" /\ Waiting(x)
    <3>1. ~vms /\ ~hv
      BY <1>0, <2>4 DEF Machines, Waiting, InProgress
    <3>2. ~Active(x)' /\ Build(x)'
      BY <2>1, <2>2, <2>4 DEF Active, Build
    <3> QED BY <1>0, <1>2, <2>1, <2>4, <3>1, <3>2, OneBuild DEF LiveStates
  <2> QED BY <2>1, <2>3, <2>4
<1>10. ASSUME NEW e \in {"retry", "final"}, FailBeforeCall(x, e) PROVE BuildInv'
  BY <1>0, <1>3, <1>10 DEF FailBeforeCall, Run, Build, Active
<1>11. ASSUME NEW e \in {"retry", "final"}, CallFailed(x, e) PROVE BuildInv'
  BY <1>0, <1>3, <1>11 DEF CallFailed, Run, Build, Active
<1>12. CASE StartCall(x)
  BY <1>0, <1>3, <1>12 DEF StartCall, Run, Build, Active
<1>13. CASE CallOk(x)
  <2>1. /\ UNCHANGED <<rstate, vms, lease>> /\ ex[x].pc = "calling" /\ ex'[x].pc = "result"
        /\ ex'[x].job = ex[x].job /\ ex'[x].made = (ex[x].job = "provision")
        /\ hv' = (hv /\ ex[x].job # "destroy")
    BY <1>0, <1>13 DEF CallOk, Run
  <2>2. Active(x)
    BY <2>1 DEF Active
  <2>3. Build(x)'
    BY <1>0, <2>1, <2>2 DEF Build, Active
  <2>4. rstate \in LiveStates => ex[x].job # "destroy"
    BY <1>0, <2>2 DEF Build, LiveStates
  <2>5. ~(rstate \in {"created", "destroyed"} /\ ~Spent("writeOff"))
    BY <1>0, <2>2 DEF Machines
  <2> QED BY <1>0, <1>1, <1>2, <2>1, <2>3, <2>4, <2>5, OneBuild DEF Machines
<1>13a. CASE CallPartial(x)
  <2>1. /\ UNCHANGED <<rstate, vms, hv, lease>> /\ ex[x].pc = "calling" /\ ex'[x].pc = "result"
        /\ ex[x].job = "destroy" /\ ex'[x].job = ex[x].job /\ ex'[x].made = ex[x].made
    BY <1>0, <1>13a DEF CallPartial, Run
  <2>2. Active(x) /\ ~ex[x].made
    BY <1>0, <2>1 DEF Active, Build
  <2>3. Spent("partial")'
    BY <1>0, <1>13a, SpendSpends DEF CallPartial, Rare
  <2>4. Build(x)'
    BY <1>0, <2>1, <2>2, <2>3 DEF Build, Active
  <2>5. ~(rstate \in {"created", "destroyed"} /\ ~Spent("writeOff"))
    BY <1>0, <2>2 DEF Machines
  <2> QED BY <1>0, <1>1, <1>2, <2>1, <2>4, <2>5, OneBuild DEF Machines
<1>14. CASE EndThread(x)
  BY <1>0, <1>14 DEF EndThread, Shape
<1>15. CASE WriteOutcome(x)
  <2>1. /\ ex[x].pc = "result" /\ Waiting(x) /\ lease' = lease
        /\ vms' = (vms \/ ex[x].made) /\ hv' = (hv \/ ex[x].made)
        /\ rstate' = Done(ex[x].job) \/ (ex[x].job = "provision" /\ rstate' = "failed")
        /\ ex'[x].pc = "ending" /\ ex'[x].made = FALSE /\ ex[x].job \in Action
    BY <1>0, <1>15 DEF WriteOutcome, Run
  <2>2. Active(x) /\ ~Active(x)'
    BY <2>1 DEF Active
  <2>3. Build(x)'
    <3>1. rstate' # "provisioning"
      BY <2>1 DEF Done, Action
    <3> QED BY <2>1, <2>2, <3>1 DEF Build
  <2>4. CASE ex[x].job = "provision"
    <3>1. ex[x].made /\ rstate' \in {"ready", "failed"}
      BY <1>0, <2>1, <2>4 DEF Build, Done
    <3> QED BY <1>0, <1>2, <2>1, <2>2, <2>3, <3>1, OneBuild
  <2>5. CASE ex[x].job = "destroy"
    <3>1. ~ex[x].made /\ (hv => Spent("partial")) /\ rstate' = "destroyed"
      BY <1>0, <2>1, <2>5 DEF Build, Done
    <3> QED BY <1>0, <1>1, <1>2, <2>1, <2>2, <2>3, <3>1, OneBuild DEF Machines, LiveStates
  <2>6. CASE ex[x].job \in {"stop", "start"}
    <3>1. ~ex[x].made /\ rstate \in LiveStates /\ rstate' \in {"stopped", "running"}
      BY <1>0, <2>1, <2>6 DEF Build, Done, Waiting, InProgress, LiveStates
    <3> QED BY <1>0, <1>2, <2>1, <2>2, <2>3, <3>1, OneBuild DEF Machines
  <2> QED BY <2>1, <2>4, <2>5, <2>6 DEF Action
<1>16. CASE WriteRefused(x)
  <2>1. ex[x].made => ex[x].job = "provision" /\ rstate # "provisioning"
    <3>1. ~Waiting(x) /\ ex[x].job = "provision" => rstate # "provisioning"
      BY DEF Waiting, InProgress
    <3>2. ~(Obs(x) = "held" /\ Waiting(x)) /\ ex[x].pc = "result"
      BY <1>16 DEF WriteRefused
    <3>3. Obs(x) \in {"held", "abandoned", "lost"}
      BY DEF Obs, Observe
    <3> QED BY <1>0, <1>2, <3>1, <3>2, <3>3 DEF Build
  <2>2. /\ ex[x].pc = "result" /\ UNCHANGED <<rstate, vms, hv, lease>>
        /\ ex'[x].pc = AfterRefusal(x) /\ ex'[x].made = ex[x].made /\ ex'[x].job = ex[x].job
    BY <1>0, <1>2, <1>16 DEF WriteRefused, Run
  <2> QED BY <1>3, <2>1, <2>2 DEF AfterRefusal, Active
<1>16a. CASE WriteFails(x)
  <2>1. /\ ex[x].pc = "result" /\ UNCHANGED <<rstate, vms, hv, lease>> /\ ex'[x].pc = "failing"
        /\ ex'[x].made = FALSE /\ ex'[x].job = ex[x].job
    BY <1>0, <1>16a DEF WriteFails, Run
  <2> QED BY <1>3, <2>1 DEF Active
<1>17. CASE RecordFailure(x)
  <2>1. /\ ex[x].pc = "failing" /\ UNCHANGED <<vms, hv, lease>> /\ ex'[x].pc = "raised"
        /\ ex'[x].made = ex[x].made /\ ex'[x].job = ex[x].job /\ rstate' \in {rstate, "failed"}
    BY <1>0, <1>17 DEF RecordFailure, Run
  <2>2. ~ex[x].made
    BY <1>0, <2>1 DEF Build
  <2>3. CASE rstate' = rstate
    BY <1>3, <2>1, <2>2, <2>3 DEF Active
  <2>4. CASE rstate' = "failed"
    <3>1. Build(x)'
      BY <2>1, <2>2, <2>4 DEF Build, Active
    <3> QED BY <1>0, <1>2, <2>1, <2>4, <3>1, OneBuild DEF Machines, LiveStates
  <2> QED BY <2>1, <2>3, <2>4
<1>18. ASSUME NEW ok \in BOOLEAN, Discard(x, ok) PROVE BuildInv'
  <2>1. ex[x].pc = "discard" /\ UNCHANGED <<rstate, vms, hv, lease>> /\ ex'[x].job = ex[x].job
    BY <1>0, <1>18 DEF Discard, Run
  <2>2. ex'[x].made = ~ok /\ ex'[x].pc = IF ok THEN "ending" ELSE "leftover"
    BY <1>0, <1>18 DEF Discard, Run
  <2>3. ex[x].job = "provision" /\ rstate # "provisioning" /\ Active(x)
    BY <1>0, <2>1 DEF Build, Active
  <2>4. Build(x)'
    BY <1>0, <2>1, <2>2, <2>3 DEF Build, Active
  <2>5. ~(rstate \in {"created", "destroyed"} /\ ~Spent("writeOff"))
    BY <1>0, <2>3 DEF Machines
  <2> QED BY <1>0, <1>1, <1>2, <2>1, <2>4, <2>5, OneBuild DEF Machines
<1>19. CASE RecordLeftover(x)
  <2>1. /\ ex[x].pc = "leftover" /\ UNCHANGED <<rstate, lease>> /\ vms' = TRUE /\ hv' = TRUE
        /\ ex'[x].pc = "ending" /\ ex'[x].made = FALSE
    BY <1>0, <1>19 DEF RecordLeftover, Run
  <2>2. ex[x].job = "provision" /\ rstate # "provisioning" /\ Active(x) /\ ~Active(x)'
    BY <1>0, <2>1 DEF Build, Active
  <2>3. Build(x)'
    BY <2>1, <2>2 DEF Build
  <2>4. ~(rstate \in {"created", "destroyed"} /\ ~Spent("writeOff"))
    BY <1>0, <2>2 DEF Machines
  <2> QED BY <1>0, <1>1, <1>2, <2>1, <2>2, <2>3, <2>4, OneBuild
<1>19a. CASE LeftoverLost(x)
  <2>1. /\ ex[x].pc = "leftover" /\ UNCHANGED <<rstate, vms, hv, lease>> /\ ex'[x].pc = "ending"
        /\ ex'[x].made = FALSE /\ ex'[x].job = ex[x].job
    BY <1>0, <1>19a DEF LeftoverLost, Run
  <2> QED BY <1>3, <2>1 DEF Active
<1>20. CASE Raised(x)
  <2>1. /\ ex[x].pc = "raised" /\ UNCHANGED <<rstate, vms, hv, lease>> /\ ex'[x].pc = "releasing"
        /\ ex'[x].made = ex[x].made /\ ex'[x].job = ex[x].job
    BY <1>0, <1>20 DEF Raised, Run
  <2> QED BY <1>0, <1>3, <2>1 DEF Build, Active
<1>21. CASE Keep(x)
  BY <1>0, <1>21 DEF Keep, Shape
<1>22. CASE End(x) \/ ReleaseFailed(x) \/ Crash(x)
  <2>1. ex[x].pc # "idle" /\ UNCHANGED <<rstate, vms, hv>> /\ ex'[x] \in {Idle} \cup {Over(ex[x], th) : th \in BOOLEAN}
    BY <1>0, <1>22 DEF End, ReleaseFailed, Crash, Run
  <2>2. ex'[x].pc = "idle" /\ ex'[x].made = FALSE
    <3>1. CASE ex'[x] = Idle
      BY <3>1 DEF Idle
    <3>2. CASE \E th \in BOOLEAN : ex'[x] = Over(ex[x], th)
      BY <3>2 DEF Over, Idle
    <3> QED BY <2>1, <3>1, <3>2
  <2> QED BY <1>0, <1>2, <2>1, <2>2, QuietBuild
<1>23. ASSUME NEW late \in BOOLEAN, Beat(x, late) PROVE BuildInv'
  <2>1. /\ ex[x].pc # "idle" /\ UNCHANGED <<rstate, vms, hv>> /\ lease \in LeaseRow
        /\ ex'[x].pc = ex[x].pc /\ ex'[x].made = ex[x].made /\ ex'[x].job = ex[x].job
    BY <1>0, <1>23 DEF Beat, Beating, Run, TypeOK
  <2>2. lease'.tomb = lease.tomb
    BY <1>23, <2>1 DEF Beat, Extended, LeaseRow
  <2> QED BY <1>0, <1>2, <2>1, <2>2, QuietBuild DEF Build, Active
<1> QED
  BY <1>4, <1>5, <1>6, <1>7, <1>8, <1>9, <1>10, <1>11, <1>12, <1>13, <1>13a, <1>14, <1>15, <1>16, <1>16a,
     <1>17, <1>18, <1>19, <1>19a, <1>20, <1>21, <1>22, <1>23 DEF WorkerNext, LeavesCall

\* An initial state satisfies the invariant, and every step keeps it.
LEMMA BuildInit == ASSUME Init PROVE BuildInv
<1>1. CoverInv /\ TypeOK
  BY CoverInit, TypeInit
<1>2. \A x \in Execution : ex[x].pc = "idle" /\ ex[x].made = FALSE
  BY DEF Init, Idle
<1>3. Machines /\ \A x \in Execution : Build(x)
  BY <1>2 DEF Machines, Build, Active, Init, LiveStates
<1>4. BudgetInv
  BY OperationsAssumption DEF Init, BudgetInv, OperationsAssumption
<1> QED BY <1>1, <1>3, <1>4 DEF BuildInv

LEMMA BuildStep ==
    ASSUME BuildInv, Timely, [Next]_vars, \A x \in Execution : ~LeavesCall(x)
    PROVE  BuildInv'
<1>1. CoverInv'
  BY CoverStep DEF BuildInv
<1> QED BY <1>1, ApiBuild, OtherBuild, WorkerBuild DEF Next

\* A call that outlives its task or its lease uses up one of three events.
LEMMA LeavingSpends ==
    ASSUME TypeOK, BudgetInv, NEW x \in Execution, LeavesCall(x)
    PROVE  (Spent("softLimit") \/ Spent("straggler") \/ Spent("lateBeat"))'
BY SpendSpends DEF LeavesCall, CallRaised, SoftLimit, ForceRelease, Rare

-----------------------------------------------------------------------------
(* No build is forgotten.                                                  *)

\* A step that leaves VMs nobody knows of is a crash or a failed transaction, or follows a call that
\* outlived its task.
LEMMA ForgetStep ==
    ASSUME BuildInv, Timely, [Next]_vars, \A x \in Execution : ~LeavesCall(x), ~lostBuild, lostBuild'
    PROVE  \E x \in Execution : Crash(x) \/ WriteFails(x) \/ LeftoverLost(x)
<1> USE DEF row, api, world
<1>0. TypeOK /\ CoverInv /\ Machines
  BY DEF BuildInv, CoverInv
<1>1. ~ApiNext /\ ~BrokerNext /\ ~Restore /\ ~SetupFailed /\ ~Tick /\ ~UNCHANGED vars
  <2>1. ~ApiNext
    BY DEF ApiNext, Accept, Send, Abandon, RunDestroyWithBypass, MarkSent, SenderDies, GetOperations,
           RacedGetRange, RacedGetOps, RacedGetWrite, ForceRelease, AskRestore, RacedAskRestore,
           RacedWriteRestore, AbandonRange, DiscardUnbuilt, OpenWindow, CloseWindow
  <2> QED BY <2>1 DEF BrokerNext, ClaimBlocked, ClaimError, Restore, SetupFailed, Tick, vars
<1>2. PICK x \in Execution : WorkerNext(x)
  BY <1>1 DEF Next
<1>3. Build(x) /\ Shape(x) /\ ex[x] \in Run
  BY <1>0 DEF BuildInv, CoverInv, TypeOK
<1>4. ex[x].pc # "idle" => Obs(x) # "lost"
  BY <1>0, CoverMeans
<1>5. ~EndThread(x)
  BY <1>3 DEF EndThread, Shape
<1>6. ~WriteOutcome(x)
  <2>1. SUFFICES ASSUME WriteOutcome(x) PROVE FALSE
    OBVIOUS
  <2>2. hv /\ ex[x].made /\ ex[x].pc = "result"
    BY <2>1 DEF WriteOutcome
  <2> QED BY <1>0, <1>3, <2>2 DEF Build, Machines, Active
<1>7. ~WriteRefused(x)
  BY <1>4 DEF WriteRefused
<1>8. ~RecordLeftover(x)
  <2>1. SUFFICES ASSUME RecordLeftover(x) PROVE FALSE
    OBVIOUS
  <2>2. hv /\ ex[x].pc = "leftover"
    BY <2>1 DEF RecordLeftover
  <2> QED BY <1>0, <1>3, <2>2 DEF Build, Machines, Active
<1>9. ~End(x)
  BY <1>3 DEF End, Build
<1>10. ~Keep(x)
  BY <1>3 DEF Keep, Shape
<1> QED
  BY <1>2, <1>5, <1>6, <1>7, <1>8, <1>9, <1>10 DEF WorkerNext, LeavesCall, ClaimLease, ClaimCheck, AtEntry,
     AtEntryUnreadable, HoldOperation, HoldRange, FailBeforeCall, CallFailed, StartCall, CallOk, CallPartial,
     RecordFailure, Discard, Raised, ReleaseFailed, Beat

\* VMs that no record and no execution knows of appear only after a worker crashed, ran into its
\* soft time limit, left a thread behind, was late with a renewal when an operator released its
\* tombstone, or met a database error between its call and the record: whatever is abandoned,
\* retried, redelivered, refused, restored or written off, a build is recorded, or discarded, or what
\* is left of it is recorded. The live task's heartbeat must keep up (Timely): one that is taken over
\* only logs what it built.
THEOREM BuildsAreNotForgotten == ASSUME Timely PROVE Spec => []NoBuildForgotten
<1> DEFINE Left == Spent("softLimit") \/ Spent("straggler") \/ Spent("lateBeat")
           Lost == Spent("crash") \/ Spent("dbError")
           Inv == TypeOK /\ BudgetInv /\ (Left \/ (BuildInv /\ (lostBuild => Lost)))
<1>1. Init => Inv
  BY BuildInit, TypeInit DEF BuildInv, Init
<1>2. Inv /\ [Next]_vars => Inv'
  <2> SUFFICES ASSUME Inv, [Next]_vars PROVE Inv'
    OBVIOUS
  <2>1. TypeOK' /\ BudgetInv'
    BY TypeStep, BudgetStep
  <2>2. CASE Left
    <3>1. Left'
      BY <2>2, SpentStays DEF Rare
    <3> QED BY <2>1, <3>1
  <2>3. ASSUME NEW x \in Execution, LeavesCall(x) PROVE Inv'
    <3>1. Left'
      BY <2>3, LeavingSpends
    <3> QED BY <2>1, <3>1
  <2>4. ASSUME BuildInv, lostBuild => Lost, \A x \in Execution : ~LeavesCall(x) PROVE Inv'
    <3>1. BuildInv'
      BY <2>4, BuildStep
    <3>2. Lost => Lost'
      BY SpentStays DEF Rare
    <3>3. ASSUME NEW x \in Execution, Crash(x) \/ WriteFails(x) \/ LeftoverLost(x) PROVE Lost'
      BY <3>3, SpendSpends DEF Crash, WriteFails, LeftoverLost, Rare
    <3>4. lostBuild' => Lost'
      BY <2>4, <3>2, <3>3, ForgetStep
    <3> QED BY <2>1, <3>1, <3>4
  <2> QED BY <2>2, <2>3, <2>4
<1>3. Inv => NoBuildForgotten
  BY DEF NoBuildForgotten
<1> QED BY <1>1, <1>2, <1>3, PTL DEF Spec

-----------------------------------------------------------------------------
(* A range's state tells whether it has VMs.                               *)

\* A range that reads ready, running, stopping, stopped or starting has its VMs, recorded and on
\* the hypervisor, and a destroyed one has none there, unless a teardown was partial, and no worker
\* that still carries a build, for any number of operations, executions, crashes, retries, abandons
\* and restores: no teardown that was abandoned or overtaken removes the VMs of a range that has been
\* built again, and no build finishes on a range that was torn down meanwhile. It ends with the
\* release of a live worker's tombstone.
THEOREM StateTellsVms ==
    ASSUME Timely, Budget["straggler"] = 0, Budget["softLimit"] = 0
    PROVE  Spec => []StateMatchesVms
<1> DEFINE Inv == TypeOK /\ (Spent("lateBeat") \/ BuildInv)
<1>1. Init => Inv
  BY BuildInit, TypeInit
<1>2. Inv /\ [Next]_vars => Inv'
  <2> SUFFICES ASSUME Inv, [Next]_vars PROVE Inv'
    OBVIOUS
  <2>1. TypeOK'
    BY TypeStep
  <2>2. CASE Spent("lateBeat")
    BY <2>1, <2>2, SpentStays DEF Rare
  <2>3. CASE BuildInv /\ \A x \in Execution : ~LeavesCall(x)
    BY <2>1, <2>3, BuildStep
  <2>4. CASE BuildInv /\ ~ \A x \in Execution : ~LeavesCall(x)
    BY <2>1, <2>4, OnlyLate DEF BuildInv
  <2> QED BY <2>2, <2>3, <2>4
<1>3. Inv => StateMatchesVms
  <2> SUFFICES ASSUME BuildInv PROVE StateMatchesVms
    BY DEF StateMatchesVms
  <2>1. Machines /\ \A x \in Execution : ex[x].made => Active(x)
    BY DEF BuildInv, Build, Active
  <2> QED BY <2>1 DEF Machines, StateMatchesVms
<1> QED BY <1>1, <1>2, <1>3, PTL DEF Spec

-----------------------------------------------------------------------------
(* Operations report what their own workers recorded.                      *)

\* A worker that holds the lease, has not been abandoned and finds the range waiting works for
\* the newest operation; such a teardown finds it waiting.
Own(x) ==
    /\ ex[x].pc \in {"entry", "run", "calling", "result", "failing"}
    /\ lease.holder = x /\ ~lease.tomb
    => /\ Waiting(x) => ex[x].task = gen
       /\ ex[x].job = "destroy" => rstate = "destroying"

\* A closed operation's outcome was recorded for it, and so was the outcome that the range's
\* state holds ready for an operation in flight. Only a build can be in flight on a range that
\* reads created. While a restore is to come, only a teardown can be in flight, and what the
\* restore will write is no outcome of it that is not recorded already.
Told ==
    /\ \A g \in Generation : ops[g].status \in {"succeeded", "failed"} => ops[g].status \in verdict[g]
    /\ \A g \in Generation : InFlight(ops, g) /\ rstate \in Outcomes(ops[g].action) =>
          Outcome(ops[g].action, rstate) \in verdict[g]
    /\ rstate = "created" => \A g \in Generation : InFlight(ops, g) => ops[g].action = "provision"
    /\ restore # "none" =>
          /\ restore = "asked" /\ vms
          /\ \A g \in Generation : InFlight(ops, g) =>
                ops[g].action = "destroy" /\ rstate \notin SnapshotStates

ReportInv == RequestInv /\ LeaseInv /\ Told /\ \A x \in Execution : Own(x)

\* What a reconcile writes was recorded.
LEMMA ReconcileTells ==
    ASSUME ReportInv, NEW g \in Generation, Reconciled[g].status \in {"succeeded", "failed"}
    PROVE  Reconciled[g].status \in verdict[g]
<1>0. ops[g] \in Operation /\ Told
  BY DEF ReportInv, RequestInv, TypeOK
<1>1. CASE ops[g].status = "dispatched" /\ rstate \in Outcomes(ops[g].action)
  <2>1. Reconciled[g].status = Outcome(ops[g].action, rstate)
    BY <1>0, <1>1 DEF Reconciled, Settled, Operation
  <2>2. InFlight(ops, g)
    BY <1>1 DEF InFlight, InFlightStatus
  <2> QED BY <1>0, <1>1, <2>1, <2>2 DEF Told
<1>2. CASE ~(ops[g].status = "dispatched" /\ rstate \in Outcomes(ops[g].action))
  <2>1. Reconciled[g] = ops[g]
    BY <1>2 DEF Reconciled, Settled
  <2> QED BY <1>0, <2>1 DEF Told
<1> QED BY <1>1, <1>2

\* A step at which no worker records anything: outcomes are kept or come from a reconcile, and
\* either the range's state stays as it is, or it settles nothing.
LEMMA ToldKept ==
    ASSUME ReportInv, TypeOK', verdict' = verdict, vms => vms',
           \A g \in Generation : ops'[g].status \in {"succeeded", "failed"} =>
                                    ops'[g].status \in {ops[g].status, Reconciled[g].status},
           \/ /\ rstate' = rstate /\ restore' = restore
              /\ \A g \in Generation : InFlight(ops', g) => InFlight(ops, g) /\ ops'[g].action = ops[g].action
           \/ /\ \E a \in Action : rstate' = InProgress(a)
              /\ restore' = restore
              /\ restore # "none" => \A g \in Generation : InFlight(ops', g) => ops'[g].action = "destroy"
           \/ NoneInFlight(ops') /\ (restore' = restore \/ (restore' = "asked" /\ vms))
    PROVE  Told'
<1>0. Told
  BY DEF ReportInv
<1>1. ASSUME NEW g \in Generation, ops'[g].status \in {"succeeded", "failed"} PROVE ops'[g].status \in verdict'[g]
  BY <1>0, <1>1, ReconcileTells DEF Told
<1>2. CASE /\ rstate' = rstate /\ restore' = restore
           /\ \A g \in Generation : InFlight(ops', g) => InFlight(ops, g) /\ ops'[g].action = ops[g].action
  BY <1>0, <1>1, <1>2 DEF Told
<1>3. CASE /\ \E a \in Action : rstate' = InProgress(a)
           /\ restore' = restore
           /\ restore # "none" => \A g \in Generation : InFlight(ops', g) => ops'[g].action = "destroy"
  <2>1. \A g \in Generation : ops'[g].action \in Action
    BY DEF TypeOK, Operation
  <2>2. rstate' # "created" /\ \A g \in Generation : rstate' \notin Outcomes(ops'[g].action)
    BY <1>3, <2>1, InProgressStands
  <2>3. rstate' \notin SnapshotStates
    BY <1>3 DEF SnapshotStates, InProgress, Action
  <2> QED BY <1>0, <1>1, <1>3, <2>2, <2>3 DEF Told
<1>4. CASE NoneInFlight(ops') /\ (restore' = restore \/ (restore' = "asked" /\ vms))
  BY <1>0, <1>1, <1>4 DEF Told, NoneInFlight
<1> QED BY <1>2, <1>3, <1>4

\* x's work is still for the same operation.
LEMMA SameOwn ==
    ASSUME NEW x \in Execution, Own(x), UNCHANGED <<rstate, gen>>,
           lease'.tomb = lease.tomb /\ lease'.holder = lease.holder,
           ex'[x].pc \in {"entry", "run", "calling", "result", "failing"} =>
              /\ ex[x].pc \in {"entry", "run", "calling", "result", "failing"}
              /\ ex'[x].job = ex[x].job /\ ex'[x].task = ex[x].task
    PROVE  Own(x)'
BY DEF Own, Waiting

\* A step of the API, of which none reads the range's state early or writes the range off: a
\* teardown is accepted again only when the one at work has been abandoned.
LEMMA ApiReport ==
    ASSUME ReportInv, TypeOK', Timely, ApiNext, ~Raced, \A f \in BOOLEAN : ~AbandonRange(f)
    PROVE  Told' /\ \A x \in Execution : Own(x)'
<1> USE DEF row, api, world
<1>0. /\ RequestInv /\ LeaseInv /\ TypeOK /\ Told /\ lease \in LeaseRow
      /\ \A x \in Execution : Own(x) /\ ex[x] \in Run
      /\ \A g \in Generation : ops[g] \in Operation /\ ops[g].action \in Action
  BY DEF ReportInv, RequestInv, TypeOK, Operation
<1>1. /\ \A g \in Generation : /\ Reconciled[g].action = ops[g].action
                               /\ InFlight(Reconciled, g) => InFlight(ops, g)
  BY <1>0, ReconcileKeeps
<1>2. ASSUME ~WorkerActing(lease), UNCHANGED <<ex, lease>> PROVE \A x \in Execution : Own(x)'
  BY <1>0, <1>2, KnownMeans DEF Own
<1>3. ASSUME UNCHANGED <<rstate, gen, lease, ex>> PROVE \A x \in Execution : Own(x)'
  BY <1>0, <1>3, SameOwn
<1>4. ASSUME NEW a \in Requests, NEW b \in BOOLEAN, Accept(a, b) PROVE Told' /\ \A x \in Execution : Own(x)'
  <2>1. /\ a \in Action /\ rstate' = InProgress(a) /\ Check(a, Reconciled)
        /\ UNCHANGED <<verdict, ex, lease, vms, restore>>
    BY <1>4, OperationsAssumption DEF Accept, OperationsAssumption
  <2>2. ASSUME NEW g \in Generation, ops'[g].status \in {"succeeded", "failed"}
        PROVE  ops'[g].status = Reconciled[g].status
    BY <1>0, <1>4, <2>2 DEF Accept, Operation
  <2>3. ASSUME restore # "none", NEW g \in Generation, InFlight(ops', g) PROVE ops'[g].action = "destroy"
    <3>1. a = "destroy"
      BY <1>0, <2>1, <2>3 DEF Told, Check, Action
    <3>2. g = gen + 1
      BY <1>0, <1>4, <2>3, <3>1 DEF Accept, InFlight, InFlightStatus, Operation
    <3> QED BY <1>4, <3>1, <3>2 DEF Accept
  <2>4. Told'
    BY <2>1, <2>2, <2>3, ToldKept
  <2>5. CASE ~WorkerActing(lease)
    BY <1>2, <2>1, <2>4, <2>5
  <2>6. CASE WorkerActing(lease)
    <3>1. a = "destroy" /\ rstate' = "destroying" /\ InProgress("destroy") \in Transitions(rstate)
      BY <2>1, <2>6 DEF Check, Parked, InProgress
    <3>2. rstate # "destroying"
      BY <3>1 DEF InProgress, Transitions
    <3>3. ASSUME NEW x \in Execution PROVE Own(x)'
      <4>1. ex[x].job # "destroy" => rstate' # InProgress(ex[x].job)
        BY <1>0, <3>1 DEF InProgress, Run, Action
      <4> QED BY <1>0, <2>1, <3>2, <4>1 DEF Own, Waiting
    <3> QED BY <2>4, <3>3
  <2> QED BY <2>5, <2>6
<1>5. ASSUME NEW g \in Generation, Abandon(g) PROVE Told' /\ \A x \in Execution : Own(x)'
  <2>1. /\ InFlight(Reconciled, g) /\ UNCHANGED <<verdict, ex, gen, vms, restore>>
        /\ ops' = [Reconciled EXCEPT ![g].status = "abandoned"] /\ lease' = FenceLease(ops[g].action)
        /\ rstate' = IF rstate = InProgress(ops[g].action) THEN "failed" ELSE rstate
    BY <1>5 DEF Abandon
  <2>2. Reconciled \in [Generation -> Operation]
    BY <1>0, SettledType DEF Reconciled
  <2>3. /\ ops'[g].status = "abandoned"
        /\ \A h \in Generation : h # g => ops'[h] = Reconciled[h]
    BY <2>1, <2>2 DEF Operation
  <2>4. NoneInFlight(ops')
    <3>1. \A h \in Generation : InFlight(Reconciled, h) => h = gen
      BY <1>0, <1>1 DEF RequestInv
    <3> QED BY <2>1, <2>3, <3>1 DEF NoneInFlight, InFlight, InFlightStatus
  <2>5. Told'
    BY <2>1, <2>3, <2>4, ToldKept
  <2>6. ASSUME NEW x \in Execution, lease'.holder = x, ~lease'.tomb PROVE Own(x)'
    <3>1. lease.holder = x
      BY <1>0, <2>1, <2>6, LeaseAssumption DEF FenceLease, Fenced, Reabandoned, LeaseRow, LeaseAssumption
    <3>2. ex[x].job # ops[g].action /\ ~lease.tomb
      BY <1>0, <2>1, <2>6, <3>1, LeaseAssumption DEF FenceLease, Fenced, Reabandoned, LeaseRow, LeaseAssumption
    <3>3. CASE rstate = InProgress(ops[g].action)
      <4>1. rstate' = "failed" /\ (ex[x].job = "destroy" => rstate # "destroying")
        BY <1>0, <2>1, <3>2, <3>3 DEF InProgress, Action
      <4>2. ~Waiting(x)'
        BY <2>1, <4>1 DEF Waiting, InProgress
      <4> QED BY <1>0, <2>1, <3>1, <3>2, <4>1, <4>2 DEF Own
    <3>4. CASE rstate # InProgress(ops[g].action)
      BY <1>0, <2>1, <3>1, <3>2, <3>4 DEF Own, Waiting
    <3> QED BY <3>3, <3>4
  <2>7. \A x \in Execution : lease'.holder # x \/ lease'.tomb => Own(x)'
    BY DEF Own
  <2> QED BY <2>5, <2>6, <2>7
<1>6. CASE ForceRelease
  <2>1. lease' = NoLease /\ ops' = Reconciled /\ UNCHANGED <<rstate, verdict, ex, vms, restore>>
    BY <1>6 DEF ForceRelease
  <2>2. \A x \in Execution : Own(x)'
    BY <2>1, LeaseAssumption DEF Own, NoLease, LeaseAssumption
  <2> QED BY <1>1, <2>1, <2>2, ToldKept
<1>6a. CASE AskRestore
  <2>1. /\ NoneInFlight(ops') /\ ops' = Reconciled /\ restore' = "asked" /\ vms
        /\ UNCHANGED <<rstate, verdict, ex, vms, gen, lease>>
    BY <1>6a DEF AskRestore, RestoreAllowed
  <2> QED BY <1>3, <2>1, ToldKept
<1>7. CASE DiscardUnbuilt
  <2>1. rstate = "created" /\ rstate' = "destroyed" /\ UNCHANGED <<ops, verdict, ex, lease, gen, vms, restore>>
    BY <1>7 DEF DiscardUnbuilt
  <2>2. Told'
    <3>1. rstate' \notin Outcomes("provision") /\ rstate' \notin SnapshotStates
      BY <2>1 DEF Outcomes, Done, SnapshotStates
    <3> QED BY <1>0, <2>1, <3>1 DEF Told, InFlight
  <2>3. ASSUME NEW x \in Execution PROVE Own(x)'
    BY <1>0, <2>1 DEF Own, Waiting, InProgress
  <2> QED BY <2>2, <2>3
<1>8. CASE GetOperations
  BY <1>1, <1>3, <1>8, ToldKept DEF GetOperations
<1>9. CASE MarkSent
  <2>1. sending \in Generation /\ ops[sending].status \in {"pending", "held"}
    BY <1>0, <1>9, OperationsAssumption DEF MarkSent, RequestInv, TypeOK, Generation, OperationsAssumption
  <2>2. \A g \in Generation : ops'[g] = ops[g] \/ (g = sending /\ ops'[g] = [ops[g] EXCEPT !.status = "dispatched"])
    BY <1>0, <1>9, <2>1 DEF MarkSent, TypeOK
  <2>3. ASSUME NEW g \in Generation
        PROVE  /\ ops'[g].status \in {"succeeded", "failed"} => ops'[g].status = ops[g].status
               /\ InFlight(ops', g) => InFlight(ops, g) /\ ops'[g].action = ops[g].action
    BY <1>0, <2>1, <2>2 DEF Operation, InFlight, InFlightStatus
  <2> QED BY <1>3, <1>9, <2>3, ToldKept DEF MarkSent
<1>10. ASSUME NEW g \in Generation, RunDestroyWithBypass(g) PROVE Told' /\ \A x \in Execution : Own(x)'
  <2>1. \A h \in Generation : ops'[h] = ops[h] \/
           (h = g /\ InFlight(ops, g) /\ ops'[h].action = ops[h].action /\ ops'[h].status \in InFlightStatus)
    BY <1>0, <1>10 DEF RunDestroyWithBypass, TypeOK, Operation, InFlight, InFlightStatus
  <2>2. ASSUME NEW h \in Generation
        PROVE  /\ ops'[h].status \in {"succeeded", "failed"} => ops'[h].status = ops[h].status
               /\ InFlight(ops', h) => InFlight(ops, h) /\ ops'[h].action = ops[h].action
    BY <1>0, <2>1 DEF Operation, InFlight, InFlightStatus
  <2> QED BY <1>3, <1>10, <2>2, ToldKept DEF RunDestroyWithBypass
<1>11. CASE RacedGetOps \/ RacedGetWrite \/ RacedWriteRestore
  BY <1>0, <1>11 DEF RequestInv, Told, RacedGetOps, RacedGetWrite, RacedWriteRestore
<1>12. CASE SenderDies \/ CloseWindow \/ (\E s \in 0 .. MaxGen : OpenWindow(s)) \/ (\E g \in Generation : Send(g))
  <2>1. UNCHANGED <<rstate, gen, ops, verdict, lease, ex, vms, restore>>
    BY <1>12 DEF SenderDies, CloseWindow, OpenWindow, Send
  <2> QED BY <1>3, <2>1, ToldKept
<1> QED BY <1>4, <1>5, <1>6, <1>6a, <1>7, <1>8, <1>9, <1>10, <1>11, <1>12 DEF ApiNext, Raced

\* The broker and the clock change none of it; a failed guest check is recorded for the newest
\* operation; a restore writes the range when no worker holds it, and settles nothing.
LEMMA OtherReport ==
    ASSUME ReportInv, TypeOK', Timely, BrokerNext \/ Restore \/ SetupFailed \/ Tick \/ UNCHANGED vars
    PROVE  Told' /\ \A x \in Execution : Own(x)'
<1> USE DEF row, api, world
<1>0. /\ RequestInv /\ LeaseInv /\ TypeOK /\ Told /\ (\A x \in Execution : Own(x))
      /\ ex \in [Execution -> Run] /\ lease \in LeaseRow
  BY DEF ReportInv, RequestInv, TypeOK
<1>1. CASE BrokerNext \/ UNCHANGED vars
  <2>1. UNCHANGED <<rstate, gen, ops, verdict, lease, ex, vms, restore>>
    BY <1>1 DEF BrokerNext, ClaimBlocked, ClaimError, vars
  <2>2. \A x \in Execution : Own(x)'
    BY <1>0, <2>1, SameOwn
  <2> QED BY <2>1, <2>2, ToldKept
<1>2. CASE SetupFailed
  <2>1. /\ rstate = "ready" /\ rstate' = "failed" /\ UNCHANGED <<gen, ops, lease, ex, vms, restore>>
        /\ verdict' = [verdict EXCEPT ![gen] = @ \cup {"failed"}]
    BY <1>2 DEF SetupFailed
  <2>2. /\ \A g \in Generation : verdict[g] \subseteq verdict'[g]
        /\ gen \in Generation => "failed" \in verdict'[gen]
    BY <1>0, <2>1 DEF TypeOK
  <2>3. ASSUME NEW g \in Generation, InFlight(ops, g)
        PROVE  Outcome(ops[g].action, "failed") \in verdict'[g]
    <3>1. g = gen /\ ops[g].action \in Action
      BY <1>0, <2>3 DEF RequestInv, TypeOK, Operation
    <3> QED BY <2>2, <3>1 DEF Outcome, Done, Action
  <2>4. Told'
    BY <1>0, <2>1, <2>2, <2>3 DEF Told, InFlight, SnapshotStates
  <2>5. ASSUME NEW x \in Execution PROVE Own(x)'
    BY <1>0, <2>1 DEF Own, Waiting, InProgress
  <2> QED BY <2>4, <2>5
<1>3. CASE Tick
  <2>1. UNCHANGED <<rstate, gen, ops, verdict, vms, restore>> /\ lease' = Aged(lease)
    BY <1>3 DEF Tick
  <2>2. lease'.tomb = lease.tomb /\ lease'.holder = lease.holder
    BY <1>0, <2>1 DEF Aged, LeaseRow
  <2>3. ASSUME NEW x \in Execution PROVE Own(x)'
    <3>1. ex'[x] = [ex[x] EXCEPT !.missed = IF Live(x) THEN @ + 1 ELSE @,
                                 !.grace = IF @ > 0 THEN @ - 1 ELSE 0] /\ ex[x] \in Run
      BY <1>0, <1>3 DEF Tick
    <3>2. ex'[x].pc = ex[x].pc /\ ex'[x].job = ex[x].job /\ ex'[x].task = ex[x].task
      BY <3>1 DEF Run
    <3> QED BY <1>0, <2>1, <2>2, <3>2, SameOwn
  <2> QED BY <2>1, <2>3, ToldKept
<1>4. CASE Restore
  <2>1. Claimable(lease) /\ restore = "asked" /\ UNCHANGED <<gen, ops, verdict, lease, ex, vms>>
    BY <1>4 DEF Restore
  <2>2. \A x \in Execution : Own(x)'
    BY <1>0, <2>1, KnownMeans DEF Own
  <2>3. /\ restore' \in {"none", "asked"} /\ (restore' = "asked" => rstate' = "failed")
        /\ rstate' = rstate \/ (rstate \in Restorable /\ rstate' \in SnapshotStates \cup {"failed"})
    BY <1>4 DEF Restore
  <2>4. ASSUME NEW g \in Generation, InFlight(ops, g), rstate' \in Outcomes(ops[g].action)
        PROVE  rstate' = rstate
    BY <1>0, <2>1, <2>3, <2>4 DEF Told, Restorable, SnapshotStates, Outcomes, Done
  <2>5. "failed" \notin SnapshotStates /\ "created" \notin SnapshotStates
    BY DEF SnapshotStates
  <2>6. Told'
    BY <1>0, <2>1, <2>3, <2>4, <2>5 DEF Told, InFlight
  <2> QED BY <2>2, <2>6
<1> QED BY <1>1, <1>2, <1>3, <1>4

\* A worker records an outcome for the newest operation, which the range waits for.
LEMMA RecordTells ==
    ASSUME ReportInv, NEW x \in Execution, Waiting(x), ex[x].task = gen, UNCHANGED <<ops, gen, restore>>,
           vms => vms',
           rstate' \in Outcomes(ex[x].job),
           verdict' = [verdict EXCEPT ![ex[x].task] = @ \cup {Outcome(ex[x].job, rstate')}]
    PROVE  Told'
<1>0. RequestInv /\ TypeOK /\ Told /\ ex[x].job \in Action /\ verdict \in [Generation -> SUBSET {"succeeded", "failed"}]
  BY DEF ReportInv, RequestInv, TypeOK, Run
<1>1. gen # 0 /\ InFlight(ops, gen) /\ ops[gen].action = ex[x].job /\ gen \in Generation
  BY <1>0, OperationsAssumption DEF RequestInv, Waiting, TypeOK, Generation, OperationsAssumption
<1>2. /\ \A g \in Generation : verdict[g] \subseteq verdict'[g]
      /\ Outcome(ex[x].job, rstate') \in verdict'[gen]
  BY <1>0, <1>1
<1>3. \A g \in Generation : InFlight(ops, g) => g = gen
  BY <1>0 DEF RequestInv
<1>4. rstate' # "created" /\ (ex[x].job = "destroy" => rstate' \notin SnapshotStates)
  BY <1>0 DEF Outcomes, Done, Action, SnapshotStates
<1> QED BY <1>0, <1>1, <1>2, <1>3, <1>4 DEF Told, InFlight

LEMMA WorkerReport ==
    ASSUME ReportInv, TypeOK', NEW x \in Execution, WorkerNext(x)
    PROVE  Told' /\ \A y \in Execution : Own(y)'
<1> USE DEF row, api, world
<1>0. /\ RequestInv /\ LeaseInv /\ TypeOK /\ Told /\ (\A y \in Execution : Own(y)) /\ lease \in LeaseRow
      /\ ex[x] \in Run /\ ex \in [Execution -> Run] /\ ex' = [ex EXCEPT ![x] = ex'[x]]
  <2>1. TypeOK
    BY DEF ReportInv, RequestInv
  <2> QED BY <2>1, StepsAlone DEF ReportInv, TypeOK
<1>1. \A y \in Execution : y # x => ex'[y] = ex[y]
  BY <1>0
<1>2. Obs(x) = "held" => lease.holder = x /\ ~lease.tomb
  BY DEF Obs, Observe
<1>3. ASSUME UNCHANGED <<rstate, ops, verdict, restore>>, vms => vms' PROVE Told'
  BY <1>3, ToldKept
<1>4. ASSUME ex'[x].pc \notin {"entry", "run", "calling", "result", "failing"},
             UNCHANGED <<rstate, gen, lease>> \/ lease'.holder \notin Execution \ {x}
      PROVE  \A y \in Execution : Own(y)'
  BY <1>0, <1>1, <1>4 DEF Own, Waiting
<1>5. ASSUME UNCHANGED <<rstate, gen>>, lease'.tomb = lease.tomb /\ lease'.holder = lease.holder,
             ex'[x].pc \in {"entry", "run", "calling", "result", "failing"} =>
                /\ ex[x].pc \in {"entry", "run", "calling", "result", "failing"}
                /\ ex'[x].job = ex[x].job /\ ex'[x].task = ex[x].task
      PROVE  \A y \in Execution : Own(y)'
  <2>1. Own(x)'
    BY <1>0, <1>5, SameOwn
  <2>2. ASSUME NEW y \in Execution, y # x PROVE Own(y)'
    BY <1>0, <1>1, <1>5, <2>2, SameOwn
  <2> QED BY <2>1, <2>2
<1>7. CASE ClaimCheck(x)
  <2>1. /\ UNCHANGED <<rstate, ops, verdict, gen, lease, restore, vms>> /\ ex'[x].job = ex[x].job
        /\ ex'[x].pc \in {"entry", "ending"}
        /\ ex'[x].pc = "entry" => Waiting(x) /\ ex'[x].task = gen
    BY <1>0, <1>7 DEF ClaimCheck, Run
  <2>2. Own(x)'
    BY <2>1 DEF Own, Waiting, InProgress
  <2>3. ASSUME NEW y \in Execution, y # x PROVE Own(y)'
    BY <1>0, <1>1, <2>1, <2>3, SameOwn
  <2> QED BY <1>3, <2>1, <2>2, <2>3
<1>8. CASE AtEntry(x)
  <2>1. Told'
    BY <1>3, <1>8 DEF AtEntry
  <2> QED BY <1>0, <1>5, <1>8, <2>1 DEF AtEntry, Run
<1>9. ASSUME NEW op \in 0 .. MaxGen, AtEntryUnreadable(x, op) PROVE Told' /\ \A y \in Execution : Own(y)'
  <2>1. Told'
    BY <1>3, <1>9 DEF AtEntryUnreadable
  <2> QED BY <1>0, <1>5, <1>9, <2>1 DEF AtEntryUnreadable, Run
<1>10. CASE HoldOperation(x)
  <2>1. ex[x].task \in Generation
    BY <1>0, <1>10, OperationsAssumption DEF HoldOperation, Run, Generation, OperationsAssumption
  <2>2. ASSUME NEW g \in Generation
        PROVE  /\ ops'[g].status \in {"succeeded", "failed"} => ops'[g].status = ops[g].status
               /\ InFlight(ops', g) => InFlight(ops, g) /\ ops'[g].action = ops[g].action
    <3>1. \/ ops'[g] = ops[g]
          \/ ops[g].status \in {"pending", "dispatched"} /\ ops'[g] = [ops[g] EXCEPT !.status = "held"]
      BY <1>0, <1>10, <2>1, ZenonT(60) DEF HoldOperation, TypeOK, Operation
    <3> QED BY <1>0, <3>1 DEF TypeOK, Operation, InFlight, InFlightStatus
  <2>3. Told'
    BY <1>10, <2>2, ToldKept DEF HoldOperation
  <2> QED BY <1>0, <1>4, <1>10, <2>3 DEF HoldOperation, Run
<1>11. CASE HoldRange(x)
  <2>1. /\ UNCHANGED <<vms, gen, ops, restore, lease, verdict>>
        /\ ex'[x].pc \notin {"entry", "run", "calling", "result", "failing"}
    BY <1>0, <1>11 DEF HoldRange, Run
  <2>2. CASE rstate' = rstate
    BY <1>3, <1>4, <2>1, <2>2
  <2>3. CASE rstate' # rstate
    <3>1. rstate' = "created" /\ Obs(x) = "held" /\ ex[x].job = "provision" /\ rstate = "provisioning"
      BY <1>11, <2>3 DEF HoldRange, Waiting, InProgress
    <3>2. \A g \in Generation : InFlight(ops, g) => ops[g].action = "provision"
      BY <1>0, <3>1 DEF RequestInv, InProgress, Action
    <3>3. rstate' \notin SnapshotStates /\ rstate' \notin Outcomes("provision")
      BY <3>1 DEF SnapshotStates, Outcomes, Done
    <3>4. Told'
      BY <1>0, <2>1, <3>1, <3>2, <3>3 DEF Told, InFlight
    <3> QED BY <1>2, <1>4, <2>1, <3>1, <3>4
  <2> QED BY <2>2, <2>3
<1>12. ASSUME NEW e \in {"retry", "final"}, FailBeforeCall(x, e) \/ CallFailed(x, e)
       PROVE  Told' /\ \A y \in Execution : Own(y)'
  <2>1. Told'
    BY <1>3, <1>12 DEF FailBeforeCall, CallFailed
  <2>2. CASE FailBeforeCall(x, e)
    BY <1>0, <1>5, <2>1, <2>2 DEF FailBeforeCall, Run
  <2>3. CASE CallFailed(x, e)
    BY <1>0, <1>5, <2>1, <2>3 DEF CallFailed, Run
  <2> QED BY <1>12, <2>2, <2>3
<1>13. CASE StartCall(x)
  <2>1. Told'
    BY <1>3, <1>13 DEF StartCall
  <2> QED BY <1>0, <1>5, <1>13, <2>1 DEF StartCall, Run
<1>14. CASE CallOk(x)
  <2>1. Told'
    BY <1>3, <1>14 DEF CallOk
  <2> QED BY <1>0, <1>5, <1>14, <2>1 DEF CallOk, Run
<1>15. CASE CallPartial(x)
  <2>1. Told'
    BY <1>3, <1>15 DEF CallPartial
  <2> QED BY <1>0, <1>5, <1>15, <2>1 DEF CallPartial, Run
<1>16. CASE CallRaised(x)
  <2>1. Told'
    BY <1>3, <1>16 DEF CallRaised
  <2> QED BY <1>0, <1>5, <1>16, <2>1 DEF CallRaised, Run
<1>17. CASE SoftLimit(x)
  <2>1. Told'
    BY <1>3, <1>17 DEF SoftLimit
  <2> QED BY <1>0, <1>5, <1>17, <2>1 DEF SoftLimit, Run
<1>18. CASE EndThread(x)
  <2>1. Told'
    BY <1>3, <1>18 DEF EndThread
  <2> QED BY <1>0, <1>5, <1>18, <2>1 DEF EndThread, Run
<1>19. CASE WriteOutcome(x)
  <2>1. /\ Waiting(x) /\ Obs(x) = "held" /\ UNCHANGED <<ops, gen, restore, lease>> /\ (vms => vms')
        /\ rstate' \in Outcomes(ex[x].job)
        /\ verdict' = [verdict EXCEPT ![ex[x].task] = @ \cup {Outcome(ex[x].job, rstate')}]
    BY <1>19 DEF WriteOutcome, Outcomes
  <2>2. ex[x].task = gen
    BY <1>0, <1>2, <1>19 DEF WriteOutcome, Own
  <2>3. Told'
    BY <2>1, <2>2, RecordTells
  <2>4. ex'[x].pc = "ending"
    BY <1>0, <1>19 DEF WriteOutcome, Run
  <2> QED BY <1>2, <1>4, <2>1, <2>3, <2>4
<1>20. CASE WriteRefused(x)
  <2>1. Told'
    BY <1>3, <1>20 DEF WriteRefused
  <2> QED BY <1>0, <1>4, <1>20, <2>1 DEF WriteRefused, AfterRefusal, Run
<1>21. CASE WriteFails(x)
  <2>1. Told'
    BY <1>3, <1>21 DEF WriteFails
  <2> QED BY <1>0, <1>5, <1>21, <2>1 DEF WriteFails, Run
<1>22. CASE RecordFailure(x)
  <2>1. ex'[x].pc = "raised" /\ UNCHANGED <<ops, gen, restore, lease, vms>>
    BY <1>0, <1>22 DEF RecordFailure, Run
  <2>2. CASE LastFailure(x) /\ Obs(x) = "held" /\ Waiting(x)
    <3>1. rstate' = "failed" /\ verdict' = [verdict EXCEPT ![ex[x].task] = @ \cup {"failed"}]
      BY <1>22, <2>2 DEF RecordFailure
    <3>2. "failed" \in Outcomes(ex[x].job) /\ Outcome(ex[x].job, "failed") = "failed"
      BY <1>0 DEF Outcomes, Outcome, Done, Run, Action
    <3>3. ex[x].task = gen
      BY <1>0, <1>2, <1>22, <2>2 DEF RecordFailure, Own
    <3>4. Told'
      BY <2>1, <2>2, <3>1, <3>2, <3>3, RecordTells
    <3> QED BY <1>2, <1>4, <2>1, <2>2, <3>4
  <2>3. CASE ~(LastFailure(x) /\ Obs(x) = "held" /\ Waiting(x))
    <3>1. UNCHANGED <<rstate, verdict>>
      BY <1>22, <2>3 DEF RecordFailure
    <3> QED BY <1>3, <1>4, <2>1, <3>1
  <2> QED BY <2>2, <2>3
<1>23. ASSUME NEW ok \in BOOLEAN, Discard(x, ok) PROVE Told' /\ \A y \in Execution : Own(y)'
  <2>1. Told'
    BY <1>3, <1>23 DEF Discard
  <2> QED BY <1>0, <1>4, <1>23, <2>1 DEF Discard, Run
<1>24. CASE RecordLeftover(x)
  <2>1. Told'
    BY <1>3, <1>24 DEF RecordLeftover
  <2> QED BY <1>0, <1>4, <1>24, <2>1 DEF RecordLeftover, Run
<1>25. CASE LeftoverLost(x)
  <2>1. Told'
    BY <1>3, <1>25 DEF LeftoverLost
  <2> QED BY <1>0, <1>4, <1>25, <2>1 DEF LeftoverLost, Run
<1>26. CASE Raised(x)
  <2>1. Told'
    BY <1>3, <1>26 DEF Raised
  <2> QED BY <1>0, <1>4, <1>26, <2>1 DEF Raised, Run
<1>27. CASE End(x) \/ ReleaseFailed(x) \/ Keep(x) \/ Crash(x)
  <2>1. UNCHANGED <<rstate, gen, ops, verdict, restore, vms>>
    BY <1>27 DEF End, ReleaseFailed, Keep, Crash
  <2>2. ex'[x].pc = "idle"
    <3>1. CASE ex'[x] = Idle
      BY <3>1 DEF Idle
    <3>2. CASE \E th \in BOOLEAN : ex'[x] = Over(ex[x], th)
      BY <3>2 DEF Over, Idle
    <3>3. ex'[x] = Idle \/ (\E th \in BOOLEAN : ex'[x] = Over(ex[x], th))
      BY <1>0, <1>27 DEF End, ReleaseFailed, Keep, Crash, Run
    <3> QED BY <3>1, <3>2, <3>3
  <2>3. lease' = lease \/ lease'.holder \notin Execution \ {x}
    <3>1. CASE End(x) \/ ReleaseFailed(x) \/ Crash(x)
      <4>1. lease' = lease \/ lease' = NoLease
        BY <3>1 DEF End, ReleaseFailed, Crash, Released
      <4>2. NoLease.holder \notin Execution
        BY LeaseAssumption DEF NoLease, LeaseAssumption
      <4> QED BY <4>1, <4>2
    <3>2. CASE Keep(x)
      BY <1>0, <3>2 DEF Keep, KeptLease, Mine, Extended, LeaseRow
    <3> QED BY <1>27, <3>1, <3>2
  <2> QED BY <1>3, <1>4, <2>1, <2>2, <2>3
<1>28. ASSUME NEW m \in Message, ClaimLease(x, m) PROVE Told' /\ \A y \in Execution : Own(y)'
  <2>1. UNCHANGED <<rstate, gen, ops, verdict, restore, vms>> /\ ex'[x].pc = "claimed" /\ lease'.holder = x
    BY <1>0, <1>28 DEF ClaimLease, Claimed, NoLease, Idle
  <2> QED BY <1>3, <1>4, <2>1
<1>29. ASSUME NEW late \in BOOLEAN, Beat(x, late) PROVE Told' /\ \A y \in Execution : Own(y)'
  <2>1. Told'
    BY <1>3, <1>29 DEF Beat
  <2>2. UNCHANGED <<rstate, gen>> /\ ex'[x].pc = ex[x].pc /\ ex'[x].job = ex[x].job /\ ex'[x].task = ex[x].task
    BY <1>0, <1>29 DEF Beat, Run
  <2>3. lease'.tomb = lease.tomb /\ lease'.holder = lease.holder
    BY <1>0, <1>29 DEF Beat, Extended, LeaseRow
  <2> QED BY <1>5, <2>1, <2>2, <2>3
<1> QED
  BY <1>7, <1>8, <1>9, <1>10, <1>11, <1>12, <1>13, <1>14, <1>15, <1>16, <1>17, <1>18, <1>19, <1>20,
     <1>21, <1>22, <1>23, <1>24, <1>25, <1>26, <1>27, <1>28, <1>29 DEF WorkerNext

LEMMA ReportStep ==
    ASSUME ReportInv, Timely, [Next]_vars, ~Raced, \A f \in BOOLEAN : ~AbandonRange(f)
    PROVE  ReportInv'
<1>1. RequestInv' /\ LeaseInv'
  BY RequestStep, LeaseStep DEF ReportInv
<1>2. TypeOK'
  BY <1>1 DEF RequestInv
<1>3. Told' /\ \A x \in Execution : Own(x)'
  BY <1>2, ApiReport, OtherReport, WorkerReport DEF Next
<1> QED BY <1>1, <1>3 DEF ReportInv

LEMMA ReportInit == ASSUME Init PROVE ReportInv
<1>1. RequestInv /\ LeaseInv
  BY RequestInit, LeaseInit
<1>2. \A x \in Execution : ex[x].pc = "idle"
  BY DEF Init, Idle
<1>3. \A g \in Generation : ops[g].status = "none"
  BY DEF Init
<1>4. restore = "none"
  BY DEF Init
<1> QED BY <1>1, <1>2, <1>3, <1>4 DEF ReportInv, Told, Own, InFlight, InFlightStatus

\* An operation that reads succeeded or failed is one whose own worker recorded that, until a request
\* without a lock is raced or the range is written off, for any number of operations, executions,
\* crashes, retries, abandons, restores, soft time limits and stragglers: no late, duplicate or
\* overtaken task records an outcome for an operation it was not given, and no reconcile takes another
\* operation's outcome, or what a restore wrote, for this one's. A live task misses no two heartbeats
\* in a row (Timely).
THEOREM OutcomesAreReported == ASSUME Timely PROVE Spec => []ReportedUnlessOverridden
<1> DEFINE Overridden == Spent("racedRead") \/ Spent("writeOff")
           Inv == TypeOK /\ BudgetInv /\ (Overridden \/ ReportInv)
<1>1. Init => Inv
  BY ReportInit, TypeInit, BuildInit DEF BuildInv
<1>2. Inv /\ [Next]_vars => Inv'
  <2> SUFFICES ASSUME Inv, [Next]_vars PROVE Inv'
    OBVIOUS
  <2>1. TypeOK' /\ BudgetInv'
    BY TypeStep, BudgetStep
  <2>2. CASE Overridden
    <3>1. Overridden'
      BY <2>2, SpentStays DEF Rare
    <3> QED BY <2>1, <3>1
  <2>3. CASE Raced \/ \E f \in BOOLEAN : AbandonRange(f)
    <3>1. Overridden'
      BY <2>3, SpendSpends DEF Raced, RacedGetRange, RacedAskRestore, AbandonRange, Rare
    <3> QED BY <2>1, <3>1
  <2>4. CASE ReportInv /\ ~Raced /\ \A f \in BOOLEAN : ~AbandonRange(f)
    <3>1. ReportInv'
      BY <2>4, ReportStep
    <3> QED BY <2>1, <3>1
  <2> QED BY <2>2, <2>3, <2>4
<1>3. Inv => ReportedUnlessOverridden
  BY ReconcileTells DEF ReportedUnlessOverridden, ReportedIsTrue
<1> QED BY <1>1, <1>2, <1>3, PTL DEF Spec

\* Where neither may happen it is so always.
THEOREM OutcomesAreTrue ==
    ASSUME Timely, Budget["racedRead"] = 0, Budget["writeOff"] = 0
    PROVE  Spec => []ReportedIsTrue
<1>1. TypeOK /\ ReportedUnlessOverridden => ReportedIsTrue
  BY DEF ReportedUnlessOverridden, Spent, TypeOK, Rare
<1> QED BY <1>1, TypeCorrect, OutcomesAreReported, PTL

-----------------------------------------------------------------------------
(* A call that its task left running is covered until an abandon.          *)

\* As long as nothing was abandoned and no call raised with a thread behind it: an execution that
\* has not ended has its lease; a call runs inside its task, or the task has met its soft time
\* limit, or is over and left a lease that outlasts the call.
Kept(x) ==
    /\ ex[x].pc # "idle" => /\ lease.holder = x /\ ex[x].seen = "held"
                            /\ lease.ttl + ex[x].missed >= LeaseTicks
    /\ ex[x].thread => \/ ex[x].pc \in {"calling", "discard"}
                       \/ ex[x].pc \in {"failing", "raised"} /\ ex[x].err = "soft"
                       \/ /\ ex[x].pc = "idle" /\ lease.holder = x
                          /\ ex[x].grace >= 1 /\ lease.ttl >= ex[x].grace

KeptInv == TypeOK /\ ~lease.tomb /\ \A x \in Execution : Kept(x)

\* Whoever is at work, or left a call, has the range for itself.
LEMMA KeptMeans ==
    ASSUME KeptInv, Timely, NEW x \in Execution, ex[x].pc # "idle" \/ ex[x].thread
    PROVE  /\ lease.holder = x /\ lease.ttl > 0
           /\ \A y \in Execution : y # x => ex[y].pc = "idle" /\ ~ex[y].thread
<1>1. lease.ttl \in Nat /\ LeaseTicks \in Nat /\ MaxMissed \in Nat
  BY LeaseAssumption, OperationsAssumption DEF KeptInv, TypeOK, LeaseRow, LeaseAssumption, OperationsAssumption
<1>2. ASSUME NEW y \in Execution, ex[y].pc # "idle" \/ ex[y].thread PROVE lease.holder = y /\ lease.ttl > 0
  <2>1. Kept(y) /\ ex[y].missed \in 0 .. MaxMissed /\ ex[y].grace \in Nat
    BY LeaseAssumption DEF KeptInv, TypeOK, Run, LeaseAssumption
  <2>2. CASE ex[y].pc # "idle"
    BY <1>1, <2>1, <2>2 DEF Kept, Timely
  <2>3. CASE ex[y].pc = "idle"
    BY <1>1, <1>2, <2>1, <2>3 DEF Kept
  <2> QED BY <2>2, <2>3
<1> QED BY <1>2

\* A step of x concerns x only.
LEMMA OneKept ==
    ASSUME KeptInv, TypeOK', Timely, NEW x \in Execution, ex' = [ex EXCEPT ![x] = ex'[x]],
           \A y \in Execution : y # x => ex[y].pc = "idle" /\ ~ex[y].thread,
           ~lease'.tomb, Kept(x)'
    PROVE  KeptInv'
<1>1. ASSUME NEW y \in Execution, y # x PROVE Kept(y)'
  <2>1. ex'[y] = ex[y]
    BY <1>1 DEF KeptInv, TypeOK
  <2> QED BY <1>1, <2>1 DEF Kept
<1> QED BY <1>1 DEF KeptInv

LEMMA WorkerKept ==
    ASSUME KeptInv, TypeOK', Timely, NEW x \in Execution, WorkerNext(x), ~CallRaised(x)
    PROVE  KeptInv'
<1> USE DEF row, api, world
<1>0. /\ TypeOK /\ Kept(x) /\ lease \in LeaseRow /\ ~lease.tomb /\ LeaseTicks \in Nat /\ KeptTicks \in Nat
      /\ LeaseTicks < KeptTicks
      /\ ex[x] \in Run /\ ex'[x] \in Run /\ ex \in [Execution -> Run] /\ ex' = [ex EXCEPT ![x] = ex'[x]]
  <2>1. TypeOK
    BY DEF KeptInv
  <2> QED BY <2>1, StepsAlone, LeaseAssumption DEF KeptInv, TypeOK, LeaseAssumption
<1>1. ex[x].pc # "idle" => Obs(x) = "held" /\ ex[x].seen = "held" /\ lease.holder = x
  BY <1>0 DEF Kept, Obs, Observe
<1>2. ex[x].pc # "idle" \/ ex[x].thread => \A y \in Execution : y # x => ex[y].pc = "idle" /\ ~ex[y].thread
  BY KeptMeans
<1>3. ASSUME ex[x].pc # "idle", lease' = lease, ex'[x].missed = ex[x].missed, ex'[x].seen = "held",
             ex'[x].thread => \/ ex'[x].pc \in {"calling", "discard"}
                              \/ ex'[x].pc \in {"failing", "raised"} /\ ex'[x].err = "soft"
      PROVE  KeptInv'
  <2>1. Kept(x)'
    BY <1>0, <1>3 DEF Kept
  <2> QED BY <1>0, <1>2, <1>3, <2>1, OneKept
<1>4. ASSUME NEW m \in Message, ClaimLease(x, m) PROVE KeptInv'
  <2>1. \A y \in Execution : ex[y].pc = "idle" /\ ~ex[y].thread
    <3>1. lease.ttl = 0
      BY <1>4 DEF ClaimLease, Claimable
    <3> QED BY <3>1, KeptMeans
  <2>2. ex'[x].thread = FALSE /\ ex'[x].seen = "held" /\ ex'[x].missed = 0
    BY <1>0, <1>4 DEF ClaimLease, Idle
  <2>3. lease'.holder = x /\ lease'.ttl = LeaseTicks /\ lease'.tomb = FALSE
    BY <1>4 DEF ClaimLease, Claimed, NoLease
  <2>4. Kept(x)'
    BY <1>0, <2>2, <2>3 DEF Kept
  <2> QED BY <1>0, <2>1, <2>3, <2>4, OneKept
<1>5. CASE ClaimCheck(x)
  BY <1>0, <1>1, <1>3, <1>5 DEF ClaimCheck, Run, Kept
<1>6. CASE AtEntry(x)
  BY <1>0, <1>1, <1>3, <1>6 DEF AtEntry, Run, Kept
<1>7. ASSUME NEW op \in 0 .. MaxGen, AtEntryUnreadable(x, op) PROVE KeptInv'
  BY <1>0, <1>1, <1>3, <1>7 DEF AtEntryUnreadable, Run, Kept
<1>8. CASE HoldOperation(x)
  BY <1>0, <1>1, <1>3, <1>8 DEF HoldOperation, Run, Kept
<1>9. CASE HoldRange(x)
  BY <1>0, <1>1, <1>3, <1>9 DEF HoldRange, Run, Kept
<1>10. ASSUME NEW e \in {"retry", "final"}, FailBeforeCall(x, e) PROVE KeptInv'
  BY <1>0, <1>1, <1>3, <1>10 DEF FailBeforeCall, Run, Kept
<1>11. ASSUME NEW e \in {"retry", "final"}, CallFailed(x, e) PROVE KeptInv'
  BY <1>0, <1>1, <1>3, <1>11 DEF CallFailed, Run
<1>12. CASE StartCall(x)
  BY <1>0, <1>1, <1>3, <1>12 DEF StartCall, Run
<1>13. CASE CallOk(x)
  BY <1>0, <1>1, <1>3, <1>13 DEF CallOk, Run
<1>13a. CASE CallPartial(x)
  BY <1>0, <1>1, <1>3, <1>13a DEF CallPartial, Run
<1>14. CASE SoftLimit(x)
  BY <1>0, <1>1, <1>3, <1>14 DEF SoftLimit, Run
<1>15. CASE EndThread(x)
  <2>1. /\ ex[x].thread /\ lease' = lease /\ ex'[x].thread = FALSE /\ ex'[x].pc = ex[x].pc
        /\ ex'[x].seen = ex[x].seen /\ ex'[x].missed = ex[x].missed
    BY <1>0, <1>15 DEF EndThread, Run
  <2>2. Kept(x)'
    BY <1>0, <2>1 DEF Kept
  <2> QED BY <1>0, <1>2, <2>1, <2>2, OneKept
<1>16. CASE WriteOutcome(x)
  BY <1>0, <1>1, <1>3, <1>16 DEF WriteOutcome, Run, Kept
<1>17. CASE WriteRefused(x)
  <2>1. /\ ex[x].pc = "result" /\ lease' = lease /\ ex'[x].seen = "held" /\ ex'[x].missed = ex[x].missed
        /\ ex'[x].pc = AfterRefusal(x) /\ ex'[x].thread = (AfterRefusal(x) = "discard")
    BY <1>0, <1>1, <1>17 DEF WriteRefused, Run
  <2> QED BY <1>3, <2>1
<1>17a. CASE WriteFails(x)
  BY <1>0, <1>1, <1>3, <1>17a DEF WriteFails, Run, Kept
<1>18. CASE RecordFailure(x)
  <2>1. /\ ex[x].pc = "failing" /\ lease' = lease /\ ex'[x].seen = "held" /\ ex'[x].missed = ex[x].missed
        /\ ex'[x].pc = "raised" /\ ex'[x].thread = ex[x].thread /\ ex'[x].err = ex[x].err
    BY <1>0, <1>1, <1>18 DEF RecordFailure, Run
  <2> QED BY <1>0, <1>3, <2>1 DEF Kept
<1>19. ASSUME NEW ok \in BOOLEAN, Discard(x, ok) PROVE KeptInv'
  BY <1>0, <1>1, <1>3, <1>19 DEF Discard, Run
<1>20. CASE RecordLeftover(x)
  BY <1>0, <1>1, <1>3, <1>20 DEF RecordLeftover, Run, Kept
<1>20a. CASE LeftoverLost(x)
  BY <1>0, <1>1, <1>3, <1>20a DEF LeftoverLost, Run, Kept
<1>21. CASE Raised(x)
  <2>1. ex[x].pc = "raised" /\ ex[x].thread = FALSE /\ lease' = lease
    BY <1>0, <1>21 DEF Raised, Kept, Run
  <2>2. ex'[x].seen = "held" /\ ex'[x].missed = ex[x].missed /\ ex'[x].thread = ex[x].thread
    BY <1>0, <1>1, <1>21 DEF Raised, Run
  <2> QED BY <1>3, <2>1, <2>2
<1>22. CASE End(x) \/ ReleaseFailed(x) \/ Crash(x)
  <2>1. /\ ex[x].pc # "idle" /\ lease' \in {lease, NoLease}
        /\ ex'[x] = Idle \/ ex'[x] = Over(ex[x], FALSE)
    BY <1>0, <1>22 DEF End, ReleaseFailed, Crash, Released, Run, Kept
  <2>2. ex'[x].pc = "idle" /\ ex'[x].thread = FALSE
    <3>1. CASE ex'[x] = Idle
      BY <3>1 DEF Idle
    <3>2. CASE ex'[x] = Over(ex[x], FALSE)
      BY <3>2 DEF Over, Idle
    <3> QED BY <2>1, <3>1, <3>2
  <2>3. Kept(x)' /\ ~lease'.tomb
    BY <1>0, <2>1, <2>2 DEF Kept, NoLease
  <2> QED BY <1>0, <1>2, <2>1, <2>3, OneKept
<1>23. CASE Keep(x)
  <2>1. ex[x].pc = "raised" /\ ex[x].seen = "held" /\ lease.holder = x
    BY <1>1, <1>23 DEF Keep
  <2>2. lease' = Extended(lease, KeptTicks, TRUE)
    <3>1. lease.tomb = FALSE /\ (ex[x].seen = "abandoned") = FALSE
      BY <1>0, <2>1 DEF LeaseRow
    <3>2. Mine(x)
      BY <2>1, <3>1, Zenon DEF Mine
    <3> QED BY <1>23, <3>2 DEF Keep, KeptLease
  <2>3. lease'.holder = x /\ lease'.tomb = FALSE /\ lease'.ttl >= KeptTicks
    BY <1>0, <2>1, <2>2 DEF Extended, LeaseRow
  <2>4. ex'[x] = Over(ex[x], ex[x].thread)
    BY <1>0, <1>23 DEF Keep
  <2>5. ex'[x].pc = "idle" /\ ex'[x].thread = ex[x].thread /\ (ex'[x].thread => ex'[x].grace = KeptTicks)
    BY <1>0, <2>4 DEF Over, Idle, Run
  <2>6. KeptTicks >= 1
    BY <1>0
  <2>7. Kept(x)'
    BY <2>3, <2>5, <2>6 DEF Kept
  <2> QED BY <1>0, <1>2, <2>1, <2>3, <2>7, OneKept
<1>24. ASSUME NEW late \in BOOLEAN, Beat(x, late) PROVE KeptInv'
  <2>1. ex[x].pc # "idle" /\ lease' = Extended(lease, LeaseTicks, late)
    BY <1>1, <1>24 DEF Beat, Beating
  <2>2. /\ ex'[x].missed = 0 /\ ex'[x].pc = ex[x].pc /\ ex'[x].thread = ex[x].thread
        /\ ex'[x].err = ex[x].err /\ ex'[x].seen = "held" /\ ex'[x].grace = ex[x].grace
    BY <1>0, <1>1, <1>24, <2>1 DEF Beat, Run
  <2>3. lease'.holder = x /\ lease'.tomb = FALSE /\ lease'.ttl >= LeaseTicks /\ lease'.ttl \in Nat
    BY <1>0, <1>1, <2>1 DEF Extended, LeaseRow
  <2>4. Kept(x)'
    BY <1>0, <2>1, <2>2, <2>3 DEF Kept
  <2> QED BY <1>0, <1>2, <2>1, <2>3, <2>4, OneKept
<1> QED
  BY <1>4, <1>5, <1>6, <1>7, <1>8, <1>9, <1>10, <1>11, <1>12, <1>13, <1>13a, <1>14, <1>15, <1>16, <1>17,
     <1>17a, <1>18, <1>19, <1>20, <1>20a, <1>21, <1>22, <1>23, <1>24 DEF WorkerNext

\* A heartbeat period costs a live task's lease one period and one missed renewal, and a kept lease
\* no more than the call it covers.
LEMMA TickKept == ASSUME KeptInv, TypeOK', Timely, Tick PROVE KeptInv'
<1>0. /\ lease \in LeaseRow /\ ~lease.tomb /\ LeaseTicks \in Nat /\ MaxMissed \in Nat
      /\ ex \in [Execution -> Run] /\ lease' = Aged(lease) /\ lease.ttl \in Nat
  <2>1. lease' = Aged(lease)
    BY DEF Tick
  <2>2. lease \in LeaseRow /\ ~lease.tomb /\ ex \in [Execution -> Run]
    BY DEF KeptInv, TypeOK
  <2> QED
    BY <2>1, <2>2, LeaseAssumption, OperationsAssumption DEF LeaseRow, LeaseAssumption, OperationsAssumption
<1>1. /\ lease'.holder = lease.holder /\ lease'.tomb = FALSE
      /\ lease'.ttl \in Nat /\ (lease.ttl > 0 => lease'.ttl = lease.ttl - 1)
  BY <1>0 DEF Aged, LeaseRow
<1>2. ASSUME NEW x \in Execution PROVE Kept(x)'
  <2>0. Kept(x) /\ ex[x] \in Run /\ ex[x].missed \in Nat /\ ex[x].grace \in Nat
    BY <1>0, LeaseAssumption DEF KeptInv, Run, LeaseAssumption
  <2>1. ex'[x] = [ex[x] EXCEPT !.missed = IF Live(x) THEN @ + 1 ELSE @,
                               !.grace = IF @ > 0 THEN @ - 1 ELSE 0]
    BY DEF Tick
  <2>2. /\ ex'[x].pc = ex[x].pc /\ ex'[x].seen = ex[x].seen /\ ex'[x].err = ex[x].err
        /\ ex'[x].thread = ex[x].thread /\ (Live(x) => ex'[x].missed = ex[x].missed + 1)
        /\ ex'[x].grace = IF ex[x].grace > 0 THEN ex[x].grace - 1 ELSE 0
    BY <2>0, <2>1 DEF Run
  <2>3. ex[x].grace # 1
    BY Zenon DEF Tick
  <2>4. CASE ex[x].pc # "idle"
    <3>1. Live(x) /\ lease.holder = x /\ lease.ttl > 0
      BY <2>0, <2>4, KeptMeans DEF Live, Kept
    <3>2. lease'.ttl + ex'[x].missed >= LeaseTicks
      BY <1>0, <1>1, <2>0, <2>2, <2>4, <3>1 DEF Kept
    <3> QED BY <1>1, <2>0, <2>2, <2>4, <3>2 DEF Kept
  <2>5. CASE ex[x].pc = "idle" /\ ex[x].thread
    <3>1. ex[x].grace >= 1 /\ lease.ttl >= ex[x].grace /\ lease.holder = x
      BY <2>0, <2>5 DEF Kept
    <3>2. ex'[x].grace >= 1 /\ lease'.ttl >= ex'[x].grace
      BY <1>0, <1>1, <2>0, <2>2, <2>3, <3>1
    <3> QED BY <1>1, <2>2, <2>5, <3>1, <3>2 DEF Kept
  <2>6. CASE ex[x].pc = "idle" /\ ~ex[x].thread
    BY <2>2, <2>6 DEF Kept
  <2> QED BY <2>4, <2>5, <2>6
<1> QED BY <1>1, <1>2 DEF KeptInv

\* Nothing but an abandon or a call that raises breaks it: a force-release needs a tombstone.
LEMMA KeptStep ==
    ASSUME KeptInv, Timely, [Next]_vars, \A g \in Generation : ~Abandon(g),
           \A x \in Execution : ~CallRaised(x)
    PROVE  KeptInv'
<1> USE DEF row, api, world
<1>0. TypeOK'
  BY TypeStep DEF KeptInv
<1>1. ASSUME UNCHANGED <<lease, ex>> PROVE KeptInv'
  BY <1>0, <1>1 DEF KeptInv, Kept
<1>2. CASE ApiNext
  <2>1. ~ForceRelease
    BY DEF KeptInv, ForceRelease, ProvenStopped
  <2>2. UNCHANGED <<lease, ex>>
    BY <1>2, <2>1 DEF ApiNext, Accept, Send, RunDestroyWithBypass, MarkSent, SenderDies, GetOperations,
       RacedGetRange, RacedGetOps, RacedGetWrite, AskRestore, RacedAskRestore, RacedWriteRestore,
       AbandonRange, DiscardUnbuilt, OpenWindow, CloseWindow
  <2> QED BY <1>1, <2>2
<1>3. CASE BrokerNext \/ Restore \/ SetupFailed \/ UNCHANGED vars
  BY <1>1, <1>3 DEF BrokerNext, ClaimBlocked, ClaimError, Restore, SetupFailed, vars
<1> QED BY <1>0, <1>2, <1>3, WorkerKept, TickKept DEF Next

\* An abandoned operation stays abandoned.
LEMMA AbandonedStays ==
    ASSUME LedgerInv, [Next]_vars, NEW g \in Generation, ops[g].status = "abandoned"
    PROVE  ops'[g].status = "abandoned"
<1>0. TypeOK /\ RequestInv /\ ~InFlight(ops, g)
  BY DEF LedgerInv, RequestInv, InFlight, InFlightStatus
<1>1. ASSUME NEW a \in Requests, NEW b \in BOOLEAN, Accept(a, b) PROVE ops'[g].status = "abandoned"
  <2>1. g # gen + 1
    BY <1>0 DEF LedgerInv, TypeOK, Generation
  <2>2. Reconciled[g] = ops[g]
    BY <1>0, ReconcileKeeps
  <2>3. ~InFlight(Reconciled, g)
    BY <1>0, <2>2 DEF InFlight
  <2> QED BY <1>1, <2>1, <2>2, <2>3 DEF Accept
<1>2. CASE Next /\ ~ \E a \in Requests, b \in BOOLEAN : Accept(a, b)
  <2>1. Settles
    BY <1>2, ApiSettles, OthersSettle DEF Next
  <2> QED BY <1>0, <2>1 DEF Settles
<1>3. CASE UNCHANGED vars
  BY <1>3 DEF vars, api
<1> QED BY <1>1, <1>2, <1>3

\* A call left running by a task that met its soft time limit stays under the lease kept for it, for
\* as long as the call may last, and every other call under its task's lease, until somebody abandons
\* an operation of the range or a call raises with a thread behind it. No request may be raced: a raced
\* one can overwrite the abandon that the exception is about.
THEOREM CallsStayCovered ==
    ASSUME Timely, Budget["racedRead"] = 0
    PROVE  Spec => []CoveredUnlessAbandoned
<1> DEFINE Abandoned == \E g \in Generation : ops[g].status = "abandoned"
           Inv == LedgerInv /\ BudgetInv /\ (Spent("straggler") \/ Abandoned \/ KeptInv)
<1>1. Init => Inv
  <2> SUFFICES ASSUME Init PROVE Inv
    OBVIOUS
  <2>1. TypeOK /\ BudgetInv /\ RequestInv
    BY TypeInit, BuildInit, RequestInit DEF BuildInv
  <2>2. LedgerInv
    BY <2>1 DEF LedgerInv, Init, Generation
  <2>3. \A x \in Execution : ex[x].pc = "idle" /\ ex[x].thread = FALSE
    BY DEF Init, Idle
  <2>4. KeptInv
    BY <2>1, <2>3 DEF KeptInv, Kept, Init, NoLease
  <2> QED BY <2>1, <2>2, <2>4
<1>2. Inv /\ [Next]_vars => Inv'
  <2> SUFFICES ASSUME Inv, [Next]_vars PROVE Inv'
    OBVIOUS
  <2>0. TypeOK
    BY DEF LedgerInv, RequestInv
  <2>1. LedgerInv' /\ BudgetInv'
    BY <2>0, LedgerStep, BudgetStep
  <2>2. CASE Spent("straggler")
    <3>1. Spent("straggler")'
      BY <2>0, <2>2, SpentStays DEF Rare
    <3> QED BY <2>1, <3>1
  <2>3. CASE Abandoned
    <3>1. Abandoned'
      BY <2>3, AbandonedStays
    <3> QED BY <2>1, <3>1
  <2>4. ASSUME NEW g \in Generation, Abandon(g) PROVE Inv'
    <3>1. Reconciled \in [Generation -> Operation]
      BY <2>0, SettledType DEF Reconciled, TypeOK
    <3>2. ops'[g].status = "abandoned"
      BY <2>4, <3>1 DEF Abandon, Operation
    <3> QED BY <2>1, <3>2
  <2>5. ASSUME NEW x \in Execution, CallRaised(x) PROVE Inv'
    <3>1. Spent("straggler")'
      BY <2>0, <2>5, SpendSpends DEF CallRaised, Rare
    <3> QED BY <2>1, <3>1
  <2>6. ASSUME KeptInv, \A g \in Generation : ~Abandon(g), \A x \in Execution : ~CallRaised(x) PROVE Inv'
    <3>1. KeptInv'
      BY <2>6, KeptStep
    <3> QED BY <2>1, <3>1
  <2> QED BY <2>2, <2>3, <2>4, <2>5, <2>6
<1>3. Inv => CoveredUnlessAbandoned
  <2> SUFFICES ASSUME KeptInv PROVE CallIsCovered
    BY DEF CoveredUnlessAbandoned
  <2> QED BY KeptMeans DEF CallIsCovered
<1> QED BY <1>1, <1>2, <1>3, PTL DEF Spec
=============================================================================
