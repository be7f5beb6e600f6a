--------------------------- MODULE RangeOperations ---------------------------
(***************************************************************************)
(* One range of TrueNorth's control plane, from a request to its outcome.  *)
(*                                                                         *)
(*   the API     accepts an operation (the range's state and the operation *)
(*               row in one transaction), sends its task, reconciles,      *)
(*               abandons, force-releases (api/app/range_ops)              *)
(*   the broker  delivers tasks at least once, in any order                *)
(*   the worker  claims the range's lease, re-checks maintenance windows,  *)
(*               calls the hypervisor, records the outcome and releases    *)
(*               (worker/worker/fencing.py, tasks.py, power_tasks.py)      *)
(*                                                                         *)
(* One action is one database transaction, one message or one end of a     *)
(* hypervisor call, so that everything the code may interleave is          *)
(* interleaved. Time is counted in heartbeat periods (Tick).               *)
(***************************************************************************)
EXTENDS RangeStates, RangeLease

CONSTANTS Requests,     \* the actions people, the scheduler and exercises ask for
          MaxGen,       \* bound: operations accepted for the range
          MaxTries,     \* ReliableTask.max_retries
          MaxMissed,    \* bound: consecutive heartbeat periods a live task may miss
          Budget        \* bound: how often each rare event below may happen

\* crash: a worker process dies. senderDies: an API process dies between the send and the
\* commit. softLimit: the soft time limit. straggler: a failed hypervisor call leaves a
\* thread running. lateBeat: an operator releases a tombstone before a renewal of its live
\* worker that is more than half a heartbeat late. partial: a teardown leaves VMs. dbError:
\* the database fails a worker's transaction. unreadable: the windows cannot be read. window:
\* a maintenance window opens. racedRead: a request that takes no lock has its reads, or its
\* reads and its write, separated by other transactions. writeOff: an administrator abandons
\* the range.
Rare == {"crash", "senderDies", "softLimit", "straggler", "lateBeat", "partial", "dbError",
          "unreadable", "window", "racedRead", "writeOff"}

ASSUME OperationsAssumption ==
    /\ Requests \subseteq Action
    /\ MaxGen \in Nat \ {0}
    /\ MaxTries \in Nat
    /\ MaxMissed \in Nat
    /\ Budget \in [Rare -> Nat]

VARIABLES
    rstate,     \* ranges.state
    vms,        \* provisioner_output records VMs (recorded_vms > 0)
    marker,     \* ranges.error_message holds HELD_MARKER
    gen,        \* the newest operation's generation
    ops,        \* range_operations, by generation
    sending,    \* the operation whose row a sender has locked after its send, or 0
    reader,     \* a GET between its reads and its write of the outcomes
    restore,    \* a snapshot of the range is to be restored
    queue,      \* the broker: how many copies of each task message
    window,     \* whether a window covers the range; operations up to start precede it
    lease,      \* the range's row of range_leases
    ex,         \* the task executions (see Run below)
    hv,         \* the VMs the range records exist on the hypervisor
    lostBuild,  \* VMs exist that no record and no execution knows of
    verdict,    \* what workers have recorded, by the generation they worked for
    budget      \* rare events that may still happen

row   == <<rstate, vms, marker>>
api   == <<gen, ops, sending, reader, restore>>
world == <<hv, lostBuild, verdict>>
vars  == <<row, api, queue, window, lease, ex, world, budget>>

Generation == 1 .. MaxGen

InFlightStatus == {"pending", "dispatched", "held"}

\* "abandoned" is the code's failed with error.code = abandoned; "none" is no row yet.
Status == InFlightStatus \cup {"succeeded", "failed", "superseded", "abandoned", "none"}

Message == [act : Action, tries : 0 .. MaxTries]

Operation == [action : Action, status : Status, bypass : BOOLEAN]

PC == {"idle", "claimed", "entry", "holding", "run", "calling", "result", "failing",
       "discard", "leftover", "ending", "raised", "releasing"}

\* One execution of a range task: where it is, its action, the retries before it, the
\* generation it read as its own, what its _Lease has observed, the periods since it last
\* renewed, how it is failing, whether a hypervisor call of it runs, whether it built VMs
\* that are neither recorded nor discarded, and the periods a call left running may last.
Run == [pc : PC, job : Action, tries : 0 .. MaxTries, task : 0 .. MaxGen,
        seen : {"held", "abandoned", "lost"}, missed : 0 .. MaxMissed,
        err : {"none", "retry", "final", "soft", "fenced"},
        thread : BOOLEAN, made : BOOLEAN, grace : 0 .. KeptTicks]

Idle == [pc |-> "idle", job |-> "provision", tries |-> 0, task |-> 0, seen |-> "held",
         missed |-> 0, err |-> "none", thread |-> FALSE, made |-> FALSE, grace |-> 0]

\* An execution that is over. Its action is remembered: its lease or a thread may remain.
Over(r, th) == [Idle EXCEPT !.job = r.job, !.thread = th,
                            !.grace = IF th THEN KeptTicks ELSE 0]

TypeOK ==
    /\ rstate \in RangeState /\ vms \in BOOLEAN /\ marker \in BOOLEAN
    /\ gen \in 0 .. MaxGen
    /\ ops \in [Generation -> Operation]
    /\ sending \in 0 .. MaxGen
    /\ reader \in [at : {"idle", "range", "ops"}, st : RangeState, found : SUBSET Generation]
    /\ restore \in {"none", "checked", "asked"}
    /\ queue \in [Message -> Nat]
    /\ window \in [open : BOOLEAN, start : 0 .. MaxGen]
    /\ lease \in LeaseRow
    /\ ex \in [Execution -> Run]
    /\ hv \in BOOLEAN /\ lostBuild \in BOOLEAN
    /\ verdict \in [Generation -> SUBSET {"succeeded", "failed"}]
    /\ budget \in [Rare -> Nat]

\* POST /ranges, create_for_booking: a new range, no operation, nothing built.
Init ==
    /\ rstate = "created" /\ vms = FALSE /\ marker = FALSE
    /\ gen = 0
    /\ ops = [g \in Generation |-> [action |-> "provision", status |-> "none", bypass |-> FALSE]]
    /\ sending = 0
    /\ reader = [at |-> "idle", st |-> "created", found |-> {}]
    /\ restore = "none"
    /\ queue = [m \in Message |-> 0]
    /\ window = [open |-> FALSE, start |-> 0]
    /\ lease = NoLease
    /\ ex = [x \in Execution |-> Idle]
    /\ hv = FALSE /\ lostBuild = FALSE
    /\ verdict = [g \in Generation |-> {}]
    /\ budget = Budget

Spend(f) == budget[f] > 0 /\ budget' = [budget EXCEPT ![f] = @ - 1]

Put(q, a, n) == [q EXCEPT ![[act |-> a, tries |-> n]] = @ + 1]

InFlight(o, g) == o[g].status \in InFlightStatus

NoneInFlight(o) == \A g \in Generation : ~InFlight(o, g)

-----------------------------------------------------------------------------
(* The API: api/app/range_ops/service.py, routers/ranges.py.               *)

\* Faulty: an operation without an outcome yet is closed as failed.
SettledEarly(s) ==
    [g \in Generation |->
        IF ops[g].status = "dispatched"
          THEN [ops[g] EXCEPT !.status = Outcome(ops[g].action, s)]
          ELSE ops[g]]

\* The operations' rows once their dispatched ones are settled from range state s.
Settled(s) ==
    [g \in Generation |->
        IF ops[g].status = "dispatched" /\ s \in Outcomes(ops[g].action)
          THEN [ops[g] EXCEPT !.status = Outcome(ops[g].action, s)]
          ELSE ops[g]]

\* reconcile, in a transaction that sees one state of the range and its operations.
Reconciled == Settled(rstate)

\* parked: a destroy may start although the state machine would not allow one.
Parked(o) ==
    /\ ~WorkerActing(lease)
    /\ \/ /\ rstate = "provisioning"
          /\ ~NoneInFlight(o)
          /\ \A g \in Generation : InFlight(o, g) =>
                o[g].action = "provision" /\ o[g].status \in {"held", "pending"}
       \/ rstate = "destroying" /\ NoneInFlight(o) /\ marker

\* _check: what the state, the recorded VMs, a snapshot being restored, the lease and the
\* operations in flight allow.
Check(a, o) ==
    /\ \/ InProgress(a) \in Transitions(rstate)
       \/ a = "destroy" /\ Parked(o)
    /\ a \in {"stop", "start"} => vms /\ restore # "asked"
    /\ a = "provision" => ~vms
    /\ a # "destroy" => ~WorkerActing(lease) /\ NoneInFlight(o)

\* accept, then the caller's commit. bypass: an emergency or a booking's end (destroy only).
\* The range row is locked throughout; superseding waits for a sender's lock on the operation.
Accept(a, bypass) ==
    /\ gen < MaxGen
    /\ bypass => a = "destroy"
    /\ a \in {"provision", "destroy"} /\ ~bypass => ~window.open
    /\ Check(a, Reconciled)
    /\ sending = 0
    /\ gen' = gen + 1
    /\ ops' = [g \in Generation |->
                 IF g = gen + 1
                   THEN [action |-> a, status |-> "pending", bypass |-> bypass]
                 ELSE IF a = "destroy" /\ InFlight(Reconciled, g)
                   THEN [ops[g] EXCEPT !.status = "superseded"]
                   ELSE Reconciled[g]]
    /\ rstate' = InProgress(a)
    /\ marker' = FALSE
    /\ UNCHANGED <<vms, sending, reader, restore, queue, window, lease, ex,
                   world, budget>>

\* dispatch up to its send, by the request or by the re-send loop (redispatch_pending,
\* released_holds). The operation's row is locked from here until MarkSent.
Send(g) ==
    /\ sending = 0
    /\ \/ ops[g].status = "pending"
       \/ ops[g].status = "held" /\ ~window.open
    /\ queue' = Put(queue, ops[g].action, 0)
    /\ sending' = g
    /\ UNCHANGED <<row, gen, ops, reader, restore, window, lease, ex, world, budget>>

\* dispatch's update and commit.
MarkSent ==
    /\ sending # 0
    /\ ops' = [ops EXCEPT ![sending].status = "dispatched"]
    /\ sending' = 0
    /\ UNCHANGED <<row, gen, reader, restore, queue, window, lease, ex, world, budget>>

\* The API process dies after the send: the operation stays as it was and is sent again.
SenderDies ==
    /\ sending # 0
    /\ Spend("senderDies")
    /\ sending' = 0
    /\ UNCHANGED <<row, gen, ops, reader, restore, queue, window, lease, ex, world>>

\* GET /operations, GET /lease and whatever else reconciles, when nothing commits between
\* its read of the range and its read of the operations.
GetOperations ==
    /\ ops' = Reconciled
    /\ UNCHANGED <<row, gen, sending, reader, restore, queue, window, lease, ex,
                   world, budget>>

\* The same GET when something does: it reads the range without a lock ...
RacedGetRange ==
    /\ reader.at = "idle"
    /\ Spend("racedRead")
    /\ reader' = [reader EXCEPT !.at = "range", !.st = rstate]
    /\ UNCHANGED <<row, gen, ops, sending, restore, queue, window, lease, ex, world>>

\* ... then the dispatched operations, in a later snapshot (READ COMMITTED) ...
RacedGetOps ==
    /\ reader.at = "range"
    /\ reader' = [reader EXCEPT !.at = "ops",
                    !.found = {g \in Generation : Settled(reader.st)[g] # ops[g]}]
    /\ UNCHANGED <<row, gen, ops, sending, restore, queue, window, lease, ex,
                   world, budget>>

\* ... and writes the outcomes by primary key, whatever the rows hold by now.
RacedGetWrite ==
    /\ reader.at = "ops"
    /\ sending \notin reader.found
    /\ ops' = [g \in Generation |->
                 IF g \in reader.found
                   THEN [ops[g] EXCEPT !.status = Outcome(ops[g].action, reader.st)]
                   ELSE ops[g]]
    /\ reader' = [reader EXCEPT !.at = "idle", !.st = "created", !.found = {}]
    /\ UNCHANGED <<row, gen, sending, restore, queue, window, lease, ex, world, budget>>

\* fence_lease: only a lease of the operation's action becomes a tombstone.
FenceLease(a) ==
    IF lease.holder = NoHolder \/ (lease.holder # NoHolder /\ ex[lease.holder].job # a) THEN lease
    ELSE IF lease.tomb THEN Reabandoned(lease)
    ELSE Fenced(lease)

\* Faulty: the operation's row is not locked, so a sender may mark it afterwards.
AbandonUnlocked(g) ==
    /\ InFlight(Reconciled, g)
    /\ lease' = FenceLease(ops[g].action)
    /\ ops' = [Reconciled EXCEPT ![g].status = "abandoned"]
    /\ IF rstate = InProgress(ops[g].action)
         THEN rstate' = "failed" /\ marker' = FALSE
         ELSE UNCHANGED <<rstate, marker>>
    /\ UNCHANGED <<vms, gen, sending, reader, restore, queue, window, ex, world, budget>>

\* POST /operations/{id}/abandon: the range, then the operation, locked.
Abandon(g) ==
    /\ InFlight(Reconciled, g)
    /\ sending # g
    /\ lease' = FenceLease(ops[g].action)
    /\ ops' = [Reconciled EXCEPT ![g].status = "abandoned"]
    /\ IF rstate = InProgress(ops[g].action)
         THEN rstate' = "failed" /\ marker' = FALSE
         ELSE UNCHANGED <<rstate, marker>>
    /\ UNCHANGED <<vms, gen, sending, reader, restore, queue, window, ex, world, budget>>

\* An execution that still believes in its lease and has not ended.
Live(x) == ex[x].pc # "idle" /\ ex[x].seen # "lost"

\* POST /lease/force-release: a tombstone, nothing in flight, no restore, and the proof of
\* assess. A worker that renews within one and a half heartbeats of its last renewal has moved
\* the expiry two heartbeats after the abandon; a live one that has not is late.
ForceRelease ==
    /\ NoneInFlight(Reconciled) /\ restore # "asked"
    /\ ProvenStopped(lease)
    /\ \E g \in Generation : ops[g].status = "abandoned" /\ ops[g].action = ex[lease.holder].job
    /\ IF Live(lease.holder) THEN Spend("lateBeat") ELSE UNCHANGED budget
    /\ lease' = NoLease
    /\ ops' = Reconciled
    /\ UNCHANGED <<row, gen, sending, reader, restore, queue, window, ex, world>>

\* run_destroy_with_bypass: a teardown that always runs takes over the destroy in flight.
RunDestroyWithBypass(g) ==
    /\ rstate = "destroying"
    /\ InFlight(ops, g) /\ ops[g].action = "destroy"
    /\ \A h \in Generation : InFlight(ops, h) /\ ops[h].action = "destroy" => h <= g
    /\ sending # g
    /\ ops' = [ops EXCEPT ![g] = [ops[g] EXCEPT
                 !.bypass = TRUE,
                 !.status = IF ops[g].status = "held" THEN "pending" ELSE ops[g].status]]
    /\ UNCHANGED <<row, gen, sending, reader, restore, queue, window, lease, ex,
                   world, budget>>

\* POST /ranges/{id}/abandon: written off, hypervisor untouched; force when VMs are recorded.
AbandonRange(force) ==
    /\ rstate = "failed"
    /\ vms => force
    /\ Spend("writeOff")
    /\ rstate' = "destroyed"
    /\ UNCHANGED <<vms, marker, api, queue, window, lease, ex, world>>

\* discard_unbuilt: a booking's range whose build never started.
DiscardUnbuilt ==
    /\ rstate = "created"
    /\ rstate' = "destroyed"
    /\ UNCHANGED <<vms, marker, api, queue, window, lease, ex, world, budget>>

\* _RESTORABLE_STATES, and the states a snapshot was taken in (range_state_at_snapshot).
Restorable == {"ready", "running", "stopped", "failed"}
SnapshotStates == {"ready", "running", "stopped"}

\* What POST /snapshots/{id}/restore checks of the range, with refuse_while_in_flight's
\* reconcile. A ready snapshot is of a range whose VMs are recorded.
RestoreAllowed ==
    /\ restore = "none" /\ vms
    /\ ~window.open
    /\ rstate \in Restorable
    /\ NoneInFlight(Reconciled)
    /\ ops' = Reconciled

\* The restore is recorded (the snapshot's row reads restoring) and sent.
AskRestore ==
    /\ RestoreAllowed
    /\ restore' = "asked"
    /\ UNCHANGED <<row, gen, sending, reader, queue, window, lease, ex, world, budget>>

\* The same when other transactions commit between its checks, which lock nothing ...
RacedAskRestore ==
    /\ RestoreAllowed
    /\ Spend("racedRead")
    /\ restore' = "checked"
    /\ UNCHANGED <<row, gen, sending, reader, queue, window, lease, ex, world>>

\* ... and its write.
RacedWriteRestore ==
    /\ restore = "checked"
    /\ restore' = "asked"
    /\ UNCHANGED <<row, gen, ops, sending, reader, queue, window, lease, ex, world, budget>>

\* restore_snapshot, which has the lease from its start to its end and whose lease no abandon
\* finds, so that it is one step here (RangeSnapshots has its steps): the recorded VMs are reverted and
\* the range is written to the snapshot's state, or to failed when the revert broke off; or it
\* is held back, skipped or fails and leaves the range alone. It may be retried.
Restore ==
    /\ restore = "asked"
    /\ Claimable(lease)
    /\ \/ /\ ~window.open
          /\ rstate \in Restorable /\ vms /\ hv
          /\ \/ rstate' \in SnapshotStates /\ restore' = "none"
             \/ rstate' = "failed" /\ restore' \in {"asked", "none"}
          /\ marker' = FALSE
       \/ restore' = "none" /\ UNCHANGED <<rstate, marker>>
    /\ UNCHANGED <<vms, gen, ops, sending, reader, queue, window, lease, ex, world, budget>>

\* A window starts to cover the range. It may have been entered with a start in the past:
\* the operations up to start were accepted before it, the later ones after.
OpenWindow(start) ==
    /\ ~window.open
    /\ start <= gen
    /\ Spend("window")
    /\ window' = [open |-> TRUE, start |-> start]
    /\ UNCHANGED <<row, api, queue, lease, ex, world>>

CloseWindow ==
    /\ window.open
    /\ window' = [open |-> FALSE, start |-> 0]
    /\ UNCHANGED <<row, api, queue, lease, ex, world, budget>>

-----------------------------------------------------------------------------
(* The worker: worker/worker/fencing.py around tasks.py and power_tasks.py. *)

\* What x reads when it looks at the lease row (_Lease.observe).
Obs(x) == Observe(lease, x, ex[x].seen)

\* Faulty: the range's state is not compared (no only_from).
WaitingAssumed(x) == TRUE

\* The range is still in the in-progress state of x's task (_in_state, only_from).
Waiting(x) == rstate = InProgress(ex[x].job)

\* claim's first transaction: a delivered task takes the lease, with a holder never used.
ClaimLease(x, m) ==
    /\ ex[x].pc = "idle" /\ ~ex[x].thread /\ lease.holder # x
    /\ queue[m] > 0
    /\ Claimable(lease)
    /\ lease' = Claimed(x)
    /\ queue' = [queue EXCEPT ![m] = @ - 1]
    /\ ex' = [ex EXCEPT ![x] = [Idle EXCEPT !.pc = "claimed", !.job = m.act, !.tries = m.tries]]
    /\ UNCHANGED <<row, api, window, world, budget>>

\* Faulty: a copy that finds the lease held is dropped.
ClaimBlockedDropped(m) ==
    /\ queue[m] > 0
    /\ ~Claimable(lease)
    /\ queue' = [queue EXCEPT ![m] = @ - 1]
    /\ UNCHANGED <<row, api, window, lease, ex, world, budget>>

\* claim when another execution holds the lease: deferred (a new message, its retries
\* forgotten) while the range is still in progress, skipped once it is not.
ClaimBlocked(m) ==
    /\ queue[m] > 0
    /\ ~Claimable(lease)
    /\ LET taken == [queue EXCEPT ![m] = @ - 1]
       IN  queue' = IF rstate = InProgress(m.act) THEN Put(taken, m.act, 0) ELSE taken
    /\ UNCHANGED <<row, api, window, lease, ex, world, budget>>

\* claim when the database fails it: Celery retries, and gives up after MaxTries.
ClaimError(m) ==
    /\ queue[m] > 0
    /\ Spend("dbError")
    /\ LET taken == [queue EXCEPT ![m] = @ - 1]
       IN  queue' = IF m.tries < MaxTries THEN Put(taken, m.act, m.tries + 1) ELSE taken
    /\ UNCHANGED <<row, api, window, lease, ex, world>>

\* claim's second transaction: the range must still be in the task's state. A late or
\* duplicate copy gives the lease back (skipped).
ClaimCheck(x) ==
    /\ ex[x].pc = "claimed"
    /\ ex' = [ex EXCEPT ![x] = IF Waiting(x) THEN [@ EXCEPT !.pc = "entry", !.task = gen]
                                            ELSE [@ EXCEPT !.pc = "ending"]]
    /\ UNCHANGED <<row, api, queue, window, lease, world, budget>>

\* maintenance_windows._operation: the newest operation, if it is this action and in flight.
OwnOperation(x) ==
    IF gen # 0 /\ ops[gen].action = ex[x].job /\ InFlight(ops, gen) THEN gen ELSE 0

\* maintenance_windows.decide: whether an open window holds the task back.
HeldBack(x) ==
    /\ window.open
    /\ \/ ex[x].job = "provision"
       \/ /\ ex[x].job = "destroy"
          /\ LET g == OwnOperation(x)
             IN  g = 0 \/ (~ops[g].bypass /\ g > window.start)

\* at_entry's first transaction.
AtEntry(x) ==
    /\ ex[x].pc = "entry"
    /\ ex' = [ex EXCEPT ![x] =
                 IF HeldBack(x) THEN [@ EXCEPT !.pc = "holding", !.task = OwnOperation(x)]
                                ELSE [@ EXCEPT !.pc = "run"]]
    /\ UNCHANGED <<row, api, queue, window, lease, world, budget>>

\* at_entry when the windows cannot be read: a teardown runs, a build is held, and is taken
\* for a lab's if its operation (op) cannot be read either.
AtEntryUnreadable(x, op) ==
    /\ ex[x].pc = "entry"
    /\ ex[x].job \in {"provision", "destroy"}
    /\ op \in {OwnOperation(x), 0}
    /\ Spend("unreadable")
    /\ ex' = [ex EXCEPT ![x] =
                 IF ex[x].job = "destroy"
                   THEN [@ EXCEPT !.pc = "run"]
                   ELSE [@ EXCEPT !.pc = "holding", !.task = op]]
    /\ UNCHANGED <<row, api, queue, window, lease, world>>

\* at_entry's second transaction, an operation found: its row becomes held.
HoldOperation(x) ==
    /\ ex[x].pc = "holding" /\ ex[x].task # 0
    /\ sending # ex[x].task
    /\ ops' = [ops EXCEPT ![ex[x].task].status =
                 IF @ \in {"pending", "dispatched"} THEN "held" ELSE @]
    /\ ex' = [ex EXCEPT ![x] = [@ EXCEPT !.pc = "ending"]]
    /\ UNCHANGED <<row, gen, sending, reader, restore, queue, window, lease, world, budget>>

\* at_entry's second transaction, none found: a build goes back to created, a teardown
\* stays destroying with the marker; written only while the lease is held.
HoldRange(x) ==
    /\ ex[x].pc = "holding" /\ ex[x].task = 0
    /\ IF Obs(x) = "held" /\ Waiting(x)
         THEN /\ rstate' = IF ex[x].job = "provision" THEN "created" ELSE rstate
              /\ marker' = TRUE
         ELSE UNCHANGED <<rstate, marker>>
    /\ ex' = [ex EXCEPT ![x] =
                 IF Obs(x) = "lost"
                   THEN [@ EXCEPT !.pc = "raised", !.err = "fenced", !.seen = "lost"]
                   ELSE [@ EXCEPT !.pc = "ending", !.seen = Obs(x)]]
    /\ UNCHANGED <<vms, api, queue, window, lease, world, budget>>

\* The task fails before its hypervisor call (no VMs to power, no pool value left, ...).
FailBeforeCall(x, e) ==
    /\ ex[x].pc = "run"
    /\ ex' = [ex EXCEPT ![x] = [@ EXCEPT !.pc = "failing", !.err = e]]
    /\ UNCHANGED <<row, api, queue, window, lease, world, budget>>

\* run_async: the lease is verified in the database, then the call starts.
StartCall(x) ==
    /\ ex[x].pc = "run"
    /\ ex' = [ex EXCEPT ![x] =
                 IF Obs(x) = "held"
                   THEN [@ EXCEPT !.pc = "calling", !.thread = TRUE, !.seen = "held"]
                   ELSE [@ EXCEPT !.pc = "raised", !.err = "fenced", !.seen = Obs(x)]]
    /\ UNCHANGED <<row, api, queue, window, lease, world, budget>>

\* The call returns: VMs built, or the recorded ones removed, or their power changed.
CallOk(x) ==
    /\ ex[x].pc = "calling"
    /\ ex' = [ex EXCEPT ![x] = [@ EXCEPT !.pc = "result", !.thread = FALSE,
                                         !.made = (ex[x].job = "provision")]]
    /\ hv' = (hv /\ ex[x].job # "destroy")
    /\ UNCHANGED <<row, api, queue, window, lease, lostBuild, verdict, budget>>

\* A teardown returns "partial", some VMs removed and some not: only "failed" is refused, so
\* that the task goes on as after a complete one.
CallPartial(x) ==
    /\ ex[x].pc = "calling" /\ ex[x].job = "destroy"
    /\ Spend("partial")
    /\ ex' = [ex EXCEPT ![x] = [@ EXCEPT !.pc = "result", !.thread = FALSE]]
    /\ UNCHANGED <<row, api, queue, window, lease, world>>

\* The call reports a failure (its threads have ended) or raises with none left.
CallFailed(x, e) ==
    /\ ex[x].pc = "calling"
    /\ ex' = [ex EXCEPT ![x] = [@ EXCEPT !.pc = "failing", !.thread = FALSE, !.err = e]]
    /\ UNCHANGED <<row, api, queue, window, lease, world, budget>>

\* The call raises while a thread of it still runs: run_async does not wait for the thread
\* unless it finds the operation abandoned.
CallRaised(x) ==
    /\ ex[x].pc = "calling"
    /\ Obs(x) # "abandoned"
    /\ Spend("straggler")
    /\ ex' = [ex EXCEPT ![x] = [@ EXCEPT !.pc = "failing", !.err = "retry", !.seen = Obs(x)]]
    /\ UNCHANGED <<row, api, queue, window, lease, world>>

\* SoftTimeLimitExceeded, during the call (its thread runs on) or before the write.
SoftLimit(x) ==
    /\ ex[x].pc \in {"calling", "result"}
    /\ Spend("softLimit")
    /\ ex' = [ex EXCEPT ![x] = [@ EXCEPT !.pc = "failing", !.err = "soft"]]
    /\ UNCHANGED <<row, api, queue, window, lease, world>>

\* The thread of a call that its task has given up ends; a build may have been finished.
EndThread(x) ==
    /\ ex[x].thread /\ ex[x].pc \notin {"calling", "discard"}
    /\ ex' = [ex EXCEPT ![x] = [@ EXCEPT !.thread = FALSE, !.grace = 0]]
    /\ \/ lostBuild' = lostBuild
       \/ ex[x].job = "provision" /\ lostBuild' = TRUE
    /\ UNCHANGED <<row, api, queue, window, lease, hv, verdict, budget>>

\* guarded_range_update of the outcome, only from the task's in-progress state, while the
\* lease is held: done, or a build failed with its VMs recorded (build_outcome).
WriteOutcome(x) ==
    /\ ex[x].pc = "result"
    /\ Obs(x) = "held" /\ Waiting(x)
    /\ \/ /\ rstate' = Done(ex[x].job)
          /\ marker' = (marker /\ ex[x].job \in {"provision", "destroy"})
       \/ ex[x].job = "provision" /\ rstate' = "failed" /\ marker' = FALSE
    /\ verdict' = [verdict EXCEPT ![ex[x].task] = @ \cup {Outcome(ex[x].job, rstate')}]
    /\ vms' = (vms \/ ex[x].made)
    /\ hv' = (hv \/ ex[x].made)
    /\ lostBuild' = (lostBuild \/ (hv /\ ex[x].made))
    /\ ex' = [ex EXCEPT ![x] = [@ EXCEPT !.pc = "ending", !.made = FALSE]]
    /\ UNCHANGED <<api, queue, window, lease, budget>>

\* The database fails between the call's return and the commit of its outcome: the task goes
\* to its except path, and what it had built is in nobody's hands.
WriteFails(x) ==
    /\ ex[x].pc = "result"
    /\ Spend("dbError")
    /\ lostBuild' = (lostBuild \/ ex[x].made)
    /\ ex' = [ex EXCEPT ![x] = [@ EXCEPT !.pc = "failing", !.err = "retry", !.made = FALSE]]
    /\ UNCHANGED <<row, api, queue, window, lease, hv, verdict>>

\* Faulty: a build whose ready was refused is left where it is.
AfterRefusalLeft(x) == "ending"

\* Where x goes on when its outcome was not wanted: a build is discarded first.
AfterRefusal(x) == IF ex[x].made THEN "discard" ELSE "ending"

\* The same write when it is fenced. Abandoned, or the range moved on: nothing is written
\* and a build is discarded. Taken over: LeaseLost, and the build is only logged.
WriteRefused(x) ==
    /\ ex[x].pc = "result"
    /\ ~(Obs(x) = "held" /\ Waiting(x))
    /\ ex' = [ex EXCEPT ![x] =
                 IF Obs(x) = "lost"
                   THEN [@ EXCEPT !.pc = "raised", !.err = "fenced", !.seen = "lost", !.made = FALSE]
                   ELSE [@ EXCEPT !.pc = AfterRefusal(x), !.seen = Obs(x),
                                  !.thread = (AfterRefusal(x) = "discard")]]
    /\ lostBuild' = (lostBuild \/ (Obs(x) = "lost" /\ ex[x].made))
    /\ UNCHANGED <<row, api, queue, window, lease, hv, verdict, budget>>

\* A failure that ends the task for good: a final error, or the last attempt.
LastFailure(x) == ex[x].err \in {"final", "soft"} \/ ex[x].tries = MaxTries

\* The task's except path: only a failure that ends it is recorded.
RecordFailure(x) ==
    /\ ex[x].pc = "failing"
    /\ IF LastFailure(x) /\ Obs(x) = "held" /\ Waiting(x)
         THEN /\ rstate' = "failed" /\ marker' = FALSE
              /\ verdict' = [verdict EXCEPT ![ex[x].task] = @ \cup {"failed"}]
         ELSE UNCHANGED <<rstate, marker, verdict>>
    /\ ex' = [ex EXCEPT ![x] =
                 IF LastFailure(x)
                   THEN [@ EXCEPT !.pc = "raised", !.seen = Obs(x),
                                  !.err = IF Obs(x) = "lost" THEN "fenced" ELSE ex[x].err]
                   ELSE [@ EXCEPT !.pc = "raised"]]
    /\ UNCHANGED <<vms, api, queue, window, lease, hv, lostBuild, budget>>

\* discard_built: the unwanted build is torn down, or is left over.
Discard(x, ok) ==
    /\ ex[x].pc = "discard"
    /\ ex' = [ex EXCEPT ![x] = [@ EXCEPT !.thread = FALSE, !.made = ~ok,
                                         !.pc = IF ok THEN "ending" ELSE "leftover"]]
    /\ UNCHANGED <<row, api, queue, window, lease, world, budget>>

\* record_leftover: what could not be discarded is recorded before the lease goes.
RecordLeftover(x) ==
    /\ ex[x].pc = "leftover"
    /\ vms' = TRUE /\ hv' = TRUE
    /\ lostBuild' = (lostBuild \/ hv)
    /\ ex' = [ex EXCEPT ![x] = [@ EXCEPT !.pc = "ending", !.made = FALSE]]
    /\ UNCHANGED <<rstate, marker, api, queue, window, lease, verdict, budget>>

\* The same when the database fails: the error is logged, and the task ends.
LeftoverLost(x) ==
    /\ ex[x].pc = "leftover"
    /\ Spend("dbError")
    /\ lostBuild' = TRUE
    /\ ex' = [ex EXCEPT ![x] = [@ EXCEPT !.pc = "ending", !.made = FALSE]]
    /\ UNCHANGED <<row, api, queue, window, lease, hv, verdict>>

\* The task ended (or was skipped): the lease, or its tombstone, is deleted.
End(x) ==
    /\ ex[x].pc = "ending"
    /\ lease' = Released(lease, x)
    /\ lostBuild' = (lostBuild \/ ex[x].made)
    /\ ex' = [ex EXCEPT ![x] = Idle]
    /\ UNCHANGED <<row, api, queue, window, hv, verdict, budget>>

\* fenced's except path: an execution that was fenced out is not retried.
Raised(x) ==
    /\ ex[x].pc = "raised" /\ ex[x].err # "soft"
    /\ LET now == IF ex[x].err = "fenced" \/ ex[x].seen # "held" THEN ex[x].seen ELSE Obs(x)
       IN  ex' = [ex EXCEPT ![x] = [@ EXCEPT !.pc = "releasing", !.seen = now,
                                             !.err = IF now = "held" THEN ex[x].err ELSE "fenced"]]
    /\ UNCHANGED <<row, api, queue, window, lease, world, budget>>

\* ... then the lease, or its tombstone, is deleted, and Celery may retry the task.
ReleaseFailed(x) ==
    /\ ex[x].pc = "releasing"
    /\ lease' = Released(lease, x)
    /\ queue' = IF ex[x].err = "retry" /\ ex[x].tries < MaxTries
                  THEN Put(queue, ex[x].job, ex[x].tries + 1) ELSE queue
    /\ ex' = [ex EXCEPT ![x] = Over(@, @.thread)]
    /\ UNCHANGED <<row, api, window, world, budget>>

\* The row the heartbeat renews (_Lease.current) is still there.
Mine(x) == lease.holder = x /\ lease.tomb = (ex[x].seen = "abandoned")

\* Faulty: a kept lease lasts no longer than a renewed one.
KeptLeaseBrief(x) == IF Mine(x) THEN Extended(lease, LeaseTicks, TRUE) ELSE lease

\* keep: the row under the name the task knows it by lasts KEPT_LEASE_SECONDS.
KeptLease(x) == IF Mine(x) THEN Extended(lease, KeptTicks, TRUE) ELSE lease

\* After a soft time limit the lease is kept, not released; the task is not retried.
Keep(x) ==
    /\ ex[x].pc = "raised" /\ ex[x].err = "soft"
    /\ lease' = KeptLease(x)
    /\ lostBuild' = (lostBuild \/ ex[x].made)
    /\ ex' = [ex EXCEPT ![x] = Over(@, @.thread)]
    /\ UNCHANGED <<row, api, queue, window, hv, verdict, budget>>

Beating == {"entry", "holding", "run", "calling", "result", "failing", "discard"}

\* _beat: renew the lease, or the tombstone once the abandon is seen; stop when it is lost.
Beat(x, late) ==
    /\ ex[x].pc \in Beating /\ ex[x].seen # "lost"
    /\ lease' = IF lease.holder = x THEN Extended(lease, LeaseTicks, late) ELSE lease
    /\ ex' = [ex EXCEPT ![x] = [@ EXCEPT !.missed = 0,
                                         !.seen = IF Mine(x) THEN ex[x].seen ELSE Obs(x)]]
    /\ UNCHANGED <<row, api, queue, window, world, budget>>

\* The worker process dies: its threads with it; the unacknowledged message is redelivered.
Crash(x) ==
    /\ ex[x].pc # "idle"
    /\ Spend("crash")
    /\ queue' = Put(queue, ex[x].job, ex[x].tries)
    /\ lostBuild' = (lostBuild \/ ex[x].made)
    /\ ex' = [ex EXCEPT ![x] = Over(@, FALSE)]
    /\ UNCHANGED <<row, api, window, lease, hv, verdict>>

\* setup_reconcile: a guest check that the build left running ends badly.
SetupFailed ==
    /\ rstate = "ready"
    /\ rstate' = "failed" /\ marker' = FALSE
    /\ verdict' = [verdict EXCEPT ![gen] = @ \cup {"failed"}]
    /\ UNCHANGED <<vms, api, queue, window, lease, ex, hv, lostBuild, budget>>

\* A heartbeat period passes. A live task misses at most MaxMissed renewals in a row, and a
\* call given up by its task ends within KEPT_LEASE_SECONDS.
Tick ==
    /\ lease.holder # NoHolder
    /\ \A x \in Execution : /\ Live(x) => ex[x].missed < MaxMissed
                            /\ ex[x].grace # 1
    /\ lease' = Aged(lease)
    /\ ex' = [x \in Execution |->
                [ex[x] EXCEPT !.missed = IF Live(x) THEN @ + 1 ELSE @,
                              !.grace = IF @ > 0 THEN @ - 1 ELSE 0]]
    /\ UNCHANGED <<row, api, queue, window, world, budget>>

-----------------------------------------------------------------------------

ApiNext ==
    \/ \E a \in Requests, b \in BOOLEAN : Accept(a, b)
    \/ \E g \in Generation : Send(g) \/ Abandon(g) \/ RunDestroyWithBypass(g)
    \/ MarkSent \/ SenderDies
    \/ GetOperations \/ RacedGetRange \/ RacedGetOps \/ RacedGetWrite
    \/ ForceRelease
    \/ AskRestore \/ RacedAskRestore \/ RacedWriteRestore
    \/ \E f \in BOOLEAN : AbandonRange(f)
    \/ DiscardUnbuilt
    \/ \E s \in 0 .. MaxGen : OpenWindow(s)
    \/ CloseWindow

BrokerNext == \E m \in Message : ClaimBlocked(m) \/ ClaimError(m)

WorkerNext(x) ==
    \/ \E m \in Message : ClaimLease(x, m)
    \/ ClaimCheck(x)
    \/ AtEntry(x) \/ (\E op \in 0 .. MaxGen : AtEntryUnreadable(x, op))
    \/ HoldOperation(x) \/ HoldRange(x)
    \/ \E e \in {"retry", "final"} : FailBeforeCall(x, e) \/ CallFailed(x, e)
    \/ StartCall(x) \/ CallOk(x) \/ CallPartial(x) \/ CallRaised(x) \/ SoftLimit(x) \/ EndThread(x)
    \/ WriteOutcome(x) \/ WriteRefused(x) \/ WriteFails(x) \/ RecordFailure(x)
    \/ \E ok \in BOOLEAN : Discard(x, ok)
    \/ RecordLeftover(x) \/ LeftoverLost(x)
    \/ End(x) \/ Raised(x) \/ ReleaseFailed(x) \/ Keep(x)
    \/ \E late \in BOOLEAN : Beat(x, late)
    \/ Crash(x)

Next ==
    \/ ApiNext \/ BrokerNext \/ (\E x \in Execution : WorkerNext(x))
    \/ Restore \/ SetupFailed \/ Tick

Spec == Init /\ [][Next]_vars

\* Steps an execution takes on its own, once it has the lease.
Proceed(x) ==
    \/ ClaimCheck(x) \/ AtEntry(x) \/ HoldOperation(x) \/ HoldRange(x)
    \/ StartCall(x) \/ CallOk(x) \/ CallFailed(x, "retry") \/ EndThread(x)
    \/ WriteOutcome(x) \/ WriteRefused(x) \/ RecordFailure(x)
    \/ Discard(x, TRUE) \/ RecordLeftover(x)
    \/ End(x) \/ Raised(x) \/ ReleaseFailed(x) \/ Keep(x)

\* The re-send loop runs, workers consume the queue, a started execution goes on and renews
\* its lease, windows end and time passes. People owe the range nothing.
Fairness ==
    /\ \A g \in Generation : WF_vars(Send(g))
    /\ WF_vars(MarkSent)
    /\ WF_vars(CloseWindow)
    /\ WF_vars(Tick)
    /\ WF_vars(\E x \in Execution, m \in Message : ClaimLease(x, m))
    /\ \A x \in Execution : WF_vars(Proceed(x)) /\ WF_vars(ex[x].missed > 0 /\ Beat(x, TRUE))

FairSpec == Spec /\ Fairness

-----------------------------------------------------------------------------
(* What makes the system correct.                                          *)

Spent(f) == budget[f] < Budget[f]

\* Every hypervisor call of a range runs under a lease or tombstone of its own execution that
\* has not expired: an abandon, a takeover, a force-release or the end of a task never leaves
\* a call behind (fencing.py: run_async, _beat, keep; range_ops: fence_lease, assess). The one
\* gap is in the proof of lease_status: it takes a worker whose renewal is more than half a
\* heartbeat late, one failed renewal is enough, for a dead one.
CallIsCovered ==
    \/ Spent("lateBeat")
    \/ \A x \in Execution : ex[x].thread => lease.holder = x /\ lease.ttl > 0

\* The same where tasks meet their soft time limit: a kept lease covers the call left running,
\* except that one an abandon renames, of this operation or of a later one of the same action,
\* lasts LEASE_SECONDS only; and a call that raises leaves its threads uncovered.
CoveredUnlessAbandoned ==
    CallIsCovered \/ Spent("straggler") \/ \E g \in Generation : ops[g].status = "abandoned"

\* A range has at most one operation in flight, and while it is in an in-progress state that
\* operation is its newest and is the one the state stands for: somebody will send it, finish
\* it or can abandon it, and a task at its entry finds it (range_ops: accept, reconcile).
OneRequest ==
    /\ \A g, h \in Generation : InFlight(ops, g) /\ InFlight(ops, h) => g = h
    /\ \A a \in Action : rstate = InProgress(a) =>
          gen # 0 /\ InFlight(ops, gen) /\ ops[gen].action = a

\* The same, whatever else goes wrong, as long as no request is raced.
OneRequestUnlessRaced == Spent("racedRead") \/ OneRequest

\* An operation that reads succeeded or failed is one whose own worker recorded that: an
\* outcome is never read from a state that another operation's worker, or the API, left
\* behind (range_ops/service.py: an outcome is reconciled from what the worker observed,
\* "never assumed").
ReportedIsTrue ==
    \A g \in Generation :
        Reconciled[g].status \in {"succeeded", "failed"} => Reconciled[g].status \in verdict[g]

\* The same, unless a request is raced or an operator writes the range off.
ReportedUnlessOverridden == Spent("racedRead") \/ Spent("writeOff") \/ ReportedIsTrue

\* The range's state moves only along the API's state machine, although workers write it with
\* SQL of their own. There are three exceptions: a destroy may overtake a build nobody took on
\* (parked); a restore puts a range back to its snapshot's state, or to failed; and a build
\* whose operation its task cannot find, because nothing could be read or a raced request closed
\* it, goes back to created (at_entry, meant for a lab's build).
MovesAlongMachine ==
    [][\/ rstate' = rstate \/ rstate' \in Transitions(rstate)
       \/ rstate = "provisioning" /\ rstate' = "destroying"
       \/ restore = "asked" /\ {rstate, rstate'} \subseteq Restorable
       \/ rstate = "provisioning" /\ rstate' = "created" /\ (Spent("unreadable") \/ Spent("racedRead"))]_vars

\* A range in a built state has its VMs recorded and on the hypervisor. A destroyed one has no
\* recorded VMs left there, unless a teardown was partial (destroy_range refuses only "failed"),
\* nor an execution that still holds an unrecorded build. An operator's write-off, or release of
\* a live worker's tombstone, voids it.
StateMatchesVms ==
    Spent("lateBeat") \/
    /\ rstate \in LiveStates => vms /\ hv
    /\ rstate = "destroyed" /\ ~Spent("writeOff") =>
          (hv => Spent("partial")) /\ \A x \in Execution : ~ex[x].made

\* No build is forgotten: VMs that nothing records appear only after a worker crashed, ran
\* into the soft time limit, left a thread behind, was taken for dead while it lived, or met a
\* database error between its call and the record (discard_built, record_leftover).
NoBuildForgotten ==
    lostBuild => \E f \in {"crash", "softLimit", "straggler", "lateBeat", "dbError"} : Spent(f)

\* A request as a client sees it: open until it has an outcome.
Shown(g) == IF InFlight(ops, g) THEN "open" ELSE ops[g].status

Ledger == INSTANCE RequestLedger WITH log <- [g \in Generation |-> Shown(g)]

\* Clients see a ledger: operations are entered in order, at most one is open, and an outcome
\* once shown is never changed or taken back, not even by a sender that marks an operation it
\* sent before it was abandoned or superseded, or by a worker that holds one (dispatch, abandon,
\* accept, reconcile, _hold_operation).
ImplementsLedger == Ledger!Spec

\* An accepted operation comes to an end: the range leaves its in-progress state, whatever
\* crashed on the way, without anybody's help (fencing.py: a copy of the task "is never
\* dropped while the range is still in progress").
EveryRequestEnds == (rstate \in InProgressStates) ~> (rstate \notin InProgressStates)

\* A range is never blocked for ever: whoever held or abandoned its lease, it is free again
\* (fencing.py: a dead worker's lease and a tombstone run out, a live one is given back).
EveryLeaseEnds == WorkerActing(lease) ~> ~WorkerActing(lease)
==============================================================================
