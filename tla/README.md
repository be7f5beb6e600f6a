# TrueNorth: a TLA+ verification project

TrueNorth builds, runs and tears down cyber ranges (groups of virtual machines on a
hypervisor) for courses and exercises. This directory holds models of the part of its control
plane that decides who may act on a range, what its rows say afterwards, which networks it may
use, and when a booking or a student's lab builds and destroys one; the TLC runs that check them
on small instances; and TLAPS proofs for every size.

Paths below are relative to `src/control-plane/` unless they start with `src/`.

## 1. The system

| part | state it keeps | operations | interacts with |
|---|---|---|---|
| range operations (`api/app/range_ops`) | `range_operations` rows: action, generation, status, bypass | accept, dispatch, re-send loop, reconcile, abandon, force-release, take over a destroy with a bypass | locks the range row; sends tasks to the broker; reads the lease |
| range leases (`range_leases`, `worker/worker/fencing.py`) | one row per range: holder, `expires_at` | claim, renew (heartbeat), observe, verify before a call, guarded writes, keep, release, tombstone | every range task; the API's abandon and force-release |
| range tasks (`worker/worker/tasks.py`, `power_tasks.py`) | `ranges.state`, `provisioner_output`, `error_message` | provision, destroy, stop, start; retry; record the outcome or the failure; discard a build nobody wants | hypervisor; lease; Celery |
| state machine (`api/app/state_machines.py`) | - | the transitions of a range | accept |
| maintenance windows (`api/app/maintenance_windows`, `worker/worker/maintenance_windows.py`) | windows; `held` operations; a marker on the range | refuse at acceptance, re-check at the task's entry, hold, release, bypass | operations, tasks, labs, bookings |
| writing a range off (`api/app/range_abandon.py`) | `ranges.state` | failed to destroyed, hypervisor untouched | operations; reservations |
| setup reconciliation (`worker/worker/setup_reconcile.py`) | `provisioner_output`, `ranges.state` | a ready range whose guest check ends badly becomes failed | operations (the outcome already read) |
| network reservations (`api/app/network_inventory`, `worker/worker/range_alloc.py`, `provisioners/vsphere_vlans.py`) | `network_reservations`: VLANs, addresses, MACs by range, and external rows | reserve for a build, record external use, release a collision, release after a destroy | accept, provision, destroy; the live switch |
| snapshots (`worker/worker/tasks.py`, `api/app/routers/ranges.py`) | `range_snapshots.snapshot_state` | create, restore, delete | lease, windows, labs |
| lab sessions (`api/app/lab_sessions`) | `lab_sessions`, `lab_network_leases`, an outbox per session | launch, queue, build, baseline, reset, expire, end; a sweep | range tasks without an operation row; snapshots |
| scheduler (`api/app/scheduler`, `api/app/range_lifecycle.py`) | bookings, approvals | book, edit, approve, cancel; the clock builds, activates, completes, releases | range operations, windows |
| drift checks (`worker/worker/range_drift.py`, `redis_lock.py`) | a Redis key; `range_inventory_checks`; the certification record | a periodic sweep under a lock | hypervisor, snapshots, operations |
| classes (`api/app/classes`) | sessions, holds, forfeits, close-out | - | scheduler, labs |
| credentials (`range_credentials`, `credential_rotation.py`) | sealed passwords, rotation state | issue, rotate, verify | guests |
| learning records (`cmi5`, `moodle_results`, `course_publishing`, `result_transfer`) | sessions, outboxes | statements, scores, publishing | Moodle |
| the rest | see `components` in `PROJECT.json` | | |

**What is hard.** The API replicas and the workers are separate processes that meet only in
PostgreSQL rows, in a broker that delivers at least once and in any order, in a Redis key, and in
a hypervisor that none of them can ask "is anybody working here?". Everything the code does about
it is a convention on rows: the operation row is an outbox, the lease row is a lock with an expiry,
the range's state is written only from the state a task works in, an operation's outcome is never
stored by the worker but read back from the range's state, a reservation outlives the build that
made it, a booking's flag says who must tear a range down. A test exercises one order of these
steps; the orders that matter have a crash, a late heartbeat, an operator's abandon, an edit or a
second copy of the task in the middle. `hazards` in `PROJECT.json` lists them line by line.

**What makes it correct.** Operations and leases: one operation in flight, the one the range's
state stands for; every hypervisor call under a lease of its own execution; outcomes that are what
the worker recorded and never change; states that follow the machine; no VMs that nothing records;
nothing in progress for ever. Reservations: what is on the wire is reserved for its range, and no
VLAN carries two ranges. Snapshots: one that reads ready is there, none is left behind, busy ends.
Labs: tasks are never lost, networks stay with a lab while its machines may be on them, every lab
ends. Bookings: no range is promised twice, what the clock builds has an owner and is torn down in
the end, what it did not build is left alone. Drift: sweeps are kept apart, and the append-only
record holds nothing that TrueNorth did itself.

## 2. The models

| module | what it is | uses |
|---|---|---|
| `RangeStates` | range states, transitions (`_RANGE_TRANSITIONS`), the table `ACTIONS` | |
| `RangeLease` | the lease row and each SQL statement on it, as operators on a record | |
| `RangeOperations` | API, broker, workers, windows and time for one range | both of the above |
| `RequestLedger` | the abstract specification: what a client of the operations sees | instantiated by `RangeOperations` |
| `NetworkReservations` | the table of shared values against the switch, for several ranges | |
| `RangeSnapshots` | snapshots of one range, of the API or of a lab | |
| `LabSessions` | students' labs on a pool of networks | |
| `Bookings` | bookings, the clock and the ranges it builds | |
| `DriftSweep` | the Redis lock and the sweep over one range | |
| `*MC` | constants for TLC: which rare events a run allows | |
| `*Proofs` | the theorems about each of the six components | |

**An action is one database transaction, one message or one end of a hypervisor call**, so that
whatever may interleave in the code interleaves in the model. Each module models one level and takes
the level below for what it was shown to do: `NetworkReservations`, `LabSessions` and `Bookings` let
one task at a time work on a range (`CallIsCovered`), `LabSessions` takes a snapshot task as one step
(`RangeSnapshots` has its steps), `Bookings` takes an accepted operation as one that is carried out
or fails.

**Rare events.** Crashes, refusals, timeouts, people's interference and the like carry a budget per
kind (`Budget`) and, where the product of all of them would be too large, a bound on how many
different kinds one behaviour may meet (`MaxRare`, `OneFault`, `FewRare`). The budget also lets a property say
which events void it: `Spent("crash") \/ P` is "P, unless a worker crashed". An operator marked
`Faulty:` is a plausible bug, used only by the mutants in `PROJECT.json`, each of which shows that a
property can fail.

### RangeOperations

`rstate`, `vms`, `marker` are `ranges.state`, "`provisioner_output` records VMs" and "`error_message`
holds `HELD_MARKER`". `gen` and `ops` are `range_operations`; the status `abandoned` is the code's
`failed` with `error.code = abandoned`. `sending` is the operation row that `dispatch` has locked
between its send and its commit. `reader` is a GET between its reads and its write. `restore` is a
restore of a snapshot, checked or asked for. `queue` counts
the copies of each task message; a message carries the action and the retries used, and no
generation, just as a task's arguments do not. `window` is one maintenance window. `lease` is the row
of `range_leases`. `ex[x]` is one execution of a task: its program counter, action, retries, the
operation it took for its own, what its `_Lease` has seen, the heartbeats missed, how it is failing,
whether a hypervisor call of it runs, whether it holds a build. `hv` and `lostBuild` are what exists
on the hypervisor. `verdict` is a history variable: what a worker recorded for each operation.

| action | code |
|---|---|
| `Accept(a, bypass)` | `accept` under the range's row lock, with `_check`, `parked`, `reconcile` and `refuse_inside`, then the caller's commit |
| `Send(g)`, `MarkSent`, `SenderDies` | `dispatch`, from the request or the re-send loop, and a process that dies between its send and its commit |
| `GetOperations`; `RacedGetRange`, `RacedGetOps`, `RacedGetWrite` | any reconciling read; the same GET when other transactions commit between its statements (the GET handlers take no lock) |
| `Abandon(g)`, `FenceLease`, `ForceRelease` | `abandon`, `fence_lease`, `force_release_tombstone` with the proof of `lease_status.assess` |
| `AskRestore`; `RacedAskRestore`, `RacedWriteRestore`; `Restore` | the restore endpoint; the same when other transactions commit between its checks and its write; the restore task's claim and its write of the range's state, which the state machine does not know (`RangeSnapshots` has its steps) |
| `RunDestroyWithBypass(g)`, `AbandonRange`, `DiscardUnbuilt` | `run_destroy_with_bypass`, `range_abandon.abandon`, `discard_unbuilt` |
| `OpenWindow`, `CloseWindow` | a window starts or ends to cover the range; `start` says which operations precede it |
| `ClaimLease`, `ClaimCheck`, `ClaimBlocked`, `ClaimError` | the two transactions of `claim`; `LEASE_HELD` with `defer` or `skipped`; a database error, with Celery's retry |
| `AtEntry`, `AtEntryUnreadable(x, op)`, `HoldOperation`, `HoldRange` | `maintenance_windows.at_entry`: it decides in one transaction and holds in another; when the windows cannot be read it holds, and when its operation cannot be read either it puts a build back to `created` |
| `FailBeforeCall`, `StartCall`, `CallOk`, `CallPartial`, `CallFailed`, `CallRaised`, `SoftLimit`, `EndThread` | the task around `run_async`, how a hypervisor call ends (`CallPartial`: a destroy that leaves VMs and is not refused), and the thread a failed or timed-out one leaves |
| `WriteOutcome`, `WriteRefused`, `WriteFails`, `RecordFailure`, `Discard`, `RecordLeftover`, `LeftoverLost` | `guarded_range_update`, `discard_built`, `record_leftover`; `WriteFails` and `LeftoverLost` are the database failing the record of a finished call, which ends in a retry or a failure, and the record of a leftover, which is only logged |
| `End`, `Raised`, `ReleaseFailed`, `Keep`, `Beat`, `Crash` | the ways out of `fenced`, `_Lease._beat`, a worker's death with redelivery |
| `SetupFailed`, `Tick` | `setup_reconcile._record`; a heartbeat period passes |

Time is counted in heartbeat periods (30 s; a lease is six, a kept lease 120). A task that lives goes at
most `MaxMissed` periods between renewals. The proof of `assess` is that of the code (`ProofAge`): a
tombstone that is two heartbeats old, or has expired, and whose expiry has not moved by more than half a
heartbeat beyond what the abandon left. A live worker has moved it by then unless a renewal of it is more
than half a heartbeat late, for which one renewal that fails is enough; a release under such a worker is
the rare event `lateBeat`. A send that fails changes nothing but a counter and is left out. `defer` sends
a new message: its retries start at zero. The VMs of a call that fails are not tracked here. A worker's
record of a failure, its keep and its release do not themselves fail.

**The ledger.** `RequestLedger` is what a client may rely on: numbered requests, at most one open, an
outcome that is never changed. `ImplementsLedger` maps an operation in flight to an open request, and
every other status to itself; how it is sent, held, retried and settled becomes stuttering.

### NetworkReservations

`vlan`, `uplink`, `mgmt` are the rows of `network_reservations` by kind (a value has one row, by the
unique constraint), `seen` the `updated_at` of an external row, `planned` the networks recorded in
`provisioner_output`, `pg` the port groups on the switch with their owners, `wire` the addresses the VMs
use. `task[r]` is the range's build or destroy with what it read and when. The steps of a build are those
at which somebody else may act: note the time (`StartBuild`), read the switch (`LiveRead`), one
transaction that records external use and reserves (`Reserve`), one read before the port groups
(`Prepare`), and a check and a creation per port group (`CheckPortgroup`, `CreatePortgroup`); then
`BuildVms` and the record, or `Collide` and `ReleaseConflict`, or `BuildFailed`. `Foreign` stands for
everybody else on the switch. Each attempt reads the template anew: `Reserve` allocates for the networks
it has now, and frees the VLANs of those it no longer has (`prune`; the rare event `edited`, a template
edited between two attempts), and `planned_output` replaces the networks recorded before. One domain and
one source; MACs behave as uplink addresses do and are left out. `known`, `shaky` and `dropped` are
history variables: `dropped` are the port groups of a range whose VLAN was freed under them, by a
collision or by the prune.

### RangeSnapshots

`row` is `snapshot_state`, `hv` what the hypervisor holds under the snapshot's name, `asked` the requests
between their checks and their commit, `unsent` the tasks committed and not sent, `exec` the executions,
`straggler` the calls that outlive their task. The handlers check and write without a lock: a request that
nothing comes between is one step (`CreateSnapshot`, `RestoreSnapshot`, `DeleteSnapshot`), one that others
overlap is two (`AskCreate`, `AskRestore`, `AskDelete`, then `CommitAsked`; `DeleteAgain` is a second deletion;
the rare event `overlap`). The time limit may cut off each of the three tasks (`CutRestore`, `CutSnapshot`,
`CutDelete`): the revert keeps the lease, a snapshot fails without a discard or a retry, and the call may still
end (`StragglerEnds`). `lab` decides whose range it is: the API refuses
snapshot requests for a lab's range, and the session's steps (`LabBaseline`, `LabRetry`, `LabReset`)
take their place. Snapshot and delete run without the lease, restore under it. Every fault that the
code has a path for is a rare event: a refused send, a dead API process, a failed call, a failed
discard, a failed delete, the soft limit, a window, overlapping requests, a repeated request and a duplicate.

### LabSessions

A session's operation runs from the claim of its row's lease to its commit (`Under`); its tasks are then
sent by `FlushOutbox`, if the process still holds the lease, or by a later `Resend`. Timers are
nondeterministic: an action with `late` = TRUE takes the branch of a timeout. `vms[s][i]` is what the
hypervisor has of the session's `i`-th range: a build in progress, recorded machines, leftovers.
`TenantOf`, `MaxSessions` and `MaxNetworks` are the tenants and their quotas. `_start` holds the site-wide
lock on capacity and then the tenant's, so that the check of the quota and the choice of a network are one
step (`HasRoom`); the queue is a tenant's own, the pool of networks is everybody's. Left out: the quota of
vCPUs, the capacity gate, and `flush_outbox` dropping a task that the task contract refuses (a bug by its
own comment).

### Bookings

`book` are the rows, `own` is `auto_provisioned`, `job` what an API process has read and not yet
committed. A release is three steps (load, decide, commit) and a late build two, because the code
reads the row before the transaction that acts on it and searches for an heir without the lock that
serialises bookings. The clock's other steps are one guarded update each. `by` is a history variable:
who built the range and who tore it down. A draft holds nothing and is checked as a new booking when it
is scheduled: here it is a booking not made yet. Capacity and instructors only refuse more.

### DriftSweep

One quarter of the lock's time to live is a `Tick`, in which the thread of every sweep makes its one
renewal (`Renew`): during an outage it counts as renewed. `stamped` says that a row's `updated_at`
passed the sweep's `since`; clocks are assumed to agree, although a worker stamps with its own. What a
comparison can find is one bit per kind of finding.

## 3. Runs

| run | instance | distinct states | shows |
|---|---|---|---|
| `process_deaths` | 2 executions, 2 operations (provision, destroy), 1 retry; one worker and one API process die, or a renewal is late, a teardown partial or the database fails, or a snapshot is restored | 732,912 | `CallIsCovered`, `OneRequest`, `ReportedIsTrue`, `StateMatchesVms`, `NoBuildForgotten`; the refinement `ImplementsLedger` |
| `faults` | 2 executions, 3 operations of all four actions, 1 retry; one of the other rare events, or a raced request and a window; a restore, also a raced one | 803,752 | `CoveredUnlessAbandoned`, `OneRequestUnlessRaced`, `ReportedUnlessOverridden`, `MovesAlongMachine`: each holds but for the events it exempts |
| `progress` | 2 executions, 2 operations, no retry, one worker crash; `FairSpec` | 134,170 | every accepted operation ends (`EveryRequestEnds`), every lease is given back or runs out (`EveryLeaseEnds`) |
| `net_reservations` | 2 ranges needing 2 and 1 of 2 VLANs, 1 uplink and 1 management address, 3 live reads, 2 kinds of rare event (an edited template among them) | 985,448 | `OneRangePerVlan`, `HeldWhileUsed`, `PortgroupsRecordedUnlessDropped`, `AddressesOnceIfGone`, `NewestReadCounts` |
| `snapshots` | 1 snapshot, 2 executions, 1 retry, API's or lab's range, 2 kinds of rare event; `FairSpec` | 323,658 | `ReadyIsThere`, `NothingLeftBehind`, `RevertIsVisible`; busy ends (`BusyEnds`) |
| `labs` | 2 labs of two tenants on 1 network, 2 processes, 2 ranges per lab, 1 kind of rare event | 311,852 | `TasksAreNeverLost`, `RebuiltOnEmpty`, `LabsApart` |
| `lab_ends` | 2 labs of one tenant on 1 network, 1 process, 1 kind of rare event; `FairSpec` | 95,940 | `NetworksKept`; every lab ends (`EveryLabEnds`) |
| `bookings` | 2 bookings (a templated one, a class session), 2 ranges, one clock and one request, 4 ticks, 1 kind of rare event | 1,068,632 | `NoDoubleBooking`, `BuildsAreOwned`, `OwnTornDownUnlessMoved`, `BookedRangesStand` |
| `bookings_released` | the same with slots apart, and a maintenance window; `FairSpec` | 117,482 | what a finished booking built is torn down or handed over (`ReleasedInTheEnd`) |
| `drift` | 2 sweeps, 4 renewals per time to live, 2 kinds of rare event; `FairSpec` | 753,981 | `NeverOverlap`, `RecordedDriftIsReal`; drift is shown in the end (`DriftIsShown`) |
| `lab_late` | as `labs`, with a late worker and a partial destroy | violation | `NetworksAreOurs` (section 4) |
| `bookings_edits` | 2 bookings without a class, slots apart, a person's build and an edit | violation | `OnlyItsOwnTornDown` (section 4) |

One run per module also checks its `TypeOK`.

Each property of each passing run has a mutant in `PROJECT.json` that breaks it.

**Why the bounds are enough.** Operations: two executions, leases of 2 periods (kept ones 3), one retry
and two operations are the least that shows a takeover: an operation, a second one accepted while the
first one's task, its retry or its redelivered copy is still about, and a lease that expires, is renewed,
is fenced and is force-released; `faults` has a third operation, without a rare event, that repeats the
second or completes a power cycle. Reservations: two ranges that need two and one of two VLANs always
compete; three live reads let two overlap and a third come after. Snapshots: one snapshot and two
executions show a task beside its own retry, duplicate, restore or delete, and two requests that overlap.
Labs: two sessions and one network force a queue, and hand the network from one lab to the other; two
ranges per session allow one rebuild; two processes let a lease be taken from a slow one. `lab_ends` has
one process, as it asks for an end and not for a race, and one tenant, whose labs wait for each other in
the queue. Bookings: two bookings whose slots are too close or just far enough apart, a class session and
a templated one, two ranges. Drift: two sweeps, four renewals per time to live as in the code.

Deadlock is checked in the runs of `RangeOperations` and `DriftSweep`. The others may stop: all labs
are over, the last tick has passed, every range is destroyed.

### Fairness

Assumed is only what the deployment provides. Operations: the re-send loop runs (`Send`, `MarkSent`),
Celery delivers what is queued (some `ClaimLease`), an execution that started goes on (`Proceed`) and
renews its lease when it missed a beat, windows end, time passes; `progress` runs with no retries,
because with them the property fails (section 4). Snapshots: committed tasks are sent, executions go
on, a deferred restore comes back often enough to find the lease free (strong fairness on its load).
Labs: the sweep comes back every minute to every session (strong fairness, since other processes hold
it in between), leases and graces run out, workers work. Bookings: the clock's tick visits every due
booking (strong fairness on loading it, since other jobs occupy the clock), workers finish, windows end.
Drift: the beat starts sweeps, threads renew, outages end, tasks run. Nothing is assumed of people,
of the database's or the hypervisor's success, or of which message is delivered first.

## 4. What the models showed

Two runs expect a violation, each of a sentence in the code:

* `lab_late`: networks go back to the pool when `LAB_RECONCILE_GRACE` has passed since the leftovers
  were asked for, not when they were looked for (`lab_sessions/service.py:945`). A partial destroy and
  a worker that is busy for two minutes put the next student's lab on a network with a leftover machine.
* `bookings_edits`: an edit keeps `auto_provisioned` (`scheduler/router.py:521`). A booking that
  inherited a build and is edited to another range has the clock tear that one down.

The other properties name the events that void them, or exempt what those leave. These are behaviours of
the code, found as counterexamples of the plain property:

* **Operations.** Writing a range off does not reconcile first: a destroy that its worker recorded
  failed then reads succeeded (`range_abandon.py:75`). A GET reads the range and then its operations
  without a lock, and may settle an operation accepted in between from the state before it
  (`routers/ranges.py:652`). A call that raises leaves threads that nothing waits for, and the lease
  goes (`fencing.py:505`). Abandoning a second destroy cuts the lease that the first one kept over its
  thread (`CoveredUnlessAbandoned`). A bypass that arrives between the decision and the hold of
  `at_entry` is held (`maintenance_windows.py:223`). `defer` forgets the retries used: the retry of an
  abandoned operation's task and the task of the next operation of that action can fail and defer each
  other in turn for ever, so `progress` runs with none. A force-release takes a worker whose one renewal
  failed for a dead one, and the range is claimed under its running call (`lease_status.py:167`; `lateBeat`).
  A destroy that left VMs behind is recorded destroyed, as only `failed` is refused (`tasks.py:230`;
  `partial`). A build is forgotten when the database fails between the call and its record, or the record of
  what a discard left (`tasks.py:171`, `fencing.py:399`; `dbError`). A build whose windows and operation
  cannot be read goes back to `created` with its operation open (`maintenance_windows.py:231` to 252), as does
  one whose operation a raced request closed; a restore moves a range from `failed` to the snapshot's state,
  which the machine does not know (`tasks.py:499`; `MovesAlongMachine`).
* **Reservations.** A partial destroy counts as destroyed and frees the address of the VM that is left
  (`vsphere_api.py:3128`; `AddressesOnceIfGone`); a VLAN survives that, because the next build finds the
  port group. A collision releases a VLAN on which an earlier attempt's own port group stands beside a
  foreign one, and forgets that port group (`vsphere_api.py:1512`; `dropped`). So does the next attempt at a
  build whose template was edited: the prune frees the VLAN of a port group that an incomplete roll-back left,
  and the new plan replaces the record of it (`range_alloc.py:113`, `db_ops.py:945`). A row is dated by the
  start of its read, so a read that started later but looked earlier may delete it (`shaky`). Writing a
  range off frees its VLANs while an abandoned build of it may still be between its look at the switch and
  its port group, which then stands beside the next holder's (`OneRangePerVlan`).
* **Snapshots.** A lab's second request for its reset point runs beside the retries of the first, and
  can discard what it took after it was recorded ready (`tasks.py:427`; `ReadyIsThere`). A restore is
  accepted while a snapshot is being taken, as only `restoring` is refused (`routers/ranges.py:184`). An
  API process that dies between commit and send leaves the row busy for good (`BusyEnds`). A restore and a
  deletion that both checked the row before either wrote it leave a snapshot that reads ready without its
  copy; a deletion repeated in that gap, of which the broker refuses one, and any refused request that read
  the row before another's write, put back a state that is no longer so (`routers/ranges.py:851` to 967;
  `overlap`). The time limit fails a snapshot and leaves its copy (`tasks.py:460`; `softLimit`).
* **Labs.** The queue is kept in order only within a tenant (`lab_sessions/service.py:416`): a newer lab of
  another tenant may take the network that an older one waits for. A lab that fails with its network
  reserved keeps the labs behind it waiting until their time in the queue is over (`EveryLabEnds`).
* **Bookings.** A range that the worker put back to `created` inside a window is never torn down by its
  finished booking, as a teardown of a created range is refused each time (`ReleasedInTheEnd`). A class
  session that owns a build, is edited back to approval and rejected leaves the build to nobody (`moved`).
  A booking made between the search for an heir and the commit of the teardown loses its range (`raced`);
  so does one that owns another build and is edited into the range in that gap (`moved`), a case that no
  bounded run met and the proof of `BookedRangesStand` did.
* **Drift.** After an outage of a whole time to live two sweeps may overlap until the first one's next
  renewal (`NeverOverlap`). The record compared is the one loaded when the sweep started; a deleted
  snapshot whose copy is not yet gone, or a failed one being retried, is recorded as unexpected; a row may
  change between the look and the write of one transaction (`RecordedDriftIsReal`).

## 5. Proofs

All theorems hold for any sets and any values of the constants that satisfy the named assumptions
(`LeaseAssumption`, `OperationsAssumption`, `NetworkAssumption`, `SnapshotsAssumption`, `LabsAssumption`,
`BookingsAssumption`, `DriftAssumption`). They ask only that bounds are numbers, that budgets are given for
every rare event, that model values such as `None` are nothing else, and that the address pools are finite.

A property of the form `Spent(f) \/ P` is proved from an invariant of that form: each step keeps the
strengthening of `P`, or is the one that spends `f`; what is spent stays spent (`BudgetFalls`).

`RangeOperationsProofs`:

* `TypeCorrect`: `Spec => []TypeOK`.
* `OneRequestUntilRaced`: `Spec => []OneRequestUnlessRaced`, and from the same steps `OneRequestHolds`:
  `Spec => []OneRequest` if no request is raced (`Budget["racedRead"] = 0`).
  `OneRequest` is not inductive: that an operation in flight is alone does not say that it is the
  newest, and a sender could mark a closed operation `dispatched`. `RequestInv` adds that whatever
  is in flight is the newest operation and that the row a sender has locked is still pending or
  held. The argument: no in-progress state is an outcome, so a reconcile changes nothing while the
  range is in progress (`ReconcileKeeps`); accept closes or forbids whatever is in flight; workers
  only hold operations and only move the range out of its in-progress state.
* `LedgerImplemented`: `Spec => ImplementsLedger` under the same assumption. `LedgerInv` adds to
  `RequestInv` that generations beyond `gen` are empty; then each action is shown to enter a request,
  to close the open one, or to leave the ledger alone.
* `CallsAreCovered`: `Spec => []CallIsCovered` if `MaxMissed <= 1`, `LeaseTicks > 1` (`Timely`) and no
  thread outlives its task (no straggler, no soft limit). `CoverInv` says of each execution that has
  not ended that it has its lease or tombstone, that the lease has run down by no more than the renewals it
  missed, and that what it has seen of the lease is true. Hence nobody can claim it and the holder is the
  only execution (`CoverMeans`). The one step that takes a lease from under a call is a force-release whose
  proof a late renewal passed, and it spends `lateBeat` (`OnlyLate`).
* `StateFollowsMachine`: `Spec => MovesAlongMachine` under `Timely` alone. A worker's write that
  would leave the machine is a build held without an operation (`provisioning` back to `created`,
  meant for lab sessions); `HoldInv` shows that it cannot meet a range waiting for its build until something
  could not be read or a request was raced: `RequestInv` makes the task find its operation, and `LeaseInv`
  keeps a new build out meanwhile. `LeaseInv` (`Known`) is what is left of the cover where calls outlive their
  tasks: an execution whose name the lease bears has renewed it in time. The restore's write leaves the
  machine between restorable states only.

`RangeOutcomesProofs`, which rests on the cover and the requests above (`Active`: an execution that found the
range waiting and may yet change its VMs):

* `BuildsAreNotForgotten`: `Spec => []NoBuildForgotten` under `Timely` alone. The property says nothing of why a
  recorded build finds no VMs of the range already there, or why a refused one is not dropped. `Build` says
  that a build is in the hands of an execution about to record or discard it, that it was started where
  nothing was recorded, and that it is discarded only when the range no longer waits for one: an abandon
  that renames a build's lease also takes the range out of `provisioning`, and no build is accepted while
  the lease lasts. `Machines` says that what is on the hypervisor is recorded and that a range in
  `provisioning` has no record. The only steps that leave VMs unknown are then crashes and database errors
  (`ForgetStep`), until a call or its lease is left behind.
* `StateTellsVms`: `Spec => []StateMatchesVms` under the assumptions of `CallsAreCovered`, from the same
  invariant: a teardown at work finds the range destroying, failed or destroyed, so that it never removes
  the VMs of a range that reads ready; nothing is at work on a range that is destroyed; what such a range still
  has on the hypervisor is a partial teardown's.
* `OutcomesAreReported`: `Spec => []ReportedUnlessOverridden` under `Timely` alone, and
  `OutcomesAreTrue`: `Spec => []ReportedIsTrue` if requests are not raced and ranges not written off either.
  What is reported depends on the range's state at some later reconcile, so `Told` adds that the outcome
  the state holds ready for an operation in flight was recorded for that operation, and `Own` that a worker
  that still has its lease and finds the range waiting works for the newest operation. The case that
  matters is a teardown accepted while an older one is at work: the older one has been abandoned.
* `CallsStayCovered`: `Spec => []CoveredUnlessAbandoned` under `Timely`, without raced requests (one could
  overwrite the abandon). `Kept` replaces the cover where tasks meet their soft time limit: a call whose
  task is over runs no longer than the lease kept for it.

`BookingsProofs`:

* `BookingsTypeCorrect`: `Spec => []TypeOK`.
* `NeverDoubleBooked`: `Spec => []NoDoubleBooking`. A booking becomes holding, or changes its range
  or time while holding, only in actions that check `Free`, with one exception: the clock's step 0
  gives a booking a new range without a check. The invariant `IInv` therefore adds to the types that
  no booking has a range that was never created (`RangesExist`), so that a new range is nobody's, and
  `BuildsHaveRange`, that a late build is of a range. `TooClose` is shown to be the negation of the gap
  that `NoDoubleBooking` demands, and every other action keeps the range and start of whatever is
  holding, or ends it.

* `BuildsStayOwned`, `OnlyOwnBuildsTornDown`: `Spec => []BuildsAreOwned`, `Spec => []OwnTornDownUnlessMoved`.
  A release reads the booking, searches for an heir and commits in three steps, so ownership must be known
  of the jobs too: `JobsInv` says that what a job read is still so, `RowInv` that a booking that owns a
  build has a range the clock built, `HeirInv` that the booking a job is about still has it or is over and
  that the heir found has the same range, `OwnerInv` that a range the clock built has an owner until it is
  torn down. Only an edit of an owning booking breaks that, and it spends `moved`.
* `NoBookedRangeTornDown`: `Spec => BookedRangesStand`. `StandInv`: between the search and the commit of a
  teardown nobody else holds the range.

`DriftSweepProofs`:

* `TypeCorrect`: `Spec => []TypeOK`.
* `SweepsKeptApart`: `Spec => []NeverOverlap`. `LockInv` says that a working sweep has its token in the
  key or has missed all but the last renewal of a time to live (`HoldsOrCutOff`), that the key outlasts
  the renewals not yet missed (`KeyOutlasts`), and that an idle sweep starts afresh (`IdleIsFresh`).
* `RecordIsReal`: `Spec => RecordedDriftIsReal`. `StillStands`: what a sweep read of a range that nothing
  has stamped since is still so; `SnapInv` relates the snapshot's row, its tasks and the hypervisor.

`NetworkReservationsProofs` (`NetInvariant`: `Spec => []NetInv`, from which the others follow):

* `UsedIsHeld`, `PortgroupsAreRecorded`: `HeldWhileUsed` and `PortgroupsRecordedUnlessDropped`. That what is
  on the wire is reserved is not inductive, as a build makes port groups from what it was allocated some
  steps earlier. `AllocInv` says that the allocation is still the range's and recorded, `BuildInv` that the
  range's port groups are among it, `UseInv` is the property, and `MgmtInv` its part on management addresses,
  which are released only where no VMs are recorded. A row of a range that is not destroyed
  changes hands only in the range's own collision or prune (`HoldersKeep`, `ReservedFree`).
* `VlansAreNotShared`: `OneRangePerVlan`. `AloneInv`: a port group about to be made finds no other range's
  on its VLAN, from the look until it is made, because the other range would hold the VLAN as well.
* `SlowReadsDeleteNothing`: `NewestReadCounts`. `ReadInv`: a read that missed a foreign port group started
  no later than the date of its row.
* `AddressesAreNotShared`: `AddressesOnceIfGone`. `GoneInv`: a range that is destroyed, or about to be
  recorded so, has nothing on the wire.

`RangeSnapshotsProofs`:

* `ReadySnapshotsAreThere`: `ReadyIsThere`. `Quiet`: until two requests overlap, every task to be sent is of a
  request that had the row to itself. `TakeInv`: there is then one copy of the task that takes a snapshot,
  unsent, queued or running; it is over when the row reads ready, or will again if the broker refuses the
  delete task (`Held`).
* `RevertsAreVisible`: `RevertIsVisible`. `RestoreInv` says the same of the task that restores it, and `KeptInv`
  that a revert runs under the lease, and one that outlives its task under the kept one, over a range that reads
  failed or waits to be destroyed.
* `NothingIsLeftBehind`: `NothingLeftBehind`. `LeftInv`: whoever put something on the hypervisor is still
  to come back to it; `DataInv` and `BlameInv` say of a deleted row whether its data went before the task.
  It is kept by the steps that excuse nothing (`CalmNext`).

`LabSessionsProofs` (`LabsInvariant`: `Spec => []LabsInv`):

* `TasksAreKept`: `TasksAreNeverLost`. `TasksInv` says what a task may be about, `RangesInv` that all ranges
  but the session's last are destroyed, `UsedInv` that nothing destroys the range of a lab in use, so that
  no operation asks for a second thing while a range waits for the first; `WaitInv` is the property.
* `RebuildsStartEmpty`: `RebuiltOnEmpty`, from `RangesInv` and `MachinesInv`: a destroyed range has no build
  at work and no machines but leftovers.
* `NetworksStay`: `NetworksKept`. `SearchInv`: while a lab is reconciling, the search for leftovers is on its
  way or there are none; if the grace is over with the search still in the outbox, nobody is sending it
  without starting the grace again. `BackInv`: a network that went back was an empty lab's.
* `LabsStandApart`: `LabsApart`. `PlacesInv`: no two labs have the same network, and a lab with a range has one
  until it is destroyed; with `BackInv`, a lab with machines still has the network they were built on.

Each module also proves its `TypeOK` (`TypeCorrect`).

Only model-checked: the liveness properties `EveryRequestEnds`, `EveryLeaseEnds`, `BusyEnds`, `EveryLabEnds`,
`ReleasedInTheEnd` and `DriftIsShown` (fairness and `ENABLED` are out of the prover's reach), and the range
operations' cover and VMs where the events that their theorems assume away occur. No module uses `RECURSIVE`.

## 6. Not modelled

`components` in `PROJECT.json` lists every part with its reason. The repository is mostly not of the
kind a model checker helps with: hypervisor and guest I/O, a web client, schemas and migrations,
installers, content, cryptography for transfer media and audit chains, and many services whose
operations are one guarded update each. Of what is left out, these have state worth a model, in order:

1. Classes: ranges that belong to a class (the clock's step 00), forfeits, holds, close-out, on top of
   `Bookings`.
2. Credential rotation: a rotation interrupted between the guest and the record.
3. Course publishing and Moodle results: outboxes with retries towards an external system.
4. cmi5 sessions: the order of statements and the retries of scores.
5. DELETE of a range while an operation of it is accepted (`routers/ranges.py:298`).

Of the modelled parts: the shutdown path (`BaseException`) of `fenced`, a release, a keep or the record of
a failure that the database itself fails, the quota of vCPUs and the capacity gate of labs, legacy lease
holders, idempotency keys, which windows cover which ranges, MACs, a change of allocation domain, other
sources' external rows, lab evidence and consoles, reminders, calendars and capacity sums are not.
