--------------------------- MODULE RangeSnapshots ---------------------------
(***************************************************************************)
(* Snapshots of one built range: the API's create, restore and delete      *)
(* (routers/ranges.py), or, on a lab session's range, which the API leaves *)
(* to the session (_changeable_range), its reset point and its resets      *)
(* (lab_sessions/service.py); the worker's tasks for them (tasks.py), and  *)
(* the range's stop, start and destroy as far as they meet a snapshot.     *)
(* snapshot_range and delete_snapshot run without the range's lease,       *)
(* restore_snapshot, stop, start and destroy hold it.                      *)
(***************************************************************************)
EXTENDS Naturals, FiniteSets

CONSTANTS Snap,         \* snapshots, created in any order
          Exec,         \* concurrent executions of the tasks
          None,         \* no execution
          Kept,         \* the holder of a lease that outlives its execution
          Owners,       \* whose range it may be: TRUE a lab session's, FALSE the API's
          MaxRetries,   \* ReliableTask.max_retries
          Budget,       \* bound: how often each rare event may happen
          MaxRare       \* bound: how many kinds of them may happen in one behaviour

Rare == {"crash", "refused", "apiDeath", "callFails", "discardFails", "deleteFails",
         "softLimit", "window", "labRetry", "duplicate", "overlap"}

VARIABLES
    lab,        \* the range is a lab session's (it never changes)
    rstate,     \* ranges.state
    op,         \* the range operation in flight, or "none"
    row,        \* range_snapshots.snapshot_state ("none": no row)
    data,       \* snapshot_data is set
    was,        \* range_state_at_snapshot
    hv,         \* what the hypervisor holds under the snapshot's name
    asked,      \* requests between their checks and their commit: <<task, snapshot, previous state>>
    unsent,     \* tasks committed and yet to be sent: a request, and whether it overlapped another
    queue,      \* messages of the broker
    exec,       \* executions (see Run)
    lease,      \* who holds the range's lease: an execution, Kept (cut off) or None
    straggler,  \* calls that may still run after the time limit cut off their task
    budget

vars == <<lab, rstate, op, row, data, was, hv, asked, unsent, queue, exec, lease, straggler, budget>>
rows == <<row, data, was>>

Task == {"snapshot_range", "restore_snapshot", "delete_snapshot"}

Message == [task : Task, snap : Snap, tries : 0 .. MaxRetries, copy : BOOLEAN]

\* An execution: its message and where it is.
Run == [pc : {"loaded", "taking", "taken", "reverting", "reverted", "acking"}, msg : Message]

ASSUME SnapshotsAssumption ==
    /\ None \notin Exec /\ None \notin Run
    /\ Kept \notin Exec /\ Kept # None
    /\ Owners \subseteq BOOLEAN
    /\ MaxRetries \in Nat /\ MaxRare \in Nat
    /\ Budget \in [Rare -> Nat]

Pending    == {"creating", "failed"}                    \* _SNAPSHOT_PENDING
Busy       == {"creating", "restoring"}                 \* _SNAPSHOT_BUSY
Settled    == {"ready", "failed", "deleted"}
Live       == {"ready", "stopped"}
Restorable == Live \cup {"failed"}                      \* _RESTORABLE_STATES

TypeOK ==
    /\ lab \in BOOLEAN
    /\ rstate \in Live \cup {"stopping", "starting", "failed", "destroying", "destroyed"}
    /\ op \in {"none", "stop", "start", "destroy"}
    /\ row \in [Snap -> {"none", "creating", "ready", "failed", "restoring", "deleted"}]
    /\ data \in [Snap -> BOOLEAN]
    /\ was \in [Snap -> Live]
    /\ hv \in [Snap -> {"none", "part", "whole"}]
    /\ asked \subseteq Task \X Snap \X Settled
    /\ unsent \subseteq Task \X Snap \X Settled \X {"alone", "overlapped"}
    /\ queue \subseteq Message
    /\ exec \in [Exec -> Run \cup {None}]
    /\ lease \in Exec \cup {None, Kept}
    /\ straggler \subseteq Task \X Snap
    /\ budget \in [Rare -> Nat]

Init ==
    /\ lab \in Owners
    /\ rstate = "ready" /\ op = "none"
    /\ row = [n \in Snap |-> "none"] /\ data = [n \in Snap |-> FALSE] /\ was = [n \in Snap |-> "ready"]
    /\ hv = [n \in Snap |-> "none"]
    /\ asked = {} /\ unsent = {} /\ queue = {}
    /\ exec = [e \in Exec |-> None]
    /\ lease = None /\ straggler = {}
    /\ budget = Budget

Spent(f) == budget[f] < Budget[f]

Spend(f) ==
    /\ budget[f] > 0
    /\ Cardinality({g \in Rare : Spent(g)} \cup {f}) <= MaxRare
    /\ budget' = [budget EXCEPT ![f] = @ - 1]

SpendIf(happens, f) == IF happens THEN Spend(f) ELSE UNCHANGED budget

SetRow(n, to) == row' = [row EXCEPT ![n] = to]

\* _update_snapshot_state(only_from).
Moved(n, from, to) == [row EXCEPT ![n] = IF @ \in from THEN to ELSE @]

Restoring == \E n \in Snap : row[n] = "restoring"

-----------------------------------------------------------------------------
(* The API.                                                                *)

\* create_snapshot's checks.
CanCreate(n) ==
    /\ ~lab /\ rstate \in Live /\ op = "none" /\ ~Restoring
    /\ row[n] = "none" /\ \A q \in asked : q[2] # n

\* restore_snapshot's checks.
CanRestore(n) ==
    /\ ~lab /\ rstate \in Restorable /\ op = "none" /\ ~Restoring
    /\ row[n] = "ready"

CreateSnapshot(n) ==
    /\ CanCreate(n)
    /\ SetRow(n, "creating")
    /\ was' = [was EXCEPT ![n] = rstate]
    /\ unsent' = unsent \cup {<<"snapshot_range", n, "failed", "alone">>}
    /\ UNCHANGED <<lab, rstate, op, data, hv, asked, queue, exec, lease, straggler, budget>>

RestoreSnapshot(n) ==
    /\ CanRestore(n)
    /\ SetRow(n, "restoring")
    /\ unsent' = unsent \cup {<<"restore_snapshot", n, "ready", "alone">>}
    /\ UNCHANGED <<lab, rstate, op, data, was, hv, asked, queue, exec, lease, straggler, budget>>

DeleteSnapshot(n) ==
    /\ ~lab /\ row[n] \in {"ready", "failed"}
    /\ SetRow(n, "deleted")
    /\ unsent' = unsent \cup {<<"delete_snapshot", n, row[n], "alone">>}
    /\ UNCHANGED <<lab, rstate, op, data, was, hv, asked, queue, exec, lease, straggler, budget>>

\* Only a busy snapshot is not deleted: a deleted one is, again.
DeleteAgain(n) ==
    /\ ~lab /\ row[n] = "deleted"
    /\ Spend("overlap")
    /\ unsent' = unsent \cup {<<"delete_snapshot", n, "deleted", "overlapped">>}
    /\ UNCHANGED <<lab, rstate, op, rows, hv, asked, queue, exec, lease, straggler>>

\* No lock spans a request's checks and its commit: whatever happens between them, it then
\* writes the row by what it read. (With one request split so, and the others whole, any two
\* requests interleave in every way.)
AskCreate(n) ==
    /\ CanCreate(n)
    /\ Spend("overlap")
    /\ asked' = asked \cup {<<"snapshot_range", n, "failed">>}
    /\ was' = [was EXCEPT ![n] = rstate]
    /\ UNCHANGED <<lab, rstate, op, row, data, hv, unsent, queue, exec, lease, straggler>>

AskRestore(n) ==
    /\ CanRestore(n)
    /\ Spend("overlap")
    /\ asked' = asked \cup {<<"restore_snapshot", n, "ready">>}
    /\ UNCHANGED <<lab, rstate, op, rows, hv, unsent, queue, exec, lease, straggler>>

AskDelete(n) ==
    /\ ~lab /\ row[n] \in Settled
    /\ Spend("overlap")
    /\ asked' = asked \cup {<<"delete_snapshot", n, row[n]>>}
    /\ UNCHANGED <<lab, rstate, op, rows, hv, unsent, queue, exec, lease, straggler>>

BusyOf(task) == CASE task = "snapshot_range" -> "creating" [] task = "restore_snapshot" -> "restoring"
                  [] OTHER -> "deleted"

CommitAsked(q) ==
    /\ q \in asked
    /\ asked' = asked \ {q}
    /\ SetRow(q[2], BusyOf(q[1]))
    /\ unsent' = unsent \cup {<<q[1], q[2], q[3], "overlapped">>}
    /\ UNCHANGED <<lab, rstate, op, data, was, hv, queue, exec, lease, straggler, budget>>

Fresh(u, copy) == [task |-> u[1], snap |-> u[2], tries |-> 0, copy |-> copy]

\* _send_snapshot_task, after the row's commit.
Send(u) ==
    /\ u \in unsent
    /\ unsent' = unsent \ {u} /\ queue' = queue \cup {Fresh(u, u[4] = "overlapped")}
    /\ UNCHANGED <<lab, rstate, op, rows, hv, asked, exec, lease, straggler, budget>>

\* The broker refuses it: the row goes back, if it is still where the request put it.
SendRefused(u) ==
    /\ ~lab /\ u \in unsent
    /\ Spend("refused")
    /\ unsent' = unsent \ {u}
    /\ row' = Moved(u[2], {BusyOf(u[1])}, u[3])
    /\ UNCHANGED <<lab, rstate, op, data, was, hv, asked, queue, exec, lease, straggler>>

\* The API process dies between the commit and the send.
SenderDies(u) ==
    /\ ~lab /\ u \in unsent
    /\ Spend("apiDeath")
    /\ unsent' = unsent \ {u}
    /\ UNCHANGED <<lab, rstate, op, rows, hv, asked, queue, exec, lease, straggler>>

\* A lab's tasks wait on the session, which sends them until the broker takes them, and
\* takes no other step meanwhile (advance, flush_outbox).
LabIdle == lab /\ unsent = {} /\ rstate \in Restorable

\* _advance_provisioning: the lab is built and healthy, its reset point is taken.
LabBaseline(n) ==
    /\ LabIdle /\ rstate = "ready" /\ \A o \in Snap : row[o] = "none"
    /\ SetRow(n, "creating")
    /\ unsent' = {<<"snapshot_range", n, "failed", "alone">>}
    /\ UNCHANGED <<lab, rstate, op, data, was, hv, asked, queue, exec, lease, straggler, budget>>

\* _advance_baselining: the session asks again for a reset point that failed, or is late.
LabRetry(n) ==
    /\ LabIdle /\ row[n] \in Pending
    /\ Spend("labRetry")
    /\ SetRow(n, "creating")
    /\ queue' = queue \cup {Fresh(<<"snapshot_range", n>>, TRUE)}
    /\ UNCHANGED <<lab, rstate, op, data, was, hv, asked, unsent, exec, lease, straggler>>

\* reset: the student wants the lab as it was.
LabReset(n) ==
    /\ LabIdle /\ row[n] = "ready"
    /\ SetRow(n, "restoring")
    /\ unsent' = {<<"restore_snapshot", n, "ready", "alone">>}
    /\ UNCHANGED <<lab, rstate, op, data, was, hv, asked, queue, exec, lease, straggler, budget>>

\* flush_outbox sent a task and died before it committed: the sweep sends it again.
SentTwice(u) ==
    /\ lab /\ u \in unsent
    /\ Spend("duplicate")
    /\ unsent' = {} /\ queue' = queue \cup {Fresh(u, FALSE), Fresh(u, TRUE)}
    /\ UNCHANGED <<lab, rstate, op, rows, hv, asked, exec, lease, straggler>>

\* stop, start: refused while a snapshot is busy or the lease is held. destroy: never.
AcceptPower(action) ==
    /\ ~lab /\ op = "none" /\ lease = None
    /\ \A n \in Snap : row[n] \notin Busy
    /\ rstate = IF action = "stop" THEN "ready" ELSE "stopped"
    /\ op' = action /\ rstate' = IF action = "stop" THEN "stopping" ELSE "starting"
    /\ UNCHANGED <<lab, rows, hv, asked, unsent, queue, exec, lease, straggler, budget>>

AcceptDestroy ==
    /\ rstate \in Restorable
    /\ op' = "destroy" /\ rstate' = "destroying"
    /\ UNCHANGED <<lab, rows, hv, asked, unsent, queue, exec, lease, straggler, budget>>

\* The operation's task, under the lease; a destroy takes the snapshots with the VMs.
OpTask ==
    /\ op # "none" /\ lease = None
    /\ rstate' = CASE op = "stop" -> "stopped" [] op = "start" -> "ready" [] OTHER -> "destroyed"
    /\ hv' = IF op = "destroy" THEN [n \in Snap |-> "none"] ELSE hv
    /\ op' = "none"
    /\ UNCHANGED <<lab, rows, asked, unsent, queue, exec, lease, straggler, budget>>

-----------------------------------------------------------------------------
(* The worker.                                                             *)

At(e, pc) == exec[e] # None /\ exec[e].pc = pc

To(e, pc) == exec' = [exec EXCEPT ![e].pc = pc]

\* Faulty: a task is retried without end.
RetryForever(m) == {[m EXCEPT !.tries = @ + 1]}

\* Failed: a retry, or no more.
Retry(m) == IF m.tries < MaxRetries THEN {[m EXCEPT !.tries = @ + 1]} ELSE {}

\* A task's call to the hypervisor.
CallOf(m) == <<m.task, m.snap>>

LastAttempt(m) == m.tries >= MaxRetries

Fail(e) ==
    /\ exec' = [exec EXCEPT ![e] = None]
    /\ queue' = queue \cup Retry(exec[e].msg)

Started(e, m, pc) ==
    /\ exec[e] = None /\ m \in queue
    /\ queue' = queue \ {m}
    /\ exec' = [exec EXCEPT ![e] = [pc |-> pc, msg |-> m]]

\* Faulty: a duplicate of a finished task runs again.
SnapshotWantedAlways(n) == row[n] # "deleted"

\* snapshot_range runs for a row that is still to be taken.
SnapshotWanted(n) == row[n] \in Pending

LoadSnapshot(e, m) ==
    /\ m.task = "snapshot_range"
    /\ Started(e, m, IF SnapshotWanted(m.snap) THEN "loaded" ELSE "acking")
    /\ UNCHANGED <<lab, rstate, op, rows, hv, asked, unsent, lease, straggler, budget>>

\* What an earlier attempt left under the name is discarded, then the VMs are snapshotted.
BeginSnapshot(e) ==
    /\ At(e, "loaded") /\ exec[e].msg.task = "snapshot_range"
    /\ rstate # "destroyed"
    /\ hv' = [hv EXCEPT ![exec[e].msg.snap] = "part"]
    /\ To(e, "taking")
    /\ UNCHANGED <<lab, rstate, op, rows, asked, unsent, queue, lease, straggler, budget>>

\* Nothing is left of it where the range's VMs are gone, or another copy discarded it.
EndSnapshot(e) ==
    /\ At(e, "taking")
    /\ rstate # "destroyed"
    /\ hv' = [hv EXCEPT ![exec[e].msg.snap] = "whole"]
    /\ To(e, "taken")
    /\ UNCHANGED <<lab, rstate, op, rows, asked, unsent, queue, lease, straggler, budget>>

\* A failed or partial snapshot is discarded, the row failed and the task retried.
FailSnapshot(e, left) ==
    /\ At(e, "taking") \/ (At(e, "loaded") /\ exec[e].msg.task = "snapshot_range")
    /\ IF left THEN Spend("discardFails") ELSE SpendIf(rstate # "destroyed", "callFails")
    /\ hv' = [hv EXCEPT ![exec[e].msg.snap] = IF left THEN @ ELSE "none"]
    /\ row' = Moved(exec[e].msg.snap, Pending, "failed")
    /\ Fail(e)
    /\ UNCHANGED <<lab, rstate, op, data, was, asked, unsent, lease, straggler>>

\* Faulty: a copy nobody waits for stays.
RecordSnapshotKept(e) ==
    LET n == exec[e].msg.snap
    IN  /\ At(e, "taken")
        /\ row' = Moved(n, Pending, "ready")
        /\ data' = [data EXCEPT ![n] = @ \/ row[n] \in Pending]
        /\ To(e, "acking")
        /\ UNCHANGED <<lab, rstate, op, was, hv, asked, unsent, queue, lease, straggler, budget>>

\* ready, if the row still waits for it; otherwise the copy is discarded.
RecordSnapshot(e) ==
    LET n == exec[e].msg.snap
    IN  /\ At(e, "taken")
        /\ row' = Moved(n, Pending, "ready")
        /\ data' = [data EXCEPT ![n] = @ \/ row[n] \in Pending]
        /\ hv' = [hv EXCEPT ![n] = IF row[n] \in Pending THEN @ ELSE "none"]
        /\ To(e, "acking")
        /\ UNCHANGED <<lab, rstate, op, was, asked, unsent, queue, lease, straggler, budget>>

\* restore_snapshot claims the lease; without it the task is deferred. It is held back by a
\* maintenance window, or finds the range in no restorable state: the snapshot is ready again.
LoadRestore(e, m, window) ==
    /\ m.task = "restore_snapshot"
    /\ lease = None
    /\ SpendIf(window, "window")
    /\ IF window \/ rstate \notin Restorable
         THEN /\ Started(e, m, "acking")
              /\ row' = Moved(m.snap, {"restoring"}, "ready")
              /\ UNCHANGED lease
         ELSE /\ Started(e, m, "loaded")
              /\ lease' = e
              /\ UNCHANGED row
    /\ UNCHANGED <<lab, rstate, op, data, was, hv, asked, unsent, straggler>>

BeginRevert(e) ==
    /\ At(e, "loaded") /\ lease = e
    /\ data[exec[e].msg.snap] /\ hv[exec[e].msg.snap] = "whole"
    /\ To(e, "reverting")
    /\ UNCHANGED <<lab, rstate, op, rows, hv, asked, unsent, queue, lease, straggler, budget>>

\* The range's state is what it was when the snapshot was taken, if it is still restorable ...
EndRevert(e) ==
    /\ At(e, "reverting")
    /\ rstate' = IF rstate \in Restorable THEN was[exec[e].msg.snap] ELSE rstate
    /\ To(e, "reverted")
    /\ UNCHANGED <<lab, op, rows, hv, asked, unsent, queue, lease, straggler, budget>>

\* ... then the snapshot is ready again, and the lease is released.
RecordRestore(e) ==
    /\ At(e, "reverted")
    /\ row' = Moved(exec[e].msg.snap, {"restoring"}, "ready")
    /\ To(e, "acking")
    /\ lease' = None
    /\ UNCHANGED <<lab, rstate, op, data, was, hv, asked, unsent, queue, straggler, budget>>

\* Faulty: the snapshot is given back by every failed attempt.
GiveBackAlways(m) == Moved(m.snap, {"restoring"}, "ready")

\* Faulty: the snapshot is not given back.
GiveBackNever(m) == row

\* The last failed attempt gives the snapshot back.
GiveBack(m) == IF LastAttempt(m) THEN Moved(m.snap, {"restoring"}, "ready") ELSE row

\* The revert fails: before anything changed, or with some VMs reverted, which fails the range.
FailRestore(e) ==
    /\ exec[e] # None /\ lease = e /\ exec[e].pc \in {"loaded", "reverting"}
    /\ SpendIf(At(e, "reverting") \/ hv[exec[e].msg.snap] = "whole", "callFails")
    /\ rstate' = IF At(e, "reverting") /\ rstate \in Restorable THEN "failed" ELSE rstate
    /\ row' = GiveBack(exec[e].msg)
    /\ Fail(e)
    /\ lease' = None
    /\ UNCHANGED <<lab, op, data, was, hv, asked, unsent, straggler>>

\* The soft time limit is final: no retry, and the call may go on. A restore fails the range,
\* gives the snapshot back and keeps the lease over the revert ...
CutRestore(e) ==
    /\ exec[e] # None /\ lease = e
    /\ Spend("softLimit")
    /\ rstate' = IF rstate \in Restorable THEN "failed" ELSE rstate
    /\ row' = Moved(exec[e].msg.snap, {"restoring"}, "ready")
    /\ To(e, "acking")
    /\ lease' = Kept
    /\ straggler' = straggler \cup IF At(e, "reverting") THEN {CallOf(exec[e].msg)} ELSE {}
    /\ UNCHANGED <<lab, op, data, was, hv, asked, unsent, queue>>

\* ... a snapshot fails its row, and discards nothing.
CutSnapshot(e) ==
    /\ exec[e] # None /\ exec[e].msg.task = "snapshot_range" /\ exec[e].pc # "acking"
    /\ Spend("softLimit")
    /\ row' = Moved(exec[e].msg.snap, Pending, "failed")
    /\ To(e, "acking")
    /\ straggler' = straggler \cup IF At(e, "taking") THEN {CallOf(exec[e].msg)} ELSE {}
    /\ UNCHANGED <<lab, rstate, op, data, was, hv, asked, unsent, queue, lease>>

\* A call that outlived its task ends: a snapshot may be whole now.
StragglerEnds(c, done) ==
    /\ c \in straggler /\ straggler' = straggler \ {c}
    /\ hv' = IF done /\ rstate # "destroyed" /\ c[1] = "snapshot_range"
               THEN [hv EXCEPT ![c[2]] = "whole"]
               ELSE hv
    /\ UNCHANGED <<lab, rstate, op, rows, asked, unsent, queue, exec, lease, budget>>

\* KEPT_LEASE_SECONDS is longer than any single hypervisor call.
KeptLeaseEnds ==
    /\ lease = Kept /\ \A c \in straggler : c[1] # "restore_snapshot"
    /\ lease' = None
    /\ UNCHANGED <<lab, rstate, op, rows, hv, asked, unsent, queue, exec, straggler, budget>>

\* delete_snapshot: the copy goes, if the row has data; the row is deleted.
RunDelete(e, m) ==
    /\ m.task = "delete_snapshot"
    /\ Started(e, m, "acking")
    /\ hv' = [hv EXCEPT ![m.snap] = IF data[m.snap] THEN "none" ELSE @]
    /\ SetRow(m.snap, "deleted")
    /\ UNCHANGED <<lab, rstate, op, data, was, asked, unsent, lease, straggler, budget>>

DeleteFails(m) ==
    /\ m \in queue /\ m.task = "delete_snapshot" /\ data[m.snap]
    /\ Spend("deleteFails")
    /\ queue' = (queue \ {m}) \cup Retry(m)
    /\ UNCHANGED <<lab, rstate, op, rows, hv, asked, unsent, exec, lease, straggler>>

\* The limit cuts the deletion off, done or not.
CutDelete(m, done) ==
    /\ m \in queue /\ m.task = "delete_snapshot" /\ data[m.snap]
    /\ Spend("softLimit")
    /\ queue' = queue \ {m}
    /\ hv' = [hv EXCEPT ![m.snap] = IF done THEN "none" ELSE @]
    /\ UNCHANGED <<lab, rstate, op, rows, asked, unsent, exec, lease, straggler>>

\* The task is acknowledged when it has ended (acks_late).
Ack(e) ==
    /\ At(e, "acking")
    /\ exec' = [exec EXCEPT ![e] = None]
    /\ UNCHANGED <<lab, rstate, op, rows, hv, asked, unsent, queue, lease, straggler, budget>>

\* The worker dies: its task is delivered again, its lease runs out.
Crash(e) ==
    /\ exec[e] # None
    /\ Spend("crash")
    /\ exec' = [exec EXCEPT ![e] = None]
    /\ queue' = queue \cup {exec[e].msg}
    /\ lease' = IF lease = e THEN None ELSE lease
    /\ UNCHANGED <<lab, rstate, op, rows, hv, asked, unsent, straggler>>

Api == \/ \E n \in Snap : CreateSnapshot(n) \/ RestoreSnapshot(n) \/ DeleteSnapshot(n)
       \/ \E n \in Snap : LabBaseline(n) \/ LabRetry(n) \/ LabReset(n)
       \/ \E u \in unsent : SendRefused(u) \/ SenderDies(u) \/ SentTwice(u)
       \/ \E a \in {"stop", "start"} : AcceptPower(a)
       \/ AcceptDestroy

Overlaps == \/ \E n \in Snap : DeleteAgain(n) \/ AskCreate(n) \/ AskRestore(n) \/ AskDelete(n)
            \/ \E q \in asked : CommitAsked(q)

Sent == \E u \in unsent : Send(u)

Faults == \/ \E e \in Exec : CutRestore(e) \/ CutSnapshot(e) \/ Crash(e)
          \/ \E m \in queue, done \in BOOLEAN : CutDelete(m, done)

Step(e) == \/ \E m \in queue : LoadSnapshot(e, m) \/ RunDelete(e, m)
           \/ \E m \in queue, w \in BOOLEAN : LoadRestore(e, m, w)
           \/ BeginSnapshot(e) \/ EndSnapshot(e) \/ RecordSnapshot(e)
           \/ \E left \in BOOLEAN : FailSnapshot(e, left)
           \/ BeginRevert(e) \/ EndRevert(e) \/ RecordRestore(e) \/ FailRestore(e)
           \/ Ack(e)

Stragglers == \E c \in straggler, done \in BOOLEAN : StragglerEnds(c, done)

Worker == \/ \E e \in Exec : Step(e)
          \/ \E m \in queue : DeleteFails(m)
          \/ OpTask \/ Stragglers \/ KeptLeaseEnds

Next == Api \/ Overlaps \/ Sent \/ Faults \/ Worker

\* Somebody sends what was committed, every queued task is taken in its turn, and a deferred
\* restore comes back often enough to find the lease free.
Fairness == /\ WF_vars(Sent) /\ WF_vars(OpTask) /\ WF_vars(Stragglers) /\ WF_vars(KeptLeaseEnds)
            /\ \A e \in Exec : WF_vars(Step(e))
            /\ \A n \in Snap : /\ SF_vars(\E e \in Exec, m \in queue : m.snap = n /\ LoadSnapshot(e, m))
                              /\ SF_vars(\E e \in Exec, m \in queue : m.snap = n /\ LoadRestore(e, m, FALSE))

Spec == Init /\ [][Next]_vars

FairSpec == Spec /\ Fairness

-----------------------------------------------------------------------------
(* What makes it correct.                                                  *)

\* A snapshot that reads ready, or is being restored, is on the hypervisor as long as the
\* range's VMs are.
ReadyIsReal ==
    \A n \in Snap : row[n] \in {"ready", "restoring"} /\ rstate # "destroyed" => hv[n] = "whole"

\* It is so as long as one task at a time takes it: a lab's second request runs beside the
\* retries of the first, and so does a duplicate of it; and as long as no two requests for it
\* overlap: no lock keeps a restore and a deletion apart.
ReadyIsThere == ReadyIsReal \/ Spent("labRetry") \/ Spent("duplicate") \/ Spent("overlap")

\* When nothing is left to do for a snapshot, what the hypervisor holds of it is a snapshot
\* somebody can restore or delete; unless removing it failed, nobody was asked to, the time
\* limit cut its task off, a worker died in a retry of it after its row was deleted, or two
\* requests overlapped (one that the broker refuses puts back a state it read before).
NothingLeftBehind ==
    \A n \in Snap :
        \/ hv[n] = "none" \/ row[n] = "ready"
        \/ \E m \in queue : m.snap = n
        \/ \E e \in Exec : exec[e] # None /\ exec[e].msg.snap = n
        \/ \E u \in unsent : u[2] = n
        \/ Spent("discardFails") \/ Spent("deleteFails") \/ Spent("apiDeath") \/ Spent("softLimit")
        \/ Spent("overlap") \/ (Spent("callFails") /\ Spent("crash"))

\* While a task reverts the range's VMs its snapshot reads restoring, so that the API refuses
\* another restore, a new snapshot, a stop and a start; unless a worker died (its finished task
\* is delivered again), a lab sent its reset twice or two requests overlapped. A revert that
\* outlives its task no longer shows there: the range reads failed, which refuses the same but
\* for a restore, and that, as a teardown, waits for the lease kept over it.
RevertIsVisible ==
    /\ \/ \A e \in Exec : At(e, "reverting") => row[exec[e].msg.snap] = "restoring"
       \/ Spent("crash") \/ Spent("duplicate") \/ Spent("overlap")
    /\ \A c \in straggler : c[1] = "restore_snapshot" => lease = Kept /\ rstate \in {"failed", "destroying"}

\* A snapshot that is being taken or restored will not stay so: everything else of the range
\* is refused meanwhile. Unless the API process died before it sent the task: nobody sends it.
BusyEnds == \A n \in Snap : row[n] \in Busy ~> row[n] \notin Busy \/ Spent("apiDeath")
=============================================================================
