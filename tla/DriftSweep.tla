------------------------------ MODULE DriftSweep ------------------------------
(***************************************************************************)
(* The periodic drift check (worker/range_drift.py) of one range, the      *)
(* Redis lock that keeps its sweeps apart (worker/redis_lock.py), and what *)
(* changes the range while it is read: its operations, its snapshots (one  *)
(* of them, see RangeSnapshots for their life) and people with the         *)
(* hypervisor's console. The clocks that stamp updated_at agree.           *)
(***************************************************************************)
EXTENDS Integers, FiniteSets

CONSTANTS Sweep,    \* executions of check_range_drift
          None,     \* no holder
          Gone,     \* the token of an execution that has ended
          Unread,   \* not read: the backend could not, or nobody has yet
          Beats,    \* renewals in the lock's time to live (ttl / 4: four)
          Budget,   \* bound: how often each rare event may happen
          MaxRare   \* bound: how many kinds of them may happen in one behaviour

Rare == {"kill", "outage", "operation", "callFails", "readFails", "console"}

ASSUME DriftAssumption ==
    /\ None \notin Sweep /\ Gone \notin Sweep /\ None # Gone
    /\ Beats \in Nat \ {0, 1}
    /\ MaxRare \in Nat /\ Budget \in [Rare -> Nat]

VARIABLES
    key, ttl,   \* the lock's key in Redis: whose token it holds; beats until it expires
    up,         \* Redis answers
    pc,         \* where each sweep is
    lost,       \* RedisLock.lost
    due,        \* the lock's thread has a renewal to make
    missed,     \* renewals in a row that did not reach Redis
    output,     \* the build whose record the sweep loaded
    stamped,    \* the range or its snapshot changed since the sweep's `since`, or its last look
    seen,       \* what the sweep read
    busy,       \* the range is not idle: its state, an operation, its lease
    build,      \* which build of the range stands, and is recorded
    changed,    \* somebody changed a VM from the console
    row,        \* the snapshot's state
    held,       \* the hypervisor holds the snapshot
    tasks,      \* the snapshot's tasks
    check,      \* range_inventory_checks: the result the range page shows
    entry,      \* the newest entry of the certification record's drift section
    budget

lock  == <<key, ttl, up, lost, due, missed>>
range == <<busy, build, changed>>
snap  == <<row, held, tasks>>
found == <<check, entry>>
vars  == <<lock, pc, output, stamped, seen, range, snap, found, budget>>

Finding == {"vm", "snapshot_unexpected", "snapshot_missing"}
Reading == [build : Nat, mid : BOOLEAN, changed : BOOLEAN, snapshot : BOOLEAN]

Pending == {"creating", "failed"}
BusySnapshot == {"creating", "restoring"}

TypeOK ==
    /\ key \in Sweep \cup {None, Gone} /\ ttl \in 0 .. Beats /\ (key = None <=> ttl = 0) /\ up \in BOOLEAN
    /\ pc \in [Sweep -> {"idle", "locked", "chosen", "reading", "read", "settled", "ending"}]
    /\ lost \in [Sweep -> BOOLEAN] /\ due \in [Sweep -> BOOLEAN] /\ missed \in [Sweep -> 0 .. Beats]
    /\ output \in [Sweep -> Nat] /\ stamped \in [Sweep -> BOOLEAN]
    /\ seen \in [Sweep -> Reading \cup {Unread}]
    /\ busy \in BOOLEAN /\ build \in Nat /\ changed \in BOOLEAN
    /\ row \in {"none", "creating", "ready", "failed", "restoring", "deleted"}
    /\ held \in BOOLEAN /\ tasks \subseteq {"take", "restore", "delete"}
    /\ check \in (SUBSET Finding) \cup {Unread, None}
    /\ entry \in (SUBSET Finding) \cup {None}
    /\ budget \in [Rare -> Nat]

Init ==
    /\ key = None /\ ttl = 0 /\ up = TRUE
    /\ pc = [s \in Sweep |-> "idle"]
    /\ lost = [s \in Sweep |-> FALSE] /\ due = [s \in Sweep |-> FALSE] /\ missed = [s \in Sweep |-> 0]
    /\ output = [s \in Sweep |-> 0] /\ stamped = [s \in Sweep |-> FALSE] /\ seen = [s \in Sweep |-> Unread]
    /\ busy = FALSE /\ build = 0 /\ changed = FALSE
    /\ row = "none" /\ held = FALSE /\ tasks = {}
    /\ check = None /\ entry = None
    /\ budget = Budget

Spent(f) == budget[f] < Budget[f]

Spend(f) ==
    /\ budget[f] > 0
    /\ Cardinality({g \in Rare : Spent(g)} \cup {f}) <= MaxRare
    /\ budget' = [budget EXCEPT ![f] = @ - 1]

Working(s) == pc[s] # "idle"

-----------------------------------------------------------------------------
(* The lock.                                                               *)

\* SET key token NX PX ttl; a sweep that does not get it does nothing.
Acquire(s) ==
    /\ pc[s] = "idle" /\ up /\ key = None
    /\ key' = s /\ ttl' = Beats
    /\ pc' = [pc EXCEPT ![s] = "locked"]
    /\ UNCHANGED <<up, lost, due, missed, output, stamped, seen, range, snap, found, budget>>

\* The key still holds its own token.
Renewed(s) == key = s

\* The thread's renewal: a blip counts as renewed, an answer that it is not ours ends the thread.
Renew(s) ==
    /\ Working(s) /\ due[s]
    /\ due' = [due EXCEPT ![s] = FALSE]
    /\ missed' = [missed EXCEPT ![s] = IF up THEN IF Renewed(s) THEN 0 ELSE @
                                             ELSE IF @ < Beats THEN @ + 1 ELSE @]
    /\ ttl' = IF up /\ Renewed(s) THEN Beats ELSE ttl
    /\ lost' = [lost EXCEPT ![s] = up /\ ~Renewed(s)]
    /\ UNCHANGED <<key, up, pc, output, stamped, seen, range, snap, found, budget>>

\* Faulty: whoever's key it is, is deleted.
ReleasedAny(s) == up

\* The key is deleted if it still holds the sweep's token, and Redis answers.
Released(s) == up /\ key = s

Over(s) ==
    /\ pc' = [pc EXCEPT ![s] = "idle"]
    /\ lost' = [lost EXCEPT ![s] = FALSE] /\ due' = [due EXCEPT ![s] = FALSE]
    /\ missed' = [missed EXCEPT ![s] = 0]
    /\ output' = [output EXCEPT ![s] = 0] /\ stamped' = [stamped EXCEPT ![s] = FALSE]
    /\ seen' = [seen EXCEPT ![s] = Unread]

Release(s) ==
    /\ pc[s] = "ending"
    /\ Over(s)
    /\ IF Released(s) THEN key' = None /\ ttl' = 0
                      ELSE key' = (IF key = s THEN Gone ELSE key) /\ UNCHANGED ttl
    /\ UNCHANGED <<up, range, snap, found, budget>>

\* The worker is killed: its key stays until it expires.
Kill(s) ==
    /\ Working(s)
    /\ Spend("kill")
    /\ Over(s)
    /\ key' = IF key = s THEN Gone ELSE key
    /\ UNCHANGED <<ttl, up, range, snap, found>>

\* Faulty: a key without a time to live.
AgedNever == ttl

\* Faulty: time goes on for a key that is gone.
AgedBelow == ttl - 1

\* PX: a key that is not renewed expires.
Aged == IF ttl > 0 THEN ttl - 1 ELSE 0

\* A quarter of the time to live passes; every thread makes its renewal before the next one.
Tick ==
    /\ key # None \/ \E s \in Sweep : Working(s) /\ ~lost[s]
    /\ \A s \in Sweep : ~due[s]
    /\ ttl' = Aged
    /\ key' = IF Aged = 0 THEN None ELSE key
    /\ due' = [s \in Sweep |-> Working(s) /\ ~lost[s]]
    /\ UNCHANGED <<up, lost, missed, pc, output, stamped, seen, range, snap, found, budget>>

Outage ==
    /\ up /\ Spend("outage") /\ up' = FALSE
    /\ UNCHANGED <<key, ttl, lost, due, missed, pc, output, stamped, seen, range, snap, found>>

Recovery ==
    /\ ~up /\ up' = TRUE
    /\ UNCHANGED <<key, ttl, lost, due, missed, pc, output, stamped, seen, range, snap, found, budget>>

-----------------------------------------------------------------------------
(* The sweep.                                                              *)

\* The sweep has nothing more to do than to release its lock.
Finish(s) ==
    /\ pc' = [pc EXCEPT ![s] = "ending"]
    /\ output' = [output EXCEPT ![s] = 0] /\ stamped' = [stamped EXCEPT ![s] = FALSE]
    /\ seen' = [seen EXCEPT ![s] = Unread]

\* drift_ranges: an idle range, and the record of its build.
Choose(s) ==
    /\ pc[s] = "locked"
    /\ IF busy THEN Finish(s)
               ELSE /\ pc' = [pc EXCEPT ![s] = "chosen"]
                    /\ output' = [output EXCEPT ![s] = build]
                    /\ UNCHANGED <<stamped, seen>>
    /\ UNCHANGED <<lock, range, snap, found, budget>>

\* The range's group is next: other groups may have been read meanwhile. db_now.
Since(s) ==
    /\ pc[s] = "chosen"
    /\ IF lost[s] THEN Finish(s)
                  ELSE /\ pc' = [pc EXCEPT ![s] = "reading"]
                       /\ UNCHANGED <<output, stamped, seen>>
    /\ UNCHANGED <<lock, range, snap, found, budget>>

\* read_group: what the hypervisor holds now; an operation may be half way.
Read(s, fails) ==
    /\ pc[s] = "reading"
    /\ pc' = [pc EXCEPT ![s] = "read"]
    /\ IF fails THEN Spend("readFails") ELSE UNCHANGED budget
    /\ seen' = [seen EXCEPT ![s] = IF fails THEN Unread
                  ELSE [build |-> build, mid |-> busy, changed |-> changed, snapshot |-> held]]
    /\ UNCHANGED <<lock, output, stamped, range, snap, found>>

\* Faulty: a change while the range was read is not looked for.
UnsettledNow(s) == busy \/ row \in BusySnapshot

\* unsettled: the range is no longer idle, or it or its snapshot changed since.
Unsettled(s) == busy \/ stamped[s] \/ row \in BusySnapshot

Settle(s) ==
    /\ pc[s] = "read"
    /\ IF lost[s] \/ Unsettled(s) THEN Finish(s)
                                  ELSE /\ pc' = [pc EXCEPT ![s] = "settled"]
                                       /\ stamped' = [stamped EXCEPT ![s] = FALSE]
                                       /\ UNCHANGED <<output, seen>>
    /\ UNCHANGED <<lock, range, snap, found, budget>>

\* compare, with the snapshot rows read now.
Compare(s) ==
    {f \in Finding :
        CASE f = "vm"                  -> seen[s].changed \/ seen[s].mid \/ seen[s].build # output[s]
          [] f = "snapshot_unexpected" -> seen[s].snapshot /\ row \in {"none", "failed", "deleted"}
          [] OTHER                     -> ~seen[s].snapshot /\ row \in {"ready", "restoring"}}

\* save_check; append_entry unless the newest entry says so already. A reading that failed is
\* an error on the check and goes into no record.
Save(s) ==
    /\ pc[s] = "settled"
    /\ Finish(s)
    /\ check' = IF seen[s] = Unread THEN Unread ELSE Compare(s)
    /\ entry' = IF seen[s] = Unread THEN entry ELSE Compare(s)
    /\ UNCHANGED <<lock, range, snap, budget>>

-----------------------------------------------------------------------------
(* What changes the range.                                                 *)

\* Every write of the range's row, or of its snapshot's, moves updated_at.
Stamp == stamped' = [s \in Sweep |-> pc[s] \in {"reading", "read", "settled"}]

Begin ==
    /\ ~busy /\ row # "restoring"
    /\ Spend("operation")
    /\ busy' = TRUE /\ Stamp
    /\ UNCHANGED <<lock, pc, output, seen, build, changed, snap, found>>

\* Stop, start, a build; or a destroy that failed and a build after it, whose VMs are new.
End(rebuilt) ==
    /\ busy /\ row # "restoring"
    /\ rebuilt => tasks = {}
    /\ busy' = FALSE /\ Stamp
    /\ build' = IF rebuilt THEN build + 1 ELSE build
    /\ changed' = (changed /\ ~rebuilt)
    /\ held' = (held /\ ~rebuilt)
    /\ row' = IF rebuilt THEN "none" ELSE row
    /\ UNCHANGED <<lock, pc, output, seen, tasks, found, budget>>

\* Somebody changes a VM's hardware, without TrueNorth.
Console ==
    /\ ~changed
    /\ Spend("console") /\ changed' = TRUE
    /\ UNCHANGED <<lock, pc, output, stamped, seen, busy, build, snap, found>>

CreateSnapshot ==
    /\ ~busy /\ row = "none"
    /\ row' = "creating" /\ tasks' = {"take"} /\ Stamp
    /\ UNCHANGED <<lock, pc, output, seen, range, held, found, budget>>

\* snapshot_range has snapshotted the VMs ...
TakeSnapshot ==
    /\ "take" \in tasks /\ row \in Pending /\ ~held
    /\ held' = TRUE
    /\ UNCHANGED <<lock, pc, output, stamped, seen, range, row, tasks, found, budget>>

\* ... and recorded it, or discards it, when the row was deleted meanwhile.
RecordSnapshot ==
    /\ "take" \in tasks /\ (held \/ row = "deleted")
    /\ tasks' = tasks \ {"take"}
    /\ IF row \in Pending THEN row' = "ready" /\ held' = held /\ Stamp
                          ELSE row' = row /\ held' = FALSE /\ UNCHANGED stamped
    /\ UNCHANGED <<lock, pc, output, seen, range, found, budget>>

\* A partial snapshot is discarded; the task may be retried.
FailSnapshot(retry) ==
    /\ "take" \in tasks /\ row \in Pending
    /\ Spend("callFails")
    /\ held' = FALSE /\ row' = "failed" /\ Stamp
    /\ tasks' = IF retry THEN tasks ELSE tasks \ {"take"}
    /\ UNCHANGED <<lock, pc, output, seen, range, found>>

\* The row reads restoring until the VMs are reverted, under the range's lease.
RestoreSnapshot ==
    /\ ~busy /\ row = "ready"
    /\ Spend("operation")
    /\ row' = "restoring" /\ tasks' = tasks \cup {"restore"} /\ Stamp
    /\ UNCHANGED <<lock, pc, output, seen, range, held, found>>

Revert ==
    /\ "restore" \in tasks /\ ~busy
    /\ busy' = TRUE
    /\ UNCHANGED <<lock, pc, output, stamped, seen, build, changed, snap, found, budget>>

RecordRestore ==
    /\ "restore" \in tasks /\ busy
    /\ busy' = FALSE /\ row' = "ready" /\ tasks' = tasks \ {"restore"} /\ Stamp
    /\ UNCHANGED <<lock, pc, output, seen, build, changed, held, found, budget>>

\* The row is deleted first ...
DeleteSnapshot ==
    /\ row \in {"ready", "failed"}
    /\ row' = "deleted" /\ tasks' = tasks \cup {"delete"} /\ Stamp
    /\ UNCHANGED <<lock, pc, output, seen, range, held, found, budget>>

\* ... what the hypervisor holds later; nothing, for a snapshot that never was ready.
RunDelete ==
    /\ "delete" \in tasks
    /\ held' = (held /\ "take" \in tasks) /\ tasks' = tasks \ {"delete"} /\ Stamp
    /\ UNCHANGED <<lock, pc, output, seen, range, row, found, budget>>

-----------------------------------------------------------------------------
Step(s) == \/ Choose(s) \/ Since(s) \/ Settle(s) \/ Save(s) \/ Release(s)
           \/ \E fails \in BOOLEAN : Read(s, fails)

Tasks == TakeSnapshot \/ RecordSnapshot \/ Revert \/ RecordRestore \/ RunDelete

Ends == \E rebuilt \in BOOLEAN : End(rebuilt)

Next == \/ \E s \in Sweep : Acquire(s) \/ Step(s) \/ Renew(s) \/ Kill(s)
        \/ Tick \/ Outage \/ Recovery
        \/ Begin \/ Ends \/ Console
        \/ CreateSnapshot \/ RestoreSnapshot \/ DeleteSnapshot \/ Tasks
        \/ \E retry \in BOOLEAN : FailSnapshot(retry)

\* The beat starts a sweep every RANGE_DRIFT_SECONDS, time passes, and every task runs; a sweep
\* finds the key free between two others.
Fairness == /\ WF_vars(Tick) /\ WF_vars(Recovery) /\ WF_vars(Ends)
            /\ WF_vars(TakeSnapshot) /\ WF_vars(RecordSnapshot) /\ WF_vars(RunDelete)
            /\ WF_vars(Revert \/ RecordRestore)
            /\ WF_vars(\E s \in Sweep : Acquire(s))
            /\ \A s \in Sweep : WF_vars(Step(s)) /\ WF_vars(Renew(s))

Spec == Init /\ [][Next]_vars

FairSpec == Spec /\ Fairness

-----------------------------------------------------------------------------
(* What makes it correct.                                                  *)

\* Two sweeps work at once only if one of them made all but the last renewal of a time to live
\* without reaching Redis (redis_lock.py: a token per holder, compared by renew and release).
NeverOverlap ==
    \A s, o \in Sweep : s # o /\ Working(s) /\ Working(o) =>
        missed[s] >= Beats - 1 \/ missed[o] >= Beats - 1

Saves(s) == pc[s] = "settled" /\ pc'[s] = "ending"

\* What a sweep enters in the append-only record is what somebody changed: no operation,
\* snapshot or restore that ran while the range was read shows in it. What the code leaves open:
\* a row that changes between the transaction's look and its write, a range rebuilt between the
\* load of its record and the read, and a snapshot whose row is deleted and whose copy is not yet,
\* or that failed and is taken again.
RecordedDriftIsReal ==
    [][\A s \in Sweep : Saves(s) /\ entry' # entry /\ ~stamped[s] =>
        /\ "vm" \in entry' => seen[s].changed \/ output[s] # seen[s].build
        /\ "snapshot_unexpected" \in entry' => "delete" \in tasks \/ Spent("callFails")
        /\ "snapshot_missing" \notin entry']_vars

\* A change made from the console will be shown on the range's page, or the range is rebuilt:
\* the key of a killed sweep expires, and a sweep that was skipped or could not read comes again.
DriftIsShown == changed ~> (check \notin {Unread, None} /\ "vm" \in check) \/ ~changed
=============================================================================
