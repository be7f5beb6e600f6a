---------------------------- MODULE LabSessions ----------------------------
(***************************************************************************)
(* Students' lab sessions (api/app/lab_sessions/service.py): the launch,   *)
(* the steps the sweep and the page polls take, the student's reset and    *)
(* end, the tasks written to the session and sent after the commit, and    *)
(* the worker tasks they drive, on ranges nobody else touches.             *)
(*                                                                         *)
(* An operation holds its session's row from the claim to the commit, so   *)
(* it is one action; sending its tasks is another, of the process that     *)
(* still holds the session's lease. Time is what may have passed: a timer  *)
(* is over when an action says so.                                         *)
(***************************************************************************)
EXTENDS Naturals, Sequences, FiniteSets

CONSTANTS Labs,         \* bound: sessions 1 .. Labs, of different students, in order of launch
          TenantOf,     \* the sessions' tenants, who share one pool of networks
          MaxSessions,  \* LAB_MAX_SESSIONS_PER_TENANT
          MaxNetworks,  \* LAB_MAX_NETWORKS_PER_TENANT
          Rebuilds,     \* bound: ranges of one session
          Modes,        \* how labs may be reset: "snapshot", "rebuild"
          PortGroup,    \* the pool of isolated networks; a lab needs one
          Process,      \* API processes
          None,
          MaxTries,     \* attempts at a reset point (2) and at a teardown (LAB_TEARDOWN_ATTEMPTS)
          Budget,       \* bound: how often each rare event may happen
          MaxRare       \* bound: how many kinds of them may happen in one behaviour

Session == 1 .. Labs
Gen     == 1 .. Rebuilds

Rare == {"death", "slow", "refused", "timeout", "window", "late", "operator", "crash", "buildFails",
         "undoFails", "discardFails", "destroyFails", "partial", "snapFails", "reconcileFails"}

ASSUME LabsAssumption ==
    /\ MaxSessions \in Nat /\ MaxNetworks \in Nat
    /\ Labs \in Nat /\ Rebuilds \in Nat \ {0} /\ MaxTries \in Nat /\ MaxRare \in Nat
    /\ Modes \subseteq {"snapshot", "rebuild"}
    /\ None \notin Process \cup PortGroup \cup (Session \X BOOLEAN)
    /\ Budget \in [Rare -> Nat]

VARIABLES
    lab,        \* lab_sessions (see Lab)
    mode,       \* the lab profile's reset mode
    net,        \* lab_network_leases: the session's port group
    home,       \* the port group the session's machines were built on
    snap,       \* its baseline snapshot's state
    rstate,     \* the states of the session's ranges, by generation
    vms,        \* the machines on the hypervisor, by range
    lease,      \* lease_holder
    lapsed,     \* lease_until has passed
    flush,      \* the session each process committed for and has yet to send the tasks of
    queue,      \* messages of the broker
    running,    \* builds a worker is at
    budget

vars == <<lab, mode, net, home, snap, rstate, vms, lease, lapsed, flush, queue, running, budget>>
outside == <<queue, running, vms>>
leases  == <<lease, lapsed, flush>>

Live     == {"queued", "provisioning", "baselining", "ready", "active", "resetting"}
Ending   == {"completed", "expired", "cleaning", "reconcile_required", "reconciling"}
Terminal == {"destroyed", "failed"}
Runs     == (Live \cup Ending) \ {"queued"}             \* RUNS_RESOURCES

Task == [task : {"provision_range", "destroy_range", "snapshot_range", "restore_snapshot", "reconcile_lab_vms"},
         lab : Session, ids : SUBSET Gen]

\* range: range_id's generation (0: none); tries: step_attempts; grace: LAB_RECONCILE_GRACE is over.
Lab == [state : Live \cup Ending \cup Terminal \cup {"none"}, range : 0 .. Rebuilds,
        pending : Seq(Task), tries : 0 .. MaxTries, grace : BOOLEAN]

TypeOK ==
    /\ lab \in [Session -> Lab]
    /\ mode \in [Session -> Modes]
    /\ net \in [Session -> PortGroup \cup {None}] /\ home \in [Session -> PortGroup \cup {None}]
    /\ snap \in [Session -> {"none", "creating", "ready", "failed", "restoring"}]
    /\ rstate \in [Session -> [Gen -> {"none", "created", "provisioning", "ready", "destroying", "destroyed", "failed"}]]
    /\ vms \in [Session -> [Gen -> SUBSET {"building", "recorded", "left"}]]
    /\ lease \in [Session -> Process \cup {None}] /\ lapsed \in [Session -> BOOLEAN]
    /\ flush \in [Process -> (Session \X BOOLEAN) \cup {None}]
    /\ queue \subseteq Task /\ running \subseteq Task
    /\ budget \in [Rare -> Nat]

Init ==
    /\ lab = [s \in Session |-> [state |-> "none", range |-> 0, pending |-> << >>, tries |-> 0, grace |-> FALSE]]
    /\ mode \in [Session -> Modes]
    /\ net = [s \in Session |-> None] /\ home = [s \in Session |-> None]
    /\ snap = [s \in Session |-> "none"]
    /\ rstate = [s \in Session |-> [i \in Gen |-> "none"]]
    /\ vms = [s \in Session |-> [i \in Gen |-> {}]]
    /\ lease = [s \in Session |-> None] /\ lapsed = [s \in Session |-> FALSE]
    /\ flush = [p \in Process |-> None]
    /\ queue = {} /\ running = {}
    /\ budget = Budget

Spent(f) == budget[f] < Budget[f]

Spend(f) ==
    /\ budget[f] > 0
    /\ Cardinality({g \in Rare : Spent(g)} \cup {f}) <= MaxRare
    /\ budget' = [budget EXCEPT ![f] = @ - 1]

SpendIf(happens, f) == IF happens THEN Spend(f) ELSE UNCHANGED budget

-----------------------------------------------------------------------------
(* The lease and the outbox.                                               *)

State(s) == lab[s].state
Current(s) == lab[s].range
Idle(s) == lab[s].pending = << >>

\* The range the session is about; no range_id reads as "none".
RangeOf(s) == IF Current(s) = 0 THEN "none" ELSE rstate[s][Current(s)]

Ask(name, s, ids) == [task |-> name, lab |-> s, ids |-> ids]
Own(name, s) == Ask(name, s, {Current(s)})

\* run_locked: claim, the operation and the commit, with its tasks still to send.
Under(p, s) ==
    /\ flush[p] = None /\ (lease[s] = None \/ lapsed[s])
    /\ lease' = [lease EXCEPT ![s] = p] /\ lapsed' = [lapsed EXCEPT ![s] = FALSE]
    /\ flush' = [flush EXCEPT ![p] = <<s, FALSE>>]

Save(s, w) == lab' = [lab EXCEPT ![s] = w]

\* _set_state, with the tasks the operation asks for.
SetState(s, to, tasks) ==
    Save(s, [lab[s] EXCEPT !.state = to, !.pending = @ \o tasks, !.grace = FALSE,
                           !.tries = IF to = State(s) THEN @ ELSE 0])

SetRange(s, to) == rstate' = [rstate EXCEPT ![s][Current(s)] = to]

\* The session's tasks are being sent, by the process that holds it.
Flushing(s) == \E b \in BOOLEAN : lease[s] # None /\ flush[lease[s]] = <<s, b>>

\* A lease lapses under a process that died, or is too slow.
LeaseLapses(s) ==
    /\ lease[s] # None /\ ~lapsed[s]
    /\ SpendIf(Flushing(s), "slow")
    /\ lapsed' = [lapsed EXCEPT ![s] = TRUE]
    /\ UNCHANGED <<lab, mode, net, home, snap, rstate, outside, lease, flush>>

\* advance finds tasks a refusal or a dead process left: it sends them, and does nothing else.
Resend(p, s) ==
    /\ ~Idle(s)
    /\ flush[p] = None /\ (lease[s] = None \/ lapsed[s])
    /\ lease' = [lease EXCEPT ![s] = p] /\ lapsed' = [lapsed EXCEPT ![s] = FALSE]
    /\ flush' = [flush EXCEPT ![p] = <<s, TRUE>>]
    /\ UNCHANGED <<lab, mode, net, home, snap, rstate, outside, budget>>

Sent(tasks) == queue' = queue \cup {tasks[k] : k \in DOMAIN tasks}

\* Tasks left behind that went out at last: the step's clock starts again.
Restarted(resent, sent, grace) == grace /\ ~(resent /\ sent > 0)

\* Faulty: what the broker refused is forgotten.
KeptNone(tasks, k) == << >>

\* What is left of the tasks once the first k went out.
Kept(tasks, k) == SubSeq(tasks, k + 1, Len(tasks))

\* flush_outbox: the tasks go out in order up to the first the broker refuses, and the lease is
\* released; nothing, if another process has taken it.
FlushOutbox(p, k) ==
    /\ flush[p] # None
    /\ LET s == flush[p][1] IN LET todo == lab[s].pending IN
        IF lease[s] # p
          THEN k = 0 /\ UNCHANGED <<lab, queue, lease, lapsed, budget>>
          ELSE /\ k \in 0 .. Len(todo)
               /\ SpendIf(k < Len(todo), "refused")
               /\ Sent(SubSeq(todo, 1, k))
               /\ Save(s, [lab[s] EXCEPT !.pending = Kept(todo, k),
                                         !.grace = Restarted(flush[p][2], k, @)])
               /\ lease' = [lease EXCEPT ![s] = None] /\ lapsed' = [lapsed EXCEPT ![s] = FALSE]
    /\ flush' = [flush EXCEPT ![p] = None]
    /\ UNCHANGED <<mode, net, home, snap, rstate, running, vms>>

\* The process dies: before it sent anything, or before it committed that it had sent some.
Dies(p, k) ==
    /\ flush[p] # None
    /\ Spend("death")
    /\ LET s == flush[p][1]
       IN  IF lease[s] # p THEN k = 0 /\ UNCHANGED queue
           ELSE k \in 0 .. Len(lab[s].pending) /\ Sent(SubSeq(lab[s].pending, 1, k))
    /\ flush' = [flush EXCEPT ![p] = None]
    /\ UNCHANGED <<lab, mode, net, home, snap, rstate, running, vms, lease, lapsed>>

-----------------------------------------------------------------------------
(* Starting.                                                               *)

\* Faulty: a lab that has ended needs no network.
FreeGroupsOfLive == PortGroup \ {net[t] : t \in {u \in Session : State(u) \in Live}}

FreeGroups == PortGroup \ {net[t] : t \in Session}

\* _quota_problem and _lease_networks: the tenant's quota, its older labs of the queue first, its
\* share of the networks; and a free one, of all there are.
HasRoom(s) ==
    LET Others == {t \in Session \ {s} : TenantOf[t] = TenantOf[s]}
    IN  /\ Cardinality({t \in Others : State(t) \in Runs}) < MaxSessions
        /\ \A t \in Others : t < s => State(t) # "queued"
        /\ Cardinality({t \in Others : net[t] # None}) < MaxNetworks
        /\ FreeGroups # {}

\* _start: a new range on the given network.
Build(s, g, before) ==
    /\ Current(s) < Rebuilds
    /\ Save(s, [lab[s] EXCEPT !.state = "provisioning", !.range = @ + 1, !.tries = 0, !.grace = FALSE,
                              !.pending = @ \o before \o <<Ask("provision_range", s, {Current(s) + 1})>>])
    /\ rstate' = [rstate EXCEPT ![s][Current(s) + 1] = "provisioning"]
    /\ net' = [net EXCEPT ![s] = g] /\ home' = [home EXCEPT ![s] = g]

StartOrWait(s) ==
    \/ HasRoom(s) /\ UNCHANGED budget /\ \E g \in FreeGroups : Build(s, g, << >>)
    \/ /\ SpendIf(HasRoom(s), "window")
       /\ SetState(s, "queued", << >>) /\ UNCHANGED <<net, home, rstate>>

Launch(p, s) ==
    /\ State(s) = "none" /\ \A t \in Session : t < s => State(t) # "none"
    /\ Under(p, s)
    /\ StartOrWait(s)
    /\ UNCHANGED <<mode, snap, outside>>

AdvanceQueued(p, s) ==
    /\ State(s) = "queued" /\ Idle(s) /\ HasRoom(s)
    /\ Under(p, s)
    /\ \E g \in FreeGroups : Build(s, g, << >>)
    /\ UNCHANGED <<mode, snap, outside, budget>>

-----------------------------------------------------------------------------
(* Ending.                                                                 *)

Releasing(s) == net' = [net EXCEPT ![s] = None]

\* _fail: the range goes, or what is left of the lab when it has none.
Fail(s) ==
    IF RangeOf(s) \in {"none", "destroyed"}
      THEN SetState(s, "failed", << >>) /\ Releasing(s) /\ UNCHANGED rstate
      ELSE /\ SetState(s, "cleaning", IF RangeOf(s) = "destroying" THEN << >> ELSE <<Own("destroy_range", s)>>)
           /\ SetRange(s, "destroying") /\ UNCHANGED net

\* end.
End(s, to) ==
    IF Current(s) = 0
      THEN SetState(s, "destroyed", << >>) /\ Releasing(s) /\ UNCHANGED rstate
      ELSE /\ UNCHANGED net
           /\ IF RangeOf(s) \in {"destroyed", "destroying"}
                THEN SetState(s, to, << >>) /\ UNCHANGED rstate
                ELSE SetState(s, to, <<Own("destroy_range", s)>>) /\ SetRange(s, "destroying")

\* The student, an instructor, or the lab's lifetime.
EndLab(p, s, to) ==
    /\ State(s) \in Live
    /\ to = "expired" => State(s) \in {"ready", "active"} /\ Idle(s)
    /\ Under(p, s)
    /\ End(s, to)
    /\ UNCHANGED <<mode, home, snap, outside, budget>>

QueueTimeout(p, s) ==
    /\ State(s) = "queued" /\ Idle(s) /\ Spend("timeout")
    /\ Under(p, s)
    /\ End(s, "completed")
    /\ UNCHANGED <<mode, home, snap, outside>>

-----------------------------------------------------------------------------
(* One step of whatever the session is waiting on: advance.                *)

Times(late) == SpendIf(late, "timeout")

AdvanceProvisioning(p, s, late) ==
    /\ State(s) = "provisioning" /\ Idle(s)
    /\ Under(p, s)
    /\ Times(late)
    /\ CASE RangeOf(s) = "failed" -> ~late /\ Fail(s) /\ UNCHANGED snap
         [] RangeOf(s) = "created" -> /\ ~late /\ SetState(s, "provisioning", <<Own("provision_range", s)>>)
                                      /\ SetRange(s, "provisioning") /\ UNCHANGED <<net, snap>>
         [] OTHER ->
              \/ late /\ Fail(s) /\ UNCHANGED snap
              \/ /\ ~late /\ RangeOf(s) = "ready" /\ UNCHANGED <<net, rstate>>
                 /\ IF mode[s] = "snapshot"
                      THEN SetState(s, "baselining", <<Own("snapshot_range", s)>>) /\ snap' = [snap EXCEPT ![s] = "creating"]
                      ELSE SetState(s, "ready", << >>) /\ UNCHANGED snap
    /\ UNCHANGED <<mode, home, outside>>

AdvanceBaselining(p, s, late) ==
    /\ State(s) = "baselining" /\ Idle(s)
    /\ Under(p, s)
    /\ Times(late)
    /\ \/ ~late /\ snap[s] = "ready" /\ SetState(s, "ready", << >>) /\ UNCHANGED <<net, rstate, snap>>
       \/ ~late /\ snap[s] # "ready" /\ RangeOf(s) = "failed" /\ Fail(s) /\ UNCHANGED snap
       \/ /\ snap[s] # "ready" /\ RangeOf(s) # "failed" /\ (snap[s] = "failed") # late
          /\ IF lab[s].tries >= MaxTries
               THEN Fail(s) /\ UNCHANGED snap
               ELSE /\ Save(s, [lab[s] EXCEPT !.tries = @ + 1, !.pending = @ \o <<Own("snapshot_range", s)>>])
                    /\ snap' = [snap EXCEPT ![s] = "creating"] /\ UNCHANGED <<net, rstate>>
    /\ UNCHANGED <<mode, home, outside>>

AdvanceResetting(p, s, late) ==
    /\ State(s) = "resetting" /\ mode[s] = "snapshot" /\ Idle(s)
    /\ Under(p, s)
    /\ Times(late)
    /\ \/ (RangeOf(s) = "failed") # late /\ (late => snap[s] # "ready") /\ Fail(s)
       \/ ~late /\ RangeOf(s) # "failed" /\ snap[s] = "ready" /\ SetState(s, "active", << >>) /\ UNCHANGED <<net, rstate>>
    /\ UNCHANGED <<mode, home, snap, outside>>

\* Faulty: the new range does not wait for the old one's end.
GoneAnyway(s) == RangeOf(s) \in {"destroying", "destroyed"}

\* The old range must be gone before a new one is built on the same networks.
Gone(s) == RangeOf(s) = "destroyed"

AdvanceRebuild(p, s, late) ==
    /\ State(s) = "resetting" /\ mode[s] = "rebuild" /\ Idle(s)
    /\ Under(p, s)
    /\ Times(late)
    /\ \/ ~late /\ Gone(s) /\ Build(s, net[s], <<Own("reconcile_lab_vms", s)>>)
       \/ RangeOf(s) # "destroyed" /\ (RangeOf(s) = "failed") # late /\ Fail(s) /\ UNCHANGED home
    /\ UNCHANGED <<mode, snap, outside>>

\* Faulty: the ranges are counted from 0.
AllRangesFromZero(s) == 0 .. Current(s)

\* The ranges whose leftovers are looked for: the rebuilt-away ones too.
AllRanges(s) == 1 .. Current(s)

\* Faulty: the networks go back with the range.
ReleaseDueAtOnce(s) == State(s) \in Ending

\* The networks go back after a grace for the leftovers to be found.
ReleaseDue(s) == State(s) = "reconciling" /\ lab[s].grace

AdvanceDestroyed(p, s) ==
    /\ State(s) \in Ending /\ Idle(s) /\ RangeOf(s) = "destroyed"
    /\ State(s) = "reconciling" => ReleaseDue(s)
    /\ Under(p, s)
    /\ IF ReleaseDue(s)
         THEN SetState(s, "destroyed", << >>) /\ Releasing(s)
         ELSE SetState(s, "reconciling", <<Ask("reconcile_lab_vms", s, AllRanges(s))>>) /\ UNCHANGED net
    /\ UNCHANGED <<mode, home, snap, rstate, outside, budget>>

\* The teardown failed, or is late: leftovers are removed and it is tried again; after the
\* last attempt the networks stay reserved.
AdvanceTeardown(p, s, late) ==
    /\ State(s) \in Ending /\ Idle(s)
    /\ RangeOf(s) = IF late THEN "destroying" ELSE "failed"
    /\ Under(p, s)
    /\ Times(late)
    /\ IF lab[s].tries >= MaxTries
         THEN Save(s, [lab[s] EXCEPT !.state = "failed"]) /\ UNCHANGED rstate
         ELSE /\ Save(s, [lab[s] EXCEPT !.state = "reconcile_required", !.tries = @ + 1,
                            !.pending = @ \o <<Own("reconcile_lab_vms", s), Own("destroy_range", s)>>])
              /\ SetRange(s, "destroying")
    /\ UNCHANGED <<mode, net, home, snap, outside>>

AdvanceEnded(p, s) ==
    /\ State(s) \in {"completed", "expired"} /\ Idle(s) /\ RangeOf(s) \notin {"destroyed", "failed"}
    /\ Under(p, s)
    /\ SetState(s, "cleaning", << >>)
    /\ UNCHANGED <<mode, net, home, snap, rstate, outside, budget>>

\* LAB_RECONCILE_GRACE passes: usually after the worker has looked for leftovers, and it is as
\* long as the lease under which the task is sent.
GracePasses(s) ==
    /\ State(s) = "reconciling" /\ ~lab[s].grace
    /\ SpendIf(Flushing(s) \/ \E m \in queue : m.task = "reconcile_lab_vms" /\ m.lab = s, "late")
    /\ Save(s, [lab[s] EXCEPT !.grace = TRUE])
    /\ UNCHANGED <<mode, net, home, snap, rstate, outside, leases>>

-----------------------------------------------------------------------------
(* The student.                                                            *)

Touch(p, s) ==
    /\ State(s) = "ready"
    /\ Under(p, s)
    /\ SetState(s, "active", << >>)
    /\ UNCHANGED <<mode, net, home, snap, rstate, outside, budget>>

\* reset, outside a maintenance window.
Reset(p, s) ==
    /\ State(s) \in {"ready", "active"} /\ Current(s) < Rebuilds
    /\ Under(p, s)
    /\ IF mode[s] = "snapshot"
         THEN /\ snap[s] = "ready" /\ snap' = [snap EXCEPT ![s] = "restoring"]
              /\ SetState(s, "resetting", <<Own("restore_snapshot", s)>>) /\ UNCHANGED rstate
         ELSE SetState(s, "resetting", <<Own("destroy_range", s)>>) /\ SetRange(s, "destroying") /\ UNCHANGED snap
    /\ UNCHANGED <<mode, net, home, outside, budget>>

\* reconcile_all: an operator has the leftovers of finished labs looked for again.
ReconcileAll ==
    /\ Spend("operator")
    /\ queue' = queue \cup {Ask("reconcile_lab_vms", s, AllRanges(s)) :
                              s \in {t \in Session : State(t) \in Terminal /\ Current(t) # 0}}
    /\ UNCHANGED <<lab, mode, net, home, snap, rstate, running, vms, leases>>

-----------------------------------------------------------------------------
(* The worker: tasks.py, fencing.py, lab_tasks.py.                         *)

The(m) == CHOOSE i \in m.ids : TRUE
StateOf(m) == rstate[m.lab][The(m)]
Machines(m, to) == vms' = [vms EXCEPT ![m.lab][The(m)] = to]
MachinesOf(m) == vms[m.lab][The(m)]
Recorded(m, to) == rstate' = [rstate EXCEPT ![m.lab][The(m)] = to]

\* The range's lease: one task of it at a time.
Alone(m) == \A o \in running : o.lab # m.lab \/ o.ids # m.ids

Take(m) == queue' = queue \ {m}

\* Fenced: a task whose range is not in the state its sender put it in does nothing.
Skipped(m) ==
    /\ m \in queue /\ Alone(m)
    /\ \/ m.task = "provision_range" /\ StateOf(m) # "provisioning"
       \/ m.task = "destroy_range" /\ StateOf(m) # "destroying"
    /\ Take(m)
    /\ UNCHANGED <<lab, mode, net, home, snap, rstate, running, vms, leases, budget>>

\* A window opened since: the range is created again, for its session to build later.
HeldBack(m) ==
    /\ m \in queue /\ Alone(m) /\ m.task = "provision_range" /\ StateOf(m) = "provisioning"
    /\ Spend("window")
    /\ Take(m) /\ Recorded(m, "created")
    /\ UNCHANGED <<lab, mode, net, home, snap, running, vms, leases>>

BuildStarts(m) ==
    /\ m \in queue /\ Alone(m) /\ m.task = "provision_range" /\ StateOf(m) = "provisioning"
    /\ Take(m) /\ running' = running \cup {m}
    /\ Machines(m, MachinesOf(m) \cup {"building"})
    /\ UNCHANGED <<lab, mode, net, home, snap, rstate, leases, budget>>

\* Recorded, if the range still waits for it; otherwise discarded, and recorded when that fails.
BuildEnds(m, discarded) ==
    /\ m \in running
    /\ StateOf(m) = "provisioning" => ~discarded
    /\ SpendIf(StateOf(m) # "provisioning" /\ ~discarded, "discardFails")
    /\ running' = running \ {m}
    /\ Machines(m, (MachinesOf(m) \ {"building"}) \cup (IF discarded THEN {} ELSE {"recorded"}))
    /\ Recorded(m, IF StateOf(m) = "provisioning" THEN "ready" ELSE StateOf(m))
    /\ UNCHANGED <<lab, mode, net, home, snap, queue, leases>>

\* It failed for good: undone; or with machines nothing records.
BuildFails(m, undone) ==
    /\ m \in running
    /\ IF undone THEN Spend("buildFails") ELSE Spend("undoFails")
    /\ running' = running \ {m}
    /\ Machines(m, (MachinesOf(m) \ {"building"}) \cup (IF undone THEN {} ELSE {"left"}))
    /\ Recorded(m, IF StateOf(m) = "provisioning" THEN "failed" ELSE StateOf(m))
    /\ UNCHANGED <<lab, mode, net, home, snap, queue, leases>>

\* The worker dies during a build, whose task is delivered again.
Crash(m) ==
    /\ m \in running
    /\ Spend("crash")
    /\ running' = running \ {m} /\ queue' = queue \cup {m}
    /\ Machines(m, (MachinesOf(m) \ {"building"}) \cup {"left"})
    /\ UNCHANGED <<lab, mode, net, home, snap, rstate, leases>>

\* The recorded machines are destroyed; one that stays does not fail the task (partial).
Destroys(m, partial) ==
    /\ m \in queue /\ Alone(m) /\ m.task = "destroy_range" /\ StateOf(m) = "destroying"
    /\ partial => "recorded" \in MachinesOf(m)
    /\ SpendIf(partial, "partial")
    /\ Take(m)
    /\ Machines(m, (MachinesOf(m) \ {"recorded"}) \cup (IF partial THEN {"left"} ELSE {}))
    /\ Recorded(m, "destroyed")
    /\ UNCHANGED <<lab, mode, net, home, snap, running, leases>>

DestroyFails(m) ==
    /\ m \in queue /\ Alone(m) /\ m.task = "destroy_range" /\ StateOf(m) = "destroying"
    /\ Spend("destroyFails")
    /\ Take(m) /\ Recorded(m, "failed")
    /\ UNCHANGED <<lab, mode, net, home, snap, running, vms, leases>>

\* snapshot_range (RangeSnapshots has its steps).
Snapshots(m, ok) ==
    /\ m \in queue /\ m.task = "snapshot_range"
    /\ SpendIf(~ok, "snapFails")
    /\ Take(m)
    /\ snap' = [snap EXCEPT ![m.lab] = IF @ \notin {"creating", "failed"} THEN @ ELSE IF ok THEN "ready" ELSE "failed"]
    /\ UNCHANGED <<lab, mode, net, home, rstate, running, vms, leases>>

\* restore_snapshot: a failed revert fails the range.
Restores(m, ok) ==
    /\ m \in queue /\ Alone(m) /\ m.task = "restore_snapshot"
    /\ SpendIf(~ok, "snapFails")
    /\ Take(m)
    /\ snap' = [snap EXCEPT ![m.lab] = IF @ = "restoring" THEN "ready" ELSE @]
    /\ Recorded(m, IF ok \/ StateOf(m) \notin {"ready", "failed"} THEN StateOf(m) ELSE "failed")
    /\ UNCHANGED <<lab, mode, net, home, running, vms, leases>>

\* Every machine that carries the id of one of the ranges goes.
Reconciles(m) ==
    /\ m \in queue /\ m.task = "reconcile_lab_vms"
    /\ Take(m)
    /\ vms' = [vms EXCEPT ![m.lab] = [i \in Gen |-> IF i \in m.ids THEN @[i] \cap {"building"} ELSE @[i]]]
    /\ UNCHANGED <<lab, mode, net, home, snap, rstate, running, leases, budget>>

\* No usable connection, or a hypervisor that fails every attempt.
ReconcileFails(m) ==
    /\ m \in queue /\ m.task = "reconcile_lab_vms"
    /\ Spend("reconcileFails")
    /\ Take(m)
    /\ UNCHANGED <<lab, mode, net, home, snap, rstate, running, vms, leases>>

-----------------------------------------------------------------------------
Steps(s) == \E p \in Process :
    \/ Resend(p, s) \/ AdvanceQueued(p, s) \/ AdvanceDestroyed(p, s) \/ AdvanceEnded(p, s)
    \/ EndLab(p, s, "expired")
    \/ AdvanceProvisioning(p, s, FALSE) \/ AdvanceBaselining(p, s, FALSE) \/ AdvanceResetting(p, s, FALSE)
    \/ AdvanceRebuild(p, s, FALSE) \/ AdvanceTeardown(p, s, FALSE)

Timeouts(s) == \E p \in Process :
    \/ QueueTimeout(p, s) \/ AdvanceProvisioning(p, s, TRUE) \/ AdvanceBaselining(p, s, TRUE)
    \/ AdvanceResetting(p, s, TRUE) \/ AdvanceRebuild(p, s, TRUE) \/ AdvanceTeardown(p, s, TRUE)

Requests(s) == \E p \in Process : Launch(p, s) \/ Touch(p, s) \/ Reset(p, s) \/ EndLab(p, s, "completed")

Flushed(p) == \E k \in 0 .. 4 : FlushOutbox(p, k)

Works(m) ==
    \/ Skipped(m) \/ HeldBack(m) \/ BuildStarts(m) \/ Reconciles(m) \/ ReconcileFails(m) \/ DestroyFails(m)
    \/ \E ok \in BOOLEAN : Destroys(m, ok) \/ Snapshots(m, ok) \/ Restores(m, ok)

Finishes(m) == \E ok \in BOOLEAN : BuildEnds(m, ok) \/ BuildFails(m, ok)

Next ==
    \/ \E s \in Session : Steps(s) \/ Timeouts(s) \/ Requests(s) \/ LeaseLapses(s) \/ GracePasses(s)
    \/ \E p \in Process : Flushed(p) \/ \E k \in 0 .. 4 : Dies(p, k)
    \/ \E m \in queue : Works(m)
    \/ \E m \in running : Finishes(m) \/ Crash(m)
    \/ ReconcileAll

Spec == Init /\ [][Next]_vars

\* The sweep comes back every minute, a lab's lifetime runs out and stays so, processes
\* answer, leases lapse, the worker works.
Fairness ==
    /\ \A s \in Session : /\ SF_vars(Steps(s)) /\ SF_vars(\E p \in Process : EndLab(p, s, "expired"))
                          /\ WF_vars(LeaseLapses(s)) /\ WF_vars(GracePasses(s))
    /\ \A p \in Process : WF_vars(Flushed(p))
    /\ \A s \in Session, i \in Gen :
        /\ WF_vars(\E m \in queue : m.lab = s /\ i \in m.ids /\ Works(m))
        /\ WF_vars(\E m \in running : m.lab = s /\ i \in m.ids /\ Finishes(m))

FairSpec == Spec /\ Fairness

-----------------------------------------------------------------------------
(* What makes it correct.                                                  *)

\* "Networks go back to the pool only once the VMs are gone and leftovers were looked for, so
\* no other student's lab ever shares a network with this one's machines" (_advance_cleaning).
NetworksAreOurs ==
    \A s \in Session : (\E i \in Gen : vms[s][i] # {}) => net[s] = home[s]

\* It is so as long as the worker has looked for the leftovers when the grace is over.
NetworksKept == NetworksAreOurs \/ Spent("late") \/ Spent("reconcileFails")

\* What a range waits for is on its way: the task is on the session, with the broker or at
\* work ("after commit, never lost").
TasksAreNeverLost ==
    \A s \in Session, i \in Gen :
        LET Has(name) == \E m \in queue \cup running \cup {lab[s].pending[k] : k \in DOMAIN lab[s].pending} :
                            m = Ask(name, s, {i})
        IN  /\ rstate[s][i] = "provisioning" => Has("provision_range")
            /\ rstate[s][i] = "destroying" => Has("destroy_range")

\* A rebuilt lab's machines never stand beside those its old range recorded, unless a destroy
\* left some.
RebuiltOnEmpty ==
    \A s \in Session, i, j \in Gen :
        i < j /\ vms[s][j] # {} => vms[s][i] \cap {"recorded", "building"} = {}

\* No lab's machines stand on a network another lab's machines stand on, whichever tenants' they
\* are and however the network came from one to the other, as long as the worker has looked for
\* the leftovers when the grace is over.
LabsApart ==
    \/ \A s, t \in Session :
           s # t /\ (\E i \in Gen : vms[s][i] # {}) /\ (\E i \in Gen : vms[t][i] # {}) => home[s] # home[t]
    \/ Spent("late") \/ Spent("reconcileFails")

\* Every lab that was asked for comes to its end, whoever dies or fails on the way; with its
\* network in the pool, unless it could not be shut down. Only that lab's network others may wait
\* for until their time in the queue is over.
EveryLabEnds ==
    \A s \in Session :
        State(s) # "none" ~>
            \/ State(s) \in Terminal /\ (State(s) = "destroyed" => net[s] = None)
            \/ State(s) = "queued" /\ \E t \in Session : State(t) = "failed" /\ net[t] # None
=============================================================================
