------------------------- MODULE NetworkReservations -------------------------
(***************************************************************************)
(* The values that ranges share: VLANs on the range switch, edge firewalls' *)
(* addresses on the uplink network, noise agents' management addresses.    *)
(* The table network_reservations says who holds which                     *)
(* (api/app/network_inventory, worker/worker/range_alloc.py); the switch   *)
(* and the VMs say who uses which. This module relates the two over builds *)
(* of several ranges that run at once.                                     *)
(*                                                                         *)
(* One task at a time works on a range: that is RangeOperations' business  *)
(* (CallIsCovered). A row of the table is identified by its value, which   *)
(* the unique constraint on (domain, kind, value) allows.                  *)
(***************************************************************************)
EXTENDS Naturals, FiniteSets

CONSTANTS Ranges,       \* ranges
          Vlans,        \* VSPHERE_VLAN_POOL, less VSPHERE_RESERVED_VLANS
          Uplinks,      \* VSPHERE_RANGE_UPLINK_POOL
          Mgmt,         \* the noise management network's pool
          Need,         \* how many VLANs each range's template has, at most
          Free,         \* no row
          External,     \* an external row: a VLAN used outside TrueNorth
          Foreign,      \* the owner of a port group that is not TrueNorth's
          MaxReads,     \* bound: live reads of the switch
          Budget,       \* bound: how often each rare event may happen
          MaxRare       \* bound: how many kinds of them may happen in one behaviour

Rare == {"crash", "abandon", "writeOff", "partial", "undoFails", "txFails", "foreign", "edited"}

ASSUME NetworkAssumption ==
    /\ Vlans \subseteq Nat /\ Uplinks \subseteq Nat /\ Mgmt \subseteq Nat
    /\ IsFiniteSet(Vlans) /\ IsFiniteSet(Uplinks) /\ IsFiniteSet(Mgmt)
    /\ Need \in [Ranges -> Nat]
    /\ Free \notin Ranges /\ External \notin Ranges /\ Foreign \notin Ranges /\ Free # External
    /\ MaxReads \in Nat /\ MaxRare \in Nat
    /\ Budget \in [Rare -> Nat]

VARIABLES
    rstate,     \* ranges.state
    vlan,       \* network_reservations, kind vlan: the holder of each VLAN
    seen,       \* an external row's updated_at: the start of the read that saw it
    uplink,     \* kind uplink_ip: the holder of each address
    mgmt,       \* kind noise_mgmt_ip: the holder of each address
    planned,    \* VLANs of the networks recorded in provisioner_output
    vms,        \* provisioner_output records VMs
    pg,         \* port groups on the switch: <<VLAN, owner>>
    wire,       \* addresses the range's VMs use: <<kind, value>>
    lost,       \* VMs of the range exist that it does not record
    task,       \* the task working on the range (see Work)
    clock,      \* live reads started so far
    known,      \* VLANs recorded external whose foreign port group has been there ever since
    shaky,      \* those recorded when a read that started later had already read the switch
    dropped,    \* port groups whose VLAN a collision, or a build of an edited template, released
                \* while they were still there
    budget

table == <<vlan, seen, uplink, mgmt>>
world == <<pg, wire, lost>>
ghost == <<known, shaky, dropped>>
vars  == <<rstate, table, planned, vms, world, task, clock, ghost, budget>>

Owner == Ranges \cup {Foreign}

PC == {"idle", "stamped", "read", "reserved", "checking", "creating", "collided",
       "result", "failed", "torndown"}

\* A build or destroy task: what its live read found (fv: VLANs used outside TrueNorth, mv:
\* VLANs on TrueNorth's own port groups) and when it started (at); the VLANs and the uplink
\* address it was allocated; what the step's read before creating saw (uses), the port
\* groups it made and has yet to make; after a collision the VLANs to release and to record.
Work == [pc : PC, fv : SUBSET Vlans, mv : SUBSET Vlans, at : 0 .. MaxReads,
         alloc : SUBSET Vlans, up : Uplinks \cup {Free}, uses : SUBSET (Vlans \X Owner),
         made : SUBSET Vlans, todo : SUBSET Vlans, release : SUBSET Vlans, hit : SUBSET Vlans]

NoWork == [pc |-> "idle", fv |-> {}, mv |-> {}, at |-> 0, alloc |-> {}, up |-> Free, uses |-> {},
           made |-> {}, todo |-> {}, release |-> {}, hit |-> {}]

State == {"created", "provisioning", "ready", "destroying", "destroyed", "failed"}

TypeOK ==
    /\ rstate \in [Ranges -> State]
    /\ vlan \in [Vlans -> Ranges \cup {Free, External}]
    /\ seen \in [Vlans -> 0 .. MaxReads]
    /\ uplink \in [Uplinks -> Ranges \cup {Free}]
    /\ mgmt \in [Mgmt -> Ranges \cup {Free}]
    /\ planned \in [Ranges -> SUBSET Vlans]
    /\ vms \in [Ranges -> BOOLEAN]
    /\ pg \subseteq Vlans \X Owner
    /\ wire \in [Ranges -> SUBSET (({"uplink_ip"} \X Uplinks) \cup ({"noise_mgmt_ip"} \X Mgmt))]
    /\ lost \in [Ranges -> BOOLEAN]
    /\ task \in [Ranges -> Work]
    /\ clock \in 0 .. MaxReads
    /\ known \subseteq Vlans /\ shaky \subseteq known /\ dropped \subseteq Vlans \X Ranges
    /\ budget \in [Rare -> Nat]

Init ==
    /\ rstate = [r \in Ranges |-> "created"]
    /\ vlan = [v \in Vlans |-> Free] /\ seen = [v \in Vlans |-> 0]
    /\ uplink = [a \in Uplinks |-> Free] /\ mgmt = [a \in Mgmt |-> Free]
    /\ planned = [r \in Ranges |-> {}] /\ vms = [r \in Ranges |-> FALSE]
    /\ pg = {} /\ wire = [r \in Ranges |-> {}] /\ lost = [r \in Ranges |-> FALSE]
    /\ task = [r \in Ranges |-> NoWork]
    /\ clock = 0 /\ known = {} /\ shaky = {} /\ dropped = {}
    /\ budget = Budget

Spent(f) == budget[f] < Budget[f]

Spend(f) ==
    /\ budget[f] > 0
    /\ Cardinality({g \in Rare : Spent(g)} \cup {f}) <= MaxRare
    /\ budget' = [budget EXCEPT ![f] = @ - 1]

-----------------------------------------------------------------------------
(* The table, as a function from a pool's values to their holders.         *)

Held(t, r) == {v \in DOMAIN t : t[v] = r}

\* "A destroyed range no longer holds anything, even if nothing released it yet."
Reclaimed(t) == [v \in DOMAIN t |-> IF t[v] \in Ranges /\ rstate[t[v]] = "destroyed" THEN Free ELSE t[v]]

\* Faulty: a released value is kept as external.
ReleasedExternal(t, r) == [v \in DOMAIN t |-> IF t[v] = r THEN External ELSE t[v]]

Released(t, r) == [v \in DOMAIN t |-> IF t[v] = r THEN Free ELSE t[v]]

FreeValues(t) == {v \in DOMAIN t : t[v] = Free}

\* The n lowest of a set of values.
Lowest(S, n) == {v \in S : Cardinality({w \in S : w < v}) < n}

First(S) == CHOOSE v \in S : \A w \in S : v <= w

\* reserve / reserve_values: a range that holds n values keeps them and gets none; otherwise
\* what destroyed ranges held is freed and the lowest free values are added.
Reserved(t, r, n) ==
    LET needed == n - Cardinality(Held(t, r))
    IN  IF Cardinality(Held(t, r)) >= n THEN t
        ELSE [v \in DOMAIN t |-> IF v \in Lowest(FreeValues(Reclaimed(t)), needed)
                                   THEN r ELSE Reclaimed(t)[v]]

\* PoolExhaustedError otherwise.
CanReserve(t, r, n) ==
    Cardinality(Held(t, r)) + Cardinality(FreeValues(Reclaimed(t))) >= n \/ Cardinality(Held(t, r)) >= n

\* record_external: what the read found in use outside TrueNorth, and TrueNorth's own port
\* groups on VLANs no range holds (orphans).
Want(w) == {v \in w.fv \cup w.mv : Reclaimed(vlan)[v] \notin Ranges}

\* Faulty: a slow read deletes what a newer one saw.
DropsAny(w) == {v \in Vlans : vlan[v] = External /\ v \notin Want(w)}

\* The external rows it deletes: not seen by this read, nor by one that started later.
Drops(w) == {v \in Vlans : vlan[v] = External /\ v \notin Want(w) /\ seen[v] < w.at}

\* The rows and their dates after record_external.
Recorded(w) ==
    [v \in Vlans |-> IF v \in Want(w) THEN External
                     ELSE IF v \in Drops(w) THEN Free ELSE Reclaimed(vlan)[v]]

SeenAfter(w) == [v \in Vlans |-> IF v \in Want(w) /\ w.at > seen[v] THEN w.at ELSE seen[v]]

-----------------------------------------------------------------------------
(* The API: accept, reconcile, write-off.                                  *)

\* accept(provision): _reserve_for_provision holds the agents' addresses in the acceptance
\* transaction (sync: a template without noise, edited since, releases them), or refuses.
AcceptProvision(r, noisy) ==
    /\ rstate[r] \in {"created", "failed"}
    /\ ~vms[r] /\ task[r].pc = "idle"
    /\ LET n == IF noisy THEN 1 ELSE 0
           t == IF noisy THEN mgmt ELSE Released(mgmt, r)
       IN  /\ CanReserve(t, r, n)
           /\ mgmt' = Reserved(t, r, n)
    /\ rstate' = [rstate EXCEPT ![r] = "provisioning"]
    /\ UNCHANGED <<vlan, seen, uplink, planned, vms, world, task, clock, ghost, budget>>

\* accept(destroy): a running build does not stop it, its task waits for the lease.
AcceptDestroy(r) ==
    /\ rstate[r] \in {"ready", "failed"}
    /\ rstate' = [rstate EXCEPT ![r] = "destroying"]
    /\ UNCHANGED <<table, planned, vms, world, task, clock, ghost, budget>>

\* abandon: the range is failed while its task may still run.
Abandon(r) ==
    /\ rstate[r] \in {"provisioning", "destroying"}
    /\ Spend("abandon")
    /\ rstate' = [rstate EXCEPT ![r] = "failed"]
    /\ UNCHANGED <<table, planned, vms, world, task, clock, ghost>>

\* range_abandon.abandon: destroyed without a hypervisor call.
WriteOff(r) ==
    /\ rstate[r] = "failed"
    /\ Spend("writeOff")
    /\ rstate' = [rstate EXCEPT ![r] = "destroyed"]
    /\ UNCHANGED <<table, planned, vms, world, task, clock, ghost>>

\* Faulty: whoever reads an operation of the range releases its values.
ReleaseAlways(r) ==
    /\ vlan' = Released(vlan, r) /\ uplink' = Released(uplink, r) /\ mgmt' = Released(mgmt, r)
    /\ UNCHANGED <<rstate, seen, planned, vms, world, task, clock, ghost, budget>>

\* release_range (a reconcile that settles the destroy) and release_after_destroy.
Release(r) ==
    /\ rstate[r] = "destroyed"
    /\ vlan' = Released(vlan, r) /\ uplink' = Released(uplink, r) /\ mgmt' = Released(mgmt, r)
    /\ UNCHANGED <<rstate, seen, planned, vms, world, task, clock, ghost, budget>>

-----------------------------------------------------------------------------
(* The build: range_alloc.reserve_for_build, then vsphere_api.provision.   *)

Work_(r, w) == task' = [task EXCEPT ![r] = w]

\* live_usage notes the time, then reads the switch, outside any transaction.
StartBuild(r) ==
    /\ rstate[r] = "provisioning" /\ task[r].pc = "idle"
    /\ clock < MaxReads /\ clock' = clock + 1
    /\ Work_(r, [NoWork EXCEPT !.pc = "stamped", !.at = clock'])
    /\ UNCHANGED <<rstate, table, planned, vms, world, ghost, budget>>

LiveRead(r) ==
    /\ task[r].pc = "stamped"
    /\ Work_(r, [task[r] EXCEPT !.pc = "read",
                   !.fv = {v \in Vlans : <<v, Foreign>> \in pg},
                   !.mv = {v \in Vlans : \E s \in Ranges : <<v, s>> \in pg}])
    /\ UNCHANGED <<rstate, table, planned, vms, world, clock, ghost, budget>>

\* The rows a build's read and its prune leave: first what the read found is recorded, then
\* the VLANs of networks that the template no longer has are freed.
Pruned(w, stale) == [v \in Vlans |-> IF v \in stale THEN Free ELSE Recorded(w)[v]]

\* reserve_for_build: one transaction, the range still provisioning; nothing is kept of it
\* when a pool is exhausted. Each attempt reads the template anew: when it was edited since,
\* the range's VLANs of other networks (stale) are freed and may be taken again for the n
\* networks it has now. planned_output replaces the networks in provisioner_output.
Reserve(r, stale, n) ==
    /\ task[r].pc = "read"
    /\ rstate[r] = "provisioning"
    /\ IF stale = {} /\ n = Need[r] THEN UNCHANGED budget ELSE Spend("edited")
    /\ stale \subseteq Held(vlan, r) /\ Cardinality(Held(vlan, r) \ stale) <= n
    /\ CanReserve(Pruned(task[r], stale), r, n) /\ CanReserve(uplink, r, 1)
    /\ vlan' = Reserved(Pruned(task[r], stale), r, n)
    /\ seen' = SeenAfter(task[r])
    /\ uplink' = Reserved(uplink, r, 1)
    /\ planned' = [planned EXCEPT ![r] = Held(vlan', r)]
    /\ Work_(r, [NoWork EXCEPT !.pc = "reserved", !.alloc = Held(vlan', r),
                               !.up = CHOOSE a \in Uplinks : uplink'[a] = r])
    /\ known' = known \cup {v \in task[r].fv : vlan'[v] = External /\ <<v, Foreign>> \in pg}
    /\ shaky' = shaky \cup {v \in known' \ known :
                              \E s \in Ranges : task[s].pc = "read" /\ task[s].at > task[r].at}
    /\ dropped' = (dropped \cup {<<v, r>> : v \in {u \in stale : <<u, r>> \in pg}})
                    \ {<<v, r>> : v \in Held(vlan', r)}
    /\ UNCHANGED <<rstate, mgmt, vms, world, clock>>

\* AllocationError: final. The range is failed if it is still provisioning. (An edited
\* template needs no more than Need[r], so it fits whenever the original does.)
ReserveRefused(r) ==
    /\ task[r].pc = "read"
    /\ rstate[r] = "provisioning" => ~(CanReserve(Recorded(task[r]), r, Need[r]) /\ CanReserve(uplink, r, 1))
    /\ rstate' = [rstate EXCEPT ![r] = IF @ = "provisioning" THEN "failed" ELSE @]
    /\ Work_(r, NoWork)
    /\ UNCHANGED <<table, planned, vms, world, clock, ghost, budget>>

\* _prepare_sync: one read of the switch before the port groups are made.
Prepare(r) ==
    /\ task[r].pc = "reserved"
    /\ Work_(r, [task[r] EXCEPT !.pc = "checking", !.uses = pg, !.todo = task[r].alloc])
    /\ UNCHANGED <<rstate, table, planned, vms, world, clock, ghost, budget>>

OthersOn(ports, v, r) == \E o \in Owner \ {r} : <<v, o>> \in ports

\* Faulty: the switch is not looked at again before a port group is made.
CollidesNever(r, v) == FALSE

\* vsphere_vlans.check on the step's read, then ensure_dvs_portgroup's own look.
Collides(r, v) ==
    \/ OthersOn(task[r].uses, v, r)
    \/ <<v, r>> \notin pg /\ OthersOn(pg, v, r)

\* The next port group collides with nothing ...
CheckPortgroup(r) ==
    /\ task[r].pc = "checking" /\ task[r].todo # {}
    /\ ~Collides(r, First(task[r].todo))
    /\ Work_(r, [task[r] EXCEPT !.pc = "creating"])
    /\ UNCHANGED <<rstate, table, planned, vms, world, clock, ghost, budget>>

\* ... and is made, or reused.
CreatePortgroup(r) ==
    /\ task[r].pc = "creating"
    /\ LET v == First(task[r].todo)
       IN  /\ pg' = pg \cup {<<v, r>>}
           /\ Work_(r, [task[r] EXCEPT !.pc = "checking", !.todo = @ \ {v},
                          !.made = IF <<v, r>> \in task[r].uses THEN @ ELSE @ \cup {v}])
    /\ UNCHANGED <<rstate, table, planned, vms, wire, lost, clock, ghost, budget>>

\* _conflict: what this step made is removed, unless that fails; every planned VLAN is to be
\* released but those on which a port group of this range is still there, alone. When the
\* switch cannot be read for that (blind), none is.
Collide(r, undone, blind) ==
    /\ task[r].pc = "checking" /\ task[r].todo # {}
    /\ Collides(r, First(task[r].todo))
    /\ IF undone /\ ~blind THEN UNCHANGED budget ELSE Spend("undoFails")
    /\ pg' = IF undone THEN pg \ {<<v, r>> : v \in task[r].made} ELSE pg
    /\ LET kept == {v \in task[r].alloc : blind \/ (<<v, r>> \in pg' /\ ~OthersOn(pg', v, r))}
       IN  /\ Work_(r, [task[r] EXCEPT !.pc = "collided", !.todo = {}, !.made = {},
                          !.release = task[r].alloc \ kept, !.hit = {First(task[r].todo)}])
           /\ dropped' = dropped \cup {<<v, r>> : v \in {u \in task[r].alloc \ kept : <<u, r>> \in pg'}}
    /\ UNCHANGED <<rstate, table, planned, vms, wire, lost, clock, known, shaky>>

\* build_failure: release_conflict in one transaction while the range is provisioning. It may
\* fail (ok = FALSE), and then changes nothing. The range's failure is written afterwards.
ReleaseConflict(r, ok) ==
    /\ task[r].pc = "collided"
    /\ IF ok THEN UNCHANGED budget ELSE Spend("txFails")
    /\ IF ok /\ rstate[r] = "provisioning"
         THEN LET freed == [v \in Vlans |-> IF v \in task[r].release /\ vlan[v] = r
                                             THEN Free ELSE Reclaimed(vlan)[v]]
                  new   == {v \in task[r].hit : freed[v] = Free}
              IN  /\ vlan' = [v \in Vlans |-> IF v \in new THEN External ELSE freed[v]]
                  /\ seen' = [v \in Vlans |-> IF v \in new THEN clock ELSE seen[v]]
                  /\ known' = known \cup {v \in new : <<v, Foreign>> \in pg}
                  /\ UNCHANGED <<shaky, dropped>>
                  /\ planned' = [planned EXCEPT ![r] = @ \ task[r].release]
         ELSE UNCHANGED <<vlan, seen, ghost, planned>>
    /\ Work_(r, [NoWork EXCEPT !.pc = "failed"])
    /\ UNCHANGED <<rstate, uplink, mgmt, vms, world, clock>>

\* Every port group is there: the VMs are made, with the addresses the range holds.
BuildVms(r) ==
    /\ task[r].pc = "checking" /\ task[r].todo = {}
    /\ wire' = [wire EXCEPT ![r] = @ \cup {<<"uplink_ip", task[r].up>>}
                                     \cup {<<"noise_mgmt_ip", a>> : a \in Held(mgmt, r)}]
    /\ Work_(r, [NoWork EXCEPT !.pc = "result", !.alloc = task[r].alloc])
    /\ UNCHANGED <<rstate, table, planned, vms, pg, lost, clock, ghost, budget>>

\* Or none could be made: _rollback removes the range's port groups, or fails to. The task is
\* retried (final = FALSE) or fails the range.
BuildFailed(r, undone, final) ==
    /\ task[r].pc \in {"checking", "creating"}
    /\ IF undone THEN UNCHANGED budget ELSE Spend("undoFails")
    /\ pg' = IF undone /\ ~lost[r] THEN pg \ {<<v, r>> : v \in task[r].alloc} ELSE pg
    /\ Work_(r, [NoWork EXCEPT !.pc = IF final THEN "failed" ELSE "idle"])
    /\ UNCHANGED <<rstate, table, planned, vms, wire, lost, clock, ghost>>

RecordFailure(r) ==
    /\ task[r].pc = "failed"
    /\ rstate' = [rstate EXCEPT ![r] = IF @ \in {"provisioning", "destroying"} THEN "failed" ELSE @]
    /\ Work_(r, NoWork)
    /\ UNCHANGED <<table, planned, vms, world, clock, ghost, budget>>

\* The outcome of a build, ready or failed with its VMs, if the range still waits for it.
RecordBuilt(r, to) ==
    /\ task[r].pc = "result" /\ rstate[r] = "provisioning"
    /\ rstate' = [rstate EXCEPT ![r] = to]
    /\ vms' = [vms EXCEPT ![r] = TRUE]
    /\ planned' = [planned EXCEPT ![r] = task[r].alloc]
    /\ Work_(r, NoWork)
    /\ UNCHANGED <<table, world, clock, ghost, budget>>

\* discard_built: what nobody waits for is torn down, or recorded on the range.
DiscardBuilt(r, ok) ==
    /\ task[r].pc = "result" /\ rstate[r] # "provisioning"
    /\ ok => ~lost[r]
    /\ IF ok THEN /\ pg' = pg \ {<<v, r>> : v \in task[r].alloc}
                  /\ wire' = [wire EXCEPT ![r] = {}]
                  /\ UNCHANGED <<planned, vms>>
             ELSE /\ planned' = [planned EXCEPT ![r] = task[r].alloc]
                  /\ vms' = [vms EXCEPT ![r] = TRUE]
                  /\ UNCHANGED <<pg, wire>>
    /\ Work_(r, NoWork)
    /\ UNCHANGED <<rstate, table, lost, clock, ghost, budget>>

-----------------------------------------------------------------------------
(* The destroy: tasks.destroy_range, vsphere_api.destroy.                  *)

\* Every recorded VM is deleted, then the recorded port groups. VMs the range does not record
\* still use its port groups: their removal fails.
DestroyOk(r) ==
    /\ rstate[r] = "destroying" /\ task[r].pc = "idle"
    /\ ~lost[r]
    /\ pg' = pg \ {<<v, r>> : v \in planned[r]}
    /\ wire' = [wire EXCEPT ![r] = {}]
    /\ Work_(r, [NoWork EXCEPT !.pc = "torndown"])
    /\ UNCHANGED <<rstate, table, planned, vms, lost, clock, ghost, budget>>

\* Some VMs were deleted, one was not: the port groups stay, the result is "partial", and
\* destroy_range goes on as after a full one.
DestroyPartial(r) ==
    /\ rstate[r] = "destroying" /\ task[r].pc = "idle" /\ vms[r]
    /\ IF lost[r] THEN UNCHANGED budget ELSE Spend("partial")
    /\ Work_(r, [NoWork EXCEPT !.pc = "torndown"])
    /\ UNCHANGED <<rstate, table, planned, vms, world, clock, ghost>>

\* Nothing was removed: retried, or the range is failed.
DestroyFailed(r) ==
    /\ rstate[r] = "destroying" /\ task[r].pc = "idle"
    /\ Work_(r, [NoWork EXCEPT !.pc = "failed"])
    /\ UNCHANGED <<rstate, table, planned, vms, world, clock, ghost, budget>>

\* destroyed, if the range is still destroying. Its values are released in a transaction of
\* its own (Release), which may never happen.
RecordDestroyed(r) ==
    /\ task[r].pc = "torndown"
    /\ rstate' = [rstate EXCEPT ![r] = IF @ = "destroying" THEN "destroyed" ELSE @]
    /\ Work_(r, NoWork)
    /\ UNCHANGED <<table, planned, vms, world, clock, ghost, budget>>

-----------------------------------------------------------------------------

\* The worker dies. A build's VMs are then recorded nowhere; its task is delivered again.
Crash(r) ==
    /\ task[r].pc # "idle"
    /\ Spend("crash")
    /\ lost' = [lost EXCEPT ![r] = @ \/ task[r].pc = "result"]
    /\ Work_(r, NoWork)
    /\ UNCHANGED <<rstate, table, planned, vms, pg, wire, clock, ghost>>

\* Somebody else makes, or removes, a port group on the range switch.
ForeignAdded(v) ==
    /\ <<v, Foreign>> \notin pg
    /\ Spend("foreign")
    /\ pg' = pg \cup {<<v, Foreign>>}
    /\ UNCHANGED <<rstate, table, planned, vms, wire, lost, task, clock, ghost>>

ForeignRemoved(v) ==
    /\ <<v, Foreign>> \in pg
    /\ pg' = pg \ {<<v, Foreign>>}
    /\ known' = known \ {v} /\ shaky' = shaky \ {v}
    /\ UNCHANGED <<rstate, table, planned, vms, wire, lost, task, clock, dropped, budget>>

RangeNext(r) ==
    \/ \E noisy \in BOOLEAN : AcceptProvision(r, noisy)
    \/ AcceptDestroy(r) \/ Abandon(r) \/ WriteOff(r) \/ Release(r)
    \/ StartBuild(r) \/ LiveRead(r) \/ ReserveRefused(r) \/ Prepare(r)
    \/ \E stale \in SUBSET Vlans, n \in 1 .. Need[r] : Reserve(r, stale, n)
    \/ CheckPortgroup(r) \/ CreatePortgroup(r) \/ BuildVms(r) \/ RecordFailure(r)
    \/ \E b, c \in BOOLEAN : Collide(r, b, c) \/ BuildFailed(r, b, c)
    \/ \E ok \in BOOLEAN : ReleaseConflict(r, ok) \/ DiscardBuilt(r, ok)
    \/ \E to \in {"ready", "failed"} : RecordBuilt(r, to)
    \/ DestroyOk(r) \/ DestroyPartial(r) \/ DestroyFailed(r) \/ RecordDestroyed(r)
    \/ Crash(r)

Next == (\E r \in Ranges : RangeNext(r)) \/ (\E v \in Vlans : ForeignAdded(v) \/ ForeignRemoved(v))

Spec == Init /\ [][Next]_vars

-----------------------------------------------------------------------------
(* What makes it correct.                                                  *)

\* No VLAN carries the port groups of two ranges, whatever was half destroyed or left behind by
\* a crash: a freed VLAN that is still on the switch is recorded as external before it could be
\* handed out, and the switch is looked at again before a port group is made (record_external,
\* vsphere_vlans.check, ensure_dvs_portgroup). Unless a range was written off: its VLANs are
\* free while an abandoned build of it may be between the look and the port group.
OneRangePerVlan ==
    \/ \A v \in Vlans, r, s \in Ranges : <<v, r>> \in pg /\ <<v, s>> \in pg => r = s
    \/ Spent("writeOff")

\* What a range that is not destroyed has on the switch or its VMs use is reserved for it, in
\* every step of a build that may die there ("a build that dies half-way still holds its
\* values"). But for a port group left behind by an earlier attempt whose VLAN a collision
\* released, or the prune of a template edited since (range_alloc.reserve_values); and the
\* management addresses of VMs lost in a crash, which an edited template may release.
HeldWhileUsed ==
    \A r \in Ranges : rstate[r] # "destroyed" =>
        /\ \A v \in Vlans : <<v, r>> \in pg \ dropped => vlan[v] = r
        /\ \A a \in Uplinks : <<"uplink_ip", a>> \in wire[r] => uplink[a] = r
        /\ \A a \in Mgmt : <<"noise_mgmt_ip", a>> \in wire[r] => mgmt[a] = r \/ lost[r]

\* A port group of a range is in its recorded output, so that its destroy finds it
\* (planned_output, drop_range_networks); but for a VLAN released although an earlier attempt's
\* port group of the range was still on it: by a collision, next to a foreign port group, or
\* because the template was edited between the attempts, whose prune and planned_output forget
\* the networks it no longer has (reserve_values, merge_range_output).
PortgroupsRecordedUnlessDropped ==
    \A v \in Vlans, r \in Ranges : <<v, r>> \in pg \ dropped => v \in planned[r]

\* No address is used by the VMs of two ranges, where nothing was written off, half destroyed
\* or lost in a crash (reserve_values; release_after_destroy).
AddressesOnceIfGone ==
    \/ \A r, s \in Ranges : r # s => wire[r] \cap wire[s] = {}
    \/ Spent("writeOff") \/ Spent("partial") \/ Spent("crash")

\* A VLAN recorded as used outside TrueNorth stays off limits for as long as that use lasts,
\* however late a slow read of the switch commits (record_external: "a slow read never deletes
\* what a newer one saw"); but for what was seen by a read that started before one that had
\* read the switch by then, as a row is dated by the start of its read.
NewestReadCounts == \A v \in known \ shaky : vlan[v] = External
==============================================================================
