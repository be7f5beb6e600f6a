------------------------------ MODULE RangeLease ------------------------------
(***************************************************************************)
(* One range's row of range_leases (api/app/range_leases/models.py) and    *)
(* the statements worker/fencing.py and api/app/range_ops/service.py run   *)
(* on it. A holder is the execution that claimed the range (the code's     *)
(* "<action>:<token>"); tomb says that an abandon renamed it to            *)
(* "abandoned:<holder>". Time is counted in heartbeat periods: ttl is the  *)
(* number of periods until expires_at, 0 once it has passed.               *)
(*                                                                         *)
(* age and moved are what lease_status.assess derives for a tombstone from *)
(* the abandoned operation's finished_at: the periods since the abandon,   *)
(* counted up to ProofAge, and whether expires_at is later than the expiry *)
(* the abandon wrote (by more than half a heartbeat).                      *)
(***************************************************************************)
EXTENDS Naturals

CONSTANTS Execution,    \* task executions; each is one holder token
          NoHolder,     \* no row
          LeaseTicks,   \* LEASE_SECONDS, in heartbeat periods
          KeptTicks     \* KEPT_LEASE_SECONDS, in heartbeat periods

ASSUME LeaseAssumption ==
    /\ NoHolder \notin Execution
    /\ LeaseTicks \in Nat \ {0}
    /\ KeptTicks \in Nat
    /\ KeptTicks > LeaseTicks

\* lease_status: two heartbeats since the abandon. The second period that ends after it may
\* end sooner than that.
ProofAge == 2

LeaseRow == [holder : Execution \cup {NoHolder}, tomb : BOOLEAN,
             ttl : 0 .. KeptTicks, age : 0 .. ProofAge, moved : BOOLEAN]

NoLease == [holder |-> NoHolder, tomb |-> FALSE, ttl |-> 0,
            age |-> 0, moved |-> FALSE]

\* worker_acting: an unexpired row, a task's or a tombstone.
WorkerActing(l) == l.holder # NoHolder /\ l.ttl > 0

\* Faulty: the upsert takes an unexpired row too.
ClaimableAlways(l) == TRUE

\* _claim_lease: the upsert succeeds on no row or on an expired one.
Claimable(l) == l.ttl = 0

Claimed(x) == [NoLease EXCEPT !.holder = x, !.ttl = LeaseTicks]

\* _release_lease: the holder's row, or its tombstone, is deleted.
Released(l, x) == IF l.holder = x THEN NoLease ELSE l

\* _Lease.observe, as the execution x that has (not) seen its abandon reads the row.
Observe(l, x, seen) ==
    CASE l.holder = x /\ ~l.tomb /\ seen # "abandoned" -> "held"
      [] l.holder = x /\ l.tomb                        -> "abandoned"
      [] OTHER                                         -> "lost"

\* Faulty: a renewal adds to the expiry instead of counting from now.
ExtendedFurther(l, t, late) == [l EXCEPT !.ttl = @ + t, !.moved = l.tomb]

\* _extend_lease: at least t periods from now, never shorter. A renewal in the first
\* periods after the abandon may or may not pass the half heartbeat lease_status allows
\* (late); one made later, or a kept lease, has moved the expiry.
Extended(l, t, late) ==
    [l EXCEPT !.ttl = IF t > @ THEN t ELSE @,
              !.moved = l.tomb /\ (@ \/ late \/ l.age = ProofAge \/ t > LeaseTicks)]

\* Faulty: an abandon deletes the row.
FencedByDelete(l) == NoLease

\* fence_lease: the row of x becomes a tombstone expiring LEASE_SECONDS from now.
Fenced(l) == [l EXCEPT !.tomb = TRUE, !.ttl = LeaseTicks, !.age = 0, !.moved = FALSE]

\* A later abandon of the same action: the tombstone stays as it is (fence_lease matches
\* "<action>:..." holders only), but lease_status now measures from this abandon.
Reabandoned(l) == [l EXCEPT !.age = 0, !.moved = l.ttl > LeaseTicks]

\* Faulty: a lease in its last period does not expire.
AgedNotLast(l) == [l EXCEPT !.ttl = IF @ > 1 THEN @ - 1 ELSE @,
                            !.age = IF l.tomb /\ @ < ProofAge THEN @ + 1 ELSE @]

\* A heartbeat period passes (expires_at is compared with database time).
Aged(l) == [l EXCEPT !.ttl = IF @ > 0 THEN @ - 1 ELSE 0,
                     !.age = IF l.tomb /\ @ < ProofAge THEN @ + 1 ELSE @]

\* lease_status.assess: what the API takes for proof that an abandoned worker stopped.
ProvenStopped(l) ==
    l.holder # NoHolder /\ l.tomb /\ ~l.moved /\ (l.ttl = 0 \/ l.age = ProofAge)
===============================================================================
