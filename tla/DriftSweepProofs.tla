--------------------------- MODULE DriftSweepProofs ---------------------------
(***************************************************************************)
(* DriftSweep, for any number of sweeps and any time to live of the lock:  *)
(* two sweeps overlap only while one of them was cut off from Redis, and   *)
(* what a sweep enters in the record is what somebody changed.             *)
(***************************************************************************)
EXTENDS DriftSweep, TLAPS

\* The parts of the lock that its argument is about.
LockTypeOK ==
    /\ key \in Sweep \cup {None, Gone} /\ ttl \in Nat /\ up \in BOOLEAN
    /\ pc \in [Sweep -> {"idle", "locked", "chosen", "reading", "read", "settled", "ending"}]
    /\ lost \in [Sweep -> BOOLEAN] /\ due \in [Sweep -> BOOLEAN] /\ missed \in [Sweep -> Nat]

\* A sweep that works holds the key, or missed the renewals that would have kept it.
HoldsOrCutOff == \A s \in Sweep : Working(s) => key = s \/ missed[s] >= Beats - 1

\* The key of a sweep lasts as long as the renewals it has not missed.
KeyOutlasts == \A s \in Sweep : key = s =>
    /\ Working(s) /\ ~lost[s]
    /\ ttl + missed[s] + (IF due[s] THEN 1 ELSE 0) >= Beats

\* A sweep starts afresh.
IdleIsFresh == \A s \in Sweep : ~Working(s) => ~lost[s] /\ ~due[s] /\ missed[s] = 0

LockInv == LockTypeOK /\ HoldsOrCutOff /\ KeyOutlasts /\ IdleIsFresh

\* A step of the sweep's own work: it stays at work, and leaves the lock alone.
Works(s) == /\ UNCHANGED lock /\ pc[s] # "idle"
            /\ \E p \in {"chosen", "reading", "read", "settled", "ending"} : pc' = [pc EXCEPT ![s] = p]

USE DriftAssumption

\* The lock's invariant holds initially.
LEMMA LockInit == Init => LockInv
BY DEF Init, LockInv, LockTypeOK, HoldsOrCutOff, KeyOutlasts, IdleIsFresh, Working

\* Every step of a sweep but the release leaves the lock alone.
LEMMA StepWorks ==
    ASSUME NEW s \in Sweep, Step(s), ~Release(s)
    PROVE  Works(s)
<1>1. CASE Choose(s) BY <1>1 DEF Choose, Finish, Works
<1>2. CASE Since(s)  BY <1>2 DEF Since, Finish, Works
<1>3. CASE Settle(s) BY <1>3 DEF Settle, Finish, Works
<1>4. CASE Save(s)   BY <1>4 DEF Save, Finish, Works
<1>5. ASSUME NEW fails \in BOOLEAN, Read(s, fails) PROVE Works(s)
    BY <1>5 DEF Read, Works
<1>. QED BY <1>1, <1>2, <1>3, <1>4, <1>5 DEF Step

\* So does everything that changes the range, and Redis's going and coming back.
LEMMA OthersLeaveLock ==
    ASSUME Outage \/ Recovery \/ Begin \/ Ends \/ Console \/ CreateSnapshot \/ RestoreSnapshot
             \/ DeleteSnapshot \/ Tasks \/ (\E retry \in BOOLEAN : FailSnapshot(retry)), LockInv
    PROVE  UNCHANGED <<key, ttl, lost, due, missed, pc>> /\ up' \in BOOLEAN
BY DEF Outage, Recovery, Begin, Ends, End, Console, CreateSnapshot, RestoreSnapshot, DeleteSnapshot,
       Tasks, TakeSnapshot, RecordSnapshot, Revert, RecordRestore, RunDelete, FailSnapshot, lock,
       LockInv, LockTypeOK

\* The lock's invariant is preserved by every step.
LEMMA LockStep == LockInv /\ [Next]_vars => LockInv'
<1>. SUFFICES ASSUME LockInv, [Next]_vars PROVE LockInv'
    OBVIOUS
<1>. USE DEF LockInv, LockTypeOK, HoldsOrCutOff, KeyOutlasts, IdleIsFresh, Working
<1>1. ASSUME NEW s \in Sweep, Acquire(s) PROVE LockInv'
    BY <1>1 DEF Acquire
<1>2. ASSUME NEW s \in Sweep, Renew(s) PROVE LockInv'
    BY <1>2 DEF Renew, Renewed
<1>3. ASSUME NEW s \in Sweep, Release(s) PROVE LockInv'
    BY <1>3 DEF Release, Released, Over
<1>4. ASSUME NEW s \in Sweep, Kill(s) PROVE LockInv'
    BY <1>4 DEF Kill, Over
<1>5. ASSUME NEW s \in Sweep, Works(s) PROVE LockInv'
    BY <1>5 DEF Works, lock
<1>6. CASE Tick
    <2>1. /\ ttl' \in Nat /\ ttl' >= ttl - 1
          /\ ttl' = 0 => ttl <= 1
          /\ key' = IF ttl' = 0 THEN None ELSE key
          /\ UNCHANGED <<up, lost, missed, pc>>
        BY <1>6 DEF Tick, Aged
    <2>2. due' \in [Sweep -> BOOLEAN] /\ \A s \in Sweep : due'[s] <=> (Working(s) /\ ~lost[s])
        BY <1>6, Zenon DEF Tick
    <2>3. \A s \in Sweep : ~due[s]
        BY <1>6 DEF Tick
    <2>4. LockTypeOK'
        BY <2>1, <2>2
    <2>5. HoldsOrCutOff'
        BY <2>1, <2>3
    <2>6. KeyOutlasts'
        BY <2>1, <2>2, <2>3
    <2>7. IdleIsFresh'
        BY <2>1, <2>2
    <2>. QED BY <2>4, <2>5, <2>6, <2>7
<1>7. ASSUME UNCHANGED <<key, ttl, lost, due, missed, pc>>, up' \in BOOLEAN PROVE LockInv'
    BY <1>7
<1>8. CASE UNCHANGED vars
    BY <1>8 DEF vars, lock
<1>9. CASE \E s \in Sweep : Acquire(s) \/ Step(s) \/ Renew(s) \/ Kill(s)
    BY <1>1, <1>2, <1>3, <1>4, <1>5, <1>9, StepWorks
<1>. QED BY <1>6, <1>7, <1>8, <1>9, OthersLeaveLock DEF Next

\* Sweeps do not overlap (redis_lock.py), whatever is killed and however long Redis is away,
\* unless one of them made all but the last renewal of a time to live without reaching it.
THEOREM SweepsKeptApart == Spec => []NeverOverlap
<1>1. LockInv => NeverOverlap
    BY DEF LockInv, HoldsOrCutOff, NeverOverlap
<1>. QED BY <1>1, LockInit, LockStep, PTL DEF Spec
-----------------------------------------------------------------------------
(* Types.                                                                  *)

\* The type invariant in parts: the lock, the sweeps, the range and what was found.
LockOK ==
    /\ key \in Sweep \cup {None, Gone} /\ ttl \in 0 .. Beats /\ (key = None <=> ttl = 0) /\ up \in BOOLEAN
    /\ lost \in [Sweep -> BOOLEAN] /\ due \in [Sweep -> BOOLEAN] /\ missed \in [Sweep -> 0 .. Beats]

SweepOK ==
    /\ pc \in [Sweep -> {"idle", "locked", "chosen", "reading", "read", "settled", "ending"}]
    /\ output \in [Sweep -> Nat]
    /\ seen \in [Sweep -> Reading \cup {Unread}]

RangeOK ==
    /\ busy \in BOOLEAN /\ build \in Nat /\ changed \in BOOLEAN
    /\ row \in {"none", "creating", "ready", "failed", "restoring", "deleted"}
    /\ held \in BOOLEAN /\ tasks \subseteq {"take", "restore", "delete"}

FoundOK ==
    /\ check \in (SUBSET Finding) \cup {Unread, None}
    /\ entry \in (SUBSET Finding) \cup {None}

StampOK == stamped \in [Sweep -> BOOLEAN]

BudgetOK == budget \in [Rare -> Nat]

\* They make up the type invariant.
LEMMA TypeParts ==
    /\ TypeOK <=> LockOK /\ SweepOK /\ RangeOK /\ FoundOK /\ StampOK /\ BudgetOK
    /\ TypeOK' <=> LockOK' /\ SweepOK' /\ RangeOK' /\ FoundOK' /\ StampOK' /\ BudgetOK'
BY Zenon DEF TypeOK, LockOK, SweepOK, RangeOK, FoundOK, StampOK, BudgetOK

\* A step that leaves a part alone keeps it.
LEMMA PartsKept ==
    /\ LockOK /\ UNCHANGED lock => LockOK'
    /\ SweepOK /\ UNCHANGED <<pc, output, seen>> => SweepOK'
    /\ RangeOK /\ UNCHANGED <<range, snap>> => RangeOK'
    /\ FoundOK /\ UNCHANGED found => FoundOK'
    /\ StampOK /\ UNCHANGED stamped => StampOK'
    /\ BudgetOK /\ UNCHANGED budget => BudgetOK'
<1>1. LockOK /\ UNCHANGED lock => LockOK'
    BY DEF LockOK, lock
<1>2. SweepOK /\ UNCHANGED <<pc, output, seen>> => SweepOK'
    BY DEF SweepOK
<1>3. RangeOK /\ UNCHANGED <<range, snap>> => RangeOK'
    BY DEF RangeOK, range, snap
<1>4. FoundOK /\ UNCHANGED found => FoundOK'
    BY DEF FoundOK, found
<1>5. (StampOK /\ UNCHANGED stamped => StampOK') /\ (BudgetOK /\ UNCHANGED budget => BudgetOK')
    BY DEF StampOK, BudgetOK
<1> QED BY <1>1, <1>2, <1>3, <1>4, <1>5

\* The types hold initially.
LEMMA TypeInit == ASSUME Init PROVE TypeOK
<1>1. LockOK
    BY DEF Init, LockOK
<1>2. SweepOK
    BY DEF Init, SweepOK
<1>3. RangeOK
    BY DEF Init, RangeOK
<1>4. FoundOK
    BY DEF Init, FoundOK
<1>5. StampOK /\ BudgetOK
    BY DEF Init, StampOK, BudgetOK
<1> QED BY <1>1, <1>2, <1>3, <1>4, <1>5, TypeParts

\* A rare event leaves a type-correct budget.
LEMMA SpendType == ASSUME BudgetOK, NEW f \in Rare, Spend(f) PROVE BudgetOK'
BY DEF BudgetOK, Spend

\* Every write of a row stamps the sweeps that read.
LEMMA StampType ==
    ASSUME Stamp
    PROVE  StampOK' /\ \A s \in Sweep : stamped'[s] <=> pc[s] \in {"reading", "read", "settled"}
<1> DEFINE P(s) == pc[s] \in {"reading", "read", "settled"}
<1>1. stamped' = [s \in Sweep |-> P(s)]
    BY DEF Stamp
<1>2. \A s \in Sweep : P(s) \in BOOLEAN
    OBVIOUS
<1>3. \A s \in Sweep : stamped'[s] = P(s)
    BY <1>1
<1> HIDE DEF P
<1>4. stamped' \in [Sweep -> BOOLEAN]
    BY <1>1, <1>2, Zenon
<1>5. \A s \in Sweep : stamped'[s] <=> P(s)
    BY <1>2, <1>3, Zenon
<1> QED BY <1>4, <1>5 DEF P, StampOK

\* Where a sweep's work is over, its variables keep their types.
LEMMA OverType ==
    ASSUME TypeOK, NEW s \in Sweep, Over(s) \/ Finish(s)
    PROVE  SweepOK' /\ StampOK'
<1>1. SweepOK /\ StampOK
    BY TypeParts
<1>2. CASE Over(s)
    BY <1>1, <1>2 DEF Over, SweepOK, StampOK
<1>3. CASE Finish(s)
    BY <1>1, <1>3 DEF Finish, SweepOK, StampOK
<1> QED BY <1>2, <1>3

\* The lock's steps keep the types.
LEMMA LockType ==
    ASSUME TypeOK, Tick \/ Outage \/ Recovery \/ (\E s \in Sweep : Acquire(s) \/ Renew(s) \/ Kill(s) \/ Release(s))
    PROVE  TypeOK'
<1>0. LockOK /\ SweepOK /\ RangeOK /\ FoundOK /\ StampOK /\ BudgetOK
    BY TypeParts
<1>1. ASSUME NEW s \in Sweep, Acquire(s) PROVE TypeOK'
  <2>1. LockOK' /\ SweepOK'
    BY <1>0, <1>1 DEF Acquire, LockOK, SweepOK
  <2>2. UNCHANGED <<stamped, range, snap, found, budget>>
    BY <1>1 DEF Acquire
  <2> QED BY <1>0, <2>1, <2>2, TypeParts, PartsKept
<1>2. ASSUME NEW s \in Sweep, Renew(s) PROVE TypeOK'
  <2>1. LockOK'
    BY <1>0, <1>2 DEF Renew, Renewed, LockOK
  <2>2. UNCHANGED <<pc, output, stamped, seen, range, snap, found, budget>>
    BY <1>2 DEF Renew
  <2> QED BY <1>0, <2>1, <2>2, TypeParts, PartsKept
<1>3. ASSUME NEW s \in Sweep, Release(s) PROVE TypeOK'
  <2>1. LockOK'
    BY <1>0, <1>3 DEF Release, Released, Over, LockOK
  <2>2. Over(s) /\ UNCHANGED <<range, snap, found, budget>>
    BY <1>3 DEF Release
  <2> QED BY <1>0, <2>1, <2>2, OverType, TypeParts, PartsKept
<1>4. ASSUME NEW s \in Sweep, Kill(s) PROVE TypeOK'
  <2>1. LockOK'
    BY <1>0, <1>4 DEF Kill, Over, LockOK
  <2>2. Over(s) /\ Spend("kill") /\ UNCHANGED <<range, snap, found>>
    BY <1>4 DEF Kill
  <2>3. BudgetOK'
    BY <1>0, <2>2, SpendType DEF Rare
  <2> QED BY <1>0, <2>1, <2>2, <2>3, OverType, TypeParts, PartsKept
<1>5. CASE Tick
  <2>1. due' \in [Sweep -> BOOLEAN]
    BY <1>5, Zenon DEF Tick, Working
  <2>2. ttl' \in 0 .. Beats /\ key' \in Sweep \cup {None, Gone} /\ (key' = None <=> ttl' = 0)
    BY <1>0, <1>5 DEF Tick, Aged, LockOK
  <2>3. UNCHANGED <<up, lost, missed, pc, output, stamped, seen, range, snap, found, budget>>
    BY <1>5 DEF Tick
  <2>4. LockOK'
    BY <1>0, <2>1, <2>2, <2>3 DEF LockOK
  <2> QED BY <1>0, <2>3, <2>4, TypeParts, PartsKept
<1>6. CASE Outage \/ Recovery
  <2>1. LockOK' /\ BudgetOK'
    BY <1>0, <1>6, SpendType DEF Outage, Recovery, LockOK, BudgetOK, Rare
  <2>2. UNCHANGED <<pc, output, stamped, seen, range, snap, found>>
    BY <1>6 DEF Outage, Recovery
  <2> QED BY <1>0, <2>1, <2>2, TypeParts, PartsKept
<1> QED BY <1>1, <1>2, <1>3, <1>4, <1>5, <1>6

\* So do the steps of a sweep's work ...
LEMMA SweepType ==
    ASSUME TypeOK, NEW s \in Sweep, Step(s), ~Release(s)
    PROVE  TypeOK'
<1>0. LockOK /\ SweepOK /\ RangeOK /\ FoundOK /\ StampOK /\ BudgetOK
    BY TypeParts
<1>1. CASE Choose(s) \/ Since(s) \/ Settle(s)
  <2>1. UNCHANGED <<lock, range, snap, found, budget>>
    BY <1>1 DEF Choose, Since, Settle
  <2>2. SweepOK' /\ StampOK'
    <3>1. CASE Finish(s)
      BY <3>1, OverType
    <3>2. CASE ~Finish(s)
      BY <1>0, <1>1, <3>2, ZenonT(60) DEF Choose, Since, Settle, SweepOK, StampOK, RangeOK
    <3> QED BY <3>1, <3>2
  <2> QED BY <1>0, <2>1, <2>2, TypeParts, PartsKept
<1>2. CASE Save(s)
  <2>1. Compare(s) \in SUBSET Finding
    BY DEF Compare
  <2>2. FoundOK'
    BY <1>0, <1>2, <2>1 DEF Save, FoundOK
  <2>3. Finish(s) /\ UNCHANGED <<lock, range, snap, budget>>
    BY <1>2 DEF Save
  <2> QED BY <1>0, <2>2, <2>3, OverType, TypeParts, PartsKept
<1>3. ASSUME NEW fails \in BOOLEAN, Read(s, fails) PROVE TypeOK'
  <2>1. [build |-> build, mid |-> busy, changed |-> changed, snapshot |-> held] \in Reading
    BY <1>0 DEF RangeOK, Reading
  <2>2. SweepOK'
    BY <1>0, <1>3, <2>1 DEF Read, SweepOK
  <2>3. BudgetOK'
    BY <1>0, <1>3, SpendType DEF Read, BudgetOK, Rare
  <2>4. UNCHANGED <<lock, stamped, range, snap, found>>
    BY <1>3 DEF Read
  <2> QED BY <1>0, <2>2, <2>3, <2>4, TypeParts, PartsKept
<1> QED BY <1>1, <1>2, <1>3 DEF Step

\* ... and of whatever changes the range.
LEMMA RangeType ==
    ASSUME TypeOK, Begin \/ Ends \/ Console \/ CreateSnapshot \/ RestoreSnapshot \/ DeleteSnapshot
             \/ Tasks \/ (\E retry \in BOOLEAN : FailSnapshot(retry))
    PROVE  TypeOK'
<1> USE DEF range, snap
<1>0. LockOK /\ SweepOK /\ RangeOK /\ FoundOK /\ StampOK /\ BudgetOK
    BY TypeParts
<1>1. UNCHANGED <<lock, pc, output, seen, found>>
    BY DEF Begin, Ends, End, Console, CreateSnapshot, RestoreSnapshot, DeleteSnapshot, Tasks, TakeSnapshot,
           RecordSnapshot, Revert, RecordRestore, RunDelete, FailSnapshot
<1>2. RangeOK'
  <2>1. CASE Begin \/ Console \/ Revert \/ TakeSnapshot
    BY <1>0, <2>1 DEF Begin, Console, Revert, TakeSnapshot, RangeOK
  <2>2. CASE Ends
    <3>1. held' \in BOOLEAN /\ changed' \in BOOLEAN /\ busy' \in BOOLEAN
      BY <2>2, Zenon DEF Ends, End
    <3> QED BY <1>0, <2>2, <3>1 DEF Ends, End, RangeOK
  <2>3. CASE CreateSnapshot \/ RestoreSnapshot \/ DeleteSnapshot
    BY <1>0, <2>3 DEF CreateSnapshot, RestoreSnapshot, DeleteSnapshot, RangeOK
  <2>4. CASE RecordSnapshot \/ RecordRestore
    BY <1>0, <2>4 DEF RecordSnapshot, RecordRestore, RangeOK
  <2>5. CASE RunDelete
    <3>1. held' \in BOOLEAN
      BY <1>0, <2>5, Zenon DEF RunDelete
    <3> QED BY <1>0, <2>5, <3>1 DEF RunDelete, RangeOK
  <2>6. CASE \E retry \in BOOLEAN : FailSnapshot(retry)
    BY <1>0, <2>6 DEF FailSnapshot, RangeOK
  <2> QED BY <2>1, <2>2, <2>3, <2>4, <2>5, <2>6 DEF Tasks
<1>3. StampOK'
    BY <1>0, StampType DEF Begin, Ends, End, Console, CreateSnapshot, RestoreSnapshot, DeleteSnapshot, Tasks,
                TakeSnapshot, RecordSnapshot, Revert, RecordRestore, RunDelete, FailSnapshot, StampOK
<1>4. BudgetOK'
  <2>1. UNCHANGED budget \/ \E f \in Rare : Spend(f)
    BY DEF Begin, Ends, End, Console, CreateSnapshot, RestoreSnapshot, DeleteSnapshot, Tasks, TakeSnapshot,
           RecordSnapshot, Revert, RecordRestore, RunDelete, FailSnapshot, Rare
  <2> QED BY <1>0, <2>1, SpendType, PartsKept
<1> QED BY <1>0, <1>1, <1>2, <1>3, <1>4, TypeParts, PartsKept

\* Every step keeps the types.
LEMMA TypeStep == ASSUME TypeOK, [Next]_vars PROVE TypeOK'
<1>1. CASE UNCHANGED vars
    BY <1>1, TypeParts, PartsKept DEF vars
<1>2. CASE \E s \in Sweep : Acquire(s) \/ Step(s) \/ Renew(s) \/ Kill(s)
    BY <1>2, LockType, SweepType
<1> QED BY <1>1, <1>2, LockType, RangeType DEF Next

\* The drift check's variables keep their types; the lock's key is gone exactly when its time to
\* live is over (redis_lock.py).
THEOREM TypeCorrect == Spec => []TypeOK
BY TypeInit, TypeStep, PTL DEF Spec

-----------------------------------------------------------------------------
(* What enters the record is real.                                         *)

\* The snapshot's row, its tasks and the hypervisor agree: a ready snapshot is there, and one that
\* is there without a row that says so is being deleted, or failed once.
SnapInv ==
    /\ "take" \in tasks => /\ row \in {"creating", "failed", "deleted"}
                           /\ row = "creating" \/ Spent("callFails")
    /\ "restore" \in tasks => row = "restoring"
    /\ "delete" \in tasks => row = "deleted"
    /\ row \in {"ready", "restoring"} => held
    /\ held => /\ row # "none"
               /\ row = "failed" => Spent("callFails")
               /\ row = "deleted" => "delete" \in tasks \/ Spent("callFails")

\* What a sweep has read and nothing has stamped since still stands.
StillStands(s) ==
    pc[s] \in {"read", "settled"} /\ seen[s] # Unread /\ ~stamped[s] =>
        /\ seen[s].mid => pc[s] = "read" /\ busy
        /\ seen[s].snapshot => held \/ Spent("callFails")
        /\ ~seen[s].snapshot => row \notin {"ready", "restoring"}

WithinBudget == \A f \in Rare : budget[f] <= Budget[f]

DriftInv == TypeOK /\ WithinBudget /\ SnapInv /\ \A s \in Sweep : StillStands(s)

\* The budget only falls: an event that has happened has happened.
LEMMA BudgetFalls ==
    ASSUME TypeOK, [Next]_vars, NEW e \in Rare
    PROVE  budget'[e] <= budget[e]
<1>0. budget \in [Rare -> Nat]
    BY DEF TypeOK
<1>1. UNCHANGED budget \/ \E f \in Rare : Spend(f)
  <2>1. CASE \E s \in Sweep : Acquire(s) \/ Step(s) \/ Renew(s) \/ Kill(s)
    BY <2>1 DEF Acquire, Step, Renew, Kill, Choose, Since, Read, Settle, Save, Release, Rare
  <2>2. CASE Tick \/ Outage \/ Recovery \/ Begin \/ Ends \/ Console
    BY <2>2 DEF Tick, Outage, Recovery, Begin, Ends, End, Console, Rare
  <2>3. CASE CreateSnapshot \/ RestoreSnapshot \/ DeleteSnapshot \/ Tasks
               \/ (\E retry \in BOOLEAN : FailSnapshot(retry))
    BY <2>3 DEF CreateSnapshot, RestoreSnapshot, DeleteSnapshot, Tasks, TakeSnapshot, RecordSnapshot, Revert,
                RecordRestore, RunDelete, FailSnapshot, Rare
  <2> QED BY <2>1, <2>2, <2>3 DEF Next, vars
<1>2. ASSUME NEW f \in Rare, Spend(f) PROVE budget'[e] <= budget[e]
    BY <1>0, <1>2 DEF Spend
<1> QED BY <1>0, <1>1, <1>2

\* A call that has failed has failed.
LEMMA FailedStays ==
    ASSUME TypeOK, TypeOK', [Next]_vars, Spent("callFails")
    PROVE  Spent("callFails")'
<1>1. /\ budget["callFails"] \in Nat /\ budget'["callFails"] \in Nat /\ Budget["callFails"] \in Nat
      /\ "callFails" \in Rare
    BY DEF TypeOK, Rare
<1>2. budget'["callFails"] <= budget["callFails"]
    BY <1>1, BudgetFalls
<1> QED BY <1>1, <1>2 DEF Spent

\* The steps of the lock and of the sweeps leave the snapshot alone.
LEMMA SweepsLeaveRange ==
    ASSUME \/ Tick \/ Outage \/ Recovery
           \/ \E s \in Sweep : Acquire(s) \/ Step(s) \/ Renew(s) \/ Kill(s)
    PROVE  UNCHANGED <<range, snap>>
BY DEF Tick, Outage, Recovery, Acquire, Step, Renew, Kill, Choose, Since, Read, Settle, Save, Release

\* What changes the range leaves the sweeps alone, but for their stamps.
LEMMA RangeLeavesSweeps ==
    ASSUME Begin \/ Ends \/ Console \/ CreateSnapshot \/ RestoreSnapshot \/ DeleteSnapshot
             \/ Tasks \/ (\E retry \in BOOLEAN : FailSnapshot(retry))
    PROVE  UNCHANGED <<pc, output, seen, entry>> /\ (Stamp \/ UNCHANGED stamped)
BY DEF Begin, Ends, End, Console, CreateSnapshot, RestoreSnapshot, DeleteSnapshot, Tasks, TakeSnapshot,
       RecordSnapshot, Revert, RecordRestore, RunDelete, FailSnapshot, found

\* The snapshot's row, its tasks and the hypervisor keep agreeing.
LEMMA SnapStep == ASSUME TypeOK, TypeOK', WithinBudget, SnapInv, [Next]_vars PROVE SnapInv'
<1> DEFINE failed == Spent("callFails")
<1>0. failed => failed'
    BY FailedStays
<1>1. ASSUME UNCHANGED snap PROVE SnapInv'
    BY <1>0, <1>1 DEF SnapInv, snap
<1>2. CASE Begin \/ Console \/ Revert
    BY <1>1, <1>2 DEF Begin, Console, Revert, snap
<1>3. ASSUME NEW rebuilt \in BOOLEAN, End(rebuilt) PROVE SnapInv'
  <2>1. tasks' = tasks /\ (rebuilt => tasks = {} /\ row' = "none" /\ ~held')
        /\ (~rebuilt => row' = row /\ (held' <=> held))
    BY <1>3 DEF End
  <2> QED BY <1>0, <2>1 DEF SnapInv
<1>4. CASE CreateSnapshot
    BY <1>0, <1>4 DEF CreateSnapshot, SnapInv
<1>5. CASE RestoreSnapshot \/ DeleteSnapshot
    BY <1>0, <1>5 DEF RestoreSnapshot, DeleteSnapshot, SnapInv
<1>6. CASE TakeSnapshot
    BY <1>0, <1>6 DEF TakeSnapshot, Pending, SnapInv
<1>7. CASE RecordSnapshot
    BY <1>0, <1>7 DEF RecordSnapshot, Pending, SnapInv
<1>8. CASE RecordRestore
    BY <1>0, <1>8 DEF RecordRestore, SnapInv
<1>9. CASE RunDelete
    BY <1>0, <1>9 DEF RunDelete, SnapInv
<1>10. ASSUME NEW retry \in BOOLEAN, FailSnapshot(retry) PROVE SnapInv'
  <2>1. failed'
    <3>1. budget \in [Rare -> Nat] /\ Budget \in [Rare -> Nat] /\ "callFails" \in Rare
      BY DEF TypeOK, Rare
    <3> QED BY <1>10, <3>1 DEF FailSnapshot, Spend, Spent, WithinBudget
  <2> QED BY <1>0, <1>10, <2>1 DEF FailSnapshot, Pending, SnapInv
<1> QED BY <1>1, <1>2, <1>3, <1>4, <1>5, <1>6, <1>7, <1>8, <1>9, <1>10, SweepsLeaveRange DEF Next, vars, Ends, Tasks
\* So does what the sweeps have read and nothing has stamped since.
LEMMA StandsStep == ASSUME DriftInv, TypeOK', [Next]_vars, NEW s \in Sweep PROVE StillStands(s)'
<1>0. /\ TypeOK /\ SnapInv /\ StillStands(s)
      /\ pc \in [Sweep -> {"idle", "locked", "chosen", "reading", "read", "settled", "ending"}]
      /\ seen \in [Sweep -> Reading \cup {Unread}] /\ stamped \in [Sweep -> BOOLEAN]
      /\ Spent("callFails") => Spent("callFails")'
    BY FailedStays DEF DriftInv, TypeOK
<1>1. ASSUME UNCHANGED <<range, snap>>, pc'[s] = pc[s], seen'[s] = seen[s], stamped'[s] = stamped[s]
      PROVE  StillStands(s)'
    BY <1>0, <1>1 DEF StillStands, range, snap
<1>2. ASSUME pc'[s] \notin {"read", "settled"} \/ stamped'[s] PROVE StillStands(s)'
    BY <1>2 DEF StillStands
<1>3. CASE Tick \/ Outage \/ Recovery
    BY <1>1, <1>3 DEF Tick, Outage, Recovery
<1>4. ASSUME NEW r \in Sweep, Acquire(r) \/ Step(r) \/ Renew(r) \/ Kill(r) PROVE StillStands(s)'
  <2>0. UNCHANGED <<range, snap>>
    BY <1>4, SweepsLeaveRange
  <2>1. CASE r # s
    <3>1. pc'[s] = pc[s] /\ seen'[s] = seen[s] /\ stamped'[s] = stamped[s]
      BY <1>0, <1>4, <2>1 DEF Acquire, Step, Renew, Kill, Choose, Since, Read, Settle, Save, Release, Over, Finish
    <3> QED BY <1>1, <2>0, <3>1
  <2>2. CASE r = s /\ Settle(s)
    BY <1>0, <2>0, <2>2 DEF Settle, Unsettled, Finish, StillStands, range, snap
  <2>3. ASSUME r = s, NEW fails \in BOOLEAN, Read(s, fails) PROVE StillStands(s)'
    <3>1. pc'[s] = "read" /\ stamped' = stamped
      BY <1>0, <2>3 DEF Read
    <3>2. seen'[s] = IF fails THEN Unread
                     ELSE [build |-> build, mid |-> busy, changed |-> changed, snapshot |-> held]
      BY <1>0, <2>3 DEF Read
    <3>3. CASE fails
      BY <3>2, <3>3 DEF StillStands
    <3>4. CASE ~fails
      BY <1>0, <2>0, <3>1, <3>2, <3>4 DEF StillStands, SnapInv, range, snap
    <3> QED BY <3>3, <3>4
  <2>4. CASE r = s /\ Renew(s)
    BY <1>1, <2>0, <2>4 DEF Renew
  <2>5. CASE r = s /\ (Acquire(s) \/ Kill(s) \/ Choose(s) \/ Since(s) \/ Save(s) \/ Release(s))
    BY <1>0, <1>2, <2>5 DEF Acquire, Kill, Choose, Since, Save, Release, Over, Finish
  <2> QED BY <1>4, <2>1, <2>2, <2>3, <2>4, <2>5 DEF Step
<1>5. ASSUME UNCHANGED <<pc, seen, stamped, row>>, held => held' \/ Spent("callFails")', busy => busy'
      PROVE  StillStands(s)'
    BY <1>0, <1>5 DEF StillStands
<1>6. CASE TakeSnapshot \/ Revert \/ Console \/ (RecordSnapshot /\ row \notin Pending)
  <2>1. held => held' \/ Spent("callFails")'
    BY <1>0, <1>6 DEF TakeSnapshot, Revert, Console, RecordSnapshot, SnapInv, Pending, snap
  <2>2. (busy => busy') /\ UNCHANGED <<pc, seen, stamped, row>>
    BY <1>6 DEF TakeSnapshot, Revert, Console, RecordSnapshot, snap, range
  <2> QED BY <1>5, <2>1, <2>2
<1>7. ASSUME Stamp, UNCHANGED pc PROVE StillStands(s)'
    BY <1>2, <1>7, StampType
<1>8. CASE Begin \/ Ends \/ CreateSnapshot \/ RestoreSnapshot \/ DeleteSnapshot \/ RecordRestore \/ RunDelete
             \/ (RecordSnapshot /\ row \in Pending) \/ (\E retry \in BOOLEAN : FailSnapshot(retry))
    BY <1>7, <1>8 DEF Begin, Ends, End, CreateSnapshot, RestoreSnapshot, DeleteSnapshot, RecordRestore, RunDelete,
                      RecordSnapshot, FailSnapshot
<1>9. CASE UNCHANGED vars
    BY <1>1, <1>9 DEF vars
<1> QED BY <1>3, <1>4, <1>6, <1>8, <1>9 DEF Next, Tasks

\* The invariant of the drift check holds initially ...
LEMMA DriftInit == ASSUME Init PROVE DriftInv
<1>1. TypeOK
    BY TypeInit
<1>2. SnapInv /\ WithinBudget
    BY DEF Init, SnapInv, WithinBudget
<1>3. \A s \in Sweep : StillStands(s)
    BY DEF Init, StillStands
<1> QED BY <1>1, <1>2, <1>3 DEF DriftInv

\* ... and every step keeps it.
LEMMA DriftStep == ASSUME DriftInv, [Next]_vars PROVE DriftInv'
<1>1. TypeOK'
    BY TypeStep DEF DriftInv
<1>2. SnapInv'
    BY <1>1, SnapStep DEF DriftInv
<1>3. WithinBudget'
  <2> SUFFICES ASSUME NEW f \in Rare PROVE budget'[f] <= Budget[f]
    BY DEF WithinBudget
  <2>1. budget'[f] <= budget[f] /\ budget[f] <= Budget[f]
    BY BudgetFalls DEF DriftInv, WithinBudget
  <2>2. budget'[f] \in Nat /\ budget[f] \in Nat /\ Budget[f] \in Nat
    BY <1>1 DEF DriftInv, TypeOK
  <2> QED BY <2>1, <2>2
<1>4. \A s \in Sweep : StillStands(s)'
    BY <1>1, StandsStep
<1> QED BY <1>1, <1>2, <1>3, <1>4 DEF DriftInv

\* A sweep that saves while nothing has stamped the range saves what is so.
LEMMA SaveIsReal ==
    ASSUME DriftInv, [Next]_vars, NEW s \in Sweep, Saves(s), entry' # entry, ~stamped[s]
    PROVE  /\ "vm" \in entry' => seen[s].changed \/ output[s] # seen[s].build
           /\ "snapshot_unexpected" \in entry' => "delete" \in tasks \/ Spent("callFails")
           /\ "snapshot_missing" \notin entry'
<1>1. Save(s)
  <2>1. pc[s] = "settled" /\ pc'[s] = "ending"
    BY DEF Saves
  <2>2. ~UNCHANGED pc
    BY <2>1
  <2>3. PICK r \in Sweep : Acquire(r) \/ Step(r) \/ Kill(r)
    BY <2>2, RangeLeavesSweeps DEF Next, vars, Tick, Outage, Recovery, Renew
  <2>4. r = s
    <3>1. pc \in [Sweep -> {"idle", "locked", "chosen", "reading", "read", "settled", "ending"}]
      BY DEF DriftInv, TypeOK
    <3>2. \A q \in Sweep : q # r => pc'[q] = pc[q]
      BY <2>3, <3>1 DEF Acquire, Step, Kill, Choose, Since, Read, Settle, Save, Release, Over, Finish
    <3> QED BY <2>1, <3>1, <3>2
  <2> QED BY <2>1, <2>3, <2>4 DEF Acquire, Step, Kill, Choose, Since, Read, Settle, Release, Over, Working, DriftInv, TypeOK
<1>2. seen[s] # Unread /\ entry' = Compare(s) /\ pc[s] = "settled"
    BY <1>1 DEF Save
<1>3. StillStands(s) /\ SnapInv /\ row \in {"none", "creating", "ready", "failed", "restoring", "deleted"}
    BY DEF DriftInv, TypeOK
<1>4. ASSUME "vm" \in entry' PROVE seen[s].changed \/ output[s] # seen[s].build
  <2>1. seen[s].changed \/ seen[s].mid \/ seen[s].build # output[s]
    BY <1>2, <1>4 DEF Compare, Finding
  <2> QED BY <1>2, <1>3, <2>1 DEF StillStands
<1>5. ASSUME "snapshot_unexpected" \in entry' PROVE "delete" \in tasks \/ Spent("callFails")
  <2>1. seen[s].snapshot /\ row \in {"none", "failed", "deleted"}
    BY <1>2, <1>5 DEF Compare, Finding
  <2> QED BY <1>2, <1>3, <2>1 DEF StillStands, SnapInv
<1>6. ASSUME "snapshot_missing" \in entry' PROVE FALSE
  <2>1. ~seen[s].snapshot /\ row \in {"ready", "restoring"}
    BY <1>2, <1>6 DEF Compare, Finding
  <2> QED BY <1>2, <1>3, <2>1 DEF StillStands
<1> QED BY <1>4, <1>5, <1>6

\* What enters the append-only record is what somebody changed (range_drift.py: unsettled), for any
\* number of sweeps, operations, snapshots and failures between a read and its write.
THEOREM RecordIsReal == Spec => RecordedDriftIsReal
<1>1. DriftInv /\ [Next]_vars =>
        [\A s \in Sweep : Saves(s) /\ entry' # entry /\ ~stamped[s] =>
            /\ "vm" \in entry' => seen[s].changed \/ output[s] # seen[s].build
            /\ "snapshot_unexpected" \in entry' => "delete" \in tasks \/ Spent("callFails")
            /\ "snapshot_missing" \notin entry']_vars
    BY SaveIsReal
<1> QED BY <1>1, DriftInit, DriftStep, PTL DEF Spec, RecordedDriftIsReal
===============================================================================
