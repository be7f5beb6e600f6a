---------------------- MODULE NetworkReservationsProofs ----------------------
(***************************************************************************)
(* Proofs about NetworkReservations, for any ranges, pools, templates and  *)
(* number of reads and faults. The rows of a range that is not destroyed   *)
(* change hands in no step but its own build's (HoldersKeep), and a        *)
(* build works only on what it was allocated (AllocInv, BuildInv): what a  *)
(* range uses stays its own and is recorded. Two ranges never make port    *)
(* groups on one VLAN because both would hold it, from the look at the     *)
(* switch until the port group is made (AloneInv).                         *)
(***************************************************************************)
EXTENDS NetworkReservations, FiniteSetTheorems, WellFoundedInduction, TLAPS

\* A set of numbers that is not empty has a least one.
LEMMA LeastExists ==
  ASSUME NEW S \in SUBSET Nat, S # {}
  PROVE  \E v \in S : \A w \in S : v <= w
<1> DEFINE R == OpToRel(<, Nat)
<1>1. IsWellFoundedOn(R, Nat)
  BY NatLessThanWellFounded
<1>2. \A v, w \in Nat : <<w, v>> \in R <=> w < v
  BY DEF OpToRel
<1> HIDE DEF R
<1>3. \E v \in S : \A w \in S : ~(<<w, v>> \in R)
  BY <1>1, WFMin
<1>4. PICK v \in S : \A w \in S : ~(<<w, v>> \in R)
  BY <1>3
<1>5. ASSUME NEW w \in S PROVE v <= w
  <2>1. v \in Nat /\ w \in Nat
    OBVIOUS
  <2>2. ~(w < v)
    BY <1>2, <1>4, <2>1
  <2>3. QED
    BY <2>1, <2>2
<1>6. QED
  BY <1>4, <1>5

LEMMA FirstIsIn == ASSUME NEW S \in SUBSET Nat, S # {} PROVE First(S) \in S
  BY LeastExists DEF First

-----------------------------------------------------------------------------
(* The type invariant, part by part.                                       *)

Address == ({"uplink_ip"} \X Uplinks) \cup ({"noise_mgmt_ip"} \X Mgmt)

VlanHolders  == Ranges \cup {Free, External}
OtherHolders == Ranges \cup {Free}

TableType ==
    /\ vlan \in [Vlans -> VlanHolders] /\ seen \in [Vlans -> 0 .. MaxReads]
    /\ uplink \in [Uplinks -> OtherHolders] /\ mgmt \in [Mgmt -> OtherHolders]

RecordType == rstate \in [Ranges -> State] /\ planned \in [Ranges -> SUBSET Vlans] /\ vms \in [Ranges -> BOOLEAN]

WorldType == pg \subseteq Vlans \X Owner /\ wire \in [Ranges -> SUBSET Address] /\ lost \in [Ranges -> BOOLEAN]

WorkType == task \in [Ranges -> Work] /\ clock \in 0 .. MaxReads /\ budget \in [Rare -> Nat]

GhostType == known \subseteq Vlans /\ shaky \subseteq known /\ dropped \subseteq Vlans \X Ranges

LEMMA TypeParts == TypeOK <=> TableType /\ RecordType /\ WorldType /\ WorkType /\ GhostType
  BY Zenon DEF TypeOK, TableType, RecordType, WorldType, WorkType, GhostType, VlanHolders, OtherHolders, Address

LEMMA TypePartsNext == TypeOK' <=> TableType' /\ RecordType' /\ WorldType' /\ WorkType' /\ GhostType'
  BY Zenon DEF TypeOK, TableType, RecordType, WorldType, WorkType, GhostType, VlanHolders, OtherHolders, Address

\* No holder is another kind of holder.
LEMMA Distinct == External \notin Ranges /\ Free \notin Ranges /\ Foreign \notin Ranges /\ Free # External
  BY NetworkAssumption

-----------------------------------------------------------------------------
(* What the operators on the table do to a row.                            *)

\* A pool's rows: t[v] is who holds v.
LEMMA ReclaimedRow ==
  ASSUME NEW P, NEW H, Ranges \cup {Free} \subseteq H, NEW t \in [P -> H]
  PROVE  /\ Reclaimed(t) \in [P -> H]
         /\ \A v \in P : \/ Reclaimed(t)[v] = t[v] /\ ~(t[v] \in Ranges /\ rstate[t[v]] = "destroyed")
                         \/ Reclaimed(t)[v] = Free /\ t[v] \in Ranges /\ rstate[t[v]] = "destroyed"
<1>1. Reclaimed(t) = [v \in P |-> IF t[v] \in Ranges /\ rstate[t[v]] = "destroyed" THEN Free ELSE t[v]]
  <2>1. DOMAIN t = P
    OBVIOUS
  <2>2. QED
    BY <2>1, Zenon DEF Reclaimed
<1>2. QED
  BY <1>1

LEMMA ReleasedRow ==
  ASSUME NEW P, NEW H, Ranges \cup {Free} \subseteq H, NEW t \in [P -> H], NEW r
  PROVE  Released(t, r) \in [P -> H] /\ \A v \in P : Released(t, r)[v] = IF t[v] = r THEN Free ELSE t[v]
  BY DEF Released

\* A reservation gives the range what nobody, or a destroyed range, held.
LEMMA ReservedRow ==
  ASSUME NEW P, NEW H, Ranges \cup {Free} \subseteq H, NEW t \in [P -> H], NEW r \in Ranges, NEW n
  PROVE  /\ Reserved(t, r, n) \in [P -> H]
         /\ \A v \in P : \/ Reserved(t, r, n)[v] = t[v]
                         \/ Reserved(t, r, n)[v] = Reclaimed(t)[v]
                         \/ Reserved(t, r, n)[v] = r /\ Reclaimed(t)[v] = Free
<1>1. Reclaimed(t) \in [P -> H] /\ DOMAIN t = P /\ DOMAIN Reclaimed(t) = P
  BY ReclaimedRow
<1> DEFINE low == Lowest(FreeValues(Reclaimed(t)), n - Cardinality(Held(t, r)))
<1>2. low \subseteq {v \in P : Reclaimed(t)[v] = Free}
  BY <1>1 DEF Lowest, FreeValues
<1>3. Reserved(t, r, n) = t \/ Reserved(t, r, n) = [v \in P |-> IF v \in low THEN r ELSE Reclaimed(t)[v]]
  BY <1>1 DEF Reserved
<1> HIDE DEF low
<1>4. CASE Reserved(t, r, n) = t
  BY <1>4
<1>5. CASE Reserved(t, r, n) = [v \in P |-> IF v \in low THEN r ELSE Reclaimed(t)[v]]
  BY <1>1, <1>2, <1>5
<1>6. QED
  BY <1>3, <1>4, <1>5

\* What a range that is not destroyed holds, or is used outside, stays so.
LEMMA ReservedKeeps ==
  ASSUME NEW P, NEW H, Ranges \cup {Free} \subseteq H, NEW t \in [P -> H], NEW r \in Ranges, NEW n
  PROVE  \A v \in P :
            /\ t[v] \in Ranges /\ rstate[t[v]] # "destroyed" => Reserved(t, r, n)[v] = t[v]
            /\ t[v] = External => Reserved(t, r, n)[v] = External
<1> TAKE v \in P
<1>1. \/ Reserved(t, r, n)[v] = t[v]
      \/ Reserved(t, r, n)[v] = Reclaimed(t)[v]
      \/ Reserved(t, r, n)[v] = r /\ Reclaimed(t)[v] = Free
  BY ReservedRow
<1>2. \/ Reclaimed(t)[v] = t[v] /\ ~(t[v] \in Ranges /\ rstate[t[v]] = "destroyed")
      \/ Reclaimed(t)[v] = Free /\ t[v] \in Ranges /\ rstate[t[v]] = "destroyed"
  BY ReclaimedRow
<1>3. QED
  BY <1>1, <1>2, Distinct

\* A value nobody held is still free, or the range's.
LEMMA ReservedFree ==
  ASSUME NEW P, NEW H, Ranges \cup {Free} \subseteq H, NEW t \in [P -> H], NEW r \in Ranges, NEW n,
         NEW v \in P, t[v] = Free
  PROVE  Reserved(t, r, n)[v] # External
<1>1. \/ Reserved(t, r, n)[v] = t[v]
      \/ Reserved(t, r, n)[v] = Reclaimed(t)[v]
      \/ Reserved(t, r, n)[v] = r /\ Reclaimed(t)[v] = Free
  BY ReservedRow
<1>2. \/ Reclaimed(t)[v] = t[v] /\ ~(t[v] \in Ranges /\ rstate[t[v]] = "destroyed")
      \/ Reclaimed(t)[v] = Free /\ t[v] \in Ranges /\ rstate[t[v]] = "destroyed"
  BY ReclaimedRow
<1>3. QED
  BY <1>1, <1>2, Distinct

\* A range that can reserve an address holds one afterwards.
LEMMA ReservedHolds ==
  ASSUME NEW P \in SUBSET Nat, NEW H, Ranges \cup {Free} \subseteq H, NEW t \in [P -> H], NEW r \in Ranges,
         IsFiniteSet(P), rstate[r] # "destroyed", CanReserve(t, r, 1)
  PROVE  \E a \in P : Reserved(t, r, 1)[a] = r
<1>1. Reclaimed(t) \in [P -> H] /\ DOMAIN t = P /\ DOMAIN Reclaimed(t) = P
  BY ReclaimedRow
<1>2. CASE Held(t, r) # {}
  <2>1. PICK a \in P : t[a] = r
    BY <1>1, <1>2 DEF Held
  <2>2. QED
    <3>1. Held(t, r) \subseteq P
      BY <1>1 DEF Held
    <3>2. IsFiniteSet(Held(t, r)) /\ Cardinality(Held(t, r)) \in Nat
      BY <3>1, FS_Subset, FS_CardinalityType
    <3>3. Cardinality(Held(t, r)) # 0
      BY <1>2, <3>2, FS_EmptySet
    <3>4. Reserved(t, r, 1) = t
      BY <3>2, <3>3 DEF Reserved
    <3>5. QED
      BY <2>1, <3>4
<1>3. CASE Held(t, r) = {}
  <2>1. Cardinality(Held(t, r)) = 0
    BY <1>3, FS_EmptySet
  <2> DEFINE S == FreeValues(Reclaimed(t))
  <2>2. S # {} /\ S \subseteq P
    <3>3. S \subseteq P
      BY <1>1 DEF FreeValues
    <3>5. Cardinality(S) \in Nat
      BY <3>3, FS_Subset, FS_CardinalityType
    <3>1. Cardinality(S) >= 1
      BY <2>1, <3>5 DEF CanReserve
    <3>2. S = {} => Cardinality(S) = 0
      BY FS_EmptySet
    <3>4. QED
      BY <3>1, <3>2, <3>3
  <2>3. PICK a \in S : \A w \in S : a <= w
    BY <2>2, LeastExists
  <2>4. {w \in S : w < a} = {}
    <3>1. ASSUME NEW w \in S PROVE ~(w < a)
      <4>1. w \in Nat /\ a \in Nat /\ a <= w
        BY <2>2, <2>3
      <4>2. QED
        BY <4>1
    <3>2. QED
      BY <3>1
  <2>5. Cardinality({w \in S : w < a}) = 0
    BY <2>4, FS_EmptySet
  <2>6. a \in Lowest(S, 1)
    BY <2>3, <2>5 DEF Lowest
  <2>7. Reserved(t, r, 1) = [v \in P |-> IF v \in Lowest(S, 1) THEN r ELSE Reclaimed(t)[v]]
    BY <1>1, <2>1 DEF Reserved
  <2>8. QED
    BY <2>2, <2>3, <2>6, <2>7
<1>4. QED
  BY <1>2, <1>3

\* What a build's read leaves: rows of ranges that are not destroyed, and what the read found.
LEMMA RecordedRow ==
  ASSUME TypeOK, NEW w \in Work
  PROVE  /\ Recorded(w) \in [Vlans -> VlanHolders]
         /\ \A v \in Vlans :
              /\ vlan[v] \in Ranges /\ rstate[vlan[v]] # "destroyed" => Recorded(w)[v] = vlan[v]
              /\ v \in w.fv \cup w.mv /\ vlan[v] = External => Recorded(w)[v] = External
              /\ vlan[v] = External /\ w.at <= seen[v] => Recorded(w)[v] = External
<1>1. vlan \in [Vlans -> VlanHolders] /\ seen \in [Vlans -> Nat] /\ w.at \in Nat
      /\ w.fv \cup w.mv \subseteq Vlans
  <2>1. 0 .. MaxReads \subseteq Nat
    OBVIOUS
  <2>2. QED
    BY <2>1, TypeParts DEF TableType, Work
<1>2. /\ Reclaimed(vlan) \in [Vlans -> VlanHolders]
      /\ \A v \in Vlans : \/ Reclaimed(vlan)[v] = vlan[v] /\ ~(vlan[v] \in Ranges /\ rstate[vlan[v]] = "destroyed")
                          \/ Reclaimed(vlan)[v] = Free /\ vlan[v] \in Ranges /\ rstate[vlan[v]] = "destroyed"
  <2>1. Ranges \cup {Free} \subseteq VlanHolders
    BY DEF VlanHolders
  <2>2. QED
    BY <1>1, <2>1, ReclaimedRow
<1>3. Recorded(w) \in [Vlans -> VlanHolders]
  BY <1>2 DEF Recorded, VlanHolders
<1>4. ASSUME NEW v \in Vlans
      PROVE  /\ vlan[v] \in Ranges /\ rstate[vlan[v]] # "destroyed" => Recorded(w)[v] = vlan[v]
             /\ v \in w.fv \cup w.mv /\ vlan[v] = External => Recorded(w)[v] = External
             /\ vlan[v] = External /\ w.at <= seen[v] => Recorded(w)[v] = External
  <2>1. Recorded(w)[v] = IF v \in Want(w) THEN External ELSE IF v \in Drops(w) THEN Free ELSE Reclaimed(vlan)[v]
    BY DEF Recorded
  <2>2. vlan[v] \in Ranges /\ rstate[vlan[v]] # "destroyed" => v \notin Want(w) /\ v \notin Drops(w)
    BY <1>2, Distinct DEF Want, Drops
  <2>3. v \in w.fv \cup w.mv /\ vlan[v] = External => v \in Want(w)
    BY <1>2, Distinct DEF Want
  <2>4. w.at <= seen[v] => v \notin Drops(w)
    BY <1>1 DEF Drops
  <2>5. QED
    BY <1>2, <2>1, <2>2, <2>3, <2>4, Distinct
<1>5. QED
  BY <1>3, <1>4

\* The rows after a build's reservation: what a template that was edited no longer has (stale)
\* may have changed hands.
LEMMA ReservableRow ==
  ASSUME TypeOK, NEW w \in Work, NEW r \in Ranges, NEW stale, NEW n, stale \subseteq Held(vlan, r)
  PROVE  /\ Reserved(Pruned(w, stale), r, n) \in [Vlans -> VlanHolders]
         /\ \A v \in Vlans :
              /\ vlan[v] \in Ranges /\ rstate[vlan[v]] # "destroyed" /\ v \notin stale =>
                    Reserved(Pruned(w, stale), r, n)[v] = vlan[v]
              /\ v \in w.fv \cup w.mv /\ vlan[v] = External => Reserved(Pruned(w, stale), r, n)[v] = External
              /\ vlan[v] = External /\ w.at <= seen[v] => Reserved(Pruned(w, stale), r, n)[v] = External
              /\ v \in stale => vlan[v] = r /\ Reserved(Pruned(w, stale), r, n)[v] # External
<1> DEFINE t == Pruned(w, stale)
<1>1. Recorded(w) \in [Vlans -> VlanHolders] /\ Ranges \cup {Free} \subseteq VlanHolders
  BY RecordedRow DEF VlanHolders
<1>2. t \in [Vlans -> VlanHolders] /\ \A v \in Vlans : v \notin stale => t[v] = Recorded(w)[v]
  BY <1>1 DEF Pruned
<1>3. \A v \in stale : vlan[v] = r
  BY DEF Held
<1> HIDE DEF t
<1>4. Reserved(t, r, n) \in [Vlans -> VlanHolders]
  BY <1>1, <1>2, ReservedRow
<1>5. \A v \in Vlans :
             /\ t[v] \in Ranges /\ rstate[t[v]] # "destroyed" => Reserved(t, r, n)[v] = t[v]
             /\ t[v] = External => Reserved(t, r, n)[v] = External
  BY <1>1, <1>2, ReservedKeeps
<1>6. ASSUME NEW v \in Vlans
      PROVE  /\ vlan[v] \in Ranges /\ rstate[vlan[v]] # "destroyed" /\ v \notin stale => Reserved(t, r, n)[v] = vlan[v]
             /\ v \in w.fv \cup w.mv /\ vlan[v] = External => Reserved(t, r, n)[v] = External
             /\ vlan[v] = External /\ w.at <= seen[v] => Reserved(t, r, n)[v] = External
  <2>1. vlan[v] = External => v \notin stale
    BY <1>3, Distinct
  <2>2. /\ vlan[v] \in Ranges /\ rstate[vlan[v]] # "destroyed" => Recorded(w)[v] = vlan[v]
        /\ v \in w.fv \cup w.mv /\ vlan[v] = External => Recorded(w)[v] = External
        /\ vlan[v] = External /\ w.at <= seen[v] => Recorded(w)[v] = External
    BY RecordedRow
  <2>3. QED
    BY <1>2, <1>5, <2>1, <2>2
<1>7. ASSUME NEW v \in Vlans, v \in stale PROVE Reserved(t, r, n)[v] # External
  <2>1. t \in [Vlans -> VlanHolders] /\ Ranges \cup {Free} \subseteq VlanHolders
    BY <1>1, <1>2
  <2>2. t[v] = Free
    BY <1>7 DEF t, Pruned
  <2>3. QED
    BY <2>1, <2>2, ReservedFree
<1>8. QED
  BY <1>3, <1>4, <1>6, <1>7 DEF t

-----------------------------------------------------------------------------
(* Types.                                                                  *)

LEMMA SpendType == ASSUME TypeOK, NEW f \in Rare, Spend(f) \/ UNCHANGED budget PROVE budget' \in [Rare -> Nat]
  BY TypeParts DEF WorkType, Spend

LEMMA NoWorkType ==
  /\ NoWork \in Work
  /\ \A pc \in PC : [NoWork EXCEPT !.pc = pc] \in Work
  /\ \A pc \in PC, n \in 0 .. MaxReads : [NoWork EXCEPT !.pc = pc, !.at = n] \in Work
<1>1. 0 \in 0 .. MaxReads
  BY NetworkAssumption
<1>2. NoWork \in Work
  BY <1>1 DEF NoWork, Work, PC
<1>3. QED
  BY <1>2 DEF Work

LEMMA TaskType ==
  ASSUME TypeOK, NEW r \in Ranges, NEW w \in Work, Work_(r, w)
  PROVE  task' \in [Ranges -> Work] /\ task'[r] = w /\ \A s \in Ranges : s # r => task'[s] = task[s]
<1>1. task \in [Ranges -> Work] /\ task' = [task EXCEPT ![r] = w]
  BY TypeParts DEF WorkType, Work_
<1>2. QED
  BY <1>1

\* The step of a task changes nothing else's type.
LEMMA TypeRest ==
  ASSUME TypeOK, rstate' \in [Ranges -> State], task' \in [Ranges -> Work], budget' \in [Rare -> Nat],
         clock' \in 0 .. MaxReads,
         UNCHANGED <<vlan, seen, uplink, mgmt, planned, vms, pg, wire, lost, known, shaky, dropped>>
  PROVE  TypeOK'
<1>1. TableType' /\ RecordType' /\ WorldType' /\ WorkType' /\ GhostType'
  BY TypeParts DEF TableType, RecordType, WorldType, WorkType, GhostType
<1>2. QED
  BY <1>1, TypePartsNext

-----------------------------------------------------------------------------
(* The inductive invariant.                                                *)

\* No rare event happens more often than its bound.
WithinBudget == \A f \in Rare : budget[f] <= Budget[f]

\* A build between its reservation and its VMs, or after a collision.
Allocated == {"reserved", "checking", "creating", "collided"}

\* The VLANs a build was allocated are its range's, and recorded; so is its address.
AllocInv(r) ==
    task[r].pc \in Allocated =>
        /\ rstate[r] # "destroyed" => \A v \in task[r].alloc : vlan[v] = r
        /\ task[r].alloc \subseteq planned[r] /\ task[r].todo \subseteq task[r].alloc
        /\ task[r].release \subseteq task[r].alloc
        /\ task[r].pc # "collided" =>
              /\ task[r].up \in Uplinks /\ (rstate[r] # "destroyed" => uplink[task[r].up] = r)
              /\ task[r].release = {}
        /\ task[r].pc = "creating" => task[r].todo # {}

\* The range's port groups are among those its build was allocated.
BuildInv(r) ==
    task[r].pc \in Allocated \cup {"result"} =>
        \A v \in Vlans : <<v, r>> \in pg \ dropped => v \in task[r].alloc /\ v \notin task[r].release

\* What the range uses is reserved for it and recorded.
UseInv(r) ==
    /\ \A v \in Vlans : <<v, r>> \in pg \ dropped => v \in planned[r] /\ (rstate[r] # "destroyed" => vlan[v] = r)
    /\ \A a \in Uplinks : <<"uplink_ip", a>> \in wire[r] /\ rstate[r] # "destroyed" => uplink[a] = r

\* The management addresses its VMs use are reserved for it, unless it does not record them.
MgmtInv(r) ==
    /\ wire[r] # {} => vms[r] \/ lost[r] \/ task[r].pc = "result"
    /\ \A a \in Mgmt : <<"noise_mgmt_ip", a>> \in wire[r] /\ rstate[r] # "destroyed" => mgmt[a] = r \/ lost[r]

\* A read under way that missed a foreign port group started before the row's date.
ReadInv ==
    /\ \A v \in known : <<v, Foreign>> \in pg
    /\ \A v \in known \ shaky :
          /\ vlan[v] = External
          /\ \A s \in Ranges : task[s].pc = "read" /\ v \notin task[s].fv => task[s].at <= seen[v]
    /\ \A s \in Ranges : task[s].at <= clock

\* Nothing works on a destroyed range; a port group that is about to be made is alone.
AloneInv(r) ==
    /\ rstate[r] = "destroyed" => task[r].pc = "idle"
    /\ task[r].pc = "creating" =>
          LET v == First(task[r].todo) IN <<v, r>> \in pg \/ \A s \in Ranges \ {r} : <<v, s>> \notin pg
    /\ \A v \in Vlans, s \in Ranges : <<v, r>> \in pg /\ <<v, s>> \in pg => r = s

\* The VMs of a range that is gone, or being torn down, are gone.
GoneInv(r) ==
    /\ ~lost[r]
    /\ rstate[r] = "destroyed" \/ task[r].pc = "torndown" => wire[r] = {}
    /\ wire[r] # {} => vms[r] \/ task[r].pc = "result"
    /\ \A a \in Mgmt : <<"noise_mgmt_ip", a>> \in wire[r] => mgmt[a] = r

NetInv ==
    /\ TypeOK /\ WithinBudget
    /\ \A r \in Ranges : AllocInv(r) /\ BuildInv(r) /\ UseInv(r) /\ MgmtInv(r)
    /\ ReadInv
    /\ Spent("writeOff") \/ \A r \in Ranges : AloneInv(r)
    /\ Spent("writeOff") \/ Spent("partial") \/ Spent("crash") \/ \A r \in Ranges : GoneInv(r)

-----------------------------------------------------------------------------
(* What each step changes.                                                 *)

\* A step of one range's: nothing of the others' changes but the table.
Frame(r) ==
    /\ \A s \in Ranges \ {r} :
          /\ rstate'[s] = rstate[s] /\ task'[s] = task[s]
          /\ planned'[s] = planned[s] /\ vms'[s] = vms[s] /\ wire'[s] = wire[s] /\ lost'[s] = lost[s]
    /\ \A v \in Vlans, o \in Owner \ {r} : <<v, o>> \in pg' <=> <<v, o>> \in pg
    /\ \A v \in Vlans, s \in Ranges \ {r} : <<v, s>> \in dropped' <=> <<v, s>> \in dropped
    /\ clock' \in Nat /\ clock <= clock'

\* A range that is destroyed stays so.
StaysDestroyed == \A s \in Ranges : rstate[s] = "destroyed" => rstate'[s] = "destroyed"

\* The steps that change only a range's state and its task.
Quiet(r) ==
    \/ AcceptDestroy(r) \/ Abandon(r) \/ WriteOff(r)
    \/ StartBuild(r) \/ LiveRead(r) \/ ReserveRefused(r) \/ Prepare(r) \/ CheckPortgroup(r) \/ RecordFailure(r)
    \/ DestroyPartial(r) \/ DestroyFailed(r) \/ RecordDestroyed(r)

\* What becomes of the task in such a step.
QuietTask(r) ==
    \/ task'[r] = task[r] /\ (AcceptDestroy(r) \/ Abandon(r) \/ WriteOff(r))
    \/ StartBuild(r) /\ task'[r] = [NoWork EXCEPT !.pc = "stamped", !.at = clock']
    \/ LiveRead(r) /\ task'[r] = [task[r] EXCEPT !.pc = "read",
                                    !.fv = {v \in Vlans : <<v, Foreign>> \in pg},
                                    !.mv = {v \in Vlans : \E s \in Ranges : <<v, s>> \in pg}]
    \/ Prepare(r) /\ task'[r] = [task[r] EXCEPT !.pc = "checking", !.uses = pg, !.todo = task[r].alloc]
    \/ CheckPortgroup(r) /\ task'[r] = [task[r] EXCEPT !.pc = "creating"]
    \/ (ReserveRefused(r) \/ RecordFailure(r) \/ RecordDestroyed(r)) /\ task'[r] = NoWork
    \/ DestroyPartial(r) /\ task'[r] = [NoWork EXCEPT !.pc = "torndown"]
    \/ DestroyFailed(r) /\ task'[r] = [NoWork EXCEPT !.pc = "failed"]

LEMMA QuietStep ==
  ASSUME TypeOK, NEW r \in Ranges, Quiet(r)
  PROVE  /\ TypeOK' /\ Frame(r) /\ StaysDestroyed /\ QuietTask(r)
         /\ UNCHANGED <<vlan, seen, uplink, mgmt, planned, vms, pg, wire, lost, known, shaky, dropped>>
         /\ rstate'[r] = "destroyed" => rstate[r] = "destroyed" \/ WriteOff(r) \/ RecordDestroyed(r)
<1>1. task \in [Ranges -> Work] /\ rstate \in [Ranges -> State] /\ clock \in 0 .. MaxReads /\ clock \in Nat
      /\ task[r] \in Work /\ pg \subseteq Vlans \X Owner
  BY TypeParts DEF RecordType, WorkType, WorldType
<1>2. UNCHANGED <<vlan, seen, uplink, mgmt, planned, vms, pg, wire, lost, known, shaky, dropped>>
  BY DEF Quiet, AcceptDestroy, Abandon, WriteOff, StartBuild, LiveRead, ReserveRefused, Prepare, CheckPortgroup,
         RecordFailure, DestroyPartial, DestroyFailed, RecordDestroyed, table, world, ghost
<1>3. clock' \in 0 .. MaxReads /\ clock' \in Nat /\ clock <= clock'
  <2>1. clock' = clock \/ (clock < MaxReads /\ clock' = clock + 1)
    BY DEF Quiet, AcceptDestroy, Abandon, WriteOff, StartBuild, LiveRead, ReserveRefused, Prepare, CheckPortgroup,
           RecordFailure, DestroyPartial, DestroyFailed, RecordDestroyed
  <2>2. QED
    BY <1>1, <2>1, NetworkAssumption
<1>4. /\ rstate' \in [Ranges -> State] /\ \A s \in Ranges \ {r} : rstate'[s] = rstate[s]
      /\ rstate[r] = "destroyed" => rstate'[r] = "destroyed"
      /\ rstate'[r] = "destroyed" => rstate[r] = "destroyed" \/ WriteOff(r) \/ RecordDestroyed(r)
  <2>1. CASE UNCHANGED rstate
    BY <1>1, <2>1
  <2>2. CASE AcceptDestroy(r) \/ Abandon(r) \/ WriteOff(r)
    BY <1>1, <2>2 DEF AcceptDestroy, Abandon, WriteOff, State
  <2>3. CASE ReserveRefused(r) \/ RecordFailure(r) \/ RecordDestroyed(r)
    BY <1>1, <2>3 DEF ReserveRefused, RecordFailure, RecordDestroyed, State
  <2>4. QED
    BY <2>1, <2>2, <2>3 DEF Quiet, StartBuild, LiveRead, Prepare, CheckPortgroup, DestroyPartial, DestroyFailed
<1>5. budget' \in [Rare -> Nat]
  <2>1. (\E f \in Rare : Spend(f)) \/ UNCHANGED budget
    BY DEF Quiet, AcceptDestroy, Abandon, WriteOff, StartBuild, LiveRead, ReserveRefused, Prepare, CheckPortgroup,
           RecordFailure, DestroyPartial, DestroyFailed, RecordDestroyed, Rare
  <2>2. QED
    BY <2>1, SpendType DEF Rare
<1>6. /\ task' \in [Ranges -> Work] /\ \A s \in Ranges \ {r} : task'[s] = task[s]
      /\ QuietTask(r)
  <2>1. CASE AcceptDestroy(r) \/ Abandon(r) \/ WriteOff(r)
    BY <1>1, <2>1 DEF AcceptDestroy, Abandon, WriteOff, QuietTask
  <2>2. CASE StartBuild(r)
    <3>1. [NoWork EXCEPT !.pc = "stamped", !.at = clock'] \in Work
      BY <1>3, NoWorkType DEF PC
    <3>2. QED
      BY <2>2, <3>1, TaskType DEF StartBuild, QuietTask
  <2>3. CASE LiveRead(r)
    <3>1. [task[r] EXCEPT !.pc = "read", !.fv = {v \in Vlans : <<v, Foreign>> \in pg},
                          !.mv = {v \in Vlans : \E s \in Ranges : <<v, s>> \in pg}] \in Work
      BY <1>1 DEF Work, PC
    <3>2. QED
      BY <2>3, <3>1, TaskType DEF LiveRead, QuietTask
  <2>4. CASE Prepare(r)
    <3>1. [task[r] EXCEPT !.pc = "checking", !.uses = pg, !.todo = task[r].alloc] \in Work
      BY <1>1 DEF Work, PC
    <3>2. QED
      BY <2>4, <3>1, TaskType DEF Prepare, QuietTask
  <2>5. CASE CheckPortgroup(r)
    <3>1. [task[r] EXCEPT !.pc = "creating"] \in Work
      BY <1>1 DEF Work, PC
    <3>2. QED
      BY <2>5, <3>1, TaskType DEF CheckPortgroup, QuietTask
  <2>6. CASE ReserveRefused(r) \/ RecordFailure(r) \/ RecordDestroyed(r)
    BY <2>6, NoWorkType, TaskType DEF ReserveRefused, RecordFailure, RecordDestroyed, QuietTask
  <2>7. CASE DestroyPartial(r) \/ DestroyFailed(r)
    BY <2>7, NoWorkType, TaskType DEF DestroyPartial, DestroyFailed, QuietTask, PC
  <2>8. QED
    BY <2>1, <2>2, <2>3, <2>4, <2>5, <2>6, <2>7 DEF Quiet
<1>7. TypeOK'
  BY <1>2, <1>3, <1>4, <1>5, <1>6, TypeRest
<1>8. Frame(r) /\ StaysDestroyed
  BY <1>2, <1>3, <1>4, <1>6 DEF Frame, StaysDestroyed
<1>9. QED
  BY <1>2, <1>4, <1>6, <1>7, <1>8

LEMMA AcceptProvisionStep ==
  ASSUME TypeOK, NEW r \in Ranges, NEW noisy \in BOOLEAN, AcceptProvision(r, noisy)
  PROVE  /\ TypeOK' /\ Frame(r) /\ StaysDestroyed
         /\ UNCHANGED <<vlan, seen, uplink, planned, vms, pg, wire, lost, task, known, shaky, dropped, clock, budget>>
         /\ ~vms[r] /\ task[r].pc = "idle" /\ rstate'[r] = "provisioning"
         /\ \A s \in Ranges \ {r}, a \in Mgmt : mgmt[a] = s /\ rstate[s] # "destroyed" => mgmt'[a] = s
<1>1. /\ UNCHANGED <<vlan, seen, uplink, planned, vms, pg, wire, lost, task, known, shaky, dropped, clock, budget>>
      /\ rstate' = [rstate EXCEPT ![r] = "provisioning"] /\ rstate[r] \in {"created", "failed"}
      /\ ~vms[r] /\ task[r].pc = "idle"
  BY DEF AcceptProvision, world, ghost
<1>2. rstate \in [Ranges -> State] /\ mgmt \in [Mgmt -> OtherHolders] /\ clock \in Nat
  BY TypeParts DEF RecordType, TableType, WorkType
<1> DEFINE n == IF noisy THEN 1 ELSE 0
           t == IF noisy THEN mgmt ELSE Released(mgmt, r)
<1>3. Ranges \cup {Free} \subseteq OtherHolders
  BY DEF OtherHolders
<1>4. /\ t \in [Mgmt -> OtherHolders]
      /\ \A s \in Ranges \ {r}, a \in Mgmt : mgmt[a] = s => t[a] = s
  BY <1>2, <1>3, ReleasedRow
<1>5. mgmt' = Reserved(t, r, n)
  BY DEF AcceptProvision
<1> HIDE DEF t, n
<1>6. mgmt' \in [Mgmt -> OtherHolders]
  BY <1>3, <1>4, <1>5, ReservedRow
<1>7. \A a \in Mgmt : t[a] \in Ranges /\ rstate[t[a]] # "destroyed" => Reserved(t, r, n)[a] = t[a]
  BY <1>3, <1>4, ReservedKeeps
<1>8. rstate' \in [Ranges -> State]
  BY <1>1, <1>2 DEF State
<1>9. TypeOK'
  <2>1. TableType' /\ RecordType' /\ WorldType' /\ WorkType' /\ GhostType'
    BY <1>1, <1>6, <1>8, TypeParts DEF TableType, RecordType, WorldType, WorkType, GhostType
  <2>2. QED
    BY <2>1, TypePartsNext
<1>10. Frame(r) /\ StaysDestroyed
  BY <1>1, <1>2 DEF Frame, StaysDestroyed
<1>11. QED
  BY <1>1, <1>2, <1>4, <1>5, <1>7, <1>9, <1>10

LEMMA ReleaseStep ==
  ASSUME TypeOK, NEW r \in Ranges, Release(r)
  PROVE  /\ TypeOK' /\ Frame(r) /\ StaysDestroyed
         /\ UNCHANGED <<rstate, seen, planned, vms, pg, wire, lost, task, known, shaky, dropped, clock, budget>>
         /\ rstate[r] = "destroyed"
         /\ \A v \in Vlans : vlan[v] # r => vlan'[v] = vlan[v]
         /\ \A a \in Uplinks : uplink[a] # r => uplink'[a] = uplink[a]
         /\ \A a \in Mgmt : mgmt[a] # r => mgmt'[a] = mgmt[a]
<1>1. /\ UNCHANGED <<rstate, seen, planned, vms, pg, wire, lost, task, known, shaky, dropped, clock, budget>>
      /\ rstate[r] = "destroyed"
      /\ vlan' = Released(vlan, r) /\ uplink' = Released(uplink, r) /\ mgmt' = Released(mgmt, r)
  BY DEF Release, world, ghost
<1>2. /\ vlan \in [Vlans -> VlanHolders] /\ mgmt \in [Mgmt -> OtherHolders] /\ uplink \in [Uplinks -> OtherHolders]
      /\ clock \in Nat
  BY TypeParts DEF TableType, WorkType
<1>3. Ranges \cup {Free} \subseteq OtherHolders /\ Ranges \cup {Free} \subseteq VlanHolders
  BY DEF OtherHolders, VlanHolders
<1>4. vlan' \in [Vlans -> VlanHolders] /\ \A v \in Vlans : vlan[v] # r => vlan'[v] = vlan[v]
  <2>1. vlan \in [Vlans -> VlanHolders] /\ Ranges \cup {Free} \subseteq VlanHolders
    BY <1>2, <1>3
  <2>2. /\ Released(vlan, r) \in [Vlans -> VlanHolders]
        /\ \A v \in Vlans : Released(vlan, r)[v] = IF vlan[v] = r THEN Free ELSE vlan[v]
    BY <2>1, ReleasedRow
  <2>3. QED
    BY <1>1, <2>2
<1>5. uplink' \in [Uplinks -> OtherHolders] /\ \A a \in Uplinks : uplink[a] # r => uplink'[a] = uplink[a]
  <2>1. uplink \in [Uplinks -> OtherHolders] /\ Ranges \cup {Free} \subseteq OtherHolders
    BY <1>2, <1>3
  <2>2. /\ Released(uplink, r) \in [Uplinks -> OtherHolders]
        /\ \A a \in Uplinks : Released(uplink, r)[a] = IF uplink[a] = r THEN Free ELSE uplink[a]
    BY <2>1, ReleasedRow
  <2>3. QED
    BY <1>1, <2>2
<1>6. mgmt' \in [Mgmt -> OtherHolders] /\ \A a \in Mgmt : mgmt[a] # r => mgmt'[a] = mgmt[a]
  <2>1. mgmt \in [Mgmt -> OtherHolders] /\ Ranges \cup {Free} \subseteq OtherHolders
    BY <1>2, <1>3
  <2>2. /\ Released(mgmt, r) \in [Mgmt -> OtherHolders]
        /\ \A a \in Mgmt : Released(mgmt, r)[a] = IF mgmt[a] = r THEN Free ELSE mgmt[a]
    BY <2>1, ReleasedRow
  <2>3. QED
    BY <1>1, <2>2
<1>7. TypeOK'
  <2>1. TableType' /\ RecordType' /\ WorldType' /\ WorkType' /\ GhostType'
    BY <1>1, <1>4, <1>5, <1>6, TypeParts DEF TableType, RecordType, WorldType, WorkType, GhostType
  <2>2. QED
    BY <2>1, TypePartsNext
<1>8. Frame(r) /\ StaysDestroyed
  BY <1>1, <1>2 DEF Frame, StaysDestroyed
<1>9. QED
  BY <1>1, <1>4, <1>5, <1>6, <1>7, <1>8

LEMMA UplinkKeeps ==
  ASSUME NEW r \in Ranges, uplink \in [Uplinks -> OtherHolders], Ranges \cup {Free} \subseteq OtherHolders
  PROVE  \A a \in Uplinks : uplink[a] \in Ranges /\ rstate[uplink[a]] # "destroyed" => Reserved(uplink, r, 1)[a] = uplink[a]
  BY ReservedKeeps

LEMMA ReserveStep ==
  ASSUME TypeOK, NEW r \in Ranges, NEW stale, NEW n, Reserve(r, stale, n)
  PROVE  /\ TypeOK' /\ Frame(r) /\ StaysDestroyed
         /\ UNCHANGED <<rstate, mgmt, vms, pg, wire, lost, clock>>
         /\ task[r].pc = "read" /\ rstate[r] = "provisioning" /\ stale \subseteq Held(vlan, r)
         /\ vlan' = Reserved(Pruned(task[r], stale), r, n) /\ seen' = SeenAfter(task[r])
         /\ \A v \in Vlans : <<v, r>> \in pg \ dropped' => vlan'[v] = r \/ (<<v, r>> \notin dropped /\ v \notin stale)
         /\ planned'[r] = Held(vlan', r)
         /\ task'[r].pc = "reserved" /\ task'[r].alloc = Held(vlan', r) /\ task'[r].up \in Uplinks
         /\ uplink'[task'[r].up] = r /\ task'[r].todo = {} /\ task'[r].release = {} /\ task'[r].at = 0
         /\ \A a \in Uplinks : uplink[a] \in Ranges /\ rstate[uplink[a]] # "destroyed" => uplink'[a] = uplink[a]
         /\ known' = known \cup {v \in task[r].fv : vlan'[v] = External /\ <<v, Foreign>> \in pg}
         /\ shaky' = shaky \cup {v \in known' \ known :
                              \E s \in Ranges : task[s].pc = "read" /\ task[s].at > task[r].at}
<1> DEFINE up == CHOOSE a \in Uplinks : uplink'[a] = r
           w == [NoWork EXCEPT !.pc = "reserved", !.alloc = Held(vlan', r), !.up = up]
<1>1. /\ UNCHANGED <<rstate, mgmt, vms, pg, wire, lost, clock>>
      /\ task[r].pc = "read" /\ rstate[r] = "provisioning" /\ CanReserve(uplink, r, 1) /\ stale \subseteq Held(vlan, r)
      /\ vlan' = Reserved(Pruned(task[r], stale), r, n) /\ seen' = SeenAfter(task[r]) /\ uplink' = Reserved(uplink, r, 1)
      /\ dropped' = (dropped \cup {<<v, r>> : v \in {u \in stale : <<u, r>> \in pg}}) \ {<<v, r>> : v \in Held(vlan', r)}
      /\ planned' = [planned EXCEPT ![r] = Held(vlan', r)]
      /\ known' = known \cup {v \in task[r].fv : vlan'[v] = External /\ <<v, Foreign>> \in pg}
      /\ shaky' = shaky \cup {v \in known' \ known :
                              \E s \in Ranges : task[s].pc = "read" /\ task[s].at > task[r].at}
  BY DEF Reserve, world
<1>2. Work_(r, w)
  BY DEF Reserve
<1>3. /\ task[r] \in Work /\ clock \in Nat /\ planned \in [Ranges -> SUBSET Vlans] /\ seen \in [Vlans -> 0 .. MaxReads]
      /\ uplink \in [Uplinks -> OtherHolders] /\ task[r].at \in 0 .. MaxReads /\ task[r].fv \subseteq Vlans
      /\ known \subseteq Vlans /\ shaky \subseteq known
  BY TypeParts DEF WorkType, RecordType, TableType, GhostType, Work
<1>4. Ranges \cup {Free} \subseteq OtherHolders /\ Uplinks \in SUBSET Nat /\ IsFiniteSet(Uplinks)
  BY NetworkAssumption DEF OtherHolders
<1>5. vlan' \in [Vlans -> VlanHolders]
  BY <1>1, <1>3, ReservableRow
<1>6. /\ uplink' \in [Uplinks -> OtherHolders]
      /\ \A a \in Uplinks : uplink[a] \in Ranges /\ rstate[uplink[a]] # "destroyed" => uplink'[a] = uplink[a]
  <2>1. uplink' \in [Uplinks -> OtherHolders]
    BY <1>1, <1>3, <1>4, ReservedRow
  <2>2. \A a \in Uplinks : uplink[a] \in Ranges /\ rstate[uplink[a]] # "destroyed" => Reserved(uplink, r, 1)[a] = uplink[a]
    <3>1. uplink \in [Uplinks -> OtherHolders] /\ Ranges \cup {Free} \subseteq OtherHolders
      BY <1>3, <1>4
    <3>2. QED
      BY <3>1, UplinkKeeps
  <2>3. QED
    BY <1>1, <2>1, <2>2
<1>7. up \in Uplinks /\ uplink'[up] = r
  <2>1. \E a \in Uplinks : Reserved(uplink, r, 1)[a] = r
    BY <1>1, <1>3, <1>4, ReservedHolds, SMTT(60)
  <2>2. QED
    BY <1>1, <2>1
<1>8. seen' \in [Vlans -> 0 .. MaxReads]
  BY <1>1, <1>3 DEF SeenAfter
<1>9. Held(vlan', r) \subseteq Vlans
  BY <1>5 DEF Held
<1> HIDE DEF up
<1>10. /\ w \in Work /\ w.pc = "reserved" /\ w.alloc = Held(vlan', r) /\ w.up = up
       /\ w.todo = {} /\ w.release = {} /\ w.at = 0
  <2>1. NoWork \in Work /\ NoWork.todo = {} /\ NoWork.release = {} /\ NoWork.at = 0
    BY NoWorkType DEF NoWork
  <2>2. QED
    BY <1>7, <1>9, <2>1 DEF Work, PC
<1> HIDE DEF w
<1>11. task' \in [Ranges -> Work] /\ task'[r] = w /\ \A s \in Ranges : s # r => task'[s] = task[s]
  BY <1>2, <1>10, TaskType
<1>12. planned' \in [Ranges -> SUBSET Vlans] /\ planned'[r] = Held(vlan', r) /\ \A s \in Ranges : s # r => planned'[s] = planned[s]
  BY <1>1, <1>3, <1>9
<1>13. known' \subseteq Vlans /\ shaky' \subseteq known'
  BY <1>1, <1>3
<1>13a. /\ dropped' \subseteq Vlans \X Ranges
        /\ \A v \in Vlans, s \in Ranges \ {r} : <<v, s>> \in dropped' <=> <<v, s>> \in dropped
        /\ \A v \in Vlans : <<v, r>> \in pg \ dropped' => vlan'[v] = r \/ (<<v, r>> \notin dropped /\ v \notin stale)
  <2>1. dropped \subseteq Vlans \X Ranges /\ stale \subseteq Vlans
    BY <1>1, TypeParts DEF GhostType, Held, TableType
  <2>2. \A v \in Held(vlan', r) : vlan'[v] = r
    BY DEF Held
  <2>3. dropped' = (dropped \cup {<<v, r>> : v \in {u \in stale : <<u, r>> \in pg}}) \ {<<v, r>> : v \in Held(vlan', r)}
    BY <1>1
  <2>4. dropped' \subseteq Vlans \X Ranges
    <3>1. \A u \in stale : <<u, r>> \in Vlans \X Ranges
      BY <2>1
    <3>2. dropped' \subseteq dropped \cup {<<v, r>> : v \in {u \in stale : <<u, r>> \in pg}}
      BY <2>3
    <3>3. ASSUME NEW x \in dropped' PROVE x \in Vlans \X Ranges
      <4>1. x \in dropped \/ \E u \in stale : x = <<u, r>>
        BY <3>2
      <4>2. QED
        BY <2>1, <3>1, <4>1
    <3>4. QED
      BY <3>3
  <2>5. ASSUME NEW v \in Vlans, NEW s \in Ranges \ {r} PROVE <<v, s>> \in dropped' <=> <<v, s>> \in dropped
    BY <2>3
  <2>6. ASSUME NEW v \in Vlans, <<v, r>> \in pg \ dropped'
        PROVE  vlan'[v] = r \/ (<<v, r>> \notin dropped /\ v \notin stale)
    <3>1. v \in Held(vlan', r) \/ (<<v, r>> \notin dropped /\ v \notin stale)
      BY <2>3, <2>6
    <3>2. QED
      BY <2>2, <3>1
  <2>7. QED
    BY <2>4, <2>5, <2>6
<1>13b. budget' \in [Rare -> Nat]
  BY SpendType DEF Reserve, Rare
<1>14. TypeOK'
  <2>1. TableType' /\ RecordType' /\ WorldType' /\ WorkType' /\ GhostType'
    BY <1>1, <1>5, <1>6, <1>8, <1>11, <1>12, <1>13, <1>13a, <1>13b, TypeParts DEF TableType, RecordType, WorldType, WorkType, GhostType
  <2>2. QED
    BY <2>1, TypePartsNext
<1>15. Frame(r) /\ StaysDestroyed
  <2>1. \A s \in Ranges \ {r} :
          /\ rstate'[s] = rstate[s] /\ task'[s] = task[s]
          /\ planned'[s] = planned[s] /\ vms'[s] = vms[s] /\ wire'[s] = wire[s] /\ lost'[s] = lost[s]
    BY <1>1, <1>11, <1>12
  <2>2. pg' = pg /\ clock' = clock /\ clock \in Nat /\ rstate' = rstate
    BY <1>1, <1>3
  <2>3. QED
    BY <1>13a, <2>1, <2>2 DEF Frame, StaysDestroyed
<1>16. QED
  BY <1>1, <1>6, <1>7, <1>10, <1>11, <1>12, <1>13a, <1>14, <1>15

\* The facts about types that the rest of the build's and the destroy's steps use.
LEMMA WorkFacts ==
  ASSUME TypeOK, NEW r \in Ranges
  PROVE  /\ task \in [Ranges -> Work] /\ task[r] \in Work /\ clock \in Nat
         /\ task[r].alloc \subseteq Vlans /\ task[r].todo \subseteq Vlans /\ task[r].made \subseteq Vlans
         /\ task[r].release \subseteq Vlans /\ task[r].hit \subseteq Vlans /\ task[r].fv \subseteq Vlans
         /\ task[r].at \in Nat
         /\ task[r].todo # {} => First(task[r].todo) \in task[r].todo
<1>1. task \in [Ranges -> Work] /\ task[r] \in Work /\ clock \in Nat
  BY TypeParts DEF WorkType
<1>2. /\ task[r].alloc \subseteq Vlans /\ task[r].todo \subseteq Vlans /\ task[r].made \subseteq Vlans
      /\ task[r].release \subseteq Vlans /\ task[r].hit \subseteq Vlans /\ task[r].fv \subseteq Vlans
      /\ task[r].at \in Nat
  BY <1>1 DEF Work
<1>3. task[r].todo # {} => First(task[r].todo) \in task[r].todo
  <2>1. task[r].todo \in SUBSET Nat
    BY <1>2, NetworkAssumption
  <2>2. QED
    BY <2>1, FirstIsIn
<1>4. QED
  BY <1>1, <1>2, <1>3

LEMMA CreatePortgroupStep ==
  ASSUME TypeOK, NEW r \in Ranges, CreatePortgroup(r), task[r].todo # {}
  PROVE  /\ TypeOK' /\ Frame(r) /\ StaysDestroyed
         /\ UNCHANGED <<rstate, vlan, seen, uplink, mgmt, planned, vms, wire, lost, known, shaky, dropped, clock, budget>>
         /\ task[r].pc = "creating" /\ pg' = pg \cup {<<First(task[r].todo), r>>}
         /\ First(task[r].todo) \in task[r].todo
         /\ task'[r].pc = "checking" /\ task'[r].todo \subseteq task[r].todo
         /\ task'[r].alloc = task[r].alloc /\ task'[r].up = task[r].up /\ task'[r].release = task[r].release
         /\ task'[r].at = task[r].at
<1> DEFINE v == First(task[r].todo)
           w == [task[r] EXCEPT !.pc = "checking", !.todo = @ \ {v},
                          !.made = IF <<v, r>> \in task[r].uses THEN @ ELSE @ \cup {v}]
<1>1. /\ UNCHANGED <<rstate, vlan, seen, uplink, mgmt, planned, vms, wire, lost, known, shaky, dropped, clock, budget>>
      /\ task[r].pc = "creating" /\ pg' = pg \cup {<<v, r>>} /\ Work_(r, w)
  BY DEF CreatePortgroup, table, ghost
<1>2. /\ v \in task[r].todo /\ v \in Vlans /\ task[r] \in Work /\ task[r].made \subseteq Vlans /\ clock \in Nat
      /\ task[r].todo \subseteq Vlans
  BY WorkFacts
<1> HIDE DEF v
<1>3. /\ w \in Work /\ w.pc = "checking" /\ w.todo \subseteq task[r].todo /\ w.alloc = task[r].alloc
      /\ w.up = task[r].up /\ w.release = task[r].release /\ w.at = task[r].at
  BY <1>2 DEF Work, PC
<1> HIDE DEF w
<1>4. task' \in [Ranges -> Work] /\ task'[r] = w /\ \A s \in Ranges : s # r => task'[s] = task[s]
  BY <1>1, <1>3, TaskType
<1>5. pg' \subseteq Vlans \X Owner
  BY <1>1, <1>2, TypeParts DEF WorldType, Owner
<1>6. TypeOK'
  <2>1. TableType' /\ RecordType' /\ WorldType' /\ WorkType' /\ GhostType'
    BY <1>1, <1>4, <1>5, TypeParts DEF TableType, RecordType, WorldType, WorkType, GhostType
  <2>2. QED
    BY <2>1, TypePartsNext
<1>7. Frame(r) /\ StaysDestroyed
  BY <1>1, <1>2, <1>4 DEF Frame, StaysDestroyed
<1>8. QED
  BY <1>1, <1>2, <1>3, <1>4, <1>6, <1>7 DEF v

LEMMA CollideStep ==
  ASSUME TypeOK, NEW r \in Ranges, NEW undone \in BOOLEAN, NEW blind \in BOOLEAN, Collide(r, undone, blind)
  PROVE  /\ TypeOK' /\ Frame(r) /\ StaysDestroyed
         /\ UNCHANGED <<rstate, vlan, seen, uplink, mgmt, planned, vms, wire, lost, known, shaky, clock>>
         /\ task[r].pc = "checking" /\ pg' \subseteq pg /\ dropped \subseteq dropped'
         /\ task'[r].pc = "collided" /\ task'[r].todo = {} /\ task'[r].alloc = task[r].alloc
         /\ task'[r].release \subseteq task[r].alloc /\ task'[r].at = task[r].at
         /\ \A v \in task'[r].release : <<v, r>> \in pg' => <<v, r>> \in dropped'
<1> DEFINE kept == {v \in task[r].alloc : blind \/ (<<v, r>> \in pg' /\ ~OthersOn(pg', v, r))}
           gone == {u \in task[r].alloc \ kept : <<u, r>> \in pg'}
           w == [task[r] EXCEPT !.pc = "collided", !.todo = {}, !.made = {},
                          !.release = task[r].alloc \ kept, !.hit = {First(task[r].todo)}]
<1>1. /\ UNCHANGED <<rstate, vlan, seen, uplink, mgmt, planned, vms, wire, lost, known, shaky, clock>>
      /\ task[r].pc = "checking" /\ task[r].todo # {} /\ Work_(r, w)
      /\ pg' = (IF undone THEN pg \ {<<v, r>> : v \in task[r].made} ELSE pg)
      /\ dropped' = dropped \cup {<<v, r>> : v \in gone}
  BY DEF Collide, table
<1>2. /\ First(task[r].todo) \in task[r].todo /\ task[r].todo \subseteq Vlans /\ task[r] \in Work
      /\ task[r].alloc \subseteq Vlans /\ clock \in Nat
  BY <1>1, WorkFacts
<1>3. kept \subseteq task[r].alloc /\ gone \subseteq Vlans /\ \A v \in task[r].alloc \ kept : <<v, r>> \in pg' => v \in gone
  BY <1>2
<1> HIDE DEF kept, gone
<1>4. /\ w \in Work /\ w.pc = "collided" /\ w.todo = {} /\ w.alloc = task[r].alloc
      /\ w.release = task[r].alloc \ kept /\ w.at = task[r].at
  BY <1>2 DEF Work, PC
<1> HIDE DEF w
<1>5. task' \in [Ranges -> Work] /\ task'[r] = w /\ \A s \in Ranges : s # r => task'[s] = task[s]
  BY <1>1, <1>4, TaskType
<1>6. /\ dropped' \subseteq Vlans \X Ranges /\ dropped \subseteq dropped'
      /\ \A v \in Vlans, s \in Ranges \ {r} : <<v, s>> \in dropped' <=> <<v, s>> \in dropped
  BY <1>1, <1>3, TypeParts DEF GhostType
<1>7. /\ pg' \subseteq pg /\ pg' \subseteq Vlans \X Owner
      /\ \A v \in Vlans, o \in Owner \ {r} : <<v, o>> \in pg' <=> <<v, o>> \in pg
  BY <1>1, TypeParts DEF WorldType
<1>8. budget' \in [Rare -> Nat]
  BY SpendType DEF Collide, Rare
<1>9. TypeOK'
  <2>1. TableType' /\ RecordType' /\ WorldType' /\ WorkType' /\ GhostType'
    BY <1>1, <1>5, <1>6, <1>7, <1>8, TypeParts DEF TableType, RecordType, WorldType, WorkType, GhostType
  <2>2. QED
    BY <2>1, TypePartsNext
<1>10. Frame(r) /\ StaysDestroyed
  BY <1>1, <1>2, <1>5, <1>6, <1>7 DEF Frame, StaysDestroyed
<1>11. QED
  BY <1>1, <1>3, <1>4, <1>5, <1>6, <1>7, <1>9, <1>10

LEMMA ReleaseConflictStep ==
  ASSUME TypeOK, NEW r \in Ranges, NEW ok \in BOOLEAN, ReleaseConflict(r, ok)
  PROVE  /\ TypeOK' /\ Frame(r) /\ StaysDestroyed
         /\ UNCHANGED <<rstate, uplink, mgmt, vms, pg, wire, lost, clock, shaky, dropped>>
         /\ task[r].pc = "collided" /\ task'[r] = [NoWork EXCEPT !.pc = "failed"]
         /\ \A v \in Vlans :
              /\ vlan[v] \in Ranges /\ rstate[vlan[v]] # "destroyed" /\ ~(v \in task[r].release /\ vlan[v] = r) =>
                    vlan'[v] = vlan[v]
              /\ vlan[v] = External => vlan'[v] = External /\ seen'[v] = seen[v]
              /\ v \in planned[r] /\ v \notin task[r].release => v \in planned'[r]
              /\ v \in known' => v \in known \/ (vlan'[v] = External /\ seen'[v] = clock /\ <<v, Foreign>> \in pg)
<1>1. /\ UNCHANGED <<rstate, uplink, mgmt, vms, pg, wire, lost, clock, shaky, dropped>>
      /\ task[r].pc = "collided" /\ Work_(r, [NoWork EXCEPT !.pc = "failed"])
  BY DEF ReleaseConflict, world, ghost
<1>2. task' \in [Ranges -> Work] /\ task'[r] = [NoWork EXCEPT !.pc = "failed"] /\ \A s \in Ranges : s # r => task'[s] = task[s]
  BY <1>1, TaskType, NoWorkType DEF PC
<1>3. budget' \in [Rare -> Nat]
  BY SpendType DEF ReleaseConflict, Rare
<1>4. /\ task[r].release \subseteq Vlans /\ task[r].hit \subseteq Vlans /\ clock \in Nat /\ clock \in 0 .. MaxReads
      /\ planned \in [Ranges -> SUBSET Vlans] /\ vlan \in [Vlans -> VlanHolders] /\ seen \in [Vlans -> 0 .. MaxReads]
      /\ known \subseteq Vlans /\ shaky \subseteq known
  BY WorkFacts, TypeParts DEF RecordType, TableType, GhostType, WorkType
<1>5. Ranges \cup {Free} \subseteq VlanHolders /\ External \in VlanHolders
  BY DEF VlanHolders
<1>6. /\ Reclaimed(vlan) \in [Vlans -> VlanHolders]
      /\ \A v \in Vlans : \/ Reclaimed(vlan)[v] = vlan[v] /\ ~(vlan[v] \in Ranges /\ rstate[vlan[v]] = "destroyed")
                          \/ Reclaimed(vlan)[v] = Free /\ vlan[v] \in Ranges /\ rstate[vlan[v]] = "destroyed"
  BY <1>4, <1>5, ReclaimedRow
<1> DEFINE freed == [v \in Vlans |-> IF v \in task[r].release /\ vlan[v] = r THEN Free ELSE Reclaimed(vlan)[v]]
           new == {v \in task[r].hit : freed[v] = Free}
<1>7. CASE ok /\ rstate[r] = "provisioning"
  <2>1. /\ vlan' = [v \in Vlans |-> IF v \in new THEN External ELSE freed[v]]
        /\ seen' = [v \in Vlans |-> IF v \in new THEN clock ELSE seen[v]]
        /\ known' = known \cup {v \in new : <<v, Foreign>> \in pg}
        /\ planned' = [planned EXCEPT ![r] = @ \ task[r].release]
    BY <1>7 DEF ReleaseConflict
  <2>2. freed \in [Vlans -> VlanHolders] /\ new \subseteq Vlans
    BY <1>4, <1>5, <1>6
  <2>3. ASSUME NEW v \in Vlans
        PROVE  /\ vlan[v] = External => freed[v] = External
               /\ vlan[v] \in Ranges /\ rstate[vlan[v]] # "destroyed" /\ ~(v \in task[r].release /\ vlan[v] = r) =>
                    freed[v] = vlan[v]
               /\ v \in new => freed[v] = Free
    BY <1>6, Distinct
  <2> HIDE DEF freed, new
  <2>4. vlan' \in [Vlans -> VlanHolders] /\ seen' \in [Vlans -> 0 .. MaxReads] /\ known' \subseteq Vlans /\ shaky' \subseteq known'
    BY <1>1, <1>4, <1>5, <2>1, <2>2
  <2>5. planned' \in [Ranges -> SUBSET Vlans] /\ \A s \in Ranges : s # r => planned'[s] = planned[s]
    BY <1>4, <2>1
  <2>6. \A v \in Vlans :
              /\ vlan[v] \in Ranges /\ rstate[vlan[v]] # "destroyed" /\ ~(v \in task[r].release /\ vlan[v] = r) =>
                    vlan'[v] = vlan[v]
              /\ vlan[v] = External => vlan'[v] = External /\ seen'[v] = seen[v]
    BY <2>1, <2>3, Distinct
  <2>7. \A v \in Vlans :
              /\ v \in planned[r] /\ v \notin task[r].release => v \in planned'[r]
              /\ v \in known' => v \in known \/ (vlan'[v] = External /\ seen'[v] = clock /\ <<v, Foreign>> \in pg)
    BY <1>4, <2>1
  <2>8. TableType' /\ RecordType' /\ WorldType' /\ WorkType' /\ GhostType'
    BY <1>1, <1>2, <1>3, <2>4, <2>5, TypeParts DEF TableType, RecordType, WorldType, WorkType, GhostType
  <2>9. Frame(r) /\ StaysDestroyed
    BY <1>1, <1>2, <1>4, <2>5 DEF Frame, StaysDestroyed
  <2>10. QED
    BY <1>1, <1>2, <2>6, <2>7, <2>8, <2>9, TypePartsNext
<1>8. CASE ~(ok /\ rstate[r] = "provisioning")
  <2>1. UNCHANGED <<vlan, seen, known, planned>>
    BY <1>8 DEF ReleaseConflict, ghost
  <2>2. TableType' /\ RecordType' /\ WorldType' /\ WorkType' /\ GhostType'
    BY <1>1, <1>2, <1>3, <2>1, TypeParts DEF TableType, RecordType, WorldType, WorkType, GhostType
  <2>3. Frame(r) /\ StaysDestroyed
    BY <1>1, <1>2, <1>4, <2>1 DEF Frame, StaysDestroyed
  <2>4. QED
    BY <1>1, <1>2, <2>1, <2>2, <2>3, TypePartsNext
<1>9. QED
  BY <1>7, <1>8

LEMMA BuildVmsStep ==
  ASSUME TypeOK, NEW r \in Ranges, BuildVms(r), task[r].up \in Uplinks
  PROVE  /\ TypeOK' /\ Frame(r) /\ StaysDestroyed
         /\ UNCHANGED <<rstate, vlan, seen, uplink, mgmt, planned, vms, pg, lost, known, shaky, dropped, clock, budget>>
         /\ task[r].pc = "checking" /\ task'[r].pc = "result" /\ task'[r].alloc = task[r].alloc
         /\ task'[r].release = {} /\ task'[r].at = 0
         /\ wire'[r] = wire[r] \cup {<<"uplink_ip", task[r].up>>} \cup {<<"noise_mgmt_ip", a>> : a \in Held(mgmt, r)}
<1> DEFINE w == [NoWork EXCEPT !.pc = "result", !.alloc = task[r].alloc]
           more == {<<"uplink_ip", task[r].up>>} \cup {<<"noise_mgmt_ip", a>> : a \in Held(mgmt, r)}
<1>1. /\ UNCHANGED <<rstate, vlan, seen, uplink, mgmt, planned, vms, pg, lost, known, shaky, dropped, clock, budget>>
      /\ task[r].pc = "checking" /\ Work_(r, w)
      /\ wire' = [wire EXCEPT ![r] = @ \cup {<<"uplink_ip", task[r].up>>} \cup {<<"noise_mgmt_ip", a>> : a \in Held(mgmt, r)}]
  BY DEF BuildVms, table, ghost
<1>2. /\ wire \in [Ranges -> SUBSET Address] /\ mgmt \in [Mgmt -> OtherHolders] /\ clock \in Nat
      /\ task[r].alloc \subseteq Vlans
  BY WorkFacts, TypeParts DEF WorldType, TableType
<1>3. more \subseteq Address
  <2>1. Held(mgmt, r) \subseteq Mgmt
    BY <1>2 DEF Held
  <2>2. QED
    BY <2>1 DEF Address
<1>4. /\ wire' \in [Ranges -> SUBSET Address] /\ \A s \in Ranges : s # r => wire'[s] = wire[s]
      /\ wire'[r] = wire[r] \cup {<<"uplink_ip", task[r].up>>} \cup {<<"noise_mgmt_ip", a>> : a \in Held(mgmt, r)}
  BY <1>1, <1>2, <1>3
<1>5. w \in Work /\ w.pc = "result" /\ w.alloc = task[r].alloc /\ w.release = {} /\ w.at = 0
  <2>1. NoWork \in Work /\ NoWork.release = {} /\ NoWork.at = 0
    BY NoWorkType DEF NoWork
  <2>2. QED
    BY <1>2, <2>1 DEF Work, PC
<1> HIDE DEF w
<1>6. task' \in [Ranges -> Work] /\ task'[r] = w /\ \A s \in Ranges : s # r => task'[s] = task[s]
  BY <1>1, <1>5, TaskType
<1>7. TypeOK'
  <2>1. TableType' /\ RecordType' /\ WorldType' /\ WorkType' /\ GhostType'
    BY <1>1, <1>4, <1>6, TypeParts DEF TableType, RecordType, WorldType, WorkType, GhostType
  <2>2. QED
    BY <2>1, TypePartsNext
<1>8. Frame(r) /\ StaysDestroyed
  BY <1>1, <1>2, <1>4, <1>6 DEF Frame, StaysDestroyed
<1>9. QED
  BY <1>1, <1>4, <1>5, <1>6, <1>7, <1>8

\* The steps that end a task: its port groups or addresses go, or are recorded.
LEMMA EndStep ==
  ASSUME TypeOK, NEW r \in Ranges, NEW ok \in BOOLEAN, NEW final \in BOOLEAN, NEW to \in {"ready", "failed"},
         BuildFailed(r, ok, final) \/ RecordBuilt(r, to) \/ DiscardBuilt(r, ok) \/ DestroyOk(r) \/ Crash(r)
  PROVE  /\ TypeOK' /\ Frame(r) /\ StaysDestroyed
         /\ UNCHANGED <<vlan, seen, uplink, mgmt, known, shaky, dropped, clock>>
         /\ pg' \subseteq pg /\ wire'[r] \subseteq wire[r]
         /\ task'[r].pc \in {"idle", "failed", "torndown"} /\ task'[r].at = 0
         /\ planned'[r] = planned[r] \/ (task[r].pc = "result" /\ planned'[r] = task[r].alloc)
         /\ rstate'[r] = rstate[r] \/ (rstate'[r] # "destroyed" /\ rstate[r] # "destroyed")
<1>1. UNCHANGED <<vlan, seen, uplink, mgmt, known, shaky, dropped, clock>>
  BY DEF BuildFailed, RecordBuilt, DiscardBuilt, DestroyOk, Crash, table, ghost
<1>2. /\ rstate \in [Ranges -> State] /\ planned \in [Ranges -> SUBSET Vlans] /\ vms \in [Ranges -> BOOLEAN]
      /\ pg \subseteq Vlans \X Owner /\ wire \in [Ranges -> SUBSET Address] /\ lost \in [Ranges -> BOOLEAN]
      /\ clock \in Nat /\ task[r].alloc \subseteq Vlans /\ budget \in [Rare -> Nat]
  BY WorkFacts, TypeParts DEF WorldType, RecordType, WorkType
<1>3. /\ rstate' \in [Ranges -> State] /\ \A s \in Ranges \ {r} : rstate'[s] = rstate[s]
      /\ rstate'[r] = rstate[r] \/ (rstate'[r] # "destroyed" /\ rstate[r] # "destroyed")
  <2>1. UNCHANGED rstate \/ (rstate' = [rstate EXCEPT ![r] = to] /\ rstate[r] = "provisioning")
    BY DEF BuildFailed, RecordBuilt, DiscardBuilt, DestroyOk, Crash
  <2>2. QED
    BY <1>2, <2>1 DEF State
<1>4. /\ planned' \in [Ranges -> SUBSET Vlans] /\ \A s \in Ranges \ {r} : planned'[s] = planned[s]
      /\ planned'[r] = planned[r] \/ (task[r].pc = "result" /\ planned'[r] = task[r].alloc)
  <2>1. UNCHANGED planned \/ (task[r].pc = "result" /\ planned' = [planned EXCEPT ![r] = task[r].alloc])
    BY DEF BuildFailed, RecordBuilt, DiscardBuilt, DestroyOk, Crash
  <2>2. QED
    BY <1>2, <2>1
<1>5. vms' \in [Ranges -> BOOLEAN] /\ \A s \in Ranges \ {r} : vms'[s] = vms[s]
  <2>1. UNCHANGED vms \/ vms' = [vms EXCEPT ![r] = TRUE]
    BY DEF BuildFailed, RecordBuilt, DiscardBuilt, DestroyOk, Crash
  <2>2. QED
    BY <1>2, <2>1
<1>6. /\ pg' \subseteq pg
      /\ \A v \in Vlans, o \in Owner \ {r} : <<v, o>> \in pg' <=> <<v, o>> \in pg
  <2>1. \E S \in SUBSET Vlans : pg' = pg \ {<<v, r>> : v \in S}
    <3>1. task[r].alloc \in SUBSET Vlans /\ planned[r] \in SUBSET Vlans /\ {} \in SUBSET Vlans
      BY <1>2
    <3>2. \/ pg' = pg
          \/ pg' = pg \ {<<v, r>> : v \in task[r].alloc}
          \/ pg' = pg \ {<<v, r>> : v \in planned[r]}
      BY DEF BuildFailed, RecordBuilt, DiscardBuilt, DestroyOk, Crash, world
    <3>3. pg = pg \ {<<v, r>> : v \in {}}
      OBVIOUS
    <3>4. QED
      BY <3>1, <3>2, <3>3
  <2>2. QED
    BY <2>1
<1>7. wire' \in [Ranges -> SUBSET Address] /\ wire'[r] \subseteq wire[r] /\ \A s \in Ranges \ {r} : wire'[s] = wire[s]
  <2>1. UNCHANGED wire \/ wire' = [wire EXCEPT ![r] = {}]
    BY DEF BuildFailed, RecordBuilt, DiscardBuilt, DestroyOk, Crash, world
  <2>2. QED
    BY <1>2, <2>1
<1>8. lost' \in [Ranges -> BOOLEAN] /\ \A s \in Ranges \ {r} : lost'[s] = lost[s]
  <2>1. UNCHANGED lost \/ lost' = [lost EXCEPT ![r] = @ \/ task[r].pc = "result"]
    BY DEF BuildFailed, RecordBuilt, DiscardBuilt, DestroyOk, Crash, world
  <2>2. \A x : (lost[r] \/ task[r].pc = "result") \in BOOLEAN
    BY Zenon
  <2>3. QED
    BY <1>2, <2>1, <2>2
<1>9. /\ task' \in [Ranges -> Work] /\ \A s \in Ranges : s # r => task'[s] = task[s]
      /\ task'[r].pc \in {"idle", "failed", "torndown"} /\ task'[r].at = 0
  <2>1. \E pc \in {"idle", "failed", "torndown"} : Work_(r, [NoWork EXCEPT !.pc = pc])
    <3>1. [NoWork EXCEPT !.pc = "idle"] = NoWork
      BY DEF NoWork
    <3>2. QED
      BY <3>1 DEF BuildFailed, RecordBuilt, DiscardBuilt, DestroyOk, Crash
  <2>2. PICK pc \in {"idle", "failed", "torndown"} : Work_(r, [NoWork EXCEPT !.pc = pc])
    BY <2>1
  <2>3. [NoWork EXCEPT !.pc = pc] \in Work /\ [NoWork EXCEPT !.pc = pc].pc = pc /\ [NoWork EXCEPT !.pc = pc].at = 0
    BY NoWorkType DEF NoWork, PC
  <2>4. QED
    BY <2>2, <2>3, TaskType
<1>10. budget' \in [Rare -> Nat]
  BY SpendType DEF BuildFailed, RecordBuilt, DiscardBuilt, DestroyOk, Crash, Rare
<1>11. TypeOK'
  <2>1. TableType' /\ RecordType' /\ WorldType' /\ WorkType' /\ GhostType'
    BY <1>1, <1>2, <1>3, <1>4, <1>5, <1>6, <1>7, <1>8, <1>9, <1>10, TypeParts
       DEF TableType, RecordType, WorldType, WorkType, GhostType
  <2>2. QED
    BY <2>1, TypePartsNext
<1>12. Frame(r) /\ StaysDestroyed
  BY <1>1, <1>2, <1>3, <1>4, <1>5, <1>6, <1>7, <1>8, <1>9 DEF Frame, StaysDestroyed
<1>13. QED
  BY <1>1, <1>3, <1>4, <1>6, <1>7, <1>9, <1>11, <1>12

\* Somebody else's port groups.
LEMMA ForeignStep ==
  ASSUME TypeOK, NEW u \in Vlans, ForeignAdded(u) \/ ForeignRemoved(u)
  PROVE  /\ TypeOK'
         /\ UNCHANGED <<rstate, vlan, seen, uplink, mgmt, planned, vms, wire, lost, task, clock, dropped>>
         /\ \A v \in Vlans, s \in Ranges : <<v, s>> \in pg' <=> <<v, s>> \in pg
         /\ known' \subseteq known /\ known' \ shaky' \subseteq known \ shaky
         /\ \A v \in known' : <<v, Foreign>> \in pg => <<v, Foreign>> \in pg'
<1>1. UNCHANGED <<rstate, vlan, seen, uplink, mgmt, planned, vms, wire, lost, task, clock, dropped>>
  BY DEF ForeignAdded, ForeignRemoved, table, ghost
<1>2. pg \subseteq Vlans \X Owner /\ known \subseteq Vlans /\ shaky \subseteq known
  BY TypeParts DEF WorldType, GhostType
<1>3. pg' = pg \cup {<<u, Foreign>>} \/ pg' = pg \ {<<u, Foreign>>}
  BY DEF ForeignAdded, ForeignRemoved
<1>4. pg' \subseteq Vlans \X Owner /\ \A v \in Vlans, s \in Ranges : <<v, s>> \in pg' <=> <<v, s>> \in pg
  BY <1>2, <1>3, Distinct DEF Owner
<1>5. /\ known' \subseteq known /\ known' \ shaky' \subseteq known \ shaky /\ shaky' \subseteq known'
      /\ \A v \in known' : <<v, Foreign>> \in pg => <<v, Foreign>> \in pg'
  BY <1>2 DEF ForeignAdded, ForeignRemoved, ghost
<1>6. budget' \in [Rare -> Nat]
  BY SpendType DEF ForeignAdded, ForeignRemoved, Rare
<1>7. TableType' /\ RecordType' /\ WorldType' /\ WorkType' /\ GhostType'
  BY <1>1, <1>2, <1>4, <1>5, <1>6, TypeParts DEF TableType, RecordType, WorldType, WorkType, GhostType
<1>8. QED
  BY <1>1, <1>4, <1>5, <1>7, TypePartsNext

-----------------------------------------------------------------------------
(* What a range uses is its own, and recorded: the steps.                  *)

CoreInv(r) == AllocInv(r) /\ BuildInv(r) /\ UseInv(r)

\* What a range that is not destroyed holds stays its own.
HoldersKeep(s) ==
    rstate[s] # "destroyed" =>
        /\ \A v \in Vlans : vlan[v] = s => vlan'[v] = s
        /\ \A a \in Uplinks : uplink[a] = s => uplink'[a] = s

\* The other ranges' part.
LEMMA OthersCore ==
  ASSUME TypeOK, NEW r \in Ranges, Frame(r), StaysDestroyed, NEW s \in Ranges \ {r}, HoldersKeep(s), CoreInv(s)
  PROVE  CoreInv(s)'
<1>1. /\ rstate'[s] = rstate[s] /\ task'[s] = task[s] /\ planned'[s] = planned[s] /\ wire'[s] = wire[s]
      /\ \A v \in Vlans : (<<v, s>> \in pg' <=> <<v, s>> \in pg) /\ (<<v, s>> \in dropped' <=> <<v, s>> \in dropped)
  BY DEF Frame, Owner
<1>2. task[s].alloc \subseteq Vlans
  BY WorkFacts
<1>3. AllocInv(s)'
  BY <1>1, <1>2 DEF CoreInv, AllocInv, HoldersKeep
<1>4. BuildInv(s)'
  BY <1>1 DEF CoreInv, BuildInv
<1>5. UseInv(s)'
  BY <1>1 DEF CoreInv, UseInv, HoldersKeep
<1>6. QED
  BY <1>3, <1>4, <1>5 DEF CoreInv

\* Nothing is added to what the range uses, and its build ends or stays where it is.
LEMMA LeavesCore ==
  ASSUME TypeOK, NEW r \in Ranges, StaysDestroyed, HoldersKeep(r), CoreInv(r),
         \A v \in Vlans : <<v, r>> \in pg' \ dropped' => <<v, r>> \in pg \ dropped,
         wire'[r] \subseteq wire[r],
         task'[r].pc \notin Allocated \cup {"result"} \/ task'[r] = task[r],
         planned'[r] = planned[r]
  PROVE  CoreInv(r)'
<1>1. task[r].alloc \subseteq Vlans
  BY WorkFacts
<1>2. AllocInv(r)'
  BY <1>1 DEF CoreInv, AllocInv, HoldersKeep, StaysDestroyed
<1>3. BuildInv(r)'
  BY DEF CoreInv, BuildInv
<1>4. UseInv(r)'
  BY DEF CoreInv, UseInv, HoldersKeep, StaysDestroyed
<1>5. QED
  BY <1>2, <1>3, <1>4 DEF CoreInv

\* A build goes on, with what it was allocated.
LEMMA GoesOnCore ==
  ASSUME TypeOK, NEW r \in Ranges, UNCHANGED <<rstate, vlan, uplink, planned, dropped>>, CoreInv(r),
         wire'[r] = wire[r], task[r].pc \in {"reserved", "checking", "creating"},
         task'[r].pc \in {"checking", "creating"}, task'[r].todo \subseteq task[r].alloc,
         task'[r].alloc = task[r].alloc, task'[r].up = task[r].up, task'[r].release = task[r].release,
         task'[r].pc = "creating" => task'[r].todo # {},
         \A v \in Vlans : <<v, r>> \in pg' \ dropped' => <<v, r>> \in pg \ dropped \/ v \in task[r].alloc
  PROVE  CoreInv(r)'
<1>1. AllocInv(r) /\ BuildInv(r) /\ UseInv(r) /\ task[r].pc \in Allocated /\ task'[r].pc \in Allocated
      /\ task'[r].pc # "collided" /\ task[r].pc # "collided"
  BY DEF CoreInv, Allocated
<1>2. AllocInv(r)'
  BY <1>1 DEF AllocInv
<1>3. BuildInv(r)'
  BY <1>1 DEF AllocInv, BuildInv
<1>4. UseInv(r)'
  BY <1>1 DEF AllocInv, UseInv
<1>5. QED
  BY <1>2, <1>3, <1>4 DEF CoreInv

LEMMA SameHolders == ASSUME NEW s \in Ranges, vlan' = vlan, uplink' = uplink PROVE HoldersKeep(s)
  BY DEF HoldersKeep

LEMMA QuietCore ==
  ASSUME TypeOK, NEW r \in Ranges, Quiet(r), CoreInv(r)
  PROVE  CoreInv(r)'
<1>1. /\ StaysDestroyed /\ QuietTask(r) /\ TypeOK'
      /\ UNCHANGED <<vlan, seen, uplink, mgmt, planned, vms, pg, wire, lost, known, shaky, dropped>>
  BY QuietStep
<1>2. HoldersKeep(r)
  BY <1>1, SameHolders
<1>3. NoWork.pc = "idle" /\ NoWork \in Work /\ task[r] \in Work
  BY NoWorkType, WorkFacts DEF NoWork
<1>4. CASE Prepare(r)
  <2>1. task'[r] = [task[r] EXCEPT !.pc = "checking", !.uses = pg, !.todo = task[r].alloc]
        /\ task[r].pc = "reserved" /\ UNCHANGED rstate
    BY <1>4, TypeParts DEF Prepare, Work_, WorkType
  <2>2. /\ task'[r].pc = "checking" /\ task'[r].todo = task[r].alloc /\ task'[r].alloc = task[r].alloc
        /\ task'[r].up = task[r].up /\ task'[r].release = task[r].release
    BY <1>3, <2>1 DEF Work
  <2>3. QED
    BY <1>1, <2>1, <2>2, GoesOnCore
<1>5. CASE CheckPortgroup(r)
  <2>1. task'[r] = [task[r] EXCEPT !.pc = "creating"]
        /\ task[r].pc = "checking" /\ UNCHANGED rstate /\ task[r].todo # {}
    BY <1>5, TypeParts DEF CheckPortgroup, Work_, WorkType
  <2>2. /\ task'[r].pc = "creating" /\ task'[r].todo = task[r].todo /\ task'[r].alloc = task[r].alloc
        /\ task'[r].up = task[r].up /\ task'[r].release = task[r].release
    BY <1>3, <2>1 DEF Work
  <2>3. task[r].todo \subseteq task[r].alloc
    BY <2>1 DEF CoreInv, AllocInv, Allocated
  <2>4. QED
    BY <1>1, <2>1, <2>2, <2>3, GoesOnCore
<1>6. CASE ~Prepare(r) /\ ~CheckPortgroup(r)
  <2>1. task'[r].pc \notin Allocated \cup {"result"} \/ task'[r] = task[r]
    BY <1>1, <1>3, <1>6 DEF QuietTask, Allocated, Work
  <2>2. QED
    BY <1>1, <1>2, <2>1, LeavesCore
<1>7. QED
  BY <1>4, <1>5, <1>6

LEMMA ReserveCore ==
  ASSUME TypeOK, NEW r \in Ranges, NEW stale, NEW n, Reserve(r, stale, n), CoreInv(r)
  PROVE  CoreInv(r)' /\ \A s \in Ranges \ {r} : HoldersKeep(s)
<1>1. /\ UNCHANGED <<rstate, mgmt, vms, pg, wire, lost, clock>>
      /\ task[r].pc = "read" /\ rstate[r] = "provisioning" /\ vlan' = Reserved(Pruned(task[r], stale), r, n)
      /\ planned'[r] = Held(vlan', r) /\ stale \subseteq Held(vlan, r)
      /\ task'[r].pc = "reserved" /\ task'[r].alloc = Held(vlan', r) /\ task'[r].up \in Uplinks
      /\ uplink'[task'[r].up] = r /\ task'[r].todo = {} /\ task'[r].release = {}
      /\ \A a \in Uplinks : uplink[a] \in Ranges /\ rstate[uplink[a]] # "destroyed" => uplink'[a] = uplink[a]
      /\ \A v \in Vlans : <<v, r>> \in pg \ dropped' => vlan'[v] = r \/ (<<v, r>> \notin dropped /\ v \notin stale)
  BY ReserveStep
<1>2. /\ \A v \in Vlans : vlan[v] \in Ranges /\ rstate[vlan[v]] # "destroyed" /\ v \notin stale => vlan'[v] = vlan[v]
      /\ \A v \in Vlans : v \in stale => vlan[v] = r
  BY <1>1, ReservableRow, WorkFacts
<1>3. \A s \in Ranges \ {r} : HoldersKeep(s)
  BY <1>1, <1>2 DEF HoldersKeep
<1>4. Held(vlan', r) = {v \in Vlans : vlan'[v] = r}
  <2>1. vlan' \in [Vlans -> VlanHolders]
    BY <1>1, ReservableRow, WorkFacts
  <2>2. QED
    BY <2>1 DEF Held
<1>5. \A v \in Vlans : <<v, r>> \in pg \ dropped' => vlan'[v] = r
  <2>1. \A v \in Vlans : <<v, r>> \in pg \ dropped => vlan[v] = r
    BY <1>1 DEF CoreInv, UseInv
  <2>2. QED
    BY <1>1, <1>2, <2>1
<1>6. AllocInv(r)'
  BY <1>1, <1>4 DEF AllocInv
<1>7. BuildInv(r)'
  BY <1>1, <1>4, <1>5 DEF BuildInv
<1>8. UseInv(r)'
  <2>1. \A a \in Uplinks : <<"uplink_ip", a>> \in wire[r] => uplink'[a] = r
    BY <1>1 DEF CoreInv, UseInv
  <2>2. QED
    BY <1>1, <1>4, <1>5, <2>1 DEF UseInv
<1>9. QED
  BY <1>3, <1>6, <1>7, <1>8 DEF CoreInv

LEMMA CreatePortgroupCore ==
  ASSUME TypeOK, NEW r \in Ranges, CreatePortgroup(r), CoreInv(r)
  PROVE  CoreInv(r)'
<1>1. task[r].todo # {} /\ task[r].todo \subseteq task[r].alloc
  BY DEF CreatePortgroup, CoreInv, AllocInv, Allocated
<1>2. /\ UNCHANGED <<rstate, vlan, uplink, planned, wire, dropped>>
      /\ task[r].pc = "creating" /\ pg' = pg \cup {<<First(task[r].todo), r>>}
      /\ First(task[r].todo) \in task[r].todo
      /\ task'[r].pc = "checking" /\ task'[r].todo \subseteq task[r].todo
      /\ task'[r].alloc = task[r].alloc /\ task'[r].up = task[r].up /\ task'[r].release = task[r].release
  BY <1>1, CreatePortgroupStep
<1>3. \A v \in Vlans : <<v, r>> \in pg' \ dropped' => <<v, r>> \in pg \ dropped \/ v \in task[r].alloc
  BY <1>1, <1>2
<1>4. QED
  BY <1>1, <1>2, <1>3, GoesOnCore

LEMMA CollideCore ==
  ASSUME TypeOK, NEW r \in Ranges, NEW undone \in BOOLEAN, NEW blind \in BOOLEAN, Collide(r, undone, blind), CoreInv(r)
  PROVE  CoreInv(r)'
<1>1. /\ UNCHANGED <<rstate, vlan, seen, uplink, mgmt, planned, vms, wire, lost, known, shaky, clock>>
      /\ task[r].pc = "checking" /\ pg' \subseteq pg /\ dropped \subseteq dropped'
      /\ task'[r].pc = "collided" /\ task'[r].todo = {} /\ task'[r].alloc = task[r].alloc
      /\ task'[r].release \subseteq task[r].alloc
      /\ \A v \in task'[r].release : <<v, r>> \in pg' => <<v, r>> \in dropped'
  BY CollideStep
<1>2. AllocInv(r) /\ BuildInv(r) /\ UseInv(r) /\ task[r].pc \in Allocated
  BY <1>1 DEF CoreInv, Allocated
<1>3. AllocInv(r)'
  BY <1>1, <1>2 DEF AllocInv
<1>4. BuildInv(r)'
  BY <1>1, <1>2 DEF BuildInv
<1>5. UseInv(r)'
  BY <1>1, <1>2 DEF UseInv
<1>6. QED
  BY <1>3, <1>4, <1>5 DEF CoreInv

LEMMA ReleaseConflictCore ==
  ASSUME TypeOK, NEW r \in Ranges, NEW ok \in BOOLEAN, ReleaseConflict(r, ok), CoreInv(r)
  PROVE  CoreInv(r)' /\ \A s \in Ranges \ {r} : HoldersKeep(s)
<1>1. /\ UNCHANGED <<rstate, uplink, mgmt, vms, pg, wire, lost, clock, shaky, dropped>>
      /\ task[r].pc = "collided" /\ task'[r] = [NoWork EXCEPT !.pc = "failed"]
      /\ \A v \in Vlans :
              /\ vlan[v] \in Ranges /\ rstate[vlan[v]] # "destroyed" /\ ~(v \in task[r].release /\ vlan[v] = r) =>
                    vlan'[v] = vlan[v]
              /\ v \in planned[r] /\ v \notin task[r].release => v \in planned'[r]
  BY ReleaseConflictStep
<1>2. task'[r].pc = "failed"
  BY <1>1, NoWorkType DEF Work
<1>3. \A s \in Ranges \ {r} : HoldersKeep(s)
  BY <1>1 DEF HoldersKeep
<1>4. \A v \in Vlans : <<v, r>> \in pg \ dropped => v \notin task[r].release
  BY <1>1 DEF CoreInv, BuildInv, Allocated
<1>5. AllocInv(r)' /\ BuildInv(r)'
  BY <1>2 DEF AllocInv, BuildInv, Allocated
<1>6. UseInv(r)'
  BY <1>1, <1>4 DEF CoreInv, UseInv
<1>7. QED
  BY <1>3, <1>5, <1>6 DEF CoreInv

LEMMA BuildVmsCore ==
  ASSUME TypeOK, NEW r \in Ranges, BuildVms(r), CoreInv(r)
  PROVE  CoreInv(r)' /\ task[r].up \in Uplinks
<1>1. /\ task[r].up \in Uplinks /\ (rstate[r] # "destroyed" => uplink[task[r].up] = r) /\ task[r].release = {}
  BY DEF BuildVms, CoreInv, AllocInv, Allocated
<1>2. /\ UNCHANGED <<rstate, vlan, seen, uplink, mgmt, planned, vms, pg, lost, known, shaky, dropped, clock, budget>>
      /\ task[r].pc = "checking" /\ task'[r].pc = "result" /\ task'[r].alloc = task[r].alloc
      /\ task'[r].release = {}
      /\ wire'[r] = wire[r] \cup {<<"uplink_ip", task[r].up>>} \cup {<<"noise_mgmt_ip", a>> : a \in Held(mgmt, r)}
  BY <1>1, BuildVmsStep
<1>3. AllocInv(r)'
  BY <1>2 DEF AllocInv, Allocated
<1>4. BuildInv(r)'
  BY <1>1, <1>2 DEF CoreInv, BuildInv, Allocated
<1>5. \A a \in Uplinks : <<"uplink_ip", a>> \in wire'[r] => <<"uplink_ip", a>> \in wire[r] \/ a = task[r].up
  BY <1>2
<1>6. UseInv(r)'
  BY <1>1, <1>2, <1>5 DEF CoreInv, UseInv
<1>7. QED
  BY <1>1, <1>3, <1>4, <1>6 DEF CoreInv

LEMMA EndCore ==
  ASSUME TypeOK, NEW r \in Ranges, NEW ok \in BOOLEAN, NEW final \in BOOLEAN, NEW to \in {"ready", "failed"},
         BuildFailed(r, ok, final) \/ RecordBuilt(r, to) \/ DiscardBuilt(r, ok) \/ DestroyOk(r) \/ Crash(r),
         CoreInv(r)
  PROVE  CoreInv(r)'
<1>1. /\ StaysDestroyed
      /\ UNCHANGED <<vlan, seen, uplink, mgmt, known, shaky, dropped, clock>>
      /\ pg' \subseteq pg /\ wire'[r] \subseteq wire[r]
      /\ task'[r].pc \in {"idle", "failed", "torndown"}
      /\ planned'[r] = planned[r] \/ (task[r].pc = "result" /\ planned'[r] = task[r].alloc)
      /\ rstate'[r] = rstate[r] \/ (rstate'[r] # "destroyed" /\ rstate[r] # "destroyed")
  BY EndStep
<1>2. AllocInv(r)' /\ BuildInv(r)'
  BY <1>1 DEF AllocInv, BuildInv, Allocated
<1>3. \A v \in Vlans : <<v, r>> \in pg \ dropped => v \in planned'[r]
  BY <1>1 DEF CoreInv, UseInv, BuildInv
<1>4. UseInv(r)'
  BY <1>1, <1>3 DEF CoreInv, UseInv
<1>5. QED
  BY <1>2, <1>4 DEF CoreInv

\* A step that ends a task.
Ends(r) ==
    \E ok, final \in BOOLEAN, to \in {"ready", "failed"} :
        BuildFailed(r, ok, final) \/ RecordBuilt(r, to) \/ DiscardBuilt(r, ok) \/ DestroyOk(r) \/ Crash(r)

\* The steps of a range, by what they change.
LEMMA StepKinds ==
  ASSUME NEW r \in Ranges, RangeNext(r)
  PROVE  \/ Quiet(r) \/ (\E noisy \in BOOLEAN : AcceptProvision(r, noisy)) \/ Release(r)
         \/ (\E stale \in SUBSET Vlans, n \in 1 .. Need[r] : Reserve(r, stale, n))
         \/ CreatePortgroup(r) \/ (\E b, c \in BOOLEAN : Collide(r, b, c))
         \/ (\E ok \in BOOLEAN : ReleaseConflict(r, ok)) \/ BuildVms(r) \/ Ends(r)
  BY DEF RangeNext, Quiet, Ends

\* Each step keeps the types, leaves the others' alone, and keeps what a range uses its own.
LEMMA CoreStep ==
  ASSUME TypeOK, NEW r \in Ranges, RangeNext(r), \A s \in Ranges : CoreInv(s)
  PROVE  TypeOK' /\ Frame(r) /\ StaysDestroyed /\ \A s \in Ranges : CoreInv(s)'
<1> DEFINE Goal == TypeOK' /\ Frame(r) /\ StaysDestroyed /\ CoreInv(r)' /\ \A s \in Ranges \ {r} : HoldersKeep(s)
<1>1. SUFFICES Goal
  BY OthersCore
<1>2. CASE Quiet(r)
  BY <1>2, QuietStep, QuietCore, SameHolders
<1>3. ASSUME NEW noisy \in BOOLEAN, AcceptProvision(r, noisy) PROVE Goal
  <2>1. /\ TypeOK' /\ Frame(r) /\ StaysDestroyed
        /\ UNCHANGED <<vlan, seen, uplink, planned, vms, pg, wire, lost, task, known, shaky, dropped, clock, budget>>
    BY <1>3, AcceptProvisionStep
  <2>2. \A s \in Ranges : HoldersKeep(s)
    BY <2>1, SameHolders
  <2>3. CoreInv(r)'
    BY <2>1, <2>2, LeavesCore
  <2>4. QED
    BY <2>1, <2>2, <2>3
<1>4. CASE Release(r)
  <2>1. /\ TypeOK' /\ Frame(r) /\ StaysDestroyed
        /\ UNCHANGED <<rstate, seen, planned, vms, pg, wire, lost, task, known, shaky, dropped, clock, budget>>
        /\ rstate[r] = "destroyed"
        /\ \A v \in Vlans : vlan[v] # r => vlan'[v] = vlan[v]
        /\ \A a \in Uplinks : uplink[a] # r => uplink'[a] = uplink[a]
    BY <1>4, ReleaseStep
  <2>2. \A s \in Ranges : HoldersKeep(s)
    BY <2>1 DEF HoldersKeep
  <2>3. CoreInv(r)'
    BY <2>1, <2>2, LeavesCore
  <2>4. QED
    BY <2>1, <2>2, <2>3
<1>5. ASSUME NEW stale, NEW n, Reserve(r, stale, n) PROVE Goal
  BY <1>5, ReserveStep, ReserveCore
<1>6. CASE CreatePortgroup(r)
  <2>1. task[r].todo # {}
    BY <1>6 DEF CreatePortgroup, CoreInv, AllocInv, Allocated
  <2>2. QED
    BY <1>6, <2>1, CreatePortgroupStep, CreatePortgroupCore, SameHolders
<1>7. ASSUME NEW b \in BOOLEAN, NEW c \in BOOLEAN, Collide(r, b, c) PROVE Goal
  BY <1>7, CollideStep, CollideCore, SameHolders
<1>8. ASSUME NEW ok \in BOOLEAN, ReleaseConflict(r, ok) PROVE Goal
  BY <1>8, ReleaseConflictStep, ReleaseConflictCore
<1>9. CASE BuildVms(r)
  <2>1. task[r].up \in Uplinks /\ CoreInv(r)'
    BY <1>9, BuildVmsCore
  <2>2. QED
    BY <1>9, <2>1, BuildVmsStep, SameHolders
<1>10. CASE Ends(r)
  BY <1>10, EndStep, EndCore, SameHolders DEF Ends
<1>11. QED
  BY <1>2, <1>3, <1>4, <1>5, <1>6, <1>7, <1>8, <1>9, <1>10, StepKinds

\* So does somebody else's.
LEMMA ForeignCore ==
  ASSUME TypeOK, NEW u \in Vlans, ForeignAdded(u) \/ ForeignRemoved(u), NEW s \in Ranges, CoreInv(s)
  PROVE  CoreInv(s)'
<1>1. /\ UNCHANGED <<rstate, vlan, seen, uplink, mgmt, planned, vms, wire, lost, task, clock, dropped>>
      /\ \A v \in Vlans : <<v, s>> \in pg' <=> <<v, s>> \in pg
  BY ForeignStep
<1>2. StaysDestroyed /\ HoldersKeep(s)
  BY <1>1, SameHolders DEF StaysDestroyed
<1>3. QED
  BY <1>1, <1>2, LeavesCore

-----------------------------------------------------------------------------
(* A slow read never deletes what a newer one saw: the steps.              *)

LEMMA ReadKeeps ==
  ASSUME TypeOK, ReadInv, NEW r \in Ranges, Frame(r), UNCHANGED <<known, shaky, seen>>,
         \A v \in Vlans : vlan[v] = External => vlan'[v] = External,
         task'[r].at <= clock',
         task'[r].pc # "read" \/ task'[r] = task[r] \/ known \subseteq task'[r].fv
  PROVE  ReadInv'
<1>1. known \subseteq Vlans /\ shaky \subseteq known /\ clock \in Nat /\ \A s \in Ranges : task[s].at \in Nat
  BY TypeParts, WorkFacts DEF GhostType
<1>2. \A v \in known' : <<v, Foreign>> \in pg'
  BY <1>1, Distinct DEF ReadInv, Frame, Owner
<1>3. ASSUME NEW v \in known' \ shaky'
      PROVE  /\ vlan'[v] = External
             /\ \A s \in Ranges : task'[s].pc = "read" /\ v \notin task'[s].fv => task'[s].at <= seen'[v]
  BY <1>1, <1>3 DEF ReadInv, Frame
<1>4. \A s \in Ranges : task'[s].at <= clock'
  <2>1. ASSUME NEW s \in Ranges \ {r} PROVE task'[s].at <= clock'
    <3>1. task'[s].at = task[s].at /\ task[s].at <= clock /\ clock <= clock' /\ clock' \in Nat
      BY DEF ReadInv, Frame
    <3>2. QED
      BY <1>1, <3>1
  <2>2. QED
    BY <2>1
<1>5. QED
  BY <1>2, <1>3, <1>4 DEF ReadInv

LEMMA QuietRead ==
  ASSUME TypeOK, ReadInv, NEW r \in Ranges, Quiet(r)
  PROVE  ReadInv'
<1>1. /\ Frame(r) /\ QuietTask(r)
      /\ UNCHANGED <<vlan, seen, uplink, mgmt, planned, vms, pg, wire, lost, known, shaky, dropped>>
  BY QuietStep
<1>2. /\ NoWork.at = 0 /\ NoWork.pc = "idle" /\ NoWork \in Work /\ task[r] \in Work /\ clock' \in Nat /\ clock <= clock'
      /\ task[r].at \in Nat /\ clock \in Nat /\ task[r].at <= clock
  BY <1>1, NoWorkType, WorkFacts DEF NoWork, Frame, ReadInv
<1>3. CASE LiveRead(r) /\ task'[r] = [task[r] EXCEPT !.pc = "read", !.fv = {v \in Vlans : <<v, Foreign>> \in pg},
                                                     !.mv = {v \in Vlans : \E s \in Ranges : <<v, s>> \in pg}]
  <2>1. task'[r].fv = {v \in Vlans : <<v, Foreign>> \in pg} /\ task'[r].at = task[r].at
    BY <1>2, <1>3 DEF Work
  <2>2. known \subseteq task'[r].fv
    BY <2>1, TypeParts DEF ReadInv, GhostType
  <2>3. task'[r].at <= clock'
    BY <1>2, <2>1
  <2>4. QED
    BY <1>1, <2>2, <2>3, ReadKeeps
<1>4. CASE StartBuild(r) /\ task'[r] = [NoWork EXCEPT !.pc = "stamped", !.at = clock']
  <2>1. task'[r].pc = "stamped" /\ task'[r].at = clock'
    BY <1>2, <1>4 DEF Work
  <2>2. QED
    BY <1>1, <1>2, <2>1, ReadKeeps
<1>5. CASE task'[r] = task[r]
  <2>1. task'[r].at <= clock'
    BY <1>2, <1>5
  <2>2. QED
    BY <1>1, <1>5, <2>1, ReadKeeps
<1>6. CASE \/ Prepare(r) /\ task'[r] = [task[r] EXCEPT !.pc = "checking", !.uses = pg, !.todo = task[r].alloc]
           \/ CheckPortgroup(r) /\ task'[r] = [task[r] EXCEPT !.pc = "creating"]
  <2>1. task'[r].pc # "read" /\ task'[r].at = task[r].at
    BY <1>2, <1>6 DEF Work
  <2>2. task'[r].at <= clock'
    BY <1>2, <2>1
  <2>3. QED
    BY <1>1, <2>1, <2>2, ReadKeeps
<1>7. CASE \/ task'[r] = NoWork
           \/ task'[r] = [NoWork EXCEPT !.pc = "torndown"]
           \/ task'[r] = [NoWork EXCEPT !.pc = "failed"]
  <2>1. task'[r].pc # "read" /\ task'[r].at = 0
    BY <1>2, <1>7 DEF Work
  <2>2. task'[r].at <= clock'
    BY <1>2, <2>1
  <2>3. QED
    BY <1>1, <2>1, <2>2, ReadKeeps
<1>8. QED
  BY <1>1, <1>3, <1>4, <1>5, <1>6, <1>7 DEF QuietTask

LEMMA ReserveRead ==
  ASSUME TypeOK, ReadInv, NEW r \in Ranges, NEW stale, NEW n, Reserve(r, stale, n)
  PROVE  ReadInv'
<1>1. /\ Frame(r) /\ UNCHANGED <<pg, clock>> /\ task[r].pc = "read"
      /\ vlan' = Reserved(Pruned(task[r], stale), r, n) /\ seen' = SeenAfter(task[r]) /\ stale \subseteq Held(vlan, r)
      /\ task'[r].pc = "reserved" /\ task'[r].at = 0
      /\ known' = known \cup {v \in task[r].fv : vlan'[v] = External /\ <<v, Foreign>> \in pg}
      /\ shaky' = shaky \cup {v \in known' \ known :
                              \E s \in Ranges : task[s].pc = "read" /\ task[s].at > task[r].at}
  BY ReserveStep
<1>2. /\ known \subseteq Vlans /\ shaky \subseteq known /\ clock \in Nat /\ \A s \in Ranges : task[s].at \in Nat
      /\ task[r].fv \subseteq Vlans /\ seen \in [Vlans -> Nat] /\ task[r] \in Work
  <2>1. 0 .. MaxReads \subseteq Nat
    OBVIOUS
  <2>2. QED
    BY <2>1, TypeParts, WorkFacts DEF GhostType, TableType
<1>3. \A v \in known' : <<v, Foreign>> \in pg'
  BY <1>1 DEF ReadInv
<1>4. \A v \in Vlans : seen'[v] \in Nat /\ seen[v] <= seen'[v]
  BY <1>1, <1>2 DEF SeenAfter
<1>5. ASSUME NEW v \in known \ shaky PROVE vlan'[v] = External
  <2>1. v \in Vlans /\ vlan[v] = External /\ (v \in task[r].fv \/ task[r].at <= seen[v])
    BY <1>1, <1>2, <1>5 DEF ReadInv
  <2>2. QED
    BY <1>1, <1>2, <2>1, ReservableRow
<1>6. ASSUME NEW v \in known' \ known PROVE task[r].at <= seen'[v] /\ v \in Vlans
  <2>1. v \in Vlans /\ v \in task[r].fv /\ vlan'[v] = External
    BY <1>1, <1>2, <1>6
  <2>2. v \in Want(task[r])
    <3>1. SUFFICES ASSUME Reclaimed(vlan)[v] \in Ranges PROVE FALSE
      BY <2>1 DEF Want
    <3>2. vlan[v] \in Ranges /\ rstate[vlan[v]] # "destroyed"
      <4>1. vlan \in [Vlans -> VlanHolders] /\ Ranges \cup {Free} \subseteq VlanHolders
        BY TypeParts DEF TableType, VlanHolders
      <4>2. \A u \in Vlans : \/ Reclaimed(vlan)[u] = vlan[u] /\ ~(vlan[u] \in Ranges /\ rstate[vlan[u]] = "destroyed")
                             \/ Reclaimed(vlan)[u] = Free /\ vlan[u] \in Ranges /\ rstate[vlan[u]] = "destroyed"
        BY <4>1, ReclaimedRow
      <4>3. QED
        BY <2>1, <3>1, <4>2, Distinct
    <3>3. vlan'[v] = vlan[v] \/ vlan'[v] # External
      BY <1>1, <1>2, <2>1, <3>2, ReservableRow
    <3>4. QED
      BY <2>1, <3>2, <3>3, Distinct
  <2>3. seen'[v] = IF task[r].at > seen[v] THEN task[r].at ELSE seen[v]
    BY <1>1, <2>1, <2>2 DEF SeenAfter
  <2>4. QED
    BY <1>2, <2>1, <2>3
<1>7. ASSUME NEW v \in known' \ shaky'
      PROVE  /\ vlan'[v] = External
             /\ \A s \in Ranges : task'[s].pc = "read" /\ v \notin task'[s].fv => task'[s].at <= seen'[v]
  <2>1. CASE v \in known
    <3>1. v \in known \ shaky /\ v \in Vlans
      BY <1>1, <1>2, <1>7, <2>1
    <3>2. ASSUME NEW s \in Ranges, task'[s].pc = "read", v \notin task'[s].fv PROVE task'[s].at <= seen'[v]
      <4>1. s # r /\ task'[s] = task[s]
        BY <1>1, <3>2 DEF Frame
      <4>2. task[s].at <= seen[v] /\ seen[v] <= seen'[v] /\ seen[v] \in Nat /\ seen'[v] \in Nat /\ task[s].at \in Nat
        BY <1>2, <1>4, <3>1, <3>2, <4>1 DEF ReadInv
      <4>3. QED
        BY <4>1, <4>2
    <3>3. QED
      BY <1>5, <3>1, <3>2
  <2>2. CASE v \notin known
    <3>1. vlan'[v] = External /\ task[r].at <= seen'[v] /\ v \in Vlans
      BY <1>1, <1>6, <1>7, <2>2
    <3>2. ASSUME NEW s \in Ranges, task'[s].pc = "read" PROVE task'[s].at <= seen'[v]
      <4>1. s # r /\ task'[s] = task[s]
        BY <1>1, <3>2 DEF Frame
      <4>2. ~(task[s].at > task[r].at)
        BY <1>1, <1>7, <2>2, <3>2, <4>1
      <4>3. QED
        BY <1>2, <1>4, <3>1, <4>1, <4>2
    <3>3. QED
      BY <3>1, <3>2
  <2>3. QED
    BY <2>1, <2>2
<1>8. \A s \in Ranges : task'[s].at <= clock'
  BY <1>1, <1>2 DEF ReadInv, Frame
<1>9. QED
  BY <1>3, <1>7, <1>8 DEF ReadInv

LEMMA ReleaseConflictRead ==
  ASSUME TypeOK, ReadInv, NEW r \in Ranges, NEW ok \in BOOLEAN, ReleaseConflict(r, ok)
  PROVE  ReadInv'
<1>1. /\ Frame(r) /\ TypeOK' /\ UNCHANGED <<pg, clock, shaky>> /\ task'[r] = [NoWork EXCEPT !.pc = "failed"]
      /\ \A v \in Vlans :
              /\ vlan[v] = External => vlan'[v] = External /\ seen'[v] = seen[v]
              /\ v \in known' => v \in known \/ (vlan'[v] = External /\ seen'[v] = clock /\ <<v, Foreign>> \in pg)
  BY ReleaseConflictStep
<1>2. known' \subseteq Vlans
  BY <1>1, TypePartsNext DEF GhostType
<1>3. clock \in Nat /\ task'[r].pc = "failed" /\ task'[r].at = 0
  BY <1>1, WorkFacts, NoWorkType DEF NoWork, Work
<1>4. \A s \in Ranges : task'[s].at <= clock'
  <2>1. task'[r].at <= clock'
    BY <1>1, <1>3
  <2>2. \A s \in Ranges \ {r} : task'[s].at <= clock'
    BY <1>1 DEF ReadInv, Frame
  <2>3. QED
    BY <2>1, <2>2
<1>5. \A v \in known' : <<v, Foreign>> \in pg'
  BY <1>1, <1>2 DEF ReadInv
<1>6. ASSUME NEW v \in known' \ shaky'
      PROVE  /\ vlan'[v] = External
             /\ \A s \in Ranges : task'[s].pc = "read" /\ v \notin task'[s].fv => task'[s].at <= seen'[v]
  <2>1. CASE v \in known
    <3>1. v \in known \ shaky /\ v \in Vlans /\ vlan[v] = External
      BY <1>1, <1>2, <1>6, <2>1 DEF ReadInv
    <3>2. vlan'[v] = External /\ seen'[v] = seen[v]
      BY <1>1, <3>1
    <3>3. QED
      BY <1>1, <1>3, <3>1, <3>2 DEF ReadInv, Frame
  <2>2. CASE v \notin known
    BY <1>1, <1>2, <1>4, <1>6, <2>2
  <2>3. QED
    BY <2>1, <2>2
<1>7. QED
  BY <1>4, <1>5, <1>6 DEF ReadInv

LEMMA ReadStep ==
  ASSUME TypeOK, NEW r \in Ranges, RangeNext(r), \A s \in Ranges : CoreInv(s), ReadInv
  PROVE  ReadInv'
<1>1. /\ clock \in Nat /\ task[r].at \in Nat /\ task[r].at <= clock
  BY WorkFacts DEF ReadInv
<1>2. ASSUME NEW noisy \in BOOLEAN, AcceptProvision(r, noisy) PROVE ReadInv'
  <2>1. Frame(r) /\ UNCHANGED <<vlan, known, shaky, seen, task, clock>>
    BY <1>2, AcceptProvisionStep
  <2>2. QED
    BY <1>1, <2>1, ReadKeeps
<1>3. CASE Release(r)
  <2>1. Frame(r) /\ UNCHANGED <<known, shaky, seen, task, clock>> /\ \A v \in Vlans : vlan[v] # r => vlan'[v] = vlan[v]
    BY <1>3, ReleaseStep
  <2>2. \A v \in Vlans : vlan[v] = External => vlan'[v] = External
    BY <2>1, Distinct
  <2>3. QED
    BY <1>1, <2>1, <2>2, ReadKeeps
<1>4. CASE CreatePortgroup(r)
  <2>1. task[r].todo # {}
    BY <1>4 DEF CreatePortgroup, CoreInv, AllocInv, Allocated
  <2>2. Frame(r) /\ UNCHANGED <<vlan, known, shaky, seen, clock>> /\ task'[r].pc = "checking" /\ task'[r].at = task[r].at
    BY <1>4, <2>1, CreatePortgroupStep
  <2>3. QED
    BY <1>1, <2>2, ReadKeeps
<1>5. ASSUME NEW b \in BOOLEAN, NEW c \in BOOLEAN, Collide(r, b, c) PROVE ReadInv'
  <2>1. Frame(r) /\ UNCHANGED <<vlan, known, shaky, seen, clock>> /\ task'[r].pc = "collided" /\ task'[r].at = task[r].at
    BY <1>5, CollideStep
  <2>2. QED
    BY <1>1, <2>1, ReadKeeps
<1>6. CASE BuildVms(r)
  <2>1. task[r].up \in Uplinks
    BY <1>6, BuildVmsCore
  <2>2. Frame(r) /\ UNCHANGED <<vlan, known, shaky, seen, clock>> /\ task'[r].pc = "result" /\ task'[r].at = 0
    BY <1>6, <2>1, BuildVmsStep
  <2>3. QED
    BY <1>1, <2>2, ReadKeeps
<1>7. CASE Ends(r)
  <2>1. /\ Frame(r) /\ UNCHANGED <<vlan, known, shaky, seen, clock>>
        /\ task'[r].pc \in {"idle", "failed", "torndown"} /\ task'[r].at = 0
    BY <1>7, EndStep DEF Ends
  <2>2. QED
    BY <1>1, <2>1, ReadKeeps
<1>8. QED
  BY <1>2, <1>3, <1>4, <1>5, <1>6, <1>7, QuietRead, ReserveRead, ReleaseConflictRead, StepKinds

LEMMA ForeignRead ==
  ASSUME TypeOK, ReadInv, NEW u \in Vlans, ForeignAdded(u) \/ ForeignRemoved(u)
  PROVE  ReadInv'
<1>1. /\ UNCHANGED <<vlan, seen, task, clock>> /\ known' \subseteq known /\ known' \ shaky' \subseteq known \ shaky
      /\ \A v \in known' : <<v, Foreign>> \in pg => <<v, Foreign>> \in pg'
  BY ForeignStep
<1>2. \A v \in known' : <<v, Foreign>> \in pg'
  BY <1>1 DEF ReadInv
<1>3. ASSUME NEW v \in known' \ shaky'
      PROVE  /\ vlan'[v] = External
             /\ \A s \in Ranges : task'[s].pc = "read" /\ v \notin task'[s].fv => task'[s].at <= seen'[v]
  BY <1>1, <1>3 DEF ReadInv
<1>4. \A s \in Ranges : task'[s].at <= clock'
  BY <1>1 DEF ReadInv
<1>5. QED
  BY <1>2, <1>3, <1>4 DEF ReadInv

-----------------------------------------------------------------------------
(* The rare events.                                                        *)

LEMMA Budgeted == ASSUME [Next]_vars PROVE (\E f \in Rare : Spend(f)) \/ UNCHANGED budget
<1>1. ASSUME NEW r \in Ranges, RangeNext(r) PROVE (\E f \in Rare : Spend(f)) \/ UNCHANGED budget
  <2>1. CASE Quiet(r)
    BY <2>1 DEF Quiet, AcceptDestroy, Abandon, WriteOff, StartBuild, LiveRead, ReserveRefused, Prepare, CheckPortgroup,
           RecordFailure, DestroyPartial, DestroyFailed, RecordDestroyed, Rare
  <2>2. CASE (\E noisy \in BOOLEAN : AcceptProvision(r, noisy)) \/ Release(r) \/ CreatePortgroup(r) \/ BuildVms(r)
    BY <2>2 DEF AcceptProvision, Release, CreatePortgroup, BuildVms
  <2>2a. CASE \E stale \in SUBSET Vlans, n \in 1 .. Need[r] : Reserve(r, stale, n)
    BY <2>2a DEF Reserve, Rare
  <2>3. CASE \E b, c \in BOOLEAN : Collide(r, b, c)
    BY <2>3 DEF Collide, Rare
  <2>4. CASE \E ok \in BOOLEAN : ReleaseConflict(r, ok)
    BY <2>4 DEF ReleaseConflict, Rare
  <2>5. CASE Ends(r)
    BY <2>5 DEF Ends, BuildFailed, RecordBuilt, DiscardBuilt, DestroyOk, Crash, Rare
  <2>6. QED
    BY <1>1, <2>1, <2>2, <2>2a, <2>3, <2>4, <2>5, StepKinds
<1>2. ASSUME NEW v \in Vlans, ForeignAdded(v) \/ ForeignRemoved(v) PROVE (\E f \in Rare : Spend(f)) \/ UNCHANGED budget
  BY <1>2 DEF ForeignAdded, ForeignRemoved, Rare
<1>3. QED
  BY <1>1, <1>2 DEF Next, vars

LEMMA BudgetFalls ==
  ASSUME TypeOK, WithinBudget, [Next]_vars
  PROVE  WithinBudget' /\ \A f \in Rare : Spent(f) => Spent(f)'
<1>1. budget \in [Rare -> Nat] /\ Budget \in [Rare -> Nat]
  BY NetworkAssumption DEF TypeOK
<1>2. \A f \in Rare : budget'[f] \in Int /\ budget'[f] <= budget[f]
  <2>1. CASE UNCHANGED budget
    BY <1>1, <2>1
  <2>2. ASSUME NEW g \in Rare, Spend(g) PROVE \A f \in Rare : budget'[f] \in Int /\ budget'[f] <= budget[f]
    <3>1. budget' = [budget EXCEPT ![g] = @ - 1]
      BY <2>2 DEF Spend
    <3>2. QED
      BY <1>1, <3>1
  <2>3. QED
    BY <2>1, <2>2, Budgeted
<1>3. QED
  BY <1>1, <1>2 DEF WithinBudget, Spent

LEMMA SpendSpends ==
  ASSUME TypeOK, WithinBudget, NEW f \in Rare, Spend(f)
  PROVE  Spent(f)'
<1>1. budget \in [Rare -> Nat] /\ budget[f] <= Budget[f] /\ Budget[f] \in Nat
  BY NetworkAssumption DEF TypeOK, WithinBudget
<1>2. budget'[f] = budget[f] - 1
  BY <1>1 DEF Spend
<1>3. QED
  BY <1>1, <1>2 DEF Spent

-----------------------------------------------------------------------------
(* One range's port groups on a VLAN: the steps.                           *)

LEMMA AloneKeeps ==
  ASSUME TypeOK, NEW r \in Ranges, Frame(r), \A s \in Ranges : CoreInv(s), \A s \in Ranges : AloneInv(s),
         \A v \in Vlans : <<v, r>> \in pg' => <<v, r>> \in pg,
         rstate'[r] = "destroyed" => task'[r].pc = "idle",
         task'[r].pc = "creating" =>
            \/ <<First(task'[r].todo), r>> \in pg'
            \/ \A s \in Ranges \ {r} : <<First(task'[r].todo), s>> \notin pg'
  PROVE  \A s \in Ranges : AloneInv(s)'
<1>1. \A v \in Vlans, s \in Ranges : <<v, s>> \in pg' => <<v, s>> \in pg
  BY DEF Frame, Owner
<1>2. \A v \in Vlans, p, s \in Ranges : <<v, p>> \in pg' /\ <<v, s>> \in pg' => p = s
  BY <1>1 DEF AloneInv
<1>3. AloneInv(r)'
  BY <1>2 DEF AloneInv
<1>4. ASSUME NEW s \in Ranges \ {r} PROVE AloneInv(s)'
  <2>1. task'[s] = task[s] /\ rstate'[s] = rstate[s] /\ AloneInv(s) /\ CoreInv(s) /\ s \in Owner \ {r}
    BY DEF Frame, Owner
  <2>2. ASSUME task[s].pc = "creating" PROVE First(task[s].todo) \in Vlans
    <3>1. task[s].todo # {}
      BY <2>1, <2>2 DEF CoreInv, AllocInv, Allocated
    <3>2. QED
      BY <3>1, WorkFacts
  <2>3. task'[s].pc = "creating" =>
            LET v == First(task'[s].todo) IN <<v, s>> \in pg' \/ \A p \in Ranges \ {s} : <<v, p>> \notin pg'
    BY <1>1, <2>1, <2>2 DEF AloneInv, Frame
  <2>4. QED
    BY <1>2, <2>1, <2>3 DEF AloneInv
<1>5. QED
  BY <1>3, <1>4

LEMMA QuietAlone ==
  ASSUME TypeOK, WithinBudget, NEW r \in Ranges, Quiet(r), \A s \in Ranges : CoreInv(s), \A s \in Ranges : AloneInv(s),
         ~Spent("writeOff")'
  PROVE  \A s \in Ranges : AloneInv(s)'
<1>1. /\ Frame(r) /\ QuietTask(r) /\ UNCHANGED pg
      /\ rstate'[r] = "destroyed" => rstate[r] = "destroyed" \/ WriteOff(r) \/ RecordDestroyed(r)
  BY QuietStep
<1>2. NoWork.pc = "idle" /\ NoWork \in Work /\ task[r] \in Work /\ AloneInv(r)
  BY NoWorkType, WorkFacts DEF NoWork
<1>3. ~WriteOff(r)
  BY SpendSpends DEF WriteOff, Rare
<1>4. rstate'[r] = "destroyed" => task'[r].pc = "idle"
  <2>1. CASE RecordDestroyed(r)
    BY <1>2, <2>1, TaskType DEF RecordDestroyed
  <2>2. CASE rstate[r] = "destroyed"
    <3>1. task[r].pc = "idle"
      BY <1>2, <2>2 DEF AloneInv
    <3>2. FALSE
      BY <1>3, <2>2, <3>1 DEF Quiet, AcceptDestroy, Abandon, StartBuild, LiveRead, ReserveRefused, Prepare,
             CheckPortgroup, RecordFailure, DestroyPartial, DestroyFailed, RecordDestroyed
    <3>3. QED
      BY <3>2
  <2>3. QED
    BY <1>1, <1>3, <2>1, <2>2
<1>5. task'[r].pc = "creating" =>
            \/ <<First(task'[r].todo), r>> \in pg'
            \/ \A s \in Ranges \ {r} : <<First(task'[r].todo), s>> \notin pg'
  <2>1. CASE CheckPortgroup(r) /\ task'[r] = [task[r] EXCEPT !.pc = "creating"]
    <3>1. task'[r].todo = task[r].todo /\ ~Collides(r, First(task[r].todo))
      BY <1>2, <2>1 DEF Work, CheckPortgroup
    <3>2. QED
      BY <1>1, <3>1 DEF Collides, OthersOn, Owner
  <2>2. CASE task'[r] = task[r]
    BY <1>1, <1>2, <2>2 DEF AloneInv
  <2>3. CASE task'[r] # task[r] /\ ~(CheckPortgroup(r) /\ task'[r] = [task[r] EXCEPT !.pc = "creating"])
    <3>1. task'[r].pc # "creating"
      BY <1>1, <1>2, <2>3 DEF QuietTask, Work
    <3>2. QED
      BY <3>1
  <2>4. QED
    BY <2>1, <2>2, <2>3
<1>6. QED
  BY <1>1, <1>4, <1>5, AloneKeeps

\* Whoever is about to make a port group on a VLAN holds it.
LEMMA CreatePortgroupAlone ==
  ASSUME TypeOK, NEW r \in Ranges, CreatePortgroup(r), \A s \in Ranges : CoreInv(s), \A s \in Ranges : AloneInv(s)
  PROVE  \A s \in Ranges : AloneInv(s)'
<1> DEFINE v == First(task[r].todo)
<1>1. ASSUME NEW s \in Ranges, task[s].pc = "creating"
      PROVE  First(task[s].todo) \in Vlans /\ vlan[First(task[s].todo)] = s /\ rstate[s] # "destroyed"
  <2>1. rstate[s] # "destroyed"
    BY <1>1 DEF AloneInv
  <2>2. task[s].todo # {} /\ task[s].todo \subseteq task[s].alloc /\ \A u \in task[s].alloc : vlan[u] = s
    BY <1>1, <2>1 DEF CoreInv, AllocInv, Allocated
  <2>3. First(task[s].todo) \in task[s].todo /\ task[s].todo \subseteq Vlans
    BY <2>2, WorkFacts
  <2>4. QED
    BY <2>1, <2>2, <2>3
<1>2. task[r].pc = "creating" /\ task[r].todo # {}
  BY DEF CreatePortgroup, CoreInv, AllocInv, Allocated
<1>3. /\ Frame(r) /\ UNCHANGED rstate /\ pg' = pg \cup {<<v, r>>} /\ task'[r].pc = "checking"
      /\ v \in Vlans /\ vlan[v] = r /\ rstate[r] # "destroyed"
  BY <1>1, <1>2, CreatePortgroupStep
<1>4. <<v, r>> \in pg \/ \A s \in Ranges \ {r} : <<v, s>> \notin pg
  BY <1>2 DEF AloneInv
<1> HIDE DEF v
<1>5. ASSUME NEW u \in Vlans, NEW p \in Ranges, NEW s \in Ranges, <<u, p>> \in pg', <<u, s>> \in pg' PROVE p = s
  BY <1>3, <1>4, <1>5 DEF AloneInv
<1>6. ASSUME NEW s \in Ranges PROVE AloneInv(s)'
  <2>1. CASE s = r
    BY <1>3, <1>5, <2>1 DEF AloneInv
  <2>2. CASE s # r
    <3>1. task'[s] = task[s] /\ rstate'[s] = rstate[s] /\ AloneInv(s)
      BY <1>3, <2>2 DEF Frame
    <3>2. ASSUME task[s].pc = "creating"
          PROVE  <<First(task[s].todo), s>> \in pg' \/ \A p \in Ranges \ {s} : <<First(task[s].todo), p>> \notin pg'
      <4>1. First(task[s].todo) # v
        BY <1>1, <1>3, <2>2, <3>2
      <4>2. QED
        BY <1>3, <3>1, <3>2, <4>1 DEF AloneInv
    <3>3. QED
      BY <1>5, <3>1, <3>2 DEF AloneInv
  <2>3. QED
    BY <2>1, <2>2
<1>7. QED
  BY <1>6

LEMMA AloneStep ==
  ASSUME TypeOK, WithinBudget, NEW r \in Ranges, RangeNext(r), \A s \in Ranges : CoreInv(s),
         \A s \in Ranges : AloneInv(s), ~Spent("writeOff")'
  PROVE  \A s \in Ranges : AloneInv(s)'
<1> DEFINE Goal == \A s \in Ranges : AloneInv(s)'
<1>1. AloneInv(r)
  OBVIOUS
<1>2. ASSUME NEW noisy \in BOOLEAN, AcceptProvision(r, noisy) PROVE Goal
  <2>1. Frame(r) /\ UNCHANGED <<pg, task>> /\ rstate'[r] = "provisioning"
    BY <1>2, AcceptProvisionStep
  <2>2. QED
    BY <1>1, <2>1, AloneKeeps DEF AloneInv
<1>3. CASE Release(r)
  <2>1. Frame(r) /\ UNCHANGED <<pg, task, rstate>>
    BY <1>3, ReleaseStep
  <2>2. QED
    BY <1>1, <2>1, AloneKeeps DEF AloneInv
<1>4. ASSUME NEW stale, NEW n, Reserve(r, stale, n) PROVE Goal
  <2>1. Frame(r) /\ UNCHANGED <<pg, rstate>> /\ rstate[r] = "provisioning" /\ task'[r].pc = "reserved"
    BY <1>4, ReserveStep
  <2>2. QED
    BY <2>1, AloneKeeps
<1>5. ASSUME NEW b \in BOOLEAN, NEW c \in BOOLEAN, Collide(r, b, c) PROVE Goal
  <2>1. Frame(r) /\ UNCHANGED rstate /\ pg' \subseteq pg /\ task[r].pc = "checking" /\ task'[r].pc = "collided"
    BY <1>5, CollideStep
  <2>2. rstate[r] # "destroyed"
    BY <1>1, <2>1 DEF AloneInv
  <2>3. QED
    BY <2>1, <2>2, AloneKeeps
<1>6. ASSUME NEW ok \in BOOLEAN, ReleaseConflict(r, ok) PROVE Goal
  <2>1. Frame(r) /\ UNCHANGED <<rstate, pg>> /\ task[r].pc = "collided" /\ task'[r] = [NoWork EXCEPT !.pc = "failed"]
    BY <1>6, ReleaseConflictStep
  <2>2. rstate[r] # "destroyed" /\ task'[r].pc = "failed"
    BY <1>1, <2>1, NoWorkType DEF AloneInv, Work
  <2>3. QED
    BY <2>1, <2>2, AloneKeeps
<1>7. CASE BuildVms(r)
  <2>1. task[r].up \in Uplinks
    BY <1>7, BuildVmsCore
  <2>2. Frame(r) /\ UNCHANGED <<rstate, pg>> /\ task[r].pc = "checking" /\ task'[r].pc = "result"
    BY <1>7, <2>1, BuildVmsStep
  <2>3. rstate[r] # "destroyed"
    BY <1>1, <2>2 DEF AloneInv
  <2>4. QED
    BY <2>2, <2>3, AloneKeeps
<1>8. CASE Ends(r)
  <2>1. /\ Frame(r) /\ pg' \subseteq pg /\ task'[r].pc \in {"idle", "failed", "torndown"}
        /\ rstate'[r] = rstate[r] \/ (rstate'[r] # "destroyed" /\ rstate[r] # "destroyed")
    BY <1>8, EndStep DEF Ends
  <2>2. rstate[r] # "destroyed"
    BY <1>1, <1>8 DEF Ends, BuildFailed, RecordBuilt, DiscardBuilt, DestroyOk, Crash, AloneInv
  <2>3. QED
    BY <2>1, <2>2, AloneKeeps
<1>9. QED
  BY <1>2, <1>3, <1>4, <1>5, <1>6, <1>7, <1>8, QuietAlone, CreatePortgroupAlone, StepKinds

LEMMA ForeignAlone ==
  ASSUME TypeOK, NEW u \in Vlans, ForeignAdded(u) \/ ForeignRemoved(u), NEW s \in Ranges, CoreInv(s), AloneInv(s)
  PROVE  AloneInv(s)'
<1>1. UNCHANGED <<rstate, task>> /\ \A v \in Vlans, p \in Ranges : <<v, p>> \in pg' <=> <<v, p>> \in pg
  BY ForeignStep
<1>2. task[s].pc = "creating" => First(task[s].todo) \in Vlans
  BY WorkFacts DEF CoreInv, AllocInv, Allocated
<1>3. QED
  BY <1>1, <1>2 DEF AloneInv

-----------------------------------------------------------------------------
(* What is gone uses nothing: the steps.                                   *)

LEMMA OthersGone ==
  ASSUME NEW r \in Ranges, Frame(r), NEW s \in Ranges \ {r}, GoneInv(s),
         \A a \in Mgmt : mgmt[a] = s /\ rstate[s] # "destroyed" => mgmt'[a] = s
  PROVE  GoneInv(s)'
<1>1. /\ rstate'[s] = rstate[s] /\ task'[s] = task[s] /\ vms'[s] = vms[s] /\ wire'[s] = wire[s] /\ lost'[s] = lost[s]
  BY DEF Frame
<1>2. \A a \in Mgmt : <<"noise_mgmt_ip", a>> \in wire'[s] => mgmt'[a] = s
  <2>1. SUFFICES ASSUME NEW a \in Mgmt, <<"noise_mgmt_ip", a>> \in wire[s] PROVE mgmt'[a] = s
    BY <1>1
  <2>2. wire[s] # {}
    BY <2>1
  <2>3. rstate[s] # "destroyed" /\ mgmt[a] = s
    BY <2>1, <2>2 DEF GoneInv
  <2>4. QED
    BY <2>3
<1>3. QED
  BY <1>1, <1>2 DEF GoneInv

\* Nothing the VMs use changes, and the task was not waiting to record them.
LEMMA SameGone ==
  ASSUME NEW r \in Ranges, UNCHANGED <<mgmt, vms, wire, lost>>, GoneInv(r), task[r].pc # "result",
         rstate'[r] = "destroyed" \/ task'[r].pc = "torndown" =>
            rstate[r] = "destroyed" \/ task[r].pc = "torndown" \/ wire[r] = {}
  PROVE  GoneInv(r)'
  BY DEF GoneInv

LEMMA QuietGone ==
  ASSUME TypeOK, WithinBudget, NEW r \in Ranges, Quiet(r), GoneInv(r), ~Spent("writeOff")', ~Spent("partial")'
  PROVE  GoneInv(r)'
<1>1. /\ QuietTask(r) /\ UNCHANGED <<mgmt, vms, wire, lost>>
      /\ rstate'[r] = "destroyed" => rstate[r] = "destroyed" \/ WriteOff(r) \/ RecordDestroyed(r)
  BY QuietStep
<1>2. NoWork.pc = "idle" /\ NoWork \in Work /\ task[r] \in Work
  BY NoWorkType, WorkFacts DEF NoWork
<1>3. ~WriteOff(r) /\ ~DestroyPartial(r)
  BY SpendSpends DEF WriteOff, DestroyPartial, Rare, GoneInv
<1>4. CASE task'[r] = task[r] /\ (AcceptDestroy(r) \/ Abandon(r))
  <2>1. rstate'[r] = "destroyed" => rstate[r] = "destroyed"
    BY <1>4, TypeParts DEF AcceptDestroy, Abandon, RecordType
  <2>2. QED
    BY <1>1, <1>4, <2>1 DEF GoneInv
<1>5. CASE ~(task'[r] = task[r] /\ (AcceptDestroy(r) \/ Abandon(r)))
  <2>1. task[r].pc # "result" /\ task'[r].pc # "torndown"
    <3>1. CASE StartBuild(r) /\ task'[r] = [NoWork EXCEPT !.pc = "stamped", !.at = clock']
      BY <1>2, <3>1 DEF StartBuild, Work
    <3>2. CASE LiveRead(r) /\ task'[r] = [task[r] EXCEPT !.pc = "read",
                                    !.fv = {v \in Vlans : <<v, Foreign>> \in pg},
                                    !.mv = {v \in Vlans : \E s \in Ranges : <<v, s>> \in pg}]
      BY <1>2, <3>2 DEF LiveRead, Work
    <3>3. CASE Prepare(r) /\ task'[r] = [task[r] EXCEPT !.pc = "checking", !.uses = pg, !.todo = task[r].alloc]
      BY <1>2, <3>3 DEF Prepare, Work
    <3>4. CASE CheckPortgroup(r) /\ task'[r] = [task[r] EXCEPT !.pc = "creating"]
      BY <1>2, <3>4 DEF CheckPortgroup, Work
    <3>5. CASE (ReserveRefused(r) \/ RecordFailure(r) \/ RecordDestroyed(r)) /\ task'[r] = NoWork
      BY <1>2, <3>5 DEF ReserveRefused, RecordFailure, RecordDestroyed
    <3>6. CASE DestroyFailed(r) /\ task'[r] = [NoWork EXCEPT !.pc = "failed"]
      BY <1>2, <3>6 DEF DestroyFailed, Work
    <3>7. QED
      BY <1>1, <1>3, <1>5, <3>1, <3>2, <3>3, <3>4, <3>5, <3>6 DEF QuietTask
  <2>2. rstate'[r] = "destroyed" => rstate[r] = "destroyed" \/ task[r].pc = "torndown"
    BY <1>1, <1>3 DEF RecordDestroyed
  <2>3. QED
    BY <1>1, <2>1, <2>2, SameGone
<1>6. QED
  BY <1>4, <1>5

LEMMA BuildVmsGone ==
  ASSUME TypeOK, NEW r \in Ranges, BuildVms(r), CoreInv(r), AloneInv(r), GoneInv(r)
  PROVE  GoneInv(r)'
<1>1. task[r].up \in Uplinks
  BY BuildVmsCore
<1>2. /\ UNCHANGED <<rstate, mgmt, vms, lost>> /\ task[r].pc = "checking" /\ task'[r].pc = "result"
      /\ wire'[r] = wire[r] \cup {<<"uplink_ip", task[r].up>>} \cup {<<"noise_mgmt_ip", a>> : a \in Held(mgmt, r)}
  BY <1>1, BuildVmsStep
<1>3. rstate[r] # "destroyed"
  BY <1>2 DEF AloneInv
<1>4. \A a \in Mgmt : <<"noise_mgmt_ip", a>> \in wire'[r] => <<"noise_mgmt_ip", a>> \in wire[r] \/ mgmt[a] = r
  BY <1>2 DEF Held
<1>5. QED
  BY <1>2, <1>3, <1>4 DEF GoneInv

LEMMA EndGone ==
  ASSUME TypeOK, WithinBudget, NEW r \in Ranges, Ends(r), AloneInv(r), GoneInv(r), ~Spent("crash")'
  PROVE  GoneInv(r)'
<1>1. PICK ok \in BOOLEAN, final \in BOOLEAN, to \in {"ready", "failed"} :
         BuildFailed(r, ok, final) \/ RecordBuilt(r, to) \/ DiscardBuilt(r, ok) \/ DestroyOk(r) \/ Crash(r)
  BY DEF Ends
<1>2. /\ UNCHANGED mgmt /\ task'[r].pc \in {"idle", "failed", "torndown"}
      /\ rstate'[r] = rstate[r] \/ (rstate'[r] # "destroyed" /\ rstate[r] # "destroyed")
  BY <1>1, EndStep
<1>3. ~Crash(r)
  BY SpendSpends DEF Crash, Rare
<1>4. /\ rstate \in [Ranges -> State] /\ vms \in [Ranges -> BOOLEAN] /\ wire \in [Ranges -> SUBSET Address]
      /\ NoWork.pc = "idle" /\ NoWork \in Work
  BY TypeParts, NoWorkType DEF RecordType, WorldType, NoWork
<1>5. rstate[r] # "destroyed"
  BY <1>1 DEF BuildFailed, RecordBuilt, DiscardBuilt, DestroyOk, Crash, AloneInv
<1>6. CASE BuildFailed(r, ok, final)
  <2>1. /\ UNCHANGED <<mgmt, vms, wire, lost, rstate>> /\ task[r].pc # "result"
        /\ task'[r] = [NoWork EXCEPT !.pc = IF final THEN "failed" ELSE "idle"]
    BY <1>2, <1>6, TypeParts DEF BuildFailed, Work_, WorkType
  <2>2. task'[r].pc # "torndown"
    BY <1>4, <2>1 DEF Work
  <2>3. QED
    BY <2>1, <2>2, SameGone
<1>7. CASE RecordBuilt(r, to)
  <2>1. UNCHANGED <<mgmt, wire, lost>> /\ vms'[r] = TRUE /\ task'[r] = NoWork
    BY <1>2, <1>4, <1>7, TypeParts DEF RecordBuilt, Work_, WorkType, world
  <2>2. QED
    BY <1>2, <1>4, <1>5, <2>1 DEF GoneInv
<1>8. CASE DiscardBuilt(r, ok)
  <2>1. UNCHANGED <<mgmt, lost, rstate>> /\ task'[r] = NoWork
    BY <1>2, <1>8, TypeParts DEF DiscardBuilt, Work_, WorkType
  <2>2. wire'[r] = {} \/ (UNCHANGED wire /\ vms'[r] = TRUE)
    BY <1>4, <1>8 DEF DiscardBuilt
  <2>3. QED
    BY <1>4, <1>5, <2>1, <2>2 DEF GoneInv
<1>9. CASE DestroyOk(r)
  <2>1. UNCHANGED <<mgmt, lost>> /\ wire'[r] = {}
    BY <1>2, <1>4, <1>9 DEF DestroyOk
  <2>2. QED
    BY <2>1 DEF GoneInv
<1>10. QED
  BY <1>1, <1>3, <1>6, <1>7, <1>8, <1>9

LEMMA GoneStep ==
  ASSUME TypeOK, WithinBudget, NEW r \in Ranges, RangeNext(r), \A s \in Ranges : CoreInv(s),
         \A s \in Ranges : AloneInv(s), \A s \in Ranges : GoneInv(s),
         ~Spent("writeOff")', ~Spent("partial")', ~Spent("crash")'
  PROVE  \A s \in Ranges : GoneInv(s)'
<1> DEFINE Keeps == \A s \in Ranges \ {r}, a \in Mgmt : mgmt[a] = s /\ rstate[s] # "destroyed" => mgmt'[a] = s
<1>1. AloneInv(r) /\ GoneInv(r) /\ CoreInv(r) /\ Frame(r)
  BY CoreStep
<1>2. SUFFICES GoneInv(r)' /\ Keeps
  BY <1>1, OthersGone
<1>3. CASE Quiet(r)
  BY <1>1, <1>3, QuietStep, QuietGone
<1>4. ASSUME NEW noisy \in BOOLEAN, AcceptProvision(r, noisy) PROVE GoneInv(r)' /\ Keeps
  <2>1. UNCHANGED <<vms, wire, lost, task>> /\ ~vms[r] /\ task[r].pc = "idle" /\ Keeps
    BY <1>4, AcceptProvisionStep
  <2>2. wire[r] = {}
    BY <1>1, <2>1 DEF GoneInv
  <2>3. QED
    BY <1>1, <2>1, <2>2 DEF GoneInv
<1>5. CASE Release(r)
  <2>1. UNCHANGED <<rstate, vms, wire, lost, task>> /\ rstate[r] = "destroyed" /\ Keeps
    BY <1>5, ReleaseStep
  <2>2. wire[r] = {}
    BY <1>1, <2>1 DEF GoneInv
  <2>3. QED
    BY <1>1, <2>1, <2>2 DEF GoneInv
<1>6. ASSUME NEW stale, NEW n, Reserve(r, stale, n) PROVE GoneInv(r)' /\ Keeps
  <2>1. UNCHANGED <<rstate, mgmt, vms, wire, lost>> /\ task[r].pc = "read" /\ task'[r].pc = "reserved"
    BY <1>6, ReserveStep
  <2>2. QED
    BY <1>1, <2>1, SameGone
<1>7. CASE CreatePortgroup(r)
  <2>1. task[r].todo # {}
    BY <1>7 DEF CreatePortgroup, CoreInv, AllocInv, Allocated
  <2>2. UNCHANGED <<rstate, mgmt, vms, wire, lost>> /\ task[r].pc = "creating" /\ task'[r].pc = "checking"
    BY <1>7, <2>1, CreatePortgroupStep
  <2>3. QED
    BY <1>1, <2>2, SameGone
<1>8. ASSUME NEW b \in BOOLEAN, NEW c \in BOOLEAN, Collide(r, b, c) PROVE GoneInv(r)' /\ Keeps
  <2>1. UNCHANGED <<rstate, mgmt, vms, wire, lost>> /\ task[r].pc = "checking" /\ task'[r].pc = "collided"
    BY <1>8, CollideStep
  <2>2. QED
    BY <1>1, <2>1, SameGone
<1>9. ASSUME NEW ok \in BOOLEAN, ReleaseConflict(r, ok) PROVE GoneInv(r)' /\ Keeps
  <2>1. /\ UNCHANGED <<rstate, mgmt, vms, wire, lost>> /\ task[r].pc = "collided"
        /\ task'[r] = [NoWork EXCEPT !.pc = "failed"]
    BY <1>9, ReleaseConflictStep
  <2>2. task'[r].pc = "failed"
    BY <2>1, NoWorkType DEF Work
  <2>3. QED
    BY <1>1, <2>1, <2>2, SameGone
<1>10. CASE BuildVms(r)
  <2>1. task[r].up \in Uplinks
    BY <1>1, <1>10, BuildVmsCore
  <2>2. QED
    BY <1>1, <1>10, <2>1, BuildVmsStep, BuildVmsGone
<1>11. CASE Ends(r)
  BY <1>1, <1>11, EndStep, EndGone DEF Ends
<1>12. QED
  BY <1>3, <1>4, <1>5, <1>6, <1>7, <1>8, <1>9, <1>10, <1>11, StepKinds

-----------------------------------------------------------------------------
(* The management addresses: the steps.                                    *)

\* Nothing that matters to them changes.
LEMMA SameMgmt ==
  ASSUME TypeOK, NEW r \in Ranges, MgmtInv(r), StaysDestroyed, UNCHANGED <<mgmt, vms, wire, lost>>,
         task[r].pc = "result" => task'[r].pc = "result"
  PROVE  MgmtInv(r)'
  BY DEF MgmtInv, StaysDestroyed

LEMMA EndMgmt ==
  ASSUME TypeOK, NEW r \in Ranges, NEW ok \in BOOLEAN, NEW final \in BOOLEAN, NEW to \in {"ready", "failed"},
         BuildFailed(r, ok, final) \/ RecordBuilt(r, to) \/ DiscardBuilt(r, ok) \/ DestroyOk(r) \/ Crash(r), MgmtInv(r)
  PROVE  MgmtInv(r)'
<1>1. StaysDestroyed /\ UNCHANGED mgmt
  BY EndStep
<1>2. /\ vms \in [Ranges -> BOOLEAN] /\ wire \in [Ranges -> SUBSET Address] /\ lost \in [Ranges -> BOOLEAN]
      /\ vms[r] \in BOOLEAN
  BY TypeParts DEF WorldType, RecordType
<1>3. CASE BuildFailed(r, ok, final)
  <2>1. UNCHANGED <<vms, wire, lost>> /\ task[r].pc # "result"
    BY <1>3 DEF BuildFailed
  <2>2. QED
    BY <1>1, <2>1, SameMgmt
<1>4. CASE wire' = [wire EXCEPT ![r] = {}]
  <2>1. wire'[r] = {}
    BY <1>2, <1>4
  <2>2. QED
    BY <2>1 DEF MgmtInv
<1>5. CASE UNCHANGED <<wire, lost>> /\ vms' = [vms EXCEPT ![r] = TRUE]
  <2>1. vms'[r]
    BY <1>2, <1>5
  <2>2. QED
    BY <1>1, <1>5, <2>1 DEF MgmtInv, StaysDestroyed
<1>6. CASE Crash(r)
  <2>1. UNCHANGED <<wire, vms>> /\ lost' = [lost EXCEPT ![r] = @ \/ task[r].pc = "result"]
    BY <1>6 DEF Crash
  <2>2. lost'[r] = (lost[r] \/ task[r].pc = "result")
    BY <1>2, <2>1
  <2>3. QED
    BY <1>1, <2>1, <2>2 DEF MgmtInv, StaysDestroyed
<1>7. QED
  BY <1>3, <1>4, <1>5, <1>6 DEF RecordBuilt, DiscardBuilt, DestroyOk, world

\* What others hold stays theirs.
LEMMA OthersMgmt ==
  ASSUME TypeOK, NEW r \in Ranges, Frame(r), NEW s \in Ranges \ {r}, MgmtInv(s),
         \A a \in Mgmt : mgmt[a] = s /\ rstate[s] # "destroyed" => mgmt'[a] = s
  PROVE  MgmtInv(s)'
  BY DEF MgmtInv, Frame

LEMMA MgmtStep ==
  ASSUME TypeOK, NEW r \in Ranges, RangeNext(r), \A s \in Ranges : CoreInv(s), \A s \in Ranges : MgmtInv(s)
  PROVE  \A s \in Ranges : MgmtInv(s)'
<1> DEFINE Keeps == \A s \in Ranges \ {r}, a \in Mgmt : mgmt[a] = s /\ rstate[s] # "destroyed" => mgmt'[a] = s
<1>1. MgmtInv(r) /\ CoreInv(r) /\ Frame(r) /\ StaysDestroyed
  BY CoreStep
<1>2. SUFFICES MgmtInv(r)' /\ Keeps
  BY <1>1, OthersMgmt
<1>3. CASE Quiet(r)
  <2>1. UNCHANGED <<mgmt, vms, wire, lost>> /\ QuietTask(r)
    BY <1>3, QuietStep
  <2>2. task[r].pc = "result" => task'[r].pc = "result"
    BY <2>1 DEF QuietTask, StartBuild, LiveRead, Prepare, CheckPortgroup, ReserveRefused, RecordFailure,
                RecordDestroyed, DestroyPartial, DestroyFailed
  <2>3. QED
    BY <1>1, <2>1, <2>2, SameMgmt
<1>4. ASSUME NEW noisy \in BOOLEAN, AcceptProvision(r, noisy) PROVE MgmtInv(r)' /\ Keeps
  <2>1. UNCHANGED <<vms, wire, lost, task>> /\ ~vms[r] /\ task[r].pc = "idle" /\ Keeps
    BY <1>4, AcceptProvisionStep
  <2>2. QED
    BY <1>1, <2>1 DEF MgmtInv
<1>5. CASE Release(r)
  <2>1. UNCHANGED <<rstate, vms, wire, lost, task>> /\ rstate[r] = "destroyed" /\ Keeps
    BY <1>5, ReleaseStep
  <2>2. QED
    BY <1>1, <2>1 DEF MgmtInv
<1>6. ASSUME NEW stale, NEW n, Reserve(r, stale, n) PROVE MgmtInv(r)' /\ Keeps
  <2>1. UNCHANGED <<mgmt, vms, wire, lost>> /\ task[r].pc = "read"
    BY <1>6, ReserveStep
  <2>2. QED
    BY <1>1, <2>1, SameMgmt
<1>7. CASE CreatePortgroup(r)
  <2>1. task[r].todo # {}
    BY <1>7 DEF CreatePortgroup, CoreInv, AllocInv, Allocated
  <2>2. UNCHANGED <<mgmt, vms, wire, lost>> /\ task[r].pc = "creating"
    BY <1>7, <2>1, CreatePortgroupStep
  <2>3. QED
    BY <1>1, <2>2, SameMgmt
<1>8. ASSUME NEW b \in BOOLEAN, NEW c \in BOOLEAN, Collide(r, b, c) PROVE MgmtInv(r)' /\ Keeps
  <2>1. UNCHANGED <<mgmt, vms, wire, lost>> /\ task[r].pc = "checking"
    BY <1>8, CollideStep
  <2>2. QED
    BY <1>1, <2>1, SameMgmt
<1>9. ASSUME NEW ok \in BOOLEAN, ReleaseConflict(r, ok) PROVE MgmtInv(r)' /\ Keeps
  <2>1. UNCHANGED <<mgmt, vms, wire, lost>> /\ task[r].pc = "collided"
    BY <1>9, ReleaseConflictStep
  <2>2. QED
    BY <1>1, <2>1, SameMgmt
<1>10. CASE BuildVms(r)
  <2>1. task[r].up \in Uplinks
    BY <1>1, <1>10, BuildVmsCore
  <2>2. /\ UNCHANGED <<rstate, mgmt, vms, lost>> /\ task'[r].pc = "result"
        /\ wire'[r] = wire[r] \cup {<<"uplink_ip", task[r].up>>} \cup {<<"noise_mgmt_ip", a>> : a \in Held(mgmt, r)}
    BY <1>10, <2>1, BuildVmsStep
  <2>3. ASSUME NEW a \in Mgmt, <<"noise_mgmt_ip", a>> \in wire'[r], rstate[r] # "destroyed" PROVE mgmt[a] = r \/ lost[r]
    <3>1. <<"noise_mgmt_ip", a>> # <<"uplink_ip", task[r].up>>
      OBVIOUS
    <3>2. <<"noise_mgmt_ip", a>> \in wire[r] \/ a \in Held(mgmt, r)
      BY <2>2, <2>3, <3>1
    <3>3. QED
      BY <1>1, <2>3, <3>2 DEF MgmtInv, Held
  <2>4. QED
    BY <2>2, <2>3 DEF MgmtInv
<1>11. CASE Ends(r)
  BY <1>1, <1>11, EndStep, EndMgmt DEF Ends
<1>12. QED
  BY <1>3, <1>4, <1>5, <1>6, <1>7, <1>8, <1>9, <1>10, <1>11, StepKinds

-----------------------------------------------------------------------------
(* The invariant holds.                                                    *)

LEMMA InitNet == Init => NetInv
<1> SUFFICES ASSUME Init PROVE NetInv
  OBVIOUS
<1>1. TypeOK
  <2>1. NoWork \in Work /\ 0 \in 0 .. MaxReads
    <3>1. NoWork \in Work
      BY NoWorkType
    <3>2. QED
      BY <3>1, NetworkAssumption
  <2>2. TableType /\ RecordType /\ WorldType /\ WorkType /\ GhostType
    BY <2>1, NetworkAssumption DEF Init, TableType, RecordType, WorldType, WorkType, GhostType, VlanHolders,
       OtherHolders, State, Address
  <2>3. QED
    BY <2>2, TypeParts
<1>2. WithinBudget
  BY NetworkAssumption DEF Init, WithinBudget
<1>3. NoWork.pc = "idle" /\ NoWork.at = 0
  BY DEF NoWork
<1>4. \A r \in Ranges : /\ rstate[r] = "created" /\ task[r].pc = "idle" /\ task[r].at = 0
                        /\ wire[r] = {} /\ lost[r] = FALSE
  BY <1>3 DEF Init
<1>5. pg = {} /\ known = {} /\ clock = 0
  BY DEF Init
<1>6. \A r \in Ranges : CoreInv(r) /\ AloneInv(r) /\ GoneInv(r) /\ MgmtInv(r)
  BY <1>4, <1>5 DEF CoreInv, AllocInv, BuildInv, UseInv, AloneInv, GoneInv, MgmtInv, Allocated
<1>7. ReadInv
  BY <1>4, <1>5 DEF ReadInv
<1>8. QED
  BY <1>1, <1>2, <1>6, <1>7 DEF NetInv, CoreInv

LEMMA NextNet == NetInv /\ [Next]_vars => NetInv'
<1> SUFFICES ASSUME NetInv, [Next]_vars PROVE NetInv'
  OBVIOUS
<1>1. TypeOK /\ WithinBudget /\ ReadInv /\ \A s \in Ranges : CoreInv(s) /\ MgmtInv(s)
  BY DEF NetInv, CoreInv
<1>2. /\ WithinBudget' /\ (Spent("writeOff") => Spent("writeOff")') /\ (Spent("partial") => Spent("partial")')
      /\ (Spent("crash") => Spent("crash")')
  BY <1>1, BudgetFalls DEF Rare
<1>3. ASSUME NEW r \in Ranges, RangeNext(r) PROVE NetInv'
  <2>1. TypeOK' /\ (\A s \in Ranges : CoreInv(s)') /\ ReadInv'
    BY <1>1, <1>3, CoreStep, ReadStep
  <2>1a. \A s \in Ranges : MgmtInv(s)'
    BY <1>1, <1>3, MgmtStep
  <2>2. ~Spent("writeOff")' => \A s \in Ranges : AloneInv(s)'
    BY <1>1, <1>2, <1>3, AloneStep DEF NetInv
  <2>3. ~Spent("writeOff")' /\ ~Spent("partial")' /\ ~Spent("crash")' => \A s \in Ranges : GoneInv(s)'
    BY <1>1, <1>2, <1>3, GoneStep DEF NetInv
  <2>4. QED
    BY <1>2, <2>1, <2>1a, <2>2, <2>3 DEF NetInv, CoreInv
<1>4. ASSUME NEW u \in Vlans, ForeignAdded(u) \/ ForeignRemoved(u) PROVE NetInv'
  <2>1. TypeOK' /\ UNCHANGED <<rstate, mgmt, vms, wire, lost, task>> /\ ReadInv'
    BY <1>1, <1>4, ForeignStep, ForeignRead
  <2>1a. \A s \in Ranges : MgmtInv(s)'
    BY <1>1, <2>1 DEF MgmtInv
  <2>2. \A s \in Ranges : CoreInv(s)'
    BY <1>1, <1>4, ForeignCore
  <2>3. ~Spent("writeOff")' => \A s \in Ranges : AloneInv(s)'
    BY <1>1, <1>2, <1>4, ForeignAlone DEF NetInv
  <2>4. ~Spent("writeOff")' /\ ~Spent("partial")' /\ ~Spent("crash")' => \A s \in Ranges : GoneInv(s)'
    BY <1>2, <2>1 DEF NetInv, GoneInv
  <2>5. QED
    BY <1>2, <2>1, <2>1a, <2>2, <2>3, <2>4 DEF NetInv, CoreInv
<1>5. CASE UNCHANGED vars
  <2>1. UNCHANGED <<rstate, vlan, seen, uplink, mgmt, planned, vms, pg, wire, lost, task, clock, known, shaky, dropped, budget>>
    BY <1>5 DEF vars, table, world, ghost
  <2>2. TypeOK' /\ WithinBudget' /\ ReadInv'
    BY <1>1, <2>1 DEF TypeOK, WithinBudget, ReadInv
  <2>3. \A s \in Ranges : CoreInv(s)' /\ MgmtInv(s)'
    BY <1>1, <2>1 DEF CoreInv, AllocInv, BuildInv, UseInv, MgmtInv
  <2>4. (Spent("writeOff") \/ \A r \in Ranges : AloneInv(r))'
    BY <2>1 DEF NetInv, AloneInv, Spent
  <2>5. (Spent("writeOff") \/ Spent("partial") \/ Spent("crash") \/ \A r \in Ranges : GoneInv(r))'
    BY <2>1 DEF NetInv, GoneInv, Spent
  <2>6. QED
    BY <2>2, <2>3, <2>4, <2>5 DEF NetInv, CoreInv
<1>6. QED
  BY <1>3, <1>4, <1>5 DEF Next

\* The invariant holds in every state: in every interleaving of the ranges' builds, destroys and
\* write-offs with each other and with what others do on the switch.
THEOREM NetInvariant == Spec => []NetInv
  BY InitNet, NextNet, PTL DEF Spec

\* The variables keep their types: in particular every row of the table has one holder, and no
\* build hands out an address that was not in a pool.
THEOREM TypeCorrect == Spec => []TypeOK
<1>1. NetInv => TypeOK
  BY DEF NetInv
<1>2. QED
  BY <1>1, NetInvariant, PTL

\* Whatever a range that is not destroyed has on the switch or in its VMs is reserved for it, at
\* every point where a build may die, fail, collide, be abandoned or be built again from an edited
\* template (reserve_for_build, release_conflict); but for the port groups an earlier attempt left
\* whose VLAN a collision or that template's prune released, and lost VMs' management addresses.
THEOREM UsedIsHeld == Spec => []HeldWhileUsed
<1>1. NetInv => HeldWhileUsed
  BY DEF NetInv, UseInv, MgmtInv, HeldWhileUsed
<1>2. QED
  BY <1>1, NetInvariant, PTL

\* A destroy finds every port group of its range in the recorded output, but for the VLANs a
\* collision or an edited template's prune dropped (planned_output, drop_range_networks).
THEOREM PortgroupsAreRecorded == Spec => []PortgroupsRecordedUnlessDropped
<1>1. NetInv => PortgroupsRecordedUnlessDropped
  BY DEF NetInv, UseInv, PortgroupsRecordedUnlessDropped
<1>2. QED
  BY <1>1, NetInvariant, PTL

\* Two ranges never have port groups on one VLAN, unless a range was written off with its own
\* still on the switch (vsphere_vlans.check, ensure_dvs_portgroup).
THEOREM VlansAreNotShared == Spec => []OneRangePerVlan
<1>1. NetInv => OneRangePerVlan
  BY DEF NetInv, AloneInv, OneRangePerVlan
<1>2. QED
  BY <1>1, NetInvariant, PTL

\* However late a slow read of the switch commits, a VLAN known to be used outside TrueNorth
\* stays external (record_external).
THEOREM SlowReadsDeleteNothing == Spec => []NewestReadCounts
<1>1. NetInv => NewestReadCounts
  BY DEF NetInv, ReadInv, NewestReadCounts
<1>2. QED
  BY <1>1, NetInvariant, PTL

\* The VMs of two ranges never use one address, unless VMs were left behind by a write-off, a
\* partial destroy or a crash (reserve_values, release_after_destroy).
THEOREM AddressesAreNotShared == Spec => []AddressesOnceIfGone
<1>1. NetInv => AddressesOnceIfGone
  <2>1. SUFFICES ASSUME NetInv, \A r \in Ranges : GoneInv(r), NEW r \in Ranges, NEW s \in Ranges, r # s,
                        NEW x \in wire[r], x \in wire[s]
                 PROVE  FALSE
    BY DEF NetInv, AddressesOnceIfGone
  <2>2. x \in Address /\ rstate[r] # "destroyed" /\ rstate[s] # "destroyed"
    <3>1. TypeOK
      BY <2>1 DEF NetInv
    <3>2. wire \in [Ranges -> SUBSET Address]
      BY <3>1, TypeParts DEF WorldType
    <3>3. QED
      BY <2>1, <3>2 DEF GoneInv
  <2>3. CASE x \in {"uplink_ip"} \X Uplinks
    <3>1. PICK a \in Uplinks : x = <<"uplink_ip", a>>
      BY <2>3
    <3>2. uplink[a] = r /\ uplink[a] = s
      BY <2>1, <2>2, <3>1 DEF NetInv, UseInv
    <3>3. QED
      BY <2>1, <3>2
  <2>4. CASE x \in {"noise_mgmt_ip"} \X Mgmt
    <3>1. PICK a \in Mgmt : x = <<"noise_mgmt_ip", a>>
      BY <2>4
    <3>2. mgmt[a] = r /\ mgmt[a] = s
      BY <2>1, <3>1 DEF GoneInv
    <3>3. QED
      BY <2>1, <3>2
  <2>5. QED
    BY <2>2, <2>3, <2>4 DEF Address
<1>2. QED
  BY <1>1, NetInvariant, PTL
==============================================================================
