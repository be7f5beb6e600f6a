------------------------- MODULE LabSessionsProofs -------------------------
(***************************************************************************)
(* Proofs about LabSessions, for any number of sessions, rebuilds, networks*)
(* and processes. A session has one range that is not destroyed (RangesInv)*)
(* and what that range waits for is on the session, with the broker or at  *)
(* work (WaitInv). The networks go back when the search for leftovers is   *)
(* over: the grace may only end while the search is still on the session   *)
(* if whoever sends it starts the grace again (SearchInv). No two sessions *)
(* have one network at a time, and a session with a range has one          *)
(* (PlacesInv).                                                            *)
(***************************************************************************)
EXTENDS LabSessions, SequenceTheorems, TLAPS

-----------------------------------------------------------------------------
(* The outbox.                                                             *)

Elems(q) == {q[k] : k \in DOMAIN q}

LEMMA ElemsConcat ==
  ASSUME NEW a \in Seq(Task), NEW b \in Seq(Task)
  PROVE  a \o b \in Seq(Task) /\ Elems(a \o b) = Elems(a) \cup Elems(b)
<1>1. /\ a \o b \in Seq(Task) /\ Len(a \o b) = Len(a) + Len(b)
      /\ \A i \in 1 .. Len(a) + Len(b) : (a \o b)[i] = IF i <= Len(a) THEN a[i] ELSE b[i - Len(a)]
  BY ConcatProperties
<1>2. /\ DOMAIN a = 1 .. Len(a) /\ DOMAIN b = 1 .. Len(b) /\ DOMAIN (a \o b) = 1 .. Len(a) + Len(b)
      /\ Len(a) \in Nat /\ Len(b) \in Nat
  BY <1>1, LenProperties
<1> DEFINE c == a \o b
<1> HIDE DEF c
<1>3. \A i \in DOMAIN a : i \in DOMAIN c /\ c[i] = a[i]
  BY <1>1, <1>2 DEF c
<1>4. \A i \in DOMAIN b : i + Len(a) \in DOMAIN c /\ c[i + Len(a)] = b[i]
  <2>1. SUFFICES ASSUME NEW i \in 1 .. Len(b) PROVE i + Len(a) \in DOMAIN c /\ c[i + Len(a)] = b[i]
    BY <1>2
  <2>2. i + Len(a) \in 1 .. Len(a) + Len(b) /\ ~(i + Len(a) <= Len(a)) /\ (i + Len(a)) - Len(a) = i
    BY <1>2
  <2>3. QED
    BY <1>1, <1>2, <2>2 DEF c
<1>5. \A i \in DOMAIN c : (i \in DOMAIN a /\ c[i] = a[i]) \/ (i - Len(a) \in DOMAIN b /\ c[i] = b[i - Len(a)])
  <2>1. SUFFICES ASSUME NEW i \in 1 .. Len(a) + Len(b)
                 PROVE  (i \in DOMAIN a /\ c[i] = a[i]) \/ (i - Len(a) \in DOMAIN b /\ c[i] = b[i - Len(a)])
    BY <1>2 DEF c
  <2>2. c[i] = IF i <= Len(a) THEN a[i] ELSE b[i - Len(a)]
    BY <1>1 DEF c
  <2>3. i <= Len(a) => i \in 1 .. Len(a)
    BY <1>2
  <2>4. ~(i <= Len(a)) => i - Len(a) \in 1 .. Len(b)
    BY <1>2
  <2>5. QED
    BY <1>2, <2>2, <2>3, <2>4
<1>6. Elems(c) = Elems(a) \cup Elems(b)
  BY <1>3, <1>4, <1>5 DEF Elems
<1>7. QED
  BY <1>1, <1>6 DEF c

LEMMA ElemsFew ==
  /\ << >> \in Seq(Task) /\ Elems(<< >>) = {}
  /\ \A m \in Task : <<m>> \in Seq(Task) /\ Elems(<<m>>) = {m}
  /\ \A m, n \in Task : <<m, n>> \in Seq(Task) /\ Elems(<<m, n>>) = {m, n}
<1>1. << >> \in Seq(Task) /\ Elems(<< >>) = {}
  BY DEF Elems
<1>2. ASSUME NEW m \in Task PROVE <<m>> \in Seq(Task) /\ Elems(<<m>>) = {m}
  <2>1. <<m>> \in Seq(Task) /\ DOMAIN <<m>> = {1} /\ <<m>>[1] = m
    OBVIOUS
  <2>2. QED
    BY <2>1 DEF Elems
<1>3. ASSUME NEW m \in Task, NEW n \in Task PROVE <<m, n>> \in Seq(Task) /\ Elems(<<m, n>>) = {m, n}
  <2>1. <<m, n>> \in Seq(Task) /\ DOMAIN <<m, n>> = {1, 2} /\ <<m, n>>[1] = m /\ <<m, n>>[2] = n
    OBVIOUS
  <2>2. QED
    BY <2>1 DEF Elems
<1>4. QED
  BY <1>1, <1>2, <1>3

\* What went out and what was kept are all there was.
LEMMA ElemsSplit ==
  ASSUME NEW q \in Seq(Task), NEW k \in 0 .. Len(q)
  PROVE  /\ Kept(q, k) \in Seq(Task) /\ SubSeq(q, 1, k) \in Seq(Task)
         /\ Elems(q) = Elems(SubSeq(q, 1, k)) \cup Elems(Kept(q, k))
         /\ k = 0 => Kept(q, k) = q
<1>1. Len(q) \in Nat /\ \A i \in 1 .. Len(q) : q[i] \in Task
  BY LenProperties, ElementOfSeq
<1>2. Kept(q, k) \in Seq(Task)
  BY <1>1, SubSeqProperties DEF Kept
<1>3. SubSeq(q, 1, k) \in Seq(Task)
  BY <1>1, SubSeqProperties
<1>4. SubSeq(q, 1, k) \o SubSeq(q, k + 1, Len(q)) = q
  <2>1. SubSeq(q, 1, k) \o SubSeq(q, k + 1, Len(q)) = SubSeq(q, 1, Len(q))
    <3>1. 1 \in 1 .. Len(q) + 1 /\ k \in 1 - 1 .. Len(q) /\ Len(q) \in k .. Len(q)
      BY <1>1
    <3>2. QED
      BY <3>1, ConcatAdjacentSubSeq
  <2>2. QED
    BY <2>1, SubSeqFull
<1>5. Elems(q) = Elems(SubSeq(q, 1, k)) \cup Elems(Kept(q, k))
  BY <1>2, <1>3, <1>4, ElemsConcat DEF Kept
<1>6. ASSUME k = 0 PROVE Kept(q, k) = q
  BY <1>6, SubSeqFull DEF Kept
<1>7. QED
  BY <1>2, <1>3, <1>5, <1>6

-----------------------------------------------------------------------------
(* The inductive invariant.                                                *)

\* The tasks on the session, not yet sent.
Outbox(s) == {lab[s].pending[k] : k \in DOMAIN lab[s].pending}

\* Everything that was asked for.
Asked(s) == Outbox(s) \cup {m \in queue \cup running : m.lab = s}

Provision(s, i) == Ask("provision_range", s, {i})
Destroy(s, i) == Ask("destroy_range", s, {i})

\* No rare event happens more often than its bound.
WithinBudget == \A f \in Rare : budget[f] <= Budget[f]

\* A task is about ranges the session has had; all but the search for leftovers about one.
TasksInv(s) ==
    /\ \A m \in Asked(s) : /\ m \in Task /\ m.lab = s
                           /\ \A i \in m.ids : i <= Current(s)
                           /\ m.task # "reconcile_lab_vms" => \E i \in Gen : m.ids = {i}
    /\ \A m \in running : m.lab = s => m.task = "provision_range"

\* A session has one range at a time: the earlier ones are destroyed, the later ones unborn.
RangesInv(s) ==
    /\ State(s) \in {"none", "queued"} => Current(s) = 0
    /\ Current(s) = 0 => State(s) \in {"none", "queued", "destroyed"}
    /\ \A i \in Gen : /\ i > Current(s) => rstate[s][i] = "none" /\ vms[s][i] = {}
                      /\ i <= Current(s) => rstate[s][i] # "none"
                      /\ i < Current(s) => rstate[s][i] = "destroyed"

\* While a lab is in use, nothing destroys its range.
UsedInv(s) ==
    State(s) \in {"provisioning", "baselining", "ready", "active"} \/ (State(s) = "resetting" /\ mode[s] = "snapshot") =>
        RangeOf(s) \in {"created", "provisioning", "ready", "failed"}

\* A destroyed range has no machines but what a destroy or a build left, and none being built.
MachinesInv(s) ==
    \A i \in Gen : /\ "building" \in vms[s][i] => Provision(s, i) \in running
                   /\ rstate[s][i] = "destroyed" => vms[s][i] \subseteq {"left"} /\ Provision(s, i) \notin running

\* What a range waits for is on its way.
WaitInv(s) ==
    \A i \in Gen : /\ rstate[s][i] = "provisioning" => Provision(s, i) \in Asked(s)
                   /\ rstate[s][i] = "destroying" => Destroy(s, i) \in Asked(s)

CoreInv(s) == TasksInv(s) /\ RangesInv(s) /\ UsedInv(s) /\ MachinesInv(s) /\ WaitInv(s)

Empty(s) == \A i \in Gen : vms[s][i] = {}

\* The search for leftovers that comes before the networks go back.
Search(s) == Ask("reconcile_lab_vms", s, AllRanges(s))

\* While leftovers are looked for, the search is on its way or there are none. The grace is
\* over with the search still on the session only when whoever sends it will start it again.
SearchInv(s) ==
    State(s) = "reconciling" =>
        /\ RangeOf(s) = "destroyed"
        /\ Empty(s) \/ Search(s) \in Outbox(s) \cup queue
        /\ lab[s].grace /\ Idle(s) => Empty(s)
        /\ lab[s].grace /\ ~Idle(s) => lease[s] = None \/ flush[lease[s]] # <<s, FALSE>>

\* A network that went back was that of a lab that is gone.
BackInv(s) == net[s] # home[s] => State(s) = "destroyed" /\ RangeOf(s) \in {"none", "destroyed"} /\ Empty(s)

\* No two sessions have a network, and a session with a range has one until it is gone.
PlacesInv ==
    /\ \A s, t \in Session : s # t /\ net[s] # None => net[s] # net[t]
    /\ \A s \in Session : Current(s) # 0 => home[s] # None /\ (State(s) # "destroyed" => net[s] # None)

LabsInv ==
    /\ TypeOK /\ WithinBudget
    /\ \A s \in Session : CoreInv(s)
    /\ Spent("late") \/ Spent("reconcileFails") \/ \A s \in Session : SearchInv(s) /\ BackInv(s)

-----------------------------------------------------------------------------
(* Types.                                                                  *)

SessionState == Live \cup Ending \cup Terminal \cup {"none"}
RangeState == {"none", "created", "provisioning", "ready", "destroying", "destroyed", "failed"}
SnapState == {"none", "creating", "ready", "failed", "restoring"}
Machine == {"building", "recorded", "left"}

LabType == lab \in [Session -> Lab] /\ mode \in [Session -> Modes]
PlaceType == /\ net \in [Session -> PortGroup \cup {None}] /\ home \in [Session -> PortGroup \cup {None}]
             /\ snap \in [Session -> SnapState]
RangeType == rstate \in [Session -> [Gen -> RangeState]] /\ vms \in [Session -> [Gen -> SUBSET Machine]]
LeaseType == /\ lease \in [Session -> Process \cup {None}] /\ lapsed \in [Session -> BOOLEAN]
             /\ flush \in [Process -> (Session \X BOOLEAN) \cup {None}]
QueueType == queue \subseteq Task /\ running \subseteq Task
BudgetType == budget \in [Rare -> Nat]

LEMMA TypeParts == TypeOK <=> LabType /\ PlaceType /\ RangeType /\ LeaseType /\ QueueType /\ BudgetType
  BY Zenon DEF TypeOK, LabType, PlaceType, RangeType, LeaseType, QueueType, BudgetType, RangeState, SnapState, Machine

LEMMA TypePartsNext == TypeOK' <=> LabType' /\ PlaceType' /\ RangeType' /\ LeaseType' /\ QueueType' /\ BudgetType'
  BY Zenon DEF TypeOK, LabType, PlaceType, RangeType, LeaseType, QueueType, BudgetType, RangeState, SnapState, Machine

LEMMA LabFacts ==
  ASSUME TypeOK, NEW s \in Session
  PROVE  /\ lab \in [Session -> Lab] /\ lab[s] \in Lab
         /\ lab[s].state \in SessionState /\ lab[s].range \in 0 .. Rebuilds /\ lab[s].range \in Nat
         /\ lab[s].pending \in Seq(Task)
         /\ lab[s].tries \in 0 .. MaxTries /\ lab[s].grace \in BOOLEAN
         /\ Outbox(s) = Elems(lab[s].pending) /\ Outbox(s) \subseteq Task
<1>1. lab \in [Session -> Lab]
  BY TypeParts DEF LabType
<1>2. lab[s] \in Lab
  BY <1>1
<1>3. /\ lab[s].state \in SessionState /\ lab[s].range \in 0 .. Rebuilds /\ lab[s].pending \in Seq(Task)
      /\ lab[s].tries \in 0 .. MaxTries /\ lab[s].grace \in BOOLEAN
  BY <1>2 DEF Lab, SessionState
<1>4. Outbox(s) = Elems(lab[s].pending)
  BY DEF Outbox, Elems
<1>5. Outbox(s) \subseteq Task
  BY <1>3, ElementOfSeq, LenProperties DEF Outbox
<1>6. lab[s].range \in Nat
  BY <1>3
<1>7. QED
  BY <1>1, <1>2, <1>3, <1>4, <1>5, <1>6

LEMMA GenFacts == /\ Rebuilds \in Nat /\ Gen \subseteq Nat /\ \A n \in 0 .. Rebuilds : n # 0 => n \in Gen
                  /\ \A n \in 0 .. Rebuilds : n < Rebuilds => n + 1 \in Gen /\ n + 1 \in 0 .. Rebuilds
  BY LabsAssumption DEF Gen

\* A task about one range.
LEMMA AskType ==
  ASSUME NEW s \in Session, NEW ids \in SUBSET Gen,
         NEW name \in {"provision_range", "destroy_range", "snapshot_range", "restore_snapshot", "reconcile_lab_vms"}
  PROVE  /\ Ask(name, s, ids) \in Task
         /\ Ask(name, s, ids).task = name /\ Ask(name, s, ids).lab = s /\ Ask(name, s, ids).ids = ids
  BY DEF Ask, Task

LEMMA TheOne == ASSUME NEW m, NEW i, m.ids = {i} PROVE The(m) = i
  BY DEF The

LEMMA TaskEq ==
  ASSUME NEW m \in Task, NEW i \in Gen, m.ids = {i}
  PROVE  /\ m = Ask(m.task, m.lab, {i}) /\ m.lab \in Session
         /\ m.task = "provision_range" => m = Provision(m.lab, i)
         /\ m.task = "destroy_range" => m = Destroy(m.lab, i)
  BY DEF Ask, Task, Provision, Destroy

LEMMA SpendType ==
  ASSUME TypeOK, NEW f \in Rare, Spend(f) \/ UNCHANGED budget
  PROVE  BudgetType'
<1>1. BudgetType
  BY TypeParts
<1>2. QED
  BY <1>1 DEF BudgetType, Spend

\* The lease and the flush of an operation.
LEMMA UnderType ==
  ASSUME TypeOK, NEW p \in Process, NEW s \in Session, NEW b \in BOOLEAN,
         flush[p] = None, lease' = [lease EXCEPT ![s] = p], lapsed' = [lapsed EXCEPT ![s] = FALSE],
         flush' = [flush EXCEPT ![p] = <<s, b>>]
  PROVE  /\ LeaseType' /\ lease'[s] = p /\ flush'[p] = <<s, b>>
         /\ \A t \in Session \ {s} : lease'[t] = lease[t]
         /\ \A q \in Process \ {p} : flush'[q] = flush[q]
<1>1. LeaseType
  BY TypeParts
<1>2. QED
  BY <1>1 DEF LeaseType

\* _set_state.
LEMMA SetStateStep ==
  ASSUME TypeOK, NEW s \in Session, NEW to \in SessionState, NEW tasks \in Seq(Task), SetState(s, to, tasks)
  PROVE  /\ lab' \in [Session -> Lab] /\ \A t \in Session \ {s} : lab'[t] = lab[t]
         /\ lab'[s].state = to /\ lab'[s].range = lab[s].range /\ lab'[s].grace = FALSE
         /\ lab'[s].pending = lab[s].pending \o tasks
         /\ Elems(lab'[s].pending) = Outbox(s) \cup Elems(tasks)
<1> DEFINE w == [lab[s] EXCEPT !.state = to, !.pending = @ \o tasks, !.grace = FALSE,
                               !.tries = IF to = State(s) THEN @ ELSE 0]
<1>1. lab \in [Session -> Lab] /\ lab[s] \in Lab /\ Outbox(s) = Elems(lab[s].pending) /\ lab[s].pending \in Seq(Task)
  BY LabFacts
<1>2. lab' = [lab EXCEPT ![s] = w]
  BY DEF SetState, Save
<1>3. lab[s].pending \o tasks \in Seq(Task) /\ Elems(lab[s].pending \o tasks) = Outbox(s) \cup Elems(tasks)
  BY <1>1, ElemsConcat
<1>4. 0 \in 0 .. MaxTries
  BY LabsAssumption
<1>5. w \in Lab
  BY <1>1, <1>3, <1>4 DEF Lab, SessionState
<1>6. w.state = to /\ w.range = lab[s].range /\ w.grace = FALSE /\ w.pending = lab[s].pending \o tasks
  BY <1>1 DEF Lab
<1> HIDE DEF w
<1>7. QED
  BY <1>1, <1>2, <1>3, <1>5, <1>6

LEMMA SetRangeStep ==
  ASSUME TypeOK, NEW s \in Session, NEW i \in Gen, NEW to \in RangeState,
         rstate' = [rstate EXCEPT ![s][i] = to]
  PROVE  /\ rstate' \in [Session -> [Gen -> RangeState]] /\ \A t \in Session \ {s} : rstate'[t] = rstate[t]
         /\ \A j \in Gen : rstate'[s][j] = IF j = i THEN to ELSE rstate[s][j]
<1>1. rstate \in [Session -> [Gen -> RangeState]]
  BY TypeParts DEF RangeType
<1>2. QED
  BY <1>1

LEMMA SetMachinesStep ==
  ASSUME TypeOK, NEW s \in Session, NEW i \in Gen, NEW to \in SUBSET Machine,
         vms' = [vms EXCEPT ![s][i] = to]
  PROVE  /\ vms' \in [Session -> [Gen -> SUBSET Machine]] /\ \A t \in Session \ {s} : vms'[t] = vms[t]
         /\ \A j \in Gen : vms'[s][j] = IF j = i THEN to ELSE vms[s][j]
<1>1. vms \in [Session -> [Gen -> SUBSET Machine]]
  BY TypeParts DEF RangeType
<1>2. QED
  BY <1>1

-----------------------------------------------------------------------------
(* An operation on a session.                                              *)

Used == {"provisioning", "baselining", "ready", "active"}

\* What the session's record and its range become, in an operation that builds nothing.
Grows(s) ==
    /\ lab' \in [Session -> Lab] /\ lab'[s].range = lab[s].range
    /\ Outbox(s) \subseteq Outbox(s)'
    /\ \A m \in Outbox(s)' \ Outbox(s) :
          m \in Task /\ m.lab = s /\ (m = Search(s) \/ (Current(s) \in Gen /\ m.ids = {Current(s)}))
    /\ rstate' \in [Session -> [Gen -> RangeState]]
    /\ \A j \in Gen \ {Current(s)} : rstate'[s][j] = rstate[s][j]
    /\ \/ rstate'[s] = rstate[s]
       \/ Current(s) \in Gen /\ rstate'[s][Current(s)] = "destroying" /\ Destroy(s, Current(s)) \in Asked(s)'
       \/ Current(s) \in Gen /\ rstate'[s][Current(s)] = "provisioning" /\ Provision(s, Current(s)) \in Asked(s)'

LEMMA SearchType ==
  ASSUME TypeOK, NEW s \in Session
  PROVE  /\ Search(s) \in Task /\ Search(s).lab = s /\ Search(s).task = "reconcile_lab_vms"
         /\ \A i \in Gen : i \in Search(s).ids <=> i <= Current(s)
         /\ \A i \in Search(s).ids : i \in Gen /\ i <= Current(s)
<1>1. lab[s].range \in 0 .. Rebuilds /\ Rebuilds \in Nat
  BY LabFacts, GenFacts
<1>2. AllRanges(s) \in SUBSET Gen /\ \A i \in Gen : i \in AllRanges(s) <=> i <= Current(s)
  BY <1>1 DEF AllRanges, Gen, Current
<1>3. QED
  BY <1>2, AskType DEF Search

LEMMA GrowsCore ==
  ASSUME TypeOK, NEW s \in Session, CoreInv(s), UNCHANGED <<mode, queue, running, vms>>, Grows(s),
         lab'[s].state \in {"none", "queued"} => Current(s) = 0,
         Current(s) = 0 => lab'[s].state \in {"none", "queued", "destroyed"},
         UsedInv(s)'
  PROVE  CoreInv(s)'
<1>1. Current(s)' = Current(s) /\ lab[s].range \in Nat /\ State(s)' = lab'[s].state
  BY LabFacts DEF Grows, Current, State
<1>2. Asked(s) \subseteq Asked(s)' /\ \A m \in Asked(s)' \ Asked(s) : m \in Outbox(s)' \ Outbox(s)
  BY DEF Grows, Asked
<1>3. TasksInv(s)'
  <2>1. ASSUME NEW m \in Asked(s)'
        PROVE  /\ m \in Task /\ m.lab = s /\ \A i \in m.ids : i <= Current(s)
               /\ m.task # "reconcile_lab_vms" => \E i \in Gen : m.ids = {i}
    <3>1. CASE m \in Asked(s)
      BY <3>1 DEF CoreInv, TasksInv
    <3>2. CASE m \in Outbox(s)' \ Outbox(s)
      <4>1. CASE m = Search(s)
        BY <4>1, SearchType
      <4>2. CASE Current(s) \in Gen /\ m.ids = {Current(s)}
        BY <1>1, <3>2, <4>2 DEF Grows, Current
      <4>3. QED
        BY <3>2, <4>1, <4>2 DEF Grows
    <3>3. QED
      BY <1>2, <2>1, <3>1, <3>2
  <2>2. QED
    BY <1>1, <2>1 DEF CoreInv, TasksInv
<1>4. ASSUME NEW i \in Gen
      PROVE  /\ rstate[s][i] = "none" /\ i > Current(s) => rstate'[s][i] = "none"
             /\ rstate[s][i] # "none" => rstate'[s][i] # "none"
             /\ i < Current(s) => rstate'[s][i] = rstate[s][i]
             /\ rstate'[s][i] = "destroyed" => rstate[s][i] = "destroyed"
             /\ rstate'[s][i] = "provisioning" => rstate[s][i] = "provisioning" \/ Provision(s, i) \in Asked(s)'
             /\ rstate'[s][i] = "destroying" => rstate[s][i] = "destroying" \/ Destroy(s, i) \in Asked(s)'
  <2>1. i \in Nat /\ Current(s) \in Nat
    BY <1>1, GenFacts DEF Current
  <2>2. CASE i # Current(s)
    BY <2>2 DEF Grows
  <2>3. CASE i = Current(s)
    BY <2>1, <2>3 DEF Grows
  <2>4. QED
    BY <2>2, <2>3
<1>5. RangesInv(s)'
  BY <1>1, <1>4 DEF CoreInv, RangesInv
<1>6. MachinesInv(s)'
  BY <1>4 DEF CoreInv, MachinesInv
<1>7. WaitInv(s)'
  BY <1>2, <1>4 DEF CoreInv, WaitInv
<1>8. QED
  BY <1>3, <1>5, <1>6, <1>7 DEF CoreInv

LEMMA KeepsRange ==
  ASSUME TypeOK, NEW s \in Session, rstate' = rstate, lab' \in [Session -> Lab], lab'[s].range = lab[s].range,
         Outbox(s) \subseteq Outbox(s)',
         \A m \in Outbox(s)' \ Outbox(s) :
            m \in Task /\ m.lab = s /\ (m = Search(s) \/ (Current(s) \in Gen /\ m.ids = {Current(s)}))
  PROVE  Grows(s) /\ RangeOf(s)' = RangeOf(s)
  BY TypeParts DEF Grows, RangeType, RangeOf, Current

\* A new range: the old one, if any, is destroyed.
LEMMA BuildStep ==
  ASSUME TypeOK, NEW s \in Session, CoreInv(s), UNCHANGED <<mode, queue, running, vms>>,
         NEW g \in PortGroup \cup {None}, NEW before \in Seq(Task), Build(s, g, before),
         Current(s) = 0 \/ RangeOf(s) = "destroyed",
         \A m \in Elems(before) : m = Own("reconcile_lab_vms", s) /\ Current(s) \in Gen
  PROVE  /\ lab' \in [Session -> Lab] /\ rstate' \in [Session -> [Gen -> RangeState]]
         /\ net' \in [Session -> PortGroup \cup {None}] /\ home' \in [Session -> PortGroup \cup {None}]
         /\ \A t \in Session \ {s} : /\ lab'[t] = lab[t] /\ rstate'[t] = rstate[t]
                                     /\ net'[t] = net[t] /\ home'[t] = home[t]
         /\ lab'[s].state = "provisioning" /\ net'[s] = home'[s]
         /\ CoreInv(s)'
<1> DEFINE n == Current(s) + 1
           new == Provision(s, n)
           w == [lab[s] EXCEPT !.state = "provisioning", !.range = @ + 1, !.tries = 0, !.grace = FALSE,
                               !.pending = @ \o before \o <<new>>]
<1>1. /\ lab[s] \in Lab /\ lab \in [Session -> Lab] /\ lab[s].range \in 0 .. Rebuilds /\ lab[s].range \in Nat
      /\ lab[s].pending \in Seq(Task) /\ Outbox(s) = Elems(lab[s].pending)
  BY LabFacts
<1>2. n \in Gen /\ n \in 0 .. Rebuilds /\ n = lab[s].range + 1 /\ n \in Nat /\ Current(s) \in Nat
  BY <1>1, GenFacts DEF Build, Current
<1>3. new \in Task /\ new.lab = s /\ new.ids = {n} /\ new.task = "provision_range"
  <2>1. {n} \in SUBSET Gen
    BY <1>2
  <2>2. QED
    BY <2>1, AskType DEF Provision
<1>4. /\ lab' = [lab EXCEPT ![s] = w] /\ rstate' = [rstate EXCEPT ![s][n] = "provisioning"]
      /\ net' = [net EXCEPT ![s] = g] /\ home' = [home EXCEPT ![s] = g]
  BY DEF Build, Save, Provision
<1>5. /\ (lab[s].pending \o before) \o <<new>> \in Seq(Task)
      /\ Elems((lab[s].pending \o before) \o <<new>>) = Outbox(s) \cup Elems(before) \cup {new}
  <2>1. lab[s].pending \o before \in Seq(Task) /\ Elems(lab[s].pending \o before) = Outbox(s) \cup Elems(before)
    BY <1>1, ElemsConcat
  <2>2. <<new>> \in Seq(Task) /\ Elems(<<new>>) = {new}
    BY <1>3, ElemsFew
  <2>3. QED
    BY <2>1, <2>2, ElemsConcat, ZenonT(60)
<1>6. 0 \in 0 .. MaxTries
  BY LabsAssumption
<1> HIDE DEF new
<1>7. /\ w \in Lab /\ w.state = "provisioning" /\ w.range = n /\ Elems(w.pending) = Outbox(s) \cup Elems(before) \cup {new}
  <2>1. w \in Lab /\ w.state = "provisioning" /\ w.range = n /\ w.pending = (lab[s].pending \o before) \o <<new>>
    BY <1>1, <1>2, <1>5, <1>6 DEF Lab, Live
  <2>2. QED
    BY <1>5, <2>1
<1> HIDE DEF w, n
<1>8. lab' \in [Session -> Lab] /\ lab'[s] = w /\ \A t \in Session \ {s} : lab'[t] = lab[t]
  BY <1>1, <1>4, <1>7
<1>9. /\ rstate' \in [Session -> [Gen -> RangeState]] /\ \A t \in Session \ {s} : rstate'[t] = rstate[t]
      /\ \A j \in Gen : rstate'[s][j] = IF j = n THEN "provisioning" ELSE rstate[s][j]
  <2>1. "provisioning" \in RangeState
    BY DEF RangeState
  <2>2. QED
    BY <1>2, <1>4, <2>1, SetRangeStep
<1>10. /\ net' \in [Session -> PortGroup \cup {None}] /\ home' \in [Session -> PortGroup \cup {None}]
       /\ \A t \in Session \ {s} : net'[t] = net[t] /\ home'[t] = home[t]
       /\ net'[s] = home'[s]
  BY <1>4, TypeParts DEF PlaceType
<1>11. /\ Current(s)' = n /\ State(s)' = "provisioning" /\ RangeOf(s)' = "provisioning"
  BY <1>2, <1>7, <1>8, <1>9 DEF Current, State, RangeOf
<1>12. Outbox(s)' = Outbox(s) \cup Elems(before) \cup {new}
  BY <1>7, <1>8 DEF Outbox, Elems
<1>13. Asked(s)' = Asked(s) \cup Elems(before) \cup {new}
  BY <1>12 DEF Asked
<1>14. n = Current(s) + 1
  BY DEF n
<1>15. TasksInv(s)'
  <2>1. ASSUME NEW m \in Asked(s)'
        PROVE  /\ m \in Task /\ m.lab = s /\ \A i \in m.ids : i <= n
               /\ m.task # "reconcile_lab_vms" => \E i \in Gen : m.ids = {i}
    <3>1. CASE m \in Asked(s)
      <4>1. /\ m \in Task /\ m.lab = s /\ \A i \in m.ids : i <= Current(s)
            /\ m.task # "reconcile_lab_vms" => \E i \in Gen : m.ids = {i}
        BY <3>1 DEF CoreInv, TasksInv
      <4>2. m.ids \subseteq Nat
        BY <4>1, GenFacts DEF Task
      <4>3. QED
        BY <1>2, <1>14, <4>1, <4>2
    <3>2. CASE m \in Elems(before)
      <4>1. m = Ask("reconcile_lab_vms", s, {Current(s)}) /\ {Current(s)} \in SUBSET Gen
        BY <3>2 DEF Own
      <4>2. m \in Task /\ m.lab = s /\ m.ids = {Current(s)} /\ m.task = "reconcile_lab_vms"
        BY <4>1, AskType
      <4>3. QED
        BY <1>2, <1>14, <4>2
    <3>3. CASE m = new
      BY <1>2, <1>3, <3>3
    <3>4. QED
      BY <1>13, <2>1, <3>1, <3>2, <3>3
  <2>2. QED
    BY <1>11, <2>1 DEF CoreInv, TasksInv
<1>16. ASSUME NEW i \in Gen
       PROVE  /\ i > n => rstate'[s][i] = "none" /\ vms[s][i] = {}
              /\ i <= n => rstate'[s][i] # "none"
              /\ i < n => rstate'[s][i] = "destroyed"
  <2>1. i \in Nat /\ rstate'[s][i] = IF i = n THEN "provisioning" ELSE rstate[s][i]
    BY <1>9, GenFacts
  <2>2. i > n => i > Current(s) /\ i # n
    BY <1>2, <1>14, <2>1
  <2>3. i <= n => i = n \/ i <= Current(s)
    BY <1>2, <1>14, <2>1
  <2>4. i < n => i # n /\ (i < Current(s) \/ i = Current(s)) /\ Current(s) # 0
    BY <1>2, <1>14, <2>1 DEF Gen
  <2>5. i < n => rstate[s][i] = "destroyed"
    BY <2>4 DEF CoreInv, RangesInv, RangeOf
  <2>6. QED
    BY <2>1, <2>2, <2>3, <2>4, <2>5 DEF CoreInv, RangesInv
<1>17. RangesInv(s)'
  <2>1. n # 0
    BY <1>2 DEF Gen
  <2>2. QED
    BY <1>11, <1>16, <2>1 DEF RangesInv
<1>18. UsedInv(s)'
  BY <1>11 DEF UsedInv
<1>19. MachinesInv(s)'
  BY <1>9 DEF CoreInv, MachinesInv
<1>20. WaitInv(s)'
  <2>1. new = Provision(s, n)
    BY DEF new
  <2>2. QED
    BY <1>9, <1>13, <2>1 DEF CoreInv, WaitInv
<1>21. QED
  BY <1>7, <1>8, <1>9, <1>10, <1>15, <1>17, <1>18, <1>19, <1>20 DEF CoreInv

LEMMA SaveGrows ==
  ASSUME TypeOK, NEW s \in Session, NEW tasks \in Seq(Task), UNCHANGED <<queue, running>>,
         lab' \in [Session -> Lab], lab'[s].range = lab[s].range, lab'[s].pending = lab[s].pending \o tasks,
         \A m \in Elems(tasks) : m = Search(s) \/ (Current(s) \in Gen /\ m.lab = s /\ m.ids = {Current(s)}),
         \/ UNCHANGED rstate
         \/ /\ Current(s) \in Gen /\ SetRange(s, "destroying")
            /\ Destroy(s, Current(s)) \in Elems(tasks) \cup Asked(s)
         \/ /\ Current(s) \in Gen /\ SetRange(s, "provisioning")
            /\ Provision(s, Current(s)) \in Elems(tasks) \cup Asked(s)
  PROVE  /\ Grows(s) /\ \A t \in Session \ {s} : rstate'[t] = rstate[t]
         /\ Outbox(s)' = Outbox(s) \cup Elems(tasks)
         /\ UNCHANGED rstate => RangeOf(s)' = RangeOf(s)
<1>1. Outbox(s) = Elems(lab[s].pending) /\ lab[s].pending \in Seq(Task)
  BY LabFacts
<1>2. Elems(lab[s].pending \o tasks) = Outbox(s) \cup Elems(tasks)
  BY <1>1, ElemsConcat
<1>3. Outbox(s)' = Elems(lab'[s].pending)
  BY DEF Outbox, Elems
<1>4. Outbox(s)' = Outbox(s) \cup Elems(tasks) /\ Asked(s)' = Asked(s) \cup Elems(tasks)
  BY <1>2, <1>3 DEF Asked
<1>5. \A m \in Elems(tasks) : m \in Task /\ m.lab = s
  <2>1. \A m \in Elems(tasks) : m \in Task
    BY ElementOfSeq, LenProperties DEF Elems
  <2>2. QED
    BY <2>1, SearchType
<1>6. CASE UNCHANGED rstate
  BY <1>4, <1>5, <1>6, KeepsRange
<1>7. ASSUME NEW to \in {"destroying", "provisioning"}, Current(s) \in Gen, SetRange(s, to),
             to = "destroying" => Destroy(s, Current(s)) \in Asked(s)',
             to = "provisioning" => Provision(s, Current(s)) \in Asked(s)'
      PROVE  Grows(s) /\ \A t \in Session \ {s} : rstate'[t] = rstate[t]
  <2>1. to \in RangeState
    BY DEF RangeState
  <2>2. /\ rstate' \in [Session -> [Gen -> RangeState]] /\ \A t \in Session \ {s} : rstate'[t] = rstate[t]
        /\ \A j \in Gen : rstate'[s][j] = IF j = Current(s) THEN to ELSE rstate[s][j]
    BY <1>7, <2>1, SetRangeStep DEF SetRange
  <2>3. QED
    BY <1>4, <1>5, <1>7, <2>2 DEF Grows
<1>8. CASE /\ Current(s) \in Gen /\ SetRange(s, "destroying") /\ ~UNCHANGED rstate
           /\ Destroy(s, Current(s)) \in Elems(tasks) \cup Asked(s)
  BY <1>4, <1>7, <1>8
<1>9. CASE /\ Current(s) \in Gen /\ SetRange(s, "provisioning") /\ ~UNCHANGED rstate
           /\ Provision(s, Current(s)) \in Elems(tasks) \cup Asked(s)
  BY <1>4, <1>7, <1>9
<1>10. QED
  BY <1>4, <1>6, <1>8, <1>9

\* A task about the session's range.
LEMMA OwnType ==
  ASSUME TypeOK, NEW s \in Session, Current(s) # 0
  PROVE  /\ Current(s) \in Gen
         /\ \A name \in {"provision_range", "destroy_range", "snapshot_range", "restore_snapshot", "reconcile_lab_vms"} :
              /\ Own(name, s) \in Task /\ Own(name, s).lab = s /\ Own(name, s).ids = {Current(s)}
              /\ <<Own(name, s)>> \in Seq(Task) /\ Elems(<<Own(name, s)>>) = {Own(name, s)}
         /\ Own("destroy_range", s) = Destroy(s, Current(s)) /\ Own("provision_range", s) = Provision(s, Current(s))
<1>1. Current(s) \in Gen
  BY LabFacts, GenFacts DEF Current
<1>2. {Current(s)} \in SUBSET Gen
  BY <1>1
<1>3. ASSUME NEW name \in {"provision_range", "destroy_range", "snapshot_range", "restore_snapshot", "reconcile_lab_vms"}
      PROVE  /\ Own(name, s) \in Task /\ Own(name, s).lab = s /\ Own(name, s).ids = {Current(s)}
             /\ <<Own(name, s)>> \in Seq(Task) /\ Elems(<<Own(name, s)>>) = {Own(name, s)}
  <2>1. Own(name, s) \in Task /\ Own(name, s).lab = s /\ Own(name, s).ids = {Current(s)}
    BY <1>2, AskType DEF Own
  <2>2. QED
    BY <2>1, ElemsFew
<1>4. QED
  BY <1>1, <1>3 DEF Own, Destroy, Provision

\* What an operation leaves: types, the other sessions, the invariant; where it goes on to the
\* search for leftovers that is asked for, and a network goes back only from a lab that is gone.
OpGoal(s) ==
    /\ lab' \in [Session -> Lab] /\ rstate' \in [Session -> [Gen -> RangeState]]
    /\ net' \in [Session -> PortGroup \cup {None}] /\ home' \in [Session -> PortGroup \cup {None}]
    /\ \A t \in Session \ {s} : lab'[t] = lab[t] /\ rstate'[t] = rstate[t] /\ net'[t] = net[t] /\ home'[t] = home[t]
    /\ CoreInv(s)'
    /\ lab'[s].state = "reconciling" =>
          RangeOf(s)' = "destroyed" /\ Search(s)' \in Outbox(s)' /\ lab'[s].grace = FALSE
    /\ \/ UNCHANGED <<net, home>> /\ State(s) # "destroyed"
       \/ net'[s] = home'[s]
       \/ /\ lab'[s].state = "destroyed" /\ RangeOf(s)' \in {"none", "destroyed"}
          /\ Current(s) = 0 \/ (ReleaseDue(s) /\ Idle(s))

\* _set_state, with its tasks, where the networks stay.
LEMMA SetStateOp ==
  ASSUME TypeOK, NEW s \in Session, CoreInv(s), UNCHANGED <<mode, queue, running, vms, net, home>>,
         State(s) # "destroyed",
         NEW to \in SessionState \ {"reconciling", "destroyed"}, NEW tasks \in Seq(Task), SetState(s, to, tasks),
         \A m \in Elems(tasks) : m = Search(s) \/ (Current(s) \in Gen /\ m.lab = s /\ m.ids = {Current(s)}),
         \/ UNCHANGED rstate
         \/ /\ Current(s) \in Gen /\ SetRange(s, "destroying")
            /\ Destroy(s, Current(s)) \in Elems(tasks) \cup Asked(s)
         \/ /\ Current(s) \in Gen /\ SetRange(s, "provisioning")
            /\ Provision(s, Current(s)) \in Elems(tasks) \cup Asked(s),
         to \in {"none", "queued"} <=> Current(s) = 0,
         UsedInv(s)'
  PROVE  OpGoal(s)
<1>1. /\ lab' \in [Session -> Lab] /\ \A t \in Session \ {s} : lab'[t] = lab[t]
      /\ lab'[s].state = to /\ lab'[s].range = lab[s].range
      /\ lab'[s].pending = lab[s].pending \o tasks
  BY SetStateStep, ZenonT(60)
<1>2. Grows(s) /\ \A t \in Session \ {s} : rstate'[t] = rstate[t]
  BY <1>1, SaveGrows
<1>3. CoreInv(s)'
  BY <1>1, <1>2, GrowsCore
<1>4. QED
  BY <1>1, <1>2, <1>3, TypeParts DEF OpGoal, Grows, PlaceType

\* A state in which nothing is promised of the range.
LEMMA NotUsed ==
  ASSUME NEW s \in Session, State(s)' \notin Used \cup {"resetting"} PROVE UsedInv(s)'
  BY DEF UsedInv, Used

LEMMA FailOp ==
  ASSUME TypeOK, NEW s \in Session, CoreInv(s), UNCHANGED <<mode, queue, running, vms, home>>,
         State(s) # "destroyed", Current(s) # 0, RangeOf(s) \notin {"none", "destroyed"}, Fail(s)
  PROVE  OpGoal(s)
<1> DEFINE tasks == IF RangeOf(s) = "destroying" THEN << >> ELSE <<Own("destroy_range", s)>>
<1>1. SetState(s, "cleaning", tasks) /\ SetRange(s, "destroying") /\ UNCHANGED net
  BY DEF Fail
<1>2. /\ Current(s) \in Gen /\ Own("destroy_range", s) \in Task /\ Own("destroy_range", s) = Destroy(s, Current(s))
      /\ Own("destroy_range", s).lab = s /\ Own("destroy_range", s).ids = {Current(s)}
      /\ <<Own("destroy_range", s)>> \in Seq(Task) /\ Elems(<<Own("destroy_range", s)>>) = {Own("destroy_range", s)}
  BY OwnType
<1>3. tasks \in Seq(Task) /\ Elems(tasks) \subseteq {Own("destroy_range", s)}
      /\ Destroy(s, Current(s)) \in Elems(tasks) \cup Asked(s)
  BY <1>2, ElemsFew DEF CoreInv, WaitInv, RangeOf
<1> HIDE DEF tasks
<1>4. "cleaning" \in SessionState \ {"reconciling", "destroyed"}
  BY DEF SessionState, Ending
<1>5. lab'[s].state = "cleaning"
  BY <1>1, <1>3, <1>4, SetStateStep
<1>6. UsedInv(s)'
  BY <1>5, NotUsed DEF Used, State
<1>7. QED
  BY <1>1, <1>2, <1>3, <1>4, <1>6, SetStateOp

LEMMA EndOp ==
  ASSUME TypeOK, NEW s \in Session, CoreInv(s), UNCHANGED <<mode, queue, running, vms, home>>,
         State(s) # "destroyed", NEW to \in {"completed", "expired"}, End(s, to)
  PROVE  OpGoal(s)
<1>1. CASE Current(s) = 0
  <2>1. SetState(s, "destroyed", << >>) /\ Releasing(s) /\ UNCHANGED rstate
    BY <1>1 DEF End
  <2>2. "destroyed" \in SessionState /\ << >> \in Seq(Task) /\ Elems(<< >>) = {}
    BY ElemsFew DEF SessionState, Terminal
  <2>3. /\ lab' \in [Session -> Lab] /\ \A t \in Session \ {s} : lab'[t] = lab[t]
        /\ lab'[s].state = "destroyed" /\ lab'[s].range = lab[s].range /\ lab'[s].pending = lab[s].pending \o << >>
    BY <2>1, <2>2, SetStateStep
  <2>4. Grows(s) /\ (\A t \in Session \ {s} : rstate'[t] = rstate[t]) /\ RangeOf(s)' = RangeOf(s)
    BY <2>1, <2>2, <2>3, SaveGrows
  <2>5. UsedInv(s)'
    BY <2>3, NotUsed DEF Used, State
  <2>6. CoreInv(s)'
    BY <2>3, <2>4, <2>5, GrowsCore
  <2>7. net' \in [Session -> PortGroup \cup {None}] /\ \A t \in Session \ {s} : net'[t] = net[t]
    BY <2>1, TypeParts DEF Releasing, PlaceType
  <2>8. RangeOf(s)' = "none"
    BY <1>1, <2>4 DEF RangeOf
  <2>9. QED
    BY <1>1, <2>3, <2>4, <2>6, <2>7, <2>8, TypeParts DEF OpGoal, Grows, PlaceType
<1>2. CASE Current(s) # 0
  <2>1. to \in SessionState \ {"reconciling", "destroyed"} /\ to \notin Used \cup {"resetting"} /\ to \notin {"none", "queued"}
    BY DEF SessionState, Ending, Used
  <2>2. CASE RangeOf(s) \in {"destroyed", "destroying"}
    <3>1. SetState(s, to, << >>) /\ UNCHANGED <<net, rstate>> /\ << >> \in Seq(Task) /\ Elems(<< >>) = {}
      BY <1>2, <2>2, ElemsFew DEF End
    <3>2. UsedInv(s)'
      BY <2>1, <3>1, SetStateStep, NotUsed DEF State
    <3>3. QED
      BY <1>2, <2>1, <3>1, <3>2, SetStateOp
  <2>3. CASE RangeOf(s) \notin {"destroyed", "destroying"}
    <3>1. SetState(s, to, <<Own("destroy_range", s)>>) /\ SetRange(s, "destroying") /\ UNCHANGED net
      BY <1>2, <2>3 DEF End
    <3>2. /\ Current(s) \in Gen /\ Own("destroy_range", s) \in Task /\ Own("destroy_range", s) = Destroy(s, Current(s))
          /\ Own("destroy_range", s).lab = s /\ Own("destroy_range", s).ids = {Current(s)}
          /\ <<Own("destroy_range", s)>> \in Seq(Task) /\ Elems(<<Own("destroy_range", s)>>) = {Own("destroy_range", s)}
      BY <1>2, OwnType
    <3>3. UsedInv(s)'
      BY <2>1, <3>1, <3>2, SetStateStep, NotUsed DEF State
    <3>4. QED
      BY <1>2, <2>1, <3>1, <3>2, <3>3, SetStateOp
  <2>4. QED
    BY <2>2, <2>3
<1>3. QED
  BY <1>1, <1>2

LEMMA HasRange ==
  ASSUME TypeOK, NEW s \in Session, CoreInv(s), State(s) \notin {"none", "queued", "destroyed"}
  PROVE  /\ Current(s) \in Gen /\ Current(s) # 0 /\ RangeOf(s) # "none"
         /\ RangeOf(s) = rstate[s][Current(s)]
         /\ State(s) \in Used => RangeOf(s) \in {"created", "provisioning", "ready", "failed"}
<1>1. Current(s) # 0 /\ Current(s) \in Nat
  BY LabFacts DEF CoreInv, RangesInv, Current
<1>2. Current(s) \in Gen
  BY <1>1, OwnType
<1>3. RangeOf(s) = rstate[s][Current(s)] /\ RangeOf(s) # "none"
  BY <1>1, <1>2 DEF CoreInv, RangesInv, RangeOf
<1>4. QED
  BY <1>1, <1>2, <1>3 DEF CoreInv, UsedInv, Used

\* A state change alone, where the lab is used or not as before.
LEMMA TurnsOp ==
  ASSUME TypeOK, NEW s \in Session, CoreInv(s), UNCHANGED <<mode, queue, running, vms, net, home, rstate>>,
         State(s) \notin {"none", "queued", "destroyed"},
         NEW to \in SessionState \ {"reconciling", "destroyed", "none", "queued", "resetting"}, SetState(s, to, << >>),
         to \in Used => RangeOf(s) \in {"created", "provisioning", "ready", "failed"}
  PROVE  OpGoal(s)
<1>1. << >> \in Seq(Task) /\ Elems(<< >>) = {} /\ to \in SessionState
  BY ElemsFew
<1>2. lab'[s].state = to /\ lab'[s].range = lab[s].range
  BY <1>1, SetStateStep
<1>3. State(s)' = to /\ RangeOf(s)' = RangeOf(s)
  BY <1>2 DEF State, RangeOf, Current
<1>4. UsedInv(s)'
  BY <1>3 DEF UsedInv, Used
<1>5. Current(s) # 0
  BY HasRange
<1>6. QED
  BY <1>1, <1>4, <1>5, SetStateOp

\* The same, with a task about the range.
LEMMA AsksOp ==
  ASSUME TypeOK, NEW s \in Session, CoreInv(s), UNCHANGED <<mode, queue, running, vms, net, home, rstate>>,
         State(s) \notin {"none", "queued", "destroyed"},
         NEW to \in SessionState \ {"reconciling", "destroyed", "none", "queued"},
         NEW name \in {"snapshot_range", "restore_snapshot"}, SetState(s, to, <<Own(name, s)>>),
         to \in Used \cup {"resetting"} => RangeOf(s) \in {"created", "provisioning", "ready", "failed"}
  PROVE  OpGoal(s)
<1>1. Current(s) # 0 /\ Current(s) \in Gen
  BY HasRange
<1>2. /\ Own(name, s).lab = s /\ Own(name, s).ids = {Current(s)}
      /\ <<Own(name, s)>> \in Seq(Task) /\ Elems(<<Own(name, s)>>) = {Own(name, s)}
  BY <1>1, OwnType
<1>3. lab'[s].state = to /\ lab'[s].range = lab[s].range
  BY <1>2, SetStateStep
<1>4. State(s)' = to /\ RangeOf(s)' = RangeOf(s)
  BY <1>3 DEF State, RangeOf, Current
<1>5. UsedInv(s)'
  BY <1>4 DEF UsedInv, Used
<1>6. QED
  BY <1>1, <1>2, <1>5, SetStateOp

LEMMA StartOp ==
  ASSUME TypeOK, NEW s \in Session, CoreInv(s), UNCHANGED <<mode, queue, running, vms>>,
         State(s) \in {"none", "queued"}, NEW g \in FreeGroups, Build(s, g, << >>)
  PROVE  OpGoal(s)
<1>1. Current(s) = 0 /\ << >> \in Seq(Task) /\ Elems(<< >>) = {} /\ g \in PortGroup \cup {None}
  BY ElemsFew DEF CoreInv, RangesInv, FreeGroups
<1>2. QED
  BY <1>1, BuildStep DEF OpGoal

LEMMA LaunchOp ==
  ASSUME TypeOK, NEW s \in Session, NEW p \in Process, CoreInv(s), Launch(p, s) \/ AdvanceQueued(p, s)
  PROVE  OpGoal(s)
<1>1. UNCHANGED <<mode, queue, running, vms, snap>> /\ State(s) \in {"none", "queued"}
  BY DEF Launch, AdvanceQueued, outside
<1>2. CASE \E g \in FreeGroups : Build(s, g, << >>)
  BY <1>1, <1>2, StartOp
<1>3. CASE SetState(s, "queued", << >>) /\ UNCHANGED <<net, home, rstate>>
  <2>1. << >> \in Seq(Task) /\ Elems(<< >>) = {} /\ Current(s) = 0 /\ State(s) # "destroyed"
        /\ "queued" \in SessionState \ {"reconciling", "destroyed"}
    BY <1>1, ElemsFew DEF CoreInv, RangesInv, SessionState, Live
  <2>2. UsedInv(s)'
    BY <1>3, <2>1, SetStateStep, NotUsed DEF State, Used
  <2>3. QED
    BY <1>1, <1>3, <2>1, <2>2, SetStateOp
<1>4. QED
  BY <1>2, <1>3 DEF Launch, AdvanceQueued, StartOrWait

LEMMA EndLabOp ==
  ASSUME TypeOK, NEW s \in Session, NEW p \in Process, CoreInv(s),
         EndLab(p, s, "completed") \/ EndLab(p, s, "expired") \/ QueueTimeout(p, s)
  PROVE  OpGoal(s)
<1>1. UNCHANGED <<mode, queue, running, vms, home>> /\ State(s) # "destroyed"
  BY DEF EndLab, QueueTimeout, outside, Live
<1>2. End(s, "completed") \/ End(s, "expired")
  BY DEF EndLab, QueueTimeout
<1>3. QED
  BY <1>1, <1>2, EndOp

LEMMA AdvanceProvisioningOp ==
  ASSUME TypeOK, NEW s \in Session, NEW p \in Process, NEW late \in BOOLEAN, CoreInv(s), AdvanceProvisioning(p, s, late)
  PROVE  OpGoal(s) /\ snap' \in [Session -> SnapState]
<1>1. UNCHANGED <<mode, queue, running, vms, home>> /\ State(s) = "provisioning"
  BY DEF AdvanceProvisioning, outside
<1>2. /\ Current(s) \in Gen /\ Current(s) # 0
      /\ RangeOf(s) \in {"created", "provisioning", "ready", "failed"} /\ RangeOf(s) = rstate[s][Current(s)]
  BY <1>1, HasRange DEF Used
<1>3. snap \in [Session -> SnapState]
  BY TypeParts DEF PlaceType
<1>4. CASE Fail(s) /\ UNCHANGED snap
  BY <1>1, <1>2, <1>3, <1>4, FailOp
<1>5. CASE /\ SetState(s, "provisioning", <<Own("provision_range", s)>>)
           /\ SetRange(s, "provisioning") /\ UNCHANGED <<net, snap>>
  <2>1. /\ Own("provision_range", s) \in Task /\ Own("provision_range", s) = Provision(s, Current(s))
        /\ Own("provision_range", s).lab = s /\ Own("provision_range", s).ids = {Current(s)}
        /\ <<Own("provision_range", s)>> \in Seq(Task) /\ Elems(<<Own("provision_range", s)>>) = {Own("provision_range", s)}
    BY <1>2, OwnType
  <2>2. "provisioning" \in SessionState \ {"reconciling", "destroyed"} /\ "provisioning" \in RangeState
    BY DEF SessionState, Live, RangeState
  <2>3. lab'[s].state = "provisioning" /\ lab'[s].range = lab[s].range
    BY <1>5, <2>1, <2>2, SetStateStep
  <2>4. rstate'[s][Current(s)] = "provisioning"
    BY <1>2, <1>5, <2>2, SetRangeStep DEF SetRange
  <2>5. RangeOf(s)' = "provisioning"
    BY <1>2, <2>3, <2>4 DEF RangeOf, Current
  <2>6. UsedInv(s)'
    BY <2>5 DEF UsedInv
  <2>7. QED
    BY <1>1, <1>2, <1>3, <1>5, <2>1, <2>2, <2>6, SetStateOp
<1>6. CASE /\ UNCHANGED <<net, rstate>> /\ SetState(s, "baselining", <<Own("snapshot_range", s)>>)
           /\ snap' = [snap EXCEPT ![s] = "creating"]
  <2>1. "baselining" \in SessionState \ {"reconciling", "destroyed", "none", "queued"} /\ State(s) \notin {"none", "queued", "destroyed"}
    BY <1>1 DEF SessionState, Live
  <2>2. OpGoal(s)
    BY <1>1, <1>2, <1>6, <2>1, AsksOp
  <2>3. QED
    BY <1>3, <1>6, <2>2 DEF SnapState
<1>7. CASE UNCHANGED <<net, rstate, snap>> /\ SetState(s, "ready", << >>)
  <2>1. /\ "ready" \in SessionState \ {"reconciling", "destroyed", "none", "queued", "resetting"}
        /\ State(s) \notin {"none", "queued", "destroyed"}
    BY <1>1 DEF SessionState, Live
  <2>2. QED
    BY <1>1, <1>2, <1>3, <1>7, <2>1, TurnsOp
<1>8. QED
  BY <1>4, <1>5, <1>6, <1>7 DEF AdvanceProvisioning

LEMMA AdvanceBaseliningOp ==
  ASSUME TypeOK, NEW s \in Session, NEW p \in Process, NEW late \in BOOLEAN, CoreInv(s), AdvanceBaselining(p, s, late)
  PROVE  OpGoal(s) /\ snap' \in [Session -> SnapState]
<1>1. UNCHANGED <<mode, queue, running, vms, home>> /\ State(s) = "baselining"
  BY DEF AdvanceBaselining, outside
<1>2. /\ Current(s) \in Gen /\ Current(s) # 0
      /\ RangeOf(s) \in {"created", "provisioning", "ready", "failed"} /\ RangeOf(s) = rstate[s][Current(s)]
  BY <1>1, HasRange DEF Used
<1>3. snap \in [Session -> SnapState]
  BY TypeParts DEF PlaceType
<1>4. CASE Fail(s) /\ UNCHANGED snap
  BY <1>1, <1>2, <1>3, <1>4, FailOp
<1>5. CASE UNCHANGED <<net, rstate, snap>> /\ SetState(s, "ready", << >>)
  <2>1. /\ "ready" \in SessionState \ {"reconciling", "destroyed", "none", "queued", "resetting"}
        /\ State(s) \notin {"none", "queued", "destroyed"}
    BY <1>1 DEF SessionState, Live
  <2>2. QED
    BY <1>1, <1>2, <1>3, <1>5, <2>1, TurnsOp
<1>6. CASE /\ ~(lab[s].tries >= MaxTries)
           /\ Save(s, [lab[s] EXCEPT !.tries = @ + 1, !.pending = @ \o <<Own("snapshot_range", s)>>])
           /\ snap' = [snap EXCEPT ![s] = "creating"] /\ UNCHANGED <<net, rstate>>
  <2> DEFINE w == [lab[s] EXCEPT !.tries = @ + 1, !.pending = @ \o <<Own("snapshot_range", s)>>]
  <2>1. /\ Own("snapshot_range", s).lab = s /\ Own("snapshot_range", s).ids = {Current(s)}
        /\ <<Own("snapshot_range", s)>> \in Seq(Task) /\ Elems(<<Own("snapshot_range", s)>>) = {Own("snapshot_range", s)}
    BY <1>2, OwnType
  <2>2. /\ lab[s] \in Lab /\ lab \in [Session -> Lab] /\ lab[s].tries \in 0 .. MaxTries /\ lab[s].pending \in Seq(Task)
    BY LabFacts
  <2>3. lab[s].tries + 1 \in 0 .. MaxTries
    BY <1>6, <2>2, LabsAssumption
  <2>4. lab[s].pending \o <<Own("snapshot_range", s)>> \in Seq(Task)
    BY <2>1, <2>2, ElemsConcat
  <2>5. /\ w \in Lab /\ w.range = lab[s].range /\ w.state = "baselining"
        /\ w.pending = lab[s].pending \o <<Own("snapshot_range", s)>>
    BY <1>1, <2>2, <2>3, <2>4 DEF Lab, State
  <2>6. lab' = [lab EXCEPT ![s] = w]
    BY <1>6 DEF Save
  <2> HIDE DEF w
  <2>7. lab' \in [Session -> Lab] /\ lab'[s] = w /\ \A t \in Session \ {s} : lab'[t] = lab[t]
    BY <2>2, <2>5, <2>6
  <2>8. Grows(s) /\ (\A t \in Session \ {s} : rstate'[t] = rstate[t]) /\ RangeOf(s)' = RangeOf(s)
    BY <1>1, <1>2, <1>6, <2>1, <2>5, <2>7, SaveGrows
  <2>9. UsedInv(s)'
    BY <1>2, <2>8 DEF UsedInv
  <2>10. CoreInv(s)'
    BY <1>1, <1>2, <2>5, <2>7, <2>8, <2>9, GrowsCore
  <2>11. OpGoal(s)
    BY <1>1, <1>6, <2>5, <2>7, <2>8, <2>10, TypeParts DEF OpGoal, Grows, PlaceType
  <2>12. QED
    BY <1>3, <1>6, <2>11 DEF SnapState
<1>7. QED
  BY <1>4, <1>5, <1>6 DEF AdvanceBaselining

LEMMA AdvanceResettingOp ==
  ASSUME TypeOK, NEW s \in Session, NEW p \in Process, NEW late \in BOOLEAN, CoreInv(s), AdvanceResetting(p, s, late)
  PROVE  OpGoal(s)
<1>1. UNCHANGED <<mode, queue, running, vms, home>> /\ State(s) = "resetting" /\ mode[s] = "snapshot"
  BY DEF AdvanceResetting, outside
<1>2. Current(s) \in Gen /\ Current(s) # 0 /\ RangeOf(s) \in {"created", "provisioning", "ready", "failed"}
  BY <1>1, HasRange DEF CoreInv, UsedInv
<1>3. CASE Fail(s)
  BY <1>1, <1>2, <1>3, FailOp
<1>4. CASE SetState(s, "active", << >>) /\ UNCHANGED <<net, rstate>>
  <2>1. /\ "active" \in SessionState \ {"reconciling", "destroyed", "none", "queued", "resetting"}
        /\ State(s) \notin {"none", "queued", "destroyed"}
    BY <1>1 DEF SessionState, Live
  <2>2. QED
    BY <1>1, <1>2, <1>4, <2>1, TurnsOp
<1>5. QED
  BY <1>3, <1>4 DEF AdvanceResetting

LEMMA AdvanceRebuildOp ==
  ASSUME TypeOK, NEW s \in Session, NEW p \in Process, NEW late \in BOOLEAN, CoreInv(s), AdvanceRebuild(p, s, late)
  PROVE  OpGoal(s)
<1>1. UNCHANGED <<mode, queue, running, vms>> /\ State(s) = "resetting"
  BY DEF AdvanceRebuild, outside
<1>2. Current(s) \in Gen /\ Current(s) # 0 /\ RangeOf(s) # "none"
  BY <1>1, HasRange
<1>3. CASE Gone(s) /\ Build(s, net[s], <<Own("reconcile_lab_vms", s)>>)
  <2>1. /\ <<Own("reconcile_lab_vms", s)>> \in Seq(Task)
        /\ Elems(<<Own("reconcile_lab_vms", s)>>) = {Own("reconcile_lab_vms", s)}
    BY <1>2, OwnType
  <2>2. net[s] \in PortGroup \cup {None} /\ RangeOf(s) = "destroyed"
    BY <1>3, TypeParts DEF PlaceType, Gone
  <2>3. QED
    BY <1>1, <1>2, <1>3, <2>1, <2>2, BuildStep DEF OpGoal
<1>4. CASE RangeOf(s) # "destroyed" /\ Fail(s) /\ UNCHANGED home
  BY <1>1, <1>2, <1>4, FailOp
<1>5. QED
  BY <1>3, <1>4 DEF AdvanceRebuild

LEMMA AdvanceDestroyedOp ==
  ASSUME TypeOK, NEW s \in Session, NEW p \in Process, CoreInv(s), AdvanceDestroyed(p, s)
  PROVE  OpGoal(s)
<1>1. /\ UNCHANGED <<mode, queue, running, vms, home, rstate>> /\ State(s) \in Ending /\ RangeOf(s) = "destroyed" /\ Idle(s)
  BY DEF AdvanceDestroyed, outside
<1>2. State(s) \notin {"none", "queued", "destroyed"} /\ Current(s) \in Gen /\ Current(s) # 0
  BY <1>1, HasRange DEF Ending
<1>3. << >> \in Seq(Task) /\ Elems(<< >>) = {} /\ "destroyed" \in SessionState /\ "reconciling" \in SessionState
  BY ElemsFew DEF SessionState, Ending, Terminal
<1>4. CASE ReleaseDue(s) /\ SetState(s, "destroyed", << >>) /\ Releasing(s)
  <2>1. /\ lab' \in [Session -> Lab] /\ \A t \in Session \ {s} : lab'[t] = lab[t]
        /\ lab'[s].state = "destroyed" /\ lab'[s].range = lab[s].range /\ lab'[s].pending = lab[s].pending \o << >>
    BY <1>3, <1>4, SetStateStep
  <2>2. Grows(s) /\ (\A t \in Session \ {s} : rstate'[t] = rstate[t]) /\ RangeOf(s)' = RangeOf(s)
    BY <1>1, <1>3, <2>1, SaveGrows
  <2>3. UsedInv(s)'
    BY <2>1, NotUsed DEF Used, State
  <2>4. CoreInv(s)'
    BY <1>1, <1>2, <2>1, <2>2, <2>3, GrowsCore
  <2>5. net' \in [Session -> PortGroup \cup {None}] /\ \A t \in Session \ {s} : net'[t] = net[t]
    BY <1>4, TypeParts DEF Releasing, PlaceType
  <2>6. QED
    BY <1>1, <1>4, <2>1, <2>2, <2>4, <2>5, TypeParts DEF OpGoal, Grows, PlaceType
<1>5. CASE SetState(s, "reconciling", <<Ask("reconcile_lab_vms", s, AllRanges(s))>>) /\ UNCHANGED net
  <2>1. SetState(s, "reconciling", <<Search(s)>>)
    BY <1>5 DEF Search
  <2>2. <<Search(s)>> \in Seq(Task) /\ Elems(<<Search(s)>>) = {Search(s)}
    BY SearchType, ElemsFew
  <2>3. /\ lab' \in [Session -> Lab] /\ \A t \in Session \ {s} : lab'[t] = lab[t]
        /\ lab'[s].state = "reconciling" /\ lab'[s].range = lab[s].range /\ lab'[s].grace = FALSE
        /\ lab'[s].pending = lab[s].pending \o <<Search(s)>>
    BY <1>3, <2>1, <2>2, SetStateStep, ZenonT(60)
  <2>4. /\ Grows(s) /\ (\A t \in Session \ {s} : rstate'[t] = rstate[t]) /\ RangeOf(s)' = RangeOf(s)
        /\ Outbox(s)' = Outbox(s) \cup {Search(s)}
    BY <1>1, <2>2, <2>3, SaveGrows
  <2>5. UsedInv(s)'
    BY <2>3, NotUsed DEF Used, State
  <2>6. CoreInv(s)'
    BY <1>1, <1>2, <2>3, <2>4, <2>5, GrowsCore
  <2>7. Search(s)' = Search(s)
    BY <2>3 DEF Search, AllRanges, Current
  <2>8. QED
    BY <1>1, <1>2, <1>5, <2>3, <2>4, <2>6, <2>7, TypeParts DEF OpGoal, Grows, PlaceType
<1>6. QED
  BY <1>4, <1>5 DEF AdvanceDestroyed

LEMMA AdvanceTeardownOp ==
  ASSUME TypeOK, NEW s \in Session, NEW p \in Process, NEW late \in BOOLEAN, CoreInv(s), AdvanceTeardown(p, s, late)
  PROVE  OpGoal(s)
<1>1. UNCHANGED <<mode, queue, running, vms, home, net>> /\ State(s) \in Ending
  BY DEF AdvanceTeardown, outside
<1>2. State(s) \notin {"none", "queued", "destroyed"} /\ Current(s) \in Gen /\ Current(s) # 0
  BY <1>1, HasRange DEF Ending
<1>3. lab[s] \in Lab /\ lab \in [Session -> Lab] /\ lab[s].tries \in 0 .. MaxTries /\ lab[s].pending \in Seq(Task)
  BY LabFacts
<1>4. ASSUME NEW w \in Lab, Save(s, w), w.range = lab[s].range, w.state \in {"failed", "reconcile_required"},
             NEW tasks \in Seq(Task), w.pending = lab[s].pending \o tasks,
             \A m \in Elems(tasks) : m.lab = s /\ m.ids = {Current(s)},
             UNCHANGED rstate \/ (SetRange(s, "destroying") /\ Destroy(s, Current(s)) \in Elems(tasks))
      PROVE  OpGoal(s)
  <2>1. lab' \in [Session -> Lab] /\ lab'[s] = w /\ \A t \in Session \ {s} : lab'[t] = lab[t]
    BY <1>3, <1>4 DEF Save
  <2>2. Grows(s) /\ \A t \in Session \ {s} : rstate'[t] = rstate[t]
    BY <1>1, <1>2, <1>4, <2>1, SaveGrows, ZenonT(60)
  <2>3. UsedInv(s)'
    BY <1>4, <2>1, NotUsed DEF Used, State
  <2>4. CoreInv(s)'
    BY <1>1, <1>2, <1>4, <2>1, <2>2, <2>3, GrowsCore
  <2>5. QED
    BY <1>1, <1>2, <1>4, <2>1, <2>2, <2>4, TypeParts DEF OpGoal, Grows, PlaceType
<1>5. CASE lab[s].tries >= MaxTries
  <2> DEFINE w == [lab[s] EXCEPT !.state = "failed"]
  <2>1. Save(s, w) /\ UNCHANGED rstate
    BY <1>5 DEF AdvanceTeardown
  <2>2. lab[s].pending \o << >> = lab[s].pending /\ << >> \in Seq(Task) /\ Elems(<< >>) = {}
    BY <1>3, ConcatEmptySeq, ElemsFew
  <2>3. w \in Lab /\ w.range = lab[s].range /\ w.state = "failed" /\ w.pending = lab[s].pending \o << >>
    BY <1>3, <2>2 DEF Lab, Terminal
  <2> HIDE DEF w
  <2>4. QED
    BY <1>4, <2>1, <2>2, <2>3
<1>6. CASE ~(lab[s].tries >= MaxTries)
  <2> DEFINE tasks == <<Own("reconcile_lab_vms", s), Own("destroy_range", s)>>
             w == [lab[s] EXCEPT !.state = "reconcile_required", !.tries = @ + 1, !.pending = @ \o tasks]
  <2>1. Save(s, w) /\ SetRange(s, "destroying")
    BY <1>6 DEF AdvanceTeardown
  <2>2. /\ Own("reconcile_lab_vms", s) \in Task /\ Own("destroy_range", s) \in Task
        /\ Own("reconcile_lab_vms", s).lab = s /\ Own("reconcile_lab_vms", s).ids = {Current(s)}
        /\ Own("destroy_range", s).lab = s /\ Own("destroy_range", s).ids = {Current(s)}
        /\ Own("destroy_range", s) = Destroy(s, Current(s))
    BY <1>2, OwnType
  <2>3. tasks \in Seq(Task) /\ Elems(tasks) = {Own("reconcile_lab_vms", s), Own("destroy_range", s)}
    BY <2>2, ElemsFew
  <2> HIDE DEF tasks
  <2>4. lab[s].tries + 1 \in 0 .. MaxTries
    BY <1>3, <1>6, LabsAssumption
  <2>5. lab[s].pending \o tasks \in Seq(Task)
    BY <1>3, <2>3, ElemsConcat
  <2>6. w \in Lab /\ w.range = lab[s].range /\ w.state = "reconcile_required" /\ w.pending = lab[s].pending \o tasks
    BY <1>3, <2>4, <2>5 DEF Lab, Ending
  <2> HIDE DEF w
  <2>7. QED
    BY <1>4, <2>1, <2>2, <2>3, <2>6
<1>7. QED
  BY <1>5, <1>6

LEMMA AdvanceEndedOp ==
  ASSUME TypeOK, NEW s \in Session, NEW p \in Process, CoreInv(s), AdvanceEnded(p, s) \/ Touch(p, s)
  PROVE  OpGoal(s)
<1>1. UNCHANGED <<mode, queue, running, vms, home, net, rstate>> /\ State(s) \in {"completed", "expired", "ready"}
  BY DEF AdvanceEnded, Touch, outside
<1>2. State(s) = "ready" => RangeOf(s) \in {"created", "provisioning", "ready", "failed"}
  BY DEF CoreInv, UsedInv
<1>3. {"cleaning", "active"} \subseteq SessionState \ {"reconciling", "destroyed", "none", "queued", "resetting"}
      /\ "cleaning" \notin Used
  BY DEF SessionState, Live, Ending, Used
<1>4. CASE AdvanceEnded(p, s)
  BY <1>1, <1>3, <1>4, TurnsOp DEF AdvanceEnded
<1>5. CASE Touch(p, s)
  BY <1>1, <1>2, <1>3, <1>5, TurnsOp DEF Touch
<1>6. QED
  BY <1>4, <1>5

LEMMA ResetOp ==
  ASSUME TypeOK, NEW s \in Session, NEW p \in Process, CoreInv(s), Reset(p, s)
  PROVE  OpGoal(s) /\ snap' \in [Session -> SnapState]
<1>1. UNCHANGED <<mode, queue, running, vms, home, net>> /\ State(s) \in {"ready", "active"}
  BY DEF Reset, outside
<1>2. /\ Current(s) \in Gen /\ Current(s) # 0 /\ State(s) \notin {"none", "queued", "destroyed"}
      /\ RangeOf(s) \in {"created", "provisioning", "ready", "failed"}
  BY <1>1, HasRange DEF Used
<1>3. snap \in [Session -> SnapState]
  BY TypeParts DEF PlaceType
<1>4. "resetting" \in SessionState \ {"reconciling", "destroyed", "none", "queued"}
  BY DEF SessionState, Live
<1>5. CASE mode[s] = "snapshot"
  <2>1. /\ snap' = [snap EXCEPT ![s] = "restoring"] /\ UNCHANGED rstate
        /\ SetState(s, "resetting", <<Own("restore_snapshot", s)>>)
    BY <1>5 DEF Reset
  <2>2. OpGoal(s)
    BY <1>1, <1>2, <1>4, <2>1, AsksOp
  <2>3. QED
    BY <1>3, <2>1, <2>2 DEF SnapState
<1>6. CASE mode[s] # "snapshot"
  <2>1. UNCHANGED snap /\ SetState(s, "resetting", <<Own("destroy_range", s)>>) /\ SetRange(s, "destroying")
    BY <1>6 DEF Reset
  <2>2. /\ Own("destroy_range", s) = Destroy(s, Current(s)) /\ Own("destroy_range", s).lab = s
        /\ Own("destroy_range", s).ids = {Current(s)}
        /\ <<Own("destroy_range", s)>> \in Seq(Task) /\ Elems(<<Own("destroy_range", s)>>) = {Own("destroy_range", s)}
    BY <1>2, OwnType
  <2>3. lab'[s].state = "resetting"
    BY <1>4, <2>1, <2>2, SetStateStep
  <2>4. UsedInv(s)'
    BY <1>1, <1>6, <2>3 DEF UsedInv, State
  <2>5. QED
    BY <1>1, <1>2, <1>3, <1>4, <2>1, <2>2, <2>4, SetStateOp
<1>7. QED
  BY <1>5, <1>6

\* The operations that hold a session's row, and leave its tasks to be sent.
Op(p, s) ==
    \/ Launch(p, s) \/ AdvanceQueued(p, s) \/ EndLab(p, s, "completed") \/ EndLab(p, s, "expired") \/ QueueTimeout(p, s)
    \/ AdvanceDestroyed(p, s) \/ AdvanceEnded(p, s) \/ Touch(p, s) \/ Reset(p, s)
    \/ \E late \in BOOLEAN : \/ AdvanceProvisioning(p, s, late) \/ AdvanceBaselining(p, s, late)
                             \/ AdvanceResetting(p, s, late) \/ AdvanceRebuild(p, s, late)
                             \/ AdvanceTeardown(p, s, late)

LEMMA OpStep ==
  ASSUME TypeOK, NEW s \in Session, NEW p \in Process, CoreInv(s), Op(p, s)
  PROVE  /\ TypeOK' /\ OpGoal(s) /\ UNCHANGED <<mode, queue, running, vms>>
         /\ (\E f \in Rare : Spend(f)) \/ UNCHANGED budget
         /\ \A t \in Session \ {s} : lease'[t] = lease[t]
         /\ flush'[p] = <<s, FALSE>> /\ \A q \in Process \ {p} : flush'[q] = flush[q]
<1>1. UNCHANGED <<mode, queue, running, vms>>
  BY DEF Op, Launch, AdvanceQueued, EndLab, QueueTimeout, AdvanceDestroyed, AdvanceEnded, Touch, Reset,
         AdvanceProvisioning, AdvanceBaselining, AdvanceResetting, AdvanceRebuild, AdvanceTeardown, outside
<1>2. Under(p, s)
  BY DEF Op, Launch, AdvanceQueued, EndLab, QueueTimeout, AdvanceDestroyed, AdvanceEnded, Touch, Reset,
         AdvanceProvisioning, AdvanceBaselining, AdvanceResetting, AdvanceRebuild, AdvanceTeardown
<1>3. /\ LeaseType' /\ flush'[p] = <<s, FALSE>>
      /\ \A t \in Session \ {s} : lease'[t] = lease[t]
      /\ \A q \in Process \ {p} : flush'[q] = flush[q]
  BY <1>2, UnderType DEF Under
<1>4. (\E f \in Rare : Spend(f)) \/ UNCHANGED budget
  BY DEF Op, Launch, AdvanceQueued, EndLab, QueueTimeout, AdvanceDestroyed, AdvanceEnded, Touch, Reset, StartOrWait,
         AdvanceProvisioning, AdvanceBaselining, AdvanceResetting, AdvanceRebuild, AdvanceTeardown, Times, SpendIf, Rare
<1>5. OpGoal(s)
  BY LaunchOp, EndLabOp, AdvanceProvisioningOp, AdvanceBaseliningOp, AdvanceResettingOp, AdvanceRebuildOp,
     AdvanceDestroyedOp, AdvanceTeardownOp, AdvanceEndedOp, ResetOp DEF Op
<1>6. snap' \in [Session -> SnapState]
  <2>1. CASE UNCHANGED snap
    BY <2>1, TypeParts DEF PlaceType
  <2>2. CASE Reset(p, s) \/ \E late \in BOOLEAN : AdvanceProvisioning(p, s, late) \/ AdvanceBaselining(p, s, late)
    BY <2>2, ResetOp, AdvanceProvisioningOp, AdvanceBaseliningOp
  <2>3. QED
    BY <2>1, <2>2 DEF Op, Launch, AdvanceQueued, EndLab, QueueTimeout, AdvanceDestroyed, AdvanceEnded, Touch,
         AdvanceResetting, AdvanceRebuild, AdvanceTeardown
<1>7. BudgetType'
  BY <1>4, SpendType DEF Rare
<1>8. TypeOK'
  <2>1. LabType' /\ PlaceType' /\ RangeType' /\ QueueType'
    BY <1>1, <1>5, <1>6, TypeParts DEF OpGoal, LabType, PlaceType, RangeType, QueueType
  <2>2. QED
    BY <1>3, <1>7, <2>1, TypePartsNext
<1>9. QED
  BY <1>1, <1>3, <1>4, <1>5, <1>8

-----------------------------------------------------------------------------
(* The other sessions, and the search for leftovers, in an operation.      *)

LEMMA SameCore ==
  ASSUME TypeOK, NEW t \in Session, CoreInv(t), lab'[t] = lab[t], rstate'[t] = rstate[t], UNCHANGED <<mode, queue, running, vms>>
  PROVE  CoreInv(t)'
<1>1. /\ State(t)' = State(t) /\ Current(t)' = Current(t) /\ RangeOf(t)' = RangeOf(t) /\ Outbox(t)' = Outbox(t)
      /\ Asked(t)' = Asked(t)
  BY DEF State, Current, RangeOf, Outbox, Asked
<1>2. TasksInv(t)' /\ RangesInv(t)' /\ UsedInv(t)' /\ MachinesInv(t)' /\ WaitInv(t)'
  BY <1>1 DEF CoreInv, TasksInv, RangesInv, UsedInv, MachinesInv, WaitInv
<1>3. QED
  BY <1>2 DEF CoreInv

LEMMA SameSearch ==
  ASSUME TypeOK, NEW t \in Session, lab'[t] = lab[t], rstate'[t] = rstate[t], vms'[t] = vms[t],
         net'[t] = net[t], home'[t] = home[t], queue \subseteq queue',
         lease'[t] = lease[t], lease[t] # None => flush'[lease[t]] = flush[lease[t]] \/ flush'[lease[t]] # <<t, FALSE>>,
         SearchInv(t), BackInv(t)
  PROVE  SearchInv(t)' /\ BackInv(t)'
<1>1. /\ State(t)' = State(t) /\ RangeOf(t)' = RangeOf(t) /\ Outbox(t)' = Outbox(t) /\ Search(t)' = Search(t)
      /\ Empty(t)' = Empty(t) /\ Idle(t)' = Idle(t)
  BY DEF State, Current, RangeOf, Outbox, Search, AllRanges, Empty, Idle
<1>2. QED
  BY <1>1 DEF SearchInv, BackInv

LEMMA OpCore ==
  ASSUME TypeOK, NEW s \in Session, NEW p \in Process, \A t \in Session : CoreInv(t), Op(p, s)
  PROVE  TypeOK' /\ \A t \in Session : CoreInv(t)'
<1>1. CoreInv(s)
  OBVIOUS
<1>2. TypeOK' /\ OpGoal(s) /\ UNCHANGED <<mode, queue, running, vms>>
  BY <1>1, OpStep
<1>3. ASSUME NEW t \in Session \ {s} PROVE CoreInv(t)'
  <2>1. lab'[t] = lab[t] /\ rstate'[t] = rstate[t] /\ CoreInv(t) /\ t \in Session
    BY <1>2 DEF OpGoal
  <2>2. QED
    BY <1>2, <2>1, SameCore
<1>4. QED
  BY <1>2, <1>3 DEF OpGoal

LEMMA OpSearch ==
  ASSUME TypeOK, NEW s \in Session, NEW p \in Process, \A t \in Session : CoreInv(t), Op(p, s),
         \A t \in Session : SearchInv(t) /\ BackInv(t)
  PROVE  \A t \in Session : SearchInv(t)' /\ BackInv(t)'
<1>1. CoreInv(s) /\ SearchInv(s) /\ BackInv(s)
  OBVIOUS
<1>2. /\ OpGoal(s) /\ UNCHANGED <<mode, queue, running, vms>>
      /\ \A t \in Session \ {s} : lease'[t] = lease[t]
      /\ flush'[p] = <<s, FALSE>> /\ \A q \in Process \ {p} : flush'[q] = flush[q]
  BY <1>1, OpStep
<1>3. lease \in [Session -> Process \cup {None}]
  BY TypeParts DEF LeaseType
<1>4. ASSUME NEW t \in Session \ {s} PROVE SearchInv(t)' /\ BackInv(t)'
  <2>1. /\ lab'[t] = lab[t] /\ rstate'[t] = rstate[t] /\ net'[t] = net[t] /\ home'[t] = home[t] /\ vms'[t] = vms[t]
        /\ queue \subseteq queue' /\ lease'[t] = lease[t] /\ t \in Session /\ SearchInv(t) /\ BackInv(t)
    BY <1>2 DEF OpGoal
  <2>2. lease[t] # None => flush'[lease[t]] = flush[lease[t]] \/ flush'[lease[t]] # <<t, FALSE>>
    <3>1. <<s, FALSE>> # <<t, FALSE>>
      OBVIOUS
    <3>2. lease[t] \in Process \cup {None}
      BY <1>3
    <3>3. QED
      BY <1>2, <3>1, <3>2
  <2>3. QED
    BY <2>1, <2>2, SameSearch
<1>5. SearchInv(s)'
  BY <1>2 DEF OpGoal, SearchInv, State
<1>6. Current(s) = 0 => Empty(s)
  <2>1. \A i \in Gen : i > 0
    BY DEF Gen
  <2>2. QED
    BY <1>1, <2>1 DEF CoreInv, RangesInv, Empty
<1>7. ReleaseDue(s) /\ Idle(s) => Empty(s)
  BY <1>1 DEF SearchInv, ReleaseDue
<1>8. BackInv(s)'
  <2>1. Empty(s)' = Empty(s)
    BY <1>2 DEF Empty
  <2>2. CASE UNCHANGED <<net, home>> /\ State(s) # "destroyed"
    BY <1>1, <2>2 DEF BackInv
  <2>3. CASE net'[s] = home'[s]
    BY <2>3 DEF BackInv
  <2>4. CASE /\ lab'[s].state = "destroyed" /\ RangeOf(s)' \in {"none", "destroyed"}
             /\ Current(s) = 0 \/ (ReleaseDue(s) /\ Idle(s))
    BY <1>6, <1>7, <2>1, <2>4 DEF BackInv, State
  <2>5. QED
    BY <1>2, <2>2, <2>3, <2>4 DEF OpGoal
<1>9. QED
  BY <1>4, <1>5, <1>8

-----------------------------------------------------------------------------
(* The outbox.                                                             *)

\* Only the outbox moves: on to the broker, or it stays.
LEMMA SentCore ==
  ASSUME TypeOK, NEW t \in Session, CoreInv(t), UNCHANGED <<mode, rstate, running, vms>>,
         lab'[t].state = lab[t].state, lab'[t].range = lab[t].range,
         queue \subseteq queue', Outbox(t) \subseteq Outbox(t)' \cup queue', Outbox(t)' \subseteq Outbox(t),
         \A m \in queue' \ queue :
            m.lab = t => m \in Outbox(t) \/ m = Search(t)
  PROVE  CoreInv(t)'
<1>1. /\ State(t)' = State(t) /\ Current(t)' = Current(t) /\ RangeOf(t)' = RangeOf(t)
  BY DEF State, Current, RangeOf
<1>2. \A m \in Outbox(t) : m.lab = t
  BY DEF CoreInv, TasksInv, Asked
<1>3. Asked(t) \subseteq Asked(t)' /\ \A m \in Asked(t)' : m \in Asked(t) \/ m = Search(t)
  BY <1>2 DEF Asked
<1>4. TasksInv(t)'
  <2>1. ASSUME NEW m \in Asked(t)'
        PROVE  /\ m \in Task /\ m.lab = t /\ \A i \in m.ids : i <= Current(t)
               /\ m.task # "reconcile_lab_vms" => \E i \in Gen : m.ids = {i}
    <3>1. CASE m \in Asked(t)
      BY <3>1 DEF CoreInv, TasksInv
    <3>2. CASE m = Search(t)
      BY <3>2, SearchType
    <3>3. QED
      BY <1>3, <2>1, <3>1, <3>2
  <2>2. QED
    BY <1>1, <2>1 DEF CoreInv, TasksInv
<1>5. RangesInv(t)' /\ UsedInv(t)' /\ MachinesInv(t)'
  BY <1>1 DEF CoreInv, RangesInv, UsedInv, MachinesInv
<1>6. WaitInv(t)'
  BY <1>3 DEF CoreInv, WaitInv
<1>7. QED
  BY <1>4, <1>5, <1>6 DEF CoreInv

\* The tasks of a session that has the flag of a flush.
LEMMA FlushOf ==
  ASSUME TypeOK, NEW p \in Process, flush[p] # None
  PROVE  /\ flush[p][1] \in Session /\ flush[p][2] \in BOOLEAN /\ flush[p] = <<flush[p][1], flush[p][2]>>
<1>1. flush[p] \in Session \X BOOLEAN
  BY TypeParts DEF LeaseType
<1>2. QED
  BY <1>1

\* Sending the first k tasks of a session.
LEMMA SentStep ==
  ASSUME TypeOK, NEW s \in Session, CoreInv(s), NEW k \in 0 .. Len(lab[s].pending), Sent(SubSeq(lab[s].pending, 1, k))
  PROVE  /\ queue \subseteq queue' /\ queue' \subseteq Task
         /\ \A m \in queue' \ queue : m \in Outbox(s) /\ m.lab = s
         /\ Kept(lab[s].pending, k) \in Seq(Task)
         /\ Elems(Kept(lab[s].pending, k)) \subseteq Outbox(s)
         /\ Outbox(s) \subseteq Elems(Kept(lab[s].pending, k)) \cup queue'
         /\ k = 0 => Kept(lab[s].pending, k) = lab[s].pending
<1>1. lab[s].pending \in Seq(Task) /\ Outbox(s) = Elems(lab[s].pending) /\ Outbox(s) \subseteq Task
  BY LabFacts
<1>2. /\ Kept(lab[s].pending, k) \in Seq(Task) /\ SubSeq(lab[s].pending, 1, k) \in Seq(Task)
      /\ Elems(lab[s].pending) = Elems(SubSeq(lab[s].pending, 1, k)) \cup Elems(Kept(lab[s].pending, k))
      /\ k = 0 => Kept(lab[s].pending, k) = lab[s].pending
  BY <1>1, ElemsSplit
<1>3. queue' = queue \cup Elems(SubSeq(lab[s].pending, 1, k))
  BY DEF Sent, Elems
<1>4. queue \subseteq Task
  BY TypeParts DEF QueueType
<1>5. \A m \in Outbox(s) : m.lab = s
  BY DEF CoreInv, TasksInv, Asked
<1>6. QED
  BY <1>1, <1>2, <1>3, <1>4, <1>5

LEMMA FlushStep ==
  ASSUME TypeOK, NEW p \in Process, NEW k \in 0 .. 4, FlushOutbox(p, k), NEW s \in Session, s = flush[p][1],
         CoreInv(s), lease[s] = p
  PROVE  /\ k \in 0 .. Len(lab[s].pending) /\ Sent(SubSeq(lab[s].pending, 1, k))
         /\ lab' \in [Session -> Lab] /\ \A t \in Session \ {s} : lab'[t] = lab[t]
         /\ lab'[s].state = lab[s].state /\ lab'[s].range = lab[s].range
         /\ lab'[s].pending = Kept(lab[s].pending, k)
         /\ lab'[s].grace = Restarted(flush[p][2], k, lab[s].grace)
         /\ lease'[s] = None /\ \A t \in Session \ {s} : lease'[t] = lease[t]
         /\ LeaseType'
<1> DEFINE w == [lab[s] EXCEPT !.pending = Kept(lab[s].pending, k), !.grace = Restarted(flush[p][2], k, @)]
<1>1. flush[p] # None /\ flush[p][2] \in BOOLEAN
  BY FlushOf DEF FlushOutbox
<1>2. /\ k \in 0 .. Len(lab[s].pending) /\ Sent(SubSeq(lab[s].pending, 1, k))
      /\ lab' = [lab EXCEPT ![s] = w]
      /\ lease' = [lease EXCEPT ![s] = None] /\ lapsed' = [lapsed EXCEPT ![s] = FALSE]
      /\ flush' = [flush EXCEPT ![p] = None]
  BY DEF FlushOutbox, Save
<1>3. Kept(lab[s].pending, k) \in Seq(Task)
  BY <1>2, SentStep
<1>4. lab[s] \in Lab /\ lab \in [Session -> Lab] /\ lab[s].grace \in BOOLEAN
  BY LabFacts
<1>5. Restarted(flush[p][2], k, lab[s].grace) \in BOOLEAN
  BY Zenon DEF Restarted
<1> DEFINE gr == Restarted(flush[p][2], k, lab[s].grace)
<1>6. /\ w \in Lab /\ w.state = lab[s].state /\ w.range = lab[s].range /\ w.pending = Kept(lab[s].pending, k)
      /\ w.grace = gr
  <2>1. gr \in BOOLEAN
    BY <1>5
  <2> HIDE DEF gr
  <2>2. w = [lab[s] EXCEPT !.pending = Kept(lab[s].pending, k), !.grace = gr]
    BY DEF gr
  <2>3. QED
    BY <1>3, <1>4, <2>1, <2>2 DEF Lab
<1> HIDE DEF w
<1>7. lab' \in [Session -> Lab] /\ lab'[s] = w /\ \A t \in Session \ {s} : lab'[t] = lab[t]
  BY <1>2, <1>4, <1>6
<1>8. LeaseType' /\ lease'[s] = None /\ \A t \in Session \ {s} : lease'[t] = lease[t]
  BY <1>2, TypeParts DEF LeaseType
<1>9. QED
  BY <1>2, <1>6, <1>7, <1>8

LEMMA FlushCore ==
  ASSUME TypeOK, NEW p \in Process, NEW k \in 0 .. 4, FlushOutbox(p, k), \A t \in Session : CoreInv(t)
  PROVE  TypeOK' /\ \A t \in Session : CoreInv(t)'
<1>1. PICK s \in Session : s = flush[p][1]
  BY FlushOf DEF FlushOutbox
<1>2. UNCHANGED <<mode, net, home, snap, rstate, running, vms>> /\ flush' = [flush EXCEPT ![p] = None]
  BY DEF FlushOutbox
<1>3. BudgetType'
  <2>1. Spend("refused") \/ UNCHANGED budget
    BY DEF FlushOutbox, SpendIf
  <2>2. QED
    BY <2>1, SpendType DEF Rare
<1>4. CASE lease[s] # p
  <2>1. UNCHANGED <<lab, queue, lease, lapsed>>
    BY <1>1, <1>4 DEF FlushOutbox
  <2>2. \A t \in Session : CoreInv(t)'
    BY <1>2, <2>1, SameCore
  <2>3. LabType' /\ PlaceType' /\ RangeType' /\ LeaseType' /\ QueueType'
    BY <1>2, <2>1, TypeParts DEF LabType, PlaceType, RangeType, LeaseType, QueueType
  <2>4. QED
    BY <1>3, <2>2, <2>3, TypePartsNext
<1>5. CASE lease[s] = p
  <2>1. s = flush[p][1] /\ CoreInv(s)
    BY <1>1
  <2>2. /\ k \in 0 .. Len(lab[s].pending) /\ Sent(SubSeq(lab[s].pending, 1, k))
        /\ lab' \in [Session -> Lab] /\ \A t \in Session \ {s} : lab'[t] = lab[t]
        /\ lab'[s].state = lab[s].state /\ lab'[s].range = lab[s].range
        /\ lab'[s].pending = Kept(lab[s].pending, k)
        /\ LeaseType'
    BY <1>1, <1>5, <2>1, FlushStep
  <2>3. /\ queue \subseteq queue' /\ queue' \subseteq Task
        /\ \A m \in queue' \ queue : m \in Outbox(s) /\ m.lab = s
        /\ Elems(Kept(lab[s].pending, k)) \subseteq Outbox(s)
        /\ Outbox(s) \subseteq Elems(Kept(lab[s].pending, k)) \cup queue'
    BY <1>1, <2>1, <2>2, SentStep
  <2>4. ASSUME NEW t \in Session PROVE CoreInv(t)'
    <3>1. CASE t = s
      <4>1. Outbox(s)' = Elems(Kept(lab[s].pending, k))
        BY <2>2 DEF Outbox, Elems
      <4>2. QED
        BY <1>1, <1>2, <2>1, <2>2, <2>3, <3>1, <4>1, SentCore
    <3>2. CASE t # s
      <4>1. lab'[t] = lab[t] /\ CoreInv(t)
        BY <2>2, <3>2
      <4>2. Outbox(t)' = Outbox(t)
        BY <4>1 DEF Outbox
      <4>3. QED
        BY <1>2, <2>3, <3>2, <4>1, <4>2, SentCore
    <3>3. QED
      BY <3>1, <3>2
  <2>5. LabType' /\ PlaceType' /\ RangeType' /\ QueueType'
    BY <1>2, <2>2, <2>3, TypeParts DEF LabType, PlaceType, RangeType, QueueType
  <2>6. QED
    BY <1>3, <2>2, <2>4, <2>5, TypePartsNext
<1>6. QED
  BY <1>4, <1>5

LEMMA NoneIsNoFlush == \A t \in Session : None # <<t, FALSE>>
<1>1. None \notin Session \X BOOLEAN
  BY LabsAssumption
<1>2. \A t \in Session : <<t, FALSE>> \in Session \X BOOLEAN
  OBVIOUS
<1>3. QED
  BY <1>1, <1>2

\* What is sent of a search goes to the broker, and starts the grace again when it was left behind.
LEMMA FlushSearch ==
  ASSUME TypeOK, NEW p \in Process, NEW k \in 0 .. 4, FlushOutbox(p, k), \A t \in Session : CoreInv(t),
         \A t \in Session : SearchInv(t) /\ BackInv(t)
  PROVE  \A t \in Session : SearchInv(t)' /\ BackInv(t)'
<1>1. PICK s \in Session : s = flush[p][1]
  BY FlushOf DEF FlushOutbox
<1>2. /\ UNCHANGED <<mode, net, home, snap, rstate, running, vms>> /\ flush[p] # None
      /\ flush' = [flush EXCEPT ![p] = None]
  BY DEF FlushOutbox
<1>3. flush[p][2] \in BOOLEAN /\ flush[p] = <<s, flush[p][2]>>
  BY <1>1, <1>2, FlushOf
<1>4. \A t \in Session : lease[t] # None => flush'[lease[t]] = flush[lease[t]] \/ flush'[lease[t]] # <<t, FALSE>>
  <2>1. /\ lease \in [Session -> Process \cup {None}] /\ flush \in [Process -> (Session \X BOOLEAN) \cup {None}]
        /\ \A t \in Session : None # <<t, FALSE>>
    BY TypeParts, NoneIsNoFlush DEF LeaseType
  <2>2. \A q \in Process : flush'[q] = flush[q] \/ flush'[q] = None
    BY <1>2, <2>1
  <2>3. QED
    BY <2>1, <2>2
<1>5. CASE lease[s] # p
  <2>1. UNCHANGED <<lab, queue, lease>>
    BY <1>1, <1>5 DEF FlushOutbox
  <2>2. QED
    BY <1>2, <1>4, <2>1, SameSearch
<1>6. CASE lease[s] = p
  <2>1. CoreInv(s) /\ SearchInv(s) /\ BackInv(s)
    OBVIOUS
  <2>2. /\ k \in 0 .. Len(lab[s].pending) /\ Sent(SubSeq(lab[s].pending, 1, k))
        /\ \A t \in Session \ {s} : lab'[t] = lab[t]
        /\ lab'[s].state = lab[s].state /\ lab'[s].range = lab[s].range
        /\ lab'[s].pending = Kept(lab[s].pending, k)
        /\ lab'[s].grace = Restarted(flush[p][2], k, lab[s].grace)
        /\ lease'[s] = None /\ \A t \in Session \ {s} : lease'[t] = lease[t]
    BY <1>1, <1>6, <2>1, FlushStep
  <2>3. /\ queue \subseteq queue' /\ Outbox(s) \subseteq Elems(Kept(lab[s].pending, k)) \cup queue'
        /\ k = 0 => Kept(lab[s].pending, k) = lab[s].pending
    BY <2>1, <2>2, SentStep
  <2>4. ASSUME NEW t \in Session, t # s PROVE SearchInv(t)' /\ BackInv(t)'
    <3>1. /\ lab'[t] = lab[t] /\ lease'[t] = lease[t] /\ SearchInv(t) /\ BackInv(t)
          /\ lease[t] # None => flush'[lease[t]] = flush[lease[t]] \/ flush'[lease[t]] # <<t, FALSE>>
      BY <1>4, <2>2, <2>4
    <3>2. rstate'[t] = rstate[t] /\ vms'[t] = vms[t] /\ net'[t] = net[t] /\ home'[t] = home[t]
      BY <1>2
    <3>3. QED
      BY <2>3, <3>1, <3>2, SameSearch
  <2>5. /\ State(s)' = State(s) /\ Current(s)' = Current(s) /\ RangeOf(s)' = RangeOf(s) /\ Empty(s)' = Empty(s)
        /\ Search(s)' = Search(s)
    BY <1>2, <2>2 DEF State, Current, RangeOf, Empty, Search, AllRanges
  <2>6. Outbox(s)' = Elems(Kept(lab[s].pending, k))
    BY <2>2 DEF Outbox, Elems
  <2>7. State(s) = "reconciling" /\ lab'[s].grace /\ Idle(s)' => Empty(s)
    <3>1. SUFFICES ASSUME State(s) = "reconciling", lab'[s].grace, Idle(s)' PROVE Empty(s)
      OBVIOUS
    <3>2. lab[s].grace /\ ~(flush[p][2] /\ k > 0)
      BY <2>2, <3>1 DEF Restarted
    <3>3. CASE Idle(s)
      BY <2>1, <3>1, <3>2, <3>3 DEF SearchInv
    <3>4. CASE ~Idle(s)
      <4>1. flush[p] # <<s, FALSE>> /\ p # None
        BY <1>6, <2>1, <3>1, <3>2, <3>4, LabsAssumption DEF SearchInv
      <4>2. flush[p][2] = TRUE
        BY <1>3, <4>1
      <4>3. k = 0
        BY <3>2, <4>2
      <4>4. QED
        BY <2>2, <2>3, <3>1, <3>4, <4>3 DEF Idle
    <3>5. QED
      BY <3>3, <3>4
  <2>8. SearchInv(s)'
    BY <2>1, <2>2, <2>3, <2>5, <2>6, <2>7 DEF SearchInv
  <2>9. BackInv(s)'
    BY <1>2, <2>1, <2>5 DEF BackInv
  <2>10. QED
    BY <2>4, <2>8, <2>9
<1>7. QED
  BY <1>5, <1>6

LEMMA DiesStep ==
  ASSUME TypeOK, NEW p \in Process, NEW k \in 0 .. 4, Dies(p, k), \A t \in Session : CoreInv(t)
  PROVE  /\ TypeOK' /\ \A t \in Session : CoreInv(t)'
         /\ (\A t \in Session : SearchInv(t) /\ BackInv(t)) => \A t \in Session : SearchInv(t)' /\ BackInv(t)'
<1>1. PICK s \in Session : s = flush[p][1]
  BY FlushOf DEF Dies
<1>2. /\ UNCHANGED <<lab, mode, net, home, snap, rstate, running, vms, lease, lapsed>> /\ flush[p] # None
      /\ flush' = [flush EXCEPT ![p] = None] /\ Spend("death")
  BY DEF Dies
<1>3. /\ queue \subseteq queue' /\ queue' \subseteq Task /\ \A m \in queue' \ queue : m \in Outbox(s) /\ m.lab = s
  <2>1. CASE UNCHANGED queue
    BY <2>1, TypeParts DEF QueueType
  <2>2. CASE k \in 0 .. Len(lab[s].pending) /\ Sent(SubSeq(lab[s].pending, 1, k))
    <3>1. CoreInv(s)
      OBVIOUS
    <3>2. QED
      BY <2>2, <3>1, SentStep
  <2>3. QED
    BY <1>1, <2>1, <2>2 DEF Dies
<1>4. TypeOK'
  <2>1. BudgetType'
    BY <1>2, SpendType DEF Rare
  <2>2. LabType' /\ PlaceType' /\ RangeType' /\ LeaseType' /\ QueueType'
    BY <1>2, <1>3, TypeParts DEF LabType, PlaceType, RangeType, LeaseType, QueueType
  <2>3. QED
    BY <2>1, <2>2, TypePartsNext
<1>5. ASSUME NEW t \in Session PROVE CoreInv(t)'
  <2>1. Outbox(t)' = Outbox(t) /\ CoreInv(t)
    BY <1>2 DEF Outbox
  <2>2. QED
    BY <1>2, <1>3, <2>1, SentCore
<1>6. ASSUME NEW t \in Session, SearchInv(t), BackInv(t) PROVE SearchInv(t)' /\ BackInv(t)'
  <2>1. /\ lease \in [Session -> Process \cup {None}] /\ flush \in [Process -> (Session \X BOOLEAN) \cup {None}]
        /\ None # <<t, FALSE>>
    BY TypeParts, NoneIsNoFlush DEF LeaseType
  <2>2. lease[t] # None => flush'[lease[t]] = flush[lease[t]] \/ flush'[lease[t]] # <<t, FALSE>>
    BY <1>2, <2>1
  <2>3. QED
    BY <1>2, <1>3, <1>6, <2>2, SameSearch
<1>7. QED
  BY <1>4, <1>5, <1>6

LEMMA ResendStep ==
  ASSUME TypeOK, NEW p \in Process, NEW s \in Session, Resend(p, s) \/ LeaseLapses(s), \A t \in Session : CoreInv(t)
  PROVE  /\ TypeOK' /\ \A t \in Session : CoreInv(t)'
         /\ (\A t \in Session : SearchInv(t) /\ BackInv(t)) => \A t \in Session : SearchInv(t)' /\ BackInv(t)'
<1>1. UNCHANGED <<lab, mode, net, home, snap, rstate, queue, running, vms>>
  BY DEF Resend, LeaseLapses, outside
<1>2. \A t \in Session : CoreInv(t)'
  BY <1>1, SameCore
<1>3. LeaseType' /\ \A t \in Session : lease'[t] # None => \/ lease'[t] = lease[t] /\ flush'[lease[t]] = flush[lease[t]]
                                                           \/ flush'[lease'[t]] # <<t, FALSE>>
  <2>1. /\ lease \in [Session -> Process \cup {None}] /\ flush \in [Process -> (Session \X BOOLEAN) \cup {None}]
        /\ lapsed \in [Session -> BOOLEAN]
    BY TypeParts DEF LeaseType
  <2>2. CASE Resend(p, s)
    <3>1. /\ LeaseType' /\ lease'[s] = p /\ flush'[p] = <<s, TRUE>>
          /\ \A t \in Session \ {s} : lease'[t] = lease[t]
          /\ \A q \in Process \ {p} : flush'[q] = flush[q]
      BY <2>2, UnderType DEF Resend
    <3>2. \A t \in Session : <<s, TRUE>> # <<t, FALSE>>
      OBVIOUS
    <3>3. QED
      BY <2>1, <3>1, <3>2, ZenonT(60)
  <2>3. CASE LeaseLapses(s)
    BY <2>1, <2>3 DEF LeaseLapses, LeaseType
  <2>4. QED
    BY <2>2, <2>3
<1>4. TypeOK'
  <2>1. BudgetType'
    <3>1. Spend("slow") \/ UNCHANGED budget
      BY DEF Resend, LeaseLapses, SpendIf
    <3>2. QED
      BY <3>1, SpendType DEF Rare
  <2>2. LabType' /\ PlaceType' /\ RangeType' /\ QueueType'
    BY <1>1, TypeParts DEF LabType, PlaceType, RangeType, QueueType
  <2>3. QED
    BY <1>3, <2>1, <2>2, TypePartsNext
<1>5. ASSUME NEW t \in Session, SearchInv(t), BackInv(t) PROVE SearchInv(t)' /\ BackInv(t)'
  <2>1. /\ State(t)' = State(t) /\ RangeOf(t)' = RangeOf(t) /\ Outbox(t)' = Outbox(t) /\ Search(t)' = Search(t)
        /\ Empty(t)' = Empty(t) /\ Idle(t)' = Idle(t) /\ lab'[t].grace = lab[t].grace
    BY <1>1 DEF State, Current, RangeOf, Outbox, Search, AllRanges, Empty, Idle
  <2>2. SearchInv(t)'
    BY <1>1, <1>3, <1>5, <2>1 DEF SearchInv
  <2>3. BackInv(t)'
    BY <1>1, <1>5, <2>1 DEF BackInv
  <2>4. QED
    BY <2>2, <2>3
<1>6. QED
  BY <1>2, <1>4, <1>5

LEMMA ReconcileAllStep ==
  ASSUME TypeOK, ReconcileAll, \A t \in Session : CoreInv(t)
  PROVE  /\ TypeOK' /\ \A t \in Session : CoreInv(t)'
         /\ (\A t \in Session : SearchInv(t) /\ BackInv(t)) => \A t \in Session : SearchInv(t)' /\ BackInv(t)'
<1>1. UNCHANGED <<lab, mode, net, home, snap, rstate, running, vms, lease, lapsed, flush>> /\ Spend("operator")
  BY DEF ReconcileAll, leases
<1>2. /\ queue \subseteq queue'
      /\ \A m \in queue' \ queue : \E s \in Session : m = Search(s)
  BY DEF ReconcileAll, Search
<1>3. \A m \in queue' \ queue : m \in Task /\ m = Search(m.lab)
  BY <1>2, SearchType
<1>4. TypeOK'
  <2>1. BudgetType'
    BY <1>1, SpendType DEF Rare
  <2>2. LabType' /\ PlaceType' /\ RangeType' /\ LeaseType' /\ QueueType'
    BY <1>1, <1>3, TypeParts DEF LabType, PlaceType, RangeType, LeaseType, QueueType
  <2>3. QED
    BY <2>1, <2>2, TypePartsNext
<1>5. ASSUME NEW t \in Session PROVE CoreInv(t)'
  <2>1. Outbox(t)' = Outbox(t) /\ CoreInv(t)
    BY <1>1 DEF Outbox
  <2>2. QED
    BY <1>1, <1>2, <1>3, <2>1, SentCore
<1>6. ASSUME NEW t \in Session, SearchInv(t), BackInv(t) PROVE SearchInv(t)' /\ BackInv(t)'
  BY <1>1, <1>2, <1>6, SameSearch
<1>7. QED
  BY <1>4, <1>5, <1>6

LEMMA GraceCore ==
  ASSUME TypeOK, NEW s \in Session, GracePasses(s), \A t \in Session : CoreInv(t)
  PROVE  /\ TypeOK' /\ \A t \in Session : CoreInv(t)'
         /\ Spend("late") \/ ~(Flushing(s) \/ \E m \in queue : m.task = "reconcile_lab_vms" /\ m.lab = s)
         /\ UNCHANGED <<mode, net, home, snap, rstate, queue, running, vms, lease, lapsed, flush>>
         /\ \A t \in Session \ {s} : lab'[t] = lab[t]
         /\ lab'[s].state = lab[s].state /\ lab'[s].range = lab[s].range /\ lab'[s].pending = lab[s].pending
<1> DEFINE w == [lab[s] EXCEPT !.grace = TRUE]
<1>1. UNCHANGED <<mode, net, home, snap, rstate, queue, running, vms, lease, lapsed, flush>> /\ lab' = [lab EXCEPT ![s] = w]
  BY DEF GracePasses, Save, outside, leases
<1>2. lab[s] \in Lab /\ lab \in [Session -> Lab]
  BY LabFacts
<1>3. w \in Lab /\ w.state = lab[s].state /\ w.range = lab[s].range /\ w.pending = lab[s].pending
  BY <1>2 DEF Lab
<1> HIDE DEF w
<1>4. lab' \in [Session -> Lab] /\ lab'[s] = w /\ \A t \in Session \ {s} : lab'[t] = lab[t]
  BY <1>1, <1>2, <1>3
<1>5. Spend("late") \/ (UNCHANGED budget /\ ~(Flushing(s) \/ \E m \in queue : m.task = "reconcile_lab_vms" /\ m.lab = s))
  BY DEF GracePasses, SpendIf
<1>6. TypeOK'
  <2>1. BudgetType'
    BY <1>5, SpendType DEF Rare
  <2>2. LabType' /\ PlaceType' /\ RangeType' /\ LeaseType' /\ QueueType'
    BY <1>1, <1>4, TypeParts DEF LabType, PlaceType, RangeType, LeaseType, QueueType
  <2>3. QED
    BY <2>1, <2>2, TypePartsNext
<1>7. ASSUME NEW t \in Session PROVE CoreInv(t)'
  <2>1. lab'[t].state = lab[t].state /\ lab'[t].range = lab[t].range /\ lab'[t].pending = lab[t].pending
    BY <1>3, <1>4
  <2>2. Outbox(t)' = Outbox(t) /\ CoreInv(t)
    BY <2>1 DEF Outbox
  <2>3. QED
    BY <1>1, <2>1, <2>2, SentCore
<1>8. QED
  BY <1>1, <1>3, <1>4, <1>5, <1>6, <1>7

\* The grace ends with the search sent and done, or never sent and nobody sending it.
LEMMA GraceSearch ==
  ASSUME TypeOK, NEW s \in Session, GracePasses(s), \A t \in Session : CoreInv(t), ~Spend("late"),
         \A t \in Session : SearchInv(t) /\ BackInv(t)
  PROVE  \A t \in Session : SearchInv(t)' /\ BackInv(t)'
<1>1. /\ ~(Flushing(s) \/ \E m \in queue : m.task = "reconcile_lab_vms" /\ m.lab = s)
      /\ UNCHANGED <<mode, net, home, snap, rstate, queue, running, vms, lease, lapsed, flush>>
      /\ \A t \in Session \ {s} : lab'[t] = lab[t]
      /\ lab'[s].state = lab[s].state /\ lab'[s].range = lab[s].range /\ lab'[s].pending = lab[s].pending
  BY GraceCore
<1>2. ASSUME NEW t \in Session, t # s PROVE SearchInv(t)' /\ BackInv(t)'
  <2>1. lab'[t] = lab[t] /\ SearchInv(t) /\ BackInv(t)
    BY <1>1, <1>2
  <2>2. QED
    BY <1>1, <2>1, SameSearch
<1>3. SearchInv(s) /\ BackInv(s) /\ State(s) = "reconciling"
  BY DEF GracePasses
<1>4. /\ State(s)' = State(s) /\ RangeOf(s)' = RangeOf(s) /\ Outbox(s)' = Outbox(s) /\ Search(s)' = Search(s)
      /\ Empty(s)' = Empty(s) /\ Idle(s)' = Idle(s)
  BY <1>1 DEF State, Current, RangeOf, Outbox, Search, AllRanges, Empty, Idle
<1>5. Search(s) \notin queue
  BY <1>1, SearchType
<1>6. Idle(s) => Empty(s)
  <2>1. Idle(s) => Outbox(s) = {}
    BY DEF Idle, Outbox
  <2>2. QED
    BY <1>3, <1>5, <2>1 DEF SearchInv
<1>7. lease[s] = None \/ flush[lease[s]] # <<s, FALSE>>
  BY <1>1 DEF Flushing
<1>8. SearchInv(s)'
  BY <1>1, <1>3, <1>4, <1>6, <1>7 DEF SearchInv
<1>9. BackInv(s)'
  BY <1>1, <1>3, <1>4 DEF BackInv
<1>10. QED
  BY <1>2, <1>8, <1>9

-----------------------------------------------------------------------------
(* The worker.                                                             *)

\* What a task about range i of session s does to everything else, and to the range: a destroyed
\* range stays so and gets no machines, and what the range waits for is not taken from it.
WorkGoal(m, s, i) ==
    /\ UNCHANGED <<lab, mode, net, home, lease, lapsed, flush>>
    /\ queue \ {m} \subseteq queue' /\ queue' \subseteq queue \cup {m}
    /\ running \ {m} \subseteq running' /\ running' \subseteq running \cup {m}
    /\ m \in running' => m.task = "provision_range"
    /\ snap' \in [Session -> SnapState]
    /\ rstate' \in [Session -> [Gen -> RangeState]] /\ vms' \in [Session -> [Gen -> SUBSET Machine]]
    /\ \A t \in Session \ {s} : rstate'[t] = rstate[t] /\ vms'[t] = vms[t]
    /\ \A j \in Gen \ {i} : rstate'[s][j] = rstate[s][j] /\ vms'[s][j] = vms[s][j]
    /\ \/ rstate'[s][i] = rstate[s][i]
       \/ rstate[s][i] # "destroyed" /\ rstate'[s][i] \in {"created", "ready", "failed"}
       \/ rstate[s][i] = "destroying" /\ rstate'[s][i] = "destroyed"
    /\ rstate[s][i] = "destroyed" => vms'[s][i] \subseteq vms[s][i]
    /\ rstate'[s][i] = "destroyed" => vms'[s][i] \subseteq {"left"} /\ Provision(s, i) \notin running'
    /\ "building" \in vms'[s][i] => Provision(s, i) \in running'
    /\ rstate'[s][i] = "provisioning" /\ m.task = "provision_range" => m \in queue' \cup running'
    /\ rstate'[s][i] = "destroying" => m.task # "destroy_range"

\* The range of a task.
LEMMA TaskRange ==
  ASSUME TypeOK, \A t \in Session : CoreInv(t), NEW m \in queue \cup running, m.task # "reconcile_lab_vms"
  PROVE  \E i \in Gen : /\ m.ids = {i} /\ The(m) = i /\ m \in Task /\ m.lab \in Session /\ i <= Current(m.lab)
                        /\ m.task = "provision_range" => m = Provision(m.lab, i)
                        /\ m \in running => m.task = "provision_range"
<1>1. m \in Task /\ m.lab \in Session
  BY TypeParts DEF QueueType, Task
<1>2. CoreInv(m.lab) /\ m \in Asked(m.lab)
  BY <1>1 DEF Asked
<1>3. PICK i \in Gen : m.ids = {i}
  BY <1>2 DEF CoreInv, TasksInv
<1>4. i <= Current(m.lab) /\ (m \in running => m.task = "provision_range")
  BY <1>2, <1>3 DEF CoreInv, TasksInv
<1>5. The(m) = i
  BY <1>3, TheOne
<1>6. m.task = "provision_range" => m = Provision(m.lab, i)
  BY <1>1, <1>3, TaskEq
<1>7. QED
  BY <1>1, <1>3, <1>4, <1>5, <1>6

LEMMA WorkCore ==
  ASSUME TypeOK, \A t \in Session : CoreInv(t), NEW m \in queue \cup running, NEW s \in Session, m.lab = s,
         NEW i \in Gen, m.ids = {i}, m.task # "reconcile_lab_vms", WorkGoal(m, s, i)
  PROVE  \A t \in Session : CoreInv(t)'
<1>1. m \in Task /\ i <= Current(s) /\ Current(s) \in Nat /\ i \in Nat
  <2>1. m \in Task /\ m \in Asked(s)
    BY TypeParts DEF QueueType, Asked
  <2>2. CoreInv(s)
    OBVIOUS
  <2>3. QED
    BY <2>1, <2>2, LabFacts, GenFacts DEF CoreInv, TasksInv, Current
<1>2. ASSUME NEW t \in Session
      PROVE  /\ State(t)' = State(t) /\ Current(t)' = Current(t) /\ Outbox(t)' = Outbox(t)
             /\ Asked(t)' \subseteq Asked(t) /\ Asked(t) \subseteq Asked(t)' \cup {m}
  BY DEF State, Current, Outbox, Asked, WorkGoal
<1>3. ASSUME NEW t \in Session PROVE TasksInv(t)'
  <2>1. CoreInv(t)
    OBVIOUS
  <2>2. \A o \in running' : o.lab = t => o.task = "provision_range"
    BY <2>1 DEF WorkGoal, CoreInv, TasksInv
  <2>3. QED
    BY <1>2, <2>1, <2>2 DEF CoreInv, TasksInv
<1>4. ASSUME NEW t \in Session, t # s PROVE CoreInv(t)'
  <2>1. CoreInv(t) /\ rstate'[t] = rstate[t] /\ vms'[t] = vms[t] /\ mode' = mode
    BY <1>4 DEF WorkGoal
  <2>2. Asked(t)' = Asked(t) /\ RangeOf(t)' = RangeOf(t)
    <3>1. m \notin {o \in queue \cup running : o.lab = t} /\ m \notin {o \in queue' \cup running' : o.lab = t}
      BY <1>4
    <3>2. {o \in queue' \cup running' : o.lab = t} = {o \in queue \cup running : o.lab = t}
      BY <3>1 DEF WorkGoal
    <3>3. QED
      BY <1>2, <2>1, <3>2 DEF Asked, RangeOf
  <2>3. \A j \in Gen : Provision(t, j) \in running' <=> Provision(t, j) \in running
    <3>1. \A j \in Gen : Provision(t, j).lab = t
      BY DEF Provision, Ask
    <3>2. QED
      BY <1>4, <3>1 DEF WorkGoal
  <2>4. RangesInv(t)' /\ UsedInv(t)' /\ MachinesInv(t)' /\ WaitInv(t)'
    BY <1>2, <2>1, <2>2, <2>3 DEF CoreInv, RangesInv, UsedInv, MachinesInv, WaitInv
  <2>5. QED
    BY <1>3, <2>4 DEF CoreInv
<1>5. CoreInv(s)
  OBVIOUS
<1>6. RangesInv(s)'
  <2>1. ASSUME NEW j \in Gen
        PROVE  /\ j > Current(s) => rstate'[s][j] = "none" /\ vms'[s][j] = {}
               /\ j <= Current(s) => rstate'[s][j] # "none"
               /\ j < Current(s) => rstate'[s][j] = "destroyed"
    <3>1. CASE j # i
      BY <1>5, <3>1 DEF WorkGoal, CoreInv, RangesInv
    <3>2. CASE j = i
      BY <1>1, <1>5, <3>2 DEF WorkGoal, CoreInv, RangesInv
    <3>3. QED
      BY <3>1, <3>2
  <2>2. QED
    BY <1>2, <1>5, <2>1 DEF CoreInv, RangesInv
<1>7. UsedInv(s)'
  <2>1. SUFFICES ASSUME State(s) \in {"provisioning", "baselining", "ready", "active"}
                          \/ (State(s) = "resetting" /\ mode[s] = "snapshot")
                 PROVE  RangeOf(s)' \in {"created", "provisioning", "ready", "failed"}
    BY <1>2 DEF UsedInv, WorkGoal
  <2>2. RangeOf(s) \in {"created", "provisioning", "ready", "failed"}
    BY <1>5, <2>1 DEF CoreInv, UsedInv
  <2>3. Current(s) # 0 /\ Current(s) \in Gen /\ RangeOf(s) = rstate[s][Current(s)] /\ RangeOf(s)' = rstate'[s][Current(s)]
    BY <1>2, <2>2, OwnType DEF RangeOf
  <2>4. QED
    BY <2>2, <2>3 DEF WorkGoal
<1>8. \A j \in Gen \ {i} : m # Provision(s, j) /\ m # Destroy(s, j)
  <2>1. \A j \in Gen : Provision(s, j).ids = {j} /\ Destroy(s, j).ids = {j}
    BY DEF Provision, Destroy, Ask
  <2>2. QED
    BY <2>1
<1>9. MachinesInv(s)'
  <2>1. ASSUME NEW j \in Gen
        PROVE  /\ "building" \in vms'[s][j] => Provision(s, j) \in running'
               /\ rstate'[s][j] = "destroyed" => vms'[s][j] \subseteq {"left"} /\ Provision(s, j) \notin running'
    <3>1. CASE j # i
      BY <1>5, <1>8, <3>1 DEF WorkGoal, CoreInv, MachinesInv
    <3>2. CASE j = i
      BY <3>2 DEF WorkGoal
    <3>3. QED
      BY <3>1, <3>2
  <2>2. QED
    BY <2>1 DEF MachinesInv
<1>10. WaitInv(s)'
  <2>1. ASSUME NEW j \in Gen, j # i
        PROVE  /\ rstate'[s][j] = "provisioning" => Provision(s, j) \in Asked(s)'
               /\ rstate'[s][j] = "destroying" => Destroy(s, j) \in Asked(s)'
    BY <1>2, <1>5, <1>8, <2>1 DEF WorkGoal, CoreInv, WaitInv
  <2>2. /\ rstate'[s][i] = "provisioning" => Provision(s, i) \in Asked(s)'
        /\ rstate'[s][i] = "destroying" => Destroy(s, i) \in Asked(s)'
    <3>1. ASSUME rstate'[s][i] = "provisioning" PROVE Provision(s, i) \in Asked(s)'
      <4>1. rstate[s][i] = "provisioning"
        BY <3>1 DEF WorkGoal
      <4>2. Provision(s, i) \in Asked(s)
        BY <1>5, <4>1 DEF CoreInv, WaitInv
      <4>3. CASE m = Provision(s, i)
        <5>1. m.task = "provision_range"
          BY <4>3 DEF Provision, Ask
        <5>2. m \in queue' \cup running'
          BY <3>1, <5>1 DEF WorkGoal
        <5>3. QED
          BY <4>3, <5>2 DEF Asked
      <4>4. QED
        BY <1>2, <4>2, <4>3
    <3>2. ASSUME rstate'[s][i] = "destroying" PROVE Destroy(s, i) \in Asked(s)'
      <4>1. rstate[s][i] = "destroying" /\ m.task # "destroy_range"
        BY <3>2 DEF WorkGoal
      <4>2. Destroy(s, i) \in Asked(s) /\ Destroy(s, i).task = "destroy_range"
        BY <1>5, <4>1 DEF CoreInv, WaitInv, Destroy, Ask
      <4>3. QED
        BY <1>2, <4>1, <4>2
    <3>3. QED
      BY <3>1, <3>2
  <2>3. QED
    BY <2>1, <2>2 DEF WaitInv
<1>11. CoreInv(s)'
  BY <1>3, <1>6, <1>7, <1>9, <1>10 DEF CoreInv
<1>12. QED
  BY <1>4, <1>11

\* While leftovers are looked for, and once a network went back, every range is destroyed: no
\* task brings machines.
LEMMA WorkSearch ==
  ASSUME TypeOK, \A t \in Session : CoreInv(t), NEW m \in queue \cup running, NEW s \in Session, m.lab = s,
         NEW i \in Gen, m.ids = {i}, m.task # "reconcile_lab_vms", WorkGoal(m, s, i),
         \A t \in Session : SearchInv(t) /\ BackInv(t)
  PROVE  \A t \in Session : SearchInv(t)' /\ BackInv(t)'
<1>1. m \in Task /\ i <= Current(s) /\ Current(s) \in Nat /\ i \in Nat /\ i > 0
  <2>1. m \in Task /\ m \in Asked(s)
    BY TypeParts DEF QueueType, Asked
  <2>2. CoreInv(s) /\ i > 0
    BY DEF Gen
  <2>3. QED
    BY <2>1, <2>2, LabFacts, GenFacts DEF CoreInv, TasksInv, Current
<1>2. ASSUME NEW t \in Session
      PROVE  /\ State(t)' = State(t) /\ Outbox(t)' = Outbox(t) /\ Search(t)' = Search(t) /\ Idle(t)' = Idle(t)
             /\ Search(t) \in queue => Search(t) \in queue'
  <2>1. Search(t) # m
    BY SearchType
  <2>2. QED
    BY <2>1 DEF State, Current, Outbox, Search, AllRanges, Idle, WorkGoal
<1>3. RangeOf(s) = "destroyed" =>
        rstate[s][i] = "destroyed" /\ RangeOf(s)' = "destroyed" /\ (Empty(s) => Empty(s)')
  <2>1. SUFFICES ASSUME RangeOf(s) = "destroyed"
                 PROVE  rstate[s][i] = "destroyed" /\ RangeOf(s)' = "destroyed" /\ (Empty(s) => Empty(s)')
    OBVIOUS
  <2>2. CoreInv(s) /\ Current(s) # 0 /\ rstate[s][Current(s)] = "destroyed"
    BY <2>1 DEF RangeOf
  <2>3. rstate[s][i] = "destroyed"
    <3>1. i = Current(s) \/ i < Current(s)
      BY <1>1
    <3>2. QED
      BY <2>2, <3>1 DEF CoreInv, RangesInv
  <2>4. rstate'[s][i] = "destroyed" /\ vms'[s][i] \subseteq vms[s][i]
    BY <2>3 DEF WorkGoal
  <2>5. \A j \in Gen : rstate[s][j] = "destroyed" => rstate'[s][j] = "destroyed"
    BY <2>4 DEF WorkGoal
  <2>6. Current(s) \in Gen /\ Current(s)' = Current(s)
    BY <2>2, OwnType DEF WorkGoal, Current
  <2>7. RangeOf(s)' = "destroyed"
    BY <2>2, <2>5, <2>6 DEF RangeOf
  <2>8. Empty(s) => Empty(s)'
    BY <2>4 DEF Empty, WorkGoal
  <2>9. QED
    BY <2>3, <2>7, <2>8
<1>4. SearchInv(s)'
  <2>1. SearchInv(s)
    OBVIOUS
  <2>2. lab' = lab /\ lease' = lease /\ flush' = flush
    BY DEF WorkGoal
  <2>3. QED
    BY <1>2, <1>3, <2>1, <2>2 DEF SearchInv
<1>5. BackInv(s)'
  <2>1. BackInv(s)
    OBVIOUS
  <2>2. RangeOf(s) # "none"
    <3>1. CoreInv(s) /\ Current(s) # 0
      BY <1>1
    <3>2. Current(s) \in Gen /\ Current(s) <= Current(s)
      <4>1. Current(s) \in Gen
        BY <3>1, OwnType
      <4>2. QED
        BY <1>1, <4>1
    <3>3. QED
      BY <3>1, <3>2 DEF CoreInv, RangesInv, RangeOf
  <2>3. QED
    BY <1>2, <1>3, <2>1, <2>2 DEF BackInv, WorkGoal
<1>6. ASSUME NEW t \in Session, t # s PROVE SearchInv(t)' /\ BackInv(t)'
  <2>1. SearchInv(t) /\ BackInv(t) /\ rstate'[t] = rstate[t] /\ vms'[t] = vms[t]
    BY <1>6 DEF WorkGoal
  <2>2. RangeOf(t)' = RangeOf(t) /\ Empty(t)' = Empty(t)
    BY <2>1 DEF RangeOf, Empty, Current, WorkGoal
  <2>3. QED
    BY <1>2, <2>1, <2>2, ZenonT(60) DEF SearchInv, BackInv, WorkGoal
<1>7. QED
  BY <1>4, <1>5, <1>6

\* Each task.
LEMMA TaskGoal ==
  ASSUME TypeOK, \A t \in Session : CoreInv(t), NEW m \in queue \cup running, NEW s \in Session, m.lab = s,
         NEW i \in Gen, m.ids = {i}, The(m) = i, m.task = "provision_range" => m = Provision(s, i),
         m \in running => m.task = "provision_range",
         \/ Skipped(m) \/ HeldBack(m) \/ BuildStarts(m) \/ Crash(m) \/ DestroyFails(m)
         \/ \E ok \in BOOLEAN : Destroys(m, ok) \/ Snapshots(m, ok) \/ Restores(m, ok) \/ BuildEnds(m, ok) \/ BuildFails(m, ok)
  PROVE  WorkGoal(m, s, i)
<1>1. /\ snap \in [Session -> SnapState] /\ rstate \in [Session -> [Gen -> RangeState]]
      /\ vms \in [Session -> [Gen -> SUBSET Machine]]
  BY TypeParts DEF PlaceType, RangeType
<1>2. /\ CoreInv(s) /\ StateOf(m) = rstate[s][i] /\ MachinesOf(m) = vms[s][i]
      /\ rstate[s][i] \in RangeState /\ vms[s][i] \in SUBSET Machine
  BY <1>1 DEF StateOf, MachinesOf
<1>3. /\ "building" \in vms[s][i] => Provision(s, i) \in running
      /\ rstate[s][i] = "destroyed" => vms[s][i] \subseteq {"left"} /\ Provision(s, i) \notin running
  BY <1>2 DEF CoreInv, MachinesInv
<1>4. Alone(m) => Provision(s, i) \notin running
  BY DEF Alone, Provision, Ask
<1>5. ASSUME NEW to \in RangeState, Recorded(m, to)
      PROVE  /\ rstate' \in [Session -> [Gen -> RangeState]] /\ \A t \in Session \ {s} : rstate'[t] = rstate[t]
             /\ \A j \in Gen \ {i} : rstate'[s][j] = rstate[s][j]
             /\ rstate'[s][i] = to
  <2>1. rstate' = [rstate EXCEPT ![s][i] = to]
    BY <1>5 DEF Recorded
  <2>2. /\ rstate' \in [Session -> [Gen -> RangeState]] /\ \A t \in Session \ {s} : rstate'[t] = rstate[t]
        /\ \A j \in Gen : rstate'[s][j] = IF j = i THEN to ELSE rstate[s][j]
    BY <2>1, SetRangeStep, ZenonT(60)
  <2>3. QED
    BY <2>2
<1>6. ASSUME NEW to \in SUBSET Machine, Machines(m, to)
      PROVE  /\ vms' \in [Session -> [Gen -> SUBSET Machine]] /\ \A t \in Session \ {s} : vms'[t] = vms[t]
             /\ \A j \in Gen \ {i} : vms'[s][j] = vms[s][j]
             /\ vms'[s][i] = to
  <2>1. vms' = [vms EXCEPT ![s][i] = to]
    BY <1>6 DEF Machines
  <2>2. /\ vms' \in [Session -> [Gen -> SUBSET Machine]] /\ \A t \in Session \ {s} : vms'[t] = vms[t]
        /\ \A j \in Gen : vms'[s][j] = IF j = i THEN to ELSE vms[s][j]
    BY <2>1, SetMachinesStep, ZenonT(60)
  <2>3. QED
    BY <2>2
<1>7. CASE Skipped(m)
  <2>1. /\ UNCHANGED <<lab, mode, net, home, snap, rstate, running, vms, lease, lapsed, flush>>
        /\ queue' = queue \ {m} /\ m \in queue /\ Alone(m)
        /\ \/ m.task = "provision_range" /\ rstate[s][i] # "provisioning"
           \/ m.task = "destroy_range" /\ rstate[s][i] # "destroying"
    BY <1>2, <1>7 DEF Skipped, Take, leases
  <2>2. QED
    BY <1>1, <1>2, <1>3, <2>1 DEF WorkGoal
<1>8. CASE HeldBack(m)
  <2>1. /\ UNCHANGED <<lab, mode, net, home, snap, running, vms, lease, lapsed, flush>>
        /\ queue' = queue \ {m} /\ m \in queue /\ rstate[s][i] = "provisioning" /\ Recorded(m, "created")
    BY <1>2, <1>8 DEF HeldBack, Take, leases
  <2>2. "created" \in RangeState
    BY DEF RangeState
  <2>3. QED
    BY <1>1, <1>2, <1>3, <1>5, <2>1, <2>2 DEF WorkGoal
<1>9. CASE BuildStarts(m)
  <2>1. /\ UNCHANGED <<lab, mode, net, home, snap, rstate, lease, lapsed, flush>>
        /\ queue' = queue \ {m} /\ running' = running \cup {m} /\ rstate[s][i] = "provisioning"
        /\ Machines(m, vms[s][i] \cup {"building"}) /\ m.task = "provision_range"
    BY <1>2, <1>9 DEF BuildStarts, Take, leases
  <2>2. vms[s][i] \cup {"building"} \in SUBSET Machine
    BY <1>2 DEF Machine
  <2>3. QED
    BY <1>1, <1>2, <1>6, <2>1, <2>2 DEF WorkGoal
<1>10. CASE Crash(m)
  <2>1. /\ UNCHANGED <<lab, mode, net, home, snap, rstate, lease, lapsed, flush>>
        /\ running' = running \ {m} /\ queue' = queue \cup {m} /\ m \in running
        /\ Machines(m, (vms[s][i] \ {"building"}) \cup {"left"})
    BY <1>2, <1>10 DEF Crash, leases
  <2>2. (vms[s][i] \ {"building"}) \cup {"left"} \in SUBSET Machine
    BY <1>2 DEF Machine
  <2>3. m = Provision(s, i) /\ m.task = "provision_range" /\ rstate[s][i] # "destroyed"
    BY <1>3, <2>1
  <2>4. QED
    BY <1>1, <1>2, <1>6, <2>1, <2>2, <2>3 DEF WorkGoal
<1>11. CASE DestroyFails(m)
  <2>1. /\ UNCHANGED <<lab, mode, net, home, snap, running, vms, lease, lapsed, flush>>
        /\ queue' = queue \ {m} /\ m \in queue /\ rstate[s][i] = "destroying" /\ Recorded(m, "failed")
        /\ m.task = "destroy_range"
    BY <1>2, <1>11 DEF DestroyFails, Take, leases
  <2>2. "failed" \in RangeState
    BY DEF RangeState
  <2>3. QED
    BY <1>1, <1>2, <1>3, <1>5, <2>1, <2>2 DEF WorkGoal
<1>12. ASSUME NEW ok \in BOOLEAN, Destroys(m, ok) PROVE WorkGoal(m, s, i)
  <2> DEFINE to == (vms[s][i] \ {"recorded"}) \cup (IF ok THEN {"left"} ELSE {})
  <2>1. /\ UNCHANGED <<lab, mode, net, home, snap, running, lease, lapsed, flush>>
        /\ queue' = queue \ {m} /\ m \in queue /\ Alone(m) /\ rstate[s][i] = "destroying" /\ Recorded(m, "destroyed")
        /\ Machines(m, to) /\ m.task = "destroy_range"
    BY <1>2, <1>12 DEF Destroys, Take, leases
  <2>2. to \in SUBSET Machine /\ "destroyed" \in RangeState
    BY <1>2 DEF Machine, RangeState
  <2>3. Provision(s, i) \notin running /\ "building" \notin vms[s][i]
    BY <1>3, <1>4, <2>1
  <2>4. to \subseteq {"left"}
    BY <1>2, <2>3 DEF Machine
  <2> HIDE DEF to
  <2>5. /\ rstate' \in [Session -> [Gen -> RangeState]] /\ \A t \in Session \ {s} : rstate'[t] = rstate[t]
        /\ \A j \in Gen \ {i} : rstate'[s][j] = rstate[s][j]
        /\ rstate'[s][i] = "destroyed"
    BY <1>5, <2>1, <2>2
  <2>6. /\ vms' \in [Session -> [Gen -> SUBSET Machine]] /\ \A t \in Session \ {s} : vms'[t] = vms[t]
        /\ \A j \in Gen \ {i} : vms'[s][j] = vms[s][j]
        /\ vms'[s][i] = to
    BY <1>6, <2>1, <2>2
  <2>7. QED
    BY <1>1, <2>1, <2>3, <2>4, <2>5, <2>6 DEF WorkGoal
<1>13. ASSUME NEW ok \in BOOLEAN, Snapshots(m, ok) PROVE WorkGoal(m, s, i)
  <2>1. /\ UNCHANGED <<lab, mode, net, home, rstate, running, vms, lease, lapsed, flush>>
        /\ queue' = queue \ {m} /\ m \in queue /\ m.task = "snapshot_range"
        /\ snap' = [snap EXCEPT ![s] = IF @ \notin {"creating", "failed"} THEN @ ELSE IF ok THEN "ready" ELSE "failed"]
    BY <1>2, <1>13 DEF Snapshots, Take, leases
  <2>2. snap' \in [Session -> SnapState]
    BY <1>1, <2>1 DEF SnapState
  <2>3. QED
    BY <1>1, <1>2, <1>3, <2>1, <2>2 DEF WorkGoal
<1>14. ASSUME NEW ok \in BOOLEAN, Restores(m, ok) PROVE WorkGoal(m, s, i)
  <2> DEFINE to == IF ok \/ rstate[s][i] \notin {"ready", "failed"} THEN rstate[s][i] ELSE "failed"
  <2>1. /\ UNCHANGED <<lab, mode, net, home, running, vms, lease, lapsed, flush>>
        /\ queue' = queue \ {m} /\ m \in queue /\ m.task = "restore_snapshot" /\ Recorded(m, to)
        /\ snap' = [snap EXCEPT ![s] = IF @ = "restoring" THEN "ready" ELSE @]
    BY <1>2, <1>14 DEF Restores, Take, leases
  <2>2. snap' \in [Session -> SnapState]
    BY <1>1, <2>1 DEF SnapState
  <2>3. to \in RangeState /\ (to = rstate[s][i] \/ (to = "failed" /\ rstate[s][i] # "destroyed"))
    BY <1>2 DEF RangeState
  <2> HIDE DEF to
  <2>4. QED
    BY <1>1, <1>2, <1>3, <1>5, <2>1, <2>2, <2>3 DEF WorkGoal
<1>15. ASSUME NEW ok \in BOOLEAN, BuildEnds(m, ok) \/ BuildFails(m, ok) PROVE WorkGoal(m, s, i)
  <2>1. PICK left \in SUBSET Machine :
          /\ UNCHANGED <<lab, mode, net, home, snap, queue, lease, lapsed, flush>>
          /\ m \in running /\ running' = running \ {m} /\ "building" \notin left
          /\ Machines(m, (vms[s][i] \ {"building"}) \cup left)
    <3>1. /\ (IF ok THEN {} ELSE {"recorded"}) \in SUBSET Machine /\ (IF ok THEN {} ELSE {"left"}) \in SUBSET Machine
          /\ "building" \notin (IF ok THEN {} ELSE {"recorded"}) /\ "building" \notin (IF ok THEN {} ELSE {"left"})
      BY DEF Machine
    <3>2. CASE BuildEnds(m, ok)
      BY <1>2, <3>1, <3>2 DEF BuildEnds, leases
    <3>3. CASE BuildFails(m, ok)
      BY <1>2, <3>1, <3>3 DEF BuildFails, leases
    <3>4. QED
      BY <1>15, <3>2, <3>3
  <2>2. PICK to \in RangeState : /\ Recorded(m, to)
                                 /\ \/ to = rstate[s][i] /\ to # "provisioning"
                                    \/ to \in {"ready", "failed"} /\ rstate[s][i] = "provisioning"
    <3>1. "ready" \in RangeState /\ "failed" \in RangeState
      BY DEF RangeState
    <3>2. \/ Recorded(m, IF rstate[s][i] = "provisioning" THEN "ready" ELSE rstate[s][i])
          \/ Recorded(m, IF rstate[s][i] = "provisioning" THEN "failed" ELSE rstate[s][i])
      BY <1>2, <1>15 DEF BuildEnds, BuildFails
    <3>3. CASE rstate[s][i] = "provisioning"
      BY <3>1, <3>2, <3>3
    <3>4. CASE rstate[s][i] # "provisioning"
      <4>1. Recorded(m, rstate[s][i])
        BY <3>2, <3>4
      <4>2. rstate[s][i] \in RangeState
        BY <1>2
      <4>3. WITNESS rstate[s][i] \in RangeState
      <4>4. QED
        BY <3>4, <4>1
    <3>5. QED
      BY <3>3, <3>4
  <2>3. (vms[s][i] \ {"building"}) \cup left \in SUBSET Machine
    BY <1>2
  <2>4. m = Provision(s, i) /\ m.task = "provision_range" /\ rstate[s][i] # "destroyed"
    BY <1>3, <2>1
  <2>5. /\ rstate' \in [Session -> [Gen -> RangeState]] /\ \A t \in Session \ {s} : rstate'[t] = rstate[t]
        /\ \A j \in Gen \ {i} : rstate'[s][j] = rstate[s][j]
        /\ rstate'[s][i] = to
    BY <1>5, <2>2
  <2>6. /\ vms' \in [Session -> [Gen -> SUBSET Machine]] /\ \A t \in Session \ {s} : vms'[t] = vms[t]
        /\ \A j \in Gen \ {i} : vms'[s][j] = vms[s][j]
        /\ "building" \notin vms'[s][i]
    BY <1>6, <2>1, <2>3
  <2>7. QED
    BY <1>1, <2>1, <2>2, <2>4, <2>5, <2>6 DEF WorkGoal
<1>16. QED
  BY <1>7, <1>8, <1>9, <1>10, <1>11, <1>12, <1>13, <1>14, <1>15

LEMMA ReconcileCore ==
  ASSUME TypeOK, \A t \in Session : CoreInv(t), NEW m \in queue, Reconciles(m) \/ ReconcileFails(m)
  PROVE  /\ TypeOK' /\ \A t \in Session : CoreInv(t)'
         /\ m \in Task /\ m.lab \in Session /\ m.task = "reconcile_lab_vms" /\ queue' = queue \ {m}
         /\ UNCHANGED <<lab, mode, net, home, snap, rstate, running, lease, lapsed, flush>>
         /\ \A t \in Session, j \in Gen : vms'[t][j] \subseteq vms[t][j]
         /\ Reconciles(m) => \A j \in Gen : j \in m.ids => vms'[m.lab][j] = vms[m.lab][j] \cap {"building"}
<1>1. m \in Task /\ m.lab \in Session
  BY TypeParts DEF QueueType, Task
<1>2. /\ UNCHANGED <<lab, mode, net, home, snap, rstate, running, lease, lapsed, flush>> /\ queue' = queue \ {m}
      /\ m.task = "reconcile_lab_vms"
  BY DEF Reconciles, ReconcileFails, Take, leases
<1>3. vms \in [Session -> [Gen -> SUBSET Machine]]
  BY TypeParts DEF RangeType
<1>4. /\ vms' \in [Session -> [Gen -> SUBSET Machine]]
      /\ \A t \in Session, j \in Gen : vms'[t][j] \subseteq vms[t][j]
      /\ Reconciles(m) => \A j \in Gen : j \in m.ids => vms'[m.lab][j] = vms[m.lab][j] \cap {"building"}
  <2>1. CASE Reconciles(m)
    <3> DEFINE now == [j \in Gen |-> IF j \in m.ids THEN vms[m.lab][j] \cap {"building"} ELSE vms[m.lab][j]]
    <3>1. vms' = [vms EXCEPT ![m.lab] = now]
      BY <2>1 DEF Reconciles
    <3>2. now \in [Gen -> SUBSET Machine] /\ \A j \in Gen : now[j] \subseteq vms[m.lab][j]
      BY <1>1, <1>3
    <3>3. \A j \in Gen : j \in m.ids => now[j] = vms[m.lab][j] \cap {"building"}
      OBVIOUS
    <3> HIDE DEF now
    <3>4. QED
      BY <1>1, <1>3, <3>1, <3>2, <3>3
  <2>2. CASE ReconcileFails(m) /\ ~Reconciles(m)
    BY <1>3, <2>2 DEF ReconcileFails
  <2>3. QED
    BY <2>1, <2>2
<1>5. TypeOK'
  <2>1. BudgetType'
    <3>1. Spend("reconcileFails") \/ UNCHANGED budget
      BY DEF Reconciles, ReconcileFails
    <3>2. QED
      BY <3>1, SpendType DEF Rare
  <2>2. LabType' /\ PlaceType' /\ RangeType' /\ LeaseType' /\ QueueType'
    BY <1>2, <1>4, TypeParts DEF LabType, PlaceType, RangeType, LeaseType, QueueType
  <2>3. QED
    BY <2>1, <2>2, TypePartsNext
<1>6. ASSUME NEW t \in Session PROVE CoreInv(t)'
  <2>1. CoreInv(t)
    OBVIOUS
  <2>2. /\ State(t)' = State(t) /\ Current(t)' = Current(t) /\ RangeOf(t)' = RangeOf(t) /\ Outbox(t)' = Outbox(t)
        /\ Asked(t)' \subseteq Asked(t) /\ Asked(t) \subseteq Asked(t)' \cup {m}
    BY <1>2 DEF State, Current, RangeOf, Outbox, Asked
  <2>3. \A j \in Gen : m # Provision(t, j) /\ m # Destroy(t, j)
    BY <1>2 DEF Provision, Destroy, Ask
  <2>4. TasksInv(t)' /\ RangesInv(t)' /\ UsedInv(t)'
    <3>1. TasksInv(t)'
      BY <1>2, <2>1, <2>2 DEF CoreInv, TasksInv
    <3>2. RangesInv(t)' /\ UsedInv(t)'
      BY <1>2, <1>4, <2>1, <2>2 DEF CoreInv, RangesInv, UsedInv
    <3>3. QED
      BY <3>1, <3>2
  <2>5. MachinesInv(t)'
    BY <1>2, <1>4, <2>1 DEF CoreInv, MachinesInv
  <2>6. WaitInv(t)'
    BY <1>2, <2>1, <2>2, <2>3 DEF CoreInv, WaitInv
  <2>7. QED
    BY <2>4, <2>5, <2>6 DEF CoreInv
<1>7. QED
  BY <1>1, <1>2, <1>4, <1>5, <1>6

\* The search empties the lab: nothing is being built in it.
LEMMA ReconcileSearch ==
  ASSUME TypeOK, \A t \in Session : CoreInv(t), NEW m \in queue, Reconciles(m),
         \A t \in Session : SearchInv(t) /\ BackInv(t)
  PROVE  \A t \in Session : SearchInv(t)' /\ BackInv(t)'
<1>1. /\ m \in Task /\ m.lab \in Session /\ queue' = queue \ {m}
      /\ UNCHANGED <<lab, mode, net, home, snap, rstate, running, lease, lapsed, flush>>
      /\ \A t \in Session, j \in Gen : vms'[t][j] \subseteq vms[t][j]
      /\ \A j \in Gen : j \in m.ids => vms'[m.lab][j] = vms[m.lab][j] \cap {"building"}
  BY ReconcileCore
<1>2. ASSUME NEW t \in Session PROVE SearchInv(t)' /\ BackInv(t)'
  <2>1. CoreInv(t) /\ SearchInv(t) /\ BackInv(t)
    OBVIOUS
  <2>2. /\ State(t)' = State(t) /\ RangeOf(t)' = RangeOf(t) /\ Outbox(t)' = Outbox(t) /\ Search(t)' = Search(t)
        /\ Idle(t)' = Idle(t) /\ lab'[t].grace = lab[t].grace
    BY <1>1 DEF State, Current, RangeOf, Outbox, Search, AllRanges, Idle
  <2>3. Empty(t) => Empty(t)'
    BY <1>1 DEF Empty
  <2>4. m = Search(t) /\ RangeOf(t) = "destroyed" => Empty(t)'
    <3>1. SUFFICES ASSUME m = Search(t), RangeOf(t) = "destroyed", NEW j \in Gen PROVE vms'[t][j] = {}
      BY DEF Empty
    <3>2. m.lab = t /\ (j \in m.ids <=> j <= Current(t))
      BY <3>1, SearchType
    <3>3. j \in Nat /\ Current(t) \in Nat /\ Current(t) # 0 /\ rstate[t][Current(t)] = "destroyed"
      BY <3>1, LabFacts, GenFacts DEF RangeOf, Current
    <3>4. CASE j <= Current(t)
      <4>1. j = Current(t) \/ j < Current(t)
        BY <3>3, <3>4
      <4>2. rstate[t][j] = "destroyed"
        BY <2>1, <3>3, <4>1 DEF CoreInv, RangesInv
      <4>3. vms[t][j] \subseteq {"left"}
        BY <2>1, <4>2 DEF CoreInv, MachinesInv
      <4>4. vms'[t][j] = vms[t][j] \cap {"building"}
        BY <1>1, <3>2, <3>4
      <4>5. QED
        BY <4>3, <4>4
    <3>5. CASE j > Current(t)
      <4>1. vms[t][j] = {}
        BY <2>1, <3>5 DEF CoreInv, RangesInv
      <4>2. QED
        BY <1>1, <4>1
    <3>6. QED
      BY <3>3, <3>4, <3>5
  <2>5. SearchInv(t)'
    <3>1. State(t) = "reconciling" => Empty(t)' \/ Search(t) \in Outbox(t) \cup queue'
      BY <1>1, <2>1, <2>3, <2>4 DEF SearchInv
    <3>2. QED
      BY <1>1, <2>1, <2>2, <2>3, <3>1 DEF SearchInv
  <2>6. BackInv(t)'
    BY <1>1, <2>1, <2>2, <2>3 DEF BackInv
  <2>7. QED
    BY <2>5, <2>6
<1>3. QED
  BY <1>2

\* A task of the worker, other than the search for leftovers.
LEMMA WorkStep ==
  ASSUME TypeOK, \A t \in Session : CoreInv(t), NEW m \in queue \cup running,
         \/ Skipped(m) \/ HeldBack(m) \/ BuildStarts(m) \/ Crash(m) \/ DestroyFails(m)
         \/ \E ok \in BOOLEAN : Destroys(m, ok) \/ Snapshots(m, ok) \/ Restores(m, ok) \/ BuildEnds(m, ok) \/ BuildFails(m, ok)
  PROVE  /\ TypeOK' /\ \A t \in Session : CoreInv(t)'
         /\ (\A t \in Session : SearchInv(t) /\ BackInv(t)) => \A t \in Session : SearchInv(t)' /\ BackInv(t)'
<1>1. m.task # "reconcile_lab_vms"
  <2>1. m \in running => m.task = "provision_range"
    <3>1. m \in running => m.lab \in Session
      BY TypeParts DEF QueueType, Task
    <3>2. QED
      BY <3>1 DEF CoreInv, TasksInv
  <2>2. QED
    BY <2>1 DEF Skipped, HeldBack, BuildStarts, Crash, DestroyFails, Destroys, Snapshots, Restores, BuildEnds, BuildFails
<1>2. PICK i \in Gen : /\ m.ids = {i} /\ The(m) = i /\ m \in Task /\ m.lab \in Session /\ i <= Current(m.lab)
                       /\ m.task = "provision_range" => m = Provision(m.lab, i)
                       /\ m \in running => m.task = "provision_range"
  BY <1>1, TaskRange
<1>3. PICK s \in Session : m.lab = s
  BY <1>2
<1>4. WorkGoal(m, s, i)
  BY <1>2, <1>3, TaskGoal
<1>5. \A t \in Session : CoreInv(t)'
  BY <1>1, <1>2, <1>3, <1>4, WorkCore
<1>6. (\A t \in Session : SearchInv(t) /\ BackInv(t)) => \A t \in Session : SearchInv(t)' /\ BackInv(t)'
  BY <1>1, <1>2, <1>3, <1>4, WorkSearch
<1>7. TypeOK'
  <2>1. BudgetType'
    <3>1. (\E f \in Rare : Spend(f)) \/ UNCHANGED budget
      BY DEF Skipped, HeldBack, BuildStarts, Crash, DestroyFails, Destroys, Snapshots, Restores, BuildEnds, BuildFails, SpendIf, Rare
    <3>2. CASE UNCHANGED budget
      BY <3>2, SpendType DEF Rare
    <3>3. ASSUME NEW f \in Rare, Spend(f) PROVE BudgetType'
      BY <3>3, SpendType
    <3>4. QED
      BY <3>1, <3>2, <3>3
  <2>2. LabType' /\ PlaceType' /\ RangeType' /\ LeaseType' /\ QueueType'
    BY <1>2, <1>4, TypeParts DEF WorkGoal, LabType, PlaceType, RangeType, LeaseType, QueueType
  <2>3. QED
    BY <2>1, <2>2, TypePartsNext
<1>8. QED
  BY <1>5, <1>6, <1>7

-----------------------------------------------------------------------------
(* The rare events.                                                        *)

LEMMA StepKinds ==
  ASSUME [Next]_vars
  PROVE  \/ UNCHANGED vars
         \/ \E p \in Process, s \in Session : Op(p, s) \/ Resend(p, s)
         \/ \E s \in Session : LeaseLapses(s) \/ GracePasses(s)
         \/ \E p \in Process, k \in 0 .. 4 : FlushOutbox(p, k) \/ Dies(p, k)
         \/ \E m \in queue : Reconciles(m) \/ ReconcileFails(m)
         \/ \E m \in queue \cup running :
              \/ Skipped(m) \/ HeldBack(m) \/ BuildStarts(m) \/ Crash(m) \/ DestroyFails(m)
              \/ \E ok \in BOOLEAN : \/ Destroys(m, ok) \/ Snapshots(m, ok) \/ Restores(m, ok)
                                     \/ BuildEnds(m, ok) \/ BuildFails(m, ok)
         \/ ReconcileAll
<1>1. ASSUME NEW s \in Session, Steps(s) \/ Timeouts(s) \/ Requests(s)
      PROVE  \E p \in Process : Op(p, s) \/ Resend(p, s)
  <2>1. CASE Steps(s)
    BY <2>1 DEF Steps, Op
  <2>2. CASE Timeouts(s)
    BY <2>2 DEF Timeouts, Op
  <2>3. CASE Requests(s)
    BY <2>3 DEF Requests, Op
  <2>4. QED
    BY <1>1, <2>1, <2>2, <2>3
<1>2. QED
  BY <1>1, Zenon DEF Next, Flushed, Works, Finishes

LEMMA Budgeted == ASSUME TypeOK, \A t \in Session : CoreInv(t), [Next]_vars PROVE (\E f \in Rare : Spend(f)) \/ UNCHANGED budget
<1>1. CASE UNCHANGED vars
  BY <1>1 DEF vars
<1>2. ASSUME NEW p \in Process, NEW s \in Session, Op(p, s) \/ Resend(p, s) PROVE (\E f \in Rare : Spend(f)) \/ UNCHANGED budget
  <2>1. CoreInv(s)
    OBVIOUS
  <2>2. CASE Op(p, s)
    BY <2>1, <2>2, OpStep
  <2>3. CASE Resend(p, s)
    BY <2>3 DEF Resend
  <2>4. QED
    BY <1>2, <2>2, <2>3
<1>3. ASSUME NEW s \in Session, LeaseLapses(s) \/ GracePasses(s) PROVE (\E f \in Rare : Spend(f)) \/ UNCHANGED budget
  BY <1>3 DEF LeaseLapses, GracePasses, SpendIf, Rare
<1>4. ASSUME NEW p \in Process, NEW k \in 0 .. 4, FlushOutbox(p, k) \/ Dies(p, k)
      PROVE  (\E f \in Rare : Spend(f)) \/ UNCHANGED budget
  BY <1>4 DEF FlushOutbox, Dies, SpendIf, Rare
<1>5. ASSUME NEW m \in queue, Reconciles(m) \/ ReconcileFails(m) PROVE (\E f \in Rare : Spend(f)) \/ UNCHANGED budget
  BY <1>5 DEF Reconciles, ReconcileFails, Rare
<1>6. ASSUME NEW m \in queue \cup running,
             \/ Skipped(m) \/ HeldBack(m) \/ BuildStarts(m) \/ Crash(m) \/ DestroyFails(m)
             \/ \E ok \in BOOLEAN : \/ Destroys(m, ok) \/ Snapshots(m, ok) \/ Restores(m, ok)
                                    \/ BuildEnds(m, ok) \/ BuildFails(m, ok)
      PROVE  (\E f \in Rare : Spend(f)) \/ UNCHANGED budget
  BY <1>6 DEF Skipped, HeldBack, BuildStarts, Crash, DestroyFails, Destroys, Snapshots, Restores, BuildEnds, BuildFails, SpendIf, Rare
<1>7. CASE ReconcileAll
  BY <1>7 DEF ReconcileAll, Rare
<1>8. QED
  BY <1>1, <1>2, <1>3, <1>4, <1>5, <1>6, <1>7, StepKinds

LEMMA BudgetFalls ==
  ASSUME TypeOK, WithinBudget, \A t \in Session : CoreInv(t), [Next]_vars
  PROVE  WithinBudget' /\ \A f \in Rare : Spent(f) => Spent(f)'
<1>1. budget \in [Rare -> Nat] /\ Budget \in [Rare -> Nat]
  BY LabsAssumption, TypeParts DEF BudgetType
<1>2. \A f \in Rare : budget'[f] \in Int /\ budget'[f] <= budget[f]
  <2>1. CASE UNCHANGED budget
    BY <1>1, <2>1
  <2>2. ASSUME NEW g \in Rare, Spend(g) PROVE \A f \in Rare : budget'[f] \in Int /\ budget'[f] <= budget[f]
    <3>1. budget' = [budget EXCEPT ![g] = @ - 1]
      BY <2>2 DEF Spend
    <3>2. QED
      BY <1>1, <3>1
  <2>3. QED
    BY <2>1, <2>2, Budgeted
<1>3. QED
  BY <1>1, <1>2 DEF WithinBudget, Spent

LEMMA SpendSpends ==
  ASSUME TypeOK, WithinBudget, NEW f \in Rare, Spend(f)
  PROVE  Spent(f)'
<1>1. budget \in [Rare -> Nat] /\ budget[f] <= Budget[f] /\ Budget[f] \in Nat
  BY LabsAssumption, TypeParts DEF BudgetType, WithinBudget
<1>2. budget'[f] = budget[f] - 1
  BY <1>1 DEF Spend
<1>3. QED
  BY <1>1, <1>2 DEF Spent

-----------------------------------------------------------------------------
(* The invariant.                                                          *)

LEMMA InitLabs == Init => LabsInv
<1>1. SUFFICES ASSUME Init PROVE LabsInv
  OBVIOUS
<1> DEFINE new == [state |-> "none", range |-> 0, pending |-> << >>, tries |-> 0, grace |-> FALSE]
<1>2. new \in Lab
  <2>1. 0 \in 0 .. Rebuilds /\ 0 \in 0 .. MaxTries /\ << >> \in Seq(Task)
    BY LabsAssumption
  <2>2. QED
    BY <2>1 DEF Lab
<1>3. TypeOK
  <2>1. LabType
    BY <1>1, <1>2 DEF Init, LabType
  <2>2. PlaceType /\ RangeType /\ LeaseType /\ QueueType /\ BudgetType
    BY <1>1, LabsAssumption DEF Init, PlaceType, RangeType, LeaseType, QueueType, BudgetType, SnapState, RangeState, Machine
  <2>3. QED
    BY <2>1, <2>2, TypeParts
<1>4. WithinBudget
  BY <1>1, LabsAssumption DEF Init, WithinBudget
<1>5. ASSUME NEW s \in Session PROVE CoreInv(s) /\ SearchInv(s) /\ BackInv(s)
  <2>1. /\ lab[s].state = "none" /\ lab[s].range = 0 /\ lab[s].pending = << >>
        /\ net[s] = home[s] /\ queue = {} /\ running = {}
        /\ \A i \in Gen : rstate[s][i] = "none" /\ vms[s][i] = {} /\ i \in Nat /\ i > 0
    BY <1>1 DEF Init, Gen
  <2>2. Asked(s) = {} /\ RangeOf(s) = "none" /\ State(s) = "none" /\ Current(s) = 0
    BY <2>1 DEF Asked, Outbox, RangeOf, State, Current
  <2>3. QED
    BY <2>1, <2>2 DEF CoreInv, TasksInv, RangesInv, UsedInv, MachinesInv, WaitInv, SearchInv, BackInv
<1>6. QED
  BY <1>3, <1>4, <1>5 DEF LabsInv

LEMMA NextCore ==
  ASSUME TypeOK, WithinBudget, \A t \in Session : CoreInv(t), [Next]_vars
  PROVE  /\ TypeOK' /\ \A t \in Session : CoreInv(t)'
         /\ (\A t \in Session : SearchInv(t) /\ BackInv(t)) =>
              \/ \A t \in Session : SearchInv(t)' /\ BackInv(t)'
              \/ Spend("late") \/ Spend("reconcileFails")
<1> DEFINE Kept1 == \A t \in Session : CoreInv(t)'
           Kept2 == (\A t \in Session : SearchInv(t) /\ BackInv(t)) =>
                      \/ \A t \in Session : SearchInv(t)' /\ BackInv(t)'
                      \/ Spend("late") \/ Spend("reconcileFails")
<1>1. ASSUME UNCHANGED vars PROVE TypeOK' /\ Kept1 /\ Kept2
  <2>1. /\ UNCHANGED <<lab, mode, net, home, snap, rstate, vms, lease, lapsed, flush, queue, running, budget>>
    BY <1>1 DEF vars
  <2>2. Kept1
    BY <2>1, SameCore
  <2>3. Kept2
    BY <2>1, SameSearch
  <2>4. TypeOK'
    <3>1. LabType' /\ PlaceType' /\ RangeType' /\ LeaseType' /\ QueueType' /\ BudgetType'
      BY <2>1, TypeParts DEF LabType, PlaceType, RangeType, LeaseType, QueueType, BudgetType
    <3>2. QED
      BY <3>1, TypePartsNext
  <2>5. QED
    BY <2>2, <2>3, <2>4
<1>2. ASSUME NEW p \in Process, NEW s \in Session, Op(p, s) PROVE TypeOK' /\ Kept1 /\ Kept2
  BY <1>2, OpCore, OpSearch
<1>3. ASSUME NEW p \in Process, NEW s \in Session, Resend(p, s) \/ LeaseLapses(s) PROVE TypeOK' /\ Kept1 /\ Kept2
  BY <1>3, ResendStep
<1>4. ASSUME NEW s \in Session, LeaseLapses(s) PROVE TypeOK' /\ Kept1 /\ Kept2
  <2>1. lease[s] \in Process
    BY <1>4, TypeParts DEF LeaseLapses, LeaseType
  <2>2. QED
    BY <1>3, <1>4, <2>1
<1>5. ASSUME NEW s \in Session, GracePasses(s) PROVE TypeOK' /\ Kept1 /\ Kept2
  <2>1. TypeOK' /\ Kept1
    BY <1>5, GraceCore
  <2>2. ~Spend("late") => Kept2
    BY <1>5, GraceSearch
  <2>3. QED
    BY <2>1, <2>2
<1>6. ASSUME NEW p \in Process, NEW k \in 0 .. 4, FlushOutbox(p, k) PROVE TypeOK' /\ Kept1 /\ Kept2
  BY <1>6, FlushCore, FlushSearch
<1>7. ASSUME NEW p \in Process, NEW k \in 0 .. 4, Dies(p, k) PROVE TypeOK' /\ Kept1 /\ Kept2
  BY <1>7, DiesStep
<1>8. ASSUME NEW m \in queue, Reconciles(m) \/ ReconcileFails(m) PROVE TypeOK' /\ Kept1 /\ Kept2
  <2>1. TypeOK' /\ Kept1
    BY <1>8, ReconcileCore
  <2>2. CASE Reconciles(m)
    BY <2>1, <2>2, ReconcileSearch
  <2>3. CASE ReconcileFails(m)
    BY <2>1, <2>3 DEF ReconcileFails
  <2>4. QED
    BY <1>8, <2>2, <2>3
<1>9. ASSUME NEW m \in queue \cup running,
             \/ Skipped(m) \/ HeldBack(m) \/ BuildStarts(m) \/ Crash(m) \/ DestroyFails(m)
             \/ \E ok \in BOOLEAN : \/ Destroys(m, ok) \/ Snapshots(m, ok) \/ Restores(m, ok)
                                    \/ BuildEnds(m, ok) \/ BuildFails(m, ok)
      PROVE  TypeOK' /\ Kept1 /\ Kept2
  BY <1>9, WorkStep
<1>10. ASSUME ReconcileAll PROVE TypeOK' /\ Kept1 /\ Kept2
  BY <1>10, ReconcileAllStep
<1> HIDE DEF Kept1, Kept2
<1>11. TypeOK' /\ Kept1 /\ Kept2
  BY <1>1, <1>2, <1>3, <1>4, <1>5, <1>6, <1>7, <1>8, <1>9, <1>10, StepKinds
<1>12. QED
  BY <1>11 DEF Kept1, Kept2

LEMMA NextLabs == LabsInv /\ [Next]_vars => LabsInv'
<1>1. SUFFICES ASSUME LabsInv, [Next]_vars PROVE LabsInv'
  OBVIOUS
<1>2. TypeOK /\ WithinBudget /\ \A t \in Session : CoreInv(t)
  BY <1>1 DEF LabsInv
<1>3. /\ TypeOK' /\ \A t \in Session : CoreInv(t)'
      /\ (\A t \in Session : SearchInv(t) /\ BackInv(t)) =>
           \/ \A t \in Session : SearchInv(t)' /\ BackInv(t)'
           \/ Spend("late") \/ Spend("reconcileFails")
  BY <1>1, <1>2, NextCore
<1>4. WithinBudget' /\ \A f \in Rare : Spent(f) => Spent(f)'
  BY <1>1, <1>2, BudgetFalls
<1>5. "late" \in Rare /\ "reconcileFails" \in Rare
  BY DEF Rare
<1>6. (Spend("late") => Spent("late")') /\ (Spend("reconcileFails") => Spent("reconcileFails")')
  BY <1>2, <1>5, SpendSpends
<1>7. Spent("late")' \/ Spent("reconcileFails")' \/ \A t \in Session : SearchInv(t)' /\ BackInv(t)'
  BY <1>1, <1>3, <1>4, <1>5, <1>6 DEF LabsInv
<1>8. QED
  BY <1>3, <1>4, <1>7 DEF LabsInv

-----------------------------------------------------------------------------
(* The networks.                                                           *)

\* What an operation does with its session's network: it keeps it; gives it back, and the lab is
\* gone; or builds a range on it, or on one no session has.
PlaceKept(s) == UNCHANGED <<net, home>> /\ lab'[s].range = lab[s].range
PlaceBack(s) == Releasing(s) /\ UNCHANGED home /\ lab'[s].state = "destroyed" /\ lab'[s].range = lab[s].range
PlaceTaken(s) == \E g \in PortGroup \cup {None} :
    /\ g \in FreeGroups \/ (g = net[s] /\ Current(s) # 0)
    /\ net' = [net EXCEPT ![s] = g] /\ home' = [home EXCEPT ![s] = g]

LEMMA SetStateKeeps ==
  ASSUME TypeOK, NEW s \in Session, NEW to, NEW tasks, SetState(s, to, tasks)
  PROVE  lab'[s].state = to /\ lab'[s].range = lab[s].range
<1>1. lab \in [Session -> Lab] /\ lab[s] \in Lab
  BY LabFacts
<1>2. QED
  BY <1>1 DEF SetState, Save, Lab

LEMMA FailPlace ==
  ASSUME TypeOK, NEW s \in Session, RangeOf(s) \notin {"none", "destroyed"}, Fail(s), UNCHANGED home
  PROVE  PlaceKept(s)
  BY SetStateKeeps DEF Fail, PlaceKept

LEMMA EndPlace ==
  ASSUME TypeOK, NEW s \in Session, NEW to, End(s, to), UNCHANGED home
  PROVE  PlaceKept(s) \/ PlaceBack(s)
<1>1. CASE Current(s) = 0
  BY <1>1, SetStateKeeps DEF End, PlaceBack
<1>2. CASE Current(s) # 0
  BY <1>2, SetStateKeeps DEF End, PlaceKept
<1>3. QED
  BY <1>1, <1>2

\* The steps of advance that only end in a failure, where there is a range to destroy.
LEMMA AdvancePlace ==
  ASSUME TypeOK, NEW s \in Session, NEW p \in Process, NEW late \in BOOLEAN, CoreInv(s),
         AdvanceProvisioning(p, s, late) \/ AdvanceBaselining(p, s, late) \/ AdvanceResetting(p, s, late)
  PROVE  PlaceKept(s)
<1>1. UNCHANGED home /\ RangeOf(s) \notin {"none", "destroyed"}
  BY DEF AdvanceProvisioning, AdvanceBaselining, AdvanceResetting, CoreInv, UsedInv
<1>2. CASE Fail(s)
  BY <1>1, <1>2, FailPlace
<1>3. CASE UNCHANGED net /\ \E to, tasks : SetState(s, to, tasks)
  BY <1>1, <1>3, SetStateKeeps DEF PlaceKept
<1>4. CASE UNCHANGED net /\ Save(s, [lab[s] EXCEPT !.tries = @ + 1, !.pending = @ \o <<Own("snapshot_range", s)>>])
  <2>1. lab \in [Session -> Lab] /\ lab[s] \in Lab
    BY LabFacts
  <2>2. QED
    BY <1>1, <1>4, <2>1 DEF Save, Lab, PlaceKept
<1>5. CASE AdvanceProvisioning(p, s, late)
  BY <1>2, <1>3, <1>5 DEF AdvanceProvisioning
<1>6. CASE AdvanceBaselining(p, s, late)
  BY <1>2, <1>3, <1>4, <1>6 DEF AdvanceBaselining
<1>7. CASE AdvanceResetting(p, s, late)
  BY <1>2, <1>3, <1>7 DEF AdvanceResetting
<1>8. QED
  BY <1>5, <1>6, <1>7

LEMMA StartPlace ==
  ASSUME NEW s \in Session, NEW g \in FreeGroups, Build(s, g, << >>)
  PROVE  PlaceTaken(s)
  BY DEF Build, PlaceTaken, FreeGroups

LEMMA RebuildPlace ==
  ASSUME TypeOK, NEW s \in Session, NEW p \in Process, NEW late \in BOOLEAN, CoreInv(s), AdvanceRebuild(p, s, late)
  PROVE  PlaceKept(s) \/ PlaceTaken(s)
<1>1. State(s) = "resetting"
  BY DEF AdvanceRebuild
<1>2. Current(s) # 0 /\ RangeOf(s) # "none"
  BY <1>1, HasRange
<1>3. CASE Gone(s) /\ Build(s, net[s], <<Own("reconcile_lab_vms", s)>>)
  BY <1>2, <1>3, TypeParts DEF Build, PlaceTaken, PlaceType
<1>4. CASE RangeOf(s) # "destroyed" /\ Fail(s) /\ UNCHANGED home
  BY <1>2, <1>4, FailPlace
<1>5. QED
  BY <1>3, <1>4 DEF AdvanceRebuild

LEMMA TeardownPlace ==
  ASSUME TypeOK, NEW s \in Session, NEW p \in Process, NEW late \in BOOLEAN, AdvanceTeardown(p, s, late)
  PROVE  PlaceKept(s)
<1>1. lab \in [Session -> Lab] /\ lab[s] \in Lab
  BY LabFacts
<1>2. UNCHANGED <<net, home>>
  BY DEF AdvanceTeardown
<1>3. CASE Save(s, [lab[s] EXCEPT !.state = "failed"])
  BY <1>1, <1>2, <1>3 DEF Save, Lab, PlaceKept
<1>4. CASE Save(s, [lab[s] EXCEPT !.state = "reconcile_required", !.tries = @ + 1,
                            !.pending = @ \o <<Own("reconcile_lab_vms", s), Own("destroy_range", s)>>])
  BY <1>1, <1>2, <1>4 DEF Save, Lab, PlaceKept
<1>5. QED
  BY <1>3, <1>4 DEF AdvanceTeardown

LEMMA OpPlace ==
  ASSUME TypeOK, NEW s \in Session, NEW p \in Process, CoreInv(s), Op(p, s)
  PROVE  State(s) # "destroyed" /\ (PlaceKept(s) \/ PlaceBack(s) \/ PlaceTaken(s))
<1>1. State(s) # "destroyed"
  BY DEF Op, Launch, AdvanceQueued, EndLab, QueueTimeout, AdvanceDestroyed, AdvanceEnded, Touch, Reset,
         AdvanceProvisioning, AdvanceBaselining, AdvanceResetting, AdvanceRebuild, AdvanceTeardown, Live, Ending
<1>2. CASE Launch(p, s) \/ AdvanceQueued(p, s)
  <2>1. CASE \E g \in FreeGroups : Build(s, g, << >>)
    BY <1>1, <2>1, StartPlace
  <2>2. CASE SetState(s, "queued", << >>) /\ UNCHANGED <<net, home>>
    BY <1>1, <2>2, SetStateKeeps DEF PlaceKept
  <2>3. QED
    BY <1>2, <2>1, <2>2 DEF Launch, AdvanceQueued, StartOrWait
<1>3. CASE EndLab(p, s, "completed") \/ EndLab(p, s, "expired") \/ QueueTimeout(p, s)
  BY <1>1, <1>3, EndPlace DEF EndLab, QueueTimeout
<1>4. CASE AdvanceDestroyed(p, s)
  BY <1>1, <1>4, SetStateKeeps DEF AdvanceDestroyed, PlaceKept, PlaceBack
<1>5. CASE AdvanceEnded(p, s) \/ Touch(p, s)
  BY <1>1, <1>5, SetStateKeeps DEF AdvanceEnded, Touch, PlaceKept
<1>6. CASE Reset(p, s)
  BY <1>1, <1>6, SetStateKeeps DEF Reset, PlaceKept
<1>7. QED
  BY <1>1, <1>2, <1>3, <1>4, <1>5, <1>6, AdvancePlace, RebuildPlace, TeardownPlace DEF Op

\* Only an operation on the session changes its state, or its range.
LEMMA StateMoves ==
  ASSUME TypeOK, \A s \in Session : CoreInv(s), [Next]_vars, NEW t \in Session
  PROVE  (lab'[t].state = lab[t].state /\ lab'[t].range = lab[t].range) \/ \E p \in Process : Op(p, t)
<1>1. CASE UNCHANGED lab
  BY <1>1
<1>2. ASSUME NEW p \in Process, NEW s \in Session, Op(p, s), s # t PROVE lab'[t] = lab[t]
  <2>1. CoreInv(s) /\ t \in Session \ {s}
    BY <1>2
  <2>2. OpGoal(s)
    BY <1>2, <2>1, OpStep
  <2>3. QED
    BY <2>1, <2>2 DEF OpGoal
<1>3. ASSUME NEW s \in Session, GracePasses(s) PROVE lab'[t].state = lab[t].state /\ lab'[t].range = lab[t].range
  BY <1>3, GraceCore
<1>4. ASSUME NEW p \in Process, NEW k \in 0 .. 4, FlushOutbox(p, k) PROVE lab'[t].state = lab[t].state /\ lab'[t].range = lab[t].range
  <2>1. PICK s \in Session : s = flush[p][1]
    BY <1>4, FlushOf DEF FlushOutbox
  <2>2. CASE lease[s] # p
    BY <1>4, <2>1, <2>2 DEF FlushOutbox
  <2>3. CASE lease[s] = p
    <3>1. CoreInv(s)
      OBVIOUS
    <3>2. lab'[s].state = lab[s].state /\ lab'[s].range = lab[s].range /\ \A u \in Session \ {s} : lab'[u] = lab[u]
      BY <1>4, <2>1, <2>3, <3>1, FlushStep
    <3>3. QED
      BY <3>2
  <2>4. QED
    BY <2>2, <2>3
<1>5. ASSUME NEW s \in Session, LeaseLapses(s) PROVE UNCHANGED lab
  BY <1>5 DEF LeaseLapses
<1>6. ASSUME NEW p \in Process, NEW s \in Session, Resend(p, s) PROVE UNCHANGED lab
  BY <1>6 DEF Resend
<1>7. ASSUME NEW p \in Process, NEW k \in 0 .. 4, Dies(p, k) PROVE UNCHANGED lab
  BY <1>7 DEF Dies
<1>8. ASSUME NEW m \in queue, Reconciles(m) \/ ReconcileFails(m) PROVE UNCHANGED lab
  BY <1>8 DEF Reconciles, ReconcileFails
<1>9. ASSUME NEW m \in queue \cup running,
             \/ Skipped(m) \/ HeldBack(m) \/ BuildStarts(m) \/ Crash(m) \/ DestroyFails(m)
             \/ \E ok \in BOOLEAN : \/ Destroys(m, ok) \/ Snapshots(m, ok) \/ Restores(m, ok)
                                    \/ BuildEnds(m, ok) \/ BuildFails(m, ok)
      PROVE  UNCHANGED lab
  BY <1>9 DEF Skipped, HeldBack, BuildStarts, Crash, DestroyFails, Destroys, Snapshots, Restores, BuildEnds, BuildFails
<1>10. CASE ReconcileAll
  BY <1>1, <1>10 DEF ReconcileAll
<1>11. CASE UNCHANGED vars
  BY <1>1, <1>11 DEF vars
<1>12. QED
  BY <1>1, <1>2, <1>3, <1>4, <1>5, <1>6, <1>7, <1>8, <1>9, <1>10, <1>11, StepKinds

LEMMA OpApart ==
  ASSUME TypeOK, NEW s \in Session, NEW p \in Process, \A t \in Session : CoreInv(t), PlacesInv, Op(p, s)
  PROVE  PlacesInv'
<1>1. CoreInv(s)
  OBVIOUS
<1>2. State(s) # "destroyed" /\ (PlaceKept(s) \/ PlaceBack(s) \/ PlaceTaken(s))
  BY <1>1, OpPlace
<1>3. \A t \in Session \ {s} : lab'[t] = lab[t]
  BY <1>1, OpStep DEF OpGoal
<1>4. net \in [Session -> PortGroup \cup {None}] /\ home \in [Session -> PortGroup \cup {None}] /\ None \notin PortGroup
  BY LabsAssumption, TypeParts DEF PlaceType
<1>5. CASE PlaceKept(s)
  BY <1>2, <1>3, <1>5 DEF PlaceKept, PlacesInv, State, Current
<1>6. CASE PlaceBack(s)
  BY <1>3, <1>4, <1>6 DEF PlaceBack, Releasing, PlacesInv, State, Current
<1>7. CASE PlaceTaken(s)
  <2>1. PICK g \in PortGroup \cup {None} : /\ g \in FreeGroups \/ (g = net[s] /\ Current(s) # 0)
                                          /\ net' = [net EXCEPT ![s] = g] /\ home' = [home EXCEPT ![s] = g]
    BY <1>7 DEF PlaceTaken
  <2>2. g # None /\ \A t \in Session \ {s} : net[t] # g
    BY <1>2, <1>4, <2>1 DEF FreeGroups, PlacesInv
  <2>3. /\ net'[s] = g /\ home'[s] = g
        /\ \A t \in Session \ {s} : net'[t] = net[t] /\ home'[t] = home[t] /\ lab'[t] = lab[t]
    BY <1>3, <1>4, <2>1
  <2>4. QED
    BY <2>2, <2>3 DEF PlacesInv, State, Current
<1>8. QED
  BY <1>2, <1>5, <1>6, <1>7

\* Only an operation on a session moves networks.
LEMMA NetMoves == ASSUME [Next]_vars PROVE UNCHANGED <<net, home>> \/ \E p \in Process, s \in Session : Op(p, s)
<1>1. CASE UNCHANGED vars
  BY <1>1 DEF vars
<1>2. ASSUME NEW s \in Session, NEW p \in Process, Resend(p, s) \/ LeaseLapses(s) \/ GracePasses(s) PROVE UNCHANGED <<net, home>>
  BY <1>2 DEF Resend, LeaseLapses, GracePasses
<1>3. ASSUME NEW s \in Session, LeaseLapses(s) \/ GracePasses(s) PROVE UNCHANGED <<net, home>>
  BY <1>3 DEF LeaseLapses, GracePasses
<1>4. ASSUME NEW p \in Process, NEW k \in 0 .. 4, FlushOutbox(p, k) \/ Dies(p, k) PROVE UNCHANGED <<net, home>>
  BY <1>4 DEF FlushOutbox, Dies
<1>5. ASSUME NEW m \in queue, Reconciles(m) \/ ReconcileFails(m) PROVE UNCHANGED <<net, home>>
  BY <1>5 DEF Reconciles, ReconcileFails
<1>6. ASSUME NEW m \in queue \cup running,
             \/ Skipped(m) \/ HeldBack(m) \/ BuildStarts(m) \/ Crash(m) \/ DestroyFails(m)
             \/ \E ok \in BOOLEAN : \/ Destroys(m, ok) \/ Snapshots(m, ok) \/ Restores(m, ok)
                                    \/ BuildEnds(m, ok) \/ BuildFails(m, ok)
      PROVE  UNCHANGED <<net, home>>
  BY <1>6 DEF Skipped, HeldBack, BuildStarts, Crash, DestroyFails, Destroys, Snapshots, Restores, BuildEnds, BuildFails
<1>7. CASE ReconcileAll
  BY <1>7 DEF ReconcileAll
<1>8. QED
  BY <1>1, <1>2, <1>3, <1>4, <1>5, <1>6, <1>7, StepKinds

LEMMA NextApart == LabsInv /\ PlacesInv /\ [Next]_vars => PlacesInv'
<1>1. SUFFICES ASSUME LabsInv, PlacesInv, [Next]_vars PROVE PlacesInv'
  OBVIOUS
<1>2. TypeOK /\ \A t \in Session : CoreInv(t)
  BY <1>1 DEF LabsInv
<1>3. CASE \E p \in Process, s \in Session : Op(p, s)
  BY <1>1, <1>2, <1>3, OpApart
<1>4. CASE UNCHANGED <<net, home>> /\ ~\E p \in Process, s \in Session : Op(p, s)
  <2>1. \A t \in Session : lab'[t].state = lab[t].state /\ lab'[t].range = lab[t].range
    BY <1>1, <1>2, <1>4, StateMoves
  <2>2. QED
    BY <1>1, <1>4, <2>1 DEF PlacesInv, State, Current
<1>5. QED
  BY <1>1, <1>3, <1>4, NetMoves

-----------------------------------------------------------------------------
(* The theorems.                                                           *)

\* The invariant holds in every reachable state, whatever fails and however the steps of the
\* processes, the sweep and the worker interleave.
THEOREM LabsInvariant == Spec => []LabsInv
<1>1. Init => LabsInv
  BY InitLabs
<1>2. LabsInv /\ [Next]_vars => LabsInv'
  BY NextLabs
<1>3. QED
  BY <1>1, <1>2, PTL DEF Spec

\* The session records, their outboxes, the ranges and what the broker holds keep their types.
THEOREM TypeCorrect == Spec => []TypeOK
<1>1. LabsInv => TypeOK
  BY DEF LabsInv
<1>2. QED
  BY <1>1, LabsInvariant, PTL

\* A range that waits for a build or for its end has the task on its session, with the broker
\* or at work: commit first, send after, keep what the broker refused (flush_outbox).
THEOREM TasksAreKept == Spec => []TasksAreNeverLost
<1>1. LabsInv => TasksAreNeverLost
  <2>1. SUFFICES ASSUME LabsInv PROVE TasksAreNeverLost
    OBVIOUS
  <2>2. SUFFICES ASSUME NEW s \in Session, NEW i \in Gen
                 PROVE  LET Has(name) == \E m \in queue \cup running \cup {lab[s].pending[k] : k \in DOMAIN lab[s].pending} :
                                            m = Ask(name, s, {i})
                        IN  /\ rstate[s][i] = "provisioning" => Has("provision_range")
                            /\ rstate[s][i] = "destroying" => Has("destroy_range")
    BY DEF TasksAreNeverLost
  <2>3. Asked(s) \subseteq queue \cup running \cup {lab[s].pending[k] : k \in DOMAIN lab[s].pending}
    BY DEF Asked, Outbox
  <2>4. WaitInv(s)
    BY <2>1 DEF LabsInv, CoreInv
  <2>5. QED
    BY <2>3, <2>4 DEF WaitInv, Provision, Destroy
<1>2. QED
  BY <1>1, LabsInvariant, PTL

\* A rebuilt lab's machines never stand beside those of its old range: _advance_resetting waits
\* for the old range's end.
THEOREM RebuildsStartEmpty == Spec => []RebuiltOnEmpty
<1>1. LabsInv => RebuiltOnEmpty
  <2>1. SUFFICES ASSUME LabsInv, NEW s \in Session, NEW i \in Gen, NEW j \in Gen, i < j, vms[s][j] # {}
                 PROVE  vms[s][i] \cap {"recorded", "building"} = {}
    BY DEF RebuiltOnEmpty
  <2>2. TypeOK /\ RangesInv(s) /\ MachinesInv(s)
    BY <2>1 DEF LabsInv, CoreInv
  <2>3. i \in Nat /\ j \in Nat /\ Current(s) \in Nat
    BY <2>2, LabFacts, GenFacts DEF Current
  <2>4. ~(j > Current(s))
    BY <2>1, <2>2 DEF RangesInv
  <2>5. rstate[s][i] = "destroyed"
    BY <2>1, <2>2, <2>3, <2>4 DEF RangesInv
  <2>6. vms[s][i] \subseteq {"left"}
    BY <2>2, <2>5 DEF MachinesInv
  <2>7. QED
    BY <2>6
<1>2. QED
  BY <1>1, LabsInvariant, PTL

\* A lab's machines stand on the lab's own network, unless the grace ended before the search for
\* leftovers was done, or the search failed (_advance_cleaning).
THEOREM NetworksStay == Spec => []NetworksKept
<1>1. LabsInv => NetworksKept
  BY DEF LabsInv, NetworksKept, NetworksAreOurs, BackInv, Empty
<1>2. QED
  BY <1>1, LabsInvariant, PTL

\* Two labs' machines are never on one network, under the same condition: a network goes to the
\* next lab out of the one pool all tenants share (_lease_networks), and only once it is back.
THEOREM LabsStandApart == Spec => []LabsApart
<1>1. Init => PlacesInv
  BY DEF Init, PlacesInv, Current
<1>2. LabsInv /\ PlacesInv /\ [Next]_vars => PlacesInv'
  BY NextApart
<1>3. LabsInv /\ PlacesInv => LabsApart
  <2>1. SUFFICES ASSUME LabsInv, PlacesInv, \A s \in Session : BackInv(s), NEW s \in Session, NEW t \in Session, s # t,
                        ~Empty(s), ~Empty(t)
                 PROVE  home[s] # home[t]
    BY DEF LabsInv, LabsApart, Empty
  <2>2. net[s] = home[s] /\ net[t] = home[t]
    BY <2>1 DEF BackInv
  <2>3. RangesInv(s)
    BY <2>1 DEF LabsInv, CoreInv
  <2>4. Current(s) # 0
    BY <2>1, <2>3 DEF RangesInv, Empty, Gen
  <2>5. QED
    BY <2>1, <2>2, <2>4 DEF PlacesInv
<1>4. QED
  BY <1>1, <1>2, <1>3, LabsInvariant, PTL DEF Spec
=============================================================================
