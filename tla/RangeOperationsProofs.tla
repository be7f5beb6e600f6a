------------------------ MODULE RangeOperationsProofs ------------------------
(***************************************************************************)
(* Proofs about RangeOperations, for any number of executions, operations, *)
(* retries and lease lengths.                                              *)
(***************************************************************************)
EXTENDS RangeOperations, TLAPS

-----------------------------------------------------------------------------
(* What the operators of RangeStates and RangeLease return.                *)

\* The action table of range_ops names states of the range.
LEMMA ActionStates ==
    \A a \in Action : /\ InProgress(a) \in RangeState
                      /\ Done(a) \in RangeState
                      /\ \A s : Outcome(a, s) \in {"succeeded", "failed"}
BY DEF Action, InProgress, Done, Outcome, RangeState

\* Every statement on the lease row (_claim_lease, _release_lease, _extend_lease, fence_lease)
\* leaves a lease row.
LEMMA LeaseTypes ==
    ASSUME NEW l \in LeaseRow
    PROVE  /\ NoLease \in LeaseRow
           /\ \A x \in Execution : Claimed(x) \in LeaseRow /\ Released(l, x) \in LeaseRow
           /\ \A late \in BOOLEAN : /\ Extended(l, LeaseTicks, late) \in LeaseRow
                                    /\ Extended(l, KeptTicks, late) \in LeaseRow
           /\ Fenced(l) \in LeaseRow
           /\ Reabandoned(l) \in LeaseRow
           /\ Aged(l) \in LeaseRow
<1>0. /\ LeaseTicks \in 0 .. KeptTicks /\ KeptTicks \in 0 .. KeptTicks
      /\ 0 \in 0 .. KeptTicks /\ 0 \in 0 .. ProofAge
    BY LeaseAssumption DEF LeaseAssumption, ProofAge
<1>1. NoLease \in LeaseRow
    BY <1>0, Zenon DEF LeaseRow, NoLease
<1>2. ASSUME NEW x \in Execution PROVE Claimed(x) \in LeaseRow
    BY <1>0, <1>1, Zenon DEF LeaseRow, Claimed
<1>3. ASSUME NEW x \in Execution PROVE Released(l, x) \in LeaseRow
    BY <1>1, Zenon DEF Released
<1>4. ASSUME NEW t \in {LeaseTicks, KeptTicks}, NEW late \in BOOLEAN
      PROVE  Extended(l, t, late) \in LeaseRow
  <2>1. (l.tomb /\ (l.moved \/ late \/ l.age = ProofAge \/ t > LeaseTicks)) \in BOOLEAN
    OBVIOUS
  <2>2. (IF t > l.ttl THEN t ELSE l.ttl) \in 0 .. KeptTicks
    BY <1>0 DEF LeaseRow
  <2> QED BY <2>1, <2>2, Zenon DEF LeaseRow, Extended
<1>5. Fenced(l) \in LeaseRow
    BY <1>0, Zenon DEF LeaseRow, Fenced
<1>6. Reabandoned(l) \in LeaseRow
  <2>1. (l.ttl > LeaseTicks) \in BOOLEAN
    OBVIOUS
  <2> QED BY <1>0, <2>1, Zenon DEF LeaseRow, Reabandoned
<1>7. Aged(l) \in LeaseRow
  <2>1. (IF l.ttl > 0 THEN l.ttl - 1 ELSE 0) \in 0 .. KeptTicks
    BY <1>0, LeaseAssumption DEF LeaseRow, LeaseAssumption
  <2>2. (IF l.tomb /\ l.age < ProofAge THEN l.age + 1 ELSE l.age) \in 0 .. ProofAge
    BY DEF LeaseRow, ProofAge
  <2> QED BY <2>1, <2>2, Zenon DEF LeaseRow, Aged
<1> QED BY <1>1, <1>2, <1>3, <1>4, <1>5, <1>6, <1>7

-----------------------------------------------------------------------------
(* Type correctness.                                                       *)

\* The parts of a message and of a bounded counter that the actions build.
LEMMA Bounds ==
    /\ 0 \in 0 .. MaxGen /\ 0 \in 0 .. MaxTries /\ 0 \in 0 .. MaxMissed /\ 0 \in 0 .. KeptTicks
    /\ KeptTicks \in 0 .. KeptTicks
    /\ Generation \subseteq 0 .. MaxGen
BY LeaseAssumption, OperationsAssumption
   DEF LeaseAssumption, OperationsAssumption, Generation

\* Settling operations from a range state leaves operations.
LEMMA SettledType ==
    ASSUME TypeOK, NEW s
    PROVE  Settled(s) \in [Generation -> Operation]
<1>1. ASSUME NEW g \in Generation, NEW st \in Status
      PROVE  [ops[g] EXCEPT !.status = st] \in Operation
  <2>1. ops[g] \in Operation
    BY DEF TypeOK
  <2> QED BY <2>1, Zenon DEF Operation
<1>2. \A g \in Generation : ops[g] \in Operation /\ ops[g].action \in Action
    BY DEF TypeOK, Operation
<1>3. \A g \in Generation : Outcome(ops[g].action, s) \in Status
    BY <1>2, ActionStates DEF Status
<1> QED BY <1>1, <1>2, <1>3 DEF Settled

\* A new message leaves a queue.
LEMMA PutType ==
    ASSUME NEW q \in [Message -> Nat], NEW a \in Action, NEW n \in 0 .. MaxTries
    PROVE  Put(q, a, n) \in [Message -> Nat]
<1>1. [act |-> a, tries |-> n] \in Message
    BY DEF Message
<1> QED BY <1>1 DEF Put

\* An initial state is well typed.
LEMMA TypeInit == Init => TypeOK
<1> SUFFICES ASSUME Init PROVE TypeOK
    OBVIOUS
<1>1. [action |-> "provision", status |-> "none", bypass |-> FALSE] \in Operation
    BY Zenon DEF Operation, Action, Status
<1>2. Idle \in Run
    BY Bounds, Zenon DEF Idle, Run, PC, Action
<1>3. lease \in LeaseRow
  <2>1. 0 \in 0 .. ProofAge
    BY DEF ProofAge
  <2> QED BY <2>1, Bounds, Zenon DEF Init, NoLease, LeaseRow
<1>4. window \in [open : BOOLEAN, start : 0 .. MaxGen]
    BY Bounds, Zenon DEF Init
<1>5. reader \in [at : {"idle", "range", "ops"}, st : RangeState, found : SUBSET Generation]
    BY DEF Init, RangeState
<1> QED BY <1>1, <1>2, <1>3, <1>4, <1>5, Bounds, OperationsAssumption
        DEF Init, TypeOK, OperationsAssumption, RangeState

\* A step of the API keeps the types.
LEMMA ApiType == ASSUME TypeOK, ApiNext PROVE TypeOK'
<1> USE DEF TypeOK, row, api, world
<1>0. Reconciled \in [Generation -> Operation]
    BY SettledType DEF Reconciled
<1>1. ASSUME NEW f \in Rare, Spend(f) PROVE budget' \in [Rare -> Nat]
    BY <1>1 DEF Spend
<1>2. \A g \in Generation, st \in Status : [Reconciled[g] EXCEPT !.status = st] \in Operation
  <2> SUFFICES ASSUME NEW g \in Generation, NEW st \in Status
               PROVE  [Reconciled[g] EXCEPT !.status = st] \in Operation
    OBVIOUS
  <2>1. Reconciled[g] \in Operation
    BY <1>0
  <2> QED BY <2>1, Zenon DEF Operation
<1>3. \A g \in Generation, st \in Status : [ops[g] EXCEPT !.status = st] \in Operation
  <2> SUFFICES ASSUME NEW g \in Generation, NEW st \in Status
               PROVE  [ops[g] EXCEPT !.status = st] \in Operation
    OBVIOUS
  <2>1. ops[g] \in Operation
    OBVIOUS
  <2> QED BY <2>1, Zenon DEF Operation
<1>4. \A g \in Generation : ops[g].action \in Action
    BY DEF Operation
<1>5. {"pending", "dispatched", "held", "superseded", "abandoned", "succeeded", "failed"} \subseteq Status
    BY DEF Status, InFlightStatus
<1>6. ASSUME NEW a \in Requests, NEW b \in BOOLEAN, Accept(a, b) PROVE TypeOK'
  <2>1. a \in Action
    BY OperationsAssumption DEF OperationsAssumption
  <2>2. [action |-> a, status |-> "pending", bypass |-> b] \in Operation
    BY <2>1, <1>5, Zenon DEF Operation
  <2>3. ops' \in [Generation -> Operation]
    BY <1>6, <1>0, <1>3, <1>5, <2>2 DEF Accept
  <2>4. gen' \in 0 .. MaxGen
    BY <1>6, OperationsAssumption DEF Accept, OperationsAssumption
  <2> QED BY <1>6, <2>1, <2>3, <2>4, ActionStates DEF Accept
<1>7. ASSUME NEW g \in Generation, Send(g) PROVE TypeOK'
  <2>1. queue' \in [Message -> Nat]
    BY <1>7, <1>4, PutType, Bounds DEF Send
  <2> QED BY <1>7, <2>1, Bounds DEF Send
<1>8. ASSUME NEW g \in Generation, Abandon(g) PROVE TypeOK'
  <2>1. ops' \in [Generation -> Operation]
    BY <1>8, <1>0, <1>2, <1>5 DEF Abandon
  <2>2. lease' \in LeaseRow
    BY <1>8, LeaseTypes DEF Abandon, FenceLease
  <2>3. rstate' \in RangeState /\ (marker' = FALSE \/ marker' = marker)
    BY <1>8 DEF Abandon, RangeState
  <2> QED BY <1>8, <2>1, <2>2, <2>3 DEF Abandon
<1>9. ASSUME NEW g \in Generation, RunDestroyWithBypass(g) PROVE TypeOK'
  <2> DEFINE st == IF ops[g].status = "held" THEN "pending" ELSE ops[g].status
             o == [ops[g] EXCEPT !.bypass = TRUE, !.status = st]
  <2>1. st \in Status
    BY <1>5 DEF Operation
  <2>2. ops[g] \in Operation
    OBVIOUS
  <2>3. ops' = [ops EXCEPT ![g] = o]
    BY <1>9, Zenon DEF RunDestroyWithBypass
  <2> HIDE DEF st
  <2>4. o \in Operation
    BY <2>1, <2>2, Zenon DEF Operation
  <2> HIDE DEF o
  <2>5. ops' \in [Generation -> Operation]
    BY <2>3, <2>4
  <2> QED BY <1>9, <2>5 DEF RunDestroyWithBypass
<1>10. CASE MarkSent
  <2>1. sending \in Generation
    BY <1>10, OperationsAssumption DEF MarkSent, Generation, OperationsAssumption
  <2>2. [ops[sending] EXCEPT !.status = "dispatched"] \in Operation
    BY <2>1, <1>3, <1>5
  <2> QED BY <1>10, <2>1, <2>2, Bounds DEF MarkSent
<1>11. CASE SenderDies
    BY <1>11, <1>1, Bounds DEF SenderDies, Rare
<1>12. CASE GetOperations
    BY <1>12, <1>0 DEF GetOperations
<1>13. CASE RacedGetRange
    BY <1>13, <1>1 DEF RacedGetRange, Rare
<1>14. CASE RacedGetOps
    BY <1>14 DEF RacedGetOps
<1>15. CASE RacedGetWrite
  <2>1. \A g \in Generation : Outcome(ops[g].action, reader.st) \in Status
    BY <1>4, <1>5, ActionStates
  <2>2. ops' \in [Generation -> Operation]
    BY <1>15, <2>1, <1>3 DEF RacedGetWrite
  <2>3. reader' \in [at : {"idle", "range", "ops"}, st : RangeState, found : SUBSET Generation]
    BY <1>15 DEF RacedGetWrite, RangeState
  <2> QED BY <1>15, <2>2, <2>3 DEF RacedGetWrite
<1>16. CASE ForceRelease
  <2>1. NoLease \in LeaseRow
    BY LeaseTypes
  <2>2. budget' \in [Rare -> Nat]
    BY <1>16, <1>1 DEF ForceRelease, Rare
  <2> QED BY <1>16, <1>0, <2>1, <2>2 DEF ForceRelease
<1>17. ASSUME NEW f \in BOOLEAN, AbandonRange(f) PROVE TypeOK'
    BY <1>17, <1>1 DEF AbandonRange, Rare, RangeState
<1>18. CASE DiscardUnbuilt
    BY <1>18 DEF DiscardUnbuilt, RangeState
<1>19. ASSUME NEW s \in 0 .. MaxGen, OpenWindow(s) PROVE TypeOK'
  <2>1. window' \in [open : BOOLEAN, start : 0 .. MaxGen]
    BY <1>19, Zenon DEF OpenWindow
  <2> QED BY <1>19, <1>1, <2>1 DEF OpenWindow, Rare
<1>20. CASE CloseWindow
  <2>1. window' \in [open : BOOLEAN, start : 0 .. MaxGen]
    BY <1>20, Bounds, Zenon DEF CloseWindow
  <2> QED BY <1>20, <2>1 DEF CloseWindow
<1>21. CASE AskRestore
    BY <1>21, <1>0 DEF AskRestore, RestoreAllowed
<1>22. CASE RacedAskRestore
    BY <1>22, <1>0, <1>1 DEF RacedAskRestore, RestoreAllowed, Rare
<1>23. CASE RacedWriteRestore
    BY <1>23 DEF RacedWriteRestore
<1> QED
    BY <1>6, <1>7, <1>8, <1>9, <1>10, <1>11, <1>12, <1>13, <1>14, <1>15, <1>16, <1>17, <1>18,
       <1>19, <1>20, <1>21, <1>22, <1>23 DEF ApiNext

\* What an execution reads of the lease and of its operation, and what is left when it is over.
LEMMA WorkerReads ==
    ASSUME TypeOK, NEW x \in Execution
    PROVE  /\ Obs(x) \in {"held", "abandoned", "lost"}
           /\ OwnOperation(x) \in 0 .. MaxGen
           /\ Idle \in Run
           /\ \A th \in BOOLEAN : Over(ex[x], th) \in Run
<1>1. Obs(x) \in {"held", "abandoned", "lost"}
    BY DEF Obs, Observe
<1>2. OwnOperation(x) \in 0 .. MaxGen
    BY Bounds DEF OwnOperation, TypeOK
<1>3. Idle \in Run
    BY Bounds, Zenon DEF Idle, Run, PC, Action
<1>4. ASSUME NEW th \in BOOLEAN PROVE Over(ex[x], th) \in Run
  <2>1. ex[x].job \in Action
    BY DEF TypeOK, Run
  <2>2. (IF th THEN KeptTicks ELSE 0) \in 0 .. KeptTicks
    BY Bounds
  <2> QED BY <1>3, <2>1, <2>2, Zenon DEF Over, Run
<1> QED BY <1>1, <1>2, <1>3, <1>4

\* A step of an execution keeps the types.
LEMMA WorkerType == ASSUME TypeOK, NEW x \in Execution, WorkerNext(x) PROVE TypeOK'
<1> USE DEF TypeOK, row, api, world
<1>1. ASSUME NEW f \in Rare, Spend(f) PROVE budget' \in [Rare -> Nat]
    BY <1>1 DEF Spend
<1>2. /\ ex[x] \in Run
      /\ ex[x].job \in Action /\ ex[x].tries \in 0 .. MaxTries /\ ex[x].task \in 0 .. MaxGen
      /\ ex[x].seen \in {"held", "abandoned", "lost"} /\ ex[x].missed \in 0 .. MaxMissed
      /\ ex[x].err \in {"none", "retry", "final", "soft", "fenced"}
      /\ ex[x].thread \in BOOLEAN /\ ex[x].made \in BOOLEAN
    BY DEF Run
<1>3. /\ Obs(x) \in {"held", "abandoned", "lost"} /\ OwnOperation(x) \in 0 .. MaxGen
      /\ Idle \in Run /\ \A th \in BOOLEAN : Over(ex[x], th) \in Run
    BY WorkerReads
<1>4. {"idle", "claimed", "entry", "holding", "run", "calling", "result", "failing",
       "discard", "leftover", "ending", "raised", "releasing"} \subseteq PC
    BY DEF PC
<1>5. ASSUME NEW m \in Message, ClaimLease(x, m) PROVE TypeOK'
  <2>1. m.act \in Action /\ m.tries \in 0 .. MaxTries
    BY DEF Message
  <2>2. [Idle EXCEPT !.pc = "claimed", !.job = m.act, !.tries = m.tries] \in Run
    BY <2>1, <1>3, <1>4, Zenon DEF Run, PC
  <2>3. lease' \in LeaseRow
    BY <1>5, LeaseTypes DEF ClaimLease
  <2>4. queue' \in [Message -> Nat]
    BY <1>5 DEF ClaimLease
  <2> QED BY <1>5, <2>2, <2>3, <2>4 DEF ClaimLease
<1>6. CASE ClaimCheck(x)
  <2>1. [ex[x] EXCEPT !.pc = "entry", !.task = gen] \in Run
    BY <1>2, Zenon DEF Run, PC
  <2>2. [ex[x] EXCEPT !.pc = "ending"] \in Run
    BY <1>2, Zenon DEF Run, PC
  <2> QED BY <1>6, <2>1, <2>2 DEF ClaimCheck
<1>7. CASE AtEntry(x)
  <2>1. [ex[x] EXCEPT !.pc = "holding", !.task = OwnOperation(x)] \in Run
    BY <1>2, <1>3, Zenon DEF Run, PC
  <2>2. [ex[x] EXCEPT !.pc = "run"] \in Run
    BY <1>2, Zenon DEF Run, PC
  <2> QED BY <1>7, <2>1, <2>2 DEF AtEntry
<1>8. ASSUME NEW op \in 0 .. MaxGen, AtEntryUnreadable(x, op) PROVE TypeOK'
  <2>1. [ex[x] EXCEPT !.pc = "holding", !.task = op] \in Run
    BY <1>2, Zenon DEF Run, PC
  <2>2. [ex[x] EXCEPT !.pc = "run"] \in Run
    BY <1>2, Zenon DEF Run, PC
  <2>3. budget' \in [Rare -> Nat]
    BY <1>8, <1>1 DEF AtEntryUnreadable, Rare
  <2> QED BY <1>8, <2>1, <2>2, <2>3 DEF AtEntryUnreadable
<1>9. CASE HoldOperation(x)
  <2> DEFINE g == ex[x].task
  <2>1. g \in Generation
    BY <1>9, <1>2, OperationsAssumption DEF HoldOperation, Generation, OperationsAssumption
  <2>2. (IF ops[g].status \in {"pending", "dispatched"} THEN "held" ELSE ops[g].status) \in Status
    BY <2>1 DEF Operation, Status, InFlightStatus
  <2>3. ops[g] \in Operation
    BY <2>1
  <2>4. [ops[g] EXCEPT !.status = IF @ \in {"pending", "dispatched"} THEN "held" ELSE @] \in Operation
    BY <2>2, <2>3, Zenon DEF Operation
  <2>5. ops' \in [Generation -> Operation]
    BY <1>9, <2>1, <2>4 DEF HoldOperation
  <2>6. [ex[x] EXCEPT !.pc = "ending"] \in Run
    BY <1>2, Zenon DEF Run, PC
  <2> QED BY <1>9, <2>5, <2>6 DEF HoldOperation
<1>10. CASE HoldRange(x)
  <2>1. [ex[x] EXCEPT !.pc = "raised", !.err = "fenced", !.seen = "lost"] \in Run
    BY <1>2, Zenon DEF Run, PC
  <2>2. [ex[x] EXCEPT !.pc = "ending", !.seen = Obs(x)] \in Run
    BY <1>2, <1>3, Zenon DEF Run, PC
  <2>3. rstate' \in RangeState /\ marker' \in BOOLEAN
    BY <1>10 DEF HoldRange, RangeState
  <2> QED BY <1>10, <2>1, <2>2, <2>3 DEF HoldRange
<1>11. ASSUME NEW e \in {"retry", "final"}, FailBeforeCall(x, e) PROVE TypeOK'
  <2>1. [ex[x] EXCEPT !.pc = "failing", !.err = e] \in Run
    BY <1>2, Zenon DEF Run, PC
  <2> QED BY <1>11, <2>1 DEF FailBeforeCall
<1>12. ASSUME NEW e \in {"retry", "final"}, CallFailed(x, e) PROVE TypeOK'
  <2>1. [ex[x] EXCEPT !.pc = "failing", !.thread = FALSE, !.err = e] \in Run
    BY <1>2, Zenon DEF Run, PC
  <2> QED BY <1>12, <2>1 DEF CallFailed
<1>13. CASE StartCall(x)
  <2>1. [ex[x] EXCEPT !.pc = "calling", !.thread = TRUE, !.seen = "held"] \in Run
    BY <1>2, Zenon DEF Run, PC
  <2>2. [ex[x] EXCEPT !.pc = "raised", !.err = "fenced", !.seen = Obs(x)] \in Run
    BY <1>2, <1>3, Zenon DEF Run, PC
  <2> QED BY <1>13, <2>1, <2>2 DEF StartCall
<1>14. CASE CallOk(x)
  <2>1. [ex[x] EXCEPT !.pc = "result", !.thread = FALSE, !.made = (ex[x].job = "provision")] \in Run
    BY <1>2, Zenon DEF Run, PC
  <2> QED BY <1>14, <2>1 DEF CallOk
<1>15. CASE CallRaised(x)
  <2>1. [ex[x] EXCEPT !.pc = "failing", !.err = "retry", !.seen = Obs(x)] \in Run
    BY <1>2, <1>3, Zenon DEF Run, PC
  <2>2. budget' \in [Rare -> Nat]
    BY <1>15, <1>1 DEF CallRaised, Rare
  <2> QED BY <1>15, <2>1, <2>2 DEF CallRaised
<1>16. CASE SoftLimit(x)
  <2>1. [ex[x] EXCEPT !.pc = "failing", !.err = "soft"] \in Run
    BY <1>2, Zenon DEF Run, PC
  <2>2. budget' \in [Rare -> Nat]
    BY <1>16, <1>1 DEF SoftLimit, Rare
  <2> QED BY <1>16, <2>1, <2>2 DEF SoftLimit
<1>17. CASE EndThread(x)
  <2>1. [ex[x] EXCEPT !.thread = FALSE, !.grace = 0] \in Run
    BY <1>2, Bounds, Zenon DEF Run
  <2> QED BY <1>17, <2>1 DEF EndThread
<1>18. CASE WriteOutcome(x)
  <2>1. [ex[x] EXCEPT !.pc = "ending", !.made = FALSE] \in Run
    BY <1>2, Zenon DEF Run, PC
  <2>2. rstate' \in RangeState /\ marker' \in BOOLEAN
    BY <1>18, <1>2, ActionStates DEF WriteOutcome, RangeState
  <2>3. verdict' \in [Generation -> SUBSET {"succeeded", "failed"}]
    <3>1. PICK o \in {"succeeded", "failed"} : verdict' = [verdict EXCEPT ![ex[x].task] = @ \cup {o}]
      BY <1>18, <1>2, ActionStates, Zenon DEF WriteOutcome
    <3>2. verdict \in [Generation -> SUBSET {"succeeded", "failed"}]
      OBVIOUS
    <3> QED BY <3>1, <3>2
  <2>4. vms' \in BOOLEAN /\ hv' \in BOOLEAN /\ lostBuild' \in BOOLEAN
    BY <1>18, Zenon DEF WriteOutcome
  <2> QED BY <1>18, <2>1, <2>2, <2>3, <2>4 DEF WriteOutcome
<1>19. CASE WriteRefused(x)
  <2>1. [ex[x] EXCEPT !.pc = "raised", !.err = "fenced", !.seen = "lost", !.made = FALSE] \in Run
    BY <1>2, Zenon DEF Run, PC
  <2>2. AfterRefusal(x) \in PC /\ (AfterRefusal(x) = "discard") \in BOOLEAN
    BY DEF AfterRefusal, PC
  <2>3. [ex[x] EXCEPT !.pc = AfterRefusal(x), !.seen = Obs(x),
                      !.thread = (AfterRefusal(x) = "discard")] \in Run
    BY <1>2, <1>3, <2>2, Zenon DEF Run
  <2>4. lostBuild' \in BOOLEAN
    BY <1>19, Zenon DEF WriteRefused
  <2> QED BY <1>19, <2>1, <2>3, <2>4 DEF WriteRefused
<1>20. CASE RecordFailure(x)
  <2> DEFINE e == IF Obs(x) = "lost" THEN "fenced" ELSE ex[x].err
  <2>1. e \in {"none", "retry", "final", "soft", "fenced"}
    BY <1>2
  <2>2. [ex[x] EXCEPT !.pc = "raised", !.seen = Obs(x), !.err = e] \in Run
    <3> HIDE DEF e
    <3> QED BY <1>2, <1>3, <2>1, Zenon DEF Run, PC
  <2>3. [ex[x] EXCEPT !.pc = "raised"] \in Run
    BY <1>2, Zenon DEF Run, PC
  <2>4. rstate' \in RangeState /\ marker' \in BOOLEAN
    BY <1>20 DEF RecordFailure, RangeState
  <2>5. verdict' \in [Generation -> SUBSET {"succeeded", "failed"}]
    BY <1>20 DEF RecordFailure
  <2> QED BY <1>20, <2>2, <2>3, <2>4, <2>5 DEF RecordFailure
<1>21. ASSUME NEW ok \in BOOLEAN, Discard(x, ok) PROVE TypeOK'
  <2>1. (IF ok THEN "ending" ELSE "leftover") \in PC /\ (~ok) \in BOOLEAN
    BY DEF PC
  <2>2. [ex[x] EXCEPT !.thread = FALSE, !.made = ~ok,
                      !.pc = IF ok THEN "ending" ELSE "leftover"] \in Run
    BY <1>2, <2>1, Zenon DEF Run
  <2> QED BY <1>21, <2>2 DEF Discard
<1>22. CASE RecordLeftover(x)
  <2>1. [ex[x] EXCEPT !.pc = "ending", !.made = FALSE] \in Run
    BY <1>2, Zenon DEF Run, PC
  <2>2. lostBuild' \in BOOLEAN
    BY <1>22, Zenon DEF RecordLeftover
  <2> QED BY <1>22, <2>1, <2>2 DEF RecordLeftover
<1>23. CASE End(x)
  <2>1. lostBuild' \in BOOLEAN
    BY <1>23, Zenon DEF End
  <2> QED BY <1>23, <1>3, <2>1, LeaseTypes DEF End
<1>24. CASE Raised(x)
  <2> DEFINE now == IF ex[x].err = "fenced" \/ ex[x].seen # "held" THEN ex[x].seen ELSE Obs(x)
             e == IF now = "held" THEN ex[x].err ELSE "fenced"
             r == [ex[x] EXCEPT !.pc = "releasing", !.seen = now, !.err = e]
  <2>1. now \in {"held", "abandoned", "lost"} /\ e \in {"none", "retry", "final", "soft", "fenced"}
    BY <1>2, <1>3
  <2>2. ex' = [ex EXCEPT ![x] = r]
    BY <1>24, Zenon DEF Raised
  <2> HIDE DEF now, e
  <2>3. r \in Run
    BY <1>2, <2>1, Zenon, ZenonT(60) DEF Run, PC
  <2> HIDE DEF r
  <2> QED BY <1>24, <2>2, <2>3 DEF Raised
<1>25. CASE ReleaseFailed(x)
  <2>1. queue' \in [Message -> Nat]
    BY <1>25, <1>2, PutType, OperationsAssumption DEF ReleaseFailed, OperationsAssumption
  <2>2. Over(ex[x], ex[x].thread) \in Run
    BY <1>2, <1>3
  <2> QED BY <1>25, <2>1, <2>2, LeaseTypes DEF ReleaseFailed
<1>26. CASE Keep(x)
  <2>1. Over(ex[x], ex[x].thread) \in Run
    BY <1>2, <1>3
  <2>2. lease' \in LeaseRow
    BY <1>26, LeaseTypes DEF Keep, KeptLease
  <2>3. lostBuild' \in BOOLEAN
    BY <1>26, Zenon DEF Keep
  <2> QED BY <1>26, <2>1, <2>2, <2>3 DEF Keep
<1>27. ASSUME NEW late \in BOOLEAN, Beat(x, late) PROVE TypeOK'
  <2>1. (IF Mine(x) THEN ex[x].seen ELSE Obs(x)) \in {"held", "abandoned", "lost"}
    BY <1>2, <1>3
  <2>2. [ex[x] EXCEPT !.missed = 0, !.seen = IF Mine(x) THEN ex[x].seen ELSE Obs(x)] \in Run
    BY <1>2, <2>1, Bounds, Zenon DEF Run
  <2>3. lease' \in LeaseRow
    BY <1>27, LeaseTypes DEF Beat
  <2> QED BY <1>27, <2>2, <2>3 DEF Beat
<1>28. CASE Crash(x)
  <2>1. queue' \in [Message -> Nat]
    BY <1>28, <1>2, PutType DEF Crash
  <2>2. budget' \in [Rare -> Nat]
    BY <1>28, <1>1 DEF Crash, Rare
  <2>3. lostBuild' \in BOOLEAN
    BY <1>28, Zenon DEF Crash
  <2> QED BY <1>28, <1>3, <2>1, <2>2, <2>3 DEF Crash
<1>29. CASE CallPartial(x)
  <2>1. [ex[x] EXCEPT !.pc = "result", !.thread = FALSE] \in Run
    BY <1>2, Zenon DEF Run, PC
  <2>2. budget' \in [Rare -> Nat]
    BY <1>29, <1>1 DEF CallPartial, Rare
  <2> QED BY <1>29, <2>1, <2>2 DEF CallPartial
<1>30. CASE WriteFails(x)
  <2>1. [ex[x] EXCEPT !.pc = "failing", !.err = "retry", !.made = FALSE] \in Run
    BY <1>2, Zenon DEF Run, PC
  <2>2. budget' \in [Rare -> Nat]
    BY <1>30, <1>1 DEF WriteFails, Rare
  <2>3. lostBuild' \in BOOLEAN
    BY <1>30, Zenon DEF WriteFails
  <2> QED BY <1>30, <2>1, <2>2, <2>3 DEF WriteFails
<1>31. CASE LeftoverLost(x)
  <2>1. [ex[x] EXCEPT !.pc = "ending", !.made = FALSE] \in Run
    BY <1>2, Zenon DEF Run, PC
  <2>2. budget' \in [Rare -> Nat]
    BY <1>31, <1>1 DEF LeftoverLost, Rare
  <2> QED BY <1>31, <2>1, <2>2 DEF LeftoverLost
<1> QED
    BY <1>5, <1>6, <1>7, <1>8, <1>9, <1>10, <1>11, <1>12, <1>13, <1>14, <1>15, <1>16, <1>17,
       <1>18, <1>19, <1>20, <1>21, <1>22, <1>23, <1>24, <1>25, <1>26, <1>27, <1>28, <1>29,
       <1>30, <1>31
    DEF WorkerNext

\* Deferring, retrying or losing a message keeps the types.
LEMMA BrokerType == ASSUME TypeOK, BrokerNext PROVE TypeOK'
<1> USE DEF TypeOK, row, api, world
<1> SUFFICES ASSUME NEW m \in Message, ClaimBlocked(m) \/ ClaimError(m) PROVE TypeOK'
    BY DEF BrokerNext
<1> DEFINE taken == [queue EXCEPT ![m] = @ - 1]
<1>0. m.act \in Action /\ m.tries \in 0 .. MaxTries
    BY DEF Message
<1>1. queue[m] > 0 => taken \in [Message -> Nat]
    OBVIOUS
<1>2. CASE ClaimBlocked(m)
  <2>1. taken \in [Message -> Nat] /\ queue' = IF rstate = InProgress(m.act) THEN Put(taken, m.act, 0) ELSE taken
    BY <1>1, <1>2 DEF ClaimBlocked
  <2>2. queue' \in [Message -> Nat]
    BY <1>0, <2>1, PutType, Bounds
  <2> QED BY <1>2, <2>2 DEF ClaimBlocked
<1>3. CASE ClaimError(m)
  <2>1. taken \in [Message -> Nat] /\ queue' = IF m.tries < MaxTries THEN Put(taken, m.act, m.tries + 1) ELSE taken
    BY <1>1, <1>3 DEF ClaimError
  <2>2. m.tries < MaxTries => m.tries + 1 \in 0 .. MaxTries
    BY <1>0, OperationsAssumption DEF OperationsAssumption
  <2>3. queue' \in [Message -> Nat]
    BY <1>0, <2>1, <2>2, PutType
  <2>4. budget' \in [Rare -> Nat]
    BY <1>3 DEF ClaimError, Spend, Rare
  <2> QED BY <1>3, <2>3, <2>4 DEF ClaimError
<1> QED BY <1>2, <1>3

\* A restore, a failed guest check and a heartbeat period keep the types.
LEMMA ClockType == ASSUME TypeOK, Restore \/ SetupFailed \/ Tick PROVE TypeOK'
<1> USE DEF TypeOK, row, api, world
<1>1. CASE SetupFailed
  <2>1. rstate' \in RangeState /\ marker' \in BOOLEAN
    BY <1>1, Zenon DEF SetupFailed, RangeState
  <2> QED BY <1>1, <2>1, Zenon DEF SetupFailed
<1>2. CASE Tick
  <2>1. ASSUME NEW x \in Execution
        PROVE  [ex[x] EXCEPT !.missed = IF Live(x) THEN @ + 1 ELSE @,
                             !.grace = IF @ > 0 THEN @ - 1 ELSE 0] \in Run
    <3>1. ex[x] \in Run
      OBVIOUS
    <3>2. ex[x].missed \in 0 .. MaxMissed /\ ex[x].grace \in 0 .. KeptTicks
      BY DEF Run
    <3>0. Live(x) => ex[x].missed < MaxMissed
      BY <1>2, Zenon DEF Tick
    <3>3. (IF Live(x) THEN ex[x].missed + 1 ELSE ex[x].missed) \in 0 .. MaxMissed
      BY <3>0, <3>2, OperationsAssumption DEF OperationsAssumption
    <3>4. (IF ex[x].grace > 0 THEN ex[x].grace - 1 ELSE 0) \in 0 .. KeptTicks
      BY <3>2, LeaseAssumption DEF LeaseAssumption
    <3> QED BY <3>1, <3>3, <3>4, Zenon DEF Run
  <2>2. ex' \in [Execution -> Run]
    BY <1>2, <2>1 DEF Tick
  <2>3. lease' \in LeaseRow
    BY <1>2, LeaseTypes DEF Tick
  <2> QED BY <1>2, <2>2, <2>3 DEF Tick
<1>3. CASE Restore
  <2>1. rstate' \in RangeState /\ marker' \in BOOLEAN /\ restore' \in {"none", "checked", "asked"}
    BY <1>3 DEF Restore, SnapshotStates, RangeState
  <2> QED BY <1>3, <2>1 DEF Restore
<1> QED BY <1>1, <1>2, <1>3

\* Every step keeps the types.
LEMMA TypeStep == ASSUME TypeOK, [Next]_vars PROVE TypeOK'
<1>1. CASE UNCHANGED vars
    BY <1>1 DEF TypeOK, vars, row, api, world
<1> QED BY <1>1, ApiType, WorkerType, BrokerType, ClockType DEF Next

\* The rows, the queue and the executions stay well formed whatever interleaves: in particular a
\* lease never outlasts KEPT_LEASE_SECONDS, retries stay below max_retries and no counter
\* leaves its range.
THEOREM TypeCorrect == Spec => []TypeOK
<1>1. Init => TypeOK
    BY TypeInit
<1>2. TypeOK /\ [Next]_vars => TypeOK'
    BY TypeStep
<1> QED BY <1>1, <1>2, PTL DEF Spec

-----------------------------------------------------------------------------
(* One request at a time.                                                  *)

\* OneRequest, made inductive: whatever is in flight is the newest operation, a sender works
\* on an operation that is still to be marked, and no request was raced.
RequestInv ==
    /\ TypeOK
    /\ reader.at = "idle" /\ budget["racedRead"] = Budget["racedRead"]
    /\ \A g \in Generation : InFlight(ops, g) => g = gen
    /\ \A a \in Action : rstate = InProgress(a) =>
          gen # 0 /\ InFlight(ops, gen) /\ ops[gen].action = a
    /\ sending # 0 => ops[sending].status \in {"pending", "held"}

\* No in-progress state settles an operation, and each stands for one action.
LEMMA InProgressStands ==
    \A a, b \in Action : /\ InProgress(a) # Done(b) /\ InProgress(a) \notin Outcomes(b)
                         /\ InProgress(a) \notin {"failed", "created", "destroyed"}
                         /\ InProgress(a) = InProgress(b) => a = b
BY DEF Action, InProgress, Done, Outcomes

\* reconcile closes dispatched operations only, and none while the range is in progress.
LEMMA ReconcileKeeps ==
    ASSUME RequestInv
    PROVE  /\ \A g \in Generation : /\ Reconciled[g].action = ops[g].action
                                    /\ InFlight(Reconciled, g) => InFlight(ops, g)
                                    /\ ops[g].status # "dispatched" => Reconciled[g] = ops[g]
           /\ (\E a \in Action : rstate = InProgress(a)) => Reconciled = ops
<1>1. \A g \in Generation : ops[g] \in Operation /\ ops[g].action \in Action
    BY DEF RequestInv, TypeOK, Operation
<1>2. ASSUME NEW g \in Generation
      PROVE  /\ Reconciled[g].action = ops[g].action
             /\ InFlight(Reconciled, g) => InFlight(ops, g)
             /\ ops[g].status # "dispatched" => Reconciled[g] = ops[g]
    BY <1>1 DEF Reconciled, Settled, Operation, InFlight, InFlightStatus
<1>3. ASSUME NEW a \in Action, rstate = InProgress(a) PROVE Reconciled = ops
  <2>1. \A g \in Generation : rstate \notin Outcomes(ops[g].action)
    BY <1>1, <1>3, InProgressStands
  <2> QED BY <2>1 DEF Reconciled, Settled, RequestInv, TypeOK
<1> QED BY <1>2, <1>3

\* The first reads of a request that other transactions interrupt.
Raced == RacedGetRange \/ RacedAskRestore

\* A step of the API keeps one request at a time.
LEMMA ApiRequest == ASSUME RequestInv, ApiNext, ~Raced, TypeOK' PROVE RequestInv'
<1> USE DEF RequestInv, row, api, world
<1>0. /\ gen \in 0 .. MaxGen /\ sending \in 0 .. MaxGen
      /\ gen # 0 => gen \in Generation
      /\ sending # 0 => sending \in Generation
    BY OperationsAssumption DEF TypeOK, Generation, OperationsAssumption
<1>1. \A g \in Generation : ops[g] \in Operation /\ ops[g].action \in Action
    BY DEF TypeOK, Operation
<1>2. ASSUME NEW a \in Requests, NEW b \in BOOLEAN, Accept(a, b) PROVE RequestInv'
  <2>1. a \in Action /\ gen + 1 \in Generation
    BY <1>2, <1>0, OperationsAssumption DEF Accept, OperationsAssumption, Generation
  <2>2. ops'[gen + 1] = [action |-> a, status |-> "pending", bypass |-> b]
    BY <1>2, <2>1 DEF Accept
  <2>3. ASSUME NEW g \in Generation, g # gen + 1 PROVE ~InFlight(ops', g)
    <3>1. CASE a = "destroy" /\ InFlight(Reconciled, g)
      <4>1. ops'[g] = [ops[g] EXCEPT !.status = "superseded"]
        BY <1>2, <2>3, <3>1 DEF Accept
      <4> QED BY <4>1, <1>1 DEF InFlight, InFlightStatus, Operation
    <3>2. CASE ~(a = "destroy" /\ InFlight(Reconciled, g))
      <4>1. ops'[g] = Reconciled[g]
        BY <1>2, <2>3, <3>2 DEF Accept
      <4>2. ~InFlight(Reconciled, g)
        BY <1>2, <3>2 DEF Accept, Check, NoneInFlight
      <4> QED BY <4>1, <4>2 DEF InFlight
    <3> QED BY <3>1, <3>2
  <2>4. InFlight(ops', gen + 1) /\ ops'[gen + 1].action = a
    BY <2>2 DEF InFlight, InFlightStatus
  <2>5. gen' = gen + 1 /\ rstate' = InProgress(a) /\ sending' = 0
    BY <1>2 DEF Accept
  <2>6. reader' = reader /\ budget' = budget
    BY <1>2 DEF Accept
  <2> QED BY <1>0, <2>1, <2>3, <2>4, <2>5, <2>6, InProgressStands
<1>3. ASSUME NEW g \in Generation, Send(g) PROVE RequestInv'
    BY <1>3 DEF Send
<1>4. ASSUME NEW g \in Generation, Abandon(g) PROVE RequestInv'
  <2>1. InFlight(ops, g) /\ g = gen
    BY <1>4, ReconcileKeeps DEF Abandon
  <2>2. ASSUME NEW h \in Generation PROVE ~InFlight(ops', h)
    <3>1. ops'[h].status = IF h = g THEN "abandoned" ELSE Reconciled[h].status
      BY <1>4, SettledType, <1>1 DEF Abandon, Reconciled, Operation
    <3> QED BY <3>1, <2>1, ReconcileKeeps DEF InFlight, InFlightStatus
  <2>3. \A a \in Action : rstate' # InProgress(a)
    BY <1>4, <2>1, InProgressStands DEF Abandon
  <2>4. sending # 0 => ops'[sending].status = ops[sending].status
    <3>1. sending # 0 => sending # g /\ sending \in Generation
      BY <1>4, <1>0 DEF Abandon
    <3> QED BY <1>4, <3>1, SettledType, ReconcileKeeps DEF Abandon, Reconciled
  <2> QED BY <1>4, <2>2, <2>3, <2>4 DEF Abandon
<1>5. ASSUME NEW g \in Generation, RunDestroyWithBypass(g) PROVE RequestInv'
  <2>1. \A h \in Generation : /\ ops'[h].action = ops[h].action
                              /\ InFlight(ops', h) <=> InFlight(ops, h)
                              /\ h # g => ops'[h] = ops[h]
    BY <1>5, <1>1 DEF RunDestroyWithBypass, InFlight, InFlightStatus, Operation, TypeOK
  <2>2. sending # g /\ UNCHANGED <<rstate, gen, sending, reader, budget>>
    BY <1>5 DEF RunDestroyWithBypass
  <2> QED BY <1>0, <2>1, <2>2
<1>6. CASE MarkSent
  <2>1. sending \in Generation /\ InFlight(ops, sending) /\ sending' = 0
    BY <1>6, <1>0 DEF MarkSent, InFlight, InFlightStatus
  <2>2. \A h \in Generation : /\ ops'[h].action = ops[h].action
                              /\ InFlight(ops', h) <=> InFlight(ops, h)
    BY <1>6, <1>1, <2>1 DEF MarkSent, InFlight, InFlightStatus, Operation, TypeOK
  <2> QED BY <1>6, <1>0, <2>1, <2>2 DEF MarkSent
<1>7. CASE SenderDies
    BY <1>7 DEF SenderDies, Spend, Rare, TypeOK
<1>8. CASE GetOperations \/ ForceRelease \/ AskRestore
  <2>1. ops' = Reconciled /\ UNCHANGED <<rstate, gen, sending, reader>>
    BY <1>8 DEF GetOperations, ForceRelease, AskRestore, RestoreAllowed
  <2>2. budget'["racedRead"] = budget["racedRead"]
    BY <1>8 DEF GetOperations, ForceRelease, AskRestore, Spend, Rare, TypeOK
  <2> QED BY <2>2, <1>0, <2>1, ReconcileKeeps DEF InFlight
<1>9. CASE RacedGetRange \/ RacedGetOps \/ RacedGetWrite \/ RacedAskRestore \/ RacedWriteRestore
    BY <1>9 DEF Raced, RacedGetOps, RacedGetWrite, RacedWriteRestore
<1>10. ASSUME NEW f \in BOOLEAN, AbandonRange(f) PROVE RequestInv'
    BY <1>10, InProgressStands DEF AbandonRange, Spend, Rare, TypeOK
<1>11. CASE DiscardUnbuilt
    BY <1>11, InProgressStands DEF DiscardUnbuilt
<1>12. ASSUME NEW s \in 0 .. MaxGen, OpenWindow(s) PROVE RequestInv'
    BY <1>12 DEF OpenWindow, Spend, Rare, TypeOK
<1>13. CASE CloseWindow
    BY <1>13 DEF CloseWindow
<1> QED
    BY <1>2, <1>3, <1>4, <1>5, <1>6, <1>7, <1>8, <1>9, <1>10, <1>11, <1>12, <1>13 DEF ApiNext

\* A step of a worker, the broker or the clock touches operations only to hold one, and moves
\* the range only out of its in-progress state.
LEMMA WorkerRequest ==
    ASSUME RequestInv, TypeOK',
           BrokerNext \/ (\E x \in Execution : WorkerNext(x)) \/ Restore \/ SetupFailed \/ Tick
    PROVE  RequestInv'
<1> USE DEF RequestInv, row, api, world
<1>0. /\ gen # 0 => gen \in Generation
      /\ sending # 0 => sending \in Generation
    BY OperationsAssumption DEF TypeOK, Generation, OperationsAssumption
<1>1. ASSUME UNCHANGED <<ops, gen, sending, reader>>, budget'["racedRead"] = budget["racedRead"],
             rstate' = rstate \/ \A a \in Action : rstate' # InProgress(a)
      PROVE  RequestInv'
    BY <1>1
<1>2. ASSUME NEW f \in Rare, f # "racedRead", Spend(f) PROVE budget'["racedRead"] = budget["racedRead"]
    BY <1>2 DEF Spend, TypeOK, Rare
<1>3. CASE BrokerNext
    BY <1>1, <1>2, <1>3 DEF BrokerNext, ClaimBlocked, ClaimError, Rare
<1>4. CASE Restore \/ SetupFailed \/ Tick
  <2>1. CASE Restore
    <3>1. rstate' = rstate \/ \A a \in Action : rstate' # InProgress(a)
      BY <2>1 DEF Restore, SnapshotStates, Action, InProgress
    <3> QED BY <1>1, <2>1, <3>1 DEF Restore
  <2> QED BY <1>1, <1>4, <2>1, InProgressStands DEF SetupFailed, Tick
<1>5. ASSUME NEW x \in Execution, WorkerNext(x) PROVE RequestInv'
  <2>0. ex[x].job \in Action /\ ex[x].task \in 0 .. MaxGen
    BY DEF TypeOK, Run
  <2>1. CASE HoldOperation(x)
    <3> DEFINE t == ex[x].task
    <3>1. t \in Generation /\ t # sending /\ ops[t] \in Operation
      BY <2>0, <2>1, OperationsAssumption DEF HoldOperation, Generation, TypeOK, OperationsAssumption
    <3>2. \A h \in Generation : /\ ops'[h].action = ops[h].action
                                /\ InFlight(ops', h) <=> InFlight(ops, h)
                                /\ h # t => ops'[h] = ops[h]
      BY <2>1, <3>1 DEF HoldOperation, InFlight, InFlightStatus, Operation, TypeOK
    <3>3. UNCHANGED <<rstate, gen, sending, reader, budget>>
      BY <2>1 DEF HoldOperation
    <3> QED BY <1>0, <3>1, <3>2, <3>3
  <2>2. CASE HoldRange(x)
    BY <1>1, <2>2, InProgressStands DEF HoldRange
  <2>3. CASE WriteOutcome(x)
    BY <1>1, <2>0, <2>3, InProgressStands DEF WriteOutcome
  <2>4. CASE RecordFailure(x)
    BY <1>1, <2>4, InProgressStands DEF RecordFailure
  <2>5. CASE (\E op \in 0 .. MaxGen : AtEntryUnreadable(x, op)) \/ CallPartial(x) \/ CallRaised(x)
               \/ SoftLimit(x) \/ WriteFails(x) \/ LeftoverLost(x) \/ Crash(x)
    BY <1>1, <1>2, <2>5 DEF AtEntryUnreadable, CallPartial, CallRaised, SoftLimit, WriteFails,
                            LeftoverLost, Crash, Rare
  <2>6. CASE ClaimCheck(x) \/ AtEntry(x) \/ StartCall(x) \/ CallOk(x) \/ EndThread(x)
               \/ (\E m \in Message : ClaimLease(x, m))
               \/ (\E e \in {"retry", "final"} : FailBeforeCall(x, e) \/ CallFailed(x, e))
    BY <1>1, <2>6 DEF ClaimCheck, AtEntry, StartCall, CallOk, EndThread, ClaimLease,
                      FailBeforeCall, CallFailed
  <2>7. CASE WriteRefused(x) \/ RecordLeftover(x) \/ End(x) \/ Raised(x) \/ ReleaseFailed(x)
               \/ Keep(x) \/ (\E ok \in BOOLEAN : Discard(x, ok))
               \/ (\E late \in BOOLEAN : Beat(x, late))
    BY <1>1, <2>7 DEF WriteRefused, RecordLeftover, End, Raised, ReleaseFailed, Keep, Discard, Beat
  <2> QED BY <1>5, <2>1, <2>2, <2>3, <2>4, <2>5, <2>6, <2>7 DEF WorkerNext
<1> QED BY <1>3, <1>4, <1>5

\* An initial state satisfies it ...
LEMMA RequestInit == ASSUME Init PROVE RequestInv
<1>1. \A g \in Generation : ~InFlight(ops, g)
  BY DEF Init, InFlight, InFlightStatus
<1> QED BY <1>1, TypeInit, InProgressStands DEF Init, RequestInv

\* ... and every step keeps it, but the first read of a raced request.
LEMMA RequestStep == ASSUME RequestInv, [Next]_vars, ~Raced PROVE RequestInv'
<1>1. TypeOK'
  BY TypeStep DEF RequestInv
<1>2. CASE UNCHANGED vars
  BY <1>1, <1>2 DEF RequestInv, vars, row, api, world, InFlight
<1> QED BY <1>1, <1>2, ApiRequest, WorkerRequest DEF Next

\* Where no raced request is allowed, there is none.
LEMMA NeverRaced == ASSUME RequestInv, Budget["racedRead"] = 0 PROVE ~Raced
BY DEF RequestInv, Raced, RacedGetRange, RacedAskRestore, Spend

\* A rare event that has happened has happened.
LEMMA BudgetFalls == ASSUME TypeOK, [Next]_vars, NEW f \in Rare PROVE budget'[f] <= budget[f]
<1> USE DEF row, api, world
<1>0. budget \in [Rare -> Nat]
    BY DEF TypeOK
<1>1. ASSUME NEW e \in Rare, Spend(e) PROVE budget'[f] <= budget[f]
    BY <1>0, <1>1 DEF Spend
<1>2. CASE budget' = budget
    BY <1>0, <1>2
<1>3. CASE ApiNext
    BY <1>1, <1>2, <1>3 DEF ApiNext, Accept, Send, Abandon, RunDestroyWithBypass, MarkSent, SenderDies,
       GetOperations, RacedGetRange, RacedGetOps, RacedGetWrite, ForceRelease, AskRestore,
       RacedAskRestore, RacedWriteRestore, AbandonRange, DiscardUnbuilt, OpenWindow, CloseWindow, Rare
<1>4. CASE BrokerNext \/ Restore \/ SetupFailed \/ Tick
    BY <1>1, <1>2, <1>4 DEF BrokerNext, ClaimBlocked, ClaimError, Restore, SetupFailed, Tick, Rare
<1>5. ASSUME NEW x \in Execution, WorkerNext(x) PROVE budget'[f] <= budget[f]
    BY <1>1, <1>2, <1>5 DEF WorkerNext, ClaimLease, ClaimCheck, AtEntry, AtEntryUnreadable, HoldOperation,
       HoldRange, FailBeforeCall, CallFailed, StartCall, CallOk, CallPartial, CallRaised, SoftLimit,
       EndThread, WriteOutcome, WriteRefused, WriteFails, RecordFailure, Discard, RecordLeftover,
       LeftoverLost, End, Raised, ReleaseFailed, Keep, Beat, Crash, Rare
<1>6. CASE UNCHANGED vars
    BY <1>2, <1>6 DEF vars
<1> QED BY <1>3, <1>4, <1>5, <1>6 DEF Next

\* What has been spent stays spent.
LEMMA SpentStays == ASSUME TypeOK, [Next]_vars, NEW f \in Rare, Spent(f) PROVE Spent(f)'
<1>1. budget'[f] <= budget[f]
    BY BudgetFalls
<1>2. budget[f] \in Nat /\ budget'[f] \in Nat /\ Budget[f] \in Nat
    BY TypeStep, OperationsAssumption DEF TypeOK, OperationsAssumption
<1> QED BY <1>1, <1>2 DEF Spent

\* No rare event happens more often than the budget allows.
BudgetInv == \A f \in Rare : budget[f] <= Budget[f]

LEMMA BudgetStep == ASSUME TypeOK, BudgetInv, [Next]_vars PROVE BudgetInv'
<1> SUFFICES ASSUME NEW f \in Rare PROVE budget'[f] <= Budget[f]
  BY DEF BudgetInv
<1>1. budget'[f] <= budget[f] /\ budget[f] <= Budget[f]
  BY BudgetFalls DEF BudgetInv
<1>2. budget[f] \in Nat /\ budget'[f] \in Nat /\ Budget[f] \in Nat
  BY TypeStep, OperationsAssumption DEF TypeOK, OperationsAssumption
<1> QED BY <1>1, <1>2

\* An event that happens is spent.
LEMMA SpendSpends == ASSUME TypeOK, BudgetInv, NEW f \in Rare, Spend(f) PROVE Spent(f)'
<1>1. budget[f] \in Nat /\ Budget[f] \in Nat /\ budget[f] <= Budget[f] /\ budget \in [Rare -> Nat]
  BY OperationsAssumption DEF TypeOK, BudgetInv, OperationsAssumption
<1>2. budget'[f] = budget[f] - 1
  BY <1>1 DEF Spend
<1> QED BY <1>1, <1>2 DEF Spent

\* Whatever crashes, is retried, redelivered, abandoned, written off or held, a range never has
\* two operations in flight, and never waits in an in-progress state for an operation that is
\* over, until a request is raced (accept, dispatch, reconcile, abandon, the maintenance hold and the
\* workers' guarded writes; the GET handlers take no lock).
THEOREM OneRequestUntilRaced == Spec => []OneRequestUnlessRaced
<1> DEFINE Inv == TypeOK /\ (RequestInv \/ Spent("racedRead"))
<1>1. Init => Inv
    BY RequestInit DEF RequestInv
<1>2. Inv /\ [Next]_vars => Inv'
  <2> SUFFICES ASSUME Inv, [Next]_vars PROVE Inv'
    OBVIOUS
  <2>1. TypeOK'
    BY TypeStep
  <2>2. CASE Spent("racedRead")
    BY <2>1, <2>2, SpentStays DEF Rare
  <2>3. CASE RequestInv /\ ~Raced
    BY <2>1, <2>3, RequestStep
  <2>4. CASE RequestInv /\ Raced
    <3>1. budget'["racedRead"] = budget["racedRead"] - 1 /\ budget["racedRead"] \in Nat
      BY <2>4 DEF Raced, RacedGetRange, RacedAskRestore, Spend, TypeOK, Rare
    <3> QED BY <2>1, <2>4, <3>1 DEF RequestInv, Spent
  <2> QED BY <2>2, <2>3, <2>4
<1>3. Inv => OneRequestUnlessRaced
    BY DEF RequestInv, OneRequest, OneRequestUnlessRaced
<1> QED BY <1>1, <1>2, <1>3, PTL DEF Spec

\* Where no request is raced (Budget["racedRead"] = 0) it is so always.
THEOREM OneRequestHolds ==
    ASSUME Budget["racedRead"] = 0
    PROVE  Spec => []OneRequest
<1>1. Init => RequestInv
    BY RequestInit
<1>2. RequestInv /\ [Next]_vars => RequestInv'
    BY RequestStep, NeverRaced
<1>3. RequestInv => OneRequest
    BY DEF RequestInv, OneRequest
<1> QED BY <1>1, <1>2, <1>3, PTL DEF Spec

-----------------------------------------------------------------------------
(* Clients see a ledger of requests.                                       *)

\* RequestInv, and the operations that exist are those up to the newest.
LedgerInv ==
    /\ RequestInv
    /\ \A g \in Generation : ops[g].status = "none" <=> g > gen

\* A step that enters no operation: each keeps its status, stays in flight, or is closed.
Settles ==
    /\ gen' = gen
    /\ \A g \in Generation :
          \/ ops'[g].status = ops[g].status
          \/ InFlight(ops, g) /\ (InFlight(ops', g) \/ ops'[g].status \in Ledger!Closed)

\* reconcile only closes.
LEMMA ReconcileSettles ==
    ASSUME TypeOK, NEW g \in Generation
    PROVE  \/ Reconciled[g].status = ops[g].status
           \/ ops[g].status = "dispatched" /\ Reconciled[g].status \in Ledger!Closed
<1>1. ops[g] \in Operation
    BY DEF TypeOK
<1> QED BY <1>1 DEF Reconciled, Settled, Outcome, Operation, Ledger!Closed

\* Every step of the API but accept only settles.
LEMMA ApiSettles ==
    ASSUME LedgerInv, ApiNext, ~ \E a \in Requests, b \in BOOLEAN : Accept(a, b)
    PROVE  Settles
<1> USE DEF Settles, row, api, world
<1>0. /\ TypeOK /\ RequestInv
      /\ sending # 0 => sending \in Generation /\ InFlight(ops, sending)
    BY OperationsAssumption
    DEF LedgerInv, RequestInv, TypeOK, Generation, OperationsAssumption, InFlight, InFlightStatus
<1>1. \A g \in Generation : ops[g] \in Operation
    BY <1>0 DEF TypeOK
<1>2. ASSUME NEW g \in Generation, Send(g) PROVE Settles
    BY <1>2 DEF Send
<1>3. ASSUME NEW g \in Generation, Abandon(g) PROVE Settles
  <2>1. InFlight(ops, g)
    BY <1>0, <1>3, ReconcileKeeps DEF Abandon
  <2>2. \A h \in Generation : ops'[h].status = IF h = g THEN "abandoned" ELSE Reconciled[h].status
    BY <1>0, <1>1, <1>3, SettledType DEF Abandon, Reconciled, Operation
  <2>3. gen' = gen
    BY <1>3 DEF Abandon
  <2> QED BY <1>0, <2>1, <2>2, <2>3, ReconcileSettles DEF InFlight, InFlightStatus, Ledger!Closed
<1>4. ASSUME NEW g \in Generation, RunDestroyWithBypass(g) PROVE Settles
    BY <1>0, <1>1, <1>4 DEF RunDestroyWithBypass, InFlight, InFlightStatus, Operation, TypeOK
<1>5. CASE MarkSent
    BY <1>0, <1>1, <1>5 DEF MarkSent, InFlight, InFlightStatus, Operation, TypeOK
<1>6. CASE GetOperations \/ ForceRelease \/ AskRestore \/ RacedAskRestore
  <2>1. ops' = Reconciled /\ gen' = gen
    BY <1>6 DEF GetOperations, ForceRelease, AskRestore, RacedAskRestore, RestoreAllowed
  <2> QED BY <1>0, <2>1, ReconcileSettles DEF InFlight, InFlightStatus
<1>7. CASE RacedGetRange \/ RacedGetOps \/ RacedGetWrite
    BY <1>0, <1>7 DEF RacedGetRange, RacedGetOps, RacedGetWrite, RequestInv
<1>8. CASE SenderDies \/ RacedWriteRestore \/ DiscardUnbuilt \/ CloseWindow
              \/ (\E f \in BOOLEAN : AbandonRange(f)) \/ (\E s \in 0 .. MaxGen : OpenWindow(s))
    BY <1>8 DEF SenderDies, RacedWriteRestore, DiscardUnbuilt, CloseWindow, AbandonRange, OpenWindow
<1> QED BY <1>2, <1>3, <1>4, <1>5, <1>6, <1>7, <1>8 DEF ApiNext

\* So does every other step: only the maintenance hold touches an operation.
LEMMA OthersSettle ==
    ASSUME LedgerInv,
           BrokerNext \/ (\E x \in Execution : WorkerNext(x)) \/ Restore \/ SetupFailed \/ Tick
    PROVE  Settles
<1>0. ASSUME UNCHANGED <<gen, ops>> PROVE Settles
    BY <1>0 DEF Settles
<1>1. CASE BrokerNext \/ Restore \/ SetupFailed \/ Tick
  <2>1. CASE BrokerNext \/ Restore
    BY <1>0, <2>1 DEF BrokerNext, ClaimBlocked, ClaimError, Restore, row, api, world
  <2>2. CASE SetupFailed \/ Tick
    <3>1. UNCHANGED api
      BY <2>2, Zenon DEF SetupFailed, Tick
    <3> QED BY <1>0, <3>1 DEF api
  <2> QED BY <1>1, <2>1, <2>2
<1>2. ASSUME NEW x \in Execution, WorkerNext(x) PROVE Settles
  <2>1. CASE HoldOperation(x)
    <3>1. ex[x].task \in Generation /\ \A g \in Generation : ops[g] \in Operation
      BY <2>1, OperationsAssumption
      DEF HoldOperation, LedgerInv, RequestInv, TypeOK, Run, Generation, OperationsAssumption
    <3> QED BY <2>1, <3>1
            DEF HoldOperation, InFlight, InFlightStatus, Operation, LedgerInv, RequestInv, TypeOK, Settles
  <2>2. CASE (\E m \in Message : ClaimLease(x, m)) \/ ClaimCheck(x) \/ AtEntry(x)
               \/ (\E op \in 0 .. MaxGen : AtEntryUnreadable(x, op)) \/ HoldRange(x)
    <3>1. UNCHANGED api
      BY <2>2, Zenon DEF ClaimLease, ClaimCheck, AtEntry, AtEntryUnreadable, HoldRange
    <3> QED BY <1>0, <3>1 DEF api
  <2>3. CASE (\E e \in {"retry", "final"} : FailBeforeCall(x, e) \/ CallFailed(x, e))
               \/ StartCall(x) \/ CallOk(x) \/ CallPartial(x) \/ CallRaised(x) \/ SoftLimit(x)
               \/ EndThread(x)
    BY <1>0, <2>3 DEF FailBeforeCall, CallFailed, StartCall, CallOk, CallPartial, CallRaised, SoftLimit,
                      EndThread, row, api, world
  <2>4. CASE WriteOutcome(x) \/ WriteRefused(x) \/ WriteFails(x) \/ RecordFailure(x)
               \/ RecordLeftover(x) \/ LeftoverLost(x) \/ (\E ok \in BOOLEAN : Discard(x, ok))
    <3>1. UNCHANGED api
      BY <2>4, Zenon DEF WriteOutcome, WriteRefused, WriteFails, RecordFailure, RecordLeftover,
                         LeftoverLost, Discard
    <3> QED BY <1>0, <3>1 DEF api
  <2>5. CASE End(x) \/ Raised(x) \/ ReleaseFailed(x) \/ Keep(x) \/ Crash(x)
               \/ (\E late \in BOOLEAN : Beat(x, late))
    BY <1>0, <2>5 DEF End, Raised, ReleaseFailed, Keep, Crash, Beat, row, api, world
  <2> QED BY <1>2, <2>1, <2>2, <2>3, <2>4, <2>5 DEF WorkerNext
<1> QED BY <1>1, <1>2

\* A step that only settles closes at most the open request.
LEMMA SettlesRefines ==
    ASSUME LedgerInv, Settles
    PROVE  /\ [Ledger!Next]_([g \in Generation |-> Shown(g)])
           /\ \A g \in Generation : ops'[g].status = "none" <=> g > gen'
<1>1. \A g \in Generation : ops'[g].status = "none" <=> g > gen'
    BY DEF LedgerInv, Settles, InFlight, InFlightStatus, Ledger!Closed
<1>2. CASE \A g \in Generation : Shown(g)' = Shown(g)
    BY <1>1, <1>2
<1>3. ASSUME NEW g \in Generation, Shown(g)' # Shown(g)
      PROVE  Ledger!Close(g)
  <2>1. InFlight(ops, g) /\ ~InFlight(ops', g) /\ ops'[g].status \in Ledger!Closed
    BY <1>3 DEF Settles, Shown, InFlight
  <2>2. \A h \in Generation : h # g => Shown(h)' = Shown(h)
    BY <2>1 DEF LedgerInv, RequestInv, Settles, Shown, InFlight
  <2>3. Shown(g) = "open" /\ Shown(g)' = ops'[g].status
    BY <2>1 DEF Shown
  <2>4. [h \in Generation |-> Shown(h)]' = [[h \in Generation |-> Shown(h)] EXCEPT ![g] = ops'[g].status]
    BY <2>2, <2>3
  <2> QED BY <2>1, <2>3, <2>4 DEF Ledger!Close
<1> QED BY <1>1, <1>2, <1>3 DEF Ledger!Next, Ledger!Entry, Generation

\* accept enters the next request, and closes whatever was open.
LEMMA AcceptRefines ==
    ASSUME LedgerInv, NEW a \in Requests, NEW b \in BOOLEAN, Accept(a, b)
    PROVE  /\ Ledger!Submit(gen + 1) /\ gen + 1 \in Generation
           /\ \A g \in Generation : ops'[g].status = "none" <=> g > gen'
<1>0. PICK n \in Generation :
            /\ n = gen + 1 /\ gen' = n /\ gen \in Nat
            /\ TypeOK /\ RequestInv /\ \A g \in Generation : ops[g] \in Operation
    BY OperationsAssumption DEF LedgerInv, RequestInv, TypeOK, Accept, Generation, OperationsAssumption
<1>1. ops'[n] = [action |-> a, status |-> "pending", bypass |-> b]
    BY <1>0 DEF Accept
<1>2. ASSUME NEW g \in Generation, g # n
      PROVE  IF InFlight(ops, g) THEN ops'[g].status \in Ledger!Closed ELSE ops'[g].status = ops[g].status
  <2>1. CASE a = "destroy" /\ InFlight(Reconciled, g)
    <3>1. ops'[g] = [ops[g] EXCEPT !.status = "superseded"]
      BY <1>0, <1>2, <2>1 DEF Accept
    <3> QED BY <1>0, <2>1, <3>1, ReconcileKeeps DEF Operation, Ledger!Closed
  <2>2. CASE ~(a = "destroy" /\ InFlight(Reconciled, g))
    <3>1. ops'[g] = Reconciled[g]
      BY <1>0, <1>2, <2>2 DEF Accept
    <3>2. ~InFlight(Reconciled, g)
      BY <2>2 DEF Accept, Check, NoneInFlight
    <3> QED BY <1>0, <3>1, <3>2, ReconcileSettles, ReconcileKeeps DEF InFlight, InFlightStatus
  <2> QED BY <2>1, <2>2
<1>3. \A g \in Generation : ops'[g].status = "none" <=> g > gen'
  <2>1. \A g \in Generation : g # n => (ops'[g].status = "none" <=> ops[g].status = "none")
    BY <1>2 DEF InFlight, InFlightStatus, Ledger!Closed
  <2>2. \A g \in Generation : g # n => (g > gen <=> g > n)
    BY <1>0 DEF Generation
  <2> QED BY <1>0, <1>1, <2>1, <2>2 DEF LedgerInv, Generation
<1>4. Ledger!Submit(n)
  <2>1. Shown(n) = "none" /\ \A h \in Generation : h < n => Shown(h) # "none"
    BY <1>0 DEF Shown, LedgerInv, InFlight, InFlightStatus, Generation
  <2>2. PICK o \in Ledger!Closed : \A h \in Generation : h # n /\ InFlight(ops, h) => ops'[h].status = o
    <3>1. \A h \in Generation : InFlight(ops, h) => h = gen
      BY <1>0 DEF RequestInv
    <3>2. CASE gen \in Generation /\ InFlight(ops, gen)
      BY <1>0, <1>2, <3>1, <3>2 DEF Generation
    <3>3. CASE ~(gen \in Generation /\ InFlight(ops, gen))
      BY <3>1, <3>3 DEF Ledger!Closed
    <3> QED BY <3>2, <3>3
  <2>3. Shown(n)' = "open"
    <3>1. InFlight(ops', n)
      BY <1>1 DEF InFlight, InFlightStatus
    <3> QED BY <1>0, <3>1 DEF Shown, InFlight
  <2>4. ASSUME NEW h \in Generation, h # n
        PROVE  Shown(h)' = IF Shown(h) = "open" THEN o ELSE Shown(h)
    <3>1. CASE InFlight(ops, h)
      BY <1>2, <2>2, <2>4, <3>1 DEF Shown, InFlight, InFlightStatus, Ledger!Closed
    <3>2. CASE ~InFlight(ops, h)
      <4>1. ops'[h].status = ops[h].status /\ ops[h].status # "open"
        BY <1>0, <1>2, <2>4, <3>2 DEF Operation, Status, InFlightStatus
      <4> QED BY <3>2, <4>1 DEF Shown, InFlight
    <3> QED BY <3>1, <3>2
  <2>5. [h \in Generation |-> Shown(h)]' =
          [h \in Generation |-> IF h = n THEN "open" ELSE IF Shown(h) = "open" THEN o ELSE Shown(h)]
    BY <2>3, <2>4
  <2> QED BY <1>0, <2>1, <2>5 DEF Ledger!Submit, Ledger!Entry, Generation
<1> QED BY <1>0, <1>3, <1>4

\* Every step of the operations is a step of the ledger, or changes nothing in it.
LEMMA LedgerStep ==
    ASSUME LedgerInv, [Next]_vars, Budget["racedRead"] = 0
    PROVE  LedgerInv' /\ [Ledger!Next]_([g \in Generation |-> Shown(g)])
<1>1. RequestInv'
    BY RequestStep, NeverRaced DEF LedgerInv
<1>2. CASE UNCHANGED vars
    BY <1>1, <1>2 DEF LedgerInv, vars, api, Shown, InFlight
<1>3. CASE \E a \in Requests, b \in BOOLEAN : Accept(a, b)
    BY <1>1, <1>3, AcceptRefines DEF LedgerInv, Ledger!Next, Ledger!Entry, Generation
<1>4. CASE Next /\ ~ \E a \in Requests, b \in BOOLEAN : Accept(a, b)
    BY <1>1, <1>4, ApiSettles, OthersSettle, SettlesRefines DEF LedgerInv, Next
<1> QED BY <1>2, <1>3, <1>4

\* The range operations implement the ledger their clients rely on (unless a request is raced,
\* Budget["racedRead"] = 0): numbered requests, one open at a time, and outcomes that never
\* change, through re-sends, abandons, holds, retries and crashes, for any number of requests.
THEOREM LedgerImplemented ==
    ASSUME Budget["racedRead"] = 0
    PROVE  Spec => ImplementsLedger
<1>1. Init => LedgerInv /\ Ledger!Init
  <2>1. ASSUME Init PROVE \A g \in Generation : ops[g].status = "none" /\ g > gen
    BY <2>1 DEF Init, Generation
  <2> QED BY <2>1, RequestInit DEF LedgerInv, Ledger!Init, Ledger!Entry, Generation, Shown, InFlight, InFlightStatus
<1>2. LedgerInv /\ [Next]_vars => LedgerInv' /\ [Ledger!Next]_([g \in Generation |-> Shown(g)])
    BY LedgerStep
<1> QED BY <1>1, <1>2, PTL DEF Spec, ImplementsLedger, Ledger!Spec

-----------------------------------------------------------------------------
(* Every hypervisor call is covered by its execution's lease.              *)

\* What holds of an execution that has not ended: it has its lease or tombstone and knows it
\* truly; and the lease ran down by no more than the renewals it missed.
Covered(x) ==
    /\ lease.holder = x
    /\ lease.ttl + ex[x].missed >= LeaseTicks
    /\ ex[x].seen # "lost"
    /\ ex[x].seen = "abandoned" => lease.tomb

\* Without soft time limits and stragglers, a call runs inside its task.
Shape(x) ==
    /\ ex[x].thread => ex[x].pc \in {"calling", "discard"}
    /\ ex[x].err # "soft"

\* The rare events after which a call may be without a lease.
Gaps == {"straggler", "softLimit", "lateBeat"}

CoverInv ==
    /\ TypeOK
    /\ \A f \in Gaps : budget[f] = Budget[f]
    /\ \A x \in Execution : Shape(x) /\ (ex[x].pc # "idle" => Covered(x))

\* The code's figures: a lease lasts several heartbeats, of which a live task misses no two in
\* a row.
Timely == MaxMissed <= 1 /\ LeaseTicks > 1

\* The steps after which a call may outlive its task, or its lease.
LeavesCall(x) == CallRaised(x) \/ SoftLimit(x) \/ (ForceRelease /\ lease.holder = x /\ Live(x))

\* Nobody else has an execution of the range, and its lease has not run out.
LEMMA CoverMeans ==
    ASSUME CoverInv, Timely, NEW x \in Execution, ex[x].pc # "idle"
    PROVE  /\ lease.holder = x /\ lease.ttl > 0
           /\ ~Claimable(lease)
           /\ Obs(x) # "lost" /\ (Obs(x) = "abandoned" => lease.tomb)
           /\ \A y \in Execution : y # x => ex[y].pc = "idle"
<1>1. lease.ttl \in Nat /\ ex[x].missed \in 0 .. MaxMissed /\ LeaseTicks \in Nat /\ MaxMissed \in Nat
    BY LeaseAssumption, OperationsAssumption
    DEF CoverInv, TypeOK, LeaseRow, Run, LeaseAssumption, OperationsAssumption
<1>2. Covered(x)
    BY DEF CoverInv
<1>3. lease.holder = x /\ lease.ttl > 0
    BY <1>1, <1>2 DEF Covered, Timely
<1>4. ~Claimable(lease)
    BY <1>1, <1>3 DEF Claimable
<1>5. Obs(x) # "lost" /\ (Obs(x) = "abandoned" => lease.tomb)
    BY <1>2 DEF Covered, Obs, Observe
<1>6. \A y \in Execution : y # x => ex[y].pc = "idle"
    BY <1>3 DEF CoverInv, Covered
<1> QED BY <1>3, <1>4, <1>5, <1>6

\* What a step of x that changes no lease row must keep.
LEMMA StepOfOne ==
    ASSUME CoverInv, TypeOK', Timely, NEW x \in Execution, NEW r \in Run,
           ex' = [ex EXCEPT ![x] = r], lease' = lease,
           UNCHANGED <<budget>> \/ (\E f \in Rare \ Gaps : Spend(f)),
           r.thread => r.pc \in {"calling", "discard"}, r.err # "soft",
           r.pc # "idle" => /\ ex[x].pc # "idle"
                            /\ r.missed = ex[x].missed
                            /\ r.seen \in {ex[x].seen, Obs(x), "held"}
                            /\ r.seen # "lost"
    PROVE  CoverInv'
<1>1. \A f \in Gaps : budget'[f] = budget[f]
    BY DEF CoverInv, Spend, TypeOK, Rare, Gaps
<1>2. ASSUME NEW y \in Execution, y # x PROVE Shape(y)' /\ (ex'[y].pc # "idle" => Covered(y)')
    BY <1>2 DEF CoverInv, Shape, Covered, TypeOK
<1>3. ex'[x] = r
    BY DEF CoverInv, TypeOK
<1>4. Shape(x)'
    BY <1>3 DEF Shape
<1>5. ASSUME r.pc # "idle" PROVE Covered(x)'
  <2>1. Covered(x)
    BY <1>5 DEF CoverInv
  <2>2. r.seen = "abandoned" => lease.tomb
    BY <1>5, <2>1, CoverMeans DEF Covered
  <2> QED BY <1>3, <1>5, <2>1, <2>2 DEF Covered
<1> QED BY <1>1, <1>2, <1>3, <1>4, <1>5 DEF CoverInv

\* A step of the API keeps the cover: an abandon renames the row and restarts its time, a
\* force-release finds no execution left.
LEMMA ApiCover ==
    ASSUME CoverInv, TypeOK', Timely, ApiNext, \A x \in Execution : ~LeavesCall(x)
    PROVE  CoverInv'
<1> USE DEF row, api, world
<1>1. ASSUME UNCHANGED <<lease, ex>>,
             UNCHANGED budget \/ (\E f \in Rare \ Gaps : Spend(f))
      PROVE  CoverInv'
  <2>1. \A f \in Gaps : budget'[f] = budget[f]
    BY <1>1 DEF CoverInv, Spend, TypeOK, Rare, Gaps
  <2> QED BY <1>1, <2>1 DEF CoverInv, Shape, Covered
<1>2. ASSUME NEW g \in Generation, Abandon(g) PROVE CoverInv'
  <2>0. lease \in LeaseRow /\ LeaseTicks \in Nat /\ MaxMissed \in Nat
    BY LeaseAssumption, OperationsAssumption DEF CoverInv, TypeOK, LeaseAssumption, OperationsAssumption
  <2>1. lease' \in {lease, Fenced(lease), Reabandoned(lease)} /\ UNCHANGED <<ex, budget>>
    BY <1>2 DEF Abandon, FenceLease
  <2>3. lease'.holder = lease.holder /\ (lease.tomb => lease'.tomb)
    BY <2>0, <2>1 DEF Fenced, Reabandoned, LeaseRow
  <2>4. lease'.ttl = lease.ttl \/ lease'.ttl = LeaseTicks
    BY <2>0, <2>1 DEF Fenced, Reabandoned, LeaseRow
  <2>5. ASSUME NEW x \in Execution, ex[x].pc # "idle" PROVE Covered(x)'
    <3>1. Covered(x) /\ ex[x].missed \in Nat
      BY <2>5, <2>0 DEF CoverInv, TypeOK, Run
    <3>2. lease'.ttl + ex[x].missed >= LeaseTicks
      BY <2>0, <2>4, <3>1 DEF Covered
    <3> QED BY <2>1, <2>3, <3>1, <3>2 DEF Covered
  <2> QED BY <2>1, <2>5 DEF CoverInv, Shape
<1>3. CASE ForceRelease
  <2>1. \A x \in Execution : ex[x].pc # "idle" => lease.holder = x /\ Live(x)
    BY DEF CoverInv, Covered, Live
  <2>2. \A x \in Execution : ex[x].pc = "idle"
    BY <1>3, <2>1 DEF LeavesCall
  <2>3. ex' = ex /\ \A f \in Gaps : budget'[f] = budget[f]
    <3>1. lease.holder \in Execution
      BY <1>3 DEF ForceRelease, ProvenStopped, CoverInv, TypeOK, LeaseRow
    <3>2. ~Live(lease.holder)
      BY <2>2, <3>1 DEF Live
    <3> QED BY <1>3, <3>2 DEF ForceRelease
  <2> QED BY <2>2, <2>3 DEF CoverInv, Shape
<1>4. CASE \E a \in Requests, b \in BOOLEAN : Accept(a, b)
    BY <1>1, <1>4 DEF Accept
<1>5. ASSUME NEW g \in Generation, Send(g) \/ RunDestroyWithBypass(g) PROVE CoverInv'
    BY <1>1, <1>5 DEF Send, RunDestroyWithBypass
<1>6. CASE MarkSent \/ GetOperations \/ RacedGetOps \/ RacedGetWrite \/ AskRestore
             \/ RacedWriteRestore \/ DiscardUnbuilt \/ CloseWindow
    BY <1>1, <1>6 DEF MarkSent, GetOperations, RacedGetOps, RacedGetWrite, AskRestore, RacedWriteRestore,
                      DiscardUnbuilt, CloseWindow
<1>7. CASE SenderDies \/ RacedGetRange \/ RacedAskRestore \/ (\E f \in BOOLEAN : AbandonRange(f))
             \/ (\E s \in 0 .. MaxGen : OpenWindow(s))
    BY <1>1, <1>7 DEF SenderDies, RacedGetRange, RacedAskRestore, AbandonRange, OpenWindow, Rare, Gaps
<1> QED BY <1>2, <1>3, <1>4, <1>5, <1>6, <1>7 DEF ApiNext

\* A step of an execution keeps the cover.
LEMMA WorkerCover ==
    ASSUME CoverInv, TypeOK', Timely, NEW x \in Execution, WorkerNext(x), ~LeavesCall(x)
    PROVE  CoverInv'
<1> USE DEF row, api, world
<1>0. /\ ex[x] \in Run /\ lease \in LeaseRow /\ LeaseTicks \in Nat
      /\ Shape(x) /\ (ex[x].pc # "idle" => Covered(x))
      /\ ex'[x] \in Run /\ ex \in [Execution -> Run]
    BY LeaseAssumption DEF CoverInv, TypeOK, LeaseAssumption
<1>1. ex[x].pc # "idle" => Obs(x) \in {"held", "abandoned"}
    BY CoverMeans DEF Obs, Observe
<1>2. ex[x].pc # "idle" => ex[x].seen # "lost"
    BY <1>0 DEF Covered
<1>3. ASSUME ex' = [ex EXCEPT ![x] = ex'[x]], lease' = lease,
             UNCHANGED budget \/ (\E f \in Rare \ Gaps : Spend(f)),
             ex'[x].thread => ex'[x].pc \in {"calling", "discard"}, ex'[x].err # "soft",
             ex[x].pc # "idle", ex'[x].missed = ex[x].missed,
             ex'[x].seen \in {ex[x].seen, Obs(x), "held"}
      PROVE  CoverInv'
    BY <1>0, <1>1, <1>2, <1>3, StepOfOne
<1>4. ASSUME NEW m \in Message, ClaimLease(x, m) PROVE CoverInv'
  <2>1. \A y \in Execution : ex[y].pc = "idle"
    BY <1>4, CoverMeans DEF ClaimLease
  <2>2. ex' = [ex EXCEPT ![x] = ex'[x]] /\ lease' = Claimed(x) /\ budget' = budget
    BY <1>0, <1>4 DEF ClaimLease
  <2>3. ex'[x].thread = FALSE /\ ex'[x].err = "none" /\ ex'[x].seen = "held" /\ ex'[x].missed = 0
    BY <1>0, <1>4 DEF ClaimLease, Idle
  <2>4. lease'.holder = x /\ lease'.ttl = LeaseTicks /\ lease'.tomb = FALSE
    BY <2>2 DEF Claimed, NoLease
  <2>5. Shape(x)' /\ Covered(x)'
    BY <1>0, <2>3, <2>4 DEF Shape, Covered
  <2>6. \A y \in Execution : y # x => ex'[y] = ex[y]
    BY <1>0, <2>2
  <2> QED BY <2>1, <2>2, <2>5, <2>6 DEF CoverInv, Shape
<1>5. CASE ClaimCheck(x)
    BY <1>0, <1>3, <1>5 DEF ClaimCheck, Run, Shape
<1>6. CASE AtEntry(x)
    BY <1>0, <1>3, <1>6 DEF AtEntry, Run, Shape
<1>7. ASSUME NEW op \in 0 .. MaxGen, AtEntryUnreadable(x, op) PROVE CoverInv'
    BY <1>0, <1>3, <1>7 DEF AtEntryUnreadable, Run, Shape, Rare, Gaps
<1>8. CASE HoldOperation(x)
    BY <1>0, <1>3, <1>8 DEF HoldOperation, Run, Shape
<1>9. CASE HoldRange(x)
    BY <1>0, <1>1, <1>3, <1>9 DEF HoldRange, Run, Shape
<1>10. ASSUME NEW e \in {"retry", "final"}, FailBeforeCall(x, e) \/ CallFailed(x, e) PROVE CoverInv'
  <2>1. CASE FailBeforeCall(x, e)
    BY <1>0, <1>3, <2>1 DEF FailBeforeCall, Run, Shape
  <2>2. CASE CallFailed(x, e)
    BY <1>0, <1>3, <2>2 DEF CallFailed, Run, Shape
  <2> QED BY <1>10, <2>1, <2>2
<1>11. CASE StartCall(x)
    BY <1>0, <1>1, <1>3, <1>11 DEF StartCall, Run, Shape
<1>12. CASE CallOk(x)
    BY <1>0, <1>3, <1>12 DEF CallOk, Run, Shape
<1>13. CASE CallRaised(x) \/ SoftLimit(x)
    BY <1>13 DEF LeavesCall
<1>14. CASE EndThread(x)
    BY <1>0, <1>14 DEF EndThread, Shape
<1>15. CASE WriteOutcome(x)
    BY <1>0, <1>3, <1>15 DEF WriteOutcome, Run, Shape
<1>16. CASE WriteRefused(x)
    BY <1>0, <1>1, <1>3, <1>16 DEF WriteRefused, AfterRefusal, Run, Shape
<1>17. CASE RecordFailure(x)
    BY <1>0, <1>1, <1>3, <1>17 DEF RecordFailure, Run, Shape
<1>18. ASSUME NEW ok \in BOOLEAN, Discard(x, ok) PROVE CoverInv'
    BY <1>0, <1>3, <1>18 DEF Discard, Run, Shape
<1>19. CASE RecordLeftover(x)
    BY <1>0, <1>3, <1>19 DEF RecordLeftover, Run, Shape
<1>20. CASE Raised(x)
    BY <1>0, <1>1, <1>3, <1>20 DEF Raised, Run, Shape
<1>21. CASE Keep(x)
    BY <1>0, <1>21 DEF Keep, Shape
<1>22. CASE End(x) \/ ReleaseFailed(x)
  <2>1. /\ ex[x].pc # "idle" /\ ex[x].thread = FALSE /\ budget' = budget
        /\ ex' = [ex EXCEPT ![x] = ex'[x]] /\ ex'[x] \in {Idle, Over(ex[x], FALSE)}
    BY <1>0, <1>22 DEF End, ReleaseFailed, Shape, Run
  <2>2. ex'[x].pc = "idle" /\ ex'[x].thread = FALSE /\ ex'[x].err = "none"
    <3>1. CASE ex'[x] = Idle
      BY <3>1 DEF Idle
    <3>2. CASE ex'[x] = Over(ex[x], FALSE)
      BY <3>2 DEF Over, Idle
    <3> QED BY <2>1, <3>1, <3>2
  <2>3. \A y \in Execution : y # x => ex'[y] = ex[y] /\ ex[y].pc = "idle"
    BY <1>0, <2>1, CoverMeans
  <2> QED BY <2>1, <2>2, <2>3 DEF CoverInv, Shape
<1>23. ASSUME NEW late \in BOOLEAN, Beat(x, late) PROVE CoverInv'
  <2>1. ex[x].pc # "idle" /\ lease.holder = x /\ lease' = Extended(lease, LeaseTicks, late)
    BY <1>0, <1>23 DEF Beat, Beating, Covered
  <2>2. /\ ex' = [ex EXCEPT ![x] = ex'[x]] /\ budget' = budget
        /\ ex'[x].missed = 0 /\ ex'[x].pc = ex[x].pc /\ ex'[x].thread = ex[x].thread
        /\ ex'[x].err = ex[x].err /\ ex'[x].seen \in {ex[x].seen, Obs(x)}
    BY <1>0, <1>23 DEF Beat, Run
  <2>3. lease'.holder = x /\ lease'.tomb = lease.tomb /\ lease'.ttl >= LeaseTicks
    BY <1>0, <2>1 DEF Extended, LeaseRow
  <2>4. ex'[x].seen # "lost" /\ (ex'[x].seen = "abandoned" => lease.tomb)
    BY <1>0, <1>1, <1>2, <2>1, <2>2, CoverMeans DEF Covered
  <2>5. Shape(x)' /\ Covered(x)'
    <3>1. lease'.ttl \in Nat
      BY DEF TypeOK, LeaseRow
    <3>2. lease'.ttl + ex'[x].missed >= LeaseTicks
      BY <1>0, <2>2, <2>3, <3>1
    <3> QED BY <1>0, <2>2, <2>3, <2>4, <3>2 DEF Shape, Covered
  <2>6. \A y \in Execution : y # x => ex'[y] = ex[y] /\ ex[y].pc = "idle"
    BY <1>0, <2>1, <2>2, CoverMeans
  <2> QED BY <2>2, <2>5, <2>6 DEF CoverInv, Shape
<1>24. CASE Crash(x)
  <2>1. /\ ex' = [ex EXCEPT ![x] = ex'[x]] /\ ex'[x] = Over(ex[x], FALSE)
        /\ Spend("crash") /\ lease' = lease /\ ex[x].pc # "idle"
    BY <1>0, <1>24 DEF Crash
  <2>2. ex'[x].pc = "idle" /\ ex'[x].thread = FALSE /\ ex'[x].err = "none"
    BY <2>1 DEF Over, Idle
  <2> QED BY <1>0, <2>1, <2>2, StepOfOne DEF Rare, Gaps
<1>25. CASE CallPartial(x)
    BY <1>0, <1>3, <1>25 DEF CallPartial, Run, Shape, Rare, Gaps
<1>26. CASE WriteFails(x)
    BY <1>0, <1>3, <1>26 DEF WriteFails, Run, Shape, Rare, Gaps
<1>27. CASE LeftoverLost(x)
    BY <1>0, <1>3, <1>27 DEF LeftoverLost, Run, Shape, Rare, Gaps
<1> QED
    BY <1>4, <1>5, <1>6, <1>7, <1>8, <1>9, <1>10, <1>11, <1>12, <1>13, <1>14, <1>15, <1>16, <1>17,
       <1>18, <1>19, <1>20, <1>21, <1>22, <1>23, <1>24, <1>25, <1>26, <1>27 DEF WorkerNext

\* A heartbeat period keeps the cover: a live execution misses one renewal at most.
LEMMA TickCover == ASSUME CoverInv, TypeOK', Timely, Tick PROVE CoverInv'
<1>0. /\ lease \in LeaseRow /\ LeaseTicks \in Nat /\ MaxMissed \in Nat /\ budget' = budget
      /\ ex \in [Execution -> Run]
    BY LeaseAssumption, OperationsAssumption
    DEF CoverInv, TypeOK, Tick, LeaseAssumption, OperationsAssumption
<1>1. ASSUME NEW x \in Execution
      PROVE  /\ ex'[x].pc = ex[x].pc /\ ex'[x].seen = ex[x].seen /\ ex'[x].err = ex[x].err
             /\ ex'[x].thread = ex[x].thread
             /\ Live(x) => ex'[x].missed = ex[x].missed + 1
  <2>1. ex'[x] = [ex[x] EXCEPT !.missed = IF Live(x) THEN @ + 1 ELSE @,
                               !.grace = IF @ > 0 THEN @ - 1 ELSE 0]
    BY DEF Tick
  <2> QED BY <1>0, <2>1 DEF Run
<1>2. ASSUME NEW x \in Execution, ex[x].pc # "idle" PROVE Covered(x)'
  <2>1. Covered(x) /\ ex[x].missed \in Nat /\ Live(x)
    BY <1>0, <1>2 DEF CoverInv, Covered, Live, Run
  <2>2. ex[x].missed < MaxMissed
    BY <2>1, Zenon DEF Tick
  <2>3. ex[x].missed = 0 /\ ex'[x].missed = 1
    BY <1>0, <1>1, <2>1, <2>2 DEF Timely
  <2>4. lease' = Aged(lease)
    BY DEF Tick
  <2>5. lease'.holder = lease.holder /\ lease'.tomb = lease.tomb /\ lease'.ttl + 1 >= lease.ttl
    BY <1>0, <2>4 DEF Aged, LeaseRow
  <2>6. lease'.ttl + ex'[x].missed >= LeaseTicks
    BY <1>0, <2>1, <2>3, <2>4, <2>5 DEF Covered, Aged, LeaseRow
  <2> QED BY <1>1, <2>1, <2>3, <2>5, <2>6 DEF Covered
<1> QED BY <1>0, <1>1, <1>2 DEF CoverInv, Shape

\* An initial state satisfies it ...
LEMMA CoverInit == ASSUME Init PROVE CoverInv
<1>1. \A x \in Execution : ex[x].pc = "idle" /\ ex[x].thread = FALSE /\ ex[x].err = "none"
  BY DEF Init, Idle
<1> QED BY <1>1, TypeInit DEF CoverInv, Shape, Init

\* ... and every step keeps it.
LEMMA CoverStep ==
    ASSUME CoverInv, Timely, [Next]_vars, \A x \in Execution : ~LeavesCall(x)
    PROVE  CoverInv'
<1>1. TypeOK'
  BY TypeStep DEF CoverInv
<1>2. CASE UNCHANGED vars
  BY <1>1, <1>2 DEF CoverInv, Shape, Covered, vars, row, api, world
<1>3. CASE BrokerNext \/ Restore \/ SetupFailed
  <2>1. UNCHANGED <<lease, ex>>
    BY <1>3 DEF BrokerNext, ClaimBlocked, ClaimError, Restore, SetupFailed
  <2>2. \A f \in Gaps : budget'[f] = budget[f]
    BY <1>3 DEF BrokerNext, ClaimBlocked, ClaimError, Restore, SetupFailed, Spend, CoverInv, TypeOK,
                Rare, Gaps
  <2> QED BY <1>1, <2>1, <2>2 DEF CoverInv, Shape, Covered
<1> QED BY <1>1, <1>2, <1>3, ApiCover, WorkerCover, TickCover DEF Next

\* Where stragglers and soft time limits are not allowed, only a release of a live worker's
\* tombstone takes a lease away, and it is recorded as one.
LEMMA OnlyLate ==
    ASSUME CoverInv, Budget["straggler"] = 0, Budget["softLimit"] = 0, [Next]_vars,
           ~ \A x \in Execution : ~LeavesCall(x)
    PROVE  Spent("lateBeat")'
<1>1. PICK x \in Execution : LeavesCall(x)
    OBVIOUS
<1>2. ~CallRaised(x) /\ ~SoftLimit(x)
    BY DEF CoverInv, Gaps, CallRaised, SoftLimit, Spend
<1>3. Spend("lateBeat")
    BY <1>1, <1>2 DEF LeavesCall, ForceRelease
<1>4. budget["lateBeat"] = Budget["lateBeat"] /\ budget["lateBeat"] \in Nat
    BY DEF CoverInv, TypeOK, Gaps, Rare
<1> QED BY <1>3, <1>4 DEF Spend, Spent, CoverInv, TypeOK, Rare

\* No hypervisor call ever runs without an unexpired lease of its own execution, for any number
\* of operations, executions, crashes, retries, abandons, restores and force-releases, until an
\* operator releases the tombstone of a worker that is late with a renewal; provided that a live
\* task misses no two heartbeats in a row (Timely) and that neither the soft time limit nor a
\* failed call leaves a thread behind.
THEOREM CallsAreCovered ==
    ASSUME Timely, Budget["straggler"] = 0, Budget["softLimit"] = 0
    PROVE  Spec => []CallIsCovered
<1> DEFINE Inv == TypeOK /\ (CoverInv \/ Spent("lateBeat"))
<1>1. Init => Inv
    BY CoverInit DEF CoverInv
<1>2. Inv /\ [Next]_vars => Inv'
  <2> SUFFICES ASSUME Inv, [Next]_vars PROVE Inv'
    OBVIOUS
  <2>1. TypeOK'
    BY TypeStep
  <2>2. CASE Spent("lateBeat")
    BY <2>1, <2>2, SpentStays DEF Rare
  <2>3. CASE CoverInv /\ \A x \in Execution : ~LeavesCall(x)
    BY <2>1, <2>3, CoverStep
  <2>4. CASE CoverInv /\ ~ \A x \in Execution : ~LeavesCall(x)
    BY <2>1, <2>4, OnlyLate
  <2> QED BY <2>2, <2>3, <2>4
<1>3. Inv => CallIsCovered
  <2> SUFFICES ASSUME CoverInv, NEW x \in Execution, ex[x].thread
               PROVE  lease.holder = x /\ lease.ttl > 0
    BY DEF CallIsCovered
  <2>1. ex[x].pc # "idle"
    BY DEF CoverInv, Shape
  <2> QED BY <2>1, CoverMeans
<1> QED BY <1>1, <1>2, <1>3, PTL DEF Spec

-----------------------------------------------------------------------------
(* Who holds the lease knows it, whatever was left running.                *)

\* A step of x touches no other execution.
LEMMA StepsAlone ==
    ASSUME TypeOK, NEW x \in Execution, WorkerNext(x)
    PROVE  ex' = [ex EXCEPT ![x] = ex'[x]]
<1>0. ex \in [Execution -> Run]
  BY DEF TypeOK
<1> QED
  BY <1>0 DEF WorkerNext, ClaimLease, ClaimCheck, AtEntry, AtEntryUnreadable, HoldOperation, HoldRange,
     FailBeforeCall, CallFailed, StartCall, CallOk, CallPartial, CallRaised, SoftLimit, EndThread,
     WriteOutcome, WriteRefused, WriteFails, RecordFailure, Discard, RecordLeftover, LeftoverLost, End,
     Raised, ReleaseFailed, Keep, Beat, Crash

\* An execution that has not ended and whose name the row still bears has renewed it in time
\* and knows of its abandon only if there was one. Unlike the cover this survives soft time
\* limits, stragglers and releases of a live worker's tombstone.
Known(x) ==
    ex[x].pc # "idle" /\ lease.holder = x =>
        /\ lease.ttl + ex[x].missed >= LeaseTicks
        /\ ex[x].seen # "lost"
        /\ ex[x].seen = "abandoned" => lease.tomb

LeaseInv == TypeOK /\ \A x \in Execution : Known(x)

\* So nobody else can claim the range, or have a build accepted for it.
LEMMA KnownMeans ==
    ASSUME LeaseInv, Timely, NEW x \in Execution, ex[x].pc # "idle", lease.holder = x
    PROVE  WorkerActing(lease) /\ ~Claimable(lease) /\ Live(x)
<1>1. Known(x) /\ lease.ttl \in Nat /\ ex[x].missed \in 0 .. MaxMissed /\ LeaseTicks \in Nat /\ MaxMissed \in Nat
    BY LeaseAssumption, OperationsAssumption
    DEF LeaseInv, TypeOK, LeaseRow, Run, LeaseAssumption, OperationsAssumption
<1>2. lease.ttl > 0 /\ x # NoHolder
    BY <1>1, LeaseAssumption DEF Known, Timely, LeaseAssumption
<1> QED BY <1>1, <1>2 DEF WorkerActing, Claimable, Live, Known

\* A step of x that changes no lease row.
LEMMA OneKnown ==
    ASSUME LeaseInv, TypeOK', NEW x \in Execution, ex' = [ex EXCEPT ![x] = ex'[x]], lease' = lease,
           ex'[x].pc # "idle" => /\ ex[x].pc # "idle" /\ ex'[x].missed = ex[x].missed
                                 /\ ex'[x].seen \in {ex[x].seen, Obs(x), "held"}
    PROVE  LeaseInv'
<1>1. ASSUME NEW y \in Execution, y # x PROVE Known(y)'
  <2>1. ex'[y] = ex[y] /\ Known(y)
    BY <1>1 DEF LeaseInv, TypeOK
  <2> QED BY <2>1 DEF Known
<1>2. Known(x)'
  <2>1. Known(x)
    BY DEF LeaseInv
  <2> QED BY <2>1 DEF Known, Obs, Observe
<1> QED BY <1>1, <1>2 DEF LeaseInv

LEMMA WorkerKnown ==
    ASSUME LeaseInv, TypeOK', NEW x \in Execution, WorkerNext(x)
    PROVE  LeaseInv'
<1> USE DEF row, api, world
<1>0. /\ ex[x] \in Run /\ ex \in [Execution -> Run] /\ ex' = [ex EXCEPT ![x] = ex'[x]]
      /\ lease \in LeaseRow /\ LeaseTicks \in Nat /\ KeptTicks \in Nat /\ Known(x)
    BY StepsAlone, LeaseAssumption DEF LeaseInv, TypeOK, LeaseAssumption
<1>1. ASSUME lease' = lease, ex[x].pc # "idle", ex'[x].missed = ex[x].missed,
             ex'[x].seen \in {ex[x].seen, Obs(x), "held"}
      PROVE  LeaseInv'
    BY <1>0, <1>1, OneKnown
<1>2. ASSUME lease' = lease \/ lease'.holder \notin Execution \ {x},
             lease'.holder = x => Known(x)'
      PROVE  LeaseInv'
  <2>1. ASSUME NEW y \in Execution, y # x PROVE Known(y)'
    <3>1. ex'[y] = ex[y] /\ Known(y)
      BY <1>0, <2>1 DEF LeaseInv
    <3> QED BY <1>2, <2>1, <3>1 DEF Known
  <2>2. Known(x)'
    BY <1>2 DEF Known
  <2> QED BY <2>1, <2>2 DEF LeaseInv
<1>3. ASSUME NEW m \in Message, ClaimLease(x, m) PROVE LeaseInv'
  <2>1. ex'[x].seen = "held" /\ ex'[x].missed = 0 /\ lease'.holder = x /\ lease'.ttl = LeaseTicks
    BY <1>0, <1>3 DEF ClaimLease, Idle, Claimed, NoLease
  <2> QED BY <1>0, <1>2, <2>1 DEF Known
<1>4. CASE ClaimCheck(x)
    BY <1>0, <1>1, <1>4 DEF ClaimCheck, Run
<1>5. CASE AtEntry(x) \/ (\E op \in 0 .. MaxGen : AtEntryUnreadable(x, op))
  <2>1. CASE AtEntry(x)
    BY <1>0, <1>1, <2>1 DEF AtEntry, Run
  <2>2. ASSUME NEW op \in 0 .. MaxGen, AtEntryUnreadable(x, op) PROVE LeaseInv'
    BY <1>0, <1>1, <2>2 DEF AtEntryUnreadable, Run
  <2> QED BY <1>5, <2>1, <2>2
<1>6. CASE HoldOperation(x)
    BY <1>0, <1>1, <1>6 DEF HoldOperation, Run
<1>7. CASE HoldRange(x)
    BY <1>0, <1>1, <1>7 DEF HoldRange, Run
<1>8. ASSUME NEW e \in {"retry", "final"}, FailBeforeCall(x, e) \/ CallFailed(x, e) PROVE LeaseInv'
  <2>1. lease' = lease /\ ex[x].pc # "idle"
    BY <1>8 DEF FailBeforeCall, CallFailed
  <2>2. ex'[x].missed = ex[x].missed /\ ex'[x].seen = ex[x].seen
    <3>1. CASE FailBeforeCall(x, e)
      BY <1>0, <3>1 DEF FailBeforeCall, Run
    <3>2. CASE CallFailed(x, e)
      BY <1>0, <3>2 DEF CallFailed, Run
    <3> QED BY <1>8, <3>1, <3>2
  <2> QED BY <1>1, <2>1, <2>2
<1>9. CASE StartCall(x)
    BY <1>0, <1>1, <1>9 DEF StartCall, Run
<1>10. CASE CallOk(x) \/ CallPartial(x)
  <2>1. lease' = lease /\ ex[x].pc # "idle"
    BY <1>10 DEF CallOk, CallPartial
  <2>2. ex'[x].missed = ex[x].missed /\ ex'[x].seen = ex[x].seen
    <3>1. CASE CallOk(x)
      BY <1>0, <3>1 DEF CallOk, Run
    <3>2. CASE CallPartial(x)
      BY <1>0, <3>2 DEF CallPartial, Run
    <3> QED BY <1>10, <3>1, <3>2
  <2> QED BY <1>1, <2>1, <2>2
<1>11. CASE CallRaised(x) \/ SoftLimit(x)
  <2>1. lease' = lease /\ ex[x].pc # "idle"
    BY <1>11 DEF CallRaised, SoftLimit
  <2>2. ex'[x].missed = ex[x].missed /\ ex'[x].seen \in {ex[x].seen, Obs(x)}
    <3>1. CASE CallRaised(x)
      BY <1>0, <3>1 DEF CallRaised, Run
    <3>2. CASE SoftLimit(x)
      BY <1>0, <3>2 DEF SoftLimit, Run
    <3> QED BY <1>11, <3>1, <3>2
  <2> QED BY <1>1, <2>1, <2>2
<1>12. CASE EndThread(x)
  <2>1. /\ lease' = lease /\ ex'[x].pc = ex[x].pc /\ ex'[x].missed = ex[x].missed
        /\ ex'[x].seen = ex[x].seen
    BY <1>0, <1>12 DEF EndThread, Run
  <2> QED BY <1>0, <2>1, OneKnown
<1>13. CASE WriteOutcome(x)
    BY <1>0, <1>1, <1>13 DEF WriteOutcome, Run
<1>14. CASE WriteRefused(x)
    BY <1>0, <1>1, <1>14 DEF WriteRefused, Run
<1>15. CASE WriteFails(x)
    BY <1>0, <1>1, <1>15 DEF WriteFails, Run
<1>16. CASE RecordFailure(x)
    BY <1>0, <1>1, <1>16 DEF RecordFailure, Run
<1>17. ASSUME NEW ok \in BOOLEAN, Discard(x, ok) PROVE LeaseInv'
    BY <1>0, <1>1, <1>17 DEF Discard, Run
<1>18. CASE RecordLeftover(x) \/ LeftoverLost(x)
  <2>1. lease' = lease /\ ex[x].pc # "idle"
    BY <1>18 DEF RecordLeftover, LeftoverLost
  <2>2. ex'[x].missed = ex[x].missed /\ ex'[x].seen = ex[x].seen
    <3>1. CASE RecordLeftover(x)
      BY <1>0, <3>1 DEF RecordLeftover, Run
    <3>2. CASE LeftoverLost(x)
      BY <1>0, <3>2 DEF LeftoverLost, Run
    <3> QED BY <1>18, <3>1, <3>2
  <2> QED BY <1>1, <2>1, <2>2
<1>19. CASE Raised(x)
    BY <1>0, <1>1, <1>19 DEF Raised, Run
<1>20. CASE End(x) \/ ReleaseFailed(x) \/ Keep(x) \/ Crash(x)
  <2>1. ex'[x] = Idle \/ \E th \in BOOLEAN : ex'[x] = Over(ex[x], th)
    BY <1>0, <1>20 DEF End, ReleaseFailed, Keep, Crash, Run
  <2>2. ex'[x].pc = "idle"
    <3>1. CASE ex'[x] = Idle
      BY <3>1 DEF Idle
    <3>2. ASSUME NEW th \in BOOLEAN, ex'[x] = Over(ex[x], th) PROVE ex'[x].pc = "idle"
      BY <3>2 DEF Over, Idle
    <3> QED BY <2>1, <3>1, <3>2
  <2>3. lease' = lease \/ lease'.holder \notin Execution \ {x}
    <3>1. CASE End(x) \/ ReleaseFailed(x) \/ Crash(x)
      <4>1. lease' = lease \/ lease' = NoLease
        BY <3>1 DEF End, ReleaseFailed, Crash, Released
      <4>2. NoLease.holder \notin Execution
        BY LeaseAssumption DEF NoLease, LeaseAssumption
      <4> QED BY <4>1, <4>2
    <3>2. CASE Keep(x)
      BY <1>0, <3>2 DEF Keep, KeptLease, Mine, Extended, LeaseRow
    <3> QED BY <1>20, <3>1, <3>2
  <2> QED BY <1>2, <2>2, <2>3 DEF Known
<1>21. ASSUME NEW late \in BOOLEAN, Beat(x, late) PROVE LeaseInv'
  <2>1. /\ ex'[x].missed = 0 /\ ex'[x].pc = ex[x].pc /\ ex'[x].seen \in {ex[x].seen, Obs(x)}
        /\ ex[x].pc # "idle"
    BY <1>0, <1>21 DEF Beat, Beating, Run
  <2>2. CASE lease.holder # x
    BY <1>0, <1>2, <1>21, <2>2 DEF Beat
  <2>3. CASE lease.holder = x
    <3>1. lease' = Extended(lease, LeaseTicks, late)
      BY <1>21, <2>3 DEF Beat
    <3>2. lease'.holder = x /\ lease'.tomb = lease.tomb /\ lease'.ttl >= LeaseTicks /\ lease'.ttl \in Nat
      BY <1>0, <2>3, <3>1 DEF Extended, LeaseRow
    <3>3. Known(x)'
      BY <1>0, <2>1, <2>3, <3>2 DEF Known, Obs, Observe
    <3> QED BY <1>2, <3>2, <3>3
  <2> QED BY <2>2, <2>3
<1> QED
    BY <1>3, <1>4, <1>5, <1>6, <1>7, <1>8, <1>9, <1>10, <1>11, <1>12, <1>13, <1>14, <1>15, <1>16,
       <1>17, <1>18, <1>19, <1>20, <1>21 DEF WorkerNext

LEMMA LeaseStep == ASSUME LeaseInv, Timely, [Next]_vars PROVE LeaseInv'
<1> USE DEF row, api, world
<1>0. /\ TypeOK' /\ lease \in LeaseRow /\ LeaseTicks \in Nat /\ MaxMissed \in Nat
      /\ ex \in [Execution -> Run]
    BY TypeStep, LeaseAssumption, OperationsAssumption
    DEF LeaseInv, TypeOK, LeaseAssumption, OperationsAssumption
<1>1. ASSUME UNCHANGED <<lease, ex>> PROVE LeaseInv'
    BY <1>0, <1>1 DEF LeaseInv, Known
<1>2. CASE BrokerNext \/ Restore \/ SetupFailed \/ UNCHANGED vars
    BY <1>1, <1>2 DEF BrokerNext, ClaimBlocked, ClaimError, Restore, SetupFailed, vars
<1>3. ASSUME NEW g \in Generation, Abandon(g) PROVE LeaseInv'
  <2>1. lease' \in {lease, Fenced(lease), Reabandoned(lease)} /\ ex' = ex
    BY <1>3 DEF Abandon, FenceLease
  <2>2. /\ lease'.holder = lease.holder /\ (lease.tomb => lease'.tomb)
        /\ lease'.ttl = lease.ttl \/ lease'.ttl = LeaseTicks
    BY <1>0, <2>1 DEF Fenced, Reabandoned, LeaseRow
  <2>3. ASSUME NEW x \in Execution PROVE Known(x)'
    <3>1. Known(x) /\ ex[x].missed \in Nat
      BY <1>0 DEF LeaseInv, TypeOK, Run
    <3> QED BY <1>0, <2>1, <2>2, <3>1 DEF Known
  <2> QED BY <1>0, <2>3 DEF LeaseInv
<1>4. CASE ForceRelease
    BY <1>0, <1>4, LeaseAssumption DEF ForceRelease, NoLease, LeaseInv, Known, LeaseAssumption
<1>5. CASE ApiNext /\ ~ForceRelease /\ \A g \in Generation : ~Abandon(g)
  <2>1. UNCHANGED <<lease, ex>>
    BY <1>5 DEF ApiNext, Accept, Send, RunDestroyWithBypass, MarkSent, SenderDies, GetOperations,
       RacedGetRange, RacedGetOps, RacedGetWrite, AskRestore, RacedAskRestore, RacedWriteRestore,
       AbandonRange, DiscardUnbuilt, OpenWindow, CloseWindow
  <2> QED BY <1>1, <2>1
<1>6. CASE Tick
  <2>1. ASSUME NEW x \in Execution PROVE Known(x)'
    <3>1. Known(x) /\ ex[x].missed \in Nat /\ lease' = Aged(lease)
      <4>1. Known(x)
        BY DEF LeaseInv
      <4>2. ex[x].missed \in Nat
        BY <1>0 DEF Run
      <4>3. lease' = Aged(lease)
        BY <1>6 DEF Tick
      <4> QED BY <4>1, <4>2, <4>3
    <3>2. ex'[x] = [ex[x] EXCEPT !.missed = IF Live(x) THEN @ + 1 ELSE @,
                                 !.grace = IF @ > 0 THEN @ - 1 ELSE 0]
      BY <1>6 DEF Tick
    <3>3. /\ ex'[x].pc = ex[x].pc /\ ex'[x].seen = ex[x].seen
          /\ Live(x) => ex'[x].missed = ex[x].missed + 1
      BY <1>0, <3>2 DEF Run
    <3>4. Live(x) => ex[x].missed = 0
      <4>1. Live(x) => ex[x].missed < MaxMissed
        BY <1>6, Zenon DEF Tick
      <4> QED BY <1>0, <3>1, <4>1 DEF Timely
    <3>5. /\ lease'.holder = lease.holder /\ lease'.tomb = lease.tomb /\ lease'.ttl + 1 >= lease.ttl
          /\ lease'.ttl \in Nat
      BY <1>0, <3>1 DEF Aged, LeaseRow
    <3>6. ASSUME ex[x].pc # "idle", lease.holder = x PROVE lease'.ttl + ex'[x].missed >= LeaseTicks
      <4>1. Live(x) /\ lease.ttl >= LeaseTicks
        BY <1>0, <3>1, <3>4, <3>6 DEF Known, Live, LeaseRow
      <4> QED BY <1>0, <3>3, <3>4, <3>5, <4>1 DEF LeaseRow
    <3> QED BY <3>1, <3>3, <3>5, <3>6 DEF Known
  <2> QED BY <1>0, <2>1 DEF LeaseInv
<1> QED BY <1>0, <1>2, <1>3, <1>4, <1>5, <1>6, WorkerKnown DEF Next

LEMMA LeaseInit == ASSUME Init PROVE LeaseInv
BY TypeInit DEF Init, Idle, LeaseInv, Known

-----------------------------------------------------------------------------
(* The range's state moves along the state machine.                        *)

\* The one write of a worker that leaves the machine is a build held without an operation
\* (provisioning back to created). A task at its entry finds its operation whenever the range
\* waits for it, and no build is accepted while the task has the lease.
Hold(x) ==
    /\ ex[x].pc = "holding" /\ ex[x].task = 0 /\ ex[x].job = "provision"
    /\ lease.holder = x /\ ~lease.tomb
    => rstate # "provisioning"

HoldInv == \A x \in Execution : Hold(x)

\* An execution comes to hold a build only from its entry.
LEMMA HoldStep ==
    ASSUME LeaseInv, RequestInv, HoldInv, TypeOK', Timely, [Next]_vars,
           \A x \in Execution, op \in 0 .. MaxGen : ~AtEntryUnreadable(x, op)
    PROVE  HoldInv'
<1> USE DEF row, api, world
<1>0. TypeOK /\ lease \in LeaseRow
    BY DEF LeaseInv, TypeOK
<1>1. ASSUME ex' = ex, lease'.holder = lease.holder \/ lease'.holder \notin Execution,
             lease.tomb => lease'.tomb \/ lease'.holder \notin Execution,
             rstate' = rstate \/ rstate' # "provisioning"
      PROVE  HoldInv'
    BY <1>1 DEF HoldInv, Hold
<1>2. CASE UNCHANGED vars \/ BrokerNext \/ SetupFailed
    BY <1>1, <1>2 DEF vars, BrokerNext, ClaimBlocked, ClaimError, SetupFailed
<1>3. CASE Restore
  <2>1. ex' = ex /\ lease' = lease /\ (rstate' = rstate \/ rstate' # "provisioning")
    BY <1>3 DEF Restore, SnapshotStates
  <2> QED BY <1>1, <2>1
<1>4. CASE ApiNext
  <2>1. ASSUME NEW a \in Requests, NEW b \in BOOLEAN, Accept(a, b) PROVE HoldInv'
    <3>1. CASE a = "provision"
      <4>1. ~WorkerActing(lease) /\ ex' = ex /\ lease' = lease
        BY <2>1, <3>1 DEF Accept, Check
      <4> QED BY <4>1, KnownMeans DEF HoldInv, Hold
    <3>2. CASE a # "provision"
      <4>1. ex' = ex /\ lease' = lease /\ rstate' # "provisioning"
        BY <2>1, <3>2, OperationsAssumption DEF Accept, InProgress, Action, OperationsAssumption
      <4> QED BY <1>1, <4>1
    <3> QED BY <3>1, <3>2
  <2>2. ASSUME NEW g \in Generation, Abandon(g) PROVE HoldInv'
    <3>1. ex' = ex /\ lease' \in {lease, Fenced(lease), Reabandoned(lease)}
      BY <2>2 DEF Abandon, FenceLease
    <3>2. lease'.holder = lease.holder /\ (lease.tomb => lease'.tomb)
      BY <1>0, <3>1 DEF Fenced, Reabandoned, LeaseRow
    <3> QED BY <1>1, <2>2, <3>1, <3>2 DEF Abandon
  <2>3. CASE ForceRelease
    BY <1>1, <2>3, LeaseAssumption DEF ForceRelease, NoLease, LeaseAssumption
  <2>4. CASE MarkSent \/ SenderDies \/ GetOperations \/ RacedGetRange \/ RacedGetOps \/ RacedGetWrite
               \/ AskRestore \/ RacedAskRestore \/ RacedWriteRestore
               \/ (\E g \in Generation : Send(g) \/ RunDestroyWithBypass(g))
    BY <1>1, <2>4 DEF MarkSent, SenderDies, GetOperations, RacedGetRange, RacedGetOps, RacedGetWrite,
                      AskRestore, RacedAskRestore, RacedWriteRestore, Send, RunDestroyWithBypass
  <2>5. CASE DiscardUnbuilt \/ CloseWindow \/ (\E f \in BOOLEAN : AbandonRange(f))
               \/ (\E s \in 0 .. MaxGen : OpenWindow(s))
    BY <1>1, <2>5 DEF DiscardUnbuilt, CloseWindow, AbandonRange, OpenWindow
  <2> QED BY <1>4, <2>1, <2>2, <2>3, <2>4, <2>5 DEF ApiNext
<1>5. CASE Tick
  <2>1. \A x \in Execution : /\ ex'[x].pc = ex[x].pc /\ ex'[x].task = ex[x].task
                             /\ ex'[x].job = ex[x].job
    <3> SUFFICES ASSUME NEW x \in Execution
                 PROVE  ex'[x].pc = ex[x].pc /\ ex'[x].task = ex[x].task /\ ex'[x].job = ex[x].job
      OBVIOUS
    <3>1. ex'[x] = [ex[x] EXCEPT !.missed = IF Live(x) THEN @ + 1 ELSE @,
                                 !.grace = IF @ > 0 THEN @ - 1 ELSE 0] /\ ex[x] \in Run
      BY <1>0, <1>5 DEF Tick, TypeOK
    <3> QED BY <3>1 DEF Run
  <2>2. rstate' = rstate /\ lease'.holder = lease.holder /\ lease'.tomb = lease.tomb
    BY <1>0, <1>5 DEF Tick, Aged, LeaseRow
  <2> QED BY <2>1, <2>2 DEF HoldInv, Hold
<1>6. ASSUME NEW x \in Execution, WorkerNext(x) PROVE HoldInv'
  <2>0. /\ ex[x] \in Run /\ ex \in [Execution -> Run] /\ gen \in 0 .. MaxGen
        /\ ex' = [ex EXCEPT ![x] = ex'[x]]
    BY <1>0, <1>6, StepsAlone DEF TypeOK
  <2>1. ASSUME \/ lease' = lease \/ lease'.holder \notin Execution \ {x}
               \/ lease'.holder = lease.holder /\ lease'.tomb = lease.tomb,
               rstate' = rstate \/ rstate' # "provisioning",
               \/ ex'[x].pc # "holding"
               \/ /\ ex'[x].pc = ex[x].pc /\ ex'[x].task = ex[x].task /\ ex'[x].job = ex[x].job
                  /\ lease'.holder = lease.holder /\ lease'.tomb = lease.tomb
               \/ ex'[x].task = 0 /\ ex'[x].job = "provision" => rstate' # "provisioning"
        PROVE  HoldInv'
    <3>1. ASSUME NEW y \in Execution, y # x PROVE Hold(y)'
      <4>1. ex'[y] = ex[y] /\ Hold(y)
        BY <2>0, <3>1 DEF HoldInv
      <4> QED BY <2>1, <3>1, <4>1 DEF Hold
    <3>2. Hold(x)'
      BY <2>1 DEF HoldInv, Hold
    <3> QED BY <3>1, <3>2 DEF HoldInv
  <2>2. ASSUME OwnOperation(x) = 0 PROVE rstate # InProgress(ex[x].job)
    BY <2>0, <2>2 DEF RequestInv, OwnOperation, Run
  <2>3. InProgress("provision") = "provisioning"
    BY DEF InProgress
  <2>4. CASE AtEntry(x)
    BY <2>0, <2>1, <2>2, <2>3, <2>4 DEF AtEntry, Run
  <2>5. ASSUME NEW m \in Message, ClaimLease(x, m) PROVE HoldInv'
    <3>1. ex'[x].pc = "claimed" /\ lease'.holder = x /\ rstate' = rstate
      BY <2>0, <2>5 DEF ClaimLease, Idle, Claimed, NoLease
    <3> QED BY <2>1, <3>1
  <2>6. CASE ClaimCheck(x) \/ HoldOperation(x) \/ StartCall(x) \/ CallOk(x) \/ CallPartial(x)
               \/ CallRaised(x) \/ SoftLimit(x)
    <3>1. lease' = lease /\ rstate' = rstate
      BY <2>6 DEF ClaimCheck, HoldOperation, StartCall, CallOk, CallPartial, CallRaised, SoftLimit
    <3>2. ex'[x].pc # "holding"
      <4>1. CASE ClaimCheck(x)
        BY <2>0, <4>1 DEF ClaimCheck, Run
      <4>2. CASE HoldOperation(x)
        BY <2>0, <4>2 DEF HoldOperation, Run
      <4>3. CASE StartCall(x)
        BY <2>0, <4>3 DEF StartCall, Run
      <4>4. CASE CallOk(x)
        BY <2>0, <4>4 DEF CallOk, Run
      <4>5. CASE CallPartial(x)
        BY <2>0, <4>5 DEF CallPartial, Run
      <4>6. CASE CallRaised(x)
        BY <2>0, <4>6 DEF CallRaised, Run
      <4>7. CASE SoftLimit(x)
        BY <2>0, <4>7 DEF SoftLimit, Run
      <4> QED BY <2>6, <4>1, <4>2, <4>3, <4>4, <4>5, <4>6, <4>7
    <3> QED BY <2>1, <3>1, <3>2
  <2>7. CASE HoldRange(x)
    BY <2>0, <2>1, <2>7 DEF HoldRange, Run
  <2>8. ASSUME NEW e \in {"retry", "final"}, FailBeforeCall(x, e) \/ CallFailed(x, e) PROVE HoldInv'
    <3>1. lease' = lease /\ rstate' = rstate
      BY <2>8 DEF FailBeforeCall, CallFailed
    <3>2. ex'[x].pc # "holding"
      <4>1. CASE FailBeforeCall(x, e)
        BY <2>0, <4>1 DEF FailBeforeCall, Run
      <4>2. CASE CallFailed(x, e)
        BY <2>0, <4>2 DEF CallFailed, Run
      <4> QED BY <2>8, <4>1, <4>2
    <3> QED BY <2>1, <3>1, <3>2
  <2>9. CASE EndThread(x)
    BY <2>0, <2>1, <2>9 DEF EndThread, Run
  <2>10. CASE WriteOutcome(x)
    <3>1. rstate' # "provisioning"
      BY <2>0, <2>10 DEF WriteOutcome, Done
    <3> QED BY <2>0, <2>1, <2>10, <3>1 DEF WriteOutcome, Run
  <2>11. CASE WriteRefused(x)
    BY <2>0, <2>1, <2>11 DEF WriteRefused, AfterRefusal, Run
  <2>12. CASE RecordFailure(x)
    BY <2>0, <2>1, <2>12 DEF RecordFailure, Run
  <2>13. CASE WriteFails(x) \/ RecordLeftover(x) \/ LeftoverLost(x) \/ Raised(x)
                \/ (\E ok \in BOOLEAN : Discard(x, ok))
    <3>1. lease' = lease /\ rstate' = rstate
      BY <2>13 DEF WriteFails, RecordLeftover, LeftoverLost, Raised, Discard
    <3>2. ex'[x].pc # "holding"
      <4>1. CASE WriteFails(x)
        BY <2>0, <4>1 DEF WriteFails, Run
      <4>2. CASE RecordLeftover(x)
        BY <2>0, <4>2 DEF RecordLeftover, Run
      <4>3. CASE LeftoverLost(x)
        BY <2>0, <4>3 DEF LeftoverLost, Run
      <4>4. CASE Raised(x)
        BY <2>0, <4>4 DEF Raised, Run
      <4>5. ASSUME NEW ok \in BOOLEAN, Discard(x, ok) PROVE ex'[x].pc # "holding"
        BY <2>0, <4>5 DEF Discard, Run
      <4> QED BY <2>13, <4>1, <4>2, <4>3, <4>4, <4>5
    <3> QED BY <2>1, <3>1, <3>2
  <2>14. CASE End(x) \/ ReleaseFailed(x) \/ Keep(x) \/ Crash(x)
    <3>1. rstate' = rstate /\ (ex'[x] = Idle \/ \E th \in BOOLEAN : ex'[x] = Over(ex[x], th))
      BY <2>0, <2>14 DEF End, ReleaseFailed, Keep, Crash, Run
    <3>2. ex'[x].pc # "holding"
      <4>1. CASE ex'[x] = Idle
        BY <4>1 DEF Idle
      <4>2. ASSUME NEW th \in BOOLEAN, ex'[x] = Over(ex[x], th) PROVE ex'[x].pc # "holding"
        BY <4>2 DEF Over, Idle
      <4> QED BY <3>1, <4>1, <4>2
    <3>3. lease' = lease \/ lease'.holder \notin Execution \ {x}
      <4>1. CASE End(x) \/ ReleaseFailed(x) \/ Crash(x)
        <5>1. lease' = lease \/ lease' = NoLease
          BY <4>1 DEF End, ReleaseFailed, Crash, Released
        <5>2. NoLease.holder \notin Execution
          BY LeaseAssumption DEF NoLease, LeaseAssumption
        <5> QED BY <5>1, <5>2
      <4>2. CASE Keep(x)
        BY <1>0, <4>2 DEF Keep, KeptLease, Mine, Extended, LeaseRow
      <4> QED BY <2>14, <4>1, <4>2
    <3> QED BY <2>1, <3>1, <3>2, <3>3
  <2>15. ASSUME NEW late \in BOOLEAN, Beat(x, late) PROVE HoldInv'
    <3>1. ex'[x].pc = ex[x].pc /\ ex'[x].task = ex[x].task /\ ex'[x].job = ex[x].job /\ rstate' = rstate
      BY <2>0, <2>15 DEF Beat, Run
    <3>2. lease'.holder = lease.holder /\ lease'.tomb = lease.tomb
      BY <1>0, <2>15 DEF Beat, Extended, LeaseRow
    <3> QED BY <2>1, <3>1, <3>2
  <2> QED
    BY <1>6, <2>4, <2>5, <2>6, <2>7, <2>8, <2>9, <2>10, <2>11, <2>12, <2>13, <2>14, <2>15
    DEF WorkerNext
<1> QED BY <1>2, <1>3, <1>4, <1>5, <1>6 DEF Next

\* Until something could not be read, or a raced request closed an operation, a held build has
\* its operation.
MachineInv ==
    /\ LeaseInv /\ BudgetInv
    /\ Spent("racedRead") \/ RequestInv
    /\ Spent("racedRead") \/ Spent("unreadable") \/ HoldInv

LEMMA MachineStep == ASSUME MachineInv, Timely, [Next]_vars PROVE MachineInv'
<1>0. TypeOK /\ TypeOK' /\ LeaseInv' /\ BudgetInv'
    BY LeaseStep, TypeStep, BudgetStep DEF MachineInv, LeaseInv
<1>1. \A f \in Rare : Spent(f) => Spent(f)'
    BY <1>0, SpentStays
<1>2. Raced => Spent("racedRead")'
    BY <1>0, SpendSpends DEF MachineInv, Raced, RacedGetRange, RacedAskRestore, Rare
<1>3. ASSUME NEW x \in Execution, NEW op \in 0 .. MaxGen, AtEntryUnreadable(x, op) PROVE Spent("unreadable")'
    BY <1>0, <1>3, SpendSpends DEF MachineInv, AtEntryUnreadable, Rare
<1>4. (Spent("racedRead") \/ RequestInv)'
    BY <1>1, <1>2, RequestStep DEF MachineInv, Rare
<1>5. (Spent("racedRead") \/ Spent("unreadable") \/ HoldInv)'
    BY <1>0, <1>1, <1>3, HoldStep DEF MachineInv, Rare
<1> QED BY <1>0, <1>4, <1>5 DEF MachineInv

\* A step from a state that satisfies the invariants moves the range along the machine.
LEMMA MoveStep ==
    ASSUME MachineInv, [Next]_vars
    PROVE  \/ rstate' = rstate \/ rstate' \in Transitions(rstate)
           \/ rstate = "provisioning" /\ rstate' = "destroying"
           \/ restore = "asked" /\ {rstate, rstate'} \subseteq Restorable
           \/ rstate = "provisioning" /\ rstate' = "created" /\ (Spent("unreadable") \/ Spent("racedRead"))
<1> USE DEF row, api, world
<1> DEFINE Goal == \/ rstate' = rstate \/ rstate' \in Transitions(rstate)
                   \/ rstate = "provisioning" /\ rstate' = "destroying"
                   \/ restore = "asked" /\ {rstate, rstate'} \subseteq Restorable
                   \/ /\ rstate = "provisioning" /\ rstate' = "created"
                      /\ Spent("unreadable") \/ Spent("racedRead")
<1>0. TypeOK
    BY DEF MachineInv, LeaseInv
<1>1. ASSUME NEW a \in Action, rstate = InProgress(a)
      PROVE  Done(a) \in Transitions(rstate) /\ "failed" \in Transitions(rstate)
    BY <1>1 DEF Action, InProgress, Done, Transitions
<1>2. CASE UNCHANGED vars
    BY <1>2 DEF vars
<1>3. ASSUME NEW a \in Requests, NEW b \in BOOLEAN, Accept(a, b) PROVE Goal
  <2>1. rstate' = InProgress(a) /\ (InProgress(a) \in Transitions(rstate) \/ (a = "destroy" /\ Parked(Reconciled)))
    BY <1>3 DEF Accept, Check
  <2>2. ASSUME a = "destroy", Parked(Reconciled) PROVE Goal
    BY <2>1, <2>2 DEF Parked, InProgress
  <2> QED BY <2>1, <2>2
<1>4. ASSUME NEW g \in Generation, Abandon(g) PROVE Goal
  <2>1. ops[g].action \in Action
    BY <1>0 DEF TypeOK, Operation
  <2> QED BY <1>1, <1>4, <2>1 DEF Abandon
<1>5. CASE DiscardUnbuilt \/ SetupFailed \/ (\E f \in BOOLEAN : AbandonRange(f))
    BY <1>5 DEF DiscardUnbuilt, SetupFailed, AbandonRange, Transitions
<1>6. ASSUME ApiNext, ~DiscardUnbuilt, \A f \in BOOLEAN : ~AbandonRange(f),
             \A g \in Generation : ~Abandon(g), \A a \in Requests, b \in BOOLEAN : ~Accept(a, b)
      PROVE  rstate' = rstate
    BY <1>6 DEF ApiNext, Send, RunDestroyWithBypass, MarkSent, SenderDies, GetOperations, RacedGetRange,
                RacedGetOps, RacedGetWrite, AskRestore, RacedAskRestore, RacedWriteRestore,
                ForceRelease, OpenWindow, CloseWindow
<1>7. CASE BrokerNext \/ Tick
    BY <1>7 DEF BrokerNext, ClaimBlocked, ClaimError, Tick
<1>8. CASE Restore
    BY <1>8 DEF Restore, Restorable, SnapshotStates
<1>9. ASSUME NEW x \in Execution, WorkerNext(x) PROVE Goal
  <2>0. ex[x].job \in Action
    BY <1>0 DEF TypeOK, Run
  <2>1. CASE HoldRange(x)
    <3>1. CASE rstate' = rstate
      BY <3>1
    <3>2. CASE rstate' # rstate
      <4>1. ex[x].job = "provision" /\ rstate = "provisioning" /\ rstate' = "created" /\ Obs(x) = "held"
        BY <2>1, <3>2 DEF HoldRange, Waiting, InProgress
      <4>2. lease.holder = x /\ ~lease.tomb
        BY <4>1 DEF Obs, Observe
      <4>3. ~Hold(x)
        BY <2>1, <4>1, <4>2 DEF Hold, HoldRange
      <4> QED BY <4>1, <4>3 DEF MachineInv, HoldInv
    <3> QED BY <3>1, <3>2
  <2>2. CASE WriteOutcome(x)
    BY <1>1, <2>0, <2>2 DEF WriteOutcome, Waiting
  <2>3. CASE RecordFailure(x)
    BY <1>1, <2>0, <2>3 DEF RecordFailure, Waiting
  <2>4. CASE ClaimCheck(x) \/ AtEntry(x) \/ (\E op \in 0 .. MaxGen : AtEntryUnreadable(x, op))
               \/ HoldOperation(x) \/ (\E m \in Message : ClaimLease(x, m))
               \/ (\E e \in {"retry", "final"} : FailBeforeCall(x, e) \/ CallFailed(x, e))
    BY <2>4 DEF ClaimCheck, AtEntry, AtEntryUnreadable, HoldOperation, ClaimLease, FailBeforeCall, CallFailed
  <2>5. CASE StartCall(x) \/ CallOk(x) \/ CallPartial(x) \/ CallRaised(x) \/ SoftLimit(x)
               \/ EndThread(x) \/ WriteRefused(x) \/ WriteFails(x)
    BY <2>5 DEF StartCall, CallOk, CallPartial, CallRaised, SoftLimit, EndThread, WriteRefused, WriteFails
  <2>6. CASE RecordLeftover(x) \/ LeftoverLost(x) \/ End(x) \/ Raised(x) \/ ReleaseFailed(x) \/ Keep(x)
               \/ Crash(x) \/ (\E ok \in BOOLEAN : Discard(x, ok)) \/ (\E late \in BOOLEAN : Beat(x, late))
    BY <2>6 DEF RecordLeftover, LeftoverLost, End, Raised, ReleaseFailed, Keep, Crash, Discard, Beat
  <2> QED BY <1>9, <2>1, <2>2, <2>3, <2>4, <2>5, <2>6 DEF WorkerNext
<1> QED BY <1>2, <1>3, <1>4, <1>5, <1>6, <1>7, <1>8, <1>9 DEF Next

\* The range's state never leaves the API's state machine but in the three ways MovesAlongMachine
\* names, although workers write it with SQL of their own, through crashes, soft time limits,
\* stragglers, restores and force-releases: what a worker writes, it writes from the state it works
\* in, and while its lease lasts no build is accepted under it. A live task may miss no two
\* heartbeats in a row (Timely).
THEOREM StateFollowsMachine ==
    ASSUME Timely
    PROVE  Spec => MovesAlongMachine
<1>1. Init => MachineInv
  <2>1. Init => HoldInv
    BY DEF Init, HoldInv, Hold, Idle
  <2>2. Init => BudgetInv
    BY OperationsAssumption DEF Init, BudgetInv, OperationsAssumption
  <2> QED BY <2>1, <2>2, RequestInit, LeaseInit DEF MachineInv
<1>2. MachineInv /\ [Next]_vars => MachineInv'
    BY MachineStep
<1>3. MachineInv /\ [Next]_vars =>
        [\/ rstate' = rstate \/ rstate' \in Transitions(rstate)
         \/ rstate = "provisioning" /\ rstate' = "destroying"
         \/ restore = "asked" /\ {rstate, rstate'} \subseteq Restorable
         \/ rstate = "provisioning" /\ rstate' = "created" /\ (Spent("unreadable") \/ Spent("racedRead"))]_vars
    BY MoveStep
<1> QED BY <1>1, <1>2, <1>3, PTL DEF Spec, MovesAlongMachine
=============================================================================
