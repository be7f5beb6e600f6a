------------------------ MODULE RangeSnapshotsProofs ------------------------
(***************************************************************************)
(* RangeSnapshots, for any number of snapshots, executions and retries: a  *)
(* snapshot that reads ready is on the hypervisor (TakeInv), a revert is   *)
(* visible to the API while it runs (RestoreInv), or under the lease kept  *)
(* over it (KeptInv), and whoever put something on the hypervisor is still *)
(* to come back to it (LeftInv). But for KeptInv all of it needs requests  *)
(* that do not overlap (Quiet).                                            *)
(***************************************************************************)
EXTENDS RangeSnapshots, TLAPS

USE SnapshotsAssumption

-----------------------------------------------------------------------------
(* Types.                                                                  *)

RowState == {"none", "creating", "ready", "failed", "restoring", "deleted"}

StepPC == {"loaded", "taking", "taken", "reverting", "reverted", "acking"}

\* The type invariant in parts: the range, the snapshots, the tasks and the executions.
StateOK ==
    /\ lab \in BOOLEAN
    /\ rstate \in Live \cup {"stopping", "starting", "failed", "destroying", "destroyed"}
    /\ op \in {"none", "stop", "start", "destroy"}

RowOK ==
    /\ row \in [Snap -> RowState]
    /\ data \in [Snap -> BOOLEAN]
    /\ was \in [Snap -> Live]
    /\ hv \in [Snap -> {"none", "part", "whole"}]

TaskOK ==
    /\ asked \subseteq Task \X Snap \X Settled
    /\ unsent \subseteq Task \X Snap \X Settled \X {"alone", "overlapped"}
    /\ queue \subseteq Message

ExecOK ==
    /\ exec \in [Exec -> Run \cup {None}]
    /\ lease \in Exec \cup {None, Kept}
    /\ straggler \subseteq Task \X Snap

BudgetOK == budget \in [Rare -> Nat]

\* They make up the type invariant.
LEMMA TypeParts ==
    /\ TypeOK <=> StateOK /\ RowOK /\ TaskOK /\ ExecOK /\ BudgetOK
    /\ TypeOK' <=> StateOK' /\ RowOK' /\ TaskOK' /\ ExecOK' /\ BudgetOK'
BY Zenon DEF TypeOK, StateOK, RowOK, TaskOK, ExecOK, BudgetOK, RowState

\* A step that leaves a part alone keeps it.
LEMMA PartsKept ==
    /\ StateOK /\ UNCHANGED <<lab, rstate, op>> => StateOK'
    /\ RowOK /\ UNCHANGED <<row, data, was, hv>> => RowOK'
    /\ TaskOK /\ UNCHANGED <<asked, unsent, queue>> => TaskOK'
    /\ ExecOK /\ UNCHANGED <<exec, lease, straggler>> => ExecOK'
    /\ BudgetOK /\ UNCHANGED budget => BudgetOK'
BY DEF StateOK, RowOK, TaskOK, ExecOK, BudgetOK

\* The types hold initially.
LEMMA TypeInit == ASSUME Init PROVE TypeOK
<1>1. StateOK /\ RowOK
    BY DEF Init, StateOK, RowOK, RowState, Live
<1>2. TaskOK /\ ExecOK /\ BudgetOK
    BY DEF Init, TaskOK, ExecOK, BudgetOK
<1> QED BY <1>1, <1>2, TypeParts

\* What _update_snapshot_state(only_from) does to the rows.
LEMMA MovedMeans ==
    ASSUME RowOK, NEW n \in Snap, NEW from, NEW to \in RowState
    PROVE  /\ Moved(n, from, to) \in [Snap -> RowState]
           /\ \A o \in Snap : Moved(n, from, to)[o] = IF o = n /\ row[n] \in from THEN to ELSE row[o]
BY DEF RowOK, Moved

\* A message that is sent, or sent again, is of its snapshot and task.
LEMMA FreshMeans ==
    ASSUME NEW t \in Task, NEW n \in Snap, NEW u, u[1] = t, u[2] = n, NEW c \in BOOLEAN
    PROVE  Fresh(u, c) \in Message /\ Fresh(u, c).task = t /\ Fresh(u, c).snap = n
BY DEF Fresh, Message

\* A retry is of its message's snapshot and task, and there is none after the last attempt.
LEMMA RetryMeans ==
    ASSUME NEW m \in Message
    PROVE  /\ Retry(m) \subseteq Message
           /\ \A r \in Retry(m) : r.task = m.task /\ r.snap = m.snap
           /\ \A r, o \in Retry(m) : r = o
           /\ LastAttempt(m) <=> Retry(m) = {}
<1>1. CASE m.tries < MaxRetries
  <2>1. m.tries \in 0 .. MaxRetries /\ m.tries + 1 \in 0 .. MaxRetries
    BY <1>1 DEF Message
  <2>2. [m EXCEPT !.tries = @ + 1] \in Message
    BY <2>1 DEF Message
  <2>3. [m EXCEPT !.tries = @ + 1].task = m.task /\ [m EXCEPT !.tries = @ + 1].snap = m.snap
    BY DEF Message
  <2>4. Retry(m) = {[m EXCEPT !.tries = @ + 1]}
    BY <1>1 DEF Retry
  <2> QED BY <1>1, <2>1, <2>2, <2>3, <2>4 DEF LastAttempt
<1>2. CASE ~(m.tries < MaxRetries)
    BY <1>2 DEF Retry, LastAttempt, Message
<1> QED BY <1>1, <1>2

\* An execution goes on.
LEMMA ToMeans ==
    ASSUME ExecOK, NEW e \in Exec, exec[e] # None, NEW p \in StepPC, To(e, p)
    PROVE  /\ exec' \in [Exec -> Run \cup {None}]
           /\ exec'[e] # None /\ exec'[e].pc = p /\ exec'[e].msg = exec[e].msg
           /\ \A f \in Exec : f # e => exec'[f] = exec[f]
<1>1. exec[e] \in Run
    BY DEF ExecOK
<1>2. exec' = [exec EXCEPT ![e] = [exec[e] EXCEPT !.pc = p]]
    BY DEF To
<1>3. [exec[e] EXCEPT !.pc = p] \in Run
    BY <1>1 DEF Run, StepPC
<1>4. [exec[e] EXCEPT !.pc = p].pc = p /\ [exec[e] EXCEPT !.pc = p].msg = exec[e].msg
    BY <1>1 DEF Run
<1>5. exec'[e] = [exec[e] EXCEPT !.pc = p]
    BY <1>2 DEF ExecOK
<1> QED BY <1>2, <1>3, <1>4, <1>5 DEF ExecOK

\* An execution takes a message.
LEMMA StartedMeans ==
    ASSUME TaskOK, ExecOK, NEW e \in Exec, NEW m \in queue, NEW p \in StepPC, Started(e, m, p)
    PROVE  /\ exec[e] = None /\ m \in Message
           /\ exec' \in [Exec -> Run \cup {None}] /\ queue' = queue \ {m}
           /\ exec'[e] # None /\ exec'[e].pc = p /\ exec'[e].msg = m
           /\ \A f \in Exec : f # e => exec'[f] = exec[f]
<1>1. m \in Message
    BY DEF TaskOK
<1>2. [pc |-> p, msg |-> m] \in Run
    BY <1>1 DEF Run, StepPC
<1>3. exec' = [exec EXCEPT ![e] = [pc |-> p, msg |-> m]] /\ exec[e] = None /\ queue' = queue \ {m}
    BY DEF Started
<1>4. exec'[e] = [pc |-> p, msg |-> m]
    BY <1>3 DEF ExecOK
<1> QED BY <1>1, <1>2, <1>3, <1>4 DEF ExecOK

\* An execution is over.
LEMMA OverMeans ==
    ASSUME ExecOK, NEW e \in Exec, exec[e] # None, exec' = [exec EXCEPT ![e] = None]
    PROVE  /\ exec' \in [Exec -> Run \cup {None}] /\ exec'[e] = None
           /\ exec[e] \in Run /\ exec[e].msg \in Message
           /\ \A f \in Exec : f # e => exec'[f] = exec[f]
BY DEF ExecOK, Run

\* A rare event leaves a type-correct budget.
LEMMA SpendType ==
    ASSUME BudgetOK, NEW f \in Rare, NEW happens, Spend(f) \/ SpendIf(happens, f)
    PROVE  BudgetOK'
BY DEF BudgetOK, Spend, SpendIf

\* The API's steps keep the types ...
LEMMA ApiType == ASSUME TypeOK, Api \/ Sent PROVE TypeOK'
<1>0. StateOK /\ RowOK /\ TaskOK /\ ExecOK /\ BudgetOK
    BY TypeParts
<1>1. UNCHANGED <<exec, lease, straggler, hv, asked>>
    BY DEF Api, Sent, CreateSnapshot, RestoreSnapshot, DeleteSnapshot, LabBaseline, LabRetry, LabReset,
           Send, SendRefused, SenderDies, SentTwice, AcceptPower, AcceptDestroy, rows
<1>2. StateOK'
    BY <1>0, ZenonT(60) DEF Api, Sent, CreateSnapshot, RestoreSnapshot, DeleteSnapshot, LabBaseline, LabRetry, LabReset,
           Send, SendRefused, SenderDies, SentTwice, AcceptPower, AcceptDestroy, StateOK, Live
<1>3. BudgetOK'
  <2>1. UNCHANGED budget \/ \E f \in Rare : Spend(f)
    BY DEF Api, Sent, CreateSnapshot, RestoreSnapshot, DeleteSnapshot, LabBaseline, LabRetry, LabReset,
           Send, SendRefused, SenderDies, SentTwice, AcceptPower, AcceptDestroy, Rare
  <2> QED BY <1>0, <2>1, SpendType, PartsKept
<1>4. RowOK' /\ TaskOK'
  <2>0. \A u \in unsent : u[1] \in Task /\ u[2] \in Snap /\ u[3] \in Settled /\ u[4] \in {"alone", "overlapped"}
    BY <1>0 DEF TaskOK
  <2>1. ASSUME NEW n \in Snap, CreateSnapshot(n) PROVE RowOK' /\ TaskOK'
    <3>1. <<"snapshot_range", n, "failed", "alone">> \in Task \X Snap \X Settled \X {"alone", "overlapped"}
      BY DEF Task, Settled
    <3>2. TaskOK'
      BY <1>0, <2>1, <3>1 DEF CreateSnapshot, TaskOK
    <3>3. RowOK'
      BY <1>0, <2>1 DEF CreateSnapshot, CanCreate, SetRow, RowOK, RowState
    <3> QED BY <3>2, <3>3
  <2>2. ASSUME NEW n \in Snap, RestoreSnapshot(n) \/ DeleteSnapshot(n) PROVE RowOK' /\ TaskOK'
    <3>1. /\ <<"restore_snapshot", n, "ready", "alone">> \in Task \X Snap \X Settled \X {"alone", "overlapped"}
          /\ row[n] \in {"failed", "ready"} =>
                <<"delete_snapshot", n, row[n], "alone">> \in Task \X Snap \X Settled \X {"alone", "overlapped"}
      BY DEF Task, Settled
    <3>2. TaskOK'
      BY <1>0, <2>2, <3>1 DEF RestoreSnapshot, DeleteSnapshot, TaskOK
    <3>3. RowOK'
      BY <1>0, <2>2 DEF RestoreSnapshot, DeleteSnapshot, SetRow, RowOK, RowState
    <3> QED BY <3>2, <3>3
  <2>3. ASSUME NEW n \in Snap, LabBaseline(n) \/ LabReset(n) PROVE RowOK' /\ TaskOK'
    <3>1. /\ <<"restore_snapshot", n, "ready", "alone">> \in Task \X Snap \X Settled \X {"alone", "overlapped"}
          /\ <<"snapshot_range", n, "failed", "alone">> \in Task \X Snap \X Settled \X {"alone", "overlapped"}
      BY DEF Task, Settled
    <3>2. TaskOK'
      BY <1>0, <2>3, <3>1 DEF LabBaseline, LabReset, TaskOK
    <3>3. RowOK'
      BY <1>0, <2>3 DEF LabBaseline, LabReset, SetRow, RowOK, RowState
    <3> QED BY <3>2, <3>3
  <2>4. ASSUME NEW n \in Snap, LabRetry(n) PROVE RowOK' /\ TaskOK'
    <3>1. Fresh(<<"snapshot_range", n>>, TRUE) \in Message
      BY FreshMeans DEF Task
    <3>2. TaskOK'
      BY <1>0, <2>4, <3>1 DEF LabRetry, TaskOK
    <3>3. RowOK'
      BY <1>0, <2>4 DEF LabRetry, SetRow, RowOK, RowState
    <3> QED BY <3>2, <3>3
  <2>5. ASSUME NEW u \in unsent, SendRefused(u) PROVE RowOK' /\ TaskOK'
    <3>1. TaskOK'
      BY <1>0, <2>5 DEF SendRefused, TaskOK
    <3>2. row' \in [Snap -> RowState]
      BY <1>0, <2>0, <2>5, MovedMeans DEF SendRefused, RowState, Settled
    <3> QED BY <1>0, <2>5, <3>1, <3>2 DEF SendRefused, RowOK
  <2>6. ASSUME NEW u \in unsent, Send(u) \/ SenderDies(u) \/ SentTwice(u) PROVE RowOK' /\ TaskOK'
    <3>1. \A c \in BOOLEAN : Fresh(u, c) \in Message
      BY <2>0, FreshMeans
    <3>2. UNCHANGED <<row, data, was, hv>>
      BY <2>6 DEF Send, SenderDies, SentTwice, rows
    <3>3. TaskOK'
      BY <1>0, <2>6, <3>1 DEF Send, SenderDies, SentTwice, TaskOK
    <3> QED BY <1>0, <3>2, <3>3, PartsKept
  <2>7. CASE AcceptDestroy \/ (\E a \in {"stop", "start"} : AcceptPower(a))
    BY <1>0, <2>7, PartsKept DEF AcceptDestroy, AcceptPower, rows
  <2> QED BY <2>1, <2>2, <2>3, <2>4, <2>5, <2>6, <2>7 DEF Api, Sent
<1> QED BY <1>0, <1>1, <1>2, <1>3, <1>4, TypeParts, PartsKept

\* ... the requests that overlap ...
LEMMA OverlapType == ASSUME TypeOK, Overlaps PROVE TypeOK'
<1>0. StateOK /\ RowOK /\ TaskOK /\ ExecOK /\ BudgetOK
    BY TypeParts
<1>1. ASSUME NEW n \in Snap, DeleteAgain(n) PROVE TypeOK'
  <2>1. Spend("overlap") /\ UNCHANGED <<lab, rstate, op, row, data, was, hv, exec, lease, straggler>>
    BY <1>1 DEF DeleteAgain, rows
  <2>2. <<"delete_snapshot", n, "deleted", "overlapped">> \in Task \X Snap \X Settled \X {"alone", "overlapped"}
    BY DEF Task, Settled
  <2>3. TaskOK'
    BY <1>0, <1>1, <2>2 DEF DeleteAgain, TaskOK
  <2> QED BY <1>0, <2>1, <2>3, TypeParts, PartsKept, SpendType DEF Rare
<1>2. ASSUME NEW n \in Snap, AskCreate(n) \/ AskRestore(n) \/ AskDelete(n) PROVE TypeOK'
  <2>1. Spend("overlap") /\ UNCHANGED <<lab, rstate, op, row, data, hv, unsent, queue, exec, lease, straggler>>
    BY <1>2 DEF AskCreate, AskRestore, AskDelete, rows
  <2>2. /\ <<"snapshot_range", n, "failed">> \in Task \X Snap \X Settled
        /\ <<"restore_snapshot", n, "ready">> \in Task \X Snap \X Settled
        /\ row[n] \in Settled => <<"delete_snapshot", n, row[n]>> \in Task \X Snap \X Settled
    BY DEF Task, Settled
  <2>3. TaskOK'
    BY <1>0, <1>2, <2>1, <2>2 DEF AskCreate, AskRestore, AskDelete, TaskOK
  <2>4. was' \in [Snap -> Live]
    BY <1>0, <1>2 DEF AskCreate, AskRestore, AskDelete, CanCreate, RowOK, rows
  <2>5. RowOK'
    BY <1>0, <2>1, <2>4 DEF RowOK
  <2> QED BY <1>0, <2>1, <2>3, <2>5, TypeParts, PartsKept, SpendType DEF Rare
<1>3. ASSUME NEW q \in asked, CommitAsked(q) PROVE TypeOK'
  <2>1. UNCHANGED <<lab, rstate, op, data, was, hv, queue, exec, lease, straggler, budget>>
    BY <1>3 DEF CommitAsked
  <2>2. q[1] \in Task /\ q[2] \in Snap /\ q[3] \in Settled
    BY <1>0 DEF TaskOK
  <2>3. <<q[1], q[2], q[3], "overlapped">> \in Task \X Snap \X Settled \X {"alone", "overlapped"}
    BY <2>2
  <2>4. TaskOK'
    BY <1>0, <1>3, <2>1, <2>3 DEF CommitAsked, TaskOK
  <2>5. BusyOf(q[1]) \in RowState
    BY DEF BusyOf, RowState
  <2>6. RowOK'
    BY <1>0, <1>3, <2>1, <2>5 DEF CommitAsked, SetRow, RowOK
  <2> QED BY <1>0, <2>1, <2>4, <2>6, TypeParts, PartsKept
<1> QED BY <1>1, <1>2, <1>3 DEF Overlaps

\* ... and those of the workers.
LEMMA WorkerType == ASSUME TypeOK, Worker \/ Faults PROVE TypeOK'
<1> USE DEF rows, CanCreate, CanRestore
<1>0. StateOK /\ RowOK /\ TaskOK /\ ExecOK /\ BudgetOK
    BY TypeParts
<1>a. ASSUME NEW e \in Exec, exec[e] # None PROVE exec[e] \in Run /\ exec[e].msg \in Message /\ exec[e].msg.snap \in Snap
    BY <1>0, <1>a DEF ExecOK, Run, Message
<1>1. ASSUME NEW e \in Exec, NEW m \in queue, LoadSnapshot(e, m) PROVE TypeOK'
  <2>1. PICK p \in StepPC : Started(e, m, p)
    BY <1>1 DEF LoadSnapshot, StepPC
  <2>2. UNCHANGED <<lab, rstate, op, rows, hv, asked, unsent, lease, straggler, budget>>
    BY <1>1 DEF LoadSnapshot
  <2>3. TaskOK' /\ ExecOK'
    BY <1>0, <2>1, <2>2, StartedMeans DEF TaskOK, ExecOK
  <2> QED BY <1>0, <2>2, <2>3, TypeParts, PartsKept
<1>2. ASSUME NEW e \in Exec, NEW m \in queue, RunDelete(e, m) PROVE TypeOK'
  <2>1. Started(e, m, "acking") /\ UNCHANGED <<lab, rstate, op, data, was, asked, unsent, lease, straggler, budget>>
    BY <1>2 DEF RunDelete
  <2>2. TaskOK' /\ ExecOK'
    BY <1>0, <2>1, StartedMeans DEF TaskOK, ExecOK, StepPC
  <2>3. RowOK'
    BY <1>0, <1>2 DEF RunDelete, SetRow, RowOK, RowState, TaskOK, Message
  <2> QED BY <1>0, <2>1, <2>2, <2>3, TypeParts, PartsKept
<1>3. ASSUME NEW e \in Exec, NEW m \in queue, NEW w \in BOOLEAN, LoadRestore(e, m, w) PROVE TypeOK'
  <2>1. PICK p \in StepPC : Started(e, m, p)
    BY <1>3 DEF LoadRestore, StepPC
  <2>2. UNCHANGED <<lab, rstate, op, data, was, hv, asked, unsent, straggler>> /\ lease' \in {lease, e}
    BY <1>3 DEF LoadRestore
  <2>3. TaskOK' /\ ExecOK'
    BY <1>0, <2>1, <2>2, StartedMeans DEF TaskOK, ExecOK
  <2>4. row' = row \/ row' = Moved(m.snap, {"restoring"}, "ready")
    BY <1>3 DEF LoadRestore
  <2>5. RowOK'
    BY <1>0, <2>2, <2>4, MovedMeans DEF RowOK, RowState, TaskOK, Message
  <2>6. BudgetOK'
    BY <1>0, <1>3, SpendType DEF LoadRestore, Rare
  <2> QED BY <1>0, <2>2, <2>3, <2>5, <2>6, TypeParts, PartsKept
<1>4. ASSUME NEW e \in Exec, BeginSnapshot(e) \/ EndSnapshot(e) PROVE TypeOK'
  <2>1. exec[e] # None /\ \E p \in StepPC : To(e, p)
    BY <1>4 DEF BeginSnapshot, EndSnapshot, At, StepPC
  <2>2. ExecOK'
    BY <1>0, <1>4, <2>1, ToMeans DEF BeginSnapshot, EndSnapshot, ExecOK
  <2>3. RowOK'
    BY <1>0, <1>4 DEF BeginSnapshot, EndSnapshot, RowOK
  <2>4. UNCHANGED <<lab, rstate, op, asked, unsent, queue, budget>>
    BY <1>4 DEF BeginSnapshot, EndSnapshot
  <2> QED BY <1>0, <2>2, <2>3, <2>4, TypeParts, PartsKept
<1>5. ASSUME NEW e \in Exec, RecordSnapshot(e) PROVE TypeOK'
  <2>1. exec[e] # None /\ To(e, "acking") /\ UNCHANGED <<lab, rstate, op, was, asked, unsent, queue, lease, straggler, budget>>
    BY <1>5 DEF RecordSnapshot, At
  <2>2. ExecOK'
    BY <1>0, <2>1, ToMeans DEF ExecOK, StepPC
  <2>3. row' \in [Snap -> RowState]
    BY <1>0, <1>a, <1>5, <2>1, MovedMeans DEF RecordSnapshot, RowState
  <2>4. data' \in [Snap -> BOOLEAN] /\ hv' \in [Snap -> {"none", "part", "whole"}]
    BY <1>0, <1>5 DEF RecordSnapshot, RowOK
  <2>5. RowOK'
    BY <1>0, <2>1, <2>3, <2>4 DEF RowOK
  <2> QED BY <1>0, <2>1, <2>2, <2>5, TypeParts, PartsKept
<1>6. ASSUME NEW e \in Exec, NEW left \in BOOLEAN, FailSnapshot(e, left) PROVE TypeOK'
  <2>1. exec[e] # None /\ Fail(e) /\ UNCHANGED <<lab, rstate, op, data, was, asked, unsent, lease, straggler>>
    BY <1>6 DEF FailSnapshot, At
  <2>2. ExecOK' /\ TaskOK'
    BY <1>0, <1>a, <2>1, OverMeans, RetryMeans DEF Fail, ExecOK, TaskOK
  <2>3. row' \in [Snap -> RowState]
    BY <1>0, <1>a, <1>6, <2>1, MovedMeans DEF FailSnapshot, RowState
  <2>4. hv' \in [Snap -> {"none", "part", "whole"}]
    BY <1>0, <1>6 DEF FailSnapshot, RowOK
  <2>5. RowOK'
    BY <1>0, <2>1, <2>3, <2>4 DEF RowOK
  <2>6. BudgetOK'
    BY <1>0, <1>6, SpendType DEF FailSnapshot, Rare
  <2> QED BY <1>0, <2>1, <2>2, <2>5, <2>6, TypeParts, PartsKept
<1>7. ASSUME NEW e \in Exec, BeginRevert(e) \/ EndRevert(e) PROVE TypeOK'
  <2>1. exec[e] # None /\ (\E p \in StepPC : To(e, p)) /\ UNCHANGED <<lab, op, rows, hv, asked, unsent, queue, lease, straggler, budget>>
    BY <1>7 DEF BeginRevert, EndRevert, At, StepPC
  <2>2. ExecOK'
    BY <1>0, <2>1, ToMeans DEF ExecOK
  <2>3. StateOK'
    BY <1>0, <1>a, <1>7, <2>1 DEF BeginRevert, EndRevert, StateOK, RowOK
  <2> QED BY <1>0, <2>1, <2>2, <2>3, TypeParts, PartsKept
<1>8. ASSUME NEW e \in Exec, RecordRestore(e) PROVE TypeOK'
  <2>1. exec[e] # None /\ To(e, "acking") /\ lease' = None
        /\ UNCHANGED <<lab, rstate, op, data, was, hv, asked, unsent, queue, straggler, budget>>
    BY <1>8 DEF RecordRestore, At
  <2>2. ExecOK'
    BY <1>0, <2>1, ToMeans DEF ExecOK, StepPC
  <2>3. row' \in [Snap -> RowState]
    BY <1>0, <1>a, <1>8, <2>1, MovedMeans DEF RecordRestore, RowState
  <2>4. RowOK'
    BY <1>0, <2>1, <2>3 DEF RowOK
  <2> QED BY <1>0, <2>1, <2>2, <2>4, TypeParts, PartsKept
<1>9. ASSUME NEW e \in Exec, FailRestore(e) PROVE TypeOK'
  <2>1. exec[e] # None /\ Fail(e) /\ lease' = None /\ UNCHANGED <<lab, op, data, was, hv, asked, unsent, straggler>>
    BY <1>9 DEF FailRestore
  <2>2. ExecOK' /\ TaskOK'
    BY <1>0, <1>a, <2>1, OverMeans, RetryMeans DEF Fail, ExecOK, TaskOK
  <2>3. row' \in [Snap -> RowState]
    BY <1>0, <1>a, <1>9, <2>1, MovedMeans DEF FailRestore, GiveBack, RowState, RowOK
  <2>4. RowOK' /\ StateOK'
    BY <1>0, <1>9, <2>1, <2>3 DEF RowOK, StateOK, FailRestore
  <2>5. BudgetOK'
    BY <1>0, <1>9, SpendType DEF FailRestore, Rare
  <2> QED BY <1>0, <2>1, <2>2, <2>4, <2>5, TypeParts, PartsKept
<1>10. ASSUME NEW e \in Exec, Ack(e) \/ Crash(e) PROVE TypeOK'
  <2>1. exec[e] # None /\ exec' = [exec EXCEPT ![e] = None]
        /\ UNCHANGED <<lab, rstate, op, rows, hv, asked, unsent, straggler>>
    BY <1>10 DEF Ack, Crash, At
  <2>2. ExecOK' /\ TaskOK'
    BY <1>0, <1>a, <1>10, <2>1, OverMeans DEF Ack, Crash, ExecOK, TaskOK
  <2>3. BudgetOK'
    BY <1>0, <1>10, SpendType, PartsKept DEF Ack, Crash, Rare
  <2> QED BY <1>0, <2>1, <2>2, <2>3, TypeParts, PartsKept
<1>11. ASSUME NEW e \in Exec, CutRestore(e) PROVE TypeOK'
  <2>1. exec[e] # None /\ To(e, "acking") /\ lease' = Kept
        /\ UNCHANGED <<lab, op, data, was, hv, asked, unsent, queue>>
    BY <1>11 DEF CutRestore, At
  <2>0. CallOf(exec[e].msg) \in Task \X Snap
    BY <1>a, <2>1 DEF CallOf, Message
  <2>2. ExecOK'
    BY <1>0, <1>11, <2>0, <2>1, ToMeans DEF CutRestore, ExecOK, StepPC
  <2>3. row' \in [Snap -> RowState]
    BY <1>0, <1>a, <1>11, <2>1, MovedMeans DEF CutRestore, RowState
  <2>4. RowOK' /\ StateOK'
    BY <1>0, <1>11, <2>1, <2>3 DEF RowOK, StateOK, CutRestore
  <2>5. BudgetOK'
    BY <1>0, <1>11, SpendType DEF CutRestore, Rare
  <2> QED BY <1>0, <2>1, <2>2, <2>4, <2>5, TypeParts, PartsKept
<1>12. CASE OpTask
  <2>1. RowOK' /\ StateOK'
    BY <1>0, <1>12 DEF OpTask, RowOK, StateOK, Live
  <2> QED BY <1>0, <1>12, <2>1, TypeParts, PartsKept DEF OpTask
<1>13. CASE Stragglers
  <2>1. PICK c \in straggler, done \in BOOLEAN : StragglerEnds(c, done)
    BY <1>13 DEF Stragglers
  <2>2. ExecOK' /\ UNCHANGED <<lab, rstate, op, row, data, was, asked, unsent, queue, budget>>
    BY <1>0, <2>1 DEF StragglerEnds, ExecOK
  <2>3. RowOK'
    BY <1>0, <2>1, <2>2 DEF StragglerEnds, RowOK
  <2> QED BY <1>0, <2>2, <2>3, TypeParts, PartsKept
<1>15. CASE KeptLeaseEnds
  <2>1. ExecOK'
    BY <1>0, <1>15 DEF KeptLeaseEnds, ExecOK
  <2> QED BY <1>0, <1>15, <2>1, TypeParts, PartsKept DEF KeptLeaseEnds
<1>16. ASSUME NEW e \in Exec, CutSnapshot(e) PROVE TypeOK'
  <2>1. exec[e] # None /\ To(e, "acking") /\ UNCHANGED <<lab, rstate, op, data, was, hv, asked, unsent, queue, lease>>
    BY <1>16 DEF CutSnapshot
  <2>2. CallOf(exec[e].msg) \in Task \X Snap
    BY <1>a, <2>1 DEF CallOf, Message
  <2>3. ExecOK'
    BY <1>0, <1>16, <2>1, <2>2, ToMeans DEF CutSnapshot, ExecOK, StepPC
  <2>4. row' \in [Snap -> RowState]
    BY <1>0, <1>a, <1>16, <2>1, MovedMeans DEF CutSnapshot, RowState
  <2>5. RowOK'
    BY <1>0, <2>1, <2>4 DEF RowOK
  <2>6. BudgetOK'
    BY <1>0, <1>16, SpendType DEF CutSnapshot, Rare
  <2> QED BY <1>0, <2>1, <2>3, <2>5, <2>6, TypeParts, PartsKept
<1>17. ASSUME NEW m \in queue, NEW done \in BOOLEAN, CutDelete(m, done) PROVE TypeOK'
  <2>1. TaskOK'
    BY <1>0, <1>17 DEF CutDelete, TaskOK
  <2>2. RowOK'
    BY <1>0, <1>17 DEF CutDelete, RowOK
  <2>3. BudgetOK'
    BY <1>0, <1>17, SpendType DEF CutDelete, Rare
  <2> QED BY <1>0, <1>17, <2>1, <2>2, <2>3, TypeParts, PartsKept DEF CutDelete
<1>14. ASSUME NEW m \in queue, DeleteFails(m) PROVE TypeOK'
  <2>1. TaskOK'
    BY <1>0, <1>14, RetryMeans DEF DeleteFails, TaskOK
  <2>2. BudgetOK'
    BY <1>0, <1>14, SpendType DEF DeleteFails, Rare
  <2> QED BY <1>0, <1>14, <2>1, <2>2, TypeParts, PartsKept DEF DeleteFails
<1> QED
    BY <1>1, <1>2, <1>3, <1>4, <1>5, <1>6, <1>7, <1>8, <1>9, <1>10, <1>11, <1>12, <1>13, <1>14,
       <1>15, <1>16, <1>17
    DEF Worker, Faults, Step

\* Every step keeps the types.
LEMMA TypeStep == ASSUME TypeOK, [Next]_vars PROVE TypeOK'
<1>1. CASE UNCHANGED vars
    BY <1>1, TypeParts, PartsKept DEF vars
<1> QED BY <1>1, ApiType, OverlapType, WorkerType DEF Next

\* The snapshots' variables keep their types through every step of the API and the workers.
THEOREM TypeCorrect == Spec => []TypeOK
BY TypeInit, TypeStep, PTL DEF Spec

-----------------------------------------------------------------------------
(* The invariants.                                                         *)

\* The places a task of a snapshot may be in: yet to be sent, queued, or executed by e.
Unsent(t, n) == \E p \in {"failed", "ready"} : <<t, n, p, "alone">> \in unsent
Queued(t, n) == \E m \in queue : m.task = t /\ m.snap = n
Runs(e, t, n) == exec[e] # None /\ exec[e].msg.task = t /\ exec[e].msg.snap = n
Acting(e, t, n) == Runs(e, t, n) /\ exec[e].pc # "acking"

\* Where executions and the range are together.
ShapeInv ==
    /\ \A e \in Exec : exec[e] # None =>
          /\ exec[e].pc \in {"taking", "taken"} => exec[e].msg.task = "snapshot_range"
          /\ exec[e].pc \in {"reverting", "reverted"} => exec[e].msg.task = "restore_snapshot"
    /\ \A e \in Exec : lease = e =>
          /\ exec[e] # None /\ exec[e].msg.task = "restore_snapshot"
          /\ exec[e].pc \in {"loaded", "reverting", "reverted"}
    /\ rstate = "destroyed" => op = "none"

\* A revert runs under the lease; while the lease is held the range is restorable, or waits to be
\* destroyed; and a revert that outlives its task keeps the lease, over a range that reads failed.
KeptInv ==
    /\ \A e \in Exec : exec[e] # None /\ exec[e].pc \in {"reverting", "reverted"} => lease = e
    /\ lease # None => rstate \in Restorable \cup {"destroying"}
    /\ \A c \in straggler : c[1] = "restore_snapshot" => lease = Kept /\ rstate \in {"failed", "destroying"}

\* No two requests have overlapped so far: every task that is to be sent is of a request that
\* had the row to itself.
Quiet ==
    /\ asked = {}
    /\ \A u \in unsent : /\ u = <<u[1], u[2], u[3], "alone">>
                         /\ u[1] \in Task /\ u[2] \in Snap /\ u[3] \in {"failed", "ready"}
    /\ \A n \in Snap : /\ <<"snapshot_range", n, "ready", "alone">> \notin unsent
                       /\ <<"restore_snapshot", n, "failed", "alone">> \notin unsent

QuietNext == Api \/ Sent \/ Faults \/ Worker

\* A snapshot with a delete task reads deleted, and for good once the task is sent.
DeleteInv(n) ==
    /\ Unsent("delete_snapshot", n) => row[n] = "deleted"
    /\ ~(<<"delete_snapshot", n, "ready", "alone">> \in unsent /\ <<"delete_snapshot", n, "failed", "alone">> \in unsent)
    /\ Queued("delete_snapshot", n) \/ (\E e \in Exec : Runs(e, "delete_snapshot", n)) =>
          row[n] = "deleted" /\ ~Unsent("delete_snapshot", n)

\* The snapshot is deleted and nothing can take that back.
GoneForGood(n) == row[n] = "deleted" /\ ~Unsent("delete_snapshot", n)

\* A snapshot that is ready, or will be again when the broker refuses its delete task.
Held(n) == row[n] \in {"ready", "restoring"} \/ <<"delete_snapshot", n, "ready", "alone">> \in unsent

\* There is one copy of the task that takes a snapshot.
TakenOnce(n) ==
    /\ Unsent("snapshot_range", n) => ~Queued("snapshot_range", n)
    /\ Unsent("snapshot_range", n) \/ Queued("snapshot_range", n) =>
          \A e \in Exec : ~Runs(e, "snapshot_range", n)
    /\ \A m, o \in queue : m.task = "snapshot_range" /\ o.task = "snapshot_range" /\ m.snap = n /\ o.snap = n
                              => m = o
    /\ \A e, f \in Exec : Runs(e, "snapshot_range", n) /\ Runs(f, "snapshot_range", n) => e = f

\* It is over when the snapshot is ready, and what it has taken is there.
TakeInv(n) ==
    /\ TakenOnce(n)
    /\ row[n] = "none" => /\ ~Unsent("snapshot_range", n) /\ ~Queued("snapshot_range", n)
                          /\ \A e \in Exec : ~Runs(e, "snapshot_range", n)
    /\ Held(n) => \A e \in Exec : ~Acting(e, "snapshot_range", n)
    /\ Held(n) /\ rstate # "destroyed" => hv[n] = "whole"
    /\ \A e \in Exec : Runs(e, "snapshot_range", n) /\ exec[e].pc = "taken" =>
          hv[n] = "whole" \/ rstate = "destroyed" \/ GoneForGood(n)

\* There is one copy of the task that restores a snapshot, and the snapshot reads so.
RestoreInv(n) ==
    /\ Unsent("restore_snapshot", n) => row[n] = "restoring" /\ ~Queued("restore_snapshot", n)
    /\ Queued("restore_snapshot", n) => row[n] = "restoring"
    /\ \A m, o \in queue : m.task = "restore_snapshot" /\ o.task = "restore_snapshot" /\ m.snap = n /\ o.snap = n
                              => m = o
    /\ \A e \in Exec : Acting(e, "restore_snapshot", n) =>
          /\ row[n] = "restoring" /\ ~Unsent("restore_snapshot", n) /\ ~Queued("restore_snapshot", n)
          /\ \A f \in Exec : Acting(f, "restore_snapshot", n) => f = e

-----------------------------------------------------------------------------
(* Executions and delete tasks.                                            *)

\* The parts of the type invariant that the steps below need.
LEMMA TypeFacts ==
    ASSUME TypeOK
    PROVE  /\ RowOK /\ TaskOK /\ ExecOK
           /\ \A e \in Exec : exec[e] # None =>
                 /\ exec[e] \in Run /\ exec[e].msg \in Message
                 /\ exec[e].msg.snap \in Snap /\ exec[e].msg.task \in Task
           /\ \A m \in queue : m \in Message /\ m.snap \in Snap /\ m.task \in Task
<1>1. RowOK /\ TaskOK /\ ExecOK
    BY TypeParts
<1>2. \A e \in Exec : exec[e] # None =>
                 /\ exec[e] \in Run /\ exec[e].msg \in Message
                 /\ exec[e].msg.snap \in Snap /\ exec[e].msg.task \in Task
    BY <1>1 DEF ExecOK, Run, Message
<1>3. \A m \in queue : m \in Message /\ m.snap \in Snap /\ m.task \in Task
    BY <1>1 DEF TaskOK, Message
<1> QED BY <1>1, <1>2, <1>3

\* Where executions and the range are together, they stay.
LEMMA ShapeStep == ASSUME TypeOK, ShapeInv, [Next]_vars PROVE ShapeInv'
<1> USE DEF rows, CanCreate, CanRestore
<1>0. RowOK /\ TaskOK /\ ExecOK
    BY TypeFacts
<1>a. ASSUME NEW e \in Exec, exec[e] # None PROVE exec[e] \in Run /\ exec[e].msg \in Message
    BY <1>a, TypeFacts
<1>1. ASSUME UNCHANGED <<exec, lease>>, rstate' = "destroyed" => op' = "none" PROVE ShapeInv'
    BY <1>1 DEF ShapeInv
<1>2. ASSUME NEW e \in Exec, \A f \in Exec : f # e => exec'[f] = exec[f],
             rstate' = "destroyed" => op' = "none",
             exec'[e] # None =>
                 /\ exec'[e].pc \in {"taking", "taken"} => exec'[e].msg.task = "snapshot_range"
                 /\ exec'[e].pc \in {"reverting", "reverted"} => exec'[e].msg.task = "restore_snapshot",
             lease' \in {lease, None, e, Kept},
             lease' = e => /\ exec'[e] # None /\ exec'[e].msg.task = "restore_snapshot"
                           /\ exec'[e].pc \in {"loaded", "reverting", "reverted"}
      PROVE  ShapeInv'
    BY <1>2 DEF ShapeInv
<1>3. CASE Api \/ Sent
  <2>1. UNCHANGED <<exec, lease>>
    BY <1>3 DEF Api, Sent, CreateSnapshot, RestoreSnapshot, DeleteSnapshot, LabBaseline, LabRetry, LabReset,
           Send, SendRefused, SenderDies, SentTwice, AcceptPower, AcceptDestroy
  <2>2. rstate' = "destroyed" => op' = "none"
    BY <1>3 DEF Api, Sent, CreateSnapshot, RestoreSnapshot, DeleteSnapshot, LabBaseline, LabRetry, LabReset,
           Send, SendRefused, SenderDies, SentTwice, AcceptPower, AcceptDestroy, ShapeInv
  <2> QED BY <1>1, <2>1, <2>2
<1>13. CASE Overlaps
  <2>1. UNCHANGED <<exec, lease, rstate, op>>
    BY <1>13 DEF Overlaps, DeleteAgain, AskCreate, AskRestore, AskDelete, CommitAsked
  <2> QED BY <1>1, <2>1 DEF ShapeInv
<1>4. ASSUME NEW e \in Exec, NEW m \in queue, LoadSnapshot(e, m) \/ RunDelete(e, m) PROVE ShapeInv'
  <2>1. PICK p \in {"loaded", "acking"} : Started(e, m, p)
    BY <1>4 DEF LoadSnapshot, RunDelete
  <2>2. UNCHANGED <<rstate, op, unsent, lease>>
    BY <1>4 DEF LoadSnapshot, RunDelete
  <2>3. exec'[e] # None /\ exec'[e].pc = p /\ (\A f \in Exec : f # e => exec'[f] = exec[f]) /\ exec[e] = None
    BY <1>0, <2>1, StartedMeans DEF StepPC
  <2> QED BY <1>2, <2>2, <2>3 DEF ShapeInv
<1>5. ASSUME NEW e \in Exec, NEW m \in queue, NEW w \in BOOLEAN, LoadRestore(e, m, w) PROVE ShapeInv'
  <2>1. PICK p \in {"loaded", "acking"} : Started(e, m, p) /\ (p = "acking" => lease' = lease)
    BY <1>5 DEF LoadRestore
  <2>2. UNCHANGED <<rstate, op, unsent>> /\ lease' \in {lease, e} /\ lease = None /\ m.task = "restore_snapshot"
    BY <1>5 DEF LoadRestore
  <2>3. exec'[e] # None /\ exec'[e].pc = p /\ exec'[e].msg = m /\ (\A f \in Exec : f # e => exec'[f] = exec[f]) /\ exec[e] = None
    BY <1>0, <2>1, StartedMeans DEF StepPC
  <2> QED BY <1>2, <2>1, <2>2, <2>3 DEF ShapeInv
<1>6. ASSUME NEW e \in Exec, BeginSnapshot(e) \/ EndSnapshot(e) \/ RecordSnapshot(e) \/ CutSnapshot(e) PROVE ShapeInv'
  <2>1. PICK p \in {"taking", "taken", "acking"} : To(e, p)
    BY <1>6 DEF BeginSnapshot, EndSnapshot, RecordSnapshot, CutSnapshot
  <2>2. UNCHANGED <<rstate, op, unsent, lease>> /\ exec[e] # None
    BY <1>6 DEF BeginSnapshot, EndSnapshot, RecordSnapshot, CutSnapshot, At
  <2>3. exec[e].msg.task = "snapshot_range"
    BY <1>6 DEF BeginSnapshot, EndSnapshot, RecordSnapshot, CutSnapshot, At, ShapeInv
  <2>4. exec'[e] # None /\ exec'[e].pc = p /\ exec'[e].msg = exec[e].msg /\ (\A f \in Exec : f # e => exec'[f] = exec[f])
    BY <1>0, <2>1, <2>2, ToMeans DEF StepPC
  <2> QED BY <1>2, <2>2, <2>3, <2>4 DEF ShapeInv
<1>7. ASSUME NEW e \in Exec, BeginRevert(e) \/ EndRevert(e) \/ RecordRestore(e) \/ CutRestore(e) PROVE ShapeInv'
  <2>1. PICK p \in {"reverting", "reverted", "acking"} : To(e, p) /\ (p = "acking" => lease' \in {None, Kept})
    BY <1>7 DEF BeginRevert, EndRevert, RecordRestore, CutRestore
  <2>2. UNCHANGED <<op, unsent>> /\ lease' \in {lease, None, Kept} /\ exec[e] # None
        /\ (rstate' = rstate \/ rstate' = "failed" \/ rstate' \in Live)
    BY <1>0, <1>7, TypeFacts DEF BeginRevert, EndRevert, RecordRestore, CutRestore, At, RowOK
  <2>3. exec[e].msg.task = "restore_snapshot"
    BY <1>7 DEF BeginRevert, EndRevert, RecordRestore, CutRestore, At, ShapeInv
  <2>4. exec'[e] # None /\ exec'[e].pc = p /\ exec'[e].msg = exec[e].msg /\ (\A f \in Exec : f # e => exec'[f] = exec[f])
    BY <1>0, <2>1, <2>2, ToMeans DEF StepPC
  <2> QED BY <1>2, <2>1, <2>2, <2>3, <2>4 DEF ShapeInv, Live
<1>8. ASSUME NEW e \in Exec,
             FailRestore(e) \/ Ack(e) \/ Crash(e) \/ (\E left \in BOOLEAN : FailSnapshot(e, left))
      PROVE  ShapeInv'
  <2>1. exec[e] # None /\ exec' = [exec EXCEPT ![e] = None]
    BY <1>8 DEF FailRestore, Ack, Crash, FailSnapshot, At, Fail
  <2>2. UNCHANGED <<op, unsent>> /\ (rstate' = rstate \/ rstate' = "failed")
    BY <1>8 DEF FailRestore, Ack, Crash, FailSnapshot
  <2>3. lease' \in {lease, None} /\ lease' # e
    BY <1>8 DEF FailRestore, Ack, Crash, FailSnapshot, At, ShapeInv
  <2>4. exec'[e] = None /\ (\A f \in Exec : f # e => exec'[f] = exec[f])
    BY <1>0, <2>1, OverMeans
  <2> QED BY <1>2, <2>2, <2>3, <2>4 DEF ShapeInv
<1>9. CASE OpTask
    BY <1>1, <1>9 DEF OpTask, ShapeInv
<1>10. CASE Stragglers \/ (\E m \in queue : DeleteFails(m) \/ \E done \in BOOLEAN : CutDelete(m, done))
    BY <1>1, <1>10 DEF Stragglers, StragglerEnds, DeleteFails, CutDelete, ShapeInv
<1>11. CASE KeptLeaseEnds
    BY <1>11 DEF KeptLeaseEnds, ShapeInv
<1>12. CASE UNCHANGED vars
    BY <1>1, <1>12 DEF vars, ShapeInv
<1> QED BY <1>3, <1>4, <1>5, <1>6, <1>7, <1>8, <1>9, <1>10, <1>11, <1>12, <1>13 DEF Next, Worker, Faults, Step

\* Reverts stay under the lease.
LEMMA KeptStep == ASSUME TypeOK, ShapeInv, KeptInv, [Next]_vars PROVE KeptInv'
<1> USE DEF rows
<1> DEFINE R == "restore_snapshot"
           Over == {"failed", "destroying"}
<1>0. RowOK /\ TaskOK /\ ExecOK /\ None \notin Exec /\ Kept \notin Exec /\ Kept # None
    BY TypeFacts, SnapshotsAssumption
<1>1. ASSUME UNCHANGED <<exec, lease>>, straggler' \subseteq straggler, rstate' = rstate PROVE KeptInv'
    BY <1>1 DEF KeptInv
<1>2. ASSUME NEW e \in Exec, \A f \in Exec : f # e => exec'[f] = exec[f], UNCHANGED <<lease, rstate>>,
             exec'[e] # None /\ exec'[e].pc \in {"reverting", "reverted"} => lease = e,
             \A c \in straggler' : c[1] = R => c \in straggler
      PROVE  KeptInv'
    BY <1>2 DEF KeptInv
<1>3. CASE Overlaps \/ Sent
  <2>1. UNCHANGED <<exec, lease, straggler, rstate>>
    BY <1>3 DEF Overlaps, Sent, Send, DeleteAgain, AskCreate, AskRestore, AskDelete, CommitAsked
  <2> QED BY <1>1, <2>1
<1>4. CASE Api
  <2>1. UNCHANGED <<exec, lease, straggler>>
    BY <1>4 DEF Api, CreateSnapshot, RestoreSnapshot, DeleteSnapshot, LabBaseline, LabRetry, LabReset,
           SendRefused, SenderDies, SentTwice, AcceptPower, AcceptDestroy
  <2>2. rstate' = rstate \/ rstate' = "destroying" \/ lease = None
    BY <1>4 DEF Api, CreateSnapshot, RestoreSnapshot, DeleteSnapshot, LabBaseline, LabRetry, LabReset,
           SendRefused, SenderDies, SentTwice, AcceptPower, AcceptDestroy
  <2> QED BY <1>0, <2>1, <2>2 DEF KeptInv
<1>5. ASSUME NEW e \in Exec, NEW m \in queue, LoadSnapshot(e, m) \/ RunDelete(e, m) PROVE KeptInv'
  <2>1. PICK p \in {"loaded", "acking"} : Started(e, m, p)
    BY <1>5 DEF LoadSnapshot, RunDelete
  <2>2. UNCHANGED <<rstate, straggler, lease>>
    BY <1>5 DEF LoadSnapshot, RunDelete
  <2>3. exec'[e].pc = p /\ (\A f \in Exec : f # e => exec'[f] = exec[f])
    BY <1>0, <2>1, StartedMeans DEF StepPC
  <2> QED BY <1>2, <2>2, <2>3
<1>6. ASSUME NEW e \in Exec, NEW m \in queue, NEW w \in BOOLEAN, LoadRestore(e, m, w) PROVE KeptInv'
  <2>1. PICK p \in {"loaded", "acking"} : Started(e, m, p)
    BY <1>6 DEF LoadRestore
  <2>2. UNCHANGED <<rstate, straggler>> /\ lease = None /\ (lease' = None \/ (lease' = e /\ rstate \in Restorable))
    BY <1>6 DEF LoadRestore
  <2>3. exec'[e].pc = p /\ (\A f \in Exec : f # e => exec'[f] = exec[f])
    BY <1>0, <2>1, StartedMeans DEF StepPC
  <2> QED BY <1>0, <2>2, <2>3 DEF KeptInv
<1>7. ASSUME NEW e \in Exec, BeginSnapshot(e) \/ EndSnapshot(e) \/ RecordSnapshot(e) \/ BeginRevert(e) \/ CutSnapshot(e)
      PROVE  KeptInv'
  <2>1. PICK p \in StepPC : To(e, p) /\ (p \in {"reverting", "reverted"} => lease = e)
    BY <1>7 DEF BeginSnapshot, EndSnapshot, RecordSnapshot, BeginRevert, CutSnapshot, StepPC
  <2>2. UNCHANGED <<rstate, lease>> /\ exec[e] # None
    BY <1>7 DEF BeginSnapshot, EndSnapshot, RecordSnapshot, BeginRevert, CutSnapshot, At
  <2>3. exec'[e].pc = p /\ (\A f \in Exec : f # e => exec'[f] = exec[f])
    BY <1>0, <2>1, <2>2, ToMeans
  <2>4. \A c \in straggler' : c[1] = R => c \in straggler
    BY <1>7 DEF BeginSnapshot, EndSnapshot, RecordSnapshot, BeginRevert, CutSnapshot, CallOf
  <2> QED BY <1>2, <2>1, <2>2, <2>3, <2>4
<1>8. ASSUME NEW e \in Exec, EndRevert(e) \/ RecordRestore(e) \/ CutRestore(e) PROVE KeptInv'
  <2>1. PICK p \in StepPC : To(e, p) /\ (p \in {"reverting", "reverted"} => lease' = lease)
    BY <1>8 DEF EndRevert, RecordRestore, CutRestore, StepPC
  <2>2. exec[e] # None /\ lease = e
    BY <1>8 DEF EndRevert, RecordRestore, CutRestore, At, KeptInv
  <2>3. exec'[e].pc = p /\ (\A f \in Exec : f # e => exec'[f] = exec[f])
    BY <1>0, <2>1, <2>2, ToMeans
  <2>4. \A f \in Exec : exec'[f] # None /\ exec'[f].pc \in {"reverting", "reverted"} => lease' = f
    BY <2>1, <2>2, <2>3 DEF KeptInv
  <2>5. \A c \in straggler : c[1] # R
    BY <1>0, <2>2 DEF KeptInv
  <2>6. rstate \in Restorable \cup {"destroying"}
    BY <1>0, <2>2 DEF KeptInv
  <2>7. CASE EndRevert(e)
    <3>1. was[exec[e].msg.snap] \in Live
      BY <1>0, <2>2, TypeFacts DEF RowOK
    <3> QED BY <2>4, <2>5, <2>6, <2>7, <3>1 DEF EndRevert, KeptInv, Restorable, Live
  <2>8. CASE RecordRestore(e)
    BY <2>4, <2>5, <2>6, <2>8 DEF RecordRestore, KeptInv
  <2>9. CASE CutRestore(e)
    <3>1. rstate' \in Over /\ lease' = Kept
      BY <2>6, <2>9 DEF CutRestore
    <3> QED BY <2>4, <3>1 DEF KeptInv, Restorable
  <2> QED BY <1>8, <2>7, <2>8, <2>9
<1>9. ASSUME NEW e \in Exec,
             FailRestore(e) \/ Ack(e) \/ Crash(e) \/ (\E left \in BOOLEAN : FailSnapshot(e, left))
      PROVE  KeptInv'
  <2>1. exec[e] # None /\ exec' = [exec EXCEPT ![e] = None] /\ straggler' = straggler
    BY <1>9 DEF FailRestore, Ack, Crash, FailSnapshot, At, Fail
  <2>2. exec'[e] = None /\ (\A f \in Exec : f # e => exec'[f] = exec[f])
    BY <1>0, <2>1, OverMeans
  <2>3. \/ UNCHANGED <<lease, rstate>>
        \/ lease = e /\ lease' = None
    BY <1>9 DEF FailRestore, Ack, Crash, FailSnapshot
  <2> QED BY <1>0, <2>1, <2>2, <2>3 DEF KeptInv
<1>10. CASE Stragglers \/ (\E m \in queue : DeleteFails(m) \/ \E done \in BOOLEAN : CutDelete(m, done)) \/ UNCHANGED vars
  <2>1. UNCHANGED <<exec, lease, rstate>> /\ straggler' \subseteq straggler
    BY <1>10 DEF Stragglers, StragglerEnds, DeleteFails, CutDelete, vars
  <2> QED BY <1>1, <2>1
<1>11. CASE KeptLeaseEnds
  <2>1. UNCHANGED <<exec, rstate, straggler>> /\ lease = Kept /\ lease' = None /\ \A c \in straggler : c[1] # R
    BY <1>11 DEF KeptLeaseEnds
  <2> QED BY <1>0, <2>1 DEF KeptInv
<1>12. CASE OpTask
  <2>1. UNCHANGED <<exec, lease, straggler>> /\ lease = None
    BY <1>12 DEF OpTask
  <2> QED BY <1>0, <2>1 DEF KeptInv
<1> QED BY <1>3, <1>4, <1>5, <1>6, <1>7, <1>8, <1>9, <1>10, <1>11, <1>12 DEF Next, Worker, Faults, Step

\* As long as no requests overlap, every task to be sent is of a request that had the row to itself.
LEMMA QuietStep == ASSUME TypeOK, Quiet, [QuietNext]_vars PROVE Quiet'
<1> USE DEF rows, CanCreate, CanRestore
<1>1. asked' = {}
  <2>1. ASSUME NEW e \in Exec, Step(e) PROVE asked' = asked
    BY <2>1 DEF Step, LoadSnapshot, RunDelete, LoadRestore, BeginSnapshot, EndSnapshot, RecordSnapshot, FailSnapshot,
       BeginRevert, EndRevert, RecordRestore, FailRestore, Ack
  <2>2. CASE Api
    BY <2>2 DEF Quiet, Api, CreateSnapshot, RestoreSnapshot, DeleteSnapshot, LabBaseline, LabRetry, LabReset,
       SendRefused, SenderDies, SentTwice, AcceptPower, AcceptDestroy
  <2>3. CASE Faults \/ Sent
    BY <2>3 DEF Quiet, Faults, Sent, Send, CutRestore, CutSnapshot, CutDelete, Crash
  <2>4. CASE Worker
    BY <2>1, <2>4 DEF Quiet, Worker, DeleteFails, OpTask, Stragglers, StragglerEnds, KeptLeaseEnds
  <2>5. CASE UNCHANGED vars
    BY <2>5 DEF vars, Quiet
  <2> QED BY <2>2, <2>3, <2>4, <2>5 DEF QuietNext
<1>2. ASSUME unsent' \subseteq unsent PROVE Quiet'
    BY <1>1, <1>2 DEF Quiet
<1>3. ASSUME NEW o \in Snap, CreateSnapshot(o) \/ RestoreSnapshot(o) \/ DeleteSnapshot(o) \/ LabBaseline(o) \/ LabReset(o)
      PROVE  Quiet'
  <2>1. PICK t \in Task, p \in {"failed", "ready"} :
            /\ unsent' \subseteq unsent \cup {<<t, o, p, "alone">>}
            /\ t = "snapshot_range" => p = "failed"
            /\ t = "restore_snapshot" => p = "ready"
    BY <1>3 DEF CreateSnapshot, RestoreSnapshot, DeleteSnapshot, LabBaseline, LabReset, Task
  <2>2. \A u \in unsent' : /\ u = <<u[1], u[2], u[3], "alone">>
                           /\ u[1] \in Task /\ u[2] \in Snap /\ u[3] \in {"failed", "ready"}
    BY <2>1 DEF Quiet
  <2>3. ASSUME NEW n \in Snap
        PROVE  /\ <<"snapshot_range", n, "ready", "alone">> \notin unsent'
               /\ <<"restore_snapshot", n, "failed", "alone">> \notin unsent'
    <3>1. <<"snapshot_range", n, "ready", "alone">> \notin unsent /\ <<"restore_snapshot", n, "failed", "alone">> \notin unsent
      BY DEF Quiet
    <3>2. <<"snapshot_range", n, "ready", "alone">> # <<t, o, p, "alone">>
      BY <2>1
    <3>3. <<"restore_snapshot", n, "failed", "alone">> # <<t, o, p, "alone">>
      BY <2>1
    <3> QED BY <2>1, <3>1, <3>2, <3>3
  <2> QED BY <1>1, <2>2, <2>3 DEF Quiet
<1>4. CASE Sent \/ AcceptDestroy \/ (\E o \in Snap : LabRetry(o)) \/ (\E a \in {"stop", "start"} : AcceptPower(a))
             \/ (\E u \in unsent : SendRefused(u) \/ SenderDies(u) \/ SentTwice(u))
    BY <1>2, <1>4 DEF Sent, Send, AcceptDestroy, LabRetry, AcceptPower, SendRefused, SenderDies, SentTwice
<1>5. CASE Faults \/ Worker \/ UNCHANGED vars
  <2>1. unsent' = unsent
    BY <1>5 DEF vars, Faults, Worker, Step, CutRestore, CutSnapshot, CutDelete, Crash,
       LoadSnapshot, RunDelete, LoadRestore, BeginSnapshot, EndSnapshot, RecordSnapshot, FailSnapshot, BeginRevert,
       EndRevert, RecordRestore, FailRestore, Ack, DeleteFails, OpTask, Stragglers, StragglerEnds, KeptLeaseEnds
  <2> QED BY <1>2, <2>1
<1> QED BY <1>3, <1>4, <1>5 DEF QuietNext, Api

\* An execution that starts takes one task from the queue ...
LEMMA StartFlows ==
    ASSUME TypeOK, NEW e \in Exec, NEW n \in Snap, NEW t \in Task,
           NEW m \in queue, NEW p \in StepPC, Started(e, m, p)
    PROVE  /\ Runs(e, t, n)' <=> m.task = t /\ m.snap = n
           /\ ~Runs(e, t, n) /\ exec'[e].pc = p /\ exec'[e] # None /\ exec'[e].msg = m
           /\ \A f \in Exec : f # e => exec'[f] = exec[f] /\ (Runs(f, t, n)' <=> Runs(f, t, n))
           /\ queue' = queue \ {m}
<1>1. /\ exec[e] = None /\ queue' = queue \ {m} /\ exec'[e] # None /\ exec'[e].pc = p /\ exec'[e].msg = m
      /\ \A f \in Exec : f # e => exec'[f] = exec[f]
    BY TypeFacts, StartedMeans
<1> QED BY <1>1 DEF Runs

\* ... keeps it as it goes on ...
LEMMA ToFlows ==
    ASSUME TypeOK, NEW e \in Exec, NEW n \in Snap, NEW t \in Task,
           NEW p \in StepPC, To(e, p), exec[e] # None
    PROVE  /\ \A f \in Exec : Runs(f, t, n)' <=> Runs(f, t, n)
           /\ exec'[e].pc = p /\ \A f \in Exec : f # e => exec'[f] = exec[f]
<1>1. /\ exec'[e] # None /\ exec'[e].pc = p /\ exec'[e].msg = exec[e].msg
      /\ \A f \in Exec : f # e => exec'[f] = exec[f]
    BY TypeFacts, ToMeans
<1> QED BY <1>1 DEF Runs

\* ... and gives it up when it ends.
LEMMA OverFlows ==
    ASSUME TypeOK, NEW e \in Exec, NEW n \in Snap, NEW t \in Task,
           exec[e] # None, exec' = [exec EXCEPT ![e] = None]
    PROVE  /\ ~Runs(e, t, n)'
           /\ \A f \in Exec : f # e => exec'[f] = exec[f] /\ (Runs(f, t, n)' <=> Runs(f, t, n))
<1>1. exec'[e] = None /\ \A f \in Exec : f # e => exec'[f] = exec[f]
    BY TypeFacts, OverMeans
<1> QED BY <1>1 DEF Runs

\* A request that had the row to itself, and the message it sends.
LEMMA SendMeans ==
    ASSUME Quiet, NEW u \in unsent
    PROVE  /\ u = <<u[1], u[2], u[3], "alone">> /\ u[1] \in Task /\ u[2] \in Snap /\ u[3] \in {"failed", "ready"}
           /\ u[1] = "snapshot_range" => u[3] = "failed"
           /\ u[1] = "restore_snapshot" => u[3] = "ready"
           /\ Send(u) => queue' = queue \cup {Fresh(u, FALSE)}
<1>1. u = <<u[1], u[2], u[3], "alone">> /\ u[1] \in Task /\ u[2] \in Snap /\ u[3] \in {"failed", "ready"}
    BY DEF Quiet
<1>2. u[1] = "snapshot_range" => u[3] = "failed"
  <2>1. CASE u[1] = "snapshot_range" /\ u[3] = "ready"
    <3>1. u = <<"snapshot_range", u[2], "ready", "alone">>
      BY <1>1, <2>1, Zenon
    <3> QED BY <1>1, <3>1, Zenon DEF Quiet
  <2> QED BY <1>1, <2>1
<1>3. u[1] = "restore_snapshot" => u[3] = "ready"
  <2>1. CASE u[1] = "restore_snapshot" /\ u[3] = "failed"
    <3>1. u = <<"restore_snapshot", u[2], "failed", "alone">>
      BY <1>1, <2>1, Zenon
    <3> QED BY <1>1, <3>1, Zenon DEF Quiet
  <2> QED BY <1>1, <2>1
<1>4. (u[4] = "overlapped") = FALSE
  <2>1. u[4] = "alone"
    BY <1>1
  <2>2. u[4] # "overlapped"
    BY <2>1
  <2> QED BY <2>2, Zenon
<1>5. Send(u) => queue' = queue \cup {Fresh(u, FALSE)}
    BY <1>4, Zenon DEF Send
<1> QED BY <1>1, <1>2, <1>3, <1>5

\* Delete tasks stay with a row that reads deleted.
LEMMA DeleteStep ==
    ASSUME TypeOK, Quiet, ShapeInv, NEW n \in Snap, DeleteInv(n), [QuietNext]_vars
    PROVE  DeleteInv(n)'
<1> USE DEF rows, CanCreate, CanRestore
<1> DEFINE D == "delete_snapshot"
           Left == Queued(D, n) \/ \E e \in Exec : Runs(e, D, n)
<1>0. RowOK /\ TaskOK /\ ExecOK /\ row \in [Snap -> RowState] /\ D \in Task
    BY TypeFacts DEF RowOK, Task
<1>1. ASSUME unsent' \cap {<<D, n, "failed", "alone">>, <<D, n, "ready", "alone">>} = unsent \cap {<<D, n, "failed", "alone">>, <<D, n, "ready", "alone">>},
             Left' => Left, row[n] = "deleted" => row'[n] = "deleted"
      PROVE  DeleteInv(n)'
  <2>1. /\ <<D, n, "failed", "alone">> \in unsent' <=> <<D, n, "failed", "alone">> \in unsent
        /\ <<D, n, "ready", "alone">> \in unsent' <=> <<D, n, "ready", "alone">> \in unsent
    BY <1>1
  <2> QED BY <1>1, <2>1 DEF DeleteInv, Unsent
<1>2. ASSUME NEW o \in Snap, CreateSnapshot(o) \/ RestoreSnapshot(o) \/ LabBaseline(o) \/ LabReset(o)
      PROVE  DeleteInv(n)'
  <2>1. row[o] # "deleted" /\ \E s \in RowState : row' = [row EXCEPT ![o] = s]
    BY <1>2 DEF CreateSnapshot, RestoreSnapshot, LabBaseline, LabReset, SetRow, RowState
  <2>2. row[n] = "deleted" => row'[n] = "deleted"
    BY <1>0, <2>1
  <2>3. UNCHANGED <<queue, exec>>
    BY <1>2 DEF CreateSnapshot, RestoreSnapshot, LabBaseline, LabReset
  <2>4. unsent' \cap {<<D, n, "failed", "alone">>, <<D, n, "ready", "alone">>} = unsent \cap {<<D, n, "failed", "alone">>, <<D, n, "ready", "alone">>}
    <3>1. \E t \in {<<"snapshot_range", o, "failed", "alone">>, <<"restore_snapshot", o, "ready", "alone">>} : unsent' = unsent \cup {t}
      BY <1>2 DEF CreateSnapshot, RestoreSnapshot, LabBaseline, LabReset, LabIdle
    <3> QED BY <3>1
  <2> QED BY <1>1, <2>2, <2>3, <2>4 DEF Queued, Runs
<1>3. ASSUME NEW o \in Snap, DeleteSnapshot(o) PROVE DeleteInv(n)'
  <2>1. /\ row' = [row EXCEPT ![o] = "deleted"] /\ row[o] \in {"ready", "failed"} /\ UNCHANGED <<queue, exec>>
        /\ unsent' = unsent \cup {<<D, o, row[o], "alone">>}
    BY <1>3 DEF DeleteSnapshot, SetRow
  <2>2. CASE o = n
    BY <1>0, <2>1, <2>2 DEF DeleteInv, Unsent, Queued, Runs
  <2>3. CASE o # n
    <3>1. row'[n] = row[n]
      BY <1>0, <2>1, <2>3
    <3>2. unsent' \cap {<<D, n, "failed", "alone">>, <<D, n, "ready", "alone">>} = unsent \cap {<<D, n, "failed", "alone">>, <<D, n, "ready", "alone">>}
      BY <2>1, <2>3
    <3> QED BY <1>1, <2>1, <3>1, <3>2 DEF Queued, Runs
  <2> QED BY <2>2, <2>3
<1>4. ASSUME NEW u \in unsent, Send(u) \/ SendRefused(u) \/ SenderDies(u) \/ SentTwice(u) PROVE DeleteInv(n)'
  <2>0. u = <<u[1], u[2], u[3], "alone">> /\ u[1] \in Task /\ u[2] \in Snap /\ u[3] \in {"failed", "ready"}
    BY DEF Quiet
  <2>1. exec' = exec /\ (unsent' = unsent \ {u} \/ unsent' = {})
    BY <1>4 DEF Send, SendRefused, SenderDies, SentTwice
  <2>2. \A c \in BOOLEAN : Fresh(u, c).task = u[1] /\ Fresh(u, c).snap = u[2]
    BY <2>0, FreshMeans
  <2>3. queue' \subseteq queue \cup {Fresh(u, FALSE), Fresh(u, TRUE)}
    <3>1. CASE Send(u)
      <4>1. queue' = queue \cup {Fresh(u, FALSE)}
        BY <3>1, SendMeans, Zenon
      <4> QED BY <4>1
    <3>2. CASE ~Send(u)
      BY <1>4, <3>2 DEF SendRefused, SenderDies, SentTwice
    <3> QED BY <3>1, <3>2
  <2>4. CASE u[1] = D /\ u[2] = n
    <3>1. \A p \in {"failed", "ready"} : <<D, n, p, "alone">> \notin unsent'
      BY <2>0, <2>1, <2>4 DEF DeleteInv
    <3>2. row[n] = "deleted" /\ ~Left
      BY <2>0, <2>4 DEF DeleteInv, Unsent
    <3>3. CASE SendRefused(u)
      <4>1. queue' = queue
        BY <3>3 DEF SendRefused
      <4> QED BY <2>1, <3>1, <3>2, <4>1 DEF DeleteInv, Unsent, Queued, Runs
    <3>4. CASE ~SendRefused(u)
      <4>1. row' = row
        BY <1>4, <3>4 DEF Send, SenderDies, SentTwice
      <4> QED BY <3>1, <3>2, <4>1 DEF DeleteInv, Unsent
    <3> QED BY <3>3, <3>4
  <2>5. CASE ~(u[1] = D /\ u[2] = n)
    <3>1. u # <<D, n, "failed", "alone">> /\ u # <<D, n, "ready", "alone">>
      BY <2>0, <2>5
    <3>2. \A m \in queue' : m.task = D /\ m.snap = n => m \in queue
      BY <2>2, <2>3, <2>5
    <3>3. row[n] = "deleted" => row'[n] = "deleted"
      <4>1. CASE SendRefused(u)
        <5>1. row' = Moved(u[2], {BusyOf(u[1])}, u[3])
          BY <4>1 DEF SendRefused
        <5>2. u[2] = n => BusyOf(u[1]) # "deleted"
          BY <2>0, <2>5 DEF BusyOf, Task
        <5> QED BY <1>0, <2>0, <5>1, <5>2, MovedMeans DEF RowState
      <4>2. CASE ~SendRefused(u)
        BY <1>4, <4>2 DEF Send, SenderDies, SentTwice
      <4> QED BY <4>1, <4>2
    <3>4. CASE unsent' = unsent \ {u}
      BY <1>1, <2>1, <3>1, <3>2, <3>3, <3>4 DEF Queued, Runs
    <3>5. CASE unsent' = {}
      BY <2>1, <3>2, <3>3, <3>5 DEF DeleteInv, Queued, Runs, Unsent
    <3> QED BY <2>1, <3>4, <3>5
  <2> QED BY <2>4, <2>5
<1>5. ASSUME NEW o \in Snap, LabRetry(o) PROVE DeleteInv(n)'
  <2>1. Fresh(<<"snapshot_range", o>>, TRUE).task = "snapshot_range"
    BY DEF Fresh
  <2>2. row[o] \in Pending /\ row' = [row EXCEPT ![o] = "creating"] /\ UNCHANGED <<unsent, exec>>
        /\ queue' = queue \cup {Fresh(<<"snapshot_range", o>>, TRUE)}
    BY <1>5 DEF LabRetry, SetRow
  <2>3. row[n] = "deleted" => row'[n] = "deleted"
    BY <1>0, <2>2 DEF Pending
  <2> QED BY <1>1, <2>1, <2>2, <2>3 DEF Queued, Runs
<1>6. ASSUME NEW e \in Exec, NEW m \in queue, NEW p \in StepPC, Started(e, m, p), unsent' = unsent,
             row[n] = "deleted" => row'[n] = "deleted"
      PROVE  DeleteInv(n)'
  <2>1. Left' => Left
    <3>1. /\ \A f \in Exec : f # e => (Runs(f, D, n)' <=> Runs(f, D, n))
          /\ Runs(e, D, n)' <=> m.task = D /\ m.snap = n
          /\ queue' = queue \ {m}
      BY <1>0, <1>6, StartFlows
    <3> QED BY <3>1 DEF Queued
  <2> QED BY <1>1, <1>6, <2>1
<1>7. ASSUME NEW e \in Exec, NEW m \in queue,
             LoadSnapshot(e, m) \/ RunDelete(e, m) \/ (\E w \in BOOLEAN : LoadRestore(e, m, w))
      PROVE  DeleteInv(n)'
  <2>1. unsent' = unsent /\ \E p \in StepPC : Started(e, m, p)
    BY <1>7 DEF LoadSnapshot, RunDelete, LoadRestore, StepPC
  <2>2. row' = row \/ row' = [row EXCEPT ![m.snap] = "deleted"] \/ row' = Moved(m.snap, {"restoring"}, "ready")
    BY <1>7 DEF LoadSnapshot, RunDelete, LoadRestore, SetRow
  <2>3. row[n] = "deleted" => row'[n] = "deleted"
    BY <1>0, <2>2, TypeFacts, MovedMeans DEF RowState
  <2> QED BY <1>6, <2>1, <2>3
<1>8. ASSUME NEW e \in Exec, BeginSnapshot(e) \/ EndSnapshot(e) \/ RecordSnapshot(e) \/ BeginRevert(e)
                               \/ EndRevert(e) \/ RecordRestore(e) \/ CutRestore(e) \/ CutSnapshot(e)
      PROVE  DeleteInv(n)'
  <2>1. exec[e] # None /\ UNCHANGED <<unsent, queue>> /\ \E p \in StepPC : To(e, p)
    BY <1>8 DEF BeginSnapshot, EndSnapshot, RecordSnapshot, BeginRevert, EndRevert, RecordRestore, CutRestore,
                CutSnapshot, At, StepPC
  <2>2. row' = row \/ \E from \in {Pending, {"restoring"}}, s \in {"ready", "failed"} : row' = Moved(exec[e].msg.snap, from, s)
    BY <1>8 DEF BeginSnapshot, EndSnapshot, RecordSnapshot, BeginRevert, EndRevert, RecordRestore, CutRestore, CutSnapshot
  <2>3. row[n] = "deleted" => row'[n] = "deleted"
    BY <1>0, <2>1, <2>2, TypeFacts, MovedMeans DEF RowState, Pending
  <2>4. \A f \in Exec : Runs(f, D, n)' <=> Runs(f, D, n)
    BY <1>0, <2>1, ToFlows
  <2> QED BY <1>1, <2>1, <2>3, <2>4 DEF Queued
<1>9. ASSUME NEW e \in Exec,
             FailRestore(e) \/ Ack(e) \/ Crash(e) \/ (\E left \in BOOLEAN : FailSnapshot(e, left))
      PROVE  DeleteInv(n)'
  <2>1. exec[e] # None /\ exec' = [exec EXCEPT ![e] = None] /\ unsent' = unsent
    BY <1>9 DEF FailRestore, Ack, Crash, FailSnapshot, At, Fail
  <2>2. queue' \subseteq queue \cup {exec[e].msg} \cup Retry(exec[e].msg)
    BY <1>9 DEF FailRestore, Ack, Crash, FailSnapshot, Fail
  <2>3. row' = row \/ \E from \in {Pending, {"restoring"}}, s \in {"ready", "failed"} : row' = Moved(exec[e].msg.snap, from, s)
    BY <1>9 DEF FailRestore, GiveBack, Ack, Crash, FailSnapshot
  <2>4. row[n] = "deleted" => row'[n] = "deleted"
    BY <1>0, <2>1, <2>3, TypeFacts, MovedMeans DEF RowState, Pending
  <2>5. \A m \in queue' : m \in queue \/ (m.task = exec[e].msg.task /\ m.snap = exec[e].msg.snap)
    BY <2>1, <2>2, TypeFacts, RetryMeans
  <2>6. Left' => Left
    <3>1. ~Runs(e, D, n)' /\ \A f \in Exec : f # e => (Runs(f, D, n)' <=> Runs(f, D, n))
      BY <1>0, <2>1, OverFlows
    <3>2. Queued(D, n)' => Queued(D, n) \/ Runs(e, D, n)
      BY <2>1, <2>5 DEF Queued, Runs
    <3> QED BY <3>1, <3>2
  <2> QED BY <1>1, <2>1, <2>4, <2>6
<1>10. ASSUME NEW m \in queue, DeleteFails(m) \/ (\E done \in BOOLEAN : CutDelete(m, done)) PROVE DeleteInv(n)'
  <2>1. \A o \in queue' : o \in queue \/ (o.task = m.task /\ o.snap = m.snap)
    BY <1>10, TypeFacts, RetryMeans DEF DeleteFails, CutDelete
  <2>2. UNCHANGED <<unsent, row, exec>>
    BY <1>10 DEF DeleteFails, CutDelete
  <2> QED BY <1>1, <2>1, <2>2 DEF Queued, Runs
<1>11. CASE AcceptDestroy \/ (\E a \in {"stop", "start"} : AcceptPower(a)) \/ OpTask \/ Stragglers \/ KeptLeaseEnds
    BY <1>1, <1>11 DEF AcceptDestroy, AcceptPower, OpTask, Stragglers, StragglerEnds, KeptLeaseEnds, Queued, Runs
<1>12. CASE UNCHANGED vars
    BY <1>1, <1>12 DEF vars, Queued, Runs
<1> QED BY <1>2, <1>3, <1>4, <1>5, <1>7, <1>8, <1>9, <1>10, <1>11, <1>12 DEF QuietNext, Api, Sent, Worker, Faults, Step

-----------------------------------------------------------------------------
(* A snapshot that reads ready is there.                                   *)

\* A destroyed range and a snapshot deleted for good stay so. A snapshot comes to be held only
\* when the task that took it records it, and only that task, a delete and a destroy touch what
\* the hypervisor holds of it.
LEMMA SnapshotMoves ==
    ASSUME TypeOK, Quiet, ShapeInv, NEW n \in Snap, DeleteInv(n), [QuietNext]_vars
    PROVE  /\ row'[n] = "none" => row[n] = "none"
           /\ rstate = "destroyed" => rstate' = "destroyed"
           /\ GoneForGood(n) => GoneForGood(n)'
           /\ \/ Held(n)' => Held(n)
              \/ \E e \in Exec : Runs(e, "snapshot_range", n) /\ RecordSnapshot(e) /\ row[n] \in Pending
           /\ \/ hv'[n] \in {hv[n], "whole"} \/ rstate' = "destroyed" \/ GoneForGood(n)'
              \/ \E e \in Exec : /\ Runs(e, "snapshot_range", n)
                                 /\ \/ BeginSnapshot(e) \/ EndSnapshot(e) \/ RecordSnapshot(e) \/ CutSnapshot(e)
                                    \/ \E left \in BOOLEAN : FailSnapshot(e, left)
<1> USE DEF rows, CanCreate, CanRestore
<1> DEFINE D == "delete_snapshot"
           Goal == /\ row'[n] = "none" => row[n] = "none"
                   /\ rstate = "destroyed" => rstate' = "destroyed"
                   /\ GoneForGood(n) => GoneForGood(n)'
                   /\ \/ Held(n)' => Held(n)
                      \/ \E e \in Exec : Runs(e, "snapshot_range", n) /\ RecordSnapshot(e) /\ row[n] \in Pending
                   /\ \/ hv'[n] \in {hv[n], "whole"} \/ rstate' = "destroyed" \/ GoneForGood(n)'
                      \/ \E e \in Exec : /\ Runs(e, "snapshot_range", n)
                                         /\ \/ BeginSnapshot(e) \/ EndSnapshot(e) \/ RecordSnapshot(e) \/ CutSnapshot(e)
                                            \/ \E left \in BOOLEAN : FailSnapshot(e, left)
<1>0. RowOK /\ row \in [Snap -> RowState] /\ hv \in [Snap -> {"none", "part", "whole"}]
    BY TypeFacts DEF RowOK
<1>1. ASSUME unsent' = unsent, row'[n] = row[n], hv'[n] \in {hv[n], "whole"} \/ rstate' = "destroyed",
             rstate = "destroyed" => rstate' = "destroyed"
      PROVE  Goal
    BY <1>1 DEF GoneForGood, Held, Unsent
<1>2. ASSUME NEW o \in Snap, NEW s \in RowState, row' = [row EXCEPT ![o] = s], row[o] # "deleted", s # "none",
             s \in {"ready", "restoring"} => row[o] \in {"ready", "restoring"},
             \A p \in {"failed", "ready"} : <<D, n, p, "alone">> \in unsent' <=> <<D, n, p, "alone">> \in unsent,
             UNCHANGED <<hv, rstate>>
      PROVE  Goal
  <2>1. row'[n] = IF n = o THEN s ELSE row[n]
    BY <1>0, <1>2
  <2> QED BY <1>0, <1>2, <2>1 DEF GoneForGood, Held, Unsent
<1>3. ASSUME NEW o \in Snap, CreateSnapshot(o) \/ RestoreSnapshot(o) \/ LabBaseline(o) \/ LabReset(o) \/ LabRetry(o)
      PROVE  Goal
  <2>1. UNCHANGED <<hv, rstate>>
    BY <1>3 DEF CreateSnapshot, RestoreSnapshot, LabBaseline, LabReset, LabRetry
  <2>2. unsent' \subseteq unsent \cup {<<"snapshot_range", o, "failed", "alone">>, <<"restore_snapshot", o, "ready", "alone">>}
        /\ unsent \subseteq unsent'
    BY <1>3 DEF CreateSnapshot, RestoreSnapshot, LabBaseline, LabReset, LabRetry, LabIdle
  <2>3. \A p \in {"failed", "ready"} : <<D, n, p, "alone">> \in unsent' <=> <<D, n, p, "alone">> \in unsent
    BY <2>2
  <2>4. \E s \in {"creating", "restoring"} :
            row' = [row EXCEPT ![o] = s] /\ row[o] # "deleted" /\ (s = "restoring" => row[o] = "ready")
    BY <1>3 DEF CreateSnapshot, RestoreSnapshot, LabBaseline, LabReset, LabRetry, SetRow, Pending
  <2> QED BY <1>2, <2>1, <2>3, <2>4 DEF RowState
<1>4. ASSUME NEW o \in Snap, DeleteSnapshot(o) PROVE Goal
  <2>1. /\ row' = [row EXCEPT ![o] = "deleted"] /\ row[o] \in {"ready", "failed"} /\ UNCHANGED <<hv, rstate>>
        /\ unsent' = unsent \cup {<<D, o, row[o], "alone">>}
    BY <1>4 DEF DeleteSnapshot, SetRow
  <2>2. CASE o = n
    <3>1. <<D, n, "ready", "alone">> \in unsent' => <<D, n, "ready", "alone">> \in unsent \/ row[n] = "ready"
      BY <2>1, <2>2
    <3> QED BY <1>0, <2>1, <2>2, <3>1 DEF GoneForGood, Held, Unsent
  <2>3. CASE o # n
    <3>1. row'[n] = row[n]
      BY <1>0, <2>1, <2>3
    <3>2. \A p \in {"failed", "ready"} : <<D, n, p, "alone">> \in unsent' <=> <<D, n, p, "alone">> \in unsent
      BY <2>1, <2>3
    <3> QED BY <1>0, <2>1, <3>1, <3>2 DEF GoneForGood, Held, Unsent
  <2> QED BY <2>2, <2>3
<1>5. ASSUME NEW u \in unsent, Send(u) \/ SendRefused(u) \/ SenderDies(u) \/ SentTwice(u) PROVE Goal
  <2>0. u = <<u[1], u[2], u[3], "alone">> /\ u[1] \in Task /\ u[2] \in Snap /\ u[3] \in {"failed", "ready"}
    BY DEF Quiet
  <2>1. UNCHANGED <<hv, rstate>> /\ unsent' \subseteq unsent
    BY <1>5 DEF Send, SendRefused, SenderDies, SentTwice
  <2>2. CASE row' = row
    BY <2>1, <2>2 DEF GoneForGood, Held, Unsent
  <2>3. CASE row' # row
    <3>1. row' = Moved(u[2], {BusyOf(u[1])}, u[3])
      BY <1>5, <2>3 DEF Send, SendRefused, SenderDies, SentTwice
    <3>2. \A o \in Snap : row'[o] = IF o = u[2] /\ row[u[2]] = BusyOf(u[1]) THEN u[3] ELSE row[o]
      BY <1>0, <2>0, <3>1, MovedMeans DEF RowState
    <3>3. CASE u[2] # n \/ row[n] # BusyOf(u[1])
      BY <2>0, <2>1, <3>2, <3>3 DEF GoneForGood, Held, Unsent
    <3>4. CASE u[2] = n /\ row[n] = BusyOf(u[1]) /\ u[1] = D
      <4>1. row'[n] = u[3] /\ u = <<D, n, u[3], "alone">> /\ u \in unsent /\ row[n] = "deleted"
        BY <2>0, <3>2, <3>4 DEF BusyOf
      <4> QED BY <2>0, <2>1, <4>1 DEF GoneForGood, Held, Unsent
    <3>5. CASE u[2] = n /\ row[n] = BusyOf(u[1]) /\ u[1] # D
      <4>1. row'[n] = u[3] /\ row[n] \in {"creating", "restoring"}
        BY <2>0, <3>2, <3>5 DEF BusyOf, Task
      <4>2. row[n] = "creating" => u[3] = "failed"
        BY <2>0, <3>5, <4>1, ZenonT(60) DEF Quiet, BusyOf, Task
      <4> QED BY <2>0, <2>1, <4>1, <4>2 DEF GoneForGood, Held, Unsent
    <3> QED BY <3>3, <3>4, <3>5
  <2> QED BY <2>2, <2>3
<1>6. CASE AcceptDestroy \/ (\E a \in {"stop", "start"} : AcceptPower(a)) \/ KeptLeaseEnds
             \/ (\E m \in queue : DeleteFails(m))
    BY <1>1, <1>6 DEF AcceptDestroy, AcceptPower, KeptLeaseEnds, DeleteFails, Restorable, Live
<1>16. CASE Stragglers
  <2>1. PICK c \in straggler, done \in BOOLEAN : StragglerEnds(c, done)
    BY <1>16 DEF Stragglers
  <2>2. UNCHANGED <<unsent, row, rstate>> /\ hv'[n] \in {hv[n], "whole"}
    BY <1>0, <2>1 DEF StragglerEnds
  <2> QED BY <1>1, <2>2
<1>17. ASSUME NEW m \in queue, NEW done \in BOOLEAN, CutDelete(m, done) PROVE Goal
  <2>1. /\ UNCHANGED <<unsent, row, rstate>> /\ m.snap \in Snap /\ m.task = D
        /\ hv' = [hv EXCEPT ![m.snap] = IF done THEN "none" ELSE @]
    BY <1>17, TypeFacts DEF CutDelete
  <2>2. CASE m.snap = n
    <3>1. GoneForGood(n)
      BY <2>1, <2>2 DEF DeleteInv, Queued, GoneForGood
    <3> QED BY <2>1, <3>1 DEF GoneForGood, Held, Unsent
  <2>3. CASE m.snap # n
    <3>1. hv'[n] = hv[n]
      BY <1>0, <2>1, <2>3
    <3> QED BY <1>1, <2>1, <3>1
  <2> QED BY <2>2, <2>3
<1>7. CASE OpTask
    BY <1>1, <1>7 DEF OpTask, ShapeInv
<1>8. ASSUME NEW o \in Snap, UNCHANGED <<unsent, hv>>, rstate = "destroyed" => rstate' = "destroyed",
             row' = row \/ row' = Moved(o, {"restoring"}, "ready")
      PROVE  Goal
  <2>1. row'[n] = row[n] \/ (row[n] = "restoring" /\ row'[n] = "ready")
    BY <1>0, <1>8, MovedMeans DEF RowState
  <2> QED BY <1>8, <2>1 DEF GoneForGood, Held, Unsent
<1>9. ASSUME NEW e \in Exec, NEW m \in queue, LoadSnapshot(e, m) PROVE Goal
    BY <1>1, <1>9 DEF LoadSnapshot
<1>10. ASSUME NEW e \in Exec, NEW m \in queue, NEW w \in BOOLEAN, LoadRestore(e, m, w) PROVE Goal
  <2>1. m.snap \in Snap
    BY TypeFacts
  <2>2. UNCHANGED <<unsent, hv, rstate>> /\ (row' = row \/ row' = Moved(m.snap, {"restoring"}, "ready"))
    BY <1>10 DEF LoadRestore
  <2> QED BY <1>8, <2>1, <2>2
<1>11. ASSUME NEW e \in Exec, NEW m \in queue, RunDelete(e, m) PROVE Goal
  <2>1. /\ UNCHANGED <<unsent, rstate>> /\ row' = [row EXCEPT ![m.snap] = "deleted"] /\ m.snap \in Snap
        /\ hv' = [hv EXCEPT ![m.snap] = IF data[m.snap] THEN "none" ELSE @] /\ m.task = D
    BY <1>11, TypeFacts DEF RunDelete, SetRow
  <2>2. CASE m.snap = n
    <3>1. GoneForGood(n)
      BY <2>1, <2>2 DEF DeleteInv, Queued, GoneForGood
    <3>2. row'[n] = "deleted"
      BY <1>0, <2>1, <2>2
    <3> QED BY <2>1, <3>1, <3>2 DEF GoneForGood, Held, Unsent
  <2>3. CASE m.snap # n
    <3>1. row'[n] = row[n] /\ hv'[n] = hv[n]
      BY <1>0, <2>1, <2>3
    <3> QED BY <1>1, <2>1, <3>1
  <2> QED BY <2>2, <2>3
<1>12. ASSUME NEW e \in Exec, BeginRevert(e) \/ EndRevert(e) \/ RecordRestore(e) \/ CutRestore(e) \/ FailRestore(e)
       PROVE  Goal
  <2>1. exec[e].msg.snap \in Snap
    BY <1>12, TypeFacts DEF BeginRevert, EndRevert, RecordRestore, CutRestore, FailRestore, At
  <2>2. UNCHANGED <<unsent, hv>> /\ (rstate = "destroyed" => rstate' = "destroyed")
    BY <1>12 DEF BeginRevert, EndRevert, RecordRestore, CutRestore, FailRestore, Restorable, Live
  <2>3. row' = row \/ row' = Moved(exec[e].msg.snap, {"restoring"}, "ready")
    BY <1>12 DEF BeginRevert, EndRevert, RecordRestore, CutRestore, FailRestore, GiveBack
  <2> QED BY <1>8, <2>1, <2>2, <2>3
<1>13. ASSUME NEW e \in Exec, Ack(e) \/ Crash(e) PROVE Goal
    BY <1>1, <1>13 DEF Ack, Crash
<1>14. ASSUME NEW e \in Exec, BeginSnapshot(e) \/ EndSnapshot(e) \/ RecordSnapshot(e) \/ CutSnapshot(e)
                                \/ (\E left \in BOOLEAN : FailSnapshot(e, left))
       PROVE  Goal
  <2>1. exec[e] # None /\ exec[e].msg.snap \in Snap /\ exec[e].msg.task = "snapshot_range"
    BY <1>14, TypeFacts DEF BeginSnapshot, EndSnapshot, RecordSnapshot, CutSnapshot, FailSnapshot, At, ShapeInv
  <2>2. UNCHANGED <<unsent, rstate>>
    BY <1>14 DEF BeginSnapshot, EndSnapshot, RecordSnapshot, CutSnapshot, FailSnapshot
  <2>3. CASE exec[e].msg.snap = n
    <3>1. Runs(e, "snapshot_range", n)
      BY <2>1, <2>3 DEF Runs
    <3>2. row'[n] = row[n] \/ (row'[n] \in {"ready", "failed"} /\ row[n] \in Pending)
      <4>1. row' = row \/ row' = Moved(n, Pending, "ready") \/ row' = Moved(n, Pending, "failed")
        BY <1>14, <2>3 DEF BeginSnapshot, EndSnapshot, RecordSnapshot, CutSnapshot, FailSnapshot
      <4>2. \A s \in {"ready", "failed"} : Moved(n, Pending, s)[n] = IF row[n] \in Pending THEN s ELSE row[n]
        BY <1>0, MovedMeans DEF RowState
      <4> QED BY <4>1, <4>2
    <3>3. row'[n] # row[n] /\ row'[n] = "ready" => RecordSnapshot(e)
      BY <1>0, <1>14, <2>3, MovedMeans DEF BeginSnapshot, EndSnapshot, RecordSnapshot, CutSnapshot, FailSnapshot, RowState
    <3> QED BY <1>14, <2>2, <3>1, <3>2, <3>3 DEF GoneForGood, Held, Unsent, Pending
  <2>4. CASE exec[e].msg.snap # n
    <3>1. row'[n] = row[n]
      BY <1>0, <1>14, <2>1, <2>4, MovedMeans DEF BeginSnapshot, EndSnapshot, RecordSnapshot, CutSnapshot, FailSnapshot, RowState
    <3>2. hv'[n] = hv[n]
      BY <1>0, <1>14, <2>1, <2>4 DEF BeginSnapshot, EndSnapshot, RecordSnapshot, CutSnapshot, FailSnapshot
    <3> QED BY <1>1, <2>2, <3>1, <3>2
  <2> QED BY <2>3, <2>4
<1>15. CASE UNCHANGED vars
    BY <1>1, <1>15 DEF vars
<1> QED
    BY <1>3, <1>4, <1>5, <1>6, <1>7, <1>9, <1>10, <1>11, <1>12, <1>13, <1>14, <1>15,
       <1>16, <1>17
    DEF QuietNext, Api, Sent, Worker, Faults, Step

\* A snapshot is taken by one task at a time: nothing but the second request of a lab and a
\* duplicate of its task adds one, and what the task has taken stays.
LEMMA TakeStep ==
    ASSUME TypeOK, Quiet, ShapeInv, NEW n \in Snap, DeleteInv(n), TakeInv(n), [QuietNext]_vars,
           ~\E o \in Snap : LabRetry(o), ~\E u \in unsent : SentTwice(u)
    PROVE  TakeInv(n)'
<1> USE DEF rows, CanCreate, CanRestore
<1> DEFINE T == "snapshot_range"
           Mine(e) == /\ Runs(e, T, n)
                      /\ \/ BeginSnapshot(e) \/ EndSnapshot(e) \/ RecordSnapshot(e) \/ CutSnapshot(e)
                         \/ \E left \in BOOLEAN : FailSnapshot(e, left)
           Still == \A f \in Exec : Runs(f, T, n)' => Runs(f, T, n) /\ exec'[f].pc = exec[f].pc
           NoNewMessage == \A m \in queue' : m.task = T /\ m.snap = n => m \in queue
<1>0. RowOK /\ TaskOK /\ ExecOK /\ row \in [Snap -> RowState] /\ hv \in [Snap -> {"none", "part", "whole"}] /\ T \in Task
    BY TypeFacts DEF RowOK, Task
<1>1. /\ row'[n] = "none" => row[n] = "none"
      /\ rstate = "destroyed" => rstate' = "destroyed"
      /\ GoneForGood(n) => GoneForGood(n)'
    BY SnapshotMoves
<1>2. \A e \in Exec : Runs(e, T, n) => /\ ~Unsent(T, n) /\ ~Queued(T, n)
                                       /\ \A f \in Exec : f # e => ~Runs(f, T, n)
                                       /\ row[n] # "none"
    BY DEF TakeInv, TakenOnce
<1>3. CASE \E e \in Exec : Mine(e)
  <2>1. PICK e \in Exec : Mine(e)
    BY <1>3
  <2>2. /\ exec[e] # None /\ exec[e].msg.snap = n /\ Runs(e, T, n) /\ exec[e].msg \in Message
        /\ exec[e].msg.task = T /\ unsent' = unsent /\ rstate' = rstate
    BY <2>1, TypeFacts DEF Runs, BeginSnapshot, EndSnapshot, RecordSnapshot, CutSnapshot, FailSnapshot
  <2>3. ~Unsent(T, n)' /\ row'[n] # "none"
    BY <1>1, <1>2, <2>2 DEF Unsent
  <2>4. exec[e].pc # "acking"
    BY <2>1 DEF BeginSnapshot, EndSnapshot, RecordSnapshot, CutSnapshot, FailSnapshot, At
  <2>5. ~Held(n)
    BY <2>2, <2>4 DEF TakeInv, Acting
  <2>6. ASSUME NEW p \in StepPC, To(e, p), queue' = queue,
               Held(n)' => p = "acking" /\ (rstate' # "destroyed" => hv'[n] = "whole"),
               p = "taken" => hv'[n] = "whole"
        PROVE  TakeInv(n)'
    <3>1. \A f \in Exec : Runs(f, T, n)' <=> f = e
      BY <1>0, <1>2, <2>2, <2>6, ToFlows
    <3>2. exec'[e].pc = p
      BY <1>0, <2>2, <2>6, ToFlows
    <3>3. ~Queued(T, n)'
      BY <1>2, <2>2, <2>6 DEF Queued
    <3>4. TakenOnce(n)'
      BY <2>3, <3>1, <3>3 DEF TakenOnce, Queued
    <3> QED BY <2>3, <2>6, <3>1, <3>2, <3>4 DEF TakeInv, Acting
  <2>7. CASE BeginSnapshot(e) \/ EndSnapshot(e)
    <3>1. row' = row /\ queue' = queue /\ ~Held(n)'
      BY <2>2, <2>5, <2>7 DEF BeginSnapshot, EndSnapshot, Held
    <3>2. CASE BeginSnapshot(e)
      BY <2>6, <3>1, <3>2 DEF BeginSnapshot, StepPC
    <3>3. CASE EndSnapshot(e)
      <4>1. hv'[n] = "whole"
        BY <1>0, <2>2, <3>3 DEF EndSnapshot
      <4> QED BY <2>6, <3>1, <3>3, <4>1 DEF EndSnapshot, StepPC
    <3> QED BY <2>7, <3>2, <3>3
  <2>8. CASE RecordSnapshot(e)
    <3>1. row' = Moved(n, Pending, "ready") /\ hv' = [hv EXCEPT ![n] = IF row[n] \in Pending THEN @ ELSE "none"]
          /\ To(e, "acking") /\ queue' = queue /\ exec[e].pc = "taken"
      BY <2>2, <2>8 DEF RecordSnapshot, At
    <3>2. row'[n] = IF row[n] \in Pending THEN "ready" ELSE row[n]
      BY <1>0, <3>1, MovedMeans DEF RowState
    <3>3. CASE row[n] \in Pending
      <4>1. hv'[n] = "whole" \/ rstate = "destroyed"
        BY <1>0, <2>2, <3>1, <3>3 DEF TakeInv, GoneForGood, Pending
      <4> QED BY <2>2, <2>6, <3>1, <4>1 DEF StepPC
    <3>4. CASE row[n] \notin Pending
      <4>1. ~Held(n)'
        BY <2>2, <2>5, <3>2, <3>4 DEF Held
      <4> QED BY <2>6, <3>1, <4>1 DEF StepPC
    <3> QED BY <3>3, <3>4
  <2>9. CASE \E left \in BOOLEAN : FailSnapshot(e, left)
    <3>1. /\ exec' = [exec EXCEPT ![e] = None] /\ queue' = queue \cup Retry(exec[e].msg)
          /\ row' = Moved(n, Pending, "failed")
      BY <2>2, <2>9 DEF FailSnapshot, Fail
    <3>2. ~Held(n)'
      BY <1>0, <2>2, <2>5, <3>1, MovedMeans DEF Held, RowState
    <3>3. \A f \in Exec : ~Runs(f, T, n)'
      <4>1. ~Runs(e, T, n)' /\ \A f \in Exec : f # e => (Runs(f, T, n)' <=> Runs(f, T, n))
        <5>1. T \in Task /\ exec[e] # None /\ exec' = [exec EXCEPT ![e] = None]
          BY <1>0, <2>2, <3>1
        <5> HIDE DEF T
        <5> QED BY <5>1, OverFlows
      <4> QED BY <1>2, <2>2, <4>1
    <3>4. \A m, o \in queue' : m.task = T /\ o.task = T /\ m.snap = n /\ o.snap = n => m = o
      BY <1>2, <2>2, <3>1 DEF Queued, Retry
    <3>5. TakenOnce(n)'
      BY <2>3, <3>3, <3>4 DEF TakenOnce
    <3> QED BY <2>3, <3>2, <3>3, <3>5 DEF TakeInv, Acting
  <2>10. CASE CutSnapshot(e)
    <3>1. row' = Moved(n, Pending, "failed") /\ To(e, "acking") /\ queue' = queue
      BY <2>2, <2>10 DEF CutSnapshot
    <3>2. ~Held(n)'
      BY <1>0, <2>2, <2>5, <3>1, MovedMeans DEF Held, RowState
    <3> QED BY <2>6, <3>1, <3>2 DEF StepPC
  <2> QED BY <2>1, <2>7, <2>8, <2>9, <2>10
<1>4. CASE ~\E e \in Exec : Mine(e)
  <2>1. /\ Held(n)' => Held(n)
        /\ hv'[n] \in {hv[n], "whole"} \/ rstate' = "destroyed" \/ GoneForGood(n)'
    BY <1>4, SnapshotMoves
  <2>2. Held(n)' /\ rstate' # "destroyed" => hv'[n] = "whole"
    BY <1>1, <2>1 DEF TakeInv, GoneForGood, Held, Unsent
  <2>3. ASSUME Unsent(T, n)' => Unsent(T, n), NoNewMessage, Still PROVE TakeInv(n)'
    <3>1. Queued(T, n)' => Queued(T, n)
      BY <2>3 DEF Queued
    <3>2. TakenOnce(n)'
      BY <2>3, <3>1 DEF TakeInv, TakenOnce
    <3>3. \A f \in Exec : Acting(f, T, n)' => Acting(f, T, n)
      BY <2>3 DEF Acting
    <3>4. row'[n] = "none" => /\ ~Unsent(T, n)' /\ ~Queued(T, n)' /\ \A f \in Exec : ~Runs(f, T, n)'
      BY <1>1, <2>3, <3>1 DEF TakeInv
    <3>5. Held(n)' => \A f \in Exec : ~Acting(f, T, n)'
      BY <2>1, <3>3 DEF TakeInv
    <3>6. \A f \in Exec : Runs(f, T, n)' /\ exec'[f].pc = "taken" =>
             hv'[n] = "whole" \/ rstate' = "destroyed" \/ GoneForGood(n)'
      BY <1>1, <2>1, <2>3 DEF TakeInv
    <3> QED BY <2>2, <3>2, <3>4, <3>5, <3>6 DEF TakeInv
  <2>4. ASSUME \A f \in Exec : ~Runs(f, T, n)', row'[n] # "none", Unsent(T, n)' => ~Queued(T, n)',
               \A m, o \in queue' : m.task = T /\ o.task = T /\ m.snap = n /\ o.snap = n => m = o
        PROVE  TakeInv(n)'
    <3>1. TakenOnce(n)'
      BY <2>4 DEF TakenOnce
    <3> QED BY <2>2, <2>4, <3>1 DEF TakeInv, Acting
  <2>5. ASSUME NEW o \in Snap, CreateSnapshot(o) \/ LabBaseline(o) PROVE TakeInv(n)'
    <3>1. /\ UNCHANGED <<queue, exec>> /\ row[o] = "none" /\ row' = [row EXCEPT ![o] = "creating"]
          /\ unsent' = unsent \cup {<<T, o, "failed", "alone">>}
      BY <2>5 DEF CreateSnapshot, LabBaseline, SetRow, LabIdle
    <3>2. CASE o = n
      <4>1. row'[n] = "creating"
        BY <1>0, <3>1, <3>2
      <4>2. ~Queued(T, n)' /\ \A f \in Exec : ~Runs(f, T, n)'
        BY <3>1, <3>2 DEF TakeInv, Queued, Runs
      <4> QED BY <2>4, <4>1, <4>2 DEF Queued
    <3>3. CASE o # n
      <4>1. Unsent(T, n)' => Unsent(T, n)
        BY <3>1, <3>3 DEF Unsent
      <4> QED BY <2>3, <3>1, <4>1 DEF Runs
    <3> QED BY <3>2, <3>3
  <2>6. ASSUME NEW o \in Snap, RestoreSnapshot(o) \/ LabReset(o) \/ DeleteSnapshot(o) PROVE TakeInv(n)'
    <3>1. UNCHANGED <<queue, exec>> /\ \E t \in {"restore_snapshot", "delete_snapshot"}, p \in {"ready", "failed"} :
                                           unsent' = unsent \cup {<<t, o, p, "alone">>}
      BY <2>6 DEF RestoreSnapshot, LabReset, DeleteSnapshot, LabIdle
    <3>2. Unsent(T, n)' => Unsent(T, n)
      BY <3>1 DEF Unsent
    <3> QED BY <2>3, <3>1, <3>2 DEF Runs
  <2>7. ASSUME NEW u \in unsent, Send(u) PROVE TakeInv(n)'
    <3>0. u = <<u[1], u[2], u[3], "alone">> /\ u[1] \in Task /\ u[2] \in Snap /\ u[3] \in {"failed", "ready"}
      BY DEF Quiet
    <3>1. /\ unsent' = unsent \ {u} /\ queue' = queue \cup {Fresh(u, FALSE)} /\ exec' = exec /\ row' = row
          /\ Fresh(u, FALSE).task = u[1] /\ Fresh(u, FALSE).snap = u[2]
      <4>1. Fresh(u, FALSE).task = u[1] /\ Fresh(u, FALSE).snap = u[2]
        BY DEF Fresh
      <4>2. queue' = queue \cup {Fresh(u, FALSE)}
        BY <2>7, SendMeans
      <4> QED BY <2>7, <4>1, <4>2 DEF Send
    <3>2. CASE u[1] = T /\ u[2] = n
      <4>1. Unsent(T, n) /\ u = <<T, n, "failed", "alone">>
        BY <3>0, <3>2, SendMeans DEF Unsent
      <4>2. ~Unsent(T, n)'
        BY <3>1, <4>1 DEF Unsent, Quiet
      <4>3. ~Queued(T, n) /\ row[n] # "none" /\ \A f \in Exec : ~Runs(f, T, n)
        BY <4>1 DEF TakeInv, TakenOnce
      <4>4. \A f \in Exec : ~Runs(f, T, n)'
        BY <3>1, <4>3 DEF Runs
      <4> QED BY <2>4, <3>1, <4>2, <4>3, <4>4 DEF Queued
    <3>3. CASE ~(u[1] = T /\ u[2] = n)
      <4>1. Unsent(T, n)' => Unsent(T, n)
        BY <3>1 DEF Unsent
      <4> QED BY <2>3, <3>1, <3>3, <4>1 DEF Runs
    <3> QED BY <3>2, <3>3
  <2>8. ASSUME NEW u \in unsent, SendRefused(u) \/ SenderDies(u) PROVE TakeInv(n)'
    <3>1. unsent' = unsent \ {u} /\ UNCHANGED <<queue, exec>>
      BY <2>8 DEF SendRefused, SenderDies
    <3> QED BY <2>3, <3>1 DEF Runs, Unsent
  <2>9. ASSUME NEW e \in Exec, NEW m \in queue, NEW p \in StepPC, Started(e, m, p), unsent' = unsent,
               ~(m.task = T /\ m.snap = n)
        PROVE  TakeInv(n)'
    <3>1. Still /\ queue' = queue \ {m}
      BY <1>0, <2>9, StartFlows
    <3> QED BY <2>3, <2>9, <3>1 DEF Unsent
  <2>10. ASSUME NEW e \in Exec, NEW m \in queue,
                RunDelete(e, m) \/ (\E w \in BOOLEAN : LoadRestore(e, m, w))
         PROVE  TakeInv(n)'
    <3>1. unsent' = unsent /\ m.task # T /\ \E p \in StepPC : Started(e, m, p)
      BY <2>10 DEF RunDelete, LoadRestore, StepPC
    <3> QED BY <2>9, <3>1
  <2>11. ASSUME NEW e \in Exec, NEW m \in queue, LoadSnapshot(e, m) PROVE TakeInv(n)'
    <3> DEFINE p == IF SnapshotWanted(m.snap) THEN "loaded" ELSE "acking"
    <3>1. unsent' = unsent /\ Started(e, m, p) /\ p \in StepPC /\ row' = row /\ m.task = T
      BY <2>11 DEF LoadSnapshot, StepPC
    <3>2. CASE m.snap # n
      BY <2>9, <3>1, <3>2
    <3>3. CASE m.snap = n
      <4>1. Queued(T, n)
        BY <3>1, <3>3 DEF Queued
      <4>2. ~Unsent(T, n) /\ row[n] # "none" /\ \A f \in Exec : ~Runs(f, T, n)
        BY <4>1 DEF TakeInv, TakenOnce
      <4>3. /\ \A f \in Exec : Runs(f, T, n)' <=> f = e
            /\ exec'[e].pc = p /\ queue' = queue \ {m}
        <5> HIDE DEF p
        <5> QED BY <1>0, <3>1, <3>3, <4>2, StartFlows
      <4>4. ~Queued(T, n)' /\ ~Unsent(T, n)'
        BY <3>1, <3>3, <4>2, <4>3 DEF Queued, TakeInv, TakenOnce, Unsent
      <4>5. TakenOnce(n)'
        BY <4>3, <4>4 DEF TakenOnce, Queued
      <4>6. p # "taken" /\ (Held(n)' => p = "acking")
        BY <2>1, <3>3 DEF SnapshotWanted, Held, DeleteInv, Unsent, Pending
      <4> QED BY <2>2, <3>1, <4>2, <4>3, <4>5, <4>6 DEF TakeInv, Acting
    <3> QED BY <3>2, <3>3
  <2>12. ASSUME NEW e \in Exec, BeginSnapshot(e) \/ EndSnapshot(e) \/ RecordSnapshot(e) \/ BeginRevert(e)
                                  \/ EndRevert(e) \/ RecordRestore(e) \/ CutRestore(e) \/ CutSnapshot(e)
         PROVE  TakeInv(n)'
    <3>1. exec[e] # None /\ UNCHANGED <<unsent, queue>> /\ \E p \in StepPC : To(e, p)
      BY <2>12 DEF BeginSnapshot, EndSnapshot, RecordSnapshot, BeginRevert, EndRevert, RecordRestore, CutRestore,
                   CutSnapshot, At, StepPC
    <3>2. ~Runs(e, T, n)
      BY <1>4, <2>12 DEF Runs, BeginRevert, EndRevert, RecordRestore, CutRestore, At, ShapeInv
    <3>3. Still
      BY <1>0, <3>1, <3>2, ToFlows
    <3> QED BY <2>3, <3>1, <3>3 DEF Unsent
  <2>13. ASSUME NEW e \in Exec, exec[e] # None, exec' = [exec EXCEPT ![e] = None], unsent' = unsent,
                queue' \subseteq queue \cup {exec[e].msg} \cup Retry(exec[e].msg), ~Runs(e, T, n)
         PROVE  TakeInv(n)'
    <3>1. Still
      BY <1>0, <2>13, OverFlows, ZenonT(60)
    <3>2. \A m \in queue' : m \in queue \/ (m.task = exec[e].msg.task /\ m.snap = exec[e].msg.snap)
      BY <2>13, TypeFacts, RetryMeans
    <3> QED BY <2>3, <2>13, <3>1, <3>2 DEF Unsent, Runs
  <2>14. ASSUME NEW e \in Exec, FailRestore(e) \/ (\E left \in BOOLEAN : FailSnapshot(e, left)) PROVE TakeInv(n)'
    <3>1. /\ exec[e] # None /\ exec' = [exec EXCEPT ![e] = None] /\ unsent' = unsent
          /\ queue' \subseteq queue \cup {exec[e].msg} \cup Retry(exec[e].msg)
      BY <2>14 DEF FailRestore, FailSnapshot, At, Fail
    <3>2. ~Runs(e, T, n)
      BY <1>4, <2>14 DEF Runs, FailRestore, ShapeInv
    <3> QED BY <2>13, <3>1, <3>2
  <2>15. ASSUME NEW e \in Exec, Ack(e) PROVE TakeInv(n)'
    <3>1. exec[e] # None /\ exec' = [exec EXCEPT ![e] = None] /\ UNCHANGED <<unsent, queue>>
      BY <2>15 DEF Ack, At
    <3>2. Still
      BY <1>0, <3>1, OverFlows, ZenonT(60)
    <3> QED BY <2>3, <3>1, <3>2 DEF Unsent
  <2>16. ASSUME NEW e \in Exec, Crash(e) PROVE TakeInv(n)'
    <3>1. /\ exec[e] # None /\ exec' = [exec EXCEPT ![e] = None] /\ UNCHANGED <<unsent, row>>
          /\ queue' = queue \cup {exec[e].msg}
      BY <2>16 DEF Crash
    <3>2. CASE ~Runs(e, T, n)
      BY <2>13, <3>1, <3>2
    <3>3. CASE Runs(e, T, n)
      <4>1. \A f \in Exec : ~Runs(f, T, n)'
        BY <1>0, <1>2, <3>1, <3>3, OverFlows
      <4>2. ~Unsent(T, n)' /\ row'[n] # "none"
        BY <1>2, <3>1, <3>3 DEF Unsent
      <4>3. \A m, o \in queue' : m.task = T /\ o.task = T /\ m.snap = n /\ o.snap = n => m = o
        BY <1>2, <3>1, <3>3 DEF Queued
      <4> QED BY <2>4, <4>1, <4>2, <4>3
    <3> QED BY <3>2, <3>3
  <2>17. ASSUME NEW m \in queue, DeleteFails(m) \/ (\E done \in BOOLEAN : CutDelete(m, done)) PROVE TakeInv(n)'
    <3>1. \A o \in queue' : o \in queue \/ (o.task = m.task /\ o.snap = m.snap)
      BY <2>17, TypeFacts, RetryMeans DEF DeleteFails, CutDelete
    <3>2. m.task # T /\ UNCHANGED <<unsent, exec>>
      BY <2>17 DEF DeleteFails, CutDelete
    <3> QED BY <2>3, <3>1, <3>2 DEF Runs, Unsent
  <2>18. CASE \/ AcceptDestroy \/ (\E a \in {"stop", "start"} : AcceptPower(a))
              \/ OpTask \/ Stragglers \/ KeptLeaseEnds \/ UNCHANGED vars
    <3>1. UNCHANGED <<unsent, queue, exec>>
      BY <2>18 DEF AcceptDestroy, AcceptPower, OpTask, Stragglers, StragglerEnds, KeptLeaseEnds, vars
    <3> QED BY <2>3, <3>1 DEF Runs, Unsent
  <2> QED BY <2>5, <2>6, <2>7, <2>8, <2>10, <2>11, <2>12, <2>14, <2>15, <2>16, <2>17, <2>18
          DEF QuietNext, Api, Sent, Worker, Faults, Step
<1> QED BY <1>3, <1>4

-----------------------------------------------------------------------------
(* A revert is visible.                                                    *)

\* A snapshot is restored by one task at a time, and reads so until the task is over: nothing but
\* the redelivery of a dead worker's task and a lab's duplicate adds one.
LEMMA RestoreStep ==
    ASSUME TypeOK, Quiet, ShapeInv, NEW n \in Snap, DeleteInv(n), RestoreInv(n), [QuietNext]_vars,
           ~\E e \in Exec : Crash(e), ~\E u \in unsent : SentTwice(u)
    PROVE  RestoreInv(n)'
<1> USE DEF rows, CanCreate, CanRestore
<1> DEFINE R == "restore_snapshot"
           NoNewActing == \A f \in Exec : Acting(f, R, n)' => Acting(f, R, n)
           NoNewMessage == \A m \in queue' : m.task = R /\ m.snap = n => m \in queue
<1>0. RowOK /\ TaskOK /\ ExecOK /\ row \in [Snap -> RowState]
    BY TypeFacts DEF RowOK
<1>t. R \in Task
    BY DEF Task
<1>1. ASSUME Unsent(R, n)' => Unsent(R, n), NoNewMessage, NoNewActing,
             row[n] = "restoring" => row'[n] = "restoring"
      PROVE  RestoreInv(n)'
  <2>1. Queued(R, n)' => Queued(R, n)
    BY <1>1 DEF Queued
  <2> QED BY <1>1, <2>1 DEF RestoreInv
<1>2. ASSUME ~Unsent(R, n)', ~Queued(R, n)', \A f \in Exec : ~Acting(f, R, n)' PROVE RestoreInv(n)'
    BY <1>2 DEF RestoreInv, Queued
<1>3. ASSUME ~Unsent(R, n)', \A f \in Exec : ~Acting(f, R, n)', row'[n] = "restoring",
             \A m, o \in queue' : m.task = R /\ o.task = R /\ m.snap = n /\ o.snap = n => m = o
      PROVE  RestoreInv(n)'
    BY <1>3 DEF RestoreInv
<1>4. ASSUME NEW o \in Snap, CreateSnapshot(o) \/ LabBaseline(o) \/ DeleteSnapshot(o) \/ LabRetry(o)
      PROVE  RestoreInv(n)'
  <2>1. exec' = exec /\ row[o] # "restoring" /\ \E s \in RowState : row' = [row EXCEPT ![o] = s]
    BY <1>4 DEF CreateSnapshot, LabBaseline, DeleteSnapshot, LabRetry, SetRow, RowState, Pending
  <2>2. row[n] = "restoring" => row'[n] = "restoring"
    BY <1>0, <2>1
  <2>3. \E t \in {"snapshot_range", "delete_snapshot"}, p \in {"failed", "ready"} :
            unsent' \subseteq unsent \cup {<<t, o, p, "alone">>}
    BY <1>4 DEF CreateSnapshot, LabBaseline, DeleteSnapshot, LabRetry, LabIdle
  <2>4. Unsent(R, n)' => Unsent(R, n)
    BY <2>3 DEF Unsent
  <2>5. Fresh(<<"snapshot_range", o>>, TRUE).task = "snapshot_range"
    BY DEF Fresh
  <2>6. queue' \subseteq queue \cup {Fresh(<<"snapshot_range", o>>, TRUE)}
    BY <1>4 DEF CreateSnapshot, LabBaseline, DeleteSnapshot, LabRetry
  <2> QED BY <1>1, <2>1, <2>2, <2>4, <2>5, <2>6 DEF Acting, Runs
<1>5. ASSUME NEW o \in Snap, RestoreSnapshot(o) \/ LabReset(o) PROVE RestoreInv(n)'
  <2>1. /\ UNCHANGED <<queue, exec>> /\ row[o] = "ready" /\ row' = [row EXCEPT ![o] = "restoring"]
        /\ unsent' = unsent \cup {<<R, o, "ready", "alone">>}
    BY <1>5 DEF RestoreSnapshot, LabReset, SetRow, LabIdle
  <2>2. CASE o = n
    <3>1. row'[n] = "restoring" /\ ~Queued(R, n)' /\ \A f \in Exec : ~Acting(f, R, n)'
      BY <1>0, <2>1, <2>2 DEF RestoreInv, Queued, Acting, Runs
    <3> QED BY <3>1 DEF RestoreInv, Queued
  <2>3. CASE o # n
    <3>1. row'[n] = row[n]
      BY <1>0, <2>1, <2>3
    <3>2. Unsent(R, n)' => Unsent(R, n)
      BY <2>1, <2>3 DEF Unsent
    <3> QED BY <1>1, <2>1, <3>1, <3>2 DEF Acting, Runs
  <2> QED BY <2>2, <2>3
<1>6. ASSUME NEW u \in unsent, Send(u) \/ SendRefused(u) \/ SenderDies(u) PROVE RestoreInv(n)'
  <2>0. u = <<u[1], u[2], u[3], "alone">> /\ u[1] \in Task /\ u[2] \in Snap /\ u[3] \in {"failed", "ready"}
    BY DEF Quiet
  <2>1. exec' = exec /\ unsent' = unsent \ {u} /\ queue' \subseteq queue \cup {Fresh(u, FALSE)}
    BY <1>6, SendMeans DEF Send, SendRefused, SenderDies
  <2>2. Fresh(u, FALSE).task = u[1] /\ Fresh(u, FALSE).snap = u[2]
    BY DEF Fresh
  <2>3. CASE u[1] = R /\ u[2] = n
    <3>1. Unsent(R, n) /\ u = <<R, n, "ready", "alone">>
      BY <2>0, <2>3, SendMeans DEF Unsent
    <3>2. ~Unsent(R, n)'
      BY <2>1, <3>1 DEF Unsent, Quiet
    <3>3. row[n] = "restoring" /\ ~Queued(R, n) /\ \A f \in Exec : ~Acting(f, R, n)
      BY <3>1 DEF RestoreInv
    <3>4. \A f \in Exec : ~Acting(f, R, n)'
      BY <2>1, <3>3 DEF Acting, Runs
    <3>5. CASE row' = row
      BY <1>3, <2>1, <3>2, <3>3, <3>4, <3>5 DEF Queued
    <3>6. CASE row' # row
      <4>1. queue' = queue
        BY <1>6, <3>6 DEF Send, SendRefused, SenderDies
      <4> QED BY <1>2, <3>2, <3>3, <3>4, <4>1 DEF Queued
    <3> QED BY <3>5, <3>6
  <2>4. CASE ~(u[1] = R /\ u[2] = n)
    <3>1. row[n] = "restoring" => row'[n] = "restoring"
      <4>1. row' = row \/ row' = Moved(u[2], {BusyOf(u[1])}, u[3])
        BY <1>6 DEF Send, SendRefused, SenderDies
      <4>2. u[2] = n => BusyOf(u[1]) # "restoring"
        BY <2>0, <2>4 DEF BusyOf, Task
      <4>3. \A o \in Snap : Moved(u[2], {BusyOf(u[1])}, u[3])[o] =
                            IF o = u[2] /\ row[u[2]] \in {BusyOf(u[1])} THEN u[3] ELSE row[o]
        BY <1>0, <2>0, MovedMeans DEF RowState
      <4> QED BY <4>1, <4>2, <4>3
    <3>2. Unsent(R, n)' => Unsent(R, n)
      BY <2>1 DEF Unsent
    <3> QED BY <1>1, <2>1, <2>2, <2>4, <3>1, <3>2 DEF Acting, Runs
  <2> QED BY <2>3, <2>4
<1>7. ASSUME NEW e \in Exec, NEW m \in queue, LoadSnapshot(e, m) \/ RunDelete(e, m) PROVE RestoreInv(n)'
  <2>1. unsent' = unsent /\ m.task # R /\ \E p \in StepPC : Started(e, m, p)
    BY <1>7 DEF LoadSnapshot, RunDelete, StepPC
  <2>2. queue' = queue \ {m} /\ NoNewActing
    BY <1>t, <2>1, StartFlows DEF Acting
  <2>3. row[n] = "restoring" => row'[n] = "restoring"
    <3>1. CASE LoadSnapshot(e, m)
      BY <3>1 DEF LoadSnapshot
    <3>2. CASE RunDelete(e, m)
      <4>1. row' = [row EXCEPT ![m.snap] = "deleted"] /\ m.task = "delete_snapshot" /\ m.snap \in Snap
        BY <3>2, TypeFacts DEF RunDelete, SetRow
      <4>2. m.snap = n => row[n] = "deleted"
        BY <4>1 DEF DeleteInv, Queued
      <4> QED BY <1>0, <4>1, <4>2
    <3> QED BY <1>7, <3>1, <3>2
  <2> QED BY <1>1, <2>1, <2>2, <2>3 DEF Unsent
<1>8. ASSUME NEW e \in Exec, NEW m \in queue, NEW w \in BOOLEAN, LoadRestore(e, m, w) PROVE RestoreInv(n)'
  <2>1. m.task = R /\ unsent' = unsent /\ m.snap \in Snap
    BY <1>8, TypeFacts DEF LoadRestore
  <2>2. \/ Started(e, m, "loaded") /\ row' = row
        \/ Started(e, m, "acking") /\ row' = Moved(m.snap, {"restoring"}, "ready")
    BY <1>8 DEF LoadRestore
  <2>3. PICK p \in {"loaded", "acking"} :
            Started(e, m, p) /\ (p = "loaded" => row' = row) /\ (p = "acking" => row' = Moved(m.snap, {"restoring"}, "ready"))
    BY <2>2
  <2>4. /\ Runs(e, R, n)' <=> m.task = R /\ m.snap = n
        /\ exec'[e].pc = p
        /\ \A f \in Exec : f # e => exec'[f] = exec[f] /\ (Runs(f, R, n)' <=> Runs(f, R, n))
        /\ queue' = queue \ {m}
    BY <1>t, <2>3, StartFlows DEF StepPC
  <2>5. CASE m.snap # n
    <3>1. NoNewActing
      BY <2>1, <2>4, <2>5 DEF Acting
    <3>2. row'[n] = row[n]
      BY <1>0, <2>1, <2>3, <2>5, MovedMeans DEF RowState
    <3> QED BY <1>1, <2>1, <2>4, <3>1, <3>2 DEF Unsent
  <2>6. CASE m.snap = n
    <3>1. Queued(R, n) /\ row[n] = "restoring" /\ ~Unsent(R, n) /\ \A f \in Exec : ~Acting(f, R, n)
      BY <2>1, <2>6 DEF Queued, RestoreInv
    <3>2. ~Queued(R, n)' /\ ~Unsent(R, n)'
      BY <2>1, <2>4, <2>6, <3>1 DEF Queued, Unsent, RestoreInv
    <3>3. \A f \in Exec : f # e => ~Acting(f, R, n)'
      BY <2>4, <3>1 DEF Acting
    <3>4. CASE p = "acking"
      BY <1>2, <2>4, <3>2, <3>3, <3>4 DEF Acting
    <3>5. CASE p = "loaded"
      BY <2>3, <3>1, <3>2, <3>3, <3>5 DEF RestoreInv, Queued
    <3> QED BY <3>4, <3>5
  <2> QED BY <2>5, <2>6
<1>9. ASSUME NEW e \in Exec, BeginSnapshot(e) \/ EndSnapshot(e) \/ RecordSnapshot(e) \/ CutSnapshot(e)
                               \/ BeginRevert(e) \/ EndRevert(e)
      PROVE  RestoreInv(n)'
  <2>1. exec[e] # None /\ exec[e].pc # "acking" /\ UNCHANGED <<unsent, queue>> /\ \E p \in StepPC : To(e, p)
    BY <1>9 DEF BeginSnapshot, EndSnapshot, RecordSnapshot, CutSnapshot, BeginRevert, EndRevert, At, StepPC
  <2>2. NoNewActing
    BY <1>t, <2>1, ToFlows DEF Acting
  <2>3. row[n] = "restoring" => row'[n] = "restoring"
    <3>1. row' = row \/ \E s \in {"ready", "failed"} : row' = Moved(exec[e].msg.snap, Pending, s)
      BY <1>9 DEF BeginSnapshot, EndSnapshot, RecordSnapshot, CutSnapshot, BeginRevert, EndRevert
    <3> QED BY <1>0, <2>1, <3>1, TypeFacts, MovedMeans DEF RowState, Pending
  <2> QED BY <1>1, <2>1, <2>2, <2>3 DEF Unsent
<1>10. ASSUME NEW e \in Exec, RecordRestore(e) \/ CutRestore(e) PROVE RestoreInv(n)'
  <2>1. /\ exec[e] # None /\ exec[e].pc # "acking" /\ UNCHANGED <<unsent, queue>> /\ To(e, "acking")
        /\ row' = Moved(exec[e].msg.snap, {"restoring"}, "ready")
    BY <1>10 DEF RecordRestore, CutRestore, At, ShapeInv
  <2>2. exec[e].msg.task = R /\ exec[e].msg.snap \in Snap
    BY <1>10, <2>1, TypeFacts DEF RecordRestore, CutRestore, At, ShapeInv
  <2>3. /\ \A f \in Exec : Runs(f, R, n)' <=> Runs(f, R, n)
        /\ exec'[e].pc = "acking" /\ \A f \in Exec : f # e => exec'[f] = exec[f]
    BY <1>t, <2>1, ToFlows DEF StepPC
  <2>4. CASE exec[e].msg.snap # n
    <3>1. row'[n] = row[n]
      BY <1>0, <2>1, <2>2, <2>4, MovedMeans DEF RowState
    <3>2. NoNewActing
      BY <2>3 DEF Acting
    <3> QED BY <1>1, <2>1, <3>1, <3>2 DEF Unsent
  <2>5. CASE exec[e].msg.snap = n
    <3>1. Acting(e, R, n)
      BY <2>1, <2>2, <2>5 DEF Acting, Runs
    <3>2. ~Unsent(R, n) /\ ~Queued(R, n) /\ \A f \in Exec : Acting(f, R, n) => f = e
      BY <3>1 DEF RestoreInv
    <3>3. \A f \in Exec : ~Acting(f, R, n)'
      BY <2>3, <3>2 DEF Acting
    <3> QED BY <1>2, <2>1, <3>2, <3>3 DEF Unsent, Queued
  <2> QED BY <2>4, <2>5
<1>11. ASSUME NEW e \in Exec, FailRestore(e) PROVE RestoreInv(n)'
  <2>1. /\ exec[e] # None /\ exec[e].pc # "acking" /\ unsent' = unsent /\ exec' = [exec EXCEPT ![e] = None]
        /\ queue' = queue \cup Retry(exec[e].msg) /\ row' = GiveBack(exec[e].msg)
    BY <1>11 DEF FailRestore, Fail
  <2>2. exec[e].msg \in Message /\ exec[e].msg.task = R /\ exec[e].msg.snap \in Snap
    BY <1>11, <2>1, TypeFacts DEF FailRestore, ShapeInv
  <2>3. ~Runs(e, R, n)' /\ \A f \in Exec : f # e => exec'[f] = exec[f] /\ (Runs(f, R, n)' <=> Runs(f, R, n))
    BY <1>t, <2>1, OverFlows
  <2>4. \A r \in Retry(exec[e].msg) : r.task = R /\ r.snap = exec[e].msg.snap
    BY <2>2, RetryMeans
  <2>5. CASE exec[e].msg.snap # n
    <3>1. row'[n] = row[n]
      BY <1>0, <2>1, <2>2, <2>5, MovedMeans DEF RowState, GiveBack
    <3>2. NoNewActing
      BY <2>3 DEF Acting
    <3> QED BY <1>1, <2>1, <2>4, <2>5, <3>1, <3>2 DEF Unsent
  <2>6. CASE exec[e].msg.snap = n
    <3>1. Acting(e, R, n)
      BY <2>1, <2>2, <2>6 DEF Acting, Runs
    <3>2. row[n] = "restoring" /\ ~Unsent(R, n) /\ ~Queued(R, n) /\ \A f \in Exec : Acting(f, R, n) => f = e
      BY <3>1 DEF RestoreInv
    <3>3. ~Unsent(R, n)' /\ \A f \in Exec : ~Acting(f, R, n)'
      BY <2>1, <2>3, <3>2 DEF Acting, Unsent
    <3>4. CASE LastAttempt(exec[e].msg)
      <4>1. Retry(exec[e].msg) = {}
        BY <2>2, <3>4, RetryMeans
      <4>2. ~Queued(R, n)'
        BY <2>1, <3>2, <4>1 DEF Queued
      <4> QED BY <1>2, <3>3, <4>2
    <3>5. CASE ~LastAttempt(exec[e].msg)
      <4>1. row'[n] = "restoring"
        BY <2>1, <3>2, <3>5 DEF GiveBack
      <4>2. \A m, o \in queue' : m.task = R /\ o.task = R /\ m.snap = n /\ o.snap = n => m = o
        BY <2>1, <2>2, <3>2, RetryMeans DEF Queued
      <4> QED BY <1>3, <3>3, <4>1, <4>2
    <3> QED BY <3>4, <3>5
  <2> QED BY <2>5, <2>6
<1>12. ASSUME NEW e \in Exec, Ack(e) \/ (\E left \in BOOLEAN : FailSnapshot(e, left)) PROVE RestoreInv(n)'
  <2>1. /\ exec[e] # None /\ exec' = [exec EXCEPT ![e] = None] /\ unsent' = unsent
        /\ queue' = queue \/ (queue' = queue \cup Retry(exec[e].msg) /\ exec[e].msg.task # R)
        /\ row' = row \/ row' = Moved(exec[e].msg.snap, Pending, "failed")
    BY <1>12 DEF Ack, FailSnapshot, At, Fail, ShapeInv
  <2>2. exec[e].msg \in Message /\ exec[e].msg.snap \in Snap
    BY <2>1, TypeFacts
  <2>3. ~Runs(e, R, n)' /\ \A f \in Exec : f # e => exec'[f] = exec[f] /\ (Runs(f, R, n)' <=> Runs(f, R, n))
    BY <1>t, <2>1, OverFlows
  <2>4. NoNewActing
    BY <2>3 DEF Acting
  <2>5. NoNewMessage
    BY <2>1, <2>2, RetryMeans
  <2>6. row[n] = "restoring" => row'[n] = "restoring"
    BY <1>0, <2>1, <2>2, MovedMeans DEF RowState, Pending
  <2> QED BY <1>1, <2>1, <2>4, <2>5, <2>6 DEF Unsent
<1>13. ASSUME NEW m \in queue, DeleteFails(m) \/ (\E done \in BOOLEAN : CutDelete(m, done)) PROVE RestoreInv(n)'
  <2>1. \A o \in queue' : o \in queue \/ (o.task = m.task /\ o.snap = m.snap)
    BY <1>13, TypeFacts, RetryMeans DEF DeleteFails, CutDelete
  <2>2. m.task # R /\ UNCHANGED <<unsent, exec, row>>
    BY <1>13 DEF DeleteFails, CutDelete
  <2> QED BY <1>1, <2>1, <2>2 DEF Acting, Runs, Unsent
<1>14. CASE \/ AcceptDestroy \/ (\E a \in {"stop", "start"} : AcceptPower(a))
            \/ OpTask \/ Stragglers \/ KeptLeaseEnds \/ UNCHANGED vars
  <2>1. UNCHANGED <<unsent, queue, exec, row>>
    BY <1>14 DEF AcceptDestroy, AcceptPower, OpTask, Stragglers, StragglerEnds, KeptLeaseEnds, vars
  <2> QED BY <1>1, <2>1 DEF Acting, Runs, Unsent
<1> QED BY <1>4, <1>5, <1>6, <1>7, <1>8, <1>9, <1>10, <1>11, <1>12, <1>13, <1>14
        DEF QuietNext, Api, Sent, Worker, Faults, Step

-----------------------------------------------------------------------------
(* Rare events.                                                            *)

\* No rare event happens more often than its bound.
WithinBudget == \A f \in Rare : budget[f] <= Budget[f]

\* Nothing gives back what a rare event has spent. Only a lab's second request and its duplicate
\* spend their own.
LEMMA BudgetFalls ==
    ASSUME TypeOK, [Next]_vars
    PROVE  \/ UNCHANGED budget
           \/ \E f \in Rare \ {"labRetry", "duplicate"} : Spend(f)
           \/ Spend("labRetry") /\ \E n \in Snap : LabRetry(n)
           \/ Spend("duplicate") /\ \E u \in unsent : SentTwice(u)
<1>1. CASE UNCHANGED vars
    BY <1>1 DEF vars
<1>2. CASE Api
  <2>1. ASSUME NEW n \in Snap, CreateSnapshot(n) \/ RestoreSnapshot(n) \/ DeleteSnapshot(n)
                                 \/ LabBaseline(n) \/ LabReset(n)
        PROVE  UNCHANGED budget
    BY <2>1 DEF CreateSnapshot, RestoreSnapshot, DeleteSnapshot, LabBaseline, LabReset
  <2>2. ASSUME NEW n \in Snap, LabRetry(n) PROVE Spend("labRetry")
    BY <2>2 DEF LabRetry
  <2>3. ASSUME NEW u \in unsent, SendRefused(u) \/ SenderDies(u) \/ SentTwice(u)
        PROVE  Spend("refused") \/ Spend("apiDeath") \/ (SentTwice(u) /\ Spend("duplicate"))
    BY <2>3 DEF SendRefused, SenderDies, SentTwice
  <2>4. CASE AcceptDestroy \/ \E a \in {"stop", "start"} : AcceptPower(a)
    BY <2>4 DEF AcceptDestroy, AcceptPower
  <2> QED BY <1>2, <2>1, <2>2, <2>3, <2>4 DEF Api, Rare
<1>3. CASE Sent
    BY <1>3 DEF Sent, Send
<1>4. CASE Faults
    BY <1>4 DEF Faults, CutRestore, CutSnapshot, CutDelete, Crash, Rare
<1>6. CASE Overlaps
  <2>1. ASSUME NEW n \in Snap, DeleteAgain(n) \/ AskCreate(n) \/ AskRestore(n) \/ AskDelete(n) PROVE Spend("overlap")
    BY <2>1 DEF DeleteAgain, AskCreate, AskRestore, AskDelete
  <2>2. ASSUME NEW q \in asked, CommitAsked(q) PROVE UNCHANGED budget
    BY <2>2 DEF CommitAsked
  <2> QED BY <1>6, <2>1, <2>2 DEF Overlaps, Rare
<1>5. CASE Worker
  <2>1. ASSUME NEW e \in Exec, NEW m \in queue, LoadSnapshot(e, m) \/ RunDelete(e, m) PROVE UNCHANGED budget
    BY <2>1 DEF LoadSnapshot, RunDelete
  <2>2. ASSUME NEW e \in Exec, NEW m \in queue, NEW w \in BOOLEAN, LoadRestore(e, m, w)
        PROVE  UNCHANGED budget \/ Spend("window")
    BY <2>2 DEF LoadRestore, SpendIf
  <2>3. ASSUME NEW e \in Exec, BeginSnapshot(e) \/ EndSnapshot(e) \/ RecordSnapshot(e) \/ BeginRevert(e)
                                 \/ EndRevert(e) \/ RecordRestore(e) \/ Ack(e)
        PROVE  UNCHANGED budget
    BY <2>3 DEF BeginSnapshot, EndSnapshot, RecordSnapshot, BeginRevert, EndRevert, RecordRestore, Ack
  <2>4. ASSUME NEW e \in Exec, NEW left \in BOOLEAN, FailSnapshot(e, left)
        PROVE  UNCHANGED budget \/ Spend("discardFails") \/ Spend("callFails")
    BY <2>4 DEF FailSnapshot, SpendIf
  <2>5. ASSUME NEW e \in Exec, FailRestore(e) PROVE UNCHANGED budget \/ Spend("callFails")
    BY <2>5 DEF FailRestore, SpendIf
  <2>6. ASSUME NEW m \in queue, DeleteFails(m) PROVE Spend("deleteFails")
    BY <2>6 DEF DeleteFails
  <2>7. CASE OpTask \/ Stragglers \/ KeptLeaseEnds
    BY <2>7 DEF OpTask, Stragglers, StragglerEnds, KeptLeaseEnds
  <2> QED BY <1>5, <2>1, <2>2, <2>3, <2>4, <2>5, <2>6, <2>7 DEF Worker, Step, Rare
<1> QED BY <1>1, <1>2, <1>3, <1>4, <1>5, <1>6 DEF Next

\* A rare event that has happened has happened.
LEMMA SpendMeans ==
    ASSUME TypeOK, WithinBudget, NEW f \in Rare, Spend(f)
    PROVE  /\ Spent(f)' /\ \A g \in Rare : Spent(g) => Spent(g)'
           /\ WithinBudget'
<1>1. budget \in [Rare -> Nat] /\ Budget \in [Rare -> Nat] /\ budget[f] > 0 /\ budget' = [budget EXCEPT ![f] = @ - 1]
    BY TypeParts, SnapshotsAssumption DEF BudgetOK, Spend
<1>2. \A g \in Rare : /\ budget'[g] = IF g = f THEN budget[f] - 1 ELSE budget[g]
                      /\ budget[g] \in Nat /\ Budget[g] \in Nat /\ budget[g] <= Budget[g]
    BY <1>1 DEF WithinBudget
<1> QED BY <1>1, <1>2 DEF Spent, WithinBudget

\* It stays within its bound, and what is spent stays spent.
LEMMA SpentStays ==
    ASSUME TypeOK, WithinBudget, [Next]_vars
    PROVE  WithinBudget' /\ \A g \in Rare : Spent(g) => Spent(g)'
BY BudgetFalls, SpendMeans DEF WithinBudget, Spent, Rare

\* What is left when no requests overlap and no time limit cuts a task off.
CalmNext == Api \/ Sent \/ (\E e \in Exec : Crash(e)) \/ Worker

\* As long as no requests have overlapped, every step is one of QuietNext ...
LEMMA NextIsQuiet ==
    ASSUME TypeOK, WithinBudget, asked = {}, [Next]_vars, ~Spent("overlap")'
    PROVE  [QuietNext]_vars
<1>1. ~Spend("overlap")
    BY SpendMeans DEF Rare
<1>2. ~Overlaps
    BY <1>1 DEF Overlaps, DeleteAgain, AskCreate, AskRestore, AskDelete
<1> QED BY <1>2 DEF Next, QuietNext

\* ... and as long as no time limit has cut a task off, one of CalmNext, and no call outlives
\* its task.
LEMMA NextIsCalm ==
    ASSUME TypeOK, WithinBudget, [QuietNext]_vars, ~Spent("softLimit")'
    PROVE  [CalmNext]_vars /\ (straggler = {} => straggler' = {})
<1>1. ~Spend("softLimit")
    BY SpendMeans DEF Rare
<1>2. Faults => \E e \in Exec : Crash(e)
    BY <1>1 DEF Faults, CutRestore, CutSnapshot, CutDelete
<1>3. [CalmNext]_vars
    BY <1>2 DEF QuietNext, CalmNext
<1>4. ASSUME NEW e \in Exec, Step(e) PROVE straggler' = straggler
    BY <1>4 DEF Step, LoadSnapshot, RunDelete, LoadRestore, BeginSnapshot, EndSnapshot, RecordSnapshot, FailSnapshot,
       BeginRevert, EndRevert, RecordRestore, FailRestore, Ack
<1>5. CASE Worker
    BY <1>3, <1>4, <1>5 DEF Worker, DeleteFails, OpTask, Stragglers, StragglerEnds, KeptLeaseEnds
<1>6. CASE Api
    BY <1>3, <1>6 DEF Api, CreateSnapshot, RestoreSnapshot, DeleteSnapshot, LabBaseline, LabRetry, LabReset,
       SendRefused, SenderDies, SentTwice, AcceptPower, AcceptDestroy
<1>7. CASE Sent \/ (\E e \in Exec : Crash(e)) \/ UNCHANGED vars
    BY <1>3, <1>7 DEF Sent, Send, Crash, vars
<1> QED BY <1>3, <1>5, <1>6, <1>7 DEF CalmNext

-----------------------------------------------------------------------------
(* Nothing is left behind.                                                 *)

\* A task of the snapshot that has yet to be sent, waits in the queue or is executed; and one
\* that is not merely to be acknowledged.
TaskOf(t, n) == Unsent(t, n) \/ Queued(t, n) \/ \E e \in Exec : Runs(e, t, n)
Active(t, n) == Unsent(t, n) \/ Queued(t, n) \/ \E e \in Exec : Acting(e, t, n)

\* What a row says of its data and of what the hypervisor holds, whatever has gone wrong.
DataInv(n) ==
    /\ row[n] = "none" => hv[n] = "none" /\ \A t \in Task : ~TaskOf(t, n)
    /\ data[n] => row[n] \notin Pending \cup {"none"}
    /\ row[n] \in {"ready", "restoring"} => data[n]
    /\ <<"delete_snapshot", n, "failed", "alone">> \in unsent => ~data[n]
    /\ <<"delete_snapshot", n, "ready", "alone">> \in unsent => data[n]
    /\ rstate = "destroyed" => hv[n] = "none"
    /\ lab => row[n] # "deleted"

\* Only a lab asks for its reset point again, or sends a task twice; it has one task to send
\* at a time.
ApiInv ==
    /\ ~lab => ~Spent("labRetry") /\ ~Spent("duplicate")
    /\ lab => \A u, v \in unsent : u = v

\* What may leave something on the hypervisor for good.
Excused == \/ Spent("discardFails") \/ Spent("deleteFails") \/ Spent("apiDeath") \/ Spent("softLimit") \/ Spent("overlap")
           \/ Spent("callFails") /\ Spent("crash")

\* Whoever put something there is still to come back to it.
LeftInv(n) ==
    /\ row[n] \in Pending /\ hv[n] # "none" => Active("snapshot_range", n)
    /\ row[n] = "restoring" => Active("restore_snapshot", n)
    /\ row[n] = "deleted" /\ data[n] => hv[n] = "none" \/ Unsent("delete_snapshot", n) \/ Queued("delete_snapshot", n)
    /\ row[n] = "deleted" /\ ~data[n] /\ hv[n] # "none" => \E e \in Exec : Acting(e, "snapshot_range", n)

\* A range of the API's: its failed task is to blame for a row that was deleted before it had
\* data, and what it left under the name while it waits to be run again is a dead worker's.
BlameInv(n) ==
    /\ data[n] => \A e \in Exec : ~Acting(e, "snapshot_range", n)
    /\ Unsent("snapshot_range", n) => hv[n] = "none"
    /\ Queued("snapshot_range", n) /\ hv[n] # "none" => Spent("crash")
    /\ (row[n] = "failed" \/ (row[n] = "deleted" /\ ~data[n])) /\ TaskOf("snapshot_range", n)
          => Spent("callFails") \/ rstate = "destroyed"

\* What a step that has nothing to do with the snapshot keeps of it.
Same(n) ==
    /\ row'[n] = row[n] /\ data'[n] = data[n] /\ hv'[n] = hv[n]
    /\ \A t \in Task, p \in {"failed", "ready"} : <<t, n, p, "alone">> \in unsent' <=> <<t, n, p, "alone">> \in unsent
    /\ \A t \in Task : Queued(t, n)' <=> Queued(t, n)
    /\ \A t \in Task, f \in Exec : (Runs(f, t, n)' <=> Runs(f, t, n)) /\ (Acting(f, t, n)' <=> Acting(f, t, n))

\* The steps of an execution.
Goes(e) == \/ BeginSnapshot(e) \/ EndSnapshot(e) \/ RecordSnapshot(e) \/ BeginRevert(e) \/ EndRevert(e)
           \/ RecordRestore(e)
Ends(e) == FailRestore(e) \/ (\E left \in BOOLEAN : FailSnapshot(e, left)) \/ Ack(e) \/ Crash(e)

\* The steps that have to do with the snapshot.
Touches(n) ==
    \/ CreateSnapshot(n) \/ LabBaseline(n) \/ RestoreSnapshot(n) \/ LabReset(n) \/ DeleteSnapshot(n) \/ LabRetry(n)
    \/ \E u \in unsent : u[2] = n /\ (Send(u) \/ SendRefused(u) \/ SenderDies(u) \/ SentTwice(u))
    \/ \E e \in Exec, m \in queue :
           m.snap = n /\ (LoadSnapshot(e, m) \/ RunDelete(e, m) \/ \E w \in BOOLEAN : LoadRestore(e, m, w))
    \/ \E m \in queue : m.snap = n /\ DeleteFails(m)
    \/ \E e \in Exec : exec[e] # None /\ exec[e].msg.snap = n /\ (Goes(e) \/ Ends(e))
    \/ OpTask

\* Every other step leaves the snapshot, and the destruction of the range, alone.
LEMMA OthersLeaveIt ==
    ASSUME TypeOK, Quiet, NEW n \in Snap, ApiInv, straggler = {}, [CalmNext]_vars
    PROVE  Touches(n) \/ (Same(n) /\ (rstate' = "destroyed" => rstate = "destroyed"))
<1> USE DEF rows, CanCreate, CanRestore
<1> DEFINE Away == rstate' = "destroyed" => rstate = "destroyed"
<1>0. /\ RowOK /\ TaskOK /\ ExecOK /\ row \in [Snap -> RowState] /\ hv \in [Snap -> {"none", "part", "whole"}]
      /\ data \in [Snap -> BOOLEAN]
    BY TypeFacts DEF RowOK
<1>1. ASSUME row'[n] = row[n], data'[n] = data[n], hv'[n] = hv[n],
             \A t \in Task, p \in {"failed", "ready"} : <<t, n, p, "alone">> \in unsent' <=> <<t, n, p, "alone">> \in unsent,
             \A m \in queue \cup queue' : m.snap = n => (m \in queue' <=> m \in queue),
             \A f \in Exec : \/ exec'[f] = exec[f]
                             \/ /\ exec[f] = None \/ exec[f].msg.snap # n
                                /\ exec'[f] = None \/ exec'[f].msg.snap # n
      PROVE  Same(n)
  <2>1. \A t \in Task : Queued(t, n)' <=> Queued(t, n)
    BY <1>1 DEF Queued
  <2>2. \A t \in Task, f \in Exec : (Runs(f, t, n)' <=> Runs(f, t, n)) /\ (Acting(f, t, n)' <=> Acting(f, t, n))
    BY <1>1 DEF Runs, Acting
  <2> QED BY <1>1, <2>1, <2>2 DEF Same
<1>2. ASSUME NEW o \in Snap, o # n,
             CreateSnapshot(o) \/ LabBaseline(o) \/ RestoreSnapshot(o) \/ LabReset(o) \/ DeleteSnapshot(o) \/ LabRetry(o)
      PROVE  Same(n) /\ Away
  <2>1. UNCHANGED <<exec, hv, data, rstate>>
    BY <1>2 DEF CreateSnapshot, LabBaseline, RestoreSnapshot, LabReset, DeleteSnapshot, LabRetry
  <2>2. \E s \in RowState : row' = [row EXCEPT ![o] = s]
    BY <1>2 DEF CreateSnapshot, LabBaseline, RestoreSnapshot, LabReset, DeleteSnapshot, LabRetry, SetRow, RowState
  <2>3. unsent \subseteq unsent' /\ \E t \in Task, p \in RowState : unsent' \subseteq unsent \cup {<<t, o, p, "alone">>}
    BY <1>2 DEF CreateSnapshot, LabBaseline, RestoreSnapshot, LabReset, DeleteSnapshot, LabRetry, LabIdle, Task, RowState
  <2>4. \A t \in Task, p \in {"failed", "ready"} : <<t, n, p, "alone">> \in unsent' <=> <<t, n, p, "alone">> \in unsent
    BY <1>2, <2>3
  <2>5. Fresh(<<"snapshot_range", o>>, TRUE).snap = o
    BY DEF Fresh
  <2>6. queue \subseteq queue' /\ queue' \subseteq queue \cup {Fresh(<<"snapshot_range", o>>, TRUE)}
    BY <1>2 DEF CreateSnapshot, LabBaseline, RestoreSnapshot, LabReset, DeleteSnapshot, LabRetry
  <2>7. \A m \in queue \cup queue' : m.snap = n => (m \in queue' <=> m \in queue)
    BY <1>2, <2>5, <2>6
  <2>8. row'[n] = row[n]
    BY <1>0, <1>2, <2>2
  <2> QED BY <1>1, <2>1, <2>4, <2>7, <2>8
<1>3. ASSUME NEW u \in unsent, u[2] # n, Send(u) \/ SendRefused(u) \/ SenderDies(u) \/ SentTwice(u)
      PROVE  Same(n) /\ Away
  <2>0. u = <<u[1], u[2], u[3], "alone">> /\ u[1] \in Task /\ u[2] \in Snap /\ u[3] \in {"failed", "ready"}
    BY DEF Quiet
  <2>1. UNCHANGED <<exec, hv, data, rstate>>
    BY <1>3 DEF Send, SendRefused, SenderDies, SentTwice
  <2>2. unsent' = unsent \ {u}
    BY <1>3 DEF Send, SendRefused, SenderDies, SentTwice, ApiInv
  <2>3. \A t \in Task, p \in {"failed", "ready"} : <<t, n, p, "alone">> \in unsent' <=> <<t, n, p, "alone">> \in unsent
    BY <1>3, <2>0, <2>2
  <2>4. \A c \in BOOLEAN : Fresh(u, c).snap = u[2]
    BY DEF Fresh
  <2>5. queue \subseteq queue' /\ queue' \subseteq queue \cup {Fresh(u, FALSE), Fresh(u, TRUE)}
    <3>1. CASE Send(u)
      <4>1. queue' = queue \cup {Fresh(u, FALSE)}
        BY <3>1, SendMeans, Zenon
      <4> QED BY <4>1
    <3>2. CASE ~Send(u)
      BY <1>3, <3>2 DEF SendRefused, SenderDies, SentTwice
    <3> QED BY <3>1, <3>2
  <2>6. \A m \in queue \cup queue' : m.snap = n => (m \in queue' <=> m \in queue)
    BY <1>3, <2>4, <2>5
  <2>7. row'[n] = row[n]
    <3>1. row' = row \/ row' = Moved(u[2], {BusyOf(u[1])}, u[3])
      BY <1>3 DEF Send, SendRefused, SenderDies, SentTwice
    <3> QED BY <1>0, <1>3, <2>0, <3>1, MovedMeans DEF RowState
  <2> QED BY <1>1, <2>1, <2>3, <2>6, <2>7
<1>4. ASSUME NEW e \in Exec, NEW m \in queue, m.snap # n,
             LoadSnapshot(e, m) \/ RunDelete(e, m) \/ \E w \in BOOLEAN : LoadRestore(e, m, w)
      PROVE  Same(n) /\ Away
  <2>1. UNCHANGED <<unsent, data, rstate>> /\ m.snap \in Snap /\ \E p \in StepPC : Started(e, m, p)
    BY <1>4, TypeFacts DEF LoadSnapshot, RunDelete, LoadRestore, StepPC
  <2>2. /\ exec[e] = None /\ queue' = queue \ {m} /\ exec'[e].msg = m
        /\ \A f \in Exec : f # e => exec'[f] = exec[f]
    BY <2>1, TypeFacts, StartedMeans
  <2>3. row'[n] = row[n]
    <3>1. row' = row \/ row' = [row EXCEPT ![m.snap] = "deleted"] \/ row' = Moved(m.snap, {"restoring"}, "ready")
      BY <1>4 DEF LoadSnapshot, RunDelete, LoadRestore, SetRow
    <3> QED BY <1>0, <1>4, <2>1, <3>1, MovedMeans DEF RowState
  <2>4. hv'[n] = hv[n]
    BY <1>0, <1>4, <2>1 DEF LoadSnapshot, RunDelete, LoadRestore
  <2> QED BY <1>1, <1>4, <2>1, <2>2, <2>3, <2>4
<1>5. ASSUME NEW m \in queue, m.snap # n, DeleteFails(m) PROVE Same(n) /\ Away
  <2>1. UNCHANGED <<unsent, exec, row, data, hv, rstate>> /\ queue' = (queue \ {m}) \cup Retry(m)
    BY <1>5 DEF DeleteFails
  <2>2. \A r \in Retry(m) : r.snap = m.snap
    BY TypeFacts, RetryMeans
  <2>3. \A o \in queue \cup queue' : o.snap = n => (o \in queue' <=> o \in queue)
    BY <1>5, <2>1, <2>2
  <2> QED BY <1>1, <2>1, <2>3
<1>6. ASSUME NEW e \in Exec, exec[e] # None, exec[e].msg.snap # n, Goes(e) \/ Ends(e) PROVE Same(n) /\ Away
  <2>0. exec[e].msg \in Message /\ exec[e].msg.snap \in Snap
    BY <1>6, TypeFacts
  <2>1. unsent' = unsent
    BY <1>6 DEF Goes, Ends, BeginSnapshot, EndSnapshot, RecordSnapshot, BeginRevert, EndRevert, RecordRestore, FailRestore, FailSnapshot, Ack, Crash
  <2>2. Away
    <3>1. CASE EndRevert(e)
      <4>1. was[exec[e].msg.snap] \in Live
        BY <1>0, <2>0 DEF RowOK
      <4> QED BY <3>1, <4>1 DEF EndRevert, Live
    <3> QED BY <1>6, <3>1 DEF Goes, Ends, BeginSnapshot, EndSnapshot, RecordSnapshot, BeginRevert, RecordRestore, FailRestore, FailSnapshot, Ack, Crash
  <2>3. row'[n] = row[n]
    <3>1. row' = row \/ \E from \in {Pending, {"restoring"}}, s \in {"ready", "failed"} :
                            row' = Moved(exec[e].msg.snap, from, s)
      BY <1>6 DEF Goes, Ends, BeginSnapshot, EndSnapshot, RecordSnapshot, BeginRevert, EndRevert, RecordRestore, FailRestore, FailSnapshot, Ack, Crash, GiveBack
    <3> QED BY <1>0, <1>6, <2>0, <3>1, MovedMeans DEF RowState
  <2>4. hv'[n] = hv[n] /\ data'[n] = data[n]
    BY <1>0, <1>6, <2>0, ZenonT(60) DEF Goes, Ends, BeginSnapshot, EndSnapshot, RecordSnapshot, BeginRevert, EndRevert, RecordRestore, FailRestore, FailSnapshot, Ack, Crash
  <2>5. \A f \in Exec : f # e => exec'[f] = exec[f]
    <3>1. (\E p \in StepPC : To(e, p)) \/ exec' = [exec EXCEPT ![e] = None]
      BY <1>6 DEF Goes, Ends, BeginSnapshot, EndSnapshot, RecordSnapshot, BeginRevert, EndRevert, RecordRestore, FailRestore, FailSnapshot, Ack, Crash, Fail, StepPC
    <3> QED BY <1>0, <1>6, <3>1, ToMeans, OverMeans
  <2>6. exec'[e] = None \/ exec'[e].msg.snap # n
    <3>1. (\E p \in StepPC : To(e, p)) \/ exec' = [exec EXCEPT ![e] = None]
      BY <1>6 DEF Goes, Ends, BeginSnapshot, EndSnapshot, RecordSnapshot, BeginRevert, EndRevert, RecordRestore, FailRestore, FailSnapshot, Ack, Crash, Fail, StepPC
    <3> QED BY <1>0, <1>6, <3>1, ToMeans, OverMeans
  <2>7. queue \subseteq queue' /\ queue' \subseteq queue \cup {exec[e].msg} \cup Retry(exec[e].msg)
    BY <1>6 DEF Goes, Ends, BeginSnapshot, EndSnapshot, RecordSnapshot, BeginRevert, EndRevert, RecordRestore, FailRestore, FailSnapshot, Ack, Crash, Fail
  <2>8. \A m \in queue \cup queue' : m.snap = n => (m \in queue' <=> m \in queue)
    BY <1>6, <2>0, <2>7, RetryMeans
  <2> QED BY <1>1, <1>6, <2>1, <2>2, <2>3, <2>4, <2>5, <2>6, <2>8
<1>7. CASE \/ AcceptDestroy \/ (\E a \in {"stop", "start"} : AcceptPower(a))
           \/ Stragglers \/ KeptLeaseEnds \/ UNCHANGED vars
  <2>1. UNCHANGED <<unsent, queue, exec, row, data, hv>> /\ Away
    BY <1>7 DEF AcceptDestroy, AcceptPower, Stragglers, StragglerEnds, KeptLeaseEnds, vars
  <2> QED BY <1>1, <2>1
<1>8. ASSUME NEW e \in Exec, Goes(e) \/ Ends(e) PROVE exec[e] # None
    BY <1>8 DEF Goes, Ends, BeginSnapshot, EndSnapshot, RecordSnapshot, BeginRevert, EndRevert, RecordRestore, FailRestore, FailSnapshot, Ack, Crash, At
<1>9. CASE Api
    BY <1>2, <1>3, <1>7, <1>9 DEF Api, Touches
<1>10. CASE Sent
    BY <1>3, <1>10 DEF Sent, Touches
<1>11. CASE \E e \in Exec : Crash(e)
    BY <1>6, <1>8, <1>11 DEF Touches, Ends
<1>12. CASE Worker
    BY <1>4, <1>5, <1>6, <1>7, <1>8, <1>12 DEF Worker, Step, Touches, Goes, Ends
<1> QED BY <1>7, <1>9, <1>10, <1>11, <1>12 DEF CalmNext

\* Nobody changes whose range it is.
LEMMA LabKept == ASSUME [CalmNext]_vars PROVE lab' = lab
BY DEF CalmNext, vars, Api, Sent, Worker, Step, CreateSnapshot, RestoreSnapshot, DeleteSnapshot, LabBaseline,
       LabRetry, LabReset, SendRefused, SenderDies, SentTwice, AcceptPower, AcceptDestroy, Send, Crash,
       LoadSnapshot, RunDelete, LoadRestore, BeginSnapshot, EndSnapshot, RecordSnapshot, FailSnapshot, BeginRevert,
       EndRevert, RecordRestore, FailRestore, Ack, DeleteFails, OpTask, Stragglers, StragglerEnds, KeptLeaseEnds

\* Only a lab repeats itself, and it does one thing at a time.
LEMMA ApiStep == ASSUME TypeOK, WithinBudget, ApiInv, [CalmNext]_vars PROVE ApiInv'
<1>1. lab' = lab
    BY LabKept
<1>2. CASE ~lab
  <2>1. UNCHANGED budget \/ \E f \in Rare \ {"labRetry", "duplicate"} : Spend(f)
    <3>1. [Next]_vars
      BY DEF CalmNext, Next, Faults
    <3> QED BY <1>2, <3>1, BudgetFalls DEF LabRetry, LabIdle, SentTwice
  <2>2. budget \in [Rare -> Nat] /\ "labRetry" \in Rare /\ "duplicate" \in Rare
    BY TypeParts DEF BudgetOK, Rare
  <2>3. budget'["labRetry"] = budget["labRetry"] /\ budget'["duplicate"] = budget["duplicate"]
    BY <2>1, <2>2 DEF Spend
  <2> QED BY <1>1, <1>2, <2>3 DEF ApiInv, Spent
<1>3. CASE lab
  <2>1. unsent' \subseteq unsent \/ \E x : unsent' = {x}
    <3>1. ASSUME NEW e \in Exec, Step(e) PROVE unsent' = unsent
      BY <3>1 DEF Step, LoadSnapshot, RunDelete, LoadRestore, BeginSnapshot, EndSnapshot, RecordSnapshot, FailSnapshot,
         BeginRevert, EndRevert, RecordRestore, FailRestore, Ack
    <3>2. CASE Worker
      BY <3>1, <3>2 DEF Worker, DeleteFails, OpTask, Stragglers, StragglerEnds, KeptLeaseEnds
    <3>3. CASE Api
      BY <1>3, <3>3 DEF Api, CreateSnapshot, CanCreate, RestoreSnapshot, CanRestore, DeleteSnapshot, LabBaseline, LabRetry,
         LabReset, SendRefused, SenderDies, SentTwice, AcceptPower, AcceptDestroy
    <3>4. CASE Sent \/ (\E e \in Exec : Crash(e)) \/ UNCHANGED vars
      BY <3>4 DEF Sent, Send, Crash, vars
    <3> QED BY <3>2, <3>3, <3>4 DEF CalmNext
  <2> QED BY <1>1, <1>3, <2>1 DEF ApiInv
<1> QED BY <1>2, <1>3

\* A row and its data go together.
LEMMA DataStep ==
    ASSUME TypeOK, Quiet, ShapeInv, NEW n \in Snap, DeleteInv(n), ApiInv, DataInv(n), straggler = {}, [CalmNext]_vars
    PROVE  DataInv(n)'
<1> USE DEF rows, CanCreate, CanRestore
<1> DEFINE D == "delete_snapshot"
           Still == \A p \in {"failed", "ready"} : <<D, n, p, "alone">> \in unsent' => <<D, n, p, "alone">> \in unsent
           Away == rstate' = "destroyed" => rstate = "destroyed"
<1>0. /\ RowOK /\ TaskOK /\ ExecOK /\ row \in [Snap -> RowState] /\ hv \in [Snap -> {"none", "part", "whole"}]
      /\ data \in [Snap -> BOOLEAN] /\ D \in Task
    BY TypeFacts DEF RowOK, Task
<1>1. lab' = lab /\ (row'[n] = "none" => row[n] = "none")
    <2>1. [QuietNext]_vars
      BY DEF CalmNext, QuietNext, Faults
    <2> QED BY <2>1, LabKept, SnapshotMoves
<1>2. CASE Same(n) /\ Away
  <2>1. \A t \in Task : TaskOf(t, n)' <=> TaskOf(t, n)
    BY <1>2 DEF Same, TaskOf, Unsent
  <2>2. /\ <<D, n, "failed", "alone">> \in unsent' <=> <<D, n, "failed", "alone">> \in unsent
        /\ <<D, n, "ready", "alone">> \in unsent' <=> <<D, n, "ready", "alone">> \in unsent
    BY <1>0, <1>2 DEF Same
  <2> QED BY <1>1, <1>2, <2>1, <2>2 DEF Same, DataInv
<1>3. ASSUME row[n] # "none", row'[n] = row[n] \/ (row[n] = "restoring" /\ row'[n] = "ready"), data'[n] = data[n],
             hv'[n] = hv[n] \/ hv'[n] = "none", Still, Away
      PROVE  DataInv(n)'
    BY <1>1, <1>3 DEF DataInv, Pending
<1>4. ASSUME CreateSnapshot(n) \/ LabBaseline(n) \/ RestoreSnapshot(n) \/ LabReset(n) \/ LabRetry(n)
      PROVE  DataInv(n)'
  <2>1. /\ UNCHANGED <<data, hv, rstate>> /\ row[n] # "deleted"
        /\ \/ row[n] \in Pending \cup {"none"} /\ row' = [row EXCEPT ![n] = "creating"]
           \/ row[n] = "ready" /\ row' = [row EXCEPT ![n] = "restoring"]
    BY <1>4 DEF CreateSnapshot, LabBaseline, RestoreSnapshot, LabReset, LabRetry, SetRow, Pending
  <2>2. Still
    <3>1. unsent' \subseteq unsent \cup {<<"snapshot_range", n, "failed", "alone">>, <<"restore_snapshot", n, "ready", "alone">>}
      BY <1>4 DEF CreateSnapshot, LabBaseline, RestoreSnapshot, LabReset, LabRetry
    <3> QED BY <3>1
  <2>3. \/ row[n] \in Pending \cup {"none"} /\ row'[n] = "creating"
        \/ row[n] = "ready" /\ row'[n] = "restoring"
    BY <1>0, <2>1
  <2> QED BY <1>1, <2>1, <2>2, <2>3 DEF DataInv, Pending
<1>5. ASSUME DeleteSnapshot(n) PROVE DataInv(n)'
  <2>1. /\ UNCHANGED <<data, hv, rstate>> /\ ~lab /\ row[n] \in {"ready", "failed"} /\ row' = [row EXCEPT ![n] = "deleted"]
        /\ unsent' = unsent \cup {<<D, n, row[n], "alone">>}
    BY <1>5 DEF DeleteSnapshot, SetRow
  <2>2. row'[n] = "deleted"
    BY <1>0, <2>1
  <2> QED BY <1>1, <2>1, <2>2 DEF DataInv, Pending
<1>6. ASSUME NEW u \in unsent, u[2] = n, Send(u) \/ SendRefused(u) \/ SenderDies(u) \/ SentTwice(u) PROVE DataInv(n)'
  <2>0. u = <<u[1], u[2], u[3], "alone">> /\ u[1] \in Task /\ u[2] \in Snap /\ u[3] \in {"failed", "ready"}
    BY DEF Quiet
  <2>1. row[n] # "none"
    BY <1>6, <2>0 DEF DataInv, TaskOf, Unsent
  <2>2. UNCHANGED <<data, hv, rstate>> /\ unsent' \subseteq unsent
    BY <1>6 DEF Send, SendRefused, SenderDies, SentTwice
  <2>3. CASE row' = row
    BY <1>3, <2>1, <2>2, <2>3
  <2>4. CASE row' # row
    <3>1. row' = Moved(n, {BusyOf(u[1])}, u[3])
      BY <1>6, <2>4 DEF Send, SendRefused, SenderDies, SentTwice
    <3>2. row'[n] = IF row[n] = BusyOf(u[1]) THEN u[3] ELSE row[n]
      BY <1>0, <2>0, <3>1, MovedMeans DEF RowState
    <3>3. CASE row[n] # BusyOf(u[1])
      BY <1>3, <2>1, <2>2, <3>2, <3>3
    <3>4. CASE row[n] = BusyOf(u[1]) /\ u[1] = D
      <4>1. u = <<D, n, u[3], "alone">>
        BY <1>6, <2>0, <3>4
      <4> QED BY <1>1, <2>0, <2>2, <3>2, <3>4, <4>1 DEF DataInv, Pending
    <3>5. CASE row[n] = BusyOf(u[1]) /\ u[1] # D
      <4>1. (row[n] = "creating" /\ row'[n] = "failed") \/ (row[n] = "restoring" /\ row'[n] = "ready")
        BY <1>6, <2>0, <3>2, <3>5, ZenonT(60) DEF BusyOf, Task, Quiet
      <4> QED BY <1>1, <2>2, <4>1 DEF DataInv, DeleteInv, Unsent, Pending
    <3> QED BY <3>3, <3>4, <3>5
  <2> QED BY <2>3, <2>4
<1>7. ASSUME NEW e \in Exec, NEW m \in queue, m.snap = n,
             LoadSnapshot(e, m) \/ RunDelete(e, m) \/ \E w \in BOOLEAN : LoadRestore(e, m, w)
      PROVE  DataInv(n)'
  <2>1. m.task \in Task /\ Queued(m.task, n)
    BY <1>7, TypeFacts DEF Queued
  <2>2. row[n] # "none" /\ UNCHANGED <<unsent, data, rstate>>
    BY <1>7, <2>1 DEF DataInv, TaskOf, LoadSnapshot, RunDelete, LoadRestore
  <2>3. hv'[n] = hv[n] \/ hv'[n] = "none"
    BY <1>0, <1>7 DEF LoadSnapshot, RunDelete, LoadRestore
  <2>4. row'[n] = row[n] \/ (row[n] = "restoring" /\ row'[n] = "ready")
    <3>1. CASE RunDelete(e, m)
      BY <1>0, <1>7, <2>1, <3>1 DEF RunDelete, SetRow, DeleteInv
    <3>2. CASE ~RunDelete(e, m)
      <4>1. row' = row \/ row' = Moved(n, {"restoring"}, "ready")
        BY <1>7, <3>2 DEF LoadSnapshot, LoadRestore
      <4> QED BY <1>0, <4>1, MovedMeans DEF RowState
    <3> QED BY <3>1, <3>2
  <2> QED BY <1>3, <2>2, <2>3, <2>4
<1>8. ASSUME NEW m \in queue, m.snap = n, DeleteFails(m) PROVE DataInv(n)'
  <2>1. m.task \in Task /\ Queued(m.task, n)
    BY <1>8, TypeFacts DEF Queued
  <2> QED BY <1>3, <1>8, <2>1 DEF DataInv, TaskOf, DeleteFails
<1>9. ASSUME NEW e \in Exec, exec[e] # None, exec[e].msg.snap = n, Goes(e) \/ Ends(e) PROVE DataInv(n)'
  <2>1. exec[e].msg.task \in Task /\ Runs(e, exec[e].msg.task, n)
    BY <1>9, TypeFacts DEF Runs
  <2>2. row[n] # "none"
    BY <2>1 DEF DataInv, TaskOf
  <2>3. CASE BeginSnapshot(e) \/ EndSnapshot(e)
    <3>1. UNCHANGED <<unsent, data, row, rstate>> /\ rstate # "destroyed"
      BY <2>3 DEF BeginSnapshot, EndSnapshot
    <3> QED BY <1>1, <2>2, <3>1 DEF DataInv
  <2>4. CASE RecordSnapshot(e)
    <3>1. /\ UNCHANGED <<unsent, rstate>> /\ row' = Moved(n, Pending, "ready")
          /\ data' = [data EXCEPT ![n] = @ \/ row[n] \in Pending]
          /\ hv' = [hv EXCEPT ![n] = IF row[n] \in Pending THEN @ ELSE "none"]
      BY <1>9, <2>4 DEF RecordSnapshot
    <3>2. row'[n] = IF row[n] \in Pending THEN "ready" ELSE row[n]
      BY <1>0, <3>1, MovedMeans DEF RowState
    <3>3. data'[n] <=> (data[n] \/ row[n] \in Pending)
      BY <1>0, <3>1, Zenon
    <3>4. hv'[n] = IF row[n] \in Pending THEN hv[n] ELSE "none"
      BY <1>0, <3>1
    <3> QED BY <1>1, <2>2, <3>1, <3>2, <3>3, <3>4 DEF DataInv, DeleteInv, Unsent, Pending
  <2>5. ASSUME NEW left \in BOOLEAN, FailSnapshot(e, left) PROVE DataInv(n)'
    <3>1. /\ UNCHANGED <<unsent, data, rstate>> /\ row' = Moved(n, Pending, "failed")
          /\ hv' = [hv EXCEPT ![n] = IF left THEN @ ELSE "none"]
      BY <1>9, <2>5 DEF FailSnapshot
    <3>2. row'[n] = IF row[n] \in Pending THEN "failed" ELSE row[n]
      BY <1>0, <3>1, MovedMeans DEF RowState
    <3>3. hv'[n] = hv[n] \/ hv'[n] = "none"
      BY <1>0, <3>1
    <3> QED BY <1>1, <2>2, <3>1, <3>2, <3>3 DEF DataInv, Pending
  <2>6. CASE BeginRevert(e) \/ EndRevert(e) \/ RecordRestore(e) \/ FailRestore(e) \/ Ack(e) \/ Crash(e)
    <3>1. UNCHANGED <<unsent, data, hv>>
      BY <2>6 DEF BeginRevert, EndRevert, RecordRestore, FailRestore, Ack, Crash
    <3>2. row' = row \/ row' = Moved(n, {"restoring"}, "ready")
      BY <1>9, <2>6 DEF BeginRevert, EndRevert, RecordRestore, FailRestore, Ack, Crash, GiveBack
    <3>3. row'[n] = row[n] \/ (row[n] = "restoring" /\ row'[n] = "ready")
      BY <1>0, <3>2, MovedMeans DEF RowState
    <3>4. Away
      <4>1. was[n] \in Live
        BY <1>0 DEF RowOK
      <4> QED BY <1>9, <2>6, <4>1 DEF BeginRevert, EndRevert, RecordRestore, FailRestore, Ack, Crash, Live
    <3> QED BY <1>3, <2>2, <3>1, <3>3, <3>4
  <2> QED BY <1>9, <2>3, <2>4, <2>5, <2>6 DEF Goes, Ends
<1>10. CASE OpTask
  <2>1. UNCHANGED <<row, data, unsent, queue, exec>> /\ (hv' = hv \/ hv'[n] = "none") /\ (rstate' = "destroyed" => hv'[n] = "none")
    BY <1>10 DEF OpTask, TypeOK
  <2>2. \A t \in Task : TaskOf(t, n)' <=> TaskOf(t, n)
    BY <2>1 DEF TaskOf, Unsent, Queued, Runs
  <2> QED BY <1>1, <2>1, <2>2 DEF DataInv
<1> QED BY <1>2, <1>4, <1>5, <1>6, <1>7, <1>8, <1>9, <1>10, OthersLeaveIt DEF Touches

\* Whoever put something on the hypervisor comes back to it.
LEMMA LeftStep ==
    ASSUME TypeOK, Quiet, WithinBudget, ShapeInv, NEW n \in Snap, DeleteInv(n), ApiInv, DataInv(n), lab \/ TakeInv(n),
           LeftInv(n), lab \/ BlameInv(n), straggler = {}, [CalmNext]_vars, ~Excused'
    PROVE  LeftInv(n)' /\ (lab \/ BlameInv(n)')
<1> USE DEF rows, CanCreate, CanRestore
<1> DEFINE T == "snapshot_range"
           R == "restore_snapshot"
           D == "delete_snapshot"
           Goal == LeftInv(n)' /\ (lab \/ BlameInv(n)')
<1>0. /\ RowOK /\ TaskOK /\ ExecOK /\ row \in [Snap -> RowState] /\ hv \in [Snap -> {"none", "part", "whole"}]
      /\ data \in [Snap -> BOOLEAN]
    BY TypeFacts DEF RowOK
<1>t. T \in Task /\ R \in Task /\ D \in Task
    BY DEF Task
<1>1. rstate = "destroyed" => rstate' = "destroyed"
  <2>1. [QuietNext]_vars
    BY DEF CalmNext, QuietNext, Faults
  <2> QED BY <2>1, SnapshotMoves
<1>2. /\ Spent("crash") => Spent("crash")'
      /\ Spent("callFails") => Spent("callFails")'
      /\ ~(Spent("callFails")' /\ Spent("crash")')
      /\ ~Spent("discardFails")' /\ ~Spent("deleteFails")' /\ ~Spent("apiDeath")'
  <2>1. [Next]_vars
    BY DEF CalmNext, Next, Faults
  <2> QED BY <2>1, SpentStays DEF Excused, Rare
<1>3. \A g \in {"discardFails", "deleteFails", "apiDeath"} : ~Spend(g)
    BY <1>2, SpendMeans DEF Rare
\* A step that has nothing to do with the taking of the snapshot.
<1>4. ASSUME row'[n] = row[n] \/ row'[n] \in {"ready", "restoring"}, data'[n] = data[n],
             hv'[n] = hv[n] \/ hv'[n] = "none",
             row'[n] = "restoring" => Active(R, n)',
             \A f \in Exec : Acting(f, T, n)' <=> Acting(f, T, n),
             Unsent(T, n)' => Unsent(T, n),
             Queued(T, n)' => Queued(T, n) \/ Unsent(T, n),
             Unsent(T, n) \/ Queued(T, n) => Unsent(T, n)' \/ Queued(T, n)',
             TaskOf(T, n)' => TaskOf(T, n),
             Unsent(D, n) \/ Queued(D, n) => Unsent(D, n)' \/ Queued(D, n)' \/ hv'[n] = "none"
      PROVE  Goal
  <2>1. Active(T, n) => Active(T, n)'
    BY <1>4 DEF Active
  <2>2. LeftInv(n)'
    BY <1>4, <2>1 DEF LeftInv, Pending
  <2>3. ASSUME ~lab PROVE BlameInv(n)'
    BY <1>1, <1>2, <1>4, <2>3 DEF BlameInv
  <2> QED BY <2>2, <2>3
<1>5. CASE Same(n)
  <2>1. /\ row'[n] = row[n] /\ data'[n] = data[n] /\ hv'[n] = hv[n]
        /\ \A t \in Task : Unsent(t, n)' <=> Unsent(t, n)
        /\ \A t \in Task : Queued(t, n)' <=> Queued(t, n)
        /\ \A t \in Task, f \in Exec : (Runs(f, t, n)' <=> Runs(f, t, n)) /\ (Acting(f, t, n)' <=> Acting(f, t, n))
    BY <1>5 DEF Same, Unsent
  <2>2. \A t \in Task : (TaskOf(t, n)' <=> TaskOf(t, n)) /\ (Active(t, n)' <=> Active(t, n))
    BY <2>1 DEF TaskOf, Active
  <2>3. row'[n] = "restoring" => Active(R, n)'
    BY <1>t, <2>1, <2>2 DEF LeftInv
  <2>4. TaskOf(T, n)' => TaskOf(T, n)
    BY <1>t, <2>2
  <2> QED BY <1>t, <1>4, <2>1, <2>3, <2>4
<1>6. ASSUME CreateSnapshot(n) \/ LabBaseline(n) PROVE Goal
  <2>1. UNCHANGED <<data, hv>> /\ row[n] = "none" /\ row' = [row EXCEPT ![n] = "creating"]
    BY <1>6 DEF CreateSnapshot, LabBaseline, SetRow
  <2>2. row'[n] = "creating" /\ hv'[n] = "none" /\ ~data'[n]
    BY <1>0, <2>1 DEF DataInv
  <2> QED BY <2>2 DEF LeftInv, BlameInv
<1>7. ASSUME RestoreSnapshot(n) \/ LabReset(n) PROVE Goal
  <2>1. UNCHANGED <<data, hv, queue, exec>> /\ row' = [row EXCEPT ![n] = "restoring"] /\ unsent' = unsent \cup {<<R, n, "ready", "alone">>}
    BY <1>7 DEF RestoreSnapshot, LabReset, LabIdle, SetRow
  <2>2. row'[n] = "restoring" /\ Unsent(R, n)' /\ (Unsent(T, n)' <=> Unsent(T, n)) /\ (Unsent(D, n)' <=> Unsent(D, n))
    BY <1>0, <2>1 DEF Unsent
  <2>3. /\ Queued(T, n)' <=> Queued(T, n)
        /\ Queued(D, n)' <=> Queued(D, n)
        /\ \A f \in Exec : (Runs(f, T, n)' <=> Runs(f, T, n)) /\ (Acting(f, T, n)' <=> Acting(f, T, n))
    BY <2>1 DEF Queued, Runs, Acting
  <2> QED BY <1>4, <2>1, <2>2, <2>3 DEF Active, TaskOf
<1>8. ASSUME DeleteSnapshot(n) PROVE Goal
  <2>1. /\ UNCHANGED <<data, hv, rstate, queue, exec>> /\ ~lab /\ row[n] \in {"ready", "failed"}
        /\ row' = [row EXCEPT ![n] = "deleted"] /\ unsent' = unsent \cup {<<D, n, row[n], "alone">>}
    BY <1>8 DEF DeleteSnapshot, SetRow
  <2>2. row'[n] = "deleted" /\ Unsent(D, n)' /\ (Unsent(T, n)' <=> Unsent(T, n))
    BY <1>0, <2>1 DEF Unsent
  <2>3. /\ Queued(T, n)' <=> Queued(T, n)
        /\ \A f \in Exec : (Runs(f, T, n)' <=> Runs(f, T, n)) /\ (Acting(f, T, n)' <=> Acting(f, T, n))
    BY <2>1 DEF Queued, Runs, Acting
  <2>4. TaskOf(T, n)' <=> TaskOf(T, n)
    BY <2>2, <2>3 DEF TaskOf
  <2>5. CASE row[n] = "ready"
    <3>1. data[n] /\ data'[n]
      BY <2>1, <2>5 DEF DataInv
    <3>2. LeftInv(n)'
      BY <2>2, <3>1 DEF LeftInv, Pending
    <3>3. BlameInv(n)'
      BY <1>2, <2>1, <2>2, <2>3, <3>1 DEF BlameInv
    <3> QED BY <3>2, <3>3
  <2>6. CASE row[n] = "failed"
    <3>1. hv[n] # "none" => \E f \in Exec : Acting(f, T, n)
      <4> SUFFICES ASSUME hv[n] # "none", ~\E f \in Exec : Acting(f, T, n) PROVE FALSE
        OBVIOUS
      <4>1. Active(T, n) /\ ~Unsent(T, n)
        BY <2>1, <2>6 DEF LeftInv, BlameInv, Pending
      <4>2. Queued(T, n) /\ TaskOf(T, n) /\ rstate # "destroyed"
        BY <4>1 DEF Active, TaskOf, DataInv
      <4> QED BY <1>2, <2>1, <2>6, <4>2 DEF BlameInv
    <3>2. ~data[n]
      BY <2>6 DEF DataInv, Pending
    <3> QED BY <1>2, <2>1, <2>2, <2>3, <2>4, <2>6, <3>1, <3>2 DEF LeftInv, BlameInv, Pending
  <2> QED BY <2>1, <2>5, <2>6
<1>9. ASSUME LabRetry(n) PROVE Goal
  <2>1. lab /\ row' = [row EXCEPT ![n] = "creating"] /\ queue' = queue \cup {Fresh(<<T, n>>, TRUE)}
    BY <1>9 DEF LabRetry, LabIdle, SetRow
  <2>2. Fresh(<<T, n>>, TRUE).task = T /\ Fresh(<<T, n>>, TRUE).snap = n
    BY DEF Fresh
  <2>3. Queued(T, n)' /\ row'[n] = "creating"
    BY <1>0, <2>1, <2>2 DEF Queued
  <2> QED BY <2>1, <2>3 DEF LeftInv, Active
<1>10. ASSUME NEW u \in unsent, u[2] = n, Send(u) \/ SentTwice(u) PROVE Goal
  <2>0. u = <<u[1], n, u[3], "alone">> /\ u[1] \in Task /\ u[3] \in {"failed", "ready"}
    BY <1>10, SendMeans
  <2>1. UNCHANGED <<row, data, hv, exec>> /\ unsent' = unsent \ {u} /\ Fresh(u, FALSE) \in queue' /\ queue \subseteq queue'
        /\ queue' \subseteq queue \cup {Fresh(u, FALSE), Fresh(u, TRUE)}
    <3>1. CASE Send(u)
      BY <3>1, SendMeans DEF Send
    <3>2. CASE SentTwice(u)
      BY <3>2 DEF SentTwice, ApiInv
    <3> QED BY <1>10, <3>1, <3>2
  <2>2. \A c \in BOOLEAN : Fresh(u, c).task = u[1] /\ Fresh(u, c).snap = n
    BY <1>10 DEF Fresh
  <2>3. ASSUME NEW t \in Task
        PROVE  /\ Unsent(t, n)' => Unsent(t, n)
               /\ Queued(t, n)' => Queued(t, n) \/ Unsent(t, n)
               /\ Unsent(t, n) \/ Queued(t, n) => Unsent(t, n)' \/ Queued(t, n)'
    <3>1. Unsent(t, n)' => Unsent(t, n)
      BY <2>1 DEF Unsent
    <3>2. Queued(t, n)' => Queued(t, n) \/ u[1] = t
      BY <2>1, <2>2 DEF Queued
    <3>3. u[1] = t => Unsent(t, n) /\ Queued(t, n)'
      BY <2>0, <2>1, <2>2 DEF Unsent, Queued
    <3>4. Unsent(t, n) => Unsent(t, n)' \/ u[1] = t
      BY <2>0, <2>1 DEF Unsent
    <3>5. Queued(t, n) => Queued(t, n)'
      BY <2>1 DEF Queued
    <3> QED BY <3>1, <3>2, <3>3, <3>4, <3>5
  <2>4. \A t \in Task, f \in Exec : (Runs(f, t, n)' <=> Runs(f, t, n)) /\ (Acting(f, t, n)' <=> Acting(f, t, n))
    BY <2>1 DEF Runs, Acting
  <2>5. \A t \in Task : (TaskOf(t, n)' => TaskOf(t, n)) /\ (Active(t, n) => Active(t, n)')
    BY <2>3, <2>4 DEF TaskOf, Active
  <2>6. row'[n] = "restoring" => Active(R, n)'
    BY <1>t, <2>1, <2>5 DEF LeftInv
  <2> QED BY <1>t, <1>4, <2>1, <2>3, <2>4, <2>5, <2>6
<1>11. ASSUME NEW u \in unsent, SenderDies(u) PROVE Goal
    BY <1>3, <1>11 DEF SenderDies
<1>12. ASSUME NEW u \in unsent, u[2] = n, SendRefused(u) PROVE Goal
  <2>0. u = <<u[1], n, u[3], "alone">> /\ u[1] \in Task /\ u[3] \in {"failed", "ready"}
    BY <1>12, SendMeans
  <2>1. /\ UNCHANGED <<data, hv, exec, queue, rstate>> /\ ~lab /\ unsent' = unsent \ {u}
        /\ row' = Moved(n, {BusyOf(u[1])}, u[3])
    BY <1>12 DEF SendRefused
  <2>2. row'[n] = IF row[n] = BusyOf(u[1]) THEN u[3] ELSE row[n]
    BY <1>0, <2>0, <2>1, MovedMeans DEF RowState
  <2>3. \A t \in Task : /\ Queued(t, n)' <=> Queued(t, n)
                        /\ \A f \in Exec : (Runs(f, t, n)' <=> Runs(f, t, n)) /\ (Acting(f, t, n)' <=> Acting(f, t, n))
    BY <2>1 DEF Queued, Runs, Acting
  <2>4. \A t \in Task : t # u[1] => (Unsent(t, n)' <=> Unsent(t, n))
    BY <2>0, <2>1 DEF Unsent
  <2>5. \A t \in Task : t # u[1] => (Active(t, n)' <=> Active(t, n)) /\ (TaskOf(t, n)' <=> TaskOf(t, n))
    BY <2>3, <2>4 DEF Active, TaskOf
  <2>6. CASE u[1] = T
    <3>1. u = <<T, n, "failed", "alone">> /\ Unsent(T, n)
      BY <2>0, <2>6, SendMeans DEF Unsent
    <3>2. hv'[n] = "none"
      BY <2>1, <3>1 DEF BlameInv
    <3>3. ~Unsent(T, n)'
      BY <2>1, <3>1 DEF Unsent, Quiet
    <3>4. ~TaskOf(T, n)'
      <4>1. ~Queued(T, n) /\ \A f \in Exec : ~Runs(f, T, n)
        BY <2>1, <3>1 DEF TakeInv, TakenOnce
      <4> QED BY <1>t, <2>3, <3>3, <4>1 DEF TaskOf
    <3>5. row'[n] = "restoring" => Active(R, n)'
      BY <1>t, <2>2, <2>5, <2>6, <3>1 DEF LeftInv
    <3>6. LeftInv(n)'
      BY <3>2, <3>5 DEF LeftInv
    <3>7. BlameInv(n)'
      <4>1. \A f \in Exec : Acting(f, T, n)' <=> Acting(f, T, n)
        BY <1>t, <2>3
      <4> QED BY <2>1, <3>2, <3>4, <4>1 DEF BlameInv
    <3> QED BY <3>6, <3>7
  <2>7. CASE u[1] = R
    <3>1. u[3] = "ready"
      BY <2>0, <2>7, SendMeans
    <3>2. row'[n] = "ready" \/ (row'[n] = row[n] /\ row'[n] # "restoring")
      BY <2>2, <2>7, <3>1 DEF BusyOf
    <3>3. /\ \A f \in Exec : Acting(f, T, n)' <=> Acting(f, T, n)
          /\ Unsent(T, n)' <=> Unsent(T, n)
          /\ Queued(T, n)' <=> Queued(T, n)
          /\ TaskOf(T, n)' <=> TaskOf(T, n)
          /\ Unsent(D, n)' <=> Unsent(D, n)
          /\ Queued(D, n)' <=> Queued(D, n)
      BY <1>t, <2>3, <2>4, <2>5, <2>7
    <3> QED BY <1>4, <2>1, <3>2, <3>3
  <2>8. CASE u[1] = D
    <3>1. u = <<D, n, u[3], "alone">> /\ row[n] = "deleted" /\ row'[n] = u[3]
      BY <2>0, <2>2, <2>8 DEF DeleteInv, Unsent, BusyOf
    <3>2. /\ \A f \in Exec : Acting(f, T, n)' <=> Acting(f, T, n)
          /\ Unsent(T, n)' <=> Unsent(T, n)
          /\ Queued(T, n)' <=> Queued(T, n)
          /\ TaskOf(T, n)' <=> TaskOf(T, n)
      BY <1>t, <2>3, <2>4, <2>5, <2>8
    <3>3. CASE u[3] = "ready"
      BY <1>2, <2>1, <3>1, <3>2, <3>3 DEF LeftInv, BlameInv, Pending
    <3>4. CASE u[3] = "failed"
      <4>1. ~data[n]
        BY <2>0, <3>1, <3>4 DEF DataInv
      <4>2. hv'[n] # "none" => Active(T, n)'
        BY <2>1, <3>1, <3>2, <4>1 DEF LeftInv, Active
      <4>3. LeftInv(n)'
        BY <3>1, <3>4, <4>2 DEF LeftInv
      <4>4. BlameInv(n)'
        BY <1>2, <2>1, <3>1, <3>2, <3>4, <4>1 DEF BlameInv
      <4> QED BY <4>3, <4>4
    <3> QED BY <2>0, <3>3, <3>4
  <2> QED BY <2>0, <2>6, <2>7, <2>8 DEF Task
<1>13. ASSUME NEW e \in Exec, NEW m \in queue, m.snap = n, NEW p \in StepPC, Started(e, m, p), unsent' = unsent
       PROVE  \A t \in Task : /\ Unsent(t, n)' <=> Unsent(t, n)
                              /\ TaskOf(t, n)' => TaskOf(t, n)
                              /\ Queued(t, n)' => Queued(t, n)
                              /\ m.task # t => (Queued(t, n)' <=> Queued(t, n))
                              /\ \A f \in Exec : f # e => (Acting(f, t, n)' <=> Acting(f, t, n))
                              /\ ~Acting(e, t, n)
                              /\ Acting(e, t, n)' <=> m.task = t /\ p # "acking"
  <2> TAKE t \in Task
  <2>1. /\ Runs(e, t, n)' <=> m.task = t
        /\ ~Runs(e, t, n) /\ exec'[e].pc = p
        /\ \A f \in Exec : f # e => exec'[f] = exec[f] /\ (Runs(f, t, n)' <=> Runs(f, t, n))
        /\ queue' = queue \ {m}
    BY <1>13, StartFlows
  <2>2. Unsent(t, n)' <=> Unsent(t, n)
    BY <1>13 DEF Unsent
  <2>3. Queued(t, n)' => Queued(t, n)
    BY <2>1 DEF Queued
  <2>4. m.task = t => Queued(t, n)
    BY <1>13 DEF Queued
  <2>5. m.task # t => (Queued(t, n)' <=> Queued(t, n))
    BY <2>1 DEF Queued
  <2>6. TaskOf(t, n)' => TaskOf(t, n)
    BY <2>1, <2>2, <2>3, <2>4 DEF TaskOf
  <2> QED BY <2>1, <2>2, <2>3, <2>5, <2>6 DEF Acting
<1>14. ASSUME NEW e \in Exec, NEW m \in queue, m.snap = n, LoadSnapshot(e, m) PROVE Goal
  <2> DEFINE p == IF SnapshotWanted(n) THEN "loaded" ELSE "acking"
  <2>1. UNCHANGED <<unsent, row, data, hv, rstate>> /\ m.task = T /\ Started(e, m, p) /\ p \in StepPC
    BY <1>14 DEF LoadSnapshot, StepPC
  <2>2. row[n] \in Pending <=> p # "acking"
    BY DEF SnapshotWanted
  <2> HIDE DEF p
  <2>3. /\ Unsent(T, n)' <=> Unsent(T, n)
        /\ TaskOf(T, n)' => TaskOf(T, n)
        /\ Queued(T, n)' => Queued(T, n)
        /\ \A f \in Exec : f # e => (Acting(f, T, n)' <=> Acting(f, T, n))
        /\ ~Acting(e, T, n)
        /\ Acting(e, T, n)' <=> p # "acking"
    BY <1>t, <1>13, <1>14, <2>1
  <2>4. /\ Unsent(R, n)' <=> Unsent(R, n)
        /\ Queued(R, n)' <=> Queued(R, n)
        /\ \A f \in Exec : Acting(f, R, n)' <=> Acting(f, R, n)
        /\ Unsent(D, n)' <=> Unsent(D, n)
        /\ Queued(D, n)' <=> Queued(D, n)
    BY <1>t, <1>13, <1>14, <2>1
  <2>5. Active(R, n)' <=> Active(R, n)
    BY <2>4 DEF Active
  <2>6. LeftInv(n)'
    <3>1. row'[n] \in Pending => Active(T, n)'
      BY <2>1, <2>2, <2>3 DEF Active
    <3>2. \A f \in Exec : Acting(f, T, n) => Acting(f, T, n)'
      BY <2>3
    <3> QED BY <2>1, <2>4, <2>5, <3>1, <3>2 DEF LeftInv
  <2>7. ASSUME ~lab PROVE BlameInv(n)'
    BY <1>2, <2>1, <2>2, <2>3, <2>7 DEF BlameInv, DataInv
  <2> QED BY <2>6, <2>7
<1>15. ASSUME NEW e \in Exec, NEW m \in queue, m.snap = n, NEW w \in BOOLEAN, LoadRestore(e, m, w) PROVE Goal
  <2>1. /\ UNCHANGED <<unsent, data, hv>> /\ m.task = R
        /\ \/ Started(e, m, "loaded") /\ row' = row
           \/ Started(e, m, "acking") /\ row' = Moved(n, {"restoring"}, "ready")
    BY <1>15 DEF LoadRestore
  <2>2. PICK p \in {"loaded", "acking"} :
            Started(e, m, p) /\ (p = "loaded" => row' = row) /\ (p = "acking" => row' = Moved(n, {"restoring"}, "ready"))
    BY <2>1
  <2>3. /\ row'[n] = row[n] \/ row'[n] = "ready"
        /\ row'[n] = "restoring" => p = "loaded"
    BY <1>0, <2>2, MovedMeans DEF RowState
  <2>4. /\ p # "acking" => Acting(e, R, n)'
        /\ \A f \in Exec : Acting(f, T, n)' <=> Acting(f, T, n)
        /\ Unsent(T, n)' <=> Unsent(T, n)
        /\ Queued(T, n)' <=> Queued(T, n)
        /\ TaskOf(T, n)' => TaskOf(T, n)
        /\ Unsent(D, n)' <=> Unsent(D, n)
        /\ Queued(D, n)' <=> Queued(D, n)
    BY <1>t, <1>13, <1>15, <2>1, <2>2 DEF StepPC
  <2>5. row'[n] = "restoring" => Active(R, n)'
    BY <2>3, <2>4 DEF Active
  <2> QED BY <1>4, <2>1, <2>3, <2>4, <2>5
<1>16. ASSUME NEW e \in Exec, NEW m \in queue, m.snap = n, RunDelete(e, m) PROVE Goal
  <2>1. /\ UNCHANGED <<unsent, data, rstate>> /\ m.task = D /\ Started(e, m, "acking") /\ row' = [row EXCEPT ![n] = "deleted"]
        /\ hv' = [hv EXCEPT ![n] = IF data[n] THEN "none" ELSE @]
    BY <1>16 DEF RunDelete, SetRow
  <2>2. row[n] = "deleted" /\ row'[n] = "deleted" /\ hv'[n] = IF data[n] THEN "none" ELSE hv[n]
    BY <1>0, <1>16, <2>1 DEF DeleteInv, Queued
  <2>3. /\ \A f \in Exec : Acting(f, T, n)' <=> Acting(f, T, n)
        /\ Unsent(T, n)' <=> Unsent(T, n)
        /\ Queued(T, n)' <=> Queued(T, n)
        /\ TaskOf(T, n)' => TaskOf(T, n)
    BY <1>t, <1>13, <1>16, <2>1 DEF StepPC
  <2>4. LeftInv(n)'
    BY <2>1, <2>2, <2>3 DEF LeftInv, Pending
  <2>5. ASSUME ~lab PROVE BlameInv(n)'
    BY <1>2, <2>1, <2>2, <2>3, <2>5 DEF BlameInv
  <2> QED BY <2>4, <2>5
<1>17. ASSUME NEW m \in queue, DeleteFails(m) PROVE Goal
    BY <1>3, <1>17 DEF DeleteFails
<1>18. ASSUME NEW e \in Exec, exec[e] # None, exec[e].msg.snap = n, NEW p \in StepPC, To(e, p), UNCHANGED <<unsent, queue>>,
              exec[e].pc # "acking"
       PROVE  \A t \in Task : /\ Unsent(t, n)' <=> Unsent(t, n)
                              /\ TaskOf(t, n)' <=> TaskOf(t, n)
                              /\ Queued(t, n)' <=> Queued(t, n)
                              /\ \A f \in Exec : f # e => (Acting(f, t, n)' <=> Acting(f, t, n))
                              /\ exec[e].msg.task = t <=> Acting(e, t, n)
                              /\ Acting(e, t, n)' <=> exec[e].msg.task = t /\ p # "acking"
  <2> TAKE t \in Task
  <2>1. /\ \A f \in Exec : Runs(f, t, n)' <=> Runs(f, t, n)
        /\ exec'[e].pc = p /\ \A f \in Exec : f # e => exec'[f] = exec[f]
    BY <1>18, ToFlows
  <2>2. (Unsent(t, n)' <=> Unsent(t, n)) /\ (Queued(t, n)' <=> Queued(t, n))
    BY <1>18 DEF Unsent, Queued
  <2>3. TaskOf(t, n)' <=> TaskOf(t, n)
    BY <2>1, <2>2 DEF TaskOf
  <2>4. Runs(e, t, n) <=> exec[e].msg.task = t
    BY <1>18 DEF Runs
  <2> QED BY <1>18, <2>1, <2>2, <2>3, <2>4 DEF Acting
<1>19. ASSUME NEW e \in Exec, exec[e] # None, exec[e].msg.snap = n, BeginSnapshot(e) \/ EndSnapshot(e) \/ RecordSnapshot(e)
       PROVE  Goal
  <2>0. PICK p \in {"taking", "taken", "acking"} :
            To(e, p) /\ (p = "acking" => RecordSnapshot(e)) /\ (p # "acking" => BeginSnapshot(e) \/ EndSnapshot(e))
    BY <1>19 DEF BeginSnapshot, EndSnapshot, RecordSnapshot
  <2>1. /\ UNCHANGED <<unsent, queue, rstate>> /\ exec[e].pc # "acking" /\ exec[e].msg.task = T
    BY <1>19 DEF BeginSnapshot, EndSnapshot, RecordSnapshot, At, ShapeInv
  <2>2. /\ Unsent(T, n)' <=> Unsent(T, n)
        /\ TaskOf(T, n)' <=> TaskOf(T, n)
        /\ Queued(T, n)' <=> Queued(T, n)
        /\ \A f \in Exec : f # e => (Acting(f, T, n)' <=> Acting(f, T, n))
        /\ Acting(e, T, n)
        /\ Acting(e, T, n)' <=> p # "acking"
    BY <1>t, <1>18, <1>19, <2>0, <2>1 DEF StepPC
  <2>3. /\ Unsent(R, n)' <=> Unsent(R, n)
        /\ Queued(R, n)' <=> Queued(R, n)
        /\ \A f \in Exec : Acting(f, R, n)' <=> Acting(f, R, n)
        /\ Unsent(D, n)' <=> Unsent(D, n)
        /\ Queued(D, n)' <=> Queued(D, n)
    BY <1>t, <1>18, <1>19, <2>0, <2>1 DEF StepPC
  <2>4. Active(R, n)' <=> Active(R, n)
    BY <2>3 DEF Active
  <2>5. ~lab => /\ ~Unsent(T, n) /\ ~Queued(T, n)
                /\ \A f \in Exec : f # e => ~Acting(f, T, n)
    BY <2>2 DEF TakeInv, TakenOnce, Acting
  <2>6. CASE p # "acking"
    <3>1. UNCHANGED <<row, data>> /\ Acting(e, T, n)'
      BY <2>0, <2>2, <2>6 DEF BeginSnapshot, EndSnapshot
    <3>2. ~(row[n] = "deleted" /\ data[n])
      BY <2>2 DEF DataInv, BlameInv
    <3>3. LeftInv(n)'
      BY <2>4, <3>1, <3>2 DEF LeftInv, Active
    <3>4. ASSUME ~lab PROVE BlameInv(n)'
      BY <1>2, <2>1, <2>2, <2>5, <3>1, <3>4 DEF BlameInv
    <3> QED BY <3>3, <3>4
  <2>7. CASE p = "acking"
    <3>1. /\ row' = Moved(n, Pending, "ready")
          /\ data' = [data EXCEPT ![n] = @ \/ row[n] \in Pending]
          /\ hv' = [hv EXCEPT ![n] = IF row[n] \in Pending THEN @ ELSE "none"]
      BY <1>19, <2>0, <2>7 DEF RecordSnapshot
    <3>2. row'[n] = IF row[n] \in Pending THEN "ready" ELSE row[n]
      BY <1>0, <3>1, MovedMeans DEF RowState
    <3>3. data'[n] <=> (data[n] \/ row[n] \in Pending)
      BY <1>0, <3>1, Zenon
    <3>4. hv'[n] = IF row[n] \in Pending THEN hv[n] ELSE "none"
      BY <1>0, <3>1
    <3>5. LeftInv(n)'
      BY <2>4, <3>2, <3>3, <3>4 DEF LeftInv, Pending
    <3>6. ASSUME ~lab PROVE BlameInv(n)'
      BY <1>2, <2>1, <2>2, <2>5, <2>7, <3>2, <3>3, <3>4, <3>6 DEF BlameInv, Pending
    <3> QED BY <3>5, <3>6
  <2> QED BY <2>6, <2>7
<1>20. ASSUME NEW e \in Exec, exec[e] # None, exec[e].msg.snap = n,
              BeginRevert(e) \/ EndRevert(e) \/ RecordRestore(e)
       PROVE  Goal
  <2>0. PICK p \in {"reverting", "reverted", "acking"} :
            /\ To(e, p)
            /\ p # "acking" => row' = row
            /\ p = "acking" => row' = Moved(n, {"restoring"}, "ready")
    BY <1>20 DEF BeginRevert, EndRevert, RecordRestore
  <2>1. /\ UNCHANGED <<unsent, queue, data, hv>> /\ exec[e].pc # "acking" /\ exec[e].msg.task = R
    BY <1>20 DEF BeginRevert, EndRevert, RecordRestore, At, ShapeInv
  <2>2. /\ p # "acking" => Acting(e, R, n)'
        /\ \A f \in Exec : Acting(f, T, n)' <=> Acting(f, T, n)
        /\ Unsent(T, n)' <=> Unsent(T, n)
        /\ Queued(T, n)' <=> Queued(T, n)
        /\ TaskOf(T, n)' <=> TaskOf(T, n)
        /\ Unsent(D, n)' <=> Unsent(D, n)
        /\ Queued(D, n)' <=> Queued(D, n)
    BY <1>t, <1>18, <1>20, <2>0, <2>1 DEF StepPC
  <2>3. /\ row'[n] = row[n] \/ row'[n] = "ready"
        /\ row'[n] = "restoring" => p # "acking"
    BY <1>0, <2>0, MovedMeans DEF RowState
  <2>4. row'[n] = "restoring" => Active(R, n)'
    BY <2>2, <2>3 DEF Active
  <2> QED BY <1>4, <2>1, <2>2, <2>3, <2>4
<1>21. ASSUME NEW e \in Exec, exec[e] # None, exec[e].msg.snap = n, exec' = [exec EXCEPT ![e] = None], unsent' = unsent,
              queue \subseteq queue', queue' \subseteq queue \cup {exec[e].msg} \cup Retry(exec[e].msg)
       PROVE  \A t \in Task : /\ Unsent(t, n)' <=> Unsent(t, n)
                              /\ TaskOf(t, n)' => TaskOf(t, n)
                              /\ Queued(t, n) => Queued(t, n)'
                              /\ exec[e].msg.task # t => (Queued(t, n)' <=> Queued(t, n))
                              /\ \A f \in Exec : f # e => (Acting(f, t, n)' <=> Acting(f, t, n))
                              /\ ~Acting(e, t, n)'
                              /\ Acting(e, t, n) <=> exec[e].msg.task = t /\ exec[e].pc # "acking"
  <2> TAKE t \in Task
  <2>1. ~Runs(e, t, n)' /\ \A f \in Exec : f # e => exec'[f] = exec[f] /\ (Runs(f, t, n)' <=> Runs(f, t, n))
    BY <1>21, OverFlows, ZenonT(60)
  <2>2. \A m \in queue' : m \in queue \/ m.task = exec[e].msg.task
    BY <1>21, TypeFacts, RetryMeans
  <2>3. (Unsent(t, n)' <=> Unsent(t, n)) /\ (Queued(t, n) => Queued(t, n)')
    BY <1>21 DEF Unsent, Queued
  <2>4. exec[e].msg.task # t => (Queued(t, n)' => Queued(t, n))
    BY <2>2 DEF Queued
  <2>5. Runs(e, t, n) <=> exec[e].msg.task = t
    BY <1>21 DEF Runs
  <2>6. TaskOf(t, n)' => TaskOf(t, n)
    BY <2>1, <2>3, <2>4, <2>5 DEF TaskOf
  <2> QED BY <2>1, <2>3, <2>4, <2>5, <2>6 DEF Acting
<1>22. ASSUME NEW e \in Exec, exec[e] # None, exec[e].msg.snap = n, NEW left \in BOOLEAN, FailSnapshot(e, left) PROVE Goal
  <2>1. /\ exec' = [exec EXCEPT ![e] = None] /\ queue' = queue \cup Retry(exec[e].msg) /\ UNCHANGED <<unsent, data, rstate>>
        /\ row' = Moved(n, Pending, "failed") /\ exec[e].msg.task = T
    BY <1>22 DEF FailSnapshot, Fail, At, ShapeInv
  <2>2. ~left /\ SpendIf(rstate # "destroyed", "callFails") /\ hv' = [hv EXCEPT ![n] = "none"]
    BY <1>3, <1>22 DEF FailSnapshot
  <2>3. Spent("callFails")' \/ rstate' = "destroyed"
    BY <2>1, <2>2, SpendMeans DEF SpendIf, Rare
  <2>4. hv'[n] = "none" /\ row'[n] = IF row[n] \in Pending THEN "failed" ELSE row[n]
    BY <1>0, <2>1, <2>2, MovedMeans DEF RowState
  <2>5. /\ \A f \in Exec : Acting(f, T, n)' => Acting(f, T, n)
        /\ Unsent(R, n)' <=> Unsent(R, n)
        /\ Queued(R, n)' <=> Queued(R, n)
        /\ \A f \in Exec : Acting(f, R, n) => Acting(f, R, n)'
    BY <1>t, <1>21, <1>22, <2>1
  <2>6. row'[n] = "restoring" => Active(R, n)'
    BY <2>4, <2>5 DEF LeftInv, Active
  <2>7. LeftInv(n)'
    BY <2>4, <2>6 DEF LeftInv
  <2>8. ASSUME ~lab PROVE BlameInv(n)'
    BY <2>1, <2>3, <2>4, <2>5, <2>8 DEF BlameInv
  <2> QED BY <2>7, <2>8
<1>23. ASSUME NEW e \in Exec, exec[e] # None, exec[e].msg.snap = n, FailRestore(e) PROVE Goal
  <2>1. /\ exec' = [exec EXCEPT ![e] = None] /\ queue' = queue \cup Retry(exec[e].msg) /\ UNCHANGED <<unsent, data, hv>>
        /\ row' = GiveBack(exec[e].msg) /\ exec[e].msg.task = R /\ exec[e].msg \in Message
    BY <1>23, TypeFacts DEF FailRestore, Fail, At, ShapeInv
  <2>2. /\ row'[n] = row[n] \/ row'[n] = "ready"
        /\ row'[n] = "restoring" => ~LastAttempt(exec[e].msg)
    BY <1>0, <1>23, <2>1, MovedMeans DEF GiveBack, RowState
  <2>3. /\ \A f \in Exec : Acting(f, T, n)' <=> Acting(f, T, n)
        /\ Unsent(T, n)' <=> Unsent(T, n)
        /\ Queued(T, n)' <=> Queued(T, n)
        /\ TaskOf(T, n)' => TaskOf(T, n)
        /\ Unsent(D, n)' <=> Unsent(D, n)
        /\ Queued(D, n)' <=> Queued(D, n)
    BY <1>t, <1>21, <1>23, <2>1
  <2>4. row'[n] = "restoring" => Queued(R, n)'
    <3>1. ~LastAttempt(exec[e].msg) => \E r \in Retry(exec[e].msg) : r.task = R /\ r.snap = n
      BY <1>23, <2>1, RetryMeans
    <3> QED BY <2>1, <2>2, <3>1 DEF Queued
  <2> QED BY <1>4, <2>1, <2>2, <2>3, <2>4 DEF Active
<1>24. ASSUME NEW e \in Exec, exec[e] # None, exec[e].msg.snap = n, Ack(e) PROVE Goal
  <2>1. /\ exec' = [exec EXCEPT ![e] = None] /\ UNCHANGED <<unsent, queue, row, data, hv>> /\ exec[e].pc = "acking"
    BY <1>24 DEF Ack, At
  <2>2. \A t \in Task : /\ Unsent(t, n)' <=> Unsent(t, n)
                        /\ TaskOf(t, n)' => TaskOf(t, n)
                        /\ Queued(t, n)' <=> Queued(t, n)
                        /\ \A f \in Exec : Acting(f, t, n)' <=> Acting(f, t, n)
    <3>1. \A t \in Task : Queued(t, n)' <=> Queued(t, n)
      BY <2>1 DEF Queued
    <3> QED BY <1>21, <1>24, <2>1, <3>1
  <2>3. row'[n] = "restoring" => Active(R, n)'
    BY <1>t, <2>1, <2>2 DEF Active, LeftInv
  <2> QED BY <1>t, <1>4, <2>1, <2>2, <2>3
<1>25. ASSUME NEW e \in Exec, exec[e] # None, exec[e].msg.snap = n, Crash(e) PROVE Goal
  <2>1. /\ exec' = [exec EXCEPT ![e] = None] /\ queue' = queue \cup {exec[e].msg} /\ UNCHANGED <<unsent, row, data, hv, rstate>>
        /\ exec[e].msg.task \in Task
    BY <1>25, TypeFacts DEF Crash
  <2>2. Spent("crash")'
    BY <1>25, SpendMeans DEF Crash, Rare
  <2>3. \A t \in Task : /\ Unsent(t, n)' <=> Unsent(t, n)
                        /\ TaskOf(t, n)' => TaskOf(t, n)
                        /\ Queued(t, n) => Queued(t, n)'
                        /\ \A f \in Exec : f # e => (Acting(f, t, n)' <=> Acting(f, t, n))
                        /\ ~Acting(e, t, n)'
                        /\ Acting(e, t, n) => exec[e].msg.task = t
    BY <1>21, <1>25, <2>1
  <2>4. \A t \in Task : Acting(e, t, n) => Queued(t, n)'
    BY <1>25, <2>1, <2>3 DEF Queued
  <2>5. \A t \in Task : Active(t, n) => Active(t, n)'
    BY <2>3, <2>4 DEF Active
  <2>6. row[n] = "deleted" /\ ~data[n] /\ hv[n] # "none" => ~Acting(e, T, n)
    <3> SUFFICES ASSUME row[n] = "deleted", ~data[n], hv[n] # "none", Acting(e, T, n) PROVE FALSE
      OBVIOUS
    <3>1. TaskOf(T, n) /\ ~lab /\ rstate # "destroyed"
      BY DEF TaskOf, Acting, DataInv
    <3> QED BY <1>2, <2>2, <3>1 DEF BlameInv
  <2>7. row'[n] \in Pending /\ hv'[n] # "none" => Active(T, n)'
    BY <1>t, <2>1, <2>5 DEF LeftInv
  <2>8. row'[n] = "restoring" => Active(R, n)'
    BY <1>t, <2>1, <2>5 DEF LeftInv
  <2>9. row'[n] = "deleted" /\ data'[n] => hv'[n] = "none" \/ Unsent(D, n)' \/ Queued(D, n)'
    BY <1>t, <2>1, <2>3 DEF LeftInv
  <2>10. row'[n] = "deleted" /\ ~data'[n] /\ hv'[n] # "none" => \E f \in Exec : Acting(f, T, n)'
    BY <1>t, <2>1, <2>3, <2>6 DEF LeftInv
  <2>11. ASSUME ~lab PROVE BlameInv(n)'
    BY <1>t, <1>2, <2>1, <2>2, <2>3, <2>11 DEF BlameInv
  <2> QED BY <2>7, <2>8, <2>9, <2>10, <2>11 DEF LeftInv
<1>26. CASE OpTask
  <2>1. UNCHANGED <<row, data, unsent, queue, exec>> /\ (hv'[n] = hv[n] \/ hv'[n] = "none")
    BY <1>26 DEF OpTask
  <2>2. \A t \in Task : /\ Unsent(t, n)' <=> Unsent(t, n)
                        /\ Queued(t, n)' <=> Queued(t, n)
                        /\ \A f \in Exec : (Runs(f, t, n)' <=> Runs(f, t, n)) /\ (Acting(f, t, n)' <=> Acting(f, t, n))
    BY <2>1 DEF Unsent, Queued, Runs, Acting
  <2>3. row'[n] = "restoring" => Active(R, n)'
    BY <1>t, <2>1, <2>2 DEF Active, LeftInv
  <2>4. TaskOf(T, n)' => TaskOf(T, n)
    BY <1>t, <2>2 DEF TaskOf
  <2> QED BY <1>t, <1>4, <2>1, <2>2, <2>3, <2>4
<1> QED
  <2>1. CASE \E e \in Exec : exec[e] # None /\ exec[e].msg.snap = n /\ (Goes(e) \/ Ends(e))
    BY <1>19, <1>20, <1>22, <1>23, <1>24, <1>25, <2>1 DEF Goes, Ends
  <2> QED BY <1>5, <1>6, <1>7, <1>8, <1>9, <1>10, <1>11, <1>12, <1>14, <1>15, <1>16, <1>17, <1>26, <2>1, OthersLeaveIt
          DEF Touches

-----------------------------------------------------------------------------
(* The theorems.                                                           *)

\* Together: overlapping requests, the second request of a lab, its duplicate and the death of a
\* worker are all that part the tasks from the rows.
SnapshotsInv ==
    /\ TypeOK /\ WithinBudget /\ ShapeInv /\ KeptInv
    /\ Spent("overlap") \/ (Quiet /\ \A n \in Snap : DeleteInv(n))
    /\ Spent("overlap") \/ Spent("labRetry") \/ Spent("duplicate") \/ \A n \in Snap : TakeInv(n)
    /\ Spent("overlap") \/ Spent("crash") \/ Spent("duplicate") \/ \A n \in Snap : RestoreInv(n)
    /\ Excused \/ (/\ straggler = {} /\ ApiInv
                   /\ \A n \in Snap : DataInv(n) /\ LeftInv(n) /\ (lab \/ BlameInv(n)))

\* At first there are neither snapshots nor tasks.
LEMMA SnapshotsInit == ASSUME Init PROVE SnapshotsInv
<1>1. TypeOK
    BY TypeInit
<1>2. WithinBudget
    BY SnapshotsAssumption DEF Init, WithinBudget
<1>3. ShapeInv /\ KeptInv
    BY SnapshotsAssumption DEF Init, ShapeInv, KeptInv
<1>6. Quiet /\ straggler = {}
    BY DEF Init, Quiet
<1>4. ASSUME NEW n \in Snap
      PROVE  DeleteInv(n) /\ TakeInv(n) /\ RestoreInv(n) /\ DataInv(n) /\ LeftInv(n) /\ BlameInv(n)
  <2>1. /\ row[n] = "none" /\ ~data[n] /\ hv[n] = "none" /\ rstate = "ready"
        /\ unsent = {} /\ queue = {} /\ \A e \in Exec : exec[e] = None
    BY DEF Init
  <2>2. DeleteInv(n) /\ TakeInv(n) /\ RestoreInv(n)
    BY <2>1 DEF DeleteInv, TakeInv, TakenOnce, RestoreInv, Unsent, Queued, Runs, Acting, Held
  <2>3. DataInv(n) /\ LeftInv(n) /\ BlameInv(n)
    BY <2>1 DEF DataInv, LeftInv, BlameInv, TaskOf, Unsent, Queued, Runs, Acting, Pending
  <2> QED BY <2>2, <2>3
<1>5. ApiInv
  <2>1. budget = Budget /\ unsent = {} /\ \A f \in Rare : Budget[f] \in Nat
    BY SnapshotsAssumption DEF Init
  <2> QED BY <2>1 DEF ApiInv, Spent, Rare
<1> QED BY <1>1, <1>2, <1>3, <1>4, <1>5, <1>6 DEF SnapshotsInv

\* Every step keeps it.
LEMMA SnapshotsStep == ASSUME SnapshotsInv, [Next]_vars PROVE SnapshotsInv'
<1>0. TypeOK /\ WithinBudget /\ ShapeInv /\ KeptInv
    BY DEF SnapshotsInv
<1>1. TypeOK' /\ ShapeInv' /\ KeptInv'
    BY <1>0, TypeStep, ShapeStep, KeptStep
<1>2. WithinBudget' /\ \A g \in Rare : Spent(g) => Spent(g)'
    BY <1>0, SpentStays
<1>3. \A g \in {"labRetry", "duplicate", "crash", "overlap", "softLimit"} : g \in Rare
    BY DEF Rare
<1>4. /\ (\E n \in Snap : LabRetry(n)) => Spent("labRetry")'
      /\ (\E u \in unsent : SentTwice(u)) => Spent("duplicate")'
      /\ (\E e \in Exec : Crash(e)) => Spent("crash")'
    BY <1>0, <1>3, SpendMeans DEF LabRetry, SentTwice, Crash
<1>5. ASSUME ~Spent("overlap")'
      PROVE  ~Spent("overlap") /\ Quiet /\ [QuietNext]_vars /\ (\A n \in Snap : DeleteInv(n))
  <2>1. ~Spent("overlap") /\ Quiet /\ \A n \in Snap : DeleteInv(n)
    BY <1>2, <1>3, <1>5 DEF SnapshotsInv
  <2>2. [QuietNext]_vars
    BY <1>0, <1>5, <2>1, NextIsQuiet DEF Quiet
  <2> QED BY <2>1, <2>2
<1>6. Spent("overlap")' \/ (Quiet' /\ \A n \in Snap : DeleteInv(n)')
    BY <1>0, <1>5, QuietStep, DeleteStep
<1>7. Spent("overlap")' \/ Spent("labRetry")' \/ Spent("duplicate")' \/ \A n \in Snap : TakeInv(n)'
    BY <1>0, <1>2, <1>3, <1>4, <1>5, TakeStep DEF SnapshotsInv
<1>8. Spent("overlap")' \/ Spent("crash")' \/ Spent("duplicate")' \/ \A n \in Snap : RestoreInv(n)'
    BY <1>0, <1>2, <1>3, <1>4, <1>5, RestoreStep DEF SnapshotsInv
<1>9. ASSUME ~Excused'
      PROVE  straggler' = {} /\ ApiInv' /\ \A n \in Snap : DataInv(n)' /\ LeftInv(n)' /\ (lab' \/ BlameInv(n)')
  <2>1. ~Excused /\ ~Spent("overlap")' /\ ~Spent("softLimit")'
    BY <1>2, <1>9 DEF Excused, Rare
  <2>2. straggler = {} /\ ApiInv /\ \A n \in Snap : DataInv(n) /\ LeftInv(n) /\ (lab \/ BlameInv(n))
    BY <2>1 DEF SnapshotsInv
  <2>3. Quiet /\ [QuietNext]_vars /\ ~Spent("overlap") /\ \A n \in Snap : DeleteInv(n)
    BY <1>5, <2>1
  <2>4. [CalmNext]_vars /\ straggler' = {}
    BY <1>0, <2>1, <2>2, <2>3, NextIsCalm
  <2>5. ApiInv' /\ lab' = lab
    BY <1>0, <2>2, <2>4, ApiStep, LabKept
  <2>6. \A n \in Snap : lab \/ TakeInv(n)
    BY <2>2, <2>3 DEF SnapshotsInv, ApiInv
  <2>7. ASSUME NEW n \in Snap PROVE DataInv(n)' /\ LeftInv(n)' /\ (lab' \/ BlameInv(n)')
    <3>1. DataInv(n)'
      BY <1>0, <2>2, <2>3, <2>4, DataStep
    <3>2. LeftInv(n)' /\ (lab \/ BlameInv(n)')
      BY <1>0, <1>9, <2>2, <2>3, <2>4, <2>6, LeftStep
    <3> QED BY <2>5, <3>1, <3>2
  <2> QED BY <2>4, <2>5, <2>7
<1> QED BY <1>1, <1>2, <1>6, <1>7, <1>8, <1>9 DEF SnapshotsInv

\* A snapshot that reads ready, or is being restored, is on the hypervisor as long as the range's
\* VMs are, whatever fails, is cut off, is refused or dies on the way, if no lab asked for it or sent
\* it twice and no two requests for it overlapped.
THEOREM ReadySnapshotsAreThere == Spec => []ReadyIsThere
<1>1. SnapshotsInv => ReadyIsThere
    BY DEF SnapshotsInv, TakeInv, Held, ReadyIsThere, ReadyIsReal
<1> QED BY <1>1, SnapshotsInit, SnapshotsStep, PTL DEF Spec

\* While a task reverts the range's VMs its snapshot reads restoring, if no worker died, no lab
\* sent its reset twice and no requests overlapped; and whatever happened, a revert that outlives
\* its task holds the lease, over a range that reads failed or is to be destroyed.
THEOREM RevertsAreVisible == Spec => []RevertIsVisible
<1>1. SnapshotsInv => RevertIsVisible
  <2> SUFFICES ASSUME SnapshotsInv, \A n \in Snap : RestoreInv(n), NEW e \in Exec, At(e, "reverting")
               PROVE  row[exec[e].msg.snap] = "restoring"
    BY DEF SnapshotsInv, KeptInv, RevertIsVisible
  <2>1. exec[e] # None /\ exec[e].pc = "reverting" /\ exec[e].msg.snap \in Snap /\ exec[e].msg.task = "restore_snapshot"
    BY TypeFacts DEF SnapshotsInv, ShapeInv, At
  <2> QED BY <2>1 DEF RestoreInv, Acting, Runs
<1> QED BY <1>1, SnapshotsInit, SnapshotsStep, PTL DEF Spec

\* When nothing is left to do for a snapshot, the hypervisor holds nothing of it that nobody can
\* restore or delete, if removing it did not fail, the API did not die before it asked, no time
\* limit cut a task off, no requests overlapped and no worker died in a retry.
THEOREM NothingIsLeftBehind == Spec => []NothingLeftBehind
<1>1. SnapshotsInv => NothingLeftBehind
  <2> SUFFICES ASSUME SnapshotsInv, ~Excused, NEW n \in Snap, hv[n] # "none", row[n] # "ready"
               PROVE  \/ \E m \in queue : m.snap = n
                      \/ \E e \in Exec : exec[e] # None /\ exec[e].msg.snap = n
                      \/ \E u \in unsent : u[2] = n
    BY DEF NothingLeftBehind, Excused
  <2>1. \E t \in Task : TaskOf(t, n)
    <3>1. row[n] \in RowState /\ row[n] # "none"
      BY TypeFacts DEF SnapshotsInv, RowOK, DataInv
    <3>2. LeftInv(n)
      BY DEF SnapshotsInv
    <3>3. \A t \in Task : Active(t, n) => TaskOf(t, n)
      BY DEF Active, TaskOf, Acting
    <3>4. CASE row[n] \in Pending
      BY <3>2, <3>3, <3>4 DEF LeftInv, Task
    <3>5. CASE row[n] = "restoring"
      BY <3>2, <3>3, <3>5 DEF LeftInv, Task
    <3>6. CASE row[n] = "deleted" /\ data[n]
      BY <3>2, <3>6 DEF LeftInv, Task, TaskOf
    <3>7. CASE row[n] = "deleted" /\ ~data[n]
      BY <3>2, <3>3, <3>7 DEF LeftInv, Task, Active
    <3> QED BY <3>1, <3>4, <3>5, <3>6, <3>7 DEF RowState, Pending
  <2> QED BY <2>1 DEF TaskOf, Unsent, Queued, Runs
<1> QED BY <1>1, SnapshotsInit, SnapshotsStep, PTL DEF Spec
=============================================================================
