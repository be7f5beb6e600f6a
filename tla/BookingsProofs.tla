--------------------------- MODULE BookingsProofs ---------------------------
(***************************************************************************)
(* Proofs about Bookings, for any bookings, ranges, clocks, requests and   *)
(* times. No two bookings hold one range at times too close because every  *)
(* step that makes a booking hold a range checks it, except the clock's    *)
(* step 0, which gives a booking a range of its own: that is safe because  *)
(* no booking has a range that does not exist yet (RangesExist).           *)
(*                                                                         *)
(* What the clock built has an owner, and what it tears down it built,     *)
(* because a booking that owns a build keeps it, its range and its heir's  *)
(* range until the release commits (OwnInv): only an edit of such a        *)
(* booking breaks that. A decided teardown is of a range nobody else holds *)
(* until it commits (StandInv): only a booking that takes the range in     *)
(* between breaks that.                                                    *)
(***************************************************************************)
EXTENDS Bookings, FiniteSetTheorems, TLAPS

\* A booking's range is one that was created.
RangesExist == \A b \in Booking : book[b].range # None => range[book[b].range] # "none"

IInv == TypeOK /\ RangesExist /\ NoDoubleBooking

\* The bookings that hold a range keep it and its time, and no other holds one afterwards.
Keeps ==
    /\ book' \in [Booking -> Row]
    /\ \A b \in Booking :
          /\ book'[b].range = book[b].range /\ book'[b].start = book[b].start
          /\ book'[b].st \in Holding => book[b].st \in Holding

\* A step that keeps what bookings hold keeps them apart.
LEMMA KeepsApart == ASSUME TypeOK, NoDoubleBooking, Keeps PROVE NoDoubleBooking'
  BY BookingsAssumption, SMTT(60) DEF TypeOK, NoDoubleBooking, Keeps, St, Start, End, Row, Holding

\* A budget is spent or left alone.
LEMMA BudgetType ==
  ASSUME TypeOK, NEW f \in Rare, Spend(f) \/ UNCHANGED budget
  PROVE  budget' \in [Rare -> Nat]
  BY DEF TypeOK, Spend


\* No range vanishes.
NoneVanish == \A r \in Ranges : range[r] # "none" => range'[r] # "none"

\* So does it keep the invariant, if no range vanishes.
LEMMA KeepsInv == ASSUME IInv, TypeOK', Keeps, NoneVanish PROVE IInv'
<1>1. RangesExist'
  BY DEF IInv, TypeOK, RangesExist, Keeps, NoneVanish, Row
<1>2. NoDoubleBooking'
  BY KeepsApart DEF IInv
<1>3. QED
  BY <1>1, <1>2 DEF IInv

\* A step that leaves the bookings alone.
LEMMA BookUnchanged == ASSUME TypeOK, book' = book PROVE Keeps
  BY DEF TypeOK, Keeps

\* A booking's row changes in nothing it holds.
LEMMA RowChange ==
  ASSUME TypeOK, NEW b \in Booking, NEW f \in Row, Change(b, f),
         f.range = book[b].range, f.start = book[b].start,
         f.st \in Holding => book[b].st \in Holding
  PROVE  Keeps
  BY DEF TypeOK, Keeps, Change, Row

-----------------------------------------------------------------------------
(* The steps that give a booking something to hold.                        *)

\* Booking, editing and approving check what the booking is to hold.
LEMMA CheckedStep ==
  ASSUME IInv, NEW b \in Booking, NEW f \in Row, Change(b, f),
         f.range # None => range[f.range] # "none",
         f.st \in Holding => Free(b, f.range, f.start),
         UNCHANGED <<range, by, job, window, now>>, budget' \in [Rare -> Nat]
  PROVE  IInv'
<1>1. TypeOK'
  BY DEF IInv, TypeOK, Change, Row
<1>2. book' \in [Booking -> Row] /\ \A c \in Booking : book'[c] = IF c = b THEN f ELSE book[c]
  BY DEF IInv, TypeOK, Change
<1>3. RangesExist'
  BY <1>2 DEF IInv, RangesExist, TypeOK, Row
<1>4. SUFFICES ASSUME NEW c \in Booking, NEW d \in Booking, c # d,
                      book'[c].st \in Holding, book'[d].st \in Holding,
                      book'[c].range # None, book'[c].range = book'[d].range
               PROVE  \/ book'[c].start - Lead >= book'[d].start + Length + Grace
                      \/ book'[d].start - Lead >= book'[c].start + Length + Grace
  BY <1>1, <1>3 DEF IInv, NoDoubleBooking, St, Start, End
<1>5. CASE c # b /\ d # b
  BY <1>2, <1>4, <1>5 DEF IInv, NoDoubleBooking, St, Start, End
<1>6. ASSUME NEW e \in Booking \ {b}, f.st \in Holding, f.range # None,
             book[e].st \in Holding, book[e].range = f.range
      PROVE  \/ f.start - Lead >= book[e].start + Length + Grace
             \/ book[e].start - Lead >= f.start + Length + Grace
  <2>1. ~TooClose(f.start, book[e].start)
    BY <1>6 DEF Free, St, Start
  <2>2. f.start \in Nat /\ book[e].start \in Nat
    BY DEF IInv, TypeOK, Row
  <2>3. QED
    BY <2>1, <2>2, BookingsAssumption DEF TooClose
<1>7. CASE c = b
  BY <1>2, <1>4, <1>6, <1>7
<1>8. CASE d = b
  BY <1>2, <1>4, <1>6, <1>8
<1>9. QED
  BY <1>5, <1>7, <1>8

LEMMA CreateEventInv ==
  ASSUME IInv, NEW b \in Booking, NEW r \in Ranges \cup {None}, NEW s \in Starts[b], CreateEvent(b, r, s)
  PROVE  IInv'
<1> DEFINE to == IF b \in ClassSession THEN "pending" ELSE "scheduled"
           f  == [st |-> to, start |-> s, range |-> r, own |-> FALSE]
<1>1. f \in Row
  BY BookingsAssumption DEF Row, EventState
<1>2. Change(b, f) /\ (f.st \in Holding => Free(b, f.range, f.start))
  BY DEF CreateEvent, Holding
<1>3. f.range # None => range[f.range] # "none"
  BY DEF CreateEvent, Bookable
<1>4. budget' \in [Rare -> Nat]
  BY BudgetType DEF CreateEvent, SpendIf, IInv, Rare
<1>5. UNCHANGED <<range, by, job, window, now>>
  BY DEF CreateEvent
<1>6. QED
  BY <1>1, <1>2, <1>3, <1>4, <1>5, CheckedStep

LEMMA UpdateEventInv ==
  ASSUME IInv, NEW b \in Booking, NEW r \in Ranges \cup {None}, NEW s \in Starts[b], UpdateEvent(b, r, s)
  PROVE  IInv'
<1> DEFINE reapprove == b \in ClassSession /\ St(b) = "scheduled"
           f == [st |-> IF reapprove THEN "pending" ELSE St(b), start |-> s, range |-> r, own |-> book[b].own]
<1>1. f \in Row /\ f.start = s /\ f.range = r /\ f.st = IF reapprove THEN "pending" ELSE St(b)
  BY BookingsAssumption DEF Row, EventState, IInv, TypeOK, St
<1>2. Change(b, f)
  BY DEF UpdateEvent
<1>3. f.st \in Holding => Free(b, f.range, f.start)
  BY <1>1 DEF UpdateEvent, Holding, Editable
<1>4. f.range # None => range[f.range] # "none"
  BY <1>1 DEF UpdateEvent, Bookable
<1>5. budget' \in [Rare -> Nat]
  <2>1. \E g \in Rare : Spend(g)
    BY DEF UpdateEvent, Rare
  <2>2. QED
    BY <2>1, BudgetType DEF IInv
<1>6. UNCHANGED <<range, by, job, window, now>>
  BY DEF UpdateEvent
<1> HIDE DEF f
<1>7. QED
  BY <1>1, <1>2, <1>3, <1>4, <1>5, <1>6, CheckedStep

LEMMA ApproveInv ==
  ASSUME IInv, NEW b \in Booking, NEW s \in Starts[b], Approve(b, s)
  PROVE  IInv'
<1> DEFINE f == [st |-> "scheduled", start |-> s, range |-> book[b].range, own |-> book[b].own]
<1>1. f \in Row /\ f.start = s /\ f.range = book[b].range
  BY BookingsAssumption DEF Row, EventState, IInv, TypeOK
<1>2. Change(b, f) /\ UNCHANGED <<range, by, job, window, now>>
  BY DEF Approve
<1>3. f.st \in Holding => Free(b, f.range, f.start)
  BY <1>1 DEF Approve
<1>4. f.range # None => range[f.range] # "none"
  BY <1>1 DEF Approve, Bookable
<1>5. budget' \in [Rare -> Nat]
  BY BudgetType DEF Approve, SpendIf, IInv, Rare
<1> HIDE DEF f
<1>6. QED
  BY <1>1, <1>2, <1>3, <1>4, <1>5, CheckedStep

\* The clock gives a booking a range that no booking has: it did not exist.
LEMMA ClockCreatesRangeInv ==
  ASSUME IInv, NEW b \in Booking, NEW r \in Ranges, ClockCreatesRange(b, r)
  PROVE  IInv'
<1> DEFINE f == [book[b] EXCEPT !.range = r]
<1>1. f \in Row /\ f.start = book[b].start /\ f.range = r /\ f.st = book[b].st
  BY DEF Row, IInv, TypeOK
<1>2. book' \in [Booking -> Row] /\ \A c \in Booking : book'[c] = IF c = b THEN f ELSE book[c]
  BY <1>1 DEF ClockCreatesRange, Change, IInv, TypeOK
<1>3. range' \in [Ranges -> RangeState] /\ \A q \in Ranges : range'[q] = IF q = r THEN "created" ELSE range[q]
  BY DEF ClockCreatesRange, IInv, TypeOK, RangeState
<1>4. TypeOK'
  BY <1>2, <1>3 DEF ClockCreatesRange, IInv, TypeOK
<1>5. \A c \in Booking : book[c].range # r
  BY BookingsAssumption DEF ClockCreatesRange, IInv, RangesExist
<1> HIDE DEF f
<1>6. RangesExist'
  BY <1>1, <1>2, <1>3, <1>5 DEF IInv, RangesExist, TypeOK, Row
<1>7. NoDoubleBooking'
  BY <1>1, <1>2, <1>5 DEF IInv, NoDoubleBooking, St, Start, End
<1>8. QED
  BY <1>4, <1>6, <1>7 DEF IInv

-----------------------------------------------------------------------------
(* The other steps.                                                        *)

\* A move of the state alone, to one that is held before if it is held after.
LEMMA MovesKeeps ==
  ASSUME IInv, NEW b \in Booking, NEW to \in {"active", "completed", "cancelled", "rejected"}, Moves(b, to),
         budget' \in [Rare -> Nat]
  PROVE  IInv'
<1> DEFINE f == [book[b] EXCEPT !.st = to]
<1>1. f \in Row /\ f.start = book[b].start /\ f.range = book[b].range /\ f.st = to
  BY DEF Row, EventState, IInv, TypeOK
<1>2. Change(b, f) /\ UNCHANGED <<range, by, job, window, now>> /\ St(b) \in Sources(to)
  BY DEF Moves
<1>3. to \in Holding => book[b].st \in Holding
  BY <1>2 DEF Sources, Holding, St
<1> HIDE DEF f
<1>4. Keeps
  BY <1>1, <1>2, <1>3, RowChange DEF IInv
<1>5. TypeOK'
  BY <1>2, <1>4 DEF IInv, TypeOK, Keeps
<1>6. NoneVanish
  BY <1>2 DEF NoneVanish
<1>7. QED
  BY <1>4, <1>5, <1>6, KeepsInv

LEMMA MovesInv ==
  ASSUME IInv, NEW b \in Booking, Reject(b) \/ PersonMoves(b) \/ ClockActivates(b) \/ ClockLapses(b)
  PROVE  IInv'
<1>1. CASE Reject(b)
  BY <1>1, MovesKeeps DEF Reject, IInv, TypeOK
<1>2. CASE PersonMoves(b)
  <2>1. budget' \in [Rare -> Nat]
    BY <1>2, BudgetType DEF PersonMoves, IInv, Rare
  <2>2. QED
    BY <1>2, <2>1, MovesKeeps DEF PersonMoves
<1>3. CASE ClockActivates(b)
  BY <1>3, MovesKeeps DEF ClockActivates, IInv, TypeOK
<1>4. CASE ClockLapses(b)
  BY <1>4, MovesKeeps DEF ClockLapses, IInv, TypeOK
<1>5. QED
  BY <1>1, <1>2, <1>3, <1>4

\* The clock's builds: the booking's state is one it held the range in, or the same.
LEMMA ProvisionInv ==
  ASSUME IInv, NEW b \in Booking, NEW r \in Ranges, NEW st \in EventState, Provision(b, r, st),
         st \in Holding => book[b].st \in Holding,
         job' \in [Clock \cup Request -> Job \cup {None}], UNCHANGED <<window, now>>
  PROVE  IInv'
<1> DEFINE f(own) == [book[b] EXCEPT !.st = st, !.own = own]
<1>1. ASSUME NEW own \in BOOLEAN
      PROVE  f(own) \in Row /\ f(own).start = book[b].start /\ f(own).range = book[b].range /\ f(own).st = st
  BY DEF Row, IInv, TypeOK
<1>2. \E own \in BOOLEAN : Change(b, f(own))
  BY DEF Provision, OwnedAfter, IInv, TypeOK, Row
<1>3. /\ range' \in [Ranges -> RangeState] /\ NoneVanish
      /\ by' \in [Ranges -> [built : {"nobody", "clock", "person"}, torn : {"nobody", "clock", "person"}]]
  BY DEF Provision, BuiltBy, NoneVanish, RangeState, IInv, TypeOK
<1>4. budget' \in [Rare -> Nat]
  BY BudgetType DEF Provision, IInv, Rare
<1> HIDE DEF f
<1>5. Keeps
  BY <1>1, <1>2, RowChange DEF IInv
<1>6. TypeOK'
  BY <1>3, <1>4, <1>5 DEF IInv, TypeOK, Keeps
<1>7. QED
  BY <1>3, <1>5, <1>6, KeepsInv

LEMMA BuildsInv ==
  ASSUME IInv, NEW b \in Booking, ClockBuilds(b)
  PROVE  IInv'
<1>1. book[b].range \in Ranges
  BY DEF ClockBuilds, IInv, TypeOK, Row
<1>2. QED
  BY <1>1, ProvisionInv DEF ClockBuilds, EventState, Holding, St, IInv, TypeOK

LEMMA CommitBuildInv ==
  ASSUME IInv, NEW j \in Clock \cup Request, CommitBuild(j), job[j].range \in Ranges
  PROVE  IInv'
<1>1. job[j] \in Job
  BY DEF CommitBuild, IInv, TypeOK
<1>2. job[j].b \in Booking /\ book[job[j].b].st \in EventState
  BY <1>1 DEF Job, IInv, TypeOK, Row
<1>3. job' \in [Clock \cup Request -> Job \cup {None}]
  BY DEF CommitBuild, IInv, TypeOK
<1>4. QED
  BY <1>1, <1>2, <1>3, ProvisionInv DEF CommitBuild, St

\* A step that changes nothing but the jobs.
LEMMA JobStep ==
  ASSUME IInv, job' \in [Clock \cup Request -> Job \cup {None}], UNCHANGED <<book, range, by, window, now, budget>>
  PROVE  IInv'
<1>1. TypeOK' /\ Keeps /\ NoneVanish
  BY BookUnchanged DEF IInv, TypeOK, NoneVanish
<1>2. QED
  BY <1>1, KeepsInv

LEMMA LoadInv ==
  ASSUME IInv, NEW j \in Clock \cup Request, NEW b \in Booking,
         NEW do \in {"cancel", "complete", "retry", "build"}, Load(j, b, do)
  PROVE  IInv'
<1>1. job' \in [Clock \cup Request -> Job \cup {None}]
  BY DEF Load, Job, Row, IInv, TypeOK
<1>2. QED
  BY <1>1, JobStep DEF Load

LEMMA DecideInv ==
  ASSUME IInv, NEW j \in Clock \cup Request, Decide(j)
  PROVE  IInv'
<1>1. job[j] \in Job
  BY DEF Decide, IInv, TypeOK
<1>2. ASSUME NEW h \in Booking \cup {None} PROVE [job[j] EXCEPT !.heir = h, !.decided = TRUE] \in Job
  BY <1>1 DEF Job
<1> DEFINE heirs == Heirs(job[j].b, job[j].range)
<1>3. (IF heirs = {} THEN {None} ELSE {c \in heirs : \A d \in heirs : Start(c) <= Start(d)}) \subseteq Booking \cup {None}
  BY DEF Heirs
<1>4. \/ job' = [job EXCEPT ![j] = None]
      \/ \E h \in Booking \cup {None} : job' = [job EXCEPT ![j] = [job[j] EXCEPT !.heir = h, !.decided = TRUE]]
  BY <1>3 DEF Decide
<1>5. job' \in [Clock \cup Request -> Job \cup {None}]
  BY <1>2, <1>4 DEF IInv, TypeOK
<1>6. QED
  BY <1>5, JobStep DEF Decide

LEMMA CommitInv ==
  ASSUME IInv, NEW j \in Clock \cup Request, Commit(j)
  PROVE  IInv'
<1>1. job[j] \in Job /\ job[j].b \in Booking
  BY DEF Commit, IInv, TypeOK, Job
<1> DEFINE b == job[j].b
           r == job[j].range
           st == CASE job[j].do = "cancel" -> "cancelled" [] job[j].do = "complete" -> "completed" [] OTHER -> St(b)
           releases == job[j].own /\ r # None
           ended == st = "completed"
           tears == releases /\ job[j].heir = None /\ range[r] \notin {"destroying", "destroyed"} /\ ~Refuses(r, ended)
           done == releases /\ (job[j].heir # None \/ Settled(r, ended))
<1>2. st \in EventState /\ (st \in Holding => st = book[b].st)
  BY <1>1 DEF EventState, Holding, St, IInv, TypeOK, Row
<1>3. book' = [c \in Booking |->
                 IF c = b THEN [book[c] EXCEPT !.st = st, !.own = @ /\ ~done]
                 ELSE IF releases /\ c = job[j].heir THEN [book[c] EXCEPT !.own = TRUE] ELSE book[c]]
  BY DEF Commit
<1>4. range' = (IF tears THEN [range EXCEPT ![r] = "destroying"] ELSE range)
      /\ by' = (IF tears THEN [by EXCEPT ![r].torn = "clock"] ELSE by)
  BY DEF Commit
<1>5. job' \in [Clock \cup Request -> Job \cup {None}] /\ UNCHANGED <<window, now, budget>>
  BY DEF Commit, IInv, TypeOK
<1>6. tears => r \in Ranges
  BY <1>1 DEF Job
<1>7. /\ range' \in [Ranges -> RangeState] /\ NoneVanish
      /\ by' \in [Ranges -> [built : {"nobody", "clock", "person"}, torn : {"nobody", "clock", "person"}]]
  <2> HIDE DEF tears
  <2>1. QED
    BY <1>4, <1>6 DEF NoneVanish, RangeState, IInv, TypeOK
<1>8. Keeps
  <2>1. done \in BOOLEAN
    OBVIOUS
  <2> HIDE DEF st, done, releases, b
  <2>2. ASSUME NEW c \in Booking
        PROVE  /\ [book[c] EXCEPT !.own = TRUE] \in Row /\ book[c] \in Row
               /\ [book[c] EXCEPT !.st = st, !.own = @ /\ ~done] \in Row
               /\ [book[c] EXCEPT !.st = st, !.own = @ /\ ~done].st = st
               /\ [book[c] EXCEPT !.st = st, !.own = @ /\ ~done].range = book[c].range
               /\ [book[c] EXCEPT !.st = st, !.own = @ /\ ~done].start = book[c].start
               /\ [book[c] EXCEPT !.own = TRUE].st = book[c].st
               /\ [book[c] EXCEPT !.own = TRUE].range = book[c].range
               /\ [book[c] EXCEPT !.own = TRUE].start = book[c].start
    BY <1>2, <2>1 DEF Row, IInv, TypeOK
  <2>3. QED
    BY <1>2, <1>3, <2>2 DEF Keeps
<1>9. TypeOK'
  BY <1>5, <1>7, <1>8 DEF TypeOK, IInv, Keeps
<1>10. QED
  BY <1>7, <1>8, <1>9, KeepsInv

\* What workers, people and time do to ranges, windows and the clock.
LEMMA OutsideInv ==
  ASSUME IInv, UNCHANGED <<book, job>>,
         range' \in [Ranges -> RangeState], NoneVanish,
         by' \in [Ranges -> [built : {"nobody", "clock", "person"}, torn : {"nobody", "clock", "person"}]],
         window' \in BOOLEAN, now' \in 0 .. LastTick, budget' \in [Rare -> Nat]
  PROVE  IInv'
<1>1. TypeOK' /\ Keeps
  BY BookUnchanged DEF IInv, TypeOK
<1>2. QED
  BY <1>1, KeepsInv

LEMMA RangeStepInv ==
  ASSUME IInv, NEW r \in Ranges, Worker(r) \/ BuildPutBack(r) \/ PersonBuilds(r) \/ PersonDestroys(r)
  PROVE  IInv'
<1>1. \E from \in SUBSET RangeState, to \in RangeState \ {"none"} : RangeMoves(r, from, to)
  BY DEF Worker, BuildStarts, BuildEnds, TeardownEnds, BuildPutBack, PersonBuilds, PersonDestroys, RangeState
<1>2. /\ UNCHANGED <<book, job, window, now>> /\ NoneVanish
      /\ range' \in [Ranges -> RangeState]
  BY <1>1 DEF RangeMoves, NoneVanish, IInv, TypeOK
<1>3. by' \in [Ranges -> [built : {"nobody", "clock", "person"}, torn : {"nobody", "clock", "person"}]]
  BY DEF Worker, BuildStarts, BuildEnds, TeardownEnds, BuildPutBack, PersonBuilds, PersonDestroys, BuiltBy, IInv, TypeOK
<1>4. budget' \in [Rare -> Nat]
  <2>1. (\E f \in Rare : Spend(f)) \/ UNCHANGED budget
    BY DEF Worker, BuildStarts, BuildEnds, TeardownEnds, BuildPutBack, PersonBuilds, PersonDestroys, Rare
  <2>2. QED
    BY <2>1, BudgetType DEF IInv, TypeOK
<1>5. window' \in BOOLEAN /\ now' \in 0 .. LastTick
  BY <1>2 DEF IInv, TypeOK
<1>6. QED
  BY <1>2, <1>3, <1>4, <1>5, OutsideInv

LEMMA TimeInv ==
  ASSUME IInv, WindowOpens \/ WindowCloses \/ Time
  PROVE  IInv'
<1>1. UNCHANGED <<book, job, range, by>> /\ now' \in 0 .. LastTick
  BY BookingsAssumption DEF WindowOpens, WindowCloses, Time, IInv, TypeOK
<1>2. window' \in BOOLEAN
  BY Zenon DEF WindowOpens, WindowCloses, Time, IInv, TypeOK
<1>3. budget' \in [Rare -> Nat]
  <2>1. Spend("window") \/ UNCHANGED budget
    BY DEF WindowOpens, WindowCloses, Time
  <2>2. QED
    BY <2>1, BudgetType DEF IInv, Rare
<1>4. QED
  BY <1>1, <1>2, <1>3, OutsideInv DEF NoneVanish, IInv, TypeOK

\* A late build is of a range: only the clock's step 1b starts one.
BuildsHaveRange == \A j \in Clock \cup Request : job[j] # None /\ job[j].do = "build" => job[j].range # None

LEMMA BuildsHaveRangeStep ==
  ASSUME IInv, BuildsHaveRange, [Next]_vars
  PROVE  BuildsHaveRange'
<1>1. CASE UNCHANGED job
  BY <1>1 DEF BuildsHaveRange
<1>2. ASSUME NEW j \in Clock \cup Request, job' = [job EXCEPT ![j] = None]
      PROVE  BuildsHaveRange'
  BY <1>2 DEF BuildsHaveRange, IInv, TypeOK
<1>3. ASSUME NEW j \in Clock \cup Request, NEW b \in Booking, LoadBuild(j, b)
      PROVE  BuildsHaveRange'
  BY <1>3 DEF LoadBuild, Load, BuildsHaveRange, IInv, TypeOK
<1>4. ASSUME NEW j \in Clock \cup Request, NEW b \in Booking, LoadCancel(j, b) \/ LoadComplete(j, b) \/ LoadRetry(j, b)
      PROVE  BuildsHaveRange'
  BY <1>4 DEF LoadCancel, LoadComplete, LoadRetry, Load, BuildsHaveRange, IInv, TypeOK
<1>5. ASSUME NEW j \in Clock \cup Request, Decide(j)
      PROVE  BuildsHaveRange'
  <2>1. job[j] \in Job /\ job[j].do # "build"
    BY <1>5 DEF Decide, IInv, TypeOK
  <2>2. ASSUME NEW h PROVE [job[j] EXCEPT !.heir = h, !.decided = TRUE].do = job[j].do
    BY <2>1 DEF Job
  <2>3. job' = [job EXCEPT ![j] = None]
        \/ \E h : job' = [job EXCEPT ![j] = [job[j] EXCEPT !.heir = h, !.decided = TRUE]]
    BY <1>5 DEF Decide
  <2>4. QED
    BY <2>1, <2>2, <2>3, <1>2 DEF BuildsHaveRange, IInv, TypeOK
<1>6. CASE \E b \in Booking : People(b)
  <2>1. PICK b \in Booking : People(b)
    BY <1>6
  <2>2. (\E j \in Request : LoadCancel(j, b)) \/ UNCHANGED job
    BY <2>1 DEF People, CreateEvent, UpdateEvent, Approve, Reject, PersonMoves, Moves
  <2>3. QED
    BY <2>2, <1>1, <1>4
<1>7. CASE \E b \in Booking : ClockSteps(b)
  BY <1>7, <1>1 DEF ClockSteps, ClockCreatesRange, ClockBuilds, ClockActivates, ClockLapses, Moves
<1>8. CASE \E b \in Booking, j \in Clock : ClockLoads(j, b)
  BY <1>8, <1>3, <1>4 DEF ClockLoads
<1>9. CASE \E j \in Clock \cup Request : Decide(j) \/ Commit(j) \/ CommitBuild(j)
  BY <1>9, <1>2, <1>5 DEF Commit, CommitBuild
<1>10. CASE \E r \in Ranges : Worker(r) \/ BuildPutBack(r) \/ PersonBuilds(r) \/ PersonDestroys(r)
  BY <1>10, <1>1 DEF Worker, BuildStarts, BuildEnds, TeardownEnds, BuildPutBack, PersonBuilds, PersonDestroys, RangeMoves
<1>11. CASE WindowOpens \/ WindowCloses \/ Time \/ UNCHANGED vars
  BY <1>11, <1>1 DEF WindowOpens, WindowCloses, Time, vars
<1>12. QED
  BY <1>6, <1>7, <1>8, <1>9, <1>10, <1>11 DEF Next

-----------------------------------------------------------------------------
LEMMA InitInv == Init => IInv /\ BuildsHaveRange
<1> SUFFICES ASSUME Init PROVE IInv /\ BuildsHaveRange
  OBVIOUS
<1>1. [st |-> "none", start |-> 0, range |-> None, own |-> FALSE] \in Row
  BY DEF Row, EventState
<1>2. /\ book \in [Booking -> Row] /\ range \in [Ranges -> RangeState]
      /\ job \in [Clock \cup Request -> Job \cup {None}]
  BY <1>1 DEF Init, RangeState
<1>3. by \in [Ranges -> [built : {"nobody", "clock", "person"}, torn : {"nobody", "clock", "person"}]]
  BY DEF Init
<1>4. now \in 0 .. LastTick /\ budget \in [Rare -> Nat]
  BY BookingsAssumption DEF Init
<1>5. window \in BOOLEAN
  BY DEF Init
<1>6. RangesExist /\ NoDoubleBooking /\ BuildsHaveRange
  BY DEF Init, RangesExist, NoDoubleBooking, St, Holding, BuildsHaveRange
<1>7. QED
  BY <1>2, <1>3, <1>4, <1>5, <1>6 DEF IInv, TypeOK

LEMMA NextInv == IInv /\ BuildsHaveRange /\ [Next]_vars => IInv'
<1> SUFFICES ASSUME IInv, BuildsHaveRange, [Next]_vars PROVE IInv'
  OBVIOUS
<1>1. CASE \E b \in Booking : People(b)
  <2>1. PICK b \in Booking : People(b)
    BY <1>1
  <2>2. ASSUME NEW j \in Request, LoadCancel(j, b) PROVE IInv'
    BY <2>2, LoadInv DEF LoadCancel
  <2>3. QED
    BY <2>1, <2>2, CreateEventInv, UpdateEventInv, ApproveInv, MovesInv DEF People
<1>2. CASE \E b \in Booking : ClockSteps(b)
  BY <1>2, ClockCreatesRangeInv, BuildsInv, MovesInv DEF ClockSteps
<1>3. CASE \E b \in Booking, j \in Clock : ClockLoads(j, b)
  BY <1>3, LoadInv DEF ClockLoads, LoadBuild, LoadComplete, LoadRetry
<1>4. CASE \E j \in Clock \cup Request : Decide(j) \/ Commit(j) \/ CommitBuild(j)
  <2>1. ASSUME NEW j \in Clock \cup Request, CommitBuild(j) PROVE job[j].range \in Ranges
    BY <2>1 DEF CommitBuild, BuildsHaveRange, IInv, TypeOK, Job
  <2>2. QED
    BY <1>4, <2>1, DecideInv, CommitInv, CommitBuildInv
<1>5. CASE \E r \in Ranges : Worker(r) \/ BuildPutBack(r) \/ PersonBuilds(r) \/ PersonDestroys(r)
  BY <1>5, RangeStepInv
<1>6. CASE WindowOpens \/ WindowCloses \/ Time
  BY <1>6, TimeInv
<1>7. CASE UNCHANGED vars
  <2>1. TypeOK' /\ Keeps /\ NoneVanish
    BY <1>7, BookUnchanged DEF vars, IInv, TypeOK, NoneVanish
  <2>2. QED
    BY <2>1, KeepsInv
<1>8. QED
  BY <1>1, <1>2, <1>3, <1>4, <1>5, <1>6, <1>7 DEF Next

\* Bookings, ranges and jobs stay well formed whatever people, clocks and workers do.
THEOREM BookingsTypeCorrect == Spec => []TypeOK
<1>1. Init => IInv /\ BuildsHaveRange
  BY InitInv
<1>2. IInv /\ BuildsHaveRange /\ [Next]_vars => (IInv /\ BuildsHaveRange)'
  BY NextInv, BuildsHaveRangeStep
<1>3. IInv => TypeOK
  BY DEF IInv
<1>4. QED
  BY <1>1, <1>2, <1>3, PTL DEF Spec

\* No two bookings ever hold one range without the time to tear it down and build it again between
\* them, for any number of bookings, ranges, clocks and requests, however they were booked,
\* edited, approved or given a range by the clock (conflicts, approve, step 0).
THEOREM NeverDoubleBooked == Spec => []NoDoubleBooking
<1>1. Init => IInv /\ BuildsHaveRange
  BY InitInv
<1>2. IInv /\ BuildsHaveRange /\ [Next]_vars => (IInv /\ BuildsHaveRange)'
  BY NextInv, BuildsHaveRangeStep
<1>3. IInv => NoDoubleBooking
  BY DEF IInv
<1>4. QED
  BY <1>1, <1>2, <1>3, PTL DEF Spec

-----------------------------------------------------------------------------
(* Who owns a build.                                                       *)

\* No rare event happens more often than its bound.
WithinBudget == \A f \in Rare : budget[f] <= Budget[f]

Finished == {"completed", "cancelled"}

\* The states of a booking that may own a build.
Taken(b) == St(b) \notin {"none", "pending", "rejected"}

\* What a job relies on is still so: its range exists, what it tries again is over, and a late
\* build is decided by nobody.
JobsInv ==
    \A j \in Clock \cup Request : job[j] # None =>
        /\ job[j].range # None => range[job[j].range] # "none"
        /\ job[j].decided => job[j].do # "build"
        /\ job[j].do = "retry" => St(job[j].b) \in Finished
        /\ job[j].do = "build" => St(job[j].b) \in Finished \cup {"active"} /\ book[job[j].b].range = job[j].range

\* A booking that owns a build has its range, which the clock built.
RowInv(b) ==
    book[b].own => Taken(b) /\ book[b].range # None /\ by[book[b].range].built = "clock"

\* So had the one a job is about, and it has it still or is over; and so has the heir found for it.
HeirInv(j) ==
    job[j] # None /\ job[j].own =>
        /\ job[j].range # None /\ by[job[j].range].built = "clock" /\ book[job[j].b].range = job[j].range
        /\ book[job[j].b].own \/ St(job[j].b) \in Finished
        /\ job[j].decided /\ job[j].heir # None =>
              job[j].heir # job[j].b /\ book[job[j].heir].range = job[j].range /\ Taken(job[j].heir)

\* A range the clock built and nobody tore down has an owner.
OwnerInv(r) ==
    /\ by[r].torn = "clock" => by[r].built = "clock"
    /\ range[r] \in {"destroying", "destroyed"} => by[r].torn # "nobody"
    /\ by[r].built = "clock" /\ by[r].torn = "nobody" => \E b \in Booking : book[b].own /\ book[b].range = r

OwnInv == /\ \A b \in Booking : RowInv(b)
          /\ \A j \in Clock \cup Request : HeirInv(j)
          /\ \A r \in Ranges : OwnerInv(r)

\* Nobody but the booking a decided teardown is about holds its range.
StandInv ==
    \A j \in Clock \cup Request :
        job[j] # None /\ job[j].decided /\ job[j].heir = None /\ job[j].own =>
            \A c \in Booking \ {job[j].b} : ~(St(c) \in Holding /\ book[c].range = job[j].range /\ job[j].range # None)

\* Every step spends one rare event, or none.
LEMMA Budgeted == ASSUME [Next]_vars PROVE (\E f \in Rare : Spend(f)) \/ UNCHANGED budget
<1>1. ASSUME NEW b \in Booking, NEW r \in Ranges \cup {None}, NEW s \in Starts[b], UpdateEvent(b, r, s)
      PROVE  \E f \in Rare : Spend(f)
  BY <1>1 DEF UpdateEvent, Rare
<1>2. ASSUME NEW b \in Booking, People(b)
      PROVE  (\E f \in Rare : Spend(f)) \/ UNCHANGED budget
  BY <1>1, <1>2 DEF People, CreateEvent, Approve, Reject, PersonMoves, LoadCancel, Load, SpendIf, Rare
<1>3. ASSUME NEW b \in Booking, NEW r, NEW st, Provision(b, r, st)
      PROVE  (\E f \in Rare : Spend(f)) \/ UNCHANGED budget
  BY <1>3 DEF Provision, Rare
<1>4. ASSUME NEW b \in Booking, ClockSteps(b)
      PROVE  (\E f \in Rare : Spend(f)) \/ UNCHANGED budget
  BY <1>3, <1>4 DEF ClockSteps, ClockCreatesRange, ClockBuilds, ClockActivates, ClockLapses
<1>5. ASSUME NEW b \in Booking, NEW j \in Clock, ClockLoads(j, b)
      PROVE  UNCHANGED budget
  BY <1>5 DEF ClockLoads, LoadBuild, LoadComplete, LoadRetry, Load
<1>6. ASSUME NEW j \in Clock \cup Request, Decide(j) \/ Commit(j) \/ CommitBuild(j)
      PROVE  (\E f \in Rare : Spend(f)) \/ UNCHANGED budget
  BY <1>6 DEF Decide, Commit, CommitBuild, Provision, Rare
<1>7. ASSUME NEW r \in Ranges, Worker(r) \/ BuildPutBack(r) \/ PersonBuilds(r) \/ PersonDestroys(r)
      PROVE  (\E f \in Rare : Spend(f)) \/ UNCHANGED budget
  BY <1>7 DEF Worker, BuildStarts, BuildEnds, TeardownEnds, BuildPutBack, PersonBuilds, PersonDestroys, Rare
<1>8. CASE WindowOpens \/ WindowCloses \/ Time \/ UNCHANGED vars
  BY <1>8 DEF WindowOpens, WindowCloses, Time, vars, Rare
<1>9. QED
  BY <1>2, <1>4, <1>5, <1>6, <1>7, <1>8 DEF Next

\* A budget only falls, so what was spent stays spent.
LEMMA BudgetFalls ==
  ASSUME TypeOK, WithinBudget, [Next]_vars
  PROVE  WithinBudget' /\ \A f \in Rare : Spent(f) => Spent(f)'
<1>1. \A f \in Rare : budget'[f] <= budget[f] /\ budget'[f] \in Nat /\ budget[f] \in Nat
  BY Budgeted DEF Spend, TypeOK
<1>2. QED
  BY <1>1, BookingsAssumption DEF WithinBudget, Spent

\* A step that spends something leaves it spent.
LEMMA SpendSpends ==
  ASSUME TypeOK, WithinBudget, NEW f \in Rare, Spend(f)
  PROVE  Spent(f)'
<1>1. budget \in [Rare -> Nat] /\ budget[f] <= Budget[f] /\ Budget[f] \in Nat
  BY BookingsAssumption DEF TypeOK, WithinBudget
<1>2. budget'[f] = budget[f] - 1
  BY <1>1 DEF Spend
<1>3. QED
  BY <1>1, <1>2 DEF Spent

-----------------------------------------------------------------------------
(* What jobs rely on.                                                      *)

\* A booking that is under way keeps its range until it is over, and over it stays.
Settles ==
    \A b \in Booking :
        /\ St(b) \in Finished => book'[b].st \in Finished
        /\ St(b) = "active" => book'[b].st \in Finished \cup {"active"}
        /\ St(b) \in Finished \cup {"active"} => book'[b].range = book[b].range

\* A step that changes one row and settles it.
LEMMA RowSettles ==
  ASSUME TypeOK, NEW b \in Booking, NEW f, Change(b, f),
         St(b) \in Finished => f.st \in Finished,
         St(b) = "active" => f.st \in Finished \cup {"active"},
         St(b) \in Finished \cup {"active"} => f.range = book[b].range
  PROVE  Settles
<1>1. \A c \in Booking : book'[c] = IF c = b THEN f ELSE book[c]
  BY DEF Change, TypeOK
<1>2. QED
  BY <1>1 DEF Settles, St

\* The moves of the state alone.
LEMMA MovesSettles ==
  ASSUME TypeOK, NEW b \in Booking, NEW to \in {"active", "completed", "cancelled", "rejected"}, Moves(b, to)
  PROVE  Settles
<1> DEFINE f == [book[b] EXCEPT !.st = to]
<1>1. f.st = to /\ f.range = book[b].range /\ Change(b, f) /\ St(b) \in Sources(to)
  BY DEF Moves, TypeOK, Row
<1> HIDE DEF f
<1>2. QED
  BY <1>1, RowSettles DEF Sources, Finished

\* A build changes a booking's state as the caller says, and nothing of its range.
LEMMA ProvisionRow ==
  ASSUME TypeOK, NEW b \in Booking, NEW r \in Ranges, NEW st, Provision(b, r, st)
  PROVE  /\ \A c \in Booking : book'[c].range = book[c].range /\ (c # b => book'[c] = book[c])
         /\ book'[b].st = st /\ (book[b].own => book'[b].own)
         /\ \/ UNCHANGED <<range, by>> /\ book'[b].own = book[b].own
            \/ /\ book'[b].own /\ by'[r].built = "clock" /\ range'[r] = "parked"
               /\ \A q \in Ranges : by'[q].torn = by[q].torn /\ (q # r => by'[q] = by[q] /\ range'[q] = range[q])
<1>1. book \in [Booking -> Row] /\ by \in [Ranges -> [built : {"nobody", "clock", "person"}, torn : {"nobody", "clock", "person"}]]
      /\ range \in [Ranges -> RangeState]
  BY DEF TypeOK
<1>2. CASE Change(b, [book[b] EXCEPT !.st = st, !.own = OwnedAfter(@, FALSE)]) /\ UNCHANGED <<range, by>>
  BY <1>1, <1>2 DEF Change, Row, OwnedAfter
<1>3. CASE /\ range' = [range EXCEPT ![r] = "parked"] /\ by' = BuiltBy(r, "clock")
           /\ Change(b, [book[b] EXCEPT !.st = st, !.own = OwnedAfter(@, TRUE)])
  <2>1. by'[r].built = "clock" /\ range'[r] = "parked"
        /\ \A q \in Ranges : by'[q].torn = by[q].torn /\ (q # r => by'[q] = by[q] /\ range'[q] = range[q])
    BY <1>1, <1>3 DEF BuiltBy
  <2>2. \A c \in Booking : book'[c].range = book[c].range /\ (c # b => book'[c] = book[c])
    BY <1>1, <1>3 DEF Change, Row
  <2>3. book'[b].st = st /\ book'[b].own
    BY <1>1, <1>3 DEF Change, Row, OwnedAfter
  <2>4. QED
    BY <2>1, <2>2, <2>3
<1>4. QED
  BY <1>2, <1>3 DEF Provision

\* What a commit does to the bookings: the released one is over, or as it was; its own and its
\* heir's ownership change as the job says.
LEMMA CommitRows ==
  ASSUME TypeOK, JobsInv, NEW j \in Clock \cup Request, Commit(j)
  PROVE  /\ job[j] \in Job /\ job[j].b \in Booking /\ job[j].decided /\ book'[job[j].b].st \in Finished
         /\ \A c \in Booking :
              /\ book'[c].range = book[c].range
              /\ c # job[j].b => /\ book'[c].st = book[c].st
                                 /\ book'[c].own <=> (book[c].own \/ (job[j].own /\ job[j].range # None /\ c = job[j].heir))
         /\ book'[job[j].b].own => book[job[j].b].own
         /\ \A k \in Clock \cup Request : job'[k] = IF k = j THEN None ELSE job[k]
<1>1. job[j] \in Job /\ job[j].b \in Booking /\ job[j].decided /\ job[j].own \in BOOLEAN
  BY DEF Commit, TypeOK, Job
<1> DEFINE b == job[j].b
           r == job[j].range
           st == CASE job[j].do = "cancel" -> "cancelled" [] job[j].do = "complete" -> "completed" [] OTHER -> St(b)
           releases == job[j].own /\ r # None
           ended == st = "completed"
           done == releases /\ (job[j].heir # None \/ Settled(r, ended))
<1>2. st \in Finished
  <2>1. job[j].do \in {"cancel", "complete", "retry", "build"} /\ job[j].do # "build" /\ job[j] # None
        /\ (job[j].do = "retry" => St(b) \in Finished)
    BY <1>1 DEF Job, JobsInv, Commit
  <2>2. QED
    BY <2>1 DEF Finished
<1>3. book' = [c \in Booking |->
                 IF c = b THEN [book[c] EXCEPT !.st = st, !.own = @ /\ ~done]
                 ELSE IF releases /\ c = job[j].heir THEN [book[c] EXCEPT !.own = TRUE] ELSE book[c]]
      /\ job' = [job EXCEPT ![j] = None]
  BY DEF Commit
<1>4. done \in BOOLEAN /\ releases \in BOOLEAN /\ (releases <=> job[j].own /\ job[j].range # None)
  BY Zenon
<1> HIDE DEF st, done, releases
<1>5. ASSUME NEW c \in Booking
      PROVE  /\ [book[c] EXCEPT !.own = TRUE].own
             /\ [book[c] EXCEPT !.st = st, !.own = @ /\ ~done].st = st
             /\ [book[c] EXCEPT !.st = st, !.own = @ /\ ~done].range = book[c].range
             /\ [book[c] EXCEPT !.st = st, !.own = @ /\ ~done].own => book[c].own
             /\ [book[c] EXCEPT !.own = TRUE].st = book[c].st
             /\ [book[c] EXCEPT !.own = TRUE].range = book[c].range
  BY <1>4 DEF Row, TypeOK
<1>6. \A c \in Booking :
              /\ book'[c].range = book[c].range
              /\ c # job[j].b => /\ book'[c].st = book[c].st
                                 /\ book'[c].own <=> (book[c].own \/ (job[j].own /\ job[j].range # None /\ c = job[j].heir))
  BY <1>3, <1>4, <1>5
<1>7. book'[b].st \in Finished /\ (book'[b].own => book[b].own)
  BY <1>1, <1>2, <1>3, <1>5
<1>8. \A k \in Clock \cup Request : job'[k] = IF k = j THEN None ELSE job[k]
  BY <1>3 DEF TypeOK
<1>9. QED
  BY <1>1, <1>6, <1>7, <1>8

\* Every step settles the bookings that are under way.
LEMMA NextSettles == ASSUME IInv, BuildsHaveRange, JobsInv, [Next]_vars PROVE Settles
<1> USE DEF IInv
<1>1. ASSUME UNCHANGED book PROVE Settles
  BY <1>1 DEF Settles, St
<1>2. ASSUME NEW b \in Booking, NEW r \in Ranges \cup {None}, NEW s \in Starts[b], CreateEvent(b, r, s)
      PROVE  Settles
  BY <1>2, RowSettles DEF CreateEvent, Finished
<1>3. ASSUME NEW b \in Booking, NEW r \in Ranges \cup {None}, NEW s \in Starts[b], UpdateEvent(b, r, s)
      PROVE  Settles
  BY <1>3, RowSettles DEF UpdateEvent, Editable, Finished
<1>4. ASSUME NEW b \in Booking, NEW s \in Starts[b], Approve(b, s)
      PROVE  Settles
  BY <1>4, RowSettles DEF Approve, Finished
<1>5. ASSUME NEW b \in Booking, Reject(b) \/ PersonMoves(b) \/ ClockActivates(b) \/ ClockLapses(b)
      PROVE  Settles
  BY <1>5, MovesSettles DEF Reject, PersonMoves, ClockActivates, ClockLapses
<1>6. ASSUME NEW b \in Booking, NEW r \in Ranges, ClockCreatesRange(b, r)
      PROVE  Settles
  <2>1. Change(b, [book[b] EXCEPT !.range = r]) /\ St(b) = "scheduled"
    BY <1>6 DEF ClockCreatesRange
  <2>2. QED
    BY <2>1, RowSettles DEF Finished
<1>7. ASSUME NEW b \in Booking, ClockBuilds(b)
      PROVE  Settles
  <2>1. book[b].range \in Ranges /\ Provision(b, book[b].range, "provisioning") /\ St(b) = "scheduled"
    BY <1>7 DEF ClockBuilds, TypeOK, Row
  <2>2. \A c \in Booking : book'[c].range = book[c].range /\ (c # b => book'[c] = book[c])
    BY <2>1, ProvisionRow
  <2>3. QED
    BY <2>1, <2>2 DEF Settles, Finished, St
<1>8. ASSUME NEW j \in Clock \cup Request, Commit(j)
      PROVE  Settles
  BY <1>8, CommitRows DEF Settles, Finished, St
<1>9. ASSUME NEW j \in Clock \cup Request, CommitBuild(j)
      PROVE  Settles
  <2>1. job[j].b \in Booking /\ job[j].range \in Ranges /\ Provision(job[j].b, job[j].range, St(job[j].b))
    BY <1>9 DEF CommitBuild, BuildsHaveRange, TypeOK, Job
  <2>2. /\ \A c \in Booking : book'[c].range = book[c].range /\ (c # job[j].b => book'[c] = book[c])
        /\ book'[job[j].b].st = St(job[j].b)
    BY <2>1, ProvisionRow
  <2>3. QED
    BY <2>1, <2>2 DEF Settles, Finished, St
<1>10. CASE \E b \in Booking : People(b)
  <2>1. ASSUME NEW b \in Booking, NEW j \in Request, LoadCancel(j, b) PROVE UNCHANGED book
    BY <2>1 DEF LoadCancel, Load
  <2>2. QED
    BY <1>10, <2>1, <1>1, <1>2, <1>3, <1>4, <1>5 DEF People
<1>11. CASE \E b \in Booking : ClockSteps(b)
  BY <1>11, <1>5, <1>6, <1>7 DEF ClockSteps
<1>12. CASE \E b \in Booking, j \in Clock : ClockLoads(j, b)
  BY <1>12, <1>1 DEF ClockLoads, LoadBuild, LoadComplete, LoadRetry, Load
<1>13. CASE \E j \in Clock \cup Request : Decide(j) \/ Commit(j) \/ CommitBuild(j)
  <2>1. ASSUME NEW j \in Clock \cup Request, Decide(j) PROVE UNCHANGED book
    BY <2>1 DEF Decide
  <2>2. QED
    BY <1>13, <2>1, <1>1, <1>8, <1>9
<1>14. CASE \E r \in Ranges : Worker(r) \/ BuildPutBack(r) \/ PersonBuilds(r) \/ PersonDestroys(r)
  BY <1>14, <1>1 DEF Worker, BuildStarts, BuildEnds, TeardownEnds, BuildPutBack, PersonBuilds, PersonDestroys, RangeMoves
<1>15. CASE WindowOpens \/ WindowCloses \/ Time \/ UNCHANGED vars
  BY <1>15, <1>1 DEF WindowOpens, WindowCloses, Time, vars
<1>16. QED
  BY <1>10, <1>11, <1>12, <1>13, <1>14, <1>15 DEF Next

\* No step makes a range vanish.
LEMMA NextKeepsRanges == ASSUME IInv, BuildsHaveRange, [Next]_vars PROVE NoneVanish
<1> USE DEF IInv
<1>1. ASSUME UNCHANGED range PROVE NoneVanish
  BY <1>1 DEF NoneVanish
<1>2. ASSUME NEW b \in Booking, NEW r \in Ranges, NEW st, Provision(b, r, st) PROVE NoneVanish
  <2>1. \A q \in Ranges : range'[q] = range[q] \/ range'[q] = "parked"
    BY <1>2, ProvisionRow
  <2>2. QED
    BY <2>1 DEF NoneVanish
<1>3. CASE \E b \in Booking : People(b)
  <2>1. PICK b \in Booking : People(b)
    BY <1>3
  <2>2. UNCHANGED range
    BY <2>1 DEF People, CreateEvent, UpdateEvent, Approve, Reject, PersonMoves, Moves, LoadCancel, Load
  <2>3. QED
    BY <2>2, <1>1
<1>4. ASSUME NEW b \in Booking, ClockSteps(b) PROVE NoneVanish
  <2>1. ASSUME NEW r \in Ranges, ClockCreatesRange(b, r) PROVE NoneVanish
    BY <2>1 DEF ClockCreatesRange, NoneVanish, TypeOK
  <2>2. ASSUME ClockBuilds(b) PROVE NoneVanish
    <3>1. book[b].range \in Ranges /\ Provision(b, book[b].range, "provisioning")
      BY <2>2 DEF ClockBuilds, TypeOK, Row
    <3>2. QED
      BY <3>1, <1>2
  <2>3. QED
    BY <1>4, <1>1, <2>1, <2>2 DEF ClockSteps, ClockActivates, ClockLapses, Moves
<1>5. CASE \E b \in Booking, j \in Clock : ClockLoads(j, b)
  BY <1>5, <1>1 DEF ClockLoads, LoadBuild, LoadComplete, LoadRetry, Load
<1>6. ASSUME NEW j \in Clock \cup Request, Decide(j) \/ Commit(j) \/ CommitBuild(j) PROVE NoneVanish
  <2>1. CASE Decide(j)
    BY <2>1, <1>1 DEF Decide
  <2>2. CASE Commit(j)
    <3>1. range' = range \/ range' = [range EXCEPT ![job[j].range] = "destroying"]
      BY <2>2 DEF Commit
    <3>2. QED
      BY <3>1 DEF NoneVanish, TypeOK
  <2>3. CASE CommitBuild(j)
    <3>1. job[j].b \in Booking /\ job[j].range \in Ranges /\ Provision(job[j].b, job[j].range, St(job[j].b))
      BY <2>3 DEF CommitBuild, BuildsHaveRange, TypeOK, Job
    <3>2. QED
      BY <3>1, <1>2
  <2>4. QED
    BY <1>6, <2>1, <2>2, <2>3
<1>7. CASE \E r \in Ranges : Worker(r) \/ BuildPutBack(r) \/ PersonBuilds(r) \/ PersonDestroys(r)
  BY <1>7 DEF Worker, BuildStarts, BuildEnds, TeardownEnds, BuildPutBack, PersonBuilds, PersonDestroys, RangeMoves, NoneVanish, TypeOK
<1>8. CASE WindowOpens \/ WindowCloses \/ Time \/ UNCHANGED vars
  BY <1>8, <1>1 DEF WindowOpens, WindowCloses, Time, vars
<1>9. QED
  BY <1>3, <1>4, <1>5, <1>6, <1>7, <1>8 DEF Next

\* What a step does to the jobs: it leaves them, ends one, starts one, or decides one.
Loads(j, b, do) ==
    /\ \A k \in Clock \cup Request : k # j => job'[k] = job[k]
    /\ job[j] = None /\ job'[j] \in Job
    /\ job'[j].do = do /\ job'[j].b = b /\ job'[j].own = book[b].own /\ job'[j].range = book[b].range
    /\ ~job'[j].decided
    /\ do = "retry" => St(b) \in Finished
    /\ do = "build" => St(b) = "active"
    /\ UNCHANGED <<book, range, by>>

Decides(j) ==
    /\ \A k \in Clock \cup Request : k # j => job'[k] = job[k]
    /\ job[j] # None /\ ~job[j].decided /\ job[j].do # "build" /\ job'[j] \in Job
    /\ job'[j].do = job[j].do /\ job'[j].b = job[j].b /\ job'[j].own = job[j].own /\ job'[j].range = job[j].range
    /\ job'[j].decided
    /\ IF Heirs(job[j].b, job[j].range) = {} THEN job'[j].heir = None ELSE job'[j].heir \in Heirs(job[j].b, job[j].range)
    /\ UNCHANGED <<book, range, by>>

LeavesJobs == \A k \in Clock \cup Request : job'[k] \in {job[k], None}

LEMMA LoadLoads ==
  ASSUME TypeOK, NEW j \in Clock \cup Request, NEW b \in Booking,
         NEW do \in {"cancel", "complete", "retry", "build"}, Load(j, b, do),
         do = "retry" => St(b) \in Finished, do = "build" => St(b) = "active"
  PROVE  Loads(j, b, do)
<1>1. book[b].own \in BOOLEAN /\ book[b].range \in Ranges \cup {None}
  BY DEF TypeOK, Row
<1>2. job'[j] = [do |-> do, b |-> b, own |-> book[b].own, range |-> book[b].range, heir |-> None, decided |-> FALSE]
      /\ \A k \in Clock \cup Request : k # j => job'[k] = job[k]
  BY DEF Load, TypeOK
<1>3. job'[j] \in Job
  BY <1>1, <1>2 DEF Job
<1>4. QED
  BY <1>1, <1>2, <1>3 DEF Loads, Load

LEMMA DecideDecides ==
  ASSUME TypeOK, NEW j \in Clock \cup Request, Decide(j)
  PROVE  Decides(j) \/ (LeavesJobs /\ UNCHANGED <<book, range, by>>)
<1>1. job[j] \in Job /\ UNCHANGED <<book, range, by>>
  BY DEF Decide, TypeOK
<1> DEFINE heirs == Heirs(job[j].b, job[j].range)
<1>2. CASE job' = [job EXCEPT ![j] = None]
  BY <1>1, <1>2 DEF LeavesJobs, TypeOK
<1>3. ASSUME NEW h \in IF heirs = {} THEN {None} ELSE {c \in heirs : \A d \in heirs : Start(c) <= Start(d)},
             job' = [job EXCEPT ![j] = [@ EXCEPT !.heir = h, !.decided = TRUE]]
      PROVE  Decides(j)
  <2>1. (h = None /\ heirs = {}) \/ (heirs # {} /\ h \in heirs /\ h \in Booking)
    BY <1>3 DEF Heirs
  <2> HIDE DEF heirs
  <2>2. /\ job'[j] = [job[j] EXCEPT !.heir = h, !.decided = TRUE]
        /\ \A k \in Clock \cup Request : k # j => job'[k] = job[k]
    BY <1>3 DEF TypeOK
  <2>3. /\ job'[j] \in Job /\ job'[j].do = job[j].do /\ job'[j].b = job[j].b /\ job'[j].own = job[j].own
        /\ job'[j].range = job[j].range /\ job'[j].decided /\ job'[j].heir = h
    BY <1>1, <2>1, <2>2 DEF Job
  <2>4. job[j] # None /\ ~job[j].decided /\ job[j].do # "build"
    BY DEF Decide
  <2> USE DEF heirs
  <2>5. QED
    BY <1>1, <2>1, <2>2, <2>3, <2>4 DEF Decides
<1>4. QED
  BY <1>2, <1>3 DEF Decide

LEMMA JobSteps ==
  ASSUME IInv, [Next]_vars
  PROVE  \/ LeavesJobs
         \/ \E j \in Clock \cup Request, b \in Booking, do \in {"cancel", "complete", "retry", "build"} : Loads(j, b, do)
         \/ \E j \in Clock \cup Request : Decides(j)
<1> USE DEF IInv
<1>1. ASSUME UNCHANGED job PROVE LeavesJobs
  BY <1>1 DEF LeavesJobs
<1>2. ASSUME NEW j \in Clock \cup Request, job' = [job EXCEPT ![j] = None] PROVE LeavesJobs
  BY <1>2 DEF LeavesJobs, TypeOK
<1>3. ASSUME NEW j \in Clock \cup Request, NEW b \in Booking,
             LoadCancel(j, b) \/ LoadBuild(j, b) \/ LoadComplete(j, b) \/ LoadRetry(j, b)
      PROVE  \E do \in {"cancel", "complete", "retry", "build"} : Loads(j, b, do)
  BY <1>3, LoadLoads DEF LoadCancel, LoadBuild, LoadComplete, LoadRetry, Retried, Finished
<1>4. CASE \E b \in Booking : People(b)
  <2>1. PICK b \in Booking : People(b)
    BY <1>4
  <2>2. (\E j \in Request : LoadCancel(j, b)) \/ UNCHANGED job
    BY <2>1 DEF People, CreateEvent, UpdateEvent, Approve, Reject, PersonMoves, Moves
  <2>3. QED
    BY <2>2, <1>1, <1>3
<1>5. CASE \E b \in Booking : ClockSteps(b)
  BY <1>5, <1>1 DEF ClockSteps, ClockCreatesRange, ClockBuilds, ClockActivates, ClockLapses, Moves
<1>6. CASE \E b \in Booking, j \in Clock : ClockLoads(j, b)
  BY <1>6, <1>3 DEF ClockLoads
<1>7. CASE \E j \in Clock \cup Request : Decide(j) \/ Commit(j) \/ CommitBuild(j)
  BY <1>7, <1>2, DecideDecides DEF Commit, CommitBuild
<1>8. CASE \E r \in Ranges : Worker(r) \/ BuildPutBack(r) \/ PersonBuilds(r) \/ PersonDestroys(r)
  BY <1>8, <1>1 DEF Worker, BuildStarts, BuildEnds, TeardownEnds, BuildPutBack, PersonBuilds, PersonDestroys, RangeMoves
<1>9. CASE WindowOpens \/ WindowCloses \/ Time \/ UNCHANGED vars
  BY <1>9, <1>1 DEF WindowOpens, WindowCloses, Time, vars
<1>10. QED
  BY <1>4, <1>5, <1>6, <1>7, <1>8, <1>9 DEF Next

\* Every step keeps what the jobs rely on.
LEMMA JobsInvStep ==
  ASSUME IInv, BuildsHaveRange, JobsInv, [Next]_vars
  PROVE  JobsInv'
<1>1. Settles /\ NoneVanish
  BY NextSettles, NextKeepsRanges
<1>2. \A k \in Clock \cup Request : job[k] # None => job[k].b \in Booking /\ job[k].range \in Ranges \cup {None}
  BY DEF IInv, TypeOK, Job
<1>3. CASE LeavesJobs
  BY <1>1, <1>2, <1>3 DEF LeavesJobs, JobsInv, Settles, NoneVanish, St, Finished
<1>4. ASSUME NEW j \in Clock \cup Request, NEW b \in Booking,
             NEW do \in {"cancel", "complete", "retry", "build"}, Loads(j, b, do)
      PROVE  JobsInv'
  <2>1. book[b].range # None => range[book[b].range] # "none"
    BY DEF IInv, RangesExist
  <2>2. QED
    BY <1>4, <2>1 DEF Loads, JobsInv, St, Finished
<1>5. ASSUME NEW j \in Clock \cup Request, Decides(j) PROVE JobsInv'
  BY <1>5 DEF Decides, JobsInv, St, Finished
<1>6. QED
  BY <1>3, <1>4, <1>5, JobSteps

-----------------------------------------------------------------------------
(* Builds are owned: the steps, as long as nothing that owns a build is    *)
(* edited.                                                                 *)

Going == {"destroying", "destroyed"}

\* One booking changes that owns nothing and is nobody's heir; no range is torn down.
Aside(b) ==
    /\ book' \in [Booking -> Row] /\ \A c \in Booking : c # b => book'[c] = book[c]
    /\ ~book[b].own /\ ~book'[b].own /\ St(b) \notin Finished
    /\ ~Taken(b) \/ ~Inherits(b) \/ book[b].range = None
    /\ UNCHANGED <<by, job>>
    /\ \A r \in Ranges : range'[r] \in Going => range[r] \in Going

LEMMA AsideOwn ==
  ASSUME TypeOK, OwnInv, NEW b \in Booking, Aside(b)
  PROVE  OwnInv'
<1>1. /\ \A c \in Booking : book[c].own \in BOOLEAN /\ book[c].range \in Ranges \cup {None}
      /\ DOMAIN job = Clock \cup Request
      /\ \A k \in Clock \cup Request : job[k] # None => job[k].b \in Booking /\ job[k].heir \in Booking \cup {None}
  BY DEF TypeOK, Row, Job
<1>2. ASSUME NEW c \in Booking PROVE RowInv(c)'
  BY <1>2 DEF Aside, OwnInv, RowInv, Taken, St
<1>3. ASSUME NEW k \in Clock \cup Request, job[k] # None, job[k].own
      PROVE  job[k].b # b /\ (job[k].decided => job[k].heir # b)
  <2>1. HeirInv(k)
    BY DEF OwnInv
  <2>2. job[k].b # b
    BY <1>3, <2>1 DEF Aside, HeirInv
  <2>3. ASSUME job[k].decided, job[k].heir = b PROVE FALSE
    <3>1. Inherits(b)
      BY <1>1, <1>3, <2>3 DEF Inherits
    <3>2. b # None
      BY BookingsAssumption
    <3>3. Taken(b) /\ book[b].range = job[k].range /\ job[k].range # None
      BY <1>3, <2>1, <2>3, <3>2 DEF HeirInv
    <3>4. QED
      BY <3>1, <3>3 DEF Aside
  <2>4. QED
    BY <2>2, <2>3
<1>4. ASSUME NEW k \in Clock \cup Request PROVE HeirInv(k)'
  BY <1>1, <1>3 DEF Aside, OwnInv, HeirInv, Taken, St
<1>5. ASSUME NEW r \in Ranges PROVE OwnerInv(r)'
  <2>1. OwnerInv(r) /\ (range'[r] \in Going => range[r] \in Going) /\ by' = by
    BY DEF OwnInv, Aside
  <2>2. ASSUME NEW c \in Booking, book[c].own, book[c].range = r PROVE book'[c].own /\ book'[c].range = r
    BY <2>2 DEF Aside
  <2>3. QED
    BY <2>1, <2>2 DEF OwnerInv, Going
<1>6. QED
  BY <1>2, <1>4, <1>5 DEF OwnInv

\* Bookings keep their range and what they own; who comes to own one has had it built; jobs end at
\* most; what is torn down is torn down by people.
Carries ==
    /\ \A c \in Booking :
          /\ book'[c].range = book[c].range
          /\ book[c].own => book'[c].own
          /\ Taken(c) => book'[c].st \notin {"none", "pending", "rejected"}
          /\ St(c) \in Finished => book'[c].st \in Finished
          /\ book'[c].own => \/ book[c].own
                             \/ /\ book'[c].st \notin {"none", "pending", "rejected"}
                                /\ book[c].range # None /\ by'[book[c].range].built = "clock"
    /\ LeavesJobs
    /\ \A r \in Ranges :
          /\ by[r].built = "clock" => by'[r].built = "clock"
          /\ by'[r].built = "clock" => by[r].built = "clock" \/ \E b \in Booking : book'[b].own /\ book'[b].range = r
          /\ by'[r].torn = "clock" => by[r].torn = "clock"
          /\ by'[r].torn = "nobody" => by[r].torn = "nobody"
          /\ range'[r] \in Going => range[r] \in Going \/ by'[r].torn # "nobody"

LEMMA CarriesOwn ==
  ASSUME TypeOK, OwnInv, Carries
  PROVE  OwnInv'
<1>1. /\ \A c \in Booking : book[c].range \in Ranges \cup {None}
      /\ \A k \in Clock \cup Request :
            job[k] # None => /\ job[k].b \in Booking /\ job[k].heir \in Booking \cup {None}
                             /\ job[k].range \in Ranges \cup {None}
  BY DEF TypeOK, Row, Job
<1>2. ASSUME NEW c \in Booking PROVE RowInv(c)'
  BY <1>1 DEF Carries, OwnInv, RowInv, Taken, St
<1>3. ASSUME NEW k \in Clock \cup Request PROVE HeirInv(k)'
  <2>1. SUFFICES ASSUME job[k] # None, job[k].own, job'[k] = job[k] PROVE HeirInv(k)'
    BY DEF Carries, LeavesJobs, HeirInv
  <2>2. HeirInv(k)
    BY DEF OwnInv
  <2>3. QED
    BY <1>1, <2>1, <2>2 DEF Carries, HeirInv, Taken, St
<1>4. ASSUME NEW r \in Ranges PROVE OwnerInv(r)'
  <2>1. OwnerInv(r)
    BY DEF OwnInv
  <2>2. ASSUME NEW c \in Booking, book[c].own, book[c].range = r PROVE book'[c].own /\ book'[c].range = r
    BY <2>2 DEF Carries
  <2>3. QED
    BY <2>1, <2>2 DEF OwnerInv, Going, Carries
<1>5. QED
  BY <1>2, <1>3, <1>4 DEF OwnInv

\* Booking and editing; an edit of what owns a build, or is about to, is the one excepted.
LEMMA BookedOwn ==
  ASSUME IInv, IInv', OwnInv, WithinBudget, ~Spent("moved")', NEW b \in Booking,
         NEW r \in Ranges \cup {None}, NEW s \in Starts[b], CreateEvent(b, r, s) \/ UpdateEvent(b, r, s)
  PROVE  OwnInv'
<1>1. TypeOK /\ TypeOK' /\ book \in [Booking -> Row] /\ book' \in [Booking -> Row] /\ UNCHANGED <<range, by, job>>
  BY DEF IInv, TypeOK, CreateEvent, UpdateEvent
<1>2. CASE CreateEvent(b, r, s)
  <2>1. /\ \A c \in Booking : c # b => book'[c] = book[c]
        /\ ~book'[b].own /\ St(b) = "none"
    BY <1>1, <1>2 DEF CreateEvent, Change
  <2>2. ~book[b].own
    BY <2>1 DEF OwnInv, RowInv, Taken
  <2>3. Aside(b)
    BY <1>1, <2>1, <2>2 DEF Aside, Taken, Finished
  <2>4. QED
    BY <1>1, <2>3, AsideOwn
<1>3. CASE UpdateEvent(b, r, s)
  <2>1. ~(book[b].own \/ Inherits(b))
    <3>1. SUFFICES ASSUME book[b].own \/ Inherits(b) PROVE FALSE
      OBVIOUS
    <3>2. Spend("moved") /\ "moved" \in Rare
      BY <1>3, <3>1 DEF UpdateEvent, Rare
    <3>3. QED
      BY <1>1, <3>2, SpendSpends
  <2>2. /\ \A c \in Booking : c # b => book'[c] = book[c]
        /\ book'[b].own = book[b].own /\ St(b) \in Editable
    BY <1>1, <1>3 DEF UpdateEvent, Change
  <2>3. Aside(b)
    BY <1>1, <2>1, <2>2 DEF Aside, Editable, Finished
  <2>4. QED
    BY <1>1, <2>3, AsideOwn
<1>4. QED
  BY <1>2, <1>3

\* What is pending owns nothing.
LEMMA PendingOwn ==
  ASSUME IInv, IInv', OwnInv, NEW b \in Booking, NEW s,
         Approve(b, s) \/ Reject(b) \/ ClockLapses(b)
  PROVE  OwnInv'
<1>1. TypeOK /\ TypeOK' /\ book \in [Booking -> Row] /\ book' \in [Booking -> Row] /\ UNCHANGED <<range, by, job>>
  BY DEF IInv, TypeOK, Approve, Reject, ClockLapses, Moves
<1>2. St(b) = "pending"
  BY DEF Approve, Reject, ClockLapses, Moves, Sources
<1>3. ~book[b].own
  BY <1>2 DEF OwnInv, RowInv, Taken
<1>4. (\A c \in Booking : c # b => book'[c] = book[c]) /\ book'[b].own = book[b].own
  BY <1>1 DEF Approve, Reject, ClockLapses, Moves, Change, Row
<1>5. Aside(b)
  BY <1>1, <1>2, <1>3, <1>4 DEF Aside, Taken, Finished
<1>6. QED
  BY <1>1, <1>5, AsideOwn

\* So does a booking that has no range.
LEMMA CreatesRangeOwn ==
  ASSUME IInv, IInv', OwnInv, NEW b \in Booking, NEW r \in Ranges, ClockCreatesRange(b, r)
  PROVE  OwnInv'
<1>1. TypeOK /\ TypeOK' /\ book \in [Booking -> Row] /\ book' \in [Booking -> Row] /\ UNCHANGED <<by, job>>
  BY DEF IInv, TypeOK, ClockCreatesRange
<1>2. St(b) = "scheduled" /\ book[b].range = None /\ range' = [range EXCEPT ![r] = "created"]
  BY DEF ClockCreatesRange
<1>3. ~book[b].own
  BY <1>2 DEF OwnInv, RowInv
<1>4. (\A c \in Booking : c # b => book'[c] = book[c]) /\ book'[b].own = book[b].own
  BY <1>1 DEF ClockCreatesRange, Change, Row
<1>5. \A q \in Ranges : range'[q] \in Going => range[q] \in Going
  BY <1>1, <1>2 DEF TypeOK, Going
<1>6. Aside(b)
  BY <1>1, <1>2, <1>3, <1>4, <1>5 DEF Aside, Finished
<1>7. QED
  BY <1>1, <1>6, AsideOwn

\* The moves of the state alone.
LEMMA MovesOwn ==
  ASSUME IInv, OwnInv, NEW b \in Booking, NEW to \in {"active", "completed"}, Moves(b, to)
  PROVE  OwnInv'
<1>1. TypeOK /\ book \in [Booking -> Row] /\ UNCHANGED <<range, by, job>>
  BY DEF IInv, TypeOK, Moves
<1>2. /\ \A c \in Booking : c # b => book'[c] = book[c]
      /\ book'[b].own = book[b].own /\ book'[b].range = book[b].range /\ book'[b].st = to
      /\ St(b) \in Sources(to)
  BY <1>1 DEF Moves, Change, Row
<1>3. Carries
  BY <1>1, <1>2 DEF Carries, LeavesJobs, Taken, Finished, Sources, St
<1>4. QED
  BY <1>1, <1>3, CarriesOwn

\* The clock's builds: the booking's range is the one that is built.
LEMMA ProvisionOwn ==
  ASSUME TypeOK, OwnInv, NEW b \in Booking, NEW r \in Ranges, NEW st, Provision(b, r, st), LeavesJobs,
         book[b].range = r, st \notin {"none", "pending", "rejected"},
         St(b) \in Finished => st \in Finished
  PROVE  OwnInv'
<1>1. /\ \A c \in Booking : book'[c].range = book[c].range /\ (c # b => book'[c] = book[c])
      /\ book'[b].st = st /\ (book[b].own => book'[b].own)
  BY ProvisionRow
<1>2. \/ UNCHANGED <<range, by>> /\ book'[b].own = book[b].own
      \/ /\ book'[b].own /\ by'[r].built = "clock" /\ range'[r] = "parked"
         /\ \A q \in Ranges : by'[q].torn = by[q].torn /\ (q # r => by'[q] = by[q] /\ range'[q] = range[q])
  BY ProvisionRow
<1>3. r # None
  BY BookingsAssumption
<1>4. \A c \in Booking :
          /\ book'[c].range = book[c].range
          /\ book[c].own => book'[c].own
          /\ Taken(c) => book'[c].st \notin {"none", "pending", "rejected"}
          /\ St(c) \in Finished => book'[c].st \in Finished
          /\ book'[c].own => \/ book[c].own
                             \/ /\ book'[c].st \notin {"none", "pending", "rejected"}
                                /\ book[c].range # None /\ by'[book[c].range].built = "clock"
  BY <1>1, <1>2, <1>3 DEF Taken, St
<1>5. ASSUME NEW q \in Ranges
      PROVE  /\ by[q].built = "clock" => by'[q].built = "clock"
             /\ by'[q].built = "clock" => by[q].built = "clock" \/ \E c \in Booking : book'[c].own /\ book'[c].range = q
             /\ by'[q].torn = "clock" => by[q].torn = "clock"
             /\ by'[q].torn = "nobody" => by[q].torn = "nobody"
             /\ range'[q] \in Going => range[q] \in Going \/ by'[q].torn # "nobody"
  BY <1>1, <1>2 DEF Going
<1>6. Carries
  BY <1>4, <1>5 DEF Carries
<1>7. QED
  BY <1>6, CarriesOwn

\* Workers, people and time.
LEMMA OutsideOwn ==
  ASSUME IInv, OwnInv,
         \/ \E r \in Ranges : Worker(r) \/ BuildPutBack(r) \/ PersonBuilds(r) \/ PersonDestroys(r)
         \/ WindowOpens \/ WindowCloses \/ Time \/ UNCHANGED vars
  PROVE  OwnInv'
<1>1. TypeOK /\ range \in [Ranges -> RangeState]
      /\ by \in [Ranges -> [built : {"nobody", "clock", "person"}, torn : {"nobody", "clock", "person"}]]
  BY DEF IInv, TypeOK
<1>2. CASE \E r \in Ranges : Worker(r) \/ BuildPutBack(r) \/ PersonBuilds(r) \/ PersonDestroys(r)
  <2>1. PICK r \in Ranges : Worker(r) \/ BuildPutBack(r) \/ PersonBuilds(r) \/ PersonDestroys(r)
    BY <1>2
  <2>2. UNCHANGED <<book, job>>
    BY <2>1 DEF Worker, BuildStarts, BuildEnds, TeardownEnds, BuildPutBack, PersonBuilds, PersonDestroys, RangeMoves
  <2>3. \A q \in Ranges :
          /\ by[q].built = "clock" => by'[q].built = "clock"
          /\ by'[q].built = "clock" => by[q].built = "clock"
          /\ by'[q].torn = "clock" => by[q].torn = "clock"
          /\ by'[q].torn = "nobody" => by[q].torn = "nobody"
    <3>1. CASE UNCHANGED by
      BY <3>1
    <3>2. CASE PersonBuilds(r)
      BY <1>1, <3>2 DEF PersonBuilds, BuiltBy
    <3>3. CASE PersonDestroys(r)
      BY <1>1, <3>3 DEF PersonDestroys
    <3>4. QED
      BY <2>1, <3>1, <3>2, <3>3 DEF Worker, BuildStarts, BuildEnds, TeardownEnds, BuildPutBack
  <2>4. \A q \in Ranges : range'[q] \in Going => range[q] \in Going \/ by'[q].torn # "nobody"
    <3>1. CASE PersonDestroys(r)
      BY <1>1, <3>1 DEF PersonDestroys, RangeMoves, Going
    <3>2. CASE Worker(r)
      BY <1>1, <3>2 DEF Worker, BuildStarts, BuildEnds, TeardownEnds, RangeMoves, Going
    <3>3. CASE BuildPutBack(r) \/ PersonBuilds(r)
      BY <1>1, <3>3 DEF BuildPutBack, PersonBuilds, RangeMoves, Going
    <3>4. QED
      BY <2>1, <3>1, <3>2, <3>3
  <2>5. Carries
    BY <2>2, <2>3, <2>4 DEF Carries, LeavesJobs, Taken, St
  <2>6. QED
    BY <1>1, <2>5, CarriesOwn
<1>3. CASE WindowOpens \/ WindowCloses \/ Time \/ UNCHANGED vars
  <2>1. UNCHANGED <<book, range, by, job>>
    BY <1>3 DEF WindowOpens, WindowCloses, Time, vars
  <2>2. Carries
    BY <2>1 DEF Carries, LeavesJobs, Taken, St
  <2>3. QED
    BY <1>1, <2>2, CarriesOwn
<1>4. QED
  BY <1>2, <1>3

LEMMA LoadsOwn ==
  ASSUME TypeOK, OwnInv, NEW j \in Clock \cup Request, NEW b \in Booking, NEW do, Loads(j, b, do)
  PROVE  OwnInv'
<1>1. ASSUME NEW c \in Booking PROVE RowInv(c)'
  BY DEF Loads, OwnInv, RowInv, Taken, St
<1>2. ASSUME NEW r \in Ranges PROVE OwnerInv(r)'
  BY DEF Loads, OwnInv, OwnerInv
<1>3. ASSUME NEW k \in Clock \cup Request PROVE HeirInv(k)'
  <2>1. CASE k # j
    BY <2>1 DEF Loads, OwnInv, HeirInv, Taken, St
  <2>2. CASE k = j
    BY <2>2 DEF Loads, OwnInv, RowInv, HeirInv, Taken, St
  <2>3. QED
    BY <2>1, <2>2
<1>4. QED
  BY <1>1, <1>2, <1>3 DEF OwnInv

LEMMA DecidesOwn ==
  ASSUME TypeOK, OwnInv, NEW j \in Clock \cup Request, Decides(j)
  PROVE  OwnInv'
<1>1. ASSUME NEW c \in Booking PROVE RowInv(c)'
  BY DEF Decides, OwnInv, RowInv, Taken, St
<1>2. ASSUME NEW r \in Ranges PROVE OwnerInv(r)'
  BY DEF Decides, OwnInv, OwnerInv
<1>3. ASSUME NEW k \in Clock \cup Request PROVE HeirInv(k)'
  <2>1. CASE k # j
    BY <2>1 DEF Decides, OwnInv, HeirInv, Taken, St
  <2>2. CASE k = j
    <3>1. job'[j].heir # None => job'[j].heir \in Heirs(job[j].b, job[j].range)
      BY DEF Decides
    <3>2. job'[j].heir # None => /\ job'[j].heir # job[j].b /\ book[job'[j].heir].range = job[j].range
                                 /\ Taken(job'[j].heir)
      BY <3>1 DEF Heirs, Holding, Taken
    <3>3. HeirInv(j)
      BY DEF OwnInv
    <3>4. QED
      BY <2>2, <3>2, <3>3 DEF Decides, HeirInv, Taken, St
  <2>3. QED
    BY <2>1, <2>2
<1>4. QED
  BY <1>1, <1>2, <1>3 DEF OwnInv

\* A release: the heir owns the range, or it is torn down, or it was, or the booking still owns it.
LEMMA CommitOwn ==
  ASSUME IInv, JobsInv, OwnInv, NEW j \in Clock \cup Request, Commit(j)
  PROVE  OwnInv'
<1> DEFINE b == job[j].b
           r == job[j].range
           ended == book'[b].st = "completed"
<1>1. TypeOK /\ book \in [Booking -> Row] /\ range \in [Ranges -> RangeState]
      /\ by \in [Ranges -> [built : {"nobody", "clock", "person"}, torn : {"nobody", "clock", "person"}]]
  BY DEF IInv, TypeOK
<1>2. /\ job[j] \in Job /\ b \in Booking /\ job[j].decided /\ book'[b].st \in Finished
      /\ r \in Ranges \cup {None} /\ job[j].heir \in Booking \cup {None} /\ job[j] # None
      /\ \A c \in Booking :
              /\ book'[c].range = book[c].range
              /\ c # b => /\ book'[c].st = book[c].st
                          /\ book'[c].own <=> (book[c].own \/ (job[j].own /\ r # None /\ c = job[j].heir))
      /\ book'[b].own => book[b].own
      /\ \A k \in Clock \cup Request : job'[k] = IF k = j THEN None ELSE job[k]
  <2>1. job[j] \in Job => r \in Ranges \cup {None} /\ job[j].heir \in Booking \cup {None}
    BY DEF Job
  <2>2. job[j] # None
    BY DEF Commit
  <2>3. QED
    BY <1>1, <2>1, <2>2, CommitRows
\* What becomes of the range, when the booking gives it up.
<1>3. \/ UNCHANGED <<range, by>>
      \/ /\ job[j].own /\ r \in Ranges
         /\ range' = [range EXCEPT ![r] = "destroying"] /\ by' = [by EXCEPT ![r].torn = "clock"]
  BY <1>2 DEF Commit
<1>4. book[b].own /\ ~book'[b].own =>
        /\ job[j].own /\ r # None
        /\ job[j].heir # None \/ range[r] \in Going \/ by'[r].torn = "clock"
  <2> DEFINE st == CASE job[j].do = "cancel" -> "cancelled" [] job[j].do = "complete" -> "completed" [] OTHER -> St(b)
             releases == job[j].own /\ r # None
             tears == /\ releases /\ job[j].heir = None /\ range[r] \notin {"destroying", "destroyed"}
                      /\ ~Refuses(r, st = "completed")
             done == releases /\ (job[j].heir # None \/ Settled(r, st = "completed"))
  <2>1. book'[b] = [book[b] EXCEPT !.st = st, !.own = @ /\ ~done]
    BY <1>2 DEF Commit
  <2>2. tears => by' = [by EXCEPT ![r].torn = "clock"]
    BY DEF Commit
  <2>3. done /\ job[j].heir = None => range[r] \in Going \/ tears
    BY DEF Settled, Going
  <2>4. done => job[j].own /\ r # None
    OBVIOUS
  <2>5. done \in BOOLEAN
    BY Zenon
  <2> HIDE DEF done, tears, st
  <2>6. book[b].own /\ ~book'[b].own => done
    <3>1. book[b] \in Row
      BY <1>1, <1>2
    <3>2. QED
      BY <2>1, <2>5, <3>1 DEF Row
  <2>7. r # None /\ tears => by'[r].torn = "clock"
    BY <1>1, <1>2, <2>2
  <2>8. QED
    BY <2>3, <2>4, <2>6, <2>7
<1> HIDE DEF b, r
<1>5. \A q \in Ranges :
        /\ by'[q].built = by[q].built
        /\ by'[q].torn = by[q].torn \/ (by'[q].torn = "clock" /\ job[j].own /\ q = r)
        /\ range'[q] \in Going => range[q] \in Going \/ by'[q].torn = "clock"
  BY <1>1, <1>3 DEF Going
<1>6. job[j].own => /\ r # None /\ by[r].built = "clock" /\ book[b].range = r
                    /\ job[j].heir # None => job[j].heir # b /\ book[job[j].heir].range = r /\ Taken(job[j].heir)
  BY <1>2 DEF OwnInv, HeirInv, b, r
<1>7. ASSUME NEW c \in Booking PROVE RowInv(c)'
  <2>1. RowInv(c) /\ book[c].range \in Ranges \cup {None}
    BY <1>1 DEF OwnInv, Row
  <2>2. CASE c = b
    BY <1>2, <1>5, <2>1, <2>2 DEF RowInv, Taken, St, Finished
  <2>3. CASE c # b
    <3>1. book'[c].st = book[c].st /\ book'[c].range = book[c].range
          /\ (book[c].range # None => by'[book[c].range].built = by[book[c].range].built)
      BY <1>2, <1>5, <2>1, <2>3
    <3>2. CASE book[c].own
      BY <2>1, <3>1, <3>2 DEF RowInv, Taken, St
    <3>3. CASE ~book[c].own /\ book'[c].own
      <4>1. job[j].own /\ c = job[j].heir /\ c # None
        BY <1>2, <2>3, <3>3, BookingsAssumption
      <4>2. Taken(c) /\ book[c].range = r /\ r # None /\ by[r].built = "clock"
        BY <1>6, <4>1
      <4>3. QED
        BY <3>1, <4>2 DEF RowInv, Taken, St
    <3>4. QED
      BY <3>2, <3>3 DEF RowInv
  <2>4. QED
    BY <2>2, <2>3
<1>8. ASSUME NEW k \in Clock \cup Request PROVE HeirInv(k)'
  <2>1. SUFFICES ASSUME k # j, job[k] # None, job[k].own, job'[k] = job[k] PROVE HeirInv(k)'
    BY <1>2 DEF HeirInv
  <2>2. HeirInv(k) /\ job[k].b \in Booking /\ job[k].heir \in Booking \cup {None} /\ job[k].range \in Ranges \cup {None}
    BY <1>1, <2>1 DEF OwnInv, TypeOK, Job
  <2>3. \A c \in Booking : Taken(c) => book'[c].st \notin {"none", "pending", "rejected"}
    BY <1>2 DEF Taken, St, Finished
  <2>4. \A c \in Booking : book[c].own \/ St(c) \in Finished => book'[c].own \/ book'[c].st \in Finished
    BY <1>2 DEF St
  <2>5. QED
    BY <1>2, <1>5, <2>1, <2>2, <2>3, <2>4 DEF HeirInv, Taken, St
<1>9. ASSUME NEW q \in Ranges PROVE OwnerInv(q)'
  <2>1. OwnerInv(q)
    BY DEF OwnInv
  <2>2. by'[q].torn = "clock" => by'[q].built = "clock"
    BY <1>5, <1>6, <2>1 DEF OwnerInv
  <2>3. range'[q] \in Going => by'[q].torn # "nobody"
    BY <1>5, <2>1 DEF OwnerInv, Going
  <2>4. ASSUME by'[q].built = "clock", by'[q].torn = "nobody"
        PROVE  \E c \in Booking : book'[c].own /\ book'[c].range = q
    <3>1. by[q].built = "clock" /\ by[q].torn = "nobody"
      BY <1>5, <2>4
    <3>2. PICK c \in Booking : book[c].own /\ book[c].range = q
      BY <2>1, <3>1 DEF OwnerInv
    <3>3. CASE book'[c].own
      BY <1>2, <3>2, <3>3
    <3>4. CASE ~book'[c].own
      <4>1. c = b
        BY <1>2, <3>2, <3>4
      <4>2. job[j].own /\ r = q
        BY <1>4, <1>6, <3>2, <3>4, <4>1
      <4>3. job[j].heir # None
        BY <1>4, <2>1, <2>4, <3>1, <3>2, <3>4, <4>1, <4>2 DEF OwnerInv, Going
      <4>4. job[j].heir \in Booking /\ job[j].heir # b /\ book[job[j].heir].range = q
        BY <1>2, <1>6, <4>2, <4>3
      <4>5. book'[job[j].heir].own /\ book'[job[j].heir].range = q
        BY <1>2, <1>6, <4>2, <4>4
      <4>6. QED
        BY <4>4, <4>5
    <3>5. QED
      BY <3>3, <3>4
  <2>5. QED
    BY <2>2, <2>3, <2>4 DEF OwnerInv, Going
<1>10. QED
  BY <1>7, <1>8, <1>9 DEF OwnInv

\* Every step keeps the builds owned, unless what owns one is edited.
LEMMA OwnInvStep ==
  ASSUME IInv, IInv', BuildsHaveRange, JobsInv, OwnInv, WithinBudget, ~Spent("moved")', [Next]_vars
  PROVE  OwnInv'
<1>1. TypeOK
  BY DEF IInv
<1>2. ASSUME NEW j \in Clock \cup Request, NEW b \in Booking,
             LoadCancel(j, b) \/ LoadBuild(j, b) \/ LoadComplete(j, b) \/ LoadRetry(j, b)
      PROVE  OwnInv'
  <2>1. \E do \in {"cancel", "complete", "retry", "build"} : Loads(j, b, do)
    BY <1>1, <1>2, LoadLoads DEF LoadCancel, LoadBuild, LoadComplete, LoadRetry, Retried, Finished
  <2>2. QED
    BY <1>1, <2>1, LoadsOwn
<1>3. CASE \E b \in Booking : People(b)
  <2>1. PICK b \in Booking : People(b)
    BY <1>3
  <2>2. ASSUME NEW r \in Ranges \cup {None}, NEW s \in Starts[b], CreateEvent(b, r, s) \/ UpdateEvent(b, r, s)
        PROVE  OwnInv'
    BY <2>2, BookedOwn
  <2>3. ASSUME NEW s \in Starts[b], Approve(b, s) PROVE OwnInv'
    BY <2>3, PendingOwn
  <2>4. ASSUME Reject(b) PROVE OwnInv'
    BY <2>4, PendingOwn
  <2>5. ASSUME PersonMoves(b) PROVE OwnInv'
    BY <2>5, MovesOwn DEF PersonMoves
  <2>6. QED
    BY <2>1, <2>2, <2>3, <2>4, <2>5, <1>2 DEF People
<1>4. CASE \E b \in Booking : ClockSteps(b)
  <2>1. PICK b \in Booking : ClockSteps(b)
    BY <1>4
  <2>2. ASSUME ClockBuilds(b) PROVE OwnInv'
    <3>1. /\ book[b].range \in Ranges /\ Provision(b, book[b].range, "provisioning")
          /\ St(b) = "scheduled" /\ UNCHANGED job
      BY <1>1, <2>2 DEF ClockBuilds, TypeOK, Row
    <3>2. LeavesJobs
      BY <3>1 DEF LeavesJobs
    <3>3. QED
      BY <1>1, <3>1, <3>2, ProvisionOwn DEF Finished
  <2>3. ASSUME ClockActivates(b) PROVE OwnInv'
    BY <2>3, MovesOwn DEF ClockActivates
  <2>4. ASSUME ClockLapses(b) PROVE OwnInv'
    BY <2>4, PendingOwn
  <2>5. QED
    BY <2>1, <2>2, <2>3, <2>4, CreatesRangeOwn DEF ClockSteps
<1>5. CASE \E b \in Booking, j \in Clock : ClockLoads(j, b)
  BY <1>5, <1>2 DEF ClockLoads
<1>6. ASSUME NEW j \in Clock \cup Request, Decide(j) PROVE OwnInv'
  <2>1. CASE Decides(j)
    BY <1>1, <2>1, DecidesOwn
  <2>2. CASE LeavesJobs /\ UNCHANGED <<book, range, by>>
    <3>1. Carries
      BY <2>2 DEF Carries, Taken, St
    <3>2. QED
      BY <1>1, <3>1, CarriesOwn
  <2>3. QED
    BY <1>1, <1>6, <2>1, <2>2, DecideDecides
<1>7. ASSUME NEW j \in Clock \cup Request, CommitBuild(j) PROVE OwnInv'
  <2>1. /\ job[j].b \in Booking /\ job[j].range \in Ranges /\ Provision(job[j].b, job[j].range, St(job[j].b))
        /\ job' = [job EXCEPT ![j] = None] /\ job[j] # None /\ job[j].do = "build"
    BY <1>1, <1>7 DEF CommitBuild, BuildsHaveRange, TypeOK, Job
  <2>2. St(job[j].b) \in Finished \cup {"active"} /\ book[job[j].b].range = job[j].range
    BY <2>1 DEF JobsInv
  <2>3. LeavesJobs
    BY <1>1, <2>1 DEF LeavesJobs, TypeOK
  <2>4. St(job[j].b) \notin {"none", "pending", "rejected"}
    BY <2>2 DEF Finished
  <2>5. QED
    BY <1>1, <2>1, <2>2, <2>3, <2>4, ProvisionOwn
<1>8. CASE \E j \in Clock \cup Request : Decide(j) \/ Commit(j) \/ CommitBuild(j)
  BY <1>8, <1>6, <1>7, CommitOwn
<1>9. QED
  BY <1>3, <1>4, <1>5, <1>8, OutsideOwn DEF Next

-----------------------------------------------------------------------------
(* Booked ranges stand: the steps, as long as nothing is booked or moved   *)
(* into a range whose teardown is decided.                                 *)

\* Who holds a range after the step held it before, or took one nobody was about to tear down.
Safe ==
    \A c \in Booking : book'[c].st \in Holding /\ book'[c].range # None =>
        \/ book[c].st \in Holding /\ book[c].range = book'[c].range
        \/ ~Doomed(book'[c].range)

LEMMA SafeStands ==
  ASSUME TypeOK, StandInv, Safe, LeavesJobs
  PROVE  StandInv'
<1>1. SUFFICES ASSUME NEW j \in Clock \cup Request,
                      job'[j] # None, job'[j].decided, job'[j].heir = None, job'[j].own,
                      NEW c \in Booking \ {job'[j].b},
                      book'[c].st \in Holding, book'[c].range = job'[j].range, job'[j].range # None
               PROVE  FALSE
  BY DEF StandInv, St
<1>2. job'[j] = job[j] /\ DOMAIN job = Clock \cup Request
  BY <1>1 DEF LeavesJobs, TypeOK
<1>3. Doomed(job[j].range)
  BY <1>1, <1>2 DEF Doomed
<1>4. QED
  BY <1>1, <1>2, <1>3 DEF Safe, StandInv, St

\* The step's bookings hold no more than before.
LEMMA KeepsSafe == ASSUME Keeps PROVE Safe
  BY DEF Keeps, Safe

\* A booking that takes a range does not take a doomed one.
LEMMA TakesSafe ==
  ASSUME TypeOK, NEW b \in Booking, NEW f \in Row, Change(b, f),
         f.st \in Holding /\ f.range # None => ~Doomed(f.range)
  PROVE  Safe
<1>1. \A c \in Booking : book'[c] = IF c = b THEN f ELSE book[c]
  BY DEF Change, TypeOK
<1>2. QED
  BY <1>1 DEF Safe

\* Booking, editing and approving: taking a doomed range is the race that is excepted.
LEMMA BookedSafe ==
  ASSUME IInv, WithinBudget, ~Spent("raced")', ~Spent("moved")', NEW b \in Booking, NEW r \in Ranges \cup {None},
         NEW s \in Starts[b], CreateEvent(b, r, s) \/ UpdateEvent(b, r, s) \/ Approve(b, s)
  PROVE  Safe
<1>1. TypeOK /\ "raced" \in Rare /\ "moved" \in Rare /\ s \in Nat
  BY BookingsAssumption DEF IInv, Rare
<1>2. ~Spend("raced") /\ ~Spend("moved")
  BY <1>1, SpendSpends
<1>3. CASE CreateEvent(b, r, s)
  <2> DEFINE f == [st |-> IF b \in ClassSession THEN "pending" ELSE "scheduled", start |-> s, range |-> r, own |-> FALSE]
  <2>1. f \in Row /\ Change(b, f)
    BY <1>1, <1>3 DEF Row, EventState, CreateEvent
  <2>2. f.st \in Holding /\ f.range # None => ~Doomed(f.range)
    BY <1>2, <1>3 DEF CreateEvent, SpendIf, Holding
  <2> HIDE DEF f
  <2>3. QED
    BY <1>1, <2>1, <2>2, TakesSafe
<1>4. CASE UpdateEvent(b, r, s)
  <2> DEFINE reapprove == b \in ClassSession /\ St(b) = "scheduled"
             f == [st |-> IF reapprove THEN "pending" ELSE St(b), start |-> s, range |-> r, own |-> book[b].own]
  <2>1. f \in Row /\ Change(b, f)
    BY <1>1, <1>4 DEF Row, EventState, UpdateEvent, TypeOK, St
  <2>2. ~(St(b) = "scheduled" /\ ~reapprove /\ r # None /\ Doomed(r))
    BY <1>2, <1>4 DEF UpdateEvent
  <2>3. f.st \in Holding => St(b) = "scheduled" /\ ~reapprove
    BY <1>4 DEF UpdateEvent, Editable, Holding
  <2>4. f.range = r
    OBVIOUS
  <2> HIDE DEF f, reapprove
  <2>5. QED
    BY <1>1, <2>1, <2>2, <2>3, <2>4, TakesSafe
<1>5. CASE Approve(b, s)
  <2> DEFINE f == [st |-> "scheduled", start |-> s, range |-> book[b].range, own |-> book[b].own]
  <2>1. f \in Row /\ Change(b, f)
    BY <1>1, <1>5 DEF Row, EventState, Approve, TypeOK
  <2>2. f.st \in Holding /\ f.range # None => ~Doomed(f.range)
    BY <1>2, <1>5 DEF Approve, SpendIf
  <2> HIDE DEF f
  <2>3. QED
    BY <1>1, <2>1, <2>2, TakesSafe
<1>6. QED
  BY <1>3, <1>4, <1>5

\* The clock's new range is in no job: a job's range exists.
LEMMA CreatesRangeSafe ==
  ASSUME TypeOK, JobsInv, NEW b \in Booking, NEW r \in Ranges, ClockCreatesRange(b, r)
  PROVE  Safe
<1> DEFINE f == [book[b] EXCEPT !.range = r]
<1>1. f \in Row /\ f.range = r /\ Change(b, f)
  BY DEF ClockCreatesRange, TypeOK, Row
<1>2. ~Doomed(r)
  <2>1. DOMAIN job = Clock \cup Request /\ range[r] = "none" /\ r # None
    BY BookingsAssumption DEF ClockCreatesRange, TypeOK
  <2>2. QED
    BY <2>1 DEF Doomed, JobsInv
<1> HIDE DEF f
<1>3. QED
  BY <1>1, <1>2, TakesSafe

LEMMA MovesSafe ==
  ASSUME TypeOK, NEW b \in Booking, NEW to \in {"active", "completed", "cancelled", "rejected"}, Moves(b, to)
  PROVE  Safe
<1>1. \A c \in Booking : book'[c].range = book[c].range /\ (c # b => book'[c] = book[c])
  BY DEF Moves, Change, TypeOK, Row
<1>2. book'[b].st = to /\ St(b) \in Sources(to)
  BY DEF Moves, Change, TypeOK, Row
<1>3. QED
  BY <1>1, <1>2 DEF Safe, Sources, Holding, St

LEMMA ProvisionSafe ==
  ASSUME TypeOK, NEW b \in Booking, NEW r \in Ranges, NEW st, Provision(b, r, st), st \in Holding => St(b) \in Holding
  PROVE  Safe
<1>1. /\ \A c \in Booking : book'[c].range = book[c].range /\ (c # b => book'[c] = book[c])
      /\ book'[b].st = st
  BY ProvisionRow
<1>2. QED
  BY <1>1 DEF Safe, St

LEMMA SameSafe == ASSUME UNCHANGED book PROVE Safe
  BY DEF Safe

\* Every step that starts or decides no job is safe.
LEMMA NextSafe ==
  ASSUME IInv, BuildsHaveRange, JobsInv, WithinBudget, ~Spent("raced")', ~Spent("moved")', [Next]_vars
  PROVE  Safe
<1>1. TypeOK
  BY DEF IInv
<1>2. CASE \E b \in Booking : People(b)
  <2>1. PICK b \in Booking : People(b)
    BY <1>2
  <2>2. ASSUME NEW r \in Ranges \cup {None}, NEW s \in Starts[b], CreateEvent(b, r, s) \/ UpdateEvent(b, r, s)
        PROVE  Safe
    BY <2>2, BookedSafe
  <2>3. ASSUME NEW s \in Starts[b], Approve(b, s) PROVE Safe
    <3>1. None \in Ranges \cup {None}
      OBVIOUS
    <3>2. QED
      BY <2>3, <3>1, BookedSafe
  <2>4. ASSUME Reject(b) \/ PersonMoves(b) PROVE Safe
    BY <1>1, <2>4, MovesSafe DEF Reject, PersonMoves
  <2>5. ASSUME NEW j \in Request, LoadCancel(j, b) PROVE Safe
    BY <2>5, SameSafe DEF LoadCancel, Load
  <2>6. QED
    BY <2>1, <2>2, <2>3, <2>4, <2>5 DEF People
<1>3. CASE \E b \in Booking : ClockSteps(b)
  <2>1. PICK b \in Booking : ClockSteps(b)
    BY <1>3
  <2>2. ASSUME ClockBuilds(b) PROVE Safe
    <3>1. book[b].range \in Ranges /\ Provision(b, book[b].range, "provisioning") /\ St(b) = "scheduled"
      BY <1>1, <2>2 DEF ClockBuilds, TypeOK, Row
    <3>2. QED
      BY <1>1, <3>1, ProvisionSafe DEF Holding
  <2>3. ASSUME ClockActivates(b) \/ ClockLapses(b) PROVE Safe
    BY <1>1, <2>3, MovesSafe DEF ClockActivates, ClockLapses
  <2>4. QED
    BY <1>1, <2>1, <2>2, <2>3, CreatesRangeSafe DEF ClockSteps
<1>4. CASE \E b \in Booking, j \in Clock : ClockLoads(j, b)
  BY <1>4, SameSafe DEF ClockLoads, LoadBuild, LoadComplete, LoadRetry, Load
<1>5. ASSUME NEW j \in Clock \cup Request, Decide(j) PROVE Safe
  BY <1>5, SameSafe DEF Decide
<1>6. ASSUME NEW j \in Clock \cup Request, CommitBuild(j) PROVE Safe
  <2>1. job[j].b \in Booking /\ job[j].range \in Ranges /\ Provision(job[j].b, job[j].range, St(job[j].b))
    BY <1>1, <1>6 DEF CommitBuild, BuildsHaveRange, TypeOK, Job
  <2>2. QED
    BY <1>1, <2>1, ProvisionSafe
<1>7. ASSUME NEW j \in Clock \cup Request, Commit(j) PROVE Safe
  <2>1. /\ book'[job[j].b].st \in Finished
        /\ \A c \in Booking : book'[c].range = book[c].range /\ (c # job[j].b => book'[c].st = book[c].st)
    BY <1>1, <1>7, CommitRows
  <2>2. QED
    BY <2>1 DEF Safe, Finished, Holding
<1>8. CASE \E j \in Clock \cup Request : Decide(j) \/ Commit(j) \/ CommitBuild(j)
  BY <1>5, <1>6, <1>7, <1>8
<1>9. CASE \E r \in Ranges : Worker(r) \/ BuildPutBack(r) \/ PersonBuilds(r) \/ PersonDestroys(r)
  BY <1>9, SameSafe DEF Worker, BuildStarts, BuildEnds, TeardownEnds, BuildPutBack, PersonBuilds, PersonDestroys, RangeMoves
<1>10. CASE WindowOpens \/ WindowCloses \/ Time \/ UNCHANGED vars
  BY <1>10, SameSafe DEF WindowOpens, WindowCloses, Time, vars
<1>11. QED
  BY <1>2, <1>3, <1>4, <1>8, <1>9, <1>10 DEF Next

\* Every step keeps decided teardowns from ranges that others hold, unless one races with it.
LEMMA StandInvStep ==
  ASSUME IInv, BuildsHaveRange, JobsInv, StandInv, WithinBudget, ~Spent("raced")', ~Spent("moved")', [Next]_vars
  PROVE  StandInv'
<1>1. TypeOK
  BY DEF IInv
<1>2. CASE LeavesJobs
  BY <1>1, <1>2, NextSafe, SafeStands
<1>3. ASSUME NEW j \in Clock \cup Request, NEW b \in Booking,
             NEW do \in {"cancel", "complete", "retry", "build"}, Loads(j, b, do)
      PROVE  StandInv'
  BY <1>3 DEF Loads, StandInv, St
<1>4. ASSUME NEW j \in Clock \cup Request, Decides(j) PROVE StandInv'
  <2>1. ASSUME job'[j].heir = None
        PROVE  \A c \in Booking \ {job[j].b} : ~(St(c) \in Holding /\ book[c].range = job[j].range)
    <3>1. Heirs(job[j].b, job[j].range) = {}
      BY <1>4, <2>1, BookingsAssumption DEF Decides, Heirs
    <3>2. QED
      BY <3>1 DEF Heirs
  <2>2. QED
    BY <1>4, <2>1 DEF Decides, StandInv, St
<1>5. QED
  BY <1>2, <1>3, <1>4, JobSteps

-----------------------------------------------------------------------------
(* The theorems.                                                           *)

BookingsInv ==
    /\ IInv /\ BuildsHaveRange /\ WithinBudget /\ JobsInv
    /\ Spent("moved") \/ OwnInv
    /\ Spent("raced") \/ Spent("moved") \/ StandInv

LEMMA InitBookings == Init => BookingsInv
<1> SUFFICES ASSUME Init PROVE BookingsInv
  OBVIOUS
<1>1. IInv /\ BuildsHaveRange
  BY InitInv
<1>2. WithinBudget
  BY BookingsAssumption DEF Init, WithinBudget
<1>3. \A k \in Clock \cup Request : job[k] = None
  BY DEF Init
<1>4. JobsInv /\ StandInv
  BY <1>3 DEF JobsInv, StandInv
<1>5. OwnInv
  <2>1. \A b \in Booking : RowInv(b)
    BY DEF Init, RowInv
  <2>2. \A k \in Clock \cup Request : HeirInv(k)
    BY <1>3 DEF HeirInv
  <2>3. \A r \in Ranges : OwnerInv(r)
    BY DEF Init, OwnerInv
  <2>4. QED
    BY <2>1, <2>2, <2>3 DEF OwnInv
<1>6. QED
  BY <1>1, <1>2, <1>4, <1>5 DEF BookingsInv

LEMMA NextBookings == BookingsInv /\ [Next]_vars => BookingsInv'
<1> SUFFICES ASSUME BookingsInv, [Next]_vars PROVE BookingsInv'
  OBVIOUS
<1>1. IInv /\ TypeOK /\ BuildsHaveRange /\ WithinBudget /\ JobsInv
  BY DEF BookingsInv, IInv
<1>2. IInv' /\ BuildsHaveRange' /\ JobsInv'
  BY <1>1, NextInv, BuildsHaveRangeStep, JobsInvStep
<1>3. /\ WithinBudget' /\ (Spent("moved") => Spent("moved")') /\ (Spent("raced") => Spent("raced")')
  BY <1>1, BudgetFalls DEF Rare
<1>4. Spent("moved")' \/ OwnInv'
  BY <1>1, <1>2, <1>3, OwnInvStep DEF BookingsInv
<1>5. Spent("raced")' \/ Spent("moved")' \/ StandInv'
  BY <1>1, <1>2, <1>3, StandInvStep DEF BookingsInv
<1>6. QED
  BY <1>2, <1>3, <1>4, <1>5 DEF BookingsInv

\* A range the clock built stands only while a booking that the clock will release owns it, for any
\* bookings, ranges, clocks and requests, through cancellations, completions and handovers that race
\* with the build; unless an owning booking was edited (release_range, before_build).
THEOREM BuildsStayOwned == Spec => []BuildsAreOwned
<1>1. BookingsInv => BuildsAreOwned
  <2>1. SUFFICES ASSUME BookingsInv, OwnInv, NEW r \in Ranges, by[r] = [built |-> "clock", torn |-> "nobody"]
                 PROVE  \E b \in Booking : Owns(b, r)
    BY DEF BookingsInv, BuildsAreOwned
  <2>2. PICK b \in Booking : book[b].own /\ book[b].range = r
    BY <2>1 DEF OwnInv, OwnerInv
  <2>3. St(b) \notin {"none", "rejected"}
    BY <2>1, <2>2 DEF OwnInv, RowInv, Taken
  <2>4. QED
    BY <2>2, <2>3 DEF Owns
<1>2. QED
  BY <1>1, InitBookings, NextBookings, PTL DEF Spec

\* The scheduler only tears down what it built, as long as no booking that owns a build is edited
\* (ScheduledEvent.auto_provisioned).
THEOREM OnlyOwnBuildsTornDown == Spec => []OwnTornDownUnlessMoved
<1>1. BookingsInv => OwnTornDownUnlessMoved
  BY DEF BookingsInv, OwnTornDownUnlessMoved, OnlyItsOwnTornDown, OwnInv, OwnerInv
<1>2. QED
  BY <1>1, InitBookings, NextBookings, PTL DEF Spec

\* Only a commit tears down a range for the clock.
LEMMA OnlyCommitsTear ==
  ASSUME IInv, BuildsHaveRange, [Next]_vars, NEW r \in Ranges, by[r].torn # "clock", by'[r].torn = "clock"
  PROVE  \E j \in Clock \cup Request : Commit(j) /\ job[j].heir = None /\ job[j].own /\ job[j].range = r
<1>1. TypeOK /\ by \in [Ranges -> [built : {"nobody", "clock", "person"}, torn : {"nobody", "clock", "person"}]]
  BY DEF IInv, TypeOK
<1>2. ASSUME UNCHANGED by PROVE FALSE
  BY <1>2
<1>3. ASSUME NEW b \in Booking, NEW q \in Ranges, NEW st, Provision(b, q, st) PROVE FALSE
  <2>1. by' = by \/ \A p \in Ranges : by'[p].torn = by[p].torn
    BY <1>1, <1>3, ProvisionRow
  <2>2. QED
    BY <2>1
<1>4. CASE \E b \in Booking : People(b)
  <2>1. PICK b \in Booking : People(b)
    BY <1>4
  <2>2. UNCHANGED by
    BY <2>1 DEF People, CreateEvent, UpdateEvent, Approve, Reject, PersonMoves, Moves, LoadCancel, Load
  <2>3. QED
    BY <2>2, <1>2
<1>5. ASSUME NEW b \in Booking, ClockSteps(b) PROVE FALSE
  <2>1. ASSUME ClockBuilds(b) PROVE FALSE
    <3>1. book[b].range \in Ranges /\ Provision(b, book[b].range, "provisioning")
      BY <1>1, <2>1 DEF ClockBuilds, TypeOK, Row
    <3>2. QED
      BY <3>1, <1>3
  <2>2. QED
    BY <1>5, <1>2, <2>1 DEF ClockSteps, ClockCreatesRange, ClockActivates, ClockLapses, Moves
<1>6. CASE \E b \in Booking, j \in Clock : ClockLoads(j, b)
  BY <1>6, <1>2 DEF ClockLoads, LoadBuild, LoadComplete, LoadRetry, Load
<1>7. ASSUME NEW j \in Clock \cup Request, Decide(j) PROVE FALSE
  BY <1>7, <1>2 DEF Decide
<1>8. ASSUME NEW j \in Clock \cup Request, CommitBuild(j) PROVE FALSE
  <2>1. job[j].b \in Booking /\ job[j].range \in Ranges /\ Provision(job[j].b, job[j].range, St(job[j].b))
    BY <1>1, <1>8 DEF CommitBuild, BuildsHaveRange, TypeOK, Job
  <2>2. QED
    BY <2>1, <1>3
<1>9. ASSUME NEW j \in Clock \cup Request, Commit(j)
      PROVE  job[j].heir = None /\ job[j].own /\ job[j].range = r
  <2>1. \/ by' = by
        \/ by' = [by EXCEPT ![job[j].range].torn = "clock"] /\ job[j].heir = None /\ job[j].own
    BY <1>9 DEF Commit
  <2>2. QED
    BY <1>1, <2>1
<1>10. ASSUME NEW q \in Ranges, Worker(q) \/ BuildPutBack(q) \/ PersonBuilds(q) \/ PersonDestroys(q) PROVE FALSE
  <2>1. CASE PersonBuilds(q)
    BY <1>1, <2>1 DEF PersonBuilds, BuiltBy
  <2>2. CASE PersonDestroys(q)
    BY <1>1, <2>2 DEF PersonDestroys
  <2>3. QED
    BY <1>10, <1>2, <2>1, <2>2 DEF Worker, BuildStarts, BuildEnds, TeardownEnds, BuildPutBack
<1>11. CASE WindowOpens \/ WindowCloses \/ Time \/ UNCHANGED vars
  BY <1>11, <1>2 DEF WindowOpens, WindowCloses, Time, vars
<1>12. QED
  BY <1>4, <1>5, <1>6, <1>7, <1>8, <1>9, <1>10, <1>11 DEF Next

\* The scheduler never tears down a range that a live booking holds, for any bookings, ranges,
\* clocks and requests, unless one was booked, or one that owns a build was moved there, while a
\* teardown was being committed (release_range's heir).
THEOREM NoBookedRangeTornDown == Spec => BookedRangesStand
<1> DEFINE Stands == \A r \in Ranges : by[r].torn # "clock" /\ by'[r].torn = "clock" =>
                        Spent("raced") \/ Spent("moved")
                        \/ Cardinality({b \in Booking : book[b].range = r /\ St(b) \in Holding /\ St(b)' \in Holding}) = 0
<1>1. BookingsInv /\ [Next]_vars => [Stands]_vars
  <2>1. SUFFICES ASSUME BookingsInv, [Next]_vars, NEW r \in Ranges, by[r].torn # "clock", by'[r].torn = "clock",
                        ~Spent("raced"), ~Spent("moved")
                 PROVE  Cardinality({b \in Booking : book[b].range = r /\ St(b) \in Holding /\ St(b)' \in Holding}) = 0
    OBVIOUS
  <2>2. PICK j \in Clock \cup Request : Commit(j) /\ job[j].heir = None /\ job[j].own /\ job[j].range = r
    BY <2>1, OnlyCommitsTear DEF BookingsInv
  <2>3. TypeOK /\ JobsInv /\ StandInv
    BY <2>1 DEF BookingsInv, IInv
  <2>4. job[j] # None /\ job[j].decided /\ r # None
    BY <2>2, BookingsAssumption DEF Commit
  <2>5. ASSUME NEW b \in Booking, book[b].range = r, St(b) \in Holding, book'[b].st \in Holding PROVE FALSE
    <3>1. book'[job[j].b].st \in Finished
      BY <2>2, <2>3, CommitRows
    <3>2. b # job[j].b
      BY <2>5, <3>1 DEF Finished, Holding
    <3>3. QED
      BY <2>2, <2>3, <2>4, <2>5, <3>2 DEF StandInv
  <2>6. {b \in Booking : book[b].range = r /\ St(b) \in Holding /\ St(b)' \in Holding} = {}
    BY <2>5 DEF St
  <2>7. QED
    BY <2>6, FS_EmptySet
<1>2. QED
  BY <1>1, InitBookings, NextBookings, PTL DEF Spec, BookedRangesStand
=============================================================================
