------------------------------- MODULE Bookings -------------------------------
(***************************************************************************)
(* The scheduler's bookings and the ranges it builds and tears down for    *)
(* them (api/app/scheduler: router.py, approval.py, lifecycle.py,          *)
(* service.py, clock.py; api/app/range_lifecycle.py).                      *)
(*                                                                         *)
(* A booking holds a range for a session. Any number of API replicas run   *)
(* the clock: it creates the range of a booking with a template, builds it *)
(* at the lead (and records that the booking owns the build,               *)
(* auto_provisioned), activates the booking at its start, completes it     *)
(* after the grace and tears down what it built, unless a later booking of *)
(* the same range inherits it. People book, edit, approve, reject,         *)
(* activate, complete and cancel meanwhile, and build and destroy ranges   *)
(* of their own.                                                           *)
(*                                                                         *)
(* What a booking's row said is read before the transaction that releases  *)
(* its range, and the search for an heir is not under the lock that        *)
(* serialises bookings: a release is three steps here (load, decide,       *)
(* commit), as is the clock's late build (load, commit).                   *)
(*                                                                         *)
(* Time is counted in ticks. A session lasts Length; Lead and Grace are    *)
(* PROVISION_LEAD and TEARDOWN_GRACE. A range is "parked" while it is      *)
(* provisioning with no worker on its build, "up" for every built state. A *)
(* draft holds nothing and is checked as a new booking when it is          *)
(* scheduled: here it is a booking not made yet.                           *)
(***************************************************************************)
EXTENDS Integers, FiniteSets

CONSTANTS
    Booking,      \* bookings
    ClassSession, \* those that are sessions of a class: they need an approver
    Templated,    \* those with a template: the clock creates their range
    Ranges,       \* ranges
    Existing,     \* those a person has already created
    Clock,        \* the API replicas' clocks
    Request,      \* requests that cancel a booking
    Starts,       \* the times each booking's session may be given
    Lead, Length, Grace,
    LastTick,     \* the last time modelled
    None,
    Budget        \* how often each rare event may happen

\* edit: a booking is edited; moved: one that owns a build is; raced: one takes a range whose
\* teardown is decided and not committed; person: a person activates or completes a booking, or
\* builds or destroys a range; window: a maintenance window opens; refused: a build the clock asks
\* for is refused; putBack: a build that cannot start inside a window is put back to created;
\* failed: a build or a teardown fails.
Rare == {"edit", "window", "refused", "putBack", "moved", "raced", "person", "failed"}

ASSUME BookingsAssumption ==
    /\ ClassSession \subseteq Booking /\ Templated \subseteq Booking /\ Existing \subseteq Ranges
    /\ Lead \in Nat /\ Length \in Nat /\ Grace \in Nat /\ LastTick \in Nat
    /\ Starts \in [Booking -> SUBSET Nat]
    /\ None \notin Booking \cup Ranges
    /\ Budget \in [Rare -> Nat]

VARIABLES
    book,    \* bookings
    range,   \* the ranges' states
    by,      \* history: who built the range (the clock, or only people) and who tore it down
    job,     \* releases and late builds under way
    window,  \* a maintenance window covers the ranges
    now,
    budget

vars == <<book, range, by, job, window, now, budget>>

-----------------------------------------------------------------------------
\* lifecycle.SOURCES: the states a state may be reached from.
Sources(to) ==
    CASE to = "pending"      -> {"scheduled"}
      [] to = "scheduled"    -> {"pending"}
      [] to = "rejected"     -> {"pending"}
      [] to = "provisioning" -> {"scheduled"}
      [] to = "active"       -> {"scheduled", "provisioning"}
      [] to = "completed"    -> {"active"}
      [] to = "cancelled"    -> {"pending", "scheduled", "provisioning", "active"}
      [] OTHER               -> {}

EventState == {"none", "pending", "scheduled", "provisioning", "active", "completed", "cancelled", "rejected"}
Editable   == {"pending", "scheduled"}
Holding    == {"scheduled", "provisioning", "active"}
RangeState == {"none", "created", "parked", "building", "up", "failed", "destroying", "destroyed"}

\* own: auto_provisioned.
Row == [st : EventState, start : Nat, range : Ranges \cup {None}, own : BOOLEAN]

\* do: what the job does; own, range: the row as it was loaded; heir: what the search found.
Job == [do : {"cancel", "complete", "retry", "build"}, b : Booking, own : BOOLEAN, range : Ranges \cup {None},
        heir : Booking \cup {None}, decided : BOOLEAN]

TypeOK ==
    /\ book \in [Booking -> Row]
    /\ range \in [Ranges -> RangeState]
    /\ by \in [Ranges -> [built : {"nobody", "clock", "person"}, torn : {"nobody", "clock", "person"}]]
    /\ job \in [Clock \cup Request -> Job \cup {None}]
    /\ window \in BOOLEAN /\ now \in 0 .. LastTick
    /\ budget \in [Rare -> Nat]

Init ==
    /\ book = [b \in Booking |-> [st |-> "none", start |-> 0, range |-> None, own |-> FALSE]]
    /\ range = [r \in Ranges |-> IF r \in Existing THEN "created" ELSE "none"]
    /\ by = [r \in Ranges |-> [built |-> "nobody", torn |-> "nobody"]]
    /\ job = [j \in Clock \cup Request |-> None]
    /\ window = FALSE /\ now = 0 /\ budget = Budget

Spend(f) == budget[f] > 0 /\ budget' = [budget EXCEPT ![f] = @ - 1]
SpendIf(happens, f) == IF happens THEN Spend(f) ELSE UNCHANGED budget
Spent(f) == budget[f] < Budget[f]

Start(b) == book[b].start
End(b) == Start(b) + Length
St(b) == book[b].st

\* A guarded update of a row another transaction has moved and not committed waits for it.
Locked(b) == \E j \in DOMAIN job : job[j] # None /\ job[j].b = b /\ job[j].decided /\ job[j].do \in {"cancel", "complete"}

\* A teardown of the range was decided and not committed yet.
Doomed(r) == \E j \in DOMAIN job : job[j] # None /\ job[j].decided /\ job[j].heir = None /\ job[j].range = r /\ job[j].own

\* The booking is about to be made the owner of its range.
Inherits(b) == \E j \in DOMAIN job : job[j] # None /\ job[j].decided /\ job[j].heir = b

Change(b, f) == book' = [book EXCEPT ![b] = f]

-----------------------------------------------------------------------------
(* People: booking, editing, approving.                                    *)

\* Faulty: the room a build and a teardown need is not kept.
ConflictingTimes(s, t) == s = t /\ Length = 0

\* conflicts: two sessions too close for one range to serve both.
TooClose(s, t) == LET reach == Lead + Grace IN s < t + Length + reach /\ s + Length + reach > t

\* resolve_range.
Bookable(r) == r # None => range[r] \notin {"none", "destroying", "destroyed"}

\* conflicts: no other holding booking has the range about then.
Free(b, r, s) ==
    r # None => \A c \in Booking \ {b} : ~(St(c) \in Holding /\ book[c].range = r /\ TooClose(s, Start(c)))

\* create_event, or schedule_event of a draft: checked the same. A class's session awaits approval
\* unchecked.
CreateEvent(b, r, s) ==
    /\ St(b) = "none" /\ Bookable(r)
    /\ LET to == IF b \in ClassSession THEN "pending" ELSE "scheduled" IN
        /\ to = "scheduled" => Free(b, r, s)
        /\ SpendIf(to = "scheduled" /\ r # None /\ Doomed(r), "raced")
        /\ Change(b, [st |-> to, start |-> s, range |-> r, own |-> FALSE])
    /\ UNCHANGED <<range, by, job, window, now>>

\* update_event: of a scheduled booking it is checked; of an approved class session that changes
\* what it holds it goes back to approval; of the others it is not.
UpdateEvent(b, r, s) ==
    /\ St(b) \in Editable /\ ~Locked(b) /\ Bookable(r)
    /\ <<r, s>> # <<book[b].range, Start(b)>>
    /\ LET reapprove == b \in ClassSession /\ St(b) = "scheduled" IN
        /\ St(b) = "scheduled" /\ ~reapprove => Free(b, r, s)
        /\ Spend(IF book[b].own \/ Inherits(b) THEN "moved"
                 ELSE IF St(b) = "scheduled" /\ ~reapprove /\ r # None /\ Doomed(r) THEN "raced" ELSE "edit")
        /\ Change(b, [st |-> IF reapprove THEN "pending" ELSE St(b), start |-> s, range |-> r, own |-> book[b].own])
    /\ UNCHANGED <<range, by, job, window, now>>

\* approve, or accept of a time an approver proposed.
Approve(b, s) ==
    /\ b \in ClassSession /\ St(b) = "pending" /\ ~Locked(b) /\ s + Length > now
    /\ Bookable(book[b].range) /\ Free(b, book[b].range, s)
    /\ SpendIf(book[b].range # None /\ Doomed(book[b].range), "raced")
    /\ Change(b, [st |-> "scheduled", start |-> s, range |-> book[b].range, own |-> book[b].own])
    /\ UNCHANGED <<range, by, job, window, now>>

\* The moves that touch nothing but the state.
Moves(b, to) ==
    /\ St(b) \in Sources(to) /\ ~Locked(b)
    /\ Change(b, [book[b] EXCEPT !.st = to])
    /\ UNCHANGED <<range, by, job, window, now>>

\* reject.
Reject(b) == b \in ClassSession /\ Moves(b, "rejected") /\ UNCHANGED budget

\* activate_event and complete_event: a person's completion leaves the range to the clock.
PersonMoves(b) == (\E to \in {"active", "completed"} : Moves(b, to)) /\ Spend("person")

-----------------------------------------------------------------------------
(* The clock's steps on one booking.                                       *)

\* Faulty: the range is created in a state that ranges do not have.
ClockDraftsRange(b, r) ==
    /\ St(b) = "scheduled" /\ ~Locked(b) /\ book[b].range = None
    /\ b \in Templated \ ClassSession
    /\ Start(b) <= now + Lead /\ End(b) > now
    /\ range[r] = "none" /\ range' = [range EXCEPT ![r] = "draft"]
    /\ Change(b, [book[b] EXCEPT !.range = r])
    /\ UNCHANGED <<by, job, window, now, budget>>

\* Step 0: the range of a booking with a template; no class's session.
ClockCreatesRange(b, r) ==
    /\ St(b) = "scheduled" /\ ~Locked(b) /\ book[b].range = None
    /\ b \in Templated \ ClassSession
    /\ Start(b) <= now + Lead /\ End(b) > now
    /\ range[r] = "none" /\ range' = [range EXCEPT ![r] = "created"]
    /\ Change(b, [book[b] EXCEPT !.range = r])
    /\ UNCHANGED <<by, job, window, now, budget>>

UpStates == {"up", "parked", "building"}

\* _held_by_window.
HeldByWindow(b) == window /\ book[b].range # None /\ range[book[b].range] \notin UpStates

\* The build is accepted: created, or failed with nothing recorded, and no window.
Accepts(r) == range[r] \in {"created", "failed"} /\ ~window

BuiltBy(r, who) == [by EXCEPT ![r].built = IF @ = "clock" THEN @ ELSE who]

\* Faulty: the booking is not made the owner of the build it asked for.
OwnedNever(own, built) == own

\* Faulty: a range that was already up becomes the booking's own.
OwnedAnyway(own, built) == TRUE

\* before_build: owning the build is recorded with the build, and only then.
OwnedAfter(own, built) == own \/ built

\* provision_for_booking, with before_build, of the booking's range: used as it is, refused, or built.
Provision(b, r, st) ==
    \/ /\ ~Accepts(r) \/ Spend("refused")
       /\ ~Accepts(r) => UNCHANGED budget
       /\ Change(b, [book[b] EXCEPT !.st = st, !.own = OwnedAfter(@, FALSE)])
       /\ UNCHANGED <<range, by>>
    \/ /\ Accepts(r)
       /\ range' = [range EXCEPT ![r] = "parked"] /\ by' = BuiltBy(r, "clock")
       /\ Change(b, [book[b] EXCEPT !.st = st, !.own = OwnedAfter(@, TRUE)])
       /\ UNCHANGED budget

\* Step 1: claim, refresh, and build. A window holds it.
ClockBuilds(b) ==
    /\ St(b) = "scheduled" /\ ~Locked(b) /\ book[b].range # None
    /\ Start(b) <= now + Lead /\ End(b) > now /\ ~HeldByWindow(b)
    /\ Provision(b, book[b].range, "provisioning")
    /\ UNCHANGED <<job, window, now>>

\* Step 2: unless a window holds its build while the session is on.
ClockActivates(b) ==
    /\ Start(b) <= now
    /\ ~(St(b) = "scheduled" /\ HeldByWindow(b) /\ End(b) > now)
    /\ Moves(b, "active") /\ UNCHANGED budget

\* Step 3c.
ClockLapses(b) == St(b) = "pending" /\ End(b) <= now /\ Moves(b, "cancelled") /\ UNCHANGED budget

-----------------------------------------------------------------------------
(* Releases and late builds: the row is loaded first.                      *)

Load(j, b, do) ==
    /\ job[j] = None
    /\ job' = [job EXCEPT ![j] = [do |-> do, b |-> b, own |-> book[b].own, range |-> book[b].range,
                                  heir |-> None, decided |-> FALSE]]
    /\ UNCHANGED <<book, range, by, window, now, budget>>

\* cancel_event, before its transition.
LoadCancel(j, b) == St(b) \in Sources("cancelled") /\ Load(j, b, "cancel")

\* Step 1b: under way with its range never built.
LoadBuild(j, b) ==
    /\ St(b) = "active" /\ book[b].range # None /\ End(b) > now
    /\ range[book[b].range] = "created" /\ ~HeldByWindow(b)
    /\ Load(j, b, "build")

\* Step 3.
LoadComplete(j, b) == St(b) = "active" /\ End(b) + Grace <= now /\ Load(j, b, "complete")

\* Faulty: only a completed booking's teardown is tried again.
RetriedCompleted(st) == st = "completed"

\* Step 3b: finished, and its range not torn down yet.
Retried(st) == st \in {"completed", "cancelled"}

LoadRetry(j, b) == Retried(St(b)) /\ book[b].own /\ book[b].range # None /\ Load(j, b, "retry")

\* Faulty: a later booking does not keep the range.
HeirsNone(b, r) == {}

\* release_range: the other holding bookings of the range.
Heirs(b, r) == {c \in Booking \ {b} : St(c) \in Holding /\ book[c].range = r}

\* transition (a guarded update: the row is locked, or it moved meanwhile and the job ends), then
\* the search for the heir that starts first.
Decide(j) ==
    /\ job[j] # None /\ ~job[j].decided /\ job[j].do # "build"
    /\ LET b == job[j].b
           to == IF job[j].do = "cancel" THEN "cancelled" ELSE "completed"
           heirs == Heirs(b, job[j].range)
       IN  /\ job[j].do # "retry" => ~Locked(b)
           /\ IF job[j].do # "retry" /\ St(b) \notin Sources(to)
                THEN job' = [job EXCEPT ![j] = None]
                ELSE \E h \in IF heirs = {} THEN {None} ELSE {c \in heirs : \A d \in heirs : Start(c) <= Start(d)} :
                        job' = [job EXCEPT ![j] = [@ EXCEPT !.heir = h, !.decided = TRUE]]
    /\ UNCHANGED <<book, range, by, window, now, budget>>

\* A teardown is refused: the build runs, nothing was built, or a window covers a cancelled one's.
Refuses(r, ended) == range[r] \in {"created", "building"} \/ (window /\ ~ended)

\* destroy_for_booking: dispatched, or already going or gone.
Settled(r, ended) == range[r] \in {"destroying", "destroyed"} \/ ~Refuses(r, ended)

\* release_range, the rest, and the commit. The transition's own transaction commits with it.
Commit(j) ==
    /\ job[j] # None /\ job[j].decided
    /\ LET b == job[j].b
           r == job[j].range
           st == CASE job[j].do = "cancel" -> "cancelled" [] job[j].do = "complete" -> "completed" [] OTHER -> St(b)
           releases == job[j].own /\ r # None
           ended == st = "completed"
           tears == releases /\ job[j].heir = None /\ range[r] \notin {"destroying", "destroyed"} /\ ~Refuses(r, ended)
           done == releases /\ (job[j].heir # None \/ Settled(r, ended))
       IN  /\ book' = [c \in Booking |->
                        IF c = b THEN [book[c] EXCEPT !.st = st, !.own = @ /\ ~done]
                        ELSE IF releases /\ c = job[j].heir THEN [book[c] EXCEPT !.own = TRUE] ELSE book[c]]
           /\ range' = IF tears THEN [range EXCEPT ![r] = "destroying"] ELSE range
           /\ by' = IF tears THEN [by EXCEPT ![r].torn = "clock"] ELSE by
    /\ job' = [job EXCEPT ![j] = None]
    /\ UNCHANGED <<window, now, budget>>

\* Step 1b, the rest: no claim guards it, so the booking may have ended since; the build is accepted
\* as any other.
CommitBuild(j) ==
    /\ job[j] # None /\ job[j].do = "build"
    /\ LET b == job[j].b IN ~Locked(b) /\ Provision(b, job[j].range, St(b))
    /\ job' = [job EXCEPT ![j] = None]
    /\ UNCHANGED <<window, now>>

-----------------------------------------------------------------------------
(* Ranges, windows and time.                                               *)

RangeMoves(r, from, to) ==
    /\ range[r] \in from
    /\ range' = [range EXCEPT ![r] = to]
    /\ UNCHANGED <<book, job, window, now>>

\* A worker takes the build.
BuildStarts(r) == ~window /\ RangeMoves(r, {"parked"}, "building") /\ UNCHANGED <<by, budget>>

BuildEnds(r) ==
    /\ UNCHANGED by
    /\ \/ RangeMoves(r, {"building"}, "up") /\ UNCHANGED budget
       \/ RangeMoves(r, {"building"}, "failed") /\ Spend("failed")

\* A build whose operation cannot be read inside a window: the range is put back.
BuildPutBack(r) == window /\ RangeMoves(r, {"parked"}, "created") /\ UNCHANGED by /\ Spend("putBack")

TeardownEnds(r) ==
    /\ UNCHANGED by
    /\ \/ RangeMoves(r, {"destroying"}, "destroyed") /\ UNCHANGED budget
       \/ RangeMoves(r, {"destroying"}, "failed") /\ Spend("failed")

\* POST /ranges/{id}/provision.
PersonBuilds(r) == ~window /\ RangeMoves(r, {"created", "failed"}, "parked") /\ by' = BuiltBy(r, "person") /\ Spend("person")

\* DELETE or destroy by a person.
PersonDestroys(r) ==
    /\ ~window /\ RangeMoves(r, {"up", "failed", "parked"}, "destroying")
    /\ by' = [by EXCEPT ![r].torn = "person"] /\ Spend("person")

WindowOpens == ~window /\ window' = TRUE /\ Spend("window") /\ UNCHANGED <<book, range, by, job, now>>
WindowCloses == window /\ window' = FALSE /\ UNCHANGED <<book, range, by, job, now, budget>>

Time == now < LastTick /\ now' = now + 1 /\ UNCHANGED <<book, range, by, job, window, budget>>

-----------------------------------------------------------------------------
ClockLoads(j, b) == LoadBuild(j, b) \/ LoadComplete(j, b) \/ LoadRetry(j, b)

ClockSteps(b) ==
    \/ \E r \in Ranges : ClockCreatesRange(b, r)
    \/ ClockBuilds(b) \/ ClockActivates(b) \/ ClockLapses(b)

People(b) ==
    \/ \E r \in Ranges \cup {None}, s \in Starts[b] : CreateEvent(b, r, s) \/ UpdateEvent(b, r, s)
    \/ \E s \in Starts[b] : Approve(b, s)
    \/ Reject(b) \/ PersonMoves(b)
    \/ \E j \in Request : LoadCancel(j, b)

Worker(r) == BuildStarts(r) \/ BuildEnds(r) \/ TeardownEnds(r)

Next ==
    \/ \E b \in Booking : People(b) \/ ClockSteps(b) \/ \E j \in Clock : ClockLoads(j, b)
    \/ \E j \in Clock \cup Request : Decide(j) \/ Commit(j) \/ CommitBuild(j)
    \/ \E r \in Ranges : Worker(r) \/ BuildPutBack(r) \/ PersonBuilds(r) \/ PersonDestroys(r)
    \/ WindowOpens \/ WindowCloses \/ Time

Spec == Init /\ [][Next]_vars

\* The clock's tick visits every due booking; workers finish; windows end; time passes.
Fairness ==
    /\ \A b \in Booking : WF_vars(ClockSteps(b)) /\ \A j \in Clock : SF_vars(LoadComplete(j, b)) /\ SF_vars(LoadRetry(j, b))
    /\ \A j \in Clock \cup Request : WF_vars(Decide(j) \/ Commit(j) \/ CommitBuild(j))
    /\ \A r \in Ranges : WF_vars(Worker(r))
    /\ WF_vars(WindowCloses) /\ WF_vars(Time)

FairSpec == Spec /\ Fairness

-----------------------------------------------------------------------------
(* Properties.                                                             *)

\* Two bookings never hold one range at times too close to tear it down and build it between them,
\* however they were booked, edited, proposed or approved (service.conflicts).
NoDoubleBooking ==
    \A b, c \in Booking :
        b # c /\ {St(b), St(c)} \subseteq Holding /\ book[b].range # None /\ book[b].range = book[c].range
            => Start(b) - Lead >= End(c) + Grace \/ Start(c) - Lead >= End(b) + Grace

\* A booking the clock will come back to.
Owns(b, r) == book[b].own /\ book[b].range = r /\ St(b) \notin {"none", "rejected"}

\* A range the clock built stands only while some booking that the clock will release owns it (or
\* will, once a handover commits), through cancellations, completions and handovers that race with
\* the build; unless an owning booking was edited (release_range, before_build).
BuildsAreOwned ==
    Spent("moved") \/
    \A r \in Ranges :
        by[r] = [built |-> "clock", torn |-> "nobody"] /\ range[r] \in {"parked", "building", "up", "failed"}
            => \E b \in Booking : Owns(b, r)

\* The scheduler only tears down a range it built, never one that was already up when its booking
\* began (ScheduledEvent.auto_provisioned).
OnlyItsOwnTornDown == \A r \in Ranges : by[r].torn = "clock" => by[r].built = "clock"

\* As long as no booking that owns a build is edited.
OwnTornDownUnlessMoved == Spent("moved") \/ OnlyItsOwnTornDown

\* The scheduler never tears down a range that another live booking holds, unless one was booked,
\* or one that owns a build was moved there, while a teardown was being committed (release_range's
\* heir).
BookedRangesStand ==
    [][\A r \in Ranges : by[r].torn # "clock" /\ by'[r].torn = "clock" =>
            Spent("raced") \/ Spent("moved")
            \/ Cardinality({b \in Booking : book[b].range = r /\ St(b) \in Holding /\ St(b)' \in Holding}) = 0]_vars

\* What a finished booking built is released in the end, past builds, windows and handovers, unless
\* the worker put the range back to created (step 3b).
ReleasedInTheEnd ==
    \A b \in Booking :
        (book[b].own /\ book[b].range # None /\ St(b) \in {"completed", "cancelled"}) ~> (~book[b].own \/ Spent("putBack"))
=============================================================================
