------------------------------ MODULE Schedule ------------------------------
(***************************************************************************)
(* The write side of the schedule: practice lessons, instructor events and *)
(* the seats students hold on events, as services/lesson and services/event*)
(* change them.  A client is one HTTP request handler at a time.  A handler*)
(* first reads outside any transaction (phase "received"), then runs its   *)
(* checks and its write in a SERIALIZABLE transaction                      *)
(* (runScheduleWriteTransaction), which sees the snapshot taken by Begin   *)
(* and takes effect at Commit.  Cancelling a lesson, deleting an event and *)
(* removing a student are plain READ COMMITTED statements.                 *)
(*                                                                         *)
(* Postgres is external.  A transaction records the predicate reads its    *)
(* checks made, the rows it will write and the claims those rows make.  It *)
(* must abort if a row it writes was changed since its snapshot, or if it  *)
(* and a transaction committed meanwhile each read what the other wrote.   *)
(* Postgres aborts in more cases, so every schedule it can commit is here. *)
(*                                                                         *)
(* Bodies carry instants: "11:00:30" is a legal end.  A tick is an instant *)
(* and Minute ticks make a minute.  The overlap queries and the lengths are*)
(* exact, working hours are compared in whole minutes, and packages count  *)
(* every lesson rounded to a minute.                                       *)
(***************************************************************************)
EXTENDS Integers, FiniteSets

CONSTANTS
  Clients,          \* concurrent request handlers
  Lessons, Events,  \* row ids (uuids) of lessons and of instructor_events
  Students, Instructors, Vehicles, Courses,
  None,             \* a null column or a missing row
  Keep,             \* a field left out of the body of an update
  Minute,           \* ticks in a minute
  Horizon,          \* last tick of the modelled day
  Moments,          \* bound: the ticks at which the clock is read
  Hours,            \* working window of each instructor
  PracticeMin, PracticeMax, TheoryMin, TheoryMax, FinalMin, \* school settings
  TotalMinutes,     \* package of a course, None when the kind has no limit
  SelfBookedWith,   \* instructors a student may choose in a course
  Requests,         \* the requests clients may submit
  MaxRequests,      \* bound: how many requests are submitted in a behaviour
  MaxAttempts       \* MAX_SERIALIZATION_ATTEMPTS

Ticks == 0..Horizon
Windows == {w \in [from : Ticks, to : Ticks] : w.from < w.to}
AllDay == [from |-> 0, to |-> Horizon]
Length(w) == w.to - w.from

\* instantToPolishDateTime(...).minutes and timeWindowFromDates drop the seconds.
MinuteOf(t) == t - (t % Minute)
TimeWindow(w) == [from |-> MinuteOf(w.from), to |-> MinuteOf(w.to)]
Whole(t) == t % Minute = 0
\* Math.round of a length in minutes
Minutes(w) == (2 * Length(w) + Minute) \div (2 * Minute)

\* startTime < other.endTime and endTime > other.startTime
Overlaps(v, w) == v.from < w.to /\ w.from < v.to
Within(v, w) == w.from <= v.from /\ v.to <= w.to

LessonRow == [status : {"SCHEDULED", "CANCELLED"}, course : Courses,
              student : Students, instructor : Instructors,
              vehicle : Vehicles, win : Windows]

\* Bodies of the requests; a field of an update may be left out.
Opt(S) == S \cup {Keep}
Null(S) == S \cup {None}
Types == {"DRIVE", "THEORY"}
Statuses == {"PLANNED", "DONE", "NO_SHOW", "CANCELLED"}

EventRow == [active : BOOLEAN, status : Statuses, type : Types,
             instructor : Instructors, vehicle : Null(Vehicles), win : Windows,
             capacity : Null(Nat)]

BookRequests ==
  [op : {"bookLesson"}, lesson : Lessons, course : Courses, student : Students,
   instructor : Instructors, vehicle : Vehicles, win : Windows]
BookOwnRequests ==
  [op : {"bookOwnLesson"}, lesson : Lessons, course : Courses, student : Students,
   instructor : Instructors, remaining : BOOLEAN, win : Windows]
UpdateLessonRequests ==
  [op : {"updateLesson"}, lesson : Lessons, instructor : Opt(Instructors),
   vehicle : Opt(Vehicles), win : Opt(Windows), expected : BOOLEAN]
CancelRequests == [op : {"cancelLesson"}, lesson : Lessons]
CreateRequests ==
  [op : {"createEvent"}, event : Events, type : Types, instructor : Instructors,
   vehicle : Null(Vehicles), win : Windows, capacity : Null(Nat)]
UpdateEventRequests ==
  [op : {"updateEvent"}, event : Events, type : Opt(Types), status : Opt(Statuses),
   instructor : Opt(Instructors), vehicle : Opt(Null(Vehicles)),
   win : Opt(Windows), capacity : Opt(Null(Nat))]
BulkRequests == [op : {"bulkStatus"}, events : SUBSET Events, status : Statuses]
DeleteRequests == [op : {"deleteEvent"}, event : Events]
SeatRequests ==
  [op : {"assignStudents", "replaceStudents"}, event : Events, students : SUBSET Students]
RemoveRequests == [op : {"removeStudent"}, event : Events, student : Students]
AllRequests ==
  BookRequests \cup BookOwnRequests \cup UpdateLessonRequests \cup CancelRequests
  \cup CreateRequests \cup UpdateEventRequests \cup BulkRequests \cup DeleteRequests
  \cup SeatRequests \cup RemoveRequests
Seats == Events \X Students

ASSUME HorizonAssumption == Horizon \in Nat \ {0} /\ Moments \subseteq Ticks
ASSUME MinuteAssumption == Minute \in Nat \ {0}
ASSUME NoneAssumption ==
  /\ None \notin LessonRow \cup EventRow \cup AllRequests
  /\ None \notin Lessons \cup Events \cup Students \cup Vehicles
ASSUME RequestAssumption == Requests \subseteq AllRequests
ASSUME PackageAssumption == TotalMinutes \in [Courses -> Null(Nat)]
\* Finite tables, whose row ids are uuids: no two tables share one.
ASSUME RowAssumption ==
  /\ IsFiniteSet(Lessons) /\ IsFiniteSet(Students)
  /\ Lessons \cap Events = {} /\ Students \cap (Instructors \cup Vehicles) = {}
\* Settings are in minutes, working hours in HH:mm; a day off is an empty window.
ASSUME SettingsAssumption ==
  {PracticeMin, PracticeMax, TheoryMin, TheoryMax, FinalMin} \subseteq {n \in Nat : Whole(n)}
ASSUME HoursAssumption ==
  /\ Hours \in [Instructors -> [from : Ticks, to : Ticks]]
  /\ \A i \in Instructors :
       Hours[i].from <= Hours[i].to /\ Whole(Hours[i].from) /\ Whole(Hours[i].to)
ASSUME BoundAssumption == MaxRequests \in Nat /\ MaxAttempts \in Nat \ {0}

VARIABLES
  lessons,   \* the lessons table
  events,    \* the instructor_events table
  seats,     \* the event_participants table
  now,       \* the wall clock
  req,       \* the request each client handles, None when idle
  phase,     \* how far its handler has come
  prep,      \* what the handler (or its user) read before the transaction
  attempt,   \* the attempt runScheduleWriteTransaction is making
  tx,        \* the open transaction of each client
  since,     \* footprints committed since that transaction's snapshot
  issued,    \* requests submitted so far
  touched    \* history: events updated after their creation

handler == <<req, phase, prep, attempt, tx>>
vars == <<lessons, events, seats, now, handler, since, issued, touched>>

(***************************************************************************)
(* What a row occupies.  Every overlap check of the code asks one question *)
(* of the tables: is this instructor, vehicle or student held in a window? *)
(***************************************************************************)
Exists(row) == row # None
LiveLesson(row) == Exists(row) /\ row.status # "CANCELLED"
LiveEvent(row) == Exists(row) /\ row.active /\ row.status # "CANCELLED"

LessonHolds(row) ==
  IF LiveLesson(row) THEN {row.student, row.instructor, row.vehicle} ELSE {}

EventHolds(row) ==
  IF LiveEvent(row)
  THEN {row.instructor} \cup (IF row.type = "DRIVE" THEN {row.vehicle} ELSE {})
  ELSE {}

Participants(e) == {s \in Students : <<e, s>> \in seats}
SeatHolds(e, row) == IF LiveEvent(row) THEN Participants(e) ELSE {}

\* assertStudentNoScheduleOverlap, vehicleHasBookingConflict and the other checks;
\* self is the row being changed, which the query excludes.
Busy(r, w, self) ==
  \/ \E l \in Lessons \ {self} :
       r \in LessonHolds(lessons[l]) /\ Overlaps(lessons[l].win, w)
  \/ \E e \in Events \ {self} :
       /\ r \in EventHolds(events[e]) \cup SeatHolds(e, events[e])
       /\ Overlaps(events[e].win, w)

AllFree(R, w, self) == \A r \in R : ~ Busy(r, w, self)

\* assertInstructorTimeWindowAvailable, its base window; the lessons and events
\* it subtracts are the instructor's own, which Busy already covers: two windows
\* that do not meet do not meet in whole minutes either.
ExactHours(i, w) == Within(w, Hours[i])  \* mutant: the seconds are not dropped
InHours(i, w) == Within(TimeWindow(w), Hours[i])

\* getCoursePracticePackageBalance: one element for each booked minute, of which a
\* window has no more than ticks.
CountsIn(row, c, s) == LiveLesson(row) /\ row.course = c /\ row.student = s
Booked(c, s, self) ==
  {b \in (Lessons \ {self}) \X Ticks :
     LET row == lessons[b[1]] IN
     CountsIn(row, c, s) /\ b[2] \in 1..Minutes(row.win)}
Remaining(c, s, self) == TotalMinutes[c] - Cardinality(Booked(c, s, self))
PackageAllows(c, s, w, self) ==
  TotalMinutes[c] # None => Minutes(w) \in 1..Remaining(c, s, self)

PracticeLength(w) == Length(w) \in PracticeMin..PracticeMax
EventLength(type, w) ==
  IF type = "THEORY" THEN Length(w) \in TheoryMin..TheoryMax ELSE PracticeLength(w)

CapacityFits(cap, n) == cap # None => n <= cap

(***************************************************************************)
(* Transactions.  reads and writes are sets of [res, win]: a predicate     *)
(* read of what holds res in win, or a row that holds res in win.  The     *)
(* package of a student in a course, the seats and the row of an event are *)
(* resources too, held all day.                                            *)
(***************************************************************************)
Claims(R, w) == [res : R, win : {w}]
PackageOf(c, s) == Claims({<<c, s>>}, AllDay)
SeatsOf(e) == Claims({e}, AllDay)
RowOf(e) == Claims({<<e>>}, AllDay)

NoRows == [k \in {} |-> None]
Idle == [reads |-> {}, writes |-> {}, lessons |-> NoRows, events |-> NoRows,
         add |-> {}, del |-> {}]
Rows(t) == DOMAIN t.lessons \cup DOMAIN t.events \cup t.add \cup t.del
Footprint(t) == [reads |-> t.reads, writes |-> t.writes, rows |-> Rows(t)]

Hits(R, W) == \E r \in R, w \in W : r.res = w.res /\ Overlaps(r.win, w.win)
Open(c) == phase[c] = "open"
IgnoresRows(c) ==  \* mutant: a concurrent change of the row is overwritten
  \E u \in since[c] : Hits(tx[c].reads, u.writes) /\ Hits(u.reads, tx[c].writes)
MustAbort(c) ==
  \E u \in since[c] :
    \/ u.rows \cap Rows(tx[c]) # {}
    \/ Hits(tx[c].reads, u.writes) /\ Hits(u.reads, tx[c].writes)

\* A footprint becomes visible to every transaction open at that moment.
Publish(f, c) ==
  since' = [d \in Clients |-> IF d # c /\ Open(d) THEN since[d] \cup {f}
                               ELSE IF d = c THEN {} ELSE since[d]]

-----------------------------------------------------------------------------
(* Handler steps shared by all operations. *)

To(c, p) == phase' = [phase EXCEPT ![c] = p]
Tables == <<lessons, events, seats, touched>>

\* The handler has answered: with a result, or with the error a check threw.
Answer(c) ==
  /\ req' = [req EXCEPT ![c] = None]
  /\ To(c, "idle")
  /\ prep' = [prep EXCEPT ![c] = None]
  /\ attempt' = [attempt EXCEPT ![c] = 0]
  /\ tx' = [tx EXCEPT ![c] = Idle]

Rejected(c) == Answer(c) /\ UNCHANGED <<Tables, now, since, issued>>

\* The reads outside the transaction passed; x is what the handler keeps of them.
Ready(c, x) ==
  /\ prep' = [prep EXCEPT ![c] = x]
  /\ To(c, "ready")
  /\ attempt' = [attempt EXCEPT ![c] = 1]
  /\ UNCHANGED <<req, tx, Tables, now, since, issued>>

\* The checks inside the transaction passed on its snapshot; it will write t.
Begin(c, t) ==
  /\ tx' = [tx EXCEPT ![c] = t]
  /\ since' = [since EXCEPT ![c] = {}]
  /\ To(c, "open")
  /\ UNCHANGED <<req, prep, attempt, Tables, now, issued>>

InTx(c, op) == phase[c] = "ready" /\ req[c].op = op
Received(c, ops) == phase[c] = "received" /\ req[c].op \in ops

\* Operations that read the schedule before their transaction or statement.
ReadsFirst == {"bookLesson", "bookOwnLesson", "cancelLesson", "updateEvent",
               "bulkStatus", "deleteEvent", "assignStudents",
               "replaceStudents", "removeStudent"}

\* A row id is drawn by the database: no row and no running handler has it.
FreshId(q) ==
  /\ q.op \in {"bookLesson", "bookOwnLesson"} =>
       /\ lessons[q.lesson] = None
       /\ \A d \in Clients : req[d] # None /\ req[d].op \in {"bookLesson", "bookOwnLesson"}
                               => req[d].lesson # q.lesson
  /\ q.op = "createEvent" =>
       /\ events[q.event] = None
       /\ \A d \in Clients : req[d] # None /\ req[d].op = "createEvent"
                               => req[d].event # q.event

\* A user sends a request.  One who edits a lesson has its row on the screen.
Submit(c, q) ==
  /\ phase[c] = "idle" /\ issued < MaxRequests
  /\ FreshId(q)
  /\ req' = [req EXCEPT ![c] = q]
  /\ To(c, IF q.op \in ReadsFirst THEN "received" ELSE "ready")
  /\ prep' = [prep EXCEPT ![c] = IF q.op = "updateLesson" THEN lessons[q.lesson] ELSE None]
  /\ attempt' = [attempt EXCEPT ![c] = 1]
  /\ issued' = issued + 1
  /\ UNCHANGED <<tx, Tables, now, since>>

-----------------------------------------------------------------------------
(* Lessons. *)

Given(field, current) == IF field = Keep THEN current ELSE field

\* assertLessonSchedulingWindowAvailable
LessonWindowAvailable(row, self) ==
  /\ AllFree({row.student, row.instructor}, row.win, self)
  /\ PackageAllows(row.course, row.student, row.win, self)
  /\ InHours(row.instructor, row.win)

\* What that check and the vehicle check read, and a transaction writing one lesson.
ReadsNoPackage(row) == Claims({row.student, row.instructor}, row.win)  \* mutant
LessonReads(row) ==
  Claims({row.student, row.instructor}, row.win)
    \cup (IF TotalMinutes[row.course] # None THEN PackageOf(row.course, row.student) ELSE {})
NoVehicleReads(row) == {}  \* mutant: the vehicle is checked outside the transaction
VehicleReads(row) == Claims({row.vehicle}, row.win)
NoClaims(l, row, reads) ==  \* mutant: the new row is in no other check's way
  [Idle EXCEPT !.reads = reads, !.lessons = [k \in {l} |-> row]]
LessonTx(l, row, reads) ==
  [Idle EXCEPT !.reads = reads,
               !.writes = Claims(LessonHolds(row), row.win)
                            \cup PackageOf(row.course, row.student),
               !.lessons = [k \in {l} |-> row]]

NewLesson(q, v) ==
  [status |-> "SCHEDULED", course |-> q.course, student |-> q.student,
   instructor |-> q.instructor, vehicle |-> v, win |-> q.win]

\* bookLesson, bookOwnLesson up to the transaction.
ReadBooking(c) ==
  /\ Received(c, {"bookLesson", "bookOwnLesson"})
  /\ LET q == req[c] IN
     IF /\ q.win.from >= now
        /\ q.op = "bookOwnLesson" => /\ TotalMinutes[q.course] # None
                                     /\ q.instructor \in SelfBookedWith[q.course]
     THEN Ready(c, None)
     ELSE Rejected(c)

\* A manager names the vehicle.
BookLesson(c) ==
  /\ InTx(c, "bookLesson")
  /\ LET q == req[c]
         row == NewLesson(q, q.vehicle)
     IN IF /\ PracticeLength(q.win)
           /\ LessonWindowAvailable(row, None)
           /\ ~ Busy(q.vehicle, q.win, None)
        THEN Begin(c, LessonTx(q.lesson, row, LessonReads(row) \cup VehicleReads(row)))
        ELSE Rejected(c)

\* A student may take what is left of the package as one short last lesson.
SelfBookingLength(q) ==
  IF q.remaining
  THEN /\ Length(q.win) = Minute * Remaining(q.course, q.student, None)
       /\ Length(q.win) \in FinalMin..(PracticeMin - 1)
  ELSE PracticeLength(q.win)

\* A student gets any free vehicle: the order they are tried in is left open.
BookOwnLesson(c) ==
  /\ InTx(c, "bookOwnLesson")
  /\ LET q == req[c]
         free == {v \in Vehicles : ~ Busy(v, q.win, None)}
     IN \/ /\ SelfBookingLength(q)
           /\ \E v \in free :
                LET row == NewLesson(q, v) IN
                /\ LessonWindowAvailable(row, None)
                /\ Begin(c, LessonTx(q.lesson, row, LessonReads(row) \cup VehicleReads(row)))
        \/ /\ \/ ~ SelfBookingLength(q)
              \/ ~ \E v \in free : LessonWindowAvailable(NewLesson(q, v), None)
           /\ Rejected(c)

\* expectedLessonState: the row the user saw is still the row.
SameButTime(seen, row) ==  \* mutant: the times are not compared
  Exists(seen) /\ seen.instructor = row.instructor /\ seen.vehicle = row.vehicle
SameLesson(seen, row) ==
  /\ Exists(seen)
  /\ seen.instructor = row.instructor /\ seen.vehicle = row.vehicle /\ seen.win = row.win

Editable(row) == Exists(row) /\ row.status = "SCHEDULED" /\ row.win.to > now
NotStarted(row) == row.status = "SCHEDULED" /\ row.win.from > now

Moved(old, new) == new.win # old.win \/ new.instructor # old.instructor
UnmergedVehicle(q, old) ==  \* mutant: an omitted vehicleId becomes null
  [old EXCEPT !.instructor = Given(q.instructor, old.instructor),
              !.vehicle = q.vehicle, !.win = Given(q.win, old.win)]
MergedLesson(q, old) ==
  [old EXCEPT !.instructor = Given(q.instructor, old.instructor),
              !.vehicle = Given(q.vehicle, old.vehicle),
              !.win = Given(q.win, old.win)]

UpdateLessonAllowed(q, seen, old, new) ==
  /\ q.instructor # Keep => q.expected
  /\ q.expected => SameLesson(seen, old)
  /\ Moved(old, new) => /\ NotStarted(old) /\ NotStarted(new)
                        /\ LessonWindowAvailable(new, q.lesson)
  /\ new.win # old.win => PracticeLength(new.win)
  /\ ~ Busy(new.vehicle, new.win, q.lesson)

\* The whole of updateLesson runs inside the transaction.
UpdateLesson(c) ==
  /\ InTx(c, "updateLesson")
  /\ LET q == req[c]
         old == lessons[q.lesson]
         new == MergedLesson(q, old)
         reads == VehicleReads(new) \cup (IF Moved(old, new) THEN LessonReads(new) ELSE {})
     IN IF Editable(old) /\ new # old /\ UpdateLessonAllowed(q, prep[c], old, new)
        THEN Begin(c, LessonTx(q.lesson, new, reads))
        ELSE Rejected(c)

\* cancelLesson, cancelOwnLesson: a read, then one conditional UPDATE.
Cancellable(row, time) == Exists(row) /\ row.status = "SCHEDULED" /\ row.win.from > time

ReadLessonToCancel(c) ==
  /\ Received(c, {"cancelLesson"})
  /\ IF Cancellable(lessons[req[c].lesson], now) THEN Ready(c, [time |-> now]) ELSE Rejected(c)

Statement(rows) == [reads |-> {}, writes |-> {}, rows |-> rows]

CancelLesson(c) ==
  /\ InTx(c, "cancelLesson")
  /\ LET l == req[c].lesson IN
     IF Cancellable(lessons[l], prep[c].time)
     THEN /\ lessons' = [lessons EXCEPT ![l].status = "CANCELLED"]
          /\ Publish(Statement({l}), c)
          /\ Answer(c)
          /\ UNCHANGED <<events, seats, touched, now, issued>>
     ELSE Rejected(c)

-----------------------------------------------------------------------------
(* Events. *)

\* assertInstructorEventWindowAvailable without the participants.
EventWindowAvailable(row, self) ==
  ~ Busy(row.instructor, row.win, self) /\ InHours(row.instructor, row.win)

EventTx(puts, reads) ==
  [Idle EXCEPT !.reads = reads,
               !.writes = UNION {Claims(EventHolds(puts[e]) \cup SeatHolds(e, puts[e]), puts[e].win)
                                   \cup RowOf(e) : e \in DOMAIN puts},
               !.events = puts]

\* resolvedVehicleId: only a drive has a vehicle.
EventVehicle(type, v) == IF type = "DRIVE" THEN v ELSE None
Drive(row) == row.type = "DRIVE"

NewEvent(q) ==
  [active |-> TRUE, status |-> "PLANNED", type |-> q.type, instructor |-> q.instructor,
   vehicle |-> EventVehicle(q.type, q.vehicle), win |-> q.win, capacity |-> q.capacity]
CreateAllowed(row) ==
  /\ Drive(row) => row.vehicle # None
  /\ EventLength(row.type, row.win)
  /\ EventWindowAvailable(row, None)
  /\ Drive(row) => ~ Busy(row.vehicle, row.win, None)

CreateEvent(c) ==
  /\ InTx(c, "createEvent")
  /\ LET q == req[c]
         row == NewEvent(q)
     IN IF CreateAllowed(row)
        THEN Begin(c, EventTx([k \in {q.event} |-> row], Claims(EventHolds(row), row.win)))
        ELSE Rejected(c)

MergedEvent(q, cur) ==
  LET type == Given(q.type, cur.type) IN
  [cur EXCEPT !.type = type,
              !.status = Given(q.status, cur.status),
              !.instructor = Given(q.instructor, cur.instructor),
              !.win = Given(q.win, cur.win),
              !.vehicle = EventVehicle(type, Given(q.vehicle, cur.vehicle)),
              !.capacity = Given(q.capacity, cur.capacity)]

\* The event row every other operation loads before its transaction or statement.
ReadEvent(c) ==
  /\ Received(c, {"updateEvent", "deleteEvent", "assignStudents",
                  "replaceStudents", "removeStudent"})
  /\ LET q == req[c]
         row == events[q.event]
     IN IF /\ Exists(row) /\ row.active
           /\ q.op \in {"assignStudents", "replaceStudents", "removeStudent"}
                => row.type = "THEORY"
           /\ q.op = "updateEvent" =>
                LET new == MergedEvent(q, row) IN Drive(new) => new.vehicle # None
        THEN Ready(c, row)
        ELSE Rejected(c)

\* What has to be checked again when a patch turns old into new.
Replanned(old, new) ==
  Drive(new) /\ (Moved(old, new) \/ new.vehicle # old.vehicle \/ new.type # old.type)
UpdateEventAllowed(q, cur, new) ==
  LET e == q.event IN
  /\ (new.win # cur.win \/ q.type # Keep) => EventLength(new.type, new.win)
  /\ Moved(cur, new) => EventWindowAvailable(new, e) /\ AllFree(Participants(e), new.win, e)
  /\ Replanned(cur, new) => ~ Busy(new.vehicle, new.win, e)
  /\ CapacityFits(new.capacity, Cardinality(Participants(e)))

\* updateInstructorEvent compares with, and merges into, the row it read before the
\* transaction (cur); only isActive keeps the value the table has.
UpdateEvent(c) ==
  /\ InTx(c, "updateEvent")
  /\ LET q == req[c]
         e == q.event
         cur == prep[c]
         new == MergedEvent(q, cur)
         moved == Moved(cur, new)
         put == [new EXCEPT !.active = events[e].active]
         reads == Claims(IF moved THEN {new.instructor} \cup Participants(e) ELSE {}, new.win)
                    \cup Claims(IF Replanned(cur, new) THEN {new.vehicle} ELSE {}, new.win)
                    \cup (IF moved \/ new.capacity # None THEN SeatsOf(e) ELSE {})
     IN IF UpdateEventAllowed(q, cur, new)
        THEN Begin(c, EventTx([k \in {e} |-> put], reads))
        ELSE Rejected(c)

\* bulkUpdateEventStatus: the ids are filtered outside, the statuses set inside.
ReadEvents(c) ==
  /\ Received(c, {"bulkStatus"})
  /\ LET active == {e \in req[c].events : Exists(events[e]) /\ events[e].active}
     IN IF active # {} THEN Ready(c, [allowed |-> active]) ELSE Rejected(c)

BulkStatus(c) ==
  /\ InTx(c, "bulkStatus")
  /\ Begin(c, EventTx([e \in prep[c].allowed |-> [events[e] EXCEPT !.status = req[c].status]], {}))

DeleteEvent(c) ==
  /\ InTx(c, "deleteEvent")
  /\ LET e == req[c].event IN
     /\ events' = [events EXCEPT ![e].active = FALSE]
     /\ Publish(Statement({e}), c)
     /\ Answer(c)
     /\ UNCHANGED <<lessons, seats, touched, now, issued>>

\* What a change of seats reads: the participants of e, the schedules of those who
\* are added in the window they were checked for, and, through the foreign key, e.
NoStudentReads(e, add, win) == SeatsOf(e) \cup RowOf(e)          \* mutant
NoSeatReads(e, add, win) == Claims(add, win) \cup RowOf(e)      \* mutant
SeatReads(e, add, win) == SeatsOf(e) \cup RowOf(e) \cup Claims(add, win)

SeatTx(e, add, del, win) ==
  [Idle EXCEPT !.reads = SeatReads(e, add, win),
               !.writes = SeatsOf(e) \cup
                  (IF LiveEvent(events[e]) THEN Claims(add, events[e].win) ELSE {}),
               !.add = {e} \X add,
               !.del = {e} \X del]

\* Window and capacity are those of the row read before the transaction.
AssignStudents(c) ==
  /\ InTx(c, "assignStudents")
  /\ LET e == req[c].event
         new == req[c].students \ Participants(e)
     IN IF /\ CapacityFits(prep[c].capacity, Cardinality(Participants(e) \cup new))
           /\ AllFree(new, prep[c].win, e)
        THEN Begin(c, SeatTx(e, new, {}, prep[c].win))
        ELSE Rejected(c)

\* Students who keep their seat are checked as well.
ReplaceStudents(c) ==
  /\ InTx(c, "replaceStudents")
  /\ LET e == req[c].event
         target == req[c].students
     IN IF /\ CapacityFits(prep[c].capacity, Cardinality(target))
           /\ AllFree(target, prep[c].win, e)
        THEN Begin(c, SeatTx(e, target \ Participants(e), Participants(e) \ target, prep[c].win))
        ELSE Rejected(c)

RemoveStudent(c) ==
  /\ InTx(c, "removeStudent")
  /\ LET seat == <<req[c].event, req[c].student>> IN
     IF seat \in seats
     THEN /\ seats' = seats \ {seat}
          /\ Publish(Statement({seat}), c)
          /\ Answer(c)
          /\ UNCHANGED <<lessons, events, touched, now, issued>>
     ELSE Rejected(c)

-----------------------------------------------------------------------------
(* The end of a transaction, and time. *)

Apply(table, puts) ==
  [k \in DOMAIN table |-> IF k \in DOMAIN puts THEN puts[k] ELSE table[k]]

Commit(c) ==
  /\ Open(c) /\ ~ MustAbort(c)
  /\ lessons' = Apply(lessons, tx[c].lessons)
  /\ events' = Apply(events, tx[c].events)
  /\ seats' = (seats \ tx[c].del) \cup tx[c].add
  /\ touched' = touched \cup {e \in DOMAIN tx[c].events : Exists(events[e])}
  /\ Publish(Footprint(tx[c]), c)
  /\ Answer(c)
  /\ UNCHANGED <<now, issued>>

\* P2034: Postgres refused to serialize, or broke a deadlock, with another transaction.
Contended(c) == since[c] # {} \/ \E d \in Clients \ {c} : Open(d)

ForgetAttempt(c) == attempt' = attempt  \* mutant
CountAttempt(c) == attempt' = [attempt EXCEPT ![c] = @ + 1]

SerializationConflict(c) ==
  /\ Open(c) /\ Contended(c)
  /\ since' = [since EXCEPT ![c] = {}]
  /\ IF attempt[c] < MaxAttempts
     THEN /\ CountAttempt(c)
          /\ tx' = [tx EXCEPT ![c] = Idle]
          /\ To(c, "ready")
          /\ UNCHANGED <<req, prep>>
     ELSE Answer(c)
  /\ UNCHANGED <<Tables, now, issued>>

\* Any other error, and a crash of the server: Postgres rolls back.
Fail(c) ==
  /\ phase[c] # "idle"
  /\ since' = [since EXCEPT ![c] = {}]
  /\ Answer(c)
  /\ UNCHANGED <<Tables, now, issued>>

Tick ==
  /\ \E t \in Moments : t > now /\ now' = t
  /\ UNCHANGED <<Tables, handler, since, issued>>

Init ==
  /\ lessons = [l \in Lessons |-> None]
  /\ events = [e \in Events |-> None]
  /\ seats = {}
  /\ now = 0
  /\ req = [c \in Clients |-> None]
  /\ phase = [c \in Clients |-> "idle"]
  /\ prep = [c \in Clients |-> None]
  /\ attempt = [c \in Clients |-> 0]
  /\ tx = [c \in Clients |-> Idle]
  /\ since = [c \in Clients |-> {}]
  /\ issued = 0
  /\ touched = {}

LessonStep(c) ==
  \/ ReadBooking(c) \/ BookLesson(c) \/ BookOwnLesson(c)
  \/ UpdateLesson(c) \/ ReadLessonToCancel(c) \/ CancelLesson(c)
EventStep(c) ==
  \/ CreateEvent(c) \/ ReadEvent(c) \/ UpdateEvent(c)
  \/ ReadEvents(c) \/ BulkStatus(c) \/ DeleteEvent(c)
  \/ AssignStudents(c) \/ ReplaceStudents(c) \/ RemoveStudent(c)
Step(c) == LessonStep(c) \/ EventStep(c) \/ Commit(c) \/ SerializationConflict(c)

Next ==
  \/ Tick
  \/ \E c \in Clients :
       \/ \E q \in Requests : Submit(c, q)
       \/ Step(c)
       \/ Fail(c)

Spec == Init /\ [][Next]_vars
\* Node runs every handler and Postgres ends every transaction.
FairSpec == Spec /\ \A c \in Clients : WF_vars(Step(c))

-----------------------------------------------------------------------------
(* Properties. *)

TxType(t) ==
  /\ \A l \in DOMAIN t.lessons : l \in Lessons /\ t.lessons[l] \in LessonRow
  /\ \A e \in DOMAIN t.events : e \in Events /\ t.events[e] \in EventRow
  /\ t.add \subseteq Seats /\ t.del \subseteq Seats

\* The tables hold rows of the schema and a transaction writes nothing else.
TypeOK ==
  /\ lessons \in [Lessons -> LessonRow \cup {None}]
  /\ events \in [Events -> EventRow \cup {None}]
  /\ seats \subseteq Seats
  /\ now \in Ticks
  /\ req \in [Clients -> Requests \cup {None}]
  /\ phase \in [Clients -> {"idle", "received", "ready", "open"}]
  /\ attempt \in [Clients -> 0..MaxAttempts]
  /\ \A c \in Clients : TxType(tx[c])
  /\ issued \in 0..MaxRequests
  /\ touched \subseteq Events

\* What a handler that is past its first reads relies on: the rows those reads found.
PrepType(q, x) ==
  /\ q.op = "updateEvent" => x \in EventRow /\ events[q.event] \in EventRow
  /\ q.op = "bulkStatus" => /\ x.allowed \subseteq Events
                            /\ \A e \in x.allowed : events[e] \in EventRow
  /\ q.op = "deleteEvent" => events[q.event] \in EventRow

\* TypeOK with what makes it inductive.
TypeInv ==
  /\ TypeOK
  /\ prep = [c \in Clients |-> prep[c]]
  /\ tx = [c \in Clients |-> tx[c]]
  /\ since = [c \in Clients |-> since[c]]
  /\ \A c \in Clients :
       /\ phase[c] # "idle" => req[c] \in Requests
       /\ phase[c] \in {"ready", "open"} => PrepType(req[c], prep[c])

\* No instructor, vehicle or student is in two lessons at once, whatever bookings,
\* own bookings, moves and cancellations interleave (lib/lesson-scheduling.ts,
\* lesson/scheduleConflicts.ts, lesson/vehicleAvailability.ts).
LessonsNeverOverlap ==
  \A k, l \in Lessons :
    k # l /\ LessonHolds(lessons[k]) \cap LessonHolds(lessons[l]) # {}
      => ~ Overlaps(lessons[k].win, lessons[l].win)

\* Why they do not: until it is bound to abort, the transaction that will put r in
\* row l has read, for every resource r takes that l does not already hold there, a
\* window which no other lesson holds; and it claims that window in turn.
Keeps(l, r, res) == res \in LessonHolds(lessons[l]) /\ lessons[l].win = r.win
FreeOfLessons(l, r, res) ==
  \A m \in Lessons \ {l} :
    res \in LessonHolds(lessons[m]) => ~ Overlaps(lessons[m].win, r.win)
Protected(c) ==
  \A l \in DOMAIN tx[c].lessons :
    LET r == tx[c].lessons[l] IN
    /\ DOMAIN tx[c].lessons = {l}
    /\ \A res \in LessonHolds(r) :
         LET claim == [res |-> res, win |-> r.win] IN
         /\ claim \in tx[c].writes
         /\ \/ MustAbort(c)
            \/ Keeps(l, r, res)
            \/ claim \in tx[c].reads /\ FreeOfLessons(l, r, res)
OpenWritesProtected == \A c \in Clients : Open(c) => Protected(c)

\* The same for everything on the schedule, seats included, as long as an event
\* was never updated after it was created (event/writeConflicts.ts, event/conflicts.ts).
Holds(x) ==
  IF x \in Lessons THEN LessonHolds(lessons[x])
  ELSE EventHolds(events[x]) \cup SeatHolds(x, events[x])
Win(x) == IF x \in Lessons THEN lessons[x].win ELSE events[x].win
NoClash(S) ==
  \A x, y \in S : x # y /\ Holds(x) \cap Holds(y) # {} => ~ Overlaps(Win(x), Win(y))

UneditedNeverOverlap == NoClash(Lessons \cup (Events \ touched))

\* A student's uncancelled lessons in a course, each rounded to a minute as the code
\* counts them, never exceed its package, though the sum is computed from rows other
\* handlers are adding to and moving.
PackageWithinLimit ==
  \A c \in Courses, s \in Students :
    TotalMinutes[c] # None => Cardinality(Booked(c, s, None)) <= TotalMinutes[c]

\* Concurrent assignments and replacements never overfill an event that was not
\* updated: its limit is read before the transaction, the participants inside it.
FitsCapacity(e) ==
  Exists(events[e]) /\ events[e].capacity # None
    => Cardinality(Participants(e)) <= events[e].capacity
UneditedFitCapacity == \A e \in Events \ touched : FitsCapacity(e)

\* What was never patched keeps both promises, whatever the handlers around it do.
UneditedEventsHold == UneditedNeverOverlap /\ UneditedFitCapacity

\* A cancelled lesson keeps its row as it was: a move that raced the cancellation
\* neither revives nor moves it.
CancelledIsFinal ==
  [][\A l \in Lessons :
       Exists(lessons[l]) /\ lessons[l].status = "CANCELLED" => lessons'[l] = lessons[l]]_vars

\* The instructor of a lesson changes only by a request whose user saw the lesson
\* exactly as it is when the change lands (expectedLessonState in updateLesson).
InstructorChangeIsInformed ==
  [][\A l \in Lessons :
       Exists(lessons[l]) /\ lessons'[l].instructor # lessons[l].instructor =>
         \E c \in Clients : /\ req[c] # None /\ req'[c] = None
                            /\ req[c].op = "updateLesson" /\ req[c].lesson = l
                            /\ prep[c].instructor = lessons[l].instructor
                            /\ prep[c].vehicle = lessons[l].vehicle
                            /\ prep[c].win = lessons[l].win]_vars

\* Every request is answered: retries end, and no handler waits for another.
EveryRequestAnswered == \A c \in Clients : phase[c] # "idle" ~> phase[c] = "idle"

\* Lessons implement the abstract reservations: each commit that writes a lesson is
\* one owner changing what it holds, and every other step changes nothing.
LessonsHeld == UNION {[owner : {l}, res : LessonHolds(lessons[l]), win : {lessons[l].win}]
                        : l \in {k \in Lessons : Exists(lessons[k])}}
Promise == INSTANCE Reservations WITH Owners <- Lessons, held <- LessonsHeld
LessonsAreReservations == Promise!Spec

\* lib/lesson-scheduling.ts: a student cannot be in two places at once, in a lesson
\* that is not cancelled or on a seat of an instructor's block.
StudentInOnePlace ==
  \A x, y \in Lessons \cup Events :
    x # y /\ Holds(x) \cap Holds(y) \cap Students # {} => ~ Overlaps(Win(x), Win(y))

\* context/events-schedule-api.md: an event never has more participants than capacity.
ParticipantsFitCapacity == \A e \in Events : FitsCapacity(e)
=============================================================================
