------------------------------- MODULE Booking -------------------------------
(***************************************************************************)
(* Who may book what with whom: the eligibility checks around lessons      *)
(* (services/lesson) and instructor events (services/event), their         *)
(* preflights (services/schedule-validation) and the lists a form is filled*)
(* from.  Whether the time itself is free is the subject of Schedule and is*)
(* left out here: a clash is one of the refusals Fail stands for.          *)
(***************************************************************************)
EXTENDS Fleet, Courses

BookingRequests ==
  [op : {"bookLesson"}, actor : Managers \cup {Admin}, booking : Bookings,
   course : Courses, student : Students, instructor : Instructors,
   vehicle : Vehicles, at : Ticks]
  \cup [op : {"bookOwnLesson"}, actor : Students, booking : Bookings,
        course : Courses, student : Students, instructor : Instructors, at : Ticks]
  \cup [op : {"createEvent"}, actor : Managers \cup {Admin}, booking : Bookings,
        kind : {"DRIVE", "THEORY"}, course : Null(Courses),
        instructor : Instructors, vehicle : Null(Vehicles), at : Ticks]
  \cup [op : {"cancelBooking"}, actor : Managers \cup {Admin}, booking : Bookings]
  \cup [op : {"checkLesson"}, actor : Managers \cup {Admin}, booking : Bookings,
        course : Courses, student : Students, instructor : Instructors,
        vehicle : Vehicles, at : Ticks]

(* ----------------------------------------------------------- eligibility -- *)
\* assertLessonTimeIsBookable; the booking window is longer than the clock runs.
TimeBookable(r) == r.at > clock

\* assertActorCanBookLessonForCourse
MayBookAt(actor, s) == actor = Admin \/ (actor \in Managers /\ Owns(actor, s))

\* assertInstructorCanBookCourse
MayTeach(i, k, substitute) ==
  /\ staff[i].school = courses[k].school
  /\ substitute \/ courses[k].instructor \in {None, i}
  /\ Qualified(i, courses[k].type)

\* assertStudentParticipatesInCourse
Participates(k, p, requireActive) ==
  IF requireActive THEN seats[<<k, p>>] = "ACTIVE" ELSE seats[<<k, p>>] # None

\* What a manager's booking checks before its transaction.
CanBook(r) ==
  /\ Live(courses[r.course])
  /\ TimeBookable(r)
  /\ MayBookAt(r.actor, courses[r.course].school)
  /\ pupils[r.student].active
  /\ Participates(r.course, r.student, TRUE)
  /\ MayTeach(r.instructor, r.course, TRUE)

\* What a student's own booking checks.
CanBookOwn(r) ==
  /\ r.actor = r.student
  /\ Live(courses[r.course])
  /\ courses[r.course].kind # "THEORY"
  /\ TimeBookable(r)
  /\ pupils[r.student].active
  /\ Participates(r.course, r.student, TRUE)
  /\ MayTeach(r.instructor, r.course, FALSE)

\* Vehicles whose unavailability is over, repaired before any is looked at.
Repairs(s) == {v \in FleetOf(s) : Expired(vehicles[v], UtcDay)}

\* validateVehicleForInstructor; it repairs by the Polish calendar.
DrivenBy(i, v) ==
  Live(vehicles[v]) /\ staff[i].school = vehicles[v].school

\* assertVehicleAvailableForBooking, without the clash of times
VehicleServes(v, i, k) ==
  /\ v \in FleetOf(courses[k].school)
  /\ vehicles[v].available \/ v \in Repairs(courses[k].school)
  /\ courses[k].type \in vehicles[v].types
  /\ DrivenBy(i, v)

\* findAvailableVehicleIdForStudentBooking: the first candidate that is free,
\* the default vehicle before the others.
Candidates(i, k) == {v \in Vehicles : VehicleServes(v, i, k)}

(* --------------------------------------------------------------- lessons -- *)
\* The handler remembers the course it checked.
Checked(k) ==
  [kind |-> courses[k].kind, type |-> courses[k].type, instructor |-> courses[k].instructor]

BookLessonBegin(c) ==
  \E r \in pending :
    /\ r.op = "bookLesson"
    /\ CanBook(r)
    /\ Receive(c, r, "begin", [course |-> Checked(r.course)])

BookOwnLessonBegin(c) ==
  \E r \in pending :
    /\ r.op = "bookOwnLesson"
    /\ CanBookOwn(r)
    /\ Receive(c, r, "begin", [course |-> Checked(r.course)])

BooksLesson(c, step) == At(c, "bookLesson", step) \/ At(c, "bookOwnLesson", step)

\* The snapshot: the course has to be the one that was checked, the vehicle
\* has to serve it.  rows are the vehicles the transaction writes or references.
BookLessonCheck(c) ==
  LET r == Req(c)
      k == r.course
      asked == IF r.op = "bookLesson" THEN {r.vehicle} ELSE Vehicles
  IN /\ BooksLesson(c, "begin")
     /\ Live(courses[k])
     /\ Checked(k) = Saw(c).course
     /\ \E v \in asked \cap Candidates(r.instructor, k) :
          Look(c, "commit",
               [course |-> Saw(c).course, vehicle |-> v, row |-> courses[k],
                repairs |-> Repairs(courses[k].school),
                cars |-> [w \in Repairs(courses[k].school) \cup {v} |-> vehicles[w]]])

\* The inserted lesson references the course and the vehicle: a change of one
\* of them since the snapshot is a serialization failure.
BookLessonStale(c) ==
  \/ courses[Req(c).course] # Saw(c).row
  \/ \E w \in DOMAIN Saw(c).cars : vehicles[w] # Saw(c).cars[w]

BookLessonCommit(c) ==
  LET r == Req(c)
  IN /\ BooksLesson(c, "commit")
     /\ GuardCourse(c, r.course)
     /\ Free(c, {Profile(r.student)} \cup DOMAIN Saw(c).cars)
     /\ ~BookLessonStale(c)
     /\ bookings[r.booking].state = "free"
     /\ bookings' = [bookings EXCEPT ![r.booking] =
          [state |-> "live", kind |-> "LESSON", course |-> r.course,
           instructor |-> r.instructor, student |-> r.student,
           vehicle |-> Saw(c).vehicle, school |-> courses[r.course].school, at |-> r.at]]
     /\ vehicles' = [v \in Vehicles |->
          IF v \in Saw(c).repairs THEN Repaired(vehicles[v]) ELSE vehicles[v]]
     /\ Finish(c)
     /\ UNCHANGED <<schools, defaultOsk, courses, seats, payments, people>>

BookLessonRetry(c) ==
  /\ BooksLesson(c, "commit")
  /\ BookLessonStale(c)
  /\ Look(c, "begin", [course |-> Saw(c).course])

\* A lesson's status, or an event's isActive.
CancelBooking(c) ==
  \E r \in pending :
    /\ r.op = "cancelBooking"
    /\ Idle(c)
    /\ bookings[r.booking].state = "live"
    /\ bookings[r.booking].at > clock
    /\ MayBookAt(r.actor, bookings[r.booking].school)
    /\ pending' = pending \ {r}
    /\ bookings' = [bookings EXCEPT ![r.booking].state = "gone"]
    /\ UNCHANGED <<fleet, courses, seats, payments, people, locked, handlers, clock>>

(* ---------------------------------------------------------------- events -- *)
\* assertCourseEligibleForInstructorEvent
EligibleCourse(i, k) ==
  /\ Live(courses[k])
  /\ staff[i].school = courses[k].school
  /\ Qualified(i, courses[k].type)

\* resolveInstructorEventSchoolId
SchoolResolved(r) ==
  LET s == staff[r.instructor].school
  IN /\ WorksAt(r.instructor, s)
     /\ r.course # None => Live(courses[r.course]) /\ courses[r.course].school = s
     /\ r.vehicle # None => Live(vehicles[r.vehicle]) /\ vehicles[r.vehicle].school = s

\* assertActorCanManageAvailability
MayManageTime(actor, i) == actor = Admin \/ Owns(actor, staff[i].school)

\* validateVehicleForInstructor with requireAvailable
Drivable(i, v) ==
  DrivenBy(i, v) /\ (vehicles[v].available \/ Expired(vehicles[v], PolishDay))

CanCreateEvent(r) ==
  /\ MayManageTime(r.actor, r.instructor)
  /\ staff[r.instructor].active
  /\ SchoolResolved(r)
  /\ r.course # None => EligibleCourse(r.instructor, r.course)
  /\ r.kind = "DRIVE" => r.vehicle # None /\ Drivable(r.instructor, r.vehicle)

\* The vehicle of a drive is repaired at once if its unavailability is over.
CreateEventBegin(c) ==
  \E r \in pending :
    /\ r.op = "createEvent"
    /\ CanCreateEvent(r)
    /\ Idle(c)
    /\ pending' = pending \ {r}
    /\ handlers' = [handlers EXCEPT ![c] =
         [req |-> r, step |-> "insert", saw |-> staff[r.instructor].school]]
    /\ IF r.kind = "DRIVE" /\ Expired(vehicles[r.vehicle], PolishDay)
       THEN /\ Free(c, {r.vehicle})
            /\ vehicles' = [vehicles EXCEPT ![r.vehicle] = Repaired(@)]
       ELSE UNCHANGED vehicles
    /\ UNCHANGED <<schools, defaultOsk, teaching, people, locked, clock>>

\* All that was checked was read before the transaction: a row that changed
\* since makes Postgres refuse the first attempt, but the next inserts, unless
\* the course is gone.
CreateEventInsert(c) ==
  LET r == Req(c)
      car == IF r.kind = "DRIVE" THEN r.vehicle ELSE None
  IN /\ At(c, "createEvent", "insert")
     /\ GuardCourse(c, r.course)
     /\ Free(c, {car, Saw(c)})
     /\ bookings[r.booking].state = "free"
     /\ bookings' = [bookings EXCEPT ![r.booking] =
          [state |-> "live", kind |-> r.kind, course |-> r.course,
           instructor |-> r.instructor, student |-> None, vehicle |-> car,
           school |-> Saw(c), at |-> r.at]]
     /\ Finish(c)
     /\ UNCHANGED <<fleet, courses, seats, payments, people>>

(* ------------------------------------------------------------ preflights -- *)
\* checkLessonCreateAvailability, its eligibility part
NoRefresh(r) ==   \* mutant
  CanBook(r) /\ VehicleServes(r.vehicle, r.instructor, r.course)
  /\ vehicles[r.vehicle].available
LessonPreflight(r) ==
  /\ Live(courses[r.course])
  /\ MayBookAt(r.actor, courses[r.course].school)
  /\ TimeBookable(r)
  /\ pupils[r.student].active
  /\ Participates(r.course, r.student, FALSE)
  /\ MayTeach(r.instructor, r.course, TRUE)
  /\ VehicleServes(r.vehicle, r.instructor, r.course)

\* The preflight repairs the fleet it looks at, with one conditional update.
CheckLesson(c) ==
  \E r \in pending :
    /\ r.op = "checkLesson"
    /\ Idle(c)
    /\ Live(courses[r.course])
    /\ MayBookAt(r.actor, courses[r.course].school)
    /\ pending' = pending \ {r}
    /\ LET repairs == Repairs(courses[r.course].school)
       IN /\ Free(c, repairs)
          /\ vehicles' = [v \in Vehicles |->
               IF v \in repairs THEN Repaired(vehicles[v]) ELSE vehicles[v]]
    /\ UNCHANGED <<schools, defaultOsk, teaching, people, locked, handlers, clock>>

\* checkLessonSelfBookAvailability
AnyPlace(r) ==   \* mutant
  /\ r.actor = r.student
  /\ Live(courses[r.course])
  /\ courses[r.course].kind # "THEORY"
  /\ TimeBookable(r)
  /\ pupils[r.student].active
  /\ Participates(r.course, r.student, FALSE)
  /\ MayTeach(r.instructor, r.course, FALSE)
  /\ Candidates(r.instructor, r.course) # {}
SelfBookPreflight(r) ==
  /\ r.actor = r.student
  /\ Live(courses[r.course])
  /\ courses[r.course].kind # "THEORY"
  /\ TimeBookable(r)
  /\ pupils[r.student].active
  /\ Participates(r.course, r.student, TRUE)
  /\ MayTeach(r.instructor, r.course, FALSE)
  /\ Candidates(r.instructor, r.course) # {}

\* checkEventCreateAvailability: the course matters to a theory event only.
EventPreflight(r) ==
  /\ MayManageTime(r.actor, r.instructor)
  /\ staff[r.instructor].active
  /\ SchoolResolved(r)
  /\ r.kind = "THEORY" /\ r.course # None => EligibleCourse(r.instructor, r.course)
  /\ r.kind = "DRIVE" /\ r.vehicle # None => Drivable(r.instructor, r.vehicle)

(* ----------------------------------------------------------------- lists -- *)
\* getLessonBookingOptions: students of the school with a place in a practical
\* course of a category one of the chosen instructors teaches.
AllSeats(actor, s, chosen) ==   \* mutant
  {x \in Courses \X Students :
     /\ MayBookAt(actor, s)
     /\ \A i \in chosen : staff[i].school = s /\ staff[i].active
     /\ Live(courses[x[1]]) /\ courses[x[1]].school = s
     /\ courses[x[1]].type \in UNION {staff[i].types : i \in chosen}
     /\ pupils[x[2]].active /\ seats[x] # None}
OfferedPairs(actor, s, chosen) ==
  IF MayBookAt(actor, s) /\ \A i \in chosen : staff[i].school = s /\ staff[i].active
  THEN {x \in Courses \X Students :
          /\ Live(courses[x[1]]) /\ courses[x[1]].school = s
          /\ courses[x[1]].kind = "PRACTICE"
          /\ courses[x[1]].type \in UNION {staff[i].types : i \in chosen}
          /\ pupils[x[2]].active /\ pupils[x[2]].school = s
          /\ seats[x] = "ACTIVE"}
  ELSE {}

\* listVehiclesBySchoolForUser for a course, after the repair
PolishList(m, k) ==   \* mutant
  {v \in FleetOf(courses[k].school) :
     /\ Live(courses[k]) /\ Owns(m, courses[k].school)
     /\ courses[k].type \in vehicles[v].types
     /\ vehicles[v].available \/ Expired(vehicles[v], PolishDay)}
OfferedVehicles(m, k) ==
  LET s == courses[k].school
  IN IF Live(courses[k]) /\ Owns(m, s)
     THEN {v \in FleetOf(s) : /\ courses[k].type \in vehicles[v].types
                              /\ vehicles[v].available \/ Expired(vehicles[v], UtcDay)}
     ELSE {}

BookingStep(c) ==
  \/ BookLessonBegin(c) \/ BookOwnLessonBegin(c) \/ BookLessonCheck(c)
  \/ BookLessonCommit(c) \/ BookLessonRetry(c)
  \/ CancelBooking(c)
  \/ CreateEventBegin(c) \/ CreateEventInsert(c)
  \/ CheckLesson(c)
=============================================================================
