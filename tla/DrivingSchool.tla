---------------------------- MODULE DrivingSchool ----------------------------
(***************************************************************************)
(* The office as a whole: vehicles, schools, courses, enrolments, bookings,*)
(* people and payments, changed by concurrent handlers, and what must hold *)
(* between them.                                                           *)
(***************************************************************************)
EXTENDS Booking, Staff

Requests ==
  FleetRequests \cup SchoolRequests \cup CourseRequests \cup SeatRequests
  \cup BookingRequests \cup PeopleRequests \cup PaymentRequests

\* A handler at work is not an idle one.
ASSUME HandlerAssumption ==
  None \notin [req : Requests, step : {"repair"}, saw : Null(Schools)]

\* What the tables hold at first is what the office could have left there.
ASSUME OpeningsAssumption ==
  \A o \in Openings :
    /\ o.schools \in [Schools -> SchoolRow]
    /\ o.vehicles \in [Vehicles -> VehicleRow]
    /\ o.pending \subseteq Requests
    /\ \A v \in Vehicles : LET row == o.vehicles[v]
                          IN /\ row.state = "free" => row.school = None
                             /\ row.state = "live" =>
                                  row.school \in Schools /\ o.schools[row.school].state # "free"
    /\ \A s \in Schools : LET fleetOf == {v \in Vehicles : /\ o.vehicles[v].state = "live"
                                                           /\ o.vehicles[v].school = s}
                         IN IF fleetOf = {} THEN o.schools[s].vehicle = None
                                            ELSE o.schools[s].vehicle \in fleetOf
    /\ o.staff \in [Instructors -> StaffRow] /\ o.pupils \in [Students -> PupilRow]
    /\ o.defaultOsk \in [Managers -> Null(Schools)]
    /\ o.courses \in [Courses -> CourseRow]
    /\ o.bookings \in [Bookings -> BookingRow]
    /\ o.seats \in [Courses \X Students -> Null(SeatStates)]
    /\ \A k \in Courses : o.courses[k].state # "live" =>
         /\ \A p \in Students : o.seats[<<k, p>>] = None
         /\ \A b \in Bookings : o.bookings[b].course = k => o.bookings[b].state = "free"
    /\ \A b \in Bookings :
         LET row == o.bookings[b]
         IN row.kind = "LESSON" /\ row.state # "free" =>
              /\ row.course \in Courses /\ row.vehicle \in Vehicles
              /\ row.state = "live" =>
                   /\ o.vehicles[row.vehicle].state = "live"
                   /\ o.courses[row.course].type \in o.vehicles[row.vehicle].types
    /\ o.payments \in [Payments -> Null(PaymentRow)]
    /\ \A p \in Students : o.pupils[p].archivedIn # None => ~o.pupils[p].active
    /\ \A d \in Payments :
         LET k == o.payments[d].course
         IN o.payments[d] # None /\ o.payments[d].state = "PENDING" =>
              /\ o.courses[k].school \in Schools
              /\ \E p \in Students :
                   /\ o.seats[<<k, p>>] # None
                   /\ o.pupils[p].active \/ o.pupils[p].archivedIn \notin {None, o.courses[k].school}

Step(c) ==
  FleetStep(c) \/ SchoolStep(c) \/ CourseStep(c) \/ BookingStep(c) \/ PeopleStep(c)

Next == Tick \/ \E c \in Clients : Step(c) \/ Fail(c)
Spec == Init /\ [][Next]_vars

(* ---------------------------------------------------------- the fleet ---- *)
\* The default vehicle of a school is one of its vehicles and not a retired
\* one, whoever retires, adds and chooses vehicles at the same time.
DefaultVehicleIsLive ==
  \A s \in Schools : schools[s].vehicle # None => schools[s].vehicle \in FleetOf(s)

\* A school with vehicles has a default one: the first to be added becomes it
\* and it cannot be retired while there are others.
FleetHasDefault ==
  \A s \in Schools : FleetOf(s) # {} => schools[s].vehicle # None

\* No lesson still to come is booked on a retired vehicle, although the
\* deletion counts lessons without seeing those about to be inserted.
RetiredVehicleIsFree ==
  \A b \in Bookings :
    bookings[b].kind = "LESSON" /\ Upcoming(bookings[b]) =>
      Live(vehicles[bookings[b].vehicle])

\* The vehicle of a lesson supports the category of its course, although the
\* vehicle's categories, the course's category and the lesson are changed by
\* different handlers.
LessonsSuitVehicles ==
  \A b \in Bookings :
    bookings[b].kind = "LESSON" /\ Upcoming(bookings[b]) =>
      courses[bookings[b].course].type \in vehicles[bookings[b].vehicle].types

\* A lesson to come keeps the vehicle it was booked on: in service, and of the right
\* category, whatever becomes of vehicle and course.
LessonsKeepVehicle == RetiredVehicleIsFree /\ LessonsSuitVehicles

(* ------------------------------------------------------------ courses ---- *)
\* A deleted course has no students, lessons or events: neither those the
\* deletion counted, nor those inserted by whoever checked the course before.
DeletedCoursesAreEmpty ==
  \A k \in Courses : courses[k].state = "gone" => Enrolled(k) = {} /\ Classes(k) = {}

\* What a lesson was booked under is what its course still is: the teacher it
\* was booked with was qualified for this category, the vehicle chosen for it.
CoursesKeepCategory ==
  [][\A k \in Courses :
       (\E b \in Bookings : bookings[b].kind = "LESSON" /\ bookings[b].course = k
                            /\ bookings[b].state # "free")
       => courses'[k].type = courses[k].type /\ courses'[k].kind = courses[k].kind]_vars

(* ------------------------------------------------------------- people ---- *)
\* A manager moves nobody out of a school of another manager, even if the
\* person is moved by somebody else while the request is handled.
MovesFromOwnSchool ==
  [][\A c \in Clients :
       /\ MoveInstructorWrite(c) /\ Req(c).actor # Admin =>
            schools[staff[Req(c).instructor].school].owner = Req(c).actor
       /\ MoveStudentWrite(c) /\ Req(c).actor # Admin =>
            schools[pupils[Req(c).student].school].owner = Req(c).actor]_vars

\* An open payment of a living school can be settled by its owner through a
\* student of the course, wherever the student has moved; an archive made at the
\* same time does not strand it.  Only the archive of another school may, which
\* asks for the debts there, even if a move brings the student back later.
PaymentsSettleable ==
  \A d \in Payments :
    /\ payments[d] # None
    /\ payments[d].state = "PENDING"
    /\ Live(schools[courses[payments[d].course].school])
    => \E p \in Enrolled(payments[d].course) :
         \/ MaySettle(schools[courses[payments[d].course].school].owner, p, d)
         \/ pupils[p].archivedIn \notin {None, courses[payments[d].course].school}

\* A school that has been deleted is not left as the default of its manager by
\* a deletion that ran to its end.
DeletionMovesDefault ==
  [][\A c \in Clients :
       /\ ReconcileStored(c) \/ ReconcileRepair(c)
       /\ Req(c).op = "deleteSchool"
       /\ handlers'[c] = None
       => defaultOsk'[Req(c).actor] # Req(c).school]_vars

(* ---------------------------------- what the code and its docs disagree on *)
\* docs/ONE_SCHOOL_MEMBERSHIP.md: an instructor with future lessons, events or
\* courses in the present school is not moved.
NoObligationsLeftBehind ==
  [][\A c \in Clients :
       MoveInstructorWrite(c) => ~TiesInstructor(Req(c).instructor, Saw(c).current)]_vars

\* instructor/commands.ts: the refusal "Instructor school changed; retry the
\* operation" means that the school did change.
ChangedMeansChanged ==
  \A c \in Clients :
    At(c, "moveInstructor", "check") /\ SchoolChanged(c) =>
      staff[Req(c).instructor].school # Saw(c).link

(* ------------------------------------- preflights, lists and the writes -- *)
LessonForms == [actor : Managers \cup {Admin}, course : Courses, student : Students,
                instructor : Instructors, vehicle : Vehicles, at : {LastTick}]
EventForms == [actor : Managers \cup {Admin}, kind : {"DRIVE", "THEORY"},
               course : Null(Courses), instructor : Instructors, vehicle : Null(Vehicles)]
OwnForms == [actor : Students, course : Courses, student : Students,
             instructor : Instructors, at : {LastTick}]

\* A form the write would take is never refused by the preflight, for a lesson
\* and for an event.
PreflightNotStricter ==
  /\ \A r \in LessonForms :
       CanBook(r) /\ VehicleServes(r.vehicle, r.instructor, r.course) => LessonPreflight(r)
  /\ \A r \in EventForms : CanCreateEvent(r) => EventPreflight(r)

\* For a student's own booking preflight and booking say the same.
SelfBookPreflightAgrees ==
  \A r \in OwnForms :
    SelfBookPreflight(r) <=> CanBookOwn(r) /\ Candidates(r.instructor, r.course) # {}

\* A student and course offered for some chosen instructors can be booked with
\* one of them.
OfferedStudentsCanBeBooked ==
  \A m \in Managers, s \in Schools : \A chosen \in SUBSET Instructors :
    \A pair \in OfferedPairs(m, s, chosen) :
      \E r \in LessonForms :
        /\ r.actor = m /\ <<r.course, r.student>> = pair
        /\ r.instructor \in chosen
        /\ clock < LastTick => CanBook(r)

\* A vehicle offered for a course serves it with every instructor of the school.
OfferedVehiclesServe ==
  \A m \in Managers, k \in Courses : \A v \in OfferedVehicles(m, k) :
    \A i \in Instructors : staff[i].school = courses[k].school => VehicleServes(v, i, k)

\* What staff and students are told they can do is what the writes let them do.
FormsAgreeWithWrites ==
  /\ PreflightNotStricter /\ SelfBookPreflightAgrees
  /\ OfferedStudentsCanBeBooked /\ OfferedVehiclesServe
=============================================================================
