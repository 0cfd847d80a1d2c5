---------------------------- MODULE CourseProofs ----------------------------
(***************************************************************************)
(* A deleted course is empty, and a course keeps its category while it has *)
(* lessons, for every number of handlers, courses, students and bookings.  *)
(* Three things meet in the argument: the lock a deletion holds while it   *)
(* counts, the trigger that refuses new rows for a course that is gone, and*)
(* the snapshot a change of the course is compared with when it is written.*)
(***************************************************************************)
EXTENDS FleetProofs

Watched == {"deleteCourse", "setSeat", "patchCourse"}

(* ------------------------------------------------ the inductive invariant *)
Shaped(row) ==
  /\ row = [state |-> row.state, kind |-> row.kind, course |-> row.course,
            instructor |-> row.instructor, student |-> row.student,
            vehicle |-> row.vehicle, school |-> row.school, at |-> row.at]
  /\ row.at \in Ticks

TeachingTyped ==
  /\ courses \in [Courses -> CourseRow]
  /\ bookings = [b \in Bookings |-> bookings[b]]
  /\ seats = [x \in Courses \X Students |-> seats[x]]
  /\ \A b \in Bookings : Shaped(bookings[b])

Empty(k) == Enrolled(k) = {} /\ Classes(k) = {}

\* Students, lessons and events belong to courses that exist.
OnlyLiveUsed == \A k \in Courses : ~Live(courses[k]) => Empty(k)

\* Who deletes a course holds it, and what was found empty still is.
Emptying(c) ==
  ~Idle(c) /\ Req(c).op = "deleteCourse" =>
    /\ handlers[c].step \in {"count", "write"} => locked[Req(c).course] = c
    /\ handlers[c].step = "write" => Empty(Req(c).course)

\* Who changes a place has found it, and places are never given back.
Seating(c) ==
  At(c, "setSeat", "write") => seats[<<Req(c).course, Req(c).student>>] # None

\* What a patch writes differs from what it read in kind and category only if
\* it is structural, and never in whether the course exists and in its school.
Patching(c) ==
  At(c, "patchCourse", "write") =>
    /\ Saw(c).new \in CourseRow
    /\ Saw(c).new.state = Saw(c).old.state /\ Saw(c).new.school = Saw(c).old.school
    /\ ~Saw(c).structural =>
         Saw(c).new.type = Saw(c).old.type /\ Saw(c).new.kind = Saw(c).old.kind

Teaches(c) == Emptying(c) /\ Seating(c) /\ Patching(c)

CourseInv ==
  /\ TeachingTyped
  /\ OnlyLiveUsed
  /\ \A c \in Clients : Teaches(c)

(* --------------------------------------------------------------- requests *)
LEMMA CourseShapes ==
  ASSUME NEW r \in Requests
  PROVE  /\ r.op = "createCourse" =>
              /\ r.course \in Courses /\ r.school \in Schools /\ r.type \in Types
              /\ r.kind \in {"PRACTICE", "THEORY"} /\ r.capacity \in Null(Nat)
              /\ r.instructor \in Null(Instructors)
         /\ r.op = "patchCourse" =>
              /\ r.course \in Courses /\ r.type \in Opt(Types)
              /\ r.kind \in Opt({"PRACTICE", "THEORY"}) /\ r.capacity \in Opt(Null(Nat))
              /\ r.instructor \in Opt(Null(Instructors))
         /\ r.op = "deleteCourse" => r.course \in Courses
         /\ r.op \in {"enrol", "setSeat"} => r.course \in Courses /\ r.student \in Students
         /\ r.op = "setSeat" => r.status \in SeatStates
         /\ r.op \in {"bookLesson", "bookOwnLesson"} =>
              /\ r.booking \in Bookings /\ r.course \in Courses /\ r.at \in Ticks
              /\ r.op = "bookLesson" => r.vehicle \in Vehicles
         /\ r.op = "createEvent" =>
              /\ r.booking \in Bookings /\ r.course \in Null(Courses) /\ r.at \in Ticks
              /\ r.kind \in {"DRIVE", "THEORY"} /\ r.vehicle \in Null(Vehicles)
         /\ r.op = "cancelBooking" => r.booking \in Bookings
<1>1. CASE r \in FleetRequests \cup SchoolRequests
  BY <1>1 DEF FleetRequests, SchoolRequests
<1>2. CASE r \in CourseRequests \cup SeatRequests
  BY <1>2 DEF CourseRequests, SeatRequests
<1>3. CASE r \in BookingRequests
  BY <1>3 DEF BookingRequests
<1>4. CASE r \in PeopleRequests \cup PaymentRequests
  BY <1>4 DEF PeopleRequests, PaymentRequests
<1>5. QED
  BY <1>1, <1>2, <1>3, <1>4 DEF Requests

(* ------------------------------------------------------- steps elsewhere -- *)
FleetOps == {"createVehicle", "updateVehicle", "vehicleStatus", "listVehicles",
             "deleteVehicle", "setDefaultVehicle"}
SchoolOps == {"createSchool", "deleteSchool", "setDefaultSchool", "updateSchool",
              "readDefault"}
CourseOps == {"createCourse", "patchCourse", "deleteCourse", "enrol", "setSeat"}
BookingOps == {"bookLesson", "bookOwnLesson", "createEvent"}
PeopleOps == {"qualify", "moveInstructor", "moveStudent", "archive"} \cup PaymentOps

\* The handler is left idle or busy with one of these.
Busy(c, ops) == handlers'[c] = None \/ handlers'[c].req.op \in ops
Off(c) == handlers'[c] = None \/ handlers'[c].req.op \notin Watched
Away(c, ops) == Busy(c, ops) /\ UNCHANGED <<courses, bookings, seats, clock>>

LEMMA BusyReceived ==
  ASSUME FleetInv, NEW c \in Clients, NEW r \in pending, NEW step, NEW saw,
         Receive(c, r, step, saw), NEW ops, r.op \in ops
  PROVE  Away(c, ops)
<1>1. handlers'[c] = [req |-> r, step |-> step, saw |-> saw]
  BY Received
<1>2. handlers'[c].req = r
  BY <1>1
<1>3. UNCHANGED <<courses, bookings, seats, clock>>
  BY DEF Receive, tables, teaching
<1>4. QED
  BY <1>2, <1>3 DEF Away, Busy

LEMMA BusyWentOn ==
  ASSUME FleetInv, NEW c \in Clients, ~Idle(c), NEW ops, Req(c).op \in ops,
         NEW step, NEW saw, Goto(c, step, saw)
  PROVE  Busy(c, ops)
<1>1. handlers'[c] = [req |-> Req(c), step |-> step, saw |-> saw]
  BY WentOn
<1>2. handlers'[c].req = Req(c)
  BY <1>1
<1>3. QED
  BY <1>2 DEF Busy

LEMMA BusyEnded ==
  ASSUME FleetInv, NEW c \in Clients, Finish(c), NEW ops
  PROVE  Busy(c, ops) /\ UNCHANGED clock
BY Ended DEF Busy, Finish

LEMMA OffEnded == ASSUME FleetInv, NEW c \in Clients, Finish(c) PROVE Off(c)
BY Ended DEF Off

LEMMA AwayFleet ==
  ASSUME FleetInv, NEW c \in Clients, FleetStep(c)
  PROVE  Away(c, FleetOps)
<1> USE DEF FleetOps, Away, tables, teaching
<1>1. CASE \/ CreateVehicleBegin(c) \/ UpdateVehicleBegin(c) \/ VehicleStatusBegin(c)
           \/ ListVehiclesBegin(c) \/ DeleteVehicleBegin(c) \/ SetDefaultVehicleBegin(c)
  BY <1>1, BusyReceived DEF CreateVehicleBegin, UpdateVehicleBegin, VehicleStatusBegin,
     ListVehiclesBegin, DeleteVehicleBegin, SetDefaultVehicleBegin
<1>2. CASE \/ CreateVehicleLock(c) \/ DeleteVehicleLock(c) \/ DeleteVehicleLockSchool(c)
           \/ SetDefaultVehicleLock(c)
  BY <1>2, BusyWentOn DEF CreateVehicleLock, DeleteVehicleLock, DeleteVehicleLockSchool,
     SetDefaultVehicleLock, Take, At, Req
<1>3. CASE \/ CreateVehicleCount(c) \/ UpdateVehicleCheck(c) \/ UpdateVehicleRetry(c)
           \/ DeleteVehicleCheck(c) \/ DeleteVehicleCount(c) \/ SetDefaultVehicleCheck(c)
  BY <1>3, BusyWentOn, BusyEnded DEF CreateVehicleCount, UpdateVehicleCheck, UpdateVehicleRetry,
     DeleteVehicleCheck, DeleteVehicleCount, SetDefaultVehicleCheck, Look, At, Req
<1>4. CASE \/ CreateVehicleWrite(c) \/ UpdateVehicleWrite(c) \/ VehicleStatusWrite(c)
           \/ ListVehiclesEnd(c) \/ DeleteVehicleWrite(c) \/ SetDefaultVehicleWrite(c)
  BY <1>4, BusyEnded DEF CreateVehicleWrite, UpdateVehicleWrite, VehicleStatusWrite,
     ListVehiclesEnd, DeleteVehicleWrite, SetDefaultVehicleWrite
<1>5. CASE ListVehiclesRepair(c)
  BY <1>5, BusyWentOn DEF ListVehiclesRepair, At, Req
<1>6. QED
  BY <1>1, <1>2, <1>3, <1>4, <1>5 DEF FleetStep

LEMMA AwaySchools ==
  ASSUME FleetInv, NEW c \in Clients, SchoolStep(c)
  PROVE  Away(c, SchoolOps)
<1> USE DEF SchoolOps, Away, tables, teaching
<1>1. CASE \/ CreateSchoolBegin(c) \/ SetDefaultSchoolBegin(c) \/ UpdateSchoolBegin(c)
           \/ DeleteSchoolBegin(c) \/ ReadDefaultBegin(c)
  BY <1>1, BusyReceived DEF CreateSchoolBegin, SetDefaultSchoolBegin, UpdateSchoolBegin,
     DeleteSchoolBegin, ReadDefaultBegin
<1>2. CASE DeleteSchoolRead(c) \/ DeleteSchoolMark(c) \/ DeleteSchoolWrite(c)
  BY <1>2, BusyWentOn DEF DeleteSchoolRead, DeleteSchoolMark, DeleteSchoolWrite, Look, Take,
     At, Req
<1>3. CASE \/ SetDefaultSchoolWrite(c) \/ UpdateSchoolWrite(c) \/ CreateSchoolWrite(c)
  BY <1>3, BusyWentOn, BusyEnded DEF SetDefaultSchoolWrite, UpdateSchoolWrite,
     CreateSchoolWrite, At, Req
<1>4. CASE ReconcileOwned(c) \/ ReconcileStored(c) \/ ReconcileRepair(c)
  BY <1>4, BusyWentOn, BusyEnded DEF ReconcileOwned, ReconcileStored, ReconcileRepair,
     Reconciles, Look, At, Req
<1>5. QED
  BY <1>1, <1>2, <1>3, <1>4 DEF SchoolStep

LEMMA AwayPeople ==
  ASSUME FleetInv, NEW c \in Clients, PeopleStep(c)
  PROVE  Away(c, PeopleOps)
<1> USE DEF PeopleOps, Away, tables, teaching
<1>1. CASE \/ QualifyBegin(c) \/ MoveInstructorBegin(c) \/ MoveStudentBegin(c)
           \/ ArchiveBegin(c) \/ PaymentBegin(c)
  BY <1>1, BusyReceived DEF QualifyBegin, MoveInstructorBegin, MoveStudentBegin, ArchiveBegin,
     PaymentBegin, PaymentOps
<1>2. CASE \/ QualifyLock(c) \/ MoveInstructorLock(c) \/ MoveStudentLock(c)
           \/ MoveStudentLockProfile(c) \/ ArchiveLock(c)
  BY <1>2, BusyWentOn DEF QualifyLock, MoveInstructorLock, MoveStudentLock,
     MoveStudentLockProfile, ArchiveLock, Take, At, Req
<1>3. CASE \/ QualifyCheck(c) \/ MoveInstructorObligations(c) \/ MoveInstructorCheck(c)
           \/ MoveStudentCheck(c) \/ ArchiveCheck(c)
  BY <1>3, BusyWentOn DEF QualifyCheck, MoveInstructorObligations, MoveInstructorCheck,
     MoveStudentCheck, ArchiveCheck, Look, At, Req
<1>4. CASE \/ QualifyWrite(c) \/ MoveInstructorWrite(c) \/ MoveStudentWrite(c)
           \/ ArchiveWrite(c) \/ PaymentWrite(c)
  BY <1>4, BusyEnded DEF QualifyWrite, MoveInstructorWrite, MoveStudentWrite, ArchiveWrite,
     PaymentWrite
<1>5. CASE PaymentLock(c) \/ PaymentResolve(c)
  BY <1>5, BusyWentOn DEF PaymentLock, PaymentResolve, PaymentOps, Take, Look, At, Req
<1>6. QED
  BY <1>1, <1>2, <1>3, <1>4, <1>5 DEF PeopleStep

LEMMA AwayBooking ==
  ASSUME FleetInv, NEW c \in Clients,
         \/ BookLessonBegin(c) \/ BookOwnLessonBegin(c) \/ BookLessonCheck(c)
         \/ BookLessonRetry(c) \/ CreateEventBegin(c) \/ CheckLesson(c)
  PROVE  Away(c, BookingOps)
<1> USE DEF BookingOps, Away, tables, teaching
<1>1. CASE BookLessonBegin(c) \/ BookOwnLessonBegin(c)
  BY <1>1, BusyReceived DEF BookLessonBegin, BookOwnLessonBegin
<1>2. CASE BookLessonCheck(c) \/ BookLessonRetry(c)
  BY <1>2, BusyWentOn DEF BookLessonCheck, BookLessonRetry, BooksLesson, Look, At, Req
<1>3. CASE CreateEventBegin(c)
  <2>1. PICK r \in pending :
          /\ r.op = "createEvent" /\ UNCHANGED <<teaching, clock>>
          /\ handlers' = [handlers EXCEPT ![c] =
               [req |-> r, step |-> "insert", saw |-> staff[r.instructor].school]]
    BY <1>3 DEF CreateEventBegin
  <2>2. handlers'[c] = [req |-> r, step |-> "insert", saw |-> staff[r.instructor].school]
    BY <2>1 DEF FleetInv, Typed
  <2>3. handlers'[c].req = r
    BY <2>2
  <2>4. QED
    BY <2>1, <2>3 DEF Busy
<1>4. CASE CheckLesson(c)
  BY <1>4 DEF CheckLesson, Idle, Busy
<1>5. QED
  BY <1>1, <1>2, <1>3, <1>4

LEMMA CourseElsewhere ==
  ASSUME FleetInv, NEW c \in Clients, CourseStep(c)
  PROVE  Busy(c, CourseOps) /\ UNCHANGED <<bookings, clock, vehicles>>
<1> USE DEF CourseOps, tables, fleet, teaching
<1>1. CASE \/ CreateCourseBegin(c) \/ PatchCourseBegin(c) \/ DeleteCourseBegin(c)
           \/ EnrolBegin(c) \/ SetSeatBegin(c)
  <2>1. \E r \in pending : \E step, saw : Receive(c, r, step, saw) /\ r.op \in CourseOps
    BY <1>1 DEF CreateCourseBegin, PatchCourseBegin, DeleteCourseBegin, EnrolBegin,
                SetSeatBegin
  <2>2. Busy(c, CourseOps)
    BY <2>1, BusyReceived DEF Away
  <2>3. QED
    BY <2>1, <2>2 DEF Receive
<1>2. CASE PatchCourseCheck(c) \/ PatchCourseRetry(c) \/ DeleteCourseCount(c)
  BY <1>2, BusyWentOn DEF PatchCourseCheck, PatchCourseRetry, DeleteCourseCount, Look, At, Req
<1>3. CASE DeleteCourseLock(c)
  BY <1>3, BusyWentOn DEF DeleteCourseLock, Take, At, Req
<1>4. CASE \/ CreateCourseWrite(c) \/ PatchCourseWrite(c) \/ DeleteCourseWrite(c)
           \/ EnrolWrite(c) \/ SetSeatWrite(c)
  BY <1>4, BusyEnded DEF CreateCourseWrite, PatchCourseWrite, DeleteCourseWrite, EnrolWrite,
                         SetSeatWrite
<1>5. QED
  BY <1>1, <1>2, <1>3, <1>4 DEF CourseStep

LEMMA AwayFail == ASSUME FleetInv, NEW c \in Clients, Fail(c) PROVE Away(c, {})
BY BusyEnded DEF Fail, Away, tables, teaching

(* ----------------------------------------------------- what others rely on *)
\* Places are kept, and no row appears in an empty course somebody else holds.
Modest(c) ==
  /\ \A x \in Courses \X Students : seats[x] # None => seats'[x] # None
  /\ \A k \in Courses : locked[k] \notin {None, c} /\ Empty(k) => Empty(k)'

LEMMA OthersTeach ==
  ASSUME FleetInv, CourseInv, NEW c \in Clients, Steady(c), Modest(c),
         NEW d \in Clients, d # c
  PROVE  Teaches(d)'
<1>1. /\ handlers'[d] = handlers[d] /\ Teaches(d)
      /\ \A x \in Rows : locked[x] = d => locked'[x] = d
  BY DEF CourseInv, Steady
<1>2. Courses \subseteq Rows /\ None # d
  BY OfficeAssumption DEF Rows
<1>3. Emptying(d)'
  <2>1. CASE Idle(d) \/ Req(d).op # "deleteCourse"
    BY <1>1, <2>1 DEF Emptying, Idle, Req
  <2>2. CASE ~Idle(d) /\ Req(d).op = "deleteCourse"
    <3>1. Req(d).course \in Courses /\ Emptying(d)
      BY <1>1, <2>2, OwnRequest, CourseShapes DEF Teaches
    <3>2. CASE handlers[d].step \notin {"count", "write"}
      BY <1>1, <2>2, <3>2 DEF Emptying, Idle, Req
    <3>3. CASE handlers[d].step \in {"count", "write"}
      <4>1. locked[Req(d).course] = d /\ locked'[Req(d).course] = d
        BY <1>1, <1>2, <2>2, <3>1, <3>3 DEF Emptying
      <4>2. PICK k \in Courses : k = Req(d).course /\ (Empty(k) => Empty(k)')
        BY <1>2, <3>1, <4>1 DEF Modest
      <4>3. Req(d)' = Req(d)
        BY <1>1 DEF Req
      <4>4. Empty(k) <=> Empty(Req(d).course)
        BY <4>2
      <4>5. QED
        BY <1>1, <2>2, <3>1, <4>1, <4>2, <4>3, <4>4 DEF Emptying, Idle
    <3>4. QED
      BY <3>2, <3>3
  <2>3. QED
    BY <2>1, <2>2
<1>4. Seating(d)'
  <2>1. CASE ~At(d, "setSeat", "write")
    BY <1>1, <2>1 DEF Seating, At, Idle, Req
  <2>2. CASE At(d, "setSeat", "write")
    <3>1. <<Req(d).course, Req(d).student>> \in Courses \X Students
      BY <2>2, OwnRequest, CourseShapes DEF At, Req
    <3>2. QED
      BY <1>1, <2>2, <3>1 DEF Teaches, Seating, Modest, At, Idle, Req
  <2>3. QED
    BY <2>1, <2>2
<1>5. Patching(d)'
  BY <1>1 DEF Teaches, Patching, At, Idle, Req, Saw
<1>6. QED
  BY <1>3, <1>4, <1>5 DEF Teaches

LEMMA OffTeaches == ASSUME NEW c \in Clients, Off(c) PROVE Teaches(c)'
BY DEF Off, Watched, Teaches, Emptying, Seating, Patching, At, Idle, Req

\* Nothing in courses, bookings and places has changed.
LEMMA Unmoved ==
  ASSUME FleetInv, CourseInv, NEW c \in Clients, Steady(c),
         UNCHANGED <<courses, bookings, seats>>, Teaches(c)'
  PROVE  CourseInv'
<1>1. TeachingTyped' /\ OnlyLiveUsed'
  BY DEF CourseInv, TeachingTyped, OnlyLiveUsed, Empty, Enrolled, Classes, Live
<1>2. Modest(c)
  BY DEF Modest, Empty, Enrolled, Classes
<1>3. \A d \in Clients : Teaches(d)'
  BY <1>2, OthersTeach
<1>4. QED
  BY <1>1, <1>3 DEF CourseInv

LEMMA AwayKeeps ==
  ASSUME FleetInv, CourseInv, NEW c \in Clients, Steady(c),
         NEW ops, Away(c, ops), ops \cap Watched = {}
  PROVE  CourseInv'
<1>1. Off(c)
  BY DEF Away, Busy, Off
<1>2. QED
  BY <1>1, Unmoved, OffTeaches DEF Away

\* A write that ends its handler.
LEMMA LastWrite ==
  ASSUME FleetInv, CourseInv, NEW c \in Clients, Steady(c), Off(c), Modest(c),
         TeachingTyped', OnlyLiveUsed'
  PROVE  CourseInv'
BY OthersTeach, OffTeaches DEF CourseInv

(* ------------------------------------------------------------- the writes *)
LEMMA CreatingCourse ==
  ASSUME FleetInv, CourseInv, NEW c \in Clients, Steady(c), CreateCourseWrite(c)
  PROVE  CourseInv'
<1> DEFINE k == Req(c).course
           row == [state |-> "live", school |-> Req(c).school,
                   instructor |-> Req(c).instructor, kind |-> Req(c).kind,
                   type |-> Req(c).type,
                   capacity |-> IF Req(c).kind = "THEORY" THEN Req(c).capacity ELSE None]
<1>1. /\ ~Idle(c) /\ Req(c).op = "createCourse" /\ Finish(c)
      /\ courses' = [courses EXCEPT ![k] = row] /\ UNCHANGED <<bookings, seats>>
  BY DEF CreateCourseWrite, At, Req
<1>2. row \in CourseRow /\ row.state = "live" /\ k \in Courses
  BY <1>1, OwnRequest, CourseShapes DEF CourseRow, States, Null
<1> HIDE DEF row
<1>3. TeachingTyped'
  BY <1>1, <1>2 DEF CourseInv, TeachingTyped
<1>4. OnlyLiveUsed'
  BY <1>1, <1>2 DEF CourseInv, TeachingTyped, OnlyLiveUsed, Empty, Enrolled, Classes, Live
<1>5. Modest(c)
  BY <1>1 DEF Modest, Empty, Enrolled, Classes
<1>6. QED
  BY <1>1, <1>3, <1>4, <1>5, OffEnded, LastWrite

\* The row a patch writes is a row, and still exists if it did.
LEMMA PatchedRow ==
  ASSUME CourseInv, NEW r \in Requests, r.op = "patchCourse"
  PROVE  LET row == courses[r.course]
             new == PatchedCourse(r)
         IN /\ new \in CourseRow /\ new.state = row.state /\ new.school = row.school
            /\ ~Structural(r) => new.type = row.type /\ new.kind = row.kind
<1> DEFINE row == courses[r.course]
           new == PatchedCourse(r)
<1>1. row \in CourseRow
  BY CourseShapes DEF CourseInv, TeachingTyped
<1>2. /\ NextKind(r) \in {"PRACTICE", "THEORY"} /\ NextType(r) \in Types
      /\ Given(r.instructor, row.instructor) \in Null(Instructors)
      /\ Given(r.capacity, row.capacity) \in Null(Nat)
  BY <1>1, CourseShapes DEF NextKind, NextType, Given, Opt, CourseRow
<1>3. /\ new.state = row.state /\ new.kind = NextKind(r) /\ new.type = NextType(r)
      /\ new \in CourseRow /\ new.school = row.school
  BY <1>1, <1>2 DEF PatchedCourse, CourseRow, Null
<1>4. QED
  BY <1>3 DEF Structural

LEMMA PatchingCourse ==
  ASSUME FleetInv, CourseInv, NEW c \in Clients, Steady(c), PatchCourseWrite(c)
  PROVE  /\ CourseInv'
         /\ LET k == Req(c).course
            IN /\ k \in Courses
               /\ \A j \in Courses : /\ j # k => courses'[j] = courses[j]
                                     /\ courses'[j].school = courses[j].school
               /\ \/ \A b \in Classes(k) : bookings[b].kind # "LESSON"
                  \/ courses'[k].type = courses[k].type /\ courses'[k].kind = courses[k].kind
<1> DEFINE k == Req(c).course
<1>1. /\ ~Idle(c) /\ Req(c).op = "patchCourse" /\ Finish(c) /\ ~PatchCourseStale(c)
      /\ At(c, "patchCourse", "write")
      /\ courses' = [courses EXCEPT ![k] = Saw(c).new] /\ UNCHANGED <<bookings, seats>>
  BY DEF PatchCourseWrite, At, Req
<1>2. k \in Courses /\ courses[k] = Saw(c).old
  BY <1>1, OwnRequest, CourseShapes DEF PatchCourseStale
<1>3. /\ Saw(c).new \in CourseRow /\ Saw(c).new.state = courses[k].state
      /\ Saw(c).new.school = courses[k].school
      /\ ~Saw(c).structural =>
           Saw(c).new.type = courses[k].type /\ Saw(c).new.kind = courses[k].kind
  BY <1>1, <1>2 DEF CourseInv, Teaches, Patching
<1>4. TeachingTyped'
  BY <1>1, <1>2, <1>3 DEF CourseInv, TeachingTyped
<1>5. OnlyLiveUsed'
  BY <1>1, <1>2, <1>3 DEF CourseInv, TeachingTyped, OnlyLiveUsed, Empty, Enrolled, Classes, Live
<1>6. Modest(c)
  BY <1>1 DEF Modest, Empty, Enrolled, Classes
<1>7. \/ \A b \in Classes(k) : bookings[b].kind # "LESSON"
      \/ Saw(c).new.type = courses[k].type /\ Saw(c).new.kind = courses[k].kind
  BY <1>1, <1>3 DEF PatchCourseStale
<1>8. CourseInv'
  BY <1>1, <1>4, <1>5, <1>6, OffEnded, LastWrite
<1>9. QED
  BY <1>1, <1>2, <1>3, <1>7, <1>8 DEF CourseInv, TeachingTyped

LEMMA DeletingCourse ==
  ASSUME FleetInv, CourseInv, NEW c \in Clients, Steady(c), DeleteCourseWrite(c)
  PROVE  CourseInv'
<1> DEFINE k == Req(c).course
<1>1. /\ ~Idle(c) /\ Req(c).op = "deleteCourse" /\ handlers[c].step = "write" /\ Finish(c)
      /\ courses' = [courses EXCEPT ![k].state = "gone"] /\ UNCHANGED <<bookings, seats>>
  BY DEF DeleteCourseWrite, At, Req
<1>2. k \in Courses /\ Empty(k)
  BY <1>1, OwnRequest, CourseShapes DEF CourseInv, Teaches, Emptying
<1>3. TeachingTyped'
  BY <1>1, <1>2 DEF CourseInv, TeachingTyped, CourseRow, States
<1>4. OnlyLiveUsed'
  BY <1>1, <1>2 DEF CourseInv, TeachingTyped, OnlyLiveUsed, Empty, Enrolled, Classes, Live
<1>5. Modest(c)
  BY <1>1 DEF Modest, Empty, Enrolled, Classes
<1>6. QED
  BY <1>1, <1>3, <1>4, <1>5, OffEnded, LastWrite

\* A new row in a course that is live, which no other handler holds.
LEMMA Filled ==
  ASSUME FleetInv, CourseInv, NEW c \in Clients, Steady(c), Off(c), TeachingTyped',
         UNCHANGED courses, NEW k,
         k # None => Live(courses[k]) /\ locked[k] \in {None, c},
         \A x \in Courses \X Students : seats[x] # None => seats'[x] # None,
         \A j \in Courses : j # k =>
           Enrolled(j)' \subseteq Enrolled(j) /\ Classes(j)' \subseteq Classes(j)
  PROVE  CourseInv'
<1>1. None \notin Courses
  BY OfficeAssumption DEF Rows
<1>2. Modest(c)
  BY <1>1 DEF Modest, Empty
<1>3. OnlyLiveUsed'
  BY <1>1 DEF CourseInv, OnlyLiveUsed, Empty, Live
<1>4. QED
  BY <1>2, <1>3, LastWrite

LEMMA Enrolling ==
  ASSUME FleetInv, CourseInv, NEW c \in Clients, Steady(c), EnrolWrite(c)
  PROVE  CourseInv'
<1> DEFINE k == Req(c).course
           p == Req(c).student
<1>1. /\ ~Idle(c) /\ Req(c).op = "enrol" /\ GuardCourse(c, k) /\ Finish(c)
      /\ seats' = [seats EXCEPT ![<<k, p>>] = "ACTIVE"] /\ UNCHANGED <<courses, bookings>>
  BY DEF EnrolWrite, At, Req
<1>2. k \in Courses /\ p \in Students /\ k # None
  BY <1>1, OwnRequest, CourseShapes, OfficeAssumption DEF Rows
<1>3. Live(courses[k]) /\ locked[k] \in {None, c}
  BY <1>1, <1>2 DEF GuardCourse, Free
<1>4. TeachingTyped'
  BY <1>1 DEF CourseInv, TeachingTyped
<1>5. /\ \A x \in Courses \X Students : seats[x] # None => seats'[x] # None
      /\ \A j \in Courses : j # k => Enrolled(j)' = Enrolled(j) /\ Classes(j)' = Classes(j)
  BY <1>1, OfficeAssumption DEF CourseInv, TeachingTyped, Enrolled, Classes, SeatStates
<1>6. QED
  BY <1>1, <1>3, <1>4, <1>5, OffEnded, Filled

LEMMA ChangingSeat ==
  ASSUME FleetInv, CourseInv, NEW c \in Clients, Steady(c), SetSeatWrite(c)
  PROVE  CourseInv'
<1> DEFINE x == <<Req(c).course, Req(c).student>>
<1>1. /\ ~Idle(c) /\ Req(c).op = "setSeat" /\ Finish(c) /\ At(c, "setSeat", "write")
      /\ seats' = [seats EXCEPT ![x] = Req(c).status] /\ UNCHANGED <<courses, bookings>>
  BY DEF SetSeatWrite, At, Req
<1>2. x \in Courses \X Students /\ Req(c).status # None
  BY <1>1, OwnRequest, CourseShapes, OfficeAssumption DEF Rows
<1>3. seats[x] # None
  BY <1>1 DEF CourseInv, Teaches, Seating
<1>4. TeachingTyped'
  BY <1>1 DEF CourseInv, TeachingTyped
<1>5. \A y \in Courses \X Students : seats[y] # None <=> seats'[y] # None
  BY <1>1, <1>2, <1>3 DEF CourseInv, TeachingTyped
<1>6. \A k \in Courses : Empty(k)' <=> Empty(k)
  BY <1>1, <1>5 DEF Empty, Enrolled, Classes
<1>7. Modest(c) /\ OnlyLiveUsed'
  BY <1>1, <1>5, <1>6 DEF Modest, CourseInv, OnlyLiveUsed, Live
<1>8. QED
  BY <1>1, <1>4, <1>7, OffEnded, LastWrite

\* A lesson or an event: a whole row in a booking that was free.
LEMMA Inserting ==
  ASSUME FleetInv, CourseInv, NEW c \in Clients, Steady(c), Finish(c),
         NEW b \in Bookings, NEW row, bookings' = [bookings EXCEPT ![b] = row],
         Shaped(row), UNCHANGED <<courses, seats>>, GuardCourse(c, row.course),
         row.course \in Null(Courses), bookings[b].state = "free"
  PROVE  CourseInv'
<1>1. TeachingTyped'
  BY DEF CourseInv, TeachingTyped, Shaped, Ticks
<1>2. row.course # None => Live(courses[row.course]) /\ locked[row.course] \in {None, c}
  BY DEF GuardCourse, Free
<1>3. \A j \in Courses : j # row.course =>
        Enrolled(j)' \subseteq Enrolled(j) /\ Classes(j)' \subseteq Classes(j)
  BY DEF CourseInv, TeachingTyped, Enrolled, Classes
<1>4. QED
  BY <1>1, <1>2, <1>3, OffEnded, Filled

LEMMA BookingLesson ==
  ASSUME FleetInv, CourseInv, NEW c \in Clients, Steady(c), BookLessonCommit(c)
  PROVE  CourseInv'
<1> DEFINE r == Req(c)
           row == [state |-> "live", kind |-> "LESSON", course |-> r.course,
                   instructor |-> r.instructor, student |-> r.student,
                   vehicle |-> Saw(c).vehicle, school |-> courses[r.course].school,
                   at |-> r.at]
<1>1. /\ ~Idle(c) /\ r.op \in {"bookLesson", "bookOwnLesson"} /\ GuardCourse(c, r.course)
      /\ Finish(c) /\ bookings[r.booking].state = "free"
      /\ bookings' = [bookings EXCEPT ![r.booking] = row] /\ UNCHANGED <<courses, seats>>
  BY DEF BookLessonCommit, BooksLesson, At, Req
<1>2. r.booking \in Bookings /\ r.course \in Courses /\ r.at \in Ticks
  BY <1>1, OwnRequest, CourseShapes
<1>3. Shaped(row) /\ row.course = r.course
  BY <1>2 DEF Shaped
<1> HIDE DEF row
<1>4. QED
  BY <1>1, <1>2, <1>3, Inserting DEF Null

LEMMA InsertingEvent ==
  ASSUME FleetInv, CourseInv, NEW c \in Clients, Steady(c), CreateEventInsert(c)
  PROVE  CourseInv'
<1> DEFINE r == Req(c)
           row == [state |-> "live", kind |-> r.kind, course |-> r.course,
                   instructor |-> r.instructor, student |-> None,
                   vehicle |-> IF r.kind = "DRIVE" THEN r.vehicle ELSE None,
                   school |-> Saw(c), at |-> r.at]
<1>1. /\ ~Idle(c) /\ r.op = "createEvent" /\ GuardCourse(c, r.course)
      /\ Finish(c) /\ bookings[r.booking].state = "free"
      /\ bookings' = [bookings EXCEPT ![r.booking] = row] /\ UNCHANGED <<courses, seats>>
  BY DEF CreateEventInsert, At, Req
<1>2. r.booking \in Bookings /\ r.course \in Null(Courses) /\ r.at \in Ticks
  BY <1>1, OwnRequest, CourseShapes
<1>3. Shaped(row) /\ row.course = r.course
  BY <1>2 DEF Shaped
<1> HIDE DEF row
<1>4. QED
  BY <1>1, <1>2, <1>3, Inserting

\* A cancelled lesson or event stays a row of its course.
LEMMA Cancelling ==
  ASSUME FleetInv, CourseInv, NEW c \in Clients, Steady(c), CancelBooking(c)
  PROVE  CourseInv'
<1>1. PICK r \in pending :
        /\ r.op = "cancelBooking" /\ bookings[r.booking].state = "live" /\ Idle(c)
        /\ bookings' = [bookings EXCEPT ![r.booking].state = "gone"]
        /\ UNCHANGED <<courses, seats, handlers>>
  BY DEF CancelBooking
<1>2. r.booking \in Bookings
  BY <1>1, CourseShapes DEF FleetInv, Typed
<1>3. \A b \in Bookings : /\ Shaped(bookings'[b]) /\ bookings'[b].course = bookings[b].course
                          /\ bookings'[b].state # "free" <=> bookings[b].state # "free"
  BY <1>1, <1>2 DEF CourseInv, TeachingTyped, Shaped
<1>4. TeachingTyped'
  BY <1>1, <1>3 DEF CourseInv, TeachingTyped, Shaped, Ticks
<1>5. Modest(c) /\ OnlyLiveUsed'
  BY <1>1, <1>3 DEF Modest, CourseInv, OnlyLiveUsed, Empty, Enrolled, Classes, Live
<1>6. Off(c)
  BY <1>1 DEF Off, Idle
<1>7. QED
  BY <1>4, <1>5, <1>6, LastWrite

(* ------------------------------------------- on the way to those writes -- *)
\* What a handler of courses knows after a step, in its own words.
LEMMA CourseHandler ==
  ASSUME NEW c \in Clients, NEW r, NEW step, NEW saw,
         handlers'[c] = [req |-> r, step |-> step, saw |-> saw],
         r.op = "deleteCourse" /\ step \in {"count", "write"} => locked'[r.course] = c,
         r.op = "deleteCourse" /\ step = "write" => Empty(r.course)',
         r.op = "setSeat" /\ step = "write" => seats'[<<r.course, r.student>>] # None,
         r.op = "patchCourse" /\ step = "write" =>
           /\ saw.new \in CourseRow /\ saw.new.state = saw.old.state
           /\ saw.new.school = saw.old.school
           /\ ~saw.structural => saw.new.type = saw.old.type /\ saw.new.kind = saw.old.kind
  PROVE  Teaches(c)'
<1>1. handlers'[c].req = r /\ handlers'[c].step = step /\ handlers'[c].saw = saw
  OBVIOUS
<1>2. Emptying(c)' /\ Seating(c)'
  BY <1>1 DEF Emptying, Seating, Empty, Enrolled, Classes, At, Idle, Req
<1>3. Patching(c)'
  BY <1>1 DEF Patching, At, Idle, Req, Saw
<1>4. QED
  BY <1>2, <1>3 DEF Teaches

LEMMA CourseLooks ==
  ASSUME FleetInv, CourseInv, NEW c \in Clients, Steady(c),
         \/ CreateCourseBegin(c)
         \/ PatchCourseBegin(c) \/ PatchCourseCheck(c) \/ PatchCourseRetry(c)
         \/ DeleteCourseBegin(c) \/ DeleteCourseLock(c) \/ DeleteCourseCount(c)
         \/ EnrolBegin(c) \/ SetSeatBegin(c)
  PROVE  CourseInv'
<1>1. ASSUME NEW r \in pending, NEW step, NEW saw, Receive(c, r, step, saw),
             r.op \in {"createCourse", "patchCourse", "deleteCourse", "enrol"}
                \/ (r.op = "setSeat" /\ seats[<<r.course, r.student>>] # None),
             r.op \in {"patchCourse", "deleteCourse"} => step \notin {"count", "write"}
      PROVE  CourseInv'
  <2>1. handlers'[c] = [req |-> r, step |-> step, saw |-> saw]
    BY <1>1, Received
  <2>2. UNCHANGED <<courses, bookings, seats>>
    BY <1>1 DEF Receive, tables, teaching
  <2>3. Teaches(c)'
    BY <1>1, <2>1, <2>2, CourseHandler
  <2>4. QED
    BY <2>2, <2>3, Unmoved
<1>2. ASSUME ~Idle(c), NEW step, NEW saw,
             Look(c, step, saw) \/ (\E x : Take(c, x, step, saw))
      PROVE  /\ handlers'[c] = [req |-> Req(c), step |-> step, saw |-> saw]
             /\ UNCHANGED <<courses, bookings, seats>>
  BY <1>2, WentOn DEF Look, Take, tables, teaching
<1>3. CASE CreateCourseBegin(c) \/ PatchCourseBegin(c) \/ DeleteCourseBegin(c) \/ EnrolBegin(c)
  BY <1>1, <1>3 DEF CreateCourseBegin, PatchCourseBegin, DeleteCourseBegin, EnrolBegin
<1>4. CASE SetSeatBegin(c)
  BY <1>1, <1>4 DEF SetSeatBegin
<1>5. CASE PatchCourseCheck(c)
  <2> DEFINE r == Req(c)
             row == courses[r.course]
             saw == [old |-> row, new |-> PatchedCourse(r), structural |-> Structural(r)]
  <2>1. ~Idle(c) /\ r.op = "patchCourse" /\ r \in Requests /\ Look(c, "write", saw)
    BY <1>5, OwnRequest DEF PatchCourseCheck, At, Req
  <2>2. /\ saw.new \in CourseRow /\ saw.new.state = saw.old.state
        /\ saw.new.school = saw.old.school
        /\ ~saw.structural => saw.new.type = saw.old.type /\ saw.new.kind = saw.old.kind
    BY <2>1, PatchedRow
  <2> HIDE DEF saw
  <2>3. /\ handlers'[c] = [req |-> Req(c), step |-> "write", saw |-> saw]
        /\ UNCHANGED <<courses, bookings, seats>>
    BY <1>2, <2>1
  <2>4. Teaches(c)'
    BY <2>1, <2>2, <2>3, CourseHandler
  <2>5. QED
    BY <2>3, <2>4, Unmoved
<1>6. CASE PatchCourseRetry(c)
  <2>1. ~Idle(c) /\ Req(c).op = "patchCourse" /\ Look(c, "begin", None)
    BY <1>6 DEF PatchCourseRetry, At, Req
  <2>2. /\ handlers'[c] = [req |-> Req(c), step |-> "begin", saw |-> None]
        /\ UNCHANGED <<courses, bookings, seats>>
    BY <1>2, <2>1
  <2>3. Teaches(c)'
    BY <2>1, <2>2, CourseHandler
  <2>4. QED
    BY <2>2, <2>3, Unmoved
<1>7. CASE DeleteCourseLock(c)
  <2>1. /\ ~Idle(c) /\ Req(c).op = "deleteCourse" /\ Take(c, Req(c).course, "count", None)
        /\ Req(c).course \in Rows
    BY <1>7, OwnRequest, CourseShapes DEF DeleteCourseLock, At, Req, Rows
  <2>2. locked'[Req(c).course] = c
    BY <2>1, Took
  <2>3. /\ handlers'[c] = [req |-> Req(c), step |-> "count", saw |-> None]
        /\ UNCHANGED <<courses, bookings, seats>>
    BY <1>2, <2>1
  <2>4. Teaches(c)'
    BY <2>1, <2>2, <2>3, CourseHandler
  <2>5. QED
    BY <2>3, <2>4, Unmoved
<1>8. CASE DeleteCourseCount(c)
  <2> DEFINE k == Req(c).course
  <2>1. /\ ~Idle(c) /\ Req(c).op = "deleteCourse" /\ handlers[c].step = "count"
        /\ Empty(k) /\ Look(c, "write", None) /\ k \in Courses
    BY <1>8, OwnRequest, CourseShapes DEF DeleteCourseCount, At, Req, Empty
  <2>2. locked[k] = c /\ locked' = locked
    BY <2>1, Looked DEF CourseInv, Teaches, Emptying
  <2>3. UNCHANGED <<courses, bookings, seats>>
    BY <1>2, <2>1
  <2>4. ASSUME NEW j, j = k PROVE Empty(j)'
    BY <2>1, <2>3, <2>4 DEF Empty, Enrolled, Classes
  <2>5. PICK r : r = Req(c)
    OBVIOUS
  <2>6. /\ handlers'[c] = [req |-> r, step |-> "write", saw |-> None]
        /\ r.op = "deleteCourse" /\ locked'[r.course] = c /\ Empty(r.course)'
    BY <1>2, <2>1, <2>2, <2>4, <2>5
  <2>7. Teaches(c)'
    BY <2>6, CourseHandler
  <2>8. QED
    BY <2>3, <2>7, Unmoved
<1>9. QED
  BY <1>3, <1>4, <1>5, <1>6, <1>7, <1>8

(* ------------------------------------------------------------- the theorems *)
LEMMA CourseStepKeeps ==
  ASSUME FleetInv, CourseInv, NEW c \in Clients, Step(c) \/ Fail(c)
  PROVE  CourseInv'
<1>1. Steady(c)
  BY StepIsSteady
<1>2. CASE FleetStep(c) \/ SchoolStep(c) \/ PeopleStep(c)
  <2>1. (FleetOps \cup SchoolOps \cup PeopleOps) \cap Watched = {}
    BY DEF FleetOps, SchoolOps, PeopleOps, PaymentOps, Watched
  <2>2. QED
    BY <1>1, <1>2, <2>1, AwayFleet, AwaySchools, AwayPeople, AwayKeeps
<1>3. CASE BookingStep(c)
  <2>1. BookingOps \cap Watched = {}
    BY DEF BookingOps, Watched
  <2>2. QED
    BY <1>1, <1>3, <2>1, AwayBooking, AwayKeeps, BookingLesson, Cancelling,
       InsertingEvent DEF BookingStep
<1>4. CASE CourseStep(c)
  BY <1>1, <1>4, CourseLooks, CreatingCourse, PatchingCourse, DeletingCourse, Enrolling,
     ChangingSeat DEF CourseStep
<1>5. CASE Fail(c)
  BY <1>1, <1>5, AwayFail, AwayKeeps
<1>6. QED
  BY <1>2, <1>3, <1>4, <1>5 DEF Step

LEMMA CourseInvInit == Init => CourseInv
<1> SUFFICES ASSUME Init PROVE CourseInv
  OBVIOUS
<1>1. PICK o \in Openings :
        courses = o.courses /\ bookings = o.bookings /\ seats = o.seats
  BY DEF Init
<1>2. handlers = [c \in Clients |-> None]
  BY DEF Init
<1>3. /\ courses \in [Courses -> CourseRow] /\ bookings \in [Bookings -> BookingRow]
      /\ o.seats \in [Courses \X Students -> Null(SeatStates)]
  BY <1>1, OpeningsAssumption
<1>4. TeachingTyped
  <2>1. \A b \in Bookings : Shaped(bookings[b])
    BY <1>3 DEF BookingRow, Shaped
  <2>2. seats = [x \in Courses \X Students |-> seats[x]]
    BY <1>1, <1>3
  <2>3. QED
    BY <1>3, <2>1, <2>2 DEF TeachingTyped
<1>5. OnlyLiveUsed
  BY <1>1, OpeningsAssumption DEF OnlyLiveUsed, Empty, Enrolled, Classes, Live
<1>6. \A c \in Clients : Teaches(c)
  BY <1>2 DEF Teaches, Emptying, Seating, Patching, At, Idle
<1>7. QED
  BY <1>4, <1>5, <1>6 DEF CourseInv

LEMMA CourseInvNext == FleetInv /\ CourseInv /\ [Next]_vars => CourseInv'
<1> SUFFICES ASSUME FleetInv, CourseInv, [Next]_vars PROVE CourseInv'
  OBVIOUS
<1>1. CASE Tick \/ UNCHANGED vars
  <2>1. UNCHANGED <<courses, bookings, seats, locked, handlers>>
    BY <1>1 DEF Tick, vars, tables, teaching, control
  <2>2. TeachingTyped' /\ OnlyLiveUsed'
    BY <2>1 DEF CourseInv, TeachingTyped, OnlyLiveUsed, Empty, Enrolled, Classes, Live
  <2>3. \A c \in Clients : Teaches(c)'
    BY <2>1 DEF CourseInv, Teaches, Emptying, Seating, Patching, Empty, Enrolled, Classes,
                At, Idle, Req, Saw
  <2>4. QED
    BY <2>2, <2>3 DEF CourseInv
<1>2. ASSUME NEW c \in Clients, Step(c) \/ Fail(c) PROVE CourseInv'
  BY <1>2, CourseStepKeeps
<1>3. QED
  BY <1>1, <1>2 DEF Next

\* A course is deleted only when it is empty and stays so: a student who is
\* enrolled, a lesson or an event that is booked while it is counted waits for the
\* deletion or is seen by it.
THEOREM CoursesDieEmpty == Spec => []DeletedCoursesAreEmpty
<1>1. CourseInv => DeletedCoursesAreEmpty
  BY DEF CourseInv, OnlyLiveUsed, Empty, DeletedCoursesAreEmpty, Live
<1>2. QED
  BY <1>1, FleetInvInit, FleetInvNext, CourseInvInit, CourseInvNext, PTL DEF Spec

\* What a step does to kind and category of courses.
LEMMA CategoryKept ==
  ASSUME FleetInv, CourseInv, [Next]_vars, NEW k \in Courses, NEW b \in Bookings,
         bookings[b].kind = "LESSON", bookings[b].course = k, bookings[b].state # "free"
  PROVE  courses'[k].type = courses[k].type /\ courses'[k].kind = courses[k].kind
<1>1. CASE UNCHANGED courses
  BY <1>1
<1>2. ASSUME NEW c \in Clients, Step(c) \/ Fail(c)
      PROVE  courses'[k].type = courses[k].type /\ courses'[k].kind = courses[k].kind
  <2>1. Steady(c)
    BY <1>2, StepIsSteady
  <2>2. CASE \/ FleetStep(c) \/ SchoolStep(c) \/ PeopleStep(c) \/ Fail(c)
    BY <2>2, AwayFleet, AwaySchools, AwayPeople, AwayFail DEF Away
  <2>3. CASE BookingStep(c)
    <3>1. UNCHANGED courses
      BY <2>3, AwayBooking DEF BookingStep, Away, BookLessonCommit, CancelBooking,
                               CreateEventInsert
    <3>2. QED
      BY <3>1
  <2>4. CASE CreateCourseWrite(c)
    <3>1. k # Req(c).course
      BY <2>4 DEF CreateCourseWrite, CourseInv, OnlyLiveUsed, Empty, Classes, Live
    <3>2. QED
      BY <2>4, <3>1 DEF CreateCourseWrite, CourseInv, TeachingTyped
  <2>5. CASE PatchCourseWrite(c)
    BY <2>1, <2>5, PatchingCourse DEF Classes
  <2>6. CASE DeleteCourseWrite(c)
    BY <2>6 DEF DeleteCourseWrite, CourseInv, TeachingTyped, CourseRow
  <2>7. CASE CourseStep(c)
    <3>1. \/ CreateCourseWrite(c) \/ PatchCourseWrite(c) \/ DeleteCourseWrite(c)
          \/ UNCHANGED courses
      BY <2>7 DEF CourseStep, CreateCourseBegin, PatchCourseBegin, PatchCourseCheck,
         PatchCourseRetry, DeleteCourseBegin, DeleteCourseLock, DeleteCourseCount,
         EnrolBegin, EnrolWrite, SetSeatBegin, SetSeatWrite, Receive, Look, Take, tables,
         teaching
    <3>2. QED
      BY <2>4, <2>5, <2>6, <3>1
  <2>8. QED
    BY <1>2, <2>2, <2>3, <2>7 DEF Step
<1>3. QED
  BY <1>1, <1>2 DEF Next, Tick, vars, tables, teaching

\* A course with lessons keeps its category and kind: a patch that changes them
\* is not written over a lesson booked since its snapshot.
THEOREM CategoriesStay == Spec => CoursesKeepCategory
<1>1. FleetInv /\ CourseInv /\ [Next]_vars =>
        [\A k \in Courses :
           (\E b \in Bookings : bookings[b].kind = "LESSON" /\ bookings[b].course = k
                                /\ bookings[b].state # "free")
           => courses'[k].type = courses[k].type /\ courses'[k].kind = courses[k].kind]_vars
  BY CategoryKept
<1>2. QED
  BY <1>1, FleetInvInit, FleetInvNext, CourseInvInit, CourseInvNext, PTL
  DEF Spec, CoursesKeepCategory

(***************************************************************************)
(* A lesson to come keeps a vehicle in service that suits its course, for  *)
(* every number of handlers, vehicles, courses and bookings.  Booking,     *)
(* retiring a vehicle, changing its categories and changing the course each*)
(* look at what the others write; the lock of the deletion and the         *)
(* snapshots of the other three are what the argument is about.            *)
(***************************************************************************)

(* ------------------------------------------------ the inductive invariant *)
\* A lesson has a course and a vehicle.
LessonsTyped ==
  /\ clock \in Int
  /\ \A b \in Bookings :
       bookings[b].kind = "LESSON" /\ bookings[b].state # "free" =>
         bookings[b].course \in Courses /\ bookings[b].vehicle \in Vehicles

\* Who books a lesson has seen the vehicle in service and suited to the course it
\* has seen.
Chosen(c) ==
  LET v == Saw(c).vehicle
  IN BooksLesson(c, "commit") =>
       /\ v \in Vehicles /\ v \in DOMAIN Saw(c).cars
       /\ Live(Saw(c).cars[v])
       /\ Saw(c).row.type \in Saw(c).cars[v].types

\* Who is about to retire a vehicle knows that nothing to come is booked on it.
Retired(c) ==
  At(c, "deleteVehicle", "write") => ~Booked(Req(c).vehicle)

Serves(c) == Chosen(c) /\ Retired(c)

LessonInv ==
  /\ LessonsTyped
  /\ LessonsKeepVehicle
  /\ \A c \in Clients : Serves(c)

(* ----------------------------------------------------- what others rely on *)
\* No booking appears on a vehicle somebody else holds.
Spared(c) ==
  \A v \in Vehicles : locked[v] \notin {None, c} /\ ~Booked(v) => ~Booked(v)'

LEMMA NothingBooked == ASSUME UNCHANGED <<bookings, clock>>, NEW c PROVE Spared(c)
BY DEF Spared, Booked, Upcoming

LEMMA OthersServe ==
  ASSUME FleetInv, LessonInv, NEW c \in Clients, Steady(c), Spared(c),
         NEW d \in Clients, d # c
  PROVE  Serves(d)'
<1>1. handlers'[d] = handlers[d] /\ Serves(d)
  BY DEF LessonInv, Steady
<1>2. Chosen(d)'
  BY <1>1 DEF Serves, Chosen, BooksLesson, At, Idle, Req, Saw
<1>3. Retired(d)'
  <2>1. CASE ~At(d, "deleteVehicle", "write")
    BY <1>1, <2>1 DEF Retired, At, Idle, Req
  <2>2. CASE At(d, "deleteVehicle", "write")
    <3>1. Req(d).vehicle \in Vehicles /\ locked[Req(d).vehicle] = d /\ d # None
      BY <2>2, OwnRequest, RequestShapes, OfficeAssumption
      DEF At, Req, FleetInv, Own, Retiring
    <3>2. PICK v \in Vehicles : v = Req(d).vehicle
      BY <3>1
    <3>3. ~Booked(v)
      BY <1>1, <2>2, <3>2 DEF Serves, Retired
    <3>4. ~Booked(v)'
      BY <3>1, <3>2, <3>3 DEF Spared
    <3>5. Req(d)' = Req(d)
      BY <1>1 DEF Req
    <3>6. QED
      BY <3>2, <3>4, <3>5 DEF Retired, Booked
  <2>3. QED
    BY <2>1, <2>2
<1>4. QED
  BY <1>2, <1>3 DEF Serves

\* Vehicles stay in service with the categories they have.
CarsKept ==
  \A v \in Vehicles : Live(vehicles[v]) =>
    Live(vehicles'[v]) /\ vehicles'[v].types = vehicles[v].types

LEMMA CoursesKept ==
  ASSUME FleetInv, CourseInv, LessonInv, NEW c \in Clients, Step(c) \/ Fail(c),
         NEW b \in Bookings, bookings[b].kind = "LESSON", bookings[b].state # "free"
  PROVE  courses'[bookings[b].course].type = courses[bookings[b].course].type
<1>1. bookings[b].course \in Courses
  BY DEF LessonInv, LessonsTyped
<1>2. QED
  BY <1>1, CategoryKept DEF Next

\* Lessons that were there, on vehicles that stay as they are.
LEMMA LessonsStay ==
  ASSUME FleetInv, CourseInv, LessonInv, NEW c \in Clients, Step(c) \/ Fail(c),
         UNCHANGED <<bookings, clock>>, CarsKept
  PROVE  LessonsTyped' /\ LessonsKeepVehicle'
<1>1. LessonsTyped'
  BY DEF LessonInv, LessonsTyped
<1>2. ASSUME NEW b \in Bookings, bookings[b].kind = "LESSON", Upcoming(bookings[b])
      PROVE  /\ Live(vehicles'[bookings[b].vehicle])
             /\ courses'[bookings[b].course].type \in vehicles'[bookings[b].vehicle].types
  <2>1. /\ bookings[b].vehicle \in Vehicles /\ Live(vehicles[bookings[b].vehicle])
        /\ courses[bookings[b].course].type \in vehicles[bookings[b].vehicle].types
    BY <1>2 DEF LessonInv, LessonsTyped, LessonsKeepVehicle, RetiredVehicleIsFree,
                LessonsSuitVehicles, Upcoming
  <2>2. courses'[bookings[b].course].type = courses[bookings[b].course].type
    BY <1>2, CoursesKept DEF Upcoming
  <2>3. QED
    BY <2>1, <2>2 DEF CarsKept
<1>3. LessonsKeepVehicle'
  BY <1>2 DEF LessonsKeepVehicle, RetiredVehicleIsFree, LessonsSuitVehicles, Upcoming, Live
<1>4. QED
  BY <1>1, <1>3

\* The handler is idle or does something the invariant does not speak about.
Aside(c) ==
  \/ handlers'[c] = None
  \/ handlers'[c].req.op \notin {"bookLesson", "bookOwnLesson", "deleteVehicle"}
  \/ handlers'[c].step \notin {"commit", "write"}

LEMMA AsideServes == ASSUME NEW c \in Clients, Aside(c) PROVE Serves(c)'
BY DEF Aside, Serves, Chosen, Retired, BooksLesson, At, Idle, Req

LEMMA Passing ==
  ASSUME FleetInv, CourseInv, LessonInv, NEW c \in Clients, Step(c) \/ Fail(c),
         UNCHANGED <<bookings, clock>>, CarsKept, Serves(c)'
  PROVE  LessonInv'
BY LessonsStay, NothingBooked, OthersServe, StepIsSteady DEF LessonInv

(* ------------------------------------------------------- steps elsewhere -- *)
LEMMA SchoolsElsewhere ==
  ASSUME FleetInv, NEW c \in Clients, SchoolStep(c)
  PROVE  UNCHANGED vehicles
BY DEF SchoolStep, tables, fleet, Receive, Look, Take,
   CreateSchoolBegin, CreateSchoolWrite, SetDefaultSchoolBegin, SetDefaultSchoolWrite,
   UpdateSchoolBegin, UpdateSchoolWrite, DeleteSchoolBegin, DeleteSchoolRead,
   DeleteSchoolMark, DeleteSchoolWrite, ReadDefaultBegin, ReconcileOwned, ReconcileStored,
   ReconcileRepair

LEMMA PeopleElsewhere ==
  ASSUME FleetInv, NEW c \in Clients, PeopleStep(c)
  PROVE  UNCHANGED vehicles
BY DEF PeopleStep, tables, fleet, Receive, Look, Take,
   QualifyBegin, QualifyLock, QualifyCheck, QualifyWrite, MoveInstructorBegin,
   MoveInstructorObligations, MoveInstructorLock, MoveInstructorCheck, MoveInstructorWrite,
   MoveStudentBegin, MoveStudentLock, MoveStudentLockProfile, MoveStudentCheck,
   MoveStudentWrite, ArchiveBegin, ArchiveLock, ArchiveCheck, ArchiveWrite, PaymentBegin,
   PaymentLock, PaymentResolve, PaymentWrite

LEMMA ElsewhereKeeps ==
  ASSUME FleetInv, CourseInv, LessonInv, NEW c \in Clients,
         CourseStep(c) \/ SchoolStep(c) \/ PeopleStep(c) \/ Fail(c)
  PROVE  LessonInv'
<1>1. /\ UNCHANGED <<bookings, clock, vehicles>>
      /\ \E ops : /\ Busy(c, ops)
                  /\ ops \cap {"bookLesson", "bookOwnLesson", "deleteVehicle"} = {}
  <2>1. CASE CourseStep(c)
    BY <2>1, CourseElsewhere DEF CourseOps
  <2>2. CASE SchoolStep(c)
    BY <2>2, AwaySchools, SchoolsElsewhere DEF Away, SchoolOps
  <2>3. CASE PeopleStep(c)
    BY <2>3, AwayPeople, PeopleElsewhere DEF Away, PeopleOps, PaymentOps
  <2>4. CASE Fail(c)
    BY <2>4, AwayFail DEF Away, Fail, tables, fleet
  <2>5. QED
    BY <2>1, <2>2, <2>3, <2>4
<1>2. Aside(c) /\ CarsKept
  BY <1>1 DEF Busy, Aside, CarsKept
<1>3. Step(c) \/ Fail(c)
  BY DEF Step
<1>4. QED
  BY <1>1, <1>2, <1>3, AsideServes, Passing

(* --------------------------------------------------- vehicles, step by step *)
LEMMA RepairKeepsCars ==
  ASSUME FleetInv, NEW S,
         vehicles' = [v \in Vehicles |->
                        IF v \in S THEN Repaired(vehicles[v]) ELSE vehicles[v]]
  PROVE  CarsKept
BY DEF FleetInv, Typed, VehicleRow, Repaired, CarsKept, Live

\* No step on the fleet but two touches a vehicle lessons may be booked on.
LEMMA FleetCars ==
  ASSUME FleetInv, NEW c \in Clients, FleetStep(c)
  PROVE  CarsKept \/ UpdateVehicleWrite(c) \/ DeleteVehicleWrite(c)
<1>1. CASE CreateVehicleWrite(c)
  BY <1>1 DEF CreateVehicleWrite, CarsKept, Live, FleetInv, Typed
<1>2. CASE VehicleStatusWrite(c)
  BY <1>2 DEF VehicleStatusWrite, CarsKept, Live, FleetInv, Typed, VehicleRow
<1>3. CASE ListVehiclesRepair(c)
  BY <1>3 DEF ListVehiclesRepair, CarsKept, Live, FleetInv, Typed, VehicleRow, Repaired
<1>4. CASE \/ CreateVehicleBegin(c) \/ CreateVehicleLock(c) \/ CreateVehicleCount(c)
           \/ UpdateVehicleBegin(c) \/ UpdateVehicleCheck(c) \/ UpdateVehicleRetry(c)
           \/ VehicleStatusBegin(c) \/ ListVehiclesBegin(c) \/ ListVehiclesEnd(c)
           \/ DeleteVehicleBegin(c) \/ DeleteVehicleLock(c) \/ DeleteVehicleLockSchool(c)
           \/ DeleteVehicleCheck(c) \/ DeleteVehicleCount(c)
           \/ SetDefaultVehicleBegin(c) \/ SetDefaultVehicleLock(c)
           \/ SetDefaultVehicleCheck(c) \/ SetDefaultVehicleWrite(c)
  <2>1. UNCHANGED vehicles
    BY <1>4 DEF tables, fleet, Receive, Look, Take,
       CreateVehicleBegin, CreateVehicleLock, CreateVehicleCount, UpdateVehicleBegin,
       UpdateVehicleCheck, UpdateVehicleRetry, VehicleStatusBegin, ListVehiclesBegin,
       ListVehiclesEnd, DeleteVehicleBegin, DeleteVehicleLock, DeleteVehicleLockSchool,
       DeleteVehicleCheck, DeleteVehicleCount, SetDefaultVehicleBegin,
       SetDefaultVehicleLock, SetDefaultVehicleCheck, SetDefaultVehicleWrite
  <2>2. QED
    BY <2>1 DEF CarsKept
<1>5. QED
  BY <1>1, <1>2, <1>3, <1>4 DEF FleetStep

(* ------------------------------------------- the handlers of the fleet ---- *)
\* What the handler knows after a step of a deletion.
LEMMA RetiringHandler ==
  ASSUME NEW c \in Clients, NEW r, NEW step, NEW saw,
         handlers'[c] = [req |-> r, step |-> step, saw |-> saw],
         r.op \notin {"bookLesson", "bookOwnLesson"},
         r.op = "deleteVehicle" /\ step = "write" => ~Booked(r.vehicle)'
  PROVE  Serves(c)'
<1>1. handlers'[c].req = r /\ handlers'[c].step = step
  OBVIOUS
<1>2. Chosen(c)'
  BY <1>1 DEF Chosen, BooksLesson, At, Idle, Req
<1>3. Retired(c)'
  BY <1>1 DEF Retired, Booked, At, Idle, Req
<1>4. QED
  BY <1>2, <1>3 DEF Serves

\* Only the count of its lessons leads a deletion to its write.
LEMMA FleetHandlers ==
  ASSUME FleetInv, NEW c \in Clients, FleetStep(c)
  PROVE  Aside(c) \/ DeleteVehicleCount(c)
<1>1. CASE \/ CreateVehicleBegin(c) \/ CreateVehicleLock(c) \/ CreateVehicleCount(c)
           \/ CreateVehicleWrite(c)
  <2>1. Busy(c, {"createVehicle"})
    BY <1>1, BusyReceived, BusyWentOn, BusyEnded DEF CreateVehicleBegin, CreateVehicleLock,
       CreateVehicleCount, CreateVehicleWrite, Away, Take, Look, At, Req
  <2>2. QED
    BY <2>1 DEF Busy, Aside
<1>2. CASE \/ UpdateVehicleBegin(c) \/ UpdateVehicleCheck(c) \/ UpdateVehicleWrite(c)
           \/ UpdateVehicleRetry(c) \/ VehicleStatusBegin(c) \/ VehicleStatusWrite(c)
  <2>1. Busy(c, {"updateVehicle", "vehicleStatus"})
    BY <1>2, BusyReceived, BusyWentOn, BusyEnded DEF UpdateVehicleBegin, UpdateVehicleCheck,
       UpdateVehicleWrite, UpdateVehicleRetry, VehicleStatusBegin, VehicleStatusWrite,
       Away, Look, At, Req
  <2>2. QED
    BY <2>1 DEF Busy, Aside
<1>3. CASE ListVehiclesBegin(c) \/ ListVehiclesRepair(c) \/ ListVehiclesEnd(c)
  <2>1. Busy(c, {"listVehicles"})
    BY <1>3, BusyReceived, BusyWentOn, BusyEnded DEF ListVehiclesBegin, ListVehiclesRepair,
       ListVehiclesEnd, Away, At, Req
  <2>2. QED
    BY <2>1 DEF Busy, Aside
<1>4. CASE \/ SetDefaultVehicleBegin(c) \/ SetDefaultVehicleLock(c)
           \/ SetDefaultVehicleCheck(c) \/ SetDefaultVehicleWrite(c)
  <2>1. Busy(c, {"setDefaultVehicle"})
    BY <1>4, BusyReceived, BusyWentOn, BusyEnded DEF SetDefaultVehicleBegin,
       SetDefaultVehicleLock, SetDefaultVehicleCheck, SetDefaultVehicleWrite, Away, Take,
       Look, At, Req
  <2>2. QED
    BY <2>1 DEF Busy, Aside
<1>5. CASE DeleteVehicleBegin(c)
  <2>1. PICK r \in pending : Receive(c, r, "lock", None)
    BY <1>5 DEF DeleteVehicleBegin
  <2>2. handlers'[c] = [req |-> r, step |-> "lock", saw |-> None]
    BY <2>1, Received
  <2>3. QED
    BY <2>2 DEF Aside
<1>6. CASE DeleteVehicleLock(c) \/ DeleteVehicleLockSchool(c)
  <2>1. PICK step \in {"school", "check"} : ~Idle(c) /\ Goto(c, step, None)
    BY <1>6 DEF DeleteVehicleLock, DeleteVehicleLockSchool, Take, At
  <2>2. handlers'[c] = [req |-> Req(c), step |-> step, saw |-> None]
    BY <2>1, WentOn
  <2>3. QED
    BY <2>2 DEF Aside
<1>7. CASE DeleteVehicleCheck(c)
  <2>1. ~Idle(c) /\ (Finish(c) \/ \E saw : Goto(c, "count", saw))
    BY <1>7 DEF DeleteVehicleCheck, Look, At
  <2>2. CASE Finish(c)
    BY <2>2, Ended DEF Aside
  <2>3. ASSUME NEW saw, Goto(c, "count", saw) PROVE Aside(c)
    <3>1. handlers'[c] = [req |-> Req(c), step |-> "count", saw |-> saw]
      BY <2>1, <2>3, WentOn
    <3>2. QED
      BY <3>1 DEF Aside
  <2>4. QED
    BY <2>1, <2>2, <2>3
<1>8. CASE DeleteVehicleWrite(c)
  BY <1>8, Ended DEF DeleteVehicleWrite, Aside
<1>9. QED
  BY <1>1, <1>2, <1>3, <1>4, <1>5, <1>6, <1>7, <1>8 DEF FleetStep

(* ------------------------------------------------------------- the writes *)
\* One vehicle loses categories, or its service: no lesson to come needs them.
LEMMA OneCarChanges ==
  ASSUME FleetInv, CourseInv, LessonInv, NEW c \in Clients, Step(c) \/ Fail(c), Aside(c),
         UNCHANGED <<bookings, clock>>, NEW w \in Vehicles,
         \A v \in Vehicles : v # w => vehicles'[v] = vehicles[v],
         \A b \in Bookings :
           /\ bookings[b].kind = "LESSON" /\ Upcoming(bookings[b])
           /\ bookings[b].vehicle = w
           => /\ Live(vehicles'[w])
              /\ courses[bookings[b].course].type \in vehicles'[w].types
  PROVE  LessonInv'
<1>1. LessonsTyped'
  BY DEF LessonInv, LessonsTyped
<1>2. ASSUME NEW b \in Bookings, bookings[b].kind = "LESSON", Upcoming(bookings[b])
      PROVE  /\ Live(vehicles'[bookings[b].vehicle])
             /\ courses'[bookings[b].course].type \in vehicles'[bookings[b].vehicle].types
  <2>1. /\ bookings[b].vehicle \in Vehicles /\ Live(vehicles[bookings[b].vehicle])
        /\ courses[bookings[b].course].type \in vehicles[bookings[b].vehicle].types
    BY <1>2 DEF LessonInv, LessonsTyped, LessonsKeepVehicle, RetiredVehicleIsFree,
                LessonsSuitVehicles, Upcoming
  <2>2. courses'[bookings[b].course].type = courses[bookings[b].course].type
    BY <1>2, CoursesKept DEF Upcoming
  <2>3. QED
    BY <1>2, <2>1, <2>2
<1>3. LessonsKeepVehicle'
  BY <1>2 DEF LessonsKeepVehicle, RetiredVehicleIsFree, LessonsSuitVehicles, Upcoming, Live
<1>4. \A d \in Clients : Serves(d)'
  BY AsideServes, NothingBooked, OthersServe, StepIsSteady
<1>5. QED
  BY <1>1, <1>3, <1>4 DEF LessonInv

LEMMA ChangingCategories ==
  ASSUME FleetInv, CourseInv, LessonInv, NEW c \in Clients, UpdateVehicleWrite(c)
  PROVE  LessonInv'
<1> DEFINE w == Req(c).vehicle
           T == Req(c).types
<1>1. /\ ~Idle(c) /\ Req(c).op = "updateVehicle" /\ Finish(c) /\ UNCHANGED <<bookings, clock>>
      /\ ~UsesCategory(w, RemovedTypes(Req(c)))
      /\ vehicles' = IF T = Keep THEN vehicles ELSE [vehicles EXCEPT ![w].types = T]
  BY DEF UpdateVehicleWrite, UpdateVehicleStale, Finish, teaching, At, Req
<1>2. w \in Vehicles /\ Step(c)
  BY <1>1, OwnRequest, RequestShapes DEF Step, FleetStep
<1>3. /\ \A v \in Vehicles : v # w => vehicles'[v] = vehicles[v]
      /\ Live(vehicles'[w]) <=> Live(vehicles[w])
      /\ vehicles'[w].types = IF T = Keep THEN vehicles[w].types ELSE T
  BY <1>1, <1>2 DEF FleetInv, Typed, VehicleRow, Live
<1>4. ASSUME NEW b \in Bookings, bookings[b].kind = "LESSON", Upcoming(bookings[b]),
             bookings[b].vehicle = w
      PROVE  /\ Live(vehicles'[w])
             /\ courses[bookings[b].course].type \in vehicles'[w].types
  <2>1. /\ Live(vehicles[w]) /\ courses[bookings[b].course].type \in vehicles[w].types
        /\ bookings[b].course \in Courses /\ None \notin Courses
    BY <1>4, OfficeAssumption DEF LessonInv, LessonsTyped, LessonsKeepVehicle,
       RetiredVehicleIsFree, LessonsSuitVehicles, Upcoming, Rows
  <2>2. T # Keep => courses[bookings[b].course].type \notin vehicles[w].types \ T
    BY <1>1, <1>4, <2>1 DEF UsesCategory, RemovedTypes
  <2>3. QED
    BY <1>3, <2>1, <2>2
<1>5. Aside(c)
  BY <1>1, Ended DEF Aside
<1>6. QED
  BY <1>1, <1>2, <1>3, <1>4, <1>5, OneCarChanges

LEMMA RetiringCar ==
  ASSUME FleetInv, CourseInv, LessonInv, NEW c \in Clients, DeleteVehicleWrite(c)
  PROVE  LessonInv'
<1> DEFINE w == Req(c).vehicle
<1>1. /\ ~Idle(c) /\ Req(c).op = "deleteVehicle" /\ At(c, "deleteVehicle", "write")
      /\ Finish(c) /\ UNCHANGED <<bookings, clock>>
      /\ vehicles' = [vehicles EXCEPT ![w].state = "gone"]
  BY DEF DeleteVehicleWrite, Finish, teaching, At, Req
<1>2. w \in Vehicles /\ Step(c)
  BY <1>1, OwnRequest, RequestShapes DEF Step, FleetStep
<1>3. \A v \in Vehicles : v # w => vehicles'[v] = vehicles[v]
  BY <1>1, <1>2 DEF FleetInv, Typed
<1>4. ~Booked(w)
  BY <1>1 DEF LessonInv, Serves, Retired
<1>5. \A b \in Bookings :
        bookings[b].kind = "LESSON" /\ Upcoming(bookings[b]) => bookings[b].vehicle # w
  BY <1>4 DEF Booked
<1>6. Aside(c)
  BY <1>1, Ended DEF Aside
<1>7. QED
  BY <1>1, <1>2, <1>3, <1>5, <1>6, OneCarChanges

LEMMA CountingLessons ==
  ASSUME FleetInv, CourseInv, LessonInv, NEW c \in Clients, DeleteVehicleCount(c)
  PROVE  LessonInv'
<1>1. PICK r, saw : /\ r = Req(c) /\ ~Idle(c) /\ r.op = "deleteVehicle"
                    /\ ~Booked(r.vehicle) /\ Look(c, "write", saw)
  BY DEF DeleteVehicleCount, At, Req
<1>2. /\ Goto(c, "write", saw) /\ UNCHANGED <<bookings, clock, vehicles>>
  BY <1>1 DEF Look, tables, teaching, fleet
<1>3. handlers'[c] = [req |-> r, step |-> "write", saw |-> saw]
  BY <1>1, <1>2, WentOn
<1>4. ~Booked(r.vehicle)'
  BY <1>1, <1>2 DEF Booked, Upcoming
<1>5. Serves(c)'
  BY <1>1, <1>3, <1>4, RetiringHandler
<1>6. CarsKept /\ Step(c)
  BY <1>2 DEF CarsKept, Step, FleetStep
<1>7. QED
  BY <1>2, <1>5, <1>6, Passing

LEMMA FleetKeepsLessons ==
  ASSUME FleetInv, CourseInv, LessonInv, NEW c \in Clients, FleetStep(c)
  PROVE  LessonInv'
<1>1. CASE UpdateVehicleWrite(c) \/ DeleteVehicleWrite(c) \/ DeleteVehicleCount(c)
  BY <1>1, ChangingCategories, RetiringCar, CountingLessons
<1>2. CASE ~(UpdateVehicleWrite(c) \/ DeleteVehicleWrite(c) \/ DeleteVehicleCount(c))
  <2>1. CarsKept /\ Aside(c) /\ UNCHANGED <<bookings, clock>> /\ Step(c)
    BY <1>2, FleetCars, FleetHandlers, AwayFleet DEF Away, Step
  <2>2. QED
    BY <2>1, AsideServes, Passing
<1>3. QED
  BY <1>1, <1>2

(* -------------------------------------------------------------- bookings -- *)
\* One booking gets a row: if that is a lesson to come its vehicle suits, and if it
\* needs a vehicle at all nobody else holds that vehicle.
LEMMA OneBookingChanges ==
  ASSUME FleetInv, CourseInv, LessonInv, NEW c \in Clients, Step(c), UNCHANGED clock,
         CarsKept, Aside(c), NEW b \in Bookings, NEW row,
         bookings' = [bookings EXCEPT ![b] = row],
         row.kind = "LESSON" /\ row.state # "free" =>
           row.course \in Courses /\ row.vehicle \in Vehicles,
         row.kind = "LESSON" /\ Upcoming(row) =>
           /\ Live(vehicles'[row.vehicle])
           /\ courses'[row.course].type \in vehicles'[row.vehicle].types,
         Upcoming(row) /\ row.vehicle \in Vehicles => locked[row.vehicle] \in {None, c}
  PROVE  LessonInv'
<1>1. /\ bookings'[b] = row
      /\ \A a \in Bookings : a # b => bookings'[a] = bookings[a]
  BY DEF CourseInv, TeachingTyped
<1>2. LessonsTyped'
  BY <1>1 DEF LessonInv, LessonsTyped
<1>3. ASSUME NEW a \in Bookings, bookings'[a].kind = "LESSON", Upcoming(bookings[a])'
      PROVE  /\ Live(vehicles'[bookings'[a].vehicle])
             /\ courses'[bookings'[a].course].type \in vehicles'[bookings'[a].vehicle].types
  <2>1. CASE a = b
    BY <1>1, <1>3, <2>1 DEF Upcoming
  <2>2. CASE a # b
    <3>1. bookings'[a] = bookings[a] /\ bookings[a].kind = "LESSON" /\ Upcoming(bookings[a])
      BY <1>1, <1>3, <2>2 DEF Upcoming
    <3>2. /\ bookings[a].vehicle \in Vehicles /\ Live(vehicles[bookings[a].vehicle])
          /\ courses[bookings[a].course].type \in vehicles[bookings[a].vehicle].types
      BY <3>1 DEF LessonInv, LessonsTyped, LessonsKeepVehicle, RetiredVehicleIsFree,
                  LessonsSuitVehicles, Upcoming
    <3>3. courses'[bookings[a].course].type = courses[bookings[a].course].type
      BY <3>1, CoursesKept DEF Upcoming
    <3>4. QED
      BY <3>1, <3>2, <3>3 DEF CarsKept
  <2>3. QED
    BY <2>1, <2>2
<1>4. LessonsKeepVehicle'
  BY <1>3 DEF LessonsKeepVehicle, RetiredVehicleIsFree, LessonsSuitVehicles, Live
<1>5. Spared(c)
  <2>1. SUFFICES ASSUME NEW v \in Vehicles, locked[v] \notin {None, c}, ~Booked(v),
                        NEW a \in Bookings, bookings'[a].vehicle = v,
                        bookings'[a].kind \in {"LESSON", "DRIVE"}, Upcoming(bookings[a])'
                 PROVE  FALSE
    BY DEF Spared, Booked
  <2>2. CASE a = b
    BY <1>1, <2>1, <2>2 DEF Upcoming
  <2>3. CASE a # b
    BY <1>1, <2>1, <2>3 DEF Booked, Upcoming
  <2>4. QED
    BY <2>2, <2>3
<1>6. \A d \in Clients : Serves(d)'
  BY <1>5, AsideServes, OthersServe, StepIsSteady
<1>7. QED
  BY <1>2, <1>4, <1>6 DEF LessonInv

\* The lesson gets the vehicle of the snapshot, which is still what it was.
LEMMA Committing ==
  ASSUME FleetInv, CourseInv, LessonInv, NEW c \in Clients, BookLessonCommit(c)
  PROVE  LessonInv'
<1> DEFINE r == Req(c)
           v == Saw(c).vehicle
           row == [state |-> "live", kind |-> "LESSON", course |-> r.course,
                   instructor |-> r.instructor, student |-> r.student,
                   vehicle |-> v, school |-> courses[r.course].school, at |-> r.at]
<1>1. /\ ~Idle(c) /\ r.op \in {"bookLesson", "bookOwnLesson"} /\ BooksLesson(c, "commit")
      /\ Free(c, {Profile(r.student)} \cup DOMAIN Saw(c).cars) /\ ~BookLessonStale(c)
      /\ bookings' = [bookings EXCEPT ![r.booking] = row]
      /\ Finish(c) /\ UNCHANGED <<courses, clock>>
  BY DEF BookLessonCommit, BooksLesson, At, Req, Finish
<1>2. r.booking \in Bookings /\ r.course \in Courses
  BY <1>1, OwnRequest, CourseShapes
<1>3. /\ v \in Vehicles /\ v \in DOMAIN Saw(c).cars
      /\ Live(Saw(c).cars[v]) /\ Saw(c).row.type \in Saw(c).cars[v].types
  BY <1>1 DEF LessonInv, Serves, Chosen
<1>4. courses[r.course] = Saw(c).row /\ vehicles[v] = Saw(c).cars[v]
  BY <1>1, <1>3 DEF BookLessonStale
<1>5. CarsKept
  BY RepairKeepsCars DEF BookLessonCommit
<1>6. Live(vehicles'[v]) /\ courses'[r.course].type \in vehicles'[v].types
  BY <1>1, <1>3, <1>4, <1>5 DEF CarsKept
<1>7. locked[v] \in {None, c}
  BY <1>1, <1>3, OfficeAssumption DEF Free, Rows
<1>8. Aside(c) /\ Step(c)
  BY <1>1, Ended DEF Aside, Step, BookingStep
<1>9. /\ row.kind = "LESSON" /\ row.state = "live" /\ row.course = r.course /\ row.vehicle = v
  OBVIOUS
<1> HIDE DEF row, v, r
<1>10. QED
  BY <1>1, <1>2, <1>3, <1>5, <1>6, <1>7, <1>8, <1>9, OneBookingChanges

\* A drive holds its vehicle against a deletion as well.
LEMMA InsertingDrive ==
  ASSUME FleetInv, CourseInv, LessonInv, NEW c \in Clients, CreateEventInsert(c)
  PROVE  LessonInv'
<1> DEFINE r == Req(c)
           car == IF r.kind = "DRIVE" THEN r.vehicle ELSE None
           row == [state |-> "live", kind |-> r.kind, course |-> r.course,
                   instructor |-> r.instructor, student |-> None, vehicle |-> car,
                   school |-> Saw(c), at |-> r.at]
<1>1. /\ ~Idle(c) /\ r.op = "createEvent" /\ Free(c, {car, Saw(c)})
      /\ bookings' = [bookings EXCEPT ![r.booking] = row]
      /\ Finish(c) /\ UNCHANGED <<vehicles, clock>>
  BY DEF CreateEventInsert, At, Req, Finish, fleet
<1>2. r.booking \in Bookings /\ r.kind # "LESSON"
  BY <1>1, OwnRequest, CourseShapes
<1>3. car \in Vehicles => locked[car] \in {None, c}
  BY <1>1, OfficeAssumption DEF Free, Rows
<1>4. CarsKept /\ Aside(c) /\ Step(c)
  BY <1>1, Ended DEF CarsKept, Aside, Step, BookingStep
<1>5. row.kind # "LESSON" /\ row.vehicle = car
  BY <1>2
<1> HIDE DEF row, car, r
<1>6. QED
  BY <1>1, <1>2, <1>3, <1>4, <1>5, OneBookingChanges

LEMMA CancellingLesson ==
  ASSUME FleetInv, CourseInv, LessonInv, NEW c \in Clients, CancelBooking(c)
  PROVE  LessonInv'
<1>1. PICK r \in pending :
        /\ r.op = "cancelBooking" /\ Idle(c) /\ bookings[r.booking].state = "live"
        /\ bookings' = [bookings EXCEPT ![r.booking].state = "gone"]
        /\ UNCHANGED <<vehicles, handlers, clock>>
  BY DEF CancelBooking, fleet
<1>2. r.booking \in Bookings
  BY <1>1, CourseShapes DEF FleetInv, Typed
<1> DEFINE old == bookings[r.booking]
           row == [old EXCEPT !.state = "gone"]
<1>3. bookings' = [bookings EXCEPT ![r.booking] = row]
  BY <1>1
<1>4. /\ row.kind = old.kind /\ row.course = old.course /\ row.vehicle = old.vehicle
      /\ row.state = "gone"
  BY <1>2 DEF CourseInv, TeachingTyped, Shaped
<1>5. old.kind = "LESSON" => old.course \in Courses /\ old.vehicle \in Vehicles
  BY <1>1, <1>2 DEF LessonInv, LessonsTyped
<1>6. CarsKept /\ Aside(c) /\ Step(c)
  BY <1>1 DEF CarsKept, Aside, Idle, Step, BookingStep
<1> HIDE DEF row, old
<1>7. QED
  BY <1>1, <1>2, <1>3, <1>4, <1>5, <1>6, OneBookingChanges DEF Upcoming

\* The snapshot: the vehicle chosen serves the course.
LEMMA TakingSnapshot ==
  ASSUME FleetInv, CourseInv, LessonInv, NEW c \in Clients, BookLessonCheck(c)
  PROVE  LessonInv'
<1> DEFINE r == Req(c)
           k == r.course
           repairs == Repairs(courses[k].school)
<1>1. PICK v \in Candidates(r.instructor, k) :
        /\ ~Idle(c) /\ r.op \in {"bookLesson", "bookOwnLesson"}
        /\ Look(c, "commit",
                [course |-> Saw(c).course, vehicle |-> v, row |-> courses[k],
                 repairs |-> repairs, cars |-> [w \in repairs \cup {v} |-> vehicles[w]]])
  BY DEF BookLessonCheck, BooksLesson, At, Req
<1> DEFINE saw == [course |-> Saw(c).course, vehicle |-> v, row |-> courses[k],
                   repairs |-> repairs, cars |-> [w \in repairs \cup {v} |-> vehicles[w]]]
<1>2. v \in Vehicles /\ Live(vehicles[v]) /\ courses[k].type \in vehicles[v].types
  BY <1>1 DEF Candidates, VehicleServes, FleetOf
<1>3. /\ saw.vehicle = v /\ saw.row = courses[k] /\ v \in DOMAIN saw.cars
      /\ saw.cars[v] = vehicles[v]
  OBVIOUS
<1>4. Look(c, "commit", saw)
  BY <1>1
<1> HIDE DEF saw
<1>5. /\ handlers'[c] = [req |-> r, step |-> "commit", saw |-> saw]
      /\ UNCHANGED <<bookings, clock, vehicles>>
  BY <1>1, <1>4, WentOn DEF Look, tables, fleet, teaching
<1>6. Saw(c)' = saw /\ Req(c)' = r /\ handlers'[c].step = "commit"
  BY <1>5 DEF Saw, Req
<1>7. Chosen(c)'
  BY <1>2, <1>3, <1>6 DEF Chosen
<1>8. Retired(c)'
  BY <1>6 DEF Retired, At
<1>9. CarsKept /\ Step(c)
  BY <1>5 DEF CarsKept, Step, BookingStep
<1>10. QED
  BY <1>5, <1>7, <1>8, <1>9, Passing DEF Serves

LEMMA BookingAside ==
  ASSUME FleetInv, CourseInv, LessonInv, NEW c \in Clients,
         \/ BookLessonBegin(c) \/ BookOwnLessonBegin(c) \/ BookLessonRetry(c)
         \/ CreateEventBegin(c) \/ CheckLesson(c)
  PROVE  LessonInv'
<1>1. UNCHANGED <<bookings, clock>> /\ Step(c)
  BY AwayBooking DEF Away, Step, BookingStep
<1>2. CarsKept /\ Aside(c)
  <2>1. CASE BookLessonBegin(c) \/ BookOwnLessonBegin(c)
    <3>1. PICK r \in pending : \E saw : Receive(c, r, "begin", saw)
      BY <2>1 DEF BookLessonBegin, BookOwnLessonBegin
    <3>2. PICK saw : Receive(c, r, "begin", saw)
      BY <3>1
    <3>3. handlers'[c] = [req |-> r, step |-> "begin", saw |-> saw]
      BY <3>2, Received
    <3>4. UNCHANGED vehicles
      BY <3>2 DEF Receive, tables, fleet
    <3>5. QED
      BY <3>3, <3>4 DEF CarsKept, Aside
  <2>2. CASE BookLessonRetry(c)
    <3>1. PICK saw : ~Idle(c) /\ Look(c, "begin", saw)
      BY <2>2 DEF BookLessonRetry, BooksLesson, At
    <3>2. /\ handlers'[c] = [req |-> Req(c), step |-> "begin", saw |-> saw]
          /\ UNCHANGED vehicles
      BY <3>1, WentOn DEF Look, tables, fleet
    <3>3. QED
      BY <3>2 DEF CarsKept, Aside
  <2>3. CASE CreateEventBegin(c)
    <3>1. PICK r \in pending :
            /\ r.op = "createEvent"
            /\ handlers' = [handlers EXCEPT ![c] =
                 [req |-> r, step |-> "insert", saw |-> staff[r.instructor].school]]
            /\ \/ vehicles' = [vehicles EXCEPT ![r.vehicle] = Repaired(@)]
               \/ UNCHANGED vehicles
      BY <2>3 DEF CreateEventBegin
    <3>2. handlers'[c] = [req |-> r, step |-> "insert", saw |-> staff[r.instructor].school]
      BY <3>1 DEF FleetInv, Typed
    <3>3. Aside(c)
      BY <3>2 DEF Aside
    <3>4. CASE vehicles' = [vehicles EXCEPT ![r.vehicle] = Repaired(@)]
      <4>1. vehicles' = [v \in Vehicles |->
              IF v \in {r.vehicle} THEN Repaired(vehicles[v]) ELSE vehicles[v]]
        BY <3>4 DEF FleetInv, Typed
      <4>2. QED
        BY <3>3, <4>1, RepairKeepsCars
    <3>5. CASE UNCHANGED vehicles
      BY <3>3, <3>5 DEF CarsKept
    <3>6. QED
      BY <3>1, <3>4, <3>5
  <2>4. CASE CheckLesson(c)
    <3>1. PICK S : vehicles' = [v \in Vehicles |->
                     IF v \in S THEN Repaired(vehicles[v]) ELSE vehicles[v]]
      BY <2>4 DEF CheckLesson
    <3>2. handlers'[c] = None
      BY <2>4 DEF CheckLesson, Idle
    <3>3. QED
      BY <3>1, <3>2, RepairKeepsCars DEF Aside
  <2>5. QED
    BY <2>1, <2>2, <2>3, <2>4
<1>3. QED
  BY <1>1, <1>2, AsideServes, Passing

(* ------------------------------------------------------------- the theorem *)
LEMMA LessonStepKeeps ==
  ASSUME FleetInv, CourseInv, LessonInv, NEW c \in Clients, Step(c) \/ Fail(c)
  PROVE  LessonInv'
<1>1. CASE FleetStep(c)
  BY <1>1, FleetKeepsLessons
<1>2. CASE BookingStep(c)
  BY <1>2, BookingAside, TakingSnapshot, Committing, CancellingLesson, InsertingDrive
  DEF BookingStep
<1>3. CASE CourseStep(c) \/ SchoolStep(c) \/ PeopleStep(c) \/ Fail(c)
  BY <1>3, ElsewhereKeeps
<1>4. QED
  BY <1>1, <1>2, <1>3 DEF Step

LEMMA LessonInvInit == Init => LessonInv
<1> SUFFICES ASSUME Init PROVE LessonInv
  OBVIOUS
<1>1. PICK o \in Openings :
        courses = o.courses /\ bookings = o.bookings /\ vehicles = o.vehicles
  BY DEF Init
<1>2. handlers = [c \in Clients |-> None] /\ clock = 0
  BY DEF Init
<1>3. LessonsTyped
  BY <1>1, <1>2, OpeningsAssumption DEF LessonsTyped
<1>4. LessonsKeepVehicle
  BY <1>1, OpeningsAssumption
  DEF LessonsKeepVehicle, RetiredVehicleIsFree, LessonsSuitVehicles, Upcoming, Live
<1>5. \A c \in Clients : Serves(c)
  BY <1>2 DEF Serves, Chosen, Retired, BooksLesson, At, Idle
<1>6. QED
  BY <1>3, <1>4, <1>5 DEF LessonInv

\* As time passes lessons only cease to be to come.
LEMMA TimePasses ==
  ASSUME CourseInv, LessonInv, UNCHANGED <<bookings, vehicles, courses, handlers>>,
         clock' \in Int, clock' >= clock
  PROVE  LessonInv'
<1>1. \A b \in Bookings : Upcoming(bookings[b])' => Upcoming(bookings[b])
  BY DEF CourseInv, TeachingTyped, Shaped, Upcoming, Ticks, LessonInv, LessonsTyped
<1>2. LessonsTyped' /\ LessonsKeepVehicle'
  BY <1>1 DEF LessonInv, LessonsTyped, LessonsKeepVehicle, RetiredVehicleIsFree,
              LessonsSuitVehicles, Live
<1>3. \A v : Booked(v)' => Booked(v)
  BY <1>1 DEF Booked
<1>4. ASSUME NEW c \in Clients PROVE Serves(c)'
  <2>1. Serves(c)
    BY DEF LessonInv
  <2>2. Chosen(c)'
    BY <2>1 DEF Serves, Chosen, BooksLesson, At, Idle, Req, Saw
  <2>3. Retired(c)'
    <3>1. Req(c)' = Req(c)
      BY DEF Req
    <3>2. QED
      BY <1>1, <2>1, <3>1 DEF Serves, Retired, Booked, At, Idle
  <2>4. QED
    BY <2>2, <2>3 DEF Serves
<1>5. QED
  BY <1>2, <1>4 DEF LessonInv

LEMMA LessonInvNext == FleetInv /\ CourseInv /\ LessonInv /\ [Next]_vars => LessonInv'
<1> SUFFICES ASSUME FleetInv, CourseInv, LessonInv, [Next]_vars PROVE LessonInv'
  OBVIOUS
<1>1. CASE Tick
  <2>1. UNCHANGED <<bookings, vehicles, courses, handlers>> /\ clock' = clock + 1
    BY <1>1 DEF Tick, tables, fleet, teaching, control
  <2>2. clock' \in Int /\ clock' >= clock
    BY <2>1 DEF LessonInv, LessonsTyped
  <2>3. QED
    BY <2>1, <2>2, TimePasses
<1>2. CASE UNCHANGED vars
  <2>1. UNCHANGED <<bookings, vehicles, courses, handlers, clock>>
    BY <1>2 DEF vars, tables, fleet, teaching, control
  <2>2. clock' \in Int /\ clock' >= clock
    BY <2>1 DEF LessonInv, LessonsTyped
  <2>3. QED
    BY <2>1, <2>2, TimePasses
<1>3. ASSUME NEW c \in Clients, Step(c) \/ Fail(c) PROVE LessonInv'
  BY <1>3, LessonStepKeeps
<1>4. QED
  BY <1>1, <1>2, <1>3 DEF Next

\* A lesson to come keeps a vehicle that is in service and of its course's category:
\* retiring the vehicle, taking a category from it and changing the course all
\* give way to a lesson booked meanwhile, or the booking gives way to them.
THEOREM LessonsKeepTheirVehicle == Spec => []LessonsKeepVehicle
<1>1. LessonInv => LessonsKeepVehicle
  BY DEF LessonInv
<1>2. QED
  BY <1>1, FleetInvInit, FleetInvNext, CourseInvInit, CourseInvNext, LessonInvInit,
     LessonInvNext, PTL DEF Spec

(* ------------------------------------------------- forms and their writes -- *)
LEMMA PreflightIsLenient == ASSUME None \notin SeatStates PROVE PreflightNotStricter
<1>1. ASSUME NEW r \in LessonForms, CanBook(r), VehicleServes(r.vehicle, r.instructor, r.course)
      PROVE  LessonPreflight(r)
  <2>1. Participates(r.course, r.student, FALSE)
    BY <1>1 DEF CanBook, Participates, SeatStates
  <2>2. QED
    BY <1>1, <2>1 DEF CanBook, LessonPreflight
<1>2. ASSUME NEW r \in EventForms, CanCreateEvent(r)
      PROVE  EventPreflight(r)
  BY <1>2 DEF CanCreateEvent, EventPreflight
<1>3. QED
  BY <1>1, <1>2 DEF PreflightNotStricter

LEMMA SelfBookingAgrees == SelfBookPreflightAgrees
BY DEF SelfBookPreflightAgrees, SelfBookPreflight, CanBookOwn

LEMMA VehiclesOfferedServe == OfferedVehiclesServe
BY DEF OfferedVehiclesServe, OfferedVehicles, VehicleServes, FleetOf, Repairs, Expired,
       DrivenBy, Live

LEMMA StudentsOfferedFit ==
  ASSUME NEW m \in Managers, NEW s \in Schools, NEW chosen \in SUBSET Instructors,
         NEW pair \in OfferedPairs(m, s, chosen), NEW v \in Vehicles
  PROVE  \E r \in LessonForms :
           /\ r.actor = m /\ <<r.course, r.student>> = pair
           /\ r.instructor \in chosen
           /\ clock < LastTick => CanBook(r)
<1>1. /\ MayBookAt(m, s)
      /\ \A i \in chosen : staff[i].school = s /\ staff[i].active
      /\ pair \in Courses \X Students
      /\ Live(courses[pair[1]]) /\ courses[pair[1]].school = s
      /\ courses[pair[1]].type \in UNION {staff[i].types : i \in chosen}
      /\ pupils[pair[2]].active /\ seats[pair] = "ACTIVE"
  BY DEF OfferedPairs
<1>2. PICK i \in chosen : courses[pair[1]].type \in staff[i].types
  BY <1>1
<1>3. PICK k \in Courses, p \in Students : pair = <<k, p>>
  BY <1>1
<1> DEFINE r == [actor |-> m, course |-> k, student |-> p, instructor |-> i,
                 vehicle |-> v, at |-> LastTick]
<1>4. r \in LessonForms
  BY DEF LessonForms
<1>5. clock < LastTick => CanBook(r)
  BY <1>1, <1>2, <1>3 DEF CanBook, TimeBookable, Participates, MayTeach, Qualified
<1>6. QED
  BY <1>3, <1>4, <1>5

\* With any vehicle at all, whatever the tables hold: what the preflights answer and
\* the lists offer to staff and students is what the writes accept.
THEOREM FormsAgree ==
  ASSUME Vehicles # {}
  PROVE  Spec => []FormsAgreeWithWrites
<1>1. OfferedStudentsCanBeBooked
  BY StudentsOfferedFit DEF OfferedStudentsCanBeBooked
<1>2. FormsAgreeWithWrites
  BY <1>1, PreflightIsLenient, SelfBookingAgrees, VehiclesOfferedServe, OfficeAssumption
  DEF FormsAgreeWithWrites
<1>3. QED
  BY <1>2, PTL
=============================================================================
