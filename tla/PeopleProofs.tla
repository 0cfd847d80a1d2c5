---------------------------- MODULE PeopleProofs ----------------------------
(***************************************************************************)
(* People and money, for every number of handlers, schools, courses and    *)
(* students: a manager moves nobody out of a school of somebody else, is   *)
(* not left with a school he has deleted as his default, and can settle    *)
(* every open payment of a school he has.  The right to move a person is   *)
(* checked some statements before the move is written, the debts of a      *)
(* student some statements before the archive; the lock on the person's row*)
(* is what keeps the answer true until then.  The default is reconciled    *)
(* from two reads outside any transaction; that a deleted school stays     *)
(* deleted is what that relies on.                                         *)
(*                                                                         *)
(* At the end, with the invariants of the three modules at hand, the types *)
(* of all the tables.                                                      *)
(***************************************************************************)
EXTENDS CourseProofs, WellFoundedInduction

(* ------------------------------------------ people: the inductive invariant *)
PeopleTyped ==
  /\ staff \in [Instructors -> StaffRow]
  /\ pupils \in [Students -> PupilRow]

\* The school has a row, and it is the manager's.
BelongsTo(s, m) == s \in Schools /\ schools[s].state # "free" /\ schools[s].owner = m

\* Who moves an instructor holds the instructor, and has the right to.
MovingInstructor(c) ==
  LET i == Req(c).instructor
  IN ~Idle(c) /\ Req(c).op = "moveInstructor" =>
       /\ handlers[c].step \in {"check", "write"} => locked[i] = c
       /\ handlers[c].step = "write" /\ Req(c).actor # Admin =>
            BelongsTo(staff[i].school, Req(c).actor)

MovingStudent(c) ==
  LET p == Req(c).student
  IN ~Idle(c) /\ Req(c).op = "moveStudent" =>
       /\ handlers[c].step \in {"profile", "check", "write"} => locked[p] = c
       /\ handlers[c].step = "write" /\ Req(c).actor # Admin =>
            BelongsTo(pupils[p].school, Req(c).actor)

Moves(c) == MovingInstructor(c) /\ MovingStudent(c)

StaffInv ==
  /\ PeopleTyped
  /\ \A c \in Clients : Moves(c)

(* --------------------------------------------------------------- requests *)
LEMMA PeopleShapes ==
  ASSUME NEW r \in Requests
  PROVE  /\ r.op = "qualify" => r.instructor \in Instructors /\ r.types \in Opt(SUBSET Types)
         /\ r.op = "moveInstructor" => r.instructor \in Instructors /\ r.school \in Schools
         /\ r.op = "moveStudent" => r.student \in Students /\ r.school \in Schools
<1>1. CASE r \in FleetRequests \cup SchoolRequests
  BY <1>1 DEF FleetRequests, SchoolRequests
<1>2. CASE r \in CourseRequests \cup SeatRequests
  BY <1>2 DEF CourseRequests, SeatRequests
<1>3. CASE r \in BookingRequests
  BY <1>3 DEF BookingRequests
<1>4. CASE r \in PeopleRequests \cup PaymentRequests
  BY <1>4 DEF PeopleRequests, PaymentRequests
<1>5. QED
  BY <1>1, <1>2, <1>3, <1>4 DEF Requests

(* ----------------------------------------------------- what others rely on *)
\* A school never loses its row or its owner.
OwnersStay ==
  \A s \in Schools : schools[s].state # "free" =>
    schools'[s].state # "free" /\ schools'[s].owner = schools[s].owner

\* Nobody somebody else holds changes school.
HeldStay(c) ==
  /\ \A i \in Instructors :
       locked[i] \notin {None, c} => staff'[i].school = staff[i].school
  /\ \A p \in Students :
       locked[p] \notin {None, c} => pupils'[p].school = pupils[p].school

LEMMA OthersMove ==
  ASSUME FleetInv, StaffInv, NEW c \in Clients, Steady(c), OwnersStay, HeldStay(c),
         NEW d \in Clients, d # c
  PROVE  Moves(d)'
<1>1. /\ handlers'[d] = handlers[d] /\ Moves(d) /\ d # None
      /\ \A x \in Rows : locked[x] = d => locked'[x] = d
  BY OfficeAssumption DEF StaffInv, Steady
<1>2. Req(d)' = Req(d) /\ (Idle(d)' <=> Idle(d))
  BY <1>1 DEF Req, Idle
<1>3. \A s, m : BelongsTo(s, m) => BelongsTo(s, m)'
  BY DEF BelongsTo, OwnersStay
<1>4. MovingInstructor(d)'
  <2>1. CASE Idle(d) \/ Req(d).op # "moveInstructor"
    BY <1>2, <2>1 DEF MovingInstructor
  <2>2. CASE ~Idle(d) /\ Req(d).op = "moveInstructor"
    <3>1. PICK i \in Instructors : i = Req(d).instructor
      BY <2>2, OwnRequest, PeopleShapes
    <3>2. handlers[d].step \in {"check", "write"} =>
            /\ locked[i] = d /\ locked'[i] = d
            /\ staff'[i].school = staff[i].school
      BY <1>1, <2>2, <3>1 DEF Moves, MovingInstructor, HeldStay, Rows
    <3>3. handlers[d].step = "write" /\ Req(d).actor # Admin =>
            BelongsTo(staff[i].school, Req(d).actor)
      BY <1>1, <2>2, <3>1 DEF Moves, MovingInstructor
    <3>4. QED
      BY <1>1, <1>2, <1>3, <3>1, <3>2, <3>3 DEF MovingInstructor, BelongsTo
  <2>3. QED
    BY <2>1, <2>2
<1>5. MovingStudent(d)'
  <2>1. CASE Idle(d) \/ Req(d).op # "moveStudent"
    BY <1>2, <2>1 DEF MovingStudent
  <2>2. CASE ~Idle(d) /\ Req(d).op = "moveStudent"
    <3>1. PICK p \in Students : p = Req(d).student
      BY <2>2, OwnRequest, PeopleShapes
    <3>2. handlers[d].step \in {"profile", "check", "write"} =>
            /\ locked[p] = d /\ locked'[p] = d
            /\ pupils'[p].school = pupils[p].school
      BY <1>1, <2>2, <3>1 DEF Moves, MovingStudent, HeldStay, Rows
    <3>3. handlers[d].step = "write" /\ Req(d).actor # Admin =>
            BelongsTo(pupils[p].school, Req(d).actor)
      BY <1>1, <2>2, <3>1 DEF Moves, MovingStudent
    <3>4. QED
      BY <1>1, <1>2, <1>3, <3>1, <3>2, <3>3 DEF MovingStudent, BelongsTo
  <2>3. QED
    BY <2>1, <2>2
<1>6. QED
  BY <1>4, <1>5 DEF Moves

\* The handler moves nobody.
Elsewhere(c) ==
  handlers'[c] = None \/ handlers'[c].req.op \notin {"moveInstructor", "moveStudent"}

LEMMA ElsewhereMoves == ASSUME NEW c \in Clients, Elsewhere(c) PROVE Moves(c)'
BY DEF Elsewhere, Moves, MovingInstructor, MovingStudent, Idle, Req

LEMMA PeopleStay ==
  ASSUME FleetInv, StaffInv, NEW c \in Clients, Step(c) \/ Fail(c), UNCHANGED people,
         OwnersStay, Moves(c)'
  PROVE  StaffInv'
<1>1. PeopleTyped' /\ HeldStay(c)
  BY DEF StaffInv, PeopleTyped, people, HeldStay
<1>2. QED
  BY <1>1, OthersMove, StepIsSteady DEF StaffInv

(* ------------------------------------------------------- steps elsewhere -- *)
LEMMA SchoolsKeepOwners ==
  ASSUME FleetInv, NEW c \in Clients,
         FleetStep(c) \/ SchoolStep(c) \/ CourseStep(c) \/ BookingStep(c) \/ Fail(c)
  PROVE  OwnersStay /\ UNCHANGED people
<1>1. CASE \/ CreateVehicleWrite(c) \/ DeleteVehicleWrite(c) \/ SetDefaultVehicleWrite(c)
  BY <1>1 DEF CreateVehicleWrite, DeleteVehicleWrite, SetDefaultVehicleWrite, OwnersStay,
     FleetInv, Typed, SchoolRow
<1>2. CASE CreateSchoolWrite(c) \/ UpdateSchoolWrite(c) \/ DeleteSchoolWrite(c)
  BY <1>2 DEF CreateSchoolWrite, UpdateSchoolWrite, DeleteSchoolWrite, OwnersStay, FleetInv,
     Typed, SchoolRow
<1> USE DEF tables, fleet, teaching, people, Receive, Look, Take, OwnersStay
<1>3. CASE FleetStep(c) /\ ~(\/ CreateVehicleWrite(c) \/ DeleteVehicleWrite(c)
                             \/ SetDefaultVehicleWrite(c))
  BY <1>3 DEF FleetStep, CreateVehicleBegin, CreateVehicleLock, CreateVehicleCount,
     UpdateVehicleBegin, UpdateVehicleCheck, UpdateVehicleWrite, UpdateVehicleRetry,
     VehicleStatusBegin, VehicleStatusWrite, ListVehiclesBegin, ListVehiclesRepair,
     ListVehiclesEnd, DeleteVehicleBegin, DeleteVehicleLock, DeleteVehicleLockSchool,
     DeleteVehicleCheck, DeleteVehicleCount, SetDefaultVehicleBegin,
     SetDefaultVehicleLock, SetDefaultVehicleCheck
<1>4. CASE SchoolStep(c) /\ ~(\/ CreateSchoolWrite(c) \/ UpdateSchoolWrite(c)
                              \/ DeleteSchoolWrite(c))
  BY <1>4 DEF SchoolStep, CreateSchoolBegin, SetDefaultSchoolBegin, SetDefaultSchoolWrite,
     UpdateSchoolBegin, DeleteSchoolBegin, DeleteSchoolRead, DeleteSchoolMark,
     ReadDefaultBegin, ReconcileOwned, ReconcileStored, ReconcileRepair
<1>5. CASE CourseStep(c)
  BY <1>5 DEF CourseStep, CreateCourseBegin, CreateCourseWrite, PatchCourseBegin,
     PatchCourseCheck, PatchCourseWrite, PatchCourseRetry, DeleteCourseBegin,
     DeleteCourseLock, DeleteCourseCount, DeleteCourseWrite, EnrolBegin, EnrolWrite,
     SetSeatBegin, SetSeatWrite
<1>6. CASE BookingStep(c)
  BY <1>6 DEF BookingStep, BookLessonBegin, BookOwnLessonBegin, BookLessonCheck,
     BookLessonCommit, BookLessonRetry, CancelBooking, CreateEventBegin,
     CreateEventInsert, CheckLesson
<1>7. CASE Fail(c)
  BY <1>7 DEF Fail
<1>8. QED
  BY <1>1, <1>2, <1>3, <1>4, <1>5, <1>6, <1>7

LEMMA OthersMoveNobody ==
  ASSUME FleetInv, NEW c \in Clients,
         FleetStep(c) \/ SchoolStep(c) \/ CourseStep(c) \/ BookingStep(c) \/ Fail(c)
  PROVE  Elsewhere(c)
<1>1. CASE FleetStep(c)
  BY <1>1, AwayFleet DEF Away, Busy, FleetOps, Elsewhere
<1>2. CASE SchoolStep(c)
  BY <1>2, AwaySchools DEF Away, Busy, SchoolOps, Elsewhere
<1>3. CASE CourseStep(c)
  BY <1>3, CourseElsewhere DEF Busy, CourseOps, Elsewhere
<1>4. CASE BookingStep(c)
  <2>1. CASE BookLessonCommit(c) \/ CreateEventInsert(c)
    BY <2>1, Ended DEF BookLessonCommit, CreateEventInsert, Elsewhere
  <2>2. CASE CancelBooking(c)
    BY <2>2 DEF CancelBooking, Idle, Elsewhere
  <2>3. CASE ~(BookLessonCommit(c) \/ CreateEventInsert(c) \/ CancelBooking(c))
    BY <1>4, <2>3, AwayBooking DEF BookingStep, Away, Busy, BookingOps, Elsewhere
  <2>4. QED
    BY <2>1, <2>2, <2>3
<1>5. CASE Fail(c)
  BY <1>5, Ended DEF Fail, Elsewhere
<1>6. QED
  BY <1>1, <1>2, <1>3, <1>4, <1>5

LEMMA OtherPeople ==
  ASSUME FleetInv, NEW c \in Clients,
         \/ QualifyBegin(c) \/ QualifyLock(c) \/ QualifyCheck(c) \/ QualifyWrite(c)
         \/ ArchiveBegin(c) \/ ArchiveLock(c) \/ ArchiveCheck(c) \/ ArchiveWrite(c)
         \/ PaymentBegin(c) \/ PaymentLock(c) \/ PaymentResolve(c) \/ PaymentWrite(c)
  PROVE  Elsewhere(c) /\ UNCHANGED schools
<1> DEFINE ops == {"qualify", "archive"} \cup PaymentOps
<1>1. Busy(c, ops) /\ UNCHANGED schools
  <2> USE DEF Away, tables, fleet
  <2>1. CASE QualifyBegin(c) \/ ArchiveBegin(c) \/ PaymentBegin(c)
    <3>1. PICK r \in pending : r.op \in ops /\ \E step, saw : Receive(c, r, step, saw)
      BY <2>1 DEF QualifyBegin, ArchiveBegin, PaymentBegin
    <3>2. QED
      BY <3>1, BusyReceived DEF Receive
  <2>2. CASE \/ QualifyLock(c) \/ QualifyCheck(c) \/ ArchiveLock(c) \/ ArchiveCheck(c)
             \/ PaymentLock(c) \/ PaymentResolve(c)
    <3>1. PICK step, saw : /\ ~Idle(c) /\ Req(c).op \in ops
                           /\ Goto(c, step, saw) /\ UNCHANGED schools
      BY <2>2 DEF QualifyLock, QualifyCheck, ArchiveLock, ArchiveCheck, PaymentLock,
         PaymentResolve, Take, Look, At, Req
    <3>2. QED
      BY <3>1, BusyWentOn
  <2>3. CASE QualifyWrite(c) \/ ArchiveWrite(c) \/ PaymentWrite(c)
    BY <2>3, BusyEnded DEF QualifyWrite, ArchiveWrite, PaymentWrite
  <2>4. QED
    BY <2>1, <2>2, <2>3
<1>2. QED
  BY <1>1 DEF Busy, PaymentOps, Elsewhere

\* Qualifications and the archive leave the school of a person alone.
LEMMA OtherPeopleKeep ==
  ASSUME FleetInv, StaffInv, NEW c \in Clients,
         \/ QualifyBegin(c) \/ QualifyLock(c) \/ QualifyCheck(c) \/ QualifyWrite(c)
         \/ ArchiveBegin(c) \/ ArchiveLock(c) \/ ArchiveCheck(c) \/ ArchiveWrite(c)
         \/ PaymentBegin(c) \/ PaymentLock(c) \/ PaymentResolve(c) \/ PaymentWrite(c)
  PROVE  StaffInv'
<1>1. Moves(c)' /\ OwnersStay /\ Step(c)
  BY OtherPeople, ElsewhereMoves DEF OwnersStay, Step, PeopleStep
<1>2. PeopleTyped' /\ HeldStay(c)
  <2>1. CASE QualifyWrite(c)
    <3>1. /\ ~Idle(c) /\ Req(c).op = "qualify" /\ UNCHANGED pupils
          /\ staff' = IF Req(c).types = Keep THEN staff
                      ELSE [staff EXCEPT ![Req(c).instructor].types = Req(c).types]
      BY <2>1 DEF QualifyWrite, At, Req
    <3>2. Req(c).instructor \in Instructors /\ Req(c).types \in Opt(SUBSET Types)
      BY <3>1, OwnRequest, PeopleShapes
    <3>3. QED
      BY <3>1, <3>2 DEF StaffInv, PeopleTyped, StaffRow, Opt, HeldStay
  <2>2. CASE ArchiveWrite(c)
    BY <2>2 DEF ArchiveWrite, StaffInv, PeopleTyped, StaffRow, PupilRow, HeldStay
  <2>3. CASE ~(QualifyWrite(c) \/ ArchiveWrite(c))
    <3>1. UNCHANGED people
      BY <2>3 DEF QualifyBegin, QualifyLock, QualifyCheck, ArchiveBegin, ArchiveLock,
         ArchiveCheck, PaymentBegin, PaymentLock, PaymentResolve, PaymentWrite, Receive,
         Look, Take, tables
    <3>2. QED
      BY <3>1 DEF StaffInv, PeopleTyped, people, HeldStay
  <2>4. QED
    BY <2>1, <2>2, <2>3
<1>3. QED
  BY <1>1, <1>2, OthersMove, StepIsSteady DEF StaffInv

(* ---------------------------------------------------------------- the moves *)
LEMMA MoveHandler ==
  ASSUME NEW c \in Clients, NEW r, NEW step, NEW saw,
         handlers'[c] = [req |-> r, step |-> step, saw |-> saw],
         r.op = "moveInstructor" /\ step \in {"check", "write"} => locked'[r.instructor] = c,
         r.op = "moveInstructor" /\ step = "write" /\ r.actor # Admin =>
           BelongsTo(staff[r.instructor].school, r.actor)',
         r.op = "moveStudent" /\ step \in {"profile", "check", "write"} =>
           locked'[r.student] = c,
         r.op = "moveStudent" /\ step = "write" /\ r.actor # Admin =>
           BelongsTo(pupils[r.student].school, r.actor)'
  PROVE  Moves(c)'
<1>1. handlers'[c].req = r /\ handlers'[c].step = step
  OBVIOUS
<1>2. MovingInstructor(c)'
  BY <1>1 DEF MovingInstructor, BelongsTo, Idle, Req
<1>3. MovingStudent(c)'
  BY <1>1 DEF MovingStudent, BelongsTo, Idle, Req
<1>4. QED
  BY <1>2, <1>3 DEF Moves

LEMMA MayMove ==
  ASSUME NEW s \in Null(Schools), NEW m, m # Admin, Manages(m, s)
  PROVE  BelongsTo(s, m)
BY DEF Manages, Owns, Live, BelongsTo, Null

\* A step of a move before its write.
LEMMA Moving ==
  ASSUME FleetInv, StaffInv, NEW c \in Clients, Step(c), NEW r \in Requests, NEW step, NEW saw,
         handlers'[c] = [req |-> r, step |-> step, saw |-> saw], UNCHANGED tables,
         r.op = "moveInstructor" /\ step \in {"check", "write"} => locked'[r.instructor] = c,
         r.op = "moveInstructor" /\ step = "write" =>
           Manages(r.actor, staff[r.instructor].school),
         r.op = "moveStudent" /\ step \in {"profile", "check", "write"} =>
           locked'[r.student] = c,
         r.op = "moveStudent" /\ step = "write" =>
           Manages(r.actor, pupils[r.student].school)
  PROVE  StaffInv'
<1>1. UNCHANGED <<schools, people>>
  BY DEF tables, fleet
<1>2. r.op = "moveInstructor" /\ step = "write" /\ r.actor # Admin =>
        BelongsTo(staff[r.instructor].school, r.actor)'
  <2>1. SUFFICES ASSUME r.op = "moveInstructor", step = "write", r.actor # Admin
                 PROVE  BelongsTo(staff[r.instructor].school, r.actor)'
    OBVIOUS
  <2>2. staff[r.instructor].school \in Null(Schools)
    BY <2>1, PeopleShapes DEF StaffInv, PeopleTyped, StaffRow
  <2>3. BelongsTo(staff[r.instructor].school, r.actor)
    BY <2>1, <2>2, MayMove
  <2>4. QED
    BY <1>1, <2>3 DEF BelongsTo, people
<1>3. r.op = "moveStudent" /\ step = "write" /\ r.actor # Admin =>
        BelongsTo(pupils[r.student].school, r.actor)'
  <2>1. SUFFICES ASSUME r.op = "moveStudent", step = "write", r.actor # Admin
                 PROVE  BelongsTo(pupils[r.student].school, r.actor)'
    OBVIOUS
  <2>2. pupils[r.student].school \in Null(Schools)
    BY <2>1, PeopleShapes DEF StaffInv, PeopleTyped, PupilRow
  <2>3. BelongsTo(pupils[r.student].school, r.actor)
    BY <2>1, <2>2, MayMove
  <2>4. QED
    BY <1>1, <2>3 DEF BelongsTo, people
<1>4. Moves(c)'
  BY <1>2, <1>3, MoveHandler
<1>5. OwnersStay
  BY <1>1 DEF OwnersStay
<1>6. QED
  BY <1>1, <1>4, <1>5, PeopleStay

LEMMA MovingBegins ==
  ASSUME FleetInv, StaffInv, NEW c \in Clients,
         MoveInstructorBegin(c) \/ MoveStudentBegin(c)
  PROVE  StaffInv'
<1>1. PICK r \in pending :
        \E step \in {"obligations", "lock"} : \E saw : Receive(c, r, step, saw)
  BY DEF MoveInstructorBegin, MoveStudentBegin
<1>2. PICK step \in {"obligations", "lock"} : \E saw : Receive(c, r, step, saw)
  BY <1>1
<1>3. PICK saw : Receive(c, r, step, saw)
  BY <1>2
<1>4. r \in Requests /\ handlers'[c] = [req |-> r, step |-> step, saw |-> saw]
  BY <1>3, Received
<1>5. UNCHANGED tables /\ Step(c)
  BY <1>3 DEF Receive, Step, PeopleStep
<1>6. QED
  BY <1>4, <1>5, Moving

LEMMA MovingLocks ==
  ASSUME FleetInv, StaffInv, NEW c \in Clients,
         \/ MoveInstructorObligations(c) \/ MoveInstructorLock(c)
         \/ MoveStudentLock(c) \/ MoveStudentLockProfile(c)
  PROVE  StaffInv'
<1>1. ~Idle(c) /\ Req(c) \in Requests /\ Step(c)
  BY OwnRequest DEF MoveInstructorObligations, MoveInstructorLock, MoveStudentLock,
     MoveStudentLockProfile, At, Step, PeopleStep
<1>2. CASE MoveInstructorObligations(c)
  <2>1. Req(c).op = "moveInstructor" /\ Look(c, "lock", Saw(c))
    BY <1>2 DEF MoveInstructorObligations, At, Req
  <2>2. handlers'[c] = [req |-> Req(c), step |-> "lock", saw |-> Saw(c)] /\ UNCHANGED tables
    BY <1>1, <2>1, WentOn DEF Look
  <2>3. QED
    BY <1>1, <2>1, <2>2, Moving
<1>3. CASE MoveInstructorLock(c)
  <2>1. Req(c).op = "moveInstructor" /\ Take(c, Req(c).instructor, "check", Saw(c))
    BY <1>3 DEF MoveInstructorLock, At, Req
  <2>2. Req(c).instructor \in Rows
    BY <1>1, <2>1, PeopleShapes DEF Rows
  <2>3. locked'[Req(c).instructor] = c
    BY <1>1, <2>1, <2>2, Took
  <2>4. handlers'[c] = [req |-> Req(c), step |-> "check", saw |-> Saw(c)] /\ UNCHANGED tables
    BY <1>1, <2>1, WentOn DEF Take
  <2>5. QED
    BY <1>1, <2>1, <2>3, <2>4, Moving
<1>4. CASE MoveStudentLock(c)
  <2>1. Req(c).op = "moveStudent" /\ Take(c, Req(c).student, "profile", None)
    BY <1>4 DEF MoveStudentLock, At, Req
  <2>2. Req(c).student \in Rows
    BY <1>1, <2>1, PeopleShapes DEF Rows
  <2>3. locked'[Req(c).student] = c
    BY <1>1, <2>1, <2>2, Took
  <2>4. handlers'[c] = [req |-> Req(c), step |-> "profile", saw |-> None] /\ UNCHANGED tables
    BY <1>1, <2>1, WentOn DEF Take
  <2>5. QED
    BY <1>1, <2>1, <2>3, <2>4, Moving
<1>5. CASE MoveStudentLockProfile(c)
  <2>1. /\ Req(c).op = "moveStudent" /\ handlers[c].step = "profile"
        /\ Take(c, Profile(Req(c).student), "check", None)
    BY <1>5 DEF MoveStudentLockProfile, At, Req
  <2>2. locked[Req(c).student] = c
    BY <1>1, <2>1 DEF StaffInv, Moves, MovingStudent
  <2>3. locked'[Req(c).student] = c
    BY <1>1, <2>1, <2>2, PeopleShapes DEF Take, FleetInv, Typed, Rows
  <2>4. handlers'[c] = [req |-> Req(c), step |-> "check", saw |-> None] /\ UNCHANGED tables
    BY <1>1, <2>1, WentOn DEF Take
  <2>5. QED
    BY <1>1, <2>1, <2>3, <2>4, Moving
<1>6. QED
  BY <1>2, <1>3, <1>4, <1>5

LEMMA MovingChecks ==
  ASSUME FleetInv, StaffInv, NEW c \in Clients,
         MoveInstructorCheck(c) \/ MoveStudentCheck(c)
  PROVE  StaffInv'
<1>1. PICK saw :
        /\ ~Idle(c) /\ handlers[c].step = "check" /\ Look(c, "write", saw)
        /\ \/ /\ Req(c).op = "moveInstructor"
              /\ Manages(Req(c).actor, staff[Req(c).instructor].school)
           \/ /\ Req(c).op = "moveStudent"
              /\ Manages(Req(c).actor, pupils[Req(c).student].school)
  BY DEF MoveInstructorCheck, MoveStudentCheck, At, Req
<1>2. Req(c) \in Requests /\ Step(c)
  BY <1>1, OwnRequest DEF Step, PeopleStep
<1>3. /\ handlers'[c] = [req |-> Req(c), step |-> "write", saw |-> saw]
      /\ UNCHANGED tables /\ locked' = locked
  BY <1>1, WentOn DEF Look
<1>4. /\ Req(c).op = "moveInstructor" => locked'[Req(c).instructor] = c
      /\ Req(c).op = "moveStudent" => locked'[Req(c).student] = c
  BY <1>1, <1>3 DEF StaffInv, Moves, MovingInstructor, MovingStudent
<1>5. QED
  BY <1>1, <1>2, <1>3, <1>4, Moving

\* The person moved is held by the one who moves, and by nobody else.
LEMMA MoveWritten ==
  ASSUME FleetInv, StaffInv, NEW c \in Clients,
         MoveInstructorWrite(c) \/ MoveStudentWrite(c)
  PROVE  StaffInv'
<1>1. ~Idle(c) /\ handlers[c].step = "write" /\ Finish(c) /\ UNCHANGED schools
  BY DEF MoveInstructorWrite, MoveStudentWrite, At, fleet
<1>2. Moves(c)' /\ OwnersStay /\ Step(c)
  BY <1>1, Ended, ElsewhereMoves DEF Elsewhere, OwnersStay, Step, PeopleStep
<1>3. PeopleTyped' /\ HeldStay(c)
  <2>1. CASE MoveInstructorWrite(c)
    <3>1. /\ Req(c).op = "moveInstructor" /\ UNCHANGED pupils
          /\ staff' = [staff EXCEPT ![Req(c).instructor].school = Req(c).school]
      BY <2>1 DEF MoveInstructorWrite, At, Req
    <3>2. Req(c).instructor \in Instructors /\ Req(c).school \in Schools
      BY <1>1, <3>1, OwnRequest, PeopleShapes
    <3>3. locked[Req(c).instructor] = c
      BY <1>1, <3>1 DEF StaffInv, Moves, MovingInstructor
    <3>4. QED
      BY <3>1, <3>2, <3>3 DEF StaffInv, PeopleTyped, StaffRow, Null, HeldStay
  <2>2. CASE MoveStudentWrite(c)
    <3>1. /\ Req(c).op = "moveStudent" /\ UNCHANGED staff
          /\ pupils' = [pupils EXCEPT ![Req(c).student].school = Req(c).school]
      BY <2>2 DEF MoveStudentWrite, At, Req
    <3>2. Req(c).student \in Students /\ Req(c).school \in Schools
      BY <1>1, <3>1, OwnRequest, PeopleShapes
    <3>3. locked[Req(c).student] = c
      BY <1>1, <3>1 DEF StaffInv, Moves, MovingStudent
    <3>4. QED
      BY <3>1, <3>2, <3>3 DEF StaffInv, PeopleTyped, PupilRow, Null, HeldStay
  <2>3. QED
    BY <2>1, <2>2
<1>4. QED
  BY <1>2, <1>3, OthersMove, StepIsSteady DEF StaffInv

(* ------------------------------------------------------ people: the theorem *)
LEMMA StaffStepKeeps ==
  ASSUME FleetInv, StaffInv, NEW c \in Clients, Step(c) \/ Fail(c)
  PROVE  StaffInv'
<1>1. CASE PeopleStep(c)
  BY <1>1, OtherPeopleKeep, MovingBegins, MovingLocks, MovingChecks, MoveWritten
  DEF PeopleStep
<1>2. CASE FleetStep(c) \/ SchoolStep(c) \/ CourseStep(c) \/ BookingStep(c) \/ Fail(c)
  BY <1>2, SchoolsKeepOwners, OthersMoveNobody, ElsewhereMoves, PeopleStay
<1>3. QED
  BY <1>1, <1>2 DEF Step

LEMMA StaffInvInit == Init => StaffInv
<1> SUFFICES ASSUME Init PROVE StaffInv
  OBVIOUS
<1>1. PICK o \in Openings : staff = o.staff /\ pupils = o.pupils
  BY DEF Init
<1>2. PeopleTyped
  BY <1>1, OpeningsAssumption DEF PeopleTyped
<1>3. \A c \in Clients : Moves(c)
  BY DEF Init, Moves, MovingInstructor, MovingStudent, Idle
<1>4. QED
  BY <1>2, <1>3 DEF StaffInv

LEMMA StaffInvNext == FleetInv /\ StaffInv /\ [Next]_vars => StaffInv'
<1> SUFFICES ASSUME FleetInv, StaffInv, [Next]_vars PROVE StaffInv'
  OBVIOUS
<1>1. CASE Tick \/ UNCHANGED vars
  <2>1. UNCHANGED <<schools, staff, pupils, locked, handlers>>
    BY <1>1 DEF Tick, vars, tables, fleet, people, control
  <2>2. QED
    BY <2>1 DEF StaffInv, PeopleTyped, Moves, MovingInstructor, MovingStudent, BelongsTo,
                Idle, Req
<1>2. ASSUME NEW c \in Clients, Step(c) \/ Fail(c) PROVE StaffInv'
  BY <1>2, StaffStepKeeps
<1>3. QED
  BY <1>1, <1>2 DEF Next

\* A manager who moves a person does it out of a school of his own: if somebody else
\* has moved the person since the request was first checked, the check under the
\* lock of the person refuses.
THEOREM MovesAreOwn == Spec => MovesFromOwnSchool
<1>1. StaffInv =>
        \A c \in Clients :
          /\ MoveInstructorWrite(c) /\ Req(c).actor # Admin =>
               schools[staff[Req(c).instructor].school].owner = Req(c).actor
          /\ MoveStudentWrite(c) /\ Req(c).actor # Admin =>
               schools[pupils[Req(c).student].school].owner = Req(c).actor
  BY DEF StaffInv, Moves, MovingInstructor, MovingStudent, BelongsTo, MoveInstructorWrite,
         MoveStudentWrite, At, Req
<1>2. StaffInv =>
        [\A c \in Clients :
           /\ MoveInstructorWrite(c) /\ Req(c).actor # Admin =>
                schools[staff[Req(c).instructor].school].owner = Req(c).actor
           /\ MoveStudentWrite(c) /\ Req(c).actor # Admin =>
                schools[pupils[Req(c).student].school].owner = Req(c).actor]_vars
  BY <1>1
<1>3. QED
  BY <1>2, FleetInvInit, FleetInvNext, StaffInvInit, StaffInvNext, PTL
  DEF Spec, MovesFromOwnSchool

(* ---------------------------- the default school: the inductive invariant *)
\* After the school is deleted the handler looks for another default among
\* schools that it is not one of.
Closed(c) ==
  LET s == Req(c).school
  IN ~Idle(c) /\ Req(c).op = "deleteSchool" =>
       /\ handlers[c].step \in {"owned", "stored", "repair"} => schools[s].state = "gone"
       /\ handlers[c].step = "stored" => Saw(c) \subseteq Schools \ {s}
       /\ handlers[c].step = "repair" => Saw(c) \in Null(Schools) \ {s}

DefaultsTyped == defaultOsk = [m \in Managers |-> defaultOsk[m]]

ClosedInv == DefaultsTyped /\ \A c \in Clients : Closed(c)

GoneStays ==
  \A s \in Schools : schools[s].state = "gone" => schools'[s].state = "gone"

LEMMA SchoolsStayGone ==
  ASSUME FleetInv, NEW c \in Clients, Step(c) \/ Fail(c)
  PROVE  GoneStays
<1>1. CASE \/ CreateVehicleWrite(c) \/ DeleteVehicleWrite(c) \/ SetDefaultVehicleWrite(c)
  BY <1>1 DEF CreateVehicleWrite, DeleteVehicleWrite, SetDefaultVehicleWrite, GoneStays,
     FleetInv, Typed, SchoolRow
<1>2. CASE CreateSchoolWrite(c) \/ UpdateSchoolWrite(c) \/ DeleteSchoolWrite(c)
  BY <1>2 DEF CreateSchoolWrite, UpdateSchoolWrite, DeleteSchoolWrite, GoneStays, FleetInv,
     Typed, SchoolRow
<1>3. CASE FleetStep(c) /\ ~(\/ CreateVehicleWrite(c) \/ DeleteVehicleWrite(c)
                             \/ SetDefaultVehicleWrite(c))
  <2>1. UNCHANGED schools
    BY <1>3 DEF FleetStep, CreateVehicleBegin, CreateVehicleLock, CreateVehicleCount,
       UpdateVehicleBegin, UpdateVehicleCheck, UpdateVehicleWrite, UpdateVehicleRetry,
       VehicleStatusBegin, VehicleStatusWrite, ListVehiclesBegin, ListVehiclesRepair,
       ListVehiclesEnd, DeleteVehicleBegin, DeleteVehicleLock, DeleteVehicleLockSchool,
       DeleteVehicleCheck, DeleteVehicleCount, SetDefaultVehicleBegin,
       SetDefaultVehicleLock, SetDefaultVehicleCheck, Receive, Look, Take, tables, fleet
  <2>2. QED
    BY <2>1 DEF GoneStays
<1>4. CASE SchoolStep(c) /\ ~(\/ CreateSchoolWrite(c) \/ UpdateSchoolWrite(c)
                              \/ DeleteSchoolWrite(c))
  <2>1. UNCHANGED schools
    BY <1>4 DEF SchoolStep, CreateSchoolBegin, SetDefaultSchoolBegin, SetDefaultSchoolWrite,
       UpdateSchoolBegin, DeleteSchoolBegin, DeleteSchoolRead, DeleteSchoolMark,
       ReadDefaultBegin, ReconcileOwned, ReconcileStored, ReconcileRepair,
       Receive, Look, Take, tables, fleet
  <2>2. QED
    BY <2>1 DEF GoneStays
<1>5. CASE CourseStep(c) \/ BookingStep(c) \/ PeopleStep(c)
  BY <1>5, CourseSteps, BookingSteps, PeopleSteps DEF Calm, Gentle, GoneStays
<1>6. CASE Fail(c)
  BY <1>6 DEF Fail, tables, fleet, GoneStays
<1>7. QED
  BY <1>1, <1>2, <1>3, <1>4, <1>5, <1>6 DEF Step

LEMMA DefaultsStayTyped ==
  ASSUME FleetInv, DefaultsTyped, NEW c \in Clients, Step(c) \/ Fail(c)
  PROVE  DefaultsTyped'
<1> USE DEF DefaultsTyped, tables, fleet, Receive, Look, Take
<1>1. CASE FleetStep(c)
  BY <1>1 DEF FleetStep, CreateVehicleBegin, CreateVehicleLock, CreateVehicleCount,
     CreateVehicleWrite, UpdateVehicleBegin, UpdateVehicleCheck, UpdateVehicleWrite,
     UpdateVehicleRetry, VehicleStatusBegin, VehicleStatusWrite, ListVehiclesBegin,
     ListVehiclesRepair, ListVehiclesEnd, DeleteVehicleBegin, DeleteVehicleLock,
     DeleteVehicleLockSchool, DeleteVehicleCheck, DeleteVehicleCount, DeleteVehicleWrite,
     SetDefaultVehicleBegin, SetDefaultVehicleLock, SetDefaultVehicleCheck,
     SetDefaultVehicleWrite
<1>2. CASE CreateSchoolWrite(c)
  BY <1>2 DEF CreateSchoolWrite
<1>3. CASE SetDefaultSchoolWrite(c) \/ DeleteSchoolWrite(c) \/ ReconcileRepair(c)
  BY <1>3 DEF SetDefaultSchoolWrite, DeleteSchoolWrite, ReconcileRepair
<1>4. CASE SchoolStep(c) /\ ~(\/ CreateSchoolWrite(c) \/ SetDefaultSchoolWrite(c)
                              \/ DeleteSchoolWrite(c) \/ ReconcileRepair(c))
  BY <1>4 DEF SchoolStep, CreateSchoolBegin, SetDefaultSchoolBegin, UpdateSchoolBegin,
     UpdateSchoolWrite, DeleteSchoolBegin, DeleteSchoolRead, DeleteSchoolMark,
     ReadDefaultBegin, ReconcileOwned, ReconcileStored
<1>5. CASE CourseStep(c)
  BY <1>5 DEF CourseStep, CreateCourseBegin, CreateCourseWrite, PatchCourseBegin,
     PatchCourseCheck, PatchCourseWrite, PatchCourseRetry, DeleteCourseBegin,
     DeleteCourseLock, DeleteCourseCount, DeleteCourseWrite, EnrolBegin, EnrolWrite,
     SetSeatBegin, SetSeatWrite
<1>6. CASE BookingStep(c)
  BY <1>6 DEF BookingStep, BookLessonBegin, BookOwnLessonBegin, BookLessonCheck,
     BookLessonCommit, BookLessonRetry, CancelBooking, CreateEventBegin,
     CreateEventInsert, CheckLesson
<1>7. CASE PeopleStep(c)
  BY <1>7 DEF PeopleStep, QualifyBegin, QualifyLock, QualifyCheck, QualifyWrite,
     MoveInstructorBegin, MoveInstructorObligations, MoveInstructorLock,
     MoveInstructorCheck, MoveInstructorWrite, MoveStudentBegin, MoveStudentLock,
     MoveStudentLockProfile, MoveStudentCheck, MoveStudentWrite, ArchiveBegin,
     ArchiveLock, ArchiveCheck, ArchiveWrite, PaymentBegin, PaymentLock,
     PaymentResolve, PaymentWrite
<1>8. CASE Fail(c)
  BY <1>8 DEF Fail
<1>9. QED
  BY <1>1, <1>2, <1>3, <1>4, <1>5, <1>6, <1>7, <1>8 DEF Step

LEMMA OthersStayClosed ==
  ASSUME FleetInv, ClosedInv, NEW c \in Clients, Step(c) \/ Fail(c),
         NEW d \in Clients, d # c
  PROVE  Closed(d)'
<1>1. handlers'[d] = handlers[d] /\ Closed(d) /\ GoneStays
  BY StepIsSteady, SchoolsStayGone DEF ClosedInv, Steady
<1>2. Req(d)' = Req(d) /\ Saw(d)' = Saw(d) /\ (Idle(d)' <=> Idle(d))
  BY <1>1 DEF Req, Saw, Idle
<1>3. CASE Idle(d) \/ Req(d).op # "deleteSchool"
  BY <1>2, <1>3 DEF Closed
<1>4. CASE ~Idle(d) /\ Req(d).op = "deleteSchool"
  <2>1. PICK s \in Schools : s = Req(d).school
    BY <1>4, OwnRequest, RequestShapes
  <2>2. schools[s].state = "gone" => schools'[s].state = "gone"
    BY <1>1 DEF GoneStays
  <2>3. QED
    BY <1>1, <1>2, <1>4, <2>1, <2>2 DEF Closed
<1>5. QED
  BY <1>3, <1>4

\* The handler deletes no school, or has not done so yet.
LEMMA ClosedHandler ==
  ASSUME NEW c \in Clients,
         \/ handlers'[c] = None \/ handlers'[c].req.op # "deleteSchool"
         \/ handlers'[c].step \in {"read", "mark", "write"}
  PROVE  Closed(c)'
BY DEF Closed, Idle, Req

(* The oldest of some schools is one of them.                              *)
LEMMA EarliestIsOne ==
  ASSUME FleetInv, NEW S \in SUBSET Schools, S # {}
  PROVE  Earliest(S) \in S
<1> DEFINE times == {schools[s].since : s \in S}
<1>1. times \subseteq Nat /\ times # {}
  BY DEF FleetInv, Typed, SchoolRow
<1> HIDE DEF times
<1>2. PICK n \in times : \A m \in times : <<m, n>> \notin OpToRel(<, Nat)
  BY <1>1, WFMin, NatLessThanWellFounded
<1>3. \A m \in times : n <= m
  <2>1. n \in Nat /\ \A m \in times : m \in Nat
    BY <1>1
  <2>2. \A m \in times : ~(m < n)
    BY <1>2, <2>1, Zenon DEF OpToRel
  <2>3. QED
    BY <2>1, <2>2
<1> USE DEF times
<1>4. PICK s \in S : schools[s].since = n
  BY <1>2
<1>5. \A t \in S : schools[s].since <= schools[t].since
  BY <1>3, <1>4
<1>6. QED
  BY <1>5 DEF Earliest

\* What a deletion puts in the place of the school, if anything.
LEMMA HeirIsAnother ==
  ASSUME FleetInv, ClosedInv, NEW c \in Clients, ~Idle(c), handlers[c].step = "stored",
         Req(c).op = "deleteSchool"
  PROVE  /\ Saw(c) \subseteq Schools \ {Req(c).school}
         /\ (IF Saw(c) = {} THEN None ELSE Earliest(Saw(c))) \in Null(Schools) \ {Req(c).school}
<1>1. Saw(c) \subseteq Schools \ {Req(c).school} /\ Req(c).school \in Schools
  BY OwnRequest, RequestShapes DEF ClosedInv, Closed
<1>2. QED
  BY <1>1, EarliestIsOne, OfficeAssumption DEF Null, Rows

LEMMA SchoolsClosed ==
  ASSUME FleetInv, ClosedInv, NEW c \in Clients, SchoolStep(c)
  PROVE  Closed(c)'
<1>1. CASE \/ CreateSchoolBegin(c) \/ SetDefaultSchoolBegin(c) \/ UpdateSchoolBegin(c)
           \/ DeleteSchoolBegin(c) \/ ReadDefaultBegin(c)
  <2>1. PICK r \in pending : /\ r.op # "deleteSchool" \/ DeleteSchoolBegin(c)
                             /\ r.op = "deleteSchool" => \E saw : Receive(c, r, "read", saw)
                             /\ \E step, saw : Receive(c, r, step, saw)
    BY <1>1 DEF CreateSchoolBegin, SetDefaultSchoolBegin, UpdateSchoolBegin,
       DeleteSchoolBegin, ReadDefaultBegin
  <2>2. PICK step, saw : /\ Receive(c, r, step, saw)
                         /\ r.op = "deleteSchool" => step = "read"
    BY <2>1
  <2>3. handlers'[c] = [req |-> r, step |-> step, saw |-> saw]
    BY <2>2, Received
  <2>4. QED
    BY <2>2, <2>3, ClosedHandler
<1>2. CASE DeleteSchoolRead(c) \/ DeleteSchoolMark(c)
  <2>1. PICK step \in {"mark", "write"} : ~Idle(c) /\ \E saw : Goto(c, step, saw)
    BY <1>2 DEF DeleteSchoolRead, DeleteSchoolMark, Look, Take, At
  <2>2. PICK saw : Goto(c, step, saw)
    BY <2>1
  <2>3. handlers'[c] = [req |-> Req(c), step |-> step, saw |-> saw]
    BY <2>1, <2>2, WentOn
  <2>4. QED
    BY <2>3, ClosedHandler
<1>3. CASE SetDefaultSchoolWrite(c) \/ UpdateSchoolWrite(c)
  BY <1>3, Ended, ClosedHandler DEF SetDefaultSchoolWrite, UpdateSchoolWrite
<1>4. CASE CreateSchoolWrite(c)
  <2>1. ~Idle(c) /\ Req(c).op = "createSchool" /\ (Finish(c) \/ Goto(c, "owned", None))
    BY <1>4 DEF CreateSchoolWrite, At, Req
  <2>2. CASE Finish(c)
    BY <2>2, Ended, ClosedHandler
  <2>3. CASE Goto(c, "owned", None)
    <3>1. handlers'[c] = [req |-> Req(c), step |-> "owned", saw |-> None]
      BY <2>1, <2>3, WentOn
    <3>2. QED
      BY <2>1, <3>1, ClosedHandler
  <2>4. QED
    BY <2>1, <2>2, <2>3
<1>5. CASE DeleteSchoolWrite(c)
  <2>1. /\ ~Idle(c) /\ Req(c).op = "deleteSchool" /\ Goto(c, "owned", None)
        /\ schools' = [schools EXCEPT ![Req(c).school].state = "gone"]
    BY <1>5 DEF DeleteSchoolWrite, At, Req
  <2>2. handlers'[c] = [req |-> Req(c), step |-> "owned", saw |-> None]
    BY <2>1, WentOn
  <2>3. PICK s \in Schools : s = Req(c).school
    BY <2>1, OwnRequest, RequestShapes
  <2>4. schools'[s].state = "gone"
    BY <2>1, <2>3 DEF FleetInv, Typed, SchoolRow
  <2>5. Req(c)' = Req(c) /\ handlers'[c].step = "owned"
    BY <2>2 DEF Req
  <2>6. QED
    BY <2>3, <2>4, <2>5 DEF Closed
<1>6. CASE ReconcileOwned(c)
  <2>1. ~Idle(c) /\ handlers[c].step = "owned" /\ Look(c, "stored", OwnedBy(Req(c).actor))
    BY <1>6 DEF ReconcileOwned, Reconciles, At
  <2>2. /\ handlers'[c] = [req |-> Req(c), step |-> "stored", saw |-> OwnedBy(Req(c).actor)]
        /\ UNCHANGED schools
    BY <2>1, WentOn DEF Look, tables, fleet
  <2>3. Req(c)' = Req(c) /\ Saw(c)' = OwnedBy(Req(c).actor) /\ handlers'[c].step = "stored"
    BY <2>2 DEF Req, Saw
  <2>4. Req(c).op = "deleteSchool" => schools[Req(c).school].state = "gone"
    BY <2>1 DEF ClosedInv, Closed
  <2>5. Req(c).op = "deleteSchool" => OwnedBy(Req(c).actor) \subseteq Schools \ {Req(c).school}
    BY <2>4 DEF OwnedBy, Owns, Live
  <2>6. QED
    BY <2>2, <2>3, <2>4, <2>5 DEF Closed
<1>7. CASE ReconcileStored(c)
  <2> DEFINE heir == IF Saw(c) = {} THEN None ELSE Earliest(Saw(c))
  <2>1. /\ ~Idle(c) /\ handlers[c].step = "stored"
        /\ Finish(c) \/ Look(c, "repair", heir)
    BY <1>7 DEF ReconcileStored, Reconciles, At
  <2>2. CASE Finish(c)
    BY <2>2, Ended, ClosedHandler
  <2>3. CASE Look(c, "repair", heir)
    <3>1. /\ handlers'[c] = [req |-> Req(c), step |-> "repair", saw |-> heir]
          /\ UNCHANGED schools
      BY <2>1, <2>3, WentOn DEF Look, tables, fleet
    <3>2. Req(c)' = Req(c) /\ Saw(c)' = heir /\ handlers'[c].step = "repair"
      BY <3>1 DEF Req, Saw
    <3>3. Req(c).op = "deleteSchool" =>
            schools[Req(c).school].state = "gone"
      BY <2>1 DEF ClosedInv, Closed
    <3>4. Req(c).op = "deleteSchool" => heir \in Null(Schools) \ {Req(c).school}
      BY <2>1, HeirIsAnother
    <3> HIDE DEF heir
    <3>5. QED
      BY <3>1, <3>2, <3>3, <3>4 DEF Closed
  <2>4. QED
    BY <2>1, <2>2, <2>3
<1>8. CASE ReconcileRepair(c)
  BY <1>8, Ended, ClosedHandler DEF ReconcileRepair
<1>9. QED
  BY <1>1, <1>2, <1>3, <1>4, <1>5, <1>6, <1>7, <1>8 DEF SchoolStep

LEMMA ClosedStepKeeps ==
  ASSUME FleetInv, ClosedInv, NEW c \in Clients, Step(c) \/ Fail(c)
  PROVE  ClosedInv'
<1>1. CASE SchoolStep(c)
  BY <1>1, SchoolsClosed, OthersStayClosed, DefaultsStayTyped DEF ClosedInv
<1>2. CASE FleetStep(c) \/ CourseStep(c) \/ BookingStep(c) \/ PeopleStep(c) \/ Fail(c)
  <2>1. handlers'[c] = None \/ handlers'[c].req.op # "deleteSchool"
    <3>1. CASE FleetStep(c)
      BY <3>1, AwayFleet DEF Away, Busy, FleetOps
    <3>2. CASE CourseStep(c) \/ BookingStep(c) \/ PeopleStep(c)
      BY <3>2, CourseSteps, BookingSteps, PeopleSteps DEF Calm, Special
    <3>3. CASE Fail(c)
      BY <3>3, Ended DEF Fail
    <3>4. QED
      BY <1>2, <3>1, <3>2, <3>3
  <2>2. Closed(c)'
    BY <2>1, ClosedHandler
  <2>3. QED
    BY <2>2, OthersStayClosed, DefaultsStayTyped DEF ClosedInv
<1>3. QED
  BY <1>1, <1>2 DEF Step

LEMMA ClosedInvInit == Init => ClosedInv
<1> SUFFICES ASSUME Init PROVE ClosedInv
  OBVIOUS
<1>1. PICK o \in Openings : defaultOsk = o.defaultOsk
  BY DEF Init
<1>2. DefaultsTyped
  BY <1>1, OpeningsAssumption DEF DefaultsTyped
<1>3. QED
  BY <1>2 DEF Init, ClosedInv, Closed, Idle

LEMMA ClosedInvNext == FleetInv /\ ClosedInv /\ [Next]_vars => ClosedInv'
<1> SUFFICES ASSUME FleetInv, ClosedInv, [Next]_vars PROVE ClosedInv'
  OBVIOUS
<1>1. CASE Tick \/ UNCHANGED vars
  <2>1. UNCHANGED <<schools, defaultOsk, handlers>>
    BY <1>1 DEF Tick, vars, tables, fleet, control
  <2>2. QED
    BY <2>1 DEF ClosedInv, DefaultsTyped, Closed, Idle, Req, Saw
<1>2. ASSUME NEW c \in Clients, Step(c) \/ Fail(c) PROVE ClosedInv'
  BY <1>2, ClosedStepKeeps
<1>3. QED
  BY <1>1, <1>2 DEF Next

\* A handler that has a repair to make is not idle.
LEMMA StillBusy ==
  ASSUME FleetInv, NEW c \in Clients, ~Idle(c), NEW h \in Null(Schools), Goto(c, "repair", h)
  PROVE  handlers'[c] # None
<1>1. handlers'[c] = [req |-> Req(c), step |-> "repair", saw |-> h] /\ Req(c) \in Requests
  BY WentOn
<1>2. [req |-> Req(c), step |-> "repair", saw |-> h]
        \in [req : Requests, step : {"repair"}, saw : Null(Schools)]
  BY <1>1
<1>3. QED
  BY <1>1, <1>2, HandlerAssumption

\* What the last step of a deletion leaves as the default.
LEMMA DefaultLeft ==
  ASSUME FleetInv, ClosedInv, NEW c \in Clients,
         ReconcileStored(c) \/ ReconcileRepair(c), Req(c).op = "deleteSchool",
         handlers'[c] = None
  PROVE  defaultOsk'[Req(c).actor] # Req(c).school
<1>1. ~Idle(c) /\ (ReconcileStored(c) => handlers[c].step = "stored")
      /\ (ReconcileRepair(c) => handlers[c].step = "repair")
  BY DEF ReconcileStored, ReconcileRepair, Reconciles, At
<1>2. /\ Req(c) \in Requests /\ Req(c).school \in Schools
      /\ None \notin Schools
  BY <1>1, OwnRequest, RequestShapes, OfficeAssumption DEF Rows
<1>3. CASE ReconcileStored(c)
  <2> DEFINE heir == IF Saw(c) = {} THEN None ELSE Earliest(Saw(c))
  <2>1. Saw(c) \subseteq Schools \ {Req(c).school} /\ heir \in Null(Schools)
    BY <1>1, <1>3, HeirIsAnother
  <2>2. ~Look(c, "repair", heir)
    <3>1. SUFFICES ASSUME Look(c, "repair", heir) PROVE FALSE
      OBVIOUS
    <3>2. PICK h \in Null(Schools) : h = heir
      BY <2>1
    <3>3. Goto(c, "repair", h)
      BY <3>1, <3>2 DEF Look
    <3>4. QED
      BY <1>1, <3>3, StillBusy
  <2>3. /\ defaultOsk[Req(c).actor] \in Saw(c) \/ defaultOsk[Req(c).actor] = None
        /\ UNCHANGED defaultOsk
    BY <1>3, <2>2 DEF ReconcileStored, tables, fleet
  <2>4. QED
    BY <1>2, <2>1, <2>3
<1>4. CASE ReconcileRepair(c)
  <2>1. Saw(c) # Req(c).school /\ defaultOsk' = [defaultOsk EXCEPT ![Req(c).actor] = Saw(c)]
    BY <1>1, <1>4 DEF ClosedInv, Closed, ReconcileRepair
  <2>2. Req(c).actor \in Managers
    BY <1>2, RequestShapes
  <2>3. QED
    BY <2>1, <2>2 DEF ClosedInv, DefaultsTyped
<1>5. QED
  BY <1>3, <1>4

(* ------------------------------------------ the default school: the theorem *)
\* A deletion that ran to its end has not left the deleted school as the default of
\* its manager, whatever schools the manager adds, deletes and chooses meanwhile.
THEOREM DeletionMovesOn == Spec => DeletionMovesDefault
<1>1. FleetInv /\ ClosedInv =>
        [\A c \in Clients :
           /\ ReconcileStored(c) \/ ReconcileRepair(c)
           /\ Req(c).op = "deleteSchool"
           /\ handlers'[c] = None
           => defaultOsk'[Req(c).actor] # Req(c).school]_vars
  BY DefaultLeft
<1>2. QED
  BY <1>1, FleetInvInit, FleetInvNext, ClosedInvInit, ClosedInvNext, PTL
  DEF Spec, DeletionMovesDefault

(* ------------------------------------------ payments: the inductive invariant *)
Open(d) == payments[d] # None /\ payments[d].state = "PENDING"

\* The student has a place in a course of the school with an open payment.
Owes(p, s) ==
  \E d \in Payments : /\ Open(d)
                      /\ courses[payments[d].course].school = s
                      /\ p \in Enrolled(payments[d].course)

\* An archive of the student in the school is about to be written.
Leaving(p, s) ==
  \E c \in Clients : /\ At(c, "archive", "write") /\ Req(c).person = p
                     /\ pupils[p].school = s

\* What is owed in the school can be settled with the student, or another
\* school has archived the student.
Answers(p, s) ==
  \/ pupils[p].archivedIn \notin {None, s}
  \/ pupils[p].active /\ ~Leaving(p, s)

Answered ==
  \A d \in Payments, k \in Courses :
    Open(d) /\ payments[d].course = k =>
      \E s \in Schools, p \in Students :
        courses[k].school = s /\ p \in Enrolled(k) /\ Answers(p, s)

ArchivedOnce == \A p \in Students : pupils[p].archivedIn # None => ~pupils[p].active

\* Who settles a payment holds the student, and what was resolved still is.
Settling(c) ==
  LET p == Req(c).student
      d == Req(c).payment
      k == payments[d].course
  IN ~Idle(c) /\ Req(c).op \in PaymentOps =>
       /\ handlers[c].step \in {"resolve", "write"} => locked[p] = c
       /\ handlers[c].step = "write" =>
            /\ payments[d] # None /\ pupils[p].active
            /\ seats[<<k, p>>] # None /\ courses[k].school \in Schools

\* Who archives a person holds the person, and a student is still in the school.
Archiving(c) ==
  LET p == Req(c).person
  IN ~Idle(c) /\ Req(c).op = "archive" =>
       /\ handlers[c].step \in {"check", "write"} => locked[p] = c
       /\ handlers[c].step = "write" /\ p \in Students =>
            pupils[p].active /\ pupils[p].school \in Schools

PayInv ==
  /\ payments \in [Payments -> Null(PaymentRow)]
  /\ ArchivedOnce /\ Answered
  /\ \A c \in Clients : Settling(c) /\ Archiving(c)

LEMMA PaymentShapes ==
  ASSUME NEW r \in Requests
  PROVE  /\ r.op \in PaymentOps => r.student \in Students /\ r.payment \in Payments
         /\ r.op = "archive" => r.person \in Instructors \cup Students
<1> USE DEF PaymentOps
<1>1. CASE r \in FleetRequests \cup SchoolRequests
  BY <1>1 DEF FleetRequests, SchoolRequests
<1>2. CASE r \in CourseRequests \cup SeatRequests
  BY <1>2 DEF CourseRequests, SeatRequests
<1>3. CASE r \in BookingRequests
  BY <1>3 DEF BookingRequests
<1>4. CASE r \in PeopleRequests \cup PaymentRequests
  BY <1>4 DEF PeopleRequests, PaymentRequests
<1>5. QED
  BY <1>1, <1>2, <1>3, <1>4 DEF Requests

(* ----------------------------------------------------- what others rely on *)
\* Places are kept, courses with students stay in their school, plans in their
\* course, and nobody somebody else holds is touched.
Undisturbed(c) ==
  /\ \A x \in Courses \X Students : seats[x] # None => seats'[x] # None
  /\ \A k \in Courses : Enrolled(k) # {} => courses'[k].school = courses[k].school
  /\ \A p \in Students : locked[p] \notin {None, c} => pupils'[p] = pupils[p]
  /\ \A d \in Payments : payments[d] # None =>
       payments'[d] # None /\ payments'[d].course = payments[d].course

LEMMA CourseOfPayment ==
  ASSUME PayInv, NEW d \in Payments, payments[d] # None
  PROVE  payments[d].course \in Courses
BY DEF PayInv, PaymentRow, Null

LEMMA OthersSettle ==
  ASSUME FleetInv, CourseInv, PayInv, NEW c \in Clients, Steady(c), Undisturbed(c),
         NEW d \in Clients, d # c
  PROVE  Settling(d)' /\ Archiving(d)'
<1>1. /\ handlers'[d] = handlers[d] /\ Settling(d) /\ Archiving(d) /\ d # None
      /\ \A x \in Rows : locked[x] = d => locked'[x] = d
  BY OfficeAssumption DEF PayInv, Steady
<1>2. Req(d)' = Req(d) /\ (Idle(d)' <=> Idle(d))
  BY <1>1 DEF Req, Idle
<1>3. Settling(d)'
  <2>1. CASE Idle(d) \/ Req(d).op \notin PaymentOps
    BY <1>2, <2>1 DEF Settling
  <2>2. CASE ~Idle(d) /\ Req(d).op \in PaymentOps
    <3>1. PICK p \in Students, y \in Payments : p = Req(d).student /\ y = Req(d).payment
      BY <2>2, OwnRequest, PaymentShapes
    <3>2. handlers[d].step \in {"resolve", "write"} =>
            locked[p] = d /\ locked'[p] = d /\ pupils'[p] = pupils[p]
      BY <1>1, <2>2, <3>1 DEF Settling, Undisturbed, Rows
    <3>3. ASSUME handlers[d].step = "write"
          PROVE  /\ payments'[y] # None
                 /\ seats'[<<payments'[y].course, p>>] # None
                 /\ courses'[payments'[y].course].school \in Schools
      <4>1. PICK k \in Courses : k = payments[y].course
        BY <1>1, <2>2, <3>1, <3>3, CourseOfPayment DEF Settling
      <4>2. /\ payments[y] # None /\ seats[<<k, p>>] # None /\ courses[k].school \in Schools
            /\ Enrolled(k) # {}
        BY <1>1, <2>2, <3>1, <3>3, <4>1 DEF Settling, Enrolled
      <4>3. payments'[y] # None /\ payments'[y].course = k
        BY <4>1, <4>2 DEF Undisturbed
      <4>4. <<k, p>> \in Courses \X Students
        OBVIOUS
      <4>5. QED
        BY <4>2, <4>3, <4>4 DEF Undisturbed
    <3>4. handlers[d].step = "write" => pupils[p].active
      BY <1>1, <2>2, <3>1 DEF Settling
    <3>5. QED
      BY <1>1, <1>2, <2>2, <3>1, <3>2, <3>3, <3>4 DEF Settling
  <2>3. QED
    BY <2>1, <2>2
<1>4. Archiving(d)'
  <2>1. CASE Idle(d) \/ Req(d).op # "archive"
    BY <1>2, <2>1 DEF Archiving
  <2>2. CASE ~Idle(d) /\ Req(d).op = "archive"
    <3>1. PICK p \in Instructors \cup Students : p = Req(d).person
      BY <2>2, OwnRequest, PaymentShapes
    <3>2. handlers[d].step \in {"check", "write"} =>
            /\ locked[p] = d /\ locked'[p] = d
            /\ p \in Students => pupils'[p] = pupils[p]
      BY <1>1, <2>2, <3>1 DEF Archiving, Undisturbed, Rows
    <3>3. QED
      BY <1>1, <1>2, <2>2, <3>1, <3>2 DEF Archiving
  <2>3. QED
    BY <2>1, <2>2
<1>5. QED
  BY <1>3, <1>4

\* A payment that was open and is keeps somebody to answer for it.
LEMMA StillAnswered ==
  ASSUME CourseInv, PayInv, NEW c \in Clients, Undisturbed(c), UNCHANGED payments,
         \A p \in Students, s \in Schools : Owes(p, s) /\ Answers(p, s) => Answers(p, s)'
  PROVE  Answered'
<1> SUFFICES ASSUME NEW d \in Payments, NEW k \in Courses, Open(d)',
                    payments'[d].course = k
             PROVE  \E s \in Schools, p \in Students :
                      courses'[k].school = s /\ p \in Enrolled(k)' /\ Answers(p, s)'
  BY DEF Answered
<1>1. Open(d) /\ payments[d] # None /\ payments[d].course = k
  BY DEF Open
<1>2. PICK s \in Schools, p \in Students :
        s = courses[k].school /\ p \in Enrolled(k) /\ Answers(p, s)
  BY <1>1 DEF PayInv, Answered
<1>3. Answers(p, s)'
  BY <1>1, <1>2 DEF Owes
<1>4. courses'[k].school = s /\ p \in Enrolled(k)'
  <2>1. <<k, p>> \in Courses \X Students /\ seats[<<k, p>>] # None /\ Enrolled(k) # {}
    BY <1>2 DEF Enrolled
  <2>2. QED
    BY <1>2, <2>1 DEF Undisturbed, Enrolled
<1>5. QED
  BY <1>2, <1>3, <1>4

LEMMA PayFrame ==
  ASSUME FleetInv, CourseInv, PayInv, NEW c \in Clients, Step(c) \/ Fail(c),
         UNCHANGED payments, ArchivedOnce', Undisturbed(c),
         \A p \in Students, s \in Schools : Owes(p, s) /\ Answers(p, s) => Answers(p, s)',
         Settling(c)', Archiving(c)'
  PROVE  PayInv'
<1>1. \A d \in Clients : Settling(d)' /\ Archiving(d)'
  BY OthersSettle, StepIsSteady
<1>2. QED
  BY <1>1, StillAnswered DEF PayInv

\* The handler is not about to write an archive, so nobody more is leaving.
LEMMA NobodyLeaves ==
  ASSUME FleetInv, NEW c \in Clients, Steady(c), UNCHANGED pupils,
         \/ handlers'[c] = None \/ handlers'[c].req.op # "archive"
         \/ handlers'[c].step # "write"
  PROVE  \A p \in Students, s \in Schools : Answers(p, s) => Answers(p, s)'
<1>1. \A p \in Students, s \in Schools : Leaving(p, s)' => Leaving(p, s)
  <2> SUFFICES ASSUME NEW p \in Students, NEW s \in Schools, Leaving(p, s)'
               PROVE  Leaving(p, s)
    OBVIOUS
  <2>1. PICK d \in Clients : /\ At(d, "archive", "write")' /\ Req(d)'.person = p
                             /\ pupils'[p].school = s
    BY DEF Leaving
  <2>2. d # c
    BY <2>1 DEF At, Idle
  <2>3. handlers'[d] = handlers[d]
    BY <2>2 DEF Steady
  <2>4. QED
    BY <2>1, <2>3 DEF Leaving, At, Idle, Req
<1>2. QED
  BY <1>1 DEF Answers

(* -------------------------------------------------- steps on something else *)
LEMMA PlacesKept ==
  ASSUME FleetInv, CourseInv, NEW c \in Clients, Step(c) \/ Fail(c)
  PROVE  /\ \A x \in Courses \X Students : seats[x] # None => seats'[x] # None
         /\ \A k \in Courses : Enrolled(k) # {} => courses'[k].school = courses[k].school
<1>1. CASE FleetStep(c) \/ SchoolStep(c) \/ PeopleStep(c) \/ Fail(c)
  BY <1>1, AwayFleet, AwaySchools, AwayPeople, AwayFail DEF Away
<1>2. CASE BookingStep(c)
  <2>1. CASE BookLessonCommit(c) \/ CreateEventInsert(c) \/ CancelBooking(c)
    BY <2>1 DEF BookLessonCommit, CreateEventInsert, CancelBooking
  <2>2. QED
    BY <1>2, <2>1, AwayBooking DEF BookingStep, Away
<1>3. CASE CreateCourseWrite(c)
  <2>1. /\ courses' = [courses EXCEPT ![Req(c).course] = courses'[Req(c).course]]
        /\ ~Idle(c) /\ Req(c).op = "createCourse"
        /\ ~Live(courses[Req(c).course]) /\ UNCHANGED seats
    BY <1>3 DEF CreateCourseWrite, At, Req, Live, CourseInv, TeachingTyped
  <2>2. Req(c).course \in Courses
    BY <2>1, OwnRequest, CourseShapes
  <2>3. Enrolled(Req(c).course) = {}
    BY <2>1, <2>2 DEF CourseInv, OnlyLiveUsed, Empty
  <2>4. QED
    BY <2>1, <2>2, <2>3 DEF CourseInv, TeachingTyped
<1>4. CASE PatchCourseWrite(c)
  BY <1>4, PatchingCourse, StepIsSteady DEF PatchCourseWrite
<1>5. CASE DeleteCourseWrite(c)
  <2>1. courses' = [courses EXCEPT ![Req(c).course].state = "gone"] /\ UNCHANGED seats
    BY <1>5 DEF DeleteCourseWrite
  <2>2. QED
    BY <2>1 DEF CourseInv, TeachingTyped, CourseRow
<1>6. CASE EnrolWrite(c)
  <2>1. /\ seats' = [seats EXCEPT ![<<Req(c).course, Req(c).student>>] = "ACTIVE"]
        /\ UNCHANGED courses /\ "ACTIVE" # None
    BY <1>6, OfficeAssumption DEF EnrolWrite, SeatStates
  <2>2. QED
    BY <2>1 DEF CourseInv, TeachingTyped
<1>7. CASE SetSeatWrite(c)
  <2>1. /\ seats' = [seats EXCEPT ![<<Req(c).course, Req(c).student>>] = Req(c).status]
        /\ UNCHANGED courses /\ ~Idle(c) /\ Req(c).op = "setSeat"
    BY <1>7 DEF SetSeatWrite, At, Req
  <2>2. Req(c).status # None
    BY <2>1, OwnRequest, CourseShapes, OfficeAssumption
  <2>3. QED
    BY <2>1, <2>2 DEF CourseInv, TeachingTyped
<1>8. CASE CourseStep(c) /\ ~(\/ CreateCourseWrite(c) \/ PatchCourseWrite(c)
                              \/ DeleteCourseWrite(c) \/ EnrolWrite(c) \/ SetSeatWrite(c))
  <2>1. UNCHANGED <<courses, seats>>
    BY <1>8 DEF CourseStep, CreateCourseBegin, PatchCourseBegin, PatchCourseCheck,
       PatchCourseRetry, DeleteCourseBegin, DeleteCourseLock, DeleteCourseCount,
       EnrolBegin, SetSeatBegin, Receive, Look, Take, tables, teaching
  <2>2. QED
    BY <2>1
<1>9. QED
  BY <1>1, <1>2, <1>3, <1>4, <1>5, <1>6, <1>7, <1>8 DEF Step

LEMMA PaymentsKept ==
  ASSUME NEW c \in Clients, Step(c) \/ Fail(c), ~PaymentWrite(c)
  PROVE  UNCHANGED payments
<1> USE DEF tables, teaching, Receive, Look, Take
<1>1. CASE FleetStep(c)
  BY <1>1 DEF FleetStep, CreateVehicleBegin, CreateVehicleLock, CreateVehicleCount,
     CreateVehicleWrite, UpdateVehicleBegin, UpdateVehicleCheck, UpdateVehicleWrite,
     UpdateVehicleRetry, VehicleStatusBegin, VehicleStatusWrite, ListVehiclesBegin,
     ListVehiclesRepair, ListVehiclesEnd, DeleteVehicleBegin, DeleteVehicleLock,
     DeleteVehicleLockSchool, DeleteVehicleCheck, DeleteVehicleCount, DeleteVehicleWrite,
     SetDefaultVehicleBegin, SetDefaultVehicleLock, SetDefaultVehicleCheck,
     SetDefaultVehicleWrite
<1>2. CASE SchoolStep(c)
  BY <1>2 DEF SchoolStep, CreateSchoolBegin, CreateSchoolWrite, SetDefaultSchoolBegin,
     SetDefaultSchoolWrite, UpdateSchoolBegin, UpdateSchoolWrite, DeleteSchoolBegin,
     DeleteSchoolRead, DeleteSchoolMark, DeleteSchoolWrite, ReadDefaultBegin,
     ReconcileOwned, ReconcileStored, ReconcileRepair
<1>3. CASE CourseStep(c)
  BY <1>3 DEF CourseStep, CreateCourseBegin, CreateCourseWrite, PatchCourseBegin,
     PatchCourseCheck, PatchCourseWrite, PatchCourseRetry, DeleteCourseBegin,
     DeleteCourseLock, DeleteCourseCount, DeleteCourseWrite, EnrolBegin, EnrolWrite,
     SetSeatBegin, SetSeatWrite
<1>4. CASE BookingStep(c)
  BY <1>4 DEF BookingStep, BookLessonBegin, BookOwnLessonBegin, BookLessonCheck,
     BookLessonCommit, BookLessonRetry, CancelBooking, CreateEventBegin,
     CreateEventInsert, CheckLesson
<1>5. CASE PeopleStep(c)
  BY <1>5 DEF PeopleStep, QualifyBegin, QualifyLock, QualifyCheck, QualifyWrite,
     MoveInstructorBegin, MoveInstructorObligations, MoveInstructorLock,
     MoveInstructorCheck, MoveInstructorWrite, MoveStudentBegin, MoveStudentLock,
     MoveStudentLockProfile, MoveStudentCheck, MoveStudentWrite, ArchiveBegin,
     ArchiveLock, ArchiveCheck, ArchiveWrite, PaymentBegin, PaymentLock, PaymentResolve
<1>6. CASE Fail(c)
  BY <1>6 DEF Fail
<1>7. QED
  BY <1>1, <1>2, <1>3, <1>4, <1>5, <1>6 DEF Step

\* Neither settles a payment nor archives anybody.
Aloof(c) ==
  handlers'[c] = None \/ handlers'[c].req.op \notin PaymentOps \cup {"archive"}

LEMMA AloofSettles ==
  ASSUME NEW c \in Clients, Aloof(c)
  PROVE  Settling(c)' /\ Archiving(c)'
BY DEF Aloof, Settling, Archiving, Idle, Req

LEMMA AloofSteps ==
  ASSUME FleetInv, NEW c \in Clients,
         \/ FleetStep(c) \/ SchoolStep(c) \/ CourseStep(c) \/ BookingStep(c) \/ Fail(c)
         \/ QualifyBegin(c) \/ QualifyLock(c) \/ QualifyCheck(c) \/ QualifyWrite(c)
         \/ MoveInstructorBegin(c) \/ MoveInstructorObligations(c) \/ MoveInstructorLock(c)
         \/ MoveInstructorCheck(c) \/ MoveInstructorWrite(c)
         \/ MoveStudentBegin(c) \/ MoveStudentLock(c) \/ MoveStudentLockProfile(c)
         \/ MoveStudentCheck(c)
  PROVE  Aloof(c) /\ UNCHANGED pupils
<1> USE DEF PaymentOps
<1>1. CASE FleetStep(c) \/ SchoolStep(c) \/ CourseStep(c) \/ BookingStep(c) \/ Fail(c)
  <2>1. UNCHANGED pupils
    BY <1>1, SchoolsKeepOwners DEF people
  <2>2. Aloof(c)
    <3>1. CASE FleetStep(c)
      BY <3>1, AwayFleet DEF Away, Busy, FleetOps, Aloof
    <3>2. CASE SchoolStep(c)
      BY <3>2, AwaySchools DEF Away, Busy, SchoolOps, Aloof
    <3>3. CASE CourseStep(c)
      BY <3>3, CourseElsewhere DEF Busy, CourseOps, Aloof
    <3>4. CASE BookLessonCommit(c) \/ CreateEventInsert(c) \/ Fail(c)
      BY <3>4, Ended DEF BookLessonCommit, CreateEventInsert, Fail, Aloof
    <3>5. CASE CancelBooking(c)
      BY <3>5 DEF CancelBooking, Idle, Aloof
    <3>6. CASE BookingStep(c) /\ ~(BookLessonCommit(c) \/ CreateEventInsert(c)
                                   \/ CancelBooking(c))
      BY <3>6, AwayBooking DEF BookingStep, Away, Busy, BookingOps, Aloof
    <3>7. QED
      BY <1>1, <3>1, <3>2, <3>3, <3>4, <3>5, <3>6
  <2>3. QED
    BY <2>1, <2>2
<1> DEFINE ops == {"qualify", "moveInstructor", "moveStudent"}
<1>2. CASE QualifyBegin(c) \/ MoveInstructorBegin(c) \/ MoveStudentBegin(c)
  <2>1. PICK r \in pending : r.op \in ops /\ \E step, saw : Receive(c, r, step, saw)
    BY <1>2 DEF QualifyBegin, MoveInstructorBegin, MoveStudentBegin
  <2>2. Busy(c, ops)
    BY <2>1, BusyReceived DEF Away
  <2>3. QED
    BY <2>1, <2>2 DEF Busy, Aloof, Receive, tables, people
<1>3. CASE \/ QualifyLock(c) \/ QualifyCheck(c) \/ MoveInstructorObligations(c)
           \/ MoveInstructorLock(c) \/ MoveInstructorCheck(c) \/ MoveStudentLock(c)
           \/ MoveStudentLockProfile(c) \/ MoveStudentCheck(c)
  <2>1. PICK step, saw : /\ ~Idle(c) /\ Req(c).op \in ops
                         /\ Goto(c, step, saw) /\ UNCHANGED pupils
    BY <1>3 DEF QualifyLock, QualifyCheck, MoveInstructorObligations, MoveInstructorLock,
       MoveInstructorCheck, MoveStudentLock, MoveStudentLockProfile, MoveStudentCheck,
       Take, Look, At, Req, tables, people
  <2>2. Busy(c, ops)
    BY <2>1, BusyWentOn
  <2>3. QED
    BY <2>1, <2>2 DEF Busy, Aloof
<1>4. CASE QualifyWrite(c) \/ MoveInstructorWrite(c)
  BY <1>4, Ended DEF QualifyWrite, MoveInstructorWrite, Aloof
<1>5. QED
  BY <1>1, <1>2, <1>3, <1>4

LEMMA AloofKeeps ==
  ASSUME FleetInv, CourseInv, PayInv, NEW c \in Clients, Step(c) \/ Fail(c),
         Aloof(c), ~PaymentWrite(c), UNCHANGED pupils
  PROVE  PayInv'
<1>1. Steady(c) /\ UNCHANGED payments
  BY StepIsSteady, PaymentsKept
<1>2. Undisturbed(c)
  BY <1>1, PlacesKept DEF Undisturbed
<1>3. ArchivedOnce'
  BY DEF PayInv, ArchivedOnce
<1>4. \A p \in Students, s \in Schools : Answers(p, s) => Answers(p, s)'
  BY <1>1, NobodyLeaves DEF Aloof
<1>5. QED
  BY <1>1, <1>2, <1>3, <1>4, AloofSettles, PayFrame

\* Wherever a move brings a student, nobody else is archiving him.
LEMMA MovingAway ==
  ASSUME FleetInv, CourseInv, StaffInv, PayInv, NEW c \in Clients, MoveStudentWrite(c)
  PROVE  PayInv'
<1>1. /\ ~Idle(c) /\ Req(c).op = "moveStudent" /\ handlers[c].step = "write" /\ Finish(c)
      /\ pupils' = [pupils EXCEPT ![Req(c).student].school = Req(c).school]
  BY DEF MoveStudentWrite, At, Req
<1>2. PICK x \in Students : x = Req(c).student
  BY <1>1, OwnRequest, PeopleShapes
<1>3. locked[x] = c /\ c # None
  BY <1>1, <1>2, OfficeAssumption DEF StaffInv, Moves, MovingStudent
<1>4. /\ pupils' = [pupils EXCEPT ![x].school = Req(c).school] /\ Step(c)
      /\ ~PaymentWrite(c)
  BY <1>1, <1>2 DEF Step, PeopleStep, MoveStudentWrite, PaymentWrite, PaymentOps, At
<1>5. /\ \A p \in Students : p # x => pupils'[p] = pupils[p]
      /\ pupils'[x].active = pupils[x].active /\ pupils'[x].archivedIn = pupils[x].archivedIn
  BY <1>4 DEF StaffInv, PeopleTyped, PupilRow
<1>6. Steady(c) /\ UNCHANGED payments /\ handlers'[c] = None
  BY <1>1, <1>4, StepIsSteady, PaymentsKept, Ended
<1>7. Undisturbed(c)
  BY <1>3, <1>4, <1>5, <1>6, PlacesKept DEF Undisturbed
<1>8. ArchivedOnce'
  BY <1>5 DEF PayInv, ArchivedOnce
<1>9. ASSUME NEW p \in Students, NEW s \in Schools, Answers(p, s)
      PROVE  Answers(p, s)'
  <2>1. Leaving(p, s)' => Leaving(p, s)
    <3>1. SUFFICES ASSUME Leaving(p, s)' PROVE Leaving(p, s)
      OBVIOUS
    <3>2. PICK d \in Clients : /\ At(d, "archive", "write")' /\ Req(d)'.person = p
                               /\ pupils'[p].school = s
      BY <3>1 DEF Leaving
    <3>3. d # c
      BY <1>6, <3>2 DEF At, Idle
    <3>4. /\ handlers'[d] = handlers[d]
          /\ At(d, "archive", "write") /\ Req(d).person = p
      BY <1>6, <3>2, <3>3 DEF Steady, At, Idle, Req
    <3>5. locked[p] = d
      BY <3>4 DEF PayInv, Archiving, At, Req
    <3>6. p # x
      BY <1>3, <3>3, <3>5
    <3>7. QED
      BY <1>5, <3>2, <3>4, <3>6 DEF Leaving
  <2>2. QED
    BY <1>5, <1>9, <2>1 DEF Answers
<1>10. Settling(c)' /\ Archiving(c)'
  BY <1>6, AloofSettles DEF Aloof
<1>11. QED
  BY <1>4, <1>6, <1>7, <1>8, <1>9, <1>10, PayFrame

(* --------------------------------------------------------------- archives -- *)
\* A step of an archive or a settlement before its write.
LEMMA LooksKeep ==
  ASSUME FleetInv, CourseInv, PayInv, NEW c \in Clients, Step(c), UNCHANGED tables,
         \A p \in Students, s \in Schools : Owes(p, s) /\ Answers(p, s) => Answers(p, s)',
         Settling(c)', Archiving(c)'
  PROVE  PayInv'
<1>1. UNCHANGED <<payments, pupils>>
  BY DEF tables, teaching, people
<1>2. Undisturbed(c)
  BY <1>1, PlacesKept DEF Undisturbed
<1>3. ArchivedOnce'
  BY <1>1 DEF PayInv, ArchivedOnce
<1>4. QED
  BY <1>1, <1>2, <1>3, PayFrame

LEMMA ArchiveHandler ==
  ASSUME NEW c \in Clients, NEW r, NEW step, NEW saw,
         handlers'[c] = [req |-> r, step |-> step, saw |-> saw], r.op = "archive",
         step \in {"check", "write"} => locked'[r.person] = c,
         step = "write" /\ r.person \in Students =>
           pupils'[r.person].active /\ pupils'[r.person].school \in Schools
  PROVE  Settling(c)' /\ Archiving(c)'
<1>1. handlers'[c].req = r /\ handlers'[c].step = step
  OBVIOUS
<1>2. QED
  BY <1>1 DEF Settling, Archiving, Idle, Req, PaymentOps

LEMMA BeginningArchive ==
  ASSUME FleetInv, CourseInv, PayInv, NEW c \in Clients, ArchiveBegin(c) \/ ArchiveLock(c)
  PROVE  PayInv'
<1>1. Step(c) /\ UNCHANGED tables
  BY DEF Step, PeopleStep, ArchiveBegin, ArchiveLock, Receive, Take
<1>2. PICK r \in Requests, step \in {"lock", "check"} :
        /\ handlers'[c] = [req |-> r, step |-> step, saw |-> None] /\ r.op = "archive"
        /\ step = "check" => locked'[r.person] = c
  <2>1. CASE ArchiveBegin(c)
    BY <2>1, Received DEF ArchiveBegin
  <2>2. CASE ArchiveLock(c)
    <3>1. /\ ~Idle(c) /\ Req(c).op = "archive" /\ Take(c, Req(c).person, "check", None)
          /\ Goto(c, "check", None)
      BY <2>2 DEF ArchiveLock, At, Req, Take
    <3>2. Req(c).person \in Rows /\ Req(c) \in Requests
      BY <3>1, OwnRequest, PaymentShapes DEF Rows
    <3>3. locked'[Req(c).person] = c
      BY <3>1, <3>2, Took
    <3>4. handlers'[c] = [req |-> Req(c), step |-> "check", saw |-> None]
      BY <3>1, WentOn
    <3>5. QED
      BY <3>1, <3>2, <3>3, <3>4
  <2>3. QED
    BY <2>1, <2>2
<1>3. Settling(c)' /\ Archiving(c)'
  BY <1>2, ArchiveHandler
<1>4. \A p \in Students, s \in Schools : Answers(p, s) => Answers(p, s)'
  BY <1>1, <1>2, NobodyLeaves, StepIsSteady DEF tables, people
<1>5. QED
  BY <1>1, <1>3, <1>4, LooksKeep

\* Who is found free of debts in the school answers for none there.
LEMMA CheckingArchive ==
  ASSUME FleetInv, CourseInv, StaffInv, PayInv, NEW c \in Clients, ArchiveCheck(c)
  PROVE  PayInv'
<1>1. /\ ~Idle(c) /\ Req(c).op = "archive" /\ handlers[c].step = "check"
      /\ Look(c, "write", None) /\ Goto(c, "write", None)
      /\ Step(c) /\ UNCHANGED tables /\ UNCHANGED locked
  BY DEF ArchiveCheck, At, Req, Look, Step, PeopleStep
<1>2. PICK x \in Instructors \cup Students : x = Req(c).person
  BY <1>1, OwnRequest, PaymentShapes
<1>3. locked'[x] = c
  BY <1>1, <1>2 DEF PayInv, Archiving
<1>4. x \in Students =>
        pupils[x].active /\ pupils[x].school \in Schools /\ ~TiesStudent(x, pupils[x].school)
  BY <1>2 DEF ArchiveCheck, SchoolOf, ActiveAccount, Tied, Owns, StaffInv, PeopleTyped,
     PupilRow, Null
<1>5. UNCHANGED pupils
  BY <1>1 DEF tables, people
<1>6. /\ handlers'[c] = [req |-> Req(c), step |-> "write", saw |-> None]
      /\ Steady(c)
  BY <1>1, WentOn, StepIsSteady
<1>7. Settling(c)' /\ Archiving(c)'
  BY <1>1, <1>2, <1>3, <1>4, <1>5, <1>6, ArchiveHandler
<1>8. ASSUME NEW p \in Students, NEW s \in Schools, Owes(p, s), Answers(p, s)
      PROVE  Answers(p, s)'
  <2>1. ~(p = x /\ s = pupils[x].school)
    BY <1>4, <1>8 DEF TiesStudent, Owes, Open, Enrolled
  <2>2. Leaving(p, s)' => Leaving(p, s)
    <3>1. SUFFICES ASSUME Leaving(p, s)' PROVE Leaving(p, s)
      OBVIOUS
    <3>2. PICK d \in Clients : /\ At(d, "archive", "write")' /\ Req(d)'.person = p
                               /\ pupils'[p].school = s
      BY <3>1 DEF Leaving
    <3>3. d # c
      BY <1>2, <1>5, <1>6, <2>1, <3>2 DEF Req
    <3>4. QED
      BY <1>5, <1>6, <3>2, <3>3 DEF Leaving, Steady, At, Idle, Req
  <2>3. QED
    BY <1>5, <1>8, <2>2 DEF Answers
<1>9. QED
  BY <1>1, <1>7, <1>8, LooksKeep

\* The archive of one school leaves what is owed in the others to that school.
LEMMA WritingArchive ==
  ASSUME FleetInv, CourseInv, StaffInv, PayInv, NEW c \in Clients, ArchiveWrite(c)
  PROVE  PayInv'
<1>1. /\ ~Idle(c) /\ Req(c).op = "archive" /\ handlers[c].step = "write" /\ Finish(c)
      /\ At(c, "archive", "write") /\ Step(c) /\ ~PaymentWrite(c)
  BY DEF ArchiveWrite, At, Req, Step, PeopleStep, PaymentWrite, PaymentOps
<1>2. PICK x \in Instructors \cup Students : x = Req(c).person
  BY <1>1, OwnRequest, PaymentShapes
<1>3. /\ locked[x] = c /\ c # None
      /\ x \in Students => pupils[x].active /\ pupils[x].school \in Schools
  BY <1>1, <1>2, OfficeAssumption DEF PayInv, Archiving
<1>4. /\ \A p \in Students : p # x => pupils'[p] = pupils[p]
      /\ x \in Students =>
           /\ ~pupils'[x].active
           /\ pupils'[x].archivedIn = pupils[x].school
           /\ pupils'[x].school = pupils[x].school
  BY <1>2 DEF ArchiveWrite, StaffInv, PeopleTyped, PupilRow
<1>5. Steady(c) /\ UNCHANGED payments /\ handlers'[c] = None
  BY <1>1, StepIsSteady, PaymentsKept, Ended
<1>6. Undisturbed(c)
  BY <1>1, <1>3, <1>4, <1>5, PlacesKept DEF Undisturbed
<1>7. ArchivedOnce'
  BY <1>4 DEF PayInv, ArchivedOnce
<1>8. ASSUME NEW p \in Students, NEW s \in Schools, Answers(p, s)
      PROVE  Answers(p, s)'
  <2>1. CASE p # x
    <3>1. pupils'[p] = pupils[p]
      BY <1>4, <2>1
    <3>2. Leaving(p, s)' => Leaving(p, s)
      BY <1>5, <3>1 DEF Leaving, Steady, At, Idle, Req
    <3>3. QED
      BY <1>8, <3>1, <3>2 DEF Answers
  <2>2. CASE p = x
    <3>1. pupils[p].active /\ pupils[p].archivedIn = None /\ pupils[p].school \in Schools
      BY <1>3, <2>2 DEF PayInv, ArchivedOnce
    <3>2. ~Leaving(p, s)
      BY <1>8, <3>1 DEF Answers
    <3>3. pupils[p].school # s
      BY <1>1, <1>2, <2>2, <3>2 DEF Leaving
    <3>4. pupils'[p].archivedIn \notin {None, s}
      BY <1>4, <2>2, <3>1, <3>3, OfficeAssumption DEF Rows
    <3>5. QED
      BY <3>4 DEF Answers
  <2>3. QED
    BY <2>1, <2>2
<1>9. Settling(c)' /\ Archiving(c)'
  BY <1>5, AloofSettles DEF Aloof
<1>10. QED
  BY <1>1, <1>5, <1>6, <1>7, <1>8, <1>9, PayFrame

(* ------------------------------------------------------------- settlements -- *)
LEMMA PaymentHandler ==
  ASSUME NEW c \in Clients, NEW r, NEW step, NEW saw,
         handlers'[c] = [req |-> r, step |-> step, saw |-> saw], r.op \in PaymentOps,
         step \in {"resolve", "write"} => locked'[r.student] = c,
         step = "write" =>
           /\ payments'[r.payment] # None /\ pupils'[r.student].active
           /\ seats'[<<payments'[r.payment].course, r.student>>] # None
           /\ courses'[payments'[r.payment].course].school \in Schools
  PROVE  Settling(c)' /\ Archiving(c)'
<1>1. handlers'[c].req = r /\ handlers'[c].step = step
  OBVIOUS
<1>2. QED
  BY <1>1 DEF Settling, Archiving, Idle, Req, PaymentOps

LEMMA BeginningPayment ==
  ASSUME FleetInv, CourseInv, PayInv, NEW c \in Clients, PaymentBegin(c) \/ PaymentLock(c)
  PROVE  PayInv'
<1>1. Step(c) /\ UNCHANGED tables
  BY DEF Step, PeopleStep, PaymentBegin, PaymentLock, Receive, Take
<1>2. PICK r \in Requests, step \in {"lock", "resolve"} :
        /\ handlers'[c] = [req |-> r, step |-> step, saw |-> None] /\ r.op \in PaymentOps
        /\ step = "resolve" => locked'[r.student] = c
  <2>1. CASE PaymentBegin(c)
    BY <2>1, Received DEF PaymentBegin
  <2>2. CASE PaymentLock(c)
    <3>1. /\ ~Idle(c) /\ Req(c).op \in PaymentOps
          /\ Take(c, Req(c).student, "resolve", None) /\ Goto(c, "resolve", None)
      BY <2>2 DEF PaymentLock, At, Req, Take
    <3>2. Req(c).student \in Rows /\ Req(c) \in Requests
      BY <3>1, OwnRequest, PaymentShapes DEF Rows
    <3>3. locked'[Req(c).student] = c
      BY <3>1, <3>2, Took
    <3>4. handlers'[c] = [req |-> Req(c), step |-> "resolve", saw |-> None]
      BY <3>1, WentOn
    <3>5. QED
      BY <3>1, <3>2, <3>3, <3>4
  <2>3. QED
    BY <2>1, <2>2
<1>3. Settling(c)' /\ Archiving(c)'
  BY <1>2, PaymentHandler
<1>4. handlers'[c].req = r
  BY <1>2
<1>5. \A p \in Students, s \in Schools : Answers(p, s) => Answers(p, s)'
  BY <1>1, <1>2, <1>4, NobodyLeaves, StepIsSteady DEF tables, people, PaymentOps
<1>6. QED
  BY <1>1, <1>3, <1>5, LooksKeep

LEMMA ResolvingPayment ==
  ASSUME FleetInv, CourseInv, PayInv, NEW c \in Clients, PaymentResolve(c)
  PROVE  PayInv'
<1>1. /\ ~Idle(c) /\ Req(c).op \in PaymentOps /\ handlers[c].step = "resolve"
      /\ Goto(c, "write", None) /\ Step(c) /\ UNCHANGED tables /\ UNCHANGED locked
      /\ MaySettle(Req(c).actor, Req(c).student, Req(c).payment)
  BY DEF PaymentResolve, At, Req, Look, Step, PeopleStep
<1>2. PICK p \in Students, d \in Payments : p = Req(c).student /\ d = Req(c).payment
  BY <1>1, OwnRequest, PaymentShapes
<1>3. locked'[p] = c
  BY <1>1, <1>2 DEF PayInv, Settling
<1>4. MaySettle(Req(c).actor, p, d)
  BY <1>1, <1>2
<1>5. PICK k \in Courses : k = payments[d].course /\ payments[d] # None
  BY <1>4, CourseOfPayment DEF MaySettle
<1>6. pupils[p].active /\ seats[<<k, p>>] # None /\ courses[k].school # None
  BY <1>4, <1>5 DEF MaySettle, Owns
<1>7. courses[k].school \in Schools
  BY <1>6 DEF CourseInv, TeachingTyped, CourseRow, Null
<1>8. UNCHANGED <<pupils, payments, seats, courses>>
  BY <1>1 DEF tables, people, teaching
<1>9. handlers'[c] = [req |-> Req(c), step |-> "write", saw |-> None]
  BY <1>1, WentOn
<1>10. Settling(c)' /\ Archiving(c)'
  BY <1>1, <1>2, <1>3, <1>5, <1>6, <1>7, <1>8, <1>9, PaymentHandler
<1>11. handlers'[c].req = Req(c)
  BY <1>9
<1>12. \A q \in Students, s \in Schools : Answers(q, s) => Answers(q, s)'
  BY <1>1, <1>8, <1>11, NobodyLeaves, StepIsSteady DEF PaymentOps
<1>13. QED
  BY <1>1, <1>10, <1>12, LooksKeep

\* The student it was resolved for can answer for the payment.
LEMMA WritingPayment ==
  ASSUME FleetInv, CourseInv, PayInv, NEW c \in Clients, PaymentWrite(c)
  PROVE  PayInv'
<1>1. /\ ~Idle(c) /\ Req(c).op \in PaymentOps /\ handlers[c].step = "write" /\ Finish(c)
      /\ payments' = [payments EXCEPT ![Req(c).payment].state = Settled(Req(c).op, @)]
      /\ UNCHANGED <<courses, seats, pupils>> /\ Step(c)
  BY DEF PaymentWrite, At, Req, people, Step, PeopleStep
<1>2. PICK p \in Students, d \in Payments : p = Req(c).student /\ d = Req(c).payment
  BY <1>1, OwnRequest, PaymentShapes
<1>3. /\ locked[p] = c /\ payments[d] # None /\ pupils[p].active
      /\ seats[<<payments[d].course, p>>] # None
      /\ courses[payments[d].course].school \in Schools
  BY <1>1, <1>2 DEF PayInv, Settling
<1>4. payments[d] \in PaymentRow
  BY <1>3 DEF PayInv, Null
<1>5. PICK new \in PaymentRow : new.course = payments[d].course /\ payments' = [payments EXCEPT ![d] = new]
  <2>1. Settled(Req(c).op, payments[d].state) \in {"none", "PENDING", "PAID"}
    BY <1>1, <1>4 DEF Settled, PaymentOps, PaymentRow
  <2>2. [payments[d] EXCEPT !.state = Settled(Req(c).op, @)] \in PaymentRow
    BY <1>4, <2>1 DEF PaymentRow
  <2>3. payments' = [payments EXCEPT ![d] =
                       [payments[d] EXCEPT !.state = Settled(Req(c).op, @)]]
    BY <1>1, <1>2
  <2>4. [payments[d] EXCEPT !.state = Settled(Req(c).op, @)].course = payments[d].course
    BY <1>4 DEF PaymentRow
  <2>5. QED
    BY <2>2, <2>3, <2>4
<1>6. /\ payments' \in [Payments -> Null(PaymentRow)] /\ payments'[d] = new
      /\ \A y \in Payments : y # d => payments'[y] = payments[y]
      /\ new # None
  BY <1>5, OfficeAssumption DEF PayInv, Null
<1>7. Undisturbed(c)
  BY <1>1, <1>5, <1>6 DEF Undisturbed
<1>8. Steady(c) /\ handlers'[c] = None
  BY <1>1, Ended
<1>9. \A q \in Students, s \in Schools : Answers(q, s) => Answers(q, s)'
  BY <1>1, <1>8, NobodyLeaves
<1>10. \A s \in Schools : Answers(p, s)
  <2>1. ASSUME NEW s \in Schools, NEW e \in Clients, At(e, "archive", "write"),
               Req(e).person = p
        PROVE  FALSE
    <3>1. locked[p] = e
      BY <2>1 DEF PayInv, Archiving, At, Req
    <3>2. e = c
      BY <1>3, <3>1
    <3>3. QED
      BY <1>1, <2>1, <3>2 DEF At, Req, PaymentOps
  <2>2. QED
    BY <1>3, <2>1 DEF Answers, Leaving
<1>11. Answered'
  <2> SUFFICES ASSUME NEW y \in Payments, NEW k \in Courses, Open(y)', payments'[y].course = k
               PROVE  \E s \in Schools, q \in Students :
                        courses'[k].school = s /\ q \in Enrolled(k)' /\ Answers(q, s)'
    BY DEF Answered
  <2>1. CASE y = d
    <3>1. PICK s \in Schools : s = courses[k].school
      BY <1>3, <1>5, <1>6, <2>1
    <3>2. p \in Enrolled(k)'
      BY <1>1, <1>3, <1>5, <1>6, <2>1 DEF Enrolled
    <3>3. Answers(p, s)'
      BY <1>9, <1>10
    <3>4. QED
      BY <1>1, <3>1, <3>2, <3>3
  <2>2. CASE y # d
    <3>1. Open(y) /\ payments[y].course = k
      BY <1>6, <2>2 DEF Open
    <3>2. PICK s \in Schools, q \in Students :
            courses[k].school = s /\ q \in Enrolled(k) /\ Answers(q, s)
      BY <3>1 DEF PayInv, Answered
    <3>3. Answers(q, s)'
      BY <1>9, <3>2
    <3>4. QED
      BY <1>1, <3>2, <3>3 DEF Enrolled
  <2>3. QED
    BY <2>1, <2>2
<1>12. ArchivedOnce'
  BY <1>1 DEF PayInv, ArchivedOnce
<1>13. Settling(c)' /\ Archiving(c)'
  BY <1>8, AloofSettles DEF Aloof
<1>14. \A e \in Clients : Settling(e)' /\ Archiving(e)'
  BY <1>7, <1>8, <1>13, OthersSettle
<1>15. QED
  BY <1>6, <1>11, <1>12, <1>14 DEF PayInv

(* ------------------------------------------------------------- the theorem *)
LEMMA PayStepKeeps ==
  ASSUME FleetInv, CourseInv, StaffInv, PayInv, NEW c \in Clients, Step(c) \/ Fail(c)
  PROVE  PayInv'
<1>1. CASE \/ MoveStudentWrite(c) \/ ArchiveBegin(c) \/ ArchiveLock(c) \/ ArchiveCheck(c)
           \/ ArchiveWrite(c) \/ PaymentBegin(c) \/ PaymentLock(c) \/ PaymentResolve(c)
           \/ PaymentWrite(c)
  BY <1>1, MovingAway, BeginningArchive, CheckingArchive, WritingArchive, BeginningPayment,
     ResolvingPayment, WritingPayment
<1>2. CASE ~(\/ MoveStudentWrite(c) \/ ArchiveBegin(c) \/ ArchiveLock(c) \/ ArchiveCheck(c)
             \/ ArchiveWrite(c) \/ PaymentBegin(c) \/ PaymentLock(c) \/ PaymentResolve(c)
             \/ PaymentWrite(c))
  BY <1>2, AloofSteps, AloofKeeps DEF Step, PeopleStep
<1>3. QED
  BY <1>1, <1>2

LEMMA PayInvInit == Init => PayInv
<1> SUFFICES ASSUME Init PROVE PayInv
  OBVIOUS
<1>1. PICK o \in Openings :
        /\ courses = o.courses /\ pupils = o.pupils /\ seats = o.seats
        /\ payments = o.payments
  BY DEF Init
<1>2. /\ o.payments \in [Payments -> Null(PaymentRow)]
      /\ \A p \in Students : o.pupils[p].archivedIn # None => ~o.pupils[p].active
      /\ \A d \in Payments :
           LET k == o.payments[d].course
           IN o.payments[d] # None /\ o.payments[d].state = "PENDING" =>
                /\ o.courses[k].school \in Schools
                /\ \E p \in Students :
                     /\ o.seats[<<k, p>>] # None
                     /\ \/ o.pupils[p].active
                        \/ o.pupils[p].archivedIn \notin {None, o.courses[k].school}
  BY OpeningsAssumption
<1>3. \A c \in Clients : Idle(c)
  BY DEF Init, Idle
<1>4. \A p \in Students, s \in Schools : ~Leaving(p, s)
  BY <1>3 DEF Leaving, At
<1>5. Answered
  <2> SUFFICES ASSUME NEW d \in Payments, NEW k \in Courses, Open(d), payments[d].course = k
               PROVE  \E s \in Schools, p \in Students :
                        courses[k].school = s /\ p \in Enrolled(k) /\ Answers(p, s)
    BY DEF Answered
  <2>1. /\ o.courses[k].school \in Schools
        /\ \E p \in Students :
             /\ o.seats[<<k, p>>] # None
             /\ \/ o.pupils[p].active
                \/ o.pupils[p].archivedIn \notin {None, o.courses[k].school}
    BY <1>1, <1>2 DEF Open
  <2>2. QED
    BY <1>1, <1>4, <2>1 DEF Enrolled, Answers
<1>6. QED
  BY <1>1, <1>2, <1>3, <1>5 DEF PayInv, ArchivedOnce, Settling, Archiving

LEMMA PayInvNext ==
  FleetInv /\ CourseInv /\ StaffInv /\ PayInv /\ [Next]_vars => PayInv'
<1> SUFFICES ASSUME FleetInv, CourseInv, StaffInv, PayInv, [Next]_vars PROVE PayInv'
  OBVIOUS
<1>1. CASE Tick \/ UNCHANGED vars
  <2>1. UNCHANGED <<courses, pupils, seats, payments, locked, handlers>>
    BY <1>1 DEF Tick, vars, tables, teaching, people, control
  <2>2. Answered' /\ ArchivedOnce'
    <3>1. \A p \in Students, s \in Schools : Leaving(p, s)' <=> Leaving(p, s)
      BY <2>1 DEF Leaving, At, Idle, Req
    <3>2. \A p \in Students, s \in Schools : Answers(p, s)' <=> Answers(p, s)
      BY <2>1, <3>1 DEF Answers
    <3>3. \A k \in Courses : Enrolled(k)' = Enrolled(k)
      BY <2>1 DEF Enrolled
    <3>4. QED
      BY <2>1, <3>2, <3>3 DEF PayInv, Answered, ArchivedOnce, Open
  <2>3. \A c \in Clients : Settling(c)' /\ Archiving(c)'
    BY <2>1 DEF PayInv, Settling, Archiving, Idle, Req
  <2>4. QED
    BY <2>1, <2>2, <2>3 DEF PayInv
<1>2. ASSUME NEW c \in Clients, Step(c) \/ Fail(c) PROVE PayInv'
  BY <1>2, PayStepKeeps
<1>3. QED
  BY <1>1, <1>2 DEF Next

\* Who answers for a payment can settle it, while the school lives.
LEMMA AnsweredIsSettleable == CourseInv /\ PayInv => PaymentsSettleable
<1> SUFFICES ASSUME CourseInv, PayInv, NEW d \in Payments, payments[d] # None,
                    payments[d].state = "PENDING",
                    Live(schools[courses[payments[d].course].school])
             PROVE  \E p \in Enrolled(payments[d].course) :
                      \/ MaySettle(schools[courses[payments[d].course].school].owner, p, d)
                      \/ pupils[p].archivedIn \notin {None, courses[payments[d].course].school}
  BY DEF PaymentsSettleable
<1>1. PICK k \in Courses : k = payments[d].course
  BY CourseOfPayment
<1>2. PICK s \in Schools, p \in Students :
        courses[k].school = s /\ p \in Enrolled(k) /\ Answers(p, s)
  BY <1>1 DEF PayInv, Answered, Open
<1>3. Live(courses[k]) /\ seats[<<k, p>>] # None
  BY <1>2 DEF CourseInv, OnlyLiveUsed, Empty, Enrolled
<1>4. Owns(schools[s].owner, s)
  BY <1>1, <1>2, OfficeAssumption DEF Owns, Rows
<1>5. QED
  BY <1>1, <1>2, <1>3, <1>4 DEF Answers, MaySettle

\* An open payment of a living school can be settled through a student of its
\* course, unless another school has archived that student, whatever moves,
\* archives, enrolments and settlements run at the same time.
THEOREM PaymentsStaySettleable == Spec => []PaymentsSettleable
<1>1. FleetInv /\ CourseInv /\ PayInv => PaymentsSettleable
  BY AnsweredIsSettleable
<1>2. QED
  BY <1>1, FleetInvInit, FleetInvNext, CourseInvInit, CourseInvNext, StaffInvInit,
     StaffInvNext, PayInvInit, PayInvNext, PTL DEF Spec

(* -------------------------------------------- types: the inductive invariant *)
\* What a handler remembers for a column it will write fits the column.
Notes(c) ==
  /\ At(c, "createEvent", "insert") => Saw(c) \in Null(Schools)
  /\ At(c, "deleteSchool", "write") => Saw(c).heir \in Null(Schools)
  /\ Reconciles(c, "stored") => Saw(c) \subseteq Schools
  /\ Reconciles(c, "repair") => Saw(c) \in Null(Schools)

TableInv ==
  /\ bookings \in [Bookings -> BookingRow]
  /\ seats \in [Courses \X Students -> Null(SeatStates)]
  /\ defaultOsk \in [Managers -> Null(Schools)]
  /\ locked \in [Rows -> Null(Clients)]
  /\ clock \in Ticks
  /\ \A c \in Clients : Notes(c)

LEMMA BookingShapes ==
  ASSUME NEW r \in Requests
  PROVE  /\ r.op \in {"bookLesson", "bookOwnLesson"} =>
              /\ r.booking \in Bookings /\ r.course \in Courses /\ r.at \in Ticks
              /\ r.instructor \in Instructors /\ r.student \in Students
         /\ r.op = "createEvent" =>
              /\ r.booking \in Bookings /\ r.course \in Null(Courses) /\ r.at \in Ticks
              /\ r.kind \in {"DRIVE", "THEORY"} /\ r.vehicle \in Null(Vehicles)
              /\ r.instructor \in Instructors
         /\ r.op = "setDefaultSchool" => r.school \in Schools
<1>1. CASE r \in FleetRequests \cup SchoolRequests
  BY <1>1 DEF FleetRequests, SchoolRequests
<1>2. CASE r \in CourseRequests \cup SeatRequests
  BY <1>2 DEF CourseRequests, SeatRequests
<1>3. CASE r \in BookingRequests
  BY <1>3 DEF BookingRequests
<1>4. CASE r \in PeopleRequests \cup PaymentRequests
  BY <1>4 DEF PeopleRequests, PaymentRequests
<1>5. QED
  BY <1>1, <1>2, <1>3, <1>4 DEF Requests

LEMMA BookingsStayTyped ==
  ASSUME FleetInv, CourseInv, LessonInv, TableInv, NEW c \in Clients, Step(c) \/ Fail(c)
  PROVE  bookings' \in [Bookings -> BookingRow]
<1>1. CASE FleetStep(c) \/ SchoolStep(c) \/ CourseStep(c) \/ PeopleStep(c) \/ Fail(c)
  BY <1>1, AwayFleet, AwaySchools, CourseElsewhere, AwayPeople, AwayFail DEF Away, TableInv
<1>2. CASE BookLessonCommit(c)
  <2> DEFINE r == Req(c)
             row == [state |-> "live", kind |-> "LESSON", course |-> r.course,
                     instructor |-> r.instructor, student |-> r.student,
                     vehicle |-> Saw(c).vehicle, school |-> courses[r.course].school,
                     at |-> r.at]
  <2>1. /\ ~Idle(c) /\ r.op \in {"bookLesson", "bookOwnLesson"} /\ BooksLesson(c, "commit")
        /\ bookings' = [bookings EXCEPT ![r.booking] = row]
    BY <1>2 DEF BookLessonCommit, BooksLesson, At, Req
  <2>2. /\ r.booking \in Bookings /\ r.course \in Courses /\ r.at \in Ticks
        /\ r.instructor \in Instructors /\ r.student \in Students
    BY <2>1, OwnRequest, BookingShapes
  <2>3. Saw(c).vehicle \in Vehicles
    BY <2>1 DEF LessonInv, Serves, Chosen
  <2>4. courses[r.course].school \in Null(Schools)
    BY <2>2 DEF CourseInv, TeachingTyped, CourseRow
  <2>5. row \in BookingRow
    BY <2>2, <2>3, <2>4 DEF BookingRow, States, Null
  <2> HIDE DEF row
  <2>6. QED
    BY <2>1, <2>5 DEF TableInv
<1>3. CASE CreateEventInsert(c)
  <2> DEFINE r == Req(c)
             row == [state |-> "live", kind |-> r.kind, course |-> r.course,
                     instructor |-> r.instructor, student |-> None,
                     vehicle |-> IF r.kind = "DRIVE" THEN r.vehicle ELSE None,
                     school |-> Saw(c), at |-> r.at]
  <2>1. /\ ~Idle(c) /\ r.op = "createEvent" /\ At(c, "createEvent", "insert")
        /\ bookings' = [bookings EXCEPT ![r.booking] = row]
    BY <1>3 DEF CreateEventInsert, At, Req
  <2>2. /\ r.booking \in Bookings /\ r.course \in Null(Courses) /\ r.at \in Ticks
        /\ r.kind \in {"DRIVE", "THEORY"} /\ r.vehicle \in Null(Vehicles)
        /\ r.instructor \in Instructors
    BY <2>1, OwnRequest, BookingShapes
  <2>3. Saw(c) \in Null(Schools)
    BY <2>1 DEF TableInv, Notes
  <2>4. row \in BookingRow
    BY <2>2, <2>3 DEF BookingRow, States, Null
  <2> HIDE DEF row
  <2>5. QED
    BY <2>1, <2>4 DEF TableInv
<1>4. CASE CancelBooking(c)
  <2>1. PICK r : bookings' = [bookings EXCEPT ![r.booking].state = "gone"]
    BY <1>4 DEF CancelBooking
  <2>2. QED
    BY <2>1 DEF TableInv, BookingRow, States
<1>5. CASE BookingStep(c) /\ ~(BookLessonCommit(c) \/ CreateEventInsert(c) \/ CancelBooking(c))
  BY <1>5, AwayBooking DEF BookingStep, Away, TableInv
<1>6. QED
  BY <1>1, <1>2, <1>3, <1>4, <1>5 DEF Step

LEMMA SeatsStayTyped ==
  ASSUME FleetInv, CourseInv, TableInv, NEW c \in Clients, Step(c) \/ Fail(c)
  PROVE  seats' \in [Courses \X Students -> Null(SeatStates)]
<1>1. CASE FleetStep(c) \/ SchoolStep(c) \/ PeopleStep(c) \/ Fail(c)
  BY <1>1, AwayFleet, AwaySchools, AwayPeople, AwayFail DEF Away, TableInv
<1>2. CASE BookLessonCommit(c) \/ CreateEventInsert(c) \/ CancelBooking(c)
  BY <1>2 DEF BookLessonCommit, CreateEventInsert, CancelBooking, TableInv
<1>3. CASE BookingStep(c) /\ ~(BookLessonCommit(c) \/ CreateEventInsert(c) \/ CancelBooking(c))
  BY <1>3, AwayBooking DEF BookingStep, Away, TableInv
<1>4. CASE EnrolWrite(c)
  BY <1>4 DEF EnrolWrite, TableInv, Null, SeatStates
<1>5. CASE SetSeatWrite(c)
  <2>1. /\ seats' = [seats EXCEPT ![<<Req(c).course, Req(c).student>>] = Req(c).status]
        /\ ~Idle(c) /\ Req(c).op = "setSeat"
    BY <1>5 DEF SetSeatWrite, At, Req
  <2>2. Req(c).status \in SeatStates
    BY <2>1, OwnRequest, CourseShapes
  <2>3. QED
    BY <2>1, <2>2 DEF TableInv, Null
<1>6. CASE CourseStep(c) /\ ~(EnrolWrite(c) \/ SetSeatWrite(c))
  BY <1>6 DEF CourseStep, CreateCourseBegin, CreateCourseWrite, PatchCourseBegin,
     PatchCourseCheck, PatchCourseWrite, PatchCourseRetry, DeleteCourseBegin,
     DeleteCourseLock, DeleteCourseCount, DeleteCourseWrite, EnrolBegin, SetSeatBegin,
     Receive, Look, Take, tables, teaching, TableInv
<1>7. QED
  BY <1>1, <1>2, <1>3, <1>4, <1>5, <1>6 DEF Step

\* Only four steps write a default school.
LEMMA DefaultsElsewhere ==
  ASSUME NEW c \in Clients, Step(c) \/ Fail(c),
         ~(\/ CreateSchoolWrite(c) \/ SetDefaultSchoolWrite(c) \/ DeleteSchoolWrite(c)
           \/ ReconcileRepair(c))
  PROVE  UNCHANGED defaultOsk
<1> USE DEF tables, fleet, Receive, Look, Take
<1>1. CASE FleetStep(c)
  BY <1>1 DEF FleetStep, CreateVehicleBegin, CreateVehicleLock, CreateVehicleCount,
     CreateVehicleWrite, UpdateVehicleBegin, UpdateVehicleCheck, UpdateVehicleWrite,
     UpdateVehicleRetry, VehicleStatusBegin, VehicleStatusWrite, ListVehiclesBegin,
     ListVehiclesRepair, ListVehiclesEnd, DeleteVehicleBegin, DeleteVehicleLock,
     DeleteVehicleLockSchool, DeleteVehicleCheck, DeleteVehicleCount, DeleteVehicleWrite,
     SetDefaultVehicleBegin, SetDefaultVehicleLock, SetDefaultVehicleCheck,
     SetDefaultVehicleWrite
<1>2. CASE SchoolStep(c)
  BY <1>2 DEF SchoolStep, CreateSchoolBegin, SetDefaultSchoolBegin, UpdateSchoolBegin,
     UpdateSchoolWrite, DeleteSchoolBegin, DeleteSchoolRead, DeleteSchoolMark,
     ReadDefaultBegin, ReconcileOwned, ReconcileStored
<1>3. CASE CourseStep(c)
  BY <1>3 DEF CourseStep, CreateCourseBegin, CreateCourseWrite, PatchCourseBegin,
     PatchCourseCheck, PatchCourseWrite, PatchCourseRetry, DeleteCourseBegin,
     DeleteCourseLock, DeleteCourseCount, DeleteCourseWrite, EnrolBegin, EnrolWrite,
     SetSeatBegin, SetSeatWrite
<1>4. CASE BookingStep(c)
  BY <1>4 DEF BookingStep, BookLessonBegin, BookOwnLessonBegin, BookLessonCheck,
     BookLessonCommit, BookLessonRetry, CancelBooking, CreateEventBegin,
     CreateEventInsert, CheckLesson
<1>5. CASE PeopleStep(c)
  BY <1>5 DEF PeopleStep, QualifyBegin, QualifyLock, QualifyCheck, QualifyWrite,
     MoveInstructorBegin, MoveInstructorObligations, MoveInstructorLock,
     MoveInstructorCheck, MoveInstructorWrite, MoveStudentBegin, MoveStudentLock,
     MoveStudentLockProfile, MoveStudentCheck, MoveStudentWrite, ArchiveBegin,
     ArchiveLock, ArchiveCheck, ArchiveWrite, PaymentBegin, PaymentLock,
     PaymentResolve, PaymentWrite
<1>6. CASE Fail(c)
  BY <1>6 DEF Fail
<1>7. QED
  BY <1>1, <1>2, <1>3, <1>4, <1>5, <1>6 DEF Step

LEMMA DefaultsStaySchools ==
  ASSUME FleetInv, TableInv, NEW c \in Clients, Step(c) \/ Fail(c)
  PROVE  defaultOsk' \in [Managers -> Null(Schools)]
<1>1. CASE CreateSchoolWrite(c)
  <2>1. /\ ~Idle(c) /\ Req(c).op = "createSchool"
        /\ \/ defaultOsk' = [defaultOsk EXCEPT ![Req(c).actor] = Req(c).school]
           \/ defaultOsk' = defaultOsk
    BY <1>1 DEF CreateSchoolWrite, At, Req
  <2>2. Req(c).school \in Schools
    BY <2>1, OwnRequest, RequestShapes
  <2>3. QED
    BY <2>1, <2>2 DEF TableInv, Null
<1>2. CASE SetDefaultSchoolWrite(c)
  <2>1. /\ ~Idle(c) /\ Req(c).op = "setDefaultSchool"
        /\ defaultOsk' = [defaultOsk EXCEPT ![Req(c).actor] = Req(c).school]
    BY <1>2 DEF SetDefaultSchoolWrite, At, Req
  <2>2. Req(c).school \in Schools
    BY <2>1, OwnRequest, BookingShapes
  <2>3. QED
    BY <2>1, <2>2 DEF TableInv, Null
<1>3. CASE DeleteSchoolWrite(c)
  <2>1. Saw(c).heir \in Null(Schools)
    BY <1>3 DEF DeleteSchoolWrite, TableInv, Notes
  <2>2. \/ defaultOsk' = [defaultOsk EXCEPT ![Req(c).actor] = Saw(c).heir]
        \/ defaultOsk' = defaultOsk
    BY <1>3 DEF DeleteSchoolWrite
  <2>3. QED
    BY <2>1, <2>2 DEF TableInv
<1>4. CASE ReconcileRepair(c)
  <2>1. Saw(c) \in Null(Schools)
    BY <1>4 DEF ReconcileRepair, TableInv, Notes
  <2>2. QED
    BY <1>4, <2>1 DEF ReconcileRepair, TableInv
<1>5. CASE ~(\/ CreateSchoolWrite(c) \/ SetDefaultSchoolWrite(c) \/ DeleteSchoolWrite(c)
             \/ ReconcileRepair(c))
  BY <1>5, DefaultsElsewhere DEF TableInv
<1>6. QED
  BY <1>1, <1>2, <1>3, <1>4, <1>5

\* A lock is taken by the handler that steps, given back or left alone.
LEMMA LocksChange ==
  ASSUME FleetInv, NEW c \in Clients, Step(c) \/ Fail(c)
  PROVE  \A x \in Rows : locked'[x] \in {locked[x], c, None}
<1> SUFFICES ASSUME NEW x \in Rows PROVE locked'[x] \in {locked[x], c, None}
  OBVIOUS
<1>1. locked = [y \in Rows |-> locked[y]]
  BY DEF FleetInv, Typed
<1> USE DEF Receive, Look, Take, Finish
<1>2. CASE FleetStep(c)
  BY <1>1, <1>2 DEF FleetStep, CreateVehicleBegin, CreateVehicleLock, CreateVehicleCount,
     CreateVehicleWrite, UpdateVehicleBegin, UpdateVehicleCheck, UpdateVehicleWrite,
     UpdateVehicleRetry, VehicleStatusBegin, VehicleStatusWrite, ListVehiclesBegin,
     ListVehiclesRepair, ListVehiclesEnd, DeleteVehicleBegin, DeleteVehicleLock,
     DeleteVehicleLockSchool, DeleteVehicleCheck, DeleteVehicleCount, DeleteVehicleWrite,
     SetDefaultVehicleBegin, SetDefaultVehicleLock, SetDefaultVehicleCheck,
     SetDefaultVehicleWrite
<1>3. CASE SchoolStep(c)
  BY <1>1, <1>3 DEF SchoolStep, CreateSchoolBegin, CreateSchoolWrite, SetDefaultSchoolBegin,
     SetDefaultSchoolWrite, UpdateSchoolBegin, UpdateSchoolWrite, DeleteSchoolBegin,
     DeleteSchoolRead, DeleteSchoolMark, DeleteSchoolWrite, ReadDefaultBegin,
     ReconcileOwned, ReconcileStored, ReconcileRepair
<1>4. CASE CourseStep(c)
  BY <1>1, <1>4 DEF CourseStep, CreateCourseBegin, CreateCourseWrite, PatchCourseBegin,
     PatchCourseCheck, PatchCourseWrite, PatchCourseRetry, DeleteCourseBegin,
     DeleteCourseLock, DeleteCourseCount, DeleteCourseWrite, EnrolBegin, EnrolWrite,
     SetSeatBegin, SetSeatWrite
<1>5. CASE BookingStep(c)
  BY <1>1, <1>5 DEF BookingStep, BookLessonBegin, BookOwnLessonBegin, BookLessonCheck,
     BookLessonCommit, BookLessonRetry, CancelBooking, CreateEventBegin,
     CreateEventInsert, CheckLesson
<1>6. CASE PeopleStep(c)
  BY <1>1, <1>6 DEF PeopleStep, QualifyBegin, QualifyLock, QualifyCheck, QualifyWrite,
     MoveInstructorBegin, MoveInstructorObligations, MoveInstructorLock,
     MoveInstructorCheck, MoveInstructorWrite, MoveStudentBegin, MoveStudentLock,
     MoveStudentLockProfile, MoveStudentCheck, MoveStudentWrite, ArchiveBegin,
     ArchiveLock, ArchiveCheck, ArchiveWrite, PaymentBegin, PaymentLock,
     PaymentResolve, PaymentWrite
<1>7. CASE Fail(c)
  BY <1>1, <1>7 DEF Fail
<1>8. QED
  BY <1>2, <1>3, <1>4, <1>5, <1>6, <1>7 DEF Step

LEMMA LocksStayTyped ==
  ASSUME FleetInv, TableInv, NEW c \in Clients, Step(c) \/ Fail(c)
  PROVE  locked' \in [Rows -> Null(Clients)]
<1>1. locked' = [x \in Rows |-> locked'[x]]
  BY StepIsSteady DEF Steady
<1>2. \A x \in Rows : locked'[x] \in Null(Clients)
  BY LocksChange DEF TableInv, Null
<1>3. QED
  BY <1>1, <1>2

LEMMA ClockStands ==
  ASSUME FleetInv, NEW c \in Clients, Step(c) \/ Fail(c)
  PROVE  UNCHANGED clock
<1>1. CASE FleetStep(c) \/ SchoolStep(c) \/ CourseStep(c) \/ PeopleStep(c) \/ Fail(c)
  BY <1>1, AwayFleet, AwaySchools, CourseElsewhere, AwayPeople, AwayFail DEF Away
<1>2. CASE BookLessonCommit(c) \/ CreateEventInsert(c) \/ CancelBooking(c)
  BY <1>2 DEF BookLessonCommit, CreateEventInsert, CancelBooking, Finish
<1>3. CASE BookingStep(c) /\ ~(BookLessonCommit(c) \/ CreateEventInsert(c) \/ CancelBooking(c))
  BY <1>3, AwayBooking DEF BookingStep, Away
<1>4. QED
  BY <1>1, <1>2, <1>3 DEF Step

(* -------------------------------------------- what a handler remembers ---- *)
LEMMA OthersNote ==
  ASSUME TableInv, NEW c \in Clients, Steady(c), NEW d \in Clients, d # c
  PROVE  Notes(d)'
<1>1. handlers'[d] = handlers[d] /\ Notes(d)
  BY DEF TableInv, Steady
<1>2. QED
  BY <1>1 DEF Notes, Reconciles, At, Idle, Req, Saw

LEMMA NoteTaken ==
  ASSUME NEW c \in Clients, NEW r, NEW step, NEW saw,
         handlers'[c] = [req |-> r, step |-> step, saw |-> saw],
         r.op = "createEvent" /\ step = "insert" => saw \in Null(Schools),
         r.op = "deleteSchool" /\ step = "write" => saw.heir \in Null(Schools),
         r.op \in {"createSchool", "deleteSchool", "readDefault"} /\ step = "stored" =>
           saw \subseteq Schools,
         r.op \in {"createSchool", "deleteSchool", "readDefault"} /\ step = "repair" =>
           saw \in Null(Schools)
  PROVE  Notes(c)'
<1>1. handlers'[c].req = r /\ handlers'[c].step = step /\ handlers'[c].saw = saw
  OBVIOUS
<1>2. QED
  BY <1>1 DEF Notes, Reconciles, At, Idle, Req, Saw

LEMMA NothingNoted ==
  ASSUME NEW c \in Clients,
         \/ handlers'[c] = None
         \/ handlers'[c].req.op \notin {"createEvent", "createSchool", "deleteSchool",
                                        "readDefault"}
  PROVE  Notes(c)'
BY DEF Notes, Reconciles, At, Idle, Req

LEMMA SchoolNotes ==
  ASSUME FleetInv, TableInv, NEW c \in Clients, SchoolStep(c)
  PROVE  Notes(c)'
<1>1. CASE \/ CreateSchoolBegin(c) \/ SetDefaultSchoolBegin(c) \/ UpdateSchoolBegin(c)
           \/ DeleteSchoolBegin(c) \/ ReadDefaultBegin(c)
  <2>1. PICK r \in pending :
          /\ r.op # "createEvent"
          /\ \E step \in {"read", "write", "owned"} :
               /\ r.op = "deleteSchool" => step = "read"
               /\ \E saw : Receive(c, r, step, saw)
    BY <1>1 DEF CreateSchoolBegin, SetDefaultSchoolBegin, UpdateSchoolBegin,
       DeleteSchoolBegin, ReadDefaultBegin
  <2>2. PICK step \in {"read", "write", "owned"} :
          /\ r.op = "deleteSchool" => step = "read"
          /\ \E saw : Receive(c, r, step, saw)
    BY <2>1
  <2>3. PICK saw : Receive(c, r, step, saw)
    BY <2>2
  <2>4. handlers'[c] = [req |-> r, step |-> step, saw |-> saw]
    BY <2>3, Received
  <2>5. QED
    BY <2>1, <2>2, <2>4, NoteTaken
<1>2. CASE SetDefaultSchoolWrite(c) \/ UpdateSchoolWrite(c) \/ ReconcileRepair(c)
  BY <1>2, Ended, NothingNoted DEF SetDefaultSchoolWrite, UpdateSchoolWrite, ReconcileRepair
<1>3. CASE DeleteSchoolRead(c) \/ CreateSchoolWrite(c) \/ DeleteSchoolWrite(c)
  <2>1. \/ Finish(c)
        \/ /\ ~Idle(c) /\ Req(c).op \in {"deleteSchool", "createSchool"}
           /\ \E step \in {"mark", "owned"} : \E saw : Goto(c, step, saw)
    BY <1>3 DEF DeleteSchoolRead, CreateSchoolWrite, DeleteSchoolWrite, Look, At, Req
  <2>2. CASE Finish(c)
    BY <2>2, Ended, NothingNoted
  <2>3. CASE ~Finish(c)
    <3>1. PICK step \in {"mark", "owned"} : \E saw : Goto(c, step, saw)
      BY <2>1, <2>3
    <3>2. PICK saw : Goto(c, step, saw)
      BY <3>1
    <3>3. handlers'[c] = [req |-> Req(c), step |-> step, saw |-> saw]
      BY <2>1, <2>3, <3>2, WentOn
    <3>4. QED
      BY <2>1, <2>3, <3>3, NoteTaken
  <2>4. QED
    BY <2>2, <2>3
<1>4. CASE DeleteSchoolMark(c)
  <2> DEFINE heirs == OwnedBy(Req(c).actor) \ {Req(c).school}
             heir == IF heirs = {} THEN None ELSE Earliest(heirs)
             saw == [wasDefault |-> Saw(c), heir |-> heir]
  <2>1. ~Idle(c) /\ Req(c).op = "deleteSchool" /\ Goto(c, "write", saw)
    BY <1>4 DEF DeleteSchoolMark, Take, At, Req
  <2>2. heirs \in SUBSET Schools
    BY DEF OwnedBy
  <2>3. heir \in Null(Schools)
    <3> HIDE DEF heirs
    <3>1. QED
      BY <2>2, EarliestIsOne DEF Null
  <2>4. saw.heir \in Null(Schools)
    BY <2>3
  <2> HIDE DEF saw
  <2>5. handlers'[c] = [req |-> Req(c), step |-> "write", saw |-> saw]
    BY <2>1, WentOn
  <2>6. QED
    BY <2>1, <2>4, <2>5, NoteTaken
<1>5. CASE ReconcileOwned(c)
  <2>1. /\ ~Idle(c) /\ Goto(c, "stored", OwnedBy(Req(c).actor))
        /\ Req(c).op \in {"createSchool", "deleteSchool", "readDefault"}
    BY <1>5 DEF ReconcileOwned, Reconciles, Look, At, Req
  <2>2. handlers'[c] = [req |-> Req(c), step |-> "stored", saw |-> OwnedBy(Req(c).actor)]
    BY <2>1, WentOn
  <2>3. OwnedBy(Req(c).actor) \subseteq Schools
    BY DEF OwnedBy
  <2>4. QED
    BY <2>1, <2>2, <2>3, NoteTaken
<1>6. CASE ReconcileStored(c)
  <2> DEFINE heir == IF Saw(c) = {} THEN None ELSE Earliest(Saw(c))
  <2>1. /\ ~Idle(c) /\ Reconciles(c, "stored")
        /\ Req(c).op \in {"createSchool", "deleteSchool", "readDefault"}
        /\ Finish(c) \/ Goto(c, "repair", heir)
    BY <1>6 DEF ReconcileStored, Reconciles, Look, At, Req
  <2>2. CASE Finish(c)
    BY <2>2, Ended, NothingNoted
  <2>3. CASE Goto(c, "repair", heir)
    <3>1. Saw(c) \in SUBSET Schools
      BY <2>1 DEF TableInv, Notes
    <3>2. heir \in Null(Schools)
      BY <3>1, EarliestIsOne DEF Null
    <3> HIDE DEF heir
    <3>3. handlers'[c] = [req |-> Req(c), step |-> "repair", saw |-> heir]
      BY <2>1, <2>3, WentOn
    <3>4. QED
      BY <2>1, <3>2, <3>3, NoteTaken
  <2>4. QED
    BY <2>1, <2>2, <2>3
<1>7. QED
  BY <1>1, <1>2, <1>3, <1>4, <1>5, <1>6 DEF SchoolStep

LEMMA BookingNotes ==
  ASSUME FleetInv, StaffInv, TableInv, NEW c \in Clients, BookingStep(c)
  PROVE  Notes(c)'
<1>1. CASE BookLessonCommit(c) \/ CreateEventInsert(c)
  BY <1>1, Ended, NothingNoted DEF BookLessonCommit, CreateEventInsert
<1>2. CASE CancelBooking(c) \/ CheckLesson(c)
  BY <1>2, NothingNoted DEF CancelBooking, CheckLesson, Idle
<1>3. CASE BookLessonBegin(c) \/ BookOwnLessonBegin(c)
  <2>1. PICK r \in pending : \E saw : Receive(c, r, "begin", saw)
    BY <1>3 DEF BookLessonBegin, BookOwnLessonBegin
  <2>2. PICK saw : Receive(c, r, "begin", saw)
    BY <2>1
  <2>3. handlers'[c] = [req |-> r, step |-> "begin", saw |-> saw]
    BY <2>2, Received
  <2>4. QED
    BY <2>3, NoteTaken
<1>4. CASE BookLessonCheck(c) \/ BookLessonRetry(c)
  <2>1. PICK step \in {"commit", "begin"} : ~Idle(c) /\ \E saw : Goto(c, step, saw)
    BY <1>4 DEF BookLessonCheck, BookLessonRetry, BooksLesson, Look, At
  <2>2. PICK saw : Goto(c, step, saw)
    BY <2>1
  <2>3. handlers'[c] = [req |-> Req(c), step |-> step, saw |-> saw]
    BY <2>1, <2>2, WentOn
  <2>4. QED
    BY <2>3, NoteTaken
<1>5. CASE CreateEventBegin(c)
  <2>1. PICK r \in pending :
          /\ r.op = "createEvent"
          /\ handlers' = [handlers EXCEPT ![c] =
               [req |-> r, step |-> "insert", saw |-> staff[r.instructor].school]]
    BY <1>5 DEF CreateEventBegin
  <2>2. r.instructor \in Instructors
    BY <2>1, BookingShapes DEF FleetInv, Typed
  <2>3. PICK s \in Null(Schools) : s = staff[r.instructor].school
    BY <2>2 DEF StaffInv, PeopleTyped, StaffRow
  <2>4. handlers'[c] = [req |-> r, step |-> "insert", saw |-> s]
    BY <2>1, <2>3 DEF FleetInv, Typed
  <2>5. QED
    BY <2>1, <2>4, NoteTaken
<1>6. QED
  BY <1>1, <1>2, <1>3, <1>4, <1>5 DEF BookingStep

LEMMA StepNotes ==
  ASSUME FleetInv, StaffInv, TableInv, NEW c \in Clients, Step(c) \/ Fail(c)
  PROVE  Notes(c)'
<1>1. CASE FleetStep(c)
  BY <1>1, AwayFleet, NothingNoted DEF Away, Busy, FleetOps
<1>2. CASE CourseStep(c)
  BY <1>2, CourseElsewhere, NothingNoted DEF Busy, CourseOps
<1>3. CASE PeopleStep(c)
  BY <1>3, AwayPeople, NothingNoted DEF Away, Busy, PeopleOps, PaymentOps
<1>4. CASE Fail(c)
  BY <1>4, Ended, NothingNoted DEF Fail
<1>5. QED
  BY <1>1, <1>2, <1>3, <1>4, SchoolNotes, BookingNotes DEF Step

(* ------------------------------------------------------------- the theorem *)
LEMMA TableInvInit == Init => TableInv
<1> SUFFICES ASSUME Init PROVE TableInv
  OBVIOUS
<1>1. PICK o \in Openings :
        bookings = o.bookings /\ seats = o.seats /\ defaultOsk = o.defaultOsk
  BY DEF Init
<1>2. /\ bookings \in [Bookings -> BookingRow]
      /\ seats \in [Courses \X Students -> Null(SeatStates)]
      /\ defaultOsk \in [Managers -> Null(Schools)]
  BY <1>1, OpeningsAssumption
<1>3. locked \in [Rows -> Null(Clients)] /\ clock \in Ticks
  BY OfficeAssumption DEF Init, Null, Ticks
<1>4. \A c \in Clients : Notes(c)
  BY DEF Init, Notes, Reconciles, At, Idle
<1>5. QED
  BY <1>2, <1>3, <1>4 DEF TableInv

LEMMA TableInvNext ==
  FleetInv /\ CourseInv /\ LessonInv /\ StaffInv /\ TableInv /\ [Next]_vars => TableInv'
<1> SUFFICES ASSUME FleetInv, CourseInv, LessonInv, StaffInv, TableInv, [Next]_vars
             PROVE  TableInv'
  OBVIOUS
<1>1. CASE Tick \/ UNCHANGED vars
  <2>1. UNCHANGED <<bookings, seats, defaultOsk, locked, handlers>>
    BY <1>1 DEF Tick, vars, tables, fleet, teaching, control
  <2>2. clock' \in Ticks
    BY <1>1, OfficeAssumption DEF Tick, vars, TableInv, Ticks
  <2>3. \A c \in Clients : Notes(c)'
    BY <2>1 DEF TableInv, Notes, Reconciles, At, Idle, Req, Saw
  <2>4. QED
    BY <2>1, <2>2, <2>3 DEF TableInv
<1>2. ASSUME NEW c \in Clients, Step(c) \/ Fail(c) PROVE TableInv'
  <2>1. \A d \in Clients : Notes(d)'
    BY <1>2, StepNotes, OthersNote, StepIsSteady
  <2>2. clock' \in Ticks
    BY <1>2, ClockStands DEF TableInv
  <2>3. QED
    BY <1>2, <2>1, <2>2, BookingsStayTyped, SeatsStayTyped, DefaultsStaySchools,
       LocksStayTyped DEF TableInv
<1>3. QED
  BY <1>1, <1>2 DEF Next

\* Every table of the office keeps rows of its own shape, a lock is held by a
\* handler or nobody, and the clock stays in its bound.
THEOREM OfficeTypes == Spec => []TypeOK
<1>1. FleetInv /\ CourseInv /\ StaffInv /\ PayInv /\ TableInv => TypeOK
  BY DEF FleetInv, Typed, CourseInv, TeachingTyped, StaffInv, PeopleTyped, PayInv, TableInv,
     TypeOK
<1>2. QED
  BY <1>1, FleetInvInit, FleetInvNext, CourseInvInit, CourseInvNext, LessonInvInit,
     LessonInvNext, StaffInvInit, StaffInvNext, PayInvInit, PayInvNext, TableInvInit,
     TableInvNext, PTL DEF Spec
=============================================================================
