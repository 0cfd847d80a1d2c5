-------------------------------- MODULE Staff --------------------------------
(***************************************************************************)
(* The people of a school: instructors and their qualifications            *)
(* (services/instructor), the school a student belongs to (services/       *)
(* students), the archive of both (services/managerAccounts), and the      *)
(* payments of a student's courses (services/students/paymentsCommands).   *)
(* A person's row in users is locked by every one of these handlers.       *)
(***************************************************************************)
EXTENDS Office

PeopleRequests ==
  [op : {"qualify"}, actor : Managers \cup {Admin}, instructor : Instructors,
   types : Opt(SUBSET Types)]
  \cup [op : {"moveInstructor"}, actor : Managers \cup {Admin},
        instructor : Instructors, school : Schools]
  \cup [op : {"moveStudent"}, actor : Managers \cup {Admin}, student : Students,
        school : Schools]
  \cup [op : {"archive"}, actor : Managers, person : Instructors \cup Students]
PaymentRequests ==
  [op : {"createPayment", "updatePayment", "markPaid", "markUnpaid"},
   actor : Managers, student : Students, payment : Payments]

\* A refusal because of a change of the account in progress (module Accounts) is
\* one of those Fail stands for.

\* hasInstructorSchoolOwnedByActor for a manager, anyone for an administrator
Manages(actor, s) == actor = Admin \/ Owns(actor, s)

(* -------------------------------------------------------- qualifications -- *)
QualifyBegin(c) ==
  \E r \in pending :
    /\ r.op = "qualify"
    /\ staff[r.instructor].active
    /\ Manages(r.actor, staff[r.instructor].school)
    /\ Receive(c, r, "lock", None)

QualifyLock(c) ==
  At(c, "qualify", "lock") /\ Take(c, Req(c).instructor, "check", None)

\* What the instructor still has to teach in one of the categories.
TeachesIn(i, removed) ==
  \/ \E b \in Bookings :
       /\ bookings[b].instructor = i
       /\ Upcoming(bookings[b])
       /\ bookings[b].course # None
       /\ Live(courses[bookings[b].course])
       /\ courses[bookings[b].course].type \in removed
  \/ \E k \in Courses :
       Live(courses[k]) /\ courses[k].instructor = i /\ courses[k].type \in removed

QualifyCheck(c) ==
  LET r == Req(c)
      row == staff[r.instructor]
  IN /\ At(c, "qualify", "check")
     /\ row.active
     /\ Manages(r.actor, row.school)
     /\ r.types # Keep => ~TeachesIn(r.instructor, row.types \ r.types)
     /\ Look(c, "write", None)

QualifyWrite(c) ==
  LET r == Req(c)
  IN /\ At(c, "qualify", "write")
     /\ staff' = IF r.types = Keep THEN staff
                 ELSE [staff EXCEPT ![r.instructor].types = r.types]
     /\ Finish(c)
     /\ UNCHANGED <<fleet, teaching, pupils>>

(* ---------------------------------------------------- moving instructors -- *)
ActiveSchool(i) == IF WorksAt(i, staff[i].school) THEN staff[i].school ELSE None

\* The link is read outside the transaction; already there, nothing is done.
MoveInstructorBegin(c) ==
  \E r \in pending :
    /\ r.op = "moveInstructor"
    /\ staff[r.instructor].active
    /\ Live(schools[r.school])
    /\ Manages(r.actor, r.school)
    /\ Manages(r.actor, staff[r.instructor].school)
    /\ ActiveSchool(r.instructor) # r.school
    /\ Receive(c, r, "obligations",
               [link |-> staff[r.instructor].school, current |-> ActiveSchool(r.instructor)])

\* Lessons, courses and events that tie an instructor to a school; time blocks
\* are left out.
TiesInstructor(i, s) ==
  \/ \E b \in Bookings :
       /\ bookings[b].instructor = i
       /\ Obliges(bookings[b])
       /\ bookings[b].school = s
       /\ bookings[b].kind = "LESSON" => Live(courses[bookings[b].course])
  \/ \E k \in Courses :
       Live(courses[k]) /\ courses[k].instructor = i /\ courses[k].school = s

\* assertInstructorCanChangeSchool, still outside the transaction
MoveInstructorObligations(c) ==
  /\ At(c, "moveInstructor", "obligations")
  /\ Saw(c).current # None => ~TiesInstructor(Req(c).instructor, Saw(c).current)
  /\ Look(c, "lock", Saw(c))

MoveInstructorLock(c) ==
  At(c, "moveInstructor", "lock") /\ Take(c, Req(c).instructor, "check", Saw(c))

\* instructorSchools[0]?.schoolId is undefined for an instructor without a
\* link, which differs from the null the handler keeps for it.
SchoolChanged(c) ==
  staff[Req(c).instructor].school = None \/ staff[Req(c).instructor].school # Saw(c).current

MoveInstructorCheck(c) ==
  /\ At(c, "moveInstructor", "check")
  /\ Manages(Req(c).actor, staff[Req(c).instructor].school)
  /\ ~SchoolChanged(c)
  /\ Look(c, "write", Saw(c))

\* The old link is replaced; the instructor's defaultOskId follows the link.
MoveInstructorWrite(c) ==
  LET r == Req(c)
  IN /\ At(c, "moveInstructor", "write")
     /\ Free(c, {r.school})
     /\ staff' = [staff EXCEPT ![r.instructor].school = r.school]
     /\ Finish(c)
     /\ UNCHANGED <<fleet, teaching, pupils>>

(* ------------------------------------------------------- moving students -- *)
MoveStudentBegin(c) ==
  \E r \in pending :
    /\ r.op = "moveStudent"
    /\ pupils[r.student].active
    /\ Receive(c, r, "lock", None)

MoveStudentLock(c) ==
  At(c, "moveStudent", "lock") /\ Take(c, Req(c).student, "profile", None)

MoveStudentLockProfile(c) ==
  At(c, "moveStudent", "profile") /\ Take(c, Profile(Req(c).student), "check", None)

\* A manager may only move a student who is in one of his schools.
AnyStudent(c) ==   \* mutant
  /\ At(c, "moveStudent", "check")
  /\ Live(schools[Req(c).school])
  /\ Manages(Req(c).actor, Req(c).school)
  /\ Look(c, "write", None)
MoveStudentCheck(c) ==
  LET r == Req(c)
  IN /\ At(c, "moveStudent", "check")
     /\ Live(schools[r.school])
     /\ Manages(r.actor, r.school)
     /\ Manages(r.actor, pupils[r.student].school)
     /\ Look(c, "write", None)

MoveStudentWrite(c) ==
  LET r == Req(c)
  IN /\ At(c, "moveStudent", "write")
     /\ Free(c, {r.school})
     /\ pupils' = [pupils EXCEPT ![r.student].school = r.school]
     /\ Finish(c)
     /\ UNCHANGED <<fleet, teaching, staff>>

(* --------------------------------------------------------------- archive -- *)
\* findManagerAccountObligations for a student; places on events are left out.
TiesStudent(p, s) ==
  \/ \E b \in Bookings :
       /\ bookings[b].kind = "LESSON" /\ bookings[b].student = p
       /\ Obliges(bookings[b])
       /\ bookings[b].school = s
  \/ \E k \in Courses :
       Live(courses[k]) /\ courses[k].school = s /\ seats[<<k, p>>] = "ACTIVE"
  \/ \E d \in Payments :
       /\ payments[d] # None /\ payments[d].state = "PENDING"
       /\ courses[payments[d].course].school = s
       /\ seats[<<payments[d].course, p>>] # None

SchoolOf(x) == IF x \in Students THEN pupils[x].school ELSE staff[x].school
ActiveAccount(x) == IF x \in Students THEN pupils[x].active ELSE staff[x].active
Tied(x, s) == IF x \in Students THEN TiesStudent(x, s) ELSE TiesInstructor(x, s)

ArchiveBegin(c) ==
  \E r \in pending : r.op = "archive" /\ Receive(c, r, "lock", None)

ArchivesUnlocked(c) == At(c, "archive", "lock") /\ Look(c, "check", None)   \* mutant
ArchiveLock(c) == At(c, "archive", "lock") /\ Take(c, Req(c).person, "check", None)

ArchiveCheck(c) ==
  LET r == Req(c)
  IN /\ At(c, "archive", "check")
     /\ Owns(r.actor, SchoolOf(r.person))
     /\ ActiveAccount(r.person)
     /\ ~Tied(r.person, SchoolOf(r.person))
     /\ Look(c, "write", None)

ArchiveWrite(c) ==
  LET x == Req(c).person
  IN /\ At(c, "archive", "write")
     /\ staff' = [i \in Instructors |->
          IF i = x THEN [staff[i] EXCEPT !.active = FALSE] ELSE staff[i]]
     /\ pupils' = [p \in Students |->
          IF p = x THEN [pupils[p] EXCEPT !.active = FALSE, !.archivedIn = pupils[p].school]
                   ELSE pupils[p]]
     /\ Finish(c)
     /\ UNCHANGED <<fleet, teaching>>

(* -------------------------------------------------------------- payments -- *)
PaymentOps == {"createPayment", "updatePayment", "markPaid", "markUnpaid"}

\* resolveStudentPaymentSchool: the student is not archived, and the school is
\* that of the payment's course, wherever the student has moved since.
MaySettle(m, p, d) ==
  /\ pupils[p].active
  /\ payments[d] # None
  /\ LET k == payments[d].course
     IN Live(courses[k]) /\ seats[<<k, p>>] # None /\ Owns(m, courses[k].school)

PaymentBegin(c) ==
  \E r \in pending : r.op \in PaymentOps /\ Receive(c, r, "lock", None)

PaymentLock(c) ==
  /\ \E op \in PaymentOps : At(c, op, "lock")
  /\ Take(c, Req(c).student, "resolve", None)

PaymentResolve(c) ==
  LET r == Req(c)
  IN /\ \E op \in PaymentOps : At(c, op, "resolve")
     /\ MaySettle(r.actor, r.student, r.payment)
     /\ (payments[r.payment].state = "none") <=> (r.op = "createPayment")
     /\ Look(c, "write", None)

\* A new payment is PENDING; an edit of its date or method leaves the status.
Settled(op, state) ==
  CASE op \in {"createPayment", "markUnpaid"} -> "PENDING"
    [] op = "markPaid" -> "PAID"
    [] op = "updatePayment" -> state

PaymentWrite(c) ==
  LET r == Req(c)
  IN /\ \E op \in PaymentOps : At(c, op, "write")
     /\ payments' = [payments EXCEPT ![r.payment].state = Settled(r.op, @)]
     /\ Finish(c)
     /\ UNCHANGED <<fleet, courses, bookings, seats, people>>

PeopleStep(c) ==
  \/ QualifyBegin(c) \/ QualifyLock(c) \/ QualifyCheck(c) \/ QualifyWrite(c)
  \/ MoveInstructorBegin(c) \/ MoveInstructorObligations(c) \/ MoveInstructorLock(c)
  \/ MoveInstructorCheck(c) \/ MoveInstructorWrite(c)
  \/ MoveStudentBegin(c) \/ MoveStudentLock(c) \/ MoveStudentLockProfile(c)
  \/ MoveStudentCheck(c) \/ MoveStudentWrite(c)
  \/ ArchiveBegin(c) \/ ArchiveLock(c) \/ ArchiveCheck(c) \/ ArchiveWrite(c)
  \/ PaymentBegin(c) \/ PaymentLock(c) \/ PaymentResolve(c) \/ PaymentWrite(c)
=============================================================================
