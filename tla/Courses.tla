------------------------------- MODULE Courses -------------------------------
(***************************************************************************)
(* Courses (services/course) and the students enrolled in them (services/  *)
(* students/courseParticipants).                                           *)
(***************************************************************************)
EXTENDS Office

CourseRequests ==
  [op : {"createCourse"}, actor : Managers, course : Courses, school : Schools,
   kind : {"PRACTICE", "THEORY"}, type : Types, capacity : Null(Nat),
   instructor : Null(Instructors)]
  \cup [op : {"patchCourse"}, actor : Managers, course : Courses,
        kind : Opt({"PRACTICE", "THEORY"}), type : Opt(Types), plan : BOOLEAN,
        capacity : Opt(Null(Nat)), instructor : Opt(Null(Instructors))]
  \cup [op : {"deleteCourse"}, actor : Managers, course : Courses]
SeatRequests ==
  [op : {"enrol"}, actor : Managers \cup Instructors, course : Courses, student : Students]
  \cup [op : {"setSeat"}, actor : Managers \cup Instructors, course : Courses,
        student : Students, status : SeatStates]

Given(field, old) == IF field = Keep THEN old ELSE field
Enrolled(k) == {p \in Students : seats[<<k, p>>] # None}
Classes(k) == {b \in Bookings : bookings[b].course = k /\ bookings[b].state # "free"}
Plans(k) == {p \in Payments : payments[p] # None /\ payments[p].course = k}

(* ------------------------------------------------------ creating courses -- *)
CreateCourseBegin(c) ==
  \E r \in pending :
    /\ r.op = "createCourse"
    /\ courses[r.course].state = "free"
    /\ Owns(r.actor, r.school)
    /\ r.kind \in schools[r.school].kinds
    /\ r.instructor # None =>
         /\ staff[r.instructor].school = r.school
         /\ Qualified(r.instructor, r.type)
    /\ Receive(c, r, "write", None)

\* Only a theory group has a capacity.
CreateCourseWrite(c) ==
  LET r == Req(c)
  IN /\ At(c, "createCourse", "write")
     /\ Free(c, {r.school})
     /\ courses[r.course].state = "free"
     /\ courses' = [courses EXCEPT ![r.course] =
          [state |-> "live", school |-> r.school, instructor |-> r.instructor,
           kind |-> r.kind, type |-> r.type,
           capacity |-> IF r.kind = "THEORY" THEN r.capacity ELSE None]]
     /\ Finish(c)
     /\ UNCHANGED <<fleet, bookings, seats, payments, people>>

(* ------------------------------------------------------ patching courses -- *)
PatchCourseBegin(c) ==
  \E r \in pending : r.op = "patchCourse" /\ Receive(c, r, "begin", None)

NextKind(r) == Given(r.kind, courses[r.course].kind)
NextType(r) == Given(r.type, courses[r.course].type)

\* A change of kind, category, hours or theory dates; plan stands for the last
\* two.
Structural(r) ==
  \/ NextKind(r) # courses[r.course].kind
  \/ NextType(r) # courses[r.course].type
  \/ r.plan

\* Patched only while nobody is enrolled and nothing is planned.
ChangesUnused(r) ==
  Structural(r) => Enrolled(r.course) = {} /\ Classes(r.course) = {}

\* A new capacity is for theory groups only and has room for who is active.
CapacityFits(r) ==
  r.capacity \notin {Keep, None} =>
    /\ NextKind(r) = "THEORY"
    /\ r.capacity >= Cardinality({p \in Students : seats[<<r.course, p>>] = "ACTIVE"})

KindOffered(r) ==
  NextKind(r) # courses[r.course].kind =>
    NextKind(r) \in schools[courses[r.course].school].kinds

InstructorFits(r) ==
  LET row == courses[r.course]
      next == Given(r.instructor, row.instructor)
  IN /\ r.instructor \notin {Keep, None} =>
          staff[r.instructor].school = row.school /\ Qualified(r.instructor, NextType(r))
     /\ r.instructor = Keep /\ NextType(r) # row.type /\ next # None =>
          Qualified(next, NextType(r))

WritesLeftOut(r) ==   \* mutant
  [courses[r.course] EXCEPT !.kind = NextKind(r), !.type = NextType(r),
                            !.instructor = Given(r.instructor, @), !.capacity = r.capacity]
PatchedCourse(r) ==
  LET row == courses[r.course]
      leavesTheory == r.kind # Keep /\ NextKind(r) # "THEORY"
  IN [row EXCEPT !.kind = NextKind(r), !.type = NextType(r),
                 !.instructor = Given(r.instructor, @),
                 !.capacity = IF leavesTheory THEN None ELSE Given(r.capacity, @)]

\* Everything is read in the snapshot of one serializable transaction.  The
\* owner is asked for, whether the school still exists is not.
PatchCourseCheck(c) ==
  LET r == Req(c)
      row == courses[r.course]
  IN /\ At(c, "patchCourse", "begin")
     /\ Live(row)
     /\ schools[row.school].owner = r.actor
     /\ ChangesUnused(r)
     /\ CapacityFits(r)
     /\ KindOffered(r)
     /\ InstructorFits(r)
     /\ Look(c, "write", [old |-> row, new |-> PatchedCourse(r), structural |-> Structural(r)])

\* Postgres refuses the update when the row was changed since the snapshot,
\* and when a lesson that read the course was booked meanwhile in a course
\* found empty.  An enrolment is no serializable transaction: it is not seen.
CourseRowOnly(c) == courses[Req(c).course] # Saw(c).old   \* mutant
PatchCourseStale(c) ==
  LET k == Req(c).course
  IN \/ courses[k] # Saw(c).old
     \/ Saw(c).structural /\ \E b \in Classes(k) : bookings[b].kind = "LESSON"

PatchCourseWrite(c) ==
  LET k == Req(c).course
  IN /\ At(c, "patchCourse", "write")
     /\ Free(c, {k})
     /\ ~PatchCourseStale(c)
     /\ courses' = [courses EXCEPT ![k] = Saw(c).new]
     /\ Finish(c)
     /\ UNCHANGED <<fleet, bookings, seats, payments, people>>

PatchCourseRetry(c) ==
  At(c, "patchCourse", "write") /\ PatchCourseStale(c) /\ Look(c, "begin", None)

(* ------------------------------------------------------ deleting courses -- *)
DeleteCourseBegin(c) ==
  \E r \in pending : r.op = "deleteCourse" /\ Receive(c, r, "lock", None)

DeleteCourseLock(c) ==
  At(c, "deleteCourse", "lock") /\ Take(c, Req(c).course, "count", None)

DeleteCourseCount(c) ==
  LET k == Req(c).course
  IN /\ At(c, "deleteCourse", "count")
     /\ Live(courses[k])
     /\ Owns(Req(c).actor, courses[k].school)
     /\ Enrolled(k) = {} /\ Classes(k) = {} /\ Plans(k) = {}
     /\ Look(c, "write", None)

DeleteCourseWrite(c) ==
  /\ At(c, "deleteCourse", "write")
  /\ courses' = [courses EXCEPT ![Req(c).course].state = "gone"]
  /\ Finish(c)
  /\ UNCHANGED <<fleet, bookings, seats, payments, people>>

(* ------------------------------------------------------------ enrolments -- *)
\* assertActorCanManageCourseParticipants
ManagesStudentsOf(actor, s) ==
  \/ actor \in Managers /\ Owns(actor, s)
  \/ actor \in Instructors /\ WorksAt(actor, s)

EnrolBegin(c) ==
  \E r \in pending :
    /\ r.op = "enrol"
    /\ pupils[r.student].active
    /\ Live(courses[r.course])
    /\ pupils[r.student].school = courses[r.course].school
    /\ Live(schools[courses[r.course].school])
    /\ ManagesStudentsOf(r.actor, courses[r.course].school)
    /\ seats[<<r.course, r.student>>] = None
    /\ Receive(c, r, "write", None)

\* The new row references the course and the student's profile, and is unique.
EnrolWrite(c) ==
  LET r == Req(c)
  IN /\ At(c, "enrol", "write")
     /\ GuardCourse(c, r.course)
     /\ Free(c, {Profile(r.student)})
     /\ seats[<<r.course, r.student>>] = None
     /\ seats' = [seats EXCEPT ![<<r.course, r.student>>] = "ACTIVE"]
     /\ Finish(c)
     /\ UNCHANGED <<fleet, courses, bookings, payments, people>>

SetSeatBegin(c) ==
  \E r \in pending :
    /\ r.op = "setSeat"
    /\ Live(courses[r.course])
    /\ ManagesStudentsOf(r.actor, courses[r.course].school)
    /\ seats[<<r.course, r.student>>] # None
    /\ Receive(c, r, "write", None)

SetSeatWrite(c) ==
  LET r == Req(c)
  IN /\ At(c, "setSeat", "write")
     /\ seats' = [seats EXCEPT ![<<r.course, r.student>>] = r.status]
     /\ Finish(c)
     /\ UNCHANGED <<fleet, courses, bookings, payments, people>>

CourseStep(c) ==
  \/ CreateCourseBegin(c) \/ CreateCourseWrite(c)
  \/ PatchCourseBegin(c) \/ PatchCourseCheck(c) \/ PatchCourseWrite(c)
  \/ PatchCourseRetry(c)
  \/ DeleteCourseBegin(c) \/ DeleteCourseLock(c) \/ DeleteCourseCount(c)
  \/ DeleteCourseWrite(c)
  \/ EnrolBegin(c) \/ EnrolWrite(c) \/ SetSeatBegin(c) \/ SetSeatWrite(c)
=============================================================================
