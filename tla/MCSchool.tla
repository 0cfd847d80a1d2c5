------------------------------ MODULE MCSchool ------------------------------
(***************************************************************************)
(* The instance TLC checks: two managers with a school each, and for every *)
(* question a scene, which is what the tables hold and the requests that   *)
(* will arrive, in any order and on any client.                            *)
(***************************************************************************)
EXTENDS DrivingSchool

CONSTANTS c1, c2, m1, m2, s1, s2, v1, v2, k1, k2, i1, p1, p2, b1, b2, d1

MCSchools == {s1, s2}
MCManagers == {m1, m2}
MCVehicles == {v1, v2}
MCCourses == {k1, k2}
MCInstructors == {i1}
MCStudents == {p1, p2}
MCBookings == {b1, b2}
MCPayments == {d1}

School(m, v, n) == [state |-> "live", owner |-> m, vehicle |-> v,
                    kinds |-> {"PRACTICE", "THEORY"}, since |-> n]
Vehicle(s) == [state |-> "live", school |-> s, types |-> {"B"},
               available |-> TRUE, until |-> None]
Course(s, i) == [state |-> "live", school |-> s, instructor |-> i,
                 kind |-> "PRACTICE", type |-> "B", capacity |-> None]
NoSchool == [state |-> "free", owner |-> None, vehicle |-> None, kinds |-> {}, since |-> 0]
NoVehicle == [state |-> "free", school |-> None, types |-> {}, available |-> TRUE,
              until |-> None]
NoCourse == [state |-> "free", school |-> None, instructor |-> None,
             kind |-> "PRACTICE", type |-> "B", capacity |-> None]
NoBooking == [state |-> "free", kind |-> "LESSON", course |-> None, instructor |-> None,
              student |-> None, vehicle |-> None, school |-> None, at |-> 0]

\* m1 has school s1 with a vehicle, a course and an instructor; p1 is enrolled
\* and has an open payment.
Base(menu) ==
  [schools |-> [s \in Schools |-> IF s = s1 THEN School(m1, v1, 0) ELSE School(m2, None, 1)],
   vehicles |-> [v \in Vehicles |-> IF v = v1 THEN Vehicle(s1) ELSE NoVehicle],
   courses |-> [k \in Courses |-> IF k = k1 THEN Course(s1, None) ELSE NoCourse],
   bookings |-> [b \in Bookings |-> NoBooking],
   staff |-> [i \in Instructors |-> [active |-> TRUE, school |-> s1, types |-> {"B"}]],
   pupils |-> [p \in Students |-> [active |-> TRUE, school |-> s1,
                                    archivedIn |-> None]],
   seats |-> [x \in Courses \X Students |-> IF x = <<k1, p1>> THEN "ACTIVE" ELSE None],
   payments |-> [d \in Payments |-> [course |-> k1, state |-> "PENDING"]],
   defaultOsk |-> [m \in Managers |-> IF m = m1 THEN s1 ELSE s2],
   pending |-> menu]

Of(op, actor) == [op |-> op, actor |-> actor]
OnVehicle(op, v) == [op |-> op, actor |-> m1, vehicle |-> v]
AddVehicle(v) == [op |-> "createVehicle", actor |-> m1, school |-> s1, vehicle |-> v,
                  types |-> {"B"}]
Categories(v, T) == [op |-> "updateVehicle", actor |-> m1, vehicle |-> v, types |-> T]
Status(v, ok, day) == [op |-> "vehicleStatus", actor |-> m1, vehicle |-> v,
                       available |-> ok, until |-> day]
MainVehicle(v) == [op |-> "setDefaultVehicle", actor |-> m1, school |-> s1, vehicle |-> v]
OnSchool(op, s) == [op |-> op, actor |-> m1, school |-> s]
Kinds(K) == [op |-> "updateSchool", actor |-> m1, school |-> s1, kinds |-> K]
AddCourse(k, i) == [op |-> "createCourse", actor |-> m1, course |-> k, school |-> s1,
                    kind |-> "THEORY", type |-> "B", capacity |-> 1, instructor |-> i]
Patch(k, kind, type, cap, i) ==
  [op |-> "patchCourse", actor |-> m1, course |-> k, kind |-> kind, type |-> type,
   plan |-> FALSE, capacity |-> cap, instructor |-> i]
DropCourse(k) == [op |-> "deleteCourse", actor |-> m1, course |-> k]
Enrol(actor, k, p) == [op |-> "enrol", actor |-> actor, course |-> k, student |-> p]
Seat(k, p, st) == [op |-> "setSeat", actor |-> m1, course |-> k, student |-> p, status |-> st]
Book(b, k, v) == [op |-> "bookLesson", actor |-> m1, booking |-> b, course |-> k,
                  student |-> p1, instructor |-> i1, vehicle |-> v, at |-> 1]
BookOwn(b) == [op |-> "bookOwnLesson", actor |-> p1, booking |-> b, course |-> k1,
               student |-> p1, instructor |-> i1, at |-> 2]
Ask(v) == [op |-> "checkLesson", actor |-> m1, booking |-> b1, course |-> k1,
           student |-> p1, instructor |-> i1, vehicle |-> v, at |-> 1]
Event(b, k, v) == [op |-> "createEvent", actor |-> m1, booking |-> b,
                   kind |-> IF v = None THEN "THEORY" ELSE "DRIVE", course |-> k,
                   instructor |-> i1, vehicle |-> v, at |-> 2]
Cancel(b) == [op |-> "cancelBooking", actor |-> m1, booking |-> b]
Qualify(T) == [op |-> "qualify", actor |-> m1, instructor |-> i1, types |-> T]
MoveI(actor, s) == [op |-> "moveInstructor", actor |-> actor, instructor |-> i1, school |-> s]
MoveP(actor, p, s) == [op |-> "moveStudent", actor |-> actor, student |-> p, school |-> s]
Archive(x) == [op |-> "archive", actor |-> m1, person |-> x]
Pay(op, p) == [op |-> op, actor |-> m1, student |-> p, payment |-> d1]

TwoVehicles == [Base({}) EXCEPT !.vehicles[v2] = Vehicle(s1)]
Unplanned == [Base({}) EXCEPT !.payments[d1] = None, !.seats[<<k1, p1>>] = None]
NoVehicles == [Base({}) EXCEPT !.vehicles[v1] = NoVehicle, !.schools[s1].vehicle = None]
OneSchool == [Base({}) EXCEPT !.schools[s2] = NoSchool, !.defaultOsk[m2] = None]
BothMine == [Base({}) EXCEPT !.schools[s2].owner = m1, !.defaultOsk[m2] = None]
UntilYesterday ==
  [TwoVehicles EXCEPT !.vehicles[v1].available = FALSE, !.vehicles[v1].until = 0]
With(scene, menu) == [scene EXCEPT !.pending = menu]

MCOpenings ==
  { \* the first vehicles and the default one
    With(NoVehicles, {AddVehicle(v1), AddVehicle(v2), OnVehicle("deleteVehicle", v1),
                      MainVehicle(v2)}),
    With(TwoVehicles, {MainVehicle(v2), OnVehicle("deleteVehicle", v1),
                       OnVehicle("deleteVehicle", v2), OnSchool("deleteSchool", s1)}),
    \* a vehicle retired or changed while it is booked
    With(TwoVehicles, {Book(b1, k1, v2), OnVehicle("deleteVehicle", v2), Cancel(b1),
                       Categories(v2, {"C"})}),
    With(Unplanned, {Patch(k1, Keep, "C", Keep, Keep), Categories(v1, {"B", "C"}),
                     Qualify({"B", "C"}), Enrol(m1, k1, p1), Book(b1, k1, v1)}),
    With([Base({}) EXCEPT !.vehicles[v1].types = {"B", "C"}],
         {Book(b1, k1, v1), Categories(v1, {"C"}), Patch(k1, Keep, "C", Keep, Keep),
          Qualify({"C"})}),
    \* unavailable vehicles
    With(UntilYesterday, {OnSchool("listVehicles", s1), Status(v1, FALSE, 1), BookOwn(b1),
                          Ask(v1)}),
    With(UntilYesterday, {Event(b1, None, v1), Status(v1, TRUE, None), Categories(v1, Keep)}),
    \* schools
    With(OneSchool, {OnSchool("createSchool", s2), OnSchool("deleteSchool", s1),
                     Of("readDefault", m1), Kinds({"PRACTICE"})}),
    With(BothMine, {OnSchool("deleteSchool", s1), OnSchool("deleteSchool", s2),
                    OnSchool("setDefaultSchool", s2), Kinds(Keep)}),
    \* courses
    With(Unplanned, {AddCourse(k2, i1), DropCourse(k1), DropCourse(k2), Enrol(i1, k2, p2)}),
    With(Unplanned, {DropCourse(k1), Enrol(m1, k1, p1), Book(b1, k1, v1), Event(b2, k1, None)}),
    With([Base({}) EXCEPT !.courses[k1].kind = "THEORY", !.courses[k1].capacity = 1],
         {Patch(k1, "PRACTICE", Keep, Keep, Keep), Patch(k1, Keep, Keep, 2, i1),
          Seat(k1, p1, "FINISHED"), Enrol(m1, k1, p2)}),
    With(Base({}), {Seat(k1, p1, "FINISHED"), Book(b1, k1, v1), Patch(k1, Keep, Keep, Keep, i1)}),
    \* people
    With(Base({}), {MoveI(Admin, s2), MoveI(m1, s2), Qualify({}), Event(b1, k1, None)}),
    With(BothMine, {MoveI(m1, s2), Archive(i1), Book(b1, k1, v1)}),
    With(BothMine, {MoveI(Admin, s2), Patch(k1, Keep, Keep, Keep, i1), OnSchool("deleteSchool", s1)}),
    With(BothMine, {MoveP(Admin, p1, s2), MoveP(m1, p1, s2), Pay("markPaid", p1),
                    Seat(k1, p1, "FINISHED")}),
    With([Base({}) EXCEPT !.payments[d1].state = "PAID", !.seats[<<k1, p1>>] = "FINISHED"],
         {Archive(p1), Pay("markUnpaid", p1), MoveP(Admin, p1, s2)}),
    With([BothMine EXCEPT !.pupils[p1].school = s2],
         {Archive(p1), MoveP(Admin, p1, s1), Pay("markPaid", p1)}),
    With([Base({}) EXCEPT !.payments[d1].state = "PAID",
                          !.seats[<<k1, p1>>] = "FINISHED", !.seats[<<k1, p2>>] = "FINISHED"],
         {Archive(p1), Archive(p2), Pay("markUnpaid", p1)}),
    With(Base({}), {MoveP(Admin, p1, s2), MoveP(m1, p1, s1), Archive(p1), Qualify(Keep)}),
    With([Base({}) EXCEPT !.payments[d1].state = "none"],
         {Pay("createPayment", p1), Pay("updatePayment", p1), Pay("markPaid", p1),
          Pay("markUnpaid", p1)}) }
=============================================================================
