----------------------------- MODULE MCSchedule -----------------------------
(* Small instances of Schedule: a day of a few minutes, each of two ticks.    *)
EXTENDS Options, TLC

CONSTANTS c1, c2, c3, l1, l2, l3, e1, e2, s1, s2, i1, i2, v1, v2, k1

\* From minute a to minute b; and from one tick to another, which may lie within a minute.
W(a, b) == [from |-> Minute * a, to |-> Minute * b]
T(a, b) == [from |-> a, to |-> b]
AllDayHours == [i \in Instructors |-> AllDay]
OneCourse(n) == [k \in Courses |-> n]
AnyInstructor == [k \in Courses |-> Instructors]
Symmetric == Permutations(Clients)

Book(l, s, i, v, w) ==
  [op |-> "bookLesson", lesson |-> l, course |-> k1, student |-> s,
   instructor |-> i, vehicle |-> v, win |-> w]
BookOwn(l, s, i, rest, w) ==
  [op |-> "bookOwnLesson", lesson |-> l, course |-> k1, student |-> s,
   instructor |-> i, remaining |-> rest, win |-> w]
Update(l, i, v, w, exp) ==
  [op |-> "updateLesson", lesson |-> l, instructor |-> i, vehicle |-> v,
   win |-> w, expected |-> exp]
Cancel(l) == [op |-> "cancelLesson", lesson |-> l]

(* Lessons only. *)
LessonPackage == OneCourse(3)
LessonMix ==
  {Book(l1, s1, i1, v1, W(1, 3)), Book(l2, s2, i2, v1, W(2, 4)),
   BookOwn(l2, s1, i2, FALSE, W(2, 4)), BookOwn(l3, s1, i2, TRUE, W(4, 5)),
   Update(l1, Keep, Keep, W(2, 4), FALSE), Update(l1, i2, Keep, Keep, TRUE),
   Update(l1, Keep, Keep, T(3, 8), FALSE), Update(l2, Keep, v2, Keep, FALSE),
   Cancel(l1)}

Create(e, type, i, v, w, cap) ==
  [op |-> "createEvent", event |-> e, type |-> type, instructor |-> i,
   vehicle |-> v, win |-> w, capacity |-> cap]
Patch(e) ==
  [op |-> "updateEvent", event |-> e, type |-> Keep, status |-> Keep,
   instructor |-> Keep, vehicle |-> Keep, win |-> Keep, capacity |-> Keep]
Bulk(E, status) == [op |-> "bulkStatus", events |-> E, status |-> status]
Delete(e) == [op |-> "deleteEvent", event |-> e]
Assign(e, S) == [op |-> "assignStudents", event |-> e, students |-> S]
Replace(e, S) == [op |-> "replaceStudents", event |-> e, students |-> S]
Remove(e, s) == [op |-> "removeStudent", event |-> e, student |-> s]

(* Events, seats and the lessons they compete with. *)
EventMix ==
  {Create(e1, "THEORY", i1, None, W(1, 3), 1), Create(e2, "DRIVE", i2, v1, T(5, 9), None),
   Assign(e1, {s1}), Replace(e1, {s2}), Remove(e1, s1),
   [Patch(e2) EXCEPT !.win = W(1, 3)], Bulk({e1, e2}, "CANCELLED"), Delete(e1),
   Book(l1, s1, i2, v1, W(2, 4))}

(* Handlers that contend, for the liveness of retries. *)
ContendingMix ==
  {Book(l1, s1, i1, v1, W(1, 3)), BookOwn(l2, s1, i2, FALSE, W(2, 4)),
   Create(e1, "THEORY", i1, None, W(2, 4), 1), Assign(e1, {s1})}

(* The capacity of an event changes while a student is being assigned. *)
CapacityMix ==
  {Create(e1, "THEORY", i1, None, W(1, 3), 1), Assign(e1, {s1}),
   [Patch(e1) EXCEPT !.capacity = 0]}

(* An event moves while a student is being assigned. *)
MovedEventMix ==
  {Create(e1, "THEORY", i1, None, W(1, 3), None), Assign(e1, {s1}),
   [Patch(e1) EXCEPT !.win = W(3, 5)], Book(l1, s1, i2, v1, W(3, 5))}

(* What the forms and the slots show next to lessons, an event and its participants, *)
(* some of which begin or end within a minute.                                      *)
EarlyAndLate == [i \in Instructors |-> IF i = i1 THEN W(1, 6) ELSE W(0, 5)]
PickerPackage == OneCourse(5)
PickerMix ==
  {Book(l1, s1, i1, v1, W(1, 3)), Book(l2, s1, i1, v2, T(6, 11)), Book(l2, s2, i2, v2, T(7, 11)),
   Update(l1, i2, v2, W(2, 4), TRUE), Cancel(l1),
   Create(e1, "THEORY", i2, None, T(2, 5), 1), Create(e2, "DRIVE", i2, v1, T(7, 11), None),
   Assign(e1, {s2}), Delete(e1)}

(* An event is moved and made a drive while a student takes a seat. *)
EditedMix ==
  {Create(e1, "THEORY", i1, None, W(1, 3), None), Assign(e1, {s1}),
   [Patch(e1) EXCEPT !.type = "DRIVE", !.vehicle = v1, !.win = W(3, 5)],
   Book(l1, s1, i2, v2, W(3, 5))}

(* One run answers several questions: each behaviour draws its requests from*)
(* one of the mixes.                                                        *)
CONSTANT Mixes
WriteMixes == {LessonMix, EventMix}
FormMixes == {PickerMix, ContendingMix, EditedMix}
CapacityMixes == {CapacityMix}
MovedEventMixes == {MovedEventMix}
MixedRequests == UNION Mixes

VARIABLE mix

MixedInit == Init /\ mix \in Mixes
MixedNext == Next /\ UNCHANGED mix /\ \A c \in Clients : req'[c] \in mix \cup {None}
MixedSpec == MixedInit /\ [][MixedNext]_<<vars, mix>>
FairMixedSpec == MixedSpec /\ \A c \in Clients : WF_vars(Step(c))
=============================================================================
