------------------------------- MODULE Options -------------------------------
(***************************************************************************)
(* The read side of the schedule: the free windows of an instructor, the   *)
(* options a manager's form offers, the slots a student is shown and the   *)
(* preflight of one window (services/instructor-availability,              *)
(* services/schedule-validation, services/school-availability).  Nothing   *)
(* here changes state: each answer is computed from the tables and the     *)
(* clock of Schedule by code of its own, and the properties compare it     *)
(* with what the write path of Schedule would do in the same state.        *)
(*                                                                         *)
(* All of it is for one day.  Free windows, forms and slots are in whole   *)
(* minutes; the rows they are computed from need not be.                   *)
(***************************************************************************)
EXTENDS Schedule

CONSTANTS
  StartStep,   \* startStepMinutes: a full hour when slotMustStartFullHour
  EndStep,     \* AVAILABILITY_OPTION_STEP_MINUTES
  SlotLength   \* slotDurationMinutes of the school

ASSUME StepAssumption ==
  {StartStep, EndStep, SlotLength} \subseteq {n \in Nat \ {0} : Whole(n)}
\* What stands for an omitted field is not a value of one.
ASSUME KeepAssumption == Keep \notin Instructors \cup Vehicles \cup Windows

Smaller(a, b) == IF a < b THEN a ELSE b
Larger(a, b) == IF a > b THEN a ELSE b
Between(a, b) == [from |-> a, to |-> b]

-----------------------------------------------------------------------------
(* Free windows. *)

\* subtractWindows: the loop over the used windows in order of their start.  cursor
\* is where the next free window may begin.
Earliest(U) == CHOOSE u \in U : \A v \in U : u.from <= v.from

TailLost(base, used) ==  \* mutant: what is free after the last used window is forgotten
  LET rest[U \in SUBSET used] == [cursor \in base.from..base.to |->
        IF U = {} \/ Earliest(U).from >= base.to
        THEN IF used = {} THEN {base} ELSE {}
        ELSE LET u == Earliest(U)
                 start == Larger(u.from, base.from)
             IN (IF start > cursor THEN {Between(cursor, start)} ELSE {})
                  \cup rest[U \ {u}][Larger(cursor, Smaller(u.to, base.to))]]
  IN rest[used][base.from]
Subtract(base, used) ==
  LET rest[U \in SUBSET used] == [cursor \in base.from..base.to |->
        IF U = {} \/ Earliest(U).from >= base.to
        THEN IF cursor < base.to THEN {Between(cursor, base.to)} ELSE {}
        ELSE LET u == Earliest(U)
                 start == Larger(u.from, base.from)
             IN (IF start > cursor THEN {Between(cursor, start)} ELSE {})
                  \cup rest[U \ {u}][Larger(cursor, Smaller(u.to, base.to))]]
  IN rest[used][base.from]

\* The windows in which the lessons and events other than self hold one of R.
UsedLessons(R, self) ==
  {lessons[l].win : l \in {l \in Lessons \ {self} : LessonHolds(lessons[l]) \cap R # {}}}
UsedEvents(R, self) ==
  {events[e].win : e \in {e \in Events \ {self} :
     (EventHolds(events[e]) \cup SeatHolds(e, events[e])) \cap R # {}}}
NotExcluded(R, self) ==  \* mutant: the row being edited is in its own way
  UsedLessons(R, None) \cup UsedEvents(R, None)
Used(R, self) == UsedLessons(R, self) \cup UsedEvents(R, self)
\* timeWindowFromDates: a row shorter than a minute may leave an empty window.
RoundedUp(R, self) ==  \* mutant: a row that starts within a minute begins after it
  {Between(MinuteOf(u.from + Minute - 1), MinuteOf(u.to)) : u \in Used(R, self)}
UsedMinutes(R, self) == {TimeWindow(u) : u \in Used(R, self)}

\* computeDayWindows
DayWindows(i, self) == Subtract(Hours[i], UsedMinutes({i}, self))

\* subtractStudentScheduleConflicts, and the windows of one vehicle.
Narrow(W, R, self) == UNION {Subtract(w, UsedMinutes(R, self)) : w \in W}

\* Of today's windows only what is left of them, to the minute.
FromNow(W) ==
  {w \in {Between(Larger(v.from, MinuteOf(now)), v.to) : v \in W} : w.from < w.to}

-----------------------------------------------------------------------------
(* The manager's form: for each start a list of ends. *)

\* buildScheduleAvailabilityOptions
AnyStart(W, min, max) ==  \* mutant: the last end may lie past the window
  {o \in Windows :
     /\ o.from % StartStep = 0 /\ (Length(o) - min) % EndStep = 0
     /\ Length(o) \in min..max
     /\ \E w \in W : w.from <= o.from /\ o.from + min <= w.to}
Offered(W, min, max) ==
  {o \in Windows :
     /\ o.from % StartStep = 0 /\ (Length(o) - min) % EndStep = 0
     /\ Length(o) \in min..max
     /\ \E w \in W : Within(o, w)}

MinLength(type) == IF type = "THEORY" THEN TheoryMin ELSE PracticeMin
MaxLength(type) == IF type = "THEORY" THEN TheoryMax ELSE PracticeMax

\* The longest lesson the package still has room for; l itself is not counted.
CountsItself(l, row) ==  \* mutant: the edited lesson uses up its own package
  IF TotalMinutes[row.course] = None THEN PracticeMax
  ELSE Smaller(PracticeMax, Minute * Larger(0, Remaining(row.course, row.student, None)))
LongestLesson(l, row) ==
  IF TotalMinutes[row.course] = None THEN PracticeMax
  ELSE Smaller(PracticeMax, Minute * Larger(0, Remaining(row.course, row.student, l)))

\* getLessonEditAvailabilityOptions, for the instructor and the vehicle of the form.
LessonOptions(l, i, v) ==
  LET row == lessons[l]
      free == FromNow(Narrow(DayWindows(i, l), {row.student}, l))
  IN IF Editable(row) /\ NotStarted(row)
     THEN Offered(Narrow(free, {v}, l), PracticeMin, LongestLesson(l, row))
     ELSE {}

\* getEventCreateAvailabilityOptions
NewEventOptions(type, i, v) ==
  LET free == DayWindows(i, None) IN
  Offered(IF type = "DRIVE" THEN Narrow(free, {v}, None) ELSE free,
          MinLength(type), MaxLength(type))

NoParticipants(e, i, v) ==  \* mutant: the participants of a theory event are not asked
  LET row == events[e]
      free == DayWindows(i, e)
  IN IF Exists(row) /\ row.active
     THEN Offered(IF Drive(row) THEN Narrow(free, {v}, e) ELSE free,
                  MinLength(row.type), MaxLength(row.type))
     ELSE {}
\* getEventEditAvailabilityOptions: the participants count in theory only.
EventOptions(e, i, v) ==
  LET row == events[e]
      free == DayWindows(i, e)
  IN IF Exists(row) /\ row.active
     THEN Offered(IF Drive(row) THEN Narrow(free, {v}, e) ELSE Narrow(free, Participants(e), e),
                  MinLength(row.type), MaxLength(row.type))
     ELSE {}

-----------------------------------------------------------------------------
(* The student's list of slots. *)

\* splitWindowIntoSlots
Slots(w) ==
  {s \in Windows : Within(s, w) /\ Length(s) = SlotLength
                    /\ (s.from - w.from) % SlotLength = 0}

\* Only the student's lessons hide a slot (loadStudentBusyIntervals), not the seats: each
\* from its minute on, for its exact length.  One vehicle must be free for the whole of
\* the slot, to the instant (loadCourseVehicleSlotFilter).
BusyInterval(w) == Between(MinuteOf(w.from), MinuteOf(w.from) + Length(w))
InOwnLesson(s, w) ==
  \E l \in Lessons : LiveLesson(lessons[l]) /\ lessons[l].student = s
                      /\ Overlaps(BusyInterval(lessons[l].win), w)
AnyVehicle(w) ==  \* mutant: a vehicle for each half of the slot will do
  \A t \in w.from..(w.to - 1) : \E v \in Vehicles : ~ Busy(v, Between(t, t + 1), None)
VehicleFits(w) == \E v \in Vehicles : ~ Busy(v, w, None)

\* listSchoolAvailabilitySlots, for one course, one instructor and a student.
SchoolSlots(i, s) ==
  {w \in UNION {Slots(f) : f \in DayWindows(i, None)} : ~ InOwnLesson(s, w) /\ VehicleFits(w)}
-----------------------------------------------------------------------------
(* Preflight: the answer to one filled-in form.  The checks of a new lesson or event *)
(* are the very functions the write path calls; those of an edit are written again.  *)

\* The forms hold HH:mm.  The requests the two edit forms send when they are saved; the
\* form of a theory event has no vehicle.
FormWindows == {w \in Windows : Whole(w.from) /\ Whole(w.to)}
SaveLesson(l, i, v, w) ==
  [op |-> "updateLesson", lesson |-> l, instructor |-> i, vehicle |-> v, win |-> w,
   expected |-> TRUE]
SaveEvent(e, i, v, w) ==
  [op |-> "updateEvent", event |-> e, type |-> Keep, status |-> Keep, instructor |-> i,
   vehicle |-> IF Drive(events[e]) THEN v ELSE Keep, win |-> w, capacity |-> Keep]

\* checkLessonEditAvailability
OnlyMoves(q) ==  \* mutant: another vehicle alone is not looked up
  LET old == lessons[q.lesson]
      new == MergedLesson(q, old)
  IN /\ Editable(old) /\ NotStarted(old)
     /\ new.win # old.win => PracticeLength(new.win) /\ new.win.from >= now
     /\ Moved(old, new) => LessonWindowAvailable(new, q.lesson)
                             /\ ~ Busy(new.vehicle, new.win, q.lesson)
LessonEditAvailable(q) ==
  LET old == lessons[q.lesson]
      new == MergedLesson(q, old)
  IN /\ Editable(old) /\ NotStarted(old)
     /\ new.win # old.win => PracticeLength(new.win) /\ new.win.from >= now
     /\ Moved(old, new) => LessonWindowAvailable(new, q.lesson)
     /\ new # old => ~ Busy(new.vehicle, new.win, q.lesson)

\* checkEventEditAvailability
EventEditAvailable(q) ==
  LET old == events[q.event]
      new == MergedEvent(q, old)
  IN /\ Exists(old) /\ old.active
     /\ new.win # old.win => EventLength(old.type, new.win)
     /\ Moved(old, new) => /\ EventWindowAvailable(new, q.event)
                            /\ AllFree(Participants(q.event), new.win, q.event)
     /\ Drive(old) /\ new # old => ~ Busy(new.vehicle, new.win, q.event)

-----------------------------------------------------------------------------
(* Properties.  An answer depends on the tables and the clock only, and any handler *)
(* may fail at any time, so the states in which none runs show every answer.        *)

Quiet == \A c \in Clients : phase[c] = "idle"

LessonSaved(q) ==
  LET old == lessons[q.lesson]
      new == MergedLesson(q, old)
  IN Editable(old) /\ (new = old \/ UpdateLessonAllowed(q, old, old, new))
EventSaved(q) ==
  LET old == events[q.event] IN
  Exists(old) /\ old.active /\ UpdateEventAllowed(q, old, MergedEvent(q, old))

\* The windows computeDayWindows leaves are, to the minute, the times at which the
\* overlap queries of the write path find the instructor free, whatever is on the
\* schedule and whichever row is being edited.  The two part only at the edges of the
\* window asked about: a row that ends within the minute it starts in, or starts within
\* the minute it ends in, is in its way for the queries and not for the free windows
\* (windows.ts and time.ts; scheduleConflicts.ts and writeConflicts.ts).
InnerPart(w) == Between(MinuteOf(w.from) + Minute - 1, MinuteOf(w.to))
FreeToTheMinute ==
  Quiet =>
    \A i \in Instructors, self \in Lessons \cup Events \cup {None}, w \in Windows :
      Length(w) >= Minute =>
        ((\E f \in DayWindows(i, self) : Within(TimeWindow(w), f))
           <=> InHours(i, w) /\ ~ Busy(i, InnerPart(w), self))

\* A row holding one of R ends seconds after w starts, within the same minute: the one
\* thing no offer sees and saving refuses.
RunsOver(R, w, self) ==
  \E u \in Used(R, self) : w.from < u.to /\ u.to < w.from + Minute

\* Every window the lesson form offers can be saved as long as nothing changes, except
\* one that starts this very minute (options.ts keeps it, editability.ts refuses it) or
\* one that another row runs over into.
OfferedLessonsCanBeSaved ==
  Quiet =>
    \A l \in Lessons, i \in Instructors, v \in Vehicles :
      \A w \in LessonOptions(l, i, v) :
        w.from > now /\ ~ RunsOver({lessons[l].student, i, v}, w, l)
          => LessonSaved(SaveLesson(l, i, v, w))

OnGrid(w, min) == w.from % StartStep = 0 /\ (Length(w) - min) % EndStep = 0

\* A lesson that has not started finds its own window in the form, whoever booked what
\* around it: "pozostawienie obecnych wartości jest poprawnym no-opem"
\* (docs/SCHEDULE_AVAILABILITY.md).  Only an event that was edited can lie across it,
\* because a seat is taken for the window read before the transaction.
Untangled(l) ==
  \A e \in touched : Holds(e) \cap Holds(l) # {} => ~ Overlaps(events[e].win, lessons[l].win)
OwnWindowIsOffered ==
  Quiet =>
    \A l \in Lessons :
      LET row == lessons[l] IN
      /\ Exists(row) /\ NotStarted(row) /\ Untangled(l)
      /\ OnGrid(row.win, PracticeMin) /\ PracticeLength(row.win)
      => row.win \in LessonOptions(l, row.instructor, row.vehicle)

\* And the form hides nothing: a move to another window of its grid that would be saved
\* is offered, and so is staying, the package and the schedules being counted without
\* the lesson itself.
SavableLessonsAreOffered ==
  /\ OwnWindowIsOffered
  /\ Quiet =>
       \A l \in Lessons, i \in Instructors, v \in Vehicles, w \in Windows :
         /\ OnGrid(w, PracticeMin) /\ LessonSaved(SaveLesson(l, i, v, w))
         /\ w # lessons[l].win
         => w \in LessonOptions(l, i, v)

\* Every window the event form offers and no other row runs over into can be saved, for
\* a new event and for one that is edited, its participants included, unless it is
\* overfull already (saving counts the participants, the form does not) or a drive that
\* was a theory event and still has participants: saving asks for their time, the form
\* of a drive does not.
Asked(type, i, v, S) == {i} \cup (IF type = "DRIVE" THEN {v} ELSE S)
OfferedEventsCanBeSaved ==
  Quiet =>
    \A i \in Instructors, v \in Vehicles :
      /\ \A type \in Types : \A w \in NewEventOptions(type, i, v) :
           ~ RunsOver(Asked(type, i, v, {}), w, None)
             => CreateAllowed(NewEvent([type |-> type, instructor |-> i, vehicle |-> v,
                                        win |-> w, capacity |-> None]))
      /\ \A e \in Events : \A w \in EventOptions(e, i, v) :
           /\ FitsCapacity(e) /\ (Drive(events[e]) => Participants(e) = {})
           /\ ~ RunsOver(Asked(events[e].type, i, v, Participants(e)), w, e)
           => EventSaved(SaveEvent(e, i, v, w))

\* Preflight of an edit says yes exactly when saving would be accepted; only a lesson
\* that is under way can still change its vehicle although preflight refuses.
PreflightAgreesWithSave ==
  Quiet =>
    \A i \in Instructors, v \in Vehicles, w \in FormWindows :
      /\ \A l \in Lessons :
           LET q == SaveLesson(l, i, v, w) IN
           Exists(lessons[l]) /\ NotStarted(lessons[l]) /\ w.from # now
             => (LessonEditAvailable(q) <=> LessonSaved(q))
      /\ \A e \in Events :
           LET q == SaveEvent(e, i, v, w) IN
           Exists(events[e]) /\ FitsCapacity(e) => (EventEditAvailable(q) <=> EventSaved(q))

\* A slot a student is shown can be booked at once, with some one vehicle for all of
\* it, if its length and the package allow, no seat of the student's is in the way and
\* no row of the student or the instructor runs over into it.
SlotsCanBeBooked ==
  Quiet =>
    \A i \in Instructors, s \in Students, k \in Courses :
      \A w \in SchoolSlots(i, s) :
        /\ PackageAllows(k, s, w, None) /\ ~ RunsOver({s, i}, w, None)
        /\ \A e \in Events : s \in SeatHolds(e, events[e]) => ~ Overlaps(events[e].win, w)
        => \E v \in Vehicles :
             /\ ~ Busy(v, w, None)
             /\ LessonWindowAvailable(NewLesson([course |-> k, student |-> s,
                                                  instructor |-> i, win |-> w], v), None)

\* What is offered, to staff who move a lesson or an event and to a student who books,
\* can be saved: no offer rests on a condition the write path adds, but for the seconds
\* of the rows around it.
OffersCanBeSaved == OfferedLessonsCanBeSaved /\ OfferedEventsCanBeSaved /\ SlotsCanBeBooked
=============================================================================
