--------------------------- MODULE ScheduleProofs ---------------------------
(***************************************************************************)
(* Proofs about Schedule, for every number of handlers, rows and requests. *)
(***************************************************************************)
EXTENDS Schedule, TLAPS, FiniteSetTheorems

USE DEF Open, InTx, Received, To, Tables, handler

(***************************************************************************)
(* Types.  Every action ends in one of a few handler steps, so type        *)
(* preservation is proved once for each of those.                          *)
(***************************************************************************)
LEMMA IdleType == TxType(Idle)
BY DEF TxType, Idle, NoRows

LEMMA InitType == Init => TypeInv
<1> SUFFICES ASSUME Init PROVE TypeInv
  OBVIOUS
<1>1. TypeOK
  BY IdleType, HorizonAssumption, BoundAssumption DEF Init, TypeOK, Ticks
<1>2. QED
  BY <1>1 DEF Init, TypeInv

LEMMA AnswerType ==
  ASSUME TypeInv, NEW c \in Clients, Answer(c)
  PROVE  /\ req' \in [Clients -> Requests \cup {None}]
         /\ phase' \in [Clients -> {"idle", "received", "ready", "open"}]
         /\ attempt' \in [Clients -> 0..MaxAttempts]
         /\ \A d \in Clients : TxType(tx'[d])
         /\ prep' = [d \in Clients |-> prep'[d]]
         /\ tx' = [d \in Clients |-> tx'[d]]
         /\ \A d \in Clients \ {c} : /\ req'[d] = req[d] /\ phase'[d] = phase[d]
                                     /\ prep'[d] = prep[d]
         /\ phase'[c] = "idle"
<1>1. \A d \in Clients : tx'[d] = IF d = c THEN Idle ELSE tx[d]
  BY DEF TypeInv, Answer
<1>2. \A d \in Clients : TxType(tx'[d])
  BY <1>1, IdleType DEF TypeInv, TypeOK
<1>3. /\ req' \in [Clients -> Requests \cup {None}]
      /\ phase' \in [Clients -> {"idle", "received", "ready", "open"}]
      /\ phase'[c] = "idle"
  BY DEF TypeInv, TypeOK, Answer
<1>4. attempt' \in [Clients -> 0..MaxAttempts]
  <2>1. 0 \in 0..MaxAttempts
    BY BoundAssumption
  <2>2. QED
    BY <2>1 DEF TypeInv, TypeOK, Answer
<1>5. /\ prep' = [d \in Clients |-> prep'[d]]
      /\ tx' = [d \in Clients |-> tx'[d]]
  BY DEF TypeInv, Answer
<1>6. \A d \in Clients \ {c} : /\ req'[d] = req[d] /\ phase'[d] = phase[d]
                               /\ prep'[d] = prep[d]
  BY DEF TypeInv, TypeOK, Answer
<1>7. QED
  BY <1>2, <1>3, <1>4, <1>5, <1>6

LEMMA RejectedType ==
  ASSUME TypeInv, NEW c \in Clients, Rejected(c)
  PROVE  TypeInv'
<1>1. Answer(c) /\ UNCHANGED <<Tables, now, since, issued>>
  BY DEF Rejected
<1>2. TypeOK'
  BY <1>1, AnswerType DEF TypeInv, TypeOK, TxType
<1>3. QED
  BY <1>1, <1>2, AnswerType DEF TypeInv, PrepType

LEMMA ReadyType ==
  ASSUME TypeInv, NEW c \in Clients, NEW x, phase[c] = "received",
         PrepType(req[c], x), Ready(c, x)
  PROVE  TypeInv'
<1>1. 1 \in 0..MaxAttempts
  BY BoundAssumption
<1>2. TypeOK'
  BY <1>1 DEF TypeInv, TypeOK, Ready, TxType
<1>3. QED
  BY <1>2 DEF TypeInv, TypeOK, Ready, PrepType

LEMMA BeginType ==
  ASSUME TypeInv, NEW c \in Clients, NEW t, phase[c] = "ready", TxType(t), Begin(c, t)
  PROVE  TypeInv'
<1>1. \A d \in Clients : tx'[d] = IF d = c THEN t ELSE tx[d]
  BY DEF TypeInv, Begin
<1>2. TypeOK'
  BY <1>1 DEF TypeInv, TypeOK, Begin, TxType
<1>3. QED
  BY <1>2 DEF TypeInv, TypeOK, Begin, PrepType

\* The op of a request tells its shape.
LEMMA RequestShape ==
  ASSUME NEW q \in Requests
  PROVE  /\ q.op = "bookLesson" => q \in BookRequests
         /\ q.op = "bookOwnLesson" => q \in BookOwnRequests
         /\ q.op = "updateLesson" => q \in UpdateLessonRequests
         /\ q.op = "cancelLesson" => q \in CancelRequests
         /\ q.op = "createEvent" => q \in CreateRequests
         /\ q.op = "updateEvent" => q \in UpdateEventRequests
         /\ q.op = "bulkStatus" => q \in BulkRequests
         /\ q.op = "deleteEvent" => q \in DeleteRequests
         /\ q.op \in {"assignStudents", "replaceStudents"} => q \in SeatRequests
         /\ q.op = "removeStudent" => q \in RemoveRequests
BY RequestAssumption
   DEF AllRequests, BookRequests, BookOwnRequests, UpdateLessonRequests, CancelRequests,
       CreateRequests, UpdateEventRequests, BulkRequests, DeleteRequests, SeatRequests,
       RemoveRequests

LEMMA LessonTxType ==
  ASSUME NEW l \in Lessons, NEW row \in LessonRow, NEW reads
  PROVE  TxType(LessonTx(l, row, reads))
BY DEF TxType, LessonTx, Idle, NoRows

LEMMA EventTxType ==
  ASSUME NEW puts, NEW reads,
         \A e \in DOMAIN puts : e \in Events /\ puts[e] \in EventRow
  PROVE  TxType(EventTx(puts, reads))
BY DEF TxType, EventTx, Idle, NoRows

LEMMA SeatTxType ==
  ASSUME NEW e \in Events, NEW add \in SUBSET Students, NEW del \in SUBSET Students, NEW w
  PROVE  TxType(SeatTx(e, add, del, w))
BY DEF TxType, SeatTx, Idle, NoRows, Seats

LEMMA NewLessonType ==
  ASSUME NEW q \in BookRequests \cup BookOwnRequests, NEW v \in Vehicles
  PROVE  NewLesson(q, v) \in LessonRow
BY DEF NewLesson, LessonRow, BookRequests, BookOwnRequests

LEMMA MergedLessonType ==
  ASSUME NEW q \in UpdateLessonRequests, NEW old \in LessonRow
  PROVE  /\ MergedLesson(q, old) \in LessonRow
         /\ MergedLesson(q, old).student = old.student
         /\ MergedLesson(q, old).status = old.status
BY DEF MergedLesson, Given, Opt, LessonRow, UpdateLessonRequests

LEMMA MergedEventType ==
  ASSUME NEW q \in UpdateEventRequests, NEW cur \in EventRow
  PROVE  MergedEvent(q, cur) \in EventRow
<1> DEFINE type == Given(q.type, cur.type)
<1>1. /\ type \in Types
      /\ Given(q.status, cur.status) \in Statuses
      /\ Given(q.instructor, cur.instructor) \in Instructors
      /\ Given(q.win, cur.win) \in Windows
      /\ Given(q.capacity, cur.capacity) \in Null(Nat)
      /\ Given(q.vehicle, cur.vehicle) \in Null(Vehicles)
  BY DEF Given, Opt, EventRow, UpdateEventRequests
<1>2. EventVehicle(type, Given(q.vehicle, cur.vehicle)) \in Null(Vehicles)
  BY <1>1 DEF EventVehicle, Null
<1>3. QED
  BY <1>1, <1>2 DEF MergedEvent, EventRow

LEMMA SubmitType ==
  ASSUME TypeInv, NEW c \in Clients, NEW q \in Requests, Submit(c, q)
  PROVE  TypeInv'
<1>1. 1 \in 0..MaxAttempts /\ issued' \in 0..MaxRequests
  <2>1. issued \in 0..MaxRequests /\ issued < MaxRequests /\ issued' = issued + 1
    BY DEF Submit, TypeInv, TypeOK
  <2>2. QED
    BY <2>1, BoundAssumption
<1>2. TypeOK'
  BY <1>1 DEF TypeInv, TypeOK, Submit, TxType
<1>3. (phase[c] = "ready" => PrepType(q, prep[c]))'
  BY DEF Submit, PrepType, ReadsFirst, TypeInv, TypeOK
<1>4. \A d \in Clients \ {c} :
        phase'[d] = phase[d] /\ req'[d] = req[d] /\ prep'[d] = prep[d]
  BY DEF TypeInv, TypeOK, Submit
<1>5. \A d \in Clients : /\ phase'[d] # "idle" => req'[d] \in Requests
                         /\ phase'[d] \in {"ready", "open"} => PrepType(req[d], prep[d])'
  <2>1. req'[c] = q /\ phase'[c] # "open"
    BY DEF TypeInv, TypeOK, Submit
  <2>2. \A d \in Clients \ {c} : phase[d] \in {"ready", "open"} => PrepType(req[d], prep[d])'
    BY <1>4 DEF TypeInv, Submit, PrepType
  <2>3. QED
    BY <1>2, <1>3, <1>4, <2>1, <2>2 DEF TypeInv, TypeOK, PrepType
<1>6. /\ prep' = [d \in Clients |-> prep'[d]]
      /\ tx' = [d \in Clients |-> tx'[d]]
      /\ since' = [d \in Clients |-> since'[d]]
  BY DEF TypeInv, Submit
<1>7. QED
  BY <1>2, <1>5, <1>6 DEF TypeInv

LEMMA LessonStepType ==
  ASSUME TypeInv, NEW c \in Clients, LessonStep(c)
  PROVE  TypeInv'
<1> USE DEF TypeInv, TypeOK
<1>0. phase[c] # "idle" => req[c] \in Requests
  OBVIOUS
<1>1. CASE ReadBooking(c)
  <2>1. CASE Ready(c, None)
    BY <1>1, <2>1, ReadyType DEF ReadBooking, PrepType
  <2>2. CASE Rejected(c)
    BY <2>2, RejectedType
  <2>3. QED
    BY <1>1, <2>1, <2>2 DEF ReadBooking
<1>2. CASE BookLesson(c)
  <2> DEFINE q == req[c]
             row == NewLesson(q, q.vehicle)
  <2>1. q \in BookRequests
    BY <1>0, <1>2, RequestShape DEF BookLesson
  <2>2. row \in LessonRow /\ q.lesson \in Lessons
    BY <2>1, NewLessonType DEF BookRequests
  <2>3. CASE Begin(c, LessonTx(q.lesson, row, LessonReads(row) \cup VehicleReads(row)))
    BY <1>2, <2>2, <2>3, LessonTxType, BeginType DEF BookLesson
  <2>4. QED
    BY <1>2, <2>3, RejectedType DEF BookLesson
<1>3. CASE BookOwnLesson(c)
  <2> DEFINE q == req[c]
  <2>1. q \in BookOwnRequests
    BY <1>0, <1>3, RequestShape DEF BookOwnLesson
  <2>2. ASSUME NEW v \in Vehicles,
               Begin(c, LessonTx(q.lesson, NewLesson(q, v),
                          LessonReads(NewLesson(q, v)) \cup VehicleReads(NewLesson(q, v))))
        PROVE  TypeInv'
    <3>1. NewLesson(q, v) \in LessonRow /\ q.lesson \in Lessons
      BY <2>1, NewLessonType DEF BookOwnRequests
    <3>2. QED
      BY <1>3, <2>2, <3>1, LessonTxType, BeginType DEF BookOwnLesson
  <2>3. QED
    BY <1>3, <2>2, RejectedType DEF BookOwnLesson
<1>4. CASE UpdateLesson(c)
  <2> DEFINE q == req[c]
             new == MergedLesson(q, lessons[q.lesson])
  <2>1. q \in UpdateLessonRequests /\ q.lesson \in Lessons
    BY <1>0, <1>4, RequestShape DEF UpdateLesson, UpdateLessonRequests
  <2>2. ASSUME NEW reads, Editable(lessons[q.lesson]), Begin(c, LessonTx(q.lesson, new, reads))
        PROVE  TypeInv'
    <3>1. lessons[q.lesson] \in LessonRow
      BY <2>1, <2>2 DEF Editable, Exists
    <3>2. new \in LessonRow
      BY <2>1, <3>1, MergedLessonType
    <3>3. QED
      BY <1>4, <2>1, <2>2, <3>2, LessonTxType, BeginType DEF UpdateLesson
  <2>3. QED
    BY <1>4, <2>2, RejectedType DEF UpdateLesson
<1>5. CASE ReadLessonToCancel(c)
  <2>1. CASE Ready(c, [time |-> now])
    BY <1>5, <2>1, ReadyType DEF ReadLessonToCancel, PrepType
  <2>2. QED
    BY <1>5, <2>1, RejectedType DEF ReadLessonToCancel
<1>6. CASE CancelLesson(c)
  <2> DEFINE l == req[c].lesson
  <2>1. l \in Lessons
    BY <1>0, <1>6, RequestShape DEF CancelLesson, CancelRequests
  <2>2. CASE /\ Cancellable(lessons[l], prep[c].time)
             /\ lessons' = [lessons EXCEPT ![l].status = "CANCELLED"]
             /\ Publish(Statement({l}), c)
             /\ Answer(c)
             /\ UNCHANGED <<events, seats, touched, now, issued>>
    <3>1. lessons[l] \in LessonRow
      BY <2>1, <2>2 DEF Cancellable, Exists
    <3>2. lessons' \in [Lessons -> LessonRow \cup {None}]
      BY <2>1, <2>2, <3>1 DEF LessonRow
    <3>3. since' = [d \in Clients |-> since'[d]]
      BY <2>2 DEF Publish
    <3>4. TypeOK'
      BY <2>2, <3>2, AnswerType DEF TxType
    <3>5. QED
      BY <2>2, <3>3, <3>4, AnswerType DEF PrepType
  <2>3. QED
    BY <1>6, <2>2, RejectedType DEF CancelLesson
<1>7. QED
  BY <1>1, <1>2, <1>3, <1>4, <1>5, <1>6 DEF LessonStep

LEMMA EventStepType ==
  ASSUME TypeInv, NEW c \in Clients, EventStep(c)
  PROVE  TypeInv'
<1> USE DEF TypeInv, TypeOK
<1>0. /\ phase[c] # "idle" => req[c] \in Requests
      /\ phase[c] \in {"ready", "open"} => PrepType(req[c], prep[c])
  OBVIOUS
<1>1. CASE CreateEvent(c)
  <2> DEFINE q == req[c]
             row == NewEvent(q)
             puts == [k \in {q.event} |-> row]
  <2>1. q \in CreateRequests
    BY <1>0, <1>1, RequestShape DEF CreateEvent
  <2>2. row \in EventRow /\ q.event \in Events
    BY <2>1 DEF NewEvent, CreateRequests, EventRow, EventVehicle, Null, Statuses
  <2>3. ASSUME Begin(c, EventTx(puts, Claims(EventHolds(row), row.win)))
        PROVE  TypeInv'
    BY <1>1, <2>2, <2>3, EventTxType, BeginType DEF CreateEvent
  <2>4. QED
    BY <1>1, <2>3, RejectedType DEF CreateEvent
<1>2. CASE ReadEvent(c)
  <2> DEFINE q == req[c]
             row == events[q.event]
  <2>1. CASE Exists(row) /\ Ready(c, row)
    <3>1. q.event \in Events /\ q.op # "bulkStatus"
      BY <1>0, <1>2, RequestShape
         DEF ReadEvent, UpdateEventRequests, DeleteRequests, SeatRequests, RemoveRequests
    <3>2. PrepType(q, row)
      BY <2>1, <3>1 DEF PrepType, Exists
    <3>3. QED
      BY <1>2, <2>1, <3>2, ReadyType DEF ReadEvent
  <2>2. QED
    BY <1>2, <2>1, RejectedType DEF ReadEvent
<1>3. CASE UpdateEvent(c)
  <2> DEFINE q == req[c]
             put == [MergedEvent(q, prep[c]) EXCEPT !.active = events[q.event].active]
  <2>1. q \in UpdateEventRequests /\ q.event \in Events
    BY <1>0, <1>3, RequestShape DEF UpdateEvent, UpdateEventRequests
  <2>2. prep[c] \in EventRow /\ events[q.event] \in EventRow
    BY <1>0, <1>3 DEF UpdateEvent, PrepType
  <2>3. put \in EventRow
    BY <2>1, <2>2, MergedEventType DEF EventRow
  <2>4. ASSUME NEW reads, Begin(c, EventTx([k \in {q.event} |-> put], reads))
        PROVE  TypeInv'
    BY <1>3, <2>1, <2>3, <2>4, EventTxType, BeginType DEF UpdateEvent
  <2>5. QED
    BY <1>3, <2>4, RejectedType DEF UpdateEvent
<1>4. CASE ReadEvents(c)
  <2> DEFINE active == {e \in req[c].events : Exists(events[e]) /\ events[e].active}
  <2>1. CASE Ready(c, [allowed |-> active])
    <3>1. req[c].events \subseteq Events
      BY <1>0, <1>4, RequestShape DEF ReadEvents, BulkRequests
    <3>2. PrepType(req[c], [allowed |-> active])
      BY <1>4, <3>1 DEF PrepType, Exists, ReadEvents
    <3>3. QED
      BY <1>4, <2>1, <3>2, ReadyType DEF ReadEvents
  <2>2. QED
    BY <1>4, <2>1, RejectedType DEF ReadEvents
<1>5. CASE BulkStatus(c)
  <2> DEFINE puts == [e \in prep[c].allowed |-> [events[e] EXCEPT !.status = req[c].status]]
  <2>1. req[c].status \in Statuses
    BY <1>0, <1>5, RequestShape DEF BulkStatus, BulkRequests
  <2>2. \A e \in DOMAIN puts : e \in Events /\ puts[e] \in EventRow
    BY <1>0, <1>5, <2>1 DEF BulkStatus, PrepType, EventRow
  <2>3. QED
    BY <1>5, <2>2, EventTxType, BeginType DEF BulkStatus
<1>6. CASE DeleteEvent(c)
  <2> DEFINE e == req[c].event
  <2>1. e \in Events /\ events[e] \in EventRow
    BY <1>0, <1>6, RequestShape DEF DeleteEvent, DeleteRequests, PrepType
  <2>2. events' = [events EXCEPT ![e].active = FALSE] /\ Answer(c)
        /\ Publish(Statement({e}), c) /\ UNCHANGED <<lessons, seats, touched, now, issued>>
    BY <1>6 DEF DeleteEvent
  <2>3. /\ events' \in [Events -> EventRow \cup {None}]
        /\ \A k \in Events : events[k] \in EventRow => events'[k] \in EventRow
    BY <2>1, <2>2 DEF EventRow
  <2>4. since' = [d \in Clients |-> since'[d]]
    BY <2>2 DEF Publish
  <2>5. TypeOK'
    BY <2>2, <2>3, AnswerType DEF TxType
  <2>6. \A d \in Clients \ {c} : /\ phase'[d] = phase[d] /\ req'[d] = req[d] /\ prep'[d] = prep[d]
    BY <2>2, AnswerType
  <2>7. ASSUME NEW d \in Clients \ {c}, phase[d] \in {"ready", "open"}
        PROVE  PrepType(req[d], prep[d])'
    <3>1. PrepType(req[d], prep[d]) /\ req[d] \in Requests
      BY <2>7
    <3>2. req[d].op \in {"updateEvent", "deleteEvent"} => req[d].event \in Events
      BY <3>1, RequestShape DEF UpdateEventRequests, DeleteRequests
    <3>3. QED
      BY <2>3, <2>6, <3>1, <3>2 DEF PrepType
  <2>8. phase'[c] = "idle"
    BY <2>2, AnswerType
  <2>9. QED
    BY <2>2, <2>4, <2>5, <2>6, <2>7, <2>8, AnswerType
<1>7. CASE AssignStudents(c)
  <2> DEFINE e == req[c].event
             new == req[c].students \ Participants(e)
  <2>1. e \in Events /\ new \subseteq Students
    BY <1>0, <1>7, RequestShape DEF AssignStudents, SeatRequests
  <2>2. CASE Begin(c, SeatTx(e, new, {}, prep[c].win))
    BY <1>7, <2>1, <2>2, SeatTxType, BeginType DEF AssignStudents
  <2>3. QED
    BY <1>7, <2>2, RejectedType DEF AssignStudents
<1>8. CASE ReplaceStudents(c)
  <2> DEFINE e == req[c].event
             add == req[c].students \ Participants(e)
             del == Participants(e) \ req[c].students
  <2>1. e \in Events /\ add \subseteq Students /\ del \subseteq Students
    BY <1>0, <1>8, RequestShape DEF ReplaceStudents, SeatRequests, Participants
  <2>2. CASE Begin(c, SeatTx(e, add, del, prep[c].win))
    BY <1>8, <2>1, <2>2, SeatTxType, BeginType DEF ReplaceStudents
  <2>3. QED
    BY <1>8, <2>2, RejectedType DEF ReplaceStudents
<1>9. CASE RemoveStudent(c)
  <2> DEFINE seat == <<req[c].event, req[c].student>>
  <2>1. CASE /\ seats' = seats \ {seat} /\ Answer(c) /\ Publish(Statement({seat}), c)
             /\ UNCHANGED <<lessons, events, touched, now, issued>>
    <3>1. since' = [d \in Clients |-> since'[d]]
      BY <2>1 DEF Publish
    <3>2. TypeOK'
      BY <2>1, AnswerType DEF TxType
    <3>3. QED
      BY <2>1, <3>1, <3>2, AnswerType DEF PrepType
  <2>2. QED
    BY <1>9, <2>1, RejectedType DEF RemoveStudent
<1>10. QED
  BY <1>1, <1>2, <1>3, <1>4, <1>5, <1>6, <1>7, <1>8, <1>9 DEF EventStep

LEMMA CommitType ==
  ASSUME TypeInv, NEW c \in Clients, Commit(c)
  PROVE  TypeInv'
<1> USE DEF TypeInv, TypeOK
<1>1. /\ Answer(c) /\ Publish(Footprint(tx[c]), c) /\ UNCHANGED <<now, issued>>
      /\ lessons' = Apply(lessons, tx[c].lessons)
      /\ events' = Apply(events, tx[c].events)
      /\ seats' = (seats \ tx[c].del) \cup tx[c].add
      /\ touched' = touched \cup {e \in DOMAIN tx[c].events : Exists(events[e])}
  BY DEF Commit
<1>2. TxType(tx[c])
  OBVIOUS
<1>3. /\ lessons' \in [Lessons -> LessonRow \cup {None}]
      /\ events' \in [Events -> EventRow \cup {None}]
      /\ \A e \in Events : events[e] \in EventRow => events'[e] \in EventRow
  BY <1>1, <1>2 DEF Apply, TxType
<1>4. seats' \subseteq Seats /\ touched' \subseteq Events
  BY <1>1, <1>2 DEF TxType
<1>5. TypeOK'
  BY <1>1, <1>3, <1>4, AnswerType DEF TxType
<1>6. \A d \in Clients \ {c} : /\ phase'[d] = phase[d] /\ req'[d] = req[d] /\ prep'[d] = prep[d]
  BY <1>1, AnswerType
<1>7. ASSUME NEW d \in Clients \ {c}, phase[d] \in {"ready", "open"}
      PROVE  PrepType(req[d], prep[d])'
  <2>1. PrepType(req[d], prep[d]) /\ req[d] \in Requests
    BY <1>7
  <2>2. req[d].op \in {"updateEvent", "deleteEvent"} => req[d].event \in Events
    BY <2>1, RequestShape DEF UpdateEventRequests, DeleteRequests
  <2>3. QED
    BY <1>3, <1>6, <2>1, <2>2 DEF PrepType
<1>8. since' = [d \in Clients |-> since'[d]]
  BY <1>1 DEF Publish
<1>9. QED
  BY <1>1, <1>5, <1>6, <1>7, <1>8, AnswerType

LEMMA SerializationConflictType ==
  ASSUME TypeInv, NEW c \in Clients, SerializationConflict(c)
  PROVE  TypeInv'
<1> USE DEF TypeInv, TypeOK
<1>1. /\ UNCHANGED <<Tables, now, issued>> /\ phase[c] = "open"
      /\ since' = [since EXCEPT ![c] = {}]
  BY DEF SerializationConflict
<1>2. CASE Answer(c)
  <2>1. TypeOK'
    BY <1>1, <1>2, AnswerType DEF TxType
  <2>2. QED
    BY <1>1, <1>2, <2>1, AnswerType DEF PrepType
<1>3. CASE /\ attempt[c] < MaxAttempts /\ attempt' = [attempt EXCEPT ![c] = @ + 1]
           /\ tx' = [tx EXCEPT ![c] = Idle] /\ phase' = [phase EXCEPT ![c] = "ready"]
           /\ UNCHANGED <<req, prep>>
  <2>1. attempt[c] + 1 \in 0..MaxAttempts
    BY <1>3, BoundAssumption
  <2>2. attempt' \in [Clients -> 0..MaxAttempts]
    BY <1>3, <2>1
  <2>3. \A d \in Clients : TxType(tx'[d])
    <3>1. \A d \in Clients : tx'[d] = IF d = c THEN Idle ELSE tx[d]
      BY <1>3
    <3>2. QED
      BY <3>1, IdleType
  <2>4. TypeOK'
    BY <1>1, <1>3, <2>2, <2>3 DEF TxType
  <2>5. QED
    BY <1>1, <1>3, <2>4 DEF PrepType
<1>4. QED
  BY <1>2, <1>3 DEF SerializationConflict, CountAttempt

LEMMA TypeStep == TypeInv /\ [Next]_vars => TypeInv'
<1> SUFFICES ASSUME TypeInv, [Next]_vars PROVE TypeInv'
  OBVIOUS
<1>1. CASE Tick
  <2>1. now' \in Ticks
    BY <1>1, HorizonAssumption DEF Tick
  <2>2. TypeOK'
    BY <1>1, <2>1 DEF Tick, TypeInv, TypeOK, TxType
  <2>3. QED
    BY <1>1, <2>2 DEF Tick, TypeInv, PrepType
<1>2. ASSUME NEW c \in Clients, Fail(c) PROVE TypeInv'
  <2>1. TypeOK'
    BY <1>2, AnswerType DEF Fail, TypeInv, TypeOK, TxType
  <2>2. QED
    BY <1>2, <2>1, AnswerType DEF Fail, TypeInv, PrepType
<1>3. CASE UNCHANGED vars
  <2>1. TypeOK'
    BY <1>3 DEF vars, TypeInv, TypeOK, TxType
  <2>2. QED
    BY <1>3, <2>1 DEF vars, TypeInv, PrepType
<1>4. ASSUME NEW c \in Clients, Step(c) PROVE TypeInv'
  BY <1>4, LessonStepType, EventStepType, CommitType, SerializationConflictType DEF Step
<1>5. QED
  BY <1>1, <1>2, <1>3, <1>4, SubmitType DEF Next

\* The tables hold rows of the schema, whatever handlers do.
THEOREM TypeCorrect == Spec => []TypeOK
<1>1. TypeInv => TypeOK
  BY DEF TypeInv
<1>2. QED
  BY InitType, TypeStep, <1>1, PTL DEF Spec

(***************************************************************************)
(* Lessons never overlap.  LessonsNeverOverlap alone is not inductive: that*)
(* a commit keeps lessons apart follows from what the transaction read, and*)
(* from the abort of any other that read what this one writes.             *)
(***************************************************************************)
OverlapInv == TypeInv /\ LessonsNeverOverlap /\ OpenWritesProtected

\* Of the other handlers, a step changes no transaction and forgets no footprint.
Bystanders(c) ==
  \A d \in Clients \ {c} :
    /\ phase'[d] = phase[d] /\ tx'[d] = tx[d]
    /\ since[d] \subseteq since'[d]

LEMMA ProtectedStable ==
  ASSUME NEW d \in Clients, Protected(d), lessons' = lessons, tx'[d] = tx[d],
         since[d] \subseteq since'[d]
  PROVE  Protected(d)'
<1>1. MustAbort(d) => MustAbort(d)'
  BY DEF MustAbort
<1>2. \A l, r, res : /\ Keeps(l, r, res) => Keeps(l, r, res)'
                     /\ FreeOfLessons(l, r, res) => FreeOfLessons(l, r, res)'
  BY DEF Keeps, FreeOfLessons
<1>3. QED
  BY <1>1, <1>2 DEF Protected

\* A step that writes no lesson and starts no transaction that will.
LEMMA QuietStep ==
  ASSUME OverlapInv, NEW c \in Clients, lessons' = lessons, TypeInv', Bystanders(c),
         phase'[c] = "open" => Protected(c)'
  PROVE  OverlapInv'
<1>1. LessonsNeverOverlap'
  BY DEF OverlapInv, LessonsNeverOverlap
<1>2. \A d \in Clients \ {c} : phase'[d] = "open" => Protected(d)'
  BY ProtectedStable DEF OverlapInv, OpenWritesProtected, Bystanders
<1>3. QED
  BY <1>1, <1>2 DEF OverlapInv, OpenWritesProtected

LEMMA NotBusyIsFree ==
  ASSUME NEW l, NEW row, NEW res, NEW self, self = l \/ self \notin Lessons,
         ~ Busy(res, row.win, self)
  PROVE  FreeOfLessons(l, row, res)
BY DEF Busy, FreeOfLessons

\* A transaction starts that will put row in l, having found each resource free.
LEMMA BeginLesson ==
  ASSUME OverlapInv, TypeInv', NEW c \in Clients, NEW l \in Lessons, NEW row \in LessonRow,
         NEW reads, Begin(c, LessonTx(l, row, reads)),
         \A res \in LessonHolds(row) :
           \/ Keeps(l, row, res)
           \/ [res |-> res, win |-> row.win] \in reads /\ FreeOfLessons(l, row, res)
  PROVE  OverlapInv'
<1> DEFINE t == LessonTx(l, row, reads)
<1>1. tx'[c] = t /\ lessons' = lessons /\ Bystanders(c)
  BY DEF Begin, Bystanders, OverlapInv, TypeInv, TypeOK
<1>2. DOMAIN t.lessons = {l} /\ t.lessons[l] = row /\ t.reads = reads
  BY DEF LessonTx, Idle, NoRows
<1>3. \A res \in LessonHolds(row) : [res |-> res, win |-> row.win] \in t.writes
  BY DEF LessonTx, Idle, NoRows, Claims
<1>4. \A res : /\ Keeps(l, row, res) => Keeps(l, row, res)'
               /\ FreeOfLessons(l, row, res) => FreeOfLessons(l, row, res)'
  BY <1>1 DEF Keeps, FreeOfLessons
<1>5. Protected(c)'
  BY <1>1, <1>2, <1>3, <1>4 DEF Protected
<1>6. QED
  BY <1>1, <1>5, QuietStep

LEMMA AnswerLeavesOthers ==
  ASSUME TypeInv, NEW c \in Clients, Answer(c)
  PROVE  /\ \A d \in Clients \ {c} : phase'[d] = phase[d] /\ tx'[d] = tx[d]
         /\ phase'[c] = "idle"
BY DEF TypeInv, TypeOK, Answer

LEMMA RejectedStep ==
  ASSUME OverlapInv, TypeInv', NEW c \in Clients, Rejected(c)
  PROVE  OverlapInv'
<1>1. Answer(c) /\ lessons' = lessons /\ since' = since
  BY DEF Rejected
<1>2. Bystanders(c) /\ phase'[c] # "open"
  BY <1>1, AnswerLeavesOthers DEF Bystanders, OverlapInv
<1>3. QED
  BY <1>1, <1>2, QuietStep

LEMMA ReadyStep ==
  ASSUME OverlapInv, TypeInv', NEW c \in Clients, NEW x, Ready(c, x)
  PROVE  OverlapInv'
<1>1. lessons' = lessons /\ Bystanders(c) /\ phase'[c] # "open"
  BY DEF Ready, Bystanders, OverlapInv, TypeInv, TypeOK
<1>2. QED
  BY <1>1, QuietStep

\* A transaction starts that writes no lesson.
LEMMA BeginOther ==
  ASSUME OverlapInv, TypeInv', NEW c \in Clients, NEW t, Begin(c, t), DOMAIN t.lessons = {}
  PROVE  OverlapInv'
<1>1. lessons' = lessons /\ tx'[c] = t /\ Bystanders(c)
  BY DEF Begin, Bystanders, OverlapInv, TypeInv, TypeOK
<1>2. Protected(c)'
  BY <1>1 DEF Protected
<1>3. QED
  BY <1>1, <1>2, QuietStep

\* A booking found its student, instructor and vehicle free.
LEMMA BookedIsFree ==
  ASSUME NEW q, NEW v,
         LessonWindowAvailable(NewLesson(q, v), None), ~ Busy(v, q.win, None)
  PROVE  \A res \in LessonHolds(NewLesson(q, v)) :
           /\ [res |-> res, win |-> q.win]
                \in LessonReads(NewLesson(q, v)) \cup VehicleReads(NewLesson(q, v))
           /\ ~ Busy(res, q.win, None)
<1> DEFINE row == NewLesson(q, v)
<1>1. row.student = q.student /\ row.instructor = q.instructor /\ row.vehicle = v
      /\ row.win = q.win
  BY DEF NewLesson
<1>2. LessonHolds(row) \subseteq {row.student, row.instructor, row.vehicle}
  BY DEF LessonHolds
<1>3. \A res \in {row.student, row.instructor, row.vehicle} : ~ Busy(res, row.win, None)
  BY <1>1 DEF LessonWindowAvailable, AllFree
<1>4. \A res \in {row.student, row.instructor, row.vehicle} :
        [res |-> res, win |-> q.win] \in LessonReads(row) \cup VehicleReads(row)
  BY <1>1 DEF LessonReads, VehicleReads, Claims
<1>5. QED
  BY <1>1, <1>2, <1>3, <1>4

\* So did an update, save for what the lesson held in that window already.
LEMMA UpdatedIsFree ==
  ASSUME NEW q \in UpdateLessonRequests, NEW seen, NEW old \in LessonRow, old = lessons[q.lesson],
         Editable(old), UpdateLessonAllowed(q, seen, old, MergedLesson(q, old))
  PROVE  LET new == MergedLesson(q, old)
             reads == VehicleReads(new) \cup (IF Moved(old, new) THEN LessonReads(new) ELSE {})
         IN \A res \in LessonHolds(new) :
              \/ Keeps(q.lesson, new, res)
              \/ [res |-> res, win |-> new.win] \in reads /\ ~ Busy(res, new.win, q.lesson)
<1> DEFINE new == MergedLesson(q, old)
           reads == VehicleReads(new) \cup (IF Moved(old, new) THEN LessonReads(new) ELSE {})
<1>1. new.student = old.student
  BY MergedLessonType
<1>2. LessonHolds(new) \subseteq {new.student, new.instructor, new.vehicle}
  BY DEF LessonHolds
<1>3. [res |-> new.vehicle, win |-> new.win] \in reads /\ ~ Busy(new.vehicle, new.win, q.lesson)
  BY DEF UpdateLessonAllowed, VehicleReads, Claims
<1>4. CASE Moved(old, new)
  <2>1. \A res \in {new.student, new.instructor} :
          [res |-> res, win |-> new.win] \in reads /\ ~ Busy(res, new.win, q.lesson)
    BY <1>4 DEF UpdateLessonAllowed, LessonWindowAvailable, AllFree, LessonReads, Claims
  <2>2. QED
    BY <1>2, <1>3, <2>1
<1>5. CASE ~ Moved(old, new)
  <2>1. Keeps(q.lesson, new, new.student) /\ Keeps(q.lesson, new, new.instructor)
    BY <1>1, <1>5 DEF Moved, Keeps, LessonHolds, LiveLesson, Editable
  <2>2. QED
    BY <1>2, <1>3, <2>1
<1>6. QED
  BY <1>4, <1>5

\* Cancelling a lesson frees it, and dooms whoever is about to write it.
LEMMA CancelStep ==
  ASSUME OverlapInv, TypeInv', NEW c \in Clients, CancelLesson(c), ~ Rejected(c)
  PROVE  OverlapInv'
<1> DEFINE l == req[c].lesson
<1>1. /\ Cancellable(lessons[l], prep[c].time)
      /\ lessons' = [lessons EXCEPT ![l].status = "CANCELLED"]
      /\ Publish(Statement({l}), c) /\ Answer(c)
  BY DEF CancelLesson
<1>2. lessons \in [Lessons -> LessonRow \cup {None}]
  BY DEF OverlapInv, TypeInv, TypeOK
<1>3. /\ phase'[c] = "idle"
      /\ \A d \in Clients \ {c} : phase'[d] = phase[d] /\ tx'[d] = tx[d]
  BY <1>1, AnswerLeavesOthers DEF OverlapInv
<1>4. \A k \in Lessons :
        /\ k # l => lessons'[k] = lessons[k]
        /\ LessonHolds(lessons'[k]) \subseteq LessonHolds(lessons[k])
        /\ LessonHolds(lessons'[k]) # {} => lessons'[k].win = lessons[k].win
  <2>1. CASE l \notin Lessons
    BY <1>1, <1>2, <2>1
  <2>2. CASE l \in Lessons
    <3>1. lessons[l] \in LessonRow
      BY <1>1, <1>2, <2>2 DEF Cancellable, Exists
    <3>2. lessons'[l].status = "CANCELLED" /\ LessonHolds(lessons'[l]) = {}
      BY <1>1, <1>2, <2>2, <3>1 DEF LessonHolds, LiveLesson, LessonRow
    <3>3. QED
      BY <1>1, <1>2, <2>2, <3>2
  <2>3. QED
    BY <2>1, <2>2
<1>5. LessonsNeverOverlap'
  BY <1>4 DEF OverlapInv, LessonsNeverOverlap
<1>6. ASSUME NEW d \in Clients \ {c}, phase[d] = "open"
      PROVE  Protected(d)'
  <2>1. Protected(d) /\ tx'[d] = tx[d] /\ TxType(tx[d])
    BY <1>3, <1>6 DEF OverlapInv, OpenWritesProtected, TypeInv, TypeOK
  <2>2. since'[d] = since[d] \cup {Statement({l})}
    BY <1>1, <1>6 DEF Publish
  <2>3. MustAbort(d) => MustAbort(d)'
    BY <2>1, <2>2 DEF MustAbort
  <2>4. l \in DOMAIN tx[d].lessons => MustAbort(d)'
    <3>1. Statement({l}).rows = {l} /\ Statement({l}) \in since'[d]
      BY <2>2 DEF Statement
    <3>2. l \in DOMAIN tx[d].lessons => l \in Rows(tx'[d])
      BY <2>1 DEF Rows
    <3>3. QED
      BY <3>1, <3>2 DEF MustAbort
  <2>5. ASSUME NEW k \in DOMAIN tx[d].lessons, NEW res, k # l
        PROVE  /\ Keeps(k, tx[d].lessons[k], res) => Keeps(k, tx[d].lessons[k], res)'
               /\ FreeOfLessons(k, tx[d].lessons[k], res)
                    => FreeOfLessons(k, tx[d].lessons[k], res)'
    BY <1>4, <2>1, <2>5 DEF Keeps, FreeOfLessons, TxType
  <2>6. QED
    BY <2>1, <2>3, <2>4, <2>5 DEF Protected
<1>7. OpenWritesProtected'
  BY <1>3, <1>6 DEF OpenWritesProtected
<1>8. QED
  BY <1>5, <1>7 DEF OverlapInv

LEMMA LessonStepOverlap ==
  ASSUME OverlapInv, TypeInv', NEW c \in Clients, LessonStep(c)
  PROVE  OverlapInv'
<1>0. /\ phase[c] # "idle" => req[c] \in Requests
      /\ lessons \in [Lessons -> LessonRow \cup {None}]
  BY DEF OverlapInv, TypeInv, TypeOK
<1>1. CASE ReadBooking(c)
  BY <1>1, ReadyStep, RejectedStep DEF ReadBooking
<1>2. CASE BookLesson(c)
  <2> DEFINE q == req[c]
             row == NewLesson(q, q.vehicle)
  <2>1. q \in BookRequests
    BY <1>0, <1>2, RequestShape DEF BookLesson
  <2>2. row \in LessonRow /\ q.lesson \in Lessons /\ row.win = q.win
    BY <2>1, NewLessonType DEF BookRequests, NewLesson
  <2>3. CASE /\ LessonWindowAvailable(row, None) /\ ~ Busy(q.vehicle, q.win, None)
             /\ Begin(c, LessonTx(q.lesson, row, LessonReads(row) \cup VehicleReads(row)))
    <3>1. \A res \in LessonHolds(row) :
            /\ [res |-> res, win |-> row.win] \in LessonReads(row) \cup VehicleReads(row)
            /\ FreeOfLessons(q.lesson, row, res)
      BY <2>2, <2>3, BookedIsFree, NotBusyIsFree, NoneAssumption
    <3>2. QED
      BY <2>2, <2>3, <3>1, BeginLesson
  <2>4. QED
    BY <1>2, <2>3, RejectedStep DEF BookLesson
<1>3. CASE BookOwnLesson(c)
  <2> DEFINE q == req[c]
  <2>1. q \in BookOwnRequests
    BY <1>0, <1>3, RequestShape DEF BookOwnLesson
  <2>2. ASSUME NEW v \in Vehicles, ~ Busy(v, q.win, None),
               LessonWindowAvailable(NewLesson(q, v), None),
               Begin(c, LessonTx(q.lesson, NewLesson(q, v),
                          LessonReads(NewLesson(q, v)) \cup VehicleReads(NewLesson(q, v))))
        PROVE  OverlapInv'
    <3>1. NewLesson(q, v) \in LessonRow /\ q.lesson \in Lessons /\ NewLesson(q, v).win = q.win
      BY <2>1, NewLessonType DEF BookOwnRequests, NewLesson
    <3> DEFINE row == NewLesson(q, v)
    <3>2. \A res \in LessonHolds(row) :
            /\ [res |-> res, win |-> row.win] \in LessonReads(row) \cup VehicleReads(row)
            /\ FreeOfLessons(q.lesson, row, res)
      BY <2>2, <3>1, BookedIsFree, NotBusyIsFree, NoneAssumption
    <3>3. QED
      BY <2>2, <3>1, <3>2, BeginLesson
  <2>3. QED
    BY <1>3, <2>2, RejectedStep DEF BookOwnLesson
<1>4. CASE UpdateLesson(c)
  <2> DEFINE q == req[c]
             old == lessons[q.lesson]
             new == MergedLesson(q, old)
             reads == VehicleReads(new) \cup (IF Moved(old, new) THEN LessonReads(new) ELSE {})
  <2>1. q \in UpdateLessonRequests /\ q.lesson \in Lessons
    BY <1>0, <1>4, RequestShape DEF UpdateLesson, UpdateLessonRequests
  <2>2. CASE /\ Editable(old) /\ UpdateLessonAllowed(q, prep[c], old, new)
             /\ Begin(c, LessonTx(q.lesson, new, reads))
    <3>1. old \in LessonRow
      BY <1>0, <2>1, <2>2 DEF Editable, Exists
    <3>2. new \in LessonRow
      BY <2>1, <3>1, MergedLessonType
    <3>3. \A res \in LessonHolds(new) :
            \/ Keeps(q.lesson, new, res)
            \/ /\ [res |-> res, win |-> new.win] \in reads
               /\ FreeOfLessons(q.lesson, new, res)
      BY <2>1, <2>2, <3>1, UpdatedIsFree, NotBusyIsFree
    <3>4. QED
      BY <2>1, <2>2, <3>2, <3>3, BeginLesson
  <2>3. QED
    BY <1>4, <2>2, RejectedStep DEF UpdateLesson
<1>5. CASE ReadLessonToCancel(c)
  BY <1>5, ReadyStep, RejectedStep DEF ReadLessonToCancel
<1>6. CASE CancelLesson(c)
  BY <1>6, CancelStep, RejectedStep
<1>7. QED
  BY <1>1, <1>2, <1>3, <1>4, <1>5, <1>6 DEF LessonStep

\* Events and seats are changed in transactions that write no lesson, or at once.
LEMMA EventStepOverlap ==
  ASSUME OverlapInv, TypeInv', NEW c \in Clients, EventStep(c)
  PROVE  OverlapInv'
<1>1. \A puts, reads : DOMAIN EventTx(puts, reads).lessons = {}
  BY DEF EventTx, Idle, NoRows
<1>2. \A e, add, del, w : DOMAIN SeatTx(e, add, del, w).lessons = {}
  BY DEF SeatTx, Idle, NoRows
<1>3. ASSUME NEW f, Publish(f, c), Answer(c), lessons' = lessons
      PROVE  OverlapInv'
  <2>1. Bystanders(c) /\ phase'[c] # "open"
    BY <1>3, AnswerLeavesOthers DEF Bystanders, Publish, OverlapInv
  <2>2. QED
    BY <1>3, <2>1, QuietStep
<1>4. CASE CreateEvent(c)
  BY <1>1, <1>4, BeginOther, RejectedStep DEF CreateEvent
<1>5. CASE ReadEvent(c)
  BY <1>5, ReadyStep, RejectedStep DEF ReadEvent
<1>6. CASE UpdateEvent(c)
  BY <1>1, <1>6, BeginOther, RejectedStep DEF UpdateEvent
<1>7. CASE ReadEvents(c)
  BY <1>7, ReadyStep, RejectedStep DEF ReadEvents
<1>8. CASE BulkStatus(c)
  BY <1>1, <1>8, BeginOther DEF BulkStatus
<1>9. CASE DeleteEvent(c)
  BY <1>3, <1>9 DEF DeleteEvent
<1>10. CASE AssignStudents(c)
  BY <1>2, <1>10, BeginOther, RejectedStep DEF AssignStudents
<1>11. CASE ReplaceStudents(c)
  BY <1>2, <1>11, BeginOther, RejectedStep DEF ReplaceStudents
<1>12. CASE RemoveStudent(c)
  BY <1>3, <1>12, RejectedStep DEF RemoveStudent
<1>13. QED
  BY <1>4, <1>5, <1>6, <1>7, <1>8, <1>9, <1>10, <1>11, <1>12 DEF EventStep

\* A commit writes one lesson, whose resources no other lesson holds; and any open
\* transaction that found one of them free must abort.
LEMMA CommitOverlap ==
  ASSUME OverlapInv, TypeInv', NEW c \in Clients, Commit(c)
  PROVE  OverlapInv'
<1> DEFINE t == tx[c]
<1>1. /\ phase[c] = "open" /\ ~ MustAbort(c) /\ Answer(c)
      /\ lessons' = Apply(lessons, t.lessons) /\ Publish(Footprint(t), c)
  BY DEF Commit
<1>2. Protected(c) /\ TxType(t)
  BY <1>1 DEF OverlapInv, OpenWritesProtected, TypeInv, TypeOK
<1>3. /\ phase'[c] = "idle"
      /\ \A d \in Clients \ {c} : phase'[d] = phase[d] /\ tx'[d] = tx[d]
  BY <1>1, AnswerLeavesOthers DEF OverlapInv
<1>4. lessons \in [Lessons -> LessonRow \cup {None}]
  BY DEF OverlapInv, TypeInv, TypeOK
<1>5. CASE DOMAIN t.lessons = {}
  <2>1. lessons' = lessons
    BY <1>1, <1>4, <1>5 DEF Apply
  <2>2. Bystanders(c)
    BY <1>1, <1>3 DEF Bystanders, Publish
  <2>3. QED
    BY <1>3, <2>1, <2>2, QuietStep
<1>6. ASSUME NEW l \in DOMAIN t.lessons
      PROVE  OverlapInv'
  <2> DEFINE r == t.lessons[l]
             Claim(res) == [res |-> res, win |-> r.win]
  <2>1. l \in Lessons /\ DOMAIN t.lessons = {l}
    BY <1>2 DEF Protected, TxType
  <2>2. \A k \in Lessons : lessons'[k] = IF k = l THEN r ELSE lessons[k]
    BY <1>1, <1>4, <2>1 DEF Apply
  <2>3. \A res \in LessonHolds(r) :
          /\ Claim(res) \in t.writes
          /\ Keeps(l, r, res) \/ (Claim(res) \in t.reads /\ FreeOfLessons(l, r, res))
    BY <1>1, <1>2 DEF Protected
  <2>4. LessonsNeverOverlap'
    <3>1. ASSUME NEW k \in Lessons, k # l, NEW res,
                 res \in LessonHolds(r), res \in LessonHolds(lessons[k])
          PROVE  ~ Overlaps(lessons[k].win, r.win)
      <4>1. CASE Keeps(l, r, res)
        BY <2>1, <3>1, <4>1 DEF Keeps, OverlapInv, LessonsNeverOverlap
      <4>2. CASE FreeOfLessons(l, r, res)
        BY <3>1, <4>2 DEF FreeOfLessons
      <4>3. QED
        BY <2>3, <3>1, <4>1, <4>2
    <3>2. \A v, w : Overlaps(v, w) <=> Overlaps(w, v)
      BY DEF Overlaps
    <3>3. QED
      BY <2>2, <3>1, <3>2 DEF LessonsNeverOverlap, OverlapInv
  <2>5. ASSUME NEW d \in Clients \ {c}, phase[d] = "open"
        PROVE  Protected(d)'
    <3> DEFINE u == Footprint(t)
    <3>1. Protected(d) /\ tx'[d] = tx[d] /\ TxType(tx[d])
      BY <1>3, <2>5 DEF OverlapInv, OpenWritesProtected, TypeInv, TypeOK
    <3>2. since'[d] = since[d] \cup {u} /\ u.reads = t.reads /\ u.writes = t.writes /\ u.rows = Rows(t)
      BY <1>1, <2>5 DEF Publish, Footprint
    <3>3. MustAbort(d) => MustAbort(d)'
      BY <3>1, <3>2 DEF MustAbort
    <3>4. l \in DOMAIN tx[d].lessons => MustAbort(d)'
      <4>1. l \in u.rows
        BY <3>2 DEF Rows
      <4>2. l \in DOMAIN tx[d].lessons => l \in Rows(tx'[d])
        BY <3>1 DEF Rows
      <4>3. QED
        BY <3>2, <4>1, <4>2 DEF MustAbort
    <3>5. ASSUME NEW k \in DOMAIN tx[d].lessons, NEW res \in LessonHolds(tx[d].lessons[k]), k # l
          PROVE  LET s == tx[d].lessons[k]
                     mine == [res |-> res, win |-> s.win]
                 IN \/ MustAbort(d)'
                    \/ Keeps(k, s, res)'
                    \/ mine \in tx[d].reads /\ FreeOfLessons(k, s, res)'
      <4> DEFINE s == tx[d].lessons[k]
                 mine == [res |-> res, win |-> s.win]
      <4>1. /\ k \in Lessons /\ mine \in tx[d].writes
            /\ \/ MustAbort(d)
               \/ Keeps(k, s, res)
               \/ mine \in tx[d].reads /\ FreeOfLessons(k, s, res)
        BY <3>1 DEF Protected, TxType
      <4>2. Keeps(k, s, res) => Keeps(k, s, res)'
        BY <2>2, <3>1, <3>5, <4>1 DEF Keeps
      <4>3. CASE mine \in tx[d].reads /\ FreeOfLessons(k, s, res)
        <5>1. CASE res \in LessonHolds(r) /\ Overlaps(r.win, s.win)
          <6>1. Claim(res) \in t.writes /\ Claim(res) \in t.reads
            BY <2>1, <2>3, <3>5, <4>3, <5>1 DEF Keeps, FreeOfLessons
          <6>2. Overlaps(s.win, r.win)
            BY <5>1 DEF Overlaps
          <6>3. Hits(tx[d].reads, u.writes) /\ Hits(u.reads, tx[d].writes)
            BY <3>2, <4>1, <4>3, <5>1, <6>1, <6>2 DEF Hits
          <6>4. QED
            BY <3>1, <3>2, <6>3 DEF MustAbort
        <5>2. CASE ~ (res \in LessonHolds(r) /\ Overlaps(r.win, s.win))
          BY <2>2, <3>1, <4>3, <5>2 DEF FreeOfLessons
        <5>3. QED
          BY <5>1, <5>2
      <4>4. QED
        BY <3>3, <4>1, <4>2, <4>3
    <3>6. QED
      BY <3>1, <3>4, <3>5 DEF Protected
  <2>6. QED
    BY <1>3, <2>4, <2>5 DEF OverlapInv, OpenWritesProtected
<1>7. QED
  BY <1>5, <1>6

LEMMA SerializationConflictOverlap ==
  ASSUME OverlapInv, TypeInv', NEW c \in Clients, SerializationConflict(c) \/ Fail(c)
  PROVE  OverlapInv'
<1>1. lessons' = lessons
  BY DEF SerializationConflict, Fail
<1>2. since' = [since EXCEPT ![c] = {}]
  BY DEF SerializationConflict, Fail
<1>3. phase'[c] # "open" /\ \A d \in Clients \ {c} : phase'[d] = phase[d] /\ tx'[d] = tx[d]
  <2>1. CASE Answer(c)
    BY <2>1, AnswerLeavesOthers DEF OverlapInv
  <2>2. CASE ~ Answer(c)
    BY <2>2 DEF SerializationConflict, Fail, OverlapInv, TypeInv, TypeOK
  <2>3. QED
    BY <2>1, <2>2
<1>4. Bystanders(c)
  BY <1>2, <1>3 DEF Bystanders, OverlapInv, TypeInv
<1>5. QED
  BY <1>1, <1>3, <1>4, QuietStep

LEMMA SubmitOverlap ==
  ASSUME OverlapInv, TypeInv', NEW c \in Clients, NEW q \in Requests, Submit(c, q)
  PROVE  OverlapInv'
<1>1. lessons' = lessons /\ Bystanders(c) /\ phase'[c] # "open"
  BY DEF Submit, Bystanders, OverlapInv, TypeInv, TypeOK
<1>2. QED
  BY <1>1, QuietStep

LEMMA OverlapStep == OverlapInv /\ [Next]_vars => OverlapInv'
<1> SUFFICES ASSUME OverlapInv, [Next]_vars PROVE OverlapInv'
  OBVIOUS
<1>1. TypeInv'
  BY TypeStep DEF OverlapInv
<1>2. CASE UNCHANGED <<lessons, phase, tx, since>>
  <2>1. LessonsNeverOverlap'
    BY <1>2 DEF OverlapInv, LessonsNeverOverlap
  <2>2. OpenWritesProtected'
    BY <1>2, ProtectedStable DEF OverlapInv, OpenWritesProtected
  <2>3. QED
    BY <1>1, <2>1, <2>2 DEF OverlapInv
<1>3. ASSUME NEW c \in Clients, Step(c) PROVE OverlapInv'
  BY <1>1, <1>3, LessonStepOverlap, EventStepOverlap, CommitOverlap,
     SerializationConflictOverlap DEF Step
<1>4. ASSUME NEW c \in Clients, Fail(c) PROVE OverlapInv'
  BY <1>1, <1>4, SerializationConflictOverlap
<1>5. ASSUME NEW c \in Clients, NEW q \in Requests, Submit(c, q) PROVE OverlapInv'
  BY <1>1, <1>5, SubmitOverlap
<1>6. Tick \/ UNCHANGED vars => UNCHANGED <<lessons, phase, tx, since>>
  BY DEF Tick, vars
<1>7. QED
  BY <1>2, <1>3, <1>4, <1>5, <1>6 DEF Next

LEMMA InitOverlap == Init => OverlapInv
<1> SUFFICES ASSUME Init PROVE OverlapInv
  OBVIOUS
<1>1. TypeInv
  BY InitType
<1>2. LessonsNeverOverlap
  BY DEF Init, LessonsNeverOverlap, LessonHolds, LiveLesson, Exists
<1>3. OpenWritesProtected
  BY DEF Init, OpenWritesProtected
<1>4. QED
  BY <1>1, <1>2, <1>3 DEF OverlapInv

\* No instructor, vehicle or student is ever in two lessons at once.
THEOREM NoOverlap == Spec => []LessonsNeverOverlap
<1>1. OverlapInv => LessonsNeverOverlap
  BY DEF OverlapInv
<1>2. QED
  BY InitOverlap, OverlapStep, <1>1, PTL DEF Spec

(***************************************************************************)
(* Refinement: whatever handlers do, each step is at most one owner        *)
(* changing what it holds, as Reservations allows.                         *)
(***************************************************************************)
LEMMA HeldShape ==
  ASSUME NEW g
  PROVE  g \in LessonsHeld <=>
           \E l \in Lessons : /\ Exists(lessons[l])
                              /\ g \in [owner : {l}, res : LessonHolds(lessons[l]),
                                        win : {lessons[l].win}]
BY DEF LessonsHeld

LEMMA HeldConsistent == LessonsNeverOverlap => Promise!Consistent
<1> SUFFICES ASSUME LessonsNeverOverlap, NEW g \in LessonsHeld, NEW h \in LessonsHeld
             PROVE  ~ Promise!Clash(g, h)
  BY DEF Promise!Consistent
<1>1. PICK k \in Lessons : g \in [owner : {k}, res : LessonHolds(lessons[k]),
                                  win : {lessons[k].win}]
  BY HeldShape
<1>2. PICK l \in Lessons : h \in [owner : {l}, res : LessonHolds(lessons[l]),
                                  win : {lessons[l].win}]
  BY HeldShape
<1>3. /\ g.owner = k /\ g.res \in LessonHolds(lessons[k]) /\ g.win = lessons[k].win
      /\ h.owner = l /\ h.res \in LessonHolds(lessons[l]) /\ h.win = lessons[l].win
  BY <1>1, <1>2
<1>4. QED
  BY <1>3 DEF Promise!Clash, LessonsNeverOverlap, Overlaps

\* A step writes at most one lesson.
LEMMA OneLesson ==
  ASSUME OverlapInv, [Next]_vars
  PROVE  \/ lessons' = lessons
         \/ \E l \in Lessons : \A k \in Lessons \ {l} : lessons'[k] = lessons[k]
<1>1. ASSUME NEW c \in Clients, Commit(c)
      PROVE  \/ lessons' = lessons
             \/ \E l \in Lessons : \A k \in Lessons \ {l} : lessons'[k] = lessons[k]
  <2>1. Protected(c) /\ TxType(tx[c]) /\ lessons \in [Lessons -> LessonRow \cup {None}]
    BY <1>1 DEF Commit, OverlapInv, OpenWritesProtected, TypeInv, TypeOK
  <2>2. lessons' = Apply(lessons, tx[c].lessons)
    BY <1>1 DEF Commit
  <2>3. CASE DOMAIN tx[c].lessons = {}
    BY <2>1, <2>2, <2>3 DEF Apply
  <2>4. ASSUME NEW l \in DOMAIN tx[c].lessons
        PROVE  \E m \in Lessons : \A k \in Lessons \ {m} : lessons'[k] = lessons[k]
    <3>1. l \in Lessons /\ DOMAIN tx[c].lessons = {l}
      BY <2>1 DEF Protected, TxType
    <3>2. QED
      BY <2>1, <2>2, <3>1 DEF Apply
  <2>5. QED
    BY <2>3, <2>4
<1>2. ASSUME NEW c \in Clients, CancelLesson(c)
      PROVE  \/ lessons' = lessons
             \/ \E l \in Lessons : \A k \in Lessons \ {l} : lessons'[k] = lessons[k]
  <2>1. req[c] \in Requests /\ req[c].lesson \in Lessons
    BY <1>2, RequestShape DEF CancelLesson, CancelRequests, OverlapInv, TypeInv
  <2>2. QED
    BY <1>2, <2>1 DEF CancelLesson, Rejected, OverlapInv, TypeInv, TypeOK
<1>3. ASSUME NEW c \in Clients, LessonStep(c), ~ CancelLesson(c)
      PROVE  lessons' = lessons
  BY <1>3 DEF LessonStep, ReadBooking, BookLesson, BookOwnLesson, UpdateLesson,
              ReadLessonToCancel, Ready, Rejected, Begin
<1>4. ASSUME NEW c \in Clients, EventStep(c)
      PROVE  lessons' = lessons
  BY <1>4 DEF EventStep, CreateEvent, ReadEvent, UpdateEvent, ReadEvents, BulkStatus,
              DeleteEvent, AssignStudents, ReplaceStudents, RemoveStudent,
              Ready, Rejected, Begin
<1>5. ASSUME NEW c \in Clients, SerializationConflict(c) \/ Fail(c)
      PROVE  lessons' = lessons
  BY <1>5 DEF SerializationConflict, Fail
<1>6. ASSUME NEW c \in Clients, NEW q \in Requests, Submit(c, q)
      PROVE  lessons' = lessons
  BY <1>6 DEF Submit
<1>7. Tick \/ UNCHANGED vars => lessons' = lessons
  BY DEF Tick, vars
<1>8. QED
  BY <1>1, <1>2, <1>3, <1>4, <1>5, <1>6, <1>7 DEF Next, Step

\* Lessons implement the reservations of the abstract specification.
THEOREM Refinement == Spec => LessonsAreReservations
<1>1. Init => Promise!Init
  <2> SUFFICES ASSUME Init PROVE LessonsHeld = {}
    BY DEF Promise!Init
  <2>1. \A l \in Lessons : ~ Exists(lessons[l])
    BY DEF Init, Exists
  <2>2. QED
    BY <2>1, HeldShape
<1>2. OverlapInv /\ [Next]_vars => [Promise!Next]_LessonsHeld
  <2> SUFFICES ASSUME OverlapInv, [Next]_vars PROVE [Promise!Next]_LessonsHeld
    OBVIOUS
  <2>1. OverlapInv'
    BY OverlapStep
  <2>2. CASE lessons' = lessons
    BY <2>2 DEF LessonsHeld, LessonHolds, LiveLesson
  <2>3. ASSUME NEW l \in Lessons, \A k \in Lessons \ {l} : lessons'[k] = lessons[k]
        PROVE  Promise!Next
    <3>1. Promise!Consistent'
      BY <2>1, HeldConsistent, PTL DEF OverlapInv
    <3>2. ASSUME NEW h \in (LessonsHeld' \ LessonsHeld) \cup (LessonsHeld \ LessonsHeld')
          PROVE  h.owner = l
      <4>1. h \in LessonsHeld' <=>
              \E k \in Lessons : /\ Exists(lessons'[k])
                                 /\ h \in [owner : {k}, res : LessonHolds(lessons'[k]),
                                           win : {lessons'[k].win}]
        BY DEF LessonsHeld, LessonHolds, LiveLesson
      <4>2. ASSUME NEW k \in Lessons \ {l},
                   \/ h \in [owner : {k}, res : LessonHolds(lessons[k]), win : {lessons[k].win}]
                      /\ Exists(lessons[k])
                   \/ h \in [owner : {k}, res : LessonHolds(lessons'[k]), win : {lessons'[k].win}]
                      /\ Exists(lessons'[k])
            PROVE  h \in LessonsHeld /\ h \in LessonsHeld'
        BY <2>3, <4>1, <4>2, HeldShape
      <4>3. h \in [owner : {l}, res : LessonHolds(lessons[l]), win : {lessons[l].win}]
            \/ h \in [owner : {l}, res : LessonHolds(lessons'[l]), win : {lessons'[l].win}]
        BY <3>2, <4>1, <4>2, HeldShape
      <4>4. QED
        BY <4>3
    <3>3. Promise!Change(l)
      BY <3>1, <3>2 DEF Promise!Change
    <3>4. QED
      BY <3>3 DEF Promise!Next
  <2>4. QED
    BY <2>2, <2>3, OneLesson
<1>3. QED
  BY InitOverlap, OverlapStep, <1>1, <1>2, PTL DEF Spec, LessonsAreReservations, Promise!Spec

(***************************************************************************)
(* What a step of a handler leaves alone.  The invariants below speak of   *)
(* open transactions and of the tables, so it is enough to know who opens  *)
(* one, and which steps write a table.                                     *)
(***************************************************************************)
ClientStep(c) == (\E q \in Requests : Submit(c, q)) \/ Step(c) \/ Fail(c)

Others(c) ==
  \A d \in Clients \ {c} :
    /\ req'[d] = req[d] /\ phase'[d] = phase[d] /\ prep'[d] = prep[d] /\ tx'[d] = tx[d]
    /\ since[d] \subseteq since'[d]

LEMMA AnswerOthers ==
  ASSUME TypeInv, NEW c \in Clients, Answer(c),
         \A d \in Clients \ {c} : since[d] \subseteq since'[d]
  PROVE  Others(c) /\ phase'[c] = "idle" /\ req'[c] = None
BY DEF TypeInv, TypeOK, Answer, Others

LEMMA RejectedOthers ==
  ASSUME TypeInv, NEW c \in Clients, Rejected(c)
  PROVE  Others(c) /\ phase'[c] = "idle" /\ req'[c] = None
BY AnswerOthers DEF Rejected

LEMMA PublishedOthers ==
  ASSUME TypeInv, NEW c \in Clients, NEW f, Publish(f, c), Answer(c)
  PROVE  /\ Others(c) /\ phase'[c] = "idle" /\ req'[c] = None
         /\ \A d \in Clients \ {c} : phase[d] = "open" => f \in since'[d]
<1>1. \A d \in Clients \ {c} : /\ since[d] \subseteq since'[d]
                               /\ phase[d] = "open" => f \in since'[d]
  BY DEF Publish
<1>2. QED
  BY <1>1, AnswerOthers

LEMMA BeginOthers ==
  ASSUME TypeInv, NEW c \in Clients, NEW t, Begin(c, t)
  PROVE  Others(c) /\ tx'[c] = t /\ UNCHANGED <<req, prep, lessons, events, seats, touched>>
BY DEF TypeInv, TypeOK, Begin, Others

LEMMA ReadyOthers ==
  ASSUME TypeInv, NEW c \in Clients, NEW x, Ready(c, x)
  PROVE  Others(c) /\ phase'[c] = "ready" /\ prep'[c] = x /\ UNCHANGED <<req, lessons, events, seats, touched>>
BY DEF TypeInv, TypeOK, Ready, Others

\* The ways a handler steps.
Opens(c) == \E t : Begin(c, t)
Prepares(c) == phase[c] = "received" /\ \E x : Ready(c, x)
Retries(c) ==
  /\ phase[c] = "open" /\ phase' = [phase EXCEPT ![c] = "ready"]
  /\ tx' = [tx EXCEPT ![c] = Idle] /\ since' = [since EXCEPT ![c] = {}]
  /\ UNCHANGED <<Tables, req, prep>>
Ends(c) ==
  /\ Answer(c) /\ UNCHANGED Tables
  /\ \A d \in Clients \ {c} : since[d] \subseteq since'[d]
States(c) == CancelLesson(c) \/ DeleteEvent(c) \/ RemoveStudent(c)

LEMMA Ways ==
  ASSUME TypeInv, NEW c \in Clients, ClientStep(c)
  PROVE  \/ \E q \in Requests : Submit(c, q)
         \/ (BookLesson(c) \/ BookOwnLesson(c) \/ UpdateLesson(c) \/ CreateEvent(c)
               \/ UpdateEvent(c) \/ BulkStatus(c) \/ AssignStudents(c) \/ ReplaceStudents(c))
            /\ Opens(c)
         \/ (ReadBooking(c) \/ ReadLessonToCancel(c) \/ ReadEvent(c) \/ ReadEvents(c))
            /\ Prepares(c)
         \/ Retries(c)
         \/ Ends(c)
         \/ States(c) /\ ~ Rejected(c)
         \/ Commit(c)
<1>1. Rejected(c) => Ends(c)
  BY DEF Rejected, Ends
<1>2. CASE Fail(c)
  BY <1>2 DEF Fail, Ends, TypeInv
<1>3. CASE SerializationConflict(c)
  BY <1>3 DEF SerializationConflict, Ends, Retries, TypeInv
<1>4. CASE ReadBooking(c) \/ ReadLessonToCancel(c) \/ ReadEvent(c) \/ ReadEvents(c)
  BY <1>1, <1>4 DEF ReadBooking, ReadLessonToCancel, ReadEvent, ReadEvents, Prepares
<1>5. CASE BookLesson(c) \/ BookOwnLesson(c) \/ UpdateLesson(c) \/ CreateEvent(c)
  BY <1>1, <1>5 DEF BookLesson, BookOwnLesson, UpdateLesson, CreateEvent, Opens
<1>6. CASE BulkStatus(c) \/ AssignStudents(c) \/ ReplaceStudents(c)
  BY <1>1, <1>6 DEF BulkStatus, AssignStudents, ReplaceStudents, Opens
<1>7. CASE UpdateEvent(c)
  BY <1>1, <1>7 DEF UpdateEvent, Opens
<1>8. QED
  BY <1>1, <1>2, <1>3, <1>4, <1>5, <1>6, <1>7 DEF ClientStep, Step, LessonStep, EventStep, States

\* Whatever a handler does, the others are where they were.
LEMMA OthersStep ==
  ASSUME TypeInv, NEW c \in Clients, ClientStep(c)
  PROVE  Others(c)
<1>1. ASSUME NEW q \in Requests, Submit(c, q) PROVE Others(c)
  BY <1>1 DEF Submit, Others, TypeInv, TypeOK
<1>2. CASE Opens(c)
  BY <1>2, BeginOthers DEF Opens
<1>3. CASE Prepares(c)
  BY <1>3, ReadyOthers DEF Prepares
<1>4. CASE Retries(c)
  BY <1>4 DEF Retries, Others, TypeInv, TypeOK
<1>5. CASE Ends(c)
  BY <1>5, AnswerOthers DEF Ends
<1>6. CASE States(c) /\ ~ Rejected(c)
  BY <1>6, PublishedOthers DEF States, CancelLesson, DeleteEvent, RemoveStudent
<1>7. CASE Commit(c)
  BY <1>7, PublishedOthers DEF Commit
<1>8. QED
  BY <1>1, <1>2, <1>3, <1>4, <1>5, <1>6, <1>7, Ways

\* A transaction that was bound to abort still is, and so is one that writes a row
\* somebody else has just written.
LEMMA AbortStays ==
  ASSUME NEW d, tx'[d] = tx[d], since[d] \subseteq since'[d], MustAbort(d)
  PROVE  MustAbort(d)'
BY DEF MustAbort

LEMMA RowsAbort ==
  ASSUME NEW d, tx'[d] = tx[d], NEW f \in since'[d], NEW x \in f.rows, x \in Rows(tx[d])
  PROVE  MustAbort(d)'
BY DEF MustAbort

(***************************************************************************)
(* What happens to a lesson that is there.  A booking under way has an id  *)
(* of its own, and a move is bound to abort as soon as the lesson is not   *)
(* what its user, and its transaction, saw.                                *)
(***************************************************************************)
Bookings == {"bookLesson", "bookOwnLesson"}
IdsFresh ==
  \A c \in Clients : req[c] # None /\ req[c].op \in Bookings =>
    /\ lessons[req[c].lesson] = None
    /\ \A d \in Clients \ {c} : req[d] # None /\ req[d].op \in Bookings
                                  => req[d].lesson # req[c].lesson

Informed(c, l) ==
  /\ lessons[l].status = "SCHEDULED"
  /\ tx[c].lessons[l].instructor # lessons[l].instructor =>
       /\ prep[c].instructor = lessons[l].instructor
       /\ prep[c].vehicle = lessons[l].vehicle
       /\ prep[c].win = lessons[l].win
Landing(c) ==
  \A l \in DOMAIN tx[c].lessons :
    /\ l = req[c].lesson
    /\ \/ req[c].op \in Bookings
       \/ /\ req[c].op = "updateLesson" /\ Exists(lessons[l])
          /\ MustAbort(c) \/ Informed(c, l)
LandInv == TypeInv /\ IdsFresh /\ \A c \in Clients : Open(c) => Landing(c)

\* The step of c that writes row into lesson l.
Lands(c, l, row) ==
  /\ lessons' = [lessons EXCEPT ![l] = row]
  /\ l = req[c].lesson /\ req[c] # None /\ req'[c] = None /\ phase'[c] = "idle"
  /\ \/ /\ Commit(c) /\ ~ MustAbort(c) /\ phase[c] = "open"
        /\ DOMAIN tx[c].lessons = {l} /\ row = tx[c].lessons[l]
     \/ /\ CancelLesson(c) /\ Publish(Statement({l}), c)
        /\ Exists(lessons[l]) /\ lessons[l].status = "SCHEDULED"
        /\ row = [lessons[l] EXCEPT !.status = "CANCELLED"]
  /\ \A d \in Clients \ {c} :
       phase[d] = "open" /\ l \in DOMAIN tx[d].lessons => MustAbort(d)'

LEMMA LessonWritten ==
  ASSUME LandInv, NEW c \in Clients, ClientStep(c), lessons' # lessons
  PROVE  \E l \in Lessons : \E row \in LessonRow : Lands(c, l, row)
<1>0. TypeInv /\ lessons \in [Lessons -> LessonRow \cup {None}]
      /\ (phase[c] # "idle" => req[c] \in Requests /\ req[c] # None)
  BY NoneAssumption, RequestAssumption DEF LandInv, TypeInv, TypeOK
<1>1. CASE CancelLesson(c)
  <2> DEFINE l == req[c].lesson
             row == [lessons[l] EXCEPT !.status = "CANCELLED"]
  <2>1. /\ Cancellable(lessons[l], prep[c].time)
        /\ lessons' = [lessons EXCEPT ![l].status = "CANCELLED"]
        /\ Publish(Statement({l}), c) /\ Answer(c)
    BY <1>1 DEF CancelLesson, Rejected
  <2>2. l \in Lessons /\ req[c] # None
    BY <1>0, <1>1, RequestShape DEF CancelLesson, CancelRequests
  <2>3. lessons[l] \in LessonRow /\ lessons[l].status = "SCHEDULED"
    BY <1>0, <2>1, <2>2 DEF Cancellable, Exists
  <2>4. row \in LessonRow
    BY <2>3 DEF LessonRow
  <2>5. Others(c) /\ phase'[c] = "idle" /\ req'[c] = None
        /\ \A d \in Clients \ {c} : phase[d] = "open" => Statement({l}) \in since'[d]
    BY <1>0, <2>1, PublishedOthers
  <2>6. \A d \in Clients \ {c} :
          phase[d] = "open" /\ l \in DOMAIN tx[d].lessons => MustAbort(d)'
    BY <2>5, RowsAbort DEF Others, Statement, Rows
  <2>7. Lands(c, l, row)
    BY <1>1, <2>1, <2>2, <2>3, <2>5, <2>6 DEF Lands, Cancellable
  <2>8. QED
    BY <2>2, <2>4, <2>7
<1>2. CASE Commit(c)
  <2> DEFINE t == tx[c]
             f == Footprint(t)
  <2>1. /\ phase[c] = "open" /\ ~ MustAbort(c) /\ Answer(c)
        /\ lessons' = Apply(lessons, t.lessons) /\ Publish(f, c)
    BY <1>2 DEF Commit
  <2>2. TxType(t) /\ Landing(c)
    BY <2>1 DEF LandInv, TypeInv, TypeOK
  <2>3. DOMAIN t.lessons # {}
    BY <1>0, <2>1 DEF Apply
  <2>4. PICK l \in Lessons : l = req[c].lesson /\ DOMAIN t.lessons = {l} /\ t.lessons[l] \in LessonRow
    BY <2>2, <2>3 DEF TxType, Landing
  <2>5. lessons' = [lessons EXCEPT ![l] = t.lessons[l]]
    BY <1>0, <2>1, <2>4 DEF Apply
  <2>6. Others(c) /\ phase'[c] = "idle" /\ req'[c] = None
        /\ \A d \in Clients \ {c} : phase[d] = "open" => f \in since'[d]
    BY <1>0, <2>1, PublishedOthers
  <2>7. \A d \in Clients \ {c} :
          phase[d] = "open" /\ l \in DOMAIN tx[d].lessons => MustAbort(d)'
    BY <2>4, <2>6, RowsAbort DEF Others, Footprint, Rows
  <2>8. Lands(c, l, t.lessons[l])
    BY <1>0, <1>2, <2>1, <2>4, <2>5, <2>6, <2>7 DEF Lands
  <2>9. QED
    BY <2>4, <2>8
<1>3. CASE \E q \in Requests : Submit(c, q)
  BY <1>3 DEF Submit
<1>4. CASE Opens(c) \/ Prepares(c) \/ Retries(c) \/ Ends(c) \/ DeleteEvent(c) \/ RemoveStudent(c)
  BY <1>4 DEF Opens, Begin, Prepares, Ready, Retries, Ends, DeleteEvent, RemoveStudent, Rejected
<1>5. QED
  BY <1>0, <1>1, <1>2, <1>3, <1>4, Ways DEF States

\* The operations that open a transaction.
Openers(c) ==
  BookLesson(c) \/ BookOwnLesson(c) \/ UpdateLesson(c) \/ CreateEvent(c)
    \/ UpdateEvent(c) \/ BulkStatus(c) \/ AssignStudents(c) \/ ReplaceStudents(c)

LEMMA WhatOpens ==
  ASSUME TypeInv, NEW c \in Clients, ClientStep(c), phase'[c] = "open"
  PROVE  /\ Openers(c) /\ ~ Rejected(c) /\ req[c] \in Requests /\ req[c] # None
         /\ UNCHANGED <<req, prep, lessons, events, seats, touched>>
<1>0. (phase[c] # "idle" => req[c] \in Requests /\ req[c] # None) /\ ~ Rejected(c)
  BY NoneAssumption, RequestAssumption, RejectedOthers DEF TypeInv, TypeOK
<1>1. ASSUME NEW q \in Requests, Submit(c, q) PROVE FALSE
  BY <1>1 DEF Submit, TypeInv, TypeOK
<1>2. ~ (Prepares(c) \/ Retries(c))
  BY ReadyOthers DEF Prepares, Retries, TypeInv, TypeOK
<1>3. ~ Ends(c)
  BY AnswerOthers DEF Ends
<1>4. ~ ((States(c) /\ ~ Rejected(c)) \/ Commit(c))
  BY PublishedOthers DEF States, CancelLesson, DeleteEvent, RemoveStudent, Commit
<1>5. Openers(c) /\ Opens(c)
  BY <1>1, <1>2, <1>3, <1>4, Ways DEF Openers
<1>6. phase[c] = "ready"
  BY <1>5 DEF Openers, BookLesson, BookOwnLesson, UpdateLesson, CreateEvent,
              UpdateEvent, BulkStatus, AssignStudents, ReplaceStudents
<1>7. QED
  BY <1>0, <1>5, <1>6, BeginOthers DEF Opens

LEMMA WhatPrepares ==
  ASSUME TypeInv, NEW c \in Clients, ClientStep(c), Prepares(c)
  PROVE  /\ ReadBooking(c) \/ ReadLessonToCancel(c) \/ ReadEvent(c) \/ ReadEvents(c)
         /\ ~ Rejected(c) /\ UNCHANGED <<req, lessons, events, seats, touched>>
<1>1. /\ phase[c] = "received" /\ phase'[c] = "ready"
      /\ UNCHANGED <<req, lessons, events, seats, touched>>
  BY ReadyOthers DEF Prepares
<1>2. ~ Rejected(c) /\ ~ Ends(c) /\ ~ ((States(c) /\ ~ Rejected(c)) \/ Commit(c))
  BY <1>1, RejectedOthers, AnswerOthers
     DEF Ends, Commit, States, CancelLesson, DeleteEvent, RemoveStudent
<1>3. ~ Retries(c) /\ ~ \E q \in Requests : Submit(c, q)
  BY <1>1 DEF Retries, Submit
<1>4. ~ Openers(c)
  BY <1>1 DEF Openers, BookLesson, BookOwnLesson, UpdateLesson, CreateEvent,
              UpdateEvent, BulkStatus, AssignStudents, ReplaceStudents
<1>5. QED
  BY <1>1, <1>2, <1>3, <1>4, Ways DEF Openers

LEMMA EventsOpenNoLesson ==
  ASSUME TypeInv, NEW c \in Clients, phase'[c] = "open",
         CreateEvent(c) \/ UpdateEvent(c) \/ BulkStatus(c) \/ AssignStudents(c) \/ ReplaceStudents(c)
  PROVE  DOMAIN tx'[c].lessons = {}
<1>1. \A puts, reads : DOMAIN EventTx(puts, reads).lessons = {}
  BY DEF EventTx, Idle, NoRows
<1>2. \A e, add, del, w : DOMAIN SeatTx(e, add, del, w).lessons = {}
  BY DEF SeatTx, Idle, NoRows
<1>3. \E u : Begin(c, u) /\ DOMAIN u.lessons = {}
  BY <1>1, <1>2, RejectedOthers
     DEF CreateEvent, UpdateEvent, BulkStatus, AssignStudents, ReplaceStudents
<1>4. QED
  BY <1>3, BeginOthers

\* Only a transaction that writes the lesson it was asked to writes one at all.
LEMMA OpensLesson ==
  ASSUME LandInv, NEW c \in Clients, ClientStep(c), phase'[c] = "open"
  PROVE  Landing(c)'
<1>0. TypeInv /\ lessons \in [Lessons -> LessonRow \cup {None}] /\ req[c] \in Requests
      /\ Openers(c)
  BY WhatOpens DEF LandInv, TypeInv, TypeOK
<1>1. UNCHANGED <<req, prep, lessons>>
  BY <1>0, WhatOpens
<1>2. \A l, row, reads : /\ DOMAIN LessonTx(l, row, reads).lessons = {l}
                         /\ LessonTx(l, row, reads).lessons[l] = row
  BY DEF LessonTx, Idle, NoRows
<1>3. ~ Rejected(c)
  BY <1>0, WhatOpens
<1>4. CASE BookLesson(c) \/ BookOwnLesson(c)
  <2>1. PICK row, reads : Begin(c, LessonTx(req[c].lesson, row, reads))
    BY <1>3, <1>4 DEF BookLesson, BookOwnLesson
  <2>2. tx'[c] = LessonTx(req[c].lesson, row, reads)
    BY <1>0, <2>1, BeginOthers
  <2>3. req[c].op \in Bookings
    BY <1>4 DEF BookLesson, BookOwnLesson, Bookings
  <2>4. QED
    BY <1>1, <1>2, <2>2, <2>3 DEF Landing
<1>5. CASE UpdateLesson(c)
  <2> DEFINE q == req[c]
             old == lessons[q.lesson]
             new == MergedLesson(q, old)
  <2>1. PICK reads : Begin(c, LessonTx(q.lesson, new, reads))
    BY <1>3, <1>5 DEF UpdateLesson
  <2>2. q \in UpdateLessonRequests /\ q.op = "updateLesson" /\ Editable(old)
        /\ UpdateLessonAllowed(q, prep[c], old, new)
    BY <1>0, <1>3, <1>5, RequestShape DEF UpdateLesson
  <2>3. old \in LessonRow /\ q.lesson \in Lessons
    BY <1>0, <2>2 DEF Editable, Exists, UpdateLessonRequests
  <2>4. new.instructor = Given(q.instructor, old.instructor)
    BY <2>2, <2>3 DEF MergedLesson, LessonRow
  <2>5. new.instructor # old.instructor => SameLesson(prep[c], old)
    BY <2>2, <2>4 DEF Given, UpdateLessonAllowed
  <2> HIDE DEF new
  <2>6. tx'[c] = LessonTx(q.lesson, new, reads)
    BY <1>0, <2>1, BeginOthers
  <2>7. \A l \in DOMAIN tx'[c].lessons : l = q.lesson /\ tx'[c].lessons[l] = new
    BY <1>2, <2>6
  <2>8. \A l \in DOMAIN tx'[c].lessons : Informed(c, l)'
    BY <1>1, <2>2, <2>5, <2>7 DEF Informed, SameLesson, Editable
  <2>9. QED
    BY <1>1, <2>2, <2>7, <2>8 DEF Landing, Editable, Exists
<1>6. CASE CreateEvent(c) \/ UpdateEvent(c) \/ BulkStatus(c) \/ AssignStudents(c) \/ ReplaceStudents(c)
  BY <1>0, <1>6, EventsOpenNoLesson DEF Landing
<1>7. QED
  BY <1>0, <1>4, <1>5, <1>6 DEF Openers

\* The ids of bookings under way stay apart, and unused until they land.
LEMMA IdsStep ==
  ASSUME LandInv, NEW c \in Clients, ClientStep(c)
  PROVE  IdsFresh'
<1>0. TypeInv /\ IdsFresh /\ Others(c) /\ lessons \in [Lessons -> LessonRow \cup {None}]
  BY OthersStep DEF LandInv, TypeInv, TypeOK
<1>1. req'[c] = req[c] \/ req'[c] = None \/ \E q \in Requests : Submit(c, q)
  <2>1. CASE Opens(c)
    BY <1>0, <2>1, BeginOthers DEF Opens
  <2>2. CASE Prepares(c)
    BY <1>0, <2>2, ReadyOthers DEF Prepares
  <2>3. CASE Retries(c)
    BY <2>3 DEF Retries
  <2>4. CASE Ends(c)
    BY <1>0, <2>4, AnswerOthers DEF Ends
  <2>5. CASE (States(c) /\ ~ Rejected(c)) \/ Commit(c)
    BY <1>0, <2>5, PublishedOthers DEF States, CancelLesson, DeleteEvent, RemoveStudent, Commit
  <2>6. QED
    BY <1>0, <2>1, <2>2, <2>3, <2>4, <2>5, Ways
<1>2. CASE lessons' # lessons
  <2>1. PICK l \in Lessons : \E row \in LessonRow : Lands(c, l, row)
    BY <1>2, LessonWritten
  <2>2. PICK row \in LessonRow : Lands(c, l, row)
    BY <2>1
  <2>3. /\ lessons' = [lessons EXCEPT ![l] = row] /\ req'[c] = None
        /\ l = req[c].lesson /\ req[c] # None
        /\ req[c].op \in Bookings \/ lessons[l] # None
    <3>1. CASE phase[c] = "open" /\ DOMAIN tx[c].lessons = {l}
      BY <2>2, <3>1 DEF Lands, LandInv, Landing, Exists
    <3>2. QED
      BY <2>2, <3>1 DEF Lands, Exists
  <2>4. ASSUME NEW d \in Clients \ {c}, req[d] # None, req[d].op \in Bookings
        PROVE  req[d].lesson # l
    BY <1>0, <2>3, <2>4 DEF IdsFresh
  <2>5. QED
    BY <1>0, <2>3, <2>4 DEF IdsFresh, Others
<1>3. CASE lessons' = lessons /\ (req'[c] = req[c] \/ req'[c] = None)
  BY <1>0, <1>3 DEF IdsFresh, Others
<1>4. ASSUME NEW q \in Requests, Submit(c, q)
      PROVE  IdsFresh'
  <2>1. FreshId(q) /\ req'[c] = q /\ lessons' = lessons
    BY <1>0, <1>4 DEF Submit, TypeInv, TypeOK
  <2>2. q.op \in Bookings =>
          /\ lessons[q.lesson] = None
          /\ \A d \in Clients : req[d] # None /\ req[d].op \in Bookings
                                  => req[d].lesson # q.lesson
    BY <2>1 DEF FreshId, Bookings
  <2>3. QED
    BY <1>0, <2>1, <2>2 DEF IdsFresh, Others
<1>5. QED
  BY <1>1, <1>2, <1>3, <1>4

LEMMA LandStep == LandInv /\ [Next]_vars => LandInv'
<1> SUFFICES ASSUME LandInv, [Next]_vars PROVE LandInv'
  OBVIOUS
<1>1. TypeInv /\ TypeInv'
  BY TypeStep DEF LandInv
<1>2. CASE UNCHANGED <<lessons, req, phase, prep, tx, since>>
  BY <1>1, <1>2 DEF LandInv, IdsFresh, Landing, Informed, MustAbort, Exists
<1>3. ASSUME NEW c \in Clients, ClientStep(c), NEW d \in Clients \ {c}, phase'[d] = "open"
      PROVE  Landing(d)'
  <2>1. Others(c)
    BY <1>1, <1>3, OthersStep
  <2>2. /\ phase[d] = "open" /\ tx'[d] = tx[d] /\ req'[d] = req[d] /\ prep'[d] = prep[d]
        /\ since[d] \subseteq since'[d]
    BY <1>3, <2>1 DEF Others
  <2>3. Landing(d) /\ (MustAbort(d) => MustAbort(d)')
    BY <2>2, AbortStays DEF LandInv
  <2>4. CASE lessons' = lessons
    BY <2>2, <2>3, <2>4 DEF Landing, Informed, Exists
  <2>5. CASE lessons' # lessons
    <3>1. PICK l \in Lessons : \E row \in LessonRow : Lands(c, l, row)
      BY <1>3, <2>5, LessonWritten
    <3>2. PICK row \in LessonRow : Lands(c, l, row)
      BY <3>1
    <3>3. /\ lessons' = [lessons EXCEPT ![l] = row] /\ row # None
          /\ l \in DOMAIN tx[d].lessons => MustAbort(d)'
      BY <2>2, <3>2, NoneAssumption DEF Lands
    <3>4. \A k : k # l \/ l \notin Lessons => lessons'[k] = lessons[k]
      BY <1>1, <3>3 DEF TypeInv, TypeOK
    <3>5. lessons'[l] = row
      BY <1>1, <3>3 DEF TypeInv, TypeOK
    <3>6. QED
      BY <2>2, <2>3, <3>3, <3>4, <3>5 DEF Landing, Informed, Exists
  <2>6. QED
    BY <2>4, <2>5
<1>4. ASSUME NEW c \in Clients, ClientStep(c) PROVE LandInv'
  <2>1. phase'[c] = "open" => Landing(c)'
    BY <1>4, OpensLesson
  <2>2. IdsFresh'
    BY <1>4, IdsStep
  <2>3. QED
    BY <1>1, <1>3, <1>4, <2>1, <2>2 DEF LandInv
<1>5. Tick \/ UNCHANGED vars => UNCHANGED <<lessons, req, phase, prep, tx, since>>
  BY DEF Tick, vars
<1>6. QED
  BY <1>2, <1>4, <1>5 DEF Next, ClientStep

LEMMA InitLand == Init => LandInv
BY InitType DEF Init, LandInv, IdsFresh, Landing

\* What a step does to a lesson that is there.
LEMMA LandedRow ==
  ASSUME LandInv, [Next]_vars, NEW k \in Lessons, Exists(lessons[k]), lessons'[k] # lessons[k]
  PROVE  /\ lessons[k].status = "SCHEDULED"
         /\ lessons'[k].instructor # lessons[k].instructor =>
              \E c \in Clients : /\ req[c] # None /\ req'[c] = None
                                 /\ req[c].op = "updateLesson" /\ req[c].lesson = k
                                 /\ prep[c].instructor = lessons[k].instructor
                                 /\ prep[c].vehicle = lessons[k].vehicle
                                 /\ prep[c].win = lessons[k].win
<1>1. PICK c \in Clients : ClientStep(c)
  BY DEF Next, ClientStep, Tick, vars
<1>2. lessons \in [Lessons -> LessonRow \cup {None}] /\ lessons' # lessons
  BY DEF LandInv, TypeInv, TypeOK
<1>3. PICK l \in Lessons : \E row \in LessonRow : Lands(c, l, row)
  BY <1>1, <1>2, LessonWritten
<1>4. PICK row \in LessonRow : Lands(c, l, row)
  BY <1>3
<1>5. l = k /\ lessons'[k] = row
  BY <1>2, <1>4 DEF Lands
<1>6. CASE phase[c] = "open" /\ ~ MustAbort(c) /\ DOMAIN tx[c].lessons = {l}
           /\ row = tx[c].lessons[l]
  <2>1. Landing(c) /\ req[c] # None /\ req'[c] = None /\ l = req[c].lesson
    BY <1>4, <1>6 DEF LandInv, Lands
  <2>2. req[c].op \notin Bookings
    BY <1>5, <2>1 DEF LandInv, IdsFresh, Exists
  <2>3. req[c].op = "updateLesson" /\ Informed(c, l)
    BY <1>6, <2>1, <2>2 DEF Landing
  <2>4. QED
    BY <1>5, <1>6, <2>1, <2>3 DEF Informed
<1>7. CASE /\ lessons[l].status = "SCHEDULED" /\ Exists(lessons[l])
           /\ row = [lessons[l] EXCEPT !.status = "CANCELLED"]
  <2>1. lessons[l] \in LessonRow
    BY <1>2, <1>7 DEF Exists
  <2>2. row.instructor = lessons[l].instructor
    BY <1>7, <2>1 DEF LessonRow
  <2>3. QED
    BY <1>5, <1>7, <2>2
<1>8. QED
  BY <1>4, <1>6, <1>7 DEF Lands

\* No step changes the row of a cancelled lesson: a move that raced the cancellation
\* has to abort (cancelLessonForOwner's conditional update, updateLesson).
THEOREM CancelledStays == Spec => CancelledIsFinal
<1>1. LandInv /\ [Next]_vars =>
        [\A l \in Lessons : Exists(lessons[l]) /\ lessons[l].status = "CANCELLED"
                              => lessons'[l] = lessons[l]]_vars
  BY LandedRow
<1>2. QED
  BY InitLand, LandStep, <1>1, PTL DEF Spec, CancelledIsFinal

\* Whoever changes the instructor of a lesson saw it as it is at that very moment
\* (expectedLessonState in updateLesson).
THEOREM NoBlindReassignment == Spec => InstructorChangeIsInformed
<1>1. LandInv /\ [Next]_vars =>
        [\A l \in Lessons :
           Exists(lessons[l]) /\ lessons'[l].instructor # lessons[l].instructor =>
             \E c \in Clients : /\ req[c] # None /\ req'[c] = None
                                /\ req[c].op = "updateLesson" /\ req[c].lesson = l
                                /\ prep[c].instructor = lessons[l].instructor
                                /\ prep[c].vehicle = lessons[l].vehicle
                                /\ prep[c].win = lessons[l].win]_vars
  BY LandedRow
<1>2. QED
  BY InitLand, LandStep, <1>1, PTL DEF Spec, InstructorChangeIsInformed

(***************************************************************************)
(* Packages.  A transaction that will put row r in lesson l has found that *)
(* the other lessons of the student leave room for it, unless r takes from *)
(* the package what l takes already; and whoever books on the same package *)
(* meanwhile dooms it.                                                     *)
(***************************************************************************)
PackageClaim(r) == [res |-> <<r.course, r.student>>, win |-> AllDay]
InPackage(l, r) ==
  /\ LiveLesson(lessons[l]) /\ lessons[l].win = r.win
  /\ lessons[l].course = r.course /\ lessons[l].student = r.student
FitsPackage(l, r) ==
  Cardinality(Booked(r.course, r.student, l)) + Minutes(r.win) <= TotalMinutes[r.course]
Paid(c) ==
  \A l \in DOMAIN tx[c].lessons :
    LET r == tx[c].lessons[l] IN
    TotalMinutes[r.course] # None =>
      /\ PackageClaim(r) \in tx[c].writes
      /\ \/ MustAbort(c)
         \/ InPackage(l, r)
         \/ PackageClaim(r) \in tx[c].reads /\ FitsPackage(l, r)
PaidInv == LandInv /\ PackageWithinLimit /\ \A c \in Clients : Open(c) => Paid(c)

\* The minutes a window takes from a package.
Taken(w) == 1 .. Minutes(w)

LEMMA WindowShape ==
  ASSUME NEW w \in Windows
  PROVE  w.from \in Nat /\ w.to \in Nat /\ w.from < w.to /\ w.to <= Horizon
BY HorizonAssumption DEF Windows, Ticks

\* Division with remainder, and that its result is the only one.
LEMMA Division ==
  ASSUME NEW m \in Nat \ {0}, NEW t \in Int
  PROVE  /\ t % m \in 0..(m - 1) /\ t \div m \in Int
         /\ t = m * (t \div m) + (t % m)
OBVIOUS

LEMMA NextMultiple ==
  ASSUME NEW m \in Nat \ {0}, NEW p \in Int, NEW q \in Int, p < q
  PROVE  m * p + m <= m * q
<1>1. q - p >= 1
  OBVIOUS
<1>2. m * (q - p) >= m
  BY <1>1
<1>3. QED
  BY <1>2

LEMMA OneDivision ==
  ASSUME NEW m \in Nat \ {0}, NEW t \in Int, NEW q \in Int, NEW r \in 0..(m - 1),
         t = m * q + r
  PROVE  t % m = r /\ t \div m = q
<1> DEFINE p == t \div m
<1>1. p \in Int /\ t % m \in 0..(m - 1) /\ t = m * p + (t % m)
  BY Division
<1> HIDE DEF p
<1>2. ~ p < q
  <2> SUFFICES ASSUME p < q PROVE FALSE
    OBVIOUS
  <2>1. m * p + m <= m * q
    BY <1>1, NextMultiple
  <2>2. QED
    BY <1>1, <2>1
<1>3. ~ q < p
  <2> SUFFICES ASSUME q < p PROVE FALSE
    OBVIOUS
  <2>1. m * q + m <= m * p
    BY <1>1, NextMultiple
  <2>2. QED
    BY <1>1, <2>1
<1>4. p = q
  BY <1>1, <1>2, <1>3
<1>5. QED
  BY <1>1, <1>4 DEF p

\* A window counts as no more minutes than it has ticks.
LEMMA MinutesType ==
  ASSUME NEW w \in Windows
  PROVE  Minutes(w) \in Nat /\ Minutes(w) <= Length(w) /\ Length(w) \in Nat
<1> DEFINE n == Length(w)
           m == 2 * Minute
           d == (2 * n + Minute) \div m
<1>1. n \in Nat /\ m \in Nat \ {0} /\ Minute \in Nat \ {0} /\ 2 * n + Minute \in Int
  BY WindowShape, MinuteAssumption DEF Length
<1>2. Minutes(w) = d
  BY DEF Minutes
<1> HIDE DEF n
<1>3. PICK r \in 0..(m - 1) : d \in Int /\ 2 * n + Minute = m * d + r
  <2> HIDE DEF m
  <2>1. QED
    BY <1>1, Division
<1> HIDE DEF d
<1>4. d >= 0
  <2> SUFFICES ASSUME d < 0 PROVE FALSE
    BY <1>3
  <2>1. m * d + m <= m * 0
    BY <1>1, <1>3, NextMultiple
  <2>2. QED
    BY <1>1, <1>3, <2>1
<1>5. d <= n
  <2> SUFFICES ASSUME n < d PROVE FALSE
    BY <1>1, <1>3
  <2>1. m * n + m <= m * d
    BY <1>1, <1>3, NextMultiple
  <2>2. Minute * n >= n
    BY <1>1
  <2>3. m * n = 2 * (Minute * n)
    BY <1>1
  <2>4. QED
    BY <1>1, <1>3, <2>1, <2>2, <2>3
<1>6. QED
  BY <1>1, <1>2, <1>3, <1>4, <1>5 DEF n

LEMMA BookedFinite ==
  ASSUME NEW k, NEW s, NEW self
  PROVE  /\ IsFiniteSet(Booked(k, s, self)) /\ Cardinality(Booked(k, s, self)) \in Nat
         /\ \A T \in SUBSET Booked(k, s, self) :
              IsFiniteSet(T) /\ Cardinality(T) <= Cardinality(Booked(k, s, self))
<1>1. IsFiniteSet(Ticks) /\ IsFiniteSet(Lessons \ {self})
  BY HorizonAssumption, RowAssumption, FS_Interval, FS_Subset DEF Ticks
<1>2. IsFiniteSet((Lessons \ {self}) \X Ticks)
  BY <1>1, FS_Product
<1>3. Booked(k, s, self) \subseteq (Lessons \ {self}) \X Ticks
  BY DEF Booked, CountsIn
<1>4. IsFiniteSet(Booked(k, s, self))
  BY <1>2, <1>3, FS_Subset
<1>5. QED
  BY <1>4, FS_CardinalityType, FS_Subset

\* A row takes the minutes its window counts as.
LEMMA RowTakes ==
  ASSUME NEW l, NEW w \in Windows
  PROVE  IsFiniteSet({l} \X Taken(w)) /\ Cardinality({l} \X Taken(w)) = Minutes(w)
<1> DEFINE n == Minutes(w)
<1>1. n \in Nat
  BY MinutesType
<1> HIDE DEF n
<1>2. IsFiniteSet(1 .. n) /\ Cardinality(1 .. n) = n
  <2>1. Cardinality(1 .. n) = IF 1 > n THEN 0 ELSE n - 1 + 1
    BY <1>1, FS_Interval
  <2>2. QED
    BY <1>1, <2>1, FS_Interval
<1>3. IsFiniteSet({l}) /\ Cardinality({l}) = 1
  BY FS_Singleton
<1>4. /\ IsFiniteSet({l} \X (1 .. n))
      /\ Cardinality({l} \X (1 .. n)) = Cardinality({l}) * Cardinality(1 .. n)
  BY <1>2, <1>3, FS_Product
<1>5. QED
  BY <1>1, <1>2, <1>3, <1>4 DEF n, Taken

\* What is booked without l is part of what is booked.
LEMMA BookedWithout ==
  ASSUME NEW k, NEW s, NEW l
  PROVE  Booked(k, s, l) \subseteq Booked(k, s, None)
BY NoneAssumption DEF Booked, CountsIn

\* When one lesson is written, a package can only grow by that lesson.
LEMMA BookedGrows ==
  ASSUME TypeInv, NEW l \in Lessons, NEW row \in LessonRow,
         lessons' = [lessons EXCEPT ![l] = row], NEW k, NEW s
  PROVE  /\ Booked(k, s, l)' = Booked(k, s, l)
         /\ Booked(k, s, None)' \subseteq Booked(k, s, l) \cup ({l} \X Taken(row.win))
         /\ ~ LiveLesson(row) \/ row.course # k \/ row.student # s \/ InPackage(l, row)
              => \A m : Booked(k, s, m)' \subseteq Booked(k, s, m)
<1>1. /\ lessons'[l] = row /\ row # None
      /\ \A m \in Lessons \ {l} : lessons'[m] = lessons[m]
  BY NoneAssumption DEF TypeInv, TypeOK
<1>2. row.win \in Windows
  BY DEF LessonRow
<1>3. Booked(k, s, l)' = Booked(k, s, l)
  BY <1>1 DEF Booked, CountsIn, LiveLesson, Exists
<1>4. ASSUME NEW b \in Booked(k, s, None)'
      PROVE  b \in Booked(k, s, l) \cup ({l} \X Taken(row.win))
  <2>1. /\ b \in Lessons \X Ticks /\ LiveLesson(lessons'[b[1]])
        /\ lessons'[b[1]].course = k /\ lessons'[b[1]].student = s
        /\ b[2] \in 1 .. Minutes(lessons'[b[1]].win)
    BY <1>4 DEF Booked, CountsIn, LiveLesson, Exists
  <2>2. b = <<b[1], b[2]>> /\ b[2] \in Nat
    BY <2>1, HorizonAssumption DEF Ticks
  <2>3. CASE b[1] = l
    <3>1. b[2] \in Taken(row.win)
      BY <1>1, <1>2, <2>1, <2>2, <2>3 DEF Taken
    <3>2. QED
      BY <2>2, <2>3, <3>1
  <2>4. CASE b[1] # l
    BY <1>1, <2>1, <2>4 DEF Booked, CountsIn
  <2>5. QED
    BY <2>3, <2>4
<1>5. ASSUME NEW m,
             ~ LiveLesson(row) \/ row.course # k \/ row.student # s \/ InPackage(l, row),
             NEW b \in Booked(k, s, m)'
      PROVE  b \in Booked(k, s, m)
  <2>1. /\ b \in (Lessons \ {m}) \X Ticks /\ LiveLesson(lessons'[b[1]])
        /\ lessons'[b[1]].course = k /\ lessons'[b[1]].student = s
        /\ b[2] \in 1 .. Minutes(lessons'[b[1]].win)
    BY <1>5 DEF Booked, CountsIn, LiveLesson, Exists
  <2>2. CASE b[1] = l
    <3>1. InPackage(l, row)
      BY <1>1, <1>5, <2>1, <2>2
    <3>2. QED
      BY <1>1, <2>1, <2>2, <3>1 DEF Booked, CountsIn, InPackage
  <2>3. CASE b[1] # l
    BY <1>1, <2>1, <2>3 DEF Booked, CountsIn
  <2>4. QED
    BY <2>2, <2>3
<1>6. QED
  BY <1>3, <1>4, <1>5

\* The step of a transaction that writes a lesson pays for it.
LEMMA OpensPaid ==
  ASSUME PaidInv, NEW c \in Clients, ClientStep(c), phase'[c] = "open"
  PROVE  Paid(c)'
<1>0. TypeInv /\ lessons \in [Lessons -> LessonRow \cup {None}]
  BY DEF PaidInv, LandInv, TypeInv, TypeOK
<1>1. Openers(c) /\ ~ Rejected(c) /\ req[c] \in Requests
  BY <1>0, WhatOpens
<1>2. ASSUME NEW l \in Lessons, NEW row \in LessonRow, NEW reads, Begin(c, LessonTx(l, row, reads)),
             \/ InPackage(l, row)
             \/ LessonReads(row) \subseteq reads /\ LessonWindowAvailable(row, None)
             \/ LessonReads(row) \subseteq reads /\ LessonWindowAvailable(row, l)
      PROVE  Paid(c)'
  <2> DEFINE t == LessonTx(l, row, reads)
  <2>1. /\ DOMAIN t.lessons = {l} /\ t.lessons[l] = row /\ t.reads = reads
        /\ PackageClaim(row) \in t.writes
    BY DEF LessonTx, Idle, NoRows, PackageOf, Claims, PackageClaim
  <2>2. tx'[c] = t /\ lessons' = lessons
    BY <1>0, <1>2, BeginOthers
  <2>3. CASE InPackage(l, row)
    <3>1. InPackage(l, row)'
      BY <2>2, <2>3 DEF InPackage, LiveLesson, Exists
    <3>2. QED
      BY <2>1, <2>2, <3>1 DEF Paid
  <2>4. CASE /\ LessonReads(row) \subseteq reads /\ TotalMinutes[row.course] # None
             /\ LessonWindowAvailable(row, None) \/ LessonWindowAvailable(row, l)
    <3> DEFINE n(self) == Cardinality(Booked(row.course, row.student, self))
    <3>1. PackageClaim(row) \in reads
      BY <2>4 DEF LessonReads, PackageOf, Claims, PackageClaim
    <3>2. n(l) \in Nat /\ n(None) \in Nat /\ n(l) <= n(None)
      BY BookedFinite, BookedWithout
    <3>3. TotalMinutes[row.course] \in Nat /\ Minutes(row.win) \in Int
      BY <2>4, PackageAssumption, MinutesType DEF LessonRow, Null
    <3>4. \/ Minutes(row.win) <= TotalMinutes[row.course] - n(None)
          \/ Minutes(row.win) <= TotalMinutes[row.course] - n(l)
      BY <2>4, <3>2, <3>3 DEF LessonWindowAvailable, PackageAllows, Remaining
    <3>5. n(l) + Minutes(row.win) <= TotalMinutes[row.course]
      BY <3>2, <3>3, <3>4
    <3>6. FitsPackage(l, row)'
      BY <2>2, <3>5 DEF FitsPackage, Booked, CountsIn, LiveLesson, Exists
    <3>7. QED
      BY <2>1, <2>2, <3>1, <3>6 DEF Paid
  <2>5. CASE TotalMinutes[row.course] = None
    BY <2>1, <2>2, <2>5 DEF Paid
  <2>6. QED
    BY <1>2, <2>3, <2>4, <2>5
<1>3. CASE BookLesson(c)
  <2> DEFINE q == req[c]
             row == NewLesson(q, q.vehicle)
  <2>1. q \in BookRequests
    BY <1>1, <1>3, RequestShape DEF BookLesson
  <2>2. row \in LessonRow /\ q.lesson \in Lessons
    BY <2>1, NewLessonType DEF BookRequests, NewLesson
  <2>3. /\ LessonWindowAvailable(row, None)
        /\ Begin(c, LessonTx(q.lesson, row, LessonReads(row) \cup VehicleReads(row)))
    BY <1>1, <1>3 DEF BookLesson
  <2>4. QED
    BY <1>2, <2>2, <2>3
<1>4. CASE BookOwnLesson(c)
  <2> DEFINE q == req[c]
  <2>1. q \in BookOwnRequests
    BY <1>1, <1>4, RequestShape DEF BookOwnLesson
  <2>2. PICK v \in Vehicles :
          /\ LessonWindowAvailable(NewLesson(q, v), None)
          /\ Begin(c, LessonTx(q.lesson, NewLesson(q, v),
                               LessonReads(NewLesson(q, v)) \cup VehicleReads(NewLesson(q, v))))
    BY <1>1, <1>4 DEF BookOwnLesson
  <2>3. NewLesson(q, v) \in LessonRow /\ q.lesson \in Lessons
    BY <2>1, NewLessonType DEF BookOwnRequests, NewLesson
  <2>4. QED
    BY <1>2, <2>2, <2>3
<1>5. CASE UpdateLesson(c)
  <2> DEFINE q == req[c]
             old == lessons[q.lesson]
             new == MergedLesson(q, old)
             reads == VehicleReads(new) \cup (IF Moved(old, new) THEN LessonReads(new) ELSE {})
  <2>1. q \in UpdateLessonRequests /\ q.lesson \in Lessons
    BY <1>1, <1>5, RequestShape DEF UpdateLesson, UpdateLessonRequests
  <2>2. /\ Editable(old) /\ UpdateLessonAllowed(q, prep[c], old, new)
        /\ Begin(c, LessonTx(q.lesson, new, reads))
    BY <1>1, <1>5 DEF UpdateLesson
  <2>3. old \in LessonRow
    BY <1>0, <2>1, <2>2 DEF Editable, Exists
  <2>4. new \in LessonRow /\ new.student = old.student /\ new.course = old.course
    BY <2>1, <2>3, MergedLessonType DEF MergedLesson, LessonRow
  <2>5. ~ Moved(old, new) => InPackage(q.lesson, new)
    BY <2>2, <2>4 DEF Moved, InPackage, Editable, LiveLesson
  <2>6. Moved(old, new) => LessonReads(new) \subseteq reads /\ LessonWindowAvailable(new, q.lesson)
    BY <2>2 DEF UpdateLessonAllowed
  <2> HIDE DEF new, reads
  <2>7. QED
    BY <1>2, <2>1, <2>2, <2>4, <2>5, <2>6
<1>6. QED
  <2>1. CASE DOMAIN tx'[c].lessons = {}
    BY <2>1 DEF Paid
  <2>2. QED
    BY <1>0, <1>1, <1>3, <1>4, <1>5, <2>1, EventsOpenNoLesson DEF Openers

LEMMA PaidStays ==
  ASSUME PaidInv, LandInv', NEW c \in Clients, ClientStep(c),
         NEW d \in Clients \ {c}, phase'[d] = "open"
  PROVE  Paid(d)'
<1>1. TypeInv /\ Others(c)
  BY OthersStep DEF PaidInv, LandInv
<1>2. /\ phase[d] = "open" /\ tx'[d] = tx[d] /\ since[d] \subseteq since'[d]
      /\ Paid(d) /\ (MustAbort(d) => MustAbort(d)') /\ TxType(tx[d])
  BY <1>1, AbortStays DEF Others, PaidInv, TypeInv, TypeOK
<1>3. CASE lessons' = lessons
  BY <1>2, <1>3 DEF Paid, InPackage, FitsPackage, Booked, CountsIn, LiveLesson, Exists
<1>4. CASE lessons' # lessons
  <2>1. PICK l \in Lessons : \E row \in LessonRow : Lands(c, l, row)
    BY <1>4, LessonWritten DEF PaidInv
  <2>2. PICK row \in LessonRow : Lands(c, l, row)
    BY <2>1
  <2>3. /\ lessons' = [lessons EXCEPT ![l] = row]
        /\ l \in DOMAIN tx[d].lessons => MustAbort(d)'
    BY <1>2, <2>2 DEF Lands
  <2>4. ASSUME NEW m \in DOMAIN tx[d].lessons, m # l, ~ MustAbort(d)',
               TotalMinutes[tx[d].lessons[m].course] # None
        PROVE  \/ InPackage(m, tx[d].lessons[m])'
               \/ FitsPackage(m, tx[d].lessons[m])' /\ PackageClaim(tx[d].lessons[m]) \in tx[d].reads
    <3> DEFINE r == tx[d].lessons[m]
    <3>1. m \in Lessons /\ r \in LessonRow /\ PackageClaim(r) \in tx[d].writes
          /\ (InPackage(m, r) \/ (PackageClaim(r) \in tx[d].reads /\ FitsPackage(m, r)))
      BY <1>2, <2>4 DEF Paid, TxType
    <3>2. InPackage(m, r) => InPackage(m, r)'
      BY <1>1, <1>2, <2>3, <2>4, <3>1 DEF InPackage, TypeInv, TypeOK, LiveLesson, Exists
    <3>3. CASE /\ PackageClaim(r) \in tx[d].reads /\ FitsPackage(m, r)
               /\ \/ ~ LiveLesson(row) \/ row.course # r.course \/ row.student # r.student
                  \/ InPackage(l, row)
      <4> DEFINE B == Booked(r.course, r.student, m)
      <4>1. B' \subseteq B
        BY <1>1, <2>3, <3>3, BookedGrows, <1>2
      <4>2. Cardinality(B') <= Cardinality(B) /\ Cardinality(B) \in Nat /\ Cardinality(B') \in Nat
        BY <4>1, BookedFinite, FS_CardinalityType
      <4>3. Minutes(r.win) \in Int /\ TotalMinutes[r.course] \in Nat
        <5>1. r.win \in Windows /\ r.course \in Courses
          BY <3>1 DEF LessonRow
        <5>2. QED
          BY <2>4, <5>1, PackageAssumption, MinutesType DEF Null
      <4>4. FitsPackage(m, r)'
        BY <1>2, <3>3, <4>2, <4>3 DEF FitsPackage
      <4>5. QED
        BY <1>2, <3>3, <4>4
    <3>4. CASE /\ PackageClaim(r) \in tx[d].reads
               /\ LiveLesson(row) /\ row.course = r.course /\ row.student = r.student
               /\ ~ InPackage(l, row)
      <4>1. /\ Commit(c) /\ ~ MustAbort(c) /\ phase[c] = "open"
            /\ DOMAIN tx[c].lessons = {l} /\ row = tx[c].lessons[l]
        <5>1. ~ (Exists(lessons[l]) /\ row = [lessons[l] EXCEPT !.status = "CANCELLED"])
          BY <1>1, <3>4 DEF LiveLesson, TypeInv, TypeOK, Exists, LessonRow
        <5>2. QED
          BY <2>2, <5>1 DEF Lands
      <4>2. /\ PackageClaim(row) = PackageClaim(r)
            /\ PackageClaim(row) \in tx[c].writes /\ PackageClaim(row) \in tx[c].reads
        BY <2>4, <3>4, <4>1 DEF PaidInv, Paid, PackageClaim
      <4>3. Overlaps(PackageClaim(r).win, PackageClaim(r).win)
        BY HorizonAssumption DEF PackageClaim, AllDay, Overlaps
      <4>4. Footprint(tx[c]) \in since'[d]
        BY <1>1, <1>2, <4>1, PublishedOthers DEF Commit
      <4>5. /\ Hits(tx[d].reads, Footprint(tx[c]).writes)
            /\ Hits(Footprint(tx[c]).reads, tx[d].writes)
        <5>1. PICK p : p = PackageClaim(r)
          OBVIOUS
        <5>2. /\ p \in tx[d].reads /\ p \in tx[d].writes /\ Overlaps(p.win, p.win)
              /\ p \in Footprint(tx[c]).reads /\ p \in Footprint(tx[c]).writes
          BY <3>1, <3>4, <4>2, <4>3, <5>1 DEF Footprint
        <5>3. QED
          BY <5>2 DEF Hits
      <4>6. MustAbort(d)'
        BY <1>2, <4>4, <4>5 DEF MustAbort
      <4>7. QED
        BY <2>4, <4>6
    <3>5. QED
      BY <1>2, <3>1, <3>2, <3>3, <3>4
  <2>5. QED
    BY <1>2, <2>3, <2>4 DEF Paid
<1>5. QED
  BY <1>3, <1>4

LEMMA PackageStep ==
  ASSUME PaidInv, NEW c \in Clients, ClientStep(c)
  PROVE  PackageWithinLimit'
<1>1. TypeInv /\ PackageWithinLimit
  BY DEF PaidInv, LandInv
<1>2. CASE lessons' = lessons
  BY <1>1, <1>2 DEF PackageWithinLimit, Booked, CountsIn, LiveLesson, Exists
<1>3. CASE lessons' # lessons
  <2>1. PICK l \in Lessons : \E row \in LessonRow : Lands(c, l, row)
    BY <1>3, LessonWritten DEF PaidInv
  <2>2. PICK row \in LessonRow : Lands(c, l, row)
    BY <2>1
  <2>3. lessons' = [lessons EXCEPT ![l] = row]
    BY <2>2 DEF Lands
  <2>4. ASSUME NEW k \in Courses, NEW s \in Students, TotalMinutes[k] # None
        PROVE  Cardinality(Booked(k, s, None)') <= TotalMinutes[k]
    <3> DEFINE B == Booked(k, s, None)
               A == Booked(k, s, l)
               T == {l} \X Taken(row.win)
    <3>1. Cardinality(B) <= TotalMinutes[k] /\ TotalMinutes[k] \in Nat /\ Cardinality(B) \in Nat
      BY <1>1, <2>4, PackageAssumption, BookedFinite DEF PackageWithinLimit, Null
    <3>2. CASE ~ LiveLesson(row) \/ row.course # k \/ row.student # s \/ InPackage(l, row)
      <4>1. B' \subseteq B
        BY <1>1, <2>3, <3>2, BookedGrows
      <4>2. Cardinality(B') <= Cardinality(B) /\ Cardinality(B') \in Nat
        BY <4>1, BookedFinite, FS_CardinalityType
      <4>3. QED
        BY <3>1, <4>2
    <3>3. CASE LiveLesson(row) /\ row.course = k /\ row.student = s /\ ~ InPackage(l, row)
      <4>1. /\ ~ MustAbort(c) /\ phase[c] = "open"
            /\ DOMAIN tx[c].lessons = {l} /\ row = tx[c].lessons[l]
        <5>1. ~ (Exists(lessons[l]) /\ row = [lessons[l] EXCEPT !.status = "CANCELLED"])
          BY <1>1, <3>3 DEF LiveLesson, TypeInv, TypeOK, Exists, LessonRow
        <5>2. QED
          BY <2>2, <5>1 DEF Lands
      <4>2. FitsPackage(l, row)
        BY <2>4, <3>3, <4>1 DEF PaidInv, Paid
      <4>3. B' \subseteq A \cup T
        BY <1>1, <2>3, BookedGrows
      <4>4. IsFiniteSet(A) /\ Cardinality(A) \in Nat
        BY BookedFinite
      <4>5. IsFiniteSet(T) /\ Cardinality(T) = Minutes(row.win)
        BY RowTakes DEF LessonRow
      <4>6. /\ IsFiniteSet(A \cup T)
            /\ Cardinality(A \cup T) = Cardinality(A) + Cardinality(T) - Cardinality(A \cap T)
        BY <4>4, <4>5, FS_Union
      <4>7. Cardinality(A \cap T) \in Nat /\ Cardinality(T) \in Nat
        BY <4>4, <4>5, FS_Subset, FS_CardinalityType
      <4>8. Cardinality(B') <= Cardinality(A \cup T) /\ Cardinality(B') \in Nat
        BY <4>3, <4>6, FS_Subset, FS_CardinalityType
      <4>9. Cardinality(A) + Cardinality(T) <= TotalMinutes[k]
        BY <3>3, <4>2, <4>5 DEF FitsPackage
      <4> HIDE DEF A, T
      <4>10. QED
        BY <3>1, <4>4, <4>6, <4>7, <4>8, <4>9
    <3>4. QED
      BY <3>2, <3>3
  <2>5. QED
    BY <2>4 DEF PackageWithinLimit
<1>4. QED
  BY <1>2, <1>3

LEMMA PaidStep == PaidInv /\ [Next]_vars => PaidInv'
<1> SUFFICES ASSUME PaidInv, [Next]_vars PROVE PaidInv'
  OBVIOUS
<1>1. LandInv'
  BY LandStep DEF PaidInv
<1>2. CASE UNCHANGED <<lessons, phase, tx, since>>
  <2>1. \A k, s, self : Booked(k, s, self)' = Booked(k, s, self)
    BY <1>2 DEF Booked, CountsIn, LiveLesson, Exists
  <2>2. PackageWithinLimit'
    BY <2>1 DEF PaidInv, PackageWithinLimit
  <2>3. \A c \in Clients : Open(c)' => Paid(c)'
    BY <1>2, <2>1 DEF PaidInv, Paid, InPackage, FitsPackage, LiveLesson, Exists, MustAbort
  <2>4. QED
    BY <1>1, <2>2, <2>3 DEF PaidInv
<1>3. ASSUME NEW c \in Clients, ClientStep(c) PROVE PaidInv'
  BY <1>1, <1>3, OpensPaid, PaidStays, PackageStep DEF PaidInv
<1>4. Tick \/ UNCHANGED vars => UNCHANGED <<lessons, phase, tx, since>>
  BY DEF Tick, vars
<1>5. QED
  BY <1>2, <1>3, <1>4 DEF Next, ClientStep

LEMMA InitPaid == Init => PaidInv
<1> SUFFICES ASSUME Init PROVE PaidInv
  OBVIOUS
<1>1. \A k, s : Booked(k, s, None) = {}
  BY DEF Init, Booked, CountsIn, LiveLesson, Exists
<1>2. PackageWithinLimit
  BY <1>1, FS_EmptySet, PackageAssumption DEF PackageWithinLimit, Null
<1>3. QED
  BY <1>2, InitLand DEF Init, PaidInv

\* A student's uncancelled lessons in a course never exceed its package, whatever
\* bookings and moves run at once (getCoursePracticePackageBalance).
THEOREM NoOverbooking == Spec => []PackageWithinLimit
<1>1. PaidInv => PackageWithinLimit
  BY DEF PaidInv
<1>2. QED
  BY InitPaid, PaidStep, <1>1, PTL DEF Spec

(***************************************************************************)
(* A lesson that stands lies in the hours of its instructor: a move checks *)
(* them for the new one, and every other patch leaves both as they are.    *)
(***************************************************************************)
LessonsInHours ==
  \A l \in Lessons : Exists(lessons[l]) => InHours(lessons[l].instructor, lessons[l].win)
RowsInHours(c) ==
  \A l \in DOMAIN tx[c].lessons : InHours(tx[c].lessons[l].instructor, tx[c].lessons[l].win)
HoursInv == LandInv /\ LessonsInHours /\ \A c \in Clients : Open(c) => RowsInHours(c)

LEMMA OpensInHours ==
  ASSUME HoursInv, NEW c \in Clients, ClientStep(c), phase'[c] = "open"
  PROVE  RowsInHours(c)'
<1>0. TypeInv /\ lessons \in [Lessons -> LessonRow \cup {None}]
  BY DEF HoursInv, LandInv, TypeInv, TypeOK
<1>1. Openers(c) /\ ~ Rejected(c) /\ req[c] \in Requests
  BY <1>0, WhatOpens
<1>2. ASSUME NEW l, NEW row, NEW reads, Begin(c, LessonTx(l, row, reads)),
             InHours(row.instructor, row.win)
      PROVE  RowsInHours(c)'
  <2> DEFINE t == LessonTx(l, row, reads)
  <2>1. DOMAIN t.lessons = {l} /\ t.lessons[l] = row
    BY DEF LessonTx, Idle, NoRows
  <2>2. tx'[c] = t
    BY <1>0, <1>2, BeginOthers
  <2>3. QED
    BY <1>2, <2>1, <2>2 DEF RowsInHours
<1>3. CASE BookLesson(c)
  <2> DEFINE row == NewLesson(req[c], req[c].vehicle)
  <2>1. /\ LessonWindowAvailable(row, None)
        /\ Begin(c, LessonTx(req[c].lesson, row, LessonReads(row) \cup VehicleReads(row)))
    BY <1>1, <1>3 DEF BookLesson
  <2> HIDE DEF row
  <2>2. QED
    BY <1>2, <2>1 DEF LessonWindowAvailable
<1>4. CASE BookOwnLesson(c)
  <2>1. PICK v \in Vehicles :
          /\ LessonWindowAvailable(NewLesson(req[c], v), None)
          /\ Begin(c, LessonTx(req[c].lesson, NewLesson(req[c], v),
                               LessonReads(NewLesson(req[c], v)) \cup VehicleReads(NewLesson(req[c], v))))
    BY <1>1, <1>4 DEF BookOwnLesson
  <2>2. QED
    BY <1>2, <2>1 DEF LessonWindowAvailable
<1>5. CASE UpdateLesson(c)
  <2> DEFINE q == req[c]
             old == lessons[q.lesson]
             new == MergedLesson(q, old)
             reads == VehicleReads(new) \cup (IF Moved(old, new) THEN LessonReads(new) ELSE {})
  <2>1. /\ Editable(old) /\ UpdateLessonAllowed(q, prep[c], old, new)
        /\ Begin(c, LessonTx(q.lesson, new, reads))
    BY <1>1, <1>5 DEF UpdateLesson
  <2>2. InHours(old.instructor, old.win)
    <3>1. q.lesson \in Lessons
      BY <1>1, <1>5, RequestShape DEF UpdateLesson, UpdateLessonRequests
    <3>2. QED
      BY <2>1, <3>1 DEF HoursInv, LessonsInHours, Editable
  <2> HIDE DEF new, reads
  <2>3. InHours(new.instructor, new.win)
    BY <2>1, <2>2 DEF Moved, UpdateLessonAllowed, LessonWindowAvailable
  <2>4. QED
    BY <1>2, <2>1, <2>3
<1>6. CASE CreateEvent(c) \/ UpdateEvent(c) \/ BulkStatus(c) \/ AssignStudents(c) \/ ReplaceStudents(c)
  BY <1>0, <1>6, EventsOpenNoLesson DEF RowsInHours
<1>7. QED
  BY <1>1, <1>3, <1>4, <1>5, <1>6 DEF Openers

LEMMA LandsInHours ==
  ASSUME HoursInv, NEW c \in Clients, ClientStep(c)
  PROVE  LessonsInHours'
<1>1. TypeInv /\ lessons \in [Lessons -> LessonRow \cup {None}]
  BY DEF HoursInv, LandInv, TypeInv, TypeOK
<1>2. CASE lessons' = lessons
  BY <1>2 DEF HoursInv, LessonsInHours, Exists
<1>3. CASE lessons' # lessons
  <2>1. PICK l \in Lessons, row \in LessonRow : Lands(c, l, row)
    BY <1>3, LessonWritten DEF HoursInv
  <2>2. lessons' = [lessons EXCEPT ![l] = row]
    BY <2>1 DEF Lands
  <2>3. InHours(row.instructor, row.win)
    <3>1. CASE phase[c] = "open" /\ DOMAIN tx[c].lessons = {l} /\ row = tx[c].lessons[l]
      BY <3>1 DEF HoursInv, RowsInHours
    <3>2. CASE Exists(lessons[l]) /\ row = [lessons[l] EXCEPT !.status = "CANCELLED"]
      <4>1. lessons[l] \in LessonRow /\ InHours(lessons[l].instructor, lessons[l].win)
        BY <1>1, <3>2 DEF HoursInv, LessonsInHours, Exists
      <4>2. row.instructor = lessons[l].instructor /\ row.win = lessons[l].win
        BY <3>2, <4>1 DEF LessonRow
      <4>3. QED
        BY <4>1, <4>2
    <3>3. QED
      BY <2>1, <3>1, <3>2 DEF Lands
  <2>4. QED
    BY <1>1, <2>2, <2>3 DEF HoursInv, LessonsInHours, Exists
<1>4. QED
  BY <1>2, <1>3

LEMMA HoursStep == HoursInv /\ [Next]_vars => HoursInv'
<1> SUFFICES ASSUME HoursInv, [Next]_vars PROVE HoursInv'
  OBVIOUS
<1>1. LandInv' /\ TypeInv
  BY LandStep DEF HoursInv, LandInv
<1>2. CASE UNCHANGED <<lessons, phase, tx>>
  BY <1>1, <1>2 DEF HoursInv, LessonsInHours, RowsInHours, Exists
<1>3. ASSUME NEW c \in Clients, ClientStep(c) PROVE HoursInv'
  <2>1. ASSUME NEW d \in Clients \ {c}, phase'[d] = "open" PROVE RowsInHours(d)'
    <3>1. phase[d] = "open" /\ tx'[d] = tx[d]
      BY <1>1, <1>3, <2>1, OthersStep DEF Others
    <3>2. QED
      BY <3>1 DEF HoursInv, RowsInHours
  <2>2. QED
    BY <1>1, <1>3, <2>1, OpensInHours, LandsInHours DEF HoursInv
<1>4. Tick \/ UNCHANGED vars => UNCHANGED <<lessons, phase, tx>>
  BY DEF Tick, vars
<1>5. QED
  BY <1>2, <1>3, <1>4 DEF Next, ClientStep

\* Every lesson lies in the hours of its instructor, whoever moves it and whatever he is
\* handed over for (assertInstructorTimeWindowAvailable).
THEOREM HoursKept == Spec => []LessonsInHours
<1>1. Init => HoursInv
  BY InitLand DEF Init, HoursInv, LessonsInHours, RowsInHours, Exists
<1>2. HoursInv => LessonsInHours
  BY DEF HoursInv
<1>3. QED
  BY <1>1, HoursStep, <1>2, PTL DEF Spec
=============================================================================
