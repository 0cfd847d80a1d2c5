------------------------------ MODULE EventProofs ------------------------------
(***************************************************************************)
(* Proofs about the events on the schedule and their seats, and about what *)
(* foretells the answer of the write transaction: the preflight, the free  *)
(* windows and the forms and slots that are made of them.                  *)
(***************************************************************************)
EXTENDS Options, ScheduleProofs, WellFoundedInduction

\* What every step is written with.
USE DEF Open, InTx, Received, To, Tables, handler

(***************************************************************************)
(* Everything on the schedule, as long as no event is edited after its     *)
(* creation.  Gained(c, x) is what the transaction of c is about to add to *)
(* what row x holds, in window GainWin(c, x).  It claims all of it, and    *)
(* until it is bound to abort it has found it free.                        *)
(***************************************************************************)
Unedited == Lessons \cup (Events \ touched)
FreeOf(x, res, w) ==
  \A y \in Unedited \ {x} : res \in Holds(y) => ~ Overlaps(Win(y), w)

SeatOps == {"assignStudents", "replaceStudents"}
Added(c, e) == {s \in Students : <<e, s>> \in tx[c].add}
Dropped(c, e) == {s \in Students : <<e, s>> \in tx[c].del}

Gained(c, x) ==
  IF x \in DOMAIN tx[c].lessons THEN LessonHolds(tx[c].lessons[x])
  ELSE IF x \in DOMAIN tx[c].events
  THEN IF Exists(events[x]) THEN {} ELSE EventHolds(tx[c].events[x])
  ELSE IF x \in Events /\ LiveEvent(events[x]) THEN Added(c, x) ELSE {}
GainWin(c, x) ==
  IF x \in DOMAIN tx[c].lessons THEN tx[c].lessons[x].win
  ELSE IF x \in DOMAIN tx[c].events THEN tx[c].events[x].win
  ELSE events[x].win
Reserved(c) ==
  \A x \in Unedited : \A res \in Gained(c, x) :
    LET claim == [res |-> res, win |-> GainWin(c, x)] IN
    /\ claim \in tx[c].writes
    /\ \/ MustAbort(c)
       \/ x \in Lessons /\ Keeps(x, tx[c].lessons[x], res)
       \/ claim \in tx[c].reads /\ FreeOf(x, res, GainWin(c, x))

\* What a transaction writes is what its operation is about.
NoSeats(t) == t.add = {} /\ t.del = {}
Shape(c) ==
  LET q == req[c]
      t == tx[c]
  IN \/ /\ q.op \in Bookings \cup {"updateLesson"}
        /\ DOMAIN t.events = {} /\ NoSeats(t)
     \/ /\ q.op = "createEvent" /\ DOMAIN t.lessons = {} /\ NoSeats(t)
        /\ DOMAIN t.events = {q.event} /\ t.events[q.event].status = "PLANNED"
     \/ /\ q.op \in {"updateEvent", "bulkStatus"} /\ DOMAIN t.lessons = {} /\ NoSeats(t)
        /\ \A e \in DOMAIN t.events : Exists(events[e])
     \/ /\ q.op \in SeatOps /\ DOMAIN t.lessons = {} /\ DOMAIN t.events = {}
        /\ t.add \cup t.del \subseteq {q.event} \X Students

\* The limit was read outside the transaction, the participants inside it.
Fits(c) ==
  LET e == req[c].event
      claim == [res |-> e, win |-> AllDay]
  IN req[c].op \in SeatOps /\ e \notin touched =>
       /\ claim \in tx[c].reads /\ claim \in tx[c].writes
       /\ \/ MustAbort(c)
          \/ CapacityFits(events[e].capacity,
                          Cardinality((Participants(e) \ Dropped(c, e)) \cup Added(c, e)))

SeatsKnown == \A e \in Events, s \in Students : <<e, s>> \in seats => Exists(events[e])
Planned == \A e \in Events \ touched : Exists(events[e]) => events[e].status = "PLANNED"
EventIdsFresh ==
  \A c \in Clients : req[c] # None /\ req[c].op = "createEvent" =>
    /\ events[req[c].event] = None
    /\ \A d \in Clients \ {c} : req[d] # None /\ req[d].op = "createEvent"
                                  => req[d].event # req[c].event
SeenAsIs(c) ==
  phase[c] \in {"ready", "open"} /\ req[c].op \in SeatOps =>
    LET e == req[c].event IN
    /\ Exists(events[e])
    /\ e \notin touched => /\ prep[c].win = events[e].win
                           /\ prep[c].capacity = events[e].capacity
Known == SeatsKnown /\ Planned /\ EventIdsFresh /\ \A c \in Clients : SeenAsIs(c)
EvInv ==
  /\ LandInv /\ Known /\ UneditedEventsHold
  /\ \A c \in Clients : Open(c) => Shape(c) /\ Reserved(c) /\ Fits(c)

\* What a step does to the tables.
WritesLesson(c) ==
  /\ UNCHANGED <<events, seats, touched>>
  /\ \E l \in Lessons : \E row \in LessonRow : Lands(c, l, row)
WritesNew(c) ==
  /\ Commit(c) /\ req[c].op = "createEvent" /\ UNCHANGED <<lessons, seats, touched>>
  /\ \E e \in Events, row \in EventRow :
       /\ e = req[c].event /\ events[e] = None /\ events' = [events EXCEPT ![e] = row]
       /\ DOMAIN tx[c].events = {e} /\ row = tx[c].events[e] /\ row.status = "PLANNED"
Edits(c) ==
  /\ UNCHANGED <<lessons, seats>> /\ touched \subseteq touched'
  /\ \A e \in Events : \/ events'[e] = events[e]
                       \/ Exists(events[e]) /\ Exists(events'[e]) /\ e \in touched'
Deletes(c) ==
  /\ UNCHANGED <<lessons, seats, touched>>
  /\ \E e \in Events : /\ events[e] \in EventRow
                       /\ events' = [events EXCEPT ![e] = [events[e] EXCEPT !.active = FALSE]]
WritesSeats(c) ==
  /\ Commit(c) /\ req[c].op \in SeatOps /\ UNCHANGED <<lessons, events, touched>>
  /\ seats' = (seats \ tx[c].del) \cup tx[c].add
  /\ req[c].event \in Events
Removes(c) == UNCHANGED <<lessons, events, touched>> /\ seats' \subseteq seats

LEMMA Effects ==
  ASSUME EvInv, NEW c \in Clients, ClientStep(c)
  PROVE  \/ UNCHANGED <<lessons, events, seats, touched>>
         \/ WritesLesson(c) \/ WritesNew(c) \/ Edits(c) \/ Deletes(c) \/ WritesSeats(c) \/ Removes(c)
<1>0. /\ TypeInv /\ LandInv
      /\ lessons \in [Lessons -> LessonRow \cup {None}]
      /\ events \in [Events -> EventRow \cup {None}]
      /\ (phase[c] # "idle" => req[c] \in Requests /\ req[c] # None)
  BY NoneAssumption, RequestAssumption DEF EvInv, LandInv, TypeInv, TypeOK
<1>1. CASE Commit(c)
  <2> DEFINE t == tx[c]
  <2>1. /\ phase[c] = "open" /\ lessons' = Apply(lessons, t.lessons)
        /\ events' = Apply(events, t.events)
        /\ seats' = (seats \ t.del) \cup t.add
        /\ touched' = touched \cup {e \in DOMAIN t.events : Exists(events[e])}
    BY <1>1 DEF Commit
  <2>2. Shape(c) /\ TxType(t) /\ req[c] \in AllRequests
    BY <1>0, <2>1, RequestAssumption DEF EvInv, TypeInv, TypeOK
  <2>3. /\ DOMAIN t.lessons = {} => lessons' = lessons
        /\ DOMAIN t.events = {} => events' = events /\ touched' = touched
        /\ NoSeats(t) => seats' = seats
    BY <1>0, <2>1 DEF Apply, NoSeats
  <2>4. CASE req[c].op \in Bookings \cup {"updateLesson"}
    <3>1. UNCHANGED <<events, seats, touched>>
      BY <2>2, <2>3, <2>4 DEF Shape, SeatOps, Bookings
    <3>2. CASE lessons' = lessons
      BY <3>1, <3>2
    <3>3. CASE lessons' # lessons
      BY <1>0, <3>1, <3>3, LessonWritten DEF WritesLesson
    <3>4. QED
      BY <3>2, <3>3
  <2>5. CASE req[c].op = "createEvent"
    <3>1. /\ DOMAIN t.lessons = {} /\ NoSeats(t) /\ DOMAIN t.events = {req[c].event}
          /\ t.events[req[c].event].status = "PLANNED"
      BY <2>2, <2>5 DEF Shape, SeatOps, Bookings
    <3>2. PICK e \in Events : /\ e = req[c].event /\ DOMAIN t.events = {e}
                              /\ t.events[e] \in EventRow /\ t.events[e].status = "PLANNED"
      BY <2>2, <3>1 DEF TxType
    <3>3. events[e] = None
      BY <1>0, <2>1, <2>5, <3>2 DEF EvInv, Known, EventIdsFresh
    <3>4. events' = [events EXCEPT ![e] = t.events[e]] /\ touched' = touched
      BY <1>0, <2>1, <3>2, <3>3 DEF Apply, Exists
    <3>5. QED
      BY <1>1, <2>3, <2>5, <3>1, <3>2, <3>3, <3>4 DEF WritesNew
  <2>6. CASE req[c].op \in {"updateEvent", "bulkStatus"}
    <3>1. /\ DOMAIN t.lessons = {} /\ NoSeats(t)
          /\ \A e \in DOMAIN t.events : Exists(events[e])
      BY <2>2, <2>6 DEF Shape, SeatOps, Bookings
    <3>2. \A e \in DOMAIN t.events : Exists(t.events[e])
      BY <2>2, NoneAssumption DEF TxType, Exists
    <3>3. QED
      BY <1>0, <2>1, <2>3, <3>1, <3>2 DEF Edits, Apply
  <2>7. CASE req[c].op \in SeatOps
    <3>1. DOMAIN t.lessons = {} /\ DOMAIN t.events = {}
      BY <2>2, <2>7 DEF Shape, SeatOps, Bookings
    <3>2. req[c].event \in Events
      BY <2>2, <2>7, RequestShape, <1>0, <2>1 DEF SeatOps, SeatRequests
    <3>3. QED
      BY <1>1, <2>1, <2>3, <2>7, <3>1, <3>2 DEF WritesSeats
  <2>8. QED
    BY <2>2, <2>4, <2>5, <2>6, <2>7 DEF Shape
<1>2. CASE States(c) /\ ~ Rejected(c)
  <2>1. CASE CancelLesson(c)
    <3>1. UNCHANGED <<events, seats, touched>>
      BY <1>2, <2>1 DEF CancelLesson
    <3>2. CASE lessons' = lessons
      BY <3>1, <3>2
    <3>3. CASE lessons' # lessons
      BY <1>0, <3>1, <3>3, LessonWritten DEF WritesLesson
    <3>4. QED
      BY <3>2, <3>3
  <2>2. CASE DeleteEvent(c)
    <3>1. req[c] \in DeleteRequests
      BY <1>0, <2>2, RequestShape DEF DeleteEvent
    <3>2. PICK e \in Events : e = req[c].event
      BY <3>1 DEF DeleteRequests
    <3>3. events[e] \in EventRow
      BY <1>0, <2>2, <3>2 DEF DeleteEvent, TypeInv, PrepType
    <3>4. events' = [events EXCEPT ![e] = [events[e] EXCEPT !.active = FALSE]]
          /\ UNCHANGED <<lessons, seats, touched>>
      BY <2>2, <3>2 DEF DeleteEvent
    <3>5. QED
      BY <3>3, <3>4 DEF Deletes
  <2>3. CASE RemoveStudent(c)
    BY <1>2, <2>3 DEF RemoveStudent, Removes
  <2>4. QED
    BY <1>2, <2>1, <2>2, <2>3 DEF States
<1>3. CASE Opens(c)
  BY <1>0, <1>3, BeginOthers DEF Opens
<1>4. CASE Prepares(c)
  BY <1>0, <1>4, ReadyOthers DEF Prepares
<1>5. CASE Retries(c) \/ Ends(c)
  BY <1>5 DEF Retries, Ends
<1>6. CASE \E q \in Requests : Submit(c, q)
  BY <1>6 DEF Submit
<1>7. QED
  BY <1>0, <1>1, <1>2, <1>3, <1>4, <1>5, <1>6, Ways

\* Events never go away; one that was not edited keeps all but its active flag.
LEMMA EventsStay ==
  ASSUME EvInv, NEW c \in Clients, ClientStep(c)
  PROVE  /\ touched \subseteq touched'
         /\ \A e \in Events : Exists(events[e]) => Exists(events'[e])
         /\ \A e \in Events \ touched' :
              Exists(events[e]) =>
                /\ events'[e].win = events[e].win /\ events'[e].capacity = events[e].capacity
                /\ events'[e].status = events[e].status
                /\ EventHolds(events'[e]) \subseteq EventHolds(events[e])
                /\ LiveEvent(events'[e]) => events'[e] = events[e]
<1>1. events \in [Events -> EventRow \cup {None}]
  BY DEF EvInv, LandInv, TypeInv, TypeOK
<1>2. CASE UNCHANGED <<lessons, events, seats, touched>> \/ WritesLesson(c) \/ WritesSeats(c)
             \/ Removes(c)
  BY <1>2 DEF WritesLesson, WritesSeats, Removes, Exists, EventHolds, LiveEvent
<1>3. CASE WritesNew(c)
  BY <1>1, <1>3, NoneAssumption DEF WritesNew, Exists, EventHolds, LiveEvent
<1>4. CASE Edits(c)
  BY <1>4 DEF Edits, Exists, EventHolds, LiveEvent
<1>5. CASE Deletes(c)
  <2>1. PICK e \in Events :
          /\ events[e] \in EventRow
          /\ events' = [events EXCEPT ![e] = [events[e] EXCEPT !.active = FALSE]]
    BY <1>5 DEF Deletes
  <2> DEFINE row == [events[e] EXCEPT !.active = FALSE]
  <2>2. /\ row \in EventRow /\ row.active = FALSE /\ row.win = events[e].win
        /\ row.capacity = events[e].capacity /\ row.status = events[e].status
    BY <2>1 DEF EventRow
  <2>3. row # None /\ ~ LiveEvent(row) /\ EventHolds(row) = {}
    BY <2>2, NoneAssumption DEF LiveEvent, EventHolds
  <2> HIDE DEF row
  <2>4. events'[e] = row /\ \A k \in Events \ {e} : events'[k] = events[k]
    BY <1>1, <2>1 DEF row
  <2>5. QED
    BY <1>5, <2>2, <2>3, <2>4 DEF Deletes, Exists, EventHolds, LiveEvent
<1>6. QED
  BY <1>2, <1>3, <1>4, <1>5, Effects

LEMMA KnownStep ==
  ASSUME EvInv, TypeInv', NEW c \in Clients, ClientStep(c)
  PROVE  Known'
<1>0. /\ TypeInv /\ LandInv /\ Known /\ Others(c)
      /\ events \in [Events -> EventRow \cup {None}]
  BY OthersStep DEF EvInv, LandInv, TypeInv, TypeOK
<1>1. SeatsKnown'
  <2>1. CASE seats' \subseteq seats
    BY <1>0, <2>1, EventsStay DEF SeatsKnown, Known
  <2>2. CASE WritesSeats(c)
    <3>1. /\ phase[c] = "open" /\ req[c].op \in SeatOps
          /\ UNCHANGED events /\ seats' \subseteq seats \cup tx[c].add
      BY <2>2 DEF WritesSeats, Commit
    <3>2. tx[c].add \subseteq {req[c].event} \X Students /\ Exists(events[req[c].event])
      BY <1>0, <3>1 DEF EvInv, Shape, SeatOps, Bookings, Known, SeenAsIs
    <3>3. QED
      BY <1>0, <3>1, <3>2 DEF SeatsKnown, Known, Exists
  <2>3. QED
    BY <2>1, <2>2, Effects DEF WritesLesson, WritesNew, Edits, Deletes, Removes
<1>2. Planned'
  <2>1. ASSUME NEW e \in Events \ touched', ~ Exists(events[e]), Exists(events'[e])
        PROVE  events'[e].status = "PLANNED"
    <3>1. CASE WritesNew(c)
      BY <1>0, <2>1, <3>1 DEF WritesNew, Exists
    <3>2. CASE Deletes(c)
      BY <1>0, <2>1, <3>2, NoneAssumption DEF Deletes, Exists
    <3>3. QED
      BY <2>1, <3>1, <3>2, Effects DEF WritesLesson, Edits, WritesSeats, Removes, Exists
  <2>2. QED
    BY <1>0, <2>1, EventsStay DEF Planned, Known, Exists
<1>3. EventIdsFresh'
  <2>1. req'[c] = req[c] \/ req'[c] = None \/ \E q \in Requests : Submit(c, q)
    <3>1. CASE Opens(c)
      BY <1>0, <3>1, BeginOthers DEF Opens
    <3>2. CASE Prepares(c)
      BY <1>0, <3>2, ReadyOthers DEF Prepares
    <3>3. CASE Retries(c)
      BY <3>3 DEF Retries
    <3>4. CASE Ends(c)
      BY <1>0, <3>4, AnswerOthers DEF Ends
    <3>5. CASE (States(c) /\ ~ Rejected(c)) \/ Commit(c)
      BY <1>0, <3>5, PublishedOthers DEF States, CancelLesson, DeleteEvent, RemoveStudent, Commit
    <3>6. QED
      BY <1>0, <3>1, <3>2, <3>3, <3>4, <3>5, Ways
  <2>2. ASSUME NEW e \in Events, events[e] = None, events'[e] # None
        PROVE  req[c] # None /\ req[c].op = "createEvent" /\ req[c].event = e /\ req'[c] = None
    <3>1. CASE WritesNew(c)
      BY <1>0, <2>2, <3>1, AnswerOthers, NoneAssumption, RequestAssumption
         DEF WritesNew, Commit, TypeInv, TypeOK, Answer
    <3>2. CASE Deletes(c)
      BY <1>0, <2>2, <3>2, NoneAssumption DEF Deletes
    <3>3. QED
      BY <2>2, <3>1, <3>2, Effects DEF WritesLesson, Edits, WritesSeats, Removes, Exists
  <2>3. CASE req'[c] = req[c] \/ req'[c] = None
    <3>1. ASSUME NEW d \in Clients, req'[d] # None, req'[d].op = "createEvent"
          PROVE  req[d] = req'[d] /\ req[d].event \in Events /\ events'[req[d].event] = None
      <4>1. req[d] = req'[d] /\ req[d] \in CreateRequests
        BY <1>0, <2>3, <3>1, RequestAssumption, RequestShape DEF Others, TypeInv, TypeOK
      <4>2. req[d].event \in Events /\ events[req[d].event] = None
        BY <1>0, <3>1, <4>1 DEF Known, EventIdsFresh, CreateRequests
      <4>3. QED
        BY <1>0, <2>2, <3>1, <4>1, <4>2 DEF Known, EventIdsFresh
    <3>2. QED
      BY <1>0, <3>1 DEF Known, EventIdsFresh
  <2>4. ASSUME NEW q \in Requests, Submit(c, q)
        PROVE  EventIdsFresh'
    <3>1. FreshId(q) /\ req'[c] = q /\ events' = events
      BY <1>0, <2>4 DEF Submit, TypeInv, TypeOK
    <3>2. q.op = "createEvent" =>
            /\ events[q.event] = None
            /\ \A d \in Clients : req[d] # None /\ req[d].op = "createEvent"
                                    => req[d].event # q.event
      BY <3>1 DEF FreshId
    <3>3. QED
      BY <1>0, <3>1, <3>2 DEF Known, EventIdsFresh, Others
  <2>5. QED
    BY <2>1, <2>3, <2>4
<1>4. ASSUME NEW d \in Clients, phase'[d] \in {"ready", "open"}, req'[d].op \in SeatOps
      PROVE  SeenAsIs(d)'
  <2>0. req'[d] \in SeatRequests /\ req'[d].event \in Events
    BY <1>4, RequestShape DEF TypeInv, TypeOK, SeatOps, SeatRequests
  <2>1. CASE phase[d] \in {"ready", "open"} /\ req'[d] = req[d] /\ prep'[d] = prep[d]
    BY <1>0, <1>4, <2>0, <2>1, EventsStay DEF Known, SeenAsIs
  <2>2. CASE d = c /\ Prepares(c)
    <3>1. /\ ~ Rejected(c) /\ UNCHANGED <<req, events, touched>>
          /\ ReadBooking(c) \/ ReadLessonToCancel(c) \/ ReadEvent(c) \/ ReadEvents(c)
      BY <1>0, <2>2, WhatPrepares
    <3>2. ReadEvent(c)
      BY <1>4, <2>2, <3>1 DEF SeatOps, ReadBooking, ReadLessonToCancel, ReadEvents
    <3>3. Ready(c, events[req[c].event]) /\ Exists(events[req[c].event])
      BY <3>1, <3>2 DEF ReadEvent
    <3>4. prep'[c] = events[req[c].event]
      BY <1>0, <3>3, ReadyOthers
    <3>5. QED
      BY <2>2, <3>1, <3>3, <3>4 DEF SeenAsIs, Exists
  <2>3. d # c => phase[d] \in {"ready", "open"} /\ req'[d] = req[d] /\ prep'[d] = prep[d]
    BY <1>0, <1>4 DEF Others
  <2>4. ASSUME d = c, ~ Prepares(c)
        PROVE  phase[c] \in {"ready", "open"} /\ req'[c] = req[c] /\ prep'[c] = prep[c]
    <3>1. CASE phase'[c] = "open"
      <4>1. Openers(c) /\ UNCHANGED <<req, prep>>
        BY <1>0, <3>1, WhatOpens
      <4>2. phase[c] = "ready"
        BY <4>1 DEF Openers, BookLesson, BookOwnLesson, UpdateLesson, CreateEvent,
                    UpdateEvent, BulkStatus, AssignStudents, ReplaceStudents
      <4>3. QED
        BY <4>1, <4>2
    <3>2. CASE Retries(c)
      BY <3>2 DEF Retries
    <3>3. ASSUME phase'[c] = "ready", ~ Retries(c) PROVE FALSE
      <4>1. ~ Ends(c) /\ ~ ((States(c) /\ ~ Rejected(c)) \/ Commit(c))
        BY <1>0, <3>3, AnswerOthers, PublishedOthers
           DEF Ends, Commit, States, CancelLesson, DeleteEvent, RemoveStudent
      <4>2. ~ Opens(c)
        BY <1>0, <3>3 DEF Opens, Begin, TypeInv, TypeOK
      <4>3. ASSUME NEW q \in Requests, Submit(c, q) PROVE FALSE
        BY <1>0, <1>4, <2>4, <3>3, <4>3 DEF Submit, TypeInv, TypeOK, ReadsFirst, SeatOps
      <4>4. QED
        BY <1>0, <2>4, <3>3, <4>1, <4>2, <4>3, Ways
    <3>4. QED
      BY <1>4, <2>4, <3>1, <3>2, <3>3
  <2>5. QED
    BY <2>1, <2>2, <2>3, <2>4
<1>5. QED
  BY <1>1, <1>2, <1>3, <1>4 DEF Known, SeenAsIs

\* What a row holds after a step it held before, or a commit has just added.
LEMMA Grown ==
  ASSUME EvInv, NEW c \in Clients, ClientStep(c), NEW y \in Unedited', NEW res \in Holds(y)'
  PROVE  /\ y \in Unedited
         /\ \/ res \in Holds(y) /\ Win(y)' = Win(y)
            \/ Commit(c) /\ res \in Gained(c, y) /\ Win(y)' = GainWin(c, y)
<1>0. /\ lessons \in [Lessons -> LessonRow \cup {None}]
      /\ events \in [Events -> EventRow \cup {None}]
      /\ LandInv /\ SeatsKnown
  BY DEF EvInv, LandInv, TypeInv, TypeOK, Known
<1>1. touched \subseteq touched' /\ y \in Unedited /\ (y \in Lessons \/ y \in Events \ touched')
  BY EventsStay DEF Unedited
<1>2. y \in Events => y \notin Lessons
  BY RowAssumption
<1>3. CASE UNCHANGED <<lessons, events, seats, touched>>
  BY <1>1, <1>3 DEF Holds, Win, EventHolds, SeatHolds, Participants, LiveEvent,
                    LessonHolds, LiveLesson, Exists
<1>4. CASE WritesLesson(c)
  <2>1. CASE y \in Events
    BY <1>1, <1>2, <1>4, <2>1 DEF WritesLesson, Holds, Win, EventHolds, SeatHolds, Participants,
                                  LiveEvent, Exists
  <2>2. CASE y \in Lessons
    <3>1. PICK l \in Lessons : \E row \in LessonRow : Lands(c, l, row)
      BY <1>4 DEF WritesLesson
    <3>2. PICK row \in LessonRow : Lands(c, l, row)
      BY <3>1
    <3>3. /\ lessons'[l] = row
          /\ \A k \in Lessons \ {l} : lessons'[k] = lessons[k]
      BY <1>0, <3>2 DEF Lands
    <3>4. CASE y # l
      BY <2>2, <1>1, <3>3, <3>4 DEF Holds, Win, LessonHolds, LiveLesson, Exists
    <3>5. CASE y = l
      <4>1. res \in LessonHolds(row) /\ Win(y)' = row.win
        BY <2>2, <3>3, <3>5 DEF Holds, Win, LessonHolds, LiveLesson, Exists
      <4>2. row.status # "CANCELLED"
        BY <4>1 DEF LessonHolds, LiveLesson
      <4>3. ~ (Exists(lessons[l]) /\ row = [lessons[l] EXCEPT !.status = "CANCELLED"])
        BY <1>0, <4>2 DEF Exists, LessonRow
      <4>4. Commit(c) /\ DOMAIN tx[c].lessons = {l} /\ row = tx[c].lessons[l]
        BY <3>2, <4>3 DEF Lands
      <4>5. QED
        BY <1>1, <3>5, <4>1, <4>4 DEF Gained, GainWin
    <3>6. QED
      BY <3>4, <3>5
  <2>3. QED
    BY <1>1, <2>1, <2>2
<1>5. CASE WritesNew(c)
  <2>1. PICK e \in Events, row \in EventRow :
          /\ e = req[c].event /\ events[e] = None /\ events' = [events EXCEPT ![e] = row]
          /\ DOMAIN tx[c].events = {e} /\ row = tx[c].events[e]
    BY <1>5 DEF WritesNew
  <2>2. /\ Commit(c) /\ UNCHANGED <<lessons, seats>> /\ DOMAIN tx[c].lessons = {}
        /\ events'[e] = row /\ \A k \in Events \ {e} : events'[k] = events[k]
    BY <1>0, <1>5, <2>1 DEF WritesNew, Commit, EvInv, Shape, SeatOps, Bookings
  <2>3. CASE y # e
    BY <1>1, <1>2, <2>2, <2>3 DEF Holds, Win, EventHolds, SeatHolds, Participants,
                                  LiveEvent, LessonHolds, LiveLesson, Exists
  <2>4. CASE y = e
    <3>1. Participants(e)' = {}
      BY <1>0, <2>1, <2>2 DEF SeatsKnown, Exists, Participants
    <3>2. res \in EventHolds(row) /\ Win(y)' = row.win
      BY <1>2, <2>2, <2>4, <3>1 DEF Holds, Win, SeatHolds, EventHolds, LiveEvent, Exists
    <3>3. QED
      BY <1>1, <2>1, <2>2, <2>4, <3>2 DEF Gained, GainWin, Exists
  <2>5. QED
    BY <2>3, <2>4
<1>6. CASE Edits(c)
  BY <1>1, <1>2, <1>6 DEF Edits, Holds, Win, EventHolds, SeatHolds, Participants,
                          LiveEvent, LessonHolds, LiveLesson, Exists
<1>7. CASE Deletes(c) \/ Removes(c)
  <2>1. CASE y \in Lessons
    BY <1>1, <1>7, <2>1 DEF Deletes, Removes, Holds, Win, LessonHolds, LiveLesson, Exists
  <2>2. CASE y \in Events \ touched'
    <3>1. LiveEvent(events'[y]) /\ seats' \subseteq seats
      BY <1>2, <1>7, <2>2 DEF Deletes, Removes, Holds, EventHolds, SeatHolds, LiveEvent, Exists
    <3>2. events'[y] = events[y]
      BY <1>0, <1>7, <2>2, <3>1, EventsStay, NoneAssumption
         DEF Deletes, Removes, LiveEvent, Exists
    <3>3. QED
      BY <1>1, <1>2, <2>2, <3>1, <3>2
         DEF Holds, Win, EventHolds, SeatHolds, Participants, LiveEvent, Exists
  <2>3. QED
    BY <1>1, <2>1, <2>2
<1>8. CASE WritesSeats(c)
  <2>1. /\ Commit(c) /\ UNCHANGED <<lessons, events>> /\ seats' \subseteq seats \cup tx[c].add
        /\ DOMAIN tx[c].lessons = {} /\ DOMAIN tx[c].events = {}
    BY <1>8 DEF WritesSeats, Commit, EvInv, Shape, SeatOps, Bookings
  <2>2. CASE y \in Lessons
    BY <1>1, <2>1, <2>2 DEF Holds, Win, LessonHolds, LiveLesson, Exists
  <2>3. CASE y \in Events
    <3>1. Win(y)' = Win(y) /\ Win(y) = GainWin(c, y)
      BY <1>2, <2>1, <2>3 DEF Win, GainWin
    <3>2. res \in Holds(y) \/ res \in Gained(c, y)
      BY <1>2, <2>1, <2>3
         DEF Holds, Gained, Added, EventHolds, SeatHolds, Participants, LiveEvent, Exists
    <3>3. QED
      BY <1>1, <2>1, <3>1, <3>2
  <2>4. QED
    BY <1>1, <2>2, <2>3
<1>9. QED
  BY <1>3, <1>4, <1>5, <1>6, <1>7, <1>8, Effects

\* A transaction adds to one row only.
LEMMA OneGainer ==
  ASSUME EvInv, NEW c \in Clients, phase[c] = "open",
         NEW x \in Unedited, NEW y \in Unedited, Gained(c, x) # {}, Gained(c, y) # {}
  PROVE  x = y
<1>1. Landing(c) /\ Shape(c)
  BY DEF EvInv, LandInv
<1>2. ASSUME NEW z \in Unedited, Gained(c, z) # {}
      PROVE  IF req[c].op \in Bookings \cup {"updateLesson"} THEN z = req[c].lesson ELSE z = req[c].event
  <2>1. \/ z \in DOMAIN tx[c].lessons
        \/ z \in DOMAIN tx[c].events /\ ~ Exists(events[z])
        \/ Added(c, z) # {}
    BY <1>2 DEF Gained
  <2>2. QED
    BY <1>1, <2>1 DEF Landing, Shape, NoSeats, Added, SeatOps, Bookings
<1>3. QED
  BY <1>2

LEMMA ApartStep ==
  ASSUME EvInv, NEW c \in Clients, ClientStep(c)
  PROVE  UneditedNeverOverlap'
<1>0. UneditedNeverOverlap
  BY DEF EvInv, UneditedEventsHold
<1>1. \A v, w : Overlaps(v, w) <=> Overlaps(w, v)
  BY DEF Overlaps
<1>2. ASSUME NEW x \in Unedited', NEW y \in Unedited', x # y,
             NEW res, res \in Holds(x)', res \in Holds(y)',
             res \in Gained(c, x), Commit(c), Win(x)' = GainWin(c, x)
      PROVE  ~ Overlaps(Win(x)', Win(y)')
  <2>1. /\ phase[c] = "open" /\ ~ MustAbort(c) /\ x \in Unedited /\ y \in Unedited
        /\ Reserved(c)
    BY <1>2, Grown DEF Commit, EvInv
  <2>2. Gained(c, y) = {}
    BY <1>2, <2>1, OneGainer
  <2>3. res \in Holds(y) /\ Win(y)' = Win(y)
    BY <1>2, <2>2, Grown
  <2>4. CASE x \in Lessons /\ Keeps(x, tx[c].lessons[x], res)
    <3>1. x \in DOMAIN tx[c].lessons
      BY <1>2, <2>1, <2>4, RowAssumption DEF Gained, EvInv, LandInv, TypeInv, TypeOK, TxType
    <3>2. res \in Holds(x) /\ Win(x) = GainWin(c, x)
      BY <2>4, <3>1 DEF Keeps, Holds, Win, GainWin
    <3>3. QED
      BY <1>0, <1>2, <2>1, <2>3, <3>2 DEF UneditedNeverOverlap, NoClash, Unedited
  <2>5. CASE FreeOf(x, res, GainWin(c, x))
    BY <1>1, <1>2, <2>1, <2>3, <2>5 DEF FreeOf
  <2>6. QED
    BY <1>2, <2>1, <2>4, <2>5 DEF Reserved
<1>3. ASSUME NEW x \in Unedited', NEW y \in Unedited', x # y,
             NEW res, res \in Holds(x)', res \in Holds(y)'
      PROVE  ~ Overlaps(Win(x)', Win(y)')
  <2>1. CASE res \in Gained(c, x) /\ Commit(c) /\ Win(x)' = GainWin(c, x)
    BY <1>2, <1>3, <2>1
  <2>2. CASE res \in Gained(c, y) /\ Commit(c) /\ Win(y)' = GainWin(c, y)
    BY <1>1, <1>2, <1>3, <2>2
  <2>3. CASE res \in Holds(x) /\ Win(x)' = Win(x) /\ res \in Holds(y) /\ Win(y)' = Win(y)
    <3>1. x \in Unedited /\ y \in Unedited
      BY <1>3, Grown
    <3>2. QED
      BY <1>0, <1>3, <2>3, <3>1 DEF UneditedNeverOverlap, NoClash, Unedited
  <2>4. QED
    BY <1>3, <2>1, <2>2, <2>3, Grown
<1>4. QED
  BY <1>3 DEF UneditedNeverOverlap, NoClash, Unedited

LEMMA ParticipantsFinite ==
  ASSUME NEW S, S \subseteq Students, NEW T, T \subseteq S
  PROVE  /\ IsFiniteSet(S) /\ Cardinality(S) \in Nat /\ Cardinality(T) \in Nat
         /\ Cardinality(T) <= Cardinality(S)
BY RowAssumption, FS_Subset, FS_CardinalityType

LEMMA CapacityShrinks ==
  ASSUME NEW cap \in Null(Nat), NEW S, S \subseteq Students, NEW T, T \subseteq S,
         CapacityFits(cap, Cardinality(S))
  PROVE  CapacityFits(cap, Cardinality(T))
BY ParticipantsFinite DEF CapacityFits, Null

LEMMA CapacityStep ==
  ASSUME EvInv, NEW c \in Clients, ClientStep(c)
  PROVE  UneditedFitCapacity'
<1>0. /\ events \in [Events -> EventRow \cup {None}]
      /\ touched \subseteq touched' /\ SeatsKnown /\ UneditedFitCapacity
  BY EventsStay DEF EvInv, LandInv, TypeInv, TypeOK, Known, UneditedEventsHold
<1>1. ASSUME NEW e \in Events \ touched', Exists(events'[e]), events'[e].capacity # None
      PROVE  Cardinality(Participants(e)') <= events'[e].capacity
  <2>1. CASE Exists(events[e]) /\ seats' \subseteq seats
    <3>1. /\ events'[e].capacity = events[e].capacity /\ events[e].capacity \in Null(Nat)
          /\ e \in Events \ touched
      BY <1>0, <1>1, <2>1, EventsStay DEF EventRow, Exists
    <3>2. CapacityFits(events[e].capacity, Cardinality(Participants(e)))
      BY <1>0, <2>1, <3>1 DEF UneditedFitCapacity, FitsCapacity, CapacityFits
    <3>3. Participants(e)' \subseteq Participants(e) /\ Participants(e) \subseteq Students
      BY <2>1 DEF Participants
    <3>4. CapacityFits(events[e].capacity, Cardinality(Participants(e)'))
      BY <3>1, <3>2, <3>3, CapacityShrinks
    <3>5. QED
      BY <1>1, <3>1, <3>4 DEF CapacityFits
  <2>2. CASE WritesSeats(c)
    <3>1. /\ phase[c] = "open" /\ ~ MustAbort(c) /\ UNCHANGED <<events, touched>>
          /\ seats' = (seats \ tx[c].del) \cup tx[c].add /\ req[c].op \in SeatOps
      BY <2>2 DEF WritesSeats, Commit
    <3>2. tx[c].add \cup tx[c].del \subseteq {req[c].event} \X Students /\ Fits(c)
      BY <3>1 DEF EvInv, Shape, SeatOps, Bookings
    <3>3. CASE e = req[c].event
      <4>1. CapacityFits(events[e].capacity,
                         Cardinality((Participants(e) \ Dropped(c, e)) \cup Added(c, e)))
        BY <1>1, <3>1, <3>2, <3>3 DEF Fits
      <4>2. Participants(e)' = (Participants(e) \ Dropped(c, e)) \cup Added(c, e)
        BY <3>1, <3>2, <3>3 DEF Participants, Dropped, Added
      <4>3. QED
        BY <1>1, <3>1, <4>1, <4>2 DEF CapacityFits
    <3>4. CASE e # req[c].event
      <4>1. Participants(e)' = Participants(e)
        BY <3>1, <3>2, <3>4 DEF Participants
      <4>2. QED
        BY <1>0, <1>1, <3>1, <4>1 DEF UneditedFitCapacity, FitsCapacity, Exists
    <3>5. QED
      BY <3>3, <3>4
  <2>3. CASE WritesNew(c) /\ ~ Exists(events[e])
    <3>1. seats' = seats /\ Participants(e)' = {}
      BY <1>0, <2>3 DEF WritesNew, SeatsKnown, Participants, Exists
    <3>2. events'[e].capacity \in Nat
      BY <1>0, <1>1, <2>3 DEF WritesNew, Exists, EventRow, Null
    <3>3. QED
      BY <3>1, <3>2, FS_EmptySet
  <2>4. Exists(events[e]) \/ WritesNew(c)
    <3>1. CASE ~ Exists(events[e])
      BY <1>0, <1>1, <3>1, Effects, NoneAssumption
         DEF WritesLesson, Edits, Deletes, WritesSeats, Removes, Exists
    <3>2. QED
      BY <3>1
  <2>5. WritesSeats(c) \/ seats' \subseteq seats
    BY Effects DEF WritesLesson, WritesNew, Edits, Deletes, Removes
  <2>6. QED
    BY <2>1, <2>2, <2>3, <2>4, <2>5
<1>2. QED
  BY <1>1 DEF UneditedFitCapacity, FitsCapacity, Exists

\* What an open transaction is about to add can only shrink under it.
LEMMA GainStays ==
  ASSUME EvInv, NEW c \in Clients, ClientStep(c), NEW d \in Clients \ {c}, phase[d] = "open",
         NEW x \in Unedited', NEW res \in Gained(d, x)'
  PROVE  /\ tx'[d] = tx[d] /\ x \in Unedited /\ res \in Gained(d, x)
         /\ GainWin(d, x)' = GainWin(d, x)
<1>0. /\ tx'[d] = tx[d] /\ Shape(d) /\ TxType(tx[d]) /\ SeenAsIs(d)
      /\ touched \subseteq touched' /\ x \in Unedited
  BY OthersStep, EventsStay DEF EvInv, LandInv, TypeInv, TypeOK, Others, Known, Unedited
<1>1. CASE x \in DOMAIN tx[d].lessons
  BY <1>0, <1>1 DEF Gained, GainWin
<1>2. CASE x \notin DOMAIN tx[d].lessons /\ x \in DOMAIN tx[d].events
  BY <1>0, <1>2, EventsStay DEF Gained, GainWin, TxType, Exists
<1>3. CASE x \notin DOMAIN tx[d].lessons /\ x \notin DOMAIN tx[d].events
  <2>1. x \in Events \ touched' /\ LiveEvent(events'[x]) /\ <<x, res>> \in tx[d].add
        /\ res \in Students
    BY <1>0, <1>3, RowAssumption DEF Gained, Added, LiveEvent, Exists, Unedited
  <2>2. x = req[d].event /\ req[d].op \in SeatOps
    BY <1>0, <2>1 DEF Shape, NoSeats
  <2>3. Exists(events[x])
    BY <1>0, <1>3, <2>2 DEF SeenAsIs
  <2>4. events'[x] = events[x]
    BY <2>1, <2>3, EventsStay
  <2>5. QED
    BY <1>0, <1>3, <2>1, <2>4 DEF Gained, GainWin, Added, LiveEvent, Exists
<1>4. QED
  BY <1>1, <1>2, <1>3

LEMMA ReservedStays ==
  ASSUME EvInv, NEW c \in Clients, ClientStep(c), NEW d \in Clients \ {c}, phase[d] = "open"
  PROVE  Reserved(d)'
<1>0. /\ tx'[d] = tx[d] /\ since[d] \subseteq since'[d] /\ Reserved(d)
      /\ MustAbort(d) => MustAbort(d)'
  BY OthersStep, AbortStays DEF EvInv, LandInv, Others
<1>1. ASSUME NEW x \in Unedited', NEW res \in Gained(d, x)', ~ MustAbort(d)',
             x \in Lessons, Keeps(x, tx[d].lessons[x], res)
      PROVE  Keeps(x, tx[d].lessons[x], res)'
  <2>1. x \in DOMAIN tx[d].lessons
    BY <1>0, <1>1, RowAssumption DEF Gained, EvInv, LandInv, TypeInv, TypeOK, TxType
  <2>2. lessons'[x] = lessons[x]
    <3>1. CASE lessons' = lessons
      BY <3>1
    <3>2. CASE lessons' # lessons
      <4>1. PICK l \in Lessons : \E row \in LessonRow : Lands(c, l, row)
        BY <3>2, LessonWritten DEF EvInv
      <4>2. PICK row \in LessonRow : Lands(c, l, row)
        BY <4>1
      <4>3. l # x /\ lessons' = [lessons EXCEPT ![l] = row]
        BY <1>1, <2>1, <4>2 DEF Lands
      <4>4. QED
        BY <1>1, <4>3 DEF EvInv, LandInv, TypeInv, TypeOK
    <3>3. QED
      BY <3>1, <3>2
  <2>3. QED
    BY <1>0, <1>1, <2>2 DEF Keeps, LessonHolds, LiveLesson, Exists
<1>2. ASSUME NEW x \in Unedited', NEW res, NEW w, ~ MustAbort(d)',
             [res |-> res, win |-> w] \in tx[d].reads, [res |-> res, win |-> w] \in tx[d].writes,
             FreeOf(x, res, w)
      PROVE  FreeOf(x, res, w)'
  <2>1. ASSUME NEW y \in Unedited', y # x, res \in Holds(y)', Overlaps(Win(y)', w)
        PROVE  FALSE
    <3>1. y \in Unedited
      BY <2>1, Grown
    <3>2. ~ (res \in Holds(y) /\ Win(y)' = Win(y))
      BY <1>2, <2>1, <3>1 DEF FreeOf
    <3>3. Commit(c) /\ res \in Gained(c, y) /\ Win(y)' = GainWin(c, y)
      BY <2>1, <3>2, Grown
    <3>4. phase[c] = "open" /\ ~ MustAbort(c) /\ Reserved(c) /\ Footprint(tx[c]) \in since'[d]
      BY <3>3, PublishedOthers DEF Commit, EvInv, LandInv
    <3> DEFINE v == GainWin(c, y)
    <3>5. ~ (y \in Lessons /\ Keeps(y, tx[c].lessons[y], res))
      <4>1. SUFFICES ASSUME y \in Lessons, Keeps(y, tx[c].lessons[y], res) PROVE FALSE
        OBVIOUS
      <4>2. y \in DOMAIN tx[c].lessons
        BY <3>3, <3>4, <4>1, RowAssumption
           DEF Gained, EvInv, LandInv, TypeInv, TypeOK, TxType
      <4>3. res \in Holds(y) /\ Win(y) = GainWin(c, y)
        BY <4>1, <4>2 DEF Keeps, Holds, Win, GainWin
      <4>4. QED
        BY <3>2, <3>3, <4>3
    <3>6. [res |-> res, win |-> v] \in tx[c].reads /\ [res |-> res, win |-> v] \in tx[c].writes
      BY <3>1, <3>3, <3>4, <3>5 DEF Reserved
    <3>7. Overlaps(v, w) /\ Overlaps(w, v)
      BY <2>1, <3>3 DEF Overlaps
    <3>8. /\ Hits(tx[d].reads, Footprint(tx[c]).writes)
          /\ Hits(Footprint(tx[c]).reads, tx[d].writes)
      BY <1>2, <3>6, <3>7 DEF Hits, Footprint
    <3>9. QED
      BY <1>0, <1>2, <3>4, <3>8 DEF MustAbort
  <2>2. QED
    BY <2>1 DEF FreeOf
<1>3. ASSUME NEW x \in Unedited', NEW res \in Gained(d, x)'
      PROVE  LET claim == [res |-> res, win |-> GainWin(d, x)'] IN
             /\ claim \in tx'[d].writes
             /\ \/ MustAbort(d)'
                \/ x \in Lessons /\ Keeps(x, tx[d].lessons[x], res)'
                \/ claim \in tx'[d].reads /\ FreeOf(x, res, GainWin(d, x))'
  <2>1. x \in Unedited /\ res \in Gained(d, x) /\ GainWin(d, x)' = GainWin(d, x)
    BY <1>3, GainStays
  <2>2. PICK w : w = GainWin(d, x) /\ w = GainWin(d, x)'
    BY <2>1
  <2> DEFINE claim == [res |-> res, win |-> w]
  <2>3. /\ claim \in tx[d].writes
        /\ \/ MustAbort(d)
           \/ x \in Lessons /\ Keeps(x, tx[d].lessons[x], res)
           \/ claim \in tx[d].reads /\ FreeOf(x, res, w)
    BY <1>0, <2>1, <2>2 DEF Reserved
  <2>4. claim \in tx[d].reads /\ FreeOf(x, res, w) /\ ~ MustAbort(d)' => FreeOf(x, res, w)'
    BY <1>2, <1>3, <2>3
  <2>5. FreeOf(x, res, w)' => FreeOf(x, res, GainWin(d, x))'
    BY <2>2
  <2>6. QED
    BY <1>0, <1>1, <1>3, <2>2, <2>3, <2>4, <2>5
<1>4. QED
  BY <1>0, <1>3 DEF Reserved

LEMMA ShapeStays ==
  ASSUME EvInv, NEW c \in Clients, ClientStep(c), NEW d \in Clients \ {c}, phase[d] = "open"
  PROVE  Shape(d)'
<1>1. tx'[d] = tx[d] /\ req'[d] = req[d] /\ Shape(d) /\ TxType(tx[d])
  BY OthersStep DEF EvInv, LandInv, TypeInv, TypeOK, Others
<1>2. \A e \in DOMAIN tx[d].events : Exists(events[e]) => Exists(events[e])'
  BY <1>1, EventsStay DEF TxType, Exists
<1>3. QED
  BY <1>1, <1>2 DEF Shape, NoSeats

LEMMA FitsStays ==
  ASSUME EvInv, NEW c \in Clients, ClientStep(c), NEW d \in Clients \ {c}, phase[d] = "open"
  PROVE  Fits(d)'
<1> DEFINE e == req[d].event
           claim == [res |-> e, win |-> AllDay]
           left == (Participants(e) \ Dropped(d, e)) \cup Added(d, e)
<1> SUFFICES ASSUME req[d].op \in SeatOps, e \notin touched'
             PROVE  Fits(d)'
  BY OthersStep DEF Fits, EvInv, LandInv, Others
<1>0. /\ tx'[d] = tx[d] /\ req'[d] = req[d] /\ e \in Events \ touched /\ req[d] \in SeatRequests
      /\ Fits(d) /\ SeenAsIs(d) /\ (MustAbort(d) => MustAbort(d)')
  BY OthersStep, AbortStays, EventsStay, RequestShape
     DEF EvInv, LandInv, TypeInv, TypeOK, Others, Known, SeatOps, SeatRequests
<1>1. /\ Exists(events[e]) /\ events[e].capacity \in Null(Nat)
      /\ events'[e].capacity = events[e].capacity
  BY <1>0, EventsStay DEF SeenAsIs, EvInv, LandInv, TypeInv, TypeOK, Exists, EventRow
<1>2. claim \in tx[d].reads /\ claim \in tx[d].writes
      /\ (MustAbort(d) \/ CapacityFits(events[e].capacity, Cardinality(left)))
  BY <1>0 DEF Fits
<1>3. CASE Participants(e)' \subseteq Participants(e)
  <2>1. left' \subseteq left /\ left \subseteq Students
    BY <1>0, <1>3 DEF Participants, Dropped, Added
  <2>2. CapacityFits(events[e].capacity, Cardinality(left))
          => CapacityFits(events[e].capacity, Cardinality(left'))
    BY <1>1, <2>1, CapacityShrinks
  <2>3. QED
    BY <1>0, <1>1, <1>2, <2>2 DEF Fits, CapacityFits
<1>4. CASE ~ (Participants(e)' \subseteq Participants(e))
  <2>1. WritesSeats(c)
    BY <1>0, <1>4, Effects
       DEF WritesLesson, WritesNew, Edits, Deletes, Removes, Participants
  <2>2. /\ Commit(c) /\ phase[c] = "open" /\ ~ MustAbort(c) /\ req[c].op \in SeatOps
        /\ seats' = (seats \ tx[c].del) \cup tx[c].add
    BY <2>1 DEF WritesSeats, Commit
  <2>3. tx[c].add \subseteq {req[c].event} \X Students /\ Fits(c)
    BY <2>2 DEF EvInv, Shape, SeatOps, Bookings
  <2>4. e = req[c].event
    BY <1>0, <1>4, <2>2, <2>3 DEF Participants
  <2>5. claim \in tx[c].reads /\ claim \in tx[c].writes
    BY <1>0, <2>2, <2>3, <2>4 DEF Fits
  <2>6. Footprint(tx[c]) \in since'[d]
    BY <2>2, PublishedOthers DEF Commit, EvInv, LandInv
  <2>7. Overlaps(AllDay, AllDay)
    BY HorizonAssumption DEF AllDay, Overlaps
  <2>8. MustAbort(d)'
    <3>1. claim \in Footprint(tx[c]).reads /\ claim \in Footprint(tx[c]).writes
      BY <2>5 DEF Footprint
    <3>2. /\ Hits(tx[d].reads, Footprint(tx[c]).writes)
          /\ Hits(Footprint(tx[c]).reads, tx[d].writes)
      BY <1>2, <2>7, <3>1 DEF Hits
    <3>3. QED
      BY <1>0, <2>6, <3>2 DEF MustAbort
  <2>9. QED
    BY <1>0, <1>2, <2>8 DEF Fits
<1>5. QED
  BY <1>3, <1>4

LEMMA NotBusyHere ==
  ASSUME NEW x \in Unedited, NEW res, NEW w, NEW self, self = x \/ self = None,
         ~ Busy(res, w, self)
  PROVE  FreeOf(x, res, w)
BY RowAssumption, NoneAssumption DEF Busy, FreeOf, Unedited, Holds, Win

LEMMA FreeStays ==
  ASSUME UNCHANGED <<lessons, events, seats, touched>>, NEW x, NEW res, NEW w, FreeOf(x, res, w)
  PROVE  FreeOf(x, res, w)'
BY DEF FreeOf, Unedited, Holds, Win, LessonHolds, LiveLesson, EventHolds, SeatHolds,
       Participants, LiveEvent, Exists

\* A transaction that will put row in lesson l.
LEMMA OpensOnLesson ==
  ASSUME EvInv, NEW c \in Clients, NEW l \in Lessons, NEW row \in LessonRow, NEW reads,
         Begin(c, LessonTx(l, row, reads)), req[c].op \in Bookings \cup {"updateLesson"},
         \A res \in LessonHolds(row) :
           \/ Keeps(l, row, res)
           \/ [res |-> res, win |-> row.win] \in reads
                /\ (~ Busy(res, row.win, l) \/ ~ Busy(res, row.win, None))
  PROVE  Shape(c)' /\ Reserved(c)' /\ Fits(c)'
<1> DEFINE t == LessonTx(l, row, reads)
<1>1. tx'[c] = t /\ UNCHANGED <<req, lessons, events, seats, touched>>
  BY BeginOthers DEF EvInv, LandInv
<1>2. /\ DOMAIN t.lessons = {l} /\ t.lessons[l] = row /\ t.reads = reads
      /\ DOMAIN t.events = {} /\ NoSeats(t)
      /\ \A res \in LessonHolds(row) : [res |-> res, win |-> row.win] \in t.writes
  BY DEF LessonTx, Idle, NoRows, NoSeats, Claims
<1> HIDE DEF t
<1>3. ASSUME NEW x \in Unedited, NEW res \in Gained(c, x)'
      PROVE  x = l /\ res \in LessonHolds(row) /\ GainWin(c, x)' = row.win
  BY <1>1, <1>2, <1>3 DEF Gained, GainWin, Added, NoSeats
<1>4. ASSUME NEW res \in LessonHolds(row)
      PROVE  \/ Keeps(l, row, res)
             \/ [res |-> res, win |-> row.win] \in reads /\ FreeOf(l, res, row.win)
  BY <1>4, NotBusyHere DEF Unedited
<1>5. \A x, res, w : FreeOf(x, res, w) => FreeOf(x, res, w)'
  BY <1>1, FreeStays
<1>6. \A res : Keeps(l, row, res) => Keeps(l, row, res)'
  BY <1>1 DEF Keeps, LessonHolds, LiveLesson, Exists
<1>7. Reserved(c)'
  <2>1. ASSUME NEW x \in Unedited, NEW res \in Gained(c, x)'
        PROVE  LET claim == [res |-> res, win |-> GainWin(c, x)'] IN
               /\ claim \in tx'[c].writes
               /\ \/ x \in Lessons /\ Keeps(x, tx[c].lessons[x], res)'
                  \/ claim \in tx'[c].reads /\ FreeOf(x, res, GainWin(c, x))'
    <3>1. x = l /\ res \in LessonHolds(row) /\ GainWin(c, x)' = row.win
      BY <1>3, <2>1
    <3>2. CASE Keeps(l, row, res)
      BY <1>1, <1>2, <1>6, <3>1, <3>2
    <3>3. CASE [res |-> res, win |-> row.win] \in reads /\ FreeOf(l, res, row.win)
      <4>1. FreeOf(l, res, row.win)'
        BY <1>5, <3>3
      <4>2. FreeOf(x, res, GainWin(c, x))'
        BY <3>1, <4>1
      <4>3. QED
        BY <1>1, <1>2, <3>1, <3>3, <4>2
    <3>4. QED
      BY <1>4, <3>1, <3>2, <3>3
  <2>2. QED
    BY <1>1, <2>1 DEF Reserved, Unedited
<1>8. QED
  BY <1>1, <1>2, <1>7 DEF Shape, Fits, NoSeats, SeatOps, Bookings

LEMMA LessonOpens ==
  ASSUME EvInv, NEW c \in Clients, ClientStep(c), phase'[c] = "open",
         BookLesson(c) \/ BookOwnLesson(c) \/ UpdateLesson(c)
  PROVE  Shape(c)' /\ Reserved(c)' /\ Fits(c)'
<1>0. /\ lessons \in [Lessons -> LessonRow \cup {None}]
      /\ ~ Rejected(c) /\ req[c] \in Requests
  BY WhatOpens DEF EvInv, LandInv, TypeInv, TypeOK
<1>1. CASE BookLesson(c)
  <2> DEFINE q == req[c]
             row == NewLesson(q, q.vehicle)
  <2>1. q \in BookRequests
    BY <1>0, <1>1, RequestShape DEF BookLesson
  <2>2. row \in LessonRow /\ q.lesson \in Lessons /\ row.win = q.win /\ q.op \in Bookings
    BY <2>1, NewLessonType DEF BookRequests, NewLesson, Bookings
  <2>3. /\ LessonWindowAvailable(row, None) /\ ~ Busy(q.vehicle, q.win, None)
        /\ Begin(c, LessonTx(q.lesson, row, LessonReads(row) \cup VehicleReads(row)))
    BY <1>0, <1>1 DEF BookLesson
  <2>4. \A res \in LessonHolds(row) :
          /\ [res |-> res, win |-> row.win] \in LessonReads(row) \cup VehicleReads(row)
          /\ ~ Busy(res, row.win, None)
    BY <2>2, <2>3, BookedIsFree
  <2> HIDE DEF row
  <2>5. QED
    BY <2>2, <2>3, <2>4, OpensOnLesson
<1>2. CASE BookOwnLesson(c)
  <2> DEFINE q == req[c]
             row(v) == NewLesson(q, v)
  <2>1. q \in BookOwnRequests
    BY <1>0, <1>2, RequestShape DEF BookOwnLesson
  <2>2. PICK v \in Vehicles :
          /\ ~ Busy(v, q.win, None) /\ LessonWindowAvailable(row(v), None)
          /\ Begin(c, LessonTx(q.lesson, row(v), LessonReads(row(v)) \cup VehicleReads(row(v))))
    BY <1>0, <1>2 DEF BookOwnLesson
  <2>3. row(v) \in LessonRow /\ q.lesson \in Lessons /\ row(v).win = q.win /\ q.op \in Bookings
    BY <2>1, NewLessonType DEF BookOwnRequests, NewLesson, Bookings
  <2>4. \A res \in LessonHolds(row(v)) :
          /\ [res |-> res, win |-> row(v).win] \in LessonReads(row(v)) \cup VehicleReads(row(v))
          /\ ~ Busy(res, row(v).win, None)
    BY <2>2, <2>3, BookedIsFree
  <2> HIDE DEF row
  <2>5. QED
    BY <2>2, <2>3, <2>4, OpensOnLesson
<1>3. CASE UpdateLesson(c)
  <2> DEFINE q == req[c]
             old == lessons[q.lesson]
             new == MergedLesson(q, old)
             reads == VehicleReads(new) \cup (IF Moved(old, new) THEN LessonReads(new) ELSE {})
  <2>1. q \in UpdateLessonRequests /\ q.lesson \in Lessons /\ q.op = "updateLesson"
    BY <1>0, <1>3, RequestShape DEF UpdateLesson, UpdateLessonRequests
  <2>2. /\ Editable(old) /\ UpdateLessonAllowed(q, prep[c], old, new)
        /\ Begin(c, LessonTx(q.lesson, new, reads))
    BY <1>0, <1>3 DEF UpdateLesson
  <2>3. old \in LessonRow
    BY <1>0, <2>1, <2>2 DEF Editable, Exists
  <2>4. new \in LessonRow
    BY <2>1, <2>3, MergedLessonType
  <2>5. \A res \in LessonHolds(new) :
          \/ Keeps(q.lesson, new, res)
          \/ [res |-> res, win |-> new.win] \in reads /\ ~ Busy(res, new.win, q.lesson)
    BY <2>1, <2>2, <2>3, UpdatedIsFree
  <2> HIDE DEF new, reads
  <2>6. QED
    BY <2>1, <2>2, <2>4, <2>5, OpensOnLesson
<1>4. QED
  BY <1>1, <1>2, <1>3

\* A transaction on events, the new one aside, adds nothing to a row nobody edited.
LEMMA EventOpens ==
  ASSUME EvInv, NEW c \in Clients, ClientStep(c), phase'[c] = "open",
         CreateEvent(c) \/ UpdateEvent(c) \/ BulkStatus(c)
  PROVE  Shape(c)' /\ Reserved(c)' /\ Fits(c)'
<1>0. /\ events \in [Events -> EventRow \cup {None}] /\ TypeInv /\ Known
      /\ ~ Rejected(c) /\ req[c] \in Requests /\ req[c] # None
      /\ UNCHANGED <<req, lessons, events, seats, touched>>
  BY WhatOpens DEF EvInv, LandInv, TypeInv, TypeOK
<1>1. \A puts, reads :
        LET t == EventTx(puts, reads) IN
        /\ DOMAIN t.lessons = {} /\ t.events = puts /\ NoSeats(t) /\ t.reads = reads
        /\ \A e \in DOMAIN puts : \A res \in EventHolds(puts[e]) :
             [res |-> res, win |-> puts[e].win] \in t.writes
  BY DEF EventTx, Idle, NoRows, NoSeats, Claims
<1>2. CASE CreateEvent(c)
  <2> DEFINE q == req[c]
             row == NewEvent(q)
             puts == [k \in {q.event} |-> row]
             reads == Claims(EventHolds(row), row.win)
             t == EventTx(puts, reads)
  <2>1. CreateAllowed(row) /\ Begin(c, t) /\ q.op = "createEvent"
    BY <1>0, <1>2 DEF CreateEvent
  <2>2. q \in CreateRequests /\ q.event \in Events /\ events[q.event] = None
    BY <1>0, <2>1, RequestShape DEF CreateRequests, Known, EventIdsFresh
  <2>3. row.status = "PLANNED"
    BY DEF NewEvent
  <2>4. \A res \in EventHolds(row) : /\ [res |-> res, win |-> row.win] \in reads
                                     /\ ~ Busy(res, row.win, None)
    BY <2>1 DEF CreateAllowed, EventWindowAvailable, EventHolds, Drive, Claims
  <2>5. DOMAIN puts = {q.event} /\ puts[q.event] = row
    OBVIOUS
  <2> HIDE DEF row, puts, reads
  <2>6. /\ DOMAIN t.lessons = {} /\ t.events = puts /\ NoSeats(t) /\ t.reads = reads
        /\ \A res \in EventHolds(row) : [res |-> res, win |-> row.win] \in t.writes
    BY <1>1, <2>5
  <2>7. tx'[c] = t
    BY <1>0, <2>1, BeginOthers
  <2> HIDE DEF t
  <2>8. Shape(c)'
    BY <1>0, <2>1, <2>3, <2>5, <2>6, <2>7 DEF Shape, NoSeats
  <2>9. ASSUME NEW x \in Unedited, NEW res \in Gained(c, x)'
        PROVE  x = q.event /\ res \in EventHolds(row) /\ GainWin(c, x)' = row.win
    BY <1>0, <2>5, <2>6, <2>7, <2>9 DEF Gained, GainWin, Added, NoSeats
  <2>10. ASSUME NEW x \in Unedited, NEW res \in Gained(c, x)'
         PROVE  LET claim == [res |-> res, win |-> GainWin(c, x)'] IN
                /\ claim \in tx'[c].writes /\ claim \in tx'[c].reads
                /\ FreeOf(x, res, GainWin(c, x))'
    <3>1. x = q.event /\ res \in EventHolds(row) /\ GainWin(c, x)' = row.win
      BY <2>9, <2>10
    <3>2. PICK w : w = row.win
      OBVIOUS
    <3>3. FreeOf(x, res, w)
      BY <2>4, <2>10, <3>1, <3>2, NotBusyHere
    <3>4. FreeOf(x, res, w)'
      BY <1>0, <3>3, FreeStays
    <3>5. FreeOf(x, res, GainWin(c, x))'
      BY <3>1, <3>2, <3>4
    <3>6. QED
      BY <2>4, <2>6, <2>7, <3>1, <3>5
  <2>11. Reserved(c)'
    BY <1>0, <2>10 DEF Reserved, Unedited
  <2>12. Fits(c)'
    BY <1>0, <2>1 DEF Fits, SeatOps
  <2>13. QED
    BY <2>8, <2>11, <2>12
<1>3. CASE UpdateEvent(c) \/ BulkStatus(c)
  <2>1. PICK puts, reads : /\ Begin(c, EventTx(puts, reads))
                           /\ \A e \in DOMAIN puts : Exists(events[e])
    <3>1. CASE UpdateEvent(c)
      <4>1. PICK row, reads : Begin(c, EventTx([k \in {req[c].event} |-> row], reads))
        BY <1>0, <3>1 DEF UpdateEvent
      <4>2. phase[c] = "ready" /\ req[c].op = "updateEvent"
        BY <3>1 DEF UpdateEvent
      <4>3. events[req[c].event] \in EventRow
        BY <1>0, <4>2 DEF TypeInv, PrepType
      <4>4. QED
        BY <4>1, <4>3, NoneAssumption DEF Exists
    <3>2. CASE BulkStatus(c)
      <4>1. /\ phase[c] = "ready" /\ req[c].op = "bulkStatus"
            /\ Begin(c, EventTx([e \in prep[c].allowed |-> [events[e] EXCEPT !.status = req[c].status]], {}))
        BY <3>2 DEF BulkStatus
      <4>2. \A e \in prep[c].allowed : events[e] \in EventRow
        BY <1>0, <4>1 DEF TypeInv, PrepType
      <4>3. QED
        BY <4>1, <4>2, NoneAssumption DEF Exists
    <3>3. QED
      BY <1>3, <3>1, <3>2
  <2> DEFINE t == EventTx(puts, reads)
  <2>2. tx'[c] = t
    BY <1>0, <2>1, BeginOthers
  <2>3. DOMAIN t.lessons = {} /\ t.events = puts /\ NoSeats(t)
    BY <1>1
  <2>4. req[c].op \in {"updateEvent", "bulkStatus"}
    BY <1>3 DEF UpdateEvent, BulkStatus
  <2> HIDE DEF t
  <2>5. Shape(c)'
    BY <1>0, <2>1, <2>2, <2>3, <2>4 DEF Shape, NoSeats, Exists
  <2>6. \A x : Gained(c, x)' = {}
    BY <1>0, <2>1, <2>2, <2>3 DEF Gained, Added, NoSeats, Exists
  <2>7. QED
    BY <1>0, <2>4, <2>5, <2>6 DEF Reserved, Fits, SeatOps
<1>4. QED
  BY <1>2, <1>3

\* A change of seats found the students it adds free, and seats enough.
LEMMA SeatsOpen ==
  ASSUME EvInv, NEW c \in Clients, ClientStep(c), phase'[c] = "open",
         AssignStudents(c) \/ ReplaceStudents(c)
  PROVE  Shape(c)' /\ Reserved(c)' /\ Fits(c)'
<1> DEFINE q == req[c]
           e == q.event
           P == Participants(e)
<1>0. /\ TypeInv /\ Known /\ ~ Rejected(c) /\ q \in SeatRequests /\ q.op \in SeatOps
      /\ UNCHANGED <<req, prep, lessons, events, seats, touched>>
      /\ phase[c] = "ready"
  BY WhatOpens, RequestShape DEF EvInv, LandInv, AssignStudents, ReplaceStudents, SeatOps
<1>1. PICK add \in SUBSET Students, del \in SUBSET Students :
        /\ Begin(c, SeatTx(e, add, del, prep[c].win))
        /\ AllFree(add, prep[c].win, e)
        /\ CapacityFits(prep[c].capacity, Cardinality((P \ del) \cup add))
  <2>1. CASE AssignStudents(c)
    <3> DEFINE new == q.students \ P
    <3>1. /\ CapacityFits(prep[c].capacity, Cardinality(P \cup new))
          /\ AllFree(new, prep[c].win, e) /\ Begin(c, SeatTx(e, new, {}, prep[c].win))
      BY <1>0, <2>1 DEF AssignStudents
    <3>2. new \in SUBSET Students /\ (P \ {}) \cup new = P \cup new
      BY <1>0 DEF SeatRequests
    <3>3. QED
      BY <3>1, <3>2
  <2>2. CASE ReplaceStudents(c)
    <3> DEFINE target == q.students
               new == target \ P
               old == P \ target
    <3>1. /\ CapacityFits(prep[c].capacity, Cardinality(target))
          /\ AllFree(target, prep[c].win, e) /\ Begin(c, SeatTx(e, new, old, prep[c].win))
      BY <1>0, <2>2 DEF ReplaceStudents
    <3>2. /\ new \in SUBSET Students /\ old \in SUBSET Students
          /\ (P \ old) \cup new = target
      BY <1>0 DEF SeatRequests, Participants
    <3>3. AllFree(new, prep[c].win, e)
      BY <3>1 DEF AllFree
    <3>4. QED
      BY <3>1, <3>2, <3>3
  <2>3. QED
    BY <2>1, <2>2
<1> DEFINE t == SeatTx(e, add, del, prep[c].win)
<1>2. tx'[c] = t
  BY <1>0, <1>1, BeginOthers
<1>3. /\ DOMAIN t.lessons = {} /\ DOMAIN t.events = {}
      /\ t.add = {e} \X add /\ t.del = {e} \X del
      /\ [res |-> e, win |-> AllDay] \in t.reads /\ [res |-> e, win |-> AllDay] \in t.writes
      /\ \A s \in add : [res |-> s, win |-> prep[c].win] \in t.reads
      /\ LiveEvent(events[e]) => \A s \in add : [res |-> s, win |-> events[e].win] \in t.writes
  BY DEF SeatTx, SeatReads, SeatsOf, Claims, Idle, NoRows
<1> HIDE DEF t
<1>4. Shape(c)'
  BY <1>0, <1>2, <1>3 DEF Shape
<1>5. /\ e \in Events /\ Exists(events[e])
      /\ e \notin touched => /\ prep[c].win = events[e].win
                             /\ prep[c].capacity = events[e].capacity
  BY <1>0 DEF Known, SeenAsIs, SeatRequests
<1>6. Dropped(c, e)' = del /\ Added(c, e)' = add /\ Participants(e)' = P
  BY <1>0, <1>2, <1>3 DEF Dropped, Added, Participants
<1>7. Fits(c)'
  BY <1>0, <1>1, <1>2, <1>3, <1>5, <1>6 DEF Fits
<1>8. ASSUME NEW x \in Unedited, NEW res \in Gained(c, x)'
      PROVE  LET claim == [res |-> res, win |-> GainWin(c, x)'] IN
             /\ claim \in tx'[c].writes /\ claim \in tx'[c].reads
             /\ FreeOf(x, res, GainWin(c, x))'
  <2>1. x \in Events \ touched /\ x = e /\ LiveEvent(events[e]) /\ res \in add
    BY <1>0, <1>2, <1>3, <1>8, RowAssumption DEF Gained, Added, Unedited, LiveEvent, Exists
  <2>2. GainWin(c, x)' = prep[c].win /\ prep[c].win = events[e].win
    BY <1>0, <1>2, <1>3, <1>5, <2>1 DEF GainWin
  <2>3. PICK w : w = prep[c].win
    OBVIOUS
  <2>4. FreeOf(x, res, w)
    BY <1>1, <1>8, <2>1, <2>3, NotBusyHere DEF AllFree
  <2>5. FreeOf(x, res, w)'
    BY <1>0, <2>4, FreeStays
  <2>6. FreeOf(x, res, GainWin(c, x))'
    BY <2>2, <2>3, <2>5
  <2>7. QED
    BY <1>2, <1>3, <2>1, <2>2, <2>6
<1>9. Reserved(c)'
  BY <1>0, <1>8 DEF Reserved, Unedited
<1>10. QED
  BY <1>4, <1>7, <1>9

LEMMA EvStep == EvInv /\ [Next]_vars => EvInv'
<1> SUFFICES ASSUME EvInv, [Next]_vars PROVE EvInv'
  OBVIOUS
<1>1. LandInv' /\ TypeInv'
  BY LandStep DEF EvInv, LandInv
<1>2. CASE UNCHANGED <<lessons, events, seats, touched, req, phase, prep, tx, since>>
  <2>1. Known'
    BY <1>2 DEF EvInv, Known, SeatsKnown, Planned, EventIdsFresh, SeenAsIs, Exists
  <2>2. \A e : Participants(e)' = Participants(e)
    BY <1>2 DEF Participants
  <2>3. UneditedEventsHold'
    <3>1. \A x : Holds(x)' = Holds(x) /\ Win(x)' = Win(x)
      BY <1>2, <2>2 DEF Holds, Win, LessonHolds, LiveLesson, EventHolds, SeatHolds,
                        LiveEvent, Exists
    <3>2. UneditedNeverOverlap'
      BY <1>2, <3>1 DEF EvInv, UneditedEventsHold, UneditedNeverOverlap, NoClash
    <3>3. UneditedFitCapacity'
      BY <1>2, <2>2 DEF EvInv, UneditedEventsHold, UneditedFitCapacity, FitsCapacity, Exists
    <3>4. QED
      BY <3>2, <3>3 DEF UneditedEventsHold
  <2>4. \A c \in Clients : Shape(c) => Shape(c)'
    BY <1>2 DEF Shape, NoSeats, Exists
  <2>5. \A c \in Clients : Fits(c) => Fits(c)'
    BY <1>2, <2>2 DEF Fits, MustAbort, Dropped, Added
  <2>6. ASSUME NEW c \in Clients, Reserved(c) PROVE Reserved(c)'
    <3>1. \A x : Gained(c, x)' = Gained(c, x) /\ GainWin(c, x)' = GainWin(c, x)
      BY <1>2 DEF Gained, GainWin, Added, LiveEvent, Exists
    <3>2. \A x, res, w : FreeOf(x, res, w) => FreeOf(x, res, w)'
      BY <1>2, FreeStays
    <3>3. \A x, r, res : Keeps(x, r, res) => Keeps(x, r, res)'
      BY <1>2 DEF Keeps, LessonHolds, LiveLesson, Exists
    <3>4. ASSUME NEW x \in Unedited', NEW res \in Gained(c, x)'
          PROVE  LET claim == [res |-> res, win |-> GainWin(c, x)'] IN
                 /\ claim \in tx'[c].writes
                 /\ \/ MustAbort(c)'
                    \/ x \in Lessons /\ Keeps(x, tx[c].lessons[x], res)'
                    \/ claim \in tx'[c].reads /\ FreeOf(x, res, GainWin(c, x))'
      <4>1. PICK w : w = GainWin(c, x) /\ w = GainWin(c, x)'
        BY <3>1
      <4>2. x \in Unedited /\ res \in Gained(c, x)
        BY <1>2, <3>1, <3>4 DEF Unedited
      <4>3. /\ [res |-> res, win |-> w] \in tx[c].writes
            /\ \/ MustAbort(c)
               \/ x \in Lessons /\ Keeps(x, tx[c].lessons[x], res)
               \/ [res |-> res, win |-> w] \in tx[c].reads /\ FreeOf(x, res, w)
        BY <2>6, <4>1, <4>2 DEF Reserved
      <4>4. FreeOf(x, res, w) => FreeOf(x, res, GainWin(c, x))'
        <5>1. FreeOf(x, res, w) => FreeOf(x, res, w)'
          BY <3>2
        <5>2. QED
          BY <4>1, <5>1
      <4>5. Keeps(x, tx[c].lessons[x], res) => Keeps(x, tx[c].lessons[x], res)'
        BY <1>2 DEF Keeps, LessonHolds, LiveLesson, Exists
      <4>6. MustAbort(c) => MustAbort(c)'
        BY <1>2 DEF MustAbort
      <4>7. QED
        BY <1>2, <4>1, <4>3, <4>4, <4>5, <4>6
    <3>5. QED
      BY <3>4 DEF Reserved
  <2>7. QED
    BY <1>1, <1>2, <2>1, <2>3, <2>4, <2>5, <2>6 DEF EvInv
<1>3. ASSUME NEW c \in Clients, ClientStep(c) PROVE EvInv'
  <2>1. Known' /\ UneditedEventsHold'
    BY <1>1, <1>3, KnownStep, ApartStep, CapacityStep DEF UneditedEventsHold
  <2>2. phase'[c] = "open" => Shape(c)' /\ Reserved(c)' /\ Fits(c)'
    BY <1>3, WhatOpens, LessonOpens, EventOpens, SeatsOpen DEF EvInv, LandInv, Openers
  <2>3. ASSUME NEW d \in Clients \ {c}, phase'[d] = "open"
        PROVE  Shape(d)' /\ Reserved(d)' /\ Fits(d)'
    <3>1. phase[d] = "open"
      BY <1>3, <2>3, OthersStep DEF Others, EvInv, LandInv
    <3>2. QED
      BY <1>3, <3>1, ShapeStays, ReservedStays, FitsStays
  <2>4. QED
    BY <1>1, <2>1, <2>2, <2>3 DEF EvInv
<1>4. Tick \/ UNCHANGED vars
        => UNCHANGED <<lessons, events, seats, touched, req, phase, prep, tx, since>>
  BY DEF Tick, vars
<1>5. QED
  BY <1>2, <1>3, <1>4 DEF Next, ClientStep

LEMMA InitEv == Init => EvInv
<1> SUFFICES ASSUME Init PROVE EvInv
  OBVIOUS
<1>1. Known
  BY DEF Init, Known, SeatsKnown, Planned, EventIdsFresh, SeenAsIs, Exists
<1>2. UneditedEventsHold
  BY RowAssumption DEF Init, UneditedEventsHold, UneditedNeverOverlap, NoClash, Holds, LessonHolds, LiveLesson,
         EventHolds, SeatHolds, LiveEvent, Exists, UneditedFitCapacity, FitsCapacity
<1>3. QED
  BY <1>1, <1>2, InitLand DEF Init, EvInv

\* Lessons, events and seats never clash and no event is overfilled, as long as the
\* event was not patched (event/writeConflicts.ts, event/participants.ts).
THEOREM PromisesKept == Spec => []UneditedEventsHold
<1>1. EvInv => UneditedEventsHold
  BY DEF EvInv
<1>2. QED
  BY InitEv, EvStep, <1>1, PTL DEF Spec

(***************************************************************************)
(* The preflight of an edit is written apart from the write path, with the *)
(* conditions in another order and under other guards; on a form that says *)
(* all there is to say the two come to the same.                           *)
(***************************************************************************)
\* What becomes of a lesson when its form is saved.
LEMMA SavedLesson ==
  ASSUME NEW l \in Lessons, NEW i \in Instructors, NEW v \in Vehicles, NEW w \in Windows,
         lessons[l] \in LessonRow
  PROVE  LET q == SaveLesson(l, i, v, w)
             old == lessons[l]
             new == MergedLesson(q, old)
         IN /\ q.lesson = l /\ q.instructor = i /\ q.expected
            /\ new \in LessonRow /\ new.status = old.status
            /\ new.student = old.student /\ new.course = old.course
            /\ new.win = w /\ new.instructor = i /\ new.vehicle = v
            /\ new = old <=> w = old.win /\ i = old.instructor /\ v = old.vehicle
<1> DEFINE q == SaveLesson(l, i, v, w)
           old == lessons[l]
           new == MergedLesson(q, old)
<1>1. q.lesson = l /\ q.instructor = i /\ q.vehicle = v /\ q.win = w /\ q.expected
  BY DEF SaveLesson
<1>2. new = [old EXCEPT !.instructor = i, !.vehicle = v, !.win = w]
  BY <1>1, KeepAssumption DEF MergedLesson, Given
<1>3. /\ new \in LessonRow /\ new.status = old.status
      /\ new.student = old.student /\ new.course = old.course
      /\ new.win = w /\ new.instructor = i /\ new.vehicle = v
      /\ new = old <=> w = old.win /\ i = old.instructor /\ v = old.vehicle
  BY <1>2 DEF LessonRow
<1> QED
  BY <1>1, <1>3

\* Times are numbers: a start that is not past and is not now is to come.
LEMMA StillToCome ==
  ASSUME NEW w \in Windows, now \in Ticks, w.from # now
  PROVE  /\ w.from >= now <=> w.from > now
         /\ w.from > now => w.to > now
BY HorizonAssumption DEF Windows, Ticks

\* A lesson that has not started: preflight and the write path agree on every form.
LEMMA LessonPreflight ==
  ASSUME TypeOK, NEW l \in Lessons, NEW i \in Instructors, NEW v \in Vehicles,
         NEW w \in Windows, Exists(lessons[l]), NotStarted(lessons[l]), w.from # now
  PROVE  LessonEditAvailable(SaveLesson(l, i, v, w)) <=> LessonSaved(SaveLesson(l, i, v, w))
<1> DEFINE q == SaveLesson(l, i, v, w)
           old == lessons[l]
           new == MergedLesson(q, old)
           allowed == LessonWindowAvailable(new, l)
           busy == Busy(v, w, l)
<1>1. old \in LessonRow
  BY DEF TypeOK, Exists
<1>2. /\ q.lesson = l /\ q.instructor = i /\ q.expected
      /\ new \in LessonRow /\ new.status = old.status
      /\ new.win = w /\ new.instructor = i /\ new.vehicle = v
      /\ new = old <=> w = old.win /\ i = old.instructor /\ v = old.vehicle
  BY <1>1, SavedLesson
<1>3. /\ w.from >= now <=> w.from > now
      /\ Editable(old)
      /\ NotStarted(new) <=> w.from > now
  <2>1. now \in Ticks /\ old.win \in Windows
    BY <1>1 DEF TypeOK, LessonRow
  <2>2. old.win.from # now
    BY <2>1, HorizonAssumption DEF NotStarted, Windows, Ticks
  <2>3. QED
    BY <1>2, <2>1, <2>2, StillToCome DEF Editable, NotStarted
<1>4. LessonEditAvailable(q) <=>
        /\ w # old.win => PracticeLength(w) /\ w.from > now
        /\ w # old.win \/ i # old.instructor => allowed
        /\ new # old => ~ busy
  BY <1>2, <1>3 DEF LessonEditAvailable, Moved
<1>5. LessonSaved(q) <=>
        \/ new = old
        \/ /\ w # old.win \/ i # old.instructor => w.from > now /\ allowed
           /\ w # old.win => PracticeLength(w)
           /\ ~ busy
  <2>1. SameLesson(old, old)
    BY DEF SameLesson
  <2>2. QED
    BY <1>2, <1>3, <2>1 DEF LessonSaved, UpdateLessonAllowed, Moved
<1>6. w = old.win => w.from > now
  BY DEF NotStarted
<1> QED
  BY <1>2, <1>4, <1>5, <1>6

\* What becomes of an event when its form is saved.
LEMMA SavedEvent ==
  ASSUME NEW e \in Events, NEW i \in Instructors, NEW v \in Vehicles, NEW w \in Windows,
         events[e] \in EventRow
  PROVE  LET q == SaveEvent(e, i, v, w)
             old == events[e]
             new == MergedEvent(q, old)
         IN /\ q.event = e /\ q.type = Keep
            /\ new.type = old.type /\ new.capacity = old.capacity
            /\ new.win = w /\ new.instructor = i
            /\ Drive(old) => /\ new.vehicle = v
                             /\ new = old <=> w = old.win /\ i = old.instructor /\ v = old.vehicle
<1> DEFINE q == SaveEvent(e, i, v, w)
           old == events[e]
           new == MergedEvent(q, old)
<1>1. /\ q.event = e /\ q.type = Keep /\ q.status = Keep /\ q.capacity = Keep
      /\ q.instructor = i /\ q.win = w
      /\ q.vehicle = IF Drive(old) THEN v ELSE Keep
  BY DEF SaveEvent
<1>2. new = [old EXCEPT !.type = old.type, !.status = old.status, !.instructor = i, !.win = w,
                        !.vehicle = EventVehicle(old.type, Given(q.vehicle, old.vehicle)),
                        !.capacity = old.capacity]
  BY <1>1, KeepAssumption DEF MergedEvent, Given
<1>3. /\ new.type = old.type /\ new.capacity = old.capacity /\ new.win = w /\ new.instructor = i
      /\ new.vehicle = EventVehicle(old.type, Given(q.vehicle, old.vehicle))
      /\ new = old <=> w = old.win /\ i = old.instructor /\ new.vehicle = old.vehicle
  BY <1>2 DEF EventRow
<1>4. Drive(old) => new.vehicle = v
  BY <1>1, <1>3, KeepAssumption DEF Drive, EventVehicle, Given
<1> QED
  BY <1>1, <1>3, <1>4

\* An event that is not overfull: the two agree on every form, participants included.
LEMMA EventPreflight ==
  ASSUME TypeOK, NEW e \in Events, NEW i \in Instructors, NEW v \in Vehicles,
         NEW w \in Windows, Exists(events[e]), FitsCapacity(e)
  PROVE  EventEditAvailable(SaveEvent(e, i, v, w)) <=> EventSaved(SaveEvent(e, i, v, w))
<1> DEFINE q == SaveEvent(e, i, v, w)
           old == events[e]
           new == MergedEvent(q, old)
           length == EventLength(old.type, w)
           window == EventWindowAvailable(new, e) /\ AllFree(Participants(e), w, e)
           busy == Busy(v, w, e)
<1>1. old \in EventRow
  BY DEF TypeOK, Exists
<1>2. /\ q.event = e /\ q.type = Keep
      /\ new.type = old.type /\ new.capacity = old.capacity
      /\ new.win = w /\ new.instructor = i
      /\ Drive(old) => /\ new.vehicle = v
                       /\ new = old <=> w = old.win /\ i = old.instructor /\ v = old.vehicle
  BY <1>1, SavedEvent
<1>3. CapacityFits(new.capacity, Cardinality(Participants(e)))
  BY <1>2 DEF CapacityFits, FitsCapacity
<1>4. Replanned(old, new) <=> Drive(old) /\ new # old
  BY <1>2 DEF Replanned, Drive, Moved
<1>5. EventEditAvailable(q) <=>
        /\ old.active
        /\ w # old.win => length
        /\ Moved(old, new) => window
        /\ Drive(old) /\ new # old => ~ busy
  BY <1>2 DEF EventEditAvailable
<1>6. EventSaved(q) <=>
        /\ old.active
        /\ w # old.win => length
        /\ Moved(old, new) => window
        /\ Drive(old) /\ new # old => ~ busy
  BY <1>2, <1>3, <1>4 DEF EventSaved, UpdateEventAllowed
<1> QED
  BY <1>5, <1>6

\* Whatever was booked before, by however many handlers: the preflight of an edit says
\* yes exactly when the write path would accept the form (lessonEditCheck.ts against
\* lesson/writeModel.ts, eventChecks.ts against event/writeModel.ts).
THEOREM PreflightAgreement == Spec => []PreflightAgreesWithSave
<1>1. TypeOK => PreflightAgreesWithSave
  BY LessonPreflight, EventPreflight DEF PreflightAgreesWithSave, FormWindows
<1> QED
  BY <1>1, TypeCorrect, PTL

(***************************************************************************)
(* Free windows.  subtractWindows walks over the used windows with a       *)
(* cursor; Gaps says what it returns, in one sentence: the windows in the  *)
(* way of nothing used that reach from one used window, or the cursor, to  *)
(* the next, or the end of the day.  That the loop computes them is an     *)
(* induction over the set of used windows, done by its least               *)
(* counterexample: the smallest set for which it does not.                 *)
(***************************************************************************)
\* The order of the numbers, for the least of a set of them.
Less == {pair \in Nat \X Nat : pair[1] < pair[2]}

LEMMA LessIsLess == Less = OpToRel(<, Nat)
BY Zenon DEF OpToRel, Less

LEMMA NotLess ==
  ASSUME NEW m \in Nat, NEW n \in Nat, <<n, m>> \notin Less
  PROVE  m <= n
BY DEF Less

LEMMA LeastNumber ==
  ASSUME NEW S \in SUBSET Nat, S # {}
  PROVE  \E m \in S : \A n \in S : m <= n
<1>1. IsWellFoundedOn(Less, Nat)
  BY NatLessThanWellFounded, LessIsLess, Zenon
<1>2. PICK m \in S : \A n \in S : <<n, m>> \notin Less
  BY <1>1, WFMin, Zenon
<1>3. \A n \in S : m <= n
  BY <1>2, NotLess, Zenon
<1>4. QED
  BY <1>3, Zenon

LEMMA GreatestTick ==
  ASSUME NEW S \in SUBSET Ticks, S # {}
  PROVE  \E m \in S : \A n \in S : n <= m
<1> DEFINE D == {Horizon - n : n \in S}
<1>1. D \in SUBSET Nat /\ D # {}
  <2>1. \A n \in S : Horizon - n \in Nat
    BY HorizonAssumption DEF Ticks
  <2>2. QED
    BY <2>1
<1> HIDE DEF D
<1>2. PICK d \in D : \A n \in D : d <= n
  BY <1>1, LeastNumber
<1>3. PICK m \in S : d = Horizon - m
  BY DEF D
<1>4. \A n \in S : Horizon - m <= Horizon - n
  BY <1>2, <1>3 DEF D
<1>5. QED
  BY <1>3, <1>4, HorizonAssumption DEF Ticks

\* In whole minutes a used window may be empty.
Spans == {w \in [from : Ticks, to : Ticks] : w.from <= w.to}

LEMMA SpanIs ==
  ASSUME NEW w \in Spans
  PROVE  /\ w.from \in Ticks /\ w.to \in Ticks /\ w.from <= w.to
         /\ w.from \in Nat /\ w.to \in Nat
BY HorizonAssumption DEF Spans, Ticks

\* The used window the loop takes next is one that begins first.
LEMMA EarliestFirst ==
  ASSUME NEW U \in SUBSET Spans, U # {}
  PROVE  Earliest(U) \in U /\ \A v \in U : Earliest(U).from <= v.from
<1> DEFINE starts == {u.from : u \in U}
<1>1. starts \in SUBSET Nat /\ starts # {}
  BY SpanIs
<1> HIDE DEF starts
<1>2. PICK t \in starts : \A n \in starts : t <= n
  BY <1>1, LeastNumber
<1>3. \E u \in U : \A v \in U : u.from <= v.from
  BY <1>2 DEF starts
<1>4. QED
  BY <1>3 DEF Earliest

LEMMA SpansFinite == IsFiniteSet(Spans)
<1> DEFINE f == [p \in Ticks \X Ticks |-> Between(p[1], p[2])]
<1>1. IsFiniteSet(Ticks)
  BY HorizonAssumption, FS_Interval DEF Ticks
<1>2. IsFiniteSet(Ticks \X Ticks)
  BY <1>1, FS_Product
<1>3. Spans \subseteq {f[p] : p \in Ticks \X Ticks}
  <2> SUFFICES ASSUME NEW w \in Spans PROVE \E p \in Ticks \X Ticks : w = f[p]
    OBVIOUS
  <2>1. w = Between(w.from, w.to) /\ w.from \in Ticks /\ w.to \in Ticks
    BY DEF Spans, Between
  <2>2. <<w.from, w.to>> \in Ticks \X Ticks /\ f[<<w.from, w.to>>] = w
    BY <2>1
  <2>3. QED
    BY <2>2
<1>4. IsFiniteSet({f[p] : p \in Ticks \X Ticks})
  <2>1. f \in Surjection(Ticks \X Ticks, {f[p] : p \in Ticks \X Ticks})
    BY DEF Surjection
  <2>2. QED
    BY <1>2, <2>1, FS_Surjection
<1>5. QED
  BY <1>3, <1>4, FS_Subset

\* What can be subtracted from: a day off is an empty one.
Day(base) == /\ base \in [from : Ticks, to : Ticks] /\ base.from <= base.to

\* What is left of base from c on when U is used.
Gaps(base, U, c) ==
  {w \in Windows :
     /\ c <= w.from /\ w.to <= base.to /\ \A u \in U : ~ Overlaps(u, w)
     /\ w.from = c \/ \E u \in U : u.to = w.from
     /\ w.to = base.to \/ \E u \in U : u.from = w.to}

\* One round of the loop, g being what the rounds after it return.
Round(base, g, U, c) ==
  IF U = {} \/ Earliest(U).from >= base.to
  THEN IF c < base.to THEN {Between(c, base.to)} ELSE {}
  ELSE LET u == Earliest(U)
           start == Larger(u.from, base.from)
       IN (IF start > c THEN {Between(c, start)} ELSE {})
            \cup g[U \ {u}][Larger(c, Smaller(u.to, base.to))]
Loop(base, used, g) ==
  [U \in SUBSET used |-> [c \in base.from..base.to |-> Round(base, g, U, c)]]

LEMMA LoopOf ==
  ASSUME NEW base, NEW used
  PROVE  Subtract(base, used) = (CHOOSE g : g = Loop(base, used, g))[used][base.from]
BY DEF Subtract, Loop, Round

LEMMA WindowIs ==
  ASSUME NEW w \in Windows
  PROVE  /\ w.from \in Ticks /\ w.to \in Ticks /\ w.from < w.to
         /\ w.from \in Int /\ w.to \in Int
         /\ w = Between(w.from, w.to)
BY HorizonAssumption DEF Windows, Ticks, Between

LEMMA BetweenIs ==
  ASSUME NEW a \in Ticks, NEW b \in Ticks, a < b
  PROVE  Between(a, b) \in Windows /\ Between(a, b).from = a /\ Between(a, b).to = b
BY DEF Windows, Between

LEMMA DayIs ==
  ASSUME NEW base, Day(base)
  PROVE  /\ base.from \in Ticks /\ base.to \in Ticks /\ base.from <= base.to
         /\ base.from \in Int /\ base.to \in Int
         /\ \A c \in base.from..base.to : c \in Ticks /\ c \in Int
BY HorizonAssumption DEF Day, Ticks

\* The last round: nothing used begins before the end.
LEMMA LastGap ==
  ASSUME NEW base, Day(base), NEW U \in SUBSET Spans, NEW c \in base.from..base.to,
         \A u \in U : u.from >= base.to
  PROVE  Gaps(base, U, c) = IF c < base.to THEN {Between(c, base.to)} ELSE {}
<1>1. ASSUME NEW w \in Gaps(base, U, c)
      PROVE  c < base.to /\ w = Between(c, base.to)
  <2>1. /\ w \in Windows /\ c <= w.from /\ w.to <= base.to
        /\ w.from = c \/ \E u \in U : u.to = w.from
        /\ w.to = base.to \/ \E u \in U : u.from = w.to
    BY <1>1 DEF Gaps
  <2>2. ASSUME NEW u \in U PROVE u.to # w.from
    BY <2>1, DayIs, WindowIs, SpanIs
  <2>3. ASSUME NEW u \in U, u.from = w.to PROVE w.to = base.to
    BY <2>1, <2>3, DayIs, WindowIs, SpanIs
  <2>4. w.from = c /\ w.to = base.to
    BY <2>1, <2>2, <2>3
  <2>5. QED
    BY <2>1, <2>4, WindowIs, SpanIs
<1>2. ASSUME c < base.to
      PROVE  Between(c, base.to) \in Gaps(base, U, c)
  <2>1. /\ Between(c, base.to) \in Windows
        /\ Between(c, base.to).from = c /\ Between(c, base.to).to = base.to
    BY <1>2, DayIs, BetweenIs
  <2>2. ASSUME NEW u \in U PROVE ~ Overlaps(u, Between(c, base.to))
    BY <2>1, DayIs, WindowIs, SpanIs DEF Overlaps
  <2>3. QED
    BY <2>1, <2>2, DayIs DEF Gaps
<1>3. QED
  BY <1>1, <1>2

\* Any other round: the gap up to u, the first used window, and those after it.
LEMMA NextGap ==
  ASSUME NEW base, Day(base), NEW U \in SUBSET Spans, NEW c \in base.from..base.to,
         NEW u \in U, u.from < base.to, \A v \in U : u.from <= v.from
  PROVE  LET start == Larger(u.from, base.from)
             d == Larger(c, Smaller(u.to, base.to))
         IN /\ d \in base.from..base.to
            /\ Gaps(base, U, c) =
                 (IF start > c THEN {Between(c, start)} ELSE {}) \cup Gaps(base, U \ {u}, d)
<1> DEFINE start == Larger(u.from, base.from)
           d == Larger(c, Smaller(u.to, base.to))
<1>1. /\ d \in base.from..base.to /\ d \in Int /\ c \in Int /\ c \in Ticks
      /\ u.from \in Int /\ u.to \in Int /\ u.from <= u.to
      /\ base.from \in Int /\ base.to \in Int
      /\ d >= c /\ (d >= u.to \/ d = base.to) /\ (d = c \/ d = u.to \/ d = base.to)
      /\ (d = base.to => c = d \/ u.to >= d)
      /\ start > c <=> u.from > c
      /\ u.from > c => start = u.from /\ u.from \in Ticks
  BY DayIs, WindowIs, SpanIs DEF Larger, Smaller
<1> HIDE DEF start, d
<1>2. ASSUME NEW w \in Gaps(base, U, c)
      PROVE  (u.from > c /\ w = Between(c, u.from)) \/ w \in Gaps(base, U \ {u}, d)
  <2>1. /\ w \in Windows /\ c <= w.from /\ w.to <= base.to
        /\ \A v \in U : ~ Overlaps(v, w)
        /\ w.from = c \/ \E v \in U : v.to = w.from
        /\ w.to = base.to \/ \E v \in U : v.from = w.to
    BY <1>2 DEF Gaps
  <2>2. w.from \in Int /\ w.to \in Int /\ w.from < w.to
    BY <2>1, WindowIs, SpanIs
  <2>3. w.to <= u.from \/ u.to <= w.from
    BY <1>1, <2>1, <2>2 DEF Overlaps
  <2>4. CASE w.to <= u.from
    <3>1. w.from = c
      BY <2>1, <2>2, <2>4, <1>1, WindowIs, SpanIs
    <3>2. w.to = u.from
      BY <2>1, <2>2, <2>4, <1>1, WindowIs, SpanIs
    <3>3. QED
      BY <2>1, <2>2, <3>1, <3>2, WindowIs, SpanIs
  <2>5. CASE u.to <= w.from
    <3>1. d <= w.from
      BY <1>1, <2>1, <2>2, <2>5
    <3>2. w.from = d \/ \E v \in U \ {u} : v.to = w.from
      BY <1>1, <2>1, <2>2, <2>5, <3>1
    <3>3. w.to = base.to \/ \E v \in U \ {u} : v.from = w.to
      BY <1>1, <2>1, <2>2, <2>5
    <3>4. QED
      BY <2>1, <3>1, <3>2, <3>3 DEF Gaps
  <2>6. QED
    BY <2>3, <2>4, <2>5
<1>3. ASSUME u.from > c
      PROVE  Between(c, u.from) \in Gaps(base, U, c)
  <2>1. /\ Between(c, u.from) \in Windows
        /\ Between(c, u.from).from = c /\ Between(c, u.from).to = u.from
    BY <1>1, <1>3, BetweenIs
  <2>2. ASSUME NEW v \in U PROVE ~ Overlaps(v, Between(c, u.from))
    BY <2>1, <1>1, WindowIs, SpanIs DEF Overlaps
  <2>3. QED
    BY <1>1, <2>1, <2>2 DEF Gaps
<1>4. ASSUME NEW w \in Gaps(base, U \ {u}, d)
      PROVE  w \in Gaps(base, U, c)
  <2>1. /\ w \in Windows /\ d <= w.from /\ w.to <= base.to
        /\ \A v \in U \ {u} : ~ Overlaps(v, w)
        /\ w.from = d \/ \E v \in U \ {u} : v.to = w.from
        /\ w.to = base.to \/ \E v \in U \ {u} : v.from = w.to
    BY <1>4 DEF Gaps
  <2>2. w.from \in Int /\ w.to \in Int /\ w.from < w.to
    BY <2>1, WindowIs, SpanIs
  <2>3. c <= w.from /\ u.to <= w.from
    BY <1>1, <2>1, <2>2
  <2>4. ~ Overlaps(u, w)
    BY <1>1, <2>2, <2>3 DEF Overlaps
  <2>5. w.from = c \/ \E v \in U : v.to = w.from
    BY <1>1, <2>1, <2>2, <2>3
  <2>6. QED
    BY <2>1, <2>3, <2>4, <2>5 DEF Gaps
<1>5. QED
  BY <1>1, <1>2, <1>3, <1>4 DEF start, d

LEMMA RoundGaps ==
  ASSUME NEW base, Day(base), NEW U \in SUBSET Spans, NEW c \in base.from..base.to, NEW g,
         \A u \in U, d \in base.from..base.to : g[U \ {u}][d] = Gaps(base, U \ {u}, d)
  PROVE  Round(base, g, U, c) = Gaps(base, U, c)
<1>1. CASE U = {} \/ Earliest(U).from >= base.to
  <2>1. \A u \in U : u.from >= base.to
    <3> SUFFICES ASSUME NEW u \in U PROVE u.from >= base.to
      OBVIOUS
    <3>1. Earliest(U) \in Spans /\ u \in Spans /\ Earliest(U).from <= u.from
      BY EarliestFirst
    <3>2. QED
      BY <1>1, <3>1, DayIs, WindowIs, SpanIs
  <2>2. QED
    BY <1>1, <2>1, LastGap DEF Round
<1>2. CASE ~ (U = {} \/ Earliest(U).from >= base.to)
  <2> DEFINE u == Earliest(U)
             start == Larger(u.from, base.from)
             d == Larger(c, Smaller(u.to, base.to))
  <2>1. u \in U /\ u \in Spans /\ \A v \in U : u.from <= v.from
    BY <1>2, EarliestFirst
  <2>2. u.from < base.to
    BY <1>2, <2>1, DayIs, WindowIs, SpanIs
  <2>3. Round(base, g, U, c) = (IF start > c THEN {Between(c, start)} ELSE {}) \cup g[U \ {u}][d]
    BY <1>2 DEF Round
  <2> HIDE DEF u
  <2>4. /\ d \in base.from..base.to
        /\ Gaps(base, U, c) =
             (IF start > c THEN {Between(c, start)} ELSE {}) \cup Gaps(base, U \ {u}, d)
    BY <2>1, <2>2, NextGap
  <2>5. QED
    BY <2>1, <2>3, <2>4
<1>3. QED
  BY <1>1, <1>2

\* The loop returns the gaps.  A smallest set of used windows for which some round does
\* not would be one for which all the rounds after it do.
LEMMA SubtractGaps ==
  ASSUME NEW base, Day(base), NEW used \in SUBSET Spans
  PROVE  Subtract(base, used) = Gaps(base, used, base.from)
<1> DEFINE D == base.from..base.to
           G == [U \in SUBSET used |-> [c \in D |-> Gaps(base, U, c)]]
<1>1. G = Loop(base, used, G)
  <2>1. ASSUME NEW U \in SUBSET used, NEW c \in D
        PROVE  Round(base, G, U, c) = Gaps(base, U, c)
    <3>1. \A u \in U, d \in D : G[U \ {u}][d] = Gaps(base, U \ {u}, d)
      OBVIOUS
    <3> HIDE DEF G
    <3>2. QED
      BY <3>1, RoundGaps
  <2>2. QED
    BY <2>1 DEF Loop
<1>2. PICK g : g = Loop(base, used, g) /\ Subtract(base, used) = g[used][base.from]
  <2> HIDE DEF G
  <2>1. \E g : g = Loop(base, used, g)
    BY <1>1
  <2>2. (CHOOSE g : g = Loop(base, used, g)) = Loop(base, used, CHOOSE g : g = Loop(base, used, g))
    BY <2>1
  <2>3. QED
    BY <2>2, LoopOf
<1>3. ASSUME NEW U \in SUBSET used, NEW c \in D
      PROVE  g[U][c] = Round(base, g, U, c)
  <2>1. Loop(base, used, g)[U][c] = Round(base, g, U, c)
    BY DEF Loop
  <2>2. QED
    BY <1>2, <2>1
<1> DEFINE Wrong == {U \in SUBSET used : \E c \in D : g[U][c] # Gaps(base, U, c)}
           sizes == {Cardinality(U) : U \in Wrong}
<1>4. \A U \in SUBSET used : IsFiniteSet(U) /\ Cardinality(U) \in Nat
  BY SpansFinite, FS_Subset, FS_CardinalityType
<1>5. Wrong = {}
  <2> SUFFICES ASSUME Wrong # {} PROVE FALSE
    OBVIOUS
  <2>1. sizes \in SUBSET Nat /\ sizes # {}
    BY <1>4
  <2>2. PICK n \in sizes : \A m \in sizes : n <= m
    BY <2>1, LeastNumber
  <2>3. PICK U \in Wrong : n = Cardinality(U)
    BY <2>2
  <2>4. PICK c \in D : g[U][c] # Gaps(base, U, c)
    BY <2>3
  <2>5. ASSUME NEW u \in U, NEW d \in D
        PROVE  g[U \ {u}][d] = Gaps(base, U \ {u}, d)
    <3>1. IsFiniteSet(U) /\ Cardinality(U) \in Nat /\ Cardinality(U \ {u}) \in Nat
      BY <1>4, <2>3
    <3>2. Cardinality(U \ {u}) = Cardinality(U) - 1
      BY <3>1, FS_RemoveElement
    <3>3. U \ {u} \notin Wrong
      BY <2>2, <2>3, <3>1, <3>2
    <3>4. QED
      BY <2>3, <3>3
  <2>6. U \in SUBSET Spans
    BY <2>3
  <2> HIDE DEF Wrong
  <2>7. Round(base, g, U, c) = Gaps(base, U, c)
    BY <2>5, <2>6, RoundGaps
  <2>8. U \in SUBSET used
    BY <2>3 DEF Wrong
  <2>9. QED
    BY <1>3, <2>4, <2>7, <2>8
<1>6. base.from \in D /\ used \in SUBSET used
  BY DayIs
<1>7. QED
  BY <1>2, <1>5, <1>6

\* A window is in one of those that are left just when it is in the day and in the way of
\* none that is used.
LEMMA SubtractExact ==
  ASSUME NEW base, Day(base), NEW used \in SUBSET Spans, NEW w \in Windows
  PROVE  (\E f \in Subtract(base, used) : Within(w, f))
           <=> Within(w, base) /\ \A u \in used : ~ Overlaps(u, w)
<1> DEFINE F == Gaps(base, used, base.from)
<1>1. Subtract(base, used) = F
  BY SubtractGaps
<1>2. ASSUME NEW f \in F, Within(w, f)
      PROVE  Within(w, base) /\ \A u \in used : ~ Overlaps(u, w)
  <2>1. /\ f \in Windows /\ base.from <= f.from /\ f.to <= base.to
        /\ \A u \in used : ~ Overlaps(u, f)
    BY <1>2 DEF Gaps
  <2>2. Within(w, base)
    BY <1>2, <2>1, WindowIs, SpanIs, DayIs DEF Within
  <2>3. ASSUME NEW u \in used PROVE ~ Overlaps(u, w)
    BY <1>2, <2>1, WindowIs, SpanIs DEF Within, Overlaps
  <2>4. QED
    BY <2>2, <2>3
<1>3. ASSUME Within(w, base), \A u \in used : ~ Overlaps(u, w)
      PROVE  \E f \in F : Within(w, f)
  <2> DEFINE begins == {base.from} \cup {t \in Ticks : t <= w.from /\ \E u \in used : u.to = t}
             ends == {base.to} \cup {t \in Ticks : t >= w.to /\ \E u \in used : u.from = t}
  <2>1. /\ begins \in SUBSET Ticks /\ begins # {} /\ ends \in SUBSET Nat /\ ends # {}
        /\ ends \subseteq Ticks
    BY DayIs, HorizonAssumption DEF Ticks
  <2>2. PICK a \in begins : \A t \in begins : t <= a
    BY <2>1, GreatestTick
  <2>3. PICK b \in ends : \A t \in ends : b <= t
    BY <2>1, LeastNumber
  <2>4. /\ a \in Ticks /\ a <= w.from /\ base.from <= a
        /\ a = base.from \/ \E u \in used : u.to = a
    BY <1>3, <2>2, DayIs, WindowIs, SpanIs DEF Within
  <2>5. /\ b \in Ticks /\ w.to <= b /\ b <= base.to
        /\ b = base.to \/ \E u \in used : u.from = b
    BY <1>3, <2>3, DayIs, WindowIs, SpanIs DEF Within
  <2>6. /\ Between(a, b) \in Windows /\ Between(a, b).from = a /\ Between(a, b).to = b
        /\ a \in Int /\ b \in Int
    BY <2>4, <2>5, WindowIs, SpanIs, BetweenIs, HorizonAssumption DEF Ticks
  <2>7. ASSUME NEW u \in used PROVE ~ Overlaps(u, Between(a, b))
    <3>1. u.to <= w.from \/ u.from >= w.to
      BY <1>3, WindowIs, SpanIs DEF Overlaps
    <3>2. u.to <= a \/ u.from >= b
      BY <2>2, <2>3, <3>1, WindowIs, SpanIs
    <3>3. QED
      BY <2>6, <3>2, WindowIs, SpanIs DEF Overlaps
  <2>8. Between(a, b) \in F
    BY <2>4, <2>5, <2>6, <2>7 DEF Gaps
  <2>9. Within(w, Between(a, b))
    BY <2>4, <2>5, <2>6 DEF Within
  <2>10. QED
    BY <2>8, <2>9
<1>4. QED
  BY <1>1, <1>2, <1>3

(***************************************************************************)
(* Minutes.  Everything on a form is in whole minutes; a row need not be,  *)
(* and its used window is its own rounded down at both ends.               *)
(***************************************************************************)
LEMMA WholeIs ==
  ASSUME NEW t \in Int
  PROVE  /\ Whole(t) <=> \E q \in Int : t = Minute * q
         /\ \A q \in Int : Whole(Minute * q)
<1>1. Minute \in Nat \ {0}
  BY MinuteAssumption
<1>2. /\ t % Minute \in 0..(Minute - 1) /\ t \div Minute \in Int
      /\ t = Minute * (t \div Minute) + (t % Minute)
  BY <1>1, Division
<1>3. ASSUME NEW q \in Int PROVE Whole(Minute * q)
  <2>1. Minute * q \in Int /\ 0 \in 0..(Minute - 1) /\ Minute * q = Minute * q + 0
    BY <1>1
  <2>2. (Minute * q) % Minute = 0
    BY <1>1, <2>1, OneDivision
  <2>3. QED
    BY <2>2 DEF Whole
<1>4. Whole(t) => \E q \in Int : t = Minute * q
  <2> SUFFICES ASSUME t % Minute = 0 PROVE \E q \in Int : t = Minute * q
    BY DEF Whole
  <2>1. t = Minute * (t \div Minute)
    BY <1>1, <1>2
  <2>2. QED
    BY <1>2, <2>1
<1>5. QED
  BY <1>3, <1>4

LEMMA MinuteOfIs ==
  ASSUME NEW t \in Ticks
  PROVE  /\ MinuteOf(t) \in Ticks /\ MinuteOf(t) \in Int /\ t \in Int
         /\ MinuteOf(t) <= t /\ t < MinuteOf(t) + Minute
         /\ Whole(MinuteOf(t)) /\ (Whole(t) => MinuteOf(t) = t)
<1> DEFINE q == t \div Minute
<1>1. Minute \in Nat \ {0} /\ t \in Nat /\ Horizon \in Nat /\ t <= Horizon
  BY MinuteAssumption, HorizonAssumption DEF Ticks
<1>2. t % Minute \in 0..(Minute - 1) /\ q \in Int /\ t = Minute * q + (t % Minute)
  BY <1>1, Division
<1>3. MinuteOf(t) = Minute * q
  BY <1>1, <1>2 DEF MinuteOf
<1> HIDE DEF q
<1>4. q >= 0
  <2> SUFFICES ASSUME q < 0 PROVE FALSE
    BY <1>2
  <2>1. Minute * q + Minute <= Minute * 0
    BY <1>1, <1>2, NextMultiple
  <2>2. QED
    BY <1>1, <1>2, <2>1
<1>5. Minute * q \in Nat /\ Minute * q <= t /\ t < Minute * q + Minute
  BY <1>1, <1>2, <1>4
<1>6. Whole(Minute * q)
  BY <1>1, <1>2, WholeIs
<1>7. Whole(t) => Minute * q = t
  BY <1>1, <1>2, <1>5 DEF Whole
<1>8. QED
  BY <1>1, <1>3, <1>5, <1>6, <1>7 DEF Ticks

\* Two whole minutes are a minute apart.
LEMMA WholeSteps ==
  ASSUME NEW a \in Int, NEW b \in Int, Whole(a), Whole(b), a < b
  PROVE  a + Minute <= b
<1>1. PICK p \in Int : a = Minute * p
  BY WholeIs
<1>2. PICK q \in Int : b = Minute * q
  BY WholeIs
<1>3. ~ q < p /\ p # q
  <2> SUFFICES ASSUME q < p PROVE FALSE
    BY <1>1, <1>2, MinuteAssumption
  <2>1. Minute * q + Minute <= Minute * p
    BY MinuteAssumption, NextMultiple
  <2>2. QED
    BY <1>1, <1>2, <2>1, MinuteAssumption
<1>4. Minute * p + Minute <= Minute * q
  BY <1>3, MinuteAssumption, NextMultiple
<1>5. QED
  BY <1>1, <1>2, <1>4

LEMMA WholeSum ==
  ASSUME NEW a \in Int, NEW b \in Int, Whole(a), Whole(b)
  PROVE  Whole(a + b) /\ Whole(a - b)
<1>1. PICK p \in Int : a = Minute * p
  BY WholeIs
<1>2. PICK q \in Int : b = Minute * q
  BY WholeIs
<1>3. a + b = Minute * (p + q) /\ a - b = Minute * (p - q)
  BY <1>1, <1>2, MinuteAssumption
<1>4. QED
  BY <1>3, WholeIs

LEMMA WholeMultiple ==
  ASSUME NEW n \in Int, NEW s \in Nat \ {0}, Whole(s), n % s = 0
  PROVE  Whole(n)
<1> DEFINE k == n \div s
<1>1. k \in Int /\ n = s * k + (n % s)
  BY Division
<1> HIDE DEF k
<1>2. PICK p \in Int : s = Minute * p
  BY WholeIs
<1>3. n = (Minute * p) * k
  BY <1>1, <1>2
<1>4. (Minute * p) * k = Minute * (p * k) /\ p * k \in Int
  BY <1>1, MinuteAssumption
<1>5. QED
  BY <1>3, <1>4, WholeIs

LEMMA FormIs ==
  ASSUME NEW w \in FormWindows
  PROVE  /\ w \in Windows /\ Whole(w.from) /\ Whole(w.to)
         /\ TimeWindow(w) = w /\ w.from + Minute <= w.to
         /\ InnerPart(w) = Between(w.from + Minute - 1, w.to)
<1>1. /\ w \in Windows /\ Whole(w.from) /\ Whole(w.to)
      /\ w.from \in Ticks /\ w.to \in Ticks /\ w.from \in Int /\ w.to \in Int /\ w.from < w.to
  BY WindowIs DEF FormWindows
<1>2. MinuteOf(w.from) = w.from /\ MinuteOf(w.to) = w.to
  BY <1>1, MinuteOfIs
<1>3. w = [from |-> w.from, to |-> w.to]
  BY <1>1 DEF Windows
<1>4. w.from + Minute <= w.to
  BY <1>1, WholeSteps
<1>5. QED
  BY <1>1, <1>2, <1>3, <1>4 DEF TimeWindow, InnerPart

\* A window on the grid of a form, and a slot, is in whole minutes.
LEMMA OnGridWhole ==
  ASSUME NEW w \in Windows, NEW min \in Nat, Whole(min), OnGrid(w, min)
  PROVE  w \in FormWindows
<1> DEFINE d == Length(w) - min
<1>1. w.from \in Int /\ w.to \in Int /\ Length(w) = w.to - w.from /\ d \in Int
  BY WindowIs DEF Length
<1>2. StartStep \in Nat \ {0} /\ EndStep \in Nat \ {0} /\ Whole(StartStep) /\ Whole(EndStep)
  BY StepAssumption
<1>3. w.from % StartStep = 0 /\ d % EndStep = 0
  BY DEF OnGrid
<1>4. Whole(w.from) /\ Whole(d)
  <2> HIDE DEF d
  <2>1. QED
    BY <1>1, <1>2, <1>3, WholeMultiple
<1>5. w.to = w.from + (d + min)
  BY <1>1
<1> HIDE DEF d
<1>6. Whole(d + min) /\ d + min \in Int
  BY <1>1, <1>4, WholeSum
<1>7. Whole(w.to)
  BY <1>1, <1>4, <1>5, <1>6, WholeSum
<1>8. QED
  BY <1>4, <1>7 DEF FormWindows

LEMMA SlotsWhole ==
  ASSUME NEW f \in FormWindows, NEW w \in Slots(f)
  PROVE  w \in FormWindows /\ Within(w, f)
<1> DEFINE d == w.from - f.from
<1>1. /\ w \in Windows /\ Within(w, f) /\ Length(w) = SlotLength /\ d % SlotLength = 0
  BY DEF Slots
<1>2. /\ w.from \in Int /\ w.to \in Int /\ f.from \in Int /\ Whole(f.from) /\ d \in Int
      /\ w.to = w.from + SlotLength /\ SlotLength \in Nat \ {0} /\ Whole(SlotLength)
  BY <1>1, WindowIs, FormIs, StepAssumption DEF Length
<1>3. Whole(d)
  <2> HIDE DEF d
  <2>1. QED
    BY <1>1, <1>2, WholeMultiple
<1>4. w.from = f.from + d
  BY <1>2
<1> HIDE DEF d
<1>5. Whole(w.from)
  BY <1>2, <1>3, <1>4, WholeSum
<1>6. Whole(w.from + SlotLength)
  <2>1. w.from \in Int /\ SlotLength \in Int
    BY <1>2
  <2>2. QED
    BY <1>2, <1>5, <2>1, WholeSum
<1>7. QED
  BY <1>1, <1>2, <1>5, <1>6 DEF FormWindows

\* A window of a form is as long as it has minutes.
LEMMA FormMinutes ==
  ASSUME NEW w \in FormWindows
  PROVE  Length(w) = Minute * Minutes(w) /\ Minutes(w) \in Nat \ {0}
<1> DEFINE n == Length(w)
<1>1. Minute \in Nat \ {0} /\ 2 * Minute \in Nat \ {0} /\ n \in Int /\ Whole(n) /\ n > 0
  <2>1. w.from \in Int /\ w.to \in Int /\ w.from < w.to
    BY FormIs, WindowIs
  <2>2. Whole(w.to - w.from)
    BY <2>1, FormIs, WholeSum
  <2>3. QED
    BY <2>1, <2>2, MinuteAssumption DEF Length
<1> HIDE DEF n
<1>2. PICK k \in Int : n = Minute * k
  BY <1>1, WholeIs
<1>3. 2 * n + Minute = (2 * Minute) * k + Minute /\ Minute \in 0..(2 * Minute - 1)
  BY <1>1, <1>2
<1>4. (2 * n + Minute) \div (2 * Minute) = k
  <2>1. 2 * n + Minute \in Int
    BY <1>1
  <2>2. QED
    BY <1>1, <1>3, <2>1, OneDivision
<1>5. Minutes(w) = k
  BY <1>4 DEF Minutes, n
<1>6. k > 0
  <2> SUFFICES ASSUME k <= 0 PROVE FALSE
    BY <1>2
  <2>1. Minute * k <= 0
    BY <1>1
  <2>2. QED
    BY <1>1, <1>2, <2>1
<1>7. QED
  BY <1>2, <1>5, <1>6 DEF n

\* A used window, cut to the minute, is in the way of a window of a form just when its row
\* is in the way of all but the first minute of it and the tick before that.
LEMMA CutOverlap ==
  ASSUME NEW u \in Windows, NEW w \in FormWindows
  PROVE  Overlaps(TimeWindow(u), w) <=> Overlaps(u, InnerPart(w))
<1>1. /\ u.from \in Ticks /\ u.to \in Ticks
      /\ w.from \in Int /\ w.to \in Int /\ Whole(w.from) /\ Whole(w.to)
      /\ InnerPart(w).from = w.from + Minute - 1 /\ InnerPart(w).to = w.to
  BY FormIs, WindowIs DEF Between
<1>2. u.from < w.to <=> MinuteOf(u.from) < w.to
  <2>1. /\ MinuteOf(u.from) <= u.from /\ u.from < MinuteOf(u.from) + Minute
        /\ MinuteOf(u.from) \in Int /\ u.from \in Int /\ Whole(MinuteOf(u.from))
    BY <1>1, MinuteOfIs
  <2>2. MinuteOf(u.from) < w.to => MinuteOf(u.from) + Minute <= w.to
    BY <1>1, <2>1, WholeSteps
  <2>3. QED
    BY <1>1, <2>1, <2>2, MinuteAssumption
<1>3. w.from + Minute - 1 < u.to <=> w.from < MinuteOf(u.to)
  <2>1. /\ MinuteOf(u.to) <= u.to /\ u.to < MinuteOf(u.to) + Minute
        /\ MinuteOf(u.to) \in Int /\ u.to \in Int /\ Whole(MinuteOf(u.to))
    BY <1>1, MinuteOfIs
  <2>2. w.from < MinuteOf(u.to) => w.from + Minute <= MinuteOf(u.to)
    BY <1>1, <2>1, WholeSteps
  <2>3. QED
    BY <1>1, <2>1, <2>2, MinuteAssumption
<1>4. QED
  BY <1>1, <1>2, <1>3 DEF Overlaps, TimeWindow

\* What is used are windows of rows.
LEMMA UsedWindows ==
  ASSUME TypeOK, NEW R, NEW self
  PROVE  Used(R, self) \in SUBSET Windows
<1>1. ASSUME NEW l \in Lessons, LessonHolds(lessons[l]) \cap R # {}
      PROVE  lessons[l].win \in Windows
  <2>1. lessons[l] \in LessonRow
    BY <1>1 DEF TypeOK, LessonHolds, LiveLesson, Exists
  <2>2. QED
    BY <2>1 DEF LessonRow
<1>2. ASSUME NEW e \in Events, (EventHolds(events[e]) \cup SeatHolds(e, events[e])) \cap R # {}
      PROVE  events[e].win \in Windows
  <2>1. events[e] \in EventRow
    BY <1>2 DEF TypeOK, EventHolds, SeatHolds, LiveEvent, Exists
  <2>2. QED
    BY <2>1 DEF EventRow
<1>3. QED
  BY <1>1, <1>2 DEF Used, UsedLessons, UsedEvents

\* To be in the way of none of the used windows is to be free.
LEMMA UsedExact ==
  ASSUME NEW R, NEW w, NEW self
  PROVE  (\A u \in Used(R, self) : ~ Overlaps(u, w)) <=> AllFree(R, w, self)
<1>1. ASSUME AllFree(R, w, self), NEW u \in Used(R, self) PROVE ~ Overlaps(u, w)
  <2>1. CASE u \in UsedLessons(R, self)
    <3>1. PICK l \in Lessons \ {self} : u = lessons[l].win /\ LessonHolds(lessons[l]) \cap R # {}
      BY <2>1 DEF UsedLessons
    <3>2. PICK r \in R : r \in LessonHolds(lessons[l])
      BY <3>1
    <3>3. QED
      BY <1>1, <3>1, <3>2 DEF AllFree, Busy
  <2>2. CASE u \in UsedEvents(R, self)
    <3>1. PICK e \in Events \ {self} :
            u = events[e].win /\ (EventHolds(events[e]) \cup SeatHolds(e, events[e])) \cap R # {}
      BY <2>2 DEF UsedEvents
    <3>2. PICK r \in R : r \in EventHolds(events[e]) \cup SeatHolds(e, events[e])
      BY <3>1
    <3>3. QED
      BY <1>1, <3>1, <3>2 DEF AllFree, Busy
  <2>3. QED
    BY <1>1, <2>1, <2>2 DEF Used
<1>2. ASSUME \A u \in Used(R, self) : ~ Overlaps(u, w), NEW r \in R PROVE ~ Busy(r, w, self)
  <2>1. ASSUME NEW l \in Lessons \ {self}, r \in LessonHolds(lessons[l])
        PROVE  ~ Overlaps(lessons[l].win, w)
    <3>1. lessons[l].win \in UsedLessons(R, self)
      BY <1>2, <2>1 DEF UsedLessons
    <3>2. QED
      BY <1>2, <3>1 DEF Used
  <2>2. ASSUME NEW e \in Events \ {self}, r \in EventHolds(events[e]) \cup SeatHolds(e, events[e])
        PROVE  ~ Overlaps(events[e].win, w)
    <3>1. events[e].win \in UsedEvents(R, self)
      BY <1>2, <2>2 DEF UsedEvents
    <3>2. QED
      BY <1>2, <3>1 DEF Used
  <2>3. QED
    BY <2>1, <2>2 DEF Busy
<1>3. QED
  BY <1>1, <1>2 DEF AllFree

\* In whole minutes: a window of a form meets none of what is used when its inner part is
\* free.
LEMMA UsedSpans ==
  ASSUME TypeOK, NEW R, NEW self
  PROVE  UsedMinutes(R, self) \in SUBSET Spans
<1> SUFFICES ASSUME NEW u \in Used(R, self) PROVE TimeWindow(u) \in Spans
  BY DEF UsedMinutes
<1>1. u \in Windows
  BY UsedWindows
<1>2. u.from \in Ticks /\ u.to \in Ticks /\ u.from < u.to
  BY <1>1, WindowIs
<1>3. /\ MinuteOf(u.from) \in Ticks /\ MinuteOf(u.from) \in Int /\ MinuteOf(u.from) <= u.from
      /\ MinuteOf(u.to) \in Ticks /\ MinuteOf(u.to) \in Int /\ u.to < MinuteOf(u.to) + Minute
      /\ Whole(MinuteOf(u.from)) /\ Whole(MinuteOf(u.to)) /\ u.from \in Int /\ u.to \in Int
  BY <1>2, MinuteOfIs
<1>4. MinuteOf(u.from) <= MinuteOf(u.to)
  <2> SUFFICES ASSUME MinuteOf(u.to) < MinuteOf(u.from) PROVE FALSE
    BY <1>3
  <2>1. MinuteOf(u.to) + Minute <= MinuteOf(u.from)
    BY <1>3, WholeSteps
  <2>2. QED
    BY <1>2, <1>3, <2>1, MinuteAssumption
<1>5. QED
  BY <1>3, <1>4 DEF TimeWindow, Spans

LEMMA MinutesExact ==
  ASSUME TypeOK, NEW R, NEW w \in FormWindows, NEW self
  PROVE  (\A u \in UsedMinutes(R, self) : ~ Overlaps(u, w)) <=> AllFree(R, InnerPart(w), self)
<1>1. \A u \in Used(R, self) : Overlaps(TimeWindow(u), w) <=> Overlaps(u, InnerPart(w))
  <2> SUFFICES ASSUME NEW u \in Used(R, self)
               PROVE  Overlaps(TimeWindow(u), w) <=> Overlaps(u, InnerPart(w))
    OBVIOUS
  <2>1. u \in Windows
    BY UsedWindows
  <2>2. QED
    BY <2>1, CutOverlap
<1>2. (\A u \in UsedMinutes(R, self) : ~ Overlaps(u, w))
        <=> \A u \in Used(R, self) : ~ Overlaps(TimeWindow(u), w)
  BY DEF UsedMinutes
<1>3. (\A u \in Used(R, self) : ~ Overlaps(u, InnerPart(w))) <=> AllFree(R, InnerPart(w), self)
  BY UsedExact
<1>4. QED
  BY <1>1, <1>2, <1>3

\* What is left of a day, or of a window, for what holds R.
LEMMA LeftFree ==
  ASSUME TypeOK, NEW base, Day(base), NEW R, NEW self
  PROVE  LET left == Subtract(base, UsedMinutes(R, self)) IN
         /\ left \in SUBSET Windows
         /\ \A w \in FormWindows : (\E f \in left : Within(w, f))
                                     <=> Within(w, base) /\ AllFree(R, InnerPart(w), self)
<1> DEFINE used == UsedMinutes(R, self)
<1>1. used \in SUBSET Spans
  BY UsedSpans
<1> HIDE DEF used
<1>2. Subtract(base, used) \in SUBSET Windows
  BY <1>1, SubtractGaps DEF Gaps
<1>3. ASSUME NEW w \in FormWindows
      PROVE  (\E f \in Subtract(base, used) : Within(w, f))
               <=> Within(w, base) /\ AllFree(R, InnerPart(w), self)
  <2>1. w \in Windows
    BY FormIs
  <2>2. (\E f \in Subtract(base, used) : Within(w, f))
          <=> Within(w, base) /\ \A u \in used : ~ Overlaps(u, w)
    BY <1>1, <2>1, SubtractExact
  <2>3. QED
    BY <2>2, MinutesExact DEF used
<1>4. QED
  BY <1>2, <1>3 DEF used

LEMMA OneFree ==
  ASSUME NEW r, NEW w, NEW self
  PROVE  AllFree({r}, w, self) <=> ~ Busy(r, w, self)
BY DEF AllFree

\* What is left of a day begins and ends in whole minutes.
LEMMA LeftWhole ==
  ASSUME TypeOK, NEW base, Day(base), Whole(base.from), Whole(base.to), NEW R, NEW self
  PROVE  Subtract(base, UsedMinutes(R, self)) \in SUBSET FormWindows
<1> DEFINE used == UsedMinutes(R, self)
<1>1. used \in SUBSET Spans
  BY UsedSpans
<1>2. \A u \in used : Whole(u.from) /\ Whole(u.to)
  <2> SUFFICES ASSUME NEW u \in Used(R, self)
               PROVE  Whole(TimeWindow(u).from) /\ Whole(TimeWindow(u).to)
    BY DEF UsedMinutes
  <2>1. u \in Windows
    BY UsedWindows
  <2>2. u.from \in Ticks /\ u.to \in Ticks
    BY <2>1, WindowIs
  <2>3. QED
    BY <2>2, MinuteOfIs DEF TimeWindow
<1> HIDE DEF used
<1>3. Subtract(base, used) = Gaps(base, used, base.from)
  BY <1>1, SubtractGaps
<1>4. ASSUME NEW f \in Gaps(base, used, base.from) PROVE f \in FormWindows
  BY <1>2, <1>4 DEF Gaps, FormWindows
<1>5. QED
  BY <1>3, <1>4 DEF used

\* computeDayWindows, subtractStudentScheduleConflicts and the rest of today, for one window.
LEMMA DayLeft ==
  ASSUME TypeOK, NEW i \in Instructors, NEW self
  PROVE  /\ DayWindows(i, self) \in SUBSET FormWindows
         /\ \A w \in FormWindows :
              (\E f \in DayWindows(i, self) : Within(w, f))
                <=> InHours(i, w) /\ ~ Busy(i, InnerPart(w), self)
<1>1. Day(Hours[i]) /\ Whole(Hours[i].from) /\ Whole(Hours[i].to)
  BY HoursAssumption DEF Day
<1>2. DayWindows(i, self) \in SUBSET FormWindows
  BY <1>1, LeftWhole DEF DayWindows
<1>3. ASSUME NEW w \in FormWindows
      PROVE  (\E f \in DayWindows(i, self) : Within(w, f))
               <=> InHours(i, w) /\ ~ Busy(i, InnerPart(w), self)
  <2>1. (\E f \in DayWindows(i, self) : Within(w, f))
          <=> Within(w, Hours[i]) /\ AllFree({i}, InnerPart(w), self)
    BY <1>1, LeftFree DEF DayWindows
  <2>2. InHours(i, w) <=> Within(w, Hours[i])
    BY FormIs DEF InHours
  <2>3. QED
    BY <2>1, <2>2, OneFree
<1>4. QED
  BY <1>2, <1>3

LEMMA Narrowed ==
  ASSUME TypeOK, NEW W \in SUBSET Windows, NEW R, NEW self
  PROVE  /\ Narrow(W, R, self) \in SUBSET Windows
         /\ \A w \in FormWindows :
              (\E f \in Narrow(W, R, self) : Within(w, f))
                <=> (\E f \in W : Within(w, f)) /\ AllFree(R, InnerPart(w), self)
<1> DEFINE left(v) == Subtract(v, UsedMinutes(R, self))
<1>1. \A v \in W :
        /\ left(v) \in SUBSET Windows
        /\ \A w \in FormWindows : (\E f \in left(v) : Within(w, f))
                                    <=> Within(w, v) /\ AllFree(R, InnerPart(w), self)
  <2> SUFFICES ASSUME NEW v \in W
               PROVE  /\ left(v) \in SUBSET Windows
                      /\ \A w \in FormWindows :
                           (\E f \in left(v) : Within(w, f))
                             <=> Within(w, v) /\ AllFree(R, InnerPart(w), self)
    OBVIOUS
  <2>1. v \in Windows
    OBVIOUS
  <2>2. Day(v)
    BY <2>1, WindowIs DEF Day, Windows
  <2>3. QED
    BY <2>2, LeftFree
<1>2. Narrow(W, R, self) = UNION {left(v) : v \in W}
  BY DEF Narrow
<1> HIDE DEF left
<1>3. Narrow(W, R, self) \in SUBSET Windows
  BY <1>1, <1>2
<1>4. ASSUME NEW w \in FormWindows
      PROVE  (\E f \in Narrow(W, R, self) : Within(w, f))
               <=> \E v \in W : \E f \in left(v) : Within(w, f)
  BY <1>2
<1>5. QED
  BY <1>1, <1>3, <1>4

LEMMA FromNowLeft ==
  ASSUME NEW m \in Ticks, m = MinuteOf(now), NEW W \in SUBSET Windows
  PROVE  /\ FromNow(W) \in SUBSET Windows
         /\ \A w \in Windows : (\E f \in FromNow(W) : Within(w, f))
                                 <=> (\E f \in W : Within(w, f)) /\ w.from >= m
<1>1. ASSUME NEW v \in W
      PROVE  LET b == Between(Larger(v.from, m), v.to)
             IN /\ v \in Windows /\ b.from = Larger(v.from, m) /\ b.to = v.to
                /\ b.from < b.to => b \in Windows
  BY WindowIs, HorizonAssumption DEF Between, Larger, Windows
<1>2. FromNow(W) \in SUBSET Windows
  BY <1>1 DEF FromNow
<1>3. ASSUME NEW w \in Windows, NEW f \in FromNow(W), Within(w, f)
      PROVE  (\E v \in W : Within(w, v)) /\ w.from >= m
  <2>1. PICK v \in W : f = Between(Larger(v.from, m), v.to)
    BY DEF FromNow
  <2>2. /\ v \in Windows /\ f.from = Larger(v.from, m) /\ f.to = v.to
    BY <1>1, <2>1
  <2>3. QED
    BY <1>3, <2>2, WindowIs, HorizonAssumption DEF Within, Larger, Ticks
<1>4. ASSUME NEW w \in Windows, NEW v \in W, Within(w, v), w.from >= m
      PROVE  \E f \in FromNow(W) : Within(w, f)
  <2> DEFINE b == Between(Larger(v.from, m), v.to)
  <2>1. v \in Windows /\ b.from = Larger(v.from, m) /\ b.to = v.to
    BY <1>1
  <2>2. b.from < b.to /\ Within(w, b)
    BY <1>4, <2>1, WindowIs, HorizonAssumption DEF Within, Larger, Ticks
  <2>3. b \in FromNow(W)
    BY <2>2 DEF FromNow
  <2>4. QED
    BY <2>2, <2>3
<1>5. QED
  BY <1>2, <1>3, <1>4

\* The windows computeDayWindows leaves are, to the minute, the times at which the write
\* path finds the instructor free (windows.ts and time.ts against writeConflicts.ts).
THEOREM FreeWindows == Spec => []FreeToTheMinute
<1>1. ASSUME TypeOK, NEW i \in Instructors, NEW self, NEW w \in Windows, Length(w) >= Minute
      PROVE  (\E f \in DayWindows(i, self) : Within(TimeWindow(w), f))
               <=> InHours(i, w) /\ ~ Busy(i, InnerPart(w), self)
  <2> DEFINE x == TimeWindow(w)
  <2>1. w.from \in Ticks /\ w.to \in Ticks /\ w.from + Minute <= w.to
    BY <1>1, WindowIs, MinuteAssumption DEF Length
  <2>2. /\ x.from = MinuteOf(w.from) /\ x.to = MinuteOf(w.to) /\ x \in [from : Ticks, to : Ticks]
        /\ x.from \in Int /\ x.to \in Int /\ x.from <= w.from /\ w.to < x.to + Minute
        /\ Whole(x.from) /\ Whole(x.to) /\ w.from \in Int /\ w.to \in Int
        /\ MinuteOf(x.from) = x.from /\ MinuteOf(x.to) = x.to
    BY <2>1, MinuteOfIs DEF TimeWindow
  <2> HIDE DEF x
  <2>3. x.from < x.to
    BY <2>1, <2>2, MinuteAssumption
  <2>4. x \in FormWindows
    BY <2>2, <2>3 DEF FormWindows, Windows
  <2>5. InnerPart(x) = InnerPart(w)
    BY <2>2 DEF InnerPart
  <2>6. InHours(i, x) <=> InHours(i, w)
    BY <2>4, FormIs DEF InHours, x
  <2>7. (\E f \in DayWindows(i, self) : Within(x, f))
          <=> InHours(i, x) /\ ~ Busy(i, InnerPart(x), self)
    BY <1>1, <2>4, DayLeft
  <2>8. QED
    BY <2>5, <2>6, <2>7 DEF x
<1>2. TypeOK => FreeToTheMinute
  BY <1>1 DEF FreeToTheMinute
<1> QED
  BY <1>2, TypeCorrect, PTL

(***************************************************************************)
(* The forms.  Each list of options comes down to one condition on the     *)
(* window, which is then compared with the condition for saving it.        *)
(***************************************************************************)
LEMMA OfferedIs ==
  ASSUME NEW W, NEW min, NEW max, NEW w
  PROVE  w \in Offered(W, min, max) <=>
           /\ w \in Windows /\ OnGrid(w, min) /\ Length(w) \in min..max
           /\ \E f \in W : Within(w, f)
BY DEF Offered, OnGrid

LEMMA LengthIs ==
  ASSUME NEW w \in Windows
  PROVE  Length(w) \in Int /\ Length(w) > 0
BY WindowIs DEF Length

\* Of what is free but for the edges only a row that runs over is in the way.
LEMMA InnerFree ==
  ASSUME TypeOK, NEW R, NEW w \in FormWindows, NEW self
  PROVE  /\ AllFree(R, InnerPart(w), self) /\ ~ RunsOver(R, w, self) => AllFree(R, w, self)
         /\ AllFree(R, w, self) => AllFree(R, InnerPart(w), self)
<1>0. /\ w \in Windows /\ w.from \in Int /\ w.to \in Int /\ Minute \in Nat \ {0}
      /\ InnerPart(w).from = w.from + Minute - 1 /\ InnerPart(w).to = w.to
  BY FormIs, WindowIs, MinuteAssumption DEF Between
<1>1. ASSUME NEW u \in Used(R, self)
      PROVE  /\ Overlaps(u, w) => Overlaps(u, InnerPart(w)) \/ RunsOver(R, w, self)
             /\ Overlaps(u, InnerPart(w)) => Overlaps(u, w)
  <2>1. u \in Windows
    BY UsedWindows
  <2>2. u.from \in Int /\ u.to \in Int
    BY <2>1, WindowIs
  <2>3. Overlaps(u, w) => Overlaps(u, InnerPart(w)) \/ (w.from < u.to /\ u.to < w.from + Minute)
    BY <1>0, <2>2 DEF Overlaps
  <2>4. Overlaps(u, InnerPart(w)) => Overlaps(u, w)
    BY <1>0, <2>2 DEF Overlaps
  <2>5. QED
    BY <2>3, <2>4 DEF RunsOver
<1>2. /\ (\A u \in Used(R, self) : ~ Overlaps(u, w)) <=> AllFree(R, w, self)
      /\ (\A u \in Used(R, self) : ~ Overlaps(u, InnerPart(w)))
           <=> AllFree(R, InnerPart(w), self)
  BY UsedExact
<1>3. QED
  BY <1>1, <1>2

LEMMA RunsOverSome ==
  ASSUME NEW S, NEW R, S \subseteq R, NEW w, NEW self, ~ RunsOver(R, w, self)
  PROVE  ~ RunsOver(S, w, self)
<1>1. Used(S, self) \subseteq Used(R, self)
  BY DEF Used, UsedLessons, UsedEvents
<1>2. QED
  BY <1>1 DEF RunsOver

LEMMA OneInnerFree ==
  ASSUME TypeOK, NEW R, NEW r \in R, NEW w \in FormWindows, NEW self, ~ RunsOver(R, w, self),
         ~ Busy(r, InnerPart(w), self)
  PROVE  ~ Busy(r, w, self)
<1>1. ~ RunsOver({r}, w, self)
  BY RunsOverSome
<1>2. QED
  BY <1>1, OneFree, InnerFree

LEMMA OneFreeInside ==
  ASSUME TypeOK, NEW r, NEW w \in FormWindows, NEW self, ~ Busy(r, w, self)
  PROVE  ~ Busy(r, InnerPart(w), self)
BY OneFree, InnerFree

\* The longest lesson of the form is what settings and package allow together.
LEMMA LongestIs ==
  ASSUME NEW l, NEW row \in LessonRow, NEW w \in FormWindows
  PROVE  Length(w) \in PracticeMin..LongestLesson(l, row)
           <=> PracticeLength(w) /\ PackageAllows(row.course, row.student, w, l)
<1> DEFINE n == Length(w)
           k == Minutes(w)
           rest == Remaining(row.course, row.student, l)
<1>1. /\ n \in Int /\ n = Minute * k /\ k \in Nat \ {0} /\ Minute \in Nat \ {0}
      /\ PracticeMin \in Int /\ PracticeMax \in Int
  BY FormIs, LengthIs, FormMinutes, SettingsAssumption, MinuteAssumption
<1>2. CASE TotalMinutes[row.course] = None
  BY <1>2 DEF LongestLesson, PackageAllows, PracticeLength
<1>3. CASE TotalMinutes[row.course] # None
  <2>1. rest \in Int
    <3>1. TotalMinutes[row.course] \in Nat
      BY <1>3, PackageAssumption DEF LessonRow, Null
    <3>2. QED
      BY <3>1, BookedFinite DEF Remaining
  <2>2. LongestLesson(l, row) = Smaller(PracticeMax, Minute * Larger(0, rest))
    BY <1>3 DEF LongestLesson
  <2> HIDE DEF n, k, rest
  <2>3. n <= Minute * Larger(0, rest) <=> k <= rest
    <3>1. CASE k <= rest
      <4>1. Larger(0, rest) = rest
        BY <1>1, <2>1, <3>1 DEF Larger
      <4>2. Minute * k <= Minute * rest
        <5>1. k = rest \/ k < rest
          BY <1>1, <2>1, <3>1
        <5>2. k < rest => Minute * k + Minute <= Minute * rest
          BY <1>1, <2>1, NextMultiple
        <5>3. QED
          BY <1>1, <2>1, <5>1, <5>2
      <4>3. QED
        BY <1>1, <3>1, <4>1, <4>2
    <3>2. CASE ~ k <= rest
      <4> DEFINE x == Larger(0, rest)
      <4>1. x \in Int /\ x < k
        BY <1>1, <2>1, <3>2 DEF Larger
      <4> HIDE DEF x
      <4>2. Minute * x + Minute <= Minute * k
        BY <1>1, <4>1, NextMultiple
      <4>3. ~ n <= Minute * x
        BY <1>1, <4>1, <4>2
      <4>4. QED
        BY <3>2, <4>3 DEF x
    <3>3. QED
      BY <3>1, <3>2
  <2>4. n \in PracticeMin..LongestLesson(l, row)
          <=> n \in PracticeMin..PracticeMax /\ k <= rest
    <3> DEFINE y == Minute * Larger(0, rest)
    <3>1. y \in Int
      BY <1>1, <2>1 DEF Larger
    <3> HIDE DEF y
    <3>2. n \in PracticeMin..Smaller(PracticeMax, y) <=> n \in PracticeMin..PracticeMax /\ n <= y
      BY <1>1, <3>1 DEF Smaller
    <3>3. QED
      BY <2>2, <2>3, <3>2 DEF y
  <2>5. PackageAllows(row.course, row.student, w, l) <=> k <= rest
    <3>1. k \in 1..rest <=> k <= rest
      BY <1>1, <2>1
    <3>2. QED
      BY <1>3, <3>1 DEF PackageAllows, k, rest
  <2>6. QED
    BY <2>4, <2>5 DEF PracticeLength, n
<1>4. QED
  BY <1>2, <1>3

\* What the form of a lesson offers.
LEMMA LessonOffer ==
  ASSUME TypeOK, NEW l \in Lessons, NEW i \in Instructors, NEW v \in Vehicles, NEW w
  PROVE  LET row == lessons[l] IN
         w \in LessonOptions(l, i, v) <=>
           /\ w \in FormWindows /\ Editable(row) /\ NotStarted(row)
           /\ OnGrid(w, PracticeMin) /\ PracticeLength(w) /\ w.from >= MinuteOf(now)
           /\ PackageAllows(row.course, row.student, w, l) /\ InHours(i, w)
           /\ \A r \in {i, row.student, v} : ~ Busy(r, InnerPart(w), l)
<1> DEFINE row == lessons[l]
           mine == Narrow(DayWindows(i, l), {row.student}, l)
           free == FromNow(mine)
           left == Narrow(free, {v}, l)
           m == MinuteOf(now)
           inner == InnerPart(w)
<1>1. CASE ~ (Editable(row) /\ NotStarted(row))
  BY <1>1 DEF LessonOptions
<1>2. CASE Editable(row) /\ NotStarted(row)
  <2>1. row \in LessonRow /\ m \in Ticks
    BY <1>2, MinuteOfIs DEF Editable, Exists, TypeOK
  <2>2. w \in LessonOptions(l, i, v) <=> w \in Offered(left, PracticeMin, LongestLesson(l, row))
    BY <1>2 DEF LessonOptions
  <2>3. DayWindows(i, l) \in SUBSET Windows
    BY DayLeft, FormIs
  <2>4. mine \in SUBSET Windows
    BY <2>3, Narrowed
  <2>5. free \in SUBSET Windows
    BY <2>1, <2>4, FromNowLeft
  <2>6. ASSUME w \in FormWindows
        PROVE  (\E f \in left : Within(w, f)) <=>
                 /\ InHours(i, w) /\ ~ Busy(i, inner, l) /\ ~ Busy(row.student, inner, l)
                 /\ w.from >= m /\ ~ Busy(v, inner, l)
    <3>0. w \in Windows
      BY <2>6, FormIs
    <3>1. (\E f \in DayWindows(i, l) : Within(w, f)) <=> InHours(i, w) /\ ~ Busy(i, inner, l)
      BY <2>6, DayLeft
    <3>2. (\E f \in mine : Within(w, f))
            <=> (\E f \in DayWindows(i, l) : Within(w, f)) /\ ~ Busy(row.student, inner, l)
      BY <2>3, <2>6, Narrowed, OneFree
    <3>3. (\E f \in free : Within(w, f)) <=> (\E f \in mine : Within(w, f)) /\ w.from >= m
      BY <2>1, <2>4, <3>0, FromNowLeft
    <3>4. (\E f \in left : Within(w, f)) <=> (\E f \in free : Within(w, f)) /\ ~ Busy(v, inner, l)
      BY <2>5, <2>6, Narrowed, OneFree
    <3> HIDE DEF mine, free, left, inner, m
    <3>5. QED
      BY <3>1, <3>2, <3>3, <3>4
  <2>7. w \in Windows /\ OnGrid(w, PracticeMin) => w \in FormWindows
    BY OnGridWhole, SettingsAssumption
  <2>8. w \in FormWindows => w \in Windows
    BY FormIs
  <2>9. w \in FormWindows =>
          (Length(w) \in PracticeMin..LongestLesson(l, row)
             <=> PracticeLength(w) /\ PackageAllows(row.course, row.student, w, l))
    BY <2>1, LongestIs
  <2>10. w \in Offered(left, PracticeMin, LongestLesson(l, row)) <=>
           /\ w \in Windows /\ OnGrid(w, PracticeMin)
           /\ Length(w) \in PracticeMin..LongestLesson(l, row)
           /\ \E f \in left : Within(w, f)
    BY OfferedIs
  <2> HIDE DEF left, m, inner
  <2>11. QED
    BY <1>2, <2>2, <2>6, <2>7, <2>8, <2>9, <2>10 DEF m, inner
<1>3. QED
  BY <1>1, <1>2

\* When the write path saves the form of a lesson.
LEMMA LessonSavedIs ==
  ASSUME NEW l \in Lessons, NEW i \in Instructors, NEW v \in Vehicles, NEW w \in Windows,
         lessons[l] \in LessonRow
  PROVE  LET row == lessons[l] IN
         LessonSaved(SaveLesson(l, i, v, w)) <=>
           /\ Editable(row)
           /\ \/ w = row.win /\ i = row.instructor /\ v = row.vehicle
              \/ /\ w # row.win \/ i # row.instructor =>
                      /\ NotStarted(row) /\ w.from > now
                      /\ ~ Busy(row.student, w, l) /\ ~ Busy(i, w, l)
                      /\ PackageAllows(row.course, row.student, w, l) /\ InHours(i, w)
                 /\ w # row.win => PracticeLength(w)
                 /\ ~ Busy(v, w, l)
<1> DEFINE q == SaveLesson(l, i, v, w)
           row == lessons[l]
           new == MergedLesson(q, row)
<1>1. /\ q.lesson = l /\ q.instructor = i /\ q.expected
      /\ new \in LessonRow /\ new.status = row.status
      /\ new.student = row.student /\ new.course = row.course
      /\ new.win = w /\ new.instructor = i /\ new.vehicle = v
      /\ new = row <=> w = row.win /\ i = row.instructor /\ v = row.vehicle
  BY SavedLesson
<1>2. SameLesson(row, row)
  BY NoneAssumption DEF SameLesson, Exists
<1>3. LessonWindowAvailable(new, l) <=>
        /\ ~ Busy(row.student, w, l) /\ ~ Busy(i, w, l)
        /\ PackageAllows(row.course, row.student, w, l) /\ InHours(i, w)
  BY <1>1 DEF LessonWindowAvailable, AllFree
<1>4. NotStarted(row) => (NotStarted(new) <=> w.from > now)
  BY <1>1 DEF NotStarted
<1>5. Moved(row, new) <=> w # row.win \/ i # row.instructor
  BY <1>1 DEF Moved
<1> HIDE DEF new
<1>6. LessonSaved(q) <=> Editable(row) /\ (new = row \/ UpdateLessonAllowed(q, row, row, new))
  BY <1>1 DEF LessonSaved, new
<1>7. UpdateLessonAllowed(q, row, row, new) <=>
        /\ Moved(row, new) => /\ NotStarted(row) /\ NotStarted(new)
                              /\ LessonWindowAvailable(new, l)
        /\ w # row.win => PracticeLength(w)
        /\ ~ Busy(v, w, l)
  BY <1>1, <1>2 DEF UpdateLessonAllowed
<1>8. QED
  BY <1>1, <1>3, <1>4, <1>5, <1>6, <1>7

LEMMA LessonOffersSaved == TypeOK => OfferedLessonsCanBeSaved
<1> SUFFICES ASSUME TypeOK, NEW l \in Lessons, NEW i \in Instructors, NEW v \in Vehicles,
                    NEW w \in LessonOptions(l, i, v), w.from > now,
                    ~ RunsOver({lessons[l].student, i, v}, w, l)
             PROVE  LessonSaved(SaveLesson(l, i, v, w))
  BY DEF OfferedLessonsCanBeSaved
<1> DEFINE row == lessons[l]
           R == {row.student, i, v}
<1>1. /\ w \in FormWindows /\ Editable(row) /\ NotStarted(row)
      /\ PracticeLength(w) /\ PackageAllows(row.course, row.student, w, l) /\ InHours(i, w)
      /\ \A r \in R : ~ Busy(r, InnerPart(w), l)
  BY LessonOffer
<1>2. row \in LessonRow /\ w \in Windows
  BY <1>1, FormIs DEF Editable, Exists, TypeOK
<1>3. \A r \in R : ~ Busy(r, w, l)
  <2> SUFFICES ASSUME NEW r \in R PROVE ~ Busy(r, w, l)
    OBVIOUS
  <2>1. ~ Busy(r, InnerPart(w), l)
    BY <1>1
  <2> HIDE DEF R
  <2>2. ~ RunsOver(R, w, l)
    BY DEF R
  <2>3. QED
    BY <1>1, <2>1, <2>2, OneInnerFree
<1>4. QED
  BY <1>1, <1>2, <1>3, LessonSavedIs

\* A move that would be saved is offered.
LEMMA MovesOffered ==
  ASSUME TypeOK, NEW l \in Lessons, NEW i \in Instructors, NEW v \in Vehicles, NEW w \in Windows,
         OnGrid(w, PracticeMin), LessonSaved(SaveLesson(l, i, v, w)), w # lessons[l].win
  PROVE  w \in LessonOptions(l, i, v)
<1> DEFINE row == lessons[l]
<1>1. Editable(row)
  <2>1. SaveLesson(l, i, v, w).lesson = l
    BY DEF SaveLesson
  <2>2. QED
    BY <2>1 DEF LessonSaved
<1>2. row \in LessonRow /\ now \in Ticks
  BY <1>1 DEF Editable, Exists, TypeOK
<1>3. /\ NotStarted(row) /\ w.from > now /\ PracticeLength(w)
      /\ PackageAllows(row.course, row.student, w, l) /\ InHours(i, w)
      /\ ~ Busy(i, w, l) /\ ~ Busy(row.student, w, l) /\ ~ Busy(v, w, l)
  BY <1>2, LessonSavedIs
<1>4. w.from >= MinuteOf(now)
  BY <1>2, <1>3, WindowIs, MinuteOfIs
<1>5. w \in FormWindows
  BY OnGridWhole, SettingsAssumption
<1>6. /\ ~ Busy(i, InnerPart(w), l) /\ ~ Busy(row.student, InnerPart(w), l)
      /\ ~ Busy(v, InnerPart(w), l)
  BY <1>3, <1>5, OneFreeInside
<1>7. QED
  BY <1>1, <1>3, <1>4, <1>5, <1>6, LessonOffer

\* The form of a new event, and of one that is edited.
LEMMA NewEventOffers ==
  ASSUME TypeOK, NEW i \in Instructors, NEW v \in Vehicles, NEW type \in Types,
         NEW w \in NewEventOptions(type, i, v), ~ RunsOver(Asked(type, i, v, {}), w, None)
  PROVE  CreateAllowed(NewEvent([type |-> type, instructor |-> i, vehicle |-> v,
                                 win |-> w, capacity |-> None]))
<1> DEFINE free == DayWindows(i, None)
           left == IF type = "DRIVE" THEN Narrow(free, {v}, None) ELSE free
           q == [type |-> type, instructor |-> i, vehicle |-> v, win |-> w, capacity |-> None]
           R == Asked(type, i, v, {})
<1>0. /\ w \in Windows /\ OnGrid(w, MinLength(type))
      /\ Length(w) \in MinLength(type)..MaxLength(type) /\ \E f \in left : Within(w, f)
  BY OfferedIs DEF NewEventOptions
<1>1. /\ w \in FormWindows /\ Length(w) \in MinLength(type)..MaxLength(type)
      /\ \E f \in left : Within(w, f)
  BY <1>0, OnGridWhole, SettingsAssumption DEF MinLength
<1>2. EventLength(type, w)
  BY <1>1 DEF MinLength, MaxLength, EventLength, PracticeLength, Types
<1>3. free \in SUBSET Windows
  BY DayLeft, FormIs
<1>4. /\ \E f \in free : Within(w, f)
      /\ type = "DRIVE" => ~ Busy(v, InnerPart(w), None)
  <2>1. CASE type = "DRIVE"
    <3>1. \E f \in Narrow(free, {v}, None) : Within(w, f)
      BY <1>1, <2>1
    <3> HIDE DEF free
    <3>2. QED
      BY <1>1, <1>3, <3>1, Narrowed, OneFree
  <2>2. CASE type # "DRIVE"
    BY <1>1, <2>2
  <2>3. QED
    BY <2>1, <2>2
<1>5. InHours(i, w) /\ ~ Busy(i, InnerPart(w), None)
  BY <1>1, <1>4, DayLeft
<1>6. ~ Busy(i, w, None) /\ (type = "DRIVE" => ~ Busy(v, w, None))
  <2>1. i \in R /\ (type = "DRIVE" => v \in R)
    BY DEF Asked
  <2> HIDE DEF R
  <2>2. ~ RunsOver(R, w, None)
    BY DEF R
  <2>3. QED
    BY <1>1, <1>4, <1>5, <2>1, <2>2, OneInnerFree
<1>7. LET row == NewEvent(q)
      IN /\ row.type = type /\ row.instructor = i /\ row.win = w
         /\ type = "DRIVE" => row.vehicle = v
  BY DEF NewEvent, EventVehicle
<1>8. v # None
  BY NoneAssumption
<1>9. QED
  BY <1>2, <1>5, <1>7, <1>8, <1>6 DEF CreateAllowed, EventWindowAvailable, Drive

LEMMA EventOffers ==
  ASSUME TypeOK, NEW i \in Instructors, NEW v \in Vehicles, NEW e \in Events,
         NEW w \in EventOptions(e, i, v), FitsCapacity(e),
         Drive(events[e]) => Participants(e) = {},
         ~ RunsOver(Asked(events[e].type, i, v, Participants(e)), w, e)
  PROVE  EventSaved(SaveEvent(e, i, v, w))
<1> DEFINE row == events[e]
           free == DayWindows(i, e)
           left == IF Drive(row) THEN Narrow(free, {v}, e) ELSE Narrow(free, Participants(e), e)
           q == SaveEvent(e, i, v, w)
           new == MergedEvent(q, row)
           R == Asked(row.type, i, v, Participants(e))
<1>1. /\ Exists(row) /\ row.active
      /\ w \in Offered(left, MinLength(row.type), MaxLength(row.type))
  BY DEF EventOptions
<1>2. /\ w \in FormWindows /\ w \in Windows
      /\ Length(w) \in MinLength(row.type)..MaxLength(row.type) /\ \E f \in left : Within(w, f)
  <2>1. /\ w \in Windows /\ OnGrid(w, MinLength(row.type))
        /\ Length(w) \in MinLength(row.type)..MaxLength(row.type) /\ \E f \in left : Within(w, f)
    BY <1>1, OfferedIs
  <2>2. MinLength(row.type) \in Nat /\ Whole(MinLength(row.type))
    BY SettingsAssumption DEF MinLength
  <2>3. QED
    BY <2>1, <2>2, OnGridWhole
<1>3. row \in EventRow /\ row.type \in Types
  BY <1>1 DEF TypeOK, Exists, EventRow
<1>4. EventLength(row.type, w)
  BY <1>2, <1>3 DEF MinLength, MaxLength, EventLength, PracticeLength, Types
<1>5. free \in SUBSET Windows
  BY DayLeft, FormIs
<1>6. /\ \E f \in free : Within(w, f)
      /\ Drive(row) => ~ Busy(v, InnerPart(w), e)
      /\ AllFree(Participants(e), InnerPart(w), e)
  <2> HIDE DEF free
  <2>1. CASE Drive(row)
    <3>1. \E f \in Narrow(free, {v}, e) : Within(w, f)
      BY <1>2, <2>1
    <3>2. AllFree(Participants(e), InnerPart(w), e)
      BY <2>1 DEF AllFree
    <3>3. QED
      BY <1>2, <1>5, <3>1, <3>2, Narrowed, OneFree
  <2>2. CASE ~ Drive(row)
    <3>1. \E f \in Narrow(free, Participants(e), e) : Within(w, f)
      BY <1>2, <2>2
    <3>2. QED
      BY <1>2, <1>5, <2>2, <3>1, Narrowed
  <2>3. QED
    BY <2>1, <2>2
<1>7. InHours(i, w) /\ ~ Busy(i, InnerPart(w), e)
  BY <1>2, <1>6, DayLeft
<1>8. /\ ~ Busy(i, w, e) /\ (Drive(row) => ~ Busy(v, w, e))
      /\ AllFree(Participants(e), w, e)
  <2>1. i \in R /\ (Drive(row) => v \in R) /\ (~ Drive(row) => Participants(e) \subseteq R)
    BY DEF Asked, Drive
  <2> HIDE DEF R
  <2>2. ~ RunsOver(R, w, e)
    BY DEF R
  <2>3. AllFree(Participants(e), w, e)
    <3>1. CASE Drive(row)
      BY <3>1 DEF AllFree
    <3>2. CASE ~ Drive(row)
      <4>1. ~ RunsOver(Participants(e), w, e)
        BY <2>1, <2>2, <3>2, RunsOverSome
      <4>2. QED
        BY <1>2, <1>6, <4>1, InnerFree
    <3>3. QED
      BY <3>1, <3>2
  <2>4. QED
    BY <1>2, <1>6, <1>7, <2>1, <2>2, <2>3, OneInnerFree
<1>9. /\ q.event = e /\ q.type = Keep
      /\ new.type = row.type /\ new.capacity = row.capacity
      /\ new.win = w /\ new.instructor = i
      /\ Drive(row) => new.vehicle = v
  BY <1>2, <1>3, SavedEvent
<1>10. CapacityFits(new.capacity, Cardinality(Participants(e)))
  BY <1>1, <1>9 DEF CapacityFits, FitsCapacity
<1> HIDE DEF new, q
<1>11. UpdateEventAllowed(q, row, new)
  BY <1>4, <1>7, <1>8, <1>9, <1>10
     DEF UpdateEventAllowed, EventWindowAvailable, Replanned, Drive
<1>12. QED
  BY <1>1, <1>9, <1>11 DEF EventSaved, new, q

\* A lesson that does not merely run over shows in the student's busy intervals too.
LEMMA BusyLonger ==
  ASSUME NEW u \in Windows, NEW w \in FormWindows, Overlaps(u, w),
         ~ (w.from < u.to /\ u.to < w.from + Minute)
  PROVE  Overlaps(BusyInterval(u), w)
<1>1. /\ u.from \in Ticks /\ u.from \in Int /\ u.to \in Int /\ u.from < u.to
      /\ w.from \in Int /\ w.to \in Int /\ Minute \in Nat \ {0}
  BY FormIs, WindowIs, MinuteAssumption
<1>2. /\ MinuteOf(u.from) \in Int /\ MinuteOf(u.from) <= u.from
      /\ u.from < MinuteOf(u.from) + Minute
  BY <1>1, MinuteOfIs
<1>3. u.from < w.to /\ w.from + Minute <= u.to
  BY <1>1 DEF Overlaps
<1>4. w.from < MinuteOf(u.from) + (u.to - u.from)
  BY <1>1, <1>2, <1>3
<1>5. MinuteOf(u.from) < w.to
  BY <1>1, <1>2, <1>3
<1>6. QED
  BY <1>4, <1>5 DEF Overlaps, BusyInterval, Between, Length

\* A slot shows the student free: what holds a student is a lesson or a seat.
LEMMA StudentFree ==
  ASSUME TypeOK, NEW s \in Students, NEW w \in FormWindows, ~ InOwnLesson(s, w),
         ~ RunsOver({s}, w, None),
         \A e \in Events : s \in SeatHolds(e, events[e]) => ~ Overlaps(events[e].win, w)
  PROVE  ~ Busy(s, w, None)
<1>1. ASSUME NEW l \in Lessons, l # None, s \in LessonHolds(lessons[l])
      PROVE  ~ Overlaps(lessons[l].win, w)
  <2>1. LiveLesson(lessons[l]) /\ lessons[l] \in LessonRow
    BY <1>1 DEF LessonHolds, LiveLesson, Exists, TypeOK
  <2>2. lessons[l].student = s /\ lessons[l].win \in Windows
    BY <1>1, <2>1, RowAssumption DEF LessonHolds, LessonRow
  <2>3. ~ Overlaps(BusyInterval(lessons[l].win), w)
    BY <2>1, <2>2 DEF InOwnLesson
  <2>4. lessons[l].win \in Used({s}, None)
    BY <1>1 DEF Used, UsedLessons
  <2>5. ~ (w.from < lessons[l].win.to /\ lessons[l].win.to < w.from + Minute)
    BY <2>4 DEF RunsOver
  <2>6. QED
    BY <2>2, <2>3, <2>5, BusyLonger
<1>2. ASSUME NEW e \in Events PROVE s \notin EventHolds(events[e])
  <2>1. CASE LiveEvent(events[e])
    <3>1. events[e] \in EventRow
      BY <2>1 DEF LiveEvent, Exists, TypeOK
    <3>2. s # events[e].instructor /\ s # events[e].vehicle
      BY <3>1, RowAssumption, NoneAssumption DEF EventRow, Null
    <3>3. QED
      BY <3>2 DEF EventHolds
  <2>2. CASE ~ LiveEvent(events[e])
    BY <2>2 DEF EventHolds
  <2>3. QED
    BY <2>1, <2>2
<1>3. QED
  BY <1>1, <1>2 DEF Busy

LEMMA SlotOffers ==
  ASSUME TypeOK, NEW i \in Instructors, NEW s \in Students, NEW k \in Courses,
         NEW w \in SchoolSlots(i, s), PackageAllows(k, s, w, None),
         ~ RunsOver({s, i}, w, None),
         \A e \in Events : s \in SeatHolds(e, events[e]) => ~ Overlaps(events[e].win, w)
  PROVE  \E v \in Vehicles :
           /\ ~ Busy(v, w, None)
           /\ LessonWindowAvailable(NewLesson([course |-> k, student |-> s,
                                                instructor |-> i, win |-> w], v), None)
<1>1. /\ ~ InOwnLesson(s, w) /\ VehicleFits(w)
      /\ w \in UNION {Slots(f) : f \in DayWindows(i, None)}
  BY DEF SchoolSlots
<1>2. w \in FormWindows /\ \E f \in DayWindows(i, None) : Within(w, f)
  BY <1>1, DayLeft, SlotsWhole
<1>3. InHours(i, w) /\ ~ Busy(i, w, None)
  <2>1. InHours(i, w) /\ ~ Busy(i, InnerPart(w), None)
    BY <1>2, DayLeft
  <2>2. QED
    BY <1>2, <2>1, OneInnerFree
<1>4. ~ Busy(s, w, None)
  <2>1. ~ RunsOver({s}, w, None)
    BY RunsOverSome
  <2>2. QED
    BY <1>1, <1>2, <2>1, StudentFree
<1>5. PICK v \in Vehicles : ~ Busy(v, w, None)
  BY <1>1 DEF VehicleFits
<1> DEFINE row == NewLesson([course |-> k, student |-> s, instructor |-> i, win |-> w], v)
<1>6. row.course = k /\ row.student = s /\ row.instructor = i /\ row.win = w
  BY DEF NewLesson
<1> HIDE DEF row
<1>7. LessonWindowAvailable(row, None)
  BY <1>3, <1>4, <1>6 DEF LessonWindowAvailable, AllFree
<1>8. QED
  BY <1>5, <1>7 DEF row

\* What is offered can be saved: the lesson form's windows, the event form's and the slots
\* of a student, for all tables and settings (options.ts, slots.ts against writeModel.ts).
THEOREM OffersHold == Spec => []OffersCanBeSaved
<1>1. ASSUME TypeOK PROVE OfferedEventsCanBeSaved
  BY <1>1, NewEventOffers, EventOffers DEF OfferedEventsCanBeSaved
<1>2. ASSUME TypeOK PROVE SlotsCanBeBooked
  BY <1>2, SlotOffers DEF SlotsCanBeBooked
<1>3. TypeOK => OffersCanBeSaved
  BY <1>1, <1>2, LessonOffersSaved DEF OffersCanBeSaved
<1>4. QED
  BY <1>3, TypeCorrect, PTL

(***************************************************************************)
(* A lesson finds its own window in its form: it lies in the hours of its  *)
(* instructor, nothing lies across it and its package has room for it.     *)
(***************************************************************************)
\* Nothing else holds in its window what a lesson holds, when no edited event lies across it.
LEMMA NothingAcross ==
  ASSUME UneditedNeverOverlap, NEW l \in Lessons, Untangled(l),
         NEW r \in LessonHolds(lessons[l])
  PROVE  ~ Busy(r, lessons[l].win, l)
<1>1. ASSUME NEW m \in Lessons \ {l}, r \in LessonHolds(lessons[m])
      PROVE  ~ Overlaps(lessons[m].win, lessons[l].win)
  BY <1>1 DEF UneditedNeverOverlap, NoClash, Holds, Win
<1>2. ASSUME NEW e \in Events, r \in EventHolds(events[e]) \cup SeatHolds(e, events[e])
      PROVE  ~ Overlaps(events[e].win, lessons[l].win)
  <2>1. e \notin Lessons
    BY RowAssumption
  <2>2. r \in Holds(e) \cap Holds(l) /\ Win(e) = events[e].win /\ Win(l) = lessons[l].win
    BY <1>2, <2>1 DEF Holds, Win
  <2>3. CASE e \in touched
    BY <2>2, <2>3 DEF Untangled
  <2>4. CASE e \notin touched
    BY <2>1, <2>2, <2>4 DEF UneditedNeverOverlap, NoClash
  <2>5. QED
    BY <2>3, <2>4
<1>3. QED
  BY <1>1, <1>2 DEF Busy

\* A lesson that is counted fits its own package.
LEMMA OwnPackage ==
  ASSUME TypeOK, PackageWithinLimit, NEW l \in Lessons, LiveLesson(lessons[l]),
         lessons[l].win \in FormWindows
  PROVE  PackageAllows(lessons[l].course, lessons[l].student, lessons[l].win, l)
<1> DEFINE row == lessons[l]
           A == Booked(row.course, row.student, l)
           B == Booked(row.course, row.student, None)
           T == {l} \X Taken(row.win)
<1>1. row \in LessonRow /\ row.win \in Windows
  BY DEF TypeOK, LiveLesson, Exists, LessonRow
<1> SUFFICES ASSUME TotalMinutes[row.course] # None
             PROVE  Minutes(row.win) \in 1..(TotalMinutes[row.course] - Cardinality(A))
  BY DEF PackageAllows, Remaining
<1>2. Cardinality(B) <= TotalMinutes[row.course] /\ TotalMinutes[row.course] \in Nat
  BY <1>1, PackageAssumption DEF PackageWithinLimit, LessonRow, Null
<1>3. A \subseteq B
  BY BookedWithout
<1>4. T \subseteq B
  <2> SUFFICES ASSUME NEW t \in Taken(row.win) PROVE <<l, t>> \in B
    OBVIOUS
  <2>1. t \in Ticks /\ t \in 1..Minutes(row.win)
    <3>1. Minutes(row.win) \in Nat /\ Minutes(row.win) <= Length(row.win)
      BY <1>1, MinutesType
    <3>2. Length(row.win) \in Int /\ Length(row.win) <= Horizon
      BY <1>1, WindowIs, HorizonAssumption DEF Length, Ticks
    <3>3. QED
      BY <3>1, <3>2, HorizonAssumption DEF Taken, Ticks
  <2>2. l \in Lessons \ {None}
    BY NoneAssumption
  <2>3. QED
    BY <2>1, <2>2 DEF Booked, CountsIn
<1>5. A \cap T = {}
  BY DEF Booked
<1>6. IsFiniteSet(T) /\ Cardinality(T) = Minutes(row.win)
  BY <1>1, RowTakes
<1>7. IsFiniteSet(A) /\ Cardinality(A) \in Nat /\ Cardinality(B) \in Nat
  BY BookedFinite
<1>8. Cardinality(A \cup T) = Cardinality(A) + Minutes(row.win)
  <2>1. Cardinality(A \cup T) = Cardinality(A) + Cardinality(T) - Cardinality(A \cap T)
    BY <1>6, <1>7, FS_Union
  <2>2. Cardinality(A \cap T) = 0
    BY <1>5, FS_EmptySet
  <2>3. Minutes(row.win) \in Nat
    BY <1>1, MinutesType
  <2> HIDE DEF A, T
  <2>4. QED
    BY <1>6, <1>7, <2>1, <2>2, <2>3
<1>9. Cardinality(A \cup T) <= Cardinality(B)
  BY <1>3, <1>4, BookedFinite
<1>10. Minutes(row.win) \in Nat \ {0}
  BY FormMinutes
<1> HIDE DEF A, B, T
<1>11. QED
  BY <1>2, <1>7, <1>8, <1>9, <1>10

LEMMA StayOffered ==
  ASSUME TypeOK, LessonsInHours, UneditedNeverOverlap, PackageWithinLimit,
         NEW l \in Lessons, Exists(lessons[l]), NotStarted(lessons[l]), Untangled(l),
         OnGrid(lessons[l].win, PracticeMin), PracticeLength(lessons[l].win)
  PROVE  lessons[l].win \in LessonOptions(l, lessons[l].instructor, lessons[l].vehicle)
<1> DEFINE row == lessons[l]
           w == row.win
<1>1. /\ row \in LessonRow /\ w \in Windows /\ row.instructor \in Instructors
      /\ row.vehicle \in Vehicles /\ now \in Ticks
  BY DEF TypeOK, Exists, LessonRow
<1>2. Editable(row) /\ w.from >= MinuteOf(now) /\ w \in FormWindows
  <2>1. w.from > now /\ w.from >= MinuteOf(now) /\ w.to > now
    BY <1>1, WindowIs, MinuteOfIs, HorizonAssumption DEF NotStarted, Ticks
  <2>2. QED
    BY <1>1, <2>1, OnGridWhole, SettingsAssumption DEF Editable, NotStarted
<1>3. LiveLesson(row) /\ LessonHolds(row) = {row.student, row.instructor, row.vehicle}
  BY DEF LiveLesson, LessonHolds, NotStarted
<1>4. ~ Busy(row.instructor, w, l) /\ ~ Busy(row.student, w, l) /\ ~ Busy(row.vehicle, w, l)
  BY <1>3, NothingAcross
<1>5. /\ ~ Busy(row.instructor, InnerPart(w), l) /\ ~ Busy(row.student, InnerPart(w), l)
      /\ ~ Busy(row.vehicle, InnerPart(w), l)
  BY <1>2, <1>4, OneFreeInside
<1>6. PackageAllows(row.course, row.student, w, l) /\ InHours(row.instructor, w)
  BY <1>2, <1>3, OwnPackage DEF LessonsInHours
<1>7. QED
  BY <1>1, <1>2, <1>6, <1>5, LessonOffer

\* And the lesson form hides nothing: every move that would be saved is offered, and so is
\* the window the lesson has (options.ts against lesson/writeModel.ts).
THEOREM NothingIsHidden == Spec => []SavableLessonsAreOffered
<1>1. ASSUME TypeOK, LessonsInHours, UneditedEventsHold, PackageWithinLimit
      PROVE  SavableLessonsAreOffered
  <2>1. OwnWindowIsOffered
    BY <1>1, StayOffered DEF OwnWindowIsOffered, UneditedEventsHold
  <2>2. QED
    BY <1>1, <2>1, MovesOffered DEF SavableLessonsAreOffered
<1>2. QED
  BY <1>1, TypeCorrect, HoursKept, PromisesKept, NoOverbooking, PTL
=============================================================================
